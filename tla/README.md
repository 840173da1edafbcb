# HAPI in TLA+

HAPI lets a person steer coding agents (Claude Code, Codex, Cursor, Gemini, OpenCode) that run on their own
machine from a browser. Three programs take part:

- the **CLI** (`src/cli/src`) wraps one agent per *session* and may hand it between the local terminal and the remote user;
- the **hub** (`src/hub/src`) is one Bun process with a SQLite file; it holds sessions, messages and machines, relays what
  users write to the CLI and what the agent says to the users, over Socket.IO (to CLIs), HTTP and SSE (to browsers);
- the **web client** (`src/web/src`) is a React application.

This directory holds TLA+ modules translated from that code, TLC configurations that check them on small instances, and
proofs that TLAPS checks for all values of the constants.

## Inventory

| Component | State | Operations | What is hard about it |
|---|---|---|---|
| messages table, `hub/store/messages.ts` | rows (session, seq, localId, invoked_at, content) | add, mark invoked, delete queued, merge two sessions, delete session | numbering after deletes and merges, colliding localIds |
| message delivery, `hub/sync/messageService.ts`, `hub/socket/handlers/cli/sessionHandlers.ts`, `cli/api/apiSession.ts`, `cli/utils/MessageQueue2.ts` | table, Socket.IO rooms, what is under way, the CLI's cursor and queue | POST, DELETE with a question to the CLI, broadcast, backfill, acknowledge, session end, expiry | every pair of these may interleave; connections break; answers come late |
| versioned session state, `hub/store/versionedUpdates.ts`, `cli/api/versionedUpdate.ts`, `cli/utils/lock.ts` | metadata and agentState with a version each, the CLI's copies | compare-and-set with retry, broadcast, hub-side rename and merge | a lost answer, a stale copy, two writers |
| RPC, `hub/socket/rpcRegistry.ts`, `hub/sync/rpcGateway.ts`, `cli/api/rpc/RpcHandlerManager.ts` | method -> socket, sockets -> methods | register, unregister, disconnect, call with time limit | an old connection that ends after the new one registered |
| session cache, `hub/sync/sessionCache.ts`, `hub/sync/syncEngine.ts` | active, thinking, activeAt, configuration per session | alive, end, expiry, refresh, deduplicate and merge, resume | heartbeats after the end, deduplication that is asked for while one runs |
| machine cache, `hub/sync/machineCache.ts`, `cli/api/apiMachine.ts` | active machines, their versioned state | alive, expiry, update | as for sessions |
| terminals, `hub/socket/terminalRegistry.ts`, `cli/terminal/TerminalManager.ts` | terminal -> browser socket and CLI socket, idle timers | open, write, resize, close, disconnect of either side | reconnects, limits, timers |
| event fan-out, `hub/sse/sseManager.ts`, `hub/visibility/visibilityTracker.ts` | SSE connections, who is visible | subscribe, publish, heartbeat | an event is shown twice, or not at all |
| notifications, `hub/notifications/notificationHub.ts` | known requests, timers | permission and ready notifications | debounce against an answer |
| CLI input queue, `cli/utils/MessageQueue2.ts` | queue, one waiter, closed | push, push isolated, unshift, wait, reset, close | the one waiter, which a fetch that nobody needs any more may hold |
| local/remote loop, `cli/claude/loop.ts`, `claudeRemoteLauncher.ts`, `claudeRemote.ts` | mode, runs and their agents, a batch held back over a restart | switch, abort, exit, next message | an abort, a switch or a denied tool during a turn; a run that ends while its fetch still waits |
| permission handlers, `cli/modules/common/permission`, `cli/claude/utils/permissionHandler.ts` | pending requests, tool calls seen, rules and mode, agentState | ask, look the call up, answer, deny, cancel all | requests that do not name their call; an answer after a reset; an agent left behind |
| outgoing order, `cli/claude/utils/OutgoingMessageQueue.ts` | queue with delayed items | enqueue, release, flush | a delayed item against the flush |
| scanners, `cli/modules/common/session/BaseSessionScanner.ts` | cursors, processed keys | scan, new session | a file that grows during a scan |
| agent transports, `AcpStdioTransport.ts`, `codexAppServerClient.ts`, `claude/sdk/query.ts` | pending JSON-RPC requests | send, answer, exit | a process that exits with requests pending |
| runner daemon, `cli/runner/run.ts`, `cli/persistence.ts`, `cli/runner/controlClient.ts` | state file and lock file, shared by all runner processes; tracked children, awaiters, worktrees | start, version check, stop, heartbeat, upgrade, shutdown; spawn, report, time limit, exit | files are judged and removed by name at different times; a report that comes after its time limit or to another runner |
| web message window, `web/lib/message-window-store.ts` | visible and waiting messages, cursor, calls in flight | load latest, load older, live event, scroll, optimistic send | answers and events overtake each other; trims at either end |

`PROJECT.json` lists them with the files, what is modelled of them, and the hazards with their lines.

## Modules

| Module | Models |
|---|---|
| `MessageRows` | the statements on the messages table as operators on a set of rows |
| `MessageTable` | the table as state, and what is to hold of it whoever uses it |
| `MessageStore` | the table as a state machine: any statement, at any time. This is what the rest of the hub may rely on |
| `MessageDelivery` | one session: browser tabs, hub, connections and CLI, with the table inside; it implements `MessageStore` |
| `MessageDeliveryProofs` | the proofs of both |
| `AtomicUpdates` | what `updateMetadata` and `updateAgentState` promise: atomic updates, in call order, nothing overwritten |
| `VersionedState` | the protocol that keeps the promise: compare-and-set on the hub, copy, lock and retry in the CLI |
| `VersionedStateProofs` | its proofs |
| `RpcDirectory` | what the RPC registry promises: each method leads to an open connection or to none |
| `RpcRegistry` | registry, calls and the CLI's handlers over reconnects and restarts of either side; it implements `RpcDirectory` |
| `RpcRegistryProofs` | its proofs |
| `Conversations` | what the hub promises about histories: messages of one session stay together until a user deletes them |
| `SessionCache` | the sessions of a namespace: heartbeats, ends, silence, restarts, deduplication, resume; it implements `Conversations` |
| `SessionCacheProofs` | its proofs |
| `InputQueue` | what `MessageQueue2` does to its list, as operators on a sequence |
| `ClaudeLoop` | the process around Claude Code: local and remote mode, runs, agents, and the queue that feeds them |
| `ClaudeLoopProofs` | its proofs |
| `RunnerLock` | runner processes with their state file and lock file: start, replacement, heartbeat, upgrade, end |
| `Runner` | the same runners with the session processes they start, stop and hear of; it extends `RunnerLock` |
| `RunnerProofs` | its proofs |
| `ToolPermissions` | a tool call's permission in remote mode: the agent's output, its reader, the handler's tables, users' answers |
| `ToolPermissionsProofs` | its proofs |
| `MessageWindow` | one browser's window on a session's messages, with the hub's rows, pages and events |
| `MessageWindowProofs` | its proofs |
| `MCMessageStore`, `MCMessageDelivery`, `MCVersionedState`, `MCRpcRegistry`, `MCSessionCache`, `MCRunner`, `MCToolPermissions` | instances for TLC |

Who composes whom: `MessageDelivery` has the table (`MessageTable`) inside and implements `MessageStore`; `Runner` is `RunnerLock`
with children; `ClaudeLoop` uses `InputQueue`. The path of a user's message goes through three modules:
`MessageDelivery` takes it from a tab to the CLI's queue (and has the queue as a plain list), `ClaudeLoop` from that
queue to an agent, and `MessageWindow` shows what became of it. `ToolPermissions` is the part of `ClaudeLoop` that the latter abstracts to one denied call:
what happens between an agent's request and the answer it gets. Its answers come over the calls of `RpcRegistry`, and what users see of it is
the agentState of `VersionedState`.

### MessageRows, MessageTable and MessageStore

A row is a record with the columns of the table; content and timestamps are model values and small numbers. `rows` is the
set of all rows of all sessions, as the SQL statements select from the table and not from a session. `AddMessage`
returns an existing row for a localId that is there already, as the code does; `Merged` renumbers the rows of the target
session above those of the source (`MergeSessionMessages`), re-keys the source's rows and stamps those whose localId
collides. Creation order of rows that one statement does not reorder is `OrderKept`. `InvokedIsFinal` is about `Statement`, that is, each
insert, stamp, cancellation and merge: a row that is invoked is there afterwards, in one session or the other, with the timestamp it had. Only
`DeleteSession` takes one away.

### MessageDelivery

A tab has one request in flight, for any message, and may repeat it; a POST may also come without a localId. `tab[t]` has the stages of its POST and its DELETE in
the hub, at the grain of the handlers' `await`s: the POST handler checks the session, awaits the body and stores; the
DELETE handler looks the row up, counts CLI sockets, and either deletes at once (`CancelOffline`) or asks the CLI
(`CancelAsk`) and later settles (`Settle`) by the answer, or by the 500 ms limit (`CancelTimeout`). `down` and `up` are
the events under way to and from the CLI, in order per connection, lost with it. The CLI has its cursor
(`lastSeenMessageSeq`), its queue (`MessageQueue2`), and a backfill that is asked, answered by the hub from the table as it is
then, and processed later. A page of it is a set of rows; `HandleIncoming` takes
those the CLI has not seen in ascending order, as the loop over an answer sorted by `seq` does. Another session has rows of its own, queued
or not, with localIds that this one may hold too (`OldSessionMessage`, `OldSessionEnd`), until `MergeIn` brings them here. Taking a batch and emitting `messages-consumed` is one synchronous stretch of the CLI.

The history variables `ran`, `withdrawn` and `reported` record what the agent was given, what a cancellation took off the queue and
what a tab was answered; no action reads them in a guard.

Five interleavings of this module contradict what a comment or a document says of the code. None of them violates a property
that a run checks, since the properties are stated for what the code does keep:

- A backfill page that was read from the table before a DELETE puts the message into the CLI's queue again after it was
  cancelled (`messageService.ts:182` means to exclude this). `CancelledNotQueued` is about the row, which stays away.
- A CLI that answers a cancellation after the 500 ms has withdrawn a message that the hub stamps as sent (`messageService.ts:221`):
  no agent will see it, and the user is told that it was too late.
- A POST admitted before `session-end` stores its row afterwards (`sessionHandlers.ts:302`, `routes/messages.ts:83`): nobody
  runs or expires it until the session is resumed.
- The backfill gives the CLI the messages that its own user typed at the terminal (`messages.ts:55`, `apiSession.ts:286`).
- Numbers are `MAX(seq) + 1` (`messages.ts:47`): after the newest row was deleted its number is used again, and a CLI that saw
  the old row takes the new message for one it has seen.

### VersionedState

One versioned field (metadata and agentState have the same code). A value is the sequence of the changes that made it, so that
a lost change shows. `stage[u]` follows a call of `updateMetadata`: it waits in `AsyncLock`'s queue, is woken
by a timer, applies its handler to the copy and sends, and tries again until the answer is a success. Requests of a
broken connection may still be handled, later, or never (`late`). The hub's own writes (rename, merge, recovery of a
session id) are one synchronous read and write each. Left out: values that do not parse.

### RpcRegistry

The hub's two maps (method -> socket, socket -> methods), the sockets it holds open, and each side's view of the CLI's connection.
`registers[c]` are the `rpc-register` packets under way on connection `c`; they may still be read after the CLI
has a new connection, and the hub may see the end of `c` before or after that (`HubDisconnect`). `overtaken` (history) holds the
methods that an older connection registered after the current one: for those alone the code does not keep the
handler reachable. A call looks its socket up, waits for the answer or the time limit; the CLI runs the handler
in any case. A hub restart forgets both maps, a CLI restart its handlers.

### SessionCache

`session` maps the ids that exist to what the deduplication reads: the agent thread in the metadata, `active` and
`updatedAt`. `home` says which session a message is in. A CLI (`cli[s]`) creates a session, beats, reports its thread
(and may report another one later), writes, ends or dies; the hub archives, lets any set of silent sessions expire,
deletes, restarts (all sessions become inactive); `resume[r]` is a POST that waits for the agent it had spawned.

`deduplicateByAgentSessionId` is `async`, but what it awaits (the merges) has no `await` of its own on a
timer or socket: it runs to its end in microtasks, before any other event. It is therefore an operator, `Deduplicate`, that is part of
the actions that ask for it. For the same reason its branch for an active duplicate (sessionCache.ts:776) is never taken:
two active sessions end the run earlier. Three things are left open, which makes the model allow
more than the code: which sessions are silent (`activeAt` is the CLI's clock), which of several equal
candidates sorts first by `activeAt`, and whether a merge or a message stamps the session. A message may be stored after its session
ended, as the POST handler awaits the body in between. A merge that fails in the database, which ends a deduplication early, is left out.

`missed` and `deleted` are history variables. `missed` holds the threads on which something changed without a
deduplication (a restart, an explicit merge by a resume, a move to another thread, an id recovered from messages), and loses them at the
next heartbeat, end or silence there: `DuplicatesAreLive` says that nothing else leaves duplicates behind.

### RunnerLock

`pc[r]` follows a runner process through `startRunner`: `Check` and `Match` read the state file and compare the version, `ClearFile` and
`ClearLock` remove the files of a dead runner (two steps, as in `clearRunnerState`), `StopOther` and `AwaitDeath` are
`stopRunner`, `Open`, `Judge`, `Unlink` and `Name` the loop of `acquireRunnerLock`, `WriteFile` the first write of the state. Each
`await` ends a step, and a file is only a name: what one process judged stale another may have replaced when the first
removes it. `HeartbeatRead` and `HeartbeatWrite` are the two halves of a heartbeat, `Outdated` and `HangOut` its upgrade branch, `Close`,
`ClearFile`, `ClearLock` and `Release` are `cleanupAndShutdown`. `Crash` ends a process at any step with its files left. `tries`
counts attempts at the lock, `seen` is what a process has read and not used yet. `overlap` is the one timing assumption (see Fairness).

`Match` compares the version and what else the file says of the hub, the machine and the token (`controlClient.ts:202`); that identity may differ at any time,
so the outcome is open where the versions agree.

The lock does not exclude: two starts that judge the same stale files may both get through (`persistence.ts:195` and `:226`
against `:206`), and so may a start during another's shutdown. What the code does achieve is `Settles`: the heartbeat makes all but
one of them end, and the one that stays is the one that the state file names. Process ids are not used again, and a process
does not read its file half written.

### Runner

Adds the session processes. `Spawn` is `spawnSession` up to its wait; `Report` is the child's one POST to whichever runner the state file
names at that time, with `onHappySessionWebhook` (`Handle`) in its three branches: awaited, unknown (killed), or
started in a terminal. `Timeout` is the awaiter's limit, with the kill and `maybeCleanupWorktree`; `ChildExit` the `exit`
listeners; `StopSession` is the request of a user. `Lifecycle` is any step of `RunnerLock`, in which a heartbeat also prunes what
is gone and a runner that ends forgets its map, while its children live on.

### InputQueue and ClaudeLoop

A step of `ClaudeLoop` is one turn of JavaScript's event loop, with the microtasks that follow. `nextMessage` is asynchronous and its
parts run as microtasks: `asking` is the run whose fetch is at work, and nearly every other action waits until it is
`Quiet`; only further messages of the same page of the backfill come between. `waiter` is the queue's single slot: `waitForMessagesAndGetAsString`
of a second fetch takes it from the first. `pending` is the batch that was taken and held back because its mode differs
(`runMainLoop`), and goes to the next run first. `loop` goes through `first` (the run waits for its first message), `agent`, `flushing`
(`claudeRemote` has returned) and, for local mode, `scanning`, `local` and `turning`.

A denied tool makes `claudeRemote` return at the tool's result, but its process and its fetch stay; an abort makes the agent's stream fail at once; the flush of the outgoing
messages may take turns, in which the fetch of the run that has ended is still the waiter. `agents[r].heard` collects the modes an
agent was given. `given` and `excused` are history variables: what was written to agents, and which messages had a reason to go (withdrawn,
cleared by a command or by an abort in local mode, held back when a switch or an exit came).

"Given" means written to the input of the current run. While a run that ended by itself flushes its output
(`claudeRemoteLauncher.ts`, `await messageQueue.flush()`), its fetch may still be the queue's waiter: a message that comes then is taken,
reported as consumed, and pushed to an input that nobody reads any more (`claudeRemote.ts:203`). So each entry of `given` says whether the run was
still going and had its agent (`read`). `LostForReason` counts only those as arrived: a message that was handed to a run already over is there one
of the reasons, named as such, and the only one that a run which ends by itself adds. An agent that a denied call left behind may still read such a
message, but its output goes nowhere.

### ToolPermissions

An agent writes the message with its calls and then one request per call to its output (`stdout`). `Query.readMessages` reads the lines in order, and
waits at a request until it is answered (`reading`); the other lines go to `stream`, from which `claudeRemote` takes them when it gets to
them (`Consume`). The request names tool and input only, so `resolveToolCallId` takes the last such call of which it has seen the
message (`Matching`, `Found`), once more after a second (`LookAgain`). Rules and the mode are looked at first. `Receive` is the RPC `permission` with
`handlePermissionResponse`; an approval may bring a mode that turns the bypass on or off, a denial brings none, as the hub sends none with it (`rpcGateway.ts:101`). `EndRun` is the `reset` after a run, which rejects what waits; `Begin` and `Message` are `nextMessage`, as far as it sets the
mode. `Kinds` are commands of `Bash`, as an answer can allow one of them for good. An agent that a denial left behind (`r < run`)
goes on asking the same handler. `grantedBy` is a history variable.

What the code does in the corners, which the properties are stated around:

- Of two like calls in one message the first request is matched with the last of them, so the second finds that one used, waits a second and
  fails with "Could not resolve tool call ID" (`permissionHandler.ts:415`); the answer is recorded under the id of the other call. A
  denial that is under the id of a call with another fate may not end the run, so `DenialEnds` is about a call whose id was denied and
  that was told so; a denial recorded only under the id of a like call is not covered by any property.
- The request of an agent that was left behind may be matched with a like call of the next run, or pass by the next run's mode and rules.
- While a request waits, nothing else of that agent's output is read, its cancellation of the request included (`query.ts:131`).

Left out: questions to the user, the mode `acceptEdits`, prefix rules, an input stream that fails.

### MessageWindow

One browser, the hub's rows with the clock that stamps them, the SSE channel (in order, lost with its connection) and the calls of
`fetchLatestMessages` and `fetchOlderMessages` (`latest`, `older`), each asked, answered by the hub from the rows as they are then, and
merged later or failed. Messages have distinct positions and the lists of the code are always sorted, so they are sets here.
`Grown` is `trimVisible` with the cursor updates of an append, `Ingest` the live message, `Acked` `markMessagesConsumed`,
`ScrollDown` `flushPending`. `Resend` is a POST that is tried again: the hub tells of the row it has once more, in the state it is in.
Left out: how a window without a position pages back, by sequence number (`fetchOlderMessages`), which this hub's answers lead to only
after an empty page.

`whole` and `sound` are history variables. `Complete` promises that a message of the hub is shown or can be paged back to, as long as
`whole` holds; it ends, until the next complete page, in the cases where the code leaves a gap:

- the latest page came while the user read further up: it waits in `pending`, but its cursor is taken over, and `hasMore` is not;
- an older page was trimmed at the new end of the window, or a trim had moved the cursor since it was asked for;
- a trim dropped messages newer than a queued one that stays, and the cursor is the position of the latter (`cursorUpdatesAfterAppendTrim`);
- a trim took the cursor back behind a page: after a reconnect the latest page is merged into the old window even if more than a page was
  missed in between, which the page's cursor allows for; the next trim sets the cursor to the oldest message that stays, and what lies in between
  is neither shown nor asked for (`Rewound`, same function);
- more messages waited than `PENDING_WINDOW_SIZE`, and the fetch that is to make up for it was skipped because one was on its way;
- a connection broke; if a fetch was on its way when it came back, the one for the new connection is skipped.

`QueuedStays` is about the bar of queued messages, and about any message in it that the hub still has: also one that the hub has stamped already
while the acknowledgement is under way, or was lost with its connection. It stays until the browser is told by the event or by a page.

## Runs

| Run | Instance | Shows |
|---|---|---|
| `store` | 2 sessions, 2 localIds, 4 rows | keys, acknowledgement paths, finality and order over all sequences of statements, merges in both directions |
| `delivery` | 2 messages of a tab, 1 of the CLI, cancel, retry, 1 reconnect with backfill | the agent gets each message at most once and in order; withdrawn means not run |
| `delivery_merge` | 2 rows with 2 localIds, one a `/clear`, or with none; pages of one row, session end, expiry, the CLI dies, merges that bring queued and colliding rows | implements `MessageStore`; acknowledged means run, also after a merge; a cancelled row is never queued again |
| `versioned` | 3 updates, 2 writes of the hub, 2 breaks, deletion | implements `AtomicUpdates`; the copy matches its version, versions grow, what is done stays, repeats are bounded by breaks, every update gets through |
| `rpc` | 2 methods, 2 connections, 1 call, restarts of hub and CLI | implements `RpcDirectory`; handlers stay reachable; no "Method not found", no "socket disconnected" |
| `sessions` | 3 sessions, 2 threads, 2 messages, 1 resume, restarts, 2 timestamps | implements `Conversations`; what goes had ended, or was silent, resumed or deleted, and its successor is live or no older; duplicates are accounted for |
| `claude_loop` | 3 messages or commands of 2 modes, 1 refusal, 3 runs | messages reach the current run once and in order; none is lost without a reason, an input that nobody reads among them, or left; aborts, switches and exits are answered |
| `claude_modes` | 2 messages, 2 modes, 3 runs | *violation expected*: an agent is given a message of another mode |
| `runner_lock` | 3 runner processes, 2 attempts at the lock | in the end at most one is up, and the state file names it |
| `runner` | 2 runners, 1 session process, worktrees | failed starts leave no process, no session and no worktree in use; nothing else is killed or forgotten |
| `permissions` | 3 calls, 2 of them alike, 2 agents, 1 answer at a time | an approval lets one call pass, and one the user was shown; a denial ends the run; nobody who asks waits for ever |
| `window` | 3 rows, window of 2, pages of 1, 1 waiting, 2 events under way, 5 instants | what is not shown can be paged back to; a queued message stays until the browser is told of its acknowledgement or cancellation |

`claude_modes` states what `MessageQueue2.ts:12` says of the queue (batches of one mode) for the agent that is fed from it. After a restart for
another mode `nextMessage` returns the batch it held back without noting its mode (`claudeRemoteLauncher.ts:309`), so the
message after it is written to the same agent whatever its mode is.

**Bounds.** Two messages are enough for every ordering property (a pair is what is compared) and for a merge collision;
one reconnect gives an old and a new connection and a stale backfill; two pages of one row give a cursor between pages.
Three updates let one wait behind
one that waits; two breaks give two late requests that race with the current one; an old and a
new connection are what the registry can confuse. Three sessions let two be merged into a third, or a resume
meet a duplicate; two messages can be torn apart; two timestamps make one session older. Two agents and a free name for the next run are what `ClaudeLoop` can
confuse: the current one and one that is left behind; a third message may stand behind one that is held back. Two calls that are alike can be confused with each
other and must not be with the third; one answer at a time suffices, as it may arrive after any number of other steps. Two runners at a
time race for the files, a third may start over the remains of both. For reports two runners are enough: the one that spawned
and another one. A window of two with pages of one makes the third row trim, and a page meet a
trimmed window; the gap `Rewound` needs a window of three, which simulation showed, and `AlwaysComplete` is proved for all sizes. Every bound is a constant, `Max...` or a size, in its module. `store`, `delivery` and `sessions`, which check
safety only, take interchangeable ids together (symmetry).

**Fairness.** `versioned` assumes weak fairness of the hub's handling, the CLI's attempts and answers, and of reconnecting (socket.io retries for ever). `claude_loop` assumes it of the
process's own steps, of the agent that ends its turn or answers a refused call, and of an agent's end once it
is killed or its input has ended between turns (`AgentStops`); users owe nothing. `runner_lock` assumes it of every step of a
process but its launch and its crash; a signal, a user's stop and an upgrade are free. The heartbeats are a minute apart and a read takes
milliseconds, so a heartbeat that was under way when another runner wrote is over when that runner reads again: `overlap` says
just this, and without it two runners could take the file from each other for ever. `runner` assumes weak fairness of the time limit, of the
end of a signalled process (SIGKILL follows SIGTERM) and of the `exit` event. `permissions` assumes it of the
programs together, of agents that report what they were told, and of users that answer what they are shown: the code has no time limit for
them, so without the last part a request may rightly wait for ever. `store`, `delivery`, `delivery_merge`, `rpc`, `sessions`
and `window` check safety only.

## Proofs

Each proof module states an inductive invariant, proves that the initial states have it and that every action keeps it, and takes
the theorems from it. TLC checked each invariant on a small instance first. The theorems hold for all values of the constants:
any number of sessions, messages, tabs, pages, connections, runners, children, runs and calls. The assumptions are those on the constants, each a named
`ASSUME` in its module, and, for three theorems of `MessageDeliveryProofs`, `NoMerge`.

- `MessageDeliveryProofs`, first part, about `MessageStore`: `StoreTypeCorrect`, `SeqIdentifies`, `LocalIdIdentifies`, `AckPath`, `InvokedFinal`,
  `OrderIsKept`. The inductive invariant `StoreInv` is the conjunction of the type, the two keys and the acknowledgement path: the renumbering of a merge needs the
  uniqueness of numbers on both sides, and the stamp of a colliding row needs the uniqueness of localIds.

- `MessageDeliveryProofs`, second part, about `MessageDelivery`, has three invariants, each on top of the one before.
  `DInv` adds to the table's what the handlers hold across an `await`: a DELETE that is being settled refers to a row whose id
  is never used again. It gives `Implements` (every step of the protocol on the table is a statement of `MessageStore`, or
  leaves it alone), hence `TableKept` (what holds of the table holds here), and `CancelledStaysCancelled`.
  `AckInv` adds the packets: the CLI acknowledges only what it gave the agent, and only such localIds are on their way in a
  `messages-consumed`. It gives `AcknowledgedWasRun`, merges included. `TypeCorrect` is proved along with it.
  `OrderInv` adds the cursor and the queue. Among the rows in the table, in a broadcast and in a page, an id has one number and a number one id;
  what the CLI has taken is not above its cursor; what ran, what is queued and what waits for the callback follow each other
  in the order of the table; nothing withdrawn is among them. A broadcast or a page can then only add rows above the cursor, hence new ones.
  This gives `AtMostOnce`, `InOrder` and `WithdrawnForGood`.
  These three are stated for behaviours in which no other session's history is merged into this one (`NoMerge`): a merge renumbers the session's
  rows (`mergeSessionMessages`), and rows the CLI has taken come again under numbers above its cursor.

- `VersionedStateProofs`: `Implements` (the protocol implements `AtomicUpdates`), `CopyIsAlwaysStored`, `DoneStaysStored`,
  `VersionOnlyGrows`, `AppliedOnce`. The inductive invariant `IInv` says that a version identifies a value (in the row, the copy, every
  request and every event), that events come in the order of their versions, that the lock serves in call order,
  and that a late request can no longer match once its update is done. Without the last part a request of an old connection could
  apply an update after its successor. For `AppliedOnce` a part counts (`BreaksOK`): the applications so far, the late requests that could still
  apply the update, and one if it may be sent again on this connection, are together at most the breaks so far plus one.

- `RpcRegistryProofs`: `TypeCorrect`, `Implements`, `MapsAlwaysAgree`, `AlwaysReachable`, `MethodAlwaysFound`. To the properties themselves the
  inductive invariant adds that nothing has happened yet on connections not made, and that what is, or will be,
  registered on the CLI's connection are handlers it has.

- `SessionCacheProofs`: `TypeCorrect`, `DuplicatesAlwaysLive`, `OnlyTheRightEverGo`, `Implements` (of `Conversations`). The argument goes by two
  lemmas on a deduplication: what it absorbs and into what (`DeduplicateMerges`), and that no trigger's thread stays
  mergeable (`DeduplicateSettles`). To the properties the inductive invariant adds that no stamp is in the future (else a session
  that reports its thread could go although it is the latest) and that a resume's new session is not its old one.

- `RunnerProofs`: `TypeCorrect`, `NeverGhosts`, `AlwaysTracked`, `WorktreesAreFree`, `SignalsHaveReasons`. The properties are inductive only together
  with where an entry comes from: a child that a runner lists as its own is its child, one that is listed as started outside was started
  in a terminal and has reported, which it does once (`TrackedByParent`); a child that was never started is in no map (`NoHistory`); and the state
  file, like what a process has read of it, names runners that were up (`FileNamesRunners`), so a report never reaches one that has yet to start.

- `ClaudeLoopProofs`: `TypeCorrect`, `LossesHaveReasons`, `OrderKept` and, of steps, `OnlyTheLatest`. `OldestFirst` orders the three places a message can be
  in: what was given is older than the batch held back, and that is older than what is queued; without the middle one a restart could give a batch
  too late. `FetchIsCurrent` says when the one fetch is at work and whose it is: it waits only while nothing is queued or held back, which is why it may
  be handed the next message directly.

- `ToolPermissionsProofs`: `TypeCorrect`, `ApprovedOnlyOnce`. The handler guesses the call from tool and input, so the invariant follows a call from the agent's output on: the line
  that announces it comes once (`ComesOnce`) and before the handler lists it (`ListedLater`), it is listed once (`ListedOnce`), and
  users are asked about an id once, for a call of the same kind that is not approved yet (`AskedOnce`).

- `MessageWindowProofs`: `TypeCorrect`, `AlwaysComplete` and, of steps, `QueuedStay`. Events and pages overtake each other, so the invariant compares
  every copy of a message with the hub's row: all agree with it but for an acknowledgement whose event is still to come. Then each
  message is shown or waits, or comes with an event of this connection, or is behind the cursor where a page reaches it. For that to survive the calls, an
  answered latest page has what is neither shown nor coming, or leaves it within reach of its cursor (`SoundOK`), and an answered
  older page covers what lies below the bound it was asked with (`OlderOK`). `QueuedStays` needs of this that all versions of a
  message agree with the hub's but for the acknowledgement: if no version the browser has or gets is acknowledged, whichever a merge
  picks is queued, and a trim takes from what is not.

Only model-checked:

- all liveness, which is out of TLAPS's reach: `EventuallyDone`, `Settles`, `NoOrphans`, `EverySettled`, `RequestsEnd`, `DenialEnds`, `EveryAskAnswered`;
- `OneModePerAgent`, which does not hold.

The type invariants are proved and are in no run: as `TypeCorrect` where it is listed, in `VersionedState` as part of `IInv`.

## Not modelled

`PROJECT.json` gives the reason for each component. In short: components that relay or render without deciding anything the models
keep (terminals, notifications, the Telegram bot, user interface, event converters, routes); input and output with foreign programs
(tunnel, scanners, agent transports); and tables that follow the pattern of one that is modelled (machine cache, the launchers of the other
agents). Within modelled components: the SSE copies for several tabs, optimistic messages and Codex's agent-run
messages of the window, the configuration and todos of a session, values that do not parse, `rpc-unregister`, `pushImmediate` and `close` of
the queue, the machine's record of a runner,
the permission handlers of the other agents (their requests name the call).

## Roadmap

What is left, in this order.

| Work | What it needs |
|---|---|
| `TerminalRegistry`, `EventFanout`, `OutgoingQueue` | modules of their own: ownership by two sockets, who is told once, a delayed item against the flush |
