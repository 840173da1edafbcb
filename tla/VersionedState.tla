--------------------------- MODULE VersionedState ---------------------------
(***************************************************************************)
(* A versioned field of a session (its metadata or its agentState; both    *)
(* have the same code and each its own lock and version).  The CLI applies *)
(* a handler to its copy and sends the result with the version of the      *)
(* copy; the hub compares and sets (store/versionedUpdates.ts); the CLI    *)
(* takes over what the answer holds and, unless it succeeded, tries again. *)
(* Updates of one CLI wait for each other in an AsyncLock.  Hub handlers   *)
(* are synchronous, so what the hub changes itself is one step.            *)
(***************************************************************************)
EXTENDS Naturals, Sequences, SequencesExt, FiniteSets

CONSTANTS
    Updates,        \* calls of updateMetadata (or updateAgentState) in the CLI
    HubWrites,      \* changes the hub makes itself (rename, merge, recovery)
    MaxBreaks,      \* bound: how often the connection breaks
    MayDelete       \* whether the session may be deleted

ASSUME MaxBreaksAssumption == MaxBreaks \in Nat
ASSUME MayDeleteAssumption == MayDelete \in BOOLEAN
ASSUME UpdatesAssumption == Updates \cap HubWrites = {}

VARIABLES
    stored,         \* the row of the session: value and version
    exists,         \* the session is in the table
    copy,           \* the CLI's value and version
    permits,        \* AsyncLock.permits
    resolvers,      \* AsyncLock.promiseResolverQueue: the updates waiting for the lock
    stage,          \* where each update is
    link,           \* the CLI's socket is connected
    up,             \* the request under way on the current connection, or in the socket's buffer
    late,           \* requests sent on connections that are gone, not handled yet
    down,           \* answers and broadcasts under way to the CLI
    breaks,         \* how often the connection broke
    history,        \* (history) the value of each version
    calls           \* (history) the updates in the order they were called

vars == <<stored, exists, copy, permits, resolvers, stage, link, up, late, down, breaks,
          history, calls>>

-----------------------------------------------------------------------------
\* A value is the sequence of the changes that made it.
Values == Seq(Updates \cup HubWrites)
Versioned == [version : Nat, value : Values]
Request == [update : Updates, expected : Nat, value : Values]
Answers == {"success", "version-mismatch", "error"}
Event == [kind : Answers \cup {"update-session"}, state : Versioned]

Init ==
    /\ stored = [version |-> 1, value |-> <<>>]
    /\ exists = TRUE
    /\ copy = stored
    /\ permits = 1
    /\ resolvers = <<>>
    /\ stage = [u \in Updates |-> "idle"]
    /\ link = TRUE
    /\ up = {}
    /\ late = {}
    /\ down = <<>>
    /\ breaks = 0
    /\ history = << <<>> >>
    /\ calls = <<>>

-----------------------------------------------------------------------------
(* The hub. *)

\* UPDATE ... SET field, version = version + 1: the row after a change to value.
SetTo(value) ==
    /\ stored' = [version |-> stored.version + 1, value |-> value]
    /\ history' = Append(history, value)

\* (mutant of Matches) the WHERE clause forgets the version.
MatchesAnyVersion(r) == exists

\* The row the statement hits: the session is there and has the expected version.
Matches(r) == exists /\ r.expected = stored.version

\* updateVersionedField.
CompareAndSet(r) == IF Matches(r) THEN SetTo(r.value) ELSE UNCHANGED <<stored, history>>

\* (mutant of Result) a success answers with the version that was expected.
ResultAtExpected(r) ==
    [kind |-> IF Matches(r) THEN "success" ELSE "version-mismatch",
     state |-> [version |-> r.expected, value |-> stored'.value]]

\* (mutant of Result) the expected version is compared with the version after the update.
ResultAfterSet(r) ==
    [kind |-> IF r.expected = stored'.version THEN "success" ELSE "version-mismatch",
     state |-> stored']

\* What updateVersionedField returns, once CompareAndSet(r) is done.
Result(r) ==
    IF ~exists THEN [kind |-> "error", state |-> stored]
    ELSE [kind |-> IF Matches(r) THEN "success" ELSE "version-mismatch", state |-> stored']

\* handleUpdateMetadata, handleUpdateState: answer the sender.  The broadcast goes to the
\* other sockets of the room; there is none while this one is connected.
HubUpdate(r) ==
    /\ link
    /\ r \in up
    /\ CompareAndSet(r)
    /\ up' = up \ {r}
    /\ down' = Append(down, Result(r))
    /\ UNCHANGED <<exists, copy, permits, resolvers, stage, link, late, breaks, calls>>

\* The same for a request of an old connection: the answer goes nowhere, the broadcast to
\* the socket that took its place.
HubLateUpdate(r) ==
    /\ r \in late
    /\ CompareAndSet(r)
    /\ late' = late \ {r}
    /\ down' = IF Matches(r) /\ link
               THEN Append(down, [kind |-> "update-session", state |-> stored'])
               ELSE down
    /\ UNCHANGED <<exists, copy, permits, resolvers, stage, link, up, breaks, calls>>

\* renameSession, the merges of mergeSessionData, persistRecoveredClaudeSessionId: read and
\* write in one synchronous stretch, without a broadcast to the CLI.
HubWrite(w) ==
    /\ exists
    /\ w \notin ToSet(stored.value)
    /\ SetTo(Append(stored.value, w))
    /\ UNCHANGED <<exists, copy, permits, resolvers, stage, link, up, late, down, breaks, calls>>

DeleteSession ==
    /\ MayDelete
    /\ exists' = FALSE
    /\ UNCHANGED <<stored, copy, permits, resolvers, stage, link, up, late, down, breaks,
                   history, calls>>

-----------------------------------------------------------------------------
(* The CLI. *)

\* updateMetadata: inLock, up to the first await.
Update(u) ==
    /\ stage[u] = "idle"
    /\ calls' = Append(calls, u)
    /\ \/ /\ permits > 0
          /\ permits' = permits - 1
          /\ stage' = [stage EXCEPT ![u] = "inside"]
          /\ UNCHANGED resolvers
       \/ /\ permits = 0
          /\ resolvers' = Append(resolvers, u)
          /\ stage' = [stage EXCEPT ![u] = "waiting"]
          /\ UNCHANGED permits
    /\ UNCHANGED <<stored, exists, copy, link, up, late, down, breaks, history>>

\* The setTimeout of unlock: the next one in the queue goes on.
Resume(u) ==
    /\ stage[u] = "woken"
    /\ stage' = [stage EXCEPT ![u] = "inside"]
    /\ UNCHANGED <<stored, exists, copy, permits, resolvers, link, up, late, down, breaks,
                   history, calls>>

\* One round of backoff: apply the handler to the copy and send it; a socket that is not
\* connected keeps the packet for the next connection.
Attempt(u) ==
    /\ stage[u] = "inside"
    /\ up' = up \cup {[update |-> u, expected |-> copy.version, value |-> Append(copy.value, u)]}
    /\ stage' = [stage EXCEPT ![u] = "sent"]
    /\ UNCHANGED <<stored, exists, copy, permits, resolvers, link, late, down, breaks,
                   history, calls>>

\* The update holds the lock and waits for its answer.
Sender == CHOOSE u \in Updates : stage[u] = "sent"

\* (mutant of Unlock) whoever waits is not told.
UnlockTellsNobody(u) ==
    /\ permits' = permits + 1
    /\ stage' = [stage EXCEPT ![u] = "done"]
    /\ UNCHANGED resolvers

\* AsyncLock.unlock at the end of update u: hand the permit to the first in the queue.
Unlock(u) ==
    IF resolvers = <<>>
    THEN /\ permits' = permits + 1
         /\ stage' = [stage EXCEPT ![u] = "done"]
         /\ UNCHANGED resolvers
    ELSE /\ resolvers' = Tail(resolvers)
         /\ stage' = [stage EXCEPT ![u] = "done", ![Head(resolvers)] = "woken"]
         /\ UNCHANGED permits

\* applyVersionedAck: an answer with a version sets the copy; all but a success throw, and
\* backoff tries again.
ReceiveAnswer ==
    /\ down # <<>>
    /\ Head(down).kind \in Answers
    /\ copy' = IF Head(down).kind = "error" THEN copy ELSE Head(down).state
    /\ IF Head(down).kind = "success"
       THEN Unlock(Sender)
       ELSE /\ stage' = [stage EXCEPT ![Sender] = "inside"]
            /\ UNCHANGED <<permits, resolvers>>
    /\ down' = Tail(down)
    /\ UNCHANGED <<stored, exists, link, up, late, breaks, history, calls>>

\* The 'update-session' event: only a newer version is taken over.
Newer(state) == state.version > copy.version
ReceiveUpdate ==
    /\ down # <<>>
    /\ Head(down).kind = "update-session"
    /\ copy' = IF Newer(Head(down).state) THEN Head(down).state ELSE copy
    /\ down' = Tail(down)
    /\ UNCHANGED <<stored, exists, permits, resolvers, stage, link, up, late, breaks,
                   history, calls>>

\* The socket breaks: emitWithAck rejects what was sent (backoff tries again), but the hub
\* may still find the request in its buffers.
Disconnect ==
    /\ link
    /\ breaks < MaxBreaks
    /\ breaks' = breaks + 1
    /\ link' = FALSE
    /\ late' = late \cup up
    /\ up' = {}
    /\ down' = <<>>
    /\ stage' = [u \in Updates |-> IF stage[u] = "sent" THEN "inside" ELSE stage[u]]
    /\ UNCHANGED <<stored, exists, copy, permits, resolvers, history, calls>>

Connect ==
    /\ ~link
    /\ link' = TRUE
    /\ UNCHANGED <<stored, exists, copy, permits, resolvers, stage, up, late, down, breaks,
                   history, calls>>

\* What was under way on an old connection never arrives.
LoseLate(r) ==
    /\ r \in late
    /\ late' = late \ {r}
    /\ UNCHANGED <<stored, exists, copy, permits, resolvers, stage, link, up, down, breaks,
                   history, calls>>

-----------------------------------------------------------------------------
HubNext ==
    \/ \E r \in up : HubUpdate(r)
    \/ \E r \in late : HubLateUpdate(r)
    \/ \E w \in HubWrites : HubWrite(w)
    \/ DeleteSession

CliNext ==
    \/ \E u \in Updates : Update(u) \/ Resume(u) \/ Attempt(u)
    \/ ReceiveAnswer
    \/ ReceiveUpdate

LinkNext ==
    \/ Disconnect
    \/ Connect
    \/ \E r \in late : LoseLate(r)

Next == HubNext \/ CliNext \/ LinkNext

Spec == Init /\ [][Next]_vars

\* The event loops go on and socket.io reconnects; nobody has to rename, delete or disconnect.
Fairness ==
    /\ WF_vars(\E r \in up : HubUpdate(r))
    /\ WF_vars(\E u \in Updates : Resume(u) \/ Attempt(u))
    /\ WF_vars(ReceiveAnswer)
    /\ WF_vars(ReceiveUpdate)
    /\ WF_vars(Connect)

FairSpec == Spec /\ Fairness

-----------------------------------------------------------------------------
TypeOK ==
    /\ stored \in Versioned
    /\ exists \in BOOLEAN
    /\ copy \in Versioned
    /\ permits \in {0, 1}
    /\ resolvers \in Seq(Updates)
    /\ stage \in [Updates -> {"idle", "waiting", "woken", "inside", "sent", "done"}]
    /\ link \in BOOLEAN
    /\ up \subseteq Request
    /\ late \subseteq Request
    /\ down \in Seq(Event)
    /\ breaks \in 0 .. MaxBreaks
    /\ history \in Seq(Values)
    /\ calls \in Seq(Updates)

(***************************************************************************)
(* The CLI's copy is never a value the hub did not store at that version:  *)
(* no broadcast or answer of one version is kept under another.            *)
(***************************************************************************)
CopyIsStored ==
    /\ copy.version \in 1 .. Len(history)
    /\ copy.value = history[copy.version]

(***************************************************************************)
(* The version the CLI holds never goes back, whatever order answers and   *)
(* broadcasts of old and new connections come in.                          *)
(***************************************************************************)
VersionGrows == [][copy'.version >= copy.version]_vars

(***************************************************************************)
(* An update whose lock was released is part of the stored value: no       *)
(* concurrent write of the hub or of a retried request has removed it.     *)
(***************************************************************************)
DoneIsStored == \A u \in Updates : stage[u] = "done" => u \in ToSet(stored.value)

(***************************************************************************)
(* A handler is applied a second time only if the connection broke: with   *)
(* b breaks, at most b + 1 times.                                          *)
(***************************************************************************)
TimesApplied(u) == Cardinality({i \in 1 .. Len(stored.value) : stored.value[i] = u})
AppliedOncePerConnection == \A u \in Updates : TimesApplied(u) <= 1 + breaks

(***************************************************************************)
(* The compare-and-set protocol implements atomic updates: handlers take   *)
(* effect on the latest value, in call order, and nothing is overwritten.  *)
(***************************************************************************)
Atomic == INSTANCE AtomicUpdates WITH value <- stored.value
ImplementsAtomicUpdates == Atomic!Spec

(***************************************************************************)
(* While the session exists, every update that was called gets through and *)
(* frees the lock for the next one, however often the hub's own writes and *)
(* breaks of the connection make it try again.                             *)
(***************************************************************************)
EventuallyDone == \A u \in Updates : stage[u] # "idle" ~> stage[u] = "done" \/ ~exists
=============================================================================
