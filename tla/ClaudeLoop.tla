----------------------------- MODULE ClaudeLoop -----------------------------
(***************************************************************************)
(* The loop around Claude Code in one session process (cli/src/claude):    *)
(* local mode, where the user's own terminal runs Claude and any message   *)
(* ends it, and remote mode, where runs of claudeRemote follow each other, *)
(* each with an agent process of its own that is fed from the input queue. *)
(*                                                                         *)
(* A step is what JavaScript does without going back to its event loop.    *)
(* A call of nextMessage goes on in the same turn of the event loop in     *)
(* which it was made or its waiter was called: nothing but another message *)
(* of the same page comes between (`asking').                              *)
(***************************************************************************)
EXTENDS InputQueue

CONSTANTS
    Runs,        \* runs of claudeRemote that something is left of, with their agents
    None,        \* no run, no mode
    Modes,       \* what the hash of a message's mode tells apart (model, effort, plan or not ...)
    PlainMode,   \* the hash of a mode that only has a permission mode
    MaxMessages, \* messages of the user
    MaxRefusals, \* tool calls that are denied, plans that are left
    LocalFailure \* what getLocalLaunchExitReason answers: "switch" or "exit"

ASSUME LoopAssumption ==
    /\ None \notin Runs \cup Modes
    /\ PlainMode \in Modes
    /\ MaxMessages \in Nat
    /\ MaxRefusals \in Nat
    /\ LocalFailure \in {"switch", "exit"}

VARIABLES
    queue,    \* MessageQueue2.queue
    waiter,   \* the run whose fetch is MessageQueue2.waiter
    asking,   \* the run whose nextMessage is at work
    pending,  \* <<batch>> when runMainLoop's `pending' holds one
    loop,     \* where the loop is
    run,      \* the current run of claudeRemote
    exit,     \* exitReason of the launcher
    aborted,  \* the abort controller of the current run, or of the local launcher
    modeHash, \* modeHash of the current run
    ended,    \* inputEnded of the current run
    agents,   \* per run: its Claude process, whether one of its tool calls was refused, modes it was given
    received, \* number of messages of the user so far
    refusals, \* refused tool calls so far
    given,    \* history: batches handed to runs, and whether the run was still reading
    excused   \* history: messages withdrawn, cleared by a command or by an abort in local mode,
              \* held back when the remote launcher was told to switch or to exit, or taken by
              \* the fetch of a run that was already over

queueVars == <<queue, waiter, asking>>
launchVars == <<loop, run, exit, aborted>>
inputVars == <<pending, modeHash, ended>>
vars == <<queueVars, launchVars, inputVars, agents, received, refusals, given, excused>>

Remote == {"first", "agent", "flushing"}
Gone == [state |-> "none", refused |-> FALSE, heard |-> {}]

Init ==
    /\ queue = <<>>
    /\ waiter = None
    /\ asking = None
    /\ pending = <<>>
    /\ loop \in {"scanning", "turning"}
    /\ run = None
    /\ exit = None
    /\ aborted = FALSE
    /\ modeHash = None
    /\ ended = FALSE
    /\ agents = [r \in Runs |-> Gone]
    /\ received = 0
    /\ refusals = 0
    /\ given = <<>>
    /\ excused = {}

-----------------------------------------------------------------------------
(* The queue and those who wait for it. *)

Quiet == asking = None

Queued == {queue[i].id : i \in DOMAIN queue}
Held == UNION {{pending[i].ids[j] : j \in DOMAIN pending[i].ids} : i \in DOMAIN pending}

\* A change of the queue calls the waiter, whose fetch goes on.
Notify ==
    IF waiter = None THEN UNCHANGED <<waiter, asking>>
    ELSE waiter' = None /\ asking' = waiter

\* A message of the user.  In local mode it asks for remote mode (setOnMessage).
Receive(kind, mode) ==
    LET item == [id |-> received + 1, mode |-> mode, kind |-> kind] IN
    /\ Quiet \/ waiter = None
    /\ received < MaxMessages
    /\ loop # "over"
    /\ received' = received + 1
    /\ queue' = Pushed(queue, item)
    /\ excused' = IF Isolated(item) THEN excused \cup Queued ELSE excused
    /\ Notify
    /\ IF loop = "local"
       THEN aborted' = TRUE /\ exit' = IF exit = None THEN "switch" ELSE exit
       ELSE UNCHANGED <<aborted, exit>>
    /\ UNCHANGED <<loop, run, inputVars, agents, refusals, given>>

\* cancelByLocalId.
CancelQueued(i) ==
    /\ Quiet
    /\ queue[i].kind # "restart"
    /\ queue' = Cancelled(queue, i)
    /\ excused' = excused \cup {queue[i].id}
    /\ UNCHANGED <<waiter, asking, launchVars, inputVars, agents, received, refusals, given>>

-----------------------------------------------------------------------------
(* nextMessage and what claudeRemote does with its answer. *)

First(r) == r = run /\ loop = "first"

Handed(r, batch, read) == given' = Append(given, [ids |-> batch.ids, to |-> r, read |-> read])

\* The first message starts the agent; /clear only ends the run.
Start(r, batch) ==
    /\ Handed(r, batch, TRUE)
    /\ IF batch.kind = "clear"
       THEN loop' = "flushing" /\ UNCHANGED agents
       ELSE /\ loop' = "agent"
            /\ agents' = [agents EXCEPT ![r] =
                   [state |-> "working", refused |-> FALSE, heard |-> {batch.mode}]]
    /\ UNCHANGED excused

\* A later one is pushed to the agent's input, also by a fetch that has outlived its
\* run: to a process that has gone, or that a refused call left behind with nobody
\* listening to it.
Push(r, batch) ==
    /\ Handed(r, batch, r = run /\ loop = "agent")
    /\ agents' = IF agents[r].state = "none" THEN agents
                 ELSE [agents EXCEPT ![r].state = "working", ![r].heard = @ \cup {batch.mode}]
    /\ excused' = IF loop = "flushing"
                  THEN excused \cup {batch.ids[i] : i \in DOMAIN batch.ids} ELSE excused
    /\ UNCHANGED loop

\* After an abort streamToStdin stops and drops it.
Hand(r, batch) ==
    IF First(r) THEN Start(r, batch)
    ELSE IF ~aborted THEN Push(r, batch)
    ELSE UNCHANGED <<loop, agents, given, excused>>

\* (mutant of NoMore) The input of the agent stays open.
NoMoreOpen(r) ==
    IF First(r)
    THEN loop' = "flushing" /\ UNCHANGED ended
    ELSE UNCHANGED <<ended, loop>>

\* null: there is no first message, or the input of the agent ends.
NoMore(r) ==
    IF First(r)
    THEN loop' = "flushing" /\ UNCHANGED ended
    ELSE ended' = (ended \/ r = run) /\ UNCHANGED loop

Known(r) == IF r = run THEN modeHash ELSE None

MustRestart(r, batch) ==
    \/ Known(r) # None /\ batch.mode # Known(r)
    \/ Isolated(batch)

TakePending(r) ==
    /\ asking = r
    /\ pending # <<>>
    /\ asking' = None
    /\ pending' = <<>>
    /\ Hand(r, pending[1])
    /\ UNCHANGED <<queue, waiter, run, exit, aborted, modeHash, ended, received, refusals>>

\* (mutant of TakeBatch) A batch that is held back does not go first.
TakeBatchFirst(r) ==
    LET batch == [ids |-> Ids(Batch(queue)), mode |-> queue[1].mode, kind |-> queue[1].kind] IN
    /\ asking = r
    /\ queue # <<>>
    /\ asking' = None
    /\ queue' = Rest(queue)
    /\ IF MustRestart(r, batch)
       THEN /\ pending' = <<batch>>
            /\ NoMore(r)
            /\ UNCHANGED <<modeHash, agents, given, excused>>
       ELSE /\ modeHash' = IF r = run THEN batch.mode ELSE modeHash
            /\ Hand(r, batch)
            /\ UNCHANGED <<pending, ended>>
    /\ UNCHANGED <<waiter, run, exit, aborted, received, refusals>>

\* collectBatch, which also reports the batch as consumed.
TakeBatch(r) ==
    LET batch == [ids |-> Ids(Batch(queue)), mode |-> queue[1].mode, kind |-> queue[1].kind] IN
    /\ asking = r
    /\ pending = <<>>
    /\ queue # <<>>
    /\ asking' = None
    /\ queue' = Rest(queue)
    /\ IF MustRestart(r, batch)
       THEN /\ pending' = <<batch>>
            /\ NoMore(r)
            /\ UNCHANGED <<modeHash, agents, given, excused>>
       ELSE /\ modeHash' = IF r = run THEN batch.mode ELSE modeHash
            /\ Hand(r, batch)
            /\ UNCHANGED <<pending, ended>>
    /\ UNCHANGED <<waiter, run, exit, aborted, received, refusals>>

\* (mutant of Wait) A second fetch stands in line behind the first.
WaitInLine(r) ==
    /\ asking = r
    /\ pending = <<>>
    /\ queue = <<>>
    /\ asking' = None
    /\ IF aborted
       THEN NoMore(r) /\ UNCHANGED waiter
       ELSE waiter' = (IF waiter = None THEN r ELSE waiter) /\ UNCHANGED <<loop, ended>>
    /\ UNCHANGED <<queue, pending, run, exit, aborted, modeHash, agents, received, refusals, given, excused>>

\* waitForMessages: the fetch becomes the queue's one waiter, whoever that was.
Wait(r) ==
    /\ asking = r
    /\ pending = <<>>
    /\ queue = <<>>
    /\ asking' = None
    /\ IF aborted
       THEN NoMore(r) /\ UNCHANGED waiter
       ELSE waiter' = r /\ UNCHANGED <<loop, ended>>
    /\ UNCHANGED <<queue, pending, run, exit, aborted, modeHash, agents, received, refusals, given, excused>>

-----------------------------------------------------------------------------
(* The agent of a run. *)

\* A result: scheduleNextMessage.  (After an abort the stream has failed already.)
Result ==
    /\ Quiet
    /\ loop = "agent"
    /\ ~aborted
    /\ agents[run].state = "working"
    /\ ~agents[run].refused
    /\ agents' = [agents EXCEPT ![run].state = "idle"]
    /\ asking' = IF ended \/ waiter = run THEN None ELSE run
    /\ UNCHANGED <<queue, waiter, launchVars, inputVars, received, refusals, given, excused>>

\* It goes on by itself, as a scheduled task does, until its input ends.
GoOn(r) ==
    /\ Quiet
    /\ ~(r = run /\ ended)
    /\ agents[r].state = "idle"
    /\ agents' = [agents EXCEPT ![r].state = "working"]
    /\ UNCHANGED <<queueVars, launchVars, inputVars, received, refusals, given, excused>>

\* The user denies a tool call of the current run.
Deny ==
    /\ Quiet
    /\ loop = "agent"
    /\ agents[run].state = "working"
    /\ refusals < MaxRefusals
    /\ refusals' = refusals + 1
    /\ agents' = [agents EXCEPT ![run].refused = TRUE]
    /\ UNCHANGED <<queueVars, launchVars, inputVars, received, given, excused>>

\* exit_plan_mode: it is refused, and the order to go on is put first in the queue.
LeavePlan(r) ==
    /\ Quiet
    /\ loop # "over"
    /\ agents[r].state = "working"
    /\ refusals < MaxRefusals
    /\ refusals' = refusals + 1
    /\ agents' = [agents EXCEPT ![r].refused = TRUE]
    /\ queue' = Unshifted(queue, [id |-> 0, mode |-> PlainMode, kind |-> "restart"])
    /\ Notify
    /\ IF loop = "local"
       THEN aborted' = TRUE /\ exit' = IF exit = None THEN "switch" ELSE exit
       ELSE UNCHANGED <<aborted, exit>>
    /\ UNCHANGED <<loop, run, inputVars, received, given, excused>>

\* The result of the refused call (isAborted): claudeRemote returns, the process stays.
ToolResult ==
    /\ Quiet
    /\ loop = "agent"
    /\ ~aborted
    /\ agents[run].state = "working"
    /\ agents[run].refused
    /\ loop' = "flushing"
    /\ UNCHANGED <<queueVars, run, exit, aborted, inputVars, agents, received, refusals, given, excused>>

\* The process ends, by itself, by a signal, or because its input has ended.
AgentEnds(r) ==
    /\ Quiet
    /\ agents[r].state # "none"
    /\ agents' = [agents EXCEPT ![r] = Gone]
    /\ loop' = IF r = run /\ loop = "agent" THEN "flushing" ELSE loop
    /\ UNCHANGED <<queueVars, run, exit, aborted, inputVars, received, refusals, given, excused>>

-----------------------------------------------------------------------------
(* Remote mode: runMainLoop. *)

\* Names of runs that nothing is left of: any of them will do.
Free == {r \in Runs \ {waiter} : agents[r].state = "none"}

\* A run starts with a call of nextMessage.
Begin(r) ==
    /\ r \in Free
    /\ r = CHOOSE free \in Free : TRUE
    /\ run' = r
    /\ loop' = "first"
    /\ asking' = r
    /\ aborted' = FALSE
    /\ modeHash' = None
    /\ ended' = FALSE

\* (mutant of NextRun) What is held back is forgotten with the run.
NextRunForgets(r) ==
    /\ Quiet
    /\ loop = "flushing"
    /\ exit = None
    /\ Begin(r)
    /\ pending' = <<>>
    /\ UNCHANGED <<queue, waiter, exit, agents, received, refusals, given, excused>>

\* The outgoing messages are flushed (which may take turns of the event loop), the next run begins.
NextRun(r) ==
    /\ Quiet
    /\ loop = "flushing"
    /\ exit = None
    /\ Begin(r)
    /\ UNCHANGED <<queue, waiter, exit, pending, agents, received, refusals, given, excused>>

EnterRemote(r) ==
    /\ Quiet
    /\ loop = "turning"
    /\ Begin(r)
    /\ UNCHANGED <<queue, waiter, exit, pending, agents, received, refusals, given, excused>>

\* The launcher returns; its `pending' goes with it.
LeaveRemote ==
    /\ Quiet
    /\ loop = "flushing"
    /\ exit # None
    /\ loop' = IF exit = "switch" THEN "scanning" ELSE "over"
    /\ exit' = None
    /\ aborted' = FALSE
    /\ pending' = <<>>
    /\ modeHash' = None
    /\ excused' = excused \cup Held
    /\ UNCHANGED <<queueVars, run, ended, agents, received, refusals, given>>

\* (mutant of AbortRun) The fetch does not hear of the abort.
AbortRunUnheard == aborted' = TRUE /\ UNCHANGED <<waiter, loop, ended>>

\* The controller: a fetch that waits ends with null, the agent is killed.
AbortRun ==
    /\ aborted' = TRUE
    /\ IF waiter = run
       THEN waiter' = None /\ NoMore(run)
       ELSE UNCHANGED <<waiter, loop, ended>>

RemoteAbort ==
    /\ Quiet
    /\ loop \in Remote
    /\ ~aborted
    /\ AbortRun
    /\ UNCHANGED <<queue, asking, run, exit, pending, modeHash, agents, received, refusals, given, excused>>

\* handleSwitchRequest, handleExitFromUi.
RequestExit(reason) ==
    /\ Quiet
    /\ loop \in Remote
    /\ exit = None
    /\ exit' = reason
    /\ IF aborted THEN UNCHANGED <<aborted, waiter, loop, ended>> ELSE AbortRun
    /\ UNCHANGED <<queue, asking, run, pending, modeHash, agents, received, refusals, given, excused>>

-----------------------------------------------------------------------------
(* Local mode: BaseLocalLauncher. *)

\* The handlers are set; messages that wait already send it back to remote mode.
LocalStart ==
    /\ Quiet
    /\ loop = "scanning"
    /\ loop' = IF queue # <<>> THEN "turning" ELSE "local"
    /\ UNCHANGED <<queueVars, run, exit, aborted, inputVars, agents, received, refusals, given, excused>>

\* doSwitch, and doAbort, which also resets the queue.
LocalStop(resets) ==
    /\ Quiet
    /\ loop = "local"
    /\ exit' = IF exit = None THEN "switch" ELSE exit
    /\ aborted' = TRUE
    /\ IF resets
       THEN queue' = <<>> /\ waiter' = None /\ excused' = excused \cup Queued
       ELSE UNCHANGED <<queue, waiter, excused>>
    /\ UNCHANGED <<asking, loop, run, inputVars, agents, received, refusals, given>>

\* The local Claude has ended: as it was told, by its user, or with an error.
LocalEnds ==
    /\ Quiet
    /\ loop = "local"
    /\ \E reason \in IF exit # None THEN {exit} ELSE {"exit", LocalFailure} :
         loop' = IF reason = "switch" THEN "turning" ELSE "over"
    /\ exit' = None
    /\ aborted' = FALSE
    /\ UNCHANGED <<queueVars, run, inputVars, agents, received, refusals, given, excused>>

-----------------------------------------------------------------------------
NextMessage(r) == TakePending(r) \/ TakeBatch(r) \/ Wait(r)

Next ==
    \/ \E kind \in {"text"} \cup Commands, mode \in Modes : Receive(kind, mode)
    \/ \E i \in DOMAIN queue : CancelQueued(i)
    \/ \E r \in Runs : NextMessage(r) \/ GoOn(r) \/ LeavePlan(r) \/ AgentEnds(r)
                       \/ NextRun(r) \/ EnterRemote(r)
    \/ Result \/ Deny \/ ToolResult
    \/ LeaveRemote \/ RemoteAbort
    \/ \E reason \in {"switch", "exit"} : RequestExit(reason)
    \/ LocalStart
    \/ \E resets \in BOOLEAN : LocalStop(resets)
    \/ LocalEnds

Spec == Init /\ [][Next]_vars

\* The process's own steps happen; an agent ends its turn, answers a refused
\* call, and ends when it is killed or, between turns, when its input ends.
AgentStops(r) ==
    /\ r = run
    /\ aborted \/ (ended /\ agents[r].state = "idle")
    /\ AgentEnds(r)

Fairness ==
    /\ \A r \in Runs : WF_vars(NextMessage(r)) /\ WF_vars(AgentStops(r))
    /\ WF_vars(\E r \in Runs : NextRun(r))
    /\ WF_vars(\E r \in Runs : EnterRemote(r))
    /\ WF_vars(Result) /\ WF_vars(ToolResult)
    /\ WF_vars(LeaveRemote) /\ WF_vars(LocalStart)
    /\ WF_vars(aborted /\ LocalEnds)

FairSpec == Spec /\ Fairness

-----------------------------------------------------------------------------
(* Properties. *)

Items == [id : 0..MaxMessages, mode : Modes, kind : {"text", "restart"} \cup Commands]
Batches == [ids : Seq(0..MaxMessages), mode : Modes, kind : {"text", "restart"} \cup Commands]

TypeOK ==
    /\ queue \in Seq(Items)
    /\ waiter \in Runs \cup {None}
    /\ asking \in Runs \cup {None}
    /\ pending = <<>> \/ (Len(pending) = 1 /\ pending[1] \in Batches)
    /\ loop \in Remote \cup {"scanning", "local", "turning", "over"}
    /\ run \in Runs \cup {None}
    /\ loop \in Remote => run \in Runs
    /\ exit \in {None, "switch", "exit"}
    /\ aborted \in BOOLEAN
    /\ modeHash \in Modes \cup {None}
    /\ ended \in BOOLEAN
    /\ agents \in [Runs -> [state : {"none", "working", "idle"}, refused : BOOLEAN, heard : SUBSET Modes]]
    /\ received \in 0..MaxMessages
    /\ refusals \in 0..MaxRefusals
    /\ given \in Seq([ids : Seq(0..MaxMessages), to : Runs, read : BOOLEAN])
    /\ excused \subseteq 0..MaxMessages

IdsGiven(T) == UNION {{given[i].ids[j] : j \in DOMAIN given[i].ids} : i \in T}
Read == IdsGiven({i \in DOMAIN given : given[i].read})

\* A message that is neither in the queue nor held back nor was handed to a run that
\* was there to read it was withdrawn or cleared, or a switch or an exit came while it
\* was held back, or the fetch of a run that was over took it before the next run
\* began: aborts, restarts for another mode and refused tools lose nothing else.
LostForReason ==
    loop # "over" => (1..received) \ (Queued \cup Held \cup Read) \subseteq excused

\* Agents get the messages once each and in the order the user sent them,
\* although one may be held back over a restart while others arrive.
GivenInOrder ==
    \A i, j \in DOMAIN given :
        \A a \in DOMAIN given[i].ids, b \in DOMAIN given[j].ids :
            (i < j \/ (i = j /\ a < b)) /\ given[i].ids[a] # 0 /\ given[j].ids[b] # 0
                => given[i].ids[a] < given[j].ids[b]

\* A message goes to the agent of the current run, never to one that a run
\* before it has left behind with its fetch still in the queue.
GivenToTheLatest ==
    [][given' # given => given'[Len(given')].to = run]_vars

\* Every message of the user is settled, whatever the loop does meanwhile.
EverySettled ==
    \A m \in 1..MaxMessages : m \in Queued \cup Held ~> m \notin Queued \cup Held \/ loop = "over"

\* An abort, a switch or an exit request is answered: what it waits for ends.
RequestsEnd == aborted ~> ~aborted

\* An agent is only given messages of the mode it was started with.
OneModePerAgent == \A r \in Runs : Cardinality(agents[r].heard) <= 1
=============================================================================
