------------------------------- MODULE Runner -------------------------------
(***************************************************************************)
(* The sessions that runners start (cli/src/runner/run.ts).  A spawned     *)
(* process reports its session to the runner that the state file names     *)
(* then; the runner that spawned it waits for this report with a time      *)
(* limit, and answers the request with the session or with an error.       *)
(* Processes that a user starts in a terminal report as well.  Children    *)
(* outlive their runner, and the next runner may be there when they report.*)
(***************************************************************************)
EXTENDS RunnerLock

CONSTANTS
    Children,   \* processes of sessions
    Terminal    \* who starts a session without a runner

ASSUME TerminalAssumption == Terminal \notin Runners \cup {None}

VARIABLES
    parent,     \* who started the process
    life,       \* of the process: "dying" once it got a signal, "gone" when its runner saw it exit
    reported,   \* it has sent its only report
    spawn,      \* the request to spawn it: the awaiters in pidToAwaiter and pidToErrorAwaiter
    tracked,    \* per runner: pidToTrackedSession
    worktree,   \* the git worktree made for it
    watch       \* an exit listener will remove its worktree

childVars == <<parent, life, reported, spawn, tracked, worktree, watch>>
vars == <<runnerVars, childVars>>

Untracked == [c \in Children |-> "no"]

Init ==
    /\ RunnerInit
    /\ parent = [c \in Children |-> None]
    /\ life = [c \in Children |-> "none"]
    /\ reported = [c \in Children |-> FALSE]
    /\ spawn = [c \in Children |-> "none"]
    /\ tracked = [r \in Runners |-> Untracked]
    /\ worktree = [c \in Children |-> "none"]
    /\ watch = [c \in Children |-> FALSE]

-----------------------------------------------------------------------------
\* The event loop of r runs.
Running(r) == pc[r] \in {"up", "hanging", "closing", "closinglock", "releasing"}

\* killProcess, killProcessByChildProcess: SIGTERM, and SIGKILL after two seconds.
Signalled(c) == [life EXCEPT ![c] = IF @ = "alive" THEN "dying" ELSE @]

\* spawnSession up to its wait for the report.
Spawn(r, c) ==
    /\ Serving(r)
    /\ life[c] = "none"
    /\ parent' = [parent EXCEPT ![c] = r]
    /\ life' = [life EXCEPT ![c] = "alive"]
    /\ spawn' = [spawn EXCEPT ![c] = "waiting"]
    /\ tracked' = [tracked EXCEPT ![r][c] = "spawned"]
    /\ worktree' \in {worktree, [worktree EXCEPT ![c] = "kept"]}
    /\ UNCHANGED <<runnerVars, reported, watch>>

\* A worktree was made, but no process: it goes again.
SpawnFails(r, c) ==
    /\ Serving(r)
    /\ life[c] = "none"
    /\ parent' = [parent EXCEPT ![c] = r]
    /\ life' = [life EXCEPT ![c] = "gone"]
    /\ spawn' = [spawn EXCEPT ![c] = "error"]
    /\ worktree' \in {worktree, [worktree EXCEPT ![c] = "removed"]}
    /\ UNCHANGED <<runnerVars, reported, tracked, watch>>

\* A user runs hapi.
StartInTerminal(c) ==
    /\ life[c] = "none"
    /\ parent' = [parent EXCEPT ![c] = Terminal]
    /\ life' = [life EXCEPT ![c] = "alive"]
    /\ UNCHANGED <<runnerVars, reported, spawn, tracked, worktree, watch>>

\* (mutant of Handle) whatever is not tracked is taken for a session of a terminal.
HandleAll(r, c) ==
    IF tracked[r][c] = "no"
    THEN /\ tracked' = [tracked EXCEPT ![r][c] = "outside"]
         /\ UNCHANGED <<life, spawn>>
    ELSE /\ spawn' = [spawn EXCEPT ![c] = IF @ = "waiting" THEN "ok" ELSE @]
         /\ UNCHANGED <<life, tracked>>

\* (mutant of Handle) a session that is tracked is killed as well.
HandleKills(r, c) ==
    /\ life' = Signalled(c)
    /\ spawn' = [spawn EXCEPT ![c] = IF @ = "waiting" THEN "ok" ELSE @]
    /\ UNCHANGED tracked

\* onHappySessionWebhook in runner r.
Handle(r, c) ==
    CASE tracked[r][c] = "spawned" ->
            /\ spawn' = [spawn EXCEPT ![c] = IF @ = "waiting" THEN "ok" ELSE @]
            /\ UNCHANGED <<life, tracked>>
      [] tracked[r][c] = "no" /\ parent[c] # Terminal ->
            /\ life' = Signalled(c)
            /\ UNCHANGED <<spawn, tracked>>
      [] tracked[r][c] = "no" /\ parent[c] = Terminal ->
            /\ tracked' = [tracked EXCEPT ![r][c] = "outside"]
            /\ UNCHANGED <<life, spawn>>

\* notifyRunnerSessionStarted: one POST to the runner in the state file, if there is one that answers.
Report(c) ==
    /\ life[c] \in {"alive", "dying"}
    /\ ~reported[c]
    /\ reported' = [reported EXCEPT ![c] = TRUE]
    /\ IF file # None /\ Serving(file)
       THEN Handle(file, c)
       ELSE UNCHANGED <<life, spawn, tracked>>
    /\ UNCHANGED <<runnerVars, parent, worktree, watch>>

\* (mutant of AfterTimeout) the worktree goes with the time limit.
AfterTimeoutAtOnce(c) ==
    /\ worktree' = [worktree EXCEPT ![c] = IF @ = "kept" THEN "removed" ELSE @]
    /\ UNCHANGED watch

\* maybeCleanupWorktree spares the worktree of a process that is still there; its exit removes it.
AfterTimeout(c) ==
    /\ watch' = [watch EXCEPT ![c] = worktree[c] = "kept"]
    /\ UNCHANGED worktree

\* (mutant of TimedOut) the process is left alone.
TimedOutSpared(c) ==
    /\ tracked' = [tracked EXCEPT ![parent[c]][c] = "no"]
    /\ UNCHANGED life

TimedOut(c) ==
    /\ tracked' = [tracked EXCEPT ![parent[c]][c] = "no"]
    /\ life' = Signalled(c)

\* No report within webhookTimeoutMs.
Timeout(c) ==
    /\ spawn[c] = "waiting"
    /\ Running(parent[c])
    /\ spawn' = [spawn EXCEPT ![c] = "error"]
    /\ TimedOut(c)
    /\ AfterTimeout(c)
    /\ UNCHANGED <<runnerVars, parent, reported>>

\* stopSession, with the session's id or PID-n.
StopSession(r, c) ==
    /\ Serving(r)
    /\ tracked[r][c] # "no"
    /\ life' = Signalled(c)
    /\ tracked' = [tracked EXCEPT ![r][c] = "no"]
    /\ UNCHANGED <<runnerVars, parent, reported, spawn, worktree, watch>>

\* The process ends, by itself or by a signal.
Die(c) ==
    /\ life[c] \in {"alive", "dying"}
    /\ life' = [life EXCEPT ![c] = "dead"]
    /\ UNCHANGED <<runnerVars, parent, reported, spawn, tracked, worktree, watch>>

\* 'exit' ('error' does the same, but comes only before there is a pid): the awaiter gets an
\* error, the tracking ends, the worktree of a failed start goes.
ChildExit(c) ==
    /\ life[c] = "dead"
    /\ parent[c] \in Runners
    /\ Running(parent[c])
    /\ life' = [life EXCEPT ![c] = "gone"]
    /\ spawn' = [spawn EXCEPT ![c] = IF @ = "waiting" THEN "error" ELSE @]
    /\ tracked' = [tracked EXCEPT ![parent[c]][c] = "no"]
    /\ worktree' = [worktree EXCEPT ![c] =
           IF @ = "kept" /\ (watch[c] \/ spawn[c] = "waiting") THEN "removed" ELSE @]
    /\ UNCHANGED <<runnerVars, parent, reported, watch>>

-----------------------------------------------------------------------------
(* The steps of the runners themselves. *)

\* (mutant of Pruned) the heartbeat forgets what it did not start.
PrunedAll(r) == [c \in Children |-> IF reported[c] THEN "no" ELSE tracked[r][c]]

\* The heartbeat forgets processes that are no more (a child of its own is a zombie until 'exit').
Pruned(r) == [c \in Children |->
    IF life[c] = "gone" \/ (life[c] = "dead" /\ parent[c] # r) THEN "no" ELSE tracked[r][c]]

\* A heartbeat of r begins.
Beats(r) == pc[r] = "up" /\ seen[r] = <<>> /\ (seen'[r] # <<>> \/ pc'[r] = "hanging")

Lifecycle ==
    /\ RunnerNext
    /\ tracked' = [r \in Runners |-> IF pc'[r] = "dead" THEN Untracked
                                     ELSE IF Beats(r) THEN Pruned(r) ELSE tracked[r]]
    /\ UNCHANGED <<parent, life, reported, spawn, worktree, watch>>

ChildNext ==
    \E c \in Children :
        \/ \E r \in Runners : Spawn(r, c) \/ SpawnFails(r, c) \/ StopSession(r, c)
        \/ StartInTerminal(c) \/ Report(c) \/ Timeout(c) \/ Die(c) \/ ChildExit(c)

Next == Lifecycle \/ ChildNext

\* Timers fire, exits are seen, and a signalled process ends (SIGKILL follows SIGTERM).
Fairness ==
    \A c \in Children :
        /\ WF_vars(Timeout(c))
        /\ WF_vars(life[c] = "dying" /\ Die(c))
        /\ WF_vars(ChildExit(c))

Spec == Init /\ [][Next]_vars /\ Fairness

-----------------------------------------------------------------------------
\* Every map is over the processes, and has the values the code gives it.
TypeOK ==
    /\ RunnerTypeOK
    /\ parent \in [Children -> Runners \cup {Terminal, None}]
    /\ life \in [Children -> {"none", "alive", "dying", "dead", "gone"}]
    /\ reported \in [Children -> BOOLEAN]
    /\ spawn \in [Children -> {"none", "waiting", "ok", "error"}]
    /\ tracked \in [Runners -> [Children -> {"no", "spawned", "outside"}]]
    /\ worktree \in [Children -> {"none", "kept", "removed"}]
    /\ watch \in [Children -> BOOLEAN]

\* A process whose start was answered with an error is never a session of any runner, even
\* when it reports late or to another runner (run.ts:194): there are no ghost sessions.
NoGhosts ==
    \A c \in Children : spawn[c] = "error" => \A r \in Runners : tracked[r][c] = "no"

\* A session that was started with success stays tracked while it and its runner live and
\* nobody stops it: heartbeats and other runners' reports do not lose it.
StaysTracked ==
    \A c \in Children :
        (spawn[c] = "ok" /\ life[c] = "alive" /\ Alive(parent[c])) => tracked[parent[c]][c] = "spawned"

\* A worktree is removed only when no process works in it (run.ts:545).
WorktreeIsFree ==
    \A c \in Children : worktree[c] = "removed" => life[c] \in {"dead", "gone"}

\* A process gets a signal only when its start timed out, when somebody stops it, or when it
\* reports to a runner that does not know it: never a session that is tracked and not stopped.
KilledForReason ==
    [][\A c \in Children : (life[c] = "alive" /\ life'[c] = "dying") =>
          \/ spawn[c] = "waiting" /\ spawn'[c] = "error"
          \/ \E r \in Runners : tracked[r][c] # "no" /\ tracked'[r][c] = "no"
          \/ ~reported[c] /\ reported'[c] /\ tracked[file][c] = "no"]_vars

\* A start that failed leaves no process behind.
NoOrphans ==
    \A c \in Children : spawn[c] = "error" ~> life[c] \in {"dead", "gone"}
=============================================================================
