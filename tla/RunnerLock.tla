----------------------------- MODULE RunnerLock -----------------------------
(***************************************************************************)
(* The runner daemons of one user (cli/src/runner): processes that share a *)
(* state file, which names the runner for everybody else, and a lock file. *)
(* A start looks whether the runner of the state file lives and is of the  *)
(* installed version, stops it if not, takes the lock and writes the state *)
(* file.  A runner that is up looks at the state file in every heartbeat.  *)
(* Processes may end at any step, and every await is a step: files are     *)
(* read, judged and removed by name, at different times.                   *)
(***************************************************************************)
EXTENDS Naturals, FiniteSets

CONSTANTS
    Runners,    \* processes (pids) that run startRunner
    None,       \* no process: what a file that is missing names
    MaxAttempts \* attempts of acquireRunnerLock (5 in the code)

ASSUME MaxAttemptsAssumption == MaxAttempts \in Nat \ {0}
ASSUME NoneAssumption == None \notin Runners

VARIABLES
    pc,         \* where each process is in startRunner
    tries,      \* attempts at the lock so far
    seen,       \* <<p>> when the process has read p in the state file and not used it, else <<>>
    asked,      \* runners on which requestShutdown was called
    outdated,   \* runners whose version is not the installed one any more
    overlap,    \* per runner: heartbeats of others that were under way when it last wrote
    file,       \* runner.state.json: the pid in it
    lock        \* the lock file: who made it, and whether it has written its pid into it yet

runnerVars == <<pc, tries, seen, asked, outdated, overlap, file, lock>>

Stages == {"off", "checking", "matching", "clearing", "clearinglock", "stopping", "waiting",
           "locking", "judging", "unlinking", "naming", "setup", "up", "hanging",
           "closing", "closinglock", "releasing", "dead"}

NoLock == [by |-> None, named |-> FALSE]

RunnerInit ==
    /\ pc = [r \in Runners |-> "off"]
    /\ tries = [r \in Runners |-> 1]
    /\ seen = [r \in Runners |-> <<>>]
    /\ asked = {}
    /\ outdated = {}
    /\ overlap = [r \in Runners |-> {}]
    /\ file = None
    /\ lock = NoLock

-----------------------------------------------------------------------------
Alive(r) == pc[r] \notin {"off", "dead"}

\* Its control server answers (it stops before the files are removed).
Serving(r) == pc[r] \in {"up", "hanging"}

\* Its heartbeat may still be under way.
Beating(r) == pc[r] \in {"up", "closing", "closinglock", "releasing"}

Goes(r, stage) == pc' = [pc EXCEPT ![r] = stage]

-----------------------------------------------------------------------------
(* A start: is there a runner, and of which version? *)

Launch(r) ==
    /\ pc[r] = "off"
    /\ Goes(r, "checking")
    /\ UNCHANGED <<tries, seen, asked, outdated, overlap, file, lock>>

\* checkIfRunnerRunningAndCleanupStaleState reads the state file.
Check(r) ==
    /\ pc[r] = "checking"
    /\ Goes(r, IF file = None THEN "stopping" ELSE IF Alive(file) THEN "matching" ELSE "clearing")
    /\ UNCHANGED <<tries, seen, asked, outdated, overlap, file, lock>>

\* The file is read again for the version and for the hub, machine and token of the runner,
\* any of which may be another one than that of r: with a match the new process ends.
Match(r) ==
    /\ pc[r] = "matching"
    /\ \/ Goes(r, "stopping")
       \/ file \notin outdated \cup {None} /\ Goes(r, "dead")
    /\ UNCHANGED <<tries, seen, asked, outdated, overlap, file, lock>>

\* clearRunnerState: first the state file, then the lock file, whoever made them now.
ClearFile(r) ==
    /\ pc[r] \in {"clearing", "closing"}
    /\ file' = None
    /\ Goes(r, IF pc[r] = "clearing" THEN "clearinglock" ELSE "closinglock")
    /\ UNCHANGED <<tries, seen, asked, outdated, overlap, lock>>

ClearLock(r) ==
    /\ pc[r] \in {"clearinglock", "closinglock"}
    /\ lock' = NoLock
    /\ Goes(r, IF pc[r] = "clearinglock" THEN "stopping" ELSE "releasing")
    /\ UNCHANGED <<tries, seen, asked, outdated, overlap, file>>

-----------------------------------------------------------------------------
(* stopRunner: ask the runner of the state file over HTTP, then wait, then kill. *)

StopOther(r) ==
    /\ pc[r] = "stopping"
    /\ IF file = None
       THEN Goes(r, "locking") /\ UNCHANGED <<seen, asked>>
       ELSE /\ Goes(r, "waiting")
            /\ seen' = [seen EXCEPT ![r] = <<file>>]
            /\ \/ Serving(file) /\ asked' = asked \cup {file}
               \/ UNCHANGED asked
    /\ UNCHANGED <<tries, outdated, overlap, file, lock>>

\* waitForProcessDeath: the other is dead, or two seconds have passed and it is killed.
AwaitDeath(r) ==
    LET other == seen[r][1] IN
    /\ pc[r] = "waiting"
    /\ pc' = [pc EXCEPT ![other] = "dead", ![r] = "locking"]
    /\ seen' = [seen EXCEPT ![r] = <<>>, ![other] = <<>>]
    /\ overlap' = [q \in Runners |-> IF q = other THEN {} ELSE overlap[q] \ {other}]
    /\ UNCHANGED <<tries, asked, outdated, file, lock>>

-----------------------------------------------------------------------------
(* acquireRunnerLock. *)

\* open(..., 'wx').
Open(r) ==
    /\ pc[r] = "locking"
    /\ IF lock = NoLock
       THEN lock' = [by |-> r, named |-> FALSE] /\ Goes(r, "naming")
       ELSE Goes(r, "judging") /\ UNCHANGED lock
    /\ UNCHANGED <<tries, seen, asked, outdated, overlap, file>>

\* Another attempt, or the process ends as another runner holds the lock.
Again(r) ==
    IF tries[r] < MaxAttempts
    THEN tries' = [tries EXCEPT ![r] = @ + 1] /\ Goes(r, "locking")
    ELSE UNCHANGED tries /\ Goes(r, "dead")

\* The pid in the file is read: only that of a dead process makes the lock stale.
Judge(r) ==
    /\ pc[r] = "judging"
    /\ IF lock.named /\ ~Alive(lock.by)
       THEN Goes(r, "unlinking") /\ UNCHANGED tries
       ELSE Again(r)
    /\ UNCHANGED <<seen, asked, outdated, overlap, file, lock>>

\* The stale lock goes, or whatever has taken its name since.
Unlink(r) ==
    /\ pc[r] = "unlinking"
    /\ lock' = NoLock
    /\ Again(r)
    /\ UNCHANGED <<seen, asked, outdated, overlap, file>>

\* The pid is written through the handle: it reaches the file that r made.
Name(r) ==
    /\ pc[r] = "naming"
    /\ lock' = IF lock.by = r THEN [lock EXCEPT !.named = TRUE] ELSE lock
    /\ Goes(r, "setup")
    /\ UNCHANGED <<tries, seen, asked, outdated, overlap, file>>

\* writeRunnerState, once the control server listens.
WriteFile(r) ==
    /\ pc[r] = "setup"
    /\ file' = r
    /\ Goes(r, "up")
    /\ UNCHANGED <<tries, seen, asked, outdated, overlap, lock>>

-----------------------------------------------------------------------------
(* The heartbeat.  One is under way at a time (heartbeatRunning).  They are *)
(* a minute apart, and the read takes milliseconds: what was under way      *)
(* when r last wrote is over when r reads again.                            *)

HeartbeatRead(r) ==
    /\ pc[r] = "up"
    /\ seen[r] = <<>>
    /\ r \notin outdated
    /\ overlap[r] = {}
    /\ seen' = [seen EXCEPT ![r] = <<file>>]
    /\ UNCHANGED <<pc, tries, asked, outdated, overlap, file, lock>>

\* (mutant of Usurped) a runner looks only whether there is a file.
NeverUsurped(r) == FALSE

\* The state file names another runner.
Usurped(r) == seen[r][1] \notin {None, r}

\* A runner that finds another one there asks itself to end, and writes the file all the same.
HeartbeatWrite(r) ==
    /\ Beating(r)
    /\ seen[r] # <<>>
    /\ file' = r
    /\ asked' = IF Usurped(r) THEN asked \cup {r} ELSE asked
    /\ seen' = [seen EXCEPT ![r] = <<>>]
    /\ overlap' = [q \in Runners |-> IF q = r THEN {p \in Runners \ {r} : Beating(p) /\ seen[p] # <<>>}
                                              ELSE overlap[q] \ {r}]
    /\ UNCHANGED <<pc, tries, outdated, lock>>

\* The installed version has changed: start another runner, which is to stop this one.
Outdated(r) ==
    /\ pc[r] = "up"
    /\ seen[r] = <<>>
    /\ r \in outdated
    /\ \/ \E q \in Runners : pc[q] = "off" /\ pc' = [pc EXCEPT ![r] = "hanging", ![q] = "checking"]
       \/ Goes(r, "hanging")
    /\ UNCHANGED <<tries, seen, asked, outdated, overlap, file, lock>>

\* It was not stopped within ten seconds: exit, and the files stay.
HangOut(r) ==
    /\ pc[r] = "hanging"
    /\ Goes(r, "dead")
    /\ UNCHANGED <<tries, seen, asked, outdated, overlap, file, lock>>

-----------------------------------------------------------------------------
(* The end of a runner. *)

\* A signal, the app, or 'hapi runner stop'.
Ask(r) ==
    /\ Serving(r)
    /\ r \notin asked
    /\ asked' = asked \cup {r}
    /\ UNCHANGED <<pc, tries, seen, outdated, overlap, file, lock>>

\* cleanupAndShutdown, up to the end of the control server.
Close(r) ==
    /\ Serving(r)
    /\ r \in asked
    /\ Goes(r, "closing")
    /\ UNCHANGED <<tries, seen, asked, outdated, overlap, file, lock>>

\* releaseRunnerLock removes the file of that name once more, and the process ends.
Release(r) ==
    /\ pc[r] = "releasing"
    /\ lock' = NoLock
    /\ Goes(r, "dead")
    /\ seen' = [seen EXCEPT ![r] = <<>>]
    /\ overlap' = [q \in Runners |-> IF q = r THEN {} ELSE overlap[q] \ {r}]
    /\ UNCHANGED <<tries, asked, outdated, file>>

\* The process ends anywhere: an error during the start, the forced exit one second after
\* requestShutdown, SIGKILL, a power failure.
Crash(r) ==
    /\ Alive(r)
    /\ Goes(r, "dead")
    /\ seen' = [seen EXCEPT ![r] = <<>>]
    /\ overlap' = [q \in Runners |-> IF q = r THEN {} ELSE overlap[q] \ {r}]
    /\ UNCHANGED <<tries, asked, outdated, file, lock>>

\* Another version of the program is installed.
Upgrade ==
    /\ outdated' = {r \in Runners : pc[r] \in {"up", "hanging", "closing"}} \cup outdated
    /\ outdated' # outdated
    /\ UNCHANGED <<pc, tries, seen, asked, overlap, file, lock>>

-----------------------------------------------------------------------------
Starting(r) == Check(r) \/ Match(r) \/ ClearFile(r) \/ ClearLock(r) \/ StopOther(r)
               \/ Open(r) \/ Judge(r) \/ Unlink(r) \/ Name(r) \/ WriteFile(r)

RunnerNext ==
    \/ \E r \in Runners :
        \/ Launch(r) \/ Check(r) \/ Match(r) \/ ClearFile(r) \/ ClearLock(r)
        \/ StopOther(r) \/ AwaitDeath(r) \/ Open(r) \/ Judge(r) \/ Unlink(r) \/ Name(r) \/ WriteFile(r)
        \/ HeartbeatRead(r) \/ HeartbeatWrite(r) \/ Outdated(r) \/ HangOut(r)
        \/ Ask(r) \/ Close(r) \/ Release(r) \/ Crash(r)
    \/ Upgrade

\* What a process does on its own it does at some time.  Users, signals, crashes and
\* installations are free.
RunnerFairness ==
    \A r \in Runners :
        /\ WF_runnerVars(Starting(r))
        /\ WF_runnerVars(AwaitDeath(r))
        /\ WF_runnerVars(HeartbeatRead(r))
        /\ WF_runnerVars(HeartbeatWrite(r))
        /\ WF_runnerVars(Outdated(r))
        /\ WF_runnerVars(HangOut(r))
        /\ WF_runnerVars(Close(r))
        /\ WF_runnerVars(Release(r))

RunnerSpec == RunnerInit /\ [][RunnerNext]_runnerVars /\ RunnerFairness

-----------------------------------------------------------------------------
\* The files name processes that made them, and a process reads one thing at a time.
RunnerTypeOK ==
    /\ pc \in [Runners -> Stages]
    /\ tries \in [Runners -> 1 .. MaxAttempts]
    /\ seen \in [Runners -> {<<>>} \cup {<<p>> : p \in Runners \cup {None}}]
    /\ asked \subseteq Runners
    /\ outdated \subseteq Runners
    /\ overlap \in [Runners -> SUBSET Runners]
    /\ file \in Runners \cup {None}
    /\ lock \in [by : Runners \cup {None}, named : BOOLEAN]

\* Whatever the starts, stops, upgrades and crashes: once they cease at most one runner is
\* up, and the state file names it, so that commands and sessions find it (run.ts:844).
Settles == <>[](\A r \in Runners : pc[r] = "up" => file = r)
=============================================================================
