---------------------------- MODULE RunnerProofs ----------------------------
(***************************************************************************)
(* For any runners, processes and attempts at the lock: no session whose   *)
(* start failed is tracked, a session that runs stays tracked, no worktree *)
(* goes under a process, and no process gets a signal without a reason.    *)
(***************************************************************************)
EXTENDS Runner, TLAPS

USE MaxAttemptsAssumption, NoneAssumption, TerminalAssumption

Lives == {"none", "alive", "dying", "dead", "gone"}
Marks == {"no", "spawned", "outside"}

\* The runner has come up once; a runner that ends is not started again.
WasUp(r) == pc[r] \in {"up", "hanging", "closing", "closinglock", "releasing", "dead"}

\* What the state file names has been up, and so has what a process has read there.  One that
\* waits for the death of another has read whose.
FileNamesRunners ==
    /\ file # None => WasUp(file)
    /\ \A r \in Runners :
          /\ \A p \in Runners : seen[r] = <<p>> => WasUp(p)
          /\ pc[r] = "waiting" => \E p \in Runners : seen[r] = <<p>>

\* A process that was never started has no history.
NoHistory ==
    \A c \in Children :
        /\ life[c] = "none" => /\ parent[c] = None
                               /\ spawn[c] = "none"
                               /\ worktree[c] = "none"
                               /\ \A r \in Runners : tracked[r][c] = "no"
        /\ spawn[c] # "none" => parent[c] \in Runners
        /\ parent[c] \in Runners => WasUp(parent[c])

\* A runner tracks as spawned only what it spawned, as outside only what came from a terminal
\* and has reported, which it does once.
TrackedByParent ==
    \A c \in Children, r \in Runners :
        /\ tracked[r][c] = "spawned" => parent[c] = r
        /\ tracked[r][c] = "outside" => parent[c] = Terminal /\ reported[c]

RunnerInv == RunnerTypeOK /\ FileNamesRunners

Inv ==
    /\ TypeOK
    /\ FileNamesRunners
    /\ NoHistory
    /\ TrackedByParent
    /\ NoGhosts
    /\ StaysTracked
    /\ WorktreeIsFree
-----------------------------------------------------------------------------
(* The runners. *)

\* A runner that has been up stays so, and one that is dead stays dead.
Ages ==
    \A r \in Runners : /\ WasUp(r) => WasUp(r)'
                       /\ WasUp(r) /\ Alive(r)' => Alive(r)

LEMMA RunnerInit_Inv ==
    ASSUME RunnerInit
    PROVE  RunnerInv
BY SMTT(30) DEF RunnerInit, RunnerInv, RunnerTypeOK, FileNamesRunners, WasUp, NoLock, Stages

LEMMA RunnerNext_Inv ==
    ASSUME RunnerInv, RunnerNext
    PROVE  RunnerInv' /\ Ages
<1> DEFINE Goal == RunnerInv' /\ Ages
<1> USE DEF RunnerInv, RunnerTypeOK, FileNamesRunners, WasUp, Ages, Stages, Alive
<1>1. ASSUME NEW r \in Runners, Launch(r)
     PROVE  Goal
  BY <1>1 DEF Launch, Goes
<1>2. ASSUME NEW r \in Runners, Check(r)
     PROVE  Goal
  BY <1>2 DEF Check, Goes
<1>3. ASSUME NEW r \in Runners, Match(r)
     PROVE  Goal
  <2>1. \E stage \in {"stopping", "dead"} :
           /\ pc[r] = "matching" /\ pc' = [pc EXCEPT ![r] = stage]
           /\ UNCHANGED <<tries, seen, asked, outdated, overlap, file, lock>>
    BY <1>3 DEF Match, Goes
  <2> QED  BY <2>1
<1>4. ASSUME NEW r \in Runners, ClearFile(r)
     PROVE  Goal
  BY <1>4 DEF ClearFile, Goes
<1>5. ASSUME NEW r \in Runners, ClearLock(r)
     PROVE  Goal
  BY <1>5 DEF ClearLock, NoLock, Goes
<1>6. ASSUME NEW r \in Runners, StopOther(r)
     PROVE  Goal
  <2>1. CASE file = None
    BY <1>6, <2>1 DEF StopOther, Goes
  <2>2. CASE file # None
    <3>1. /\ file \in Runners /\ pc[r] = "stopping"
          /\ pc' = [pc EXCEPT ![r] = "waiting"]
          /\ seen' = [seen EXCEPT ![r] = <<file>>]
          /\ asked' \subseteq Runners
          /\ UNCHANGED <<tries, outdated, overlap, file, lock>>
      BY <1>6, <2>2 DEF StopOther, Goes
    <3>2. RunnerTypeOK'
      BY <3>1
    <3>3. FileNamesRunners' /\ Ages
      BY <3>1
    <3> QED  BY <3>2, <3>3
  <2> QED  BY <2>1, <2>2
<1>7. ASSUME NEW r \in Runners, AwaitDeath(r)
     PROVE  Goal
  BY <1>7 DEF AwaitDeath
<1>8. ASSUME NEW r \in Runners, Open(r)
     PROVE  Goal
  <2>1. \E stage \in {"naming", "judging"} : pc[r] = "locking" /\ pc' = [pc EXCEPT ![r] = stage]
    BY <1>8 DEF Open, Goes
  <2>2. lock' \in [by : Runners \cup {None}, named : BOOLEAN]
    <3>1. CASE lock' = [by |-> r, named |-> FALSE]
      BY <3>1
    <3>2. CASE lock' = lock
      BY <3>2
    <3> QED  BY <1>8, <3>1, <3>2 DEF Open
  <2> QED  BY <1>8, <2>1, <2>2 DEF Open
<1>9. ASSUME NEW r \in Runners, Judge(r)
     PROVE  Goal
  <2>1. PICK stage \in {"unlinking", "locking", "dead"} :
           pc[r] \in {"judging", "unlinking"} /\ pc' = [pc EXCEPT ![r] = stage]
    BY <1>9 DEF Judge, Again, Goes
  <2>2. tries' \in [Runners -> 1 .. MaxAttempts]
    <3>1. tries' = tries \/ (tries[r] < MaxAttempts /\ tries' = [tries EXCEPT ![r] = @ + 1])
      BY <1>9 DEF Judge, Again
    <3>2. tries[r] \in 1 .. MaxAttempts
      OBVIOUS
    <3> QED  BY <3>1, <3>2
  <2>3. lock' \in [by : Runners \cup {None}, named : BOOLEAN]
    BY <1>9 DEF Judge, NoLock
  <2>4. UNCHANGED <<seen, asked, outdated, overlap, file>>
    BY <1>9 DEF Judge
  <2>5. RunnerTypeOK'
    BY <2>1, <2>2, <2>3, <2>4
  <2>6. FileNamesRunners' /\ Ages
    BY <2>1, <2>4
  <2> QED  BY <2>5, <2>6
<1>10. ASSUME NEW r \in Runners, Unlink(r)
     PROVE  Goal
  <2>1. PICK stage \in {"unlinking", "locking", "dead"} :
           pc[r] \in {"judging", "unlinking"} /\ pc' = [pc EXCEPT ![r] = stage]
    BY <1>10 DEF Unlink, Again, Goes
  <2>2. tries' \in [Runners -> 1 .. MaxAttempts]
    <3>1. tries' = tries \/ (tries[r] < MaxAttempts /\ tries' = [tries EXCEPT ![r] = @ + 1])
      BY <1>10 DEF Unlink, Again
    <3>2. tries[r] \in 1 .. MaxAttempts
      OBVIOUS
    <3> QED  BY <3>1, <3>2
  <2>3. lock' \in [by : Runners \cup {None}, named : BOOLEAN]
    BY <1>10 DEF Unlink, NoLock
  <2>4. UNCHANGED <<seen, asked, outdated, overlap, file>>
    BY <1>10 DEF Unlink
  <2>5. RunnerTypeOK'
    BY <2>1, <2>2, <2>3, <2>4
  <2>6. FileNamesRunners' /\ Ages
    BY <2>1, <2>4
  <2> QED  BY <2>5, <2>6
<1>11. ASSUME NEW r \in Runners, Name(r)
     PROVE  Goal
  BY <1>11 DEF Name, Goes
<1>12. ASSUME NEW r \in Runners, WriteFile(r)
     PROVE  Goal
  BY <1>12 DEF WriteFile, Goes
<1>13. ASSUME NEW r \in Runners, HeartbeatRead(r)
     PROVE  Goal
  BY <1>13 DEF HeartbeatRead
<1>14. ASSUME NEW r \in Runners, HeartbeatWrite(r)
     PROVE  Goal
  BY <1>14 DEF HeartbeatWrite, Beating, Usurped
<1>15. ASSUME NEW r \in Runners, Outdated(r)
     PROVE  Goal
  <2>1. CASE pc' = [pc EXCEPT ![r] = "hanging"]
    BY <1>15, <2>1 DEF Outdated
  <2>2. CASE \E q \in Runners : pc[q] = "off" /\ pc' = [pc EXCEPT ![r] = "hanging", ![q] = "checking"]
    <3>1. PICK q \in Runners : pc[q] = "off" /\ pc' = [pc EXCEPT ![r] = "hanging", ![q] = "checking"]
      BY <2>2
    <3>2. pc[r] = "up" /\ UNCHANGED <<tries, seen, asked, outdated, overlap, file, lock>>
      BY <1>15 DEF Outdated
    <3>3. RunnerTypeOK'
      BY <3>1, <3>2
    <3>4. FileNamesRunners' /\ Ages
      BY <3>1, <3>2
    <3> QED  BY <3>3, <3>4
  <2> QED  BY <1>15, <2>1, <2>2 DEF Outdated, Goes
<1>16. ASSUME NEW r \in Runners, HangOut(r)
     PROVE  Goal
  BY <1>16 DEF HangOut, Goes
<1>17. ASSUME NEW r \in Runners, Ask(r)
     PROVE  Goal
  BY <1>17 DEF Ask, Serving
<1>18. ASSUME NEW r \in Runners, Close(r)
     PROVE  Goal
  BY <1>18 DEF Close, Serving, Goes
<1>19. ASSUME NEW r \in Runners, Release(r)
     PROVE  Goal
  BY <1>19 DEF Release, Goes, NoLock
<1>20. ASSUME NEW r \in Runners, Crash(r)
     PROVE  Goal
  BY <1>20 DEF Crash, Goes
<1>21. ASSUME Upgrade
     PROVE  Goal
  BY <1>21 DEF Upgrade
<1> QED  BY <1>1, <1>2, <1>3, <1>4, <1>5, <1>6, <1>7, <1>8, <1>9, <1>10, <1>11, <1>12, <1>13, <1>14, <1>15, <1>16, <1>17, <1>18, <1>19, <1>20, <1>21 DEF RunnerNext

-----------------------------------------------------------------------------
(* The processes. *)

LEMMA Init_Inv ==
    ASSUME Init
    PROVE  Inv
<1>1. RunnerInv
  BY RunnerInit_Inv DEF Init
<1>2. TypeOK
  BY <1>1 DEF Init, TypeOK, Untracked, RunnerInv
<1> QED  BY <1>1, <1>2 DEF Init, Inv, RunnerInv, NoHistory, TrackedByParent, Untracked,
                          NoGhosts, StaysTracked, WorktreeIsFree

\* A step of a process leaves the runners alone.
LEMMA RunnersUnchanged ==
    ASSUME Inv, UNCHANGED runnerVars
    PROVE  RunnerTypeOK' /\ FileNamesRunners' /\ \A r \in Runners : WasUp(r)' = WasUp(r) /\ Alive(r)' = Alive(r)
BY DEF Inv, TypeOK, runnerVars, RunnerTypeOK, FileNamesRunners, WasUp, Alive

\* Every step of a process keeps the invariant.
LEMMA ChildNext_Inv ==
    ASSUME Inv, ChildNext
    PROVE  Inv'
<1>1. ASSUME NEW c \in Children, NEW r \in Runners, Spawn(r, c)
     PROVE  Inv'
  <2>1. TypeOK'
    BY <1>1, RunnersUnchanged DEF Inv, TypeOK, Spawn, Serving
  <2>2. NoHistory'
    BY <1>1, RunnersUnchanged DEF Inv, TypeOK, NoHistory, TrackedByParent, Spawn, Serving, WasUp
  <2>3. TrackedByParent' /\ NoGhosts'
    BY <1>1 DEF Inv, TypeOK, NoHistory, TrackedByParent, NoGhosts, Spawn, Serving
  <2>4. StaysTracked'
    BY <1>1, RunnersUnchanged DEF Inv, TypeOK, NoHistory, TrackedByParent, StaysTracked, Spawn, Serving
  <2>5. WorktreeIsFree'
    BY <1>1 DEF Inv, TypeOK, NoHistory, WorktreeIsFree, Spawn, Serving
  <2> QED  BY <1>1, <2>1, <2>2, <2>3, <2>4, <2>5, RunnersUnchanged DEF Inv, Spawn
<1>2. ASSUME NEW c \in Children, NEW r \in Runners, SpawnFails(r, c)
     PROVE  Inv'
  <2>1. TypeOK'
    BY <1>2, RunnersUnchanged DEF Inv, TypeOK, SpawnFails, Serving
  <2>2. NoHistory'
    BY <1>2, RunnersUnchanged DEF Inv, TypeOK, NoHistory, TrackedByParent, SpawnFails, Serving, WasUp
  <2>3. TrackedByParent' /\ NoGhosts'
    BY <1>2 DEF Inv, TypeOK, NoHistory, TrackedByParent, NoGhosts, SpawnFails, Serving
  <2>4. StaysTracked'
    BY <1>2, RunnersUnchanged DEF Inv, TypeOK, NoHistory, TrackedByParent, StaysTracked, SpawnFails, Serving
  <2>5. WorktreeIsFree'
    BY <1>2 DEF Inv, TypeOK, NoHistory, WorktreeIsFree, SpawnFails, Serving
  <2> QED  BY <1>2, <2>1, <2>2, <2>3, <2>4, <2>5, RunnersUnchanged DEF Inv, SpawnFails
<1>3. ASSUME NEW c \in Children, NEW r \in Runners, StopSession(r, c)
     PROVE  Inv'
  <2>1. TypeOK'
    BY <1>3, RunnersUnchanged DEF Inv, TypeOK, StopSession, Signalled
  <2>2. NoHistory'
    BY <1>3, RunnersUnchanged DEF Inv, TypeOK, NoHistory, TrackedByParent, StopSession, Signalled
  <2>3. TrackedByParent' /\ NoGhosts'
    BY <1>3 DEF Inv, TypeOK, NoHistory, TrackedByParent, NoGhosts, StopSession, Signalled
  <2>4. StaysTracked'
    BY <1>3, RunnersUnchanged DEF Inv, TypeOK, NoHistory, TrackedByParent, StaysTracked, StopSession, Signalled
  <2>5. WorktreeIsFree'
    BY <1>3 DEF Inv, TypeOK, NoHistory, WorktreeIsFree, StopSession, Signalled
  <2> QED  BY <1>3, <2>1, <2>2, <2>3, <2>4, <2>5, RunnersUnchanged DEF Inv, StopSession
<1>4. ASSUME NEW c \in Children, StartInTerminal(c)
     PROVE  Inv'
  <2>1. TypeOK'
    BY <1>4, RunnersUnchanged DEF Inv, TypeOK, StartInTerminal
  <2>2. NoHistory'
    BY <1>4, RunnersUnchanged DEF Inv, TypeOK, NoHistory, TrackedByParent, StartInTerminal
  <2>3. TrackedByParent' /\ NoGhosts'
    BY <1>4 DEF Inv, TypeOK, NoHistory, TrackedByParent, NoGhosts, StartInTerminal
  <2>4. StaysTracked'
    BY <1>4, RunnersUnchanged DEF Inv, TypeOK, NoHistory, TrackedByParent, StaysTracked, StartInTerminal
  <2>5. WorktreeIsFree'
    BY <1>4 DEF Inv, TypeOK, NoHistory, WorktreeIsFree, StartInTerminal
  <2> QED  BY <1>4, <2>1, <2>2, <2>3, <2>4, <2>5, RunnersUnchanged DEF Inv, StartInTerminal
<1>5. ASSUME NEW c \in Children, Report(c)
     PROVE  Inv'
  <2> DEFINE r == file
  <2>1. /\ life[c] \in {"alive", "dying"} /\ ~reported[c]
        /\ reported' = [reported EXCEPT ![c] = TRUE]
        /\ UNCHANGED <<runnerVars, parent, worktree, watch>>
    BY <1>5 DEF Report
  <2>2. CASE UNCHANGED <<life, spawn, tracked>>
    <3>1. TypeOK'
      BY <2>1, <2>2, RunnersUnchanged DEF Inv, TypeOK
    <3> QED  BY <2>1, <2>2, <3>1, RunnersUnchanged
             DEF Inv, TypeOK, NoHistory, TrackedByParent, NoGhosts, StaysTracked, WorktreeIsFree
  <2>3. CASE /\ r \in Runners /\ tracked[r][c] = "spawned" /\ spawn' = [spawn EXCEPT ![c] = IF @ = "waiting" THEN "ok" ELSE @]
             /\ UNCHANGED <<life, tracked>>
    <3> HIDE DEF r
    <3>1. TypeOK'
      BY <2>1, <2>3, RunnersUnchanged DEF Inv, TypeOK
    <3>2. NoHistory'
      BY <2>1, <2>3, RunnersUnchanged DEF Inv, TypeOK, NoHistory, TrackedByParent
    <3>3. TrackedByParent' /\ NoGhosts'
      BY <2>1, <2>3 DEF Inv, TypeOK, NoHistory, TrackedByParent, NoGhosts
    <3>4. StaysTracked'
      BY <2>1, <2>3, RunnersUnchanged DEF Inv, TypeOK, NoHistory, TrackedByParent, StaysTracked
    <3>5. WorktreeIsFree'
      BY <2>1, <2>3 DEF Inv, TypeOK, NoHistory, WorktreeIsFree
    <3> QED  BY <2>1, <3>1, <3>2, <3>3, <3>4, <3>5, RunnersUnchanged DEF Inv
  <2>4. CASE /\ r \in Runners /\ tracked[r][c] = "no" /\ life' = Signalled(c) /\ UNCHANGED <<spawn, tracked>>
    <3> HIDE DEF r
    <3>1. TypeOK'
      BY <2>1, <2>4, RunnersUnchanged DEF Inv, TypeOK, Signalled
    <3>2. NoHistory'
      BY <2>1, <2>4, RunnersUnchanged DEF Inv, TypeOK, NoHistory, TrackedByParent, Signalled
    <3>3. TrackedByParent' /\ NoGhosts'
      BY <2>1, <2>4 DEF Inv, TypeOK, NoHistory, TrackedByParent, NoGhosts, Signalled
    <3>4. StaysTracked'
      BY <2>1, <2>4, RunnersUnchanged DEF Inv, TypeOK, NoHistory, TrackedByParent, StaysTracked, Signalled
    <3>5. WorktreeIsFree'
      BY <2>1, <2>4 DEF Inv, TypeOK, NoHistory, WorktreeIsFree, Signalled
    <3> QED  BY <2>1, <3>1, <3>2, <3>3, <3>4, <3>5, RunnersUnchanged DEF Inv
  <2>5. CASE /\ r \in Runners /\ tracked[r][c] = "no" /\ parent[c] = Terminal /\ tracked' = [tracked EXCEPT ![r][c] = "outside"]
             /\ UNCHANGED <<life, spawn>>
    <3> HIDE DEF r
    <3>1. TypeOK'
      BY <2>1, <2>5, RunnersUnchanged DEF Inv, TypeOK
    <3>2. NoHistory'
      BY <2>1, <2>5, RunnersUnchanged DEF Inv, TypeOK, NoHistory, TrackedByParent
    <3>3. TrackedByParent' /\ NoGhosts'
      BY <2>1, <2>5 DEF Inv, TypeOK, NoHistory, TrackedByParent, NoGhosts
    <3>4. StaysTracked'
      BY <2>1, <2>5, RunnersUnchanged DEF Inv, TypeOK, NoHistory, TrackedByParent, StaysTracked
    <3>5. WorktreeIsFree'
      BY <2>1, <2>5 DEF Inv, TypeOK, NoHistory, WorktreeIsFree
    <3> QED  BY <2>1, <3>1, <3>2, <3>3, <3>4, <3>5, RunnersUnchanged DEF Inv
  <2>6. ASSUME file # None, Handle(file, c)
        PROVE  Inv'
    <3>1. file \in Runners /\ tracked[file][c] \in Marks
      BY <2>6 DEF Inv, TypeOK, RunnerTypeOK, Marks
    <3>2. CASE tracked[file][c] = "spawned"
      BY <2>3, <2>6, <3>1, <3>2 DEF Handle
    <3>3. CASE tracked[file][c] = "no" /\ parent[c] # Terminal
      BY <2>4, <2>6, <3>1, <3>3 DEF Handle
    <3>4. CASE tracked[file][c] = "no" /\ parent[c] = Terminal
      BY <2>5, <2>6, <3>1, <3>4 DEF Handle
    <3>5. CASE tracked[file][c] = "outside"
      BY <2>1, <3>1, <3>5 DEF Inv, TrackedByParent
    <3> QED  BY <3>1, <3>2, <3>3, <3>4, <3>5 DEF Marks
  <2> QED  BY <1>5, <2>2, <2>6 DEF Report
<1>6. ASSUME NEW c \in Children, Timeout(c)
     PROVE  Inv'
  <2>1. TypeOK'
    BY <1>6, RunnersUnchanged DEF Inv, TypeOK, Timeout, TimedOut, AfterTimeout, Signalled
  <2>2. NoHistory'
    BY <1>6, RunnersUnchanged DEF Inv, TypeOK, NoHistory, TrackedByParent, Timeout, TimedOut, AfterTimeout, Signalled
  <2>3. TrackedByParent' /\ NoGhosts'
    BY <1>6 DEF Inv, TypeOK, NoHistory, TrackedByParent, NoGhosts, Timeout, TimedOut, AfterTimeout, Signalled
  <2>4. StaysTracked'
    BY <1>6, RunnersUnchanged DEF Inv, TypeOK, NoHistory, TrackedByParent, StaysTracked, Timeout, TimedOut, AfterTimeout, Signalled
  <2>5. WorktreeIsFree'
    BY <1>6 DEF Inv, TypeOK, NoHistory, WorktreeIsFree, Timeout, TimedOut, AfterTimeout, Signalled
  <2> QED  BY <1>6, <2>1, <2>2, <2>3, <2>4, <2>5, RunnersUnchanged DEF Inv, Timeout
<1>7. ASSUME NEW c \in Children, Die(c)
     PROVE  Inv'
  <2>1. TypeOK'
    BY <1>7, RunnersUnchanged DEF Inv, TypeOK, Die
  <2>2. NoHistory'
    BY <1>7, RunnersUnchanged DEF Inv, TypeOK, NoHistory, TrackedByParent, Die
  <2>3. TrackedByParent' /\ NoGhosts'
    BY <1>7 DEF Inv, TypeOK, NoHistory, TrackedByParent, NoGhosts, Die
  <2>4. StaysTracked'
    BY <1>7, RunnersUnchanged DEF Inv, TypeOK, NoHistory, TrackedByParent, StaysTracked, Die
  <2>5. WorktreeIsFree'
    BY <1>7 DEF Inv, TypeOK, NoHistory, WorktreeIsFree, Die
  <2> QED  BY <1>7, <2>1, <2>2, <2>3, <2>4, <2>5, RunnersUnchanged DEF Inv, Die
<1>8. ASSUME NEW c \in Children, ChildExit(c)
     PROVE  Inv'
  <2>1. TypeOK'
    BY <1>8, RunnersUnchanged DEF Inv, TypeOK, ChildExit
  <2>2. NoHistory'
    BY <1>8, RunnersUnchanged DEF Inv, TypeOK, NoHistory, TrackedByParent, ChildExit
  <2>3. TrackedByParent' /\ NoGhosts'
    BY <1>8 DEF Inv, TypeOK, NoHistory, TrackedByParent, NoGhosts, ChildExit
  <2>4. StaysTracked'
    BY <1>8, RunnersUnchanged DEF Inv, TypeOK, NoHistory, TrackedByParent, StaysTracked, ChildExit
  <2>5. WorktreeIsFree'
    BY <1>8 DEF Inv, TypeOK, NoHistory, WorktreeIsFree, ChildExit
  <2> QED  BY <1>8, <2>1, <2>2, <2>3, <2>4, <2>5, RunnersUnchanged DEF Inv, ChildExit
<1> QED  BY <1>1, <1>2, <1>3, <1>4, <1>5, <1>6, <1>7, <1>8 DEF ChildNext

\* A heartbeat and the end of a runner take only what is not a session any more.
LEMMA Lifecycle_Inv ==
    ASSUME Inv, Lifecycle
    PROVE  Inv'
<1>1. RunnerInv' /\ Ages
  BY RunnerNext_Inv DEF Lifecycle, Inv, TypeOK, RunnerInv
<1>2. UNCHANGED <<parent, life, reported, spawn, worktree, watch>>
  BY DEF Lifecycle
<1>3. ASSUME NEW r \in Runners, NEW c \in Children
      PROVE  /\ tracked'[r][c] \in {tracked[r][c], "no"}
             /\ tracked'[r][c] # tracked[r][c] /\ pc'[r] # "dead" =>
                    life[c] = "gone" \/ (life[c] = "dead" /\ parent[c] # r)
  BY DEF Lifecycle, Untracked, Pruned
<1>4. tracked' \in [Runners -> [Children -> Marks]]
  <2>1. ASSUME NEW r \in Runners
        PROVE  (IF pc'[r] = "dead" THEN Untracked ELSE IF Beats(r) THEN Pruned(r) ELSE tracked[r])
                   \in [Children -> Marks]
    BY DEF Untracked, Pruned, Inv, TypeOK, Marks
  <2> QED  BY <2>1 DEF Lifecycle
<1>5. TypeOK'
  BY <1>1, <1>2, <1>4 DEF Inv, TypeOK, RunnerInv, Marks
<1>6. NoHistory' /\ TrackedByParent' /\ NoGhosts' /\ WorktreeIsFree'
  BY <1>1, <1>2, <1>3 DEF Inv, NoHistory, TrackedByParent, NoGhosts, WorktreeIsFree, Ages
<1>7. StaysTracked'
  BY <1>1, <1>2, <1>3 DEF Inv, NoHistory, StaysTracked, Ages, Alive
<1> QED  BY <1>1, <1>5, <1>6, <1>7 DEF Inv, RunnerInv

-----------------------------------------------------------------------------
(* The theorems. *)

\* The invariant that the theorems below are drawn from.
THEOREM Invariant == Spec => []Inv
<1>1. Inv /\ [Next]_vars => Inv'
  <2> SUFFICES ASSUME Inv, [Next]_vars
               PROVE  Inv'
    OBVIOUS
  <2>1. CASE Lifecycle
    BY <2>1, Lifecycle_Inv
  <2>2. CASE ChildNext
    BY <2>2, ChildNext_Inv
  <2>3. CASE UNCHANGED vars
    <3>1. UNCHANGED childVars /\ UNCHANGED runnerVars
      BY <2>3 DEF vars
    <3>2. TypeOK'
      BY <3>1, RunnersUnchanged DEF childVars, Inv, TypeOK
    <3> QED  BY <3>1, <3>2, RunnersUnchanged
             DEF childVars, Inv, NoHistory, TrackedByParent, NoGhosts, StaysTracked, WorktreeIsFree
  <2> QED  BY <2>1, <2>2, <2>3 DEF Next
<1> QED  BY Init_Inv, <1>1, PTL DEF Spec

\* The maps are over the processes, and a process that waits for a death knows whose.
THEOREM TypeCorrect == Spec => []TypeOK
<1>1. Inv => TypeOK
  BY DEF Inv
<1> QED  BY <1>1, Invariant, PTL

\* No session whose start was answered with an error is tracked (onHappySessionWebhook refuses it).
THEOREM NeverGhosts == Spec => []NoGhosts
<1>1. Inv => NoGhosts
  BY DEF Inv
<1> QED  BY <1>1, Invariant, PTL

\* Neither a heartbeat nor another runner's report loses a session that runs.
THEOREM AlwaysTracked == Spec => []StaysTracked
<1>1. Inv => StaysTracked
  BY DEF Inv
<1> QED  BY <1>1, Invariant, PTL

\* Neither the time limit nor an exit removes a worktree under a process.
THEOREM WorktreesAreFree == Spec => []WorktreeIsFree
<1>1. Inv => WorktreeIsFree
  BY DEF Inv
<1> QED  BY <1>1, Invariant, PTL

\* A step sends SIGTERM only to what timed out, was stopped, or reported unknown.
THEOREM SignalsHaveReasons == Spec => KilledForReason
<1> DEFINE Reason(c) == \/ spawn[c] = "waiting" /\ spawn'[c] = "error"
                        \/ \E r \in Runners : tracked[r][c] # "no" /\ tracked'[r][c] = "no"
                        \/ ~reported[c] /\ reported'[c] /\ tracked[file][c] = "no"
           Reasons == \A c \in Children : (life[c] = "alive" /\ life'[c] = "dying") => Reason(c)
<1>1. Inv /\ [Next]_vars => [Reasons]_vars
  <2> SUFFICES ASSUME Inv, Next, NEW c \in Children, life[c] = "alive", life'[c] = "dying"
               PROVE  Reason(c)
    OBVIOUS
  <2>1. ~Lifecycle
    BY DEF Lifecycle
  <2>2. ASSUME NEW d \in Children, NEW r \in Runners, Spawn(r, d) \/ SpawnFails(r, d)
        PROVE  Reason(c)
    BY <2>2 DEF Spawn, SpawnFails, Inv, TypeOK
  <2>3. ASSUME NEW d \in Children, NEW r \in Runners, StopSession(r, d)
        PROVE  Reason(c)
    BY <2>3 DEF StopSession, Signalled, Inv, TypeOK
  <2>4. ASSUME NEW d \in Children, StartInTerminal(d) \/ Die(d) \/ ChildExit(d)
        PROVE  Reason(c)
    BY <2>4 DEF StartInTerminal, Die, ChildExit, Inv, TypeOK
  <2>5. ASSUME NEW d \in Children, Timeout(d)
        PROVE  Reason(c)
    BY <2>5 DEF Timeout, TimedOut, Signalled, Inv, TypeOK
  <2>6. ASSUME NEW d \in Children, Report(d)
        PROVE  Reason(c)
    <3>1. file # None /\ Handle(file, d)
      BY <2>6 DEF Report
    <3>2. file \in Runners /\ tracked[file][d] \in Marks
      BY <3>1 DEF Inv, TypeOK, RunnerTypeOK, Marks
    <3>3. tracked[file][d] # "outside"
      BY <2>6, <3>2 DEF Report, Inv, TrackedByParent
    <3>4. tracked[file][d] = "no" /\ life' = Signalled(d)
      BY <3>1, <3>2, <3>3 DEF Handle, Marks
    <3>5. c = d
      BY <3>4 DEF Signalled, Inv, TypeOK
    <3> QED  BY <2>6, <3>4, <3>5 DEF Report, Inv, TypeOK
  <2> QED  BY <2>1, <2>2, <2>3, <2>4, <2>5, <2>6 DEF Next, ChildNext
<1> QED  BY Invariant, <1>1, PTL DEF Spec, KilledForReason

=============================================================================
