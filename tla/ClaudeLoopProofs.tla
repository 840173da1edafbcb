-------------------------- MODULE ClaudeLoopProofs --------------------------
(***************************************************************************)
(* For any runs, modes, messages and refusals: the messages of the user    *)
(* are given once each, in order and to the current run, and none is lost  *)
(* without a reason.                                                       *)
(***************************************************************************)
EXTENDS ClaudeLoop, FiniteSetTheorems, TLAPS

USE LoopAssumption

\* The one fetch is that of the current run.  It waits for an empty queue with nothing held
\* back, and neither waits nor goes on after an abort, a switch or an exit.
FetchIsCurrent ==
    /\ asking # None => asking = run /\ ~aborted /\ loop \in Remote
    /\ waiter # None => ~aborted /\ loop \in Remote /\ queue = <<>> /\ pending = <<>>
    /\ waiter # None /\ asking = None => waiter = run
    /\ exit # None => aborted /\ loop \in Remote \cup {"local"}

\* The messages among ids (0 is no message) come in the order they were sent.
Sorted(ids) == \A a, b \in DOMAIN ids : a < b /\ ids[a] # 0 /\ ids[b] # 0 => ids[a] < ids[b]

Members(ids) == {ids[a] : a \in DOMAIN ids}
Given == IdsGiven(DOMAIN given)
Before(S, T) == \A a \in S \ {0}, b \in T \ {0} : a < b

\* What was given is older than what is held back, and that is older than what is queued.
OldestFirst ==
    /\ Sorted(Ids(queue))
    /\ \A i \in DOMAIN pending : Sorted(pending[i].ids)
    /\ Before(Given, Held) /\ Before(Given, Queued) /\ Before(Held, Queued)
    /\ \A a \in Given \cup Held \cup Queued : a <= received

Inv ==
    /\ TypeOK
    /\ FetchIsCurrent
    /\ OldestFirst
    /\ GivenInOrder
    /\ LostForReason

-----------------------------------------------------------------------------
(* The queue. *)

LEMMA Elements ==
    ASSUME NEW S, NEW s \in Seq(S)
    PROVE  \A i \in DOMAIN s : s[i] \in S
OBVIOUS

LEMMA BatchLengthBounds ==
    ASSUME NEW q \in Seq(Items), q # <<>>
    PROVE  BatchLength(q) \in 1..Len(q)
<1> DEFINE like == {n \in DOMAIN q : \A i \in 1..n : q[i].mode = q[1].mode /\ ~Isolated(q[i])}
<1>1. DOMAIN q = 1..Len(q) /\ Len(q) \in Nat /\ 1 \in DOMAIN q
  OBVIOUS
<1>2. IsFiniteSet(1..Len(q)) /\ Cardinality(1..Len(q)) = Len(q)
  BY <1>1, FS_Interval
<1>3. like \subseteq 1..Len(q)
  BY <1>1
<1>4. IsFiniteSet(like) /\ Cardinality(like) <= Len(q) /\ Cardinality(like) \in Nat
  BY <1>2, <1>3, FS_Subset, FS_CardinalityType
<1>5. CASE ~Isolated(q[1])
  <2>1. \A i \in 1..1 : i = 1
    OBVIOUS
  <2>2. 1 \in like
    BY <1>1, <1>5, <2>1
  <2>3. Cardinality(like) # 0
    BY <1>4, <2>2, FS_EmptySet
  <2> QED  BY <1>4, <1>5, <2>3 DEF BatchLength
<1>6. CASE Isolated(q[1])
  BY <1>1, <1>6 DEF BatchLength
<1> QED  BY <1>5, <1>6

\* A batch is the head of the queue, in order; the rest stays.
LEMMA BatchAndRest ==
    ASSUME NEW q \in Seq(Items), q # <<>>
    PROVE  /\ Batch(q) \in Seq(Items) /\ Rest(q) \in Seq(Items)
           /\ \A i \in DOMAIN Batch(q) : i \in DOMAIN q /\ Batch(q)[i] = q[i] /\ i <= BatchLength(q)
           /\ \A i \in DOMAIN Rest(q) : i + BatchLength(q) \in DOMAIN q /\ Rest(q)[i] = q[i + BatchLength(q)]
           /\ \A i \in DOMAIN q : i \in DOMAIN Batch(q) \/ i - BatchLength(q) \in DOMAIN Rest(q)
<1>1. BatchLength(q) \in 1..Len(q) /\ Len(q) \in Nat /\ DOMAIN q = 1..Len(q)
  BY BatchLengthBounds
<1> DEFINE n == BatchLength(q)
<1> HIDE DEF n
<1>2. /\ SubSeq(q, 1, n) \in Seq(Items) /\ Len(SubSeq(q, 1, n)) = n
      /\ \A i \in 1..n : SubSeq(q, 1, n)[i] = q[i]
  BY <1>1 DEF n
<1>3. /\ SubSeq(q, n + 1, Len(q)) \in Seq(Items) /\ Len(SubSeq(q, n + 1, Len(q))) = Len(q) - n
      /\ \A i \in 1..(Len(q) - n) : SubSeq(q, n + 1, Len(q))[i] = q[i + n]
  BY <1>1 DEF n
<1>4. /\ DOMAIN SubSeq(q, 1, n) = 1..n
      /\ DOMAIN SubSeq(q, n + 1, Len(q)) = 1..(Len(q) - n)
  BY <1>2, <1>3
<1>5. Batch(q) = SubSeq(q, 1, n) /\ Rest(q) = SubSeq(q, n + 1, Len(q))
  BY DEF Batch, Rest, n
<1>6. n \in 1..Len(q)
  BY <1>1 DEF n
<1>7. \A i \in 1..n : i \in 1..Len(q)
  BY <1>1, <1>6
<1>8. \A i \in 1..(Len(q) - n) : i + n \in 1..Len(q)
  BY <1>1, <1>6
<1>9. \A i \in 1..Len(q) : i \in 1..n \/ i - n \in 1..(Len(q) - n)
  BY <1>1, <1>6
<1>10. /\ \A i \in DOMAIN Batch(q) : i \in DOMAIN q /\ Batch(q)[i] = q[i] /\ i <= n
       /\ \A i \in DOMAIN Rest(q) : i + n \in DOMAIN q /\ Rest(q)[i] = q[i + n]
       /\ \A i \in DOMAIN q : i \in DOMAIN Batch(q) \/ i - n \in DOMAIN Rest(q)
  BY <1>1, <1>2, <1>3, <1>4, <1>5, <1>7, <1>8, <1>9
<1> QED  BY <1>2, <1>3, <1>5, <1>10 DEF n

LEMMA IdsOf ==
    ASSUME NEW q \in Seq(Items)
    PROVE  /\ Ids(q) \in Seq(0..MaxMessages)
           /\ DOMAIN Ids(q) = DOMAIN q /\ \A i \in DOMAIN q : Ids(q)[i] = q[i].id
<1>1. DOMAIN q = 1..Len(q) /\ Len(q) \in Nat /\ \A i \in DOMAIN q : q[i] \in Items
  OBVIOUS
<1>2. \A i \in DOMAIN q : q[i].id \in 0..MaxMessages
  BY <1>1 DEF Items
<1>3. Ids(q) \in [1..Len(q) -> 0..MaxMessages]
  BY <1>1, <1>2 DEF Ids
<1> QED  BY <1>1, <1>3 DEF Ids

LEMMA MembersOf ==
    ASSUME NEW q \in Seq(Items)
    PROVE  {q[i].id : i \in DOMAIN q} = Members(Ids(q))
<1>1. DOMAIN Ids(q) = DOMAIN q /\ \A i \in DOMAIN q : Ids(q)[i] = q[i].id
  BY IdsOf
<1> QED  BY <1>1 DEF Members

LEMMA TakeInOrder ==
    ASSUME NEW q \in Seq(Items), q # <<>>, Sorted(Ids(q))
    PROVE  /\ Sorted(Ids(Batch(q))) /\ Sorted(Ids(Rest(q)))
           /\ Before(Members(Ids(Batch(q))), Members(Ids(Rest(q))))
           /\ Members(Ids(Batch(q))) \cup Members(Ids(Rest(q))) = Members(Ids(q))
<1> DEFINE n == BatchLength(q)
           b == Ids(Batch(q))
           t == Ids(Rest(q))
<1>1. n \in Nat
  BY BatchLengthBounds
<1>2. /\ \A i \in DOMAIN b : i \in Nat /\ i \in DOMAIN q /\ b[i] = Ids(q)[i] /\ i <= n
      /\ \A i \in DOMAIN t : i \in Nat \ {0} /\ i + n \in DOMAIN q /\ t[i] = Ids(q)[i + n]
      /\ \A i \in DOMAIN q : i \in DOMAIN b \/ i - n \in DOMAIN t
  <2>1. Batch(q) \in Seq(Items) /\ Rest(q) \in Seq(Items)
    BY BatchAndRest
  <2>2. /\ DOMAIN b = DOMAIN Batch(q) /\ \A i \in DOMAIN b : i \in Nat /\ b[i] = Batch(q)[i].id
        /\ DOMAIN t = DOMAIN Rest(q) /\ \A i \in DOMAIN t : i \in Nat \ {0} /\ t[i] = Rest(q)[i].id
    BY <2>1, IdsOf
  <2>3. \A i \in DOMAIN q : Ids(q)[i] = q[i].id
    BY IdsOf
  <2> HIDE DEF b, t
  <2>4. /\ \A i \in DOMAIN Batch(q) : i \in DOMAIN q /\ Batch(q)[i] = q[i] /\ i <= n
        /\ \A i \in DOMAIN Rest(q) : i + n \in DOMAIN q /\ Rest(q)[i] = q[i + n]
        /\ \A i \in DOMAIN q : i \in DOMAIN Batch(q) \/ i - n \in DOMAIN Rest(q)
    BY BatchAndRest
  <2> QED  BY <2>2, <2>3, <2>4
<1>3. DOMAIN Ids(q) = DOMAIN q /\ \A i \in DOMAIN q : i \in Nat
  BY IdsOf
<1> HIDE DEF n, b, t
<1>4. Sorted(b)
  BY <1>2, <1>3 DEF Sorted
<1>5. Sorted(t)
  BY <1>1, <1>2, <1>3 DEF Sorted
<1>6. Before(Members(b), Members(t))
  BY <1>1, <1>2, <1>3 DEF Sorted, Before, Members
<1>7. Members(b) \cup Members(t) \subseteq Members(Ids(q))
  BY <1>2, <1>3 DEF Members
<1>8. ASSUME NEW i \in DOMAIN q
      PROVE  Ids(q)[i] \in Members(b) \cup Members(t)
  <2>1. CASE i \in DOMAIN b
    BY <1>2, <2>1 DEF Members
  <2>2. CASE i - n \in DOMAIN t
    <3>1. t[i - n] = Ids(q)[i]
      BY <1>1, <1>2, <1>3, <2>2
    <3> QED  BY <2>2, <3>1 DEF Members
  <2> QED  BY <1>2, <2>1, <2>2
<1> QED  BY <1>3, <1>4, <1>5, <1>6, <1>7, <1>8 DEF b, t, Members

-----------------------------------------------------------------------------
(* The steps that move no message. *)

Agent == [state : {"none", "working", "idle"}, refused : BOOLEAN, heard : SUBSET Modes]

LEMMA AgentUpdates ==
    ASSUME NEW as \in [Runs -> Agent], NEW r \in Runs
    PROVE  /\ \A s \in {"none", "working", "idle"} : [as EXCEPT ![r].state = s] \in [Runs -> Agent]
           /\ [as EXCEPT ![r].refused = TRUE] \in [Runs -> Agent]
           /\ [as EXCEPT ![r] = Gone] \in [Runs -> Agent]
           /\ \A m \in Modes : /\ [as EXCEPT ![r] = [state |-> "working", refused |-> FALSE, heard |-> {m}]]
                                      \in [Runs -> Agent]
                              /\ [as EXCEPT ![r].state = "working", ![r].heard = @ \cup {m}]
                                      \in [Runs -> Agent]
<1>1. as[r] \in Agent
  OBVIOUS
<1>2. \A s \in {"none", "working", "idle"} : [as EXCEPT ![r].state = s] \in [Runs -> Agent]
  BY <1>1 DEF Agent
<1>3. [as EXCEPT ![r].refused = TRUE] \in [Runs -> Agent]
  BY <1>1 DEF Agent
<1>4. [as EXCEPT ![r] = Gone] \in [Runs -> Agent]
  BY DEF Agent, Gone
<1>5. ASSUME NEW m \in Modes
      PROVE  /\ [as EXCEPT ![r] = [state |-> "working", refused |-> FALSE, heard |-> {m}]] \in [Runs -> Agent]
             /\ [as EXCEPT ![r].state = "working", ![r].heard = @ \cup {m}] \in [Runs -> Agent]
  <2>1. [as EXCEPT ![r] = [state |-> "working", refused |-> FALSE, heard |-> {m}]] \in [Runs -> Agent]
    BY DEF Agent
  <2>2. [as EXCEPT ![r].state = "working", ![r].heard = @ \cup {m}] \in [Runs -> Agent]
    BY <1>1 DEF Agent
  <2> QED  BY <2>1, <2>2
<1> QED  BY <1>2, <1>3, <1>4, <1>5

LEMMA Init_Inv ==
    ASSUME Init
    PROVE  Inv
<1>1. TypeOK
  <2>1. agents \in [Runs -> Agent] /\ received \in 0..MaxMessages /\ refusals \in 0..MaxRefusals
    BY DEF Init, Gone, Agent
  <2>2. queue \in Seq(Items) /\ given \in Seq([ids : Seq(0..MaxMessages), to : Runs, read : BOOLEAN])
    BY DEF Init
  <2> QED  BY <2>1, <2>2 DEF Init, TypeOK, Remote, Agent
<1>2. Queued = {} /\ Held = {} /\ Given = {}
  BY DEF Init, Queued, Held, Given, IdsGiven
<1>3. OldestFirst
  BY <1>2 DEF Init, OldestFirst, Sorted, Ids, Before
<1>4. FetchIsCurrent
  BY DEF Init, FetchIsCurrent
<1>5. GivenInOrder /\ LostForReason
  BY DEF Init, GivenInOrder, LostForReason
<1> QED  BY <1>1, <1>3, <1>4, <1>5 DEF Inv

LEMMA SameMessages ==
    ASSUME UNCHANGED <<queue, pending, given, received, excused>>, loop = "over" => loop' = "over",
           OldestFirst, GivenInOrder, LostForReason
    PROVE  OldestFirst' /\ GivenInOrder' /\ LostForReason'
BY DEF OldestFirst, GivenInOrder, LostForReason, Queued, Held, Given, Read, IdsGiven

\* What an abort does to the fetch.
LEMMA AbortRun_Fetch ==
    ASSUME TypeOK, FetchIsCurrent, Quiet, loop \in Remote, AbortRun, UNCHANGED <<run, asking>>
    PROVE  /\ aborted' = TRUE /\ waiter' = None /\ ended' \in BOOLEAN
           /\ loop' \in Remote
<1>1. waiter = None \/ waiter = run
  BY DEF FetchIsCurrent, Quiet
<1> QED  BY <1>1 DEF AbortRun, NoMore, TypeOK, Remote

LEMMA Steps_Inv ==
    ASSUME Inv,
           \/ Result \/ Deny \/ ToolResult
           \/ \E r \in Runs : GoOn(r) \/ AgentEnds(r)
           \/ LocalStart \/ LocalEnds
           \/ UNCHANGED vars
    PROVE  Inv'
<1>1. /\ UNCHANGED <<queue, waiter, pending, run, modeHash, ended, received, given, excused>>
      /\ loop = "over" => loop' = "over"
  BY DEF Result, Deny, ToolResult, GoOn, AgentEnds, LocalStart, LocalEnds, Quiet,
         vars, queueVars, launchVars, inputVars
<1>2. OldestFirst' /\ GivenInOrder' /\ LostForReason'
  BY <1>1, SameMessages DEF Inv
<1>3. agents' \in [Runs -> Agent] /\ refusals' \in 0..MaxRefusals
  <2>1. agents \in [Runs -> Agent] /\ (loop = "agent" => run \in Runs) /\ refusals \in 0..MaxRefusals
    BY DEF Inv, TypeOK, Agent, Remote
  <2>2. CASE Result
    BY <2>1, <2>2, AgentUpdates DEF Result
  <2>3. CASE Deny
    <3>1. agents' = [agents EXCEPT ![run].refused = TRUE] /\ run \in Runs
      BY <2>1, <2>3 DEF Deny
    <3>2. refusals' \in 0..MaxRefusals
      BY <2>1, <2>3 DEF Deny
    <3> QED  BY <2>1, <3>1, <3>2, AgentUpdates
  <2>4. CASE \E r \in Runs : GoOn(r) \/ AgentEnds(r)
    <3>1. PICK r \in Runs : \/ agents' = [agents EXCEPT ![r].state = "working"]
                           \/ agents' = [agents EXCEPT ![r] = Gone]
      BY <2>4 DEF GoOn, AgentEnds
    <3>2. UNCHANGED refusals
      BY <2>4 DEF GoOn, AgentEnds
    <3>3. CASE agents' = [agents EXCEPT ![r].state = "working"]
      BY <2>1, <3>2, <3>3, AgentUpdates
    <3>4. CASE agents' = [agents EXCEPT ![r] = Gone]
      BY <2>1, <3>2, <3>4, AgentUpdates
    <3> QED  BY <3>1, <3>3, <3>4
  <2>5. CASE ToolResult \/ LocalStart \/ LocalEnds \/ UNCHANGED vars
    BY <2>1, <2>5 DEF ToolResult, LocalStart, LocalEnds, vars
  <2> QED  BY <2>2, <2>3, <2>4, <2>5
<1>4. /\ loop' \in Remote \cup {"scanning", "local", "turning", "over"}
      /\ loop' \in Remote => loop \in Remote
      /\ loop' = "local" => loop \in {"scanning", "local"}
      /\ exit' \in {exit, None} /\ aborted' \in {aborted, FALSE}
  <2>1. CASE Result \/ Deny \/ ToolResult \/ \E r \in Runs : GoOn(r) \/ AgentEnds(r)
    BY <2>1 DEF Result, Deny, ToolResult, GoOn, AgentEnds, Remote, Inv, TypeOK, launchVars
  <2>2. CASE LocalStart \/ LocalEnds \/ UNCHANGED vars
    BY <2>2 DEF LocalStart, LocalEnds, Remote, Inv, TypeOK, vars, launchVars
  <2> QED  BY <2>1, <2>2
<1>5. asking' \in Runs \cup {None}
  BY DEF Result, Deny, ToolResult, GoOn, AgentEnds, LocalStart, LocalEnds, Remote, Inv, TypeOK,
         vars, queueVars, launchVars, inputVars
<1>6. TypeOK'
  BY <1>1, <1>3, <1>4, <1>5 DEF Inv, TypeOK, Agent
<1>7. FetchIsCurrent'
  <2>1. CASE Result
    BY <1>1, <2>1 DEF Result, Quiet, Inv, FetchIsCurrent, Remote, launchVars
  <2>2. CASE Deny \/ ToolResult \/ (\E r \in Runs : GoOn(r) \/ AgentEnds(r))
    BY <1>1, <2>2 DEF Deny, ToolResult, GoOn, AgentEnds, Quiet, Inv, FetchIsCurrent, Remote,
                      queueVars, launchVars
  <2>3. CASE LocalStart \/ LocalEnds
    BY <1>1, <2>3 DEF LocalStart, LocalEnds, Quiet, Inv, FetchIsCurrent, Remote, queueVars
  <2>4. CASE UNCHANGED vars
    BY <2>4 DEF Inv, FetchIsCurrent, vars, queueVars, launchVars, inputVars
  <2> QED  BY <2>1, <2>2, <2>3, <2>4
<1> QED  BY <1>2, <1>6, <1>7 DEF Inv

LEMMA Wait_Inv ==
    ASSUME Inv, NEW r \in Runs, Wait(r)
    PROVE  Inv'
<1>1. OldestFirst' /\ GivenInOrder' /\ LostForReason'
  <2>1. UNCHANGED <<queue, pending, given, received, excused>> /\ loop # "over"
    BY DEF Wait, Inv, FetchIsCurrent, Remote
  <2> QED  BY <2>1, SameMessages DEF Inv
<1>2. r = run /\ ~aborted /\ loop \in Remote
  BY DEF Wait, Inv, FetchIsCurrent, TypeOK
<1>3. waiter' = r /\ UNCHANGED <<loop, ended>>
  BY <1>2 DEF Wait
<1>4. TypeOK'
  BY <1>3 DEF Wait, Inv, TypeOK
<1>5. FetchIsCurrent'
  BY <1>2, <1>3 DEF Wait, Inv, FetchIsCurrent
<1> QED  BY <1>1, <1>4, <1>5 DEF Inv

LEMMA Begins_Inv ==
    ASSUME Inv, NEW r \in Runs, NextRun(r) \/ EnterRemote(r)
    PROVE  Inv'
<1>1. /\ UNCHANGED <<queue, waiter, exit, pending, agents, received, refusals, given, excused>>
      /\ Quiet /\ loop \in {"flushing", "turning"} /\ exit = None
      /\ run' = r /\ loop' = "first" /\ asking' = r /\ aborted' = FALSE /\ modeHash' = None /\ ended' = FALSE
  BY DEF NextRun, EnterRemote, Begin, Inv, FetchIsCurrent, Remote
<1>2. OldestFirst' /\ GivenInOrder' /\ LostForReason'
  BY <1>1, SameMessages DEF Inv
<1>3. TypeOK'
  BY <1>1 DEF Inv, TypeOK, Remote
<1>4. FetchIsCurrent'
  BY <1>1 DEF Inv, FetchIsCurrent, Remote, TypeOK
<1> QED  BY <1>2, <1>3, <1>4 DEF Inv

LEMMA Aborts_Inv ==
    ASSUME Inv, RemoteAbort \/ \E reason \in {"switch", "exit"} : RequestExit(reason)
    PROVE  Inv'
<1>1. /\ UNCHANGED <<queue, asking, run, pending, modeHash, agents, received, refusals, given, excused>>
      /\ Quiet /\ loop \in Remote /\ exit' \in {exit, "switch", "exit"}
      /\ AbortRun \/ (aborted /\ UNCHANGED <<aborted, waiter, loop, ended>>)
  <2>1. CASE RemoteAbort
    BY <2>1 DEF RemoteAbort
  <2>2. CASE \E reason \in {"switch", "exit"} : RequestExit(reason)
    BY <2>2 DEF RequestExit
  <2> QED  BY <2>1, <2>2
<1>2. aborted' = TRUE /\ waiter' = None /\ ended' \in BOOLEAN /\ loop' \in Remote
  BY <1>1, AbortRun_Fetch DEF Inv, FetchIsCurrent, TypeOK
<1>3. OldestFirst' /\ GivenInOrder' /\ LostForReason'
  BY <1>1, SameMessages DEF Inv, Remote
<1>4. TypeOK'
  BY <1>1, <1>2 DEF Inv, TypeOK
<1>5. FetchIsCurrent'
  BY <1>1, <1>2 DEF Inv, FetchIsCurrent, Quiet
<1> QED  BY <1>3, <1>4, <1>5 DEF Inv

-----------------------------------------------------------------------------
(* The steps that move messages. *)

\* The places where messages are, as sets and sequences of their ids.
LEMMA Places ==
    ASSUME TypeOK
    PROVE  /\ Queued = Members(Ids(queue))
           /\ Ids(queue) \in Seq(0..MaxMessages)
           /\ pending = <<>> => Held = {}
           /\ pending # <<>> => Held = Members(pending[1].ids) /\ DOMAIN pending = {1}
                                /\ pending[1] \in Batches
           /\ \A a \in Given \cup Held \cup Queued : a \in 0..MaxMessages
<1>1. Ids(queue) \in Seq(0..MaxMessages) /\ DOMAIN Ids(queue) = DOMAIN queue
      /\ \A i \in DOMAIN queue : Ids(queue)[i] = queue[i].id
  BY IdsOf DEF TypeOK
<1>2. Queued = Members(Ids(queue))
  BY <1>1 DEF Queued, Members
<1>3. pending = <<>> => Held = {}
  BY DEF Held
<1>4. ASSUME pending # <<>>
      PROVE  Held = Members(pending[1].ids) /\ DOMAIN pending = {1} /\ pending[1] \in Batches
  <2>1. Len(pending) = 1 /\ pending[1] \in Batches
    BY <1>4 DEF TypeOK
  <2>2. DOMAIN pending = {1}
    BY <2>1 DEF TypeOK
  <2> QED  BY <2>1, <2>2 DEF Held, Members
<1>5. ASSUME NEW ids \in Seq(0..MaxMessages), NEW a \in Members(ids)
      PROVE  a \in 0..MaxMessages
  BY DEF Members
<1>6. \A a \in Given : a \in 0..MaxMessages
  <2>1. ASSUME NEW i \in DOMAIN given, NEW j \in DOMAIN given[i].ids
        PROVE  given[i].ids[j] \in 0..MaxMessages
    <3>1. given[i] \in [ids : Seq(0..MaxMessages), to : Runs, read : BOOLEAN]
      <4>1. given \in Seq([ids : Seq(0..MaxMessages), to : Runs, read : BOOLEAN])
        BY DEF TypeOK
      <4> QED  BY <4>1, Elements
    <3> QED  BY <3>1
  <2> QED  BY <2>1 DEF Given, IdsGiven
<1>7. \A a \in Held : a \in 0..MaxMessages
  BY <1>3, <1>4, <1>5 DEF Batches
<1> QED  BY <1>1, <1>2, <1>3, <1>4, <1>5, <1>6, <1>7

\* A batch that comes after all that was given is given.
LEMMA Give ==
    ASSUME TypeOK, GivenInOrder, NEW r \in Runs, NEW ids \in Seq(0..MaxMessages),
           NEW read \in BOOLEAN, Sorted(ids), Before(Given, Members(ids)),
           given' = Append(given, [ids |-> ids, to |-> r, read |-> read])
    PROVE  /\ given' \in Seq([ids : Seq(0..MaxMessages), to : Runs, read : BOOLEAN])
           /\ GivenInOrder' /\ Given' = Given \cup Members(ids)
           /\ Read' = IF read THEN Read \cup Members(ids) ELSE Read
           /\ given'[Len(given')].to = r
<1> DEFINE new == [ids |-> ids, to |-> r, read |-> read]
<1>1. new \in [ids : Seq(0..MaxMessages), to : Runs, read : BOOLEAN]
  OBVIOUS
<1>2. given \in Seq([ids : Seq(0..MaxMessages), to : Runs, read : BOOLEAN])
  BY DEF TypeOK
<1>3. new.ids = ids /\ new.to = r /\ new.read = read
  OBVIOUS
<1> HIDE DEF new
<1>4. /\ given' \in Seq([ids : Seq(0..MaxMessages), to : Runs, read : BOOLEAN])
      /\ Len(given) \in Nat /\ DOMAIN given = 1..Len(given)
      /\ DOMAIN given' = DOMAIN given \cup {Len(given) + 1} /\ Len(given') = Len(given) + 1
      /\ given'[Len(given) + 1] = new
      /\ \A i \in DOMAIN given : given'[i] = given[i] /\ i # Len(given) + 1
  BY <1>1, <1>2 DEF new
<1>5. Given' = Given \cup Members(ids)
  BY <1>3, <1>4 DEF Given, IdsGiven, Members
<1>7. Read' = IF read THEN Read \cup Members(ids) ELSE Read
  <2> DEFINE T == {i \in DOMAIN given : given[i].read}
             part(i) == {given[i].ids[j] : j \in DOMAIN given[i].ids}
             partAfter(i) == {given'[i].ids[j] : j \in DOMAIN given'[i].ids}
  <2>1. {i \in DOMAIN given' : given'[i].read} = IF read THEN T \cup {Len(given) + 1} ELSE T
    BY <1>3, <1>4
  <2>2. /\ \A i \in T : partAfter(i) = part(i)
        /\ partAfter(Len(given) + 1) = Members(ids)
    BY <1>3, <1>4 DEF Members
  <2>3. Read = UNION {part(i) : i \in T}
    BY DEF Read, IdsGiven
  <2>4. Read' = UNION {partAfter(i) : i \in IF read THEN T \cup {Len(given) + 1} ELSE T}
    BY <2>1 DEF Read, IdsGiven
  <2> HIDE DEF T, part, partAfter
  <2> QED  BY <2>2, <2>3, <2>4
<1>6. GivenInOrder'
  <2> SUFFICES ASSUME NEW i \in DOMAIN given', NEW j \in DOMAIN given',
                      NEW a \in DOMAIN given'[i].ids, NEW b \in DOMAIN given'[j].ids,
                      i < j \/ (i = j /\ a < b), given'[i].ids[a] # 0, given'[j].ids[b] # 0
               PROVE  given'[i].ids[a] < given'[j].ids[b]
    BY DEF GivenInOrder
  <2>1. CASE i \in DOMAIN given /\ j \in DOMAIN given
    BY <1>4, <2>1 DEF GivenInOrder
  <2>2. CASE i \in DOMAIN given /\ j = Len(given) + 1
    <3>1. given'[i].ids[a] \in Given /\ given'[j].ids[b] \in Members(ids)
      BY <1>3, <1>4, <2>2 DEF Given, IdsGiven, Members
    <3> QED  BY <3>1 DEF Before
  <2>3. CASE i = Len(given) + 1 /\ j = Len(given) + 1
    BY <1>3, <1>4, <2>3 DEF Sorted
  <2> QED  BY <1>4, <2>1, <2>2, <2>3
<1> QED  BY <1>3, <1>4, <1>5, <1>6, <1>7

\* nextMessage's answer is handed to the current run, which reads it or is over.
HandedOrExcused(r, ids) ==
    \E read \in BOOLEAN :
        /\ given' = Append(given, [ids |-> ids, to |-> r, read |-> read])
        /\ excused' = IF read THEN excused ELSE excused \cup Members(ids)

LEMMA Hand_Gives ==
    ASSUME TypeOK, NEW r \in Runs, r = run, loop \in Remote, ~aborted, NEW batch \in Batches,
           Hand(r, batch)
    PROVE  HandedOrExcused(r, batch.ids) /\ loop' \in Remote /\ agents' \in [Runs -> Agent]
<1>1. agents \in [Runs -> Agent] /\ batch.mode \in Modes
  BY DEF TypeOK, Agent, Batches
<1>2. HandedOrExcused(r, batch.ids) /\ loop' \in Remote
  <2>1. CASE First(r)
    <3>1. /\ given' = Append(given, [ids |-> batch.ids, to |-> r, read |-> TRUE])
          /\ excused' = excused /\ loop' \in {"flushing", "agent"}
      BY <2>1 DEF Hand, Start, Handed
    <3> QED  BY <3>1 DEF HandedOrExcused, Remote
  <2>2. CASE loop = "agent"
    <3>1. /\ given' = Append(given, [ids |-> batch.ids, to |-> r, read |-> TRUE])
          /\ excused' = excused /\ loop' = loop
      BY <2>2 DEF Hand, First, Push, Handed
    <3> QED  BY <2>2, <3>1 DEF HandedOrExcused, Remote
  <2>3. CASE loop = "flushing"
    <3>1. /\ given' = Append(given, [ids |-> batch.ids, to |-> r, read |-> FALSE])
          /\ excused' = excused \cup Members(batch.ids) /\ loop' = loop
      BY <2>3 DEF Hand, First, Push, Handed, Members
    <3> QED  BY <2>3, <3>1 DEF HandedOrExcused, Remote
  <2> QED  BY <2>1, <2>2, <2>3 DEF First, Remote
<1>3. \/ agents' = agents
      \/ agents' = [agents EXCEPT ![r] = [state |-> "working", refused |-> FALSE, heard |-> {batch.mode}]]
      \/ agents' = [agents EXCEPT ![r].state = "working", ![r].heard = @ \cup {batch.mode}]
  BY DEF Hand, Start, Push
<1>4. agents' \in [Runs -> Agent]
  <2>1. CASE agents' = [agents EXCEPT ![r] = [state |-> "working", refused |-> FALSE, heard |-> {batch.mode}]]
    BY <1>1, <2>1, AgentUpdates
  <2>2. CASE agents' = [agents EXCEPT ![r].state = "working", ![r].heard = @ \cup {batch.mode}]
    BY <1>1, <2>2, AgentUpdates
  <2> QED  BY <1>1, <1>3, <2>1, <2>2
<1> QED  BY <1>2, <1>4

LEMMA TakePending_Inv ==
    ASSUME Inv, NEW r \in Runs, TakePending(r)
    PROVE  Inv' /\ given'[Len(given')].to = r /\ r = run /\ run' = run
<1> DEFINE batch == pending[1]
<1>1. /\ asking = r /\ pending # <<>> /\ asking' = None /\ pending' = <<>> /\ Hand(r, batch)
      /\ UNCHANGED <<queue, waiter, run, exit, aborted, modeHash, ended, received, refusals>>
  BY DEF TakePending
<1>2. r = run /\ ~aborted /\ loop \in Remote /\ waiter = None
  BY <1>1 DEF Inv, FetchIsCurrent, TypeOK
<1>3. Held = Members(batch.ids) /\ batch \in Batches /\ DOMAIN pending = {1}
  BY <1>1, Places DEF Inv
<1>4. batch.ids \in Seq(0..MaxMessages) /\ Sorted(batch.ids)
  BY <1>3 DEF Batches, Inv, OldestFirst
<1> HIDE DEF batch
<1>5. HandedOrExcused(r, batch.ids) /\ loop' \in Remote /\ agents' \in [Runs -> Agent]
  BY <1>1, <1>2, <1>3, Hand_Gives DEF Inv
<1>12. PICK read \in BOOLEAN :
          /\ given' = Append(given, [ids |-> batch.ids, to |-> r, read |-> read])
          /\ excused' = IF read THEN excused ELSE excused \cup Members(batch.ids)
  BY <1>5 DEF HandedOrExcused
<1>6. /\ given' \in Seq([ids : Seq(0..MaxMessages), to : Runs, read : BOOLEAN])
      /\ GivenInOrder' /\ Given' = Given \cup Held
      /\ Read' = IF read THEN Read \cup Held ELSE Read
      /\ given'[Len(given')].to = r
  BY <1>3, <1>4, <1>12, Give DEF Inv, OldestFirst
<1>7. Held' = {} /\ Queued' = Queued
  BY <1>1 DEF Held, Queued
<1>8. OldestFirst'
  <2>1. Before(Given', Queued') /\ Before(Given', Held') /\ Before(Held', Queued')
    BY <1>6, <1>7 DEF Inv, OldestFirst, Before
  <2> QED  BY <1>1, <1>6, <1>7, <2>1 DEF Inv, OldestFirst
<1>13. excused' = IF read THEN excused ELSE excused \cup Held
  BY <1>3, <1>12
<1>9. LostForReason'
  BY <1>1, <1>2, <1>6, <1>7, <1>13 DEF Inv, LostForReason, Remote
<1>10. TypeOK'
  <2>1. excused' \subseteq 0..MaxMessages
    BY <1>13, Places DEF Inv, TypeOK
  <2> QED  BY <1>1, <1>2, <1>5, <1>6, <2>1 DEF Inv, TypeOK, Agent
<1>11. FetchIsCurrent'
  BY <1>1, <1>2, <1>5 DEF Inv, FetchIsCurrent
<1> QED  BY <1>1, <1>2, <1>6, <1>8, <1>9, <1>10, <1>11 DEF Inv

LEMMA TakeBatch_Inv ==
    ASSUME Inv, NEW r \in Runs, TakeBatch(r)
    PROVE  Inv' /\ r = run /\ run' = run /\ (given' # given => given'[Len(given')].to = r)
<1> DEFINE ids == Ids(Batch(queue))
           batch == [ids |-> ids, mode |-> queue[1].mode, kind |-> queue[1].kind]
<1>1. /\ asking = r /\ pending = <<>> /\ queue # <<>> /\ asking' = None /\ queue' = Rest(queue)
      /\ UNCHANGED <<waiter, run, exit, aborted, received, refusals>>
      /\ \/ /\ pending' = <<batch>> /\ NoMore(r)
            /\ UNCHANGED <<modeHash, agents, given, excused>>
         \/ /\ modeHash' = IF r = run THEN batch.mode ELSE modeHash
            /\ Hand(r, batch)
            /\ UNCHANGED <<pending, ended>>
  BY DEF TakeBatch
<1>2. r = run /\ ~aborted /\ loop \in Remote /\ waiter = None
  BY <1>1 DEF Inv, FetchIsCurrent, TypeOK
<1>3. queue \in Seq(Items) /\ queue[1] \in Items
  BY <1>1 DEF Inv, TypeOK
<1>4. Batch(queue) \in Seq(Items) /\ Rest(queue) \in Seq(Items)
  BY <1>1, <1>3, BatchAndRest
<1>5. ids \in Seq(0..MaxMessages) /\ batch \in Batches /\ batch.ids = ids /\ batch.mode \in Modes
  BY <1>3, <1>4, IdsOf DEF Batches, Items
<1>6. /\ Sorted(ids) /\ Sorted(Ids(Rest(queue)))
      /\ Before(Members(ids), Members(Ids(Rest(queue))))
      /\ Members(ids) \cup Members(Ids(Rest(queue))) = Queued
  BY <1>1, <1>3, TakeInOrder, Places DEF Inv, OldestFirst
<1> DEFINE rest == Members(Ids(Rest(queue)))
<1>7. Queued' = rest
  <2>1. DOMAIN Ids(Rest(queue)) = DOMAIN Rest(queue)
        /\ \A i \in DOMAIN Rest(queue) : Ids(Rest(queue))[i] = Rest(queue)[i].id
    BY <1>4, IdsOf
  <2> QED  BY <1>1, <2>1 DEF Queued, Members
<1> HIDE DEF batch, ids, rest
<1>8. Held = {}
  BY <1>1 DEF Held
<1>9. Before(Given, Members(ids)) /\ Before(Given, rest) /\ Before(Members(ids), rest)
  BY <1>6 DEF Inv, OldestFirst, Before, rest
<1>10. \A a \in Members(ids) \cup rest : a <= received
  BY <1>6 DEF Inv, OldestFirst, rest
<1>11. CASE pending' = <<batch>> /\ NoMore(r) /\ UNCHANGED <<modeHash, agents, given, excused>>
  <2>1. Held' = Members(ids) /\ DOMAIN pending' = {1} /\ Len(pending') = 1 /\ pending'[1] = batch
    BY <1>5, <1>11 DEF Held, Members
  <2>2. Given' = Given /\ Read' = Read /\ GivenInOrder'
    BY <1>11 DEF Given, Read, IdsGiven, GivenInOrder, Inv
  <2>3. ended' \in BOOLEAN /\ loop' \in Remote
    BY <1>2, <1>11 DEF NoMore, First, Inv, TypeOK, Remote
  <2>4. Sorted(Ids(queue'))
    BY <1>1, <1>6
  <2>5. OldestFirst'
    BY <1>1, <1>5, <1>6, <1>7, <1>9, <1>10, <2>1, <2>2, <2>4 DEF Inv, OldestFirst
  <2>6. LostForReason'
    BY <1>1, <1>2, <1>6, <1>7, <1>8, <1>11, <2>1, <2>2 DEF Inv, LostForReason, Remote, rest
  <2>7. TypeOK'
    BY <1>1, <1>2, <1>4, <1>5, <1>11, <2>1, <2>3 DEF Inv, TypeOK
  <2>8. FetchIsCurrent'
    BY <1>1, <1>2, <2>3 DEF Inv, FetchIsCurrent
  <2> QED  BY <1>1, <1>2, <1>11, <2>2, <2>5, <2>6, <2>7, <2>8 DEF Inv
<1>12. CASE /\ modeHash' = IF r = run THEN batch.mode ELSE modeHash
            /\ Hand(r, batch) /\ UNCHANGED <<pending, ended>>
  <2>1. HandedOrExcused(r, ids) /\ loop' \in Remote /\ agents' \in [Runs -> Agent]
    BY <1>2, <1>5, <1>12, Hand_Gives DEF Inv
  <2>8. PICK read \in BOOLEAN :
           /\ given' = Append(given, [ids |-> ids, to |-> r, read |-> read])
           /\ excused' = IF read THEN excused ELSE excused \cup Members(ids)
    BY <2>1 DEF HandedOrExcused
  <2>2. /\ given' \in Seq([ids : Seq(0..MaxMessages), to : Runs, read : BOOLEAN])
        /\ GivenInOrder' /\ Given' = Given \cup Members(ids)
        /\ Read' = IF read THEN Read \cup Members(ids) ELSE Read
        /\ given'[Len(given')].to = r
    BY <1>5, <1>6, <1>9, <2>8, Give DEF Inv
  <2>3. Held' = {}
    BY <1>1, <1>12 DEF Held
  <2>4. OldestFirst'
    <3>1. Before(Given', Queued')
      BY <1>7, <1>9, <2>2 DEF Before
    <3>2. Before(Given', Held') /\ Before(Held', Queued')
      BY <2>3 DEF Before
    <3>3. \A a \in Given' \cup Held' \cup Queued' : a <= received'
      BY <1>1, <1>7, <1>10, <2>2, <2>3 DEF Inv, OldestFirst
    <3>4. Sorted(Ids(queue')) /\ \A i \in DOMAIN pending' : Sorted(pending'[i].ids)
      BY <1>1, <1>6, <1>12 DEF Inv, OldestFirst
    <3> QED  BY <3>1, <3>2, <3>3, <3>4 DEF OldestFirst
  <2>5. LostForReason'
    BY <1>1, <1>2, <1>6, <1>7, <1>8, <2>2, <2>3, <2>8 DEF Inv, LostForReason, Remote, rest
  <2>6. TypeOK'
    <3>1. modeHash' \in Modes \cup {None}
      BY <1>5, <1>12 DEF Inv, TypeOK
    <3>2. excused' \subseteq 0..MaxMessages
      <4>1. Members(ids) \subseteq 0..MaxMessages
        BY <1>5 DEF Members
      <4> QED  BY <2>8, <4>1 DEF Inv, TypeOK
    <3> QED  BY <1>1, <1>2, <1>4, <1>12, <2>1, <2>2, <3>1, <3>2 DEF Inv, TypeOK, Agent
  <2>7. FetchIsCurrent'
    BY <1>1, <1>2, <1>12, <2>1 DEF Inv, FetchIsCurrent
  <2> QED  BY <1>1, <1>2, <2>2, <2>4, <2>5, <2>6, <2>7 DEF Inv
<1> QED  BY <1>1, <1>11, <1>12

\* What waits is put behind, removed or put in front: the ids of the new queue.
LEMMA AppendIds ==
    ASSUME NEW q \in Seq(Items), NEW item \in Items
    PROVE  /\ Append(q, item) \in Seq(Items)
           /\ Members(Ids(Append(q, item))) = Members(Ids(q)) \cup {item.id}
           /\ Sorted(Ids(q)) /\ (\A a \in Members(Ids(q)) : a < item.id) => Sorted(Ids(Append(q, item)))
<1> DEFINE p == Append(q, item)
<1>1. /\ p \in Seq(Items) /\ Len(q) \in Nat /\ DOMAIN q = 1..Len(q) /\ DOMAIN p = DOMAIN q \cup {Len(q) + 1}
      /\ \A i \in DOMAIN q : p[i] = q[i] /\ i # Len(q) + 1
      /\ p[Len(q) + 1] = item
  OBVIOUS
<1> HIDE DEF p
<1>2. /\ DOMAIN Ids(q) = DOMAIN q /\ \A i \in DOMAIN q : Ids(q)[i] = q[i].id
      /\ DOMAIN Ids(p) = DOMAIN p /\ \A i \in DOMAIN p : Ids(p)[i] = p[i].id
  BY <1>1, IdsOf
<1>3. Members(Ids(p)) = Members(Ids(q)) \cup {item.id}
  BY <1>1, <1>2 DEF Members
<1>4. Sorted(Ids(q)) /\ (\A a \in Members(Ids(q)) : a < item.id) => Sorted(Ids(p))
  BY <1>1, <1>2 DEF Sorted, Members
<1> QED  BY <1>1, <1>3, <1>4 DEF p

LEMMA CancelledIds ==
    ASSUME NEW q \in Seq(Items), NEW i \in DOMAIN q
    PROVE  /\ Cancelled(q, i) \in Seq(Items)
           /\ Members(Ids(Cancelled(q, i))) \subseteq Members(Ids(q))
           /\ Members(Ids(q)) \subseteq Members(Ids(Cancelled(q, i))) \cup {q[i].id}
           /\ Sorted(Ids(q)) => Sorted(Ids(Cancelled(q, i)))
<1> DEFINE n == Len(q)
           p == Cancelled(q, i)
           s == SubSeq(q, 1, i - 1)
           t == SubSeq(q, i + 1, n)
<1>1. n \in Nat /\ DOMAIN q = 1..n /\ i \in 1..n
  OBVIOUS
<1>2. s \in Seq(Items) /\ Len(s) = i - 1 /\ \A k \in 1..(i - 1) : s[k] = q[k]
  BY <1>1
<1>3. t \in Seq(Items) /\ Len(t) = n - i /\ \A k \in 1..(n - i) : t[k] = q[k + i]
  BY <1>1
<1>4. p = s \o t
  BY DEF Cancelled
<1> HIDE DEF p, s, t, n
<1>5. p \in Seq(Items) /\ DOMAIN p = 1..(n - 1)
  <2>1. p \in Seq(Items) /\ Len(p) = Len(s) + Len(t)
    BY <1>2, <1>3, <1>4
  <2>2. Len(s) + Len(t) = n - 1
    BY <1>1, <1>2, <1>3
  <2> QED  BY <2>1, <2>2
<1>6. ASSUME NEW k \in 1..(n - 1)
      PROVE  p[k] = IF k < i THEN q[k] ELSE q[k + 1]
  <2>1. CASE k < i
    <3>1. k \in 1..Len(s) /\ k \in 1..(i - 1)
      BY <1>1, <1>2, <2>1
    <3>2. p[k] = s[k]
      BY <1>2, <1>3, <1>4, <3>1
    <3> QED  BY <1>2, <2>1, <3>1, <3>2
  <2>2. CASE ~(k < i)
    <3>1. k - Len(s) \in 1..Len(t) /\ k - Len(s) \in 1..(n - i) /\ (k - Len(s)) + i = k + 1
      BY <1>1, <1>2, <1>3, <2>2
    <3>2. p[k] = t[k - Len(s)]
      BY <1>2, <1>3, <1>4, <3>1
    <3> QED  BY <1>3, <2>2, <3>1, <3>2
  <2> QED  BY <2>1, <2>2
<1>7. /\ DOMAIN Ids(q) = 1..n /\ \A k \in 1..n : Ids(q)[k] = q[k].id
      /\ DOMAIN Ids(p) = 1..(n - 1)
      /\ \A k \in 1..(n - 1) : Ids(p)[k] = IF k < i THEN Ids(q)[k] ELSE Ids(q)[k + 1]
  <2>1. /\ DOMAIN Ids(q) = 1..n /\ \A k \in 1..n : Ids(q)[k] = q[k].id
        /\ DOMAIN Ids(p) = 1..(n - 1) /\ \A k \in 1..(n - 1) : Ids(p)[k] = p[k].id
    BY <1>1, <1>5, IdsOf
  <2>2. \A k \in 1..(n - 1) : k \in 1..n /\ k + 1 \in 1..n
    BY <1>1
  <2> QED  BY <1>6, <2>1, <2>2
<1>8. \A k \in 1..(n - 1) : /\ k \in 1..n /\ k + 1 \in 1..n
                            /\ Ids(p)[k] = Ids(q)[k] \/ Ids(p)[k] = Ids(q)[k + 1]
  BY <1>1, <1>7
<1>9. Members(Ids(p)) \subseteq Members(Ids(q))
  BY <1>7, <1>8 DEF Members
<1>10. ASSUME NEW k \in 1..n
       PROVE  Ids(q)[k] \in Members(Ids(p)) \cup {q[i].id}
  <2>1. CASE k < i
    <3>1. k \in 1..(n - 1) /\ Ids(p)[k] = Ids(q)[k]
      BY <1>1, <1>7, <2>1
    <3> QED  BY <1>7, <3>1 DEF Members
  <2>2. CASE k = i
    BY <1>7, <2>2
  <2>3. CASE k > i
    <3>1. k - 1 \in 1..(n - 1) /\ ~(k - 1 < i) /\ (k - 1) + 1 = k
      BY <1>1, <2>3
    <3>2. Ids(p)[k - 1] = Ids(q)[k]
      BY <1>7, <3>1
    <3> QED  BY <1>7, <3>1, <3>2 DEF Members
  <2> QED  BY <1>1, <2>1, <2>2, <2>3
<1>11. Members(Ids(q)) \subseteq Members(Ids(p)) \cup {q[i].id}
  BY <1>7, <1>10 DEF Members
<1>12. ASSUME Sorted(Ids(q))
       PROVE  Sorted(Ids(p))
  <2> SUFFICES ASSUME NEW a \in 1..(n - 1), NEW b \in 1..(n - 1), a < b, Ids(p)[a] # 0, Ids(p)[b] # 0
               PROVE  Ids(p)[a] < Ids(p)[b]
    BY <1>7 DEF Sorted
  <2>1. PICK c \in {a, a + 1} : c \in 1..n /\ Ids(p)[a] = Ids(q)[c] /\ (c = a <=> a < i)
    BY <1>7, <1>8, <1>1
  <2>2. PICK d \in {b, b + 1} : d \in 1..n /\ Ids(p)[b] = Ids(q)[d] /\ (d = b <=> b < i)
    BY <1>7, <1>8, <1>1
  <2>3. c < d
    BY <1>1, <2>1, <2>2
  <2> QED  BY <1>7, <1>12, <2>1, <2>2, <2>3 DEF Sorted
<1> QED  BY <1>5, <1>9, <1>11, <1>12 DEF p

LEMMA UnshiftedIds ==
    ASSUME NEW q \in Seq(Items), NEW item \in Items, item.id = 0
    PROVE  /\ Unshifted(q, item) \in Seq(Items)
           /\ Members(Ids(Unshifted(q, item))) = Members(Ids(q)) \cup {0}
           /\ Sorted(Ids(q)) => Sorted(Ids(Unshifted(q, item)))
<1> DEFINE n == Len(q)
           p == Unshifted(q, item)
<1>1. /\ n \in Nat /\ DOMAIN q = 1..n
      /\ p \in Seq(Items) /\ DOMAIN p = 1..(n + 1)
      /\ p[1] = item /\ \A k \in 1..n : p[k + 1] = q[k]
  BY DEF Unshifted
<1> HIDE DEF p
<1>2. /\ DOMAIN Ids(q) = 1..n /\ \A k \in 1..n : Ids(q)[k] = q[k].id
      /\ DOMAIN Ids(p) = 1..(n + 1) /\ \A k \in 1..(n + 1) : Ids(p)[k] = p[k].id
  BY <1>1, IdsOf
<1> HIDE DEF n
<1>3. /\ Ids(p)[1] = 0 /\ \A k \in 1..n : Ids(p)[k + 1] = Ids(q)[k] /\ k + 1 \in 1..(n + 1)
      /\ \A k \in 1..(n + 1) : k = 1 \/ (k - 1 \in 1..n /\ Ids(p)[k] = Ids(q)[k - 1])
  <2>1. \A k \in 1..n : k + 1 \in 1..(n + 1)
    BY <1>1
  <2>2. \A k \in 1..n : Ids(p)[k + 1] = Ids(q)[k]
    BY <1>1, <1>2, <2>1
  <2>3. \A k \in 1..(n + 1) : k = 1 \/ (k - 1 \in 1..n /\ (k - 1) + 1 = k)
    BY <1>1
  <2>4. 1 \in 1..(n + 1)
    BY <1>1
  <2> QED  BY <1>1, <1>2, <2>1, <2>2, <2>3, <2>4
<1>4. Members(Ids(p)) = Members(Ids(q)) \cup {0}
  <2>1. Members(Ids(p)) \subseteq Members(Ids(q)) \cup {0}
    BY <1>2, <1>3 DEF Members
  <2>2. Members(Ids(q)) \subseteq Members(Ids(p))
    BY <1>2, <1>3 DEF Members
  <2>3. 0 \in Members(Ids(p))
    BY <1>1, <1>2, <1>3 DEF Members
  <2> QED  BY <2>1, <2>2, <2>3
<1>5. Sorted(Ids(q)) => Sorted(Ids(p))
  <2> SUFFICES ASSUME Sorted(Ids(q)), NEW a \in 1..(n + 1), NEW b \in 1..(n + 1),
                      a < b, Ids(p)[a] # 0, Ids(p)[b] # 0
               PROVE  Ids(p)[a] < Ids(p)[b]
    BY <1>2 DEF Sorted
  <2>1. a - 1 \in 1..n /\ b - 1 \in 1..n /\ Ids(p)[a] = Ids(q)[a - 1] /\ Ids(p)[b] = Ids(q)[b - 1]
    BY <1>1, <1>3
  <2>2. a - 1 < b - 1
    BY <1>1
  <2> QED  BY <1>2, <2>1, <2>2 DEF Sorted
<1> QED  BY <1>1, <1>4, <1>5 DEF p

\* A change of the queue wakes the fetch of the current run, and leaves no fetch that waits.
LEMMA Notified ==
    ASSUME Inv, Quiet \/ waiter = None, Notify
    PROVE  /\ waiter' = None
           /\ asking' \in Runs \cup {None}
           /\ asking' # None => asking' = run /\ ~aborted /\ loop \in Remote
BY DEF Notify, Quiet, Inv, FetchIsCurrent, TypeOK

\* A message in local mode asks for remote mode.
LEMMA SwitchAsked ==
    ASSUME Inv, Quiet \/ waiter = None, Notify, UNCHANGED <<loop, run>>, pending' = pending,
           IF loop = "local"
           THEN aborted' = TRUE /\ exit' = IF exit = None THEN "switch" ELSE exit
           ELSE UNCHANGED <<aborted, exit>>
    PROVE  /\ FetchIsCurrent' /\ waiter' \in Runs \cup {None} /\ asking' \in Runs \cup {None}
           /\ exit' \in {None, "switch", "exit"} /\ aborted' \in BOOLEAN
<1>1. CASE loop = "local"
  <2>1. asking' = None /\ waiter' = None
    BY <1>1, Notified DEF Remote
  <2> QED  BY <1>1, <2>1 DEF Inv, FetchIsCurrent, TypeOK
<1>2. CASE loop # "local"
  BY <1>2, Notified DEF Inv, FetchIsCurrent, TypeOK
<1> QED  BY <1>1, <1>2

LEMMA Receive_Inv ==
    ASSUME Inv, NEW kind \in {"text"} \cup Commands, NEW mode \in Modes, Receive(kind, mode)
    PROVE  Inv'
<1> DEFINE item == [id |-> received + 1, mode |-> mode, kind |-> kind]
           kept == IF Isolated(item) THEN <<>> ELSE queue
<1>1. /\ Quiet \/ waiter = None
      /\ received < MaxMessages /\ loop # "over" /\ received' = received + 1
      /\ queue' = Append(kept, item)
      /\ excused' = IF Isolated(item) THEN excused \cup Queued ELSE excused
      /\ Notify
      /\ IF loop = "local"
         THEN aborted' = TRUE /\ exit' = IF exit = None THEN "switch" ELSE exit
         ELSE UNCHANGED <<aborted, exit>>
      /\ UNCHANGED <<loop, run, inputVars, agents, refusals, given>>
  BY DEF Receive, Pushed
<1>2. received \in Nat /\ received + 1 \in 1..MaxMessages
  BY <1>1 DEF Inv, TypeOK
<1>3. item \in Items /\ item.id = received + 1
  BY <1>2 DEF Items
<1>4. kept \in Seq(Items) /\ Sorted(Ids(kept)) /\ Members(Ids(kept)) \subseteq Queued
  <2>1. queue \in Seq(Items) /\ Sorted(Ids(queue)) /\ Members(Ids(queue)) = Queued
    BY Places DEF Inv, TypeOK, OldestFirst
  <2>2. Sorted(Ids(<<>>)) /\ Members(Ids(<<>>)) = {} /\ <<>> \in Seq(Items)
    BY DEF Sorted, Members, Ids
  <2> QED  BY <2>1, <2>2
<1>5. Queued \subseteq Members(Ids(kept)) \cup excused'
  <2>1. Members(Ids(queue)) = Queued
    BY Places DEF Inv
  <2> QED  BY <1>1, <2>1
<1> HIDE DEF item, kept
<1>6. \A a \in Given \cup Held \cup Queued : a \in Nat /\ a < received + 1
  <2>1. \A a \in Given \cup Held \cup Queued : a \in 0..MaxMessages /\ a <= received
    BY Places DEF Inv, OldestFirst
  <2> QED  BY <1>2, <2>1
<1>7. \A a \in Members(Ids(kept)) : a < item.id
  BY <1>3, <1>4, <1>6
<1>8. /\ queue' \in Seq(Items) /\ Sorted(Ids(queue'))
      /\ Members(Ids(queue')) = Members(Ids(kept)) \cup {received + 1}
  BY <1>1, <1>3, <1>4, <1>7, AppendIds
<1>9. FetchIsCurrent' /\ waiter' \in Runs \cup {None} /\ asking' \in Runs \cup {None}
      /\ exit' \in {None, "switch", "exit"} /\ aborted' \in BOOLEAN
  BY <1>1, SwitchAsked DEF inputVars
<1>10. excused' \subseteq 0..MaxMessages
  BY <1>1, Places DEF Inv, TypeOK
<1>11. TypeOK'
  BY <1>1, <1>2, <1>8, <1>9, <1>10 DEF Inv, TypeOK, inputVars
<1>12. Given' = Given /\ Read' = Read /\ Held' = Held /\ Queued' = Members(Ids(kept)) \cup {received + 1}
  <2>1. Queued' = Members(Ids(queue'))
    BY <1>8, MembersOf DEF Queued
  <2> QED  BY <1>1, <1>8, <2>1 DEF Given, Read, IdsGiven, Held, inputVars
<1>13. OldestFirst'
  <2>1. Before(Given', Held')
    BY <1>12 DEF Inv, OldestFirst, Before
  <2>2. Before(Given', Queued')
    BY <1>4, <1>6, <1>12 DEF Inv, OldestFirst, Before
  <2>3. Before(Held', Queued')
    BY <1>4, <1>6, <1>12 DEF Inv, OldestFirst, Before
  <2>4. \A a \in Given' \cup Held' \cup Queued' : a <= received'
    <3>1. \A a \in Given \cup Held \cup Queued : a <= received + 1
      BY <1>2, <1>6
    <3>2. received + 1 <= received + 1
      BY <1>2
    <3> QED  BY <1>1, <1>4, <1>12, <3>1, <3>2
  <2>5. \A i \in DOMAIN pending' : Sorted(pending'[i].ids)
    BY <1>1 DEF Inv, OldestFirst, inputVars
  <2> QED  BY <1>8, <2>1, <2>2, <2>3, <2>4, <2>5 DEF OldestFirst
<1>14. LostForReason'
  <2>1. \A m \in 1..received' : m \in 1..received \/ m = received + 1
    BY <1>1, <1>2
  <2>2. excused \subseteq excused'
    BY <1>1
  <2>3. (1..received) \ (Queued \cup Held \cup Read) \subseteq excused
    BY <1>1 DEF Inv, LostForReason
  <2> QED  BY <1>5, <1>12, <2>1, <2>2, <2>3 DEF LostForReason
<1>15. GivenInOrder'
  BY <1>1 DEF Inv, GivenInOrder
<1> QED  BY <1>9, <1>11, <1>13, <1>14, <1>15 DEF Inv

LEMMA LeavePlan_Inv ==
    ASSUME Inv, NEW r \in Runs, LeavePlan(r)
    PROVE  Inv'
<1> DEFINE item == [id |-> 0, mode |-> PlainMode, kind |-> "restart"]
<1>1. /\ Quiet /\ refusals < MaxRefusals /\ refusals' = refusals + 1
      /\ agents' = [agents EXCEPT ![r].refused = TRUE]
      /\ queue' = Unshifted(queue, item) /\ Notify
      /\ IF loop = "local"
         THEN aborted' = TRUE /\ exit' = IF exit = None THEN "switch" ELSE exit
         ELSE UNCHANGED <<aborted, exit>>
      /\ UNCHANGED <<loop, run, inputVars, received, given, excused>>
  BY DEF LeavePlan
<1>2. item \in Items /\ item.id = 0
  BY DEF Items
<1> HIDE DEF item
<1>3. queue \in Seq(Items) /\ Sorted(Ids(queue)) /\ Members(Ids(queue)) = Queued
  BY Places DEF Inv, TypeOK, OldestFirst
<1>4. /\ queue' \in Seq(Items) /\ Sorted(Ids(queue')) /\ Members(Ids(queue')) = Queued \cup {0}
  BY <1>1, <1>2, <1>3, UnshiftedIds
<1>5. FetchIsCurrent' /\ waiter' \in Runs \cup {None} /\ asking' \in Runs \cup {None}
      /\ exit' \in {None, "switch", "exit"} /\ aborted' \in BOOLEAN
  BY <1>1, SwitchAsked DEF inputVars
<1>6. TypeOK'
  <2>1. agents \in [Runs -> Agent]
    BY DEF Inv, TypeOK, Agent
  <2>2. agents' \in [Runs -> Agent]
    BY <1>1, <2>1, AgentUpdates
  <2>3. refusals' \in 0..MaxRefusals
    BY <1>1 DEF Inv, TypeOK
  <2> QED  BY <1>1, <1>4, <1>5, <2>2, <2>3 DEF Inv, TypeOK, inputVars, Agent
<1>7. Given' = Given /\ Read' = Read /\ Held' = Held /\ Queued' = Queued \cup {0}
  <2>1. Queued' = Members(Ids(queue'))
    BY <1>4, MembersOf DEF Queued
  <2> QED  BY <1>1, <1>4, <2>1 DEF Given, Read, IdsGiven, Held, inputVars
<1>8. OldestFirst'
  <2>1. Before(Given', Held') /\ Before(Given', Queued') /\ Before(Held', Queued')
    BY <1>7 DEF Inv, OldestFirst, Before
  <2>2. \A a \in Given' \cup Held' \cup Queued' : a <= received'
    <3>1. 0 <= received
      BY DEF Inv, TypeOK
    <3> QED  BY <1>1, <1>7, <3>1 DEF Inv, OldestFirst
  <2> QED  BY <1>1, <1>4, <2>1, <2>2 DEF Inv, OldestFirst, inputVars
<1>9. LostForReason' /\ GivenInOrder'
  BY <1>1, <1>7 DEF Inv, LostForReason, GivenInOrder
<1> QED  BY <1>5, <1>6, <1>8, <1>9 DEF Inv

LEMMA CancelQueued_Inv ==
    ASSUME Inv, NEW i \in DOMAIN queue, CancelQueued(i)
    PROVE  Inv'
<1>1. /\ Quiet /\ queue' = Cancelled(queue, i) /\ excused' = excused \cup {queue[i].id}
      /\ UNCHANGED <<waiter, asking, launchVars, inputVars, agents, received, refusals, given>>
  BY DEF CancelQueued
<1>2. queue \in Seq(Items) /\ Sorted(Ids(queue)) /\ Members(Ids(queue)) = Queued
  BY Places DEF Inv, TypeOK, OldestFirst
<1>3. /\ queue' \in Seq(Items) /\ Sorted(Ids(queue'))
      /\ Members(Ids(queue')) \subseteq Queued /\ Queued \subseteq Members(Ids(queue')) \cup {queue[i].id}
  BY <1>1, <1>2, CancelledIds
<1>4. excused' \subseteq 0..MaxMessages
  <2>1. queue[i].id \in Queued
    BY DEF Queued
  <2> QED  BY <1>1, <2>1, Places DEF Inv, TypeOK
<1>5. TypeOK'
  BY <1>1, <1>3, <1>4 DEF Inv, TypeOK, launchVars, inputVars
<1>6. Given' = Given /\ Read' = Read /\ Held' = Held /\ Queued' = Members(Ids(queue'))
  <2>1. Queued' = Members(Ids(queue'))
    BY <1>3, MembersOf DEF Queued
  <2> QED  BY <1>1, <2>1 DEF Given, Read, IdsGiven, Held, inputVars
<1>7. OldestFirst'
  <2>1. Before(Given', Held') /\ Before(Given', Queued') /\ Before(Held', Queued')
    BY <1>3, <1>6 DEF Inv, OldestFirst, Before
  <2> QED  BY <1>1, <1>3, <1>6, <2>1 DEF Inv, OldestFirst, inputVars
<1>8. LostForReason' /\ GivenInOrder'
  BY <1>1, <1>3, <1>6 DEF Inv, LostForReason, GivenInOrder, launchVars
<1>9. FetchIsCurrent'
  <2>1. queue # <<>>
    OBVIOUS
  <2> QED  BY <1>1, <2>1 DEF Inv, FetchIsCurrent, launchVars, inputVars
<1> QED  BY <1>5, <1>7, <1>8, <1>9 DEF Inv

LEMMA LeaveRemote_Inv ==
    ASSUME Inv, LeaveRemote
    PROVE  Inv'
<1>1. /\ Quiet /\ loop = "flushing" /\ exit # None
      /\ loop' \in {"scanning", "over"} /\ exit' = None /\ aborted' = FALSE
      /\ pending' = <<>> /\ modeHash' = None /\ excused' = excused \cup Held
      /\ UNCHANGED <<queueVars, run, ended, agents, received, refusals, given>>
  BY DEF LeaveRemote
<1>2. excused' \subseteq 0..MaxMessages
  BY <1>1, Places DEF Inv, TypeOK
<1>3. TypeOK'
  BY <1>1, <1>2 DEF Inv, TypeOK, Remote, queueVars
<1>4. Held' = {} /\ Given' = Given /\ Read' = Read /\ Queued' = Queued
  BY <1>1 DEF Held, Given, Read, IdsGiven, Queued, queueVars
<1>5. OldestFirst'
  BY <1>1, <1>4 DEF Inv, OldestFirst, Before, queueVars
<1>6. LostForReason' /\ GivenInOrder'
  BY <1>1, <1>4 DEF Inv, LostForReason, GivenInOrder
<1>7. FetchIsCurrent'
  BY <1>1 DEF Inv, FetchIsCurrent, Quiet, queueVars
<1> QED  BY <1>3, <1>5, <1>6, <1>7 DEF Inv

LEMMA LocalStop_Inv ==
    ASSUME Inv, NEW resets \in BOOLEAN, LocalStop(resets)
    PROVE  Inv'
<1>1. /\ Quiet /\ loop = "local" /\ exit' \in {"switch", exit} /\ aborted' = TRUE
      /\ UNCHANGED <<asking, loop, run, inputVars, agents, received, refusals, given>>
      /\ \/ queue' = <<>> /\ waiter' = None /\ excused' = excused \cup Queued
         \/ UNCHANGED <<queue, waiter, excused>>
  BY DEF LocalStop
<1>2. excused' \subseteq 0..MaxMessages
  BY <1>1, Places DEF Inv, TypeOK
<1>3. queue' \in Seq(Items) /\ waiter' \in Runs \cup {None} /\ exit' \in {None, "switch", "exit"}
  <2>1. queue \in Seq(Items) /\ waiter \in Runs \cup {None} /\ exit \in {None, "switch", "exit"}
    BY DEF Inv, TypeOK
  <2>2. <<>> \in Seq(Items)
    OBVIOUS
  <2>3. queue' \in Seq(Items) /\ waiter' \in Runs \cup {None}
    BY <1>1, <2>1, <2>2
  <2> QED  BY <1>1, <2>1, <2>3
<1>4. TypeOK'
  BY <1>1, <1>2, <1>3 DEF Inv, TypeOK, inputVars
<1>5. Held' = Held /\ Given' = Given /\ Read' = Read
  BY <1>1 DEF Held, Given, Read, IdsGiven, inputVars
<1>7. OldestFirst'
  <2>1. CASE queue' = <<>> /\ excused' = excused \cup Queued
    <3>1. Queued' = {} /\ Sorted(Ids(queue'))
      BY <2>1 DEF Queued, Sorted, Ids
    <3> QED  BY <1>1, <1>5, <3>1 DEF Inv, OldestFirst, Before, inputVars
  <2>2. CASE UNCHANGED <<queue, excused>>
    BY <1>1, <1>5, <2>2 DEF Inv, OldestFirst, Queued, inputVars
  <2> QED  BY <1>1, <2>1, <2>2
<1>8. LostForReason' /\ GivenInOrder'
  <2>1. Queued' = Queued \/ excused' = excused \cup Queued
    BY <1>1 DEF Queued
  <2>2. excused \subseteq excused'
    BY <1>1
  <2> QED  BY <1>1, <1>5, <2>1, <2>2 DEF Inv, LostForReason, GivenInOrder
<1>9. FetchIsCurrent'
  BY <1>1 DEF Inv, FetchIsCurrent, Quiet, Remote
<1> QED  BY <1>4, <1>7, <1>8, <1>9 DEF Inv

-----------------------------------------------------------------------------
(* The theorems. *)

LEMMA Next_Inv ==
    ASSUME Inv, [Next]_vars
    PROVE  Inv'
<1>1. CASE \E kind \in {"text"} \cup Commands, mode \in Modes : Receive(kind, mode)
  BY <1>1, Receive_Inv
<1>2. CASE \E i \in DOMAIN queue : CancelQueued(i)
  BY <1>2, CancelQueued_Inv
<1>3. ASSUME NEW r \in Runs, NextMessage(r)
      PROVE  Inv'
  BY <1>3, TakePending_Inv, TakeBatch_Inv, Wait_Inv DEF NextMessage
<1>4. ASSUME NEW r \in Runs, GoOn(r) \/ AgentEnds(r)
      PROVE  Inv'
  BY <1>4, Steps_Inv
<1>5. ASSUME NEW r \in Runs, LeavePlan(r) \/ NextRun(r) \/ EnterRemote(r)
      PROVE  Inv'
  BY <1>5, LeavePlan_Inv, Begins_Inv
<1>6. CASE Result \/ Deny \/ ToolResult \/ LocalStart \/ LocalEnds \/ UNCHANGED vars
  BY <1>6, Steps_Inv
<1>7. CASE LeaveRemote \/ RemoteAbort \/ \E reason \in {"switch", "exit"} : RequestExit(reason)
  BY <1>7, LeaveRemote_Inv, Aborts_Inv
<1>8. CASE \E resets \in BOOLEAN : LocalStop(resets)
  BY <1>8, LocalStop_Inv
<1> QED  BY <1>1, <1>2, <1>3, <1>4, <1>5, <1>6, <1>7, <1>8 DEF Next

\* The invariant that the theorems below are drawn from.
THEOREM Invariant == Spec => []Inv
BY Init_Inv, Next_Inv, PTL DEF Spec

\* The queue, what is held back and what was given are messages; a run is at work in remote mode.
THEOREM TypeCorrect == Spec => []TypeOK
<1>1. Inv => TypeOK
  BY DEF Inv
<1> QED  BY <1>1, Invariant, PTL

\* The restarts of runMainLoop, aborts and refused tools lose no message: it is queued, held
\* back or was handed to a run that was there to read it, unless it was withdrawn, cleared,
\* the launcher was left, or the fetch of a run already over took it.
THEOREM LossesHaveReasons == Spec => []LostForReason
<1>1. Inv => LostForReason
  BY DEF Inv
<1> QED  BY <1>1, Invariant, PTL

\* Batches that nextMessage holds back over a restart are given before what came later.
THEOREM OrderKept == Spec => []GivenInOrder
<1>1. Inv => GivenInOrder
  BY DEF Inv
<1> QED  BY <1>1, Invariant, PTL

\* The queue's one waiter never hands a message to a run that another has followed.
THEOREM OnlyTheLatest == Spec => GivenToTheLatest
<1> DEFINE ToCurrent == given' # given => given'[Len(given')].to = run
<1>1. Inv /\ [Next]_vars => [ToCurrent]_vars
  <2> SUFFICES ASSUME Inv, Next, given' # given
               PROVE  given'[Len(given')].to = run
    OBVIOUS
  <2>1. \E r \in Runs : TakePending(r) \/ TakeBatch(r)
    BY DEF Next, NextMessage, Receive, CancelQueued, Wait, GoOn, LeavePlan, AgentEnds, NextRun,
           EnterRemote, Result, Deny, ToolResult, LeaveRemote, RemoteAbort, RequestExit,
           LocalStart, LocalStop, LocalEnds
  <2>2. PICK r \in Runs : TakePending(r) \/ TakeBatch(r)
    BY <2>1
  <2> QED  BY <2>2, TakePending_Inv, TakeBatch_Inv
<1> QED  BY Invariant, <1>1, PTL DEF Spec, GivenToTheLatest
=============================================================================
