------------------------ MODULE MessageDeliveryProofs ------------------------
(***************************************************************************)
(* For any tabs, messages, page size, sessions and connections: first what *)
(* MessageStore promises of the table (Store!Spec => ...); then that       *)
(* MessageDelivery implements MessageStore, so that it inherits it; that a *)
(* message reported as cancelled is never queued again; and that the agent *)
(* gets the messages once each and in order, what was acknowledged and     *)
(* nothing that was withdrawn.                                             *)
(***************************************************************************)
EXTENDS MessageDelivery, FiniteSetTheorems, WellFoundedInduction, TLAPS

-----------------------------------------------------------------------------
(* The numbers' order as a relation, named so that it can be an argument. *)
LEMMA LessThanRelation ==
    \E R : IsWellFoundedOn(R, Nat) /\ \A v, w \in Nat : v < w => <<v, w>> \in R
<1>1. \A v, w \in Nat : v < w => <<v, w>> \in OpToRel(<, Nat)
  BY DEF OpToRel
<1> QED
  BY <1>1, NatLessThanWellFounded

(* A nonempty set of numbers has a minimum. *)
LEMMA MinExists ==
    ASSUME NEW U, U \subseteq Nat, U # {}
    PROVE  \E u \in U : \A v \in U : u <= v
<1>1. PICK R : IsWellFoundedOn(R, Nat) /\ \A v, w \in Nat : v < w => <<v, w>> \in R
  BY LessThanRelation
<1>2. \E u \in U : \A v \in U : ~(<<v, u>> \in R)
  <2>1. IsWellFoundedOn(R, Nat)
    BY <1>1
  <2> QED  BY <2>1, WFMin, Zenon
<1>3. PICK u \in U : \A v \in U : ~(<<v, u>> \in R)
  BY <1>2
<1>4. ASSUME NEW v \in U PROVE u <= v
  <2>1. u \in Nat /\ v \in Nat /\ ~(v < u)
    BY <1>1, <1>3
  <2> QED  BY <2>1
<1> QED
  BY <1>4

(* A bounded nonempty set of numbers has a maximum. *)
LEMMA MaxExists ==
    ASSUME NEW T \in SUBSET Nat, T # {}, NEW b \in Nat, \A n \in T : n <= b
    PROVE  \E m \in T : \A n \in T : n <= m
<1> DEFINE U == {b - n : n \in T}
<1>1. U \subseteq Nat /\ U # {}
  <2>1. \A n \in T : b - n \in Nat
    OBVIOUS
  <2> QED  BY <2>1
<1>2. PICK u \in U : \A v \in U : u <= v
  BY <1>1, MinExists
<1>3. PICK m \in T : u = b - m
  OBVIOUS
<1>4. \A n \in T : b - m <= b - n
  BY <1>2, <1>3
<1> QED
  BY <1>4

(* MAX(seq) is a number that no row of the session exceeds. *)
LEMMA MaxSeqBounds ==
    ASSUME NEW rs \in SUBSET Store!Row, NEW s, NEW b \in Nat, \A r \in rs : r.seq <= b
    PROVE  /\ Store!MaxSeq(rs, s) \in Nat
           /\ Store!MaxSeq(rs, s) <= b
           /\ \A r \in Store!RowsOf(rs, s) : r.seq <= Store!MaxSeq(rs, s)
<1> DEFINE T == {r.seq : r \in Store!RowsOf(rs, s)}
           P(m) == \A r \in Store!RowsOf(rs, s) : r.seq <= m
<1>0. T \in SUBSET Nat
  BY DEF Store!RowsOf, Store!Row
<1>1. CASE Store!RowsOf(rs, s) = {}
  BY <1>1 DEF Store!MaxSeq
<1>2. CASE Store!RowsOf(rs, s) # {}
  <2>1. \A n \in T : n <= b
    BY DEF Store!RowsOf
  <2>2. T # {}
    BY <1>2
  <2>3. PICK m \in T : \A n \in T : n <= m
    BY <1>0, <2>1, <2>2, MaxExists
  <2>4. P(m)
    BY <2>3
  <2>5. Store!MaxSeq(rs, s) = CHOOSE n \in T : P(n)
    BY <1>2 DEF Store!MaxSeq
  <2>6. Store!MaxSeq(rs, s) \in T /\ P(Store!MaxSeq(rs, s))
    BY <2>4, <2>5
  <2> QED
    BY <1>0, <2>1, <2>6
<1> QED
  BY <1>1, <1>2

-----------------------------------------------------------------------------
(* No sequence number exceeds some bound: what makes MAX(seq) well defined. *)
SeqBounded == \E b \in Nat : \A r \in rows : r.seq <= b

(* The inductive invariant. *)
StoreInv ==
    /\ Store!TypeOK
    /\ Store!IdIdentifiesRow
    /\ SeqBounded
    /\ Store!SeqIdentifiesRow
    /\ Store!LocalIdIdentifiesRow
    /\ Store!QueuedHasAckPath

(* What MAX(seq) is in a reachable state. *)
LEMMA MaxSeqType ==
    ASSUME StoreInv, NEW s \in Sessions
    PROVE  /\ Store!MaxSeq(rows, s) \in Nat
           /\ \A r \in Store!RowsOf(rows, s) : r.seq <= Store!MaxSeq(rows, s)
<1>1. PICK b \in Nat : \A r \in rows : r.seq <= b
  BY DEF StoreInv, SeqBounded
<1> QED
  BY <1>1, MaxSeqBounds DEF StoreInv, Store!TypeOK

(* An insertion keeps the invariant: the new row is beyond every other. *)
LEMMA AddKeepsStoreInv ==
    ASSUME StoreInv, NEW s \in Sessions, NEW l \in LocalIds \cup {None},
           NEW c \in Contents, NEW now \in Times, Store!Add(s, l, c, now)
    PROVE  StoreInv'
<1> DEFINE n == Store!NewRow(rows, nextId, s, l, c, now)
           m == Store!MaxSeq(rows, s)
<1> USE DEF StoreInv
<1>1. m \in Nat /\ \A r \in Store!RowsOf(rows, s) : r.seq <= m
  BY MaxSeqType
<1>2. nextId \in Nat \ {0} /\ nextId' = nextId + 1
  BY DEF Store!TypeOK, Store!Add
<1>3. n \in Store!Row
  BY <1>1, <1>2, NoneAssumption DEF Store!NewRow, Store!Row
<1>4. n.id = nextId /\ n.sid = s /\ n.seq = m + 1 /\ n.lid = l
  BY DEF Store!NewRow
<1>5. CASE Store!WithLocalId(rows, s, l) # {}
  <2>1. rows' = rows
    BY <1>5 DEF Store!Add, Store!AddMessage
  <2>2. Store!IdIdentifiesRow'
    BY <1>2, <2>1 DEF Store!IdIdentifiesRow, Store!TypeOK, Store!Row
  <2> QED
    BY <1>2, <2>1, <2>2 DEF Store!TypeOK, SeqBounded, Store!SeqIdentifiesRow,
                            Store!LocalIdIdentifiesRow, Store!QueuedHasAckPath
<1>6. CASE Store!WithLocalId(rows, s, l) = {}
  <2>1. rows' = rows \cup {n}
    BY <1>6 DEF Store!Add, Store!AddMessage
  <2>2. Store!TypeOK'
    BY <1>2, <1>3, <2>1 DEF Store!TypeOK
  <2>3. Store!IdIdentifiesRow'
    <3>1. \A r \in rows : r.id < nextId /\ r.id \in Nat
      BY DEF Store!IdIdentifiesRow, Store!TypeOK, Store!Row
    <3> QED
      BY <1>2, <1>4, <2>1, <3>1 DEF Store!IdIdentifiesRow
  <2>4. SeqBounded'
    <3>1. PICK b \in Nat : \A r \in rows : r.seq <= b
      BY DEF SeqBounded
    <3>2. \A r \in rows : r.seq \in Nat
      BY DEF Store!TypeOK, Store!Row
    <3>3. \A r \in rows' : r.seq <= b + m + 1
      BY <1>1, <1>4, <2>1, <3>1, <3>2
    <3>4. b + m + 1 \in Nat
      BY <1>1
    <3> QED
      BY <3>3, <3>4 DEF SeqBounded
  <2>5. Store!SeqIdentifiesRow'
    <3>1. \A r \in rows : r.sid = s => r.seq <= m /\ r.seq \in Nat
      BY <1>1 DEF Store!RowsOf, Store!TypeOK, Store!Row
    <3>2. \A r \in rows : r.sid = n.sid => r.seq # n.seq
      BY <1>1, <1>4, <3>1
    <3> QED
      BY <2>1, <3>2 DEF Store!SeqIdentifiesRow
  <2>6. Store!LocalIdIdentifiesRow'
    BY <1>4, <1>6, <2>1 DEF Store!LocalIdIdentifiesRow, Store!WithLocalId, Store!RowsOf
  <2>7. Store!QueuedHasAckPath'
    BY <2>1, NoneAssumption DEF Store!QueuedHasAckPath, Store!NewRow, Store!Queued
  <2> QED
    BY <2>2, <2>3, <2>4, <2>5, <2>6, <2>7
<1> QED
  BY <1>5, <1>6

(* Removing rows keeps the invariant. *)
LEMMA RemovalKeepsStoreInv ==
    ASSUME StoreInv, rows' \subseteq rows, nextId' = nextId
    PROVE  StoreInv'
BY DEF StoreInv, Store!TypeOK, Store!IdIdentifiesRow, SeqBounded, Store!SeqIdentifiesRow,
       Store!LocalIdIdentifiesRow, Store!QueuedHasAckPath

(* Stamping rows keeps the invariant: it touches no identifying field. *)
LEMMA MarkKeepsStoreInv ==
    ASSUME StoreInv, NEW s \in Sessions, NEW lids \in SUBSET LocalIds,
           NEW now \in Times, Store!MarkMessagesInvoked(s, lids, now)
    PROVE  StoreInv'
<1> DEFINE stamped(r) == IF r.sid = s /\ r.lid \in lids /\ Store!Queued(r)
                           THEN [r EXCEPT !.invoked = now] ELSE r
<1>1. rows' = {stamped(r) : r \in rows} /\ nextId' = nextId
  BY DEF Store!MarkMessagesInvoked, Store!MarkInvoked
<1>2. ASSUME NEW r \in Store!Row
      PROVE  /\ stamped(r) \in Store!Row
             /\ stamped(r).id = r.id /\ stamped(r).sid = r.sid
             /\ stamped(r).seq = r.seq /\ stamped(r).lid = r.lid
             /\ Store!Queued(stamped(r)) => Store!Queued(r)
  BY NoneAssumption DEF Store!Row, Store!Queued
<1>3. rows \subseteq Store!Row
  BY DEF StoreInv, Store!TypeOK
<1> HIDE DEF stamped
<1>4. Store!TypeOK'
  BY <1>1, <1>2, <1>3 DEF StoreInv, Store!TypeOK
<1>5. Store!IdIdentifiesRow'
  BY <1>1, <1>2, <1>3 DEF StoreInv, Store!IdIdentifiesRow
<1>6. SeqBounded'
  BY <1>1, <1>2, <1>3 DEF StoreInv, SeqBounded
<1>7. Store!SeqIdentifiesRow'
  BY <1>1, <1>2, <1>3 DEF StoreInv, Store!SeqIdentifiesRow
<1>8. Store!LocalIdIdentifiesRow'
  BY <1>1, <1>2, <1>3 DEF StoreInv, Store!LocalIdIdentifiesRow
<1>9. Store!QueuedHasAckPath'
  BY <1>1, <1>2, <1>3 DEF StoreInv, Store!QueuedHasAckPath
<1> QED
  BY <1>4, <1>5, <1>6, <1>7, <1>8, <1>9 DEF StoreInv

(* A merge, row by row: what becomes of the fields that identify a row. *)
LEMMA MergedFields ==
    ASSUME StoreInv, NEW from \in Sessions, NEW to \in Sessions, from # to,
           NEW r \in rows
    PROVE  LET q == Store!Merged(rows, from, to, r)
               taken == r.sid = from /\ r.lid \in Store!CollidingLids(rows, from, to)
           IN  /\ q \in Store!Row
               /\ q.id = r.id
               /\ q.sid = IF r.sid = from THEN to ELSE r.sid
               /\ q.seq = IF r.sid = to THEN r.seq + Store!MaxSeq(rows, from) ELSE r.seq
               /\ q.lid = IF taken THEN None ELSE r.lid
               /\ q.invoked = IF taken /\ r.invoked = None THEN r.created ELSE r.invoked
<1>1. r \in Store!Row
  BY DEF StoreInv, Store!TypeOK
<1>2. Store!MaxSeq(rows, from) \in Nat
  BY MaxSeqType
<1>3. CASE r.sid = to
  BY <1>1, <1>2, <1>3 DEF Store!Merged, Store!Renumbered, Store!Row
<1>4. CASE r.sid = from /\ r.lid \in Store!CollidingLids(rows, from, to)
  BY <1>1, <1>4 DEF Store!Merged, Store!Renumbered, Store!Row
<1>5. CASE r.sid = from /\ r.lid \notin Store!CollidingLids(rows, from, to)
  BY <1>1, <1>5 DEF Store!Merged, Store!Renumbered, Store!Row
<1>6. CASE r.sid # from /\ r.sid # to
  BY <1>1, <1>6 DEF Store!Merged, Store!Renumbered
<1> QED
  BY <1>3, <1>4, <1>5, <1>6

(* A merge keeps the invariant: the rows of the target move beyond the      *)
(* moved ones, and of two rows with one localId the moved one gives it up.  *)
LEMMA MergeKeepsStoreInv ==
    ASSUME StoreInv, NEW from \in Sessions, NEW to \in Sessions, Store!Merge(from, to)
    PROVE  StoreInv'
<1>1. CASE from = to
  <2>1. rows' = rows /\ nextId' = nextId
    BY <1>1 DEF Store!Merge, Store!MergeSessionMessages
  <2> QED  BY <2>1, RemovalKeepsStoreInv
<1>2. CASE from # to
  <2> DEFINE f(r) == Store!Merged(rows, from, to, r)
             m == Store!MaxSeq(rows, from)
             C == Store!CollidingLids(rows, from, to)
  <2>1. rows' = {f(r) : r \in rows} /\ nextId' = nextId
    BY <1>2 DEF Store!Merge, Store!MergeSessionMessages
  <2>2. \A r \in rows :
           /\ f(r) \in Store!Row
           /\ f(r).id = r.id
           /\ f(r).sid = IF r.sid = from THEN to ELSE r.sid
           /\ f(r).seq = IF r.sid = to THEN r.seq + m ELSE r.seq
           /\ f(r).lid = IF r.sid = from /\ r.lid \in C THEN None ELSE r.lid
           /\ f(r).invoked = IF r.sid = from /\ r.lid \in C /\ r.invoked = None
                               THEN r.created ELSE r.invoked
    BY <1>2, MergedFields
  <2>3. m \in Nat /\ \A r \in rows : r.sid = from => r.seq <= m
    BY MaxSeqType DEF Store!RowsOf
  <2>4. \A r \in rows : r \in Store!Row /\ r.seq \in Nat \ {0} /\ r.created \in Times
    BY DEF StoreInv, Store!TypeOK, Store!Row
  <2>5. \A r1, r2 \in rows : r1.sid = from /\ r2.sid = to /\ r1.lid = r2.lid /\ r1.lid # None
                                => r1.lid \in C
    BY DEF Store!CollidingLids, Store!RowsOf
  <2> HIDE DEF f, m, C
  <2>6. Store!TypeOK'
    BY <2>1, <2>2 DEF StoreInv, Store!TypeOK
  <2>7. Store!IdIdentifiesRow'
    BY <2>1, <2>2 DEF StoreInv, Store!IdIdentifiesRow
  <2>8. SeqBounded'
    <3>1. PICK b \in Nat : \A r \in rows : r.seq <= b
      BY DEF StoreInv, SeqBounded
    <3>2. \A r \in rows' : r.seq <= b + m
      BY <2>1, <2>2, <2>3, <2>4, <3>1
    <3>3. b + m \in Nat
      BY <2>3
    <3> QED  BY <3>2, <3>3 DEF SeqBounded
  <2>9. Store!SeqIdentifiesRow'
    <3>1. ASSUME NEW r1 \in rows, NEW r2 \in rows,
                 f(r1).sid = f(r2).sid, f(r1).seq = f(r2).seq
          PROVE  r1 = r2
      <4>1. CASE r1.sid = r2.sid
        <5>1. r1.seq = r2.seq
          BY <2>2, <2>3, <2>4, <3>1, <4>1
        <5> QED  BY <4>1, <5>1 DEF StoreInv, Store!SeqIdentifiesRow
      <4>2. CASE r1.sid = from /\ r2.sid = to
        BY <1>2, <2>2, <2>3, <2>4, <3>1, <4>2
      <4>3. CASE r1.sid = to /\ r2.sid = from
        BY <1>2, <2>2, <2>3, <2>4, <3>1, <4>3
      <4> QED  BY <2>2, <3>1, <4>1, <4>2, <4>3
    <3> QED  BY <2>1, <3>1 DEF Store!SeqIdentifiesRow
  <2>10. Store!LocalIdIdentifiesRow'
    <3>1. ASSUME NEW r1 \in rows, NEW r2 \in rows, f(r1).sid = f(r2).sid,
                 f(r1).lid = f(r2).lid, f(r1).lid # None
          PROVE  r1 = r2
      <4>1. r1.lid = r2.lid /\ r1.lid # None
        BY <2>2, <3>1
      <4>2. CASE r1.sid = r2.sid
        BY <4>1, <4>2 DEF StoreInv, Store!LocalIdIdentifiesRow
      <4>3. CASE r1.sid = from /\ r2.sid = to
        BY <1>2, <2>2, <2>5, <3>1, <4>1, <4>3
      <4>4. CASE r1.sid = to /\ r2.sid = from
        BY <1>2, <2>2, <2>5, <3>1, <4>1, <4>4
      <4> QED  BY <2>2, <3>1, <4>2, <4>3, <4>4
    <3> QED  BY <2>1, <3>1 DEF Store!LocalIdIdentifiesRow
  <2>11. Store!QueuedHasAckPath'
    BY <2>1, <2>2, <2>4, NoneAssumption DEF StoreInv, Store!QueuedHasAckPath, Store!Queued
  <2> QED
    BY <2>6, <2>7, <2>8, <2>9, <2>10, <2>11 DEF StoreInv
<1> QED
  BY <1>1, <1>2

(* No statement breaks the invariant. *)
LEMMA StepKeepsStoreInv == StoreInv /\ [Store!Next]_Store!vars => StoreInv'
<1> SUFFICES ASSUME StoreInv, [Store!Next]_Store!vars PROVE StoreInv'
  OBVIOUS
<1>1. ASSUME NEW s \in Sessions, NEW l \in LocalIds \cup {None},
             NEW c \in Contents, NEW now \in Times, Store!Add(s, l, c, now)
      PROVE  StoreInv'
  BY <1>1, AddKeepsStoreInv
<1>2. ASSUME NEW s \in Sessions, NEW lids \in SUBSET LocalIds, NEW now \in Times,
             Store!MarkMessagesInvoked(s, lids, now)
      PROVE  StoreInv'
  BY <1>2, MarkKeepsStoreInv
<1>3. ASSUME NEW s \in Sessions, NEW i, Store!DeleteQueuedMessage(s, i)
      PROVE  StoreInv'
  BY <1>3, RemovalKeepsStoreInv DEF Store!DeleteQueuedMessage, Store!DeleteQueued
<1>4. ASSUME NEW from \in Sessions, NEW to \in Sessions, Store!Merge(from, to)
      PROVE  StoreInv'
  BY <1>4, MergeKeepsStoreInv
<1>5. ASSUME NEW s \in Sessions, Store!DeleteSession(s)
      PROVE  StoreInv'
  BY <1>5, RemovalKeepsStoreInv DEF Store!DeleteSession
<1>6. CASE UNCHANGED Store!vars
  BY <1>6, RemovalKeepsStoreInv DEF Store!vars
<1> QED
  BY <1>1, <1>2, <1>3, <1>4, <1>5, <1>6 DEF Store!Next, Store!Statement

(* An empty table satisfies the invariant. *)
LEMMA InitStoreInv == Store!Init => StoreInv
BY DEF Store!Init, StoreInv, Store!TypeOK, Store!IdIdentifiesRow, SeqBounded, Store!SeqIdentifiesRow,
       Store!LocalIdIdentifiesRow, Store!QueuedHasAckPath

(***************************************************************************)
(* The inductive invariant holds in every reachable state.                 *)
(***************************************************************************)
THEOREM StoreInvariance == Store!Spec => []StoreInv
BY InitStoreInv, StepKeepsStoreInv, PTL DEF Store!Spec

(* What the invariant says of the table in MessageTable's terms. *)
LEMMA StorePromises == StoreInv => SeqIdentifiesRow /\ LocalIdIdentifiesRow /\ QueuedHasAckPath
<1> SUFFICES ASSUME StoreInv
             PROVE  SeqIdentifiesRow /\ LocalIdIdentifiesRow /\ QueuedHasAckPath
  OBVIOUS
<1>1. SeqIdentifiesRow
  BY DEF StoreInv, Store!SeqIdentifiesRow, SeqIdentifiesRow
<1>2. LocalIdIdentifiesRow
  BY DEF StoreInv, Store!LocalIdIdentifiesRow, LocalIdIdentifiesRow
<1>3. QueuedHasAckPath
  BY DEF StoreInv, Store!QueuedHasAckPath, QueuedHasAckPath, Store!Queued, Queued
<1> QED  BY <1>1, <1>2, <1>3

(* The table's rows always have the fields and ranges its schema says. *)
THEOREM StoreTypeCorrect == Store!Spec => []Store!TypeOK
BY StoreInvariance, PTL DEF StoreInv

(* A sequence number identifies a message of a session, across deletions    *)
(* and merges.                                                              *)
THEOREM SeqIdentifies == Store!Spec => []SeqIdentifiesRow
BY StoreInvariance, StorePromises, PTL

(* A localId identifies a message of a session: the UNIQUE index is never   *)
(* violated, by a re-sent POST or by a merge.                               *)
THEOREM LocalIdIdentifies == Store!Spec => []LocalIdIdentifiesRow
BY StoreInvariance, StorePromises, PTL

(* A queued message can always still be acknowledged. *)
THEOREM AckPath == Store!Spec => []QueuedHasAckPath
BY StoreInvariance, StorePromises, PTL

-----------------------------------------------------------------------------
(* Every row of the table after a merge is the image of one row before it,  *)
(* and keeps its id.                                                        *)
LEMMA MergeIsMap ==
    ASSUME StoreInv, NEW from \in Sessions, NEW to \in Sessions, from # to,
           Store!Merge(from, to), NEW r \in rows, NEW q \in rows', q.id = r.id
    PROVE  q = Store!Merged(rows, from, to, r)
<1>1. PICK p \in rows : q = Store!Merged(rows, from, to, p)
  BY DEF Store!Merge, Store!MergeSessionMessages
<1>2. p.id = r.id
  BY <1>1, MergedFields
<1> QED
  BY <1>1, <1>2 DEF StoreInv, Store!IdIdentifiesRow

(***************************************************************************)
(* No statement reorders a conversation.                                   *)
(***************************************************************************)
THEOREM OrderIsKept == Store!Spec => OrderKept
<1>1. ASSUME StoreInv, [Store!Next]_Store!vars PROVE [OrderKeptStep]_<<rows, nextId>>
  <2> SUFFICES ASSUME NEW r1 \in rows, NEW r2 \in rows,
                      r1.sid = r2.sid, r1.seq < r2.seq,
                      NEW q1 \in rows', NEW q2 \in rows',
                      q1.id = r1.id, q2.id = r2.id
               PROVE  q1.sid = q2.sid /\ q1.seq < q2.seq
    BY DEF OrderKeptStep
  <2> DEFINE same == /\ q1.sid = r1.sid /\ q1.seq = r1.seq
                     /\ q2.sid = r2.sid /\ q2.seq = r2.seq
  <2>0. /\ \A r \in rows : r.id < nextId /\ r.id \in Nat /\ r.seq \in Nat
        /\ \A a, b \in rows : a.id = b.id => a = b
        /\ nextId \in Nat
    BY <1>1 DEF StoreInv, Store!TypeOK, Store!IdIdentifiesRow, Store!Row
  <2>1. ASSUME NEW s \in Sessions, NEW l \in LocalIds \cup {None},
               NEW c \in Contents, NEW now \in Times, Store!Add(s, l, c, now)
        PROVE  same
    <3>1. \A q \in rows' : q \in rows \/ q.id = nextId
      BY <2>1 DEF Store!Add, Store!AddMessage, Store!NewRow
    <3> QED  BY <2>0, <3>1
  <2>2. ASSUME NEW s \in Sessions, NEW lids \in SUBSET LocalIds, NEW now \in Times,
               Store!MarkMessagesInvoked(s, lids, now)
        PROVE  same
    <3>1. \A q \in rows' : \E r \in rows :
              q.id = r.id /\ q.sid = r.sid /\ q.seq = r.seq
      BY <1>1, <2>2 DEF Store!MarkMessagesInvoked, Store!MarkInvoked, StoreInv, Store!TypeOK, Store!Row
    <3> QED  BY <2>0, <3>1
  <2>3. ASSUME NEW s \in Sessions, NEW i, Store!DeleteQueuedMessage(s, i)
        PROVE  same
    BY <2>0, <2>3 DEF Store!DeleteQueuedMessage, Store!DeleteQueued
  <2>4. ASSUME NEW from \in Sessions, NEW to \in Sessions, Store!Merge(from, to)
        PROVE  q1.sid = q2.sid /\ q1.seq < q2.seq
    <3>1. CASE from = to
      BY <2>0, <2>4, <3>1 DEF Store!Merge, Store!MergeSessionMessages
    <3>2. CASE from # to
      <4>1. q1 = Store!Merged(rows, from, to, r1) /\ q2 = Store!Merged(rows, from, to, r2)
        BY <1>1, <2>4, <3>2, MergeIsMap
      <4>2. Store!MaxSeq(rows, from) \in Nat
        BY <1>1, MaxSeqType
      <4>3. /\ q1.sid = IF r1.sid = from THEN to ELSE r1.sid
            /\ q2.sid = IF r2.sid = from THEN to ELSE r2.sid
            /\ q1.seq = IF r1.sid = to THEN r1.seq + Store!MaxSeq(rows, from) ELSE r1.seq
            /\ q2.seq = IF r2.sid = to THEN r2.seq + Store!MaxSeq(rows, from) ELSE r2.seq
        BY <1>1, <3>2, <4>1, MergedFields
      <4> QED  BY <2>0, <4>2, <4>3
    <3> QED  BY <3>1, <3>2
  <2>5. ASSUME NEW s \in Sessions, Store!DeleteSession(s)
        PROVE  same
    BY <2>0, <2>5 DEF Store!DeleteSession
  <2>6. CASE UNCHANGED Store!vars
    BY <2>0, <2>6 DEF Store!vars
  <2> QED
    BY <1>1, <2>1, <2>2, <2>3, <2>4, <2>5, <2>6 DEF Store!Next, Store!Statement
<1> QED
  BY <1>1, StoreInvariance, PTL DEF Store!Spec, OrderKept, Store!vars

-----------------------------------------------------------------------------
(* MessageStore and this module each have the operators of MessageRows     *)
(* under a name of their own: they are the same operators.                 *)
LEMMA SameOperators ==
    /\ \A rs, i, s, l, c, now : Store!AddMessage(rs, i, s, l, c, now) = AddMessage(rs, i, s, l, c, now)
    /\ \A rs, s, lids, now : Store!MarkInvoked(rs, s, lids, now) = MarkInvoked(rs, s, lids, now)
    /\ \A rs, s, i : Store!DeleteQueued(rs, s, i) = DeleteQueued(rs, s, i)
    /\ \A rs, from, to : Store!MergeSessionMessages(rs, from, to) = MergeSessionMessages(rs, from, to)
<1>1. \A rs, i, s, l, c, now : Store!AddMessage(rs, i, s, l, c, now) = AddMessage(rs, i, s, l, c, now)
  <2>1. \A rs, s : Store!MaxSeq(rs, s) = MaxSeq(rs, s)
    BY Zenon DEF Store!MaxSeq, MaxSeq, Store!RowsOf, RowsOf
  <2>2. \A rs, i, s, l, c, now : Store!NewRow(rs, i, s, l, c, now) = NewRow(rs, i, s, l, c, now)
    BY <2>1 DEF Store!NewRow, NewRow
  <2>3. \A rs, s, l : Store!WithLocalId(rs, s, l) = WithLocalId(rs, s, l)
    BY Zenon DEF Store!WithLocalId, WithLocalId, Store!RowsOf, RowsOf
  <2> QED  BY <2>2, <2>3 DEF Store!AddMessage, AddMessage
<1>2. \A rs, s, lids, now : Store!MarkInvoked(rs, s, lids, now) = MarkInvoked(rs, s, lids, now)
  BY Zenon DEF Store!MarkInvoked, MarkInvoked, Store!Queued, Queued
<1>3. \A rs, s, i : Store!DeleteQueued(rs, s, i) = DeleteQueued(rs, s, i)
  BY Zenon DEF Store!DeleteQueued, DeleteQueued, Store!Queued, Queued
<1>4. \A rs, from, to : Store!MergeSessionMessages(rs, from, to) = MergeSessionMessages(rs, from, to)
  BY Zenon DEF Store!MergeSessionMessages, MergeSessionMessages, Store!Merged, Merged, Store!Renumbered,
               Renumbered, Store!CollidingLids,
               CollidingLids, Store!MaxSeq, MaxSeq, Store!RowsOf, RowsOf
<1> QED
  BY <1>1, <1>2, <1>3, <1>4

(* No statement restamps or removes an invoked row.                         *)
LEMMA StatementKeepsInvoked == StoreInv /\ Statement => InvokedKept
<1> SUFFICES ASSUME StoreInv, Statement, NEW r \in rows, ~Queued(r)
             PROVE  \E q \in rows' : q.id = r.id /\ q.invoked = r.invoked
  BY DEF InvokedKept
<1>1. ASSUME NEW s \in Sessions, NEW l \in LocalIds \cup {None},
             NEW c \in Contents, NEW now \in Times, Add(s, l, c, now)
      PROVE  r \in rows'
  BY <1>1 DEF Add, AddMessage
<1>2. ASSUME NEW s \in Sessions, NEW lids \in SUBSET LocalIds, NEW now \in Times,
             MarkMessagesInvoked(s, lids, now)
      PROVE  r \in rows'
  BY <1>2 DEF MarkMessagesInvoked, MarkInvoked
<1>3. ASSUME NEW s \in Sessions, NEW i, DeleteQueuedMessage(s, i)
      PROVE  r \in rows'
  BY <1>3 DEF DeleteQueuedMessage, DeleteQueued
<1>4. ASSUME NEW from \in Sessions, NEW to \in Sessions, Merge(from, to)
      PROVE  \E q \in rows' : q.id = r.id /\ q.invoked = r.invoked
  <2>1. CASE from = to
    BY <1>4, <2>1 DEF Merge, MergeSessionMessages
  <2>2. CASE from # to
    <3>1. rows' = Store!MergeSessionMessages(rows, from, to)
      BY <1>4, SameOperators DEF Merge
    <3>2. Store!Merged(rows, from, to, r) \in rows'
      BY <2>2, <3>1 DEF Store!MergeSessionMessages
    <3>3. /\ Store!Merged(rows, from, to, r).id = r.id
          /\ Store!Merged(rows, from, to, r).invoked = r.invoked
      BY <2>2, MergedFields DEF Queued
    <3> QED  BY <3>2, <3>3
  <2> QED  BY <2>1, <2>2
<1> QED
  BY <1>1, <1>2, <1>3, <1>4 DEF Statement

(***************************************************************************)
(* First write wins: no statement, cancels and merges included, restamps   *)
(* or removes an invoked row; only the deletion of its session does.       *)
(***************************************************************************)
THEOREM InvokedFinal == Store!Spec => InvokedIsFinal
<1>1. StoreInv => [InvokedKept \/ ~Statement]_<<rows, nextId>>
  BY StatementKeepsInvoked
<1> QED
  BY <1>1, StoreInvariance, PTL DEF InvokedIsFinal

-----------------------------------------------------------------------------
(* The row a DELETE waits for is, unless it is gone, still the session's row *)
(* with the localId it named.                                                *)
TabOK ==
    \A t \in Tabs :
        /\ tab[t].st = "posting" => tab[t].lid \in LocalIds \cup {None}
        /\ tab[t].st = "cancelling" =>
              /\ {"st", "lid", "id"} \subseteq DOMAIN tab[t]
              /\ tab[t].lid \in LocalIds
              /\ tab[t].id \in 1 .. nextId - 1
              /\ \A r \in rows : r.id = tab[t].id => r.sid = Sid /\ r.lid = tab[t].lid

DInv ==
    /\ StoreInv
    /\ DOMAIN tab = Tabs
    /\ TabOK
    /\ reported \subseteq 1 .. nextId - 1
    /\ CancelledNotQueued

LEMMA Constants ==
    /\ Sid \in Sessions
    /\ "user" \in Contents /\ "agent" \in Contents
    /\ "add" \in Times /\ "ack" \in Times /\ "cancel" \in Times /\ "end" \in Times
BY DeliveryAssumption

(* The five ways in which a step changes the table.  Only an acknowledgement *)
(* from the CLI stamps "ack", and only rows of its session.                  *)
Adds ==
    \E s \in Sessions, l \in LocalIds \cup {None}, c \in Contents :
        /\ nextId <= MaxRows
        /\ rows' = AddMessage(rows, nextId, s, l, c, "add")
        /\ nextId' = nextId + 1
Marks ==
    \E s \in Sessions, lids \in SUBSET LocalIds, now \in Times :
        /\ rows' = MarkInvoked(rows, s, lids, now) /\ nextId' = nextId
        /\ now = "ack" => /\ s = Sid
                          /\ \E i \in 1 .. Len(up) : up[i].t = "consumed" /\ lids \subseteq up[i].lids
Deletes ==
    \E i \in 1 .. nextId - 1 : rows' = DeleteQueued(rows, Sid, i) /\ nextId' = nextId
Merges == \E s \in Sessions \ {Sid} : MergeIn(s)
Leaves == rows' = rows /\ nextId' = nextId

LEMMA RowIds ==
    ASSUME DInv
    PROVE  nextId \in Nat \ {0} /\ \A r \in rows : r.id \in 1 .. nextId - 1
BY DEF DInv, StoreInv, Store!TypeOK, Store!IdIdentifiesRow, Store!Row

LEMMA SettleShape ==
    ASSUME DInv, NEW t \in Tabs, NEW removed, tab[t].st = "cancelling", Settle(t, removed),
           nextId' = nextId
    PROVE  Marks \/ Deletes
<1>1. tab[t].lid \in LocalIds /\ tab[t].id \in 1 .. nextId - 1
  BY DEF DInv, TabOK
<1>2. CASE removed
  BY <1>1, <1>2 DEF Settle, Deletes
<1>3. CASE ~removed
  BY <1>1, <1>3, Constants DEF Settle, Marks
<1> QED
  BY <1>2, <1>3

LEMMA StepShape ==
    ASSUME DInv, [Next]_vars
    PROVE  Adds \/ Marks \/ Deletes \/ Merges \/ Leaves
<1> USE Constants
<1>1. CASE \E t \in Tabs : PostStore(t)
  BY <1>1 DEF PostStore, DInv, TabOK, Adds
<1>2. CASE \E t \in Tabs, l \in LocalIds : CancelOffline(t, l)
  BY <1>2, RowIds DEF CancelOffline, WithLocalId, RowsOf, Deletes
<1>3. CASE \E t \in Tabs : CancelTimeout(t)
  BY <1>3, SettleShape DEF CancelTimeout
<1>4. CASE HubMessagesConsumed
  BY <1>4 DEF HubMessagesConsumed, Marks
<1>5. CASE \E t \in Tabs : HubCancelAck(t)
  BY <1>5, SettleShape DEF HubCancelAck, Leaves
<1>6. CASE HubSessionEnd
  <2>1. \A l \in {r.lid : r \in UninvokedLocal(rows, Sid)} : l \in LocalIds
    BY DEF DInv, StoreInv, Store!TypeOK, Store!Row, UninvokedLocal, RowsOf
  <2> QED  BY <1>6, <2>1 DEF HubSessionEnd, Marks
<1>7. CASE \E s \in Sessions \ {Sid} : MergeIn(s)
  BY <1>7 DEF Merges
<1>8. CASE \E s \in Sessions \ {Sid}, l \in LocalIds \cup {None}, c \in {"user", "agent"} :
             OldSessionMessage(s, l, c)
  BY <1>8 DEF OldSessionMessage, Adds
<1>11. CASE \E s \in Sessions \ {Sid} : OldSessionEnd(s)
  <2>1. PICK s \in Sessions \ {Sid} : OldSessionEnd(s)
    BY <1>11
  <2>2. \A l \in {r.lid : r \in UninvokedLocal(rows, s)} : l \in LocalIds
    BY DEF DInv, StoreInv, Store!TypeOK, Store!Row, UninvokedLocal, RowsOf
  <2> QED  BY <2>1, <2>2 DEF OldSessionEnd, Marks
<1>9. CASE \E c \in {"user", "agent"} : Output(c)
  BY <1>9 DEF Output, Adds
<1>10. CASE UNCHANGED storeVars
  BY <1>10 DEF storeVars, Leaves
<1> QED
  <2>1. CASE UNCHANGED vars
    BY <2>1, <1>10 DEF vars
  <2>2. CASE WebRequest
    BY <2>2, <1>1, <1>2, <1>3, <1>10 DEF WebRequest, PostBegin, CancelAsk
  <2>3. CASE HubHandler
    BY <2>3, <1>4, <1>5, <1>6, <1>10 DEF HubHandler, HubSessionAlive, FetchServe
  <2>4. CASE HubEvent
    BY <2>4, <1>7, <1>8, <1>10, <1>11 DEF HubEvent, HubDisconnect, Expire
  <2>5. CASE CliStep
    BY <2>5, <1>9, <1>10 DEF CliStep, ReceiveMessage, ReceiveCancel, FetchDone, FetchFail,
                             RegisterCallbacks, Consume
  <2>6. CASE CliLife
    BY <2>6, <1>10 DEF CliLife, Connect, Disconnect, SessionEnd, Exit
  <2> QED  BY <2>1, <2>2, <2>3, <2>4, <2>5, <2>6 DEF Next

LEMMA StepIsStatement ==
    ASSUME DInv, [Next]_vars
    PROVE  Statement \/ Leaves
<1> USE Constants
<1>1. CASE Adds
  <2>1. PICK s \in Sessions, l \in LocalIds \cup {None}, c \in Contents : Add(s, l, c, "add")
    BY <1>1 DEF Adds, Add
  <2> QED  BY <2>1 DEF Statement
<1>2. CASE Marks
  <2>1. PICK s \in Sessions, lids \in SUBSET LocalIds, now \in Times :
           MarkMessagesInvoked(s, lids, now)
    BY <1>2 DEF Marks, MarkMessagesInvoked
  <2> QED  BY <2>1 DEF Statement
<1>3. CASE Deletes
  <2>1. PICK i \in 1 .. nextId : DeleteQueuedMessage(Sid, i)
    BY <1>3, RowIds DEF Deletes, DeleteQueuedMessage
  <2> QED  BY <2>1 DEF Statement
<1>4. CASE Merges
  <2>1. PICK s \in Sessions : Merge(s, Sid)
    BY <1>4 DEF Merges, MergeIn, Merge
  <2> QED  BY <2>1 DEF Statement
<1> QED
  BY <1>1, <1>2, <1>3, <1>4, StepShape

LEMMA StepIsStoreStep ==
    ASSUME DInv, [Next]_vars
    PROVE  [Store!Next]_Store!vars
<1>1. Statement => Store!Statement
  <2> USE SameOperators DEF Statement, Store!Statement
  <2>1. \A s, l, c, now : Add(s, l, c, now) => Store!Add(s, l, c, now)
    BY DEF Add, Store!Add
  <2>2. \A s, lids, now : MarkMessagesInvoked(s, lids, now) => Store!MarkMessagesInvoked(s, lids, now)
    BY DEF MarkMessagesInvoked, Store!MarkMessagesInvoked
  <2>3. \A s, i : DeleteQueuedMessage(s, i) => Store!DeleteQueuedMessage(s, i)
    BY DEF DeleteQueuedMessage, Store!DeleteQueuedMessage
  <2>4. \A from, to : Merge(from, to) => Store!Merge(from, to)
    BY DEF Merge, Store!Merge
  <2> QED  BY <2>1, <2>2, <2>3, <2>4
<1> QED
  BY <1>1, StepIsStatement DEF Leaves, Store!Next, Store!vars

(* q was a row before the step: it is not queued again, and if it was in    *)
(* Sid's session it still is, under its localId.                            *)
WasRow(q) ==
    \E r \in rows : /\ r.id = q.id
                    /\ q.invoked = None => r.invoked = None
                    /\ r.sid = Sid => q.sid = Sid /\ q.lid = r.lid

LEMMA RowEffect ==
    ASSUME DInv, [Next]_vars
    PROVE  /\ nextId' \in {nextId, nextId + 1}
           /\ \A q \in rows' : (q.id = nextId /\ nextId' = nextId + 1) \/ WasRow(q)
<1>1. CASE Adds
  BY <1>1 DEF Adds, AddMessage, NewRow, WasRow
<1>2. rows \subseteq Store!Row
  BY DEF DInv, StoreInv, Store!TypeOK
<1>3. CASE Marks
  BY <1>2, <1>3, NoneAssumption DEF Marks, MarkInvoked, Queued, Store!Row, WasRow
<1>4. CASE Deletes
  BY <1>4 DEF Deletes, DeleteQueued, WasRow
<1>5. CASE Merges
  <2>1. PICK s \in Sessions \ {Sid} :
           rows' = {Merged(rows, s, Sid, r) : r \in rows} /\ nextId' = nextId
    BY <1>5, Constants DEF Merges, MergeIn, MergeSessionMessages
  <2>2. ASSUME NEW r \in rows
        PROVE  WasRow(Merged(rows, s, Sid, r))
    BY <1>2, <2>2 DEF Merged, Renumbered, Store!Row, WasRow
  <2> QED  BY <2>1, <2>2
<1>6. CASE Leaves
  BY <1>6 DEF Leaves, WasRow
<1> QED
  BY <1>1, <1>3, <1>4, <1>5, <1>6, StepShape

(* The request a tab has in flight after a step, told by the rows before it. *)
TabKnown(tb) ==
    /\ DOMAIN tb = Tabs
    /\ \A t \in Tabs :
          /\ tb[t].st = "posting" => tb[t].lid \in LocalIds \cup {None}
          /\ tb[t].st = "cancelling" =>
                /\ {"st", "lid", "id"} \subseteq DOMAIN tb[t]
                /\ tb[t].lid \in LocalIds
                /\ tb[t].id \in 1 .. nextId - 1
                /\ \A r \in rows : r.id = tb[t].id => r.sid = Sid /\ r.lid = tb[t].lid

LEMMA TabStep ==
    ASSUME DInv, [Next]_vars
    PROVE  TabKnown(tab')
<1>1. TabKnown(tab)
  BY DEF DInv, TabOK, TabKnown
<1>2. CASE tab' = tab
  BY <1>1, <1>2
<1>3. ASSUME NEW t \in Tabs, tab' = [tab EXCEPT ![t] = Idle]
      PROVE  TabKnown(tab')
  BY <1>1, <1>3 DEF TabKnown, Idle
<1>4. CASE \E t \in Tabs, l \in LocalIds \cup {None} : PostBegin(t, l)
  BY <1>1, <1>4 DEF TabKnown, PostBegin
<1>5. CASE \E t \in Tabs, l \in LocalIds : CancelAsk(t, l)
  <2>1. PICK t \in Tabs, l \in LocalIds, r \in rows :
           /\ r \in WithLocalId(rows, Sid, l)
           /\ tab' = [tab EXCEPT ![t] = [st |-> "cancelling", lid |-> l, id |-> r.id,
                                         removed |-> FALSE, asked |-> room]]
    BY <1>5 DEF CancelAsk, WithLocalId, RowsOf
  <2>2. /\ r.sid = Sid /\ r.lid = l
        /\ \A q \in rows : q.id = r.id => q = r
    BY <2>1 DEF WithLocalId, RowsOf, DInv, StoreInv, Store!IdIdentifiesRow
  <2>3. r.id \in 1 .. nextId - 1
    BY RowIds
  <2> QED  BY <1>1, <2>1, <2>2, <2>3 DEF TabKnown
<1>6. CASE \E t \in Tabs : HubCancelAck(t)
  BY <1>1, <1>2, <1>3, <1>6 DEF HubCancelAck, Settle, TabKnown
<1> QED
  <2>1. CASE UNCHANGED vars
    BY <2>1, <1>2 DEF vars, hubVars
  <2>2. CASE WebRequest
    BY <2>2, <1>2, <1>3, <1>4, <1>5 DEF WebRequest, PostStore, CancelTimeout, Settle,
                                        CancelOffline, hubVars
  <2>3. CASE HubHandler
    BY <2>3, <1>2, <1>6 DEF HubHandler, HubMessagesConsumed, HubSessionAlive, HubSessionEnd,
                            FetchServe, hubVars
  <2>4. CASE HubEvent
    BY <2>4, <1>2 DEF HubEvent, HubDisconnect, Expire, MergeIn, OldSessionMessage, OldSessionEnd, hubVars
  <2>5. CASE CliStep
    BY <2>5, <1>2 DEF CliStep, ReceiveMessage, ReceiveCancel, FetchDone, FetchFail,
                      RegisterCallbacks, Consume, Output, hubVars
  <2>6. CASE CliLife
    BY <2>6, <1>2 DEF CliLife, Connect, Disconnect, SessionEnd, Exit, hubVars
  <2> QED  BY <2>1, <2>2, <2>3, <2>4, <2>5, <2>6 DEF Next

(* A row that is reported as cancelled in a step is gone or invoked after it. *)
NewlyReported ==
    \A i \in reported' \ reported :
        i \in 1 .. nextId - 1 /\ \A q \in rows' : q.id = i => ~Queued(q)

LEMMA SettleReports ==
    ASSUME DInv, NEW t \in Tabs, NEW removed, tab[t].st = "cancelling", Settle(t, removed)
    PROVE  NewlyReported
<1> DEFINE l  == tab[t].lid
           id == tab[t].id
<1>1. /\ l \in LocalIds /\ id \in 1 .. nextId - 1
      /\ \A r \in rows : r.id = id => r.sid = Sid /\ r.lid = l
  BY DEF DInv, TabOK
<1>2. reported' \subseteq reported \cup {id}
  BY DEF Settle
<1>3. CASE removed
  BY <1>1, <1>2, <1>3 DEF Settle, NewlyReported, DeleteQueued
<1>4. CASE ~removed
  <2>1. rows' = MarkInvoked(rows, Sid, {l}, "cancel")
    BY <1>4 DEF Settle
  <2>2. \A q \in rows' : q.id = id => q.sid = Sid /\ q.lid = l
    <3>1. rows \subseteq Store!Row
      BY DEF DInv, StoreInv, Store!TypeOK
    <3> QED  BY <1>1, <2>1, <3>1 DEF MarkInvoked, Store!Row
  <2>3. id \in reported' \ reported => WithLocalId(rows', Sid, l) = {}
    BY <1>4 DEF Settle
  <2>4. \A q \in rows' : q.id = id => q \in WithLocalId(rows', Sid, l)
    BY <1>1, <2>2, NoneAssumption DEF WithLocalId, RowsOf
  <2> QED  BY <1>1, <1>2, <2>3, <2>4 DEF NewlyReported
<1> QED
  BY <1>3, <1>4

LEMMA ReportedStep ==
    ASSUME DInv, [Next]_vars
    PROVE  NewlyReported
<1>1. CASE reported' = reported
  BY <1>1 DEF NewlyReported
<1>2. CASE \E t \in Tabs, l \in LocalIds : CancelOffline(t, l)
  <2>1. PICK r \in rows :
           /\ r.sid = Sid
           /\ rows' = DeleteQueued(rows, Sid, r.id)
           /\ reported' = reported \cup {r.id}
    BY <1>2 DEF CancelOffline, WithLocalId, RowsOf
  <2>2. \A q \in rows : q.id = r.id => q = r
    BY DEF DInv, StoreInv, Store!IdIdentifiesRow
  <2>3. r.id \in 1 .. nextId - 1
    BY RowIds
  <2> QED  BY <2>1, <2>2, <2>3 DEF NewlyReported, DeleteQueued
<1>3. CASE \E t \in Tabs : CancelTimeout(t)
  BY <1>3, SettleReports DEF CancelTimeout
<1>4. CASE \E t \in Tabs : HubCancelAck(t)
  BY <1>1, <1>4, SettleReports DEF HubCancelAck
<1> QED
  <2>1. CASE UNCHANGED vars
    BY <2>1, <1>1 DEF vars, historyVars
  <2>2. CASE WebRequest
    BY <2>2, <1>1, <1>2, <1>3 DEF WebRequest, PostBegin, PostStore, CancelAsk, historyVars
  <2>3. CASE HubHandler
    BY <2>3, <1>1, <1>4 DEF HubHandler, HubMessagesConsumed, HubSessionAlive, HubSessionEnd,
                            FetchServe, historyVars
  <2>4. CASE HubEvent
    BY <2>4, <1>1 DEF HubEvent, HubDisconnect, Expire, MergeIn, OldSessionMessage, OldSessionEnd, historyVars
  <2>5. CASE CliStep
    BY <2>5, <1>1 DEF CliStep, ReceiveMessage, ReceiveCancel, FetchDone, FetchFail,
                      RegisterCallbacks, Consume, Output, historyVars
  <2>6. CASE CliLife
    BY <2>6, <1>1 DEF CliLife, Connect, Disconnect, SessionEnd, Exit, historyVars
  <2> QED  BY <2>1, <2>2, <2>3, <2>4, <2>5, <2>6 DEF Next

LEMMA InitDInv == Init => DInv
<1> SUFFICES ASSUME Init PROVE DInv
  OBVIOUS
<1>1. StoreInv
  BY InitStoreInv DEF Init, Store!Init
<1> QED
  BY <1>1 DEF Init, Idle, DInv, TabOK, CancelledNotQueued

LEMMA StepKeepsDInv ==
    ASSUME DInv, [Next]_vars
    PROVE  DInv'
<1>1. StoreInv'
  BY StepIsStoreStep, StepKeepsStoreInv DEF DInv
<1>2. nextId \in Nat \ {0} /\ nextId' \in {nextId, nextId + 1}
  BY RowIds, RowEffect
<1>3. ASSUME NEW q \in rows', q.id \in 1 .. nextId - 1
      PROVE  WasRow(q)
  <2>1. q.id # nextId
    BY <1>2, <1>3
  <2> QED  BY <2>1, RowEffect
<1>4. DOMAIN tab' = Tabs /\ TabOK'
  BY <1>2, <1>3, TabStep DEF TabKnown, TabOK, WasRow
<1>5. reported' \subseteq 1 .. nextId' - 1
  <2>1. \A i \in reported : i \in 1 .. nextId - 1
    BY DEF DInv
  <2>2. \A i \in reported' : i \in 1 .. nextId - 1
    BY <2>1, ReportedStep DEF NewlyReported
  <2> QED  BY <1>2, <2>2
<1>6. CancelledNotQueued'
  <2>1. ASSUME NEW q \in rows', q.id \in reported'
        PROVE  ~Queued(q)
    <3>1. CASE q.id \in reported
      BY <1>2, <1>3, <3>1 DEF DInv, CancelledNotQueued, Queued, WasRow
    <3>2. CASE q.id \notin reported
      BY <2>1, <3>2, ReportedStep DEF NewlyReported
    <3> QED  BY <3>1, <3>2
  <2> QED  BY <2>1 DEF CancelledNotQueued, Queued
<1> QED
  BY <1>1, <1>4, <1>5, <1>6 DEF DInv

(***************************************************************************)
(* The inductive invariant.                                                *)
(***************************************************************************)
THEOREM DInvariance == Spec => []DInv
<1> QED
  BY InitDInv, StepKeepsDInv, PTL DEF Spec

(***************************************************************************)
(* A DELETE that answers 'cancelled' means it: however requests, answers,  *)
(* timeouts, reconnects and merges interleave, no row a tab was told is    *)
(* cancelled is queued (messageService.cancelQueuedMessage).               *)
(***************************************************************************)
THEOREM CancelledStaysCancelled == Spec => []CancelledNotQueued
<1>1. DInv => CancelledNotQueued
  BY DEF DInv
<1> QED
  BY <1>1, DInvariance, PTL

(***************************************************************************)
(* Every step of hub and CLI that touches the messages table is one of the *)
(* statements of hub/src/store/messages.ts, with arguments MessageStore    *)
(* allows.                                                                 *)
(***************************************************************************)
THEOREM Implements == Spec => ImplementsStore
<1>1. Init => Store!Init
  BY DEF Init, Store!Init
<1>2. ASSUME DInv, [Next]_vars PROVE [Store!Next]_Store!vars
  <2>1. [Store!Next]_Store!vars
    BY <1>2, StepIsStoreStep
  <2> QED  BY <2>1 DEF Store!vars
<1> QED
  BY <1>1, <1>2, DInvariance, PTL DEF Spec, ImplementsStore, Store!Spec

(***************************************************************************)
(* So the delivery protocol inherits the theorems of the table: sequence   *)
(* numbers and localIds identify a row, whatever is queued can still be    *)
(* acknowledged, no conversation is reordered, and, as the protocol does   *)
(* not delete the session it serves, no step restamps or removes an        *)
(* invoked row.                                                            *)
(***************************************************************************)
THEOREM TableKept ==
    Spec => /\ [](SeqIdentifiesRow /\ LocalIdIdentifiesRow /\ QueuedHasAckPath)
            /\ [][InvokedKept]_<<rows, nextId>> /\ OrderKept
<1>1. Spec => Store!Spec
  BY Implements DEF ImplementsStore
<1>2. ASSUME DInv, [Next]_vars PROVE [InvokedKept]_<<rows, nextId>>
  <2>1. StoreInv /\ (Statement \/ Leaves)
    BY <1>2, StepIsStatement DEF DInv
  <2> QED  BY <2>1, StatementKeepsInvoked DEF Leaves
<1>3. Spec => [][InvokedKept]_<<rows, nextId>>
  BY <1>2, DInvariance, PTL DEF Spec
<1> QED
  BY <1>1, <1>3, SeqIdentifies, LocalIdIdentifies, AckPath, OrderIsKept, PTL

-----------------------------------------------------------------------------
(* What follows is about the items on their way to the agent.  The first     *)
(* lemmas are about sequences of items whatever the state.                   *)
Ids(q) == {q[i].id : i \in 1 .. Len(q)}

Lids(q) == {q[i].lid : i \in 1 .. Len(q)}

(* Different ids whose rows, when rs has both, are in this order. *)
Before(rs, a, b) == a # b /\ \A r, q \in rs : r.id = a /\ q.id = b => r.seq < q.seq

Chain(rs, q) == \A i, j \in 1 .. Len(q) : i < j => Before(rs, q[i].id, q[j].id)

AllBefore(rs, A, B) == \A a \in A, b \in B : Before(rs, a, b)

LEMMA Elements ==
    ASSUME NEW S, NEW q \in Seq(S), NEW i \in 1 .. Len(q)
    PROVE  q[i] \in S
OBVIOUS

LEMMA ItemIds ==
    ASSUME NEW q \in Seq(Items), NEW i \in 1 .. Len(q)
    PROVE  q[i].id \in 1 .. MaxRows
<1>1. q[i] \in Items
  BY Elements
<1> QED
  BY <1>1 DEF Items

LEMMA EmptyItems ==
    ASSUME NEW rs
    PROVE  <<>> \in Seq(Items) /\ Ids(<<>>) = {} /\ Lids(<<>>) = {} /\ Chain(rs, <<>>)
BY DEF Ids, Lids, Chain

LEMMA Concatenated ==
    ASSUME NEW q \in Seq(Items), NEW p \in Seq(Items), NEW rs
    PROVE  /\ q \o p \in Seq(Items)
           /\ Ids(q \o p) = Ids(q) \cup Ids(p)
           /\ Lids(q \o p) = Lids(q) \cup Lids(p)
           /\ Chain(rs, q) /\ Chain(rs, p) /\ AllBefore(rs, Ids(q), Ids(p)) => Chain(rs, q \o p)
<1>1. /\ q \o p \in Seq(Items) /\ Len(q \o p) = Len(q) + Len(p)
      /\ Len(q) \in Nat /\ Len(p) \in Nat
  OBVIOUS
<1>2. \A i \in 1 .. Len(q) + Len(p) :
         (q \o p)[i] = IF i <= Len(q) THEN q[i] ELSE p[i - Len(q)]
  OBVIOUS
<1>3. \A i \in 1 .. Len(p) : Len(q) + i \in 1 .. Len(q) + Len(p) /\ (q \o p)[Len(q) + i] = p[i]
  BY <1>1, <1>2
<1>4. \A i \in 1 .. Len(q) : i \in 1 .. Len(q) + Len(p) /\ (q \o p)[i] = q[i]
  BY <1>1, <1>2
<1>5. \A i \in 1 .. Len(q) + Len(p) :
         \/ i \in 1 .. Len(q) /\ (q \o p)[i] = q[i]
         \/ ~(i <= Len(q)) /\ i - Len(q) \in 1 .. Len(p) /\ (q \o p)[i] = p[i - Len(q)]
  BY <1>1, <1>2
<1> DEFINE c == q \o p
<1>6. Ids(c) = Ids(q) \cup Ids(p)
  <2>1. Ids(c) \subseteq Ids(q) \cup Ids(p)
    BY <1>1, <1>5 DEF Ids
  <2>2. Ids(q) \subseteq Ids(c)
    BY <1>1, <1>4 DEF Ids
  <2>3. Ids(p) \subseteq Ids(c)
    BY <1>1, <1>3 DEF Ids
  <2> QED  BY <2>1, <2>2, <2>3
<1>7. Lids(c) = Lids(q) \cup Lids(p)
  <2>1. Lids(c) \subseteq Lids(q) \cup Lids(p)
    BY <1>1, <1>5 DEF Lids
  <2>2. Lids(q) \subseteq Lids(c)
    BY <1>1, <1>4 DEF Lids
  <2>3. Lids(p) \subseteq Lids(c)
    BY <1>1, <1>3 DEF Lids
  <2> QED  BY <2>1, <2>2, <2>3
<1>8. ASSUME Chain(rs, q), Chain(rs, p), AllBefore(rs, Ids(q), Ids(p))
      PROVE  Chain(rs, c)
  <2> SUFFICES ASSUME NEW i \in 1 .. Len(q) + Len(p), NEW j \in 1 .. Len(q) + Len(p), i < j
               PROVE  Before(rs, c[i].id, c[j].id)
    BY <1>1 DEF Chain
  <2>1. CASE j <= Len(q)
    <3>1. i \in 1 .. Len(q) /\ j \in 1 .. Len(q) /\ c[i] = q[i] /\ c[j] = q[j]
      BY <1>1, <1>2, <2>1
    <3> QED  BY <1>8, <3>1 DEF Chain
  <2>2. CASE i <= Len(q) /\ ~(j <= Len(q))
    <3>1. i \in 1 .. Len(q) /\ c[i] = q[i] /\ j - Len(q) \in 1 .. Len(p) /\ c[j] = p[j - Len(q)]
      BY <1>1, <1>2, <2>2
    <3>2. c[i].id \in Ids(q) /\ c[j].id \in Ids(p)
      BY <3>1 DEF Ids
    <3> QED  BY <1>8, <3>2 DEF AllBefore
  <2>3. CASE ~(i <= Len(q))
    <3>1. /\ i - Len(q) \in 1 .. Len(p) /\ j - Len(q) \in 1 .. Len(p)
          /\ i - Len(q) < j - Len(q)
          /\ c[i] = p[i - Len(q)] /\ c[j] = p[j - Len(q)]
      BY <1>1, <1>2, <2>3
    <3> QED  BY <1>8, <3>1 DEF Chain
  <2> QED  BY <1>1, <2>1, <2>2, <2>3
<1> QED
  BY <1>1, <1>6, <1>7, <1>8

LEMMA Part ==
    ASSUME NEW q \in Seq(Items), NEW m \in Nat \ {0}, NEW n \in Nat, n <= Len(q), NEW rs
    PROVE  /\ SubSeq(q, m, n) \in Seq(Items)
           /\ Ids(SubSeq(q, m, n)) = {q[i].id : i \in m .. n}
           /\ Lids(SubSeq(q, m, n)) = {q[i].lid : i \in m .. n}
           /\ Chain(rs, q) => Chain(rs, SubSeq(q, m, n))
<1> DEFINE p == SubSeq(q, m, n)
           k == IF m <= n THEN n - m + 1 ELSE 0
<1>1. /\ p \in Seq(Items) /\ Len(p) = k /\ k \in Nat
      /\ \A i \in 1 .. k : p[i] = q[m + i - 1]
  OBVIOUS
<1>2. Len(q) \in Nat
  OBVIOUS
<1>3. \A i \in 1 .. k : m + i - 1 \in m .. n /\ m + i - 1 \in 1 .. Len(q)
  BY <1>2
<1>4. \A j \in m .. n : j - m + 1 \in 1 .. k /\ p[j - m + 1] = q[j]
  <2> SUFFICES ASSUME NEW j \in m .. n PROVE j - m + 1 \in 1 .. k /\ p[j - m + 1] = q[j]
    OBVIOUS
  <2>1. j - m + 1 \in 1 .. k
    OBVIOUS
  <2>2. m + (j - m + 1) - 1 = j
    OBVIOUS
  <2> QED  BY <1>1, <2>1, <2>2
<1> HIDE DEF p
<1>5. \A i \in 1 .. Len(p) : \E j \in m .. n : p[i] = q[j]
  BY <1>1, <1>3
<1>6. \A j \in m .. n : \E i \in 1 .. Len(p) : p[i] = q[j]
  BY <1>1, <1>4
<1>7. Ids(p) = {q[i].id : i \in m .. n}
  <2>1. Ids(p) \subseteq {q[i].id : i \in m .. n}
    BY <1>5, Zenon DEF Ids
  <2>2. {q[i].id : i \in m .. n} \subseteq Ids(p)
    BY <1>6, Zenon DEF Ids
  <2> QED  BY <2>1, <2>2
<1>8. Lids(p) = {q[i].lid : i \in m .. n}
  <2>1. Lids(p) \subseteq {q[i].lid : i \in m .. n}
    BY <1>5, Zenon DEF Lids
  <2>2. {q[i].lid : i \in m .. n} \subseteq Lids(p)
    BY <1>6, Zenon DEF Lids
  <2> QED  BY <2>1, <2>2
<1>9. ASSUME Chain(rs, q) PROVE Chain(rs, p)
  <2> SUFFICES ASSUME NEW i \in 1 .. k, NEW j \in 1 .. k, i < j
               PROVE  Before(rs, p[i].id, p[j].id)
    BY <1>1 DEF Chain
  <2>1. /\ m + i - 1 \in 1 .. Len(q) /\ m + j - 1 \in 1 .. Len(q)
        /\ p[i] = q[m + i - 1] /\ p[j] = q[m + j - 1]
    BY <1>1, <1>3
  <2>2. m + i - 1 < m + j - 1
    OBVIOUS
  <2> QED  BY <1>9, <2>1, <2>2 DEF Chain
<1> QED
  BY <1>1, <1>7, <1>8, <1>9 DEF p

(* A sequence split in two keeps its order across the cut. *)
LEMMA Cut ==
    ASSUME NEW q \in Seq(Items), NEW m \in Nat, NEW n \in Nat,
           m < n, n <= Len(q) + 1, NEW rs, Chain(rs, q)
    PROVE  AllBefore(rs, Ids(SubSeq(q, 1, m)), Ids(SubSeq(q, n, Len(q))))
<1>1. Len(q) \in Nat
  OBVIOUS
<1>2. /\ Ids(SubSeq(q, 1, m)) = {q[i].id : i \in 1 .. m}
      /\ Ids(SubSeq(q, n, Len(q))) = {q[i].id : i \in n .. Len(q)}
  <2>1. 1 \in Nat \ {0} /\ n \in Nat \ {0} /\ m <= Len(q) /\ Len(q) <= Len(q)
    BY <1>1
  <2>2. Ids(SubSeq(q, 1, m)) = {q[i].id : i \in 1 .. m}
    BY <2>1, Part, Zenon
  <2>3. Ids(SubSeq(q, n, Len(q))) = {q[i].id : i \in n .. Len(q)}
    BY <1>1, <2>1, Part, Zenon
  <2> QED  BY <2>2, <2>3
<1>3. ASSUME NEW i \in 1 .. m, NEW j \in n .. Len(q)
      PROVE  Before(rs, q[i].id, q[j].id)
  <2>1. i \in 1 .. Len(q) /\ j \in 1 .. Len(q) /\ i < j
    BY <1>1
  <2> QED  BY <2>1 DEF Chain
<1> QED
  BY <1>2, <1>3 DEF AllBefore

LEMMA Removed ==
    ASSUME NEW q \in Seq(Items), NEW k \in 1 .. Len(q), NEW rs
    PROVE  /\ RemoveAt(q, k) \in Seq(Items)
           /\ Ids(RemoveAt(q, k)) \subseteq Ids(q)
           /\ Lids(RemoveAt(q, k)) \subseteq Lids(q)
           /\ Chain(rs, q) => Chain(rs, RemoveAt(q, k)) /\ q[k].id \notin Ids(RemoveAt(q, k))
<1> DEFINE a == SubSeq(q, 1, k - 1)
           b == SubSeq(q, k + 1, Len(q))
<1>1. Len(q) \in Nat /\ k - 1 \in Nat /\ k - 1 <= Len(q) /\ k + 1 \in Nat \ {0}
      /\ k - 1 < k + 1 /\ k + 1 <= Len(q) + 1
  OBVIOUS
<1>2. /\ a \in Seq(Items) /\ b \in Seq(Items)
      /\ Ids(a) = {q[i].id : i \in 1 .. k - 1} /\ Ids(b) = {q[i].id : i \in k + 1 .. Len(q)}
      /\ Lids(a) = {q[i].lid : i \in 1 .. k - 1} /\ Lids(b) = {q[i].lid : i \in k + 1 .. Len(q)}
      /\ Chain(rs, q) => Chain(rs, a) /\ Chain(rs, b)
  <2>1. 1 \in Nat \ {0} /\ Len(q) <= Len(q)
    BY <1>1
  <2>2. /\ a \in Seq(Items) /\ Ids(a) = {q[i].id : i \in 1 .. k - 1}
        /\ Lids(a) = {q[i].lid : i \in 1 .. k - 1} /\ (Chain(rs, q) => Chain(rs, a))
    BY <1>1, <2>1, Part
  <2>3. /\ b \in Seq(Items) /\ Ids(b) = {q[i].id : i \in k + 1 .. Len(q)}
        /\ Lids(b) = {q[i].lid : i \in k + 1 .. Len(q)} /\ (Chain(rs, q) => Chain(rs, b))
    BY <1>1, <2>1, Part
  <2> QED  BY <2>2, <2>3
<1>3. Chain(rs, q) => AllBefore(rs, Ids(a), Ids(b))
  BY <1>1, Cut
<1> HIDE DEF a, b
<1>4. /\ a \o b \in Seq(Items)
      /\ Ids(a \o b) = Ids(a) \cup Ids(b)
      /\ Lids(a \o b) = Lids(a) \cup Lids(b)
      /\ Chain(rs, q) => Chain(rs, a \o b)
  BY <1>2, <1>3, Concatenated
<1>5. /\ \A i \in 1 .. k - 1 : i \in 1 .. Len(q)
      /\ \A i \in k + 1 .. Len(q) : i \in 1 .. Len(q)
  BY <1>1
<1>6. Ids(a) \subseteq Ids(q) /\ Ids(b) \subseteq Ids(q)
  BY <1>5, <1>2, Zenon DEF Ids
<1>7. Lids(a) \subseteq Lids(q) /\ Lids(b) \subseteq Lids(q)
  BY <1>5, <1>2, Zenon DEF Lids
<1>8. ASSUME Chain(rs, q)
      PROVE  q[k].id \notin Ids(a) \cup Ids(b)
  <2>1. \A i \in 1 .. k - 1 : i \in 1 .. Len(q) /\ i < k
    BY <1>1
  <2>2. \A i \in k + 1 .. Len(q) : i \in 1 .. Len(q) /\ k < i
    BY <1>1
  <2> QED  BY <1>2, <1>8, <2>1, <2>2 DEF Chain, Before
<1>9. RemoveAt(q, k) = a \o b
  BY DEF RemoveAt, a, b
<1> QED
  BY <1>4, <1>6, <1>7, <1>8, <1>9

(* The first of the positions with a localId. *)
LEMMA FirstHit ==
    ASSUME NEW q \in Seq(Items), NEW l, Hits(q, l) # {}
    PROVE  Min(Hits(q, l)) \in 1 .. Len(q)
<1>1. Hits(q, l) \subseteq Nat
  BY DEF Hits
<1>2. \E i \in Hits(q, l) : \A j \in Hits(q, l) : i <= j
  BY <1>1, MinExists, NoneAssumption
<1>3. Min(Hits(q, l)) \in Hits(q, l)
  BY <1>2 DEF Min
<1> QED
  BY <1>3 DEF Hits

(* What the queue is after a run of new items, which may drop what was there. *)
LEMMA Pushed ==
    ASSUME NEW q \in Seq(Items), NEW p \in Seq(Items), NEW rs
    PROVE  /\ PushAll(q, p) \in Seq(Items)
           /\ Ids(PushAll(q, p)) \subseteq Ids(q) \cup Ids(p)
           /\ Lids(PushAll(q, p)) \subseteq Lids(q) \cup Lids(p)
           /\ Chain(rs, q) /\ Chain(rs, p) /\ AllBefore(rs, Ids(q), Ids(p))
                 => Chain(rs, PushAll(q, p))
<1> DEFINE clears == {i \in 1 .. Len(p) : p[i].lid \in Isolating}
<1>1. CASE clears = {}
  <2>1. PushAll(q, p) = q \o p
    BY <1>1 DEF PushAll
  <2> QED  BY <2>1, Concatenated
<1>2. CASE clears # {}
  <2>1. clears \in SUBSET Nat /\ Len(p) \in Nat /\ \A n \in clears : n <= Len(p)
    OBVIOUS
  <2>2. \E m \in clears : \A n \in clears : n <= m
    <3> HIDE DEF clears
    <3> QED  BY <1>2, <2>1, MaxExists, NoneAssumption
  <2>3. Max(clears) \in clears
    <3>1. \E m \in clears : \A n \in clears : m >= n
      BY <2>1, <2>2
    <3> HIDE DEF clears
    <3> QED  BY <3>1 DEF Max
  <2>4. PICK m \in 1 .. Len(p) : PushAll(q, p) = SubSeq(p, m, Len(p))
    BY <1>2, <2>3 DEF PushAll
  <2>5. /\ SubSeq(p, m, Len(p)) \in Seq(Items)
        /\ Ids(SubSeq(p, m, Len(p))) = {p[i].id : i \in m .. Len(p)}
        /\ Lids(SubSeq(p, m, Len(p))) = {p[i].lid : i \in m .. Len(p)}
        /\ Chain(rs, p) => Chain(rs, SubSeq(p, m, Len(p)))
    <3>1. m \in Nat \ {0} /\ Len(p) \in Nat /\ Len(p) <= Len(p)
      BY <2>1
    <3> QED  BY <3>1, Part
  <2>6. \A i \in m .. Len(p) : i \in 1 .. Len(p)
    BY <2>1
  <2> QED  BY <2>4, <2>5, <2>6 DEF Ids, Lids
<1> QED
  BY <1>1, <1>2

-----------------------------------------------------------------------------
(* The kinds of the values the CLI and the network hold. *)
IsASeq(q) == \E S : q \in Seq(S)

StoredRow == {r \in Row : r.id \in 1 .. MaxRows}

DTypes ==
    /\ nextId \in 1 .. MaxRows + 1
    /\ lastSeen \in Nat /\ ready \in BOOLEAN
    /\ pending \in Seq(Items) /\ queue \in Seq(Items) /\ ran \in Seq(Items)
    /\ withdrawn \subseteq 1 .. MaxRows
    /\ fetch.st = "answered" => fetch.page \subseteq StoredRow /\ IsFiniteSet(fetch.page)
    /\ IsASeq(down) /\ IsASeq(up)
    /\ \A i \in 1 .. Len(down) : down[i].t = "message" => down[i].row \in StoredRow

LEMMA SeqAppend ==
    ASSUME NEW q, IsASeq(q), NEW x
    PROVE  /\ IsASeq(Append(q, x))
           /\ \A i \in 1 .. Len(Append(q, x)) :
                 (i \in 1 .. Len(q) /\ Append(q, x)[i] = q[i]) \/ Append(q, x)[i] = x
<1>1. PICK S : q \in Seq(S)
  BY DEF IsASeq
<1>2. q \in Seq(S \cup {x})
  BY <1>1
<1>3. Append(q, x) \in Seq(S \cup {x})
  BY <1>2
<1>4. IsASeq(Append(q, x))
  BY <1>3 DEF IsASeq
<1> QED
  BY <1>2, <1>4

LEMMA SeqTail ==
    ASSUME NEW q, IsASeq(q), q # <<>>
    PROVE  /\ IsASeq(Tail(q))
           /\ Head(q) = q[1] /\ 1 \in 1 .. Len(q)
           /\ \A i \in 1 .. Len(Tail(q)) : i + 1 \in 1 .. Len(q) /\ Tail(q)[i] = q[i + 1]
<1>1. PICK S : q \in Seq(S)
  BY DEF IsASeq
<1>2. Tail(q) \in Seq(S)
  BY <1>1
<1>3. IsASeq(Tail(q))
  BY <1>2 DEF IsASeq
<1> QED
  BY <1>1, <1>3

LEMMA SeqEmpty == IsASeq(<<>>) /\ Len(<<>>) = 0
BY DEF IsASeq

LEMMA SameRow == Store!Row = Row
BY DEF Store!Row, Row

(* The rows of the table are finitely many. *)
LEMMA FiniteRows ==
    ASSUME DInv
    PROVE  rows \subseteq Row /\ IsFiniteSet(rows)
<1>1. rows \subseteq Row
  BY SameRow DEF DInv, StoreInv, Store!TypeOK
<1> DEFINE f == [r \in rows |-> r.id]
           S == 1 .. nextId - 1
<1>2. IsFiniteSet(S)
  <2>1. 1 \in Int /\ nextId - 1 \in Int
    BY RowIds
  <2> QED  BY <2>1, FS_Interval
<1>3. f \in Injection(rows, S)
  <2>1. f \in [rows -> S]
    BY RowIds
  <2>2. \A a, b \in rows : f[a] = f[b] => a = b
    BY DEF DInv, StoreInv, Store!IdIdentifiesRow
  <2> QED  BY <2>1, <2>2 DEF Injection, IsInjective
<1>4. IsFiniteSet(rows)
  <2> HIDE DEF f, S
  <2> QED  BY <1>2, <1>3, FS_Injection
<1> QED
  BY <1>1, <1>4

(* The row a POST broadcasts is in the table. *)
LEMMA AddedIsRow ==
    ASSUME NEW l, rows' = AddMessage(rows, nextId, Sid, l, "user", "add")
    PROVE  Added(l) \in rows'
<1>1. CASE WithLocalId(rows, Sid, l) # {}
  <2>1. Added(l) \in WithLocalId(rows, Sid, l)
    BY <1>1 DEF Added
  <2> QED  BY <1>1, <2>1 DEF AddMessage, WithLocalId, RowsOf
<1>2. CASE WithLocalId(rows, Sid, l) = {}
  BY <1>2 DEF Added, AddMessage
<1> QED
  BY <1>1, <1>2

(* What the CLI does with rows: the items it keeps are those of unseen rows, *)
(* in the order of the rows.                                                 *)
Takes(page, items) ==
    /\ items \in Seq(Items)
    /\ lastSeen' \in Nat /\ lastSeen <= lastSeen' /\ \A r \in page : r.seq <= lastSeen'
    /\ \E users \in [1 .. Len(items) -> page] :
          /\ \A i \in 1 .. Len(items) : users[i].seq > lastSeen /\ items[i].id = users[i].id
          /\ \A i, j \in 1 .. Len(items) : i < j => users[i].seq < users[j].seq
    /\ queue' = IF ready THEN PushAll(queue, items) ELSE queue
    /\ pending' = IF ready THEN pending ELSE pending \o items

LEMMA HandleTakes ==
    ASSUME lastSeen \in Nat, NEW page \in SUBSET StoredRow, IsFiniteSet(page), HandleIncoming(page)
    PROVE  \E items : Takes(page, items)
<1> DEFINE us == {r \in Fresh(page) : IsUserRow(r)}
           seen == {lastSeen} \cup {r.seq : r \in Fresh(page)}
<1>1. \A r \in page : r.seq \in Nat /\ r.id \in 1 .. MaxRows /\ r.lid \in LocalIds \cup {None}
  BY DEF StoredRow, Row
<1>2. us \subseteq page /\ \A r \in us : r.seq > lastSeen
  BY DEF Fresh
<1>3. Cardinality(us) \in Nat
  <2>1. IsFiniteSet(us)
    BY <1>2, FS_Subset
  <2> QED  BY <2>1, FS_CardinalityType
<1>4. lastSeen' \in seen /\ \A n \in seen : n <= lastSeen'
  BY DEF HandleIncoming
<1>5. lastSeen' \in Nat /\ lastSeen <= lastSeen'
  BY <1>1, <1>4 DEF Fresh
<1>6. ASSUME NEW r \in page PROVE r.seq <= lastSeen'
  <2>1. CASE r.seq > lastSeen
    BY <1>4, <2>1 DEF Fresh
  <2>2. CASE ~(r.seq > lastSeen)
    BY <1>1, <1>5, <2>2
  <2> QED  BY <2>1, <2>2
<1>7. PICK users \in Ascending(us) :
         LET items == [i \in DOMAIN users |-> Item(users[i])]
         IN  /\ queue' = IF ready THEN PushAll(queue, items) ELSE queue
             /\ pending' = IF ready THEN pending ELSE pending \o items
  BY DEF HandleIncoming
<1> DEFINE items == [i \in DOMAIN users |-> Item(users[i])]
           n == Cardinality(us)
<1>8. /\ users \in [1 .. n -> us]
      /\ \A i, j \in 1 .. n : i < j => users[i].seq < users[j].seq
  BY <1>7 DEF Ascending
<1> HIDE DEF us, n
<1>9. \A i \in 1 .. n : users[i] \in page /\ users[i].seq > lastSeen
  BY <1>2, <1>8
<1>10. items \in Seq(Items) /\ Len(items) = n
  <2>1. \A i \in 1 .. n : Item(users[i]) \in Items
    BY <1>1, <1>9 DEF Item, Items
  <2>2. items = [i \in 1 .. n |-> Item(users[i])]
    BY <1>8
  <2> QED  BY <1>3, <2>1, <2>2 DEF n
<1>11. \A i \in 1 .. n : items[i].id = users[i].id
  BY <1>8 DEF Item
<1>12. users \in [1 .. n -> page]
  BY <1>8, <1>9
<1>13. /\ queue' = IF ready THEN PushAll(queue, items) ELSE queue
       /\ pending' = IF ready THEN pending ELSE pending \o items
  BY <1>7
<1> HIDE DEF items
<1> QED
  BY <1>5, <1>6, <1>8, <1>9, <1>10, <1>11, <1>12, <1>13 DEF Takes

(* How a step changes what the CLI has: it takes rows, hands over what waited, *)
(* withdraws an item, runs a batch, or none of these.                          *)
ClientSame == UNCHANGED <<ready, pending, queue, lastSeen, ran, withdrawn>>

TakesRows ==
    \E page, items :
        /\ \/ fetch.st = "answered" /\ page = fetch.page
           \/ /\ down # <<>> /\ Head(down).t = "message" /\ page = {Head(down).row}
        /\ Takes(page, items)
        /\ UNCHANGED <<rows, nextId, ready, ran, withdrawn, up>>

HandsOver ==
    /\ ~ready /\ ready' = TRUE /\ queue' = PushAll(queue, pending) /\ pending' = <<>>
    /\ UNCHANGED <<rows, nextId, lastSeen, ran, withdrawn, up>>

Withdraws ==
    /\ \/ queue' = queue /\ withdrawn' = withdrawn
       \/ \E k \in 1 .. Len(queue) :
             queue' = RemoveAt(queue, k) /\ withdrawn' = withdrawn \cup {queue[k].id}
    /\ UNCHANGED <<rows, nextId, ready, pending, lastSeen, ran>>
    /\ \E p : p.t = "ack" /\ up' = Append(up, p)

Runs ==
    /\ ready
    /\ \E n \in 1 .. Len(queue) :
          /\ queue' = SubSeq(queue, n + 1, Len(queue))
          /\ ran' = ran \o SubSeq(queue, 1, n)
          /\ EmitMessagesConsumed({queue[i].lid : i \in 1 .. n} \ {None})
    /\ UNCHANGED <<rows, nextId, ready, pending, lastSeen, withdrawn>>

LEMMA ClientStep ==
    ASSUME DInv, DTypes, [Next]_vars
    PROVE  ClientSame \/ TakesRows \/ HandsOver \/ Withdraws \/ Runs
<1>1. CASE ReceiveMessage
  <2>1. Head(down).row \in StoredRow
    BY <1>1, SeqTail DEF ReceiveMessage, DTypes
  <2>2. {Head(down).row} \in SUBSET StoredRow /\ IsFiniteSet({Head(down).row})
    BY <2>1, FS_Singleton
  <2>3. \E items : Takes({Head(down).row}, items)
    BY <1>1, <2>2, HandleTakes DEF ReceiveMessage, DTypes
  <2> QED  BY <1>1, <2>3 DEF ReceiveMessage, TakesRows, storeVars, historyVars
<1>2. CASE FetchDone
  <2>1. \E items : Takes(fetch.page, items)
    BY <1>2, HandleTakes DEF FetchDone, DTypes
  <2> QED  BY <1>2, <2>1 DEF FetchDone, TakesRows, storeVars, historyVars, netVars
<1>3. CASE RegisterCallbacks
  BY <1>3 DEF RegisterCallbacks, HandsOver, storeVars, historyVars, netVars
<1>4. CASE ReceiveCancel
  <2> DEFINE l == Head(down).lid
             a == [t |-> "ack", tab |-> Head(down).tab, id |-> Head(down).id,
                   removed |-> Hits(queue, l) # {}]
  <2>1. UNCHANGED <<rows, nextId, ready, pending, lastSeen, ran>>
    BY <1>4 DEF ReceiveCancel, storeVars
  <2>2. \E p : p.t = "ack" /\ up' = Append(up, p)
    <3>1. a.t = "ack" /\ up' = Append(up, a)
      BY <1>4 DEF ReceiveCancel
    <3> QED  BY <3>1
  <2>3. CASE Hits(queue, l) = {}
    BY <1>4, <2>1, <2>2, <2>3 DEF ReceiveCancel, CancelByLocalId, Withdraws
  <2>4. CASE Hits(queue, l) # {}
    <3>1. Min(Hits(queue, l)) \in 1 .. Len(queue)
      BY <2>4, FirstHit DEF DTypes
    <3> QED  BY <1>4, <2>1, <2>2, <2>4, <3>1 DEF ReceiveCancel, CancelByLocalId, Withdraws
  <2> QED  BY <2>3, <2>4
<1>5. CASE Consume
  <2>1. Len(queue) \in Nat /\ queue # <<>>
    BY <1>5 DEF DTypes, Consume
  <2>2. BatchLengths \subseteq 1 .. Len(queue)
    BY <2>1 DEF BatchLengths, DTypes
  <2> QED  BY <1>5, <2>2 DEF Consume, Runs, storeVars
<1>6. CASE UNCHANGED <<clientVars, ran, withdrawn>>
  BY <1>6 DEF ClientSame, clientVars
<1>7. CASE UNCHANGED <<ready, pending, queue, lastSeen, historyVars>>
  BY <1>7 DEF ClientSame, historyVars
<1> QED
  <2>1. CASE UNCHANGED vars
    BY <2>1, <1>6 DEF vars, historyVars
  <2>2. CASE WebRequest
    BY <2>2, <1>6 DEF WebRequest, PostBegin, PostStore, CancelOffline, CancelAsk, CancelTimeout,
                      historyVars
  <2>3. CASE HubHandler
    BY <2>3, <1>6, <1>7 DEF HubHandler, HubMessagesConsumed, HubSessionAlive, HubSessionEnd,
                            FetchServe, HubCancelAck, historyVars
  <2>4. CASE HubEvent
    BY <2>4, <1>6 DEF HubEvent, HubDisconnect, Expire, MergeIn, OldSessionMessage, OldSessionEnd, historyVars
  <2>5. CASE CliStep
    BY <2>5, <1>1, <1>2, <1>3, <1>4, <1>5, <1>6, <1>7
       DEF CliStep, FetchFail, Output, historyVars
  <2>6. CASE CliLife
    BY <2>6, <1>6, <1>7 DEF CliLife, Connect, Disconnect, SessionEnd, Exit, historyVars
  <2> QED  BY <2>1, <2>2, <2>3, <2>4, <2>5, <2>6 DEF Next

(* How a step changes what is on the network. *)
PacketsFrom ==
    /\ IsASeq(down') /\ IsASeq(up')
    /\ \A i \in 1 .. Len(down') :
          \/ \E j \in 1 .. Len(down) : down'[i] = down[j]
          \/ down'[i].t = "cancel"
          \/ down'[i].t = "message" /\ down'[i].row \in rows'
    /\ \A i \in 1 .. Len(up') :
          \/ \E j \in 1 .. Len(up) : up'[i] = up[j]
          \/ up'[i].t \in {"alive", "ack", "end"}
          \/ up'[i].t = "consumed" /\ up'[i].lids \subseteq Lids(ran')
    /\ fetch'.st = "answered" =>
          fetch' = fetch \/ (fetch'.page \subseteq rows /\ rows' = rows)

DownOld ==
    IsASeq(down') /\ \A i \in 1 .. Len(down') : \E j \in 1 .. Len(down) : down'[i] = down[j]

UpOld ==
    IsASeq(up') /\ \A i \in 1 .. Len(up') : \E j \in 1 .. Len(up) : up'[i] = up[j]

FetchOld == fetch'.st = "answered" => fetch' = fetch

LEMMA SameDown ==
    ASSUME DTypes, down' = down \/ down' = <<>> \/ (down # <<>> /\ down' = Tail(down))
    PROVE  DownOld
<1>1. IsASeq(down)
  BY DEF DTypes
<1>2. CASE down' = <<>>
  BY <1>2, SeqEmpty DEF DownOld
<1>3. CASE down' = down
  BY <1>1, <1>3 DEF DownOld
<1>4. CASE down # <<>> /\ down' = Tail(down)
  BY <1>1, <1>4, SeqTail DEF DownOld
<1> QED
  BY <1>2, <1>3, <1>4

LEMMA SameUp ==
    ASSUME DTypes, up' = up \/ up' = <<>> \/ (up # <<>> /\ up' = Tail(up))
    PROVE  UpOld
<1>1. IsASeq(up)
  BY DEF DTypes
<1>2. CASE up' = <<>>
  BY <1>2, SeqEmpty DEF UpOld
<1>3. CASE up' = up
  BY <1>1, <1>3 DEF UpOld
<1>4. CASE up # <<>> /\ up' = Tail(up)
  BY <1>1, <1>4, SeqTail DEF UpOld
<1> QED
  BY <1>2, <1>3, <1>4

LEMMA PacketStep ==
    ASSUME DInv, DTypes, [Next]_vars
    PROVE  PacketsFrom
<1>1. /\ down' = down \/ down' = <<>> \/ (down # <<>> /\ down' = Tail(down)) => DownOld
      /\ up' = up \/ up' = <<>> \/ (up # <<>> /\ up' = Tail(up)) => UpOld
      /\ fetch' = fetch \/ fetch' = NoFetch => FetchOld
  BY SameDown, SameUp DEF NoFetch, FetchOld
<1>2. DownOld /\ UpOld /\ FetchOld => PacketsFrom
  BY DEF PacketsFrom, DownOld, UpOld, FetchOld
<1>3. CASE \E t \in Tabs : PostStore(t)
  <2>1. PICK t \in Tabs : PostStore(t)
    BY <1>3
  <2> DEFINE x == [t |-> "message", row |-> Added(tab[t].lid)]
  <2>2. x.row \in rows'
    BY <2>1, AddedIsRow DEF PostStore
  <2>3. down' = down \/ down' = Append(down, x)
    BY <2>1 DEF PostStore, Broadcast
  <2>4. UpOld /\ FetchOld
    BY <1>1, <2>1 DEF PostStore, clientVars
  <2>5. CASE down' = down
    BY <1>1, <1>2, <2>4, <2>5
  <2>6. CASE down' = Append(down, x)
    <3>1. /\ IsASeq(down')
          /\ \A i \in 1 .. Len(down') : (i \in 1 .. Len(down) /\ down'[i] = down[i]) \/ down'[i] = x
      BY <2>6, SeqAppend DEF DTypes
    <3>2. x.t = "message"
      OBVIOUS
    <3> HIDE DEF x
    <3> QED  BY <2>2, <2>4, <3>1, <3>2 DEF PacketsFrom, DownOld, UpOld, FetchOld
  <2> QED  BY <2>3, <2>5, <2>6
<1>4. CASE \E t \in Tabs, l \in LocalIds : CancelAsk(t, l)
  <2>1. PICK x : x.t = "cancel" /\ (down' = down \/ down' = Append(down, x))
    <3>1. PICK t \in Tabs, l \in LocalIds :
             \E r : Broadcast([t |-> "cancel", tab |-> t, id |-> r.id, lid |-> l])
      BY <1>4 DEF CancelAsk
    <3>2. PICK r : Broadcast([t |-> "cancel", tab |-> t, id |-> r.id, lid |-> l])
      BY <3>1
    <3> DEFINE x == [t |-> "cancel", tab |-> t, id |-> r.id, lid |-> l]
    <3>3. x.t = "cancel" /\ (down' = down \/ down' = Append(down, x))
      BY <3>2 DEF Broadcast
    <3> QED  BY <3>3
  <2>2. UpOld /\ FetchOld
    BY <1>1, <1>4 DEF CancelAsk, clientVars
  <2>3. CASE down' = down
    BY <1>1, <1>2, <2>2, <2>3
  <2>4. CASE down' = Append(down, x)
    <3>1. /\ IsASeq(down')
          /\ \A i \in 1 .. Len(down') : (i \in 1 .. Len(down) /\ down'[i] = down[i]) \/ down'[i] = x
      BY <2>4, SeqAppend DEF DTypes
    <3> QED  BY <2>1, <2>2, <3>1 DEF PacketsFrom, DownOld, UpOld, FetchOld
  <2> QED  BY <2>1, <2>3, <2>4
<1>5. ASSUME NEW x, x.t \in {"alive", "ack", "end"}, up' = Append(up, x)
      PROVE  IsASeq(up') /\ \A i \in 1 .. Len(up') :
                \/ \E j \in 1 .. Len(up) : up'[i] = up[j]
                \/ up'[i].t \in {"alive", "ack", "end"}
  BY <1>5, SeqAppend DEF DTypes
<1>6. CASE Connect
  <2>1. DownOld /\ FetchOld
    BY <1>1, <1>6 DEF Connect, FetchOld
  <2>2. [t |-> "alive"].t = "alive" /\ up' = Append(up, [t |-> "alive"])
    BY <1>6 DEF Connect
  <2>3. IsASeq(up') /\ \A i \in 1 .. Len(up') :
           (\E j \in 1 .. Len(up) : up'[i] = up[j]) \/ up'[i].t \in {"alive", "ack", "end"}
    BY <1>5, <2>2
  <2> QED  BY <2>1, <2>3 DEF PacketsFrom, DownOld, UpOld, FetchOld
<1>7. CASE SessionEnd
  <2>1. DownOld /\ FetchOld
    BY <1>1, <1>7 DEF SessionEnd, clientVars
  <2>2. [t |-> "end"].t = "end" /\ up' = Append(up, [t |-> "end"])
    BY <1>7 DEF SessionEnd
  <2>3. IsASeq(up') /\ \A i \in 1 .. Len(up') :
           (\E j \in 1 .. Len(up) : up'[i] = up[j]) \/ up'[i].t \in {"alive", "ack", "end"}
    BY <1>5, <2>2
  <2> QED  BY <2>1, <2>3 DEF PacketsFrom, DownOld, UpOld, FetchOld
<1>8. CASE ReceiveCancel
  <2>1. DownOld /\ FetchOld
    BY <1>1, <1>8 DEF ReceiveCancel
  <2>2. PICK x : x.t = "ack" /\ up' = Append(up, x)
    <3> DEFINE x == [t |-> "ack", tab |-> Head(down).tab, id |-> Head(down).id,
                     removed |-> Hits(queue, Head(down).lid) # {}]
    <3>1. x.t = "ack" /\ up' = Append(up, x)
      BY <1>8 DEF ReceiveCancel
    <3> QED  BY <3>1
  <2>3. IsASeq(up') /\ \A i \in 1 .. Len(up') :
           (\E j \in 1 .. Len(up) : up'[i] = up[j]) \/ up'[i].t \in {"alive", "ack", "end"}
    BY <1>5, <2>2
  <2> QED  BY <2>1, <2>3 DEF PacketsFrom, DownOld, UpOld, FetchOld
<1>9. CASE Consume
  <2>1. DownOld /\ FetchOld
    BY <1>1, <1>9 DEF Consume
  <2>2. Len(queue) \in Nat /\ queue # <<>> /\ queue \in Seq(Items)
    BY <1>9 DEF DTypes, Consume
  <2>3. BatchLengths \subseteq 1 .. Len(queue)
    BY <2>2 DEF BatchLengths
  <2>4. PICK n \in 1 .. Len(queue) :
           /\ ran' = ran \o SubSeq(queue, 1, n)
           /\ EmitMessagesConsumed({queue[i].lid : i \in 1 .. n} \ {None})
    BY <1>9, <2>3 DEF Consume
  <2> DEFINE ls == {queue[i].lid : i \in 1 .. n} \ {None}
             x == [t |-> "consumed", lids |-> ls]
  <2>5. ls \subseteq Lids(ran')
    <3>1. n \in Nat /\ n <= Len(queue) /\ 1 \in Nat \ {0}
      BY <2>2
    <3>2. SubSeq(queue, 1, n) \in Seq(Items) /\ Lids(SubSeq(queue, 1, n)) = {queue[i].lid : i \in 1 .. n}
      BY <2>2, <3>1, Part
    <3>3. Lids(ran') = Lids(ran) \cup Lids(SubSeq(queue, 1, n))
      BY <2>4, <3>2, Concatenated DEF DTypes
    <3> QED  BY <3>2, <3>3
  <2>6. up' = up \/ up' = Append(up, x)
    BY <2>4 DEF EmitMessagesConsumed
  <2>7. CASE up' = up
    BY <1>1, <1>2, <2>1, <2>7
  <2>8. CASE up' = Append(up, x)
    <3>1. IsASeq(up') /\ \A i \in 1 .. Len(up') :
             (i \in 1 .. Len(up) /\ up'[i] = up[i]) \/ up'[i] = x
      BY <2>8, SeqAppend DEF DTypes
    <3>2. x.t = "consumed" /\ x.lids = ls
      OBVIOUS
    <3> HIDE DEF x, ls
    <3> QED  BY <2>1, <2>5, <3>1, <3>2 DEF PacketsFrom, DownOld, UpOld, FetchOld
  <2> QED  BY <2>6, <2>7, <2>8
<1>10. CASE FetchServe
  <2>1. DownOld /\ UpOld
    BY <1>1, <1>10 DEF FetchServe, netVars
  <2>2. fetch'.page \subseteq rows /\ rows' = rows
    BY <1>10 DEF FetchServe, GetMessagesAfter, RowsOf, storeVars
  <2> QED  BY <2>1, <2>2 DEF PacketsFrom, DownOld, UpOld, FetchOld
<1>11. CASE FetchDone
  <2>1. FetchOld
    BY <1>11 DEF FetchDone, NoFetch, FetchOld
  <2> QED  BY <1>1, <1>2, <1>11, <2>1 DEF FetchDone, netVars
<1> QED
  <2>1. CASE UNCHANGED vars
    BY <2>1, <1>1, <1>2 DEF vars, netVars, clientVars
  <2>2. CASE WebRequest
    BY <2>2, <1>1, <1>2, <1>3, <1>4
       DEF WebRequest, PostBegin, CancelOffline, CancelTimeout, netVars, clientVars
  <2>3. CASE HubHandler
    BY <2>3, <1>1, <1>2, <1>10 DEF HubHandler, HubMessagesConsumed, HubSessionAlive, HubSessionEnd,
                            HubCancelAck, Receive, clientVars
  <2>4. CASE HubEvent
    BY <2>4, <1>1, <1>2
       DEF HubEvent, HubDisconnect, Expire, MergeIn, OldSessionMessage, OldSessionEnd, netVars, clientVars
  <2>5. CASE CliStep
    BY <2>5, <1>1, <1>2, <1>8, <1>9, <1>11
       DEF CliStep, ReceiveMessage, FetchFail, RegisterCallbacks, Output, netVars, clientVars
  <2>6. CASE CliLife
    BY <2>6, <1>1, <1>2, <1>6, <1>7 DEF CliLife, Disconnect, Exit, clientVars
  <2> QED  BY <2>1, <2>2, <2>3, <2>4, <2>5, <2>6 DEF Next

LEMMA StepKeepsDTypes ==
    ASSUME DInv, DTypes, DInv', [Next]_vars
    PROVE  DTypes'
<1>0. nextId' \in 1 .. MaxRows + 1
  <2>1. CASE Adds
    BY <2>1, DeliveryAssumption DEF Adds, DTypes
  <2> QED  BY <2>1, StepShape DEF Marks, Deletes, Merges, MergeIn, Leaves, DTypes
<1>1. rows \subseteq StoredRow /\ IsFiniteSet(rows) /\ rows' \subseteq StoredRow
  <2>1. \A r \in rows : r.id \in 1 .. nextId - 1
    BY RowIds
  <2>2. \A r \in rows' : r \in Row /\ r.id \in Nat \ {0} /\ r.id < nextId'
    BY SameRow DEF DInv, StoreInv, Store!TypeOK, Store!IdIdentifiesRow, Row
  <2> QED  BY <1>0, <2>1, <2>2, FiniteRows, DeliveryAssumption DEF DTypes, StoredRow
<1>2. PacketsFrom
  BY PacketStep
<1>3. \A i \in 1 .. Len(down') : down'[i].t = "message" => down'[i].row \in StoredRow
  BY <1>1, <1>2 DEF PacketsFrom, DTypes
<1>4. ASSUME fetch'.st = "answered" PROVE fetch'.page \subseteq StoredRow /\ IsFiniteSet(fetch'.page)
  <2>1. CASE fetch' = fetch
    BY <1>4, <2>1 DEF DTypes
  <2>2. CASE fetch'.page \subseteq rows
    BY <1>1, <2>2, FS_Subset
  <2> QED  BY <1>2, <1>4, <2>1, <2>2 DEF PacketsFrom
<1> DEFINE client == /\ lastSeen' \in Nat /\ ready' \in BOOLEAN
                     /\ pending' \in Seq(Items) /\ queue' \in Seq(Items) /\ ran' \in Seq(Items)
                     /\ withdrawn' \subseteq 1 .. MaxRows
<1>5. client
  <2>1. CASE ClientSame
    BY <2>1 DEF ClientSame, DTypes
  <2>2. CASE TakesRows
    <3>1. PICK page, items : Takes(page, items) /\ UNCHANGED <<ready, ran, withdrawn>>
      BY <2>2 DEF TakesRows
    <3>2. items \in Seq(Items) /\ lastSeen' \in Nat
      BY <3>1 DEF Takes
    <3>3. PushAll(queue, items) \in Seq(Items) /\ pending \o items \in Seq(Items)
      BY <3>2, Pushed, Concatenated DEF DTypes
    <3> QED  BY <3>1, <3>2, <3>3 DEF Takes, DTypes
  <2>3. CASE HandsOver
    <3>1. PushAll(queue, pending) \in Seq(Items)
      BY Pushed DEF DTypes
    <3> QED  BY <2>3, <3>1, EmptyItems DEF HandsOver, DTypes
  <2>4. CASE Withdraws
    <3>1. \A k \in 1 .. Len(queue) : RemoveAt(queue, k) \in Seq(Items)
      BY Removed DEF DTypes
    <3>2. \A k \in 1 .. Len(queue) : queue[k].id \in 1 .. MaxRows
      BY ItemIds DEF DTypes
    <3> QED  BY <2>4, <3>1, <3>2 DEF Withdraws, DTypes
  <2>5. CASE Runs
    <3>1. PICK n \in 1 .. Len(queue) :
             queue' = SubSeq(queue, n + 1, Len(queue)) /\ ran' = ran \o SubSeq(queue, 1, n)
      BY <2>5 DEF Runs
    <3>2. queue' \in Seq(Items) /\ SubSeq(queue, 1, n) \in Seq(Items)
      BY <3>1 DEF DTypes
    <3>3. ran' \in Seq(Items)
      BY <3>1, <3>2, Concatenated DEF DTypes
    <3> QED  BY <2>5, <3>2, <3>3 DEF Runs, DTypes
  <2> QED  BY <2>1, <2>2, <2>3, <2>4, <2>5, ClientStep
<1> QED
  BY <1>0, <1>2, <1>3, <1>4, <1>5 DEF DTypes, PacketsFrom

-----------------------------------------------------------------------------
(* 'ack' is stamped only on rows of the session, and only for localIds the   *)
(* agent got: so is every acknowledgement still on its way.                  *)
AckedWasRunFor(lids) ==
    /\ \A r \in rows : /\ r.created = "add"
                       /\ r.invoked = "ack" => r.sid = Sid /\ r.lid \in lids
    /\ \A i \in 1 .. Len(up) : up[i].t = "consumed" => up[i].lids \subseteq lids

AckInv == AckedWasRunFor(Lids(ran))

LEMMA LidsGrow ==
    ASSUME DTypes, ClientSame \/ TakesRows \/ HandsOver \/ Withdraws \/ Runs
    PROVE  Lids(ran) \subseteq Lids(ran')
<1>1. CASE ran' = ran
  BY <1>1
<1>2. CASE Runs
  <2>1. PICK n \in 1 .. Len(queue) : ran' = ran \o SubSeq(queue, 1, n)
    BY <1>2 DEF Runs
  <2>2. SubSeq(queue, 1, n) \in Seq(Items)
    BY DEF DTypes
  <2> QED  BY <2>1, <2>2, Concatenated DEF DTypes
<1> QED
  BY <1>1, <1>2 DEF ClientSame, TakesRows, HandsOver, Withdraws

LEMMA StepKeepsAckInv ==
    ASSUME DInv, DTypes, AckInv, [Next]_vars
    PROVE  AckInv'
<1> DEFINE L == Lids(ran)
<1>1. L \subseteq Lids(ran')
  BY ClientStep, LidsGrow
<1>2. \A i \in 1 .. Len(up') : up'[i].t = "consumed" => up'[i].lids \subseteq Lids(ran')
  BY <1>1, PacketStep DEF PacketsFrom, AckInv, AckedWasRunFor
<1>3. \A r \in rows : r \in Row /\ r.created = "add" /\ (r.invoked = "ack" => r.sid = Sid /\ r.lid \in L)
  BY FiniteRows DEF AckInv, AckedWasRunFor
<1> DEFINE fine(r) == r.created = "add" /\ (r.invoked = "ack" => r.sid = Sid /\ r.lid \in L)
<1>4. \A r \in rows' : fine(r)
  <2>1. CASE Adds
    <3>1. PICK s \in Sessions, l \in LocalIds \cup {None}, c \in Contents :
             rows' = AddMessage(rows, nextId, s, l, c, "add")
      BY <2>1 DEF Adds
    <3>2. \A r \in rows' : r \in rows \/ r = NewRow(rows, nextId, s, l, c, "add")
      BY <3>1 DEF AddMessage
    <3>3. fine(NewRow(rows, nextId, s, l, c, "add"))
      <4>1. None # "ack"
        BY Constants, NoneAssumption
      <4> QED  BY <4>1 DEF NewRow
    <3> QED  BY <1>3, <3>2, <3>3
  <2>2. CASE Marks
    <3>1. PICK s \in Sessions, lids \in SUBSET LocalIds, now \in Times :
             /\ rows' = MarkInvoked(rows, s, lids, now)
             /\ now = "ack" => s = Sid /\ lids \subseteq L
      BY <2>2 DEF Marks, AckInv, AckedWasRunFor
    <3>2. \A r \in rows : LET q == IF r.sid = s /\ r.lid \in lids /\ Queued(r)
                                     THEN [r EXCEPT !.invoked = now] ELSE r
                          IN  fine(q)
      BY <1>3, <3>1 DEF Row
    <3> QED  BY <3>1, <3>2 DEF MarkInvoked
  <2>3. CASE Deletes
    BY <1>3, <2>3 DEF Deletes, DeleteQueued
  <2>4. CASE Merges
    <3>1. PICK s \in Sessions \ {Sid} : rows' = {Merged(rows, s, Sid, r) : r \in rows}
      BY <2>4 DEF Merges, MergeIn, MergeSessionMessages
    <3>2. \A r \in rows : fine(Merged(rows, s, Sid, r))
      <4> SUFFICES ASSUME NEW r \in rows PROVE fine(Merged(rows, s, Sid, r))
        OBVIOUS
      <4>1. r \in Row /\ fine(r)
        BY <1>3
      <4>2. CASE r.sid = Sid
        BY <4>1, <4>2 DEF Merged, Renumbered, Row
      <4>3. CASE r.sid = s /\ r.lid \in CollidingLids(rows, s, Sid)
        BY <4>1, <4>3 DEF Merged, Row
      <4>4. CASE r.sid = s /\ r.lid \notin CollidingLids(rows, s, Sid)
        BY <4>1, <4>4 DEF Merged, Row
      <4>5. CASE r.sid # s /\ r.sid # Sid
        BY <4>1, <4>5 DEF Merged
      <4> QED  BY <4>2, <4>3, <4>4, <4>5
    <3> QED  BY <3>1, <3>2
  <2>5. CASE Leaves
    BY <1>3, <2>5 DEF Leaves
  <2> QED  BY <2>1, <2>2, <2>3, <2>4, <2>5, StepShape
<1> QED
  BY <1>1, <1>2, <1>4 DEF AckInv, AckedWasRunFor

LEMMA InitTypes == Init => DTypes /\ AckInv
<1> SUFFICES ASSUME Init PROVE DTypes /\ AckInv
  OBVIOUS
<1>1. DTypes
  <2>1. <<>> \in Seq(Items)
    BY EmptyItems
  <2>2. fetch.st = "none"
    BY DEF Init, NoFetch
  <2>3. \A i \in 1 .. Len(down) : FALSE
    BY SeqEmpty DEF Init
  <2>4. nextId \in 1 .. MaxRows + 1
    BY DeliveryAssumption DEF Init
  <2> QED  BY <2>1, <2>2, <2>3, <2>4, SeqEmpty DEF Init, DTypes
<1>2. AckInv
  BY SeqEmpty DEF Init, AckInv, AckedWasRunFor
<1> QED
  BY <1>1, <1>2

(* The inductive invariant with what is on its way. *)
THEOREM AckInvariance == Spec => [](DInv /\ DTypes /\ AckInv)
<1>1. Init => DInv /\ DTypes /\ AckInv
  BY InitDInv, InitTypes
<1>2. ASSUME DInv, DTypes, AckInv, [Next]_vars PROVE DInv' /\ DTypes' /\ AckInv'
  BY <1>2, StepKeepsDInv, StepKeepsDTypes, StepKeepsAckInv
<1> QED
  BY <1>1, <1>2, PTL DEF Spec

(***************************************************************************)
(* A row shows as taken by the agent only if the agent got a message with  *)
(* that localId, whatever is re-sent, cancelled, merged, ended or lost on  *)
(* the way (messages-consumed in sessionHandlers.ts).                      *)
(***************************************************************************)
THEOREM AcknowledgedWasRun == Spec => []AckedWasRun
<1>1. AckInv => AckedWasRun
  BY DEF AckInv, AckedWasRunFor, AckedWasRun, Lids
<1> QED
  BY <1>1, AckInvariance, PTL
-----------------------------------------------------------------------------
(* The rest of the type invariant: what the hub and the network hold. *)
PTypes ==
    /\ active \in BOOLEAN /\ room \subseteq 1 .. MaxConns
    /\ \A t \in Tabs : tab[t].st \in {"idle", "posting", "cancelling"}
    /\ \A i \in 1 .. Len(down) : down[i].t \in {"message", "cancel"}
    /\ \A i \in 1 .. Len(up) : up[i].t \in {"alive", "consumed", "ack", "end"}
    /\ cli \in {"running", "ending", "gone"}
    /\ conns \in 0 .. MaxConns /\ conn \in {0, conns}
    /\ fetch.st \in {"none", "asked", "answered"}

(* The fields of PTypes that are not sequences, one conjunct per group. *)
HubTypes == active' \in BOOLEAN /\ room' \subseteq 1 .. MaxConns
TabTypes == \A t \in Tabs : tab'[t].st \in {"idle", "posting", "cancelling"}
ConnTypes == cli' \in {"running", "ending", "gone"} /\ conns' \in 0 .. MaxConns /\ conn' \in {0, conns'}
FetchTypes == fetch'.st \in {"none", "asked", "answered"}

LEMMA StepKeepsPTypes ==
    ASSUME DInv, DTypes, PTypes, [Next]_vars
    PROVE  PTypes'
<1>1. /\ \A i \in 1 .. Len(down') : down'[i].t \in {"message", "cancel"}
      /\ \A i \in 1 .. Len(up') : up'[i].t \in {"alive", "consumed", "ack", "end"}
  BY PacketStep DEF PacketsFrom, PTypes
<1>2. /\ UNCHANGED <<active, room>> => HubTypes
      /\ UNCHANGED tab => TabTypes
      /\ UNCHANGED <<cli, conn, conns>> => ConnTypes
      /\ UNCHANGED fetch \/ fetch' = NoFetch => FetchTypes
  <2>1. UNCHANGED <<active, room>> => HubTypes
    BY DEF PTypes, HubTypes
  <2>2. UNCHANGED tab => TabTypes
    BY DEF PTypes, TabTypes
  <2>3. UNCHANGED <<cli, conn, conns>> => ConnTypes
    BY DEF PTypes, ConnTypes
  <2>4. UNCHANGED fetch \/ fetch' = NoFetch => FetchTypes
    BY DEF PTypes, FetchTypes, NoFetch
  <2> QED  BY <2>1, <2>2, <2>3, <2>4
<1>3. ASSUME NEW t \in Tabs, tab' = [tab EXCEPT ![t] = Idle] PROVE TabTypes
  BY <1>3 DEF PTypes, TabTypes, DInv, Idle
<1>4. CASE \E t \in Tabs, l \in LocalIds \cup {None} : PostBegin(t, l)
  <2>1. TabTypes
    BY <1>4 DEF PostBegin, PTypes, TabTypes, DInv
  <2> QED  BY <1>1, <1>2, <1>4, <2>1 DEF PostBegin, connVars, clientVars,
           PTypes, HubTypes, TabTypes, ConnTypes, FetchTypes
<1>5. CASE \E t \in Tabs, l \in LocalIds : CancelAsk(t, l)
  <2>1. TabTypes
    BY <1>5 DEF CancelAsk, PTypes, TabTypes, DInv
  <2> QED  BY <1>1, <1>2, <1>5, <2>1 DEF CancelAsk, connVars, clientVars,
           PTypes, HubTypes, TabTypes, ConnTypes, FetchTypes
<1>6. CASE \E t \in Tabs : PostStore(t) \/ CancelTimeout(t)
  <2>1. TabTypes
    BY <1>3, <1>6 DEF PostStore, CancelTimeout, Settle
  <2> QED  BY <1>1, <1>2, <1>6, <2>1 DEF PostStore, CancelTimeout, connVars, clientVars,
           PTypes, HubTypes, TabTypes, ConnTypes, FetchTypes
<1>7. CASE \E t \in Tabs : HubCancelAck(t)
  <2>1. PICK t \in Tabs : HubCancelAck(t)
    BY <1>7
  <2>2. TabTypes
    <3>1. CASE UNCHANGED tab
      BY <1>2, <3>1
    <3>2. CASE tab' = [tab EXCEPT ![t] = Idle]
      BY <1>3, <3>2
    <3>3. ASSUME NEW removed, NEW asked, tab[t].st = "cancelling",
                 tab' = [tab EXCEPT ![t].removed = removed, ![t].asked = asked]
          PROVE  TabTypes
      <4>1. DOMAIN tab = Tabs /\ "st" \in DOMAIN tab[t]
        BY <3>3 DEF DInv, TabOK
      <4>2. \A u \in Tabs : tab'[u].st = tab[u].st
        BY <3>3, <4>1
      <4> QED  BY <4>2 DEF PTypes, TabTypes
    <3>4. PICK p :
             \/ UNCHANGED tab
             \/ tab' = [tab EXCEPT ![t] = Idle]
             \/ /\ tab[t].st = "cancelling"
                /\ tab' = [tab EXCEPT ![t].removed = tab[t].removed \/ p.removed,
                                      ![t].asked = tab[t].asked \ {conn}]
      BY <2>1 DEF HubCancelAck, Settle
    <3> QED  BY <3>1, <3>2, <3>3, <3>4
  <2> QED  BY <1>1, <1>2, <1>7, <2>2 DEF HubCancelAck, connVars, clientVars, PTypes, HubTypes,
                                         TabTypes, ConnTypes, FetchTypes
<1>8. CASE Connect
  <2>1. ConnTypes
    BY <1>8, DeliveryAssumption DEF Connect, PTypes, ConnTypes
  <2>2. HubTypes
    BY <1>8, DeliveryAssumption DEF Connect, PTypes, HubTypes
  <2>3. FetchTypes
    BY <1>8 DEF Connect, PTypes, FetchTypes
  <2> QED  BY <1>1, <1>2, <1>8, <2>1, <2>2, <2>3 DEF Connect,
           PTypes, HubTypes, TabTypes, ConnTypes, FetchTypes
<1>9. CASE Disconnect \/ SessionEnd \/ Exit
  <2>1. ConnTypes
    BY <1>9, DeliveryAssumption DEF Disconnect, SessionEnd, Exit, PTypes, ConnTypes
  <2> QED  BY <1>1, <1>2, <1>9, <2>1 DEF Disconnect, SessionEnd, Exit, hubVars, clientVars, PTypes,
                                         HubTypes, TabTypes, ConnTypes, FetchTypes
<1>10. CASE HubSessionAlive \/ HubSessionEnd \/ Expire \/ \E c \in room : HubDisconnect(c)
  <2>1. HubTypes
    BY <1>10 DEF HubSessionAlive, HubSessionEnd, Expire, HubDisconnect, PTypes, HubTypes
  <2> QED  BY <1>1, <1>2, <1>10, <2>1 DEF HubSessionAlive, HubSessionEnd, Expire, HubDisconnect, connVars,
                     clientVars, PTypes, HubTypes, TabTypes, ConnTypes, FetchTypes
<1>11. CASE FetchServe \/ FetchDone \/ FetchFail
  <2>1. FetchTypes
    BY <1>11 DEF FetchServe, FetchDone, FetchFail, NoFetch, FetchTypes
  <2> QED  BY <1>1, <1>2, <1>11, <2>1 DEF FetchServe, FetchDone, FetchFail, hubVars, connVars, PTypes,
                                          HubTypes, TabTypes, ConnTypes, FetchTypes
<1>12. CASE UNCHANGED <<hubVars, connVars, fetch>>
  BY <1>1, <1>2, <1>12 DEF hubVars, connVars, PTypes, HubTypes, TabTypes, ConnTypes, FetchTypes
<1> QED
  <2>1. CASE UNCHANGED vars
    BY <2>1, <1>12 DEF vars, clientVars
  <2>2. CASE WebRequest
    BY <2>2, <1>4, <1>5, <1>6, <1>12 DEF WebRequest, CancelOffline, clientVars
  <2>3. CASE HubHandler
    BY <2>3, <1>7, <1>10, <1>11, <1>12 DEF HubHandler, HubMessagesConsumed, clientVars
  <2>4. CASE HubEvent
    BY <2>4, <1>10, <1>12 DEF HubEvent, MergeIn, OldSessionMessage, OldSessionEnd,
                                   clientVars
  <2>5. CASE CliStep
    BY <2>5, <1>11, <1>12
       DEF CliStep, ReceiveMessage, ReceiveCancel, RegisterCallbacks, Consume, Output, clientVars
  <2>6. CASE CliLife
    BY <2>6, <1>8, <1>9 DEF CliLife
  <2> QED  BY <2>1, <2>2, <2>3, <2>4, <2>5, <2>6 DEF Next

(***************************************************************************)
(* Every variable keeps its type: rows have the fields of the schema, ids  *)
(* and connections stay within the bounds, packets are of known kinds.     *)
(***************************************************************************)
THEOREM TypeCorrect == Spec => []TypeOK
<1>1. Init => DInv /\ DTypes /\ PTypes
  <2> SUFFICES ASSUME Init PROVE DInv /\ DTypes /\ PTypes
    OBVIOUS
  <2>1. \A i \in 1 .. Len(<<>>) : FALSE
    BY SeqEmpty
  <2>2. /\ \A i \in 1 .. Len(down) : FALSE
        /\ \A i \in 1 .. Len(up) : FALSE
    BY <2>1 DEF Init
  <2>3. \A t \in Tabs : tab[t].st = "idle"
    BY DEF Init, Idle
  <2>4. fetch.st = "none"
    BY DEF Init, NoFetch
  <2>5. PTypes
    <3>1. active \in BOOLEAN /\ room = {} /\ cli = "running" /\ conns = 0 /\ conn = 0
      BY DEF Init
    <3>2. conns \in 0 .. MaxConns
      BY <3>1, DeliveryAssumption
    <3> QED  BY <2>2, <2>3, <2>4, <3>1, <3>2 DEF PTypes
  <2> QED  BY <2>5, InitDInv, InitTypes
<1>2. ASSUME DInv, DTypes, PTypes, [Next]_vars PROVE DInv' /\ DTypes' /\ PTypes'
  BY <1>2, StepKeepsDInv, StepKeepsDTypes, StepKeepsPTypes
<1>3. ASSUME DInv, DTypes, PTypes PROVE TypeOK
  <2>1. \A i \in reported : i \in 1 .. MaxRows
    <3>1. nextId \in 1 .. MaxRows + 1 /\ \A i \in reported : i \in 1 .. nextId - 1
      BY <1>3 DEF DInv, DTypes
    <3> QED  BY <3>1, DeliveryAssumption
  <2>2. withdrawn \cup reported \subseteq 1 .. MaxRows
    BY <1>3, <2>1 DEF DTypes
  <2>3. rows \subseteq Row
    BY <1>3, FiniteRows
  <2> QED  BY <1>3, <2>2, <2>3 DEF DTypes, PTypes, TypeOK
<1> QED
  BY <1>1, <1>2, <1>3, PTL DEF Spec

-----------------------------------------------------------------------------
(* Order and at-most-once.  A merge gives the rows of the session new        *)
(* sequence numbers behind the CLI's back, so these hold of the behaviours   *)
(* in which no other session is merged in: no resume with history, and no    *)
(* duplicate session, while the CLI serves.                                  *)
NoMerge == [][\A s \in Sessions \ {Sid} : ~MergeIn(s)]_vars

(* The rows the CLI has yet to see or could see again. *)
Carried ==
    rows \cup {down[i].row : i \in {j \in 1 .. Len(down) : down[j].t = "message"}}
         \cup (IF fetch.st = "answered" THEN fetch.page ELSE {})

(* A sequence number is a row's for good. *)
CarriedOnce ==
    \A r \in Carried : r.id < nextId /\ \A q \in Carried : r.id = q.id => r.seq = q.seq

(* The ids of the items the CLI took: wherever their rows come from again,   *)
(* lastSeen turns them away.                                                 *)
Live == Ids(ran) \cup Ids(queue) \cup Ids(pending)

KnownSeen ==
    \A a \in Live \cup withdrawn : a < nextId /\ \A r \in Carried : r.id = a => r.seq <= lastSeen

ItemsInOrder ==
    /\ Chain(rows, ran) /\ Chain(rows, queue) /\ Chain(rows, pending)
    /\ AllBefore(rows, Ids(ran), Ids(queue))
    /\ ready => pending = <<>>
    /\ ~ready => queue = <<>> /\ ran = <<>>

OrderInv == CarriedOnce /\ KnownSeen /\ ItemsInOrder /\ withdrawn \cap Live = {}

(* c is a row that was carried before, as far as order goes. *)
WasCarried(c) == \E r \in Carried : r.id = c.id /\ r.seq = c.seq

LEMMA RowsCarried ==
    ASSUME DInv, [Next]_vars, ~Merges
    PROVE  /\ nextId' \in {nextId, nextId + 1}
           /\ \E n : \A c \in rows' :
                 \/ \E r \in rows : r.id = c.id /\ r.seq = c.seq
                 \/ c = n /\ n.id = nextId /\ nextId' = nextId + 1
<1>1. CASE Adds
  <2>1. PICK s \in Sessions, l \in LocalIds \cup {None}, c \in Contents :
           rows' = AddMessage(rows, nextId, s, l, c, "add") /\ nextId' = nextId + 1
    BY <1>1 DEF Adds
  <2> DEFINE n == NewRow(rows, nextId, s, l, c, "add")
  <2>2. n.id = nextId
    BY DEF NewRow
  <2>3. \A q \in rows' : q \in rows \/ q = n
    BY <2>1 DEF AddMessage
  <2> HIDE DEF n
  <2> QED  BY <2>1, <2>2, <2>3
<1>2. CASE Marks
  <2>1. PICK s \in Sessions, lids \in SUBSET LocalIds, now \in Times :
           rows' = MarkInvoked(rows, s, lids, now) /\ nextId' = nextId
    BY <1>2 DEF Marks
  <2>2. \A q \in rows' : \E r \in rows : q.id = r.id /\ q.seq = r.seq
    BY <2>1, FiniteRows DEF MarkInvoked, Row
  <2> QED  BY <2>1, <2>2
<1>3. CASE Deletes
  BY <1>3 DEF Deletes, DeleteQueued
<1>4. CASE Leaves
  BY <1>4 DEF Leaves
<1> QED
  BY <1>1, <1>2, <1>3, <1>4, StepShape

LEMMA CarriedFrom ==
    ASSUME DInv, DTypes, [Next]_vars, ~Merges
    PROVE  \E n : \A c \in Carried' :
              \/ WasCarried(c)
              \/ c = n /\ n.id = nextId /\ nextId' = nextId + 1
<1>1. PICK n : \A c \in rows' :
              \/ \E r \in rows : r.id = c.id /\ r.seq = c.seq
              \/ c = n /\ n.id = nextId /\ nextId' = nextId + 1
  BY RowsCarried
<1> DEFINE new(c) == c = n /\ n.id = nextId /\ nextId' = nextId + 1
<1>2. \A c \in rows' : WasCarried(c) \/ new(c)
  BY <1>1 DEF WasCarried, Carried
<1>3. PacketsFrom
  BY PacketStep
<1> HIDE DEF new
<1>4. ASSUME NEW i \in 1 .. Len(down'), down'[i].t = "message"
      PROVE  WasCarried(down'[i].row) \/ new(down'[i].row)
  <2>1. CASE \E j \in 1 .. Len(down) : down'[i] = down[j]
    BY <1>4, <2>1 DEF WasCarried, Carried
  <2>2. CASE down'[i].row \in rows'
    BY <1>2, <2>2
  <2> QED  BY <1>3, <1>4, <2>1, <2>2 DEF PacketsFrom
<1>5. ASSUME fetch'.st = "answered", NEW c \in fetch'.page
      PROVE  WasCarried(c)
  <2>1. CASE fetch' = fetch
    BY <1>5, <2>1 DEF WasCarried, Carried
  <2>2. CASE fetch'.page \subseteq rows
    BY <1>5, <2>2 DEF WasCarried, Carried
  <2> QED  BY <1>3, <1>5, <2>1, <2>2 DEF PacketsFrom
<1>6. \A c \in Carried' : WasCarried(c) \/ new(c)
  BY <1>2, <1>4, <1>5 DEF Carried
<1> QED
  BY <1>6 DEF new

(* Numbers of carried rows. *)
LEMMA CarriedNumbers ==
    ASSUME DInv, DTypes
    PROVE  \A r \in Carried : r.id \in Nat /\ r.seq \in Nat
BY FiniteRows DEF Carried, DTypes, StoredRow, Row

LEMMA CarriedOnceStep ==
    ASSUME DInv, DTypes, OrderInv, [Next]_vars, ~Merges
    PROVE  CarriedOnce'
<1>1. PICK n : \A c \in Carried' :
              \/ WasCarried(c)
              \/ c = n /\ n.id = nextId /\ nextId' = nextId + 1
  BY CarriedFrom
<1>2. nextId \in Nat /\ nextId' \in {nextId, nextId + 1}
  BY RowIds, RowsCarried
<1>3. \A c : WasCarried(c) => c.id \in Nat /\ c.id < nextId
  BY CarriedNumbers DEF WasCarried, OrderInv, CarriedOnce
<1>4. \A c, d : WasCarried(c) /\ WasCarried(d) /\ c.id = d.id => c.seq = d.seq
  BY DEF WasCarried, OrderInv, CarriedOnce
<1>5. \A c \in Carried' : c.id < nextId'
  BY <1>1, <1>2, <1>3
<1>6. \A c, d \in Carried' : c.id = d.id => c.seq = d.seq
  BY <1>1, <1>2, <1>3, <1>4
<1> QED
  BY <1>5, <1>6 DEF CarriedOnce

(* Known ids stay turned away, and their order stays, whatever the table     *)
(* does: their rows only go.                                                 *)
Kept(A) == \A a \in A : a < nextId /\ \A r \in Carried : r.id = a => r.seq <= lastSeen

LEMMA KeptStep ==
    ASSUME DInv, DTypes, [Next]_vars, ~Merges, NEW A, Kept(A), lastSeen' \in Nat,
           lastSeen <= lastSeen', \A a \in A : a \in Nat
    PROVE  \A a \in A : a < nextId' /\ \A r \in Carried' : r.id = a => r.seq <= lastSeen'
<1>1. PICK n : \A c \in Carried' :
              \/ WasCarried(c)
              \/ c = n /\ n.id = nextId /\ nextId' = nextId + 1
  BY CarriedFrom
<1>2. nextId \in Nat /\ nextId' \in {nextId, nextId + 1} /\ lastSeen \in Nat
  BY RowIds, RowsCarried DEF DTypes
<1> SUFFICES ASSUME NEW a \in A
             PROVE  a < nextId' /\ \A r \in Carried' : r.id = a => r.seq <= lastSeen'
  OBVIOUS
<1>3. a < nextId /\ \A r \in Carried : r.id = a => r.seq <= lastSeen
  BY DEF Kept
<1>4. ASSUME NEW r \in Carried', r.id = a
      PROVE  r.seq <= lastSeen'
  <2>1. WasCarried(r)
    BY <1>1, <1>2, <1>3, <1>4
  <2>2. PICK q \in Carried : q.id = r.id /\ q.seq = r.seq
    BY <2>1 DEF WasCarried
  <2>3. r.seq <= lastSeen /\ r.seq \in Nat
    BY <1>3, <1>4, <2>2, CarriedNumbers
  <2> QED  BY <1>2, <2>3
<1> QED
  BY <1>2, <1>3, <1>4

LEMMA BeforeStep ==
    ASSUME DInv, [Next]_vars, ~Merges, NEW a, NEW b, a \in Nat, b \in Nat,
           a < nextId, b < nextId, Before(rows, a, b)
    PROVE  Before(rows', a, b)
<1>1. PICK n : \A c \in rows' :
                 \/ \E r \in rows : r.id = c.id /\ r.seq = c.seq
                 \/ c = n /\ n.id = nextId /\ nextId' = nextId + 1
  BY RowsCarried
<1>2. nextId \in Nat
  BY RowIds
<1>3. \A c \in rows' : c.id \in {a, b} => \E r \in rows : r.id = c.id /\ r.seq = c.seq
  BY <1>1, <1>2
<1> QED
  BY <1>3 DEF Before

(* Items of rows the CLI had not seen come after everything it took. *)
LEMMA TakenItems ==
    ASSUME DInv, DTypes, OrderInv, NEW page, NEW items, page \subseteq Carried, Takes(page, items)
    PROVE  /\ Chain(rows, items)
           /\ AllBefore(rows, Live, Ids(items))
           /\ withdrawn \cap Ids(items) = {}
           /\ \A a \in Ids(items) :
                 a < nextId /\ \A r \in Carried : r.id = a => r.seq <= lastSeen'
<1>1. PICK users \in [1 .. Len(items) -> page] :
          /\ \A i \in 1 .. Len(items) : users[i].seq > lastSeen /\ items[i].id = users[i].id
          /\ \A i, j \in 1 .. Len(items) : i < j => users[i].seq < users[j].seq
  BY DEF Takes
<1>2. \A i \in 1 .. Len(items) : users[i] \in page /\ users[i] \in Carried
  BY <1>1
<1>3. \A r, q \in Carried : r.id = q.id => r.seq = q.seq
  BY DEF OrderInv, CarriedOnce
<1>4. rows \subseteq Carried
  BY DEF Carried
<1>5. ASSUME NEW a \in Live \cup withdrawn, NEW i \in 1 .. Len(items)
      PROVE  Before(rows, a, items[i].id)
  <2>1. \A r \in Carried : r.id = a => r.seq <= lastSeen
    BY <1>5 DEF OrderInv, KnownSeen
  <2>2. users[i].seq > lastSeen /\ users[i].seq \in Nat /\ lastSeen \in Nat
    BY <1>1, <1>2, CarriedNumbers DEF DTypes
  <2>3. a # items[i].id
    BY <1>1, <1>2, <2>1, <2>2
  <2>4. ASSUME NEW r \in rows, NEW q \in rows, r.id = a, q.id = items[i].id
        PROVE  r.seq < q.seq
    <3>1. r.seq <= lastSeen /\ r.seq \in Nat
      BY <1>4, <2>1, <2>4, CarriedNumbers
    <3>2. q.seq = users[i].seq
      BY <1>1, <1>2, <1>3, <1>4, <2>4
    <3> QED  BY <2>2, <3>1, <3>2
  <2> QED  BY <2>3, <2>4 DEF Before
<1>6. AllBefore(rows, Live, Ids(items)) /\ withdrawn \cap Ids(items) = {}
  BY <1>5 DEF AllBefore, Ids, Before
<1>7. ASSUME NEW i \in 1 .. Len(items), NEW j \in 1 .. Len(items), i < j
      PROVE  Before(rows, items[i].id, items[j].id)
  <2>1. /\ users[i].seq < users[j].seq /\ users[i].seq \in Nat /\ users[j].seq \in Nat
        /\ items[i].id = users[i].id /\ items[j].id = users[j].id
        /\ users[i] \in Carried /\ users[j] \in Carried
    BY <1>1, <1>2, <1>7, CarriedNumbers
  <2>2. items[i].id # items[j].id
    BY <1>3, <2>1
  <2>3. \A r, q \in rows : r.id = items[i].id /\ q.id = items[j].id => r.seq < q.seq
    BY <1>3, <1>4, <2>1
  <2> QED  BY <2>2, <2>3 DEF Before
<1>8. Chain(rows, items)
  BY <1>7 DEF Chain
<1>9. ASSUME NEW i \in 1 .. Len(items)
      PROVE  /\ items[i].id < nextId
             /\ \A r \in Carried : r.id = items[i].id => r.seq <= lastSeen'
  <2>1. users[i].seq <= lastSeen'
    BY <1>2 DEF Takes
  <2> QED  BY <1>1, <1>2, <1>3, <2>1 DEF OrderInv, CarriedOnce
<1> QED
  BY <1>6, <1>8, <1>9 DEF Ids

LEMMA KnownNumbers ==
    ASSUME DTypes
    PROVE  \A a \in Live \cup withdrawn : a \in Nat
<1>1. \A a \in Live : a \in 1 .. MaxRows
  BY ItemIds DEF DTypes, Live, Ids
<1>2. withdrawn \subseteq 1 .. MaxRows
  BY DEF DTypes
<1>3. \A a \in 1 .. MaxRows : a \in Nat
  OBVIOUS
<1> QED
  BY <1>1, <1>2, <1>3

LEMMA ChainStep ==
    ASSUME DInv, DTypes, OrderInv, [Next]_vars, ~Merges
    PROVE  /\ \A q : Chain(rows, q) /\ Ids(q) \subseteq Live => Chain(rows', q)
           /\ \A A, B : AllBefore(rows, A, B) /\ A \cup B \subseteq Live => AllBefore(rows', A, B)
<1>1. ASSUME NEW a \in Live, NEW b \in Live, Before(rows, a, b)
      PROVE  Before(rows', a, b)
  <2>1. a \in Nat /\ b \in Nat /\ a < nextId /\ b < nextId
    BY KnownNumbers DEF OrderInv, KnownSeen
  <2> QED  BY <1>1, <2>1, BeforeStep
<1> QED
  BY <1>1 DEF Chain, AllBefore, Ids

LEMMA StepKeepsOrderInv ==
    ASSUME DInv, DTypes, OrderInv, DTypes', [Next]_vars, ~Merges
    PROVE  OrderInv'
<1>1. CarriedOnce'
  BY CarriedOnceStep
<1>2. /\ pending \in Seq(Items) /\ queue \in Seq(Items) /\ ran \in Seq(Items)
      /\ lastSeen \in Nat /\ lastSeen' \in Nat
  BY DEF DTypes
<1>3. /\ Chain(rows, ran) /\ Chain(rows, queue) /\ Chain(rows, pending)
      /\ AllBefore(rows, Ids(ran), Ids(queue))
      /\ ready => pending = <<>>
      /\ ~ready => queue = <<>> /\ ran = <<>>
      /\ withdrawn \cap Live = {}
      /\ Kept(Live \cup withdrawn)
  BY DEF OrderInv, ItemsInOrder, KnownSeen, Kept
<1>4. ASSUME NEW A, A \subseteq Live \cup withdrawn, lastSeen <= lastSeen'
      PROVE  \A a \in A : a < nextId' /\ \A r \in Carried' : r.id = a => r.seq <= lastSeen'
  <2>1. Kept(A) /\ \A a \in A : a \in Nat
    BY <1>3, <1>4, KnownNumbers DEF Kept
  <2> QED  BY <1>2, <1>4, <2>1, KeptStep
<1>5. CASE ClientSame
  <2>1. UNCHANGED <<ready, pending, queue, lastSeen, ran, withdrawn>>
    BY <1>5 DEF ClientSame
  <2>2. KnownSeen'
    BY <1>2, <1>4, <2>1 DEF KnownSeen, Live
  <2>3. ItemsInOrder'
    BY <1>3, <2>1, ChainStep DEF ItemsInOrder, Live
  <2>4. (withdrawn \cap Live = {})'
    BY <1>3, <2>1 DEF Live
  <2> QED  BY <1>1, <2>2, <2>3, <2>4 DEF OrderInv
<1>6. CASE TakesRows
  <2>1. PICK page, items :
           /\ page \subseteq Carried /\ Takes(page, items)
           /\ UNCHANGED <<rows, nextId, ready, ran, withdrawn>>
    BY <1>6, SeqTail DEF TakesRows, Carried, DTypes
  <2>2. items \in Seq(Items) /\ lastSeen <= lastSeen'
    BY <2>1 DEF Takes
  <2>3. /\ Chain(rows, items) /\ AllBefore(rows, Live, Ids(items))
        /\ withdrawn \cap Ids(items) = {}
        /\ \A a \in Ids(items) :
              a < nextId /\ \A r \in Carried : r.id = a => r.seq <= lastSeen'
    BY <2>1, TakenItems
  <2>4. \A a \in Ids(items) :
           a < nextId' /\ \A r \in Carried' : r.id = a => r.seq <= lastSeen'
    <3>1. \A c \in Carried' : WasCarried(c)
      <4>1. nextId' # nextId + 1
        BY <2>1, RowIds
      <4> QED  BY <4>1, CarriedFrom
    <3> QED  BY <2>1, <2>3, <3>1 DEF WasCarried
  <2>5. CASE ready
    <3>1. queue' = PushAll(queue, items) /\ pending' = pending
      BY <2>1, <2>5 DEF Takes
    <3>2. AllBefore(rows, Ids(queue), Ids(items)) /\ AllBefore(rows, Ids(ran), Ids(items))
      BY <2>3 DEF AllBefore, Live
    <3>3. Ids(queue') \subseteq Ids(queue) \cup Ids(items) /\ Chain(rows, queue')
      BY <1>2, <1>3, <2>2, <2>3, <3>1, <3>2, Pushed
    <3>4. AllBefore(rows, Ids(ran), Ids(queue'))
      BY <1>3, <3>2, <3>3 DEF AllBefore
    <3>5. ItemsInOrder'
      BY <1>3, <2>1, <2>5, <3>1, <3>3, <3>4 DEF ItemsInOrder
    <3>6. Live' \subseteq Live \cup Ids(items)
      BY <2>1, <3>1, <3>3 DEF Live
    <3>7. KnownSeen'
      BY <1>4, <2>1, <2>2, <2>4, <3>6 DEF KnownSeen
    <3> QED  BY <1>1, <1>3, <2>1, <2>3, <3>5, <3>6, <3>7 DEF OrderInv
  <2>6. CASE ~ready
    <3>1. queue' = queue /\ pending' = pending \o items
      BY <2>1, <2>6 DEF Takes
    <3>2. AllBefore(rows, Ids(pending), Ids(items))
      BY <2>3 DEF AllBefore, Live
    <3>3. Ids(pending') = Ids(pending) \cup Ids(items) /\ Chain(rows, pending')
      BY <1>2, <1>3, <2>2, <2>3, <3>1, <3>2, Concatenated
    <3>5. ItemsInOrder'
      BY <1>3, <2>1, <2>6, <3>1, <3>3 DEF ItemsInOrder
    <3>6. Live' \subseteq Live \cup Ids(items)
      BY <2>1, <3>1, <3>3 DEF Live
    <3>7. KnownSeen'
      BY <1>4, <2>1, <2>2, <2>4, <3>6 DEF KnownSeen
    <3> QED  BY <1>1, <1>3, <2>1, <2>3, <3>5, <3>6, <3>7 DEF OrderInv
  <2> QED  BY <2>5, <2>6
<1>7. CASE HandsOver
  <2>1. /\ ~ready /\ ready' = TRUE /\ queue' = PushAll(queue, pending) /\ pending' = <<>>
        /\ UNCHANGED <<rows, nextId, lastSeen, ran, withdrawn>>
    BY <1>7 DEF HandsOver
  <2>2. queue = <<>> /\ ran = <<>> /\ Ids(queue) = {} /\ Ids(ran) = {} /\ Ids(pending') = {}
        /\ Chain(rows, pending')
    BY <1>3, <2>1, EmptyItems
  <2>3. AllBefore(rows, Ids(queue), Ids(pending))
    BY <2>2 DEF AllBefore
  <2>4. Ids(queue') \subseteq Ids(pending) /\ Chain(rows, queue')
    BY <1>2, <1>3, <2>1, <2>2, <2>3, Pushed
  <2>5. ItemsInOrder'
    BY <1>3, <2>1, <2>2, <2>4 DEF ItemsInOrder, AllBefore
  <2>6. Live' \subseteq Live
    BY <2>1, <2>2, <2>4 DEF Live
  <2>7. KnownSeen'
    BY <1>2, <1>4, <2>1, <2>6 DEF KnownSeen
  <2> QED  BY <1>1, <1>3, <2>1, <2>5, <2>6, <2>7 DEF OrderInv
<1>8. CASE Withdraws
  <2>1. UNCHANGED <<rows, nextId, ready, pending, lastSeen, ran>>
    BY <1>8 DEF Withdraws
  <2>2. CASE queue' = queue /\ withdrawn' = withdrawn
    <3>1. ClientSame
      BY <2>1, <2>2 DEF ClientSame
    <3> QED  BY <1>5, <3>1
  <2>3. CASE \E k \in 1 .. Len(queue) :
                queue' = RemoveAt(queue, k) /\ withdrawn' = withdrawn \cup {queue[k].id}
    <3>1. PICK k \in 1 .. Len(queue) :
             queue' = RemoveAt(queue, k) /\ withdrawn' = withdrawn \cup {queue[k].id}
      BY <2>3
    <3>2. queue[k].id \in Ids(queue) /\ queue # <<>>
      BY <1>2 DEF Ids
    <3>3. /\ Ids(queue') \subseteq Ids(queue) /\ Chain(rows, queue')
          /\ queue[k].id \notin Ids(queue')
      BY <1>2, <1>3, <3>1, Removed
    <3>4. ready /\ pending = <<>> /\ Ids(pending) = {}
      BY <1>3, <3>2, EmptyItems
    <3>5. queue[k].id \notin Ids(ran)
      BY <1>3, <3>2 DEF AllBefore, Before
    <3>6. ItemsInOrder'
      BY <1>3, <2>1, <3>3, <3>4 DEF ItemsInOrder, AllBefore
    <3>7. Live' \subseteq Live /\ Live' \cup withdrawn' \subseteq Live \cup withdrawn
      BY <2>1, <3>1, <3>2, <3>3 DEF Live
    <3>8. KnownSeen'
      BY <1>2, <1>4, <2>1, <3>7 DEF KnownSeen
    <3>9. (withdrawn \cap Live = {})'
      BY <1>3, <2>1, <3>1, <3>3, <3>4, <3>5, <3>7 DEF Live
    <3> QED  BY <1>1, <3>6, <3>8, <3>9 DEF OrderInv
  <2> QED  BY <1>8, <2>2, <2>3 DEF Withdraws
<1>9. CASE Runs
  <2>1. ready /\ UNCHANGED <<rows, nextId, ready, pending, lastSeen, withdrawn>>
    BY <1>9 DEF Runs
  <2>2. PICK n \in 1 .. Len(queue) :
           queue' = SubSeq(queue, n + 1, Len(queue)) /\ ran' = ran \o SubSeq(queue, 1, n)
    BY <1>9 DEF Runs
  <2> DEFINE b == SubSeq(queue, 1, n)
  <2>3. /\ Len(queue) \in Nat /\ n \in Nat /\ n <= Len(queue) /\ 1 \in Nat \ {0}
        /\ n + 1 \in Nat \ {0} /\ n + 1 \in Nat /\ n < n + 1 /\ n + 1 <= Len(queue) + 1
        /\ Len(queue) <= Len(queue)
    BY <1>2
  <2>4. /\ b \in Seq(Items) /\ Chain(rows, b)
        /\ Ids(b) = {queue[i].id : i \in 1 .. n}
    BY <1>2, <1>3, <2>3, Part
  <2>5. /\ Chain(rows, queue')
        /\ Ids(queue') = {queue[i].id : i \in n + 1 .. Len(queue)}
    BY <1>2, <1>3, <2>2, <2>3, Part
  <2>6. AllBefore(rows, Ids(b), Ids(queue'))
    BY <1>2, <1>3, <2>2, <2>3, Cut
  <2>7. Ids(b) \subseteq Ids(queue) /\ Ids(queue') \subseteq Ids(queue)
    <3>1. /\ \A i \in 1 .. n : i \in 1 .. Len(queue)
          /\ \A i \in n + 1 .. Len(queue) : i \in 1 .. Len(queue)
      BY <2>3
    <3> QED  BY <2>4, <2>5, <3>1, Zenon DEF Ids
  <2> HIDE DEF b
  <2>8. AllBefore(rows, Ids(ran), Ids(b))
    BY <1>3, <2>7 DEF AllBefore
  <2>9. Ids(ran') = Ids(ran) \cup Ids(b) /\ Chain(rows, ran')
    BY <1>2, <1>3, <2>2, <2>4, <2>8, Concatenated DEF b
  <2>10. ItemsInOrder'
    BY <1>3, <2>1, <2>5, <2>6, <2>7, <2>9 DEF ItemsInOrder, AllBefore
  <2>11. Live' \subseteq Live
    BY <2>1, <2>7, <2>9 DEF Live
  <2>12. KnownSeen'
    BY <1>2, <1>4, <2>1, <2>11 DEF KnownSeen
  <2> QED  BY <1>1, <1>3, <2>1, <2>10, <2>11, <2>12 DEF OrderInv
<1> QED
  BY <1>5, <1>6, <1>7, <1>8, <1>9, ClientStep

LEMMA InitOrder == Init => OrderInv
<1> SUFFICES ASSUME Init PROVE OrderInv
  OBVIOUS
<1>1. Carried = {}
  <2>1. rows = {} /\ Len(down) = 0 /\ fetch.st = "none"
    BY SeqEmpty DEF Init, NoFetch
  <2> QED  BY <2>1 DEF Carried
<1>2. Live = {} /\ withdrawn = {}
  BY EmptyItems DEF Init, Live
<1>3. ItemsInOrder
  BY EmptyItems DEF Init, ItemsInOrder, AllBefore
<1> QED
  BY <1>1, <1>2, <1>3 DEF OrderInv, CarriedOnce, KnownSeen

(* The inductive invariant, as long as nothing is merged in. *)
THEOREM OrderInvariance == Spec /\ NoMerge => [](DInv /\ DTypes /\ OrderInv)
<1> DEFINE Inv == DInv /\ DTypes /\ OrderInv
<1>1. Init => Inv
  BY InitDInv, InitTypes, InitOrder
<1>2. ASSUME Inv, [Next]_vars, [\A s \in Sessions \ {Sid} : ~MergeIn(s)]_vars
      PROVE  Inv'
  <2>1. DInv' /\ DTypes'
    BY <1>2, StepKeepsDInv, StepKeepsDTypes
  <2>2. CASE UNCHANGED vars
    <3>1. OrderInv'
      BY <1>2, <2>2 DEF vars, storeVars, hubVars, netVars, connVars, clientVars, historyVars,
                        OrderInv, CarriedOnce, KnownSeen, ItemsInOrder, Live, Carried
    <3> QED  BY <2>1, <3>1
  <2>3. CASE ~Merges
    BY <1>2, <2>1, <2>3, StepKeepsOrderInv
  <2> QED  BY <1>2, <2>2, <2>3 DEF Merges
<1> QED
  BY <1>1, <1>2, PTL DEF Spec, NoMerge

(***************************************************************************)
(* The agent gets a message at most once, however often it is broadcast    *)
(* again, kept while the CLI was not ready and backfilled                  *)
(* (handleIncomingMessage and backfillMessages in apiSession.ts), as long  *)
(* as no merge renumbers the session.                                      *)
(***************************************************************************)
THEOREM AtMostOnce == Spec /\ NoMerge => []RanAtMostOnce
<1>1. ASSUME DTypes, OrderInv PROVE RanAtMostOnce
  <2> SUFFICES ASSUME NEW i \in 1 .. Len(ran), NEW j \in 1 .. Len(ran), ran[i].id = ran[j].id
               PROVE  i = j
    BY DEF RanAtMostOnce
  <2>1. Chain(rows, ran)
    BY <1>1 DEF OrderInv, ItemsInOrder
  <2>2. ~(i < j) /\ ~(j < i)
    BY <2>1 DEF Chain, Before
  <2> QED  BY <2>2
<1> QED
  BY <1>1, OrderInvariance, PTL

(***************************************************************************)
(* The agent gets messages in the order of the table, live or backfilled,  *)
(* as long as no merge renumbers the session.                              *)
(***************************************************************************)
THEOREM InOrder == Spec /\ NoMerge => []RanInOrder
<1>1. ASSUME OrderInv PROVE RanInOrder
  BY <1>1 DEF OrderInv, ItemsInOrder, Chain, Before, RanInOrder
<1> QED
  BY <1>1, OrderInvariance, PTL

(***************************************************************************)
(* A message whose withdrawal the CLI confirmed never runs: no backfill,   *)
(* no second broadcast and no page under way brings it back                *)
(* (cancelByLocalId in MessageQueue2.ts), as long as no merge renumbers    *)
(* the session.                                                            *)
(***************************************************************************)
THEOREM WithdrawnForGood == Spec /\ NoMerge => []WithdrawnNeverRuns
<1>1. ASSUME OrderInv PROVE WithdrawnNeverRuns
  BY <1>1 DEF OrderInv, Live, Ids, WithdrawnNeverRuns, RanIds
<1> QED
  BY <1>1, OrderInvariance, PTL
=============================================================================
