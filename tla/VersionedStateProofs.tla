------------------------ MODULE VersionedStateProofs ------------------------
(***************************************************************************)
(* VersionedState implements AtomicUpdates and keeps the CLI's copy a      *)
(* stored value, for any number of updates, hub writes and breaks.         *)
(***************************************************************************)
EXTENDS VersionedState, FiniteSetTheorems, TLAPS

\* What carries a version carries the value that was stored at it.
Known(state) ==
    /\ state.version \in 1 .. Len(history)
    /\ state.value = history[state.version]

VersionsOK ==
    /\ Len(history) = stored.version
    /\ history[stored.version] = stored.value
    /\ stored.version > 0
    /\ Known(copy)
    /\ \A r \in up \cup late :
          /\ r.expected \in 1 .. copy.version
          /\ r.value = Append(history[r.expected], r.update)

\* Events come in the order of the versions they carry, none older than the copy.
EventsOK ==
    /\ \A i \in 1 .. Len(down) : Known(down[i].state) /\ copy.version <= down[i].state.version
    /\ \A i, j \in 1 .. Len(down) : i < j => down[i].state.version <= down[j].state.version

\* The updates that were called: done, then the holder of the lock, then those that wait.
Holding == {"woken", "inside", "sent"}
Turn == Len(calls) - Len(resolvers)
LockOK ==
    /\ Turn \in Nat
    /\ \A i \in 1 .. Len(resolvers) : resolvers[i] = calls[Turn + i]
    /\ \A i \in 1 .. Len(calls) :
          /\ i < Turn => stage[calls[i]] = "done"
          /\ i = Turn => IF permits = 0 THEN stage[calls[i]] \in Holding ELSE stage[calls[i]] = "done"
          /\ i > Turn => stage[calls[i]] = "waiting"
    /\ permits = 0 => Turn > 0
    /\ permits = 1 => resolvers = <<>>
    /\ \A i, j \in 1 .. Len(calls) : calls[i] = calls[j] => i = j
    /\ \A u \in Updates : stage[u] # "idle" <=> \E i \in 1 .. Len(calls) : calls[i] = u

\* One request or one answer is under way for the update that waits for it.
RequestsOK ==
    /\ \A r \in up : stage[r.update] = "sent"
    /\ \A r, q \in up : r = q
    /\ \A i \in 1 .. Len(down) : down[i].kind \in Answers =>
          /\ up = {}
          /\ \E u \in Updates : stage[u] = "sent"
          /\ \A j \in 1 .. Len(down) : down[j].kind \in Answers => i = j
    /\ \A r \in late : stage[r.update] \in {"inside", "sent", "done"}

\* A request of an old connection cannot match once its update is done.
LateOK ==
    /\ \A r \in late, q \in up : r.expected <= q.expected
    /\ \A i \in 1 .. Len(down) : down[i].kind = "success" =>
          \A r \in late : r.expected < down[i].state.version
    /\ \A r \in late : stage[r.update] = "done" => r.expected < stored.version

\* What is done is stored, and what has not begun is not.
StoredOK ==
    /\ \A u \in Updates : stage[u] = "done" => u \in ToSet(stored.value)
    /\ \A i \in 1 .. Len(down) : down[i].kind = "success" => 
          \A u \in Updates : stage[u] = "sent" => u \in ToSet(stored.value)
    /\ \A u \in Updates : stage[u] \in {"idle", "waiting", "woken"} => u \notin ToSet(stored.value)

IInv == TypeOK /\ VersionsOK /\ EventsOK /\ LockOK /\ RequestsOK /\ LateOK /\ StoredOK

-----------------------------------------------------------------------------
(* What a compare-and-set leaves of the stored values. *)
LEMMA Grown ==
    ASSUME TypeOK, VersionsOK, NEW value \in Values,
           SetTo(value) \/ UNCHANGED <<stored, history>>
    PROVE  /\ stored' \in Versioned
           /\ history' \in Seq(Values)
           /\ Len(history') = stored'.version
           /\ history'[stored'.version] = stored'.value
           /\ stored'.version >= stored.version
           /\ \A i \in 1 .. Len(history) : i \in 1 .. Len(history') /\ history'[i] = history[i]
<1>1. CASE SetTo(value)
  <2>1. stored'.version = stored.version + 1 /\ stored'.value = value /\ stored' \in Versioned
    BY <1>1 DEF SetTo, TypeOK, Versioned
  <2>2. history' = Append(history, value) /\ history \in Seq(Values)
    BY <1>1 DEF SetTo, TypeOK
  <2>3. /\ history' \in Seq(Values) /\ Len(history') = Len(history) + 1
        /\ history'[Len(history) + 1] = value
        /\ \A i \in 1 .. Len(history) : history'[i] = history[i]
    BY <2>2
  <2> QED  BY <2>1, <2>3 DEF VersionsOK, TypeOK, Versioned
<1>2. CASE UNCHANGED <<stored, history>>
  BY <1>2 DEF TypeOK, VersionsOK, Versioned
<1> QED  BY <1>1, <1>2

(* Versioned values and requests stay known when the history only grows. *)
LEMMA StaysKnown ==
    ASSUME NEW state, Known(state),
           \A i \in 1 .. Len(history) : i \in 1 .. Len(history') /\ history'[i] = history[i]
    PROVE  /\ state.version \in 1 .. Len(history')
           /\ state.value = history'[state.version]
BY DEF Known

(* An appended value keeps what was in it. *)
LEMMA AppendKeeps ==
    ASSUME NEW value \in Values, NEW x
    PROVE  ToSet(Append(value, x)) = ToSet(value) \cup {x}
<1>1. value \in Seq(Updates \cup HubWrites)
  BY DEF Values
<1>2. /\ DOMAIN value = 1 .. Len(value) /\ DOMAIN Append(value, x) = 1 .. Len(value) + 1
      /\ Append(value, x)[Len(value) + 1] = x /\ Len(value) \in Nat
      /\ \A i \in 1 .. Len(value) : Append(value, x)[i] = value[i]
  BY <1>1
<1>3. DOMAIN Append(value, x) = DOMAIN value \cup {Len(value) + 1}
  BY <1>2
<1> QED  BY <1>2, <1>3 DEF ToSet

(* What a matching request makes of the stored value. *)
LEMMA RequestAdds ==
    ASSUME TypeOK, VersionsOK, NEW r \in up \cup late, CompareAndSet(r)
    PROVE  ToSet(stored'.value) = IF Matches(r) THEN ToSet(stored.value) \cup {r.update}
                                  ELSE ToSet(stored.value)
<1>1. CASE Matches(r)
  <2>1. stored'.value = Append(stored.value, r.update)
    <3>1. r.expected = stored.version /\ r.value = Append(history[r.expected], r.update)
      BY <1>1 DEF Matches, VersionsOK
    <3>2. history[stored.version] = stored.value
      BY DEF VersionsOK
    <3>3. stored' = [version |-> stored.version + 1, value |-> r.value]
      BY <1>1 DEF CompareAndSet, SetTo
    <3> QED  BY <3>1, <3>2, <3>3
  <2>2. stored.value \in Values
    BY DEF TypeOK, Versioned
  <2> QED  BY <1>1, <2>1, <2>2, AppendKeeps
<1>2. CASE ~Matches(r)
  BY <1>2 DEF CompareAndSet
<1> QED  BY <1>1, <1>2

(* An event with the new state at the end of down keeps the order of versions. *)
LEMMA EventAppended ==
    ASSUME TypeOK, VersionsOK, EventsOK, NEW e, e.state = stored',
           down' = Append(down, e), copy' = copy,
           stored' \in Versioned, Len(history') = stored'.version,
           history'[stored'.version] = stored'.value, stored'.version >= stored.version,
           \A i \in 1 .. Len(history) : i \in 1 .. Len(history') /\ history'[i] = history[i]
    PROVE  EventsOK'
<1>1. \A i \in 1 .. Len(down') : \/ i \in 1 .. Len(down) /\ down'[i] = down[i]
                                 \/ i = Len(down) + 1 /\ down'[i].state = stored'
  BY DEF TypeOK
<1>2. \A i \in 1 .. Len(down) : down[i].state.version \in 1 .. stored.version
  BY DEF EventsOK, Known, VersionsOK
<1>3. stored.version \in Nat /\ stored'.version \in Nat /\ stored'.version > 0
      /\ copy.version \in 1 .. stored.version /\ Len(down) \in Nat
  BY DEF TypeOK, Versioned, VersionsOK, Known
<1>4. ASSUME NEW i \in 1 .. Len(down')
      PROVE  /\ down'[i].state.version \in 1 .. Len(history')
             /\ down'[i].state.value = history'[down'[i].state.version]
             /\ copy'.version <= down'[i].state.version
  <2>1. CASE i \in 1 .. Len(down) /\ down'[i] = down[i]
    BY <2>1 DEF EventsOK, Known
  <2>2. CASE i = Len(down) + 1 /\ down'[i].state = stored'
    BY <2>2, <1>3
  <2> QED  BY <2>1, <2>2, <1>1
<1>5. \A i, j \in 1 .. Len(down') : i < j => down'[i].state.version <= down'[j].state.version
  BY <1>1, <1>2, <1>3 DEF EventsOK
<1> QED  BY <1>4, <1>5 DEF EventsOK, Known

(* The lock has one holder. *)
LEMMA OneHolder ==
    ASSUME TypeOK, LockOK, NEW u \in Updates, stage[u] \in Holding
    PROVE  /\ permits = 0
           /\ Turn \in 1 .. Len(calls)
           /\ calls[Turn] = u
           /\ \A v \in Updates : stage[v] \in Holding => v = u
<1>1. ASSUME NEW v \in Updates, stage[v] \in Holding
      PROVE  permits = 0 /\ Turn \in 1 .. Len(calls) /\ calls[Turn] = v
  <2>1. PICK i \in 1 .. Len(calls) : calls[i] = v
    BY <1>1 DEF LockOK, Holding
  <2>2. i = Turn /\ permits = 0
    BY <1>1, <2>1 DEF LockOK, Holding, TypeOK
  <2> QED  BY <2>1, <2>2
<1> QED  BY <1>1

LEMMA InitIInv == Init => IInv
BY UpdatesAssumption, MaxBreaksAssumption
DEF Init, IInv, TypeOK, VersionsOK, EventsOK, LockOK, RequestsOK, LateOK, StoredOK, Known,
    Versioned, Values, ToSet, Turn, Holding

-----------------------------------------------------------------------------
(* The hub's steps. *)
LEMMA HubUpdateKeeps ==
    ASSUME IInv, NEW r \in up, HubUpdate(r)
    PROVE  IInv'
<1> USE DEF IInv
<1>1. r \in Request /\ r.value \in Values /\ r.update \in Updates /\ r.expected \in Nat
  BY DEF TypeOK, Request
<1>2. SetTo(r.value) \/ UNCHANGED <<stored, history>>
  BY DEF HubUpdate, CompareAndSet
<1>3. /\ stored' \in Versioned
      /\ history' \in Seq(Values)
      /\ Len(history') = stored'.version
      /\ history'[stored'.version] = stored'.value
      /\ stored'.version >= stored.version
      /\ \A i \in 1 .. Len(history) : i \in 1 .. Len(history') /\ history'[i] = history[i]
  BY <1>1, <1>2, Grown
<1>4. /\ Result(r).state = stored'
      /\ Result(r).kind \in Answers
      /\ Result(r) \in Event
      /\ Result(r).kind = "success" => Matches(r)
  BY <1>3, <1>1 DEF HubUpdate, CompareAndSet, Result, Matches, Event, Answers, TypeOK
<1>5. TypeOK'
  BY <1>1, <1>3, <1>4 DEF TypeOK, HubUpdate
<1>6. VersionsOK'
  <2>1. Known(copy)' /\ copy' = copy
    BY <1>3 DEF VersionsOK, Known, HubUpdate
  <2>2. \A q \in up' \cup late' : q \in up \cup late
    BY DEF HubUpdate
  <2>3. \A q \in up \cup late : q.expected \in 1 .. Len(history)
    BY DEF VersionsOK, Known, TypeOK, Versioned
  <2>4. \A q \in up \cup late : /\ q.expected \in 1 .. copy.version
                                /\ q.value = Append(history'[q.expected], q.update)
    BY <1>3, <2>3 DEF VersionsOK
  <2>5. stored'.version > 0
    BY <1>3 DEF VersionsOK, TypeOK, Versioned
  <2> QED  BY <1>3, <2>1, <2>2, <2>4, <2>5 DEF VersionsOK
<1>7. EventsOK'
  BY <1>3, <1>4, EventAppended DEF HubUpdate
<1>8. LockOK'
  BY DEF LockOK, HubUpdate, Turn
<1>9. RequestsOK'
  BY <1>4, <1>1 DEF RequestsOK, HubUpdate, TypeOK, Event
<1>10. LateOK'
  BY <1>3, <1>4, <1>1 DEF LateOK, HubUpdate, TypeOK, RequestsOK, VersionsOK, Matches, Event, Versioned, Request, CompareAndSet, SetTo
<1>11. StoredOK'
  <2>1. ToSet(stored'.value) = IF Matches(r) THEN ToSet(stored.value) \cup {r.update} ELSE ToSet(stored.value)
    BY <1>1, RequestAdds DEF HubUpdate
  <2>2. stage' = stage /\ stage[r.update] = "sent" /\ \A u \in Updates : stage[u] = "sent" => u = r.update
    BY <1>1, OneHolder DEF HubUpdate, RequestsOK, Holding
  <2>3. \A u \in Updates : stage'[u] = "done" => u \in ToSet(stored'.value)
    BY <2>1, <2>2 DEF StoredOK
  <2>4. ASSUME NEW i \in 1 .. Len(down'), down'[i].kind = "success",
               NEW u \in Updates, stage'[u] = "sent"
        PROVE  u \in ToSet(stored'.value)
    <3>1. u = r.update /\ down' = Append(down, Result(r)) /\ down \in Seq(Event)
      BY <2>2, <2>4 DEF HubUpdate, TypeOK
    <3>2. CASE i \in 1 .. Len(down)
      BY <2>1, <2>2, <2>4, <3>1, <3>2 DEF StoredOK
    <3>3. CASE i \notin 1 .. Len(down)
      <4>1. down'[i] = Result(r)
        BY <3>1, <3>3, <1>4
      <4> QED  BY <1>4, <2>1, <2>4, <3>1, <4>1
    <3> QED  BY <3>2, <3>3
  <2>5. \A u \in Updates : stage'[u] \in {"idle", "waiting", "woken"} => u \notin ToSet(stored'.value)
    BY <2>1, <2>2 DEF StoredOK
  <2> QED  BY <2>3, <2>4, <2>5 DEF StoredOK
<1> QED
  BY <1>5, <1>6, <1>7, <1>8, <1>9, <1>10, <1>11

LEMMA HubLateUpdateKeeps ==
    ASSUME IInv, NEW r \in late, HubLateUpdate(r)
    PROVE  IInv'
<1> USE DEF IInv
<1>1. r \in Request /\ r.value \in Values /\ r.update \in Updates /\ r.expected \in Nat
  BY DEF TypeOK, Request
<1>2. SetTo(r.value) \/ UNCHANGED <<stored, history>>
  BY DEF HubLateUpdate, CompareAndSet
<1>3. /\ stored' \in Versioned
      /\ history' \in Seq(Values)
      /\ Len(history') = stored'.version
      /\ history'[stored'.version] = stored'.value
      /\ stored'.version >= stored.version
      /\ \A i \in 1 .. Len(history) : i \in 1 .. Len(history') /\ history'[i] = history[i]
  BY <1>1, <1>2, Grown
<1> DEFINE e == [kind |-> "update-session", state |-> stored']
<1>4. e \in Event /\ e.state = stored' /\ e.kind \notin Answers /\ e.kind # "success"
  BY <1>3 DEF Event, Answers
<1>5. (down' = down) \/ (down' = Append(down, e))
  BY DEF HubLateUpdate
<1> HIDE DEF e
<1>6. TypeOK'
  BY <1>1, <1>3, <1>4, <1>5 DEF TypeOK, HubLateUpdate
<1>7. VersionsOK'
  <2>1. Known(copy)' /\ copy' = copy
    BY <1>3 DEF VersionsOK, Known, HubLateUpdate
  <2>2. \A q \in up' \cup late' : q \in up \cup late
    BY DEF HubLateUpdate
  <2>3. \A q \in up \cup late : q.expected \in 1 .. Len(history)
    BY DEF VersionsOK, Known, TypeOK, Versioned
  <2>4. \A q \in up \cup late : /\ q.expected \in 1 .. copy.version
                                /\ q.value = Append(history'[q.expected], q.update)
    BY <1>3, <2>3 DEF VersionsOK
  <2>5. stored'.version > 0
    BY <1>3 DEF VersionsOK, TypeOK, Versioned
  <2> QED  BY <1>3, <2>1, <2>2, <2>4, <2>5 DEF VersionsOK
<1>8. EventsOK'
  <2>1. CASE down' = down
    BY <2>1, <1>3 DEF EventsOK, HubLateUpdate, Known
  <2>2. CASE down' = Append(down, e)
    BY <2>2, <1>3, <1>4, EventAppended DEF HubLateUpdate
  <2> QED  BY <1>5, <2>1, <2>2
<1>9. LockOK'
  BY DEF LockOK, HubLateUpdate, Turn
<1>10. \A i \in 1 .. Len(down') : down'[i].kind \in Answers => i \in 1 .. Len(down) /\ down'[i] = down[i]
  BY <1>4, <1>5 DEF TypeOK
<1>11. RequestsOK'
  BY <1>10, <1>1 DEF RequestsOK, HubLateUpdate, TypeOK
<1>12. LateOK'
  <2>1. \A q \in late', p \in up' : q.expected <= p.expected
    BY DEF LateOK, HubLateUpdate
  <2>2. \A i \in 1 .. Len(down') : down'[i].kind = "success" =>
          \A q \in late' : q.expected < down'[i].state.version
    BY <1>10 DEF LateOK, HubLateUpdate, Answers
  <2>3. \A q \in late' : stage'[q.update] = "done" => q.expected < stored'.version
    BY <1>3 DEF LateOK, HubLateUpdate, TypeOK, Versioned, Request
  <2> QED  BY <2>1, <2>2, <2>3 DEF LateOK
<1>13. StoredOK'
  <2>1. ToSet(stored'.value) = IF Matches(r) THEN ToSet(stored.value) \cup {r.update} ELSE ToSet(stored.value)
    BY <1>1, RequestAdds DEF HubLateUpdate
  <2>2. stage' = stage /\ stage[r.update] \notin {"idle", "waiting", "woken"}
    BY <1>1 DEF HubLateUpdate, RequestsOK
  <2> QED  BY <2>1, <2>2, <1>10, <1>1 DEF StoredOK, Answers
<1> QED
  BY <1>6, <1>7, <1>8, <1>9, <1>11, <1>12, <1>13

LEMMA HubWriteKeeps ==
    ASSUME IInv, NEW w \in HubWrites, HubWrite(w)
    PROVE  IInv'
<1> USE DEF IInv
<1>1. Append(stored.value, w) \in Values
  BY DEF TypeOK, Versioned, Values
<1>2. SetTo(Append(stored.value, w))
  BY DEF HubWrite
<1>3. /\ stored' \in Versioned
      /\ history' \in Seq(Values)
      /\ Len(history') = stored'.version
      /\ history'[stored'.version] = stored'.value
      /\ stored'.version >= stored.version
      /\ \A i \in 1 .. Len(history) : i \in 1 .. Len(history') /\ history'[i] = history[i]
  BY <1>1, <1>2, Grown
<1>4. TypeOK'
  BY <1>3 DEF TypeOK, HubWrite
<1>5. VersionsOK'
  BY <1>3, StaysKnown DEF VersionsOK, HubWrite, TypeOK, Known, Versioned, Request
<1>6. EventsOK'
  BY <1>3 DEF EventsOK, HubWrite, Known
<1>7. LockOK'
  BY DEF LockOK, HubWrite, Turn
<1>8. RequestsOK'
  BY DEF RequestsOK, HubWrite
<1>9. LateOK'
  BY <1>3 DEF LateOK, HubWrite, TypeOK, Versioned, Request
<1>10. StoredOK'
  <2>1. ToSet(stored'.value) = ToSet(stored.value) \cup {w}
    BY <1>2, AppendKeeps DEF SetTo, TypeOK, Versioned
  <2> QED  BY <2>1, UpdatesAssumption DEF StoredOK, HubWrite
<1> QED
  BY <1>4, <1>5, <1>6, <1>7, <1>8, <1>9, <1>10

-----------------------------------------------------------------------------
(* The CLI's steps. *)
LEMMA UpdateKeeps ==
    ASSUME IInv, NEW u \in Updates, Update(u)
    PROVE  IInv'
<1> USE DEF IInv
<1>1. /\ calls' = Append(calls, u) /\ calls \in Seq(Updates) /\ resolvers \in Seq(Updates)
      /\ Len(calls') = Len(calls) + 1 /\ calls'[Len(calls) + 1] = u
      /\ \A i \in 1 .. Len(calls) : calls'[i] = calls[i] /\ calls[i] # u
      /\ \A v \in Updates : v # u => stage'[v] = stage[v]
  BY DEF Update, TypeOK, LockOK
<1>2. stage'[u] \in {"inside", "waiting"} /\ stage[u] = "idle"
  BY DEF Update, TypeOK
<1>3. TypeOK'
  <2>1. calls' \in Seq(Updates)
    BY <1>1
  <2>2. /\ permits' \in {0, 1} /\ resolvers' \in Seq(Updates)
        /\ stage' \in [Updates -> {"idle", "waiting", "woken", "inside", "sent", "done"}]
    <3>1. CASE permits = 1
      <4>1. permits' = 0 /\ resolvers' = resolvers /\ stage' = [stage EXCEPT ![u] = "inside"]
        BY <3>1 DEF Update
      <4> QED  BY <4>1 DEF TypeOK
    <3>2. CASE permits = 0
      <4>1. permits' = 0 /\ resolvers' = Append(resolvers, u) /\ stage' = [stage EXCEPT ![u] = "waiting"]
        BY <3>2 DEF Update
      <4>2. resolvers' \in Seq(Updates)
        BY <4>1, <1>1
      <4> QED  BY <4>1, <4>2 DEF TypeOK
    <3> QED  BY <3>1, <3>2 DEF TypeOK
  <2> QED  BY <2>1, <2>2 DEF TypeOK, Update
<1>4. VersionsOK'
  BY DEF VersionsOK, Update, Known
<1>5. EventsOK'
  BY DEF EventsOK, Update, Known
<1>6. LockOK'
  <2>1. CASE permits > 0
    <3>1. permits = 1 /\ resolvers = <<>> /\ permits' = 0 /\ resolvers' = <<>> /\ stage'[u] = "inside"
      BY <2>1 DEF Update, TypeOK, LockOK
    <3>2. Turn = Len(calls) /\ Turn' = Len(calls) + 1
      BY <3>1, <1>1 DEF Turn
    <3> QED  BY <3>1, <3>2, <1>1, <1>2 DEF LockOK, TypeOK, Holding
  <2>2. CASE permits = 0
    <3>1. permits' = 0 /\ resolvers' = Append(resolvers, u) /\ stage'[u] = "waiting"
      BY <2>2 DEF Update, TypeOK, LockOK
    <3>2. Turn' = Turn /\ Turn \in Nat /\ Turn > 0 /\ Turn <= Len(calls)
      BY <2>2, <3>1, <1>1 DEF Turn, LockOK
    <3>3. Len(resolvers') = Len(resolvers) + 1 /\ Turn + Len(resolvers) = Len(calls)
          /\ Len(resolvers) \in Nat /\ Len(calls) \in Nat
          /\ resolvers'[Len(resolvers) + 1] = u
          /\ \A i \in 1 .. Len(resolvers) : resolvers'[i] = resolvers[i]
      BY <3>1, <3>2, <1>1 DEF Turn
    <3>4. ASSUME NEW i \in 1 .. Len(resolvers')
          PROVE  resolvers'[i] = calls'[Turn + i]
      <4>1. CASE i = Len(resolvers) + 1
        <5>1. Turn + i = Len(calls) + 1
          BY <4>1, <3>2, <3>3
        <5> QED  BY <5>1, <4>1, <3>3, <1>1
      <4>2. CASE i \in 1 .. Len(resolvers)
        BY <4>2, <3>3, <3>2, <1>1 DEF LockOK
      <4> QED  BY <4>1, <4>2, <3>3
    <3>5. ASSUME NEW i \in 1 .. Len(calls')
          PROVE  /\ i < Turn => stage'[calls'[i]] = "done"
                 /\ i = Turn => stage'[calls'[i]] \in Holding
                 /\ i > Turn => stage'[calls'[i]] = "waiting"
      <4>1. CASE i = Len(calls) + 1
        BY <4>1, <3>1, <3>2, <1>1
      <4>2. CASE i \in 1 .. Len(calls)
        BY <4>2, <3>2, <1>1, <2>2 DEF LockOK, TypeOK
      <4> QED  BY <4>1, <4>2, <1>1, <3>3
    <3>6. \A i, j \in 1 .. Len(calls') : calls'[i] = calls'[j] => i = j
      BY <1>1, <3>3 DEF LockOK
    <3>7. \A v \in Updates : stage'[v] # "idle" <=> \E i \in 1 .. Len(calls') : calls'[i] = v
      <4>1. calls'[Len(calls) + 1] = u /\ \A i \in 1 .. Len(calls) : calls'[i] = calls[i]
        BY <3>3, <1>1
      <4>2. stage'[u] # "idle" /\ \A v \in Updates : v # u => stage'[v] = stage[v]
        BY <1>1, <1>2, <2>2 DEF TypeOK
      <4>3. Len(calls') = Len(calls) + 1 /\ Len(calls) \in Nat
        BY <3>3, <1>1
      <4>4. ASSUME NEW v \in Updates, v # u
            PROVE  stage'[v] # "idle" <=> \E i \in 1 .. Len(calls') : calls'[i] = v
        <5>1. stage[v] # "idle" <=> \E i \in 1 .. Len(calls) : calls[i] = v
          BY DEF LockOK
        <5>2. (\E i \in 1 .. Len(calls) : calls[i] = v) <=> \E i \in 1 .. Len(calls') : calls'[i] = v
          BY <4>1, <4>3, <4>4
        <5> QED  BY <4>2, <4>4, <5>1, <5>2
      <4> QED  BY <4>1, <4>2, <4>3, <4>4
    <3> QED  BY <3>1, <3>2, <3>4, <3>5, <3>6, <3>7 DEF LockOK
  <2> QED  BY <2>1, <2>2 DEF Update
<1>7. RequestsOK'
  <2>1. \A v \in Updates : stage[v] \in {"sent", "inside", "done"} => stage'[v] = stage[v]
    BY <1>1, <1>2
  <2>2. \A r \in up \cup late : r.update \in Updates
    BY DEF TypeOK, Request
  <2> QED  BY <2>1, <2>2 DEF RequestsOK, Update
<1>8. LateOK'
  BY <1>1, <1>2 DEF LateOK, Update, TypeOK, Request
<1>9. StoredOK'
  BY <1>1, <1>2 DEF StoredOK, Update
<1> QED
  BY <1>3, <1>4, <1>5, <1>6, <1>7, <1>8, <1>9

(* A step of the lock's holder that keeps it the holder. *)
LEMMA HolderGoesOn ==
    ASSUME TypeOK, LockOK, NEW u \in Updates, stage[u] \in Holding,
           NEW s \in Holding, stage' = [stage EXCEPT ![u] = s],
           UNCHANGED <<calls, resolvers, permits>>
    PROVE  LockOK'
<1>1. calls[Turn] = u /\ Turn \in 1 .. Len(calls) /\ permits = 0
  BY OneHolder
<1>2. stage'[u] = s /\ \A v \in Updates : v # u => stage'[v] = stage[v]
  BY DEF TypeOK
<1>3. \A i \in 1 .. Len(calls) : i # Turn => calls[i] # u /\ calls[i] \in Updates
  BY <1>1 DEF LockOK, TypeOK
<1>4. Turn' = Turn
  BY DEF Turn
<1>5. \A v \in Updates : stage'[v] # "idle" <=> stage[v] # "idle"
  BY <1>2 DEF Holding
<1> QED
  BY <1>1, <1>2, <1>3, <1>4, <1>5 DEF LockOK, TypeOK, Holding

LEMMA ResumeKeeps ==
    ASSUME IInv, NEW u \in Updates, Resume(u)
    PROVE  IInv'
<1> USE DEF IInv
<1>1. stage'[u] = "inside" /\ stage[u] = "woken" /\ \A v \in Updates : v # u => stage'[v] = stage[v]
  BY DEF Resume, TypeOK
<1>2. TypeOK'
  BY DEF TypeOK, Resume
<1>3. LockOK'
  BY HolderGoesOn DEF Resume, Holding
<1>4. VersionsOK' /\ EventsOK'
  BY DEF VersionsOK, EventsOK, Resume, Known
<1>5. RequestsOK' /\ LateOK'
  BY <1>1 DEF RequestsOK, LateOK, Resume, TypeOK, Request
<1>6. StoredOK'
  BY <1>1 DEF StoredOK, Resume
<1> QED
  BY <1>2, <1>3, <1>4, <1>5, <1>6

LEMMA AttemptKeeps ==
    ASSUME IInv, NEW u \in Updates, Attempt(u)
    PROVE  IInv'
<1> USE DEF IInv
<1> DEFINE q == [update |-> u, expected |-> copy.version, value |-> Append(copy.value, u)]
<1>1. stage'[u] = "sent" /\ stage[u] = "inside" /\ \A v \in Updates : v # u => stage'[v] = stage[v]
  BY DEF Attempt, TypeOK
<1>2. q \in Request /\ q.update = u /\ q.expected = copy.version /\ q.value = Append(copy.value, u)
  BY DEF TypeOK, Versioned, Request, Values
<1>3. up' = up \cup {q}
  BY DEF Attempt
<1> HIDE DEF q
<1>4. \A v \in Updates : stage[v] \in Holding => v = u
  BY <1>1, OneHolder DEF Holding
<1>5. up = {} /\ \A i \in 1 .. Len(down) : down[i].kind \notin Answers
  BY <1>1, <1>4 DEF RequestsOK, TypeOK, Request, Holding
<1>6. TypeOK'
  BY <1>2, <1>3 DEF TypeOK, Attempt
<1>7. VersionsOK'
  BY <1>2, <1>3, <1>5 DEF VersionsOK, Attempt, Known, TypeOK, Versioned
<1>8. EventsOK'
  BY DEF EventsOK, Attempt, Known
<1>9. LockOK'
  BY HolderGoesOn, <1>1 DEF Attempt, Holding
<1>10. RequestsOK'
  BY <1>1, <1>2, <1>3, <1>5 DEF RequestsOK, Attempt, TypeOK, Request
<1>11. LateOK'
  BY <1>1, <1>2, <1>3, <1>5 DEF LateOK, Attempt, TypeOK, Request, VersionsOK, Versioned
<1>12. StoredOK'
  BY <1>1, <1>5 DEF StoredOK, Attempt, Answers
<1> QED
  BY <1>6, <1>7, <1>8, <1>9, <1>10, <1>11, <1>12

(* The first event is handled: the rest moves up by one. *)
LEMMA TailOfDown ==
    ASSUME TypeOK, EventsOK, down # <<>>, down' = Tail(down)
    PROVE  /\ Head(down) = down[1] /\ Head(down) \in Event /\ Known(Head(down).state)
           /\ copy.version <= Head(down).state.version
           /\ down' \in Seq(Event) /\ Len(down) \in Nat \ {0}
           /\ \A i \in 1 .. Len(down') : i + 1 \in 1 .. Len(down) /\ down'[i] = down[i + 1]
           /\ \A i \in 1 .. Len(down') : /\ down'[i].state.version \in Nat
                                        /\ Head(down).state.version <= down'[i].state.version
<1>1. Len(down) \in Nat \ {0} /\ Len(down') = Len(down) - 1 /\ down' \in Seq(Event)
      /\ Head(down) = down[1] /\ Head(down) \in Event
      /\ \A i \in 1 .. Len(down') : i + 1 \in 1 .. Len(down) /\ down'[i] = down[i + 1]
  BY DEF TypeOK
<1>2. \A i \in 1 .. Len(down') : 1 < i + 1
  BY <1>1
<1>3. \A i \in 1 .. Len(down') : down'[i] \in Event
  BY <1>1
<1> QED  BY <1>1, <1>2, <1>3 DEF EventsOK, Event, Versioned

LEMMA ReceiveUpdateKeeps ==
    ASSUME IInv, ReceiveUpdate
    PROVE  IInv'
<1> USE DEF IInv
<1> DEFINE e == Head(down)
<1>1. /\ e = down[1] /\ e \in Event /\ Known(e.state) /\ copy.version <= e.state.version
      /\ down' \in Seq(Event) /\ Len(down) \in Nat \ {0}
      /\ \A i \in 1 .. Len(down') : i + 1 \in 1 .. Len(down) /\ down'[i] = down[i + 1]
      /\ \A i \in 1 .. Len(down') : /\ down'[i].state.version \in Nat
                                   /\ e.state.version <= down'[i].state.version
  BY TailOfDown DEF ReceiveUpdate
<1>2. copy' \in {copy, e.state} /\ copy' \in Versioned /\ Known(copy')
      /\ copy.version <= copy'.version /\ copy'.version <= e.state.version
  BY <1>1 DEF ReceiveUpdate, TypeOK, Event, VersionsOK, Versioned
<1> HIDE DEF e
<1>3. TypeOK'
  BY <1>1, <1>2 DEF TypeOK, ReceiveUpdate
<1>4. VersionsOK'
  BY <1>2 DEF VersionsOK, ReceiveUpdate, Known, TypeOK, Versioned
<1>5. EventsOK'
  <2>1. \A i \in 1 .. Len(down') : copy'.version <= down'[i].state.version
    <3>1. copy'.version \in Nat /\ e.state.version \in Nat
      BY <1>1, <1>2 DEF Event, Versioned
    <3> QED  BY <3>1, <1>1, <1>2
  <2> QED  BY <2>1, <1>1 DEF EventsOK, ReceiveUpdate, Known
<1>6. LockOK'
  BY DEF LockOK, ReceiveUpdate, Turn
<1>7. RequestsOK' /\ LateOK' /\ StoredOK'
  BY <1>1 DEF RequestsOK, LateOK, StoredOK, ReceiveUpdate
<1> QED
  BY <1>3, <1>4, <1>5, <1>6, <1>7

(* The update that waits for the answer is the one in the lock. *)
LEMMA SenderHolds ==
    ASSUME TypeOK, LockOK, RequestsOK, NEW i \in 1 .. Len(down), down[i].kind \in Answers
    PROVE  Sender \in Updates /\ stage[Sender] = "sent"
BY DEF RequestsOK, Sender

LEMMA UnlockKeeps ==
    ASSUME TypeOK, LockOK, NEW u \in Updates, stage[u] = "sent", Unlock(u), calls' = calls
    PROVE  /\ LockOK'
           /\ permits' \in {0, 1} /\ resolvers' \in Seq(Updates)
           /\ stage' \in [Updates -> {"idle", "waiting", "woken", "inside", "sent", "done"}]
           /\ stage'[u] = "done"
           /\ \A v \in Updates : v # u =>
              (stage'[v] = stage[v]) \/ (stage[v] = "waiting" /\ stage'[v] = "woken")
<1>1. permits = 0 /\ Turn \in 1 .. Len(calls) /\ calls[Turn] = u
  BY OneHolder DEF Holding
<1>2. calls \in Seq(Updates) /\ resolvers \in Seq(Updates)
  BY DEF TypeOK
<1>3. CASE resolvers = <<>>
  <2>1. Turn = Len(calls) /\ Turn' = Turn /\ permits' = 1 /\ resolvers' = <<>>
    BY <1>1, <1>2, <1>3 DEF Turn, Unlock
  <2>2. stage' = [stage EXCEPT ![u] = "done"]
    BY <1>3 DEF Unlock
  <2>3. stage'[u] = "done" /\ stage[u] # "idle" /\ \A v \in Updates : v # u => stage'[v] = stage[v]
    BY <2>2 DEF TypeOK
  <2>4. \A i \in 1 .. Len(calls) : calls[i] \in Updates /\ (i # Turn => calls[i] # u)
    BY <1>1, <1>2 DEF LockOK
  <2>5. \A i \in 1 .. Len(calls) : stage'[calls[i]] = "done" /\ i <= Turn
    BY <1>1, <2>1, <2>3, <2>4 DEF LockOK
  <2>6. \A v \in Updates : stage'[v] # "idle" <=> stage[v] # "idle"
    BY <2>3
  <2>7. LockOK'
    BY <1>1, <2>1, <2>5, <2>6 DEF LockOK
  <2>8. stage' \in [Updates -> {"idle", "waiting", "woken", "inside", "sent", "done"}]
    BY <2>2 DEF TypeOK
  <2>9. permits' \in {0, 1} /\ resolvers' \in Seq(Updates)
    BY <2>1
  <2> QED  BY <2>3, <2>7, <2>8, <2>9
<1>4. CASE resolvers # <<>>
  <2> DEFINE h == Head(resolvers)
  <2>1. permits' = 0 /\ resolvers' = Tail(resolvers) /\ stage' = [stage EXCEPT ![u] = "done", ![h] = "woken"]
    BY <1>1, <1>4 DEF Unlock
  <2>2. h \in Updates /\ h = resolvers[1] /\ Len(resolvers) \in Nat \ {0}
        /\ resolvers' \in Seq(Updates) /\ Len(resolvers') = Len(resolvers) - 1
        /\ \A i \in 1 .. Len(resolvers') : i + 1 \in 1 .. Len(resolvers) /\ resolvers'[i] = resolvers[i + 1]
    BY <1>2, <1>4, <2>1
  <2>3. Turn' = Turn + 1 /\ Turn + Len(resolvers) = Len(calls) /\ Len(calls) \in Nat
    BY <1>1, <1>2, <2>2 DEF Turn
  <2>4. h = calls[Turn + 1] /\ Turn + 1 \in 1 .. Len(calls) /\ stage[h] = "waiting" /\ h # u
    BY <1>1, <2>2, <2>3 DEF LockOK
  <2> HIDE DEF h
  <2>5. stage'[u] = "done" /\ stage'[h] = "woken" /\ \A v \in Updates : v \notin {u, h} => stage'[v] = stage[v]
    BY <2>1, <2>2, <2>4 DEF TypeOK
  <2>6. \A i \in 1 .. Len(resolvers') : resolvers'[i] = calls[Turn + 1 + i]
    <3>1. \A i \in 1 .. Len(resolvers') : resolvers[i + 1] = calls[Turn + (i + 1)]
      BY <2>2 DEF LockOK
    <3>2. \A i \in 1 .. Len(resolvers') : Turn + (i + 1) = Turn + 1 + i
      BY <1>1, <2>2, <2>3
    <3> QED  BY <2>2, <3>1, <3>2
  <2>7. ASSUME NEW i \in 1 .. Len(calls)
        PROVE  /\ i < Turn + 1 => stage'[calls[i]] = "done"
               /\ i = Turn + 1 => stage'[calls[i]] \in Holding
               /\ i > Turn + 1 => stage'[calls[i]] = "waiting"
    <3>1. calls[i] \in Updates /\ (i # Turn => calls[i] # u) /\ (i # Turn + 1 => calls[i] # h)
      BY <1>1, <1>2, <2>4 DEF LockOK
    <3>2. CASE i < Turn
      BY <3>1, <3>2, <2>5, <1>1, <2>3 DEF LockOK
    <3>3. CASE i = Turn
      BY <3>3, <2>5, <1>1
    <3>4. CASE i = Turn + 1
      BY <3>4, <2>4, <2>5, <1>1 DEF Holding
    <3>5. CASE i > Turn + 1
      BY <3>1, <3>5, <2>5, <1>1, <2>3 DEF LockOK
    <3> QED  BY <3>2, <3>3, <3>4, <3>5, <1>1
  <2>8. \A v \in Updates : stage'[v] # "idle" <=> stage[v] # "idle"
    BY <2>4, <2>5
  <2>9. LockOK'
    <3>1. Turn' \in Nat /\ Turn' > 0 /\ calls' = calls /\ permits' # 1
      BY <1>1, <2>1, <2>3
    <3>2. \A i \in 1 .. Len(resolvers') : resolvers'[i] = calls'[Turn' + i]
      BY <2>6, <2>3
    <3>3. \A i \in 1 .. Len(calls') :
             /\ i < Turn' => stage'[calls'[i]] = "done"
             /\ i = Turn' => stage'[calls'[i]] \in Holding
             /\ i > Turn' => stage'[calls'[i]] = "waiting"
      BY <2>7, <2>3
    <3>4. /\ \A i, j \in 1 .. Len(calls') : calls'[i] = calls'[j] => i = j
          /\ \A v \in Updates : stage'[v] # "idle" <=> \E i \in 1 .. Len(calls') : calls'[i] = v
      BY <2>8, <3>1 DEF LockOK
    <3>5. permits' = 0
      BY <2>1
    <3> QED  BY <3>1, <3>2, <3>3, <3>4, <3>5 DEF LockOK
  <2>10. stage' \in [Updates -> {"idle", "waiting", "woken", "inside", "sent", "done"}]
    BY <2>1 DEF TypeOK
  <2>11. permits' \in {0, 1} /\ resolvers' \in Seq(Updates)
    BY <2>1, <2>2
  <2>12. \A v \in Updates : v # u =>
              (stage'[v] = stage[v]) \/ (stage[v] = "waiting" /\ stage'[v] = "woken")
    BY <2>4, <2>5
  <2> QED  BY <2>5, <2>9, <2>10, <2>11, <2>12
<1> QED  BY <1>3, <1>4

LEMMA ReceiveAnswerKeeps ==
    ASSUME IInv, ReceiveAnswer
    PROVE  IInv'
<1> USE DEF IInv
<1> DEFINE e == Head(down)
<1> DEFINE u == Sender
<1>1. /\ e = down[1] /\ e \in Event /\ Known(e.state) /\ copy.version <= e.state.version
      /\ down' \in Seq(Event) /\ Len(down) \in Nat \ {0}
      /\ \A i \in 1 .. Len(down') : i + 1 \in 1 .. Len(down) /\ down'[i] = down[i + 1]
      /\ \A i \in 1 .. Len(down') : /\ down'[i].state.version \in Nat
                                   /\ e.state.version <= down'[i].state.version
  BY TailOfDown DEF ReceiveAnswer
<1>2. copy' \in {copy, e.state} /\ copy' \in Versioned /\ Known(copy')
      /\ copy.version <= copy'.version /\ copy'.version <= e.state.version
  <2>1. copy' \in {copy, e.state}
    BY DEF ReceiveAnswer
  <2>2. copy \in Versioned /\ e.state \in Versioned /\ Known(copy) /\ Known(e.state)
    BY <1>1 DEF TypeOK, Event, VersionsOK
  <2>3. copy.version \in Nat /\ e.state.version \in Nat
    BY <2>2 DEF Versioned
  <2> HIDE DEF e
  <2> QED  BY <1>1, <2>1, <2>2, <2>3
<1>3. e.kind \in Answers /\ 1 \in 1 .. Len(down)
  BY <1>1 DEF ReceiveAnswer
<1>4. u \in Updates /\ stage[u] = "sent"
  BY <1>1, <1>3, SenderHolds
<1>5. up = {} /\ \A i \in 1 .. Len(down') : down'[i].kind \notin Answers
  <2>1. up = {} /\ \A j \in 1 .. Len(down) : down[j].kind \in Answers => 1 = j
    BY <1>1, <1>3 DEF RequestsOK
  <2>2. \A i \in 1 .. Len(down') : i + 1 \in 1 .. Len(down) /\ 1 # i + 1 /\ down'[i] = down[i + 1]
    BY <1>1
  <2> QED  BY <2>1, <2>2
<1>6. /\ LockOK'
      /\ permits' \in {0, 1} /\ resolvers' \in Seq(Updates)
      /\ stage' \in [Updates -> {"idle", "waiting", "woken", "inside", "sent", "done"}]
      /\ stage'[u] = IF e.kind = "success" THEN "done" ELSE "inside"
      /\ \A v \in Updates : v # u =>
              (stage'[v] = stage[v]) \/ (stage[v] = "waiting" /\ stage'[v] = "woken")
  <2>1. CASE e.kind = "success"
    BY <2>1, <1>4, UnlockKeeps DEF ReceiveAnswer
  <2>2. CASE e.kind # "success"
    <3>1. stage' = [stage EXCEPT ![u] = "inside"] /\ UNCHANGED <<calls, resolvers, permits>>
      BY <2>2 DEF ReceiveAnswer
    <3>2. LockOK'
      BY <3>1, <1>4, HolderGoesOn DEF Holding
    <3>3. stage' \in [Updates -> {"idle", "waiting", "woken", "inside", "sent", "done"}]
      BY <3>1 DEF TypeOK
    <3>4. stage'[u] = "inside" /\ \A v \in Updates : v # u => stage'[v] = stage[v]
      BY <3>1, <1>4 DEF TypeOK
    <3>5. permits' \in {0, 1} /\ resolvers' \in Seq(Updates)
      BY <3>1 DEF TypeOK
    <3> QED  BY <2>2, <3>2, <3>3, <3>4, <3>5
  <2> QED  BY <2>1, <2>2
<1> HIDE DEF e, u
<1>7. TypeOK'
  BY <1>1, <1>2, <1>6 DEF TypeOK, ReceiveAnswer
<1>8. VersionsOK'
  BY <1>2 DEF VersionsOK, ReceiveAnswer, Known, TypeOK, Versioned
<1>9. EventsOK'
  <2>1. \A i \in 1 .. Len(down') : copy'.version <= down'[i].state.version
    <3>1. copy'.version \in Nat /\ e.state.version \in Nat
      BY <1>1, <1>2 DEF Event, Versioned
    <3> QED  BY <3>1, <1>1, <1>2
  <2> QED  BY <2>1, <1>1 DEF EventsOK, ReceiveAnswer, Known
<1>10. \A r \in late : r.update \in Updates /\ r.expected \in Nat
  BY DEF TypeOK, Request
<1>11. RequestsOK'
  BY <1>5, <1>6, <1>10 DEF RequestsOK, ReceiveAnswer
<1>12. LateOK'
  <2>1. e.kind = "success" => \A r \in late : r.expected < stored.version
    <3>1. e.state.version \in Nat /\ e.state.version <= stored.version
      BY <1>1 DEF Known, VersionsOK, TypeOK, Versioned
    <3>2. e.kind = "success" => \A r \in late : r.expected < e.state.version
      BY <1>1, <1>3 DEF LateOK
    <3> QED  BY <3>1, <3>2, <1>10 DEF TypeOK, Versioned
  <2>2. \A r \in late' : stage'[r.update] = "done" => r.expected < stored'.version
    BY <2>1, <1>6, <1>10 DEF LateOK, ReceiveAnswer
  <2> QED  BY <2>2, <1>5 DEF LateOK, ReceiveAnswer, Answers
<1>13. StoredOK'
  <2>1. e.kind = "success" => u \in ToSet(stored.value)
    BY <1>1, <1>3, <1>4 DEF StoredOK
  <2> QED  BY <2>1, <1>5, <1>6, <1>4 DEF StoredOK, ReceiveAnswer, Answers
<1> QED
  BY <1>6, <1>7, <1>8, <1>9, <1>11, <1>12, <1>13

-----------------------------------------------------------------------------
(* The connection. *)
LEMMA DisconnectKeeps ==
    ASSUME IInv, Disconnect
    PROVE  IInv'
<1> USE DEF IInv
<1>1. /\ down' = <<>> /\ Len(down') = 0 /\ up' = {} /\ late' = late \cup up
      /\ stage' \in [Updates -> {"idle", "waiting", "woken", "inside", "sent", "done"}]
      /\ \A u \in Updates : stage'[u] = IF stage[u] = "sent" THEN "inside" ELSE stage[u]
  BY DEF Disconnect, TypeOK
<1>2. TypeOK'
  <2>1. breaks' \in 0 .. MaxBreaks /\ late' \subseteq Request
    BY <1>1, MaxBreaksAssumption DEF TypeOK, Disconnect
  <2>2. down' \in Seq(Event)
    BY <1>1
  <2> QED  BY <1>1, <2>1, <2>2 DEF TypeOK, Disconnect
<1>3. VersionsOK'
  BY <1>1 DEF VersionsOK, Disconnect, Known
<1>4. EventsOK'
  BY <1>1 DEF EventsOK
<1>5. LockOK'
  <2>1. Turn' = Turn /\ calls' = calls /\ resolvers' = resolvers /\ permits' = permits
    BY DEF Disconnect, Turn
  <2>2. \A i \in 1 .. Len(calls) : calls[i] \in Updates
    BY DEF TypeOK
  <2>3. \A u \in Updates : /\ stage[u] \in {"done", "waiting"} => stage'[u] = stage[u]
                           /\ stage[u] \in Holding => stage'[u] \in Holding
                           /\ stage'[u] # "idle" <=> stage[u] # "idle"
    BY <1>1 DEF Holding
  <2> QED  BY <2>1, <2>2, <2>3 DEF LockOK
<1>6. \A r \in late' : r.update \in Updates /\ stage'[r.update] \in {"inside", "sent", "done"}
      /\ (stage'[r.update] = "done" => r \in late /\ stage[r.update] = "done")
  BY <1>1 DEF RequestsOK, TypeOK, Request
<1>7. RequestsOK' /\ LateOK'
  BY <1>1, <1>6 DEF RequestsOK, LateOK, Disconnect
<1>8. StoredOK'
  BY <1>1 DEF StoredOK, Disconnect
<1> QED
  BY <1>2, <1>3, <1>4, <1>5, <1>7, <1>8

LEMMA OtherStepsKeep ==
    ASSUME IInv, DeleteSession \/ Connect \/ (\E r \in late : LoseLate(r)) \/ UNCHANGED vars
    PROVE  IInv'
<1>1. /\ UNCHANGED <<stored, copy, permits, resolvers, stage, up, down, breaks, history, calls>>
      /\ late' \subseteq late /\ exists' \in BOOLEAN /\ link' \in BOOLEAN
  BY DEF DeleteSession, Connect, LoseLate, vars, IInv, TypeOK
<1>2. TypeOK' /\ VersionsOK' /\ EventsOK'
  BY <1>1 DEF IInv, TypeOK, VersionsOK, EventsOK, Known
<1>3. LockOK' /\ RequestsOK' /\ LateOK' /\ StoredOK'
  BY <1>1 DEF IInv, LockOK, Turn, RequestsOK, LateOK, StoredOK
<1> QED
  BY <1>2, <1>3 DEF IInv

LEMMA StepKeepsIInv ==
    ASSUME IInv, [Next]_vars
    PROVE  IInv'
<1>1. CASE HubNext
  BY <1>1, HubUpdateKeeps, HubLateUpdateKeeps, HubWriteKeeps, OtherStepsKeep DEF HubNext
<1>2. CASE CliNext
  BY <1>2, UpdateKeeps, ResumeKeeps, AttemptKeeps, ReceiveAnswerKeeps, ReceiveUpdateKeeps DEF CliNext
<1>3. CASE LinkNext
  BY <1>3, DisconnectKeeps, OtherStepsKeep DEF LinkNext
<1>4. CASE UNCHANGED vars
  BY <1>4, OtherStepsKeep
<1> QED
  BY <1>1, <1>2, <1>3, <1>4 DEF Next

(***************************************************************************)
(* The inductive invariant: versions identify values, events arrive in the *)
(* order of their versions, the lock serves in call order, and no request  *)
(* of an old connection can match once its update is done.                 *)
(***************************************************************************)
THEOREM Invariance == Spec => []IInv
<1>1. Init => IInv
  BY InitIInv
<1>2. IInv /\ [Next]_vars => IInv'
  BY StepKeepsIInv
<1> QED
  BY <1>1, <1>2, PTL DEF Spec

(***************************************************************************)
(* applyVersionedAck and the 'update-session' handler keep the CLI's copy  *)
(* a value that the hub stored at that version.                            *)
(***************************************************************************)
THEOREM CopyIsAlwaysStored == Spec => []CopyIsStored
<1>1. IInv => CopyIsStored
  BY DEF IInv, VersionsOK, Known, CopyIsStored
<1> QED
  BY <1>1, Invariance, PTL

(***************************************************************************)
(* An update that is done is in the stored value: no write removes it.     *)
(***************************************************************************)
THEOREM DoneStaysStored == Spec => []DoneIsStored
<1>1. IInv => DoneIsStored
  BY DEF IInv, StoredOK, DoneIsStored
<1> QED
  BY <1>1, Invariance, PTL

(***************************************************************************)
(* The version in the CLI never goes back.                                 *)
(***************************************************************************)
THEOREM VersionOnlyGrows == Spec => VersionGrows
<1>1. IInv /\ [Next]_vars => [copy'.version >= copy.version]_vars
  <2> SUFFICES ASSUME IInv, Next PROVE copy'.version >= copy.version
    BY DEF vars
  <2>1. copy.version \in Nat
    BY DEF IInv, TypeOK, Versioned
  <2>2. copy' = copy \/ (down # <<>> /\ copy' = Head(down).state)
    BY DEF Next, HubNext, CliNext, LinkNext, HubUpdate, HubLateUpdate, HubWrite, DeleteSession,
           Update, Resume, Attempt, ReceiveAnswer, ReceiveUpdate, Disconnect, Connect, LoseLate
  <2>3. down # <<>> => copy.version <= Head(down).state.version /\ Head(down).state.version \in Nat
    <3> SUFFICES ASSUME down # <<>>
                 PROVE  copy.version <= Head(down).state.version /\ Head(down).state.version \in Nat
      OBVIOUS
    <3>1. Head(down) = down[1] /\ 1 \in 1 .. Len(down) /\ down[1] \in Event
      BY DEF IInv, TypeOK
    <3> QED  BY <3>1 DEF IInv, EventsOK, Event, Versioned
  <2> QED  BY <2>1, <2>2, <2>3
<1> QED
  BY <1>1, Invariance, PTL DEF Spec, VersionGrows

-----------------------------------------------------------------------------
(* A matching request is an application of the update whose turn it is: the *)
(* ones before it are stored, the ones after it are not.                    *)
LEMMA RequestApplies ==
    ASSUME IInv, NEW r \in up \cup late, CompareAndSet(r), calls' = calls
    PROVE  (\E k \in 1 .. Len(calls) : Atomic!Apply(k)) \/ UNCHANGED <<calls, stored.value>>
<1> USE DEF IInv
<1>1. CASE ~Matches(r)
  BY <1>1 DEF CompareAndSet
<1>2. CASE Matches(r)
  <2>1. r.update \in Updates /\ r.expected \in Nat /\ stored.version \in Nat
    BY DEF TypeOK, Request, Versioned
  <2>2. stage[r.update] \in Holding
    BY <1>2, <2>1 DEF RequestsOK, LateOK, Matches, Holding
  <2>3. Turn \in 1 .. Len(calls) /\ calls[Turn] = r.update
    BY <2>1, <2>2, OneHolder
  <2>4. stored'.value = Append(stored.value, calls[Turn])
    <3>1. stored'.value = r.value
      BY <1>2 DEF CompareAndSet, SetTo
    <3>2. r.value = Append(history[r.expected], r.update) /\ history[stored.version] = stored.value
      BY DEF VersionsOK
    <3>3. r.expected = stored.version
      BY <1>2 DEF Matches
    <3> QED  BY <3>1, <3>2, <3>3, <2>3
  <2>5. \A i \in 1 .. Len(calls) : calls[i] \in Updates
    BY DEF TypeOK
  <2>6. \A i \in 1 .. Turn - 1 : calls[i] \in ToSet(stored.value)
    <3>1. \A i \in 1 .. Turn - 1 : i \in 1 .. Len(calls) /\ i < Turn
      BY <2>3 DEF LockOK
    <3> QED  BY <3>1, <2>5 DEF LockOK, StoredOK
  <2>7. \A i \in Turn + 1 .. Len(calls) : calls[i] \notin ToSet(stored.value)
    <3>1. \A i \in Turn + 1 .. Len(calls) : i \in 1 .. Len(calls) /\ i > Turn
      BY <2>3 DEF LockOK
    <3> QED  BY <3>1, <2>5 DEF LockOK, StoredOK
  <2>8. Atomic!Apply(Turn)
    BY <2>4, <2>6, <2>7 DEF Atomic!Apply, Atomic!ToSet, ToSet
  <2> QED  BY <2>3, <2>8
<1> QED
  BY <1>1, <1>2

LEMMA StepIsAtomic ==
    ASSUME IInv, [Next]_vars
    PROVE  [Atomic!Next]_<<calls, stored.value>>
<1>1. ASSUME NEW r \in up, HubUpdate(r)
      PROVE  [Atomic!Next]_<<calls, stored.value>>
  BY <1>1, RequestApplies DEF HubUpdate, Atomic!Next
<1>2. ASSUME NEW r \in late, HubLateUpdate(r)
      PROVE  [Atomic!Next]_<<calls, stored.value>>
  BY <1>2, RequestApplies DEF HubLateUpdate, Atomic!Next
<1>3. ASSUME NEW w \in HubWrites, HubWrite(w)
      PROVE  [Atomic!Next]_<<calls, stored.value>>
  BY <1>3 DEF HubWrite, SetTo, Atomic!Next, Atomic!HubApply, Atomic!ToSet, ToSet
<1>4. ASSUME NEW u \in Updates, Update(u)
      PROVE  [Atomic!Next]_<<calls, stored.value>>
  <2>1. \A i \in DOMAIN calls : calls[i] # u
    BY <1>4 DEF IInv, LockOK, TypeOK, Update
  <2>2. Atomic!Call(u)
    BY <1>4, <2>1 DEF Update, Atomic!Call, Atomic!ToSet
  <2> QED  BY <2>2 DEF Atomic!Next
<1>5. CASE UNCHANGED <<calls, stored.value>>
  BY <1>5
<1>6. DeleteSession \/ (\E u \in Updates : Resume(u) \/ Attempt(u)) \/ ReceiveAnswer \/ ReceiveUpdate
      \/ LinkNext \/ UNCHANGED vars => UNCHANGED <<calls, stored.value>>
  BY DEF DeleteSession, Resume, Attempt, ReceiveAnswer, ReceiveUpdate, LinkNext, Disconnect, Connect,
         LoseLate, vars
<1> QED
  BY <1>1, <1>2, <1>3, <1>4, <1>5, <1>6 DEF Next, HubNext, CliNext

(***************************************************************************)
(* The compare-and-set protocol of hub and CLI implements AtomicUpdates:   *)
(* updates take effect on the latest value, in call order, none is         *)
(* overwritten, whatever is lost, delayed or sent again.                   *)
(***************************************************************************)
THEOREM Implements == Spec => ImplementsAtomicUpdates
<1>1. Init => Atomic!Init
  BY DEF Init, Atomic!Init
<1>2. IInv /\ [Next]_vars => [Atomic!Next]_<<calls, stored.value>>
  BY StepIsAtomic
<1> QED
  BY <1>1, <1>2, Invariance, PTL DEF Spec, ImplementsAtomicUpdates, Atomic!Spec

-----------------------------------------------------------------------------
(* How often a handler takes effect. *)

\* Where a change occurs in a value.
Occurrences(value, u) == {i \in 1 .. Len(value) : value[i] = u}

\* Requests of old connections that may still apply an update.
LateOf(u) == {r \in late : r.update = u}

\* The update may still be applied on the current connection.
Repeatable(u) ==
    /\ stage[u] # "done"
    /\ ~ (stage[u] = "sent" /\ \E i \in 1 .. Len(down) : down[i].kind = "success")

\* Each break adds one application at most: that of the request, or that of its repetition.
BreaksOK ==
    /\ IsFiniteSet(late)
    /\ \A u \in Updates :
          TimesApplied(u) + Cardinality(LateOf(u)) + (IF Repeatable(u) THEN 1 ELSE 0) <= 1 + breaks

(* An appended change occurs once more, and no other does. *)
LEMMA OccurrencesAppend ==
    ASSUME NEW value \in Values, NEW x, NEW u
    PROVE  /\ IsFiniteSet(Occurrences(value, u)) /\ Cardinality(Occurrences(value, u)) \in Nat
           /\ Cardinality(Occurrences(Append(value, x), u))
                = Cardinality(Occurrences(value, u)) + (IF x = u THEN 1 ELSE 0)
<1>1. value \in Seq(Updates \cup HubWrites)
  BY DEF Values
<1>2. /\ Len(Append(value, x)) = Len(value) + 1 /\ Len(value) \in Nat
      /\ Append(value, x)[Len(value) + 1] = x
      /\ \A i \in 1 .. Len(value) : Append(value, x)[i] = value[i]
  BY <1>1
<1>3. IsFiniteSet(Occurrences(value, u)) /\ Cardinality(Occurrences(value, u)) \in Nat
  <2>1. IsFiniteSet(1 .. Len(value))
    BY <1>2, FS_Interval
  <2>2. Occurrences(value, u) \in SUBSET (1 .. Len(value))
    BY DEF Occurrences
  <2> QED  BY <2>1, <2>2, FS_Subset, FS_CardinalityType
<1>4. Occurrences(Append(value, x), u)
        = IF x = u THEN Occurrences(value, u) \cup {Len(value) + 1} ELSE Occurrences(value, u)
  <2>1. 1 .. Len(Append(value, x)) = (1 .. Len(value)) \cup {Len(value) + 1}
    BY <1>2
  <2> QED  BY <1>2, <2>1 DEF Occurrences
<1>5. Len(value) + 1 \notin Occurrences(value, u)
  BY <1>2 DEF Occurrences
<1>6. Cardinality(Occurrences(value, u) \cup {Len(value) + 1}) = Cardinality(Occurrences(value, u)) + 1
  BY <1>3, <1>5, FS_AddElement
<1>7. Cardinality(Occurrences(value, u)) + 0 = Cardinality(Occurrences(value, u))
  BY <1>3
<1> HIDE DEF Occurrences
<1> QED  BY <1>3, <1>4, <1>6, <1>7

(* What a step makes of the three counts. *)
LEMMA Counts ==
    ASSUME IInv, BreaksOK, NEW u \in Updates
    PROVE  /\ TimesApplied(u) = Cardinality(Occurrences(stored.value, u)) /\ TimesApplied(u) \in Nat
           /\ IsFiniteSet(LateOf(u)) /\ Cardinality(LateOf(u)) \in Nat /\ breaks \in Nat
<1>1. stored.value \in Values /\ breaks \in Nat
  BY MaxBreaksAssumption DEF IInv, TypeOK, Versioned
<1>2. TimesApplied(u) = Cardinality(Occurrences(stored.value, u)) /\ TimesApplied(u) \in Nat
  BY <1>1, OccurrencesAppend DEF TimesApplied, Occurrences
<1>3. LateOf(u) \in SUBSET late
  BY DEF LateOf
<1> QED  BY <1>1, <1>2, <1>3, FS_Subset, FS_CardinalityType DEF BreaksOK

LEMMA RequestCounts ==
    ASSUME IInv, BreaksOK, NEW r \in up \cup late, CompareAndSet(r), NEW u \in Updates
    PROVE  TimesApplied(u)' = TimesApplied(u) + (IF Matches(r) /\ r.update = u THEN 1 ELSE 0)
<1>1. CASE Matches(r)
  <2>1. stored'.value = Append(stored.value, r.update)
    <3>1. r.value = Append(history[r.expected], r.update) /\ history[stored.version] = stored.value
      BY DEF IInv, VersionsOK
    <3>2. stored' = [version |-> stored.version + 1, value |-> r.value] /\ r.expected = stored.version
      BY <1>1 DEF Matches, CompareAndSet, SetTo
    <3> QED  BY <3>1, <3>2
  <2>2. stored.value \in Values
    BY DEF IInv, TypeOK, Versioned
  <2>3. TimesApplied(u)' = Cardinality(Occurrences(stored'.value, u))
    BY DEF TimesApplied, Occurrences
  <2> QED  BY <1>1, <2>1, <2>2, <2>3, Counts, OccurrencesAppend
<1>2. CASE ~Matches(r)
  <2>1. TimesApplied(u)' = TimesApplied(u)
    BY <1>2 DEF CompareAndSet, TimesApplied
  <2>2. TimesApplied(u) \in Nat
    BY Counts
  <2> QED  BY <1>2, <2>1, <2>2
<1> QED  BY <1>1, <1>2

LEMMA HubUpdateCounts ==
    ASSUME IInv, BreaksOK, NEW r \in up, HubUpdate(r)
    PROVE  BreaksOK'
<1>1. /\ CompareAndSet(r) /\ UNCHANGED <<late, stage, breaks>>
      /\ down' = Append(down, Result(r)) /\ down \in Seq(Event)
  BY DEF HubUpdate, IInv, TypeOK
<1>2. r.update \in Updates /\ stage[r.update] = "sent"
  BY DEF IInv, TypeOK, Request, RequestsOK
<1>3. Matches(r) => Result(r).kind = "success"
  BY DEF Matches, Result
<1>4. \A i \in 1 .. Len(down) : i \in 1 .. Len(down') /\ down'[i] = down[i]
  BY <1>1
<1>5. Len(down) + 1 \in 1 .. Len(down') /\ down'[Len(down) + 1] = Result(r)
  BY <1>1
<1>6. \A i \in 1 .. Len(down) : down[i].kind # "success"
  BY DEF IInv, RequestsOK, Answers
<1>7. ASSUME NEW u \in Updates
      PROVE  TimesApplied(u)' + Cardinality(LateOf(u))' + (IF Repeatable(u)' THEN 1 ELSE 0) <= 1 + breaks'
  <2>1. Repeatable(u)' => Repeatable(u)
    BY <1>1, <1>4 DEF Repeatable
  <2>2. Matches(r) /\ r.update = u => Repeatable(u) /\ ~ Repeatable(u)'
    BY <1>1, <1>2, <1>3, <1>5, <1>6 DEF Repeatable
  <2>3. LateOf(u)' = LateOf(u)
    BY <1>1 DEF LateOf
  <2>4. TimesApplied(u)' = TimesApplied(u) + (IF Matches(r) /\ r.update = u THEN 1 ELSE 0)
    BY <1>1, RequestCounts
  <2>5. TimesApplied(u) + Cardinality(LateOf(u)) + (IF Repeatable(u) THEN 1 ELSE 0) <= 1 + breaks
    BY DEF BreaksOK
  <2>6. TimesApplied(u) \in Nat /\ Cardinality(LateOf(u)) \in Nat /\ breaks \in Nat
    BY Counts
  <2>7. Cardinality(LateOf(u))' = Cardinality(LateOf(u)) /\ breaks' = breaks
    BY <1>1, <2>3
  <2>8. CASE Matches(r) /\ r.update = u
    BY <2>2, <2>4, <2>5, <2>6, <2>7, <2>8
  <2>9. CASE ~ (Matches(r) /\ r.update = u)
    BY <2>1, <2>4, <2>5, <2>6, <2>7, <2>9
  <2> QED  BY <2>8, <2>9
<1> QED  BY <1>1, <1>7 DEF BreaksOK

LEMMA HubLateUpdateCounts ==
    ASSUME IInv, BreaksOK, NEW r \in late, HubLateUpdate(r)
    PROVE  BreaksOK'
<1>1. /\ CompareAndSet(r) /\ late' = late \ {r} /\ UNCHANGED <<stage, breaks>>
      /\ down \in Seq(Event)
  BY DEF HubLateUpdate, IInv, TypeOK
<1>2. \A i \in 1 .. Len(down) : i \in 1 .. Len(down') /\ down'[i] = down[i]
  BY <1>1 DEF HubLateUpdate
<1>3. IsFiniteSet(late')
  BY <1>1, FS_RemoveElement DEF BreaksOK
<1>4. ASSUME NEW u \in Updates
      PROVE  TimesApplied(u)' + Cardinality(LateOf(u))' + (IF Repeatable(u)' THEN 1 ELSE 0) <= 1 + breaks'
  <2>1. Repeatable(u)' => Repeatable(u)
    BY <1>1, <1>2 DEF Repeatable
  <2>2. LateOf(u)' = LateOf(u) \ {r} /\ (r \in LateOf(u) <=> r.update = u)
    BY <1>1 DEF LateOf
  <2>3. TimesApplied(u) \in Nat /\ Cardinality(LateOf(u)) \in Nat /\ breaks \in Nat /\ IsFiniteSet(LateOf(u))
    BY Counts
  <2>4. Cardinality(LateOf(u)') = IF r.update = u THEN Cardinality(LateOf(u)) - 1 ELSE Cardinality(LateOf(u))
    BY <2>2, <2>3, FS_RemoveElement
  <2>5. TimesApplied(u)' = TimesApplied(u) + (IF Matches(r) /\ r.update = u THEN 1 ELSE 0)
    BY <1>1, RequestCounts
  <2>6. TimesApplied(u) + Cardinality(LateOf(u)) + (IF Repeatable(u) THEN 1 ELSE 0) <= 1 + breaks
    BY DEF BreaksOK
  <2>7. TimesApplied(u)' + Cardinality(LateOf(u)') <= TimesApplied(u) + Cardinality(LateOf(u))
        /\ TimesApplied(u)' \in Nat /\ Cardinality(LateOf(u)') \in Int
    <3>1. CASE r.update = u
      BY <2>3, <2>4, <2>5, <3>1
    <3>2. CASE r.update # u
      BY <2>3, <2>4, <2>5, <3>2
    <3> QED  BY <3>1, <3>2
  <2>8. breaks' = breaks
    BY <1>1
  <2> QED  BY <2>1, <2>3, <2>6, <2>7, <2>8
<1> QED  BY <1>3, <1>4 DEF BreaksOK

(* A step that applies nothing and makes no update repeatable that was not. *)
LEMMA CountsKept ==
    ASSUME IInv, BreaksOK, late' \subseteq late, breaks' = breaks,
           \A u \in Updates : TimesApplied(u)' = TimesApplied(u) /\ (Repeatable(u)' => Repeatable(u))
    PROVE  BreaksOK'
<1>1. IsFiniteSet(late')
  BY FS_Subset DEF BreaksOK
<1>2. ASSUME NEW u \in Updates
      PROVE  TimesApplied(u)' + Cardinality(LateOf(u))' + (IF Repeatable(u)' THEN 1 ELSE 0) <= 1 + breaks'
  <2>1. LateOf(u)' \in SUBSET LateOf(u)
    BY DEF LateOf
  <2>2. IsFiniteSet(LateOf(u)) /\ TimesApplied(u) \in Nat /\ Cardinality(LateOf(u)) \in Nat /\ breaks \in Nat
    BY Counts
  <2>3. Cardinality(LateOf(u)') <= Cardinality(LateOf(u)) /\ Cardinality(LateOf(u)') \in Nat
    BY <2>1, <2>2, FS_Subset, FS_CardinalityType
  <2>4. TimesApplied(u) + Cardinality(LateOf(u)) + (IF Repeatable(u) THEN 1 ELSE 0) <= 1 + breaks
    BY DEF BreaksOK
  <2> QED  BY <2>2, <2>3, <2>4
<1> QED  BY <1>1, <1>2 DEF BreaksOK

LEMMA DisconnectCounts ==
    ASSUME IInv, BreaksOK, Disconnect
    PROVE  BreaksOK'
<1>1. /\ breaks' = breaks + 1 /\ late' = late \cup up /\ UNCHANGED stored
      /\ stage' = [u \in Updates |-> IF stage[u] = "sent" THEN "inside" ELSE stage[u]]
  BY DEF Disconnect
<1>2. up = {} \/ \E r : up = {r}
  <2>1. \A r, q \in up : r = q
    BY DEF IInv, RequestsOK
  <2>2. \A r \in up : up = {r}
    BY <2>1
  <2> QED  BY <2>2
<1>3. IsFiniteSet(late')
  <2>1. CASE up = {}
    BY <1>1, <2>1 DEF BreaksOK
  <2>2. CASE \E r : up = {r}
    BY <1>1, <2>2, FS_AddElement DEF BreaksOK
  <2> QED  BY <1>2, <2>1, <2>2
<1>4. ASSUME NEW u \in Updates
      PROVE  TimesApplied(u)' + Cardinality(LateOf(u))' + (IF Repeatable(u)' THEN 1 ELSE 0) <= 1 + breaks'
  <2>1. TimesApplied(u)' = TimesApplied(u)
    BY <1>1 DEF TimesApplied
  <2>2. IsFiniteSet(LateOf(u)) /\ TimesApplied(u) \in Nat /\ Cardinality(LateOf(u)) \in Nat /\ breaks \in Nat
    BY Counts
  <2>3. TimesApplied(u) + Cardinality(LateOf(u)) + (IF Repeatable(u) THEN 1 ELSE 0) <= 1 + breaks
    BY DEF BreaksOK
  <2>4. CASE \E r \in up : r.update = u
    <3>1. PICK r \in up : r.update = u
      BY <2>4
    <3>2. up = {r} /\ stage[u] = "sent"
      BY <3>1 DEF IInv, RequestsOK
    <3>3. Repeatable(u)
      BY <3>2 DEF Repeatable, IInv, RequestsOK, Answers
    <3>4. LateOf(u)' = LateOf(u) \cup {r}
      BY <1>1, <3>1, <3>2 DEF LateOf
    <3>5. Cardinality(LateOf(u)') <= Cardinality(LateOf(u)) + 1 /\ Cardinality(LateOf(u)') \in Nat
      BY <2>2, <3>4, FS_AddElement
    <3> QED  BY <1>1, <2>1, <2>2, <2>3, <3>3, <3>5
  <2>5. CASE ~ \E r \in up : r.update = u
    <3>1. LateOf(u)' = LateOf(u)
      BY <1>1, <2>5 DEF LateOf
    <3>2. Cardinality(LateOf(u)') = Cardinality(LateOf(u))
      BY <3>1
    <3> QED  BY <1>1, <2>1, <2>2, <2>3, <3>2
  <2> QED  BY <2>4, <2>5
<1> QED  BY <1>3, <1>4 DEF BreaksOK

LEMMA ReceiveAnswerCounts ==
    ASSUME IInv, BreaksOK, ReceiveAnswer
    PROVE  BreaksOK'
<1> DEFINE e == Head(down)
<1>1. /\ UNCHANGED <<late, breaks, stored>> /\ e = down[1] /\ 1 \in 1 .. Len(down) /\ e.kind \in Answers
      /\ \A i \in 1 .. Len(down') : i + 1 \in 1 .. Len(down) /\ down'[i] = down[i + 1]
  BY TailOfDown DEF ReceiveAnswer, IInv
<1>2. Sender \in Updates /\ stage[Sender] = "sent"
  BY <1>1, SenderHolds DEF IInv
<1>3. \A u \in Updates : stage[u] = "sent" => u = Sender
  BY <1>2, OneHolder DEF IInv, Holding
<1>4. CASE e.kind = "success"
  <2>1. Unlock(Sender) /\ UNCHANGED calls
    BY <1>4 DEF ReceiveAnswer
  <2>2. /\ stage'[Sender] = "done"
        /\ \A v \in Updates : v # Sender =>
              (stage'[v] = stage[v]) \/ (stage[v] = "waiting" /\ stage'[v] = "woken")
    BY <1>2, <2>1, UnlockKeeps DEF IInv
  <2>3. ASSUME NEW u \in Updates, Repeatable(u)'
        PROVE  Repeatable(u)
    <3>1. u # Sender /\ stage[u] # "sent"
      BY <1>3, <2>2, <2>3 DEF Repeatable
    <3>2. stage[u] # "done"
      BY <2>2, <2>3, <3>1 DEF Repeatable
    <3> QED  BY <3>1, <3>2 DEF Repeatable
  <2> QED  BY <1>1, <2>3, CountsKept DEF TimesApplied
<1>5. CASE e.kind # "success"
  <2>1. stage' = [stage EXCEPT ![Sender] = "inside"] /\ stage \in [Updates -> {"idle", "waiting", "woken", "inside", "sent", "done"}]
    BY <1>5 DEF ReceiveAnswer, IInv, TypeOK
  <2>2. \A i \in 1 .. Len(down) : down[i].kind # "success"
    BY <1>1, <1>5 DEF IInv, RequestsOK, Answers
  <2>3. ASSUME NEW u \in Updates, Repeatable(u)'
        PROVE  Repeatable(u)
    BY <1>2, <2>1, <2>2, <2>3 DEF Repeatable
  <2> QED  BY <1>1, <2>3, CountsKept DEF TimesApplied
<1> QED  BY <1>4, <1>5

LEMMA ReceiveUpdateCounts ==
    ASSUME IInv, BreaksOK, ReceiveUpdate
    PROVE  BreaksOK'
<1> DEFINE e == Head(down)
<1>1. /\ UNCHANGED <<late, breaks, stored, stage>> /\ e = down[1] /\ e.kind = "update-session"
      /\ Len(down) \in Nat \ {0} /\ down' = Tail(down) /\ down \in Seq(Event)
  BY TailOfDown DEF ReceiveUpdate, IInv, TypeOK
<1>2. \A i \in 1 .. Len(down) : down[i].kind = "success" => i - 1 \in 1 .. Len(down') /\ down'[i - 1] = down[i]
  <2>1. \A i \in 1 .. Len(down) : down[i].kind = "success" => i # 1
    BY <1>1
  <2>2. \A i \in 2 .. Len(down) : i - 1 \in 1 .. Len(down') /\ down'[i - 1] = down[i]
    BY <1>1
  <2> QED  BY <1>1, <2>1, <2>2
<1>3. \A u \in Updates : Repeatable(u)' => Repeatable(u)
  BY <1>1, <1>2 DEF Repeatable
<1> QED  BY <1>1, <1>3, CountsKept DEF TimesApplied

LEMMA OtherStepsCount ==
    ASSUME IInv, BreaksOK,
           \/ \E w \in HubWrites : HubWrite(w)
           \/ \E u \in Updates : Update(u) \/ Resume(u) \/ Attempt(u)
           \/ DeleteSession \/ Connect \/ (\E r \in late : LoseLate(r)) \/ UNCHANGED vars
    PROVE  BreaksOK'
<1>1. late' \subseteq late /\ UNCHANGED <<breaks, down>>
  BY DEF HubWrite, Update, Resume, Attempt, DeleteSession, Connect, LoseLate, vars
<1>2. \A u \in Updates : TimesApplied(u)' = TimesApplied(u)
  <2>1. CASE \E w \in HubWrites : HubWrite(w)
    <3>1. PICK w \in HubWrites : stored'.value = Append(stored.value, w)
      BY <2>1 DEF HubWrite, SetTo
    <3>2. stored.value \in Values
      BY DEF IInv, TypeOK, Versioned
    <3>3. ASSUME NEW u \in Updates
          PROVE  TimesApplied(u)' = TimesApplied(u)
      <4>1. w # u
        BY UpdatesAssumption
      <4>2. TimesApplied(u)' = Cardinality(Occurrences(stored'.value, u))
        BY DEF TimesApplied, Occurrences
      <4> QED  BY <3>1, <3>2, <4>1, <4>2, Counts, OccurrencesAppend
    <3> QED  BY <3>3
  <2>2. CASE UNCHANGED stored
    BY <2>2 DEF TimesApplied
  <2> QED  BY <2>1, <2>2 DEF Update, Resume, Attempt, DeleteSession, Connect, LoseLate, vars
<1>3. \A u \in Updates : stage'[u] # stage[u] => stage[u] \in {"idle", "woken", "inside"}
  BY DEF HubWrite, Update, Resume, Attempt, DeleteSession, Connect, LoseLate, vars, IInv, TypeOK
<1>4. \A u \in Updates : Repeatable(u)' => Repeatable(u)
  BY <1>1, <1>3 DEF Repeatable
<1> QED  BY <1>1, <1>2, <1>4, CountsKept

(***************************************************************************)
(* A handler is applied again only after the connection broke, once per    *)
(* break: a request that the hub got on an old connection and the          *)
(* repetition of it are the only two that can both count.                  *)
(***************************************************************************)
THEOREM AppliedOnce == Spec => []AppliedOncePerConnection
<1>1. Init => BreaksOK
  <2> SUFFICES ASSUME Init
               PROVE  BreaksOK
    OBVIOUS
  <2>1. late = {} /\ breaks = 0 /\ stored.value = <<>>
    BY DEF Init
  <2>2. \A u \in Updates : LateOf(u) = {} /\ {i \in 1 .. Len(stored.value) : stored.value[i] = u} = {}
    BY <2>1 DEF LateOf
  <2> QED  BY <2>1, <2>2, FS_EmptySet DEF BreaksOK, TimesApplied
<1>2. IInv /\ BreaksOK /\ [Next]_vars => BreaksOK'
  BY HubUpdateCounts, HubLateUpdateCounts, DisconnectCounts, ReceiveAnswerCounts, ReceiveUpdateCounts,
     OtherStepsCount DEF Next, HubNext, CliNext, LinkNext
<1>3. IInv /\ BreaksOK => AppliedOncePerConnection
  <2> SUFFICES ASSUME IInv, BreaksOK, NEW u \in Updates
               PROVE  TimesApplied(u) <= 1 + breaks
    BY DEF AppliedOncePerConnection
  <2>1. TimesApplied(u) \in Nat /\ Cardinality(LateOf(u)) \in Nat /\ breaks \in Nat
    BY Counts
  <2>2. TimesApplied(u) + Cardinality(LateOf(u)) + (IF Repeatable(u) THEN 1 ELSE 0) <= 1 + breaks
    BY DEF BreaksOK
  <2> QED  BY <2>1, <2>2
<1> QED  BY <1>1, <1>2, <1>3, Invariance, PTL DEF Spec
=============================================================================
