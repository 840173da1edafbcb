----------------------------- MODULE InputQueue -----------------------------
(***************************************************************************)
(* What MessageQueue2 does with the messages for an agent: a list in which *)
(* neighbours of one mode are taken together, and a command (/clear,       *)
(* /compact) drops what waits before it and is taken alone.                *)
(***************************************************************************)
EXTENDS Naturals, Sequences, FiniteSets

Commands == {"clear", "compact"}

Isolated(item) == item.kind \in Commands

\* push for a message, pushIsolateAndClear for a command.
Pushed(q, item) == Append(IF Isolated(item) THEN <<>> ELSE q, item)

Unshifted(q, item) == <<item>> \o q

Cancelled(q, i) == SubSeq(q, 1, i - 1) \o SubSeq(q, i + 1, Len(q))

\* How many items collectBatch takes from a queue that is not empty.
BatchLength(q) ==
    IF Isolated(q[1]) THEN 1
    ELSE Cardinality({n \in DOMAIN q :
                        \A i \in 1..n : q[i].mode = q[1].mode /\ ~Isolated(q[i])})

Batch(q) == SubSeq(q, 1, BatchLength(q))
Rest(q) == SubSeq(q, BatchLength(q) + 1, Len(q))

Ids(q) == [i \in DOMAIN q |-> q[i].id]
=============================================================================
