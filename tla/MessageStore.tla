---------------------------- MODULE MessageStore ----------------------------
(***************************************************************************)
(* What the messages table promises whoever uses it: the table as a state  *)
(* machine whose steps are the statements of hub/src/store/messages.ts,    *)
(* called in any order by any caller (web routes, socket handlers, session *)
(* merges).  MessageDelivery implements it; MessageDeliveryProofs proves   *)
(* its properties for all values of the constants.                         *)
(***************************************************************************)
EXTENDS MessageTable

vars == <<rows, nextId>>

Init ==
    /\ rows = {}
    /\ nextId = 1

\* Deleting a session deletes its messages: FOREIGN KEY ... ON DELETE CASCADE.
DeleteSession(s) ==
    /\ rows' = rows \ RowsOf(rows, s)
    /\ UNCHANGED nextId

Next == Statement \/ \E s \in Sessions : DeleteSession(s)

Spec == Init /\ [][Next]_vars

-----------------------------------------------------------------------------
TypeOK ==
    /\ rows \subseteq Row
    /\ nextId \in Nat \ {0}

\* Every id was handed out once.
IdIdentifiesRow ==
    \A r1, r2 \in rows : r1.id < nextId /\ (r1.id = r2.id => r1 = r2)
=============================================================================
