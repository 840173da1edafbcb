-------------------------- MODULE MCMessageDelivery --------------------------
(* Small instances of MessageDelivery for TLC. *)
EXTENDS MessageDelivery

MCTimes == {"add", "ack", "cancel", "end"}
MCContents == {"user", "agent"}

\* No localId is told from another while none is isolating.
MCSymmetry == Permutations(LocalIds)
=============================================================================
