--------------------------- MODULE MCMessageStore ---------------------------
(* Small instances of MessageStore for TLC. *)
EXTENDS MessageStore

MCSymmetry == Permutations(LocalIds) \cup Permutations(Sessions)
=============================================================================
