--------------------------- MODULE MCSessionCache ---------------------------
(* Small instances of SessionCache for TLC. *)
EXTENDS SessionCache, TLC

MCSymmetry == Permutations(Threads) \cup Permutations(Started)
=============================================================================
