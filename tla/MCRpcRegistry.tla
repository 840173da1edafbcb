--------------------------- MODULE MCRpcRegistry ---------------------------
(* Small instances of RpcRegistry for TLC. *)
EXTENDS RpcRegistry, TLC

MCSymmetry == Permutations(Methods) \cup Permutations(Calls)
=============================================================================
