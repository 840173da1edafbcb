-------------------------- MODULE MCVersionedState --------------------------
(* Small instances of VersionedState for TLC. *)
EXTENDS VersionedState, TLC

MCSymmetry == Permutations(Updates) \cup Permutations(HubWrites)
=============================================================================
