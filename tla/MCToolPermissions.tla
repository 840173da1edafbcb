-------------------------- MODULE MCToolPermissions --------------------------
(* A small instance of ToolPermissions for TLC. *)
EXTENDS ToolPermissions

CONSTANTS k1, k2

MCKind == <<k1, k2, k2>>
=============================================================================
