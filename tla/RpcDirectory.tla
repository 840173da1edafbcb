---------------------------- MODULE RpcDirectory ----------------------------
(***************************************************************************)
(* What the RPC registry promises: each method leads to the connection     *)
(* that registered it last, and a connection that goes takes with it the   *)
(* methods that lead to it and no others.                                  *)
(***************************************************************************)
EXTENDS Naturals

CONSTANTS
    Methods,        \* scoped method names
    MaxConnections  \* bound: connections are 1 .. MaxConnections

VARIABLES
    owner,          \* the connection each method leads to, 0 for none
    open            \* the connections that are open

Init == owner = [m \in Methods |-> 0] /\ open = {}

Open(c) ==
    /\ c \notin open
    /\ open' = open \cup {c}
    /\ UNCHANGED owner

Register(m, c) ==
    /\ c \in open
    /\ owner' = [owner EXCEPT ![m] = c]
    /\ UNCHANGED open

Close(gone) ==
    /\ open' = open \ gone
    /\ owner' = [m \in Methods |-> IF owner[m] \in gone THEN 0 ELSE owner[m]]

Next ==
    \/ \E c \in 1 .. MaxConnections : Open(c)
    \/ \E m \in Methods, c \in 1 .. MaxConnections : Register(m, c)
    \/ \E gone \in SUBSET (1 .. MaxConnections) : Close(gone)

Spec == Init /\ [][Next]_<<owner, open>>
=============================================================================
