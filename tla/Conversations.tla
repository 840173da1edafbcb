--------------------------- MODULE Conversations ---------------------------
(***************************************************************************)
(* What the hub promises about the history of the sessions it merges:      *)
(* messages that were shown together stay together.  A conversation is the *)
(* set of messages of one session; it may join another one as a whole, and *)
(* is lost only as a whole, when a user deletes it.                        *)
(***************************************************************************)
CONSTANT Messages

VARIABLES
    shown,      \* the conversations that are not empty
    deleted     \* the messages users deleted

Init == shown = {} /\ deleted = {}

\* A new message continues a conversation, or starts one.
Say(m) ==
    /\ m \notin (UNION shown) \cup deleted
    /\ \E c \in shown \cup {{}} : shown' = (shown \ {c}) \cup {c \cup {m}}
    /\ UNCHANGED deleted

\* Some conversations become one with others.
Join ==
    /\ UNION shown' = UNION shown
    /\ \A c \in shown : \E d \in shown' : c \subseteq d
    /\ \A c, d \in shown' : c \cap d # {} => c = d
    /\ UNCHANGED deleted

Delete(c) ==
    /\ shown' = shown \ {c}
    /\ deleted' = deleted \cup c

Next ==
    \/ \E m \in Messages : Say(m)
    \/ Join
    \/ \E c \in shown : Delete(c)

Spec == Init /\ [][Next]_<<shown, deleted>>
=============================================================================
