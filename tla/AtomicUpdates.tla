--------------------------- MODULE AtomicUpdates ---------------------------
(***************************************************************************)
(* What updateMetadata and updateAgentState promise their callers: a       *)
(* handler is applied to the latest value in one step, the handlers of one *)
(* CLI take effect in the order they were given, and nobody's change is    *)
(* ever overwritten.  A handler may be applied more than once in a row     *)
(* (its answer may be lost).  A value is the sequence of the changes that  *)
(* made it.                                                                *)
(***************************************************************************)
EXTENDS Sequences, SequencesExt

CONSTANTS
    Updates,        \* calls of updateMetadata (or updateAgentState) in the CLI
    HubWrites       \* changes the hub makes itself (rename, merge, recovery)

VARIABLES
    calls,          \* the CLI's updates, in the order they were called
    value           \* the stored value

Init == calls = <<>> /\ value = <<>>

Call(u) ==
    /\ u \notin ToSet(calls)
    /\ calls' = Append(calls, u)
    /\ UNCHANGED value

\* The k-th update is applied after all those called before it and before those after it.
Apply(k) ==
    /\ \A i \in 1 .. k - 1 : calls[i] \in ToSet(value)
    /\ \A i \in k + 1 .. Len(calls) : calls[i] \notin ToSet(value)
    /\ value' = Append(value, calls[k])
    /\ UNCHANGED calls

HubApply(w) ==
    /\ w \notin ToSet(value)
    /\ value' = Append(value, w)
    /\ UNCHANGED calls

Next ==
    \/ \E u \in Updates : Call(u)
    \/ \E k \in 1 .. Len(calls) : Apply(k)
    \/ \E w \in HubWrites : HubApply(w)

Spec == Init /\ [][Next]_<<calls, value>>
=============================================================================
