----------------------------- MODULE MessageRows -----------------------------
(***************************************************************************)
(* The messages table of the hub (hub/src/store/messages.ts) and the SQL   *)
(* statements run on it, as operators on a set of rows.  Every statement   *)
(* runs synchronously on one SQLite connection, so each is one atomic      *)
(* step of whoever calls it.                                               *)
(*                                                                         *)
(* A row's id is a random UUID in the code: here it is a fresh number, so  *)
(* ids are never used twice and record the order of insertion.             *)
(***************************************************************************)
EXTENDS Integers, FiniteSets, Sequences, SequencesExt

CONSTANTS
    Sessions,   \* session ids
    LocalIds,   \* ids chosen by web clients, one per message they compose
    Contents,   \* what the properties tell apart of a message's content
    Times,      \* values a timestamp can have
    None        \* SQL NULL: no local_id, not invoked yet

ASSUME NoneAssumption == None \notin LocalIds \cup Times

Row == [id : Nat \ {0}, sid : Sessions, seq : Nat \ {0},
        lid : LocalIds \cup {None}, content : Contents,
        created : Times, invoked : Times \cup {None}]

RowsOf(rs, s) == {r \in rs : r.sid = s}

Queued(r) == r.invoked = None

\* Mutation of MaxSeq: the number of rows instead of the largest seq.
CountRows(rs, s) == Cardinality(RowsOf(rs, s))

\* SELECT COALESCE(MAX(seq), 0): 0 exactly when the session has no row.
MaxSeq(rs, s) ==
    IF RowsOf(rs, s) = {} THEN 0
    ELSE CHOOSE m \in {r.seq : r \in RowsOf(rs, s)} :
            \A r \in RowsOf(rs, s) : r.seq <= m

\* The rows a (session_id, local_id) lookup finds.  NULL matches nothing.
WithLocalId(rs, s, l) == {r \in RowsOf(rs, s) : l # None /\ r.lid = l}

\* A message with no localId can never be acknowledged, so it is inserted
\* already invoked.
NewRow(rs, i, s, l, c, now) ==
    [id |-> i, sid |-> s, seq |-> MaxSeq(rs, s) + 1, lid |-> l, content |-> c,
     created |-> now, invoked |-> IF l = None THEN now ELSE None]

\* addMessage: a localId the session already holds is not inserted again.
AddMessage(rs, i, s, l, c, now) ==
    IF WithLocalId(rs, s, l) # {} THEN rs ELSE rs \cup {NewRow(rs, i, s, l, c, now)}

\* getMessagesAfter: the first lim rows beyond a sequence number.
GetMessagesAfter(rs, s, after, lim) ==
    LET found == {r \in RowsOf(rs, s) : r.seq > after}
    IN  {r \in found : Cardinality({q \in found : q.seq < r.seq}) < lim}

\* getUninvokedLocalMessages
UninvokedLocal(rs, s) == {r \in RowsOf(rs, s) : Queued(r) /\ r.lid # None}

\* Mutations of MarkInvoked: without the invoked_at IS NULL condition, and
\* without the condition on local_id.
RestampInvoked(rs, s, lids, now) ==
    {IF r.sid = s /\ r.lid \in lids THEN [r EXCEPT !.invoked = now] ELSE r : r \in rs}

InvokeAll(rs, s, lids, now) ==
    {IF r.sid = s /\ Queued(r) THEN [r EXCEPT !.invoked = now] ELSE r : r \in rs}

\* markMessagesInvoked: the first timestamp stays.
MarkInvoked(rs, s, lids, now) ==
    {IF r.sid = s /\ r.lid \in lids /\ Queued(r)
       THEN [r EXCEPT !.invoked = now] ELSE r : r \in rs}

\* deleteQueuedMessageById, the DELETE of cancelQueuedMessage: i is a row id.
DeleteQueued(rs, s, i) == {r \in rs : ~(r.sid = s /\ r.id = i /\ Queued(r))}

\* Mutation of CollidingLids: collisions are not looked for.
NoCollidingLids(rs, from, to) == {}

\* mergeSessionMessages: the rows of one session move into another, before
\* the rows already there.  A localId both hold stays with the newer copy.
CollidingLids(rs, from, to) ==
    ({r.lid : r \in RowsOf(rs, from)} \cap {r.lid : r \in RowsOf(rs, to)}) \ {None}

\* Mutation of Renumbered: only the rows whose seq is taken are renumbered.
RenumberedIfTaken(rs, from, r) ==
    IF r.seq <= MaxSeq(rs, from) THEN [r EXCEPT !.seq = @ + MaxSeq(rs, from)] ELSE r

Renumbered(rs, from, r) == [r EXCEPT !.seq = @ + MaxSeq(rs, from)]

\* Mutation of Merged: a colliding row loses its localId but stays queued.
MergedQueued(rs, from, to, r) ==
    CASE r.sid = to -> Renumbered(rs, from, r)
      [] r.sid = from /\ r.lid \in CollidingLids(rs, from, to) ->
            [r EXCEPT !.sid = to, !.lid = None]
      [] OTHER -> [r EXCEPT !.sid = IF @ = from THEN to ELSE @]

Merged(rs, from, to, r) ==
    CASE r.sid = to -> Renumbered(rs, from, r)
      [] r.sid = from /\ r.lid \in CollidingLids(rs, from, to) ->
            [r EXCEPT !.sid = to, !.lid = None,
                      !.invoked = IF @ = None THEN r.created ELSE @]
      [] r.sid = from /\ r.lid \notin CollidingLids(rs, from, to) ->
            [r EXCEPT !.sid = to]
      [] OTHER -> r

MergeSessionMessages(rs, from, to) ==
    IF from = to THEN rs ELSE {Merged(rs, from, to, r) : r \in rs}
=============================================================================
