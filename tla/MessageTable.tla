---------------------------- MODULE MessageTable ----------------------------
(***************************************************************************)
(* The messages table as state, with the statements on it as steps, and    *)
(* what is to hold of it whoever uses it: MessageStore lets any statement  *)
(* be run at any time, MessageDelivery those of its protocol.              *)
(***************************************************************************)
EXTENDS MessageRows

CONSTANT MaxRows    \* bound: rows ever inserted

VARIABLES
    rows,           \* the table
    nextId          \* the id the next inserted row gets

-----------------------------------------------------------------------------
(* The statements of hub/src/store/messages.ts. *)

Add(s, l, c, now) ==
    /\ nextId <= MaxRows
    /\ rows' = AddMessage(rows, nextId, s, l, c, now)
    /\ nextId' = nextId + 1

MarkMessagesInvoked(s, lids, now) ==
    /\ rows' = MarkInvoked(rows, s, lids, now)
    /\ UNCHANGED nextId

DeleteQueuedMessage(s, i) ==
    /\ rows' = DeleteQueued(rows, s, i)
    /\ UNCHANGED nextId

Merge(from, to) ==
    /\ rows' = MergeSessionMessages(rows, from, to)
    /\ UNCHANGED nextId

Statement ==
    \/ \E s \in Sessions, l \in LocalIds \cup {None}, c \in Contents, now \in Times :
          Add(s, l, c, now)
    \/ \E s \in Sessions, lids \in SUBSET LocalIds, now \in Times :
          MarkMessagesInvoked(s, lids, now)
    \/ \E s \in Sessions, i \in 1 .. nextId : DeleteQueuedMessage(s, i)
    \/ \E from, to \in Sessions : Merge(from, to)

-----------------------------------------------------------------------------
(***************************************************************************)
(* No two rows of a session have the same sequence number, also after      *)
(* merges: the CLI's cursor (lastSeenMessageSeq) and the backfill query    *)
(* tell messages apart by nothing else.                                    *)
(***************************************************************************)
SeqIdentifiesRow ==
    \A r1, r2 \in rows : r1.sid = r2.sid /\ r1.seq = r2.seq => r1 = r2

(***************************************************************************)
(* A session holds a localId at most once, so a POST that is sent again    *)
(* adds nothing and a merge never trips the UNIQUE index on (session_id,   *)
(* local_id), which would roll it back.                                    *)
(***************************************************************************)
LocalIdIdentifiesRow ==
    \A r1, r2 \in rows :
        r1.sid = r2.sid /\ r1.lid = r2.lid /\ r1.lid # None => r1 = r2

(***************************************************************************)
(* Every queued row still has the localId that markMessagesInvoked needs   *)
(* to find it; a merge that clears a colliding localId invokes the row.    *)
(***************************************************************************)
QueuedHasAckPath == \A r \in rows : Queued(r) => r.lid # None

(***************************************************************************)
(* First write wins: once a row is invoked its timestamp (its position in  *)
(* the thread) never changes, and no statement removes it, no cancellation *)
(* and no merge; only with its session is it deleted.                      *)
(***************************************************************************)
InvokedKept ==
    \A r \in rows : ~Queued(r) =>
        \E q \in rows' : q.id = r.id /\ q.invoked = r.invoked
InvokedIsFinal == [][InvokedKept \/ ~Statement]_<<rows, nextId>>

(***************************************************************************)
(* No statement reorders a conversation: of two rows of one session that   *)
(* both stay, the earlier stays the earlier, and a merge that moves one    *)
(* moves the other along.                                                  *)
(***************************************************************************)
OrderKeptStep ==
    \A r1, r2 \in rows : r1.sid = r2.sid /\ r1.seq < r2.seq =>
        \A q1, q2 \in rows' : q1.id = r1.id /\ q2.id = r2.id =>
            q1.sid = q2.sid /\ q1.seq < q2.seq
OrderKept == [][OrderKeptStep]_<<rows, nextId>>
=============================================================================
