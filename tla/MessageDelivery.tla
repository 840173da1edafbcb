--------------------------- MODULE MessageDelivery ---------------------------
(***************************************************************************)
(* How a user's message travels from a web tab through the hub to the      *)
(* agent of one session, and how it is cancelled, acknowledged, recovered  *)
(* after a reconnect and written off at session end.                       *)
(*                                                                         *)
(*   web tab --POST/DELETE--> hub (messages table, MessageService)         *)
(*   hub --room broadcast "update"--> CLI (ApiSessionClient)               *)
(*   CLI --GET messages?afterSeq--> hub            (backfill)              *)
(*   CLI --messages-consumed, ack, session-end--> hub                      *)
(*                                                                         *)
(* The hub and the CLI are single-threaded: an action is the code that     *)
(* runs between two awaits.  One CLI process serves the session for its    *)
(* whole life, over a sequence of Socket.IO connections.                   *)
(***************************************************************************)
EXTENDS MessageTable

CONSTANTS
    Sid,            \* the session; the other Sessions are merged into it
    Tabs,           \* web tabs, each with at most one request in flight
    Isolating,      \* localIds of /clear and /compact messages
    PageLimit,      \* rows of a backfill page (200 in the code)
    MaxConns,       \* bound: connections of the CLI
    Events          \* bound: the optional events of an instance, among "output",
                    \* "expire", "end" and "exit"

ASSUME DeliveryAssumption ==
    /\ Sid \in Sessions
    /\ Isolating \subseteq LocalIds
    /\ PageLimit \in Nat \ {0} /\ MaxRows \in Nat /\ MaxConns \in Nat
    /\ {"user", "agent"} \subseteq Contents
    \* An invocation time is known by what stamped it.
    /\ {"add", "ack", "cancel", "end"} \subseteq Times

VARIABLES
    \* hub, besides the messages table
    active,         \* session.active in the cache
    room,           \* connections in the socket room session:<sid>
    tab,            \* tab[t]: the request the hub is serving for t
    \* network, for the current connection
    down,           \* packets on their way to the CLI
    up,             \* packets emitted by the CLI, buffered while it is offline
    \* CLI
    cli,            \* "running", "ending" (session-end sent) or "gone"
    conn,           \* current connection, 0 when disconnected
    conns,          \* connections made so far
    ready,          \* the message and cancel callbacks are registered
    pending,        \* pendingMessages: received before ready
    queue,          \* the MessageQueue2
    lastSeen,       \* lastSeenMessageSeq, 0 for null
    fetch,          \* the backfill request in flight
    \* history
    ran,            \* items handed to the agent, oldest first
    withdrawn,      \* rows whose item a cancellation took off the queue
    reported        \* rows a DELETE answered 'cancelled' for

storeVars   == <<rows, nextId>>
hubVars     == <<active, room, tab>>
netVars     == <<down, up>>
connVars    == <<cli, conn, conns>>
clientVars  == <<ready, pending, queue, lastSeen, fetch>>
historyVars == <<ran, withdrawn, reported>>
vars == <<storeVars, hubVars, netVars, connVars, clientVars, historyVars>>

Idle == [st |-> "idle"]
NoFetch == [st |-> "none"]

Init ==
    /\ rows = {} /\ nextId = 1
    /\ active = FALSE /\ room = {}
    /\ tab = [t \in Tabs |-> Idle]
    /\ down = <<>> /\ up = <<>>
    /\ cli = "running" /\ conn = 0 /\ conns = 0
    /\ ready = FALSE /\ pending = <<>> /\ queue = <<>>
    /\ lastSeen = 0 /\ fetch = NoFetch
    /\ ran = <<>> /\ withdrawn = {} /\ reported = {}

\* The row addMessage returns for a POST: the one that holds the localId, or a
\* new one.
Added(l) ==
    IF WithLocalId(rows, Sid, l) # {} THEN CHOOSE r \in WithLocalId(rows, Sid, l) : TRUE
    ELSE NewRow(rows, nextId, Sid, l, "user", "add")

\* A broadcast to the room reaches the CLI over its current connection only:
\* a connection it has left stays in the room until the hub notices.
Broadcast(p) == down' = IF conn \in room THEN Append(down, p) ELSE down

-----------------------------------------------------------------------------
(* The hub serves web requests. *)

\* POST messages: the session is active when the request arrives, but the
\* body, whose localId is optional, is awaited before the message is stored.
PostBegin(t, l) ==
    /\ tab[t] = Idle
    /\ active
    /\ tab' = [tab EXCEPT ![t] = [st |-> "posting", lid |-> l]]
    /\ UNCHANGED <<storeVars, active, room, netVars, connVars, clientVars, historyVars>>

\* sendMessage: store the message, or find it again when the POST is a retry,
\* and send the row to the CLI either way.
PostStore(t) ==
    LET l == tab[t].lid
    IN  /\ tab[t].st = "posting"
        /\ nextId <= MaxRows
        /\ rows' = AddMessage(rows, nextId, Sid, l, "user", "add")
        /\ nextId' = nextId + 1
        /\ Broadcast([t |-> "message", row |-> Added(l)])
        /\ tab' = [tab EXCEPT ![t] = Idle]
        /\ UNCHANGED <<active, room, up, connVars, clientVars, historyVars>>

\* DELETE of a queued message while no CLI is in the room: the row goes.  (A
\* message that is absent or invoked is answered without any change.)
CancelOffline(t, l) ==
    /\ tab[t] = Idle
    /\ \E r \in WithLocalId(rows, Sid, l) :
          /\ Queued(r)
          /\ room = {}
          /\ rows' = DeleteQueued(rows, Sid, r.id)
          /\ reported' = reported \cup {r.id}
    /\ UNCHANGED <<nextId, hubVars, netVars, connVars, clientVars, ran, withdrawn>>

\* DELETE of a queued message otherwise: ask the room to withdraw it.
CancelAsk(t, l) ==
    /\ tab[t] = Idle
    /\ \E r \in WithLocalId(rows, Sid, l) :
          /\ Queued(r)
          /\ room # {}
          /\ tab' = [tab EXCEPT ![t] = [st |-> "cancelling", lid |-> l, id |-> r.id,
                                        removed |-> FALSE, asked |-> room]]
          /\ Broadcast([t |-> "cancel", tab |-> t, id |-> r.id, lid |-> l])
    /\ UNCHANGED <<storeVars, active, room, up, connVars, clientVars, historyVars>>

\* Mutations of Settle: the row of a withdrawn message is not deleted, and it is
\* deleted whether or not it has been invoked meanwhile.
SettleForgets(t, removed) ==
    LET l  == tab[t].lid
        id == tab[t].id
    IN  /\ rows' = IF removed THEN rows ELSE MarkInvoked(rows, Sid, {l}, "cancel")
        /\ reported' = IF removed \/ WithLocalId(rows', Sid, l) = {}
                         THEN reported \cup {id} ELSE reported
        /\ tab' = [tab EXCEPT ![t] = Idle]

SettleDeletes(t, removed) ==
    /\ rows' = {r \in rows : r.id # tab[t].id}
    /\ reported' = reported \cup {tab[t].id}
    /\ tab' = [tab EXCEPT ![t] = Idle]

\* The cancel request is decided.  If some socket removed the item the row
\* goes.  If none did, the message is stamped as invoked, and a row that is
\* gone by now counts as cancelled.
Settle(t, removed) ==
    LET l  == tab[t].lid
        id == tab[t].id
    IN  /\ rows' = IF removed THEN DeleteQueued(rows, Sid, id)
                              ELSE MarkInvoked(rows, Sid, {l}, "cancel")
        /\ reported' = IF removed \/ WithLocalId(rows', Sid, l) = {}
                         THEN reported \cup {id} ELSE reported
        /\ tab' = [tab EXCEPT ![t] = Idle]

\* Not every socket that was asked answered within 500 ms.
CancelTimeout(t) ==
    /\ tab[t].st = "cancelling"
    /\ Settle(t, tab[t].removed)
    /\ UNCHANGED <<nextId, active, room, netVars, connVars, clientVars, ran, withdrawn>>

\* Another session, which ran or waits to be resumed, has a history of its own:
\* rows with and without localId, also ones this session holds, queued or not ...
OldSessionMessage(s, l, c) ==
    /\ nextId <= MaxRows
    /\ l # None => c = "user"
    /\ rows' = AddMessage(rows, nextId, s, l, c, "add")
    /\ nextId' = nextId + 1
    /\ UNCHANGED <<hubVars, netVars, connVars, clientVars, historyVars>>

OldSessionEnd(s) ==
    /\ rows' = MarkInvoked(rows, s, {r.lid : r \in UninvokedLocal(rows, s)}, "end")
    /\ UNCHANGED <<nextId, hubVars, netVars, connVars, clientVars, historyVars>>

\* ... which moves in (a resume, or a duplicate found).
MergeIn(s) ==
    /\ RowsOf(rows, s) # {}
    /\ rows' = MergeSessionMessages(rows, s, Sid)
    /\ UNCHANGED <<nextId, hubVars, netVars, connVars, clientVars, historyVars>>

-----------------------------------------------------------------------------
(* The hub handles what the CLI emitted. *)

Receive(p) ==
    /\ up # <<>> /\ conn # 0
    /\ Head(up) = p
    /\ up' = Tail(up)

HubMessagesConsumed ==
    \E p \in {up[i] : i \in 1 .. Len(up)} :
        /\ Receive(p)
        /\ p.t = "consumed"
        /\ rows' = MarkInvoked(rows, Sid, p.lids \cap LocalIds, "ack")
        /\ UNCHANGED <<nextId, hubVars, down, connVars, clientVars, historyVars>>

\* The answer of one socket to the cancel request of t: the last one decides
\* it, and one to a request that is no longer waiting is dropped.
HubCancelAck(t) ==
    \E p \in {up[i] : i \in 1 .. Len(up)} :
        LET waiting == tab[t].st = "cancelling" /\ tab[t].id = p.id
            removed == tab[t].removed \/ p.removed
            asked   == tab[t].asked \ {conn}
        IN  /\ Receive(p)
            /\ p.t = "ack" /\ p.tab = t
            /\ \/ ~waiting /\ UNCHANGED <<rows, tab, reported>>
               \/ waiting /\ asked = {} /\ Settle(t, removed)
               \/ /\ waiting /\ asked # {}
                  /\ tab' = [tab EXCEPT ![t].removed = removed, ![t].asked = asked]
                  /\ UNCHANGED <<rows, reported>>
            /\ UNCHANGED <<nextId, active, room, down, connVars, clientVars, ran, withdrawn>>

HubSessionAlive ==
    /\ Receive([t |-> "alive"])
    /\ active' = TRUE
    /\ UNCHANGED <<storeVars, room, tab, down, connVars, clientVars, historyVars>>

\* session-end invokes whatever is still queued: nobody will acknowledge it.
HubSessionEnd ==
    /\ Receive([t |-> "end"])
    /\ rows' = MarkInvoked(rows, Sid, {r.lid : r \in UninvokedLocal(rows, Sid)}, "end")
    /\ active' = FALSE
    /\ UNCHANGED <<nextId, room, tab, down, connVars, clientVars, ran, withdrawn, reported>>

\* The hub finds that a connection is dead.
HubDisconnect(c) ==
    /\ c \in room /\ c # conn
    /\ room' = room \ {c}
    /\ UNCHANGED <<storeVars, active, tab, netVars, connVars, clientVars, historyVars>>

\* expireInactive: 30 seconds without a heartbeat.
Expire ==
    /\ "expire" \in Events
    /\ active /\ conn = 0
    /\ active' = FALSE
    /\ UNCHANGED <<storeVars, room, tab, netVars, connVars, clientVars, historyVars>>

-----------------------------------------------------------------------------
(* The CLI. *)

Item(row) == [id |-> row.id, lid |-> row.lid]

IsUserRow(row) == row.content = "user"

\* Mutation of PushAll: a new message goes to the front.
UnshiftAll(q, items) == items \o q

\* The message callback for a run of messages: each is queued, and a /clear
\* or /compact first drops everything before it (pushIsolateAndClear).
PushAll(q, items) ==
    LET clears == {i \in 1 .. Len(items) : items[i].lid \in Isolating}
    IN  IF clears = {} THEN q \o items ELSE SubSeq(items, Max(clears), Len(items))

\* Mutation of Fresh: seq < lastSeen for seq <= lastSeen.
FreshOrEqual(page) == {r \in page : r.seq >= lastSeen}

\* Rows not beyond the last seen sequence number are dropped.
Fresh(page) == {r \in page : r.seq > lastSeen}

\* The rows of a set, one after the other, by ascending sequence number.
Ascending(rs) ==
    {s \in [1 .. Cardinality(rs) -> rs] : \A i, j \in DOMAIN s : i < j => s[i].seq < s[j].seq}

\* handleIncomingMessage for rows in ascending order: of those that are new to
\* the CLI, user messages go to the callback.
HandleIncoming(page) ==
    LET seen == {lastSeen} \cup {r.seq : r \in Fresh(page)}
    IN  /\ lastSeen' \in seen /\ \A n \in seen : n <= lastSeen'
        /\ \E users \in Ascending({r \in Fresh(page) : IsUserRow(r)}) :
              LET items == [i \in DOMAIN users |-> Item(users[i])]
              IN  /\ queue' = IF ready THEN PushAll(queue, items) ELSE queue
                  /\ pending' = IF ready THEN pending ELSE pending \o items

\* Connecting joins the room, flushes what was emitted meanwhile and then, on a
\* reconnect that knows where it was, asks for what it missed.  A backfill still
\* in flight is joined instead of starting another.
Connect ==
    /\ cli # "gone" /\ conn = 0 /\ conns < MaxConns
    /\ conn' = conns + 1 /\ conns' = conns + 1
    /\ room' = room \cup {conn'}
    /\ up' = Append(up, [t |-> "alive"])
    /\ fetch' = IF conns > 0 /\ lastSeen > 0 /\ fetch = NoFetch
                  THEN [st |-> "asked", cursor |-> lastSeen] ELSE fetch
    /\ UNCHANGED <<storeVars, active, tab, down, cli, ready, pending, queue, lastSeen,
                   historyVars>>

\* The connection breaks: what was under way in either direction is lost.
Disconnect ==
    /\ conn # 0
    /\ conn' = 0
    /\ down' = <<>> /\ up' = <<>>
    /\ UNCHANGED <<storeVars, hubVars, cli, conns, clientVars, historyVars>>

\* The agent's runner registers its callbacks and gets what arrived before.
RegisterCallbacks ==
    /\ cli = "running" /\ ~ready
    /\ ready' = TRUE
    /\ queue' = PushAll(queue, pending)
    /\ pending' = <<>>
    /\ UNCHANGED <<storeVars, hubVars, netVars, connVars, lastSeen, fetch, historyVars>>

ReceiveMessage ==
    /\ down # <<>> /\ Head(down).t = "message"
    /\ HandleIncoming({Head(down).row})
    /\ down' = Tail(down)
    /\ UNCHANGED <<storeVars, hubVars, up, connVars, ready, fetch, historyVars>>

\* Mutation of CancelByLocalId: the item is found but not spliced out.
CancelNothing(q, l) == q

Hits(q, l) == {i \in 1 .. Len(q) : q[i].lid = l}

\* cancelByLocalId: the queue without its first item with the localId.
CancelByLocalId(q, l) ==
    IF Hits(q, l) = {} THEN q ELSE RemoveAt(q, Min(Hits(q, l)))

\* cancel-queued-message: the answer is whether there was such an item.
ReceiveCancel ==
    LET p    == Head(down)
        hits == Hits(queue, p.lid)
    IN  /\ down # <<>> /\ p.t = "cancel"
        /\ down' = Tail(down)
        /\ queue' = CancelByLocalId(queue, p.lid)
        /\ withdrawn' = IF hits = {} THEN withdrawn ELSE withdrawn \cup {queue[Min(hits)].id}
        /\ up' = Append(up, [t |-> "ack", tab |-> p.tab, id |-> p.id, removed |-> hits # {}])
        /\ UNCHANGED <<storeVars, hubVars, connVars, ready, pending, lastSeen, fetch,
                       ran, reported>>

\* The hub answers the backfill request ...
FetchServe ==
    /\ fetch.st = "asked"
    /\ fetch' = [st |-> "answered", cursor |-> fetch.cursor,
                 page |-> GetMessagesAfter(rows, Sid, fetch.cursor, PageLimit)]
    /\ UNCHANGED <<storeVars, hubVars, netVars, connVars, ready, pending, queue, lastSeen,
                   historyVars>>

\* ... and the CLI handles the page and asks for the next one after a full page.
FetchDone ==
    LET page == fetch.page
        next == Max({fetch.cursor, lastSeen'} \cup {r.seq : r \in page})
    IN  /\ fetch.st = "answered"
        /\ HandleIncoming(page)
        /\ fetch' = IF Cardinality(page) = PageLimit /\ next > fetch.cursor
                      THEN [st |-> "asked", cursor |-> next] ELSE NoFetch
        /\ UNCHANGED <<storeVars, hubVars, netVars, connVars, ready, historyVars>>

\* The request fails or times out: the next reconnect starts over.
FetchFail ==
    /\ fetch # NoFetch
    /\ fetch' = NoFetch
    /\ UNCHANGED <<storeVars, hubVars, netVars, connVars, ready, pending, queue, lastSeen,
                   historyVars>>

\* collectBatch takes an isolated item alone, else items up to one, or up to one
\* that was queued for another mode.
BatchLengths ==
    IF queue[1].lid \in Isolating THEN {1}
    ELSE {n \in 1 .. Len(queue) : \A i \in 1 .. n : queue[i].lid \notin Isolating}

EmitMessagesConsumed(lids) ==
    up' = IF lids = {} THEN up ELSE Append(up, [t |-> "consumed", lids |-> lids])

\* The agent loop takes a batch and acknowledges the localIds in it.
Consume ==
    /\ cli # "gone" /\ ready /\ queue # <<>>
    /\ \E n \in BatchLengths :
          /\ queue' = SubSeq(queue, n + 1, Len(queue))
          /\ ran' = ran \o SubSeq(queue, 1, n)
          /\ EmitMessagesConsumed({queue[i].lid : i \in 1 .. n} \ {None})
    /\ UNCHANGED <<storeVars, hubVars, down, connVars, ready, pending, lastSeen, fetch,
                   withdrawn, reported>>

\* The CLI reports what its agent said, or what the user typed into its
\* terminal: a row with no localId, broadcast to the other connections only.
Output(c) ==
    /\ "output" \in Events
    /\ cli = "running" /\ conn # 0 /\ up = <<>>
    /\ nextId <= MaxRows
    /\ rows' = AddMessage(rows, nextId, Sid, None, c, "add")
    /\ nextId' = nextId + 1
    /\ UNCHANGED <<hubVars, netVars, connVars, clientVars, historyVars>>

\* Cleanup at the end: session-end, then close.
SessionEnd ==
    /\ "end" \in Events
    /\ cli = "running"
    /\ cli' = "ending"
    /\ up' = Append(up, [t |-> "end"])
    /\ UNCHANGED <<storeVars, hubVars, down, conn, conns, clientVars, historyVars>>

\* The process closes its socket after the flush, or dies at any time.
Exit ==
    /\ "exit" \in Events
    /\ cli # "gone"
    /\ cli' = "gone" /\ conn' = 0
    /\ down' = <<>> /\ up' = <<>>
    /\ fetch' = NoFetch
    /\ UNCHANGED <<storeVars, hubVars, conns, ready, pending, queue, lastSeen, historyVars>>

-----------------------------------------------------------------------------
WebRequest ==
    \E t \in Tabs :
        \/ \E l \in LocalIds \cup {None} : PostBegin(t, l)
        \/ \E l \in LocalIds : CancelOffline(t, l) \/ CancelAsk(t, l)
        \/ PostStore(t) \/ CancelTimeout(t)

HubHandler ==
    \/ HubMessagesConsumed \/ HubSessionAlive \/ HubSessionEnd \/ FetchServe
    \/ \E t \in Tabs : HubCancelAck(t)

HubEvent ==
    \/ \E c \in room : HubDisconnect(c)
    \/ Expire
    \/ \E s \in Sessions \ {Sid} :
          \/ MergeIn(s) \/ OldSessionEnd(s)
          \/ \E l \in LocalIds \cup {None}, c \in {"user", "agent"} : OldSessionMessage(s, l, c)

CliStep ==
    \/ ReceiveMessage \/ ReceiveCancel \/ FetchDone \/ FetchFail
    \/ RegisterCallbacks \/ Consume
    \/ \E c \in {"user", "agent"} : Output(c)

CliLife == Connect \/ Disconnect \/ SessionEnd \/ Exit

Next == WebRequest \/ HubHandler \/ HubEvent \/ CliStep \/ CliLife

Spec == Init /\ [][Next]_vars

-----------------------------------------------------------------------------
Items == [id : 1 .. MaxRows, lid : LocalIds \cup {None}]

TypeOK ==
    /\ rows \subseteq Row /\ nextId \in 1 .. MaxRows + 1
    /\ active \in BOOLEAN /\ room \subseteq 1 .. MaxConns
    /\ \A t \in Tabs : tab[t].st \in {"idle", "posting", "cancelling"}
    /\ \A i \in 1 .. Len(down) : down[i].t \in {"message", "cancel"}
    /\ \A i \in 1 .. Len(up) : up[i].t \in {"alive", "consumed", "ack", "end"}
    /\ cli \in {"running", "ending", "gone"}
    /\ conns \in 0 .. MaxConns /\ conn \in {0, conns}
    /\ ready \in BOOLEAN /\ lastSeen \in Nat
    /\ fetch.st \in {"none", "asked", "answered"}
    /\ pending \in Seq(Items) /\ queue \in Seq(Items) /\ ran \in Seq(Items)
    /\ withdrawn \cup reported \subseteq 1 .. MaxRows

RanIds == {ran[i].id : i \in 1 .. Len(ran)}

(***************************************************************************)
(* The messages table is used only as MessageStore allows.                 *)
(***************************************************************************)
Store == INSTANCE MessageStore
ImplementsStore == Store!Spec

(***************************************************************************)
(* The agent gets a message at most once, however often it is re-sent,     *)
(* broadcast again and backfilled.  (Until a merge renumbers the session.) *)
(***************************************************************************)
RanAtMostOnce ==
    \A i, j \in 1 .. Len(ran) : ran[i].id = ran[j].id => i = j

(***************************************************************************)
(* The agent gets messages in the order they were stored, live or          *)
(* backfilled; only a message deleted meanwhile may come late.             *)
(***************************************************************************)
RanInOrder ==
    \A i, j \in 1 .. Len(ran) :
        LET seqOf(k) == {r.seq : r \in {r \in rows : r.id = ran[k].id}}
        IN  i < j => \A m \in seqOf(i), n \in seqOf(j) : m < n

(***************************************************************************)
(* A message shows as taken by the agent ('ack') only if the agent got a   *)
(* message with that localId.                                              *)
(***************************************************************************)
AckedWasRun ==
    \A r \in rows : r.invoked = "ack" => \E i \in 1 .. Len(ran) : ran[i].lid = r.lid

(***************************************************************************)
(* An item the CLI confirmed to have taken off its queue is never run, not *)
(* even when a backfill under way still carries it.                        *)
(***************************************************************************)
WithdrawnNeverRuns == withdrawn \cap RanIds = {}

(***************************************************************************)
(* A message a tab was told is cancelled never shows up in the queued bar  *)
(* again.                                                                  *)
(***************************************************************************)
CancelledNotQueued == \A r \in rows : r.id \in reported => ~Queued(r)
=============================================================================
