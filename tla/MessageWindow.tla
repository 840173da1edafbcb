---------------------------- MODULE MessageWindow ----------------------------
(***************************************************************************)
(* One browser's window on the stored messages of a session                *)
(* (web/src/lib/message-window-store.ts): live events over SSE, pages over *)
(* HTTP, the user who scrolls, and the hub that answers.  Answers and      *)
(* events travel on connections of their own: an answer may be overtaken   *)
(* by events in either direction; events arrive in order, and are lost     *)
(* when their connection breaks.                                           *)
(*                                                                         *)
(* A list of messages is always sorted by position, so it is a set here.   *)
(* A message's id is the instant at which its row was made, and no two     *)
(* messages share a position.  Optimistic messages, which a browser shows  *)
(* of its own sends until the hub tells them back, are left out; so are    *)
(* Codex's agent-run messages, which have a budget and a backfill of their *)
(* own, the copy in sessionStorage and hubs that page by sequence number.  *)
(* Answers to calls of an older generation change nothing, and are not     *)
(* kept.                                                                   *)
(***************************************************************************)
EXTENDS Integers, FiniteSets, Sequences

CONSTANTS
    LocalIds,    \* ids chosen by web clients, one per message they compose
    None,        \* no localId, not invoked, no cursor
    Visible,     \* VISIBLE_WINDOW_SIZE
    PendingSize, \* PENDING_WINDOW_SIZE
    PageSize,    \* PAGE_SIZE
    MaxRows,     \* rows of the session at a time
    MaxClock,    \* instants at which a row is written, stamped or withdrawn
    MaxUnderWay  \* events under way

ASSUME WindowAssumption ==
    /\ None \notin LocalIds \cup Nat
    /\ {Visible, PendingSize, PageSize} \subseteq Nat \ {0}
    /\ {MaxRows, MaxClock, MaxUnderWay} \subseteq Nat

VARIABLES
    rows,      \* the hub: rows of the session
    clock,     \* the instant now
    channel,   \* events under way to the browser
    connected, \* the hub has a subscription of this browser
    latest,    \* calls of fetchLatestMessages in flight
    older,     \* calls of fetchOlderMessages in flight
    messages,  \* the window, field by field
    pending,
    overflow,  \* pendingOverflowVisibleCount > 0
    hasMore,
    cursor,    \* oldestPositionAt
    atBottom,
    isLoading,
    isLoadingMore,
    whole,     \* history: the window lacks nothing that it cannot page back to
    sound      \* history: nor will it when the live call of fetchLatestMessages is answered

hubVars == <<rows, clock>>
wireVars == <<channel, connected>>
callVars == <<latest, older, isLoading, isLoadingMore>>
viewVars == <<messages, hasMore, cursor, whole, sound>>
waitVars == <<pending, overflow>>
vars == <<hubVars, wireVars, callVars, viewVars, waitVars, atBottom>>

\* A call that has no answer yet.
Asked(below) ==
    [below |-> below, answered |-> FALSE, rows |-> {}, oldest |-> None, more |-> FALSE]

\* The session has just been opened: its messages are asked for, and so are events.
Init ==
    /\ rows = {}
    /\ clock = 1
    /\ channel = <<>>
    /\ connected = FALSE
    /\ latest = {Asked(None)}
    /\ older = {}
    /\ messages = {}
    /\ pending = {}
    /\ overflow = FALSE
    /\ hasMore = FALSE
    /\ cursor = None
    /\ atBottom = TRUE
    /\ isLoading = TRUE
    /\ isLoadingMore = FALSE
    /\ whole = FALSE
    /\ sound = FALSE

-----------------------------------------------------------------------------
(* Messages. *)

\* getMessagePositionAt
Position(m) == IF m.invoked = None THEN m.created ELSE m.invoked
Before(a, b) == Position(a) < Position(b)

\* isQueuedForInvocation: what the bar of queued messages shows.
InBar(m) == m.user /\ m.invoked = None

IdsIn(ms) == {m.id : m \in ms}
Unseen(ms, visible) == {m \in ms : m.id \notin IdsIn(visible)}

\* mergeMessages: by id, and the incoming version of a message counts.
Merge(existing, incoming) == Unseen(existing, incoming) \cup incoming

Newest(ms, n) == {m \in ms : Cardinality({o \in ms : Before(m, o)}) < n}
Oldest(ms, n) == {m \in ms : Cardinality({o \in ms : Before(o, m)}) < n}
Sliced(ms, n, mode) == IF mode = "append" THEN Newest(ms, n) ELSE Oldest(ms, n)

Budget(ms, limit) ==
    LET queued == Cardinality({m \in ms : InBar(m)})
    IN  IF queued > limit THEN 0 ELSE limit - queued

\* (mutant of Dropped) Queued messages are trimmed like others.
DroppedAny(ms, limit, mode) ==
    IF Cardinality(ms) <= limit THEN {} ELSE ms \ Sliced(ms, limit, mode)

\* trimPreservingQueued: what it drops, and what is kept.
Dropped(ms, limit, mode) ==
    LET regular == {m \in ms : ~InBar(m)} IN
    IF Cardinality(ms) <= limit THEN {}
    ELSE regular \ Sliced(regular, Budget(ms, limit), mode)

Kept(ms, limit, mode) == ms \ Dropped(ms, limit, mode)

-----------------------------------------------------------------------------
(* The hub. *)

Emit(event) ==
    /\ channel' = IF connected THEN Append(channel, event) ELSE channel
    /\ UNCHANGED connected

CanEmit == Len(channel) < MaxUnderWay

Received(row) == [type |-> "message-received", row |-> row]

\* An id that no row ever had: the clock has moved with every row.
NewRow(lid, user) ==
    [id |-> clock, lid |-> lid, user |-> user, created |-> clock,
     invoked |-> IF lid = None THEN clock ELSE None]

\* The agent writes, or the user at the terminal does.
CliWrites(user) ==
    /\ CanEmit
    /\ Cardinality(rows) < MaxRows
    /\ rows' = rows \cup {NewRow(None, user)}
    /\ clock < MaxClock
    /\ clock' = clock + 1
    /\ Emit(Received(NewRow(None, user)))
    /\ UNCHANGED <<callVars, viewVars, waitVars, atBottom>>

\* sendMessage, for any browser: a message with a localId that is new to addMessage.
SendMessage(lid) ==
    /\ CanEmit
    /\ Cardinality(rows) < MaxRows
    /\ \A row \in rows : row.lid # lid
    /\ rows' = rows \cup {NewRow(lid, TRUE)}
    /\ clock < MaxClock
    /\ clock' = clock + 1
    /\ Emit(Received(NewRow(lid, TRUE)))
    /\ UNCHANGED <<callVars, viewVars, waitVars, atBottom>>

\* sendMessage, for a POST that is tried again: the row there is is told once more.
Resend(row) ==
    /\ CanEmit
    /\ row.lid # None
    /\ Emit(Received(row))
    /\ UNCHANGED <<hubVars, callVars, viewVars, waitVars, atBottom>>

Stamped(row) == [row EXCEPT !.invoked = clock]
Consumed(row) == [type |-> "messages-consumed", lid |-> row.lid, at |-> clock]

\* The CLI acknowledges a message that its agent was given.
Consume(row) ==
    /\ CanEmit
    /\ row.invoked = None
    /\ rows' = (rows \ {row}) \cup {Stamped(row)}
    /\ clock < MaxClock
    /\ clock' = clock + 1
    /\ Emit(Consumed(row))
    /\ UNCHANGED <<callVars, viewVars, waitVars, atBottom>>

\* cancelQueuedMessage, when the CLI still had the message.
CancelQueued(row) ==
    /\ CanEmit
    /\ row.invoked = None
    /\ rows' = rows \ {row}
    /\ clock < MaxClock
    /\ clock' = clock + 1
    /\ Emit([type |-> "message-cancelled", id |-> row.id])
    /\ UNCHANGED <<callVars, viewVars, waitVars, atBottom>>

\* mergeSessionMessages puts what an older session said before all else.
Join ==
    /\ CanEmit
    /\ \A row \in rows : row.id # 0
    /\ rows # {}
    /\ Cardinality(rows) < MaxRows
    /\ rows' = rows \cup {[id |-> 0, lid |-> None, user |-> FALSE, created |-> 0,
                           invoked |-> 0]}
    /\ Emit([type |-> "messages-invalidated"])
    /\ UNCHANGED <<clock, callVars, viewVars, waitVars, atBottom>>

\* getMessagesPageByPosition: a page, and for the latest one all queued rows too.
Page(below) ==
    LET at == IF below = None THEN rows ELSE {r \in rows : Position(r) < below}
        found == Newest(at, PageSize)
        first == {r \in found : \A s \in found : Position(r) <= Position(s)}
        queued == IF below = None THEN {r \in rows : r.lid # None /\ r.invoked = None} ELSE {}
    IN  [below |-> below, answered |-> TRUE, rows |-> found \cup queued,
         oldest |-> IF found = {} THEN None ELSE Position(CHOOSE r \in first : TRUE),
         more |-> at # found]

\* A message of the hub that this browser neither shows nor can page back to.
Shown(row) == row.id \in IdsIn(messages \cup pending)
Reachable(row) == hasMore /\ Position(row) < cursor

-----------------------------------------------------------------------------
(* Changes of the window. *)

\* Trimmed messages newer than a queued one that stays are behind the cursor.
Skipped(kept, dropped) == \E q \in kept, d \in dropped : InBar(q) /\ Before(q, d)

\* A trim took what the page that is on its way will not bring back: more
\* messages came meanwhile than the window has room for beside a page.
Outrun(dropped) ==
    \E c \in latest, d \in dropped :
        /\ c.answered
        /\ d.id \notin IdsIn(c.rows)
        /\ c.more => Position(d) >= c.oldest

\* A trim takes the cursor back to messages older than the last page, which need not reach
\* them: what a reconnect missed in between is neither shown nor beyond the cursor.
Rewound(kept, dropped) == dropped # {} /\ cursor # None /\ \E m \in kept : Position(m) < cursor

\* trimVisibleWithDropped and cursorUpdatesAfterAppendTrim.
Grown(merged) ==
    LET kept == Kept(merged, Visible, "append")
        dropped == Dropped(merged, Visible, "append")
        first == {m \in kept : \A o \in kept : Position(m) <= Position(o)}
    IN  /\ messages' = kept
        /\ hasMore' = (hasMore \/ dropped # {})
        /\ cursor' = IF dropped = {} \/ kept = {} THEN cursor
                     ELSE Position(CHOOSE m \in first : TRUE)
        /\ whole' = (whole /\ ~Skipped(kept, dropped) /\ ~Rewound(kept, dropped))
        /\ sound' = (sound /\ ~Outrun(dropped))

\* mergeIntoPending
Waiting(ms) == Unseen(Merge(pending, ms), messages)
Overflows(ms) == Dropped(Waiting(ms), PendingSize, "append") # {}

IntoPending(ms) ==
    /\ pending' = Kept(Waiting(ms), PendingSize, "append")
    /\ overflow' = (overflow \/ Overflows(ms))

\* ingestIncomingMessages: while the user reads further up, user messages wait.
Ingest(m) ==
    IF atBottom \/ ~m.user
    THEN /\ Grown(Merge(messages, {m}))
         /\ pending' = Unseen(pending, messages')
         /\ UNCHANGED <<overflow, atBottom>>
    ELSE /\ IntoPending({m})
         /\ whole' = (whole /\ ~Overflows({m}))
         /\ sound' = (sound /\ ~Overflows({m}))
         /\ UNCHANGED <<messages, hasMore, cursor, atBottom>>

\* markMessagesConsumed: what waited moves to its place in the thread.
Acked(lid, at) ==
    LET ack(ms) == {IF m.lid = lid /\ m.invoked = None THEN [m EXCEPT !.invoked = at] ELSE m : m \in ms}
        moved == {m \in ack(pending) : m.lid = lid /\ m.invoked = at}
    IN  IF \A m \in messages \cup pending : m.lid # lid
        THEN UNCHANGED <<viewVars, waitVars, atBottom>>
        ELSE /\ Grown(Merge(ack(messages), moved))
             /\ pending' = ack(pending) \ moved
             /\ UNCHANGED <<overflow, atBottom>>

\* removeOptimisticMessage, for an event that names the message's id.
Remove(id) ==
    /\ messages' = {m \in messages : m.id # id}
    /\ pending' = {m \in pending : m.id # id}
    /\ UNCHANGED <<hasMore, cursor, whole, sound, overflow, atBottom>>

-----------------------------------------------------------------------------
(* Pages. *)

\* fetchLatestMessages, which does nothing while one is on its way.
AskLatest ==
    IF isLoading THEN UNCHANGED <<latest, isLoading>>
    ELSE latest' = latest \cup {Asked(None)} /\ isLoading' = TRUE

AnswerLatest(c) ==
    /\ ~c.answered
    /\ latest' = (latest \ {c}) \cup {Page(None)}
    /\ UNCHANGED <<hubVars, wireVars, older, isLoading, isLoadingMore, viewVars, waitVars, atBottom>>

\* mergeMessages with an empty window does not look for doubles.
Arrived(page) ==
    IF messages = {} THEN pending \cup page.rows
    ELSE Merge(messages, Merge(pending, page.rows))

\* (mutant of LatestArrives) The page takes the place of what events brought meanwhile.
LatestReplaces(page) ==
    /\ page.answered
    /\ latest' = latest \ {page}
    /\ isLoading' = FALSE
    /\ sound' = FALSE
    /\ messages' = Kept(page.rows, Visible, "append")
    /\ pending' = {}
    /\ overflow' = FALSE
    /\ hasMore' = page.more
    /\ cursor' = page.oldest
    /\ whole' = sound
    /\ UNCHANGED <<hubVars, wireVars, older, isLoadingMore, atBottom>>

\* The answer is merged into the thread, or waits if the user reads further up.
LatestArrives(page) ==
    LET merged == Arrived(page)
        dropped == Dropped(merged, Visible, "append")
    IN  /\ page.answered
        /\ latest' = latest \ {page}
        /\ isLoading' = FALSE
        /\ sound' = FALSE
        /\ cursor' = page.oldest
        /\ IF atBottom
           THEN /\ messages' = Kept(merged, Visible, "append")
                /\ pending' = {}
                /\ overflow' = FALSE
                /\ hasMore' = page.more
                /\ whole' = /\ sound
                            /\ ~isLoadingMore
                            /\ \A d \in dropped : page.more /\ Position(d) < page.oldest
           ELSE /\ IntoPending(page.rows)
                /\ whole' = FALSE
                /\ UNCHANGED <<messages, hasMore>>
        /\ UNCHANGED <<hubVars, wireVars, older, isLoadingMore, atBottom>>

LatestFails(c) ==
    /\ latest' = latest \ {c}
    /\ isLoading' = FALSE
    /\ sound' = FALSE
    /\ UNCHANGED <<hubVars, wireVars, older, isLoadingMore, messages, hasMore, cursor, whole, waitVars, atBottom>>

\* fetchOlderMessages.  This hub's pages come with a position unless they are empty; how a
\* window without one asks, by sequence number, is left out.
LoadOlder ==
    /\ ~isLoadingMore
    /\ hasMore
    /\ cursor # None
    /\ messages # {}
    /\ isLoadingMore' = TRUE
    /\ older' = older \cup {Asked(cursor)}
    /\ UNCHANGED <<hubVars, wireVars, latest, isLoading, viewVars, waitVars, atBottom>>

AnswerOlder(c) ==
    /\ ~c.answered
    /\ older' = (older \ {c}) \cup {Page(c.below)}
    /\ UNCHANGED <<hubVars, wireVars, latest, isLoading, isLoadingMore, viewVars, waitVars, atBottom>>

\* The window is trimmed at its new end, and nothing notes what goes there.
OlderArrives(page) ==
    LET merged == Merge(page.rows, messages)
        dropped == Dropped(merged, Visible, "prepend")
    IN  /\ page.answered
        /\ older' = older \ {page}
        /\ isLoadingMore' = FALSE
        /\ messages' = Kept(merged, Visible, "prepend")
        /\ hasMore' = page.more
        /\ cursor' = page.oldest
        /\ whole' = (whole /\ page.below = cursor /\ dropped = {})
        /\ sound' = (sound /\ dropped = {})
        /\ UNCHANGED <<hubVars, wireVars, latest, isLoading, waitVars, atBottom>>

OlderFails(c) ==
    /\ older' = older \ {c}
    /\ isLoadingMore' = FALSE
    /\ UNCHANGED <<hubVars, wireVars, latest, isLoading, viewVars, waitVars, atBottom>>

-----------------------------------------------------------------------------
(* Events. *)

\* The subscription is made; the browser hears of it before any event.
Open ==
    /\ ~connected
    /\ connected' = TRUE
    /\ channel' = <<[type |-> "open"]>>
    /\ UNCHANGED <<hubVars, callVars, viewVars, waitVars, atBottom>>

\* The connection breaks; what was under way is lost.
Break ==
    /\ connected
    /\ connected' = FALSE
    /\ channel' = <<>>
    /\ whole' = FALSE
    /\ sound' = FALSE
    /\ UNCHANGED <<hubVars, callVars, messages, hasMore, cursor, waitVars,
                   atBottom>>

\* clearMessageWindow (a new generation of calls), then fetchLatestMessages.
Clear ==
    /\ messages' = {} /\ pending' = {}
    /\ overflow' = FALSE /\ hasMore' = FALSE
    /\ whole' = FALSE /\ sound' = TRUE
    /\ cursor' = None
    /\ atBottom' = TRUE
    /\ isLoading' = TRUE /\ isLoadingMore' = FALSE
    /\ latest' = {Asked(None)}
    /\ older' = {}

Deliver ==
    /\ channel # <<>>
    /\ channel' = Tail(channel)
    /\ LET event == Head(channel) IN
       \/ /\ event.type = "open"
          /\ AskLatest
          /\ sound' = ~isLoading
          /\ UNCHANGED <<older, isLoadingMore, messages, hasMore, cursor, whole, waitVars, atBottom>>
       \/ event.type = "message-received" /\ Ingest(event.row) /\ UNCHANGED callVars
       \/ event.type = "messages-consumed" /\ Acked(event.lid, event.at) /\ UNCHANGED callVars
       \/ event.type = "message-cancelled" /\ Remove(event.id) /\ UNCHANGED callVars
       \/ event.type = "messages-invalidated" /\ Clear
    /\ UNCHANGED <<hubVars, connected>>

-----------------------------------------------------------------------------
(* The user. *)

ScrollUp ==
    /\ atBottom
    /\ messages # {}
    /\ atBottom' = FALSE
    /\ UNCHANGED <<hubVars, wireVars, callVars, viewVars, waitVars>>

\* setAtBottom and flushPending, which asks for the latest page after an overflow.
ScrollDown ==
    /\ ~atBottom \/ pending # {}
    /\ atBottom' = TRUE
    /\ overflow' = FALSE
    /\ IF pending = {} /\ ~overflow
       THEN UNCHANGED <<viewVars, pending>>
       ELSE Grown(Merge(messages, pending)) /\ pending' = {}
    /\ IF overflow THEN AskLatest ELSE UNCHANGED <<latest, isLoading>>
    /\ UNCHANGED <<hubVars, wireVars, older, isLoadingMore>>

-----------------------------------------------------------------------------
Next ==
    \/ \E user \in BOOLEAN : CliWrites(user)
    \/ \E lid \in LocalIds : SendMessage(lid)
    \/ \E row \in rows : Resend(row) \/ Consume(row) \/ CancelQueued(row)
    \/ Join
    \/ \E c \in latest : AnswerLatest(c) \/ LatestArrives(c) \/ LatestFails(c)
    \/ LoadOlder
    \/ \E c \in older : AnswerOlder(c) \/ OlderArrives(c) \/ OlderFails(c)
    \/ Open \/ Break \/ Deliver
    \/ ScrollUp \/ ScrollDown

Spec == Init /\ [][Next]_vars

-----------------------------------------------------------------------------
(* Properties. *)

Message == [id : Nat, lid : LocalIds \cup {None}, user : BOOLEAN, created : Nat,
            invoked : Nat \cup {None}]
Call == [below : Nat \cup {None}, answered : BOOLEAN, rows : SUBSET Message,
         oldest : Nat \cup {None}, more : BOOLEAN]
Event ==
    [type : {"open", "messages-invalidated"}]
    \cup [type : {"message-received"}, row : Message]
    \cup [type : {"messages-consumed"}, lid : LocalIds, at : Nat]
    \cup [type : {"message-cancelled"}, id : Nat]

\* The fields of state and wire are what the code takes them for.
TypeOK ==
    /\ rows \subseteq Message /\ messages \subseteq Message /\ pending \subseteq Message
    /\ clock \in Nat /\ cursor \in Nat \cup {None}
    /\ channel \in Seq(Event)
    /\ latest \subseteq Call /\ older \subseteq Call
    /\ {connected, overflow, hasMore, atBottom, isLoading, isLoadingMore, whole, sound} \subseteq BOOLEAN

\* Once a page has come that was asked for on the present connection, every
\* message of the hub is in the window or can be paged back to, however events,
\* pages, trims, acknowledgements and clears were interleaved since.  `whole'
\* ends where the code is known to leave a gap: a page that came while the user
\* read further up, an older page that was trimmed or that a trim overtook, a
\* trim past a queued message or back over what a reconnect missed, more messages
\* than may wait or than a fetch leaves room for.
Complete ==
    whole /\ channel = <<>> => \A row \in rows : Shown(row) \/ Reachable(row)

\* The kind of the event that arrives in this step.
HeardNow == IF channel # <<>> /\ channel' = Tail(channel) THEN {Head(channel).type} ELSE {}

\* The versions of messages that the browser has, or gets in this step.
Given ==
    messages \cup pending
    \cup (UNION {page.rows : page \in latest \ latest'})
    \cup (IF "message-received" \in HeardNow THEN {Head(channel).row} ELSE {})

\* The browser is told that a message was given to the agent.
Told(m) ==
    \/ \E v \in Given : v.id = m.id /\ v.invoked # None
    \/ "messages-consumed" \in HeardNow /\ Head(channel).lid = m.lid

\* A message in the bar of queued messages that the hub has, queued or acknowledged
\* already, stays there until the browser is told of the acknowledgement, by its event or
\* by a page, or the window is cleared: no trim, page, merge or flush takes it, also while
\* the acknowledgement is under way or was lost with its connection.
QueuedStays ==
    [][\A m \in messages \cup pending :
          InBar(m) /\ m.id \in IdsIn(rows) /\ ~Told(m) =>
              m.id \in IdsIn(messages' \cup pending') \/ messages' \cup pending' = {}]_vars
=============================================================================
