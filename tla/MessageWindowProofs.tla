------------------------- MODULE MessageWindowProofs -------------------------
(***************************************************************************)
(* For any messages, sizes of the window and of pages, and any number of   *)
(* events under way: a browser shows, or can page back to, every message   *)
(* of the hub unless one of the known gaps was made, and it keeps a queued *)
(* message until it is told of its acknowledgement or cancellation.        *)
(***************************************************************************)
EXTENDS MessageWindow, FiniteSetTheorems, WellFoundedInduction, TLAPS

\* The messages of events that are under way.
Sent == {channel[i].row : i \in {j \in DOMAIN channel : channel[j].type = "message-received"}}

\* Every version of a message: the hub's, the window's, and those in events and answers.
Versions ==
    rows \cup messages \cup pending \cup Sent \cup UNION {c.rows : c \in latest \cup older}

Finite ==
    /\ IsFiniteSet(rows) /\ IsFiniteSet(messages) /\ IsFiniteSet(pending)
    /\ \A c \in latest \cup older : IsFiniteSet(c.rows)

\* A version says of a message what the hub says, except that it may not know of its
\* acknowledgement.  No message is made at the instant at which another is acknowledged, and
\* what a merge put before all else stays.
VersionOK(m, versions) ==
    /\ m.id < clock /\ m.created = m.id
    /\ m.invoked = None => m.user /\ m.lid # None
    /\ m.invoked # None => m.invoked < clock /\ \A n \in versions : n.id = m.invoked => n.id = m.id
    /\ \A r \in rows : r.id = m.id => /\ r.lid = m.lid /\ r.user = m.user
                                      /\ m.invoked \in {None, r.invoked}
    /\ m.id = 0 <=> m.invoked = 0
    /\ m.id = 0 => \E r \in rows : r.id = 0

Fits(versions) == \A m \in versions : VersionOK(m, versions)

RowsOK == \A r, s \in rows : r.id = s.id \/ (r.lid = s.lid /\ r.lid # None) => r = s

VersionsOK == clock > 0 /\ RowsOK /\ Fits(Versions)

\* An event under way is about what happened.
Tells(e, rs, versions, now) ==
    /\ e.type = "messages-consumed" => /\ e.at > 0
                                       /\ \E r \in rs : r.lid = e.lid /\ r.invoked = e.at
                                       /\ \A m \in versions : m.id # e.at
    /\ e.type = "message-cancelled" => e.id > 0 /\ e.id < now /\ e.id \notin IdsIn(rs)

EventOK(e) == Tells(e, rows, Versions, clock)

EventsOK == \A i \in DOMAIN channel : EventOK(channel[i])

Rebuilding == \E i \in DOMAIN channel : channel[i].type = "messages-invalidated"

\* One call of a kind is under way, and positions in answers and the cursor are of the past.
CallsOK ==
    /\ \A c, d \in latest : c = d
    /\ \A c, d \in older : c = d
    /\ latest # {} => isLoading
    /\ older # {} => isLoadingMore
    /\ cursor # None => cursor < clock
    /\ \A c \in older : c.below # None /\ c.below < clock
    /\ \A c \in latest \cup older :
          /\ c.oldest # None => c.oldest < clock
          /\ c.answered /\ c.more => c.oldest # None
    /\ whole /\ hasMore => cursor # None
    /\ (channel # <<>> \/ whole \/ sound) => connected

\* A message is accounted for: it is in the window, comes with an event, or is beyond the cursor.
Coming(r) == r.id \in IdsIn(Sent)
Covered(r) == Shown(r) \/ Coming(r) \/ (r.invoked # None /\ Reachable(r))

\* An answered page has it, or is to bring it within reach.
Paged(c, r) == r.id \in IdsIn(c.rows) \/ (r.invoked # None /\ c.more /\ Position(r) < c.oldest)

WholeOK == whole /\ ~Rebuilding => \A r \in rows : Covered(r)
SoundOK ==
    sound /\ ~Rebuilding =>
        \A c \in latest, r \in rows : c.answered => Paged(c, r) \/ Shown(r) \/ Coming(r)
OlderOK ==
    whole /\ ~Rebuilding =>
        \A c \in older, r \in rows :
            c.answered /\ r.invoked # None /\ Position(r) < c.below => Paged(c, r)

Inv == TypeOK /\ Finite /\ VersionsOK /\ EventsOK /\ CallsOK /\ WholeOK /\ SoundOK /\ OlderOK

USE WindowAssumption

-----------------------------------------------------------------------------
(* Numbers. *)

LEMMA NumbersWellFounded ==
    \E R : IsWellFoundedOn(R, Nat) /\ \A v, w \in Nat : v < w => <<v, w>> \in R
<1>1. \A v, w \in Nat : v < w => <<v, w>> \in OpToRel(<, Nat)
  BY DEF OpToRel
<1> QED  BY <1>1, NatLessThanWellFounded

LEMMA Least ==
    ASSUME NEW U \in SUBSET Nat, U # {}
    PROVE  \E u \in U : \A v \in U : u <= v
<1>1. PICK R : IsWellFoundedOn(R, Nat) /\ \A v, w \in Nat : v < w => <<v, w>> \in R
  BY NumbersWellFounded
<1>2. PICK u \in U : \A v \in U : ~(<<v, u>> \in R)
  <2>1. IsWellFoundedOn(R, Nat)
    BY <1>1
  <2> QED  BY <2>1, WFMin, Zenon
<1>3. ASSUME NEW v \in U PROVE u <= v
  <2>1. u \in Nat /\ v \in Nat /\ ~(v < u)
    BY <1>1, <1>2
  <2> QED  BY <2>1
<1> QED  BY <1>3

LEMMA Greatest ==
    ASSUME NEW U \in SUBSET Nat, U # {}, NEW b \in Nat, \A u \in U : u < b
    PROVE  \E u \in U : \A v \in U : v <= u
<1> DEFINE W == {b - u : u \in U}
<1>1. \A u \in U : b - u \in Nat
  OBVIOUS
<1>2. W \in SUBSET Nat /\ W # {}
  BY <1>1
<1>3. PICK w \in W : \A x \in W : w <= x
  BY <1>2, Least
<1>4. PICK u \in U : w = b - u
  OBVIOUS
<1>5. \A v \in U : b - u <= b - v
  BY <1>3, <1>4
<1> QED  BY <1>5

-----------------------------------------------------------------------------
(* Trims. *)

LEMMA Positions ==
    ASSUME NEW m \in Message
    PROVE  Position(m) \in Nat
BY DEF Message, Position

\* The first of some messages, where a trim or a page puts the cursor.
LEMMA FirstOf ==
    ASSUME NEW ms \in SUBSET Message, ms # {}
    PROVE  LET first == {m \in ms : \A o \in ms : Position(m) <= Position(o)}
               f == CHOOSE m \in first : TRUE
           IN  f \in ms /\ \A o \in ms : Position(f) <= Position(o)
<1> DEFINE U == {Position(m) : m \in ms}
<1>1. U \in SUBSET Nat /\ U # {}
  BY Positions
<1>2. PICK u \in U : \A v \in U : u <= v
  BY <1>1, Least
<1>3. PICK m \in ms : u = Position(m)
  OBVIOUS
<1>4. m \in {k \in ms : \A o \in ms : Position(k) <= Position(o)}
  BY <1>2, <1>3
<1> QED  BY <1>4

\* Whatever the mode, a trim divides the messages, and takes no queued one.
LEMMA Divided ==
    ASSUME NEW ms, NEW n, NEW mode
    PROVE  /\ ms = Kept(ms, n, mode) \cup Dropped(ms, n, mode)
           /\ Kept(ms, n, mode) \subseteq ms /\ Dropped(ms, n, mode) \subseteq ms
           /\ \A d \in Dropped(ms, n, mode) : ~InBar(d) /\ d \notin Kept(ms, n, mode)
BY DEF Kept, Dropped

\* At the old end it takes what is older than all other messages but the queued ones, and
\* never all.
LEMMA TrimmedOld ==
    ASSUME NEW ms \in SUBSET Message, IsFiniteSet(ms), NEW n \in Nat \ {0},
           NEW b \in Nat, \A m \in ms : Position(m) < b
    PROVE  /\ \A d \in Dropped(ms, n, "append"), k \in Kept(ms, n, "append") :
                 InBar(k) \/ Position(d) < Position(k)
           /\ Dropped(ms, n, "append") # {} => Kept(ms, n, "append") # {}
<1> DEFINE regular == {m \in ms : ~InBar(m)}
           queued == {m \in ms : InBar(m)}
           newer(m) == {o \in regular : Before(m, o)}
           budget == Budget(ms, n)
<1>1. IsFiniteSet(regular) /\ IsFiniteSet(queued)
  BY FS_Subset
<1>2. Cardinality(queued) \in Nat
  BY <1>1, FS_CardinalityType
<1>3. budget \in Nat
  BY <1>2 DEF Budget
<1>4. \A m : IsFiniteSet(newer(m)) /\ Cardinality(newer(m)) \in Nat
  <2> TAKE m
  <2>1. newer(m) \subseteq regular
    OBVIOUS
  <2> QED  BY <1>1, <2>1, FS_Subset, FS_CardinalityType
<1>5. Newest(regular, budget) = {m \in regular : Cardinality(newer(m)) < budget}
  BY DEF Newest
<1>6. ASSUME Dropped(ms, n, "append") # {}
      PROVE  Dropped(ms, n, "append") = regular \ Newest(regular, budget)
  BY <1>6 DEF Dropped, Sliced
<1> HIDE DEF budget, regular, queued
<1>7. ASSUME NEW d \in Dropped(ms, n, "append"), NEW k \in Kept(ms, n, "append"), ~InBar(k)
      PROVE  Position(d) < Position(k)
  <2>1. k \in ms /\ k \notin Dropped(ms, n, "append") /\ d \in ms
    BY Divided, Zenon DEF Kept
  <2>2. k \in regular /\ d \in regular
    BY <1>7, <2>1, Divided DEF regular
  <2>3. k \in Newest(regular, budget) /\ d \notin Newest(regular, budget)
    BY <1>6, <1>7, <2>1, <2>2
  <2>4. Cardinality(newer(k)) < budget /\ ~(Cardinality(newer(d)) < budget)
    BY <1>5, <2>2, <2>3
  <2>5. Position(d) \in Nat /\ Position(k) \in Nat /\ \A o \in regular : Position(o) \in Nat
    BY <2>1, Positions DEF regular
  <2>6. ASSUME ~(Position(d) < Position(k)) PROVE FALSE
    <3>1. newer(d) \subseteq newer(k)
      BY <2>5, <2>6 DEF Before
    <3>2. Cardinality(newer(d)) <= Cardinality(newer(k))
      BY <1>4, <3>1, FS_Subset
    <3> QED  BY <1>3, <1>4, <2>4, <3>2
  <2> QED  BY <2>6
<1>8. ASSUME Dropped(ms, n, "append") # {}, Kept(ms, n, "append") = {}
      PROVE  FALSE
  <2>1. ms = Dropped(ms, n, "append")
    BY <1>8, Divided
  <2>2. queued = {} /\ regular = ms
    BY <2>1, Divided DEF queued, regular
  <2>3. budget = n
    <3>1. Cardinality(queued) = 0
      BY <2>2, FS_EmptySet
    <3> QED  BY <3>1 DEF budget, Budget, queued
  <2>4. PICK m \in ms : \A o \in ms : Position(o) <= Position(m)
    <3> DEFINE U == {Position(m) : m \in ms}
    <3>1. U \in SUBSET Nat /\ U # {} /\ \A u \in U : u < b
      BY <1>8, <2>1, Positions
    <3>2. PICK u \in U : \A v \in U : v <= u
      BY <3>1, Greatest
    <3> QED  BY <3>2
  <2>5. newer(m) = {}
    <3>1. \A o \in ms : ~Before(m, o)
      BY <2>4, Positions DEF Before
    <3> QED  BY <2>2, <3>1
  <2>6. Cardinality(newer(m)) = 0
    BY <2>5, FS_EmptySet
  <2>7. m \in Newest(regular, budget)
    BY <1>5, <2>2, <2>3, <2>6
  <2> QED  BY <1>6, <1>8, <2>1, <2>7
<1> QED  BY <1>7, <1>8

-----------------------------------------------------------------------------
(* Pages. *)

LEMMA PositionsArePast ==
    ASSUME VersionsOK
    PROVE  \A m \in Versions : Position(m) < clock
BY DEF VersionsOK, Fits, VersionOK, Position

LEMMA VersionTypes ==
    ASSUME TypeOK
    PROVE  Versions \subseteq Message
<1>1. Sent \subseteq Message
  <2>1. \A e \in Event : e.type = "message-received" => e.row \in Message
    BY DEF Event
  <2>2. \A i \in DOMAIN channel : channel[i] \in Event
    BY DEF TypeOK
  <2> QED  BY <2>1, <2>2 DEF Sent
<1>2. \A c \in latest \cup older : c.rows \subseteq Message
  BY DEF TypeOK, Call
<1> QED  BY <1>1, <1>2 DEF Versions, TypeOK

\* A page has what is before its bound, or is to bring it within reach; the latest page has
\* all queued messages.
LEMMA Pages ==
    ASSUME TypeOK, Finite, VersionsOK, NEW below \in Nat \cup {None}
    PROVE  /\ Page(below) \in Call
           /\ Page(below).below = below /\ Page(below).answered
           /\ Page(below).rows \subseteq rows /\ IsFiniteSet(Page(below).rows)
           /\ Page(below).oldest # None => Page(below).oldest < clock
           /\ Page(below).more => Page(below).oldest # None
           /\ \A r \in rows :
                 (below = None \/ (r.invoked # None /\ Position(r) < below)) => Paged(Page(below), r)
<1> DEFINE at == IF below = None THEN rows ELSE {r \in rows : Position(r) < below}
           newer(m) == {o \in at : Before(m, o)}
           found == Newest(at, PageSize)
           first == {r \in found : \A s \in found : Position(r) <= Position(s)}
           f == CHOOSE r \in first : TRUE
           queued == IF below = None THEN {r \in rows : r.lid # None /\ r.invoked = None} ELSE {}
           p == Page(below)
<1>1. p = [below |-> below, answered |-> TRUE, rows |-> found \cup queued,
           oldest |-> IF found = {} THEN None ELSE Position(f), more |-> at # found]
  BY Zenon DEF Page
<1>2. p.more = (at # found)
  BY <1>1
<1>3. at \subseteq rows /\ queued \subseteq rows /\ found \subseteq at
  BY DEF Newest
<1>4. rows \subseteq Versions /\ rows \subseteq Message
  BY DEF Versions, TypeOK
<1>5. IsFiniteSet(at) /\ IsFiniteSet(found \cup queued)
  BY <1>3, FS_Subset DEF Finite
<1>6. found = {m \in at : Cardinality(newer(m)) < PageSize}
  BY DEF Newest
<1>7. \A r \in rows : Position(r) \in Nat /\ Position(r) < clock
  BY <1>4, Positions, PositionsArePast
<1> HIDE DEF at, found, queued
<1>8. found # {} => f \in found /\ \A o \in found : Position(f) <= Position(o)
  <2>1. found \in SUBSET Message
    BY <1>3, <1>4
  <2> QED  BY <2>1, FirstOf, Zenon
<1>9. at # {} => found # {}
  <2> SUFFICES ASSUME at # {}
               PROVE  found # {}
    OBVIOUS
  <2> DEFINE U == {Position(m) : m \in at}
  <2>1. U \in SUBSET Nat /\ U # {} /\ \A u \in U : u < clock
    BY <1>3, <1>7
  <2>2. PICK u \in U : \A v \in U : v <= u
    BY <2>1, Greatest DEF TypeOK
  <2>3. PICK m \in at : u = Position(m)
    OBVIOUS
  <2>4. \A o \in at : ~(Position(m) < Position(o))
    BY <1>3, <1>7, <2>2, <2>3
  <2>5. newer(m) = {}
    BY <2>4 DEF Before
  <2>6. Cardinality(newer(m)) = 0
    BY <2>5, FS_EmptySet
  <2> QED  BY <1>6, <2>6
<1>10. \A d \in at \ found : Position(d) < Position(f)
  <2> SUFFICES ASSUME NEW d \in at, d \notin found
               PROVE  Position(d) < Position(f)
    OBVIOUS
  <2>1. f \in found
    BY <1>8, <1>9
  <2>2. Cardinality(newer(f)) < PageSize /\ ~(Cardinality(newer(d)) < PageSize)
    BY <1>6, <2>1
  <2>3. newer(f) \subseteq at /\ newer(d) \subseteq at
    OBVIOUS
  <2>4. IsFiniteSet(newer(f)) /\ Cardinality(newer(f)) \in Nat /\ Cardinality(newer(d)) \in Nat
    BY <1>5, <2>3, FS_Subset, FS_CardinalityType
  <2>5. ASSUME ~(Position(d) < Position(f)) PROVE FALSE
    <3>1. Position(d) \in Nat /\ Position(f) \in Nat /\ \A o \in at : Position(o) \in Nat
      BY <1>3, <1>7, <2>1
    <3>2. \A o \in at : Position(d) < Position(o) => Position(f) < Position(o)
      BY <2>5, <3>1
    <3>4. newer(d) \subseteq newer(f)
      BY <3>2, Zenon DEF Before
    <3>3. Cardinality(newer(d)) <= Cardinality(newer(f))
      BY <2>4, <3>4, FS_Subset
    <3> QED  BY <2>2, <2>4, <3>3
  <2> QED  BY <2>5
<1>11. found # {} => Position(f) \in Nat /\ Position(f) < clock
  BY <1>3, <1>7, <1>8
<1>12. p \in Call
  BY <1>1, <1>3, <1>4, <1>11 DEF Call
<1>13. p.more => p.oldest # None
  <2>1. p.more => at # {}
    BY <1>2, <1>3, Zenon
  <2> QED  BY <1>1, <1>9, <1>11, <2>1
<1>14. ASSUME NEW r \in rows, below = None \/ (r.invoked # None /\ Position(r) < below)
       PROVE  Paged(p, r)
  <2>1. r \in at
    BY <1>14 DEF at
  <2>2. CASE r \in found \cup queued
    <3>1. r \in p.rows
      BY <1>1, <2>2
    <3> QED  BY <3>1 DEF Paged, IdsIn
  <2>3. CASE r \notin found \cup queued
    <3>1. r.invoked # None
      BY <1>4, <1>14, <2>3 DEF VersionsOK, Fits, VersionOK, queued
    <3>2. p.more /\ p.oldest = Position(f)
      <4>1. at # found /\ found # {}
        BY <1>9, <2>1, <2>3
      <4>2. p.more
        BY <1>2, <4>1
      <4>3. p.oldest = Position(f)
        BY <1>1, <4>1
      <4> QED  BY <4>2, <4>3
    <3>3. Position(r) < p.oldest
      BY <1>10, <2>1, <2>3, <3>2
    <3> QED  BY <3>1, <3>2, <3>3 DEF Paged
  <2> QED  BY <2>2, <2>3
<1>15. p.oldest # None => p.oldest < clock
  BY <1>1, <1>11
<1> QED  BY <1>1, <1>3, <1>5, <1>12, <1>13, <1>14, <1>15

-----------------------------------------------------------------------------
(* The channel. *)

Received1(e) == IF e.type = "message-received" THEN {e.row} ELSE {}

LEMMA Appended ==
    ASSUME TypeOK, NEW e, e \in Event, channel' = Append(channel, e)
    PROVE  /\ channel' \in Seq(Event) /\ channel' # <<>>
           /\ Sent' = Sent \cup Received1(e)
           /\ Rebuilding' <=> Rebuilding \/ e.type = "messages-invalidated"
           /\ \A i \in DOMAIN channel' : (i \in DOMAIN channel /\ channel'[i] = channel[i]) \/ channel'[i] = e
<1>1. channel \in Seq(Event) /\ Len(channel) \in Nat
  BY DEF TypeOK
<1>2. /\ channel' \in Seq(Event) /\ channel' # <<>>
      /\ DOMAIN channel' = 1..Len(channel) + 1 /\ DOMAIN channel = 1..Len(channel)
      /\ \A i \in DOMAIN channel : i \in DOMAIN channel' /\ channel'[i] = channel[i]
      /\ channel'[Len(channel) + 1] = e
  BY <1>1
<1>3. \A i \in DOMAIN channel' : i \in DOMAIN channel \/ i = Len(channel) + 1
  BY <1>1, <1>2
<1>4. Len(channel) + 1 \in DOMAIN channel'
  BY <1>1, <1>2
<1>5. \A i \in DOMAIN channel' : (i \in DOMAIN channel /\ channel'[i] = channel[i]) \/ channel'[i] = e
  BY <1>2, <1>3
<1>6. Sent' = Sent \cup Received1(e)
  <2>1. ASSUME NEW m \in Sent' PROVE m \in Sent \cup Received1(e)
    BY <1>5 DEF Sent, Received1
  <2>2. ASSUME NEW m \in Sent PROVE m \in Sent'
    BY <1>2 DEF Sent
  <2>3. ASSUME NEW m \in Received1(e) PROVE m \in Sent'
    BY <1>2, <1>4 DEF Sent, Received1
  <2> QED  BY <2>1, <2>2, <2>3
<1>7. Rebuilding' <=> Rebuilding \/ e.type = "messages-invalidated"
  BY <1>2, <1>4, <1>5 DEF Rebuilding
<1> QED  BY <1>2, <1>5, <1>6, <1>7

LEMMA Taken ==
    ASSUME TypeOK, channel # <<>>, channel' = Tail(channel)
    PROVE  /\ Head(channel) \in Event /\ Head(channel) = channel[1] /\ 1 \in DOMAIN channel
           /\ channel' \in Seq(Event)
           /\ Sent = Sent' \cup Received1(Head(channel))
           /\ Rebuilding <=> Rebuilding' \/ Head(channel).type = "messages-invalidated"
           /\ \A i \in DOMAIN channel' : i + 1 \in DOMAIN channel /\ channel'[i] = channel[i + 1]
<1>1. channel \in Seq(Event) /\ Len(channel) \in Nat
  BY DEF TypeOK
<1>2. Len(channel) > 0 /\ DOMAIN channel = 1..Len(channel)
  BY <1>1
<1>3. /\ channel' \in Seq(Event) /\ DOMAIN channel' = 1..Len(channel) - 1
      /\ \A i \in DOMAIN channel' : i + 1 \in DOMAIN channel /\ channel'[i] = channel[i + 1]
  BY <1>1, <1>2
<1>4. Head(channel) = channel[1] /\ 1 \in DOMAIN channel /\ Head(channel) \in Event
  BY <1>1, <1>2
<1>5. \A j \in DOMAIN channel : j = 1 \/ (j - 1 \in DOMAIN channel' /\ channel[j] = channel'[j - 1])
  <2> SUFFICES ASSUME NEW j \in DOMAIN channel, j # 1
               PROVE  j - 1 \in DOMAIN channel' /\ channel[j] = channel'[j - 1]
    OBVIOUS
  <2>1. j - 1 \in DOMAIN channel' /\ (j - 1) + 1 = j
    BY <1>2, <1>3
  <2> QED  BY <1>3, <2>1
<1>6. Sent = Sent' \cup Received1(Head(channel))
  <2>1. ASSUME NEW m \in Sent PROVE m \in Sent' \cup Received1(Head(channel))
    <3>1. PICK j \in DOMAIN channel : channel[j].type = "message-received" /\ m = channel[j].row
      BY DEF Sent
    <3>2. CASE j = 1
      BY <1>4, <3>1, <3>2 DEF Received1
    <3>3. CASE j - 1 \in DOMAIN channel' /\ channel[j] = channel'[j - 1]
      BY <3>1, <3>3 DEF Sent
    <3> QED  BY <1>5, <3>2, <3>3
  <2>2. ASSUME NEW m \in Sent' PROVE m \in Sent
    BY <1>3 DEF Sent
  <2>3. ASSUME NEW m \in Received1(Head(channel)) PROVE m \in Sent
    BY <1>4 DEF Sent, Received1
  <2> QED  BY <2>1, <2>2, <2>3
<1>7. Rebuilding <=> Rebuilding' \/ Head(channel).type = "messages-invalidated"
  BY <1>3, <1>4, <1>5 DEF Rebuilding
<1> QED  BY <1>3, <1>4, <1>6, <1>7

LEMMA Emptied ==
    /\ channel' = <<>> => Sent' = {} /\ DOMAIN channel' = {} /\ channel' \in Seq(Event)
    /\ UNCHANGED channel => Sent' = Sent /\ (Rebuilding' <=> Rebuilding)
<1>1. ASSUME channel' = <<>> PROVE Sent' = {} /\ DOMAIN channel' = {} /\ channel' \in Seq(Event)
  <2>1. DOMAIN channel' = {}
    BY <1>1
  <2> QED  BY <1>1, <2>1 DEF Sent
<1>2. ASSUME UNCHANGED channel PROVE Sent' = Sent
  BY <1>2, Zenon DEF Sent
<1>3. ASSUME UNCHANGED channel PROVE Rebuilding' <=> Rebuilding
  BY <1>3, Zenon DEF Rebuilding
<1> QED  BY <1>1, <1>2, <1>3

LEMMA Kinds ==
    ASSUME NEW e \in Event
    PROVE  /\ e.type = "message-received" => e.row \in Message
           /\ e.type = "messages-consumed" => e.lid \in LocalIds /\ e.at \in Nat
           /\ e.type = "message-cancelled" => e.id \in Nat
BY DEF Event

-----------------------------------------------------------------------------
(* Changes of the window. *)

\* What a trim at the old end leaves behind.
Trim(merged, dropped) ==
    /\ merged = messages' \cup dropped
    /\ \A d \in dropped : ~InBar(d)
    /\ dropped = {} => UNCHANGED <<hasMore, cursor>>
    /\ dropped # {} => hasMore' /\ \E k \in messages' : cursor' = Position(k)
    /\ \A d \in dropped, k \in messages' : InBar(k) \/ Position(d) < Position(k)
    /\ whole' => /\ whole
                 /\ \A d \in dropped, k \in messages' : InBar(k) => ~Before(k, d)
                 /\ dropped # {} /\ cursor # None => \A k \in messages' : cursor <= Position(k)
    /\ sound' => sound /\ ~Outrun(dropped)
    /\ {hasMore', whole', sound'} \subseteq BOOLEAN /\ cursor' \in Nat \cup {None}
    /\ cursor' \in {cursor} \cup {Position(k) : k \in messages'}

LEMMA Trims ==
    ASSUME TypeOK, NEW merged \in SUBSET Message, IsFiniteSet(merged),
           \A m \in merged : Position(m) < clock, Grown(merged)
    PROVE  Trim(merged, Dropped(merged, Visible, "append"))
<1> DEFINE kept == Kept(merged, Visible, "append")
           dropped == Dropped(merged, Visible, "append")
           first == {m \in kept : \A o \in kept : Position(m) <= Position(o)}
           f == CHOOSE m \in first : TRUE
<1>1. /\ messages' = kept
      /\ hasMore' = (hasMore \/ dropped # {})
      /\ cursor' = IF dropped = {} \/ kept = {} THEN cursor ELSE Position(f)
      /\ whole' = (whole /\ ~Skipped(kept, dropped) /\ ~Rewound(kept, dropped))
      /\ sound' = (sound /\ ~Outrun(dropped))
  BY Zenon DEF Grown
<1>2. /\ merged = kept \cup dropped /\ kept \subseteq merged /\ dropped \subseteq merged
      /\ \A d \in dropped : ~InBar(d)
  BY Divided, Zenon
<1>3. clock \in Nat /\ Visible \in Nat \ {0} /\ cursor \in Nat \cup {None}
      /\ {hasMore, whole, sound} \subseteq BOOLEAN
  BY DEF TypeOK
<1>4. /\ \A d \in dropped, k \in kept : InBar(k) \/ Position(d) < Position(k)
      /\ dropped # {} => kept # {}
  BY <1>3, TrimmedOld
<1> HIDE DEF kept, dropped
<1>5. kept # {} => f \in kept /\ \A o \in kept : Position(f) <= Position(o)
  <2>1. kept \in SUBSET Message
    BY <1>2
  <2> QED  BY <2>1, FirstOf, Zenon
<1> HIDE DEF f
<1>6. \A m \in merged : Position(m) \in Nat
  BY Positions
<1>7. dropped = {} => UNCHANGED <<hasMore, cursor>>
  BY <1>1, <1>3
<1>8. dropped # {} => hasMore' /\ cursor' = Position(f) /\ f \in kept
  BY <1>1, <1>4, <1>5
<1>9. whole' => /\ whole
                /\ \A d \in dropped, k \in kept : InBar(k) => ~Before(k, d)
                /\ dropped # {} /\ cursor # None => \A k \in kept : cursor <= Position(k)
  <2>1. whole' => whole /\ ~Skipped(kept, dropped) /\ ~Rewound(kept, dropped)
    BY <1>1
  <2>2. ~Skipped(kept, dropped) => \A d \in dropped, k \in kept : InBar(k) => ~Before(k, d)
    BY DEF Skipped
  <2>3. ~Rewound(kept, dropped) /\ dropped # {} /\ cursor # None => \A k \in kept : cursor <= Position(k)
    BY <1>2, <1>3, <1>6 DEF Rewound
  <2> QED  BY <2>1, <2>2, <2>3
<1>10. sound' => sound /\ ~Outrun(dropped)
  BY <1>1
<1>11. {hasMore', whole', sound'} \subseteq BOOLEAN
  BY <1>1, <1>3
<1>12. cursor' \in Nat \cup {None} /\ cursor' \in {cursor} \cup {Position(k) : k \in kept}
  BY <1>1, <1>2, <1>3, <1>5, <1>6
<1>13. Trim(merged, dropped)
  BY <1>1, <1>2, <1>4, <1>7, <1>8, <1>9, <1>10, <1>11, <1>12 DEF Trim
<1> QED  BY <1>13 DEF dropped

\* A version that is not in the bar of queued messages is where the hub has the message.
LEMMA Placed ==
    ASSUME NEW all, Fits(all), NEW m \in all, ~InBar(m), NEW r \in rows, r.id = m.id
    PROVE  r.invoked # None /\ Position(r) = Position(m)
BY DEF Fits, VersionOK, InBar, Position

\* What a trim takes is within reach again, and what was within reach stays so.
LEMMA TrimReaches ==
    ASSUME TypeOK, NEW all \in SUBSET Message, Fits(all), NEW merged \in SUBSET all, NEW dropped,
           Trim(merged, dropped), whole', hasMore => cursor # None, NEW r \in rows
    PROVE  /\ r.id \in IdsIn(merged) =>
                 r.id \in IdsIn(messages') \/ (r.invoked # None /\ hasMore' /\ Position(r) < cursor')
           /\ Reachable(r) => hasMore' /\ Position(r) < cursor'
<1>1. messages' \subseteq all /\ dropped \subseteq all /\ r \in Message
  BY DEF Trim, TypeOK
<1>2. ASSUME NEW d \in dropped, d.id = r.id, r.id \notin IdsIn(messages')
      PROVE  r.invoked # None /\ hasMore' /\ Position(r) < cursor'
  <2>1. r.invoked # None /\ Position(r) = Position(d) /\ ~InBar(d)
    BY <1>1, <1>2, Placed DEF Trim
  <2>2. PICK k \in messages' : cursor' = Position(k)
    BY DEF Trim
  <2>3. hasMore'
    BY DEF Trim
  <2>4. Position(d) \in Nat /\ Position(k) \in Nat
    BY <1>1, Positions
  <2>5. CASE InBar(k)
    <3>1. ~(Position(k) < Position(d))
      BY <2>5 DEF Trim, Before
    <3>2. Position(k) = k.id
      BY <1>1, <2>5 DEF InBar, Position, Fits, VersionOK
    <3>3. Position(d) = d.invoked /\ d.invoked # None
      BY <1>1, <2>1 DEF InBar, Position, Fits, VersionOK
    <3>4. k.id # d.id
      BY <1>2 DEF IdsIn
    <3>5. k.id # d.invoked
      BY <1>1, <3>3, <3>4 DEF Fits, VersionOK
    <3> QED  BY <2>1, <2>2, <2>3, <2>4, <3>1, <3>2, <3>3, <3>5
  <2>6. CASE ~InBar(k)
    <3>1. Position(d) < Position(k)
      BY <2>6 DEF Trim
    <3> QED  BY <2>1, <2>2, <2>3, <3>1
  <2> QED  BY <2>5, <2>6
<1>3. ASSUME r.id \in IdsIn(merged), r.id \notin IdsIn(messages')
      PROVE  r.invoked # None /\ hasMore' /\ Position(r) < cursor'
  <2>1. PICK d \in merged : d.id = r.id
    BY <1>3 DEF IdsIn
  <2>2. d \in dropped
    BY <1>3, <2>1 DEF Trim, IdsIn
  <2> QED  BY <1>2, <1>3, <2>1, <2>2
<1>4. ASSUME Reachable(r) PROVE hasMore' /\ Position(r) < cursor'
  <2>1. CASE dropped = {}
    BY <1>4, <2>1 DEF Trim, Reachable
  <2>2. CASE dropped # {}
    <3>1. PICK k \in messages' : cursor' = Position(k)
      BY <2>2 DEF Trim
    <3>2. hasMore /\ Position(r) < cursor /\ cursor # None
      BY <1>4 DEF Reachable
    <3>3. hasMore' /\ cursor <= Position(k)
      BY <2>2, <3>2 DEF Trim
    <3>4. Position(r) \in Nat /\ Position(k) \in Nat /\ cursor \in Nat
      BY <1>1, <3>2, Positions DEF TypeOK
    <3> QED  BY <3>1, <3>2, <3>3, <3>4
  <2> QED  BY <2>1, <2>2
<1> QED  BY <1>3, <1>4

\* What a trim takes while a page is under way, the page has or brings within reach.
LEMMA TrimLeaves ==
    ASSUME TypeOK, NEW all \in SUBSET Message, Fits(all), NEW merged \in SUBSET all, NEW dropped,
           Trim(merged, dropped), sound', NEW r \in rows,
           NEW c \in latest, c.answered, c.more => c.oldest # None,
           r.id \in IdsIn(merged)
    PROVE  r.id \in IdsIn(messages') \/ Paged(c, r)
<1>1. SUFFICES ASSUME r.id \notin IdsIn(messages')
               PROVE  Paged(c, r)
  OBVIOUS
<1>2. PICK d \in merged : d.id = r.id
  BY DEF IdsIn
<1>3. d \in dropped /\ ~InBar(d) /\ d \in all
  BY <1>1, <1>2 DEF Trim, IdsIn
<1>4. r.invoked # None /\ Position(r) = Position(d)
  BY <1>2, <1>3, Placed
<1>5. d.id \in IdsIn(c.rows) \/ (c.more /\ ~(Position(d) >= c.oldest))
  BY <1>3 DEF Trim, Outrun
<1>6. Position(d) \in Nat /\ c \in Call
  BY <1>3, Positions DEF TypeOK
<1>7. c.more => c.oldest \in Nat
  BY <1>6 DEF Call
<1> QED  BY <1>2, <1>4, <1>5, <1>6, <1>7 DEF Paged

-----------------------------------------------------------------------------
(* Versions. *)

\* Fewer versions fit as well, as long as the hub does nothing.
LEMMA StillFit ==
    ASSUME NEW all, Fits(all), VersionsOK, Versions' \subseteq all, UNCHANGED hubVars
    PROVE  VersionsOK'
<1>1. UNCHANGED <<rows, clock>>
  BY DEF hubVars
<1>2. RowsOK' /\ clock' > 0
  BY <1>1 DEF RowsOK, VersionsOK
<1>3. ASSUME NEW m \in Versions' PROVE VersionOK(m, Versions)'
  <2>1. VersionOK(m, all)
    BY <1>3 DEF Fits
  <2> QED  BY <1>1, <2>1 DEF VersionOK
<1> QED  BY <1>2, <1>3 DEF VersionsOK, Fits

LEMMA EventsStay ==
    ASSUME EventsOK, IdsIn(Versions') \subseteq IdsIn(Versions), UNCHANGED hubVars,
           \A i \in DOMAIN channel' : \E j \in DOMAIN channel : channel'[i] = channel[j]
    PROVE  EventsOK'
<1>1. UNCHANGED <<rows, clock>>
  BY DEF hubVars
<1>2. \A m \in Versions' : \E n \in Versions : n.id = m.id
  BY DEF IdsIn
<1>3. ASSUME NEW i \in DOMAIN channel' PROVE EventOK(channel[i])'
  <2>1. PICK j \in DOMAIN channel : channel'[i] = channel[j]
    BY <1>3
  <2>2. EventOK(channel[j])
    BY DEF EventsOK
  <2> QED  BY <1>1, <1>2, <2>1, <2>2 DEF EventOK, Tells
<1> QED  BY <1>3 DEF EventsOK

\* A new message has an id of its own.
LEMMA MadeFits ==
    ASSUME TypeOK, VersionsOK, NEW n \in Message, n.id = clock, n.created = clock,
           n.invoked \in {None, clock}, n.invoked = None => n.user /\ n.lid # None,
           n.lid # None => \A r \in rows : r.lid # n.lid,
           rows' = rows \cup {n}, clock' = clock + 1, Versions' \subseteq Versions \cup {n}
    PROVE  VersionsOK'
<1>1. clock \in Nat /\ clock > 0 /\ Versions \subseteq Message /\ rows \subseteq Versions
  BY VersionTypes DEF TypeOK, VersionsOK, Versions
<1>2. \A m \in Versions : VersionOK(m, Versions)
  BY DEF VersionsOK, Fits
<1>3. RowsOK'
  BY <1>1, <1>2 DEF RowsOK, VersionsOK, VersionOK
<1>4. ASSUME NEW m \in Versions' PROVE VersionOK(m, Versions)'
  <2>1. CASE m \in Versions
    <3>1. m \in Message
      BY <1>1, <2>1
    <3> QED  BY <1>1, <1>2, <2>1, <3>1 DEF VersionOK, Message
  <2>2. CASE m = n
    BY <1>1, <1>2, <2>2 DEF VersionOK, Message
  <2> QED  BY <1>4, <2>1, <2>2
<1> QED  BY <1>1, <1>3, <1>4 DEF VersionsOK, Fits

\* An acknowledgement happens at an instant of its own.
LEMMA StampedFits ==
    ASSUME TypeOK, VersionsOK, NEW row \in rows, row.invoked = None,
           rows' = (rows \ {row}) \cup {Stamped(row)}, clock' = clock + 1,
           Versions' \subseteq Versions \cup {Stamped(row)}
    PROVE  VersionsOK'
<1> DEFINE n == Stamped(row)
<1>1. clock \in Nat /\ clock > 0 /\ Versions \subseteq Message /\ rows \subseteq Versions /\ row \in Message
  BY VersionTypes DEF TypeOK, VersionsOK, Versions
<1>2. \A m \in Versions : VersionOK(m, Versions)
  BY DEF VersionsOK, Fits
<1>3. /\ n \in Message /\ n.id = row.id /\ n.lid = row.lid /\ n.user = row.user
      /\ n.created = row.created /\ n.invoked = clock
  BY <1>1 DEF Stamped, Message
<1> HIDE DEF n
<1>4. rows' = (rows \ {row}) \cup {n} /\ Versions' \subseteq Versions \cup {n}
  BY DEF n
<1>5. RowsOK'
  BY <1>3, <1>4 DEF RowsOK, VersionsOK
<1>6. \A m \in Versions : m.id = row.id => m.lid = row.lid /\ m.user = row.user /\ m.invoked = None
  BY <1>2 DEF VersionOK
<1>7. row.id # 0
  BY <1>1, <1>2 DEF VersionOK
<1>8. ASSUME NEW m \in Versions' PROVE VersionOK(m, Versions)'
  <2>1. CASE m \in Versions
    <3>1. m \in Message /\ VersionOK(m, Versions)
      BY <1>1, <1>2, <2>1
    <3>2. \A r \in rows' : r.id = m.id => /\ r.lid = m.lid /\ r.user = m.user
                                          /\ m.invoked \in {None, r.invoked}
      BY <1>3, <1>4, <1>6, <2>1, <3>1 DEF VersionOK
    <3>3. m.id = 0 => \E r \in rows' : r.id = 0
      BY <1>4, <1>7, <3>1 DEF VersionOK
    <3>4. m.invoked # None => m.invoked < clock' /\ \A v \in Versions' : v.id = m.invoked => v.id = m.id
      BY <1>1, <1>3, <1>4, <3>1 DEF VersionOK, Message
    <3> QED  BY <1>1, <3>1, <3>2, <3>3, <3>4 DEF VersionOK, Message
  <2>2. CASE m = n
    <3>1. VersionOK(row, Versions)
      BY <1>1, <1>2
    <3>2. \A v \in Versions' : v.id < clock
      BY <1>1, <1>2, <1>3, <1>4 DEF VersionOK
    <3>3. \A r \in rows' : r.id = n.id => r = n
      BY <1>3, <1>4 DEF RowsOK, VersionsOK
    <3> QED  BY <1>1, <1>3, <1>7, <2>2, <3>1, <3>2, <3>3 DEF VersionOK, Message
  <2> QED  BY <1>4, <1>8, <2>1, <2>2
<1> QED  BY <1>1, <1>5, <1>8 DEF VersionsOK, Fits

\* Only messages that are queued are withdrawn.
LEMMA WithdrawnFits ==
    ASSUME TypeOK, VersionsOK, NEW row \in rows, row.invoked = None,
           rows' = rows \ {row}, clock' = clock + 1, Versions' \subseteq Versions
    PROVE  VersionsOK'
<1>1. clock \in Nat /\ clock > 0 /\ Versions \subseteq Message /\ row \in Versions
  BY VersionTypes DEF TypeOK, VersionsOK, Versions
<1>2. \A m \in Versions : VersionOK(m, Versions)
  BY DEF VersionsOK, Fits
<1>3. row.id # 0
  BY <1>1, <1>2 DEF VersionOK
<1>4. RowsOK'
  BY DEF RowsOK, VersionsOK
<1>5. ASSUME NEW m \in Versions' PROVE VersionOK(m, Versions)'
  <2>1. m \in Message /\ VersionOK(m, Versions)
    BY <1>1, <1>2
  <2> QED  BY <1>1, <1>3, <2>1 DEF VersionOK, Message
<1> QED  BY <1>1, <1>4, <1>5 DEF VersionsOK, Fits

\* What a merge puts before all else is older than anything known.
LEMMA JoinedFits ==
    ASSUME TypeOK, VersionsOK, NEW n \in Message, n.id = 0, n.created = 0, n.invoked = 0, n.lid = None,
           \A r \in rows : r.id # 0,
           rows' = rows \cup {n}, clock' = clock, Versions' \subseteq Versions \cup {n}
    PROVE  VersionsOK'
<1>1. clock \in Nat /\ clock > 0 /\ Versions \subseteq Message /\ rows \subseteq Versions
  BY VersionTypes DEF TypeOK, VersionsOK, Versions
<1>2. \A m \in Versions : VersionOK(m, Versions)
  BY DEF VersionsOK, Fits
<1>3. \A m \in Versions : m.id # 0 /\ m.invoked # 0
  BY <1>2 DEF VersionOK
<1>4. RowsOK'
  BY DEF RowsOK, VersionsOK
<1>5. ASSUME NEW m \in Versions' PROVE VersionOK(m, Versions)'
  <2>1. CASE m \in Versions
    BY <1>1, <1>2, <1>3, <2>1 DEF VersionOK
  <2>2. CASE m = n
    BY <1>1, <1>3, <2>2 DEF VersionOK
  <2> QED  BY <1>5, <2>1, <2>2
<1> QED  BY <1>1, <1>4, <1>5 DEF VersionsOK, Fits

\* What an event under way tells stays true.
LEMMA EventsGrow ==
    ASSUME TypeOK, VersionsOK, EventsOK, NEW e,
           \A i \in DOMAIN channel' : (\E j \in DOMAIN channel : channel'[i] = channel[j]) \/ channel'[i] = e,
           Tells(e, rows', Versions', clock'),
           \A r \in rows : r.invoked # None => r \in rows',
           \A m \in Versions' : m.id \in IdsIn(Versions) \cup {0, clock},
           \A r \in rows' : r.id \in IdsIn(rows) \cup {0, clock},
           clock' \in {clock, clock + 1}
    PROVE  EventsOK'
<1>1. clock \in Nat /\ \A r \in rows : r.invoked # None => r.invoked < clock
  BY DEF TypeOK, VersionsOK, Fits, VersionOK, Versions
<1>2. ASSUME NEW i \in DOMAIN channel' PROVE EventOK(channel[i])'
  <2>1. CASE channel'[i] = e
    BY <2>1 DEF EventOK, Tells
  <2>2. ASSUME NEW j \in DOMAIN channel, channel'[i] = channel[j]
        PROVE  EventOK(channel[i])'
    <3> DEFINE d == channel[j]
    <3>1. EventOK(d) /\ d \in Event
      BY DEF EventsOK, TypeOK
    <3>2. ASSUME d.type = "messages-consumed"
          PROVE  /\ d.at > 0
                 /\ \E r \in rows' : r.lid = d.lid /\ r.invoked = d.at
                 /\ \A m \in Versions' : m.id # d.at
      <4>1. d.at \in Nat
        BY <3>1, <3>2, Kinds
      <4>2. PICK r \in rows : r.lid = d.lid /\ r.invoked = d.at
        BY <3>1, <3>2 DEF EventOK, Tells
      <4>3. r \in rows' /\ d.at < clock
        BY <1>1, <4>1, <4>2
      <4>4. d.at > 0 /\ d.at \notin IdsIn(Versions)
        BY <3>1, <3>2 DEF EventOK, Tells, IdsIn
      <4> QED  BY <1>1, <4>1, <4>2, <4>3, <4>4
    <3>3. ASSUME d.type = "message-cancelled"
          PROVE  d.id > 0 /\ d.id < clock' /\ d.id \notin IdsIn(rows')
      <4>1. d.id \in Nat
        BY <3>1, <3>3, Kinds
      <4>2. d.id > 0 /\ d.id < clock /\ d.id \notin IdsIn(rows)
        BY <3>1, <3>3 DEF EventOK, Tells
      <4> QED  BY <1>1, <4>1, <4>2 DEF IdsIn
    <3> HIDE DEF d
    <3> QED  BY <2>2, <3>2, <3>3 DEF EventOK, Tells, IdsIn, d
  <2> QED  BY <1>2, <2>1, <2>2
<1> QED  BY <1>2 DEF EventsOK

\* The window's versions of what an event acknowledges fit once they are stamped.
LEMMA AckedFits ==
    ASSUME TypeOK, VersionsOK, NEW lid \in LocalIds, NEW at \in Nat, at > 0,
           NEW row \in rows, row.lid = lid, row.invoked = at, \A m \in Versions : m.id # at
    PROVE  LET stamped == {[m EXCEPT !.invoked = at] : m \in {v \in Versions : v.lid = lid /\ v.invoked = None}}
           IN  stamped \subseteq Message /\ Fits(Versions \cup stamped)
               /\ \A n \in stamped : n.invoked = at /\ n.lid = lid
<1> DEFINE unstamped == {v \in Versions : v.lid = lid /\ v.invoked = None}
           stamped == {[m EXCEPT !.invoked = at] : m \in unstamped}
           all == Versions \cup stamped
<1>1. Versions \subseteq Message /\ clock \in Nat /\ row \in Versions
  BY VersionTypes DEF TypeOK, Versions
<1>2. \A m \in Versions : VersionOK(m, Versions)
  BY DEF VersionsOK, Fits
<1>3. at < clock
  BY <1>1, <1>2 DEF VersionOK
<1>4. ASSUME NEW n \in stamped
      PROVE  /\ n \in Message /\ n.invoked = at /\ n.lid = lid
             /\ \E m \in unstamped : n.id = m.id /\ n.user = m.user /\ n.created = m.created /\ n.lid = m.lid
  <2>1. PICK m \in unstamped : n = [m EXCEPT !.invoked = at]
    OBVIOUS
  <2>2. m \in Message /\ m.lid = lid
    BY <1>1
  <2>3. n.invoked = at /\ n.id = m.id /\ n.user = m.user /\ n.created = m.created /\ n.lid = m.lid /\ n \in Message
    BY <2>1, <2>2 DEF Message
  <2> QED  BY <2>2, <2>3
<1> HIDE DEF stamped
<1>5. \A v \in all : \E m \in Versions : v.id = m.id
  BY <1>4
<1>6. ASSUME NEW v \in all PROVE VersionOK(v, all)
  <2>1. CASE v \in Versions
    <3>1. VersionOK(v, Versions)
      BY <1>2, <2>1
    <3> QED  BY <1>5, <3>1 DEF VersionOK
  <2>2. CASE v \in stamped
    <3>1. PICK m \in unstamped : v.id = m.id /\ v.user = m.user /\ v.created = m.created /\ v.lid = m.lid
      BY <1>4, <2>2
    <3>2. VersionOK(m, Versions) /\ m.invoked = None /\ m.lid = lid /\ v.invoked = at
      BY <1>2, <1>4, <2>2, <3>1
    <3>3. \A r \in rows : r.id = m.id => r = row
      BY <3>2 DEF VersionOK, VersionsOK, RowsOK
    <3> QED  BY <1>1, <1>3, <1>5, <3>1, <3>2, <3>3 DEF VersionOK
  <2> QED  BY <2>1, <2>2
<1>7. Fits(all) /\ stamped \subseteq Message /\ \A n \in stamped : n.invoked = at /\ n.lid = lid
  BY <1>4, <1>6 DEF Fits
<1> QED  BY <1>7 DEF stamped

-----------------------------------------------------------------------------
(* Steps of the hub. *)

LEMMA Emits ==
    ASSUME Inv, NEW e \in Event, Emit(e)
    PROVE  /\ channel' \in Seq(Event) /\ connected' = connected /\ (channel' # <<>> => connected)
           /\ Sent' = Sent \cup (IF connected THEN Received1(e) ELSE {})
           /\ Rebuilding' <=> Rebuilding \/ (connected /\ e.type = "messages-invalidated")
           /\ \A i \in DOMAIN channel' :
                 (\E j \in DOMAIN channel : channel'[i] = channel[j]) \/ channel'[i] = e
<1>1. TypeOK /\ CallsOK
  BY DEF Inv
<1>2. CASE connected
  <2>1. channel' = Append(channel, e) /\ connected' = connected
    BY <1>2 DEF Emit
  <2> QED  BY <1>1, <1>2, <2>1, Appended
<1>3. CASE ~connected
  <2>1. channel' = channel /\ connected' = connected
    BY <1>3 DEF Emit
  <2> QED  BY <1>1, <1>3, <2>1, Emptied DEF TypeOK, CallsOK
<1> QED  BY <1>2, <1>3

LEMMA HubVersions ==
    ASSUME Inv, NEW e \in Event, Emit(e), UNCHANGED <<callVars, viewVars, waitVars, atBottom>>,
           NEW n, rows' \subseteq rows \cup {n}, Received1(e) \subseteq {n}
    PROVE  Versions' \subseteq Versions \cup {n}
<1>1. Sent' \subseteq Sent \cup {n}
  BY Emits
<1>2. UNCHANGED <<messages, pending, latest, older>>
  BY DEF callVars, viewVars, waitVars
<1>3. UNION {c.rows : c \in latest' \cup older'} = UNION {c.rows : c \in latest \cup older}
  BY <1>2
<1> QED  BY <1>1, <1>2, <1>3 DEF Versions

\* What the hub does reaches the browser as an event, or leaves the message where it is.
LEMMA HubKeeps ==
    ASSUME Inv, NEW e \in Event, Emit(e), UNCHANGED <<callVars, viewVars, waitVars, atBottom>>,
           NEW n \in Message, rows' \subseteq rows \cup {n},
           clock' \in {clock, clock + 1}, VersionsOK', EventsOK',
           n \in rows' => \/ n \in rows
                          \/ e.type = "messages-invalidated"
                          \/ /\ n.invoked \in {None, clock}
                             /\ \/ n \in Received1(e)
                                \/ \E q \in rows : q.id = n.id /\ q.invoked = None
    PROVE  Inv'
<1>1. /\ TypeOK /\ Finite /\ CallsOK /\ WholeOK /\ SoundOK /\ OlderOK
      /\ clock \in Nat /\ rows \subseteq Message
  BY DEF Inv, TypeOK
<1>2. UNCHANGED <<latest, older, isLoading, isLoadingMore, messages, pending, hasMore, cursor, whole,
                  sound, overflow, atBottom, connected>>
  BY Emits DEF callVars, viewVars, waitVars
<1>3. TypeOK'
  BY <1>1, <1>2, Emits DEF TypeOK
<1>4. Finite'
  <2>1. IsFiniteSet(rows \cup {n})
    BY <1>1, FS_AddElement DEF Finite
  <2>2. IsFiniteSet(rows')
    BY <2>1, FS_Subset
  <2> QED  BY <1>1, <1>2, <2>2 DEF Finite
<1>5. CallsOK'
  <2>1. channel' # <<>> => connected
    BY Emits
  <2>2. \A c \in latest \cup older : c.below \in Nat \cup {None} /\ c.oldest \in Nat \cup {None}
    BY <1>1 DEF TypeOK, Call
  <2>3. cursor \in Nat \cup {None}
    BY <1>1 DEF TypeOK
  <2> QED  BY <1>1, <1>2, <2>1, <2>2, <2>3 DEF CallsOK
<1>6. \A r : /\ Coming(r) => Coming(r)'
             /\ Shown(r)' <=> Shown(r)
             /\ Reachable(r)' <=> Reachable(r)
  <2>1. IdsIn(Sent) \subseteq IdsIn(Sent')
    BY Emits DEF IdsIn
  <2> QED  BY <1>2, <2>1 DEF Coming, Shown, Reachable
<1>8. SUFFICES ASSUME ~Rebuilding', whole \/ sound
               PROVE  WholeOK' /\ SoundOK' /\ OlderOK'
  BY <1>2, <1>3, <1>4, <1>5 DEF Inv, WholeOK, SoundOK, OlderOK
<1>9. connected /\ ~Rebuilding /\ e.type # "messages-invalidated"
  BY <1>1, <1>8, Emits DEF CallsOK
<1>10. n \in rows' /\ n \notin rows =>
          /\ n.invoked \in {None, clock}
          /\ Coming(n)' \/ \E q \in rows : q.id = n.id /\ q.invoked = None
  <2>1. n \in Received1(e) => Coming(n)'
    BY <1>9, Emits DEF Coming, IdsIn
  <2> QED  BY <1>9, <2>1
<1>11. ASSUME NEW q, NEW r, q.id = r.id
       PROVE  /\ Shown(q) => Shown(r)'
              /\ Coming(q) => Coming(r)'
              /\ \A c : q.id \in IdsIn(c.rows) => Paged(c, r)
  BY <1>6, <1>11 DEF Shown, Coming, Paged
<1>12. ASSUME whole, NEW r \in rows' PROVE Covered(r)'
  <2>1. CASE r \in rows
    <3>1. Covered(r)
      BY <1>1, <1>9, <1>12, <2>1 DEF WholeOK
    <3> QED  BY <1>6, <3>1 DEF Covered
  <2>2. CASE r = n /\ r \notin rows
    <3>1. ASSUME NEW q \in rows, q.id = n.id, q.invoked = None PROVE Covered(r)'
      <4>1. Shown(q) \/ Coming(q)
        BY <1>1, <1>9, <1>12, <3>1 DEF WholeOK, Covered
      <4> QED  BY <1>11, <2>2, <3>1, <4>1 DEF Covered
    <3> QED  BY <1>10, <1>12, <2>2, <3>1 DEF Covered
  <2> QED  BY <1>12, <2>1, <2>2
<1>13. ASSUME sound, NEW c \in latest, c.answered, NEW r \in rows'
       PROVE  Paged(c, r) \/ Shown(r)' \/ Coming(r)'
  <2>1. CASE r \in rows
    <3>1. Paged(c, r) \/ Shown(r) \/ Coming(r)
      BY <1>1, <1>9, <1>13, <2>1 DEF SoundOK
    <3> QED  BY <1>6, <3>1
  <2>2. CASE r = n /\ r \notin rows
    <3>1. ASSUME NEW q \in rows, q.id = n.id, q.invoked = None PROVE Paged(c, r) \/ Shown(r)' \/ Coming(r)'
      <4>1. q.id \in IdsIn(c.rows) \/ Shown(q) \/ Coming(q)
        BY <1>1, <1>9, <1>13, <3>1 DEF SoundOK, Paged
      <4> QED  BY <1>11, <2>2, <3>1, <4>1
    <3> QED  BY <1>10, <1>13, <2>2, <3>1
  <2> QED  BY <1>13, <2>1, <2>2
<1>14. ASSUME whole, NEW c \in older, NEW r \in rows', c.answered, r.invoked # None, Position(r) < c.below
       PROVE  Paged(c, r)
  <2>1. CASE r \in rows
    BY <1>1, <1>9, <1>14, <2>1 DEF OlderOK
  <2>2. CASE r = n /\ r \notin rows
    <3>1. Position(r) = clock
      <4>1. n.invoked \in {None, clock} /\ n.invoked # None
        BY <1>10, <1>14, <2>2
      <4> QED  BY <2>2, <4>1 DEF Position
    <3>2. c.below \in Nat /\ c.below < clock
      BY <1>1 DEF TypeOK, Call, CallsOK
    <3> QED  BY <1>1, <1>14, <3>1, <3>2
  <2> QED  BY <1>14, <2>1, <2>2
<1>15. \A c, r : Paged(c, r)' <=> Paged(c, r)
  BY DEF Paged
<1> QED  BY <1>2, <1>12, <1>13, <1>14, <1>15 DEF WholeOK, SoundOK, OlderOK

LEMMA MakesInv ==
    ASSUME Inv, NEW lid \in LocalIds \cup {None}, NEW user \in BOOLEAN, lid # None => user,
           lid # None => \A r \in rows : r.lid # lid,
           rows' = rows \cup {NewRow(lid, user)}, clock' = clock + 1, Emit(Received(NewRow(lid, user))),
           UNCHANGED <<callVars, viewVars, waitVars, atBottom>>
    PROVE  Inv'
<1> DEFINE n == NewRow(lid, user)
           e == Received(n)
<1>1. TypeOK /\ VersionsOK /\ EventsOK /\ clock \in Nat /\ rows \subseteq Versions
  BY DEF Inv, TypeOK, Versions
<1>2. n \in Message /\ n.id = clock /\ n.created = clock /\ n.lid = lid /\ n.user = user
      /\ n.invoked = IF lid = None THEN clock ELSE None
  BY <1>1 DEF NewRow, Message
<1> HIDE DEF n
<1>3. e \in Event /\ e.type = "message-received" /\ e.row = n
  BY <1>2 DEF Received, Event
<1>4. rows' = rows \cup {n} /\ Emit(e)
  BY DEF n
<1> HIDE DEF e
<1>5. Received1(e) = {n}
  BY <1>3 DEF Received1
<1>6. Versions' \subseteq Versions \cup {n}
  BY <1>3, <1>4, <1>5, HubVersions
<1>7. VersionsOK'
  <2>1. n.invoked \in {None, clock} /\ (n.invoked = None => n.user /\ n.lid # None)
    BY <1>1, <1>2
  <2>2. n.lid # None => \A r \in rows : r.lid # n.lid
    BY <1>2
  <2> QED  BY <1>1, <1>2, <1>4, <1>6, <2>1, <2>2, MadeFits
<1>8. EventsOK'
  <2>1. Tells(e, rows', Versions', clock')
    BY <1>3 DEF EventOK, Tells
  <2>2. /\ \A m \in Versions' : m.id \in IdsIn(Versions) \cup {0, clock}
        /\ \A r \in rows' : r.id \in IdsIn(rows) \cup {0, clock}
    BY <1>2, <1>4, <1>6 DEF IdsIn
  <2> QED  BY <1>1, <1>3, <1>4, <2>1, <2>2, Emits, EventsGrow
<1>9. n.invoked \in {None, clock} /\ n \in Received1(e)
  BY <1>2, <1>5
<1> QED  BY <1>2, <1>3, <1>4, <1>7, <1>8, <1>9, HubKeeps

LEMMA ResendInv ==
    ASSUME Inv, NEW row \in rows, Resend(row)
    PROVE  Inv'
<1> DEFINE e == Received(row)
<1>1. TypeOK /\ VersionsOK /\ EventsOK /\ rows \subseteq Versions /\ row \in Message
  BY DEF Inv, TypeOK, Versions
<1>2. e \in Event /\ e.type = "message-received" /\ e.row = row
  BY <1>1 DEF Received, Event
<1>3. /\ UNCHANGED hubVars /\ rows' = rows /\ clock' = clock /\ Emit(e)
      /\ UNCHANGED <<callVars, viewVars, waitVars, atBottom>>
  BY DEF Resend, hubVars
<1> HIDE DEF e
<1>4. Received1(e) = {row}
  BY <1>2 DEF Received1
<1>5. Versions' \subseteq Versions \cup {row}
  BY <1>2, <1>3, <1>4, HubVersions
<1>6. Versions' \subseteq Versions
  BY <1>1, <1>5
<1>7. VersionsOK'
  <2>1. Fits(Versions) /\ UNCHANGED hubVars
    BY <1>1, <1>3 DEF VersionsOK
  <2> QED  BY <1>1, <1>6, <2>1, StillFit
<1>8. EventsOK'
  <2>1. \A i \in DOMAIN channel' : (\E j \in DOMAIN channel : channel'[i] = channel[j]) \/ channel'[i] = e
    BY <1>2, <1>3, Emits
  <2>3. \A d : EventOK(d) => EventOK(d)'
    BY <1>3, <1>6 DEF EventOK, Tells
  <2>4. EventOK(e)'
    BY <1>2 DEF EventOK, Tells
  <2> QED  BY <1>1, <2>1, <2>3, <2>4 DEF EventsOK
<1> QED  BY <1>1, <1>2, <1>3, <1>7, <1>8, HubKeeps

LEMMA ConsumeInv ==
    ASSUME Inv, NEW row \in rows, Consume(row)
    PROVE  Inv'
<1> DEFINE n == Stamped(row)
           e == Consumed(row)
<1>1. TypeOK /\ VersionsOK /\ EventsOK /\ clock \in Nat /\ clock > 0 /\ row \in Versions /\ row \in Message
  BY DEF Inv, TypeOK, Versions, VersionsOK
<1>2. n \in Message /\ n.id = row.id /\ n.lid = row.lid /\ n.invoked = clock
  BY <1>1 DEF Stamped, Message
<1>3. row.invoked = None /\ row.lid \in LocalIds
  BY <1>1 DEF Consume, VersionsOK, Fits, VersionOK, Message
<1>4. e \in Event /\ e.type = "messages-consumed" /\ e.lid = row.lid /\ e.at = clock
  BY <1>1, <1>3 DEF Consumed, Event
<1>5. /\ rows' = (rows \ {row}) \cup {n} /\ clock' = clock + 1 /\ Emit(e)
      /\ UNCHANGED <<callVars, viewVars, waitVars, atBottom>>
  BY DEF Consume
<1>6. rows' = (rows \ {row}) \cup {Stamped(row)}
  BY <1>5
<1> HIDE DEF n, e
<1>7. Received1(e) = {}
  BY <1>4 DEF Received1
<1>8. Versions' \subseteq Versions \cup {n}
  BY <1>4, <1>5, <1>7, HubVersions
<1>9. VersionsOK'
  BY <1>1, <1>3, <1>5, <1>6, <1>8, StampedFits DEF n
<1>10. EventsOK'
  <2>1. \A m \in Versions' : m.id \in IdsIn(Versions)
    BY <1>1, <1>2, <1>8 DEF IdsIn
  <2>2. \A m \in Versions : m.id < clock
    BY <1>1 DEF VersionsOK, Fits, VersionOK
  <2>3. \A m \in Versions' : m.id # clock
    BY <1>1, <2>1, <2>2 DEF IdsIn
  <2>4. Tells(e, rows', Versions', clock')
    <3>1. e.at > 0 /\ n \in rows' /\ n.lid = e.lid /\ n.invoked = e.at
      BY <1>1, <1>2, <1>4, <1>5
    <3> QED  BY <1>4, <2>3, <3>1 DEF EventOK, Tells
  <2>5. \A r \in rows' : r.id \in IdsIn(rows)
    BY <1>2, <1>5 DEF IdsIn
  <2>6. \A r \in rows : r.invoked # None => r \in rows'
    BY <1>3, <1>5
  <2> QED  BY <1>1, <1>4, <1>5, <2>1, <2>4, <2>5, <2>6, Emits, EventsGrow
<1>11. rows' \subseteq rows \cup {n} /\ n.invoked \in {None, clock} /\ n.id = row.id /\ row.invoked = None
  BY <1>2, <1>3, <1>5
<1> QED  BY <1>2, <1>4, <1>5, <1>9, <1>10, <1>11, HubKeeps

LEMMA CancelInv ==
    ASSUME Inv, NEW row \in rows, CancelQueued(row)
    PROVE  Inv'
<1> DEFINE e == [type |-> "message-cancelled", id |-> row.id]
<1>1. TypeOK /\ VersionsOK /\ EventsOK /\ clock \in Nat /\ clock > 0 /\ row \in Versions /\ row \in Message
  BY DEF Inv, TypeOK, Versions, VersionsOK
<1>2. e \in Event /\ e.type = "message-cancelled" /\ e.id = row.id
  BY <1>1 DEF Event, Message
<1>3. /\ row.invoked = None /\ rows' = rows \ {row} /\ clock' = clock + 1 /\ Emit(e)
      /\ UNCHANGED <<callVars, viewVars, waitVars, atBottom>>
  BY DEF CancelQueued
<1> HIDE DEF e
<1>4. Received1(e) = {}
  BY <1>2 DEF Received1
<1>5. Versions' \subseteq Versions
  <2>1. Versions' \subseteq Versions \cup {row}
    BY <1>2, <1>3, <1>4, HubVersions
  <2> QED  BY <1>1, <2>1
<1>6. VersionsOK'
  BY <1>1, <1>3, <1>5, WithdrawnFits
<1>7. EventsOK'
  <2>1. VersionOK(row, Versions)
    BY <1>1 DEF VersionsOK, Fits
  <2>2. row.id \in Nat /\ row.id # 0 /\ row.id < clock
    BY <1>1, <1>3, <2>1 DEF VersionOK, Message
  <2>3. row.id \notin IdsIn(rows')
    BY <1>1, <1>3 DEF IdsIn, VersionsOK, RowsOK
  <2>4. Tells(e, rows', Versions', clock')
    BY <1>1, <1>2, <1>3, <2>2, <2>3 DEF EventOK, Tells
  <2>5. /\ \A m \in Versions' : m.id \in IdsIn(Versions)
        /\ \A r \in rows' : r.id \in IdsIn(rows)
        /\ \A r \in rows : r.invoked # None => r \in rows'
    BY <1>3, <1>5 DEF IdsIn
  <2> QED  BY <1>1, <1>2, <1>3, <2>4, <2>5, Emits, EventsGrow
<1>8. rows' \subseteq rows \cup {row} /\ row \notin rows'
  BY <1>3
<1> QED  BY <1>1, <1>2, <1>3, <1>6, <1>7, <1>8, HubKeeps

LEMMA JoinInv ==
    ASSUME Inv, Join
    PROVE  Inv'
<1> DEFINE n == [id |-> 0, lid |-> None, user |-> FALSE, created |-> 0, invoked |-> 0]
           e == [type |-> "messages-invalidated"]
<1>1. TypeOK /\ VersionsOK /\ EventsOK /\ clock \in Nat
  BY DEF Inv, TypeOK
<1>2. n \in Message /\ n.id = 0 /\ n.created = 0 /\ n.invoked = 0 /\ n.lid = None
  BY DEF Message
<1>3. e \in Event /\ e.type = "messages-invalidated"
  BY DEF Event
<1>4. /\ \A r \in rows : r.id # 0
      /\ rows' = rows \cup {n} /\ clock' = clock /\ Emit(e)
      /\ UNCHANGED <<callVars, viewVars, waitVars, atBottom>>
  BY DEF Join
<1> HIDE DEF n, e
<1>5. Received1(e) = {}
  BY <1>3 DEF Received1
<1>6. Versions' \subseteq Versions \cup {n}
  BY <1>3, <1>4, <1>5, HubVersions
<1>7. VersionsOK'
  BY <1>1, <1>2, <1>4, <1>6, JoinedFits
<1>8. EventsOK'
  <2>1. Tells(e, rows', Versions', clock')
    BY <1>3 DEF EventOK, Tells
  <2>2. /\ \A m \in Versions' : m.id \in IdsIn(Versions) \cup {0, clock}
        /\ \A r \in rows' : r.id \in IdsIn(rows) \cup {0, clock}
    BY <1>2, <1>4, <1>6 DEF IdsIn
  <2> QED  BY <1>1, <1>3, <1>4, <2>1, <2>2, Emits, EventsGrow
<1> QED  BY <1>2, <1>3, <1>4, <1>7, <1>8, HubKeeps

-----------------------------------------------------------------------------
(* Steps of the browser. *)

LEMMA Merged ==
    ASSUME NEW a, NEW b
    PROVE  /\ Merge(a, b) \subseteq a \cup b
           /\ IdsIn(Merge(a, b)) = IdsIn(a) \cup IdsIn(b)
           /\ Unseen(a, b) \subseteq a
           /\ IdsIn(a \cup b) = IdsIn(a) \cup IdsIn(b)
           /\ IdsIn(b \cup Unseen(a, b)) = IdsIn(a) \cup IdsIn(b)
           /\ IsFiniteSet(a) => IsFiniteSet(Unseen(a, b))
           /\ IsFiniteSet(a) /\ IsFiniteSet(b) => IsFiniteSet(Merge(a, b))
<1>1. Unseen(a, b) \subseteq a /\ Merge(a, b) = Unseen(a, b) \cup b
  BY DEF Unseen, Merge
<1>2. \A i \in IdsIn(a) : i \in IdsIn(Unseen(a, b)) \/ i \in IdsIn(b)
  BY DEF Unseen, IdsIn
<1>3. \A c, d : IdsIn(c \cup d) = IdsIn(c) \cup IdsIn(d)
  BY DEF IdsIn
<1>4. IdsIn(Unseen(a, b)) \subseteq IdsIn(a)
  BY <1>1 DEF IdsIn
<1>5. IsFiniteSet(a) => IsFiniteSet(Unseen(a, b))
  BY <1>1, FS_Subset
<1>6. IsFiniteSet(a) /\ IsFiniteSet(b) => IsFiniteSet(Merge(a, b))
  BY <1>1, <1>5, FS_Union
<1>7. IdsIn(Unseen(a, b)) \cup IdsIn(b) = IdsIn(a) \cup IdsIn(b)
  BY <1>2, <1>4
<1>8. IdsIn(Merge(a, b)) = IdsIn(a) \cup IdsIn(b) /\ IdsIn(b \cup Unseen(a, b)) = IdsIn(a) \cup IdsIn(b)
  BY <1>1, <1>3, <1>7
<1> QED  BY <1>1, <1>3, <1>5, <1>6, <1>8

LEMMA MergedAny ==
    \A a, b : /\ Merge(a, b) \subseteq a \cup b
              /\ IdsIn(Merge(a, b)) = IdsIn(a) \cup IdsIn(b)
              /\ IsFiniteSet(a) /\ IsFiniteSet(b) => IsFiniteSet(Merge(a, b))
BY Merged, Zenon

\* No trim takes a version of a message when none among the versions is acknowledged.
LEMMA QueuedKept ==
    ASSUME NEW all, Fits(all), NEW merged \in SUBSET all, NEW n, NEW mode,
           NEW r, r.id \in IdsIn(merged), \A v \in merged : v.id = r.id => v.invoked = None
    PROVE  r.id \in IdsIn(Kept(merged, n, mode))
<1>1. PICK m \in merged : m.id = r.id
  BY DEF IdsIn
<1>2. InBar(m)
  BY <1>1 DEF Fits, VersionOK, InBar
<1>3. m \in Kept(merged, n, mode)
  BY <1>2, Divided
<1> QED  BY <1>1, <1>3 DEF IdsIn

\* A step of the browser brings no message and no event that were not there.
LEMMA Keeps ==
    ASSUME Inv, UNCHANGED hubVars, NEW all, Fits(all), IdsIn(all) \subseteq IdsIn(Versions), Versions' \subseteq all,
           \A i \in DOMAIN channel' : \E j \in DOMAIN channel : channel'[i] = channel[j],
           TypeOK', Finite', CallsOK', WholeOK', SoundOK', OlderOK'
    PROVE  Inv'
<1>1. VersionsOK /\ EventsOK
  BY DEF Inv
<1>2. VersionsOK'
  BY <1>1, StillFit
<1>3. IdsIn(Versions') \subseteq IdsIn(Versions)
  BY DEF IdsIn
<1>4. EventsOK'
  BY <1>1, <1>3, EventsStay
<1> QED  BY <1>2, <1>4 DEF Inv

\* What the invariant says of messages, whatever the window.
LEMMA Known ==
    ASSUME Inv
    PROVE  /\ TypeOK /\ Finite /\ CallsOK /\ clock \in Nat
           /\ Versions \subseteq Message /\ Fits(Versions) /\ rows \subseteq Versions
           /\ messages \subseteq Versions /\ pending \subseteq Versions
           /\ \A c \in latest \cup older : c.rows \subseteq Versions /\ c \in Call
           /\ IsFiniteSet(messages) /\ IsFiniteSet(pending)
           /\ \A all : Fits(all) => \A m \in all : Position(m) < clock
<1>1. TypeOK /\ Finite /\ VersionsOK /\ CallsOK
  BY DEF Inv
<1>2. \A all : Fits(all) => \A m \in all : Position(m) < clock
  BY DEF Fits, VersionOK, Position
<1> QED  BY <1>1, <1>2, VersionTypes DEF TypeOK, VersionsOK, Versions, Finite

\* A step that merges messages into the window and trims it keeps what was accounted for.
LEMMA GrownKeeps ==
    ASSUME Inv, UNCHANGED rows, UNCHANGED older, latest' \subseteq latest \cup {Asked(None)},
           Rebuilding' <=> Rebuilding,
           NEW all \in SUBSET Message, Fits(all), NEW merged \in SUBSET all, IsFiniteSet(merged), Grown(merged),
           \A r \in rows : Shown(r) \/ Coming(r) => r.id \in IdsIn(merged \cup pending') \/ Coming(r)'
    PROVE  /\ WholeOK' /\ SoundOK' /\ OlderOK'
           /\ messages' \subseteq all /\ IsFiniteSet(messages')
           /\ {hasMore', whole', sound'} \subseteq BOOLEAN /\ cursor' \in Nat \cup {None}
           /\ (whole' => whole) /\ (sound' => sound)
           /\ cursor' # None => cursor' < clock
           /\ whole' /\ hasMore' => cursor' # None
<1> DEFINE dropped == Dropped(merged, Visible, "append")
<1>1. TypeOK /\ CallsOK /\ WholeOK /\ SoundOK /\ OlderOK
  BY DEF Inv
<1>2. \A m \in all : Position(m) < clock /\ Position(m) \in Nat
  BY Known, Positions
<1>3. Trim(merged, dropped)
  <2>1. merged \in SUBSET Message /\ \A m \in merged : Position(m) < clock
    BY <1>2
  <2> QED  BY <1>1, <2>1, Trims
<1> HIDE DEF dropped
<1>4. messages' \subseteq merged /\ messages' \subseteq all
  BY <1>3 DEF Trim
<1>5. IsFiniteSet(messages')
  BY <1>4, FS_Subset
<1>6. /\ {hasMore', whole', sound'} \subseteq BOOLEAN /\ cursor' \in Nat \cup {None}
      /\ (whole' => whole) /\ (sound' => sound)
  BY <1>3 DEF Trim
<1>7. cursor' # None => cursor' < clock
  BY <1>1, <1>2, <1>3, <1>4 DEF Trim, CallsOK
<1>8. whole' /\ hasMore' => cursor' # None
  <2>1. CASE dropped = {}
    BY <1>1, <1>3, <2>1 DEF Trim, CallsOK
  <2>2. CASE dropped # {}
    BY <1>2, <1>3, <1>4, <2>2 DEF Trim
  <2> QED  BY <2>1, <2>2
<1>9. \A r : Shown(r)' <=> r.id \in IdsIn(messages') \/ r.id \in IdsIn(pending')
  BY DEF Shown, IdsIn
<1>10. IdsIn(merged \cup pending') = IdsIn(merged) \cup IdsIn(pending')
  BY Merged
<1>11. WholeOK'
  <2> SUFFICES ASSUME whole', ~Rebuilding', NEW r \in rows
               PROVE  Covered(r)'
    BY DEF WholeOK
  <2>1. /\ r.id \in IdsIn(merged) =>
              r.id \in IdsIn(messages') \/ (r.invoked # None /\ hasMore' /\ Position(r) < cursor')
        /\ Reachable(r) => hasMore' /\ Position(r) < cursor'
    BY <1>1, <1>3, <1>6, TrimReaches DEF CallsOK
  <2>2. Covered(r)
    BY <1>1, <1>6 DEF WholeOK
  <2>3. Reachable(r)' <=> hasMore' /\ Position(r) < cursor'
    BY DEF Reachable
  <2> QED  BY <1>9, <1>10, <2>1, <2>2, <2>3 DEF Covered
<1>12. SoundOK'
  <2> SUFFICES ASSUME sound', ~Rebuilding', NEW c \in latest', NEW r \in rows, c.answered
               PROVE  Paged(c, r) \/ Shown(r)' \/ Coming(r)'
    BY DEF SoundOK, Paged
  <2>1. c \in latest
    BY DEF Asked
  <2>2. Paged(c, r) \/ Shown(r) \/ Coming(r)
    BY <1>1, <1>6, <2>1 DEF SoundOK
  <2>3. ASSUME r.id \in IdsIn(merged) PROVE r.id \in IdsIn(messages') \/ Paged(c, r)
    <3>1. c.more => c.oldest # None
      BY <1>1, <2>1 DEF CallsOK
    <3> QED  BY <1>1, <1>3, <2>1, <2>3, <3>1, TrimLeaves
  <2> QED  BY <1>9, <1>10, <2>2, <2>3
<1>13. OlderOK'
  BY <1>1, <1>6 DEF OlderOK, Paged
<1> QED  BY <1>4, <1>5, <1>6, <1>7, <1>8, <1>11, <1>12, <1>13

\* What the state of a call says of its kind.
LEMMA Calls ==
    ASSUME Inv
    PROVE  /\ \A c \in latest : latest \ {c} = {} /\ isLoading
           /\ \A c \in older : older \ {c} = {} /\ isLoadingMore
           /\ ~isLoading => latest = {}
           /\ ~isLoadingMore => older = {}
           /\ \A below \in Nat \cup {None} :
                 /\ Asked(below) \in Call /\ Asked(below).below = below /\ ~Asked(below).answered
                 /\ Asked(below).rows = {} /\ Asked(below).oldest = None
<1>1. CallsOK
  BY DEF Inv
<1>2. \A below \in Nat \cup {None} : Asked(below) \in Call
  BY DEF Asked, Call
<1> QED  BY <1>1, <1>2 DEF CallsOK, Asked

LEMMA AnswerLatestInv ==
    ASSUME Inv, NEW c \in latest, AnswerLatest(c)
    PROVE  Inv'
<1> DEFINE p == Page(None)
<1>1. /\ TypeOK /\ Finite /\ VersionsOK /\ CallsOK /\ WholeOK /\ OlderOK
      /\ clock \in Nat /\ Fits(Versions) /\ rows \subseteq Versions
  BY Known DEF Inv
<1>2. latest' = {p} /\ latest \ {c} = {} /\ isLoading
  BY Calls DEF AnswerLatest
<1>3. UNCHANGED <<rows, clock, channel, connected, older, isLoading, isLoadingMore, messages, hasMore, cursor, whole,
                  sound, pending, overflow, atBottom>>
  BY DEF AnswerLatest, hubVars, wireVars, viewVars, waitVars
<1>4. /\ p \in Call /\ p.answered /\ p.rows \subseteq rows /\ IsFiniteSet(p.rows)
      /\ p.oldest # None => p.oldest < clock
      /\ p.more => p.oldest # None
      /\ \A r \in rows : Paged(p, r)
  BY <1>1, Pages
<1> HIDE DEF p
<1>5. Sent' = Sent /\ (Rebuilding' <=> Rebuilding)
  BY <1>3, Emptied
<1>6. Versions' \subseteq Versions
  BY <1>1, <1>2, <1>3, <1>4, <1>5 DEF Versions
<1>7. TypeOK'
  BY <1>1, <1>2, <1>3, <1>4 DEF TypeOK
<1>8. Finite'
  BY <1>1, <1>2, <1>3, <1>4 DEF Finite
<1>9. CallsOK'
  BY <1>1, <1>2, <1>3, <1>4 DEF CallsOK
<1>10. WholeOK'
  BY <1>1, <1>3, <1>5 DEF WholeOK, Covered, Shown, Coming, Reachable
<1>11. SoundOK'
  BY <1>2, <1>3, <1>4 DEF SoundOK, Paged
<1>12. OlderOK'
  BY <1>1, <1>3, <1>5 DEF OlderOK, Paged
<1>13. UNCHANGED hubVars
  BY <1>3 DEF hubVars
<1> QED  BY <1>1, <1>3, <1>6, <1>7, <1>8, <1>9, <1>10, <1>11, <1>12, <1>13, Keeps

LEMMA AnswerOlderInv ==
    ASSUME Inv, NEW c \in older, AnswerOlder(c)
    PROVE  Inv'
<1> DEFINE p == Page(c.below)
<1>1. /\ TypeOK /\ Finite /\ VersionsOK /\ CallsOK /\ WholeOK /\ SoundOK
      /\ clock \in Nat /\ Fits(Versions) /\ rows \subseteq Versions
  BY Known DEF Inv
<1>2. older' = {p} /\ older \ {c} = {} /\ isLoadingMore
  BY Calls DEF AnswerOlder
<1>3. UNCHANGED <<rows, clock, channel, connected, latest, isLoading, isLoadingMore, messages, hasMore, cursor, whole,
                  sound, pending, overflow, atBottom>>
  BY DEF AnswerOlder, hubVars, wireVars, viewVars, waitVars
<1>4. c.below \in Nat \cup {None} /\ c.below # None /\ c.below < clock
  BY <1>1 DEF TypeOK, Call, CallsOK
<1>5. /\ p \in Call /\ p.answered /\ p.below = c.below /\ p.rows \subseteq rows /\ IsFiniteSet(p.rows)
      /\ p.oldest # None => p.oldest < clock
      /\ p.more => p.oldest # None
      /\ \A r \in rows : r.invoked # None /\ Position(r) < c.below => Paged(p, r)
  BY <1>1, <1>4, Pages
<1> HIDE DEF p
<1>6. Sent' = Sent /\ (Rebuilding' <=> Rebuilding)
  BY <1>3, Emptied
<1>7. Versions' \subseteq Versions
  BY <1>1, <1>2, <1>3, <1>5, <1>6 DEF Versions
<1>8. TypeOK'
  BY <1>1, <1>2, <1>3, <1>5 DEF TypeOK
<1>9. Finite'
  BY <1>1, <1>2, <1>3, <1>5 DEF Finite
<1>10. CallsOK'
  BY <1>1, <1>2, <1>3, <1>4, <1>5 DEF CallsOK
<1>11. WholeOK'
  BY <1>1, <1>3, <1>6 DEF WholeOK, Covered, Shown, Coming, Reachable
<1>12. SoundOK'
  BY <1>1, <1>3, <1>6 DEF SoundOK, Paged, Shown, Coming
<1>13. OlderOK'
  BY <1>2, <1>3, <1>5 DEF OlderOK, Paged
<1>14. UNCHANGED hubVars
  BY <1>3 DEF hubVars
<1> QED  BY <1>1, <1>3, <1>7, <1>8, <1>9, <1>10, <1>11, <1>12, <1>13, <1>14, Keeps

LEMMA LoadOlderInv ==
    ASSUME Inv, LoadOlder
    PROVE  Inv'
<1>1. /\ TypeOK /\ Finite /\ CallsOK /\ WholeOK /\ SoundOK /\ Fits(Versions)
      /\ cursor \in Nat /\ cursor < clock
  BY Known DEF Inv, TypeOK, CallsOK, LoadOlder
<1>2. older = {} /\ older' = {Asked(cursor)} /\ isLoadingMore' = TRUE
  BY Calls DEF LoadOlder
<1>3. UNCHANGED <<rows, clock, channel, connected, latest, isLoading, messages, hasMore, cursor, whole,
                  sound, pending, overflow, atBottom>>
  BY DEF LoadOlder, hubVars, wireVars, viewVars, waitVars
<1>4. /\ Asked(cursor) \in Call /\ Asked(cursor).below = cursor /\ ~Asked(cursor).answered
      /\ Asked(cursor).rows = {} /\ Asked(cursor).oldest = None
  BY <1>1, Calls
<1>5. Sent' = Sent /\ (Rebuilding' <=> Rebuilding)
  BY <1>3, Emptied
<1>6. Versions' \subseteq Versions
  BY <1>2, <1>3, <1>4, <1>5 DEF Versions
<1>7. TypeOK'
  BY <1>1, <1>2, <1>3, <1>4 DEF TypeOK
<1>8. Finite'
  BY <1>1, <1>2, <1>3, <1>4, FS_EmptySet DEF Finite
<1>9. CallsOK'
  BY <1>1, <1>2, <1>3, <1>4 DEF CallsOK
<1>10. WholeOK'
  BY <1>1, <1>3, <1>5 DEF WholeOK, Covered, Shown, Coming, Reachable
<1>11. SoundOK'
  BY <1>1, <1>3, <1>5 DEF SoundOK, Paged, Shown, Coming
<1>12. OlderOK'
  BY <1>2, <1>4 DEF OlderOK
<1>13. UNCHANGED hubVars
  BY <1>3 DEF hubVars
<1> QED  BY <1>1, <1>3, <1>6, <1>7, <1>8, <1>9, <1>10, <1>11, <1>12, <1>13, Keeps

LEMMA LatestFailsInv ==
    ASSUME Inv, NEW c \in latest, LatestFails(c)
    PROVE  Inv'
<1>1. TypeOK /\ Finite /\ CallsOK /\ WholeOK /\ OlderOK /\ Fits(Versions)
  BY Known DEF Inv
<1>2. latest' = {} /\ isLoading' = FALSE /\ sound' = FALSE
  BY Calls DEF LatestFails
<1>3. UNCHANGED <<rows, clock, channel, connected, older, isLoadingMore, messages, hasMore, cursor, whole,
                  pending, overflow, atBottom>>
  BY DEF LatestFails, hubVars, wireVars, waitVars
<1>4. Sent' = Sent /\ (Rebuilding' <=> Rebuilding)
  BY <1>3, Emptied
<1>5. Versions' \subseteq Versions
  BY <1>2, <1>3, <1>4 DEF Versions
<1>6. TypeOK' /\ Finite' /\ CallsOK'
  BY <1>1, <1>2, <1>3 DEF TypeOK, Finite, CallsOK
<1>7. WholeOK'
  BY <1>1, <1>3, <1>4 DEF WholeOK, Covered, Shown, Coming, Reachable
<1>8. SoundOK' /\ OlderOK'
  BY <1>1, <1>2, <1>3, <1>4 DEF SoundOK, OlderOK, Paged
<1>9. UNCHANGED hubVars
  BY <1>3 DEF hubVars
<1> QED  BY <1>1, <1>3, <1>5, <1>6, <1>7, <1>8, <1>9, Keeps

LEMMA OlderFailsInv ==
    ASSUME Inv, NEW c \in older, OlderFails(c)
    PROVE  Inv'
<1>1. TypeOK /\ Finite /\ CallsOK /\ WholeOK /\ SoundOK /\ Fits(Versions)
  BY Known DEF Inv
<1>2. older' = {} /\ isLoadingMore' = FALSE
  BY Calls DEF OlderFails
<1>3. UNCHANGED <<rows, clock, channel, connected, latest, isLoading, messages, hasMore, cursor, whole, sound,
                  pending, overflow, atBottom>>
  BY DEF OlderFails, hubVars, wireVars, viewVars, waitVars
<1>4. Sent' = Sent /\ (Rebuilding' <=> Rebuilding)
  BY <1>3, Emptied
<1>5. Versions' \subseteq Versions
  BY <1>2, <1>3, <1>4 DEF Versions
<1>6. TypeOK' /\ Finite' /\ CallsOK'
  BY <1>1, <1>2, <1>3 DEF TypeOK, Finite, CallsOK
<1>7. WholeOK'
  BY <1>1, <1>3, <1>4 DEF WholeOK, Covered, Shown, Coming, Reachable
<1>8. SoundOK' /\ OlderOK'
  BY <1>1, <1>2, <1>3, <1>4 DEF SoundOK, OlderOK, Paged, Shown, Coming
<1>9. UNCHANGED hubVars
  BY <1>3 DEF hubVars
<1> QED  BY <1>1, <1>3, <1>5, <1>6, <1>7, <1>8, <1>9, Keeps

LEMMA OpenInv ==
    ASSUME Inv, Open
    PROVE  Inv'
<1> DEFINE e == [type |-> "open"]
<1>1. TypeOK /\ Finite /\ VersionsOK /\ CallsOK /\ OlderOK /\ Fits(Versions)
  BY Known DEF Inv
<1>2. UNCHANGED <<rows, clock, latest, older, isLoading, isLoadingMore, messages, hasMore, cursor, whole, sound,
                  pending, overflow, atBottom>>
  BY DEF Open, hubVars, callVars, viewVars, waitVars
<1>3. connected' = TRUE /\ channel' = <<e>> /\ channel = <<>> /\ whole = FALSE /\ sound = FALSE
  BY <1>1 DEF Open, CallsOK, TypeOK
<1>4. e \in Event /\ e.type = "open"
  BY DEF Event
<1> HIDE DEF e
<1>5. channel' = Append(channel, e)
  BY <1>3
<1>6. Sent' = Sent /\ \A i \in DOMAIN channel' : channel'[i] = e
  <2>1. Sent' = Sent \cup Received1(e)
        /\ \A i \in DOMAIN channel' : (i \in DOMAIN channel /\ channel'[i] = channel[i]) \/ channel'[i] = e
    BY <1>1, <1>4, <1>5, Appended
  <2>2. DOMAIN channel = {} /\ Received1(e) = {}
    BY <1>3, <1>4 DEF Received1
  <2> QED  BY <2>1, <2>2
<1>7. Versions' = Versions
  BY <1>2, <1>6 DEF Versions
<1>8. TypeOK' /\ Finite' /\ CallsOK'
  <2>1. channel' \in Seq(Event)
    BY <1>1, <1>4, <1>5, Appended
  <2> QED  BY <1>1, <1>2, <1>3, <2>1 DEF TypeOK, Finite, CallsOK
<1>9. WholeOK' /\ SoundOK' /\ OlderOK'
  BY <1>2, <1>3 DEF WholeOK, SoundOK, OlderOK
<1>10. EventsOK'
  BY <1>4, <1>6 DEF EventsOK, EventOK, Tells
<1>11. VersionsOK'
  BY <1>1, <1>2, <1>7, StillFit DEF hubVars
<1> QED  BY <1>8, <1>9, <1>10, <1>11 DEF Inv

LEMMA BreakInv ==
    ASSUME Inv, Break
    PROVE  Inv'
<1>1. TypeOK /\ Finite /\ CallsOK /\ Fits(Versions)
  BY Known DEF Inv
<1>2. UNCHANGED <<rows, clock, latest, older, isLoading, isLoadingMore, messages, hasMore, cursor,
                  pending, overflow, atBottom>>
  BY DEF Break, hubVars, callVars, waitVars
<1>3. connected' = FALSE /\ channel' = <<>> /\ whole' = FALSE /\ sound' = FALSE
  BY DEF Break
<1>4. Sent' = {} /\ DOMAIN channel' = {} /\ channel' \in Seq(Event)
  BY <1>3, Emptied
<1>5. Versions' \subseteq Versions
  BY <1>2, <1>4 DEF Versions
<1>6. TypeOK' /\ Finite' /\ CallsOK'
  BY <1>1, <1>2, <1>3, <1>4 DEF TypeOK, Finite, CallsOK
<1>7. WholeOK' /\ SoundOK' /\ OlderOK'
  BY <1>3 DEF WholeOK, SoundOK, OlderOK
<1>8. UNCHANGED hubVars
  BY <1>2 DEF hubVars
<1> QED  BY <1>1, <1>4, <1>5, <1>6, <1>7, <1>8, Keeps

LEMMA ScrollUpInv ==
    ASSUME Inv, ScrollUp
    PROVE  Inv'
<1>1. TypeOK /\ Finite /\ CallsOK /\ WholeOK /\ SoundOK /\ OlderOK /\ Fits(Versions)
  BY Known DEF Inv
<1>2. UNCHANGED <<rows, clock, channel, connected, latest, older, isLoading, isLoadingMore, messages, hasMore, cursor,
                  whole, sound, pending, overflow>> /\ atBottom' = FALSE
  BY DEF ScrollUp, hubVars, wireVars, callVars, viewVars, waitVars
<1>3. Sent' = Sent /\ (Rebuilding' <=> Rebuilding)
  BY <1>2, Emptied
<1>4. Versions' \subseteq Versions
  BY <1>2, <1>3 DEF Versions
<1>5. TypeOK' /\ Finite' /\ CallsOK'
  BY <1>1, <1>2 DEF TypeOK, Finite, CallsOK
<1>6. WholeOK' /\ SoundOK' /\ OlderOK'
  BY <1>1, <1>2, <1>3 DEF WholeOK, SoundOK, OlderOK, Covered, Shown, Coming, Reachable, Paged
<1>7. UNCHANGED hubVars
  BY <1>2 DEF hubVars
<1> QED  BY <1>1, <1>2, <1>4, <1>5, <1>6, <1>7, Keeps

LEMMA ArrivedVersions ==
    ASSUME Inv, NEW page \in latest
    PROVE  /\ Arrived(page) \subseteq Versions /\ IsFiniteSet(Arrived(page))
           /\ IdsIn(Arrived(page)) = IdsIn(messages) \cup IdsIn(pending) \cup IdsIn(page.rows)
<1>1. /\ messages \subseteq Versions /\ pending \subseteq Versions /\ page.rows \subseteq Versions
      /\ IsFiniteSet(messages) /\ IsFiniteSet(pending) /\ IsFiniteSet(page.rows)
  BY Known DEF Finite
<1>2. CASE messages = {}
  <2>1. Arrived(page) = pending \cup page.rows /\ IdsIn(messages) = {}
    BY <1>2 DEF Arrived, IdsIn
  <2>2. IdsIn(pending \cup page.rows) = IdsIn(pending) \cup IdsIn(page.rows)
    BY Merged, Zenon
  <2>3. IsFiniteSet(pending \cup page.rows)
    BY <1>1, FS_Union
  <2> QED  BY <1>1, <2>1, <2>2, <2>3
<1>3. CASE messages # {}
  <2> DEFINE waiting == Merge(pending, page.rows)
  <2>1. waiting \subseteq Versions /\ IsFiniteSet(waiting) /\ IdsIn(waiting) = IdsIn(pending) \cup IdsIn(page.rows)
    <3>1. /\ Merge(pending, page.rows) \subseteq pending \cup page.rows
          /\ IdsIn(Merge(pending, page.rows)) = IdsIn(pending) \cup IdsIn(page.rows)
          /\ IsFiniteSet(pending) /\ IsFiniteSet(page.rows) => IsFiniteSet(Merge(pending, page.rows))
      BY MergedAny
    <3> QED  BY <1>1, <3>1
  <2>2. Arrived(page) = Merge(messages, waiting)
    BY <1>3 DEF Arrived
  <2> HIDE DEF waiting
  <2>3. /\ Merge(messages, waiting) \subseteq Versions /\ IsFiniteSet(Merge(messages, waiting))
        /\ IdsIn(Merge(messages, waiting)) = IdsIn(messages) \cup IdsIn(waiting)
    <3>1. /\ Merge(messages, waiting) \subseteq messages \cup waiting
          /\ IdsIn(Merge(messages, waiting)) = IdsIn(messages) \cup IdsIn(waiting)
          /\ IsFiniteSet(messages) /\ IsFiniteSet(waiting) => IsFiniteSet(Merge(messages, waiting))
      BY Merged, Zenon
    <3> QED  BY <1>1, <2>1, <3>1
  <2> QED  BY <2>1, <2>2, <2>3
<1> QED  BY <1>2, <1>3

LEMMA WaitingVersions ==
    ASSUME Inv, NEW ms \in SUBSET Versions, IsFiniteSet(ms)
    PROVE  /\ Waiting(ms) \subseteq Versions /\ IsFiniteSet(Waiting(ms))
           /\ IdsIn(messages \cup Waiting(ms)) = IdsIn(messages) \cup IdsIn(pending) \cup IdsIn(ms)
<1> DEFINE merged == Merge(pending, ms)
<1>1. messages \subseteq Versions /\ pending \subseteq Versions /\ IsFiniteSet(messages) /\ IsFiniteSet(pending)
  BY Known
<1>2. /\ merged \subseteq pending \cup ms
      /\ IdsIn(merged) = IdsIn(pending) \cup IdsIn(ms)
      /\ IsFiniteSet(pending) /\ IsFiniteSet(ms) => IsFiniteSet(merged)
  BY MergedAny
<1>3. Waiting(ms) = Unseen(merged, messages)
  BY DEF Waiting
<1> HIDE DEF merged
<1>4. /\ Unseen(merged, messages) \subseteq merged
      /\ IdsIn(messages \cup Unseen(merged, messages)) = IdsIn(merged) \cup IdsIn(messages)
      /\ IsFiniteSet(merged) => IsFiniteSet(Unseen(merged, messages))
  BY Merged
<1> QED  BY <1>1, <1>2, <1>3, <1>4

LEMMA LatestArrivesInv ==
    ASSUME Inv, NEW page \in latest, LatestArrives(page)
    PROVE  Inv'
<1> DEFINE merged == Arrived(page)
           dropped == Dropped(merged, Visible, "append")
           kept == Kept(merged, Visible, "append")
<1>1. /\ TypeOK /\ Finite /\ CallsOK /\ WholeOK /\ SoundOK /\ OlderOK
      /\ Versions \subseteq Message /\ Fits(Versions) /\ rows \subseteq Versions
      /\ messages \subseteq Versions /\ pending \subseteq Versions
      /\ page.rows \subseteq Versions /\ IsFiniteSet(page.rows) /\ page \in Call
      /\ IsFiniteSet(messages) /\ IsFiniteSet(pending)
  BY Known DEF Inv, Finite
<1>2. /\ page.answered /\ latest' = {} /\ isLoading' = FALSE /\ sound' = FALSE /\ cursor' = page.oldest
      /\ UNCHANGED <<rows, clock, channel, connected, older, isLoadingMore, atBottom>>
  BY Calls DEF LatestArrives, hubVars, wireVars
<1>3. Sent' = Sent /\ (Rebuilding' <=> Rebuilding)
  BY <1>2, Emptied
<1>4. page.oldest \in Nat \cup {None} /\ page.more \in BOOLEAN
      /\ (page.oldest # None => page.oldest < clock) /\ (page.more => page.oldest # None)
  BY <1>1, <1>2 DEF Call, CallsOK
<1>5. /\ merged \subseteq Versions /\ IsFiniteSet(merged)
      /\ IdsIn(merged) = IdsIn(messages) \cup IdsIn(pending) \cup IdsIn(page.rows)
  BY ArrivedVersions
<1> HIDE DEF merged
<1>6. /\ messages' \subseteq Versions /\ IsFiniteSet(messages') /\ pending' \subseteq Versions /\ IsFiniteSet(pending')
      /\ {overflow', hasMore', whole'} \subseteq BOOLEAN
      /\ whole' => /\ sound /\ older = {} /\ hasMore' = page.more /\ messages' = kept
                   /\ \A d \in dropped : page.more /\ Position(d) < page.oldest
  <2>1. CASE atBottom
    <3>1. /\ messages' = kept /\ pending' = {} /\ overflow' = FALSE /\ hasMore' = page.more
          /\ whole' = (sound /\ ~isLoadingMore /\ \A d \in dropped : page.more /\ Position(d) < page.oldest)
      BY <2>1 DEF LatestArrives, merged
    <3>2. kept \subseteq Versions /\ IsFiniteSet(kept)
      BY <1>5, Divided, FS_Subset
    <3> HIDE DEF kept, dropped
    <3>3. {overflow', hasMore', whole'} \subseteq BOOLEAN
      BY <1>4, <3>1
    <3>4. ~isLoadingMore => older = {}
      BY Calls
    <3> QED  BY <3>1, <3>2, <3>3, <3>4, FS_EmptySet
  <2>2. CASE ~atBottom
    <3> DEFINE w == Waiting(page.rows)
    <3>1. pending' = Kept(w, PendingSize, "append") /\ overflow' = (overflow \/ Overflows(page.rows))
          /\ whole' = FALSE /\ messages' = messages /\ hasMore' = hasMore
      BY <2>2 DEF LatestArrives, IntoPending
    <3>2. w \subseteq Versions /\ IsFiniteSet(w)
      BY <1>1, WaitingVersions
    <3>3. pending' \subseteq w
      BY <3>1, Divided
    <3>4. pending' \subseteq Versions /\ IsFiniteSet(pending')
      BY <3>2, <3>3, FS_Subset
    <3> HIDE DEF w
    <3>5. overflow' \in BOOLEAN
      BY <3>1
    <3>6. hasMore' \in BOOLEAN
      BY <1>1, <3>1 DEF TypeOK
    <3> QED  BY <1>1, <3>1, <3>4, <3>5, <3>6
  <2> QED  BY <2>1, <2>2
<1>7. Versions' \subseteq Versions
  BY <1>1, <1>2, <1>3, <1>6 DEF Versions
<1>8. TypeOK'
  BY <1>1, <1>2, <1>4, <1>6 DEF TypeOK
<1>9. Finite'
  BY <1>1, <1>2, <1>6 DEF Finite
<1>10. CallsOK'
  BY <1>1, <1>2, <1>4, <1>6 DEF CallsOK
<1>11. WholeOK'
  <2> SUFFICES ASSUME whole', ~Rebuilding', NEW r \in rows
               PROVE  Covered(r)'
    BY <1>2 DEF WholeOK
  <2>1. Paged(page, r) \/ Shown(r) \/ Coming(r)
    BY <1>1, <1>2, <1>3, <1>6 DEF SoundOK
  <2>2. CASE Coming(r)
    BY <1>3, <2>2 DEF Covered, Coming
  <2>3. CASE r.id \in IdsIn(merged)
    <3>1. PICK m \in merged : m.id = r.id
      BY <2>3 DEF IdsIn
    <3>2. CASE m \in kept
      BY <1>6, <3>1, <3>2 DEF Covered, Shown, IdsIn
    <3>3. CASE m \in dropped
      <4>1. ~InBar(m)
        BY <3>3, Divided
      <4>2. r.invoked # None /\ Position(r) = Position(m)
        BY <1>1, <1>5, <3>1, <4>1, Placed
      <4> QED  BY <1>2, <1>6, <3>3, <4>2 DEF Covered, Reachable
    <3> QED  BY <3>2, <3>3, Divided
  <2>4. CASE r.id \notin IdsIn(merged) /\ Paged(page, r)
    BY <1>2, <1>5, <1>6, <2>4 DEF Paged, Covered, Reachable
  <2>5. Shown(r) => r.id \in IdsIn(merged)
    BY <1>5 DEF Shown, IdsIn
  <2> QED  BY <2>1, <2>2, <2>3, <2>4, <2>5
<1>12. SoundOK' /\ OlderOK'
  BY <1>2, <1>6 DEF SoundOK, OlderOK
<1>13. UNCHANGED hubVars
  BY <1>2 DEF hubVars
<1> QED  BY <1>1, <1>2, <1>7, <1>8, <1>9, <1>10, <1>11, <1>12, <1>13, Keeps

LEMMA OlderArrivesInv ==
    ASSUME Inv, NEW page \in older, OlderArrives(page)
    PROVE  Inv'
<1> DEFINE merged == Merge(page.rows, messages)
           dropped == Dropped(merged, Visible, "prepend")
<1>1. /\ TypeOK /\ Finite /\ CallsOK /\ WholeOK /\ SoundOK /\ OlderOK
      /\ Versions \subseteq Message /\ Fits(Versions) /\ rows \subseteq Versions
      /\ messages \subseteq Versions /\ pending \subseteq Versions
      /\ page.rows \subseteq Versions /\ IsFiniteSet(page.rows) /\ page \in Call
      /\ IsFiniteSet(messages) /\ IsFiniteSet(pending)
  BY Known DEF Inv, Finite
<1>2. /\ page.answered /\ older' = {} /\ isLoadingMore' = FALSE /\ cursor' = page.oldest /\ hasMore' = page.more
      /\ messages' = Kept(merged, Visible, "prepend")
      /\ whole' = (whole /\ page.below = cursor /\ dropped = {})
      /\ sound' = (sound /\ dropped = {})
      /\ UNCHANGED <<rows, clock, channel, connected, latest, isLoading, pending, overflow, atBottom>>
  BY Calls DEF OlderArrives, hubVars, wireVars, waitVars
<1>3. Sent' = Sent /\ (Rebuilding' <=> Rebuilding)
  BY <1>2, Emptied
<1>4. page.oldest \in Nat \cup {None} /\ page.more \in BOOLEAN
      /\ (page.oldest # None => page.oldest < clock) /\ (page.more => page.oldest # None)
  BY <1>1, <1>2 DEF Call, CallsOK
<1>5. /\ merged \subseteq Versions /\ IsFiniteSet(merged)
      /\ IdsIn(merged) = IdsIn(page.rows) \cup IdsIn(messages)
  <2>1. /\ Merge(page.rows, messages) \subseteq page.rows \cup messages
        /\ IdsIn(Merge(page.rows, messages)) = IdsIn(page.rows) \cup IdsIn(messages)
        /\ IsFiniteSet(page.rows) /\ IsFiniteSet(messages) => IsFiniteSet(Merge(page.rows, messages))
    BY MergedAny
  <2> QED  BY <1>1, <2>1
<1>6. messages' \subseteq merged /\ (dropped = {} => messages' = merged)
  <2>1. messages' = merged \ dropped
    BY <1>2 DEF Kept
  <2> HIDE DEF merged, dropped
  <2> QED  BY <2>1
<1> HIDE DEF merged, dropped
<1>7. messages' \subseteq Versions /\ IsFiniteSet(messages')
  BY <1>5, <1>6, FS_Subset
<1>8. {hasMore', whole', sound'} \subseteq BOOLEAN /\ (whole' => whole) /\ (sound' => sound)
  BY <1>1, <1>2, <1>4 DEF TypeOK
<1>9. Versions' \subseteq Versions
  BY <1>1, <1>2, <1>3, <1>7 DEF Versions
<1>10. TypeOK'
  BY <1>1, <1>2, <1>4, <1>7, <1>8 DEF TypeOK
<1>11. Finite'
  BY <1>1, <1>2, <1>7 DEF Finite
<1>12. CallsOK'
  BY <1>1, <1>2, <1>4, <1>8 DEF CallsOK
<1>13. \A r : dropped = {} /\ Shown(r) => Shown(r)'
  <2>1. \A a, b : IdsIn(a \cup b) = IdsIn(a) \cup IdsIn(b)
    BY Merged, Zenon
  <2>2. dropped = {} => IdsIn(messages) \subseteq IdsIn(messages')
    BY <1>5, <1>6
  <2> QED  BY <1>2, <2>1, <2>2 DEF Shown
<1>14. WholeOK'
  <2> SUFFICES ASSUME whole', ~Rebuilding', NEW r \in rows
               PROVE  Covered(r)'
    BY <1>2 DEF WholeOK
  <2>1. Covered(r) /\ dropped = {} /\ page.below = cursor
    BY <1>1, <1>2, <1>3, <1>8 DEF WholeOK
  <2>2. CASE Shown(r) \/ Coming(r)
    BY <1>3, <1>13, <2>1, <2>2 DEF Covered, Coming
  <2>3. CASE r.invoked # None /\ Reachable(r)
    <3>1. Paged(page, r)
      BY <1>1, <1>2, <1>3, <1>8, <2>1, <2>3 DEF OlderOK, Reachable
    <3>2. r.id \in IdsIn(page.rows) => r.id \in IdsIn(messages')
      BY <1>5, <1>6, <2>1
    <3>3. IdsIn(messages') \subseteq IdsIn(messages' \cup pending')
      BY DEF IdsIn
    <3> QED  BY <1>2, <2>3, <3>1, <3>2, <3>3 DEF Paged, Covered, Shown, Reachable
  <2> QED  BY <2>1, <2>2, <2>3 DEF Covered
<1>15. SoundOK'
  BY <1>1, <1>2, <1>3, <1>13 DEF SoundOK, Paged, Coming
<1>16. OlderOK'
  BY <1>2 DEF OlderOK
<1>17. UNCHANGED hubVars
  BY <1>2 DEF hubVars
<1> QED  BY <1>1, <1>2, <1>9, <1>10, <1>11, <1>12, <1>14, <1>15, <1>16, <1>17, Keeps

LEMMA ScrollDownInv ==
    ASSUME Inv, ScrollDown
    PROVE  Inv'
<1> DEFINE merged == Merge(messages, pending)
<1>1. /\ TypeOK /\ Finite /\ CallsOK /\ WholeOK /\ SoundOK /\ OlderOK
      /\ Versions \subseteq Message /\ Fits(Versions)
      /\ messages \subseteq Versions /\ pending \subseteq Versions
      /\ IsFiniteSet(messages) /\ IsFiniteSet(pending)
  BY Known DEF Inv
<1>2. /\ atBottom' = TRUE /\ overflow' = FALSE
      /\ UNCHANGED <<rows, clock, channel, connected, older, isLoadingMore>>
  BY DEF ScrollDown, hubVars, wireVars
<1>3. \/ UNCHANGED <<latest, isLoading>>
      \/ latest = {} /\ latest' = {Asked(None)} /\ isLoading' = TRUE
  <2>1. CASE overflow
    <3>1. AskLatest
      BY <2>1 DEF ScrollDown
    <3> QED  BY <3>1, Calls DEF AskLatest
  <2>2. CASE ~overflow
    BY <2>2 DEF ScrollDown
  <2> QED  BY <2>1, <2>2
<1>4. /\ Asked(None) \in Call /\ Asked(None).below = None /\ ~Asked(None).answered
      /\ Asked(None).rows = {} /\ Asked(None).oldest = None
  BY Calls
<1>5. Sent' = Sent /\ (Rebuilding' <=> Rebuilding)
  BY <1>2, Emptied
<1>6. latest' \subseteq latest \cup {Asked(None)}
  BY <1>3
<1>7. /\ WholeOK' /\ SoundOK' /\ OlderOK'
      /\ messages' \subseteq Versions /\ IsFiniteSet(messages') /\ pending' \subseteq pending
      /\ {hasMore', whole', sound'} \subseteq BOOLEAN /\ cursor' \in Nat \cup {None}
      /\ (whole' => whole) /\ (sound' => sound)
      /\ cursor' # None => cursor' < clock
      /\ whole' /\ hasMore' => cursor' # None
  <2>1. CASE pending = {} /\ ~overflow
    <3>1. UNCHANGED <<messages, hasMore, cursor, whole, sound, pending>>
      BY <2>1 DEF ScrollDown, viewVars
    <3>2. UNCHANGED latest
      BY <2>1 DEF ScrollDown
    <3>3. WholeOK' /\ SoundOK' /\ OlderOK'
      BY <1>1, <1>2, <1>5, <3>1, <3>2 DEF WholeOK, SoundOK, OlderOK, Covered, Shown, Coming, Reachable, Paged
    <3> QED  BY <1>1, <3>1, <3>3 DEF TypeOK, CallsOK
  <2>2. CASE ~(pending = {} /\ ~overflow)
    <3>1. Grown(merged) /\ pending' = {}
      BY <2>2 DEF ScrollDown
    <3>2. merged \in SUBSET Versions /\ IsFiniteSet(merged) /\ IdsIn(merged) = IdsIn(messages) \cup IdsIn(pending)
      BY <1>1, Merged
    <3> HIDE DEF merged
    <3>3. ASSUME NEW r \in rows, Shown(r) \/ Coming(r)
          PROVE  r.id \in IdsIn(merged \cup pending') \/ Coming(r)'
      <4>1. Coming(r) => Coming(r)'
        BY <1>5 DEF Coming
      <4>2. Shown(r) => r.id \in IdsIn(merged) /\ merged \cup pending' = merged
        BY <3>1, <3>2 DEF Shown, IdsIn
      <4> QED  BY <3>3, <4>1, <4>2
    <3>4. Versions \in SUBSET Message /\ UNCHANGED rows /\ UNCHANGED older
      BY <1>1, <1>2
    <3> QED  BY <1>1, <1>5, <1>6, <3>1, <3>2, <3>3, <3>4, GrownKeeps
  <2> QED  BY <2>1, <2>2
<1>8. Versions' \subseteq Versions
  <2>1. UNION {c.rows : c \in latest' \cup older'} \subseteq UNION {c.rows : c \in latest \cup older}
    BY <1>2, <1>3, <1>4
  <2> QED  BY <1>1, <1>2, <1>5, <1>7, <2>1 DEF Versions
<1>9. TypeOK'
  BY <1>1, <1>2, <1>3, <1>4, <1>7 DEF TypeOK
<1>10. Finite'
  BY <1>1, <1>2, <1>3, <1>4, <1>7, FS_EmptySet, FS_Subset DEF Finite
<1>11. CallsOK'
  BY <1>1, <1>2, <1>3, <1>4, <1>7 DEF CallsOK
<1>12. UNCHANGED hubVars
  BY <1>2 DEF hubVars
<1> QED  BY <1>1, <1>2, <1>7, <1>8, <1>9, <1>10, <1>11, <1>12, Keeps

-----------------------------------------------------------------------------
(* Events that arrive. *)

\* The part of Deliver that all events share.
Delivering(type) ==
    /\ channel # <<>> /\ channel' = Tail(channel) /\ Head(channel).type = type
    /\ UNCHANGED hubVars /\ UNCHANGED connected

LEMMA Arriving ==
    ASSUME Inv, NEW type, Delivering(type)
    PROVE  /\ Head(channel) \in Event /\ EventOK(Head(channel)) /\ connected' /\ connected
           /\ channel' \in Seq(Event) /\ UNCHANGED <<rows, clock, connected>>
           /\ Sent = Sent' \cup Received1(Head(channel))
           /\ type # "messages-invalidated" => (Rebuilding' <=> Rebuilding)
           /\ \A i \in DOMAIN channel' : \E j \in DOMAIN channel : channel'[i] = channel[j]
<1>1. TypeOK /\ EventsOK /\ CallsOK
  BY DEF Inv
<1>2. channel # <<>> /\ channel' = Tail(channel) /\ Head(channel).type = type /\ UNCHANGED <<rows, clock, connected>>
  BY DEF Delivering, hubVars
<1>3. /\ Head(channel) \in Event /\ Head(channel) = channel[1] /\ 1 \in DOMAIN channel
      /\ channel' \in Seq(Event)
      /\ Sent = Sent' \cup Received1(Head(channel))
      /\ Rebuilding <=> Rebuilding' \/ Head(channel).type = "messages-invalidated"
      /\ \A i \in DOMAIN channel' : i + 1 \in DOMAIN channel /\ channel'[i] = channel[i + 1]
  BY <1>1, <1>2, Taken
<1>4. EventOK(Head(channel))
  BY <1>1, <1>3 DEF EventsOK
<1>5. connected
  BY <1>1, <1>2 DEF CallsOK
<1> QED  BY <1>2, <1>3, <1>4, <1>5

LEMMA OpenedInv ==
    ASSUME Inv, Delivering("open"), AskLatest, sound' = ~isLoading,
           UNCHANGED <<older, isLoadingMore, messages, hasMore, cursor, whole, waitVars, atBottom>>
    PROVE  Inv'
<1>1. TypeOK /\ Finite /\ CallsOK /\ WholeOK /\ SoundOK /\ OlderOK /\ Fits(Versions)
  BY Known DEF Inv
<1>2. UNCHANGED <<rows, clock, connected, older, isLoadingMore, messages, hasMore, cursor, whole,
                  pending, overflow, atBottom>>
  BY Arriving DEF waitVars
<1>3. \/ isLoading = TRUE /\ UNCHANGED <<latest, isLoading>> /\ sound' = FALSE
      \/ latest = {} /\ latest' = {Asked(None)} /\ isLoading' = TRUE /\ sound' = TRUE
  BY <1>1, Calls DEF AskLatest, TypeOK
<1>4. /\ Asked(None) \in Call /\ Asked(None).below = None /\ ~Asked(None).answered
      /\ Asked(None).rows = {} /\ Asked(None).oldest = None
  BY Calls
<1>5. /\ Sent' = Sent /\ (Rebuilding' <=> Rebuilding) /\ channel' \in Seq(Event) /\ connected'
      /\ \A i \in DOMAIN channel' : \E j \in DOMAIN channel : channel'[i] = channel[j]
  <2>1. Head(channel).type = "open"
    BY DEF Delivering
  <2>2. Received1(Head(channel)) = {}
    BY <2>1 DEF Received1
  <2>3. Sent = Sent' \cup Received1(Head(channel)) /\ (Rebuilding' <=> Rebuilding)
    BY Arriving
  <2>4. Sent' = Sent
    BY <2>2, <2>3
  <2> QED  BY <2>3, <2>4, Arriving
<1>6. Versions' \subseteq Versions
  <2>1. UNION {c.rows : c \in latest' \cup older'} \subseteq UNION {c.rows : c \in latest \cup older}
    BY <1>2, <1>3, <1>4
  <2> QED  BY <1>2, <1>5, <2>1 DEF Versions
<1>7. TypeOK'
  BY <1>1, <1>2, <1>3, <1>4, <1>5 DEF TypeOK
<1>8. Finite'
  BY <1>1, <1>2, <1>3, <1>4, FS_EmptySet DEF Finite
<1>9. CallsOK'
  BY <1>1, <1>2, <1>3, <1>4, <1>5 DEF CallsOK
<1>10. WholeOK'
  <2>1. Sent' = Sent /\ (Rebuilding' <=> Rebuilding)
    BY <1>5
  <2>2. UNCHANGED <<rows, messages, pending, hasMore, cursor, whole>>
    BY <1>2
  <2>3. \A r : Covered(r) => Covered(r)'
    BY <2>1, <2>2 DEF Covered, Shown, Coming, Reachable
  <2>4. WholeOK
    BY <1>1
  <2> QED  BY <2>1, <2>2, <2>3, <2>4 DEF WholeOK
<1>11. SoundOK'
  BY <1>3, <1>4 DEF SoundOK
<1>12. OlderOK'
  BY <1>1, <1>2, <1>5 DEF OlderOK, Paged
<1>13. UNCHANGED hubVars
  BY <1>2 DEF hubVars
<1> QED  BY <1>1, <1>5, <1>6, <1>7, <1>8, <1>9, <1>10, <1>11, <1>12, <1>13, Keeps

LEMMA RemovedInv ==
    ASSUME Inv, Delivering("message-cancelled"), Remove(Head(channel).id), UNCHANGED callVars
    PROVE  Inv'
<1> DEFINE id == Head(channel).id
<1>1. TypeOK /\ Finite /\ CallsOK /\ WholeOK /\ SoundOK /\ OlderOK /\ Fits(Versions)
  BY Known DEF Inv
<1>2. /\ messages' = {m \in messages : m.id # id} /\ pending' = {m \in pending : m.id # id}
      /\ UNCHANGED <<rows, clock, connected, latest, older, isLoading, isLoadingMore, hasMore, cursor, whole, sound,
                     overflow, atBottom>>
  BY Arriving DEF callVars, Remove
<1>3. \A r \in rows : r.id # id
  <2>1. Head(channel).type = "message-cancelled"
    BY DEF Delivering
  <2> QED  BY <2>1, Arriving DEF EventOK, Tells, IdsIn
<1>4. /\ Sent' = Sent /\ (Rebuilding' <=> Rebuilding) /\ channel' \in Seq(Event) /\ connected'
      /\ \A i \in DOMAIN channel' : \E j \in DOMAIN channel : channel'[i] = channel[j]
  <2>1. Head(channel).type = "message-cancelled"
    BY DEF Delivering
  <2>2. Received1(Head(channel)) = {}
    BY <2>1 DEF Received1
  <2>3. Sent = Sent' \cup Received1(Head(channel)) /\ (Rebuilding' <=> Rebuilding)
    BY Arriving
  <2>4. Sent' = Sent
    BY <2>2, <2>3
  <2> QED  BY <2>3, <2>4, Arriving
<1>5. messages' \subseteq messages /\ pending' \subseteq pending /\ IsFiniteSet(messages') /\ IsFiniteSet(pending')
  <2>1. messages' \subseteq messages /\ pending' \subseteq pending
    BY <1>2
  <2> QED  BY <1>1, <2>1, FS_Subset DEF Finite
<1>6. Versions' \subseteq Versions
  BY <1>2, <1>4, <1>5 DEF Versions
<1>7. TypeOK'
  BY <1>1, <1>2, <1>4, <1>5 DEF TypeOK
<1>8. Finite' /\ CallsOK'
  BY <1>1, <1>2, <1>4, <1>5 DEF Finite, CallsOK
<1>9. \A r \in rows : Shown(r) => Shown(r)'
  BY <1>2, <1>3 DEF Shown, IdsIn
<1>10. WholeOK'
  BY <1>1, <1>2, <1>4, <1>9 DEF WholeOK, Covered, Coming, Reachable
<1>11. SoundOK' /\ OlderOK'
  BY <1>1, <1>2, <1>4, <1>9 DEF SoundOK, OlderOK, Paged, Coming
<1>12. UNCHANGED hubVars
  BY <1>2 DEF hubVars
<1> QED  BY <1>1, <1>4, <1>6, <1>7, <1>8, <1>10, <1>11, <1>12, Keeps

LEMMA ClearedInv ==
    ASSUME Inv, Delivering("messages-invalidated"), Clear
    PROVE  Inv'
<1>1. TypeOK /\ Finite /\ Fits(Versions)
  BY Known DEF Inv
<1>2. /\ messages' = {} /\ pending' = {} /\ overflow' = FALSE /\ hasMore' = FALSE /\ whole' = FALSE /\ sound' = TRUE
      /\ cursor' = None /\ atBottom' = TRUE /\ isLoading' = TRUE /\ isLoadingMore' = FALSE
      /\ latest' = {Asked(None)} /\ older' = {}
  BY DEF Clear
<1>3. /\ Asked(None) \in Call /\ Asked(None).below = None /\ ~Asked(None).answered
      /\ Asked(None).rows = {} /\ Asked(None).oldest = None
  BY Calls
<1>4. /\ Sent' \subseteq Sent /\ channel' \in Seq(Event) /\ connected' /\ UNCHANGED <<rows, clock, connected>>
      /\ \A i \in DOMAIN channel' : \E j \in DOMAIN channel : channel'[i] = channel[j]
  BY Arriving
<1>5. Versions' \subseteq Versions
  BY <1>2, <1>3, <1>4 DEF Versions
<1>6. TypeOK' /\ CallsOK'
  BY <1>1, <1>2, <1>3, <1>4 DEF TypeOK, CallsOK
<1>7. Finite'
  BY <1>1, <1>2, <1>3, <1>4, FS_EmptySet DEF Finite
<1>8. WholeOK' /\ SoundOK' /\ OlderOK'
  BY <1>2, <1>3 DEF WholeOK, SoundOK, OlderOK
<1>9. UNCHANGED hubVars
  BY <1>4 DEF hubVars
<1> QED  BY <1>1, <1>4, <1>5, <1>6, <1>7, <1>8, <1>9, Keeps

LEMMA IngestInv ==
    ASSUME Inv, Delivering("message-received"), Ingest(Head(channel).row), UNCHANGED callVars
    PROVE  Inv'
<1> DEFINE m == Head(channel).row
<1>1. /\ TypeOK /\ Finite /\ CallsOK /\ WholeOK /\ SoundOK /\ OlderOK
      /\ Versions \subseteq Message /\ Fits(Versions) /\ rows \subseteq Versions
      /\ messages \subseteq Versions /\ pending \subseteq Versions
      /\ IsFiniteSet(messages) /\ IsFiniteSet(pending)
  BY Known DEF Inv
<1>2. UNCHANGED <<rows, clock, connected, latest, older, isLoading, isLoadingMore>> /\ UNCHANGED atBottom
  BY Arriving DEF callVars, Ingest
<1>3. /\ Sent = Sent' \cup {m} /\ (Rebuilding' <=> Rebuilding) /\ channel' \in Seq(Event) /\ connected'
      /\ \A i \in DOMAIN channel' : \E j \in DOMAIN channel : channel'[i] = channel[j]
  <2>1. Head(channel).type = "message-received"
    BY DEF Delivering
  <2>2. Received1(Head(channel)) = {m}
    BY <2>1 DEF Received1
  <2>3. Sent = Sent' \cup Received1(Head(channel)) /\ (Rebuilding' <=> Rebuilding)
    BY Arriving
  <2> HIDE DEF m
  <2>4. Sent = Sent' \cup {m}
    BY <2>2, <2>3
  <2> QED  BY <2>3, <2>4, Arriving
<1>4. Ingest(m)
  OBVIOUS
<1> HIDE DEF m
<1>5. m \in Versions /\ IsFiniteSet({m}) /\ IdsIn({m}) = {m.id}
  <2>1. m \in Versions
    BY <1>3 DEF Versions
  <2>2. IsFiniteSet({m})
    BY FS_Singleton
  <2>3. IdsIn({m}) = {m.id}
    BY DEF IdsIn
  <2> QED  BY <2>1, <2>2, <2>3
<1>6. \A r \in rows : Coming(r) => Coming(r)' \/ r.id = m.id
  BY <1>3 DEF Coming, IdsIn
<1>7. \A a, b : IdsIn(a \cup b) = IdsIn(a) \cup IdsIn(b)
  BY Merged, Zenon
<1>8. /\ WholeOK' /\ SoundOK' /\ OlderOK'
      /\ messages' \subseteq Versions /\ IsFiniteSet(messages')
      /\ pending' \subseteq Versions /\ IsFiniteSet(pending')
      /\ {hasMore', whole', sound', overflow'} \subseteq BOOLEAN /\ cursor' \in Nat \cup {None}
      /\ (whole' => whole) /\ (sound' => sound)
      /\ cursor' # None => cursor' < clock
      /\ whole' /\ hasMore' => cursor' # None
  <2>1. CASE atBottom \/ ~m.user
    <3> DEFINE merged == Merge(messages, {m})
    <3>1. Grown(merged) /\ pending' = Unseen(pending, messages') /\ overflow' = overflow
      BY <1>4, <2>1 DEF Ingest
    <3>2. merged \in SUBSET Versions /\ IsFiniteSet(merged) /\ IdsIn(merged) = IdsIn(messages) \cup {m.id}
      <4>1. /\ merged \subseteq messages \cup {m}
            /\ IdsIn(merged) = IdsIn(messages) \cup IdsIn({m})
            /\ IsFiniteSet(messages) /\ IsFiniteSet({m}) => IsFiniteSet(merged)
        BY MergedAny
      <4> HIDE DEF merged
      <4> QED  BY <1>1, <1>5, <4>1
    <3> HIDE DEF merged
    <3>3. /\ pending' \subseteq pending /\ IsFiniteSet(pending')
          /\ IdsIn(messages' \cup pending') = IdsIn(pending) \cup IdsIn(messages')
      <4>1. /\ Unseen(pending, messages') \subseteq pending
            /\ IdsIn(messages' \cup Unseen(pending, messages')) = IdsIn(pending) \cup IdsIn(messages')
            /\ IsFiniteSet(pending) => IsFiniteSet(Unseen(pending, messages'))
        BY Merged
      <4> QED  BY <1>1, <3>1, <4>1
    <3>4. messages' \subseteq merged
      BY <3>1, Divided DEF Grown
    <3>5. ASSUME NEW r \in rows, Shown(r) \/ Coming(r)
          PROVE  r.id \in IdsIn(merged \cup pending') \/ Coming(r)'
      <4>1. IdsIn(messages') \subseteq IdsIn(merged)
        BY <3>4 DEF IdsIn
      <4>2. IdsIn(pending) \subseteq IdsIn(merged) \cup IdsIn(pending')
        BY <1>7, <3>3, <4>1
      <4>3. Shown(r) => r.id \in IdsIn(messages) \cup IdsIn(pending)
        BY <1>7 DEF Shown
      <4> QED  BY <1>6, <1>7, <3>2, <3>5, <4>2, <4>3
    <3>6. /\ Versions \in SUBSET Message /\ UNCHANGED rows /\ UNCHANGED older
          /\ latest' \subseteq latest \cup {Asked(None)}
      BY <1>1, <1>2
    <3>7. /\ WholeOK' /\ SoundOK' /\ OlderOK'
          /\ messages' \subseteq Versions /\ IsFiniteSet(messages')
          /\ {hasMore', whole', sound'} \subseteq BOOLEAN /\ cursor' \in Nat \cup {None}
          /\ (whole' => whole) /\ (sound' => sound)
          /\ cursor' # None => cursor' < clock
          /\ whole' /\ hasMore' => cursor' # None
      BY <1>1, <1>3, <3>1, <3>2, <3>5, <3>6, GrownKeeps
    <3>8. pending' \subseteq Versions /\ overflow' \in BOOLEAN
      BY <1>1, <3>1, <3>3 DEF TypeOK
    <3> QED  BY <3>3, <3>7, <3>8
  <2>2. CASE ~(atBottom \/ ~m.user)
    <3> DEFINE w == Waiting({m})
               dropped == Dropped(w, PendingSize, "append")
    <3>1. /\ pending' = w \ dropped /\ overflow' = (overflow \/ dropped # {})
          /\ whole' = (whole /\ ~(dropped # {})) /\ sound' = (sound /\ ~(dropped # {}))
          /\ UNCHANGED <<messages, hasMore, cursor>>
      BY <1>4, <2>2 DEF Ingest, IntoPending, Overflows, Kept
    <3>2. w \subseteq Versions /\ IsFiniteSet(w)
          /\ IdsIn(messages \cup w) = IdsIn(messages) \cup IdsIn(pending) \cup {m.id}
      <4>1. {m} \in SUBSET Versions
        BY <1>5
      <4> QED  BY <1>5, <4>1, WaitingVersions
    <3> HIDE DEF w, dropped
    <3>3. pending' \subseteq w /\ IsFiniteSet(pending')
      <4>1. pending' \subseteq w
        BY <3>1
      <4> QED  BY <3>2, <4>1, FS_Subset
    <3>4. (whole' => whole /\ pending' = w) /\ (sound' => sound /\ pending' = w)
      BY <3>1
    <3>5. pending' = w => \A r \in rows : Shown(r) \/ Coming(r) => Shown(r)' \/ Coming(r)'
      <4>1. \A r : Shown(r) => r.id \in IdsIn(messages) \cup IdsIn(pending)
        BY <1>7 DEF Shown
      <4>2. \A r : pending' = w => (Shown(r)' <=> r.id \in IdsIn(messages \cup w))
        BY <3>1 DEF Shown
      <4> QED  BY <1>6, <3>2, <4>1, <4>2
    <3>6. WholeOK'
      BY <1>1, <1>2, <1>3, <3>1, <3>4, <3>5 DEF WholeOK, Covered, Reachable
    <3>7. SoundOK'
      BY <1>1, <1>2, <1>3, <3>4, <3>5 DEF SoundOK, Paged
    <3>8. OlderOK'
      BY <1>1, <1>2, <1>3, <3>4 DEF OlderOK, Paged
    <3>9. {hasMore', whole', sound', overflow'} \subseteq BOOLEAN
      BY <1>1, <3>1 DEF TypeOK
    <3>10. /\ cursor' \in Nat \cup {None}
           /\ cursor' # None => cursor' < clock
           /\ whole' /\ hasMore' => cursor' # None
      BY <1>1, <3>1, <3>4 DEF TypeOK, CallsOK
    <3>11. messages' \subseteq Versions /\ IsFiniteSet(messages') /\ pending' \subseteq Versions
      BY <1>1, <3>1, <3>2, <3>3
    <3> QED  BY <3>3, <3>4, <3>6, <3>7, <3>8, <3>9, <3>10, <3>11
  <2> QED  BY <2>1, <2>2
<1>9. Versions' \subseteq Versions
  <2>1. Sent' \subseteq Versions
    BY <1>3 DEF Versions
  <2> QED  BY <1>2, <1>8, <2>1 DEF Versions
<1>10. TypeOK'
  BY <1>1, <1>2, <1>3, <1>8 DEF TypeOK
<1>11. Finite' /\ CallsOK'
  BY <1>1, <1>2, <1>3, <1>8 DEF Finite, CallsOK
<1>12. UNCHANGED hubVars
  BY <1>2 DEF hubVars
<1> QED  BY <1>1, <1>3, <1>8, <1>9, <1>10, <1>11, <1>12, Keeps

LEMMA AckedInv ==
    ASSUME Inv, Delivering("messages-consumed"), Acked(Head(channel).lid, Head(channel).at), UNCHANGED callVars
    PROVE  Inv'
<1> DEFINE lid == Head(channel).lid
           at == Head(channel).at
           unstamped == {v \in Versions : v.lid = lid /\ v.invoked = None}
           stamped == {[v EXCEPT !.invoked = at] : v \in unstamped}
           all == Versions \cup stamped
           Ack(ms) == {IF m.lid = lid /\ m.invoked = None THEN [m EXCEPT !.invoked = at] ELSE m : m \in ms}
           moved == {m \in Ack(pending) : m.lid = lid /\ m.invoked = at}
           merged == Merge(Ack(messages), moved)
<1>1. /\ TypeOK /\ Finite /\ VersionsOK /\ CallsOK /\ WholeOK /\ SoundOK /\ OlderOK
      /\ Versions \subseteq Message /\ Fits(Versions) /\ rows \subseteq Versions
      /\ messages \subseteq Versions /\ pending \subseteq Versions
      /\ IsFiniteSet(messages) /\ IsFiniteSet(pending)
  BY Known DEF Inv
<1>2. UNCHANGED <<rows, clock, connected, latest, older, isLoading, isLoadingMore>>
  BY Arriving DEF callVars
<1>3. /\ Sent' = Sent /\ (Rebuilding' <=> Rebuilding) /\ channel' \in Seq(Event) /\ connected'
      /\ \A i \in DOMAIN channel' : \E j \in DOMAIN channel : channel'[i] = channel[j]
  <2>1. Head(channel).type = "messages-consumed"
    BY DEF Delivering
  <2>2. Received1(Head(channel)) = {}
    BY <2>1 DEF Received1
  <2>3. Sent = Sent' \cup Received1(Head(channel)) /\ (Rebuilding' <=> Rebuilding)
    BY Arriving
  <2>4. Sent' = Sent
    BY <2>2, <2>3
  <2> QED  BY <2>3, <2>4, Arriving
<1>4. /\ lid \in LocalIds /\ at \in Nat /\ at > 0 /\ \A v \in Versions : v.id # at
      /\ \E r \in rows : r.lid = lid /\ r.invoked = at
  <2>1. Head(channel).type = "messages-consumed"
    BY DEF Delivering
  <2> QED  BY <2>1, Arriving, Kinds DEF EventOK, Tells
<1>5. /\ \/ UNCHANGED <<messages, hasMore, cursor, whole, sound, pending, overflow, atBottom>>
         \/ Grown(merged) /\ pending' = Ack(pending) \ moved /\ UNCHANGED <<overflow, atBottom>>
  BY DEF Acked, viewVars, waitVars
<1> HIDE DEF lid, at
<1>6. stamped \subseteq Message /\ Fits(all)
  <2>1. PICK r \in rows : r.lid = lid /\ r.invoked = at
    BY <1>4
  <2> QED  BY <1>1, <1>4, <2>1, AckedFits
<1>7. \A v \in unstamped : [v EXCEPT !.invoked = at].id = v.id
  BY <1>1 DEF Message
<1> HIDE DEF stamped
<1>8. ASSUME NEW ms \in SUBSET Versions
      PROVE  /\ Ack(ms) \subseteq all /\ IdsIn(Ack(ms)) = IdsIn(ms)
             /\ IsFiniteSet(ms) => IsFiniteSet(Ack(ms))
  <2> DEFINE f(m) == IF m.lid = lid /\ m.invoked = None THEN [m EXCEPT !.invoked = at] ELSE m
  <2>1. \A m \in ms : f(m) \in all /\ f(m).id = m.id
    BY <1>7 DEF stamped
  <2>2. Ack(ms) = {f(m) : m \in ms}
    OBVIOUS
  <2> HIDE DEF f
  <2>3. ASSUME IsFiniteSet(ms) PROVE IsFiniteSet({f(m) : m \in ms})
    <3> DEFINE g == [m \in ms |-> f(m)]
    <3>1. g \in Surjection(ms, {f(m) : m \in ms})
      BY DEF Surjection
    <3> HIDE DEF g
    <3> QED  BY <2>3, <3>1, FS_Surjection
  <2> HIDE DEF Ack
  <2>4. IdsIn(Ack(ms)) = IdsIn(ms)
    BY <2>1, <2>2 DEF IdsIn
  <2> QED  BY <2>1, <2>2, <2>3, <2>4
<1>9. IdsIn(all) \subseteq IdsIn(Versions)
  BY <1>7 DEF stamped, IdsIn
<1>10. /\ Ack(messages) \subseteq all /\ IdsIn(Ack(messages)) = IdsIn(messages) /\ IsFiniteSet(Ack(messages))
       /\ Ack(pending) \subseteq all /\ IdsIn(Ack(pending)) = IdsIn(pending) /\ IsFiniteSet(Ack(pending))
  BY <1>1, <1>8
<1>11. moved \subseteq Ack(pending) /\ IsFiniteSet(moved)
  <2>1. moved \subseteq Ack(pending)
    OBVIOUS
  <2> HIDE DEF Ack, moved
  <2> QED  BY <1>10, <2>1, FS_Subset
<1> HIDE DEF Ack, moved
<1>12. merged \subseteq all /\ IsFiniteSet(merged) /\ IdsIn(merged) = IdsIn(messages) \cup IdsIn(moved)
  <2>1. /\ merged \subseteq Ack(messages) \cup moved
        /\ IdsIn(merged) = IdsIn(Ack(messages)) \cup IdsIn(moved)
        /\ IsFiniteSet(Ack(messages)) /\ IsFiniteSet(moved) => IsFiniteSet(merged)
    BY MergedAny
  <2> HIDE DEF merged, all
  <2> QED  BY <1>10, <1>11, <2>1
<1> HIDE DEF merged
<1>13. \A a, b : IdsIn(a \cup b) = IdsIn(a) \cup IdsIn(b)
  BY Merged, Zenon
<1>14. all \in SUBSET Message
  BY <1>1, <1>6
<1> HIDE DEF all, unstamped
<1>15. /\ WholeOK' /\ SoundOK' /\ OlderOK'
       /\ messages' \subseteq all /\ IsFiniteSet(messages')
       /\ pending' \subseteq all /\ IsFiniteSet(pending')
       /\ {hasMore', whole', sound', overflow', atBottom'} \subseteq BOOLEAN /\ cursor' \in Nat \cup {None}
       /\ (whole' => whole) /\ (sound' => sound)
       /\ cursor' # None => cursor' < clock
       /\ whole' /\ hasMore' => cursor' # None
  <2>1. CASE UNCHANGED <<messages, hasMore, cursor, whole, sound, pending, overflow, atBottom>>
    <3>1. WholeOK' /\ SoundOK' /\ OlderOK'
      BY <1>1, <1>2, <1>3, <2>1 DEF WholeOK, SoundOK, OlderOK, Covered, Shown, Coming, Reachable, Paged
    <3>2. messages' \subseteq all /\ pending' \subseteq all
      BY <1>1, <2>1 DEF all
    <3>3. /\ IsFiniteSet(messages') /\ IsFiniteSet(pending')
          /\ (whole' => whole) /\ (sound' => sound)
      BY <1>1, <2>1
    <3>4. /\ {hasMore', whole', sound', overflow', atBottom'} \subseteq BOOLEAN /\ cursor' \in Nat \cup {None}
          /\ cursor' # None => cursor' < clock
          /\ whole' /\ hasMore' => cursor' # None
      BY <1>1, <2>1 DEF TypeOK, CallsOK
    <3> QED  BY <3>1, <3>2, <3>3, <3>4
  <2>2. CASE Grown(merged) /\ pending' = Ack(pending) \ moved /\ UNCHANGED <<overflow, atBottom>>
    <3>1. pending' \subseteq all /\ IsFiniteSet(pending') /\ Ack(pending) = pending' \cup moved
      <4>1. pending' \subseteq Ack(pending) /\ Ack(pending) = pending' \cup moved
        BY <1>11, <2>2
      <4> QED  BY <1>10, <4>1, FS_Subset
    <3>2. ASSUME NEW r \in rows, Shown(r) \/ Coming(r)
          PROVE  r.id \in IdsIn(merged \cup pending') \/ Coming(r)'
      <4>1. Coming(r) => Coming(r)'
        BY <1>3 DEF Coming
      <4>2. Shown(r) => r.id \in IdsIn(messages) \cup IdsIn(pending)
        BY <1>13 DEF Shown
      <4>3. IdsIn(pending) = IdsIn(pending') \cup IdsIn(moved)
        BY <1>10, <1>13, <3>1
      <4>4. IdsIn(merged \cup pending') = IdsIn(merged) \cup IdsIn(pending')
        BY <1>13
      <4> QED  BY <1>12, <3>2, <4>1, <4>2, <4>3, <4>4
    <3>3. UNCHANGED rows /\ UNCHANGED older /\ latest' \subseteq latest \cup {Asked(None)} /\ merged \in SUBSET all
      BY <1>2, <1>12
    <3>4. /\ WholeOK' /\ SoundOK' /\ OlderOK'
          /\ messages' \subseteq all /\ IsFiniteSet(messages')
          /\ {hasMore', whole', sound'} \subseteq BOOLEAN /\ cursor' \in Nat \cup {None}
          /\ (whole' => whole) /\ (sound' => sound)
          /\ cursor' # None => cursor' < clock
          /\ whole' /\ hasMore' => cursor' # None
      BY <1>3, <1>6, <1>12, <1>14, <2>2, <3>2, <3>3, GrownKeeps
    <3>5. overflow' \in BOOLEAN /\ atBottom' \in BOOLEAN
      BY <1>1, <2>2 DEF TypeOK
    <3> QED  BY <3>1, <3>4, <3>5
  <2> QED  BY <1>5, <2>1, <2>2
<1>16. Versions' \subseteq all
  <2>1. Versions \subseteq all
    BY DEF all
  <2> QED  BY <1>2, <1>3, <1>15, <2>1 DEF Versions
<1>17. TypeOK'
  BY <1>1, <1>2, <1>3, <1>14, <1>15 DEF TypeOK
<1>18. Finite' /\ CallsOK'
  BY <1>1, <1>2, <1>3, <1>15 DEF Finite, CallsOK
<1>19. UNCHANGED hubVars
  BY <1>2 DEF hubVars
<1> QED  BY <1>3, <1>6, <1>9, <1>15, <1>16, <1>17, <1>18, <1>19, Keeps

-----------------------------------------------------------------------------
(* The invariant. *)

LEMMA Started ==
    ASSUME Init
    PROVE  Inv
<1>1. Asked(None) \in Call /\ Asked(None).rows = {} /\ Asked(None).oldest = None /\ ~Asked(None).answered
  BY DEF Asked, Call
<1>2. DOMAIN channel = {} /\ channel \in Seq(Event)
  BY DEF Init
<1>3. Versions = {}
  <2>1. Sent = {}
    BY <1>2 DEF Sent
  <2> QED  BY <1>1, <2>1 DEF Init, Versions
<1>4. TypeOK
  BY <1>1, <1>2 DEF Init, TypeOK
<1>5. Finite
  BY <1>1, FS_EmptySet DEF Init, Finite
<1>6. VersionsOK /\ EventsOK
  BY <1>2, <1>3 DEF Init, VersionsOK, RowsOK, Fits, EventsOK
<1>7. CallsOK
  BY <1>1 DEF Init, CallsOK
<1>8. WholeOK /\ SoundOK /\ OlderOK
  BY DEF Init, WholeOK, SoundOK, OlderOK
<1> QED  BY <1>4, <1>5, <1>6, <1>7, <1>8 DEF Inv

\* The kinds of events that Deliver tells apart.
LEMMA Delivered ==
    ASSUME Deliver
    PROVE  \/ /\ Delivering("open") /\ AskLatest /\ sound' = ~isLoading
              /\ UNCHANGED <<older, isLoadingMore, messages, hasMore, cursor, whole, waitVars, atBottom>>
           \/ Delivering("message-received") /\ Ingest(Head(channel).row) /\ UNCHANGED callVars
           \/ Delivering("messages-consumed") /\ Acked(Head(channel).lid, Head(channel).at) /\ UNCHANGED callVars
           \/ Delivering("message-cancelled") /\ Remove(Head(channel).id) /\ UNCHANGED callVars
           \/ Delivering("messages-invalidated") /\ Clear
<1>1. channel # <<>> /\ channel' = Tail(channel) /\ UNCHANGED hubVars /\ UNCHANGED connected
  BY DEF Deliver
<1>2. \A type : Head(channel).type = type => Delivering(type)
  BY <1>1 DEF Delivering
<1> QED  BY <1>2, Zenon DEF Deliver

LEMMA DeliverInv ==
    ASSUME Inv, Deliver
    PROVE  Inv'
BY Delivered, OpenedInv, IngestInv, AckedInv, RemovedInv, ClearedInv, Zenon

LEMMA Stutters ==
    ASSUME Inv, UNCHANGED vars
    PROVE  Inv'
<1>1. UNCHANGED <<rows, clock, channel, connected, latest, older, isLoading, isLoadingMore, messages, hasMore, cursor,
                  whole, sound, pending, overflow, atBottom>>
  BY DEF vars, hubVars, wireVars, callVars, viewVars, waitVars
<1>2. Sent' = Sent /\ (Rebuilding' <=> Rebuilding)
  BY <1>1, Emptied
<1>3. Versions' \subseteq Versions
  BY <1>1, <1>2 DEF Versions
<1>4. TypeOK' /\ Finite' /\ CallsOK' /\ Fits(Versions)
  BY <1>1, Known DEF TypeOK, Finite, CallsOK
<1>5. WholeOK' /\ SoundOK' /\ OlderOK'
  <2>1. WholeOK /\ SoundOK /\ OlderOK
    BY DEF Inv
  <2> QED  BY <1>1, <1>2, <2>1 DEF WholeOK, SoundOK, OlderOK, Covered, Shown, Coming, Reachable, Paged
<1>6. UNCHANGED hubVars
  BY <1>1 DEF hubVars
<1> QED  BY <1>1, <1>3, <1>4, <1>5, <1>6, Keeps

LEMMA WritesInv ==
    ASSUME Inv
    PROVE  /\ \A user \in BOOLEAN : CliWrites(user) => Inv'
           /\ \A lid \in LocalIds : SendMessage(lid) => Inv'
<1>1. ASSUME NEW user \in BOOLEAN, CliWrites(user) PROVE Inv'
  <2>1. /\ rows' = rows \cup {NewRow(None, user)} /\ clock' = clock + 1 /\ Emit(Received(NewRow(None, user)))
        /\ UNCHANGED <<callVars, viewVars, waitVars, atBottom>>
    BY <1>1 DEF CliWrites
  <2> QED  BY <2>1, MakesInv
<1>2. ASSUME NEW lid \in LocalIds, SendMessage(lid) PROVE Inv'
  <2>1. /\ \A r \in rows : r.lid # lid
        /\ rows' = rows \cup {NewRow(lid, TRUE)} /\ clock' = clock + 1 /\ Emit(Received(NewRow(lid, TRUE)))
        /\ UNCHANGED <<callVars, viewVars, waitVars, atBottom>>
    BY <1>2 DEF SendMessage
  <2> QED  BY <2>1, MakesInv
<1> QED  BY <1>1, <1>2

(* Every event, page, trim and scroll keeps what the window accounts for. *)
THEOREM Invariant == Spec => []Inv
<1>1. Init => Inv
  BY Started
<1>2. Inv /\ [Next]_vars => Inv'
  <2> SUFFICES ASSUME Inv, [Next]_vars
               PROVE  Inv'
    OBVIOUS
  <2>1. CASE \E user \in BOOLEAN : CliWrites(user)
    BY <2>1, WritesInv
  <2>2. CASE \E lid \in LocalIds : SendMessage(lid)
    BY <2>2, WritesInv
  <2>3. ASSUME NEW row \in rows, Resend(row) \/ Consume(row) \/ CancelQueued(row)
        PROVE  Inv'
    BY <2>3, ResendInv, ConsumeInv, CancelInv
  <2>4. CASE Join
    BY <2>4, JoinInv
  <2>5. ASSUME NEW c \in latest, AnswerLatest(c) \/ LatestArrives(c) \/ LatestFails(c)
        PROVE  Inv'
    BY <2>5, AnswerLatestInv, LatestArrivesInv, LatestFailsInv
  <2>6. CASE LoadOlder
    BY <2>6, LoadOlderInv
  <2>7. ASSUME NEW c \in older, AnswerOlder(c) \/ OlderArrives(c) \/ OlderFails(c)
        PROVE  Inv'
    BY <2>7, AnswerOlderInv, OlderArrivesInv, OlderFailsInv
  <2>8. CASE Open \/ Break \/ Deliver
    BY <2>8, OpenInv, BreakInv, DeliverInv
  <2>9. CASE ScrollUp \/ ScrollDown
    BY <2>9, ScrollUpInv, ScrollDownInv
  <2>10. CASE UNCHANGED vars
    BY <2>10, Stutters
  <2> QED  BY <2>1, <2>2, <2>3, <2>4, <2>5, <2>6, <2>7, <2>8, <2>9, <2>10 DEF Next
<1> QED  BY <1>1, <1>2, PTL DEF Spec

(* The fields of state and wire are what the code takes them for. *)
THEOREM TypeCorrect == Spec => []TypeOK
<1>1. Inv => TypeOK
  BY DEF Inv
<1> QED  BY <1>1, Invariant, PTL

(* Once a page has come that was asked for on the present connection, a browser shows or
   can page back to every message of the hub, unless a gap that is known was made. *)
THEOREM AlwaysComplete == Spec => []Complete
<1>1. Inv => Complete
  <2> SUFFICES ASSUME Inv, whole, channel = <<>>, NEW r \in rows
               PROVE  Shown(r) \/ Reachable(r)
    BY DEF Complete
  <2>1. DOMAIN channel = {}
    OBVIOUS
  <2>2. ~Rebuilding /\ Sent = {}
    BY <2>1 DEF Rebuilding, Sent
  <2>3. Covered(r)
    BY <2>2 DEF Inv, WholeOK
  <2> QED  BY <2>2, <2>3 DEF Covered, Coming, IdsIn
<1> QED  BY <1>1, Invariant, PTL

-----------------------------------------------------------------------------
(* Queued messages. *)

\* What QueuedStays says of one message.
InQueue(r) == r \in messages \cup pending /\ InBar(r) /\ r.id \in IdsIn(rows) /\ ~Told(r)
Stays(r) == r.id \in IdsIn(messages' \cup pending') \/ messages' \cup pending' = {}

LEMMA StaysSomewhere ==
    ASSUME NEW r
    PROVE  /\ r.id \in IdsIn(messages') => Stays(r)
           /\ r.id \in IdsIn(pending') => Stays(r)
BY DEF Stays, IdsIn

\* No version that the browser has is acknowledged, and none that it gets.
LEMMA Untold ==
    ASSUME Inv, NEW r, InQueue(r)
    PROVE  /\ r.id \in IdsIn(messages) \/ r.id \in IdsIn(pending)
           /\ \A v \in messages \cup pending : v.id = r.id => v.invoked = None
           /\ \A page \in latest \ latest' : \A v \in page.rows : v.id = r.id => v.invoked = None
           /\ Delivering("message-received") /\ Head(channel).row.id = r.id => Head(channel).row.invoked = None
           /\ Delivering("messages-consumed") => Head(channel).lid # r.lid
<1>1. ASSUME NEW type, Delivering(type) PROVE HeardNow = {type}
  BY <1>1 DEF Delivering, HeardNow
<1>2. Delivering("message-received") => Head(channel).row \in Given
  <2>1. Delivering("message-received") => "message-received" \in HeardNow
    BY <1>1
  <2> QED  BY <2>1 DEF Given
<1>3. Delivering("messages-consumed") => Head(channel).lid # r.lid
  BY <1>1 DEF InQueue, Told
<1>4. \A v \in Given : v.id = r.id => v.invoked = None
  BY DEF InQueue, Told
<1>5. messages \cup pending \subseteq Given /\ \A page \in latest \ latest' : page.rows \subseteq Given
  BY DEF Given
<1>6. r.id \in IdsIn(messages) \/ r.id \in IdsIn(pending)
  BY DEF InQueue, IdsIn
<1> QED  BY <1>2, <1>3, <1>4, <1>5, <1>6

\* A merge into the window keeps what is queued, whichever version the window had.
LEMMA QueuedGrown ==
    ASSUME Inv, NEW merged \in SUBSET Versions, Grown(merged), NEW r,
           r.id \in IdsIn(merged), \A v \in merged : v.id = r.id => v.invoked = None
    PROVE  r.id \in IdsIn(messages')
<1>1. messages' = Kept(merged, Visible, "append")
  BY DEF Grown
<1> QED  BY <1>1, Known, QueuedKept

LEMMA QueuedIngested ==
    ASSUME Inv, Delivering("message-received"), Ingest(Head(channel).row),
           NEW r, InQueue(r)
    PROVE  Stays(r)
<1> DEFINE m == Head(channel).row
<1>1. /\ messages \subseteq Versions /\ pending \subseteq Versions /\ Fits(Versions)
      /\ IsFiniteSet(messages) /\ IsFiniteSet(pending)
  BY Known
<1>2. m \in Versions
  <2>1. Head(channel).type = "message-received"
    BY DEF Delivering
  <2>2. m \in Sent
    BY <2>1, Arriving DEF Received1
  <2> QED  BY <2>2 DEF Versions
<1>3. Ingest(m) /\ (m.id = r.id => m.invoked = None)
  BY Untold
<1> HIDE DEF m
<1>4. /\ r.id \in IdsIn(messages) \/ r.id \in IdsIn(pending)
      /\ \A v \in messages \cup pending \cup {m} : v.id = r.id => v.invoked = None
  BY <1>3, Untold
<1>5. CASE atBottom \/ ~m.user
  <2> DEFINE merged == Merge(messages, {m})
  <2>1. Grown(merged) /\ pending' = Unseen(pending, messages')
    BY <1>3, <1>5 DEF Ingest
  <2>2. merged \subseteq messages \cup {m} /\ IdsIn(merged) = IdsIn(messages) \cup IdsIn({m})
    BY MergedAny
  <2> HIDE DEF merged
  <2>3. merged \in SUBSET Versions
    BY <1>1, <1>2, <2>2
  <2>4. r.id \in IdsIn(messages) => r.id \in IdsIn(messages')
    BY <1>4, <2>1, <2>2, <2>3, QueuedGrown
  <2>5. IdsIn(messages' \cup Unseen(pending, messages')) = IdsIn(pending) \cup IdsIn(messages')
    BY Merged
  <2>6. r.id \in IdsIn(messages' \cup pending')
    BY <1>4, <2>1, <2>4, <2>5
  <2> QED  BY <2>6 DEF Stays
<1>6. CASE ~(atBottom \/ ~m.user)
  <2>1. messages' = messages /\ pending' = Kept(Waiting({m}), PendingSize, "append")
    BY <1>3, <1>6 DEF Ingest, IntoPending
  <2>2. {m} \in SUBSET Versions /\ IsFiniteSet({m})
    BY <1>2, FS_Singleton
  <2>3. /\ Waiting({m}) \in SUBSET Versions /\ Waiting({m}) \subseteq pending \cup {m}
        /\ IdsIn(messages \cup Waiting({m})) = IdsIn(messages) \cup IdsIn(pending) \cup IdsIn({m})
    BY <2>2, WaitingVersions DEF Waiting, Merge, Unseen
  <2>4. r.id \in IdsIn(messages) \/ r.id \in IdsIn(Waiting({m}))
    <3>1. r.id \in IdsIn(messages \cup Waiting({m}))
      BY <1>4, <2>3
    <3> QED  BY <3>1 DEF IdsIn
  <2>5. r.id \in IdsIn(Waiting({m})) => r.id \in IdsIn(pending')
    BY <1>1, <1>4, <2>1, <2>3, QueuedKept
  <2> QED  BY <2>1, <2>4, <2>5, StaysSomewhere
<1> QED  BY <1>5, <1>6

\* Only the acknowledgement of the message itself would have told the browser.
LEMMA QueuedUnacked ==
    ASSUME Inv, Delivering("messages-consumed"), Acked(Head(channel).lid, Head(channel).at),
           NEW r, InQueue(r)
    PROVE  Stays(r)
<1> DEFINE lid == Head(channel).lid
           at == Head(channel).at
           Ack(ms) == {IF m.lid = lid /\ m.invoked = None THEN [m EXCEPT !.invoked = at] ELSE m : m \in ms}
           moved == {m \in Ack(pending) : m.lid = lid /\ m.invoked = at}
           merged == Merge(Ack(messages), moved)
<1>1. pending \subseteq Versions /\ Fits(Versions) /\ Versions \subseteq Message /\ VersionsOK
  BY Known DEF Inv
<1>2. r \in messages \cup pending /\ InBar(r) /\ \E s \in rows : s.id = r.id
  BY DEF InQueue, IdsIn
<1>3. \/ UNCHANGED <<messages, pending>>
      \/ messages' = Kept(merged, Visible, "append") /\ pending' = Ack(pending) \ moved
  BY DEF Acked, Grown, viewVars, waitVars
<1>4. r.lid # lid
  BY Untold
<1> HIDE DEF lid, at
<1>5. CASE UNCHANGED <<messages, pending>>
  BY <1>2, <1>5 DEF Stays, IdsIn
<1>6. CASE messages' = Kept(merged, Visible, "append") /\ pending' = Ack(pending) \ moved
  <2>1. CASE r \in pending
    <3>1. r \in Ack(pending) /\ r \notin moved
      BY <1>4, <2>1
    <3>2. r \in pending'
      BY <1>6, <3>1
    <3> QED  BY <3>2 DEF Stays, IdsIn
  <2>2. CASE r \in messages
    <3>1. r \in Ack(messages)
      BY <1>4, <2>2
    <3>2. \A n \in moved : \E v \in pending : v.id = n.id /\ v.lid = lid
      <4> SUFFICES ASSUME NEW n \in moved
                   PROVE  \E v \in pending : v.id = n.id /\ v.lid = lid
        OBVIOUS
      <4>1. PICK v \in pending : n = IF v.lid = lid /\ v.invoked = None THEN [v EXCEPT !.invoked = at] ELSE v
        OBVIOUS
      <4>2. n.lid = lid /\ v \in Message
        BY <1>1
      <4>3. [v EXCEPT !.invoked = at].id = v.id
        BY <4>2 DEF Message
      <4> QED  BY <4>1, <4>2, <4>3
    <3>3. \A v \in pending : v.id = r.id => v.lid = r.lid
      <4>1. messages \subseteq Versions
        BY Known
      <4> QED  BY <1>1, <1>2, <2>2, <4>1 DEF Fits, VersionOK
    <3> HIDE DEF Ack, moved
    <3>4. r \in merged
      BY <1>4, <3>1, <3>2, <3>3 DEF Merge, Unseen, IdsIn
    <3> HIDE DEF merged
    <3>5. r \in messages'
      BY <1>2, <1>6, <3>4, Divided
    <3> QED  BY <3>5 DEF Stays, IdsIn
  <2> QED  BY <1>2, <2>1, <2>2
<1> QED  BY <1>3, <1>5, <1>6

LEMMA QueuedDelivered ==
    ASSUME Inv, Deliver, NEW r, InQueue(r)
    PROVE  Stays(r)
<1>1. CASE UNCHANGED <<messages, pending>>
  BY <1>1 DEF InQueue, Stays, IdsIn
<1>2. CASE Delivering("message-received") /\ Ingest(Head(channel).row)
  BY <1>2, QueuedIngested
<1>3. CASE Delivering("messages-consumed") /\ Acked(Head(channel).lid, Head(channel).at)
  BY <1>3, QueuedUnacked
<1>4. CASE Delivering("message-cancelled") /\ Remove(Head(channel).id)
  <2>1. Head(channel).type = "message-cancelled"
    BY <1>4 DEF Delivering
  <2>2. r.id # Head(channel).id
    BY <1>4, <2>1, Arriving DEF EventOK, Tells, InQueue
  <2>3. r \in messages' \cup pending'
    BY <1>4, <2>2 DEF InQueue, Remove
  <2> QED  BY <2>3 DEF Stays, IdsIn
<1>5. CASE Clear
  BY <1>5 DEF Clear, Stays
<1> QED  BY <1>1, <1>2, <1>3, <1>4, <1>5, Delivered DEF waitVars

LEMMA QueuedArrived ==
    ASSUME Inv, NEW page \in latest, LatestArrives(page), NEW r, InQueue(r)
    PROVE  Stays(r)
<1>1. /\ r.id \in IdsIn(messages) \/ r.id \in IdsIn(pending)
      /\ \A v \in messages \cup pending \cup page.rows : v.id = r.id => v.invoked = None
  <2>1. page \notin latest'
    BY DEF LatestArrives
  <2> QED  BY <2>1, Untold
<1>2. Fits(Versions) /\ page.rows \in SUBSET Versions /\ IsFiniteSet(page.rows)
  BY Known DEF Finite
<1>3. CASE atBottom
  <2>1. messages' = Kept(Arrived(page), Visible, "append")
    BY <1>3 DEF LatestArrives
  <2>2. Arrived(page) \in SUBSET Versions /\ r.id \in IdsIn(Arrived(page))
    BY <1>1, ArrivedVersions
  <2>4. Arrived(page) \subseteq messages \cup pending \cup page.rows
    BY DEF Arrived, Merge, Unseen
  <2>3. r.id \in IdsIn(messages')
    BY <1>1, <1>2, <2>4, <2>1, <2>2, QueuedKept
  <2> QED  BY <2>3, StaysSomewhere
<1>4. CASE ~atBottom
  <2>1. messages' = messages /\ pending' = Kept(Waiting(page.rows), PendingSize, "append")
    BY <1>4 DEF LatestArrives, IntoPending
  <2>2. /\ Waiting(page.rows) \in SUBSET Versions /\ Waiting(page.rows) \subseteq pending \cup page.rows
        /\ IdsIn(messages \cup Waiting(page.rows)) = IdsIn(messages) \cup IdsIn(pending) \cup IdsIn(page.rows)
    BY <1>2, WaitingVersions DEF Waiting, Merge, Unseen
  <2>3. r.id \in IdsIn(messages) \/ r.id \in IdsIn(Waiting(page.rows))
    BY <1>1, <2>2 DEF IdsIn
  <2>4. r.id \in IdsIn(Waiting(page.rows)) => r.id \in IdsIn(pending')
    BY <1>1, <1>2, <2>1, <2>2, QueuedKept
  <2> QED  BY <2>1, <2>3, <2>4, StaysSomewhere
<1> QED  BY <1>3, <1>4

LEMMA QueuedStep ==
    ASSUME Inv, Next, NEW r, InQueue(r)
    PROVE  Stays(r)
<1>1. CASE UNCHANGED <<messages, pending>>
  BY <1>1 DEF InQueue, Stays, IdsIn
<1>2. ASSUME NEW c \in latest, LatestArrives(c) PROVE Stays(r)
  BY <1>2, QueuedArrived
<1>3. ASSUME NEW page \in older, OlderArrives(page) PROVE Stays(r)
  <2> DEFINE merged == Merge(page.rows, messages)
  <2>1. messages' = Kept(merged, Visible, "prepend") /\ pending' = pending
    BY <1>3 DEF OlderArrives, waitVars
  <2>2. r \in messages => r \in messages'
    <3>1. messages \subseteq merged
      BY DEF Merge
    <3> HIDE DEF merged
    <3>2. InBar(r)
      BY DEF InQueue
    <3> QED  BY <2>1, <3>1, <3>2, Divided
  <2>3. r \in messages' \cup pending'
    BY <2>1, <2>2 DEF InQueue
  <2> QED  BY <2>3 DEF Stays, IdsIn
<1>4. CASE ScrollDown
  <2>1. CASE pending = {} /\ ~overflow
    BY <1>1, <1>4, <2>1 DEF ScrollDown, viewVars
  <2>2. CASE ~(pending = {} /\ ~overflow)
    <3> DEFINE merged == Merge(messages, pending)
    <3>1. Grown(merged)
      BY <1>4, <2>2 DEF ScrollDown
    <3>2. merged \subseteq messages \cup pending /\ IdsIn(merged) = IdsIn(messages) \cup IdsIn(pending)
      BY MergedAny
    <3> HIDE DEF merged
    <3>3. merged \in SUBSET Versions
      BY <3>2, Known
    <3>4. r.id \in IdsIn(merged) /\ \A v \in merged : v.id = r.id => v.invoked = None
      BY <3>2, Untold
    <3> QED  BY <3>1, <3>3, <3>4, QueuedGrown, StaysSomewhere
  <2> QED  BY <2>1, <2>2
<1>5. CASE Deliver
  BY <1>5, QueuedDelivered
<1>6. \/ UNCHANGED <<messages, pending>>
      \/ \E c \in latest : LatestArrives(c)
      \/ \E c \in older : OlderArrives(c)
      \/ Deliver \/ ScrollDown
  BY DEF Next, CliWrites, SendMessage, Resend, Consume, CancelQueued, Join, AnswerLatest, LatestFails, LoadOlder, AnswerOlder,
         OlderFails, Open, Break, ScrollUp, viewVars, waitVars
<1> QED  BY <1>1, <1>2, <1>3, <1>4, <1>5, <1>6

(* A queued message, also one whose acknowledgement is under way or was lost, stays in the
   window until the browser is told of its acknowledgement or cancellation, or is cleared. *)
THEOREM QueuedStay == Spec => QueuedStays
<1>1. Inv /\ [Next]_vars =>
        [\A m \in messages \cup pending :
            InBar(m) /\ m.id \in IdsIn(rows) /\ ~Told(m) =>
                m.id \in IdsIn(messages' \cup pending') \/ messages' \cup pending' = {}]_vars
  <2> SUFFICES ASSUME Inv, Next, NEW m \in messages \cup pending, InBar(m), m.id \in IdsIn(rows), ~Told(m)
               PROVE  Stays(m)
    BY DEF Stays, Told, Given, HeardNow, vars, hubVars, wireVars, callVars, viewVars, waitVars
  <2> QED  BY QueuedStep DEF InQueue
<1> QED  BY <1>1, Invariant, PTL DEF Spec, QueuedStays
=============================================================================
