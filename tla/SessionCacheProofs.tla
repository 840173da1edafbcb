------------------------- MODULE SessionCacheProofs -------------------------
(***************************************************************************)
(* For any threads, messages, sessions and resumers: the sessions are well *)
(* formed, their histories implement Conversations, only sessions that may *)
(* go do, and duplicates stay only where DuplicatesAreLive lets them.      *)
(***************************************************************************)
EXTENDS SessionCache, TLAPS

USE NoThreadAssumption, MaxMessagesAssumption, NoSessionAssumption, MaxTimeAssumption

Typed(ss) == DOMAIN ss \subseteq Ids /\ ss \in [DOMAIN ss -> Sessions]

\* `into` tells which sessions some of `ss` are absorbed by, none of which goes.
Merging(ss, into) ==
    /\ DOMAIN into \subseteq DOMAIN ss
    /\ into \in [DOMAIN into -> DOMAIN ss \ DOMAIN into]
    /\ Absorb(ss, into)

\* What a deduplication merges: sessions on mergeable threads, each into one
\* that sorts first, and of such a thread it leaves one.
Settles(ss, triggers, into) ==
    /\ \A o \in DOMAIN into :
          /\ Mergeable(ss, o)
          /\ ss[into[o]].thread = ss[o].thread
          /\ \E s \in triggers : into[o] \in Canonical(ss, s) /\ ss[s].thread = ss[o].thread
    /\ \A s \in triggers : Mergeable(ss, s) =>
          \A a, b \in OnThreadOf(ss, s) \ DOMAIN into : a = b

-----------------------------------------------------------------------------
(* Merging. *)

LEMMA CanonicalOnThread ==
    ASSUME NEW ss, NEW s \in DOMAIN ss, NEW k \in Canonical(ss, s)
    PROVE  k \in DOMAIN ss /\ ss[k].thread = ss[s].thread
BY DEF Canonical, OnThreadOf

\* Whether a session may be merged depends on its thread alone.
LEMMA MergeableThread ==
    ASSUME NEW ss, NEW s \in DOMAIN ss, NEW o \in DOMAIN ss,
           ss[o].thread = ss[s].thread, Mergeable(ss, s)
    PROVE  Mergeable(ss, o)
<1>1. OnThreadOf(ss, o) = OnThreadOf(ss, s)
  BY DEF OnThreadOf
<1>2. PICK x \in OnThreadOf(ss, s) : x # s
  BY DEF Mergeable, OnThreadOf
<1>3. s \in OnThreadOf(ss, s)
  BY DEF OnThreadOf
<1>4. OnThreadOf(ss, s) # {o}
  BY <1>2, <1>3
<1> QED  BY <1>1, <1>4 DEF Mergeable

LEMMA DeduplicateMerges ==
    ASSUME NEW ss, NEW triggers \in SUBSET DOMAIN ss, Deduplicate(ss, triggers)
    PROVE  \E into : Merging(ss, into) /\ Settles(ss, triggers, into)
<1> DEFINE asked == {s \in triggers : Mergeable(ss, s)}
<1>1. PICK keep \in SUBSET UNION {Canonical(ss, s) : s \in asked} :
         /\ \A s \in asked : \E k \in keep : ss[k].thread = ss[s].thread
         /\ \A k, l \in keep : ss[k].thread = ss[l].thread => k = l
         /\ Absorb(ss, [o \in UNION {OnThreadOf(ss, k) \ {k} : k \in keep} |->
                           CHOOSE k \in keep : ss[k].thread = ss[o].thread])
  BY DEF Deduplicate
<1> DEFINE gone == UNION {OnThreadOf(ss, k) \ {k} : k \in keep}
           into == [o \in gone |-> CHOOSE k \in keep : ss[k].thread = ss[o].thread]
<1>2. \A k \in keep : \E s \in asked : k \in Canonical(ss, s) /\ k \in DOMAIN ss
                                       /\ ss[k].thread = ss[s].thread
  BY CanonicalOnThread
<1>3. \A o \in gone : o \in DOMAIN ss /\ \E k \in keep : ss[k].thread = ss[o].thread /\ o # k
  BY DEF OnThreadOf
<1>4. \A o \in gone : into[o] \in keep /\ ss[into[o]].thread = ss[o].thread
  BY <1>3
<1>5. \A k \in keep : k \notin gone
  BY <1>1, <1>3
<1>6. Merging(ss, into)
  <2>1. DOMAIN into = gone /\ gone \subseteq DOMAIN ss
    BY <1>3
  <2>2. into \in [gone -> DOMAIN ss \ gone]
    BY <1>2, <1>4, <1>5
  <2> QED  BY <1>1, <2>1, <2>2 DEF Merging
<1>7. ASSUME NEW o \in gone
      PROVE  /\ Mergeable(ss, o)
             /\ ss[into[o]].thread = ss[o].thread
             /\ \E s \in triggers : into[o] \in Canonical(ss, s) /\ ss[s].thread = ss[o].thread
  <2> DEFINE k == into[o]
  <2>0. k \in keep /\ ss[k].thread = ss[o].thread
    BY <1>4
  <2> HIDE DEF k
  <2>1. PICK s \in asked : k \in Canonical(ss, s) /\ ss[k].thread = ss[s].thread
    BY <1>2, <2>0
  <2>2. ss[s].thread = ss[o].thread /\ o \in DOMAIN ss /\ s \in DOMAIN ss
    BY <1>3, <2>0, <2>1
  <2>3. Mergeable(ss, o)
    BY <2>2, MergeableThread
  <2> QED  BY <2>0, <2>1, <2>2, <2>3 DEF k
<1>8. ASSUME NEW s \in triggers, Mergeable(ss, s),
             NEW a \in OnThreadOf(ss, s) \ gone, NEW b \in OnThreadOf(ss, s) \ gone
      PROVE  a = b
  <2>1. PICK k \in keep : ss[k].thread = ss[s].thread
    BY <1>1, <1>8
  <2>2. OnThreadOf(ss, s) = OnThreadOf(ss, k)
    BY <2>1 DEF OnThreadOf
  <2>3. a = k /\ b = k
    BY <2>2
  <2> QED  BY <2>3
<1>9. DOMAIN into = gone
  OBVIOUS
<1> HIDE DEF into, gone
<1>10. Settles(ss, triggers, into)
  BY <1>7, <1>8, <1>9 DEF Settles
<1> QED  BY <1>6, <1>10

\* The sessions and messages after a merge.
LEMMA MergingTyped ==
    ASSUME NEW ss, Typed(ss), home \in [Messages -> DOMAIN ss \cup {NoSession}], now \in 0 .. MaxTime,
           NEW into, Merging(ss, into)
    PROVE  /\ DOMAIN session' = DOMAIN ss \ DOMAIN into
           /\ \A s \in DOMAIN session' : session'[s].thread = ss[s].thread
                                         /\ session'[s].active = ss[s].active
           /\ Typed(session)'
           /\ home' \in [Messages -> DOMAIN session' \cup {NoSession}]
<1>1. DOMAIN session' = DOMAIN ss \ DOMAIN into
  BY DEF Merging, Absorb
<1>2. ASSUME NEW s \in DOMAIN session'
      PROVE  /\ session'[s].thread = ss[s].thread /\ session'[s].active = ss[s].active
             /\ session'[s] \in Sessions
  <2>1. ss[s] \in Sessions
    BY <1>1 DEF Typed
  <2>2. session'[s] = ss[s] \/ session'[s] = [ss[s] EXCEPT !.updated = now]
    BY <1>1 DEF Merging, Absorb
  <2> QED  BY <2>1, <2>2 DEF Sessions
<1>3. session' \in [DOMAIN session' -> Sessions]
  <2>1. session' = [s \in DOMAIN session' |-> session'[s]]
    BY <1>1 DEF Merging, Absorb
  <2> QED  BY <1>2, <2>1
<1>4. home' \in [Messages -> DOMAIN session' \cup {NoSession}]
  <2>1. ASSUME NEW m \in Messages
        PROVE  (IF home[m] \in DOMAIN into THEN into[home[m]] ELSE home[m]) \in DOMAIN session' \cup {NoSession}
    BY <1>1 DEF Merging
  <2> QED  BY <2>1 DEF Merging, Absorb
<1> QED  BY <1>1, <1>2, <1>3, <1>4 DEF Typed

-----------------------------------------------------------------------------
(* The type invariant. *)

\* A deduplication keeps the types, for any sessions it starts from.
LEMMA DeduplicateTyped ==
    ASSUME TypeOK, NEW ss, Typed(ss), DOMAIN ss = DOMAIN session,
           NEW triggers \in SUBSET DOMAIN ss, Deduplicate(ss, triggers)
    PROVE  /\ Typed(session)' /\ DOMAIN session' \subseteq DOMAIN session
           /\ home' \in [Messages -> DOMAIN session' \cup {NoSession}]
<1>1. PICK into : Merging(ss, into)
  BY DeduplicateMerges
<1>2. home \in [Messages -> DOMAIN ss \cup {NoSession}] /\ now \in 0 .. MaxTime
  BY DEF TypeOK
<1>3. /\ DOMAIN session' = DOMAIN ss \ DOMAIN into
      /\ Typed(session)'
      /\ home' \in [Messages -> DOMAIN session' \cup {NoSession}]
  BY <1>1, <1>2, MergingTyped
<1> QED  BY <1>3

\* The sessions after one of them changed.
LEMMA ChangedTyped ==
    ASSUME TypeOK, NEW s \in DOMAIN session
    PROVE  /\ Typed([session EXCEPT ![s].active = TRUE])
           /\ Typed([session EXCEPT ![s].active = FALSE])
           /\ Typed([session EXCEPT ![s].updated = now])
           /\ \A t \in Threads : /\ Typed([session EXCEPT ![s].thread = t, ![s].updated = now])
                               /\ Typed([session EXCEPT ![s].thread = t])
<1>1. session \in [DOMAIN session -> Sessions] /\ session[s] \in Sessions
      /\ now \in 0 .. MaxTime /\ DOMAIN session \subseteq Ids
  BY DEF TypeOK
<1>2. /\ [session EXCEPT ![s].active = TRUE] \in [DOMAIN session -> Sessions]
      /\ [session EXCEPT ![s].active = FALSE] \in [DOMAIN session -> Sessions]
      /\ [session EXCEPT ![s].updated = now] \in [DOMAIN session -> Sessions]
  BY <1>1 DEF Sessions
<1>3. ASSUME NEW t \in Threads
      PROVE  /\ [session EXCEPT ![s].thread = t, ![s].updated = now] \in [DOMAIN session -> Sessions]
             /\ [session EXCEPT ![s].thread = t] \in [DOMAIN session -> Sessions]
  BY <1>1 DEF Sessions
<1> QED  BY <1>1, <1>2, <1>3 DEF Typed

\* What the type invariant says of the other variables.
OthersTyped ==
    /\ cli \in [Ids -> {"none", "up", "gone"}]
    /\ resume \in [Resumers -> Resumes]
    /\ now \in 0 .. MaxTime
    /\ deleted \subseteq Messages
    /\ missed \subseteq Threads

LEMMA TypeParts ==
    TypeOK <=> /\ Typed(session) /\ home \in [Messages -> DOMAIN session \cup {NoSession}]
               /\ \A s \in DOMAIN session : cli[s] # "none"
               /\ OthersTyped
BY DEF TypeOK, Typed, OthersTyped

\* A deduplication after which the other variables are well typed.
LEMMA DeduplicateKeepsTypes ==
    ASSUME TypeOK, NEW ss, Typed(ss), DOMAIN ss = DOMAIN session,
           NEW triggers \in SUBSET DOMAIN ss, Deduplicate(ss, triggers),
           OthersTyped', \A s \in DOMAIN session : cli'[s] # "none"
    PROVE  TypeOK'
<1>1. /\ Typed(session)' /\ DOMAIN session' \subseteq DOMAIN session
      /\ home' \in [Messages -> DOMAIN session' \cup {NoSession}]
  BY DeduplicateTyped
<1>2. \A s \in DOMAIN session' : cli'[s] # "none"
  BY <1>1
<1> QED  BY <1>1, <1>2 DEF TypeOK, Typed, OthersTyped

LEMMA CreateTyped ==
    ASSUME TypeOK, NEW s \in Ids, Create(s)
    PROVE  /\ s \notin DOMAIN session
           /\ Typed(session)' /\ DOMAIN session' = DOMAIN session \cup {s}
           /\ home' \in [Messages -> DOMAIN session' \cup {NoSession}]
           /\ cli' \in [Ids -> {"none", "up", "gone"}]
           /\ \A o \in DOMAIN session' : cli'[o] # "none"
<1>1. s \notin DOMAIN session /\ home' = home /\ cli' = [cli EXCEPT ![s] = "up"]
      /\ DOMAIN session' = DOMAIN session \cup {s} /\ session' = [o \in DOMAIN session' |-> session'[o]]
  BY DEF TypeOK, Create
<1>2. ASSUME NEW o \in DOMAIN session'
      PROVE  session'[o] \in Sessions
  BY DEF TypeOK, Create, Sessions
<1>3. session' \in [DOMAIN session' -> Sessions]
  BY <1>1, <1>2
<1> QED  BY <1>1, <1>3 DEF TypeOK, Typed

\* Each step of a CLI keeps the types.
LEMMA CliTyped == TypeOK /\ CliNext => TypeOK'
<1> SUFFICES ASSUME TypeOK, CliNext  PROVE TypeOK'
  OBVIOUS
<1>a. Typed(session) /\ OthersTyped /\ \A o \in DOMAIN session : o \in Ids /\ cli[o] # "none"
  BY TypeParts DEF Typed
<1>1. CASE \E s \in Ids : Start(s)
  <2>1. PICK s \in Ids : Create(s) /\ UNCHANGED <<resume, now, deleted, missed>>
    BY <1>1 DEF Start
  <2>2. OthersTyped'
    <3>1. cli' \in [Ids -> {"none", "up", "gone"}]
      BY <2>1, CreateTyped
    <3> QED  BY <1>a, <2>1, <3>1 DEF OthersTyped
  <2> QED  BY <2>1, <2>2, CreateTyped DEF TypeOK, Typed, OthersTyped
<1>2. CASE \E s \in Ids : Alive(s)
  <2>1. PICK s \in DOMAIN session : Alive(s)
    BY <1>2 DEF Alive
  <2>2. OthersTyped' /\ cli' = cli
    BY <1>a, <2>1 DEF Alive, OthersTyped
  <2> QED  BY <1>a, <2>1, <2>2, ChangedTyped, DeduplicateKeepsTypes DEF Alive
<1>3. CASE \E s \in Ids, t \in Threads : ReportThread(s, t)
  <2>1. PICK s \in DOMAIN session, t \in Threads : ReportThread(s, t)
    BY <1>3 DEF ReportThread
  <2>2. OthersTyped' /\ cli' = cli
    <3>1. session[s].thread \in Threads \cup {NoThread}
      BY DEF TypeOK, Sessions
    <3> QED  BY <1>a, <2>1, <3>1 DEF ReportThread, OthersTyped
  <2> QED  BY <1>a, <2>1, <2>2, ChangedTyped, DeduplicateKeepsTypes DEF ReportThread
<1>4. CASE \E s \in Ids, m \in Messages : Write(s, m)
  <2>1. PICK s \in DOMAIN session, m \in Messages : Write(s, m)
    BY <1>4 DEF Write
  <2>2. OthersTyped' /\ cli' = cli /\ DOMAIN session' = DOMAIN session
    BY <1>a, <2>1 DEF Write, OthersTyped
  <2>3. Typed(session)'
    <3>1. PICK at \in {session[s].updated, now} : session' = [session EXCEPT ![s].updated = at]
      BY <2>1 DEF Write
    <3>2. at \in 0 .. MaxTime
      BY <1>a DEF TypeOK, Sessions
    <3> QED  BY <3>1, <3>2 DEF TypeOK, Typed, Sessions
  <2>4. home' \in [Messages -> DOMAIN session' \cup {NoSession}]
    BY <2>1, <2>2 DEF Write, TypeOK
  <2> QED  BY <1>a, <2>2, <2>3, <2>4 DEF TypeOK, Typed, OthersTyped
<1>5. CASE \E s \in Ids : End(s)
  <2>1. PICK s \in Ids : End(s)
    BY <1>5
  <2>2. cli' = [cli EXCEPT ![s] = "gone"] /\ cli' \in [Ids -> {"none", "up", "gone"}]
    BY <1>a, <2>1 DEF End, OthersTyped
  <2>3. OthersTyped' /\ \A o \in DOMAIN session : cli'[o] # "none"
    BY <1>a, <2>1, <2>2 DEF End, Ended, OthersTyped
  <2>4. CASE s \in DOMAIN session
    BY <2>1, <2>3, <2>4, ChangedTyped, DeduplicateKeepsTypes DEF End, Ended
  <2>5. CASE s \notin DOMAIN session
    BY <2>1, <2>3, <2>5 DEF End, Ended, TypeOK, OthersTyped
  <2> QED  BY <2>4, <2>5
<1>6. CASE \E s \in Ids : Die(s)
  BY <1>6 DEF TypeOK, Die
<1> QED  BY <1>1, <1>2, <1>3, <1>4, <1>5, <1>6 DEF CliNext

\* A resume that ends keeps its types.
LEMMA OverTyped ==
    ASSUME TypeOK, NEW r \in Resumers
    PROVE  [resume EXCEPT ![r] = Over] \in [Resumers -> Resumes]
<1>1. Over \in Resumes
  BY DEF Over, Resumes, Stages
<1> QED  BY <1>1 DEF TypeOK

\* Each step of the hub and of the users keeps the types.
LEMMA HubTyped == TypeOK /\ HubNext => TypeOK'
<1> SUFFICES ASSUME TypeOK, HubNext  PROVE TypeOK'
  OBVIOUS
<1>a. Typed(session) /\ OthersTyped /\ \A o \in DOMAIN session : o \in Ids /\ cli[o] # "none"
  BY TypeParts DEF Typed
<1>1. CASE \E s \in Ids, m \in Messages : Post(s, m)
  <2>1. PICK s \in DOMAIN session, m \in Messages : Post(s, m)
    BY <1>1 DEF Post
  <2>2. OthersTyped' /\ cli' = cli /\ DOMAIN session' = DOMAIN session
    BY <1>a, <2>1 DEF Post, OthersTyped
  <2>3. Typed(session)'
    <3>1. PICK at \in {session[s].updated, now} : session' = [session EXCEPT ![s].updated = at]
      BY <2>1 DEF Post
    <3>2. at \in 0 .. MaxTime
      BY <1>a DEF TypeOK, Sessions
    <3> QED  BY <3>1, <3>2 DEF TypeOK, Typed, Sessions
  <2>4. home' \in [Messages -> DOMAIN session' \cup {NoSession}]
    BY <2>1, <2>2 DEF Post, TypeOK
  <2> QED  BY <1>a, <2>2, <2>3, <2>4 DEF TypeOK, Typed, OthersTyped
<1>2. CASE \E s \in Ids : Archive(s)
  <2>1. PICK s \in DOMAIN session : Archive(s)
    BY <1>2 DEF Archive
  <2>2. OthersTyped' /\ cli' = cli
    BY <1>a, <2>1 DEF Archive, Ended, OthersTyped
  <2> QED  BY <1>a, <2>1, <2>2, ChangedTyped, DeduplicateKeepsTypes DEF Archive, Ended
<1>3. CASE \E s \in Ids : Delete(s)
  <2>1. PICK s \in Ids : Delete(s)
    BY <1>3
  <2>2. OthersTyped' /\ cli' = cli /\ DOMAIN session' \subseteq DOMAIN session
    BY <1>a, <2>1 DEF Delete, OthersTyped, MessagesOf
  <2>3. Typed(session)' /\ home' \in [Messages -> DOMAIN session' \cup {NoSession}]
    BY <2>1 DEF Delete, TypeOK, Typed
  <2> QED  BY <1>a, <2>2, <2>3 DEF TypeOK, Typed, OthersTyped
<1>4. CASE \E silent \in SUBSET DOMAIN session : Expire(silent)
  <2>1. PICK silent \in SUBSET DOMAIN session : Expire(silent)
    BY <1>4
  <2> DEFINE ss == [s \in DOMAIN session |->
                      IF s \in silent THEN [session[s] EXCEPT !.active = FALSE] ELSE session[s]]
  <2>2. Typed(ss) /\ DOMAIN ss = DOMAIN session
    BY DEF TypeOK, Typed, Sessions
  <2>3. OthersTyped' /\ cli' = cli
    BY <1>a, <2>1 DEF Expire, OthersTyped
  <2>4. Deduplicate(ss, silent)
    BY <2>1 DEF Expire
  <2> HIDE DEF ss
  <2> QED  BY <1>a, <2>2, <2>3, <2>4, DeduplicateKeepsTypes
<1>5. CASE Restart
  <2>1. Typed(session)' /\ DOMAIN session' = DOMAIN session
    <3>1. session' = [s \in DOMAIN session |-> [session[s] EXCEPT !.active = FALSE]]
          /\ DOMAIN session' = DOMAIN session
      BY <1>5 DEF Restart
    <3>2. \A s \in DOMAIN session : [session[s] EXCEPT !.active = FALSE] \in Sessions
      BY <1>a DEF Typed, Sessions
    <3> QED  BY <1>a, <3>1, <3>2 DEF Typed
  <2>2. OthersTyped' /\ cli' = cli /\ home' = home
    <3>1. resume' \in [Resumers -> Resumes]
      <4>1. Over \in Resumes
        BY DEF Over, Resumes, Stages
      <4> QED  BY <1>5, <4>1 DEF Restart, TypeOK
    <3> QED  BY <1>a, <1>5, <3>1 DEF Restart, OthersTyped
  <2> QED  BY <2>1, <2>2 DEF TypeOK, Typed, OthersTyped
<1>6. CASE Tick
  BY <1>6 DEF TypeOK, Tick
<1>7. CASE \E s \in Ids : Touch(s)
  <2>1. PICK s \in DOMAIN session : session' = [session EXCEPT ![s].updated = now]
    BY <1>7 DEF Touch
  <2>2. Typed(session)' /\ DOMAIN session' = DOMAIN session
    BY <2>1, ChangedTyped DEF Typed
  <2>3. UNCHANGED <<home, cli, resume, now, deleted, missed>>
    BY <1>7 DEF Touch
  <2> QED  BY <2>2, <2>3 DEF TypeOK, Typed
<1> QED  BY <1>1, <1>2, <1>3, <1>4, <1>5, <1>6, <1>7 DEF HubNext

\* The session spawned for a resume is not the one that is resumed.
NewIsNew == \A r \in Resumers : resume[r].old # NoSession =>
    resume[r].old \in Ids /\ cli[resume[r].old] # "none" /\ resume[r].new # resume[r].old

\* A merge for a resume, seen as Merging.
LEMMA ResumeMerges ==
    ASSUME TypeOK, NewIsNew, NEW r \in Resumers, ResumeDone(r)
    PROVE  Merging(session, [o \in {resume[r].old} \cap DOMAIN session |-> resume[r].new])
<1>1. /\ resume[r].new \in DOMAIN session
      /\ Absorb(session, [o \in {resume[r].old} \cap DOMAIN session |-> resume[r].new])
  BY DEF ResumeDone
<1>2. NoSession \notin DOMAIN session
  BY DEF TypeOK, Ids
<1>3. resume[r].old \in DOMAIN session => resume[r].new # resume[r].old
  BY <1>2 DEF NewIsNew
<1> QED  BY <1>1, <1>3 DEF Merging

\* Each step of a resume keeps the types.
LEMMA ResumeTyped == TypeOK /\ NewIsNew /\ ResumeNext => TypeOK'
<1> SUFFICES ASSUME TypeOK, NewIsNew, ResumeNext  PROVE TypeOK'
  OBVIOUS
<1>a. Typed(session) /\ OthersTyped /\ \A o \in DOMAIN session : o \in Ids /\ cli[o] # "none"
  BY TypeParts DEF Typed
<1> PICK r \in Resumers :
       \/ \E s \in Ids : ResumeActive(r, s) \/ ResumeSpawn(r, s)
       \/ \E s \in Ids, t \in Threads : ResumeAsk(r, s, t)
       \/ ResumeFail(r)
       \/ ResumeDone(r)
  BY DEF ResumeNext
<1>1. CASE \E s \in Ids : ResumeActive(r, s)
  BY <1>1 DEF ResumeActive, TypeOK, Resumes, Stages, Over
<1>2. CASE \E s \in Ids : ResumeSpawn(r, s)
  <2>1. PICK s \in Ids : ResumeSpawn(r, s)
    BY <1>2
  <2>2. Create(s) /\ resume' = [resume EXCEPT ![r].new = s]
        /\ UNCHANGED <<now, deleted, missed>>
    BY <2>1 DEF ResumeSpawn
  <2>3. resume' \in [Resumers -> Resumes]
    BY <1>a, <2>2 DEF OthersTyped, Resumes
  <2> QED  BY <2>2, <2>3, CreateTyped DEF TypeOK, Typed
<1>3. CASE \E s \in Ids, t \in Threads : ResumeAsk(r, s, t)
  <2>1. PICK s \in DOMAIN session, t \in Threads : ResumeAsk(r, s, t)
    BY <1>3 DEF ResumeAsk
  <2>2. session' = [session EXCEPT ![s].thread = t] /\ UNCHANGED <<home, cli, now, deleted>>
    BY <2>1 DEF ResumeAsk
  <2>3. Typed(session)' /\ DOMAIN session' = DOMAIN session
    BY <2>2, ChangedTyped DEF Typed
  <2>4. resume' \in [Resumers -> Resumes]
    BY <1>a, <2>1 DEF ResumeAsk, OthersTyped, Resumes, Stages
  <2>5. missed' \subseteq Threads
    BY <2>1 DEF ResumeAsk, TypeOK
  <2> QED  BY <2>2, <2>3, <2>4, <2>5 DEF TypeOK, Typed
<1>4. CASE ResumeFail(r)
  <2>1. resume' \in [Resumers -> Resumes]
    BY <1>4, OverTyped DEF ResumeFail
  <2>2. UNCHANGED <<session, home, cli, now, deleted, missed>>
    BY <1>4 DEF ResumeFail
  <2> QED  BY <2>1, <2>2 DEF TypeOK
<1>5. CASE ResumeDone(r)
  <2>1. PICK into : Merging(session, into)
    BY <1>5, ResumeMerges
  <2>2. /\ Typed(session)' /\ DOMAIN session' = DOMAIN session \ DOMAIN into
        /\ home' \in [Messages -> DOMAIN session' \cup {NoSession}]
    BY <1>a, <2>1, MergingTyped DEF TypeOK
  <2>3. resume' \in [Resumers -> Resumes]
    BY <1>5, OverTyped DEF ResumeDone
  <2>4. missed' \subseteq Threads
    BY <1>5 DEF ResumeDone, TypeOK, Sessions
  <2>5. UNCHANGED <<cli, now, deleted>>
    BY <1>5 DEF ResumeDone
  <2> QED  BY <1>a, <2>2, <2>3, <2>4, <2>5 DEF TypeOK, Typed
<1> QED  BY <1>1, <1>2, <1>3, <1>4, <1>5

-----------------------------------------------------------------------------
(* The inductive invariant, and the invariants that follow from it.        *)

\* No stamp is in the future.
Stamped == \A s \in DOMAIN session : session[s].updated <= now

IInv == TypeOK /\ NewIsNew /\ Stamped /\ DuplicatesAreLive

LEMMA TypedNext == IInv /\ [Next]_vars => TypeOK'
<1> SUFFICES ASSUME IInv, [Next]_vars  PROVE TypeOK'
  OBVIOUS
<1>1. TypeOK /\ NewIsNew
  BY DEF IInv
<1>2. CASE CliNext
  BY <1>1, <1>2, CliTyped
<1>3. CASE HubNext
  BY <1>1, <1>3, HubTyped
<1>4. CASE ResumeNext
  BY <1>1, <1>4, ResumeTyped
<1>5. CASE UNCHANGED vars
  BY <1>1, <1>5 DEF vars, TypeOK
<1> QED  BY <1>2, <1>3, <1>4, <1>5 DEF Next

\* A session that a deduplication leaves mergeable was so before it, and no
\* trigger is on its thread.
LEMMA DeduplicateSettles ==
    ASSUME TypeOK, NEW ss, Typed(ss), DOMAIN ss = DOMAIN session,
           NEW triggers \in SUBSET DOMAIN ss, Deduplicate(ss, triggers),
           NEW s \in DOMAIN session', Mergeable(session, s)'
    PROVE  /\ s \in DOMAIN ss /\ Mergeable(ss, s) /\ session'[s].thread = ss[s].thread
           /\ \A o \in triggers : ss[o].thread # ss[s].thread
<1>1. PICK into : Merging(ss, into) /\ Settles(ss, triggers, into)
  BY DeduplicateMerges
<1>2. home \in [Messages -> DOMAIN ss \cup {NoSession}] /\ now \in 0 .. MaxTime
  BY DEF TypeOK
<1>3. /\ DOMAIN session' = DOMAIN ss \ DOMAIN into
      /\ \A o \in DOMAIN session' : session'[o].thread = ss[o].thread
                                    /\ session'[o].active = ss[o].active
  BY <1>1, <1>2, MergingTyped
<1>4. PICK x \in DOMAIN session' : x # s /\ session'[x].thread = session'[s].thread
  BY DEF Mergeable, OnThreadOf
<1>5. s \in DOMAIN ss /\ x \in DOMAIN ss /\ ss[x].thread = ss[s].thread /\ ss[s].thread # NoThread
  BY <1>3, <1>4 DEF Mergeable
<1>6. Mergeable(ss, s)
  <2>1. OnThreadOf(ss, s) # {s}
    BY <1>4, <1>5 DEF OnThreadOf
  <2>2. ASSUME NEW a \in OnThreadOf(ss, s), NEW b \in OnThreadOf(ss, s),
               ss[a].active, ss[b].active, a # b
        PROVE  Mergeable(ss, s)
    <3>1. a \in DOMAIN ss /\ b \in DOMAIN ss /\ ss[a].thread = ss[s].thread /\ ss[b].thread = ss[s].thread
      BY DEF OnThreadOf
    <3>2. CASE a \in DOMAIN into
      BY <1>1, <1>5, <3>1, <3>2, MergeableThread DEF Settles
    <3>3. CASE b \in DOMAIN into
      BY <1>1, <1>5, <3>1, <3>3, MergeableThread DEF Settles
    <3>4. CASE a \notin DOMAIN into /\ b \notin DOMAIN into
      <4>1. a \in DOMAIN session' /\ b \in DOMAIN session'
        BY <1>3, <3>1, <3>4
      <4>2. session'[a].active /\ session'[b].active /\ session'[a].thread = session'[s].thread
            /\ session'[b].thread = session'[s].thread
        BY <1>3, <2>2, <3>1, <4>1
      <4> QED  BY <2>2, <4>1, <4>2 DEF Mergeable, OnThreadOf
    <3> QED  BY <3>2, <3>3, <3>4
  <2>3. CASE \A a, b \in OnThreadOf(ss, s) : ss[a].active /\ ss[b].active => a = b
    BY <1>5, <2>1, <2>3 DEF Mergeable
  <2> QED  BY <2>2, <2>3
<1>7. ASSUME NEW o \in triggers, ss[o].thread = ss[s].thread
      PROVE  FALSE
  <2>1. Mergeable(ss, o)
    BY <1>5, <1>6, <1>7, MergeableThread
  <2>2. s \in OnThreadOf(ss, o) \ DOMAIN into /\ x \in OnThreadOf(ss, o) \ DOMAIN into
    BY <1>3, <1>4, <1>5, <1>7 DEF OnThreadOf
  <2> QED  BY <1>1, <1>4, <2>1, <2>2 DEF Settles
<1> QED  BY <1>3, <1>5, <1>6, <1>7

\* After a deduplication, duplicates are where they were and where the
\* triggers came from.
LEMMA DuplicatesAfter ==
    ASSUME TypeOK, DuplicatesAreLive,
           NEW ss, Typed(ss), DOMAIN ss = DOMAIN session,
           NEW triggers \in SUBSET DOMAIN ss, Deduplicate(ss, triggers),
           \A o \in DOMAIN ss \ triggers : ss[o] = session[o],
           \A t \in missed \cup {session[o].thread : o \in triggers} :
               t \in missed' \/ t = NoThread \/ \E o \in triggers : ss[o].thread = t
    PROVE  DuplicatesAreLive'
<1> SUFFICES ASSUME NEW s \in DOMAIN session', Mergeable(session, s)'
             PROVE  session'[s].thread \in missed'
  BY DEF DuplicatesAreLive
<1>1. /\ s \in DOMAIN ss /\ Mergeable(ss, s) /\ session'[s].thread = ss[s].thread
      /\ \A o \in triggers : ss[o].thread # ss[s].thread
  BY DeduplicateSettles
<1>2. ss[s].thread # NoThread /\ s \notin triggers /\ ss[s] = session[s]
  BY <1>1 DEF Mergeable
<1>3. CASE \E o \in triggers : session[o].thread = ss[s].thread
  BY <1>1, <1>2, <1>3
<1>4. CASE \A o \in triggers : session[o].thread # ss[s].thread
  <2>1. OnThreadOf(session, s) = OnThreadOf(ss, s)
    BY <1>1, <1>2, <1>4 DEF OnThreadOf
  <2>2. \A a \in OnThreadOf(ss, s) : a \notin triggers /\ ss[a] = session[a]
    BY <1>1 DEF OnThreadOf
  <2>3. Mergeable(session, s)
    BY <1>1, <1>2, <2>1, <2>2 DEF Mergeable
  <2> QED  BY <1>1, <1>2, <2>3 DEF DuplicatesAreLive
<1> QED  BY <1>3, <1>4

\* The sessions without a deduplication: none is new on a thread, and none but
\* those of threads that are missed goes or stops being live.
LEMMA DuplicatesStay ==
    ASSUME DuplicatesAreLive, missed \subseteq missed',
           \A s \in DOMAIN session' : session'[s].thread \notin missed' \cup {NoThread} =>
               s \in DOMAIN session /\ session'[s].thread = session[s].thread,
           \A s \in DOMAIN session : session[s].thread \notin missed' \cup {NoThread} =>
               /\ s \in DOMAIN session' /\ session'[s].thread = session[s].thread
               /\ session'[s].active = session[s].active
    PROVE  DuplicatesAreLive'
<1> SUFFICES ASSUME NEW s \in DOMAIN session', Mergeable(session, s)',
                    session'[s].thread \notin missed'
             PROVE  FALSE
  BY DEF DuplicatesAreLive
<1>1. session'[s].thread # NoThread /\ s \in DOMAIN session /\ session[s].thread = session'[s].thread
  BY DEF Mergeable
<1>2. OnThreadOf(session, s) = OnThreadOf(session, s)'
  BY <1>1 DEF OnThreadOf
<1>3. \A a \in OnThreadOf(session, s) : session'[a].active = session[a].active
  BY <1>1 DEF OnThreadOf
<1>4. Mergeable(session, s)
  BY <1>1, <1>2, <1>3 DEF Mergeable
<1> QED  BY <1>1, <1>4 DEF DuplicatesAreLive

\* A process that was there stays known.
LEMMA CliStays ==
    ASSUME IInv, [Next]_vars, NEW s \in Ids, cli[s] # "none"
    PROVE  cli'[s] # "none"
<1>1. cli \in [Ids -> {"none", "up", "gone"}]
  BY DEF IInv, TypeOK
<1>2. ASSUME NEW o \in Ids, Create(o)  PROVE cli'[s] # "none"
  BY <1>1, <1>2 DEF Create
<1>3. CASE CliNext
  <2>1. ASSUME NEW o \in Ids, End(o) \/ Die(o)  PROVE cli'[s] # "none"
    BY <1>1, <2>1 DEF End, Die
  <2>2. ASSUME NEW o \in Ids, \/ Alive(o)
                              \/ \E t \in Threads : ReportThread(o, t)
                              \/ \E m \in Messages : Write(o, m)
        PROVE  cli' = cli
    BY <2>2 DEF Alive, ReportThread, Write
  <2> QED  BY <1>2, <1>3, <2>1, <2>2 DEF CliNext, Start
<1>4. CASE HubNext
  BY <1>4 DEF HubNext, Post, Touch, Archive, Delete, Expire, Restart, Tick
<1>5. CASE ResumeNext
  BY <1>2, <1>5 DEF ResumeNext, ResumeActive, ResumeSpawn, ResumeAsk, ResumeFail, ResumeDone
<1> QED  BY <1>3, <1>4, <1>5 DEF Next, vars

LEMMA NewIsNewNext == IInv /\ [Next]_vars => NewIsNew'
<1> SUFFICES ASSUME IInv, [Next]_vars, NEW r \in Resumers, resume'[r].old # NoSession
             PROVE  /\ resume'[r].old \in Ids /\ cli'[resume'[r].old] # "none"
                    /\ resume'[r].new # resume'[r].old
  BY DEF NewIsNew
<1>1. /\ resume \in [Resumers -> Resumes]
      /\ DOMAIN session \subseteq Ids /\ \A s \in DOMAIN session : cli[s] # "none"
      /\ NewIsNew
  BY DEF IInv, TypeOK
<1>2. CASE resume'[r].old = resume[r].old /\ resume'[r].new = resume[r].new
  BY <1>1, <1>2, CliStays DEF NewIsNew
<1>3. CASE \E s \in Ids, t \in Threads : ResumeAsk(r, s, t)
  <2>1. PICK s \in DOMAIN session : resume'[r].old = s /\ resume'[r].new = NoSession
    BY <1>1, <1>3 DEF ResumeAsk
  <2>2. s \in Ids /\ s # NoSession /\ cli'[s] # "none"
    BY <1>1, <2>1, CliStays DEF Ids
  <2> QED  BY <2>1, <2>2
<1>4. CASE \E s \in Ids : ResumeSpawn(r, s)
  <2>1. PICK s \in Ids : resume'[r].old = resume[r].old /\ resume'[r].new = s /\ cli[s] = "none"
    BY <1>1, <1>4 DEF ResumeSpawn, Create
  <2> QED  BY <1>1, <2>1, CliStays DEF NewIsNew
<1>5. CASE Restart
  <2>1. resume' = [o \in Resumers |->
                    IF resume[o].stage = "resuming" THEN Over ELSE resume[o]]
    BY <1>5 DEF Restart
  <2> QED  BY <1>1, <1>2, <2>1 DEF Over
<1>6. CASE ResumeFail(r) \/ ResumeDone(r)
  BY <1>1, <1>6 DEF ResumeFail, ResumeDone, Over
<1>7. CASE \E s \in Ids : ResumeActive(r, s)
  BY <1>1, <1>2, <1>7 DEF ResumeActive, Over
<1>8. ASSUME NEW o \in Resumers, o # r,
             \/ \E s \in Ids : ResumeActive(o, s) \/ ResumeSpawn(o, s)
             \/ \E s \in Ids, t \in Threads : ResumeAsk(o, s, t)
             \/ ResumeFail(o)
             \/ ResumeDone(o)
      PROVE  resume'[r] = resume[r]
  BY <1>1, <1>8 DEF ResumeActive, ResumeSpawn, ResumeAsk, ResumeFail, ResumeDone
<1>9. CASE CliNext
  BY <1>2, <1>9 DEF CliNext, Start, Alive, ReportThread, Write, End, Die
<1>10. CASE HubNext
  BY <1>2, <1>5, <1>10 DEF HubNext, Post, Touch, Archive, Delete, Expire, Tick
<1>11. CASE UNCHANGED vars
  BY <1>2, <1>11 DEF vars
<1> QED  BY <1>2, <1>3, <1>4, <1>6, <1>7, <1>8, <1>9, <1>10, <1>11 DEF Next, ResumeNext

LEMMA MergingStamped ==
    ASSUME NEW ss, NEW into, Merging(ss, into), now \in 0 .. MaxTime, now' = now,
           \A s \in DOMAIN ss : ss[s] \in Sessions /\ ss[s].updated <= now
    PROVE  Stamped'
<1> SUFFICES ASSUME NEW s \in DOMAIN session'  PROVE session'[s].updated <= now
  BY DEF Stamped
<1>1. s \in DOMAIN ss /\ (session'[s] = ss[s] \/ session'[s] = [ss[s] EXCEPT !.updated = now])
  BY DEF Merging, Absorb
<1>2. [ss[s] EXCEPT !.updated = now].updated = now
  BY <1>1 DEF Sessions
<1>3. now <= now /\ ss[s].updated <= now
  BY <1>1
<1>4. session'[s].updated = ss[s].updated \/ session'[s].updated = now
  BY <1>1, <1>2
<1> QED  BY <1>3, <1>4

LEMMA StampedNext == IInv /\ [Next]_vars => Stamped'
<1> SUFFICES ASSUME IInv, [Next]_vars  PROVE Stamped'
  OBVIOUS
<1>a. /\ Typed(session) /\ now \in 0 .. MaxTime /\ TypeOK /\ NewIsNew
      /\ \A s \in DOMAIN session : session[s] \in Sessions /\ session[s].updated <= now
  BY DEF IInv, TypeOK, Typed, Stamped
<1>b. ASSUME NEW ss, NEW triggers \in SUBSET DOMAIN ss, Deduplicate(ss, triggers), now' = now,
             \A s \in DOMAIN ss : ss[s] \in Sessions /\ ss[s].updated <= now
      PROVE  Stamped'
  <2>1. PICK into : Merging(ss, into)
    BY <1>b, DeduplicateMerges
  <2> QED  BY <1>a, <1>b, <2>1, MergingStamped
<1>c. ASSUME NEW s \in DOMAIN session, NEW v \in BOOLEAN,
             Deduplicate([session EXCEPT ![s].active = v], {s}), now' = now
      PROVE  Stamped'
  <2> DEFINE ss == [session EXCEPT ![s].active = v]
  <2>1. \A o \in DOMAIN ss : ss[o] \in Sessions /\ ss[o].updated <= now
    BY <1>a DEF Sessions
  <2>2. {s} \in SUBSET DOMAIN ss /\ Deduplicate(ss, {s})
    BY <1>c
  <2> HIDE DEF ss
  <2> QED  BY <1>b, <1>c, <2>1, <2>2
<1>1. ASSUME NEW s \in Ids, Create(s), now' = now  PROVE Stamped'
  <2>1. ASSUME NEW o \in DOMAIN session'
        PROVE  \/ session'[o].updated = now
               \/ o \in DOMAIN session /\ session'[o] = session[o]
    <3>1. CASE o = s
      <4>1. session'[o] = [thread |-> NoThread, active |-> FALSE, updated |-> now]
        BY <1>1, <3>1 DEF Create
      <4> QED  BY <4>1
    <3>2. CASE o # s
      BY <1>1, <3>2 DEF Create
    <3> QED  BY <3>1, <3>2
  <2>2. now <= now
    BY <1>a
  <2> QED  BY <1>a, <1>1, <2>1, <2>2 DEF Stamped
<1>2. ASSUME NEW s \in Ids, Alive(s)  PROVE Stamped'
  BY <1>2, <1>c DEF Alive
<1>3. ASSUME NEW s \in Ids, NEW t \in Threads, ReportThread(s, t)  PROVE Stamped'
  <2> DEFINE ss == [session EXCEPT ![s].thread = t, ![s].updated = now]
  <2>1. s \in DOMAIN session /\ Deduplicate(ss, {s}) /\ now' = now
    BY <1>3 DEF ReportThread
  <2>2. \A o \in DOMAIN ss : ss[o] \in Sessions /\ ss[o].updated <= now
    BY <1>a, <2>1 DEF Sessions
  <2>3. {s} \in SUBSET DOMAIN ss
    BY <2>1
  <2> HIDE DEF ss
  <2> QED  BY <1>b, <2>1, <2>2, <2>3
<1>4. ASSUME NEW s \in Ids, Touch(s) \/ \E m \in Messages : Write(s, m) \/ Post(s, m)
      PROVE  Stamped'
  <2>1. PICK at \in {session[s].updated, now} :
           s \in DOMAIN session /\ session' = [session EXCEPT ![s].updated = at] /\ now' = now
    BY <1>4 DEF Touch, Write, Post
  <2>2. at <= now
    BY <1>a, <2>1
  <2>3. \A o \in DOMAIN session' : o \in DOMAIN session
                                    /\ (session'[o].updated = at \/ session'[o] = session[o])
    BY <1>a, <2>1 DEF Sessions
  <2> QED  BY <1>a, <2>1, <2>2, <2>3 DEF Stamped
<1>5. ASSUME NEW s \in Ids, End(s) \/ Archive(s)  PROVE Stamped'
  <2>1. Ended(s) /\ now' = now
    BY <1>5 DEF End, Archive
  <2> QED  BY <1>a, <2>1, <1>c DEF Ended, Stamped
<1>6. ASSUME NEW s \in Ids, Die(s) \/ Delete(s)  PROVE Stamped'
  BY <1>a, <1>6 DEF Die, Delete, Stamped
<1>7. ASSUME NEW silent \in SUBSET DOMAIN session, Expire(silent)  PROVE Stamped'
  <2> DEFINE ss == [s \in DOMAIN session |->
                      IF s \in silent THEN [session[s] EXCEPT !.active = FALSE] ELSE session[s]]
  <2>1. Deduplicate(ss, silent) /\ now' = now
    BY <1>7 DEF Expire
  <2>2. \A o \in DOMAIN ss : ss[o] \in Sessions /\ ss[o].updated <= now
    BY <1>a DEF Sessions
  <2>3. silent \in SUBSET DOMAIN ss
    OBVIOUS
  <2> HIDE DEF ss
  <2> QED  BY <1>b, <2>1, <2>2, <2>3
<1>8. CASE Restart
  BY <1>a, <1>8 DEF Restart, Stamped, Sessions
<1>9. CASE Tick
  BY <1>a, <1>9 DEF Tick, Stamped, Sessions
<1>10. ASSUME NEW r \in Resumers, ResumeDone(r)  PROVE Stamped'
  <2>1. PICK into : Merging(session, into)
    BY <1>a, <1>10, ResumeMerges
  <2> QED  BY <1>a, <1>10, <2>1, MergingStamped DEF ResumeDone
<1>11. ASSUME NEW r \in Resumers, NEW s \in Ids, NEW t \in Threads, ResumeAsk(r, s, t)
       PROVE  Stamped'
  BY <1>a, <1>11 DEF ResumeAsk, Stamped, Sessions
<1>12. ASSUME NEW r \in Resumers,
              ResumeFail(r) \/ \E s \in Ids : ResumeActive(r, s)
       PROVE  Stamped'
  BY <1>a, <1>12 DEF ResumeFail, ResumeActive, Stamped
<1>13. CASE UNCHANGED vars
  BY <1>a, <1>13 DEF vars, Stamped
<1>14. CASE CliNext
  BY <1>1, <1>2, <1>3, <1>4, <1>5, <1>6, <1>14 DEF CliNext, Start
<1>15. CASE HubNext
  BY <1>4, <1>5, <1>6, <1>7, <1>8, <1>9, <1>15 DEF HubNext
<1>16. CASE ResumeNext
  BY <1>1, <1>10, <1>11, <1>12, <1>16 DEF ResumeNext, ResumeSpawn
<1> QED  BY <1>13, <1>14, <1>15, <1>16 DEF Next

LEMMA DuplicatesNext == IInv /\ [Next]_vars => DuplicatesAreLive'
<1> SUFFICES ASSUME IInv, [Next]_vars  PROVE DuplicatesAreLive'
  OBVIOUS
<1>a. TypeOK /\ DuplicatesAreLive /\ NewIsNew /\ Typed(session)
  BY DEF IInv, TypeOK, Typed
<1>b. \A s \in DOMAIN session : session[s] \in Sessions
  BY <1>a DEF Typed
<1>c. ASSUME NEW s \in DOMAIN session, NEW v \in BOOLEAN,
             Deduplicate([session EXCEPT ![s].active = v], {s}),
             missed' = missed \ {session[s].thread}
      PROVE  DuplicatesAreLive'
  <2> DEFINE ss == [session EXCEPT ![s].active = v]
  <2>1. Typed(ss) /\ DOMAIN ss = DOMAIN session
    BY <1>a, <1>b DEF Typed, Sessions
  <2>2. \A o \in DOMAIN ss \ {s} : ss[o] = session[o]
    OBVIOUS
  <2>3. ss[s].thread = session[s].thread
    BY <1>b DEF Sessions
  <2>4. Deduplicate(ss, {s}) /\ {s} \in SUBSET DOMAIN ss
    BY <1>c
  <2> HIDE DEF ss
  <2>5. \A t \in missed \cup {session[o].thread : o \in {s}} :
           t \in missed' \/ t = NoThread \/ \E o \in {s} : ss[o].thread = t
    BY <1>c, <2>3
  <2> QED  BY <1>a, <2>1, <2>2, <2>4, <2>5, DuplicatesAfter
<1>1. ASSUME NEW s \in Ids, Create(s), missed' = missed  PROVE DuplicatesAreLive'
  <2>1. /\ \A o \in DOMAIN session' :
              \/ o = s /\ session'[o].thread = NoThread
              \/ o \in DOMAIN session /\ session'[o] = session[o]
        /\ \A o \in DOMAIN session : o \in DOMAIN session' /\ session'[o] = session[o]
    <3>1. s \notin DOMAIN session
      BY <1>a, <1>1 DEF Create, TypeOK
    <3>2. session' = [o \in DOMAIN session \cup {s} |->
                       IF o = s THEN [thread |-> NoThread, active |-> FALSE, updated |-> now]
                       ELSE session[o]]
      BY <1>1 DEF Create
    <3>3. session'[s] = [thread |-> NoThread, active |-> FALSE, updated |-> now]
      BY <3>2
    <3>4. session'[s].thread = NoThread
      BY <3>3
    <3>5. ASSUME NEW o \in DOMAIN session'
          PROVE  \/ o = s /\ session'[o].thread = NoThread
                 \/ o \in DOMAIN session /\ session'[o] = session[o]
      <4>1. CASE o = s
        BY <3>4, <4>1
      <4>2. CASE o # s
        BY <3>2, <4>2
      <4> QED  BY <4>1, <4>2
    <3>6. ASSUME NEW o \in DOMAIN session
          PROVE  o \in DOMAIN session' /\ session'[o] = session[o]
      BY <3>1, <3>2
    <3> QED  BY <3>5, <3>6
  <2> QED  BY <1>a, <1>1, <2>1, DuplicatesStay
<1>2. ASSUME NEW s \in Ids, Alive(s)  PROVE DuplicatesAreLive'
  BY <1>2, <1>c DEF Alive
<1>3. ASSUME NEW s \in Ids, NEW t \in Threads, ReportThread(s, t)  PROVE DuplicatesAreLive'
  <2> DEFINE ss == [session EXCEPT ![s].thread = t, ![s].updated = now]
  <2>1. s \in DOMAIN session /\ Deduplicate(ss, {s}) /\ {s} \in SUBSET DOMAIN ss
        /\ missed' = (missed \cup {session[s].thread}) \ {t, NoThread}
    BY <1>3 DEF ReportThread
  <2>2. Typed(ss) /\ DOMAIN ss = DOMAIN session
    BY <1>a, <2>1, ChangedTyped
  <2>3. /\ \A o \in DOMAIN ss \ {s} : ss[o] = session[o]
        /\ ss[s].thread = t
    BY <1>b, <2>1 DEF Sessions
  <2> HIDE DEF ss
  <2>4. \A u \in missed \cup {session[o].thread : o \in {s}} :
           u \in missed' \/ u = NoThread \/ \E o \in {s} : ss[o].thread = u
    BY <2>1, <2>3
  <2> QED  BY <1>a, <2>1, <2>2, <2>3, <2>4, DuplicatesAfter
<1>4. ASSUME NEW s \in Ids, Touch(s) \/ \E m \in Messages : Write(s, m) \/ Post(s, m)
      PROVE  DuplicatesAreLive'
  <2>1. PICK at : s \in DOMAIN session /\ session' = [session EXCEPT ![s].updated = at]
                  /\ missed' = missed
    BY <1>4 DEF Touch, Write, Post
  <2>2. \A o \in DOMAIN session : session'[o].thread = session[o].thread
                                 /\ session'[o].active = session[o].active
    BY <1>b, <2>1 DEF Sessions
  <2> QED  BY <1>a, <2>1, <2>2, DuplicatesStay
<1>5. ASSUME NEW s \in Ids, Ended(s)  PROVE DuplicatesAreLive'
  <2>1. CASE s \in DOMAIN session
    BY <1>5, <1>c, <2>1 DEF Ended
  <2>2. CASE s \notin DOMAIN session
    BY <1>a, <1>5, <2>2, DuplicatesStay DEF Ended
  <2> QED  BY <2>1, <2>2
<1>6. ASSUME UNCHANGED <<session, missed>>  PROVE DuplicatesAreLive'
  BY <1>a, <1>6, DuplicatesStay
\* A session that is deleted is not live: those that stay are live as before.
<1>7. ASSUME NEW s \in Ids, Delete(s)  PROVE DuplicatesAreLive'
  <2>1. /\ DOMAIN session' = DOMAIN session \ {s} /\ missed' = missed /\ ~session[s].active
        /\ \A o \in DOMAIN session' : session'[o] = session[o]
    BY <1>7 DEF Delete
  <2> SUFFICES ASSUME NEW o \in DOMAIN session', Mergeable(session, o)'
               PROVE  Mergeable(session, o)
    BY <1>a, <2>1 DEF DuplicatesAreLive
  <2>2. o \in DOMAIN session /\ session[o].thread # NoThread
    BY <2>1 DEF Mergeable
  <2>3. OnThreadOf(session, o) # {o}
    BY <2>1 DEF Mergeable, OnThreadOf
  <2>4. ASSUME NEW a \in OnThreadOf(session, o), NEW b \in OnThreadOf(session, o),
               session[a].active, session[b].active
        PROVE  a = b
    BY <2>1, <2>4 DEF Mergeable, OnThreadOf
  <2> QED  BY <2>2, <2>3, <2>4 DEF Mergeable
<1>8. ASSUME NEW silent \in SUBSET DOMAIN session, Expire(silent)  PROVE DuplicatesAreLive'
  <2> DEFINE ss == [s \in DOMAIN session |->
                      IF s \in silent THEN [session[s] EXCEPT !.active = FALSE] ELSE session[s]]
  <2>1. Deduplicate(ss, silent) /\ silent \in SUBSET DOMAIN ss
        /\ missed' = missed \ {session[s].thread : s \in silent}
    BY <1>8 DEF Expire
  <2>2. Typed(ss) /\ DOMAIN ss = DOMAIN session
    BY <1>a DEF Typed, Sessions
  <2>3. /\ \A o \in DOMAIN ss \ silent : ss[o] = session[o]
        /\ \A o \in silent : ss[o].thread = session[o].thread
    BY <1>b DEF Sessions
  <2> HIDE DEF ss
  <2>4. \A t \in missed \cup {session[o].thread : o \in silent} :
           t \in missed' \/ t = NoThread \/ \E o \in silent : ss[o].thread = t
    BY <2>1, <2>3
  <2> QED  BY <1>a, <2>1, <2>2, <2>3, <2>4, DuplicatesAfter
<1>9. CASE Restart
  <2>1. \A s \in DOMAIN session' : session'[s].thread \in Threads \cup {NoThread}
    BY <1>b, <1>9 DEF Restart, Sessions
  <2> QED  BY <1>9, <2>1 DEF Restart, DuplicatesAreLive, Mergeable
<1>10. ASSUME NEW r \in Resumers, NEW s \in Ids, NEW t \in Threads, ResumeAsk(r, s, t)
       PROVE  DuplicatesAreLive'
  <2>1. /\ s \in DOMAIN session /\ session' = [session EXCEPT ![s].thread = t]
        /\ session[s].thread \in {t, NoThread}
        /\ missed' = IF session[s].thread = t THEN missed ELSE missed \cup {t}
    BY <1>10 DEF ResumeAsk
  <2>2. /\ \A o \in DOMAIN session \ {s} : session'[o] = session[o]
        /\ session'[s].thread = t /\ session'[s].active = session[s].active
    BY <1>b, <2>1 DEF Sessions
  <2> QED  BY <1>a, <2>1, <2>2, DuplicatesStay
<1>11. ASSUME NEW r \in Resumers, ResumeDone(r)  PROVE DuplicatesAreLive'
  <2> DEFINE into == [o \in {resume[r].old} \cap DOMAIN session |-> resume[r].new]
  <2>1. Merging(session, into)
    BY <1>a, <1>11, ResumeMerges
  <2>2. missed' = missed \cup ({session[s].thread : s \in DOMAIN into} \ {NoThread})
    BY <1>11 DEF ResumeDone
  <2> HIDE DEF into
  <2>3. /\ DOMAIN session' = DOMAIN session \ DOMAIN into
        /\ \A s \in DOMAIN session' : session'[s].thread = session[s].thread
                                      /\ session'[s].active = session[s].active
    BY <1>a, <2>1, MergingTyped DEF TypeOK
  <2> QED  BY <1>a, <2>2, <2>3, DuplicatesStay
<1>12. CASE CliNext
  BY <1>1, <1>2, <1>3, <1>4, <1>5, <1>6, <1>12 DEF CliNext, Start, End, Die
<1>13. CASE HubNext
  BY <1>4, <1>5, <1>6, <1>7, <1>8, <1>9, <1>13 DEF HubNext, Archive, Tick
<1>14. CASE ResumeNext
  BY <1>1, <1>6, <1>10, <1>11, <1>14
     DEF ResumeNext, ResumeSpawn, ResumeActive, ResumeFail
<1> QED  BY <1>6, <1>12, <1>13, <1>14 DEF Next, vars

LEMMA Initially == Init => IInv
<1> SUFFICES ASSUME Init  PROVE IInv
  OBVIOUS
<1>1. DOMAIN session = {}
  BY DEF Init
<1>2. TypeOK
  <2>1. session \in [DOMAIN session -> Sessions]
    BY <1>1 DEF Init
  <2> QED  BY <1>1, <2>1 DEF Init, TypeOK, Resumes, Idle, Stages
<1>3. NewIsNew /\ Stamped /\ DuplicatesAreLive
  BY <1>1 DEF Init, NewIsNew, Idle, Stamped, DuplicatesAreLive
<1> QED  BY <1>2, <1>3 DEF IInv

\* The inductive invariant holds in every state of the session cache.
THEOREM Invariance == Spec => []IInv
<1>1. IInv /\ [Next]_vars => IInv'
  BY TypedNext, NewIsNewNext, StampedNext, DuplicatesNext DEF IInv
<1> QED  BY Initially, <1>1, PTL DEF Spec

\* Every message is in a session that exists, or was deleted by a user
\* (the merges of sessionCache.ts).
THEOREM TypeCorrect == Spec => []TypeOK
<1>1. IInv => TypeOK
  BY DEF IInv
<1> QED  BY Invariance, <1>1, PTL

\* Several sessions on one agent thread stay only while two of them are live,
\* or after one of the steps that ask for no deduplication (syncEngine.ts).
THEOREM DuplicatesAlwaysLive == Spec => []DuplicatesAreLive
<1>1. IInv => DuplicatesAreLive
  BY DEF IInv
<1> QED  BY Invariance, <1>1, PTL

-----------------------------------------------------------------------------
(* Only the right sessions go. *)

\* A session that a deduplication removes is not live; what it is merged into
\* has its messages, is on its thread, and is live or was touched no earlier.
LEMMA Succession ==
    ASSUME TypeOK, NEW ss, Typed(ss), DOMAIN ss = DOMAIN session,
           NEW triggers \in SUBSET DOMAIN ss, Deduplicate(ss, triggers),
           NEW s \in DOMAIN session \ DOMAIN session'
    PROVE  /\ ~ss[s].active
           /\ \E k \in DOMAIN session' :
                 /\ k \in DOMAIN ss
                 /\ \A m \in MessagesOf(s) : home'[m] = k
                 /\ session'[k].thread # NoThread
                 /\ session'[k].active \/ ss[k].updated >= ss[s].updated
<1>1. PICK into : Merging(ss, into) /\ Settles(ss, triggers, into)
  BY DeduplicateMerges
<1>2. home \in [Messages -> DOMAIN ss \cup {NoSession}] /\ now \in 0 .. MaxTime
  BY DEF TypeOK
<1>3. /\ DOMAIN session' = DOMAIN ss \ DOMAIN into
      /\ \A o \in DOMAIN session' : session'[o].thread = ss[o].thread
                                    /\ session'[o].active = ss[o].active
  BY <1>1, <1>2, MergingTyped
<1>4. s \in DOMAIN into
  BY <1>3
<1> DEFINE k == into[s]
<1>5. k \in DOMAIN session' /\ k \in DOMAIN ss /\ k # s /\ s \in DOMAIN ss
  BY <1>1, <1>3, <1>4 DEF Merging
<1>6. Mergeable(ss, s) /\ ss[k].thread = ss[s].thread
      /\ \E t \in triggers : k \in Canonical(ss, t) /\ ss[t].thread = ss[s].thread
  BY <1>1, <1>4 DEF Settles
<1>7. \A m \in MessagesOf(s) : home'[m] = k
  BY <1>1, <1>4 DEF Merging, Absorb, MessagesOf
<1> HIDE DEF k
<1>8. ~SortsBefore(ss[s], ss[k])
  <2>1. PICK t \in triggers : k \in Canonical(ss, t) /\ ss[t].thread = ss[s].thread
    BY <1>6
  <2>2. s \in OnThreadOf(ss, t)
    BY <1>5, <2>1 DEF OnThreadOf
  <2> QED  BY <2>1, <2>2 DEF Canonical
<1>9. ss[s].active \in BOOLEAN /\ ss[k].active \in BOOLEAN
      /\ ss[s].updated \in Nat /\ ss[k].updated \in Nat
  BY <1>5 DEF Typed, Sessions
<1>10. ~(ss[s].active /\ ss[k].active)
  BY <1>5, <1>6 DEF Mergeable, OnThreadOf
<1>11. ~ss[s].active /\ (ss[k].active \/ ss[k].updated >= ss[s].updated)
  BY <1>8, <1>9, <1>10 DEF SortsBefore
<1>12. session'[k].thread # NoThread /\ session'[k].active = ss[k].active
  BY <1>3, <1>5, <1>6 DEF Mergeable
<1> QED  BY <1>5, <1>7, <1>11, <1>12

LEMMA RightGo == IInv /\ Next => \A s \in DOMAIN session \ DOMAIN session' : GoesRightly(s)
<1> SUFFICES ASSUME IInv, Next, NEW s \in DOMAIN session \ DOMAIN session'
             PROVE  GoesRightly(s)
  OBVIOUS
<1>a. TypeOK /\ NewIsNew /\ Typed(session) /\ s \in Ids
  BY DEF IInv, TypeOK, Typed
<1>b. \A o \in DOMAIN session : session[o] \in Sessions /\ session[o].updated \in Nat
                                /\ session[o].updated <= now
  BY DEF IInv, TypeOK, Stamped, Sessions
\* Deduplications after which only one session has another `active`.
<1>c. ASSUME NEW x \in DOMAIN session, NEW v \in BOOLEAN,
             Deduplicate([session EXCEPT ![x].active = v], {x}),
             x = s /\ ~v => Silenced(s)
      PROVE  GoesRightly(s)
  <2> DEFINE ss == [session EXCEPT ![x].active = v]
  <2>1. Typed(ss) /\ DOMAIN ss = DOMAIN session
    BY <1>a, <1>b DEF Typed, Sessions
  <2>2. \A o \in DOMAIN ss : ss[o].updated = session[o].updated
                             /\ (o # x => ss[o].active = session[o].active)
    BY <1>b DEF Sessions
  <2>3. ss[x].active = v
    BY <1>b DEF Sessions
  <2>4. Deduplicate(ss, {x}) /\ {x} \in SUBSET DOMAIN ss
    BY <1>c
  <2> HIDE DEF ss
  <2>5. /\ ~ss[s].active
        /\ \E k \in DOMAIN session' :
              /\ k \in DOMAIN ss
              /\ \A m \in MessagesOf(s) : home'[m] = k
              /\ session'[k].thread # NoThread
              /\ session'[k].active \/ ss[k].updated >= ss[s].updated
    BY <1>a, <2>1, <2>4, Succession
  <2>6. session[s].active => Silenced(s)
    BY <1>c, <2>1, <2>2, <2>3, <2>5
  <2>7. \E k \in DOMAIN session' : Succeeds(k, s)
    BY <2>1, <2>2, <2>5 DEF Succeeds
  <2> QED  BY <2>6, <2>7 DEF GoesRightly
<1>1. ASSUME NEW x \in Ids, Alive(x)  PROVE GoesRightly(s)
  BY <1>1, <1>c DEF Alive
<1>2. ASSUME NEW x \in Ids, NEW t \in Threads, ReportThread(x, t)  PROVE GoesRightly(s)
  <2> DEFINE ss == [session EXCEPT ![x].thread = t, ![x].updated = now]
  <2>1. x \in DOMAIN session /\ Deduplicate(ss, {x}) /\ {x} \in SUBSET DOMAIN ss
    BY <1>2 DEF ReportThread
  <2>2. Typed(ss) /\ DOMAIN ss = DOMAIN session
    BY <1>a, <2>1, ChangedTyped
  <2>3. \A o \in DOMAIN ss : /\ ss[o].active = session[o].active
                             /\ o # x => ss[o].updated = session[o].updated
                             /\ ss[o].updated >= session[o].updated
    <3>1. ASSUME NEW o \in DOMAIN session, o # x
          PROVE  ss[o] = session[o]
      BY <3>1
    <3>2. ss[x].active = session[x].active /\ ss[x].updated = now
      BY <1>b, <2>1 DEF Sessions
    <3>3. now >= session[x].updated /\ \A o \in DOMAIN session : session[o].updated >= session[o].updated
      BY <1>a, <1>b, <2>1 DEF TypeOK
    <3> HIDE DEF ss
    <3> QED  BY <2>2, <3>1, <3>2, <3>3
  <2> HIDE DEF ss
  <2>4. /\ ~ss[s].active
        /\ \E k \in DOMAIN session' :
              /\ k \in DOMAIN ss
              /\ \A m \in MessagesOf(s) : home'[m] = k
              /\ session'[k].thread # NoThread
              /\ session'[k].active \/ ss[k].updated >= ss[s].updated
    BY <1>a, <2>1, <2>2, Succession
  <2>5. PICK k \in DOMAIN session' :
              /\ k \in DOMAIN ss
              /\ \A m \in MessagesOf(s) : home'[m] = k
              /\ session'[k].thread # NoThread
              /\ session'[k].active \/ ss[k].updated >= ss[s].updated
    BY <2>4
  <2>6. ASSUME k = x  PROVE Succeeds(k, s)
    BY <1>2, <2>5, <2>6 DEF Succeeds
  <2>7. ASSUME k # x  PROVE Succeeds(k, s)
    <3>1. k \in DOMAIN session /\ ss[k].updated = session[k].updated
          /\ ss[s].updated >= session[s].updated
      BY <2>2, <2>3, <2>5, <2>7
    <3>2. session[k].updated \in Nat /\ session[s].updated \in Nat /\ ss[s].updated \in Nat
      BY <1>b, <2>2, <3>1 DEF Typed, Sessions
    <3>3. session'[k].active \/ session[k].updated >= session[s].updated
      BY <2>5, <3>1, <3>2
    <3> QED  BY <2>5, <3>1, <3>3 DEF Succeeds
  <2>8. \E o \in DOMAIN session' : Succeeds(o, s)
    BY <2>5, <2>6, <2>7
  <2>9. ~session[s].active
    BY <2>2, <2>3, <2>4
  <2> QED  BY <2>8, <2>9 DEF GoesRightly
<1>3. ASSUME NEW x \in Ids, End(x) \/ Archive(x)  PROVE GoesRightly(s)
  <2>1. CASE x \in DOMAIN session
    <3>1. Deduplicate([session EXCEPT ![x].active = FALSE], {x})
      BY <1>3, <2>1 DEF End, Archive, Ended
    <3>2. x = s => Silenced(s)
      BY <1>3 DEF Silenced
    <3> QED  BY <1>c, <2>1, <3>1, <3>2
  <2>2. CASE x \notin DOMAIN session
    BY <1>3, <2>2 DEF End, Archive, Ended
  <2> QED  BY <2>1, <2>2
<1>4. ASSUME NEW silent \in SUBSET DOMAIN session, Expire(silent)  PROVE GoesRightly(s)
  <2> DEFINE ss == [o \in DOMAIN session |->
                      IF o \in silent THEN [session[o] EXCEPT !.active = FALSE] ELSE session[o]]
  <2>1. Deduplicate(ss, silent) /\ silent \in SUBSET DOMAIN ss
    BY <1>4 DEF Expire
  <2>2. Typed(ss) /\ DOMAIN ss = DOMAIN session
    BY <1>a, <1>b DEF Typed, Sessions
  <2>3. \A o \in DOMAIN ss : ss[o].updated = session[o].updated
                             /\ (o \notin silent => ss[o].active = session[o].active)
    BY <1>b DEF Sessions
  <2> HIDE DEF ss
  <2>4. /\ ~ss[s].active
        /\ \E k \in DOMAIN session' :
              /\ k \in DOMAIN ss
              /\ \A m \in MessagesOf(s) : home'[m] = k
              /\ session'[k].thread # NoThread
              /\ session'[k].active \/ ss[k].updated >= ss[s].updated
    BY <1>a, <2>1, <2>2, Succession
  <2>5. session[s].active => Silenced(s)
    BY <1>4, <2>2, <2>3, <2>4 DEF Silenced
  <2>6. \E k \in DOMAIN session' : Succeeds(k, s)
    BY <2>2, <2>3, <2>4 DEF Succeeds
  <2> QED  BY <2>5, <2>6 DEF GoesRightly
<1>5. ASSUME NEW x \in Ids, Delete(x)  PROVE GoesRightly(s)
  <2>1. x = s
    BY <1>5 DEF Delete
  <2> QED  BY <1>5, <2>1 DEF GoesRightly
<1>6. ASSUME NEW r \in Resumers, ResumeDone(r)  PROVE GoesRightly(s)
  <2>1. resume[r].old = s
    BY <1>6 DEF ResumeDone, Absorb
  <2> QED  BY <1>6, <2>1 DEF GoesRightly
<1>7. ASSUME NEW x \in Ids, Create(x)  PROVE GoesRightly(s)
  BY <1>7 DEF Create
<1>8. ASSUME DOMAIN session' = DOMAIN session  PROVE GoesRightly(s)
  BY <1>8
<1>9. ASSUME NEW x \in Ids, Die(x) \/ Touch(x) \/ \E m \in Messages : Write(x, m) \/ Post(x, m)
      PROVE  DOMAIN session' = DOMAIN session
  BY <1>9 DEF Die, Touch, Write, Post
<1>10. ASSUME Restart \/ Tick  PROVE DOMAIN session' = DOMAIN session
  BY <1>10 DEF Restart, Tick
<1>11. ASSUME NEW r \in Resumers,
              \/ ResumeFail(r)
              \/ \E x \in Ids : ResumeActive(r, x)
              \/ \E x \in Ids, t \in Threads : ResumeAsk(r, x, t)
       PROVE  DOMAIN session' = DOMAIN session
  BY <1>11 DEF ResumeFail, ResumeActive, ResumeAsk
<1>12. CASE CliNext
  BY <1>1, <1>2, <1>3, <1>7, <1>8, <1>9, <1>12 DEF CliNext, Start
<1>13. CASE HubNext
  BY <1>3, <1>4, <1>5, <1>8, <1>9, <1>10, <1>13 DEF HubNext
<1>14. CASE ResumeNext
  BY <1>6, <1>7, <1>8, <1>11, <1>14 DEF ResumeNext, ResumeSpawn
<1> QED  BY <1>12, <1>13, <1>14 DEF Next

\* A live session goes only when it ends, falls silent or was being resumed,
\* and what a deduplication removes has a successor with all its messages that
\* is live or was touched no earlier (deduplicateByAgentSessionId).
THEOREM OnlyTheRightEverGo == Spec => OnlyTheRightGo
<1>1. IInv /\ [Next]_vars => [\A s \in DOMAIN session \ DOMAIN session' : GoesRightly(s)]_vars
  BY RightGo
<1> QED  BY Invariance, <1>1, PTL DEF Spec, OnlyTheRightGo

-----------------------------------------------------------------------------
(* The histories implement Conversations. *)

Shown == {MessagesOf(s) : s \in DOMAIN session} \ {{}}

\* The conversations are those of the messages that are in some session, and
\* no two of them overlap.
ShownFacts ==
    /\ UNION Shown = {m \in Messages : home[m] # NoSession}
    /\ \A c, d \in Shown : c \cap d # {} => c = d
    /\ \A c \in Shown : \E s \in DOMAIN session : c = MessagesOf(s) /\ c # {}
    /\ \A s \in DOMAIN session : MessagesOf(s) = {} \/ MessagesOf(s) \in Shown

LEMMA ShownParts == TypeOK => ShownFacts
<1> SUFFICES ASSUME TypeOK  PROVE ShownFacts
  OBVIOUS
<1>1. \A m \in Messages : home[m] \in DOMAIN session \cup {NoSession}
  BY DEF TypeOK
<1>2. NoSession \notin DOMAIN session
  BY DEF TypeOK, Ids
<1>3. /\ \A c \in Shown : \E s \in DOMAIN session : c = MessagesOf(s) /\ c # {}
      /\ \A s \in DOMAIN session : MessagesOf(s) = {} \/ MessagesOf(s) \in Shown
  BY DEF Shown
<1>4. ASSUME NEW m \in Messages, home[m] # NoSession  PROVE m \in UNION Shown
  <2>1. home[m] \in DOMAIN session /\ m \in MessagesOf(home[m])
    BY <1>1, <1>4 DEF MessagesOf
  <2> QED  BY <1>3, <2>1
<1>5. ASSUME NEW m \in UNION Shown  PROVE m \in Messages /\ home[m] # NoSession
  <2>1. PICK s \in DOMAIN session : m \in MessagesOf(s)
    BY <1>3
  <2> QED  BY <1>2, <2>1 DEF MessagesOf
<1>6. ASSUME NEW c \in Shown, NEW d \in Shown, NEW m \in c \cap d  PROVE c = d
  <2>1. PICK s \in DOMAIN session, o \in DOMAIN session : c = MessagesOf(s) /\ d = MessagesOf(o)
    BY <1>3
  <2>2. s = o
    BY <2>1 DEF MessagesOf
  <2> QED  BY <2>1, <2>2
<1> HIDE DEF Shown
<1>7. UNION Shown = {m \in Messages : home[m] # NoSession}
  BY <1>4, <1>5
<1> QED  BY <1>3, <1>6, <1>7 DEF ShownFacts

\* A merge joins conversations.
LEMMA MergingJoins ==
    ASSUME TypeOK, TypeOK', NEW ss, DOMAIN ss = DOMAIN session,
           NEW into, Merging(ss, into), UNCHANGED deleted
    PROVE  History!Join
<1>0. ShownFacts'
  BY ShownParts, PTL
<1>1. /\ DOMAIN session' = DOMAIN session \ DOMAIN into
      /\ home' = [m \in Messages |-> IF home[m] \in DOMAIN into THEN into[home[m]] ELSE home[m]]
      /\ DOMAIN into \subseteq DOMAIN session
      /\ \A s \in DOMAIN into : into[s] \in DOMAIN session'
  BY DEF Merging, Absorb
<1>2. NoSession \notin DOMAIN session /\ NoSession \notin DOMAIN session'
  BY DEF TypeOK, Ids
<1>3. ASSUME NEW m \in Messages  PROVE home[m] # NoSession <=> home'[m] # NoSession
  BY <1>1, <1>2
<1>4. UNION Shown' = UNION Shown
  <2>1. UNION Shown = {m \in Messages : home[m] # NoSession}
    BY ShownParts DEF ShownFacts
  <2>2. UNION Shown' = {m \in Messages : home'[m] # NoSession}
    BY <1>0 DEF ShownFacts
  <2> QED  BY <1>3, <2>1, <2>2
<1>5. ASSUME NEW c \in Shown  PROVE \E d \in Shown' : c \subseteq d
  <2>1. PICK s \in DOMAIN session : c = MessagesOf(s) /\ c # {}
    BY ShownParts DEF ShownFacts
  <2> DEFINE k == IF s \in DOMAIN into THEN into[s] ELSE s
  <2>2. k \in DOMAIN session'
    BY <1>1
  <2>3. \A m \in c : home'[m] = k
    BY <1>1, <2>1 DEF MessagesOf
  <2> HIDE DEF k
  <2>4. c \subseteq MessagesOf(k)'
    BY <2>1, <2>3 DEF MessagesOf
  <2>5. MessagesOf(k)' \in Shown'
    BY <2>1, <2>2, <2>4 DEF Shown
  <2> QED  BY <2>4, <2>5
<1>6. \A c, d \in Shown' : c \cap d # {} => c = d
  BY <1>0 DEF ShownFacts
<1> QED  BY <1>4, <1>5, <1>6 DEF History!Join, Shown

\* A new message continues the conversation of its session.
LEMMA WritingSays ==
    ASSUME TypeOK, NEW s \in DOMAIN session, NEW m \in Messages, New(m),
           home' = [home EXCEPT ![m] = s], DOMAIN session' = DOMAIN session, UNCHANGED deleted
    PROVE  History!Say(m)
<1>1. home \in [Messages -> DOMAIN session \cup {NoSession}] /\ home[m] = NoSession /\ m \notin deleted
      /\ NoSession \notin DOMAIN session
  BY DEF TypeOK, New, Ids
<1> DEFINE c == MessagesOf(s)
<1>2. MessagesOf(s)' = c \cup {m} /\ m \notin c
  BY <1>1 DEF MessagesOf
<1>3. \A o \in DOMAIN session \ {s} : MessagesOf(o)' = MessagesOf(o)
  BY <1>1 DEF MessagesOf
<1>4. c \in Shown \cup {{}}
  BY ShownParts DEF ShownFacts
<1>5. m \notin UNION Shown
  BY <1>1, ShownParts DEF ShownFacts
<1>6. Shown' = (Shown \ {c}) \cup {c \cup {m}}
  <2>1. ASSUME NEW d \in Shown'  PROVE d \in (Shown \ {c}) \cup {c \cup {m}}
    <3>1. PICK o \in DOMAIN session : d = MessagesOf(o)' /\ d # {}
      BY DEF Shown
    <3>2. CASE o = s
      BY <1>2, <3>1, <3>2
    <3>3. CASE o # s
      <4>1. d = MessagesOf(o) /\ d \in Shown
        BY <1>3, <3>1, <3>3 DEF Shown
      <4>2. d # c
        BY <3>1, <3>3, <4>1 DEF MessagesOf
      <4> QED  BY <4>1, <4>2
    <3> QED  BY <3>2, <3>3
  <2>2. c \cup {m} \in Shown'
    BY <1>2 DEF Shown
  <2>3. ASSUME NEW d \in Shown, d # c  PROVE d \in Shown'
    <3>1. PICK o \in DOMAIN session : d = MessagesOf(o) /\ d # {}
      BY ShownParts DEF ShownFacts
    <3>2. d = MessagesOf(o)'
      BY <1>3, <2>3, <3>1
    <3> QED  BY <3>1, <3>2 DEF Shown
  <2> HIDE DEF c
  <2> QED  BY <2>1, <2>2, <2>3
<1> HIDE DEF c
<1>7. m \notin (UNION Shown) \cup deleted /\ UNCHANGED deleted
  BY <1>1, <1>5
<1>8. \E d \in Shown \cup {{}} : Shown' = (Shown \ {d}) \cup {d \cup {m}}
  BY <1>4, <1>6
<1> QED  BY <1>7, <1>8 DEF History!Say, Shown

\* Deleting a session deletes its conversation, if it has one.
LEMMA DeletingDeletes ==
    ASSUME TypeOK, NEW s \in Ids, Delete(s)
    PROVE  \/ \E c \in Shown : History!Delete(c)
           \/ Shown' = Shown /\ deleted' = deleted
<1> DEFINE c == MessagesOf(s)
<1>1. /\ s \in DOMAIN session /\ DOMAIN session' = DOMAIN session \ {s}
      /\ deleted' = deleted \cup c
      /\ home' = [m \in Messages |-> IF home[m] = s THEN NoSession ELSE home[m]]
  BY DEF Delete
<1>2. s # NoSession /\ NoSession \notin DOMAIN session
  BY DEF TypeOK, Ids
<1>3. \A o \in DOMAIN session \ {s} : MessagesOf(o)' = MessagesOf(o)
  BY <1>1, <1>2 DEF MessagesOf
<1>4. Shown' = Shown \ {c}
  <2>1. ASSUME NEW d \in Shown'  PROVE d \in Shown \ {c}
    <3>1. PICK o \in DOMAIN session \ {s} : d = MessagesOf(o)' /\ d # {}
      BY <1>1 DEF Shown
    <3>2. d = MessagesOf(o) /\ d \in Shown
      BY <1>3, <3>1 DEF Shown
    <3>3. d # c
      BY <3>1, <3>2 DEF MessagesOf
    <3> QED  BY <3>2, <3>3
  <2>2. ASSUME NEW d \in Shown, d # c  PROVE d \in Shown'
    <3>1. PICK o \in DOMAIN session : d = MessagesOf(o) /\ d # {}
      BY ShownParts DEF ShownFacts
    <3>2. o \in DOMAIN session' /\ d = MessagesOf(o)'
      BY <1>1, <1>3, <2>2, <3>1
    <3> QED  BY <3>1, <3>2 DEF Shown
  <2> HIDE DEF c
  <2> QED  BY <2>1, <2>2
<1>5. CASE c = {}
  <2>1. c \notin Shown
    BY <1>5 DEF Shown
  <2> HIDE DEF c
  <2> QED  BY <1>1, <1>4, <1>5, <2>1
<1>6. CASE c # {}
  <2>1. c \in Shown
    BY <1>1, <1>6 DEF Shown
  <2>2. History!Delete(c)
    BY <1>1, <1>4 DEF History!Delete, Shown
  <2> QED  BY <2>1, <2>2
<1> QED  BY <1>5, <1>6

\* Steps that move no message and remove no session show the same.
LEMMA ShownStays ==
    ASSUME TypeOK, home' = home, DOMAIN session \subseteq DOMAIN session',
           DOMAIN session' \subseteq Ids
    PROVE  Shown' = Shown
<1>1. \A s : MessagesOf(s)' = MessagesOf(s)
  BY DEF MessagesOf
<1>2. \A s \in DOMAIN session' \ DOMAIN session : MessagesOf(s) = {}
  BY DEF TypeOK, MessagesOf, Ids
<1>3. ASSUME NEW d \in Shown'  PROVE d \in Shown
  <2>1. PICK s \in DOMAIN session' : d = MessagesOf(s)' /\ d # {}
    BY DEF Shown
  <2>2. s \in DOMAIN session /\ d = MessagesOf(s)
    BY <1>1, <1>2, <2>1
  <2> QED  BY <2>1, <2>2 DEF Shown
<1>4. ASSUME NEW d \in Shown  PROVE d \in Shown'
  <2>1. PICK s \in DOMAIN session : d = MessagesOf(s) /\ d # {}
    BY ShownParts DEF ShownFacts
  <2>2. s \in DOMAIN session' /\ d = MessagesOf(s)'
    BY <1>1, <2>1
  <2> QED  BY <2>1, <2>2 DEF Shown
<1> QED  BY <1>3, <1>4

\* Every step continues, joins or deletes conversations, or leaves them alone.
LEMMA StepsConverse ==
    ASSUME TypeOK, TypeOK', NewIsNew, Next
    PROVE  \/ \E m \in Messages : History!Say(m)
           \/ History!Join
           \/ \E c \in Shown : History!Delete(c)
           \/ Shown' = Shown /\ deleted' = deleted
<1> DEFINE Goal == \/ \E m \in Messages : History!Say(m)
                   \/ History!Join
                   \/ \E c \in Shown : History!Delete(c)
                   \/ Shown' = Shown /\ deleted' = deleted
<1> SUFFICES Goal
  OBVIOUS
<1>a. DOMAIN session \subseteq Ids /\ DOMAIN session' \subseteq Ids /\ Typed(session)
  BY DEF TypeOK, Typed
<1>b. ASSUME NEW ss, DOMAIN ss = DOMAIN session, NEW triggers \in SUBSET DOMAIN session,
             Deduplicate(ss, triggers), UNCHANGED deleted
      PROVE  Goal
  <2>1. PICK into : Merging(ss, into)
    BY <1>b, DeduplicateMerges
  <2> QED  BY <1>b, <2>1, MergingJoins
<1>c. ASSUME NEW s \in Ids, Ended(s), UNCHANGED deleted  PROVE Goal
  <2>1. CASE s \in DOMAIN session
    <3>1. Deduplicate([session EXCEPT ![s].active = FALSE], {s})
      BY <1>c, <2>1 DEF Ended
    <3> HIDE DEF Goal
    <3> QED  BY <1>b, <1>c, <2>1, <3>1
  <2>2. CASE s \notin DOMAIN session
    BY <1>a, <1>c, <2>2, ShownStays DEF Ended
  <2> QED  BY <2>1, <2>2
<1>d. ASSUME home' = home, DOMAIN session \subseteq DOMAIN session', UNCHANGED deleted
      PROVE  Goal
  BY <1>a, <1>d, ShownStays
<1>1. ASSUME NEW s \in Ids, Create(s), UNCHANGED deleted  PROVE Goal
  <2>1. home' = home /\ DOMAIN session \subseteq DOMAIN session'
    BY <1>1 DEF Create
  <2> HIDE DEF Goal
  <2> QED  BY <1>1, <1>d, <2>1
<1>2. ASSUME NEW s \in Ids, Alive(s)  PROVE Goal
  <2>1. Deduplicate([session EXCEPT ![s].active = TRUE], {s}) /\ s \in DOMAIN session
        /\ UNCHANGED deleted
    BY <1>2 DEF Alive
  <2> HIDE DEF Goal
  <2> QED  BY <1>b, <2>1
<1>3. ASSUME NEW s \in Ids, NEW t \in Threads, ReportThread(s, t)  PROVE Goal
  <2>1. Deduplicate([session EXCEPT ![s].thread = t, ![s].updated = now], {s})
        /\ s \in DOMAIN session /\ UNCHANGED deleted
    BY <1>3 DEF ReportThread
  <2> HIDE DEF Goal
  <2> QED  BY <1>b, <2>1
<1>4. ASSUME NEW s \in Ids, NEW m \in Messages, Write(s, m) \/ Post(s, m)  PROVE Goal
  <2>1. /\ s \in DOMAIN session /\ New(m) /\ home' = [home EXCEPT ![m] = s]
        /\ DOMAIN session' = DOMAIN session /\ UNCHANGED deleted
    BY <1>4 DEF Write, Post
  <2>2. History!Say(m)
    BY <2>1, WritingSays
  <2> QED  BY <2>2
<1>5. ASSUME NEW s \in Ids, End(s) \/ Archive(s)  PROVE Goal
  <2>1. Ended(s) /\ UNCHANGED deleted
    BY <1>5 DEF End, Archive
  <2> HIDE DEF Goal
  <2> QED  BY <1>c, <2>1
<1>6. ASSUME NEW silent \in SUBSET DOMAIN session, Expire(silent)  PROVE Goal
  <2> DEFINE ss == [s \in DOMAIN session |->
                      IF s \in silent THEN [session[s] EXCEPT !.active = FALSE] ELSE session[s]]
  <2>1. Deduplicate(ss, silent) /\ DOMAIN ss = DOMAIN session /\ UNCHANGED deleted
    BY <1>6 DEF Expire
  <2> HIDE DEF ss, Goal
  <2> QED  BY <1>b, <2>1
<1>7. ASSUME NEW s \in Ids, Delete(s)  PROVE Goal
  BY <1>7, DeletingDeletes
<1>8. ASSUME NEW r \in Resumers, ResumeDone(r)  PROVE Goal
  <2>1. PICK into : Merging(session, into)
    BY <1>8, ResumeMerges
  <2>2. UNCHANGED deleted
    BY <1>8 DEF ResumeDone
  <2> QED  BY <2>1, <2>2, MergingJoins
<1>9. ASSUME \/ Restart \/ Tick
             \/ \E s \in Ids : Die(s) \/ Touch(s)
             \/ \E r \in Resumers :
                   \/ ResumeFail(r)
                   \/ \E s \in Ids : ResumeActive(r, s)
                   \/ \E s \in Ids, t \in Threads : ResumeAsk(r, s, t)
      PROVE  Goal
  <2>1. home' = home /\ DOMAIN session \subseteq DOMAIN session' /\ UNCHANGED deleted
    BY <1>9 DEF Restart, Tick, Die, Touch, ResumeFail, ResumeActive, ResumeAsk
  <2> HIDE DEF Goal
  <2> QED  BY <1>d, <2>1
<1> HIDE DEF Goal
<1>10. CASE CliNext
  BY <1>1, <1>2, <1>3, <1>4, <1>5, <1>9, <1>10 DEF CliNext, Start
<1>11. CASE HubNext
  BY <1>4, <1>5, <1>6, <1>7, <1>9, <1>11 DEF HubNext
<1>12. CASE ResumeNext
  BY <1>1, <1>8, <1>9, <1>12 DEF ResumeNext, ResumeSpawn
<1> QED  BY <1>10, <1>11, <1>12 DEF Next

\* Whatever merges, heartbeats and resumes do, messages that were in
\* one session stay together, and only a user's deletion loses any (sessionCache.ts).
THEOREM Implements == Spec => ImplementsConversations
<1>1. Init => History!Init
  <2> SUFFICES ASSUME Init  PROVE Shown = {} /\ deleted = {}
    BY DEF History!Init, Shown
  <2> QED  BY DEF Init, Shown
<1>2. IInv /\ IInv' /\ [Next]_vars
        => [History!Next]_<<{MessagesOf(s) : s \in DOMAIN session} \ {{}}, deleted>>
  <2> SUFFICES ASSUME IInv, IInv', [Next]_vars
               PROVE  History!Next \/ (Shown' = Shown /\ deleted' = deleted)
    BY DEF Shown
  <2>1. CASE Next
    <3>1. TypeOK /\ TypeOK' /\ NewIsNew
      BY DEF IInv
    <3> QED  BY <2>1, <3>1, StepsConverse DEF History!Next, Shown
  <2>2. CASE UNCHANGED vars
    BY <2>2 DEF vars, Shown, MessagesOf
  <2> QED  BY <2>1, <2>2
<1> QED  BY <1>1, <1>2, Invariance, PTL DEF Spec, ImplementsConversations, History!Spec
=============================================================================
