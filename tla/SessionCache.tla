---------------------------- MODULE SessionCache ----------------------------
(***************************************************************************)
(* The sessions of one namespace as the hub keeps them (sessionCache.ts    *)
(* over the sessions table): heartbeats, ends and silence of the CLIs,     *)
(* which agent thread a session is on, the deduplication of sessions on    *)
(* one thread, and resuming (syncEngine.ts).  The merges of a              *)
(* deduplication await nothing but each other, and no timer or socket runs *)
(* between two microtasks: a deduplication is part of the step that asks   *)
(* for it.  The cache and the table hold the same sessions; active is in   *)
(* the cache alone.                                                        *)
(***************************************************************************)
EXTENDS Naturals, Functions

CONSTANTS
    Threads,        \* agent session ids (claudeSessionId, codexSessionId, ...)
    NoThread,       \* metadata without one
    MaxMessages,    \* bound: how many messages are ever written
    Started,        \* the ids of sessions started from a terminal
    Spawned,        \* the ids of sessions spawned for a resume
    NoSession,      \* no id
    Resumers,       \* POSTs to /sessions/:id/resume
    MaxTime         \* bound: the last timestamp

ASSUME NoThreadAssumption == NoThread \notin Threads
ASSUME MaxMessagesAssumption == MaxMessages \in Nat
ASSUME NoSessionAssumption == NoSession \notin Started \cup Spawned
ASSUME MaxTimeAssumption == MaxTime \in Nat

VARIABLES
    session,    \* the sessions there are: thread, active, updated (updatedAt)
    home,       \* the session each message is in, NoSession for none
    cli,        \* the process that created each session: none, up or gone
    resume,     \* the handler of each POST: stage, old (asked for), new (spawned)
    now,        \* Date.now()
    deleted,    \* history: the messages of sessions that users deleted
    missed      \* history: threads changed without a deduplication since

vars == <<session, home, cli, resume, now, deleted, missed>>

Messages == 1 .. MaxMessages
Ids == Started \cup Spawned
Sessions == [thread : Threads \cup {NoThread}, active : BOOLEAN, updated : 0 .. MaxTime]
Stages == {"idle", "resuming", "over"}
Resumes == [stage : Stages, old : Ids \cup {NoSession}, new : Ids \cup {NoSession}]
Idle == [stage |-> "idle", old |-> NoSession, new |-> NoSession]
Over == [stage |-> "over", old |-> NoSession, new |-> NoSession]
MessagesOf(s) == {m \in Messages : home[m] = s}

Init ==
    /\ session = [s \in {} |-> {}]
    /\ home = [m \in Messages |-> NoSession]
    /\ cli = [s \in Ids |-> "none"]
    /\ resume = [r \in Resumers |-> Idle]
    /\ now = 0
    /\ deleted = {}
    /\ missed = {}

-----------------------------------------------------------------------------
(* Merging.  `ss` are the sessions after the change that asks for it.      *)

OnThreadOf(ss, s) == {o \in DOMAIN ss : ss[o].thread = ss[s].thread}

\* (mutant of Absorb) the deletion cascades before the messages have moved.
DeleteFirst(ss, into) ==
    /\ session' = [s \in DOMAIN ss \ DOMAIN into |-> ss[s]]
    /\ home' = [m \in Messages |-> IF home[m] \in DOMAIN into THEN NoSession ELSE home[m]]

\* mergeSessionData: the absorbed sessions give their messages away and go.
\* What is merged of their agent states and todos may stamp the one that stays.
\* (An error of the database ends a merge where it is; this is left out.)
Absorb(ss, into) ==
    /\ \E stamped \in SUBSET Range(into) :
         session' = [s \in DOMAIN ss \ DOMAIN into |->
                       IF s \in stamped THEN [ss[s] EXCEPT !.updated = now] ELSE ss[s]]
    /\ home' = [m \in Messages |-> IF home[m] \in DOMAIN into THEN into[home[m]] ELSE home[m]]

\* Several sessions on the thread of `s`, and not two of them live.
Mergeable(ss, s) ==
    /\ s \in DOMAIN ss
    /\ ss[s].thread # NoThread
    /\ OnThreadOf(ss, s) # {s}
    /\ \A a, b \in OnThreadOf(ss, s) : ss[a].active /\ ss[b].active => a = b

\* (mutant of SortsBefore) the most recent first, live or not.
NewestFirst(a, b) == a.updated > b.updated

SortsBefore(a, b) ==
    IF a.active = b.active THEN a.updated > b.updated ELSE a.active

\* The sessions that may sort first.  Of equals the one that asked does;
\* activeAt, the last criterion, is the clock of the CLI: any of them.
Canonical(ss, s) ==
    LET first == {a \in OnThreadOf(ss, s) : \A b \in OnThreadOf(ss, s) : ~SortsBefore(ss[b], ss[a])}
    IN IF s \in first THEN {s} ELSE first

\* deduplicateByAgentSessionId, asked for by each of `triggers` in turn; a
\* second one on the same thread finds nothing left to do.
Deduplicate(ss, triggers) ==
    LET asked == {s \in triggers : Mergeable(ss, s)}
    IN \E keep \in SUBSET UNION {Canonical(ss, s) : s \in asked} :
         /\ \A s \in asked : \E k \in keep : ss[k].thread = ss[s].thread
         /\ \A k, l \in keep : ss[k].thread = ss[l].thread => k = l
         /\ Absorb(ss, [o \in UNION {OnThreadOf(ss, k) \ {k} : k \in keep} |->
                           CHOOSE k \in keep : ss[k].thread = ss[o].thread])

-----------------------------------------------------------------------------
(* The CLIs.                                                               *)

\* POST /cli/sessions: a new row, inactive; the agent's thread is not known yet.
Create(s) ==
    /\ cli[s] = "none"
    /\ cli' = [cli EXCEPT ![s] = "up"]
    /\ session' = [o \in DOMAIN session \cup {s} |->
                     IF o = s THEN [thread |-> NoThread, active |-> FALSE, updated |-> now]
                     ELSE session[o]]
    /\ UNCHANGED home

\* From a terminal, or by a runner whose answer nobody waits for any more.
Start(s) ==
    /\ s \in Started
    /\ Create(s)
    /\ UNCHANGED <<resume, now, deleted, missed>>

\* session-alive.  The hub answers to sessions it does not know with an error,
\* which the CLI logs.
Alive(s) ==
    /\ cli[s] = "up"
    /\ s \in DOMAIN session
    /\ Deduplicate([session EXCEPT ![s].active = TRUE], {s})
    /\ missed' = missed \ {session[s].thread}
    /\ UNCHANGED <<cli, resume, now, deleted>>

\* update-metadata with another agent session id (a new conversation, /clear,
\* a fork): handleRealtimeEvent compares the ids before and after.
ReportThread(s, t) ==
    /\ cli[s] = "up"
    /\ s \in DOMAIN session
    /\ session[s].thread # t
    /\ Deduplicate([session EXCEPT ![s].thread = t, ![s].updated = now], {s})
    /\ missed' = (missed \cup {session[s].thread}) \ {t, NoThread}
    /\ UNCHANGED <<cli, resume, now, deleted>>

New(m) ==
    /\ home[m] = NoSession /\ m \notin deleted
    /\ \A o \in 1 .. (m - 1) : home[o] # NoSession \/ o \in deleted

\* A message of the CLI; some of them stamp the session.
Write(s, m) ==
    /\ cli[s] = "up"
    /\ s \in DOMAIN session
    /\ New(m)
    /\ home' = [home EXCEPT ![m] = s]
    /\ \E at \in {session[s].updated, now} : session' = [session EXCEPT ![s].updated = at]
    /\ UNCHANGED <<cli, resume, now, deleted, missed>>

\* A message of a user.  The session was active when the request came, but need not be
\* once the body is read.  markMessageQueued stamps the cache of an active one, not the
\* table: the next refresh may take the stamp back.
Post(s, m) ==
    /\ s \in DOMAIN session
    /\ New(m)
    /\ home' = [home EXCEPT ![m] = s]
    /\ \E at \in {session[s].updated} \cup (IF session[s].active THEN {now} ELSE {}) :
         session' = [session EXCEPT ![s].updated = at]
    /\ UNCHANGED <<cli, resume, now, deleted, missed>>

\* What else stamps a session: its agent state, messages the agent takes, a
\* new name.
Touch(s) ==
    /\ s \in DOMAIN session
    /\ session' = [session EXCEPT ![s].updated = now]
    /\ UNCHANGED <<home, cli, resume, now, deleted, missed>>

\* (mutant of Ended) the end asks for no deduplication.
JustEnded(s) ==
    IF s \in DOMAIN session
    THEN /\ session' = [session EXCEPT ![s].active = FALSE]
         /\ missed' = missed \ {session[s].thread}
         /\ UNCHANGED home
    ELSE UNCHANGED <<session, home, missed>>

\* handleSessionEnd on the hub: it deduplicates whether s was active or not.
Ended(s) ==
    IF s \in DOMAIN session
    THEN /\ Deduplicate([session EXCEPT ![s].active = FALSE], {s})
         /\ missed' = missed \ {session[s].thread}
    ELSE UNCHANGED <<session, home, missed>>

\* session-end, the last word of a CLI.
End(s) ==
    /\ cli[s] = "up"
    /\ cli' = [cli EXCEPT ![s] = "gone"]
    /\ Ended(s)
    /\ UNCHANGED <<resume, now, deleted>>

\* The process dies, or its last word is lost.
Die(s) ==
    /\ cli[s] = "up"
    /\ cli' = [cli EXCEPT ![s] = "gone"]
    /\ UNCHANGED <<session, home, resume, now, deleted, missed>>

-----------------------------------------------------------------------------
(* The hub and the users.                                                  *)

\* The CLI has answered killSession; it ends about now.
Archive(s) ==
    /\ cli[s] # "none"
    /\ s \in DOMAIN session
    /\ Ended(s)
    /\ UNCHANGED <<cli, resume, now, deleted>>

\* The sweep finds some sessions silent for 30 s.  Which ones is up to the
\* network and to the CLIs' clocks (activeAt is what they sent).
Expire(silent) ==
    /\ silent # {}
    /\ \A s \in silent : session[s].active
    /\ Deduplicate([s \in DOMAIN session |->
                      IF s \in silent THEN [session[s] EXCEPT !.active = FALSE] ELSE session[s]],
                   silent)
    /\ missed' = missed \ {session[s].thread : s \in silent}
    /\ UNCHANGED <<cli, resume, now, deleted>>

\* deleteSession refuses active sessions.
Delete(s) ==
    /\ s \in DOMAIN session
    /\ ~session[s].active
    /\ session' = [o \in DOMAIN session \ {s} |-> session[o]]
    /\ deleted' = deleted \cup MessagesOf(s)
    /\ home' = [m \in Messages |-> IF home[m] = s THEN NoSession ELSE home[m]]
    /\ UNCHANGED <<cli, resume, now, missed>>

\* A restart loads all sessions as inactive and drops the requests being handled.
Restart ==
    /\ session' = [s \in DOMAIN session |-> [session[s] EXCEPT !.active = FALSE]]
    /\ resume' = [r \in Resumers |->
                    IF resume[r].stage = "resuming" THEN Over ELSE resume[r]]
    /\ missed' = Threads
    /\ UNCHANGED <<home, cli, now, deleted>>

Tick ==
    /\ now < MaxTime
    /\ now' = now + 1
    /\ UNCHANGED <<session, home, cli, resume, deleted, missed>>

-----------------------------------------------------------------------------
(* resumeSession.                                                          *)

At(r, stage) == resume[r].stage = stage

\* A session that is active is its own answer.
ResumeActive(r, s) ==
    /\ At(r, "idle")
    /\ s \in DOMAIN session
    /\ session[s].active
    /\ resume' = [resume EXCEPT ![r] = Over]
    /\ UNCHANGED <<session, home, cli, now, deleted, missed>>

\* Else an agent is to be spawned on the thread.  Where the metadata have
\* none, a Claude session finds one in its messages and writes it into the
\* metadata, which asks for no deduplication; without one the POST fails.
ResumeAsk(r, s, t) ==
    /\ At(r, "idle")
    /\ s \in DOMAIN session
    /\ ~session[s].active
    /\ \/ session[s].thread = t
       \/ session[s].thread = NoThread /\ MessagesOf(s) # {}
    /\ resume' = [resume EXCEPT ![r] = [stage |-> "resuming", old |-> s, new |-> NoSession]]
    /\ session' = [session EXCEPT ![s].thread = t]
    /\ missed' = IF session[s].thread = t THEN missed ELSE missed \cup {t}
    /\ UNCHANGED <<home, cli, now, deleted>>

\* The runner starts a CLI, which creates a session of its own.
ResumeSpawn(r, s) ==
    /\ At(r, "resuming")
    /\ resume[r].new = NoSession
    /\ s \in Spawned
    /\ Create(s)
    /\ resume' = [resume EXCEPT ![r].new = s]
    /\ UNCHANGED <<now, deleted, missed>>

\* The spawn fails or takes too long (the CLI may be there all the same), or
\* the new session is not seen active within 15 s of the runner's answer.
ResumeFail(r) ==
    /\ At(r, "resuming")
    /\ resume' = [resume EXCEPT ![r] = Over]
    /\ UNCHANGED <<session, home, cli, now, deleted, missed>>

\* The runner has answered, and waitForSessionActive sees the new session
\* active.  The old one, if it is still there, is merged into it, whatever
\* became of it meanwhile.
ResumeDone(r) ==
    LET old == resume[r].old
        new == resume[r].new
    IN /\ At(r, "resuming")
       /\ new \in DOMAIN session
       /\ session[new].active
       /\ Absorb(session, [o \in {old} \cap DOMAIN session |-> new])
       /\ resume' = [resume EXCEPT ![r] = Over]
       /\ missed' = missed \cup ({session[s].thread : s \in {old} \cap DOMAIN session} \ {NoThread})
       /\ UNCHANGED <<cli, now, deleted>>

-----------------------------------------------------------------------------
CliNext == \E s \in Ids :
    \/ Start(s)
    \/ Alive(s)
    \/ \E t \in Threads : ReportThread(s, t)
    \/ \E m \in Messages : Write(s, m)
    \/ End(s)
    \/ Die(s)

HubNext ==
    \/ \E s \in Ids, m \in Messages : Post(s, m)
    \/ \E s \in Ids : Touch(s) \/ Archive(s) \/ Delete(s)
    \/ \E silent \in SUBSET DOMAIN session : Expire(silent)
    \/ Restart
    \/ Tick

ResumeNext == \E r \in Resumers :
    \/ \E s \in Ids : ResumeActive(r, s) \/ ResumeSpawn(r, s)
    \/ \E s \in Ids, t \in Threads : ResumeAsk(r, s, t)
    \/ ResumeFail(r)
    \/ ResumeDone(r)

Next == CliNext \/ HubNext \/ ResumeNext

Spec == Init /\ [][Next]_vars

-----------------------------------------------------------------------------
(* Properties.                                                             *)

\* The type invariant: every message is in a session that exists, so the
\* foreign key of a merged or deleted session takes no message with it unseen.
TypeOK ==
    /\ DOMAIN session \subseteq Ids
    /\ session \in [DOMAIN session -> Sessions]
    /\ home \in [Messages -> DOMAIN session \cup {NoSession}]
    /\ cli \in [Ids -> {"none", "up", "gone"}]
    /\ \A s \in DOMAIN session : cli[s] # "none"
    /\ resume \in [Resumers -> Resumes]
    /\ now \in 0 .. MaxTime
    /\ deleted \subseteq Messages
    /\ missed \subseteq Threads

\* Messages that were once in one session stay together and are never lost,
\* but for the deletion of a session by a user: whatever merges,
\* heartbeats and resumes do, no conversation is split or dropped.
History == INSTANCE Conversations WITH
    shown <- {MessagesOf(s) : s \in DOMAIN session} \ {{}}
ImplementsConversations == History!Spec

\* The steps after which `s` does not count as live: its end, or silence.
Silenced(s) ==
    \/ End(s)
    \/ Archive(s)
    \/ \E silent \in SUBSET DOMAIN session : s \in silent /\ Expire(silent)

\* `k` is on a thread, has the messages of `s`, and is live or was touched
\* no earlier: the session the sidebar is likely to show.
Succeeds(k, s) ==
    /\ \A m \in MessagesOf(s) : home'[m] = k
    /\ session'[k].thread # NoThread
    /\ \/ session'[k].active
       \/ k \in DOMAIN session /\ session[k].updated >= session[s].updated
       \/ \E t \in Threads : ReportThread(k, t)

\* A live session goes only when it ends, falls silent, or was being resumed;
\* one that no user deleted leaves a successor (deduplicateByAgentSessionId).
GoesRightly(s) ==
    \/ \E r \in Resumers : resume[r].old = s /\ ResumeDone(r)
    \/ Delete(s)
    \/ /\ session[s].active => Silenced(s)
       /\ \E k \in DOMAIN session' : Succeeds(k, s)

OnlyTheRightGo == [][\A s \in DOMAIN session \ DOMAIN session' : GoesRightly(s)]_vars

\* Several sessions on one thread stay only while two of them are live, or
\* since a step that is not followed by a deduplication: a restart of the hub,
\* a live session that is resumed, a session that moves to another thread, an
\* id recovered from the messages.  Every end, every silence and every
\* heartbeat on the thread settles it.
DuplicatesAreLive ==
    \A s \in DOMAIN session : Mergeable(session, s) => session[s].thread \in missed
=============================================================================
