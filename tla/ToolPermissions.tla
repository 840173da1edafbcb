--------------------------- MODULE ToolPermissions ---------------------------
(***************************************************************************)
(* The way of a tool call that needs permission in remote mode: Claude     *)
(* writes the call and then a control request to its output; Query reads   *)
(* the output line by line and stands still while it handles a request;    *)
(* claudeRemote takes the other lines later, when it comes to them; the    *)
(* PermissionHandler finds the call that a request is for by tool and      *)
(* input, publishes it in agentState, and waits for a user's answer.       *)
(*                                                                         *)
(* A run of claudeRemote that ends, as after a denied call, may leave its  *)
(* agent behind, which goes on asking the same PermissionHandler.          *)
(***************************************************************************)
EXTENDS Naturals, Sequences, FiniteSets

CONSTANTS
    MaxCalls, \* tool calls, numbered as they are made
    Kinds,    \* what a call asks for: tool and input
    Kind,     \* per call
    Verdicts, \* answers of users to try: "approve", "always", "free", "strict", "deny"
    MaxRuns,  \* runs of claudeRemote
    MaxAnswers \* answers under way at a time

ASSUME CallsAssumption ==
    /\ Kind \in [1..MaxCalls -> Kinds]
    /\ Verdicts \subseteq {"approve", "always", "free", "strict", "deny"}
    /\ {MaxCalls, MaxRuns, MaxAnswers} \subseteq Nat

Runs == 1..MaxRuns
Calls == 1..MaxCalls
None == 0

VARIABLES
    loop,      \* runMainLoop: "waiting" for a message, in a run of an "agent", or "flushing" after it
    run,       \* the current or last run, 0 before the first
    modes,     \* of the messages that go to this run (modeHash): TRUE is bypassPermissions
    agent,     \* per run: its process
    made,      \* calls so far
    owner,     \* per call: the run whose agent made it, 0 for none
    state,     \* per call: how far it is, for its agent
    stdout,    \* per run: lines that its agent wrote and Query has not read
    reading,   \* per run: the request that Query stands at
    stream,    \* lines for claudeRemote (inputStream of the current run)
    toolCalls, \* of the PermissionHandler, oldest first
    pending,   \* pendingRequests: id and the call whose request it is
    denied,    \* ids with a denial in responses
    free,      \* permissionMode lets every call pass
    allowed,   \* kinds that an answer allowed for good
    answers,   \* answers of users that are under way
    grantedBy  \* history: per call, the id whose approval it was let pass with

agentVars == <<agent, made, owner, state>>
handlerVars == <<toolCalls, pending, denied, free, allowed>>
vars == <<loop, run, modes, agentVars, stdout, reading, stream, handlerVars, answers, grantedBy>>

Nothing == [call |-> None, delayed |-> FALSE]

Init ==
    /\ loop = "waiting" /\ run = 0
    /\ agent = [r \in Runs |-> "none"]
    /\ made = 0
    /\ owner = [c \in Calls |-> 0]
    /\ state = [c \in Calls |-> "none"]
    /\ stdout = [r \in Runs |-> <<>>]
    /\ reading = [r \in Runs |-> Nothing]
    /\ stream = <<>>
    /\ toolCalls = <<>>
    /\ pending = {} /\ denied = {} /\ allowed = {}
    /\ modes = {FALSE} /\ free = FALSE
    /\ answers = {}
    /\ grantedBy = [c \in Calls |-> None]

-----------------------------------------------------------------------------
(* The agent (Claude Code). *)

Lines(type, calls) == [i \in DOMAIN calls |-> [type |-> type, call |-> calls[i]]]

Writes(r, lines) == stdout' = [stdout EXCEPT ![r] = @ \o lines]

\* A message with n calls, then a request for each.  can_use_tool names the tool and its
\* input, but not the call.
Use(r, n) ==
    LET calls == [i \in 1..n |-> made + i] IN
    /\ agent[r] = "alive"
    /\ made + n <= MaxCalls
    /\ made' = made + n
    /\ owner' = [c \in Calls |-> IF c \in (made + 1)..(made + n) THEN r ELSE owner[c]]
    /\ state' = [c \in Calls |-> IF c \in (made + 1)..(made + n) THEN "asked" ELSE state[c]]
    /\ Writes(r, Lines("use", calls) \o Lines("ask", calls))
    /\ UNCHANGED <<loop, run, modes, agent, reading, stream, handlerVars, answers, grantedBy>>

\* It has done, or not, what it was told about a call.
Result(c) ==
    /\ state[c] \in {"allow", "deny", "error"}
    /\ agent[owner[c]] = "alive"
    /\ state' = [state EXCEPT ![c] = "done"]
    /\ Writes(owner[c], Lines("result", <<c>>))
    /\ UNCHANGED <<loop, run, modes, agent, made, owner, reading, stream, handlerVars, answers, grantedBy>>

\* It exits with code 0 when it waits for no answer, and the stream ends after its last line;
\* or it fails, or an abort or a switch kills it, and the stream fails at once.
Exit(r, clean) ==
    /\ agent[r] = "alive"
    /\ clean => \A c \in Calls : owner[c] = r => state[c] = "done"
    /\ agent' = [agent EXCEPT ![r] = "gone"]
    /\ IF r = run /\ loop = "agent" /\ ~clean
       THEN loop' = "flushing" /\ stream' = <<>>
       ELSE UNCHANGED <<loop, stream>>
    /\ UNCHANGED <<run, modes, made, owner, state, stdout, reading, handlerVars, answers, grantedBy>>

-----------------------------------------------------------------------------
(* Query and the PermissionHandler. *)

\* The requests of these calls are answered, and Query reads on.
Answered(calls, result) ==
    /\ state' = [c \in Calls |-> IF c \in calls /\ agent[owner[c]] = "alive" THEN result ELSE state[c]]
    /\ reading' = [r \in Runs |-> IF reading[r].call \in calls THEN Nothing ELSE reading[r]]

\* (mutant of Matching) the input is not compared.
MatchingAny(kind) == DOMAIN toolCalls

\* The calls that a request for this tool and input may be for.
Matching(kind) == {i \in DOMAIN toolCalls : Kind[toolCalls[i].id] = kind}

\* resolveToolCallId: the last call of this kind, unless it is used.
Found(kind) ==
    LET last == {i \in Matching(kind) : \A j \in Matching(kind) : j <= i}
    IN  {i \in last : ~toolCalls[i].used}

\* handlePermissionRequest for the call that was found.
Register(r, c, i) ==
    LET id == toolCalls[i].id IN
    /\ toolCalls' = [toolCalls EXCEPT ![i].used = TRUE]
    /\ pending' = pending \cup {[id |-> id, call |-> c]}
    /\ reading' = [reading EXCEPT ![r] = [call |-> c, delayed |-> FALSE]]
    /\ UNCHANGED <<state, denied, free, allowed>>

\* handleToolCall: rules answer at once; a call that is not known yet is looked up again a second later.
HandleToolCall(r, c) ==
    IF free \/ Kind[c] \in allowed
    THEN Answered({c}, "allow") /\ UNCHANGED handlerVars
    ELSE IF Found(Kind[c]) # {}
    THEN \E i \in Found(Kind[c]) : Register(r, c, i)
    ELSE /\ reading' = [reading EXCEPT ![r] = [call |-> c, delayed |-> TRUE]]
         /\ UNCHANGED <<state, handlerVars>>

\* readMessages: the next line, once the request before it is answered.
Read(r) ==
    LET line == Head(stdout[r]) IN
    /\ reading[r] = Nothing
    /\ stdout[r] # <<>>
    /\ stdout' = [stdout EXCEPT ![r] = Tail(@)]
    /\ IF line.type = "ask"
       THEN HandleToolCall(r, line.call) /\ UNCHANGED stream
       ELSE /\ stream' = IF r = run /\ loop = "agent" THEN Append(stream, line) ELSE stream
            /\ UNCHANGED <<reading, state, handlerVars>>
    /\ UNCHANGED <<loop, run, modes, agent, made, owner, answers, grantedBy>>

LookAgain(r) ==
    LET c == reading[r].call IN
    /\ reading[r].delayed
    /\ IF Found(Kind[c]) # {}
       THEN \E i \in Found(Kind[c]) : Register(r, c, i)
       ELSE Answered({c}, "error") /\ UNCHANGED handlerVars
    /\ UNCHANGED <<loop, run, modes, agent, made, owner, stdout, stream, answers, grantedBy>>

-----------------------------------------------------------------------------
(* claudeRemote and runMainLoop. *)

\* (mutant of IsAborted) a call that was settled is not looked at.
IsAbortedUnused(c) == c \in denied /\ \A i \in DOMAIN toolCalls : toolCalls[i].id = c => ~toolCalls[i].used

IsAborted(c) == c \in denied

\* onMessage: toolCalls once the line was seen.
Noted(line) ==
    IF line.type = "use"
    THEN Append(toolCalls, [id |-> line.call, used |-> FALSE])
    ELSE [i \in DOMAIN toolCalls |->
             IF toolCalls[i].id = line.call THEN [toolCalls[i] EXCEPT !.used = TRUE] ELSE toolCalls[i]]

\* A line reaches claudeRemote; the result of a denied call ends the run.
Consume ==
    LET line == Head(stream) IN
    /\ loop = "agent"
    /\ stream # <<>>
    /\ toolCalls' = Noted(line)
    /\ IF line.type = "result" /\ IsAborted(line.call)
       THEN loop' = "flushing" /\ stream' = <<>>
       ELSE stream' = Tail(stream) /\ UNCHANGED loop
    /\ UNCHANGED <<run, modes, agentVars, stdout, reading, pending, denied, free, allowed, answers, grantedBy>>

\* The agent has ended well and all its output is read: done().
StreamEnds ==
    /\ loop = "agent"
    /\ agent[run] = "gone"
    /\ stdout[run] = <<>> /\ reading[run] = Nothing /\ stream = <<>>
    /\ loop' = "flushing"
    /\ UNCHANGED <<run, modes, agentVars, stdout, reading, stream, handlerVars, answers, grantedBy>>

\* (mutant of CancelPending) what waits is forgotten and hears nothing.
CancelPendingSilently ==
    /\ pending' = {}
    /\ UNCHANGED <<state, reading>>

\* Requests that wait are rejected, which Query passes on as an error.
CancelPending ==
    /\ pending' = {}
    /\ Answered({p.call : p \in pending}, "error")

\* The end of a run, with reset(): the mode stays until the next message.
EndRun ==
    /\ loop = "flushing"
    /\ loop' = "waiting"
    /\ toolCalls' = <<>> /\ denied' = {} /\ allowed' = {}
    /\ CancelPending
    /\ UNCHANGED <<run, modes, agent, made, owner, stdout, stream, free, answers, grantedBy>>

\* nextMessage: a message starts the next agent; one that ended the run before it leaves
\* modeHash unset.
Begin(mode, held) ==
    /\ loop = "waiting"
    /\ run < MaxRuns
    /\ held => run > 0
    /\ loop' = "agent"
    /\ run' = run + 1
    /\ agent' = [agent EXCEPT ![run + 1] = "alive"]
    /\ modes' = (IF held THEN BOOLEAN ELSE {mode})
    /\ free' = mode
    /\ UNCHANGED <<made, owner, state, stdout, reading, stream, toolCalls, pending, denied, allowed, answers, grantedBy>>

\* nextMessage, later in the run.
Message(mode) ==
    /\ loop = "agent"
    /\ mode \in modes
    /\ modes' = {mode}
    /\ free' = mode
    /\ UNCHANGED <<loop, run, agentVars, stdout, reading, stream, toolCalls, pending, denied, allowed, answers, grantedBy>>

-----------------------------------------------------------------------------
(* Users.  The agentState they see is updated in the order of these steps (see  *)
(* VersionedState): what they answer waits, or has waited a moment ago.         *)

\* An approval may allow the kind for good, or free the agent, or no longer.
Decide(answer) ==
    /\ \E p \in pending : p.id = answer.id
    /\ answer \notin answers
    /\ Cardinality(answers) < MaxAnswers
    /\ answers' = answers \cup {answer}
    /\ UNCHANGED <<loop, run, modes, agentVars, stdout, reading, stream, handlerVars, grantedBy>>

\* handlePermissionResponse.  An approval may set another mode (a denial has none: the hub
\* sends none with it).
Respond(answer, calls) ==
    LET grants == answer.verdict # "deny" IN
    /\ Answered(calls, IF grants THEN "allow" ELSE "deny")
    /\ denied' = IF calls # {} /\ ~grants THEN denied \cup {answer.id} ELSE denied
    /\ free' = IF calls # {} /\ answer.verdict \in {"free", "strict"} THEN answer.verdict = "free" ELSE free
    /\ allowed' = IF calls # {} /\ answer.verdict = "always" THEN allowed \cup {Kind[answer.id]} ELSE allowed
    /\ grantedBy' = [c \in Calls |-> IF c \in calls /\ grants THEN answer.id ELSE grantedBy[c]]

\* The RPC 'permission'.  An answer to what does not wait any more changes nothing.
Receive(answer) ==
    LET waiting == {p \in pending : p.id = answer.id} IN
    /\ answers' = answers \ {answer}
    /\ pending' = pending \ waiting
    /\ Respond(answer, {p.call : p \in waiting})
    /\ UNCHANGED <<loop, run, modes, agent, made, owner, stdout, stream, toolCalls>>

-----------------------------------------------------------------------------
Answers == [id : Calls, verdict : Verdicts]

Programs ==
    \/ \E r \in Runs : Read(r) \/ LookAgain(r)
    \/ Consume \/ StreamEnds \/ EndRun
    \/ \E answer \in answers : Receive(answer)

Reports == \E c \in Calls : Result(c)

Users == \E answer \in Answers : Decide(answer)

Next ==
    \/ Programs \/ Reports \/ Users
    \/ \E r \in Runs, n \in Calls : Use(r, n)
    \/ \E r \in Runs, clean \in BOOLEAN : Exit(r, clean)
    \/ \E mode \in BOOLEAN : Message(mode) \/ \E held \in BOOLEAN : Begin(mode, held)

\* The programs go on, agents report what they were told, and users answer what they are
\* shown; agents need not ask, exit or be started again.
Fairness == WF_vars(Programs) /\ WF_vars(Reports) /\ WF_vars(Users)

Spec == Init /\ [][Next]_vars /\ Fairness

-----------------------------------------------------------------------------
(* Properties. *)

TypeOK ==
    /\ loop \in {"waiting", "agent", "flushing"}
    /\ run \in 0..MaxRuns /\ modes \subseteq BOOLEAN /\ free \in BOOLEAN
    /\ agent \in [Runs -> {"none", "alive", "gone"}]
    /\ made \in 0..MaxCalls
    /\ owner \in [Calls -> 0..MaxRuns]
    /\ state \in [Calls -> {"none", "asked", "allow", "deny", "error", "done"}]
    /\ stdout \in [Runs -> Seq([type : {"use", "ask", "result"}, call : Calls])]
    /\ reading \in [Runs -> [call : Calls \cup {None}, delayed : BOOLEAN]]
    /\ stream \in Seq([type : {"use", "result"}, call : Calls])
    /\ toolCalls \in Seq([id : Calls, used : BOOLEAN])
    /\ pending \subseteq [id : Calls, call : Calls]
    /\ denied \subseteq Calls /\ allowed \subseteq Kinds
    /\ answers \subseteq Answers
    /\ grantedBy \in [Calls -> Calls \cup {None}]

\* One approval lets one call pass, and a call for the tool and the input that the
\* user was shown, although requests do not name their call.
ApprovedOnly ==
    \A c \in Calls : grantedBy[c] # None =>
        /\ Kind[grantedBy[c]] = Kind[c]
        /\ \A d \in Calls \ {c} : grantedBy[d] # grantedBy[c]

\* After a call was denied and told so under its own id the run ends and waits for the
\* user, whatever else the agent asks and however far its messages are behind.  (A denial
\* that was recorded under the id of a like call is not covered.)
DenialEnds == \A c \in Calls : c \in denied /\ state[c] = "deny" ~> c \notin denied

\* An agent that asks gets an answer, or has ended: also one that was left behind.
EveryAskAnswered ==
    \A c \in Calls : state[c] = "asked" ~> state[c] # "asked" \/ agent[owner[c]] = "gone"
=============================================================================
