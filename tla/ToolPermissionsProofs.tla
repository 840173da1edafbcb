----------------------- MODULE ToolPermissionsProofs -----------------------
(***************************************************************************)
(* For any calls, kinds of calls, runs and answers of users: an approval   *)
(* lets one call pass, and one for the tool and the input that was shown.  *)
(***************************************************************************)
EXTENDS ToolPermissions, TLAPS

USE CallsAssumption

Line == [type : {"use", "ask", "result"}, call : Calls]
ToolCall == [id : Calls, used : BOOLEAN]

\* The calls whose first line is still on its way in these lines, each of which has one.
Coming(lines) == {lines[i].call : i \in {j \in DOMAIN lines : lines[j].type = "use"}}
Once(lines) ==
    \A i, j \in DOMAIN lines :
        lines[i].type = "use" /\ lines[j].type = "use" /\ lines[i].call = lines[j].call => i = j

\* An id that a user was asked about: it waits for the answer, or has been approved.
Spent(id) == (\E p \in pending : p.id = id) \/ (\E c \in Calls : grantedBy[c] = id)

\* The variables that no other part speaks of, and the runs that calls belong to.
Plain ==
    /\ loop \in {"waiting", "agent", "flushing"}
    /\ run \in 0..MaxRuns /\ modes \subseteq BOOLEAN /\ free \in BOOLEAN
    /\ agent \in [Runs -> {"none", "alive", "gone"}]
    /\ made \in 0..MaxCalls
    /\ owner \in [Calls -> 0..MaxRuns]
    /\ \A c \in Calls : c <= made => owner[c] \in Runs
    /\ denied \subseteq Calls /\ allowed \subseteq Kinds
    /\ answers \subseteq Answers

\* Only a call that was made has a state, and Query stands at one.
Standing ==
    /\ state \in [Calls -> {"none", "asked", "allow", "deny", "error", "done"}]
    /\ \A c \in Calls : state[c] # "none" => c <= made
    /\ reading \in [Runs -> [call : Calls \cup {None}, delayed : BOOLEAN]]
    /\ \A r \in Runs : reading[r].call <= made /\ (reading[r].delayed => reading[r].call # None)

\* Lines are about calls that were made, and the line with a call comes once.
ComesOnce ==
    /\ stream \in Seq([type : {"use", "result"}, call : Calls])
    /\ \A i \in DOMAIN stream : stream[i].call <= made
    /\ Once(stream)
    /\ stdout \in [Runs -> Seq(Line)]
    /\ \A r \in Runs :
          /\ \A i \in DOMAIN stdout[r] : stdout[r][i].call <= made
          /\ Once(stdout[r])
          /\ Coming(stdout[r]) \cap Coming(stream) = {}
          /\ \A q \in Runs \ {r} : Coming(stdout[r]) \cap Coming(stdout[q]) = {}

\* The handler lists a call once, and a call that users were asked about is used.
ListedOnce ==
    /\ toolCalls \in Seq(ToolCall)
    /\ \A i \in DOMAIN toolCalls : /\ toolCalls[i].id <= made
                                   /\ Spent(toolCalls[i].id) => toolCalls[i].used
    /\ \A i, j \in DOMAIN toolCalls : toolCalls[i].id = toolCalls[j].id => i = j

\* What users see is one call of the right kind, and not approved yet.
AskedOnce ==
    /\ pending \subseteq [id : Calls, call : Calls]
    /\ grantedBy \in [Calls -> Calls \cup {None}]
    /\ \A c \in Calls : grantedBy[c] <= made
    /\ \A p \in pending :
          /\ p.id <= made /\ p.call <= made
          /\ Kind[p.id] = Kind[p.call]
          /\ \A q \in pending : q.id = p.id => q = p
          /\ \A c \in Calls : grantedBy[c] # p.id

\* A call is listed, and users are asked about it, only after its line has come.
InTransit == Coming(stream) \cup UNION {Coming(stdout[r]) : r \in Runs}
Listed == {toolCalls[i].id : i \in DOMAIN toolCalls}
ListedLater == \A c \in InTransit : ~Spent(c) /\ c \notin Listed

Inv ==
    /\ Plain
    /\ Standing
    /\ ComesOnce
    /\ ListedOnce
    /\ AskedOnce
    /\ ListedLater
    /\ ApprovedOnly

-----------------------------------------------------------------------------
(* Sequences of lines and of calls. *)

LEMMA Replaced ==
    ASSUME NEW S, NEW s \in Seq(S), NEW t, DOMAIN t = DOMAIN s, t = [i \in DOMAIN s |-> t[i]],
           \A i \in DOMAIN s : t[i] \in S
    PROVE  t \in Seq(S)
<1>1. DOMAIN s = 1..Len(s) /\ Len(s) \in Nat
  OBVIOUS
<1>2. t \in [1..Len(s) -> S]
  BY <1>1
<1> QED  BY <1>1, <1>2

LEMMA Numbers ==
    /\ MaxCalls \in Nat /\ MaxRuns \in Nat
    /\ Calls = 1..MaxCalls /\ Runs = 1..MaxRuns /\ None = 0
BY DEF Calls, Runs, None

LEMMA Elements ==
    ASSUME NEW S, NEW s \in Seq(S)
    PROVE  /\ \A i \in DOMAIN s : s[i] \in S
           /\ s = [i \in DOMAIN s |-> s[i]] /\ DOMAIN s = 1..Len(s) /\ Len(s) \in Nat
OBVIOUS

LEMMA LineAt ==
    ASSUME NEW s \in Seq(Line), NEW i \in DOMAIN s
    PROVE  s[i] \in Line /\ s[i].call \in Calls /\ s[i].call \in Nat
<1>1. s[i] \in Line
  OBVIOUS
<1> QED  BY <1>1, Numbers DEF Line

LEMMA StreamLines ==
    ASSUME NEW s \in Seq([type : {"use", "result"}, call : Calls])
    PROVE  s \in Seq(Line) /\ \A i \in DOMAIN s : s[i].type \in {"use", "result"}
<1>1. \A i \in DOMAIN s : s[i] \in [type : {"use", "result"}, call : Calls]
  BY Elements
<1>2. \A i \in DOMAIN s : s[i] \in Line
  BY <1>1 DEF Line
<1>3. s = [i \in DOMAIN s |-> s[i]] /\ DOMAIN s = 1..Len(s) /\ Len(s) \in Nat
  BY Elements
<1>4. s \in [1..Len(s) -> Line]
  BY <1>2, <1>3
<1> QED  BY <1>1, <1>3, <1>4

LEMMA HeadAndTail ==
    ASSUME NEW s \in Seq(Line), s # <<>>
    PROVE  /\ Tail(s) \in Seq(Line) /\ Head(s) \in Line
           /\ Head(s) = s[1] /\ 1 \in DOMAIN s
           /\ \A i \in DOMAIN Tail(s) : i + 1 \in DOMAIN s /\ Tail(s)[i] = s[i + 1]
           /\ Coming(Tail(s)) \subseteq Coming(s)
           /\ Once(s) => Once(Tail(s))
           /\ Head(s).type = "use" => /\ Head(s).call \in Coming(s)
                                      /\ Once(s) => Head(s).call \notin Coming(Tail(s))
<1>1. /\ Tail(s) \in Seq(Line) /\ Head(s) = s[1] /\ 1 \in DOMAIN s
      /\ \A i \in DOMAIN Tail(s) : i \in Nat \ {0} /\ i + 1 \in DOMAIN s /\ Tail(s)[i] = s[i + 1]
  OBVIOUS
<1>2. Head(s) \in Line
  OBVIOUS
<1>3. Coming(Tail(s)) \subseteq Coming(s)
  BY <1>1 DEF Coming
<1>4. Once(s) => Once(Tail(s))
  BY <1>1 DEF Once
<1>5. ASSUME Head(s).type = "use"
      PROVE  /\ Head(s).call \in Coming(s)
             /\ Once(s) => Head(s).call \notin Coming(Tail(s))
  BY <1>1, <1>5 DEF Once, Coming
<1> QED  BY <1>1, <1>2, <1>3, <1>4, <1>5

LEMMA AppendLine ==
    ASSUME NEW s \in Seq(Line), NEW l \in Line
    PROVE  /\ \A i \in DOMAIN Append(s, l) : \/ i \in DOMAIN s /\ Append(s, l)[i] = s[i]
                                             \/ i = Len(s) + 1 /\ Append(s, l)[i] = l
           /\ l.type = "use" => Coming(Append(s, l)) \subseteq Coming(s) \cup {l.call}
           /\ l.type # "use" => Coming(Append(s, l)) \subseteq Coming(s)
           /\ Once(s) /\ (l.type = "use" => l.call \notin Coming(s)) => Once(Append(s, l))
<1>1. /\ \A i \in DOMAIN Append(s, l) : \/ i \in DOMAIN s /\ Append(s, l)[i] = s[i]
                                        \/ i = Len(s) + 1 /\ Append(s, l)[i] = l
  OBVIOUS
<1>2. Coming(Append(s, l)) \subseteq Coming(s) \cup {l.call}
  BY <1>1 DEF Coming
<1>3. l.type # "use" => Coming(Append(s, l)) \subseteq Coming(s)
  BY <1>1 DEF Coming
<1>4. Once(s) /\ (l.type = "use" => l.call \notin Coming(s)) => Once(Append(s, l))
  BY <1>1 DEF Once, Coming
<1> QED  BY <1>1, <1>2, <1>3, <1>4

LEMMA JoinLines ==
    ASSUME NEW s \in Seq(Line), NEW t \in Seq(Line)
    PROVE  /\ s \o t \in Seq(Line)
           /\ \A i \in DOMAIN (s \o t) : \/ i \in DOMAIN s /\ (s \o t)[i] = s[i]
                                         \/ i - Len(s) \in DOMAIN t /\ (s \o t)[i] = t[i - Len(s)]
           /\ Coming(s \o t) \subseteq Coming(s) \cup Coming(t)
           /\ Once(s) /\ Once(t) /\ Coming(s) \cap Coming(t) = {} => Once(s \o t)
<1>1. /\ s \o t \in Seq(Line)
      /\ \A i \in DOMAIN (s \o t) : i \in Nat /\ \/ i \in DOMAIN s /\ (s \o t)[i] = s[i]
                                                 \/ i - Len(s) \in DOMAIN t /\ (s \o t)[i] = t[i - Len(s)]
  OBVIOUS
<1>2. Coming(s \o t) \subseteq Coming(s) \cup Coming(t)
  BY <1>1 DEF Coming
<1>3. ASSUME Once(s), Once(t), Coming(s) \cap Coming(t) = {}
      PROVE  Once(s \o t)
  <2> SUFFICES ASSUME NEW i \in DOMAIN (s \o t), NEW j \in DOMAIN (s \o t),
                      (s \o t)[i].type = "use", (s \o t)[j].type = "use",
                      (s \o t)[i].call = (s \o t)[j].call
               PROVE  i = j
    BY DEF Once
  <2>1. CASE i \in DOMAIN s /\ (s \o t)[i] = s[i] /\ j \in DOMAIN s /\ (s \o t)[j] = s[j]
    BY <1>3, <2>1 DEF Once
  <2>2. CASE /\ i - Len(s) \in DOMAIN t /\ (s \o t)[i] = t[i - Len(s)]
             /\ j - Len(s) \in DOMAIN t /\ (s \o t)[j] = t[j - Len(s)]
    <3>1. i - Len(s) = j - Len(s)
      BY <1>3, <2>2 DEF Once
    <3> QED  BY <1>1, <3>1
  <2>3. ASSUME NEW a \in DOMAIN s, NEW b \in DOMAIN t, s[a].type = "use", t[b].type = "use"
        PROVE  s[a].call # t[b].call
    BY <1>3, <2>3 DEF Coming
  <2> QED  BY <1>1, <2>1, <2>2, <2>3
<1> QED  BY <1>1, <1>2, <1>3

LEMMA NewLines ==
    ASSUME NEW type \in {"use", "ask", "result"}, NEW n \in Nat, NEW m \in Nat,
           NEW calls \in [1..n -> Calls], \A i \in 1..n : calls[i] = m + i
    PROVE  /\ Lines(type, calls) \in Seq(Line) /\ Once(Lines(type, calls))
           /\ \A i \in DOMAIN Lines(type, calls) : Lines(type, calls)[i].call \in (m + 1)..(m + n)
           /\ Coming(Lines(type, calls)) \subseteq (m + 1)..(m + n)
           /\ type # "use" => Coming(Lines(type, calls)) = {}
<1> DEFINE s == Lines(type, calls)
<1>1. /\ DOMAIN s = 1..n
      /\ \A i \in 1..n : s[i] = [type |-> type, call |-> m + i] /\ s[i] \in Line
  BY DEF Lines, Line
<1>2. s \in [1..n -> Line]
  BY <1>1 DEF Lines
<1>3. s \in Seq(Line)
  BY <1>2
<1> QED  BY <1>1, <1>3 DEF Once, Coming

-----------------------------------------------------------------------------
(* The parts of the invariant under the parts of the actions. *)

LEMMA Typed ==
    ASSUME Inv
    PROVE  TypeOK
BY DEF Inv, Plain, Standing, ComesOnce, ListedOnce, AskedOnce, TypeOK, Line, ToolCall

LEMMA Init_Inv ==
    ASSUME Init
    PROVE  Inv
<1>1. MaxCalls \in Nat /\ MaxRuns \in Nat
  OBVIOUS
<1>2. Plain /\ Standing
  <2>1. Plain
    <3>1. /\ loop = "waiting" /\ run = 0 /\ made = 0 /\ modes = {FALSE} /\ free = FALSE
          /\ agent \in [Runs -> {"none"}] /\ owner \in [Calls -> {0}]
          /\ denied = {} /\ allowed = {} /\ answers = {}
      BY DEF Init
    <3>2. 0 \in 0..MaxRuns /\ 0 \in 0..MaxCalls /\ \A c \in Calls : ~(c <= 0)
      BY <1>1 DEF Calls
    <3> QED  BY <3>1, <3>2 DEF Plain
  <2>2. Standing
    BY <1>1 DEF Init, Standing, Nothing, None
  <2> QED  BY <2>1, <2>2
<1>3. AskedOnce /\ ListedOnce /\ ApprovedOnly
  BY <1>1 DEF Init, AskedOnce, ListedOnce, ApprovedOnly, None
<1>4. ComesOnce /\ InTransit = {}
  BY DEF Init, ComesOnce, Coming, Once, InTransit
<1> QED  BY <1>2, <1>3, <1>4 DEF Inv, ListedLater

\* Answers reach agents that live, and Query does not stand at what is answered.
LEMMA Answered_Standing ==
    ASSUME Standing, NEW calls \in SUBSET Calls, \A c \in calls : c <= made,
           NEW result \in {"allow", "deny", "error"}, Answered(calls, result), made \in Nat, made' = made
    PROVE  Standing'
<1>1. \A c \in Calls : state'[c] \in {state[c], result} /\ (state'[c] # state[c] => c \in calls)
  BY DEF Answered
<1>2. state' \in [Calls -> {"none", "asked", "allow", "deny", "error", "done"}]
  BY DEF Standing, Answered
<1>3. \A r \in Runs : reading'[r] \in {reading[r], Nothing}
  BY DEF Answered
<1>4. reading' \in [Runs -> [call : Calls \cup {None}, delayed : BOOLEAN]]
  BY DEF Standing, Answered, Nothing
<1>5. \A r \in Runs : reading'[r].call <= made /\ (reading'[r].delayed => reading'[r].call # None)
  <2> SUFFICES ASSUME NEW r \in Runs
               PROVE  reading'[r].call <= made /\ (reading'[r].delayed => reading'[r].call # None)
    OBVIOUS
  <2>1. CASE reading'[r] = reading[r]
    BY <2>1 DEF Standing
  <2>2. CASE reading'[r] = Nothing
    BY <2>2 DEF Nothing, None
  <2> QED  BY <1>3, <2>1, <2>2
<1> QED  BY <1>1, <1>2, <1>4, <1>5 DEF Standing

\* Fewer lines, more spent and listed calls only among those that have come.
LEMMA LaterKept ==
    ASSUME ListedLater, InTransit' \subseteq InTransit, Listed' \subseteq Listed,
           \A c \in InTransit : Spent(c)' => Spent(c) \/ c \in Listed
    PROVE  ListedLater'
BY DEF ListedLater

LEMMA SameHandler ==
    ASSUME UNCHANGED <<toolCalls, pending, grantedBy, made>>
    PROVE  /\ AskedOnce => AskedOnce'
           /\ ListedOnce => ListedOnce'
           /\ Listed' = Listed /\ \A c : Spent(c)' = Spent(c)
           /\ ApprovedOnly => ApprovedOnly'
BY DEF AskedOnce, ListedOnce, Listed, Spent, ApprovedOnly

LEMMA SameLines ==
    ASSUME UNCHANGED <<stdout, stream, made>>
    PROVE  /\ ComesOnce => ComesOnce'
           /\ InTransit' = InTransit
BY DEF ComesOnce, InTransit

\* The call that is found was not used, so nobody was asked about it.
LEMMA Register_Handler ==
    ASSUME Inv, NEW r \in Runs, NEW c \in Calls, c <= made, NEW i \in Found(Kind[c]), Register(r, c, i),
           UNCHANGED <<made, grantedBy>>
    PROVE  /\ AskedOnce' /\ ListedOnce' /\ Standing'
           /\ Listed' = Listed /\ \A x : Spent(x)' => Spent(x) \/ x \in Listed
<1> DEFINE id == toolCalls[i].id
<1>1. /\ i \in DOMAIN toolCalls /\ ~toolCalls[i].used /\ Kind[id] = Kind[c]
      /\ toolCalls \in Seq(ToolCall)
      /\ id \in Calls /\ id <= made /\ ~Spent(id)
  <2>1. i \in Matching(Kind[c]) /\ ~toolCalls[i].used
    BY DEF Found
  <2>2. i \in DOMAIN toolCalls /\ Kind[id] = Kind[c]
    BY <2>1 DEF Matching
  <2>3. toolCalls \in Seq(ToolCall) /\ toolCalls[i] \in ToolCall
    BY <2>2 DEF Inv, ListedOnce
  <2>4. id <= made /\ ~Spent(id)
    BY <2>1, <2>2 DEF Inv, ListedOnce
  <2> QED  BY <2>1, <2>2, <2>3, <2>4 DEF ToolCall
<1>2. /\ toolCalls' = [toolCalls EXCEPT ![i].used = TRUE]
      /\ pending' = pending \cup {[id |-> id, call |-> c]}
      /\ reading' = [reading EXCEPT ![r] = [call |-> c, delayed |-> FALSE]]
      /\ state' = state
  BY DEF Register
<1>3. AskedOnce'
  BY <1>1, <1>2 DEF Inv, AskedOnce, Spent
<1>4. /\ toolCalls' \in Seq(ToolCall) /\ DOMAIN toolCalls' = DOMAIN toolCalls
      /\ \A j \in DOMAIN toolCalls : /\ toolCalls'[j].id = toolCalls[j].id
                                     /\ toolCalls'[j].used = (toolCalls[j].used \/ j = i)
  <2>1. toolCalls[i] \in ToolCall
    BY <1>1
  <2>2. [toolCalls[i] EXCEPT !.used = TRUE] \in ToolCall
    BY <2>1 DEF ToolCall
  <2>3. DOMAIN toolCalls' = DOMAIN toolCalls
        /\ \A j \in DOMAIN toolCalls : toolCalls'[j] = IF j = i THEN [toolCalls[i] EXCEPT !.used = TRUE]
                                                               ELSE toolCalls[j]
    BY <1>1, <1>2
  <2>4. \A j \in DOMAIN toolCalls : toolCalls[j] \in ToolCall
    BY <1>1
  <2>5. toolCalls' \in Seq(ToolCall)
    <3>1. toolCalls' = [j \in DOMAIN toolCalls |-> toolCalls'[j]]
      BY <1>2
    <3>2. \A j \in DOMAIN toolCalls : toolCalls'[j] \in ToolCall
      BY <2>2, <2>3, <2>4
    <3> QED  BY <1>1, <2>3, <3>1, <3>2, Replaced
  <2> QED  BY <2>3, <2>4, <2>5 DEF ToolCall
<1>5. Listed' = Listed
  BY <1>4 DEF Listed
<1>6. \A x : Spent(x)' => Spent(x) \/ x = id
  BY <1>2 DEF Spent
<1>7. ListedOnce'
  BY <1>1, <1>4, <1>6 DEF Inv, ListedOnce
<1>8. Standing'
  BY <1>2 DEF Inv, Standing, None
<1>9. id \in Listed
  BY <1>1 DEF Listed
<1> QED  BY <1>3, <1>5, <1>6, <1>7, <1>8, <1>9

-----------------------------------------------------------------------------
(* The actions. *)

\* More lines at the end of what an agent wrote, of which those with a call are new.
LEMMA Writes_ComesOnce ==
    ASSUME ComesOnce, made \in Nat, made' \in Nat, made <= made', NEW r \in Runs, NEW lines \in Seq(Line), Once(lines),
           Writes(r, lines), \A i \in DOMAIN lines : lines[i].call <= made',
           Coming(lines) \cap InTransit = {}, stream' = stream
    PROVE  ComesOnce' /\ InTransit' \subseteq InTransit \cup Coming(lines)
<1> DEFINE s == stdout[r]
<1>1. s \in Seq(Line) /\ Once(s) /\ Coming(s) \subseteq InTransit
  BY DEF ComesOnce, InTransit
<1>2. /\ s \o lines \in Seq(Line)
      /\ \A i \in DOMAIN (s \o lines) : \/ i \in DOMAIN s /\ (s \o lines)[i] = s[i]
                                        \/ i - Len(s) \in DOMAIN lines /\ (s \o lines)[i] = lines[i - Len(s)]
      /\ Coming(s \o lines) \subseteq Coming(s) \cup Coming(lines)
      /\ Once(s \o lines)
  BY <1>1, JoinLines
<1>3. /\ stdout' \in [Runs -> Seq(Line)]
      /\ stdout'[r] = s \o lines
      /\ \A q \in Runs \ {r} : stdout'[q] = stdout[q]
  BY <1>2 DEF Writes, ComesOnce
<1>4. \A i \in DOMAIN s : s[i].call <= made'
  <2>1. \A i \in DOMAIN s : s[i].call <= made /\ s[i].call \in Nat
    BY <1>1, LineAt DEF ComesOnce
  <2> QED  BY <2>1
<1>5. \A q \in Runs : Coming(stdout[q]) \subseteq InTransit
  BY DEF InTransit
<1>6. Coming(stream) \subseteq InTransit
  BY DEF InTransit
<1>7. \A i \in DOMAIN (s \o lines) : (s \o lines)[i].call <= made'
  BY <1>2, <1>4
<1> HIDE DEF s
<1>8. \A q \in Runs : /\ \A i \in DOMAIN stdout'[q] : stdout'[q][i].call <= made'
                      /\ Once(stdout'[q])
  <2> SUFFICES ASSUME NEW q \in Runs
               PROVE  /\ \A i \in DOMAIN stdout'[q] : stdout'[q][i].call <= made'
                      /\ Once(stdout'[q])
    OBVIOUS
  <2>1. CASE q = r
    BY <1>2, <1>3, <1>7, <2>1
  <2>2. CASE q # r
    <3>1. stdout[q] \in Seq(Line) /\ \A i \in DOMAIN stdout[q] : stdout[q][i].call <= made /\ stdout[q][i].call \in Nat
      BY LineAt DEF ComesOnce
    <3> QED  BY <1>3, <2>2, <3>1 DEF ComesOnce
  <2> QED  BY <2>1, <2>2
<1>9. \A i \in DOMAIN stream : stream[i].call <= made'
  <2>1. \A i \in DOMAIN stream : stream[i].call <= made /\ stream[i].call \in Nat
    BY LineAt, StreamLines DEF ComesOnce
  <2> QED  BY <2>1
<1>10. \A q \in Runs : Coming(stdout'[q]) \cap Coming(stream) = {}
  BY <1>2, <1>3, <1>5, <1>6 DEF ComesOnce, s
<1>11. \A p \in Runs : \A q \in Runs \ {p} : Coming(stdout'[p]) \cap Coming(stdout'[q]) = {}
  BY <1>2, <1>3, <1>5 DEF ComesOnce, s
<1>12. ComesOnce'
  BY <1>3, <1>8, <1>9, <1>10, <1>11 DEF ComesOnce
<1>13. InTransit' \subseteq InTransit \cup Coming(lines)
  <2>1. \A q \in Runs : Coming(stdout'[q]) \subseteq InTransit \cup Coming(lines)
    BY <1>1, <1>2, <1>3, <1>5 DEF s
  <2> QED  BY <1>6, <2>1 DEF InTransit
<1> QED  BY <1>12, <1>13

\* Query takes the first line of what an agent wrote, and may pass it on.
LEMMA Read_ComesOnce ==
    ASSUME ComesOnce, made \in Nat, made' = made, NEW r \in Runs, stdout[r] # <<>>,
           stdout' = [stdout EXCEPT ![r] = Tail(@)],
           \/ stream' = stream
           \/ Head(stdout[r]).type # "ask" /\ stream' = Append(stream, Head(stdout[r]))
    PROVE  ComesOnce' /\ InTransit' \subseteq InTransit
<1> DEFINE s == stdout[r]
           l == Head(s)
<1>1. s \in Seq(Line) /\ Once(s) /\ s # <<>> /\ \A i \in DOMAIN s : s[i].call <= made
  BY DEF ComesOnce
<1>2. /\ Tail(s) \in Seq(Line) /\ l \in Line /\ l = s[1] /\ 1 \in DOMAIN s
      /\ \A i \in DOMAIN Tail(s) : i + 1 \in DOMAIN s /\ Tail(s)[i] = s[i + 1]
      /\ Coming(Tail(s)) \subseteq Coming(s) /\ Once(Tail(s))
      /\ l.type = "use" => l.call \in Coming(s) /\ l.call \notin Coming(Tail(s))
  BY <1>1, HeadAndTail
<1>3. stdout'[r] = Tail(s) /\ \A q \in Runs \ {r} : stdout'[q] = stdout[q]
  BY DEF ComesOnce
<1>4. stdout' \in [Runs -> Seq(Line)]
  BY <1>2 DEF ComesOnce
<1>5. stream \in Seq(Line) /\ Once(stream) /\ Coming(s) \cap Coming(stream) = {}
      /\ \A q \in Runs \ {r} : Coming(stdout[q]) \cap Coming(s) = {} /\ Coming(stdout[q]) \cap Coming(stream) = {}
  BY StreamLines DEF ComesOnce
<1>6. \A q \in Runs : /\ \A i \in DOMAIN stdout'[q] : stdout'[q][i].call <= made
                      /\ Once(stdout'[q])
                      /\ Coming(stdout'[q]) \subseteq Coming(stdout[q])
  <2>1. \A i \in DOMAIN Tail(s) : Tail(s)[i].call <= made
    BY <1>1, <1>2
  <2> HIDE DEF s, l
  <2>2. \A q \in Runs \ {r} : Once(stdout[q]) /\ \A i \in DOMAIN stdout[q] : stdout[q][i].call <= made
    BY DEF ComesOnce
  <2> QED  BY <1>2, <1>3, <2>1, <2>2 DEF s
<1>7. \A p \in Runs : \A q \in Runs \ {p} : Coming(stdout'[p]) \cap Coming(stdout'[q]) = {}
  BY <1>6 DEF ComesOnce
<1>8. CASE stream' = stream
  <2>1. ComesOnce'
    BY <1>4, <1>6, <1>7, <1>8 DEF ComesOnce
  <2> QED  BY <1>6, <1>8, <2>1 DEF InTransit
<1>9. CASE l.type # "ask" /\ stream' = Append(stream, l)
  <2> HIDE DEF s, l
  <2>0. l.type = "use" => l.call \notin Coming(stream)
    BY <1>2, <1>5
  <2>1. /\ \A i \in DOMAIN Append(stream, l) : \/ i \in DOMAIN stream /\ Append(stream, l)[i] = stream[i]
                                               \/ i = Len(stream) + 1 /\ Append(stream, l)[i] = l
        /\ l.type = "use" => Coming(Append(stream, l)) \subseteq Coming(stream) \cup {l.call}
        /\ l.type # "use" => Coming(Append(stream, l)) \subseteq Coming(stream)
        /\ Once(Append(stream, l))
    <3>1. stream \in Seq(Line) /\ l \in Line /\ Once(stream)
      BY <1>2, <1>5
    <3> QED  BY <3>1, <2>0, AppendLine
  <2>2. l \in [type : {"use", "result"}, call : Calls]
    BY <1>2, <1>9 DEF Line
  <2>3. stream' \in Seq([type : {"use", "result"}, call : Calls])
    BY <1>9, <2>2 DEF ComesOnce
  <2>4. \A i \in DOMAIN stream' : stream'[i].call <= made
    BY <1>1, <1>2, <1>9, <2>1 DEF ComesOnce
  <2>5. Coming(stream') \subseteq Coming(stream) \cup Coming(s)
    BY <1>2, <1>9, <2>1
  <2>6. \A q \in Runs : Coming(stdout'[q]) \cap Coming(stream') = {}
    <3>1. Coming(Tail(s)) \cap Coming(stream') = {}
      BY <1>2, <1>5, <1>9, <2>1
    <3>2. \A q \in Runs \ {r} : Coming(stdout[q]) \cap Coming(stream') = {}
      BY <1>5, <2>5
    <3> QED  BY <1>3, <3>1, <3>2
  <2>7. ComesOnce'
    BY <1>4, <1>6, <1>7, <1>9, <2>1, <2>3, <2>4, <2>6 DEF ComesOnce
  <2> QED  BY <1>6, <2>5, <2>7 DEF InTransit, s
<1> QED  BY <1>8, <1>9

\* claudeRemote takes the first line of its stream, or drops them all.
LEMMA Shorter_ComesOnce ==
    ASSUME ComesOnce, UNCHANGED <<made, stdout>>, stream' = <<>> \/ (stream # <<>> /\ stream' = Tail(stream))
    PROVE  ComesOnce' /\ InTransit' \subseteq InTransit
<1> DEFINE T == [type : {"use", "result"}, call : Calls]
<1>1. CASE stream' = <<>>
  <2>1. Coming(stream') = {} /\ Once(stream') /\ stream' \in Seq(T) /\ DOMAIN stream' = {}
    BY <1>1 DEF Coming, Once
  <2>2. ComesOnce'
    BY <2>1 DEF ComesOnce
  <2> QED  BY <2>1, <2>2 DEF InTransit
<1>2. CASE stream # <<>> /\ stream' = Tail(stream)
  <2>1. stream \in Seq(T) /\ stream \in Seq(Line)
    BY StreamLines DEF ComesOnce
  <2>2. stream' \in Seq(T)
    BY <1>2, <2>1
  <2>3. /\ \A i \in DOMAIN stream' : i + 1 \in DOMAIN stream /\ stream'[i] = stream[i + 1]
        /\ Coming(stream') \subseteq Coming(stream)
        /\ Once(stream) => Once(stream')
    BY <1>2, <2>1, HeadAndTail
  <2> HIDE DEF T
  <2>4. ComesOnce'
    BY <2>2, <2>3 DEF ComesOnce, T
  <2> QED  BY <2>3, <2>4 DEF InTransit
<1> QED  BY <1>1, <1>2

LEMMA InTransitMade ==
    ASSUME ComesOnce
    PROVE  \A x \in InTransit : x \in Calls /\ x \in Nat /\ x <= made
<1>1. \A x \in Coming(stream) : x \in Calls /\ x \in Nat /\ x <= made
  <2>1. stream \in Seq(Line) /\ \A i \in DOMAIN stream : stream[i].call <= made
    BY StreamLines DEF ComesOnce
  <2> QED  BY <2>1, LineAt DEF Coming
<1>2. ASSUME NEW r \in Runs
      PROVE  \A x \in Coming(stdout[r]) : x \in Calls /\ x \in Nat /\ x <= made
  BY LineAt DEF ComesOnce, Coming
<1> QED  BY <1>1, <1>2 DEF InTransit

LEMMA Use_Inv ==
    ASSUME Inv, NEW r \in Runs, NEW n \in Calls, Use(r, n)
    PROVE  Inv'
<1> DEFINE calls == [i \in 1..n |-> made + i]
           use == Lines("use", calls)
           ask == Lines("ask", calls)
<1>1. made \in Nat /\ n \in Nat /\ made + n <= MaxCalls /\ made' = made + n /\ agent[r] = "alive"
  BY Numbers DEF Use, Inv, Plain
<1>2. \A i \in 1..n : calls[i] = made + i /\ made + i \in Calls
  BY <1>1, Numbers
<1>3. calls \in [1..n -> Calls]
  BY <1>2
<1>4. /\ Writes(r, use \o ask)
      /\ owner' = [c \in Calls |-> IF c \in (made + 1)..(made + n) THEN r ELSE owner[c]]
      /\ state' = [c \in Calls |-> IF c \in (made + 1)..(made + n) THEN "asked" ELSE state[c]]
      /\ UNCHANGED <<loop, run, modes, agent, reading, stream, handlerVars, answers, grantedBy>>
  BY DEF Use
<1> HIDE DEF calls
<1>5. /\ use \in Seq(Line) /\ Once(use) /\ Coming(use) \subseteq (made + 1)..(made + n)
      /\ \A i \in DOMAIN use : use[i].call \in (made + 1)..(made + n)
  BY <1>1, <1>2, <1>3, NewLines
<1>6. /\ ask \in Seq(Line) /\ Once(ask) /\ Coming(ask) = {}
      /\ \A i \in DOMAIN ask : ask[i].call \in (made + 1)..(made + n)
  BY <1>1, <1>2, <1>3, NewLines
<1> HIDE DEF use, ask
<1>7. /\ use \o ask \in Seq(Line) /\ Once(use \o ask) /\ Coming(use \o ask) \subseteq (made + 1)..(made + n)
      /\ \A i \in DOMAIN (use \o ask) : (use \o ask)[i].call \in (made + 1)..(made + n)
  BY <1>5, <1>6, JoinLines
<1>8. \A x \in InTransit : x \in Nat /\ x <= made
  BY InTransitMade DEF Inv
<1>9. Coming(use \o ask) \cap InTransit = {}
  BY <1>1, <1>7, <1>8
<1>10. \A i \in DOMAIN (use \o ask) : (use \o ask)[i].call <= made'
  BY <1>1, <1>7
<1>11. ComesOnce' /\ InTransit' \subseteq InTransit \cup Coming(use \o ask)
  <2>1. made' \in Nat /\ made <= made' /\ stream' = stream
    BY <1>1, <1>4
  <2> QED  BY <1>1, <1>4, <1>7, <1>9, <1>10, <2>1, Writes_ComesOnce DEF Inv
<1>12. Plain'
  <2>1. made' \in 0..MaxCalls /\ owner' \in [Calls -> 0..MaxRuns]
    BY <1>1, <1>4, Numbers DEF Inv, Plain
  <2>2. ASSUME NEW c \in Calls, c <= made'
        PROVE  owner'[c] \in Runs
    BY <1>1, <1>4, <2>2, Numbers DEF Inv, Plain
  <2> QED  BY <1>4, <2>1, <2>2 DEF Inv, Plain, handlerVars
<1>13. Standing'
  <2>1. \A c \in Calls : state'[c] # "none" => c <= made'
    BY <1>1, <1>4, Numbers DEF Inv, Standing
  <2>2. state' \in [Calls -> {"none", "asked", "allow", "deny", "error", "done"}]
    BY <1>4 DEF Inv, Standing
  <2>3. \A q \in Runs : reading[q].call \in Nat
    BY Numbers DEF Inv, Standing
  <2>4. \A q \in Runs : reading[q].call <= made'
    BY <1>1, <2>3 DEF Inv, Standing
  <2> QED  BY <1>4, <2>1, <2>2, <2>4 DEF Inv, Standing
<1>14. UNCHANGED <<toolCalls, pending, grantedBy>>
  BY <1>4 DEF handlerVars
<1>15. AskedOnce'
  <2>1. \A p \in pending : p.id \in Nat /\ p.call \in Nat
    BY Numbers DEF Inv, AskedOnce
  <2>2. \A c \in Calls : grantedBy[c] \in Nat
    BY Numbers DEF Inv, AskedOnce
  <2> QED  BY <1>1, <1>14, <2>1, <2>2 DEF Inv, AskedOnce
<1>16. \A i \in DOMAIN toolCalls : toolCalls[i].id \in Nat
  <2>1. \A i \in DOMAIN toolCalls : toolCalls[i] \in ToolCall
    BY Elements DEF Inv, ListedOnce
  <2> QED  BY <2>1, Numbers DEF ToolCall
<1>17. ListedOnce'
  BY <1>1, <1>14, <1>16 DEF Inv, ListedOnce, Spent
<1>18. ListedLater'
  <2> SUFFICES ASSUME NEW x \in InTransit'
               PROVE  ~Spent(x) /\ x \notin Listed
    BY <1>14 DEF ListedLater, Spent, Listed
  <2>1. CASE x \in InTransit
    BY <2>1 DEF Inv, ListedLater
  <2>2. CASE x \in (made + 1)..(made + n)
    <3>1. ~(x <= made)
      BY <1>1, <2>2
    <3>2. ~Spent(x)
      BY <3>1 DEF Spent, Inv, AskedOnce
    <3>3. x \notin Listed
      BY <3>1 DEF Listed, Inv, ListedOnce
    <3> QED  BY <3>2, <3>3
  <2> QED  BY <1>7, <1>11, <2>1, <2>2
<1> QED  BY <1>11, <1>12, <1>13, <1>14, <1>15, <1>17, <1>18 DEF Inv, ApprovedOnly

LEMMA Result_Inv ==
    ASSUME Inv, NEW c \in Calls, Result(c)
    PROVE  Inv'
<1> DEFINE lines == Lines("result", <<c>>)
<1>1. /\ state[c] # "none" /\ Writes(owner[c], lines)
      /\ state' = [state EXCEPT ![c] = "done"]
      /\ UNCHANGED <<loop, run, modes, agent, made, owner, reading, stream, handlerVars, answers, grantedBy>>
  BY DEF Result
<1>2. c <= made /\ owner[c] \in Runs /\ made \in Nat /\ c \in Nat \ {0}
  BY <1>1, Numbers DEF Inv, Standing, Plain
<1>3. <<c>> \in [1..1 -> Calls] /\ (c - 1) \in Nat /\ \A i \in 1..1 : <<c>>[i] = (c - 1) + i
  BY <1>2
<1>4. /\ lines \in Seq(Line) /\ Once(lines) /\ Coming(lines) = {}
      /\ \A i \in DOMAIN lines : lines[i].call \in ((c - 1) + 1)..((c - 1) + 1)
  BY <1>3, NewLines
<1> HIDE DEF lines
<1>5. ComesOnce' /\ InTransit' \subseteq InTransit \cup Coming(lines)
  <2>1. \A i \in DOMAIN lines : lines[i].call <= made'
    BY <1>1, <1>2, <1>4
  <2>2. made' \in Nat /\ made <= made' /\ stream' = stream
    BY <1>1, <1>2
  <2> QED  BY <1>1, <1>2, <1>4, <2>1, <2>2, Writes_ComesOnce DEF Inv
<1>6. UNCHANGED <<toolCalls, pending, grantedBy, made>>
  BY <1>1 DEF handlerVars
<1>7. ListedLater'
  BY <1>4, <1>5, <1>6, SameHandler, LaterKept DEF Inv
<1>8. Plain' /\ Standing'
  BY <1>1, <1>2 DEF Inv, Plain, Standing, handlerVars
<1> QED  BY <1>5, <1>6, <1>7, <1>8, SameHandler DEF Inv

LEMMA Exit_Inv ==
    ASSUME Inv, NEW r \in Runs, NEW clean \in BOOLEAN, Exit(r, clean)
    PROVE  Inv'
<1>1. /\ agent' = [agent EXCEPT ![r] = "gone"]
      /\ \/ loop' = "flushing" /\ stream' = <<>>
         \/ UNCHANGED <<loop, stream>>
      /\ UNCHANGED <<run, modes, made, owner, state, stdout, reading, handlerVars, answers, grantedBy>>
  BY DEF Exit
<1>2. UNCHANGED <<toolCalls, pending, grantedBy, made, stdout>>
  BY <1>1 DEF handlerVars
<1>3. ComesOnce' /\ InTransit' \subseteq InTransit
  BY <1>1, <1>2, SameLines, Shorter_ComesOnce DEF Inv
<1>4. Plain' /\ Standing'
  BY <1>1 DEF Inv, Plain, Standing, handlerVars
<1> QED  BY <1>2, <1>3, <1>4, SameHandler, LaterKept DEF Inv

LEMMA Read_Inv ==
    ASSUME Inv, NEW r \in Runs, Read(r)
    PROVE  Inv'
<1> DEFINE line == Head(stdout[r])
           c == line.call
<1>1. /\ stdout[r] # <<>> /\ stdout' = [stdout EXCEPT ![r] = Tail(@)]
      /\ UNCHANGED <<loop, run, modes, agent, made, owner, answers, grantedBy>>
  BY DEF Read
<1>2. made \in Nat
  BY Numbers DEF Inv, Plain
<1>3. line \in Line /\ c \in Calls /\ c <= made
  <2>1. stdout[r] \in Seq(Line) /\ \A i \in DOMAIN stdout[r] : stdout[r][i].call <= made
    BY DEF Inv, ComesOnce
  <2>2. line \in Line /\ line = stdout[r][1] /\ 1 \in DOMAIN stdout[r]
    BY <1>1, <2>1, HeadAndTail
  <2> QED  BY <2>1, <2>2 DEF Line
<1>4. \/ stream' = stream
      \/ line.type # "ask" /\ stream' = Append(stream, line)
  BY DEF Read
<1>5. ComesOnce' /\ InTransit' \subseteq InTransit
  BY <1>1, <1>2, <1>4, Read_ComesOnce DEF Inv
<1>6. CASE UNCHANGED <<reading, state, handlerVars>>
  <2>1. UNCHANGED <<toolCalls, pending, grantedBy, made>>
    BY <1>1, <1>6 DEF handlerVars
  <2>2. Plain' /\ Standing'
    BY <1>1, <1>6 DEF Inv, Plain, Standing, handlerVars
  <2> QED  BY <1>5, <2>1, <2>2, SameHandler, LaterKept DEF Inv
<1>7. CASE HandleToolCall(r, c)
  <2> HIDE DEF c
  <2>1. CASE Answered({c}, "allow") /\ UNCHANGED handlerVars
    <3>1. UNCHANGED <<toolCalls, pending, grantedBy, made>>
      BY <1>1, <2>1 DEF handlerVars
    <3>2. Standing'
      BY <1>1, <1>2, <1>3, <2>1, Answered_Standing DEF Inv
    <3>3. Plain'
      BY <1>1, <2>1 DEF Inv, Plain, handlerVars
    <3> QED  BY <1>5, <3>1, <3>2, <3>3, SameHandler, LaterKept DEF Inv
  <2>2. CASE \E i \in Found(Kind[c]) : Register(r, c, i)
    <3>1. PICK i \in Found(Kind[c]) : Register(r, c, i)
      BY <2>2
    <3>2. /\ AskedOnce' /\ ListedOnce' /\ Standing'
          /\ Listed' = Listed /\ \A x : Spent(x)' => Spent(x) \/ x \in Listed
      BY <1>1, <1>3, <3>1, Register_Handler
    <3>3. UNCHANGED <<denied, free, allowed>>
      BY <3>1 DEF Register
    <3>4. Plain' /\ ApprovedOnly'
      BY <1>1, <3>3 DEF Inv, Plain, ApprovedOnly
    <3> QED  BY <1>5, <3>2, <3>4, LaterKept DEF Inv
  <2>3. CASE reading' = [reading EXCEPT ![r] = [call |-> c, delayed |-> TRUE]] /\ UNCHANGED <<state, handlerVars>>
    <3>1. UNCHANGED <<toolCalls, pending, grantedBy, made>>
      BY <1>1, <2>3 DEF handlerVars
    <3>2. Standing'
      BY <1>1, <1>3, <2>3, Numbers DEF Inv, Standing
    <3>3. Plain'
      BY <1>1, <2>3 DEF Inv, Plain, handlerVars
    <3> QED  BY <1>5, <3>1, <3>2, <3>3, SameHandler, LaterKept DEF Inv
  <2> QED  BY <1>7, <2>1, <2>2, <2>3 DEF HandleToolCall
<1> QED  BY <1>6, <1>7 DEF Read

LEMMA LookAgain_Inv ==
    ASSUME Inv, NEW r \in Runs, LookAgain(r)
    PROVE  Inv'
<1> DEFINE c == reading[r].call
<1>1. UNCHANGED <<loop, run, modes, agent, made, owner, stdout, stream, answers, grantedBy>>
  BY DEF LookAgain
<1>2. made \in Nat /\ c \in Calls /\ c <= made
  <2>1. reading[r].delayed
    BY DEF LookAgain
  <2> QED  BY <2>1, Numbers DEF Inv, Plain, Standing
<1>3. ComesOnce' /\ InTransit' = InTransit
  BY <1>1, SameLines DEF Inv
<1>4. CASE \E i \in Found(Kind[c]) : Register(r, c, i)
  <2>1. PICK i \in Found(Kind[c]) : Register(r, c, i)
    BY <1>4
  <2> HIDE DEF c
  <2>2. /\ AskedOnce' /\ ListedOnce' /\ Standing'
        /\ Listed' = Listed /\ \A x : Spent(x)' => Spent(x) \/ x \in Listed
    BY <1>1, <1>2, <2>1, Register_Handler
  <2>3. Plain' /\ ApprovedOnly'
    BY <1>1, <2>1 DEF Inv, Plain, ApprovedOnly, Register
  <2> QED  BY <1>3, <2>2, <2>3, LaterKept DEF Inv
<1>5. CASE Answered({c}, "error") /\ UNCHANGED handlerVars
  <2> HIDE DEF c
  <2>1. UNCHANGED <<toolCalls, pending, grantedBy, made>>
    BY <1>1, <1>5 DEF handlerVars
  <2>2. Standing'
    BY <1>1, <1>2, <1>5, Answered_Standing DEF Inv
  <2>3. Plain'
    BY <1>1, <1>5 DEF Inv, Plain, handlerVars
  <2> QED  BY <1>3, <2>1, <2>2, <2>3, SameHandler, LaterKept DEF Inv
<1> QED  BY <1>4, <1>5 DEF LookAgain

\* A call is listed when its line comes, which it does once; a result makes it used.
LEMMA Consume_Inv ==
    ASSUME Inv, Consume
    PROVE  Inv'
<1> DEFINE line == Head(stream)
           new == [id |-> line.call, used |-> FALSE]
<1>1. /\ stream # <<>> /\ loop' \in {loop, "flushing"}
      /\ UNCHANGED <<run, modes, agentVars, stdout, reading, pending, denied, free, allowed, answers, grantedBy>>
  BY DEF Consume
<1>2. /\ line \in [type : {"use", "result"}, call : Calls] /\ line.call <= made
      /\ stream \in Seq(Line) /\ line = stream[1] /\ 1 \in DOMAIN stream
  <2>1. stream \in Seq(Line) /\ \A i \in DOMAIN stream : stream[i].call <= made
    BY StreamLines DEF Inv, ComesOnce
  <2>2. line = stream[1] /\ 1 \in DOMAIN stream
    BY <1>1, <2>1, HeadAndTail
  <2>3. line \in [type : {"use", "result"}, call : Calls]
    <3>1. stream \in Seq([type : {"use", "result"}, call : Calls])
      BY DEF Inv, ComesOnce
    <3>2. \A i \in DOMAIN stream : stream[i] \in [type : {"use", "result"}, call : Calls]
      BY <3>1, Elements
    <3> QED  BY <2>2, <3>2
  <2> QED  BY <2>1, <2>2, <2>3
<1>3. UNCHANGED <<made, stdout, pending, grantedBy>>
  BY <1>1 DEF agentVars
<1>4. ComesOnce' /\ InTransit' \subseteq InTransit
  BY <1>1, <1>3, Shorter_ComesOnce DEF Inv, Consume
<1>5. \A x : Spent(x)' = Spent(x)
  BY <1>3 DEF Spent
<1>6. AskedOnce' /\ ApprovedOnly'
  BY <1>3 DEF Inv, AskedOnce, ApprovedOnly
<1>7. Plain' /\ Standing'
  BY <1>1 DEF Inv, Plain, Standing, agentVars
<1>8. toolCalls \in Seq(ToolCall) /\ \A i \in DOMAIN toolCalls : toolCalls[i] \in ToolCall
  BY Elements DEF Inv, ListedOnce
<1>9. CASE line.type = "use"
  <2>1. stream' = Tail(stream) /\ toolCalls' = Append(toolCalls, new)
    BY <1>9 DEF Consume, Noted
  <2>2. line.call \in Coming(stream) /\ line.call \notin Coming(Tail(stream))
    BY <1>1, <1>2, <1>9, HeadAndTail DEF Inv, ComesOnce
  <2>3. line.call \in InTransit /\ line.call \notin InTransit'
    BY <1>3, <2>1, <2>2 DEF InTransit, Inv, ComesOnce
  <2>4. ~Spent(line.call) /\ line.call \notin Listed
    BY <2>3 DEF Inv, ListedLater
  <2>5. new \in ToolCall
    BY <1>2 DEF ToolCall
  <2> HIDE DEF new, line
  <2>6. /\ toolCalls' \in Seq(ToolCall)
        /\ \A i \in DOMAIN toolCalls' : \/ i \in DOMAIN toolCalls /\ toolCalls'[i] = toolCalls[i]
                                        \/ i = Len(toolCalls) + 1 /\ toolCalls'[i] = new
    BY <1>8, <2>1, <2>5
  <2>7. new.id = line.call
    BY DEF new
  <2>8. ListedOnce'
    <3>1. \A i \in DOMAIN toolCalls : toolCalls[i].id # line.call /\ i # Len(toolCalls) + 1
      BY <1>8, <2>4 DEF Listed
    <3>2. \A i \in DOMAIN toolCalls' : /\ toolCalls'[i].id <= made
                                       /\ Spent(toolCalls'[i].id) => toolCalls'[i].used
      BY <1>2, <2>4, <2>6, <2>7 DEF Inv, ListedOnce
    <3>3. \A i, j \in DOMAIN toolCalls' : toolCalls'[i].id = toolCalls'[j].id => i = j
      BY <2>6, <2>7, <3>1 DEF Inv, ListedOnce
    <3> QED  BY <1>3, <1>5, <2>6, <3>2, <3>3 DEF ListedOnce
  <2>9. Listed' \subseteq Listed \cup {line.call}
    BY <2>6, <2>7 DEF Listed
  <2>10. ListedLater'
    BY <1>4, <1>5, <2>3, <2>9 DEF Inv, ListedLater
  <2> QED  BY <1>4, <1>6, <1>7, <2>8, <2>10 DEF Inv
<1>10. CASE line.type # "use"
  <2>1. /\ DOMAIN toolCalls' = DOMAIN toolCalls
        /\ toolCalls' = [i \in DOMAIN toolCalls |-> toolCalls'[i]]
        /\ \A i \in DOMAIN toolCalls :
               toolCalls'[i] \in {toolCalls[i], [toolCalls[i] EXCEPT !.used = TRUE]}
    BY <1>10 DEF Consume, Noted
  <2>2. \A i \in DOMAIN toolCalls : /\ toolCalls'[i] \in ToolCall
                                    /\ toolCalls'[i].id = toolCalls[i].id
                                    /\ toolCalls[i].used => toolCalls'[i].used
    BY <1>8, <2>1 DEF ToolCall
  <2>3. toolCalls' \in Seq(ToolCall)
    BY <1>8, <2>1, <2>2, Replaced
  <2>4. ListedOnce'
    BY <1>3, <1>5, <2>1, <2>2, <2>3 DEF Inv, ListedOnce
  <2>5. Listed' = Listed
    BY <2>1, <2>2 DEF Listed
  <2> QED  BY <1>4, <1>5, <1>6, <1>7, <2>4, <2>5, LaterKept DEF Inv
<1> QED  BY <1>9, <1>10

\* What a reset forgets is neither listed nor waiting; what was approved stays approved.
LEMMA EndRun_Inv ==
    ASSUME Inv, EndRun
    PROVE  Inv'
<1>1. /\ loop' = "waiting" /\ toolCalls' = <<>> /\ denied' = {} /\ allowed' = {} /\ pending' = {}
      /\ Answered({p.call : p \in pending}, "error")
      /\ UNCHANGED <<run, modes, agent, made, owner, stdout, stream, free, answers, grantedBy>>
  BY DEF EndRun, CancelPending
<1>2. {p.call : p \in pending} \subseteq Calls /\ \A c \in {p.call : p \in pending} : c <= made
  BY DEF Inv, AskedOnce
<1>3. made \in Nat
  BY Numbers DEF Inv, Plain
<1>4. Standing'
  BY <1>1, <1>2, <1>3, Answered_Standing DEF Inv
<1>5. Plain'
  BY <1>1 DEF Inv, Plain
<1>6. ComesOnce' /\ InTransit' = InTransit
  BY <1>1, SameLines DEF Inv
<1>7. AskedOnce' /\ ListedOnce' /\ ApprovedOnly'
  BY <1>1 DEF Inv, AskedOnce, ListedOnce, ApprovedOnly
<1>8. Listed' = {} /\ \A x : Spent(x)' => Spent(x)
  BY <1>1 DEF Listed, Spent
<1> QED  BY <1>4, <1>5, <1>6, <1>7, <1>8, LaterKept DEF Inv

\* An answer is for what waits under its id, which is one call.
LEMMA Receive_Inv ==
    ASSUME Inv, NEW answer \in answers, Receive(answer)
    PROVE  Inv'
<1> DEFINE waiting == {p \in pending : p.id = answer.id}
           calls == {p.call : p \in waiting}
           grants == answer.verdict # "deny"
           id == answer.id
<1>1. /\ answers' = answers \ {answer} /\ pending' = pending \ waiting
      /\ Answered(calls, IF grants THEN "allow" ELSE "deny")
      /\ denied' = IF calls # {} /\ ~grants THEN denied \cup {id} ELSE denied
      /\ free' = IF calls # {} /\ answer.verdict \in {"free", "strict"} THEN answer.verdict = "free" ELSE free
      /\ allowed' = IF calls # {} /\ answer.verdict = "always" THEN allowed \cup {Kind[id]} ELSE allowed
      /\ grantedBy' = [c \in Calls |-> IF c \in calls /\ grants THEN id ELSE grantedBy[c]]
      /\ UNCHANGED <<loop, run, modes, agent, made, owner, stdout, stream, toolCalls>>
  BY DEF Receive, Respond
<1>2. id \in Calls /\ Kind[id] \in Kinds
  BY Numbers DEF Inv, Plain, Answers
<1>3. calls \subseteq Calls /\ \A c \in calls : c <= made /\ id <= made /\ Kind[id] = Kind[c] /\ Spent(id)
  BY DEF Inv, AskedOnce, Spent
<1>4. \A c, d \in calls : c = d
  BY DEF Inv, AskedOnce
<1>5. calls # {} => \A d \in Calls : grantedBy[d] # id
  BY DEF Inv, AskedOnce
<1>6. \A p \in pending' : p \in pending /\ p.id # id
  BY <1>1
<1> HIDE DEF waiting, calls
<1>7. made \in Nat
  BY Numbers DEF Inv, Plain
<1>8. Standing'
  <2>1. (IF grants THEN "allow" ELSE "deny") \in {"allow", "deny", "error"}
    OBVIOUS
  <2> QED  BY <1>1, <1>3, <1>7, <2>1, Answered_Standing DEF Inv
<1>9. Plain'
  <2>1. denied' \subseteq Calls /\ allowed' \subseteq Kinds /\ answers' \subseteq Answers
    BY <1>1, <1>2 DEF Inv, Plain
  <2>2. free' \in BOOLEAN
    BY <1>1 DEF Inv, Plain
  <2> QED  BY <1>1, <2>1, <2>2 DEF Inv, Plain
<1>10. ComesOnce' /\ InTransit' = InTransit
  BY <1>1, SameLines DEF Inv
<1>11. \A c \in Calls : grantedBy'[c] = grantedBy[c] \/ (c \in calls /\ grantedBy'[c] = id)
  BY <1>1
<1>12. AskedOnce'
  <2>1. grantedBy' \in [Calls -> Calls \cup {None}]
    BY <1>1, <1>2 DEF Inv, AskedOnce
  <2>2. \A c \in Calls : grantedBy'[c] <= made
    BY <1>3, <1>11 DEF Inv, AskedOnce
  <2>3. \A p \in pending' : \A c \in Calls : grantedBy'[c] # p.id
    BY <1>6, <1>11 DEF Inv, AskedOnce
  <2> QED  BY <1>1, <1>6, <2>1, <2>2, <2>3 DEF Inv, AskedOnce
<1>13. \A x : Spent(x)' => Spent(x)
  BY <1>3, <1>6, <1>11 DEF Spent
<1>14. ListedOnce' /\ Listed' = Listed
  BY <1>1, <1>13 DEF Inv, ListedOnce, Listed
<1>15. ApprovedOnly'
  <2> SUFFICES ASSUME NEW c \in Calls, grantedBy'[c] # None
               PROVE  /\ Kind[grantedBy'[c]] = Kind[c]
                      /\ \A d \in Calls \ {c} : grantedBy'[d] # grantedBy'[c]
    BY DEF ApprovedOnly
  <2>1. CASE grantedBy'[c] = grantedBy[c]
    BY <1>5, <1>11, <2>1 DEF Inv, ApprovedOnly
  <2>2. CASE c \in calls /\ grantedBy'[c] = id
    BY <1>3, <1>4, <1>5, <1>11, <2>2
  <2> QED  BY <1>11, <2>1, <2>2
<1> QED  BY <1>8, <1>9, <1>10, <1>12, <1>13, <1>14, <1>15, LaterKept DEF Inv

\* The steps that neither list nor answer a call.
LEMMA Others_Inv ==
    ASSUME Inv,
           \/ StreamEnds
           \/ \E answer \in Answers : Decide(answer)
           \/ \E mode \in BOOLEAN : Message(mode) \/ \E held \in BOOLEAN : Begin(mode, held)
           \/ UNCHANGED vars
    PROVE  Inv'
<1>1. /\ UNCHANGED <<made, owner, state, stdout, reading, stream, toolCalls, pending, denied, allowed, grantedBy>>
  BY DEF StreamEnds, Decide, Message, Begin, agentVars, handlerVars, vars
<1>2. /\ loop' \in {"waiting", "agent", "flushing"} /\ free' \in BOOLEAN /\ modes' \subseteq BOOLEAN
      /\ answers' \subseteq Answers
  BY DEF StreamEnds, Decide, Message, Begin, agentVars, handlerVars, vars, Inv, Plain
<1>3. run' \in 0..MaxRuns /\ agent' \in [Runs -> {"none", "alive", "gone"}]
  <2>1. run' = run \/ (run < MaxRuns /\ run' = run + 1)
    BY DEF StreamEnds, Decide, Message, Begin, agentVars, handlerVars, vars
  <2>2. run' \in 0..MaxRuns
    BY <2>1, Numbers DEF Inv, Plain
  <2>3. agent' \in [Runs -> {"none", "alive", "gone"}]
    BY DEF StreamEnds, Decide, Message, Begin, agentVars, handlerVars, vars, Inv, Plain
  <2> QED  BY <2>2, <2>3
<1>4. Plain' /\ Standing'
  BY <1>1, <1>2, <1>3 DEF Inv, Plain, Standing
<1>5. ComesOnce' /\ InTransit' = InTransit
  BY <1>1, SameLines DEF Inv
<1> QED  BY <1>1, <1>4, <1>5, SameHandler, LaterKept DEF Inv

-----------------------------------------------------------------------------
(* The theorems. *)

\* The invariant that the theorems below are drawn from.
THEOREM Invariant == Spec => []Inv
<1>1. Inv /\ [Next]_vars => Inv'
  <2> SUFFICES ASSUME Inv, [Next]_vars
               PROVE  Inv'
    OBVIOUS
  <2>1. CASE Programs
    BY <2>1, Read_Inv, LookAgain_Inv, Consume_Inv, EndRun_Inv, Receive_Inv, Others_Inv DEF Programs
  <2>2. CASE Reports
    BY <2>2, Result_Inv DEF Reports
  <2>3. CASE \E r \in Runs, n \in Calls : Use(r, n)
    BY <2>3, Use_Inv
  <2>4. CASE \E r \in Runs, clean \in BOOLEAN : Exit(r, clean)
    BY <2>4, Exit_Inv
  <2>5. CASE Users \/ (\E mode \in BOOLEAN : Message(mode) \/ \E held \in BOOLEAN : Begin(mode, held))
             \/ UNCHANGED vars
    BY <2>5, Others_Inv DEF Users
  <2> QED  BY <2>1, <2>2, <2>3, <2>4, <2>5 DEF Next
<1> QED  BY Init_Inv, <1>1, PTL DEF Spec

\* Lines, calls, requests and answers are what the code takes them for.
THEOREM TypeCorrect == Spec => []TypeOK
BY Invariant, Typed, PTL

\* resolveToolCallId, which guesses by tool and input, never lets an approval pass two calls
\* or one of another kind: a call is found once, and only after the line that lists it.
THEOREM ApprovedOnlyOnce == Spec => []ApprovedOnly
<1>1. Inv => ApprovedOnly
  BY DEF Inv
<1> QED  BY <1>1, Invariant, PTL

=============================================================================
