------------------------- MODULE RpcRegistryProofs -------------------------
(***************************************************************************)
(* RpcRegistry implements RpcDirectory, keeps handlers reachable and never *)
(* sends a request to a CLI without the handler, for any methods, calls    *)
(* and number of connections.                                              *)
(***************************************************************************)
EXTENDS RpcRegistry, TLAPS

\* Nothing has happened yet on connections the CLI has not made.
NumbersOK ==
    /\ \A c \in Connections : c > current => c \notin open /\ registers[c] = <<>>
    /\ \A r \in requests : r.on <= current

\* What was or will be registered on the CLI's connection are handlers it has.
HandledOK ==
    connected =>
        /\ ToSet(registers[current]) \subseteq ToSet(handlers)
        /\ socketToMethods[current] \subseteq ToSet(handlers)

IInv == TypeOK /\ MapsAgree /\ NumbersOK /\ HandledOK /\ Reachable /\ MethodFound

-----------------------------------------------------------------------------
(* The elements of an appended sequence. *)
LEMMA AppendElements ==
    ASSUME NEW S, NEW s \in Seq(S), NEW x \in S
    PROVE  ToSet(Append(s, x)) = ToSet(s) \cup {x}
<1>1. /\ DOMAIN s = 1 .. Len(s) /\ DOMAIN Append(s, x) = 1 .. Len(s) + 1
      /\ Append(s, x)[Len(s) + 1] = x /\ Len(s) \in Nat
      /\ \A i \in 1 .. Len(s) : Append(s, x)[i] = s[i]
  OBVIOUS
<1> QED  BY <1>1 DEF ToSet

(* The elements of a sequence are its head and those of its tail. *)
LEMMA TailElements ==
    ASSUME NEW S, NEW s \in Seq(S), s # <<>>
    PROVE  ToSet(s) = {Head(s)} \cup ToSet(Tail(s))
<1>1. /\ DOMAIN s = 1 .. Len(s) /\ DOMAIN Tail(s) = 1 .. Len(s) - 1
      /\ Head(s) = s[1] /\ Len(s) \in Nat \ {0}
      /\ \A i \in 1 .. Len(s) - 1 : Tail(s)[i] = s[i + 1]
  OBVIOUS
<1>2. \A i \in 1 .. Len(s) : i = 1 \/ i - 1 \in 1 .. Len(s) - 1
  BY <1>1
<1>3. ToSet(s) \subseteq {Head(s)} \cup ToSet(Tail(s))
  <2> SUFFICES ASSUME NEW i \in 1 .. Len(s), i # 1  PROVE s[i] \in ToSet(Tail(s))
    BY <1>1 DEF ToSet
  <2>1. s[i] = Tail(s)[i - 1] /\ i - 1 \in DOMAIN Tail(s)
    BY <1>1, <1>2
  <2> QED  BY <2>1 DEF ToSet
<1>4. {Head(s)} \cup ToSet(Tail(s)) \subseteq ToSet(s)
  BY <1>1 DEF ToSet
<1> QED  BY <1>3, <1>4

LEMMA ElementsOfEmpty == ToSet(<<>>) = {}
BY DEF ToSet

-----------------------------------------------------------------------------
(* The initial states satisfy the invariant. *)
LEMMA Initially == Init => IInv
<1> SUFFICES ASSUME Init  PROVE IInv
  OBVIOUS
<1>1. TypeOK
  <2>1. <<>> \in Seq(Methods)
    OBVIOUS
  <2>2. registers \in [Connections -> Seq(Methods)] /\ handlers \in Seq(Methods)
    BY <2>1 DEF Init
  <2>3. current \in 0 .. MaxConnections /\ methodToSocket \in [Methods -> 0 .. MaxConnections]
    BY MaxConnectionsAssumption DEF Init
  <2> QED  BY <2>2, <2>3 DEF Init, TypeOK, Outcomes
<1>2. MapsAgree /\ NumbersOK /\ HandledOK /\ Reachable /\ MethodFound
  BY DEF Init, MapsAgree, NumbersOK, HandledOK, Reachable, MethodFound, Connections
<1> QED  BY <1>1, <1>2 DEF IInv

(* What a registration, the end of a socket and the rest do to the types. *)
LEMMA TypeStep == TypeOK /\ [Next]_vars => TypeOK'
<1> SUFFICES ASSUME TypeOK, [Next]_vars  PROVE TypeOK'
  OBVIOUS
<1> USE MaxConnectionsAssumption
<1>1. ASSUME NEW c \in Connections, HubRegister(c)  PROVE TypeOK'
  <2>1. Head(registers[c]) \in Methods /\ Tail(registers[c]) \in Seq(Methods) /\ c \in 0 .. MaxConnections
    BY <1>1 DEF HubRegister, TypeOK, Connections
  <2>2. methodToSocket' \in [Methods -> 0 .. MaxConnections]
    BY <1>1, <2>1 DEF HubRegister, Register, TypeOK
  <2>3. socketToMethods' \in [Connections -> SUBSET Methods] /\ registers' \in [Connections -> Seq(Methods)]
    BY <1>1, <2>1 DEF HubRegister, Register, TypeOK
  <2>4. overtaken' \subseteq Methods
    BY <1>1, <2>1 DEF HubRegister, TypeOK
  <2> QED  BY <1>1, <2>2, <2>3, <2>4 DEF HubRegister, TypeOK
<1>2. ASSUME NEW c \in Connections, HubDisconnect(c)  PROVE TypeOK'
  <2>1. registers' \in [Connections -> Seq(Methods)]
    BY <1>2 DEF HubDisconnect, TypeOK
  <2> QED  BY <1>2, <2>1 DEF HubDisconnect, UnregisterAll, TypeOK
<1>3. CASE HubRestart
  <2>1. call' \in [Calls -> Outcomes]
    BY <1>3 DEF HubRestart, TypeOK, Outcomes
  <2> QED  BY <1>3, <2>1 DEF HubRestart, TypeOK
<1>4. ASSUME NEW k \in Calls, Timeout(k)  PROVE TypeOK'
  <2>1. call' \in [Calls -> Outcomes]
    BY <1>4 DEF Timeout, TypeOK, Outcomes
  <2> QED  BY <1>4, <2>1 DEF Timeout, TypeOK, hubVars, cliVars
<1>5. ASSUME NEW k \in Calls, NEW m \in Methods, Call(k, m)  PROVE TypeOK'
  <2>1. call' \in [Calls -> Outcomes]
    BY <1>5 DEF Call, TypeOK, Outcomes
  <2>2. requests' \subseteq Request
    <3>1. Target(m) \in open => [call |-> k, method |-> m, on |-> Target(m)] \in Request
      BY DEF TypeOK, Request
    <3> QED  BY <1>5, <3>1 DEF Call, TypeOK
  <2> QED  BY <1>5, <2>1, <2>2 DEF Call, TypeOK, hubVars, cliVars
<1>6. ASSUME NEW r \in answers, HubAnswer(r)  PROVE TypeOK'
  <2>1. call' \in [Calls -> Outcomes]
    BY <1>6 DEF HubAnswer, TypeOK, Outcomes, Request
  <2> QED  BY <1>6, <2>1 DEF HubAnswer, TypeOK, hubVars, cliVars
<1>7. ASSUME NEW m \in Methods, RegisterHandler(m)  PROVE TypeOK'
  <2>1. handlers' \in Seq(Methods)
    BY <1>7 DEF RegisterHandler, TypeOK
  <2>2. registers' \in [Connections -> Seq(Methods)]
    BY <1>7 DEF RegisterHandler, Send, TypeOK, Connections
  <2> QED  BY <1>7, <2>1, <2>2 DEF RegisterHandler, TypeOK, hubVars, callVars
<1>8. CASE Connect
  <2>1. current + 1 \in Connections /\ current + 1 \in 0 .. MaxConnections
    BY <1>8 DEF Connect, TypeOK, Connections
  <2>2. registers' \in [Connections -> Seq(Methods)]
    BY <1>8, <2>1 DEF Connect, ToRegister, TypeOK
  <2> QED  BY <1>8, <2>1, <2>2 DEF Connect, TypeOK, callVars
<1>9. CASE Disconnect \/ Restart
  <2>1. handlers' \in Seq(Methods) /\ connected' = FALSE
    <3>1. <<>> \in Seq(Methods) /\ handlers \in Seq(Methods)
      BY DEF TypeOK
    <3> QED  BY <1>9, <3>1 DEF Disconnect, Restart
  <2>2. requests' \subseteq Request /\ running' \subseteq Request
    BY <1>9 DEF Disconnect, Restart, TypeOK
  <2> QED  BY <1>9, <2>1, <2>2 DEF Disconnect, Restart, TypeOK, hubVars
<1>10. ASSUME NEW r, HandleRequest(r) \/ Finish(r)  PROVE TypeOK'
  BY <1>10 DEF HandleRequest, Finish, TypeOK, hubVars, cliVars
<1>11. CASE UNCHANGED vars
  BY <1>11 DEF vars, TypeOK
<1> QED  BY <1>1, <1>2, <1>3, <1>4, <1>5, <1>6, <1>7, <1>8, <1>9, <1>10, <1>11 DEF Next, HubNext, CliNext

(* The two maps stay in agreement. *)
LEMMA MapsStep == TypeOK /\ MapsAgree /\ NumbersOK /\ [Next]_vars => MapsAgree'
<1> SUFFICES ASSUME TypeOK, MapsAgree, NumbersOK, [Next]_vars  PROVE MapsAgree'
  OBVIOUS
<1> USE MaxConnectionsAssumption
<1>1. ASSUME NEW c \in Connections, HubRegister(c)  PROVE MapsAgree'
  <2>1. Head(registers[c]) \in Methods
    BY <1>1 DEF HubRegister, TypeOK
  <2> DEFINE h == Head(registers[c])
  <2>2. /\ methodToSocket' = [methodToSocket EXCEPT ![h] = c]
        /\ socketToMethods' = [socketToMethods EXCEPT ![c] = @ \cup {h}]
        /\ open' = open /\ call' = call /\ c \in open
    BY <1>1 DEF HubRegister, Register
  <2> HIDE DEF h
  <2>3. \A m \in Methods : methodToSocket'[m] # 0 =>
            methodToSocket'[m] \in open' /\ m \in socketToMethods'[methodToSocket'[m]]
    <3> SUFFICES ASSUME NEW m \in Methods, methodToSocket'[m] # 0
                 PROVE  methodToSocket'[m] \in open' /\ m \in socketToMethods'[methodToSocket'[m]]
      OBVIOUS
    <3>1. CASE m = h
      BY <2>2, <3>1 DEF TypeOK
    <3>2. CASE m # h
      <4>1. methodToSocket'[m] = methodToSocket[m] /\ methodToSocket[m] \in open
            /\ m \in socketToMethods[methodToSocket[m]]
        <5>1. methodToSocket'[m] = methodToSocket[m]
          BY <2>2, <3>2 DEF TypeOK
        <5> QED  BY <5>1 DEF MapsAgree
      <4>2. \A d \in Connections : socketToMethods[d] \subseteq socketToMethods'[d]
        BY <2>2 DEF TypeOK
      <4> QED  BY <2>2, <4>1, <4>2 DEF TypeOK
    <3> QED  BY <3>1, <3>2
  <2> QED  BY <2>2, <2>3 DEF MapsAgree, TypeOK
<1>2. ASSUME NEW c \in Connections, HubDisconnect(c)  PROVE MapsAgree'
  <2>1. /\ open' = open \ {c} /\ call' = call
        /\ methodToSocket' = [m \in Methods |->
               IF m \in socketToMethods[c] /\ methodToSocket[m] = c THEN 0 ELSE methodToSocket[m]]
        /\ socketToMethods' = [socketToMethods EXCEPT ![c] = {}]
    BY <1>2 DEF HubDisconnect, UnregisterAll
  <2>2. \A m \in Methods : methodToSocket'[m] # 0 =>
            methodToSocket'[m] = methodToSocket[m] /\ methodToSocket[m] # c
    BY <2>1 DEF MapsAgree
  <2> QED  BY <2>1, <2>2 DEF MapsAgree, TypeOK
<1>3. CASE HubRestart
  BY <1>3 DEF HubRestart, MapsAgree, TypeOK
<1>4. ASSUME NEW k \in Calls, Timeout(k)  PROVE MapsAgree'
  BY <1>4 DEF Timeout, MapsAgree, TypeOK, hubVars
<1>5. ASSUME NEW k \in Calls, NEW m \in Methods, Call(k, m)  PROVE MapsAgree'
  <2>1. Target(m) = 0 \/ Target(m) \in open
    BY DEF Target, MapsAgree
  <2> QED  BY <1>5, <2>1 DEF Call, MapsAgree, TypeOK, hubVars
<1>6. ASSUME NEW r \in answers, HubAnswer(r)  PROVE MapsAgree'
  BY <1>6 DEF HubAnswer, MapsAgree, TypeOK, hubVars
<1>7. CASE Connect
  BY <1>7 DEF Connect, MapsAgree, TypeOK, callVars, Connections
<1>8. ASSUME NEW x, RegisterHandler(x) \/ HandleRequest(x) \/ Finish(x)  PROVE MapsAgree'
  BY <1>8 DEF RegisterHandler, HandleRequest, Finish, MapsAgree, hubVars, callVars
<1>9. CASE Disconnect \/ Restart \/ UNCHANGED vars
  BY <1>9 DEF Disconnect, Restart, vars, MapsAgree, hubVars
<1> QED  BY <1>1, <1>2, <1>3, <1>4, <1>5, <1>6, <1>7, <1>8, <1>9 DEF Next, HubNext, CliNext

(* Numbers of connections only grow. *)
LEMMA NumbersStep == TypeOK /\ MapsAgree /\ NumbersOK /\ [Next]_vars => NumbersOK'
<1> SUFFICES ASSUME TypeOK, MapsAgree, NumbersOK, [Next]_vars  PROVE NumbersOK'
  OBVIOUS
<1> USE MaxConnectionsAssumption
<1>1. ASSUME NEW c \in Connections, HubRegister(c)  PROVE NumbersOK'
  BY <1>1 DEF HubRegister, NumbersOK, TypeOK
<1>2. ASSUME NEW c \in Connections, HubDisconnect(c)  PROVE NumbersOK'
  BY <1>2 DEF HubDisconnect, NumbersOK, TypeOK
<1>3. CASE HubRestart
  BY <1>3 DEF HubRestart, NumbersOK
<1>4. ASSUME NEW k \in Calls, NEW m \in Methods, Call(k, m)  PROVE NumbersOK'
  <2>1. \A c \in open : c <= current
    <3> SUFFICES ASSUME NEW c \in open  PROVE c <= current
      OBVIOUS
    <3>1. c \in Connections /\ c \in Nat /\ current \in Nat
      BY DEF TypeOK, Connections
    <3>2. ~(c > current)
      BY <3>1 DEF NumbersOK
    <3> QED  BY <3>1, <3>2
  <2>2. current' = current /\ open' = open /\ registers' = registers
    BY <1>4 DEF Call, hubVars, cliVars
  <2>3. \A r \in requests' : r.on <= current
    <3>1. \A r \in requests : r.on <= current
      BY DEF NumbersOK
    <3>2. Target(m) \in open => [call |-> k, method |-> m, on |-> Target(m)].on <= current
      BY <2>1
    <3>3. \A r \in requests' :
              r \in requests \/ (Target(m) \in open /\ r = [call |-> k, method |-> m, on |-> Target(m)])
      BY <1>4 DEF Call
    <3> QED  BY <3>1, <3>2, <3>3
  <2> QED  BY <2>2, <2>3 DEF NumbersOK
<1>5. ASSUME NEW x, Timeout(x) \/ HubAnswer(x) \/ HandleRequest(x) \/ Finish(x)  PROVE NumbersOK'
  BY <1>5 DEF Timeout, HubAnswer, HandleRequest, Finish, NumbersOK, hubVars, cliVars
<1>6. ASSUME NEW m \in Methods, RegisterHandler(m)  PROVE NumbersOK'
  BY <1>6 DEF RegisterHandler, Send, NumbersOK, TypeOK, hubVars, callVars
<1>7. CASE Connect
  <2>1. \A c \in Connections : c > current + 1 => c > current /\ c # current + 1
    BY DEF TypeOK, Connections
  <2>2. \A r \in requests : r.on <= current + 1
    BY DEF NumbersOK, TypeOK, Request, Connections
  <2> QED  BY <1>7, <2>1, <2>2 DEF Connect, NumbersOK, TypeOK, callVars
<1>8. CASE Disconnect \/ Restart \/ UNCHANGED vars
  BY <1>8 DEF Disconnect, Restart, vars, NumbersOK, hubVars
<1> QED  BY <1>1, <1>2, <1>3, <1>4, <1>5, <1>6, <1>7, <1>8 DEF Next, HubNext, CliNext

(* What a step of RegisterHandler does to the handlers and to what is under way. *)
LEMMA RegisterGrows ==
    ASSUME TypeOK, NEW m \in Methods, RegisterHandler(m)
    PROVE  /\ ToSet(handlers') = ToSet(handlers) \cup {m}
           /\ connected /\ current \in open =>
                  ToSet(registers'[current]) = ToSet(registers[current]) \cup {m}
           /\ ~(connected /\ current \in open) => registers' = registers
<1>3. ASSUME connected /\ current \in open
      PROVE  ToSet(registers'[current]) = ToSet(registers[current]) \cup {m}
  <2>1. registers[current] \in Seq(Methods) /\ current \in Connections
    BY <1>3 DEF TypeOK
  <2>2. registers'[current] = Append(registers[current], m)
    BY <1>3, <2>1 DEF RegisterHandler, Send, TypeOK
  <2> QED  BY <2>1, <2>2, AppendElements
<1>4. ToSet(handlers') = ToSet(handlers) \cup {m}
  <2>1. handlers' = IF m \in ToSet(handlers) THEN handlers ELSE Append(handlers, m)
    BY DEF RegisterHandler
  <2>2. ToSet(Append(handlers, m)) = ToSet(handlers) \cup {m}
    BY AppendElements DEF TypeOK
  <2> QED  BY <2>1, <2>2
<1> QED  BY <1>3, <1>4 DEF RegisterHandler, Send

(* Only handlers of the CLI are registered on its connection. *)
LEMMA HandledStep == TypeOK /\ MapsAgree /\ NumbersOK /\ HandledOK /\ [Next]_vars => HandledOK'
<1> SUFFICES ASSUME TypeOK, MapsAgree, NumbersOK, HandledOK, [Next]_vars, connected'
             PROVE  /\ ToSet(registers'[current']) \subseteq ToSet(handlers')
                    /\ socketToMethods'[current'] \subseteq ToSet(handlers')
  BY DEF HandledOK
<1> DEFINE Goal == /\ ToSet(registers'[current']) \subseteq ToSet(handlers')
                   /\ socketToMethods'[current'] \subseteq ToSet(handlers')
<1> USE MaxConnectionsAssumption, ElementsOfEmpty
<1>1. ASSUME NEW c \in Connections, HubRegister(c)  PROVE Goal
  <2>1. /\ registers[c] \in Seq(Methods) /\ registers[c] # <<>>
        /\ registers' = [registers EXCEPT ![c] = Tail(@)]
        /\ socketToMethods' = [socketToMethods EXCEPT ![c] = @ \cup {Head(registers[c])}]
        /\ handlers' = handlers /\ connected /\ current' = current
    BY <1>1 DEF HubRegister, Register, TypeOK
  <2>2. ToSet(registers[c]) = {Head(registers[c])} \cup ToSet(Tail(registers[c]))
    BY <2>1, TailElements
  <2>3. current \in Connections
    BY <2>1 DEF TypeOK, Connections
  <2>4. CASE c = current
    BY <2>1, <2>2, <2>3, <2>4 DEF HandledOK, TypeOK
  <2>5. CASE c # current
    BY <2>1, <2>3, <2>5 DEF HandledOK, TypeOK
  <2> QED  BY <2>4, <2>5
<1>2. ASSUME NEW c \in Connections, HubDisconnect(c)  PROVE Goal
  <2>1. /\ registers' = [registers EXCEPT ![c] = <<>>]
        /\ socketToMethods' = [socketToMethods EXCEPT ![c] = {}]
        /\ handlers' = handlers /\ connected /\ current' = current
    BY <1>2 DEF HubDisconnect, UnregisterAll
  <2>2. current \in Connections
    BY <2>1 DEF TypeOK, Connections
  <2> QED  BY <2>1, <2>2 DEF HandledOK, TypeOK
<1>3. CASE HubRestart
  <2>1. current \in Connections
    BY <1>3 DEF HubRestart, TypeOK, Connections
  <2> QED  BY <1>3, <2>1 DEF HubRestart
<1>4. ASSUME NEW m \in Methods, RegisterHandler(m)  PROVE Goal
  BY <1>4, RegisterGrows DEF RegisterHandler, HandledOK, hubVars
<1>5. CASE Connect
  <2>1. current + 1 \in Connections /\ current + 1 > current
    BY <1>5 DEF Connect, TypeOK, Connections
  <2>2. registers'[current'] = handlers
    BY <1>5, <2>1 DEF Connect, ToRegister, TypeOK
  <2>3. socketToMethods'[current'] = {}
    BY <1>5, <2>1 DEF Connect, NumbersOK, MapsAgree
  <2> QED  BY <1>5, <2>2, <2>3 DEF Connect
<1>6. ASSUME NEW k, NEW m, Call(k, m)  PROVE Goal
  BY <1>6 DEF Call, HandledOK, hubVars, cliVars
<1>7. ASSUME NEW x, Timeout(x) \/ HubAnswer(x) \/ HandleRequest(x) \/ Finish(x)  PROVE Goal
  BY <1>7 DEF Timeout, HubAnswer, HandleRequest, Finish, HandledOK, hubVars, cliVars
<1>8. CASE Disconnect \/ Restart
  BY <1>8 DEF Disconnect, Restart
<1>9. CASE UNCHANGED vars
  BY <1>9 DEF vars, HandledOK
<1> QED  BY <1>1, <1>2, <1>3, <1>4, <1>5, <1>6, <1>7, <1>8, <1>9 DEF Next, HubNext, CliNext

(* Handlers stay reachable. *)
LEMMA ReachableStep == TypeOK /\ MapsAgree /\ NumbersOK /\ Reachable /\ [Next]_vars => Reachable'
<1> SUFFICES ASSUME TypeOK, MapsAgree, NumbersOK, Reachable, [Next]_vars,
                    connected', current' \in open', NEW h \in ToSet(handlers')
             PROVE  \/ methodToSocket'[h] = current'
                    \/ h \in ToSet(registers'[current'])
                    \/ h \in overtaken'
  BY DEF Reachable
<1> DEFINE Goal == \/ methodToSocket'[h] = current'
                   \/ h \in ToSet(registers'[current'])
                   \/ h \in overtaken'
<1> USE MaxConnectionsAssumption
<1>0. \A m \in ToSet(handlers) : m \in Methods
  BY DEF TypeOK, ToSet
<1>1. ASSUME NEW c \in Connections, HubRegister(c)  PROVE Goal
  <2>1. /\ registers[c] \in Seq(Methods) /\ registers[c] # <<>>
        /\ registers' = [registers EXCEPT ![c] = Tail(@)]
        /\ methodToSocket' = [methodToSocket EXCEPT ![Head(registers[c])] = c]
        /\ handlers' = handlers /\ connected /\ current' = current /\ current \in open
        /\ overtaken' = IF c = current THEN overtaken \ {Head(registers[c])}
                                       ELSE overtaken \cup {Head(registers[c])}
    BY <1>1 DEF HubRegister, Register, TypeOK
  <2>2. ToSet(registers[c]) = {Head(registers[c])} \cup ToSet(Tail(registers[c]))
    BY <2>1, TailElements
  <2>3. current \in Connections /\ h \in Methods
    BY <1>0, <2>1 DEF TypeOK
  <2>4. \/ methodToSocket[h] = current
        \/ h \in ToSet(registers[current])
        \/ h \in overtaken
    BY <2>1 DEF Reachable
  <2>5. CASE h = Head(registers[c])
    BY <2>1, <2>3, <2>5 DEF TypeOK
  <2>6. CASE h # Head(registers[c])
    <3>1. methodToSocket'[h] = methodToSocket[h]
      BY <2>1, <2>3, <2>6 DEF TypeOK
    <3>2. h \in ToSet(registers[current]) => h \in ToSet(registers'[current])
      BY <2>1, <2>2, <2>3, <2>6 DEF TypeOK
    <3> QED  BY <2>1, <2>4, <2>6, <3>1, <3>2
  <2> QED  BY <2>5, <2>6
<1>2. ASSUME NEW c \in Connections, HubDisconnect(c)  PROVE Goal
  <2>1. /\ registers' = [registers EXCEPT ![c] = <<>>]
        /\ methodToSocket' = [m \in Methods |->
               IF m \in socketToMethods[c] /\ methodToSocket[m] = c THEN 0 ELSE methodToSocket[m]]
        /\ handlers' = handlers /\ connected /\ current' = current /\ overtaken' = overtaken
        /\ current \in open /\ current # c
    BY <1>2 DEF HubDisconnect, UnregisterAll
  <2>2. current \in Connections /\ h \in Methods
    BY <1>0, <2>1 DEF TypeOK
  <2>3. registers'[current] = registers[current]
    BY <2>1, <2>2 DEF TypeOK
  <2>4. methodToSocket[h] = current => methodToSocket'[h] = current
    BY <2>1, <2>2
  <2> QED  BY <2>1, <2>3, <2>4 DEF Reachable
<1>3. CASE HubRestart
  BY <1>3 DEF HubRestart
<1>4. ASSUME NEW m \in Methods, RegisterHandler(m)  PROVE Goal
  BY <1>4, RegisterGrows DEF RegisterHandler, Reachable, hubVars, callVars
<1>5. CASE Connect
  <2>1. current + 1 \in Connections
    BY <1>5 DEF Connect, TypeOK, Connections
  <2>2. registers'[current'] = handlers
    BY <1>5, <2>1 DEF Connect, ToRegister, TypeOK
  <2> QED  BY <1>5, <2>2 DEF Connect
<1>6. ASSUME NEW k, NEW m, Call(k, m)  PROVE Goal
  BY <1>6 DEF Call, Reachable, hubVars, cliVars
<1>7. ASSUME NEW x, Timeout(x) \/ HubAnswer(x) \/ HandleRequest(x) \/ Finish(x)  PROVE Goal
  <2>1. UNCHANGED <<hubVars, cliVars, registers, overtaken>>
    BY <1>7 DEF Timeout, HubAnswer, HandleRequest, Finish
  <2> QED  BY <2>1 DEF Reachable, hubVars, cliVars
<1>8. CASE Disconnect \/ Restart
  BY <1>8 DEF Disconnect, Restart
<1>9. CASE UNCHANGED vars
  BY <1>9 DEF vars, Reachable
<1> QED  BY <1>1, <1>2, <1>3, <1>4, <1>5, <1>6, <1>7, <1>8, <1>9 DEF Next, HubNext, CliNext

(* Requests only go where the handler is. *)
LEMMA FoundStep ==
    TypeOK /\ MapsAgree /\ NumbersOK /\ HandledOK /\ MethodFound /\ [Next]_vars => MethodFound'
<1> SUFFICES ASSUME TypeOK, MapsAgree, NumbersOK, HandledOK, MethodFound, [Next]_vars,
                    connected', NEW r \in requests', r.on = current'
             PROVE  r.method \in ToSet(handlers')
  BY DEF MethodFound
<1> DEFINE Goal == r.method \in ToSet(handlers')
<1>1. ASSUME NEW c \in Connections, HubRegister(c) \/ HubDisconnect(c)  PROVE Goal
  BY <1>1 DEF HubRegister, HubDisconnect, MethodFound
<1>2. CASE HubRestart
  BY <1>2 DEF HubRestart
<1>3. ASSUME NEW m \in Methods, RegisterHandler(m)  PROVE Goal
  BY <1>3, RegisterGrows DEF RegisterHandler, MethodFound, callVars
<1>4. CASE Connect
  <2>1. r \in requests /\ r.on = current + 1
    BY <1>4 DEF Connect, callVars
  <2> QED  BY <2>1 DEF NumbersOK, TypeOK
<1>5. ASSUME NEW k \in Calls, NEW m \in Methods, Call(k, m)  PROVE Goal
  <2>1. handlers' = handlers /\ connected /\ current' = current
    BY <1>5 DEF Call, cliVars
  <2>2. CASE r \in requests
    BY <2>1, <2>2 DEF MethodFound
  <2>3. CASE r \notin requests
    <3>1. r = [call |-> k, method |-> m, on |-> Target(m)] /\ Target(m) \in open
      BY <1>5, <2>3 DEF Call
    <3>2. methodToSocket[m] = current /\ current # 0
      BY <2>1, <3>1 DEF Target, TypeOK, Connections
    <3>3. m \in socketToMethods[current]
      BY <3>2 DEF MapsAgree
    <3> QED  BY <2>1, <3>1, <3>3 DEF HandledOK
  <2> QED  BY <2>2, <2>3
<1>6. ASSUME NEW x, Timeout(x) \/ HubAnswer(x) \/ HandleRequest(x) \/ Finish(x)  PROVE Goal
  BY <1>6 DEF Timeout, HubAnswer, HandleRequest, Finish, MethodFound, cliVars
<1>7. CASE Disconnect \/ Restart
  BY <1>7 DEF Disconnect, Restart
<1>8. CASE UNCHANGED vars
  BY <1>8 DEF vars, MethodFound
<1> QED  BY <1>1, <1>2, <1>3, <1>4, <1>5, <1>6, <1>7, <1>8 DEF Next, HubNext, CliNext

-----------------------------------------------------------------------------
(* The invariant holds of all reachable states. *)
THEOREM Invariance == Spec => []IInv
<1>1. Init => IInv
  BY Initially
<1>2. IInv /\ [Next]_vars => IInv'
  BY TypeStep, MapsStep, NumbersStep, HandledStep, ReachableStep, FoundStep DEF IInv
<1> QED  BY <1>1, <1>2, PTL DEF Spec

(* The maps of rpcRegistry.ts, the packets and the calls are what the handlers take them   *)
(* for: an entry of methodToSocket is a connection or none.                                *)
THEOREM TypeCorrect == Spec => []TypeOK
<1>1. IInv => TypeOK
  BY DEF IInv
<1> QED  BY <1>1, Invariance, PTL

(* No entry outlives its socket (rpcRegistry.ts), so rpcCall never finds its socket gone. *)
THEOREM MapsAlwaysAgree == Spec => []MapsAgree
<1>1. IInv => MapsAgree
  BY DEF IInv
<1> QED  BY <1>1, Invariance, PTL

(* While both sides hold the CLI's connection, its handlers lead to it, unless a late       *)
(* registration of an older connection took them over.                                      *)
THEOREM AlwaysReachable == Spec => []Reachable
<1>1. IInv => Reachable
  BY DEF IInv
<1> QED  BY <1>1, Invariance, PTL

(* handleRequest never answers "Method not found". *)
THEOREM MethodAlwaysFound == Spec => []MethodFound
<1>1. IInv => MethodFound
  BY DEF IInv
<1> QED  BY <1>1, Invariance, PTL

-----------------------------------------------------------------------------
(* The two maps of rpcRegistry.ts implement a directory of open connections. *)
THEOREM Implements == Spec => ImplementsDirectory
<1> USE DEF Connections
<1>1. Init => Directory!Init
  BY DEF Init, Directory!Init
<1>2. IInv /\ [Next]_vars => [Directory!Next]_<<methodToSocket, open>>
  <2> SUFFICES ASSUME IInv, [Next]_vars
               PROVE  Directory!Next \/ UNCHANGED <<methodToSocket, open>>
    OBVIOUS
  <2>1. ASSUME NEW c \in Connections, HubRegister(c)  PROVE Directory!Next
    <3>1. Head(registers[c]) \in Methods
      <4>1. registers[c] \in Seq(Methods) /\ registers[c] # <<>>
        BY <2>1 DEF HubRegister, IInv, TypeOK
      <4> QED  BY <4>1
    <3>2. Directory!Register(Head(registers[c]), c)
      BY <2>1 DEF HubRegister, Register, Directory!Register
    <3> QED  BY <3>1, <3>2 DEF Directory!Next
  <2>2. ASSUME NEW c \in Connections, HubDisconnect(c)  PROVE Directory!Next
    <3>1. c # 0
      BY MaxConnectionsAssumption
    <3>2. \A m \in Methods : methodToSocket[m] = c => m \in socketToMethods[c]
      BY <3>1 DEF IInv, MapsAgree
    <3>3. methodToSocket' = [m \in Methods |-> IF methodToSocket[m] \in {c} THEN 0 ELSE methodToSocket[m]]
      BY <2>2, <3>2 DEF HubDisconnect, UnregisterAll
    <3>4. Directory!Close({c})
      BY <2>2, <3>3 DEF HubDisconnect, Directory!Close
    <3> QED  BY <3>4 DEF Directory!Next
  <2>3. CASE HubRestart
    <3>1. \A m \in Methods : methodToSocket[m] \in Connections \/ methodToSocket[m] = 0
      BY MaxConnectionsAssumption DEF IInv, TypeOK
    <3>2. methodToSocket' = [m \in Methods |-> IF methodToSocket[m] \in Connections THEN 0 ELSE methodToSocket[m]]
      BY <2>3, <3>1 DEF HubRestart
    <3>3. Directory!Close(Connections)
      BY <2>3, <3>2 DEF HubRestart, Directory!Close, IInv, TypeOK
    <3> QED  BY <3>3 DEF Directory!Next
  <2>4. CASE Connect
    <3>1. current + 1 \in Connections /\ current + 1 > current
      BY <2>4, MaxConnectionsAssumption DEF Connect, IInv, TypeOK
    <3>2. Directory!Open(current + 1)
      BY <2>4, <3>1 DEF Connect, Directory!Open, IInv, NumbersOK
    <3> QED  BY <3>1, <3>2 DEF Directory!Next
  <2>5. ASSUME NEW k, NEW m, Call(k, m)  PROVE UNCHANGED <<methodToSocket, open>>
    BY <2>5 DEF Call, hubVars
  <2>6. ASSUME NEW x, Timeout(x) \/ HubAnswer(x) \/ HandleRequest(x) \/ Finish(x) \/ RegisterHandler(x)
        PROVE UNCHANGED <<methodToSocket, open>>
    BY <2>6 DEF Timeout, HubAnswer, HandleRequest, Finish, RegisterHandler, hubVars
  <2>7. CASE Disconnect \/ Restart \/ UNCHANGED vars
    BY <2>7 DEF Disconnect, Restart, vars, hubVars
  <2> QED  BY <2>1, <2>2, <2>3, <2>4, <2>5, <2>6, <2>7 DEF Next, HubNext, CliNext
<1> QED  BY <1>1, <1>2, Invariance, PTL DEF Spec, ImplementsDirectory, Directory!Spec
=============================================================================
