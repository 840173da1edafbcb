---------------------------- MODULE RpcRegistry ----------------------------
(***************************************************************************)
(* Remote calls from the hub to one CLI scope (a session or a machine).    *)
(* The CLI registers its handlers on its connection, and all of them again *)
(* on every new one (RpcHandlerManager.ts); the hub keeps which socket a   *)
(* method leads to, and which methods a socket registered                  *)
(* (rpcRegistry.ts); a call looks the socket up and waits for the answer   *)
(* with a time limit (rpcGateway.ts).  Either side may see the end of a    *)
(* connection first, and what was sent on it may still arrive after the    *)
(* CLI has a new one.  No program here sends rpc-unregister.               *)
(***************************************************************************)
EXTENDS Naturals, Sequences, SequencesExt

CONSTANTS
    Methods,        \* method names within the scope
    Calls,          \* calls the hub makes
    MaxConnections, \* bound: how many connections the CLI ever makes
    MaxRegisters    \* bound: registrations under way at once

ASSUME MaxConnectionsAssumption == MaxConnections \in Nat
ASSUME MaxRegistersAssumption == MaxRegisters \in Nat

VARIABLES
    \* the hub
    methodToSocket, \* RpcRegistry.methodToSocketId, 0 for no entry
    socketToMethods,\* RpcRegistry.socketIdToMethods, {} for no entry
    open,           \* io.of('/cli').sockets
    call,           \* what became of each call
    \* the CLI
    handlers,       \* RpcHandlerManager.handlers, a Map: in the order of insertion
    connected,      \* the socket is connected (RpcHandlerManager.socket is set)
    current,        \* the number of the last connection it made
    running,        \* calls whose handler runs or is done but not answered
    \* the network
    registers,      \* rpc-register packets under way, for each connection
    requests,       \* rpc-request packets under way
    answers,        \* acknowledgements under way
    \* history
    overtaken       \* methods an older connection registered after the current one

vars == <<methodToSocket, socketToMethods, open, call, handlers, connected, current, running,
          registers, requests, answers, overtaken>>

hubVars == <<methodToSocket, socketToMethods, open>>
cliVars == <<handlers, connected, current>>
callVars == <<call, running, requests, answers>>

-----------------------------------------------------------------------------
Connections == 1 .. MaxConnections
Request == [call : Calls, method : Methods, on : Connections]

Init ==
    /\ methodToSocket = [m \in Methods |-> 0]
    /\ socketToMethods = [c \in Connections |-> {}]
    /\ open = {}
    /\ call = [k \in Calls |-> "idle"]
    /\ handlers = <<>>
    /\ connected = FALSE
    /\ current = 0
    /\ running = {}
    /\ registers = [c \in Connections |-> <<>>]
    /\ requests = {}
    /\ answers = {}
    /\ overtaken = {}

-----------------------------------------------------------------------------
(* The registry. *)

\* (mutant of Register) only the first method of a socket enters its set.
RegisterOnce(m, c) ==
    /\ methodToSocket' = [methodToSocket EXCEPT ![m] = c]
    /\ socketToMethods' = [socketToMethods EXCEPT ![c] = IF @ = {} THEN {m} ELSE @]

Register(m, c) ==
    /\ methodToSocket' = [methodToSocket EXCEPT ![m] = c]
    /\ socketToMethods' = [socketToMethods EXCEPT ![c] = @ \cup {m}]

\* (mutant of UnregisterAll) without the comparison with the socket.
UnregisterAllOfName(c) ==
    /\ methodToSocket' = [m \in Methods |-> IF m \in socketToMethods[c] THEN 0 ELSE methodToSocket[m]]
    /\ socketToMethods' = [socketToMethods EXCEPT ![c] = {}]

\* Only what still leads to this socket is removed.
UnregisterAll(c) ==
    /\ methodToSocket' = [m \in Methods |->
           IF m \in socketToMethods[c] /\ methodToSocket[m] = c THEN 0 ELSE methodToSocket[m]]
    /\ socketToMethods' = [socketToMethods EXCEPT ![c] = {}]

\* 'rpc-register' on socket c.  A socket that is closed drops what still arrives.
HubRegister(c) ==
    /\ c \in open
    /\ registers[c] # <<>>
    /\ Register(Head(registers[c]), c)
    /\ registers' = [registers EXCEPT ![c] = Tail(@)]
    /\ overtaken' = IF c = current THEN overtaken \ {Head(registers[c])}
                                   ELSE overtaken \cup {Head(registers[c])}
    /\ UNCHANGED <<open, call, handlers, connected, current, running, requests, answers>>

\* The hub sees the end of connection c: 'disconnect', unregisterAll.
HubDisconnect(c) ==
    /\ c \in open
    /\ open' = open \ {c}
    /\ UnregisterAll(c)
    /\ registers' = [registers EXCEPT ![c] = <<>>]
    /\ requests' = {r \in requests : r.on # c}
    /\ answers' = {r \in answers : r.on # c}
    /\ UNCHANGED <<call, handlers, connected, current, running, overtaken>>

\* The hub's process ends and starts again: the registry is not persisted.
HubRestart ==
    /\ open' = {}
    /\ methodToSocket' = [m \in Methods |-> 0]
    /\ socketToMethods' = [c \in Connections |-> {}]
    /\ registers' = [c \in Connections |-> <<>>]
    /\ requests' = {}
    /\ answers' = {}
    /\ call' = [k \in Calls |-> IF call[k] = "waiting" THEN "lost" ELSE call[k]]
    /\ UNCHANGED <<handlers, connected, current, running, overtaken>>

-----------------------------------------------------------------------------
(* Calls: rpcGateway.rpcCall. *)

\* (mutant of Target) a call goes to the newest connection of the scope.
TargetNewest(m) == IF methodToSocket[m] # 0 THEN current ELSE 0

\* getSocketIdForMethod.
Target(m) == methodToSocket[m]

Call(k, m) ==
    /\ call[k] = "idle"
    /\ call' = [call EXCEPT ![k] = IF Target(m) = 0 THEN "not registered"
                                   ELSE IF Target(m) \notin open THEN "socket disconnected"
                                   ELSE "waiting"]
    /\ requests' = IF Target(m) \in open
                   THEN requests \cup {[call |-> k, method |-> m, on |-> Target(m)]}
                   ELSE requests
    /\ UNCHANGED <<hubVars, cliVars, running, registers, answers, overtaken>>

\* The answer comes within the time limit, or later, when nobody waits for it any more.
HubAnswer(r) ==
    /\ r \in answers
    /\ answers' = answers \ {r}
    /\ call' = IF call[r.call] = "waiting" THEN [call EXCEPT ![r.call] = "answered"] ELSE call
    /\ UNCHANGED <<hubVars, cliVars, running, registers, requests, overtaken>>

Timeout(k) ==
    /\ call[k] = "waiting"
    /\ call' = [call EXCEPT ![k] = "timed out"]
    /\ UNCHANGED <<hubVars, cliVars, running, registers, requests, answers, overtaken>>

-----------------------------------------------------------------------------
(* The CLI. *)

\* What is sent on the current connection; a hub that has closed it gets nothing.
Send(m) ==
    registers' = IF connected /\ current \in open
                 THEN [registers EXCEPT ![current] = Append(@, m)]
                 ELSE registers

\* RpcHandlerManager.registerHandler, for a new method or one it has already.
RegisterHandler(m) ==
    /\ connected => Len(registers[current]) < MaxRegisters
    /\ handlers' = IF m \in ToSet(handlers) THEN handlers ELSE Append(handlers, m)
    /\ Send(m)
    /\ UNCHANGED <<hubVars, connected, current, callVars, overtaken>>

\* (mutant of ToRegister) the connection is taken over without registering again.
RegisterNothing == <<>>

\* RpcHandlerManager.onSocketConnect: every handler is registered again.
ToRegister == handlers

\* The hub accepts a connection and the CLI sees it.
Connect ==
    /\ ~connected
    /\ current < MaxConnections
    /\ connected' = TRUE
    /\ current' = current + 1
    /\ open' = open \cup {current + 1}
    /\ registers' = [registers EXCEPT ![current + 1] = ToRegister]
    /\ overtaken' = {}
    /\ UNCHANGED <<methodToSocket, socketToMethods, handlers, callVars>>

\* The CLI sees the end of its connection: onSocketDisconnect.  What it sent may still
\* arrive; what was sent to it does not.
Disconnect ==
    /\ connected
    /\ connected' = FALSE
    /\ requests' = {r \in requests : r.on # current}
    /\ UNCHANGED <<hubVars, call, handlers, current, running, registers, answers, overtaken>>

\* The CLI's process ends and is started again, without its handlers.
Restart ==
    /\ handlers' = <<>>
    /\ connected' = FALSE
    /\ requests' = {r \in requests : r.on # current}
    /\ running' = {}
    /\ UNCHANGED <<hubVars, call, current, registers, answers, overtaken>>

\* 'rpc-request': handleRequest starts the handler.
HandleRequest(r) ==
    /\ connected
    /\ r \in requests
    /\ r.on = current
    /\ requests' = requests \ {r}
    /\ running' = running \cup {r}
    /\ UNCHANGED <<hubVars, cliVars, call, registers, answers, overtaken>>

\* The handler ends and the answer is sent.  On another connection than that of the request
\* the hub does not know its number and ignores it.
Finish(r) ==
    /\ r \in running
    /\ running' = running \ {r}
    /\ answers' = IF connected /\ r.on = current /\ current \in open
                  THEN answers \cup {r} ELSE answers
    /\ UNCHANGED <<hubVars, cliVars, call, registers, requests, overtaken>>

-----------------------------------------------------------------------------
HubNext ==
    \/ \E c \in Connections : HubRegister(c) \/ HubDisconnect(c)
    \/ HubRestart
    \/ \E k \in Calls : Timeout(k) \/ \E m \in Methods : Call(k, m)
    \/ \E r \in answers : HubAnswer(r)

CliNext ==
    \/ \E m \in Methods : RegisterHandler(m)
    \/ Connect
    \/ Disconnect
    \/ Restart
    \/ \E r \in requests : HandleRequest(r)
    \/ \E r \in running : Finish(r)

Next == HubNext \/ CliNext

Spec == Init /\ [][Next]_vars

-----------------------------------------------------------------------------
Outcomes == {"idle", "waiting", "answered", "timed out", "not registered",
             "socket disconnected", "lost"}

TypeOK ==
    /\ methodToSocket \in [Methods -> 0 .. MaxConnections]
    /\ socketToMethods \in [Connections -> SUBSET Methods]
    /\ open \subseteq Connections
    /\ call \in [Calls -> Outcomes]
    /\ handlers \in Seq(Methods)
    /\ connected \in BOOLEAN
    /\ current \in 0 .. MaxConnections
    /\ connected => current > 0
    /\ running \subseteq Request
    /\ registers \in [Connections -> Seq(Methods)]
    /\ requests \subseteq Request
    /\ answers \subseteq Request
    /\ overtaken \subseteq Methods

(***************************************************************************)
(* The two maps agree: a method leads only to an open socket that has it   *)
(* in its set, and a socket that is gone has no set.  So the entry of a    *)
(* socket never outlives it, and no call ends with "socket disconnected".  *)
(***************************************************************************)
MapsAgree ==
    /\ \A m \in Methods : methodToSocket[m] # 0 =>
           /\ methodToSocket[m] \in open
           /\ m \in socketToMethods[methodToSocket[m]]
    /\ \A c \in Connections \ open : socketToMethods[c] = {}
    /\ \A k \in Calls : call[k] # "socket disconnected"

(***************************************************************************)
(* While both sides hold the CLI's connection, every handler leads to it   *)
(* or its registration is under way, however late the hub sees the ends of *)
(* older connections.  The one exception is a registration on an older     *)
(* connection that arrives after the one on the current connection.        *)
(***************************************************************************)
Reachable ==
    connected /\ current \in open =>
        \A m \in ToSet(handlers) :
            \/ methodToSocket[m] = current
            \/ m \in ToSet(registers[current])
            \/ m \in overtaken

(***************************************************************************)
(* A request never reaches a CLI that lacks the handler ("Method not       *)
(* found"), not even one that was restarted and has not registered all.    *)
(***************************************************************************)
MethodFound ==
    connected => \A r \in requests : r.on = current => r.method \in ToSet(handlers)

(***************************************************************************)
(* The two maps implement a directory: the end of a socket removes exactly *)
(* the methods that lead to it, whatever was registered before and since.  *)
(***************************************************************************)
Directory == INSTANCE RpcDirectory WITH owner <- methodToSocket
ImplementsDirectory == Directory!Spec
=============================================================================
