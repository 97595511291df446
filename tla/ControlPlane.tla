----------------------------- MODULE ControlPlane -----------------------------
(* The browser pool and the extension, joined by WebSockets: upgrade, the
   "ready" message, commands and responses, and the loss of a connection.     *)
EXTENDS BrowserPool, BridgeExtension

CONSTANTS Named,        \* the browser id the settings name
          AddModes,     \* modes of the instances that are added
          Operations,   \* of the pool that the run exercises
          MaxPlaneEvents     \* bound: pool requests, lost connections and restarts

ASSUME ControlPlaneConstants == /\ Named \in Ids /\ AddModes \subseteq Modes
                                /\ Links = Sockets /\ NoLink = NoSocket

VARIABLES wire,    \* request -> where its command or response travels
          events

cpVars == <<poolVars, extVars, wire, events>>
NoWire == [leg |-> "none", on |-> NoSocket]

PlaneInit ==
    /\ PoolInit /\ ExtInit
    /\ wire = [r \in Requests |-> NoWire]
    /\ events = 0

\* new WebSocket(url) takes the number of a socket that both ends are done with.
Free == {s \in Sockets : /\ link[s] \in {"unused", "closed"} /\ conn[s] \in {"unused", "closed"}
                         /\ \A r \in Requests : wire[r].on # s}

CreateSocket ==
    \E s \in Free, b \in BOOLEAN :
        /\ \A t \in Free : s <= t
        /\ OpenSocket(s, b)
        /\ conn' = [conn EXCEPT ![s] = "unused"] /\ owner' = [owner EXCEPT ![s] = NoId]
        /\ UNCHANGED <<inst, bindings, call, sessions, used, sock, pending, file, wire, events>>

\* server.on('upgrade'): attachOrAutoRegisterBridge decides how the socket is
\* attached; the extension sees it open.
Upgrade(s) ==
    /\ link[s] = "connecting" /\ conn[s] = "unused"
    /\ Opened(s)
    /\ IF named[s] /\ Named \in Present
       THEN AttachBridge(s, Named) \/ RefuseBridge(s, Named)
       ELSE AwaitReady(s)
    /\ UNCHANGED <<wire, events>>

\* The first message of a socket no instance was known for registers it; any
\* other "ready" only updates the instance its listeners name.  Messages reach
\* the listeners while the socket is closing, too; a refused socket has none.
ReadyArrives(s) ==
    /\ ready[s] = "sent" /\ conn[s] \in {"open", "closing"}
    /\ ready' = [ready EXCEPT ![s] = "received"]
    /\ \/ owner[s] # NoId /\ Ready(owner[s])
       \/ owner[s] = NoId /\ conn[s] = "closing" /\ UNCHANGED poolVars
       \/ /\ owner[s] = NoId /\ conn[s] = "open"
          /\ \E i \in Ids : /\ IF named[s] THEN i = Named ELSE inst[i].mode # "managed"
                            /\ AutoRegister(s, i)
    /\ UNCHANGED <<current, link, named, timer, config, loading, loaded, alarms, saves, wire, events>>

\* bridgeCall sends its command on the socket it found.
SendCommand(r, i) ==
    /\ BridgeCall(r, i)
    /\ wire' = IF pending'[r] = i THEN [wire EXCEPT ![r] = [leg |-> "command", on |-> sock[i]]] ELSE wire
    /\ UNCHANGED <<extVars, events>>

\* handleSocketMessage: the command runs, and is answered if the socket it
\* came from is still open.
RunCommand(r) ==
    /\ wire[r].leg = "command"
    /\ wire' = [wire EXCEPT ![r] = IF link[wire[r].on] = "open" THEN [@ EXCEPT !.leg = "response"] ELSE NoWire]
    /\ UNCHANGED <<poolVars, extVars, events>>

ResponseArrives(r) ==
    /\ wire[r].leg = "response"
    /\ wire' = [wire EXCEPT ![r] = NoWire]
    /\ IF conn[wire[r].on] \in {"open", "closing"} /\ owner[wire[r].on] # NoId
       THEN Response(owner[wire[r].on], r) ELSE UNCHANGED poolVars
    /\ UNCHANGED <<extVars, events>>

\* A close frame or a lost connection reaches the pool, and the extension.
PoolSeesClose(s) ==
    /\ conn[s] = "closing" \/ link[s] \in {"closing", "closed"}
    /\ SocketClosed(s)
    /\ UNCHANGED <<extVars, wire, events>>

ExtensionSeesClose(s) ==
    /\ conn[s] \in {"closing", "closed"} \/ link[s] = "closing"
    /\ Closed(s)
    /\ UNCHANGED <<poolVars, wire, events>>

\* The connection breaks, or the upgrade is refused or finds nobody listening.
Drop(s) ==
    /\ events < MaxPlaneEvents /\ events' = events + 1
    /\ Closed(s)
    /\ UNCHANGED <<poolVars, wire>>

RestartPool ==
    /\ "restart" \in Operations /\ events < MaxPlaneEvents /\ events' = events + 1
    /\ Restart
    /\ UNCHANGED <<extVars, wire>>

\* A request of an HTTP client or of an agent, and what follows it.
PoolRequest ==
    /\ events < MaxPlaneEvents /\ events' = events + 1
    /\ \/ \E c \in Callers, i \in Ids, m \in AddModes, b \in BOOLEAN : "add" \in Operations /\ Add(c, i, m, b)
       \/ \E c \in Callers, i \in Ids : "start" \in Operations /\ Start(c, i)
       \/ \E i \in Ids, m \in Modes : "configure" \in Operations /\ Configure(i, m)
       \/ \E c \in Callers, i \in Ids, op \in {"stop", "remove"} :
             op \in Operations /\ (StopOrRemoveNow(c, i, op) \/ StopAsked(c, i, op))
       \/ \E h \in BoundHosts, i \in Ids : Bind(h, i)
       \/ \E h \in BoundHosts : Unbind(h)
    /\ UNCHANGED <<extVars, wire>>

PoolProgress ==
    /\ \/ \E c \in Callers : StartDone(c)
       \/ \E c \in Callers : StartFails(c)
       \/ \E c \in Callers : StopDone(c)
       \/ \E c \in Callers : StopFails(c)
       \/ \E s \in 1..MaxSession : SessionEnds(s)
    /\ UNCHANGED <<extVars, wire, events>>

ExtensionStep ==
    /\ \/ Alarm
       \/ TimerFires
       \/ ConfigLoaded
       \/ \E s \in Sockets : SendReady(s)
       \/ \E b \in BOOLEAN : Disconnect(b)
    /\ UNCHANGED <<poolVars, wire, events>>

CallTimeout(r) == Timeout(r) /\ UNCHANGED <<extVars, wire, events>>

PlaneNext ==
    \/ PoolRequest \/ PoolProgress \/ ExtensionStep \/ CreateSocket \/ RestartPool
    \/ \E s \in Sockets : Upgrade(s) \/ ReadyArrives(s) \/ PoolSeesClose(s) \/ ExtensionSeesClose(s) \/ Drop(s)
    \/ \E r \in Requests : RunCommand(r) \/ ResponseArrives(r) \/ CallTimeout(r)
    \/ \E r \in Requests, i \in Ids : SendCommand(r, i)

PlaneSpec == PlaneInit /\ [][PlaneNext]_cpVars

\* Timers fire, promises settle, and the transport delivers or closes; nobody
\* is obliged to save settings, drop a connection or call the pool.
PlaneFairness ==
    /\ WF_cpVars(TimerFires /\ UNCHANGED <<poolVars, wire, events>>)
    /\ WF_cpVars(ConfigLoaded /\ UNCHANGED <<poolVars, wire, events>>)
    /\ WF_cpVars(CreateSocket)
    /\ \A s \in Sockets : /\ WF_cpVars(Upgrade(s))
                          /\ WF_cpVars(SendReady(s) /\ UNCHANGED <<poolVars, wire, events>>)
                          /\ WF_cpVars(ReadyArrives(s))
                          /\ WF_cpVars(PoolSeesClose(s))
                          /\ WF_cpVars(ExtensionSeesClose(s))
    /\ \A r \in Requests : WF_cpVars(CallTimeout(r))

PlaneFairSpec == PlaneSpec /\ PlaneFairness

----------------------------------------------------------------------------
(* Properties of the connection *)

\* The extension and the pool agree on one connection.
Agree == /\ current # NoSocket /\ link[current] = "open" /\ conn[current] = "open"
         /\ owner[current] # NoId /\ sock[owner[current]] = current

\* Every bridge call settles: by its answer, a close, a stop, or its timer.
CallsSettle == \A r \in Requests : pending[r] \in Ids ~> pending[r] \notin Ids

\* Once nobody interferes any more, the extension and the pool end up holding
\* the same connection, whatever overlapping connect() calls left behind and
\* in whichever order the pool saw their sockets.
ExtensionConverges == <>[]Agree

\* Lost connections, timeouts and restarts leave neither a call waiting nor the
\* extension and the pool apart.
ConnectionSettles == CallsSettle /\ ExtensionConverges
=============================================================================
