----------------------------- MODULE BrowserPool -----------------------------
(* The browser pool of the control plane (src/control-plane/browser-pool.ts):
   browser instances and the sessions the session manager runs for them, the
   site bindings, the bridge sockets, the bridge calls that wait for an answer,
   and the file the pool is restored from.  HTTP routes and agent messages
   (src/control-plane/server.ts) call these operations directly.  A JavaScript
   handler runs to its next await: every action is one such stretch.          *)
EXTENDS Integers, FiniteSets

CONSTANTS Ids,          \* browser ids
          NoId,
          BoundHosts,        \* hosts a browser can be bound to
          Callers,      \* requests that may be inside start, stop or remove
          Sockets,      \* bridge connections, in the order they may be used
          NoSocket,
          Requests,     \* bridge calls
          MaxSession    \* bound: sessions the manager starts

CallOutcomes == {"answered", "disconnected", "stopped", "timeout", "refused"}

ASSUME PoolConstants == /\ NoId \notin Ids
                        /\ NoSocket \notin Sockets
                        /\ MaxSession \in Nat
                        /\ Ids \cap ({"new"} \cup CallOutcomes) = {}

VARIABLES inst,      \* this.instances: Absent or [mode, state, session]
          bindings,  \* this.bindings: host -> id
          call,      \* start, stop or remove waiting for the session manager
          sessions,  \* sessions the manager runs
          used,      \* session ids given out so far
          sock,      \* this.bridgeSockets: id -> socket
          owner,     \* the id a socket's message and close listeners carry
          conn,      \* the server's view of a socket
          pending,   \* this.bridgePending: request -> id, or how it settled
          file       \* the persisted state

poolVars == <<inst, bindings, call, sessions, used, sock, owner, conn, pending, file>>

Modes == {"managed", "bridge"}     \* "cdp" behaves as "managed"
Absent == [mode |-> "absent", state |-> "absent", session |-> 0]
Idle == [op |-> "idle", id |-> NoId, session |-> 0, object |-> FALSE]
Rest(mode) == IF mode = "bridge" THEN "AWAITING_BRIDGE" ELSE "STOPPED"
Present == {i \in Ids : inst[i] # Absent}

\* persist() writes instances and bindings as one document after every change.
Persist == file' = [modes |-> [i \in Ids |-> inst'[i].mode], bindings |-> bindings']

PoolInit ==
    /\ inst = [i \in Ids |-> Absent]
    /\ bindings = [h \in BoundHosts |-> NoId]
    /\ call = [c \in Callers |-> Idle]
    /\ sessions = {} /\ used = 0
    /\ sock = [i \in Ids |-> NoSocket]
    /\ owner = [s \in Sockets |-> NoId]
    /\ conn = [s \in Sockets |-> "unused"]
    /\ pending = [r \in Requests |-> "new"]
    /\ file = [modes |-> [i \in Ids |-> "absent"], bindings |-> [h \in BoundHosts |-> NoId]]

----------------------------------------------------------------------------
(* Instances and sessions *)

\* The part of start() before manager.start answers; a bridge instance waits
\* for its extension, connected or not.
Starting(c, i, mode) ==
    IF mode = "bridge"
    THEN inst' = [inst EXCEPT ![i].mode = mode, ![i].state = "AWAITING_BRIDGE"] /\ UNCHANGED call
    ELSE /\ inst' = [inst EXCEPT ![i].mode = mode, ![i].state = "STARTING"]
         /\ call' = [call EXCEPT ![c] = [op |-> "start", id |-> i, session |-> 0, object |-> TRUE]]

Add(c, i, mode, start) ==
    /\ call[c] = Idle /\ inst[i] = Absent
    /\ IF start THEN Starting(c, i, mode)
       ELSE inst' = [inst EXCEPT ![i] = [mode |-> mode, state |-> Rest(mode), session |-> 0]] /\ UNCHANGED call
    /\ UNCHANGED <<bindings, sessions, used, sock, owner, conn, pending>>
    /\ Persist

Start(c, i) ==
    /\ call[c] = Idle /\ i \in Present
    /\ Starting(c, i, inst[i].mode)
    /\ UNCHANGED <<bindings, sessions, used, sock, owner, conn, pending>>
    /\ Persist

\* The instance object may have left the map while manager.start was pending:
\* then the update reaches nobody and the call fails with NOT_FOUND.
StartDone(c) ==
    /\ call[c].op = "start"
    /\ used < MaxSession
    /\ used' = used + 1 /\ sessions' = sessions \cup {used + 1}
    /\ inst' = IF call[c].object
               THEN [inst EXCEPT ![call[c].id].state = "READY", ![call[c].id].session = used + 1]
               ELSE inst
    /\ call' = [call EXCEPT ![c] = Idle]
    /\ UNCHANGED <<bindings, sock, owner, conn, pending>>
    /\ Persist

StartFails(c) ==
    /\ call[c].op = "start"
    /\ inst' = IF call[c].object THEN [inst EXCEPT ![call[c].id].state = "ERROR"] ELSE inst
    /\ call' = [call EXCEPT ![c] = Idle]
    /\ UNCHANGED <<bindings, sessions, used, sock, owner, conn, pending>>
    /\ Persist

Configure(i, mode) ==
    /\ i \in Present
    /\ inst[i].state \notin {"STARTING", "READY"}
    /\ inst' = [inst EXCEPT ![i] = [mode |-> mode, state |-> Rest(mode), session |-> 0]]
    /\ UNCHANGED <<bindings, call, sessions, used, sock, owner, conn, pending>>
    /\ Persist

\* rejectBridgeCalls: every call of this browser settles.
Reject(i, why) == [r \in Requests |-> IF pending[r] = i THEN why ELSE pending[r]]

\* stop() once the session is stopped: the socket of the id is closed and
\* dropped, and its calls settle.
DropBridge(i) ==
    /\ conn' = IF sock[i] = NoSocket THEN conn ELSE [conn EXCEPT ![sock[i]] = "closing"]
    /\ sock' = [sock EXCEPT ![i] = NoSocket]
    /\ pending' = Reject(i, "stopped")

\* Mutant: remove keeps the bindings of the instance.
ForgetInstance(i) ==
    /\ UNCHANGED bindings
    /\ inst' = [inst EXCEPT ![i] = Absent]

\* remove() deletes the bindings, then the instance; calls that hold the
\* object keep it, and no longer reach the map.
Forget(i) ==
    /\ bindings' = [h \in BoundHosts |-> IF bindings[h] = i THEN NoId ELSE bindings[h]]
    /\ inst' = [inst EXCEPT ![i] = Absent]

Released(c, i, op) ==
    [d \in Callers |-> IF d = c THEN Idle
                       ELSE IF op = "remove" /\ call[d].id = i THEN [call[d] EXCEPT !.object = FALSE]
                       ELSE call[d]]

\* stop(id) and remove(id) of an instance with no session run without a pause.
StopOrRemoveNow(c, i, op) ==
    /\ call[c] = Idle /\ i \in Present /\ inst[i].session = 0
    /\ DropBridge(i)
    /\ IF op = "remove" THEN Forget(i)
       ELSE inst' = [inst EXCEPT ![i].state = Rest(inst[i].mode)] /\ UNCHANGED bindings
    /\ call' = Released(c, i, op)
    /\ UNCHANGED <<sessions, used, owner>>
    /\ Persist

StopAsked(c, i, op) ==
    /\ call[c] = Idle /\ i \in Present /\ inst[i].session # 0
    /\ call' = [call EXCEPT ![c] = [op |-> op, id |-> i, session |-> inst[i].session, object |-> TRUE]]
    /\ UNCHANGED <<inst, bindings, sessions, used, sock, owner, conn, pending, file>>

StopDone(c) ==
    LET i == call[c].id IN
    /\ call[c].op \in {"stop", "remove"}
    /\ sessions' = sessions \ {call[c].session}
    /\ DropBridge(i)
    /\ IF call[c].op = "remove" THEN Forget(i)
       ELSE /\ UNCHANGED bindings
            /\ inst' = IF call[c].object
                       THEN [inst EXCEPT ![i].session = 0, ![i].state = Rest(inst[i].mode)] ELSE inst
    /\ call' = Released(c, i, call[c].op)
    /\ UNCHANGED <<used, owner>>
    /\ Persist

\* manager.stop throws: stop() leaves everything, remove() goes on regardless.
StopFails(c) ==
    LET i == call[c].id IN
    /\ call[c].op \in {"stop", "remove"}
    /\ IF call[c].op = "remove" THEN Forget(i) ELSE UNCHANGED <<inst, bindings>>
    /\ call' = Released(c, i, call[c].op)
    /\ UNCHANGED <<sessions, used, sock, owner, conn, pending>>
    /\ Persist

\* External: the manager ends a session by itself (expiry, crash).
SessionEnds(s) ==
    /\ s \in sessions
    /\ sessions' = sessions \ {s}
    /\ UNCHANGED <<inst, bindings, call, used, sock, owner, conn, pending, file>>

----------------------------------------------------------------------------
(* Site bindings, and a restart of the control plane *)

Bind(h, i) ==
    /\ i \in Present
    /\ bindings' = [bindings EXCEPT ![h] = i]
    /\ UNCHANGED <<inst, call, sessions, used, sock, owner, conn, pending>>
    /\ Persist

Unbind(h) ==
    /\ bindings[h] # NoId
    /\ bindings' = [bindings EXCEPT ![h] = NoId]
    /\ UNCHANGED <<inst, call, sessions, used, sock, owner, conn, pending>>
    /\ Persist

\* load(): definitions and bindings come back, sessions and sockets do not.
Load ==
    /\ inst' = [i \in Ids |-> IF file.modes[i] = "absent" THEN Absent
                              ELSE [mode |-> file.modes[i], state |-> Rest(file.modes[i]), session |-> 0]]
    /\ bindings' = file.bindings

\* The process dies at any point, even between two writes, and is restarted.
\* What the manager ran in this process is gone with it.
Restart ==
    /\ Load
    /\ call' = [c \in Callers |-> Idle]
    /\ sessions' = {}
    /\ sock' = [i \in Ids |-> NoSocket]
    /\ owner' = [s \in Sockets |-> NoId]
    /\ conn' = [s \in Sockets |-> IF conn[s] = "unused" THEN "unused" ELSE "closed"]
    /\ pending' = [r \in Requests |-> IF pending[r] \in Ids THEN "disconnected" ELSE pending[r]]
    /\ UNCHANGED <<used, file>>

----------------------------------------------------------------------------
(* Bridge sockets *)

\* The earlier socket of the instance is asked to close; its close event finds
\* another socket in the map.
Replace(i, s) ==
    /\ conn' = [conn EXCEPT ![s] = "open", ![IF sock[i] = NoSocket THEN s ELSE sock[i]] =
                   IF sock[i] \in {NoSocket, s} THEN "open" ELSE "closing"]
    /\ sock' = [sock EXCEPT ![i] = s]
    /\ owner' = [owner EXCEPT ![s] = i]

\* attachBridge: the URL named an existing instance of mode bridge.
AttachBridge(s, i) ==
    /\ inst[i].mode = "bridge"
    /\ inst' = [inst EXCEPT ![i].state = "READY"]
    /\ Replace(i, s)
    /\ UNCHANGED <<bindings, call, sessions, used, pending>>
    /\ Persist

\* The upgrade was accepted and the URL named no instance the pool knows: the
\* socket waits for the extension's first message.
AwaitReady(s) ==
    /\ conn' = [conn EXCEPT ![s] = "open"]
    /\ UNCHANGED <<inst, bindings, call, sessions, used, sock, owner, pending, file>>

\* The upgrade names an instance that is not of mode bridge.
RefuseBridge(s, i) ==
    /\ i \in Present /\ inst[i].mode # "bridge"
    /\ conn' = [conn EXCEPT ![s] = "closing"]
    /\ UNCHANGED <<inst, bindings, call, sessions, used, sock, owner, pending, file>>

\* initialListener: the instance named by the URL or by the extension's
\* context id is used, or created under that id.
AutoRegister(s, i) ==
    /\ inst' = [inst EXCEPT ![i] = [mode |-> IF inst[i] = Absent THEN "bridge" ELSE inst[i].mode,
                                    state |-> "READY", session |-> inst[i].session]]
    /\ Replace(i, s)
    /\ UNCHANGED <<bindings, call, sessions, used, pending>>
    /\ Persist

\* handleBridgeMessage, type "ready".
Ready(i) ==
    /\ inst' = IF i \in Present THEN [inst EXCEPT ![i].state = "READY"] ELSE inst
    /\ UNCHANGED <<bindings, call, sessions, used, sock, owner, conn, pending>>
    /\ Persist

\* handleBridgeMessage, type "response".
Response(i, r) ==
    /\ pending' = IF pending[r] = i THEN [pending EXCEPT ![r] = "answered"] ELSE pending
    /\ UNCHANGED <<inst, bindings, call, sessions, used, sock, owner, conn, file>>

\* Mutant: a socket that was replaced clears its successor when it closes.
HandleAnyClose(s) ==
    LET i == owner[s] IN
    IF i # NoId
    THEN /\ sock' = [sock EXCEPT ![i] = NoSocket]
         /\ inst' = IF i \in Present THEN [inst EXCEPT ![i].state = "AWAITING_BRIDGE"] ELSE inst
         /\ pending' = Reject(i, "disconnected")
    ELSE UNCHANGED <<sock, inst, pending>>

\* handleBridgeClose: only the current socket of its instance counts.
HandleBridgeClose(s) ==
    LET i == owner[s] IN
    IF i # NoId /\ sock[i] = s
    THEN /\ sock' = [sock EXCEPT ![i] = NoSocket]
         /\ inst' = IF i \in Present THEN [inst EXCEPT ![i].state = "AWAITING_BRIDGE"] ELSE inst
         /\ pending' = Reject(i, "disconnected")
    ELSE UNCHANGED <<sock, inst, pending>>

SocketClosed(s) ==
    /\ conn[s] \in {"open", "closing"}
    /\ conn' = [conn EXCEPT ![s] = "closed"]
    /\ HandleBridgeClose(s)
    /\ UNCHANGED <<bindings, call, sessions, used, owner>>
    /\ Persist

----------------------------------------------------------------------------
(* Bridge calls *)

\* bridgeCall once the payload and the URL passed: refused without an open
\* socket, else registered and sent on it.
BridgeCall(r, i) ==
    /\ pending[r] = "new"
    /\ pending' = [pending EXCEPT ![r] =
          IF sock[i] # NoSocket /\ conn[sock[i]] = "open" THEN i ELSE "refused"]
    /\ UNCHANGED <<inst, bindings, call, sessions, used, sock, owner, conn, file>>

Timeout(r) ==
    /\ pending[r] \in Ids
    /\ pending' = [pending EXCEPT ![r] = "timeout"]
    /\ UNCHANGED <<inst, bindings, call, sessions, used, sock, owner, conn, file>>

----------------------------------------------------------------------------
(* Properties *)

\* Every component of the pool's state keeps its shape.
PoolTypeOK ==
    /\ \A i \in Ids : \/ inst[i] = Absent
                      \/ inst[i] \in [mode : Modes, session : 0..MaxSession,
                                      state : {"STOPPED", "STARTING", "READY", "AWAITING_BRIDGE", "ERROR"}]
    /\ bindings \in [BoundHosts -> Ids \cup {NoId}]
    /\ sessions \subseteq 1..used /\ used \in 0..MaxSession
    /\ sock \in [Ids -> Sockets \cup {NoSocket}] /\ owner \in [Sockets -> Ids \cup {NoId}]
    /\ pending \in [Requests -> {"new"} \cup Ids \cup CallOutcomes]

\* A site binding never names a browser the pool does not have, not even when
\* it was made while remove() waited for the session manager, or after a
\* restart from the file: resolveBinding(host) never answers NOT_FOUND.
BindingsResolve ==
    /\ \A h \in BoundHosts : bindings[h] # NoId => bindings[h] \in Present
    /\ \A h \in BoundHosts : file.bindings[h] # NoId => file.modes[file.bindings[h]] # "absent"

\* A bridge call never waits on a browser that has no connection: closing,
\* stopping and removing settle the calls of the browser (handleBridgeClose,
\* rejectBridgeCalls), whichever socket they were sent on.
WaitsOnConnection == \A r \in Requests : pending[r] \in Ids => sock[pending[r]] # NoSocket

\* An open socket whose listeners carry a browser id is that browser's current
\* one: a second connection closes the first, and the first one's late close
\* event leaves the second alone.
OpenIsCurrent == \A s \in Sockets : conn[s] = "open" /\ owner[s] # NoId => sock[owner[s]] = s

\* The pool's sockets, calls and records agree about which connection is in use.
ConnectionsAgree == PoolTypeOK /\ WaitsOnConnection /\ OpenIsCurrent
=============================================================================
