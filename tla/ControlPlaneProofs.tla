------------------------- MODULE ControlPlaneProofs -------------------------
(* Proofs about the browser pool and its bridge connections.

   PoolInv is inductive.  Beside the two properties that the runs check it says
   what they rest on: a start, stop or remove that still holds the object of a
   browser finds that browser in the map (HeldPresent); the file is what memory
   holds (FileMirrors); the socket of a browser is open and its listeners carry
   that browser's id, and a socket that was never attached carries none
   (SocketsOwned).  The extension reaches the pool's state through sockets only:
   every step of ControlPlane is one of the pool's or leaves it alone
   (PlaneStepIsPoolStep), and each conjunct is proved action by action.       *)
EXTENDS ControlPlane, TLAPS

\* A browser the pool knows, and a start, stop or remove that waits.
Known == [mode : Modes, session : 0..MaxSession,
          state : {"STOPPED", "STARTING", "READY", "AWAITING_BRIDGE", "ERROR"}]
CallRecords == [op : {"start", "stop", "remove"}, id : Ids, session : 0..MaxSession,
                object : BOOLEAN]

InstancesTyped == inst \in [Ids -> Known \cup {Absent}]
CallsTyped == call \in [Callers -> CallRecords \cup {Idle}]
LinksTyped == /\ conn \in [Sockets -> {"unused", "open", "closing", "closed"}]
              /\ sock \in [Ids -> Sockets \cup {NoSocket}]
              /\ owner \in [Sockets -> Ids \cup {NoId}]
FieldsTyped == /\ bindings \in [BoundHosts -> Ids \cup {NoId}]
               /\ sessions \subseteq 1..used /\ used \in 0..MaxSession
PendingTyped == pending \in [Requests -> {"new"} \cup Ids \cup CallOutcomes]
PoolShape == InstancesTyped /\ CallsTyped /\ LinksTyped /\ FieldsTyped /\ PendingTyped

\* An object that is held is in the map: remove() takes it from the others.
HeldPresent == \A c \in Callers : call[c].object => inst[call[c].id] # Absent
\* What load() would find is what memory holds.
FileMirrors == file = [modes |-> [i \in Ids |-> inst[i].mode], bindings |-> bindings]
\* bridgeSockets and the ids in the listeners name each other.
SocketsOwned ==
    /\ \A i \in Ids : sock[i] # NoSocket => conn[sock[i]] = "open" /\ owner[sock[i]] = i
    /\ \A s \in Sockets : conn[s] = "unused" => owner[s] = NoId
\* Every binding in memory names a browser in the map.
BoundPresent == \A h \in BoundHosts : bindings[h] # NoId => bindings[h] \in Present

PoolInv == /\ PoolShape /\ HeldPresent /\ FileMirrors /\ SocketsOwned
           /\ OpenIsCurrent /\ WaitsOnConnection /\ BoundPresent

----------------------------------------------------------------------------
(* The steps of ControlPlane, as far as the pool sees them: a socket's number is
   taken, an upgrade attaches it or not, its first message registers it, and an
   answer may settle a call. *)

FreshSocket(s) ==
    /\ conn[s] \in {"unused", "closed"}
    /\ conn' = [conn EXCEPT ![s] = "unused"] /\ owner' = [owner EXCEPT ![s] = NoId]
    /\ UNCHANGED <<inst, bindings, call, sessions, used, sock, pending, file>>
Attaches(s) ==
    conn[s] = "unused" /\ (AttachBridge(s, Named) \/ RefuseBridge(s, Named) \/ AwaitReady(s))
Registers(s, i) == owner[s] = NoId /\ conn[s] = "open" /\ AutoRegister(s, i)

Answers(r) ==
    /\ pending' \in {pending, [pending EXCEPT ![r] = "answered"]}
    /\ UNCHANGED <<inst, bindings, call, sessions, used, sock, owner, conn, file>>

PoolStep ==
    \/ \E c \in Callers, i \in Ids, m \in Modes, b \in BOOLEAN : Add(c, i, m, b)
    \/ \E c \in Callers, i \in Ids : Start(c, i)
    \/ \E i \in Ids, m \in Modes : Configure(i, m)
    \/ \E c \in Callers, i \in Ids, op \in {"stop", "remove"} :
          StopOrRemoveNow(c, i, op) \/ StopAsked(c, i, op)
    \/ \E h \in BoundHosts, i \in Ids : Bind(h, i)
    \/ \E h \in BoundHosts : Unbind(h)
    \/ \E c \in Callers : StartDone(c) \/ StartFails(c) \/ StopDone(c) \/ StopFails(c)
    \/ \E s \in 1..MaxSession : SessionEnds(s)
    \/ Restart
    \/ \E s \in Sockets : FreshSocket(s) \/ Attaches(s) \/ SocketClosed(s)
    \/ \E s \in Sockets, i \in Ids : Registers(s, i)
    \/ \E i \in Ids : Ready(i)
    \/ \E r \in Requests : Answers(r)
    \/ \E r \in Requests, i \in Ids : BridgeCall(r, i)
    \/ \E r \in Requests : Timeout(r)

(* Whatever joins the two sides is a step of the pool, or does not touch it. *)
LEMMA PlaneStepIsPoolStep ==
    ASSUME PoolShape, PlaneNext
    PROVE  PoolStep \/ UNCHANGED poolVars
  <1> USE ControlPlaneConstants
  <1>1. CASE PoolRequest
    BY <1>1 DEF PoolRequest, PoolStep
  <1>2. CASE PoolProgress
    BY <1>2 DEF PoolProgress, PoolStep
  <1>3. CASE ExtensionStep
    BY <1>3 DEF ExtensionStep
  <1>4. CASE CreateSocket
    BY <1>4 DEF CreateSocket, Free, PoolStep, FreshSocket
  <1>5. CASE RestartPool
    BY <1>5 DEF RestartPool, PoolStep
  <1>6. ASSUME NEW s \in Sockets, Upgrade(s) PROVE PoolStep \/ UNCHANGED poolVars
    BY <1>6 DEF Upgrade, PoolStep, Attaches
  <1>7. ASSUME NEW s \in Sockets, ReadyArrives(s) PROVE PoolStep \/ UNCHANGED poolVars
    BY <1>7 DEF ReadyArrives, PoolStep, Registers, PoolShape, LinksTyped
  <1>8. ASSUME NEW s \in Sockets, PoolSeesClose(s) PROVE PoolStep
    BY <1>8 DEF PoolSeesClose, PoolStep
  <1>9. ASSUME NEW s \in Sockets, ExtensionSeesClose(s) \/ Drop(s) PROVE UNCHANGED poolVars
    BY <1>9 DEF ExtensionSeesClose, Drop
  <1>10. ASSUME NEW r \in Requests, RunCommand(r) PROVE UNCHANGED poolVars
    BY <1>10 DEF RunCommand
  <1>11. ASSUME NEW r \in Requests, ResponseArrives(r) PROVE PoolStep \/ UNCHANGED poolVars
    BY <1>11 DEF ResponseArrives, Response, Answers, PoolStep, poolVars
  <1>12. ASSUME NEW r \in Requests, CallTimeout(r) PROVE PoolStep
    BY <1>12 DEF CallTimeout, PoolStep
  <1>13. ASSUME NEW r \in Requests, NEW i \in Ids, SendCommand(r, i) PROVE PoolStep
    BY <1>13 DEF SendCommand, PoolStep
  <1> QED
    BY <1>1, <1>2, <1>3, <1>4, <1>5, <1>6, <1>7, <1>8, <1>9, <1>10, <1>11, <1>12,
        <1>13 DEF PlaneNext

(* update() keeps a browser's record a record. *)
LEMMA StateMoves ==
    ASSUME NEW x \in Known, NEW n \in 0..MaxSession, NEW m \in Modes,
           NEW st \in {"STOPPED", "STARTING", "READY", "AWAITING_BRIDGE", "ERROR"}
    PROVE  /\ [x EXCEPT !.state = st] \in Known
           /\ [x EXCEPT !.state = st, !.session = n] \in Known
           /\ [x EXCEPT !.session = n, !.state = st] \in Known
           /\ [x EXCEPT !.mode = m, !.state = st] \in Known
           /\ [mode |-> m, state |-> st, session |-> n] \in Known
  BY DEF Known

(* An instance at rest is stopped, or waits for its extension. *)
LEMMA RestState ==
    ASSUME NEW m
    PROVE  Rest(m) \in {"STOPPED", "STARTING", "READY", "AWAITING_BRIDGE", "ERROR"}
  BY DEF Rest

(* Ending a call, and losing the removed object in the others, keeps them calls. *)
LEMMA ReleasedTyped ==
    ASSUME PoolShape, NEW c \in Callers, NEW i \in Ids, NEW op
    PROVE  Released(c, i, op) \in [Callers -> CallRecords \cup {Idle}]
  <1>1. ASSUME NEW x \in CallRecords PROVE [x EXCEPT !.object = FALSE] \in CallRecords
    BY DEF CallRecords
  <1>2. ASSUME NEW d \in Callers, call[d].id = i PROVE call[d] \in CallRecords
    BY <1>2, PoolConstants DEF PoolShape, CallsTyped, Idle
  <1> QED
    BY <1>1, <1>2 DEF PoolShape, CallsTyped, Released

(* Every browser keeps its record.  stop() and start() write through the object they
   hold, which is in the map; a late message or close looks the browser up first. *)
LEMMA InstStep ==
    ASSUME PoolShape, HeldPresent, FileMirrors, PoolStep
    PROVE  InstancesTyped'
  <1> USE PoolConstants, ControlPlaneConstants DEF PoolShape, InstancesTyped, CallsTyped,
      LinksTyped, FieldsTyped, PendingTyped, HeldPresent, Known, CallRecords, Absent, Idle,
      Modes, Present, CallOutcomes, Rest, FileMirrors
  <1>1. ASSUME NEW c \in Callers, NEW i \in Ids, NEW m \in Modes, NEW b \in BOOLEAN,
      Add(c, i, m, b)
        PROVE  InstancesTyped'
    BY <1>1, SMTT(30) DEF Add, Starting, Persist
  <1>2. ASSUME NEW c \in Callers, NEW i \in Ids, Start(c, i) PROVE InstancesTyped'
    BY <1>2 DEF Start, Starting, Persist
  <1>3. ASSUME NEW i \in Ids, NEW m \in Modes, Configure(i, m) PROVE InstancesTyped'
    BY <1>3 DEF Configure, Persist
  <1>4. ASSUME NEW c \in Callers, NEW i \in Ids, NEW op \in {"stop", "remove"},
      StopOrRemoveNow(c, i, op)
        PROVE  InstancesTyped'
    <2>1. [inst[i] EXCEPT !.state = Rest(inst[i].mode)] \in Known
      <3>1. inst[i] \in Known /\ 0 \in 0..MaxSession
        BY <1>4 DEF StopOrRemoveNow
      <3> HIDE DEF Known, Rest
      <3> QED
        BY <3>1, StateMoves, RestState
    <2> QED
      BY <1>4, <2>1 DEF StopOrRemoveNow, Forget
  <1>5. ASSUME NEW c \in Callers, StartDone(c) PROVE InstancesTyped'
    BY <1>5 DEF StartDone, Persist
  <1>6. ASSUME NEW c \in Callers, StartFails(c) PROVE InstancesTyped'
    BY <1>6 DEF StartFails, Persist
  <1>7. ASSUME NEW c \in Callers, StopDone(c) PROVE InstancesTyped'
    <2>1. call[c].id \in Ids /\ call[c].object \in BOOLEAN
      BY <1>7 DEF StopDone, CallRecords, Idle
    <2>2. call[c].object => inst[call[c].id] \in Known
      BY <2>1 DEF HeldPresent
    <2>3. ASSUME call[c].object
          PROVE  [inst[call[c].id] EXCEPT !.session = 0, !.state = Rest(inst[call[c].id].mode)] \in Known
      <3>1. 0 \in 0..MaxSession
        BY PoolConstants
      <3> HIDE DEF Known, Rest
      <3> QED
        BY <2>2, <2>3, <3>1, StateMoves, RestState
    <2> QED
      BY <1>7, <2>1, <2>3 DEF StopDone, Forget
  <1>8. ASSUME NEW c \in Callers, StopFails(c) PROVE InstancesTyped'
    BY <1>8 DEF StopFails, Forget, Released, Persist
  <1>9. ASSUME Restart PROVE InstancesTyped'
    BY <1>9 DEF Restart, Load
  <1>10. ASSUME NEW s \in Sockets, Attaches(s) PROVE InstancesTyped'
    <2>1. inst[Named].mode = "bridge" => [inst[Named] EXCEPT !.state = "READY"] \in Known
      <3>1. inst[Named].mode = "bridge" => inst[Named] \in Known
        OBVIOUS
      <3> HIDE DEF Known
      <3> QED
        BY <3>1, StateMoves
    <2> QED
      BY <1>10, <2>1 DEF Attaches, AttachBridge, RefuseBridge, AwaitReady
  <1>11. ASSUME NEW s \in Sockets, NEW i \in Ids, Registers(s, i) PROVE InstancesTyped'
    BY <1>11 DEF Registers, AutoRegister, Replace, Persist
  <1>12. ASSUME NEW i \in Ids, Ready(i) PROVE InstancesTyped'
    BY <1>12 DEF Ready, Persist
  <1>13. ASSUME NEW s \in Sockets, SocketClosed(s) PROVE InstancesTyped'
    <2>1. \A i \in Ids : i \in Present => [inst[i] EXCEPT !.state = "AWAITING_BRIDGE"] \in Known
      <3>1. \A i \in Ids : i \in Present => inst[i] \in Known
        OBVIOUS
      <3> HIDE DEF Known
      <3> QED
        BY <3>1, StateMoves
    <2> QED
      BY <1>13, <2>1 DEF SocketClosed, HandleBridgeClose
  <1>14. CASE \/ \E c \in Callers, i \in Ids, op \in {"stop", "remove"} : StopAsked(c, i, op)
              \/ \E h \in BoundHosts, i \in Ids : Bind(h, i)
              \/ \E h \in BoundHosts : Unbind(h)
              \/ \E s \in 1..MaxSession : SessionEnds(s)
              \/ \E s \in Sockets : FreshSocket(s)
              \/ \E r \in Requests : Answers(r)
              \/ \E r \in Requests, i \in Ids : BridgeCall(r, i)
              \/ \E r \in Requests : Timeout(r)
    BY <1>14 DEF StopAsked, Bind, Unbind, SessionEnds, FreshSocket, Answers, BridgeCall,
        Timeout
  <1> QED
    BY <1>1, <1>2, <1>3, <1>4, <1>5, <1>6, <1>7, <1>8, <1>9, <1>10, <1>11, <1>12, <1>13,
        <1>14 DEF PoolStep

(* Calls keep their record: start() begins one, stop() and remove() of a running browser do. *)
LEMMA CallStep ==
    ASSUME PoolShape, PoolStep
    PROVE  CallsTyped'
  <1> USE PoolConstants, ControlPlaneConstants DEF Modes, PoolShape, InstancesTyped,
      CallsTyped, LinksTyped, FieldsTyped, PendingTyped
  <1>1. ASSUME NEW c \in Callers, NEW i \in Ids, NEW m \in Modes, NEW b \in BOOLEAN,
      Add(c, i, m, b)
        PROVE  CallsTyped'
    <2>1. \A j \in Ids : [op |-> "start", id |-> j, session |-> 0, object |-> TRUE] \in CallRecords
      BY DEF CallRecords
    <2> QED
      BY <1>1, <2>1 DEF Start, Add, Starting
  <1>2. ASSUME NEW c \in Callers, NEW i \in Ids, Start(c, i) PROVE CallsTyped'
    <2>1. \A j \in Ids : [op |-> "start", id |-> j, session |-> 0, object |-> TRUE] \in CallRecords
      BY DEF CallRecords
    <2> QED
      BY <1>2, <2>1 DEF Start, Add, Starting
  <1>3. ASSUME NEW c \in Callers, NEW i \in Ids, NEW op \in {"stop", "remove"},
      StopOrRemoveNow(c, i, op)
        PROVE  CallsTyped'
    BY <1>3, ReleasedTyped DEF StopOrRemoveNow
  <1>4. ASSUME NEW c \in Callers, NEW i \in Ids, NEW op \in {"stop", "remove"},
      StopAsked(c, i, op)
        PROVE  CallsTyped'
    <2>1. inst[i] \in Known
      BY <1>4 DEF StopAsked, Present
    <2>2. [op |-> op, id |-> i, session |-> inst[i].session,
        object |-> TRUE] \in CallRecords
      BY <2>1 DEF CallRecords, Known
    <2> QED
      BY <1>4, <2>2 DEF StopAsked
  <1>5. ASSUME NEW c \in Callers, StartDone(c) PROVE CallsTyped'
    BY <1>5 DEF StartDone, Persist
  <1>6. ASSUME NEW c \in Callers, StartFails(c) PROVE CallsTyped'
    BY <1>6 DEF StartFails, Persist
  <1>7. ASSUME NEW c \in Callers, StopDone(c) PROVE CallsTyped'
    <2>1. call[c].id \in Ids
      BY <1>7 DEF StopDone, CallRecords, Idle
    <2> QED
      BY <1>7, <2>1, ReleasedTyped DEF StopDone
  <1>8. ASSUME NEW c \in Callers, StopFails(c) PROVE CallsTyped'
    <2>1. call[c].id \in Ids
      BY <1>8 DEF StopFails, CallRecords, Idle
    <2> QED
      BY <1>8, <2>1, ReleasedTyped DEF StopFails
  <1>9. ASSUME Restart PROVE CallsTyped'
    BY <1>9 DEF Restart, Load
  <1>10. CASE \/ \E i \in Ids, m \in Modes : Configure(i, m)
              \/ \E h \in BoundHosts, i \in Ids : Bind(h, i)
              \/ \E h \in BoundHosts : Unbind(h)
              \/ \E s \in 1..MaxSession : SessionEnds(s)
              \/ \E s \in Sockets : FreshSocket(s)
              \/ \E s \in Sockets : Attaches(s)
              \/ \E s \in Sockets, i \in Ids : Registers(s, i)
              \/ \E i \in Ids : Ready(i)
              \/ \E r \in Requests : Answers(r)
              \/ \E s \in Sockets : SocketClosed(s)
              \/ \E r \in Requests, i \in Ids : BridgeCall(r, i)
              \/ \E r \in Requests : Timeout(r)
    BY <1>10 DEF Configure, Bind, Unbind, SessionEnds, FreshSocket, Attaches, AttachBridge,
        RefuseBridge, AwaitReady, Replace, Registers, AutoRegister, Ready, Answers,
        SocketClosed, BridgeCall, Timeout
  <1> QED
    BY <1>1, <1>2, <1>3, <1>4, <1>5, <1>6, <1>7, <1>8, <1>9, <1>10 DEF PoolStep

(* Sockets keep their states and owners. *)
LEMMA LinkStep ==
    ASSUME PoolShape, PoolStep
    PROVE  LinksTyped'
  <1> USE PoolConstants, ControlPlaneConstants DEF PoolShape, InstancesTyped, CallsTyped,
      LinksTyped, FieldsTyped, PendingTyped
  <1>1. ASSUME NEW c \in Callers, NEW i \in Ids, NEW op \in {"stop", "remove"},
      StopOrRemoveNow(c, i, op)
        PROVE  LinksTyped'
    BY <1>1 DEF StopOrRemoveNow, DropBridge, Forget, Released, Reject, Persist
  <1>2. ASSUME NEW c \in Callers, StopDone(c) PROVE LinksTyped'
    <2>1. call[c].id \in Ids
      BY <1>2 DEF StopDone, CallRecords, Idle
    <2> QED
      BY <1>2, <2>1 DEF StopDone, DropBridge
  <1>3. ASSUME Restart PROVE LinksTyped'
    BY <1>3 DEF Restart, Load
  <1>4. ASSUME NEW s \in Sockets, FreshSocket(s) PROVE LinksTyped'
    BY <1>4 DEF FreshSocket
  <1>5. ASSUME NEW s \in Sockets, Attaches(s) PROVE LinksTyped'
    BY <1>5 DEF Attaches, AttachBridge, RefuseBridge, AwaitReady, Replace, Persist
  <1>6. ASSUME NEW s \in Sockets, NEW i \in Ids, Registers(s, i) PROVE LinksTyped'
    BY <1>6 DEF Registers, AutoRegister, Replace, Persist
  <1>7. ASSUME NEW s \in Sockets, SocketClosed(s) PROVE LinksTyped'
    BY <1>7 DEF SocketClosed, HandleBridgeClose, Reject, Persist
  <1>8. CASE \/ \E c \in Callers, i \in Ids, m \in Modes, b \in BOOLEAN : Add(c, i, m, b)
             \/ \E c \in Callers, i \in Ids : Start(c, i)
             \/ \E i \in Ids, m \in Modes : Configure(i, m)
             \/ \E c \in Callers, i \in Ids, op \in {"stop", "remove"} : StopAsked(c, i, op)
             \/ \E h \in BoundHosts, i \in Ids : Bind(h, i)
             \/ \E h \in BoundHosts : Unbind(h)
             \/ \E c \in Callers : StartDone(c)
             \/ \E c \in Callers : StartFails(c)
             \/ \E c \in Callers : StopFails(c)
             \/ \E s \in 1..MaxSession : SessionEnds(s)
             \/ \E i \in Ids : Ready(i)
             \/ \E r \in Requests : Answers(r)
             \/ \E r \in Requests, i \in Ids : BridgeCall(r, i)
             \/ \E r \in Requests : Timeout(r)
    BY <1>8 DEF Add, Starting, Start, Configure, StopAsked, Bind, Unbind, StartDone,
        StartFails, StopFails, Forget, SessionEnds, Ready, Answers, BridgeCall, Timeout
  <1> QED
    BY <1>1, <1>2, <1>3, <1>4, <1>5, <1>6, <1>7, <1>8 DEF PoolStep

(* Bindings and sessions keep their types; a restart reads bindings back from the file. *)
LEMMA FieldStep ==
    ASSUME PoolShape, FileMirrors, PoolStep
    PROVE  FieldsTyped'
  <1> USE PoolConstants, ControlPlaneConstants DEF PoolShape, InstancesTyped, CallsTyped,
      LinksTyped, FieldsTyped, PendingTyped, FileMirrors
  <1>1. ASSUME NEW c \in Callers, NEW i \in Ids, NEW op \in {"stop", "remove"},
      StopOrRemoveNow(c, i, op)
        PROVE  FieldsTyped'
    BY <1>1 DEF StopOrRemoveNow, DropBridge, Forget, Released, Reject, Persist
  <1>2. ASSUME NEW h \in BoundHosts, NEW i \in Ids, Bind(h, i) PROVE FieldsTyped'
    BY <1>2 DEF Bind, Persist
  <1>3. ASSUME NEW h \in BoundHosts, Unbind(h) PROVE FieldsTyped'
    BY <1>3 DEF Unbind, Persist
  <1>4. ASSUME NEW c \in Callers, StartDone(c) PROVE FieldsTyped'
    BY <1>4 DEF StartDone, Persist
  <1>5. ASSUME NEW c \in Callers, StopDone(c) PROVE FieldsTyped'
    BY <1>5 DEF StopDone, DropBridge, Forget, Released, Reject, Persist
  <1>6. ASSUME NEW c \in Callers, StopFails(c) PROVE FieldsTyped'
    BY <1>6 DEF StopFails, Forget, Released, Persist
  <1>7. ASSUME NEW s \in 1..MaxSession, SessionEnds(s) PROVE FieldsTyped'
    BY <1>7 DEF SessionEnds
  <1>8. ASSUME Restart PROVE FieldsTyped'
    BY <1>8 DEF Restart, Load
  <1>9. CASE \/ \E c \in Callers, i \in Ids, m \in Modes, b \in BOOLEAN : Add(c, i, m, b)
             \/ \E c \in Callers, i \in Ids : Start(c, i)
             \/ \E i \in Ids, m \in Modes : Configure(i, m)
             \/ \E c \in Callers, i \in Ids, op \in {"stop", "remove"} : StopAsked(c, i, op)
             \/ \E c \in Callers : StartFails(c)
             \/ \E s \in Sockets : FreshSocket(s)
             \/ \E s \in Sockets : Attaches(s)
             \/ \E s \in Sockets, i \in Ids : Registers(s, i)
             \/ \E i \in Ids : Ready(i)
             \/ \E r \in Requests : Answers(r)
             \/ \E s \in Sockets : SocketClosed(s)
             \/ \E r \in Requests, i \in Ids : BridgeCall(r, i)
             \/ \E r \in Requests : Timeout(r)
    BY <1>9 DEF Add, Starting, Start, Configure, StopAsked, StartFails, FreshSocket,
        Attaches, AttachBridge, RefuseBridge, AwaitReady, Replace, Registers, AutoRegister,
        Ready, Answers, SocketClosed, BridgeCall, Timeout
  <1> QED
    BY <1>1, <1>2, <1>3, <1>4, <1>5, <1>6, <1>7, <1>8, <1>9 DEF PoolStep

(* A bridge call is new, waits on a browser, or has settled. *)
LEMMA PendingStep ==
    ASSUME PoolShape, PoolStep
    PROVE  PendingTyped'
  <1> USE PoolConstants, ControlPlaneConstants DEF PoolShape, InstancesTyped, CallsTyped,
      LinksTyped, FieldsTyped, PendingTyped, CallOutcomes
  <1>1. ASSUME NEW c \in Callers, NEW i \in Ids, NEW op \in {"stop", "remove"},
      StopOrRemoveNow(c, i, op)
        PROVE  PendingTyped'
    BY <1>1 DEF StopOrRemoveNow, DropBridge, Forget, Released, Reject, Persist
  <1>2. ASSUME NEW c \in Callers, StopDone(c) PROVE PendingTyped'
    BY <1>2 DEF StopDone, DropBridge, Forget, Released, Reject, Persist
  <1>3. ASSUME Restart PROVE PendingTyped'
    BY <1>3 DEF Restart, Load
  <1>4. ASSUME NEW r \in Requests, Answers(r) PROVE PendingTyped'
    BY <1>4 DEF Answers
  <1>5. ASSUME NEW s \in Sockets, SocketClosed(s) PROVE PendingTyped'
    BY <1>5 DEF SocketClosed, HandleBridgeClose, Reject, Persist
  <1>6. ASSUME NEW r \in Requests, NEW i \in Ids, BridgeCall(r, i) PROVE PendingTyped'
    BY <1>6 DEF BridgeCall
  <1>7. ASSUME NEW r \in Requests, Timeout(r) PROVE PendingTyped'
    BY <1>7 DEF Timeout
  <1>8. CASE \/ \E c \in Callers, i \in Ids, m \in Modes, b \in BOOLEAN : Add(c, i, m, b)
             \/ \E c \in Callers, i \in Ids : Start(c, i)
             \/ \E i \in Ids, m \in Modes : Configure(i, m)
             \/ \E c \in Callers, i \in Ids, op \in {"stop", "remove"} : StopAsked(c, i, op)
             \/ \E h \in BoundHosts, i \in Ids : Bind(h, i)
             \/ \E h \in BoundHosts : Unbind(h)
             \/ \E c \in Callers : StartDone(c)
             \/ \E c \in Callers : StartFails(c)
             \/ \E c \in Callers : StopFails(c)
             \/ \E s \in 1..MaxSession : SessionEnds(s)
             \/ \E s \in Sockets : FreshSocket(s)
             \/ \E s \in Sockets : Attaches(s)
             \/ \E s \in Sockets, i \in Ids : Registers(s, i)
             \/ \E i \in Ids : Ready(i)
    BY <1>8 DEF Add, Starting, Start, Configure, StopAsked, Bind, Unbind, StartDone,
        StartFails, StopFails, Forget, SessionEnds, FreshSocket, Attaches, AttachBridge,
        RefuseBridge, AwaitReady, Replace, Registers, AutoRegister, Ready
  <1> QED
    BY <1>1, <1>2, <1>3, <1>4, <1>5, <1>6, <1>7, <1>8 DEF PoolStep

(* The socket in the map is open and carries the browser's id. *)
LEMMA SocketsStep ==
    ASSUME PoolShape, SocketsOwned, PoolStep
    PROVE  SocketsOwned'
  <1> USE PoolConstants, ControlPlaneConstants DEF PoolShape, InstancesTyped, CallsTyped,
      LinksTyped, FieldsTyped, PendingTyped, SocketsOwned
  <1>1. ASSUME NEW c \in Callers, NEW i \in Ids, NEW op \in {"stop", "remove"},
      StopOrRemoveNow(c, i, op)
        PROVE  SocketsOwned'
    BY <1>1 DEF StopOrRemoveNow, DropBridge, Forget, Released, Reject, Persist
  <1>2. ASSUME NEW c \in Callers, StopDone(c) PROVE SocketsOwned'
    BY <1>2 DEF StopDone, DropBridge, Forget, Released, Reject, Persist, CallRecords, Idle
  <1>3. ASSUME Restart PROVE SocketsOwned'
    BY <1>3 DEF Restart, Load
  <1>4. ASSUME NEW s \in Sockets, FreshSocket(s) PROVE SocketsOwned'
    BY <1>4 DEF FreshSocket
  <1>5. ASSUME NEW s \in Sockets, Attaches(s) PROVE SocketsOwned'
    BY <1>5 DEF Attaches, AttachBridge, RefuseBridge, AwaitReady, Replace, Persist
  <1>6. ASSUME NEW s \in Sockets, NEW i \in Ids, Registers(s, i) PROVE SocketsOwned'
    BY <1>6 DEF Registers, AutoRegister, Replace, Persist
  <1>7. ASSUME NEW s \in Sockets, SocketClosed(s) PROVE SocketsOwned'
    BY <1>7 DEF SocketClosed, HandleBridgeClose, Reject, Persist
  <1>8. CASE \/ \E c \in Callers, i \in Ids, m \in Modes, b \in BOOLEAN : Add(c, i, m, b)
             \/ \E c \in Callers, i \in Ids : Start(c, i)
             \/ \E i \in Ids, m \in Modes : Configure(i, m)
             \/ \E c \in Callers, i \in Ids, op \in {"stop", "remove"} : StopAsked(c, i, op)
             \/ \E h \in BoundHosts, i \in Ids : Bind(h, i)
             \/ \E h \in BoundHosts : Unbind(h)
             \/ \E c \in Callers : StartDone(c)
             \/ \E c \in Callers : StartFails(c)
             \/ \E c \in Callers : StopFails(c)
             \/ \E s \in 1..MaxSession : SessionEnds(s)
             \/ \E i \in Ids : Ready(i)
             \/ \E r \in Requests : Answers(r)
             \/ \E r \in Requests, i \in Ids : BridgeCall(r, i)
             \/ \E r \in Requests : Timeout(r)
    BY <1>8 DEF Add, Starting, Start, Configure, StopAsked, Bind, Unbind, StartDone,
        StartFails, StopFails, Forget, SessionEnds, Ready, Answers, BridgeCall, Timeout
  <1> QED
    BY <1>1, <1>2, <1>3, <1>4, <1>5, <1>6, <1>7, <1>8 DEF PoolStep

(* A second connection closes the first; a late close leaves its successor alone. *)
LEMMA CurrentStep ==
    ASSUME PoolShape, SocketsOwned, OpenIsCurrent, PoolStep
    PROVE  OpenIsCurrent'
  <1> USE PoolConstants, ControlPlaneConstants DEF PoolShape, InstancesTyped, CallsTyped,
      LinksTyped, FieldsTyped, PendingTyped, SocketsOwned, OpenIsCurrent
  <1>1. ASSUME NEW c \in Callers, NEW i \in Ids, NEW op \in {"stop", "remove"},
      StopOrRemoveNow(c, i, op)
        PROVE  OpenIsCurrent'
    BY <1>1 DEF StopOrRemoveNow, DropBridge, Forget, Released, Reject, Persist
  <1>2. ASSUME NEW c \in Callers, StopDone(c) PROVE OpenIsCurrent'
    BY <1>2 DEF StopDone, DropBridge, Forget, Released, Reject, Persist, CallRecords, Idle
  <1>3. ASSUME Restart PROVE OpenIsCurrent'
    BY <1>3 DEF Restart, Load
  <1>4. ASSUME NEW s \in Sockets, FreshSocket(s) PROVE OpenIsCurrent'
    BY <1>4 DEF FreshSocket
  <1>5. ASSUME NEW s \in Sockets, Attaches(s) PROVE OpenIsCurrent'
    BY <1>5 DEF Attaches, AttachBridge, RefuseBridge, AwaitReady, Replace, Persist
  <1>6. ASSUME NEW s \in Sockets, NEW i \in Ids, Registers(s, i) PROVE OpenIsCurrent'
    BY <1>6 DEF Registers, AutoRegister, Replace, Persist
  <1>7. ASSUME NEW s \in Sockets, SocketClosed(s) PROVE OpenIsCurrent'
    BY <1>7 DEF SocketClosed, HandleBridgeClose, Reject, Persist
  <1>8. CASE \/ \E c \in Callers, i \in Ids, m \in Modes, b \in BOOLEAN : Add(c, i, m, b)
             \/ \E c \in Callers, i \in Ids : Start(c, i)
             \/ \E i \in Ids, m \in Modes : Configure(i, m)
             \/ \E c \in Callers, i \in Ids, op \in {"stop", "remove"} : StopAsked(c, i, op)
             \/ \E h \in BoundHosts, i \in Ids : Bind(h, i)
             \/ \E h \in BoundHosts : Unbind(h)
             \/ \E c \in Callers : StartDone(c)
             \/ \E c \in Callers : StartFails(c)
             \/ \E c \in Callers : StopFails(c)
             \/ \E s \in 1..MaxSession : SessionEnds(s)
             \/ \E i \in Ids : Ready(i)
             \/ \E r \in Requests : Answers(r)
             \/ \E r \in Requests, i \in Ids : BridgeCall(r, i)
             \/ \E r \in Requests : Timeout(r)
    BY <1>8 DEF Add, Starting, Start, Configure, StopAsked, Bind, Unbind, StartDone,
        StartFails, StopFails, Forget, SessionEnds, Ready, Answers, BridgeCall, Timeout
  <1> QED
    BY <1>1, <1>2, <1>3, <1>4, <1>5, <1>6, <1>7, <1>8 DEF PoolStep

(* Wherever a connection is dropped, the calls that wait on its browser settle. *)
LEMMA WaitsStep ==
    ASSUME PoolShape, WaitsOnConnection, PoolStep
    PROVE  WaitsOnConnection'
  <1> USE PoolConstants, ControlPlaneConstants DEF PoolShape, InstancesTyped, CallsTyped,
      LinksTyped, FieldsTyped, PendingTyped, WaitsOnConnection, CallOutcomes
  <1>1. ASSUME NEW c \in Callers, NEW i \in Ids, NEW op \in {"stop", "remove"},
      StopOrRemoveNow(c, i, op)
        PROVE  WaitsOnConnection'
    BY <1>1 DEF StopOrRemoveNow, DropBridge, Forget, Released, Reject, Persist
  <1>2. ASSUME NEW c \in Callers, StopDone(c) PROVE WaitsOnConnection'
    BY <1>2 DEF StopDone, DropBridge, Forget, Released, Reject, Persist
  <1>3. ASSUME Restart PROVE WaitsOnConnection'
    BY <1>3 DEF Restart, Load
  <1>4. ASSUME NEW s \in Sockets, Attaches(s) PROVE WaitsOnConnection'
    BY <1>4 DEF Attaches, AttachBridge, RefuseBridge, AwaitReady, Replace, Persist
  <1>5. ASSUME NEW s \in Sockets, NEW i \in Ids, Registers(s, i) PROVE WaitsOnConnection'
    BY <1>5 DEF Registers, AutoRegister, Replace, Persist
  <1>6. ASSUME NEW r \in Requests, Answers(r) PROVE WaitsOnConnection'
    BY <1>6 DEF Answers
  <1>7. ASSUME NEW s \in Sockets, SocketClosed(s) PROVE WaitsOnConnection'
    BY <1>7 DEF SocketClosed, HandleBridgeClose, Reject, Persist
  <1>8. ASSUME NEW r \in Requests, NEW i \in Ids, BridgeCall(r, i)
        PROVE  WaitsOnConnection'
    BY <1>8 DEF BridgeCall
  <1>9. ASSUME NEW r \in Requests, Timeout(r) PROVE WaitsOnConnection'
    BY <1>9 DEF Timeout
  <1>10. CASE \/ \E c \in Callers, i \in Ids, m \in Modes, b \in BOOLEAN : Add(c, i, m, b)
              \/ \E c \in Callers, i \in Ids : Start(c, i)
              \/ \E i \in Ids, m \in Modes : Configure(i, m)
              \/ \E c \in Callers, i \in Ids, op \in {"stop", "remove"} : StopAsked(c, i, op)
              \/ \E h \in BoundHosts, i \in Ids : Bind(h, i)
              \/ \E h \in BoundHosts : Unbind(h)
              \/ \E c \in Callers : StartDone(c)
              \/ \E c \in Callers : StartFails(c)
              \/ \E c \in Callers : StopFails(c)
              \/ \E s \in 1..MaxSession : SessionEnds(s)
              \/ \E s \in Sockets : FreshSocket(s)
              \/ \E i \in Ids : Ready(i)
    BY <1>10 DEF Add, Starting, Start, Configure, StopAsked, Bind, Unbind, StartDone,
        StartFails, StopFails, Forget, SessionEnds, FreshSocket, Ready
  <1> QED
    BY <1>1, <1>2, <1>3, <1>4, <1>5, <1>6, <1>7, <1>8, <1>9, <1>10 DEF PoolStep

(* Every change of a mode or a binding is persisted in the same stretch. *)
LEMMA FileStep ==
    ASSUME PoolShape, FileMirrors, PoolStep
    PROVE  FileMirrors'
  <1> USE PoolConstants, ControlPlaneConstants DEF PoolShape, InstancesTyped, CallsTyped,
      LinksTyped, FieldsTyped, PendingTyped, FileMirrors, Absent, Known, Idle
  <1>1. ASSUME NEW c \in Callers, NEW i \in Ids, NEW m \in Modes, NEW b \in BOOLEAN,
      Add(c, i, m, b)
        PROVE  FileMirrors'
    BY <1>1 DEF Add, Starting, Persist
  <1>2. ASSUME NEW c \in Callers, NEW i \in Ids, Start(c, i) PROVE FileMirrors'
    BY <1>2 DEF Start, Starting, Persist
  <1>3. ASSUME NEW i \in Ids, NEW m \in Modes, Configure(i, m) PROVE FileMirrors'
    BY <1>3 DEF Configure, Persist
  <1>4. ASSUME NEW c \in Callers, NEW i \in Ids, NEW op \in {"stop", "remove"},
      StopOrRemoveNow(c, i, op)
        PROVE  FileMirrors'
    BY <1>4 DEF StopOrRemoveNow, DropBridge, Forget, Released, Reject, Persist
  <1>5. ASSUME NEW h \in BoundHosts, NEW i \in Ids, Bind(h, i) PROVE FileMirrors'
    BY <1>5 DEF Bind, Persist
  <1>6. ASSUME NEW h \in BoundHosts, Unbind(h) PROVE FileMirrors'
    BY <1>6 DEF Unbind, Persist
  <1>7. ASSUME NEW c \in Callers, StartDone(c) PROVE FileMirrors'
    BY <1>7 DEF StartDone, Persist
  <1>8. ASSUME NEW c \in Callers, StartFails(c) PROVE FileMirrors'
    BY <1>8 DEF StartFails, Persist
  <1>9. ASSUME NEW c \in Callers, StopDone(c) PROVE FileMirrors'
    BY <1>9 DEF StopDone, DropBridge, Forget, Released, Reject, Persist
  <1>10. ASSUME NEW c \in Callers, StopFails(c) PROVE FileMirrors'
    BY <1>10 DEF StopFails, Forget, Released, Persist
  <1>11. ASSUME Restart PROVE FileMirrors'
    BY <1>11 DEF Restart, Load
  <1>12. ASSUME NEW s \in Sockets, Attaches(s) PROVE FileMirrors'
    BY <1>12 DEF Attaches, AttachBridge, RefuseBridge, AwaitReady, Replace, Persist
  <1>13. ASSUME NEW s \in Sockets, NEW i \in Ids, Registers(s, i) PROVE FileMirrors'
    BY <1>13 DEF Registers, AutoRegister, Replace, Persist
  <1>14. ASSUME NEW i \in Ids, Ready(i) PROVE FileMirrors'
    BY <1>14 DEF Ready, Persist
  <1>15. ASSUME NEW s \in Sockets, SocketClosed(s) PROVE FileMirrors'
    BY <1>15 DEF SocketClosed, HandleBridgeClose, Reject, Persist
  <1>16. CASE \/ \E c \in Callers, i \in Ids, op \in {"stop", "remove"} : StopAsked(c, i, op)
              \/ \E s \in 1..MaxSession : SessionEnds(s)
              \/ \E s \in Sockets : FreshSocket(s)
              \/ \E r \in Requests : Answers(r)
              \/ \E r \in Requests, i \in Ids : BridgeCall(r, i)
              \/ \E r \in Requests : Timeout(r)
    BY <1>16 DEF StopAsked, SessionEnds, FreshSocket, Answers, BridgeCall, Timeout
  <1> QED
    BY <1>1, <1>2, <1>3, <1>4, <1>5, <1>6, <1>7, <1>8, <1>9, <1>10, <1>11, <1>12, <1>13,
        <1>14, <1>15, <1>16 DEF PoolStep

(* remove() drops the bindings of its browser with the browser. *)
LEMMA BoundStep ==
    ASSUME PoolShape, FileMirrors, BoundPresent, PoolStep
    PROVE  BoundPresent'
  <1> USE PoolConstants, ControlPlaneConstants DEF PoolShape, InstancesTyped, CallsTyped,
      LinksTyped, FieldsTyped, PendingTyped, FileMirrors, BoundPresent, Present, Absent,
      Known, Modes
  <1>1. ASSUME NEW c \in Callers, NEW i \in Ids, NEW m \in Modes, NEW b \in BOOLEAN,
      Add(c, i, m, b)
        PROVE  BoundPresent'
    BY <1>1 DEF Add, Starting, Persist
  <1>2. ASSUME NEW c \in Callers, NEW i \in Ids, Start(c, i) PROVE BoundPresent'
    BY <1>2 DEF Start, Starting, Persist
  <1>3. ASSUME NEW i \in Ids, NEW m \in Modes, Configure(i, m) PROVE BoundPresent'
    BY <1>3 DEF Configure, Persist
  <1>4. ASSUME NEW c \in Callers, NEW i \in Ids, NEW op \in {"stop", "remove"},
      StopOrRemoveNow(c, i, op)
        PROVE  BoundPresent'
    BY <1>4 DEF StopOrRemoveNow, DropBridge, Forget, Released, Reject, Persist
  <1>5. ASSUME NEW h \in BoundHosts, NEW i \in Ids, Bind(h, i) PROVE BoundPresent'
    BY <1>5 DEF Bind, Persist
  <1>6. ASSUME NEW h \in BoundHosts, Unbind(h) PROVE BoundPresent'
    BY <1>6 DEF Unbind, Persist
  <1>7. ASSUME NEW c \in Callers, StartDone(c) PROVE BoundPresent'
    BY <1>7 DEF StartDone, Persist
  <1>8. ASSUME NEW c \in Callers, StartFails(c) PROVE BoundPresent'
    BY <1>8 DEF StartFails, Persist
  <1>9. ASSUME NEW c \in Callers, StopDone(c) PROVE BoundPresent'
    BY <1>9 DEF StopDone, DropBridge, Forget, Released, Reject, Persist
  <1>10. ASSUME NEW c \in Callers, StopFails(c) PROVE BoundPresent'
    BY <1>10 DEF StopFails, Forget, Released, Persist
  <1>11. ASSUME Restart PROVE BoundPresent'
    BY <1>11 DEF Restart, Load
  <1>12. ASSUME NEW s \in Sockets, Attaches(s) PROVE BoundPresent'
    BY <1>12 DEF Attaches, AttachBridge, RefuseBridge, AwaitReady, Replace, Persist
  <1>13. ASSUME NEW s \in Sockets, NEW i \in Ids, Registers(s, i) PROVE BoundPresent'
    BY <1>13 DEF Registers, AutoRegister, Replace, Persist
  <1>14. ASSUME NEW i \in Ids, Ready(i) PROVE BoundPresent'
    BY <1>14 DEF Ready, Persist
  <1>15. ASSUME NEW s \in Sockets, SocketClosed(s) PROVE BoundPresent'
    BY <1>15 DEF SocketClosed, HandleBridgeClose, Reject, Persist
  <1>16. CASE \/ \E c \in Callers, i \in Ids, op \in {"stop", "remove"} : StopAsked(c, i, op)
              \/ \E s \in 1..MaxSession : SessionEnds(s)
              \/ \E s \in Sockets : FreshSocket(s)
              \/ \E r \in Requests : Answers(r)
              \/ \E r \in Requests, i \in Ids : BridgeCall(r, i)
              \/ \E r \in Requests : Timeout(r)
    BY <1>16 DEF StopAsked, SessionEnds, FreshSocket, Answers, BridgeCall, Timeout
  <1> QED
    BY <1>1, <1>2, <1>3, <1>4, <1>5, <1>6, <1>7, <1>8, <1>9, <1>10, <1>11, <1>12, <1>13,
        <1>14, <1>15, <1>16 DEF PoolStep

(* Whoever removes a browser takes the object from every call that holds it. *)
LEMMA HeldStep ==
    ASSUME PoolShape, HeldPresent, PoolStep
    PROVE  HeldPresent'
  <1> USE PoolConstants, ControlPlaneConstants DEF PoolShape, InstancesTyped, CallsTyped,
      LinksTyped, FieldsTyped, PendingTyped, HeldPresent, Absent, Known, Modes, Idle,
      CallRecords, Present
  <1>1. ASSUME NEW c \in Callers, NEW i \in Ids, NEW m \in Modes, NEW b \in BOOLEAN,
      Add(c, i, m, b)
        PROVE  HeldPresent'
    BY <1>1 DEF Add, Starting, Persist
  <1>2. ASSUME NEW c \in Callers, NEW i \in Ids, Start(c, i) PROVE HeldPresent'
    BY <1>2 DEF Start, Starting, Persist
  <1>3. ASSUME NEW i \in Ids, NEW m \in Modes, Configure(i, m) PROVE HeldPresent'
    BY <1>3 DEF Configure, Persist
  <1>4. ASSUME NEW c \in Callers, NEW i \in Ids, NEW op \in {"stop", "remove"},
      StopOrRemoveNow(c, i, op)
        PROVE  HeldPresent'
    BY <1>4 DEF StopOrRemoveNow, DropBridge, Forget, Released, Reject, Persist
  <1>5. ASSUME NEW c \in Callers, NEW i \in Ids, NEW op \in {"stop", "remove"},
      StopAsked(c, i, op)
        PROVE  HeldPresent'
    BY <1>5 DEF StopAsked
  <1>6. ASSUME NEW c \in Callers, StartDone(c) PROVE HeldPresent'
    BY <1>6 DEF StartDone, Persist
  <1>7. ASSUME NEW c \in Callers, StartFails(c) PROVE HeldPresent'
    BY <1>7 DEF StartFails, Persist
  <1>8. ASSUME NEW c \in Callers, StopDone(c) PROVE HeldPresent'
    BY <1>8 DEF StopDone, DropBridge, Forget, Released, Reject, Persist
  <1>9. ASSUME NEW c \in Callers, StopFails(c) PROVE HeldPresent'
    BY <1>9 DEF StopFails, Forget, Released, Persist
  <1>10. ASSUME Restart PROVE HeldPresent'
    BY <1>10 DEF Restart, Load
  <1>11. ASSUME NEW s \in Sockets, Attaches(s) PROVE HeldPresent'
    BY <1>11 DEF Attaches, AttachBridge, RefuseBridge, AwaitReady, Replace, Persist
  <1>12. ASSUME NEW s \in Sockets, NEW i \in Ids, Registers(s, i) PROVE HeldPresent'
    BY <1>12 DEF Registers, AutoRegister, Replace, Persist
  <1>13. ASSUME NEW i \in Ids, Ready(i) PROVE HeldPresent'
    BY <1>13 DEF Ready, Persist
  <1>14. ASSUME NEW s \in Sockets, SocketClosed(s) PROVE HeldPresent'
    BY <1>14 DEF SocketClosed, HandleBridgeClose, Reject, Persist
  <1>15. CASE \/ \E h \in BoundHosts, i \in Ids : Bind(h, i)
              \/ \E h \in BoundHosts : Unbind(h)
              \/ \E s \in 1..MaxSession : SessionEnds(s)
              \/ \E s \in Sockets : FreshSocket(s)
              \/ \E r \in Requests : Answers(r)
              \/ \E r \in Requests, i \in Ids : BridgeCall(r, i)
              \/ \E r \in Requests : Timeout(r)
    BY <1>15 DEF Bind, Unbind, SessionEnds, FreshSocket, Answers, BridgeCall, Timeout
  <1> QED
    BY <1>1, <1>2, <1>3, <1>4, <1>5, <1>6, <1>7, <1>8, <1>9, <1>10, <1>11, <1>12, <1>13,
        <1>14, <1>15 DEF PoolStep

(* Together: every step of the pool keeps the invariant. *)
LEMMA PoolInvStep ==
    ASSUME PoolInv, PoolStep
    PROVE  PoolInv'
  <1> USE DEF PoolInv
  <1>1. PoolShape'
    BY InstStep, CallStep, LinkStep, FieldStep, PendingStep DEF PoolShape
  <1> QED
    BY <1>1, HeldStep, FileStep, SocketsStep, CurrentStep, WaitsStep, BoundStep

(* The control plane starts with an empty pool, an empty file and no socket. *)
LEMMA PoolInvInit ==
    ASSUME PlaneInit
    PROVE  PoolInv
  <1> USE PoolConstants DEF PlaneInit, PoolInit
  <1>1. PoolShape
    BY DEF PoolShape, InstancesTyped, CallsTyped, LinksTyped, FieldsTyped, PendingTyped
  <1>2. HeldPresent /\ FileMirrors /\ SocketsOwned
    BY DEF HeldPresent, FileMirrors, SocketsOwned, Idle, Absent
  <1>3. OpenIsCurrent /\ WaitsOnConnection /\ BoundPresent
    BY DEF OpenIsCurrent, WaitsOnConnection, BoundPresent
  <1> QED
    BY <1>1, <1>2, <1>3 DEF PoolInv

(* In every state the pool can reach, its records, bindings, sockets and calls fit
   together (src/control-plane/browser-pool.ts). *)
THEOREM PoolInvHolds == PlaneSpec => []PoolInv
  <1>1. PlaneInit => PoolInv
    BY PoolInvInit
  <1>2. PoolInv /\ [PlaneNext]_cpVars => PoolInv'
    <2>1. ASSUME PoolInv, UNCHANGED poolVars PROVE PoolInv'
      BY <2>1 DEF PoolInv, poolVars, PoolShape, InstancesTyped, CallsTyped, LinksTyped,
                  FieldsTyped, PendingTyped, HeldPresent, FileMirrors, SocketsOwned,
                  OpenIsCurrent, WaitsOnConnection, BoundPresent, Present
    <2>2. ASSUME PoolInv, PlaneNext PROVE PoolInv'
      BY <2>1, <2>2, PlaneStepIsPoolStep, PoolInvStep DEF PoolInv
    <2> QED
      BY <2>1, <2>2 DEF cpVars
  <1> QED
    BY <1>1, <1>2, PTL DEF PlaneSpec

(* resolveBinding never answers NOT_FOUND, now or after a restart: remove() takes the
   bindings with the browser even when they were made while it waited for the session
   manager, and the file never names a browser it does not hold. *)
THEOREM BindingsAlwaysResolve == PlaneSpec => []BindingsResolve
  <1>1. PoolInv => BindingsResolve
    BY DEF PoolInv, PoolShape, InstancesTyped, FieldsTyped, BindingsResolve, BoundPresent,
        FileMirrors, Present,
           Known, Modes, Absent
  <1> QED
    BY <1>1, PoolInvHolds, PTL

(* No bridge call waits on a browser without a connection, and every open socket that
   carries a browser id is that browser's current one, for any number of browsers,
   sockets and calls and any interleaving of their closes (handleBridgeClose,
   rejectBridgeCalls, attachOrAutoRegisterBridge). *)
THEOREM ConnectionsAlwaysAgree == PlaneSpec => []ConnectionsAgree
  <1>1. PoolInv => ConnectionsAgree
    BY DEF PoolInv, PoolShape, InstancesTyped, LinksTyped, FieldsTyped, PendingTyped,
           ConnectionsAgree, PoolTypeOK, Known
  <1> QED
    BY <1>1, PoolInvHolds, PTL

(* A crash at any point loses neither a browser nor a binding: persist() is called in
   the same stretch as every change, so load() finds what the pool last held. *)
THEOREM RestartLosesNothing ==
    PlaneSpec => [][RestartPool => /\ bindings' = bindings
                                   /\ \A i \in Ids : inst'[i].mode = inst[i].mode]_cpVars
  <1>1. ASSUME PoolInv, RestartPool
        PROVE  bindings' = bindings /\ \A i \in Ids : inst'[i].mode = inst[i].mode
    BY <1>1 DEF PoolInv, PoolShape, InstancesTyped, FileMirrors, RestartPool, Restart,
        Load, Known, Modes, Absent
  <1> QED
    BY <1>1, PoolInvHolds, PTL
=============================================================================
