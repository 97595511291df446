----------------------------- MODULE StudioStreams -----------------------------
(* The automation socket of the Studio API (attachAutomationSocket) and the window
   synchronizer (src/synchronizer/index.ts): both queue work behind the promise
   of the work before it. *)
EXTENDS Integers, Sequences, FiniteSets

CONSTANTS Windows,       \* target sessions of a capture
          MaxMessages,    \* bound: messages of the client
          MaxActions      \* bound: actions of the captured window

VARIABLES socket,     \* [open, sent, tail, running, replies]
          screencast, \* [timer, generation, inFlight, late]
          capture     \* [on, events, tail, running, done]

streamVars == <<socket, screencast, capture>>

StreamsInit ==
    /\ socket = [open |-> TRUE, sent |-> 0, tail |-> << >>, running |-> {}, replies |-> << >>]
    /\ screencast = [timer |-> 0, generation |-> 0, inFlight |-> {}, late |-> FALSE]
    /\ capture = [on |-> FALSE, events |-> 0, tail |-> << >>, running |-> [t \in {} |-> 0],
                  done |-> [t \in Windows |-> << >>]]

-------------------------------------------------------------------------------
SocketMessage(op) ==
    /\ socket.open /\ socket.sent < MaxMessages
    /\ socket' = [socket EXCEPT !.sent = @ + 1, !.tail = Append(@, [id |-> socket.sent + 1, op |-> op])]
    /\ UNCHANGED <<screencast, capture>>

Replied(s, id) == IF s.open THEN [s EXCEPT !.replies = Append(@, id)] ELSE s

\* Mutant: a message does not wait for the one before it.
ProceedAtOnce ==
    /\ socket.tail # << >>
    /\ LET m == Head(socket.tail) IN
       /\ m.op = "act"
       /\ socket' = [socket EXCEPT !.tail = Tail(@), !.running = @ \cup {m.id}]
    /\ UNCHANGED <<screencast, capture>>

\* The next message of the tail: an operation of the session, or the timer of the
\* screencast is set or cleared at once.
Proceed ==
    /\ socket.running = {} /\ socket.tail # << >>
    /\ LET m == Head(socket.tail)
           rest == [socket EXCEPT !.tail = Tail(@)] IN
       \/ m.op = "act" /\ socket' = [rest EXCEPT !.running = {m.id}] /\ UNCHANGED screencast
       \/ /\ m.op = "start_screencast" /\ socket' = Replied(rest, m.id)
          /\ screencast' = [screencast EXCEPT !.generation = @ + 1, !.timer = screencast.generation + 1]
       \/ m.op = "stop_screencast" /\ socket' = Replied(rest, m.id) /\ screencast' = [screencast EXCEPT !.timer = 0]
    /\ UNCHANGED capture

\* The operation is answered, with its data or its error.
Settle ==
    /\ \E id \in socket.running : socket' = Replied([socket EXCEPT !.running = @ \ {id}], id)
    /\ UNCHANGED <<screencast, capture>>

CloseSocket ==
    /\ socket.open /\ socket' = [socket EXCEPT !.open = FALSE]
    /\ screencast' = [screencast EXCEPT !.timer = 0]
    /\ UNCHANGED capture

\* The interval takes a screenshot unless its last one is not back.
CastTick ==
    /\ screencast.timer # 0 /\ socket.open /\ screencast.timer \notin screencast.inFlight
    /\ screencast' = [screencast EXCEPT !.inFlight = @ \cup {screencast.timer}]
    /\ UNCHANGED <<socket, capture>>

\* The screenshot is back and is sent if the socket is still open, or it failed.
Frame ==
    /\ \E g \in screencast.inFlight, sent \in BOOLEAN :
          /\ sent => socket.open
          /\ screencast' = [screencast EXCEPT !.inFlight = @ \ {g}, !.late = @ \/ (sent /\ ~socket.open)]
    /\ UNCHANGED <<socket, capture>>

-------------------------------------------------------------------------------
StartCapture ==
    /\ ~capture.on /\ capture.events = 0 /\ capture' = [capture EXCEPT !.on = TRUE]
    /\ UNCHANGED <<socket, screencast>>

\* The master window acts: its action joins the tail of the capture.
MasterActs ==
    /\ capture.on /\ capture.events < MaxActions
    /\ capture' = [capture EXCEPT !.events = @ + 1, !.tail = Append(@, capture.events + 1)]
    /\ UNCHANGED <<socket, screencast>>

\* broadcast: every target gets the action, each after its own delay.
CastEvent ==
    /\ capture.tail # << >> /\ DOMAIN capture.running = {}
    /\ capture' = [capture EXCEPT !.tail = Tail(@),
                                  !.running = [t \in Windows |-> Head(capture.tail)]]
    /\ UNCHANGED <<socket, screencast>>

\* One target has done the action, or failed at it.
TargetActs(t) ==
    /\ t \in DOMAIN capture.running
    /\ capture' = [capture EXCEPT
           !.running = [u \in DOMAIN capture.running \ {t} |-> capture.running[u]],
           !.done = [capture.done EXCEPT ![t] = Append(capture.done[t], capture.running[t])]]
    /\ UNCHANGED <<socket, screencast>>

\* stopCapture: what is queued already still goes out.
StopCapture ==
    /\ capture.on /\ capture' = [capture EXCEPT !.on = FALSE]
    /\ UNCHANGED <<socket, screencast>>

StreamsNext ==
    \/ \E op \in {"act", "start_screencast", "stop_screencast"} : SocketMessage(op)
    \/ Proceed \/ Settle \/ CloseSocket \/ CastTick \/ Frame
    \/ StartCapture \/ MasterActs \/ CastEvent \/ StopCapture
    \/ \E t \in Windows : TargetActs(t)

StreamsSpec == StreamsInit /\ [][StreamsNext]_streamVars

-------------------------------------------------------------------------------
\* The socket answers its messages in the order they came, each once, and no frame
\* of a screenshot that was under way is sent into a closed socket.
RepliesInOrder ==
    /\ \A i \in DOMAIN socket.replies : socket.replies[i] = i
    /\ ~screencast.late

\* Every target window gets the captured actions in their order, none left out and
\* none twice, though each target waits a delay of its own.
TargetsInOrder ==
    \A t \in Windows : \A i \in DOMAIN capture.done[t] : capture.done[t][i] = i

\* Neither replies nor synchronised actions overtake one another.
OrderKept == RepliesInOrder /\ TargetsInOrder
===============================================================================
