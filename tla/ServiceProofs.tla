----------------------------- MODULE ServiceProofs -----------------------------
(***************************************************************************)
(* Theorems about the services that keep a state of their own.             *)
(*   - the RPA service: what holds of a task over every interleaving of    *)
(*     its timer, its execution, its cancellation, the writes of the state *)
(*     file, the load and the death of the process;                        *)
(*   - the fetcher: which address a fetch is connected to, whatever DNS    *)
(*     answers and the clock says meanwhile;                               *)
(*   - the automation socket and the window synchronizer: the order of     *)
(*     the replies and of the actions;                                     *)
(*   - the MCP gateway: what a call may act on after its page has changed. *)
(***************************************************************************)
EXTENDS RpaService, PageFetch, StudioStreams, McpGateway, FiniteSetTheorems, TLAPS

(* The RPA service.  The safety of a task rests on what the service owes   *)
(* to it: the callers that wait for their write, the snapshot that is      *)
(* being written, and what the file says in case the process dies.         *)

RpaStates == {"NONE", "QUEUED", "RUNNING"} \cup Final
RpaPhases == {"none", "begin", "starting", "steps", "acting", "saving",
              "stopping", "failing", "ended"}
RpaRecord == [state : RpaStates, timer : BOOLEAN, phase : RpaPhases, step : Int, attempt : Int,
              recurring : BOOLEAN, sessionId : BOOLEAN,
              session : {"none", "open", "closed", "leaked"},
              cancel : {"none", "stopping", "saving"}]
RpaFile == [workflow : BOOLEAN, tasks : [RpaTasks -> [state : RpaStates, recurring : BOOLEAN]]]

\* Who waits for a write, and the callers that go on with a task after it.
Owing == {"run", "begin", "step", "end"}
RpaCallers == {<<"delete">>, <<"shutdown">>} \cup ((Owing \cup {"cancel"}) \X RpaTasks)

RpaTypes ==
    /\ rpa \in [RpaTasks -> RpaRecord]
    /\ workflow \in BOOLEAN /\ loaded \in BOOLEAN
    /\ writes \in Seq(RpaCallers)
    /\ file \in RpaFile
    /\ writing # << >> => writing[1] \in RpaFile /\ writes # << >>
    /\ reading # << >> => reading[1] \in RpaFile /\ loaded
    /\ rpaStarts \in [RpaTasks -> Nat] /\ confirmed \subseteq RpaTasks

Waits(k, t) == \E i \in DOMAIN writes : writes[i] = <<k, t>>
Saves(k, t) == writing # << >> /\ Head(writes) = <<k, t>>

\* The phases, the timer and the session of an execution agree.
ExecutionFits(t) ==
    LET r == rpa[t] IN
    /\ r.timer => r.phase = "none" /\ r.state # "NONE"
    /\ r.phase # "none" => r.state \notin {"NONE", "QUEUED"}
    /\ r.session = "open" =>
          r.sessionId /\ r.phase \in {"steps", "acting", "saving", "stopping", "failing"}
    /\ r.phase \notin {"none", "begin", "starting"} => rpaStarts[t] > 0
    /\ (r.timer \/ r.phase \in {"begin", "starting"}) => rpaStarts[t] = 0
    /\ r.cancel # "none" => r.state # "NONE"

\* A caller that waits for its write finds the task as it left it, and only
\* one of them goes on with the execution.
WaitsFit(t) ==
    LET r == rpa[t] IN
    /\ Waits("run", t) =>
          r.phase = "none" /\ ~r.timer /\ r.state # "NONE" /\ rpaStarts[t] = 0
    /\ Waits("begin", t) => r.phase = "begin"
    /\ Waits("step", t) => r.phase = "saving"
    /\ Waits("end", t) => r.phase = "saving" /\ r.session # "open"
    /\ Waits("cancel", t) => r.state # "NONE"
OneWaits(t) ==
    \A i, j \in DOMAIN writes, k, m \in Owing :
       writes[i] = <<k, t>> /\ writes[j] = <<m, t>> => i = j

\* Once a task may have started its browser nothing says QUEUED any more, so
\* that no load sets its timer again.
Begun(t) == rpaStarts[t] > 0 \/ rpa[t].phase = "starting"
BegunFits(t) ==
    /\ rpaStarts[t] <= 1
    /\ Begun(t) => /\ rpa[t].state # "QUEUED"
                   /\ file.tasks[t].state # "QUEUED"
                   /\ writing # << >> => writing[1].tasks[t].state # "QUEUED"
                   /\ reading # << >> => reading[1].tasks[t].state # "QUEUED"
    /\ Saves("begin", t) => writing[1].tasks[t].state # "QUEUED"

\* A cancellation under way before the start has the task CANCELLED.
CancelFits(t) ==
    rpaStarts[t] = 0 =>
       /\ (rpa[t].cancel # "none" \/ Waits("cancel", t)) => rpa[t].state = "CANCELLED"
       /\ Saves("cancel", t) => writing[1].tasks[t].state = "CANCELLED"

\* A task that the load will bring back is not in memory yet.
LoadFits(t) ==
    /\ reading # << >> /\ reading[1].tasks[t].state # "NONE" => rpa[t].state = "NONE"
    /\ ~loaded => rpa[t].state = "NONE"

\* What a snapshot may say of a task whose cancellation was confirmed: it may
\* have forgotten the task only together with its workflow.
KeepsCancelled(s, t) ==
    /\ s.tasks[t].state \in {"NONE", "CANCELLED"}
    /\ s.workflow => s.tasks[t].state = "CANCELLED"
ConfirmedFits(t) ==
    t \in confirmed =>
       /\ rpaStarts[t] = 0 /\ rpa[t].phase = "none"
       /\ rpa[t].state \in {"NONE", "CANCELLED"}
       /\ workflow => rpa[t].state = "CANCELLED"
       /\ KeepsCancelled(file, t)
       /\ writing # << >> => KeepsCancelled(writing[1], t)
       /\ reading # << >> =>
             \/ KeepsCancelled(reading[1], t)
             \/ rpa[t].state = "CANCELLED" /\ reading[1].tasks[t].state = "NONE"

RpaTaskInv(t) == /\ ExecutionFits(t) /\ WaitsFit(t) /\ OneWaits(t) /\ BegunFits(t)
                 /\ CancelFits(t) /\ LoadFits(t) /\ ConfirmedFits(t)
RpaInv == RpaTypes /\ \A t \in RpaTasks : RpaTaskInv(t)

Kinds == Owing \cup {"cancel"}

\* The actions of one task leave the file, the load and the workflow alone.
TaskFrame == UNCHANGED <<workflow, writing, file, reading, loaded, confirmed>>

\* A caller joins the tail of the writes.
LEMMA AppendFacts ==
    ASSUME RpaTypes, NEW x \in RpaCallers, writes' = Append(writes, x), UNCHANGED writing
    PROVE  /\ writes' \in Seq(RpaCallers) /\ writes' # << >>
           /\ \A k \in Kinds, t \in RpaTasks :
                 /\ Waits(k, t)' <=> Waits(k, t) \/ x = <<k, t>>
                 /\ Saves(k, t)' <=> Saves(k, t)
           /\ \A t \in RpaTasks :
                 /\ OneWaits(t)
                 /\ \A k, m \in Owing : x = <<m, t>> => ~Waits(k, t)
                 => OneWaits(t)'
PROOF
  <1> DEFINE n == Len(writes)
  <1>1. /\ n \in Nat /\ DOMAIN writes = 1 .. n /\ DOMAIN writes' = 1 .. n + 1
        /\ writes' \in Seq(RpaCallers) /\ writes' # << >>
        /\ \A i \in 1 .. n : writes'[i] = writes[i]
        /\ writes'[n + 1] = x
    BY DEF RpaTypes
  <1>2. writes # << >> => Head(writes') = Head(writes)
    BY <1>1 DEF RpaTypes
  <1> HIDE DEF n
  <1>3. ASSUME NEW k \in Kinds, NEW t \in RpaTasks
        PROVE  /\ Waits(k, t)' <=> Waits(k, t) \/ x = <<k, t>>
               /\ Saves(k, t)' <=> Saves(k, t)
    <2>1. Waits(k, t)' <=> \E i \in 1 .. n + 1 : writes'[i] = <<k, t>>
      BY <1>1 DEF Waits
    <2>2. Waits(k, t) <=> \E i \in 1 .. n : writes[i] = <<k, t>>
      BY <1>1 DEF Waits
    <2>3. \A i \in 1 .. n + 1 : i \in 1 .. n \/ i = n + 1
      BY <1>1
    <2>4. n + 1 \in 1 .. n + 1 /\ \A i \in 1 .. n : i \in 1 .. n + 1
      BY <1>1
    <2>5. Saves(k, t)' <=> Saves(k, t)
      BY <1>2 DEF Saves, RpaTypes
    <2>6. QED
      BY <1>1, <2>1, <2>2, <2>3, <2>4, <2>5
  <1>4. ASSUME NEW t \in RpaTasks, OneWaits(t),
               \A k, m \in Owing : x = <<m, t>> => ~Waits(k, t)
        PROVE  OneWaits(t)'
    <2> SUFFICES ASSUME NEW i \in 1 .. n + 1, NEW j \in 1 .. n + 1, NEW k \in Owing, NEW m \in Owing,
                        writes'[i] = <<k, t>>, writes'[j] = <<m, t>>
                 PROVE  i = j
      BY <1>1 DEF OneWaits
    <2>1. CASE i \in 1 .. n /\ j \in 1 .. n
      BY <1>1, <1>4, <2>1 DEF OneWaits
    <2>2. CASE i = n + 1
      <3>1. ~Waits(m, t)
        BY <1>1, <1>4, <2>2
      <3>2. QED
        BY <1>1, <2>2, <3>1 DEF Waits
    <2>3. CASE j = n + 1
      <3>1. ~Waits(k, t)
        BY <1>1, <1>4, <2>3
      <3>2. QED
        BY <1>1, <2>3, <3>1 DEF Waits
    <2>4. QED
      BY <1>1, <2>1, <2>2, <2>3
  <1>5. QED
    BY <1>1, <1>3, <1>4

\* The head of the tail goes on, its write over.
LEMMA TailFacts ==
    ASSUME RpaTypes, writing # << >>, writes' = Tail(writes), writing' = << >>
    PROVE  /\ writes' \in Seq(RpaCallers) /\ Head(writes) \in RpaCallers
           /\ \A k \in Kinds, t \in RpaTasks :
                 /\ Waits(k, t)' => Waits(k, t)
                 /\ ~Saves(k, t)'
                 /\ Head(writes) = <<k, t>> => Waits(k, t) /\ Saves(k, t)
           /\ \A t \in RpaTasks : OneWaits(t) =>
                 /\ OneWaits(t)'
                 /\ \A k, m \in Owing : Head(writes) = <<k, t>> => ~Waits(m, t)'
PROOF
  <1> DEFINE n == Len(writes)
  <1>1. /\ n \in Nat /\ n > 0 /\ DOMAIN writes = 1 .. n /\ DOMAIN writes' = 1 .. n - 1
        /\ writes' \in Seq(RpaCallers) /\ Head(writes) = writes[1] /\ writes[1] \in RpaCallers
        /\ \A i \in 1 .. n - 1 : writes'[i] = writes[i + 1]
    BY DEF RpaTypes
  <1> HIDE DEF n
  <1>2. ASSUME NEW k \in Kinds, NEW t \in RpaTasks
        PROVE  /\ Waits(k, t)' => Waits(k, t)
               /\ ~Saves(k, t)'
               /\ Head(writes) = <<k, t>> => Waits(k, t) /\ Saves(k, t)
    <2>1. Waits(k, t)' => Waits(k, t)
      <3> SUFFICES ASSUME NEW i \in DOMAIN writes', writes'[i] = <<k, t>> PROVE Waits(k, t)
        BY DEF Waits
      <3>1. i \in 1 .. n - 1
        BY <1>1
      <3>2. i + 1 \in DOMAIN writes /\ writes[i + 1] = <<k, t>>
        BY <1>1, <3>1
      <3> QED BY <3>2 DEF Waits
    <2>2. Head(writes) = <<k, t>> => Waits(k, t)
      BY <1>1 DEF Waits
    <2>3. QED
      BY <2>1, <2>2 DEF Saves
  <1>3. ASSUME NEW t \in RpaTasks, OneWaits(t)
        PROVE  /\ OneWaits(t)'
               /\ \A k, m \in Owing : Head(writes) = <<k, t>> => ~Waits(m, t)'
    <2>1. OneWaits(t)'
      <3> SUFFICES ASSUME NEW i \in DOMAIN writes', NEW j \in DOMAIN writes',
                          NEW k \in Owing, NEW m \in Owing,
                          writes'[i] = <<k, t>>, writes'[j] = <<m, t>>
                   PROVE  i = j
        BY DEF OneWaits
      <3>0. i \in 1 .. n - 1 /\ j \in 1 .. n - 1
        BY <1>1
      <3>1. /\ i + 1 \in DOMAIN writes /\ j + 1 \in DOMAIN writes
            /\ writes[i + 1] = <<k, t>> /\ writes[j + 1] = <<m, t>>
        BY <1>1, <3>0
      <3>2. i + 1 = j + 1
        BY <1>3, <3>1 DEF OneWaits
      <3>3. QED
        BY <3>0, <3>2
    <2>2. ASSUME NEW k \in Owing, NEW m \in Owing, Head(writes) = <<k, t>>, Waits(m, t)'
          PROVE  FALSE
      <3>1. PICK i \in 1 .. n - 1 : writes'[i] = <<m, t>>
        BY <1>1, <2>2 DEF Waits
      <3>2. /\ 1 \in DOMAIN writes /\ i + 1 \in DOMAIN writes
            /\ writes[1] = <<k, t>> /\ writes[i + 1] = <<m, t>>
        BY <1>1, <2>2, <3>1
      <3>3. 1 = i + 1
        BY <1>3, <3>2 DEF OneWaits
      <3>4. QED
        BY <3>3
    <2>3. QED
      BY <2>1, <2>2
  <1>4. QED
    BY <1>1, <1>2, <1>3

\* What others do leaves a task in order: the tail may get shorter, the write
\* and the load may end, the workflow may be deleted.
LEMMA Untouched ==
    ASSUME NEW t \in RpaTasks, RpaTaskInv(t),
           rpa'[t] = rpa[t], rpaStarts'[t] = rpaStarts[t],
           \A k \in Kinds : /\ Waits(k, t)' => Waits(k, t)
                            /\ Saves(k, t)' => Saves(k, t),
           OneWaits(t)',
           writing' \in {writing, << >>}, reading' \in {reading, << >>},
           UNCHANGED <<file, loaded>>, workflow' => workflow, t \in confirmed' => t \in confirmed
    PROVE  RpaTaskInv(t)'
PROOF
  <1> USE DEF RpaTaskInv
  <1>1. ExecutionFits(t)'
    BY DEF ExecutionFits
  <1>2. WaitsFit(t)'
    BY DEF WaitsFit, Kinds, Owing
  <1>3. BegunFits(t)'
    <2>1. Begun(t)' <=> Begun(t)
      BY DEF Begun
    <2>2. Saves("begin", t)' => Saves("begin", t) /\ writing' = writing
      BY DEF Kinds, Owing, Saves
    <2>3. QED
      BY <2>1, <2>2 DEF BegunFits
  <1>4. CancelFits(t)'
    <2>1. Saves("cancel", t)' => Saves("cancel", t) /\ writing' = writing
      BY DEF Kinds, Owing, Saves
    <2>2. Waits("cancel", t)' => Waits("cancel", t)
      BY DEF Kinds
    <2>3. QED
      BY <2>1, <2>2 DEF CancelFits
  <1>5. LoadFits(t)'
    BY DEF LoadFits
  <1>6. ConfirmedFits(t)'
    BY DEF ConfirmedFits, KeepsCancelled
  <1>7. QED
    BY <1>1, <1>2, <1>3, <1>4, <1>5, <1>6

\* The record of a task, and what a step that leaves the tail alone keeps.
LEMMA RpaFacts ==
    ASSUME RpaInv
    PROVE  /\ RpaTypes
           /\ \A t \in RpaTasks : rpa[t] \in RpaRecord /\ rpaStarts[t] \in Nat /\ RpaTaskInv(t)
           /\ writes' = writes /\ UNCHANGED writing =>
                 \A t \in RpaTasks, k \in Kinds : /\ Waits(k, t)' <=> Waits(k, t)
                                                  /\ Saves(k, t)' <=> Saves(k, t)
                                                  /\ OneWaits(t)'
PROOF
  <1>1. \A t \in RpaTasks : OneWaits(t)
    BY DEF RpaInv, RpaTaskInv
  <1>2. writes' = writes /\ UNCHANGED writing =>
           \A t \in RpaTasks, k \in Kinds : /\ Waits(k, t)' <=> Waits(k, t)
                                            /\ Saves(k, t)' <=> Saves(k, t)
                                            /\ OneWaits(t)'
    BY <1>1 DEF OneWaits, Waits, Saves
  <1>3. QED
    BY <1>2 DEF RpaInv, RpaTypes

\* A step of some tasks, the caller of one of them: the others are left in order.
LEMMA SomeStep ==
    ASSUME RpaInv, NEW S \in SUBSET RpaTasks, TaskFrame,
           \/ writes' = writes
           \/ \E t \in S, k \in Kinds : writes' = Append(writes, <<k, t>>),
           rpa' \in [RpaTasks -> RpaRecord], rpaStarts' \in [RpaTasks -> Nat],
           \A u \in RpaTasks \ S : rpa'[u] = rpa[u] /\ rpaStarts'[u] = rpaStarts[u],
           \A t \in S : RpaTaskInv(t)'
    PROVE  RpaInv'
PROOF
  <1>1. \A u \in RpaTasks \ S : RpaTaskInv(u) /\ OneWaits(u)
    BY DEF RpaInv, RpaTaskInv
  <1>2. RpaTypes
    BY DEF RpaInv
  <1>3. /\ writes' \in Seq(RpaCallers) /\ (writes # << >> => writes' # << >>)
        /\ \A u \in RpaTasks \ S :
              /\ OneWaits(u)'
              /\ \A k \in Kinds : /\ Waits(k, u)' => Waits(k, u)
                                  /\ Saves(k, u)' => Saves(k, u)
    <2>1. CASE writes' = writes
      <3>1. UNCHANGED writing
        BY DEF TaskFrame
      <3>2. \A u \in RpaTasks, k \in Kinds : /\ Waits(k, u)' <=> Waits(k, u)
                                             /\ Saves(k, u)' <=> Saves(k, u)
                                             /\ OneWaits(u)'
        BY <2>1, <3>1, RpaFacts
      <3>3. QED
        BY <1>2, <2>1, <3>2 DEF RpaTypes, Kinds
    <2>2. ASSUME NEW t \in S, NEW k \in Kinds, writes' = Append(writes, <<k, t>>)
          PROVE  /\ writes' \in Seq(RpaCallers) /\ (writes # << >> => writes' # << >>)
                 /\ \A u \in RpaTasks \ S :
                       /\ OneWaits(u)'
                       /\ \A m \in Kinds : /\ Waits(m, u)' => Waits(m, u)
                                           /\ Saves(m, u)' => Saves(m, u)
      <3>1. <<k, t>> \in RpaCallers /\ UNCHANGED writing
        BY DEF RpaCallers, Kinds, TaskFrame
      <3>2. \A u \in RpaTasks \ S, m \in Kinds : <<k, t>> # <<m, u>>
        OBVIOUS
      <3>3. QED
        BY <1>1, <1>2, <2>2, <3>1, <3>2, AppendFacts DEF Kinds
    <2>3. QED
      BY <2>1, <2>2
  <1>4. \A u \in RpaTasks \ S : RpaTaskInv(u)'
    BY <1>1, <1>3, Untouched DEF TaskFrame
  <1>5. RpaTypes'
    BY <1>2, <1>3 DEF RpaTypes, TaskFrame
  <1>6. QED
    BY <1>4, <1>5 DEF RpaInv

\* A step of one task.
LEMMA OwnStep ==
    ASSUME RpaInv, NEW t \in RpaTasks, TaskFrame,
           \/ writes' = writes
           \/ \E k \in Kinds : writes' = Append(writes, <<k, t>>),
           rpa' \in [RpaTasks -> RpaRecord], rpaStarts' \in [RpaTasks -> Nat],
           \A u \in RpaTasks \ {t} : rpa'[u] = rpa[u] /\ rpaStarts'[u] = rpaStarts[u],
           RpaTaskInv(t)'
    PROVE  RpaInv'
PROOF
  <1>1. {t} \in SUBSET RpaTasks /\ \A u \in {t} : RpaTaskInv(u)'
    OBVIOUS
  <1>2. writes' = writes \/ \E u \in {t}, k \in Kinds : writes' = Append(writes, <<k, u>>)
    OBVIOUS
  <1>3. QED
    BY <1>1, <1>2, SomeStep

\* A step of an execution that has begun: from the start of the browser on
\* its task is neither new nor queued, whatever the step does next.
LEMMA ExecutionMoves ==
    ASSUME RpaInv, NEW t \in RpaTasks, TaskFrame,
           rpa[t].phase \notin {"none", "begin", "saving"},
           rpa'[t].state \notin {"NONE", "QUEUED"},
           rpa'[t].phase \notin {"begin", "starting"},
           ~rpa'[t].timer,
           rpa'[t].session = "open" =>
              rpa'[t].sessionId /\ rpa'[t].phase \in {"steps", "acting", "saving", "stopping", "failing"},
           rpaStarts'[t] = 1,
           \A k \in Kinds : /\ Saves(k, t)' <=> Saves(k, t)
                            /\ Waits(k, t)' => \/ Waits(k, t)
                                               \/ /\ k \in {"step", "end"}
                                                  /\ rpa'[t].phase = "saving"
                                                  /\ k = "end" => rpa'[t].session # "open",
           OneWaits(t)'
    PROVE  RpaTaskInv(t)'
PROOF
  <1>1. RpaTaskInv(t)
    BY RpaFacts
  <1> USE DEF RpaTaskInv
  <1>2. Begun(t)
    BY <1>1 DEF Begun, ExecutionFits
  <1>3. rpa[t].state \notin {"NONE", "QUEUED"}
    BY <1>1 DEF ExecutionFits
  <1>4. \A k \in Owing : ~Waits(k, t)
    BY <1>1 DEF WaitsFit, Owing
  <1>5. ExecutionFits(t)'
    BY DEF ExecutionFits
  <1>6. WaitsFit(t)'
    BY <1>4 DEF WaitsFit, Kinds, Owing
  <1>7. BegunFits(t)'
    <2>1. Saves("begin", t)' => Saves("begin", t)
      BY DEF Kinds, Owing
    <2>2. QED
      BY <1>1, <1>2, <2>1 DEF BegunFits, TaskFrame
  <1>8. CancelFits(t)'
    BY DEF CancelFits
  <1>9. LoadFits(t)'
    BY <1>1, <1>3 DEF LoadFits, TaskFrame
  <1>10. ConfirmedFits(t)'
    BY <1>1 DEF ConfirmedFits, TaskFrame
  <1>11. QED
    BY <1>5, <1>6, <1>7, <1>8, <1>9, <1>10

\* How often the browser of an execution that has begun was started.
LEMMA StartedOnce ==
    ASSUME RpaInv, NEW t \in RpaTasks, rpa[t].phase \notin {"none", "begin"}
    PROVE  rpaStarts[t] = IF rpa[t].phase = "starting" THEN 0 ELSE 1
BY RpaFacts DEF RpaTaskInv, ExecutionFits, BegunFits

\* manager.start, the steps, the stop and the catch of execute.
LEMMA ExecutionKeeps ==
    ASSUME RpaInv, NEW t \in RpaTasks,
           SessionStarts(t) \/ NextStep(t) \/ Act(t) \/ Stops(t) \/ Fails(t)
    PROVE  RpaInv'
PROOF
  <1>1. RpaTypes /\ rpa[t] \in RpaRecord /\ RpaTaskInv(t)
    BY RpaFacts
  <1>2. /\ rpa[t].phase \in {"starting", "steps", "acting", "stopping", "failing"}
        /\ rpa[t].state \notin {"NONE", "QUEUED"} /\ ~rpa[t].timer
        /\ rpa[t].session = "open" => rpa[t].sessionId
    BY <1>1 DEF SessionStarts, NextStep, Act, Stops, Fails, RpaTaskInv, ExecutionFits
  <1>3. TaskFrame
    BY DEF SessionStarts, NextStep, Act, Stops, Fails, Rest, TaskFrame
  <1>4. PICK r \in RpaRecord :
           /\ rpa' = [rpa EXCEPT ![t] = r]
           /\ r.state \notin {"NONE", "QUEUED"} /\ ~r.timer /\ r.phase \notin {"none", "begin", "starting", "ended"}
           /\ r.session = "open" => r.sessionId
           /\ \/ writes' = writes
              \/ /\ \E k \in {"step", "end"} :
                       writes' = Append(writes, <<k, t>>) /\ (k = "end" => r.session # "open")
                 /\ r.phase = "saving"
    <2> DEFINE Good(r) ==
           /\ rpa' = [rpa EXCEPT ![t] = r]
           /\ r.state \notin {"NONE", "QUEUED"} /\ ~r.timer /\ r.phase \notin {"none", "begin", "starting", "ended"}
           /\ r.session = "open" => r.sessionId
           /\ \/ writes' = writes
              \/ /\ \E k \in {"step", "end"} :
                       writes' = Append(writes, <<k, t>>) /\ (k = "end" => r.session # "open")
                 /\ r.phase = "saving"
    <2>1. CASE SessionStarts(t)
      <3>1. CASE rpa' = [rpa EXCEPT ![t].phase = "steps", ![t].sessionId = TRUE, ![t].session = "open"]
        <4> DEFINE r == [rpa[t] EXCEPT !.phase = "steps", !.sessionId = TRUE, !.session = "open"]
        <4>1. r \in RpaRecord /\ rpa' = [rpa EXCEPT ![t] = r]
          BY <1>1, <3>1 DEF RpaRecord, RpaPhases, RpaTypes
        <4>2. Good(r)
          BY <1>1, <1>2, <2>1, <4>1 DEF SessionStarts, RpaRecord
        <4>3. QED
          BY <4>1, <4>2
      <3>2. CASE rpa' = [rpa EXCEPT ![t].phase = "failing"]
        <4> DEFINE r == [rpa[t] EXCEPT !.phase = "failing"]
        <4>1. r \in RpaRecord /\ rpa' = [rpa EXCEPT ![t] = r]
          BY <1>1, <3>2 DEF RpaRecord, RpaPhases, RpaTypes
        <4>2. Good(r)
          BY <1>1, <1>2, <2>1, <4>1 DEF SessionStarts, RpaRecord
        <4>3. QED
          BY <4>1, <4>2
      <3>3. QED
        BY <2>1, <3>1, <3>2 DEF SessionStarts
    <2>2. CASE NextStep(t)
      <3> DEFINE r1 == [rpa[t] EXCEPT !.phase = "stopping"]
                 r2 == [rpa[t] EXCEPT !.phase = "acting", !.attempt = 1]
      <3>1. 1 \in Int /\ {"stopping", "acting"} \subseteq RpaPhases
        BY DEF RpaPhases
      <3>2. r1 \in RpaRecord
        BY <1>1, <3>1 DEF RpaRecord
      <3>3. r2 \in RpaRecord
        BY <1>1, <3>1 DEF RpaRecord
      <3>4. r1 \in RpaRecord /\ r2 \in RpaRecord
        BY <3>2, <3>3
      <3>5. rpa' = [rpa EXCEPT ![t] = r1] \/ rpa' = [rpa EXCEPT ![t] = r2]
        BY <2>2 DEF NextStep
      <3>6. writes' = writes
        BY <2>2 DEF NextStep
      <3>7. Good(r1) \/ Good(r2)
        BY <1>1, <1>2, <3>5, <3>6 DEF RpaRecord
      <3>8. QED
        BY <3>4, <3>7
    <2>3. CASE Act(t)
      <3> DEFINE r1 == [rpa[t] EXCEPT !.phase = "saving", !.step = @ + 1]
                 r2 == [rpa[t] EXCEPT !.attempt = @ + 1]
                 r3 == [rpa[t] EXCEPT !.phase = "failing"]
      <3>1. /\ rpa[t].step + 1 \in Int /\ rpa[t].attempt + 1 \in Int
            /\ {"saving", "failing"} \subseteq RpaPhases
        BY <1>1 DEF RpaRecord, RpaPhases
      <3>2. r1 \in RpaRecord
        BY <1>1, <3>1 DEF RpaRecord
      <3>3. r2 \in RpaRecord
        BY <1>1, <3>1 DEF RpaRecord
      <3>4. r3 \in RpaRecord
        BY <1>1, <3>1 DEF RpaRecord
      <3>5. r1 \in RpaRecord /\ r2 \in RpaRecord /\ r3 \in RpaRecord
        BY <3>2, <3>3, <3>4
      <3>6. \/ rpa' = [rpa EXCEPT ![t] = r1] /\ writes' = Append(writes, <<"step", t>>)
            \/ rpa' = [rpa EXCEPT ![t] = r2] /\ writes' = writes
            \/ rpa' = [rpa EXCEPT ![t] = r3] /\ writes' = writes
        BY <2>3 DEF Act, Persist
      <3>7. CASE rpa' = [rpa EXCEPT ![t] = r1] /\ writes' = Append(writes, <<"step", t>>)
        <4>1. Good(r1)
          BY <1>1, <1>2, <3>7 DEF RpaRecord
        <4>2. QED
          BY <3>5, <4>1
      <3>8. CASE rpa' = [rpa EXCEPT ![t] = r2] /\ writes' = writes
        <4>1. Good(r2)
          BY <1>1, <1>2, <2>3, <3>8 DEF RpaRecord, Act
        <4>2. QED
          BY <3>5, <4>1
      <3>9. CASE rpa' = [rpa EXCEPT ![t] = r3] /\ writes' = writes
        <4>1. Good(r3)
          BY <1>1, <1>2, <3>9 DEF RpaRecord
        <4>2. QED
          BY <3>5, <4>1
      <3>10. QED
        BY <3>6, <3>7, <3>8, <3>9
    <2>4. CASE Stops(t)
      <3> DEFINE r1 == [rpa[t] EXCEPT !.session = "closed", !.sessionId = FALSE,
                                      !.state = "SUCCEEDED", !.phase = "saving"]
                 r2 == [rpa[t] EXCEPT !.phase = "failing"]
      <3>1. r1 \in RpaRecord /\ r2 \in RpaRecord
        BY <1>1 DEF RpaRecord, RpaPhases, RpaStates, Final
      <3>2. \/ rpa' = [rpa EXCEPT ![t] = r1] /\ writes' = Append(writes, <<"end", t>>)
            \/ rpa' = [rpa EXCEPT ![t] = r2] /\ writes' = writes
        BY <2>4 DEF Stops, Persist
      <3>3. CASE rpa' = [rpa EXCEPT ![t] = r1] /\ writes' = Append(writes, <<"end", t>>)
        <4>1. Good(r1)
          BY <1>1, <1>2, <3>3 DEF RpaRecord
        <4>2. QED
          BY <3>1, <4>1
      <3>4. CASE rpa' = [rpa EXCEPT ![t] = r2] /\ writes' = writes
        <4>1. Good(r2)
          BY <1>1, <1>2, <3>4 DEF RpaRecord
        <4>2. QED
          BY <3>1, <4>1
      <3>5. QED
        BY <3>2, <3>3, <3>4
    <2>5. CASE Fails(t)
      <3>1. PICK s \in IF rpa[t].sessionId THEN {"closed", "leaked"} ELSE {rpa[t].session} :
               rpa' = [rpa EXCEPT ![t].session = IF @ = "closed" THEN @ ELSE s, ![t].sessionId = FALSE,
                                  ![t].state = FailedState(t), ![t].phase = "saving"]
        BY <2>5 DEF Fails
      <3>2. s \in {"none", "closed", "leaked"}
        BY <1>1, <1>2, <3>1 DEF RpaRecord
      <3>3. FailedState(t) \in {"CANCELLED", "FAILED"}
        BY DEF FailedState
      <3> DEFINE u == IF rpa[t].session = "closed" THEN rpa[t].session ELSE s
                 r == [rpa[t] EXCEPT !.session = u, !.sessionId = FALSE,
                                     !.state = FailedState(t), !.phase = "saving"]
      <3>4. u \in {"none", "closed", "leaked"}
        BY <3>2
      <3>5. rpa' = [rpa EXCEPT ![t] = r]
        BY <3>1
      <3>6. writes' = Append(writes, <<"end", t>>)
        BY <2>5 DEF Fails, Persist
      <3> HIDE DEF u
      <3>7. r \in RpaRecord
        BY <1>1, <3>3, <3>4 DEF RpaRecord, RpaPhases, RpaStates, Final
      <3>8. Good(r)
        BY <1>1, <1>2, <3>3, <3>4, <3>5, <3>6 DEF RpaRecord
      <3>9. QED
        BY <3>7, <3>8
    <2>6. QED
      BY <2>1, <2>2, <2>3, <2>4, <2>5
  <1>5. /\ rpa' \in [RpaTasks -> RpaRecord] /\ rpa'[t] = r
        /\ \A u \in RpaTasks \ {t} : rpa'[u] = rpa[u]
    BY <1>1, <1>4 DEF RpaTypes
  <1>6. /\ rpaStarts' \in [RpaTasks -> Nat] /\ rpaStarts'[t] = 1
        /\ \A u \in RpaTasks \ {t} : rpaStarts'[u] = rpaStarts[u]
    <2>1. CASE SessionStarts(t)
      <3>1. rpa[t].phase = "starting" /\ rpaStarts' = [rpaStarts EXCEPT ![t] = @ + 1]
        BY <2>1 DEF SessionStarts
      <3>2. rpaStarts[t] = 0
        BY <3>1, StartedOnce
      <3>3. QED
        BY <1>1, <3>1, <3>2 DEF RpaTypes
    <2>2. CASE ~SessionStarts(t)
      <3>1. rpa[t].phase \notin {"none", "begin", "starting"} /\ rpaStarts' = rpaStarts
        BY <2>2 DEF NextStep, Act, Stops, Fails, Rest
      <3>2. rpaStarts[t] = 1
        BY <3>1, StartedOnce
      <3>3. QED
        BY <1>1, <3>1, <3>2 DEF RpaTypes
    <2>3. QED
      BY <2>1, <2>2
  <1>7. /\ \A k \in Kinds : /\ Saves(k, t)' <=> Saves(k, t)
                            /\ Waits(k, t)' => \/ Waits(k, t)
                                               \/ /\ k \in {"step", "end"}
                                                  /\ rpa'[t].phase = "saving"
                                                  /\ k = "end" => rpa'[t].session # "open"
        /\ OneWaits(t)'
    <2>1. UNCHANGED writing
      BY <1>3 DEF TaskFrame
    <2>2. CASE writes' = writes
      BY <2>1, <2>2, RpaFacts DEF Kinds
    <2>3. ASSUME NEW k \in {"step", "end"}, writes' = Append(writes, <<k, t>>),
                 r.phase = "saving", k = "end" => r.session # "open"
          PROVE  /\ \A m \in Kinds : /\ Saves(m, t)' <=> Saves(m, t)
                                     /\ Waits(m, t)' => \/ Waits(m, t)
                                                        \/ /\ m \in {"step", "end"}
                                                           /\ rpa'[t].phase = "saving"
                                                           /\ m = "end" => rpa'[t].session # "open"
                 /\ OneWaits(t)'
      <3>1. <<k, t>> \in RpaCallers
        BY DEF RpaCallers, Owing
      <3>2. \A m \in Owing : ~Waits(m, t)
        BY <1>1, <1>2 DEF RpaTaskInv, WaitsFit, Owing
      <3>3. OneWaits(t)'
        BY <1>1, <2>1, <2>3, <3>1, <3>2, AppendFacts DEF RpaTaskInv
      <3>4. \A m \in Kinds : /\ Waits(m, t)' <=> Waits(m, t) \/ <<k, t>> = <<m, t>>
                             /\ Saves(m, t)' <=> Saves(m, t)
        BY <1>1, <2>1, <2>3, <3>1, AppendFacts
      <3>5. QED
        BY <1>5, <2>3, <3>3, <3>4
    <2>4. QED
      BY <1>4, <2>2, <2>3
  <1>8. RpaTaskInv(t)'
    <2>1. /\ rpa[t].phase \notin {"none", "begin", "saving"}
          /\ rpa'[t].state \notin {"NONE", "QUEUED"} /\ ~rpa'[t].timer
          /\ rpa'[t].phase \notin {"begin", "starting"}
      BY <1>2, <1>4, <1>5
    <2>2. rpa'[t].session = "open" =>
             rpa'[t].sessionId /\ rpa'[t].phase \in {"steps", "acting", "saving", "stopping", "failing"}
      BY <1>4, <1>5 DEF RpaRecord, RpaPhases
    <2>3. QED
      BY <1>3, <1>6, <1>7, <2>1, <2>2, ExecutionMoves
  <1>9. writes' = writes \/ \E k \in Kinds : writes' = Append(writes, <<k, t>>)
    BY <1>4 DEF Kinds, Owing
  <1>10. QED
    BY <1>3, <1>5, <1>6, <1>8, <1>9, OwnStep

\* The tail after a caller of task t joined it.
LEMMA CallerJoins ==
    ASSUME RpaInv, UNCHANGED writing, NEW t \in RpaTasks, NEW k \in Kinds,
           writes' = Append(writes, <<k, t>>),
           k \in Owing => \A m \in Owing : ~Waits(m, t)
    PROVE  /\ \A u \in RpaTasks, m \in Kinds :
                 /\ Waits(m, u)' <=> Waits(m, u) \/ (m = k /\ u = t)
                 /\ Saves(m, u)' <=> Saves(m, u)
           /\ \A u \in RpaTasks : OneWaits(u)'
PROOF
  <1>1. <<k, t>> \in RpaCallers /\ RpaTypes /\ \A u \in RpaTasks : OneWaits(u)
    BY RpaFacts DEF RpaCallers, Kinds, RpaTaskInv
  <1>2. \A u \in RpaTasks, m \in Kinds : <<k, t>> = <<m, u>> <=> m = k /\ u = t
    OBVIOUS
  <1>3. \A u \in RpaTasks : \A m, o \in Owing : <<k, t>> = <<o, u>> => ~Waits(m, u)
    OBVIOUS
  <1>4. \A u \in RpaTasks, m \in Kinds :
           /\ Waits(m, u)' <=> Waits(m, u) \/ <<k, t>> = <<m, u>>
           /\ Saves(m, u)' <=> Saves(m, u)
    BY <1>1, AppendFacts
  <1>5. \A u \in RpaTasks : OneWaits(u)'
    BY <1>1, <1>3, AppendFacts
  <1>6. QED
    BY <1>2, <1>4, <1>5

\* Who is being written also waits.
LEMMA SavesWait ==
    ASSUME RpaInv, NEW t \in RpaTasks, NEW k \in Kinds, writing # << >>, Head(writes) = <<k, t>>
    PROVE  Waits(k, t) /\ Saves(k, t)
PROOF
  <1>1. writes \in Seq(RpaCallers) /\ writes # << >>
    BY DEF RpaInv, RpaTypes
  <1>2. 1 \in DOMAIN writes /\ writes[1] = <<k, t>>
    BY <1>1
  <1>3. QED
    BY <1>2 DEF Waits, Saves

\* A cancellation, a timer that is cleared: the execution goes on as it was.
LEMMA Withdrawn ==
    ASSUME RpaInv, NEW t \in RpaTasks, TaskFrame,
           rpa'[t].phase = rpa[t].phase, rpa'[t].sessionId = rpa[t].sessionId,
           rpaStarts'[t] = rpaStarts[t],
           rpa'[t].session = "open" => rpa[t].session = "open",
           rpa'[t].timer => rpa[t].timer,
           \/ rpa'[t].state = rpa[t].state
           \/ rpa[t].state # "NONE" /\ rpa'[t].state = "CANCELLED",
           rpa'[t].cancel # "none" => \/ rpa[t].cancel # "none"
                                      \/ rpa'[t].state = "CANCELLED",
           \A k \in Kinds : /\ Saves(k, t)' <=> Saves(k, t)
                            /\ Waits(k, t)' => \/ Waits(k, t)
                                               \/ k = "cancel" /\ rpa[t].cancel # "none",
           OneWaits(t)'
    PROVE  RpaTaskInv(t)'
PROOF
  <1>1. RpaTaskInv(t)
    BY RpaFacts
  <1> USE DEF RpaTaskInv
  <1>2. ExecutionFits(t)'
    BY <1>1 DEF ExecutionFits
  <1>3. WaitsFit(t)'
    BY <1>1 DEF WaitsFit, ExecutionFits, Kinds, Owing
  <1>4. BegunFits(t)'
    <2>1. Begun(t)' <=> Begun(t)
      BY DEF Begun
    <2>2. Saves("begin", t)' <=> Saves("begin", t)
      BY DEF Kinds, Owing
    <2>3. QED
      BY <1>1, <2>1, <2>2 DEF BegunFits, TaskFrame
  <1>5. CancelFits(t)'
    <2>1. /\ Saves("cancel", t)' <=> Saves("cancel", t)
          /\ Waits("cancel", t)' => Waits("cancel", t) \/ rpa[t].cancel # "none"
      BY DEF Kinds
    <2>2. QED
      BY <1>1, <2>1 DEF CancelFits, TaskFrame
  <1>6. LoadFits(t)'
    BY <1>1 DEF LoadFits, TaskFrame
  <1>7. ConfirmedFits(t)'
    BY <1>1 DEF ConfirmedFits, TaskFrame
  <1>8. QED
    BY <1>2, <1>3, <1>4, <1>5, <1>6, <1>7

\* A new task: nothing on disk, in the tail or under way knows its id.
LEMMA NewTask ==
    ASSUME RpaInv, NEW n \in RpaTasks, NewTaskId(n), loaded, workflow, TaskFrame,
           writes' = Append(writes, <<"run", n>>),
           rpa'[n].state = "QUEUED", rpa'[n].timer = rpa[n].timer, rpa'[n].phase = rpa[n].phase,
           rpa'[n].session = rpa[n].session, rpa'[n].cancel = rpa[n].cancel,
           rpaStarts'[n] = rpaStarts[n]
    PROVE  RpaTaskInv(n)'
PROOF
  <1>1. RpaTaskInv(n) /\ rpa[n].state = "NONE" /\ rpaStarts[n] = 0
    BY RpaFacts DEF NewTaskId
  <1> USE DEF RpaTaskInv
  <1>2. /\ rpa[n].phase = "none" /\ ~rpa[n].timer /\ rpa[n].session # "open"
        /\ rpa[n].cancel = "none" /\ n \notin confirmed
    BY <1>1 DEF ExecutionFits, ConfirmedFits
  <1>3. \A k \in Kinds : ~Waits(k, n)
    BY <1>1, <1>2 DEF WaitsFit, Kinds, Owing
  <1>4. \A k \in Kinds : ~Saves(k, n)
    BY <1>3, SavesWait DEF Saves
  <1>5. /\ \A k \in Kinds : (Waits(k, n)' => k = "run") /\ ~Saves(k, n)'
        /\ OneWaits(n)'
    BY <1>3, <1>4, CallerJoins DEF Kinds, Owing, TaskFrame
  <1>6. ~Waits("cancel", n)' /\ ~Saves("cancel", n)' /\ ~Saves("begin", n)'
    BY <1>5 DEF Kinds, Owing
  <1>7. ExecutionFits(n)'
    BY <1>1, <1>2 DEF ExecutionFits
  <1>8. WaitsFit(n)'
    BY <1>1, <1>2, <1>5 DEF WaitsFit, Kinds, Owing
  <1>9. BegunFits(n)'
    BY <1>1, <1>2, <1>6 DEF BegunFits, Begun
  <1>10. CancelFits(n)'
    BY <1>2, <1>6 DEF CancelFits
  <1>11. LoadFits(n)'
    BY DEF LoadFits, NewTaskId, TaskFrame
  <1>12. ConfirmedFits(n)'
    BY <1>2 DEF ConfirmedFits, TaskFrame
  <1>13. QED
    BY <1>5, <1>7, <1>8, <1>9, <1>10, <1>11, <1>12

\* run.
LEMMA RunKeeps ==
    ASSUME RpaInv, NEW n \in RpaTasks, NEW recurring \in BOOLEAN, Run(n, recurring)
    PROVE  RpaInv'
PROOF
  <1>1. RpaTypes /\ rpa[n] \in RpaRecord
    BY RpaFacts
  <1> DEFINE r == [rpa[n] EXCEPT !.state = "QUEUED", !.recurring = recurring]
  <1>2. rpa' = [rpa EXCEPT ![n] = r]
    BY DEF Run
  <1>3. r \in RpaRecord
    BY <1>1 DEF RpaRecord, RpaStates
  <1>4. /\ rpa' \in [RpaTasks -> RpaRecord] /\ rpa'[n] = r
        /\ \A u \in RpaTasks \ {n} : rpa'[u] = rpa[u]
    BY <1>1, <1>2, <1>3 DEF RpaTypes
  <1>5. /\ r.state = "QUEUED" /\ r.timer = rpa[n].timer /\ r.phase = rpa[n].phase
        /\ r.session = rpa[n].session /\ r.cancel = rpa[n].cancel
    BY <1>1 DEF RpaRecord
  <1>6. /\ TaskFrame /\ rpaStarts' = rpaStarts /\ writes' = Append(writes, <<"run", n>>)
        /\ NewTaskId(n) /\ loaded /\ workflow
    BY DEF Run, TaskFrame, Persist, NextId
  <1>7. RpaTaskInv(n)'
    BY <1>4, <1>5, <1>6, NewTask
  <1>8. "run" \in Kinds
    BY DEF Kinds, Owing
  <1>9. QED
    BY <1>1, <1>4, <1>6, <1>7, <1>8, OwnStep DEF RpaTypes

\* The end of execute, with the successor of a task that has an interval.
LEMMA EndsKeeps ==
    ASSUME RpaInv, NEW t \in RpaTasks, Ends(t)
    PROVE  RpaInv'
PROOF
  <1>1. RpaTypes /\ rpa[t] \in RpaRecord /\ RpaTaskInv(t) /\ rpa[t].phase = "ended"
    BY RpaFacts DEF Ends
  <1>2. /\ rpa[t].state \notin {"NONE", "QUEUED"} /\ ~rpa[t].timer /\ rpa[t].session # "open"
        /\ rpaStarts[t] = 1 /\ loaded
    BY <1>1, StartedOnce DEF RpaTaskInv, ExecutionFits, LoadFits, RpaTypes
  <1>3. TaskFrame /\ rpaStarts' = rpaStarts
    BY DEF Ends, Rest, TaskFrame
  <1> DEFINE r == [rpa[t] EXCEPT !.phase = "none"]
  <1>4. r \in RpaRecord
    BY <1>1 DEF RpaRecord, RpaPhases
  <1>5. /\ r.state = rpa[t].state /\ r.timer = rpa[t].timer /\ r.phase = "none"
        /\ r.session = rpa[t].session
    BY <1>1 DEF RpaRecord
  <1>6. ASSUME rpa'[t] = r, OneWaits(t)',
               \A k \in Kinds : (Saves(k, t)' <=> Saves(k, t)) /\ (Waits(k, t)' => Waits(k, t))
        PROVE  RpaTaskInv(t)'
    BY <1>1, <1>2, <1>3, <1>5, <1>6, ExecutionMoves
  <1>7. CASE rpa' = [rpa EXCEPT ![t].phase = "none"] /\ writes' = writes
    <2>1. /\ rpa' \in [RpaTasks -> RpaRecord] /\ rpa'[t] = r
          /\ \A u \in RpaTasks \ {t} : rpa'[u] = rpa[u]
      BY <1>1, <1>4, <1>7 DEF RpaTypes
    <2>2. OneWaits(t)' /\ \A k \in Kinds : (Saves(k, t)' <=> Saves(k, t)) /\ (Waits(k, t)' => Waits(k, t))
      BY <1>3, <1>7, RpaFacts DEF TaskFrame, Kinds
    <2>3. QED
      BY <1>1, <1>3, <1>6, <1>7, <2>1, <2>2, OwnStep DEF RpaTypes
  <1>8. ASSUME NEW n \in RpaTasks, NextId(n), workflow, writes' = Append(writes, <<"run", n>>),
               rpa' = [rpa EXCEPT ![t].phase = "none", ![n].state = "QUEUED", ![n].recurring = TRUE]
        PROVE  RpaInv'
    <2>1. NewTaskId(n) /\ n # t
      BY <1>2, <1>8 DEF NextId, NewTaskId
    <2>2. rpa[n] \in RpaRecord
      BY RpaFacts
    <2> DEFINE s == [rpa[n] EXCEPT !.state = "QUEUED", !.recurring = TRUE]
    <2>3. s \in RpaRecord
      BY <2>2 DEF RpaRecord, RpaStates
    <2>4. rpa' = [rpa EXCEPT ![t] = r, ![n] = s]
      BY <1>1, <1>8, <2>1 DEF RpaTypes
    <2>5. /\ rpa' \in [RpaTasks -> RpaRecord] /\ rpa'[t] = r /\ rpa'[n] = s
          /\ \A u \in RpaTasks \ {t, n} : rpa'[u] = rpa[u]
      BY <1>1, <1>4, <2>1, <2>3, <2>4 DEF RpaTypes
    <2>6. /\ s.state = "QUEUED" /\ s.timer = rpa[n].timer /\ s.phase = rpa[n].phase
          /\ s.session = rpa[n].session /\ s.cancel = rpa[n].cancel
      BY <2>2 DEF RpaRecord
    <2>7. RpaTaskInv(n)'
      BY <1>2, <1>3, <1>8, <2>1, <2>5, <2>6, NewTask
    <2>8. /\ \A m \in Owing : ~Waits(m, n)
          /\ "run" \in Kinds
      <3>1. RpaTaskInv(n) /\ rpa[n].state = "NONE"
        BY <2>1, RpaFacts DEF NewTaskId
      <3>2. QED
        BY <3>1 DEF RpaTaskInv, WaitsFit, ExecutionFits, Kinds, Owing
    <2>9. OneWaits(t)' /\ \A k \in Kinds : (Saves(k, t)' <=> Saves(k, t)) /\ (Waits(k, t)' => Waits(k, t))
      BY <1>3, <1>8, <2>1, <2>8, CallerJoins DEF TaskFrame
    <2>10. RpaTaskInv(t)'
      BY <1>6, <2>5, <2>9
    <2> DEFINE both == {t, n}
    <2>11. /\ \A u \in both : RpaTaskInv(u)'
           /\ both \in SUBSET RpaTasks
           /\ \A u \in RpaTasks \ both : rpa'[u] = rpa[u] /\ rpaStarts'[u] = rpaStarts[u]
      BY <1>3, <2>5, <2>7, <2>10
    <2>12. \E u \in both, k \in Kinds : writes' = Append(writes, <<k, u>>)
      BY <1>8, <2>8
    <2>13. rpaStarts' \in [RpaTasks -> Nat]
      BY <1>1, <1>3 DEF RpaTypes
    <2> HIDE DEF both
    <2>14. QED
      BY <1>3, <2>5, <2>11, <2>12, <2>13, SomeStep
  <1>9. \/ /\ workflow
           /\ \E n \in RpaTasks :
                 /\ NextId(n) /\ writes' = Append(writes, <<"run", n>>)
                 /\ rpa' = [rpa EXCEPT ![t].phase = "none", ![n].state = "QUEUED", ![n].recurring = TRUE]
        \/ rpa' = [rpa EXCEPT ![t].phase = "none"] /\ writes' = writes
    BY DEF Ends, Persist
  <1>10. QED
    BY <1>7, <1>8, <1>9

\* execute, up to its first save.
LEMMA TimerFiresKeeps ==
    ASSUME RpaInv, NEW t \in RpaTasks, TimerFires(t)
    PROVE  RpaInv'
PROOF
  <1>1. RpaTypes /\ rpa[t] \in RpaRecord /\ RpaTaskInv(t) /\ rpa[t].timer
    BY RpaFacts DEF TimerFires
  <1>2. /\ rpa[t].phase = "none" /\ rpa[t].state # "NONE" /\ rpa[t].session # "open"
        /\ rpaStarts[t] = 0 /\ \A k \in Owing : ~Waits(k, t)
    BY <1>1 DEF RpaTaskInv, ExecutionFits, WaitsFit, Owing
  <1>3. TaskFrame /\ rpaStarts' = rpaStarts /\ rpaStarts' \in [RpaTasks -> Nat]
    BY <1>1 DEF TimerFires, Rest, TaskFrame, RpaTypes
  <1>4. CASE rpa[t].state # "CANCELLED" /\ writes' = Append(writes, <<"begin", t>>)
             /\ rpa' = [rpa EXCEPT ![t].timer = FALSE, ![t].state = "RUNNING", ![t].phase = "begin"]
    <2> DEFINE r == [rpa[t] EXCEPT !.timer = FALSE, !.state = "RUNNING", !.phase = "begin"]
    <2>1. r \in RpaRecord
      BY <1>1 DEF RpaRecord, RpaPhases, RpaStates
    <2>2. /\ rpa' \in [RpaTasks -> RpaRecord] /\ rpa'[t] = r
          /\ \A u \in RpaTasks \ {t} : rpa'[u] = rpa[u]
      BY <1>1, <1>4, <2>1 DEF RpaTypes
    <2>3. /\ ~r.timer /\ r.state = "RUNNING" /\ r.phase = "begin"
          /\ r.session = rpa[t].session /\ r.cancel = rpa[t].cancel
      BY <1>1 DEF RpaRecord
    <2>4. {"begin", "cancel"} \subseteq Kinds
      BY DEF Kinds, Owing
    <2>5. /\ \A k \in Kinds : /\ Waits(k, t)' <=> Waits(k, t) \/ k = "begin"
                              /\ Saves(k, t)' <=> Saves(k, t)
          /\ OneWaits(t)'
      BY <1>2, <1>3, <1>4, <2>4, CallerJoins DEF TaskFrame
    <2>6. rpa[t].cancel = "none" /\ ~Waits("cancel", t) /\ ~Saves("begin", t) /\ t \notin confirmed
      <3>1. ~Saves("begin", t)
        BY <1>2, <2>4, SavesWait DEF Owing, Saves
      <3>2. QED
        BY <1>1, <1>2, <1>4, <3>1 DEF RpaTaskInv, CancelFits, ConfirmedFits
    <2>7. ExecutionFits(t)'
      BY <1>2, <1>3, <2>2, <2>3, <2>6 DEF ExecutionFits
    <2>8. WaitsFit(t)'
      BY <1>2, <2>2, <2>3, <2>5 DEF WaitsFit, Kinds, Owing
    <2>9. BegunFits(t)'
      BY <1>2, <1>3, <2>2, <2>3, <2>4, <2>5, <2>6 DEF BegunFits, Begun
    <2>10. CancelFits(t)'
      BY <1>1, <1>2, <1>3, <2>2, <2>3, <2>4, <2>5, <2>6 DEF RpaTaskInv, CancelFits, TaskFrame
    <2>11. LoadFits(t)'
      BY <1>1, <1>2, <1>3 DEF RpaTaskInv, LoadFits, TaskFrame
    <2>12. ConfirmedFits(t)'
      BY <1>3, <2>6 DEF ConfirmedFits, TaskFrame
    <2>13. RpaTaskInv(t)'
      BY <2>5, <2>7, <2>8, <2>9, <2>10, <2>11, <2>12 DEF RpaTaskInv
    <2>14. QED
      BY <1>3, <1>4, <2>2, <2>4, <2>13, OwnStep
  <1>5. CASE rpa' = [rpa EXCEPT ![t].timer = FALSE] /\ writes' = writes
    <2> DEFINE r == [rpa[t] EXCEPT !.timer = FALSE]
    <2>1. r \in RpaRecord
      BY <1>1 DEF RpaRecord
    <2>2. /\ rpa' \in [RpaTasks -> RpaRecord] /\ rpa'[t] = r
          /\ \A u \in RpaTasks \ {t} : rpa'[u] = rpa[u]
      BY <1>1, <1>5, <2>1 DEF RpaTypes
    <2>3. /\ ~r.timer /\ r.state = rpa[t].state /\ r.phase = rpa[t].phase /\ r.session = rpa[t].session
          /\ r.sessionId = rpa[t].sessionId /\ r.cancel = rpa[t].cancel
      BY <1>1 DEF RpaRecord
    <2>4. OneWaits(t)' /\ \A k \in Kinds : (Saves(k, t)' <=> Saves(k, t)) /\ (Waits(k, t)' => Waits(k, t))
      BY <1>3, <1>5, RpaFacts DEF TaskFrame, Kinds
    <2>5. RpaTaskInv(t)'
      BY <1>3, <2>2, <2>3, <2>4, Withdrawn
    <2>6. QED
      BY <1>3, <1>5, <2>2, <2>5, OwnStep
  <1>6. QED
    BY <1>4, <1>5 DEF TimerFires, Persist

\* cancel, also by the shutdown, and the write that confirms it.
LEMMA CancelKeeps ==
    ASSUME RpaInv, NEW t \in RpaTasks, Cancel(t) \/ CancelStops(t) \/ ShutdownCancel(t)
    PROVE  RpaInv'
PROOF
  <1>1. RpaTypes /\ rpa[t] \in RpaRecord /\ RpaTaskInv(t)
    BY RpaFacts
  <1>2. TaskFrame /\ rpaStarts' = rpaStarts /\ rpaStarts' \in [RpaTasks -> Nat]
    BY <1>1 DEF Cancel, CancelStops, ShutdownCancel, Rest, TaskFrame, RpaTypes
  <1>3. CASE rpa' = rpa /\ writes' = writes
    <2>1. OneWaits(t)' /\ \A k \in Kinds : (Saves(k, t)' <=> Saves(k, t)) /\ (Waits(k, t)' => Waits(k, t))
      BY <1>2, <1>3, RpaFacts DEF TaskFrame, Kinds
    <2>2. RpaTaskInv(t)'
      BY <1>2, <1>3, <2>1, Withdrawn
    <2>3. QED
      BY <1>1, <1>2, <1>3, <2>2, OwnStep DEF RpaTypes
  <1>4. CASE rpa[t].state \in {"QUEUED", "RUNNING"} /\ rpa' = Cancelled(t) /\ writes' = writes
    <2> DEFINE r == [rpa[t] EXCEPT !.timer = FALSE, !.state = "CANCELLED", !.cancel = "stopping"]
    <2>1. r \in RpaRecord
      BY <1>1 DEF RpaRecord, RpaStates, Final
    <2>2. /\ rpa' \in [RpaTasks -> RpaRecord] /\ rpa'[t] = r
          /\ \A u \in RpaTasks \ {t} : rpa'[u] = rpa[u]
      BY <1>1, <1>4, <2>1 DEF RpaTypes, Cancelled
    <2>3. /\ ~r.timer /\ r.state = "CANCELLED" /\ r.phase = rpa[t].phase /\ r.session = rpa[t].session
          /\ r.sessionId = rpa[t].sessionId
      BY <1>1 DEF RpaRecord
    <2>4. OneWaits(t)' /\ \A k \in Kinds : (Saves(k, t)' <=> Saves(k, t)) /\ (Waits(k, t)' => Waits(k, t))
      BY <1>2, <1>4, RpaFacts DEF TaskFrame, Kinds
    <2> HIDE DEF r
    <2>5. RpaTaskInv(t)'
      BY <1>2, <1>4, <2>2, <2>3, <2>4, Withdrawn
    <2>6. QED
      BY <1>2, <1>4, <2>2, <2>5, OwnStep
  <1>5. CASE CancelStops(t)
    <2>1. PICK ok \in BOOLEAN :
             rpa' = [rpa EXCEPT ![t].cancel = "saving", ![t].session = IF ok THEN "closed" ELSE @]
      BY <1>5 DEF CancelStops
    <2> DEFINE u == IF ok THEN "closed" ELSE rpa[t].session
               r == [rpa[t] EXCEPT !.cancel = "saving", !.session = u]
    <2>2. u \in {"none", "open", "closed", "leaked"} /\ (u = "open" => rpa[t].session = "open")
      BY <1>1 DEF RpaRecord
    <2>3. rpa' = [rpa EXCEPT ![t] = r]
      BY <1>1, <2>1 DEF RpaTypes
    <2> HIDE DEF u
    <2>4. r \in RpaRecord
      BY <1>1, <2>2 DEF RpaRecord
    <2>5. /\ rpa' \in [RpaTasks -> RpaRecord] /\ rpa'[t] = r
          /\ \A v \in RpaTasks \ {t} : rpa'[v] = rpa[v]
      BY <1>1, <2>3, <2>4 DEF RpaTypes
    <2>6. /\ r.timer = rpa[t].timer /\ r.state = rpa[t].state /\ r.phase = rpa[t].phase
          /\ r.session = u /\ r.sessionId = rpa[t].sessionId
      BY <1>1 DEF RpaRecord
    <2>7. rpa[t].cancel = "stopping" /\ writes' = Append(writes, <<"cancel", t>>)
      BY <1>5 DEF CancelStops, Persist
    <2>8. "cancel" \in Kinds /\ "cancel" \notin Owing
      BY DEF Kinds, Owing
    <2>9. /\ \A k \in Kinds : /\ Waits(k, t)' <=> Waits(k, t) \/ k = "cancel"
                              /\ Saves(k, t)' <=> Saves(k, t)
          /\ OneWaits(t)'
      BY <1>2, <2>7, <2>8, CallerJoins DEF TaskFrame
    <2>10. RpaTaskInv(t)'
      BY <1>2, <2>2, <2>5, <2>6, <2>7, <2>9, Withdrawn
    <2>11. QED
      BY <1>2, <2>5, <2>7, <2>8, <2>10, OwnStep
  <1>6. QED
    BY <1>3, <1>4, <1>5 DEF Cancel, ShutdownCancel

\* shutdown clears the timers.
LEMMA ShutdownKeeps ==
    ASSUME RpaInv, Shutdown
    PROVE  RpaInv'
PROOF
  <1>1. RpaTypes /\ rpaStarts' = rpaStarts /\ writes' = writes /\ TaskFrame
    BY RpaFacts DEF Shutdown, TaskFrame
  <1>2. ASSUME NEW t \in RpaTasks
        PROVE  rpa'[t] \in RpaRecord /\ RpaTaskInv(t)'
    <2>1. rpa[t] \in RpaRecord
      BY RpaFacts
    <2> DEFINE r == [rpa[t] EXCEPT !.timer = FALSE]
    <2>2. r \in RpaRecord /\ rpa'[t] = r
      BY <2>1 DEF RpaRecord, Shutdown
    <2>3. /\ ~r.timer /\ r.state = rpa[t].state /\ r.phase = rpa[t].phase /\ r.session = rpa[t].session
          /\ r.sessionId = rpa[t].sessionId /\ r.cancel = rpa[t].cancel
      BY <2>1 DEF RpaRecord
    <2>4. OneWaits(t)' /\ \A k \in Kinds : (Saves(k, t)' <=> Saves(k, t)) /\ (Waits(k, t)' => Waits(k, t))
      BY <1>1, RpaFacts DEF TaskFrame, Kinds
    <2>5. RpaTaskInv(t)'
      BY <1>1, <2>2, <2>3, <2>4, Withdrawn
    <2>6. QED
      BY <2>2, <2>5
  <1>3. rpa' \in [RpaTasks -> RpaRecord]
    BY <1>2 DEF Shutdown
  <1>4. RpaTypes'
    BY <1>1, <1>3 DEF RpaTypes, TaskFrame
  <1>5. QED
    BY <1>2, <1>4 DEF RpaInv

\* deleteWorkflow and the end of a shutdown save what is left.
LEMMA SaveKeeps ==
    ASSUME RpaInv, DeleteWorkflow \/ ShutdownEnds
    PROVE  RpaInv'
PROOF
  <1>1. RpaTypes
    BY RpaFacts
  <1>2. PICK x \in {<<"delete">>, <<"shutdown">>} : writes' = Append(writes, x)
    BY DEF DeleteWorkflow, ShutdownEnds, Persist
  <1>3. /\ UNCHANGED <<rpa, writing, file, reading, loaded, rpaStarts, confirmed>>
        /\ workflow' \in BOOLEAN /\ (workflow' => workflow)
    <2>1. CASE DeleteWorkflow
      BY <2>1 DEF DeleteWorkflow
    <2>2. CASE ShutdownEnds
      BY <1>1, <2>2 DEF ShutdownEnds, RpaTypes
    <2>3. QED
      BY <2>1, <2>2
  <1>4. x \in RpaCallers /\ \A k \in Kinds, t \in RpaTasks : x # <<k, t>>
    BY <1>2 DEF RpaCallers
  <1>5. /\ writes' \in Seq(RpaCallers) /\ writes' # << >>
        /\ \A k \in Kinds, t \in RpaTasks :
              (Waits(k, t)' <=> Waits(k, t) \/ x = <<k, t>>) /\ (Saves(k, t)' <=> Saves(k, t))
        /\ \A t \in RpaTasks :
              OneWaits(t) /\ (\A k, m \in Owing : x = <<m, t>> => ~Waits(k, t)) => OneWaits(t)'
    BY <1>1, <1>2, <1>3, <1>4, AppendFacts
  <1>6. \A t \in RpaTasks : RpaTaskInv(t)'
    <2> TAKE t \in RpaTasks
    <2>1. RpaTaskInv(t) /\ OneWaits(t)
      BY RpaFacts DEF RpaTaskInv
    <2>2. OneWaits(t)'
      BY <1>4, <1>5, <2>1 DEF Kinds
    <2>3. QED
      BY <1>3, <1>4, <1>5, <2>1, <2>2, Untouched
  <1>7. RpaTypes'
    BY <1>1, <1>3, <1>5 DEF RpaTypes
  <1>8. QED
    BY <1>6, <1>7 DEF RpaInv

\* A write is over: its caller goes on, or gives up if the write was refused.
LEMMA WriteSettles ==
    ASSUME RpaInv, NEW t \in RpaTasks,
           writing # << >>, writing' = << >>, writes' = Tail(writes),
           file' \in {file, writing[1]},
           UNCHANGED <<workflow, reading, loaded, rpaStarts>>,
           rpa'[t].state = rpa[t].state, rpa'[t].session = rpa[t].session,
           rpa'[t].sessionId = rpa[t].sessionId,
           rpa'[t].cancel \in {rpa[t].cancel, "none"},
           \/ rpa'[t].phase = rpa[t].phase /\ rpa'[t].timer = rpa[t].timer
           \/ /\ Saves("run", t) /\ rpa'[t].phase = rpa[t].phase
           \/ /\ Saves("begin", t) /\ rpa'[t].timer = rpa[t].timer
              /\ \/ rpa'[t].phase = "starting" /\ file' = writing[1]
                 \/ rpa'[t].phase = "none"
           \/ /\ Saves("step", t) /\ rpa'[t].timer = rpa[t].timer
              /\ rpa'[t].phase \in {"steps", "failing"}
           \/ /\ Saves("end", t) /\ rpa'[t].timer = rpa[t].timer
              /\ rpa'[t].phase \in {"ended", "none"},
           t \in confirmed' => \/ t \in confirmed
                               \/ Saves("cancel", t) /\ Unbegun(t) /\ file' = writing[1]
    PROVE  RpaTaskInv(t)'
PROOF
  <1>1. RpaTypes /\ RpaTaskInv(t)
    BY RpaFacts
  <1>2. {"run", "begin", "step", "end", "cancel"} \subseteq Kinds
        /\ {"run", "begin", "step", "end"} \subseteq Owing
    BY DEF Kinds, Owing
  <1>3. /\ \A k \in Kinds : (Waits(k, t)' => Waits(k, t)) /\ ~Saves(k, t)'
        /\ OneWaits(t)'
        /\ \A k, m \in Owing : Head(writes) = <<k, t>> => ~Waits(m, t)'
    BY <1>1, TailFacts DEF RpaTaskInv
  <1>4. \A k \in Kinds : Saves(k, t) => Waits(k, t) /\ Head(writes) = <<k, t>>
    BY SavesWait DEF Saves
  <1>5. \/ rpa'[t].phase = rpa[t].phase /\ rpa'[t].timer = rpa[t].timer
        \/ /\ Waits("run", t) /\ rpa'[t].phase = rpa[t].phase
           /\ \A k \in Owing : ~Waits(k, t)'
        \/ /\ Waits("begin", t) /\ rpa'[t].timer = rpa[t].timer
           /\ \/ rpa'[t].phase = "starting" /\ file' = writing[1] /\ Saves("begin", t)
              \/ rpa'[t].phase = "none"
           /\ \A k \in Owing : ~Waits(k, t)'
        \/ /\ Waits("step", t) /\ rpa'[t].timer = rpa[t].timer
           /\ rpa'[t].phase \in {"steps", "failing"}
           /\ \A k \in Owing : ~Waits(k, t)'
        \/ /\ Waits("end", t) /\ rpa'[t].timer = rpa[t].timer
           /\ rpa'[t].phase \in {"ended", "none"}
           /\ \A k \in Owing : ~Waits(k, t)'
    BY <1>2, <1>3, <1>4
  <1>6. ~Waits("run", t)' \/ (rpa'[t].phase = rpa[t].phase /\ rpa'[t].timer = rpa[t].timer)
    BY <1>2, <1>5
  <1> USE DEF RpaTaskInv
  <1>7. ExecutionFits(t)'
    <2>1. Waits("run", t) => rpa[t].phase = "none" /\ rpa[t].state # "NONE" /\ rpaStarts[t] = 0
      BY <1>1 DEF WaitsFit
    <2>2. Waits("begin", t) => rpa[t].phase = "begin"
      BY <1>1 DEF WaitsFit
    <2>3. Waits("step", t) => rpa[t].phase = "saving"
      BY <1>1 DEF WaitsFit
    <2>4. Waits("end", t) => rpa[t].phase = "saving" /\ rpa[t].session # "open"
      BY <1>1 DEF WaitsFit
    <2>5. QED
      BY <1>1, <1>5, <2>1, <2>2, <2>3, <2>4 DEF ExecutionFits
  <1>8. WaitsFit(t)'
    <2>1. (\A k \in Owing : ~Waits(k, t)')
          \/ (rpa'[t].phase = rpa[t].phase /\ rpa'[t].timer = rpa[t].timer)
      BY <1>5
    <2>2. QED
      BY <1>1, <1>2, <1>3, <2>1 DEF WaitsFit
  <1>9. BegunFits(t)'
    <2>1. ~Saves("begin", t)'
      BY <1>2, <1>3
    <2>2. CASE Begun(t)
      BY <1>1, <2>1, <2>2 DEF BegunFits
    <2>3. CASE ~Begun(t) /\ ~Begun(t)'
      BY <1>1, <2>1, <2>3 DEF BegunFits
    <2>4. CASE ~Begun(t) /\ Begun(t)'
      <3>1. rpa'[t].phase = "starting" /\ rpa[t].phase # "starting"
        BY <2>4 DEF Begun
      <3>2. Waits("begin", t) /\ Saves("begin", t) /\ file' = writing[1]
        BY <1>5, <3>1
      <3>3. rpa[t].phase = "begin"
        BY <1>1, <3>2 DEF WaitsFit
      <3>4. rpa[t].state \notin {"NONE", "QUEUED"}
        BY <1>1, <3>3 DEF ExecutionFits
      <3>5. reading # << >> => reading[1].tasks[t].state = "NONE"
        BY <1>1, <3>4 DEF LoadFits
      <3>6. writing[1].tasks[t].state # "QUEUED"
        BY <1>1, <3>2 DEF BegunFits
      <3>7. QED
        BY <1>1, <2>1, <3>2, <3>4, <3>5, <3>6 DEF BegunFits
    <2>5. QED
      BY <2>2, <2>3, <2>4
  <1>10. CancelFits(t)'
    BY <1>1, <1>2, <1>3 DEF CancelFits
  <1>11. LoadFits(t)'
    BY <1>1 DEF LoadFits
  <1>12. ConfirmedFits(t)'
    <2>1. CASE t \in confirmed
      <3>1. rpaStarts[t] = 0 /\ rpa[t].phase = "none" /\ rpa[t].state \in {"NONE", "CANCELLED"}
        BY <1>1, <2>1 DEF ConfirmedFits
      <3>2. rpa'[t].phase = "none"
        BY <1>1, <1>5, <3>1 DEF WaitsFit
      <3>3. QED
        BY <1>1, <2>1, <3>1, <3>2 DEF ConfirmedFits, KeepsCancelled
    <2>2. CASE Saves("cancel", t) /\ Unbegun(t) /\ file' = writing[1]
      <3>1. rpaStarts[t] = 0 /\ rpa[t].phase = "none"
        BY <2>2 DEF Unbegun
      <3>2. rpa[t].state = "CANCELLED" /\ writing[1].tasks[t].state = "CANCELLED"
        BY <1>1, <1>2, <1>4, <2>2, <3>1 DEF CancelFits
      <3>3. rpa'[t].phase = "none"
        BY <1>1, <1>5, <3>1 DEF WaitsFit
      <3>4. reading # << >> => reading[1].tasks[t].state = "NONE"
        BY <1>1, <3>2 DEF LoadFits
      <3>5. QED
        BY <2>2, <3>1, <3>2, <3>3, <3>4 DEF ConfirmedFits, KeepsCancelled
    <2>3. CASE t \notin confirmed'
      BY <2>3 DEF ConfirmedFits
    <2>4. QED
      BY <2>1, <2>2, <2>3
  <1>13. QED
    BY <1>3, <1>7, <1>8, <1>9, <1>10, <1>11, <1>12

\* The caller at the head, and what it does to its own task.
LEMMA WriteKeeps ==
    ASSUME RpaInv, WriteEnds \/ WriteFails
    PROVE  RpaInv'
PROOF
  <1> DEFINE head == Head(writes)
  <1>1. RpaTypes /\ writing # << >>
    BY RpaFacts DEF WriteEnds, WriteFails
  <1>2. /\ writes' = Tail(writes) /\ writing' = << >> /\ file' \in {file, writing[1]}
        /\ UNCHANGED <<workflow, reading, loaded, rpaStarts>>
    BY DEF WriteEnds, WriteFails
  <1>3. head \in RpaCallers /\ writes' \in Seq(RpaCallers)
    BY <1>1, <1>2, TailFacts
  <1>4. CASE head \in {<<"delete">>, <<"shutdown">>}
    <2>1. rpa' = rpa /\ confirmed' = confirmed
      <3>1. Len(head) = 1 /\ head[1] # "cancel"
        BY <1>4
      <3>2. QED
        BY <3>1 DEF WriteEnds, WriteFails, Resumed, Rejected
    <2>2. \A t \in RpaTasks : RpaTaskInv(t)'
      BY <1>1, <1>2, <2>1, WriteSettles
    <2>3. QED
      BY <1>1, <1>2, <1>3, <2>1, <2>2 DEF RpaInv, RpaTypes
  <1>5. ASSUME NEW k \in Kinds, NEW t \in RpaTasks, head = <<k, t>>
        PROVE  RpaInv'
    <2>1. rpa[t] \in RpaRecord /\ Saves(k, t)
      BY <1>1, <1>5, RpaFacts DEF Saves
    <2>2. Len(head) # 1 /\ head[1] = k /\ head[2] = t
      BY <1>5
    <2>3. PICK r \in RpaRecord :
             /\ rpa' = [rpa EXCEPT ![t] = r]
             /\ r.state = rpa[t].state /\ r.session = rpa[t].session
             /\ r.sessionId = rpa[t].sessionId
             /\ r.cancel \in {rpa[t].cancel, "none"}
             /\ \/ r.phase = rpa[t].phase /\ r.timer = rpa[t].timer
                \/ k = "run" /\ r.phase = rpa[t].phase
                \/ /\ k = "begin" /\ r.timer = rpa[t].timer
                   /\ \/ r.phase = "starting" /\ file' = writing[1]
                      \/ r.phase = "none"
                \/ k = "step" /\ r.timer = rpa[t].timer /\ r.phase \in {"steps", "failing"}
                \/ k = "end" /\ r.timer = rpa[t].timer /\ r.phase \in {"ended", "none"}
      <3> DEFINE after(p) == [rpa[t] EXCEPT !.phase = p]
                 timed == [rpa[t] EXCEPT !.timer = TRUE]
                 quiet == [rpa[t] EXCEPT !.cancel = "none"]
      <3>1. \/ k = "run" /\ rpa' = [rpa EXCEPT ![t] = timed]
            \/ k = "run" /\ rpa' = [rpa EXCEPT ![t] = rpa[t]]
            \/ k = "cancel" /\ rpa' = [rpa EXCEPT ![t] = quiet]
            \/ k = "begin" /\ rpa' = [rpa EXCEPT ![t] = after("starting")] /\ file' = writing[1]
            \/ k \in {"begin", "end"} /\ rpa' = [rpa EXCEPT ![t] = after("none")]
            \/ k = "step" /\ \E p \in {"steps", "failing"} : rpa' = [rpa EXCEPT ![t] = after(p)]
            \/ k = "end" /\ rpa' = [rpa EXCEPT ![t] = after("ended")]
        <4>1. k \in {"run", "begin", "step", "end", "cancel"}
          BY DEF Kinds, Owing
        <4>2. rpa = [rpa EXCEPT ![t] = rpa[t]]
          BY <1>1 DEF RpaTypes
        <4>3. CASE WriteEnds
          <5>1. rpa' = Resumed(head) /\ file' = writing[1]
            BY <4>3 DEF WriteEnds
          <5>2. CASE k = "run"
            BY <2>2, <5>1, <5>2 DEF Resumed
          <5>3. CASE k = "begin"
            BY <2>2, <5>1, <5>3 DEF Resumed
          <5>4. CASE k = "step"
            BY <2>2, <5>1, <5>4 DEF Resumed
          <5>5. CASE k = "end"
            BY <2>2, <5>1, <5>5 DEF Resumed
          <5>6. CASE k = "cancel"
            BY <2>2, <5>1, <5>6 DEF Resumed
          <5>7. QED
            BY <4>1, <5>2, <5>3, <5>4, <5>5, <5>6
        <4>4. CASE WriteFails
          <5>1. rpa' = Rejected(head)
            BY <4>4 DEF WriteFails
          <5>2. CASE k = "run"
            BY <2>2, <4>2, <5>1, <5>2 DEF Rejected
          <5>3. CASE k \in {"begin", "end"}
            BY <2>2, <5>1, <5>3 DEF Rejected
          <5>4. CASE k = "step"
            <6>1. rpa' = [rpa EXCEPT ![t].phase = "failing"]
              BY <2>2, <5>1, <5>4 DEF Rejected
            <6>2. rpa' = [rpa EXCEPT ![t] = after("failing")]
              BY <6>1
            <6>3. QED
              BY <5>4, <6>2
          <5>5. CASE k = "cancel"
            <6>1. rpa' = [rpa EXCEPT ![t].cancel = "none"]
              BY <2>2, <5>1, <5>5 DEF Rejected
            <6>2. QED
              BY <5>5, <6>1
          <5>6. QED
            BY <4>1, <5>2, <5>3, <5>4, <5>5
        <4>5. QED
          BY <4>3, <4>4
      <3>2. \A p \in RpaPhases : after(p) \in RpaRecord
        BY <2>1 DEF RpaRecord
      <3>3. timed \in RpaRecord
        BY <2>1 DEF RpaRecord
      <3>4. quiet \in RpaRecord
        BY <2>1 DEF RpaRecord
      <3>5. \A p \in RpaPhases :
               /\ after(p).state = rpa[t].state /\ after(p).session = rpa[t].session
               /\ after(p).sessionId = rpa[t].sessionId /\ after(p).cancel = rpa[t].cancel
               /\ after(p).timer = rpa[t].timer /\ after(p).phase = p
        BY <2>1 DEF RpaRecord
      <3>6. /\ timed.state = rpa[t].state /\ timed.session = rpa[t].session
            /\ timed.sessionId = rpa[t].sessionId /\ timed.cancel = rpa[t].cancel
            /\ timed.phase = rpa[t].phase
        BY <2>1 DEF RpaRecord
      <3>7. /\ quiet.state = rpa[t].state /\ quiet.session = rpa[t].session
            /\ quiet.sessionId = rpa[t].sessionId /\ quiet.cancel = "none"
            /\ quiet.timer = rpa[t].timer /\ quiet.phase = rpa[t].phase
        BY <2>1 DEF RpaRecord
      <3>8. {"starting", "none", "steps", "failing", "ended"} \subseteq RpaPhases
        BY DEF RpaPhases
      <3> HIDE DEF after, timed, quiet
      <3>9. QED
        BY <2>1, <3>1, <3>2, <3>3, <3>4, <3>5, <3>6, <3>7, <3>8
    <2>4. rpa' \in [RpaTasks -> RpaRecord] /\ rpa'[t] = r
          /\ \A u \in RpaTasks \ {t} : rpa'[u] = rpa[u]
      BY <1>1, <2>3 DEF RpaTypes
    <2>5. \A u \in RpaTasks : u \in confirmed' =>
             \/ u \in confirmed
             \/ u = t /\ Saves("cancel", u) /\ Unbegun(u) /\ file' = writing[1]
      <3>1. CASE WriteEnds
        BY <2>1, <2>2, <3>1 DEF WriteEnds
      <3>2. CASE WriteFails
        BY <3>2 DEF WriteFails
      <3>3. QED
        BY <3>1, <3>2
    <2>6. \A u \in RpaTasks \ {t} : RpaTaskInv(u)'
      BY <1>1, <1>2, <2>4, <2>5, WriteSettles
    <2>7. RpaTaskInv(t)'
      BY <1>1, <1>2, <2>1, <2>3, <2>4, <2>5, WriteSettles
    <2>8. RpaTypes'
      <3>1. confirmed' \subseteq RpaTasks
        <4>1. CASE WriteEnds
          BY <1>1, <2>2, <4>1 DEF WriteEnds, RpaTypes
        <4>2. CASE WriteFails
          BY <1>1, <4>2 DEF WriteFails, RpaTypes
        <4>3. QED
          BY <4>1, <4>2
      <3>2. QED
        BY <1>1, <1>2, <1>3, <2>4, <3>1 DEF RpaTypes
    <2>9. QED
      BY <2>6, <2>7, <2>8 DEF RpaInv
  <1>6. QED
    BY <1>3, <1>4, <1>5 DEF RpaCallers, Kinds

\* The write takes the state as it is now.
LEMMA WriteBeginsKeeps ==
    ASSUME RpaInv, WriteBegins
    PROVE  RpaInv'
PROOF
  <1>1. /\ RpaTypes /\ writing = << >> /\ writing' = <<Snapshot>> /\ writes # << >>
        /\ UNCHANGED <<rpa, workflow, writes, file, reading, loaded, rpaStarts, confirmed>>
    BY RpaFacts DEF WriteBegins
  <1>2. /\ Snapshot.workflow = workflow
        /\ \A t \in RpaTasks : Snapshot.tasks[t].state = rpa[t].state
    BY DEF Snapshot
  <1>3. Snapshot \in RpaFile
    BY <1>1 DEF Snapshot, RpaFile, RpaTypes, RpaRecord
  <1>4. writing' # << >> /\ writing'[1] = Snapshot
    BY <1>1
  <1>5. RpaTypes'
    BY <1>1, <1>3, <1>4 DEF RpaTypes
  <1>6. \A t \in RpaTasks : RpaTaskInv(t)'
    <2> TAKE t \in RpaTasks
    <2>1. RpaTaskInv(t)
      BY RpaFacts
    <2>2. /\ \A k \in Kinds : (Waits(k, t)' <=> Waits(k, t)) /\ (Saves(k, t)' => Waits(k, t))
          /\ OneWaits(t)'
      <3>1. 1 \in DOMAIN writes /\ Head(writes) = writes[1]
        BY <1>1 DEF RpaTypes
      <3>2. QED
        BY <1>1, <2>1, <3>1 DEF RpaTaskInv, Waits, Saves, OneWaits
    <2>3. {"run", "begin", "step", "end", "cancel"} \subseteq Kinds
      BY DEF Kinds, Owing
    <2> USE DEF RpaTaskInv
    <2>4. ExecutionFits(t)'
      BY <1>1, <2>1 DEF ExecutionFits
    <2>5. WaitsFit(t)'
      BY <1>1, <2>1, <2>2, <2>3 DEF WaitsFit
    <2>6. BegunFits(t)'
      <3>1. Begun(t)' <=> Begun(t)
        BY <1>1 DEF Begun
      <3>2. Saves("begin", t)' => rpa[t].state # "QUEUED"
        BY <2>1, <2>2, <2>3 DEF WaitsFit, ExecutionFits
      <3>3. QED
        BY <1>1, <1>2, <1>4, <2>1, <3>1, <3>2 DEF BegunFits
    <2>7. CancelFits(t)'
      BY <1>1, <1>2, <1>4, <2>1, <2>2, <2>3 DEF CancelFits
    <2>8. LoadFits(t)'
      BY <1>1, <2>1 DEF LoadFits
    <2>9. ConfirmedFits(t)'
      BY <1>1, <1>2, <1>4, <2>1 DEF ConfirmedFits, KeepsCancelled
    <2>10. QED
      BY <2>2, <2>4, <2>5, <2>6, <2>7, <2>8, <2>9
  <1>7. QED
    BY <1>5, <1>6 DEF RpaInv

\* The load reads the file.
LEMMA LoadBeginsKeeps ==
    ASSUME RpaInv, LoadBegins
    PROVE  RpaInv'
PROOF
  <1>1. /\ RpaTypes /\ ~loaded /\ loaded' = TRUE /\ reading' = <<file>>
        /\ UNCHANGED <<rpa, workflow, writes, writing, file, rpaStarts, confirmed>>
    BY RpaFacts DEF LoadBegins
  <1>2. reading' # << >> /\ reading'[1] = file
    BY <1>1
  <1>3. RpaTypes'
    BY <1>1, <1>2 DEF RpaTypes
  <1>4. \A t \in RpaTasks : RpaTaskInv(t)'
    <2> TAKE t \in RpaTasks
    <2>1. RpaTaskInv(t)
      BY RpaFacts
    <2>2. \A k \in Kinds : (Waits(k, t)' <=> Waits(k, t)) /\ (Saves(k, t)' <=> Saves(k, t))
      BY <1>1, RpaFacts
    <2>3. {"run", "begin", "step", "end", "cancel"} \subseteq Kinds
      BY DEF Kinds, Owing
    <2> USE DEF RpaTaskInv
    <2>4. ExecutionFits(t)'
      BY <1>1, <2>1 DEF ExecutionFits
    <2>5. WaitsFit(t)'
      BY <1>1, <2>1, <2>2, <2>3 DEF WaitsFit
    <2>6. OneWaits(t)'
      BY <1>1, RpaFacts DEF Kinds
    <2>7. BegunFits(t)'
      BY <1>1, <1>2, <2>1, <2>2, <2>3 DEF BegunFits, Begun
    <2>8. CancelFits(t)'
      BY <1>1, <2>1, <2>2, <2>3 DEF CancelFits
    <2>9. LoadFits(t)'
      BY <1>1, <2>1 DEF LoadFits
    <2>10. ConfirmedFits(t)'
      BY <1>1, <1>2, <2>1 DEF ConfirmedFits
    <2>11. QED
      BY <2>4, <2>5, <2>6, <2>7, <2>8, <2>9, <2>10
  <1>5. QED
    BY <1>3, <1>4 DEF RpaInv

\* A task comes back as the file has it: nobody waits for it.
LEMMA LoadedTask ==
    ASSUME RpaInv, NEW t \in RpaTasks, reading # << >>, reading[1].tasks[t].state # "NONE",
           reading' = << >>, workflow' = (workflow \/ reading[1].workflow),
           UNCHANGED <<writes, writing, file, loaded, rpaStarts, confirmed>>,
           rpa'[t].state = IF reading[1].tasks[t].state = "RUNNING" THEN "FAILED"
                           ELSE reading[1].tasks[t].state,
           rpa'[t].timer = (reading[1].tasks[t].state = "QUEUED"),
           rpa'[t].phase = "none", rpa'[t].session = "none", rpa'[t].cancel = "none"
    PROVE  RpaTaskInv(t)'
PROOF
  <1>1. RpaTypes /\ RpaTaskInv(t) /\ loaded
    BY RpaFacts DEF RpaTypes
  <1> USE DEF RpaTaskInv
  <1>2. rpa[t].state = "NONE" /\ rpa'[t].state # "NONE"
    BY <1>1 DEF LoadFits
  <1>3. \A k \in Kinds : ~Waits(k, t)
    BY <1>1, <1>2 DEF WaitsFit, ExecutionFits, Kinds, Owing
  <1>4. \A k \in Kinds : ~Waits(k, t)' /\ ~Saves(k, t)'
    BY <1>3, SavesWait, RpaFacts DEF Saves
  <1>5. {"run", "begin", "step", "end", "cancel"} \subseteq Kinds
    BY DEF Kinds, Owing
  <1>6. rpa'[t].state = "QUEUED" => rpaStarts[t] = 0
    BY <1>1 DEF BegunFits, Begun, RpaTypes
  <1>7. ExecutionFits(t)'
    BY <1>2, <1>6 DEF ExecutionFits
  <1>8. WaitsFit(t)'
    BY <1>4, <1>5 DEF WaitsFit
  <1>9. OneWaits(t)'
    BY <1>1, RpaFacts DEF Kinds
  <1>10. BegunFits(t)'
    BY <1>1, <1>4, <1>5, <1>6 DEF BegunFits, Begun, RpaTypes
  <1>11. CancelFits(t)'
    BY <1>4, <1>5 DEF CancelFits
  <1>12. LoadFits(t)'
    BY <1>1 DEF LoadFits
  <1>13. ConfirmedFits(t)'
    BY <1>1, <1>2 DEF ConfirmedFits, KeepsCancelled
  <1>14. QED
    BY <1>7, <1>8, <1>9, <1>10, <1>11, <1>12, <1>13

\* A task the file does not know stays as it is.
LEMMA MissedTask ==
    ASSUME RpaInv, NEW t \in RpaTasks, reading # << >>, reading[1].tasks[t].state = "NONE",
           reading' = << >>, workflow' = (workflow \/ reading[1].workflow),
           UNCHANGED <<writes, writing, file, loaded, rpaStarts, confirmed>>,
           rpa'[t] = rpa[t]
    PROVE  RpaTaskInv(t)'
PROOF
  <1>1. RpaTypes /\ RpaTaskInv(t) /\ loaded
    BY RpaFacts DEF RpaTypes
  <1> USE DEF RpaTaskInv
  <1>2. \A k \in Kinds : (Waits(k, t)' <=> Waits(k, t)) /\ (Saves(k, t)' <=> Saves(k, t))
    BY RpaFacts
  <1>3. {"run", "begin", "step", "end", "cancel"} \subseteq Kinds
    BY DEF Kinds, Owing
  <1>4. ExecutionFits(t)'
    BY <1>1 DEF ExecutionFits
  <1>5. WaitsFit(t)'
    BY <1>1, <1>2, <1>3 DEF WaitsFit
  <1>6. OneWaits(t)'
    BY <1>1, RpaFacts DEF Kinds
  <1>7. BegunFits(t)'
    BY <1>1, <1>2, <1>3 DEF BegunFits, Begun
  <1>8. CancelFits(t)'
    BY <1>1, <1>2, <1>3 DEF CancelFits
  <1>9. LoadFits(t)'
    BY <1>1 DEF LoadFits
  <1>10. ConfirmedFits(t)'
    BY <1>1 DEF ConfirmedFits, KeepsCancelled
  <1>11. QED
    BY <1>4, <1>5, <1>6, <1>7, <1>8, <1>9, <1>10

\* The record of a task that is not in memory.
LEMMA FreshTask ==
    NoTask \in RpaRecord
BY DEF NoTask, RpaRecord, RpaPhases, RpaStates

\* The load: each task comes back or stays.
LEMMA LoadEndsKeeps ==
    ASSUME RpaInv, LoadEnds
    PROVE  RpaInv'
PROOF
  <1>1. /\ RpaTypes /\ reading # << >> /\ reading' = << >>
        /\ workflow' = (workflow \/ reading[1].workflow)
        /\ UNCHANGED <<writes, writing, file, loaded, rpaStarts, confirmed>>
    BY RpaFacts DEF LoadEnds
  <1>2. reading[1] \in RpaFile
    BY <1>1 DEF RpaTypes
  <1>3. ASSUME NEW t \in RpaTasks
        PROVE  rpa'[t] \in RpaRecord /\ RpaTaskInv(t)'
    <2> DEFINE read == reading[1].tasks[t]
               back == [NoTask EXCEPT !.state = IF read.state = "RUNNING" THEN "FAILED" ELSE read.state,
                                      !.recurring = read.recurring, !.timer = (read.state = "QUEUED")]
    <2>1. read.state \in RpaStates /\ read.recurring \in BOOLEAN
      BY <1>2 DEF RpaFile
    <2>2. rpa'[t] = IF read.state = "NONE" THEN rpa[t] ELSE back
      BY DEF LoadEnds
    <2>3. CASE read.state = "NONE"
      BY <1>1, <2>2, <2>3, MissedTask, RpaFacts
    <2>4. CASE read.state # "NONE"
      <3>1. (read.state = "QUEUED") \in BOOLEAN
        OBVIOUS
      <3>2. /\ back.state = (IF read.state = "RUNNING" THEN "FAILED" ELSE read.state)
            /\ back.timer = (read.state = "QUEUED") /\ back.recurring = read.recurring
            /\ back.phase = "none" /\ back.session = "none" /\ back.cancel = "none"
        BY DEF NoTask
      <3>3. /\ (IF read.state = "RUNNING" THEN "FAILED" ELSE read.state) \in RpaStates
            /\ "none" \in RpaPhases
        BY <2>1 DEF RpaStates, RpaPhases, Final
      <3>4. back \in RpaRecord
        <4> DEFINE kept == IF read.state = "RUNNING" THEN "FAILED" ELSE read.state
                   due == (read.state = "QUEUED")
                   again == read.recurring
        <4>1. kept \in RpaStates /\ due \in BOOLEAN /\ again \in BOOLEAN
          BY <2>1, <3>3
        <4>2. back = [NoTask EXCEPT !.state = kept, !.recurring = again, !.timer = due]
          OBVIOUS
        <4> HIDE DEF kept, due, again
        <4>3. [NoTask EXCEPT !.state = kept, !.recurring = again, !.timer = due] \in RpaRecord
          BY <4>1, FreshTask DEF RpaRecord
        <4>4. QED
          BY <4>2, <4>3
      <3> HIDE DEF back
      <3>5. RpaTaskInv(t)'
        BY <1>1, <2>2, <2>4, <3>2, LoadedTask
      <3>6. QED
        BY <2>2, <2>4, <3>4, <3>5
    <2>5. QED
      BY <2>3, <2>4
  <1>4. rpa' \in [RpaTasks -> RpaRecord]
    BY <1>3 DEF LoadEnds
  <1>5. workflow' \in BOOLEAN
    BY <1>1, <1>2 DEF RpaTypes, RpaFile
  <1>6. RpaTypes'
    BY <1>1, <1>4, <1>5 DEF RpaTypes
  <1>7. QED
    BY <1>3, <1>6 DEF RpaInv

\* The process dies: an empty memory and whatever the file says.
LEMMA CrashKeeps ==
    ASSUME RpaInv, Crash
    PROVE  RpaInv'
PROOF
  <1>1. /\ RpaTypes /\ rpa' = [t \in RpaTasks |-> NoTask] /\ workflow' = FALSE
        /\ writes' = << >> /\ writing' = << >> /\ reading' = << >> /\ loaded' = FALSE
        /\ UNCHANGED <<file, rpaStarts, confirmed>>
    BY RpaFacts DEF Crash
  <1>2. RpaTypes'
    <2>1. << >> \in Seq(RpaCallers)
      OBVIOUS
    <2>2. [t \in RpaTasks |-> NoTask] \in [RpaTasks -> RpaRecord]
      BY FreshTask
    <2>3. QED
      BY <1>1, <2>1, <2>2 DEF RpaTypes
  <1>3. \A t \in RpaTasks : RpaTaskInv(t)'
    <2> TAKE t \in RpaTasks
    <2>1. RpaTaskInv(t)
      BY RpaFacts
    <2>2. /\ ~rpa'[t].timer /\ rpa'[t].phase = "none" /\ rpa'[t].state = "NONE"
          /\ rpa'[t].session = "none" /\ rpa'[t].cancel = "none"
      BY <1>1 DEF NoTask
    <2>3. \A k \in Kinds : ~Waits(k, t)' /\ ~Saves(k, t)'
      BY <1>1 DEF Waits, Saves
    <2>4. {"run", "begin", "step", "end", "cancel"} \subseteq Kinds
      BY DEF Kinds, Owing
    <2>5. OneWaits(t)'
      BY <1>1 DEF OneWaits
    <2> USE DEF RpaTaskInv
    <2>6. ExecutionFits(t)' /\ WaitsFit(t)'
      BY <2>2, <2>3, <2>4 DEF ExecutionFits, WaitsFit
    <2>7. BegunFits(t)'
      BY <1>1, <2>1, <2>2, <2>3, <2>4 DEF BegunFits, Begun
    <2>8. CancelFits(t)'
      BY <2>2, <2>3, <2>4 DEF CancelFits
    <2>9. LoadFits(t)' /\ ConfirmedFits(t)'
      BY <1>1, <2>1, <2>2 DEF LoadFits, ConfirmedFits
    <2>10. QED
      BY <2>5, <2>6, <2>7, <2>8, <2>9
  <1>4. QED
    BY <1>2, <1>3 DEF RpaInv

\* The first start of the service.
LEMMA RpaStartsRight ==
    ASSUME RpaInit
    PROVE  RpaInv
PROOF
  <1>1. RpaTypes
    <2>1. file \in RpaFile
      BY DEF RpaInit, RpaFile, RpaStates
    <2>2. << >> \in Seq(RpaCallers)
      OBVIOUS
    <2>3. [t \in RpaTasks |-> NoTask] \in [RpaTasks -> RpaRecord]
      BY FreshTask
    <2>4. rpaStarts \in [RpaTasks -> Nat]
      BY DEF RpaInit
    <2>5. QED
      BY <2>1, <2>2, <2>3, <2>4 DEF RpaInit, RpaTypes
  <1>2. \A t \in RpaTasks : RpaTaskInv(t)
    <2> TAKE t \in RpaTasks
    <2>1. /\ ~rpa[t].timer /\ rpa[t].phase = "none" /\ rpa[t].state = "NONE"
          /\ rpa[t].session = "none" /\ rpa[t].cancel = "none"
      BY DEF RpaInit, NoTask
    <2>2. \A k \in Kinds : ~Waits(k, t) /\ ~Saves(k, t)
      BY DEF RpaInit, Waits, Saves
    <2>3. {"run", "begin", "step", "end", "cancel"} \subseteq Kinds
      BY DEF Kinds, Owing
    <2>4. OneWaits(t)
      BY DEF RpaInit, OneWaits
    <2>5. ExecutionFits(t) /\ WaitsFit(t)
      BY <2>1, <2>2, <2>3 DEF ExecutionFits, WaitsFit
    <2>6. BegunFits(t)
      BY <2>1, <2>2, <2>3 DEF BegunFits, Begun, RpaInit
    <2>7. CancelFits(t)
      BY <2>1, <2>2, <2>3 DEF CancelFits
    <2>8. LoadFits(t) /\ ConfirmedFits(t)
      BY <2>1 DEF LoadFits, ConfirmedFits, RpaInit
    <2>9. QED
      BY <2>4, <2>5, <2>6, <2>7, <2>8 DEF RpaTaskInv
  <1>3. QED
    BY <1>1, <1>2 DEF RpaInv

\* Every step of the service and of the machine it runs on.
LEMMA RpaStepKeeps ==
    ASSUME RpaInv, [RpaNext]_rpaVars
    PROVE  RpaInv'
PROOF
  <1>1. CASE LoadBegins
    BY <1>1, LoadBeginsKeeps
  <1>2. CASE LoadEnds
    BY <1>2, LoadEndsKeeps
  <1>3. CASE WriteBegins
    BY <1>3, WriteBeginsKeeps
  <1>4. CASE WriteEnds \/ WriteFails
    BY <1>4, WriteKeeps
  <1>5. CASE DeleteWorkflow \/ ShutdownEnds
    BY <1>5, SaveKeeps
  <1>6. CASE Shutdown
    BY <1>6, ShutdownKeeps
  <1>7. CASE Crash
    BY <1>7, CrashKeeps
  <1>8. ASSUME NEW t \in RpaTasks, TimerFires(t)
        PROVE  RpaInv'
    BY <1>8, TimerFiresKeeps
  <1>9. ASSUME NEW t \in RpaTasks,
               SessionStarts(t) \/ NextStep(t) \/ Act(t) \/ Stops(t) \/ Fails(t)
        PROVE  RpaInv'
    BY <1>9, ExecutionKeeps
  <1>10. ASSUME NEW t \in RpaTasks, Ends(t)
         PROVE  RpaInv'
    BY <1>10, EndsKeeps
  <1>11. ASSUME NEW t \in RpaTasks, Cancel(t) \/ CancelStops(t) \/ ShutdownCancel(t)
         PROVE  RpaInv'
    BY <1>11, CancelKeeps
  <1>12. ASSUME NEW t \in RpaTasks, NEW recurring \in BOOLEAN, Run(t, recurring)
         PROVE  RpaInv'
    BY <1>12, RunKeeps
  <1>13. CASE UNCHANGED rpaVars
    <2>1. \A t \in RpaTasks : RpaTaskInv(t)' <=> RpaTaskInv(t)
      BY <1>13 DEF rpaVars, RpaTaskInv, ExecutionFits, WaitsFit, OneWaits, BegunFits, Begun,
                   CancelFits, LoadFits, ConfirmedFits, Waits, Saves
    <2>2. RpaTypes' <=> RpaTypes
      BY <1>13 DEF rpaVars, RpaTypes
    <2>3. QED
      BY <2>1, <2>2 DEF RpaInv
  <1>14. QED
    BY <1>1, <1>2, <1>3, <1>4, <1>5, <1>6, <1>7, <1>8, <1>9, <1>10, <1>11, <1>12, <1>13
       DEF RpaNext

\* The state the service keeps of a task, in memory, on its way to the file and in
\* the file, agrees for every number of tasks, steps, attempts, runs and crashes.
THEOREM RpaInvHolds == RpaSpec => []RpaInv
PROOF
  <1>1. RpaInit => RpaInv
    BY RpaStartsRight
  <1>2. RpaInv /\ [RpaNext]_rpaVars => RpaInv'
    BY RpaStepKeeps
  <1>3. QED
    BY <1>1, <1>2, PTL DEF RpaSpec

\* A run is started once over every crash and restart, a cancellation that was
\* answered survives them, and no execution leaves its browser behind.
THEOREM RunsHold == RpaSpec => []RunsAccounted
PROOF
  <1>1. RpaInv => RunsAccounted
    <2> SUFFICES ASSUME RpaInv PROVE RunsAccounted
      OBVIOUS
    <2>1. StartsOnce
      BY RpaFacts DEF StartsOnce, RpaTaskInv, BegunFits
    <2>2. CancelIsDurable
      <3>1. \A t \in RpaTasks \cap confirmed : rpaStarts[t] = 0
        BY RpaFacts DEF RpaTaskInv, ConfirmedFits
      <3>2. confirmed \subseteq RpaTasks
        BY DEF RpaInv, RpaTypes
      <3>3. QED
        BY <3>1, <3>2 DEF CancelIsDurable
    <2>3. SessionsClosed
      BY RpaFacts DEF SessionsClosed, RpaTaskInv, ExecutionFits
    <2>4. QED
      BY <2>1, <2>2, <2>3 DEF RunsAccounted
  <1>2. QED
    BY <1>1, RpaInvHolds, PTL

-------------------------------------------------------------------------------
(* The fetcher.  A socket is right because its answer was right when it    *)
(* came, is used while the cache may still give it out, and belongs to the *)
(* hop the fetch is at.                                                    *)

FetchPhases == {"idle", "resolve", "lookup", "response", "body", "failed", "done"}
AnyHost == AllowedHosts \union OtherHosts \union {"none"}
SocketRecord == [host : AnyHost, address : PublicAddresses \union {"none"}, got : Nat, at : Nat]
FetchRecord == [phase : FetchPhases, host : AnyHost, asked : Nat, redirects : Nat,
                aborted : BOOLEAN, socket : SocketRecord]
CacheEntry == [host : AllowedHosts, addresses : SUBSET PublicAddresses, expiresAt : Nat, got : Nat]

\* No entry outlives the answer it holds by more than the cache's time, and a
\* host has one entry.
Lasts(e) == e.expiresAt <= e.got + DnsTtl
CacheSound(entries) ==
    /\ entries \in Seq(CacheEntry)
    /\ \A i \in DOMAIN entries : Lasts(entries[i])
    /\ \A i, j \in DOMAIN entries : entries[i].host = entries[j].host => i = j

\* A fetch at its hop.
HopSound(r) ==
    /\ r.phase \in {"lookup", "response", "body"} => r.host \in AllowedHosts
    /\ r.asked <= fetchTime
    /\ r.phase \in {"response", "body"} =>
          /\ r.socket.host = r.host /\ r.socket.address \in PublicAddresses
          /\ r.socket.at < r.socket.got + DnsTtl
    /\ r.phase \notin {"response", "body"} => r.socket = NoSocket

FetchInv ==
    /\ fetchTime \in Nat
    /\ CacheSound(dnsCache)
    /\ fetching \in [Fetches -> FetchRecord]
    /\ \A f \in Fetches : HopSound(fetching[f])

\* Map.set of the cache, with the eviction before it.
LEMMA StoredSound ==
    ASSUME CacheSound(dnsCache), NEW e \in CacheEntry, Lasts(e)
    PROVE  CacheSound(Stored(e))
PROOF
  <1> DEFINE room == IF Len(dnsCache) >= DnsCacheLimit THEN Tail(dnsCache) ELSE dnsCache
             at == {i \in DOMAIN room : room[i].host = e.host}
  <1>1. dnsCache \in Seq(CacheEntry) /\ Len(dnsCache) \in Nat /\ DnsCacheLimit \in Nat \ {0}
    BY FetchConstants DEF CacheSound
  <1>2. CacheSound(room)
    <2>1. CASE Len(dnsCache) >= DnsCacheLimit
      <3>1. Len(dnsCache) > 0 /\ room = Tail(dnsCache)
        BY <1>1, <2>1
      <3> HIDE DEF room
      <3>2. /\ room \in Seq(CacheEntry) /\ DOMAIN room = 1 .. Len(dnsCache) - 1
            /\ \A i \in 1 .. Len(dnsCache) - 1 : room[i] = dnsCache[i + 1]
        BY <1>1, <3>1
      <3>3. \A i \in DOMAIN room : i \in Nat /\ i + 1 \in DOMAIN dnsCache
        BY <1>1, <3>2
      <3>4. \A i, j \in DOMAIN room : room[i].host = room[j].host => i = j
        <4> SUFFICES ASSUME NEW i \in DOMAIN room, NEW j \in DOMAIN room, room[i].host = room[j].host
                     PROVE  i = j
          OBVIOUS
        <4>1. i + 1 = j + 1
          BY <3>2, <3>3 DEF CacheSound
        <4>2. QED
          BY <3>3, <4>1
      <3>5. QED
        BY <3>2, <3>3, <3>4 DEF CacheSound
    <2>2. CASE ~(Len(dnsCache) >= DnsCacheLimit)
      BY <2>2
    <2>3. QED
      BY <2>1, <2>2
  <1>3. Stored(e) = IF at = {} THEN Append(room, e)
                    ELSE [i \in DOMAIN room |-> IF i \in at THEN e ELSE room[i]]
    BY DEF Stored
  <1> HIDE DEF room
  <1>4. room \in Seq(CacheEntry) /\ Len(room) \in Nat /\ DOMAIN room = 1 .. Len(room)
    BY <1>2 DEF CacheSound
  <1>5. CASE at = {}
    <2> DEFINE new == Append(room, e)
    <2>1. /\ new \in Seq(CacheEntry) /\ DOMAIN new = 1 .. Len(room) + 1
          /\ \A i \in 1 .. Len(room) : new[i] = room[i]
          /\ new[Len(room) + 1] = e
      BY <1>4
    <2> HIDE DEF new
    <2>2. \A i \in DOMAIN new : i \in DOMAIN room \/ i = Len(room) + 1
      BY <1>4, <2>1
    <2>3. \A i \in DOMAIN room : room[i].host # e.host
      BY <1>5
    <2>4. \A i \in DOMAIN new : Lasts(new[i])
      BY <1>2, <1>4, <2>1, <2>2 DEF CacheSound
    <2>5. \A i, j \in DOMAIN new : new[i].host = new[j].host => i = j
      BY <1>2, <1>4, <2>1, <2>2, <2>3 DEF CacheSound
    <2>6. CacheSound(new)
      BY <2>1, <2>4, <2>5 DEF CacheSound
    <2>7. QED
      BY <1>3, <1>5, <2>6 DEF new
  <1>6. CASE at # {}
    <2> DEFINE new == [i \in DOMAIN room |-> IF i \in at THEN e ELSE room[i]]
    <2>1. DOMAIN new = DOMAIN room /\ \A i \in DOMAIN room : new[i] = IF i \in at THEN e ELSE room[i]
      OBVIOUS
    <2>2. \A i \in DOMAIN room : new[i] \in CacheEntry /\ new[i].host = room[i].host
      BY <1>4
    <2>3. new \in Seq(CacheEntry)
      BY <1>4, <2>1, <2>2
    <2>4. \A i \in DOMAIN new : Lasts(new[i])
      BY <1>2 DEF CacheSound
    <2> HIDE DEF new
    <2>5. CacheSound(new)
      BY <1>2, <2>1, <2>2, <2>3, <2>4 DEF CacheSound
    <2>6. QED
      BY <1>3, <1>6, <2>5 DEF new
  <1>7. QED
    BY <1>5, <1>6

\* A step of one fetch.
LEMMA HopKeeps ==
    ASSUME FetchInv, NEW f \in Fetches, NEW r \in FetchRecord, HopSound(r),
           fetching' = [fetching EXCEPT ![f] = r], UNCHANGED fetchTime, CacheSound(dnsCache')
    PROVE  FetchInv'
BY DEF FetchInv, HopSound

\* The end of a fetch, at any hop.
LEMMA EndKeeps ==
    ASSUME FetchInv, NEW f \in Fetches, NEW p \in {"failed", "done"}, EndFetch(f, p),
           UNCHANGED fetchTime, CacheSound(dnsCache')
    PROVE  FetchInv'
PROOF
  <1> DEFINE r == [fetching[f] EXCEPT !.phase = p, !.socket = NoSocket]
  <1>1. fetching[f] \in FetchRecord /\ HopSound(fetching[f])
    BY DEF FetchInv
  <1>2. NoSocket \in SocketRecord /\ p \in FetchPhases
    BY DEF NoSocket, SocketRecord, AnyHost, FetchPhases
  <1>3. r \in FetchRecord
    BY <1>1, <1>2 DEF FetchRecord
  <1>4. HopSound(r)
    BY <1>1 DEF HopSound, FetchRecord
  <1>5. fetching' = [fetching EXCEPT ![f] = r]
    BY <1>1 DEF EndFetch, FetchInv
  <1>6. QED
    BY <1>3, <1>4, <1>5, HopKeeps

\* A connection to an approved address, or the abort that was noticed first.
LEMMA ConnectKeeps ==
    ASSUME FetchInv, NEW f \in Fetches, NEW as \in SUBSET PublicAddresses, NEW got \in Nat,
           fetching[f].host \in AllowedHosts, fetchTime < got + DnsTtl,
           Connect(f, as, got), UNCHANGED fetchTime, CacheSound(dnsCache')
    PROVE  FetchInv'
PROOF
  <1>1. CASE EndFetch(f, "failed")
    BY <1>1, EndKeeps
  <1>2. ASSUME NEW a \in as,
               fetching' = [fetching EXCEPT ![f].phase = "response",
                  ![f].socket = [host |-> fetching[f].host, address |-> a, got |-> got, at |-> fetchTime]]
        PROVE  FetchInv'
    <2> DEFINE s == [host |-> fetching[f].host, address |-> a, got |-> got, at |-> fetchTime]
               r == [fetching[f] EXCEPT !.phase = "response", !.socket = s]
    <2>1. fetching[f] \in FetchRecord /\ HopSound(fetching[f]) /\ fetchTime \in Nat
      BY DEF FetchInv
    <2>2. s \in SocketRecord
      BY <2>1 DEF SocketRecord, AnyHost
    <2>3. s.host = fetching[f].host /\ s.address = a /\ s.at = fetchTime /\ s.got = got
      OBVIOUS
    <2>4. fetching' = [fetching EXCEPT ![f] = r]
      BY <1>2, <2>1 DEF FetchInv
    <2> HIDE DEF s
    <2>5. "response" \in FetchPhases
      BY DEF FetchPhases
    <2>6. r \in FetchRecord
      BY <2>1, <2>2, <2>5 DEF FetchRecord
    <2>7. /\ r.phase = "response" /\ r.socket = s /\ r.host = fetching[f].host
          /\ r.asked = fetching[f].asked
      BY <2>1 DEF FetchRecord
    <2>8. HopSound(r)
      BY <2>1, <2>3, <2>7 DEF HopSound
    <2>9. QED
      BY <2>4, <2>6, <2>8, HopKeeps
  <1>3. QED
    BY <1>1, <1>2 DEF Connect

\* The steps of a fetch that neither connect nor end it.
LEMMA HopMoves ==
    ASSUME FetchInv, NEW f \in Fetches, NEW host \in AllowedHosts \union OtherHosts,
           CallFetch(f, host) \/ (fetching[f].phase = "response" /\ Redirected(f, host)),
           UNCHANGED <<fetchTime, dnsCache>>
    PROVE  FetchInv'
PROOF
  <1>1. fetching[f] \in FetchRecord /\ HopSound(fetching[f]) /\ CacheSound(dnsCache')
    BY DEF FetchInv
  <1>2. NoSocket \in SocketRecord /\ "resolve" \in FetchPhases /\ host \in AnyHost
    BY DEF NoSocket, SocketRecord, AnyHost, FetchPhases
  <1>3. CASE CallFetch(f, host)
    <2> DEFINE r == [fetching[f] EXCEPT !.phase = "resolve", !.host = host]
    <2>1. r \in FetchRecord
      BY <1>1, <1>2 DEF FetchRecord
    <2>2. HopSound(r)
      BY <1>1, <1>3 DEF HopSound, FetchRecord, CallFetch
    <2>3. fetching' = [fetching EXCEPT ![f] = r]
      BY <1>1, <1>3 DEF CallFetch, FetchInv
    <2>4. QED
      BY <1>1, <2>1, <2>2, <2>3, HopKeeps
  <1>4. CASE EndFetch(f, "failed")
    BY <1>1, <1>4, EndKeeps
  <1>5. CASE fetching' = [fetching EXCEPT ![f].phase = "resolve", ![f].host = host,
                                          ![f].redirects = @ + 1, ![f].socket = NoSocket]
    <2> DEFINE more == fetching[f].redirects + 1
               r == [fetching[f] EXCEPT !.phase = "resolve", !.host = host,
                                        !.redirects = more, !.socket = NoSocket]
    <2>1. more \in Nat
      BY <1>1 DEF FetchRecord
    <2>2. fetching' = [fetching EXCEPT ![f] = r]
      BY <1>1, <1>5 DEF FetchInv
    <2> HIDE DEF more
    <2>3. r \in FetchRecord
      BY <1>1, <1>2, <2>1 DEF FetchRecord
    <2>4. HopSound(r)
      BY <1>1 DEF HopSound, FetchRecord
    <2>5. QED
      BY <1>1, <2>2, <2>3, <2>4, HopKeeps
  <1>6. QED
    BY <1>3, <1>4, <1>5 DEF Redirected

\* resolveAllowed: what the cache still gives out is fresh enough to connect to.
LEMMA ResolveKeeps ==
    ASSUME FetchInv, NEW f \in Fetches, ResolveHop(f)
    PROVE  FetchInv'
PROOF
  <1> DEFINE host == fetching[f].host
  <1>1. /\ fetching[f] \in FetchRecord /\ HopSound(fetching[f]) /\ fetchTime \in Nat
        /\ CacheSound(dnsCache) /\ CacheSound(dnsCache') /\ UNCHANGED fetchTime
        /\ fetching[f].phase = "resolve"
    BY DEF FetchInv, ResolveHop
  <1>2. CASE EndFetch(f, "failed")
    BY <1>1, <1>2, EndKeeps
  <1>3. CASE host \in AllowedHosts /\ CacheHit(host) /\ \E e \in Cached(host) : Connect(f, e.addresses, e.got)
    <2>1. PICK e \in Cached(host) : Connect(f, e.addresses, e.got)
      BY <1>3
    <2>2. PICK d \in Cached(host) : d.expiresAt > fetchTime
      BY <1>3 DEF CacheHit
    <2>3. PICK i \in DOMAIN dnsCache : dnsCache[i] = e /\ e.host = host
      BY DEF Cached
    <2>4. PICK j \in DOMAIN dnsCache : dnsCache[j] = d /\ d.host = host
      BY DEF Cached
    <2>5. e = d /\ Lasts(e)
      BY <1>1, <2>3, <2>4 DEF CacheSound
    <2>6. e \in CacheEntry
      BY <1>1, <2>3 DEF CacheSound
    <2>7. e.addresses \in SUBSET PublicAddresses /\ e.got \in Nat /\ e.expiresAt \in Nat
      BY <2>6 DEF CacheEntry
    <2>8. fetchTime < e.got + DnsTtl
      BY <1>1, <2>2, <2>5, <2>7, FetchConstants DEF Lasts
    <2>9. QED
      BY <1>1, <1>3, <2>1, <2>7, <2>8, ConnectKeeps
  <1>4. CASE host \in AllowedHosts /\ fetching' = [fetching EXCEPT ![f].phase = "lookup", ![f].asked = fetchTime]
    <2> DEFINE r == [fetching[f] EXCEPT !.phase = "lookup", !.asked = fetchTime]
    <2>1. r \in FetchRecord
      BY <1>1 DEF FetchRecord, FetchPhases
    <2>2. HopSound(r)
      BY <1>1, <1>4 DEF HopSound, FetchRecord
    <2>3. fetching' = [fetching EXCEPT ![f] = r]
      BY <1>1, <1>4 DEF FetchInv
    <2>4. QED
      BY <1>1, <2>1, <2>2, <2>3, HopKeeps
  <1>5. QED
    BY <1>2, <1>3, <1>4 DEF ResolveHop

\* The answer of a lookup.
LEMMA LookupKeeps ==
    ASSUME FetchInv, NEW f \in Fetches, LookupDone(f)
    PROVE  FetchInv'
PROOF
  <1> DEFINE host == fetching[f].host
             answer == dns[host]
             e == [host |-> host, addresses |-> answer,
                   expiresAt |-> fetching[f].asked + DnsTtl, got |-> fetchTime]
  <1>1. /\ fetching[f] \in FetchRecord /\ HopSound(fetching[f]) /\ fetchTime \in Nat
        /\ CacheSound(dnsCache) /\ UNCHANGED fetchTime /\ fetching[f].phase = "lookup"
        /\ DnsTtl \in Nat \ {0}
    BY FetchConstants DEF FetchInv, LookupDone
  <1>2. host \in AllowedHosts /\ fetching[f].asked \in Nat /\ fetching[f].asked <= fetchTime
    BY <1>1 DEF HopSound, FetchRecord
  <1>3. CASE EndFetch(f, "failed") /\ UNCHANGED dnsCache
    BY <1>1, <1>3, EndKeeps
  <1>4. CASE Approved(answer) /\ dnsCache' = Stored(e) /\ Connect(f, answer, fetchTime)
    <2>1. answer \in SUBSET PublicAddresses
      BY <1>4 DEF Approved
    <2>2. e \in CacheEntry /\ Lasts(e)
      BY <1>1, <1>2, <2>1 DEF CacheEntry, Lasts
    <2> HIDE DEF e
    <2>3. CacheSound(dnsCache')
      BY <1>1, <1>4, <2>2, StoredSound
    <2>4. fetchTime < fetchTime + DnsTtl
      BY <1>1
    <2>5. QED
      BY <1>1, <1>2, <1>4, <2>1, <2>3, <2>4, ConnectKeeps
  <1>5. QED
    BY <1>3, <1>4 DEF LookupDone

\* The response and its body.
LEMMA ResponseKeeps ==
    ASSUME FetchInv, NEW f \in Fetches, Response(f) \/ Body(f)
    PROVE  FetchInv'
PROOF
  <1>1. /\ fetching[f] \in FetchRecord /\ HopSound(fetching[f])
        /\ CacheSound(dnsCache') /\ UNCHANGED <<fetchTime, dnsCache>>
    BY DEF FetchInv, Response, Body
  <1>2. CASE EndFetch(f, "failed") \/ EndFetch(f, "done")
    BY <1>1, <1>2, EndKeeps
  <1>3. CASE fetching[f].phase = "response" /\ \E host \in AllowedHosts \union OtherHosts : Redirected(f, host)
    BY <1>1, <1>3, HopMoves
  <1>4. CASE fetching[f].phase = "response" /\ fetching' = [fetching EXCEPT ![f].phase = "body"]
    <2> DEFINE r == [fetching[f] EXCEPT !.phase = "body"]
    <2>1. r \in FetchRecord
      BY <1>1 DEF FetchRecord, FetchPhases
    <2>2. HopSound(r)
      BY <1>1, <1>4 DEF HopSound, FetchRecord
    <2>3. fetching' = [fetching EXCEPT ![f] = r]
      BY <1>1, <1>4 DEF FetchInv
    <2>4. QED
      BY <1>1, <2>1, <2>2, <2>3, HopKeeps
  <1>5. QED
    BY <1>2, <1>3, <1>4 DEF Response, Body

\* The abort, with the socket destroyed if there is one.
LEMMA AbortKeeps ==
    ASSUME FetchInv, NEW f \in Fetches, AbortFetch(f)
    PROVE  FetchInv'
PROOF
  <1> DEFINE busy == fetching[f].phase \in {"response", "body"}
             p == IF busy THEN "failed" ELSE fetching[f].phase
             s == IF busy THEN NoSocket ELSE fetching[f].socket
             r == [fetching[f] EXCEPT !.aborted = TRUE, !.phase = p, !.socket = s]
  <1>1. /\ fetching[f] \in FetchRecord /\ HopSound(fetching[f])
        /\ CacheSound(dnsCache') /\ UNCHANGED <<fetchTime, dnsCache>>
    BY DEF FetchInv, AbortFetch
  <1>2. NoSocket \in SocketRecord /\ "failed" \in FetchPhases
    BY DEF NoSocket, SocketRecord, AnyHost, FetchPhases
  <1>3. p \in FetchPhases /\ s \in SocketRecord
    BY <1>1, <1>2 DEF FetchRecord
  <1>4. p \notin {"response", "body"} /\ s = NoSocket /\ (p = "lookup" => fetching[f].phase = "lookup")
    BY <1>1 DEF HopSound
  <1>5. fetching' = [fetching EXCEPT ![f] = r]
    BY <1>1 DEF AbortFetch, FetchInv
  <1> HIDE DEF p, s
  <1>6. r \in FetchRecord
    BY <1>1, <1>3 DEF FetchRecord
  <1>7. r.phase = p /\ r.socket = s /\ r.host = fetching[f].host /\ r.asked = fetching[f].asked
    BY <1>1 DEF FetchRecord
  <1>8. HopSound(r)
    BY <1>1, <1>4, <1>7 DEF HopSound
  <1>9. QED
    BY <1>1, <1>5, <1>6, <1>8, HopKeeps

\* Each step of a fetch leaves every fetch and the cache sound.
LEMMA FetchStepKeeps ==
    ASSUME FetchInv, [FetchNext]_fetchVars
    PROVE  FetchInv'
PROOF
  <1>1. CASE UNCHANGED <<dnsCache, fetching, fetchTime>>
    BY <1>1 DEF FetchInv, HopSound
  <1>2. CASE FetchTick
    <2>1. /\ fetchTime' = fetchTime + 1 /\ UNCHANGED <<dnsCache, fetching>> /\ fetchTime \in Nat
      BY <1>2 DEF FetchTick, FetchInv
    <2>2. \A f \in Fetches : fetching[f].asked \in Nat
      BY DEF FetchInv, FetchRecord
    <2>3. QED
      BY <2>1, <2>2 DEF FetchInv, HopSound
  <1>3. ASSUME NEW f \in Fetches, ResolveHop(f)
        PROVE  FetchInv'
    BY <1>3, ResolveKeeps
  <1>4. ASSUME NEW f \in Fetches, LookupDone(f)
        PROVE  FetchInv'
    BY <1>4, LookupKeeps
  <1>5. ASSUME NEW f \in Fetches, Response(f) \/ Body(f)
        PROVE  FetchInv'
    BY <1>5, ResponseKeeps
  <1>6. ASSUME NEW f \in Fetches, AbortFetch(f)
        PROVE  FetchInv'
    BY <1>6, AbortKeeps
  <1>7. ASSUME NEW f \in Fetches, NEW host \in AllowedHosts \union OtherHosts, CallFetch(f, host)
        PROVE  FetchInv'
    <2>1. UNCHANGED <<fetchTime, dnsCache>>
      BY <1>7 DEF CallFetch
    <2>2. QED
      BY <1>7, <2>1, HopMoves
  <1>8. ASSUME NEW host \in AllowedHosts, NEW answer \in DnsAnswers, DnsChanges(host, answer)
        PROVE  FetchInv'
    BY <1>1, <1>8 DEF DnsChanges
  <1>9. CASE UNCHANGED fetchVars
    BY <1>1, <1>9 DEF fetchVars
  <1>10. QED
    BY <1>2, <1>3, <1>4, <1>5, <1>6, <1>7, <1>8, <1>9 DEF FetchNext

\* Every connection of every fetch, after any number of redirects and whatever
\* DNS says meanwhile, is to an approved address within the life of its answer,
\* and is given up with its hop.
THEOREM FetchesHold == FetchSpec => []FetchesGuarded
PROOF
  <1>1. FetchInit => FetchInv
    <2> SUFFICES ASSUME FetchInit PROVE FetchInv
      OBVIOUS
    <2>1. CacheSound(dnsCache)
      BY DEF FetchInit, CacheSound
    <2>2. NewFetch \in FetchRecord
      BY DEF NewFetch, NoSocket, FetchRecord, SocketRecord, FetchPhases, AnyHost
    <2>3. HopSound(NewFetch)
      BY DEF FetchInit, HopSound, NewFetch
    <2>4. QED
      BY <2>1, <2>2, <2>3 DEF FetchInit, FetchInv
  <1>2. FetchInv /\ [FetchNext]_fetchVars => FetchInv'
    BY FetchStepKeeps
  <1>3. FetchInv => FetchesGuarded
    <2> SUFFICES ASSUME FetchInv PROVE FetchesGuarded
      OBVIOUS
    <2>1. ASSUME NEW f \in Fetches
          PROVE  /\ fetching[f].socket # NoSocket <=> fetching[f].phase \in {"response", "body"}
                 /\ fetching[f].socket # NoSocket =>
                       /\ fetching[f].socket.host \in AllowedHosts
                       /\ fetching[f].socket.address \in PublicAddresses
                       /\ fetching[f].socket.host = fetching[f].host
                       /\ fetching[f].socket.at < fetching[f].socket.got + DnsTtl
      <3>1. HopSound(fetching[f])
        BY DEF FetchInv
      <3>2. NoSocket.host = "none"
        BY DEF NoSocket
      <3>3. QED
        BY <3>1, <3>2, FetchConstants DEF HopSound
    <2>2. \A i \in DOMAIN dnsCache : dnsCache[i].addresses \intersect ProtectedAddresses = {}
      <3>1. \A i \in DOMAIN dnsCache : dnsCache[i] \in CacheEntry
        BY DEF FetchInv, CacheSound
      <3>2. QED
        BY <3>1, FetchConstants DEF CacheEntry
    <2>3. QED
      BY <2>1, <2>2 DEF FetchesGuarded, ConnectsAsApproved, FetchesReleased
  <1>4. QED
    BY <1>1, <1>2, <1>3, PTL DEF FetchSpec

-------------------------------------------------------------------------------
(* The automation socket and the window synchronizer.  Both number their   *)
(* work as it comes; what has left the tail and is not under way has been  *)
(* answered, and the numbers in between are without a gap.                 *)

SocketOps == {"act", "start_screencast", "stop_screencast"}
Message == [id : Nat, op : SocketOps]
StreamRecord == [open : BOOLEAN, sent : Nat, tail : Seq(Message), running : SUBSET Nat,
                 replies : Seq(Nat)]

\* s.sent - Len(s.tail) messages have left the tail; the last of them may be running.
SocketSound(s) ==
    LET taken == s.sent - Len(s.tail) IN
    /\ s \in StreamRecord
    /\ taken >= 0
    /\ \A i \in DOMAIN s.tail : s.tail[i].id = taken + i
    /\ s.running = {} \/ (s.running = {taken} /\ taken > 0)
    /\ \A i \in DOMAIN s.replies : s.replies[i] = i
    /\ s.open => Len(s.replies) = taken - (IF s.running = {} THEN 0 ELSE 1)

CastingMaps == UNION {[S -> Nat] : S \in SUBSET Windows}
CaptureRecord == [on : BOOLEAN, events : Nat, tail : Seq(Nat), running : CastingMaps,
                  done : [Windows -> Seq(Nat)]]
CaptureSound(c) ==
    LET taken == c.events - Len(c.tail) IN
    /\ c \in CaptureRecord
    /\ taken >= 0
    /\ \A i \in DOMAIN c.tail : c.tail[i] = taken + i
    /\ \A t \in DOMAIN c.running : c.running[t] = taken /\ taken > 0
    /\ \A t \in Windows :
          /\ \A i \in DOMAIN c.done[t] : c.done[t][i] = i
          /\ Len(c.done[t]) = taken - (IF t \in DOMAIN c.running THEN 1 ELSE 0)

StreamsInv == SocketSound(socket) /\ CaptureSound(capture) /\ ~screencast.late
              /\ DOMAIN screencast = {"timer", "generation", "inFlight", "late"}

\* A sequence of 1, 2, ... with the next number appended.
LEMMA NextNumber ==
    ASSUME NEW q \in Seq(Nat), \A i \in DOMAIN q : q[i] = i, NEW n \in Nat, n = Len(q) + 1
    PROVE  /\ Append(q, n) \in Seq(Nat) /\ Len(Append(q, n)) = n
           /\ \A i \in DOMAIN Append(q, n) : Append(q, n)[i] = i
OBVIOUS

\* A tail of consecutive numbers with the next one appended.
LEMMA NextInTail ==
    ASSUME NEW q \in Seq(Nat), NEW k \in Nat, \A i \in DOMAIN q : q[i] = k + i,
           NEW n \in Nat, n = k + Len(q) + 1
    PROVE  /\ Append(q, n) \in Seq(Nat) /\ Len(Append(q, n)) = Len(q) + 1
           /\ \A i \in DOMAIN Append(q, n) : Append(q, n)[i] = k + i
PROOF
  <1> DEFINE more == Append(q, n)
  <1>1. /\ more \in Seq(Nat) /\ Len(more) = Len(q) + 1 /\ DOMAIN more = 1 .. Len(q) + 1
        /\ DOMAIN q = 1 .. Len(q) /\ Len(q) \in Nat
        /\ \A i \in 1 .. Len(q) : more[i] = q[i]
        /\ more[Len(q) + 1] = n
    OBVIOUS
  <1> HIDE DEF more
  <1>2. ASSUME NEW i \in DOMAIN more
        PROVE  more[i] = k + i
    <2>1. CASE i \in 1 .. Len(q)
      BY <1>1, <2>1
    <2>2. CASE i = Len(q) + 1
      BY <1>1, <2>2
    <2>3. QED
      BY <1>1, <2>1, <2>2
  <1>3. QED
    BY <1>1, <1>2 DEF more

\* A tail of consecutive numbers without its head, and with one more.
LEMMA SocketTails ==
    ASSUME NEW s, SocketSound(s)
    PROVE  /\ s \in StreamRecord /\ s.tail \in Seq(Message) /\ s.sent \in Nat /\ Len(s.tail) \in Nat
           /\ s.replies \in Seq(Nat)
           /\ \A op \in SocketOps :
                 LET more == Append(s.tail, [id |-> s.sent + 1, op |-> op]) IN
                 /\ more \in Seq(Message) /\ Len(more) = Len(s.tail) + 1
                 /\ \A i \in DOMAIN more : more[i].id = s.sent - Len(s.tail) + i
           /\ s.tail # << >> =>
                 /\ Tail(s.tail) \in Seq(Message) /\ Len(Tail(s.tail)) = Len(s.tail) - 1
                 /\ Head(s.tail) \in Message /\ Head(s.tail).id = s.sent - Len(s.tail) + 1
                 /\ \A i \in DOMAIN Tail(s.tail) : Tail(s.tail)[i].id = s.sent - Len(s.tail) + 1 + i
PROOF
  <1>1. /\ s \in StreamRecord /\ s.tail \in Seq(Message) /\ s.sent \in Nat /\ Len(s.tail) \in Nat
        /\ s.replies \in Seq(Nat) /\ DOMAIN s.tail = 1 .. Len(s.tail)
        /\ \A i \in DOMAIN s.tail : s.tail[i].id = s.sent - Len(s.tail) + i
    BY DEF SocketSound, StreamRecord
  <1>2. ASSUME NEW op \in SocketOps
        PROVE  LET more == Append(s.tail, [id |-> s.sent + 1, op |-> op]) IN
               /\ more \in Seq(Message) /\ Len(more) = Len(s.tail) + 1
               /\ \A i \in DOMAIN more : more[i].id = s.sent - Len(s.tail) + i
    <2> DEFINE m == [id |-> s.sent + 1, op |-> op]
               more == Append(s.tail, m)
    <2>1. m \in Message /\ m.id = s.sent + 1
      BY <1>1 DEF Message
    <2> HIDE DEF m
    <2>2. /\ more \in Seq(Message) /\ Len(more) = Len(s.tail) + 1 /\ DOMAIN more = 1 .. Len(s.tail) + 1
          /\ \A i \in 1 .. Len(s.tail) : more[i] = s.tail[i]
          /\ more[Len(s.tail) + 1] = m
      BY <1>1, <2>1
    <2> HIDE DEF more
    <2>3. \A i \in DOMAIN more : i \in DOMAIN s.tail \/ i = Len(s.tail) + 1
      BY <1>1, <2>2
    <2>4. ASSUME NEW i \in DOMAIN more
          PROVE  more[i].id = s.sent - Len(s.tail) + i
      <3>1. CASE i \in DOMAIN s.tail
        <4>1. more[i] = s.tail[i]
          BY <1>1, <2>2, <3>1
        <4>2. QED
          BY <1>1, <3>1, <4>1
      <3>2. CASE i = Len(s.tail) + 1
        <4>1. more[i] = m
          BY <2>2, <3>2
        <4>2. QED
          BY <1>1, <2>1, <3>2, <4>1
      <3>3. QED
        BY <2>3, <3>1, <3>2
    <2>5. QED
      BY <2>2, <2>4 DEF more, m
  <1>3. ASSUME s.tail # << >>
        PROVE  /\ Tail(s.tail) \in Seq(Message) /\ Len(Tail(s.tail)) = Len(s.tail) - 1
               /\ Head(s.tail) \in Message /\ Head(s.tail).id = s.sent - Len(s.tail) + 1
               /\ \A i \in DOMAIN Tail(s.tail) : Tail(s.tail)[i].id = s.sent - Len(s.tail) + 1 + i
    <2> DEFINE less == Tail(s.tail)
    <2>1. /\ less \in Seq(Message) /\ Len(less) = Len(s.tail) - 1 /\ DOMAIN less = 1 .. Len(s.tail) - 1
          /\ \A i \in 1 .. Len(s.tail) - 1 : less[i] = s.tail[i + 1]
          /\ Head(s.tail) = s.tail[1] /\ 1 \in DOMAIN s.tail
      BY <1>1, <1>3
    <2> HIDE DEF less
    <2>2. \A i \in DOMAIN less : i \in Nat /\ i + 1 \in DOMAIN s.tail
      BY <1>1, <2>1
    <2>3. ASSUME NEW i \in DOMAIN less
          PROVE  less[i].id = s.sent - Len(s.tail) + 1 + i
      <3>1. less[i] = s.tail[i + 1] /\ i \in Nat /\ i + 1 \in DOMAIN s.tail
        BY <2>1, <2>2
      <3>2. s.tail[i + 1].id = s.sent - Len(s.tail) + (i + 1)
        BY <1>1, <3>1
      <3>3. QED
        BY <1>1, <3>1, <3>2
    <2>4. Head(s.tail) \in Message /\ Head(s.tail).id = s.sent - Len(s.tail) + 1
      BY <1>1, <2>1
    <2>5. QED
      BY <2>1, <2>3, <2>4 DEF less
  <1>4. QED
    BY <1>1, <1>2, <1>3

\* A reply, if the socket is still open, is the next one.
LEMMA RepliedSound ==
    ASSUME NEW s \in StreamRecord, NEW n \in Nat,
           n = s.sent - Len(s.tail), n > 0, s.running = {},
           \A i \in DOMAIN s.tail : s.tail[i].id = n + i,
           \A i \in DOMAIN s.replies : s.replies[i] = i,
           s.open => Len(s.replies) = n - 1
    PROVE  SocketSound(Replied(s, n))
PROOF
  <1>1. s.replies \in Seq(Nat)
    BY DEF StreamRecord
  <1>2. CASE ~s.open
    BY <1>2 DEF Replied, SocketSound
  <1>3. CASE s.open
    <2> DEFINE q == Append(s.replies, n)
               r == [s EXCEPT !.replies = q]
    <2>1. n = Len(s.replies) + 1
      BY <1>1, <1>3
    <2>2. q \in Seq(Nat) /\ Len(q) = n /\ \A i \in DOMAIN q : q[i] = i
      BY <1>1, <2>1, NextNumber
    <2>3. Replied(s, n) = r
      BY <1>3 DEF Replied
    <2> HIDE DEF q
    <2>4. r \in StreamRecord
      BY <2>2 DEF StreamRecord
    <2>5. r.sent = s.sent /\ r.tail = s.tail /\ r.running = s.running /\ r.replies = q
      BY DEF StreamRecord
    <2> HIDE DEF r
    <2>6. SocketSound(r)
      BY <2>2, <2>4, <2>5 DEF SocketSound
    <2>7. QED
      BY <2>3, <2>6
  <1>4. QED
    BY <1>2, <1>3

\* A message of the client, or the end of the socket.
LEMMA MessageKeeps ==
    ASSUME StreamsInv, (\E op \in SocketOps : SocketMessage(op)) \/ CloseSocket
    PROVE  StreamsInv'
PROOF
  <1>1. SocketSound(socket) /\ socket \in StreamRecord
    BY DEF StreamsInv, SocketSound
  <1>2. ASSUME NEW op \in SocketOps, SocketMessage(op)
        PROVE  StreamsInv'
    <2> DEFINE more == Append(socket.tail, [id |-> socket.sent + 1, op |-> op])
               n == socket.sent + 1
               s == [socket EXCEPT !.sent = n, !.tail = more]
    <2>1. socket' = s /\ UNCHANGED <<screencast, capture>>
      BY <1>2 DEF SocketMessage
    <2>2. /\ more \in Seq(Message) /\ Len(more) = Len(socket.tail) + 1
          /\ \A i \in DOMAIN more : more[i].id = socket.sent - Len(socket.tail) + i
      BY <1>1, SocketTails
    <2>3. socket.sent \in Nat /\ Len(socket.tail) \in Nat
      BY <1>1, SocketTails
    <2>4. n \in Nat /\ n = socket.sent + 1
      BY <2>3
    <2> HIDE DEF more, n
    <2>5. s \in StreamRecord
      BY <1>1, <2>2, <2>4 DEF StreamRecord
    <2>6. /\ s \in StreamRecord /\ s.sent = socket.sent + 1 /\ s.tail = more
          /\ s.running = socket.running /\ s.replies = socket.replies /\ s.open = socket.open
      BY <1>1, <2>4, <2>5 DEF StreamRecord
    <2>7. s.sent - Len(s.tail) = socket.sent - Len(socket.tail)
      BY <2>2, <2>3, <2>6
    <2> HIDE DEF s
    <2>8. SocketSound(s)
      BY <1>1, <2>2, <2>6, <2>7 DEF SocketSound
    <2>9. QED
      BY <2>1, <2>8 DEF StreamsInv
  <1>3. CASE CloseSocket
    <2> DEFINE s == [socket EXCEPT !.open = FALSE]
    <2>1. /\ s \in StreamRecord /\ s.sent = socket.sent /\ s.tail = socket.tail
          /\ s.running = socket.running /\ s.replies = socket.replies /\ ~s.open
      BY <1>1 DEF StreamRecord
    <2>2. socket' = s /\ capture' = capture /\ screencast' = [screencast EXCEPT !.timer = 0]
      BY <1>3 DEF CloseSocket
    <2> HIDE DEF s
    <2>3. SocketSound(s)
      BY <1>1, <2>1 DEF SocketSound
    <2>4. QED
      BY <2>2, <2>3 DEF StreamsInv
  <1>4. QED
    BY <1>2, <1>3

\* The head of the tail goes on: it runs, or is answered at once.
LEMMA ProceedKeeps ==
    ASSUME StreamsInv, Proceed
    PROVE  StreamsInv'
PROOF
  <1> DEFINE m == Head(socket.tail)
             rest == [socket EXCEPT !.tail = Tail(@)]
             taken == socket.sent - Len(socket.tail)
  <1>1. SocketSound(socket) /\ socket \in StreamRecord /\ socket.tail # << >> /\ socket.running = {}
    BY DEF StreamsInv, SocketSound, Proceed
  <1>2. /\ Tail(socket.tail) \in Seq(Message) /\ Len(Tail(socket.tail)) = Len(socket.tail) - 1
        /\ m \in Message /\ m.id = taken + 1
        /\ \A i \in DOMAIN Tail(socket.tail) : Tail(socket.tail)[i].id = taken + 1 + i
        /\ socket.sent \in Nat /\ Len(socket.tail) \in Nat
    BY <1>1, SocketTails
  <1>3. /\ taken \in Nat /\ \A i \in DOMAIN socket.replies : socket.replies[i] = i
        /\ socket.open => Len(socket.replies) = taken
    BY <1>1, <1>2 DEF SocketSound
  <1>4. /\ rest \in StreamRecord /\ rest.sent = socket.sent /\ rest.tail = Tail(socket.tail)
        /\ rest.running = {} /\ rest.replies = socket.replies /\ rest.open = socket.open
    BY <1>1, <1>2 DEF StreamRecord
  <1>5. rest.sent - Len(rest.tail) = taken + 1
    BY <1>2, <1>4
  <1>6. CASE socket' = [rest EXCEPT !.running = {m.id}] /\ UNCHANGED screencast
    <2> DEFINE s == [rest EXCEPT !.running = {m.id}]
    <2>1. {m.id} \in SUBSET Nat
      BY <1>2, <1>3
    <2>2. /\ s \in StreamRecord /\ s.sent = rest.sent /\ s.tail = rest.tail
          /\ s.running = {m.id} /\ s.replies = rest.replies /\ s.open = rest.open
      BY <1>4, <2>1 DEF StreamRecord
    <2> HIDE DEF s, rest, m
    <2>3. {m.id} # {} /\ {m.id} = {taken + 1}
      BY <1>2
    <2>4. SocketSound(s)
      BY <1>2, <1>3, <1>4, <1>5, <2>2, <2>3 DEF SocketSound
    <2>5. QED
      BY <1>6, <2>4 DEF StreamsInv, Proceed, s
  <1>7. CASE socket' = Replied(rest, m.id)
    <2> HIDE DEF rest, m
    <2> DEFINE n == m.id
    <2>1. n \in Nat /\ n > 0 /\ n = rest.sent - Len(rest.tail)
      BY <1>2, <1>3, <1>5
    <2>2. /\ \A i \in DOMAIN rest.tail : rest.tail[i].id = n + i
          /\ \A i \in DOMAIN rest.replies : rest.replies[i] = i
          /\ rest.open => Len(rest.replies) = n - 1
      BY <1>2, <1>3, <1>4
    <2> HIDE DEF n
    <2>3. SocketSound(Replied(rest, n))
      BY <1>4, <2>1, <2>2, RepliedSound
    <2>4. SocketSound(Replied(rest, m.id))
      BY <2>3 DEF n
    <2>5. ~screencast'.late /\ DOMAIN screencast' = {"timer", "generation", "inFlight", "late"} /\ capture' = capture
      BY DEF StreamsInv, Proceed
    <2>6. QED
      BY <1>7, <2>4, <2>5 DEF StreamsInv
  <1>8. QED
    BY <1>6, <1>7 DEF Proceed

\* The operation under way is answered.
LEMMA SettleKeeps ==
    ASSUME StreamsInv, Settle
    PROVE  StreamsInv'
PROOF
  <1>1. PICK id \in socket.running : socket' = Replied([socket EXCEPT !.running = @ \ {id}], id)
    BY DEF Settle
  <1> DEFINE s == [socket EXCEPT !.running = @ \ {id}]
             taken == socket.sent - Len(socket.tail)
  <1>2. SocketSound(socket) /\ socket \in StreamRecord
    BY DEF StreamsInv, SocketSound
  <1>3. /\ taken > 0 /\ id = taken /\ socket.running = {taken}
        /\ socket.sent \in Nat /\ Len(socket.tail) \in Nat
    BY <1>2, SocketTails DEF SocketSound
  <1>4. /\ s \in StreamRecord /\ s.sent = socket.sent /\ s.tail = socket.tail
        /\ s.running = {} /\ s.replies = socket.replies /\ s.open = socket.open
    BY <1>2, <1>3 DEF StreamRecord
  <1>5. id \in Nat
    BY <1>3
  <1>6. /\ socket.open => Len(socket.replies) = id - 1
        /\ \A i \in DOMAIN socket.tail : socket.tail[i].id = id + i
        /\ \A i \in DOMAIN socket.replies : socket.replies[i] = i
    BY <1>2, <1>3 DEF SocketSound
  <1> HIDE DEF s
  <1>7. SocketSound(Replied(s, id))
    <2>1. id = s.sent - Len(s.tail) /\ id > 0
      BY <1>3, <1>4
    <2>2. /\ s.open => Len(s.replies) = id - 1
          /\ \A i \in DOMAIN s.tail : s.tail[i].id = id + i
          /\ \A i \in DOMAIN s.replies : s.replies[i] = i
      BY <1>4, <1>6
    <2>3. QED
      BY <1>4, <1>5, <2>1, <2>2, RepliedSound
  <1>8. QED
    BY <1>1, <1>7 DEF StreamsInv, Settle, s

\* The screencast: a frame is sent only into an open socket.
LEMMA CastKeeps ==
    ASSUME StreamsInv, CastTick \/ Frame
    PROVE  StreamsInv'
BY DEF StreamsInv, CastTick, Frame

\* The captured window acts, or the capture begins or ends.
LEMMA MasterKeeps ==
    ASSUME StreamsInv, StartCapture \/ StopCapture \/ MasterActs
    PROVE  StreamsInv'
PROOF
  <1>1. /\ CaptureSound(capture) /\ capture \in CaptureRecord /\ UNCHANGED <<socket, screencast>>
        /\ capture.tail \in Seq(Nat) /\ Len(capture.tail) \in Nat /\ capture.events \in Nat
    BY DEF StreamsInv, CaptureSound, CaptureRecord, StartCapture, StopCapture, MasterActs
  <1>2. ASSUME NEW b \in BOOLEAN, capture' = [capture EXCEPT !.on = b]
        PROVE  StreamsInv'
    <2> DEFINE c == [capture EXCEPT !.on = b]
    <2>1. /\ c \in CaptureRecord /\ c.events = capture.events /\ c.tail = capture.tail
          /\ c.running = capture.running /\ c.done = capture.done
      BY <1>1 DEF CaptureRecord
    <2> HIDE DEF c
    <2>2. CaptureSound(c)
      BY <1>1, <2>1 DEF CaptureSound
    <2>3. QED
      BY <1>1, <1>2, <2>2 DEF StreamsInv, c
  <1>3. CASE MasterActs
    <2> DEFINE n == capture.events + 1
               more == Append(capture.tail, n)
               c == [capture EXCEPT !.events = n, !.tail = more]
               taken == capture.events - Len(capture.tail)
    <2>1. capture' = c
      BY <1>3 DEF MasterActs
    <2>2. /\ taken \in Nat /\ n \in Nat /\ Len(capture.tail) \in Nat
          /\ n = taken + Len(capture.tail) + 1
      BY <1>1 DEF CaptureSound
    <2>3. \A i \in DOMAIN capture.tail : capture.tail[i] = taken + i
      BY <1>1 DEF CaptureSound
    <2> HIDE DEF n, taken
    <2>4. /\ more \in Seq(Nat) /\ Len(more) = Len(capture.tail) + 1
          /\ \A i \in DOMAIN more : more[i] = taken + i
      BY <1>1, <2>2, <2>3, NextInTail
    <2> HIDE DEF more
    <2>5. c \in CaptureRecord
      BY <1>1, <2>2, <2>4 DEF CaptureRecord
    <2>6. /\ c.events = n /\ c.tail = more
          /\ c.running = capture.running /\ c.done = capture.done
      BY <1>1 DEF CaptureRecord
    <2> HIDE DEF c
    <2>7. c.events - Len(c.tail) = taken
      <3>1. c.events = capture.events + 1 /\ Len(c.tail) = Len(capture.tail) + 1
        BY <2>4, <2>6 DEF n
      <3>2. capture.events \in Nat /\ Len(capture.tail) \in Nat
        BY <1>1
      <3>3. QED
        BY <3>1, <3>2 DEF taken
    <2>8. CaptureSound(c)
      BY <1>1, <2>4, <2>5, <2>6, <2>7 DEF CaptureSound, taken
    <2>9. QED
      BY <1>1, <2>1, <2>8 DEF StreamsInv
  <1>4. QED
    BY <1>2, <1>3 DEF StartCapture, StopCapture

\* The next action goes out to every target.
LEMMA BroadcastKeeps ==
    ASSUME StreamsInv, CastEvent
    PROVE  StreamsInv'
PROOF
  <1> DEFINE less == Tail(capture.tail)
             out == [t \in Windows |-> Head(capture.tail)]
             c == [capture EXCEPT !.tail = less, !.running = out]
             taken == capture.events - Len(capture.tail)
  <1>1. /\ CaptureSound(capture) /\ capture \in CaptureRecord /\ UNCHANGED <<socket, screencast>>
        /\ capture.tail \in Seq(Nat) /\ Len(capture.tail) \in Nat /\ capture.events \in Nat
        /\ capture.tail # << >> /\ DOMAIN capture.running = {}
    BY DEF StreamsInv, CaptureSound, CaptureRecord, CastEvent
  <1>2. /\ less \in Seq(Nat) /\ Len(less) = Len(capture.tail) - 1
        /\ 1 \in DOMAIN capture.tail /\ Head(capture.tail) = capture.tail[1]
        /\ \A i \in DOMAIN less : i \in Nat /\ i + 1 \in DOMAIN capture.tail /\ less[i] = capture.tail[i + 1]
    BY <1>1
  <1>3. taken \in Nat /\ \A i \in DOMAIN capture.tail : capture.tail[i] = taken + i
    BY <1>1 DEF CaptureSound
  <1> HIDE DEF taken, less
  <1>4. Head(capture.tail) = taken + 1 /\ \A i \in DOMAIN less : less[i] = taken + 1 + i
    <2>1. Head(capture.tail) = taken + 1
      BY <1>2, <1>3
    <2>2. ASSUME NEW i \in DOMAIN less
          PROVE  less[i] = taken + 1 + i
      <3>1. less[i] = taken + (i + 1) /\ i \in Nat
        BY <1>2, <1>3
      <3>2. QED
        BY <1>3, <3>1
    <2>3. QED
      BY <2>1, <2>2
  <1> USE DEF taken, less
  <1>5. /\ out \in [Windows -> Nat] /\ DOMAIN out = Windows
        /\ \A t \in Windows : out[t] = taken + 1
    BY <1>4, <1>3
  <1>6. out \in CastingMaps
    BY <1>5 DEF CastingMaps
  <1>7. capture' = c
    BY DEF CastEvent
  <1> HIDE DEF less, out
  <1>8. /\ c \in CaptureRecord /\ c.events = capture.events /\ c.tail = less
        /\ c.running = out /\ c.done = capture.done
    BY <1>1, <1>2, <1>6 DEF CaptureRecord
  <1> HIDE DEF c, taken
  <1>9. c.events - Len(c.tail) = taken + 1
    <2>1. Len(c.tail) = Len(capture.tail) - 1 /\ c.events = capture.events
      BY <1>2, <1>8
    <2>2. QED
      BY <1>1, <2>1 DEF taken
  <1>10. \A t \in Windows : /\ \A i \in DOMAIN capture.done[t] : capture.done[t][i] = i
                            /\ Len(capture.done[t]) = taken
    BY <1>1, <1>3 DEF CaptureSound, taken
  <1>11. c.events - Len(c.tail) >= 0 /\ c.events - Len(c.tail) > 0
    BY <1>3, <1>9
  <1>12. \A i \in DOMAIN c.tail : c.tail[i] = c.events - Len(c.tail) + i
    BY <1>4, <1>8, <1>9
  <1>13. \A t \in DOMAIN c.running : /\ c.running[t] = c.events - Len(c.tail)
                                    /\ c.events - Len(c.tail) > 0
    BY <1>5, <1>8, <1>9, <1>11
  <1>14. \A t \in Windows :
            /\ \A i \in DOMAIN c.done[t] : c.done[t][i] = i
            /\ Len(c.done[t]) = c.events - Len(c.tail)
                              - (IF t \in DOMAIN c.running THEN 1 ELSE 0)
    BY <1>3, <1>5, <1>8, <1>9, <1>10
  <1>15. CaptureSound(c)
    BY <1>8, <1>11, <1>12, <1>13, <1>14, Zenon DEF CaptureSound
  <1>16. QED
    BY <1>1, <1>7, <1>15 DEF StreamsInv

\* One target did its action.
LEMMA TargetKeeps ==
    ASSUME StreamsInv, NEW t \in Windows, TargetActs(t)
    PROVE  StreamsInv'
PROOF
  <1> DEFINE left == [u \in DOMAIN capture.running \ {t} |-> capture.running[u]]
             more == Append(capture.done[t], capture.running[t])
             all == [capture.done EXCEPT ![t] = more]
             c == [capture EXCEPT !.running = left, !.done = all]
             taken == capture.events - Len(capture.tail)
  <1>1. /\ CaptureSound(capture) /\ capture \in CaptureRecord /\ UNCHANGED <<socket, screencast>>
        /\ capture.events \in Nat /\ Len(capture.tail) \in Nat /\ t \in DOMAIN capture.running
        /\ capture.done \in [Windows -> Seq(Nat)] /\ capture.running \in CastingMaps
    BY DEF StreamsInv, CaptureSound, CaptureRecord, TargetActs
  <1>2. /\ capture.running[t] = taken /\ taken \in Nat /\ taken > 0
        /\ \A i \in DOMAIN capture.done[t] : capture.done[t][i] = i
        /\ Len(capture.done[t]) = taken - 1
    BY <1>1 DEF CaptureSound
  <1>3. more \in Seq(Nat) /\ Len(more) = taken /\ \A i \in DOMAIN more : more[i] = i
    <2>1. capture.done[t] \in Seq(Nat)
      BY <1>1
    <2>2. taken = Len(capture.done[t]) + 1 /\ more = Append(capture.done[t], taken)
      BY <1>2, <2>1
    <2> HIDE DEF more, taken
    <2>3. QED
      BY <1>2, <2>1, <2>2, NextNumber
  <1>4. PICK S \in SUBSET Windows : capture.running \in [S -> Nat]
    BY <1>1 DEF CastingMaps
  <1>5. /\ DOMAIN left = DOMAIN capture.running \ {t}
        /\ \A u \in DOMAIN left : left[u] = capture.running[u]
        /\ left \in [S \ {t} -> Nat] /\ S \ {t} \in SUBSET Windows
    BY <1>4
  <1>6. left \in CastingMaps
    BY <1>5 DEF CastingMaps
  <1>7. capture' = c
    BY DEF TargetActs
  <1> HIDE DEF left, more
  <1>8. /\ all \in [Windows -> Seq(Nat)] /\ all[t] = more
        /\ \A u \in Windows \ {t} : all[u] = capture.done[u]
    BY <1>1, <1>3
  <1> HIDE DEF all
  <1>9. /\ c \in CaptureRecord /\ c.events = capture.events /\ c.tail = capture.tail
        /\ c.running = left /\ c.done = all
    BY <1>1, <1>6, <1>8 DEF CaptureRecord
  <1> HIDE DEF c
  <1>10. CaptureSound(c)
    <2>1. \A u \in Windows : /\ \A i \in DOMAIN all[u] : all[u][i] = i
                             /\ Len(all[u]) = taken - (IF u \in DOMAIN left THEN 1 ELSE 0)
      <3> TAKE u \in Windows
      <3>1. CASE u = t
        BY <1>2, <1>3, <1>5, <1>8, <3>1
      <3>2. CASE u # t
        BY <1>1, <1>5, <1>8, <3>2 DEF CaptureSound
      <3>3. QED
        BY <3>1, <3>2
    <2>2. \A i \in DOMAIN capture.tail : capture.tail[i] = taken + i
      BY <1>1 DEF CaptureSound
    <2>3. \A u \in DOMAIN left : left[u] = taken /\ taken > 0
      BY <1>1, <1>2, <1>5 DEF CaptureSound
    <2>4. c.events - Len(c.tail) = taken
      BY <1>9
    <2>5. Len(capture.tail) <= capture.events
      BY <1>1, <1>2
    <2> HIDE DEF taken
    <2>6. c.events - Len(c.tail) >= 0
      BY <1>2, <2>4
    <2>7. \A i \in DOMAIN c.tail : c.tail[i] = c.events - Len(c.tail) + i
      BY <1>9, <2>2, <2>4
    <2>8. \A u \in DOMAIN c.running : /\ c.running[u] = c.events - Len(c.tail)
                                     /\ c.events - Len(c.tail) > 0
      BY <1>9, <2>3, <2>4
    <2>9. \A u \in Windows :
              /\ \A i \in DOMAIN c.done[u] : c.done[u][i] = i
              /\ Len(c.done[u]) = c.events - Len(c.tail)
                                - (IF u \in DOMAIN c.running THEN 1 ELSE 0)
      BY <1>9, <2>1, <2>4
    <2>10. QED
      BY <1>9, <2>6, <2>7, <2>8, <2>9, Zenon DEF CaptureSound
  <1>11. QED
    BY <1>1, <1>7, <1>10 DEF StreamsInv

\* Replies and synchronised actions keep their order, for any number of messages,
\* target windows and actions: none overtakes another, is left out or comes twice.
THEOREM StreamsHold == StreamsSpec => []OrderKept
PROOF
  <1>1. StreamsInit => StreamsInv
    <2> SUFFICES ASSUME StreamsInit PROVE StreamsInv
      OBVIOUS
    <2>1. << >> \in Seq(Message) /\ << >> \in Seq(Nat) /\ Len(<< >>) = 0
      OBVIOUS
    <2>2. SocketSound(socket)
      BY <2>1 DEF StreamsInit, SocketSound, StreamRecord
    <2>3. [t \in {} |-> 0] \in [{} -> Nat] /\ DOMAIN [t \in {} |-> 0] = {}
      OBVIOUS
    <2>4. [t \in {} |-> 0] \in CastingMaps
      BY <2>3 DEF CastingMaps
    <2> DEFINE none == [t \in {} |-> 0]
    <2>5. /\ none \in CastingMaps /\ DOMAIN none = {}
      BY <2>3, <2>4
    <2> HIDE DEF none
    <2>6. capture = [on |-> FALSE, events |-> 0, tail |-> << >>, running |-> none,
                     done |-> [t \in Windows |-> << >>]]
      BY DEF StreamsInit, none
    <2>7. capture \in CaptureRecord
      BY <2>1, <2>5, <2>6 DEF CaptureRecord
    <2>8. /\ capture.events - Len(capture.tail) = 0 /\ DOMAIN capture.tail = {}
          /\ DOMAIN capture.running = {}
      BY <2>1, <2>5, <2>6
    <2>9. \A t \in Windows : capture.done[t] = << >>
      BY <2>6
    <2>10. \A t \in Windows : /\ \A i \in DOMAIN capture.done[t] : capture.done[t][i] = i
                            /\ Len(capture.done[t]) = 0
      BY <2>9
    <2>11. CaptureSound(capture)
      BY <2>7, <2>8, <2>10 DEF CaptureSound
    <2>12. QED
      BY <2>2, <2>11 DEF StreamsInit, StreamsInv
  <1>2. StreamsInv /\ [StreamsNext]_streamVars => StreamsInv'
    <2> SUFFICES ASSUME StreamsInv, [StreamsNext]_streamVars PROVE StreamsInv'
      OBVIOUS
    <2>1. CASE (\E op \in SocketOps : SocketMessage(op)) \/ CloseSocket
      BY <2>1, MessageKeeps
    <2>2. CASE Proceed
      BY <2>2, ProceedKeeps
    <2>3. CASE Settle
      BY <2>3, SettleKeeps
    <2>4. CASE CastTick \/ Frame
      BY <2>4, CastKeeps
    <2>5. CASE StartCapture \/ StopCapture \/ MasterActs
      BY <2>5, MasterKeeps
    <2>6. CASE CastEvent
      BY <2>6, BroadcastKeeps
    <2>7. CASE \E t \in Windows : TargetActs(t)
      BY <2>7, TargetKeeps
    <2>8. CASE UNCHANGED streamVars
      BY <2>8 DEF streamVars, StreamsInv
    <2>9. QED
      BY <2>1, <2>2, <2>3, <2>4, <2>5, <2>6, <2>7, <2>8 DEF StreamsNext, SocketOps
  <1>3. StreamsInv => OrderKept
    BY DEF StreamsInv, SocketSound, CaptureSound, OrderKept, RepliesInOrder, TargetsInOrder
  <1>4. QED
    BY <1>1, <1>2, <1>3, PTL DEF StreamsSpec

-------------------------------------------------------------------------------
(* The MCP gateway.  A call keeps a ref from its snapshot to its action;   *)
(* refs are never given out twice, so the entry that has it, if it is      *)
(* still there, is the one the call chose.                                 *)

RegistryEntry == [ref : Nat, name : Names \cup {"none"}, generation : Nat]
GatewayTools == {"none", "page_click", "page_open", "browser_status", "browser_handoff", "browser_takeover",
                 "browser_resume"}
GatewayCall == [phase : {"idle", "audit", "resolve", "act", "done"}, tool : GatewayTools,
                wanted : Names \cup {"none"}, actionId : {"none", "i1"}, ref : Nat,
                answer : WireCodes \cup {"ok", "none"}]

\* A name the caller's description may be taken to mean.
Means(wanted, name) == name = wanted \/ <<wanted, name>> \in Similar

\* What a call may act on, whenever it acts: its ref was given out, and the
\* entry that has it, for as long as there is one, carries a name it means.
HoldsRef(c) ==
    call[c].phase = "act" /\ call[c].tool \in TargetTools =>
       /\ call[c].ref < nextRef
       /\ \A i \in DOMAIN registry : registry[i].ref = call[c].ref => Means(call[c].wanted, registry[i].name)

GatewayTyped ==
    /\ call \in [GatewayCalls -> GatewayCall]
    /\ dom \in [Elements -> Names \cup {"none"}]
    /\ generation \in Nat /\ nextRef \in Nat \ {0}
    /\ registry \in Seq(RegistryEntry)

GatewayInv ==
    /\ GatewayTyped
    /\ \A i \in DOMAIN registry : registry[i].ref < nextRef
    /\ \A c \in GatewayCalls : HoldsRef(c)
    /\ CallsAccountable

-------------------------------------------------------------------------------
\* Elements of a snapshot have different places, which are 1, 2 and so on.
LEMMA NthFacts ==
  /\ IsFiniteSet(Present) /\ Cardinality(Present) \in Nat
  /\ \A e \in Present : Nth(e) \in 1..Cardinality(Present)
  /\ \A e, o \in Present : Nth(e) = Nth(o) => e = o
  /\ \A i \in 1..Cardinality(Present) : \E e \in Present : Nth(e) = i
  <1>1. IsFiniteSet(Elements)
    BY FS_Interval, 1 \in Int, 2 \in Int DEF Elements
  <1>2. IsFiniteSet(Present) /\ Cardinality(Present) \in Nat
    BY <1>1, FS_Subset, FS_CardinalityType DEF Present
  <1> DEFINE Upto(e) == {y \in Present : y <= e}
  <1>3. ASSUME NEW e \in Present PROVE Nth(e) \in 1..Cardinality(Present) /\ IsFiniteSet(Upto(e))
    <2>1. Upto(e) \subseteq Present /\ e \in Upto(e)
      BY DEF Present, Elements
    <2> HIDE DEF Upto
    <2>2. IsFiniteSet(Upto(e)) /\ Cardinality(Upto(e)) \in Nat /\ Cardinality(Upto(e)) <= Cardinality(Present)
      BY <1>2, <2>1, FS_Subset, FS_CardinalityType
    <2>3. Cardinality(Upto(e)) # 0
      BY <2>1, <2>2, FS_EmptySet
    <2> QED BY <1>2, <2>2, <2>3 DEF Nth, Upto
  <1>4. ASSUME NEW e \in Present, NEW o \in Present, e < o PROVE Nth(e) # Nth(o)
    <2>1. Upto(e) \subseteq Upto(o) /\ Upto(e) # Upto(o)
      <3>1. o \in Upto(o) /\ o \notin Upto(e)
        BY <1>4 DEF Present, Elements
      <3>2. \A y \in Present : y <= e => y <= o
        BY <1>4 DEF Present, Elements
      <3> QED BY <3>1, <3>2
    <2>2. IsFiniteSet(Upto(e)) /\ IsFiniteSet(Upto(o))
      BY <1>3
    <2> HIDE DEF Upto
    <2>3. Cardinality(Upto(e)) \in Nat /\ Cardinality(Upto(o)) \in Nat /\ Cardinality(Upto(e)) # Cardinality(Upto(o))
      BY <2>1, <2>2, FS_Subset, FS_CardinalityType
    <2> QED BY <2>3 DEF Nth, Upto
  <1>5. \A e, o \in Present : Nth(e) = Nth(o) => e = o
    <2>1. \A e, o \in Present : e = o \/ e < o \/ o < e
      BY DEF Present, Elements
    <2> QED BY <1>4, <2>1
  <1> DEFINE n == Cardinality(Present)
             Places == {Nth(e) : e \in Present}
  <1>6. IsFiniteSet(Places) /\ Cardinality(Places) = n
    <2> DEFINE f == [e \in Present |-> Nth(e)]
    <2>1. f \in Bijection(Present, Places)
      BY <1>5 DEF Bijection, Injection, Surjection, IsInjective
    <2>2. ExistsBijection(Present, Places)
      BY <2>1 DEF ExistsBijection
    <2> HIDE DEF Places
    <2> QED BY <1>2, <2>2, FS_Bijection
  <1>7. Places = 1..n
    <2>1. IsFiniteSet(1..n) /\ Cardinality(1..n) = n
      BY <1>2, FS_Interval
    <2>2. Places \subseteq 1..n
      BY <1>3
    <2> HIDE DEF Places, n
    <2> QED BY <1>6, <2>1, <2>2, FS_Subset
  <1> QED BY <1>2, <1>3, <1>5, <1>7

\* The registry after a snapshot holds old entries and those of the snapshot.
LEMMA RefreshFacts ==
  ASSUME GatewayInv
  PROVE  /\ RefreshedRegistry \in Seq(RegistryEntry)
         /\ \A i \in DOMAIN RefreshedRegistry :
               \/ \E j \in DOMAIN registry : RefreshedRegistry[i] = registry[j]
               \/ \E j \in 1..Cardinality(Present) : RefreshedRegistry[i] = Added(j)
  <1> DEFINE n == Cardinality(Present)
             fresh == [i \in 1..n |-> Added(i)]
             all == registry \o fresh
             from == IF Len(all) > MaxGatewayRefs THEN Len(all) - MaxGatewayRefs + 1 ELSE 1
  <1>1. n \in Nat
    BY NthFacts
  <1>2. ASSUME NEW i \in 1..n PROVE Added(i) \in RegistryEntry
    <2>1. PICK e \in Present : e = CHOOSE x \in Present : Nth(x) = i
      BY NthFacts
    <2>2. dom[e] \in Names \cup {"none"} /\ generation \in Nat /\ nextRef + i - 1 \in Nat
      BY <1>1, <2>1 DEF GatewayInv, GatewayTyped, Present
    <2> QED BY <2>1, <2>2 DEF Added, RegistryEntry
  <1>3. registry \in Seq(RegistryEntry) /\ fresh \in Seq(RegistryEntry) /\ Len(fresh) = n /\ Len(registry) \in Nat
    BY <1>1, <1>2 DEF GatewayInv, GatewayTyped
  <1> HIDE DEF n, fresh
  <1>4. /\ all \in Seq(RegistryEntry) /\ Len(all) = Len(registry) + n
        /\ \A i \in 1..Len(all) : all[i] = IF i <= Len(registry) THEN registry[i] ELSE fresh[i - Len(registry)]
    BY <1>1, <1>3
  <1>5. from \in 1..(Len(all) + 1) /\ RefreshedRegistry = SubSeq(all, from, Len(all))
    BY <1>1, <1>3, <1>4, RefsKept DEF RefreshedRegistry, fresh, n
  <1> HIDE DEF all, from
  <1>6. /\ RefreshedRegistry \in Seq(RegistryEntry)
        /\ \A i \in DOMAIN RefreshedRegistry : RefreshedRegistry[i] = all[from + i - 1] /\ from + i - 1 \in 1..Len(all)
    BY <1>1, <1>3, <1>4, <1>5
  <1>7. ASSUME NEW i \in 1..Len(all)
        PROVE \/ \E j \in DOMAIN registry : all[i] = registry[j]
              \/ \E j \in 1..n : all[i] = Added(j)
    <2>1. CASE i <= Len(registry)
      BY <1>3, <1>4, <2>1
    <2>2. CASE ~(i <= Len(registry))
      <3>1. i - Len(registry) \in 1..n
        BY <1>1, <1>3, <1>4, <2>2
      <3>2. fresh[i - Len(registry)] = Added(i - Len(registry))
        BY <3>1 DEF fresh
      <3> QED BY <1>4, <2>2, <3>1, <3>2
    <2> QED BY <2>1, <2>2
  <1> QED BY <1>6, <1>7 DEF n

-------------------------------------------------------------------------------
\* An answered call is done and the others are as they were.
LEMMA AnsweredFacts ==
  ASSUME GatewayTyped, NEW c \in GatewayCalls, NEW code
  PROVE  /\ Answered(c, code) \in [GatewayCalls -> GatewayCall]
         /\ Answered(c, code)[c].phase = "done" /\ Answered(c, code)[c].answer = Wire(code)
         /\ \A o \in GatewayCalls \ {c} : Answered(c, code)[o] = call[o]
         /\ Wire(code) # "ok" <=> code # "ok"
  <1>1. Wire(code) \in WireCodes \cup {"ok"} /\ (Wire(code) # "ok" <=> code # "ok")
    BY DEF Wire, WireCodes
  <1>2. [NewCall EXCEPT !.phase = "done", !.answer = Wire(code)] \in GatewayCall
    BY <1>1 DEF NewCall, GatewayCall, GatewayTools
  <1> QED BY <1>1, <1>2 DEF Answered, GatewayTyped, NewCall

\* A call that ends or keeps its ref, in a registry that keeps or drops its own,
\* leaves every call what it may act on.
LEMMA KeepsRefs ==
  ASSUME GatewayInv, NEW c \in GatewayCalls,
         call' \in [GatewayCalls -> GatewayCall],
         call'[c].phase = "act" /\ call'[c].tool \in TargetTools => call'[c] = call[c],
         \A o \in GatewayCalls \ {c} : call'[o] = call[o],
         nextRef' = nextRef,
         registry' \in {registry, << >>}
  PROVE  /\ registry' \in Seq(RegistryEntry)
         /\ \A i \in DOMAIN registry' : registry'[i].ref < nextRef'
         /\ \A o \in GatewayCalls : HoldsRef(o)'
  <1>1. registry' \in Seq(RegistryEntry) /\ \A i \in DOMAIN registry' : registry'[i] = registry[i] /\ i \in DOMAIN registry
    <2>1. CASE registry' = registry
      BY <2>1 DEF GatewayInv, GatewayTyped
    <2>2. CASE registry' = << >>
      BY <2>2
    <2> QED BY <2>1, <2>2
  <1>2. ASSUME NEW o \in GatewayCalls PROVE HoldsRef(o)'
    <2> SUFFICES ASSUME call'[o].phase = "act", call'[o].tool \in TargetTools PROVE HoldsRef(o)'
      BY DEF HoldsRef, TargetTools, PageTools
    <2>1. call'[o] = call[o]
      OBVIOUS
    <2> QED BY <1>1, <2>1 DEF GatewayInv, HoldsRef
  <1> QED BY <1>1, <1>2 DEF GatewayInv

\* A call that ends, on the record unless its answer is an error, leaves the rest
\* of the record alone.
LEMMA KeepsRecord ==
  ASSUME GatewayInv, NEW c \in GatewayCalls,
         attempts \subseteq attempts',
         \A o \in GatewayCalls \ {c} : call'[o] = call[o],
         call'[c].phase \in {"resolve", "act"} \/ call'[c].answer = "ok" => c \in attempts'
  PROVE  EffectsAudited'
  BY DEF GatewayInv, CallsAccountable, EffectsAudited

-------------------------------------------------------------------------------
\* The session begins without refs and without calls.
LEMMA GatewayInitial == GatewayInit => GatewayInv
  <1> SUFFICES ASSUME GatewayInit PROVE GatewayInv
    OBVIOUS
  <1>1. NewCall \in GatewayCall
    BY DEF NewCall, GatewayCall, GatewayTools
  <1>2. GatewayTyped
    BY <1>1 DEF GatewayInit, GatewayTyped
  <1>3. \A c \in GatewayCalls : call[c].phase = "idle" /\ call[c].answer = "none"
    BY DEF GatewayInit, NewCall
  <1> QED BY <1>2, <1>3 DEF GatewayInit, GatewayInv, HoldsRef, CallsAccountable, ActsOnDescribed, EffectsAudited

\* A call is received, or its arguments are refused.
LEMMA ReceiveKeepsGateway ==
  ASSUME GatewayInv, NEW c \in GatewayCalls, NEW tool \in GatewayTools, NEW wanted \in Names \cup {"none"},
         NEW id \in {"none", "i1"}, Receive(c, tool, wanted, id)
  PROVE  GatewayInv'
  <1> DEFINE asked == [NewCall EXCEPT !.tool = tool, !.wanted = wanted, !.actionId = id, !.phase = "audit"]
  <1>1. asked \in GatewayCall /\ asked.phase = "audit" /\ asked.answer = "none"
    BY DEF GatewayCall, NewCall, GatewayTools
  <1>2. /\ call' \in [GatewayCalls -> GatewayCall]
        /\ call'[c].phase \in {"audit", "done"} /\ call'[c].answer # "ok"
        /\ \A o \in GatewayCalls \ {c} : call'[o] = call[o]
    <2>1. CASE call' = [call EXCEPT ![c] = asked]
      BY <1>1, <2>1 DEF GatewayInv, GatewayTyped
    <2>2. CASE call' = Answered(c, "INVALID_INPUT")
      BY <2>2, AnsweredFacts DEF GatewayInv
    <2> QED BY <2>1, <2>2 DEF Receive, NewCall
  <1>3. UNCHANGED <<dom, generation, registry, nextRef, attempts, effects>>
    BY DEF Receive
  <1>4. \A i \in DOMAIN registry' : registry'[i].ref < nextRef'
    BY <1>3 DEF GatewayInv
  <1>5. \A o \in GatewayCalls : HoldsRef(o)'
    BY <1>2, <1>3, KeepsRefs
  <1>6. EffectsAudited'
    BY <1>2, <1>3, KeepsRecord
  <1>7. ActsOnDescribed'
    BY <1>3 DEF GatewayInv, CallsAccountable, ActsOnDescribed
  <1> QED BY <1>2, <1>3, <1>4, <1>5, <1>6, <1>7 DEF GatewayInv, GatewayTyped, CallsAccountable

\* A call is on record before it goes on, and it has no ref yet.
LEMMA AttemptKeepsGateway ==
  ASSUME GatewayInv, NEW c \in GatewayCalls, Attempt(c)
  PROVE  GatewayInv'
  <1> DEFINE next == IF call[c].tool \in TargetTools THEN "resolve" ELSE "act"
  <1>1. /\ call' \in [GatewayCalls -> GatewayCall]
        /\ call'[c].phase = "act" => call'[c].tool \notin TargetTools
        /\ \A o \in GatewayCalls \ {c} : call'[o] = call[o]
        /\ attempts \subseteq attempts'
        /\ call'[c].phase \in {"resolve", "act"} \/ call'[c].answer = "ok" => c \in attempts'
    <2>1. CASE call' = Answered(c, "AUDIT_UNAVAILABLE") /\ UNCHANGED attempts
      BY <2>1, AnsweredFacts DEF GatewayInv
    <2>2. CASE attempts' = attempts \cup {c} /\ \E code : call' = Answered(c, code)
      BY <2>2, AnsweredFacts DEF GatewayInv
    <2>3. CASE attempts' = attempts \cup {c} /\ call' = [call EXCEPT ![c].phase = next]
      <3>1. next \in {"resolve", "act"} /\ (call[c].tool \in TargetTools => next = "resolve")
        OBVIOUS
      <3> HIDE DEF next
      <3>2. call[c] \in GatewayCall /\ call'[c] = [call[c] EXCEPT !.phase = next]
        BY <2>3 DEF GatewayInv, GatewayTyped
      <3>3. call'[c] \in GatewayCall /\ call'[c].phase = next /\ call'[c].tool = call[c].tool
        BY <3>1, <3>2 DEF GatewayCall
      <3>4. call' \in [GatewayCalls -> GatewayCall] /\ \A o \in GatewayCalls \ {c} : call'[o] = call[o]
        BY <2>3, <3>2, <3>3 DEF GatewayInv, GatewayTyped
      <3> QED BY <2>3, <3>1, <3>3, <3>4
    <2> QED BY <2>1, <2>2, <2>3 DEF Attempt
  <1>2. UNCHANGED <<dom, generation, registry, nextRef, effects>>
    BY DEF Attempt
  <1>3. \A i \in DOMAIN registry' : registry'[i].ref < nextRef'
    BY <1>2 DEF GatewayInv
  <1>4. \A o \in GatewayCalls : HoldsRef(o)'
    BY <1>1, <1>2, KeepsRefs
  <1>5. EffectsAudited'
    BY <1>1, KeepsRecord
  <1>6. ActsOnDescribed'
    BY <1>2 DEF GatewayInv, CallsAccountable, ActsOnDescribed
  <1> QED BY <1>1, <1>2, <1>3, <1>4, <1>5, <1>6 DEF GatewayInv, GatewayTyped, CallsAccountable

\* The element a call takes from a snapshot has a name it means.
LEMMA ChosenMeans ==
  ASSUME NEW wanted, NEW e \in Chosen(wanted)
  PROVE  e \in Present /\ Means(wanted, dom[e])
  <1>1. CASE e \in Matching(wanted)
    BY <1>1 DEF Matching, Means
  <1>2. CASE e \in Adaptive(wanted)
    <2>1. e \in Present /\ Score(wanted, dom[e]) >= 65
      BY <1>2 DEF Adaptive
    <2>2. wanted = dom[e] \/ <<wanted, dom[e]>> \in Similar
      BY <2>1 DEF Score
    <2> QED BY <2>1, <2>2 DEF Means
  <1> QED BY <1>1, <1>2 DEF Chosen

\* A snapshot gives its elements refs no call has; the call that asked for it
\* takes the ref of the element it means.
LEMMA ResolveKeepsGateway ==
  ASSUME GatewayInv, NEW c \in GatewayCalls, Resolve(c)
  PROVE  GatewayInv'
  <1> DEFINE n == Cardinality(Present)
  <1>1. n \in Nat /\ nextRef \in Nat \ {0} /\ nextRef' = nextRef + n /\ registry' = RefreshedRegistry
    BY NthFacts DEF Resolve, GatewayInv, GatewayTyped
  <1>2. UNCHANGED <<dom, generation, attempts, effects>> /\ call[c].phase = "resolve"
    BY DEF Resolve
  <1>3. registry' \in Seq(RegistryEntry)
    BY <1>1, RefreshFacts
  <1>4. ASSUME NEW i \in DOMAIN registry'
        PROVE  \/ \E j \in DOMAIN registry : registry'[i] = registry[j]
               \/ \E j \in 1..n : registry'[i].ref = nextRef + j - 1 /\ registry'[i].name = Added(j).name
    <2>1. \/ \E j \in DOMAIN registry : registry'[i] = registry[j]
          \/ \E j \in 1..n : registry'[i] = Added(j)
      BY <1>1, RefreshFacts
    <2>2. \A j : Added(j).ref = nextRef + j - 1
      BY DEF Added
    <2> QED BY <2>1, <2>2
  <1>5. \A j \in DOMAIN registry : registry[j].ref \in Nat /\ registry[j].ref < nextRef
    <2>1. \A j \in DOMAIN registry : registry[j] \in RegistryEntry
      BY DEF GatewayInv, GatewayTyped
    <2> QED BY <2>1 DEF GatewayInv, RegistryEntry
  <1>6. \A i \in DOMAIN registry' : registry'[i].ref < nextRef'
    <2>1. ASSUME NEW i \in DOMAIN registry', NEW j \in DOMAIN registry, registry'[i] = registry[j]
          PROVE  registry'[i].ref < nextRef'
      BY <1>1, <1>5, <2>1
    <2>2. ASSUME NEW i \in DOMAIN registry', NEW j \in 1..n, registry'[i].ref = nextRef + j - 1
          PROVE  registry'[i].ref < nextRef'
      BY <1>1, <2>2
    <2> QED BY <1>4, <2>1, <2>2
  <1>7. /\ call' \in [GatewayCalls -> GatewayCall]
        /\ \A o \in GatewayCalls \ {c} : call'[o] = call[o]
        /\ \/ call'[c].phase = "done" /\ call'[c].answer # "ok"
           \/ \E e \in Chosen(call[c].wanted) :
                 /\ call'[c].ref = nextRef + Nth(e) - 1 /\ call'[c].wanted = call[c].wanted
    <2>1. CASE \E code : code # "ok" /\ call' = Answered(c, code)
      BY <2>1, AnsweredFacts DEF GatewayInv
    <2>2. CASE \E e \in Chosen(call[c].wanted) : call' = [call EXCEPT ![c].phase = "act", ![c].ref = nextRef + Nth(e) - 1]
      <3>1. PICK e \in Chosen(call[c].wanted) : call' = [call EXCEPT ![c].phase = "act", ![c].ref = nextRef + Nth(e) - 1]
        BY <2>2
      <3>2. Nth(e) \in 1..n
        BY ChosenMeans, NthFacts
      <3>3. call[c] \in GatewayCall /\ call'[c] = [call[c] EXCEPT !.phase = "act", !.ref = nextRef + Nth(e) - 1]
        BY <3>1 DEF GatewayInv, GatewayTyped
      <3>4. nextRef + Nth(e) - 1 \in Nat
        BY <1>1, <3>2
      <3>5. call'[c] \in GatewayCall /\ call'[c].ref = nextRef + Nth(e) - 1 /\ call'[c].wanted = call[c].wanted
        BY <3>3, <3>4 DEF GatewayCall
      <3>6. call' \in [GatewayCalls -> GatewayCall] /\ \A o \in GatewayCalls \ {c} : call'[o] = call[o]
        BY <3>1, <3>3, <3>5 DEF GatewayInv, GatewayTyped
      <3> QED BY <3>5, <3>6
    <2> QED BY <2>1, <2>2 DEF Resolve
  <1> HIDE DEF n
  <1>8. HoldsRef(c)'
    <2> SUFFICES ASSUME call'[c].phase = "act"
                 PROVE  /\ call'[c].ref < nextRef'
                        /\ \A i \in DOMAIN registry' :
                              registry'[i].ref = call'[c].ref => Means(call'[c].wanted, registry'[i].name)
      BY DEF HoldsRef
    <2>1. PICK e \in Chosen(call[c].wanted) :
             call'[c].ref = nextRef + Nth(e) - 1 /\ call'[c].wanted = call[c].wanted
      BY <1>7
    <2>2. e \in Present /\ Means(call[c].wanted, dom[e]) /\ Nth(e) \in 1..n
      BY ChosenMeans, NthFacts DEF n
    <2>3. call'[c].ref < nextRef' /\ call'[c].ref >= nextRef
      BY <1>1, <2>1, <2>2
    <2>4. ASSUME NEW i \in DOMAIN registry', registry'[i].ref = call'[c].ref
          PROVE  Means(call'[c].wanted, registry'[i].name)
      <3>1. PICK j \in 1..n : registry'[i].ref = nextRef + j - 1 /\ registry'[i].name = Added(j).name
        BY <1>1, <1>4, <1>5, <2>3, <2>4
      <3>2. j = Nth(e)
        BY <1>1, <2>1, <2>2, <2>4, <3>1
      <3>3. e = CHOOSE x \in Present : Nth(x) = j
        BY <2>2, <3>2, NthFacts
      <3>4. Added(j).name = dom[e]
        BY <3>3 DEF Added
      <3> QED BY <2>1, <2>2, <3>1, <3>4
    <2> QED BY <2>3, <2>4
  <1>9. ASSUME NEW o \in GatewayCalls \ {c} PROVE HoldsRef(o)'
    <2> SUFFICES ASSUME call[o].phase = "act", call[o].tool \in TargetTools
                 PROVE  /\ call[o].ref < nextRef'
                        /\ \A i \in DOMAIN registry' :
                              registry'[i].ref = call[o].ref => Means(call[o].wanted, registry'[i].name)
      BY <1>7 DEF HoldsRef, TargetTools, PageTools
    <2>1. /\ call[o].ref \in Nat /\ call[o].ref < nextRef
          /\ \A j \in DOMAIN registry : registry[j].ref = call[o].ref => Means(call[o].wanted, registry[j].name)
      BY DEF GatewayInv, GatewayTyped, GatewayCall, HoldsRef
    <2> QED BY <1>1, <1>4, <2>1
  <1>10. EffectsAudited'
    <2>1. c \in attempts
      BY <1>2 DEF GatewayInv, CallsAccountable, EffectsAudited
    <2> QED BY <1>2, <1>7, <2>1, KeepsRecord
  <1>11. ActsOnDescribed'
    BY <1>2 DEF GatewayInv, CallsAccountable, ActsOnDescribed
  <1>12. nextRef' \in Nat \ {0}
    BY <1>1
  <1> QED BY <1>2, <1>3, <1>6, <1>7, <1>8, <1>9, <1>10, <1>11, <1>12 DEF GatewayInv, GatewayTyped, CallsAccountable

-------------------------------------------------------------------------------
\* A call that acts is on record, so its answer may be any.
LEMMA ActsOnRecord ==
  ASSUME GatewayInv, NEW c \in GatewayCalls, call[c].phase = "act", NEW code,
         call' = Answered(c, code), UNCHANGED <<nextRef, attempts>>, registry' \in {registry, << >>}
  PROVE  /\ call' \in [GatewayCalls -> GatewayCall] /\ registry' \in Seq(RegistryEntry)
         /\ \A i \in DOMAIN registry' : registry'[i].ref < nextRef'
         /\ \A o \in GatewayCalls : HoldsRef(o)'
         /\ EffectsAudited'
  <1>1. /\ call' \in [GatewayCalls -> GatewayCall] /\ call'[c].phase = "done"
        /\ \A o \in GatewayCalls \ {c} : call'[o] = call[o]
    BY AnsweredFacts DEF GatewayInv
  <1>2. c \in attempts
    BY DEF GatewayInv, CallsAccountable, EffectsAudited
  <1> QED BY <1>1, <1>2, KeepsRefs, KeepsRecord

\* What a read, a change of control or a known action leaves is as it was.
LEMMA AnsweringKeepsGateway ==
  ASSUME GatewayInv, NEW c \in GatewayCalls, ActRead(c) \/ ActControl(c) \/ ActKnown(c)
  PROVE  GatewayInv'
  <1>1. PICK code : call' = Answered(c, code)
    BY DEF ActRead, ActControl, ActKnown
  <1>2. /\ call[c].phase = "act" /\ UNCHANGED <<dom, nextRef, attempts, effects>>
        /\ registry' \in {registry, << >>} /\ generation' \in {generation, generation + 1}
    BY DEF ActRead, ActControl, ActKnown
  <1>3. generation' \in Nat
    BY <1>2 DEF GatewayInv, GatewayTyped
  <1>4. ActsOnDescribed'
    BY <1>2 DEF GatewayInv, CallsAccountable, ActsOnDescribed
  <1> QED BY <1>1, <1>2, <1>3, <1>4, ActsOnRecord DEF GatewayInv, GatewayTyped, CallsAccountable

\* A write lands on the one element with the name of the call's ref.
LEMMA HitFacts ==
  ASSUME GatewayInv, NEW c \in GatewayCalls, call[c].phase = "act", call[c].tool \in TargetTools,
         Target(c).error = "none"
  PROVE  Hit(c).twins = 1 /\ Means(Hit(c).wanted, Hit(c).hit)
  <1> DEFINE r == registry[CHOOSE i \in RefRecords(call[c].ref) : TRUE]
  <1>1. RefRecords(call[c].ref) # {}
    BY DEF Target
  <1>2. PICK i \in RefRecords(call[c].ref) : r = registry[i]
    BY <1>1
  <1>3. i \in DOMAIN registry /\ registry[i].ref = call[c].ref
    BY DEF RefRecords
  <1>4. Means(call[c].wanted, r.name)
    BY <1>2, <1>3 DEF GatewayInv, HoldsRef
  <1>5. r.generation = generation /\ Cardinality(Matching(r.name)) = 1 /\ Target(c).hit = r.name
    BY <1>1 DEF Target
  <1> QED BY <1>4, <1>5 DEF Hit

\* A write, done or failed.
LEMMA ActWriteKeepsGateway ==
  ASSUME GatewayInv, NEW c \in GatewayCalls, ActWrite(c)
  PROVE  GatewayInv'
  <1>1. /\ call[c].phase = "act" /\ \E code : call' = Answered(c, code)
        /\ UNCHANGED <<nextRef, attempts>>
        /\ registry' \in {registry, << >>} /\ generation' \in {generation, generation + 1}
        /\ dom' \in {dom} \cup [Elements -> Names \cup {"none"}]
        /\ effects' \in {effects, effects \cup {Hit(c)}}
        /\ effects' # effects => call[c].tool \in TargetTools /\ Target(c).error = "none"
    BY DEF ActWrite
  <1>2. generation' \in Nat /\ dom' \in [Elements -> Names \cup {"none"}]
    BY <1>1 DEF GatewayInv, GatewayTyped
  <1>3. ActsOnDescribed'
    <2>1. ASSUME NEW e \in effects' PROVE e.twins = 1 /\ Means(e.wanted, e.hit)
      <3>1. CASE e \in effects
        BY <3>1 DEF GatewayInv, CallsAccountable, ActsOnDescribed, Means
      <3>2. CASE e \notin effects
        BY <1>1, <2>1, <3>2, HitFacts
      <3> QED BY <3>1, <3>2
    <2> QED BY <2>1 DEF ActsOnDescribed, Means
  <1> QED BY <1>1, <1>2, <1>3, ActsOnRecord DEF GatewayInv, GatewayTyped, CallsAccountable

\* The page and the session's control change under the calls.
LEMMA ChangesKeepGateway ==
  ASSUME GatewayInv, PageChanges \/ ChallengeFound \/ Refills
  PROVE  GatewayInv'
  <1>1. /\ UNCHANGED <<call, nextRef, attempts, effects>> /\ registry' \in {registry, << >>}
        /\ generation' \in {generation, generation + 1}
    BY DEF PageChanges, ChallengeFound, Refills
  <1>2. dom' \in [Elements -> Names \cup {"none"}] /\ generation' \in Nat
    BY <1>1 DEF PageChanges, ChallengeFound, Refills, GatewayInv, GatewayTyped
  <1>3. /\ registry' \in Seq(RegistryEntry)
        /\ \A i \in DOMAIN registry' : registry'[i] = registry[i] /\ i \in DOMAIN registry
    <2>1. CASE registry' = registry
      BY <2>1 DEF GatewayInv, GatewayTyped
    <2>2. CASE registry' = << >>
      BY <2>2
    <2> QED BY <1>1, <2>1, <2>2
  <1>4. \A c \in GatewayCalls : HoldsRef(c)'
    BY <1>1, <1>3 DEF GatewayInv, HoldsRef
  <1>5. CallsAccountable'
    BY <1>1 DEF GatewayInv, CallsAccountable, ActsOnDescribed, EffectsAudited
  <1> QED BY <1>1, <1>2, <1>3, <1>4, <1>5 DEF GatewayInv, GatewayTyped

\* Every step of the gateway keeps the invariant.
LEMMA GatewayStep == GatewayInv /\ [GatewayNext]_gatewayVars => GatewayInv'
  <1> SUFFICES ASSUME GatewayInv, [GatewayNext]_gatewayVars PROVE GatewayInv'
    OBVIOUS
  <1>1. CASE UNCHANGED gatewayVars
    <2>1. \A c \in GatewayCalls : HoldsRef(c)'
      BY <1>1 DEF gatewayVars, GatewayInv, HoldsRef
    <2> QED BY <1>1, <2>1
            DEF gatewayVars, GatewayInv, GatewayTyped, CallsAccountable, ActsOnDescribed, EffectsAudited
  <1>2. CASE \E c \in GatewayCalls, tool \in GatewayTools, wanted \in Names \cup {"none"}, id \in {"none", "i1"} :
                Receive(c, tool, wanted, id)
    BY <1>2, ReceiveKeepsGateway
  <1>3. CASE \E c \in GatewayCalls : Attempt(c)
    BY <1>3, AttemptKeepsGateway
  <1>4. CASE \E c \in GatewayCalls : Resolve(c)
    BY <1>4, ResolveKeepsGateway
  <1>5. CASE \E c \in GatewayCalls : ActRead(c) \/ ActControl(c) \/ ActKnown(c)
    BY <1>5, AnsweringKeepsGateway
  <1>6. CASE \E c \in GatewayCalls : ActWrite(c)
    BY <1>6, ActWriteKeepsGateway
  <1>7. CASE PageChanges \/ ChallengeFound \/ Refills
    BY <1>7, ChangesKeepGateway
  <1> QED BY <1>1, <1>2, <1>3, <1>4, <1>5, <1>6, <1>7 DEF GatewayNext, GatewayTools

\* Calls over one session (handleToolCall, call and resolveConcreteTarget of
\* src/mcp/server.ts, TargetRegistry): however the page, its refs and control of
\* the session change between a snapshot and the action, a write lands on the
\* one element that carries a name the caller meant, and no call reaches the
\* session or is answered well before its attempt is on record.
THEOREM GatewayAccountable == GatewaySpec => []CallsAccountable
  <1>1. GatewayInv => CallsAccountable
    BY DEF GatewayInv
  <1> QED BY <1>1, GatewayInitial, GatewayStep, PTL DEF GatewaySpec
===============================================================================
