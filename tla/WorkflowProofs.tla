------------------------- MODULE WorkflowProofs -------------------------
(* Proofs about the workflow engine and the queue it shares.

   WorkflowInv is inductive.  A step travels through three places: the executor
   (flow), the session's queue, and the page (effects).  QueueFits ties the three:
   a queued task belongs to the step its workflow waits for, is aborted exactly when
   the workflow no longer waits, and has made the writes the page shows of its step.
   Counts ties the first to the third: the page holds every write of the completed
   steps, and those the step under way, or abandoned, has made so far.
   Remembered, RevisionSeen and OneActive are what the cache of actionIds, the
   check of the page revision and the reservation keep.

   Each action is first summarised by what it does to one flow (SubmitDoes, ...)
   or to the head of the queue (TaskStep); the invariants use the summaries.  *)
EXTENDS Workflow, SequenceTheorems, TLAPS

\* The stages in which a workflow holds the session.
Active == {"initial", "step", "waiting", "after", "stopped"}
Stages == Active \cup {"new", "done", "shares"}
Reasons == {"completed", "challenge", "timeout", "error", "interrupt", "revision_mismatch"}
Results == {"none", "same", "conflict", "busy", "ok", "stopped"}
Reports == [seq : Int, challenge : BOOLEAN, popups : Int]
FlowRecords == [pc : Stages, idx : 0..NumSteps, ok : 0..NumSteps, reason : Reasons, base : Reports,
                revision : Nat, late : BOOLEAN, result : Results, of : Flows \cup {None}]
Pages == [seq : Nat, last : {"none", "popup", "dialog"}, popups : Nat, challenge : BOOLEAN, revision : Nat]
Tasks == [who : Flows \cup Others, step : 0..NumSteps, aborted : BOOLEAN, made : Nat]

FlowTyped == flow \in [Flows -> FlowRecords]
PageTyped == page \in Pages
CacheTyped == /\ cache \in [ActionIds -> Flows \cup {None, "expired"}]
              /\ token \in Flows \cup {None}
              /\ other \in [Others -> {"new", "queued", "done", "busy"}]
QueueTyped == /\ queue \in Seq(Tasks) /\ Len(queue) <= MaxQueue
              /\ phase \in {"waiting", "scan", "operation"}
              /\ phase # "waiting" => queue # << >>
EffectsTyped == effects \in [Flows \cup Others -> [0..NumSteps -> Nat]]
Typed == FlowTyped /\ PageTyped /\ CacheTyped /\ QueueTyped /\ EffectsTyped

\* A task in the queue and the flow or request it belongs to.
Fits(t) ==
    \/ /\ t.who \in Flows /\ flow[t.who].pc \in {"waiting", "stopped", "done"}
       /\ t.step = flow[t.who].ok + 1
       /\ t.aborted <=> flow[t.who].pc # "waiting"
       /\ t.aborted => flow[t.who].late
       /\ t.made = effects[t.who][t.step]
    \/ t.who \in Others /\ ~t.aborted /\ other[t.who] = "queued"
QueueFits ==
    /\ \A k \in 1..Len(queue) : Fits(queue[k])
    /\ \A k, l \in 1..Len(queue) : queue[k].who = queue[l].who => k = l

\* A workflow that is not over has a step to run.
Room ==
    \A f \in Flows :
       /\ flow[f].idx = flow[f].ok
       /\ flow[f].pc \in {"new", "shares"} => flow[f].ok = 0
       /\ flow[f].pc \in {"initial", "step", "waiting", "after"} => flow[f].ok < NumSteps
       /\ flow[f].result = "ok" => flow[f].pc = "done" /\ flow[f].ok = NumSteps
\* What the page shows of a workflow, against what it has counted.
Counts ==
    \A f \in Flows : \A i \in 1..NumSteps :
       /\ i <= flow[f].ok => effects[f][i] = Len(WritesOf[f][i])
       /\ i > flow[f].ok + 1 => effects[f][i] = 0
       /\ i = flow[f].ok + 1 =>
             /\ effects[f][i] <= Len(WritesOf[f][i])
             /\ flow[f].pc \in {"new", "shares", "initial", "step"} => effects[f][i] = 0
             /\ flow[f].pc = "after" => effects[f][i] = Len(WritesOf[f][i])
\* The cache keeps an actionId for as long as it was used at all.
Remembered == \A f \in Flows : flow[f].pc # "new" /\ ActionOf[f] # None => cache[ActionOf[f]] # None
\* Between the check of the first write and the write nothing moves the page on.
RevisionSeen == phase = "operation" /\ FirstWrite(queue[1]) /\ queue[1].made = 0
                   => flow[queue[1].who].revision = page.revision
\* The reservation names the one workflow that is under way.
OneActive == \A f \in Flows : flow[f].pc \in Active <=> token = f

----------------------------------------------------------------------------
(* What each action does *)

\* What a step does to the flows: only f changes, and keeps its counts.
Only(f) == FlowTyped' /\ \A g \in Flows \ {f} : flow'[g] = flow[g]
SameCounts(f) == flow'[f].ok = flow[f].ok /\ flow'[f].idx = flow[f].idx
SameResult(f) == flow'[f].result = flow[f].result
SamePlan(f) == flow'[f].revision = flow[f].revision

(* A submission shares the first call's promise, fails as busy, or starts and
   reserves the session (BrowserSession.workflow, runIdempotentWrite). *)
LEMMA SubmitDoes ==
    ASSUME Typed, NEW f \in Flows, Submit(f)
    PROVE  /\ Only(f) /\ SameCounts(f) /\ flow[f].pc = "new"
           /\ UNCHANGED <<other, queue, phase, page, effects>>
           /\ \/ /\ flow'[f].pc = "shares" /\ flow'[f].result # "ok" /\ Cached(f) # None
                 /\ UNCHANGED <<token, cache>>
              \/ /\ flow'[f].pc = "done" /\ flow'[f].result # "ok" /\ token # None
                 /\ Remember(f) /\ UNCHANGED token
              \/ /\ flow'[f].pc = "initial" /\ SameResult(f) /\ token = None /\ token' = f
                 /\ Cached(f) = None /\ Remember(f)
  <1>1. /\ flow[f] \in FlowRecords /\ flow[f].pc = "new"
        /\ UNCHANGED <<other, queue, phase, page, effects>>
    BY DEF Typed, FlowTyped, Submit
  <1>2. CASE Cached(f) # None /\ UNCHANGED <<token, cache>>
             /\ flow' = [flow EXCEPT ![f].pc = "shares", ![f].of = Cached(f),
                          ![f].result = IF InputOf[Cached(f)] = InputOf[f] THEN "same" ELSE "conflict"]
    <2>1. PICK q \in {"same", "conflict"} : flow' = [flow EXCEPT ![f] = [flow[f] EXCEPT !.pc = "shares", !.of = Cached(f), !.result = q]]
      BY <1>2, <1>1 DEF Typed, FlowTyped
    <2>2. Cached(f) \in Flows \cup {None}
      BY DEF Cached
    <2>3. [flow[f] EXCEPT !.pc = "shares", !.of = Cached(f), !.result = q] \in FlowRecords
      BY <2>2, <1>1 DEF Stages, Results, FlowRecords
    <2>4. Only(f)
      BY <1>1, <2>1, <2>3 DEF Typed, FlowTyped, Only
    <2> QED
      BY <1>1, <1>2, <2>1, <2>4 DEF Typed, FlowTyped, SameCounts, FlowRecords
  <1>3. CASE token # None /\ Remember(f) /\ UNCHANGED token
             /\ flow' = [flow EXCEPT ![f].pc = "done", ![f].result = "busy"]
    <2>1. flow' = [flow EXCEPT ![f] = [flow[f] EXCEPT !.pc = "done", !.result = "busy"]]
      BY <1>3, <1>1 DEF Typed, FlowTyped
    <2>3. [flow[f] EXCEPT !.pc = "done", !.result = "busy"] \in FlowRecords
      BY <1>1 DEF Stages, Results, FlowRecords
    <2>4. Only(f)
      BY <1>1, <2>1, <2>3 DEF Typed, FlowTyped, Only
    <2> QED
      BY <1>1, <1>3, <2>1, <2>4 DEF Typed, FlowTyped, SameCounts, FlowRecords
  <1>4. CASE Cached(f) = None /\ token = None /\ token' = f /\ Remember(f)
             /\ flow' = [flow EXCEPT ![f].pc = "initial", ![f].revision = page.revision]
    <2>1. flow' = [flow EXCEPT ![f] = [flow[f] EXCEPT !.pc = "initial", !.revision = page.revision]]
      BY <1>4, <1>1 DEF Typed, FlowTyped
    <2>3. [flow[f] EXCEPT !.pc = "initial", !.revision = page.revision] \in FlowRecords
      BY <1>1 DEF Typed, PageTyped, Pages, Stages, Active, FlowRecords
    <2>4. Only(f)
      BY <1>1, <2>1, <2>3 DEF Typed, FlowTyped, Only
    <2> QED
      BY <1>1, <1>4, <2>1, <2>4 DEF Typed, FlowTyped, SameCounts, SameResult, FlowRecords
  <1> QED
    BY <1>2, <1>3, <1>4 DEF Submit

(* The status before the first step stops a workflow or lets it begin. *)
LEMMA ReadInitialDoes ==
    ASSUME Typed, NEW f \in Flows, ReadInitial(f)
    PROVE  /\ Only(f) /\ SameCounts(f) /\ SameResult(f) /\ SamePlan(f)
           /\ flow[f].pc = "initial" /\ flow'[f].pc \in {"stopped", "step"}
           /\ UNCHANGED <<token, other, queue, phase, page, cache, effects>>
  <1>1. /\ flow[f] \in FlowRecords /\ flow[f].pc = "initial"
        /\ UNCHANGED <<token, other, queue, phase, page, cache, effects>>
    BY DEF Typed, FlowTyped, ReadInitial
  <1>2. Status \in Reports /\ Unknown \in Reports
    BY DEF Typed, PageTyped, Pages, Status, Unknown, Reports
  <1>3. PICK b \in Reports, p \in {"stopped", "step"}, q \in Reasons :
           flow' = [flow EXCEPT ![f].base = b, ![f].pc = p, ![f].reason = q]
    <2>1. flow[f].reason \in Reasons
      BY <1>1 DEF FlowRecords
    <2>2. InitialStop(f) \in {"none"} \cup Reasons
      BY DEF InitialStop, Reasons
    <2>3. flow' = [flow EXCEPT ![f].base = IF flow[f].late THEN Unknown ELSE Status,
                               ![f].pc = IF InitialStop(f) = "none" THEN "step" ELSE "stopped",
                               ![f].reason = IF InitialStop(f) = "none" THEN flow[f].reason ELSE InitialStop(f)]
      BY DEF ReadInitial, Typed, FlowTyped
    <2> QED
      BY <1>2, <2>1, <2>2, <2>3
  <1>4. [flow[f] EXCEPT !.base = b, !.pc = p, !.reason = q] \in FlowRecords
    BY <1>1 DEF Stages, Active, FlowRecords
  <1>5. Only(f)
    BY <1>1, <1>3, <1>4 DEF Typed, FlowTyped, Only
  <1> QED
    BY <1>1, <1>3, <1>5 DEF Typed, FlowTyped, SameCounts, SameResult, SamePlan, FlowRecords

(* The head of the loop stops the workflow, or queues its next step. *)
LEMMA InvokeDoes ==
    ASSUME Typed, NEW f \in Flows, Invoke(f)
    PROVE  /\ Only(f) /\ SameCounts(f) /\ SameResult(f) /\ SamePlan(f) /\ flow[f].pc = "step"
           /\ \/ flow'[f].pc = "stopped" /\ UNCHANGED queue
              \/ /\ flow'[f].pc = "waiting" /\ Len(queue) < MaxQueue
                 /\ queue' = Append(queue, Task(f, flow[f].idx + 1))
           /\ UNCHANGED <<token, other, phase, page, cache, effects>>
  <1>1. /\ flow[f] \in FlowRecords /\ flow[f].pc = "step"
        /\ UNCHANGED <<token, other, phase, page, cache, effects>>
    BY DEF Typed, FlowTyped, Invoke
  <1>2. CASE /\ UNCHANGED queue
             /\ flow' = [flow EXCEPT ![f].pc = "stopped", ![f].reason = "timeout"]
    <2>1. [flow[f] EXCEPT !.pc = "stopped", !.reason = "timeout"] \in FlowRecords
      BY <1>1 DEF Stages, Active, Reasons, FlowRecords
    <2>2. Only(f)
      BY <1>1, <1>2, <2>1 DEF Typed, FlowTyped, Only
    <2> QED
      BY <1>1, <1>2, <2>2 DEF Typed, FlowTyped, SameCounts, SameResult, SamePlan,
         FlowRecords
  <1>3. CASE /\ UNCHANGED queue
             /\ flow' = [flow EXCEPT ![f].pc = "stopped", ![f].reason = "error"]
    <2>1. [flow[f] EXCEPT !.pc = "stopped", !.reason = "error"] \in FlowRecords
      BY <1>1 DEF Stages, Active, Reasons, FlowRecords
    <2>2. Only(f)
      BY <1>1, <1>3, <2>1 DEF Typed, FlowTyped, Only
    <2> QED
      BY <1>1, <1>3, <2>2 DEF Typed, FlowTyped, SameCounts, SameResult, SamePlan,
         FlowRecords
  <1>4. CASE /\ Len(queue) < MaxQueue
             /\ queue' = Append(queue, Task(f, flow[f].idx + 1))
             /\ flow' = [flow EXCEPT ![f].pc = "waiting"]
    <2>1. [flow[f] EXCEPT !.pc = "waiting"] \in FlowRecords
      BY <1>1 DEF Stages, Active, Reasons, FlowRecords
    <2>2. Only(f)
      BY <1>1, <1>4, <2>1 DEF Typed, FlowTyped, Only
    <2> QED
      BY <1>1, <1>4, <2>2 DEF Typed, FlowTyped, SameCounts, SameResult, SamePlan,
         FlowRecords
  <1> QED
    BY <1>1, <1>2, <1>3, <1>4 DEF Invoke

(* The deadline takes a waiting workflow out of the race and aborts its task;
   elsewhere it is only noted (withDeadline). *)
LEMMA DeadlineDoes ==
    ASSUME Typed, NEW f \in Flows, Deadline(f)
    PROVE  /\ Only(f) /\ SameCounts(f) /\ SameResult(f) /\ SamePlan(f) /\ flow'[f].late
           /\ \/ flow[f].pc = "waiting" /\ flow'[f].pc = "stopped" /\ queue' = AbortTask(f)
              \/ /\ flow[f].pc \in {"initial", "step", "after"} /\ flow'[f].pc = flow[f].pc
                 /\ UNCHANGED queue
           /\ UNCHANGED <<token, other, phase, page, cache, effects>>
  <1>1. /\ flow[f] \in FlowRecords /\ flow[f].pc \in {"initial", "step", "waiting", "after"}
        /\ UNCHANGED <<token, other, phase, page, cache, effects>>
    BY DEF Typed, FlowTyped, Deadline
  <1>2. CASE /\ flow[f].pc = "waiting"
             /\ queue' = AbortTask(f)
             /\ flow' = [flow EXCEPT ![f].late = TRUE, ![f].pc = "stopped", ![f].reason = "timeout"]
    <2>1. [flow[f] EXCEPT !.late = TRUE, !.pc = "stopped", !.reason = "timeout"] \in FlowRecords
      BY <1>1 DEF Stages, Active, Reasons, FlowRecords
    <2>2. Only(f)
      BY <1>1, <1>2, <2>1 DEF Typed, FlowTyped, Only
    <2> QED
      BY <1>1, <1>2, <2>2 DEF Typed, FlowTyped, SameCounts, SameResult, SamePlan,
         FlowRecords
  <1>3. CASE /\ flow[f].pc # "waiting"
             /\ UNCHANGED queue
             /\ flow' = [flow EXCEPT ![f].late = TRUE]
    <2>1. [flow[f] EXCEPT !.late = TRUE] \in FlowRecords
      BY <1>1 DEF Stages, Active, Reasons, FlowRecords
    <2>2. Only(f)
      BY <1>1, <1>3, <2>1 DEF Typed, FlowTyped, Only
    <2> QED
      BY <1>1, <1>3, <2>2 DEF Typed, FlowTyped, SameCounts, SameResult, SamePlan,
         FlowRecords
  <1> QED
    BY <1>1, <1>2, <1>3 DEF Deadline

(* The last observation ends the workflow; "ok" needs every step (runUncached). *)
LEMMA FinishDoes ==
    ASSUME Typed, NEW f \in Flows, Finish(f)
    PROVE  /\ Only(f) /\ SameCounts(f) /\ SamePlan(f) /\ flow[f].pc = "stopped" /\ flow'[f].pc = "done"
           /\ flow'[f].late = flow[f].late
           /\ flow'[f].result = "ok" => flow[f].ok = NumSteps
           /\ token' = IF token = f THEN None ELSE token
           /\ UNCHANGED <<other, queue, phase, page, cache, effects>>
  <1>1. /\ flow[f] \in FlowRecords /\ flow[f].pc = "stopped"
        /\ UNCHANGED <<other, queue, phase, page, cache, effects>>
    BY DEF Typed, FlowTyped, Finish
  <1>2. CASE /\ flow[f].ok = NumSteps
             /\ token' = IF token = f THEN None ELSE token
             /\ flow' = [flow EXCEPT ![f].pc = "done", ![f].result = "ok"]
    <2>1. [flow[f] EXCEPT !.pc = "done", !.result = "ok"] \in FlowRecords
      BY <1>1 DEF Stages, Active, Reasons, FlowRecords, Results
    <2>2. Only(f)
      BY <1>1, <1>2, <2>1 DEF Typed, FlowTyped, Only
    <2> QED
      BY <1>1, <1>2, <2>2 DEF Typed, FlowTyped, SameCounts, SameResult, SamePlan,
         FlowRecords
  <1>3. CASE /\ token' = IF token = f THEN None ELSE token
             /\ flow' = [flow EXCEPT ![f].pc = "done", ![f].result = "stopped"]
    <2>1. [flow[f] EXCEPT !.pc = "done", !.result = "stopped"] \in FlowRecords
      BY <1>1 DEF Stages, Active, Reasons, FlowRecords, Results
    <2>2. Only(f)
      BY <1>1, <1>3, <2>1 DEF Typed, FlowTyped, Only
    <2> QED
      BY <1>1, <1>3, <2>2 DEF Typed, FlowTyped, SameCounts, SameResult, SamePlan,
         FlowRecords
  <1> QED
    BY <1>1, <1>2, <1>3 DEF Finish

(* A fulfilled step is counted once, and the loop ends after the last one. *)
LEMMA AfterDoes ==
    ASSUME Typed, Room, NEW f \in Flows, After(f)
    PROVE  /\ Only(f) /\ SameResult(f) /\ SamePlan(f) /\ flow[f].pc = "after"
           /\ flow'[f].ok = flow[f].ok + 1 /\ flow'[f].idx = flow[f].idx + 1
           /\ flow'[f].pc \in {"stopped", "step"}
           /\ flow'[f].pc = "step" => flow[f].idx + 1 # NumSteps
           /\ UNCHANGED <<token, other, queue, phase, page, cache, effects>>
  <1>1. /\ UNCHANGED <<token, other, queue, phase, page, cache, effects>>
        /\ flow[f] \in FlowRecords /\ flow[f].pc = "after" /\ flow[f].idx = flow[f].ok /\ flow[f].ok < NumSteps
    BY DEF Typed, FlowTyped, After, Room
  <1>2. Status \in Reports
    BY DEF Typed, PageTyped, Pages, Status, Reports
  <1>3. flow[f].ok + 1 \in 0..NumSteps
    BY <1>1, WorkflowConstants DEF FlowRecords
  <1>4. PICK b \in Reports, p \in {"stopped", "step"}, q \in Reasons :
           /\ flow' = [flow EXCEPT ![f].ok = flow[f].ok + 1, ![f].idx = flow[f].idx + 1,
                                   ![f].base = b, ![f].reason = q, ![f].pc = p]
           /\ p = "step" => flow[f].idx + 1 # NumSteps
    <2>1. flow[f].reason \in Reasons /\ flow[f].base \in Reports
      BY <1>1 DEF FlowRecords
    <2>2. StopReason(f) \in {"none"} \cup Reasons
      BY DEF StopReason, Reasons
    <2>3. flow' = [flow EXCEPT ![f].ok = flow[f].ok + 1, ![f].idx = flow[f].idx + 1,
                      ![f].base = IF flow[f].late THEN flow[f].base ELSE Status,
                      ![f].reason = IF StopReason(f) # "none" THEN StopReason(f) ELSE flow[f].reason,
                      ![f].pc = IF StopReason(f) # "none" \/ flow[f].idx + 1 = NumSteps
                                THEN "stopped" ELSE "step"]
      BY DEF After, Typed, FlowTyped
    <2> QED
      BY <1>2, <2>1, <2>2, <2>3
  <1>5. [flow[f] EXCEPT !.ok = flow[f].ok + 1, !.idx = flow[f].idx + 1, !.base = b, !.reason = q, !.pc = p]
           \in FlowRecords
    BY <1>1, <1>3 DEF Stages, Active, FlowRecords
  <1>6. Only(f)
    BY <1>1, <1>4, <1>5 DEF Typed, FlowTyped, Only
  <1> QED
    BY <1>1, <1>4, <1>6 DEF Typed, FlowTyped, SameCounts, SameResult, SamePlan, FlowRecords

(* A task that ends leaves the queue, and reaches only the workflow that still
   waits for it: an aborted step's answer changes nothing. *)
LEMMA SettleDoes ==
    ASSUME Typed, queue # << >>, NEW why \in {"none"} \cup Reasons, Settle(why)
    PROVE  /\ FlowTyped' /\ queue' = Tail(queue) /\ phase' = "waiting"
           /\ other' = IF queue[1].who \in Others THEN [other EXCEPT ![queue[1].who] = "done"] ELSE other
           /\ \A f \in Flows : f # queue[1].who \/ flow[f].pc # "waiting" => flow'[f] = flow[f]
           /\ \A f \in Flows : f = queue[1].who /\ flow[f].pc = "waiting" =>
                 /\ SameCounts(f) /\ SameResult(f) /\ SamePlan(f)
                 /\ flow'[f].pc = IF why = "none" THEN "after" ELSE "stopped"
  <1> DEFINE w == queue[1].who
  <1>1. Head(queue) = queue[1] /\ queue' = Tail(queue) /\ phase' = "waiting"
    BY DEF Settle, Typed, QueueTyped
  <1>2. other' = IF w \in Others THEN [other EXCEPT ![w] = "done"] ELSE other
    BY <1>1 DEF Settle
  <1>3. CASE w \in Flows /\ flow[w].pc = "waiting"
    <2>1. PICK p \in {"after", "stopped"}, q \in Reasons :
             /\ flow' = [flow EXCEPT ![w].pc = p, ![w].reason = q]
             /\ p = IF why = "none" THEN "after" ELSE "stopped"
      <3>1. flow[w].reason \in Reasons
        BY <1>3 DEF Typed, FlowTyped, FlowRecords
      <3>2. flow' = [flow EXCEPT ![w].pc = IF why = "none" THEN "after" ELSE "stopped",
                                 ![w].reason = IF why = "none" THEN flow[w].reason ELSE why]
        BY <1>1, <1>3 DEF Settle, Typed, FlowTyped
      <3> QED
        BY <3>1, <3>2
    <2>2. flow[w] \in FlowRecords
      BY <1>3 DEF Typed, FlowTyped
    <2>3. [flow[w] EXCEPT !.pc = p, !.reason = q] \in FlowRecords
      BY <2>2 DEF Stages, Active, FlowRecords
    <2>4. FlowTyped'
      BY <1>3, <2>1, <2>3 DEF Typed, FlowTyped
    <2> QED
      BY <1>1, <1>2, <1>3, <2>1, <2>2, <2>4 DEF Typed, FlowTyped, SameCounts, SameResult,
         SamePlan, FlowRecords
  <1>4. CASE ~(w \in Flows /\ flow[w].pc = "waiting")
    <2>1. flow' = flow
      BY <1>1, <1>4 DEF Settle
    <2> QED
      BY <1>1, <1>2, <1>4, <2>1 DEF Typed, FlowTyped
  <1> QED
    BY <1>3, <1>4
(* What the type of a flow gives. *)
LEMMA FlowFacts ==
    ASSUME Typed
    PROVE  \A f \in Flows : /\ flow[f] \in FlowRecords /\ flow[f].pc \in Stages
                            /\ flow[f].ok \in 0..NumSteps /\ flow[f].idx \in 0..NumSteps
                            /\ flow[f].revision \in Nat
  BY DEF Typed, FlowTyped, FlowRecords

(* What the type of the queue gives, its head in particular. *)
LEMMA QueueFacts ==
    ASSUME Typed
    PROVE  /\ Len(queue) \in Nat
           /\ \A k \in 1..Len(queue) : queue[k] \in Tasks /\ queue[k].who \in Flows \cup Others
                                       /\ queue[k].step \in 0..NumSteps /\ queue[k].aborted \in BOOLEAN
                                       /\ queue[k].made \in Nat
           /\ queue # << >> => 1 \in 1..Len(queue) /\ Head(queue) = queue[1]
           /\ phase # "waiting" => queue # << >>
  <1>1. \A k \in 1..Len(queue) : queue[k] \in Tasks
    BY ElementOfSeq DEF Typed, QueueTyped
  <1>2. queue # << >> => 1 \in 1..Len(queue)
    BY EmptySeq, LenProperties DEF Typed, QueueTyped
  <1> QED
    BY <1>1, <1>2, LenProperties DEF Typed, QueueTyped, Tasks

\* The task at the head of the queue ends, passes a check, or writes to the page.
TaskEnds == /\ queue # << >> /\ UNCHANGED <<token, cache, page, effects>>
            /\ \E why \in {"none"} \cup Reasons :
                  /\ Settle(why)
                  /\ why = "none" => ~queue[1].aborted /\ queue[1].made = Len(Plan(queue[1]))
TaskMoves == /\ queue # << >> /\ UNCHANGED <<token, cache, page, effects, queue, other, flow>>
             /\ \/ phase = "waiting" /\ phase' = "scan"
                \/ /\ phase = "scan" /\ phase' = "operation"
                   /\ FirstWrite(queue[1]) => flow[queue[1].who].revision = page.revision
TaskWrites == /\ queue # << >> /\ UNCHANGED <<token, cache, other, flow, phase>>
              /\ phase = "operation" /\ PageTyped'
              /\ queue[1].made < Len(Plan(queue[1]))
              /\ queue[1].aborted => Plan(queue[1])[queue[1].made + 1] = "blind"
              /\ queue' = [queue EXCEPT ![1].made = @ + 1]
              /\ effects' = [effects EXCEPT ![queue[1].who][queue[1].step] = @ + 1]

(* Each step of the queue ends its first task, moves it past a check, or lets it
   write to the page (enqueue). *)
LEMMA TaskStep ==
    ASSUME Typed, StartTask \/ Scanned \/ Write \/ Throw \/ EndTask
    PROVE  TaskEnds \/ TaskMoves \/ TaskWrites
  <1>1. queue # << >> => Head(queue) = queue[1]
    BY DEF Typed, QueueTyped
  <1>2. CASE StartTask
    BY <1>1, <1>2 DEF StartTask, TaskEnds, TaskMoves, Reasons
  <1>3. CASE Scanned
    BY <1>1, <1>3 DEF Scanned, TaskEnds, TaskMoves, Reasons
  <1>4. CASE Write
    <2>1. PICK r \in page.revision .. page.revision + 1 : page' = [page EXCEPT !.revision = r]
      BY <1>4 DEF Write
    <2>2. PageTyped'
      BY <2>1 DEF Typed, PageTyped, Pages
    <2> QED
      BY <1>1, <1>4, <2>2 DEF Write, TaskWrites
  <1>5. CASE Throw
    BY <1>1, <1>5 DEF Throw, TaskEnds, Reasons
  <1>6. CASE EndTask
    BY <1>1, <1>6 DEF EndTask, TaskEnds, Reasons
  <1> QED
    BY <1>2, <1>3, <1>4, <1>5, <1>6

(* An abort changes a mark, not the queue. *)
LEMMA AbortKeeps ==
    ASSUME Typed, NEW f \in Flows
    PROVE  /\ AbortTask(f) \in Seq(Tasks) /\ Len(AbortTask(f)) = Len(queue)
           /\ \A k \in 1..Len(queue) :
                 /\ AbortTask(f)[k].who = queue[k].who /\ AbortTask(f)[k].step = queue[k].step
                 /\ AbortTask(f)[k].made = queue[k].made
                 /\ AbortTask(f)[k].aborted <=> queue[k].who = f \/ queue[k].aborted
  <1>1. queue \in [1..Len(queue) -> Tasks] /\ Len(queue) \in Nat /\ DOMAIN queue = 1..Len(queue)
    BY LenProperties DEF Typed, QueueTyped
  <1>2. ASSUME NEW t \in Tasks
        PROVE  /\ [t EXCEPT !.aborted = TRUE] \in Tasks
               /\ [t EXCEPT !.aborted = TRUE].who = t.who /\ [t EXCEPT !.aborted = TRUE].step = t.step
               /\ [t EXCEPT !.aborted = TRUE].made = t.made /\ [t EXCEPT !.aborted = TRUE].aborted
    BY DEF Tasks
  <1>3. AbortTask(f) \in [1..Len(queue) -> Tasks]
    BY <1>1, <1>2 DEF AbortTask
  <1>4. AbortTask(f) \in Seq(Tasks) /\ Len(AbortTask(f)) = Len(queue)
    BY <1>1, <1>3
  <1>5. ASSUME NEW k \in 1..Len(queue)
        PROVE  /\ queue[k].who = f => AbortTask(f)[k] = [queue[k] EXCEPT !.aborted = TRUE]
               /\ queue[k].who # f => AbortTask(f)[k] = queue[k]
    BY <1>1 DEF AbortTask
  <1>6. ASSUME NEW k \in 1..Len(queue)
        PROVE  /\ AbortTask(f)[k].who = queue[k].who /\ AbortTask(f)[k].step = queue[k].step
               /\ AbortTask(f)[k].made = queue[k].made
               /\ AbortTask(f)[k].aborted <=> queue[k].who = f \/ queue[k].aborted
    <2>1. queue[k] \in Tasks
      BY <1>1
    <2> QED
      BY <2>1, <1>2, <1>5
  <1> QED
    BY <1>4, <1>6

(* A write is noted in its task, and in the effects of its step; nothing else moves. *)
LEMMA WriteFacts ==
    ASSUME Typed, TaskWrites
    PROVE  /\ queue' \in Seq(Tasks) /\ Len(queue') = Len(queue) /\ 1 \in 1..Len(queue)
           /\ queue'[1] = [queue[1] EXCEPT !.made = queue[1].made + 1]
           /\ \A k \in 1..Len(queue) : k # 1 => queue'[k] = queue[k]
           /\ EffectsTyped'
           /\ effects'[queue[1].who] = [effects[queue[1].who] EXCEPT ![queue[1].step] = @ + 1]
           /\ \A w \in (Flows \cup Others) \ {queue[1].who} : effects'[w] = effects[w]
  <1>1. /\ queue \in [1..Len(queue) -> Tasks] /\ Len(queue) \in Nat /\ DOMAIN queue = 1..Len(queue)
        /\ 1 \in 1..Len(queue) /\ queue[1] \in Tasks
    <2>1. queue # << >> /\ queue \in Seq(Tasks)
      BY DEF Typed, QueueTyped, TaskWrites
    <2>2. 1 \in 1..Len(queue) /\ queue[1] \in Tasks
      BY <2>1, QueueFacts
    <2>3. queue \in [1..Len(queue) -> Tasks] /\ Len(queue) \in Nat
      BY <2>1, LenProperties
    <2>4. DOMAIN queue = 1..Len(queue)
      BY <2>3
    <2> QED
      BY <2>2, <2>3, <2>4
  <1>2. [queue[1] EXCEPT !.made = queue[1].made + 1] \in Tasks
    <2>1. queue[1] \in Tasks
      BY <1>1
    <2> QED
      BY <2>1 DEF Tasks
  <1>3. queue' = [queue EXCEPT ![1] = [queue[1] EXCEPT !.made = queue[1].made + 1]]
    BY <1>1 DEF TaskWrites
  <1>4. /\ queue' \in [1..Len(queue) -> Tasks]
        /\ queue'[1] = [queue[1] EXCEPT !.made = queue[1].made + 1]
        /\ \A k \in 1..Len(queue) : k # 1 => queue'[k] = queue[k]
    BY <1>1, <1>2, <1>3
  <1>5. queue' \in Seq(Tasks) /\ Len(queue') = Len(queue)
    BY <1>1, <1>4
  <1>6. /\ queue[1].who \in Flows \cup Others /\ queue[1].step \in 0..NumSteps
        /\ effects' = [effects EXCEPT ![queue[1].who][queue[1].step] = @ + 1]
    BY <1>1 DEF TaskWrites, Tasks
  <1> DEFINE w == queue[1].who
             e == [effects[w] EXCEPT ![queue[1].step] = @ + 1]
  <1>7. effects \in [Flows \cup Others -> [0..NumSteps -> Nat]] /\ effects[w] \in [0..NumSteps -> Nat]
    BY <1>6 DEF Typed, EffectsTyped
  <1>8. effects' = [effects EXCEPT ![w] = e]
    BY <1>6, <1>7
  <1>9. e \in [0..NumSteps -> Nat]
    <2> DEFINE n == effects[w][queue[1].step]
    <2>1. n \in Nat
      BY <1>6, <1>7
    <2>2. n + 1 \in Nat /\ e = [effects[w] EXCEPT ![queue[1].step] = n + 1]
      BY <2>1
    <2> QED
      BY <1>7, <2>2
  <1> HIDE DEF e
  <1>10. EffectsTyped' /\ effects'[w] = e /\ \A v \in (Flows \cup Others) \ {w} : effects'[v] = effects[v]
    BY <1>6, <1>7, <1>8, <1>9 DEF EffectsTyped
  <1> QED
    BY <1>1, <1>4, <1>5, <1>10 DEF e

(* What is left of the queue when its first task ends. *)
LEMMA TailFacts ==
    ASSUME Typed, queue # << >>
    PROVE  /\ Tail(queue) \in Seq(Tasks) /\ Len(Tail(queue)) = Len(queue) - 1
           /\ Len(queue) \in Nat \ {0} /\ queue[1] \in Tasks
           /\ \A k \in 1..Len(Tail(queue)) : Tail(queue)[k] = queue[k + 1] /\ k + 1 \in 2..Len(queue)
  BY HeadTailProperties, EmptySeq, ElementOfSeq DEF Typed, QueueTyped

(* What the queue holds when a task joins it. *)
LEMMA AppendFacts ==
    ASSUME Typed, NEW t \in Tasks
    PROVE  /\ Append(queue, t) \in Seq(Tasks) /\ Len(Append(queue, t)) = Len(queue) + 1
           /\ Len(queue) \in Nat /\ Append(queue, t) # << >>
           /\ \A k \in 1..Len(queue) : Append(queue, t)[k] = queue[k] /\ queue[k] \in Tasks
           /\ Append(queue, t)[Len(queue) + 1] = t
  BY AppendProperties, LenProperties, ElementOfSeq DEF Typed, QueueTyped

----------------------------------------------------------------------------
(* The state keeps its shape *)

(* Flows keep their shape. *)
LEMMA FlowStep ==
    ASSUME Typed, Room, Next
    PROVE  FlowTyped'
  <1> USE WorkflowConstants DEF Only, Typed, FlowTyped
  <1>1. ASSUME NEW f \in Flows, Submit(f) PROVE FlowTyped'
    BY <1>1, SubmitDoes, FlowFacts
  <1>2. ASSUME NEW f \in Flows, ReadInitial(f) PROVE FlowTyped'
    BY <1>2, ReadInitialDoes, FlowFacts
  <1>3. ASSUME NEW f \in Flows, Invoke(f) PROVE FlowTyped'
    BY <1>3, InvokeDoes, FlowFacts
  <1>4. ASSUME NEW f \in Flows, Deadline(f) PROVE FlowTyped'
    BY <1>4, DeadlineDoes, FlowFacts
  <1>5. ASSUME NEW f \in Flows, After(f) PROVE FlowTyped'
    BY <1>5, AfterDoes, FlowFacts
  <1>6. ASSUME NEW f \in Flows, Finish(f) PROVE FlowTyped'
    BY <1>6, FinishDoes, FlowFacts
  <1>7. CASE StartTask \/ Scanned \/ Write \/ Throw \/ EndTask
    <2>1. CASE TaskEnds
      BY <2>1, SettleDoes DEF TaskEnds
    <2>2. CASE TaskMoves
      BY <2>2 DEF TaskMoves
    <2>3. CASE TaskWrites
      BY <2>3 DEF TaskWrites
    <2> QED
      BY <1>7, <2>1, <2>2, <2>3, TaskStep
  <1>8. CASE \/ \E a \in ActionIds : Evict(a)
             \/ \E x \in Others : Enqueue(x)
             \/ \E kind \in {"popup", "dialog"} : Interrupt(kind)
             \/ ChallengeAppears
    BY <1>8 DEF Evict, Enqueue, Interrupt, ChallengeAppears
  <1> QED
    BY <1>1, <1>2, <1>3, <1>4, <1>5, <1>6, <1>7, <1>8 DEF Next

(* The queue keeps its bound, and something is running only when it is not empty. *)
LEMMA QueueStep ==
    ASSUME Typed, Room, Next
    PROVE  QueueTyped'
  <1> USE WorkflowConstants DEF Typed, FlowTyped, PageTyped, CacheTyped, QueueTyped
  <1>1. ASSUME NEW f \in Flows, Invoke(f) PROVE QueueTyped'
    <2>1. flow[f].idx + 1 \in 0..NumSteps /\ Task(f, flow[f].idx + 1) \in Tasks
      <3>1. flow[f].pc = "step" /\ flow[f] \in FlowRecords
        BY <1>1, InvokeDoes
      <3>2. flow[f].idx = flow[f].ok /\ flow[f].ok < NumSteps
        BY <3>1 DEF Room
      <3> QED
        BY <3>1, <3>2 DEF FlowRecords, Task, Tasks
    <2>2. CASE queue' = Append(queue, Task(f, flow[f].idx + 1)) /\ Len(queue) < MaxQueue
      BY <1>1, <2>1, <2>2, AppendFacts DEF Invoke
    <2>3. CASE UNCHANGED queue
      BY <1>1, <2>3 DEF Invoke
    <2> QED
      BY <1>1, InvokeDoes, <2>2, <2>3
  <1>2. ASSUME NEW f \in Flows, Deadline(f) PROVE QueueTyped'
    <2>1. CASE queue' = AbortTask(f)
      <3>1. Len(queue) \in Nat /\ (queue # << >> => Len(queue) # 0)
        BY EmptySeq, LenProperties
      <3>2. queue' # << >> \/ queue = << >>
        BY <2>1, <3>1, AbortKeeps, EmptySeq
      <3> QED
        BY <1>2, <2>1, <3>2, AbortKeeps DEF Deadline
    <2>2. CASE UNCHANGED queue
      BY <1>2, <2>2 DEF Deadline
    <2> QED
      BY <1>2, <2>1, <2>2, DeadlineDoes
  <1>3. ASSUME NEW x \in Others, Enqueue(x) PROVE QueueTyped'
    <2>1. Task(x, 0) \in Tasks
      BY DEF Task, Tasks
    <2> QED
      BY <1>3, <2>1, AppendFacts, SMTT(30) DEF Enqueue
  <1>4. CASE StartTask \/ Scanned \/ Write \/ Throw \/ EndTask
    <2>1. CASE TaskEnds
      <3>1. queue # << >> /\ queue' = Tail(queue) /\ phase' = "waiting"
        BY <2>1, SettleDoes DEF TaskEnds
      <3>2. Tail(queue) \in Seq(Tasks) /\ Len(Tail(queue)) = Len(queue) - 1 /\ Len(queue) \in Nat
        BY <3>1, TailFacts
      <3> QED
        BY <3>1, <3>2
    <2>2. CASE TaskMoves
      BY <2>2 DEF TaskMoves
    <2>3. CASE TaskWrites
      <3>1. /\ queue' \in Seq(Tasks) /\ Len(queue') = Len(queue) /\ 1 \in 1..Len(queue)
            /\ UNCHANGED phase
        BY <2>3, WriteFacts DEF TaskWrites
      <3>2. queue' # << >>
        BY <3>1, EmptySeq
      <3> QED
        BY <3>1, <3>2
    <2> QED
      BY <1>4, <2>1, <2>2, <2>3, TaskStep
  <1>5. CASE \/ \E f \in Flows : Submit(f)
             \/ \E f \in Flows : ReadInitial(f)
             \/ \E f \in Flows : After(f)
             \/ \E f \in Flows : Finish(f)
             \/ \E a \in ActionIds : Evict(a)
             \/ \E kind \in {"popup", "dialog"} : Interrupt(kind)
             \/ ChallengeAppears
    BY <1>5 DEF Submit, ReadInitial, After, Finish, Evict, Interrupt, ChallengeAppears
  <1> QED
    BY <1>1, <1>2, <1>3, <1>4, <1>5 DEF Next

(* The page keeps its shape. *)
LEMMA PageStep ==
    ASSUME Typed, Next
    PROVE  PageTyped'
  <1> USE WorkflowConstants DEF Typed, FlowTyped, PageTyped, CacheTyped, QueueTyped
  <1>1. CASE StartTask \/ Scanned \/ Write \/ Throw \/ EndTask
    <2>1. CASE TaskEnds
      BY <2>1 DEF TaskEnds
    <2>2. CASE TaskMoves
      BY <2>2 DEF TaskMoves
    <2>3. CASE TaskWrites
      BY <2>3 DEF TaskWrites
    <2> QED
      BY <1>1, <2>1, <2>2, <2>3, TaskStep
  <1>2. ASSUME NEW kind \in {"popup", "dialog"}, Interrupt(kind) PROVE PageTyped'
    <2>1. page.popups + 1 \in Nat /\ page.popups \in Nat /\ page.seq + 1 \in Nat
      BY DEF Pages
    <2>2. ASSUME NEW n \in Nat
          PROVE  [page EXCEPT !.seq = page.seq + 1, !.last = kind, !.popups = n] \in Pages
      BY <2>1 DEF Pages
    <2>3. page' = [page EXCEPT !.seq = page.seq + 1, !.last = kind,
                               !.popups = IF kind = "popup" THEN page.popups + 1 ELSE page.popups]
      BY <1>2 DEF Interrupt
    <2> QED
      BY <2>1, <2>2, <2>3
  <1>3. CASE ChallengeAppears
    BY <1>3 DEF ChallengeAppears, Pages
  <1>4. CASE \/ \E f \in Flows : Submit(f)
             \/ \E f \in Flows : ReadInitial(f)
             \/ \E f \in Flows : Invoke(f)
             \/ \E f \in Flows : Deadline(f)
             \/ \E f \in Flows : After(f)
             \/ \E f \in Flows : Finish(f)
             \/ \E a \in ActionIds : Evict(a)
             \/ \E x \in Others : Enqueue(x)
    BY <1>4 DEF Submit, ReadInitial, Invoke, Deadline, After, Finish, Evict, Enqueue
  <1> QED
    BY <1>1, <1>2, <1>3, <1>4 DEF Next

(* The effects keep their shape. *)
LEMMA EffectsStep ==
    ASSUME Typed, Next
    PROVE  EffectsTyped'
  <1>1. CASE StartTask \/ Scanned \/ Write \/ Throw \/ EndTask
    <2>1. CASE TaskEnds \/ TaskMoves
      BY <2>1 DEF TaskEnds, TaskMoves, Typed, EffectsTyped
    <2>2. CASE TaskWrites
      BY <2>2, WriteFacts
    <2> QED
      BY <1>1, <2>1, <2>2, TaskStep
  <1>2. CASE \/ \E f \in Flows : Submit(f)
             \/ \E f \in Flows : ReadInitial(f)
             \/ \E f \in Flows : Invoke(f)
             \/ \E f \in Flows : Deadline(f)
             \/ \E f \in Flows : After(f)
             \/ \E f \in Flows : Finish(f)
             \/ \E a \in ActionIds : Evict(a)
             \/ \E x \in Others : Enqueue(x)
             \/ \E kind \in {"popup", "dialog"} : Interrupt(kind)
             \/ ChallengeAppears
    BY <1>2 DEF Typed, EffectsTyped, Submit, ReadInitial, Invoke, Deadline, After, Finish,
       Evict, Enqueue, Interrupt, ChallengeAppears
  <1> QED
    BY <1>1, <1>2 DEF Next

(* The cache, the reservation and the other requests keep their shape. *)
LEMMA CacheStep ==
    ASSUME Typed, Next
    PROVE  CacheTyped'
  <1> USE WorkflowConstants DEF Typed, FlowTyped, PageTyped, CacheTyped, QueueTyped
  <1>1. ASSUME NEW f \in Flows, Submit(f) PROVE CacheTyped'
    <2>1. Remember(f) => cache' \in [ActionIds -> Flows \cup {None, "expired"}]
      BY DEF Remember, ActionIds
    <2> QED
      BY <1>1, <2>1, SubmitDoes DEF Submit
  <1>2. ASSUME NEW f \in Flows, Finish(f) PROVE CacheTyped'
    BY <1>2, FinishDoes, FlowFacts
  <1>3. ASSUME NEW a \in ActionIds, Evict(a) PROVE CacheTyped'
    BY <1>3 DEF Evict
  <1>4. ASSUME NEW x \in Others, Enqueue(x) PROVE CacheTyped'
    BY <1>4 DEF Enqueue
  <1>5. CASE StartTask \/ Scanned \/ Write \/ Throw \/ EndTask
    <2>1. CASE TaskEnds
      BY <2>1, SettleDoes DEF TaskEnds
    <2>2. CASE TaskMoves
      BY <2>2 DEF TaskMoves
    <2>3. CASE TaskWrites
      BY <2>3 DEF TaskWrites
    <2> QED
      BY <1>5, <2>1, <2>2, <2>3, TaskStep
  <1>6. CASE \/ \E f \in Flows : ReadInitial(f)
             \/ \E f \in Flows : Invoke(f)
             \/ \E f \in Flows : Deadline(f)
             \/ \E f \in Flows : After(f)
             \/ \E kind \in {"popup", "dialog"} : Interrupt(kind)
             \/ ChallengeAppears
    BY <1>6 DEF ReadInitial, Invoke, Deadline, After, Interrupt, ChallengeAppears
  <1> QED
    BY <1>1, <1>2, <1>3, <1>4, <1>5, <1>6 DEF Next
----------------------------------------------------------------------------
(* Executors, reservation and cache *)

(* A workflow goes on only while a step is left, and reports "ok" after the last. *)
LEMMA RoomStep ==
    ASSUME Typed, Room, Next
    PROVE  Room'
  <1> USE WorkflowConstants DEF Room, Only, SameCounts, SameResult, SamePlan
  <1>1. ASSUME NEW f \in Flows, Submit(f) PROVE Room'
    BY <1>1, SubmitDoes, FlowFacts
  <1>2. ASSUME NEW f \in Flows, ReadInitial(f) PROVE Room'
    BY <1>2, ReadInitialDoes, FlowFacts
  <1>3. ASSUME NEW f \in Flows, Invoke(f) PROVE Room'
    BY <1>3, InvokeDoes, FlowFacts
  <1>4. ASSUME NEW f \in Flows, Deadline(f) PROVE Room'
    BY <1>4, DeadlineDoes, FlowFacts
  <1>5. ASSUME NEW f \in Flows, After(f) PROVE Room'
    BY <1>5, AfterDoes, FlowFacts
  <1>6. ASSUME NEW f \in Flows, Finish(f) PROVE Room'
    BY <1>6, FinishDoes, FlowFacts
  <1>7. CASE StartTask \/ Scanned \/ Write \/ Throw \/ EndTask
    <2>1. CASE TaskEnds
      BY <2>1, SettleDoes, FlowFacts DEF TaskEnds
    <2>2. CASE TaskMoves
      BY <2>2 DEF TaskMoves
    <2>3. CASE TaskWrites
      BY <2>3 DEF TaskWrites
    <2> QED
      BY <1>7, <2>1, <2>2, <2>3, TaskStep
  <1>8. CASE \/ \E a \in ActionIds : Evict(a)
             \/ \E x \in Others : Enqueue(x)
             \/ \E kind \in {"popup", "dialog"} : Interrupt(kind)
             \/ ChallengeAppears
    BY <1>8 DEF Evict, Enqueue, Interrupt, ChallengeAppears
  <1> QED
    BY <1>1, <1>2, <1>3, <1>4, <1>5, <1>6, <1>7, <1>8 DEF Next

(* The reservation is taken at the start, and released by its own workflow only. *)
LEMMA OneStep ==
    ASSUME Typed, Room, OneActive, Next
    PROVE  OneActive'
  <1> USE WorkflowConstants DEF OneActive, Active, Only, SameCounts, SameResult, SamePlan
  <1>1. ASSUME NEW f \in Flows, Submit(f) PROVE OneActive'
    BY <1>1, SubmitDoes, FlowFacts
  <1>2. ASSUME NEW f \in Flows, ReadInitial(f) PROVE OneActive'
    BY <1>2, ReadInitialDoes, FlowFacts
  <1>3. ASSUME NEW f \in Flows, Invoke(f) PROVE OneActive'
    BY <1>3, InvokeDoes, FlowFacts
  <1>4. ASSUME NEW f \in Flows, Deadline(f) PROVE OneActive'
    BY <1>4, DeadlineDoes, FlowFacts
  <1>5. ASSUME NEW f \in Flows, After(f) PROVE OneActive'
    BY <1>5, AfterDoes, FlowFacts
  <1>6. ASSUME NEW f \in Flows, Finish(f) PROVE OneActive'
    BY <1>6, FinishDoes, FlowFacts
  <1>7. CASE StartTask \/ Scanned \/ Write \/ Throw \/ EndTask
    <2>1. CASE TaskEnds
      BY <2>1, SettleDoes, FlowFacts DEF TaskEnds
    <2>2. CASE TaskMoves
      BY <2>2 DEF TaskMoves
    <2>3. CASE TaskWrites
      BY <2>3 DEF TaskWrites
    <2> QED
      BY <1>7, <2>1, <2>2, <2>3, TaskStep
  <1>8. CASE \/ \E a \in ActionIds : Evict(a)
             \/ \E x \in Others : Enqueue(x)
             \/ \E kind \in {"popup", "dialog"} : Interrupt(kind)
             \/ ChallengeAppears
    BY <1>8 DEF Evict, Enqueue, Interrupt, ChallengeAppears
  <1> QED
    BY <1>1, <1>2, <1>3, <1>4, <1>5, <1>6, <1>7, <1>8 DEF Next

(* A submission leaves its actionId in the cache; an entry may expire, not vanish. *)
LEMMA RememberStep ==
    ASSUME Typed, Room, Remembered, Next
    PROVE  Remembered'
  <1> USE WorkflowConstants DEF Remembered, ActionIds, Only, SameCounts, SameResult, SamePlan
  <1>1. ASSUME NEW f \in Flows, Submit(f) PROVE Remembered'
    <2>1. Cached(f) # None => ActionOf[f] # None /\ cache[ActionOf[f]] \in Flows
      BY DEF Cached
    <2>2. ASSUME Remember(f), NEW g \in Flows, ActionOf[g] # None
          PROVE  cache'[ActionOf[g]] = IF ActionOf[g] = ActionOf[f] THEN f ELSE cache[ActionOf[g]]
      <3>1. cache \in [ActionIds -> Flows \cup {None, "expired"}] /\ ActionOf[g] \in ActionIds
        BY <2>2 DEF Typed, CacheTyped
      <3> QED
        BY <2>2, <3>1 DEF Remember
    <2> QED
      BY <1>1, <2>1, <2>2, SubmitDoes
  <1>2. ASSUME NEW f \in Flows, ReadInitial(f) PROVE Remembered'
    BY <1>2, ReadInitialDoes, FlowFacts
  <1>3. ASSUME NEW f \in Flows, Invoke(f) PROVE Remembered'
    BY <1>3, InvokeDoes, FlowFacts
  <1>4. ASSUME NEW f \in Flows, Deadline(f) PROVE Remembered'
    BY <1>4, DeadlineDoes, FlowFacts
  <1>5. ASSUME NEW f \in Flows, After(f) PROVE Remembered'
    BY <1>5, AfterDoes, FlowFacts
  <1>6. ASSUME NEW f \in Flows, Finish(f) PROVE Remembered'
    BY <1>6, FinishDoes, FlowFacts
  <1>7. ASSUME NEW a \in ActionIds, Evict(a) PROVE Remembered'
    BY <1>7 DEF Evict
  <1>8. CASE StartTask \/ Scanned \/ Write \/ Throw \/ EndTask
    <2>1. CASE TaskEnds
      BY <2>1, SettleDoes, FlowFacts DEF TaskEnds
    <2>2. CASE TaskMoves
      BY <2>2 DEF TaskMoves
    <2>3. CASE TaskWrites
      BY <2>3 DEF TaskWrites
    <2> QED
      BY <1>8, <2>1, <2>2, <2>3, TaskStep
  <1>9. CASE \/ \E x \in Others : Enqueue(x)
             \/ \E kind \in {"popup", "dialog"} : Interrupt(kind)
             \/ ChallengeAppears
    BY <1>9 DEF Enqueue, Interrupt, ChallengeAppears
  <1> QED
    BY <1>1, <1>2, <1>3, <1>4, <1>5, <1>6, <1>7, <1>8, <1>9 DEF Next

----------------------------------------------------------------------------
(* The queue and its owners *)

(* A workflow that does not wait, and has not stopped, has no task in the queue. *)
LEMMA NotQueued ==
    ASSUME Typed, QueueFits, NEW f \in Flows, flow[f].pc \notin {"waiting", "stopped", "done"}
    PROVE  \A k \in 1..Len(queue) : queue[k].who # f
  BY WorkflowConstants DEF QueueFits, Fits

\* The same for the flows and the requests of the next state.
FitsNext(t) ==
    \/ /\ t.who \in Flows /\ flow'[t.who].pc \in {"waiting", "stopped", "done"}
       /\ t.step = flow'[t.who].ok + 1
       /\ t.aborted <=> flow'[t.who].pc # "waiting"
       /\ t.aborted => flow'[t.who].late
       /\ t.made = effects'[t.who][t.step]
    \/ t.who \in Others /\ ~t.aborted /\ other'[t.who] = "queued"

(* A step of one flow leaves the tasks of everyone else as they were. *)
LEMMA OthersFit ==
    ASSUME Typed, QueueFits, NEW f \in Flows, Only(f), UNCHANGED <<other, effects>>
    PROVE  \A k \in 1..Len(queue) : queue[k].who # f => FitsNext(queue[k])
  BY WorkflowConstants, QueueFacts DEF QueueFits, Fits, FitsNext, Only

(* A queue that stays as it is fits when each of its tasks does. *)
LEMMA FitsAgain ==
    ASSUME UNCHANGED queue, QueueFits, \A k \in 1..Len(queue) : FitsNext(queue[k])
    PROVE  QueueFits'
  BY DEF QueueFits, Fits, FitsNext

(* A queue that grows fits when the newcomer does, and is the only one of its owner. *)
LEMMA FitsAppend ==
    ASSUME Typed, QueueFits, NEW t \in Tasks, queue' = Append(queue, t), FitsNext(t),
           \A k \in 1..Len(queue) : queue[k].who # t.who /\ FitsNext(queue[k])
    PROVE  QueueFits'
  <1> DEFINE n == Len(queue)
             q == Append(queue, t)
  <1>1. n \in Nat /\ Len(q) = n + 1 /\ q[n + 1] = t /\ \A k \in 1..n : q[k] = queue[k]
    BY AppendFacts
  <1>2. \A k \in 1..(n + 1) : k = n + 1 \/ k \in 1..n
    BY <1>1
  <1>3. \A k \in 1..Len(q) : FitsNext(q[k])
    BY <1>1, <1>2
  <1>4. \A k, l \in 1..Len(q) : q[k].who = q[l].who => k = l
    BY <1>1, <1>2 DEF QueueFits
  <1> QED
    BY <1>3, <1>4 DEF QueueFits, Fits, FitsNext

(* Tasks and their owners agree: the deadline aborts what it abandons, and what ends
   leaves the queue with its owner. *)
LEMMA FitsStep ==
    ASSUME Typed, Room, QueueFits, Counts, Next
    PROVE  QueueFits'
  <1>1. ASSUME NEW f \in Flows, Submit(f) PROVE QueueFits'
    <2>1. \A k \in 1..Len(queue) : queue[k].who # f
      BY <1>1, SubmitDoes, NotQueued
    <2> QED
      BY <1>1, <2>1, SubmitDoes, OthersFit, FitsAgain
  <1>2. ASSUME NEW f \in Flows, ReadInitial(f) PROVE QueueFits'
    <2>1. \A k \in 1..Len(queue) : queue[k].who # f
      BY <1>2, ReadInitialDoes, NotQueued
    <2> QED
      BY <1>2, <2>1, ReadInitialDoes, OthersFit, FitsAgain
  <1>3. ASSUME NEW f \in Flows, Invoke(f) PROVE QueueFits'
    <2>1. \A k \in 1..Len(queue) : queue[k].who # f
      BY <1>3, InvokeDoes, NotQueued
    <2>2. \A k \in 1..Len(queue) : FitsNext(queue[k])
      BY <1>3, <2>1, InvokeDoes, OthersFit
    <2>3. CASE UNCHANGED queue
      BY <2>2, <2>3, FitsAgain
    <2>4. CASE flow'[f].pc = "waiting" /\ queue' = Append(queue, Task(f, flow[f].idx + 1))
      <3>1. flow[f].idx = flow[f].ok /\ flow[f].ok + 1 \in 0..NumSteps
        BY <1>3, InvokeDoes, FlowFacts, WorkflowConstants DEF Room
      <3>2. Task(f, flow[f].idx + 1) \in Tasks /\ Task(f, flow[f].idx + 1).who = f
        BY <3>1 DEF Task, Tasks
      <3>3. effects[f][flow[f].ok + 1] = 0 /\ UNCHANGED effects
        <4>1. flow[f].ok + 1 \in 1..NumSteps /\ flow[f].pc = "step"
          BY <1>3, <3>1, InvokeDoes, FlowFacts
        <4> QED
          BY <1>3, <4>1, InvokeDoes DEF Counts
      <3>4. FitsNext(Task(f, flow[f].idx + 1))
        BY <1>3, <2>4, <3>1, <3>3, InvokeDoes DEF Task, FitsNext, SameCounts
      <3> QED
        BY <2>1, <2>2, <2>4, <3>2, <3>4, FitsAppend
    <2> QED
      BY <1>3, <2>3, <2>4, InvokeDoes
  <1>4. ASSUME NEW f \in Flows, Deadline(f) PROVE QueueFits'
    <2>1. CASE flow[f].pc = "waiting" /\ flow'[f].pc = "stopped" /\ queue' = AbortTask(f)
      <3>1. ASSUME NEW k \in 1..Len(queue) PROVE FitsNext(AbortTask(f)[k])
        <4>1. CASE queue[k].who = f
          BY <1>4, <2>1, <4>1, DeadlineDoes, AbortKeeps, WorkflowConstants
          DEF QueueFits, Fits, FitsNext, SameCounts
        <4>2. CASE queue[k].who # f
          <5>1. FitsNext(queue[k])
            BY <1>4, <4>2, DeadlineDoes, OthersFit
          <5> QED
            BY <4>2, <5>1, AbortKeeps DEF FitsNext
        <4> QED
          BY <4>1, <4>2
      <3> QED
        BY <2>1, <3>1, AbortKeeps DEF QueueFits, Fits, FitsNext
    <2>2. CASE flow[f].pc \in {"initial", "step", "after"} /\ UNCHANGED queue
      <3>1. \A k \in 1..Len(queue) : queue[k].who # f
        BY <2>2, NotQueued
      <3> QED
        BY <1>4, <2>2, <3>1, DeadlineDoes, OthersFit, FitsAgain
    <2> QED
      BY <1>4, <2>1, <2>2, DeadlineDoes
  <1>5. ASSUME NEW f \in Flows, After(f) PROVE QueueFits'
    <2>1. \A k \in 1..Len(queue) : queue[k].who # f
      BY <1>5, AfterDoes, NotQueued
    <2> QED
      BY <1>5, <2>1, AfterDoes, OthersFit, FitsAgain
  <1>6. ASSUME NEW f \in Flows, Finish(f) PROVE QueueFits'
    <2>1. \A k \in 1..Len(queue) : queue[k].who = f => FitsNext(queue[k])
      BY <1>6, FinishDoes DEF QueueFits, Fits, FitsNext, SameCounts
    <2> QED
      BY <1>6, <2>1, FinishDoes, OthersFit, FitsAgain
  <1>7. ASSUME NEW x \in Others, Enqueue(x) PROVE QueueFits'
    <2>1. /\ other[x] = "new" /\ UNCHANGED <<flow, effects>>
          /\ \A y \in Others \ {x} : other'[y] = other[y]
      BY <1>7 DEF Enqueue, Typed, CacheTyped
    <2>2. \A k \in 1..Len(queue) : queue[k].who # x
      BY <2>1, WorkflowConstants DEF QueueFits, Fits
    <2>3. \A k \in 1..Len(queue) : FitsNext(queue[k])
      BY <2>1, <2>2, WorkflowConstants, QueueFacts DEF QueueFits, Fits, FitsNext
    <2>4. CASE UNCHANGED queue
      BY <2>3, <2>4, FitsAgain
    <2>5. CASE other'[x] = "queued" /\ queue' = Append(queue, Task(x, 0))
      <3>1. Task(x, 0) \in Tasks /\ Task(x, 0).who = x
        BY WorkflowConstants DEF Task, Tasks
      <3>2. FitsNext(Task(x, 0))
        BY <2>5 DEF Task, FitsNext
      <3> QED
        BY <2>2, <2>3, <2>5, <3>1, <3>2, FitsAppend
    <2> QED
      BY <1>7, <2>4, <2>5 DEF Enqueue, Typed, CacheTyped
  <1>8. CASE StartTask \/ Scanned \/ Write \/ Throw \/ EndTask
    <2>1. CASE TaskEnds
      <3>1. PICK why \in {"none"} \cup Reasons : Settle(why)
        BY <2>1 DEF TaskEnds
      <3>2. queue # << >> /\ queue' = Tail(queue) /\ UNCHANGED effects
        BY <2>1, <3>1, SettleDoes DEF TaskEnds
      <3>3. ASSUME NEW k \in 2..Len(queue) PROVE FitsNext(queue[k])
        <4>1. k \in 1..Len(queue) /\ 1 \in 1..Len(queue) /\ k # 1
          BY <3>2, QueueFacts
        <4>2. queue[k].who # queue[1].who /\ Fits(queue[k])
          BY <4>1 DEF QueueFits
        <4>3. queue[k].who \in Flows => flow'[queue[k].who] = flow[queue[k].who]
          BY <2>1, <3>1, <4>2, SettleDoes DEF TaskEnds
        <4>4. queue[k].who \in Others => other'[queue[k].who] = other[queue[k].who]
          BY <2>1, <3>1, <4>2, SettleDoes DEF TaskEnds, Typed, CacheTyped
        <4> QED
          BY <3>2, <4>2, <4>3, <4>4, WorkflowConstants DEF Fits, FitsNext
      <3>4. \A k \in 1..Len(Tail(queue)) : /\ Tail(queue)[k] = queue[k + 1]
                                           /\ k + 1 \in 2..Len(queue) /\ k + 1 \in 1..Len(queue)
        BY <3>2, TailFacts
      <3>5. \A k \in 1..Len(Tail(queue)) : FitsNext(Tail(queue)[k])
        BY <3>3, <3>4
      <3>6. \A k, l \in 1..Len(Tail(queue)) : Tail(queue)[k].who = Tail(queue)[l].who => k = l
        <4> SUFFICES ASSUME NEW k \in 1..Len(Tail(queue)), NEW l \in 1..Len(Tail(queue)),
                            Tail(queue)[k].who = Tail(queue)[l].who
                     PROVE  k = l
          OBVIOUS
        <4>1. k + 1 = l + 1
          BY <3>4 DEF QueueFits
        <4>2. k \in Int /\ l \in Int
          BY <3>2, TailFacts
        <4> QED
          BY <4>1, <4>2
      <3> QED
        BY <3>2, <3>5, <3>6 DEF QueueFits, Fits, FitsNext
    <2>2. CASE TaskMoves
      BY <2>2 DEF TaskMoves, QueueFits, Fits
    <2>3. CASE TaskWrites
      <3>1. UNCHANGED <<flow, other>> /\ queue[1] \in Tasks /\ 1 \in 1..Len(queue)
        BY <2>3, WriteFacts, QueueFacts DEF TaskWrites
      <3>2. \A k \in 1..Len(queue) : queue'[k].who = queue[k].who
        BY <2>3, <3>1, WriteFacts DEF Tasks
      <3>3. ASSUME NEW k \in 1..Len(queue), k # 1 PROVE FitsNext(queue'[k])
        <4>1. Fits(queue[k]) /\ queue[k].who # queue[1].who /\ queue[k].who \in Flows \cup Others
          BY <3>1, <3>3, QueueFacts DEF QueueFits
        <4>2. queue'[k] = queue[k] /\ effects'[queue[k].who] = effects[queue[k].who]
          BY <2>3, <3>3, <4>1, WriteFacts
        <4> QED
          BY <3>1, <4>1, <4>2 DEF Fits, FitsNext
      <3>4. FitsNext(queue'[1])
        <4>1. Fits(queue[1])
          BY <3>1 DEF QueueFits
        <4>2. /\ queue'[1].who = queue[1].who /\ queue'[1].step = queue[1].step
              /\ queue'[1].aborted = queue[1].aborted /\ queue'[1].made = queue[1].made + 1
          BY <2>3, <3>1, WriteFacts DEF Tasks
        <4>3. effects'[queue[1].who][queue[1].step] = effects[queue[1].who][queue[1].step] + 1
          <5>1. /\ effects[queue[1].who] \in [0..NumSteps -> Nat] /\ queue[1].step \in 0..NumSteps
            BY <3>1 DEF Typed, EffectsTyped, Tasks
          <5> QED
            BY <2>3, <5>1, WriteFacts
        <4> QED
          BY <3>1, <4>1, <4>2, <4>3 DEF Fits, FitsNext
      <3>5. Len(queue') = Len(queue)
        BY <2>3, WriteFacts
      <3> QED
        BY <3>2, <3>3, <3>4, <3>5 DEF QueueFits, Fits, FitsNext
    <2> QED
      BY <1>8, <2>1, <2>2, <2>3, TaskStep
  <1>9. CASE \/ \E a \in ActionIds : Evict(a)
             \/ \E kind \in {"popup", "dialog"} : Interrupt(kind)
             \/ ChallengeAppears
    BY <1>9 DEF QueueFits, Fits, Evict, Interrupt, ChallengeAppears
  <1> QED
    BY <1>1, <1>2, <1>3, <1>4, <1>5, <1>6, <1>7, <1>8, <1>9 DEF Next
----------------------------------------------------------------------------
(* The page *)

\* The task at the head stays, except for its mark of an abort.
SameHead == /\ queue'[1].who = queue[1].who /\ queue'[1].step = queue[1].step
            /\ queue'[1].made = queue[1].made

(* Only the queue's own steps move its head: whoever joins, joins behind it, and an
   abort leaves its owner, its step and its writes. *)
LEMMA HeadKept ==
    ASSUME Typed, Room,
           \/ \E f \in Flows : Submit(f) \/ ReadInitial(f) \/ Invoke(f) \/ Deadline(f) \/ After(f) \/ Finish(f)
           \/ \E x \in Others : Enqueue(x)
           \/ \E kind \in {"popup", "dialog"} : Interrupt(kind)
           \/ ChallengeAppears
    PROVE  /\ UNCHANGED <<phase, effects>> /\ page'.revision = page.revision
           /\ phase # "waiting" => SameHead
  <1>1. phase # "waiting" => 1 \in 1..Len(queue)
    BY QueueFacts
  <1>2. ASSUME NEW f \in Flows, Submit(f) \/ ReadInitial(f) \/ After(f) \/ Finish(f)
        PROVE  UNCHANGED <<phase, effects, page, queue>>
    BY <1>2, SubmitDoes, ReadInitialDoes, AfterDoes, FinishDoes
  <1>3. ASSUME NEW t \in Tasks, queue' = Append(queue, t), phase # "waiting"
        PROVE  queue'[1] = queue[1]
    BY <1>1, <1>3, AppendFacts
  <1>4. ASSUME NEW f \in Flows, Invoke(f)
        PROVE  /\ UNCHANGED <<phase, effects, page>>
               /\ phase # "waiting" => queue'[1] = queue[1]
    <2>1. flow[f].idx + 1 \in 0..NumSteps
      BY <1>4, InvokeDoes, FlowFacts, WorkflowConstants DEF Room
    <2>2. Task(f, flow[f].idx + 1) \in Tasks
      BY <2>1 DEF Task, Tasks
    <2> QED
      BY <1>3, <1>4, <2>2, InvokeDoes
  <1>5. ASSUME NEW f \in Flows, Deadline(f)
        PROVE  /\ UNCHANGED <<phase, effects, page>>
               /\ phase # "waiting" => SameHead
    BY <1>1, <1>5, DeadlineDoes, AbortKeeps DEF SameHead
  <1>6. ASSUME NEW x \in Others, Enqueue(x)
        PROVE  /\ UNCHANGED <<phase, effects, page>>
               /\ phase # "waiting" => queue'[1] = queue[1]
    <2>1. Task(x, 0) \in Tasks
      BY WorkflowConstants DEF Task, Tasks
    <2> QED
      BY <1>3, <1>6, <2>1 DEF Enqueue
  <1>7. ASSUME NEW kind \in {"popup", "dialog"}, Interrupt(kind)
        PROVE  UNCHANGED <<phase, effects, queue>> /\ page'.revision = page.revision
    BY <1>7 DEF Interrupt, Typed, PageTyped, Pages
  <1>8. CASE ChallengeAppears
    BY <1>8 DEF ChallengeAppears, Typed, PageTyped, Pages, SameHead
  <1> QED
    BY <1>2, <1>4, <1>5, <1>6, <1>7, <1>8 DEF SameHead

(* The check of the first write stays true while its task stays at the head. *)
LEMMA RevisionKept ==
    ASSUME Typed, RevisionSeen, phase' = phase, page'.revision = page.revision,
           phase = "operation" =>
              /\ SameHead
              /\ queue[1].who \in Flows => flow'[queue[1].who].revision = flow[queue[1].who].revision
    PROVE  RevisionSeen'
  BY DEF RevisionSeen, FirstWrite, SameHead

(* Nothing changes the page's revision between the check of a first write and the
   write: only the task at the head does (assertExpectedPageRevision). *)
LEMMA RevisionStep ==
    ASSUME Typed, Room, QueueFits, RevisionSeen, Next
    PROVE  RevisionSeen'
  <1>1. ASSUME NEW f \in Flows, Submit(f) PROVE RevisionSeen'
    <2>1. Only(f) /\ flow[f].pc = "new"
      BY <1>1, SubmitDoes
    <2>2. phase = "operation" => queue[1].who # f
      BY <2>1, NotQueued, QueueFacts
    <2> QED
      BY <1>1, <2>1, <2>2, HeadKept, RevisionKept DEF Only
  <1>2. ASSUME NEW f \in Flows, ReadInitial(f) PROVE RevisionSeen'
    <2>1. Only(f) /\ SamePlan(f)
      BY <1>2, ReadInitialDoes
    <2> QED
      BY <1>2, <2>1, HeadKept, RevisionKept DEF Only, SamePlan
  <1>3. ASSUME NEW f \in Flows, Invoke(f) PROVE RevisionSeen'
    <2>1. Only(f) /\ SamePlan(f)
      BY <1>3, InvokeDoes
    <2> QED
      BY <1>3, <2>1, HeadKept, RevisionKept DEF Only, SamePlan
  <1>4. ASSUME NEW f \in Flows, Deadline(f) PROVE RevisionSeen'
    <2>1. Only(f) /\ SamePlan(f)
      BY <1>4, DeadlineDoes
    <2> QED
      BY <1>4, <2>1, HeadKept, RevisionKept DEF Only, SamePlan
  <1>5. ASSUME NEW f \in Flows, After(f) PROVE RevisionSeen'
    <2>1. Only(f) /\ SamePlan(f)
      BY <1>5, AfterDoes
    <2> QED
      BY <1>5, <2>1, HeadKept, RevisionKept DEF Only, SamePlan
  <1>6. ASSUME NEW f \in Flows, Finish(f) PROVE RevisionSeen'
    <2>1. Only(f) /\ SamePlan(f)
      BY <1>6, FinishDoes
    <2> QED
      BY <1>6, <2>1, HeadKept, RevisionKept DEF Only, SamePlan
  <1>7. ASSUME NEW x \in Others, Enqueue(x) PROVE RevisionSeen'
    BY <1>7, HeadKept, RevisionKept DEF Enqueue
  <1>8. CASE StartTask \/ Scanned \/ Write \/ Throw \/ EndTask
    <2>1. CASE TaskEnds
      BY <2>1, SettleDoes DEF TaskEnds, RevisionSeen
    <2>2. CASE TaskMoves
      BY <2>2 DEF TaskMoves, RevisionSeen, FirstWrite
    <2>3. CASE TaskWrites
      <3>1. queue'[1].made = queue[1].made + 1 /\ queue[1].made \in Nat
        BY <2>3, WriteFacts, QueueFacts DEF Tasks, TaskWrites
      <3> QED
        BY <3>1 DEF RevisionSeen
    <2> QED
      BY <1>8, <2>1, <2>2, <2>3, TaskStep
  <1>9. ASSUME NEW kind \in {"popup", "dialog"}, Interrupt(kind) PROVE RevisionSeen'
    BY <1>9, HeadKept, RevisionKept DEF Interrupt
  <1>10. CASE ChallengeAppears
    BY <1>10, HeadKept, RevisionKept DEF ChallengeAppears
  <1>11. CASE \E a \in ActionIds : Evict(a)
    BY <1>11 DEF RevisionSeen, FirstWrite, Evict
  <1> QED
    BY <1>1, <1>2, <1>3, <1>4, <1>5, <1>6, <1>7, <1>8, <1>9, <1>10, <1>11 DEF Next

(* The task that writes is a step its workflow has not completed: the one it waits
   for, or the one it abandoned at its deadline. *)
LEMMA Writer ==
    ASSUME Typed, QueueFits, TaskWrites, queue[1].who \in Flows
    PROVE  LET f == queue[1].who  i == flow[f].ok + 1 IN
           /\ queue[1].step = i /\ i \in 1..NumSteps
           /\ flow[f].pc \in {"waiting", "stopped", "done"}
           /\ queue[1].aborted <=> flow[f].pc # "waiting"
           /\ queue[1].aborted => flow[f].late
           /\ queue[1].made = effects[f][i] /\ effects[f][i] < Len(WritesOf[f][i])
           /\ queue[1].aborted => WritesOf[f][i][effects[f][i] + 1] = "blind"
  <1> DEFINE f == queue[1].who
             i == flow[f].ok + 1
  <1>1. Fits(queue[1]) /\ queue[1].step \in 0..NumSteps
    BY QueueFacts DEF QueueFits, TaskWrites
  <1>2. Plan(queue[1]) = WritesOf[queue[1].who][queue[1].step]
    BY DEF Plan
  <1>3. queue[1].made < Len(Plan(queue[1])) /\ (queue[1].aborted => Plan(queue[1])[queue[1].made + 1] = "blind")
    BY DEF TaskWrites
  <1>4. /\ queue[1].step = i /\ flow[f].pc \in {"waiting", "stopped", "done"}
        /\ queue[1].aborted <=> flow[f].pc # "waiting"
        /\ queue[1].aborted => flow[f].late
        /\ queue[1].made = effects[f][i]
    BY <1>1, WorkflowConstants DEF Fits
  <1>5. i \in 1..NumSteps
    BY <1>1, <1>4, FlowFacts, WorkflowConstants
  <1> QED
    BY <1>2, <1>3, <1>4, <1>5

(* A step is counted when its promise is fulfilled, after its last write; only the one
   that was abandoned, or that failed, is never counted. *)
LEMMA CountsStep ==
    ASSUME Typed, Room, QueueFits, Counts, Next
    PROVE  Counts'
  <1>1. ASSUME NEW f \in Flows, Submit(f) PROVE Counts'
    BY <1>1, SubmitDoes, FlowFacts DEF Counts, Only, SameCounts
  <1>2. ASSUME NEW f \in Flows, ReadInitial(f) PROVE Counts'
    BY <1>2, ReadInitialDoes, FlowFacts DEF Counts, Only, SameCounts
  <1>3. ASSUME NEW f \in Flows, Invoke(f) PROVE Counts'
    BY <1>3, InvokeDoes, FlowFacts DEF Counts, Only, SameCounts
  <1>4. ASSUME NEW f \in Flows, Deadline(f) PROVE Counts'
    BY <1>4, DeadlineDoes, FlowFacts DEF Counts, Only, SameCounts
  <1>5. ASSUME NEW f \in Flows, After(f) PROVE Counts'
    <2>1. /\ flow[f].pc = "after" /\ flow'[f].ok = flow[f].ok + 1 /\ UNCHANGED effects
          /\ flow'[f].pc # "after" /\ flow[f].ok \in Nat
          /\ \A g \in Flows \ {f} : flow'[g] = flow[g]
      BY <1>5, AfterDoes, FlowFacts DEF Only
    <2>2. \A i \in 1..NumSteps : Len(WritesOf[f][i]) \in Nat
      BY WorkflowConstants, LenProperties
    <2>3. ASSUME NEW i \in 1..NumSteps
          PROVE  /\ i <= flow'[f].ok => effects'[f][i] = Len(WritesOf[f][i])
                 /\ i > flow'[f].ok + 1 => effects'[f][i] = 0
                 /\ i = flow'[f].ok + 1 => effects'[f][i] = 0 /\ effects'[f][i] <= Len(WritesOf[f][i])
      <3>1. /\ i <= flow[f].ok => effects[f][i] = Len(WritesOf[f][i])
            /\ i > flow[f].ok + 1 => effects[f][i] = 0
            /\ i = flow[f].ok + 1 => effects[f][i] = Len(WritesOf[f][i])
        BY <2>1 DEF Counts
      <3>2. effects'[f][i] = effects[f][i] /\ Len(WritesOf[f][i]) \in Nat
        BY <2>1, <2>2
      <3>3. flow'[f].ok = flow[f].ok + 1 /\ flow[f].ok \in Nat
        BY <2>1
      <3>4. /\ i <= flow'[f].ok => i <= flow[f].ok \/ i = flow[f].ok + 1
            /\ i > flow'[f].ok => i > flow[f].ok + 1
        BY <3>3
      <3>5. i <= flow'[f].ok => effects'[f][i] = Len(WritesOf[f][i])
        BY <3>1, <3>2, <3>4
      <3>6. i > flow'[f].ok => effects'[f][i] = 0
        BY <3>1, <3>2, <3>4
      <3>7. flow'[f].ok + 1 > flow'[f].ok /\ 0 <= Len(WritesOf[f][i])
        BY <3>2, <3>3
      <3>8. i > flow'[f].ok + 1 \/ i = flow'[f].ok + 1 => i > flow'[f].ok
        BY <3>3
      <3>9. i > flow'[f].ok + 1 => effects'[f][i] = 0
        BY <3>6, <3>8
      <3>10. i = flow'[f].ok + 1 => effects'[f][i] = 0 /\ effects'[f][i] <= Len(WritesOf[f][i])
        BY <3>6, <3>7, <3>8
      <3> QED
        BY <3>5, <3>9, <3>10
    <2>4. \A g \in Flows \ {f} : flow'[g] = flow[g] /\ effects'[g] = effects[g]
      BY <2>1
    <2> DEFINE Said(g, i) ==
                  /\ i <= flow[g].ok => effects[g][i] = Len(WritesOf[g][i])
                  /\ i > flow[g].ok + 1 => effects[g][i] = 0
                  /\ i = flow[g].ok + 1 =>
                        /\ effects[g][i] <= Len(WritesOf[g][i])
                        /\ flow[g].pc \in {"new", "shares", "initial", "step"} => effects[g][i] = 0
                        /\ flow[g].pc = "after" => effects[g][i] = Len(WritesOf[g][i])
    <2>5. ASSUME NEW g \in Flows, NEW i \in 1..NumSteps
          PROVE  Said(g, i)'
      <3>1. CASE g = f
        BY <2>1, <2>3, <3>1
      <3>2. CASE g # f
        <4>1. Said(g, i)
          BY DEF Counts
        <4>2. flow'[g] = flow[g] /\ effects'[g] = effects[g]
          BY <2>4, <3>2
        <4> QED
          BY <4>1, <4>2
      <3> QED
        BY <3>1, <3>2
    <2> QED
      BY <2>5 DEF Counts
  <1>6. ASSUME NEW f \in Flows, Finish(f) PROVE Counts'
    BY <1>6, FinishDoes, FlowFacts DEF Counts, Only, SameCounts
  <1>7. CASE StartTask \/ Scanned \/ Write \/ Throw \/ EndTask
    <2>1. CASE TaskEnds
      <3>1. PICK why \in {"none"} \cup Reasons :
               /\ Settle(why)
               /\ why = "none" => ~queue[1].aborted /\ queue[1].made = Len(Plan(queue[1]))
        BY <2>1 DEF TaskEnds
      <3>2. queue # << >> /\ UNCHANGED effects
        BY <2>1 DEF TaskEnds
      <3>3. ASSUME NEW g \in Flows, g # queue[1].who \/ flow[g].pc # "waiting"
            PROVE  flow'[g] = flow[g]
        BY <3>1, <3>2, <3>3, SettleDoes
      <3>4. ASSUME NEW g \in Flows, g = queue[1].who, flow[g].pc = "waiting"
            PROVE  /\ flow'[g].ok = flow[g].ok /\ flow'[g].pc \in {"after", "stopped"}
                   /\ flow'[g].pc = "after" => effects[g][flow[g].ok + 1] = Len(WritesOf[g][flow[g].ok + 1])
        <4>1. /\ flow'[g].ok = flow[g].ok
              /\ flow'[g].pc = IF why = "none" THEN "after" ELSE "stopped"
          BY <3>1, <3>2, <3>4, SettleDoes DEF SameCounts
        <4>2. queue[1].step = flow[g].ok + 1 /\ queue[1].made = effects[g][flow[g].ok + 1]
          BY <3>2, <3>4, QueueFacts, WorkflowConstants DEF QueueFits, Fits
        <4>3. Plan(queue[1]) = WritesOf[g][flow[g].ok + 1]
          BY <3>4, <4>2 DEF Plan
        <4> QED
          BY <3>1, <4>1, <4>2, <4>3
      <3> QED
        BY <3>2, <3>3, <3>4 DEF Counts
    <2>2. CASE TaskMoves
      BY <2>2 DEF TaskMoves, Counts
    <2>3. CASE TaskWrites
      <3>1. UNCHANGED flow /\ \A g \in Flows : g # queue[1].who => effects'[g] = effects[g]
        BY <2>3, WriteFacts DEF TaskWrites
      <3>2. ASSUME queue[1].who \in Flows
            PROVE  LET f == queue[1].who  i == flow[f].ok + 1 IN
                   /\ flow[f].pc \in {"waiting", "stopped", "done"} /\ i \in 1..NumSteps
                   /\ effects'[f][i] = effects[f][i] + 1 /\ effects[f][i] \in Nat
                   /\ effects[f][i] < Len(WritesOf[f][i]) /\ Len(WritesOf[f][i]) \in Nat
                   /\ \A j \in 1..NumSteps : j # i => effects'[f][j] = effects[f][j]
        <4> DEFINE f == queue[1].who
                   i == flow[f].ok + 1
        <4>1. /\ flow[f].pc \in {"waiting", "stopped", "done"} /\ i \in 1..NumSteps
              /\ queue[1].step = i /\ effects[f][i] < Len(WritesOf[f][i])
          BY <2>3, <3>2, Writer
        <4>2. effects'[f] = [effects[f] EXCEPT ![i] = @ + 1] /\ effects[f] \in [0..NumSteps -> Nat]
          BY <2>3, <3>2, <4>1, WriteFacts DEF Typed, EffectsTyped
        <4>3. Len(WritesOf[f][i]) \in Nat
          BY <3>2, <4>1, WorkflowConstants, LenProperties
        <4> HIDE DEF f, i
        <4>4. i \in 0..NumSteps /\ \A j \in 1..NumSteps : j \in 0..NumSteps
          BY <4>1, WorkflowConstants
        <4>5. effects'[f][i] = effects[f][i] + 1 /\ effects[f][i] \in Nat
              /\ \A j \in 1..NumSteps : j # i => effects'[f][j] = effects[f][j]
          BY <4>2, <4>4
        <4> QED
          BY <4>1, <4>3, <4>5 DEF f, i
      <3>3. ASSUME NEW g \in Flows, g = queue[1].who, NEW j \in 1..NumSteps
            PROVE  /\ j <= flow'[g].ok => effects'[g][j] = Len(WritesOf[g][j])
                   /\ j > flow'[g].ok + 1 => effects'[g][j] = 0
                   /\ j = flow'[g].ok + 1 => effects'[g][j] <= Len(WritesOf[g][j])
                   /\ flow'[g].pc \notin {"new", "shares", "initial", "step", "after"}
        <4>1. flow[g].ok \in Nat
          BY FlowFacts
        <4>2. /\ j <= flow[g].ok => effects[g][j] = Len(WritesOf[g][j])
              /\ j > flow[g].ok + 1 => effects[g][j] = 0
          BY <3>3 DEF Counts
        <4>3. j # flow[g].ok + 1 => effects'[g][j] = effects[g][j]
          BY <3>2, <3>3
        <4>4. ASSUME j = flow[g].ok + 1 PROVE effects'[g][j] <= Len(WritesOf[g][j])
          <5>1. /\ effects'[g][j] = effects[g][j] + 1 /\ effects[g][j] \in Nat
                /\ effects[g][j] < Len(WritesOf[g][j]) /\ Len(WritesOf[g][j]) \in Nat
            BY <3>2, <3>3, <4>4
          <5> QED
            BY <5>1
        <4>5. flow'[g].ok = flow[g].ok /\ flow'[g].pc \in {"waiting", "stopped", "done"}
          BY <3>1, <3>2, <3>3
        <4> QED
          BY <4>1, <4>2, <4>3, <4>4, <4>5
      <3> QED
        BY <3>1, <3>3 DEF Counts
    <2> QED
      BY <1>7, <2>1, <2>2, <2>3, TaskStep
  <1>8. CASE \/ \E a \in ActionIds : Evict(a)
             \/ \E x \in Others : Enqueue(x)
             \/ \E kind \in {"popup", "dialog"} : Interrupt(kind)
             \/ ChallengeAppears
    BY <1>8 DEF Counts, Evict, Enqueue, Interrupt, ChallengeAppears
  <1> QED
    BY <1>1, <1>2, <1>3, <1>4, <1>5, <1>6, <1>7, <1>8 DEF Next
----------------------------------------------------------------------------
(* The theorems *)

\* The inductive invariant.
WorkflowInv == Typed /\ Room /\ QueueFits /\ Counts /\ Remembered /\ RevisionSeen /\ OneActive

(* A session starts with no workflow, an empty queue and an empty cache. *)
LEMMA InitWorkflow ==
    ASSUME Init
    PROVE  WorkflowInv
  <1> USE WorkflowConstants
  <1>1. New \in FlowRecords /\ New.pc = "new" /\ New.idx = 0 /\ New.ok = 0 /\ New.result = "none"
    BY DEF New, Unknown, FlowRecords, Stages, Reasons, Reports, Results
  <1>2. \A f \in Flows : flow[f] = New
    BY DEF Init
  <1>3. FlowTyped
    BY <1>1 DEF Init, FlowTyped
  <1>4. PageTyped
    BY DEF Init, PageTyped, Pages
  <1>5. CacheTyped
    BY DEF Init, CacheTyped
  <1>6. QueueTyped
    BY DEF Init, QueueTyped
  <1>7. EffectsTyped /\ \A f \in Flows : \A i \in 1..NumSteps : effects[f][i] = 0
    BY DEF Init, EffectsTyped
  <1>8. Room /\ Counts
    <2>1. \A f \in Flows : \A i \in 1..NumSteps : Len(WritesOf[f][i]) \in Nat
      BY LenProperties
    <2> QED
      BY <1>1, <1>2, <1>7, <2>1 DEF Room, Counts
  <1>9. QueueFits
    BY DEF Init, QueueFits
  <1>10. Remembered /\ RevisionSeen
    BY <1>1, <1>2 DEF Init, Remembered, RevisionSeen
  <1>11. OneActive
    BY <1>1, <1>2 DEF Init, OneActive, Active
  <1> QED
    BY <1>3, <1>4, <1>5, <1>6, <1>7, <1>8, <1>9, <1>10, <1>11 DEF WorkflowInv, Typed

(* Together: every step keeps the invariant. *)
LEMMA StepWorkflow ==
    ASSUME WorkflowInv, [Next]_vars
    PROVE  WorkflowInv'
  <1>1. CASE Next
    BY <1>1, FlowStep, PageStep, CacheStep, QueueStep, EffectsStep, RoomStep, FitsStep,
       CountsStep, RememberStep, RevisionStep, OneStep DEF WorkflowInv, Typed
  <1>2. CASE UNCHANGED vars
    BY <1>2 DEF vars, WorkflowInv, Typed, FlowTyped, PageTyped, CacheTyped, QueueTyped,
       EffectsTyped, Room, QueueFits, Fits, Counts, Remembered, RevisionSeen, FirstWrite, OneActive
  <1> QED
    BY <1>1, <1>2

(* In every reachable state the executors, the queue, the page, the cache and the
   reservation agree, for any number of workflows, steps and other callers. *)
THEOREM WorkflowInvHolds == Spec => []WorkflowInv
  <1>1. Init => WorkflowInv
    BY InitWorkflow
  <1>2. WorkflowInv /\ [Next]_vars => WorkflowInv'
    BY StepWorkflow
  <1> QED
    BY <1>1, <1>2, PTL DEF Spec

(* The report is true to the page: a step that completedSteps counts made every one of
   its writes, each once, before a later step wrote; at most one step, abandoned at the
   deadline or failed, wrote without being counted; "ok" means that every step was
   completed (src/browser/workflow.ts). *)
THEOREM WorkflowsAccounted == Spec => []WorkflowAccounted
  <1>1. ASSUME WorkflowInv PROVE WorkflowAccounted
    <2> USE <1>1 DEF WorkflowInv
    <2>1. WorkflowTypeOK
      BY FlowFacts DEF WorkflowTypeOK, Typed, CacheTyped, QueueTyped, Room
    <2>2. ASSUME NEW f \in Flows, NEW i \in 1..NumSteps
          PROVE  /\ i <= flow[f].ok => effects[f][i] = Len(WritesOf[f][i])
                 /\ i > flow[f].ok + 1 => effects[f][i] = 0
                 /\ effects[f][i] <= Len(WritesOf[f][i])
      <3>1. flow[f].ok \in Nat /\ Len(WritesOf[f][i]) \in Nat
        BY FlowFacts, WorkflowConstants, LenProperties
      <3>2. i <= flow[f].ok \/ i = flow[f].ok + 1 \/ i > flow[f].ok + 1
        BY <3>1
      <3> QED
        BY <3>1, <3>2 DEF Counts
    <2>3. \A f \in Flows : flow[f].result = "ok" => flow[f].ok = NumSteps
      BY DEF Room
    <2> QED
      BY <2>1, <2>2, <2>3 DEF WorkflowAccounted, EffectsReported
  <1> QED
    BY <1>1, WorkflowInvHolds, PTL

(* Only a task at the head of the queue writes to the page. *)
LEMMA WriterWrites ==
    ASSUME WorkflowInv, [Next]_vars
    PROVE  \/ UNCHANGED effects
           \/ TaskWrites
  <1>1. CASE Next
    <2>1. CASE StartTask \/ Scanned \/ Write \/ Throw \/ EndTask
      BY <2>1, TaskStep DEF WorkflowInv, TaskEnds, TaskMoves
    <2>2. CASE \E a \in ActionIds : Evict(a)
      BY <2>2 DEF Evict
    <2> QED
      BY <1>1, <2>1, <2>2, HeadKept DEF Next, WorkflowInv
  <1>2. CASE UNCHANGED vars
    BY <1>2 DEF vars
  <1> QED
    BY <1>1, <1>2

(* What a workflow has written to the page is a write of its next step. *)
LEMMA WroteBy ==
    ASSUME WorkflowInv, [Next]_vars, NEW f \in Flows, effects'[f] # effects[f]
    PROVE  TaskWrites /\ queue[1].who = f
  <1>1. TaskWrites
    BY WriterWrites
  <1> QED
    BY <1>1, WriteFacts DEF WorkflowInv

(* After its report only the step a workflow abandoned writes, and only blindly. *)
LEMMA LateWrites ==
    ASSUME WorkflowInv, [Next]_vars
    PROVE  LateWriteBlind
  <1> SUFFICES ASSUME NEW f \in Flows, flow[f].pc = "done", effects'[f] # effects[f]
               PROVE  LET i == flow[f].ok + 1 IN
                      /\ flow[f].late /\ i <= NumSteps
                      /\ effects'[f] = [effects[f] EXCEPT ![i] = @ + 1]
                      /\ WritesOf[f][i][effects'[f][i]] = "blind"
    BY DEF LateWriteBlind
  <1> DEFINE i == flow[f].ok + 1
  <1>1. TaskWrites /\ queue[1].who = f
    BY WroteBy
  <1>2. /\ queue[1].step = i /\ i \in 1..NumSteps /\ flow[f].late
        /\ WritesOf[f][i][effects[f][i] + 1] = "blind"
    BY <1>1, Writer DEF WorkflowInv
  <1>3. /\ effects'[f] = [effects[f] EXCEPT ![i] = @ + 1]
        /\ effects[f] \in [0..NumSteps -> Nat]
    BY <1>1, <1>2, WriteFacts DEF WorkflowInv, Typed, EffectsTyped
  <1> HIDE DEF i
  <1>4. i \in 0..NumSteps /\ i <= NumSteps
    BY <1>2, WorkflowConstants
  <1>5. effects'[f][i] = effects[f][i] + 1
    BY <1>3, <1>4
  <1> QED
    BY <1>2, <1>3, <1>4, <1>5 DEF i

(* A second execution under an actionId that wrote needs its entry to have expired. *)
LEMMA RunsOnce ==
    ASSUME WorkflowInv, [Next]_vars
    PROVE  OneExecution
  <1> SUFFICES ASSUME NEW f \in Flows, NEW g \in Flows, f # g, ActionOf[f] = ActionOf[g], ActionOf[f] # None,
                      Wrote(f), flow[g].pc = "new", flow'[g].pc = "initial"
               PROVE  cache[ActionOf[f]] = "expired"
    BY DEF OneExecution
  <1> USE DEF WorkflowInv
  <1>1. flow[f].pc # "new"
    <2>1. PICK i \in 1..NumSteps : effects[f][i] > 0
      BY DEF Wrote
    <2>2. i > 1 \/ i = 1
      OBVIOUS
    <2> QED
      BY <2>1, <2>2 DEF Counts, Room
  <1>2. cache[ActionOf[f]] # None /\ cache[ActionOf[f]] \in Flows \cup {None, "expired"}
    BY <1>1 DEF Remembered, Typed, CacheTyped, ActionIds
  <1>3. Cached(g) = None
    <2>1. ASSUME NEW h \in Flows,
                 ReadInitial(h) \/ Invoke(h) \/ Deadline(h) \/ After(h) \/ Finish(h) \/ Submit(h)
          PROVE  h = g /\ Submit(g) /\ Cached(g) = None
      BY <2>1, SubmitDoes, ReadInitialDoes, InvokeDoes, DeadlineDoes, AfterDoes,
         FinishDoes DEF Only
    <2>2. CASE StartTask \/ Scanned \/ Write \/ Throw \/ EndTask
      <3>1. flow'[g] = flow[g]
        BY <2>2, TaskStep, SettleDoes DEF TaskEnds, TaskMoves, TaskWrites
      <3> QED
        BY <3>1
    <2>3. CASE \/ \E a \in ActionIds : Evict(a)
               \/ \E x \in Others : Enqueue(x)
               \/ \E kind \in {"popup", "dialog"} : Interrupt(kind)
               \/ ChallengeAppears
               \/ UNCHANGED vars
      BY <2>3 DEF Evict, Enqueue, Interrupt, ChallengeAppears, vars
    <2> QED
      BY <2>1, <2>2, <2>3 DEF Next
  <1> QED
    BY <1>2, <1>3, WorkflowConstants DEF Cached

(* The first write of a workflow is made on the revision it was checked against. *)
LEMMA FirstWriteChecked ==
    ASSUME WorkflowInv, [Next]_vars
    PROVE  FirstWriteFresh
  <1> SUFFICES ASSUME NEW f \in Flows, Expects[f], ~Wrote(f), Wrote(f)'
               PROVE  page.revision = flow[f].revision
    BY DEF FirstWriteFresh
  <1>1. TaskWrites /\ queue[1].who = f
    BY WroteBy DEF Wrote
  <1>2. /\ queue[1].step = flow[f].ok + 1 /\ flow[f].ok + 1 \in 1..NumSteps /\ phase = "operation"
        /\ queue[1].made = effects[f][flow[f].ok + 1]
    BY <1>1, Writer DEF WorkflowInv, TaskWrites
  <1>3. effects[f] \in [0..NumSteps -> Nat] /\ \A i \in 1..NumSteps : i \in 0..NumSteps
    BY WorkflowConstants DEF WorkflowInv, Typed, EffectsTyped
  <1>4. \A i \in 1..NumSteps : effects[f][i] = 0
    <2>1. \A i \in 1..NumSteps : effects[f][i] \in Nat /\ ~(effects[f][i] > 0)
      BY <1>3 DEF Wrote
    <2> QED
      BY <2>1
  <1>5. flow[f].ok = 0
    <2>1. flow[f].ok \in Nat /\ 1 \in 1..NumSteps
      BY FlowFacts, WorkflowConstants DEF WorkflowInv
    <2>2. flow[f].ok >= 1 => effects[f][1] = Len(WritesOf[f][1])
      BY <2>1 DEF WorkflowInv, Counts
    <2>3. Len(WritesOf[f][1]) # 0
      BY <2>1, WorkflowConstants, EmptySeq
    <2> QED
      BY <1>4, <2>1, <2>2, <2>3
  <1> QED
    BY <1>1, <1>2, <1>4, <1>5 DEF WorkflowInv, RevisionSeen, FirstWrite

(* A task is started only when the session is free or reserved by its owner. *)
LEMMA OthersWait ==
    ASSUME WorkflowInv, [Next]_vars
    PROVE  QueueReserved
  <1> SUFFICES ASSUME token # None, phase = "waiting", phase' = "scan"
               PROVE  Head(queue).who = token
    BY DEF QueueReserved
  <1>1. CASE StartTask
    BY <1>1 DEF StartTask, Settle, Foreign
  <1>2. CASE Scanned \/ Write \/ Throw \/ EndTask
    BY <1>2 DEF Scanned, Write, Throw, EndTask
  <1>3. CASE (\E a \in ActionIds : Evict(a)) \/ UNCHANGED vars
    BY <1>3 DEF Evict, vars
  <1> QED
    BY <1>1, <1>2, <1>3, HeadKept DEF Next, WorkflowInv

(* Without stopOn, a step follows another only when no interrupt was recorded. *)
LEMMA DefaultNeverMisses ==
    ASSUME WorkflowInv, [Next]_vars
    PROVE  DefaultStops
  <1> SUFFICES ASSUME NEW f \in Flows, flow[f].pc = "after", flow'[f].pc = "step", StopOn[f] = {},
                      ~flow[f].late, flow[f].base # Unknown
               PROVE  page.seq = flow[f].base.seq
    BY DEF DefaultStops
  <1> USE DEF WorkflowInv
  <1>1. ASSUME NEW h \in Flows,
               ReadInitial(h) \/ Invoke(h) \/ Deadline(h) \/ After(h) \/ Finish(h) \/ Submit(h)
        PROVE  h = f /\ After(f)
    BY <1>1, SubmitDoes, ReadInitialDoes, InvokeDoes, DeadlineDoes, AfterDoes,
       FinishDoes DEF Only
  <1>2. CASE StartTask \/ Scanned \/ Write \/ Throw \/ EndTask
    <2>1. flow'[f] = flow[f]
      BY <1>2, TaskStep, SettleDoes DEF TaskEnds, TaskMoves, TaskWrites
    <2> QED
      BY <2>1
  <1>3. CASE \/ \E a \in ActionIds : Evict(a)
             \/ \E x \in Others : Enqueue(x)
             \/ \E kind \in {"popup", "dialog"} : Interrupt(kind)
             \/ ChallengeAppears
             \/ UNCHANGED vars
    BY <1>3 DEF Evict, Enqueue, Interrupt, ChallengeAppears, vars
  <1>4. CASE After(f)
    <2>1. StopReason(f) = "none"
      BY <1>4 DEF After, Typed, FlowTyped, FlowRecords
    <2> QED
      BY <2>1 DEF StopReason
  <1> QED
    BY <1>1, <1>2, <1>3, <1>4 DEF Next

(* A workflow has the session for itself, runs once under its actionId while the entry
   lives, writes after its report only what its abandoned step does without looking at
   the signal, writes first on the page it was planned for, and by default stops at every
   popup or dialog: for every interleaving of deadlines, interrupts, other callers and
   late answers (browser-session.ts, workflow-runner.ts). *)
THEOREM WorkflowsSafe == Spec => WorkflowSafe
  <1>1. WorkflowInv /\ [Next]_vars => LateWriteBlind /\ OneExecution /\ FirstWriteFresh /\ QueueReserved /\ DefaultStops
    BY LateWrites, RunsOnce, FirstWriteChecked, OthersWait, DefaultNeverMisses
  <1> QED
    BY <1>1, WorkflowInvHolds, PTL DEF Spec, WorkflowSafe
============================================================================
