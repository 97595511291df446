------------------------------- MODULE Workflow -------------------------------
(* The workflow engine of a browser session: BrowserSession.workflow and its
   reservation, the idempotency cache of writes, WorkflowExecutor.runUncached
   with its deadline race, and the session's action queue, which the steps
   share with the actions of other callers (src/browser/workflow.ts,
   workflow-runner.ts, browser-session.ts).                                  *)
EXTENDS Integers, Sequences, FiniteSets

CONSTANTS Flows,       \* requests to run a workflow
          Others,      \* other write requests of the same session
          None,
          NumSteps,    \* steps of a workflow
          ActionOf,    \* flow -> its actionId, or None
          InputOf,     \* flow -> what its fingerprint covers
          WritesOf,    \* flow -> step -> the page writes of the step, in order:
                       \* "checked" (the input scheduler looks at the abort signal
                       \* right before it) or "blind" (nothing does)
          StopOn,      \* flow -> optional stop triggers
          Expects,     \* flow -> whether it names the page revision it saw
          MaxQueue,    \* this.maxQueue
          MaxRevision, \* bound: how often a write moves the page on
          MaxEvents    \* bound: popups, dialogs and challenges

ASSUME WorkflowConstants == /\ None \notin Flows \cup Others
                            /\ Flows \cap Others = {}
                            /\ "expired" \notin Flows \cup {None}
                            /\ NumSteps \in Nat \ {0} /\ MaxQueue \in Nat
                            /\ \A f \in Flows, i \in 1..NumSteps :
                                  WritesOf[f][i] \in Seq({"checked", "blind"}) \ {<< >>}

VARIABLES token,     \* activeWorkflowToken
          flow,      \* flow -> its executor
          other,     \* other request -> "new", "queued", "done", "busy"
          queue,     \* tasks behind queueTail, the first one may run
          phase,     \* of the first task: "waiting", "scan", "operation"
          page,      \* what status() reports of the page
          cache,     \* actionCache: actionId -> the flow whose promise it holds
          effects    \* request -> step -> how often the step wrote to the page

vars == <<token, flow, other, queue, phase, page, cache, effects>>

ActionIds == {ActionOf[f] : f \in Flows} \ {None}
Unknown == [seq |-> -1, challenge |-> FALSE, popups |-> 0]     \* readStatus gave undefined
Status == [seq |-> page.seq, challenge |-> page.challenge, popups |-> page.popups]
New == [pc |-> "new", idx |-> 0, ok |-> 0, reason |-> "completed", base |-> Unknown,
        revision |-> 0, late |-> FALSE, result |-> "none", of |-> None]

Init ==
    /\ token = None
    /\ flow = [f \in Flows |-> New]
    /\ other = [x \in Others |-> "new"]
    /\ queue = << >> /\ phase = "waiting"
    /\ page = [seq |-> 0, last |-> "none", popups |-> 0, challenge |-> FALSE, revision |-> 0]
    /\ cache = [a \in ActionIds |-> None]
    /\ effects = [w \in Flows \cup Others |-> [i \in 0..NumSteps |-> 0]]

----------------------------------------------------------------------------
(* BrowserSession.workflow *)

Cached(f) == IF ActionOf[f] = None \/ cache[ActionOf[f]] \notin Flows THEN None ELSE cache[ActionOf[f]]
Remember(f) == cache' = IF ActionOf[f] = None THEN cache ELSE [cache EXCEPT ![ActionOf[f]] = f]

\* runIdempotentWrite: the same actionId with the same input gets the first
\* call's promise, whatever it settles to; other input is a conflict.  A call
\* that finds another workflow active is cached as the failure it is.
Submit(f) ==
    /\ flow[f].pc = "new"
    /\ LET g == Cached(f) IN
       \/ /\ g # None
          /\ flow' = [flow EXCEPT ![f].pc = "shares", ![f].of = g,
                                  ![f].result = IF InputOf[g] = InputOf[f] THEN "same" ELSE "conflict"]
          /\ UNCHANGED <<token, cache>>
       \/ /\ g = None /\ token # None
          /\ flow' = [flow EXCEPT ![f].pc = "done", ![f].result = "busy"]
          /\ Remember(f) /\ UNCHANGED token
       \/ /\ g = None /\ token = None
          /\ token' = f
          /\ flow' = [flow EXCEPT ![f].pc = "initial", ![f].revision = page.revision]
          /\ Remember(f)
    /\ UNCHANGED <<other, queue, phase, page, effects>>

\* What the first status says against starting; an unread status says nothing.
InitialStop(f) ==
    CASE flow[f].late -> "none"
      [] ~flow[f].late /\ Expects[f] /\ page.revision # flow[f].revision -> "revision_mismatch"
      [] OTHER -> IF page.challenge THEN "challenge" ELSE "none"

\* runUncached up to its first step.
ReadInitial(f) ==
    /\ flow[f].pc = "initial"
    /\ LET why == InitialStop(f) IN
       flow' = [flow EXCEPT ![f].base = IF flow[f].late THEN Unknown ELSE Status,
                            ![f].pc = IF why = "none" THEN "step" ELSE "stopped",
                            ![f].reason = IF why = "none" THEN @ ELSE why]
    /\ UNCHANGED <<token, other, queue, phase, page, cache, effects>>

Task(w, i) == [who |-> w, step |-> i, aborted |-> FALSE, made |-> 0]

\* The writes of a task; another caller's is one action, never aborted here.
Plan(t) == IF t.who \in Flows THEN WritesOf[t.who][t.step] ELSE <<"checked">>

\* The head of the loop, and the enqueue of the step's action.
Invoke(f) ==
    /\ flow[f].pc = "step"
    /\ \/ /\ flow[f].late
          /\ flow' = [flow EXCEPT ![f].pc = "stopped", ![f].reason = "timeout"]
          /\ UNCHANGED queue
       \/ /\ ~flow[f].late /\ Len(queue) >= MaxQueue
          /\ flow' = [flow EXCEPT ![f].pc = "stopped", ![f].reason = "error"]
          /\ UNCHANGED queue
       \/ /\ ~flow[f].late /\ Len(queue) < MaxQueue
          /\ queue' = Append(queue, Task(f, flow[f].idx + 1))
          /\ flow' = [flow EXCEPT ![f].pc = "waiting"]
    /\ UNCHANGED <<token, other, phase, page, cache, effects>>

\* withDeadline: the timer aborts the step and wins the race; the task stays
\* in the session's queue.  Elsewhere the deadline is noticed at the next check.
AbortTask(f) == [k \in DOMAIN queue |-> IF queue[k].who = f THEN [queue[k] EXCEPT !.aborted = TRUE] ELSE queue[k]]

Deadline(f) ==
    /\ flow[f].pc \in {"initial", "step", "waiting", "after"} /\ ~flow[f].late
    /\ IF flow[f].pc = "waiting"
       THEN /\ queue' = AbortTask(f)
            /\ flow' = [flow EXCEPT ![f].late = TRUE, ![f].pc = "stopped", ![f].reason = "timeout"]
       ELSE flow' = [flow EXCEPT ![f].late = TRUE] /\ UNCHANGED queue
    /\ UNCHANGED <<token, other, phase, page, cache, effects>>

\* statusStopReason: only the last interrupt's type is looked at.
StopReason(f) ==
    IF flow[f].late THEN "none"
    ELSE IF page.challenge /\ ~flow[f].base.challenge THEN "challenge"
    ELSE IF flow[f].base = Unknown \/ page.seq = flow[f].base.seq THEN "none"
    ELSE IF page.last # "dialog" \/ StopOn[f] = {} \/ StopOn[f] \cap {"dialog", "interrupt"} # {}
    THEN "interrupt" ELSE "none"

\* Mutant: the step whose report asked to stop is run once more.
AfterRepeat(f) ==
    /\ flow[f].pc = "after"
    /\ flow' = [flow EXCEPT ![f].base = Status, ![f].pc = "step"]
    /\ UNCHANGED <<token, other, queue, phase, page, cache, effects>>

\* The loop after the step's promise was fulfilled: report, status, stop.
After(f) ==
    /\ flow[f].pc = "after"
    /\ LET why == StopReason(f)
           last == flow[f].idx + 1 = NumSteps IN
       flow' = [flow EXCEPT ![f].ok = @ + 1, ![f].idx = @ + 1,
                  ![f].base = IF flow[f].late THEN @ ELSE Status,
                  ![f].reason = IF why # "none" THEN why ELSE @,
                  ![f].pc = IF why # "none" \/ last THEN "stopped" ELSE "step"]
    /\ UNCHANGED <<token, other, queue, phase, page, cache, effects>>

\* The runner's last observation ends or times out, the audit record is
\* written, and the reservation ends with the promise.
Finish(f) ==
    /\ flow[f].pc = "stopped"
    /\ flow' = [flow EXCEPT ![f].pc = "done",
                  ![f].result = IF flow[f].reason = "completed" /\ flow[f].ok = NumSteps THEN "ok" ELSE "stopped"]
    /\ token' = IF token = f THEN None ELSE token
    /\ UNCHANGED <<other, queue, phase, page, cache, effects>>

\* Entries expire after ten minutes, or are pushed out by 256 younger ones,
\* running or not; here only settled ones are.  That an entry was there before
\* is kept for the property OneExecution only.
Evict(a) ==
    /\ cache[a] \in Flows /\ flow[cache[a]].pc = "done"
    /\ cache' = [cache EXCEPT ![a] = "expired"]
    /\ UNCHANGED <<token, flow, other, queue, phase, page, effects>>

----------------------------------------------------------------------------
(* The session's queue *)

\* enqueue() by another caller.
Enqueue(x) ==
    /\ other[x] = "new"
    /\ \/ token # None /\ other' = [other EXCEPT ![x] = "busy"] /\ UNCHANGED queue
       \/ /\ token = None /\ Len(queue) < MaxQueue
          /\ other' = [other EXCEPT ![x] = "queued"]
          /\ queue' = Append(queue, Task(x, 0))
    /\ UNCHANGED <<token, flow, phase, page, cache, effects>>

\* The task ends: its promise settles, and the next one may start.
Settle(failure) ==
    LET t == Head(queue) IN
    /\ queue' = Tail(queue) /\ phase' = "waiting"
    /\ other' = IF t.who \in Others THEN [other EXCEPT ![t.who] = "done"] ELSE other
    /\ flow' = IF t.who \in Flows /\ flow[t.who].pc = "waiting"
               THEN [flow EXCEPT ![t.who].pc = IF failure = "none" THEN "after" ELSE "stopped",
                                 ![t.who].reason = IF failure = "none" THEN @ ELSE failure]
               ELSE flow

Foreign(t) == token # None /\ t.who # token

\* A task that starts: aborted or foreign tasks fail, as does one that meets a
\* challenge; then the challenge scan is awaited.
StartTask ==
    /\ queue # << >> /\ phase = "waiting"
    /\ IF Head(queue).aborted \/ Foreign(Head(queue))
       THEN Settle(IF Head(queue).aborted THEN "timeout" ELSE "error")
       ELSE phase' = "scan" /\ UNCHANGED <<queue, other, flow>>
    /\ UNCHANGED <<token, page, cache, effects>>

FirstWrite(t) == t.who \in Flows /\ t.step = 1 /\ Expects[t.who]

\* scanChallenge answered, and assertExpectedPageRevision of the first write.
Scanned ==
    /\ queue # << >> /\ phase = "scan"
    /\ LET t == Head(queue) IN
       IF page.challenge THEN Settle("challenge")
       ELSE IF FirstWrite(t) /\ flow[t.who].revision # page.revision THEN Settle("revision_mismatch")
       ELSE phase' = "operation" /\ UNCHANGED <<queue, other, flow>>
    /\ UNCHANGED <<token, page, cache, effects>>

\* Mutant: the scheduler acts without looking at the signal.
WriteUnchecked ==
    /\ queue # << >> /\ phase = "operation"
    /\ LET t == Head(queue) IN
       /\ t.made < Len(Plan(t))
       /\ queue' = [queue EXCEPT ![1].made = @ + 1]
       /\ effects' = [effects EXCEPT ![t.who][t.step] = @ + 1]
    /\ \E r \in page.revision .. page.revision + 1 :
          r <= MaxRevision /\ page' = [page EXCEPT !.revision = r]
    /\ UNCHANGED <<token, flow, other, phase, cache>>

\* The next write of the step is issued, and the page may navigate.  An abort that
\* came first stops it only where the input scheduler checks the signal (click,
\* select, scroll, the typing of type).  An open goes from assertUrlAllowed to
\* page.goto, and a type from the field it resolved to the clear, and from its scan
\* to Enter, without looking.  The browser may carry a write out after the call.
Write ==
    /\ queue # << >> /\ phase = "operation"
    /\ LET t == Head(queue) IN
       /\ t.made < Len(Plan(t))
       /\ t.aborted => Plan(t)[t.made + 1] = "blind"
       /\ queue' = [queue EXCEPT ![1].made = @ + 1]
       /\ effects' = [effects EXCEPT ![t.who][t.step] = @ + 1]
    /\ \E r \in page.revision .. page.revision + 1 :
          r <= MaxRevision /\ page' = [page EXCEPT !.revision = r]
    /\ UNCHANGED <<token, flow, other, phase, cache>>

\* Any await of the operation throws, before, between or after its writes: the
\* scheduler's check, a target that is gone, a scan that finds a challenge, the
\* action's own timeout.  "error" stands for the reasons of classifyFailure.
Throw ==
    /\ queue # << >> /\ phase = "operation"
    /\ Settle(IF Head(queue).aborted THEN "timeout" ELSE "error")
    /\ UNCHANGED <<token, page, cache, effects>>

\* The operation returns; an abort that came meanwhile fails it all the same.
EndTask ==
    /\ queue # << >> /\ phase = "operation"
    /\ Head(queue).made = Len(Plan(Head(queue)))
    /\ Settle(IF Head(queue).aborted THEN "timeout" ELSE "none")
    /\ UNCHANGED <<token, page, cache, effects>>

\* recordInterrupt, and a challenge that appears on the page.  The number of
\* popups is kept for the property MandatoryStop only.
Interrupt(kind) ==
    /\ page.seq < MaxEvents
    /\ page' = [page EXCEPT !.seq = @ + 1, !.last = kind,
                            !.popups = IF kind = "popup" THEN @ + 1 ELSE @]
    /\ UNCHANGED <<token, flow, other, queue, phase, cache, effects>>

ChallengeAppears ==
    /\ ~page.challenge /\ phase = "operation"
    /\ page' = [page EXCEPT !.challenge = TRUE]
    /\ UNCHANGED <<token, flow, other, queue, phase, cache, effects>>

Next ==
    \/ \E f \in Flows : \/ Submit(f) \/ ReadInitial(f) \/ Invoke(f) \/ Deadline(f)
                        \/ After(f) \/ Finish(f)
    \/ \E a \in ActionIds : Evict(a)
    \/ \E x \in Others : Enqueue(x)
    \/ StartTask \/ Scanned \/ Write \/ Throw \/ EndTask
    \/ \E kind \in {"popup", "dialog"} : Interrupt(kind)
    \/ ChallengeAppears

Spec == Init /\ [][Next]_vars

\* Timers fire and continuations run; a page operation may hang.
Fairness == \A f \in Flows : /\ WF_vars(ReadInitial(f)) /\ WF_vars(Invoke(f))
                             /\ WF_vars(Deadline(f)) /\ WF_vars(After(f)) /\ WF_vars(Finish(f))
FairSpec == Spec /\ Fairness

----------------------------------------------------------------------------
(* Properties *)

\* The state keeps its shape, and only an active workflow holds the token.
WorkflowTypeOK ==
    /\ token \in Flows \cup {None}
    /\ \A f \in Flows : flow[f].ok \in 0..NumSteps /\ flow[f].idx = flow[f].ok
    /\ Len(queue) <= MaxQueue
    /\ phase \in {"waiting", "scan", "operation"}

\* The report is true to the page: a step counted as completed made every one of
\* its writes, each once, before any later step wrote; at most one step, the one
\* abandoned at the deadline or cut off by a failure, wrote without being counted,
\* and no write twice.  A result "ok" means every step was completed.
EffectsReported ==
    \A f \in Flows :
        /\ \A i \in 1..NumSteps :
              LET made == effects[f][i]  planned == Len(WritesOf[f][i]) IN
              /\ i <= flow[f].ok => made = planned
              /\ i > flow[f].ok + 1 => made = 0
              /\ made <= planned
        /\ flow[f].result = "ok" => flow[f].ok = NumSteps

\* Once a workflow has reported, only the one step it abandoned at its deadline may
\* still write, and only where the code does not look at the signal: a navigation,
\* the clear or the Enter of a type.  What the input scheduler does is stopped.
LateWriteBlind ==
    \A f \in Flows : flow[f].pc = "done" /\ effects'[f] # effects[f] =>
        LET i == flow[f].ok + 1 IN
        /\ flow[f].late /\ i <= NumSteps
        /\ effects'[f] = [effects[f] EXCEPT ![i] = @ + 1]
        /\ WritesOf[f][i][effects'[f][i]] = "blind"

\* The workflow, or what it left in the queue, has written to the page.
Wrote(f) == \E i \in 1..NumSteps : effects[f][i] > 0

\* A repeated request never repeats page writes: a workflow starts under an
\* actionId that already wrote to the page only when the entry of the first
\* execution has expired.
OneExecution ==
    \A f, g \in Flows : /\ f # g /\ ActionOf[f] = ActionOf[g] /\ ActionOf[f] # None
                        /\ Wrote(f)
                        /\ flow[g].pc = "new" /\ flow'[g].pc = "initial"
                        => cache[ActionOf[f]] = "expired"

\* A workflow that names the page revision it was planned for never writes to
\* a page that another caller's action has changed since: the first write
\* checks again after it waited in the queue.
FirstWriteFresh ==
    \A f \in Flows : Expects[f] /\ ~Wrote(f) /\ Wrote(f)'
       => page.revision = flow[f].revision

\* No other caller's action starts while a workflow is active, not even one
\* that was queued before it: a task in its scan or operation belongs to the
\* workflow, or was already running when the workflow was submitted.
QueueReserved ==
    token # None /\ phase = "waiting" /\ phase' = "scan" => Head(queue).who = token

\* A popup always stops the workflow: it goes on to its next step only if none
\* was recorded since the status it compares with.
MandatoryStop ==
    [][\A f \in Flows : /\ flow[f].pc = "after" /\ flow'[f].pc = "step"
                        /\ ~flow[f].late /\ flow[f].base # Unknown
                        => page.popups = flow[f].base.popups]_vars

\* A popup or a dialog is never overlooked when no stopOn list was given (the
\* safe default): the next step starts only with the interrupt counter of the
\* status the last one was compared with.
DefaultStops ==
    \A f \in Flows : /\ flow[f].pc = "after" /\ flow'[f].pc = "step" /\ StopOn[f] = {}
                     /\ ~flow[f].late /\ flow[f].base # Unknown
                     => page.seq = flow[f].base.seq

\* Every workflow ends and releases its reservation, even if the page hangs.
ReservationEnds == token # None ~> token = None

\* The report of a workflow counts what it did to the page.
WorkflowAccounted == WorkflowTypeOK /\ EffectsReported

\* A workflow has the session for itself, once, in time, and on the page it was
\* planned for: the reservation, the cache of actionIds, the deadline with the
\* writes it does not stop, the checks of the page revision and the default stop
\* triggers taken together.
WorkflowSafe ==
    [][LateWriteBlind /\ OneExecution /\ FirstWriteFresh /\ QueueReserved /\ DefaultStops]_vars
=============================================================================
