------------------------------ MODULE RpaService ------------------------------
(* The RPA service (src/rpa/service.ts): tasks of one workflow, their timers and
   executions, cancellation, and the state file written through a serialised
   tail of atomic writes.  The process may die between any two steps; timers,
   executions and sessions die with it, the file stays. *)
EXTENDS Integers, Sequences, FiniteSets

CONSTANTS RpaTasks,      \* task ids that may be handed out
          RpaSteps,      \* steps of the workflow
          MaxAttempts,   \* step.retry.attempts
          MaxRuns,       \* bound: run() calls of clients
          MaxCrashes     \* bound: restarts

VARIABLES rpa,        \* task -> record in memory
          workflow,   \* the workflow is known to the service
          writes,     \* writeTail: callers waiting for their write
          writing,    \* snapshot the head write has taken, or << >>
          file,       \* the state file: [workflow, tasks]
          reading,    \* what the load under way read, or << >>
          loaded, crashes, runs,
          toCancel,   \* what the shutdown under way still has to cancel, "end" and "done"
          rpaStarts,     \* history: executions begun of a task
          confirmed   \* history: tasks whose cancellation was confirmed and that were queued then

rpaVars == <<rpa, workflow, writes, writing, file, reading, loaded, crashes, runs, toCancel,
             rpaStarts, confirmed>>

NoTask == [state |-> "NONE", timer |-> FALSE, phase |-> "none", step |-> 0, attempt |-> 0,
           recurring |-> FALSE, sessionId |-> FALSE, session |-> "none", cancel |-> "none"]
Final == {"SUCCEEDED", "FAILED", "CANCELLED"}
Snapshot == [workflow |-> workflow,
             tasks |-> [t \in RpaTasks |-> [state |-> rpa[t].state, recurring |-> rpa[t].recurring]]]

RpaInit ==
    /\ rpa = [t \in RpaTasks |-> NoTask] /\ workflow = TRUE
    /\ writes = << >> /\ writing = << >> /\ reading = << >>
    /\ file = [workflow |-> TRUE, tasks |-> [t \in RpaTasks |-> [state |-> "NONE", recurring |-> FALSE]]]
    /\ loaded = FALSE /\ crashes = 0 /\ runs = 0 /\ toCancel = {}
    /\ rpaStarts = [t \in RpaTasks |-> 0] /\ confirmed = {}

Rest == UNCHANGED <<workflow, writing, file, reading, loaded, crashes, runs, rpaStarts, confirmed, toCancel>>
Persist(caller) == writes' = Append(writes, caller)

-------------------------------------------------------------------------------
\* load: loaded is set before the file is read, so that other calls pass it.
LoadBegins ==
    /\ ~loaded /\ loaded' = TRUE /\ reading' = <<file>>
    /\ UNCHANGED <<rpa, workflow, writes, writing, file, crashes, runs, toCancel, rpaStarts, confirmed>>

\* Interrupted executions fail, waiting tasks get their timer again.
LoadEnds ==
    /\ reading # << >> /\ reading' = << >>
    /\ workflow' = (workflow \/ reading[1].workflow)
    /\ rpa' = [t \in RpaTasks |->
         LET r == reading[1].tasks[t] IN
         IF r.state = "NONE" THEN rpa[t]
         ELSE [NoTask EXCEPT !.state = IF r.state = "RUNNING" THEN "FAILED" ELSE r.state,
                             !.recurring = r.recurring, !.timer = (r.state = "QUEUED")]]
    /\ UNCHANGED <<writes, writing, file, loaded, crashes, runs, toCancel, rpaStarts, confirmed>>

\* A task id is fresh: neither in memory nor in the file that is being read.
NewTaskId(t) ==
    /\ rpa[t].state = "NONE" /\ file.tasks[t].state = "NONE" /\ rpaStarts[t] = 0
    /\ reading # << >> => reading[1].tasks[t].state = "NONE"
NextId(t) == NewTaskId(t) /\ t = CHOOSE n \in RpaTasks : NewTaskId(n)

\* run: the task is stored and saved; its timer is set once the save is done.
Run(t, recurring) ==
    /\ loaded /\ workflow /\ NextId(t)
    /\ rpa' = [rpa EXCEPT ![t].state = "QUEUED", ![t].recurring = recurring]
    /\ runs < MaxRuns /\ runs' = runs + 1 /\ Persist(<<"run", t>>)
    /\ UNCHANGED <<workflow, writing, file, reading, loaded, crashes, toCancel, rpaStarts, confirmed>>

\* deleteWorkflow.
DeleteWorkflow ==
    /\ loaded /\ workflow /\ workflow' = FALSE
    /\ writes' = Append(writes, <<"delete">>)
    /\ UNCHANGED <<rpa, writing, file, reading, loaded, crashes, runs, toCancel, rpaStarts, confirmed>>

\* The write at the head of the tail serialises the state as it is now.
WriteBegins ==
    /\ writes # << >> /\ writing = << >> /\ writing' = <<Snapshot>>
    /\ UNCHANGED <<rpa, workflow, writes, file, reading, loaded, crashes, runs, toCancel, rpaStarts, confirmed>>

\* What the caller of a finished write does next.
Resumed(caller) ==
    IF Len(caller) = 1 THEN rpa
    ELSE LET t == caller[2] IN
         CASE caller[1] = "run"    -> [rpa EXCEPT ![t].timer = TRUE]
           [] caller[1] = "begin"  -> [rpa EXCEPT ![t].phase = "starting"]
           [] caller[1] = "step"   -> [rpa EXCEPT ![t].phase = "steps"]
           [] caller[1] = "end"    -> [rpa EXCEPT ![t].phase = "ended"]
           [] caller[1] = "cancel" -> [rpa EXCEPT ![t].cancel = "none"]

Unbegun(t) == rpa[t].phase = "none" /\ rpaStarts[t] = 0

\* atomicWriteFile replaces the file in one rename.
WriteEnds ==
    /\ writing # << >> /\ file' = writing[1]
    /\ writing' = << >> /\ writes' = Tail(writes) /\ rpa' = Resumed(Head(writes))
    /\ confirmed' = IF Head(writes)[1] = "cancel" /\ Unbegun(Head(writes)[2])
                    THEN confirmed \cup {Head(writes)[2]} ELSE confirmed
    /\ UNCHANGED <<workflow, reading, loaded, crashes, runs, toCancel, rpaStarts>>

\* persist rejects, the file stays: run sets no timer, an execution that has not begun
\* or is over ends there, and the catch of execute sees the write of a step.
Rejected(caller) ==
    IF Len(caller) = 1 THEN rpa
    ELSE LET t == caller[2] IN
         CASE caller[1] = "run"    -> rpa
           [] caller[1] = "step"   -> [rpa EXCEPT ![t].phase = "failing"]
           [] caller[1] = "cancel" -> [rpa EXCEPT ![t].cancel = "none"]
           [] OTHER                -> [rpa EXCEPT ![t].phase = "none"]

WriteFails ==
    /\ writing # << >> /\ writing' = << >>
    /\ writes' = Tail(writes) /\ rpa' = Rejected(Head(writes))
    /\ UNCHANGED <<workflow, file, reading, loaded, crashes, runs, toCancel, rpaStarts, confirmed>>

\* Mutant: the RUNNING state is not saved before the browser is started.
TimerFiresUnsaved(t) ==
    /\ rpa[t].timer
    /\ rpa' = [rpa EXCEPT ![t].timer = FALSE, ![t].state = "RUNNING", ![t].phase = "starting"]
    /\ UNCHANGED writes /\ Rest

-------------------------------------------------------------------------------
\* execute, up to its first save: nothing happens without the workflow or after
\* a cancellation.
TimerFires(t) ==
    /\ rpa[t].timer
    /\ IF workflow /\ rpa[t].state # "CANCELLED"
       THEN /\ rpa' = [rpa EXCEPT ![t].timer = FALSE, ![t].state = "RUNNING", ![t].phase = "begin"]
            /\ Persist(<<"begin", t>>)
       ELSE rpa' = [rpa EXCEPT ![t].timer = FALSE] /\ UNCHANGED writes
    /\ Rest

\* manager.start.
SessionStarts(t) ==
    /\ rpa[t].phase = "starting" /\ rpaStarts' = [rpaStarts EXCEPT ![t] = @ + 1]
    /\ \/ rpa' = [rpa EXCEPT ![t].phase = "steps", ![t].sessionId = TRUE, ![t].session = "open"]
       \/ rpa' = [rpa EXCEPT ![t].phase = "failing"]
    /\ UNCHANGED <<workflow, writes, writing, file, reading, loaded, crashes, runs, toCancel, confirmed>>

\* executeSteps between two steps: a cancellation ends the loop.
NextStep(t) ==
    /\ rpa[t].phase = "steps"
    /\ rpa' = IF rpa[t].state = "CANCELLED" \/ rpa[t].step = RpaSteps
              THEN [rpa EXCEPT ![t].phase = "stopping"]
              ELSE [rpa EXCEPT ![t].phase = "acting", ![t].attempt = 1]
    /\ UNCHANGED writes /\ Rest

\* An attempt at a step: it works only while the session is open; a failed step
\* is tried again, skipped (onError continue) or ends the loop.
Act(t) ==
    /\ rpa[t].phase = "acting"
    /\ \/ /\ rpa[t].session = "open"
          /\ rpa' = [rpa EXCEPT ![t].phase = "saving", ![t].step = @ + 1]
          /\ Persist(<<"step", t>>)
       \/ /\ rpa[t].attempt < MaxAttempts
          /\ rpa' = [rpa EXCEPT ![t].attempt = @ + 1] /\ UNCHANGED writes
       \/ /\ rpa[t].attempt = MaxAttempts
          /\ \/ rpa' = [rpa EXCEPT ![t].phase = "failing"] /\ UNCHANGED writes
             \/ /\ rpa' = [rpa EXCEPT ![t].phase = "saving", ![t].step = @ + 1]
                /\ Persist(<<"step", t>>)
    /\ Rest

\* The end of execute after the steps: the stop may fail, which the catch sees.
Stops(t) ==
    /\ rpa[t].phase = "stopping"
    /\ \/ /\ rpa' = [rpa EXCEPT ![t].session = "closed", ![t].sessionId = FALSE,
                                ![t].state = "SUCCEEDED", ![t].phase = "saving"]
          /\ Persist(<<"end", t>>)
       \/ rpa' = [rpa EXCEPT ![t].phase = "failing"] /\ UNCHANGED writes
    /\ Rest

FailedState(t) == IF rpa[t].state = "CANCELLED" THEN "CANCELLED" ELSE "FAILED"

\* The catch of execute; an error of this stop is swallowed.
Fails(t) ==
    /\ rpa[t].phase = "failing"
    /\ \E s \in IF rpa[t].sessionId THEN {"closed", "leaked"} ELSE {rpa[t].session} :
          rpa' = [rpa EXCEPT ![t].session = IF @ = "closed" THEN @ ELSE s, ![t].sessionId = FALSE,
                             ![t].state = FailedState(t), ![t].phase = "saving"]
    /\ Persist(<<"end", t>>) /\ Rest

\* After the last save: a task with an interval runs a successor.
Ends(t) ==
    /\ rpa[t].phase = "ended"
    /\ \/ /\ rpa[t].recurring /\ rpa[t].state # "CANCELLED" /\ workflow
          /\ \E n \in RpaTasks :
                /\ NextId(n)
                /\ rpa' = [rpa EXCEPT ![t].phase = "none", ![n].state = "QUEUED", ![n].recurring = TRUE]
                /\ Persist(<<"run", n>>)
       \/ /\ ~rpa[t].recurring \/ rpa[t].state = "CANCELLED" \/ ~workflow
          /\ rpa' = [rpa EXCEPT ![t].phase = "none"] /\ UNCHANGED writes
    /\ Rest

-------------------------------------------------------------------------------
Cancelled(t) == [rpa EXCEPT ![t].timer = FALSE, ![t].state = "CANCELLED", ![t].cancel = "stopping"]

\* cancel of a task that has not ended.
Cancel(t) ==
    /\ loaded /\ rpa[t].state \in {"QUEUED", "RUNNING"} /\ rpa[t].cancel = "none"
    /\ rpa' = Cancelled(t) /\ UNCHANGED writes /\ Rest

\* Its session is stopped first, errors swallowed, and the state saved.
CancelStops(t) ==
    /\ rpa[t].cancel = "stopping"
    /\ \E ok \in BOOLEAN :
          /\ ok => rpa[t].sessionId
          /\ rpa' = [rpa EXCEPT ![t].cancel = "saving", ![t].session = IF ok THEN "closed" ELSE @]
    /\ Persist(<<"cancel", t>>) /\ Rest

\* shutdown, once in a process: timers off, the running tasks are cancelled one after the other.
Shutdown ==
    /\ loaded /\ toCancel = {}
    /\ toCancel' = {t \in RpaTasks : rpa[t].state = "RUNNING"} \cup {"end"}
    /\ rpa' = [t \in RpaTasks |-> [rpa[t] EXCEPT !.timer = FALSE]]
    /\ UNCHANGED <<workflow, writes, writing, file, reading, loaded, crashes, runs, rpaStarts, confirmed>>

ShutdownEnds ==
    /\ toCancel = {"end"} /\ toCancel' = {"done"} /\ Persist(<<"shutdown">>)
    /\ UNCHANGED <<rpa, workflow, writing, file, reading, loaded, crashes, runs, rpaStarts, confirmed>>

ShutdownCancel(t) ==
    /\ t \in toCancel /\ toCancel' = toCancel \ {t}
    /\ rpa' = IF rpa[t].state \in {"QUEUED", "RUNNING"} THEN Cancelled(t) ELSE rpa
    /\ UNCHANGED <<workflow, writes, writing, file, reading, loaded, crashes, runs, rpaStarts, confirmed>>

\* The process dies, or exits after a shutdown.
Crash ==
    /\ crashes < MaxCrashes /\ crashes' = crashes + 1
    /\ rpa' = [t \in RpaTasks |-> NoTask] /\ workflow' = FALSE
    /\ writes' = << >> /\ writing' = << >> /\ reading' = << >> /\ loaded' = FALSE /\ toCancel' = {}
    /\ UNCHANGED <<file, runs, rpaStarts, confirmed>>

RpaNext ==
    \/ LoadBegins \/ LoadEnds \/ WriteBegins \/ WriteEnds \/ WriteFails
    \/ DeleteWorkflow \/ Shutdown \/ ShutdownEnds \/ Crash
    \/ \E t \in RpaTasks : \/ TimerFires(t) \/ SessionStarts(t) \/ NextStep(t) \/ Act(t) \/ Stops(t)
                           \/ Fails(t) \/ Ends(t) \/ Cancel(t) \/ CancelStops(t) \/ ShutdownCancel(t)
    \/ \E t \in RpaTasks, recurring \in BOOLEAN : Run(t, recurring)

RpaSpec == RpaInit /\ [][RpaNext]_rpaVars

-------------------------------------------------------------------------------
\* A task begins its browser at most once, over every crash and restart: RUNNING
\* is on disk before the start, and the load turns it into FAILED.
StartsOnce == \A t \in RpaTasks : rpaStarts[t] <= 1

\* A task cancelled while it was queued, once that is confirmed, never begins, also
\* when its timer was about to fire, its run() was still saving, or the process
\* died right after.
CancelIsDurable == \A t \in confirmed : rpaStarts[t] = 0

\* An execution that is over leaves no session open, however the cancellation,
\* the steps and the start interleave, unless the stop in the catch failed too.
SessionsClosed ==
    \A t \in RpaTasks : rpa[t].phase \in {"ended", "none"} => rpa[t].session # "open"

\* A run is started once, a cancellation that was answered survives a crash, and
\* no execution leaves its browser behind (RpaService and its state file).
RunsAccounted == StartsOnce /\ CancelIsDurable /\ SessionsClosed
===============================================================================
