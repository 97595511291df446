---------------------------- MODULE BrowserSession ----------------------------
(***************************************************************************)
(* One browser session: the serial action queue, challenge pause, human    *)
(* handoff, start and stop of src/browser/browser-session.ts, with the     *)
(* write gate and the workspace record that src/browser/session-manager.ts *)
(* keeps beside it.  The control lease is the one of module ControlLease.  *)
(*                                                                         *)
(* Every await is a step boundary.  An action on the page is abstracted to *)
(* one of seven kinds that differ in their admission options or effects:   *)
(*   "input"     acts through the scheduler, which checks the abort signal *)
(*               right before it acts (click, type, select, scroll); type  *)
(*               may clear the field before and submit it after, and looks *)
(*               at the signal for neither                                 *)
(*   "open"      acts without looking at the signal (page_open)            *)
(*   "read"      admitted in every live state, a person's control          *)
(*               included (snapshot, screenshot, extract, wait, listTabs   *)
(*               and the operator's direct mouse and keyboard input)       *)
(*   "handoff", "takeover", "reopen", "resume"                             *)
(* The URL policy, the page model and the audit log appear only as the     *)
(* failures they can cause.                                                *)
(***************************************************************************)
EXTENDS ControlLease, Sequences

CONSTANTS
    MaxQueue,           \* maxQueue, 32 by default
    MaxOps,             \* bound on the actions submitted in one behaviour
    Crashes             \* whether the active page may crash (environment)

ASSUME SessionAssumption ==
    MaxQueue \in Nat \ {0} /\ MaxOps \in Nat /\ Crashes \in BOOLEAN

VARIABLES
    state,              \* _state
    context,            \* the browser behind this.context, "none" when there is none
    headless,           \* currentHeadless
    queue,              \* submitted actions that wait on queueTail
    depth,              \* queueDepth
    task,               \* the action that runs, with the await it is suspended in
    challenge,          \* the active page shows a challenge (environment)
    scans,              \* results of observer scans not yet applied
    starting,           \* progress of start()
    stop,               \* progress of stop()
    ahead,              \* actions stop() still waits for
    granted,            \* lease tokens a caller has received
    workspace,          \* controlState of the session's workspace
    submitted           \* actions submitted so far

browserVars == <<context, headless>>
queueVars   == <<queue, depth, submitted>>
lifeVars    == <<starting, stop, ahead>>
callerVars  == <<granted, workspace>>
sessionVars == <<state, browserVars, queueVars, task, challenge, scans, lifeVars,
                 callerVars, lease>>

States ==
    {"STOPPED", "STARTING", "READY", "BUSY", "PAUSED_CHALLENGE", "HUMAN_TAKEOVER",
     "USER_CONTROLLED", "STOPPING", "ERROR"}
Writes  == {"input", "open"}
Kinds   == Writes \cup {"read", "handoff", "takeover", "reopen", "resume"}
Awaits  ==
    {"prescan", "prescanned", "body", "typing", "typed", "presubmit", "policy", "relaunch",
     "relaunched", "postscan", "postscanned"}

Call == [op : Kinds, token : Nat]
Idle == [op |-> "idle", token |-> 0, at |-> "idle", prior |-> "STOPPED",
         aborted |-> FALSE, seen |-> FALSE]
Task ==
    [op : Kinds, token : Nat, at : Awaits, prior : States, aborted : BOOLEAN,
     seen : BOOLEAN] \cup {Idle}

Running == task # Idle

SessionInit ==
    /\ state = "STOPPED" /\ context = "none" /\ headless \in BOOLEAN
    /\ queue = << >> /\ depth = 0 /\ submitted = 0
    /\ task = Idle /\ challenge = FALSE /\ scans = {}
    /\ starting = "idle" /\ stop = "no" /\ ahead = 0
    /\ granted = {} /\ workspace = "none"
    /\ lease = FreshLease

-------------------------------------------------------------------------------
(* scanChallenge once its result is known: entering the pause is refused to  *)
(* a scan that preserves a takeover and in the states that own the page.     *)

ScanPauses(s, seen, preserve) ==
    /\ seen /\ ~preserve
    /\ s \notin {"PAUSED_CHALLENGE", "HUMAN_TAKEOVER", "USER_CONTROLLED",
                 "STOPPING", "STOPPED"}

AfterScan(s, seen, preserve) ==
    IF ScanPauses(s, seen, preserve) THEN "PAUSED_CHALLENGE" ELSE s

\* activeAbort?.abort()
Aborted == IF Running THEN [task EXCEPT !.aborted = TRUE] ELSE task

\* scheduleChallengeScan: a page event starts a scan outside the queue.
ScanBegins ==
    /\ starting \notin {"idle", "launching"}
    /\ state \notin {"STOPPING", "STOPPED"}
    /\ scans' = scans \cup {challenge}
    /\ UNCHANGED <<state, browserVars, queueVars, task, challenge, lifeVars, callerVars, lease>>

ScanEnds ==
    \E seen \in scans :
       /\ state' = AfterScan(state, seen, FALSE)
       /\ task' = IF ScanPauses(state, seen, FALSE) THEN Aborted ELSE task
       /\ scans' = scans \ {seen}
       /\ UNCHANGED <<browserVars, queueVars, challenge, lifeVars, callerVars, lease>>

\* The site shows a challenge, or stops showing one.
PageChanges ==
    /\ context # "none"
    /\ challenge' = ~challenge
    /\ UNCHANGED <<state, browserVars, queueVars, task, scans, lifeVars, callerVars, lease>>

PageCrashes ==
    /\ Crashes /\ context # "none"
    /\ state' = "ERROR"
    /\ task' = Aborted
    /\ UNCHANGED <<browserVars, queueVars, challenge, scans, lifeVars, callerVars, lease>>

-------------------------------------------------------------------------------
\* start()

LaunchMode == IF headless THEN "headless" ELSE "headed"

StartCall ==
    /\ state = "STOPPED" /\ starting = "idle"
    /\ state' = "STARTING"
    /\ starting' = "launching"
    /\ UNCHANGED <<browserVars, queueVars, task, challenge, scans, stop, ahead, callerVars, lease>>

StartLaunched ==
    /\ starting = "launching"
    /\ context' = LaunchMode
    /\ starting' = "loading"
    /\ UNCHANGED <<state, headless, queueVars, task, challenge, scans, stop, ahead, callerVars, lease>>

StartLoaded ==
    /\ starting = "loading"
    /\ state' = "READY"
    /\ starting' = "scanning"
    /\ UNCHANGED <<browserVars, queueVars, task, challenge, scans, stop, ahead, callerVars, lease>>

\* The scan after READY and the audit; SessionManager.start then adds the workspace.
StartScanned ==
    /\ starting = "scanning"
    /\ state' = AfterScan(state, challenge, FALSE)
    /\ starting' = "done"
    /\ workspace' = "AGENT_CONTROLLED"
    /\ UNCHANGED <<browserVars, queueVars, task, challenge, scans, stop, ahead, granted, lease>>

StartFails ==
    /\ starting \in {"launching", "loading", "scanning"}
    /\ state' = "ERROR"
    /\ context' = "none"
    /\ starting' = "failed"
    /\ UNCHANGED <<headless, queueVars, task, challenge, scans, stop, ahead, callerVars, lease>>

-------------------------------------------------------------------------------
\* enqueue() and the checks its callers make first

RequireReady(op)     == op \in Writes
AllowUserControl(op) == op \in {"read", "takeover"}

\* The first lines of each method, and assertWriteAllowed of the session manager.
Admissible(op) ==
    CASE op \in Writes -> /\ workspace # "USER_CONTROLLED"
                          /\ state \notin {"USER_CONTROLLED", "PAUSED_CHALLENGE"}
      [] op = "handoff"  -> state \in {"READY", "PAUSED_CHALLENGE"}
      [] op = "takeover" -> state = "USER_CONTROLLED"
      [] op = "reopen"   -> state = "PAUSED_CHALLENGE"
      [] op = "resume"   -> state \in {"HUMAN_TAKEOVER", "PAUSED_CHALLENGE"}
      [] OTHER           -> TRUE

(* Callers learn the session's id when start() has returned and the manager  *)
(* forgets it when stop() has.  A takeover presents a token its caller was   *)
(* given, or one that never was (0).                                         *)
Submit(op, token) ==
    /\ starting = "done" /\ stop # "done" /\ submitted < MaxOps
    /\ token \in IF op = "takeover" THEN granted \cup {0} ELSE {0}
    /\ Admissible(op)
    /\ state = "USER_CONTROLLED" => AllowUserControl(op)
    /\ depth < MaxQueue
    /\ queue' = Append(queue, [op |-> op, token |-> token])
    /\ depth' = depth + 1
    /\ submitted' = submitted + 1
    /\ UNCHANGED <<state, browserVars, task, challenge, scans, lifeVars, callerVars, lease>>

\* Mutant: a task's turn comes without the user-control check.
GateNoUserCheck(op) ==
    /\ RequireReady(op) => state \in {"READY", "USER_CONTROLLED"}
    /\ state \notin {"ERROR", "STOPPED", "STOPPING"}

\* The gates a task passes when its turn comes.
Gate(op) ==
    /\ state = "USER_CONTROLLED" => AllowUserControl(op)
    /\ RequireReady(op) => state = "READY"
    /\ state \notin {"ERROR", "STOPPED", "STOPPING"}

TaskBegins ==
    /\ ~Running /\ queue # << >>
    /\ LET call == Head(queue)
       IN  /\ Gate(call.op)
           /\ state' = IF RequireReady(call.op) THEN "BUSY" ELSE state
           /\ task' = [op |-> call.op, token |-> call.token, at |-> "prescan",
                       prior |-> state, aborted |-> FALSE, seen |-> FALSE]
    /\ queue' = Tail(queue)
    /\ UNCHANGED <<browserVars, depth, submitted, challenge, scans, lifeVars, callerVars, lease>>

Waited == IF ahead > 0 THEN ahead - 1 ELSE 0

\* Mutant: queueDepth is given back only by tasks that ran.
TaskRefusedKeepsDepth ==
    /\ ~Running /\ queue # << >>
    /\ queue' = Tail(queue)
    /\ ahead' = Waited
    /\ UNCHANGED <<state, browserVars, depth, submitted, task, challenge, scans, starting,
                   stop, callerVars, lease>>

\* A gate refuses the task, or its caller aborted it while it waited.
TaskRefused ==
    /\ ~Running /\ queue # << >>
    /\ queue' = Tail(queue)
    /\ depth' = depth - 1
    /\ ahead' = Waited
    /\ UNCHANGED <<state, browserVars, submitted, task, challenge, scans, starting, stop,
                   callerVars, lease>>

\* Mutant: the finally block restores READY whatever the state is.
RestoredStateAlways(s) == IF RequireReady(task.op) THEN "READY" ELSE s

\* The finally block: BUSY goes back to READY, any other state stays.
RestoredState(s) ==
    IF s = "BUSY" /\ (RequireReady(task.op) \/ task.prior = "READY") THEN "READY" ELSE s

Settle ==
    /\ task' = Idle
    /\ depth' = depth - 1
    /\ ahead' = Waited
    /\ UNCHANGED <<queue, submitted, challenge, scans, starting, stop>>

\* A task whose signal was aborted fails even if its operation succeeded.
Succeeds == ~task.aborted

\* Any await of the task can throw; the state it left behind stays.
TaskFails ==
    /\ Running
    /\ state' = RestoredState(state)
    /\ Settle
    /\ UNCHANGED <<browserVars, callerVars, lease>>

\* The action timeout, or the caller's own signal.
TaskTimesOut ==
    /\ Running /\ ~task.aborted
    /\ task' = Aborted
    /\ UNCHANGED <<state, browserVars, queueVars, challenge, scans, lifeVars, callerVars, lease>>

At(place) == Running /\ task.at = place

Goto(place) == task' = [task EXCEPT !.at = place]

\* What a scan is followed by: the operation, the submit, the end.
Scanned(place) ==
    CASE place = "prescan" -> "prescanned"
      [] place = "typed"   -> "presubmit"
      [] OTHER             -> "postscanned"

\* detectPage reads the page; what follows runs later, with what was read.
TaskSamples ==
    /\ task.at \in {"prescan", "typed", "postscan"}
    /\ task' = [task EXCEPT !.seen = challenge, !.at = Scanned(task.at)]
    /\ UNCHANGED <<state, browserVars, queueVars, challenge, scans, lifeVars, callerVars, lease>>

PreserveExistingPause ==
    /\ ~RequireReady(task.op)
    /\ task.prior \in {"PAUSED_CHALLENGE", "HUMAN_TAKEOVER", "USER_CONTROLLED"}

\* The scan before the operation; an action that needs READY stops at a pause.
TaskPrescanned ==
    LET next == AfterScan(state, task.seen, PreserveExistingPause)
    IN  /\ At("prescanned")
        /\ RequireReady(task.op) => next # "PAUSED_CHALLENGE"
        /\ state' = next
        /\ task' = [task EXCEPT !.at = "body",
                                !.aborted = task.aborted \/ next # state]
        /\ UNCHANGED <<browserVars, queueVars, challenge, scans, lifeVars, callerVars, lease>>

TaskPausedByPrescan ==
    /\ At("prescanned")
    /\ RequireReady(task.op)
    /\ AfterScan(state, task.seen, PreserveExistingPause) = "PAUSED_CHALLENGE"
    /\ state' = "PAUSED_CHALLENGE"
    /\ Settle
    /\ UNCHANGED <<browserVars, callerVars, lease>>

-------------------------------------------------------------------------------
\* The operations

HasPage == context # "none" /\ state \notin {"STOPPED", "ERROR"}

ReadPage ==
    /\ At("body") /\ task.op = "read"
    /\ HasPage
    /\ state' = RestoredState(state)
    /\ Settle
    /\ UNCHANGED <<browserVars, callerVars, lease>>

\* page_type with clearFirst: fill('') on the target once it is resolved.
ClearField ==
    /\ At("body") /\ task.op = "input"
    /\ context # "none"
    /\ Goto("typing")
    /\ UNCHANGED <<state, browserVars, queueVars, challenge, scans, lifeVars, callerVars, lease>>

\* Mutant: the scheduler acts without looking at the signal.
ActUnchecked ==
    /\ At("body") \/ At("typing")
    /\ task.op = "input" /\ context # "none"
    /\ \E place \in {"typed", "postscan"} : Goto(place)
    /\ UNCHANGED <<state, browserVars, queueVars, challenge, scans, lifeVars, callerVars, lease>>

\* scheduler.click and its siblings on the target or page found before: throwIfAborted,
\* then the page action.  A page_type that submits scans again before it does.
Act ==
    /\ At("body") \/ At("typing")
    /\ task.op = "input" /\ context # "none" /\ ~task.aborted
    /\ \E place \in {"typed", "postscan"} : Goto(place)
    /\ UNCHANGED <<state, browserVars, queueVars, challenge, scans, lifeVars, callerVars, lease>>

\* press('Enter'), unless the scan before it found a challenge.
SubmitField ==
    /\ At("presubmit") /\ ~task.seen
    /\ context # "none"
    /\ Goto("postscan")
    /\ UNCHANGED <<state, browserVars, queueVars, challenge, scans, lifeVars, callerVars, lease>>

\* page_open: the page is looked up, then the URL policy is awaited.
OpenBegins ==
    /\ At("body") /\ task.op = "open"
    /\ HasPage
    /\ Goto("policy")
    /\ UNCHANGED <<state, browserVars, queueVars, challenge, scans, lifeVars, callerVars, lease>>

\* page.goto on the page found before the await.
OpenNavigates ==
    /\ At("policy")
    /\ context # "none"
    /\ Goto("postscan")
    /\ UNCHANGED <<state, browserVars, queueVars, challenge, scans, lifeVars, callerVars, lease>>

\* handoff() of a headless session and reopenHeaded() close the browser first.
CloseForRelaunch ==
    /\ At("body")
    /\ task.op = "reopen" \/ (task.op = "handoff" /\ headless)
    /\ context' = "none"
    /\ Goto("relaunch")
    /\ UNCHANGED <<state, headless, queueVars, challenge, scans, lifeVars, callerVars, lease>>

Relaunch ==
    /\ At("relaunch")
    /\ context' = "headed"
    /\ headless' = FALSE
    /\ Goto("relaunched")
    /\ UNCHANGED <<state, queueVars, challenge, scans, lifeVars, callerVars, lease>>

ReopenTakesOver ==
    /\ At("relaunched") /\ task.op = "reopen"
    /\ state' = "HUMAN_TAKEOVER"
    /\ Goto("postscan")
    /\ UNCHANGED <<browserVars, queueVars, challenge, scans, lifeVars, callerVars, lease>>

\* controlLease.handoff and takeover, then USER_CONTROLLED, with no await between.
HandoffGrants ==
    /\ task.op = "handoff"
    /\ At("relaunched") \/ (At("body") /\ ~headless)
    /\ lease.next < MaxGen
    /\ LET pending == RequestHandoff(lease, "agent")
       IN  /\ pending.next > lease.next
           /\ lease' = Takeover(pending, "user", pending.next, TRUE)
           /\ task' = [task EXCEPT !.at = "postscan", !.token = pending.next]
    /\ state' = "USER_CONTROLLED"
    /\ UNCHANGED <<browserVars, queueVars, challenge, scans, lifeVars, callerVars>>

\* controlLease.release and resume, then READY, with no await between.
TakeoverReleases ==
    /\ At("body") /\ task.op = "takeover"
    /\ LET released == Release(lease, "user", task.token, TRUE)
       IN  /\ released.handoff = "RELEASED" /\ lease.handoff = "ACTIVE"
           /\ lease' = Resume(released, "agent")
    /\ state' = "READY"
    /\ Goto("postscan")
    /\ UNCHANGED <<browserVars, queueVars, challenge, scans, lifeVars, callerVars>>

\* resume() does nothing but scan again.
ResumeBegins ==
    /\ At("body") /\ task.op = "resume"
    /\ Goto("postscan")
    /\ UNCHANGED <<state, browserVars, queueVars, challenge, scans, lifeVars, callerVars, lease>>

-------------------------------------------------------------------------------
\* What the scan after the operation decides

\* input, open and takeover: a challenge pauses and fails the action, before a
\* submit already.
ActionEnds ==
    /\ At("postscanned") \/ (At("presubmit") /\ task.seen)
    /\ task.op \in Writes \cup {"takeover"}
    /\ state' = RestoredState(AfterScan(state, task.seen, FALSE))
    /\ workspace' = IF task.op = "takeover" /\ ~task.seen /\ Succeeds
                       /\ workspace # "none"
                    THEN "AGENT_CONTROLLED" ELSE workspace
    /\ Settle
    /\ UNCHANGED <<browserVars, granted, lease>>

\* The caller gets the token only from a handoff that succeeds to the end.
HandoffEnds ==
    /\ At("postscanned") /\ task.op = "handoff"
    /\ state' = RestoredState(state)
    /\ granted' = IF Succeeds THEN granted \cup {task.token} ELSE granted
    /\ workspace' = IF Succeeds THEN "USER_CONTROLLED" ELSE workspace
    /\ Settle
    /\ UNCHANGED <<browserVars, lease>>

ReopenEnds ==
    /\ At("postscanned") /\ task.op = "reopen"
    /\ state' = IF task.seen THEN "HUMAN_TAKEOVER" ELSE RestoredState(state)
    /\ Settle
    /\ UNCHANGED <<browserVars, callerVars, lease>>

\* The pause ends only if the challenge is gone.
ResumeEnds ==
    /\ At("postscanned") /\ task.op = "resume"
    /\ state' = IF task.seen THEN "PAUSED_CHALLENGE" ELSE "READY"
    /\ Settle
    /\ UNCHANGED <<browserVars, callerVars, lease>>

TaskStep ==
    \/ TaskBegins \/ TaskSamples \/ TaskPrescanned \/ TaskPausedByPrescan
    \/ ReadPage \/ ClearField \/ Act \/ SubmitField \/ OpenBegins \/ OpenNavigates
    \/ CloseForRelaunch \/ Relaunch \/ ReopenTakesOver \/ HandoffGrants
    \/ TakeoverReleases \/ ResumeBegins
    \/ ActionEnds \/ HandoffEnds \/ ReopenEnds \/ ResumeEnds

-------------------------------------------------------------------------------
\* stop()

StopCall ==
    /\ state \notin {"STOPPED", "STARTING"} /\ stop = "no"
    /\ state' = "STOPPING"
    /\ task' = Aborted
    /\ stop' = "draining"
    /\ ahead' = depth
    /\ UNCHANGED <<browserVars, queueVars, challenge, scans, starting, callerVars, lease>>

\* queueTail has settled.
StopDrained ==
    /\ stop = "draining" /\ ahead = 0
    /\ stop' = "closing"
    /\ UNCHANGED <<state, browserVars, queueVars, task, challenge, scans, starting, ahead,
                   callerVars, lease>>

\* Mutant: stop() waits for the queue without a limit.
DrainNeverTimesOut == FALSE /\ UNCHANGED sessionVars

\* STOP_DRAIN_TIMEOUT_MS have passed.
DrainTimesOut ==
    /\ stop = "draining" /\ ahead > 0
    /\ stop' = "closing"
    /\ UNCHANGED <<state, browserVars, queueVars, task, challenge, scans, starting, ahead,
                   callerVars, lease>>

\* The login state is persisted (a failure is only reported), the context closed.
StopCloses ==
    /\ stop = "closing"
    /\ context' = "none"
    /\ stop' = "cleaning"
    /\ UNCHANGED <<state, headless, queueVars, task, challenge, scans, starting, ahead,
                   callerVars, lease>>

StopEnds ==
    /\ stop = "cleaning"
    /\ state' = "STOPPED"
    /\ lease' = Dispose(lease)
    /\ stop' = "done"
    /\ workspace' = IF workspace = "none" THEN "none" ELSE "INACTIVE"
    /\ UNCHANGED <<browserVars, queueVars, task, challenge, scans, starting, ahead, granted>>

-------------------------------------------------------------------------------
\* The lease's clock and timer run whatever the session does.

LeaseRuns ==
    /\ ReachExpiry \/ FireTimer
    /\ UNCHANGED <<state, browserVars, queueVars, task, challenge, scans, lifeVars, callerVars>>

StartStep == StartCall \/ StartLaunched \/ StartLoaded \/ StartScanned
StopStep  == StopDrained \/ StopCloses \/ StopEnds

SessionNext ==
    \/ \E op \in Kinds, token \in 0..MaxGen : Submit(op, token)
    \/ TaskStep \/ TaskRefused \/ TaskFails \/ TaskTimesOut
    \/ ScanBegins \/ ScanEnds \/ PageChanges \/ PageCrashes
    \/ StartStep \/ StartFails \/ StopCall \/ StopStep \/ DrainTimesOut
    \/ LeaseRuns

SessionSpec == SessionInit /\ [][SessionNext]_sessionVars

(* stop() is driven by the event loop and by its own drain timer, so its     *)
(* steps are fair although a browser call may hang for ever.                 *)
SessionFairSpec ==
    SessionSpec /\ WF_sessionVars(StopStep) /\ WF_sessionVars(DrainTimesOut)

(* Every browser call has a Playwright timeout, so a task that runs takes    *)
(* another step, if only to fail.                                            *)
CallsReturn == WF_sessionVars(TaskStep \/ TaskRefused \/ TaskFails)

-------------------------------------------------------------------------------
\* Every variable of the session holds a value of its kind.
SessionTypeOK ==
    /\ state \in States
    /\ context \in {"none", "headless", "headed"} /\ headless \in BOOLEAN
    /\ queue \in Seq(Call) /\ depth \in Nat /\ submitted \in Nat
    /\ task \in Task
    /\ challenge \in BOOLEAN /\ scans \subseteq BOOLEAN
    /\ starting \in {"idle", "launching", "loading", "scanning", "done", "failed"}
    /\ stop \in {"no", "draining", "closing", "cleaning", "done"} /\ ahead \in Nat
    /\ granted \subseteq Nat
    /\ workspace \in {"none", "AGENT_CONTROLLED", "USER_CONTROLLED", "INACTIVE"}
    /\ LeaseTypeOK

(* queueDepth is reserved at submission and given back in one place: however *)
(* tasks are refused, paused, aborted or fail, it counts exactly the actions *)
(* that wait or run, and never exceeds the queue's limit.                    *)
QueueAccounted ==
    /\ depth = Len(queue) + (IF Running THEN 1 ELSE 0)
    /\ depth <= MaxQueue

(* BUSY does not outlive the action that set it: a session that shows BUSY   *)
(* is running an action that needed READY.                                   *)
BusyOwned == state = "BUSY" => Running /\ RequireReady(task.op)

(* scanChallenge and the scheduler's abort checks together: the scheduler    *)
(* acts on the page only while the session is BUSY, so never after a scan, a *)
(* crash or a stop that happened while it was suspended; at worst in STOPPED,*)
(* when a start or a resume had set READY over STOPPING and an action had    *)
(* relaunched the browser that stop() closed.                                *)
(* The clear and the submit of a type and the navigation of an open look at  *)
(* no signal and are not claimed.                                            *)
SchedulerActsInBusy ==
    [][task.op = "input" /\ task.at \in {"body", "typing"}
          /\ task'.op = task.op /\ task'.at \in {"typed", "postscan"}
       => state \in {"BUSY", "STOPPED"}]_sessionVars

(* resume and takeover are the only ways out of a challenge pause back to    *)
(* automation, and a resume only when its own scan found no challenge.       *)
PauseNeedsHuman ==
    [][starting = "done" /\ state = "PAUSED_CHALLENGE" /\ state' \in {"READY", "BUSY"}
         => task.op = "takeover" \/ (task.op = "resume" /\ ~task.seen)]_sessionVars

\* The task that runs writes to the page: it clears, acts, submits or navigates.
WritesPage ==
    /\ task.op \in Writes /\ task'.op = task.op /\ task'.at # task.at
    /\ task'.at \in {"typing", "typed", "postscan"}

(* enqueue's gates at run time: an action submitted before a handoff and run *)
(* after it does not touch the page a person controls, with none of its      *)
(* writes.                                                                   *)
SingleWriter == WritesPage => lease.owner # "user"

(* handoff and takeover change the lease and the session in one step: as     *)
(* long as nobody stops the session, automation is offered (READY, BUSY) only *)
(* while the lease says the agent may write.                                 *)
ReadyMeansAgent == stop = "no" /\ state \in {"READY", "BUSY"} => AgentWriteAllowed(lease)

\* Automation is offered, and acts, only while the browser is the agent's.
OnlyAgentActs == [][ReadyMeansAgent' /\ SingleWriter]_sessionVars

\* stop() ends even if the action it waits for never does.
StopCompletes == stop = "draining" ~> stop = "done"

(* enqueue()'s promise chain: if browser calls return, every admitted action *)
(* settles, and the queue is empty from some time on.                        *)
ActionsSettle == CallsReturn => <>[](depth = 0 /\ ~Running)

\* The counters and states that admit an action agree with the actions there are.
SessionAccounted == SessionTypeOK /\ QueueAccounted /\ BusyOwned

\* A session that is told to stop stops, and what it admitted settles.
SessionSettles == StopCompletes /\ ActionsSettle
===============================================================================
