------------------------- MODULE BrowserSessionProofs -------------------------
(***************************************************************************)
(* What holds of a browser session for every queue length, every number of *)
(* actions and every number of handoffs: the queue's counter and BUSY agree*)
(* with the actions there are, the scheduler acts in BUSY only, a pause    *)
(* needs a person, and, of a session whose page does not crash, automation *)
(* acts only while the browser is the agent's.                             *)
(*                                                                         *)
(* SessionInv adds to the type and to SessionAccounted what relates the    *)
(* task that runs to the state it runs in and to the control lease.  Each  *)
(* conjunct has a lemma that every step keeps it; the lease's part rests   *)
(* on the lemmas of ControlLeaseProofs about the lease's methods.          *)
(***************************************************************************)
EXTENDS BrowserSession, ControlLeaseProofs

\* The actions of automation that are refused while a person controls the page.
AgentTasks == Writes \cup {"resume", "reopen"}

\* The callers have the session's id only when start() has returned.
StartedFirst == Running \/ queue # << >> => starting = "done"

(* The abort signal covers every way out of BUSY while an action of the      *)
(* agent runs; a stop() that a start or resume overtook ends in STOPPED.     *)
WritesWhileBusy ==
    Running /\ task.op \in Writes /\ ~task.aborted => state \in {"BUSY", "STOPPED"}

\* Outside a handoff and outside stop() the lease is the agent's.
AgentsTurn ==
    /\ stop = "no"
    /\ \/ state \notin {"USER_CONTROLLED", "STOPPING"}
       \/ starting # "done"
       \/ task.op \in AgentTasks
    => AgentWriteAllowed(lease)

\* While the lease is a person's, the session says so and automation is out.
PersonsTurn ==
    lease.owner = "user" =>
        /\ starting = "done"
        /\ state \in {"USER_CONTROLLED", "STOPPING"}
        /\ task.op \notin AgentTasks

(* The inductive invariant.  A crash of the page takes USER_CONTROLLED away  *)
(* without telling the lease, so who may act is claimed without crashes.     *)
SessionInv ==
    /\ SessionTypeOK /\ Coherent(lease)
    /\ QueueAccounted /\ BusyOwned
    /\ StartedFirst /\ WritesWhileBusy
    /\ Crashes = FALSE => AgentsTurn /\ PersonsTurn

\* The two parts of the type invariant: the task, and the other fields.
RunningTask ==
    [op : Kinds, token : Nat, at : Awaits, prior : States, aborted : BOOLEAN,
     seen : BOOLEAN]

FieldsTypeOK ==
    /\ state \in States
    /\ context \in {"none", "headless", "headed"} /\ headless \in BOOLEAN
    /\ queue \in Seq(Call) /\ depth \in Nat /\ submitted \in Nat
    /\ challenge \in BOOLEAN /\ scans \subseteq BOOLEAN
    /\ starting \in {"idle", "launching", "loading", "scanning", "done", "failed"}
    /\ stop \in {"no", "draining", "closing", "cleaning", "done"} /\ ahead \in Nat
    /\ granted \subseteq Nat
    /\ workspace \in {"none", "AGENT_CONTROLLED", "USER_CONTROLLED", "INACTIVE"}

-------------------------------------------------------------------------------
\* The task and the lease.

\* The record that stands for no action is not the record of an action.
LEMMA IdleIsNoTask == Idle \notin RunningTask
  BY DEF Idle, RunningTask, Awaits

\* A running task that is moved, aborted or given a token stays a task.
LEMMA TaskStays ==
    ASSUME task \in Task, Running
    PROVE  /\ task \in RunningTask
           /\ \A a \in Awaits : [task EXCEPT !.at = a] \in RunningTask
           /\ \A a \in Awaits, t \in Nat :
                 [task EXCEPT !.at = a, !.token = t] \in RunningTask
           /\ \A a \in Awaits, b \in BOOLEAN :
                 [task EXCEPT !.at = a, !.aborted = b] \in RunningTask
           /\ \A a \in Awaits, b \in BOOLEAN :
                 [task EXCEPT !.seen = b, !.at = a] \in RunningTask
           /\ [task EXCEPT !.aborted = TRUE] \in RunningTask
  BY DEF Task, RunningTask, Running

\* A task that goes on to another await stays a task, and keeps running.
LEMMA GotoTyped ==
    ASSUME SessionTypeOK, Running, NEW a \in Awaits, Goto(a)
    PROVE  task' \in Task /\ Running'
  <1>1. task' \in RunningTask
    BY TaskStays DEF Goto, SessionTypeOK
  <1> QED
    BY <1>1, IdleIsNoTask DEF Task, RunningTask, Running

\* activeAbort.abort() keeps the task that runs, and starts none.
LEMMA AbortedTask ==
    ASSUME task \in Task
    PROVE  Aborted \in Task /\ (Aborted # Idle <=> Running) /\ Aborted.op = task.op
  <1>1. CASE Running
    BY <1>1, TaskStays, IdleIsNoTask DEF Aborted, Task, RunningTask
  <1>2. CASE ~Running
    BY <1>2 DEF Aborted, Running
  <1> QED
    BY <1>1, <1>2

\* handoff() leaves a coherent lease, and the task only moves on and takes the token.
LEMMA GrantCoherent ==
    ASSUME Coherent(lease), HandoffGrants
    PROVE  /\ Coherent(lease')
           /\ \E t \in Nat : task' = [task EXCEPT !.at = "postscan", !.token = t]
  <1> DEFINE pending == RequestHandoff(lease, "agent")
  <1>1. Coherent(pending)
    BY RequestHandoffLawful DEF Lawful
  <1>2. Coherent(Takeover(pending, "user", pending.next, TRUE))
    BY <1>1, TakeoverLawful DEF Lawful
  <1>3. pending.next \in Nat
    BY <1>1 DEF Coherent, LeaseRecord
  <1>4. /\ lease' = Takeover(pending, "user", pending.next, TRUE)
        /\ task' = [task EXCEPT !.at = "postscan", !.token = pending.next]
    BY DEF HandoffGrants
  <1> HIDE DEF pending
  <1>5. Coherent(lease')
    BY <1>2, <1>4
  <1> QED
    BY <1>3, <1>4, <1>5

\* takeover(): the release and the resume give the lease back to the agent.
LEMMA ReleaseReturns ==
    ASSUME Coherent(lease), TakeoverReleases
    PROVE  Coherent(lease') /\ AgentWriteAllowed(lease')
  <1> DEFINE released == Release(lease, "user", task.token, TRUE)
  <1>1. Coherent(released)
    BY ReleaseLawful DEF Lawful
  <1>2. released.handoff = "RELEASED" /\ lease' = Resume(released, "agent")
    BY DEF TakeoverReleases
  <1>3. Coherent(lease')
    BY <1>1, <1>2, ResumeLawful DEF Lawful
  <1>4. Resume(released, "agent")
          = [released EXCEPT !.owner = "agent", !.handoff = "NONE"]
    BY <1>1, <1>2 DEF Resume, ExpireIfDue, Live
  <1>5. AgentWriteAllowed(lease')
    <2>1. released \in LeaseRecord
      BY <1>1 DEF Coherent
    <2> HIDE DEF released
    <2> QED
      BY <1>2, <1>4, <2>1 DEF AgentWriteAllowed, LeaseRecord
  <1> QED
    BY <1>3, <1>5

\* The clock and the timer touch a handoff only, and can only take control away.
LEMMA ClockKeepsOwner ==
    ASSUME Coherent(lease), LeaseRuns
    PROVE  /\ Coherent(lease')
           /\ lease'.owner \in {lease.owner, "none"}
           /\ ~AgentWriteAllowed(lease)
  <1>1. CASE ReachExpiry
    <2>1. Coherent(lease')
      BY <1>1, ReachExpiryLawful DEF Lawful, ReachExpiry
    <2> QED
      BY <1>1, <2>1 DEF ReachExpiry, Coherent, LeaseRecord, Live, AgentWriteAllowed
  <1>2. CASE FireTimer
    <2>1. Coherent(lease')
      BY <1>2, TimerFiredLawful DEF Lawful, FireTimer
    <2>2. Live(lease)
      BY <1>2 DEF FireTimer, Coherent
    <2>3. lease'.owner \in {lease.owner, "none"}
      BY <1>2 DEF FireTimer, TimerFired, ExpireLease, Coherent, LeaseRecord
    <2> QED
      BY <2>1, <2>2, <2>3 DEF Live, AgentWriteAllowed
  <1> QED
    BY <1>1, <1>2 DEF LeaseRuns

\* Whatever the session does, it leaves a lease that its manager could have left.
LEMMA CoherentStep ==
    ASSUME Coherent(lease), SessionNext
    PROVE  Coherent(lease')
  <1>1. CASE HandoffGrants
    BY <1>1, GrantCoherent
  <1>2. CASE TakeoverReleases
    BY <1>2, ReleaseReturns
  <1>3. CASE StopEnds
    BY <1>3, DisposeLawful DEF StopEnds, Lawful
  <1>4. CASE LeaseRuns
    BY <1>4, ClockKeepsOwner
  <1>5. ASSUME NEW op \in Kinds, NEW token \in 0..MaxGen, Submit(op, token)
        PROVE  Coherent(lease')
    BY <1>5 DEF Submit
  <1>6. CASE TaskBegins \/ TaskSamples \/ TaskPrescanned \/ TaskPausedByPrescan \/
           ReadPage \/ ClearField \/ Act \/ SubmitField \/ OpenBegins
    BY <1>6 DEF TaskBegins, TaskSamples, TaskPrescanned, TaskPausedByPrescan, Settle,
        ReadPage, ClearField, Act, SubmitField, Goto, OpenBegins
  <1>7. CASE OpenNavigates \/ CloseForRelaunch \/ Relaunch \/ ReopenTakesOver \/
           ResumeBegins \/ ActionEnds \/ HandoffEnds
    BY <1>7 DEF OpenNavigates, Goto, CloseForRelaunch, Relaunch, ReopenTakesOver,
        ResumeBegins, ActionEnds, Settle, HandoffEnds
  <1>8. CASE ReopenEnds \/ ResumeEnds \/ TaskRefused \/ TaskFails \/ TaskTimesOut \/
           ScanBegins \/ ScanEnds
    BY <1>8 DEF ReopenEnds, Settle, ResumeEnds, TaskRefused, TaskFails, TaskTimesOut,
        ScanBegins, ScanEnds
  <1>9. CASE PageChanges \/ PageCrashes \/ StartCall \/ StartLaunched \/ StartLoaded \/
           StartScanned \/ StartFails
    BY <1>9 DEF PageChanges, PageCrashes, StartCall, StartLaunched, StartLoaded,
        StartScanned, StartFails
  <1>10. CASE StopCall \/ StopDrained \/ StopCloses \/ DrainTimesOut
    BY <1>10 DEF StopCall, StopDrained, StopCloses, DrainTimesOut
  <1> QED
    BY <1>1, <1>2, <1>3, <1>4, <1>5, <1>6, <1>7, <1>8, <1>9, <1>10
    DEF SessionNext, TaskStep, StartStep, StopStep

-------------------------------------------------------------------------------
\* The fields.

\* The task that runs keeps its fields.
LEMMA TaskTypeStep ==
    ASSUME SessionTypeOK, Coherent(lease), SessionNext
    PROVE  task' \in Task
  <1>1. CASE TaskBegins
    <2>1. Head(queue) \in Call
      BY <1>1 DEF TaskBegins, SessionTypeOK
    <2>2. task' = [op |-> Head(queue).op, token |-> Head(queue).token, at |-> "prescan",
                   prior |-> state, aborted |-> FALSE, seen |-> FALSE]
      BY <1>1 DEF TaskBegins
    <2> QED
      BY <2>1, <2>2 DEF SessionTypeOK, Call, Task, Awaits
  <1>2. CASE TaskSamples
    <2>1. Running
      BY <1>2 DEF TaskSamples, Running, Idle
    <2>2. \E a \in Awaits : task' = [task EXCEPT !.seen = challenge, !.at = a]
      <3>1. Scanned(task.at) \in Awaits
        BY <1>2 DEF TaskSamples, Scanned, Awaits
      <3> QED
        BY <1>2, <3>1 DEF TaskSamples
    <2>3. challenge \in BOOLEAN /\ task \in Task
      BY DEF SessionTypeOK
    <2>4. task' \in RunningTask
      BY <2>1, <2>2, <2>3, TaskStays
    <2> QED
      BY <2>4 DEF Task, RunningTask
  <1>3. CASE TaskPrescanned
    BY <1>3, TaskStays, IdleIsNoTask DEF TaskPrescanned, At, AfterScan, ScanPauses,
        PreserveExistingPause, RequireReady, SessionTypeOK, Running, Idle, Task,
        RunningTask, Awaits
  <1>4. CASE TaskPausedByPrescan
    BY <1>4 DEF TaskPausedByPrescan, At, Settle, Waited, AfterScan, ScanPauses,
        PreserveExistingPause, RequireReady, SessionTypeOK, Running, Idle, Task,
        RunningTask, Awaits
  <1>5. CASE ReadPage
    BY <1>5 DEF ReadPage, At, Settle, Waited, RestoredState, RequireReady, HasPage,
        SessionTypeOK, Running, Idle, Task, RunningTask, Awaits
  <1>6. CASE ClearField \/ Act \/ SubmitField
    BY <1>6, GotoTyped DEF ClearField, Act, SubmitField, At, Awaits
  <1>7. CASE OpenBegins
    BY <1>7, GotoTyped DEF OpenBegins, At, Awaits
  <1>8. CASE OpenNavigates
    BY <1>8, GotoTyped DEF OpenNavigates, At, Awaits
  <1>9. CASE CloseForRelaunch
    BY <1>9, GotoTyped DEF CloseForRelaunch, At, Awaits
  <1>10. CASE Relaunch
    BY <1>10, GotoTyped DEF Relaunch, At, Awaits
  <1>11. CASE ReopenTakesOver
    BY <1>11, GotoTyped DEF ReopenTakesOver, At, Awaits
  <1>12. CASE HandoffGrants
    <2>1. Running /\ task \in Task /\ "postscan" \in Awaits
      BY <1>12 DEF HandoffGrants, At, SessionTypeOK, Awaits
    <2>2. PICK t \in Nat : task' = [task EXCEPT !.at = "postscan", !.token = t]
      BY <1>12, GrantCoherent
    <2>3. task' \in RunningTask
      BY <2>1, <2>2, TaskStays
    <2> QED
      BY <2>3 DEF Task, RunningTask
  <1>13. CASE TakeoverReleases
    BY <1>13, GotoTyped DEF TakeoverReleases, At, Awaits
  <1>14. CASE ResumeBegins
    BY <1>14, GotoTyped DEF ResumeBegins, At, Awaits
  <1>15. CASE ActionEnds
    BY <1>15 DEF ActionEnds, At, Settle, Waited, AfterScan, ScanPauses, RestoredState,
        RequireReady, Succeeds, SessionTypeOK, Running, Idle, Task, RunningTask,
        Awaits
  <1>16. CASE HandoffEnds
    BY <1>16 DEF HandoffEnds, At, Settle, Waited, RestoredState, RequireReady,
        Succeeds, SessionTypeOK, Running, Idle, Task, RunningTask, Awaits
  <1>17. CASE ReopenEnds
    BY <1>17 DEF ReopenEnds, At, Settle, Waited, RestoredState, RequireReady,
        SessionTypeOK, Running, Idle, Task, RunningTask, Awaits
  <1>18. CASE ResumeEnds
    BY <1>18 DEF ResumeEnds, At, Settle, Waited, SessionTypeOK, Running, Idle, Task,
        RunningTask, Awaits
  <1>19. CASE TaskFails
    BY <1>19 DEF TaskFails, Settle, Waited, RestoredState, RequireReady, SessionTypeOK,
        Running, Idle, Task, RunningTask, Awaits
  <1>20. CASE TaskTimesOut
    BY <1>20, AbortedTask DEF TaskTimesOut, Aborted, SessionTypeOK, Running, Idle,
        Task, RunningTask, Awaits
  <1>21. CASE ScanEnds
    BY <1>21, AbortedTask DEF ScanEnds, AfterScan, ScanPauses, Aborted, SessionTypeOK,
        Running, Idle, Task, RunningTask, Awaits
  <1>22. CASE PageCrashes
    BY <1>22, AbortedTask DEF PageCrashes, Aborted, SessionTypeOK, Running, Idle, Task,
        RunningTask, Awaits
  <1>23. CASE StopCall
    BY <1>23, AbortedTask DEF StopCall, Aborted, SessionTypeOK, Running, Idle, Task,
        RunningTask, Awaits
  <1>24. ASSUME NEW op \in Kinds, NEW token \in 0..MaxGen, Submit(op, token)
        PROVE  task' \in Task
    BY <1>24 DEF Submit, SessionTypeOK
  <1>25. CASE TaskRefused \/ ScanBegins \/ PageChanges \/ StartCall \/ StartLaunched \/
           StartLoaded \/ StartScanned
    BY <1>25 DEF TaskRefused, ScanBegins, PageChanges, StartCall, StartLaunched,
        StartLoaded, StartScanned, SessionTypeOK
  <1>26. CASE StartFails \/ StopDrained \/ StopCloses \/ StopEnds \/ DrainTimesOut \/
           LeaseRuns
    BY <1>26 DEF StartFails, StopDrained, StopCloses, StopEnds, DrainTimesOut,
        LeaseRuns, SessionTypeOK
  <1> QED
    BY <1>1, <1>2, <1>3, <1>4, <1>5, <1>6, <1>7, <1>8, <1>9, <1>10, <1>11, <1>12,
        <1>13, <1>14, <1>15, <1>16, <1>17, <1>18, <1>19, <1>20, <1>21, <1>22, <1>23,
        <1>24, <1>25, <1>26
    DEF SessionNext, TaskStep, StartStep, StopStep

(* So do the fields of the session; the queue's depth stays a number because *)
(* it counts what waits.                                                     *)
LEMMA FieldsTypeStep ==
    ASSUME SessionTypeOK, QueueAccounted, SessionNext
    PROVE  FieldsTypeOK'
  <1> USE DEF SessionTypeOK, FieldsTypeOK, QueueAccounted, States, browserVars,
      lifeVars, callerVars, queueVars
  <1>1. ASSUME NEW op \in Kinds, NEW token \in 0..MaxGen, Submit(op, token)
        PROVE  FieldsTypeOK'
    <2>1. /\ [op |-> op, token |-> token] \in Call
          /\ depth + 1 \in Nat /\ submitted + 1 \in Nat
      BY <1>1, MaxGenAssumption DEF SessionTypeOK, Call
    <2> QED
      BY <1>1, <2>1 DEF Submit, FieldsTypeOK, SessionTypeOK, browserVars, lifeVars,
          callerVars
  <1>2. CASE TaskBegins
    BY <1>2 DEF TaskBegins, Gate, RequireReady, AllowUserControl
  <1>3. CASE TaskPrescanned
    BY <1>3 DEF TaskPrescanned, At, AfterScan, ScanPauses, PreserveExistingPause,
        RequireReady
  <1>4. CASE TaskPausedByPrescan
    BY <1>4 DEF TaskPausedByPrescan, At, Settle, Waited, AfterScan, ScanPauses,
        PreserveExistingPause, RequireReady
  <1>5. CASE ReadPage
    BY <1>5 DEF ReadPage, At, Settle, Waited, RestoredState, RequireReady, HasPage
  <1>6. CASE CloseForRelaunch \/ Relaunch
    BY <1>6 DEF CloseForRelaunch, At, Goto, Relaunch
  <1>7. CASE ReopenTakesOver
    BY <1>7 DEF ReopenTakesOver, At, Goto
  <1>8. CASE HandoffGrants
    BY <1>8 DEF HandoffGrants, At
  <1>9. CASE TakeoverReleases
    BY <1>9 DEF TakeoverReleases, At, Goto
  <1>10. CASE ActionEnds
    BY <1>10 DEF ActionEnds, At, Settle, Waited, AfterScan, ScanPauses, RestoredState,
        RequireReady, Succeeds
  <1>11. CASE HandoffEnds
    <2>1. task.token \in Nat
      BY DEF SessionTypeOK, Task, Idle
    <2>2. granted' \subseteq Nat
      BY <1>11, <2>1 DEF HandoffEnds, SessionTypeOK
    <2>3. workspace' \in {"AGENT_CONTROLLED", "USER_CONTROLLED", "INACTIVE", "none"}
      BY <1>11 DEF HandoffEnds, SessionTypeOK
    <2>4. state' \in States
      BY <1>11 DEF HandoffEnds, RestoredState, SessionTypeOK, States
    <2>5. depth' \in Nat /\ ahead' \in Nat
      BY <1>11 DEF HandoffEnds, At, Settle, Waited, SessionTypeOK, QueueAccounted
    <2> QED
      BY <1>11, <2>2, <2>3, <2>4, <2>5
      DEF HandoffEnds, Settle, SessionTypeOK, FieldsTypeOK, browserVars
  <1>12. CASE ReopenEnds
    BY <1>12 DEF ReopenEnds, At, Settle, Waited, RestoredState, RequireReady
  <1>13. CASE ResumeEnds
    BY <1>13 DEF ResumeEnds, At, Settle, Waited
  <1>14. CASE TaskRefused
    BY <1>14 DEF TaskRefused, Waited
  <1>15. CASE TaskFails
    BY <1>15 DEF TaskFails, Settle, Waited, RestoredState, RequireReady
  <1>16. CASE ScanBegins
    BY <1>16 DEF ScanBegins
  <1>17. CASE ScanEnds
    BY <1>17 DEF ScanEnds, AfterScan, ScanPauses, Aborted
  <1>18. CASE PageChanges
    BY <1>18 DEF PageChanges
  <1>19. CASE PageCrashes
    BY <1>19 DEF PageCrashes, Aborted
  <1>20. CASE StartCall \/ StartLaunched \/ StartLoaded
    BY <1>20 DEF StartCall, StartLaunched, LaunchMode, StartLoaded
  <1>21. CASE StartScanned
    BY <1>21 DEF StartScanned, AfterScan, ScanPauses
  <1>22. CASE StartFails
    BY <1>22 DEF StartFails
  <1>23. CASE StopCall
    BY <1>23 DEF StopCall, Aborted
  <1>24. CASE StopDrained \/ DrainTimesOut \/ StopCloses
    BY <1>24 DEF StopDrained, DrainTimesOut, StopCloses
  <1>25. CASE StopEnds
    BY <1>25 DEF StopEnds
  <1>26. CASE TaskSamples \/ ClearField \/ Act \/ SubmitField \/ OpenBegins \/ OpenNavigates \/ ResumeBegins \/
           TaskTimesOut \/ LeaseRuns
    BY <1>26 DEF TaskSamples, ClearField, Act, SubmitField, Goto, OpenBegins, OpenNavigates, ResumeBegins,
        TaskTimesOut, LeaseRuns, browserVars, queueVars, lifeVars, callerVars
  <1> QED
    BY <1>1, <1>2, <1>3, <1>4, <1>5, <1>6, <1>7, <1>8, <1>9, <1>10, <1>11, <1>12,
        <1>13, <1>14, <1>15, <1>16, <1>17, <1>18, <1>19, <1>20, <1>21, <1>22, <1>23,
        <1>24, <1>25, <1>26
    DEF SessionNext, TaskStep, StartStep, StopStep

-------------------------------------------------------------------------------
\* The queue and the states.

\* The finally block gives back the depth of exactly the action that ran.
LEMMA Settled ==
    ASSUME SessionTypeOK, QueueAccounted, Running, Settle
    PROVE  QueueAccounted'
  <1>1. /\ Len(queue) \in Nat /\ MaxQueue \in Nat
        /\ depth = Len(queue) + 1 /\ depth <= MaxQueue
    BY SessionAssumption DEF SessionTypeOK, QueueAccounted
  <1>2. depth' = Len(queue') /\ ~Running' /\ Len(queue') <= MaxQueue
    BY <1>1 DEF Settle, Running
  <1> QED
    BY <1>1, <1>2 DEF QueueAccounted

\* Every way in or out of the queue moves queueDepth by the same one.
LEMMA QueueStep ==
    ASSUME SessionTypeOK, QueueAccounted, SessionNext
    PROVE  QueueAccounted'
  <1>1. ASSUME NEW op \in Kinds, NEW token \in 0..MaxGen, Submit(op, token)
        PROVE  QueueAccounted'
    <2>1. Len(queue) \in Nat /\ Len(queue') = Len(queue) + 1
      BY <1>1 DEF Submit, SessionTypeOK
    <2>2. depth' = depth + 1 /\ depth < MaxQueue /\ Running' = Running
      BY <1>1 DEF Submit, Running
    <2>3. depth \in Nat /\ MaxQueue \in Nat
      BY SessionAssumption DEF SessionTypeOK
    <2> QED
      BY <2>1, <2>2, <2>3 DEF QueueAccounted
  <1>2. CASE TaskBegins
    BY <1>2 DEF TaskBegins, Gate, RequireReady, AllowUserControl, SessionTypeOK,
        QueueAccounted, Running, Idle, Task, Call, Kinds, Writes, Awaits
  <1>3. CASE TaskSamples
    <2>1. Running => Running'
      <3>1. Scanned(task.at) \in Awaits
        BY <1>3 DEF TaskSamples, Scanned, Awaits
      <3>2. challenge \in BOOLEAN /\ task \in Task
        BY DEF SessionTypeOK
      <3>3. Running => task' \in RunningTask
        BY <1>3, <3>1, <3>2, TaskStays DEF TaskSamples
      <3> QED
        BY <3>3, IdleIsNoTask DEF Running
    <2>2. Running
      BY <1>3 DEF TaskSamples, Running, Idle
    <2> QED
      BY <1>3, <2>1, <2>2 DEF TaskSamples, QueueAccounted, queueVars
  <1>4. CASE TaskPrescanned
    BY <1>4 DEF TaskPrescanned, At, AfterScan, ScanPauses, PreserveExistingPause,
        RequireReady, SessionTypeOK, QueueAccounted, Running, Idle, Task, Call, Kinds,
        Writes, Awaits, queueVars
  <1>5. CASE TaskPausedByPrescan
    BY <1>5, Settled DEF TaskPausedByPrescan, At
  <1>6. CASE ReadPage
    BY <1>6, Settled DEF ReadPage, At
  <1>7. CASE ClearField \/ Act \/ SubmitField
    BY <1>7 DEF ClearField, Act, SubmitField, At, Goto, HasPage, SessionTypeOK, QueueAccounted, Running, Idle,
        Task, Call, Kinds, Writes, Awaits, queueVars
  <1>8. CASE OpenBegins
    BY <1>8 DEF OpenBegins, At, Goto, HasPage, SessionTypeOK, QueueAccounted, Running,
        Idle, Task, Call, Kinds, Writes, Awaits, queueVars
  <1>9. CASE OpenNavigates
    BY <1>9 DEF OpenNavigates, At, Goto, SessionTypeOK, QueueAccounted, Running, Idle,
        Task, Call, Kinds, Writes, Awaits, queueVars
  <1>10. CASE CloseForRelaunch
    BY <1>10 DEF CloseForRelaunch, At, Goto, SessionTypeOK, QueueAccounted, Running,
        Idle, Task, Call, Kinds, Writes, Awaits, queueVars
  <1>11. CASE Relaunch
    BY <1>11 DEF Relaunch, At, Goto, SessionTypeOK, QueueAccounted, Running, Idle,
        Task, Call, Kinds, Writes, Awaits, queueVars
  <1>12. CASE ReopenTakesOver
    BY <1>12 DEF ReopenTakesOver, At, Goto, SessionTypeOK, QueueAccounted, Running,
        Idle, Task, Call, Kinds, Writes, Awaits, queueVars
  <1>13. CASE HandoffGrants
    BY <1>13 DEF HandoffGrants, At, SessionTypeOK, QueueAccounted, Running, Idle, Task,
        Call, Kinds, Writes, Awaits, queueVars
  <1>14. CASE TakeoverReleases
    BY <1>14 DEF TakeoverReleases, At, Goto, SessionTypeOK, QueueAccounted, Running,
        Idle, Task, Call, Kinds, Writes, Awaits, queueVars
  <1>15. CASE ResumeBegins
    BY <1>15 DEF ResumeBegins, At, Goto, SessionTypeOK, QueueAccounted, Running, Idle,
        Task, Call, Kinds, Writes, Awaits, queueVars
  <1>16. CASE ActionEnds
    BY <1>16, Settled DEF ActionEnds, At
  <1>17. CASE HandoffEnds
    BY <1>17, Settled DEF HandoffEnds, At
  <1>18. CASE ReopenEnds
    BY <1>18, Settled DEF ReopenEnds, At
  <1>19. CASE ResumeEnds
    BY <1>19, Settled DEF ResumeEnds, At
  <1>20. CASE TaskRefused
    <2>1. Len(queue) \in Nat /\ Len(queue') = Len(queue) - 1
      BY <1>20 DEF TaskRefused, SessionTypeOK
    <2>2. depth' = depth - 1 /\ ~Running /\ ~Running'
      BY <1>20 DEF TaskRefused, Running
    <2>3. depth \in Nat /\ MaxQueue \in Nat
      BY SessionAssumption DEF SessionTypeOK
    <2> QED
      BY <2>1, <2>2, <2>3 DEF QueueAccounted
  <1>21. CASE TaskFails
    BY <1>21, Settled DEF TaskFails, Running
  <1>22. CASE TaskTimesOut
    BY <1>22 DEF TaskTimesOut, Aborted, SessionTypeOK, QueueAccounted, Running, Idle,
        Task, Call, Kinds, Writes, Awaits, queueVars
  <1>23. CASE ScanEnds
    <2>1. task' = task \/ task' = Aborted
      BY <1>23 DEF ScanEnds
    <2>2. Aborted # Idle <=> Running
      BY DEF Aborted, Running, SessionTypeOK, Task, Idle, Kinds, Writes
    <2> QED
      BY <1>23, <2>1, <2>2 DEF ScanEnds, QueueAccounted, queueVars, Running
  <1>24. CASE PageCrashes
    BY <1>24 DEF PageCrashes, Aborted, SessionTypeOK, QueueAccounted, Running, Idle,
        Task, Call, Kinds, Writes, Awaits, queueVars
  <1>25. CASE StopCall
    BY <1>25 DEF StopCall, Aborted, SessionTypeOK, QueueAccounted, Running, Idle, Task,
        Call, Kinds, Writes, Awaits, queueVars
  <1>26. CASE ScanBegins \/ PageChanges \/ StartCall \/ StartLaunched \/ StartLoaded \/
           StartScanned \/ StartFails
    BY <1>26 DEF ScanBegins, PageChanges, StartCall, StartLaunched, StartLoaded,
        StartScanned, StartFails, QueueAccounted, Running, queueVars
  <1>27. CASE StopDrained \/ StopCloses \/ StopEnds \/ DrainTimesOut \/ LeaseRuns
    BY <1>27 DEF StopDrained, StopCloses, StopEnds, DrainTimesOut, LeaseRuns,
        QueueAccounted, Running, queueVars
  <1> QED
    BY <1>1, <1>2, <1>3, <1>4, <1>5, <1>6, <1>7, <1>8, <1>9, <1>10, <1>11, <1>12,
        <1>13, <1>14, <1>15, <1>16, <1>17, <1>18, <1>19, <1>20, <1>21, <1>22, <1>23,
        <1>24, <1>25, <1>26, <1>27
    DEF SessionNext, TaskStep, StartStep, StopStep

\* Only an action that needs READY sets BUSY, and its finally block takes it back.
LEMMA BusyStep ==
    ASSUME SessionTypeOK, BusyOwned, SessionNext
    PROVE  BusyOwned'
  <1> USE DEF SessionTypeOK, BusyOwned, Running, Idle, Task, Kinds, Writes, Awaits,
      RequireReady
  <1>1. CASE TaskBegins
    BY <1>1 DEF TaskBegins, Gate, AllowUserControl
  <1>2. CASE TaskSamples
    BY <1>2 DEF TaskSamples
  <1>3. CASE TaskPrescanned
    BY <1>3 DEF TaskPrescanned, At, AfterScan, ScanPauses, PreserveExistingPause
  <1>4. CASE TaskPausedByPrescan
    BY <1>4 DEF TaskPausedByPrescan, At, Settle, Waited, AfterScan, ScanPauses,
        PreserveExistingPause
  <1>5. CASE ReadPage \/ TaskFails
    BY <1>5 DEF ReadPage, At, Settle, Waited, RestoredState, HasPage, TaskFails
  <1>6. CASE ClearField \/ Act \/ SubmitField \/ OpenBegins \/ OpenNavigates \/ CloseForRelaunch \/ Relaunch \/
           ResumeBegins
    BY <1>6 DEF ClearField, Act, SubmitField, At, Goto, HasPage, OpenBegins, OpenNavigates, CloseForRelaunch,
        Relaunch, ResumeBegins
  <1>7. CASE ReopenTakesOver
    BY <1>7 DEF ReopenTakesOver, At, Goto
  <1>8. CASE HandoffGrants
    BY <1>8 DEF HandoffGrants, At
  <1>9. CASE TakeoverReleases
    BY <1>9 DEF TakeoverReleases, At, Goto
  <1>10. CASE ActionEnds
    BY <1>10 DEF ActionEnds, At, Settle, Waited, AfterScan, ScanPauses, RestoredState,
        Succeeds
  <1>11. CASE HandoffEnds
    BY <1>11 DEF HandoffEnds, At, Settle, Waited, RestoredState, Succeeds
  <1>12. CASE ReopenEnds
    BY <1>12 DEF ReopenEnds, At, Settle, Waited, RestoredState
  <1>13. CASE ResumeEnds
    BY <1>13 DEF ResumeEnds, At, Settle, Waited
  <1>14. CASE TaskTimesOut
    BY <1>14 DEF TaskTimesOut, Aborted
  <1>15. CASE ScanEnds
    BY <1>15 DEF ScanEnds, AfterScan, ScanPauses, Aborted
  <1>16. CASE PageCrashes
    BY <1>16 DEF PageCrashes, Aborted
  <1>17. CASE StartCall \/ StartLoaded
    BY <1>17 DEF StartCall, StartLoaded
  <1>18. CASE StartScanned
    BY <1>18 DEF StartScanned, AfterScan, ScanPauses
  <1>19. CASE StartFails
    BY <1>19 DEF StartFails
  <1>20. CASE StopCall
    BY <1>20 DEF StopCall, Aborted
  <1>21. CASE StopEnds
    BY <1>21 DEF StopEnds
  <1>22. ASSUME NEW op \in Kinds, NEW token \in 0..MaxGen, Submit(op, token)
        PROVE  BusyOwned'
    BY <1>22 DEF Submit
  <1>23. CASE TaskRefused \/ ScanBegins \/ PageChanges \/ StartLaunched \/ StopDrained \/
           StopCloses \/ DrainTimesOut
    BY <1>23 DEF TaskRefused, ScanBegins, PageChanges, StartLaunched, StopDrained,
        StopCloses, DrainTimesOut
  <1>24. CASE LeaseRuns
    BY <1>24 DEF LeaseRuns
  <1> QED
    BY <1>1, <1>2, <1>3, <1>4, <1>5, <1>6, <1>7, <1>8, <1>9, <1>10, <1>11, <1>12,
        <1>13, <1>14, <1>15, <1>16, <1>17, <1>18, <1>19, <1>20, <1>21, <1>22, <1>23,
        <1>24
    DEF SessionNext, TaskStep, StartStep, StopStep

\* Nothing is submitted before start() has returned.
LEMMA StartedStep ==
    ASSUME SessionTypeOK, StartedFirst, SessionNext
    PROVE  StartedFirst'
  <1> USE DEF SessionTypeOK, StartedFirst, Running, Idle, Task, Kinds, Writes, Awaits,
      lifeVars, queueVars
  <1>1. ASSUME NEW op \in Kinds, NEW token \in 0..MaxGen, Submit(op, token)
        PROVE  StartedFirst'
    BY <1>1 DEF Submit
  <1>2. CASE TaskBegins
    BY <1>2 DEF TaskBegins, Gate, RequireReady, AllowUserControl
  <1>3. CASE TaskSamples
    BY <1>3 DEF TaskSamples
  <1>4. CASE TaskPrescanned
    BY <1>4 DEF TaskPrescanned, At, AfterScan, ScanPauses, PreserveExistingPause,
        RequireReady
  <1>5. CASE TaskPausedByPrescan
    BY <1>5 DEF TaskPausedByPrescan, At, Settle, Waited, AfterScan, ScanPauses,
        PreserveExistingPause, RequireReady
  <1>6. CASE ReadPage \/ TaskFails
    BY <1>6 DEF ReadPage, At, Settle, Waited, RestoredState, RequireReady, HasPage,
        TaskFails
  <1>7. CASE ClearField \/ Act \/ SubmitField \/ OpenBegins \/ OpenNavigates \/ CloseForRelaunch \/ Relaunch \/
           ResumeBegins
    BY <1>7 DEF ClearField, Act, SubmitField, At, Goto, HasPage, OpenBegins, OpenNavigates, CloseForRelaunch,
        Relaunch, ResumeBegins
  <1>8. CASE ReopenTakesOver
    BY <1>8 DEF ReopenTakesOver, At, Goto
  <1>9. CASE HandoffGrants
    BY <1>9 DEF HandoffGrants, At
  <1>10. CASE TakeoverReleases
    BY <1>10 DEF TakeoverReleases, At, Goto
  <1>11. CASE ActionEnds
    BY <1>11 DEF ActionEnds, At, Settle, Waited, AfterScan, ScanPauses, RestoredState,
        RequireReady, Succeeds
  <1>12. CASE HandoffEnds
    BY <1>12 DEF HandoffEnds, At, Settle, Waited, RestoredState, RequireReady, Succeeds
  <1>13. CASE ReopenEnds
    BY <1>13 DEF ReopenEnds, At, Settle, Waited, RestoredState, RequireReady
  <1>14. CASE ResumeEnds
    BY <1>14 DEF ResumeEnds, At, Settle, Waited
  <1>15. CASE TaskRefused
    BY <1>15 DEF TaskRefused, Waited
  <1>16. CASE TaskTimesOut
    BY <1>16 DEF TaskTimesOut, Aborted
  <1>17. CASE ScanEnds
    BY <1>17 DEF ScanEnds, AfterScan, ScanPauses, Aborted
  <1>18. CASE PageCrashes
    BY <1>18 DEF PageCrashes, Aborted
  <1>19. CASE StartCall \/ StartLaunched \/ StartLoaded
    BY <1>19 DEF StartCall, StartLaunched, LaunchMode, StartLoaded
  <1>20. CASE StartScanned
    BY <1>20 DEF StartScanned, AfterScan, ScanPauses
  <1>21. CASE StartFails
    BY <1>21 DEF StartFails
  <1>22. CASE StopCall
    BY <1>22 DEF StopCall, Aborted
  <1>23. CASE ScanBegins \/ PageChanges \/ StopDrained \/ StopCloses \/ StopEnds \/
           DrainTimesOut \/ LeaseRuns
    BY <1>23 DEF ScanBegins, PageChanges, StopDrained, StopCloses, StopEnds,
        DrainTimesOut, LeaseRuns, queueVars, lifeVars
  <1> QED
    BY <1>1, <1>2, <1>3, <1>4, <1>5, <1>6, <1>7, <1>8, <1>9, <1>10, <1>11, <1>12,
        <1>13, <1>14, <1>15, <1>16, <1>17, <1>18, <1>19, <1>20, <1>21, <1>22, <1>23
    DEF SessionNext, TaskStep, StartStep, StopStep

(* Whatever leaves BUSY while an action of the agent runs aborts it: a scan, *)
(* a crash, stop().                                                          *)
LEMMA WritesStep ==
    ASSUME SessionTypeOK, StartedFirst, WritesWhileBusy, SessionNext
    PROVE  WritesWhileBusy'
  <1> USE DEF SessionTypeOK, StartedFirst, WritesWhileBusy, Running, Idle, Task, Kinds,
      Writes, Awaits
  <1>1. CASE TaskBegins
    BY <1>1 DEF TaskBegins, Gate, RequireReady, AllowUserControl
  <1>2. CASE TaskSamples
    BY <1>2 DEF TaskSamples
  <1>3. CASE TaskPrescanned
    BY <1>3 DEF TaskPrescanned, At, AfterScan, ScanPauses, PreserveExistingPause,
        RequireReady
  <1>4. CASE TaskPausedByPrescan
    BY <1>4 DEF TaskPausedByPrescan, At, Settle, Waited, AfterScan, ScanPauses,
        PreserveExistingPause, RequireReady
  <1>5. CASE ReadPage \/ TaskFails
    BY <1>5 DEF ReadPage, At, Settle, Waited, RestoredState, RequireReady, HasPage,
        TaskFails
  <1>6. CASE ClearField \/ Act \/ SubmitField \/ OpenBegins \/ OpenNavigates \/ CloseForRelaunch \/ Relaunch \/
           ResumeBegins
    BY <1>6 DEF ClearField, Act, SubmitField, At, Goto, HasPage, OpenBegins, OpenNavigates, CloseForRelaunch,
        Relaunch, ResumeBegins
  <1>7. CASE ReopenTakesOver
    BY <1>7 DEF ReopenTakesOver, At, Goto
  <1>8. CASE HandoffGrants
    BY <1>8 DEF HandoffGrants, At
  <1>9. CASE TakeoverReleases
    BY <1>9 DEF TakeoverReleases, At, Goto
  <1>10. CASE ActionEnds
    BY <1>10 DEF ActionEnds, At, Settle, Waited, AfterScan, ScanPauses, RestoredState,
        RequireReady, Succeeds
  <1>11. CASE HandoffEnds
    BY <1>11 DEF HandoffEnds, At, Settle, Waited, RestoredState, RequireReady, Succeeds
  <1>12. CASE ReopenEnds
    BY <1>12 DEF ReopenEnds, At, Settle, Waited, RestoredState, RequireReady
  <1>13. CASE ResumeEnds
    BY <1>13 DEF ResumeEnds, At, Settle, Waited
  <1>14. CASE TaskTimesOut
    BY <1>14 DEF TaskTimesOut, Aborted
  <1>15. CASE ScanEnds
    BY <1>15 DEF ScanEnds, AfterScan, ScanPauses, Aborted
  <1>16. CASE PageCrashes
    BY <1>16 DEF PageCrashes, Aborted
  <1>17. CASE StartCall \/ StartLoaded
    BY <1>17 DEF StartCall, StartLoaded
  <1>18. CASE StartScanned
    BY <1>18 DEF StartScanned, AfterScan, ScanPauses
  <1>19. CASE StartFails
    BY <1>19 DEF StartFails
  <1>20. CASE StopCall
    BY <1>20 DEF StopCall, Aborted
  <1>21. CASE StopEnds
    BY <1>21 DEF StopEnds
  <1>22. ASSUME NEW op \in Kinds, NEW token \in 0..MaxGen, Submit(op, token)
        PROVE  WritesWhileBusy'
    BY <1>22 DEF Submit
  <1>23. CASE TaskRefused \/ ScanBegins \/ PageChanges \/ StartLaunched \/ StopDrained \/
           StopCloses \/ DrainTimesOut
    BY <1>23 DEF TaskRefused, ScanBegins, PageChanges, StartLaunched, StopDrained,
        StopCloses, DrainTimesOut
  <1>24. CASE LeaseRuns
    BY <1>24 DEF LeaseRuns
  <1> QED
    BY <1>1, <1>2, <1>3, <1>4, <1>5, <1>6, <1>7, <1>8, <1>9, <1>10, <1>11, <1>12,
        <1>13, <1>14, <1>15, <1>16, <1>17, <1>18, <1>19, <1>20, <1>21, <1>22, <1>23,
        <1>24
    DEF SessionNext, TaskStep, StartStep, StopStep

-------------------------------------------------------------------------------
\* Whose turn it is.

\* Before a handoff and after it, the lease lets the agent write.
LEMMA AgentsStep ==
    ASSUME Crashes = FALSE, SessionTypeOK, Coherent(lease), StartedFirst, AgentsTurn,
        SessionNext
    PROVE  AgentsTurn'
  <1> USE DEF SessionTypeOK, Running, Idle, Task, Kinds, Writes, AgentsTurn,
      AgentTasks, StartedFirst, lifeVars
  <1>1. CASE TaskBegins
    <2>1. starting = "done"
      BY <1>1 DEF TaskBegins, StartedFirst
    <2>2. task'.op = Head(queue).op /\ Gate(Head(queue).op)
      BY <1>1 DEF TaskBegins
    <2>3. state' = state \/ (state = "READY" /\ state' = "BUSY")
      BY <1>1, <2>2 DEF TaskBegins, Gate, RequireReady
    <2>4. task'.op \in AgentTasks => state \notin {"USER_CONTROLLED", "STOPPING"}
      BY <2>2 DEF Gate, AllowUserControl, AgentTasks, Writes
    <2> QED
      BY <1>1, <2>1, <2>3, <2>4 DEF TaskBegins, AgentsTurn, lifeVars
  <1>2. CASE TaskSamples
    BY <1>2 DEF TaskSamples
  <1>3. CASE TaskPrescanned
    BY <1>3 DEF TaskPrescanned, At, AfterScan, ScanPauses, PreserveExistingPause,
        RequireReady
  <1>4. CASE TaskPausedByPrescan
    BY <1>4 DEF TaskPausedByPrescan, At, Settle, Waited, AfterScan, ScanPauses,
        PreserveExistingPause, RequireReady
  <1>5. CASE ReadPage \/ TaskFails
    BY <1>5 DEF ReadPage, At, Settle, Waited, RestoredState, RequireReady, HasPage,
        TaskFails
  <1>6. CASE ClearField \/ Act \/ SubmitField \/ OpenBegins \/ OpenNavigates \/ CloseForRelaunch \/ Relaunch \/
           ResumeBegins
    BY <1>6 DEF ClearField, Act, SubmitField, At, Goto, HasPage, OpenBegins, OpenNavigates, CloseForRelaunch,
        Relaunch, ResumeBegins
  <1>7. CASE ReopenTakesOver
    BY <1>7 DEF ReopenTakesOver, At, Goto
  <1>8. CASE HandoffGrants
    BY <1>8 DEF HandoffGrants, At
  <1>9. CASE TakeoverReleases
    BY <1>9, ReleaseReturns DEF AgentsTurn
  <1>10. CASE ActionEnds
    BY <1>10 DEF ActionEnds, At, Settle, Waited, AfterScan, ScanPauses, RestoredState,
        RequireReady, Succeeds
  <1>11. CASE HandoffEnds
    BY <1>11 DEF HandoffEnds, At, Settle, Waited, RestoredState, RequireReady, Succeeds
  <1>12. CASE ReopenEnds
    BY <1>12 DEF ReopenEnds, At, Settle, Waited, RestoredState, RequireReady
  <1>13. CASE ResumeEnds
    BY <1>13 DEF ResumeEnds, At, Settle, Waited
  <1>14. CASE TaskTimesOut
    BY <1>14, AbortedTask DEF TaskTimesOut, Aborted
  <1>15. CASE ScanEnds
    BY <1>15, AbortedTask DEF ScanEnds, AfterScan, ScanPauses, Aborted
  <1>16. CASE PageCrashes
    BY <1>16, AbortedTask DEF PageCrashes, Aborted
  <1>17. CASE StartCall \/ StartLaunched \/ StartLoaded
    BY <1>17 DEF StartCall, StartLaunched, LaunchMode, StartLoaded
  <1>18. CASE StartScanned
    BY <1>18 DEF StartScanned, AfterScan, ScanPauses
  <1>19. CASE StartFails
    BY <1>19 DEF StartFails
  <1>20. CASE StopCall
    BY <1>20, AbortedTask DEF StopCall, Aborted
  <1>21. CASE StopDrained \/ DrainTimesOut \/ StopCloses
    BY <1>21 DEF StopDrained, DrainTimesOut, StopCloses
  <1>22. CASE StopEnds
    BY <1>22 DEF StopEnds
  <1>23. CASE LeaseRuns
    BY <1>23, ClockKeepsOwner DEF LeaseRuns, AgentsTurn, lifeVars
  <1>24. ASSUME NEW op \in Kinds, NEW token \in 0..MaxGen, Submit(op, token)
        PROVE  AgentsTurn'
    BY <1>24 DEF Submit, lifeVars
  <1>25. CASE TaskRefused \/ ScanBegins \/ PageChanges
    BY <1>25 DEF TaskRefused, ScanBegins, PageChanges, lifeVars
  <1> QED
    BY <1>1, <1>2, <1>3, <1>4, <1>5, <1>6, <1>7, <1>8, <1>9, <1>10, <1>11, <1>12,
        <1>13, <1>14, <1>15, <1>16, <1>17, <1>18, <1>19, <1>20, <1>21, <1>22, <1>23,
        <1>24, <1>25
    DEF SessionNext, TaskStep, StartStep, StopStep

\* While a person controls the page no action of the agent starts, nor goes on.
LEMMA PersonsStep ==
    ASSUME Crashes = FALSE, SessionTypeOK, Coherent(lease), StartedFirst, PersonsTurn,
        SessionNext
    PROVE  PersonsTurn'
  <1> USE DEF SessionTypeOK, Running, Idle, Task, Kinds, Writes, PersonsTurn,
      AgentTasks, StartedFirst, lifeVars
  <1>1. CASE TaskBegins
    <2>1. starting = "done"
      BY <1>1 DEF TaskBegins, StartedFirst
    <2>2. task'.op = Head(queue).op /\ Gate(Head(queue).op)
      BY <1>1 DEF TaskBegins
    <2>3. state \in {"USER_CONTROLLED",
        "STOPPING"} => state' = state /\ task'.op \notin AgentTasks
      BY <1>1, <2>2 DEF TaskBegins, Gate, RequireReady, AllowUserControl, AgentTasks,
          Writes
    <2> QED
      BY <1>1, <2>1, <2>3 DEF TaskBegins, PersonsTurn, lifeVars
  <1>2. CASE TaskSamples
    BY <1>2 DEF TaskSamples
  <1>3. CASE TaskPrescanned
    BY <1>3 DEF TaskPrescanned, At, AfterScan, ScanPauses, PreserveExistingPause,
        RequireReady
  <1>4. CASE TaskPausedByPrescan
    BY <1>4 DEF TaskPausedByPrescan, At, Settle, Waited, AfterScan, ScanPauses,
        PreserveExistingPause, RequireReady
  <1>5. CASE ReadPage \/ TaskFails
    BY <1>5 DEF ReadPage, At, Settle, Waited, RestoredState, RequireReady, HasPage,
        TaskFails
  <1>6. CASE ClearField \/ Act \/ SubmitField \/ OpenBegins \/ OpenNavigates \/ CloseForRelaunch \/ Relaunch \/
           ResumeBegins
    BY <1>6 DEF ClearField, Act, SubmitField, At, Goto, HasPage, OpenBegins, OpenNavigates, CloseForRelaunch,
        Relaunch, ResumeBegins
  <1>7. CASE ReopenTakesOver
    BY <1>7 DEF ReopenTakesOver, At, Goto
  <1>8. CASE HandoffGrants
    BY <1>8 DEF HandoffGrants, At
  <1>9. CASE TakeoverReleases
    BY <1>9, ReleaseReturns DEF AgentWriteAllowed, PersonsTurn
  <1>10. CASE ActionEnds
    BY <1>10 DEF ActionEnds, At, Settle, Waited, AfterScan, ScanPauses, RestoredState,
        RequireReady, Succeeds
  <1>11. CASE HandoffEnds
    BY <1>11 DEF HandoffEnds, At, Settle, Waited, RestoredState, RequireReady, Succeeds
  <1>12. CASE ReopenEnds
    BY <1>12 DEF ReopenEnds, At, Settle, Waited, RestoredState, RequireReady
  <1>13. CASE ResumeEnds
    BY <1>13 DEF ResumeEnds, At, Settle, Waited
  <1>14. CASE TaskTimesOut
    BY <1>14, AbortedTask DEF TaskTimesOut, Aborted
  <1>15. CASE ScanEnds
    BY <1>15, AbortedTask DEF ScanEnds, AfterScan, ScanPauses, Aborted
  <1>16. CASE PageCrashes
    BY <1>16, AbortedTask DEF PageCrashes, Aborted
  <1>17. CASE StartCall \/ StartLaunched \/ StartLoaded
    BY <1>17 DEF StartCall, StartLaunched, LaunchMode, StartLoaded
  <1>18. CASE StartScanned
    BY <1>18 DEF StartScanned, AfterScan, ScanPauses
  <1>19. CASE StartFails
    BY <1>19 DEF StartFails
  <1>20. CASE StopCall
    BY <1>20, AbortedTask DEF StopCall, Aborted
  <1>21. CASE StopEnds
    <2>1. lease'.owner = "none"
      BY <1>21 DEF StopEnds, Dispose, Coherent, LeaseRecord
    <2> QED
      BY <2>1 DEF PersonsTurn
  <1>22. CASE LeaseRuns
    BY <1>22, ClockKeepsOwner DEF LeaseRuns, PersonsTurn, lifeVars
  <1>23. ASSUME NEW op \in Kinds, NEW token \in 0..MaxGen, Submit(op, token)
        PROVE  PersonsTurn'
    BY <1>23 DEF Submit, lifeVars
  <1>24. CASE TaskRefused \/ ScanBegins \/ PageChanges \/ StopDrained \/ StopCloses \/
           DrainTimesOut
    BY <1>24 DEF TaskRefused, ScanBegins, PageChanges, StopDrained, StopCloses,
        DrainTimesOut, lifeVars
  <1> QED
    BY <1>1, <1>2, <1>3, <1>4, <1>5, <1>6, <1>7, <1>8, <1>9, <1>10, <1>11, <1>12,
        <1>13, <1>14, <1>15, <1>16, <1>17, <1>18, <1>19, <1>20, <1>21, <1>22, <1>23,
        <1>24
    DEF SessionNext, TaskStep, StartStep, StopStep

-------------------------------------------------------------------------------
\* What a step may do.

\* The scheduler's abort check lets an input through only in BUSY, or behind a stop.
LEMMA ActsStep ==
    ASSUME SessionTypeOK, WritesWhileBusy, SessionNext, task.op = "input",
           task.at \in {"body", "typing"}, task'.at \in {"typed", "postscan"}
    PROVE  state \in {"BUSY", "STOPPED"}
  <1> USE DEF SessionTypeOK, Running, Idle, Task, Kinds, Writes, Awaits, WritesWhileBusy
  <1>1. CASE TaskBegins
    BY <1>1 DEF TaskBegins, Gate, RequireReady, AllowUserControl
  <1>2. CASE TaskSamples
    BY <1>2 DEF TaskSamples
  <1>3. CASE TaskPrescanned
    BY <1>3 DEF TaskPrescanned, At, AfterScan, ScanPauses, PreserveExistingPause,
        RequireReady
  <1>4. CASE TaskPausedByPrescan
    BY <1>4 DEF TaskPausedByPrescan, At, Settle, Waited, AfterScan, ScanPauses,
        PreserveExistingPause, RequireReady
  <1>5. CASE ReadPage \/ TaskFails
    BY <1>5 DEF ReadPage, At, Settle, Waited, RestoredState, RequireReady, HasPage,
        TaskFails
  <1>6. CASE ClearField \/ Act \/ SubmitField \/ OpenBegins \/ OpenNavigates \/ CloseForRelaunch \/ Relaunch \/
           ResumeBegins
    BY <1>6 DEF ClearField, Act, SubmitField, At, Goto, HasPage, OpenBegins, OpenNavigates, CloseForRelaunch,
        Relaunch, ResumeBegins
  <1>7. CASE ReopenTakesOver
    BY <1>7 DEF ReopenTakesOver, At, Goto
  <1>8. CASE HandoffGrants
    BY <1>8 DEF HandoffGrants, At
  <1>9. CASE TakeoverReleases
    BY <1>9 DEF TakeoverReleases, At, Goto
  <1>10. CASE ActionEnds
    BY <1>10 DEF ActionEnds, At, Settle, Waited, AfterScan, ScanPauses, RestoredState,
        RequireReady, Succeeds
  <1>11. CASE HandoffEnds
    BY <1>11 DEF HandoffEnds, At, Settle, Waited, RestoredState, RequireReady, Succeeds
  <1>12. CASE ReopenEnds
    BY <1>12 DEF ReopenEnds, At, Settle, Waited, RestoredState, RequireReady
  <1>13. CASE ResumeEnds
    BY <1>13 DEF ResumeEnds, At, Settle, Waited
  <1>14. CASE TaskTimesOut
    BY <1>14 DEF TaskTimesOut, Aborted
  <1>15. CASE ScanEnds
    BY <1>15 DEF ScanEnds, AfterScan, ScanPauses, Aborted
  <1>16. CASE PageCrashes
    BY <1>16 DEF PageCrashes, Aborted
  <1>17. CASE StopCall
    BY <1>17 DEF StopCall, Aborted
  <1>18. ASSUME NEW op \in Kinds, NEW token \in 0..MaxGen, Submit(op, token)
        PROVE  state \in {"BUSY", "STOPPED"}
    BY <1>18 DEF Submit
  <1>19. CASE TaskRefused \/ ScanBegins \/ PageChanges \/ StartCall \/ StartLaunched \/
           StartLoaded \/ StartScanned
    BY <1>19 DEF TaskRefused, ScanBegins, PageChanges, StartCall, StartLaunched,
        StartLoaded, StartScanned
  <1>20. CASE StartFails \/ StopDrained \/ StopCloses \/ StopEnds \/ DrainTimesOut \/
           LeaseRuns
    BY <1>20 DEF StartFails, StopDrained, StopCloses, StopEnds, DrainTimesOut, LeaseRuns
  <1> QED
    BY <1>1, <1>2, <1>3, <1>4, <1>5, <1>6, <1>7, <1>8, <1>9, <1>10, <1>11, <1>12,
        <1>13, <1>14, <1>15, <1>16, <1>17, <1>18, <1>19, <1>20
    DEF SessionNext, TaskStep, StartStep, StopStep

\* The steps that leave a pause towards READY are the ends of takeover and resume.
LEMMA PauseStep ==
    ASSUME SessionTypeOK, SessionNext, starting = "done",
           state = "PAUSED_CHALLENGE", state' \in {"READY", "BUSY"}
    PROVE  task.op = "takeover" \/ (task.op = "resume" /\ ~task.seen)
  <1> USE DEF RequireReady, Writes
  <1>1. CASE TaskBegins
    BY <1>1 DEF TaskBegins, Gate, AllowUserControl
  <1>2. CASE TaskPrescanned
    BY <1>2 DEF TaskPrescanned, At, AfterScan, ScanPauses, PreserveExistingPause
  <1>3. CASE TaskPausedByPrescan
    BY <1>3 DEF TaskPausedByPrescan, At, Settle, Waited, AfterScan, ScanPauses,
        PreserveExistingPause
  <1>4. CASE ReadPage \/ TaskFails
    BY <1>4 DEF ReadPage, At, Settle, Waited, RestoredState, HasPage, TaskFails
  <1>5. CASE ReopenTakesOver
    BY <1>5 DEF ReopenTakesOver, At, Goto
  <1>6. CASE HandoffGrants
    BY <1>6 DEF HandoffGrants, At
  <1>7. CASE TakeoverReleases
    BY <1>7 DEF TakeoverReleases, At, Goto
  <1>8. CASE ActionEnds
    BY <1>8 DEF ActionEnds, At, Settle, Waited, AfterScan, ScanPauses, RestoredState,
        Succeeds
  <1>9. CASE HandoffEnds
    BY <1>9 DEF HandoffEnds, At, Settle, Waited, RestoredState, Succeeds
  <1>10. CASE ReopenEnds
    BY <1>10 DEF ReopenEnds, At, Settle, Waited, RestoredState
  <1>11. CASE ResumeEnds
    BY <1>11 DEF ResumeEnds, At, Settle, Waited
  <1>12. CASE ScanEnds
    BY <1>12 DEF ScanEnds, AfterScan, ScanPauses, Aborted
  <1>13. CASE PageCrashes
    BY <1>13 DEF PageCrashes, Aborted
  <1>14. CASE StartCall \/ StartLoaded
    BY <1>14 DEF StartCall, StartLoaded
  <1>15. CASE StartScanned
    BY <1>15 DEF StartScanned, AfterScan, ScanPauses
  <1>16. CASE StartFails
    BY <1>16 DEF StartFails
  <1>17. CASE StopCall
    BY <1>17 DEF StopCall, Aborted
  <1>18. CASE StopEnds
    BY <1>18 DEF StopEnds
  <1>19. ASSUME NEW op \in Kinds, NEW token \in 0..MaxGen, Submit(op, token)
        PROVE  task.op = "takeover" \/ (task.op = "resume" /\ ~task.seen)
    BY <1>19 DEF Submit
  <1>20. CASE TaskSamples \/ ClearField \/ Act \/ SubmitField \/ OpenBegins \/ OpenNavigates \/ CloseForRelaunch \/
           Relaunch \/ ResumeBegins
    BY <1>20 DEF TaskSamples, ClearField, Act, SubmitField, Goto, OpenBegins, OpenNavigates, CloseForRelaunch,
        Relaunch, ResumeBegins
  <1>21. CASE TaskRefused \/ TaskTimesOut \/ ScanBegins \/ PageChanges \/
           StartLaunched \/ StopDrained \/ StopCloses
    BY <1>21 DEF TaskRefused, TaskTimesOut, ScanBegins, PageChanges, StartLaunched,
        StopDrained, StopCloses
  <1>22. CASE DrainTimesOut \/ LeaseRuns
    BY <1>22 DEF DrainTimesOut, LeaseRuns
  <1> QED
    BY <1>1, <1>2, <1>3, <1>4, <1>5, <1>6, <1>7, <1>8, <1>9, <1>10, <1>11, <1>12,
        <1>13, <1>14, <1>15, <1>16, <1>17, <1>18, <1>19, <1>20, <1>21, <1>22
    DEF SessionNext, TaskStep, StartStep, StopStep

-------------------------------------------------------------------------------
\* The theorems.

\* A session that was constructed and not yet started.
LEMMA InitInv == SessionInit => SessionInv
  <1> SUFFICES ASSUME SessionInit
               PROVE  SessionInv
    OBVIOUS
  <1>1. Coherent(lease) /\ AgentWriteAllowed(lease) /\ lease.owner = "agent"
    BY DEF SessionInit, FreshLease, Coherent, LeaseRecord, Live, HandoffStates, Owners,
           AgentWriteAllowed
  <1>2. SessionTypeOK
    <2>1. task \in Task /\ state \in States
      BY DEF SessionInit, Task, States
    <2>2. queue \in Seq(Call) /\ scans \subseteq BOOLEAN /\ granted \subseteq Nat
      BY DEF SessionInit
    <2> QED
      BY <1>1, <2>1, <2>2 DEF SessionInit, SessionTypeOK, LeaseTypeOK, Coherent
  <1>3. ~Running /\ queue = << >> /\ depth = 0 /\ state = "STOPPED"
    BY DEF SessionInit, Running
  <1>4. QueueAccounted
    BY <1>3, SessionAssumption DEF QueueAccounted
  <1>5. BusyOwned /\ StartedFirst /\ WritesWhileBusy
    BY <1>3 DEF BusyOwned, StartedFirst, WritesWhileBusy
  <1> QED
    BY <1>1, <1>2, <1>4, <1>5 DEF SessionInv, AgentsTurn, PersonsTurn

\* Every step of the session keeps the invariant.
LEMMA InvStep == SessionInv /\ [SessionNext]_sessionVars => SessionInv'
  <1> SUFFICES ASSUME SessionInv, [SessionNext]_sessionVars
               PROVE  SessionInv'
    OBVIOUS
  <1> USE DEF SessionInv
  <1>1. CASE SessionNext
    <2>1. Coherent(lease)'
      BY <1>1, CoherentStep
    <2>2. SessionTypeOK'
      <3>1. task' \in Task
        BY <1>1, TaskTypeStep
      <3>2. FieldsTypeOK'
        BY <1>1, FieldsTypeStep
      <3> QED
        BY <2>1, <3>1, <3>2 DEF FieldsTypeOK, SessionTypeOK, LeaseTypeOK, Coherent
    <2>3. QueueAccounted' /\ BusyOwned'
      BY <1>1, QueueStep, BusyStep
    <2>4. StartedFirst' /\ WritesWhileBusy'
      BY <1>1, StartedStep, WritesStep
    <2>5. Crashes = FALSE => AgentsTurn' /\ PersonsTurn'
      BY <1>1, AgentsStep, PersonsStep
    <2> QED
      BY <2>1, <2>2, <2>3, <2>4, <2>5
  <1>2. CASE UNCHANGED sessionVars
    <2>1. SessionTypeOK' /\ Coherent(lease)'
      BY <1>2
      DEF sessionVars, browserVars, queueVars, lifeVars, callerVars, SessionTypeOK,
          LeaseTypeOK
    <2>2. QueueAccounted' /\ BusyOwned' /\ StartedFirst' /\ WritesWhileBusy'
      BY <1>2
      DEF sessionVars, queueVars, lifeVars, QueueAccounted, BusyOwned, StartedFirst,
          WritesWhileBusy, Running
    <2>3. Crashes = FALSE => AgentsTurn' /\ PersonsTurn'
      BY <1>2 DEF sessionVars, lifeVars, AgentsTurn, PersonsTurn
    <2> QED
      BY <2>1, <2>2, <2>3
  <1> QED
    BY <1>1, <1>2

\* Every reachable state of a session satisfies the invariant.
THEOREM SessionInvariance == SessionSpec => []SessionInv
  BY InitInv, InvStep, PTL DEF SessionSpec

(* queueDepth, the task that runs and BUSY: whatever is refused, paused,     *)
(* aborted, timed out or stopped, the counter that admits actions counts     *)
(* exactly those that wait or run, and BUSY is the state of one of them.     *)
THEOREM SessionAccountedFor == SessionSpec => []SessionAccounted
  <1>1. SessionInv => SessionAccounted
    BY DEF SessionInv, SessionAccounted
  <1> QED
    BY <1>1, SessionInvariance, PTL

(* The scheduler's abort check: no input after a scan, a crash or a stop     *)
(* that came while the action was suspended, except on a browser that a      *)
(* relaunch left behind a stop() that no longer waited for it.               *)
THEOREM SchedulerActs == SessionSpec => SchedulerActsInBusy
  <1> DEFINE Acts == task.op = "input" /\ task.at \in {"body", "typing"}
                        /\ task'.op = task.op /\ task'.at \in {"typed", "postscan"}
                     => state \in {"BUSY", "STOPPED"}
  <1>1. SessionInv /\ [SessionNext]_sessionVars => [Acts]_sessionVars
    BY ActsStep DEF SessionInv
  <1> QED
    BY <1>1, SessionInvariance, PTL DEF SessionSpec, SchedulerActsInBusy

\* A challenge pause ends in a takeover or in a resume that saw no challenge.
THEOREM PauseEndsByPerson == SessionSpec => PauseNeedsHuman
  <1> DEFINE Ends ==
        starting = "done" /\ state = "PAUSED_CHALLENGE" /\ state' \in {"READY", "BUSY"}
          => task.op = "takeover" \/ (task.op = "resume" /\ ~task.seen)
  <1>1. SessionInv /\ [SessionNext]_sessionVars => [Ends]_sessionVars
    BY PauseStep DEF SessionInv
  <1> QED
    BY <1>1, SessionInvariance, PTL DEF SessionSpec, PauseNeedsHuman

(* The lease and the session agree about whose turn it is, as long as the    *)
(* page does not crash: automation is offered, and acts, only while the      *)
(* browser is the agent's.                                                   *)
THEOREM AgentActsInTurn ==
    ASSUME Crashes = FALSE
    PROVE  SessionSpec => OnlyAgentActs
  <1>1. SessionInv' => ReadyMeansAgent'
    BY DEF SessionInv, AgentsTurn, ReadyMeansAgent
  <1>2. SessionInv => SingleWriter
    BY DEF SessionInv, PersonsTurn, SingleWriter, WritesPage, AgentTasks
  <1>3. SessionInv /\ [SessionNext]_sessionVars
          => [ReadyMeansAgent' /\ SingleWriter]_sessionVars
    BY <1>1, <1>2, InvStep
  <1> QED
    BY <1>3, SessionInvariance, PTL DEF SessionSpec, OnlyAgentActs
===============================================================================
