------------------------------- MODULE MCLive -------------------------------
(* Three components that share no state, for what must end by itself.  The  *)
(* initial state chooses the component that runs; the others stay in their  *)
(* initial states, and a fair action is one of the component that runs.     *)
EXTENDS ControlLease, Workflow, ControlPlane, TLC

CONSTANTS f1, f2, x1, a1
VARIABLE part

Actions    == (f1 :> a1) @@ (f2 :> a1)
Inputs     == (f1 :> 1) @@ (f2 :> 1)
\* open, then type with clearFirst and submit; and two clicks.
Writing    == (f1 :> << <<"blind">>, <<"blind", "checked", "blind">> >>)
              @@ (f2 :> << <<"checked">>, <<"checked">> >>)
Triggers   == (f1 :> {"navigation"}) @@ (f2 :> {})
Expected   == (f1 :> TRUE) @@ (f2 :> TRUE)

liveVars == <<part, lease, vars, cpVars>>

LiveInit == part \in {"lease", "workflow", "bridge"} /\ LeaseInit /\ Init /\ PlaneInit

\* Bound: beside a first workflow runs a second one or another write, not both.
TwoRequests == other[x1] = "new" \/ flow[f2] = New

LiveNext ==
    \/ part = "lease" /\ LeaseNext /\ UNCHANGED <<part, vars, cpVars>>
    \/ part = "workflow" /\ Next /\ TwoRequests' /\ UNCHANGED <<part, lease, cpVars>>
    \/ part = "bridge" /\ PlaneNext /\ UNCHANGED <<part, lease, vars>>

(* The fairness of each component while it is the one that runs: that of    *)
(* LeaseFairSpec, FairSpec and PlaneFairSpec.                                *)
Runs(p, A) == part = p /\ A

LiveFairness ==
    /\ WF_lease(Runs("lease", FireTimer))
    /\ \A f \in Flows : /\ WF_vars(Runs("workflow", ReadInitial(f)))
                        /\ WF_vars(Runs("workflow", Invoke(f)))
                        /\ WF_vars(Runs("workflow", Deadline(f)))
                        /\ WF_vars(Runs("workflow", After(f)))
                        /\ WF_vars(Runs("workflow", Finish(f)))
    /\ WF_cpVars(Runs("bridge", TimerFires /\ UNCHANGED <<poolVars, wire, events>>))
    /\ WF_cpVars(Runs("bridge", ConfigLoaded /\ UNCHANGED <<poolVars, wire, events>>))
    /\ WF_cpVars(Runs("bridge", CreateSocket))
    /\ \A s \in Sockets : /\ WF_cpVars(Runs("bridge", Upgrade(s)))
                          /\ WF_cpVars(Runs("bridge", SendReady(s) /\ UNCHANGED <<poolVars, wire, events>>))
                          /\ WF_cpVars(Runs("bridge", ReadyArrives(s)))
                          /\ WF_cpVars(Runs("bridge", PoolSeesClose(s)))
                          /\ WF_cpVars(Runs("bridge", ExtensionSeesClose(s)))
    /\ \A r \in Requests : WF_cpVars(Runs("bridge", CallTimeout(r)))

LiveSpec == LiveInit /\ [][LiveNext]_liveVars /\ LiveFairness

\* What must end by itself ends: handoffs (expireLease), workflow reservations
\* (BrowserSession.workflow), calls to the extension and its reconnecting.
EverythingEnds == /\ LapsedHandoffEnds /\ ReservationEnds
                  /\ part = "bridge" => ConnectionSettles
=============================================================================
