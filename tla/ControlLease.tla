----------------------------- MODULE ControlLease -----------------------------
(***************************************************************************)
(* The process-local state machine of human handoff, ControlLeaseManager   *)
(* of src/browser/control-lease.ts.                                        *)
(*                                                                         *)
(* The manager's fields are one record and every method is an operator     *)
(* from the record it finds to the record it leaves, so that a session can *)
(* call two methods in one synchronous step.  A call that throws leaves    *)
(* what the lazy expiry at its start left.  A token is the number of the   *)
(* handoff that issued it; the wall clock is reduced to one bit, whether   *)
(* the current lease has reached expiresAt.                                *)
(***************************************************************************)
EXTENDS Naturals

CONSTANT MaxGen         \* bound on the handoffs of one behaviour

ASSUME MaxGenAssumption == MaxGen \in Nat \ {0}

VARIABLE lease

HandoffStates == {"NONE", "PENDING", "ACTIVE", "RELEASED", "EXPIRED"}
Owners        == {"agent", "user", "none"}
Actors        == {"agent", "user", "system"}

(* owner and controlState are assigned together everywhere, so one field     *)
(* stands for both.  gen is the generation of currentLease and 0 when there  *)
(* is none, digest the token its digest matches and 0 once it is zeroed, due *)
(* tells that the clock has reached expiresAt, timer is the generation the   *)
(* armed expiry timer was scheduled for and 0 when none is armed.            *)
LeaseRecord ==
    [owner : Owners, handoff : HandoffStates, gen : Nat, digest : Nat,
     due : BOOLEAN, timer : Nat, next : Nat]

FreshLease ==
    [owner |-> "agent", handoff |-> "NONE", gen |-> 0, digest |-> 0,
     due |-> FALSE, timer |-> 0, next |-> 0]

Live(l) == l.handoff \in {"PENDING", "ACTIVE"}

\* expireLease: a timer that fires early is scheduled again.
ExpireLease(l, g) ==
    IF l.gen = 0 \/ l.gen # g \/ l.handoff = "EXPIRED" THEN l
    ELSE IF ~l.due THEN [l EXCEPT !.timer = g]
    ELSE [l EXCEPT !.timer = 0, !.digest = 0, !.owner = "none", !.handoff = "EXPIRED"]

\* The lazy check at the start of every public method.
ExpireIfDue(l) ==
    IF l.gen # 0 /\ Live(l) /\ l.due THEN ExpireLease(l, l.gen) ELSE l

\* matchesToken: the digest of the presented token against the stored one.
MatchesToken(l, t) == l.gen # 0 /\ t # 0 /\ t = l.digest

AgentWriteAllowed(l) == l.owner = "agent" /\ l.handoff = "NONE"

RequestHandoff(l, actor) ==
    LET e == ExpireIfDue(l)
    IN  IF actor = "agent" /\ e.handoff \in {"NONE", "EXPIRED"} /\ e.owner # "user"
        THEN [e EXCEPT !.next = e.next + 1, !.gen = e.next + 1, !.digest = e.next + 1,
                       !.due = FALSE, !.timer = e.next + 1,
                       !.owner = "none", !.handoff = "PENDING"]
        ELSE e

\* A confirmed user claims a pending handoff; repeating it changes nothing.
Takeover(l, actor, t, confirmed) ==
    LET e == ExpireIfDue(l)
    IN  IF actor = "user" /\ confirmed /\ e.handoff = "PENDING" /\ MatchesToken(e, t)
        THEN [e EXCEPT !.owner = "user", !.handoff = "ACTIVE"]
        ELSE e

Release(l, actor, t, confirmed) ==
    LET e == ExpireIfDue(l)
    IN  IF actor = "user" /\ confirmed /\ e.handoff = "ACTIVE" /\ MatchesToken(e, t)
        THEN [e EXCEPT !.timer = 0, !.digest = 0, !.gen = 0,
                       !.owner = "none", !.handoff = "RELEASED"]
        ELSE e

\* Mutant: resume also returns control after the lease has expired.
ResumeExpired(l, actor) ==
    LET e == ExpireIfDue(l)
    IN  IF actor = "agent" /\ e.handoff \in {"RELEASED", "EXPIRED"}
        THEN [e EXCEPT !.owner = "agent", !.handoff = "NONE"]
        ELSE e

\* Only a release or a recovery lets the agent resume.
Resume(l, actor) ==
    LET e == ExpireIfDue(l)
    IN  IF actor = "agent" /\ e.handoff = "RELEASED"
        THEN [e EXCEPT !.owner = "agent", !.handoff = "NONE"]
        ELSE e

RecoverExpired(l, actor, confirmed) ==
    LET e == ExpireIfDue(l)
    IN  IF actor = "user" /\ confirmed /\ e.handoff = "EXPIRED"
        THEN [e EXCEPT !.gen = 0, !.owner = "none", !.handoff = "RELEASED"]
        ELSE e

Dispose(l) ==
    [l EXCEPT !.timer = 0, !.digest = 0, !.gen = 0,
              !.owner = "none", !.handoff = "EXPIRED"]

\* The handle is spent when the timer fires, at expiresAt or a little early.
TimerFired(l) == ExpireLease([l EXCEPT !.timer = 0], l.timer)

-------------------------------------------------------------------------------
\* The manager on its own: any caller, any token, any confirmation.

CallHandoff(a) ==
    /\ lease.next < MaxGen
    /\ lease' = RequestHandoff(lease, a)

CallTakeover(a, t, c) == lease' = Takeover(lease, a, t, c)

CallRelease(a, t, c) == lease' = Release(lease, a, t, c)

CallResume(a) == lease' = Resume(lease, a)

CallRecover(a, c) == lease' = RecoverExpired(lease, a, c)

\* status(), assertCanAct(), canAgentAct() and the other observers.
CallStatus == lease' = ExpireIfDue(lease)

CallDispose == lease' = Dispose(lease)

ReachExpiry ==
    /\ Live(lease) /\ ~lease.due
    /\ lease' = [lease EXCEPT !.due = TRUE]

FireTimer ==
    /\ lease.timer # 0
    /\ lease' = TimerFired(lease)

LeaseInit == lease = FreshLease

LeaseNext ==
    \/ \E a \in Actors : CallHandoff(a) \/ CallResume(a)
    \/ \E a \in Actors, t \in 0..MaxGen, c \in BOOLEAN :
          CallTakeover(a, t, c) \/ CallRelease(a, t, c)
    \/ \E a \in Actors, c \in BOOLEAN : CallRecover(a, c)
    \/ CallStatus \/ CallDispose \/ ReachExpiry \/ FireTimer

LeaseSpec == LeaseInit /\ [][LeaseNext]_lease

\* The host runs every armed timer; nothing else is guaranteed to happen.
LeaseFairSpec == LeaseSpec /\ WF_lease(FireTimer)

-------------------------------------------------------------------------------
Usable(l, t) == MatchesToken(l, t) /\ Live(l)

(* What a record of the manager satisfies between calls.  The owner follows  *)
(* the handoff state, and a live lease is the newest one, with its digest in *)
(* place and its timer armed.                                                *)
Coherent(l) ==
    /\ l \in LeaseRecord
    /\ l.gen <= l.next
    /\ (l.owner = "agent") <=> (l.handoff = "NONE")
    /\ (l.owner = "user") <=> (l.handoff = "ACTIVE")
    /\ Live(l) => l.gen # 0 /\ l.gen = l.next /\ l.digest = l.gen /\ l.timer = l.gen
    /\ ~Live(l) => l.digest = 0 /\ l.timer = 0

LeaseInv == Coherent(lease)

\* The fields of the manager are of the kinds the class declares.
LeaseTypeOK == lease \in LeaseRecord

(* scheduleExpiry, expireLease, release and dispose between them: a handoff  *)
(* that is pending or active always has its own expiry timer armed, and no   *)
(* timer outlives the lease it was scheduled for.                            *)
TimerGuardsLease ==
    /\ Live(lease) => lease.gen # 0 /\ lease.timer = lease.gen
    /\ ~Live(lease) => lease.timer = 0

(* clearDigest, expireLease and the generation counter: a token that was     *)
(* issued and is no longer usable is never usable again, whatever handoffs,  *)
(* expiries and recoveries follow.                                           *)
TokenRetired ==
    [][\A t \in 1..MaxGen :
          t <= lease.next /\ ~Usable(lease, t) => ~Usable(lease', t)]_lease

(* The class comment's two-phase protocol: nobody is owner between agent and *)
(* user, and the agent never reclaims without a confirmed release or         *)
(* recovery.                                                                 *)
Ownership ==
    INSTANCE ControlOwnership
    WITH owner <- lease.owner, consent <- (lease.handoff = "RELEASED")

OwnershipKept == Ownership!Spec

(* expireLease's reschedule: once the clock has passed expiresAt, a handoff  *)
(* that nobody returns ends by itself, even if its timer fired too early.    *)
LapsedHandoffEnds ==
    \A g \in 1..MaxGen :
        (Live(lease) /\ lease.gen = g /\ lease.due) ~> ~(Live(lease) /\ lease.gen = g)
===============================================================================
