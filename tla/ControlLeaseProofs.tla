-------------------------- MODULE ControlLeaseProofs --------------------------
(***************************************************************************)
(* Theorems about the control lease, for any number of handoffs.  The      *)
(* inductive invariant is Coherent; every method of the manager preserves  *)
(* it, relates the old record to the new one as ControlOwnership allows    *)
(* and revives no retired token.                                           *)
(***************************************************************************)
EXTENDS ControlLease, TLAPS

(* What a method may do with a record: keep it coherent, never lower the     *)
(* generation counter, move ownership as the abstract specification allows,  *)
(* and make usable only a token it issues.                                   *)
Lawful(l, m) ==
    /\ Coherent(m)
    /\ l.next <= m.next
    /\ \/ m.owner = l.owner /\ ((m.handoff = "RELEASED") <=> (l.handoff = "RELEASED"))
       \/ m.owner = "none" /\ m.handoff # "RELEASED"
       \/ l.owner = "none" /\ l.handoff # "RELEASED"
             /\ m.owner = "user" /\ m.handoff # "RELEASED"
       \/ l.owner \in {"user", "none"} /\ m.owner = "none" /\ m.handoff = "RELEASED"
       \/ l.handoff = "RELEASED" /\ m.owner = "agent" /\ m.handoff # "RELEASED"
    /\ \A t \in Nat : t <= l.next /\ ~Usable(l, t) => ~Usable(m, t)

\* A method that changes nothing is lawful.
LEMMA UnchangedLawful ==
    ASSUME NEW l, Coherent(l)
    PROVE  Lawful(l, l)
  BY DEF Lawful, Coherent, LeaseRecord

(* The shape most methods share: a record that is not live, with no timer    *)
(* and no digest, is lawful whenever its ownership is.                       *)
LEMMA QuietLawful ==
    ASSUME NEW l, Coherent(l), NEW m \in LeaseRecord,
           m.gen <= m.next, m.next = l.next, m.digest = 0, m.timer = 0, ~Live(m),
           (m.owner = "agent") <=> (m.handoff = "NONE"), m.owner # "user",
           \/ m.owner = "none" /\ m.handoff # "RELEASED"
           \/ l.owner \in {"user", "none"} /\ m.owner = "none" /\ m.handoff = "RELEASED"
           \/ l.handoff = "RELEASED" /\ m.owner = "agent" /\ m.handoff # "RELEASED"
    PROVE  Lawful(l, m)
  <1>1. Coherent(m)
    BY DEF Coherent, Live
  <1>2. l.next <= m.next
    BY DEF Coherent, LeaseRecord
  <1>3. \A t \in Nat : t <= l.next /\ ~Usable(l, t) => ~Usable(m, t)
    BY DEF Usable
  <1> QED
    BY <1>1, <1>2, <1>3 DEF Lawful

\* The lazy expiry leaves the record alone, or expires a lease that was live.
LEMMA ExpireIfDueCases ==
    ASSUME NEW l, Coherent(l)
    PROVE  LET e == ExpireIfDue(l)
           IN  \/ e = l
               \/ /\ Live(l) /\ l.owner # "agent"
                  /\ e \in LeaseRecord
                  /\ e.handoff = "EXPIRED" /\ e.owner = "none"
                  /\ e.digest = 0 /\ e.timer = 0
                  /\ e.gen = l.gen /\ e.next = l.next
  <1> DEFINE m == [l EXCEPT !.timer = 0, !.digest = 0, !.owner = "none",
                            !.handoff = "EXPIRED"]
  <1>1. m \in LeaseRecord /\ m.handoff = "EXPIRED" /\ m.owner = "none" /\ m.digest = 0
           /\ m.timer = 0 /\ m.gen = l.gen /\ m.next = l.next
    BY DEF Coherent, LeaseRecord, HandoffStates, Owners
  <1>2. CASE Live(l) /\ l.due
    <2>1. ExpireIfDue(l) = m
      BY <1>2 DEF ExpireIfDue, ExpireLease, Coherent, Live
    <2>2. l.owner # "agent"
      BY <1>2 DEF Coherent, Live
    <2> HIDE DEF m
    <2> QED
      BY <1>1, <1>2, <2>1, <2>2
  <1>3. CASE ~(Live(l) /\ l.due)
    BY <1>3 DEF ExpireIfDue
  <1> QED
    BY <1>2, <1>3

\* The lazy expiry is lawful.
LEMMA ExpireIfDueLawful ==
    ASSUME NEW l, Coherent(l)
    PROVE  /\ Lawful(l, ExpireIfDue(l))
           /\ Coherent(ExpireIfDue(l))
           /\ ExpireIfDue(l).next = l.next
  <1> DEFINE e == ExpireIfDue(l)
  <1>1. CASE e = l
    BY <1>1, UnchangedLawful
  <1>2. CASE /\ Live(l) /\ l.owner # "agent"
             /\ e \in LeaseRecord
             /\ e.handoff = "EXPIRED" /\ e.owner = "none"
             /\ e.digest = 0 /\ e.timer = 0
             /\ e.gen = l.gen /\ e.next = l.next
    <2> HIDE DEF e
    <2>1. e.gen <= e.next /\ ~Live(e)
      BY <1>2 DEF Coherent, Live
    <2>2. Lawful(l, e)
      BY <1>2, <2>1, QuietLawful
    <2> QED
      BY <1>2, <2>2 DEF e, Lawful
  <1> QED
    BY <1>1, <1>2, ExpireIfDueCases

\* A new handoff is pending under a fresh generation.
LEMMA RequestHandoffLawful ==
    ASSUME NEW l, Coherent(l), NEW a
    PROVE  Lawful(l, RequestHandoff(l, a))
  <1> DEFINE e == ExpireIfDue(l)
             n == e.next + 1
             m == [e EXCEPT !.next = n, !.gen = n, !.digest = n, !.due = FALSE, !.timer = n,
                            !.owner = "none", !.handoff = "PENDING"]
  <1>1. Lawful(l, e) /\ Coherent(e) /\ e.next = l.next
    BY ExpireIfDueLawful
  <1> HIDE DEF e
  <1>0. n \in Nat /\ n = l.next + 1
    BY <1>1 DEF Coherent, LeaseRecord
  <1> HIDE DEF n
  <1>2. m \in LeaseRecord /\ m.next = l.next + 1 /\ m.gen = l.next + 1
           /\ m.digest = l.next + 1 /\ m.timer = l.next + 1 /\ m.owner = "none"
           /\ m.handoff = "PENDING"
    BY <1>0, <1>1 DEF Coherent, LeaseRecord, HandoffStates, Owners
  <1> HIDE DEF m
  <1>3. l.next \in Nat
    BY DEF Coherent, LeaseRecord
  <1>4. Coherent(m)
    BY <1>2, <1>3 DEF Coherent, Live
  <1>5. \A t \in Nat : t <= l.next => ~Usable(m, t)
    BY <1>2, <1>3 DEF Usable, MatchesToken
  <1>6. Lawful(l, m)
    BY <1>2, <1>3, <1>4, <1>5 DEF Lawful
  <1>7. RequestHandoff(l, a) \in {m, e}
    BY DEF RequestHandoff, e, m, n
  <1> QED
    BY <1>1, <1>6, <1>7

\* Only the token of the pending lease makes a person the owner.
LEMMA TakeoverLawful ==
    ASSUME NEW l, Coherent(l), NEW a, NEW t, NEW c
    PROVE  Lawful(l, Takeover(l, a, t, c))
  <1> DEFINE e == ExpireIfDue(l)
             m == [e EXCEPT !.owner = "user", !.handoff = "ACTIVE"]
  <1>1. Lawful(l, e) /\ Coherent(e) /\ e.next = l.next
    BY ExpireIfDueLawful
  <1>2. e = l \/ e.handoff = "EXPIRED"
    BY ExpireIfDueCases
  <1> HIDE DEF e
  <1>3. CASE Takeover(l, a, t, c) = e
    BY <1>1, <1>3
  <1>4. CASE Takeover(l, a, t, c) = m /\ e.handoff = "PENDING"
    <2>1. e = l /\ l.handoff = "PENDING" /\ l.owner = "none"
      BY <1>2, <1>4 DEF Coherent, LeaseRecord, Owners
    <2>2. m \in LeaseRecord /\ m.next = l.next /\ m.gen = l.gen /\ m.digest = l.digest
             /\ m.timer = l.timer /\ m.owner = "user" /\ m.handoff = "ACTIVE"
      BY <2>1 DEF Coherent, LeaseRecord, HandoffStates, Owners
    <2> HIDE DEF m
    <2>3. Coherent(m) /\ l.next <= m.next
      BY <2>1, <2>2 DEF Coherent, Live, LeaseRecord
    <2>4. \A u \in Nat : Usable(m, u) => Usable(l, u)
      BY <2>1, <2>2 DEF Usable, MatchesToken, Live
    <2>5. Lawful(l, m)
      BY <2>1, <2>2, <2>3, <2>4 DEF Lawful
    <2> QED
      BY <1>4, <2>5
  <1> QED
    BY <1>3, <1>4 DEF Takeover, e, m

\* A release spends the token and disarms the timer.
LEMMA ReleaseLawful ==
    ASSUME NEW l, Coherent(l), NEW a, NEW t, NEW c
    PROVE  Lawful(l, Release(l, a, t, c))
  <1> DEFINE e == ExpireIfDue(l)
             m == [e EXCEPT !.timer = 0, !.digest = 0, !.gen = 0,
                            !.owner = "none", !.handoff = "RELEASED"]
  <1>1. Lawful(l, e) /\ Coherent(e) /\ e.next = l.next
    BY ExpireIfDueLawful
  <1>2. e = l \/ e.handoff = "EXPIRED"
    BY ExpireIfDueCases
  <1> HIDE DEF e
  <1>3. CASE Release(l, a, t, c) = e
    BY <1>1, <1>3
  <1>4. CASE Release(l, a, t, c) = m /\ e.handoff = "ACTIVE"
    <2>1. l.owner = "user"
      BY <1>2, <1>4 DEF Coherent
    <2>2. m \in LeaseRecord /\ m.next = l.next /\ m.gen = 0 /\ m.digest = 0
             /\ m.timer = 0 /\ m.owner = "none" /\ m.handoff = "RELEASED"
      BY <1>1 DEF Coherent, LeaseRecord, HandoffStates, Owners
    <2> HIDE DEF m
    <2>3. m.gen <= m.next /\ ~Live(m)
      BY <2>2 DEF Live, LeaseRecord
    <2> QED
      BY <1>4, <2>1, <2>2, <2>3, QuietLawful
  <1> QED
    BY <1>3, <1>4 DEF Release, e, m

\* The agent resumes out of a release only.
LEMMA ResumeLawful ==
    ASSUME NEW l, Coherent(l), NEW a
    PROVE  Lawful(l, Resume(l, a))
  <1> DEFINE e == ExpireIfDue(l)
             m == [e EXCEPT !.owner = "agent", !.handoff = "NONE"]
  <1>1. Lawful(l, e) /\ Coherent(e) /\ e.next = l.next
    BY ExpireIfDueLawful
  <1>2. e = l \/ e.handoff = "EXPIRED"
    BY ExpireIfDueCases
  <1> HIDE DEF e
  <1>3. CASE Resume(l, a) = e
    BY <1>1, <1>3
  <1>4. CASE Resume(l, a) = m /\ e.handoff = "RELEASED"
    <2>1. e = l /\ l.handoff = "RELEASED"
      BY <1>2, <1>4
    <2>2. m \in LeaseRecord /\ m.next = l.next /\ m.gen = l.gen /\ m.digest = l.digest
             /\ m.timer = l.timer /\ m.owner = "agent" /\ m.handoff = "NONE"
      BY <2>1 DEF Coherent, LeaseRecord, HandoffStates, Owners
    <2> HIDE DEF m
    <2>3. m.gen <= m.next /\ ~Live(m) /\ m.digest = 0 /\ m.timer = 0
      BY <2>1, <2>2 DEF Coherent, Live, LeaseRecord
    <2> QED
      BY <1>4, <2>1, <2>2, <2>3, QuietLawful
  <1> QED
    BY <1>3, <1>4 DEF Resume, e, m

\* A recovery of an expired handoff counts as a return.
LEMMA RecoverExpiredLawful ==
    ASSUME NEW l, Coherent(l), NEW a, NEW c
    PROVE  Lawful(l, RecoverExpired(l, a, c))
  <1> DEFINE e == ExpireIfDue(l)
             m == [e EXCEPT !.gen = 0, !.owner = "none", !.handoff = "RELEASED"]
  <1>1. Lawful(l, e) /\ Coherent(e) /\ e.next = l.next
    BY ExpireIfDueLawful
  <1>2. e = l \/ l.owner # "agent"
    BY ExpireIfDueCases
  <1> HIDE DEF e
  <1>3. CASE RecoverExpired(l, a, c) = e
    BY <1>1, <1>3
  <1>4. CASE RecoverExpired(l, a, c) = m /\ e.handoff = "EXPIRED"
    <2>1. l.owner \in {"user", "none"}
      BY <1>2, <1>4 DEF Coherent, LeaseRecord, Owners
    <2>2. m \in LeaseRecord /\ m.next = l.next /\ m.gen = 0 /\ m.digest = e.digest
             /\ m.timer = e.timer /\ m.owner = "none" /\ m.handoff = "RELEASED"
      BY <1>1 DEF Coherent, LeaseRecord, HandoffStates, Owners
    <2> HIDE DEF m
    <2>3. m.gen <= m.next /\ ~Live(m) /\ m.digest = 0 /\ m.timer = 0
      BY <1>1, <1>4, <2>2 DEF Coherent, Live, LeaseRecord
    <2> QED
      BY <1>4, <2>1, <2>2, <2>3, QuietLawful
  <1> QED
    BY <1>3, <1>4 DEF RecoverExpired, e, m

\* Disposal takes control from everybody.
LEMMA DisposeLawful ==
    ASSUME NEW l, Coherent(l)
    PROVE  Lawful(l, Dispose(l))
  <1> DEFINE m == Dispose(l)
  <1>1. m \in LeaseRecord /\ m.next = l.next /\ m.gen = 0 /\ m.digest = 0
           /\ m.timer = 0 /\ m.owner = "none" /\ m.handoff = "EXPIRED"
    BY DEF Dispose, Coherent, LeaseRecord, HandoffStates, Owners
  <1> HIDE DEF m
  <1>2. m.gen <= m.next /\ ~Live(m)
    BY <1>1 DEF Live, LeaseRecord
  <1>3. Lawful(l, m)
    BY <1>1, <1>2, QuietLawful
  <1> QED
    BY <1>3 DEF m

\* The clock reaching expiresAt changes nobody's rights by itself.
LEMMA ReachExpiryLawful ==
    ASSUME NEW l, Coherent(l)
    PROVE  Lawful(l, [l EXCEPT !.due = TRUE])
  <1> DEFINE m == [l EXCEPT !.due = TRUE]
  <1>1. m \in LeaseRecord /\ m.next = l.next /\ m.gen = l.gen /\ m.digest = l.digest
           /\ m.timer = l.timer /\ m.owner = l.owner /\ m.handoff = l.handoff
    BY DEF Coherent, LeaseRecord
  <1> HIDE DEF m
  <1>2. Coherent(m) /\ l.next <= m.next
    BY <1>1 DEF Coherent, Live, LeaseRecord
  <1>3. \A t \in Nat : Usable(m, t) => Usable(l, t)
    BY <1>1 DEF Usable, MatchesToken, Live
  <1>4. Lawful(l, m)
    BY <1>1, <1>2, <1>3 DEF Lawful
  <1> QED
    BY <1>4 DEF m

\* A timer that fires early is armed again; one that fires in time ends the lease.
LEMMA TimerFiredLawful ==
    ASSUME NEW l, Coherent(l), l.timer # 0
    PROVE  Lawful(l, TimerFired(l))
  <1> DEFINE s == [l EXCEPT !.timer = 0]
             m == [s EXCEPT !.timer = 0, !.digest = 0, !.owner = "none",
                            !.handoff = "EXPIRED"]
  <1>1. Live(l) /\ l.timer = l.gen /\ l.gen # 0 /\ l.handoff # "EXPIRED"
    BY DEF Coherent, Live
  <1>2. s \in LeaseRecord /\ s.gen = l.gen /\ s.due = l.due /\ s.handoff = l.handoff
           /\ s.next = l.next
    BY DEF Coherent, LeaseRecord
  <1>3. CASE l.due
    <2>1. TimerFired(l) = m
      BY <1>1, <1>2, <1>3 DEF TimerFired, ExpireLease
    <2>2. m \in LeaseRecord /\ m.next = l.next /\ m.gen = l.gen /\ m.digest = 0
             /\ m.timer = 0 /\ m.owner = "none" /\ m.handoff = "EXPIRED"
      BY <1>2 DEF LeaseRecord, HandoffStates, Owners
    <2> HIDE DEF m
    <2>3. m.gen <= m.next /\ ~Live(m)
      BY <2>2 DEF Coherent, Live
    <2> QED
      BY <2>1, <2>2, <2>3, QuietLawful
  <1>4. CASE ~l.due
    <2>1. TimerFired(l) = [s EXCEPT !.timer = l.timer]
      BY <1>1, <1>2, <1>4 DEF TimerFired, ExpireLease
    <2>2. [s EXCEPT !.timer = l.timer] = l
      BY DEF Coherent, LeaseRecord
    <2> QED
      BY <2>1, <2>2, UnchangedLawful
  <1> QED
    BY <1>2, <1>3, <1>4 DEF LeaseRecord

\* Every step of the manager is lawful.
LEMMA StepLawful ==
    ASSUME LeaseInv, LeaseNext
    PROVE  Lawful(lease, lease')
  <1>0. Coherent(lease)
    BY DEF LeaseInv
  <1>1. ASSUME NEW a \in Actors, CallHandoff(a) \/ CallResume(a)
        PROVE  Lawful(lease, lease')
    BY <1>0, <1>1, RequestHandoffLawful, ResumeLawful DEF CallHandoff, CallResume
  <1>2. ASSUME NEW a \in Actors, NEW t \in 0..MaxGen, NEW c \in BOOLEAN,
               CallTakeover(a, t, c) \/ CallRelease(a, t, c)
        PROVE  Lawful(lease, lease')
    BY <1>0, <1>2, TakeoverLawful, ReleaseLawful DEF CallTakeover, CallRelease
  <1>3. ASSUME NEW a \in Actors, NEW c \in BOOLEAN, CallRecover(a, c)
        PROVE  Lawful(lease, lease')
    BY <1>0, <1>3, RecoverExpiredLawful DEF CallRecover
  <1>4. CASE CallStatus
    BY <1>0, <1>4, ExpireIfDueLawful DEF CallStatus
  <1>5. CASE CallDispose
    BY <1>0, <1>5, DisposeLawful DEF CallDispose
  <1>6. CASE ReachExpiry
    BY <1>0, <1>6, ReachExpiryLawful DEF ReachExpiry
  <1>7. CASE FireTimer
    BY <1>0, <1>7, TimerFiredLawful DEF FireTimer
  <1> QED
    BY <1>1, <1>2, <1>3, <1>4, <1>5, <1>6, <1>7 DEF LeaseNext

\* Coherent holds between any two calls of the manager's methods.
THEOREM LeaseInvariance == LeaseSpec => []LeaseInv
  <1>1. LeaseInit => LeaseInv
    BY DEF LeaseInit, FreshLease, LeaseInv, Coherent, Live, LeaseRecord, HandoffStates, Owners
  <1>2. LeaseInv /\ [LeaseNext]_lease => LeaseInv'
    <2>1. CASE LeaseNext
      BY <2>1, StepLawful DEF Lawful, LeaseInv
    <2>2. CASE UNCHANGED lease
      BY <2>2 DEF LeaseInv
    <2> QED
      BY <2>1, <2>2
  <1> QED
    BY <1>1, <1>2, PTL DEF LeaseSpec

\* The manager's fields keep the kinds the class declares.
THEOREM LeaseTypeCorrect == LeaseSpec => []LeaseTypeOK
  <1>1. LeaseInv => LeaseTypeOK
    BY DEF LeaseInv, Coherent, LeaseTypeOK
  <1> QED
    BY <1>1, LeaseInvariance, PTL

\* A live handoff always has its own timer armed, and no timer outlives its lease.
THEOREM TimerAlwaysArmed == LeaseSpec => []TimerGuardsLease
  <1>1. LeaseInv => TimerGuardsLease
    BY DEF LeaseInv, Coherent, TimerGuardsLease
  <1> QED
    BY <1>1, LeaseInvariance, PTL

\* A token that stopped being usable is never usable again.
THEOREM TokensRetire == LeaseSpec => TokenRetired
  <1> DEFINE Retires == \A t \in 1..MaxGen :
                 t <= lease.next /\ ~Usable(lease, t) => ~Usable(lease', t)
  <1>1. LeaseInv /\ [LeaseNext]_lease => [Retires]_lease
    BY StepLawful, MaxGenAssumption DEF Lawful
  <1> QED
    BY <1>1, LeaseInvariance, PTL DEF LeaseSpec, TokenRetired

\* The manager implements the ownership protocol of ControlOwnership.
THEOREM LeaseRefinesOwnership == LeaseSpec => OwnershipKept
  <1>1. LeaseInit => Ownership!Init
    BY DEF LeaseInit, FreshLease, Ownership!Init
  <1>2. LeaseInv /\ [LeaseNext]_lease => [Ownership!Next]_(Ownership!ownership)
    <2> SUFFICES ASSUME LeaseInv, [LeaseNext]_lease
                 PROVE  [Ownership!Next]_(Ownership!ownership)
      OBVIOUS
    <2>1. CASE LeaseNext
      <3>1. Lawful(lease, lease')
        BY <2>1, StepLawful
      <3> DEFINE consent == lease.handoff = "RELEASED"
      <3>2. CASE lease'.owner = lease.owner /\ (consent' <=> consent)
        BY <3>2 DEF Ownership!ownership
      <3>3. CASE lease'.owner = "none" /\ ~consent'
        BY <3>3 DEF Ownership!Next, Ownership!Suspend
      <3>4. CASE lease.owner = "none" /\ ~consent /\ lease'.owner = "user" /\ ~consent'
        BY <3>4 DEF Ownership!Next, Ownership!Accept
      <3>5. CASE lease.owner \in {"user", "none"} /\ lease'.owner = "none" /\ consent'
        BY <3>5 DEF Ownership!Next, Ownership!Return
      <3>6. CASE consent /\ lease'.owner = "agent" /\ ~consent'
        BY <3>6 DEF Ownership!Next, Ownership!Reclaim
      <3> QED
        BY <3>1, <3>2, <3>3, <3>4, <3>5, <3>6 DEF Lawful
    <2>2. CASE UNCHANGED lease
      BY <2>2 DEF Ownership!ownership
    <2> QED
      BY <2>1, <2>2
  <1> QED
    BY <1>1, <1>2, LeaseInvariance, PTL DEF LeaseSpec, OwnershipKept, Ownership!Spec
===============================================================================
