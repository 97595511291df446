------------------------- MODULE SessionManagerProofs -------------------------
(***************************************************************************)
(* Theorems about the sessions of this host.                               *)
(*   - the session manager, for any number of sessions, profiles and hosts *)
(*     and any combination of faults;                                      *)
(*   - the REST server's map of running profiles, for any number of        *)
(*     requests that meet at their awaits;                                 *)
(*   - the tabs of one session, for any number of pages and any limit.     *)
(***************************************************************************)
EXTENDS SessionManager, StudioApi, SessionTabs, FiniteSetTheorems, TLAPS

\* What CalmInv says of one session record by itself.
CalmRecord(r) ==
    /\ r.start \in {"idle", "loading", "leasing"} => r.browser = "none"
    /\ r.start = "launching" => r.browser = "starting"
    /\ r.start = "failing" => r.browser = "down"
    /\ r.stop \in {"closing", "draining"} /\ r.browser # "down" => r.listed
    /\ r.browser = "ending" => r.stop \in {"closing", "draining"}

\* What ManagerInv says of one session record by itself.
RecordOK(r) ==
    /\ r \in Session
    /\ r.start \in {"idle", "loading", "leasing"} =>
          ~r.listed /\ ~r.owned /\ r.renew = "off" /\ r.stop = "idle"
    /\ r.start = "releasing" => ~r.owned
    /\ r.stop \in {"releasing", "unwinding"} => ~r.owned
    /\ r.renew = "drop" => ~(r.owned /\ r.listed)
    /\ Calm => CalmRecord(r)

\* The session knows no more than what is saved, and all of it if its version is the
\* newest.
KnowsSaved(r, c) ==
    /\ r.version <= c.version
    /\ r.version = c.version => c.state \subseteq r.state
    /\ r.save = "scanned" => r.next <= c.version + 1

Checkpoints == [version : Nat, state : SUBSET Sessions]

CheckpointOK(c) == c \in Checkpoints /\ (c.version = 0 => c.state = {})

\* The invariant but for the lease and the saves, session by session.
SplitInv ==
    /\ ses \in [Sessions -> Session]
    /\ host \in [Hosts -> {"up", "draining", "shut", "dead"}]
    /\ saved \in [Profiles -> Checkpoints]
    /\ key \in [Profiles -> Sessions \cup {NoSession}]
    /\ \A p \in Profiles : CheckpointOK(saved[p])
    /\ \A s \in Sessions : RecordOK(ses[s]) /\ KnowsSaved(ses[s], saved[Profile[s]])

\* A managed browser is under its lease.
LeaseInv ==
    Calm => \A s \in Sessions :
       Driving(s) => Holds(s) /\ ses[s].owned /\ ses[s].renew \in {"armed", "sent", "renewed"}

\* The three parts are ManagerInv.
LEMMA InvForm == ManagerInv <=> SplitInv /\ LeaseInv /\ SaveInv
  BY DEF ManagerInv, ManagerTypeOK, OwnerInv, LoginInv, CalmInv, RecordOK, CalmRecord, KnowsSaved,
         CheckpointOK, Checkpoints, SplitInv, LeaseInv

\* While all is calm, calls are answered.
LEMMA CalmOutcomes ==
    ASSUME Calm
    PROVE  Outcomes = {"ok"}
  BY DEF Calm, Outcomes

\* A script leaves keys that are free or name a session.
LEMMA ReleaseTypes ==
    ASSUME SplitInv, NEW s \in Sessions, NEW o, ReleaseLease(s, o)
    PROVE  key' \in [Profiles -> Sessions \cup {NoSession}]
  BY ProfileLeaseAssumption DEF SplitInv, ReleaseLease

\* acquire writes the caller or what was there.
LEMMA AcquireTypes ==
    ASSUME SplitInv, NEW s \in Sessions, AcquireWrites(s)
    PROVE  key' \in [Profiles -> Sessions \cup {NoSession}]
  BY ProfileLeaseAssumption DEF SplitInv, AcquireWrites

\* The step changes one session, which goes on knowing the same login state.
Quiet(s) ==
    /\ ses' = [ses EXCEPT ![s] = ses'[s]]
    /\ RecordOK(ses'[s])
    /\ ses'[s].version = ses[s].version
    /\ ses'[s].state = ses[s].state
    /\ ses'[s].save = ses[s].save
    /\ ses'[s].next = ses[s].next

\* The browser runs and its manager knows, in one record.
Drives(r) == r.listed /\ r.browser \in {"starting", "up", "ending"}

\* The manager counts on the lease and renews it.
Armed(r) == r.owned /\ r.renew \in {"armed", "sent", "renewed"}

\* While all is calm, only StartAcquires makes a session drive its profile, and a
\* session that goes on driving goes on renewing.
StillLeased(s) ==
    Calm /\ Drives(ses'[s]) =>
       StartAcquires(s) \/ (Drives(ses[s]) /\ (Holds(s) /\ Armed(ses[s]) => Armed(ses'[s])))

\* While all is calm, the step does not end the last save of the session.
StillEnding(s) == Calm /\ ses[s].browser = "ending" => ses'[s].browser = "ending"

\* Such a step keeps the invariant if it saves nothing.
LEMMA QuietStep ==
    ASSUME SplitInv, NEW s \in Sessions, Quiet(s), UNCHANGED <<host, saved>>,
           key' \in [Profiles -> Sessions \cup {NoSession}]
    PROVE  SplitInv'
  <1>1. ses' \in [Sessions -> Session]
    BY DEF SplitInv, RecordOK, Quiet
  <1>2. \A q \in Sessions : RecordOK(ses'[q]) /\ KnowsSaved(ses'[q], saved'[Profile[q]])
    BY DEF SplitInv, KnowsSaved, Quiet
  <1> QED
    BY <1>1, <1>2 DEF SplitInv

\* The steps of start() but the one that loads.
LEMMA StartQuiet ==
    ASSUME SplitInv, NEW s \in Sessions,
           StartCall(s) \/ StartRefused(s) \/ StartAcquires(s) \/ StartNotLeased(s)
           \/ StartLaunched(s) \/ StartLaunchFails(s) \/ StartReturns(s) \/ StartSaveFails(s)
           \/ StartFailureClosed(s) \/ StartFailureReleased(s)
    PROVE  Quiet(s) /\ StillLeased(s) /\ StillEnding(s)
  <1>0. RecordOK(ses[s]) /\ ses \in [Sessions -> Session]
    BY DEF SplitInv
  <1>1. CASE StartCall(s)
    BY <1>0, <1>1 DEF StartCall, Quiet, StillLeased, StillEnding,
       Drives, Armed, RecordOK, Session, CalmRecord, StartPhases,
       StopPhases, RenewPhases, BrowserPhases
  <1>2. CASE StartRefused(s)
    BY <1>0, <1>2 DEF StartRefused, Quiet, StillLeased, StillEnding,
       Drives, Armed, RecordOK, Session, CalmRecord, StartPhases,
       StopPhases, RenewPhases, BrowserPhases
  <1>3. CASE StartAcquires(s)
    BY <1>0, <1>3 DEF StartAcquires, Quiet, StillLeased, StillEnding,
       Drives, Armed, RecordOK, Session, CalmRecord, StartPhases,
       StopPhases, RenewPhases, BrowserPhases
  <1>4. CASE StartNotLeased(s)
    BY <1>0, <1>4 DEF StartNotLeased, Quiet, StillLeased, StillEnding,
       Drives, Armed, RecordOK, Session, CalmRecord, StartPhases,
       StopPhases, RenewPhases, BrowserPhases
  <1>5. CASE StartLaunched(s)
    <2> DEFINE r == ses[s]
               q == [r EXCEPT !.start = "saving", !.browser = "up"]
    <2>1. q \in Session
      BY <1>0 DEF RecordOK, Session, StartPhases, BrowserPhases
    <2>2. /\ q.start = "saving" /\ q.browser = "up" /\ q.listed = r.listed
          /\ q.owned = r.owned /\ q.renew = r.renew /\ q.stop = r.stop
          /\ q.version = r.version /\ q.state = r.state /\ q.save = r.save
          /\ q.next = r.next
      BY <1>0 DEF RecordOK, Session
    <2>3. ses' = [ses EXCEPT ![s] = q]
      BY <1>5 DEF StartLaunched
    <2>4. r.start = "launching"
      BY <1>5 DEF StartLaunched
    <2> HIDE DEF q, r
    <2>5. RecordOK(r)
      BY <1>0 DEF r
    <2>6. RecordOK(q)
      BY <2>1, <2>2, <2>4, <2>5 DEF RecordOK, CalmRecord
    <2>7. Calm => /\ Drives(q) => Drives(r) /\ (Holds(s) /\ Armed(r) => Armed(q))
                  /\ r.browser = "ending" => q.browser = "ending"
      BY <2>2, <2>4, <2>5 DEF RecordOK, CalmRecord, Drives, Armed
    <2> QED
      BY <1>0, <2>2, <2>3, <2>6, <2>7 DEF Quiet, StillLeased, StillEnding, r
  <1>6. CASE StartLaunchFails(s)
    <2> DEFINE r == ses[s]
               q == [r EXCEPT !.start = "failing", !.ttl = "off", !.listed = FALSE, !.browser = "down"]
    <2>1. q \in Session
      BY <1>0 DEF RecordOK, Session, StartPhases, BrowserPhases
    <2>2. /\ q.start = "failing" /\ q.browser = "down" /\ q.listed = FALSE
          /\ q.owned = r.owned /\ q.renew = r.renew /\ q.stop = r.stop
          /\ q.version = r.version /\ q.state = r.state /\ q.save = r.save
          /\ q.next = r.next
      BY <1>0 DEF RecordOK, Session
    <2>3. ses' = [ses EXCEPT ![s] = q]
      BY <1>6 DEF StartLaunchFails, Failing
    <2>4. r.start = "launching"
      BY <1>6 DEF StartLaunchFails
    <2> HIDE DEF q, r
    <2>5. RecordOK(r)
      BY <1>0 DEF r
    <2>6. RecordOK(q)
      BY <2>1, <2>2, <2>4, <2>5 DEF RecordOK, CalmRecord
    <2>7. Calm => /\ Drives(q) => Drives(r) /\ (Holds(s) /\ Armed(r) => Armed(q))
                  /\ r.browser = "ending" => q.browser = "ending"
      BY <2>2, <2>4, <2>5 DEF RecordOK, CalmRecord, Drives, Armed
    <2> QED
      BY <1>0, <2>2, <2>3, <2>6, <2>7 DEF Quiet, StillLeased, StillEnding, r
  <1>7. CASE StartReturns(s)
    <2> DEFINE r == ses[s]
               q == [r EXCEPT !.start = "returned", !.ttl = "armed"]
    <2>1. q \in Session
      BY <1>0 DEF RecordOK, Session, StartPhases
    <2>2. /\ q.start = "returned" /\ q.browser = r.browser /\ q.listed = r.listed
          /\ q.owned = r.owned /\ q.renew = r.renew /\ q.stop = r.stop
          /\ q.version = r.version /\ q.state = r.state /\ q.save = r.save
          /\ q.next = r.next
      BY <1>0 DEF RecordOK, Session
    <2>3. ses' = [ses EXCEPT ![s] = q]
      BY <1>7 DEF StartReturns
    <2>4. r.start = "saving"
      BY <1>7 DEF StartReturns
    <2> HIDE DEF q, r
    <2>5. RecordOK(r)
      BY <1>0 DEF r
    <2>6. RecordOK(q)
      BY <2>1, <2>2, <2>4, <2>5 DEF RecordOK, CalmRecord
    <2>7. Calm => /\ Drives(q) => Drives(r) /\ (Holds(s) /\ Armed(r) => Armed(q))
                  /\ r.browser = "ending" => q.browser = "ending"
      BY <2>2, <2>4, <2>5 DEF RecordOK, CalmRecord, Drives, Armed
    <2> QED
      BY <1>0, <2>2, <2>3, <2>6, <2>7 DEF Quiet, StillLeased, StillEnding, r
  <1>8. CASE StartSaveFails(s)
    <2> DEFINE r == ses[s]
               q == [r EXCEPT !.start = "failing", !.ttl = "off", !.listed = FALSE]
    <2>1. q \in Session
      BY <1>0 DEF RecordOK, Session, StartPhases
    <2>2. /\ q.start = "failing" /\ q.browser = r.browser /\ q.listed = FALSE
          /\ q.owned = r.owned /\ q.renew = r.renew /\ q.stop = r.stop
          /\ q.version = r.version /\ q.state = r.state /\ q.save = r.save
          /\ q.next = r.next
      BY <1>0 DEF RecordOK, Session
    <2>3. ses' = [ses EXCEPT ![s] = q]
      BY <1>8 DEF StartSaveFails, Failing
    <2>4. r.start = "saving" /\ ~Calm
      BY <1>8, CalmOutcomes DEF StartSaveFails
    <2> HIDE DEF q, r
    <2>5. RecordOK(r)
      BY <1>0 DEF r
    <2>6. RecordOK(q)
      BY <2>1, <2>2, <2>4, <2>5 DEF RecordOK, CalmRecord
    <2>7. Calm => /\ Drives(q) => Drives(r) /\ (Holds(s) /\ Armed(r) => Armed(q))
                  /\ r.browser = "ending" => q.browser = "ending"
      BY <2>2, <2>4, <2>5 DEF RecordOK, CalmRecord, Drives, Armed
    <2> QED
      BY <1>0, <2>2, <2>3, <2>6, <2>7 DEF Quiet, StillLeased, StillEnding, r
  <1>9. CASE StartFailureClosed(s)
    <2> DEFINE r == ses[s]
               v == IF r.owned THEN "releasing" ELSE "failed"
               w == IF r.renew = "armed" THEN "off" ELSE r.renew
               q == [r EXCEPT !.owned = FALSE, !.renew = w, !.start = v]
    <2>0. v \in {"releasing", "failed"} /\ w \in RenewPhases /\ w \in {r.renew, "off"}
      BY <1>0 DEF RecordOK, Session, RenewPhases
    <2> HIDE DEF v, w
    <2>1. q \in Session
      <3>1. v \in StartPhases
        BY <2>0 DEF StartPhases
      <3> QED BY <1>0, <2>0, <3>1 DEF RecordOK, Session
    <2>2. /\ q.start = v /\ q.browser = r.browser /\ q.listed = r.listed
          /\ q.owned = FALSE /\ q.renew = w /\ q.stop = r.stop
          /\ q.version = r.version /\ q.state = r.state /\ q.save = r.save
          /\ q.next = r.next
      BY <1>0 DEF RecordOK, Session
    <2>3. ses' = [ses EXCEPT ![s] = q]
      BY <1>9 DEF StartFailureClosed, Forgotten, v, w
    <2>4. r.browser = "down"
      BY <1>9 DEF StartFailureClosed
    <2> HIDE DEF q, r
    <2>5. RecordOK(r)
      BY <1>0 DEF r
    <2>6. RecordOK(q)
      BY <2>0, <2>1, <2>2, <2>4, <2>5 DEF RecordOK, CalmRecord
    <2>7. Calm => /\ Drives(q) => Drives(r) /\ (Holds(s) /\ Armed(r) => Armed(q))
                  /\ r.browser = "ending" => q.browser = "ending"
      BY <2>0, <2>2, <2>4, <2>5 DEF RecordOK, CalmRecord, Drives, Armed
    <2> QED
      BY <1>0, <2>2, <2>3, <2>6, <2>7 DEF Quiet, StillLeased, StillEnding, r
  <1>10. CASE StartFailureReleased(s)
    BY <1>0, <1>10 DEF StartFailureReleased, Quiet, StillLeased, StillEnding,
       Drives, Armed, RecordOK, Session, CalmRecord, StartPhases,
       StopPhases, RenewPhases, BrowserPhases
  <1> QED
    BY <1>1, <1>2, <1>3, <1>4, <1>5, <1>6, <1>7, <1>8, <1>9, <1>10

\* What a call of stop() does to a record.
LEMMA StopBeginsOK ==
    ASSUME NEW r, RecordOK(r)
    PROVE  /\ RecordOK(StopBegins(r))
           /\ StopBegins(r).version = r.version
           /\ StopBegins(r).state = r.state
           /\ StopBegins(r).save = r.save
           /\ StopBegins(r).next = r.next
           /\ StopBegins(r).browser = r.browser
           /\ Drives(StopBegins(r)) = Drives(r)
           /\ Armed(StopBegins(r)) = Armed(r)
  <1>1. CASE r.listed
    <2> DEFINE phase == IF r.stop \in {"idle", "draining", "drained"} THEN "closing" ELSE r.stop
               q     == [r EXCEPT !.ttl = "off", !.stop = phase]
    <2>1. /\ phase \in StopPhases
          /\ phase \in {"releasing", "unwinding"} => r.stop \in {"releasing", "unwinding"}
      BY DEF RecordOK, Session, StopPhases
    <2>2. StopBegins(r) = q
      BY <1>1 DEF StopBegins
    <2>3. r.start \notin {"idle", "loading", "leasing"}
      BY <1>1 DEF RecordOK
    <2> HIDE DEF phase
    <2>4. q \in Session
      BY <2>1 DEF RecordOK, Session
    <2>5. /\ q.start = r.start /\ q.owned = r.owned /\ q.renew = r.renew
          /\ q.listed = r.listed /\ q.stop = phase
          /\ q.version = r.version /\ q.state = r.state /\ q.save = r.save /\ q.next = r.next
          /\ q.browser = r.browser
      BY DEF RecordOK, Session
    <2>6. r.stop \in {"closing", "draining"} => phase = "closing"
      BY DEF RecordOK, Session, StopPhases, phase
    <2> HIDE DEF q
    <2>7. RecordOK(q)
      BY <1>1, <2>1, <2>3, <2>4, <2>5, <2>6 DEF RecordOK, CalmRecord
    <2> QED
      BY <2>2, <2>5, <2>7 DEF Drives, Armed
  <1>2. CASE ~r.listed
    BY <1>2 DEF StopBegins
  <1> QED
    BY <1>1, <1>2

\* The steps of stop() and shutdownSessions but the one that closes the browser.
LEMMA StopQuiet ==
    ASSUME SplitInv, NEW s \in Sessions,
           StopCall(s) \/ StopClosed(s) \/ StopReleased(s) \/ ShutdownClosed(s)
           \/ ShutdownReleased(s)
    PROVE  Quiet(s) /\ StillLeased(s) /\ StillEnding(s)
  <1>0. RecordOK(ses[s]) /\ ses \in [Sessions -> Session]
    BY DEF SplitInv
  <1>1. CASE StopCall(s)
    BY <1>0, <1>1, StopBeginsOK DEF StopCall, Quiet, StillLeased, StillEnding
  <1>2. CASE StopClosed(s)
    <2> DEFINE r == ses[s]
               v == IF r.owned THEN "releasing" ELSE "done"
               w == IF r.renew = "armed" THEN "off" ELSE r.renew
               q == [r EXCEPT !.owned = FALSE, !.renew = w, !.listed = FALSE, !.stop = v]
    <2>0. v \in {"releasing", "done"} /\ w \in RenewPhases /\ w \in {r.renew, "off"}
      BY <1>0 DEF RecordOK, Session, RenewPhases
    <2> HIDE DEF v, w
    <2>1. q \in Session
      <3>1. v \in StopPhases
        BY <2>0 DEF StopPhases
      <3> QED BY <1>0, <2>0, <3>1 DEF RecordOK, Session
    <2>2. /\ q.start = r.start /\ q.browser = r.browser /\ q.listed = FALSE
          /\ q.owned = FALSE /\ q.renew = w /\ q.stop = v
          /\ q.version = r.version /\ q.state = r.state /\ q.save = r.save
          /\ q.next = r.next
      BY <1>0 DEF RecordOK, Session
    <2>3. ses' = [ses EXCEPT ![s] = q]
      BY <1>2 DEF StopClosed, Forgotten, v, w
    <2>4. r.stop = "closing" /\ r.browser = "down"
      BY <1>2 DEF StopClosed
    <2> HIDE DEF q, r
    <2>5. RecordOK(r)
      BY <1>0 DEF r
    <2>6. RecordOK(q)
      BY <2>0, <2>1, <2>2, <2>4, <2>5 DEF RecordOK, CalmRecord
    <2>7. Calm => /\ Drives(q) => Drives(r) /\ (Holds(s) /\ Armed(r) => Armed(q))
                  /\ r.browser = "ending" => q.browser = "ending"
      BY <2>0, <2>2, <2>4, <2>5 DEF RecordOK, CalmRecord, Drives, Armed
    <2> QED
      BY <1>0, <2>2, <2>3, <2>6, <2>7 DEF Quiet, StillLeased, StillEnding, r
  <1>3. CASE StopReleased(s)
    <2> DEFINE r == ses[s]
               q == [r EXCEPT !.stop = "done"]
    <2>1. q \in Session
      BY <1>0 DEF RecordOK, Session, StopPhases
    <2>2. /\ q.start = r.start /\ q.browser = r.browser /\ q.listed = r.listed
          /\ q.owned = r.owned /\ q.renew = r.renew /\ q.stop = "done"
          /\ q.version = r.version /\ q.state = r.state /\ q.save = r.save
          /\ q.next = r.next
      BY <1>0 DEF RecordOK, Session
    <2>3. ses' = [ses EXCEPT ![s] = q]
      BY <1>3 DEF StopReleased
    <2>4. r.stop = "releasing"
      BY <1>3 DEF StopReleased
    <2> HIDE DEF q, r
    <2>5. RecordOK(r)
      BY <1>0 DEF r
    <2>6. RecordOK(q)
      BY <2>1, <2>2, <2>4, <2>5 DEF RecordOK, CalmRecord
    <2>7. Calm => /\ Drives(q) => Drives(r) /\ (Holds(s) /\ Armed(r) => Armed(q))
                  /\ r.browser = "ending" => q.browser = "ending"
      BY <2>2, <2>4, <2>5 DEF RecordOK, CalmRecord, Drives, Armed
    <2> QED
      BY <1>0, <2>2, <2>3, <2>6, <2>7 DEF Quiet, StillLeased, StillEnding, r
  <1>4. CASE ShutdownClosed(s)
    <2> DEFINE r == ses[s]
               v == IF r.owned THEN "unwinding" ELSE "drained"
               w == IF r.renew = "armed" THEN "off" ELSE r.renew
               q == [r EXCEPT !.owned = FALSE, !.renew = w, !.stop = v]
    <2>0. v \in {"unwinding", "drained"} /\ w \in RenewPhases /\ w \in {r.renew, "off"}
      BY <1>0 DEF RecordOK, Session, RenewPhases
    <2> HIDE DEF v, w
    <2>1. q \in Session
      <3>1. v \in StopPhases
        BY <2>0 DEF StopPhases
      <3> QED BY <1>0, <2>0, <3>1 DEF RecordOK, Session
    <2>2. /\ q.start = r.start /\ q.browser = r.browser /\ q.listed = r.listed
          /\ q.owned = FALSE /\ q.renew = w /\ q.stop = v
          /\ q.version = r.version /\ q.state = r.state /\ q.save = r.save
          /\ q.next = r.next
      BY <1>0 DEF RecordOK, Session
    <2>3. ses' = [ses EXCEPT ![s] = q]
      BY <1>4 DEF ShutdownClosed, Forgotten, v, w
    <2>4. r.stop = "draining" /\ r.browser = "down"
      BY <1>4 DEF ShutdownClosed
    <2> HIDE DEF q, r
    <2>5. RecordOK(r)
      BY <1>0 DEF r
    <2>6. RecordOK(q)
      BY <2>0, <2>1, <2>2, <2>4, <2>5 DEF RecordOK, CalmRecord
    <2>7. Calm => /\ Drives(q) => Drives(r) /\ (Holds(s) /\ Armed(r) => Armed(q))
                  /\ r.browser = "ending" => q.browser = "ending"
      BY <2>0, <2>2, <2>4, <2>5 DEF RecordOK, CalmRecord, Drives, Armed
    <2> QED
      BY <1>0, <2>2, <2>3, <2>6, <2>7 DEF Quiet, StillLeased, StillEnding, r
  <1>5. CASE ShutdownReleased(s)
    <2> DEFINE r == ses[s]
               q == [r EXCEPT !.stop = "drained"]
    <2>1. q \in Session
      BY <1>0 DEF RecordOK, Session, StopPhases
    <2>2. /\ q.start = r.start /\ q.browser = r.browser /\ q.listed = r.listed
          /\ q.owned = r.owned /\ q.renew = r.renew /\ q.stop = "drained"
          /\ q.version = r.version /\ q.state = r.state /\ q.save = r.save
          /\ q.next = r.next
      BY <1>0 DEF RecordOK, Session
    <2>3. ses' = [ses EXCEPT ![s] = q]
      BY <1>5 DEF ShutdownReleased
    <2>4. r.stop = "unwinding"
      BY <1>5 DEF ShutdownReleased
    <2> HIDE DEF q, r
    <2>5. RecordOK(r)
      BY <1>0 DEF r
    <2>6. RecordOK(q)
      BY <2>1, <2>2, <2>4, <2>5 DEF RecordOK, CalmRecord
    <2>7. Calm => /\ Drives(q) => Drives(r) /\ (Holds(s) /\ Armed(r) => Armed(q))
                  /\ r.browser = "ending" => q.browser = "ending"
      BY <2>2, <2>4, <2>5 DEF RecordOK, CalmRecord, Drives, Armed
    <2> QED
      BY <1>0, <2>2, <2>3, <2>6, <2>7 DEF Quiet, StillLeased, StillEnding, r
  <1> QED
    BY <1>1, <1>2, <1>3, <1>4, <1>5

\* The steps of renewProfileLease.
LEMMA RenewQuiet ==
    ASSUME SplitInv, NEW s \in Sessions,
           RenewSends(s) \/ RenewApplies(s) \/ Renewed(s) \/ RenewDrops(s)
           \/ RenewLost(s) \/ RenewLostStops(s)
    PROVE  Quiet(s) /\ StillLeased(s) /\ StillEnding(s)
  <1>0. RecordOK(ses[s]) /\ ses \in [Sessions -> Session]
    BY DEF SplitInv
  <1>1. CASE RenewSends(s)
    <2> DEFINE r == ses[s]
               q == [r EXCEPT !.renew = "sent"]
    <2>1. q \in Session
      BY <1>0 DEF RecordOK, Session, RenewPhases
    <2>2. /\ q.start = r.start /\ q.browser = r.browser /\ q.listed = r.listed
          /\ q.owned = r.owned /\ q.renew = "sent" /\ q.stop = r.stop
          /\ q.version = r.version /\ q.state = r.state /\ q.save = r.save
          /\ q.next = r.next
      BY <1>0 DEF RecordOK, Session
    <2>3. ses' = [ses EXCEPT ![s] = q]
      BY <1>1 DEF RenewSends
    <2>4. r.renew = "armed"
      BY <1>1 DEF RenewSends
    <2> HIDE DEF q, r
    <2>5. RecordOK(r)
      BY <1>0 DEF r
    <2>6. RecordOK(q)
      BY <2>1, <2>2, <2>4, <2>5 DEF RecordOK, CalmRecord
    <2>7. Calm => /\ Drives(q) => Drives(r) /\ (Holds(s) /\ Armed(r) => Armed(q))
                  /\ r.browser = "ending" => q.browser = "ending"
      BY <2>2, <2>4, <2>5 DEF RecordOK, CalmRecord, Drives, Armed
    <2> QED
      BY <1>0, <2>2, <2>3, <2>6, <2>7 DEF Quiet, StillLeased, StillEnding, r
  <1>2. CASE RenewApplies(s)
    <2>1. PICK v \in {"renewed", "lost"} :
             /\ ses' = [ses EXCEPT ![s].renew = v]
             /\ Calm /\ Holds(s) => v = "renewed"
      BY <1>2, CalmOutcomes DEF RenewApplies, Answered, RenewAccepts
    <2> DEFINE r == ses[s]
               q == [r EXCEPT !.renew = v]
    <2>8. q \in Session
      BY <1>0, <2>1 DEF RecordOK, Session, RenewPhases
    <2>2. /\ q.start = r.start /\ q.browser = r.browser /\ q.listed = r.listed
          /\ q.owned = r.owned /\ q.renew = v /\ q.stop = r.stop
          /\ q.version = r.version /\ q.state = r.state /\ q.save = r.save
          /\ q.next = r.next
      BY <1>0 DEF RecordOK, Session
    <2>3. ses' = [ses EXCEPT ![s] = q]
      BY <2>1
    <2>4. r.renew = "sent"
      BY <1>2 DEF RenewApplies
    <2> HIDE DEF q, r
    <2>5. RecordOK(r)
      BY <1>0 DEF r
    <2>6. RecordOK(q)
      BY <2>1, <2>2, <2>4, <2>5, <2>8 DEF RecordOK, CalmRecord
    <2>7. Calm => /\ Drives(q) => Drives(r) /\ (Holds(s) /\ Armed(r) => Armed(q))
                  /\ r.browser = "ending" => q.browser = "ending"
      BY <2>1, <2>2, <2>4, <2>5 DEF RecordOK, CalmRecord, Drives, Armed
    <2> QED
      BY <1>0, <2>2, <2>3, <2>6, <2>7 DEF Quiet, StillLeased, StillEnding, r
  <1>3. CASE Renewed(s)
    <2> DEFINE r == ses[s]
               v == IF r.owned /\ r.listed THEN "armed" ELSE "drop"
               q == [r EXCEPT !.renew = v]
    <2>0. v \in {"armed", "drop"} /\ (v = "drop" => ~(r.owned /\ r.listed))
      OBVIOUS
    <2> HIDE DEF v
    <2>1. q \in Session
      BY <1>0, <2>0 DEF RecordOK, Session, RenewPhases
    <2>2. /\ q.start = r.start /\ q.browser = r.browser /\ q.listed = r.listed
          /\ q.owned = r.owned /\ q.renew = v /\ q.stop = r.stop
          /\ q.version = r.version /\ q.state = r.state /\ q.save = r.save
          /\ q.next = r.next
      BY <1>0 DEF RecordOK, Session
    <2>3. ses' = [ses EXCEPT ![s] = q]
      BY <1>3 DEF Renewed, v
    <2>4. r.renew = "renewed"
      BY <1>3 DEF Renewed
    <2> HIDE DEF q, r
    <2>5. RecordOK(r)
      BY <1>0 DEF r
    <2>6. RecordOK(q)
      BY <2>0, <2>1, <2>2, <2>4, <2>5 DEF RecordOK, CalmRecord
    <2>7. Calm => /\ Drives(q) => Drives(r) /\ (Holds(s) /\ Armed(r) => Armed(q))
                  /\ r.browser = "ending" => q.browser = "ending"
      BY <2>0, <2>2, <2>4, <2>5 DEF RecordOK, CalmRecord, Drives, Armed
    <2> QED
      BY <1>0, <2>2, <2>3, <2>6, <2>7 DEF Quiet, StillLeased, StillEnding, r
  <1>4. CASE RenewDrops(s)
    <2> DEFINE r == ses[s]
               q == [r EXCEPT !.renew = "off"]
    <2>1. q \in Session
      BY <1>0 DEF RecordOK, Session, RenewPhases
    <2>2. /\ q.start = r.start /\ q.browser = r.browser /\ q.listed = r.listed
          /\ q.owned = r.owned /\ q.renew = "off" /\ q.stop = r.stop
          /\ q.version = r.version /\ q.state = r.state /\ q.save = r.save
          /\ q.next = r.next
      BY <1>0 DEF RecordOK, Session
    <2>3. ses' = [ses EXCEPT ![s] = q]
      BY <1>4 DEF RenewDrops
    <2>4. r.renew = "drop"
      BY <1>4 DEF RenewDrops
    <2> HIDE DEF q, r
    <2>5. RecordOK(r)
      BY <1>0 DEF r
    <2>6. RecordOK(q)
      BY <2>1, <2>2, <2>4, <2>5 DEF RecordOK, CalmRecord
    <2>7. Calm => /\ Drives(q) => Drives(r) /\ (Holds(s) /\ Armed(r) => Armed(q))
                  /\ r.browser = "ending" => q.browser = "ending"
      BY <2>2, <2>4, <2>5 DEF RecordOK, CalmRecord, Drives, Armed
    <2> QED
      BY <1>0, <2>2, <2>3, <2>6, <2>7 DEF Quiet, StillLeased, StillEnding, r
  <1>5. CASE RenewLost(s)
    <2> DEFINE r == ses[s]
               v == IF r.owned THEN "quarantine" ELSE "off"
               q == [r EXCEPT !.owned = FALSE, !.renew = v]
    <2>0. v \in {"quarantine", "off"}
      OBVIOUS
    <2> HIDE DEF v
    <2>1. q \in Session
      BY <1>0, <2>0 DEF RecordOK, Session, RenewPhases
    <2>2. /\ q.start = r.start /\ q.browser = r.browser /\ q.listed = r.listed
          /\ q.owned = FALSE /\ q.renew = v /\ q.stop = r.stop
          /\ q.version = r.version /\ q.state = r.state /\ q.save = r.save
          /\ q.next = r.next
      BY <1>0 DEF RecordOK, Session
    <2>3. ses' = [ses EXCEPT ![s] = q]
      BY <1>5 DEF RenewLost, Forgotten, v
    <2>4. r.renew = "lost"
      BY <1>5 DEF RenewLost
    <2> HIDE DEF q, r
    <2>5. RecordOK(r)
      BY <1>0 DEF r
    <2>6. RecordOK(q)
      BY <2>0, <2>1, <2>2, <2>4, <2>5 DEF RecordOK, CalmRecord
    <2>7. Calm => /\ Drives(q) => Drives(r) /\ (Holds(s) /\ Armed(r) => Armed(q))
                  /\ r.browser = "ending" => q.browser = "ending"
      BY <2>0, <2>2, <2>4, <2>5 DEF RecordOK, CalmRecord, Drives, Armed
    <2> QED
      BY <1>0, <2>2, <2>3, <2>6, <2>7 DEF Quiet, StillLeased, StillEnding, r
  <1>6. CASE RenewLostStops(s)
    <2> DEFINE r == [ses[s] EXCEPT !.renew = "off"]
    <2>1. RecordOK(r) /\ r.version = ses[s].version /\ r.state = ses[s].state
          /\ r.save = ses[s].save /\ r.next = ses[s].next /\ r.browser = ses[s].browser
          /\ Drives(r) = Drives(ses[s]) /\ ~Armed(ses[s])
      BY <1>0, <1>6 DEF RenewLostStops, RecordOK, Session, CalmRecord, StartPhases,
         StopPhases, RenewPhases, BrowserPhases, Drives, Armed
    <2> HIDE DEF r
    <2>2. ses' = [ses EXCEPT ![s] = StopBegins(r)]
      BY <1>6 DEF RenewLostStops, r
    <2> QED
      BY <1>0, <2>1, <2>2, StopBeginsOK DEF Quiet, StillLeased, StillEnding
  <1> QED
    BY <1>1, <1>2, <1>3, <1>4, <1>5, <1>6

\* The steps of the TTL timer.
LEMMA TtlQuiet ==
    ASSUME SplitInv, NEW s \in Sessions,
           TtlPasses(s) \/ TtlFires(s)
    PROVE  Quiet(s) /\ StillLeased(s) /\ StillEnding(s)
  <1>0. RecordOK(ses[s]) /\ ses \in [Sessions -> Session]
    BY DEF SplitInv
  <1>1. CASE TtlPasses(s)
    <2> DEFINE r == ses[s]
               q == [r EXCEPT !.ttl = "due"]
    <2>1. q \in Session
      BY <1>0 DEF RecordOK, Session
    <2>2. /\ q.start = r.start /\ q.browser = r.browser /\ q.listed = r.listed
          /\ q.owned = r.owned /\ q.renew = r.renew /\ q.stop = r.stop
          /\ q.version = r.version /\ q.state = r.state /\ q.save = r.save
          /\ q.next = r.next
      BY <1>0 DEF RecordOK, Session
    <2>3. ses' = [ses EXCEPT ![s] = q]
      BY <1>1 DEF TtlPasses
    <2> HIDE DEF q, r
    <2>5. RecordOK(r)
      BY <1>0 DEF r
    <2>6. RecordOK(q)
      BY <2>1, <2>2, <2>5 DEF RecordOK, CalmRecord
    <2>7. Calm => /\ Drives(q) => Drives(r) /\ (Holds(s) /\ Armed(r) => Armed(q))
                  /\ r.browser = "ending" => q.browser = "ending"
      BY <2>2, <2>5 DEF RecordOK, CalmRecord, Drives, Armed
    <2> QED
      BY <1>0, <2>2, <2>3, <2>6, <2>7 DEF Quiet, StillLeased, StillEnding, r
  <1>2. CASE TtlFires(s)
    <2> DEFINE r == [ses[s] EXCEPT !.ttl = "off"]
    <2>1. RecordOK(r) /\ r.version = ses[s].version /\ r.state = ses[s].state
          /\ r.save = ses[s].save /\ r.next = ses[s].next /\ r.browser = ses[s].browser
          /\ Drives(r) = Drives(ses[s]) /\ Armed(r) = Armed(ses[s])
      BY <1>0, <1>2 DEF TtlFires, RecordOK, Session, CalmRecord, StartPhases,
         StopPhases, RenewPhases, BrowserPhases, Drives, Armed
    <2> HIDE DEF r
    <2>2. CASE ses[s].ttl = "due"
      <3>1. ses' = [ses EXCEPT ![s] = StopBegins(r)]
        BY <1>2, <2>2 DEF TtlFires, r
      <3> QED
        BY <1>0, <2>1, <3>1, StopBeginsOK DEF Quiet, StillLeased, StillEnding
    <2>3. CASE ses[s].ttl # "due"
      BY <1>0, <1>2, <2>3 DEF TtlFires, Quiet, StillLeased, StillEnding
    <2> QED
      BY <2>2, <2>3
  <1> QED
    BY <1>1, <1>2

\* start() reads what is saved.
LEMMA LoadStep ==
    ASSUME SplitInv, NEW s \in Sessions, StartLoads(s)
    PROVE  SplitInv' /\ StillLeased(s)
  <1>0. RecordOK(ses[s]) /\ CheckpointOK(saved[Profile[s]]) /\ Profile[s] \in Profiles
    BY ProfileLeaseAssumption DEF SplitInv
  <1>1. ses' = [ses EXCEPT ![s] = ses'[s]] /\ UNCHANGED <<host, saved, key>>
    BY DEF StartLoads, SplitInv
  <1>2. PICK v \in {0, saved[Profile[s]].version} :
           ses' = [ses EXCEPT ![s] = [ses[s] EXCEPT !.start = "leasing", !.version = v,
                                                    !.state = saved[Profile[s]].state]]
    BY DEF StartLoads, SplitInv
  <1>3. /\ v \in Nat /\ saved[Profile[s]].state \in SUBSET Sessions
        /\ v <= saved[Profile[s]].version
    BY <1>0 DEF CheckpointOK, Checkpoints
  <1>4. ses[s].start = "loading"
    BY DEF StartLoads
  <1>5. RecordOK(ses'[s])
    <2>1. /\ ses'[s] = [ses[s] EXCEPT !.start = "leasing", !.version = v, !.state = saved[Profile[s]].state]
          /\ "leasing" \in StartPhases
      BY <1>2 DEF SplitInv, StartPhases
    <2>2. ses'[s] \in Session
      BY <1>0, <1>3, <2>1 DEF RecordOK, Session
    <2> QED BY <1>0, <1>4, <2>1, <2>2 DEF RecordOK, CalmRecord, Session
  <1>6. KnowsSaved(ses'[s], saved[Profile[s]])
    BY <1>0, <1>2, <1>3 DEF SplitInv, KnowsSaved, Session
  <1>7. ses' \in [Sessions -> Session]
    BY <1>1, <1>5 DEF SplitInv, RecordOK
  <1>8. StillLeased(s)
    BY <1>5, <1>2 DEF SplitInv, StillLeased, Drives, RecordOK, Session
  <1> QED
    BY <1>1, <1>5, <1>6, <1>7, <1>8 DEF SplitInv

\* What a step of saveState does to a record.
Saving(r, sv, n, b, v, st) ==
    [r EXCEPT !.save = sv, !.next = n, !.browser = b, !.version = v, !.state = st]

\* A record stays sound over such a step, drives no more than before and keeps its timer.
LEMMA SavingOK ==
    ASSUME NEW r, RecordOK(r), NEW sv \in {"idle", "checked", "scanned"}, NEW n \in Nat,
           NEW b \in BrowserPhases, NEW v \in Nat, NEW st \in SUBSET Sessions,
           b # r.browser => r.browser \in {"up", "ending"},
           b \in {r.browser, "down"}
           \/ (b = "ending" /\ (r.start = "failing" \/ r.stop \in {"closing", "draining"}))
    PROVE  LET q == Saving(r, sv, n, b, v, st)
           IN  /\ RecordOK(q)
               /\ q.save = sv /\ q.next = n /\ q.version = v /\ q.state = st /\ q.browser = b
               /\ Drives(q) => Drives(r)
               /\ Armed(r) => Armed(q)
  <1> DEFINE q == Saving(r, sv, n, b, v, st)
  <1>1. q \in Session
    BY DEF RecordOK, Session, Saving
  <1>2. /\ q.start = r.start /\ q.browser = b /\ q.listed = r.listed
        /\ q.owned = r.owned /\ q.renew = r.renew /\ q.stop = r.stop
        /\ q.version = v /\ q.state = st /\ q.save = sv /\ q.next = n
    BY DEF RecordOK, Session, Saving
  <1> HIDE DEF q
  <1>3. RecordOK(q)
    BY <1>1, <1>2 DEF RecordOK, CalmRecord
  <1>4. (Drives(q) => Drives(r)) /\ (Armed(r) => Armed(q))
    BY <1>2 DEF Drives, Armed
  <1> QED
    BY <1>2, <1>3, <1>4 DEF q

\* Until the link nothing is saved, and the version that is chosen is the next one.
LEMMA ScanStep ==
    ASSUME SplitInv, NEW s \in Sessions, Checkpoint(s) \/ SaveScans(s) \/ SessionStops(s)
    PROVE  SplitInv' /\ StillLeased(s)
  <1> DEFINE r == ses[s]
             c == saved[Profile[s]]
  <1>0. /\ RecordOK(r) /\ KnowsSaved(r, c) /\ ses \in [Sessions -> Session]
        /\ CheckpointOK(c) /\ UNCHANGED <<host, saved, key>>
    BY ProfileLeaseAssumption DEF SplitInv, Checkpoint, SaveScans, SessionStops
  <1>1. /\ c.version + 1 \in Nat /\ r.next \in Nat /\ r.version \in Nat
        /\ r.state \in SUBSET Sessions /\ r.browser \in BrowserPhases
    BY <1>0 DEF CheckpointOK, Checkpoints, RecordOK, Session
  <1>2. PICK sv \in {"idle", "checked", "scanned"}, n \in {r.next, c.version + 1},
             b \in BrowserPhases :
           /\ ses' = [ses EXCEPT ![s] = Saving(r, sv, n, b, r.version, r.state)]
           /\ sv = "scanned" => n = c.version + 1
           /\ b # r.browser => r.browser \in {"up", "ending"}
           /\ b \in {r.browser, "down"} \/ (b = "ending" /\ Closing(s))
    <2>1. CASE Checkpoint(s)
      <3>1. ses' = [ses EXCEPT ![s] =
                      Saving(r, "checked", r.next, r.browser, r.version, r.state)]
        BY <1>0, <2>1 DEF Checkpoint, Saving, RecordOK, Session
      <3> QED
        BY <1>1, <3>1
    <2>2. CASE SaveScans(s)
      <3> DEFINE b == IF r.browser = "ending" THEN "down" ELSE r.browser
      <3>1. \/ ses' = [ses EXCEPT ![s] =
                         Saving(r, "scanned", c.version + 1, r.browser, r.version, r.state)]
            \/ ses' = [ses EXCEPT ![s] = Saving(r, "idle", r.next, b, r.version, r.state)]
        <4>1. \/ ses' = [ses EXCEPT ![s] = [r EXCEPT !.save = "scanned", !.next = c.version + 1]]
              \/ ses' = [ses EXCEPT ![s] = [r EXCEPT !.save = "idle", !.browser = b]]
          BY <2>2 DEF SaveScans, SaveEnded
        <4>2. /\ [r EXCEPT !.save = "scanned", !.next = c.version + 1]
                    = Saving(r, "scanned", c.version + 1, r.browser, r.version, r.state)
              /\ [r EXCEPT !.save = "idle", !.browser = b]
                    = Saving(r, "idle", r.next, b, r.version, r.state)
          BY <1>0 DEF Saving, RecordOK, Session
        <4> QED
          BY <4>1, <4>2
      <3>2. /\ b \in BrowserPhases /\ b \in {r.browser, "down"}
            /\ b # r.browser => r.browser = "ending"
        BY <1>1 DEF BrowserPhases
      <3> HIDE DEF b
      <3> QED
        BY <1>1, <3>1, <3>2
    <2>3. CASE SessionStops(s)
      <3>1. \/ ses' = [ses EXCEPT ![s] =
                         Saving(r, "checked", r.next, "ending", r.version, r.state)]
            \/ ses' = [ses EXCEPT ![s] = Saving(r, "idle", r.next, "down", r.version, r.state)]
        <4>1. \/ ses' = [ses EXCEPT ![s] = [r EXCEPT !.browser = "ending", !.save = "checked"]]
              \/ ses' = [ses EXCEPT ![s] = [r EXCEPT !.browser = "down"]]
          BY <2>3 DEF SessionStops
        <4>2. r.save = "idle"
          BY <2>3 DEF SessionStops
        <4>3. /\ [r EXCEPT !.browser = "ending", !.save = "checked"]
                    = Saving(r, "checked", r.next, "ending", r.version, r.state)
              /\ [r EXCEPT !.browser = "down"]
                    = Saving(r, "idle", r.next, "down", r.version, r.state)
          BY <1>0, <4>2 DEF Saving, RecordOK, Session
        <4> QED
          BY <4>1, <4>3
      <3>2. r.browser = "up" /\ Closing(s)
        BY <2>3 DEF SessionStops
      <3> QED
        BY <1>1, <3>1, <3>2 DEF BrowserPhases
    <2> QED
      BY <2>1, <2>2, <2>3
  <1> DEFINE q == Saving(r, sv, n, b, r.version, r.state)
  <1>3. Closing(s) <=> r.start = "failing" \/ r.stop \in {"closing", "draining"}
    BY DEF Closing
  <1>4. ses' = [ses EXCEPT ![s] = q]
    BY <1>2
  <1>5. /\ RecordOK(q) /\ q.save = sv /\ q.next = n /\ q.version = r.version /\ q.state = r.state
        /\ Drives(q) => Drives(r)
        /\ Armed(r) => Armed(q)
    <2>1. n \in Nat
      BY <1>1, <1>2
    <2> HIDE DEF r, c
    <2> QED
      BY <1>0, <1>1, <1>2, <1>3, <2>1, SavingOK
  <1> HIDE DEF q
  <1>6. KnowsSaved(q, c)
    BY <1>0, <1>1, <1>2, <1>5 DEF KnowsSaved
  <1>7. ses' \in [Sessions -> Session] /\ ses'[s] = q
    BY <1>0, <1>4, <1>5 DEF RecordOK
  <1>8. \A x \in Sessions : RecordOK(ses'[x]) /\ KnowsSaved(ses'[x], saved[Profile[x]])
    BY <1>4, <1>5, <1>6 DEF SplitInv
  <1>9. SplitInv'
    BY <1>0, <1>7, <1>8 DEF SplitInv
  <1> QED
    BY <1>5, <1>7, <1>9 DEF StillLeased

\* The link makes a version that is newer than what any session knows but the one that
\* saved it.
LEMMA LinkStep ==
    ASSUME SplitInv, NEW s \in Sessions, SaveLinks(s)
    PROVE  /\ SplitInv'
           /\ StillLeased(s)
           /\ \A p \in Profiles : saved'[p] = saved[p]
                 \/ (p = Profile[s] /\ saved'[p].state = ses[s].state \cup {s})
  <1> DEFINE p == Profile[s]
             r == ses[s]
             c == saved[p]
             st == r.state \cup {s}
             b == IF r.browser = "ending" THEN "down" ELSE r.browser
             d == [version |-> r.next, state |-> st]
  <1>0. /\ RecordOK(r) /\ KnowsSaved(r, c) /\ ses \in [Sessions -> Session]
        /\ CheckpointOK(c) /\ p \in Profiles /\ UNCHANGED <<host, key>>
    BY ProfileLeaseAssumption DEF SplitInv, SaveLinks
  <1>1. /\ c.version \in Nat /\ r.next \in Nat /\ r.version \in Nat
        /\ r.state \in SUBSET Sessions /\ st \in SUBSET Sessions /\ b \in BrowserPhases
        /\ b \in {r.browser, "down"} /\ (b # r.browser => r.browser = "ending")
    BY <1>0 DEF CheckpointOK, Checkpoints, RecordOK, Session, BrowserPhases
  <1>2. /\ \/ ses' = [ses EXCEPT ![s] = Saving(r, "idle", r.next, b, r.version, r.state)]
           \/ /\ ses' = [ses EXCEPT ![s] = Saving(r, "idle", r.next, b, r.next, st)]
              /\ saved' = [saved EXCEPT ![p] = d]
        /\ saved' = saved \/ (saved' = [saved EXCEPT ![p] = d] /\ c.version < r.next)
    <2>1. PICK o \in Outcomes :
            /\ saved' = IF Applied(o) /\ Fresh(s) THEN [saved EXCEPT ![p] = d] ELSE saved
            /\ ses' = [ses EXCEPT ![s] = SaveEnded(
                         IF Answered(o) /\ Fresh(s)
                         THEN [r EXCEPT !.version = r.next, !.state = st] ELSE r)]
      BY DEF SaveLinks
    <2>2. SaveEnded(r) = Saving(r, "idle", r.next, b, r.version, r.state)
      BY <1>0 DEF SaveEnded, Saving, RecordOK, Session
    <2>3. SaveEnded([r EXCEPT !.version = r.next, !.state = st])
             = Saving(r, "idle", r.next, b, r.next, st)
      BY <1>0 DEF SaveEnded, Saving, RecordOK, Session
    <2>4. Answered(o) => Applied(o)
      BY DEF Answered, Applied
    <2>5. Fresh(s) => c.version < r.next
      BY DEF Fresh
    <2> HIDE DEF d, b, st
    <2> QED
      BY <2>1, <2>2, <2>3, <2>4, <2>5
  <1> HIDE DEF b
  <1>3. ASSUME NEW v \in Nat, NEW x \in SUBSET Sessions, NEW q, q = Saving(r, "idle", r.next, b, v, x)
        PROVE  /\ RecordOK(q) /\ q.save = "idle" /\ q.version = v /\ q.state = x
               /\ Drives(q) => Drives(r)
               /\ Armed(r) => Armed(q)
    BY <1>0, <1>1, <1>3, SavingOK
  <1>4. PICK v \in Nat, x \in SUBSET Sessions :
           /\ ses' = [ses EXCEPT ![s] = Saving(r, "idle", r.next, b, v, x)]
           /\ \/ v = r.version /\ x = r.state
              \/ v = r.next /\ x = st /\ saved' = [saved EXCEPT ![p] = d]
    BY <1>1, <1>2
  <1>5. PICK q : q = Saving(r, "idle", r.next, b, v, x)
    OBVIOUS
  <1>6. /\ RecordOK(q) /\ q.save = "idle" /\ q.version = v /\ q.state = x
        /\ Drives(q) => Drives(r)
        /\ Armed(r) => Armed(q)
    BY <1>3, <1>5
  <1>7. ses' \in [Sessions -> Session] /\ ses'[s] = q /\ ses' = [ses EXCEPT ![s] = q]
    BY <1>0, <1>4, <1>5, <1>6 DEF RecordOK
  <1>8. StillLeased(s)
    BY <1>6, <1>7 DEF StillLeased
  <1>9. CASE saved' = saved
    <2>1. KnowsSaved(q, c)
      <3>1. CASE v = r.version /\ x = r.state
        BY <1>0, <1>6, <3>1 DEF KnowsSaved
      <3>2. CASE v = r.next /\ x = st /\ saved' = [saved EXCEPT ![p] = d]
        <4>1. c = d
          BY <1>0, <1>9, <3>2 DEF SplitInv
        <4> QED
          BY <1>1, <1>6, <3>2, <4>1 DEF KnowsSaved
      <3> QED
        BY <1>4, <3>1, <3>2
    <2>2. \A y \in Sessions : RecordOK(ses'[y]) /\ KnowsSaved(ses'[y], saved'[Profile[y]])
      BY <1>6, <1>7, <1>9, <2>1 DEF SplitInv
    <2> QED
      BY <1>0, <1>7, <1>8, <1>9, <2>2 DEF SplitInv
  <1>10. CASE saved' = [saved EXCEPT ![p] = d] /\ c.version < r.next
    <2>1. d \in Checkpoints /\ d.version = r.next /\ d.state = st
      BY <1>1 DEF Checkpoints
    <2>2. CheckpointOK(d)
      BY <1>1, <1>10, <2>1 DEF CheckpointOK
    <2>3. KnowsSaved(q, d)
      <3>1. r.version < r.next
        BY <1>0, <1>1, <1>10 DEF KnowsSaved
      <3> QED
        BY <1>1, <1>4, <1>6, <2>1, <3>1 DEF KnowsSaved
    <2>4. \A y \in Sessions : Profile[y] = p => KnowsSaved(ses[y], d)
      <3> SUFFICES ASSUME NEW y \in Sessions, Profile[y] = p PROVE KnowsSaved(ses[y], d)
        OBVIOUS
      <3>1. KnowsSaved(ses[y], c) /\ ses[y].version \in Nat /\ ses[y].next \in Nat
        BY DEF SplitInv, Session
      <3> HIDE DEF c, d, r
      <3> QED
        BY <1>1, <1>10, <2>1, <3>1 DEF KnowsSaved
    <2>5. \A y \in Sessions : RecordOK(ses'[y]) /\ KnowsSaved(ses'[y], saved'[Profile[y]])
      <3>1. \A y \in Sessions : saved'[Profile[y]] = IF Profile[y] = p THEN d ELSE saved[Profile[y]]
        BY <1>10, ProfileLeaseAssumption DEF SplitInv
      <3> HIDE DEF d, p
      <3>2. \A y \in Sessions : ses'[y] = IF y = s THEN q ELSE ses[y]
        BY <1>7, <1>0
      <3>3. \A y \in Sessions : RecordOK(ses[y]) /\ KnowsSaved(ses[y], saved[Profile[y]])
        BY DEF SplitInv
      <3>4. Profile[s] = p
        BY DEF p
      <3> QED
        BY <1>6, <2>3, <2>4, <3>1, <3>2, <3>3, <3>4
    <2>6. saved' \in [Profiles -> Checkpoints] /\ \A y \in Profiles : CheckpointOK(saved'[y])
      <3> HIDE DEF d
      <3> QED
        BY <1>10, <2>1, <2>2 DEF SplitInv
    <2>7. saved'[p].state = st /\ \A y \in Profiles : y # p => saved'[y] = saved[y]
      BY <1>0, <1>10, <2>1 DEF SplitInv
    <2> QED
      BY <1>0, <1>7, <1>8, <2>5, <2>6, <2>7 DEF SplitInv
  <1> QED
    BY <1>2, <1>9, <1>10

\* What is left of a record by a step that changes all the sessions of a host: it stays
\* consistent, keeps or forgets altogether what it knows of the login state, and drives
\* no profile that it did not drive.
Settles(r, q) ==
    /\ RecordOK(q)
    /\ \/ /\ q.version = r.version /\ q.state = r.state
          /\ q.save = r.save /\ q.next = r.next /\ q.browser = r.browser
       \/ q.version = 0 /\ q.state = {} /\ q.save = "idle"
    /\ Drives(q) => Drives(r)
    /\ Drives(q) /\ Armed(r) => Armed(q)

\* A step of that kind on any number of records at once, as a crash or a shutdown takes it.
LEMMA RewriteStep ==
    ASSUME SplitInv, UNCHANGED <<saved, key>>,
           host' \in [Hosts -> {"up", "draining", "shut", "dead"}],
           NEW f, ses' = [s \in Sessions |-> f[s]],
           \A s \in Sessions : Settles(ses[s], f[s])
    PROVE  SplitInv' /\ \A s \in Sessions : Settles(ses[s], ses'[s])
  <1>1. \A s \in Sessions : KnowsSaved(f[s], saved[Profile[s]])
    <2> TAKE s \in Sessions
    <2>1. /\ KnowsSaved(ses[s], saved[Profile[s]]) /\ CheckpointOK(saved[Profile[s]])
          /\ Settles(ses[s], f[s])
      BY ProfileLeaseAssumption DEF SplitInv
    <2>2. CASE /\ f[s].version = ses[s].version /\ f[s].state = ses[s].state
               /\ f[s].save = ses[s].save /\ f[s].next = ses[s].next
      BY <2>1, <2>2 DEF KnowsSaved
    <2>3. CASE f[s].version = 0 /\ f[s].state = {} /\ f[s].save = "idle"
      BY <2>1, <2>3 DEF KnowsSaved, CheckpointOK, Checkpoints
    <2> QED
      BY <2>1, <2>2, <2>3 DEF Settles
  <1>2. \A s \in Sessions : RecordOK(f[s]) /\ ses'[s] = f[s]
    BY DEF Settles
  <1>3. ses' \in [Sessions -> Session]
    BY <1>2 DEF RecordOK
  <1> QED
    BY <1>1, <1>2, <1>3 DEF SplitInv

\* What the beginning of shutdownSessions does to a record.
LEMMA ShutdownBeginsOK ==
    ASSUME NEW r, RecordOK(r), NEW phase \in {r.stop, "draining"},
           phase = "draining" => r.listed \/ r.stop = "draining"
    PROVE  Settles(r, [r EXCEPT !.ttl = "off", !.stop = phase])
  <1> DEFINE q == [r EXCEPT !.ttl = "off", !.stop = phase]
  <1>1. /\ q.start = r.start /\ q.owned = r.owned /\ q.renew = r.renew
        /\ q.listed = r.listed /\ q.browser = r.browser /\ q.stop = phase
        /\ q.version = r.version /\ q.state = r.state /\ q.save = r.save /\ q.next = r.next
    BY DEF RecordOK, Session
  <1>2. phase \in StopPhases
    BY DEF RecordOK, Session, StopPhases
  <1>3. q \in Session
    BY <1>2 DEF RecordOK, Session
  <1> HIDE DEF q
  <1>4. RecordOK(q)
    BY <1>1, <1>3 DEF RecordOK, CalmRecord
  <1>5. Settles(r, q)
    BY <1>1, <1>4 DEF Settles, Drives, Armed
  <1> QED
    BY <1>5 DEF q

\* What the end of shutdownSessions does to a record.
LEMMA ShutdownEndsOK ==
    ASSUME NEW r, RecordOK(r), r.stop \in {"idle", "done", "drained"},
           NEW phase \in {r.stop, "done"}, phase # r.stop => r.stop = "drained"
    PROVE  Settles(r, [r EXCEPT !.listed = FALSE, !.stop = phase])
  <1> DEFINE q == [r EXCEPT !.listed = FALSE, !.stop = phase]
  <1>1. /\ q.start = r.start /\ q.owned = r.owned /\ q.renew = r.renew
        /\ q.listed = FALSE /\ q.browser = r.browser /\ q.stop = phase
        /\ q.version = r.version /\ q.state = r.state /\ q.save = r.save /\ q.next = r.next
    BY DEF RecordOK, Session
  <1>2. phase \in StopPhases
    BY DEF RecordOK, Session, StopPhases
  <1>3. q \in Session
    BY <1>2 DEF RecordOK, Session
  <1> HIDE DEF q
  <1>4. RecordOK(q)
    BY <1>1, <1>3 DEF RecordOK, CalmRecord
  <1>5. Settles(r, q)
    BY <1>1, <1>4 DEF Settles, Drives, Armed
  <1> QED
    BY <1>5 DEF q

\* The steps of shutdownSessions and of the process as a whole.
LEMMA HostStep ==
    ASSUME SplitInv, NEW h \in Hosts, ShutdownBegins(h) \/ ShutdownEnds(h) \/ ProcessEnds(h)
    PROVE  SplitInv' /\ UNCHANGED <<saved, key>> /\ \A s \in Sessions : Settles(ses[s], ses'[s])
  <1>0. \A s \in Sessions : RecordOK(ses[s]) /\ Settles(ses[s], ses[s])
    BY DEF SplitInv, Settles
  <1>1. CASE ShutdownBegins(h)
    <2> DEFINE f == [s \in Sessions |-> IF s \in On(h)
                       THEN [ses[s] EXCEPT !.ttl = "off",
                               !.stop = IF ses[s].listed /\ @ = "idle" THEN "draining" ELSE @]
                       ELSE ses[s]]
    <2>1. \A s \in Sessions : Settles(ses[s], f[s])
      <3> SUFFICES ASSUME NEW s \in Sessions
                   PROVE  Settles(ses[s], f[s])
        OBVIOUS
      <3> DEFINE phase == IF ses[s].listed /\ ses[s].stop = "idle" THEN "draining" ELSE ses[s].stop
                 q     == [ses[s] EXCEPT !.ttl = "off", !.stop = phase]
      <3>1. f[s] \in {q, ses[s]}
        OBVIOUS
      <3>2. /\ phase \in {ses[s].stop, "draining"}
            /\ phase = "draining" => ses[s].listed \/ ses[s].stop = "draining"
        OBVIOUS
      <3> HIDE DEF phase, f
      <3>3. Settles(ses[s], q)
        BY <1>0, <3>2, ShutdownBeginsOK
      <3> QED
        BY <1>0, <3>1, <3>3
    <2>2. ses' = [s \in Sessions |-> f[s]] /\ UNCHANGED <<saved, key>>
      BY <1>1 DEF ShutdownBegins
    <2>3. host' \in [Hosts -> {"up", "draining", "shut", "dead"}]
      BY <1>1 DEF ShutdownBegins, SplitInv
    <2> HIDE DEF f
    <2> QED
      BY <2>1, <2>2, <2>3, RewriteStep
  <1>2. CASE ShutdownEnds(h)
    <2> DEFINE f == [s \in Sessions |-> IF s \in On(h)
                       THEN [ses[s] EXCEPT !.listed = FALSE,
                                           !.stop = IF @ = "drained" THEN "done" ELSE @]
                       ELSE ses[s]]
    <2>1. \A s \in Sessions : Settles(ses[s], f[s])
      <3> SUFFICES ASSUME NEW s \in Sessions
                   PROVE  Settles(ses[s], f[s])
        OBVIOUS
      <3>0. s \in On(h) => ses[s].stop \in {"idle", "done", "drained"}
        BY <1>2 DEF ShutdownEnds
      <3> DEFINE phase == IF ses[s].stop = "drained" THEN "done" ELSE ses[s].stop
                 q     == [ses[s] EXCEPT !.listed = FALSE, !.stop = phase]
      <3>1. f[s] = IF s \in On(h) THEN q ELSE ses[s]
        OBVIOUS
      <3>2. phase \in {ses[s].stop, "done"} /\ (phase # ses[s].stop => ses[s].stop = "drained")
        OBVIOUS
      <3> HIDE DEF phase, f
      <3>3. s \in On(h) => Settles(ses[s], q)
        BY <1>0, <3>0, <3>2, ShutdownEndsOK
      <3> QED
        BY <1>0, <3>1, <3>3
    <2>2. ses' = [s \in Sessions |-> f[s]] /\ UNCHANGED <<saved, key>>
      BY <1>2 DEF ShutdownEnds
    <2>3. host' \in [Hosts -> {"up", "draining", "shut", "dead"}]
      BY <1>2 DEF ShutdownEnds, SplitInv
    <2> HIDE DEF f
    <2> QED
      BY <2>1, <2>2, <2>3, RewriteStep
  <1>3. CASE ProcessEnds(h)
    <2> DEFINE f == [s \in Sessions |-> IF s \in On(h) THEN Dead ELSE ses[s]]
    <2>1. \A s \in Sessions : Settles(ses[s], f[s])
      <3>1. /\ RecordOK(Dead) /\ Dead.version = 0 /\ Dead.state = {} /\ Dead.save = "idle"
            /\ ~Drives(Dead)
        BY DEF RecordOK, Session, Dead, NewSession, CalmRecord, StartPhases, StopPhases,
           RenewPhases, BrowserPhases, Drives
      <3>2. \A s \in Sessions : Settles(ses[s], Dead)
        BY <3>1 DEF Settles
      <3> QED
        BY <1>0, <3>2
    <2>2. ses' = [s \in Sessions |-> f[s]] /\ UNCHANGED <<saved, key>>
      BY <1>3 DEF ProcessEnds
    <2>3. host' \in [Hosts -> {"up", "draining", "shut", "dead"}]
      BY <1>3 DEF ProcessEnds, SplitInv
    <2> HIDE DEF f
    <2> QED
      BY <2>1, <2>2, <2>3, RewriteStep
  <1> QED
    BY <1>1, <1>2, <1>3

\* A lease that lapses.
LEMMA LapseStep ==
    ASSUME SplitInv, NEW p \in Profiles, LeaseLapses(p)
    PROVE  SplitInv'
  BY DEF SplitInv, LeaseLapses, KeyLapses

\* A step that is taken for one session.
SessionNext(s) == StartNext(s) \/ StopNext(s) \/ RenewNext(s) \/ TimerNext(s) \/ SaveNext(s)

\* The steps that neither load nor save login state.
LEMMA SilentStep ==
    ASSUME SplitInv, NEW s \in Sessions, StartNext(s) \/ StopNext(s) \/ RenewNext(s) \/ TimerNext(s),
           ~StartLoads(s), ~SessionStops(s), ~Checkpoint(s)
    PROVE  SplitInv' /\ UNCHANGED saved /\ Quiet(s) /\ StillLeased(s) /\ StillEnding(s)
  <1>1. Quiet(s) /\ StillLeased(s) /\ StillEnding(s)
    BY StartQuiet, StopQuiet, RenewQuiet, TtlQuiet DEF StartNext, StopNext, RenewNext, TimerNext
  <1>2. UNCHANGED <<host, saved>>
    BY DEF StartNext, StopNext, RenewNext, TimerNext, StartCall, StartRefused, StartAcquires,
       StartNotLeased, StartLaunched, StartLaunchFails, StartReturns, StartSaveFails,
       StartFailureClosed, StartFailureReleased, StopCall, StopClosed, StopReleased,
       ShutdownClosed, ShutdownReleased, RenewSends, RenewApplies, Renewed, RenewDrops,
       RenewLost, RenewLostStops, TtlPasses, TtlFires
  <1>3. \/ UNCHANGED key
        \/ AcquireWrites(s)
        \/ \E o \in Outcomes : ReleaseLease(s, o)
    BY DEF StartNext, StopNext, RenewNext, TimerNext, StartCall, StartRefused, StartAcquires,
       StartNotLeased, StartLaunched, StartLaunchFails, StartReturns, StartSaveFails,
       StartFailureClosed, StartFailureReleased, StopCall, StopClosed, StopReleased,
       ShutdownClosed, ShutdownReleased, RenewSends, RenewApplies, Renewed, RenewDrops,
       RenewLost, RenewLostStops, TtlPasses, TtlFires
  <1>4. key' \in [Profiles -> Sessions \cup {NoSession}]
    BY <1>3, ReleaseTypes, AcquireTypes DEF SplitInv
  <1> QED
    BY <1>1, <1>2, <1>4, QuietStep

\* Every step of a session keeps the first part of the invariant.
LEMMA SessionSplit ==
    ASSUME SplitInv, NEW s \in Sessions, SessionNext(s)
    PROVE  SplitInv' /\ StillLeased(s) /\ ses' = [ses EXCEPT ![s] = ses'[s]]
  <1>1. CASE StartLoads(s)
    BY <1>1, LoadStep DEF StartLoads, SplitInv
  <1>2. CASE Checkpoint(s) \/ SaveScans(s) \/ SessionStops(s)
    BY <1>2, ScanStep DEF Checkpoint, SaveScans, SessionStops, SplitInv
  <1>3. CASE SaveLinks(s)
    BY <1>3, LinkStep DEF SaveLinks, SplitInv
  <1>4. CASE ~(StartLoads(s) \/ Checkpoint(s) \/ SaveScans(s) \/ SessionStops(s) \/ SaveLinks(s))
    BY <1>4, SilentStep DEF SessionNext, SaveNext, Quiet
  <1> QED
    BY <1>1, <1>2, <1>3, <1>4

\* A session loses its key only to a release of its own, or by expiry.
LEMMA LostKey ==
    ASSUME SplitInv, NEW s \in Sessions, NEW q \in Sessions, Holds(s), ~Holds(s)',
           \/ UNCHANGED key
           \/ AcquireAccepts(q) /\ AcquireWrites(q)
           \/ \E o \in Outcomes : ReleaseLease(q, o)
    PROVE  q = s
  <1>0. key \in [Profiles -> Sessions \cup {NoSession}] /\ s # NoSession
    BY ProfileLeaseAssumption DEF SplitInv
  <1>1. Profile[s] \in Profiles /\ Profile[q] \in Profiles
    BY ProfileLeaseAssumption
  <1>2. key[Profile[s]] = s /\ key'[Profile[s]] # s
    BY DEF Holds
  <1>3. CASE AcquireAccepts(q) /\ AcquireWrites(q)
    BY <1>0, <1>1, <1>2, <1>3 DEF AcquireAccepts, AcquireWrites
  <1>4. CASE \E o \in Outcomes : ReleaseLease(q, o)
    BY <1>0, <1>1, <1>2, <1>4 DEF ReleaseLease, Holds
  <1> QED
    BY <1>2, <1>3, <1>4

\* The steps of a session on the key.
LEMMA KeySteps ==
    ASSUME NEW q \in Sessions, SessionNext(q)
    PROVE  \/ UNCHANGED key
           \/ AcquireAccepts(q) /\ AcquireWrites(q)
           \/ /\ \E o \in Outcomes : ReleaseLease(q, o)
              /\ \/ ses[q].start = "releasing" /\ ses' = [ses EXCEPT ![q].start = "failed"]
                 \/ ses[q].stop = "releasing" /\ ses' = [ses EXCEPT ![q].stop = "done"]
                 \/ ses[q].stop = "unwinding" /\ ses' = [ses EXCEPT ![q].stop = "drained"]
                 \/ ses[q].renew = "drop" /\ ses' = [ses EXCEPT ![q].renew = "off"]
  BY DEF SessionNext, SaveNext, SaveScans, SaveLinks, StartNext, StopNext, RenewNext, TimerNext,
     StartCall, StartLoads, StartRefused,
     StartAcquires, StartNotLeased, StartLaunched, StartLaunchFails, StartReturns, StartSaveFails,
     StartFailureClosed, StartFailureReleased, StopCall, SessionStops, StopClosed, StopReleased,
     ShutdownClosed, ShutdownReleased, RenewSends, RenewApplies, Renewed, RenewDrops,
     RenewLost, RenewLostStops, Checkpoint, TtlPasses, TtlFires

\* A session that counts on its lease and is managed does not give it up.
LEMMA KeyKept ==
    ASSUME SplitInv, NEW s \in Sessions, NEW q \in Sessions, SessionNext(q), Holds(s),
           ses[s].listed, ses[s].owned
    PROVE  Holds(s)'
  <1> SUFFICES ASSUME ~Holds(s)' PROVE FALSE
    OBVIOUS
  <1>1. q = s
    BY KeySteps, LostKey
  <1>2. ~UNCHANGED key
    BY DEF Holds
  <1>3. ~AcquireAccepts(s)
    BY ProfileLeaseAssumption DEF Holds, AcquireAccepts
  <1>4. \/ ses[s].start = "releasing" \/ ses[s].stop \in {"releasing", "unwinding"}
        \/ ses[s].renew = "drop"
    BY <1>1, <1>2, <1>3, KeySteps
  <1>5. RecordOK(ses[s])
    BY DEF SplitInv
  <1> QED
    BY <1>4, <1>5 DEF RecordOK

\* Driving, in terms of one record.
LEMMA LeaseForm ==
    LeaseInv <=> (Calm => \A s \in Sessions : Drives(ses[s]) => Holds(s) /\ Armed(ses[s]))
  BY DEF LeaseInv, Driving, Drives, Armed

\* A managed browser stays under its lease.
LEMMA LeaseStep ==
    ASSUME SplitInv, LeaseInv, Calm, ManagerNext
    PROVE  \A s \in Sessions : Drives(ses'[s]) => Holds(s)' /\ Armed(ses'[s])
  <1> SUFFICES ASSUME NEW s \in Sessions, Drives(ses'[s]) PROVE Holds(s)' /\ Armed(ses'[s])
    OBVIOUS
  <1>0. /\ Drives(ses[s]) => Holds(s) /\ Armed(ses[s]) /\ ses[s].listed /\ ses[s].owned
        /\ ses \in [Sessions -> Session]
    BY LeaseForm DEF Drives, Armed, SplitInv
  <1>1. ASSUME NEW q \in Sessions, SessionNext(q)
        PROVE  Holds(s)' /\ Armed(ses'[s])
    <2>1. StillLeased(q) /\ ses' = [ses EXCEPT ![q] = ses'[q]]
      BY <1>1, SessionSplit
    <2>2. CASE q # s
      <3>1. ses'[s] = ses[s]
        BY <1>0, <2>1, <2>2
      <3> QED
        BY <1>0, <1>1, <3>1, KeyKept
    <2>3. CASE q = s /\ StartAcquires(s)
      <3>1. Holds(s)'
        BY <2>3, ProfileLeaseAssumption DEF StartAcquires, AcquireWrites, Holds, SplitInv
      <3>2. Armed(ses'[s])
        BY <1>0, <2>3 DEF StartAcquires, Armed, Session
      <3> QED
        BY <3>1, <3>2
    <2>4. CASE q = s /\ ~StartAcquires(s)
      <3>1. Drives(ses[s]) /\ (Holds(s) /\ Armed(ses[s]) => Armed(ses'[s]))
        BY <2>1, <2>4 DEF StillLeased
      <3> QED
        BY <1>0, <1>1, <3>1, KeyKept
    <2> QED
      BY <2>2, <2>3, <2>4
  <1>2. ASSUME NEW p \in Profiles, LeaseLapses(p)
        PROVE  Holds(s)' /\ Armed(ses'[s])
    <2>1. Abandoned(p) /\ UNCHANGED ses /\ key' = [key EXCEPT ![p] = NoSession]
      BY <1>2 DEF LeaseLapses, KeyLapses, Calm
    <2>2. Holds(s) /\ Armed(ses[s]) /\ ses'[s] = ses[s]
      BY <1>0, <2>1
    <2>3. Profile[s] # p
      BY <2>1, <2>2 DEF Abandoned, Holds, Armed
    <2> QED
      BY <2>1, <2>2, <2>3, ProfileLeaseAssumption DEF Holds, SplitInv
  <1>3. ASSUME NEW h \in Hosts, ShutdownBegins(h) \/ ShutdownEnds(h) \/ ProcessEnds(h)
        PROVE  Holds(s)' /\ Armed(ses'[s])
    BY <1>0, <1>3, HostStep DEF Settles, Holds
  <1> QED
    BY <1>1, <1>2, <1>3 DEF ManagerNext, SessionNext

\* While all is calm, two sessions that save last on one profile are one session.
LEMMA EndingExclusive ==
    ASSUME SplitInv, LeaseInv, Calm, NEW s \in Sessions, NEW q \in Sessions,
           ses[s].browser = "ending", ses[q].browser = "ending", Profile[s] = Profile[q]
    PROVE  s = q
  <1>1. \A x \in Sessions : ses[x].browser = "ending" => Drives(ses[x])
    BY DEF SplitInv, RecordOK, CalmRecord, Drives
  <1> QED
    BY <1>1, LeaseForm DEF Holds

\* Without periodic checkpoints, no other save comes between the steps of one.
LEMMA SaveStep ==
    ASSUME SplitInv, LeaseInv, SaveInv, Calm, MaxVersion = 0, ManagerNext
    PROVE  \A s \in Sessions : ses'[s].save # "idle" =>
              ses'[s].browser = "ending" /\ saved'[Profile[s]].version = ses'[s].version
  <1> SUFFICES ASSUME NEW s \in Sessions, ses'[s].save # "idle"
               PROVE  ses'[s].browser = "ending" /\ saved'[Profile[s]].version = ses'[s].version
    OBVIOUS
  <1>0. /\ \A x \in Sessions : ses[x].save # "idle" =>
              ses[x].browser = "ending" /\ saved[Profile[x]].version = ses[x].version
        /\ ses \in [Sessions -> Session] /\ Profile[s] \in Profiles /\ RecordOK(ses[s])
    BY ProfileLeaseAssumption DEF SaveInv, SaveAccepts, SplitInv
  <1>1. ASSUME NEW q \in Sessions, SessionNext(q)
        PROVE  ses'[s].browser = "ending" /\ saved'[Profile[s]].version = ses'[s].version
    <2>0. ses' = [ses EXCEPT ![q] = ses'[q]]
      BY <1>1, SessionSplit
    <2>1. q # s => ses'[s] = ses[s]
      BY <1>0, <2>0
    <2>2. CASE StartLoads(q)
      <3>1. UNCHANGED saved /\ ses[q].start = "loading"
        BY <2>2 DEF StartLoads
      <3>2. q # s
        <4>1. ASSUME q = s PROVE ses'[s].save = ses[s].save
          BY <1>0, <2>2, <4>1 DEF StartLoads, Session
        <4> QED
          BY <1>0, <3>1, <4>1 DEF RecordOK, CalmRecord
      <3> QED
        BY <1>0, <2>1, <3>1, <3>2
    <2>3. CASE Checkpoint(q)
      <3>1. saved[Profile[q]].version \in Nat
        BY ProfileLeaseAssumption DEF SplitInv, Checkpoints
      <3> QED
        BY <2>3, <3>1 DEF Checkpoint
    <2>4. CASE SaveScans(q)
      <3>1. UNCHANGED saved /\ ses[q].save = "checked"
        BY <2>4 DEF SaveScans
      <3>2. q = s => /\ ses'[s].browser = ses[s].browser /\ ses'[s].version = ses[s].version
        <4> SUFFICES ASSUME q = s PROVE /\ ses'[s].browser = ses[s].browser
                                        /\ ses'[s].version = ses[s].version
          OBVIOUS
        <4>1. ses' = [ses EXCEPT ![s] = [ses[s] EXCEPT !.save = "scanned",
                                             !.next = saved[Profile[s]].version + 1]]
          BY <2>4, CalmOutcomes DEF SaveScans, Answered
        <4> QED
          BY <1>0, <4>1 DEF Session
      <3> QED
        BY <1>0, <2>1, <3>1, <3>2
    <2>5. CASE SessionStops(q)
      <3>1. UNCHANGED saved
        BY <2>5 DEF SessionStops
      <3>2. CASE q = s
        <4>1. \/ /\ ses' = [ses EXCEPT ![s] = [ses[s] EXCEPT !.browser = "ending", !.save = "checked"]]
                 /\ SaveAccepts(s)
              \/ ses' = [ses EXCEPT ![s] = [ses[s] EXCEPT !.browser = "down"]]
          BY <2>5, <3>2 DEF SessionStops
        <4>2. ses[s].save = "idle"
          BY <2>5, <3>2 DEF SessionStops
        <4>3. CASE ses' = [ses EXCEPT ![s] = [ses[s] EXCEPT !.browser = "down"]]
          BY <1>0, <4>2, <4>3 DEF Session
        <4>4. CASE /\ ses' = [ses EXCEPT ![s] = [ses[s] EXCEPT !.browser = "ending", !.save = "checked"]]
                   /\ SaveAccepts(s)
          BY <1>0, <3>1, <4>4 DEF Session, SaveAccepts
        <4> QED
          BY <4>1, <4>3, <4>4
      <3> QED
        BY <1>0, <2>1, <3>1, <3>2
    <2>6. CASE SaveLinks(q)
      <3>1. ses[q].save = "scanned" /\ ses'[q].save = "idle"
        BY <1>0, <2>6 DEF SaveLinks, SaveEnded, Session
      <3>2. q # s /\ ses'[s] = ses[s]
        BY <2>1, <3>1
      <3>3. Profile[s] # Profile[q]
        BY <1>0, <3>1, <3>2, EndingExclusive
      <3>4. saved'[Profile[s]] = saved[Profile[s]]
        BY <1>0, <2>6, <3>3 DEF SaveLinks, SplitInv
      <3> QED
        BY <1>0, <3>2, <3>4
    <2>7. CASE ~(StartLoads(q) \/ Checkpoint(q) \/ SaveScans(q) \/ SessionStops(q) \/ SaveLinks(q))
      <3>1. UNCHANGED saved /\ Quiet(q) /\ StillEnding(q)
        BY <1>1, <2>7, SilentStep DEF SessionNext, SaveNext
      <3> QED
        BY <1>0, <2>1, <3>1 DEF Quiet, StillEnding
    <2> QED
      BY <2>2, <2>3, <2>4, <2>5, <2>6, <2>7
  <1>2. ASSUME NEW p \in Profiles, LeaseLapses(p)
        PROVE  ses'[s].browser = "ending" /\ saved'[Profile[s]].version = ses'[s].version
    BY <1>0, <1>2 DEF LeaseLapses
  <1>3. ASSUME NEW h \in Hosts, ShutdownBegins(h) \/ ShutdownEnds(h) \/ ProcessEnds(h)
        PROVE  ses'[s].browser = "ending" /\ saved'[Profile[s]].version = ses'[s].version
    BY <1>0, <1>3, HostStep DEF Settles
  <1> QED
    BY <1>1, <1>2, <1>3 DEF ManagerNext, SessionNext

\* Every step keeps the first part of the invariant.
LEMMA SplitStep ==
    ASSUME SplitInv, ManagerNext
    PROVE  SplitInv'
  BY SessionSplit, LapseStep, HostStep DEF ManagerNext, SessionNext

\* The invariant of the session managers, whatever the interleaving of starts, stops,
\* timers, renewals, saves, shutdowns and crashes: a lease that is being released is not
\* counted on, whoever knows the newest checkpoint knows all of its login state, and while
\* all is calm a managed browser is under its lease.
THEOREM ManagerInvariance == ManagerSpec => []ManagerInv
PROOF
  <1>1. ManagerInit => ManagerInv
    <2> SUFFICES ASSUME ManagerInit PROVE ManagerInv
      OBVIOUS
    <2>1. \A s \in Sessions : ses[s] = NewSession
      BY DEF ManagerInit
    <2>2. RecordOK(NewSession) /\ ~NewSession.listed /\ NewSession.save = "idle"
      BY DEF NewSession, RecordOK, CalmRecord, Session, StartPhases, StopPhases, RenewPhases,
         BrowserPhases
    <2>3. SplitInv
      BY <2>2, ProfileLeaseAssumption
      DEF ManagerInit, LeaseKeyInit, SplitInv, RecordOK, NewSession, KnowsSaved, CheckpointOK,
          Checkpoints
    <2>4. LeaseInv /\ SaveInv
      BY <2>1, <2>2 DEF LeaseInv, Driving, SaveInv
    <2> QED
      BY <2>3, <2>4, InvForm
  <1>2. ManagerInv /\ [ManagerNext]_managerVars => ManagerInv'
    <2> SUFFICES ASSUME ManagerInv, [ManagerNext]_managerVars PROVE ManagerInv'
      OBVIOUS
    <2>1. CASE ManagerNext
      <3>1. SplitInv'
        BY <2>1, InvForm, SplitStep
      <3>2. LeaseInv'
        BY <2>1, InvForm, LeaseStep DEF LeaseInv, Driving, Drives, Armed
      <3>3. SaveInv'
        BY <2>1, InvForm, SaveStep DEF SaveInv, SaveAccepts
      <3>4. SplitInv' /\ LeaseInv' /\ SaveInv' => ManagerInv'
        BY InvForm, PTL
      <3> QED
        BY <3>1, <3>2, <3>3, <3>4
    <2>2. CASE UNCHANGED managerVars
      BY <2>2 DEF managerVars, ManagerInv, ManagerTypeOK, OwnerInv, LoginInv, CalmInv, SaveInv,
         SaveAccepts, Driving, Holds
    <2> QED
      BY <2>1, <2>2
  <1>3. QED
    BY <1>1, <1>2, PTL DEF ManagerSpec

\* Type correctness of the session records, the leases and the checkpoints.
THEOREM ManagerTypeCorrect == ManagerSpec => []ManagerTypeOK
PROOF
  <1>1. ManagerInv => ManagerTypeOK
    BY DEF ManagerInv
  <1>2. QED
    BY <1>1, ManagerInvariance, PTL

\* The lease keeps two managed browsers from driving one profile, for any number of
\* sessions, profiles and hosts, as long as renewals are in time and no call fails.
THEOREM ExclusiveDrivers == ManagerSpec => []ProfileExclusive
PROOF
  <1>1. ManagerInv => ProfileExclusive
    BY DEF ManagerInv, CalmInv, ProfileExclusive, Holds
  <1>2. QED
    BY <1>1, ManagerInvariance, PTL

\* Saving with the expected version under the lease keeps the work of every session that
\* saved, for any number of sessions and hosts on a profile.
THEOREM LoginSafe == ManagerSpec => LoginNotRolledBack
PROOF
  <1>1. ManagerInv /\ [ManagerNext]_managerVars =>
           [Calm /\ MaxVersion = 0 =>
              \A p \in Profiles : saved[p].state \subseteq saved'[p].state]_managerVars
    <2> SUFFICES ASSUME SplitInv, SaveInv, ManagerNext, Calm, MaxVersion = 0,
                        NEW p \in Profiles
                 PROVE  saved[p].state \subseteq saved'[p].state
      BY InvForm
    <2>1. ASSUME NEW s \in Sessions, SessionNext(s)
          PROVE  saved[p].state \subseteq saved'[p].state
      <3>1. CASE SaveLinks(s)
        <4>1. SaveAccepts(s)
          BY <3>1 DEF SaveInv, SaveLinks
        <4>2. saved[Profile[s]].state \subseteq ses[s].state
          BY <4>1 DEF SplitInv, KnowsSaved, SaveAccepts
        <4> QED
          BY <3>1, <4>2, LinkStep
      <3>2. CASE ~SaveLinks(s)
        <4>1. UNCHANGED saved
          BY <2>1, <3>2, SilentStep DEF SessionNext, SaveNext, StartLoads, SaveScans, SessionStops,
             Checkpoint
        <4> QED
          BY <4>1
      <3> QED
        BY <3>1, <3>2
    <2>2. ASSUME NEW x \in Profiles, LeaseLapses(x)
          PROVE  saved[p].state \subseteq saved'[p].state
      BY <2>2 DEF LeaseLapses
    <2>3. ASSUME NEW h \in Hosts, ShutdownBegins(h) \/ ShutdownEnds(h) \/ ProcessEnds(h)
          PROVE  saved[p].state \subseteq saved'[p].state
      BY <2>3, HostStep
    <2> QED
      BY <2>1, <2>2, <2>3 DEF ManagerNext, SessionNext
  <1>2. QED
    BY <1>1, ManagerInvariance, PTL DEF ManagerSpec, LoginNotRolledBack

\* No late release, whoever sends it, takes the lease from a session that is managed
\* and counts on it, for any number of sessions and hosts on a profile.
THEOREM LeaseKept == ManagerSpec => ManagedLeaseHeld
PROOF
  <1>1. ManagerInv /\ [ManagerNext]_managerVars =>
           [\A s \in Sessions :
              Holds(s) /\ ses[s].listed /\ ses'[s].listed /\ ses'[s].owned /\ ~Holds(s)' =>
                 key'[Profile[s]] = NoSession /\ UNCHANGED ses]_managerVars
    <2> SUFFICES ASSUME SplitInv, ManagerNext, NEW s \in Sessions, Holds(s), ses[s].listed,
                        ses'[s].listed, ses'[s].owned, ~Holds(s)'
                 PROVE  key'[Profile[s]] = NoSession /\ UNCHANGED ses
      BY InvForm
    <2>0. RecordOK(ses[s]) /\ ses \in [Sessions -> Session] /\ Profile[s] \in Profiles
      BY ProfileLeaseAssumption DEF SplitInv
    <2>1. ASSUME NEW q \in Sessions, SessionNext(q)
          PROVE  FALSE
      <3>1. q = s
        BY <2>1, KeySteps, LostKey
      <3>2. ~UNCHANGED key
        BY DEF Holds
      <3>3. ~AcquireAccepts(q)
        BY <3>1, ProfileLeaseAssumption DEF Holds, AcquireAccepts
      <3>4. \/ ses[s].start = "releasing" /\ ses' = [ses EXCEPT ![s].start = "failed"]
            \/ ses[s].stop = "releasing" /\ ses' = [ses EXCEPT ![s].stop = "done"]
            \/ ses[s].stop = "unwinding" /\ ses' = [ses EXCEPT ![s].stop = "drained"]
            \/ ses[s].renew = "drop" /\ ses' = [ses EXCEPT ![s].renew = "off"]
        BY <2>1, <3>1, <3>2, <3>3, KeySteps
      <3>5. ses'[s].owned = ses[s].owned
        <4> DEFINE r == ses[s]
        <4>1. r \in Session
          BY <2>0
        <4>2. \/ ses'[s] = [r EXCEPT !.start = "failed"]
              \/ ses'[s] = [r EXCEPT !.stop = "done"]
              \/ ses'[s] = [r EXCEPT !.stop = "drained"]
              \/ ses'[s] = [r EXCEPT !.renew = "off"]
          BY <2>0, <3>4
        <4> HIDE DEF r
        <4>3. ses'[s].owned = r.owned
          BY <4>1, <4>2 DEF Session
        <4> QED
          BY <4>3 DEF r
      <3>6. ses[s].owned = TRUE /\ ses[s].listed = TRUE
        BY <2>0, <3>5 DEF Session
      <3> QED
        BY <2>0, <3>4, <3>6 DEF RecordOK
    <2>2. ASSUME NEW p \in Profiles, LeaseLapses(p)
          PROVE  key'[Profile[s]] = NoSession /\ UNCHANGED ses
      BY <2>0, <2>2 DEF LeaseLapses, KeyLapses, Holds, SplitInv
    <2>3. ASSUME NEW h \in Hosts, ShutdownBegins(h) \/ ShutdownEnds(h) \/ ProcessEnds(h)
          PROVE  FALSE
      BY <2>3, HostStep DEF Holds
    <2> QED
      BY <2>1, <2>2, <2>3 DEF ManagerNext, SessionNext
  <1>2. QED
    BY <1>1, ManagerInvariance, PTL DEF ManagerSpec, ManagedLeaseHeld

-------------------------------------------------------------------------------
(* The REST server.  ApiInv says what an entry of the map, and a request   *)
(* between two of its awaits, know of the sessions of the manager.         *)

ApiOps == {"none", "start", "stop", "delete", "batchStart", "batchStop", "batchDelete", "restore", "purge",
           "restoreBackup", "assign", "clone", "deleteExtension", "sessions", "broadcast", "scrape", "use"}
ApiPhases == {"idle", "exists", "look", "launch", "launching", "read", "end", "failed", "use", "find", "stopping",
              "stopped", "answer", "trash", "restore", "purge", "halt", "copy", "inUse", "remove", "validate",
              "write", "list", "targets", "cast", "done"}
ApiCodes == {"none", "PERMISSION_DENIED", "PROFILE_NOT_FOUND", "ALREADY_RUNNING", "START_FAILED", "OK", "READ_FAILED",
             "SESSION_NOT_FOUND", "STOP_FAILED", "NOT_FOUND", "BACKUP_NOT_FOUND", "EXTENSION_IN_USE",
             "EXTENSION_NOT_FOUND", "INVALID_INPUT"}
ApiRequest == [op : ApiOps, profile : ApiProfiles \cup {"none"}, ext : SUBSET ApiExtensions, phase : ApiPhases,
               sid : Nat, answer : ApiCodes]
ManagedSession == [profile : ApiProfiles \cup {"none"}, state : {"launching", "ready", "closing", "gone"}]
Numbered == DOMAIN managed

ApiTyped ==
    /\ request \in [ApiRequests -> ApiRequest]
    /\ sessionMap \in [ApiProfiles -> Nat]
    /\ \E n \in Nat : managed \in [1..n -> ManagedSession]

\* An entry of the map names a session of that profile that was up.
EntryHolds(p) ==
    sessionMap[p] # 0 =>
       /\ sessionMap[p] \in Numbered
       /\ managed[sessionMap[p]].profile = p /\ managed[sessionMap[p]].state # "launching"

\* What a request knows of its session.
RequestHolds(r) ==
    LET q == request[r] IN
    /\ q.phase = "idle" => q.op = "none"
    /\ q.phase \in {"idle", "exists", "look", "launch", "find"} => q.sid = 0
    /\ q.phase \in {"exists", "look", "find"} => q.profile \in ApiProfiles
    /\ q.phase = "launching" =>
          q.sid \in Numbered /\ managed[q.sid].profile = q.profile /\ managed[q.sid].state = "launching"
    /\ q.phase \in {"read", "end", "failed", "stopping", "stopped"} =>
          q.sid \in Numbered /\ managed[q.sid].state # "launching"
    /\ q.phase = "stopped" => managed[q.sid].state = "gone"
    /\ q.op = "scrape" => q.phase \in {"launch", "launching", "read", "end", "failed", "done"}
    /\ q.op = "scrape" /\ q.phase = "done" /\ q.sid # 0 => q.sid \in Numbered /\ managed[q.sid].state = "gone"

\* A session that is being launched is one request's.
LaunchesApart ==
    \A r, o \in ApiRequests :
       request[r].phase = "launching" /\ request[o].phase = "launching" /\ request[r].sid = request[o].sid => r = o

ApiInv ==
    /\ ApiTyped
    /\ \A p \in ApiProfiles : EntryHolds(p)
    /\ \A r \in ApiRequests : RequestHolds(r)
    /\ LaunchesApart

-------------------------------------------------------------------------------
\* A request goes to a phase, with a session and an answer.
Moves(r, ph, s, c) ==
    /\ request' \in [ApiRequests -> ApiRequest]
    /\ \A o \in ApiRequests \ {r} : request'[o] = request[o]
    /\ request'[r].op = request[r].op /\ request'[r].profile = request[r].profile
    /\ request'[r].phase = ph /\ request'[r].sid = s /\ request'[r].answer = c

\* The sessions go on: they keep their profile, and one that was up is not
\* launched again.  Only the owner of a launch ends it.
GoesOn(own) ==
    /\ \E n \in Nat : managed' \in [1..n -> ManagedSession]
    /\ \A s \in Numbered :
          /\ s \in Numbered' /\ managed'[s].profile = managed[s].profile
          /\ managed[s].state = "gone" => managed'[s].state = "gone"
          /\ managed[s].state # "launching" => managed'[s].state # "launching"
          /\ managed[s].state = "launching" /\ s \notin own => managed'[s].state = "launching"

Own(r) == IF request[r].phase = "launching" THEN {request[r].sid} ELSE {}

\* Numbered that nobody touches go on.
LEMMA GoesOnUntouched ==
  ASSUME ApiInv, UNCHANGED managed, NEW own PROVE GoesOn(own)
  BY DEF ApiInv, ApiTyped, GoesOn, Numbered

\* A request that does nothing still knows its session.
LEMMA RequestStays ==
  ASSUME ApiInv, NEW own, GoesOn(own), NEW o \in ApiRequests, request'[o] = request[o],
         request[o].phase = "launching" => request[o].sid \notin own
  PROVE  RequestHolds(o)'
  <1>1. RequestHolds(o)
    BY DEF ApiInv
  <1> QED BY <1>1 DEF RequestHolds, GoesOn

\* An entry stays, or is dropped.
LEMMA EntryStays ==
  ASSUME ApiInv, NEW own, GoesOn(own), NEW p \in ApiProfiles, sessionMap'[p] \in {0, sessionMap[p]}
  PROVE  EntryHolds(p)'
  BY DEF ApiInv, EntryHolds, GoesOn

\* One request moves, and with it at most the session it launches.
LEMMA OneRequestMoves ==
  ASSUME ApiInv, NEW r \in ApiRequests, request' \in [ApiRequests -> ApiRequest],
         \A o \in ApiRequests \ {r} : request'[o] = request[o],
         GoesOn(Own(r)), RequestHolds(r)',
         request'[r].phase = "launching" => request'[r].sid \notin Numbered,
         sessionMap' \in [ApiProfiles -> Nat],
         \A p \in ApiProfiles : sessionMap'[p] \in {0, sessionMap[p]} \/ EntryHolds(p)'
  PROVE  ApiInv'
  <1>1. ApiTyped'
    BY DEF ApiTyped, GoesOn
  <1>2. \A o \in ApiRequests : o # r /\ request[o].phase = "launching" => request[o].sid \notin Own(r)
    BY DEF ApiInv, LaunchesApart, Own
  <1>3. ASSUME NEW o \in ApiRequests PROVE RequestHolds(o)'
    <2>1. CASE o = r
      BY <2>1
    <2>2. CASE o # r
      BY <1>2, <2>2, RequestStays
    <2> QED BY <2>1, <2>2
  <1>4. ASSUME NEW p \in ApiProfiles PROVE EntryHolds(p)'
    BY EntryStays
  <1>5. LaunchesApart'
    <2>1. \A o \in ApiRequests : request[o].phase = "launching" => request[o].sid \in Numbered
      BY DEF ApiInv, RequestHolds
    <2> QED BY <2>1 DEF ApiInv, LaunchesApart
  <1> QED BY <1>1, <1>3, <1>4, <1>5 DEF ApiInv

\* What the other requests answered and where they are does not change.
LEMMA SoundMove ==
  ASSUME NEW r \in ApiRequests, \A o \in ApiRequests \ {r} : request'[o] = request[o],
         request'[r].answer # "ALREADY_RUNNING" \/ request[r].answer = "ALREADY_RUNNING",
         request'[r].phase \notin {"trash", "copy"} \/ request[r].op \notin {"delete", "restoreBackup"}
  PROVE  RunningIsTrue /\ StopsBeforeData
  BY DEF RunningIsTrue, StopsBeforeData

\* A request moves and touches neither a session nor the map.
LEMMA QuietMove ==
  ASSUME ApiInv, NEW r \in ApiRequests, NEW ph \in ApiPhases \ {"launching", "trash", "copy"}, NEW c,
         c = request[r].answer \/ c # "ALREADY_RUNNING",
         Moves(r, ph, request[r].sid, c), RequestHolds(r)', UNCHANGED <<managed, sessionMap>>
  PROVE  ApiInv' /\ RunningIsTrue /\ StopsBeforeData
  <1>1. GoesOn(Own(r))
    BY GoesOnUntouched
  <1>2. sessionMap' \in [ApiProfiles -> Nat] /\ \A p \in ApiProfiles : sessionMap'[p] \in {0, sessionMap[p]}
    BY DEF ApiInv, ApiTyped
  <1>3. RunningIsTrue /\ StopsBeforeData
    BY SoundMove DEF Moves
  <1> QED BY <1>1, <1>2, <1>3, OneRequestMoves DEF Moves

\* No request, no session and an empty map.
LEMMA ApiInitial == ApiInit => ApiInv
  <1> SUFFICES ASSUME ApiInit PROVE ApiInv
    OBVIOUS
  <1>1. managed \in [1..0 -> ManagedSession]
    BY DEF ApiInit
  <1>2. NoRequest \in ApiRequest
    BY DEF NoRequest, ApiRequest, ApiOps, ApiPhases, ApiCodes
  <1>3. ApiTyped
    BY <1>1, <1>2 DEF ApiInit, ApiTyped
  <1> QED BY <1>3 DEF ApiInit, ApiInv, EntryHolds, RequestHolds, LaunchesApart, NoRequest

\* A request is accepted: its operation begins, or it is refused.
LEMMA AcceptKeepsMap ==
  ASSUME ApiInv, NEW r \in ApiRequests, NEW job \in ApiOps \ {"none"}, NEW p \in ApiProfiles \cup {"none"},
         job \in {"start", "stop", "delete", "batchStart", "batchStop"} => p \in ApiProfiles,
         NEW ext \in SUBSET ApiExtensions, NEW role, Accept(r, job, p, ext, role)
  PROVE  ApiInv' /\ RunningIsTrue /\ StopsBeforeData
  <1>1. UNCHANGED <<managed, sessionMap>> /\ request[r].phase = "idle"
    BY DEF Accept
  <1>2. request \in [ApiRequests -> ApiRequest] /\ RequestHolds(r)
    BY DEF ApiInv, ApiTyped
  <1>3. GoesOn(Own(r))
    BY <1>1, GoesOnUntouched
  <1>4. sessionMap' \in [ApiProfiles -> Nat] /\ \A x \in ApiProfiles : sessionMap'[x] \in {0, sessionMap[x]}
    BY <1>1 DEF ApiInv, ApiTyped
  <1>5. request[r].op = "none"
    BY <1>1, <1>2 DEF RequestHolds
  <1>6. CASE request' = Sent(r, "PERMISSION_DENIED")
    <2>1. request' = [request EXCEPT ![r] = [request[r] EXCEPT !.phase = "done", !.answer = "PERMISSION_DENIED"]]
      BY <1>2, <1>6 DEF Sent
    <2>2. [request[r] EXCEPT !.phase = "done", !.answer = "PERMISSION_DENIED"] \in ApiRequest
      <3>1. "done" \in ApiPhases /\ "PERMISSION_DENIED" \in ApiCodes
        BY DEF ApiPhases, ApiCodes
      <3> QED BY <1>2, <3>1 DEF ApiRequest
    <2>3. request' \in [ApiRequests -> ApiRequest] /\ \A o \in ApiRequests \ {r} : request'[o] = request[o]
      BY <1>2, <2>1, <2>2
    <2>4. request'[r].op = "none" /\ request'[r].phase = "done" /\ request'[r].answer = "PERMISSION_DENIED"
      BY <1>1, <1>2, <1>6 DEF Sent, RequestHolds, ApiRequest
    <2>5. RequestHolds(r)'
      BY <2>4 DEF RequestHolds
    <2> QED BY <1>3, <1>4, <1>5, <2>3, <2>4, <2>5, OneRequestMoves, SoundMove
  <1>7. CASE request' = [request EXCEPT ![r] = [NoRequest EXCEPT !.op = job, !.profile = p, !.ext = ext,
                                                                !.phase = FirstPhase(job)]]
    <2>1. FirstPhase(job) \in ApiPhases \ {"idle", "launching", "read", "end", "failed", "stopping", "stopped", "done"}
      BY DEF FirstPhase, ApiOps, ApiPhases
    <2>2. /\ FirstPhase(job) \in {"exists", "look", "find"} => p \in ApiProfiles
          /\ job = "scrape" => FirstPhase(job) = "launch"
      BY DEF FirstPhase, ApiOps
    <2>3. /\ request'[r] \in ApiRequest /\ request'[r].op = job /\ request'[r].profile = p /\ request'[r].sid = 0
          /\ request'[r].phase = FirstPhase(job) /\ request'[r].answer = "none"
      <3>1. NoRequest \in ApiRequest
        BY DEF NoRequest, ApiRequest, ApiOps, ApiPhases, ApiCodes
      <3>2. request'[r] = [NoRequest EXCEPT !.op = job, !.profile = p, !.ext = ext, !.phase = FirstPhase(job)]
        BY <1>2, <1>7
      <3> QED BY <2>1, <3>1, <3>2 DEF NoRequest, ApiRequest
    <2>4. request' \in [ApiRequests -> ApiRequest] /\ \A o \in ApiRequests \ {r} : request'[o] = request[o]
      BY <1>2, <1>7, <2>3
    <2>5. RequestHolds(r)'
      BY <2>1, <2>2, <2>3 DEF RequestHolds
    <2> QED BY <1>3, <1>4, <1>5, <2>1, <2>3, <2>4, <2>5, OneRequestMoves, SoundMove
  <1> QED BY <1>6, <1>7 DEF Accept

-------------------------------------------------------------------------------
\* The three fields of a request its steps write.
LEMMA GoesMoves ==
  ASSUME ApiInv, NEW r \in ApiRequests, NEW ph \in ApiPhases, NEW s \in Nat, NEW c \in ApiCodes,
         request' = [request EXCEPT ![r].phase = ph, ![r].sid = s, ![r].answer = c]
  PROVE  Moves(r, ph, s, c)
  <1>1. request \in [ApiRequests -> ApiRequest]
    BY DEF ApiInv, ApiTyped
  <1>2. request' = [request EXCEPT ![r] = [request[r] EXCEPT !.phase = ph, !.sid = s, !.answer = c]]
    BY <1>1
  <1>3. [request[r] EXCEPT !.phase = ph, !.sid = s, !.answer = c] \in ApiRequest
    BY <1>1 DEF ApiRequest
  <1> QED BY <1>1, <1>2, <1>3 DEF Moves, ApiRequest

\* A request waits for its next step, or is answered.
LEMMA QuietRequest ==
  ASSUME ApiInv, NEW r \in ApiRequests
  PROVE  /\ request[r] \in ApiRequest /\ RequestHolds(r)
         /\ \A ph \in ApiPhases : Goes(r, ph) => Moves(r, ph, request[r].sid, request[r].answer)
         /\ \A c \in ApiCodes : request' = Sent(r, c) => Moves(r, "done", request[r].sid, c)
         /\ \A ph \in ApiPhases, s \in Nat :
               request' = [request EXCEPT ![r].phase = ph, ![r].sid = s] => Moves(r, ph, s, request[r].answer)
         /\ \A ph \in ApiPhases, c \in ApiCodes :
               request' = [request EXCEPT ![r].phase = ph, ![r].answer = c] => Moves(r, ph, request[r].sid, c)
  <1>1. request \in [ApiRequests -> ApiRequest] /\ RequestHolds(r)
    BY DEF ApiInv, ApiTyped
  <1>2. request[r].sid \in Nat /\ request[r].answer \in ApiCodes /\ "done" \in ApiPhases
    BY <1>1 DEF ApiRequest, ApiPhases
  <1>3. ASSUME NEW ph \in ApiPhases, Goes(r, ph) PROVE Moves(r, ph, request[r].sid, request[r].answer)
    <2>1. request' = [request EXCEPT ![r].phase = ph, ![r].sid = request[r].sid, ![r].answer = request[r].answer]
      BY <1>1, <1>3 DEF Goes, ApiRequest
    <2> QED BY <1>2, <2>1, GoesMoves
  <1>4. ASSUME NEW ph \in ApiPhases, NEW c \in ApiCodes, request' = [request EXCEPT ![r].phase = ph, ![r].answer = c]
        PROVE  Moves(r, ph, request[r].sid, c)
    <2>1. request' = [request EXCEPT ![r].phase = ph, ![r].sid = request[r].sid, ![r].answer = c]
      BY <1>1, <1>4 DEF ApiRequest
    <2> QED BY <1>2, <2>1, GoesMoves
  <1>5. ASSUME NEW ph \in ApiPhases, NEW s \in Nat, request' = [request EXCEPT ![r].phase = ph, ![r].sid = s]
        PROVE  Moves(r, ph, s, request[r].answer)
    <2>1. request' = [request EXCEPT ![r].phase = ph, ![r].sid = s, ![r].answer = request[r].answer]
      BY <1>1, <1>5 DEF ApiRequest
    <2> QED BY <1>2, <2>1, GoesMoves
  <1> QED BY <1>1, <1>2, <1>3, <1>4, <1>5 DEF Sent

\* What touches neither a session nor the map.
LEMMA QuietKeepsMap ==
  ASSUME ApiInv, NEW r \in ApiRequests,
         \/ Exists(r) \/ Use(r) \/ ReadPage(r) \/ Trash(r) \/ FromTrash(r) \/ Copied(r) \/ InUse(r)
         \/ RemoveExtension(r) \/ Validate(r) \/ Write(r) \/ Targets(r) \/ Cast(r)
  PROVE  ApiInv' /\ RunningIsTrue /\ StopsBeforeData
  <1>1. UNCHANGED <<managed, sessionMap>>
    BY DEF Exists, Use, ReadPage, Trash, FromTrash, Copied, InUse, RemoveExtension, Validate, Write, Targets, Cast
  <1>2. RequestHolds(r) /\ request[r] \in ApiRequest /\ request[r].answer \in ApiCodes
    BY QuietRequest DEF ApiRequest
  <1>3. \/ /\ request[r].phase \notin {"read", "end", "failed", "launching", "launch", "idle", "done"}
           /\ \E c \in ApiCodes \ {"ALREADY_RUNNING"} : Moves(r, "done", request[r].sid, c)
        \/ request[r].phase = "exists" /\ Moves(r, "look", request[r].sid, request[r].answer)
        \/ request[r].phase = "read" /\ \E ph \in {"end", "failed"} : Moves(r, ph, request[r].sid, request[r].answer)
        \/ request[r].phase = "inUse" /\ Moves(r, "remove", request[r].sid, request[r].answer)
        \/ request[r].phase = "validate" /\ Moves(r, "write", request[r].sid, request[r].answer)
        \/ /\ request[r].phase = "targets"
           /\ \E c \in {request[r].answer, "INVALID_INPUT"} : Moves(r, "cast", request[r].sid, c)
    <2>1. /\ {"OK", "PROFILE_NOT_FOUND", "SESSION_NOT_FOUND", "NOT_FOUND", "BACKUP_NOT_FOUND", "EXTENSION_IN_USE",
               "EXTENSION_NOT_FOUND", "INVALID_INPUT"} \subseteq ApiCodes
          /\ {"look", "end", "failed", "remove", "write", "cast"} \subseteq ApiPhases
      BY DEF ApiCodes, ApiPhases
    <2>2. CASE Exists(r) \/ Use(r) \/ ReadPage(r)
      BY <2>1, <2>2, QuietRequest DEF Exists, Use, ReadPage, At
    <2>3. CASE Trash(r) \/ FromTrash(r) \/ Copied(r)
      BY <2>1, <2>3, QuietRequest DEF Trash, FromTrash, Copied, At
    <2>4. CASE InUse(r) \/ RemoveExtension(r)
      BY <2>1, <2>4, QuietRequest DEF InUse, RemoveExtension, At
    <2>5. CASE Validate(r) \/ Write(r)
      BY <2>1, <2>5, QuietRequest DEF Validate, Write, At
    <2>6. CASE Targets(r)
      <3>1. \/ request' = [request EXCEPT ![r].phase = "cast", ![r].answer = "INVALID_INPUT"]
            \/ Goes(r, "cast")
        BY <2>6 DEF Targets, Goes
      <3> QED BY <2>1, <2>6, <3>1, QuietRequest DEF Targets, At
    <2>7. CASE Cast(r)
      BY <2>1, <2>7, QuietRequest DEF Cast, At
    <2> QED BY <2>2, <2>3, <2>4, <2>5, <2>6, <2>7
  <1>4. PICK ph \in ApiPhases \ {"launching", "trash", "copy"}, c \in ApiCodes :
          /\ c = request[r].answer \/ c # "ALREADY_RUNNING"
          /\ Moves(r, ph, request[r].sid, c)
          /\ \/ ph = "done" /\ request[r].op # "scrape"
             \/ ph = "look" /\ request[r].phase = "exists"
             \/ ph \in {"end", "failed"} /\ request[r].phase = "read"
             \/ ph \in {"remove", "write", "cast"} /\ request[r].op # "scrape"
    BY <1>2, <1>3 DEF RequestHolds, ApiPhases, ApiCodes
  <1>5. RequestHolds(r)'
    <2>1. /\ request'[r].op = request[r].op /\ request'[r].profile = request[r].profile
          /\ request'[r].phase = ph /\ request'[r].sid = request[r].sid
      BY <1>4 DEF Moves
    <2>2. UNCHANGED managed /\ Numbered' = Numbered
      BY <1>1 DEF Numbered
    <2>3. CASE ph = "look" /\ request[r].phase = "exists"
      BY <1>2, <2>1, <2>2, <2>3 DEF RequestHolds
    <2>4. CASE ph \in {"end", "failed"} /\ request[r].phase = "read"
      BY <1>2, <2>1, <2>2, <2>4 DEF RequestHolds
    <2>5. CASE ph \in {"done", "remove", "write", "cast"} /\ request[r].op # "scrape"
      BY <2>1, <2>5 DEF RequestHolds
    <2> QED BY <1>4, <2>3, <2>4, <2>5
  <1> QED BY <1>1, <1>4, <1>5, QuietMove

-------------------------------------------------------------------------------
\* Numbered are numbered from 1.
LEMMA SessionsNumbered ==
  ASSUME ApiInv
  PROVE  0 \notin Numbered /\ \A s \in Numbered : s \in Nat /\ managed[s] \in ManagedSession
  BY DEF ApiInv, ApiTyped, Numbered

\* A session gets another state.
LEMMA StateChanges ==
  ASSUME ApiInv, NEW s \in Numbered, NEW st \in {"ready", "closing", "gone"}, NEW own,
         managed' = [managed EXCEPT ![s].state = st],
         managed[s].state # "gone" \/ st = "gone", managed[s].state = "launching" => s \in own
  PROVE  GoesOn(own) /\ Numbered' = Numbered /\ managed'[s].state = st
  <1>1. PICK n \in Nat : managed \in [1..n -> ManagedSession]
    BY DEF ApiInv, ApiTyped
  <1>2. managed' = [managed EXCEPT ![s] = [managed[s] EXCEPT !.state = st]] /\ s \in 1..n
    BY <1>1 DEF Numbered
  <1>3. [managed[s] EXCEPT !.state = st] \in ManagedSession
    BY <1>1, <1>2 DEF ManagedSession
  <1>4. managed' \in [1..n -> ManagedSession]
    BY <1>1, <1>2, <1>3
  <1>5. /\ managed'[s].state = st /\ managed'[s].profile = managed[s].profile
        /\ \A x \in 1..n : x # s => managed'[x] = managed[x]
    BY <1>1, <1>2 DEF ManagedSession
  <1>6. Numbered' = Numbered /\ Numbered = 1..n
    BY <1>1, <1>4 DEF Numbered
  <1>7. \E k \in Nat : managed' \in [1..k -> ManagedSession]
    BY <1>4
  <1>8. ASSUME NEW x \in Numbered
        PROVE  /\ x \in Numbered' /\ managed'[x].profile = managed[x].profile
               /\ managed[x].state = "gone" => managed'[x].state = "gone"
               /\ managed[x].state # "launching" => managed'[x].state # "launching"
               /\ managed[x].state = "launching" /\ x \notin own => managed'[x].state = "launching"
    BY <1>5, <1>6, <1>8
  <1> QED BY <1>5, <1>6, <1>7, <1>8 DEF GoesOn

\* Without an answer from the map, and before a phase that replaces data, what is
\* to be stopped has been stopped.
LEMMA SoundStop ==
  ASSUME NEW r \in ApiRequests, \A o \in ApiRequests \ {r} : request'[o] = request[o],
         request'[r].answer # "ALREADY_RUNNING" \/ request[r].answer = "ALREADY_RUNNING",
         \A s \in Numbered : /\ managed[s].profile = request[r].profile
                             /\ request[r].op = "delete" => s = request'[r].sid
                             => managed'[s].state \notin {"ready", "closing"}
  PROVE  RunningIsTrue /\ StopsBeforeData
  BY DEF RunningIsTrue, StopsBeforeData, Numbered

\* An entry of the map is dropped, or all that the manager does not know.
LEMMA EntriesDropped ==
  ASSUME ApiInv,
         \/ sessionMap' = sessionMap
         \/ \E p : sessionMap' = [sessionMap EXCEPT ![p] = 0]
         \/ sessionMap' = [p \in ApiProfiles |-> IF sessionMap[p] # 0 /\ Known(sessionMap[p]) THEN sessionMap[p] ELSE 0]
  PROVE  sessionMap' \in [ApiProfiles -> Nat] /\ \A p \in ApiProfiles : sessionMap'[p] \in {0, sessionMap[p]}
  BY DEF ApiInv, ApiTyped

\* A start asks the map.
LEMMA LookKeepsMap ==
  ASSUME ApiInv, NEW r \in ApiRequests, Look(r)
  PROVE  ApiInv' /\ RunningIsTrue /\ StopsBeforeData
  <1> DEFINE p == request[r].profile
  <1>1. /\ request[r].phase = "look" /\ UNCHANGED managed /\ Numbered' = Numbered
        /\ \/ /\ sessionMap[p] # 0 /\ Known(sessionMap[p]) /\ UNCHANGED sessionMap
              /\ request' = [Sent(r, "ALREADY_RUNNING") EXCEPT ![r].sid = sessionMap[p]]
           \/ Goes(r, "launch") /\ sessionMap' = [sessionMap EXCEPT ![p] = 0]
    BY DEF Look, At, Numbered
  <1>2. RequestHolds(r) /\ request[r] \in ApiRequest
    BY QuietRequest
  <1>3. request[r].op # "scrape" /\ request[r].sid = 0 /\ p \in ApiProfiles
    BY <1>1, <1>2 DEF RequestHolds
  <1>4. GoesOn(Own(r))
    BY <1>1, GoesOnUntouched
  <1>5. sessionMap' \in [ApiProfiles -> Nat] /\ \A x \in ApiProfiles : sessionMap'[x] \in {0, sessionMap[x]}
    BY <1>1, EntriesDropped
  <1>6. CASE /\ sessionMap[p] # 0 /\ Known(sessionMap[p])
             /\ request' = [Sent(r, "ALREADY_RUNNING") EXCEPT ![r].sid = sessionMap[p]]
    <2>1. request' = [request EXCEPT ![r].phase = "done", ![r].sid = sessionMap[p], ![r].answer = "ALREADY_RUNNING"]
      BY <1>2, <1>6 DEF Sent, ApiInv, ApiTyped, ApiRequest
    <2>2. Moves(r, "done", sessionMap[p], "ALREADY_RUNNING")
      <3>1. sessionMap[p] \in Nat /\ "done" \in ApiPhases /\ "ALREADY_RUNNING" \in ApiCodes
        BY <1>3 DEF ApiInv, ApiTyped, ApiPhases, ApiCodes
      <3> QED BY <2>1, <3>1, GoesMoves
    <2>3. RequestHolds(r)'
      BY <1>3, <2>2 DEF Moves, RequestHolds
    <2>4. managed[sessionMap[p]].profile = p
      BY <1>3, <1>6 DEF ApiInv, EntryHolds
    <2>5. RunningIsTrue
      BY <1>6, <2>2, <2>4 DEF RunningIsTrue, Moves
    <2>6. StopsBeforeData
      BY <2>2 DEF StopsBeforeData, Moves
    <2> QED BY <1>4, <1>5, <2>2, <2>3, <2>5, <2>6, OneRequestMoves DEF Moves
  <1>7. CASE Goes(r, "launch")
    <2>1. Moves(r, "launch", request[r].sid, request[r].answer)
      BY <1>7, QuietRequest DEF ApiPhases
    <2>2. RequestHolds(r)'
      BY <1>3, <2>1 DEF Moves, RequestHolds
    <2> QED BY <1>4, <1>5, <2>1, <2>2, OneRequestMoves, SoundMove DEF Moves
  <1> QED BY <1>1, <1>6, <1>7

\* A list, the rest of a stop and its answer drop entries.
LEMMA DropsKeepMap ==
  ASSUME ApiInv, NEW r \in ApiRequests, ListManaged(r) \/ Dropped(r) \/ Answer(r)
  PROVE  ApiInv' /\ RunningIsTrue /\ StopsBeforeData
  <1>1. UNCHANGED managed /\ Numbered' = Numbered
    BY DEF ListManaged, Dropped, Answer, Numbered
  <1>2. RequestHolds(r) /\ request[r] \in ApiRequest
    BY QuietRequest
  <1>3. GoesOn(Own(r))
    BY <1>1, GoesOnUntouched
  <1>4. sessionMap' \in [ApiProfiles -> Nat] /\ \A x \in ApiProfiles : sessionMap'[x] \in {0, sessionMap[x]}
    BY EntriesDropped DEF ListManaged, Dropped, Answer
  <1>5. request[r].op # "scrape"
    BY <1>2 DEF RequestHolds, ListManaged, Dropped, Answer, At
  <1>6. CASE ListManaged(r) \/ Answer(r)
    <2>1. Moves(r, "done", request[r].sid, "OK")
      BY <1>6, QuietRequest DEF ListManaged, Answer, ApiCodes
    <2>2. RequestHolds(r)'
      BY <1>5, <2>1 DEF Moves, RequestHolds
    <2> QED BY <1>3, <1>4, <2>1, <2>2, OneRequestMoves, SoundMove DEF Moves
  <1>7. CASE Dropped(r)
    <2>1. AfterStop(r) \in {"trash", "answer"} /\ (AfterStop(r) = "trash" => request[r].op = "delete")
      BY DEF AfterStop
    <2>2. Moves(r, AfterStop(r), request[r].sid, request[r].answer)
      BY <1>7, <2>1, QuietRequest DEF Dropped, ApiPhases
    <2>3. RequestHolds(r)'
      BY <1>5, <2>1, <2>2 DEF Moves, RequestHolds
    <2>4. managed'[request[r].sid].state = "gone"
      BY <1>1, <1>2, <1>7 DEF RequestHolds, Dropped, At
    <2>5. RunningIsTrue /\ StopsBeforeData
      <3>1. CASE request[r].op = "delete"
        BY <2>2, <2>4, <3>1, SoundStop DEF Moves
      <3>2. CASE request[r].op # "delete"
        BY <2>1, <2>2, <3>2, SoundMove DEF Moves
      <3> QED BY <3>1, <3>2
    <2> QED BY <1>3, <1>4, <2>1, <2>2, <2>3, <2>5, OneRequestMoves DEF Moves
  <1> QED BY <1>6, <1>7

-------------------------------------------------------------------------------
\* The manager reserves a session under a new number.
LEMMA LaunchKeepsMap ==
  ASSUME ApiInv, NEW r \in ApiRequests, Launch(r)
  PROVE  ApiInv' /\ RunningIsTrue /\ StopsBeforeData
  <1> DEFINE p == request[r].profile
             s == Cardinality(DOMAIN managed) + 1
  <1>1. /\ request[r].phase = "launch" /\ UNCHANGED sessionMap
        /\ \/ request' = Sent(r, "START_FAILED") /\ UNCHANGED managed
           \/ /\ managed' = [x \in 1..s |-> IF x = s THEN [profile |-> p, state |-> "launching"] ELSE managed[x]]
              /\ request' = [request EXCEPT ![r].phase = "launching", ![r].sid = s]
    BY DEF Launch, At
  <1>2. RequestHolds(r) /\ request[r] \in ApiRequest
    BY QuietRequest
  <1>3. request[r].sid = 0
    BY <1>1, <1>2 DEF RequestHolds
  <1>4. CASE request' = Sent(r, "START_FAILED") /\ UNCHANGED managed
    <2>1. Moves(r, "done", request[r].sid, "START_FAILED")
      BY <1>4, QuietRequest DEF ApiCodes
    <2>2. RequestHolds(r)'
      BY <1>3, <2>1 DEF Moves, RequestHolds
    <2>3. "done" \in ApiPhases \ {"launching", "trash", "copy"}
      BY DEF ApiPhases
    <2> QED BY <1>1, <1>4, <2>1, <2>2, <2>3, QuietMove
  <1>5. CASE /\ managed' = [x \in 1..s |-> IF x = s THEN [profile |-> p, state |-> "launching"] ELSE managed[x]]
             /\ request' = [request EXCEPT ![r].phase = "launching", ![r].sid = s]
    <2>1. PICK n \in Nat : managed \in [1..n -> ManagedSession]
      BY DEF ApiInv, ApiTyped
    <2>2. Cardinality(1..n) = n
      <3>1. 1..n = {} => n = 0
        BY <2>1
      <3> QED BY <2>1, <3>1, FS_Interval
    <2>3. s = n + 1 /\ Numbered = 1..n /\ Numbered' = 1..(n + 1)
      BY <1>5, <2>1, <2>2 DEF Numbered
    <2> HIDE DEF s
    <2>4. /\ \A x \in 1..n : managed'[x] = managed[x]
          /\ managed'[s] = [profile |-> p, state |-> "launching"]
      BY <1>5, <2>1, <2>3
    <2>5. managed' \in [1..(n + 1) -> ManagedSession]
      <3>1. [profile |-> p, state |-> "launching"] \in ManagedSession
        BY <1>2 DEF ManagedSession, ApiRequest
      <3> QED BY <1>5, <2>1, <2>3, <3>1
    <2>6. GoesOn(Own(r))
      <3>1. \E k \in Nat : managed' \in [1..k -> ManagedSession]
        BY <2>1, <2>5
      <3>2. Numbered \subseteq Numbered' /\ \A x \in Numbered : managed'[x] = managed[x]
        BY <2>1, <2>3, <2>4
      <3> QED BY <3>1, <3>2 DEF GoesOn
    <2>7. Moves(r, "launching", s, request[r].answer)
      <3>1. s \in Nat /\ "launching" \in ApiPhases
        BY <2>1, <2>3 DEF ApiPhases
      <3>2. request' = [request EXCEPT ![r].phase = "launching", ![r].sid = s]
        BY <1>5
      <3> QED BY <3>1, <3>2, QuietRequest
    <2>8. RequestHolds(r)'
      BY <2>1, <2>3, <2>4, <2>7 DEF Moves, RequestHolds
    <2>9. sessionMap' \in [ApiProfiles -> Nat] /\ \A x \in ApiProfiles : sessionMap'[x] \in {0, sessionMap[x]}
      BY <1>1, EntriesDropped
    <2>10. s \notin Numbered
      BY <2>1, <2>3
    <2> QED BY <2>6, <2>7, <2>8, <2>9, <2>10, OneRequestMoves, SoundMove DEF Moves
  <1> QED BY <1>1, <1>4, <1>5

\* The browser is up, and the map names it unless a scrape runs it; or it is not.
LEMMA LaunchedKeepsMap ==
  ASSUME ApiInv, NEW r \in ApiRequests, Launched(r)
  PROVE  ApiInv' /\ RunningIsTrue /\ StopsBeforeData
  <1> DEFINE s == request[r].sid
             p == request[r].profile
  <1>1. /\ request[r].phase = "launching"
        /\ \/ /\ managed' = [managed EXCEPT ![s].state = "ready"]
              /\ \/ request[r].op = "scrape" /\ Goes(r, "read") /\ UNCHANGED sessionMap
                 \/ /\ request[r].op # "scrape" /\ sessionMap' = [sessionMap EXCEPT ![p] = s]
                    /\ request' = Sent(r, "OK")
           \/ /\ managed' = [managed EXCEPT ![s].state = "gone"]
              /\ request' = Sent(r, "START_FAILED") /\ UNCHANGED sessionMap
    BY DEF Launched, At
  <1>2. RequestHolds(r) /\ request[r] \in ApiRequest
    BY QuietRequest
  <1>3. s \in Numbered /\ s \in Nat /\ managed[s].profile = p /\ managed[s].state = "launching" /\ s \in Own(r)
    BY <1>1, <1>2, SessionsNumbered DEF RequestHolds, Own
  <1>4. PICK st \in {"ready", "gone"} : managed' = [managed EXCEPT ![s].state = st]
    BY <1>1
  <1>5. GoesOn(Own(r)) /\ Numbered' = Numbered /\ managed'[s].state = st
    BY <1>3, <1>4, StateChanges
  <1>6. PICK ph \in {"read", "done"}, c \in {request[r].answer, "OK", "START_FAILED"} :
          /\ Moves(r, ph, s, c)
          /\ ph = "done" /\ request[r].op = "scrape" => managed' = [managed EXCEPT ![s].state = "gone"]
    BY <1>1, QuietRequest DEF ApiPhases, ApiCodes
  <1>7. managed' = [managed EXCEPT ![s].state = "gone"] => managed'[s].state = "gone"
    BY <1>3, StateChanges
  <1>8. RequestHolds(r)'
    BY <1>3, <1>4, <1>5, <1>6, <1>7 DEF Moves, RequestHolds
  <1>9. sessionMap \in [ApiProfiles -> Nat]
    BY DEF ApiInv, ApiTyped
  <1>10. sessionMap' = sessionMap \/ sessionMap' = [sessionMap EXCEPT ![p] = s]
    BY <1>1
  <1>11. sessionMap' \in [ApiProfiles -> Nat]
    BY <1>3, <1>9, <1>10
  <1>12. ASSUME NEW x \in ApiProfiles PROVE sessionMap'[x] \in {0, sessionMap[x]} \/ EntryHolds(x)'
    <2>1. CASE sessionMap'[x] = sessionMap[x]
      BY <2>1
    <2>2. CASE x = p /\ sessionMap'[x] = s
      BY <1>3, <1>4, <1>5, <2>2 DEF EntryHolds, GoesOn
    <2> QED BY <1>9, <1>10, <2>1, <2>2
  <1> QED BY <1>5, <1>6, <1>8, <1>11, <1>12, OneRequestMoves, SoundMove DEF Moves

\* A session is stopped by its scrape, or settles after a stop.
LEMMA EndsKeepMap ==
  ASSUME ApiInv, NEW r \in ApiRequests, EndScrape(r) \/ Stopped(r)
  PROVE  ApiInv' /\ RunningIsTrue /\ StopsBeforeData
  <1> DEFINE s == request[r].sid
  <1>1. /\ request[r].phase \in {"end", "failed", "stopping"} /\ UNCHANGED sessionMap
        /\ managed' = [managed EXCEPT ![s].state = "gone"]
    BY DEF EndScrape, Stopped, At
  <1>2. RequestHolds(r) /\ request[r] \in ApiRequest
    BY QuietRequest
  <1>3. s \in Numbered /\ managed[s].state # "launching"
    BY <1>1, <1>2 DEF RequestHolds
  <1>4. GoesOn(Own(r)) /\ Numbered' = Numbered /\ managed'[s].state = "gone"
    BY <1>1, <1>3, StateChanges
  <1>5. PICK ph \in {"stopped", "done"}, c \in {request[r].answer, "OK", "READ_FAILED", "STOP_FAILED"} :
          Moves(r, ph, s, c) /\ (ph = "stopped" => request[r].phase = "stopping")
    <2>1. CASE EndScrape(r)
      BY <2>1, QuietRequest DEF EndScrape, ApiCodes
    <2>2. CASE Stopped(r)
      <3>1. Goes(r, "stopped") \/ request' = Sent(r, "STOP_FAILED")
        BY <2>2 DEF Stopped, Goes
      <3> QED BY <2>2, <3>1, QuietRequest DEF Stopped, At, ApiPhases, ApiCodes
    <2> QED BY <2>1, <2>2
  <1>6. RequestHolds(r)'
    BY <1>2, <1>3, <1>4, <1>5 DEF Moves, RequestHolds
  <1>7. sessionMap' \in [ApiProfiles -> Nat] /\ \A x \in ApiProfiles : sessionMap'[x] \in {0, sessionMap[x]}
    BY <1>1, EntriesDropped
  <1> QED BY <1>4, <1>5, <1>6, <1>7, OneRequestMoves, SoundMove DEF Moves

\* A session ends by itself.
LEMMA SessionEndsKeepsMap ==
  ASSUME ApiInv, SessionEnds
  PROVE  ApiInv' /\ RunningIsTrue /\ StopsBeforeData
  <1>1. PICK s \in Numbered : managed[s].state = "ready" /\ managed' = [managed EXCEPT ![s].state = "gone"]
    BY DEF SessionEnds, Numbered
  <1>2. UNCHANGED <<request, sessionMap>>
    BY DEF SessionEnds
  <1>3. GoesOn({})
    BY <1>1, StateChanges
  <1>4. \A r \in ApiRequests : RequestHolds(r)'
    BY <1>2, <1>3, RequestStays
  <1>5. \A p \in ApiProfiles : EntryHolds(p)'
    BY <1>2, <1>3, EntryStays
  <1>6. ApiTyped' /\ LaunchesApart'
    BY <1>2, <1>3 DEF ApiInv, ApiTyped, LaunchesApart, GoesOn
  <1> QED BY <1>2, <1>4, <1>5, <1>6 DEF ApiInv, RunningIsTrue, StopsBeforeData

\* A stop, or a deletion, asks the map for the session it is to wait for.
LEMMA FindKeepsMap ==
  ASSUME ApiInv, NEW r \in ApiRequests, Find(r)
  PROVE  ApiInv' /\ RunningIsTrue /\ StopsBeforeData
  <1> DEFINE s == sessionMap[request[r].profile]
  <1>1. /\ request[r].phase = "find" /\ UNCHANGED sessionMap
        /\ \/ s = 0 /\ Goes(r, AfterStop(r)) /\ UNCHANGED managed
           \/ /\ s # 0 /\ request' = [request EXCEPT ![r].phase = "stopping", ![r].sid = s]
              /\ \/ UNCHANGED managed
                 \/ managed[s].state = "ready" /\ managed' = [managed EXCEPT ![s].state = "closing"]
    BY DEF Find, At
  <1>2. RequestHolds(r) /\ request[r] \in ApiRequest
    BY QuietRequest
  <1>3. request[r].op # "scrape" /\ request[r].sid = 0 /\ request[r].profile \in ApiProfiles
    BY <1>1, <1>2 DEF RequestHolds
  <1>4. s \in Nat /\ (s # 0 => s \in Numbered /\ managed[s].state # "launching")
    BY <1>3 DEF ApiInv, ApiTyped, EntryHolds
  <1> HIDE DEF s
  <1>5. sessionMap' \in [ApiProfiles -> Nat] /\ \A x \in ApiProfiles : sessionMap'[x] \in {0, sessionMap[x]}
    BY <1>1, EntriesDropped
  <1>6. CASE s = 0 /\ Goes(r, AfterStop(r)) /\ UNCHANGED managed
    <2>1. AfterStop(r) \in {"trash", "answer"} /\ (AfterStop(r) = "trash" => request[r].op = "delete")
      BY DEF AfterStop
    <2>2. Moves(r, AfterStop(r), request[r].sid, request[r].answer)
      BY <1>6, <2>1, QuietRequest DEF ApiPhases
    <2>3. RequestHolds(r)'
      BY <1>3, <2>1, <2>2 DEF Moves, RequestHolds
    <2>4. RunningIsTrue /\ StopsBeforeData
      <3>1. CASE request[r].op = "delete"
        BY <1>3, <2>2, <3>1, SessionsNumbered, SoundStop DEF Moves
      <3>2. CASE request[r].op # "delete"
        BY <2>1, <2>2, <3>2, SoundMove DEF Moves
      <3> QED BY <3>1, <3>2
    <2>5. GoesOn(Own(r))
      BY <1>6, GoesOnUntouched
    <2> QED BY <1>5, <2>1, <2>2, <2>3, <2>4, <2>5, OneRequestMoves DEF Moves
  <1>7. CASE /\ s # 0 /\ request' = [request EXCEPT ![r].phase = "stopping", ![r].sid = s]
             /\ \/ UNCHANGED managed
                \/ managed[s].state = "ready" /\ managed' = [managed EXCEPT ![s].state = "closing"]
    <2>1. Moves(r, "stopping", s, request[r].answer)
      <3>1. "stopping" \in ApiPhases
        BY DEF ApiPhases
      <3> QED BY <1>4, <1>7, <3>1, QuietRequest
    <2>2. GoesOn(Own(r))
      BY <1>4, <1>7, GoesOnUntouched, StateChanges
    <2>3. RequestHolds(r)'
      BY <1>3, <1>4, <1>7, <2>1, <2>2 DEF Moves, RequestHolds, GoesOn
    <2> QED BY <1>5, <2>1, <2>2, <2>3, OneRequestMoves, SoundMove DEF Moves
  <1> QED BY <1>1, <1>6, <1>7

\* Every session the manager has on the profile closes, and is gone before files
\* are replaced.
LEMMA HaltKeepsMap ==
  ASSUME ApiInv, NEW r \in ApiRequests, Halt(r)
  PROVE  ApiInv' /\ RunningIsTrue /\ StopsBeforeData
  <1> DEFINE p == request[r].profile
  <1>1. request[r].phase = "halt"
    BY DEF Halt, At
  <1>2. \/ request' = Sent(r, "PROFILE_NOT_FOUND") /\ UNCHANGED <<managed, sessionMap>>
        \/ \E st \in {"closing", "gone"} :
              /\ managed' = [s \in DOMAIN managed |-> IF s \in Active(p) THEN [managed[s] EXCEPT !.state = st]
                                                       ELSE managed[s]]
              /\ \/ UNCHANGED <<request, sessionMap>>
                 \/ st = "gone" /\ sessionMap' = [sessionMap EXCEPT ![p] = 0] /\ Goes(r, "copy")
    BY DEF Halt
  <1>3. RequestHolds(r) /\ request[r] \in ApiRequest
    BY QuietRequest
  <1>4. request[r].op # "scrape"
    BY <1>1, <1>3 DEF RequestHolds
  <1>5. CASE request' = Sent(r, "PROFILE_NOT_FOUND") /\ UNCHANGED <<managed, sessionMap>>
    <2>1. Moves(r, "done", request[r].sid, "PROFILE_NOT_FOUND")
      BY <1>5, QuietRequest DEF ApiCodes
    <2>2. RequestHolds(r)'
      BY <1>4, <2>1 DEF Moves, RequestHolds
    <2>3. "done" \in ApiPhases \ {"launching", "trash", "copy"}
      BY DEF ApiPhases
    <2> QED BY <1>5, <2>1, <2>2, <2>3, QuietMove
  <1>6. ASSUME NEW st \in {"closing", "gone"},
               managed' = [s \in DOMAIN managed |-> IF s \in Active(p) THEN [managed[s] EXCEPT !.state = st]
                                                     ELSE managed[s]],
               \/ UNCHANGED <<request, sessionMap>>
               \/ st = "gone" /\ sessionMap' = [sessionMap EXCEPT ![p] = 0] /\ Goes(r, "copy")
        PROVE  ApiInv' /\ RunningIsTrue /\ StopsBeforeData
    <2>1. PICK n \in Nat : managed \in [1..n -> ManagedSession]
      BY DEF ApiInv, ApiTyped
    <2>2. Numbered = 1..n /\ Active(p) \subseteq 1..n
      BY <2>1 DEF Numbered, Active
    <2>3. ASSUME NEW s \in 1..n
          PROVE  /\ managed'[s] \in ManagedSession /\ managed'[s].profile = managed[s].profile
                 /\ s \in Active(p) => managed'[s].state = st
                 /\ s \notin Active(p) => managed'[s] = managed[s]
      BY <1>6, <2>1 DEF ManagedSession
    <2>4. managed' \in [1..n -> ManagedSession] /\ Numbered' = 1..n
      BY <1>6, <2>1, <2>3 DEF Numbered
    <2>5. GoesOn(Own(r))
      <3>1. \E k \in Nat : managed' \in [1..k -> ManagedSession]
        BY <2>4
      <3>2. ASSUME NEW s \in Numbered
            PROVE  /\ s \in Numbered' /\ managed'[s].profile = managed[s].profile
                   /\ managed[s].state = "gone" => managed'[s].state = "gone"
                   /\ managed[s].state # "launching" => managed'[s].state # "launching"
                   /\ managed[s].state = "launching" => managed'[s].state = "launching"
        BY <2>2, <2>3, <2>4 DEF Active
      <3> QED BY <3>1, <3>2 DEF GoesOn
    <2>6. CASE UNCHANGED <<request, sessionMap>>
      <3>1. RequestHolds(r)'
        BY <1>1, <2>5, <2>6, RequestStays
      <3>2. sessionMap' \in [ApiProfiles -> Nat] /\ \A x \in ApiProfiles : sessionMap'[x] \in {0, sessionMap[x]}
        BY <2>6, EntriesDropped
      <3>3. RunningIsTrue /\ StopsBeforeData
        BY <2>6 DEF RunningIsTrue, StopsBeforeData
      <3>4. request' \in [ApiRequests -> ApiRequest]
        BY <2>6 DEF ApiInv, ApiTyped
      <3> QED BY <1>1, <2>5, <2>6, <3>1, <3>2, <3>3, <3>4, OneRequestMoves
    <2>7. CASE st = "gone" /\ sessionMap' = [sessionMap EXCEPT ![p] = 0] /\ Goes(r, "copy")
      <3>1. Moves(r, "copy", request[r].sid, request[r].answer)
        BY <2>7, QuietRequest DEF ApiPhases
      <3>2. RequestHolds(r)'
        BY <1>4, <3>1 DEF Moves, RequestHolds
      <3>3. sessionMap' \in [ApiProfiles -> Nat] /\ \A x \in ApiProfiles : sessionMap'[x] \in {0, sessionMap[x]}
        BY <2>7, EntriesDropped
      <3>4. \A s \in Numbered : managed[s].profile = p => managed'[s].state \notin {"ready", "closing"}
        BY <2>2, <2>3, <2>7 DEF Active, Numbered
      <3>5. RunningIsTrue /\ StopsBeforeData
        BY <3>1, <3>4, SoundStop DEF Moves
      <3> QED BY <2>5, <3>1, <3>2, <3>3, <3>5, OneRequestMoves DEF Moves
    <2> QED BY <1>6, <2>6, <2>7
  <1> QED BY <1>2, <1>5, <1>6

\* Every step of the server keeps the invariant and acts on what the map says.
LEMMA ApiStep ==
  ASSUME ApiInv, [ApiNext]_apiVars
  PROVE  ApiInv' /\ RunningIsTrue /\ StopsBeforeData
  <1>1. CASE UNCHANGED apiVars
    BY <1>1 DEF apiVars, ApiInv, ApiTyped, Numbered, EntryHolds, RequestHolds, LaunchesApart, RunningIsTrue, StopsBeforeData
  <1>2. CASE \E r \in ApiRequests, job \in {"start", "stop", "delete", "batchStart", "batchStop", "batchDelete", "restore",
                                           "purge", "restoreBackup"}, p \in ApiProfiles : Accept(r, job, p, {}, "owner")
    BY <1>2, AcceptKeepsMap DEF ApiOps
  <1>3. CASE \E r \in ApiRequests, job \in {"assign", "clone"}, p \in ApiProfiles : Accept(r, job, p, ApiExtensions, "manager")
    BY <1>3, AcceptKeepsMap DEF ApiOps
  <1>4. CASE \E r \in ApiRequests, job \in {"deleteExtension", "sessions"} : Accept(r, job, "none", ApiExtensions, "operator")
    BY <1>4, AcceptKeepsMap DEF ApiOps
  <1>5. CASE \E r \in ApiRequests, job \in {"deleteExtension", "broadcast", "scrape", "use"} :
               Accept(r, job, "none", IF job = "deleteExtension" THEN ApiExtensions ELSE {}, "owner")
    BY <1>5, AcceptKeepsMap DEF ApiOps
  <1>6. CASE \E r \in ApiRequests :
               \/ Exists(r) \/ Look(r) \/ Launch(r) \/ Launched(r) \/ ReadPage(r) \/ EndScrape(r) \/ Use(r)
               \/ Find(r) \/ Stopped(r) \/ Dropped(r) \/ Answer(r) \/ Trash(r) \/ FromTrash(r)
               \/ Halt(r) \/ Copied(r) \/ InUse(r) \/ RemoveExtension(r) \/ Validate(r) \/ Write(r)
               \/ ListManaged(r) \/ Targets(r) \/ Cast(r)
    BY <1>6, QuietKeepsMap, LookKeepsMap, DropsKeepMap, LaunchKeepsMap, LaunchedKeepsMap, EndsKeepMap, FindKeepsMap,
       HaltKeepsMap
  <1>7. CASE SessionEnds
    BY <1>7, SessionEndsKeepsMap
  <1> QED BY <1>1, <1>2, <1>3, <1>4, <1>5, <1>6, <1>7 DEF ApiNext

\* The map of running profiles (handleRequest of src/api/server.ts): for any number
\* of requests, profiles and sessions and any order of their steps, a start that
\* is refused names a session of its profile, data is moved or replaced behind its
\* session, and a scrape leaves none.
THEOREM SessionMapIsSound == ApiSpec => SessionMapSound
  <1>1. ApiInv /\ [ApiNext]_apiVars => ApiInv'
    BY ApiStep
  <1>2. ApiInv => ScrapeLeavesNone
    BY DEF ApiInv, RequestHolds, ScrapeLeavesNone, At
  <1>3. ApiInv /\ ApiInv' /\ [ApiNext]_apiVars => [RunningIsTrue /\ StopsBeforeData /\ ScrapeLeavesNone']_apiVars
    <2> SUFFICES ASSUME ApiInv, ApiInv', [ApiNext]_apiVars PROVE RunningIsTrue /\ StopsBeforeData /\ ScrapeLeavesNone'
      OBVIOUS
    <2>1. ScrapeLeavesNone'
      BY <1>2, PTL
    <2> QED BY <2>1, ApiStep
  <1> QED BY <1>1, <1>3, ApiInitial, PTL DEF ApiSpec, SessionMapSound

----------------------------------------------------------------------------
(* The tabs of a session *)

\* A sequence without repetitions; LessOne takes an element out of one.
Distinct(s) == \A i, j \in DOMAIN s : s[i] = s[j] => i = j

ManagedTab == [main : BOOLEAN, rev : Nat]
TabPage == [open : BOOLEAN, doc : Nat, own : BOOLEAN]
TabOp == [kind : {"none", "close", "snapshot"}, pc : {"none", "opening", "closing", "reading"},
          on : Pages \cup {NoPage}, other : Pages \cup {NoPage}, rev : Nat]
TabRef == [tab : Pages, rev : Nat, doc : Nat]

TabsTyped ==
    /\ tabs \in Seq(Pages) /\ admission \in Seq(Pages)
    /\ tab \in [Pages -> ManagedTab] /\ page \in [Pages -> TabPage]
    /\ events \in [Pages -> Nat] /\ navs \in [Pages -> Nat] /\ observers \in [Pages -> Nat]
    /\ op \in TabOp /\ refs \in SUBSET TabRef
    /\ policy \in BOOLEAN /\ (policy => admission # << >>)

\* A page has one tab, is observed from then on, and was opened before.
TabsAreOpened ==
    /\ Distinct(tabs)
    /\ \A p \in Registered : observers[p] > 0 /\ page[p].doc # 0
    /\ \A i \in DOMAIN admission : page[admission[i]].doc # 0
    /\ \A p \in Pages : events[p] > 0 => page[p].doc # 0

\* The operation of the queue has the tab it works on; a replacement is neither the
\* active tab nor known to a reference.
OpHasTab ==
    /\ op.kind = "none" => op = NoOp
    /\ op.kind # "none" => op.on \in Registered
    /\ op.kind = "snapshot" => op.other = NoPage
    /\ op.other # NoPage =>
          /\ op.other # op.on /\ op.other # active /\ page[op.other].doc # 0
          /\ op.pc = "closing" => op.other \in Registered
          /\ \A r \in refs : r.tab # op.other
    /\ op.kind = "close" /\ op.other = NoPage => op.pc = "closing" /\ Len(tabs) > 1

\* A reference of the revision its tab has now belongs to the document the page shows,
\* or the navigation is still to be reported.
RefsCurrent ==
    \A r \in refs : /\ r.tab \in Registered
                    /\ r.rev = tab[r.tab].rev => r.doc = page[r.tab].doc \/ navs[r.tab] > 0

\* The replacement of the last tab does not count; a popup that was checked has a place.
Extra == IF op.other \in Registered THEN 1 ELSE 0
PlacesLeft ==
    /\ Len(tabs) <= MaxTabs + Extra
    /\ policy => Len(tabs) < MaxTabs + Extra

TabsInv == TabsTyped /\ TabsAreOpened /\ OpHasTab /\ RefsCurrent /\ PlacesLeft /\ ActiveConsistent

\* Without one of its elements, and with one more.
LEMMA RemoveOne ==
    ASSUME NEW S, NEW s \in Seq(S), NEW k \in DOMAIN s
    PROVE  /\ RemoveAt(s, k) \in Seq(S) /\ Len(RemoveAt(s, k)) = Len(s) - 1
           /\ \A i \in 1 .. Len(s) - 1 : RemoveAt(s, k)[i] = IF i < k THEN s[i] ELSE s[i + 1]
  <1> DEFINE a == SubSeq(s, 1, k - 1)  b == SubSeq(s, k + 1, Len(s))
  <1>1. k \in Nat /\ 1 <= k /\ k <= Len(s) /\ Len(s) \in Nat
    OBVIOUS
  <1>2. a \in Seq(S) /\ Len(a) = k - 1 /\ \A i \in 1 .. k - 1 : a[i] = s[i]
    BY <1>1
  <1>3. b \in Seq(S) /\ Len(b) = Len(s) - k /\ \A i \in 1 .. Len(s) - k : b[i] = s[i + k]
    BY <1>1
  <1> HIDE DEF a, b
  <1>4. RemoveAt(s, k) = a \o b
    BY DEF RemoveAt, a, b
  <1>5. a \o b \in Seq(S) /\ Len(a \o b) = Len(s) - 1
    BY <1>1, <1>2, <1>3
  <1>6. \A i \in 1 .. Len(s) - 1 : (a \o b)[i] = IF i < k THEN s[i] ELSE s[i + 1]
    <2> TAKE i \in 1 .. Len(s) - 1
    <2>0. a \in Seq(S) /\ b \in Seq(S) /\ i \in 1 .. Len(a) + Len(b)
      BY <1>1, <1>2, <1>3
    <2>1. (a \o b)[i] = IF i <= Len(a) THEN a[i] ELSE b[i - Len(a)]
      BY <2>0
    <2>2. CASE i < k
      BY <2>1, <2>2, <1>1, <1>2
    <2>3. CASE ~(i < k)
      <3>1. i - (k - 1) \in 1 .. Len(s) - k /\ (i - (k - 1)) + k = i + 1
        BY <2>3, <1>1
      <3>2. (a \o b)[i] = b[i - (k - 1)]
        BY <2>1, <2>3, <1>1, <1>2
      <3>3. b[i - (k - 1)] = s[i + 1]
        BY <3>1, <1>3
      <3> QED BY <3>2, <3>3, <2>3
    <2> QED BY <2>2, <2>3
  <1> QED BY <1>4, <1>5, <1>6

LEMMA OneElementLess ==
    ASSUME NEW S, NEW s \in Seq(S), Distinct(s), NEW p \in ToSet(s)
    PROVE  /\ LessOne(s, p) \in Seq(S) /\ Len(LessOne(s, p)) = Len(s) - 1
           /\ Distinct(LessOne(s, p)) /\ ToSet(LessOne(s, p)) = ToSet(s) \ {p}
  <1> DEFINE k == CHOOSE i \in DOMAIN s : s[i] = p
             t == RemoveAt(s, k)
  <1>1. k \in DOMAIN s /\ s[k] = p
    BY DEF ToSet
  <1> HIDE DEF k
  <1>2. t \in Seq(S) /\ Len(t) = Len(s) - 1 /\ \A i \in 1 .. Len(s) - 1 : t[i] = IF i < k THEN s[i] ELSE s[i + 1]
    BY <1>1, RemoveOne
  <1>3. LessOne(s, p) = t
    BY DEF LessOne, k
  <1> HIDE DEF t
  <1>4. DOMAIN s = 1 .. Len(s) /\ DOMAIN t = 1 .. Len(s) - 1 /\ Len(s) \in Nat /\ k \in 1 .. Len(s)
    BY <1>1, <1>2
  <1> DEFINE from(i) == IF i < k THEN i ELSE i + 1
  <1>5. \A i \in DOMAIN t : t[i] = s[from(i)] /\ from(i) \in DOMAIN s \ {k}
    BY <1>2, <1>4
  <1>6. Distinct(t)
    <2> SUFFICES ASSUME NEW i \in DOMAIN t, NEW j \in DOMAIN t, t[i] = t[j] PROVE i = j
      BY DEF Distinct
    <2>1. from(i) = from(j)
      BY <1>5 DEF Distinct
    <2> QED BY <2>1, <1>4
  <1>7. ASSUME NEW x \in ToSet(t) PROVE x \in ToSet(s) \ {p}
    <2>1. PICK i \in DOMAIN t : x = t[i]
      BY DEF ToSet
    <2>2. x = s[from(i)] /\ from(i) \in DOMAIN s /\ from(i) # k
      BY <1>5, <2>1
    <2> QED BY <2>2, <1>1 DEF ToSet, Distinct
  <1>8. ASSUME NEW x \in ToSet(s), x # p PROVE x \in ToSet(t)
    <2>1. PICK j \in DOMAIN s : x = s[j]
      BY DEF ToSet
    <2>2. j # k
      BY <2>1, <1>1, <1>8
    <2>3. PICK i \in DOMAIN t : from(i) = j
      <3>1. CASE j < k
        <4>1. j \in DOMAIN t /\ from(j) = j
          BY <3>1, <1>4
        <4> QED BY <4>1
      <3>2. CASE j > k
        <4>1. j - 1 \in DOMAIN t /\ from(j - 1) = j
          BY <3>2, <1>4
        <4> QED BY <4>1
      <3> QED BY <3>1, <3>2, <2>2, <1>4
    <2> QED BY <2>1, <2>3, <1>5 DEF ToSet
  <1> QED BY <1>2, <1>3, <1>6, <1>7, <1>8

LEMMA AppendAdds ==
    ASSUME NEW S, NEW s \in Seq(S), NEW p \in S
    PROVE  /\ Append(s, p) \in Seq(S) /\ Len(Append(s, p)) = Len(s) + 1
           /\ ToSet(Append(s, p)) = ToSet(s) \cup {p}
           /\ Distinct(s) /\ p \notin ToSet(s) => Distinct(Append(s, p))
  <1> DEFINE t == Append(s, p)
  <1>1. t \in Seq(S) /\ Len(t) = Len(s) + 1 /\ Len(s) \in Nat
    OBVIOUS
  <1>2. DOMAIN t = 1 .. Len(s) + 1 /\ DOMAIN s = 1 .. Len(s) /\ t[Len(s) + 1] = p /\ \A i \in DOMAIN s : t[i] = s[i]
    OBVIOUS
  <1> HIDE DEF t
  <1>3. ToSet(t) = ToSet(s) \cup {p}
    <2>1. ASSUME NEW x \in ToSet(t) PROVE x \in ToSet(s) \cup {p}
      <3>1. PICK i \in DOMAIN t : x = t[i]
        BY DEF ToSet
      <3>2. i = Len(s) + 1 \/ i \in DOMAIN s
        BY <1>1, <1>2
      <3> QED BY <3>1, <3>2, <1>2 DEF ToSet
    <2>2. ASSUME NEW x \in ToSet(s) \cup {p} PROVE x \in ToSet(t)
      <3>1. DOMAIN s \subseteq DOMAIN t /\ Len(s) + 1 \in DOMAIN t
        BY <1>1, <1>2
      <3> QED BY <3>1, <1>2 DEF ToSet
    <2> QED BY <2>1, <2>2
  <1>4. ASSUME Distinct(s), p \notin ToSet(s) PROVE Distinct(t)
    <2>1. \A i \in DOMAIN s : t[i] # p
      BY <1>2, <1>4 DEF ToSet
    <2>2. \A i \in DOMAIN t : i = Len(s) + 1 \/ i \in DOMAIN s
      BY <1>1, <1>2
    <2> QED BY <2>1, <2>2, <1>2, <1>4 DEF Distinct
  <1> QED BY <1>1, <1>3, <1>4 DEF t

LEMMA TabsStart == TabsInit => TabsInv
  <1> SUFFICES ASSUME TabsInit PROVE TabsInv
    OBVIOUS
  <1> USE TabsConstants
  <1>1. tabs \in Seq(Pages) /\ Len(tabs) = 1 /\ Distinct(tabs) /\ Registered = {1}
    BY DEF TabsInit, Distinct, Registered, ToSet
  <1>2. tab[1] = [main |-> TRUE, rev |-> 0] /\ page[1] = [open |-> TRUE, doc |-> 1, own |-> TRUE] /\ observers[1] = 1
    BY DEF TabsInit
  <1>3. op.kind = "none" /\ op.on = NoPage /\ op.other = NoPage /\ op.pc = "none" /\ op.rev = 0 /\ op = NoOp
    BY DEF TabsInit, NoOp
  <1>4. TabsTyped
    <2>1. tab \in [Pages -> ManagedTab] /\ page \in [Pages -> TabPage]
      BY DEF TabsInit, ManagedTab, TabPage, NoTab
    <2>2. events \in [Pages -> Nat] /\ navs \in [Pages -> Nat] /\ observers \in [Pages -> Nat]
      BY DEF TabsInit
    <2>3. op \in TabOp
      <3>1. NoPage \in Pages \cup {NoPage} /\ "none" \in {"none", "close", "snapshot"}
            /\ "none" \in {"none", "opening", "closing", "reading"}
        OBVIOUS
      <3> QED BY <3>1, <1>3 DEF NoOp, TabOp
    <2>4. admission \in Seq(Pages) /\ refs \in SUBSET TabRef /\ policy = FALSE
      BY DEF TabsInit
    <2> QED BY <1>1, <2>1, <2>2, <2>3, <2>4 DEF TabsTyped
  <1>5. TabsAreOpened
    BY <1>1, <1>2 DEF TabsAreOpened, TabsInit
  <1>6. OpHasTab
    BY <1>3 DEF OpHasTab
  <1>7. RefsCurrent /\ PlacesLeft /\ ActiveConsistent
    BY <1>1, <1>2, <1>3 DEF RefsCurrent, PlacesLeft, Extra, ActiveConsistent, TabsInit
  <1> QED BY <1>4, <1>5, <1>6, <1>7 DEF TabsInv

\* An action that leaves the tabs, the operation and the references alone.
LEMMA PagesKeep ==
    ASSUME TabsInv, NEW p \in Pages, Navigates(p) \/ WindowOpens(p) \/ PageEvent(p) \/ PageCrashes(p)
    PROVE  TabsInv'
  <1> USE TabsConstants
  <1>1. /\ UNCHANGED <<tabs, tab, active, gen, observers, policy, op, refs>> /\ Registered' = Registered
        /\ tabs \in Seq(Pages) /\ admission \in Seq(Pages) /\ tab \in [Pages -> ManagedTab] /\ page \in [Pages -> TabPage]
        /\ page[p] \in TabPage
    BY DEF TabsInv, TabsTyped, Navigates, WindowOpens, PageEvent, PageCrashes, Registered
  <1>2. page' \in [Pages -> TabPage] /\ \A q \in Pages : page[q].doc # 0 => page'[q].doc # 0
    <2>1. CASE Navigates(p)
      <3>1. page' = [page EXCEPT ![p] = [page[p] EXCEPT !.doc = page[p].doc + 1]]
        BY <2>1 DEF Navigates
      <3>2. page[p].doc + 1 \in Nat /\ page[p].doc + 1 # 0
        BY <1>1 DEF TabPage
      <3>3. [page[p] EXCEPT !.doc = page[p].doc + 1] \in TabPage /\ [page[p] EXCEPT !.doc = page[p].doc + 1].doc # 0
        BY <3>2, <1>1 DEF TabPage
      <3> QED BY <3>1, <3>3, <1>1
    <2>2. CASE WindowOpens(p)
      <3>1. [open |-> TRUE, doc |-> 1, own |-> FALSE] \in TabPage
        BY DEF TabPage
      <3> QED BY <3>1, <2>2, <1>1 DEF WindowOpens
    <2>3. CASE PageEvent(p)
      BY <2>3, <1>1 DEF PageEvent
    <2>4. CASE PageCrashes(p)
      <3>1. page' = [page EXCEPT ![p] = [page[p] EXCEPT !.open = FALSE]]
        BY <2>4 DEF PageCrashes
      <3>2. [page[p] EXCEPT !.open = FALSE] \in TabPage /\ [page[p] EXCEPT !.open = FALSE].doc = page[p].doc
        BY <1>1 DEF TabPage
      <3> QED BY <3>1, <3>2, <1>1
    <2> QED BY <2>1, <2>2, <2>3, <2>4
  <1>3. events' \in [Pages -> Nat] /\ navs' \in [Pages -> Nat]
    <2>1. events \in [Pages -> Nat] /\ navs \in [Pages -> Nat]
      BY DEF TabsInv, TabsTyped
    <2>2. CASE Navigates(p)
      BY <2>1, <2>2 DEF Navigates
    <2>3. CASE WindowOpens(p)
      BY <2>1, <2>3 DEF WindowOpens
    <2>4. CASE PageEvent(p)
      <3>1. events[p] - 1 \in Nat
        BY <2>1, <2>4 DEF PageEvent
      <3> QED BY <3>1, <2>1, <2>4 DEF PageEvent
    <2>5. CASE PageCrashes(p)
      BY <2>1, <2>5 DEF PageCrashes
    <2> QED BY <2>2, <2>3, <2>4, <2>5
  <1>4. /\ admission' \in Seq(Pages) /\ (policy => admission' # << >>)
        /\ \A i \in DOMAIN admission' : admission'[i] = p \/ \E j \in DOMAIN admission : admission'[i] = admission[j]
        /\ admission' # admission => page[p].doc # 0
    <2>1. policy => admission # << >>
      BY DEF TabsInv, TabsTyped
    <2>2. CASE admission' = admission
      BY <2>1, <2>2, <1>1
    <2>3. CASE admission' = Append(admission, p) /\ PageEvent(p)
      <3>1. page[p].doc # 0
        BY <2>3 DEF PageEvent, TabsInv, TabsAreOpened
      <3>2. admission' \in Seq(Pages) /\ admission' # << >>
        BY <2>3, <1>1
      <3>3. \A i \in DOMAIN admission' : admission'[i] = p \/ (i \in DOMAIN admission /\ admission'[i] = admission[i])
        BY <2>3, <1>1
      <3> QED BY <3>1, <3>2, <3>3
    <2> QED BY <2>2, <2>3 DEF Navigates, WindowOpens, PageEvent, PageCrashes
  <1>5. TabsTyped'
    BY <1>1, <1>2, <1>3, <1>4 DEF TabsInv, TabsTyped
  <1>6. \A q \in Pages : events'[q] > 0 => page'[q].doc # 0
    <2>1. CASE WindowOpens(p)
      <3>1. events' = [events EXCEPT ![p] = 2] /\ page'[p].doc = 1
        BY <2>1, <1>1 DEF WindowOpens
      <3> QED BY <3>1, <1>2 DEF TabsInv, TabsTyped, TabsAreOpened
    <2>2. CASE PageEvent(p)
      <3>1. events' = [events EXCEPT ![p] = @ - 1] /\ events[p] > 0
        BY <2>2 DEF PageEvent
      <3> QED BY <3>1, <1>2 DEF TabsInv, TabsTyped, TabsAreOpened
    <2>3. CASE Navigates(p) \/ PageCrashes(p)
      BY <2>3, <1>2 DEF TabsInv, TabsAreOpened, Navigates, PageCrashes
    <2> QED BY <2>1, <2>2, <2>3
  <1>7. \A i \in DOMAIN admission' : page'[admission'[i]].doc # 0
    <2>1. CASE admission' = admission
      BY <2>1, <1>1, <1>2 DEF TabsInv, TabsAreOpened
    <2>2. CASE admission' # admission
      BY <2>2, <1>1, <1>2, <1>4 DEF TabsInv, TabsAreOpened
    <2> QED BY <2>1, <2>2
  <1>8. Registered \subseteq Pages
    BY <1>1 DEF Registered, ToSet
  <1>9. TabsAreOpened'
    BY <1>1, <1>2, <1>6, <1>7, <1>8 DEF TabsInv, TabsAreOpened
  <1>10. OpHasTab'
    <2>1. op.other # NoPage => op.other \in Pages
      BY DEF TabsInv, TabsTyped, TabOp
    <2> QED BY <2>1, <1>1, <1>2 DEF TabsInv, OpHasTab
  <1>11. RefsCurrent'
    <2> SUFFICES ASSUME NEW r \in refs, r.rev = tab[r.tab].rev PROVE r.doc = page'[r.tab].doc \/ navs'[r.tab] > 0
      BY <1>1 DEF TabsInv, RefsCurrent
    <2>1. r.tab \in Registered /\ r.tab \in Pages /\ (r.doc = page[r.tab].doc \/ navs[r.tab] > 0)
      BY <1>8 DEF TabsInv, RefsCurrent
    <2>2. CASE Navigates(p)
      <3>1. navs'[p] > 0 /\ \A q \in Pages : q # p => navs'[q] = navs[q] /\ page'[q] = page[q]
        BY <2>2, <1>1 DEF Navigates, TabsInv, TabsTyped
      <3> QED BY <3>1, <2>1
    <2>3. CASE WindowOpens(p)
      <3>1. p # r.tab
        BY <2>1, <2>3 DEF WindowOpens, Unopened, TabsInv, TabsAreOpened
      <3> QED BY <3>1, <2>1, <2>3, <1>1 DEF WindowOpens
    <2>4. CASE PageEvent(p)
      BY <2>1, <2>4 DEF PageEvent
    <2>5. CASE PageCrashes(p)
      <3>1. navs' = navs /\ page' = [page EXCEPT ![p] = [page[p] EXCEPT !.open = FALSE]]
        BY <2>5 DEF PageCrashes
      <3>2. page'[r.tab].doc = page[r.tab].doc
        BY <3>1, <2>1, <1>1 DEF TabPage
      <3> QED BY <3>1, <3>2, <2>1
    <2> QED BY <2>2, <2>3, <2>4, <2>5
  <1>12. PlacesLeft' /\ ActiveConsistent'
    BY <1>1 DEF TabsInv, PlacesLeft, Extra, ActiveConsistent
  <1> QED BY <1>5, <1>9, <1>10, <1>11, <1>12 DEF TabsInv

LEMMA TabsFacts ==
    ASSUME TabsInv
    PROVE  /\ Registered \subseteq Pages /\ active \in Registered /\ Len(tabs) \in Nat
           /\ op.other \in Pages \cup {NoPage} /\ op.on \in Pages \cup {NoPage} /\ op.rev \in Nat
           /\ gen \in Nat
  <1>1. tabs \in Seq(Pages) /\ op \in TabOp /\ tab \in [Pages -> ManagedTab]
    BY DEF TabsInv, TabsTyped
  <1>2. Registered \subseteq Pages /\ Len(tabs) \in Nat
    BY <1>1 DEF Registered, ToSet
  <1>3. active \in Registered /\ gen = tab[active].rev
    BY DEF TabsInv, ActiveConsistent
  <1>4. gen \in Nat
    BY <1>1, <1>2, <1>3 DEF ManagedTab
  <1>5. op.other \in Pages \cup {NoPage} /\ op.on \in Pages \cup {NoPage} /\ op.rev \in Nat
    BY <1>1 DEF TabOp
  <1> QED BY <1>2, <1>3, <1>4, <1>5

\* A navigation is reported: the registry of the tab, whichever it is, starts again.
LEMMA NavigationKeeps ==
    ASSUME TabsInv, NEW p \in Pages, FrameNavigated(p)
    PROVE  TabsInv'
  <1>1. /\ UNCHANGED <<tabs, active, page, events, observers, admission, policy, op>> /\ Registered' = Registered
        /\ navs' = [navs EXCEPT ![p] = @ - 1] /\ navs' \in [Pages -> Nat] /\ tab \in [Pages -> ManagedTab] /\ Extra' = Extra
    <2>1. navs \in [Pages -> Nat] /\ navs[p] > 0 /\ navs' = [navs EXCEPT ![p] = @ - 1] /\ tab \in [Pages -> ManagedTab]
      BY DEF TabsInv, TabsTyped, FrameNavigated
    <2>2. navs[p] - 1 \in Nat
      BY <2>1
    <2> QED BY <2>1, <2>2 DEF FrameNavigated, Registered, Extra
  <1>2. CASE observers[p] > 0 /\ p \in Registered
    <2>1. NotePageGeneration(p, observers[p]) /\ observers[p] \in Nat /\ tab[p] \in ManagedTab
      BY <1>1, <1>2 DEF FrameNavigated, TabsInv, TabsTyped
    <2>2. /\ tab' = [tab EXCEPT ![p] = [tab[p] EXCEPT !.rev = tab[p].rev + observers[p]]]
          /\ gen' = IF active = p THEN tab'[p].rev ELSE gen
          /\ refs' = {r \in refs : r.tab # p}
      BY <2>1 DEF NotePageGeneration
    <2>3. [tab[p] EXCEPT !.rev = tab[p].rev + observers[p]] \in ManagedTab
      BY <2>1 DEF ManagedTab
    <2>4. tab' \in [Pages -> ManagedTab] /\ \A q \in Pages : q # p => tab'[q] = tab[q]
      BY <2>2, <2>3, <1>1
    <2>5. TabsTyped'
      BY <1>1, <2>2, <2>4 DEF TabsInv, TabsTyped
    <2>6. TabsAreOpened' /\ PlacesLeft'
      BY <1>1 DEF TabsInv, TabsAreOpened, PlacesLeft
    <2>7. OpHasTab'
      BY <1>1, <2>2 DEF TabsInv, OpHasTab
    <2>8. RefsCurrent'
      <3> SUFFICES ASSUME NEW r \in refs, r.tab # p
                   PROVE  /\ r.tab \in Registered
                          /\ r.rev = tab'[r.tab].rev => r.doc = page[r.tab].doc \/ navs'[r.tab] > 0
        BY <1>1, <2>2 DEF RefsCurrent
      <3>1. r.tab \in Registered /\ r.tab \in Pages
            /\ (r.rev = tab[r.tab].rev => r.doc = page[r.tab].doc \/ navs[r.tab] > 0)
        BY TabsFacts DEF TabsInv, RefsCurrent
      <3>2. tab'[r.tab] = tab[r.tab] /\ navs'[r.tab] = navs[r.tab]
        BY <3>1, <2>4, <1>1 DEF TabsInv, TabsTyped
      <3> QED BY <3>1, <3>2
    <2>9. ActiveConsistent'
      BY <1>1, <2>2, <2>4, TabsFacts DEF TabsInv, ActiveConsistent
    <2> QED BY <2>5, <2>6, <2>7, <2>8, <2>9 DEF TabsInv
  <1>3. CASE ~(observers[p] > 0 /\ p \in Registered)
    <2>1. UNCHANGED <<tab, gen, refs>>
      BY <1>3 DEF FrameNavigated
    <2>2. p \notin Registered
      BY <1>3 DEF TabsInv, TabsAreOpened
    <2>3. RefsCurrent'
      <3> SUFFICES ASSUME NEW r \in refs
                   PROVE  /\ r.tab \in Registered
                          /\ r.rev = tab[r.tab].rev => r.doc = page[r.tab].doc \/ navs'[r.tab] > 0
        BY <1>1, <2>1 DEF RefsCurrent
      <3>1. r.tab \in Registered /\ r.tab \in Pages
            /\ (r.rev = tab[r.tab].rev => r.doc = page[r.tab].doc \/ navs[r.tab] > 0)
        BY TabsFacts DEF TabsInv, RefsCurrent
      <3>2. navs'[r.tab] = navs[r.tab]
        BY <3>1, <2>2, <1>1 DEF TabsInv, TabsTyped
      <3> QED BY <3>1, <3>2
    <2>4. TabsTyped'
      BY <1>1, <2>1 DEF TabsInv, TabsTyped
    <2>5. TabsAreOpened' /\ PlacesLeft' /\ OpHasTab' /\ ActiveConsistent'
      BY <1>1, <2>1 DEF TabsInv, TabsAreOpened, PlacesLeft, OpHasTab, ActiveConsistent
    <2> QED BY <2>3, <2>4, <2>5 DEF TabsInv
  <1> QED BY <1>2, <1>3

LEMMA SwitchKeeps ==
    ASSUME TabsInv, NEW p \in Pages, SwitchTab(p)
    PROVE  TabsInv'
  <1>1. /\ UNCHANGED <<tabs, tab, page, events, navs, observers, admission, policy, op, refs>>
        /\ Registered' = Registered /\ Extra' = Extra /\ op = NoOp
        /\ p \in Registered /\ active' = p /\ gen' = tab'[p].rev
    BY DEF SwitchTab, Idle, Activate, Registered, Extra
  <1>2. TabsTyped' /\ TabsAreOpened' /\ PlacesLeft' /\ RefsCurrent' /\ ActiveConsistent'
    BY <1>1 DEF TabsInv, TabsTyped, TabsAreOpened, PlacesLeft, RefsCurrent, ActiveConsistent
  <1>3. OpHasTab'
    BY <1>1 DEF OpHasTab, NoOp
  <1> QED BY <1>2, <1>3 DEF TabsInv

LEMMA CloseKeeps ==
    ASSUME TabsInv, NEW p \in Pages, CloseTab(p)
    PROVE  TabsInv'
  <1> USE TabsConstants
  <1>1. /\ UNCHANGED <<tabs, tab, active, gen, navs, observers, admission, policy, refs>>
        /\ Registered' = Registered /\ p \in Registered /\ op = NoOp
    BY DEF CloseTab, Idle, Registered
  <1>2. CASE /\ Len(tabs) > 1 /\ UNCHANGED <<page, events>>
             /\ op' = [NoOp EXCEPT !.kind = "close", !.pc = "closing", !.on = p]
    <2>1. op' = [kind |-> "close", pc |-> "closing", on |-> p, other |-> NoPage, rev |-> 0]
      BY <1>2 DEF NoOp
    <2>2. op' \in TabOp
      <3>1. "close" \in {"none", "close", "snapshot"} /\ "closing" \in {"none", "opening", "closing", "reading"}
        OBVIOUS
      <3> QED BY <2>1, <3>1 DEF TabOp
    <2>3. op'.kind = "close" /\ op'.on = p /\ op'.other = NoPage
      BY <2>1
    <2>4. Extra' = 0 /\ Extra = 0
      BY <2>3, <1>1, TabsFacts DEF Extra, NoOp
    <2>5. TabsTyped' /\ TabsAreOpened' /\ RefsCurrent' /\ ActiveConsistent'
      BY <1>1, <1>2, <2>2 DEF TabsInv, TabsTyped, TabsAreOpened, RefsCurrent, ActiveConsistent
    <2>6. OpHasTab' /\ PlacesLeft'
      BY <1>1, <1>2, <2>3, <2>4 DEF TabsInv, OpHasTab, PlacesLeft
    <2> QED BY <2>5, <2>6 DEF TabsInv
  <1>3. ASSUME NEW q \in Unopened,
               op' = [NoOp EXCEPT !.kind = "close", !.pc = "opening", !.on = p, !.other = q],
               page' = [page EXCEPT ![q] = [open |-> TRUE, doc |-> 1, own |-> TRUE]],
               events' = [events EXCEPT ![q] = 1]
        PROVE  TabsInv'
    <2>1. op' = [kind |-> "close", pc |-> "opening", on |-> p, other |-> q, rev |-> 0]
      BY <1>3 DEF NoOp
    <2>2. q \in Pages /\ q \notin Registered /\ q # p /\ q # active /\ page[q].doc = 0
      BY <1>1, TabsFacts DEF Unopened, TabsInv, TabsAreOpened
    <2>3. op' \in TabOp
      <3>1. "close" \in {"none", "close", "snapshot"} /\ "opening" \in {"none", "opening", "closing", "reading"}
        OBVIOUS
      <3> QED BY <2>1, <2>2, <3>1 DEF TabOp
    <2>4. op'.kind = "close" /\ op'.pc = "opening" /\ op'.on = p /\ op'.other = q
      BY <2>1
    <2>5. page \in [Pages -> TabPage] /\ events \in [Pages -> Nat]
      BY DEF TabsInv, TabsTyped
    <2>6. [open |-> TRUE, doc |-> 1, own |-> TRUE] \in TabPage
      BY DEF TabPage
    <2>7. page' \in [Pages -> TabPage] /\ page'[q].doc = 1 /\ \A x \in Pages : x # q => page'[x] = page[x]
      BY <2>2, <2>5, <2>6, <1>3
    <2>8. events' \in [Pages -> Nat] /\ \A x \in Pages : x # q => events'[x] = events[x]
      BY <2>5, <1>3
    <2>9. TabsTyped'
      BY <1>1, <2>3, <2>7, <2>8 DEF TabsInv, TabsTyped
    <2>10. TabsAreOpened'
      <3>1. \A x \in Pages : page[x].doc # 0 => page'[x].doc # 0
        BY <2>7
      <3>2. \A i \in DOMAIN admission : admission[i] \in Pages
        BY DEF TabsInv, TabsTyped
      <3>3. \A x \in Pages : events'[x] > 0 => page'[x].doc # 0
        BY <2>7, <2>8 DEF TabsInv, TabsAreOpened
      <3> QED BY <3>1, <3>2, <3>3, <1>1, TabsFacts DEF TabsInv, TabsAreOpened
    <2>11. OpHasTab'
      <3>1. \A r \in refs : r.tab # q
        BY <2>2 DEF TabsInv, RefsCurrent
      <3> QED BY <3>1, <2>2, <2>4, <2>7, <1>1 DEF OpHasTab
    <2>12. RefsCurrent'
      <3>1. \A r \in refs : r.tab \in Pages /\ r.tab # q
        BY <2>2, TabsFacts DEF TabsInv, RefsCurrent
      <3> QED BY <3>1, <2>7, <1>1 DEF TabsInv, RefsCurrent
    <2>13. PlacesLeft' /\ ActiveConsistent'
      <3>1. Extra = 0 /\ Extra' = 0
        BY <1>1, <2>2, <2>4, TabsFacts DEF Extra, NoOp
      <3> QED BY <3>1, <1>1 DEF TabsInv, PlacesLeft, ActiveConsistent
    <2> QED BY <2>9, <2>10, <2>11, <2>12, <2>13 DEF TabsInv
  <1> QED BY <1>2, <1>3 DEF CloseTab

\* A page that gets a tab: the limit was looked at before, or it is the replacement.
LEMMA RegisterAdds ==
    ASSUME TabsInv, NEW p \in Pages, NEW main \in BOOLEAN, Register(p, main)
    PROVE  /\ tabs' \in Seq(Pages) /\ Distinct(tabs') /\ Registered' = Registered \cup {p}
           /\ tab' \in [Pages -> ManagedTab] /\ \A q \in Registered : tab'[q].rev = tab[q].rev
           /\ Len(tabs') = Len(tabs) + (IF p \in Registered THEN 0 ELSE 1)
  <1>1. tabs \in Seq(Pages) /\ Distinct(tabs) /\ tab \in [Pages -> ManagedTab] /\ tab[p] \in ManagedTab /\ Registered \subseteq Pages
        /\ Len(tabs) \in Nat
    BY TabsFacts DEF TabsInv, TabsTyped, TabsAreOpened
  <1>2. CASE p \in Registered
    <2>1. tabs' = tabs /\ tab' = [tab EXCEPT ![p] = [main |-> tab[p].main \/ main, rev |-> tab[p].rev]]
      BY <1>2 DEF Register
    <2>2. [main |-> tab[p].main \/ main, rev |-> tab[p].rev] \in ManagedTab
      BY <1>1 DEF ManagedTab
    <2>3. tab' \in [Pages -> ManagedTab] /\ \A q \in Registered : tab'[q].rev = tab[q].rev
      BY <2>1, <2>2, <1>1
    <2>4. Registered' = Registered \cup {p}
      BY <2>1, <1>2 DEF Registered
    <2> QED BY <2>1, <2>3, <2>4, <1>1, <1>2
  <1>3. CASE p \notin Registered
    <2>1. tabs' = Append(tabs, p) /\ tab' = [tab EXCEPT ![p] = [main |-> main, rev |-> 0]]
      BY <1>3 DEF Register
    <2>2. [main |-> main, rev |-> 0] \in ManagedTab
      BY DEF ManagedTab
    <2>3. tab' \in [Pages -> ManagedTab] /\ \A q \in Registered : tab'[q].rev = tab[q].rev
      BY <2>1, <2>2, <1>1, <1>3
    <2>4. p \notin ToSet(tabs)
      BY <1>3 DEF Registered
    <2>5. /\ Append(tabs, p) \in Seq(Pages) /\ Len(Append(tabs, p)) = Len(tabs) + 1
          /\ ToSet(Append(tabs, p)) = ToSet(tabs) \cup {p} /\ Distinct(Append(tabs, p))
      BY <2>4, <1>1, AppendAdds
    <2>6. Registered' = Registered \cup {p}
      BY <2>1, <2>5 DEF Registered
    <2> QED BY <2>1, <2>3, <2>5, <2>6, <1>3
  <1> QED BY <1>2, <1>3

\* The turn of a popup is over, whatever became of it.
LEMMA TurnEnds ==
    ASSUME TabsInv, admission # << >>
    PROVE  /\ Head(admission) \in Pages /\ page[Head(admission)].doc # 0
           /\ Tail(admission) \in Seq(Pages)
           /\ \A i \in DOMAIN Tail(admission) : page[Tail(admission)[i]].doc # 0 /\ Tail(admission)[i] \in Pages
  <1>1. admission \in Seq(Pages) /\ \A i \in DOMAIN admission : page[admission[i]].doc # 0
    BY DEF TabsInv, TabsTyped, TabsAreOpened
  <1>2. 1 \in DOMAIN admission /\ Head(admission) = admission[1]
    BY <1>1
  <1>3. Tail(admission) \in Seq(Pages) /\ \A i \in DOMAIN Tail(admission) :
          i + 1 \in DOMAIN admission /\ Tail(admission)[i] = admission[i + 1]
    BY <1>1
  <1> QED BY <1>1, <1>2, <1>3

\* Closing a page changes only that it is open.
LEMMA ClosingAPage ==
    ASSUME TabsInv, NEW p \in Pages, page' = [page EXCEPT ![p].open = FALSE]
    PROVE  page' \in [Pages -> TabPage] /\ \A q \in Pages : page'[q].doc = page[q].doc
  <1>1. page \in [Pages -> TabPage] /\ page[p] \in TabPage
    BY DEF TabsInv, TabsTyped
  <1>2. page' = [page EXCEPT ![p] = [page[p] EXCEPT !.open = FALSE]]
    OBVIOUS
  <1>3. [page[p] EXCEPT !.open = FALSE] \in TabPage /\ [page[p] EXCEPT !.open = FALSE].doc = page[p].doc
    BY <1>1 DEF TabPage
  <1> QED BY <1>1, <1>2, <1>3

LEMMA AdmissionKeeps ==
    ASSUME TabsInv, RefusePopup \/ CheckPopup \/ AdmitPopup
    PROVE  TabsInv'
  <1> USE TabsConstants
  <1> DEFINE h == Head(admission)
  <1>1. admission # << >> /\ UNCHANGED <<active, gen, events, navs, op, refs>>
    BY DEF TabsInv, TabsTyped, RefusePopup, CheckPopup, AdmitPopup
  <1>2. h \in Pages /\ page[h].doc # 0 /\ Tail(admission) \in Seq(Pages)
        /\ \A i \in DOMAIN Tail(admission) : page[Tail(admission)[i]].doc # 0 /\ Tail(admission)[i] \in Pages
    BY <1>1, TurnEnds
  <1> HIDE DEF h
  <1>3. ASSUME CheckPopup PROVE TabsInv'
    <2>1. UNCHANGED <<tabs, tab, page, observers, admission>> /\ policy' = TRUE /\ Len(tabs) < MaxTabs
      BY <1>3 DEF CheckPopup
    <2>2. Registered' = Registered /\ Extra' = Extra /\ Extra \in {0, 1}
      BY <2>1, <1>1 DEF Registered, Extra
    <2>3. PlacesLeft'
      BY <2>1, <2>2, TabsFacts DEF PlacesLeft
    <2>4. TabsTyped' /\ TabsAreOpened' /\ OpHasTab' /\ RefsCurrent' /\ ActiveConsistent'
      BY <1>1, <2>1, <2>2 DEF TabsInv, TabsTyped, TabsAreOpened, OpHasTab, RefsCurrent, ActiveConsistent
    <2> QED BY <2>3, <2>4 DEF TabsInv
  <1>4. ASSUME page' = [page EXCEPT ![h].open = FALSE], admission' = Tail(admission), policy' = FALSE,
               UNCHANGED <<tabs, tab, observers>>
        PROVE  TabsInv'
    <2>1. page' \in [Pages -> TabPage] /\ \A q \in Pages : page'[q].doc = page[q].doc
      BY <1>2, <1>4, ClosingAPage
    <2>2. Registered' = Registered /\ Extra' = Extra
      BY <1>4, <1>1 DEF Registered, Extra
    <2>3. TabsTyped'
      BY <2>1, <1>1, <1>2, <1>4 DEF TabsInv, TabsTyped
    <2>4. TabsAreOpened'
      BY <2>1, <2>2, <1>1, <1>2, <1>4, TabsFacts DEF TabsInv, TabsAreOpened
    <2>5. OpHasTab'
      BY <2>1, <2>2, <1>1, <1>4, TabsFacts DEF TabsInv, OpHasTab
    <2>6. RefsCurrent'
      BY <2>1, <2>2, <1>1, <1>4, TabsFacts DEF TabsInv, RefsCurrent
    <2>7. PlacesLeft' /\ ActiveConsistent'
      BY <2>2, <1>1, <1>4 DEF TabsInv, PlacesLeft, ActiveConsistent
    <2> QED BY <2>3, <2>4, <2>5, <2>6, <2>7 DEF TabsInv
  <1>5. ASSUME policy, Register(h, FALSE), observers' = [observers EXCEPT ![h] = @ + 1], UNCHANGED page,
               admission' = Tail(admission), policy' = FALSE
        PROVE  TabsInv'
    <2>1. /\ tabs' \in Seq(Pages) /\ Distinct(tabs') /\ Registered' = Registered \cup {h}
          /\ tab' \in [Pages -> ManagedTab] /\ \A q \in Registered : tab'[q].rev = tab[q].rev
          /\ Len(tabs') = Len(tabs) + (IF h \in Registered THEN 0 ELSE 1)
      BY <1>2, <1>5, RegisterAdds
    <2>2. observers \in [Pages -> Nat] /\ observers[h] \in Nat
      BY <1>2 DEF TabsInv, TabsTyped
    <2>3. observers' \in [Pages -> Nat] /\ observers'[h] > 0 /\ \A q \in Pages : observers[q] > 0 => observers'[q] > 0
      BY <1>2, <1>5, <2>2
    <2>4. TabsTyped'
      BY <2>1, <2>3, <1>1, <1>2, <1>5 DEF TabsInv, TabsTyped
    <2>5. TabsAreOpened'
      <3>1. \A q \in Registered' : observers'[q] > 0 /\ page'[q].doc # 0
        BY <2>1, <2>3, <1>2, <1>5, TabsFacts DEF TabsInv, TabsAreOpened
      <3>2. \A q \in Pages : events'[q] > 0 => page'[q].doc # 0
        BY <1>1, <1>5 DEF TabsInv, TabsAreOpened
      <3> QED BY <3>1, <3>2, <2>1, <1>2, <1>5 DEF TabsAreOpened
    <2>6. Len(tabs') >= Len(tabs)
      BY <2>1, TabsFacts
    <2>7. OpHasTab'
      BY <2>1, <2>6, <1>1, <1>5, TabsFacts DEF TabsInv, OpHasTab
    <2>8. RefsCurrent'
      BY <2>1, <1>1, <1>5 DEF TabsInv, RefsCurrent
    <2>9. PlacesLeft'
      <3>1. Len(tabs) < MaxTabs + Extra /\ Extra \in {0, 1} /\ Extra' \in {0, 1} /\ Extra' >= Extra
        BY <2>1, <1>1, <1>5 DEF TabsInv, PlacesLeft, Extra
      <3> QED BY <3>1, <2>1, <1>5, TabsFacts DEF PlacesLeft
    <2>10. ActiveConsistent'
      BY <2>1, <1>1 DEF TabsInv, ActiveConsistent
    <2> QED BY <2>4, <2>5, <2>7, <2>8, <2>9, <2>10 DEF TabsInv
  <1>6. CASE RefusePopup
    <2>1. policy' = FALSE
      BY <1>6 DEF RefusePopup, TabsInv, TabsTyped
    <2> QED BY <2>1, <1>4, <1>6 DEF RefusePopup, CloseHead, Turned, h
  <1>7. CASE AdmitPopup
    BY <1>4, <1>5, <1>7 DEF AdmitPopup, CloseHead, Turned, h
  <1> QED BY <1>3, <1>6, <1>7

\* newPage() answers: the replacement has its tab from here on.
LEMMA ReplacementKeeps ==
    ASSUME TabsInv, ReplacementOpened
    PROVE  TabsInv'
  <1> USE TabsConstants
  <1> DEFINE q == op.other
  <1>1. /\ op.kind = "close" /\ op.pc = "opening" /\ op' = [op EXCEPT !.pc = "closing"]
        /\ UNCHANGED <<active, gen, page, events, navs, admission, policy, refs>> /\ op \in TabOp
    BY DEF ReplacementOpened, TabsInv, TabsTyped
  <1>2. q # NoPage /\ q \in Pages
    BY <1>1, TabsFacts DEF TabsInv, OpHasTab
  <1>3. /\ op.on \in Registered /\ q # op.on /\ q # active /\ page[q].doc # 0 /\ \A r \in refs : r.tab # q
    BY <1>1, <1>2 DEF TabsInv, OpHasTab
  <1>4. op'.kind = "close" /\ op'.pc = "closing" /\ op'.on = op.on /\ op'.other = q /\ op'.rev = op.rev
    BY <1>1 DEF TabOp
  <1>5. op' \in TabOp
    <2>1. "closing" \in {"none", "opening", "closing", "reading"}
      OBVIOUS
    <2> QED BY <2>1, <1>1 DEF TabOp
  <1>6. /\ tabs' \in Seq(Pages) /\ Distinct(tabs') /\ Registered' = Registered \cup {q}
        /\ tab' \in [Pages -> ManagedTab] /\ \A p \in Registered : tab'[p].rev = tab[p].rev
        /\ Len(tabs') = Len(tabs) + (IF q \in Registered THEN 0 ELSE 1)
        /\ observers' \in [Pages -> Nat] /\ \A p \in Registered' : observers'[p] > 0
    <2>0. observers \in [Pages -> Nat] /\ observers[q] \in Nat /\ tabs \in Seq(Pages) /\ tab \in [Pages -> ManagedTab]
          /\ Distinct(tabs) /\ \A p \in Registered : observers[p] > 0
      BY <1>2 DEF TabsInv, TabsTyped, TabsAreOpened
    <2>1. CASE q \in Registered
      <3>1. UNCHANGED <<tabs, tab, observers>>
        BY <2>1 DEF ReplacementOpened
      <3>2. Registered' = Registered \cup {q}
        BY <3>1, <2>1 DEF Registered
      <3> QED BY <3>1, <3>2, <2>0, <2>1, TabsFacts
    <2>2. CASE q \notin Registered
      <3>1. Register(q, TRUE) /\ observers' = [observers EXCEPT ![q] = @ + 1]
        BY <2>2 DEF ReplacementOpened
      <3>2. /\ tabs' \in Seq(Pages) /\ Distinct(tabs') /\ Registered' = Registered \cup {q}
            /\ tab' \in [Pages -> ManagedTab] /\ \A p \in Registered : tab'[p].rev = tab[p].rev
            /\ Len(tabs') = Len(tabs) + (IF q \in Registered THEN 0 ELSE 1)
        BY <3>1, <1>2, RegisterAdds
      <3>3. observers' \in [Pages -> Nat] /\ observers'[q] > 0 /\ \A p \in Pages : observers[p] > 0 => observers'[p] > 0
        BY <3>1, <2>0, <1>2
      <3>4. \A p \in Registered' : observers'[p] > 0
        BY <3>2, <3>3, <2>0, TabsFacts
      <3> QED BY <3>2, <3>3, <3>4
    <2> QED BY <2>1, <2>2
  <1>7. TabsTyped'
    BY <1>1, <1>5, <1>6 DEF TabsInv, TabsTyped
  <1>8. TabsAreOpened'
    BY <1>1, <1>3, <1>6 DEF TabsInv, TabsAreOpened
  <1>9. OpHasTab'
    BY <1>1, <1>2, <1>3, <1>4, <1>6 DEF OpHasTab
  <1>10. RefsCurrent'
    BY <1>1, <1>6 DEF TabsInv, RefsCurrent
  <1>11. PlacesLeft'
    <2>1. Extra' = 1 /\ Extra = IF q \in Registered THEN 1 ELSE 0
      BY <1>4, <1>6 DEF Extra
    <2> QED BY <2>1, <1>1, <1>6, TabsFacts DEF TabsInv, PlacesLeft
  <1>12. ActiveConsistent'
    BY <1>1, <1>6 DEF TabsInv, ActiveConsistent
  <1> QED BY <1>7, <1>8, <1>9, <1>10, <1>11, <1>12 DEF TabsInv

\* The tab of the operation, or the replacement, leaves the map.
LEMMA TabLeaves ==
    ASSUME TabsInv, NEW p \in Registered, tabs' = LessOne(tabs, p)
    PROVE  /\ tabs' \in Seq(Pages) /\ Distinct(tabs') /\ Registered' = Registered \ {p}
           /\ Len(tabs') = Len(tabs) - 1
  <1>1. tabs \in Seq(Pages) /\ Distinct(tabs) /\ p \in ToSet(tabs)
    BY DEF TabsInv, TabsTyped, TabsAreOpened, Registered
  <1>2. /\ LessOne(tabs, p) \in Seq(Pages) /\ Len(LessOne(tabs, p)) = Len(tabs) - 1
        /\ Distinct(LessOne(tabs, p)) /\ ToSet(LessOne(tabs, p)) = ToSet(tabs) \ {p}
    BY <1>1, OneElementLess
  <1> QED BY <1>2 DEF Registered

LEMMA CloseEnds ==
    ASSUME TabsInv, TabClosed
    PROVE  TabsInv'
  <1> USE TabsConstants
  <1> DEFINE p == op.on  q == op.other
  <1>1. /\ op.kind = "close" /\ op.pc = "closing" /\ op' = NoOp /\ page' = [page EXCEPT ![p].open = FALSE]
        /\ tabs' = LessOne(tabs, p) /\ refs' = {r \in refs : r.tab # p}
        /\ UNCHANGED <<events, navs, observers, admission, policy>>
    BY DEF TabClosed
  <1>2. p \in Registered /\ p \in Pages
    BY <1>1, TabsFacts DEF TabsInv, OpHasTab
  <1>3. q # NoPage => q \in Registered /\ q # p
    BY <1>1 DEF TabsInv, OpHasTab
  <1>4. q = NoPage => Len(tabs) > 1
    BY <1>1 DEF TabsInv, OpHasTab
  <1>5. /\ tabs' \in Seq(Pages) /\ Distinct(tabs') /\ Registered' = Registered \ {p} /\ Len(tabs') = Len(tabs) - 1
    BY <1>1, <1>2, TabLeaves
  <1>6. page' \in [Pages -> TabPage] /\ \A x \in Pages : page'[x].doc = page[x].doc
    BY <1>1, <1>2, ClosingAPage
  <1>7. /\ tab' \in [Pages -> ManagedTab] /\ \A x \in Registered \ {p} : tab'[x].rev = tab[x].rev
        /\ active' \in Registered \ {p} /\ gen' = tab'[active'].rev
    <2>1. tab \in [Pages -> ManagedTab] /\ NoTab \in ManagedTab /\ Registered \subseteq Pages /\ active \in Registered
          /\ gen = tab[active].rev
      BY TabsFacts DEF TabsInv, TabsTyped, ActiveConsistent, NoTab, ManagedTab
    <2>2. CASE q # NoPage
      <3>1. tab' = [tab EXCEPT ![p] = NoTab] /\ active' = q /\ gen' = tab'[q].rev
        BY <2>2 DEF TabClosed, Activate
      <3> QED BY <3>1, <2>1, <2>2, <1>2, <1>3
    <2>3. CASE q = NoPage /\ active = p
      <3> DEFINE h == Head(tabs')
      <3>1. h \in Registered'
        <4>1. 1 \in DOMAIN tabs' /\ Head(tabs') = tabs'[1]
          BY <1>4, <1>5, <2>3
        <4>2. Head(tabs') \in ToSet(tabs')
          BY <4>1 DEF ToSet
        <4> QED BY <4>2 DEF Registered
      <3>2. h \in Registered \ {p} /\ h \in Pages /\ h # p
        BY <3>1, <1>5, <2>1
      <3>3. active' = h /\ gen' = tab'[h].rev
        BY <2>3 DEF TabClosed, Activate
      <3>4. tab' = [tab EXCEPT ![p] = NoTab, ![h].main = @ \/ tab[p].main]
        BY <2>3 DEF TabClosed
      <3> HIDE DEF h
      <3>5. tab' = [tab EXCEPT ![p] = NoTab, ![h] = [tab[h] EXCEPT !.main = tab[h].main \/ tab[p].main]]
        BY <3>2, <3>4
      <3>6. [tab[h] EXCEPT !.main = tab[h].main \/ tab[p].main] \in ManagedTab
            /\ [tab[h] EXCEPT !.main = tab[h].main \/ tab[p].main].rev = tab[h].rev
        BY <3>2, <2>1 DEF ManagedTab
      <3>7. tab' \in [Pages -> ManagedTab] /\ \A x \in Registered \ {p} : tab'[x].rev = tab[x].rev
        BY <3>2, <3>5, <3>6, <2>1, <1>2
      <3> QED BY <3>2, <3>3, <3>7
    <2>4. CASE q = NoPage /\ active # p
      <3>1. tab' = [tab EXCEPT ![p] = NoTab] /\ UNCHANGED <<active, gen>>
        BY <2>4 DEF TabClosed
      <3> QED BY <3>1, <2>1, <2>4, <1>2
    <2> QED BY <2>2, <2>3, <2>4
  <1> HIDE DEF p, q
  <1>8. op'.kind = "none" /\ op'.other = NoPage /\ op' \in TabOp /\ op' = NoOp
    <2>1. "none" \in {"none", "close", "snapshot"} /\ "none" \in {"none", "opening", "closing", "reading"}
      OBVIOUS
    <2> QED BY <2>1, <1>1 DEF NoOp, TabOp
  <1>9. TabsTyped'
    BY <1>1, <1>5, <1>6, <1>7, <1>8 DEF TabsInv, TabsTyped
  <1>10. TabsAreOpened'
    <2>1. \A i \in DOMAIN admission : admission[i] \in Pages
      BY DEF TabsInv, TabsTyped
    <2> QED BY <2>1, <1>1, <1>5, <1>6, TabsFacts DEF TabsInv, TabsAreOpened
  <1>11. OpHasTab'
    BY <1>8 DEF OpHasTab, NoOp
  <1>12. RefsCurrent'
    <2>1. \A r \in refs : r.tab \in Registered /\ r.tab \in Pages
      BY TabsFacts DEF TabsInv, RefsCurrent
    <2> QED BY <2>1, <1>1, <1>5, <1>6, <1>7 DEF TabsInv, RefsCurrent
  <1>13. PlacesLeft'
    <2>1. Extra' = 0 /\ Extra \in {0, 1}
      BY <1>5, <1>8, TabsFacts DEF Extra
    <2> QED BY <2>1, <1>1, <1>5, TabsFacts DEF TabsInv, PlacesLeft
  <1>14. ActiveConsistent'
    BY <1>5, <1>7 DEF ActiveConsistent
  <1> QED BY <1>9, <1>10, <1>11, <1>12, <1>13, <1>14 DEF TabsInv

LEMMA CloseFails ==
    ASSUME TabsInv, TabCloseFails
    PROVE  TabsInv'
  <1> USE TabsConstants
  <1> DEFINE q == op.other
  <1>1. /\ op.kind = "close" /\ op.pc = "closing" /\ op' = NoOp
        /\ UNCHANGED <<active, gen, events, navs, observers, admission, policy, refs>>
    BY DEF TabCloseFails
  <1>2. op'.kind = "none" /\ op'.other = NoPage /\ op' \in TabOp /\ op' = NoOp
    <2>1. "none" \in {"none", "close", "snapshot"} /\ "none" \in {"none", "opening", "closing", "reading"}
      OBVIOUS
    <2> QED BY <2>1, <1>1 DEF NoOp, TabOp
  <1>3. OpHasTab'
    BY <1>2 DEF OpHasTab, NoOp
  <1>4. CASE q = NoPage
    <2>1. UNCHANGED <<tabs, tab, page>> /\ Registered' = Registered
      BY <1>4 DEF TabCloseFails, Registered
    <2>2. Extra' = 0 /\ Extra = 0
      BY <1>2, <1>4, <2>1, TabsFacts DEF Extra
    <2>3. TabsTyped' /\ TabsAreOpened' /\ RefsCurrent' /\ PlacesLeft' /\ ActiveConsistent'
      BY <1>1, <1>2, <2>1, <2>2 DEF TabsInv, TabsTyped, TabsAreOpened, RefsCurrent, PlacesLeft, ActiveConsistent
    <2> QED BY <2>3, <1>3 DEF TabsInv
  <1>5. CASE q # NoPage
    <2>1. q \in Registered /\ q \in Pages /\ q # active /\ \A r \in refs : r.tab # q
      BY <1>1, <1>5, TabsFacts DEF TabsInv, OpHasTab
    <2>2. tabs' = LessOne(tabs, q) /\ tab' = [tab EXCEPT ![q] = NoTab] /\ page' = [page EXCEPT ![q].open = FALSE]
      BY <1>5 DEF TabCloseFails
    <2>3. tabs' \in Seq(Pages) /\ Distinct(tabs') /\ Registered' = Registered \ {q} /\ Len(tabs') = Len(tabs) - 1
      BY <2>1, <2>2, TabLeaves
    <2>4. page' \in [Pages -> TabPage] /\ \A x \in Pages : page'[x].doc = page[x].doc
      BY <2>1, <2>2, ClosingAPage
    <2>5. tab' \in [Pages -> ManagedTab] /\ \A x \in Pages : x # q => tab'[x] = tab[x]
      <3>1. tab \in [Pages -> ManagedTab] /\ NoTab \in ManagedTab
        BY DEF TabsInv, TabsTyped, NoTab, ManagedTab
      <3> QED BY <3>1, <2>1, <2>2
    <2>6. TabsTyped'
      BY <1>1, <1>2, <2>3, <2>4, <2>5 DEF TabsInv, TabsTyped
    <2>7. TabsAreOpened'
      <3>1. \A i \in DOMAIN admission : admission[i] \in Pages
        BY DEF TabsInv, TabsTyped
      <3> QED BY <3>1, <1>1, <2>3, <2>4, TabsFacts DEF TabsInv, TabsAreOpened
    <2>8. RefsCurrent'
      <3>1. \A r \in refs : r.tab \in Registered /\ r.tab \in Pages /\ r.tab # q
        BY <2>1, TabsFacts DEF TabsInv, RefsCurrent
      <3> QED BY <3>1, <1>1, <2>3, <2>4, <2>5 DEF TabsInv, RefsCurrent
    <2>9. PlacesLeft'
      <3>1. Extra' = 0 /\ Extra = 1
        BY <1>2, <2>1, <2>3, TabsFacts DEF Extra
      <3> QED BY <3>1, <1>1, <2>3, TabsFacts DEF TabsInv, PlacesLeft
    <2>10. ActiveConsistent'
      BY <1>1, <2>1, <2>3, <2>5, TabsFacts DEF TabsInv, ActiveConsistent
    <2> QED BY <1>3, <2>6, <2>7, <2>8, <2>9, <2>10 DEF TabsInv
  <1> QED BY <1>4, <1>5

\* A snapshot reads elements under the revision it began with.
LEMMA SnapshotKeeps ==
    ASSUME TabsInv, SnapshotBegins \/ ReadElement \/ SnapshotEnds \/ \E r \in refs : RefExpires(r)
    PROVE  TabsInv'
  <1> USE TabsConstants
  <1>1. UNCHANGED <<tabs, tab, active, gen, page, events, navs, observers, admission, policy>> /\ Registered' = Registered
    BY DEF SnapshotBegins, ReadElement, SnapshotEnds, RefExpires, Registered
  <1>2. TabsAreOpened' /\ ActiveConsistent'
    BY <1>1 DEF TabsInv, TabsAreOpened, ActiveConsistent
  <1>3. ASSUME op'.kind \in {"none", "snapshot"}, op' \in TabOp, op'.other = NoPage, op.other = NoPage, refs' = refs,
               op'.kind = "none" => op' = NoOp, op'.kind = "snapshot" => op'.on \in Registered
        PROVE  TabsInv'
    <2>1. Extra' = 0 /\ Extra = 0
      BY <1>1, <1>3, TabsFacts DEF Extra
    <2>2. TabsTyped' /\ RefsCurrent' /\ PlacesLeft'
      BY <1>1, <1>3, <2>1 DEF TabsInv, TabsTyped, RefsCurrent, PlacesLeft
    <2>3. OpHasTab'
      BY <1>1, <1>3 DEF OpHasTab
    <2> QED BY <1>2, <2>2, <2>3 DEF TabsInv
  <1>4. CASE SnapshotBegins
    <2>1. op = NoOp /\ op' = [NoOp EXCEPT !.kind = "snapshot", !.pc = "reading", !.on = active, !.rev = gen] /\ refs' = refs
      BY <1>4 DEF SnapshotBegins, Idle
    <2>2. op' = [kind |-> "snapshot", pc |-> "reading", on |-> active, other |-> NoPage, rev |-> gen] /\ op.other = NoPage
      BY <2>1 DEF NoOp
    <2>3. op' \in TabOp
      <3>1. "snapshot" \in {"none", "close", "snapshot"} /\ "reading" \in {"none", "opening", "closing", "reading"}
        OBVIOUS
      <3> QED BY <3>1, <2>2, TabsFacts DEF TabOp
    <2>4. op'.kind = "snapshot" /\ op'.on = active /\ op'.other = NoPage
      BY <2>2
    <2> QED BY <2>1, <2>2, <2>3, <2>4, <1>3, TabsFacts
  <1>5. CASE SnapshotEnds
    <2>1. op.kind = "snapshot" /\ op' = NoOp /\ refs' = refs
      BY <1>5 DEF SnapshotEnds
    <2>2. op.other = NoPage
      BY <2>1 DEF TabsInv, OpHasTab
    <2>3. op' \in TabOp /\ op'.kind = "none" /\ op'.other = NoPage
      <3>1. "none" \in {"none", "close", "snapshot"} /\ "none" \in {"none", "opening", "closing", "reading"}
        OBVIOUS
      <3> QED BY <3>1, <2>1 DEF NoOp, TabOp
    <2> QED BY <2>1, <2>2, <2>3, <1>3
  <1>6. CASE ReadElement
    <2> DEFINE new == [tab |-> op.on, rev |-> op.rev, doc |-> page[op.on].doc]
    <2>1. op.kind = "snapshot" /\ op' = op /\ refs' = refs \cup {new}
      BY <1>6 DEF ReadElement
    <2>2. op.on \in Registered /\ op.on \in Pages /\ op.other = NoPage /\ page[op.on] \in TabPage
      BY <2>1, TabsFacts DEF TabsInv, TabsTyped, OpHasTab
    <2>3. new \in TabRef /\ new.tab = op.on /\ new.doc = page[op.on].doc
      BY <2>2, TabsFacts DEF TabRef, TabPage
    <2> HIDE DEF new
    <2>4. TabsTyped'
      BY <1>1, <2>1, <2>3 DEF TabsInv, TabsTyped
    <2>5. RefsCurrent'
      BY <1>1, <2>1, <2>2, <2>3 DEF TabsInv, RefsCurrent
    <2>6. OpHasTab' /\ PlacesLeft'
      BY <1>1, <2>1, <2>2 DEF TabsInv, OpHasTab, PlacesLeft, Extra
    <2> QED BY <1>2, <2>4, <2>5, <2>6 DEF TabsInv
  <1>7. ASSUME NEW r \in refs, RefExpires(r) PROVE TabsInv'
    <2>1. op' = op /\ refs' \subseteq refs
      BY <1>7 DEF RefExpires
    <2>2. TabsTyped' /\ RefsCurrent' /\ OpHasTab' /\ PlacesLeft'
      BY <1>1, <2>1 DEF TabsInv, TabsTyped, RefsCurrent, OpHasTab, PlacesLeft, Extra
    <2> QED BY <1>2, <2>2 DEF TabsInv
  <1> QED BY <1>4, <1>5, <1>6, <1>7

LEMMA TabsStep == TabsInv /\ [TabsNext]_tabVars => TabsInv'
  <1> SUFFICES ASSUME TabsInv, [TabsNext]_tabVars PROVE TabsInv'
    OBVIOUS
  <1>1. CASE UNCHANGED tabVars
    BY <1>1 DEF tabVars, TabsInv, TabsTyped, TabsAreOpened, OpHasTab, RefsCurrent, PlacesLeft, Extra, ActiveConsistent, Registered
  <1>2. ASSUME NEW p \in Pages, Navigates(p) \/ WindowOpens(p) \/ PageEvent(p) \/ PageCrashes(p) PROVE TabsInv'
    BY <1>2, PagesKeep
  <1>3. ASSUME NEW p \in Pages, FrameNavigated(p) PROVE TabsInv'
    BY <1>3, NavigationKeeps
  <1>4. ASSUME NEW p \in Pages, SwitchTab(p) PROVE TabsInv'
    BY <1>4, SwitchKeeps
  <1>5. ASSUME NEW p \in Pages, CloseTab(p) PROVE TabsInv'
    BY <1>5, CloseKeeps
  <1> QED BY <1>1, <1>2, <1>3, <1>4, <1>5, AdmissionKeeps, ReplacementKeeps, CloseEnds, CloseFails, SnapshotKeeps DEF TabsNext

\* A reference that is accepted carries the revision of its own tab; only a replacement
\* is counted beyond the limit.
LEMMA TabsInvGivesAgree == TabsInv => TabsAgree
  <1> SUFFICES ASSUME TabsInv PROVE TabsAgree
    OBVIOUS
  <1>1. RefsOfDocument
    BY DEF TabsInv, RefsOfDocument, Accepted, RefsCurrent, ActiveConsistent
  <1>2. TabsBounded
    <2>1. Extra = 0 \/ (Extra = 1 /\ op.other # NoPage)
      BY TabsConstants, TabsFacts DEF Extra
    <2>2. op.other # NoPage => op.kind = "close"
      BY TabsConstants DEF TabsInv, TabsTyped, OpHasTab, TabOp, NoOp
    <2> QED BY <2>1, <2>2, TabsConstants, TabsFacts DEF TabsInv, TabsBounded, PlacesLeft
  <1> QED BY <1>1, <1>2 DEF TabsInv, TabsAgree

\* The tabs of a session (src/browser/browser-session.ts): for any number of pages and
\* any limit, whatever navigates, opens, closes or crashes between the awaits of a tab
\* operation, the active tab is in the map and writes compare with its own revision,
\* an accepted reference belongs to the document on its page, and the limit holds.
THEOREM TabsAlwaysAgree == TabsSpec => []TabsAgree
  <1> QED BY TabsStart, TabsStep, TabsInvGivesAgree, PTL DEF TabsSpec
===============================================================================
