---------------------------- MODULE SessionManager ----------------------------
(***************************************************************************)
(* The registry of browser sessions (src/browser/session-manager.ts): what *)
(* start, stop, expiry, lease renewal and shutdown do to a session, to its *)
(* profile lease and to the login state of its profile.  Several hosts     *)
(* share the profiles; each runs one manager.                              *)
(*                                                                         *)
(* Every await is a step boundary.  The session itself (module             *)
(* BrowserSession, which also has the workspace record) is reduced to      *)
(* whether its browser is starting, up or down.  Sessions are started on   *)
(* saved profiles with a checkpoint store                                  *)
(* (src/profile/versioned-checkpoint-store.ts).  The login state of a      *)
(* profile is the set of sessions whose work it contains.  The health      *)
(* record of the account is left out: reading and writing it only shows as *)
(* awaits and failures.                                                    *)
(***************************************************************************)
EXTENDS ProfileLease, Naturals, FiniteSets

CONSTANTS Hosts, Host,  \* the manager each session is started by
          MaxSessions,  \* maxSessions of a manager
          MaxVersion    \* bound: periodic checkpoints stop at this version

ASSUME ManagerAssumption ==
    /\ Host \in [Sessions -> Hosts]
    /\ MaxSessions \in Nat \ {0}
    /\ MaxVersion \in Nat

VARIABLES ses,          \* what the managers keep about each session
          host,         \* life cycle of each process
          saved         \* newest checkpoint of each profile

managerVars == <<ses, host, saved, key>>

StartPhases ==
    {"idle", "loading", "leasing", "launching", "saving", "returned", "failing",
     "releasing", "failed", "rejected", "dead"}
\* The last three are the progress of shutdownSessions with a session nobody else stops.
StopPhases  ==
    {"idle", "closing", "releasing", "done", "draining", "unwinding", "drained"}
BrowserPhases == {"none", "starting", "up", "ending", "down"}  \* "ending": session.stop saves
RenewPhases == {"off", "armed", "sent", "renewed", "lost", "drop", "quarantine"}

Session ==
    [start   : StartPhases,                        \* progress of startUnlocked
     version : Nat,                                \* checkpointVersion
     state   : SUBSET Sessions,                    \* login state loaded or saved last
     save    : {"idle", "checked", "scanned"},     \* progress of saveState
     next    : Nat,                                \* newVersion of saveState
     listed  : BOOLEAN,                            \* in `sessions'
     browser : BrowserPhases,
     owned   : BOOLEAN,                            \* in `activeProfileLeases'
     renew   : RenewPhases,                        \* renewal timer and renewProfileLease
     ttl     : {"off", "armed", "due"},            \* in `expiryTimers', before or after
                                                   \* expiresAt
     stop    : StopPhases]                         \* progress of stop; "done": in
                                                   \* `closedStatuses'

NewSession ==
    [start |-> "idle", version |-> 0, state |-> {}, save |-> "idle", next |-> 0,
     listed |-> FALSE, browser |-> "none", owned |-> FALSE, renew |-> "off", ttl |-> "off",
     stop |-> "idle"]

\* What is left of a session when its process is gone.
Dead == [NewSession EXCEPT !.start = "dead", !.browser = "down"]

On(h)     == {s \in Sessions : Host[s] = h}
Listed(h) == {s \in On(h) : ses[s].listed}

ManagerInit ==
    /\ ses = [s \in Sessions |-> NewSession]
    /\ host = [h \in Hosts |-> "up"]
    /\ saved = [p \in Profiles |-> [version |-> 0, state |-> {}]]
    /\ LeaseKeyInit

-------------------------------------------------------------------------------
\* start()

\* The session limit is checked first, before anything is awaited.
StartCall(s) ==
    /\ ses[s].start = "idle" /\ host[Host[s]] = "up"
    /\ Cardinality(Listed(Host[s])) < MaxSessions
    /\ ses' = [ses EXCEPT ![s].start = "loading"]
    /\ UNCHANGED <<host, saved, key>>

\* The profile, the health of its account and its login state are read.  When the
\* newest checkpoint cannot be read, the copy in the profile store is used and the
\* version stays 0.
StartLoads(s) ==
    /\ ses[s].start = "loading"
    /\ \E o \in Outcomes \ {"unanswered"} :
          ses' = [ses EXCEPT
             ![s].start = "leasing",
             ![s].version = IF Applied(o) THEN saved[Profile[s]].version ELSE 0,
             ![s].state = saved[Profile[s]].state]
    /\ UNCHANGED <<host, saved, key>>

\* The profile is missing or does not fit the options, or the account may not start.
StartRefused(s) ==
    /\ ses[s].start = "loading"
    /\ ses' = [ses EXCEPT ![s].start = "rejected"]
    /\ UNCHANGED <<host, saved, key>>

\* acquireProfileLease, then without another await the registration of the
\* session and the call of session.start.
StartAcquires(s) ==
    /\ ses[s].start = "leasing" /\ AcquireAccepts(s)
    /\ AcquireWrites(s)
    /\ ses' = [ses EXCEPT ![s].start = "launching", ![s].browser = "starting",
                          ![s].listed = TRUE, ![s].owned = TRUE, ![s].renew = "armed"]
    /\ UNCHANGED <<host, saved>>

StartNotLeased(s) ==
    /\ ses[s].start = "leasing"
    /\ \/ ~AcquireAccepts(s) /\ UNCHANGED key
       \/ "unanswered" \in Outcomes /\ AcquireAccepts(s) /\ AcquireWrites(s)
       \/ "failed" \in Outcomes /\ UNCHANGED key
    /\ ses' = [ses EXCEPT ![s].start = "rejected"]
    /\ UNCHANGED <<host, saved>>

StartLaunched(s) ==
    /\ ses[s].start = "launching"
    /\ ses' = [ses EXCEPT ![s].start = "saving", ![s].browser = "up"]
    /\ UNCHANGED <<host, saved, key>>

\* The catch block up to `await session.stop'.
Failing(r) == [r EXCEPT !.start = "failing", !.ttl = "off", !.listed = FALSE]

\* session.start closes its context before it rejects.
StartLaunchFails(s) ==
    /\ ses[s].start = "launching"
    /\ ses' = [ses EXCEPT ![s] = [Failing(ses[s]) EXCEPT !.browser = "down"]]
    /\ UNCHANGED <<host, saved, key>>

\* The identity and the health record are written, then the timers armed.
StartReturns(s) ==
    /\ ses[s].start = "saving"
    /\ ses' = [ses EXCEPT ![s].start = "returned", ![s].ttl = "armed"]
    /\ UNCHANGED <<host, saved, key>>

StartSaveFails(s) ==
    /\ ses[s].start = "saving" /\ "failed" \in Outcomes
    /\ ses' = [ses EXCEPT ![s] = Failing(ses[s])]
    /\ UNCHANGED <<host, saved, key>>

\* releasePersistentProfile forgets the lease before it sends the release.
Forgotten(r) == [r EXCEPT !.owned = FALSE, !.renew = IF @ = "armed" THEN "off" ELSE @]

StartFailureClosed(s) ==
    /\ ses[s].start = "failing" /\ ses[s].browser = "down"
    /\ ses' = [ses EXCEPT ![s] = [Forgotten(ses[s]) EXCEPT
                  !.start = IF ses[s].owned THEN "releasing" ELSE "failed"]]
    /\ UNCHANGED <<host, saved, key>>

StartFailureReleased(s) ==
    /\ ses[s].start = "releasing"
    /\ \E o \in Outcomes : ReleaseLease(s, o)
    /\ ses' = [ses EXCEPT ![s].start = "failed"]
    /\ UNCHANGED <<host, saved>>

-------------------------------------------------------------------------------
(* Login state.  saveState has three awaits: it compares the newest version   *)
(* with the one the session knows, lists the versions again to choose the    *)
(* next one, and creates that file exclusively.  When it fails after that    *)
(* (the `latest' pointer), the file exists and the session keeps the old     *)
(* version.                                                                  *)

\* Mutant: save without the expected version.
SaveBlindly(s) == TRUE

SaveAccepts(s) == saved[Profile[s]].version = ses[s].version

\* saveState has returned or thrown; session.stop goes on and closes the browser.
SaveEnded(r) == [r EXCEPT !.save = "idle", !.browser = IF @ = "ending" THEN "down" ELSE @]

\* Somebody awaits session.stop.
Closing(s) == ses[s].start = "failing" \/ ses[s].stop \in {"closing", "draining"}

\* The checkpoint timer, which is armed and cleared together with the TTL timer and
\* armed again whether or not the save failed.  A save that is refused changes nothing;
\* neither does one that comes after session.stop was called.
Checkpoint(s) ==
    /\ ses[s].ttl # "off" /\ ses[s].listed /\ ses[s].browser = "up" /\ ses[s].save = "idle"
    /\ ~Closing(s) /\ saved[Profile[s]].version < MaxVersion
    /\ SaveAccepts(s)
    /\ ses' = [ses EXCEPT ![s].save = "checked"]
    /\ UNCHANGED <<host, saved, key>>

SaveScans(s) ==
    /\ ses[s].save = "checked"
    /\ \E o \in Outcomes :
          ses' = [ses EXCEPT ![s] =
             IF Answered(o)
             THEN [ses[s] EXCEPT !.save = "scanned", !.next = saved[Profile[s]].version + 1]
             ELSE SaveEnded(ses[s])]
    /\ UNCHANGED <<host, saved, key>>

\* The file of the new version does not exist yet.
Fresh(s) == saved[Profile[s]].version < ses[s].next

SaveLinks(s) ==
    /\ ses[s].save = "scanned"
    /\ \E o \in Outcomes :
          /\ saved' = IF Applied(o) /\ Fresh(s)
                      THEN [saved EXCEPT ![Profile[s]] =
                              [version |-> ses[s].next, state |-> ses[s].state \cup {s}]]
                      ELSE saved
          /\ ses' = [ses EXCEPT ![s] = SaveEnded(
                       IF Answered(o) /\ Fresh(s)
                       THEN [ses[s] EXCEPT !.version = ses[s].next, !.state = @ \cup {s}]
                       ELSE ses[s])]
    /\ UNCHANGED <<host, key>>

-------------------------------------------------------------------------------
\* stop()

\* session.stop, shared by all who await it: once the action queue, to which periodic
\* checkpoints belong, is drained, the login state is saved and the browser closed.
SessionStops(s) ==
    /\ Closing(s) /\ ses[s].browser = "up" /\ ses[s].save = "idle"
    /\ \E o \in Outcomes :
          ses' = [ses EXCEPT ![s] =
             IF Answered(o) /\ SaveAccepts(s)
             THEN [ses[s] EXCEPT !.browser = "ending", !.save = "checked"]
             ELSE [ses[s] EXCEPT !.browser = "down"]]
    /\ UNCHANGED <<host, saved, key>>

\* Mutant: the lease is given up before the browser is closed.
StopBeginsForgets(r) ==
    IF r.listed
    THEN [Forgotten(r) EXCEPT !.ttl = "off",
                   !.stop = IF @ \in {"idle", "draining", "drained"} THEN "closing" ELSE @]
    ELSE r

\* stop() up to `await session.stop'; it returns at once for an unknown session.
\* Stops that come while one is under way await the same promise, and all but the
\* first find nothing left to do.
StopBegins(r) ==
    IF r.listed
    THEN [r EXCEPT !.ttl = "off",
                   !.stop = IF @ \in {"idle", "draining", "drained"} THEN "closing" ELSE @]
    ELSE r

\* A client or stopProfileSessions calls stop().
StopCall(s) ==
    /\ ses[s].listed
    /\ ses' = [ses EXCEPT ![s] = StopBegins(ses[s])]
    /\ UNCHANGED <<host, saved, key>>

StopClosed(s) ==
    /\ ses[s].stop = "closing" /\ ses[s].browser = "down"
    /\ ses' = [ses EXCEPT ![s] = [Forgotten(ses[s]) EXCEPT
                  !.listed = FALSE, !.stop = IF ses[s].owned THEN "releasing" ELSE "done"]]
    /\ UNCHANGED <<host, saved, key>>

\* A release that fails takes stop() to its catch block, with the same effect.
StopReleased(s) ==
    /\ ses[s].stop = "releasing"
    /\ \E o \in Outcomes : ReleaseLease(s, o)
    /\ ses' = [ses EXCEPT ![s].stop = "done"]
    /\ UNCHANGED <<host, saved>>

-------------------------------------------------------------------------------
\* Time to live of a session

TtlPasses(s) ==
    /\ ses[s].ttl = "armed"
    /\ ses' = [ses EXCEPT ![s].ttl = "due"]
    /\ UNCHANGED <<host, saved, key>>

\* The expiry timer, or get() past the deadline: expireSession.  A timer that fires
\* early is armed again for the same deadline.
TtlFires(s) ==
    /\ ses[s].ttl # "off"
    /\ ses' = IF ses[s].ttl = "due"
              THEN [ses EXCEPT ![s] = StopBegins([ses[s] EXCEPT !.ttl = "off"])]
              ELSE ses
    /\ UNCHANGED <<host, saved, key>>

-------------------------------------------------------------------------------
\* Renewal of the profile lease

\* The renewal timer fires.
RenewSends(s) ==
    /\ ses[s].renew = "armed"
    /\ ses' = [ses EXCEPT ![s].renew = "sent"]
    /\ UNCHANGED <<host, saved, key>>

\* Redis answers the renewal, or the call fails.
RenewApplies(s) ==
    /\ ses[s].renew = "sent"
    /\ \E o \in Outcomes :
          ses' = [ses EXCEPT ![s].renew =
             IF Answered(o) /\ RenewAccepts(s) THEN "renewed" ELSE "lost"]
    /\ UNCHANGED <<host, saved, key>>

\* Mutant: the renewal does not look whether the session was stopped meanwhile.
RenewedBlindly(s) ==
    /\ ses[s].renew = "renewed"
    /\ ses' = [ses EXCEPT ![s].renew = "armed", ![s].owned = TRUE]
    /\ UNCHANGED <<host, saved, key>>

\* A renewed lease nobody wants any more is released.
Renewed(s) ==
    /\ ses[s].renew = "renewed"
    /\ ses' = [ses EXCEPT ![s].renew =
                  IF ses[s].owned /\ ses[s].listed THEN "armed" ELSE "drop"]
    /\ UNCHANGED <<host, saved, key>>

RenewDrops(s) ==
    /\ ses[s].renew = "drop"
    /\ \E o \in Outcomes : ReleaseLease(s, o)
    /\ ses' = [ses EXCEPT ![s].renew = "off"]
    /\ UNCHANGED <<host, saved>>

\* The catch block up to the update of the health record.
RenewLost(s) ==
    /\ ses[s].renew = "lost"
    /\ ses' = [ses EXCEPT ![s] = [Forgotten(ses[s]) EXCEPT
                  !.renew = IF ses[s].owned THEN "quarantine" ELSE "off"]]
    /\ UNCHANGED <<host, saved, key>>

\* The account has been quarantined, or that write has failed: stop the session.
RenewLostStops(s) ==
    /\ ses[s].renew = "quarantine"
    /\ ses' = [ses EXCEPT ![s] = StopBegins([ses[s] EXCEPT !.renew = "off"])]
    /\ UNCHANGED <<host, saved, key>>

\* The holder will not renew its lease any more.
Abandoned(p) == \A s \in Sessions : key[p] = s => ses[s].renew = "off"

LeaseLapses(p) ==
    /\ "late" \in Events \/ Abandoned(p)
    /\ KeyLapses(p)
    /\ UNCHANGED <<ses, host, saved>>

-------------------------------------------------------------------------------
\* shutdownSessions and the end of the process

ShutdownBegins(h) ==
    /\ host[h] = "up"
    /\ host' = [host EXCEPT ![h] = "draining"]
    /\ ses' = [s \in Sessions |->
          IF s \in On(h)
          THEN [ses[s] EXCEPT !.ttl = "off",
                  !.stop = IF ses[s].listed /\ @ = "idle" THEN "draining" ELSE @]
          ELSE ses[s]]
    /\ UNCHANGED <<saved, key>>

ShutdownClosed(s) ==
    /\ ses[s].stop = "draining" /\ ses[s].browser = "down"
    /\ ses' = [ses EXCEPT ![s] = [Forgotten(ses[s]) EXCEPT
                  !.stop = IF ses[s].owned THEN "unwinding" ELSE "drained"]]
    /\ UNCHANGED <<host, saved, key>>

ShutdownReleased(s) ==
    /\ ses[s].stop = "unwinding"
    /\ \E o \in Outcomes : ReleaseLease(s, o)
    /\ ses' = [ses EXCEPT ![s].stop = "drained"]
    /\ UNCHANGED <<host, saved>>

\* sessions.clear() forgets every session, those started meanwhile too.
ShutdownEnds(h) ==
    /\ host[h] = "draining"
    /\ \A s \in On(h) : ses[s].stop \in {"idle", "done", "drained"}
    /\ host' = [host EXCEPT ![h] = "shut"]
    /\ ses' = [s \in Sessions |->
          IF s \in On(h)
          THEN [ses[s] EXCEPT !.listed = FALSE,
                              !.stop = IF @ = "drained" THEN "done" ELSE @]
          ELSE ses[s]]
    /\ UNCHANGED <<saved, key>>

\* The process ends, after its shutdown or at any moment; its browsers end with it.
ProcessEnds(h) ==
    /\ host[h] = "shut" \/ (host[h] # "dead" /\ "crash" \in Events)
    /\ host' = [host EXCEPT ![h] = "dead"]
    /\ ses' = [s \in Sessions |-> IF s \in On(h) THEN Dead ELSE ses[s]]
    /\ UNCHANGED <<saved, key>>

-------------------------------------------------------------------------------
StartNext(s) ==
    \/ StartCall(s) \/ StartLoads(s) \/ StartRefused(s) \/ StartAcquires(s)
    \/ StartNotLeased(s) \/ StartLaunched(s) \/ StartLaunchFails(s) \/ StartReturns(s)
    \/ StartSaveFails(s) \/ StartFailureClosed(s) \/ StartFailureReleased(s)

StopNext(s) ==
    \/ StopCall(s) \/ SessionStops(s) \/ StopClosed(s) \/ StopReleased(s)
    \/ ShutdownClosed(s) \/ ShutdownReleased(s)

RenewNext(s) ==
    \/ RenewSends(s) \/ RenewApplies(s) \/ Renewed(s) \/ RenewDrops(s)
    \/ RenewLost(s) \/ RenewLostStops(s)

TimerNext(s) == Checkpoint(s) \/ TtlPasses(s) \/ TtlFires(s)

SaveNext(s) == SaveScans(s) \/ SaveLinks(s)

ManagerNext ==
    \/ \E s \in Sessions :
          StartNext(s) \/ StopNext(s) \/ RenewNext(s) \/ TimerNext(s) \/ SaveNext(s)
    \/ \E p \in Profiles : LeaseLapses(p)
    \/ \E h \in Hosts : ShutdownBegins(h) \/ ShutdownEnds(h) \/ ProcessEnds(h)

ManagerSpec == ManagerInit /\ [][ManagerNext]_managerVars

(* Fairness.  Awaited calls return: Redis and file operations fail or        *)
(* succeed, session.start is bounded by the launch timeout, and session.stop *)
(* ends (StopCompletes in BrowserSession).  Armed timers fire once they are  *)
(* due.  A process that has shut down exits.  Clients need not call stop, a  *)
(* held lease need not lapse, and only TtlEnforced relies on TTLs passing.   *)
ManagerFairness ==
    /\ \A s \in Sessions :
          /\ WF_managerVars(StartNext(s) /\ ses[s].start # "idle")
          /\ WF_managerVars(SessionStops(s) \/ SaveNext(s))
          /\ WF_managerVars(StopClosed(s) \/ StopReleased(s))
          /\ WF_managerVars(ShutdownClosed(s) \/ ShutdownReleased(s))
          /\ WF_managerVars(RenewNext(s))
          /\ WF_managerVars(TtlFires(s))
    /\ \A p \in Profiles : WF_managerVars(Abandoned(p) /\ LeaseLapses(p))
    /\ \A h \in Hosts : WF_managerVars(ShutdownEnds(h) \/ (host[h] = "shut" /\ ProcessEnds(h)))

ManagerFairSpec == ManagerSpec /\ ManagerFairness

-------------------------------------------------------------------------------
\* Properties

\* Every variable has the values the code gives it.
ManagerTypeOK ==
    /\ ses \in [Sessions -> Session]
    /\ host \in [Hosts -> {"up", "draining", "shut", "dead"}]
    /\ saved \in [Profiles -> [version : Nat, state : SUBSET Sessions]]
    /\ key \in [Profiles -> Sessions \cup {NoSession}]

\* A lease that is being released is not counted on any more.
OwnerInv ==
    \A s \in Sessions :
       /\ ses[s].start \in {"idle", "loading", "leasing"} =>
             ~ses[s].listed /\ ~ses[s].owned /\ ses[s].renew = "off" /\ ses[s].stop = "idle"
       /\ ses[s].start = "releasing" => ~ses[s].owned
       /\ ses[s].stop \in {"releasing", "unwinding"} => ~ses[s].owned
       /\ ses[s].renew = "drop" => ~(ses[s].owned /\ ses[s].listed)

\* Whoever knows the newest version knows the newest login state.
LoginInv ==
    /\ \A p \in Profiles : saved[p].version = 0 => saved[p].state = {}
    /\ \A s \in Sessions :
          /\ ses[s].version <= saved[Profile[s]].version
          /\ ses[s].version = saved[Profile[s]].version =>
                saved[Profile[s]].state \subseteq ses[s].state
          /\ ses[s].save = "scanned" => ses[s].next <= saved[Profile[s]].version + 1

\* Renewals are in time and no call fails.
Calm == Events \cap {"late", "fault"} = {}

\* The browser runs and its manager knows.
Driving(s) == ses[s].listed /\ ses[s].browser \in {"starting", "up", "ending"}

\* While all is calm, a browser is closed by a stop, under the lease.
CalmInv ==
    Calm => \A s \in Sessions :
       /\ ses[s].start \in {"idle", "loading", "leasing"} => ses[s].browser = "none"
       /\ ses[s].start = "launching" => ses[s].browser = "starting"
       /\ ses[s].start = "failing" => ses[s].browser = "down"
       /\ ses[s].stop \in {"closing", "draining"} /\ ses[s].browser # "down" => ses[s].listed
       /\ ses[s].browser = "ending" => ses[s].stop \in {"closing", "draining"}
       /\ Driving(s) => Holds(s) /\ ses[s].owned /\ ses[s].renew \in {"armed", "sent", "renewed"}

\* Without periodic checkpoints, no other save comes between the steps of one.
SaveInv ==
    Calm /\ MaxVersion = 0 => \A s \in Sessions :
       ses[s].save # "idle" => ses[s].browser = "ending" /\ SaveAccepts(s)

\* The inductive invariant.  Every release is sent after the manager has stopped counting
\* on the lease (activeProfileLeases); a session whose checkpointVersion is the newest
\* holds everything the newest checkpoint contains; and while all is calm a managed
\* browser is under its lease from before its launch until after its last save.
ManagerInv == ManagerTypeOK /\ OwnerInv /\ LoginInv /\ CalmInv /\ SaveInv

\* A late release by a previous owner, from stop, start, renewal or shutdown, never
\* takes the lease from a session that is managed and counts on it: only the passing
\* of its TTL does (RELEASE_SCRIPT compares the token).
ManagedLeaseHeld ==
    [][\A s \in Sessions :
         Holds(s) /\ ses[s].listed /\ ses'[s].listed /\ ses'[s].owned /\ ~Holds(s)' =>
            key'[Profile[s]] = NoSession /\ UNCHANGED ses]_managerVars

\* While renewals are in time and no call fails, two managed browsers, on one host or
\* two, never drive the same profile, whatever stops, expiries, shutdowns and crashes
\* hand it over (acquireProfileLease before session.start, release after session.stop).
ProfileExclusive ==
    Calm => \A s, q \in Sessions :
       Driving(s) /\ Driving(q) /\ Profile[s] = Profile[q] => s = q

\* Under the same conditions and without periodic checkpoints, the login state of a
\* profile never loses the work of a session that had saved it, although sessions read
\* the state before they have the lease (saveState with the expected version).
LoginNotRolledBack ==
    [][Calm /\ MaxVersion = 0 =>
         \A p \in Profiles : saved[p].state \subseteq saved'[p].state]_managerVars

\* The session has ended.
Retired(s) == ses[s].stop = "done" \/ ses[s].start \in {"failed", "rejected", "dead"}

\* Nothing renews the lease of a session that has ended, whichever of stop, start
\* failure, shutdown or crash ended it and whatever renewal was in flight: the profile
\* becomes free for good.
LeaseFreed == \A s \in Sessions : Retired(s) ~> [](~Holds(s))

\* A session whose lease is lost does not go on driving the profile (renewProfileLease
\* fails closed), however long its TTL, also when it is being started, stopped or shut
\* down at that moment.
LostLeaseStops ==
    \A s \in Sessions :
       ses[s].renew = "lost" /\ ses[s].owned ~> ses[s].browser = "down"

\* A session past its TTL is closed, whether the timer fires early or late and
\* whoever else stops it.
TtlEnforced ==
    (\A s \in Sessions : WF_managerVars(TtlPasses(s))) =>
       \A s \in Sessions : ses[s].start = "returned" ~> ses[s].browser = "down"

\* Whatever fails, a session ends and its profile becomes free.
SessionsEnd == LeaseFreed /\ LostLeaseStops /\ TtlEnforced
===============================================================================
