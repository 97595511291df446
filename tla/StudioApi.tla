------------------------------ MODULE StudioApi ------------------------------
(* The Studio REST server (handleRequest of src/api/server.ts) where its requests
   meet: profileSessionMap, the profiles with their trash and assigned extensions,
   and the sessions of the manager. A request runs up to an await, and others run
   in between. The manager and the stores are modelled by what the server uses. *)
EXTENDS Integers, FiniteSets

CONSTANTS ApiRequests, ApiProfiles, ApiExtensions,
          MaxApiSessions   \* bound: sessions ever started

VARIABLES request,    \* r -> [op, profile, ext, phase, sid, answer]
          stored,     \* profile -> [where, ext]: where it is, what it is assigned
          extensions, \* packages in the extension store
          sessionMap, \* profileSessionMap: profile -> session, 0 if none
          managed     \* session -> [profile, state] of the manager

apiVars == <<request, stored, extensions, sessionMap, managed>>

\* requiredRole of the operations modelled, and the rank roleAllows compares.
RequiredRole == [start |-> "operator", stop |-> "operator", delete |-> "owner", batchStart |-> "manager",
                 batchStop |-> "manager", batchDelete |-> "manager", restore |-> "manager", purge |-> "owner",
                 restoreBackup |-> "owner", deleteExtension |-> "owner", assign |-> "manager",
                 clone |-> "manager", scrape |-> "manager", use |-> "operator", sessions |-> "viewer", broadcast |-> "manager"]
Rank == [viewer |-> 0, operator |-> 1, manager |-> 2, owner |-> 3]

NoRequest == [op |-> "none", profile |-> "none", ext |-> {}, phase |-> "idle", sid |-> 0, answer |-> "none"]

ApiInit ==
    /\ request = [r \in ApiRequests |-> NoRequest]
    /\ stored \in [ApiProfiles -> {[where |-> "live", ext |-> {}], [where |-> "none", ext |-> {}]}]
    /\ extensions = ApiExtensions
    /\ sessionMap = [p \in ApiProfiles |-> 0]
    /\ managed = [s \in {} |-> {}]

Known(s) == s \in DOMAIN managed /\ managed[s].state \in {"ready", "closing"}
Sent(r, code) == [request EXCEPT ![r].phase = "done", ![r].answer = code]
At(r, phase) == request[r].phase = phase
Goes(r, phase) == request' = [request EXCEPT ![r].phase = phase]

-------------------------------------------------------------------------------
\* The first step of each operation after its body was read.
FirstPhase(op) ==
    CASE op = "start" -> "look" [] op \in {"stop", "batchStop", "delete"} -> "find"
      [] op = "batchStart" -> "exists" [] op \in {"batchDelete"} -> "trash"
      [] op \in {"restore", "purge"} -> op [] op = "restoreBackup" -> "halt"
      [] op = "deleteExtension" -> "inUse" [] op \in {"assign", "clone"} -> "validate"
      [] op = "scrape" -> "launch" [] op = "use" -> "use" [] op = "sessions" -> "list" [] op = "broadcast" -> "targets"

\* handleRequest: credentials, role and grant; the operation begins.
Accept(r, op, p, ext, role) ==
    /\ request[r].phase = "idle"
    /\ \/ /\ Rank[role] < Rank[RequiredRole[op]]
          /\ request' = Sent(r, "PERMISSION_DENIED")
       \/ /\ Rank[role] >= Rank[RequiredRole[op]]
          /\ request' = [request EXCEPT ![r] = [NoRequest EXCEPT !.op = op, !.profile = p, !.ext = ext,
                                                                !.phase = FirstPhase(op)]]
    /\ UNCHANGED <<stored, extensions, sessionMap, managed>>

-------------------------------------------------------------------------------
\* A bulk start looks the profile up first.
Exists(r) ==
    /\ At(r, "exists")
    /\ IF stored[request[r].profile].where # "live" THEN request' = Sent(r, "PROFILE_NOT_FOUND")
       ELSE Goes(r, "look")
    /\ UNCHANGED <<stored, extensions, sessionMap, managed>>

\* The session the map names answers for the profile if the manager has it; an
\* entry it does not know is dropped.
Look(r) ==
    /\ At(r, "look")
    /\ LET p == request[r].profile IN
       IF sessionMap[p] # 0 /\ Known(sessionMap[p])
       THEN request' = [Sent(r, "ALREADY_RUNNING") EXCEPT ![r].sid = sessionMap[p]] /\ UNCHANGED sessionMap
       ELSE Goes(r, "launch") /\ sessionMap' = [sessionMap EXCEPT ![p] = 0]
    /\ UNCHANGED <<stored, extensions, managed>>

\* manager.start: it refuses a profile that is gone, in use, or assigned an
\* extension the store does not have, and reserves the profile while it launches.
Launch(r) ==
    /\ At(r, "launch")
    /\ LET p == request[r].profile
           busy == \E s \in DOMAIN managed : managed[s].profile = p /\ managed[s].state # "gone"
           s == Cardinality(DOMAIN managed) + 1 IN
       IF p # "none" /\ (stored[p].where # "live" \/ busy \/ ~(stored[p].ext \subseteq extensions))
       THEN request' = Sent(r, "START_FAILED") /\ UNCHANGED managed
       ELSE /\ s <= MaxApiSessions
            /\ managed' = [x \in 1..s |-> IF x = s THEN [profile |-> p, state |-> "launching"] ELSE managed[x]]
            /\ request' = [request EXCEPT ![r].phase = "launching", ![r].sid = s]
    /\ UNCHANGED <<stored, extensions, sessionMap>>

\* The browser is up and the map names it, or the start failed. A scrape keeps
\* its session, which has no profile, to itself.
Launched(r) ==
    /\ At(r, "launching")
    /\ \/ /\ managed' = [managed EXCEPT ![request[r].sid].state = "ready"]
          /\ IF request[r].op = "scrape" THEN Goes(r, "read") /\ UNCHANGED sessionMap
             ELSE /\ sessionMap' = [sessionMap EXCEPT ![request[r].profile] = request[r].sid]
                  /\ request' = Sent(r, "OK")
       \/ /\ managed' = [managed EXCEPT ![request[r].sid].state = "gone"]
          /\ request' = Sent(r, "START_FAILED") /\ UNCHANGED sessionMap
    /\ UNCHANGED <<stored, extensions>>

\* A session ends by itself: its time is up or its browser is gone.
SessionEnds ==
    /\ \E s \in DOMAIN managed : managed[s].state = "ready" /\ managed' = [managed EXCEPT ![s].state = "gone"]
    /\ UNCHANGED <<request, stored, extensions, sessionMap>>

\* A scrape opens and reads the page; a failure to open it is ignored, one to
\* read it stops the session too.
ReadPage(r) ==
    /\ At(r, "read")
    /\ Goes(r, "end") \/ Goes(r, "failed")
    /\ UNCHANGED <<stored, extensions, sessionMap, managed>>

\* The scrape's session is stopped and the page, or the error, is answered.
EndScrape(r) ==
    /\ request[r].phase \in {"end", "failed"}
    /\ managed' = [managed EXCEPT ![request[r].sid].state = "gone"]
    /\ request' = Sent(r, IF At(r, "end") THEN "OK" ELSE "READ_FAILED")
    /\ UNCHANGED <<stored, extensions, sessionMap>>

\* A request to a session: navigate, view, interact, resume, diagnose.
Use(r) ==
    /\ At(r, "use")
    /\ \E s \in 1..MaxApiSessions : request' = Sent(r, IF Known(s) THEN "OK" ELSE "SESSION_NOT_FOUND")
    /\ UNCHANGED <<stored, extensions, sessionMap, managed>>

-------------------------------------------------------------------------------
\* What follows when the profile has no session, or none any more.
AfterStop(r) == IF request[r].op = "delete" THEN "trash" ELSE "answer"

\* Mutant: the stop is sent and not waited for.
FindNoWait(r) ==
    /\ At(r, "find")
    /\ LET s == sessionMap[request[r].profile] IN
       /\ request' = [request EXCEPT ![r].phase = AfterStop(r), ![r].sid = s]
       /\ managed' = IF s # 0 /\ managed[s].state = "ready" THEN [managed EXCEPT ![s].state = "closing"] ELSE managed
    /\ UNCHANGED <<stored, extensions, sessionMap>>

\* stop, and the first half of delete: the session of the map is stopped.
Find(r) ==
    /\ At(r, "find")
    /\ LET s == sessionMap[request[r].profile] IN
       IF s = 0 THEN Goes(r, AfterStop(r)) /\ UNCHANGED managed
       ELSE /\ request' = [request EXCEPT ![r].phase = "stopping", ![r].sid = s]
            /\ managed' = IF managed[s].state = "ready" THEN [managed EXCEPT ![s].state = "closing"] ELSE managed
    /\ UNCHANGED <<stored, extensions, sessionMap>>

\* manager.stop settles: the session is forgotten whether or not it closed
\* cleanly; a failure is answered, and ignored by a deletion.
Stopped(r) ==
    /\ At(r, "stopping")
    /\ managed' = [managed EXCEPT ![request[r].sid].state = "gone"]
    /\ \/ Goes(r, "stopped")
       \/ request' = IF request[r].op = "delete" THEN [request EXCEPT ![r].phase = "stopped"]
                     ELSE Sent(r, "STOP_FAILED")
    /\ UNCHANGED <<stored, extensions, sessionMap>>

\* The rest of stop, after its await: whatever the map names now is dropped.
Dropped(r) ==
    /\ At(r, "stopped")
    /\ sessionMap' = [sessionMap EXCEPT ![request[r].profile] = 0]
    /\ Goes(r, AfterStop(r))
    /\ UNCHANGED <<stored, extensions, managed>>

Answer(r) ==
    /\ At(r, "answer") /\ request' = Sent(r, "OK")
    /\ sessionMap' = IF request[r].op = "batchStop" THEN [sessionMap EXCEPT ![request[r].profile] = 0] ELSE sessionMap
    /\ UNCHANGED <<stored, extensions, managed>>

\* deleteProfile moves the directory to the trash.
Trash(r) ==
    /\ At(r, "trash")
    /\ stored' = IF stored[request[r].profile].where = "live"
                 THEN [stored EXCEPT ![request[r].profile].where = "trash"] ELSE stored
    /\ request' = Sent(r, "OK")
    /\ UNCHANGED <<extensions, sessionMap, managed>>

\* restoreProfile and purgeDeletedProfile.
FromTrash(r) ==
    /\ request[r].phase \in {"restore", "purge"}
    /\ IF stored[request[r].profile].where # "trash" THEN request' = Sent(r, "NOT_FOUND") /\ UNCHANGED stored
       ELSE /\ request' = Sent(r, "OK")
            /\ stored' = [stored EXCEPT ![request[r].profile] = IF At(r, "restore") THEN [@ EXCEPT !.where = "live"]
                                                               ELSE [where |-> "none", ext |-> {}]]
    /\ UNCHANGED <<extensions, sessionMap, managed>>

-------------------------------------------------------------------------------
Active(p) == {s \in DOMAIN managed : managed[s].profile = p /\ managed[s].state \in {"ready", "closing"}}

\* Restoring a backup: stopProfileSessions ends every session the manager has on
\* the profile, the map forgets it, then the files are replaced.
Halt(r) ==
    /\ At(r, "halt")
    /\ LET p == request[r].profile IN
       IF stored[p].where # "live" THEN request' = Sent(r, "PROFILE_NOT_FOUND") /\ UNCHANGED <<managed, sessionMap>>
       ELSE IF \E s \in Active(p) : managed[s].state = "ready"
       THEN /\ managed' = [s \in DOMAIN managed |-> IF s \in Active(p) THEN [managed[s] EXCEPT !.state = "closing"]
                                                     ELSE managed[s]]
            /\ UNCHANGED <<request, sessionMap>>
       ELSE /\ managed' = [s \in DOMAIN managed |-> IF s \in Active(p) THEN [managed[s] EXCEPT !.state = "gone"]
                                                     ELSE managed[s]]
            /\ sessionMap' = [sessionMap EXCEPT ![p] = 0] /\ Goes(r, "copy")
    /\ UNCHANGED <<stored, extensions>>

Copied(r) ==
    /\ At(r, "copy") /\ request' \in {Sent(r, "OK"), Sent(r, "BACKUP_NOT_FOUND")}
    /\ UNCHANGED <<stored, extensions, sessionMap, managed>>

\* Deleting an extension: the profiles are listed, then the package is deleted.
InUse(r) ==
    /\ At(r, "inUse")
    /\ IF \E p \in ApiProfiles : stored[p].where = "live" /\ request[r].ext \cap stored[p].ext # {}
       THEN request' = Sent(r, "EXTENSION_IN_USE") ELSE Goes(r, "remove")
    /\ UNCHANGED <<stored, extensions, sessionMap, managed>>

RemoveExtension(r) ==
    /\ At(r, "remove")
    /\ extensions' = extensions \ request[r].ext /\ request' = Sent(r, "OK")
    /\ UNCHANGED <<stored, sessionMap, managed>>

\* validateExtensionIds, before a profile is written or cloned.
Validate(r) ==
    /\ At(r, "validate")
    /\ IF ~(request[r].ext \subseteq extensions) THEN request' = Sent(r, "EXTENSION_NOT_FOUND") ELSE Goes(r, "write")
    /\ UNCHANGED <<stored, extensions, sessionMap, managed>>

Write(r) ==
    /\ At(r, "write")
    /\ LET p == request[r].profile IN
       IF (stored[p].where = "live") = (request[r].op = "clone")
       THEN request' = Sent(r, "PROFILE_NOT_FOUND") /\ UNCHANGED stored
       ELSE /\ stored' = [stored EXCEPT ![p] = [where |-> "live", ext |-> request[r].ext]]
            /\ request' = Sent(r, "OK")
    /\ UNCHANGED <<extensions, sessionMap, managed>>

\* The list of sessions drops the entries the manager does not know.
ListManaged(r) ==
    /\ At(r, "list")
    /\ sessionMap' = [p \in ApiProfiles |-> IF sessionMap[p] # 0 /\ Known(sessionMap[p]) THEN sessionMap[p] ELSE 0]
    /\ request' = Sent(r, "OK")
    /\ UNCHANGED <<stored, extensions, managed>>

\* The broadcast answers a request without targets and goes on.
Targets(r) ==
    /\ At(r, "targets")
    /\ request' \in {[request EXCEPT ![r].phase = "cast", ![r].answer = "INVALID_INPUT"],
                     [request EXCEPT ![r].phase = "cast"]}
    /\ UNCHANGED <<stored, extensions, sessionMap, managed>>

Cast(r) ==
    /\ At(r, "cast") /\ request' = Sent(r, "OK")
    /\ UNCHANGED <<stored, extensions, sessionMap, managed>>

ApiNext ==
    \/ \E r \in ApiRequests, op \in {"start", "stop", "delete", "batchStart", "batchStop", "batchDelete", "restore", "purge",
                                     "restoreBackup"}, p \in ApiProfiles : Accept(r, op, p, {}, "owner")
    \/ \E r \in ApiRequests, op \in {"assign", "clone"}, p \in ApiProfiles : Accept(r, op, p, ApiExtensions, "manager")
    \/ \E r \in ApiRequests, op \in {"deleteExtension", "sessions"} : Accept(r, op, "none", ApiExtensions, "operator")
    \/ \E r \in ApiRequests, op \in {"deleteExtension", "broadcast", "scrape", "use"} :
          Accept(r, op, "none", IF op = "deleteExtension" THEN ApiExtensions ELSE {}, "owner")
    \/ \E r \in ApiRequests : \/ Exists(r) \/ Look(r) \/ Launch(r) \/ Launched(r) \/ ReadPage(r) \/ EndScrape(r) \/ Use(r)
                              \/ Find(r) \/ Stopped(r) \/ Dropped(r) \/ Answer(r) \/ Trash(r) \/ FromTrash(r)
                              \/ Halt(r) \/ Copied(r) \/ InUse(r) \/ RemoveExtension(r) \/ Validate(r) \/ Write(r)
                              \/ ListManaged(r) \/ Targets(r) \/ Cast(r)
    \/ SessionEnds

ApiSpec == ApiInit /\ [][ApiNext]_apiVars

-------------------------------------------------------------------------------
\* A start that answers ALREADY_RUNNING names a session the manager has, on that
\* profile, however the map's entry came about and whatever ended it.
RunningIsTrue ==
    \A r \in ApiRequests :
       request'[r].answer = "ALREADY_RUNNING" /\ request[r].answer # "ALREADY_RUNNING"
       => Known(request'[r].sid) /\ managed[request'[r].sid].profile = request'[r].profile

\* Before a profile goes to the trash by a request of its own, the session the
\* map named is gone, even if its stop failed; before files are replaced from a
\* backup, every session the manager had on the profile is.
StopsBeforeData ==
    \A r \in ApiRequests :
       /\ request[r].op \in {"delete", "restoreBackup"}
       /\ request'[r].phase \in {"trash", "copy"} /\ request[r].phase # request'[r].phase
       => \A s \in DOMAIN managed :
             /\ managed[s].profile = request[r].profile
             /\ request[r].op = "delete" => s = request'[r].sid
             => managed'[s].state \notin {"ready", "closing"}

\* A scrape that was answered has left no browser behind, whether its page opened,
\* could be read, or neither.
ScrapeLeavesNone ==
    \A r \in ApiRequests : request[r].op = "scrape" /\ At(r, "done") /\ request[r].sid # 0
                           => managed[request[r].sid].state = "gone"

\* The server's map of running profiles is true enough to act on: what it answers
\* from it, what it stops before it touches data, and what a scrape leaves.
SessionMapSound == [][RunningIsTrue /\ StopsBeforeData /\ ScrapeLeavesNone']_apiVars
===============================================================================
