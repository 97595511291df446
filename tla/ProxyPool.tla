------------------------------ MODULE ProxyPool -------------------------------
(* One record of the proxy pool (src/proxy/pool-store.ts) and the checks of it
   (src/proxy/checker.ts).  A check reads the record, talks to the proxy and the
   egress service through one socket, and writes the record back as it read it
   with the new health; checks, updates and deletions overlap. *)
EXTENDS Integers, Sequences, FiniteSets

CONSTANTS Checks,          \* checks that may be under way at the same time
          Servers,
          FailThreshold, BaseCooldown, MaxCooldown,
          MaxResults,      \* bound: results written, and
          MaxOverlapped,   \* once a check was overlapped
          MaxEdits,        \* bound: updates and deletions
          MaxProxyTime     \* bound: clock

\* The threshold and the cooldowns of pool-store.ts, which doubles from the base
\* up to the cap.
ASSUME CooldownsOrdered ==
    /\ FailThreshold \in Nat \ {0}
    /\ BaseCooldown \in Nat /\ MaxCooldown \in Nat /\ BaseCooldown <= MaxCooldown

VARIABLES record,      \* the record in memory, or NoRecord
          check,       \* check -> [phase, seen, socket, connected, answer]
          edits, written, proxyTime,
          results,     \* history: [ok, at] of the results at the server, until an overlap
          overlap      \* history: a check was overlapped by another writer

proxyVars == <<record, check, edits, written, proxyTime, results, overlap>>

NoRecord == [exists |-> FALSE]
Created(server) == [exists |-> TRUE, server |-> server, enabled |-> TRUE, last |-> "none",
                    checkedAt |-> "none", failures |-> 0, successes |-> 0, quarantine |-> 0]
IdleCheck == [phase |-> "idle", seen |-> NoRecord, socket |-> "none", connected |-> FALSE]
UnderWay == {k \in Checks : check[k].phase # "idle"}

ProxyInit ==
    /\ \E s \in Servers : record = Created(s)
    /\ check = [k \in Checks |-> IdleCheck] /\ edits = 0 /\ written = 0 /\ proxyTime = 1
    /\ results = << >> /\ overlap = FALSE

-------------------------------------------------------------------------------
\* update: health stays unless the connection changes.
UpdateProxy(server, enabled) ==
    /\ record.exists /\ edits < MaxEdits /\ edits' = edits + 1
    /\ record' = IF server = record.server THEN [record EXCEPT !.enabled = enabled]
                 ELSE [Created(server) EXCEPT !.enabled = enabled]
    /\ overlap' = (overlap \/ UnderWay # {})
    /\ results' = IF server = record.server THEN results ELSE << >>
    /\ UNCHANGED <<check, written, proxyTime>>

Delete ==
    /\ record.exists /\ edits < MaxEdits /\ edits' = edits + 1
    /\ record' = NoRecord /\ overlap' = (overlap \/ UnderWay # {})
    /\ UNCHANGED <<check, written, proxyTime, results>>

\* check reads the record; the socket of checkProxy connects next.
CheckBegins(k) ==
    /\ check[k].phase = "idle" /\ record.exists
    /\ written < (IF overlap \/ UnderWay # {} THEN MaxOverlapped ELSE MaxResults)
    /\ check' = [check EXCEPT ![k] = [IdleCheck EXCEPT !.phase = "tcp", !.seen = record]]
    /\ overlap' = (overlap \/ UnderWay # {})
    /\ UNCHANGED <<record, edits, written, proxyTime, results>>

\* connectTcp: connected, or refused and timed out; the socket is destroyed then.
Connects(k) ==
    /\ check[k].phase = "tcp"
    /\ \/ check' = [check EXCEPT ![k].phase = "tunnel", ![k].socket = "open", ![k].connected = TRUE]
       \/ check' = [check EXCEPT ![k].phase = "finally"]
    /\ UNCHANGED <<record, edits, written, proxyTime, results, overlap>>

NextPhase == [tunnel |-> "tls", tls |-> "request", request |-> "finally"]

\* openProxyTunnel, upgradeTls and the request: each step is answered, refused,
\* cut off or times out.
Proceeds(k) ==
    /\ check[k].phase \in {"tunnel", "tls", "request"}
    /\ \/ check' = [check EXCEPT ![k].phase = NextPhase[check[k].phase]]
       \/ check' = [check EXCEPT ![k].phase = "finally",
                                 ![k].socket = IF check[k].phase = "tunnel" THEN "closed" ELSE check[k].socket]
    /\ UNCHANGED <<record, edits, written, proxyTime, results, overlap>>

\* The finally of checkProxy.
Closes(k) ==
    /\ check[k].phase = "finally"
    /\ check' = [check EXCEPT ![k].phase = "write",
                              ![k].socket = IF check[k].socket = "open" THEN "closed" ELSE check[k].socket]
    /\ UNCHANGED <<record, edits, written, proxyTime, results, overlap>>

Cooldown(failures) ==
    LET wait == BaseCooldown * (2 ^ (failures - FailThreshold)) IN
    IF wait < MaxCooldown THEN wait ELSE MaxCooldown

\* The counters of check: two successes after the cooldown end a quarantine,
\* FailThreshold failures in a row begin or extend one.
Health(r, ok) ==
    IF ok
    THEN IF r.quarantine # 0 /\ proxyTime < r.quarantine
         THEN [r EXCEPT !.failures = 0, !.successes = 0]
         ELSE [r EXCEPT !.failures = 0, !.successes = r.successes + 1,
                        !.quarantine = IF r.successes >= 1 THEN 0 ELSE r.quarantine]
    ELSE LET failures == r.failures + 1 IN
         [r EXCEPT !.failures = failures, !.successes = 0,
                   !.quarantine = IF failures >= FailThreshold THEN proxyTime + Cooldown(failures)
                                                               ELSE r.quarantine]

\* Mutant: the health is merged into the record as it is now.
WrittenMerged(k) ==
    LET h == Health(check[k].seen, check[k].connected) IN
    IF ~record.exists THEN record
    ELSE [record EXCEPT !.last = IF check[k].connected THEN "ok" ELSE "bad",
                        !.checkedAt = check[k].seen.server, !.failures = h.failures,
                        !.successes = h.successes, !.quarantine = h.quarantine]

\* The record check writes: the one it read, with the new health.  A proxy that
\* accepted the connection counts as working.
Written(k) ==
    [Health(check[k].seen, check[k].connected)
        EXCEPT !.last = IF check[k].connected THEN "ok" ELSE "bad", !.checkedAt = check[k].seen.server]

CheckEnds(k) ==
    /\ check[k].phase = "write"
    /\ record' = Written(k)
    /\ written' = written + 1
    /\ results' = IF overlap THEN << >>
                  ELSE Append(results, [ok |-> check[k].connected, at |-> proxyTime])
    /\ check' = [check EXCEPT ![k] = IF check[k].socket = "open" THEN [IdleCheck EXCEPT !.socket = "open"] ELSE IdleCheck]
    /\ UNCHANGED <<edits, proxyTime, overlap>>

ProxyTick ==
    /\ proxyTime < MaxProxyTime /\ proxyTime' = proxyTime + 1
    /\ UNCHANGED <<record, check, edits, written, results, overlap>>

ProxyNext ==
    \/ \E s \in Servers, e \in BOOLEAN : UpdateProxy(s, e)
    \/ Delete \/ ProxyTick
    \/ \E k \in Checks : CheckBegins(k) \/ Connects(k) \/ Proceeds(k) \/ Closes(k) \/ CheckEnds(k)

ProxySpec == ProxyInit /\ [][ProxyNext]_proxyVars

-------------------------------------------------------------------------------
\* next: what it may hand out.
Offered == record.exists /\ record.enabled /\ record.last = "ok" /\ record.quarantine = 0

\* A proxy that is handed out was found working at the server it has now: an
\* update racing a check never leaves the old server's health on the new one.
OfferedWasChecked == Offered => record.checkedAt = record.server

\* As long as checks of the proxy do not overlap other writers, FailThreshold
\* failures in a row keep it from being handed out until the cooldown is over
\* and two checks in a row succeeded after it.
QuarantineServed ==
    ~overlap /\ Offered =>
       \A i \in DOMAIN results :
          (i >= FailThreshold /\ \A j \in (i - FailThreshold + 1)..i : ~results[j].ok)
             => \E j \in (i + 1)..(Len(results) - 1) :
                   /\ results[j].ok /\ results[j + 1].ok
                   /\ results[j].at >= results[i].at + BaseCooldown

\* A check that is over has closed its socket, wherever it failed.
SocketsClosed == \A k \in Checks : check[k].phase \in {"idle", "write"} => check[k].socket # "open"

\* What the pool says of a proxy was found out about that proxy: it is offered
\* as healthy only after a check, sits out its quarantine, and the socket of a
\* check is closed (recordHealth of pool-store.ts, checkProxy of checker.ts).
ChecksHold == OfferedWasChecked /\ QuarantineServed /\ SocketsClosed
===============================================================================
