----------------------------- MODULE AccountHealth -----------------------------
(* The health record of one browser account: its state machine
   (src/account/account-health.ts), the file store with its per-profile queue
   (src/account/account-health-store.ts) and the callers in session-manager.ts:
   the start of a session, challenge detections, lost leases and the operator.
   A mutation is a read and a write with other work in between; the queue runs
   one at a time. *)
EXTENDS Integers, Sequences, FiniteSets

CONSTANTS Starts,          \* session starts of the account
          BaseRetryDelay, MaxRetryDelay,
          MaxMutations,    \* bound: mutations submitted
          MaxHealthTime    \* bound: clock

\* The two delays of the configuration are counts of milliseconds.
ASSUME RetryDelays == BaseRetryDelay \in Nat /\ MaxRetryDelay \in Nat

VARIABLES health,     \* the file: [state, failures, retryAt] or NoHealth
          mutations,  \* the queue of runExclusive; [by, to, next]
          starts,     \* start -> [phase, first]
          submitted, healthTime,
          failed      \* failures recorded since the last recovery

healthVars == <<health, mutations, starts, submitted, healthTime, failed>>

\* retryAt 0 stands for null.
NoHealth == [state |-> "NONE", failures |-> 0, retryAt |-> 0]
Healthy == [state |-> "HEALTHY", failures |-> 0, retryAt |-> 0]
Failing == {"LOGIN_EXPIRED", "CHALLENGE_REQUIRED", "PROXY_UNHEALTHY"}
Blocked == {"QUARANTINED", "DISABLED"}

HealthInit ==
    /\ health = NoHealth /\ mutations = << >>
    /\ starts = [s \in Starts |-> [phase |-> "new", first |-> FALSE]]
    /\ submitted = 0 /\ healthTime = 1 /\ failed = 0

-------------------------------------------------------------------------------
(* AccountHealth: transitions *)

\* VALID_TRANSITIONS.
ValidTransition(from, to) ==
    CASE from = "DISABLED" -> to = "HEALTHY"
      [] from = "QUARANTINED" -> to \in {"HEALTHY", "DISABLED"}
      [] OTHER -> to # from

\* recordBackoff: doubled with every failure, up to a cap.
Backoff(n) ==
    LET exponent == IF n - 1 < 30 THEN n - 1 ELSE 30
        delay == BaseRetryDelay * 2^exponent IN
    IF delay < MaxRetryDelay THEN delay ELSE MaxRetryDelay

Recorded(h, to) ==
    [state |-> to, failures |-> h.failures + 1, retryAt |-> healthTime + Backoff(h.failures + 1)]

\* Mutant: a blocked account keeps the retry time it had.
TransitionKeepsRetry(h, to) ==
    CASE to \in Failing /\ (h.state = to \/ ValidTransition(h.state, to)) -> Recorded(h, to)
      [] to = h.state /\ to \notin Failing -> h
      [] to = "HEALTHY" /\ to # h.state -> Healthy
      [] to \in Blocked /\ ValidTransition(h.state, to) -> [h EXCEPT !.state = to]
      [] OTHER -> NoHealth

\* applyTransition: a failure counts even when the state stays the same;
\* NoHealth when the transition is invalid and the call throws.
Transition(h, to) ==
    CASE to \in Failing /\ (h.state = to \/ ValidTransition(h.state, to)) -> Recorded(h, to)
      [] to = h.state /\ to \notin Failing -> h
      [] to = "HEALTHY" /\ to # h.state -> Healthy
      [] to \in Blocked /\ ValidTransition(h.state, to) -> [h EXCEPT !.state = to, !.retryAt = 0]
      [] OTHER -> NoHealth

\* isRetryEligible.
RetryEligible(h) ==
    CASE h.state \in {"NONE", "HEALTHY"} -> TRUE
      [] h.state \in Blocked -> FALSE
      [] OTHER -> h.retryAt = 0 \/ healthTime >= h.retryAt

-------------------------------------------------------------------------------
(* The callers' update functions *)

\* The missing record of a new account counts as HEALTHY.
Loaded == IF health = NoHealth THEN Healthy ELSE health

\* setHealth of a first start, onChallengeStateChange, a lost lease,
\* updateAccountHealth.
Updated(op) ==
    CASE op.by = "start" -> Healthy
      [] op.by = "challenge" -> IF Loaded.state \in Blocked THEN Loaded ELSE Transition(Loaded, op.to)
      [] op.by = "lease" -> IF Loaded.state = "DISABLED" THEN Loaded ELSE Transition(Loaded, op.to)
      [] op.by = "operator" -> Transition(Loaded, op.to)

Submit(by, to) ==
    /\ submitted < MaxMutations /\ submitted' = submitted + 1
    /\ mutations' = Append(mutations, [by |-> by, to |-> to, next |-> NoHealth])

\* The start reads the record first and is refused or goes on to launch.
StartReads(s) ==
    /\ starts[s].phase = "new"
    /\ starts' = [starts EXCEPT ![s] = [phase |-> IF RetryEligible(health) THEN "launching" ELSE "refused",
                                        first |-> health = NoHealth]]
    /\ UNCHANGED <<health, mutations, submitted, healthTime, failed>>

\* The browser is up; only a start that found no record writes one.
StartEnds(s) ==
    /\ starts[s].phase = "launching"
    /\ starts' = [starts EXCEPT ![s].phase = "up"]
    /\ IF starts[s].first THEN Submit("start", "HEALTHY")
                          ELSE UNCHANGED <<mutations, submitted>>
    /\ UNCHANGED <<health, healthTime, failed>>

HealthReports(s) ==
    /\ starts[s].phase \in {"launching", "up"}
    /\ \E to \in {"CHALLENGE_REQUIRED", "HEALTHY"} : Submit("challenge", to)
    /\ UNCHANGED <<health, starts, healthTime, failed>>

LosesLease(s) ==
    /\ starts[s].phase \in {"launching", "up"}
    /\ starts' = [starts EXCEPT ![s].phase = "stopped"]
    /\ Submit("lease", "QUARANTINED")
    /\ UNCHANGED <<health, healthTime, failed>>

OperatorUpdates ==
    /\ \E to \in {"HEALTHY", "LOGIN_EXPIRED", "QUARANTINED", "DISABLED"} :
          Submit("operator", to)
    /\ UNCHANGED <<health, starts, healthTime, failed>>

-------------------------------------------------------------------------------
(* runExclusive *)

\* The gate of the previous mutation has been released.
MayRun(k) == k = 1

Done(k) == SubSeq(mutations, 1, k - 1) \o SubSeq(mutations, k + 1, Len(mutations))

\* A mutation reads the file and computes the next snapshot; an invalid
\* transition throws and the queue goes on.
MutationReads(k) ==
    /\ k \in DOMAIN mutations /\ MayRun(k) /\ mutations[k].next = NoHealth
    /\ LET next == Updated(mutations[k]) IN
       mutations' = IF next = NoHealth THEN Done(k) ELSE [mutations EXCEPT ![k].next = next]
    /\ UNCHANGED <<health, starts, submitted, healthTime, failed>>

\* The write; with "lost" the file system fails and the old record stays.
MutationWrites(k, lost) ==
    /\ k \in DOMAIN mutations /\ mutations[k].next # NoHealth
    /\ LET next == mutations[k].next IN
       /\ health' = IF lost THEN health ELSE next
       /\ failed' = IF lost THEN failed
                    ELSE IF next.state = "HEALTHY" THEN 0
                    ELSE IF next.state = mutations[k].to /\ next.state \in Failing THEN failed + 1
                    ELSE failed
    /\ mutations' = Done(k)
    /\ UNCHANGED <<starts, submitted, healthTime>>

HealthTick ==
    /\ healthTime < MaxHealthTime /\ healthTime' = healthTime + 1
    /\ UNCHANGED <<health, mutations, starts, submitted, failed>>

HealthNext ==
    \/ \E s \in Starts : StartReads(s) \/ StartEnds(s) \/ HealthReports(s) \/ LosesLease(s)
    \/ OperatorUpdates \/ HealthTick
    \/ \E k \in 1..MaxMutations : MutationReads(k) \/ \E lost \in BOOLEAN : MutationWrites(k, lost)

HealthSpec == HealthInit /\ [][HealthNext]_healthVars

-------------------------------------------------------------------------------
\* The record satisfies what the constructor of AccountHealth demands when it is
\* read again (else the account could never be started or updated any more),
\* and no failure is lost: however challenges, lost leases, starts and operator
\* calls overlap, failureCount is the number of failures written since the
\* account was last healthy, and the wait before a retry is within its cap.
HealthRecordExact ==
    /\ health.state = "HEALTHY" => health.failures = 0 /\ health.retryAt = 0
    /\ health.state \in Blocked => health.retryAt = 0
    /\ health.failures = failed
    /\ health.state \in Failing => health.retryAt <= healthTime + MaxRetryDelay

\* An account that was disabled stays disabled until an operator recovers it.
\* The exception is the first start of an account: it read that there was no
\* record, and when the browser is up it writes a healthy one over whatever an
\* operator has written meanwhile.
DisabledSticks ==
    health.state = "DISABLED" /\ health'.state # "DISABLED" =>
      \E k \in DOMAIN mutations : /\ mutations' = Done(k)
                                  /\ mutations[k].by \in {"operator", "start"}

\* No overlap of challenges, lost leases, starts and operator calls corrupts the
\* health record or re-enables a disabled account (AccountHealthStore.mutate).
HealthKept == [][HealthRecordExact' /\ DisabledSticks]_healthVars
===============================================================================
