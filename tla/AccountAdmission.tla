--------------------------- MODULE AccountAdmission ---------------------------
(* The admission controller a worker asks before it runs a task
   (src/operations/account-admission.ts, executeTask of worker-daemon.ts): a
   token bucket per tenant and four concurrency limits.  Calls are synchronous;
   executions overlap.  A tick is the time in which one token is refilled. *)
EXTENDS Integers, Sequences, FiniteSets, SequencesExt

CONSTANTS Requests,          \* [tenant, account, domain, proxy]
          LimitOf,           \* dimension -> concurrency limit
          Burst, MaxBuckets,
          MaxPermits,        \* bound: permits given out
          MaxTicks           \* bound: clock

VARIABLES inUse,      \* dimension -> key -> count
          buckets,     \* tenantBuckets in insertion order: [tenant, tokens, last]
          permits,     \* activePermits: token -> request
          given,       \* tokens given out
          ticks,
          admittedAt   \* tenant -> times of its admissions since its bucket was made

admissionVars == <<inUse, buckets, permits, given, ticks, admittedAt>>

Dimensions == {"tenant", "account", "domain", "proxy"}
Tenants == {r.tenant : r \in Requests}

\* What the constructor demands of its limits; the burst in whole tokens.
ASSUME PositiveLimits ==
    Burst \in Nat \ {0} /\ MaxBuckets \in Nat \ {0} /\ \A dim \in Dimensions : LimitOf[dim] \in Nat \ {0}

\* An account is counted per tenant, a domain and a proxy across tenants.
KeyOf(r, dim) == IF dim = "account" THEN <<r.tenant, r.account>> ELSE <<r[dim]>>
KeysOf(dim) == {KeyOf(r, dim) : r \in Requests}

AdmissionInit ==
    /\ inUse = [dim \in Dimensions |-> [k \in KeysOf(dim) |-> 0]]
    /\ buckets = << >> /\ permits = << >> /\ given = 0 /\ ticks = 0
    /\ admittedAt = [t \in Tenants |-> << >>]

-------------------------------------------------------------------------------
Has(bs, t) == \E k \in DOMAIN bs : bs[k].tenant = t
BucketOf(bs, t) == bs[CHOOSE k \in DOMAIN bs : bs[k].tenant = t]

\* Mutant: the oldest bucket goes, in use or not.
EvictableAny == DOMAIN buckets

\* Buckets of tenants that have nothing running.
Evictable == {k \in DOMAIN buckets : inUse["tenant"][<<buckets[k].tenant>>] = 0}

\* A new tenant takes the place of the first idle one when the table is full.
AfterEviction(t) ==
    IF Has(buckets, t) \/ Len(buckets) < MaxBuckets \/ Evictable = {} THEN buckets
    ELSE RemoveAt(buckets, CHOOSE k \in Evictable : \A i \in Evictable : k <= i)

Refill(bs, t) ==
    IF ~Has(bs, t) THEN Burst
    ELSE LET full == BucketOf(bs, t).tokens + (ticks - BucketOf(bs, t).last) IN
         IF full < Burst THEN full ELSE Burst

\* Map.set keeps the place of a key it knows.
SetBucket(bs, t, tokens) ==
    LET entry == [tenant |-> t, tokens |-> tokens, last |-> ticks] IN
    IF Has(bs, t) THEN [k \in DOMAIN bs |-> IF bs[k].tenant = t THEN entry ELSE bs[k]]
    ELSE Append(bs, entry)

AtLimit(r) == \E dim \in Dimensions : inUse[dim][KeyOf(r, dim)] >= LimitOf[dim]

\* An eviction ends the record of admissions of the tenants that lose a bucket.
LogOf(bs) == [t \in Tenants |-> IF Has(bs, t) THEN admittedAt[t] ELSE << >>]

\* acquire.
Acquire(r) ==
    LET bs == AfterEviction(r.tenant)
        tokens == Refill(bs, r.tenant) IN
    IF ~Has(bs, r.tenant) /\ Len(bs) >= MaxBuckets       \* BUCKET_CAPACITY_EXHAUSTED
    THEN buckets' = bs /\ UNCHANGED <<inUse, permits, given, ticks, admittedAt>>
    ELSE IF tokens < 1 \/ AtLimit(r)                     \* rejected, the refill is kept
    THEN /\ buckets' = SetBucket(bs, r.tenant, tokens)
         /\ admittedAt' = LogOf(bs)
         /\ UNCHANGED <<inUse, permits, given, ticks>>
    ELSE /\ given < MaxPermits /\ given' = given + 1
         /\ buckets' = SetBucket(bs, r.tenant, tokens - 1)
         /\ inUse' = [dim \in Dimensions |-> [inUse[dim] EXCEPT ![KeyOf(r, dim)] = @ + 1]]
         /\ permits' = [p \in DOMAIN permits \cup {given + 1} |->
                          IF p = given + 1 THEN r ELSE permits[p]]
         /\ admittedAt' = [LogOf(bs) EXCEPT ![r.tenant] = Append(@, ticks)]
         /\ UNCHANGED ticks

GivenBack(r) == [dim \in Dimensions |-> [inUse[dim] EXCEPT ![KeyOf(r, dim)] = @ - 1]]

\* release, in the finally of executeTask; a token released before is ignored.
Release(p) ==
    /\ p \in DOMAIN permits
    /\ inUse' = GivenBack(permits[p])
    /\ permits' = [q \in DOMAIN permits \ {p} |-> permits[q]]
    /\ UNCHANGED <<buckets, given, ticks, admittedAt>>

AdmissionTick ==
    /\ ticks < MaxTicks /\ ticks' = ticks + 1
    /\ UNCHANGED <<inUse, buckets, permits, given, admittedAt>>

AdmissionNext ==
    \/ \E r \in Requests : Acquire(r)
    \/ \E p \in 1..MaxPermits : Release(p)
    \/ AdmissionTick

AdmissionSpec == AdmissionInit /\ [][AdmissionNext]_admissionVars

-------------------------------------------------------------------------------
\* Each of the four counters is the number of running executions with its key
\* and within its limit, whatever was admitted, rejected halfway through the
\* checks and released; and a tenant with running work keeps its bucket.
PermitsCounted ==
    /\ \A dim \in Dimensions : \A k \in KeysOf(dim) :
          /\ inUse[dim][k] = Cardinality({p \in DOMAIN permits : KeyOf(permits[p], dim) = k})
          /\ inUse[dim][k] <= LimitOf[dim]
    /\ Len(buckets) <= MaxBuckets
    /\ \A p \in DOMAIN permits : Has(buckets, permits[p].tenant)

\* A tenant is admitted at most Burst times more than the refill allows, in
\* every stretch of time, as long as its bucket is kept: rejected requests,
\* idle time and the order of calls never add up to extra tokens.
RateBounded ==
    \A t \in Tenants : \A i, j \in DOMAIN admittedAt[t] : i <= j =>
       j - i + 1 <= Burst + (admittedAt[t][j] - admittedAt[t][i])
-------------------------------------------------------------------------------
(* Rolling counters and alert rules of the same executions
   (src/operations/account-metrics.ts): a bounded number of label keys, a bounded
   number of time buckets per key, and alerts over a window.  Calls are
   synchronous; the clock may stand still between them but not run backwards. *)
CONSTANTS MetricKeys,        \* label combinations of one metric
          MaxCardinality, BucketSize, MaxRollingBuckets,
          RuleWindow,        \* windowMs of the alert rule
          MaxEvents,         \* bound: increments
          MaxMetricTime      \* bound: clock

\* addAlertRule refuses a window outside the retained horizon.
ASSUME RuleAccepted ==
    /\ MaxCardinality \in Nat \ {0} /\ BucketSize \in Nat \ {0} /\ MaxRollingBuckets \in Nat \ {0}
    /\ RuleWindow \in BucketSize..(BucketSize * MaxRollingBuckets)

VARIABLES labelKeys,   \* this.labelKeys
          rolling,     \* key -> buckets in insertion order: [start, count]
          metricTime,
          happened     \* every increment: [key, at]

metricVars == <<labelKeys, rolling, metricTime, happened>>

MetricsInit ==
    /\ labelKeys = {} /\ rolling = [k \in MetricKeys |-> << >>]
    /\ metricTime = 0 /\ happened = << >>

\* Oldest first, in the order of insertion.
Trimmed(bs) ==
    IF Len(bs) > MaxRollingBuckets THEN SubSeq(bs, Len(bs) - MaxRollingBuckets + 1, Len(bs)) ELSE bs

Counted(bs) ==
    LET start == (metricTime \div BucketSize) * BucketSize
        at == {i \in DOMAIN bs : bs[i].start = start} IN
    Trimmed(IF at = {} THEN Append(bs, [start |-> start, count |-> 1])
            ELSE [bs EXCEPT ![CHOOSE i \in at : TRUE].count = @ + 1])

\* admitKey.
AdmitsKey(k) == k \in labelKeys \/ Cardinality(labelKeys) < MaxCardinality

\* increment; a key beyond the cardinality limit is dropped silently.
Increment(k) ==
    /\ Len(happened) < MaxEvents
    /\ happened' = Append(happened, [key |-> k, at |-> metricTime])
    /\ IF AdmitsKey(k)
       THEN /\ labelKeys' = labelKeys \cup {k}
            /\ rolling' = [rolling EXCEPT ![k] = Counted(@)]
       ELSE UNCHANGED <<labelKeys, rolling>>
    /\ UNCHANGED metricTime

MetricTick ==
    /\ metricTime < MaxMetricTime /\ metricTime' = metricTime + 1
    /\ UNCHANGED <<labelKeys, rolling, happened>>

MetricsNext == (\E k \in MetricKeys : Increment(k)) \/ MetricTick
MetricsSpec == MetricsInit /\ [][MetricsNext]_metricVars

-------------------------------------------------------------------------------
\* evaluateAlerts: the total of the buckets that overlap the window.
AlertTotal(k) ==
    MapThenFoldSet(+, 0, LAMBDA i : rolling[k][i].count, LAMBDA S : CHOOSE i \in S : TRUE,
       {i \in DOMAIN rolling[k] : /\ rolling[k][i].start + BucketSize > metricTime - RuleWindow
                                  /\ rolling[k][i].start <= metricTime})

Since(k, from) ==
    Cardinality({i \in DOMAIN happened : happened[i].key = k /\ happened[i].at > from})

\* An alert sees every event of its window, for every key that is tracked, and
\* nothing older than one bucket before the window; the number of tracked keys
\* is bounded.  It holds for windows one bucket shorter than the retained
\* horizon: at the full horizon a bucket that still overlaps the window has
\* been dropped (README, section 3).
AlertComplete ==
    /\ Cardinality(labelKeys) <= MaxCardinality
    /\ \A k \in labelKeys :
          /\ AlertTotal(k) >= Since(k, metricTime - RuleWindow)
          /\ AlertTotal(k) <= Since(k, metricTime - RuleWindow - BucketSize)
===============================================================================
