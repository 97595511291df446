------------------------------ MODULE PageFetch ------------------------------
(***************************************************************************)
(* fetcher/http-client.ts over UrlPolicy.resolveAllowed: fetches that run  *)
(* side by side share the policy's cache of approved DNS answers, follow   *)
(* redirects hop by hop and can be aborted at any await.  DNS and the      *)
(* servers are the environment.                                            *)
(***************************************************************************)
EXTENDS Naturals, Sequences, FiniteSets

CONSTANTS
    Fetches,
    AllowedHosts, OtherHosts,     \* by the patterns of the policy
    PublicAddresses, ProtectedAddresses,
    DnsTtl, DnsCacheLimit,        \* 30 s and 500 in the code
    MaxRedirects,
    MaxDnsChanges, MaxFetchTime

ASSUME FetchConstants ==
    /\ DnsTtl \in Nat \ {0} /\ DnsCacheLimit \in Nat \ {0}
    /\ PublicAddresses \intersect ProtectedAddresses = {} /\ "none" \notin AllowedHosts

VARIABLES
    dns,         \* the answer a lookup of a host gets now
    dnsCache,    \* safeDnsCache, in insertion order: [host, addresses, expiresAt, got]
    fetching,    \* the state of each fetch
    fetchTime,
    dnsChanges

fetchVars == <<dns, dnsCache, fetching, fetchTime, dnsChanges>>

NoAnswer == {}
NoSocket == [host |-> "none", address |-> "none", got |-> 0, at |-> 0]
NewFetch == [phase |-> "idle", host |-> "none", asked |-> 0, redirects |-> 0,
             aborted |-> FALSE, socket |-> NoSocket]
DnsAnswers == (SUBSET (PublicAddresses \union ProtectedAddresses))

FetchInit ==
    /\ dns \in [AllowedHosts -> {{a} : a \in PublicAddresses}]
    /\ dnsCache = << >>
    /\ fetching = [f \in Fetches |-> NewFetch]
    /\ fetchTime = 0 /\ dnsChanges = 0

Cached(host) == {dnsCache[i] : i \in {k \in DOMAIN dnsCache : dnsCache[k].host = host}}

\* Mutant: an answer in the cache is used whatever its age.
CacheHitAnyAge(host) == Cached(host) # {}

CacheHit(host) == \E e \in Cached(host) : e.expiresAt > fetchTime

\* Map.set: the oldest entry goes when the cache is full; a host keeps its place.
Stored(entry) ==
    LET room == IF Len(dnsCache) >= DnsCacheLimit THEN Tail(dnsCache) ELSE dnsCache
        at == {i \in DOMAIN room : room[i].host = entry.host} IN
    IF at = {} THEN Append(room, entry) ELSE [i \in DOMAIN room |-> IF i \in at THEN entry ELSE room[i]]

EndFetch(f, phase) ==
    fetching' = [fetching EXCEPT ![f].phase = phase, ![f].socket = NoSocket]

\* requestPinned: one of the approved addresses, and no lookup of its own.
Connect(f, addresses, got) ==
    IF fetching[f].aborted THEN EndFetch(f, "failed")
    ELSE \E a \in addresses :
           fetching' = [fetching EXCEPT ![f].phase = "response",
                          ![f].socket = [host |-> fetching[f].host, address |-> a, got |-> got, at |-> fetchTime]]

CallFetch(f, host) ==
    /\ fetching[f].phase = "idle"
    /\ fetching' = [fetching EXCEPT ![f].phase = "resolve", ![f].host = host]
    /\ UNCHANGED <<dns, dnsCache, fetchTime, dnsChanges>>

\* resolveAllowed up to its lookup: the host must match, and a cached answer is used.
ResolveHop(f) ==
    /\ fetching[f].phase = "resolve"
    /\ LET host == fetching[f].host IN
       \/ host \notin AllowedHosts /\ EndFetch(f, "failed")
       \/ /\ host \in AllowedHosts /\ CacheHit(host)
          /\ \E e \in Cached(host) : Connect(f, e.addresses, e.got)
       \/ /\ host \in AllowedHosts /\ ~CacheHit(host)
          /\ fetching' = [fetching EXCEPT ![f].phase = "lookup", ![f].asked = fetchTime]
    /\ UNCHANGED <<dns, dnsCache, fetchTime, dnsChanges>>

\* Every address of the answer is judged before any is used.
Approved(answer) == answer # NoAnswer /\ answer \subseteq PublicAddresses

\* The answer arrives. Its time in the cache counts from when it was asked for.
LookupDone(f) ==
    /\ fetching[f].phase = "lookup"
    /\ LET host == fetching[f].host
           answer == dns[host] IN
       IF Approved(answer)
       THEN /\ dnsCache' = Stored([host |-> host, addresses |-> answer,
                                   expiresAt |-> fetching[f].asked + DnsTtl, got |-> fetchTime])
            /\ Connect(f, answer, fetchTime)
       ELSE EndFetch(f, "failed") /\ UNCHANGED dnsCache
    /\ UNCHANGED <<dns, fetchTime, dnsChanges>>

\* A redirect: the response is destroyed, then the limit or the next hop.
Redirected(f, host) ==
    IF fetching[f].redirects >= MaxRedirects THEN EndFetch(f, "failed")
    ELSE fetching' = [fetching EXCEPT ![f].phase = "resolve", ![f].host = host,
                                      ![f].redirects = @ + 1, ![f].socket = NoSocket]

\* The response: a redirect, an unusable one, or a body to read.
Response(f) ==
    /\ fetching[f].phase = "response"
    /\ \/ \E host \in AllowedHosts \union OtherHosts : Redirected(f, host)
       \/ EndFetch(f, "failed")
       \/ fetching' = [fetching EXCEPT ![f].phase = "body"]
    /\ UNCHANGED <<dns, dnsCache, fetchTime, dnsChanges>>

\* readBoundedBody: it ends, or exceeds the limit and is destroyed.
Body(f) ==
    /\ fetching[f].phase = "body"
    /\ EndFetch(f, "done") \/ EndFetch(f, "failed")
    /\ UNCHANGED <<dns, dnsCache, fetchTime, dnsChanges>>

\* The timeout, or the caller's signal. A lookup in progress goes on regardless.
AbortFetch(f) ==
    /\ fetching[f].phase \in {"resolve", "lookup", "response", "body"} /\ ~fetching[f].aborted
    /\ fetching' = [fetching EXCEPT ![f].aborted = TRUE,
                      ![f].phase = IF @ \in {"response", "body"} THEN "failed" ELSE @,
                      ![f].socket = IF fetching[f].phase \in {"response", "body"} THEN NoSocket ELSE @]
    /\ UNCHANGED <<dns, dnsCache, fetchTime, dnsChanges>>

DnsChanges(host, answer) ==
    /\ dnsChanges < MaxDnsChanges /\ dns[host] # answer
    /\ dns' = [dns EXCEPT ![host] = answer]
    /\ dnsChanges' = dnsChanges + 1
    /\ UNCHANGED <<dnsCache, fetching, fetchTime>>

FetchTick == fetchTime < MaxFetchTime /\ fetchTime' = fetchTime + 1 /\ UNCHANGED <<dns, dnsCache, fetching, dnsChanges>>

FetchNext ==
    \/ FetchTick
    \/ \E host \in AllowedHosts, answer \in DnsAnswers : DnsChanges(host, answer)
    \/ \E f \in Fetches :
        \/ ResolveHop(f) \/ LookupDone(f) \/ Response(f) \/ Body(f) \/ AbortFetch(f)
        \/ \E host \in AllowedHosts \union OtherHosts : CallFetch(f, host)

FetchSpec == FetchInit /\ [][FetchNext]_fetchVars

-----------------------------------------------------------------------------
(* Properties *)

\* Every connection, the ones after a redirect too, goes to an allowed host at an address
\* of an answer that DNS gave for it less than the cache's time ago, no address of which is
\* protected, however lookups of one host overlap and whatever DNS answers by then.
ConnectsAsApproved ==
    /\ \A f \in Fetches :
          LET s == fetching[f].socket IN
          s # NoSocket => /\ s.host \in AllowedHosts /\ s.address \in PublicAddresses
                          /\ s.host = fetching[f].host /\ s.at < s.got + DnsTtl
    /\ \A i \in DOMAIN dnsCache : dnsCache[i].addresses \intersect ProtectedAddresses = {}

\* A fetch that has ended, or is between two hops, holds no connection: not after a
\* redirect too many, an abort, a body over the limit or a policy refusal.
FetchesReleased ==
    \A f \in Fetches : fetching[f].socket # NoSocket <=> fetching[f].phase \in {"response", "body"}

\* A fetch connects to what was approved and gives up what it holds.
FetchesGuarded == ConnectsAsApproved /\ FetchesReleased
=============================================================================
