----------------------------- MODULE ProfileLease -----------------------------
(***************************************************************************)
(* The lease on a persistent browser profile (src/distributed/             *)
(* profile-lease.ts, RedisLeaseManager): one Redis key per tenant and      *)
(* profile, set with NX and a TTL, renewed and deleted by scripts that     *)
(* compare the token first.                                                *)
(*                                                                         *)
(* A session acquires at most one lease, so a token is the session it was  *)
(* made for.  The TTL is 30 s and renewals are due every 15 s; a key that  *)
(* nobody renews any more always lapses, one that is renewed lapses only   *)
(* when renewals come too late (Events).                                   *)
(***************************************************************************)
CONSTANTS Sessions,     \* session ids
          NoSession,    \* the key does not exist
          Profiles,     \* tenant and profile pairs
          Profile,      \* the profile each session is started on
          Events        \* what may go wrong: "late", "fault", "crash"

ASSUME ProfileLeaseAssumption ==
    /\ NoSession \notin Sessions
    /\ Profile \in [Sessions -> Profiles]
    /\ Events \subseteq {"late", "fault", "crash"}

VARIABLE key            \* the browser:profile:lease:<tenant>:<profile> keys

LeaseKeyInit == key = [p \in Profiles |-> NoSession]

(* A call on Redis or the disk takes effect and is answered, takes effect    *)
(* and fails nevertheless, or fails.                                         *)
Outcomes == {"ok"} \cup (IF "fault" \in Events THEN {"unanswered", "failed"} ELSE {})
Applied(o)  == o # "failed"
Answered(o) == o = "ok"

Holds(s) == key[Profile[s]] = s

\* SET key token PX ttl NX
AcquireAccepts(s) == key[Profile[s]] = NoSession
AcquireWrites(s)  == key' = [key EXCEPT ![Profile[s]] = s]

\* RENEW_SCRIPT moves a deadline, which is not part of the state.
RenewAccepts(s) == Holds(s)

\* RELEASE_SCRIPT
ReleaseLease(s, o) ==
    key' = IF Applied(o) /\ Holds(s) THEN [key EXCEPT ![Profile[s]] = NoSession] ELSE key

\* The TTL of the key passes.
KeyLapses(p) ==
    /\ key[p] # NoSession
    /\ key' = [key EXCEPT ![p] = NoSession]
===============================================================================
