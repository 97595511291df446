---------------------------- MODULE SnapshotHistory ----------------------------
(* The bounded history of the snapshots of one tab
   (src/browser/snapshot-history.ts): entries in the order they were recorded,
   the running byte count, tombstones of expired entries, and the ids given
   out.  An operation is one synchronous call; the clock moves between calls. *)
EXTENDS Integers, Sequences, FiniteSets, SequencesExt, Folds

CONSTANTS Observations,       \* what a snapshot may contain
          SizeOf,             \* observation -> bytes of its entry
          MaxSnapshots, MaxHistoryBytes, MaxSnapshotBytes, HistoryTtl,
          MaxSnapshotIds,     \* bound: ids given out
          MaxRetained,        \* bound: entries retained between two clears
          MaxTime             \* bound: clock

ASSUME HistoryConstants ==
    /\ MaxSnapshots \in Nat \ {0} /\ HistoryTtl \in Nat \ {0}
    /\ MaxSnapshotBytes \in 1..MaxHistoryBytes
    /\ \A o \in Observations : SizeOf[o] \in Nat \ {0}

VARIABLES entries,    \* this.entries in insertion order: [id, of, at]
          totalBytes, \* this.totalBytes
          tombs,      \* this.expiredIds in insertion order: [id, at]
          lastId,     \* this.sequence
          time,
          log,        \* everything retained since the last clear, for the properties
          reply       \* of the last call: [result, id]

historyVars == <<entries, totalBytes, tombs, lastId, time, log, reply>>

SnapshotIds == 1..MaxSnapshotIds

HistoryInit ==
    /\ entries = << >> /\ totalBytes = 0 /\ tombs = << >>
    /\ lastId = 0 /\ time = 0
    /\ log = << >>
    /\ reply = [result |-> "none", id |-> 0]

SumBytes(es) == MapThenFoldSet(+, 0, LAMBDA k : SizeOf[es[k].of], LAMBDA S : CHOOSE k \in S : TRUE, DOMAIN es)
IdsOf(es) == {es[k].id : k \in DOMAIN es}
Entry(es, id) == es[CHOOSE k \in DOMAIN es : es[k].id = id]

----------------------------------------------------------------------------
(* prune, evict *)

Fresh(es) == SelectSeq(es, LAMBDA e : e.at + HistoryTtl > time)

\* Mutant: a pruned entry's bytes stay in the running count.
PrunedBytesKept == totalBytes

\* prune subtracts every expired entry from the running count.
PrunedBytes == totalBytes - SumBytes(SelectSeq(entries, LAMBDA e : e.at + HistoryTtl <= time))

\* Expired entries leave a tombstone; tombstones age too, and the oldest ones
\* give way when there are more than twice as many as entries may be retained.
PrunedTombs ==
    LET gone == SelectSeq(entries, LAMBDA e : e.at + HistoryTtl <= time)
        all == tombs \o [k \in DOMAIN gone |-> [id |-> gone[k].id, at |-> time]]
        young == SelectSeq(all, LAMBDA t : t.at + HistoryTtl > time) IN
    IF Len(young) <= 2 * MaxSnapshots THEN young
    ELSE SubSeq(young, Len(young) - 2 * MaxSnapshots + 1, Len(young))

\* The eviction loop of retainPrepared: oldest first, until the new entry fits.
Kept(es, bytes) ==
    LET fits == {k \in 1..(Len(es) + 1) :
                    LET rest == SubSeq(es, k, Len(es)) IN
                    Len(rest) < MaxSnapshots /\ SumBytes(rest) + bytes <= MaxHistoryBytes} IN
    SubSeq(es, CHOOSE k \in fits : \A j \in fits : k <= j, Len(es))

----------------------------------------------------------------------------
(* Operations *)

\* require, requireEntry: an id that is not retained.
Missing(id) == IF id \in IdsOf(PrunedTombs) THEN "SNAPSHOT_EXPIRED" ELSE "SNAPSHOT_NOT_FOUND"

Prune == entries' = Fresh(entries) /\ totalBytes' = PrunedBytes /\ tombs' = PrunedTombs
HistoryAnswer(result, id) == reply' = [result |-> result, id |-> id]

Log(id, o) == Len(log) < MaxRetained /\ log' = Append(log, [id |-> id, of |-> o, at |-> time])

\* get, has, require: every read prunes first.
Require(id) ==
    /\ Prune
    /\ HistoryAnswer(IF id \in IdsOf(Fresh(entries)) THEN "found" ELSE Missing(id), id)
    /\ UNCHANGED <<lastId, time, log>>

\* retainPrepared.  A known id with the same observation changes nothing, with
\* another one it is a conflict; a new entry that is too large is refused
\* before anything is evicted.
Retain(id, o) ==
    LET es == Fresh(entries)
        kept == Kept(es, SizeOf[o]) IN
    IF id \in IdsOf(es) THEN
        /\ Prune /\ UNCHANGED log
        /\ HistoryAnswer(IF Entry(es, id).of = o THEN "recorded" ELSE "SNAPSHOT_ID_CONFLICT", id)
    ELSE IF SizeOf[o] > MaxSnapshotBytes THEN
        Prune /\ UNCHANGED log /\ HistoryAnswer("RESOURCE_EXHAUSTED", id)
    ELSE
        /\ entries' = Append(kept, [id |-> id, of |-> o, at |-> time])
        /\ totalBytes' = PrunedBytes - (SumBytes(es) - SumBytes(kept)) + SizeOf[o]
        /\ tombs' = SelectSeq(PrunedTombs, LAMBDA t : t.id # id)
        /\ Log(id, o)
        /\ HistoryAnswer("recorded", id)

\* prepareSnapshot: a generated id, or one the caller supplies again.
PreparedIds == IF lastId < MaxSnapshotIds THEN {lastId + 1} \cup 1..lastId ELSE 1..lastId

\* record()
Record(id, o) ==
    /\ id \in PreparedIds
    /\ lastId' = IF id > lastId THEN id ELSE lastId
    /\ Retain(id, o)
    /\ UNCHANGED time

\* recordWithDiff() against a base: the base must be there before the insertion,
\* which may evict it, and again for the diff after it.
RecordWithDiff(id, o, base) ==
    /\ id \in PreparedIds /\ base \in 1..lastId /\ id # base
    /\ UNCHANGED time
    /\ IF base \notin IdsOf(Fresh(entries))
       THEN Prune /\ HistoryAnswer(Missing(base), base) /\ UNCHANGED <<lastId, log>>
       ELSE /\ lastId' = IF id > lastId THEN id ELSE lastId
            /\ \/ SizeOf[o] <= MaxSnapshotBytes /\ id \notin IdsOf(Fresh(entries))
                  /\ base \notin IdsOf(Kept(Fresh(entries), SizeOf[o]))
                  /\ entries' = Append(Kept(Fresh(entries), SizeOf[o]), [id |-> id, of |-> o, at |-> time])
                  /\ totalBytes' = SumBytes(entries')
                  /\ tombs' = SelectSeq(PrunedTombs, LAMBDA t : t.id # id)
                  /\ Log(id, o)
                  /\ HistoryAnswer("SNAPSHOT_NOT_FOUND", base)
               \/ /\ \/ SizeOf[o] > MaxSnapshotBytes \/ id \in IdsOf(Fresh(entries))
                     \/ base \in IdsOf(Kept(Fresh(entries), SizeOf[o]))
                  /\ Retain(id, o)

\* clear(): the tab was closed or its context ended.
ClearHistory ==
    /\ entries' = << >> /\ tombs' = << >> /\ totalBytes' = 0
    /\ log' = << >>
    /\ HistoryAnswer("none", 0)
    /\ UNCHANGED <<lastId, time>>

HistoryTick == time < MaxTime /\ time' = time + 1 /\ UNCHANGED <<entries, totalBytes, tombs, lastId, log, reply>>

HistoryNext ==
    \/ \E id \in SnapshotIds : Require(id)
    \/ \E id \in SnapshotIds, o \in Observations : Record(id, o)
    \/ \E id, base \in SnapshotIds, o \in Observations : RecordWithDiff(id, o, base)
    \/ ClearHistory \/ HistoryTick

HistorySpec == HistoryInit /\ [][HistoryNext]_historyVars

----------------------------------------------------------------------------
(* Properties *)

\* The history keeps to its limits, and its running byte count, which is kept
\* by additions and subtractions across prune, evict and record, is the size of
\* what is retained.
HistoryBounded ==
    /\ Len(entries) <= MaxSnapshots /\ SumBytes(entries) <= MaxHistoryBytes
    /\ totalBytes = SumBytes(entries)
    /\ Len(tombs) <= 2 * MaxSnapshots

\* The last time an id was retained, as a position in the log, or 0.
Retained(id) == LET at == {k \in DOMAIN log : log[k].id = id} IN
                IF at = {} THEN 0 ELSE CHOOSE k \in at : \A j \in at : j <= k

\* What the history says of an id is true: EXPIRED is said only of a snapshot
\* that was retained and is older than its time to live, and a younger one is
\* NOT_FOUND only if those retained after it and itself exceed a limit.
HistoryHonest ==
    LET k == Retained(reply.id)
        since == SubSeq(log, k, Len(log)) IN
    /\ reply.result = "SNAPSHOT_EXPIRED" => k > 0 /\ log[k].at + HistoryTtl <= time
    /\ reply.result = "SNAPSHOT_NOT_FOUND" /\ k > 0 /\ log[k].at + HistoryTtl > time =>
          Len(since) > MaxSnapshots \/ SumBytes(since) > MaxHistoryBytes

\* An id never changes its meaning while it is retained, and its age is never
\* refreshed: recording the same observation again is idempotent.
IdsStable ==
    \A k \in DOMAIN entries, j \in DOMAIN entries' :
       entries[k].id = entries'[j].id /\ entries[k].at + HistoryTtl > time => entries[k] = entries'[j]

\* The history stays within its limits and is true: in its counts, in what it says
\* of an id, and in what an id means.
HistorySound == [][HistoryBounded' /\ HistoryHonest' /\ IdsStable]_historyVars
=============================================================================
