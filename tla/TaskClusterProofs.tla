------------------------- MODULE TaskClusterProofs --------------------------
(* Proofs of the safety properties of TaskCluster, for any number of       *)
(* tasks, workers, shards and scheduler calls, and any subset of Events.   *)
EXTENDS TaskCluster, TLAPS

-----------------------------------------------------------------------------
(* The part of the invariant that the queue alone keeps, and what every    *)
(* write to the queue guarantees to those who hold copies of records.      *)

Budgeted(r) == \/ r.retries <= MaxRetries
               \/ r.retries = MaxRetries + 1 /\ r.state \in {"FAILED", "CANCELLED"}

QueueInv ==
    /\ QueueTypeOK
    /\ NoLostTask
    /\ RecordInv
    /\ \A t \in Tasks : Budgeted(tasks[t])

\* A record gets the fresh lease or none it did not have, and only with the
\* fresh lease does it become RUNNING.
LeaseStep ==
    /\ nextLease' \in {nextLease, nextLease + 1}
    /\ \A t \in Tasks :
          \/ tasks'[t].lease = nextLease /\ nextLease' = nextLease + 1
          \/ /\ tasks'[t].lease \in {0, tasks[t].lease}
             /\ tasks'[t].state = "RUNNING" => tasks[t].state = "RUNNING"

USE DEF MaybeWorker, Lease, LeaseIds

\* What the reclaim loop of dequeueTask makes of a record.
LEMMA ReclaimFacts ==
    ASSUME NEW r \in Record, Budgeted(r)
    PROVE  /\ Reclaim(r) \in Record
           /\ Budgeted(Reclaim(r))
           /\ Reclaim(r).lease \in {0, r.lease}
           /\ Reclaim(r).state # "RUNNING"
           /\ r.state = "RUNNING" => Reclaim(r).state \in {"PENDING", "FAILED"}
           /\ r.state \in Queued => Reclaim(r).state = r.state
           /\ r.state \in Terminal \cup {"ABSENT"} => Reclaim(r) = r
PROOF
  <1> USE QueueAssumption DEF Record, States, Queued, Terminal, Budgeted
  <1>1. CASE r.state = "RUNNING"
    <2>1. Reclaim(r) = [r EXCEPT !.state = IF r.retries + 1 <= MaxRetries THEN "PENDING"
                                                                     ELSE "FAILED",
                                 !.retries = r.retries + 1,
                                 !.worker = NoWorker, !.lease = 0]
      BY <1>1 DEF Reclaim
    <2>2. r = [state |-> r.state, retries |-> r.retries, worker |-> r.worker,
               lease |-> r.lease, target |-> r.target]
      OBVIOUS
    <2>3. Reclaim(r) = [state |-> IF r.retries + 1 <= MaxRetries THEN "PENDING" ELSE "FAILED",
                        retries |-> r.retries + 1, worker |-> NoWorker,
                        lease |-> 0, target |-> r.target]
      BY <2>1, <2>2
    <2>4. QED
      BY <1>1, <2>3
  <1>2. CASE r.state \in Queued
    <2>1. Reclaim(r) = [r EXCEPT !.worker = NoWorker, !.lease = 0]
      BY <1>2 DEF Reclaim
    <2>2. Reclaim(r) = [state |-> r.state, retries |-> r.retries, worker |-> NoWorker,
                        lease |-> 0, target |-> r.target]
      BY <2>1
    <2>3. QED
      BY <1>2, <2>2
  <1>3. CASE r.state \in Terminal \cup {"ABSENT"}
    <2>1. Reclaim(r) = r
      BY <1>3 DEF Reclaim
    <2>2. QED
      BY <1>3, <2>1
  <1>4. QED
    BY <1>1, <1>2, <1>3

\* dequeueTask keeps the queue invariant, whether or not it claims a task.
LEMMA DequeueKeepsQueue ==
    ASSUME QueueInv, NEW w \in Workers, NEW s \in Shards,
           NEW C \in SUBSET Selected(w, s),
           DequeueWrites(w, s, C),
           \/ C = {} /\ nextLease' = nextLease
           \/ nextLease <= MaxLease /\ nextLease' = nextLease + 1
    PROVE  QueueInv' /\ LeaseStep
PROOF
  <1> USE QueueAssumption
  <1> DEFINE R == Reclaimed(s)
  <1>1. \A t \in Tasks : tasks[t] \in Record /\ Budgeted(tasks[t])
    BY DEF QueueInv, QueueTypeOK
  <1>2. \A t \in Tasks : /\ t \in Expired(s) => R[t] = Reclaim(tasks[t])
                         /\ t \notin Expired(s) => R[t] = tasks[t]
    BY DEF Reclaimed
  <1>3. \A t \in Tasks : /\ R[t] \in Record /\ Budgeted(R[t])
                         /\ R[t].lease \in {0, tasks[t].lease}
                         /\ R[t].state = "RUNNING" => t \notin Expired(s)
    BY <1>1, <1>2, ReclaimFacts
  <1>4. C \subseteq Tasks /\ \A t \in C : R[t].state \in Queued
    BY DEF Selected, Candidates, Requeued, Claimable, Expired, QueueInv, QueueTypeOK
  <1>5. \A t \in Purged(w, s) : R[t].state \notin Queued /\ t \in Requeued(s)
    BY DEF Purged, Candidates
  <1>6. ASSUME NEW t \in C
        PROVE  /\ tasks'[t] \in Record /\ tasks'[t].state = "RUNNING"
               /\ tasks'[t].lease = nextLease /\ tasks'[t].retries <= MaxRetries
               /\ nextLease' = nextLease + 1 /\ nextLease <= MaxLease
               /\ t \notin pending' /\ processing'[t] = "live"
    <2>1. tasks'[t] = [R[t] EXCEPT !.state = "RUNNING", !.worker = w, !.lease = nextLease]
      BY <1>4 DEF DequeueWrites
    <2>2. tasks'[t] = [state |-> "RUNNING", retries |-> R[t].retries, worker |-> w,
                       lease |-> nextLease, target |-> R[t].target]
      BY <2>1, <1>3, <1>4 DEF Record
    <2>3. R[t].retries <= MaxRetries
      BY <1>3, <1>4 DEF Budgeted, Queued
    <2>4. nextLease' = nextLease + 1 /\ nextLease <= MaxLease /\ nextLease \in 1 .. MaxLease + 1
      BY DEF QueueInv, QueueTypeOK
    <2>5. t \notin pending' /\ processing'[t] = "live"
      BY <1>4 DEF DequeueWrites
    <2>6. QED
      BY <1>3, <1>4, <2>2, <2>3, <2>4, <2>5 DEF Record, States
  <1>7. ASSUME NEW t \in Tasks, t \notin C, t \in Expired(s)
        PROVE  /\ tasks'[t] = R[t]
               /\ processing'[t] = "absent"
               /\ \/ R[t].state \in Queued /\ t \in pending'
                  \/ R[t].state = "FAILED" /\ t \notin pending'
    <2>1. \/ tasks[t].state = "RUNNING" /\ t \notin pending
          \/ tasks[t].state \in Queued
      BY <1>7, <1>1 DEF QueueInv, NoLostTask, Expired, Record, States, Terminal, Queued
    <2>2. R[t].state \in Queued \/ (R[t].state = "FAILED" /\ t \notin pending)
      <3>1. R[t] = Reclaim(tasks[t]) /\ tasks[t] \in Record /\ Budgeted(tasks[t])
        BY <1>1, <1>2, <1>7
      <3>2. /\ tasks[t].state = "RUNNING" => R[t].state \in {"PENDING", "FAILED"}
            /\ tasks[t].state \in Queued => R[t].state = tasks[t].state
        BY <3>1, ReclaimFacts
      <3>3. QED
        BY <2>1, <3>2 DEF Queued
    <2>3. tasks'[t] = R[t] /\ processing'[t] = "absent"
      BY <1>7 DEF DequeueWrites
    <2>4. R[t].state \in Queued => t \in pending'
      BY <1>5, <1>7 DEF DequeueWrites, Requeued
    <2>5. R[t].state = "FAILED" /\ t \notin pending => t \notin pending'
      BY DEF DequeueWrites, Requeued, Queued
    <2>6. QED
      BY <2>2, <2>3, <2>4, <2>5
  <1>8. ASSUME NEW t \in Tasks, t \notin C, t \notin Expired(s)
        PROVE  /\ tasks'[t] = tasks[t] /\ processing'[t] = processing[t]
               /\ t \in pending' <=> t \in pending
    <2>1. t \in Requeued(s) <=> t \in pending
      BY <1>8 DEF Requeued
    <2>2. t \notin Purged(w, s)
      BY <1>1, <1>2, <1>5, <1>8, <2>1
         DEF QueueInv, NoLostTask, Record, States, Queued, Terminal
    <2>3. QED
      BY <1>2, <1>8, <2>1, <2>2 DEF DequeueWrites
  <1>9. QueueTypeOK'
    <2>1. \A t \in Tasks : tasks'[t] \in Record
      BY <1>1, <1>3, <1>6, <1>7, <1>8
    <2>2. tasks' \in [Tasks -> Record]
      BY <2>1 DEF DequeueWrites
    <2>3. pending' \in SUBSET Tasks
      BY DEF DequeueWrites, Requeued, Expired, QueueInv, QueueTypeOK
    <2>4. processing' \in [Tasks -> {"absent", "live", "expired"}] /\ seen' = seen
      BY DEF DequeueWrites, QueueInv, QueueTypeOK
    <2>5. nextLease' \in 1 .. MaxLease + 1
      BY DEF QueueInv, QueueTypeOK
    <2>6. QED
      BY <2>2, <2>3, <2>4, <2>5 DEF QueueInv, QueueTypeOK
  <1>10. NoLostTask'
    <2> SUFFICES ASSUME NEW t \in Tasks
                 PROVE  /\ tasks'[t].state \in Queued =>
                              (t \in pending' <=> processing'[t] = "absent")
                        /\ tasks'[t].state = "RUNNING" =>
                              t \notin pending' /\ processing'[t] # "absent"
                        /\ tasks'[t].state \in Terminal \cup {"ABSENT"} =>
                              t \notin pending' /\ processing'[t] = "absent"
      BY DEF NoLostTask
    <2>1. CASE t \in C
      BY <1>6, <2>1 DEF Queued, Terminal
    <2>2. CASE t \notin C /\ t \in Expired(s)
      BY <1>7, <2>2 DEF Queued, Terminal
    <2>3. CASE t \notin C /\ t \notin Expired(s)
      BY <1>8, <2>3 DEF QueueInv, NoLostTask
    <2>4. QED
      BY <2>1, <2>2, <2>3
  <1>11. LeaseStep
    <2>1. nextLease' \in {nextLease, nextLease + 1}
      OBVIOUS
    <2>2. ASSUME NEW t \in Tasks, t \notin C
          PROVE  /\ tasks'[t].lease \in {0, tasks[t].lease}
                 /\ tasks'[t].state = "RUNNING" => tasks[t].state = "RUNNING"
      BY <1>3, <1>7, <1>8, <2>2 DEF Queued
    <2>3. QED
      BY <1>6, <2>1, <2>2 DEF LeaseStep
  <1>12. RecordInv'
    <2> SUFFICES ASSUME NEW t \in Tasks
                 PROVE  /\ tasks'[t].lease < nextLease'
                        /\ tasks'[t].state \in {"RUNNING", "COMPLETED"} => tasks'[t].lease # 0
      BY DEF RecordInv
    <2>1. nextLease \in Nat \ {0} /\ tasks[t].lease \in Nat /\ tasks[t].lease < nextLease
      BY <1>1 DEF QueueInv, QueueTypeOK, RecordInv, Record
    <2>2. CASE t \in C
      BY <1>6, <2>1, <2>2
    <2>3. CASE t \notin C /\ t \in Expired(s)
      BY <1>3, <1>7, <2>1, <2>3 DEF Queued
    <2>4. CASE t \notin C /\ t \notin Expired(s)
      BY <1>8, <2>1, <2>4 DEF QueueInv, RecordInv
    <2>5. QED
      BY <2>2, <2>3, <2>4
  <1>13. \A t \in Tasks : Budgeted(tasks[t])'
    BY <1>1, <1>3, <1>6, <1>7, <1>8 DEF Budgeted
  <1>14. QED
    BY <1>9, <1>10, <1>11, <1>12, <1>13 DEF QueueInv

\* updateTask keeps the queue invariant for every record its callers write.
LEMMA UpdateKeepsQueue ==
    ASSUME QueueInv, NEW t \in Tasks, NEW r \in Record,
           UpdateAccepts(t, r), UpdateWrites(t, r),
           r.state \in Terminal \cup {"RETRYING"},
           r.state \in {"RETRYING", "COMPLETED"} => r.lease # 0,
           Budgeted(r)
    PROVE  QueueInv' /\ LeaseStep
PROOF
  <1> USE QueueAssumption
  <1>1. /\ tasks \in [Tasks -> Record] /\ tasks' = [tasks EXCEPT ![t] = r]
        /\ tasks'[t] = r
        /\ \A u \in Tasks \ {t} : /\ tasks'[u] = tasks[u]
                                  /\ processing'[u] = processing[u]
                                  /\ u \in pending' <=> u \in pending
    BY DEF UpdateWrites, QueueInv, QueueTypeOK
  <1>2. QueueTypeOK'
    BY <1>1 DEF UpdateWrites, QueueInv, QueueTypeOK
  <1>3. /\ r.state \in Terminal => t \notin pending' /\ processing'[t] = "absent"
        /\ r.state = "RETRYING" => t \notin pending' /\ processing'[t] = "live"
    <2>1. CASE r.state \in Terminal
      BY <2>1 DEF UpdateWrites, QueueInv, QueueTypeOK, Terminal, Queued
    <2>2. CASE r.state = "RETRYING"
      <3>1. processing[t] = "live" /\ tasks[t].state # "ABSENT"
        BY <2>2 DEF UpdateAccepts
      <3>2. t \notin pending
        BY <1>1, <3>1 DEF QueueInv, NoLostTask, Record, States, Queued, Terminal
      <3>3. QED
        BY <2>2, <3>2 DEF UpdateWrites, QueueInv, QueueTypeOK, Terminal, Queued
    <2>3. QED
      BY <2>1, <2>2
  <1>4. NoLostTask'
    <2> SUFFICES ASSUME NEW u \in Tasks
                 PROVE  /\ tasks'[u].state \in Queued =>
                              (u \in pending' <=> processing'[u] = "absent")
                        /\ tasks'[u].state = "RUNNING" =>
                              u \notin pending' /\ processing'[u] # "absent"
                        /\ tasks'[u].state \in Terminal \cup {"ABSENT"} =>
                              u \notin pending' /\ processing'[u] = "absent"
      BY DEF NoLostTask
    <2>1. CASE u = t
      BY <1>1, <1>3, <2>1 DEF Queued, Terminal
    <2>2. CASE u # t
      BY <1>1, <2>2 DEF QueueInv, NoLostTask
    <2>3. QED
      BY <2>1, <2>2
  <1>5. r.lease \in {0, tasks[t].lease} /\ r.state # "RUNNING"
    BY DEF UpdateAccepts, Terminal
  <1>6. nextLease' = nextLease
    BY DEF UpdateWrites
  <1>7. LeaseStep
    BY <1>1, <1>5, <1>6 DEF LeaseStep
  <1>8. RecordInv'
    BY <1>1, <1>5, <1>6 DEF QueueInv, QueueTypeOK, RecordInv
  <1>9. \A u \in Tasks : Budgeted(tasks[u])'
    BY <1>1 DEF QueueInv, Budgeted
  <1>10. QED
    BY <1>2, <1>4, <1>7, <1>8, <1>9 DEF QueueInv

\* enqueueTask and enqueueBatch keep the queue invariant.
LEMMA EnqueueKeepsQueue ==
    ASSUME QueueInv, NEW G \in SUBSET Tasks, NEW recs \in [G -> Record],
           \A t \in G : /\ EnqueueAccepts(t, recs[t])
                        /\ recs[t].state \in Queued
                        /\ recs[t].retries <= MaxRetries,
           EnqueueWrites(recs)
    PROVE  QueueInv' /\ LeaseStep
PROOF
  <1> USE QueueAssumption
  <1>1. /\ tasks \in [Tasks -> Record]
        /\ \A t \in G : /\ tasks'[t] = recs[t] /\ t \in pending'
                        /\ processing'[t] = "absent"
        /\ \A t \in Tasks \ G : /\ tasks'[t] = tasks[t]
                                /\ processing'[t] = processing[t]
                                /\ t \in pending' <=> t \in pending
    BY DEF EnqueueWrites, QueueInv, QueueTypeOK
  <1>2. QueueTypeOK'
    BY DEF EnqueueWrites, QueueInv, QueueTypeOK
  <1>3. NoLostTask'
    <2> SUFFICES ASSUME NEW u \in Tasks
                 PROVE  /\ tasks'[u].state \in Queued =>
                              (u \in pending' <=> processing'[u] = "absent")
                        /\ tasks'[u].state = "RUNNING" =>
                              u \notin pending' /\ processing'[u] # "absent"
                        /\ tasks'[u].state \in Terminal \cup {"ABSENT"} =>
                              u \notin pending' /\ processing'[u] = "absent"
      BY DEF NoLostTask
    <2>1. CASE u \in G
      <3>1. tasks'[u].state \in Queued /\ u \in pending' /\ processing'[u] = "absent"
        BY <1>1, <2>1
      <3>2. QED
        BY <3>1 DEF Queued, Terminal
    <2>2. CASE u \notin G
      BY <1>1, <2>2 DEF QueueInv, NoLostTask
    <2>3. QED
      BY <2>1, <2>2
  <1>4. \A t \in G : recs[t].lease \in {0, tasks[t].lease} /\ recs[t].state \in Queued
    BY DEF EnqueueAccepts, EnqueueOwnedAccepts
  <1>5. nextLease' = nextLease
    BY DEF EnqueueWrites
  <1>6. ASSUME NEW t \in G
        PROVE  /\ tasks'[t].lease \in {0, tasks[t].lease}
               /\ tasks'[t].state \notin {"RUNNING", "COMPLETED"}
               /\ Budgeted(tasks'[t])
    BY <1>1, <1>4 DEF Queued, Budgeted
  <1>7. LeaseStep
    BY <1>1, <1>5, <1>6 DEF LeaseStep
  <1>8. RecordInv'
    <2> SUFFICES ASSUME NEW t \in Tasks
                 PROVE  /\ tasks'[t].lease < nextLease
                        /\ tasks'[t].state \in {"RUNNING", "COMPLETED"} => tasks'[t].lease # 0
      BY <1>5 DEF RecordInv
    <2>1. CASE t \in G
      BY <1>6, <2>1 DEF QueueInv, QueueTypeOK, RecordInv
    <2>2. CASE t \notin G
      BY <1>1, <2>2 DEF QueueInv, RecordInv
    <2>3. QED
      BY <2>1, <2>2
  <1>9. \A t \in Tasks : Budgeted(tasks'[t])
    BY <1>1, <1>6 DEF QueueInv
  <1>10. QED
    BY <1>2, <1>3, <1>7, <1>8, <1>9 DEF QueueInv, Budgeted

\* So do the operations that leave the records alone.
LEMMA OthersKeepQueue ==
    ASSUME QueueInv
    PROVE  /\ UNCHANGED queueVars => QueueInv' /\ LeaseStep
           /\ \A t \in Tasks, w \in MaybeWorker, l \in LeaseIds :
                 RenewAccepts(t, w, l) /\ RenewWrites(t) => QueueInv' /\ LeaseStep
           /\ \A urls \in SUBSET Urls, mark \in {"absent", "claimed", "marked"} :
                 SeenWrites(urls, mark) => QueueInv' /\ LeaseStep
           /\ \A t \in Tasks : LeaseElapses(t) => QueueInv' /\ LeaseStep
           /\ \A t \in Tasks : RecordElapses(t) => QueueInv' /\ LeaseStep
           /\ \A u \in Urls : UrlElapses(u) => QueueInv' /\ LeaseStep
PROOF
  <1> USE QueueAssumption
  <1> USE DEF QueueInv, LeaseStep
  <1>1. UNCHANGED queueVars => QueueInv' /\ LeaseStep
    BY DEF queueVars, QueueTypeOK, NoLostTask, RecordInv, Budgeted
  <1>2. ASSUME UNCHANGED <<tasks, pending, nextLease>>,
               processing' \in [Tasks -> {"absent", "live", "expired"}],
               seen' \in [Urls -> {"absent", "claimed", "marked"}],
               \A t \in Tasks : processing'[t] = "absent" <=> processing[t] = "absent"
        PROVE  QueueInv' /\ LeaseStep
    BY <1>2 DEF QueueTypeOK, NoLostTask, RecordInv, Budgeted
  <1>3. ASSUME NEW t \in Tasks, NEW w \in MaybeWorker, NEW l \in LeaseIds,
               RenewAccepts(t, w, l), RenewWrites(t)
        PROVE  QueueInv' /\ LeaseStep
    BY <1>2, <1>3 DEF RenewAccepts, RenewWrites, QueueTypeOK, NoLostTask
  <1>4. ASSUME NEW urls \in SUBSET Urls, NEW mark \in {"absent", "claimed", "marked"},
               SeenWrites(urls, mark)
        PROVE  QueueInv' /\ LeaseStep
    BY <1>2, <1>4 DEF SeenWrites, QueueTypeOK
  <1>5. ASSUME NEW t \in Tasks, LeaseElapses(t)
        PROVE  QueueInv' /\ LeaseStep
    BY <1>2, <1>5 DEF LeaseElapses, QueueTypeOK
  <1>6. ASSUME NEW t \in Tasks, RecordElapses(t)
        PROVE  QueueInv' /\ LeaseStep
    <2>1. /\ tasks' = [tasks EXCEPT ![t] = NoTask]
          /\ UNCHANGED <<pending, processing, seen, nextLease>>
          /\ t \notin pending /\ processing[t] = "absent"
      BY <1>6 DEF RecordElapses, NoLostTask
    <2>2. NoTask \in Record /\ NoTask.lease = 0 /\ NoTask.state = "ABSENT" /\ NoTask.retries = 0
      BY DEF NoTask, Record
    <2>3. QueueTypeOK'
      BY <2>1, <2>2 DEF QueueTypeOK
    <2>4. NoLostTask'
      BY <2>1, <2>2 DEF QueueTypeOK, NoLostTask, Queued
    <2>5. RecordInv'
      BY <2>1, <2>2 DEF QueueTypeOK, RecordInv
    <2>6. \A u \in Tasks : Budgeted(tasks[u])'
      BY <2>1, <2>2 DEF QueueTypeOK, Budgeted
    <2>7. LeaseStep
      BY <2>1, <2>2 DEF QueueTypeOK
    <2>8. QED
      BY <2>3, <2>4, <2>5, <2>6, <2>7
  <1>7. ASSUME NEW u \in Urls, UrlElapses(u)
        PROVE  QueueInv' /\ LeaseStep
    BY <1>2, <1>7 DEF UrlElapses, QueueTypeOK
  <1>8. QED
    BY <1>1, <1>3, <1>4, <1>5, <1>6, <1>7

-----------------------------------------------------------------------------
(* What a step may do to the copies of records that executions and calls   *)
(* hold, and that the invariants on them survive such steps.               *)

Phases == ActivePhases \cup RecoveryPhases

ExecStep ==
    /\ exec' \in [LeaseIds -> Exec]
    /\ \A l \in LeaseIds :
          /\ exec'[l].rec.retries <= MaxRetries
          /\ exec'[l].phase # "done" =>
                /\ exec[l].phase # "done"
                /\ exec'[l].task = exec[l].task
                /\ exec'[l].rec.lease = l
                /\ ExecFits(exec'[l])

CallStep ==
    /\ call' \in [Clients -> Call]
    /\ \A c \in Clients, t \in Tasks :
          call'[c].recs[t].state # "ABSENT" =>
             /\ CallFits(call'[c].op, call'[c].recs[t])
             /\ \/ call'[c].recs[t].lease = 0
                \/ call'[c].recs[t] = call[c].recs[t]
                \/ /\ call'[c].recs[t].lease = tasks[t].lease
                   /\ tasks[t].state # "RUNNING"
                   /\ UNCHANGED <<tasks, nextLease>>

\* Execution copies stay in order across a step of the queue.
LEMMA ExecInvKept ==
    ASSUME IInv, LeaseStep, ExecStep
    PROVE  ExecInv'
PROOF
  <1> USE QueueAssumption
  <1> SUFFICES ASSUME NEW l \in LeaseIds, exec'[l].phase # "done"
               PROVE  /\ l < nextLease'
                      /\ exec'[l].rec.lease = l
                      /\ ExecFits(exec'[l])
                      /\ \A t \in Tasks : tasks'[t].lease = l => t = exec'[l].task
    BY DEF ExecInv, ExecFits
  <1>1. /\ exec[l].phase # "done" /\ exec'[l].task = exec[l].task
        /\ exec'[l].rec.lease = l /\ ExecFits(exec'[l])
    BY DEF ExecStep
  <1>2. /\ l \in Nat \ {0} /\ l < nextLease /\ nextLease \in Nat
        /\ \A t \in Tasks : tasks[t].lease = l => t = exec[l].task
    BY <1>1 DEF IInv, ExecInv, TypeOK, QueueTypeOK
  <1>3. \A t \in Tasks : tasks'[t].lease = l => tasks[t].lease = l
    BY <1>2 DEF LeaseStep
  <1>4. QED
    BY <1>1, <1>2, <1>3 DEF LeaseStep

\* So do the copies of scheduler calls.
LEMMA CallInvKept ==
    ASSUME IInv, LeaseStep, CallStep
    PROVE  CallInv'
PROOF
  <1> USE QueueAssumption
  <1> SUFFICES ASSUME NEW c \in Clients, NEW t \in Tasks,
                      call'[c].recs[t].state # "ABSENT"
               PROVE  /\ call'[c].recs[t].lease < nextLease'
                      /\ CallFits(call'[c].op, call'[c].recs[t])
                      /\ call'[c].recs[t].lease # 0 /\ call'[c].recs[t].lease = tasks'[t].lease
                            => tasks'[t].state # "RUNNING"
    BY DEF CallInv, Batch, CallFits
  <1> DEFINE r == call'[c].recs[t]
  <1>1. CallFits(call'[c].op, r)
    BY DEF CallStep
  <1>2. /\ nextLease \in Nat \ {0} /\ nextLease' \in {nextLease, nextLease + 1}
        /\ tasks[t].lease \in Nat /\ tasks[t].lease < nextLease
    BY DEF IInv, TypeOK, QueueTypeOK, Record, RecordInv, LeaseStep
  <1>3. CASE r.lease = 0
    BY <1>1, <1>2, <1>3
  <1>4. CASE r = call[c].recs[t]
    <2>1. /\ r.lease < nextLease /\ r.lease \in Nat
          /\ r.lease # 0 /\ r.lease = tasks[t].lease => tasks[t].state # "RUNNING"
      BY <1>4 DEF IInv, CallInv, Batch, TypeOK, SchedulerTypeOK, Call, Record
    <2>2. \/ tasks'[t].lease = nextLease
          \/ /\ tasks'[t].lease \in {0, tasks[t].lease}
             /\ tasks'[t].state = "RUNNING" => tasks[t].state = "RUNNING"
      BY DEF LeaseStep
    <2>3. QED
      BY <1>1, <1>2, <2>1, <2>2
  <1>5. CASE r.lease = tasks[t].lease /\ tasks[t].state # "RUNNING" /\ UNCHANGED <<tasks, nextLease>>
    BY <1>1, <1>2, <1>5
  <1>6. QED
    BY <1>3, <1>4, <1>5 DEF CallStep

\* A step that keeps the queue, the execution copies and the call copies in
\* order, and the life cycles well typed, keeps the whole invariant.
LEMMA StepKeeps ==
    ASSUME IInv, QueueInv', LeaseStep, ExecStep, CallStep,
           mode' \in [Workers -> {"down", "up", "stopping"}],
           pass' \in [Workers -> SUBSET Shards]
    PROVE  IInv'
PROOF
  <1>1. TypeOK'
    BY DEF QueueInv, TypeOK, WorkerTypeOK, SchedulerTypeOK, ExecStep, CallStep
  <1>2. RetryBudget'
    BY DEF QueueInv, Budgeted, RetryBudget, ExecStep
  <1>3. QED
    BY <1>1, <1>2, ExecInvKept, CallInvKept DEF IInv, QueueInv

\* The invariant includes the queue invariant, and leaving the copies alone
\* is a step of the allowed kind.
LEMMA Unpack ==
    ASSUME IInv
    PROVE  /\ QueueInv
           /\ UNCHANGED exec => ExecStep
           /\ UNCHANGED call => CallStep
           /\ UNCHANGED mode => mode' \in [Workers -> {"down", "up", "stopping"}]
           /\ UNCHANGED pass => pass' \in [Workers -> SUBSET Shards]
PROOF
  <1>1. QueueInv
    BY DEF IInv, TypeOK, QueueInv, RetryBudget, Budgeted
  <1>2. UNCHANGED exec => ExecStep
    BY DEF IInv, TypeOK, WorkerTypeOK, ExecInv, RetryBudget, ExecStep
  <1>3. UNCHANGED call => CallStep
    BY DEF IInv, TypeOK, SchedulerTypeOK, CallInv, Batch, CallStep
  <1>4. QED
    BY <1>1, <1>2, <1>3 DEF IInv, TypeOK, WorkerTypeOK

-----------------------------------------------------------------------------
(* The actions of the workers.                                             *)

\* An execution in flight, spelled out.
LEMMA InFlight ==
    ASSUME IInv, NEW l \in LeaseIds, exec[l].phase # "done"
    PROVE  /\ exec[l] \in [phase : Phases, task : Tasks, rec : Record]
           /\ exec[l].rec.lease = l /\ l # 0
           /\ exec[l].rec.retries <= MaxRetries
           /\ ExecFits(exec[l])
BY DEF IInv, TypeOK, WorkerTypeOK, Exec, NoExec, Phases, ExecInv, RetryBudget

\* The end of a call moves its execution on, or drops it.
LEMMA SettleKeeps ==
    ASSUME IInv, NEW l \in LeaseIds, exec[l].phase # "done",
           NEW answered, NEW accepted,
           NEW p \in Phases \cup {"done"}, NEW q \in Phases \cup {"done"},
           Settle(l, answered, accepted, p, q),
           p # "done" => ExecFits([exec[l] EXCEPT !.phase = p]),
           q # "done" => ExecFits([exec[l] EXCEPT !.phase = q])
    PROVE  ExecStep
PROOF
  <1> USE QueueAssumption
  <1> DEFINE x == IF ~answered THEN q ELSE IF ~accepted THEN "done" ELSE p
  <1> DEFINE e == IF x = "done" THEN NoExec ELSE [exec[l] EXCEPT !.phase = x]
  <1>1. exec' = [exec EXCEPT ![l] = e]
    BY DEF Settle
  <1>2. exec \in [LeaseIds -> Exec]
    BY DEF IInv, TypeOK, WorkerTypeOK
  <1>3. x \in Phases \cup {"done"} /\ (x # "done" => ExecFits([exec[l] EXCEPT !.phase = x]))
    OBVIOUS
  <1>4. /\ e \in Exec /\ e.rec.retries <= MaxRetries
        /\ e.phase # "done" => e.task = exec[l].task /\ e.rec.lease = l /\ ExecFits(e)
    <2>1. CASE x = "done"
      BY <2>1 DEF Exec, NoExec, NoTask
    <2>2. CASE x # "done"
      <3>1. e = [exec[l] EXCEPT !.phase = x]
        BY <2>2
      <3>2. e = [phase |-> x, task |-> exec[l].task, rec |-> exec[l].rec]
        BY <3>1, InFlight
      <3>3. ExecFits(e)
        BY <1>3, <2>2, <3>1
      <3> HIDE DEF e
      <3>4. QED
        BY <1>3, <2>2, <3>2, <3>3, InFlight DEF Exec, Phases
    <2>3. QED
      BY <2>1, <2>2
  <1> HIDE DEF e
  <1>5. exec' \in [LeaseIds -> Exec]
    BY <1>1, <1>2, <1>4
  <1>6. \A k \in LeaseIds : k # l => exec'[k] = exec[k]
    BY <1>1, <1>2
  <1>7. exec'[l] = e
    BY <1>1, <1>2
  <1>8. QED
    BY <1>4, <1>5, <1>6, <1>7 DEF ExecStep, IInv, ExecInv, RetryBudget

\* The life cycle of a worker and its poll loop.
LEMMA LifecycleKeeps ==
    ASSUME IInv, NEW w \in Workers, UNCHANGED call,
           Start(w) \/ PollBegin(w) \/ PollEnd(w) \/ Stop(w) \/ Close(w) \/ Crash(w)
    PROVE  IInv'
PROOF
  <1>1. CASE Start(w) \/ PollBegin(w) \/ PollEnd(w) \/ Stop(w)
    <2>1. UNCHANGED queueVars /\ UNCHANGED exec
      BY <1>1 DEF Start, PollBegin, PollEnd, Stop
    <2>2. /\ mode' \in [Workers -> {"down", "up", "stopping"}]
          /\ pass' \in [Workers -> SUBSET Shards]
      BY <1>1 DEF Start, PollBegin, PollEnd, Stop, IInv, TypeOK, WorkerTypeOK
    <2>3. QED
      BY <2>1, <2>2, Unpack, OthersKeepQueue, StepKeeps
  <1>2. CASE Close(w) \/ Crash(w)
    <2>1. Vanish(w)
      BY <1>2 DEF Close, Crash
    <2>2. /\ mode' \in [Workers -> {"down", "up", "stopping"}]
          /\ pass' \in [Workers -> SUBSET Shards]
      BY <2>1 DEF Vanish, IInv, TypeOK, WorkerTypeOK
    <2>3. ExecStep
      <3>1. \A l \in LeaseIds : exec'[l] = NoExec \/ exec'[l] = exec[l]
        BY <2>1 DEF Vanish
      <3>2. exec' \in [LeaseIds -> Exec]
        BY <2>1 DEF Vanish, IInv, TypeOK, WorkerTypeOK, Exec
      <3>3. NoExec.phase = "done" /\ NoExec.rec.retries <= MaxRetries
        BY QueueAssumption DEF NoExec, NoTask
      <3>4. QED
        BY <3>1, <3>2, <3>3 DEF ExecStep, IInv, ExecInv, RetryBudget
    <2>4. UNCHANGED queueVars
      BY <2>1 DEF Vanish
    <2>5. QED
      BY <2>2, <2>3, <2>4, Unpack, OthersKeepQueue, StepKeeps
  <1>3. QED
    BY <1>1, <1>2

\* A dequeue that claims a task starts the execution of the fresh lease.
LEMMA DequeueKeeps ==
    ASSUME IInv, NEW w \in Workers, NEW s \in Shards, Dequeue(w, s), UNCHANGED call
    PROVE  IInv'
PROOF
  <1> USE QueueAssumption
  <1>1. mode' = mode /\ pass' \in [Workers -> SUBSET Shards]
    BY DEF Dequeue, IInv, TypeOK, WorkerTypeOK
  <1>2. QueueInv /\ CallStep /\ mode' \in [Workers -> {"down", "up", "stopping"}]
    BY <1>1, Unpack
  <1>3. CASE UNCHANGED <<queueVars, exec>>
    BY <1>1, <1>2, <1>3, Unpack, OthersKeepQueue, StepKeeps
  <1>4. CASE DequeueWrites(w, s, {}) /\ UNCHANGED <<nextLease, exec>>
    <2>1. QueueInv' /\ LeaseStep
      BY <1>2, <1>4, DequeueKeepsQueue
    <2>2. QED
      BY <1>1, <1>2, <1>4, <2>1, Unpack, StepKeeps
  <1>5. ASSUME NEW t \in Selected(w, s), nextLease <= MaxLease,
               DequeueWrites(w, s, {t}), nextLease' = nextLease + 1
        PROVE  /\ QueueInv' /\ LeaseStep
               /\ exec' = exec => IInv'
               /\ exec' = [exec EXCEPT ![nextLease] =
                              [phase |-> "run", task |-> t, rec |-> tasks'[t]]] => IInv'
    <2>1. QueueInv' /\ LeaseStep
      BY <1>2, <1>5, DequeueKeepsQueue
    <2>2. exec' = exec => IInv'
      BY <1>1, <1>2, <2>1, Unpack, StepKeeps
    <2> DEFINE e == [phase |-> "run", task |-> t, rec |-> tasks'[t]]
    <2>3. ASSUME exec' = [exec EXCEPT ![nextLease] = e]
          PROVE  IInv'
      <3>1. t \in Tasks /\ Reclaimed(s)[t].state \in Queued
        BY DEF Selected, Candidates, Requeued, Claimable, Expired, IInv, TypeOK, QueueTypeOK
      <3>2. tasks'[t] = [Reclaimed(s)[t] EXCEPT !.state = "RUNNING", !.worker = w,
                                                !.lease = nextLease]
        BY <1>5, <3>1 DEF DequeueWrites
      <3>3. /\ tasks[t] \in Record /\ Budgeted(tasks[t])
            /\ Reclaimed(s)[t] \in {tasks[t], Reclaim(tasks[t])}
        BY <1>2, <3>1 DEF QueueInv, QueueTypeOK, Reclaimed
      <3>4. Reclaimed(s)[t] \in Record /\ Budgeted(Reclaimed(s)[t])
        BY <3>3, ReclaimFacts
      <3>5. tasks'[t] = [state |-> "RUNNING", retries |-> Reclaimed(s)[t].retries, worker |-> w,
                         lease |-> nextLease, target |-> Reclaimed(s)[t].target]
        BY <3>2, <3>4 DEF Record
      <3>6. tasks'[t].retries <= MaxRetries
        BY <3>1, <3>4, <3>5 DEF Budgeted, Queued
      <3>7. /\ nextLease \in LeaseIds /\ exec \in [LeaseIds -> Exec]
            /\ tasks' \in [Tasks -> Record]
        BY <1>5, <2>1 DEF IInv, TypeOK, QueueTypeOK, WorkerTypeOK, QueueInv
      <3>8. exec' \in [LeaseIds -> Exec]
        BY <2>3, <3>1, <3>7 DEF Exec, ActivePhases
      <3>9. /\ exec'[nextLease] = e
            /\ \A l \in LeaseIds : l # nextLease => exec'[l] = exec[l]
        BY <2>3, <3>7
      <3>10. \A u \in Tasks : u # t => tasks'[u].lease # nextLease
        <4> SUFFICES ASSUME NEW u \in Tasks, u # t
                     PROVE  tasks'[u].lease # nextLease
          OBVIOUS
        <4>1. tasks'[u] = Reclaimed(s)[u]
          BY <1>5 DEF DequeueWrites
        <4>2. /\ tasks[u] \in Record /\ Budgeted(tasks[u])
              /\ Reclaimed(s)[u] \in {tasks[u], Reclaim(tasks[u])}
          BY <1>2 DEF QueueInv, QueueTypeOK, Reclaimed
        <4>3. tasks'[u].lease \in {0, tasks[u].lease}
          BY <4>1, <4>2, ReclaimFacts
        <4>4. QED
          BY <4>3, <3>7 DEF IInv, RecordInv, TypeOK, QueueTypeOK
      <3>11. ExecInv'
        <4> SUFFICES ASSUME NEW l \in LeaseIds, exec'[l].phase # "done"
                     PROVE  /\ l < nextLease'
                            /\ exec'[l].rec.lease = l
                            /\ ExecFits(exec'[l])
                            /\ \A u \in Tasks : tasks'[u].lease = l => u = exec'[l].task
          BY DEF ExecInv, ExecFits
        <4>1. CASE l = nextLease
          BY <1>5, <3>5, <3>7, <3>9, <3>10, <4>1 DEF ExecFits
        <4>2. CASE l # nextLease
          <5>1. exec'[l] = exec[l] /\ l # 0
            BY <3>9, <4>2
          <5>2. /\ l < nextLease /\ exec[l].rec.lease = l /\ ExecFits(exec[l])
                /\ \A u \in Tasks : tasks[u].lease = l => u = exec[l].task
            BY <5>1 DEF IInv, ExecInv
          <5>3. \A u \in Tasks : tasks'[u].lease = l => tasks[u].lease = l
            BY <2>1, <4>2, <5>1 DEF LeaseStep
          <5>4. QED
            BY <1>5, <3>7, <5>1, <5>2, <5>3
        <4>3. QED
          BY <4>1, <4>2
      <3>12. RetryBudget'
        BY <2>1, <3>6, <3>9 DEF QueueInv, Budgeted, RetryBudget, IInv
      <3>13. TypeOK'
        BY <1>1, <1>2, <2>1, <3>8
           DEF TypeOK, QueueInv, WorkerTypeOK, SchedulerTypeOK, CallStep
      <3>14. CallInv'
        BY <1>2, <2>1, CallInvKept
      <3>15. QED
        BY <2>1, <3>11, <3>12, <3>13, <3>14 DEF IInv, QueueInv
    <2>4. QED
      BY <2>1, <2>2, <2>3
  <1>6. QED
    <2>1. PICK d \in Deliveries :
             IF ~d.applied
             THEN UNCHANGED <<queueVars, exec>>
             ELSE \/ /\ Selected(w, s) = {}
                     /\ DequeueWrites(w, s, {})
                     /\ UNCHANGED <<nextLease, exec>>
                  \/ \E t \in Selected(w, s) :
                     /\ nextLease <= MaxLease
                     /\ DequeueWrites(w, s, {t})
                     /\ nextLease' = nextLease + 1
                     /\ exec' = IF d.answered
                                THEN [exec EXCEPT ![nextLease] =
                                        [phase |-> "run", task |-> t, rec |-> tasks'[t]]]
                                ELSE exec
      BY DEF Dequeue
    <2>2. QED
      BY <1>3, <1>4, <1>5, <2>1

\* The renewal timer.
LEMMA RenewKeeps ==
    ASSUME IInv, NEW l \in LeaseIds, Renew(l), UNCHANGED call
    PROVE  IInv'
PROOF
  <1>1. exec[l].phase # "done"
    BY DEF Renew, ActivePhases
  <1>2. /\ exec[l].task \in Tasks /\ exec[l].rec.worker \in MaybeWorker
        /\ RenewAccepts(exec[l].task, exec[l].rec.worker, l)
        /\ RenewWrites(exec[l].task)
    BY <1>1, InFlight DEF Renew, Record
  <1>3. QueueInv' /\ LeaseStep
    BY <1>2, Unpack, OthersKeepQueue
  <1>4. QED
    BY <1>3, Unpack, StepKeeps DEF Renew, workerVars

\* The work of an execution ends, well or badly.
LEMMA FinishKeeps ==
    ASSUME IInv, NEW l \in LeaseIds, NEW outcome \in {"success", "error", "stale"},
           Finish(l, outcome), UNCHANGED call
    PROVE  IInv'
PROOF
  <1> USE QueueAssumption
  <1> DEFINE r == exec[l].rec
             again == outcome = "error" /\ r.retries < MaxRetries
             state == IF outcome = "success" THEN "COMPLETED"
                      ELSE IF again THEN "RETRYING" ELSE "FAILED"
             retries == IF again THEN r.retries + 1 ELSE r.retries
             rec == [r EXCEPT !.state = state, !.retries = retries]
             e == [phase |-> IF again THEN "retrying" ELSE "persist",
                   task |-> exec[l].task, rec |-> rec]
  <1>1. exec[l].phase = "run"
    BY DEF Finish
  <1>2. /\ exec[l] \in [phase : Phases, task : Tasks, rec : Record]
        /\ r.lease = l /\ r.retries <= MaxRetries
    BY <1>1, InFlight
  <1>3. exec' = [exec EXCEPT ![l] = e]
    BY DEF Finish
  <1>4. exec \in [LeaseIds -> Exec]
    BY DEF IInv, TypeOK, WorkerTypeOK
  <1>5. exec'[l] = e /\ \A k \in LeaseIds : k # l => exec'[k] = exec[k]
    BY <1>3, <1>4
  <1>6. /\ rec \in Record /\ rec.retries <= MaxRetries
        /\ rec.lease = l /\ rec.state = state
    <2>1. r \in Record /\ state \in States /\ retries \in Nat /\ retries <= MaxRetries
      BY <1>2 DEF Record, States, Queued, Terminal
    <2> HIDE DEF state, retries, again
    <2>2. QED
      BY <1>2, <2>1 DEF Record
  <1>7. /\ e \in Exec /\ e.rec.lease = l /\ e.rec.retries <= MaxRetries
        /\ e.task = exec[l].task /\ ExecFits(e)
    <2> HIDE DEF rec
    <2>1. QED
      BY <1>2, <1>6 DEF Exec, ActivePhases, ExecFits
  <1> HIDE DEF e
  <1>8. exec' \in [LeaseIds -> Exec]
    BY <1>3, <1>4, <1>7
  <1>9. ExecStep
    BY <1>1, <1>5, <1>7, <1>8 DEF ExecStep, IInv, ExecInv, RetryBudget
  <1>10. UNCHANGED queueVars /\ UNCHANGED mode /\ UNCHANGED pass
    BY DEF Finish
  <1>11. QED
    BY <1>9, <1>10, Unpack, OthersKeepQueue, StepKeeps

\* The terminal write, by executeTask or its recovery.
LEMMA PersistKeeps ==
    ASSUME IInv, NEW l \in LeaseIds, Persist(l), UNCHANGED call
    PROVE  IInv'
PROOF
  <1> USE QueueAssumption
  <1> DEFINE t == exec[l].task
             r == exec[l].rec
             first == exec[l].phase = "persist"
             p == IF r.state # "COMPLETED" THEN "done"
                  ELSE IF first THEN "mark" ELSE "recoverMark"
             q == IF first THEN "recoverPersist" ELSE Reschedule(l, "recoverPersist")
  <1>1. PICK d \in Deliveries :
           /\ IF d.applied /\ UpdateAccepts(t, r) THEN UpdateWrites(t, r)
                                                  ELSE UNCHANGED queueVars
           /\ Settle(l, d.answered, UpdateAccepts(t, r), p, q)
    BY DEF Persist
  <1>2. exec[l].phase \in {"persist", "recoverPersist"} /\ exec[l].phase # "done"
    BY DEF Persist
  <1>3. /\ exec[l] \in [phase : Phases, task : Tasks, rec : Record]
        /\ r.lease = l /\ l # 0 /\ r.retries <= MaxRetries
        /\ r.state \in {"COMPLETED", "FAILED"}
    BY <1>2, InFlight DEF ExecFits
  <1>4. QueueInv' /\ LeaseStep
    <2>1. CASE UpdateAccepts(t, r) /\ UpdateWrites(t, r)
      BY <1>3, <2>1, Unpack, UpdateKeepsQueue DEF Terminal, Budgeted
    <2>2. CASE UNCHANGED queueVars
      BY <2>2, Unpack, OthersKeepQueue
    <2>3. QED
      BY <1>1, <2>1, <2>2
  <1>5. p \in Phases \cup {"done"} /\ q \in Phases \cup {"done"}
    BY DEF Reschedule, Phases, ActivePhases, RecoveryPhases
  <1>6. /\ p # "done" => ExecFits([exec[l] EXCEPT !.phase = p])
        /\ q # "done" => ExecFits([exec[l] EXCEPT !.phase = q])
    BY <1>3 DEF ExecFits, Reschedule
  <1>7. ExecStep
    <2> HIDE DEF p, q
    <2>1. QED
      BY <1>1, <1>2, <1>5, <1>6, SettleKeeps
  <1>8. QED
    BY <1>4, <1>7, Unpack, StepKeeps DEF Persist

\* The URL marker.
LEMMA MarkUrlSeenKeeps ==
    ASSUME IInv, NEW l \in LeaseIds, MarkUrlSeen(l), UNCHANGED call
    PROVE  IInv'
PROOF
  <1> USE QueueAssumption
  <1> DEFINE q == IF exec[l].phase = "mark" THEN "recoverPersist"
                  ELSE Reschedule(l, "recoverPersist")
  <1>1. PICK d \in Deliveries :
           /\ IF d.applied THEN SeenWrites({Url[exec[l].task]}, "marked")
                           ELSE UNCHANGED queueVars
           /\ Settle(l, d.answered, TRUE, "done", q)
    BY DEF MarkUrlSeen
  <1>2. exec[l].phase \in {"mark", "recoverMark"} /\ exec[l].phase # "done"
    BY DEF MarkUrlSeen
  <1>3. /\ exec[l] \in [phase : Phases, task : Tasks, rec : Record]
        /\ exec[l].rec.state = "COMPLETED"
    BY <1>2, InFlight DEF ExecFits
  <1>4. QueueInv' /\ LeaseStep
    BY <1>1, <1>3, Unpack, OthersKeepQueue
  <1>5. q \in Phases \cup {"done"} /\ (q # "done" => ExecFits([exec[l] EXCEPT !.phase = q]))
    BY <1>3 DEF ExecFits, Reschedule, Phases, ActivePhases, RecoveryPhases
  <1>6. ExecStep
    <2> HIDE DEF q
    <2>1. QED
      BY <1>1, <1>2, <1>5, SettleKeeps
  <1>7. QED
    BY <1>4, <1>6, Unpack, StepKeeps DEF MarkUrlSeen

\* The status write of a task to be retried.
LEMMA RetryStatusKeeps ==
    ASSUME IInv, NEW l \in LeaseIds, RetryStatus(l), UNCHANGED call
    PROVE  IInv'
PROOF
  <1> USE QueueAssumption
  <1> DEFINE t == exec[l].task
             r == exec[l].rec
             next == IF mode[r.worker] = "up" THEN "recoverEnqueue" ELSE "requeue"
  <1>1. PICK d \in Deliveries :
           /\ IF d.applied /\ UpdateAccepts(t, r) THEN UpdateWrites(t, r)
                                                  ELSE UNCHANGED queueVars
           /\ Settle(l, d.answered, UpdateAccepts(t, r), next, next)
    BY DEF RetryStatus
  <1>2. exec[l].phase = "retrying"
    BY DEF RetryStatus
  <1>3. /\ exec[l] \in [phase : Phases, task : Tasks, rec : Record]
        /\ r.lease = l /\ l # 0 /\ r.retries <= MaxRetries /\ r.state = "RETRYING"
    BY <1>2, InFlight DEF ExecFits
  <1>4. QueueInv' /\ LeaseStep
    <2>1. CASE UpdateAccepts(t, r) /\ UpdateWrites(t, r)
      BY <1>3, <2>1, Unpack, UpdateKeepsQueue DEF Budgeted
    <2>2. CASE UNCHANGED queueVars
      BY <2>2, Unpack, OthersKeepQueue
    <2>3. QED
      BY <1>1, <2>1, <2>2
  <1>5. next \in Phases \cup {"done"} /\ ExecFits([exec[l] EXCEPT !.phase = next])
    BY <1>3 DEF ExecFits, Phases, ActivePhases, RecoveryPhases
  <1>6. ExecStep
    <2> HIDE DEF next
    <2>1. QED
      BY <1>1, <1>2, <1>5, SettleKeeps
  <1>7. QED
    BY <1>4, <1>6, Unpack, StepKeeps DEF RetryStatus

\* The enqueue that hands a failed task back to the queue.
LEMMA RequeueKeeps ==
    ASSUME IInv, NEW l \in LeaseIds, Requeue(l), UNCHANGED call
    PROVE  IInv'
PROOF
  <1> USE QueueAssumption
  <1> DEFINE t == exec[l].task
             r == [exec[l].rec EXCEPT !.state = "PENDING"]
             recs == [u \in {t} |-> r]
             q == IF exec[l].phase = "requeue" THEN "recoverEnqueue"
                  ELSE Reschedule(l, "recoverEnqueue")
  <1>1. PICK d \in Deliveries :
           /\ IF d.applied /\ EnqueueAccepts(t, r) THEN EnqueueWrites(recs)
                                                   ELSE UNCHANGED queueVars
           /\ Settle(l, d.answered, EnqueueAccepts(t, r), "done", q)
    BY DEF Requeue
  <1>2. exec[l].phase \in {"requeue", "recoverEnqueue"}
    BY DEF Requeue
  <1>3. /\ exec[l] \in [phase : Phases, task : Tasks, rec : Record]
        /\ exec[l].rec.retries <= MaxRetries /\ exec[l].rec.state = "RETRYING"
    BY <1>2, InFlight DEF ExecFits
  <1>4. r \in Record /\ r.state = "PENDING" /\ r.retries <= MaxRetries
    BY <1>3 DEF Record, States, Queued
  <1>5. QueueInv' /\ LeaseStep
    <2> HIDE DEF r
    <2>1. CASE EnqueueAccepts(t, r) /\ EnqueueWrites(recs)
      <3>1. {t} \in SUBSET Tasks /\ recs \in [{t} -> Record]
        BY <1>3, <1>4
      <3>2. \A u \in {t} : /\ EnqueueAccepts(u, recs[u]) /\ recs[u].state \in Queued
                           /\ recs[u].retries <= MaxRetries
        BY <1>4, <2>1 DEF Queued
      <3> HIDE DEF recs
      <3>3. QED
        BY <2>1, <3>1, <3>2, Unpack, EnqueueKeepsQueue
    <2>2. CASE UNCHANGED queueVars
      BY <2>2, Unpack, OthersKeepQueue
    <2>3. QED
      BY <1>1, <2>1, <2>2
  <1>6. q \in Phases \cup {"done"} /\ (q # "done" => ExecFits([exec[l] EXCEPT !.phase = q]))
    BY <1>3 DEF ExecFits, Reschedule, Phases, ActivePhases, RecoveryPhases
  <1>7. ExecStep
    <2> HIDE DEF q
    <2>1. QED
      BY <1>1, <1>2, <1>6, SettleKeeps
  <1>8. QED
    BY <1>5, <1>7, Unpack, StepKeeps DEF Requeue

-----------------------------------------------------------------------------
(* The actions of the scheduler.                                           *)

\* A call moves on with copies that fit it.
LEMMA BecomesKeeps ==
    ASSUME IInv, NEW c \in Clients, NEW k \in Call, Becomes(c, k),
           \A t \in Tasks : k.recs[t].state # "ABSENT" =>
              /\ CallFits(k.op, k.recs[t])
              /\ \/ k.recs[t].lease = 0
                 \/ k.recs[t] = call[c].recs[t]
                 \/ /\ k.recs[t].lease = tasks[t].lease
                    /\ tasks[t].state # "RUNNING"
                    /\ UNCHANGED <<tasks, nextLease>>
    PROVE  CallStep
PROOF
  <1>1. call \in [Clients -> Call] /\ call' = [call EXCEPT ![c] = k]
    BY DEF IInv, TypeOK, SchedulerTypeOK, Becomes
  <1>2. call' \in [Clients -> Call] /\ call'[c] = k
    BY <1>1
  <1>3. \A b \in Clients : b # c => call'[b] = call[b]
    BY <1>1
  <1>4. QED
    BY <1>2, <1>3 DEF CallStep, IInv, CallInv, Batch

\* An idle call holds no copies.
LEMMA IdleFacts ==
    Idle \in Call /\ \A t \in Tasks : Idle.recs[t].state = "ABSENT"
BY QueueAssumption DEF Idle, Call, NoTask, Record

\* The end of a call.
LEMMA CallEnds ==
    ASSUME IInv, NEW c \in Clients, Becomes(c, Idle)
    PROVE  CallStep
BY IdleFacts, BecomesKeeps

\* The copies of a call, spelled out.
LEMMA CallCopies ==
    ASSUME IInv, NEW c \in Clients
    PROVE  /\ call[c] \in Call
           /\ Batch(c) \in SUBSET Tasks
           /\ \A t \in Batch(c) : /\ call[c].recs[t] \in Record
                                  /\ CallFits(call[c].op, call[c].recs[t])
           /\ \A t \in Tasks : call[c].recs[t].state # "ABSENT" => t \in Batch(c)
BY DEF IInv, TypeOK, SchedulerTypeOK, Call, Batch, CallInv

\* claimUrls of a new batch.
LEMMA SubmitBeginKeeps ==
    ASSUME IInv, NEW c \in Clients, NEW B \in Batches, NEW target \in [B -> Placements],
           SubmitBegin(c, B, target)
    PROVE  IInv'
PROOF
  <1> USE QueueAssumption
  <1> DEFINE recs == [t \in Tasks |->
                        IF t \in B THEN [NoTask EXCEPT !.state = "PENDING",
                                                       !.target = target[t]]
                                   ELSE NoTask]
             k == [op |-> "submit", recs |-> recs, left |-> {Shard[t] : t \in B}]
  <1>1. B \subseteq Tasks /\ Placements \subseteq MaybeWorker
    BY SchedulerAssumption
  <1>2. \A t \in Tasks :
           /\ recs[t] \in Record
           /\ recs[t].state # "ABSENT" => CallFits("submit", recs[t]) /\ recs[t].lease = 0
    <2>1. NoTask \in Record /\ NoTask.state = "ABSENT"
      BY DEF NoTask, Record
    <2>2. ASSUME NEW t \in B
          PROVE  /\ recs[t] \in Record
                 /\ CallFits("submit", recs[t]) /\ recs[t].lease = 0
      <3>1. recs[t] = [state |-> "PENDING", retries |-> 0, worker |-> NoWorker,
                       lease |-> 0, target |-> target[t]]
        BY <1>1 DEF NoTask
      <3>2. target[t] \in MaybeWorker
        BY <1>1
      <3> HIDE DEF recs
      <3>3. QED
        BY <3>1, <3>2 DEF Record, States, Queued, CallFits
    <2>3. QED
      BY <2>1, <2>2
  <1>3. k \in Call
    <2>1. recs \in [Tasks -> Record]
      BY <1>2
    <2>2. {Shard[t] : t \in B} \in SUBSET Shards
      BY <1>1
    <2> HIDE DEF recs
    <2>3. QED
      BY <2>1, <2>2 DEF Call
  <1>4. Becomes(c, k) \/ Becomes(c, Idle)
    BY DEF SubmitBegin
  <1>5. CallStep
    <2>1. CASE Becomes(c, k)
      <3>1. k.op = "submit" /\ k.recs = recs
        OBVIOUS
      <3> HIDE DEF k, recs
      <3>2. QED
        BY <1>2, <1>3, <2>1, <3>1, BecomesKeeps
    <2>2. CASE Becomes(c, Idle)
      BY <2>2, CallEnds
    <2>3. QED
      BY <1>4, <2>1, <2>2
  <1>6. QueueInv' /\ LeaseStep
    <2>1. BatchUrls(B) \in SUBSET Urls
      BY <1>1 DEF BatchUrls
    <2>2. SeenWrites(BatchUrls(B), "claimed")
      BY DEF SubmitBegin
    <2>3. QED
      BY <2>1, <2>2, Unpack, OthersKeepQueue
  <1>7. QED
    BY <1>5, <1>6, Unpack, StepKeeps DEF SubmitBegin, workerVars

\* One shard group of enqueueBatch.
LEMMA SubmitGroupKeeps ==
    ASSUME IInv, NEW c \in Clients, NEW s \in Shards, SubmitGroup(c, s)
    PROVE  IInv'
PROOF
  <1> USE QueueAssumption
  <1> DEFINE group == {t \in Batch(c) : Shard[t] = s}
             recs == [t \in group |-> call[c].recs[t]]
             accepted == \A t \in group : EnqueueAccepts(t, recs[t])
             rest == call[c].left \ {s}
             k1 == [call[c] EXCEPT !.op = "compensate", !.left = {}]
             k2 == [call[c] EXCEPT !.left = rest]
  <1>1. PICK d \in Deliveries :
           /\ IF d.applied /\ accepted THEN EnqueueWrites(recs) ELSE UNCHANGED queueVars
           /\ Becomes(c, IF ~(d.answered /\ accepted) THEN k1
                         ELSE IF rest = {} THEN Idle ELSE k2)
    BY DEF SubmitGroup
  <1>2. call[c].op = "submit"
    BY DEF SubmitGroup
  <1>3. /\ call[c] \in Call /\ Batch(c) \in SUBSET Tasks
        /\ \A t \in Batch(c) : /\ call[c].recs[t] \in Record
                               /\ CallFits("submit", call[c].recs[t])
    BY <1>2, CallCopies
  <1>4. QueueInv' /\ LeaseStep
    <2>1. CASE accepted /\ EnqueueWrites(recs)
      <3>1. group \in SUBSET Tasks /\ recs \in [group -> Record]
        BY <1>3
      <3>2. \A t \in group : /\ EnqueueAccepts(t, recs[t]) /\ recs[t].state \in Queued
                             /\ recs[t].retries <= MaxRetries
        <4> SUFFICES ASSUME NEW t \in group
                     PROVE  /\ EnqueueAccepts(t, recs[t]) /\ recs[t].state \in Queued
                            /\ recs[t].retries <= MaxRetries
          OBVIOUS
        <4>1. recs[t] = call[c].recs[t] /\ EnqueueAccepts(t, recs[t])
          BY <2>1
        <4>2. CallFits("submit", call[c].recs[t])
          BY <1>3
        <4>3. QED
          BY <4>1, <4>2 DEF CallFits, Queued
      <3> HIDE DEF recs, group
      <3>3. QED
        BY <2>1, <3>1, <3>2, Unpack, EnqueueKeepsQueue
    <2>2. CASE UNCHANGED queueVars
      BY <2>2, Unpack, OthersKeepQueue
    <2>3. QED
      BY <1>1, <2>1, <2>2
  <1>5. CallStep
    <2>1. CASE Becomes(c, k1)
      <3>1. k1 \in Call /\ k1.op = "compensate" /\ k1.recs = call[c].recs
        BY <1>3 DEF Call
      <3>2. \A t \in Tasks : k1.recs[t].state # "ABSENT" =>
                /\ CallFits(k1.op, k1.recs[t])
                /\ k1.recs[t] = call[c].recs[t]
        BY <1>3, <3>1 DEF Batch, CallFits
      <3> HIDE DEF k1
      <3>3. QED
        BY <2>1, <3>1, <3>2, BecomesKeeps
    <2>2. CASE Becomes(c, k2)
      <3>1. k2 \in Call /\ k2.op = "submit" /\ k2.recs = call[c].recs
        BY <1>2, <1>3 DEF Call
      <3>2. \A t \in Tasks : k2.recs[t].state # "ABSENT" =>
                /\ CallFits(k2.op, k2.recs[t])
                /\ k2.recs[t] = call[c].recs[t]
        BY <1>3, <3>1 DEF Batch
      <3> HIDE DEF k2
      <3>3. QED
        BY <2>2, <3>1, <3>2, BecomesKeeps
    <2>3. CASE Becomes(c, Idle)
      BY <2>3, CallEnds
    <2>4. QED
      BY <1>1, <2>1, <2>2, <2>3
  <1>6. QED
    BY <1>4, <1>5, Unpack, StepKeeps DEF SubmitGroup, workerVars

\* compensateUrlClaim.
LEMMA CompensateKeeps ==
    ASSUME IInv, NEW c \in Clients, Compensate(c)
    PROVE  IInv'
PROOF
  <1>1. SeenWrites(BatchUrls(Batch(c)), "absent") \/ UNCHANGED queueVars
    BY DEF Compensate
  <1>2. BatchUrls(Batch(c)) \in SUBSET Urls
    BY QueueAssumption, CallCopies DEF BatchUrls
  <1>3. QueueInv' /\ LeaseStep
    BY <1>1, <1>2, Unpack, OthersKeepQueue
  <1>4. CallStep
    BY CallEnds DEF Compensate
  <1>5. QED
    BY <1>3, <1>4, Unpack, StepKeeps DEF Compensate, workerVars

\* The write of cancelTask.
LEMMA CancelWriteKeeps ==
    ASSUME IInv, NEW c \in Clients, NEW t \in Tasks, CancelWrite(c, t)
    PROVE  IInv'
PROOF
  <1> DEFINE r == call[c].recs[t]
  <1>1. \/ UpdateAccepts(t, r) /\ UpdateWrites(t, r)
        \/ UNCHANGED queueVars
    BY DEF CancelWrite
  <1>2. r \in Record /\ r.state = "CANCELLED" /\ r.retries <= MaxRetries + 1
    BY CallCopies DEF CancelWrite, CallFits
  <1>3. Budgeted(r)
    BY <1>2, QueueAssumption DEF Record, Budgeted
  <1>4. QueueInv' /\ LeaseStep
    <2>1. CASE UpdateAccepts(t, r) /\ UpdateWrites(t, r)
      <3> HIDE DEF r
      <3>1. QED
        BY <1>2, <1>3, <2>1, Unpack, UpdateKeepsQueue DEF Terminal
    <2>2. CASE UNCHANGED queueVars
      BY <2>2, Unpack, OthersKeepQueue
    <2>3. QED
      BY <1>1, <2>1, <2>2
  <1>5. CallStep
    BY CallEnds DEF CancelWrite
  <1>6. QED
    BY <1>4, <1>5, Unpack, StepKeeps DEF CancelWrite, workerVars

\* The write of retryTask.
LEMMA RetryWriteKeeps ==
    ASSUME IInv, NEW c \in Clients, NEW t \in Tasks, RetryWrite(c, t)
    PROVE  IInv'
PROOF
  <1> DEFINE r == call[c].recs[t]
             recs == [u \in {t} |-> r]
  <1>1. \/ EnqueueAccepts(t, r) /\ EnqueueWrites(recs)
        \/ UNCHANGED queueVars
    BY DEF RetryWrite
  <1>2. r \in Record /\ r.state = "RETRYING" /\ r.retries = 0
    BY CallCopies DEF RetryWrite, CallFits
  <1>3. QueueInv' /\ LeaseStep
    <2> HIDE DEF r
    <2>1. CASE EnqueueAccepts(t, r) /\ EnqueueWrites(recs)
      <3>1. {t} \in SUBSET Tasks /\ recs \in [{t} -> Record]
        BY <1>2
      <3>2. \A u \in {t} : /\ EnqueueAccepts(u, recs[u]) /\ recs[u].state \in Queued
                           /\ recs[u].retries <= MaxRetries
        BY <1>2, <2>1, QueueAssumption DEF Queued
      <3> HIDE DEF recs
      <3>3. QED
        BY <2>1, <3>1, <3>2, Unpack, EnqueueKeepsQueue
    <2>2. CASE UNCHANGED queueVars
      BY <2>2, Unpack, OthersKeepQueue
    <2>3. QED
      BY <1>1, <2>1, <2>2
  <1>4. CallStep
    BY CallEnds DEF RetryWrite
  <1>5. QED
    BY <1>3, <1>4, Unpack, StepKeeps DEF RetryWrite, workerVars

\* The reads of cancelTask and retryTask copy a record that is not running.
LEMMA ReadKeeps ==
    ASSUME IInv, NEW c \in Clients, NEW t \in Tasks,
           CancelRead(c, t) \/ \E target \in Placements : RetryRead(c, t, target)
    PROVE  IInv'
PROOF
  <1> USE QueueAssumption
  <1>1. UNCHANGED <<queueVars, workerVars>> /\ tasks[t].state # "RUNNING"
    BY DEF CancelRead, RetryRead
  <1>2. tasks[t] \in Record /\ tasks[t].retries <= MaxRetries + 1
    BY DEF IInv, TypeOK, QueueTypeOK, RetryBudget, Record
  <1>3. \E op \in {"cancel", "retry"}, r \in Record :
           /\ Becomes(c, [op |-> op, left |-> {}, recs |-> Only(t, r)])
           /\ r.lease = tasks[t].lease /\ CallFits(op, r)
    <2>1. CASE CancelRead(c, t)
      <3> DEFINE r == [tasks[t] EXCEPT !.state = "CANCELLED"]
      <3>1. /\ r \in Record /\ r.lease = tasks[t].lease
            /\ r.state = "CANCELLED" /\ r.retries <= MaxRetries + 1
        BY <1>2 DEF Record, States, Terminal
      <3>2. Becomes(c, [op |-> "cancel", left |-> {}, recs |-> Only(t, r)])
        BY <2>1 DEF CancelRead
      <3> HIDE DEF r
      <3>3. QED
        BY <3>1, <3>2 DEF CallFits
    <2>2. ASSUME NEW target \in Placements, RetryRead(c, t, target)
          PROVE  \E op \in {"cancel", "retry"}, r \in Record :
                    /\ Becomes(c, [op |-> op, left |-> {}, recs |-> Only(t, r)])
                    /\ r.lease = tasks[t].lease /\ CallFits(op, r)
      <3> DEFINE r == [tasks[t] EXCEPT !.state = "RETRYING", !.retries = 0, !.target = target]
      <3>0. target \in MaybeWorker
        BY <2>2, SchedulerAssumption
      <3>1. /\ r \in Record /\ r.lease = tasks[t].lease
            /\ r.state = "RETRYING" /\ r.retries = 0
        BY <1>2, <3>0 DEF Record, States, Queued
      <3>2. Becomes(c, [op |-> "retry", left |-> {}, recs |-> Only(t, r)])
        BY <2>2 DEF RetryRead
      <3> HIDE DEF r
      <3>3. CallFits("retry", r)
        BY <3>1 DEF CallFits
      <3>4. QED
        BY <3>1, <3>2, <3>3
    <2>3. QED
      BY <2>1, <2>2
  <1>4. PICK op \in {"cancel", "retry"}, r \in Record :
           /\ Becomes(c, [op |-> op, left |-> {}, recs |-> Only(t, r)])
           /\ r.lease = tasks[t].lease /\ CallFits(op, r)
    BY <1>3
  <1>5. CallStep
    <2> DEFINE k == [op |-> op, left |-> {}, recs |-> Only(t, r)]
    <2>1. Only(t, r) \in [Tasks -> Record]
      BY DEF Only, NoTask, Record
    <2>2. k \in Call
      BY <2>1 DEF Call
    <2>3. \A u \in Tasks : k.recs[u].state # "ABSENT" =>
              /\ CallFits(k.op, k.recs[u])
              /\ k.recs[u].lease = tasks[u].lease /\ tasks[u].state # "RUNNING"
      BY <1>1, <1>4 DEF Only, NoTask
    <2>4. UNCHANGED <<tasks, nextLease>> /\ Becomes(c, k)
      BY <1>1, <1>4 DEF queueVars
    <2> HIDE DEF k
    <2>5. QED
      BY <2>2, <2>3, <2>4, BecomesKeeps
  <1>6. QED
    BY <1>1, <1>5, Unpack, OthersKeepQueue, StepKeeps DEF workerVars
-----------------------------------------------------------------------------
(* The invariant.                                                          *)

\* The initial states: an empty queue, no process, no call.
LEMMA InitHolds == Init => IInv
PROOF
  <1> SUFFICES ASSUME Init PROVE IInv
    OBVIOUS
  <1> USE QueueAssumption DEF Init, QueueInit, WorkerInit, SchedulerInit
  <1>1. NoTask \in Record /\ NoTask.state = "ABSENT" /\ NoTask.lease = 0 /\ NoTask.retries = 0
    BY DEF NoTask, Record
  <1>2. \A l \in LeaseIds : exec[l] = NoExec /\ NoExec.phase = "done" /\ NoExec.rec = NoTask
    BY DEF NoExec
  <1>3. TypeOK
    BY <1>1, IdleFacts DEF TypeOK, QueueTypeOK, WorkerTypeOK, SchedulerTypeOK, Exec
  <1>4. NoLostTask /\ RecordInv
    BY <1>1 DEF NoLostTask, RecordInv, Queued, Terminal
  <1>5. RetryBudget
    BY <1>1, <1>2 DEF RetryBudget
  <1>6. ExecInv
    BY <1>2 DEF ExecInv
  <1>7. CallInv
    BY IdleFacts DEF CallInv, Batch
  <1>8. QED
    BY <1>3, <1>4, <1>5, <1>6, <1>7 DEF IInv

\* Every step of every actor, and the passing of time, keeps the invariant.
LEMMA NextKeeps ==
    ASSUME IInv, Next
    PROVE  IInv'
PROOF
  <1>1. CASE WorkerNext
    <2>1. UNCHANGED call
      BY <1>1 DEF WorkerNext
    <2>2. ASSUME NEW w \in Workers,
                 Start(w) \/ PollBegin(w) \/ PollEnd(w) \/ Stop(w) \/ Close(w) \/ Crash(w)
          PROVE  IInv'
      BY <2>1, <2>2, LifecycleKeeps
    <2>3. ASSUME NEW w \in Workers, NEW s \in Shards, Dequeue(w, s)
          PROVE  IInv'
      BY <2>1, <2>3, DequeueKeeps
    <2>4. ASSUME NEW l \in LeaseIds,
                 \/ Renew(l) \/ Persist(l) \/ MarkUrlSeen(l) \/ RetryStatus(l) \/ Requeue(l)
                 \/ \E outcome \in {"success", "error", "stale"} : Finish(l, outcome)
          PROVE  IInv'
      BY <2>1, <2>4, RenewKeeps, PersistKeeps, MarkUrlSeenKeeps, RetryStatusKeeps,
         RequeueKeeps, FinishKeeps
    <2>5. QED
      BY <1>1, <2>2, <2>3, <2>4 DEF WorkerNext
  <1>2. CASE SchedulerNext
    <2>1. PICK c \in Clients :
             \/ \E B \in Batches : \E target \in [B -> Placements] : SubmitBegin(c, B, target)
             \/ \E s \in Shards : SubmitGroup(c, s)
             \/ Compensate(c)
             \/ \E t \in Tasks : \/ CancelRead(c, t) \/ CancelWrite(c, t) \/ RetryWrite(c, t)
                                 \/ \E target \in Placements : RetryRead(c, t, target)
      BY <1>2 DEF SchedulerNext
    <2>2. QED
      BY <2>1, SubmitBeginKeeps, SubmitGroupKeeps, CompensateKeeps, CancelWriteKeeps,
         RetryWriteKeeps, ReadKeeps
  <1>3. CASE TimeNext
    <2>1. UNCHANGED <<workerVars, call>>
      BY <1>3 DEF TimeNext
    <2>2. QueueInv' /\ LeaseStep
      BY <1>3, Unpack, OthersKeepQueue DEF TimeNext
    <2>3. QED
      BY <2>1, <2>2, Unpack, StepKeeps DEF workerVars
  <1>4. QED
    BY <1>1, <1>2, <1>3 DEF Next

\* A step that changes none of the variables keeps the invariant.
LEMMA StutterKeeps ==
    ASSUME IInv, UNCHANGED vars
    PROVE  IInv'
PROOF
  <1>1. UNCHANGED queueVars /\ UNCHANGED <<exec, call, mode, pass>>
    BY DEF vars, queueVars
  <1>2. QED
    BY <1>1, Unpack, OthersKeepQueue, StepKeeps

\* The inductive invariant holds in every reachable state.
THEOREM Invariance == Spec => []IInv
PROOF
  <1>1. Init => IInv
    BY InitHolds
  <1>2. IInv /\ [Next]_vars => IInv'
    BY NextKeeps, StutterKeeps
  <1>3. QED
    BY <1>1, <1>2, PTL DEF Spec

\* Type correctness of the queue, the workers and the scheduler calls.
THEOREM TypeCorrect == Spec => []TypeOK
PROOF
  <1>1. IInv => TypeOK
    BY DEF IInv
  <1>2. QED
    BY <1>1, Invariance, PTL

\* No interleaving of scripts, crashes and lost answers strands a task
\* outside both sorted sets or leaves it in both.
THEOREM TasksNotLost == Spec => []NoLostTask
PROOF
  <1>1. IInv => NoLostTask
    BY DEF IInv
  <1>2. QED
    BY <1>1, Invariance, PTL

\* Worker retries and lease reclaims together stay within maxRetries.
THEOREM RetriesBounded == Spec => []RetryBudget
PROOF
  <1>1. IInv => RetryBudget
    BY DEF IInv
  <1>2. QED
    BY <1>1, Invariance, PTL
-----------------------------------------------------------------------------
(* Who may change a record.  Each writer below excludes a different set of *)
(* records, and between them they give the fencing properties.             *)

\* The execution that holds the lease of a task not yet finished.
LeaseHolderWrites(t) ==
    /\ \E l \in LeaseIds : exec[l].task = t /\ tasks[t].lease = l
    /\ tasks'[t].lease = tasks[t].lease
    /\ tasks[t].state \in Queued \cup {"RUNNING"}

\* A dequeue: it reclaims an expired lease or claims a queued task.
DequeuerWrites(t) == processing[t] = "expired" \/ tasks[t].state \in Queued

\* A scheduler call, on a task that is neither running nor completed.
CallerWrites(t) ==
    /\ tasks[t].state \notin {"RUNNING", "COMPLETED"}
    /\ \E c \in Clients : /\ t \in Batch(c)
                          /\ \/ call[c].op \in {"submit", "retry"}
                             \/ call[c].op = "cancel" /\ tasks'[t].state = "CANCELLED"

\* The expiry of a finished task's record.
ExpiryWrites(t) == tasks[t].state \in Terminal /\ tasks'[t] = NoTask

\* An accepted write of an execution is one of the current lease holder.
LEMMA ExecWriter ==
    ASSUME IInv, NEW l \in LeaseIds, NEW t \in Tasks, tasks'[t] # tasks[t],
           Persist(l) \/ MarkUrlSeen(l) \/ RetryStatus(l) \/ Requeue(l)
    PROVE  LeaseHolderWrites(t)
PROOF
  <1>1. exec[l].phase # "done"
    BY DEF Persist, MarkUrlSeen, RetryStatus, Requeue
  <1>2. exec[l].task \in Tasks /\ exec[l].rec \in Record /\ exec[l].rec.lease = l /\ l # 0
    BY <1>1, InFlight
  <1>3. NoLostTask /\ tasks \in [Tasks -> Record]
    BY DEF IInv, TypeOK, QueueTypeOK
  <1>4. CASE Persist(l) \/ RetryStatus(l)
    <2>1. /\ UpdateAccepts(exec[l].task, exec[l].rec)
          /\ UpdateWrites(exec[l].task, exec[l].rec)
      BY <1>4 DEF Persist, RetryStatus, queueVars
    <2>2. exec[l].task = t /\ tasks'[t] = exec[l].rec
      BY <1>2, <1>3, <2>1 DEF UpdateWrites
    <2>3. tasks[t].lease = l /\ processing[t] = "live"
      BY <1>2, <2>1, <2>2 DEF UpdateAccepts
    <2>4. tasks[t].state \in Queued \cup {"RUNNING"}
      BY <1>3, <2>3 DEF NoLostTask, Record, States
    <2>5. QED
      BY <1>2, <2>2, <2>3, <2>4 DEF LeaseHolderWrites
  <1>5. CASE MarkUrlSeen(l)
    BY <1>5 DEF MarkUrlSeen, SeenWrites, queueVars
  <1>6. CASE Requeue(l)
    <2> DEFINE u == exec[l].task
               r == [exec[l].rec EXCEPT !.state = "PENDING"]
    <2>1. EnqueueAccepts(u, r) /\ EnqueueWrites([v \in {u} |-> r])
      BY <1>6 DEF Requeue, queueVars
    <2>2. r.lease = l
      BY <1>2 DEF Record
    <2>3. u = t /\ tasks'[t] = r
      BY <1>2, <1>3, <2>1 DEF EnqueueWrites
    <2>4. tasks[t].lease = l /\ tasks[t].state \in Queued \cup {"RUNNING"}
      BY <1>2, <2>1, <2>2, <2>3 DEF EnqueueAccepts, EnqueueOwnedAccepts
    <2>5. QED
      BY <2>2, <2>3, <2>4 DEF LeaseHolderWrites
  <1>7. QED
    BY <1>4, <1>5, <1>6

\* A dequeue leaves alone the tasks it neither reclaims nor claims.
LEMMA DequeueWriter ==
    ASSUME IInv, NEW w \in Workers, NEW s \in Shards, Dequeue(w, s),
           NEW t \in Tasks, tasks'[t] # tasks[t]
    PROVE  DequeuerWrites(t)
PROOF
  <1>1. PICK C \in SUBSET Selected(w, s) : DequeueWrites(w, s, C)
    BY DEF Dequeue, queueVars
  <1>2. CASE t \in Expired(s)
    BY <1>2 DEF Expired, DequeuerWrites
  <1>3. CASE t \notin Expired(s)
    <2>1. Reclaimed(s)[t] = tasks[t]
      BY <1>3 DEF Reclaimed
    <2>2. t \in C
      BY <1>1, <2>1 DEF DequeueWrites
    <2>3. QED
      BY <2>1, <2>2 DEF Selected, Claimable, DequeuerWrites
  <1>4. QED
    BY <1>2, <1>3

\* The scripts refuse a scheduler call's copy of a running or completed task.
LEMMA CallRefused ==
    ASSUME IInv, NEW c \in Clients, NEW t \in Batch(c),
           \/ UpdateAccepts(t, call[c].recs[t])
           \/ EnqueueAccepts(t, call[c].recs[t])
    PROVE  tasks[t].state \notin {"RUNNING", "COMPLETED"}
PROOF
  <1> DEFINE r == call[c].recs[t]
  <1>1. t \in Tasks /\ r.lease = tasks[t].lease
    BY DEF Batch, UpdateAccepts, EnqueueAccepts, EnqueueOwnedAccepts, EnqueueUnownedAccepts
  <1>2. r.lease = 0 => tasks[t].state \notin {"RUNNING", "COMPLETED"}
    BY <1>1 DEF IInv, RecordInv
  <1>3. r.lease # 0 => tasks[t].state # "RUNNING"
    BY <1>1 DEF IInv, CallInv
  <1>4. r.lease # 0 => tasks[t].state # "COMPLETED"
    BY <1>1 DEF UpdateAccepts, EnqueueAccepts, EnqueueOwnedAccepts, IInv, NoLostTask,
                Terminal, Queued
  <1>5. QED
    BY <1>2, <1>3, <1>4

\* A scheduler call writes the records of its batch only.
LEMMA CallWriter ==
    ASSUME IInv, SchedulerNext, NEW t \in Tasks, tasks'[t] # tasks[t]
    PROVE  CallerWrites(t)
PROOF
  <1>1. PICK c \in Clients :
           \/ \E B \in Batches : \E target \in [B -> Placements] : SubmitBegin(c, B, target)
           \/ \E s \in Shards : SubmitGroup(c, s)
           \/ Compensate(c)
           \/ \E u \in Tasks : \/ CancelRead(c, u) \/ CancelWrite(c, u) \/ RetryWrite(c, u)
                               \/ \E target \in Placements : RetryRead(c, u, target)
    BY DEF SchedulerNext
  <1>2. tasks \in [Tasks -> Record]
    BY DEF IInv, TypeOK, QueueTypeOK
  <1>3. ASSUME NEW s \in Shards, SubmitGroup(c, s)
        PROVE  CallerWrites(t)
    <2> DEFINE group == {u \in Batch(c) : Shard[u] = s}
               recs == [u \in group |-> call[c].recs[u]]
    <2>1. /\ \A u \in group : EnqueueAccepts(u, recs[u])
          /\ EnqueueWrites(recs)
          /\ call[c].op = "submit"
      BY <1>3 DEF SubmitGroup, queueVars
    <2>2. t \in group
      BY <1>2, <2>1 DEF EnqueueWrites
    <2>3. t \in Batch(c) /\ EnqueueAccepts(t, call[c].recs[t])
      BY <2>1, <2>2
    <2>4. QED
      BY <2>1, <2>3, CallRefused DEF CallerWrites
  <1>4. ASSUME NEW u \in Tasks, CancelWrite(c, u)
        PROVE  CallerWrites(t)
    <2>1. /\ UpdateAccepts(u, call[c].recs[u]) /\ UpdateWrites(u, call[c].recs[u])
          /\ call[c].op = "cancel" /\ u \in Batch(c)
      BY <1>4 DEF CancelWrite, queueVars
    <2>2. t = u /\ tasks'[t] = call[c].recs[t]
      BY <1>2, <2>1 DEF UpdateWrites
    <2>3. call[c].recs[t].state = "CANCELLED"
      BY <2>1, <2>2, CallCopies DEF CallFits
    <2>4. QED
      BY <2>1, <2>2, <2>3, CallRefused DEF CallerWrites
  <1>5. ASSUME NEW u \in Tasks, RetryWrite(c, u)
        PROVE  CallerWrites(t)
    <2>1. /\ EnqueueAccepts(u, call[c].recs[u])
          /\ EnqueueWrites([v \in {u} |-> call[c].recs[u]])
          /\ call[c].op = "retry" /\ u \in Batch(c)
      BY <1>5 DEF RetryWrite, queueVars
    <2>2. t = u
      BY <1>2, <2>1 DEF EnqueueWrites
    <2>3. QED
      BY <2>1, <2>2, CallRefused DEF CallerWrites
  <1>6. QED
    BY <1>1, <1>3, <1>4, <1>5
       DEF SubmitBegin, Compensate, CancelRead, RetryRead, SeenWrites, queueVars

\* Every change of a record is the work of one of the four writers.
LEMMA Writers ==
    ASSUME IInv, Next, NEW t \in Tasks, tasks'[t] # tasks[t]
    PROVE  \/ LeaseHolderWrites(t) \/ DequeuerWrites(t)
           \/ CallerWrites(t) \/ ExpiryWrites(t)
PROOF
  <1>1. CASE WorkerNext
    <2>1. \/ \E w \in Workers, s \in Shards : Dequeue(w, s)
          \/ \E l \in LeaseIds : Persist(l) \/ MarkUrlSeen(l) \/ RetryStatus(l) \/ Requeue(l)
      BY <1>1 DEF WorkerNext, Start, PollBegin, PollEnd, Stop, Close, Crash, Vanish,
                  Renew, RenewWrites, Finish, queueVars
    <2>2. QED
      BY <2>1, ExecWriter, DequeueWriter
  <1>2. CASE SchedulerNext
    BY <1>2, CallWriter
  <1>3. CASE TimeNext
    <2>1. tasks \in [Tasks -> Record]
      BY DEF IInv, TypeOK, QueueTypeOK
    <2>2. \E u \in Tasks : RecordElapses(u)
      BY <1>3 DEF TimeNext, LeaseElapses, UrlElapses
    <2>3. QED
      BY <2>1, <2>2 DEF RecordElapses, ExpiryWrites
  <1>4. QED
    BY <1>1, <1>2, <1>3 DEF Next

\* A COMPLETED record never changes again, except that it expires.
THEOREM CompletionFinal == Spec => CompletedFinal
PROOF
  <1>1. IInv /\ [Next]_vars =>
           [\A t \in Tasks :
              tasks[t].state = "COMPLETED" => tasks'[t] \in {tasks[t], NoTask}]_vars
    <2> SUFFICES ASSUME IInv, Next, NEW t \in Tasks, tasks[t].state = "COMPLETED",
                        tasks'[t] # tasks[t]
                 PROVE  tasks'[t] = NoTask
      BY DEF vars
    <2>1. processing[t] = "absent"
      BY DEF IInv, NoLostTask, Terminal
    <2>2. QED
      BY <2>1, Writers DEF LeaseHolderWrites, DequeuerWrites, CallerWrites, ExpiryWrites,
                           Queued
  <1>2. QED
    BY <1>1, Invariance, PTL DEF Spec, CompletedFinal

\* While its lease is live, only the lease holder changes a running record.
THEOREM LeaseFences == Spec => LiveLeaseFenced
PROOF
  <1>1. IInv /\ [Next]_vars =>
           [\A t \in Tasks :
              /\ tasks[t].state = "RUNNING"
              /\ processing[t] = "live"
              /\ tasks'[t] # tasks[t]
              => /\ exec[tasks[t].lease].task = t
                 /\ tasks'[t].lease = tasks[t].lease]_vars
    <2> SUFFICES ASSUME IInv, Next, NEW t \in Tasks, tasks[t].state = "RUNNING",
                        processing[t] = "live", tasks'[t] # tasks[t]
                 PROVE  /\ exec[tasks[t].lease].task = t
                        /\ tasks'[t].lease = tasks[t].lease
      BY DEF vars
    <2>1. QED
      BY Writers DEF LeaseHolderWrites, DequeuerWrites, CallerWrites, ExpiryWrites,
                     Queued, Terminal
  <1>2. QED
    BY <1>1, Invariance, PTL DEF Spec, LiveLeaseFenced

\* Neither a worker nor a reclaim brings a cancelled task back.
THEOREM CancellationSticks == Spec => CancelSticks
PROOF
  <1>1. IInv /\ [Next]_vars =>
           [\A t \in Tasks :
              /\ tasks[t].state = "CANCELLED"
              /\ tasks'[t].state \notin {"CANCELLED", "ABSENT"}
              => \E c \in Clients : /\ call[c].op \in {"submit", "retry"}
                                    /\ t \in Batch(c)]_vars
    <2> SUFFICES ASSUME IInv, Next, NEW t \in Tasks, tasks[t].state = "CANCELLED",
                        tasks'[t].state \notin {"CANCELLED", "ABSENT"}
                 PROVE  \E c \in Clients : /\ call[c].op \in {"submit", "retry"}
                                           /\ t \in Batch(c)
      BY DEF vars
    <2>1. processing[t] = "absent"
      BY DEF IInv, NoLostTask, Terminal
    <2>2. QED
      BY <2>1, Writers DEF LeaseHolderWrites, DequeuerWrites, CallerWrites, ExpiryWrites,
                           Queued, NoTask
  <1>2. QED
    BY <1>1, Invariance, PTL DEF Spec, CancelSticks
-----------------------------------------------------------------------------
(* The claims of URLs.  For any partitions, lost answers and expiry: only  *)
(* three steps take the claim away from a task that is recorded.           *)

Present(t) == tasks[t].state # "ABSENT"
Claiming(c) == call[c].op \in {"submit", "compensate"}

\* A recorded task, or a call that may still record one, needs this claim.
InUse(u) == \/ \E t \in Tasks : Present(t) /\ Url[t] = u
            \/ \E c \in Clients : Claiming(c) /\ \E t \in Batch(c) : Url[t] = u

\* A step that is none of the three: compensateUrlClaim of a call that recorded
\* a part of its batch, and releases the URLs of that part as well; the thirty
\* days of a claim that is in use; and cancelTask or retryTask answering for a
\* record that is gone, which their write brings back.
NoOrphan ==
    /\ \A c \in Clients : Compensate(c) => \A t \in Batch(c) : ~Present(t)
    /\ \A u \in Urls : UrlElapses(u) /\ UNCHANGED call => ~InUse(u)
    /\ \A c \in Clients, t \in Tasks :
          CancelWrite(c, t) \/ RetryWrite(c, t) => Present(t)

\* The URL of a recorded task stays claimed, also once the task is finished.
ClaimsKept == \A t \in Tasks : Present(t) => seen[Url[t]] # "absent"

\* A call that may still release its claims is the only one to have them, and
\* what is recorded of these URLs it has recorded itself.
ClaimsOwned ==
    \A c \in Clients : Claiming(c) =>
       \A t \in Batch(c) :
          /\ seen[Url[t]] # "absent"
          /\ \A u \in Tasks : Url[u] = Url[t] /\ Present(u) => u \in Batch(c)
ClaimsApart ==
    \A c, d \in Clients : c # d /\ Claiming(c) /\ Claiming(d) =>
       \A t \in Batch(c), u \in Batch(d) : Url[t] # Url[u]

UrlInv == ClaimsKept /\ ClaimsOwned /\ ClaimsApart

\* A step that records no task and ends no claim.
QuietStep ==
    /\ \A t \in Tasks : Present(t)' => Present(t)
    /\ \A u \in Urls : seen[u] # "absent" => seen'[u] # "absent"

\* A step that records at most tasks of the batch call c has claimed, and ends
\* no claim.
OwnStep(c) ==
    /\ \A t \in Tasks : Present(t)' => Present(t) \/ (Claiming(c) /\ t \in Batch(c))
    /\ \A u \in Urls : seen[u] # "absent" => seen'[u] # "absent"

\* A quiet step keeps the claims of the calls that go on as they were.
LEMMA QuietKeeps ==
    ASSUME UrlInv, QuietStep, UNCHANGED call
    PROVE  UrlInv'
PROOF
  <1> USE QueueAssumption DEF UrlInv, QuietStep, Batch, Claiming
  <1>1. ClaimsKept'
    BY DEF ClaimsKept
  <1>2. ClaimsOwned'
    BY DEF ClaimsOwned
  <1>3. ClaimsApart'
    BY DEF ClaimsApart
  <1>4. QED
    BY <1>1, <1>2, <1>3

\* A call moves on: it gives its claims up or goes on with the same batch, and
\* what the step records is of that batch.
LEMMA CallMoves ==
    ASSUME IInv, UrlInv, NEW c \in Clients, NEW k \in Call, Becomes(c, k),
           \/ k.op \notin {"submit", "compensate"}
           \/ Claiming(c) /\ k.recs = call[c].recs,
           OwnStep(c)
    PROVE  UrlInv'
PROOF
  <1> USE QueueAssumption DEF UrlInv, OwnStep
  <1>1. /\ call'[c] = k
        /\ \A d \in Clients : d # c => call'[d] = call[d]
    BY DEF Becomes, IInv, TypeOK, SchedulerTypeOK
  <1>2. /\ Batch(c)' = {t \in Tasks : k.recs[t].state # "ABSENT"}
        /\ Claiming(c)' <=> k.op \in {"submit", "compensate"}
        /\ \A d \in Clients : d # c => Batch(d)' = Batch(d) /\ (Claiming(d)' <=> Claiming(d))
    BY <1>1 DEF Batch, Claiming
  <1>3. \A d \in Clients : Claiming(d)' => Claiming(d) /\ Batch(d)' = Batch(d)
    BY <1>2 DEF Batch
  <1>4. ClaimsKept'
    BY DEF ClaimsKept, ClaimsOwned
  <1>5. ClaimsOwned'
    <2> SUFFICES ASSUME NEW d \in Clients, Claiming(d)', NEW t \in Batch(d)'
                 PROVE  /\ seen'[Url[t]] # "absent"
                        /\ \A u \in Tasks : Url[u] = Url[t] /\ Present(u)' => u \in Batch(d)'
      BY DEF ClaimsOwned
    <2>1. Claiming(d) /\ t \in Batch(d) /\ Batch(d)' = Batch(d) /\ t \in Tasks
      BY <1>3 DEF Batch
    <2>2. ASSUME NEW u \in Tasks, Url[u] = Url[t], Present(u)'
          PROVE  u \in Batch(d)
      <3>1. CASE Present(u)
        BY <2>1, <2>2, <3>1 DEF ClaimsOwned
      <3>2. CASE Claiming(c) /\ u \in Batch(c)
        BY <2>1, <2>2, <3>2 DEF ClaimsApart
      <3>3. QED
        BY <2>2, <3>1, <3>2
    <2>3. QED
      BY <2>1, <2>2 DEF ClaimsOwned
  <1>6. ClaimsApart'
    BY <1>3 DEF ClaimsApart
  <1>7. QED
    BY <1>4, <1>5, <1>6

\* updateTask of a task that is recorded, with a copy that is one.
LEMMA UpdateQuiet ==
    ASSUME IInv, NEW t \in Tasks, NEW r, UpdateWrites(t, r),
           Present(t), r.state # "ABSENT"
    PROVE  QuietStep
BY DEF UpdateWrites, QuietStep, Present, IInv, TypeOK, QueueTypeOK

\* enqueueTask of a task that is recorded, with a copy that is one.
LEMMA EnqueueQuiet ==
    ASSUME NEW t \in Tasks, NEW r, EnqueueWrites([u \in {t} |-> r]),
           Present(t), r.state # "ABSENT"
    PROVE  QuietStep
BY DEF EnqueueWrites, QuietStep, Present

\* A dequeue records and drops nothing: reclaiming changes no ABSENT record,
\* and a claim is of a queued one.
LEMMA DequeueQuiet ==
    ASSUME IInv, NEW w \in Workers, NEW s \in Shards, Dequeue(w, s)
    PROVE  QuietStep
PROOF
  <1>1. CASE UNCHANGED queueVars
    BY <1>1 DEF queueVars, QuietStep, Present
  <1>2. ASSUME NEW C \in SUBSET Selected(w, s), DequeueWrites(w, s, C)
        PROVE  QuietStep
    <2>1. \A t \in Tasks : /\ tasks[t] \in Record /\ Budgeted(tasks[t])
      BY Unpack DEF QueueInv, QueueTypeOK
    <2>2. \A t \in Tasks : Reclaimed(s)[t].state = "ABSENT" <=> ~Present(t)
      <3> SUFFICES ASSUME NEW t \in Tasks
                   PROVE  Reclaimed(s)[t].state = "ABSENT" <=> ~Present(t)
        OBVIOUS
      <3>1. /\ Reclaimed(s)[t] \in {Reclaim(tasks[t]), tasks[t]}
            /\ tasks[t].state \in States \cup {"ABSENT"}
        BY <2>1 DEF Reclaimed, Record
      <3>2. Reclaim(tasks[t]).state = "ABSENT" <=> ~Present(t)
        <4>1. tasks[t].state = "RUNNING" => Reclaim(tasks[t]).state \in {"PENDING", "FAILED"}
          BY <2>1, ReclaimFacts
        <4>2. tasks[t].state \in Queued => Reclaim(tasks[t]).state = tasks[t].state
          BY <2>1, ReclaimFacts
        <4>3. tasks[t].state \in Terminal \cup {"ABSENT"} => Reclaim(tasks[t]) = tasks[t]
          BY <2>1, ReclaimFacts
        <4>4. QED
          BY <3>1, <4>1, <4>2, <4>3 DEF Present, States, Queued, Terminal
      <3>3. QED
        BY <3>1, <3>2 DEF Present
    <2>3. \A t \in C : t \in Tasks /\ Reclaimed(s)[t].state \in Queued
      BY Unpack DEF Selected, Candidates, Requeued, Claimable, Expired, QueueInv, QueueTypeOK
    <2>4. ASSUME NEW t \in Tasks
          PROVE  Present(t)' <=> Present(t)
      <3>1. CASE t \in C
        <4>1. tasks'[t] = [Reclaimed(s)[t] EXCEPT !.state = "RUNNING", !.worker = w,
                                                  !.lease = nextLease]
          BY <1>2, <3>1 DEF DequeueWrites
        <4>2. Reclaimed(s)[t] \in Record
          <5>1. Reclaimed(s)[t] \in {Reclaim(tasks[t]), tasks[t]}
            BY DEF Reclaimed
          <5>2. QED
            BY <2>1, <5>1, ReclaimFacts
        <4>3. tasks'[t].state = "RUNNING"
          BY <4>1, <4>2 DEF Record
        <4>4. QED
          BY <2>2, <2>3, <3>1, <4>3 DEF Present, Queued
      <3>2. CASE t \notin C
        BY <1>2, <2>2, <3>2 DEF DequeueWrites, Present
      <3>3. QED
        BY <3>1, <3>2
    <2>5. QED
      BY <1>2, <2>4 DEF QuietStep, DequeueWrites
  <1>3. QED
    BY <1>1, <1>2 DEF Dequeue

\* The calls of an execution write only the task it was handed.
LEMMA ExecutionQuiet ==
    ASSUME IInv, NEW l \in LeaseIds,
           \/ Renew(l) \/ Persist(l) \/ MarkUrlSeen(l) \/ RetryStatus(l) \/ Requeue(l)
           \/ \E outcome \in {"success", "error", "stale"} : Finish(l, outcome)
    PROVE  QuietStep
PROOF
  <1>1. CASE UNCHANGED queueVars
    BY <1>1 DEF queueVars, QuietStep, Present
  <1>2. CASE \E outcome \in {"success", "error", "stale"} : Finish(l, outcome)
    BY <1>1, <1>2 DEF Finish
  <1>3. CASE Renew(l)
    BY <1>3 DEF Renew, RenewWrites, QuietStep, Present
  <1> DEFINE t == exec[l].task
             r == exec[l].rec
  <1>4. ASSUME exec[l].phase # "done"
        PROVE  t \in Tasks /\ r \in Record /\ r.lease = l /\ l # 0 /\ ExecFits(exec[l])
    BY <1>4, InFlight
  <1>5. CASE Persist(l) \/ RetryStatus(l)
    <2>1. /\ exec[l].phase # "done" /\ r.state # "ABSENT"
      <3>1. exec[l].phase \in {"persist", "recoverPersist", "retrying"}
        BY <1>5 DEF Persist, RetryStatus
      <3>2. QED
        BY <1>4, <3>1 DEF ExecFits
    <2>2. CASE UpdateAccepts(t, r) /\ UpdateWrites(t, r)
      <3>1. Present(t)
        BY <1>4, <2>1, <2>2 DEF UpdateAccepts, Present
      <3> HIDE DEF t, r
      <3>2. QED
        BY <1>4, <2>1, <2>2, <3>1, UpdateQuiet
    <2>3. QED
      BY <1>1, <1>5, <2>2 DEF Persist, RetryStatus
  <1>6. CASE MarkUrlSeen(l)
    <2>1. UNCHANGED queueVars \/ SeenWrites({Url[t]}, "marked")
      BY <1>6 DEF MarkUrlSeen
    <2>2. QED
      BY <1>1, <2>1 DEF SeenWrites, QuietStep, Present
  <1>7. CASE Requeue(l)
    <2> DEFINE p == [r EXCEPT !.state = "PENDING"]
    <2>1. exec[l].phase # "done"
      BY <1>7 DEF Requeue
    <2>2. p.state = "PENDING" /\ p.lease = l /\ l # 0
      BY <1>4, <2>1 DEF Record
    <2>3. CASE EnqueueAccepts(t, p) /\ EnqueueWrites([u \in {t} |-> p])
      <3>1. Present(t)
        BY <2>2, <2>3 DEF EnqueueAccepts, EnqueueOwnedAccepts, Queued, Present
      <3> HIDE DEF t, r, p
      <3>2. QED
        BY <1>4, <2>1, <2>2, <2>3, <3>1, EnqueueQuiet
    <2>4. QED
      BY <1>1, <1>7, <2>3 DEF Requeue
  <1>8. QED
    BY <1>2, <1>3, <1>5, <1>6, <1>7

\* No step of a worker, no lease and no record that runs out touches a claim.
LEMMA WorkerQuiet ==
    ASSUME IInv, WorkerNext \/ \E t \in Tasks : LeaseElapses(t) \/ RecordElapses(t)
    PROVE  QuietStep
PROOF
  <1>1. CASE UNCHANGED queueVars
    BY <1>1 DEF queueVars, QuietStep, Present
  <1>2. CASE WorkerNext
    <2>1. \/ UNCHANGED queueVars
          \/ \E w \in Workers, s \in Shards : Dequeue(w, s)
          \/ \E l \in LeaseIds :
                \/ Renew(l) \/ Persist(l) \/ MarkUrlSeen(l) \/ RetryStatus(l) \/ Requeue(l)
                \/ \E outcome \in {"success", "error", "stale"} : Finish(l, outcome)
      BY <1>2 DEF WorkerNext, Start, PollBegin, PollEnd, Stop, Close, Crash, Vanish
    <2>2. QED
      BY <1>1, <2>1, DequeueQuiet, ExecutionQuiet
  <1>3. ASSUME NEW t \in Tasks, LeaseElapses(t)
        PROVE  QuietStep
    BY <1>3 DEF LeaseElapses, QuietStep, Present
  <1>4. ASSUME NEW t \in Tasks, RecordElapses(t)
        PROVE  QuietStep
    <2>1. \A u \in Tasks : tasks'[u] = tasks[u] \/ tasks'[u].state = "ABSENT"
      BY <1>4 DEF RecordElapses, NoTask, IInv, TypeOK, QueueTypeOK
    <2>2. QED
      BY <1>4, <2>1 DEF RecordElapses, QuietStep, Present
  <1>5. QED
    BY <1>2, <1>3, <1>4

\* The thirty days of a claim that nobody needs.
LEMMA ExpiryKeeps ==
    ASSUME IInv, UrlInv, NEW u \in Urls, UrlElapses(u), UNCHANGED call, ~InUse(u)
    PROVE  UrlInv'
PROOF
  <1> USE QueueAssumption DEF UrlInv
  <1>1. /\ UNCHANGED tasks /\ \A x \in Urls : x # u => seen'[x] = seen[x]
    BY DEF UrlElapses, IInv, TypeOK, QueueTypeOK
  <1>2. \A c \in Clients : Batch(c)' = Batch(c) /\ (Claiming(c)' <=> Claiming(c))
    BY DEF Batch, Claiming
  <1>3. /\ \A t \in Tasks : (Present(t)' <=> Present(t)) /\ (Present(t) => Url[t] # u)
        /\ \A c \in Clients : Claiming(c) => \A t \in Batch(c) : t \in Tasks /\ Url[t] # u
    BY <1>1 DEF InUse, Present, Batch
  <1>4. ClaimsKept'
    BY <1>1, <1>3 DEF ClaimsKept
  <1>5. ClaimsOwned'
    BY <1>1, <1>2, <1>3 DEF ClaimsOwned
  <1>6. ClaimsApart'
    BY <1>2 DEF ClaimsApart
  <1>7. QED
    BY <1>4, <1>5, <1>6

\* claimUrls of a batch: nobody else has these URLs.  When the answer is lost,
\* the claims have no owner.
LEMMA ClaimKeeps ==
    ASSUME IInv, UrlInv, NEW c \in Clients, NEW B \in Batches,
           NEW target \in [B -> Placements], SubmitBegin(c, B, target)
    PROVE  UrlInv'
PROOF
  <1> USE QueueAssumption DEF UrlInv
  <1> DEFINE recs == [t \in Tasks |->
                        IF t \in B THEN [NoTask EXCEPT !.state = "PENDING",
                                                       !.target = target[t]]
                                   ELSE NoTask]
             k == [op |-> "submit", recs |-> recs, left |-> {Shard[t] : t \in B}]
  <1>1. B \subseteq Tasks
    BY SchedulerAssumption
  <1>2. Becomes(c, k) \/ Becomes(c, Idle)
    BY DEF SubmitBegin
  <1>3. /\ UNCHANGED tasks
        /\ \A u \in Urls : seen[u] # "absent" => seen'[u] # "absent"
        /\ \A t \in B : seen[Url[t]] = "absent" /\ seen'[Url[t]] = "claimed"
    BY <1>1 DEF SubmitBegin, SeenWrites, ClaimAccepts, BatchUrls
  <1>4. \A t \in Tasks : Present(t)' <=> Present(t)
    BY <1>3 DEF Present
  <1>5. CASE Becomes(c, Idle)
    <2>1. Idle \in Call /\ Idle.op = "idle"
      BY IdleFacts DEF Idle
    <2>2. OwnStep(c)
      BY <1>3, <1>4 DEF OwnStep
    <2>3. QED
      BY <1>5, <2>1, <2>2, CallMoves
  <1>6. CASE Becomes(c, k)
    <2>1. /\ call'[c] = k
          /\ \A d \in Clients : d # c => call'[d] = call[d]
      BY <1>6 DEF Becomes, IInv, TypeOK, SchedulerTypeOK
    <2>2. \A t \in Tasks : recs[t].state # "ABSENT" <=> t \in B
      BY <1>1 DEF NoTask
    <2>3. k.recs = recs
      OBVIOUS
    <2> HIDE DEF k, recs
    <2>4. /\ Batch(c)' = B
          /\ \A d \in Clients : d # c => Batch(d)' = Batch(d) /\ (Claiming(d)' <=> Claiming(d))
      BY <1>1, <2>1, <2>2, <2>3 DEF Batch, Claiming
    <2>5. ClaimsKept'
      BY <1>3, <1>4 DEF ClaimsKept
    <2>6. ClaimsOwned'
      <3> SUFFICES ASSUME NEW d \in Clients, Claiming(d)', NEW t \in Batch(d)'
                   PROVE  /\ seen'[Url[t]] # "absent"
                          /\ \A u \in Tasks : Url[u] = Url[t] /\ Present(u)' => u \in Batch(d)'
        BY DEF ClaimsOwned
      <3>1. CASE d = c
        <4>1. t \in Tasks /\ seen[Url[t]] = "absent" /\ seen'[Url[t]] = "claimed"
          BY <1>1, <1>3, <2>4, <3>1
        <4>2. QED
          BY <1>4, <4>1 DEF ClaimsKept
      <3>2. CASE d # c
        <4>1. Claiming(d) /\ t \in Batch(d) /\ t \in Tasks /\ Batch(d)' = Batch(d)
          BY <2>4, <3>2 DEF Batch
        <4>2. QED
          BY <1>3, <1>4, <4>1 DEF ClaimsOwned
      <3>3. QED
        BY <3>1, <3>2
    <2>7. ClaimsApart'
      <3>1. ASSUME NEW d \in Clients, d # c, Claiming(d)', NEW t \in Batch(d)', NEW u \in B
            PROVE  Url[t] # Url[u]
        <4>1. Claiming(d) /\ t \in Batch(d)
          BY <2>4, <3>1
        <4>2. QED
          BY <1>3, <4>1 DEF ClaimsOwned
      <3>2. QED
        BY <2>4, <3>1 DEF ClaimsApart
    <2>8. QED
      BY <2>5, <2>6, <2>7
  <1>7. QED
    BY <1>2, <1>5, <1>6

\* One script of a submission: it records tasks of the batch or none, and the
\* call is over, sends its next group or goes on to release its claims.
LEMMA GroupKeeps ==
    ASSUME IInv, UrlInv, NEW c \in Clients, NEW s \in Shards, SubmitGroup(c, s)
    PROVE  UrlInv'
PROOF
  <1> DEFINE group == {t \in Batch(c) : Shard[t] = s}
             recs == [t \in group |-> call[c].recs[t]]
             failed == [call[c] EXCEPT !.op = "compensate", !.left = {}]
             next == [call[c] EXCEPT !.left = call[c].left \ {s}]
  <1>1. call[c].op = "submit" /\ call[c] \in Call
    BY CallCopies DEF SubmitGroup
  <1>2. Claiming(c)
    BY <1>1 DEF Claiming
  <1>3. /\ EnqueueWrites(recs) \/ UNCHANGED queueVars
        /\ \E k \in {failed, Idle, next} : Becomes(c, k)
    BY DEF SubmitGroup
  <1>4. /\ failed \in Call /\ failed.recs = call[c].recs
        /\ next \in Call /\ next.recs = call[c].recs
    BY <1>1 DEF Call
  <1>5. Idle \in Call /\ Idle.op = "idle"
    BY IdleFacts DEF Idle
  <1>6. UNCHANGED seen
    BY <1>3 DEF EnqueueWrites, queueVars
  <1>7. OwnStep(c)
    BY <1>2, <1>3, <1>6 DEF EnqueueWrites, queueVars, Present, OwnStep
  <1> HIDE DEF group, recs, failed, next
  <1>8. PICK k \in {failed, Idle, next} : Becomes(c, k)
    BY <1>3
  <1>9. k \in Call /\ (k.op = "idle" \/ k.recs = call[c].recs)
    BY <1>4, <1>5
  <1>10. QED
    BY <1>2, <1>7, <1>8, <1>9, CallMoves

\* compensateUrlClaim of a call that recorded nothing: no recorded task and no
\* other call has these URLs.
LEMMA ReleaseKeeps ==
    ASSUME IInv, UrlInv, NEW c \in Clients, Compensate(c), \A t \in Batch(c) : ~Present(t)
    PROVE  UrlInv'
PROOF
  <1> USE QueueAssumption DEF UrlInv
  <1>1. /\ call' = [call EXCEPT ![c] = Idle]
        /\ call'[c] = Idle /\ \A d \in Clients : d # c => call'[d] = call[d]
        /\ Claiming(c) /\ UNCHANGED tasks
    BY DEF Compensate, Becomes, IInv, TypeOK, SchedulerTypeOK, SeenWrites, queueVars, Claiming
  <1>2. /\ ~Claiming(c)' /\ Batch(c)' = {}
        /\ \A d \in Clients : d # c => Batch(d)' = Batch(d) /\ (Claiming(d)' <=> Claiming(d))
    BY <1>1, IdleFacts DEF Batch, Claiming, Idle
  <1>3. \A u \in Urls : u \notin BatchUrls(Batch(c)) => seen'[u] = seen[u]
    BY DEF Compensate, SeenWrites, queueVars
  <1>4. \A t \in Tasks : Present(t)' <=> Present(t)
    BY <1>1 DEF Present
  <1>5. ClaimsKept'
    <2> SUFFICES ASSUME NEW t \in Tasks, Present(t)
                 PROVE  seen'[Url[t]] # "absent"
      BY <1>4 DEF ClaimsKept
    <2>1. Url[t] \notin BatchUrls(Batch(c))
      BY <1>1 DEF BatchUrls, ClaimsOwned
    <2>2. QED
      BY <1>3, <2>1 DEF ClaimsKept
  <1>6. ClaimsOwned'
    <2> SUFFICES ASSUME NEW d \in Clients, Claiming(d)', NEW t \in Batch(d)'
                 PROVE  /\ seen'[Url[t]] # "absent"
                        /\ \A u \in Tasks : Url[u] = Url[t] /\ Present(u)' => u \in Batch(d)'
      BY DEF ClaimsOwned
    <2>1. d # c /\ Claiming(d) /\ t \in Batch(d) /\ t \in Tasks /\ Batch(d)' = Batch(d)
      BY <1>2 DEF Batch
    <2>2. Url[t] \notin BatchUrls(Batch(c))
      BY <1>1, <2>1 DEF BatchUrls, ClaimsApart
    <2>3. QED
      BY <1>3, <1>4, <2>1, <2>2 DEF ClaimsOwned
  <1>7. ClaimsApart'
    BY <1>2 DEF ClaimsApart
  <1>8. QED
    BY <1>5, <1>6, <1>7

\* cancelTask and retryTask read without a claim, and write a task that is
\* still recorded.
LEMMA OperatorKeeps ==
    ASSUME IInv, UrlInv, NEW c \in Clients, NEW t \in Tasks,
           \/ CancelRead(c, t) \/ \E target \in Placements : RetryRead(c, t, target)
           \/ (CancelWrite(c, t) \/ RetryWrite(c, t)) /\ Present(t)
    PROVE  UrlInv'
PROOF
  <1>1. CASE CancelRead(c, t) \/ \E target \in Placements : RetryRead(c, t, target)
    <2>1. UNCHANGED queueVars
      BY <1>1 DEF CancelRead, RetryRead
    <2>2. OwnStep(c)
      BY <2>1 DEF queueVars, OwnStep, Present
    <2>3. PICK op \in {"cancel", "retry"}, r \in Record :
             Becomes(c, [op |-> op, left |-> {}, recs |-> Only(t, r)])
      <3>1. tasks[t] \in Record
        BY DEF IInv, TypeOK, QueueTypeOK
      <3>2. CASE CancelRead(c, t)
        <4>1. [tasks[t] EXCEPT !.state = "CANCELLED"] \in Record
          BY <3>1 DEF Record, States, Terminal
        <4>2. QED
          BY <3>2, <4>1 DEF CancelRead
      <3>3. ASSUME NEW target \in Placements, RetryRead(c, t, target)
            PROVE  \E op \in {"cancel", "retry"}, r \in Record :
                      Becomes(c, [op |-> op, left |-> {}, recs |-> Only(t, r)])
        <4>1. target \in MaybeWorker
          BY SchedulerAssumption
        <4>2. [tasks[t] EXCEPT !.state = "RETRYING", !.retries = 0, !.target = target] \in Record
          BY <3>1, <4>1 DEF Record, States, Queued
        <4>3. QED
          BY <3>3, <4>2 DEF RetryRead
      <3>4. QED
        BY <1>1, <3>2, <3>3
    <2> DEFINE k == [op |-> op, left |-> {}, recs |-> Only(t, r)]
    <2>4. k \in Call
      <3>1. Only(t, r) \in [Tasks -> Record]
        <4>1. NoTask \in Record
          BY QueueAssumption DEF NoTask, Record
        <4>2. QED
          BY <4>1 DEF Only
      <3>2. QED
        BY <3>1 DEF Call
    <2>5. k.op \in {"cancel", "retry"} /\ Becomes(c, k)
      BY <2>3
    <2> HIDE DEF k
    <2>6. QED
      BY <2>2, <2>4, <2>5, CallMoves
  <1>2. CASE (CancelWrite(c, t) \/ RetryWrite(c, t)) /\ Present(t)
    <2> DEFINE r == call[c].recs[t]
    <2>1. Present(t) /\ r.state # "ABSENT"
      BY <1>2 DEF CancelWrite, RetryWrite, Batch
    <2>2. Becomes(c, Idle) /\ Idle \in Call /\ Idle.op = "idle"
      BY <1>2, IdleFacts DEF CancelWrite, RetryWrite, Idle
    <2>3. \/ UNCHANGED queueVars
          \/ UpdateWrites(t, r)
          \/ EnqueueWrites([u \in {t} |-> r])
      BY <1>2 DEF CancelWrite, RetryWrite
    <2> HIDE DEF r
    <2>4. QuietStep
      <3>1. CASE UNCHANGED queueVars
        BY <3>1 DEF queueVars, QuietStep, Present
      <3>2. QED
        BY <2>1, <2>3, <3>1, UpdateQuiet, EnqueueQuiet
    <2>5. OwnStep(c)
      BY <2>4 DEF QuietStep, OwnStep
    <2>6. QED
      BY <2>2, <2>5, CallMoves
  <1>3. QED
    BY <1>1, <1>2

\* A task that is queued or running keeps its URL claimed, so that no second
\* task is queued for it, unless one of the three steps of NoOrphan takes the
\* claim: whatever else the workers, the scheduler calls and the clock do
\* between claimUrls, the enqueue scripts of a batch and releaseUrls, however
\* many partitions the batch has and whichever answers are lost.
THEOREM UrlsHeld == Spec /\ [][NoOrphan]_vars => []UrlHeld
PROOF
  <1>1. Init => UrlInv
    <2> SUFFICES ASSUME Init PROVE UrlInv
      OBVIOUS
    <2>1. \A t \in Tasks : ~Present(t)
      BY DEF Init, QueueInit, Present, NoTask
    <2>2. \A c \in Clients : call[c] = Idle /\ call[c].op = "idle"
      BY DEF Init, SchedulerInit, Idle
    <2>3. QED
      BY <2>1, <2>2 DEF UrlInv, ClaimsKept, ClaimsOwned, ClaimsApart, Claiming
  <1>2. IInv /\ UrlInv /\ [Next]_vars /\ [NoOrphan]_vars => UrlInv'
    <2> SUFFICES ASSUME IInv, UrlInv, [Next]_vars, [NoOrphan]_vars PROVE UrlInv'
      OBVIOUS
    <2>1. CASE UNCHANGED vars
      BY <2>1, QuietKeeps DEF vars, QuietStep, Present
    <2>2. CASE NoOrphan /\ WorkerNext
      BY <2>2, WorkerQuiet, QuietKeeps DEF WorkerNext
    <2>3. CASE NoOrphan /\ TimeNext
      <3>1. UNCHANGED call
        BY <2>3 DEF TimeNext
      <3>2. CASE \E t \in Tasks : LeaseElapses(t) \/ RecordElapses(t)
        BY <3>1, <3>2, WorkerQuiet, QuietKeeps
      <3>3. ASSUME NEW u \in Urls, UrlElapses(u)
            PROVE  UrlInv'
        <4>1. ~InUse(u)
          BY <2>3, <3>1, <3>3 DEF NoOrphan
        <4>2. QED
          BY <3>1, <3>3, <4>1, ExpiryKeeps
      <3>4. QED
        BY <2>3, <3>2, <3>3 DEF TimeNext
    <2>4. CASE NoOrphan /\ SchedulerNext
      <3>1. PICK c \in Clients :
               \/ \E B \in Batches : \E target \in [B -> Placements] : SubmitBegin(c, B, target)
               \/ \E s \in Shards : SubmitGroup(c, s)
               \/ Compensate(c)
               \/ \E t \in Tasks : \/ CancelRead(c, t) \/ CancelWrite(c, t) \/ RetryWrite(c, t)
                                   \/ \E target \in Placements : RetryRead(c, t, target)
        BY <2>4 DEF SchedulerNext
      <3>2. CASE Compensate(c)
        BY <2>4, <3>2, ReleaseKeeps DEF NoOrphan
      <3>3. ASSUME NEW t \in Tasks,
                   \/ CancelRead(c, t) \/ CancelWrite(c, t) \/ RetryWrite(c, t)
                   \/ \E target \in Placements : RetryRead(c, t, target)
            PROVE  UrlInv'
        <4>1. CancelWrite(c, t) \/ RetryWrite(c, t) => Present(t)
          BY <2>4 DEF NoOrphan
        <4>2. QED
          BY <3>3, <4>1, OperatorKeeps
      <3>4. QED
        BY <3>1, <3>2, <3>3, ClaimKeeps, GroupKeeps
    <2>5. QED
      BY <2>1, <2>2, <2>3, <2>4 DEF Next
  <1>3. UrlInv => UrlHeld
    BY DEF UrlInv, ClaimsKept, UrlHeld, Present, Queued
  <1>4. QED
    BY <1>1, <1>2, <1>3, Invariance, PTL DEF Spec
=============================================================================
