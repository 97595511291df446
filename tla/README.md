# Verification of Browser Profile Studio

Browser Profile Studio drives isolated Firefox and Chromium profiles for agents
and people, on one host or on a cluster of workers.  This directory holds TLA+
models of the parts of it whose correctness depends on interleavings, failures
and time, the TLC configurations that check them, and TLAPS proofs of what holds
for every size of the system.  Paths below are relative to the repository root;
a path that starts with a directory of `src/` is below `src/src/`.

## 1. The system

| Component | State | Operations | Hard because |
| --- | --- | --- | --- |
| Redis task queue (`distributed/redis-adapter.ts`) | task records, pending and processing sorted sets per shard, URL claims | Lua scripts: dequeue (with the reclaim of expired leases), update, renew, enqueue, claim / release / mark URLs | each script is atomic, its callers are not; answers get lost, leases run out, keys expire |
| Worker daemon (`worker-daemon.ts`) | executions, retry timers, recoveries, poll cursor | start, poll, execute, renew, persist, retry, requeue, stop | recoveries race cancellations and reclaims; stop must drain and end |
| Master scheduler (`scheduler.ts`) | none between calls | submit, batch, cancel, retry | read-modify-write on records that workers change |
| In-process queue (`queue-adapter.ts`) | maps | the same interface | no lease expiry; delayed enqueues meet cancellations |
| Account placement (`account-placement.ts`) | generation records | resolve, compare-and-set, stale check | schedulers with different worker lists; a placement outlives its worker |
| Profile lease (`profile-lease.ts`) | one key with a TTL per profile | acquire, renew, release | two hosts must not drive one profile |
| Control lease (`browser/control-lease.ts`) | owner, handoff state, token digest, timer | handoff, takeover, release, resume, recoverExpired, expiry, dispose | timers that fire early or for an older lease, stale tokens |
| Browser session (`browser/browser-session.ts`) | state, context, action queue, lease, tabs, action cache | start, stop, about 20 page actions, handoff, takeover, reopen, resume | every await is a point where a scan, a crash, a timeout, a stop or a handoff may intervene |
| Session manager (`browser/session-manager.ts`) | sessions, workspaces, TTL and checkpoint timers, profile leases | start, stop, expire, renew, shut down, write gate | what is read before an await is used after it |
| Checkpoint store (`profile/versioned-checkpoint-store.ts`) | numbered files per profile | saveState with an expected version, getLatestState | three awaits between check and write, shared by all hosts |
| Workflow engine (`browser/workflow.ts`, `workflow-runner.ts`) | run state, the reservation of a session, the cache of actionIds | run, stop, step | shares the session's queue; its deadline races its steps |
| Snapshot history, target registry | entries, tombstones, references | record, resolve, evict | references outlive the page they were taken from |
| Browser pool and extension (`control-plane/browser-pool.ts`, `src/browser-bridge-extension/`) | instances, bindings, sockets, pending calls; the extension's socket, timer and settings | add, start, stop, remove, bind, bridge calls; connect, reconnect | overlapping connects; a replaced socket closes late; restart from a file |
| Profile store, backups (`profile`, `security/profile-backup.ts`) | metadata files, directories, archives | migrate, admit, trash, restore, purge; backup, restore, recover | reads that write; a crash between two renames |
| Proxy pool (`proxy`) | one record per proxy | check, update, delete, offer | checks overlap and write back what they read |
| Account health and operations (`account`, `operations`) | health records, permits, buckets, counters | mutate, admit, release, record, alert | a start, a challenge and an operator mutate one record; limits at their edge |
| RPA and synchronizer (`rpa`, `synchronizer`) | tasks, timers, a file; the order of actions | run, cancel, execute, load | timers and executions race cancellation and restart |
| Fetcher and URL policy (`fetcher`, `policy`) | DNS cache, sockets | fetch, redirect, resolve | what was approved must be what is connected to |
| REST API (`api/server.ts`) | profile-to-session map, sockets, screencasts | start, stop, delete, batch, restore, lists, streams, CSV | requests run up to an await and meet others |
| MCP server (`mcp`) | guard, audit, references | call | a target is described before a change and acted on after it |
| Tenant authentication, Studio UI, fingerprints, GeoIP, launchers, CDP, acceptance tooling, configuration | little | lookups, rendering, pure functions on tables, I/O | - |

A submitted task goes scheduler -> Redis -> worker -> session manager -> browser
session.  An agent reaches a session through the REST API or MCP, always by way of
the session manager, whose write gate consults the session's state and the
session's workspace.  A person takes a session over with a one-time lease token.
The control plane keeps browsers it manages through the session manager, and
browsers of a person that it reaches through the extension.

`PROJECT.json` lists every component with its status and, under `hazards`, what
in this code is hard to test, at its line, with the properties aimed at it.

## 2. Modules

| Module | Models |
| --- | --- |
| `RedisQueue` | one operator pair per Lua script: when it accepts (`...Accepts`) and what it writes (`...Writes`) |
| `WorkerDaemon`, `MasterScheduler` | the worker processes and the scheduler calls as clients of those scripts |
| `TaskCluster`, `MCTaskCluster`, `TaskClusterProofs` | the composition of the three, its properties and inductive invariant; instances; theorems |
| `MemoryQueue` | the in-process adapter with a worker and operator calls |
| `AccountPlacement` | placements with schedulers and workers |
| `AccountProofs` | theorems about what is kept for an account: `AccountPlacement`, `MemoryQueue`, `AccountHealth`, `ProxyPool`, `ProfileStore`, `ProfileBackup`, `AccountAdmission` |
| `ControlOwnership` | abstract: who may act on the browser, and how that changes hands |
| `ControlLease`, `ControlLeaseProofs` | the lease manager, its refinement of `ControlOwnership`; theorems |
| `BrowserSession`, `BrowserSessionProofs` | the session with its queue, scans, handoff, start and stop, on top of `ControlLease`; the workspace and write gate of the session manager; theorems |
| `SessionTabs` | tabs, popups and their admission, navigation, references of a tab |
| `Workflow`, `WorkflowProofs` | reservation, idempotency cache, runner with deadline and interrupts, on the session's queue; theorems |
| `WorkflowLanguage` | pure: validity of a step, size of a result |
| `SnapshotHistory` | entries, bytes, tombstones and ids of snapshots |
| `ChallengeSignals` | pure: what a scan of a page concludes from the signals it could read |
| `ProfileLease` | the Redis lease manager and the outcomes of a call |
| `SessionManager`, `MCSessionManager`, `SessionManagerProofs` | the managers of several hosts on top of `ProfileLease`; instances; theorems, also about `StudioApi` and `SessionTabs` |
| `ProfileStore`, `ProfileBackup` | the metadata of a profile and its first start; archive, restore and recovery |
| `ProxyPool` | one record and its overlapping checks |
| `AccountAdmission`, `AccountHealth` | permits and buckets, rolling counters and alerts; the health record |
| `RpaService` | tasks, timers, executions and the state file |
| `PageFetch`, `NetworkPolicy` | the fetch with its DNS cache and redirects; pure: addresses and host rules |
| `McpGateway` | a call from parsing to its answer, with the guard, the audit and semantic targets |
| `ToolContracts`, `ToolAdverts` | pure: the two descriptions of every tool's arguments, the one enforced and the one announced |
| `StudioApi`, `StudioLists`, `StudioStreams` | sessions of profiles; paged lists and, pure, CSV and window grid; the automation socket and synchronizer |
| `BrowserPool`, `BridgeExtension`, `ControlPlane`, `ControlPlaneProofs` | the pool, the extension, and the two joined by WebSockets; theorems |
| `ServiceProofs` | theorems about `RpaService`, `PageFetch`, `StudioStreams` and `McpGateway` |
| `PureInput` | the frame of the pure parts: an input is chosen, one step computes the code's answer |
| `MCLive`, `MCServices` | components that share no state, side by side in one run |

Operators called "Mutant" are small corruptions of the definition that follows
them; each shows that the property it is listed with in `PROJECT.json` can fail.

**Runs of several components.**  `MCLive` and `MCServices` hold components that
share no variable.  A variable `part`, chosen in the initial state, names the one
that runs; its next-state relation is taken, everything else is unchanged.  So a
behaviour of such a run is a behaviour of one component, and the run checks each
of them on its own instance.  A fair action of `MCLive` is an action of the part
that runs, and `EverythingEnds` asks of each part what its own specification
promises.

**Properties as conjunctions.**  Where several promises are about one piece of
state, a run checks their conjunction and the comment of each conjunct says which
code it is about.  A conjunct that is about steps is written without its box:
`HealthKept == [][HealthRecordExact' /\ DisabledSticks]_healthVars` is an
invariant from the second state on (the initial states have no record, answer or
operation it could be wrong about) and an action property.

### Task cluster

`tasks`, `pending`, `processing`, `seen` are the Redis keys.  A lease deadline is
only ever compared with now, so a member of `processing` is `live` or `expired`,
and `LeaseElapses` is time passing.  A lease id (a UUID) is a fresh number; 0 is
`undefined`.  `exec[l]` is the execution that was handed lease `l`: its private
copy of the record and the call it will make next (`phase`), which covers
executeTask (`run`, `persist`, `mark`, `retrying`, `requeue`) and the recoveries it
leaves behind (`recover...`).  `mode` is the life cycle of the process, `pass` the
partitions left in the current pass of the poll loop.  `call[c]` is a scheduler
call in progress: cancel and retry are a read and, later, a write of the copy.

Every call to Redis has up to three outcomes (`Deliveries`): applied and
answered, applied with the answer lost, not applied.  `Events` says which faults
an instance has.  Payloads, events, metrics, priorities beyond an order, and
heartbeats are left out.

### Placement

`placement` is the record of the store with its version, `beats` the heartbeats
in Redis; a scheduler has its own copy of the worker list and reads, chooses and
compare-and-sets in three steps, between which others do the same.  A task carries
the generation it was placed under to the worker, which reads the record again
before it runs the task.  `PlacementHonoured`: a generation names one worker for
good, the account does not leave its namespace, and no worker begins a task after a
later placement of the account was handed out.

`MemoryQueue` keeps its pending list as a set of entries `[job, at]`, where `at` is
their order: a dequeue takes the least one a worker may run, and removing a task
leaves the order of the others.  An execution that failed waits for its delayed
enqueue in `work`, and `operator` is a cancel or retry that has read a record and
not yet written it.

### Control lease and browser session

`lease` is one record: the handoff state, the owner, the generation of the
current lease, the token the stored digest accepts, whether the clock has passed
`expiresAt`, the generation the timer was armed for, and the generation counter.
A token is the generation it was issued for; hashing is modelled by what it
decides (`MatchesToken`).  A call that throws changes nothing but what the lazy
expiry check at its start changes.  `FireTimer` may come before the deadline: then
the timer is armed again, as in the code.

A submitted action waits in `queue`; `task` is the one that runs, with the await
it is suspended in (`at`), the state at its start (`prior`), its abort signal and
the verdict of its last scan.  Actions that differ neither in admission options nor
in effects share a kind: `input` stands for click, type, select and scroll; `open`
navigates; `read` stands for snapshot, screenshot, extract, wait and the operator's
direct input.  An `input` acts through the input scheduler, which checks the abort
signal right before it acts (`Act`); a type may clear its field before
(`ClearField`) and press Enter after a scan of its own (`SubmitField`), and, like
the navigation of an open (`OpenNavigates`), looks at no signal when it does.  A write
is the call to the browser: the browser may carry it out later.  `scans` are
the verdicts of observer scans not yet applied, `challenge` what the page shows.
Every await may fail (`TaskFails`), the action timeout or the caller may abort
(`TaskTimesOut`), the page may crash, `stop` may come at any time and its drain
may time out.  Assumptions: callers learn a session id when `start` has returned
and the manager forgets it when `stop` has; the challenge policy pauses on every
detection; a workspace is retained; `start` is called once per session.

`SessionTabs` has the tab map with its order, the active tab, a registry of
references per tab, and the events of a page (popup, close, navigation, crash of
the admission) between the awaits of the one tab operation that runs.  `Workflow`
has the reservation `token`, the executors, the queue the steps share with other
writes, what `status()` reports of the page (`page`), and the cache of actionIds.
`WritesOf` gives the page writes of each step in their order: `"checked"` where the
input scheduler looks at the signal right before the write, `"blind"` where nothing
does (an open is one blind write; a type with clearFirst and submit is blind,
checked, blind).  `Write` makes the next one, an abort stops only a checked one, and
`Throw` may end the operation between any two.  `effects` counts, per request and
step, the writes made.

### Session manager

`ses[s]` is what a manager keeps about session `s`, one field per map: `listed`
(`sessions`), `owned` (`activeProfileLeases`), `ttl` (`expiryTimers` and
`checkpointTimers`, which are armed and cleared together), and how far each of its
asynchronous functions has come: `start` (startUnlocked), `stop` (stop and
shutdownSessions), `renew` (the renewal timer and renewProfileLease), `save`
(saveState).  Every await is a step boundary.  `browser` is the session of
`BrowserSession` reduced to starting, up, ending (its last save runs) or down.
`key` holds the Redis lease keys; `Events` says which faults an instance has
("late": renewals may come too late, "fault": calls may fail before or after they
took effect, "crash": a process may die).

`saved[p]` is the newest checkpoint of a profile.  Its login state is the set of
sessions whose work it contains, so a rolled-back login is a set that shrinks.
saveState is modelled with its awaits: compare the version (`Checkpoint`,
`SessionStops`), list the versions again and choose the next (`SaveScans`), create
the file exclusively (`SaveLinks`).  Assumptions: sessions use saved profiles and a
checkpoint store; no start is called once a shutdown has begun, but starts under
way go on; a session has one save at a time.

### Control plane

`BrowserPool` has the instances, bindings, sockets and pending calls of the pool,
and the file it persists after every change; `call` is a start, stop or remove that
waits for the session manager.  `BridgeExtension` has the extension's current
socket, the states of all sockets it opened, its reconnect timer, and the connects
that wait for their settings: each reads them before it opens a socket and takes no
second look at the current one.  `ControlPlane` joins them: a socket has a state at
both ends, and a command or response travels on the one it was sent on.  The pool's
reply to an upgrade may also be a refusal: the first message of such a socket finds
no listener, and the socket closes.

### Files, accounts and requests

The remaining modules model one record, file or map each, with every operation
cut at its awaits; a variable holds what an operation read before an await.  Time
is a counter where durations are compared and a choice elsewhere.  A crash clears
what is in memory and keeps the files (`RpaService`, `ProfileBackup`).  Names,
elements and addresses are members of small sets; what is decided from their text
is done by the pure modules.  `NetworkPolicy` keeps octets and 16-bit groups as
numbers and is compared with the special-purpose blocks in prefix notation;
`ToolContracts` builds probe objects from each schema's own fields (each one
missing, of another type, at and past its bounds).

## 3. What is checked

| Run | Instance | Shows |
| --- | --- | --- |
| `cluster` | 1 task, 2 workers, 3 leases; crashes, lost answers, failed calls, expiring keys; cancel and retry | no task is lost or in two sets, the retry budget holds, a completed record is final, a live lease fences its record, a cancellation sticks |
| `dedup` | 2 tasks, 2 submitters with overlapping batches, 1 worker | an unfinished task keeps its URL claimed |
| `cluster_live` | 1 task in the last of 2 shards, 2 workers, placement on one of them | every queued task ends, a stopping worker terminates |
| `manager` | 2 sessions on 2 hosts and one profile; crashes; no periodic checkpoints | two managed browsers never drive the profile together, a save never drops the work of another session |
| `manager_live` | 1 session; crashes, late renewals, failing calls, a periodic checkpoint | the lease of an ended session is freed for good, a session that lost its lease is closed, and so is one past its TTL |
| `session` | 4 actions, 2 handoffs, queue of 2 | automation is offered only while the lease says so, no write of an action, clear, Enter and navigation included, touches a page a person owns, only a person ends a pause |
| `session_faults` | 2 actions, page crashes | queueDepth is exact, BUSY does not outlive its action, the input scheduler acts only in BUSY (or in STOPPED, taken up while stop() was under way), stop ends, actions settle |
| `live` | the lease with 3 generations; 2 workflows (an open and a type that clears and submits; two clicks), or 1 with another write, 2 steps, queue of 2, one navigation, one interrupt; the extension with 3 sockets, 2 connects, an alarm and one disturbance | the lease implements `ControlOwnership` and a lapsed handoff ends; a workflow's report is true to its writes, it runs once per actionId, after its deadline only the abandoned step still writes and only what no signal guards, its reservation ends; calls to the extension settle and it ends up connected |
| `pool` | 1 browser, 2 callers, 2 sockets, 2 sessions, one binding, 2 requests or restarts | bindings resolve, calls wait only on connected browsers, the open socket is the current one |
| `services` | 16 components and the pure functions | see below |

`services`, conjunction by conjunction:

| Property | Promise |
| --- | --- |
| `PlacementHonoured` | as above |
| `QueueServes` | a task of the in-process queue is run by one worker at a time and is found by a worker it may run on |
| `OperationsBounded` | permits in use equal the executions that hold them, also after a bucket was evicted; no tenant exceeds its rate; an alert counts all of its window or none |
| `HealthKept` | the health record is what its history of mutations says; `DISABLED` ends only by an operator or by the first start of the account |
| `RunsAccounted` | an execution starts once per queued task; a confirmed cancellation survives a crash; sessions are closed |
| `ChecksHold` | a proxy is offered only after a check of what it is now, serves its quarantine, and no check leaves a socket |
| `IdentityKept` | unless secrets in plain text have to be migrated: the identity a profile first started with never changes; a profile with cookies from before its first mark keeps its persona |
| `ProfileSurvives` | whenever a restore dies, the profile or its predecessor is on disk; an archive holds one moment; what was restored is what was archived |
| `FetchesGuarded` | a connection goes to an address that was approved for that host; every fetch gives back what it took |
| `CallsAccountable` | a write acts on the element that was described, or is refused; an effect has an attempt in the audit |
| `SessionMapSound` | the map names running sessions; data leaves only after its session stopped; a scrape leaves no session |
| `ListingsExact` | following a list shows every profile that stayed once; a task list reaches its end; CSV round-trips but for blanks at the ends; a row that is refused keeps the whole import out; windows do not overlap |
| `OrderKept` | replies of a socket come in the order of its messages; actions reach a window in order |
| `HistorySound` | the history keeps its three limits; what it answers is what was recorded; ids are not reused |
| `TabsAgree` | the active tab is a registered one; a reference resolves to the document it was taken from; popups do not exceed the limit |
| `ContractsHold` | what is announced is enforced and vice versa, except where "What the code does not do" says so; a valid step can be run; a result keeps to its budget |
| `VerdictSound` | text alone never makes a page a challenge; a scan that could read less reports no more |
| `RulesExact` | the IPv4 classes are the special-purpose blocks, the IPv6 prefixes those of the code's own table; a wildcard covers exactly one label more |

Bounds.  Two workers and three leases are enough for a lease to pass from one
worker to the other and back, and with `MaxRetries = 1` for both ends of the retry
budget.  The safety of several shards is covered by the proofs, which hold for any
`Shards`; `cluster_live` has two because only the poll loop's cursor reaches the
second.  Two submitters and two tasks give overlapping and disjoint batches.
`MaxLease` and `MaxGen` number leases; `MaxOps` bounds the actions of a session, so
that one may wait behind a handoff that waits behind another action.  Two sessions
on two hosts are enough for a profile to change hands while the old owner is still
stopping; `MaxVersion = 0` is `checkpointIntervalMs: 0`.  In `live`, two workflows
compete for the reservation and the cache, and `TwoRequests` lets either the second
workflow or another write join the first.  Two sockets are enough for one to
replace the other; three for a connect to overlap both.  In `services` two callers
of each kind meet on one record; `MaxMoves = 2` lets a placement move on and back;
the limits of caches and histories are as small as they can be, so that eviction
happens; three tabs against a limit of two; five tasks against a fetch cap of four;
octets and groups are the two sides of every boundary the code compares with; a
proxy gets four results and a clock step, so that a quarantine begins and ends, but no
new check after two of them once writers have overlapped (`MaxOverlapped`), and its first
server is fixed, since servers differ in nothing but their name.
`CHECK_DEADLOCK` is off where the bounds, or a stopped session, end a behaviour.

Fairness.  `TaskCluster!Fairness`: calls of an execution are answered or time out,
and so does its work unless the worker is stopping (stop() does not rely on it:
it waits 15 s for active tasks); processes are restarted by their supervisor, time
passes, and a worker that polls again and again does not fail each time it polls
(strong fairness of `PollBegin` and of a dequeue that claims).  `ManagerFairSpec`:
awaited calls return or fail, due timers fire, a lease nobody renews lapses, and a
process that has shut down exits; nobody has to call stop, and that TTLs pass is
only a premise of `TtlEnforced`.  `LeaseFairSpec`: an armed timer fires.
`SessionFairSpec`: the steps of `stop` and its drain timer; that browser calls
return is not part of it but a premise of `ActionsSettle` (`CallsReturn`), so
`StopCompletes` holds with calls that hang.  `Workflow!Fairness`: timers fire and
continuations run; a page operation may hang.  `PlaneFairness`: timers fire,
promises settle, and the transport delivers or closes; nobody is obliged to save
settings, drop a connection or call the pool.

### What the code does not do

Two runs show what a comment or document of the repository says and the code does
not guarantee; `PROJECT.json` quotes the lines.

| Run | Trace in short |
| --- | --- |
| `finding_retry` | a task fails on a worker; its record keeps the lease id, so retryTask takes the owned path, which refuses FAILED |
| `finding_stop` | a popup and then a dialog during one step of a workflow whose stopOn leaves dialogs out: interruptReason sees only the dialog, and the workflow goes on |

The models, or the reading they needed, have more of this kind, without a run of
their own.  The properties above are stated so that they hold beside them.

Cluster and placement.
- The COMPLETED update is applied and markUrlSeen fails: the recovery repeats the
  update, is refused as lease lost, and the URL is never marked
  (`worker-daemon.ts:478`).
- A dequeue looks at the first 100 pending tasks; 100 tasks placed on a worker that
  is gone hide the rest (`redis-adapter.ts:172`).
- A batch that fails on its second shard releases the URL claims of tasks already
  queued on the first (`scheduler.ts:427`; 16 shards by default).  So does a batch
  whose enqueue was applied and whose answer was lost.  The run `dedup` therefore has
  one shard and loses no answer; `UrlsHeld` has neither limit and names the case.
- cancelTask or retryTask that read a record just before it expired may write it
  again, without a claim.

Session.
- page_open awaits the URL policy and then navigates; an observer scan may have
  paused the session in between (`browser-session.ts:997`, `docs/prd.md:177`).
- page_type with clearFirst resolves its target and then clears the field
  (`browser-session.ts:1175`), and with submit scans and then presses Enter (`:1180`),
  without looking at its signal: a pause, a crash or a stop during these awaits does
  not prevent the write.  `SchedulerActsInBusy` is about the scheduler only.
- A step abandoned at a workflow's deadline may for the same reasons still navigate,
  clear or submit after the workflow has reported (`LateWriteBlind`).
- A start or a resume that ends while stop() is waiting or closing sets READY over
  STOPPING (`browser-session.ts:614`, `:853`).  Actions are then taken up again, and when
  one of them relaunches the browser that stop() has closed, the next one still acts on it
  in STOPPED.
- The report of a workflow that exceeds maxResultBytes drops steps from its end and
  counts only the rest (`workflow.ts:1460`): it may then miss several completed steps.
  `EffectsReported` is about the count before that.
- handoff grants the lease, then its scan or audit fails: the session is
  USER_CONTROLLED and nobody has the token (`browser-session.ts:944`).
- A takeover that sets READY and then fails in its scan leaves the workspace
  USER_CONTROLLED: the write gate refuses every write (`session-manager.ts:924`,
  `README.md:580`).
- A page crash during start is overwritten by READY, which is why `ReadyMeansAgent`
  and `SingleWriter` are checked with `Crashes = FALSE`.
- A double popup event may close a window that was admitted (`browser-session.ts:1758`).
- The fingerprint of session.workflow leaves stopOn out, so a repeated actionId with
  another stopOn shares the first result (`browser-session.ts:1328`).
- detectPage reads `page.frames()`, which has the main frame in it, so a weak mark in
  the page's own URL counts as a frame's.
- A failure after the new snapshot was recorded leaves it in the history
  (`snapshot-history.ts:434-466`, against the comment at 429).

Session manager and checkpoints.
- The session limit is checked before the awaits of a start
  (`session-manager.ts:340`), so concurrent starts exceed it.
- A failed start forgets the session before it closes the browser: a renewal answered
  in between releases the lease of a browser that is still up (`session-manager.ts:660`).
- saveState compares the version and then lists the versions again
  (`versioned-checkpoint-store.ts:194`, against the comment at 176): a host whose lease
  lapsed may write on top of the new owner's save.
- sessions.clear() at the end of a shutdown forgets sessions whose start was under
  way.  For this reason `ProfileExclusive` is about managed browsers, and
  `LoginNotRolledBack` excludes periodic checkpoints.
- saveState that fails after the link leaves the session with the old version: its
  later saves are refused.

Profiles, proxies and RPA.
- The migration of a profile on read is written outside its queue
  (`profile-store.ts:157` and `:200`); trash entries are matched by prefix (`:340`).
- A restore that dies between its two renames is repaired only by the next restore
  (`profile-backup.ts:211`), which `api/server.ts:529` refuses while the profile is
  missing; a backup does not wait for restores.
- Overlapping proxy checks and updates undo each other's fields.
- A running RPA task that was cancelled may end SUCCEEDED and recur
  (`rpa/service.ts:213`).
- The timeout of a fetch does not cover the DNS lookup.

API and MCP.
- An extension can be deleted while it is assigned (`api/server.ts:350`); a stop that
  ends late deletes the map entry of a newer session (`:770`); a batch delete does not
  stop sessions (`:911`), unlike DELETE (`:843`); a broadcast is answered twice
  (`:1504`); a restore does not see a start in flight (`README.md:281`); X-Has-More is
  false past 500 tasks (`:1041`).
- CSV names with line breaks do not round-trip, since the lines are split first
  (`api/server.ts:1402`), and neither do blanks at the ends of a name (`:1927`).  An import
  that fails while it creates its profiles keeps those it has created (`:1438`).
- NAT64 and 6to4 carriers of private addresses count as public.
- A screencast started after the socket
  closed leaves its timer; stopCapture still broadcasts what was queued.
- A repeated actionId with a semantic target is a conflict, because the target is
  looked up again (`mcp/server.ts:582`, `README.md:562`).
- The announced schemas differ from the enforced ones (`mcp/schemas.ts:975`, comments
  at 615 and 885): a snapshot step without op, the timeout of a legacy wait, tenant
  fields inside extractionSchema, the scheme of a URL.

## 4. What is proved

All theorems hold for every value of the constants that satisfies the named
assumptions of the modules: `QueueAssumption`, `WorkerAssumption`,
`SchedulerAssumption`, `MaxGenAssumption`, `ProfileLeaseAssumption`,
`ManagerAssumption`, `SessionAssumption`, `PoolConstants`, `ControlPlaneConstants`,
`WorkflowConstants`, `FetchConstants`, `LeasesBounded`, `RetryDelays`,
`CooldownsOrdered`, `FilesNumbered`, `PositiveLimits`, `RefsKept`, `TabsConstants`.  They
say that a limit is a number, positive where the constructor refuses zero, and that
a marker such as `None` is not a member of the set it marks the absence from.
`FetchConstants` adds that no address is both public and protected,
`CooldownsOrdered` that the cap of a cooldown is not below its base, `FilesNumbered`
that a backup has finitely many files, which are numbered, and `TabsConstants`
that the first page is number 1.  The theorems about placements, the profile, the
REST server, the RPA service and the streams need none.

`TaskClusterProofs`: `Invariance` proves `IInv`, from which follow `TypeCorrect`,
`TasksNotLost`, `RetriesBounded`, `CompletionFinal`, `LeaseFences` and
`CancellationSticks`.  None of the properties is inductive alone: whether a late
write is refused depends on what copies of a record say.  `IInv` adds three facts.
`RecordInv`: lease ids are below `nextLease`, and a running or completed record has
one.  `ExecInv`: the copy of execution `l` carries lease `l`, no other task has that
lease, and the copy's state fits the next call.  `CallInv`: a copy held by cancel or
retry never carries the lease of a running record.  The proof has one lemma per
action, over the writes of the script it calls.

`UrlsHeld`, in the same module, is about `UrlHeld`, which is false as it stands
(section 3).  The theorem says in which steps it can be lost, for any number of
partitions and with lost answers and expiring keys: `NoOrphan` excludes the
compensation by a call that recorded a part of its batch, the expiry of a claim that
is in use, and a write of cancelTask or retryTask to a record that is gone; in a
behaviour without these three, every task that is queued or running keeps its claim.
That depends on the calls that may still release one.  `UrlInv` says: every recorded
task has its URL claimed (`ClaimsKept`); a call between claimUrls and its end holds the
claims of its batch, and what is recorded of these URLs it has recorded itself
(`ClaimsOwned`); no other such call has one of them (`ClaimsApart`).  So a group that is
enqueued late, and a release by a call that recorded nothing, touch no claim of others.

`AccountProofs`, placements: `PlacementInvariance` proves `PlacementInv`, from which
`PlacementsHonoured` follows.  That a generation names one worker is not inductive:
a scheduler decides from a record it read earlier.  `ReadInv` says that generation
and version advance together and that a record a scheduler read is the current one
or has an older version, so an unchanged version means an unchanged record.
`ClaimInv` collects everybody who says which worker a generation stands for, the
answers handed out, the records read and the store: they agree, and none is ahead
of the store.

The in-process queue: `MemoryQueueServes` proves `QueueServes` from `QueueInv`, for
any number of tasks, workers, leases and operator calls.  Nothing expires here, so a
task is safe only if everybody who will still write its record holds the right copy.
`ExecutionHolds`: a running execution has exactly the record in the map, and one
that waits for its delayed enqueue has the record it was leased, whether or not
a later lease has replaced it.  `OperatorHolds`: the copy of a cancel or retry does
not carry the lease of a running execution, so the fenced update refuses nobody
who runs.  `RunnableFound`, the half of `QueueServes` about lost tasks, is inductive
with these two and with one entry per task in the queue.

The health record: `AccountHealthKept` proves `HealthKept` from `HealthInv`.  What a
mutation writes was computed from the record it read, so the invariant says which
mutations may have read it: only the one at the gate of the queue has computed its
snapshot, and that snapshot follows from the record as it still is (`Follows`: the
failures counted since the last recovery, a retry time within the cap, `DISABLED`
kept by a challenge and by a lost lease).

The proxy pool: `ProxyChecksHold` proves `ChecksHold` from `ProxyInv`, for any number
of servers and of checks, any threshold and any cooldowns.  `Honest` holds always, of
the record and of every copy a check has read: what it says of its last check was found
at the server it names.  The rest holds until two checks overlap, and after that the
code does not keep it (section 3): one check at a time runs, on the record as it is
(`OneChecker`), and the record's counters are those of the results at its server
(`Counts`: the failures at the end of the list, the first of the two successes, and
for each trip of the threshold a quarantine that is running or was served).

The profile: `IdentityIsKept` proves `IdentityKept` from `StoreInv`.  Deleting and
restoring move the file while an operation of the queue holds what it read, so it is
not enough to speak of the file.  `Holds(m)` is what counts as the profile: the file
or, if there is none, the copy a restoration would bring back.  `ReadsCurrent`: what the
head of the queue read is that; `RunsWithIt`: a start under way has its identity;
`AdmittedFrozen`: after the first committed start all of these have the identity of
that start and none is free to change it.  All of it is under `~legacy`: a profile that
began with secrets in plain text is migrated outside the queue (section 3); for the
others `NothingPlain` says that no copy will ever be migrated.

The backup: `ProfileAlwaysSurvives` proves `ProfileSurvives` from `BackupInv`, for any
number of files, restores, failed renames and crashes.  `OneAtATime`: the head of the
queue is the only restore that works on the directory.  `Restoring` says what it has of
it in each phase: the profile is whole under its own name until the swap, then set
aside and whole until the installed one is; what is installed is the manifest,
file by file.  A crash forgets the restore and keeps the directory, so the invariant's
part about the disk, `ProfileNeverLost`, must hold at every step by itself.

Admission: `AdmissionIsExact` proves `PermitsCounted` and `RateBounded`, two of the
three parts of `OperationsBounded`, from `AdmissionInv`, for any requests, limits, burst
and number of buckets.  The rate bound speaks of pairs of past admissions, about which
a bucket remembers only a number and a time.  `Fits` is what they are worth: a bucket
holds at most what its burst and the refill leave after the admissions since any one of
them.  A refill, a rejection and an admission each keep it, and an eviction ends
the record it is about.  That each counter is a cardinality needs that the permits
are finitely many; that a tenant at work keeps its bucket needs that its counter is
not zero.

`ControlLeaseProofs`: `LeaseInvariance` proves `Coherent(lease)` (digest, generation,
timer and handoff state agree), from which follow `LeaseTypeCorrect`,
`TimerAlwaysArmed`, `TokensRetire` and, step by step, `LeaseRefinesOwnership`.

`BrowserSessionProofs`: `SessionInvariance` proves `SessionInv`, from which follow
`SessionAccountedFor`, `SchedulerActs`, `PauseEndsByPerson` and, of a session
whose page does not crash, `AgentActsInTurn`.  To the type and the queue's counter
it adds what relates the task that runs to the session around it.  `StartedFirst`:
nothing is queued before start() has returned, so a start never sets READY under a
task.  `WritesWhileBusy`: whatever takes BUSY away from an action of the agent aborts
it, so the scheduler's check of the signal is as good as a check of the state.  The
exception is STOPPED: it comes over an action that was taken up although stop() was
under way (section 3).
`AgentsTurn` and `PersonsTurn`: the lease is the agent's outside a handoff, and while
it is a person's the session is USER_CONTROLLED or STOPPING and no action of the
agent runs; a crash of the page breaks both, which is why they are under
`Crashes = FALSE`.  The steps that touch the lease use the lemmas of
`ControlLeaseProofs` about its methods: `GrantCoherent`, `ReleaseReturns` and
`ClockKeepsOwner` say what handoff, takeover and the clock do to it.

`SessionManagerProofs`: `ManagerInvariance` proves `ManagerInv`, from which follow
`ManagerTypeCorrect`, `ExclusiveDrivers`, `LoginSafe` and `LeaseKept`.  The invariant has
three layers, each needed by the next.  Whatever fails, a lease being released is
not counted on any more (`OwnerInv`: hence no late release matters) and a session
whose version is the newest knows all of the newest state (`LoginInv`).  While renewals
are in time and no call fails (`Calm`), a managed browser is under its lease, which is
owned and being renewed, from before its launch until after its last save
(`CalmInv`); two of them on one profile would both be the holder.  Without periodic
checkpoints every save is such a last save, so none comes between the steps of another
and the version that was checked is still the newest at the link (`SaveInv`), which
makes up for what saveState lacks.  The proof splits the first layer into a predicate
on one session record (`RecordOK`) with one case per action, and lifts it.

The REST server, in the same module: `SessionMapIsSound` proves `SessionMapSound` from
`ApiInv`, for any number of profiles, requests and extensions.  A request acts on
the number of a session it read before an await.  `EntryHolds`: an entry of the map
names a session of its profile that has been up.  `RequestHolds`: what the number of
a request stands for in each of its phases; the session may have been closed since, but
it is still that one.  `LaunchesApart`: a session that is being launched belongs to
one request, so the failure of another cannot end it.

The tabs, in the same module: `TabsAlwaysAgree` proves `TabsAgree` from `TabsInv`, for
any number of pages and any limit.  `ActiveConsistent` is one of its six parts.
`TabsAreOpened`: a page has one tab and is observed from then on, so no navigation
of it goes unreported.  `RefsCurrent`: a reference whose revision is its tab's belongs to
the document the page shows, or the navigation away from it is still to be reported.
`OpHasTab`: the operation that is suspended still has its tab, and the replacement it opened for the
last tab is neither active nor referred to before it has taken its place.  `PlacesLeft`:
one more than the limit is registered only while that replacement is, and a popup
whose admission is under way has a place.

`ControlPlaneProofs`: `PoolInvHolds` proves `PoolInv`, from which follow
`BindingsAlwaysResolve`, `ConnectionsAlwaysAgree` and `RestartLosesNothing`, for any
number of browsers, callers, sockets and requests.  Neither property is inductive:
whether a connect, a late close or a removal leaves the maps in agreement depends on
the objects and sockets that are held across an await.  `HeldPresent`: an instance a
call still holds is in the map, since remove() takes it from the others.
`SocketsOwned`: `bridgeSockets` and the ids the listeners were made with name each
other, and a socket that has not been attached belongs to nobody; so a
replaced socket that closes late finds another one in its place and leaves it alone.
`OpenIsCurrent` and `WaitsOnConnection`: an open socket of a browser is the one in
the map, and a call waits only for a browser that has one.  `FileMirrors`: persist()
is part of every change, hence a restart at any point finds what memory held.  The
extension's own variables are no part of the invariant: `PoolStep` says what a step
of the composition may do to the pool, and each step of `ControlPlane` is shown to
be one.

`WorkflowProofs`: `WorkflowInvHolds` proves `WorkflowInv`, from which follow
`WorkflowsAccounted` and, step by step, `WorkflowsSafe`, for any number of
workflows, other writers, steps, guarded and unguarded writes, and interrupts.
`QueueFits` relates each entry of the queue to its executor: it is the step after
the ones it counts, it is aborted exactly when the executor no longer waits for it,
and it knows the writes it made. Without it neither the count nor the deadline could
be relied on: the write of a step happens in the queue, its count in a continuation
that runs later. `Counts` is the report against the writes: all of those of the
steps it counts, none of the later ones, and of the step in between as many as it
came to make. `Room`: a workflow that is not over has a step left. `Remembered`: the
actionId of a workflow that began is in the cache, or was and has been evicted.
`RevisionSeen`: nothing moves the page between the check of the revision and the
first write. `OneActive`: the reservation names the workflow that is under way, if
there is one.

`ServiceProofs`, the RPA service: `RpaInvHolds` proves `RpaInv`, from which `RunsHold`
follows, for any number of tasks, attempts, runs and crashes.  That a task starts its
browser once, and that a confirmed cancellation is not undone, are statements about
what a process after this one will do, so the invariant ties a task in memory to the
callers waiting for their write, to the snapshot being written, to the file and to the
load under way.  `WaitsFit` and `OneWaits`: a caller in the tail of writes finds the
task as it left it, and one of them at most goes on with the execution.
`BegunFits`: once the browser may have been started, no snapshot that can still become
the file's says QUEUED, and the file does not either.  `CancelFits` and
`ConfirmedFits`: the same of a cancellation under way and of one that was
answered.  `LoadFits`: what the load brings back is not in memory yet.  A write of
the file may fail at any time (`WriteFails`): the callers are rejected and the file is
as it was.  In the run there is one task, and the successor a recurring task
leaves is another task: that case is covered by the proof alone.

The fetcher: `FetchesHold` proves `FetchesGuarded` from `FetchInv`.  A socket is right
because the answer it came from was approved and is younger than the cache's time;
`CacheSound` says it of the cache (one entry per host, none kept longer than
its answer allows, all of its addresses public), `HopSound` of a fetch that carries an
answer from a lookup to its connection.

The streams: `StreamsHold` proves `OrderKept` from `StreamsInv`.  Messages and actions
are numbered as they come.  With k of them having left the tail, the tail is k+1, k+2,
..., the one under way is k, and the replies (per target window, the actions done)
are 1 to k or k-1.

The MCP gateway: `GatewayAccountable` proves `CallsAccountable` from `GatewayInv`, for
any number of calls, elements and references.  Between the snapshot that resolved a
description and the action on the reference, other calls may take snapshots, the page
may navigate and the registry may evict.  References are never given out twice, so the
entry that has a call's reference, as long as there is one, carries a name the
description may mean (`HoldsRef`); if there is none, the action is refused.

Proved and in no run of its own: the type invariants, `ManagedLeaseHeld`,
`TimerGuardsLease`, `TokenRetired` and `RestartLosesNothing`.

Only model-checked, and why:
- All liveness (`EventuallyFinished`, `StopTerminates`, `SessionsEnd`,
  `SessionSettles`, `EverythingEnds`): it rests on fairness and ENABLED.
- `AlertComplete`, the third part of `OperationsBounded`, and `HistorySound`: they
  speak of sums over a sequence or a set, which are recursive.
- `ListingsExact`, `ContractsHold` and `RulesExact`: the functions are compared with
  their reference definitions on the listed inputs; what a recursive definition
  computes for every input needs an induction the prover cannot be given.
- `VerdictSound`: it has no constants, and the run covers every combination of signals.

## 5. Not modelled

- Tenant authentication, team and audit (`auth`, `team`, `audit.ts`): lookups and
  formatting; an audit that fails is a failing step of `McpGateway`.
- The Studio user interface (`src/public/app.js`): rendering and event wiring.
- Fingerprints and GeoIP: pure functions on large tables.
- Launchers, CDP, extension packaging: process and protocol I/O; a launch succeeds
  or fails in `BrowserSession`.
- Acceptance gates, platform and configuration: release tooling and static data.
- Inside modelled components: extraction from HTML, encryption and key rings,
  formats of exports, the text of errors, the pacing of input, the in-memory lease
  manager, workspace retention on disk, Chromix admission.

Worth doing next: an abstract queue that `MemoryQueue` and `RedisQueue` implement;
`StudioApi` composed with `SessionManager` instead of with the sessions it sees;
`Workflow` on `BrowserSession` instead of on a queue of its own; the bytes of
`SnapshotHistory` as a function the provers can unfold, and `HistorySound`.
