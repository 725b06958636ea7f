# Verification of the sandbox service

This directory models the sandbox service (the TypeScript under `src/`) in
TLA+, checks the models with TLC on small instances, and proves their main
safety properties with TLAPS for every instance.

    tlc -workers 2 -config manager.cfg MCSandboxManager.tla
    tlapm SandboxManagerProofs.tla

`PROJECT.json` maps each definition to the lines it models, and lists the runs,
the mutants that show each property can fail, the disagreements between text
and code, the hazards and the theorems.

## 1. The system

The service runs untrusted JavaScript for API users, each sandbox in a
Firecracker microVM (or, in development, a child process). A **control plane**
serves the public API and keeps the database; **workers** run the VMs. Without
a worker token the control plane runs VMs itself.

| Component | State | Operations | Hard part |
|---|---|---|---|
| `SandboxManager` (`sandbox/manager.ts`) | Map `running`, limit, TTL | create, execute, destroy, `evictExpired` on a timer | every operation awaits the backend in the middle; anything may happen meanwhile |
| `SandboxStore` (`db/store.ts`) | tables `sandboxes`, `execution_logs`, `templates` | insert, update last use, mark destroyed, append log, queries | survives a restart, the Map does not |
| Metrics (`metrics/prometheus.ts`) | counters and a window of durations | record, render | counted in continuations |
| Events (`routes/events.ts`) | set of WebSocket subscribers | broadcast, subscribe, prune | order relative to the store |
| `WorkerCluster` (`control-plane/worker-cluster.ts`) | Map `workers`, Map `sandboxToWorker` | register, heartbeat, evict stale, pick, create, execute, destroy, reconcile | distributed: lost and late requests, restarts, stale objects held across an await |
| Worker daemon (`worker/*.ts`) | its own manager and in-memory table | sandbox routes, boot registration, heartbeat, re-registration | retries, being forgotten, being only slow |
| `FirecrackerBackend` (`sandbox/firecracker-backend.ts`) | Map `vms`, processes, chroots | boot (cold or snapshot), execute, destroy | a failure after each of a dozen steps |
| Agent call (`callAgent`, `guest-agent/agent.js`) | one socket, its buffer and phase | handshake, framed request and response | chunking, timeout against answer, settling once |
| `ProcessBackend` (`sandbox/process-backend.ts`) | set of ids, a directory each | create, execute, destroy | one job file for concurrent executes |
| Key cache (`auth-hook.ts`) | Map of verified keys | look up, remember, expire, evict at 1024 | staleness across an await |
| HTTP API (`routes/sandboxes.ts`, `routes/metrics.ts`) | none of its own | list, detail, logs, counts, refusals | two sources: the table for some answers, the Map for others |
| Template and snapshot builders (`build-template.sh`, `scripts/build-snapshot.ts`) | rootfs, snapshot pair, manifest, a shared chroot | rebuild, capture, install | run beside the daemon that boots from the same files |
| Dashboard (`dashboard/app`) | the list shown, fetches under way, a socket | fetch, click, event, navigate | answers in any order, a socket that does not reconnect |
| Authentication library, configuration, account pages, provisioning | none of the program's own that changes while it runs | | |

**Interaction.** The HTTP routes call the control plane's manager; the manager
calls a `SandboxBackend`, updates the store, counts, and broadcasts. On a
single machine the backend is `FirecrackerBackend`; in a fleet it is
`WorkerCluster`, which forwards by HTTP to the worker's routes, and these call
the worker's own manager over its own backend. Workers register and heartbeat
to the control plane; a registration triggers a listing of the worker's
sandboxes. Every request is first given a user by the key cache. A boot reads
the files the builders make; an execute goes over vsock to the agent in the
guest. The dashboard reads the API and listens to the events.

**Concurrency.** Each program is one Node.js event loop: code between two
awaits is atomic, code across an await is not. Between the programs, requests
and replies are lost or late, and either side restarts.

**What makes each component correct.**

- Manager: Map, table, events and counters agree whatever interleaves; no VM is
  forgotten without a fault; a sandbox ends for a reason and never comes back;
  the limit is exceeded at most by the creates in flight; an idle sandbox ends.
- HTTP API: what one route says does not contradict what another does.
- Cluster: a sandbox has one home; routes lead to it and are not dropped while
  it runs; a create or destroy that is late does no harm; counts converge; a
  forgotten worker is found again; orphans age out.
- Firecracker backend: every jail and VM has someone who will release it, except
  after a failed boot or rm or a restart; the entry of a VM is not dropped
  before the VM; a restored guest runs on the rootfs its snapshot was taken of;
  a create settles.
- Builders: a manifest tells the truth about the snapshot beside it; no VM
  outlives its build; a build ends.
- Agent call: for every chunking a call holds exactly its answer; a timeout is
  what it says; a call settles, once.
- Process backend: an execute runs the code it was given; what is destroyed
  stays removed; an execute settles.
- Key cache: a revoked key dies in time, and the right credential counts.
- Dashboard: a page that waits for nothing shows what the server holds.

## 2. Modules

| Module | Models |
|---|---|
| `SandboxLifecycle` | abstract: the `status` column goes none, running, destroyed |
| `SandboxPlacement` | abstract: a sandbox starts on one worker, at most once, and not after it is over |
| `SandboxManager` | `manager.ts` with the store, metrics and events it drives, over an asynchronous backend |
| `SandboxApi` | what the routes answer in a state of the manager |
| `WorkerCluster` | `worker-cluster.ts`, `worker/*.ts`, `routes/workers.ts`, and the network |
| `FirecrackerBackend` | create and destroy of `firecracker-backend.ts`, with the host's files and processes |
| `SnapshotBuilder` | `build-snapshot.ts` and `build-template.sh` over the files of one template |
| `FirecrackerNode` | the two above on one disk |
| `RequestResponse` | abstract: what a caller of `execute` may rely on |
| `AgentCall` | `execute` and `callAgent` of `firecracker-backend.ts`, `agent.js`, and the stream between them |
| `ProcessBackend` | `process-backend.ts` |
| `KeyCache` | `auth-hook.ts` |
| `Dashboard` | the listing pages, their fetches and socket, and the delivery of events |
| `...Proofs` | theorems about the module of that name; `SandboxManagerProofs` also about `SandboxApi`, `FirecrackerProofs` about `FirecrackerNode`, `SnapshotProofs` about `SnapshotBuilder` |
| `MC...` | instances for TLC: symmetry sets, and constants a cfg cannot write |

### SandboxManager

`running` and `info` are the Map, `row` and `logs` the tables, `calls` the
handler activations and `timers` the `evictExpired` activations (more than one:
`setInterval` does not wait), `vms` what the backend holds. Each of create,
execute, destroy and evict is `...Begins` (up to the await), `Backend...` (the
backend acts and its promise settles, well or not) and `...Returns` or
`...Fails` (the continuation). A request that is refused before its await
changes nothing and is not a step. `Restart` empties the Map and everything in
flight and keeps the tables. `abandoned` is a history variable: ids whose VM
this process has forgotten.

### SandboxApi

A route that reads has no await, so it is an operator on the manager's state,
not an action. `Answer`, `ListAnswer`, `WorkerList`, `CreateAnswer`, `Available`
and `Exposed` are the routes' answers, each computed from the source the code
uses: `Visible`, `Listed` and `ExecutionCount` from the tables, the writes
first from the table (for the log line) and then from the Map, the counts from
the Map. `ApiAgrees` compares them for every caller. A list is the caller's own,
while the count and the limit beside it, the refusals and the metrics are about
everybody's sandboxes: count and list are equal exactly while nobody else has an
open sandbox (`ListAgrees`), so for two users they differ. Only the worker's
caller, the control plane, has no user, and its list is always the whole.

### WorkerCluster

`registered`, `entry` and `owner` are the two Maps of the cluster; `known` is
the Map of the control plane's manager; `hosted[w]` the one of the worker's.
A call is three steps again: it begins (`CreateBegins`, `UseBegins` for
execute, destroy and the TTL timer's destroy), the worker handles it
(`Worker...`), and it returns or fails. `reconciles` holds the
`reconcileWorker` activations in flight, `signals` the register and heartbeat
requests on their way, and `strays` the requests whose caller has given up but
that may still be carried out. `calls[c].current` says whether the `WorkerInfo`
object the call holds is still the one in the registry: after a registration or
an eviction it is not, and what the call adds to its `active` is lost.

What happens inside a worker's handling is `SandboxManager`; here it is one
step. Time is not counted: that a worker is silent for longer than
`staleTimeoutMs` (`GoesSilent`) or a sandbox idle for longer than the TTL
(`Ages`) is an event. Loss, delay, silence and restarts cost one of
`MaxFaults` each; ageing does not.

`ImplementsPlacement` maps the cluster to `SandboxPlacement`. `Place` is the
workers whose Map has a sandbox. An id that was given out is over once it runs
nowhere and no request to create it is left, in flight or late (`Coming`). A
worker that starts an id ends its coming, so to start it twice, or after a
destroy, would be a second `Start`, which the abstract module does not allow.

### FirecrackerBackend

`boot[id].at` is where the handler of `create` stands: each await is a value of
it, from the mkdir of the chroot over the staging of kernel, rootfs and
snapshot, the jailer, the socket and the API calls (`Plan`) to the probes of
the agent. Where the code tolerates a failure (a link that fails is a copy, a
copy that fails is a cold boot) the failure is a step to the next place;
elsewhere it is `CreateFails`, which removes nothing, as in the code. `jail`
and `firecracker` are the host's chroots and processes, `vms` the backend's
Map, `known` what the manager would act on. `DestroyBegins` kills and waits,
`RemoveJail` is the rm, `DestroyFails` the rm that rejects: an owner may try
again, the TTL timer forgets the sandbox (`unremoved`). A VM may die and the
server restart at any step.

### SnapshotBuilder

`disk` holds the template's three files and `manifest` the hashes' version.
`area` is the one chroot all builders of a template use, because its name
depends on the template only. A builder's `at` is its await; the finally block
is `KillVms`, reached by success and by failure. `Capture` writes two files
into the area, and `RenameState`, `RenameMemory`, `WriteManifest` install them
one by one. `DeleteRootfs`, `TemplateBegins` and `TemplateDone` are the rebuild
of the rootfs in place. `spoiled` is a history variable: since the manifest was
written an install was cut or shared, or the rootfs changed between its hash
and its copy.

`FirecrackerNode` lets backend and builders take turns on one `disk`. `steady`
is its history variable: when the boot copied the rootfs the disk was sound (no
snapshot, or one captured of that rootfs), and no install changed the snapshot's
files until the boot had linked them (`Taking`). Before and after, and in the
rootfs even meanwhile, the builders may change what they like.

### AgentCall and RequestResponse

The bytes of a stream are positions: to the host flow `LineLen` bytes of
handshake, `HeaderLen` of length header and `AnswerLen` of answer, to the guest
a header and a request. `HostData` and `GuestData` deliver any number of the
bytes sent and do everything the data handler does with what is then complete.
A length that is read where no header begins is not the answer's length
(`LengthAt`), so a parser that loses or keeps a byte goes wrong. `job` is the
guest's child, with the process it may leave on its pipes; the child's timer
and the host's, which waits for `Timeout + Grace`, are counted in ticks per
call (`age`, and `lag` for the ticks that were not the job's).
`RequestResponse` is what a backend promises of an execute; `Outcome` maps the
states of a call to it.

### ProcessBackend

`file` is the one `job.js` of a sandbox's directory `dir`. A call opens and
truncates it, writes it, spawns the child, and the child reads it some time
later; destroy unlinks it and then the directory. Every one of these is a step.
`disturbed` is a history variable: another execute or a destroy of the same
sandbox came between this call's open and its child's read. Two timers end a
child, one by SIGTERM, which the code may ignore.

### KeyCache

`order` is the insertion order of the Map and `expiresAt` its values. A request
takes the credentials in turn (`turn` in `Sources`); each is missing, found in
the cache, or asked of the library, whose read of the key table and whose
answer are two steps. Between them other requests remember keys and the owner
revokes one.

### Dashboard

`open` and `valid` are the server's running sandboxes and its keys, `list` what
the page shows. A fetch is sent, read by the server and applied in three steps;
`older` and `passed` say which fetches were read later and whether one of them
was applied earlier. `queue` is the events on their way to the socket.
`missed` is a history variable that names the cases in which the page is told
nothing: a change while the socket is not open, an eviction, a failed fetch, an
ended session, an answer applied after a newer one.

## 3. Runs

| Run | Instance | What it checks |
|---|---|---|
| `manager` | 3 sandboxes, 2 calls, 1 timer, limit 1, reliable backend | `TypeOK`, `ForgottenOnlyByFault`, `EventsAgree`, `OvershootIsBounded`, `NoResurrection` |
| `manager_faults` | 1 sandbox, 2 users, 2 calls, 2 timers, limit 1, failing backend, 1 restart | `StoreMirrorsMemory`, `LiveVmIsKnown`, `InFlightSound`, `ApiAgrees`, `EndedByOwnerOrTtl`, `ImplementsLifecycle` (the refinement of `SandboxLifecycle`) |
| `manager_live` | 2 sandboxes, 1 call, 1 timer, failing backend, fairness | `ClosedAfterOpened`, `IdleSandboxEnds` |
| `cluster` | 1 sandbox, 2 workers, 2 calls, 1 fault | `OneHome`, `RequestsSound`, `FleetAgrees`, `RouteKeptWhileHosted`, `ImplementsPlacement` (the refinement of `SandboxPlacement`) |
| `cluster_live` | 2 sandboxes, 1 worker, 1 call, 1 fault, fairness | `CountIsCorrected`, `Rediscovered`, `OrphansAgeOut` |
| `cluster_reconcile` | 1 sandbox, 1 worker, 1 call, 2 faults, fairness | a counterexample to `Rediscovered`, see section 5 |
| `firecracker` | 1 sandbox, 2 rootfs versions (one of them partial), 2 destroys, 1 fault, 2 builders, 1 change, fairness of the backend | `StrandedOnlyByFailure`, `SteadyRestoreIsSound`, `HandleKeptWhileHeld`, `CreateSettles` |
| `snapshot` | 2 builders, 3 versions (one partial), 1 change, 1 kill, fairness | `ManifestSound`, `OrphanOnlyByDeath`, `BuildEnds` |
| `vsock` | 2 calls, line and header of 2 bytes, request and answer of 1, timeout 1, grace 1, fairness | `AnswerIsWhole`, `TimeoutsAreHonest`, `ImplementsRequestResponse` (a refinement), `CallSettles` |
| `process` | 2 sandboxes, 2 calls, fairness | `RunsItsCode`, `DestroyedStaysRemoved`, `ExecuteSettles` |
| `auth` | 2 keys, 2 users, 2 requests, cache of 1, TTL 1, delay 1, time up to 3 | `RevokedKeyDies`, `FirstCredentialWins`, `RememberedIsKept` |
| `dashboard` | 1 sandbox, 1 key, 2 fetches, 2 outside changes, 1 fault, fairness | `QuietListIsCurrent`, `ListCatchesUp` |

**The bounds.** `MaxTime`, `MaxLogs`, `MaxRestarts` in the manager;
`MaxSignals`, `MaxFaults` in the cluster; `MaxFaults` in the backend (failures,
deaths of VMs and restarts together); `MaxChanges`, `MaxDeaths` in the builder;
`MaxTime`, and the code's `Limit` and `Ttl` with the `Delay` of an answer, in
the key cache; `MaxChanges`, `MaxFaults` in the dashboard. Each stands in the
guard of an action.

**Why they are enough.** In the manager two requests and one or two timer
activations produce every pair of overlapping operations; the third sandbox
lets a limit of one be exceeded and a scan go on to a second victim. A clock of
one or two ticks with a TTL of zero separates created, used, expired and closed
late; in `manager_faults` a TTL of one tick, over three, also separates a sandbox
that is old from one that is unused. One restart separates before and after. In the cluster a second worker
is needed to have a wrong home, and two calls to have a late reply of one after
the effect of another; one fault at any step is the case the code is written
for. With one worker and two sandboxes `cluster_live` reaches a full worker.
The larger cluster instances that were also tried without a violation of the
safety properties: two faults (3.5 million states), two sandboxes on one worker
with two heartbeats on their way (3.0 million), and two sandboxes on two workers
with one call (3.0 million).

In the backend boots of different sandboxes share only the template's files,
which they do not write, so one sandbox shows every interleaving with the
builders and with two destroys of it; a fault that is tolerated costs nothing,
so a boot falls back as often as it can and then meets the one fault. Two
builders are needed to share a chroot and to have a snapshot that is older than
the one being made. The death of a builder is left to `snapshot`. On the
streams a line and a header of two bytes can be cut inside, together with what
follows them or apart; one byte of answer is enough to be missing or too many.
Two calls with one agent are needed for one to harm the other. In the process
backend and the key cache two calls make every pair, and a cache of one entry
is at its limit from the second key on; three ticks let an answer be late, be
remembered, and expire. Two fetches are answered in either order.

**Deadlock** is checked in `cluster`, `cluster_live`, `auth` and `dashboard`.
The other passing runs switch the check off because their systems really stop:
the manager's clock, logs and ids are bounded, and an id, a call or a builder
of the others is used once.

**Fairness.** No request need be made, no fault need happen and no VM, guest or
user need do anything.

- Manager: what the backend was asked settles, continuations run, and
  `setInterval` starts scans.
- Cluster: requests on their way are served or fail, replies and signals
  arrive, a worker registers or beats, and `evictStale` runs, as the two
  intervals and the event loops provide. `OrphansAgeOut` further assumes that
  the worker's TTL timer runs and that an unused sandbox ages (`TtlFairness`).
  `Rediscovered` lets a sandbox end instead, and holds only while no
  reconciliation fails (`ReconcileMayFail = FALSE`); `cluster_reconcile` shows
  what happens otherwise.
- Firecracker backend: awaited file operations and API calls settle, the wait
  loops give up, and a killed process disappears. The requests of
  `firecracker-api.ts` have no timeout, so this includes that Firecracker, once
  its socket is there, answers or closes. In `FirecrackerNode` the builders may
  stall for ever.
- Snapshot builder: every await of a build settles, by the same reasoning.
  Nobody need rebuild a template.
- Agent call: the clock advances and the two timers fire, nothing else. That is
  all `CallSettles` needs.
- Process backend: file operations, spawn, spawn's own timeout, the
  SIGKILL timer and the close event.
  Nothing is assumed of the code that runs: `ExecuteSettles` exempts only a
  call whose pipes are held by a process that the code left behind.
- Dashboard: fetches are answered or fail, and the browser handles the events
  that have arrived.
- Key cache: none; its properties are safety properties.

## 4. Proofs

For every value of the constants: any set of ids, users, calls, workers,
builders, keys, any limit, TTL, timeout, length and bound. The assumptions are
those named in the modules: numeric constants are natural numbers (the lengths
of the streams' parts positive), the sets whose size is counted are finite, and
the null values are none of the values they stand in for, and on a node the
disk may hold whatever its builders capture.

**Manager.** `IndInv` in `SandboxManagerProofs` is the conjunction of the type
invariant, what calls and timers know across their await (`CallsSound`,
`CreatesDistinct`, `TimersSound`) and the safety invariants. The second group
is why it is inductive: a continuation writes to the table and the Map what was
decided before the await, so its correctness rests on what remains true of its
sandbox in between. The theorems are `TypeCorrect`, `StoreMirrors`,
`LiveVmKnown`, `ForgottenByFault`, `TimesOrdered`, `EventsInOrder`,
`OvershootBounded`, `InFlightIsSound`, the action properties `NothingResurrected`
and `EndedRightly`, and `ManagerImplementsLifecycle`, the refinement. An eviction
acts on what its scan saw (`WasExpired`): the sandbox was unused for longer than
the TTL when the scan began, however many awaits and scans have passed, unless it
has been used since.
The bound on the overshoot needs the finite-set theorems: a create that begins
raises the number of creates in flight by one, below a limit the Map has not
reached, and there are at most as many creates as calls.

**HTTP API.** `ApiAgrees` follows from the manager's `IndInv` and two more
invariants, that as many creates were counted as records exist
(`CreatedCounted`), and that no sandbox has more log rows than executions were
counted (`LoggedCounted`), since counter and row are written in one
continuation. The theorem is `RoutesAgree`, in `SandboxManagerProofs`, along the
four parts of the property: what one caller sees and may do (`CallersAgree`),
the list beside the count (`ListsAgree`), the limit (`LimitsAgree`) and the
numbers (`NumbersAgree`). They meet in `WorkerListIsMap`, that until a restart
the open records are the Map.

**Cluster.** `IndInv` in `WorkerClusterProofs` is `TypeOK`, `OneHome`,
`KnownIssued` (what is known was once given out) and `RequestsSound`.
`OneHome` quantifies over every place that names a worker as the home of a
sandbox: the worker itself, the route, a call, a late request, a listing.
`NamedStep` shows that no step but a new create adds a name that was not
derivable from one that existed, so the argument is the same for lost messages,
restarts and evictions. `RequestsSound` needs `OneHome` for destroys (the
worker that answers was the only one that could run the sandbox), and
`RouteKeptWhileHosted` needs both. The theorems are `TypeCorrect` (which no run
repeats), `OneHomeCorrect`, `RequestsSoundCorrect` and `RouteKept`.

`FleetInAgreement` is about the time before the first fault. `FleetAgrees`
alone does not survive a step: what a call in flight will do when it returns
must be known. `PeaceInv` adds that no request is late and every worker is
reached (`Reached`), what each call has already done at its worker
(`CallAtPeace`), and that routes follow what runs (`RouteFollows`);
`FleetAgrees` is its last two parts (`Usable`, `Accounted`). A step under
`PeaceInv` that could break it is one of the faults.

`ClusterImplementsPlacement` holds with any number of faults. It needs, beside
`IndInv`, that a sandbox whose create is still coming runs nowhere (`NotYet`).
Every action is then one of three: it changes neither place nor over, it starts
one sandbox that was coming (`StartsOne`), or it ends a set of them
(`EndsSome`): a request that gives up or is lost, a destroy, an eviction, the
restart of a worker.

**Firecracker node.** `NodeInv` is `BackendInv`, `RestoreIsLate` and
`SteadySound`. `BackendInv` says what each place of a boot implies about jail,
process and Map (`BootsSound`), that the Map holds what the manager knows
(`MapsSound`), and what a destroy across its awaits still implies
(`DestroysSound`): an id belongs to one boot, and overlapping destroys of it
only ever remove more. `SteadySound` says, of a boot whose flag stands, that the
disk matches the rootfs in its jail while it takes the other files (`Matched`),
and that what it took fits together from then on. The theorems are
`OnlyFailuresStrand`, `KnownRegistered`, `RunningJailed`, `RestoresSteady` and
`HandleKept`.

`HostImplements` shows that a host, too, implements `SandboxPlacement`, as a
fleet of one: an id is over once its boot is past the spawn and its VM does not
run. So the fleet keeps over the network the promise that each of its hosts
keeps over its processes.

The proofs about the builders are used again beside the daemon:
`BuildersTakeTheirSteps` and `DaemonLeavesBuilders` show that each step of the
composition is a builder's or leaves the builders' variables alone, and
`BuildInvInit` that a worker after a deploy satisfies their invariant.
`BuildersUndisturbed` gives the two properties of `SnapshotBuilder` there, and
with them what is on the disk is typed, hence what is in a jail
(`TypeCorrect`). `TypeCorrect` also bounds the position in the plan of API
calls (`PutsInPlan`): a snapshot is only ever staged before the first call.

**Snapshot builder.** `Inv` in `SnapshotProofs` is the typing,
`OrphanOnlyByDeath` and `Undisturbed`: while nothing was spoiled at most one
builder is busy, and for each place it may be at, what is then true of the
area, the VM, the disk and the manifest. The theorems are `OnlyDeathOrphans`,
`ManifestDescribes` and `TypeCorrect`.

**Agent call.** `Inv` has the typing, that job numbers count the jobs
(`Numbered`), that the parser's phase and buffer are a function of how many
bytes have been consumed (`Parsed`), that no side has received more than was
sent (`Streamed`), that the job's place fits the wire (`Jobbed`), and that both
ages are accounted for (`Timed`). The theorems are `AnswersWhole`,
`HonestTimeouts`, `RefinesRequestResponse`, which maps every step to one of
`RequestResponse` or a stutter, and `TypeCorrect`, for which a call must be
shown never to be older than timeout and grace together (`InTime`).

**Process backend.** `Inv` is `TypeOK`, where each call stands (`Placed`), that
the job file is the call's own while it is undisturbed (`Own`), and that what a
destroy removed is gone (`Kept`). The theorems are `OwnCodeRuns`,
`RemovedStays` and `TypeCorrect`. With `Paired`, that a child lives exactly
while its execute waits for it, an execute settles once, whatever timer, error
or late event follows (`AnsweredOnce`), and no step takes it back
(`ExecutesComeToAnEnd`).

**Key cache.** `Inv` is the typing, that an entry expires within a TTL from
now and, if its key was revoked, within the delay and the TTL of the revocation
(`EntriesSound`), and that an answer under way is no older than the delay and
was true when the library read it (`AnswersSound`). The theorems are
`RevokedKeysDie` and `FirstCredentialDecides`. The second needs that every
credential a request has passed over does not hold, while it waits for the next
(`Holdless`), when it is let in (`Decided`) and when it is refused (`Refusing`):
a key that was refuted stays so, because a revoked key is never revived. That the Map stays within its
limit and keeps what was just remembered (`TheRememberedIsKept`, `TypeCorrect`)
rests on `Ordered`: the insertion order is a sequence without repetition and no
longer than the limit. `RemoveFirstOrdered` and `TrimOrdered` show that
deleting a key and remembering one preserve it.

**Dashboard.** `Inv` in `DashboardProofs` is the typing, what the fetches know
of each other (`CallsSound`) and `Current`: a listing page that has missed
nothing has been told to read again (`Told`), or the newest list on its way is
the server's and no other will be applied after it (`FreshComes`), or it shows
the server's list and none on its way will replace it unnoticed (`FreshShown`).
A page that waits for nothing can only be in the last case. The theorems are
`QuietListsAreCurrent` and `TypeCorrect`.

**Towards liveness.** Liveness under fairness is out of the prover's reach, but
the part of it that is a safety property is not. `BootsComeToAnEnd`,
`BuildsComeToAnEnd` and `ExecutesComeToAnEnd` give each boot, each build and
each execute of the development backend a number of steps still before it
(`StepsLeft`, `Ahead`; a wait loop is one of them, its polls are not counted)
that every step of it lowers: no order of fallbacks, failures, timers and other
actors' steps makes it go round in a circle. `InTime` is the same for an agent
call. What is left to TLC is that the next step is enabled and is taken.

**Only model-checked.** The liveness properties (`IdleSandboxEnds`,
`CountIsCorrected`, `Rediscovered`, `OrphansAgeOut`, `CreateSettles`,
`BuildEnds`, `CallSettles`, `ExecuteSettles`, `ListCatchesUp`). Every safety
property of a passing run is proved. Fences of the kind "unless `spoiled`",
"unless `missed`" are part of the statements: the proofs say that nothing
outside the named cases breaks the property, not that the cases cannot occur.

## 5. Where text and code disagree

`cluster_reconcile` is kept as a run. The comment at
`src/control-plane/worker-cluster.ts:197` says that after a failed
reconciliation "the next heartbeat cycle will trigger another reconcile path";
only a registration reconciles, so after a restart of the control plane and one
failed listing a sandbox that keeps running is never routed again.

The other disagreements, which the models also show, are noted here. Paths are
relative to the repository.

| Text | Code |
|---|---|
| "Sandbox limit reached: maximum ${max} concurrent sandboxes" (`src/sandbox/manager.ts:215`) | the limit is compared before the await (:54), the sandbox counted after it; `OvershootIsBounded` bounds the excess |
| the test "does not evict recently used sandboxes" (`tests/manager.test.ts:190`) | a use during the eviction's own await does not stop it (:198), and nothing else ends a sandbox in use (`EndedByOwnerOrTtl`) |
| "Total number of sandboxes destroyed" (`src/metrics/prometheus.ts:88`) | two overlapping destroys of one sandbox both count (:117) |
| "5-minute idle TTL with automatic cleanup" (`prd.md:133`) | nothing closes a record left open by a restart: the scan reads the Map (:196), and `getExpired` (`src/db/store.ts:95`) has no caller |
| a stale worker's sandboxes are marked as terminated (`prd.md:339`) | `evictStale` (`worker-cluster.ts:82`) changes the registry and the routes only |
| an execute on a rebooted worker's sandbox "returns 410 Gone, DB marks terminated" (`prd.md:348`) | it is answered 404, and the sandbox stays in the Map and the table until the TTL |

Further observations, where no text says otherwise: `GET /sandboxes`
(`README.md:112`, "List sandboxes (with count + max)") returns the caller's list
beside everybody's count and limit (`src/routes/sandboxes.ts:36-37`), so a user
whose list is empty may read a count of one and be refused a create with 429
(`ListAgrees`, `LimitAgrees`); a process that survives SIGKILL for the 500 ms of
a destroy loses its chroot and its handle (`firecracker-backend.ts:504`), which
the models exclude, as a killed process counts as gone; the template script accepts
any rootfs file that exists (`build-template.sh:31`), so one whose setup failed
stays in use (`TemplateBegins` without `TemplateDone`); a socket of `/events`
is authenticated once and outlives the key it came with; a worker that
advertises the limit 0, which its own manager takes as no limit
(`manager.ts:54`), is never picked (`worker-cluster.ts:100`).

## 6. Plan

Done: every module of section 2, and the proofs of section 4. Left, in this
order:

1. A composition of `WorkerCluster` with `SandboxManager`, so that the cluster
   is shown to be a backend the manager may use; both placements
   (`ImplementsPlacement` and `HostImplements`) are the first half of it.
   Different limits per worker.
2. A number that falls with every step of a manager's call, as in
   `BootsComeToAnEnd`.
3. The dashboard's detail page and its metrics cards.
4. The histograms of the metrics.

## 7. Not modelled

- `ExecutionLog`, which nothing uses, and `getExpired`, which nothing calls.
- The authentication library: its tables are the external state of `KeyCache`.
  The token between control plane and workers is one comparison.
- Configuration and start-up: environment variables and wiring. The timers
  `server.ts` starts are the fairness of the models.
- The dashboard's presentation: markup, vendored UI primitives, and the account
  forms, which pass one request to the library.
- Provisioning of machines, and network policies: no state the service reads.
- Histograms, migrations of old databases, request schemas, log lines.
- In the cluster: the control plane's own limit, and different limits per
  worker. The scheduler's choice among equals is left open.
- In the agent: a malformed request, which this host never sends; in
  `FirecrackerBackend` the contents of the API requests.
- Hazards without a property, each with its reason in `PROJECT.json`: a VM
  leaked by a failed create, a boot longer than the TTL, a page that is not told
  of an eviction, a failed Firecracker boot, and two executes in one sandbox.
  The properties name these as the cases in which they promise nothing.
