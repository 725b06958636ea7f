---------------------------- MODULE SandboxManager ----------------------------
(***************************************************************************)
(* The sandbox manager of src/sandbox/manager.ts with the store, the       *)
(* metrics and the events it drives, over an asynchronous backend.         *)
(*                                                                         *)
(* The program is one Node.js event loop: a method runs without            *)
(* interruption up to its await, and its continuation runs without         *)
(* interruption once the backend's promise settles.  Each of create,       *)
(* execute and destroy is therefore three steps: Begins (everything before *)
(* the await), Backend... (the backend has done its work, or failed, and   *)
(* the promise settles) and Returns (everything after the await).  Any     *)
(* steps of other calls and of the TTL timer may come in between.          *)
(*                                                                         *)
(* A request that is refused before the await (unknown template, not the   *)
(* owner, over the limit) changes nothing and is simply not a step.        *)
(***************************************************************************)
EXTENDS Naturals, Sequences, FiniteSets

CONSTANTS
    Sandboxes,       \* sandbox ids; uuids, so an id is never given twice
    NoSandbox,       \* the id of an activation that has none
    Users,           \* API users
    NoUser,          \* userId null: a caller without a user, and its sandboxes
    Calls,           \* handler activations that may be in flight together
    Timers,          \* evictExpired activations that may overlap
    MaxSandboxes,    \* the configured limit; 0 is no limit
    Ttl,             \* ttlMs, in units of the model's clock
    BackendMayFail,  \* whether a backend operation may be rejected
    MaxTime,         \* bound: last value of the clock
    MaxLogs,         \* bound: executions of one sandbox
    MaxRestarts      \* bound: restarts of the process

ASSUME NatAssumption ==
    /\ MaxSandboxes \in Nat
    /\ Ttl \in Nat
    /\ MaxTime \in Nat
    /\ MaxLogs \in Nat
    /\ MaxRestarts \in Nat
    /\ BackendMayFail \in BOOLEAN

ASSUME FiniteAssumption == IsFiniteSet(Sandboxes) /\ IsFiniteSet(Calls)

ASSUME NullAssumption == NoUser \notin Users /\ NoSandbox \notin Sandboxes

VARIABLES
    running,     \* keys of the Map `running`
    info,        \* info[id] : the RunningSandbox object kept for id
    row,         \* row[id] : the record of id in table sandboxes
    logs,        \* logs[id] : how many execution_logs rows id has
    calls,       \* calls[c] : what handler activation c is doing
    timers,      \* timers[t] : what evictExpired activation t is doing
    vms,         \* ids for which the backend holds a microVM or a process
    abandoned,   \* history: ids whose VM this process has forgotten
    metrics,     \* the Prometheus counters
    events,      \* events[id] : what broadcastEvent has sent about id
    clock,       \* Date.now()
    restarts     \* how often the process has been restarted

memory == <<running, info, calls, timers, metrics>>
store  == <<row, logs>>
vars   == <<running, info, row, logs, calls, timers, vms, abandoned, metrics,
            events, clock, restarts>>

Owners == Users \cup {NoUser}

Stages == {"pending", "done", "failed"}

\* A handler activation at rest, or in the create, execute or destroy of id;
\* now is the time it captured.
CallType == [op : {"idle", "create", "execute", "destroy"}, stage : Stages,
             id : Sandboxes \cup {NoSandbox}, user : Owners, now : Nat]

IdleCall == [op |-> "idle", stage |-> "pending", id |-> NoSandbox,
             user |-> NoUser, now |-> 0]

\* An evictExpired activation at rest, or awaiting the destruction of id.
TimerType == [op : {"idle", "evict"}, stage : Stages,
              id : Sandboxes \cup {NoSandbox}, now : Nat]

IdleTimer == [op |-> "idle", stage |-> "pending", id |-> NoSandbox, now |-> 0]

RowType == [status : {"none", "running", "destroyed"}, userId : Owners,
            createdAt : Nat, lastUsedAt : Nat, destroyedAt : Nat]

EventTypes == {"created", "completed", "destroyed"}

CallsTyped ==
    /\ calls \in [Calls -> CallType]
    /\ \A c \in Calls : calls[c].op # "idle" => calls[c].id \in Sandboxes

TimersTyped ==
    /\ timers \in [Timers -> TimerType]
    /\ \A t \in Timers : timers[t].op # "idle" => timers[t].id \in Sandboxes

TypeOK ==
    /\ running \subseteq Sandboxes
    /\ info \in [Sandboxes -> [userId : Owners, lastUsedAt : Nat]]
    /\ row \in [Sandboxes -> RowType]
    /\ logs \in [Sandboxes -> Nat]
    /\ CallsTyped
    /\ TimersTyped
    /\ vms \subseteq Sandboxes
    /\ abandoned \subseteq Sandboxes
    /\ metrics \in [created : Nat, destroyed : Nat, executions : Nat]
    /\ events \in [Sandboxes -> Seq(EventTypes)]
    /\ clock \in Nat
    /\ restarts \in Nat
-----------------------------------------------------------------------------
NoRow == [status |-> "none", userId |-> NoUser, createdAt |-> 0,
          lastUsedAt |-> 0, destroyedAt |-> 0]

ZeroMetrics == [created |-> 0, destroyed |-> 0, executions |-> 0]

Init ==
    /\ running = {}
    /\ info = [id \in Sandboxes |-> [userId |-> NoUser, lastUsedAt |-> 0]]
    /\ row = [id \in Sandboxes |-> NoRow]
    /\ logs = [id \in Sandboxes |-> 0]
    /\ calls = [c \in Calls |-> IdleCall]
    /\ timers = [t \in Timers |-> IdleTimer]
    /\ vms = {}
    /\ abandoned = {}
    /\ metrics = ZeroMetrics
    /\ events = [id \in Sandboxes |-> <<>>]
    /\ clock = 0
    /\ restarts = 0

\* The activations of an operation, and the ids being created.
Doing(op) == {c \in Calls : calls[c].op = op}
BeingCreated == {calls[c].id : c \in Doing("create")}

\* uuidv4() returns an id nothing in the system knows.
Fresh(id) ==
    /\ row[id].status = "none"
    /\ id \notin BeingCreated \cup vms

\* Mutant: the comparison admits one sandbox too many.
UnderLimitOffByOne == MaxSandboxes > 0 => Cardinality(running) <= MaxSandboxes

\* The limit is compared with the Map only: creates in flight do not count.
UnderLimit == MaxSandboxes > 0 => Cardinality(running) < MaxSandboxes

\* Mutant: the lookup is missing.
MayUseUnknown(id, user) ==
    NoUser \in {user, info[id].userId} \/ user = info[id].userId

\* assertOwner: the sandbox is in the Map, and the caller is its owner
\* unless one of the two has no user.
MayUse(id, user) ==
    /\ id \in running
    /\ NoUser \in {user, info[id].userId} \/ user = info[id].userId

\* Call c runs up to its await.
Await(c, op, id, user) ==
    calls' = [calls EXCEPT ![c] =
        [op |-> op, stage |-> "pending", id |-> id, user |-> user,
         now |-> clock]]

\* The promise call c awaits settles.
Settle(c, stage) == calls' = [calls EXCEPT ![c].stage = stage]

At(c, op, stage) == calls[c].op = op /\ calls[c].stage = stage

\* Mutant: the activation stays busy although it has let go of its sandbox.
ReturnHalfway(c) == calls' = [calls EXCEPT ![c].id = NoSandbox]

Return(c) == calls' = [calls EXCEPT ![c] = IdleCall]

Broadcast(id, type) == events' = [events EXCEPT ![id] = Append(@, type)]

Count(counter) == metrics' = [metrics EXCEPT ![counter] = @ + 1]

\* Mutant: the entry is left in the Map.
ForgetNothing(id) == running' = running

\* running.delete
Forget(id) == running' = running \ {id}

\* Mutant: the use is recorded in memory only.
TouchMemoryOnly(id) ==
    /\ info' = [info EXCEPT ![id].lastUsedAt = clock]
    /\ UNCHANGED row

\* The use of a sandbox is recorded in memory and in the store.
Touch(id) ==
    /\ info' = [info EXCEPT ![id].lastUsedAt = clock]
    /\ row' = [row EXCEPT ![id].lastUsedAt = clock]

\* Mutant: the record is deleted instead of closed.
DeleteRecord(id, now) == row' = [row EXCEPT ![id] = NoRow]

\* The store's UPDATE that closes a record.
MarkDestroyed(id, now) ==
    row' = [row EXCEPT ![id].status = "destroyed", ![id].destroyedAt = now]
-----------------------------------------------------------------------------
(* create *)

CreateBegins(c, id, user) ==
    /\ calls[c].op = "idle"
    /\ UnderLimit
    /\ Fresh(id)
    /\ Await(c, "create", id, user)
    /\ UNCHANGED <<running, info, store, timers, vms, abandoned, metrics,
                   events, clock, restarts>>

\* The backend has booted the VM, or has failed: before it left anything
\* behind or after.
BackendCreates(c) ==
    /\ At(c, "create", "pending")
    /\ \/ Settle(c, "done") /\ vms' = vms \cup {calls[c].id}
       \/ BackendMayFail /\ Settle(c, "failed")
          /\ vms' \in {vms, vms \cup {calls[c].id}}
    /\ UNCHANGED <<running, info, store, timers, abandoned, metrics, events,
                   clock, restarts>>

\* The sandbox becomes known only now; its times are those of the request.
CreateReturns(c) ==
    LET id == calls[c].id
        user == calls[c].user
        now == calls[c].now
    IN  /\ At(c, "create", "done")
        /\ Return(c)
        /\ Count("created")
        /\ running' = running \cup {id}
        /\ info' = [info EXCEPT ![id] = [userId |-> user, lastUsedAt |-> now]]
        /\ row' = [row EXCEPT ![id] =
               [status |-> "running", userId |-> user, createdAt |-> now,
                lastUsedAt |-> now, destroyedAt |-> 0]]
        /\ Broadcast(id, "created")
        /\ UNCHANGED <<logs, timers, vms, abandoned, clock, restarts>>

\* The rejection reaches the caller: nothing is recorded, and nothing
\* remembers what the backend may have left behind.
CreateFails(c) ==
    /\ At(c, "create", "failed")
    /\ Return(c)
    /\ abandoned' = abandoned \cup (vms \cap {calls[c].id})
    /\ UNCHANGED <<running, info, store, timers, vms, metrics, events, clock,
                   restarts>>
-----------------------------------------------------------------------------
(* execute *)

\* The use is recorded before the backend runs the code.
ExecuteBegins(c, id, user) ==
    /\ calls[c].op = "idle"
    /\ MayUse(id, user)
    /\ logs[id] + Cardinality({d \in Doing("execute") : calls[d].id = id})
         < MaxLogs
    /\ Await(c, "execute", id, user)
    /\ Touch(id)
    /\ UNCHANGED <<running, logs, timers, vms, abandoned, metrics, events,
                   clock, restarts>>

\* Without its VM the execution may fail even on a healthy backend.
BackendExecutes(c) ==
    /\ At(c, "execute", "pending")
    /\ \/ Settle(c, "done")
       \/ (BackendMayFail \/ calls[c].id \notin vms) /\ Settle(c, "failed")
    /\ UNCHANGED <<running, info, store, timers, vms, abandoned, metrics,
                   events, clock, restarts>>

\* Mutant: the continuation puts the sandbox back into the Map.
ExecuteRevives(c) ==
    /\ At(c, "execute", "done")
    /\ Return(c)
    /\ Count("executions")
    /\ logs' = [logs EXCEPT ![calls[c].id] = @ + 1]
    /\ Broadcast(calls[c].id, "completed")
    /\ running' = running \cup {calls[c].id}
    /\ UNCHANGED <<info, row, timers, vms, abandoned, clock, restarts>>

\* The result is counted, logged and announced whatever has become of the
\* sandbox since.
ExecuteReturns(c) ==
    /\ At(c, "execute", "done")
    /\ Return(c)
    /\ Count("executions")
    /\ logs' = [logs EXCEPT ![calls[c].id] = @ + 1]
    /\ Broadcast(calls[c].id, "completed")
    /\ UNCHANGED <<running, info, row, timers, vms, abandoned, clock, restarts>>

ExecuteFails(c) ==
    /\ At(c, "execute", "failed")
    /\ Return(c)
    /\ UNCHANGED <<running, info, store, timers, vms, abandoned, metrics,
                   events, clock, restarts>>
-----------------------------------------------------------------------------
(* destroy *)

\* Only the ownership is checked: another destroy may be under way.
DestroyBegins(c, id, user) ==
    /\ calls[c].op = "idle"
    /\ MayUse(id, user)
    /\ Await(c, "destroy", id, user)
    /\ UNCHANGED <<running, info, store, timers, vms, abandoned, metrics,
                   events, clock, restarts>>

BackendDestroys(c) ==
    /\ At(c, "destroy", "pending")
    /\ \/ Settle(c, "done") /\ vms' = vms \ {calls[c].id}
       \/ (BackendMayFail \/ calls[c].id \notin vms) /\ Settle(c, "failed")
          /\ vms' \in {vms, vms \ {calls[c].id}}
    /\ UNCHANGED <<running, info, store, timers, abandoned, metrics, events,
                   clock, restarts>>

DestroyReturns(c) ==
    LET id == calls[c].id
    IN  /\ At(c, "destroy", "done")
        /\ Return(c)
        /\ Count("destroyed")
        /\ Forget(id)
        /\ MarkDestroyed(id, clock)
        /\ Broadcast(id, "destroyed")
        /\ UNCHANGED <<info, logs, timers, vms, abandoned, clock, restarts>>

\* Mutant: the sandbox is forgotten although it was not destroyed.
DestroyForgets(c) ==
    /\ At(c, "destroy", "failed")
    /\ Return(c)
    /\ Forget(calls[c].id)
    /\ MarkDestroyed(calls[c].id, clock)
    /\ UNCHANGED <<info, logs, timers, vms, abandoned, metrics, events, clock,
                   restarts>>

\* The error reaches the caller and the sandbox stays: it may try again.
DestroyFails(c) ==
    /\ At(c, "destroy", "failed")
    /\ Return(c)
    /\ UNCHANGED <<running, info, store, timers, vms, abandoned, metrics,
                   events, clock, restarts>>
-----------------------------------------------------------------------------
(* evictExpired, called by setInterval *)

\* Mutants: the age is not compared, or from the wrong time.
ExpiredAlways(id, now) == TRUE

ExpiredSinceCreated(id, now) == now > row[id].createdAt + Ttl

\* Idle for longer than ttlMs at time now.
Expired(id, now) == now > info[id].lastUsedAt + Ttl

Evicting(id, now) ==
    [op |-> "evict", stage |-> "pending", id |-> id, now |-> now]

\* The loop over the live Map stops at an expired sandbox.  Which one the
\* insertion order picks first is left open: now is fixed and lastUsedAt
\* never decreases, so a sandbox the loop has passed never expires later.
EvictBegins(t, id) ==
    /\ timers[t].op = "idle"
    /\ id \in running
    /\ Expired(id, clock)
    /\ timers' = [timers EXCEPT ![t] = Evicting(id, clock)]
    /\ UNCHANGED <<running, info, store, calls, vms, abandoned, metrics, events,
                   clock, restarts>>

BackendEvicts(t) ==
    /\ timers[t].op = "evict"
    /\ timers[t].stage = "pending"
    /\ \/ /\ timers' = [timers EXCEPT ![t].stage = "done"]
          /\ vms' = vms \ {timers[t].id}
       \/ /\ BackendMayFail \/ timers[t].id \notin vms
          /\ timers' = [timers EXCEPT ![t].stage = "failed"]
          /\ vms' \in {vms, vms \ {timers[t].id}}
    /\ UNCHANGED <<running, info, store, calls, abandoned, metrics, events,
                   clock, restarts>>

\* Mutants: the scan does not wait for the backend; a rejection ends the scan.
NotAwaited(t) == TRUE

AnsweredWell(t) == timers[t].stage = "done"

\* The backend has answered, and .catch has made a rejection an answer too.
Answered(t) == timers[t].stage \in {"done", "failed"}

\* A rejection is swallowed, so the sandbox is forgotten in any case; the
\* lateness of the step does not matter, the record is closed with the time
\* the scan began, nothing is counted or announced, and the loop goes on.
EvictReturns(t) ==
    LET id == timers[t].id
        now == timers[t].now
        left == {i \in running \ {id} : Expired(i, now)}
    IN  /\ timers[t].op = "evict"
        /\ Answered(t)
        /\ Forget(id)
        /\ MarkDestroyed(id, now)
        /\ abandoned' = abandoned \cup (vms \cap {id})
        /\ \/ left = {} /\ timers' = [timers EXCEPT ![t] = IdleTimer]
           \/ \E i \in left : timers' = [timers EXCEPT ![t] = Evicting(i, now)]
        /\ UNCHANGED <<info, logs, calls, vms, metrics, events, clock,
                       restarts>>
-----------------------------------------------------------------------------
(* The environment *)

Tick ==
    /\ clock < MaxTime
    /\ clock' = clock + 1
    /\ UNCHANGED <<memory, store, vms, abandoned, events, restarts>>

\* The process dies and comes back: the database survives, the Map and the
\* requests in flight do not, and nothing reads the open records back.  What
\* the backend was doing for those requests it may still finish.
Restart ==
    /\ restarts < MaxRestarts
    /\ restarts' = restarts + 1
    /\ running' = {}
    /\ calls' = [c \in Calls |-> IdleCall]
    /\ timers' = [t \in Timers |-> IdleTimer]
    /\ metrics' = ZeroMetrics
    /\ \E born \in SUBSET BeingCreated, dead \in SUBSET running :
          vms' = (vms \cup born) \ dead
    /\ abandoned' = abandoned \cup vms'
    /\ UNCHANGED <<info, store, events, clock>>

Requests == \E c \in Calls, id \in Sandboxes, user \in Owners :
    \/ CreateBegins(c, id, user)
    \/ ExecuteBegins(c, id, user)
    \/ DestroyBegins(c, id, user)

BackendStep(c) == BackendCreates(c) \/ BackendExecutes(c) \/ BackendDestroys(c)

ReturnStep(c) ==
    \/ CreateReturns(c) \/ CreateFails(c)
    \/ ExecuteReturns(c) \/ ExecuteFails(c)
    \/ DestroyReturns(c) \/ DestroyFails(c)

Eviction == \E t \in Timers :
    \/ \E id \in Sandboxes : EvictBegins(t, id)
    \/ BackendEvicts(t)
    \/ EvictReturns(t)

Next ==
    \/ Requests
    \/ \E c \in Calls : BackendStep(c) \/ ReturnStep(c)
    \/ Eviction
    \/ Tick
    \/ Restart

Spec == Init /\ [][Next]_vars

\* setInterval keeps calling evictExpired, every backend operation ends (each
\* has a timeout of its own) and the event loop runs what is ready.  Nobody
\* promises that requests arrive or that the process restarts.
Fairness ==
    /\ \A c \in Calls : WF_vars(BackendStep(c)) /\ WF_vars(ReturnStep(c))
    /\ \A t \in Timers :
          /\ WF_vars(\E id \in Sandboxes : EvictBegins(t, id))
          /\ WF_vars(BackendEvicts(t))
          /\ WF_vars(EvictReturns(t))

FairSpec == Spec /\ Fairness
-----------------------------------------------------------------------------
(* Invariants *)

\* The Map and the table tell the same story: a sandbox that can be used has
\* an open record with the same owner and the same last use, and, as long as
\* the process has not restarted, an open record is a sandbox that can be
\* used.  (manager.ts updates the two in separate statements, on either side
\* of three different awaits.)
StoreMirrorsMemory ==
    /\ \A id \in running :
          /\ row[id].status = "running"
          /\ row[id].userId = info[id].userId
          /\ row[id].lastUsedAt = info[id].lastUsedAt
    /\ restarts = 0 => \A id \in Sandboxes :
          row[id].status = "running" => id \in running

\* Every VM the backend holds can still be destroyed by somebody: it is in the
\* Map, or its create is in flight, or the process has forgotten it.
LiveVmIsKnown == vms \subseteq running \cup BeingCreated \cup abandoned

\* No order of creates, executions, destroys and evictions makes the process
\* forget a live VM: that takes a backend failure or a restart.  A failed
\* DELETE alone does not do it, since the sandbox stays in the Map.
ForgottenOnlyByFault ==
    abandoned # {} => BackendMayFail \/ restarts > 0

\* An eviction closes the record with the time its scan began, which may be
\* long past; still a record is never closed before it was opened, nor in the
\* future.
OrderedTimes(r) ==
    /\ r.status # "none" => r.createdAt <= r.lastUsedAt
    /\ r.lastUsedAt <= clock
    /\ r.status = "destroyed" =>
          r.createdAt <= r.destroyedAt /\ r.destroyedAt <= clock

ClosedAfterOpened == \A id \in Sandboxes : OrderedTimes(row[id])

\* What a subscriber of /events has seen of a sandbox agrees with the store
\* and the Map: it begins with the one "created" as soon as there is a record,
\* and a sandbox announced as destroyed cannot be used any more.
EventsOfSandboxAgree(id) ==
    /\ (events[id] = <<>>) <=> (row[id].status = "none")
    /\ \A i \in DOMAIN events[id] : (events[id][i] = "created") <=> (i = 1)
    /\ (\E i \in DOMAIN events[id] : events[id][i] = "destroyed") =>
          id \notin running

EventsAgree == \A id \in Sandboxes : EventsOfSandboxAgree(id)

\* The limit is checked before the await, so concurrent creates may exceed
\* it; the excess is at most the other creates that were in flight.  With one
\* handler activation the limit is exact.
OvershootIsBounded == MaxSandboxes > 0 =>
    Cardinality(running) + Cardinality(Doing("create"))
        <= MaxSandboxes - 1 + Cardinality(Calls)

\* Across its await a call keeps what it found before: a create the only claim
\* to an id without a record, the others a sandbox that has one and, to end
\* it, the owner's authority.  A destroy the backend has carried out has left
\* no VM.
MayEnd(user, id) == NoUser \in {user, row[id].userId} \/ user = row[id].userId

CreateSound(c) == calls[c].op = "create" =>
    /\ row[calls[c].id].status = "none"
    /\ calls[c].now <= clock
    /\ calls[c].stage = "failed" => BackendMayFail

UseSound(c) == calls[c].op \in {"execute", "destroy"} =>
    row[calls[c].id].status # "none"

DestroySound(c) == calls[c].op = "destroy" =>
    /\ MayEnd(calls[c].user, calls[c].id)
    /\ calls[c].stage = "done" => calls[c].id \notin vms

CallsSound == \A c \in Calls : CreateSound(c) /\ UseSound(c) /\ DestroySound(c)

CreatesDistinct == \A c, d \in Doing("create") :
    calls[c].id = calls[d].id => c = d

\* A scan that began at time now found id past its TTL: since then it may have
\* been used, but not between the TTL before the scan and the scan.
WasExpired(id, now) ==
    /\ now > row[id].createdAt + Ttl
    /\ now > row[id].lastUsedAt + Ttl \/ row[id].lastUsedAt >= now

\* An eviction concerns a sandbox that had a record and was past its TTL when
\* the scan began; once a healthy backend has answered there is no VM left.
TimerSound(t) == timers[t].op = "evict" =>
    /\ row[timers[t].id].status # "none"
    /\ timers[t].now <= clock
    /\ WasExpired(timers[t].id, timers[t].now)
    /\ timers[t].stage # "pending" => BackendMayFail \/ timers[t].id \notin vms

TimersSound == \A t \in Timers : TimerSound(t)

InFlightSound == CallsSound /\ CreatesDistinct /\ TimersSound

-----------------------------------------------------------------------------
(* What a step may never do *)

\* A sandbox enters the Map when its record is opened and never again: no
\* late continuation of a create or an execute brings a destroyed sandbox
\* back.
NoResurrection ==
    [][\A id \in running' \ running : row[id].status = "none"]_vars

\* A record is closed only by a destroy of the owner (or of a caller, or for
\* a sandbox, without a user) or by an eviction whose scan found it unused for
\* longer than the TTL.  A use while that eviction awaits the backend does not
\* save it, which is the only way for a sandbox in use to be evicted, whatever
\* scans with older times of their own overlap.
EndedByOwnerOrTtl == [][\A id \in Sandboxes :
    row[id].status = "running" /\ row'[id].status = "destroyed" =>
        \/ \E c \in Calls :
              /\ At(c, "destroy", "done") /\ calls[c].id = id
              /\ MayEnd(calls[c].user, id)
        \/ \E t \in Timers :
              /\ timers[t].op = "evict" /\ timers[t].id = id
              /\ WasExpired(id, timers[t].now)]_vars

\* Seen through the status column, the manager is the abstract life cycle:
\* every interleaving of two destroys, an eviction and a destroy, or a late
\* create maps to one step of SandboxLifecycle or to none.
Lifecycle == INSTANCE SandboxLifecycle
    WITH phase <- [id \in Sandboxes |-> row[id].status]

ImplementsLifecycle == Lifecycle!Spec
-----------------------------------------------------------------------------
(* Liveness *)

\* A sandbox left idle for longer than the TTL ends, or is used again: the
\* timer gets to it even when the backend fails to destroy it.
IdleSandboxEnds == \A id \in Sandboxes :
    row[id].status = "running" /\ clock > row[id].lastUsedAt + Ttl
        ~> row[id].status = "destroyed" \/ clock <= row[id].lastUsedAt + Ttl
===============================================================================
