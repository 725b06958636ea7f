---------------------------- MODULE WorkerCluster ----------------------------
(***************************************************************************)
(* The control plane and its fleet of workers: the registry and the        *)
(* routing of src/control-plane/worker-cluster.ts, the control plane's     *)
(* manager that drives it, the daemon of src/worker/ that registers,       *)
(* heartbeats and serves, and the HTTP between them.                       *)
(*                                                                         *)
(* A call of the control plane is three steps: Begins (up to the await of  *)
(* fetch), the worker's handling of the request, and Returns or Fails.     *)
(* What the handling does inside the worker is module SandboxManager; here *)
(* it is one step.  Time is not counted: that a worker has been silent for *)
(* too long, or a sandbox idle for too long, is an event.                  *)
(*                                                                         *)
(* Everything that can go wrong outside the two programs costs one of      *)
(* MaxFaults: a request or its reply lost, a heartbeat lost or late, a     *)
(* worker or the control plane restarted.                                  *)
(***************************************************************************)
EXTENDS Integers, FiniteSets

CONSTANTS
    Sandboxes,         \* sandbox ids; uuids, so an id is never given twice
    Workers,           \* worker ids; fixed in the unit file of each machine
    NoWorker,          \* the owner of a sandbox that is not mapped
    Calls,             \* calls of the control plane that may be in flight
    MaxPerWorker,      \* the limit each worker has and advertises
    ReconcileMayFail,  \* whether GET /sandboxes may fail
    MaxSignals,        \* bound: heartbeats of a worker on their way
    MaxFaults          \* bound: faults of the environment

ASSUME BoundsAssumption ==
    /\ MaxPerWorker \in Nat
    /\ MaxSignals \in Nat
    /\ MaxFaults \in Nat
    /\ ReconcileMayFail \in BOOLEAN

ASSUME FiniteAssumption == IsFiniteSet(Sandboxes)

ASSUME NoWorkerAssumption == NoWorker \notin Workers

VARIABLES
    \* The control plane
    known,       \* ids in the Map `running` of its manager
    issued,      \* history: ids it has ever given out
    registered,  \* keys of the Map `workers`
    entry,       \* entry[w] : the WorkerInfo object of w
    owner,       \* the Map `sandboxToWorker`
    calls,       \* calls[c] : the call in flight
    reconciles,  \* the reconcileWorker activations in flight
    \* The workers
    hosted,      \* hosted[w] : the ids in the Map `running` of w's manager
    recent,      \* ids used on their worker within the TTL
    phase,       \* phase[w] : still registering, or heartbeating
    \* The network
    signals,     \* register and heartbeat requests on their way
    strays,      \* requests on their way whose caller has given up
    faults       \* faults so far

controlPlane == <<known, issued, registered, entry, owner, calls, reconciles>>
fleet        == <<hosted, recent, phase>>
network      == <<signals, strays, faults>>
vars         == <<controlPlane, fleet, network>>

EntryType == [active : Nat, stale : BOOLEAN]

\* A call: what it wants of which worker, what is known of its outcome, and
\* whether the WorkerInfo object it holds is still the one in the registry.
CallType ==
    [op : {"create", "execute", "destroy", "evict"}, id : Sandboxes,
     w : Workers, stage : {"sent", "ok", "gone", "error"}, current : BOOLEAN]

Idle == [op |-> "idle"]

ReconcileType ==
    [w : Workers, stage : {"asked", "listed"}, list : SUBSET Sandboxes]

SignalType == [type : {"register", "beat"}, w : Workers, active : Nat]

StrayType == [op : {"create", "destroy"}, id : Sandboxes, w : Workers]

TypeOK ==
    /\ known \subseteq Sandboxes
    /\ issued \subseteq Sandboxes
    /\ registered \subseteq Workers
    /\ entry \in [Workers -> EntryType]
    /\ owner \in [Sandboxes -> Workers \cup {NoWorker}]
    /\ calls \in [Calls -> CallType \cup {Idle}]
    /\ reconciles \subseteq ReconcileType
    /\ hosted \in [Workers -> SUBSET Sandboxes]
    /\ recent \subseteq Sandboxes
    /\ phase \in [Workers -> {"registering", "beating"}]
    /\ signals \subseteq SignalType
    /\ strays \subseteq StrayType
    /\ faults \in Nat
-----------------------------------------------------------------------------
NoEntry == [active |-> 0, stale |-> FALSE]

Init ==
    /\ known = {}
    /\ issued = {}
    /\ registered = {}
    /\ entry = [w \in Workers |-> NoEntry]
    /\ owner = [id \in Sandboxes |-> NoWorker]
    /\ calls = [c \in Calls |-> Idle]
    /\ reconciles = {}
    /\ hosted = [w \in Workers |-> {}]
    /\ recent = {}
    /\ phase = [w \in Workers |-> "registering"]
    /\ signals = {}
    /\ strays = {}
    /\ faults = 0

Active(op) == {c \in Calls : calls[c].op = op}

Fault == faults < MaxFaults /\ faults' = faults + 1

\* workerFor finds the worker of a sandbox.
Routed(id) == owner[id] \in registered

\* A worker of the most free capacity, which must be positive.  Which of
\* several the insertion order prefers is left open.
Free(w) == MaxPerWorker - entry[w].active

Picked(w) ==
    /\ w \in registered
    /\ Free(w) > 0
    /\ \A v \in registered : Free(v) <= Free(w)

Send(c, op, id, w) ==
    calls' = [calls EXCEPT ![c] =
        [op |-> op, id |-> id, w |-> w, stage |-> "sent", current |-> TRUE]]

Settle(c, stage) == calls' = [calls EXCEPT ![c].stage = stage]

Return(c) == calls' = [calls EXCEPT ![c] = Idle]

\* The WorkerInfo objects of the workers ws are replaced or dropped: a call
\* that holds one will write to an object nobody reads.
Orphaned(ws) ==
    [c \in Calls |->
        IF calls[c] # Idle /\ calls[c].w \in ws
        THEN [calls[c] EXCEPT !.current = FALSE] ELSE calls[c]]

\* The count is set in the object the call holds, if that is still read.
Recount(c, n) ==
    entry' = [entry EXCEPT ![calls[c].w].active =
                 IF calls[c].current THEN n ELSE @]

\* The request of call c has reached its worker.
Requested(c, op) == calls[c].op = op /\ calls[c].stage = "sent"

\* Call c, of one of the operations ops, is settled in one of the ways.
Settled(c, ops, stages) ==
    /\ calls[c].op \in ops
    /\ calls[c].stage \in stages
-----------------------------------------------------------------------------
(* The control plane: create, execute, destroy and the TTL timer *)

CreateBegins(c, id) ==
    /\ calls[c] = Idle
    /\ id \notin issued
    /\ issued' = issued \cup {id}
    /\ \E w \in Workers : Picked(w) /\ Send(c, "create", id, w)
    /\ UNCHANGED <<known, registered, entry, owner, reconciles, fleet,
                   network>>

\* The route is set, even if the worker has left the registry in between.
CreateReturns(c) ==
    /\ Settled(c, {"create"}, {"ok"})
    /\ Return(c)
    /\ owner' = [owner EXCEPT ![calls[c].id] = calls[c].w]
    /\ Recount(c, entry[calls[c].w].active + 1)
    /\ known' = known \cup {calls[c].id}
    /\ UNCHANGED <<issued, registered, reconciles, fleet, network>>

\* Nothing is recorded, whatever the worker has done.
CreateFails(c) ==
    /\ Settled(c, {"create"}, {"error"})
    /\ Return(c)
    /\ UNCHANGED <<known, issued, registered, entry, owner, reconciles, fleet,
                   network>>

\* An execute or a destroy of a sandbox that is not known or not routed is
\* refused at once and changes nothing.
UseBegins(c, op, id) ==
    /\ calls[c] = Idle
    /\ id \in known
    /\ Routed(id)
    /\ Send(c, op, id, owner[id])
    /\ UNCHANGED <<known, issued, registered, entry, owner, reconciles, fleet,
                   network>>

ExecuteReturns(c) ==
    /\ Settled(c, {"execute"}, {"ok", "gone", "error"})
    /\ Return(c)
    /\ UNCHANGED <<known, issued, registered, entry, owner, reconciles, fleet,
                   network>>

\* The route is dropped and the worker has one sandbox less.
Unroute(c) ==
    /\ owner' = [owner EXCEPT ![calls[c].id] = NoWorker]
    /\ Recount(c, IF entry[calls[c].w].active = 0 THEN 0
                  ELSE entry[calls[c].w].active - 1)

\* Mutant: the status of the reply is not looked at.
DestroyAlwaysReturns(c) ==
    /\ Settled(c, {"destroy", "evict"}, {"ok", "gone", "error"})
    /\ Return(c)
    /\ Unroute(c)
    /\ known' = known \ {calls[c].id}
    /\ UNCHANGED <<issued, registered, reconciles, fleet, network>>

\* A sandbox the worker does not have counts as destroyed.
DestroyReturns(c) ==
    /\ Settled(c, {"destroy", "evict"}, {"ok", "gone"})
    /\ Return(c)
    /\ Unroute(c)
    /\ known' = known \ {calls[c].id}
    /\ UNCHANGED <<issued, registered, reconciles, fleet, network>>

\* The owner of the sandbox may try again; the TTL timer forgets it.
DestroyFails(c) ==
    /\ Settled(c, {"destroy", "evict"}, {"error"})
    /\ Return(c)
    /\ known' = IF calls[c].op = "evict" THEN known \ {calls[c].id} ELSE known
    /\ UNCHANGED <<issued, registered, entry, owner, reconciles, fleet,
                   network>>

\* The TTL timer on a sandbox without a route: the rejection is swallowed.
EvictUnrouted(id) ==
    /\ id \in known
    /\ ~Routed(id)
    /\ known' = known \ {id}
    /\ UNCHANGED <<issued, registered, entry, owner, calls, reconciles, fleet,
                   network>>
-----------------------------------------------------------------------------
(* The worker: requests *)

\* At its limit a worker refuses (429); a limit of 0 is no limit.
Full(w) == MaxPerWorker > 0 /\ Cardinality(hosted[w]) >= MaxPerWorker

WorkerCreates(c) ==
    LET id == calls[c].id
        w == calls[c].w
    IN  /\ Requested(c, "create")
        /\ \/ /\ Full(w)
              /\ Settle(c, "error")
              /\ UNCHANGED <<hosted, recent>>
           \/ /\ ~Full(w)
              /\ Settle(c, "ok")
              /\ hosted' = [hosted EXCEPT ![w] = @ \cup {id}]
              /\ recent' = recent \cup {id}
        /\ UNCHANGED <<known, issued, registered, entry, owner, reconciles,
                       phase, network>>

WorkerExecutes(c) ==
    LET id == calls[c].id
    IN  /\ Requested(c, "execute")
        /\ \/ /\ id \in hosted[calls[c].w]
              /\ Settle(c, "ok")
              /\ recent' = recent \cup {id}
           \/ /\ id \notin hosted[calls[c].w]
              /\ Settle(c, "gone")
              /\ UNCHANGED recent
        /\ UNCHANGED <<known, issued, registered, entry, owner, reconciles,
                       hosted, phase, network>>

\* Mutant: the worker answers before it has destroyed.
WorkerAnswersEarly(c) ==
    /\ Requested(c, "destroy") \/ Requested(c, "evict")
    /\ Settle(c, IF calls[c].id \in hosted[calls[c].w] THEN "ok" ELSE "gone")
    /\ UNCHANGED <<known, issued, registered, entry, owner, reconciles, fleet,
                   network>>

WorkerDestroys(c) ==
    LET id == calls[c].id
        w == calls[c].w
    IN  /\ Requested(c, "destroy") \/ Requested(c, "evict")
        /\ Settle(c, IF id \in hosted[w] THEN "ok" ELSE "gone")
        /\ hosted' = [hosted EXCEPT ![w] = @ \ {id}]
        /\ UNCHANGED <<known, issued, registered, entry, owner, reconciles,
                       recent, phase, network>>

\* A request is carried out after its caller has given up on it.
StrayArrives(r) ==
    /\ r \in strays
    /\ strays' = strays \ {r}
    /\ \/ /\ r.op = "create" /\ ~Full(r.w)
          /\ hosted' = [hosted EXCEPT ![r.w] = @ \cup {r.id}]
          /\ recent' = recent \cup {r.id}
       \/ /\ r.op = "create" /\ Full(r.w)
          /\ UNCHANGED <<hosted, recent>>
       \/ /\ r.op = "destroy"
          /\ hosted' = [hosted EXCEPT ![r.w] = @ \ {r.id}]
          /\ UNCHANGED recent
    /\ UNCHANGED <<controlPlane, phase, signals, faults>>

\* The TTL of a sandbox passes; the worker's own timer ends it.
Ages(id) ==
    /\ id \in recent
    /\ recent' = recent \ {id}
    /\ UNCHANGED <<controlPlane, hosted, phase, network>>

WorkerEvicts(w, id) ==
    /\ id \in hosted[w] \ recent
    /\ hosted' = [hosted EXCEPT ![w] = @ \ {id}]
    /\ UNCHANGED <<controlPlane, recent, phase, network>>
-----------------------------------------------------------------------------
(* The worker: registration and heartbeat; the registry *)

Signal(type, w) ==
    [type |-> type, w |-> w, active |-> Cardinality(hosted[w])]

SignalsOf(w) == {m \in signals : m.w = w}

\* Register on boot, again and again until the control plane has answered.
WorkerRegisters(w) ==
    /\ phase[w] = "registering"
    /\ SignalsOf(w) = {}
    /\ signals' = signals \cup {Signal("register", w)}
    /\ UNCHANGED <<controlPlane, fleet, strays, faults>>

\* Mutant: what a worker reports counts as used.
BeatKeepsAlive(w) ==
    /\ phase[w] = "beating"
    /\ Cardinality(SignalsOf(w)) < MaxSignals
    /\ signals' = signals \cup {Signal("beat", w)}
    /\ recent' = recent \cup hosted[w]
    /\ UNCHANGED <<controlPlane, hosted, phase, strays, faults>>

WorkerBeats(w) ==
    /\ phase[w] = "beating"
    /\ Cardinality(SignalsOf(w)) < MaxSignals
    /\ signals' = signals \cup {Signal("beat", w)}
    /\ UNCHANGED <<controlPlane, fleet, strays, faults>>

\* A new WorkerInfo object, and a reconciliation in the background.  The
\* reply may be lost, and a worker that is booting then registers again.
RegisterArrives(m) ==
    /\ m \in signals /\ m.type = "register"
    /\ signals' = signals \ {m}
    /\ registered' = registered \cup {m.w}
    /\ entry' = [entry EXCEPT ![m.w] = [active |-> m.active, stale |-> FALSE]]
    /\ calls' = Orphaned({m.w})
    /\ reconciles' = reconciles \cup
           {[w |-> m.w, stage |-> "asked", list |-> {}]}
    /\ \/ phase' = [phase EXCEPT ![m.w] = "beating"] /\ UNCHANGED faults
       \/ Fault /\ UNCHANGED phase
    /\ UNCHANGED <<known, issued, owner, hosted, recent, strays>>

\* Mutant: the time of the heartbeat is noted, its count is not.
BeatKeepsCount(m) ==
    /\ m \in signals /\ m.type = "beat" /\ m.w \in registered
    /\ entry' = [entry EXCEPT ![m.w].stale = FALSE]
    /\ signals' = signals \ {m}
    /\ UNCHANGED <<known, issued, registered, owner, calls, reconciles, fleet,
                   strays, faults>>

BeatArrives(m) ==
    /\ m \in signals /\ m.type = "beat" /\ m.w \in registered
    /\ entry' = [entry EXCEPT ![m.w] = [active |-> m.active, stale |-> FALSE]]
    /\ signals' = signals \ {m}
    /\ UNCHANGED <<known, issued, registered, owner, calls, reconciles, fleet,
                   strays, faults>>

\* Mutant: the refusal is only logged.
BeatIgnored(m) ==
    /\ m \in signals /\ m.type = "beat" /\ m.w \notin registered
    /\ signals' = signals \ {m}
    /\ UNCHANGED <<controlPlane, fleet, strays, faults>>

\* 410: the control plane does not know the worker, which registers once.
BeatRefused(m) ==
    /\ m \in signals /\ m.type = "beat" /\ m.w \notin registered
    /\ signals' = (signals \ {m}) \cup {Signal("register", m.w)}
    /\ UNCHANGED <<controlPlane, fleet, strays, faults>>

\* evictStale drops the silent workers and every route to them.  The
\* manager's Map and the table are not touched.
EvictStale ==
    LET dead == {w \in registered : entry[w].stale}
    IN  /\ dead # {}
        /\ registered' = registered \ dead
        /\ owner' = [id \in Sandboxes |->
               IF owner[id] \in dead THEN NoWorker ELSE owner[id]]
        /\ entry' = [w \in Workers |-> IF w \in dead THEN NoEntry ELSE entry[w]]
        /\ calls' = Orphaned(dead)
        /\ UNCHANGED <<known, issued, reconciles, fleet, network>>
-----------------------------------------------------------------------------
(* Reconciliation: GET /sandboxes of a worker that has registered *)

ReconcileListed(r) ==
    /\ r \in reconciles /\ r.stage = "asked"
    /\ reconciles' = (reconciles \ {r}) \cup
           {[r EXCEPT !.stage = "listed", !.list = hosted[r.w]]}
    /\ UNCHANGED <<known, issued, registered, entry, owner, calls, fleet,
                   network>>

\* Mutant: the listing replaces the routes to the worker.
ReconcileReplaces(r) ==
    /\ r \in reconciles /\ r.stage = "listed"
    /\ reconciles' = reconciles \ {r}
    /\ owner' = [id \in Sandboxes |->
           IF id \in r.list THEN r.w
           ELSE IF owner[id] = r.w THEN NoWorker ELSE owner[id]]
    /\ UNCHANGED <<known, issued, registered, entry, calls, fleet, network>>

\* The routes are set to what the worker has listed, which may be over.
ReconcileReturns(r) ==
    /\ r \in reconciles /\ r.stage = "listed"
    /\ reconciles' = reconciles \ {r}
    /\ owner' = [id \in Sandboxes |-> IF id \in r.list THEN r.w ELSE owner[id]]
    /\ UNCHANGED <<known, issued, registered, entry, calls, fleet, network>>

\* Best effort: nobody tries again.
ReconcileFails(r) ==
    /\ ReconcileMayFail
    /\ r \in reconciles
    /\ Fault
    /\ reconciles' = reconciles \ {r}
    /\ UNCHANGED <<known, issued, registered, entry, owner, calls, fleet,
                   signals, strays>>
-----------------------------------------------------------------------------
(* Faults of the environment *)

\* A request that may still be carried out, for the ones whose caller is not
\* waiting any more.
Stray(c) == [op |-> IF calls[c].op = "create" THEN "create" ELSE "destroy",
             id |-> calls[c].id, w |-> calls[c].w]

MayStray(c) == calls[c].op \in {"create", "destroy", "evict"}
                  /\ calls[c].stage = "sent"

\* Mutant: a create that got no answer is sent to another worker.
FetchRetries(c) ==
    /\ calls[c].op = "create" /\ calls[c].stage \in {"sent", "ok"}
    /\ Fault
    /\ \E w \in Workers \ {calls[c].w} :
          calls' = [calls EXCEPT ![c].w = w, ![c].stage = "sent"]
    /\ UNCHANGED <<known, issued, registered, entry, owner, reconciles, fleet,
                   signals, strays>>

\* Mutant: a create that got no answer is sent to its worker again.
FetchResends(c) ==
    /\ calls[c].op = "create" /\ calls[c].stage \in {"sent", "ok"}
    /\ Fault
    /\ Settle(c, "sent")
    /\ UNCHANGED <<known, issued, registered, entry, owner, reconciles, fleet,
                   signals, strays>>

\* fetch rejects: the request was lost, is still on its way, or was carried
\* out and its reply is lost.
FetchFails(c) ==
    /\ calls[c] # Idle /\ calls[c].stage # "error"
    /\ Fault
    /\ Settle(c, "error")
    /\ \/ UNCHANGED strays
       \/ MayStray(c) /\ strays' = strays \cup {Stray(c)}
    /\ UNCHANGED <<known, issued, registered, entry, owner, reconciles, fleet,
                   signals>>

SignalLost(m) ==
    /\ m \in signals
    /\ Fault
    /\ signals' = signals \ {m}
    /\ UNCHANGED <<controlPlane, fleet, strays>>

\* No heartbeat of w has arrived for longer than staleTimeoutMs.
GoesSilent(w) ==
    /\ w \in registered /\ ~entry[w].stale
    /\ Fault
    /\ entry' = [entry EXCEPT ![w].stale = TRUE]
    /\ UNCHANGED <<known, issued, registered, owner, calls, reconciles, fleet,
                   signals, strays>>

\* The worker's process dies with its sandboxes and comes back under the same
\* id; the connections to and from it break.
WorkerRestarts(w) ==
    /\ Fault
    /\ hosted' = [hosted EXCEPT ![w] = {}]
    /\ phase' = [phase EXCEPT ![w] = "registering"]
    /\ signals' = signals \ SignalsOf(w)
    /\ strays' = {r \in strays : r.w # w}
    /\ calls' = [c \in Calls |->
           IF calls[c] # Idle /\ calls[c].w = w /\ calls[c].stage = "sent"
           THEN [calls[c] EXCEPT !.stage = "error"] ELSE calls[c]]
    /\ reconciles' = {r \in reconciles : r.w # w \/ r.stage = "listed"}
    /\ UNCHANGED <<known, issued, registered, entry, owner, recent>>

\* The control plane's process dies and comes back with empty Maps; its
\* requests may still be carried out.
ControlPlaneRestarts ==
    /\ Fault
    /\ known' = {}
    /\ registered' = {}
    /\ entry' = [w \in Workers |-> NoEntry]
    /\ owner' = [id \in Sandboxes |-> NoWorker]
    /\ calls' = [c \in Calls |-> Idle]
    /\ reconciles' = {}
    /\ signals' = {}
    /\ \E cs \in SUBSET {c \in Calls : calls[c] # Idle /\ MayStray(c)} :
          strays' = strays \cup {Stray(c) : c \in cs}
    /\ UNCHANGED <<issued, fleet>>
-----------------------------------------------------------------------------
Requests == \E c \in Calls, id \in Sandboxes :
    \/ CreateBegins(c, id)
    \/ UseBegins(c, "execute", id)
    \/ UseBegins(c, "destroy", id)
    \/ UseBegins(c, "evict", id)

Serves(c) == WorkerCreates(c) \/ WorkerExecutes(c) \/ WorkerDestroys(c)

Returns(c) ==
    \/ CreateReturns(c) \/ CreateFails(c)
    \/ ExecuteReturns(c)
    \/ DestroyReturns(c) \/ DestroyFails(c)

Signals(w) == WorkerRegisters(w) \/ WorkerBeats(w)

Arrives(m) == RegisterArrives(m) \/ BeatArrives(m) \/ BeatRefused(m)

Reconciles(r) == ReconcileListed(r) \/ ReconcileReturns(r)

Faults ==
    \/ \E c \in Calls : FetchFails(c)
    \/ \E m \in signals : SignalLost(m)
    \/ \E r \in reconciles : ReconcileFails(r)
    \/ \E w \in Workers : GoesSilent(w) \/ WorkerRestarts(w)
    \/ ControlPlaneRestarts

Next ==
    \/ Requests
    \/ \E id \in Sandboxes : EvictUnrouted(id) \/ Ages(id)
    \/ \E c \in Calls : Serves(c) \/ Returns(c)
    \/ \E r \in strays : StrayArrives(r)
    \/ \E w \in Workers, id \in Sandboxes : WorkerEvicts(w, id)
    \/ \E w \in Workers : Signals(w)
    \/ \E m \in signals : Arrives(m)
    \/ EvictStale
    \/ \E r \in reconciles : Reconciles(r)
    \/ Faults

Spec == Init /\ [][Next]_vars

\* Every request on its way is served or fails, every reply and every message
\* arrives, a worker that runs registers or beats, and evictStale is called by
\* setInterval.  Nothing is said of when a sandbox ages, and no fault need
\* happen.
Fairness ==
    /\ \A c \in Calls : WF_vars(Serves(c)) /\ WF_vars(Returns(c))
    /\ WF_vars(\E r \in strays : StrayArrives(r))
    /\ WF_vars(EvictStale)
    /\ \A w \in Workers :
          /\ WF_vars(Signals(w))
          /\ WF_vars(\E m \in SignalsOf(w) : RegisterArrives(m))
          /\ WF_vars(\E m \in SignalsOf(w) : BeatArrives(m) \/ BeatRefused(m))
          /\ WF_vars(\E r \in reconciles : r.w = w /\ Reconciles(r))

FairSpec == Spec /\ Fairness

\* A worker's TTL timer runs.
TtlFairness == \A id \in Sandboxes :
    /\ WF_vars(Ages(id))
    /\ \A w \in Workers : WF_vars(WorkerEvicts(w, id))
-----------------------------------------------------------------------------
(* Invariants *)

\* Wherever worker w is named as the home of a sandbox: it runs there, or the
\* route leads there, or a call, a stray request or a listing says so.
InCall(w, id) ==
    \E c \in Calls : calls[c] # Idle /\ calls[c].id = id /\ calls[c].w = w

InStray(w, id) == \E r \in strays : r.id = id /\ r.w = w

InListing(w, id) == \E r \in reconciles : r.w = w /\ id \in r.list

Named(w, id) ==
    \/ id \in hosted[w]
    \/ owner[id] = w
    \/ InCall(w, id) \/ InStray(w, id) \/ InListing(w, id)

\* A sandbox has one home for ever: it never runs on two workers, no route
\* leads to a worker other than the one it runs on, and no late request or
\* outdated listing says otherwise, whichever of create, reconcileWorker and
\* evictStale wrote the route last.
OneHome == \A id \in Sandboxes, w \in Workers :
    Named(w, id) =>
        /\ id \in issued
        /\ \A v \in Workers : Named(v, id) => v = w

\* Across their await a create is the only one of its sandbox, and the others
\* concern one that nobody is still creating; a destroy the worker has
\* answered has left the sandbox nowhere.
BeingCreated(id) == \E c \in Active("create") : calls[c].id = id

NotComing(id) == ~BeingCreated(id) /\ \A r \in strays :
    r.op = "create" => r.id # id

CreateSound(c) == calls[c].op = "create" =>
    /\ calls[c].id \notin known
    /\ \A d \in Active("create") : calls[d].id = calls[c].id => d = c
    /\ calls[c].stage # "error" =>
          \A r \in strays : r.op = "create" => r.id # calls[c].id

UseSound(c) == calls[c].op \in {"execute", "destroy", "evict"} =>
    NotComing(calls[c].id)

DestroySound(c) == Settled(c, {"destroy", "evict"}, {"ok", "gone"}) =>
    \A w \in Workers : calls[c].id \notin hosted[w]

RequestsSound ==
    /\ \A id \in known : NotComing(id)
    /\ \A c \in Calls : CreateSound(c) /\ UseSound(c) /\ DestroySound(c)

\* As long as nothing outside has failed, control plane and workers agree: a
\* sandbox the control plane knows and that has not aged runs where its route
\* leads, unless it is being destroyed; and a sandbox that runs is known,
\* unless it is being created.
BeingDestroyed(id) ==
    \E c \in Active("destroy") \cup Active("evict") : calls[c].id = id

FleetAgrees == faults = 0 =>
    /\ \A id \in known \cap recent :
          BeingDestroyed(id) \/ (Routed(id) /\ id \in hosted[owner[id]])
    /\ \A w \in Workers : \A id \in hosted[w] : id \in known \/ BeingCreated(id)
-----------------------------------------------------------------------------
(* What a step may never do *)

\* The route to a sandbox that runs is not dropped, except with its worker: no
\* late reply to an earlier destroy and no outdated listing drops it.
RouteKeptWhileHosted == [][\A id \in Sandboxes, w \in Workers :
    owner[id] = w /\ id \in hosted[w] /\ w \in registered'
        => owner'[id] = w]_vars

\* The fleet implements SandboxPlacement.  A sandbox may still come as long as
\* the one request to create it is on its way, waited for or late; from then
\* on it runs or is over: no request that is served late, by a worker the
\* control plane has forgotten or after it has restarted, starts a sandbox a
\* second time, on another worker or after it has ended.
Coming ==
    {calls[c].id : c \in {d \in Calls : Requested(d, "create")}}
        \cup {r.id : r \in {q \in strays : q.op = "create"}}

Place == [id \in Sandboxes |-> {w \in Workers : id \in hosted[w]}]

Over == {id \in issued \ Coming : Place[id] = {}}

Placement == INSTANCE SandboxPlacement WITH place <- Place, over <- Over

ImplementsPlacement == Placement!Spec
-----------------------------------------------------------------------------
(* Liveness *)

\* worker-cluster.ts:128: "optimistic - heartbeat will correct this".  Once no
\* call is in flight any more, the counts the scheduler uses become right and
\* stay right, in spite of heartbeats that carry an older count.
Quiet == strays = {} /\ \A c \in Calls : calls[c] = Idle

CountsAreRight ==
    \A w \in registered : entry[w].active = Cardinality(hosted[w])

CountIsCorrected == <>[]Quiet => <>[]CountsAreRight

\* A sandbox on a worker the control plane has forgotten is found again, if it
\* lives long enough: heartbeat, 410, registration and reconciliation follow
\* each other through any bounded number of faults.
Rediscovered == \A id \in Sandboxes, w \in Workers :
    id \in hosted[w] /\ w \notin registered
        ~> id \notin hosted[w] \/ (owner[id] = w /\ Routed(id))

\* worker-cluster.ts:38: "orphans on the worker side age out via the worker's
\* own TTL".  Nobody can use them any more, so being listed or routed again
\* does not keep them.
OrphansAgeOut == TtlFairness =>
    \A id \in Sandboxes, w \in Workers :
        id \in hosted[w] /\ id \notin known /\ ~BeingCreated(id)
            ~> id \notin hosted[w]
=============================================================================
