------------------------- MODULE WorkerClusterProofs -------------------------
(* Theorems about WorkerCluster for any number of sandboxes, workers and     *)
(* calls and any number of faults.                                           *)
EXTENDS WorkerCluster, FiniteSetTheorems, TLAPS

-----------------------------------------------------------------------------
(* What the helpers do to the calls in flight and to the registry *)

\* An idle call is told from the others by its operation.
LEMMA CallFields ==
    ASSUME calls \in [Calls -> CallType \cup {Idle}], NEW c \in Calls
    PROVE  /\ calls[c] # Idle => calls[c] \in CallType
           /\ calls[c] # Idle => calls[c].id \in Sandboxes /\ calls[c].w \in Workers
           /\ calls[c].op # "idle" => calls[c] # Idle
  BY DEF CallType, Idle

\* How many sandboxes a worker runs is a number.
LEMMA CountIsNat ==
    ASSUME TypeOK, NEW w \in Workers
    PROVE  Cardinality(hosted[w]) \in Nat
  <1>1. hosted[w] \subseteq Sandboxes
    BY DEF TypeOK
  <1>. QED
    BY <1>1, FiniteAssumption, FS_Subset, FS_CardinalityType

\* A signal carries the worker's count.
LEMMA SignalTyped ==
    ASSUME TypeOK, NEW w \in Workers, NEW type \in {"register", "beat"}
    PROVE  Signal(type, w) \in SignalType
  BY CountIsNat DEF Signal, SignalType

\* A call that begins is well typed.
LEMMA SendTyped ==
    ASSUME TypeOK, NEW c \in Calls, NEW id \in Sandboxes, NEW w \in Workers,
           NEW op \in {"create", "execute", "destroy", "evict"}, Send(c, op, id, w)
    PROVE  calls' \in [Calls -> CallType \cup {Idle}]
  BY DEF Send, TypeOK, CallType

\* So is one that is settled.
LEMMA SettleTyped ==
    ASSUME TypeOK, NEW c \in Calls, calls[c] # Idle,
           NEW stage \in {"sent", "ok", "gone", "error"}, Settle(c, stage)
    PROVE  calls' \in [Calls -> CallType \cup {Idle}]
  BY DEF Settle, TypeOK, CallType

\* So is one that has returned.
LEMMA ReturnTyped ==
    ASSUME TypeOK, NEW c \in Calls, Return(c)
    PROVE  calls' \in [Calls -> CallType \cup {Idle}]
  BY DEF Return, TypeOK

\* So is one whose WorkerInfo object is gone.
LEMMA OrphanedTyped ==
    ASSUME TypeOK, NEW ws
    PROVE  Orphaned(ws) \in [Calls -> CallType \cup {Idle}]
  BY DEF Orphaned, TypeOK, CallType

\* A count is written into at most one entry.
LEMMA RecountTyped ==
    ASSUME TypeOK, NEW c \in Calls, calls[c] # Idle, NEW n \in Nat, Recount(c, n)
    PROVE  entry' \in [Workers -> EntryType]
  BY CallFields DEF Recount, TypeOK, EntryType

LEMMA UnrouteTyped ==
    ASSUME TypeOK, NEW c \in Calls, calls[c] # Idle, Unroute(c)
    PROVE  /\ entry' \in [Workers -> EntryType]
           /\ owner' \in [Sandboxes -> Workers \cup {NoWorker}]
  <1>1. entry[calls[c].w].active \in Nat
    BY CallFields DEF TypeOK, EntryType
  <1>2. (IF entry[calls[c].w].active = 0 THEN 0
         ELSE entry[calls[c].w].active - 1) \in Nat
    BY <1>1
  <1>. QED
    BY <1>2, RecountTyped DEF Unroute, TypeOK

\* What a request leaves on its way when its caller has given up.
LEMMA StrayTyped ==
    ASSUME TypeOK, NEW c \in Calls, MayStray(c)
    PROVE  Stray(c) \in StrayType
  <1>1. calls[c] # Idle
    BY DEF MayStray, Idle
  <1>. QED
    BY <1>1, CallFields DEF Stray, StrayType, TypeOK

-----------------------------------------------------------------------------
(* Type correctness *)

LEMMA TypeInit == Init => TypeOK
  BY NoWorkerAssumption, BoundsAssumption
  DEF Init, TypeOK, NoEntry, EntryType, Idle, CallType

LEMMA TypeStep == TypeOK /\ [Next]_vars => TypeOK'
  <1>. SUFFICES ASSUME TypeOK, [Next]_vars
                PROVE  TypeOK'
    OBVIOUS
  <1>. USE DEF controlPlane, fleet, network
  <1>1. ASSUME NEW c \in Calls, NEW id \in Sandboxes, CreateBegins(c, id)
      PROVE  TypeOK'
    <2>1. calls' \in [Calls -> CallType \cup {Idle}]
      BY <1>1, SendTyped DEF CreateBegins
    <2>. QED
      BY <1>1, <2>1 DEF CreateBegins, TypeOK
  <1>2. ASSUME NEW c \in Calls, CreateReturns(c)
      PROVE  TypeOK'
    <2>1. calls[c] # Idle /\ calls[c].id \in Sandboxes /\ calls[c].w \in Workers
      BY <1>2, CallFields DEF CreateReturns, Settled, TypeOK, Idle
    <2>2. entry[calls[c].w].active + 1 \in Nat
      BY <2>1 DEF TypeOK, EntryType
    <2>3. entry' \in [Workers -> EntryType]
      BY <1>2, <2>1, <2>2, RecountTyped DEF CreateReturns
    <2>4. calls' \in [Calls -> CallType \cup {Idle}]
      BY <1>2, ReturnTyped DEF CreateReturns
    <2>. QED
      BY <1>2, <2>1, <2>3, <2>4 DEF CreateReturns, TypeOK
  <1>3. ASSUME NEW c \in Calls, CreateFails(c)
      PROVE  TypeOK'
    BY <1>3, ReturnTyped DEF CreateFails, TypeOK
  <1>4. ASSUME NEW c \in Calls, NEW id \in Sandboxes,
             NEW op \in {"execute", "destroy", "evict"},
             UseBegins(c, op, id)
      PROVE  TypeOK'
    <2>1. owner[id] \in Workers
      BY <1>4 DEF UseBegins, Routed, TypeOK
    <2>2. calls' \in [Calls -> CallType \cup {Idle}]
      BY <1>4, <2>1, SendTyped DEF UseBegins
    <2>. QED
      BY <1>4, <2>2 DEF UseBegins, TypeOK
  <1>5. ASSUME NEW c \in Calls, ExecuteReturns(c)
      PROVE  TypeOK'
    BY <1>5, ReturnTyped DEF ExecuteReturns, TypeOK
  <1>6. ASSUME NEW c \in Calls, DestroyReturns(c)
      PROVE  TypeOK'
    <2>1. calls[c] # Idle
      BY <1>6 DEF DestroyReturns, Settled, Idle
    <2>2. /\ entry' \in [Workers -> EntryType]
          /\ owner' \in [Sandboxes -> Workers \cup {NoWorker}]
      BY <1>6, <2>1, UnrouteTyped DEF DestroyReturns
    <2>3. calls' \in [Calls -> CallType \cup {Idle}]
      BY <1>6, ReturnTyped DEF DestroyReturns
    <2>. QED
      BY <1>6, <2>2, <2>3 DEF DestroyReturns, TypeOK
  <1>7. ASSUME NEW c \in Calls, DestroyFails(c)
      PROVE  TypeOK'
    BY <1>7, ReturnTyped DEF DestroyFails, TypeOK
  <1>8. ASSUME NEW id \in Sandboxes, EvictUnrouted(id)
      PROVE  TypeOK'
    BY <1>8 DEF EvictUnrouted, TypeOK
  <1>9. ASSUME NEW c \in Calls, WorkerCreates(c)
      PROVE  TypeOK'
    <2>1. calls[c] # Idle /\ calls[c].id \in Sandboxes /\ calls[c].w \in Workers
      BY <1>9, CallFields DEF WorkerCreates, Requested, TypeOK, Idle
    <2>2. calls' \in [Calls -> CallType \cup {Idle}]
      BY <1>9, <2>1, SettleTyped DEF WorkerCreates
    <2>. QED
      BY <1>9, <2>1, <2>2 DEF WorkerCreates, TypeOK
  <1>10. ASSUME NEW c \in Calls, WorkerExecutes(c)
      PROVE  TypeOK'
    <2>1. calls[c] # Idle /\ calls[c].id \in Sandboxes
      BY <1>10, CallFields DEF WorkerExecutes, Requested, TypeOK, Idle
    <2>2. calls' \in [Calls -> CallType \cup {Idle}]
      BY <1>10, <2>1, SettleTyped DEF WorkerExecutes
    <2>. QED
      BY <1>10, <2>1, <2>2 DEF WorkerExecutes, TypeOK
  <1>11. ASSUME NEW c \in Calls, WorkerDestroys(c)
      PROVE  TypeOK'
    <2>1. calls[c] # Idle
      BY <1>11 DEF WorkerDestroys, Requested, Idle
    <2>2. calls' \in [Calls -> CallType \cup {Idle}]
      BY <1>11, <2>1, SettleTyped DEF WorkerDestroys
    <2>. QED
      BY <1>11, <2>2 DEF WorkerDestroys, TypeOK
  <1>12. ASSUME NEW r \in strays, StrayArrives(r)
      PROVE  TypeOK'
    <2>1. r.id \in Sandboxes /\ r.w \in Workers
      BY DEF TypeOK, StrayType
    <2>. QED
      BY <1>12, <2>1 DEF StrayArrives, TypeOK
  <1>13. ASSUME NEW id \in Sandboxes, Ages(id)
      PROVE  TypeOK'
    BY <1>13 DEF Ages, TypeOK
  <1>14. ASSUME NEW w \in Workers, NEW id \in Sandboxes, WorkerEvicts(w, id)
      PROVE  TypeOK'
    BY <1>14 DEF WorkerEvicts, TypeOK
  <1>15. ASSUME NEW w \in Workers, WorkerRegisters(w)
      PROVE  TypeOK'
    BY <1>15, SignalTyped DEF WorkerRegisters, TypeOK
  <1>16. ASSUME NEW w \in Workers, WorkerBeats(w)
      PROVE  TypeOK'
    BY <1>16, SignalTyped DEF WorkerBeats, TypeOK
  <1>17. ASSUME NEW m \in signals, RegisterArrives(m)
      PROVE  TypeOK'
    <2>1. m.w \in Workers /\ m.active \in Nat
      BY DEF TypeOK, SignalType
    <2>2. calls' \in [Calls -> CallType \cup {Idle}]
      BY <1>17, OrphanedTyped DEF RegisterArrives
    <2>3. [w |-> m.w, stage |-> "asked", list |-> {}] \in ReconcileType
      BY <2>1 DEF ReconcileType
    <2>4. entry' \in [Workers -> EntryType]
      BY <1>17, <2>1 DEF RegisterArrives, TypeOK, EntryType
    <2>5. phase' \in [Workers -> {"registering", "beating"}] /\ faults' \in Nat
      BY <1>17, <2>1 DEF RegisterArrives, TypeOK, Fault
    <2>. QED
      BY <1>17, <2>1, <2>2, <2>3, <2>4, <2>5 DEF RegisterArrives, TypeOK
  <1>18. ASSUME NEW m \in signals, BeatArrives(m)
      PROVE  TypeOK'
    <2>1. m.w \in Workers /\ m.active \in Nat
      BY DEF TypeOK, SignalType
    <2>. QED
      BY <1>18, <2>1 DEF BeatArrives, TypeOK, EntryType
  <1>19. ASSUME NEW m \in signals, BeatRefused(m)
      PROVE  TypeOK'
    <2>1. m.w \in Workers
      BY DEF TypeOK, SignalType
    <2>. QED
      BY <1>19, <2>1, SignalTyped DEF BeatRefused, TypeOK
  <1>20. CASE EvictStale
    <2>. DEFINE dead == {w \in registered : entry[w].stale}
    <2>1. calls' \in [Calls -> CallType \cup {Idle}]
      BY <1>20, OrphanedTyped DEF EvictStale
    <2>2. entry' \in [Workers -> EntryType]
      BY <1>20 DEF EvictStale, TypeOK, EntryType, NoEntry
    <2>. QED
      BY <1>20, <2>1, <2>2 DEF EvictStale, TypeOK
  <1>21. ASSUME NEW r \in reconciles, ReconcileListed(r)
      PROVE  TypeOK'
    <2>1. [r EXCEPT !.stage = "listed", !.list = hosted[r.w]] \in ReconcileType
      BY DEF TypeOK, ReconcileType
    <2>. QED
      BY <1>21, <2>1 DEF ReconcileListed, TypeOK
  <1>22. ASSUME NEW r \in reconciles, ReconcileReturns(r)
      PROVE  TypeOK'
    <2>1. r.w \in Workers
      BY DEF TypeOK, ReconcileType
    <2>. QED
      BY <1>22, <2>1 DEF ReconcileReturns, TypeOK
  <1>23. ASSUME NEW c \in Calls, FetchFails(c)
      PROVE  TypeOK'
    <2>1. calls' \in [Calls -> CallType \cup {Idle}]
      BY <1>23, SettleTyped DEF FetchFails
    <2>2. strays' \subseteq StrayType
      BY <1>23, StrayTyped DEF FetchFails, TypeOK
    <2>. QED
      BY <1>23, <2>1, <2>2 DEF FetchFails, Fault, TypeOK
  <1>24. ASSUME NEW m \in signals, SignalLost(m)
      PROVE  TypeOK'
    BY <1>24 DEF SignalLost, Fault, TypeOK
  <1>25. ASSUME NEW r \in reconciles, ReconcileFails(r)
      PROVE  TypeOK'
    BY <1>25 DEF ReconcileFails, Fault, TypeOK
  <1>26. ASSUME NEW w \in Workers, GoesSilent(w)
      PROVE  TypeOK'
    <2>1. entry' \in [Workers -> EntryType]
      BY <1>26 DEF GoesSilent, TypeOK, EntryType
    <2>. QED
      BY <1>26, <2>1 DEF GoesSilent, Fault, TypeOK
  <1>27. ASSUME NEW w \in Workers, WorkerRestarts(w)
      PROVE  TypeOK'
    <2>1. calls' \in [Calls -> CallType \cup {Idle}]
      BY <1>27 DEF WorkerRestarts, TypeOK, CallType
    <2>. QED
      BY <1>27, <2>1 DEF WorkerRestarts, Fault, TypeOK
  <1>28. CASE ControlPlaneRestarts
    <2>1. strays' \subseteq StrayType
      BY <1>28, StrayTyped DEF ControlPlaneRestarts, TypeOK
    <2>. QED
      BY <1>28, <2>1 DEF ControlPlaneRestarts, Fault, TypeOK, NoEntry, EntryType
  <1>29. CASE UNCHANGED vars
    BY <1>29 DEF vars, TypeOK
  <1>. QED
    BY <1>1, <1>2, <1>3, <1>4, <1>5, <1>6, <1>7, <1>8, <1>9, <1>10, <1>11,
       <1>12, <1>13, <1>14, <1>15, <1>16, <1>17, <1>18, <1>19, <1>20,
       <1>21, <1>22, <1>23, <1>24, <1>25, <1>26, <1>27, <1>28, <1>29
    DEF Next, Requests, Serves, Returns, Signals, Arrives, Reconciles, Faults

\* Every variable keeps its type.
THEOREM TypeCorrect == Spec => []TypeOK
  BY TypeInit, TypeStep, PTL DEF Spec

-----------------------------------------------------------------------------
(* A sandbox has one home *)

\* A call that is in flight after a step was so before it, and concerns the
\* same operation on the same sandbox and worker.
CallsKept == \A c \in Calls : calls'[c] # Idle =>
    /\ calls[c] # Idle
    /\ calls'[c].op = calls[c].op
    /\ calls'[c].id = calls[c].id
    /\ calls'[c].w = calls[c].w

LEMMA SettleKeeps ==
    ASSUME TypeOK, NEW c \in Calls, calls[c] # Idle,
           NEW stage \in {"sent", "ok", "gone", "error"}, Settle(c, stage)
    PROVE  CallsKept
  BY DEF Settle, TypeOK, CallType, CallsKept

LEMMA ReturnKeeps ==
    ASSUME TypeOK, NEW c \in Calls, Return(c)
    PROVE  CallsKept
  BY DEF Return, TypeOK, CallsKept

LEMMA OrphanedKeeps ==
    ASSUME TypeOK, NEW ws, calls' = Orphaned(ws)
    PROVE  CallsKept
  BY DEF Orphaned, TypeOK, CallType, CallsKept

LEMMA UnchangedKeeps ==
    ASSUME UNCHANGED calls
    PROVE  CallsKept
  BY DEF CallsKept

\* The requests a restarted worker breaks stay what they were.
LEMMA RestartKeeps ==
    ASSUME TypeOK, NEW w \in Workers, WorkerRestarts(w)
    PROVE  CallsKept
  BY DEF WorkerRestarts, TypeOK, CallType, CallsKept

\* What a call names as a home, it named before.
LEMMA NamedInCall ==
    ASSUME CallsKept, NEW w \in Workers, NEW id \in Sandboxes, InCall(w, id)'
    PROVE  InCall(w, id)
  BY DEF CallsKept, InCall

\* Only a create that begins gives a sandbox a home it did not have: whatever
\* another step names was named somewhere before.
LEMMA NamedStep ==
    ASSUME TypeOK, [Next]_vars, NEW w \in Workers, NEW id \in Sandboxes,
           Named(w, id)',
           ~ \E c \in Calls : CreateBegins(c, id)
    PROVE  Named(w, id)
  <1>. USE DEF controlPlane, fleet, network
  <1>1. ASSUME NEW c \in Calls, NEW i \in Sandboxes, CreateBegins(c, i)
        PROVE  Named(w, id)
    <2>1. i # id
      BY <1>1
    <2>2. UNCHANGED <<hosted, owner, strays, reconciles>>
      BY <1>1 DEF CreateBegins
    <2>3. InCall(w, id)' => InCall(w, id)
      BY <1>1, <2>1 DEF CreateBegins, Send, InCall, TypeOK
    <2>. QED
      BY <2>2, <2>3 DEF Named, InStray, InListing
  <1>2. ASSUME NEW c \in Calls, CreateReturns(c)
        PROVE  Named(w, id)
    <2>1. CallsKept
      BY <1>2, ReturnKeeps DEF CreateReturns
    <2>2. calls[c] # Idle
      BY <1>2 DEF CreateReturns, Settled, Idle
    <2>3. owner'[id] = w => owner[id] = w \/ InCall(w, id)
      BY <1>2, <2>2 DEF CreateReturns, InCall, TypeOK
    <2>4. UNCHANGED <<hosted, strays, reconciles>>
      BY <1>2 DEF CreateReturns
    <2>. QED
      BY <2>1, <2>3, <2>4, NamedInCall DEF Named, InStray, InListing
  <1>3. ASSUME NEW c \in Calls,
               CreateFails(c) \/ ExecuteReturns(c) \/ DestroyFails(c)
        PROVE  Named(w, id)
    <2>1. CallsKept
      BY <1>3, ReturnKeeps DEF CreateFails, ExecuteReturns, DestroyFails
    <2>2. UNCHANGED <<hosted, owner, strays, reconciles>>
      BY <1>3 DEF CreateFails, ExecuteReturns, DestroyFails
    <2>. QED
      BY <2>1, <2>2, NamedInCall DEF Named, InStray, InListing
  <1>4. ASSUME NEW c \in Calls, NEW i \in Sandboxes,
               NEW op \in {"execute", "destroy", "evict"}, UseBegins(c, op, i)
        PROVE  Named(w, id)
    <2>1. UNCHANGED <<hosted, owner, strays, reconciles>>
      BY <1>4 DEF UseBegins
    <2>2. InCall(w, id)' => InCall(w, id) \/ owner[id] = w
      BY <1>4 DEF UseBegins, Send, InCall, TypeOK
    <2>. QED
      BY <2>1, <2>2 DEF Named, InStray, InListing
  <1>5. ASSUME NEW c \in Calls, DestroyReturns(c)
        PROVE  Named(w, id)
    <2>1. CallsKept
      BY <1>5, ReturnKeeps DEF DestroyReturns
    <2>2. owner'[id] = w => owner[id] = w
      BY <1>5, NoWorkerAssumption DEF DestroyReturns, Unroute, TypeOK
    <2>3. UNCHANGED <<hosted, strays, reconciles>>
      BY <1>5 DEF DestroyReturns
    <2>. QED
      BY <2>1, <2>2, <2>3, NamedInCall DEF Named, InStray, InListing
  <1>6. ASSUME NEW c \in Calls,
               WorkerCreates(c) \/ WorkerExecutes(c) \/ WorkerDestroys(c)
        PROVE  Named(w, id)
    <2>1. calls[c] # Idle
      BY <1>6 DEF WorkerCreates, WorkerExecutes, WorkerDestroys, Requested, Idle
    <2>2. CallsKept
      BY <1>6, <2>1, SettleKeeps DEF WorkerCreates, WorkerExecutes, WorkerDestroys
    <2>3. id \in hosted'[w] => id \in hosted[w] \/ InCall(w, id)
      BY <1>6, <2>1 DEF WorkerCreates, WorkerExecutes, WorkerDestroys, InCall, TypeOK
    <2>4. UNCHANGED <<owner, strays, reconciles>>
      BY <1>6 DEF WorkerCreates, WorkerExecutes, WorkerDestroys
    <2>. QED
      BY <2>2, <2>3, <2>4, NamedInCall DEF Named, InStray, InListing
  <1>7. ASSUME NEW r \in strays, StrayArrives(r)
        PROVE  Named(w, id)
    <2>1. id \in hosted'[w] => id \in hosted[w] \/ InStray(w, id)
      BY <1>7 DEF StrayArrives, InStray, TypeOK
    <2>2. InStray(w, id)' => InStray(w, id)
      BY <1>7 DEF StrayArrives, InStray
    <2>3. UNCHANGED <<owner, calls, reconciles>>
      BY <1>7 DEF StrayArrives
    <2>. QED
      BY <2>1, <2>2, <2>3 DEF Named, InCall, InListing
  <1>8. ASSUME NEW v \in Workers, NEW i \in Sandboxes, WorkerEvicts(v, i)
        PROVE  Named(w, id)
    <2>1. id \in hosted'[w] => id \in hosted[w]
      BY <1>8 DEF WorkerEvicts, TypeOK
    <2>. QED
      BY <1>8, <2>1 DEF WorkerEvicts, Named, InCall, InStray, InListing
  <1>9. ASSUME UNCHANGED <<hosted, owner, calls, strays, reconciles>>
        PROVE  Named(w, id)
    BY <1>9 DEF Named, InCall, InStray, InListing
  <1>10. ASSUME NEW m \in signals, RegisterArrives(m)
         PROVE  Named(w, id)
    <2>1. CallsKept
      BY <1>10, OrphanedKeeps DEF RegisterArrives
    <2>2. InListing(w, id)' => InListing(w, id)
      BY <1>10 DEF RegisterArrives, InListing
    <2>3. UNCHANGED <<hosted, owner, strays>>
      BY <1>10 DEF RegisterArrives
    <2>. QED
      BY <2>1, <2>2, <2>3, NamedInCall DEF Named, InStray
  <1>11. CASE EvictStale
    <2>1. CallsKept
      BY <1>11, OrphanedKeeps DEF EvictStale
    <2>2. owner'[id] = w => owner[id] = w
      BY <1>11, NoWorkerAssumption DEF EvictStale, TypeOK
    <2>3. UNCHANGED <<hosted, strays, reconciles>>
      BY <1>11 DEF EvictStale
    <2>. QED
      BY <2>1, <2>2, <2>3, NamedInCall DEF Named, InStray, InListing
  <1>12. ASSUME NEW r \in reconciles, ReconcileListed(r)
         PROVE  Named(w, id)
    <2>1. InListing(w, id)' => InListing(w, id) \/ id \in hosted[w]
      BY <1>12 DEF ReconcileListed, InListing, TypeOK, ReconcileType
    <2>2. UNCHANGED <<hosted, owner, calls, strays>>
      BY <1>12 DEF ReconcileListed
    <2>. QED
      BY <2>1, <2>2 DEF Named, InCall, InStray
  <1>13. ASSUME NEW r \in reconciles, ReconcileReturns(r)
         PROVE  Named(w, id)
    <2>1. InListing(w, id)' => InListing(w, id)
      BY <1>13 DEF ReconcileReturns, InListing
    <2>2. owner'[id] = w => owner[id] = w \/ InListing(w, id)
      BY <1>13 DEF ReconcileReturns, InListing, TypeOK
    <2>3. UNCHANGED <<hosted, calls, strays>>
      BY <1>13 DEF ReconcileReturns
    <2>. QED
      BY <2>1, <2>2, <2>3 DEF Named, InCall, InStray
  <1>14. ASSUME NEW r \in reconciles, ReconcileFails(r)
         PROVE  Named(w, id)
    <2>1. InListing(w, id)' => InListing(w, id)
      BY <1>14 DEF ReconcileFails, InListing
    <2>. QED
      BY <1>14, <2>1 DEF ReconcileFails, Named, InCall, InStray
  <1>15. ASSUME NEW c \in Calls, FetchFails(c)
         PROVE  Named(w, id)
    <2>1. CallsKept
      BY <1>15, SettleKeeps DEF FetchFails
    <2>2. InStray(w, id)' => InStray(w, id) \/ InCall(w, id)
      BY <1>15 DEF FetchFails, InStray, InCall, Stray
    <2>3. UNCHANGED <<hosted, owner, reconciles>>
      BY <1>15 DEF FetchFails
    <2>. QED
      BY <2>1, <2>2, <2>3, NamedInCall DEF Named, InListing
  <1>16. ASSUME NEW v \in Workers, WorkerRestarts(v)
         PROVE  Named(w, id)
    <2>1. id \in hosted'[w] => id \in hosted[w]
      BY <1>16 DEF WorkerRestarts, TypeOK
    <2>2. /\ InStray(w, id)' => InStray(w, id)
          /\ InListing(w, id)' => InListing(w, id)
      BY <1>16 DEF WorkerRestarts, InStray, InListing
    <2>3. CallsKept /\ UNCHANGED owner
      BY <1>16, RestartKeeps DEF WorkerRestarts
    <2>. QED
      BY <2>1, <2>2, <2>3, NamedInCall DEF Named
  <1>17. CASE ControlPlaneRestarts
    <2>1. owner'[id] # w
      BY <1>17, NoWorkerAssumption DEF ControlPlaneRestarts
    <2>2. ~InCall(w, id)' /\ ~InListing(w, id)'
      BY <1>17 DEF ControlPlaneRestarts, InCall, InListing
    <2>3. InStray(w, id)' => InStray(w, id) \/ InCall(w, id)
      BY <1>17 DEF ControlPlaneRestarts, InStray, InCall, Stray
    <2>. QED
      BY <1>17, <2>1, <2>2, <2>3 DEF ControlPlaneRestarts, Named
  <1>18. (\/ \E i \in Sandboxes : EvictUnrouted(i) \/ Ages(i)
          \/ \E v \in Workers : Signals(v) \/ GoesSilent(v)
          \/ \E m \in signals : BeatArrives(m) \/ BeatRefused(m) \/ SignalLost(m)
          \/ UNCHANGED vars)
         => UNCHANGED <<hosted, owner, calls, strays, reconciles>>
    BY DEF EvictUnrouted, Ages, Signals, WorkerRegisters, WorkerBeats,
           GoesSilent, BeatArrives, BeatRefused, SignalLost, vars
  <1>. QED
    BY <1>1, <1>2, <1>3, <1>4, <1>5, <1>6, <1>7, <1>8, <1>9, <1>10, <1>11,
       <1>12, <1>13, <1>14, <1>15, <1>16, <1>17, <1>18
    DEF Next, Requests, Serves, Returns, Arrives, Reconciles, Faults

\* An id that has been given out is never forgotten; a create that begins
\* gives out a new one.
LEMMA IssuedStep ==
    ASSUME [Next]_vars
    PROVE  issued \subseteq issued'
  BY DEF Next, Requests, CreateBegins, UseBegins, EvictUnrouted, Ages, Serves,
         WorkerCreates, WorkerExecutes, WorkerDestroys, Returns, CreateReturns,
         CreateFails, ExecuteReturns, DestroyReturns, DestroyFails,
         StrayArrives, WorkerEvicts, Signals, WorkerRegisters, WorkerBeats,
         Arrives, RegisterArrives, BeatArrives, BeatRefused, EvictStale,
         Reconciles, ReconcileListed, ReconcileReturns, Faults, FetchFails,
         SignalLost, ReconcileFails, GoesSilent, WorkerRestarts,
         ControlPlaneRestarts, vars, controlPlane

\* A create that begins names one home for its sandbox, which had none.
LEMMA CreateNames ==
    ASSUME TypeOK, OneHome, NEW c \in Calls, NEW id \in Sandboxes,
           CreateBegins(c, id)
    PROVE  /\ id \in issued'
           /\ \A w, v \in Workers : Named(w, id)' /\ Named(v, id)' => v = w
  <1>1. \A w \in Workers : ~Named(w, id)
    BY DEF OneHome, CreateBegins
  <1>2. \A w \in Workers : ~InCall(w, id)
    BY <1>1 DEF Named
  <1>3. PICK x \in Workers : Send(c, "create", id, x)
    BY DEF CreateBegins
  <1>4. \A w \in Workers : InCall(w, id)' => w = x
    BY <1>2, <1>3 DEF Send, InCall, TypeOK
  <1>5. \A w \in Workers : Named(w, id)' => InCall(w, id)'
    BY <1>1 DEF CreateBegins, fleet, network, Named, InStray, InListing
  <1>. QED
    BY <1>4, <1>5 DEF CreateBegins

LEMMA OneHomeInit == Init => OneHome
  BY NoWorkerAssumption
  DEF Init, OneHome, Named, InCall, InStray, InListing

LEMMA OneHomeStep == TypeOK /\ OneHome /\ [Next]_vars => OneHome'
  <1>. SUFFICES ASSUME TypeOK, OneHome, [Next]_vars,
                       NEW id \in Sandboxes, NEW w \in Workers, Named(w, id)'
                PROVE  /\ id \in issued'
                       /\ \A v \in Workers : Named(v, id)' => v = w
    BY DEF OneHome
  <1>1. CASE \E c \in Calls : CreateBegins(c, id)
    BY <1>1, CreateNames
  <1>2. CASE ~ \E c \in Calls : CreateBegins(c, id)
    <2>1. \A v \in Workers : Named(v, id)' => Named(v, id)
      BY <1>2, NamedStep
    <2>2. Named(w, id) /\ id \in issued'
      BY <2>1, IssuedStep DEF OneHome
    <2>. QED
      BY <2>1, <2>2 DEF OneHome
  <1>. QED
    BY <1>1, <1>2

\* A sandbox never runs on two workers, and no route, request, late request
\* or outdated listing names a worker other than its one home, whatever is
\* lost, restarted or forgotten.
THEOREM OneHomeCorrect == Spec => []OneHome
  <1>1. Init => TypeOK /\ OneHome
    BY TypeInit, OneHomeInit
  <1>2. TypeOK /\ OneHome /\ [Next]_vars => (TypeOK /\ OneHome)'
    BY TypeStep, OneHomeStep
  <1>. QED
    BY <1>1, <1>2, PTL DEF Spec

-----------------------------------------------------------------------------
(* Requests across their await *)

KnownIssued == known \subseteq issued

IndInv == TypeOK /\ OneHome /\ KnownIssued /\ RequestsSound

\* The id of a sandbox that is known, requested or on its way was given out.
LEMMA IssuedIds ==
    ASSUME IndInv, NEW id \in Sandboxes, id \notin issued
    PROVE  /\ id \notin known
           /\ \A c \in Calls : calls[c] # Idle => calls[c].id # id
           /\ \A r \in strays : r.id # id
  <1>1. \A w \in Workers : ~Named(w, id)
    BY DEF IndInv, OneHome
  <1>2. \A c \in Calls : calls[c] # Idle => calls[c].id # id
    BY <1>1, CallFields DEF IndInv, TypeOK, Named, InCall
  <1>3. \A r \in strays : r.id # id
    BY <1>1 DEF IndInv, TypeOK, StrayType, Named, InStray
  <1>. QED
    BY <1>2, <1>3 DEF IndInv, KnownIssued

\* A call stays at its stage or fails.
StagesKept == \A c \in Calls : calls'[c] # Idle =>
    calls'[c].stage = calls[c].stage \/ calls'[c].stage = "error"

\* A request whose caller has not given up was so before.
ErrorsKept == \A c \in Calls :
    calls'[c] # Idle /\ calls'[c].stage # "error" => calls[c].stage # "error"

\* A step that adds no call, no known sandbox and no late create keeps the
\* requests sound, if the destroys that have been answered are.
LEMMA SoundFrom ==
    ASSUME IndInv, CallsKept, ErrorsKept, known' \subseteq known,
           \A r \in strays' : r.op = "create" => r \in strays,
           \A c \in Calls : DestroySound(c)'
    PROVE  RequestsSound'
  <1>1. \A c \in Calls : calls'[c].op # "idle" => calls'[c] # Idle
    BY DEF Idle
  <1>2. \A id : NotComing(id) => NotComing(id)'
    BY <1>1 DEF NotComing, BeingCreated, Active, CallsKept
  <1>3. \A id \in known' : NotComing(id)'
    BY <1>2 DEF IndInv, RequestsSound
  <1>4. ASSUME NEW c \in Calls
        PROVE  CreateSound(c)'
    <2>. SUFFICES ASSUME calls'[c].op = "create"
                  PROVE  CreateSound(c)'
      BY DEF CreateSound
    <2>1. CreateSound(c) /\ calls'[c] # Idle
      BY <1>1 DEF IndInv, RequestsSound
    <2>2. /\ calls[c].op = "create"
          /\ calls'[c].id = calls[c].id
          /\ calls'[c].stage # "error" => calls[c].stage # "error"
      BY <2>1 DEF CallsKept, ErrorsKept
    <2>3. \A d \in Active("create")' :
              d \in Active("create") /\ calls'[d].id = calls[d].id
      BY <1>1 DEF Active, CallsKept
    <2>. QED
      BY <2>1, <2>2, <2>3 DEF CreateSound
  <1>5. ASSUME NEW c \in Calls
        PROVE  UseSound(c)'
    <2>1. UseSound(c)
      BY DEF IndInv, RequestsSound
    <2>. QED
      BY <1>1, <1>2, <2>1 DEF UseSound, CallsKept
  <1>. QED
    BY <1>3, <1>4, <1>5 DEF RequestsSound

\* Where no sandbox is added to a worker, what is destroyed stays so.
LEMMA DestroyFrom ==
    ASSUME IndInv, CallsKept, StagesKept,
           \A w \in Workers : hosted'[w] \subseteq hosted[w]
    PROVE  \A c \in Calls : DestroySound(c)'
  <1>. SUFFICES ASSUME NEW c \in Calls,
                       Settled(c, {"destroy", "evict"}, {"ok", "gone"})'
                PROVE  \A w \in Workers : calls'[c].id \notin hosted'[w]
    BY DEF DestroySound
  <1>1. calls'[c] # Idle
    BY DEF Settled, Idle
  <1>2. /\ Settled(c, {"destroy", "evict"}, {"ok", "gone"})
        /\ calls'[c].id = calls[c].id
    BY <1>1 DEF CallsKept, StagesKept, Settled
  <1>3. DestroySound(c)
    BY DEF IndInv, RequestsSound
  <1>. QED
    BY <1>2, <1>3 DEF DestroySound

\* Both together.
LEMMA ShrinkSound ==
    ASSUME IndInv, CallsKept, StagesKept, known' \subseteq known,
           strays' \subseteq strays,
           \A w \in Workers : hosted'[w] \subseteq hosted[w]
    PROVE  RequestsSound'
  <1>1. ErrorsKept
    BY DEF ErrorsKept, StagesKept
  <1>. QED
    BY <1>1, DestroyFrom, SoundFrom

\* The actions on calls leave the stages of the others alone.
LEMMA ReturnStages ==
    ASSUME TypeOK, NEW c \in Calls, Return(c)
    PROVE  StagesKept
  BY DEF Return, TypeOK, StagesKept

LEMMA OrphanedStages ==
    ASSUME TypeOK, NEW ws, calls' = Orphaned(ws)
    PROVE  StagesKept
  BY DEF Orphaned, TypeOK, CallType, StagesKept

LEMMA RestartStages ==
    ASSUME TypeOK, NEW w \in Workers, WorkerRestarts(w)
    PROVE  StagesKept
  BY DEF WorkerRestarts, TypeOK, CallType, StagesKept

\* A request that is served was sent; the others stay as they are.
LEMMA SettleServed ==
    ASSUME TypeOK, NEW c \in Calls, calls[c] # Idle, calls[c].stage = "sent",
           NEW stage \in {"ok", "gone", "error"}, Settle(c, stage)
    PROVE  /\ CallsKept /\ ErrorsKept
           /\ calls'[c] = [calls[c] EXCEPT !.stage = stage]
           /\ \A d \in Calls \ {c} : calls'[d] = calls[d]
  <1>1. CallsKept
    BY SettleKeeps
  <1>2. /\ calls'[c] = [calls[c] EXCEPT !.stage = stage]
        /\ \A d \in Calls \ {c} : calls'[d] = calls[d]
    BY DEF Settle, TypeOK
  <1>3. ErrorsKept
    BY <1>2 DEF ErrorsKept
  <1>. QED
    BY <1>1, <1>2, <1>3

\* A create begins with an id nobody has used.
LEMMA CreateBeginsSound ==
    ASSUME IndInv, NEW c \in Calls, NEW id \in Sandboxes, CreateBegins(c, id)
    PROVE  RequestsSound'
  <1>1. /\ id \notin known
        /\ \A d \in Calls : calls[d] # Idle => calls[d].id # id
        /\ \A r \in strays : r.id # id
    BY IssuedIds DEF CreateBegins
  <1>2. PICK w \in Workers : Send(c, "create", id, w)
    BY DEF CreateBegins
  <1>3. /\ calls' \in [Calls -> CallType \cup {Idle}]
        /\ calls'[c].op = "create" /\ calls'[c].id = id
        /\ \A d \in Calls \ {c} : calls'[d] = calls[d]
    BY <1>2, SendTyped DEF Send, IndInv, TypeOK
  <1>4. UNCHANGED <<known, strays, hosted>>
    BY DEF CreateBegins, fleet, network
  <1>5. Active("create")' = Active("create") \cup {c}
    BY <1>3 DEF Active
  <1>6. \A d \in Calls : calls[d].op # "idle" => calls[d].id # id
    BY <1>1 DEF Idle
  <1>7. \A i : NotComing(i) /\ i # id => NotComing(i)'
    BY <1>3, <1>4 DEF NotComing, BeingCreated, Active
  <1>8. \A i \in known' : NotComing(i)'
    BY <1>1, <1>4, <1>7 DEF IndInv, RequestsSound
  <1>9. ASSUME NEW d \in Calls
        PROVE  CreateSound(d)' /\ UseSound(d)' /\ DestroySound(d)'
    <2>1. CASE d = c
      <3>1. \A e \in Active("create")' : calls'[e].id = id => e = c
        BY <1>3, <1>6 DEF Active
      <3>. QED
        BY <2>1, <3>1, <1>1, <1>3, <1>4
        DEF CreateSound, UseSound, DestroySound, Settled
    <2>2. CASE d # c
      <3>1. /\ calls'[d] = calls[d]
            /\ CreateSound(d) /\ UseSound(d) /\ DestroySound(d)
        BY <2>2, <1>3 DEF IndInv, RequestsSound
      <3>2. CreateSound(d)'
        <4>. SUFFICES ASSUME calls[d].op = "create"
                      PROVE  CreateSound(d)'
          BY <3>1 DEF CreateSound
        <4>1. calls[d].id # id
          BY <1>6
        <4>. QED
          BY <3>1, <4>1, <1>3, <1>4, <1>5 DEF CreateSound, Active
      <3>3. UseSound(d)'
        BY <3>1, <1>6, <1>7 DEF UseSound
      <3>4. DestroySound(d)'
        BY <3>1, <1>4 DEF DestroySound, Settled
      <3>. QED
        BY <3>2, <3>3, <3>4
    <2>. QED
      BY <2>1, <2>2
  <1>. QED
    BY <1>8, <1>9 DEF RequestsSound

\* The sandbox of a create that returns is on its way nowhere else.
LEMMA CreateReturnsSound ==
    ASSUME IndInv, NEW c \in Calls, CreateReturns(c)
    PROVE  RequestsSound'
  <1>. SUFFICES ASSUME NEW id, id = calls[c].id
                PROVE  RequestsSound'
    OBVIOUS
  <1>1. calls[c].op = "create" /\ calls[c].stage = "ok" /\ CreateSound(c)
    BY DEF CreateReturns, Settled, IndInv, RequestsSound
  <1>2. /\ calls'[c] = Idle
        /\ \A d \in Calls \ {c} : calls'[d] = calls[d]
    BY DEF CreateReturns, Return, IndInv, TypeOK
  <1>3. known' = known \cup {id} /\ UNCHANGED <<strays, hosted>>
    BY DEF CreateReturns, fleet, network
  <1>4. Active("create")' = Active("create") \ {c}
    BY <1>2 DEF Active, Idle
  <1>5. \A d \in Active("create")' : calls'[d] = calls[d] /\ calls[d].id # id
    BY <1>1, <1>2, <1>4 DEF CreateSound, Active
  <1>6. \A i : NotComing(i) => NotComing(i)'
    BY <1>3, <1>4, <1>5 DEF NotComing, BeingCreated
  <1>7. NotComing(id)'
    <2>1. ~BeingCreated(id)'
      BY <1>5 DEF BeingCreated
    <2>2. \A r \in strays' : r.op = "create" => r.id # id
      BY <1>1, <1>3 DEF CreateSound
    <2>. QED
      BY <2>1, <2>2 DEF NotComing
  <1>8. \A i \in known' : NotComing(i)'
    BY <1>3, <1>6, <1>7 DEF IndInv, RequestsSound
  <1>9. ASSUME NEW d \in Calls
        PROVE  CreateSound(d)' /\ UseSound(d)' /\ DestroySound(d)'
    <2>1. CASE d = c
      BY <2>1, <1>2 DEF CreateSound, UseSound, DestroySound, Settled, Idle
    <2>2. CASE d # c
      <3>1. /\ calls'[d] = calls[d]
            /\ CreateSound(d) /\ UseSound(d) /\ DestroySound(d)
        BY <2>2, <1>2 DEF IndInv, RequestsSound
      <3>2. CreateSound(d)'
        <4>. SUFFICES ASSUME calls[d].op = "create"
                      PROVE  CreateSound(d)'
          BY <3>1 DEF CreateSound
        <4>1. calls[d].id # id
          BY <2>2, <1>1 DEF CreateSound, Active
        <4>. QED
          BY <3>1, <4>1, <1>3, <1>4, <1>5 DEF CreateSound
      <3>3. UseSound(d)'
        BY <3>1, <1>6 DEF UseSound
      <3>4. DestroySound(d)'
        BY <3>1, <1>3 DEF DestroySound, Settled
      <3>. QED
        BY <3>2, <3>3, <3>4
    <2>. QED
      BY <2>1, <2>2
  <1>. QED
    BY <1>8, <1>9 DEF RequestsSound

\* What is used is known, and so not being created.
LEMMA UseBeginsSound ==
    ASSUME IndInv, NEW c \in Calls, NEW id \in Sandboxes,
           NEW op \in {"execute", "destroy", "evict"}, UseBegins(c, op, id)
    PROVE  RequestsSound'
  <1>1. /\ calls'[c].op = op /\ calls'[c].id = id /\ calls'[c].stage = "sent"
        /\ \A d \in Calls \ {c} : calls'[d] = calls[d]
    BY DEF UseBegins, Send, IndInv, TypeOK
  <1>2. calls[c] = Idle /\ UNCHANGED <<known, strays, hosted>>
    BY DEF UseBegins, fleet, network
  <1>3. Active("create")' = Active("create")
    BY <1>1, <1>2 DEF Active, Idle
  <1>4. \A d \in Active("create") : d # c /\ calls'[d] = calls[d]
    BY <1>1, <1>2 DEF Active, Idle
  <1>5. \A i : NotComing(i) => NotComing(i)'
    BY <1>2, <1>3, <1>4 DEF NotComing, BeingCreated
  <1>6. NotComing(id)
    BY DEF UseBegins, IndInv, RequestsSound
  <1>7. ASSUME NEW d \in Calls
        PROVE  CreateSound(d)' /\ UseSound(d)' /\ DestroySound(d)'
    <2>1. CASE d = c
      BY <2>1, <1>1, <1>5, <1>6 DEF CreateSound, UseSound, DestroySound, Settled
    <2>2. CASE d # c
      <3>1. /\ calls'[d] = calls[d]
            /\ CreateSound(d) /\ UseSound(d) /\ DestroySound(d)
        BY <2>2, <1>1 DEF IndInv, RequestsSound
      <3>2. CreateSound(d)'
        BY <3>1, <1>2, <1>3, <1>4 DEF CreateSound
      <3>3. UseSound(d)'
        BY <3>1, <1>5 DEF UseSound
      <3>4. DestroySound(d)'
        BY <3>1, <1>2 DEF DestroySound, Settled
      <3>. QED
        BY <3>2, <3>3, <3>4
    <2>. QED
      BY <2>1, <2>2
  <1>. QED
    BY <1>2, <1>5, <1>7 DEF IndInv, RequestsSound

\* A worker runs a new sandbox: nobody is told that it was destroyed.
LEMMA WorkerCreatesSound ==
    ASSUME IndInv, NEW c \in Calls, WorkerCreates(c)
    PROVE  RequestsSound'
  <1>1. /\ calls[c] # Idle /\ calls[c].op = "create" /\ calls[c].stage = "sent"
        /\ Settle(c, "ok") \/ Settle(c, "error")
    BY DEF WorkerCreates, Requested, Idle
  <1>2. /\ CallsKept /\ ErrorsKept
        /\ calls'[c].op = "create"
        /\ \A d \in Calls \ {c} : calls'[d] = calls[d]
    <2>1. CASE Settle(c, "ok")
      BY <1>1, <2>1, SettleServed, CallFields DEF IndInv, TypeOK, CallType
    <2>2. CASE Settle(c, "error")
      BY <1>1, <2>2, SettleServed, CallFields DEF IndInv, TypeOK, CallType
    <2>. QED
      BY <1>1, <2>1, <2>2
  <1>3. ASSUME NEW d \in Calls
        PROVE  DestroySound(d)'
    <2>. SUFFICES ASSUME Settled(d, {"destroy", "evict"}, {"ok", "gone"})'
                  PROVE  \A w \in Workers : calls'[d].id \notin hosted'[w]
      BY DEF DestroySound
    <2>1. d # c /\ calls'[d] = calls[d]
      BY <1>2 DEF Settled
    <2>2. DestroySound(d) /\ UseSound(d)
      BY DEF IndInv, RequestsSound
    <2>3. calls[d].id # calls[c].id
      BY <1>1, <2>1, <2>2 DEF UseSound, Settled, NotComing, BeingCreated, Active
    <2>4. \A w \in Workers : calls[d].id \notin hosted[w]
      BY <2>1, <2>2 DEF DestroySound, Settled
    <2>. QED
      BY <2>1, <2>3, <2>4 DEF WorkerCreates, IndInv, TypeOK
  <1>. QED
    BY <1>2, <1>3, SoundFrom DEF WorkerCreates, network

\* A worker that has destroyed a sandbox was its only home.
LEMMA WorkerDestroysSound ==
    ASSUME IndInv, NEW c \in Calls, WorkerDestroys(c)
    PROVE  RequestsSound'
  <1>1. /\ calls[c] # Idle /\ calls[c].stage = "sent"
        /\ Settle(c, "ok") \/ Settle(c, "gone")
    BY DEF WorkerDestroys, Requested, Idle
  <1>2. /\ CallsKept /\ ErrorsKept
        /\ calls'[c].id = calls[c].id
        /\ \A d \in Calls \ {c} : calls'[d] = calls[d]
    <2>1. CASE Settle(c, "ok")
      BY <1>1, <2>1, SettleServed, CallFields DEF IndInv, TypeOK, CallType
    <2>2. CASE Settle(c, "gone")
      BY <1>1, <2>2, SettleServed, CallFields DEF IndInv, TypeOK, CallType
    <2>. QED
      BY <1>1, <2>1, <2>2
  <1>3. \A w \in Workers : hosted'[w] \subseteq hosted[w]
    BY DEF WorkerDestroys, IndInv, TypeOK
  <1>4. calls[c].id \in Sandboxes /\ calls[c].w \in Workers
    BY <1>1, CallFields DEF IndInv, TypeOK
  <1>5. \A w \in Workers : calls[c].id \notin hosted'[w]
    <2>1. ASSUME NEW w \in Workers, calls[c].id \in hosted[w]
          PROVE  w = calls[c].w
      <3>1. Named(w, calls[c].id) /\ Named(calls[c].w, calls[c].id)
        BY <2>1, <1>1 DEF Named, InCall
      <3>. QED
        BY <3>1, <1>4 DEF IndInv, OneHome
    <2>. QED
      BY <2>1, <1>3 DEF WorkerDestroys, IndInv, TypeOK
  <1>6. ASSUME NEW d \in Calls
        PROVE  DestroySound(d)'
    <2>1. CASE d = c
      BY <2>1, <1>2, <1>5 DEF DestroySound
    <2>2. CASE d # c
      <3>1. DestroySound(d) /\ calls'[d] = calls[d]
        BY <2>2, <1>2 DEF IndInv, RequestsSound
      <3>. QED
        BY <3>1, <1>3 DEF DestroySound, Settled
    <2>. QED
      BY <2>1, <2>2
  <1>. QED
    BY <1>2, <1>6, SoundFrom DEF WorkerDestroys, network

\* A late create is of no sandbox that is being used.
LEMMA StrayArrivesSound ==
    ASSUME IndInv, NEW r \in strays, StrayArrives(r)
    PROVE  RequestsSound'
  <1>1. UNCHANGED <<known, calls>> /\ strays' \subseteq strays
    BY DEF StrayArrives, controlPlane
  <1>2. CallsKept /\ ErrorsKept
    BY <1>1 DEF CallsKept, ErrorsKept
  <1>3. ASSUME NEW d \in Calls
        PROVE  DestroySound(d)'
    <2>. SUFFICES ASSUME Settled(d, {"destroy", "evict"}, {"ok", "gone"})
                  PROVE  \A w \in Workers : calls[d].id \notin hosted'[w]
      BY <1>1 DEF DestroySound, Settled
    <2>1. DestroySound(d) /\ UseSound(d)
      BY DEF IndInv, RequestsSound
    <2>2. r.op = "create" => r.id # calls[d].id
      BY <2>1 DEF UseSound, Settled, NotComing
    <2>3. \A w \in Workers : calls[d].id \notin hosted[w]
      BY <2>1 DEF DestroySound
    <2>. QED
      BY <2>2, <2>3 DEF StrayArrives, IndInv, TypeOK
  <1>. QED
    BY <1>1, <1>2, <1>3, SoundFrom

\* A create whose caller gives up leaves no request for a sandbox in use.
LEMMA FetchFailsSound ==
    ASSUME IndInv, NEW c \in Calls, FetchFails(c)
    PROVE  RequestsSound'
  <1>1. calls[c] # Idle /\ calls[c].stage # "error" /\ Settle(c, "error")
    BY DEF FetchFails
  <1>2. CallsKept
    BY <1>1, SettleKeeps DEF IndInv
  <1>3. /\ calls'[c].stage = "error" /\ calls'[c].op = calls[c].op
        /\ calls'[c].id = calls[c].id
        /\ \A d \in Calls \ {c} : calls'[d] = calls[d]
    BY <1>1, CallFields DEF Settle, IndInv, TypeOK, CallType
  <1>4. UNCHANGED <<known, hosted>>
    BY DEF FetchFails, fleet
  <1>5. \A r \in strays' : r.op = "create" =>
            \/ r \in strays
            \/ calls[c].op = "create" /\ r.id = calls[c].id
    BY DEF FetchFails, Stray, MayStray
  <1>6. Active("create")' = Active("create")
    BY <1>3 DEF Active
  <1>7. \A d \in Calls : calls'[d].op = calls[d].op /\ calls'[d].id = calls[d].id
    BY <1>3
  <1>8. \A i : BeingCreated(i)' <=> BeingCreated(i)
    BY <1>6, <1>7 DEF BeingCreated, Active
  <1>9. \A i : NotComing(i) => NotComing(i)'
    BY <1>5, <1>8 DEF NotComing, BeingCreated, Active
  <1>10. ASSUME NEW d \in Calls
         PROVE  CreateSound(d)' /\ UseSound(d)' /\ DestroySound(d)'
    <2>1. CreateSound(d) /\ UseSound(d) /\ DestroySound(d)
      BY DEF IndInv, RequestsSound
    <2>2. UseSound(d)'
      BY <2>1, <1>7, <1>9 DEF UseSound
    <2>3. DestroySound(d)'
      BY <2>1, <1>3, <1>4 DEF DestroySound, Settled
    <2>4. CreateSound(d)'
      <3>. SUFFICES ASSUME calls[d].op = "create"
                    PROVE  CreateSound(d)'
        BY <1>7 DEF CreateSound
      <3>1. \A e \in Active("create")' : calls'[e].id = calls'[d].id => e = d
        BY <2>1, <1>6, <1>7 DEF CreateSound, Active
      <3>2. ASSUME calls'[d].stage # "error", NEW r \in strays', r.op = "create"
            PROVE  r.id # calls'[d].id
        <4>1. d # c /\ calls[d].stage # "error"
          BY <3>2, <1>3
        <4>2. calls[c].op = "create" => calls[c].id # calls[d].id
          BY <4>1, <2>1 DEF CreateSound, Active
        <4>. QED
          BY <3>2, <4>1, <4>2, <2>1, <1>5, <1>7 DEF CreateSound
      <3>. QED
        BY <3>1, <3>2, <2>1, <1>4, <1>7 DEF CreateSound
    <2>. QED
      BY <2>2, <2>3, <2>4
  <1>. QED
    BY <1>4, <1>9, <1>10 DEF IndInv, RequestsSound

\* Nothing is known or in flight after a restart of the control plane.
LEMMA ControlPlaneRestartsSound ==
    ASSUME IndInv, ControlPlaneRestarts
    PROVE  RequestsSound'
  <1>1. known' = {} /\ \A c \in Calls : calls'[c] = Idle
    BY DEF ControlPlaneRestarts
  <1>. QED
    BY <1>1 DEF RequestsSound, CreateSound, UseSound, DestroySound, Settled, Idle

\* No step makes a request unsound.
LEMMA SoundStep == IndInv /\ [Next]_vars => RequestsSound'
  <1>. SUFFICES ASSUME IndInv, [Next]_vars
                PROVE  RequestsSound'
    OBVIOUS
  <1>. USE DEF controlPlane, fleet, network
  <1>1. ASSUME NEW c \in Calls,
               \/ CreateFails(c) \/ ExecuteReturns(c)
               \/ DestroyReturns(c) \/ DestroyFails(c)
        PROVE  RequestsSound'
    <2>1. Return(c) /\ known' \subseteq known /\ UNCHANGED <<strays, hosted>>
      BY <1>1 DEF CreateFails, ExecuteReturns, DestroyReturns, DestroyFails
    <2>. QED
      BY <2>1, ReturnKeeps, ReturnStages, ShrinkSound DEF IndInv
  <1>2. ASSUME \/ \E id \in Sandboxes : EvictUnrouted(id) \/ Ages(id)
               \/ \E w \in Workers : Signals(w) \/ GoesSilent(w)
               \/ \E m \in signals :
                     BeatArrives(m) \/ BeatRefused(m) \/ SignalLost(m)
               \/ \E r \in reconciles : Reconciles(r) \/ ReconcileFails(r)
               \/ UNCHANGED vars
        PROVE  RequestsSound'
    <2>1. known' \subseteq known /\ UNCHANGED <<calls, strays, hosted>>
      BY <1>2 DEF EvictUnrouted, Ages, Signals, WorkerRegisters, WorkerBeats,
                  GoesSilent, BeatArrives, BeatRefused, SignalLost, Reconciles,
                  ReconcileListed, ReconcileReturns, ReconcileFails, vars
    <2>2. CallsKept /\ StagesKept
      BY <2>1 DEF CallsKept, StagesKept
    <2>. QED
      BY <2>1, <2>2, ShrinkSound
  <1>3. ASSUME NEW w \in Workers, NEW id \in Sandboxes, WorkerEvicts(w, id)
        PROVE  RequestsSound'
    <2>1. CallsKept /\ StagesKept
      BY <1>3 DEF WorkerEvicts, CallsKept, StagesKept
    <2>2. \A v \in Workers : hosted'[v] \subseteq hosted[v]
      BY <1>3 DEF WorkerEvicts, IndInv, TypeOK
    <2>. QED
      BY <1>3, <2>1, <2>2, ShrinkSound DEF WorkerEvicts
  <1>4. ASSUME NEW ws, calls' = Orphaned(ws),
               UNCHANGED <<known, strays, hosted>>
        PROVE  RequestsSound'
    BY <1>4, OrphanedKeeps, OrphanedStages, ShrinkSound DEF IndInv
  <1>5. ASSUME NEW m \in signals, RegisterArrives(m)
        PROVE  RequestsSound'
    BY <1>4, <1>5 DEF RegisterArrives
  <1>6. CASE EvictStale
    BY <1>4, <1>6 DEF EvictStale
  <1>7. ASSUME NEW c \in Calls, WorkerExecutes(c)
        PROVE  RequestsSound'
    <2>1. /\ calls[c] # Idle /\ calls[c].stage = "sent"
          /\ calls[c].op = "execute"
          /\ Settle(c, "ok") \/ Settle(c, "gone")
      BY <1>7 DEF WorkerExecutes, Requested, Idle
    <2>2. /\ CallsKept /\ ErrorsKept
          /\ calls'[c].op = "execute"
          /\ \A d \in Calls \ {c} : calls'[d] = calls[d]
      BY <2>1, SettleServed, CallFields DEF IndInv, TypeOK, CallType
    <2>3. \A d \in Calls : DestroySound(d)'
      BY <1>7, <2>2
      DEF WorkerExecutes, DestroySound, Settled, IndInv, RequestsSound
    <2>. QED
      BY <1>7, <2>2, <2>3, SoundFrom DEF WorkerExecutes
  <1>8. ASSUME NEW w \in Workers, WorkerRestarts(w)
        PROVE  RequestsSound'
    <2>1. CallsKept /\ StagesKept
      BY <1>8, RestartKeeps, RestartStages DEF IndInv
    <2>2. \A v \in Workers : hosted'[v] \subseteq hosted[v]
      BY <1>8 DEF WorkerRestarts, IndInv, TypeOK
    <2>. QED
      BY <1>8, <2>1, <2>2, ShrinkSound DEF WorkerRestarts
  <1>. QED
    BY <1>1, <1>2, <1>3, <1>5, <1>6, <1>7, <1>8, CreateBeginsSound,
       CreateReturnsSound, UseBeginsSound, WorkerCreatesSound,
       WorkerDestroysSound, StrayArrivesSound, FetchFailsSound,
       ControlPlaneRestartsSound
    DEF Next, Requests, Serves, Returns, Arrives, Reconciles, Faults

\* What becomes known has been requested.
LEMMA KnownStep == IndInv /\ [Next]_vars => KnownIssued'
  <1>. SUFFICES ASSUME IndInv, [Next]_vars
                PROVE  known' \subseteq issued'
    BY DEF KnownIssued
  <1>1. issued \subseteq issued' /\ known \subseteq issued
    BY IssuedStep DEF IndInv, KnownIssued
  <1>2. ASSUME NEW c \in Calls, CreateReturns(c)
        PROVE  known' \subseteq issued'
    <2>1. calls[c] # Idle
      BY <1>2 DEF CreateReturns, Settled, Idle
    <2>2. calls[c].id \in Sandboxes
      BY <2>1, CallFields DEF IndInv, TypeOK
    <2>3. calls[c].id \in issued
      BY <2>1, <2>2, IssuedIds
    <2>. QED
      BY <1>1, <1>2, <2>3 DEF CreateReturns
  <1>3. CASE ~ \E c \in Calls : CreateReturns(c)
    <2>1. known' \subseteq known
      BY <1>3
      DEF Next, Requests, CreateBegins, UseBegins, EvictUnrouted, Ages, Serves,
          WorkerCreates, WorkerExecutes, WorkerDestroys, Returns, CreateFails,
          ExecuteReturns, DestroyReturns, DestroyFails, StrayArrives,
          WorkerEvicts, Signals, WorkerRegisters, WorkerBeats, Arrives,
          RegisterArrives, BeatArrives, BeatRefused, EvictStale, Reconciles,
          ReconcileListed, ReconcileReturns, Faults, FetchFails, SignalLost,
          ReconcileFails, GoesSilent, WorkerRestarts, ControlPlaneRestarts,
          vars, controlPlane
    <2>. QED
      BY <1>1, <2>1
  <1>. QED
    BY <1>2, <1>3

LEMMA IndInit == Init => IndInv
  <1>. SUFFICES ASSUME Init
                PROVE  IndInv
    OBVIOUS
  <1>1. TypeOK /\ OneHome
    BY TypeInit, OneHomeInit
  <1>2. KnownIssued /\ RequestsSound
    BY DEF Init, KnownIssued, RequestsSound, CreateSound, UseSound,
           DestroySound, Settled, Idle
  <1>. QED
    BY <1>1, <1>2 DEF IndInv

LEMMA IndStep == IndInv /\ [Next]_vars => IndInv'
  BY TypeStep, OneHomeStep, KnownStep, SoundStep DEF IndInv

\* A create in flight is the only one of its sandbox and nobody knows it yet;
\* a late create is of no sandbox that is known or in use; and a destroy that
\* was answered has left its sandbox nowhere.
THEOREM RequestsSoundCorrect == Spec => []RequestsSound
  <1>1. IndInv => RequestsSound
    BY DEF IndInv
  <1>. QED
    BY IndInit, IndStep, <1>1, PTL DEF Spec

\* Where a route leads, nothing but the loss of the worker takes it away as
\* long as the sandbox runs there.
THEOREM RouteKept == Spec => RouteKeptWhileHosted
  <1>. DEFINE Kept == \A id \in Sandboxes, w \in Workers :
         owner[id] = w /\ id \in hosted[w] /\ w \in registered'
             => owner'[id] = w
  <1>1. IndInv /\ [Next]_vars => [Kept]_vars
    <2>. SUFFICES ASSUME IndInv, Next, NEW id \in Sandboxes, NEW w \in Workers,
                         owner[id] = w, id \in hosted[w], w \in registered'
                  PROVE  owner'[id] = w
      OBVIOUS
    <2>. USE DEF controlPlane, fleet, network
    <2>1. Named(w, id)
      BY DEF Named
    <2>2. \A v \in Workers : Named(v, id) => v = w
      BY <2>1 DEF IndInv, OneHome
    <2>3. ASSUME NEW c \in Calls, CreateReturns(c)
          PROVE  owner'[id] = w
      <3>1. calls[c] # Idle
        BY <2>3 DEF CreateReturns, Settled, Idle
      <3>2. calls[c].w \in Workers /\ (calls[c].id = id => calls[c].w = w)
        BY <3>1, <2>2, CallFields DEF Named, InCall, IndInv, TypeOK
      <3>. QED
        BY <2>3, <3>2 DEF CreateReturns, IndInv, TypeOK
    <2>4. ASSUME NEW c \in Calls, DestroyReturns(c)
          PROVE  owner'[id] = w
      <3>1. calls[c].id # id
        BY <2>4 DEF DestroyReturns, DestroySound, IndInv, RequestsSound
      <3>. QED
        BY <2>4, <3>1 DEF DestroyReturns, Unroute, IndInv, TypeOK
    <2>5. CASE EvictStale
      BY <2>5 DEF EvictStale, IndInv, TypeOK
    <2>6. ASSUME NEW r \in reconciles, ReconcileReturns(r)
          PROVE  owner'[id] = w
      <3>1. r.w \in Workers /\ (id \in r.list => r.w = w)
        BY <2>2 DEF Named, InListing, IndInv, TypeOK, ReconcileType
      <3>. QED
        BY <2>6, <3>1 DEF ReconcileReturns, IndInv, TypeOK
    <2>7. CASE ControlPlaneRestarts
      BY <2>7 DEF ControlPlaneRestarts
    <2>8. CASE UNCHANGED owner
      BY <2>8
    <2>9. \/ UNCHANGED owner
          \/ \E c \in Calls : CreateReturns(c) \/ DestroyReturns(c)
          \/ \E r \in reconciles : ReconcileReturns(r)
          \/ EvictStale \/ ControlPlaneRestarts
      BY DEF Next, Requests, CreateBegins, UseBegins, EvictUnrouted, Ages,
             Serves, WorkerCreates, WorkerExecutes, WorkerDestroys, Returns,
             CreateFails, ExecuteReturns, DestroyFails, StrayArrives,
             WorkerEvicts, Signals, WorkerRegisters, WorkerBeats, Arrives,
             RegisterArrives, BeatArrives, BeatRefused, Reconciles,
             ReconcileListed, Faults, FetchFails, SignalLost, ReconcileFails,
             GoesSilent, WorkerRestarts
    <2>. QED
      BY <2>3, <2>4, <2>5, <2>6, <2>7, <2>8, <2>9
  <1>. QED
    BY IndInit, IndStep, <1>1, PTL DEF Spec, RouteKeptWhileHosted
-----------------------------------------------------------------------------
(* Control plane and workers agree as long as nothing outside has failed *)

\* Nothing is late, no worker is silent, and whom a listing was asked of is
\* registered.
Reached ==
    /\ strays = {}
    /\ \A w \in registered : ~entry[w].stale
    /\ \A r \in reconciles : r.w \in registered

\* A call in flight goes to a registered worker; its create has been carried
\* out exactly if the worker says so, and no destroy has failed.
CallAtPeace(c) ==
    /\ calls[c] # Idle => calls[c].w \in registered
    /\ calls[c].op = "create" /\ calls[c].stage # "ok" =>
          \A w \in Workers : calls[c].id \notin hosted[w]
    /\ calls[c].op = "create" /\ calls[c].stage = "ok" /\ calls[c].id \in recent =>
          calls[c].id \in hosted[calls[c].w]
    /\ calls[c].op \in {"destroy", "evict"} => calls[c].stage # "error"

\* The route of a known sandbox leads to where it runs, even if it has aged.
RouteFollows == \A id \in known, w \in Workers :
    id \in hosted[w] => owner[id] = w /\ w \in registered

\* The two halves of FleetAgrees.
Usable == \A id \in known \cap recent :
    BeingDestroyed(id) \/ (Routed(id) /\ id \in hosted[owner[id]])

Accounted == \A w \in Workers : \A id \in hosted[w] :
    id \in known \/ BeingCreated(id)

Peace ==
    /\ Reached
    /\ \A c \in Calls : CallAtPeace(c)
    /\ RouteFollows /\ Usable /\ Accounted

PeaceInv == faults = 0 => Peace

\* Where calls keep what they are about, and workers and routes stay, nothing
\* is disturbed.
LEMMA PeaceKept ==
    ASSUME Peace, Reached', UNCHANGED <<known, owner, hosted>>,
           recent' \subseteq recent, registered \subseteq registered',
           \A c \in Calls :
              /\ calls'[c].op = calls[c].op
              /\ calls'[c] # Idle => calls[c] # Idle
              /\ calls[c] # Idle => /\ calls'[c].id = calls[c].id
                                    /\ calls'[c].w = calls[c].w
                                    /\ calls'[c].stage = calls[c].stage
    PROVE  Peace'
  <1>1. \A c \in Calls : calls[c].op # "idle" => calls[c] # Idle
    BY DEF Idle
  <1>2. ASSUME NEW c \in Calls PROVE CallAtPeace(c)'
    <2>1. CallAtPeace(c)
      BY DEF Peace
    <2>2. calls'[c].op # "idle" =>
              calls'[c].id = calls[c].id /\ calls'[c].w = calls[c].w
                  /\ calls'[c].stage = calls[c].stage
      BY <1>1
    <2>. QED
      BY <2>1, <2>2 DEF CallAtPeace
  <1>3. \A id : BeingDestroyed(id) => BeingDestroyed(id)'
    BY <1>1 DEF BeingDestroyed, Active
  <1>4. \A id : BeingCreated(id) => BeingCreated(id)'
    BY <1>1 DEF BeingCreated, Active
  <1>5. RouteFollows' /\ Usable' /\ Accounted'
    BY <1>3, <1>4 DEF Peace, RouteFollows, Usable, Accounted, Routed
  <1>. QED
    BY <1>2, <1>5 DEF Peace

\* A call whose stage alone changes goes on with what it was about.
LEMMA SettledKeepsSubject ==
    ASSUME TypeOK, NEW c \in Calls, calls[c] # Idle, NEW stage,
           calls'[c] = [calls[c] EXCEPT !.stage = stage],
           \A d \in Calls \ {c} : calls'[d] = calls[d]
    PROVE  /\ calls'[c].op = calls[c].op /\ calls'[c].id = calls[c].id
           /\ calls'[c].w = calls[c].w /\ calls'[c].stage = stage
           /\ calls'[c] # Idle
           /\ \A x : BeingDestroyed(x) => BeingDestroyed(x)'
           /\ \A x : BeingCreated(x) => BeingCreated(x)'
  <1>1. calls[c] \in CallType
    BY DEF TypeOK
  <1>2. /\ calls'[c].op = calls[c].op /\ calls'[c].id = calls[c].id
        /\ calls'[c].w = calls[c].w /\ calls'[c].stage = stage
    BY <1>1 DEF CallType
  <1>3. calls'[c] # Idle
    BY <1>1, <1>2 DEF CallType, Idle
  <1>4. \A d \in Calls : calls'[d].op = calls[d].op /\ calls'[d].id = calls[d].id
    BY <1>2
  <1>5. \A x : BeingDestroyed(x) => BeingDestroyed(x)'
    BY <1>4 DEF BeingDestroyed, Active
  <1>6. \A x : BeingCreated(x) => BeingCreated(x)'
    BY <1>4 DEF BeingCreated, Active
  <1>. QED
    BY <1>2, <1>3, <1>5, <1>6

LEMMA CreateBeginsPeace ==
    ASSUME IndInv, Peace, NEW c \in Calls, NEW id \in Sandboxes, CreateBegins(c, id)
    PROVE  Peace'
  <1>. USE DEF fleet, network
  <1>1. PICK w \in Workers : w \in registered /\ Send(c, "create", id, w)
    BY DEF CreateBegins, Picked
  <1>2. /\ calls'[c] = [op |-> "create", id |-> id, w |-> w, stage |-> "sent", current |-> TRUE]
        /\ \A d \in Calls \ {c} : calls'[d] = calls[d]
    BY <1>1 DEF Send, IndInv, TypeOK
  <1>3. /\ id \notin issued /\ calls[c] = Idle
        /\ UNCHANGED <<known, registered, entry, owner, reconciles, hosted, recent, strays>>
    BY DEF CreateBegins
  <1>4. \A v \in Workers : id \notin hosted[v]
    BY <1>3 DEF IndInv, OneHome, Named
  <1>5. Reached'
    BY <1>3 DEF Peace, Reached
  <1>6. ASSUME NEW d \in Calls PROVE CallAtPeace(d)'
    <2>1. CASE d = c
      BY <1>1, <1>2, <1>3, <1>4, <2>1 DEF CallAtPeace
    <2>2. CASE d # c
      BY <1>2, <1>3, <2>2 DEF Peace, CallAtPeace
    <2>. QED
      BY <2>1, <2>2
  <1>7. \A x : BeingDestroyed(x) => BeingDestroyed(x)'
    BY <1>2, <1>3 DEF BeingDestroyed, Active, Idle
  <1>8. \A x : BeingCreated(x) => BeingCreated(x)'
    BY <1>2, <1>3 DEF BeingCreated, Active, Idle
  <1>9. RouteFollows' /\ Usable' /\ Accounted'
    BY <1>3, <1>7, <1>8 DEF Peace, RouteFollows, Usable, Accounted, Routed
  <1>. QED
    BY <1>5, <1>6, <1>9 DEF Peace

LEMMA CreateReturnsPeace ==
    ASSUME IndInv, Peace, NEW c \in Calls, CreateReturns(c)
    PROVE  Peace'
  <1>. USE DEF fleet, network
  <1>. DEFINE id == calls[c].id
              w == calls[c].w
  <1>1. /\ calls[c].op = "create" /\ calls[c].stage = "ok" /\ calls[c] # Idle
        /\ id \in Sandboxes /\ w \in Workers /\ w \in registered
        /\ id \in recent => id \in hosted[w]
    BY CallFields DEF CreateReturns, Settled, Idle, Peace, CallAtPeace, IndInv, TypeOK
  <1>2. /\ calls'[c] = Idle
        /\ \A d \in Calls \ {c} : calls'[d] = calls[d]
    BY DEF CreateReturns, Return, IndInv, TypeOK
  <1>3. /\ owner' = [owner EXCEPT ![id] = w] /\ known' = known \cup {id}
        /\ UNCHANGED <<registered, reconciles, hosted, recent, strays>>
    BY DEF CreateReturns
  <1>4. owner'[id] = w /\ \A x \in Sandboxes : x # id => owner'[x] = owner[x]
    BY <1>1, <1>3 DEF IndInv, TypeOK
  <1>5. \A v \in Workers : id \in hosted[v] => v = w
    <2>1. Named(w, id)
      BY <1>1 DEF Named, InCall
    <2>. QED
      BY <1>1, <2>1 DEF IndInv, OneHome, Named
  <1>6. Reached'
    <2>1. \A v \in Workers : entry'[v].stale = entry[v].stale
      BY DEF CreateReturns, Recount, IndInv, TypeOK, EntryType
    <2>. QED
      BY <1>3, <2>1 DEF Peace, Reached, IndInv, TypeOK
  <1>7. ASSUME NEW d \in Calls PROVE CallAtPeace(d)'
    <2>1. CASE d = c
      BY <1>2, <2>1 DEF CallAtPeace, Idle
    <2>2. CASE d # c
      BY <1>2, <1>3, <2>2 DEF Peace, CallAtPeace
    <2>. QED
      BY <2>1, <2>2
  <1>8. \A x : BeingDestroyed(x) => BeingDestroyed(x)'
    BY <1>1, <1>2 DEF BeingDestroyed, Active
  <1>9. \A x : x # id /\ BeingCreated(x) => BeingCreated(x)'
    BY <1>1, <1>2 DEF BeingCreated, Active
  <1>10. known \subseteq Sandboxes
    BY DEF IndInv, TypeOK
  <1>11. RouteFollows'
    BY <1>1, <1>3, <1>4, <1>5, <1>10 DEF Peace, RouteFollows
  <1>12. Usable'
    BY <1>1, <1>3, <1>4, <1>8, <1>10 DEF Peace, Usable, Routed
  <1>13. Accounted'
    BY <1>3, <1>9 DEF Peace, Accounted
  <1>. QED
    BY <1>6, <1>7, <1>11, <1>12, <1>13 DEF Peace

\* A call that changes nothing when it returns; in peace a failed create has
\* left nothing behind.
LEMMA ReturnsPeace ==
    ASSUME IndInv, Peace, NEW c \in Calls, CreateFails(c) \/ ExecuteReturns(c)
    PROVE  Peace'
  <1>. USE DEF fleet, network
  <1>1. /\ calls'[c] = Idle
        /\ \A d \in Calls \ {c} : calls'[d] = calls[d]
    BY DEF CreateFails, ExecuteReturns, Return, IndInv, TypeOK
  <1>2. UNCHANGED <<known, registered, entry, owner, reconciles, hosted, recent, strays>>
    BY DEF CreateFails, ExecuteReturns
  <1>3. /\ calls[c].op \in {"create", "execute"}
        /\ calls[c].op = "create" => \A w \in Workers : calls[c].id \notin hosted[w]
    BY DEF CreateFails, ExecuteReturns, Settled, Peace, CallAtPeace
  <1>4. ASSUME NEW d \in Calls PROVE CallAtPeace(d)'
    <2>1. CASE d = c
      BY <1>1, <2>1 DEF CallAtPeace, Idle
    <2>2. CASE d # c
      BY <1>1, <1>2, <2>2 DEF Peace, CallAtPeace
    <2>. QED
      BY <2>1, <2>2
  <1>5. \A x : BeingDestroyed(x) => BeingDestroyed(x)'
    BY <1>1, <1>3 DEF BeingDestroyed, Active
  <1>6. \A x : x # calls[c].id /\ BeingCreated(x) => BeingCreated(x)'
    BY <1>1 DEF BeingCreated, Active
  <1>7. calls[c].op = "execute" => \A x : BeingCreated(x) => BeingCreated(x)'
    BY <1>1 DEF BeingCreated, Active
  <1>8. Accounted'
    BY <1>2, <1>3, <1>6, <1>7 DEF Peace, Accounted
  <1>9. Reached' /\ RouteFollows' /\ Usable'
    BY <1>2, <1>5 DEF Peace, Reached, RouteFollows, Usable, Routed
  <1>. QED
    BY <1>4, <1>8, <1>9 DEF Peace

LEMMA UseBeginsPeace ==
    ASSUME IndInv, Peace, NEW c \in Calls, NEW id \in Sandboxes,
           NEW op \in {"execute", "destroy", "evict"}, UseBegins(c, op, id)
    PROVE  Peace'
  <1>. USE DEF fleet, network
  <1>1. /\ calls'[c] = [op |-> op, id |-> id, w |-> owner[id], stage |-> "sent", current |-> TRUE]
        /\ \A d \in Calls \ {c} : calls'[d] = calls[d]
    BY DEF UseBegins, Send, IndInv, TypeOK
  <1>2. /\ calls[c] = Idle /\ owner[id] \in registered
        /\ UNCHANGED <<known, registered, entry, owner, reconciles, hosted, recent, strays>>
    BY DEF UseBegins, Routed
  <1>3. ASSUME NEW d \in Calls PROVE CallAtPeace(d)'
    <2>1. CASE d = c
      BY <1>1, <1>2, <2>1 DEF CallAtPeace
    <2>2. CASE d # c
      BY <1>1, <1>2, <2>2 DEF Peace, CallAtPeace
    <2>. QED
      BY <2>1, <2>2
  <1>4. \A x : BeingDestroyed(x) => BeingDestroyed(x)'
    BY <1>1, <1>2 DEF BeingDestroyed, Active, Idle
  <1>5. \A x : BeingCreated(x) => BeingCreated(x)'
    BY <1>1, <1>2 DEF BeingCreated, Active, Idle
  <1>6. Reached' /\ RouteFollows' /\ Usable' /\ Accounted'
    BY <1>2, <1>4, <1>5 DEF Peace, Reached, RouteFollows, Usable, Accounted, Routed
  <1>. QED
    BY <1>3, <1>6 DEF Peace

\* What is destroyed runs nowhere, so forgetting it and its route hurts nobody.
LEMMA DestroyReturnsPeace ==
    ASSUME IndInv, Peace, NEW c \in Calls, DestroyReturns(c)
    PROVE  Peace'
  <1>. USE DEF fleet, network
  <1>. DEFINE id == calls[c].id
  <1>1. /\ calls[c].op \in {"destroy", "evict"} /\ calls[c] # Idle
        /\ \A w \in Workers : id \notin hosted[w]
    BY DEF DestroyReturns, DestroySound, Settled, Idle, IndInv, RequestsSound
  <1>2. /\ calls'[c] = Idle
        /\ \A d \in Calls \ {c} : calls'[d] = calls[d]
    BY DEF DestroyReturns, Return, IndInv, TypeOK
  <1>3. /\ owner' = [owner EXCEPT ![id] = NoWorker] /\ known' = known \ {id}
        /\ UNCHANGED <<registered, reconciles, hosted, recent, strays>>
    BY DEF DestroyReturns, Unroute
  <1>4. \A x \in Sandboxes : x # id => owner'[x] = owner[x]
    BY <1>3 DEF IndInv, TypeOK
  <1>5. Reached'
    <2>1. \A v \in Workers : entry'[v].stale = entry[v].stale
      BY DEF DestroyReturns, Unroute, Recount, IndInv, TypeOK, EntryType
    <2>. QED
      BY <1>3, <2>1 DEF Peace, Reached, IndInv, TypeOK
  <1>6. ASSUME NEW d \in Calls PROVE CallAtPeace(d)'
    <2>1. CASE d = c
      BY <1>2, <2>1 DEF CallAtPeace, Idle
    <2>2. CASE d # c
      BY <1>2, <1>3, <2>2 DEF Peace, CallAtPeace
    <2>. QED
      BY <2>1, <2>2
  <1>7. \A x : x # id /\ BeingDestroyed(x) => BeingDestroyed(x)'
    BY <1>2 DEF BeingDestroyed, Active
  <1>8. \A x : BeingCreated(x) => BeingCreated(x)'
    BY <1>1, <1>2 DEF BeingCreated, Active
  <1>9. known \subseteq Sandboxes
    BY DEF IndInv, TypeOK
  <1>10. RouteFollows' /\ Usable'
    BY <1>3, <1>4, <1>7, <1>9 DEF Peace, RouteFollows, Usable, Routed
  <1>11. Accounted'
    BY <1>1, <1>3, <1>8 DEF Peace, Accounted
  <1>. QED
    BY <1>5, <1>6, <1>10, <1>11 DEF Peace

\* A sandbox without a route does not run.
LEMMA EvictUnroutedPeace ==
    ASSUME IndInv, Peace, NEW id \in Sandboxes, EvictUnrouted(id)
    PROVE  Peace'
  <1>. USE DEF fleet, network
  <1>1. /\ id \in known /\ ~Routed(id) /\ known' = known \ {id}
        /\ UNCHANGED <<registered, entry, owner, calls, reconciles, hosted, recent, strays>>
    BY DEF EvictUnrouted
  <1>2. \A w \in Workers : id \notin hosted[w]
    BY <1>1 DEF Peace, RouteFollows, Routed
  <1>3. \A c \in Calls : CallAtPeace(c)'
    BY <1>1 DEF Peace, CallAtPeace
  <1>4. Reached' /\ RouteFollows' /\ Usable' /\ Accounted'
    BY <1>1, <1>2
    DEF Peace, Reached, RouteFollows, Usable, Accounted, Routed, BeingDestroyed,
        BeingCreated, Active
  <1>. QED
    BY <1>3, <1>4 DEF Peace

LEMMA WorkerCreatesPeace ==
    ASSUME IndInv, Peace, NEW c \in Calls, WorkerCreates(c)
    PROVE  Peace'
  <1>. USE DEF fleet, network
  <1>. DEFINE id == calls[c].id
              w == calls[c].w
  <1>1. /\ calls[c].op = "create" /\ calls[c].stage = "sent" /\ calls[c] # Idle
        /\ id \in Sandboxes /\ w \in Workers /\ w \in registered
        /\ \A v \in Workers : id \notin hosted[v]
        /\ UNCHANGED <<known, registered, entry, owner, reconciles, strays>>
    BY CallFields DEF WorkerCreates, Requested, Idle, Peace, CallAtPeace, IndInv, TypeOK
  <1>2. /\ id \notin known
        /\ \A d \in Calls : calls[d].op # "idle" /\ d # c => calls[d].id # id
    <2>1. CreateSound(c)
      BY DEF IndInv, RequestsSound
    <2>2. ASSUME NEW d \in Calls, calls[d].op # "idle", d # c, calls[d].id = id
          PROVE  FALSE
      <3>1. calls[d] # Idle
        BY <2>2 DEF Idle
      <3>2. calls[d].op \in {"create", "execute", "destroy", "evict"}
        BY <3>1 DEF IndInv, TypeOK, CallType
      <3>3. UseSound(d)
        BY DEF IndInv, RequestsSound
      <3>. QED
        BY <1>1, <2>1, <2>2, <3>2, <3>3
        DEF UseSound, NotComing, BeingCreated, Active, CreateSound
    <2>. QED
      BY <1>1, <2>1, <2>2 DEF CreateSound
  <1>3. Reached'
    BY <1>1 DEF Peace, Reached
  <1>4. CASE Full(w) /\ Settle(c, "error") /\ UNCHANGED <<hosted, recent>>
    <2>1. /\ calls'[c] = [calls[c] EXCEPT !.stage = "error"]
          /\ \A d \in Calls \ {c} : calls'[d] = calls[d]
      BY <1>1, <1>4, SettleServed DEF IndInv
    <2>2. calls'[c].op = "create" /\ calls'[c].id = id /\ calls'[c].w = w
          /\ calls'[c].stage = "error"
      BY <1>1, <2>1, SettledKeepsSubject DEF IndInv
    <2>3. \A d \in Calls : CallAtPeace(d)'
      BY <1>1, <1>4, <2>1, <2>2 DEF Peace, CallAtPeace
    <2>4. \A x : /\ BeingDestroyed(x) => BeingDestroyed(x)'
                 /\ BeingCreated(x) => BeingCreated(x)'
      BY <1>1, <2>1, SettledKeepsSubject DEF IndInv
    <2>5. RouteFollows' /\ Usable' /\ Accounted'
      BY <1>1, <1>4, <2>4 DEF Peace, RouteFollows, Usable, Accounted, Routed
    <2>. QED
      BY <1>3, <2>3, <2>5 DEF Peace
  <1>5. CASE /\ Settle(c, "ok")
             /\ hosted' = [hosted EXCEPT ![w] = @ \cup {id}]
             /\ recent' = recent \cup {id}
    <2>1. /\ calls'[c] = [calls[c] EXCEPT !.stage = "ok"]
          /\ \A d \in Calls \ {c} : calls'[d] = calls[d]
      BY <1>1, <1>5, SettleServed DEF IndInv
    <2>2. calls'[c].op = "create" /\ calls'[c].id = id /\ calls'[c].w = w
          /\ calls'[c].stage = "ok"
      BY <1>1, <2>1, SettledKeepsSubject DEF IndInv
    <2>3. /\ id \in hosted'[w]
          /\ \A v \in Workers : \A x : x # id => (x \in hosted'[v] <=> x \in hosted[v])
          /\ \A x : x # id => (x \in recent' <=> x \in recent)
      BY <1>1, <1>5 DEF IndInv, TypeOK
    <2>4. ASSUME NEW d \in Calls PROVE CallAtPeace(d)'
      <3>1. CASE d = c
        BY <1>1, <2>2, <2>3, <3>1 DEF CallAtPeace
      <3>2. CASE d # c
        BY <1>1, <1>2, <2>1, <2>3, <3>2, CallFields
        DEF Peace, CallAtPeace, IndInv, TypeOK, Idle
      <3>. QED
        BY <3>1, <3>2
    <2>5. \A x : /\ BeingDestroyed(x) => BeingDestroyed(x)'
                 /\ BeingCreated(x) => BeingCreated(x)'
      BY <1>1, <2>1, SettledKeepsSubject DEF IndInv
    <2>6. BeingCreated(id)'
      BY <2>2 DEF BeingCreated, Active
    <2>7. RouteFollows'
      BY <1>1, <1>2, <2>3 DEF Peace, RouteFollows
    <2>8. Usable'
      BY <1>1, <1>2, <2>3, <2>5 DEF Peace, Usable, Routed, IndInv, TypeOK, RouteFollows
    <2>9. Accounted'
      <3>. SUFFICES ASSUME NEW v \in Workers, NEW x \in hosted'[v], x # id
                    PROVE  x \in known' \/ BeingCreated(x)'
        BY <2>2, <2>6 DEF Accounted
      <3>1. x \in hosted[v]
        BY <2>3
      <3>. QED
        BY <1>1, <2>5, <3>1 DEF Peace, Accounted
    <2>. QED
      BY <1>3, <2>4, <2>7, <2>8, <2>9 DEF Peace
  <1>. QED
    BY <1>4, <1>5 DEF WorkerCreates

\* A sandbox that was used runs.
LEMMA WorkerExecutesPeace ==
    ASSUME IndInv, Peace, NEW c \in Calls, WorkerExecutes(c)
    PROVE  Peace'
  <1>. USE DEF fleet, network
  <1>. DEFINE id == calls[c].id
              w == calls[c].w
  <1>1. /\ calls[c].op = "execute" /\ calls[c].stage = "sent" /\ calls[c] # Idle
        /\ id \in Sandboxes /\ w \in Workers
        /\ UNCHANGED <<known, registered, entry, owner, reconciles, hosted, strays>>
        /\ recent' = recent \/ (recent' = recent \cup {id} /\ id \in hosted[w])
        /\ Settle(c, "ok") \/ Settle(c, "gone")
    BY CallFields DEF WorkerExecutes, Requested, Idle, IndInv, TypeOK
  <1>2. PICK stage : Settle(c, stage) /\ stage \in {"ok", "gone"}
    BY <1>1
  <1>3. /\ calls'[c] = [calls[c] EXCEPT !.stage = stage]
        /\ \A d \in Calls \ {c} : calls'[d] = calls[d]
    BY <1>1, <1>2, SettleServed DEF IndInv
  <1>4. calls'[c].op = "execute" /\ calls'[c].w = w /\ calls'[c] # Idle
    BY <1>1, <1>3, SettledKeepsSubject DEF IndInv
  <1>5. ~BeingCreated(id)
    BY <1>1 DEF IndInv, RequestsSound, UseSound, NotComing
  <1>6. ASSUME NEW d \in Calls PROVE CallAtPeace(d)'
    <2>1. CASE d = c
      BY <1>1, <1>4, <2>1 DEF Peace, CallAtPeace
    <2>2. CASE d # c
      BY <1>1, <1>3, <1>5, <2>2 DEF Peace, CallAtPeace, BeingCreated, Active
    <2>. QED
      BY <2>1, <2>2
  <1>7. \A x : /\ BeingDestroyed(x) => BeingDestroyed(x)'
               /\ BeingCreated(x) => BeingCreated(x)'
    BY <1>1, <1>3, SettledKeepsSubject DEF IndInv
  <1>8. Reached' /\ RouteFollows' /\ Accounted'
    BY <1>1, <1>7 DEF Peace, Reached, RouteFollows, Accounted
  <1>9. Usable'
    BY <1>1, <1>7 DEF Peace, Usable, RouteFollows, Routed
  <1>. QED
    BY <1>6, <1>8, <1>9 DEF Peace

\* What a worker destroys is being destroyed, or was not there.
LEMMA WorkerDestroysPeace ==
    ASSUME IndInv, Peace, NEW c \in Calls, WorkerDestroys(c)
    PROVE  Peace'
  <1>. USE DEF fleet, network
  <1>. DEFINE id == calls[c].id
              w == calls[c].w
              stage == IF id \in hosted[w] THEN "ok" ELSE "gone"
  <1>1. /\ calls[c].op \in {"destroy", "evict"} /\ calls[c].stage = "sent" /\ calls[c] # Idle
        /\ id \in Sandboxes /\ w \in Workers
        /\ UNCHANGED <<known, registered, entry, owner, reconciles, recent, strays>>
        /\ hosted' = [hosted EXCEPT ![w] = @ \ {id}]
        /\ Settle(c, stage) /\ stage \in {"ok", "gone"}
    BY CallFields DEF WorkerDestroys, Requested, Idle, IndInv, TypeOK
  <1>2. /\ calls'[c] = [calls[c] EXCEPT !.stage = stage]
        /\ \A d \in Calls \ {c} : calls'[d] = calls[d]
    BY <1>1, SettleServed DEF IndInv
  <1>3. calls'[c].op = calls[c].op /\ calls'[c].id = id /\ calls'[c].w = w
        /\ calls'[c].stage # "error" /\ calls'[c] # Idle
    BY <1>1, <1>2 DEF IndInv, TypeOK, CallType, Idle
  <1>4. \A v \in Workers : \A x : /\ x \in hosted'[v] => x \in hosted[v]
                                  /\ x # id => (x \in hosted[v] => x \in hosted'[v])
    BY <1>1 DEF IndInv, TypeOK
  <1>5. ~BeingCreated(id)
    BY <1>1 DEF IndInv, RequestsSound, UseSound, NotComing
  <1>6. ASSUME NEW d \in Calls PROVE CallAtPeace(d)'
    <2>1. CASE d = c
      BY <1>1, <1>3, <2>1 DEF Peace, CallAtPeace
    <2>2. CASE d # c
      <3>1. calls[d].op = "create" => calls[d].id # id
        BY <1>5 DEF BeingCreated, Active
      <3>2. calls[d].op # "idle" => calls[d].w \in Workers
        BY CallFields DEF IndInv, TypeOK
      <3>. QED
        BY <1>1, <1>2, <1>4, <2>2, <3>1, <3>2 DEF Peace, CallAtPeace
    <2>. QED
      BY <2>1, <2>2
  <1>7. \A x : /\ BeingDestroyed(x) => BeingDestroyed(x)'
               /\ BeingCreated(x) => BeingCreated(x)'
               /\ BeingDestroyed(id)'
    BY <1>1, <1>2, <1>3 DEF BeingDestroyed, BeingCreated, Active
  <1>8. Reached' /\ RouteFollows' /\ Accounted'
    BY <1>1, <1>4, <1>7 DEF Peace, Reached, RouteFollows, Accounted
  <1>9. Usable'
    <2>. SUFFICES ASSUME NEW x \in known \cap recent, ~BeingDestroyed(x), x # id
                  PROVE  Routed(x)' /\ x \in hosted'[owner'[x]]
      BY <1>1, <1>3, <1>7 DEF Usable
    <2>1. owner[x] \in registered /\ x \in hosted[owner[x]]
      BY DEF Peace, Usable, Routed
    <2>2. owner[x] \in Workers
      BY <2>1 DEF IndInv, TypeOK
    <2>. QED
      BY <1>1, <1>4, <2>1, <2>2 DEF Routed
  <1>. QED
    BY <1>6, <1>8, <1>9 DEF Peace

\* A worker's timer ends only what has aged.
LEMMA WorkerEvictsPeace ==
    ASSUME IndInv, Peace, NEW w \in Workers, NEW id \in Sandboxes, WorkerEvicts(w, id)
    PROVE  Peace'
  <1>. USE DEF controlPlane, network
  <1>1. /\ id \notin recent
        /\ UNCHANGED <<known, registered, entry, owner, calls, reconciles, recent, strays>>
        /\ \A v \in Workers : \A x : /\ x \in hosted'[v] => x \in hosted[v]
                                     /\ x # id => (x \in hosted[v] => x \in hosted'[v])
    BY DEF WorkerEvicts, IndInv, TypeOK
  <1>2. ASSUME NEW c \in Calls PROVE CallAtPeace(c)'
    <2>1. calls[c].op # "idle" => calls[c].w \in Workers
      BY CallFields DEF IndInv, TypeOK
    <2>. QED
      BY <1>1, <2>1 DEF Peace, CallAtPeace
  <1>3. \A x : /\ BeingDestroyed(x) => BeingDestroyed(x)'
               /\ BeingCreated(x) => BeingCreated(x)'
    BY <1>1 DEF BeingDestroyed, BeingCreated, Active
  <1>4. Reached' /\ RouteFollows' /\ Accounted'
    BY <1>1, <1>3 DEF Peace, Reached, RouteFollows, Accounted
  <1>5. Usable'
    BY <1>1, <1>3 DEF Peace, Usable, Routed, IndInv, TypeOK
  <1>. QED
    BY <1>2, <1>4, <1>5 DEF Peace

\* A listing names the home of what runs.
LEMMA ReconcileReturnsPeace ==
    ASSUME IndInv, Peace, NEW r \in reconciles, ReconcileReturns(r)
    PROVE  Peace'
  <1>. USE DEF fleet, network
  <1>1. /\ r.w \in Workers /\ r.w \in registered
        /\ reconciles' = reconciles \ {r}
        /\ UNCHANGED <<known, registered, entry, calls, hosted, recent, strays>>
        /\ owner' = [id \in Sandboxes |-> IF id \in r.list THEN r.w ELSE owner[id]]
    BY DEF ReconcileReturns, Peace, Reached, IndInv, TypeOK, ReconcileType
  <1>2. ASSUME NEW id \in Sandboxes, NEW w \in Workers, id \in hosted[w], owner[id] = w
        PROVE  owner'[id] = w
    <2>1. id \in r.list => r.w = w
      BY <1>1, <1>2 DEF IndInv, OneHome, Named, InListing
    <2>. QED
      BY <1>1, <1>2, <2>1
  <1>3. known \subseteq Sandboxes /\ registered \subseteq Workers
    BY DEF IndInv, TypeOK
  <1>4. \A c \in Calls : CallAtPeace(c)'
    BY <1>1 DEF Peace, CallAtPeace
  <1>5. Reached' /\ RouteFollows' /\ Accounted'
    BY <1>1, <1>2, <1>3 DEF Peace, Reached, RouteFollows, Accounted, BeingCreated, Active
  <1>6. Usable'
    <2>. SUFFICES ASSUME NEW id \in known \cap recent, ~BeingDestroyed(id)
                  PROVE  owner'[id] \in registered /\ id \in hosted[owner'[id]]
      BY <1>1 DEF Usable, Routed, BeingDestroyed, Active
    <2>1. owner[id] \in registered /\ id \in hosted[owner[id]]
      BY DEF Peace, Usable, Routed
    <2>. QED
      BY <1>2, <1>3, <2>1
  <1>. QED
    BY <1>4, <1>5, <1>6 DEF Peace

\* Registrations, heartbeats and ageing.
LEMMA SignalsPeace ==
    ASSUME IndInv, Peace,
           \/ \E id \in Sandboxes : Ages(id)
           \/ \E w \in Workers : Signals(w)
           \/ \E m \in signals : Arrives(m)
           \/ \E r \in reconciles : ReconcileListed(r)
           \/ UNCHANGED vars
    PROVE  Peace'
  <1>. USE DEF controlPlane, fleet, network
  <1>1. CASE \E id \in Sandboxes : Ages(id)
    BY <1>1, PeaceKept DEF Ages, Peace, Reached
  <1>2. CASE \E w \in Workers : Signals(w)
    BY <1>2, PeaceKept DEF Signals, WorkerRegisters, WorkerBeats, Peace, Reached
  <1>3. ASSUME NEW m \in signals, RegisterArrives(m)
        PROVE  Peace'
    <2>1. m.w \in Workers
      BY DEF IndInv, TypeOK, SignalType
    <2>2. Reached'
      <3>1. \A w \in registered' : ~entry'[w].stale
        BY <1>3, <2>1 DEF RegisterArrives, Peace, Reached, IndInv, TypeOK, EntryType
      <3>2. \A r \in reconciles' : r.w \in registered'
        BY <1>3, <2>1 DEF RegisterArrives, Peace, Reached
      <3>. QED
        BY <1>3, <3>1, <3>2 DEF RegisterArrives, Peace, Reached
    <2>3. \A c \in Calls :
              /\ calls'[c].op = calls[c].op
              /\ calls'[c] # Idle => calls[c] # Idle
              /\ calls[c] # Idle => /\ calls'[c].id = calls[c].id
                                    /\ calls'[c].w = calls[c].w
                                    /\ calls'[c].stage = calls[c].stage
      BY <1>3 DEF RegisterArrives, Orphaned, IndInv, TypeOK, CallType
    <2>. QED
      BY <1>3, <2>2, <2>3, PeaceKept DEF RegisterArrives
  <1>4. ASSUME NEW m \in signals, BeatArrives(m)
        PROVE  Peace'
    <2>1. Reached'
      BY <1>4 DEF BeatArrives, Peace, Reached, IndInv, TypeOK, EntryType
    <2>. QED
      BY <1>4, <2>1, PeaceKept DEF BeatArrives
  <1>5. ASSUME NEW m \in signals, BeatRefused(m)
        PROVE  Peace'
    BY <1>5, PeaceKept DEF BeatRefused, Peace, Reached
  <1>6. ASSUME NEW r \in reconciles, ReconcileListed(r)
        PROVE  Peace'
    <2>1. Reached'
      BY <1>6 DEF ReconcileListed, Peace, Reached, IndInv, TypeOK, ReconcileType
    <2>. QED
      BY <1>6, <2>1, PeaceKept DEF ReconcileListed
  <1>7. CASE UNCHANGED vars
    BY <1>7, PeaceKept DEF vars, Peace, Reached
  <1>. QED
    BY <1>1, <1>2, <1>3, <1>4, <1>5, <1>6, <1>7 DEF Arrives

\* In peace nothing is evicted as stale, no destroy fails and nothing is late.
LEMMA PeaceStep == IndInv /\ PeaceInv /\ [Next]_vars => PeaceInv'
  <1>. SUFFICES ASSUME IndInv, PeaceInv, [Next]_vars, faults' = 0
                PROVE  Peace'
    BY DEF PeaceInv
  <1>1. ~Faults
    <2>1. faults \in Nat
      BY DEF IndInv, TypeOK
    <2>2. ~Fault
      BY <2>1 DEF Fault
    <2>. QED
      BY <2>2 DEF Faults, FetchFails, SignalLost, ReconcileFails, GoesSilent,
                  WorkerRestarts, ControlPlaneRestarts
  <1>2. faults = 0
    <2>1. CASE \E m \in signals : RegisterArrives(m)
      BY <2>1 DEF RegisterArrives, Fault, IndInv, TypeOK
    <2>2. CASE ~ \E m \in signals : RegisterArrives(m)
      BY <1>1, <2>2
      DEF Next, Requests, CreateBegins, UseBegins, EvictUnrouted, Ages, Serves,
          WorkerCreates, WorkerExecutes, WorkerDestroys, Returns, CreateReturns,
          CreateFails, ExecuteReturns, DestroyReturns, DestroyFails, StrayArrives,
          WorkerEvicts, Signals, WorkerRegisters, WorkerBeats, Arrives,
          BeatArrives, BeatRefused, EvictStale, Reconciles, ReconcileListed,
          ReconcileReturns, vars, network
    <2>. QED
      BY <2>1, <2>2
  <1>3. Peace
    BY <1>2 DEF PeaceInv
  <1>4. ~ \E r \in strays : StrayArrives(r)
    BY <1>3 DEF Peace, Reached
  <1>5. ~EvictStale
    BY <1>3 DEF EvictStale, Peace, Reached
  <1>6. \A c \in Calls : ~DestroyFails(c)
    BY <1>3 DEF DestroyFails, Settled, Peace, CallAtPeace
  <1>. QED
    BY <1>1, <1>3, <1>4, <1>5, <1>6, CreateBeginsPeace, CreateReturnsPeace,
       ReturnsPeace, UseBeginsPeace, DestroyReturnsPeace, EvictUnroutedPeace,
       WorkerCreatesPeace, WorkerExecutesPeace, WorkerDestroysPeace,
       WorkerEvictsPeace, ReconcileReturnsPeace, SignalsPeace
    DEF Next, Requests, Serves, Returns, Reconciles

\* As long as nothing outside has failed, a sandbox the control plane knows can
\* be used where its route leads, and none runs that it does not know.
THEOREM FleetInAgreement == Spec => []FleetAgrees
  <1>1. Init => PeaceInv
    BY DEF Init, PeaceInv, Peace, Reached, CallAtPeace, Idle, RouteFollows, Usable, Accounted
  <1>2. PeaceInv => FleetAgrees
    BY DEF PeaceInv, Peace, Usable, Accounted, FleetAgrees
  <1>. QED
    BY <1>1, <1>2, IndInit, IndStep, PeaceStep, PTL DEF Spec
-----------------------------------------------------------------------------
(* The fleet implements SandboxPlacement *)

\* A sandbox whose create is still on its way runs nowhere.
NotYet == \A id \in Sandboxes : id \in Coming => Place[id] = {}

PlaceInv == IndInv /\ NotYet

\* A sandbox that comes or runs was given out, and it runs on one worker.
LEMMA ComingIssued ==
    ASSUME IndInv, NEW id \in Sandboxes
    PROVE  /\ id \in Coming \/ Place[id] # {} => id \in issued
           /\ \A w \in Workers : id \in hosted[w] => Place[id] = {w}
  <1>1. id \in Coming => id \in issued
    <2>1. \A c \in Calls : Requested(c, "create") => calls[c] # Idle
      BY DEF Requested, Idle
    <2>. QED
      BY <2>1, IssuedIds DEF Coming
  <1>2. \A w \in Workers : id \in hosted[w] =>
            id \in issued /\ \A v \in Workers : id \in hosted[v] => v = w
    BY DEF IndInv, OneHome, Named
  <1>. QED
    BY <1>1, <1>2 DEF Place

\* A step that starts nothing and brings nothing on its way ends sandboxes.
LEMMA EndsSome ==
    ASSUME PlaceInv, UNCHANGED issued,
           Coming' \subseteq Coming,
           \A w \in Workers : hosted'[w] \subseteq hosted[w]
    PROVE  NotYet' /\ Placement!Next
  <1>. DEFINE ids == Over' \ Over
  <1>1. \A id \in Sandboxes : Place'[id] \subseteq Place[id]
    BY DEF Place
  <1>2. NotYet'
    BY <1>1 DEF PlaceInv, NotYet
  <1>3. issued \subseteq Sandboxes /\ Over \subseteq Over'
    BY <1>1 DEF PlaceInv, IndInv, TypeOK, Over
  <1>4. ASSUME NEW id \in Sandboxes
        PROVE  Place'[id] = IF id \in ids THEN {} ELSE Place[id]
    <2>1. CASE Place[id] = {}
      BY <1>1, <2>1
    <2>2. CASE Place[id] # {} /\ Place'[id] = {}
      <3>1. id \in issued /\ id \notin Coming /\ id \notin Over
        BY <2>2, ComingIssued DEF PlaceInv, NotYet, Over
      <3>2. id \in Over'
        BY <3>1, <2>2 DEF Over
      <3>. QED
        BY <2>2, <3>1, <3>2
    <2>3. CASE Place'[id] # {}
      <3>1. PICK w \in Workers : id \in hosted'[w]
        BY <2>3 DEF Place
      <3>2. Place[id] = {w}
        BY <3>1, ComingIssued DEF PlaceInv
      <3>3. Place'[id] = {w} /\ id \notin Over'
        BY <2>3, <3>1, <3>2, <1>1 DEF Over
      <3>. QED
        BY <3>2, <3>3
    <2>. QED
      BY <2>1, <2>2, <2>3
  <1>5. Place' = [id \in Sandboxes |-> IF id \in ids THEN {} ELSE Place[id]]
    BY <1>4 DEF Place
  <1>6. Placement!End(ids)
    BY <1>3, <1>5 DEF Placement!End
  <1>7. ids \in SUBSET Sandboxes
    BY <1>3 DEF Over, PlaceInv, IndInv, TypeOK
  <1>. QED
    BY <1>2, <1>6, <1>7 DEF Placement!Next

\* A create that is carried out was on its way and is so no longer.
LEMMA StartsOne ==
    ASSUME PlaceInv, UNCHANGED issued, NEW i \in Sandboxes, NEW w \in Workers,
           i \in Coming,
           Coming' = Coming \ {i},
           hosted' = [hosted EXCEPT ![w] = @ \cup {i}]
    PROVE  NotYet' /\ Placement!Next
  <1>1. Place[i] = {} /\ i \notin Over
    BY DEF PlaceInv, NotYet, Over
  <1>2. ASSUME NEW id \in Sandboxes
        PROVE  Place'[id] = IF id = i THEN {w} ELSE Place[id]
    BY <1>1 DEF Place, PlaceInv, IndInv, TypeOK
  <1>3. Place' = [Place EXCEPT ![i] = {w}]
    BY <1>2 DEF Place
  <1>4. issued \subseteq Sandboxes
    BY DEF PlaceInv, IndInv, TypeOK
  <1>5. Over' = Over
    BY <1>1, <1>2, <1>4 DEF Over
  <1>6. Placement!Start(i, w)
    BY <1>1, <1>3, <1>5 DEF Placement!Start
  <1>7. NotYet'
    BY <1>2 DEF PlaceInv, NotYet
  <1>. QED
    BY <1>6, <1>7 DEF Placement!Next

\* A create that is on its way after a step was so before it.
RequestsKept == \A c \in Calls : Requested(c, "create")' =>
    Requested(c, "create") /\ calls'[c].id = calls[c].id

\* Then nothing new is coming, if no create is left on its way anew.
LEMMA ComingShrinks ==
    ASSUME RequestsKept, \A r \in strays' : r.op = "create" => r.id \in Coming
    PROVE  Coming' \subseteq Coming
  <1>1. ASSUME NEW c \in Calls, Requested(c, "create")'
        PROVE  calls'[c].id \in Coming
    BY <1>1 DEF RequestsKept, Coming
  <1>. QED
    BY <1>1 DEF Coming

LEMMA StagesKeepRequests ==
    ASSUME CallsKept, StagesKept
    PROVE  RequestsKept
  <1>1. \A c \in Calls : Requested(c, "create")' => calls'[c] # Idle
    BY DEF Requested, Idle
  <1>. QED
    BY <1>1 DEF CallsKept, StagesKept, RequestsKept, Requested

\* A request that is served is no longer on its way.
LEMMA ServedIsNotComing ==
    ASSUME TypeOK, NEW c \in Calls, calls[c] # Idle,
           NEW stage \in {"ok", "gone", "error"}, Settle(c, stage)
    PROVE  /\ RequestsKept /\ ~Requested(c, "create")'
           /\ \A d \in Calls \ {c} : calls'[d] = calls[d]
  <1>1. /\ calls'[c] = [calls[c] EXCEPT !.stage = stage]
        /\ \A d \in Calls \ {c} : calls'[d] = calls[d]
    BY DEF Settle, TypeOK
  <1>2. calls'[c].stage = stage
    BY <1>1, CallFields DEF TypeOK, CallType
  <1>3. ~Requested(c, "create")'
    BY <1>2 DEF Requested
  <1>. QED
    BY <1>1, <1>3 DEF RequestsKept, Requested

\* A create that begins is coming and runs nowhere.
LEMMA CreateBeginsPlace ==
    ASSUME PlaceInv, NEW c \in Calls, NEW id \in Sandboxes, CreateBegins(c, id)
    PROVE  NotYet' /\ UNCHANGED <<Place, Over>>
  <1>. USE DEF controlPlane, fleet, network
  <1>1. PICK w \in Workers : Send(c, "create", id, w)
    BY DEF CreateBegins
  <1>2. /\ calls'[c].op = "create" /\ calls'[c].stage = "sent" /\ calls'[c].id = id
        /\ ~Requested(c, "create")
        /\ \A d \in Calls \ {c} : calls'[d] = calls[d]
    BY <1>1 DEF CreateBegins, Send, Requested, Idle, PlaceInv, IndInv, TypeOK
  <1>3. \A d \in Calls : Requested(d, "create")' <=>
            d = c \/ Requested(d, "create")
    BY <1>2 DEF Requested
  <1>4. Coming' = Coming \cup {id}
    <2>1. {d \in Calls : Requested(d, "create")}' =
              {d \in Calls : Requested(d, "create")} \cup {c}
      BY <1>3
    <2>. QED
      BY <1>2, <2>1 DEF Coming, CreateBegins
  <1>5. Place' = Place
    BY DEF Place, CreateBegins
  <1>6. Place[id] = {}
    BY ComingIssued DEF PlaceInv, CreateBegins
  <1>7. NotYet'
    BY <1>4, <1>5, <1>6 DEF PlaceInv, NotYet
  <1>8. Over' = Over
    BY <1>4, <1>5 DEF Over, CreateBegins
  <1>. QED
    BY <1>5, <1>7, <1>8

\* The one request for a sandbox is served, in time or late, or refused.
LEMMA WorkerCreatesPlace ==
    ASSUME PlaceInv, NEW c \in Calls, WorkerCreates(c)
    PROVE  NotYet' /\ Placement!Next
  <1>. USE DEF controlPlane, fleet, network
  <1>. DEFINE id == calls[c].id
              w == calls[c].w
  <1>1. Requested(c, "create") /\ calls[c] # Idle
    BY DEF WorkerCreates, Requested, Idle
  <1>2. id \in Sandboxes /\ w \in Workers /\ TypeOK /\ id \in Coming
    BY <1>1, CallFields DEF PlaceInv, IndInv, TypeOK, Coming
  <1>3. Settle(c, "ok") \/ Settle(c, "error")
    BY DEF WorkerCreates
  <1>4. /\ RequestsKept /\ ~Requested(c, "create")'
        /\ \A d \in Calls \ {c} : calls'[d] = calls[d]
    BY <1>1, <1>2, <1>3, ServedIsNotComing
  <1>5. UNCHANGED <<strays, issued>>
    BY DEF WorkerCreates
  <1>6. Coming' \subseteq Coming
    BY <1>4, <1>5, ComingShrinks DEF Coming
  <1>7. CASE UNCHANGED hosted
    BY <1>5, <1>6, <1>7, EndsSome
  <1>8. CASE hosted' = [hosted EXCEPT ![w] = @ \cup {id}]
    <2>1. CreateSound(c) /\ calls[c].op = "create" /\ calls[c].stage = "sent"
      BY <1>1 DEF PlaceInv, IndInv, RequestsSound, Requested
    <2>2. /\ \A d \in Calls \ {c} : Requested(d, "create") => calls[d].id # id
          /\ \A r \in strays : r.op = "create" => r.id # id
      BY <2>1 DEF CreateSound, Active, Requested
    <2>3. \A d \in Calls \ {c} : Requested(d, "create")' <=> Requested(d, "create")
      BY <1>4 DEF Requested
    <2>4. Coming' = Coming \ {id}
      <3>1. \A i \in Coming : i # id => i \in Coming'
        BY <1>4, <1>5, <2>3 DEF Coming
      <3>2. \A d \in Calls : Requested(d, "create")' => calls'[d].id # id
        BY <1>4, <2>2, <2>3
      <3>3. id \notin Coming'
        BY <1>5, <2>2, <3>2 DEF Coming
      <3>. QED
        BY <1>6, <3>1, <3>3
    <2>. QED
      BY <1>2, <1>5, <1>8, <2>4, StartsOne
  <1>. QED
    BY <1>7, <1>8 DEF WorkerCreates

LEMMA StrayArrivesPlace ==
    ASSUME PlaceInv, NEW r \in strays, StrayArrives(r)
    PROVE  NotYet' /\ Placement!Next
  <1>. USE DEF controlPlane, fleet, network
  <1>1. /\ UNCHANGED <<calls, issued>> /\ strays' = strays \ {r}
        /\ r \in StrayType /\ r.id \in Sandboxes /\ r.w \in Workers
    BY DEF StrayArrives, PlaceInv, IndInv, TypeOK, StrayType
  <1>2. \A d \in Calls : Requested(d, "create")' <=> Requested(d, "create")
    BY <1>1 DEF Requested
  <1>3. Coming' \subseteq Coming
    BY <1>1, <1>2, ComingShrinks DEF RequestsKept, Coming
  <1>4. CASE \A w \in Workers : hosted'[w] \subseteq hosted[w]
    BY <1>1, <1>3, <1>4, EndsSome
  <1>5. CASE r.op = "create" /\ hosted' = [hosted EXCEPT ![r.w] = @ \cup {r.id}]
    <2>1. r.id \in Coming
      BY <1>5 DEF Coming
    <2>2. ASSUME NEW q \in strays, q.op = "create", q.id = r.id
          PROVE  q = r
      <3>1. q \in StrayType /\ q.w \in Workers
        BY DEF PlaceInv, IndInv, TypeOK, StrayType
      <3>2. Named(q.w, r.id) /\ Named(r.w, r.id)
        BY <2>2 DEF Named, InStray
      <3>3. q.w = r.w
        BY <1>1, <3>1, <3>2 DEF PlaceInv, IndInv, OneHome
      <3>. QED
        BY <1>1, <1>5, <2>2, <3>1, <3>3 DEF StrayType
    <2>3. \A d \in Calls : Requested(d, "create") => calls[d].id # r.id
      <3>1. \A d \in Calls : CreateSound(d)
        BY DEF PlaceInv, IndInv, RequestsSound
      <3>. QED
        BY <1>5, <3>1 DEF CreateSound, Requested
    <2>4. Coming' = Coming \ {r.id}
      <3>1. \A i \in Coming : i # r.id => i \in Coming'
        BY <1>1, <1>2 DEF Coming
      <3>2. r.id \notin Coming'
        BY <1>1, <1>2, <2>2, <2>3 DEF Coming
      <3>. QED
        BY <1>3, <3>1, <3>2
    <2>. QED
      BY <1>1, <1>5, <2>1, <2>4, StartsOne
  <1>6. \/ UNCHANGED hosted
        \/ hosted' = [hosted EXCEPT ![r.w] = @ \ {r.id}]
        \/ r.op = "create" /\ hosted' = [hosted EXCEPT ![r.w] = @ \cup {r.id}]
    BY DEF StrayArrives
  <1>7. hosted' = [hosted EXCEPT ![r.w] = @ \ {r.id}] =>
            \A w \in Workers : hosted'[w] \subseteq hosted[w]
    BY <1>1 DEF PlaceInv, IndInv, TypeOK
  <1>. QED
    BY <1>4, <1>5, <1>6, <1>7

\* A create whose caller gives up may still be coming; whatever a restart of
\* the control plane leaves on its way was so before.
LEMMA GivenUpPlace ==
    ASSUME PlaceInv,
           ControlPlaneRestarts \/ \E c \in Calls : FetchFails(c)
    PROVE  NotYet' /\ Placement!Next
  <1>. USE DEF controlPlane, fleet, network
  <1>1. UNCHANGED <<issued, hosted>>
    BY DEF ControlPlaneRestarts, FetchFails
  <1>2. ASSUME NEW c \in Calls, MayStray(c), Stray(c).op = "create"
        PROVE  Stray(c).id \in Coming
    <2>1. Requested(c, "create") /\ Stray(c).id = calls[c].id
      BY <1>2 DEF MayStray, Stray, Requested
    <2>. QED
      BY <2>1 DEF Coming
  <1>3. \A r \in strays : r.op = "create" => r.id \in Coming
    BY DEF Coming
  <1>4. CASE ControlPlaneRestarts
    <2>1. RequestsKept
      BY <1>4 DEF ControlPlaneRestarts, RequestsKept, Requested, Idle
    <2>2. \A r \in strays' : r.op = "create" => r.id \in Coming
      BY <1>2, <1>3, <1>4 DEF ControlPlaneRestarts
    <2>. QED
      BY <1>1, <2>1, <2>2, ComingShrinks, EndsSome
  <1>5. ASSUME NEW c \in Calls, FetchFails(c)
        PROVE  NotYet' /\ Placement!Next
    <2>1. RequestsKept
      BY <1>5, ServedIsNotComing DEF FetchFails, PlaceInv, IndInv
    <2>2. \A r \in strays' : r.op = "create" => r.id \in Coming
      BY <1>2, <1>3, <1>5 DEF FetchFails
    <2>. QED
      BY <1>1, <2>1, <2>2, ComingShrinks, EndsSome
  <1>. QED
    BY <1>4, <1>5

\* Every step starts one sandbox that was still coming, or ends some, or
\* changes nothing.
LEMMA PlaceStep ==
    ASSUME PlaceInv, [Next]_vars
    PROVE  NotYet' /\ [Placement!Next]_<<Place, Over>>
  <1>. USE DEF controlPlane, fleet, network
  <1>1. ASSUME UNCHANGED <<strays, issued>>, CallsKept, StagesKept,
               \A w \in Workers : hosted'[w] \subseteq hosted[w]
        PROVE  NotYet' /\ Placement!Next
    <2>1. Coming' \subseteq Coming
      BY <1>1, StagesKeepRequests, ComingShrinks DEF Coming
    <2>. QED
      BY <1>1, <2>1, EndsSome
  <1>2. ASSUME NEW c \in Calls,
               \/ CreateReturns(c) \/ CreateFails(c) \/ ExecuteReturns(c)
               \/ DestroyReturns(c) \/ DestroyFails(c)
        PROVE  NotYet' /\ Placement!Next
    <2>1. Return(c) /\ UNCHANGED <<strays, issued, hosted>>
      BY <1>2 DEF CreateReturns, CreateFails, ExecuteReturns, DestroyReturns,
                  DestroyFails
    <2>. QED
      BY <1>1, <2>1, ReturnKeeps, ReturnStages DEF PlaceInv, IndInv
  <1>3. ASSUME NEW c \in Calls, NEW id \in Sandboxes,
               NEW op \in {"execute", "destroy", "evict"}, UseBegins(c, op, id)
        PROVE  NotYet' /\ Placement!Next
    <2>1. /\ calls'[c].op = op /\ \A d \in Calls \ {c} : calls'[d] = calls[d]
          /\ UNCHANGED <<strays, issued, hosted>>
      BY <1>3 DEF UseBegins, Send, PlaceInv, IndInv, TypeOK
    <2>2. RequestsKept
      BY <2>1 DEF RequestsKept, Requested
    <2>3. Coming' \subseteq Coming
      BY <2>1, <2>2, ComingShrinks DEF Coming
    <2>. QED
      BY <2>1, <2>3, EndsSome
  <1>4. ASSUME \/ \E id \in Sandboxes : EvictUnrouted(id) \/ Ages(id)
               \/ \E w \in Workers : Signals(w) \/ GoesSilent(w)
               \/ \E m \in signals :
                     BeatArrives(m) \/ BeatRefused(m) \/ SignalLost(m)
               \/ \E r \in reconciles : Reconciles(r) \/ ReconcileFails(r)
               \/ UNCHANGED vars
        PROVE  NotYet' /\ Placement!Next
    <2>1. UNCHANGED <<calls, strays, issued, hosted>>
      BY <1>4 DEF EvictUnrouted, Ages, Signals, WorkerRegisters, WorkerBeats,
                  GoesSilent, BeatArrives, BeatRefused, SignalLost, Reconciles,
                  ReconcileListed, ReconcileReturns, ReconcileFails, vars
    <2>2. CallsKept /\ StagesKept
      BY <2>1 DEF CallsKept, StagesKept
    <2>. QED
      BY <1>1, <2>1, <2>2
  <1>5. ASSUME NEW c \in Calls, WorkerExecutes(c) \/ WorkerDestroys(c)
        PROVE  NotYet' /\ Placement!Next
    <2>1. /\ calls[c] # Idle
          /\ Settle(c, "ok") \/ Settle(c, "gone")
          /\ UNCHANGED <<strays, issued>>
          /\ \A w \in Workers : hosted'[w] \subseteq hosted[w]
      BY <1>5 DEF WorkerExecutes, WorkerDestroys, Requested, Idle, PlaceInv,
                  IndInv, TypeOK
    <2>2. RequestsKept
      BY <2>1, ServedIsNotComing DEF PlaceInv, IndInv
    <2>3. Coming' \subseteq Coming
      BY <2>1, <2>2, ComingShrinks DEF Coming
    <2>. QED
      BY <2>1, <2>3, EndsSome
  <1>6. ASSUME NEW w \in Workers, NEW id \in Sandboxes, WorkerEvicts(w, id)
        PROVE  NotYet' /\ Placement!Next
    <2>1. \A v \in Workers : hosted'[v] \subseteq hosted[v]
      BY <1>6 DEF WorkerEvicts, PlaceInv, IndInv, TypeOK
    <2>. QED
      BY <1>1, <1>6, <2>1 DEF WorkerEvicts, CallsKept, StagesKept
  <1>7. ASSUME \/ EvictStale
               \/ \E m \in signals : RegisterArrives(m)
        PROVE  NotYet' /\ Placement!Next
    <2>1. /\ \E ws : calls' = Orphaned(ws)
          /\ UNCHANGED <<strays, issued, hosted>>
      BY <1>7 DEF EvictStale, RegisterArrives
    <2>. QED
      BY <1>1, <2>1, OrphanedKeeps, OrphanedStages DEF PlaceInv, IndInv
  <1>8. ASSUME NEW w \in Workers, WorkerRestarts(w)
        PROVE  NotYet' /\ Placement!Next
    <2>1. CallsKept /\ StagesKept
      BY <1>8, RestartKeeps, RestartStages DEF PlaceInv, IndInv
    <2>2. Coming' \subseteq Coming
      BY <1>8, <2>1, StagesKeepRequests, ComingShrinks DEF WorkerRestarts, Coming
    <2>3. \A v \in Workers : hosted'[v] \subseteq hosted[v]
      BY <1>8 DEF WorkerRestarts, PlaceInv, IndInv, TypeOK
    <2>. QED
      BY <1>8, <2>2, <2>3, EndsSome DEF WorkerRestarts
  <1>. QED
    BY <1>2, <1>3, <1>4, <1>5, <1>6, <1>7, <1>8, CreateBeginsPlace,
       WorkerCreatesPlace, StrayArrivesPlace, GivenUpPlace
    DEF Next, Requests, Serves, Returns, Arrives, Reconciles, Faults

\* A sandbox starts at most once, on one worker, and never again once it is
\* over, whatever is lost, late, refused, restarted or forgotten.
THEOREM ClusterImplementsPlacement == Spec => ImplementsPlacement
  <1>1. Init => PlaceInv /\ Placement!Init
    <2>. SUFFICES ASSUME Init PROVE PlaceInv /\ Placement!Init
      OBVIOUS
    <2>1. \A c \in Calls : ~Requested(c, "create")
      BY DEF Init, Requested, Idle
    <2>2. Coming = {} /\ Over = {}
      BY <2>1 DEF Init, Coming, Over
    <2>3. Place = [id \in Sandboxes |-> {}]
      BY DEF Init, Place
    <2>. QED
      BY <2>2, <2>3, IndInit DEF PlaceInv, NotYet, Placement!Init
  <1>2. PlaceInv /\ [Next]_vars => PlaceInv'
    BY IndStep, PlaceStep DEF PlaceInv
  <1>3. PlaceInv /\ [Next]_vars => [Placement!Next]_<<Place, Over>>
    BY PlaceStep
  <1>. QED
    BY <1>1, <1>2, <1>3, PTL DEF Spec, ImplementsPlacement, Placement!Spec
=============================================================================
