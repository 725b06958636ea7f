------------------------- MODULE SandboxManagerProofs -------------------------
(***************************************************************************)
(* Proofs about SandboxManager, and about what SandboxApi reads of it, for *)
(* every set of ids, users, handler activations and timers, every limit,   *)
(* TTL and bound, with and without backend failures.                       *)
(***************************************************************************)
EXTENDS SandboxApi, FiniteSetTheorems, TLAPS

-----------------------------------------------------------------------------
(* What the building blocks of the actions do to the records they change *)

\* Reaching an await records the call, and only that call.
LEMMA AwaitEffect ==
    ASSUME CallsTyped, clock \in Nat,
           NEW c \in Calls, NEW id \in Sandboxes, NEW user \in Owners,
           NEW op \in {"create", "execute", "destroy"}, Await(c, op, id, user)
    PROVE  /\ CallsTyped'
           /\ calls'[c] = [op |-> op, stage |-> "pending", id |-> id,
                           user |-> user, now |-> clock]
           /\ \A d \in Calls : d # c => calls'[d] = calls[d]
  BY DEF Await, CallsTyped, CallType, Stages

\* The answer of the backend changes the stage of its call and nothing else.
LEMMA SettleEffect ==
    ASSUME CallsTyped, NEW c \in Calls, NEW stage \in Stages, Settle(c, stage)
    PROVE  /\ CallsTyped'
           /\ calls'[c].op = calls[c].op
           /\ calls'[c].id = calls[c].id
           /\ calls'[c].user = calls[c].user
           /\ calls'[c].now = calls[c].now
           /\ calls'[c].stage = stage
           /\ \A d \in Calls : d # c => calls'[d] = calls[d]
  <1>1. /\ calls' \in [Calls -> CallType]
        /\ calls'[c].op = calls[c].op
        /\ calls'[c].id = calls[c].id
        /\ calls'[c].user = calls[c].user
        /\ calls'[c].now = calls[c].now
        /\ calls'[c].stage = stage
        /\ \A d \in Calls : d # c => calls'[d] = calls[d]
    BY DEF Settle, CallsTyped, CallType, Stages
  <1>. QED
    BY <1>1 DEF CallsTyped

\* Returning leaves the activation idle and the others alone.
LEMMA ReturnEffect ==
    ASSUME CallsTyped, NEW c \in Calls, Return(c)
    PROVE  /\ CallsTyped'
           /\ calls'[c] = IdleCall
           /\ \A d \in Calls : d # c => calls'[d] = calls[d]
  BY DEF Return, CallsTyped, CallType, IdleCall, Owners, Stages

\* An activation that is not idle has an id, an owner, a time and a stage.
LEMMA CallFields ==
    ASSUME CallsTyped, NEW c \in Calls, calls[c].op # "idle"
    PROVE  /\ calls[c].id \in Sandboxes
           /\ calls[c].user \in Owners
           /\ calls[c].now \in Nat
           /\ calls[c].stage \in Stages
  BY DEF CallsTyped, CallType

LEMMA TimerFields ==
    ASSUME TimersTyped, NEW t \in Timers, timers[t].op # "idle"
    PROVE  /\ timers[t].id \in Sandboxes
           /\ timers[t].now \in Nat
           /\ timers[t].stage \in Stages
  BY DEF TimersTyped, TimerType

\* updateLastUsed changes one column of one row.
LEMMA TouchEffect ==
    ASSUME row \in [Sandboxes -> RowType], NEW id \in Sandboxes, NEW t \in Nat,
           row' = [row EXCEPT ![id].lastUsedAt = t]
    PROVE  /\ row' \in [Sandboxes -> RowType]
           /\ row'[id].lastUsedAt = t
           /\ row'[id].status = row[id].status
           /\ row'[id].userId = row[id].userId
           /\ row'[id].createdAt = row[id].createdAt
           /\ row'[id].destroyedAt = row[id].destroyedAt
           /\ \A i \in Sandboxes : i # id => row'[i] = row[i]
  BY DEF RowType

\* markDestroyed changes two columns of one row.
LEMMA MarkDestroyedEffect ==
    ASSUME row \in [Sandboxes -> RowType], NEW id \in Sandboxes, NEW t \in Nat,
           MarkDestroyed(id, t)
    PROVE  /\ row' \in [Sandboxes -> RowType]
           /\ row'[id].status = "destroyed"
           /\ row'[id].destroyedAt = t
           /\ row'[id].userId = row[id].userId
           /\ row'[id].createdAt = row[id].createdAt
           /\ row'[id].lastUsedAt = row[id].lastUsedAt
           /\ \A i \in Sandboxes : i # id => row'[i] = row[i]
  BY DEF MarkDestroyed, RowType

\* The use of a sandbox changes one field of one in-memory object.
LEMMA UseEffect ==
    ASSUME info \in [Sandboxes -> [userId : Owners, lastUsedAt : Nat]],
           NEW id \in Sandboxes, NEW t \in Nat,
           info' = [info EXCEPT ![id].lastUsedAt = t]
    PROVE  /\ info' \in [Sandboxes -> [userId : Owners, lastUsedAt : Nat]]
           /\ info'[id].lastUsedAt = t
           /\ info'[id].userId = info[id].userId
           /\ \A i \in Sandboxes : i # id => info'[i] = info[i]
  OBVIOUS

\* An eviction's answer changes the stage of its timer and nothing else.
LEMMA TimerSettleEffect ==
    ASSUME TimersTyped, NEW t \in Timers, NEW stage \in Stages,
           timers' = [timers EXCEPT ![t].stage = stage]
    PROVE  /\ TimersTyped'
           /\ timers'[t].op = timers[t].op
           /\ timers'[t].id = timers[t].id
           /\ timers'[t].now = timers[t].now
           /\ timers'[t].stage = stage
           /\ \A u \in Timers : u # t => timers'[u] = timers[u]
  <1>1. /\ timers' \in [Timers -> TimerType]
        /\ timers'[t].op = timers[t].op
        /\ timers'[t].id = timers[t].id
        /\ timers'[t].now = timers[t].now
        /\ timers'[t].stage = stage
        /\ \A u \in Timers : u # t => timers'[u] = timers[u]
    BY DEF TimersTyped, TimerType, Stages
  <1>. QED
    BY <1>1 DEF TimersTyped

\* The scan goes on to another sandbox, or ends.
LEMMA ScanEffect ==
    ASSUME TimersTyped, NEW t \in Timers, NEW i \in Sandboxes, NEW now \in Nat,
           timers' = [timers EXCEPT ![t] = Evicting(i, now)]
    PROVE  /\ TimersTyped'
           /\ timers'[t] = [op |-> "evict", stage |-> "pending", id |-> i,
                            now |-> now]
           /\ \A u \in Timers : u # t => timers'[u] = timers[u]
  BY DEF TimersTyped, TimerType, Stages, Evicting

LEMMA ScanEndEffect ==
    ASSUME TimersTyped, NEW t \in Timers,
           timers' = [timers EXCEPT ![t] = IdleTimer]
    PROVE  /\ TimersTyped'
           /\ timers'[t] = IdleTimer
           /\ \A u \in Timers : u # t => timers'[u] = timers[u]
  BY DEF TimersTyped, TimerType, Stages, IdleTimer

\* A counter goes up; the others do not move.
LEMMA CountType ==
    ASSUME metrics \in [created : Nat, destroyed : Nat, executions : Nat],
           NEW k \in {"created", "destroyed", "executions"}, Count(k)
    PROVE  metrics' \in [created : Nat, destroyed : Nat, executions : Nat]
  BY DEF Count

\* An event is added to one sandbox's.
LEMMA BroadcastEffect ==
    ASSUME events \in [Sandboxes -> Seq(EventTypes)], NEW id \in Sandboxes,
           NEW type \in EventTypes, Broadcast(id, type)
    PROVE  /\ events' \in [Sandboxes -> Seq(EventTypes)]
           /\ events'[id] = Append(events[id], type)
           /\ \A i \in Sandboxes : i # id => events'[i] = events[i]
  BY DEF Broadcast

-----------------------------------------------------------------------------
(* Types *)

LEMMA TypeInit == Init => TypeOK
  BY NatAssumption
  DEF Init, TypeOK, CallsTyped, TimersTyped, NoRow, RowType, IdleCall,
     CallType,
      IdleTimer, TimerType, Stages, Owners, ZeroMetrics

\* Every step, of whatever call or timer, leaves each variable in its type.
LEMMA TypeStep == TypeOK /\ [Next]_vars => TypeOK'
  <1> SUFFICES ASSUME TypeOK, [Next]_vars PROVE TypeOK'
    OBVIOUS
  <1>1. ASSUME NEW c \in Calls, NEW id \in Sandboxes, NEW user \in Owners,
             CreateBegins(c, id, user)
      PROVE  TypeOK'
    <2>1. CallsTyped'
      BY <1>1, AwaitEffect DEF TypeOK, CreateBegins
    <2>. QED
      BY <1>1, <2>1 DEF TypeOK, TimersTyped, CreateBegins, store
  <1>2. ASSUME NEW c \in Calls,
             BackendCreates(c)
      PROVE  TypeOK'
    <2>1. PICK stage \in Stages : Settle(c, stage)
      BY <1>2 DEF BackendCreates, Stages
    <2>2. calls[c].id \in Sandboxes
      BY <1>2, CallFields DEF TypeOK, BackendCreates, At
    <2>3. vms' \subseteq Sandboxes
      BY <1>2, <2>2 DEF TypeOK, BackendCreates
    <2>4. CallsTyped'
      BY <2>1, SettleEffect DEF TypeOK
    <2>. QED
      BY <1>2, <2>3, <2>4 DEF TypeOK, TimersTyped, BackendCreates, store
  <1>3. ASSUME NEW c \in Calls,
             CreateReturns(c)
      PROVE  TypeOK'
    <2>1. CallsTyped'
      BY <1>3, ReturnEffect DEF TypeOK, CreateReturns
    <2>2. calls[c].id \in Sandboxes
      BY <1>3, CallFields DEF TypeOK, CreateReturns, At
    <2>3. metrics' \in [created : Nat, destroyed : Nat, executions : Nat]
      BY <1>3, CountType DEF TypeOK, CreateReturns
    <2>4. events' \in [Sandboxes -> Seq(EventTypes)]
      BY <1>3, <2>2, BroadcastEffect DEF TypeOK, CreateReturns, EventTypes
    <2>5. calls[c].user \in Owners /\ calls[c].now \in Nat
      BY <1>3, CallFields DEF TypeOK, CreateReturns, At
    <2>. QED
      BY <1>3, <2>1, <2>2, <2>3, <2>4, <2>5
      DEF TypeOK, TimersTyped, CreateReturns, RowType
  <1>4. ASSUME NEW c \in Calls,
             CreateFails(c)
      PROVE  TypeOK'
    <2>1. CallsTyped'
      BY <1>4, ReturnEffect DEF TypeOK, CreateFails
    <2>. QED
      BY <1>4, <2>1 DEF TypeOK, TimersTyped, CreateFails, store
  <1>5. ASSUME NEW c \in Calls, NEW id \in Sandboxes, NEW user \in Owners,
             ExecuteBegins(c, id, user)
      PROVE  TypeOK'
    <2>1. CallsTyped'
      BY <1>5, AwaitEffect DEF TypeOK, ExecuteBegins, Touch
    <2>2. row' \in [Sandboxes -> RowType]
      BY <1>5, TouchEffect DEF TypeOK, ExecuteBegins, Touch
    <2>3. info' \in [Sandboxes -> [userId : Owners, lastUsedAt : Nat]]
      BY <1>5, UseEffect DEF TypeOK, ExecuteBegins, Touch
    <2>. QED
      BY <1>5, <2>1, <2>2, <2>3 DEF TypeOK, TimersTyped, ExecuteBegins, Touch
  <1>6. ASSUME NEW c \in Calls,
             BackendExecutes(c)
      PROVE  TypeOK'
    <2>1. PICK stage \in Stages : Settle(c, stage)
      BY <1>6 DEF BackendExecutes, Stages
    <2>2. calls[c].id \in Sandboxes
      BY <1>6, CallFields DEF TypeOK, BackendExecutes, At
    <2>3. vms' \subseteq Sandboxes
      BY <1>6, <2>2 DEF TypeOK, BackendExecutes
    <2>4. CallsTyped'
      BY <2>1, SettleEffect DEF TypeOK
    <2>. QED
      BY <1>6, <2>3, <2>4 DEF TypeOK, TimersTyped, BackendExecutes, store
  <1>7. ASSUME NEW c \in Calls,
             ExecuteReturns(c)
      PROVE  TypeOK'
    <2>1. CallsTyped'
      BY <1>7, ReturnEffect DEF TypeOK, ExecuteReturns
    <2>2. calls[c].id \in Sandboxes
      BY <1>7, CallFields DEF TypeOK, ExecuteReturns, At
    <2>3. metrics' \in [created : Nat, destroyed : Nat, executions : Nat]
      BY <1>7, CountType DEF TypeOK, ExecuteReturns
    <2>4. events' \in [Sandboxes -> Seq(EventTypes)]
      BY <1>7, <2>2, BroadcastEffect DEF TypeOK, ExecuteReturns, EventTypes
    <2>5. logs' \in [Sandboxes -> Nat]
      BY <1>7, <2>2 DEF TypeOK, ExecuteReturns
    <2>. QED
      BY <1>7, <2>1, <2>3, <2>4, <2>5 DEF TypeOK, TimersTyped, ExecuteReturns
  <1>8. ASSUME NEW c \in Calls,
             ExecuteFails(c)
      PROVE  TypeOK'
    <2>1. CallsTyped'
      BY <1>8, ReturnEffect DEF TypeOK, ExecuteFails
    <2>. QED
      BY <1>8, <2>1 DEF TypeOK, TimersTyped, ExecuteFails, store
  <1>9. ASSUME NEW c \in Calls, NEW id \in Sandboxes, NEW user \in Owners,
             DestroyBegins(c, id, user)
      PROVE  TypeOK'
    <2>1. CallsTyped'
      BY <1>9, AwaitEffect DEF TypeOK, DestroyBegins
    <2>. QED
      BY <1>9, <2>1 DEF TypeOK, TimersTyped, DestroyBegins, store
  <1>10. ASSUME NEW c \in Calls,
             BackendDestroys(c)
      PROVE  TypeOK'
    <2>1. PICK stage \in Stages : Settle(c, stage)
      BY <1>10 DEF BackendDestroys, Stages
    <2>2. calls[c].id \in Sandboxes
      BY <1>10, CallFields DEF TypeOK, BackendDestroys, At
    <2>3. vms' \subseteq Sandboxes
      BY <1>10, <2>2 DEF TypeOK, BackendDestroys
    <2>4. CallsTyped'
      BY <2>1, SettleEffect DEF TypeOK
    <2>. QED
      BY <1>10, <2>3, <2>4 DEF TypeOK, TimersTyped, BackendDestroys, store
  <1>11. ASSUME NEW c \in Calls,
             DestroyReturns(c)
      PROVE  TypeOK'
    <2>1. CallsTyped'
      BY <1>11, ReturnEffect DEF TypeOK, DestroyReturns, Forget
    <2>2. calls[c].id \in Sandboxes
      BY <1>11, CallFields DEF TypeOK, DestroyReturns, Forget, At
    <2>3. metrics' \in [created : Nat, destroyed : Nat, executions : Nat]
      BY <1>11, CountType DEF TypeOK, DestroyReturns, Forget
    <2>4. events' \in [Sandboxes -> Seq(EventTypes)]
      BY <1>11, <2>2, BroadcastEffect
      DEF TypeOK, DestroyReturns, Forget, EventTypes
    <2>5. row' \in [Sandboxes -> RowType]
      BY <1>11, <2>2, MarkDestroyedEffect DEF TypeOK, DestroyReturns, Forget
    <2>. QED
      BY <1>11, <2>1, <2>2, <2>3, <2>4, <2>5
      DEF TypeOK, TimersTyped, DestroyReturns, Forget
  <1>12. ASSUME NEW c \in Calls,
             DestroyFails(c)
      PROVE  TypeOK'
    <2>1. CallsTyped'
      BY <1>12, ReturnEffect DEF TypeOK, DestroyFails
    <2>. QED
      BY <1>12, <2>1 DEF TypeOK, TimersTyped, DestroyFails, store
  <1>13. ASSUME NEW t \in Timers, NEW id \in Sandboxes,
             EvictBegins(t, id)
      PROVE  TypeOK'
    <2>1. TimersTyped'
      BY <1>13, ScanEffect DEF TypeOK, EvictBegins
    <2>. QED
      BY <1>13, <2>1 DEF TypeOK, CallsTyped, EvictBegins, store
  <1>14. ASSUME NEW t \in Timers,
             BackendEvicts(t)
      PROVE  TypeOK'
    <2>1. PICK stage \in Stages : timers' = [timers EXCEPT ![t].stage = stage]
      BY <1>14 DEF BackendEvicts, Stages
    <2>2. TimersTyped'
      BY <2>1, TimerSettleEffect DEF TypeOK
    <2>3. vms' \subseteq Sandboxes
      BY <1>14 DEF TypeOK, BackendEvicts
    <2>. QED
      BY <1>14, <2>2, <2>3 DEF TypeOK, CallsTyped, BackendEvicts, store
  <1>15. ASSUME NEW t \in Timers,
             EvictReturns(t)
      PROVE  TypeOK'
    <2>1. timers[t].id \in Sandboxes /\ timers[t].now \in Nat
      BY <1>15, TimerFields DEF TypeOK, EvictReturns, Forget, Answered
    <2>2. TimersTyped'
      BY <1>15, <2>1, ScanEffect, ScanEndEffect
      DEF TypeOK, EvictReturns, Forget, Answered
    <2>3. row' \in [Sandboxes -> RowType]
      BY <1>15, <2>1, MarkDestroyedEffect
      DEF TypeOK, EvictReturns, Forget, Answered
    <2>. QED
      BY <1>15, <2>1, <2>2, <2>3
      DEF TypeOK, CallsTyped, EvictReturns, Forget, Answered
  <1>16. CASE Tick
    BY <1>16 DEF TypeOK, CallsTyped, TimersTyped, Tick, memory, store
  <1>17. CASE Restart
    <2>1. CallsTyped'
      BY <1>17 DEF CallsTyped, Restart, IdleCall, CallType, Stages, Owners
    <2>2. TimersTyped'
      BY <1>17 DEF TimersTyped, Restart, IdleTimer, TimerType, Stages
    <2>3. BeingCreated \subseteq Sandboxes
      BY CallFields DEF TypeOK, BeingCreated, Doing
    <2>4. vms' \subseteq Sandboxes
      BY <1>17, <2>3 DEF TypeOK, Restart
    <2>. QED
      BY <1>17, <2>1, <2>2, <2>4 DEF TypeOK, Restart, store, ZeroMetrics
  <1>18. CASE UNCHANGED vars
    BY <1>18 DEF TypeOK, CallsTyped, TimersTyped, vars, store, memory
  <1>. QED
    BY <1>1, <1>2, <1>3, <1>4, <1>5, <1>6, <1>7, <1>8, <1>9,
       <1>10, <1>11, <1>12, <1>13, <1>14, <1>15, <1>16, <1>17, <1>18
    DEF Next, Requests, BackendStep, ReturnStep, Eviction

\* Type correctness of the manager's state.
THEOREM TypeCorrect == Spec => []TypeOK
  BY TypeInit, TypeStep, PTL DEF Spec

-----------------------------------------------------------------------------
(* The inductive invariant *)

\* A create in flight stays one until its own call returns.
LEMMA AwaitKeepsCreates ==
    ASSUME CallsTyped, clock \in Nat,
           NEW c \in Calls, NEW id \in Sandboxes, NEW user \in Owners,
           NEW op \in {"create", "execute", "destroy"},
           calls[c].op = "idle", Await(c, op, id, user)
    PROVE  BeingCreated \subseteq BeingCreated'
  <1>1. \A d \in Calls : d # c => calls'[d] = calls[d]
    BY AwaitEffect
  <1>. QED
    BY <1>1 DEF BeingCreated, Doing

LEMMA SettleKeepsCreates ==
    ASSUME CallsTyped, NEW c \in Calls, NEW stage \in Stages, Settle(c, stage)
    PROVE  BeingCreated \subseteq BeingCreated'
  BY SettleEffect DEF BeingCreated, Doing

LEMMA ReturnKeepsCreates ==
    ASSUME CallsTyped, NEW c \in Calls, Return(c)
    PROVE  /\ BeingCreated \ {calls[c].id} \subseteq BeingCreated'
           /\ calls[c].op # "create" => BeingCreated \subseteq BeingCreated'
  BY ReturnEffect DEF BeingCreated, Doing

\* A VM is forgotten by a failed create, an eviction that failed or a restart.
LEMMA ForgottenStep ==
    ASSUME TypeOK, CallsSound, TimersSound, ForgottenOnlyByFault, [Next]_vars
    PROVE  ForgottenOnlyByFault'
  <1>1. CASE UNCHANGED <<abandoned, restarts>>
    BY <1>1 DEF ForgottenOnlyByFault
  <1>2. ASSUME NEW c \in Calls,
             CreateFails(c)
      PROVE  ForgottenOnlyByFault'
    <2>1. BackendMayFail
      BY <1>2 DEF CreateFails, At, CallsSound, CreateSound, DestroySound
    <2>. QED
      BY <2>1 DEF ForgottenOnlyByFault
  <1>3. ASSUME NEW t \in Timers,
             EvictReturns(t)
      PROVE  ForgottenOnlyByFault'
    BY <1>3
    DEF EvictReturns, Forget, Answered, TimersSound, TimerSound,
        ForgottenOnlyByFault
  <1>4. CASE Restart
    BY <1>4, NatAssumption DEF Restart, TypeOK, ForgottenOnlyByFault
  <1>. QED
    BY <1>1, <1>2, <1>3, <1>4
    DEF Next, Requests, BackendStep, ReturnStep, Eviction, CreateBegins,
        BackendCreates, CreateReturns, ExecuteBegins, Touch, BackendExecutes,
        ExecuteReturns, ExecuteFails, DestroyBegins, BackendDestroys,
        DestroyReturns, Forget, DestroyFails, EvictBegins, BackendEvicts, Tick,
        vars, memory

\* Whoever takes an id out of the Map or ends its create has destroyed the
\* VM or puts it among the forgotten ones.
LEMMA LiveVmStep ==
    ASSUME TypeOK, CallsSound, LiveVmIsKnown, [Next]_vars
    PROVE  LiveVmIsKnown'
  <1>1. CASE UNCHANGED <<running, calls, vms, abandoned>>
    BY <1>1 DEF LiveVmIsKnown, BeingCreated, Doing
  <1>2. ASSUME NEW c \in Calls, NEW id \in Sandboxes, NEW user \in Owners,
             CreateBegins(c, id, user)
      PROVE  LiveVmIsKnown'
    BY <1>2, AwaitKeepsCreates DEF TypeOK, CreateBegins, LiveVmIsKnown
  <1>3. ASSUME NEW c \in Calls,
             BackendCreates(c)
      PROVE  LiveVmIsKnown'
    <2>1. PICK stage \in Stages : Settle(c, stage)
      BY <1>3 DEF BackendCreates, Stages
    <2>2. BeingCreated \subseteq BeingCreated'
      BY <2>1, SettleKeepsCreates DEF TypeOK
    <2>3. calls[c].id \in BeingCreated
      BY <1>3 DEF BackendCreates, At, BeingCreated, Doing
    <2>. QED
      BY <1>3, <2>2, <2>3 DEF BackendCreates, LiveVmIsKnown
  <1>4. ASSUME NEW c \in Calls,
             CreateReturns(c)
      PROVE  LiveVmIsKnown'
    BY <1>4, ReturnKeepsCreates DEF TypeOK, CreateReturns, At, LiveVmIsKnown
  <1>5. ASSUME NEW c \in Calls,
             CreateFails(c)
      PROVE  LiveVmIsKnown'
    BY <1>5, ReturnKeepsCreates DEF TypeOK, CreateFails, At, LiveVmIsKnown
  <1>6. ASSUME NEW c \in Calls, NEW id \in Sandboxes, NEW user \in Owners,
             ExecuteBegins(c, id, user)
      PROVE  LiveVmIsKnown'
    BY <1>6, AwaitKeepsCreates DEF TypeOK, ExecuteBegins, Touch, LiveVmIsKnown
  <1>7. ASSUME NEW c \in Calls,
             BackendExecutes(c)
      PROVE  LiveVmIsKnown'
    <2>1. PICK stage \in Stages : Settle(c, stage)
      BY <1>7 DEF BackendExecutes, Stages
    <2>2. BeingCreated \subseteq BeingCreated'
      BY <2>1, SettleKeepsCreates DEF TypeOK
    <2>. QED
      BY <1>7, <2>2 DEF BackendExecutes, LiveVmIsKnown
  <1>8. ASSUME NEW c \in Calls,
             ExecuteReturns(c)
      PROVE  LiveVmIsKnown'
    BY <1>8, ReturnKeepsCreates DEF TypeOK, ExecuteReturns, At, LiveVmIsKnown
  <1>9. ASSUME NEW c \in Calls,
             ExecuteFails(c)
      PROVE  LiveVmIsKnown'
    BY <1>9, ReturnKeepsCreates DEF TypeOK, ExecuteFails, At, LiveVmIsKnown
  <1>10. ASSUME NEW c \in Calls, NEW id \in Sandboxes, NEW user \in Owners,
             DestroyBegins(c, id, user)
      PROVE  LiveVmIsKnown'
    BY <1>10, AwaitKeepsCreates DEF TypeOK, DestroyBegins, LiveVmIsKnown
  <1>11. ASSUME NEW c \in Calls,
             BackendDestroys(c)
      PROVE  LiveVmIsKnown'
    <2>1. PICK stage \in Stages : Settle(c, stage)
      BY <1>11 DEF BackendDestroys, Stages
    <2>2. BeingCreated \subseteq BeingCreated'
      BY <2>1, SettleKeepsCreates DEF TypeOK
    <2>. QED
      BY <1>11, <2>2 DEF BackendDestroys, LiveVmIsKnown
  <1>12. ASSUME NEW c \in Calls,
             DestroyReturns(c)
      PROVE  LiveVmIsKnown'
    <2>1. BeingCreated \subseteq BeingCreated'
      BY <1>12, ReturnKeepsCreates DEF TypeOK, DestroyReturns, Forget, At
    <2>2. calls[c].id \notin vms
      BY <1>12
      DEF DestroyReturns, Forget, At, CallsSound, CreateSound, DestroySound
    <2>. QED
      BY <1>12, <2>1, <2>2 DEF DestroyReturns, Forget, LiveVmIsKnown
  <1>13. ASSUME NEW c \in Calls,
             DestroyFails(c)
      PROVE  LiveVmIsKnown'
    BY <1>13, ReturnKeepsCreates DEF TypeOK, DestroyFails, At, LiveVmIsKnown
  <1>14. ASSUME NEW t \in Timers,
             BackendEvicts(t)
      PROVE  LiveVmIsKnown'
    BY <1>14 DEF BackendEvicts, LiveVmIsKnown, BeingCreated, Doing
  <1>15. ASSUME NEW t \in Timers,
             EvictReturns(t)
      PROVE  LiveVmIsKnown'
    BY <1>15
    DEF EvictReturns, Forget, Answered, LiveVmIsKnown, BeingCreated, Doing
  <1>16. CASE Restart
    BY <1>16 DEF Restart, LiveVmIsKnown
  <1>. QED
    BY <1>1, <1>2, <1>3, <1>4, <1>5, <1>6, <1>7, <1>8, <1>9, <1>10, <1>11,
       <1>12, <1>13, <1>14, <1>15, <1>16
    DEF Next, Requests, BackendStep, ReturnStep, Eviction, EvictBegins,
        Tick, vars, memory

\* A record, once there, stays, with its owner and its creation time; its last
\* use is the same or now.
RecordKept(id) ==
    /\ row'[id].status # "none"
    /\ row'[id].userId = row[id].userId
    /\ row'[id].createdAt = row[id].createdAt
    /\ row'[id].lastUsedAt \in {row[id].lastUsedAt, clock}

\* No step removes a record, reopens it for another owner or moves its
\* creation.
LEMMA RecordIsKept ==
    ASSUME TypeOK, CallsSound, [Next]_vars,
           NEW i \in Sandboxes, row[i].status # "none"
    PROVE  RecordKept(i)
  <1>1. CASE UNCHANGED row
    BY <1>1 DEF RecordKept
  <1>2. ASSUME NEW c \in Calls,
             CreateReturns(c)
      PROVE  RecordKept(i)
    <2>1. calls[c].id # i
      BY <1>2
      DEF CreateReturns, At, CallsSound, CreateSound, TypeOK, CallsTyped
    <2>. QED
      BY <1>2, <2>1 DEF CreateReturns, TypeOK, RecordKept
  <1>3. ASSUME NEW c \in Calls, NEW id \in Sandboxes, NEW user \in Owners,
             ExecuteBegins(c, id, user)
      PROVE  RecordKept(i)
    BY <1>3, TouchEffect DEF ExecuteBegins, Touch, TypeOK, RecordKept
  <1>4. ASSUME NEW c \in Calls,
             DestroyReturns(c)
      PROVE  RecordKept(i)
    <2>1. calls[c].id \in Sandboxes
      BY <1>4, CallFields DEF DestroyReturns, Forget, At, TypeOK
    <2>. QED
      BY <1>4, <2>1, MarkDestroyedEffect
      DEF DestroyReturns, Forget, TypeOK, RecordKept
  <1>5. ASSUME NEW t \in Timers,
             EvictReturns(t)
      PROVE  RecordKept(i)
    <2>1. timers[t].id \in Sandboxes /\ timers[t].now \in Nat
      BY <1>5, TimerFields DEF EvictReturns, Forget, Answered, TypeOK
    <2>. QED
      BY <1>5, <2>1, MarkDestroyedEffect
      DEF EvictReturns, Forget, Answered, TypeOK, RecordKept
  <1>. QED
    BY <1>1, <1>2, <1>3, <1>4, <1>5
    DEF Next, Requests, BackendStep, ReturnStep, Eviction, CreateBegins,
        BackendCreates, CreateFails, BackendExecutes, ExecuteReturns,
        ExecuteFails, DestroyBegins, BackendDestroys, DestroyFails,
        EvictBegins, BackendEvicts, Tick, Restart, vars, store, memory

\* A sandbox that has a record never gets a VM again.
LEMMA NoNewVm ==
    ASSUME TypeOK, CallsSound, [Next]_vars,
           NEW i \in Sandboxes, row[i].status # "none", i \notin vms
    PROVE  i \notin vms'
  <1>1. CASE UNCHANGED vms
    BY <1>1
  <1>2. ASSUME NEW c \in Calls,
             BackendCreates(c)
      PROVE  i \notin vms'
    BY <1>2 DEF BackendCreates, At, CallsSound, CreateSound
  <1>3. ASSUME NEW c \in Calls,
             BackendDestroys(c)
      PROVE  i \notin vms'
    BY <1>3 DEF BackendDestroys
  <1>4. ASSUME NEW t \in Timers,
             BackendEvicts(t)
      PROVE  i \notin vms'
    BY <1>4 DEF BackendEvicts
  <1>5. CASE Restart
    BY <1>5 DEF Restart, BeingCreated, Doing, CallsSound, CreateSound
  <1>. QED
    BY <1>1, <1>2, <1>3, <1>4, <1>5
    DEF Next, Requests, BackendStep, ReturnStep, Eviction, CreateBegins,
        CreateReturns, CreateFails, ExecuteBegins, Touch, BackendExecutes,
        ExecuteReturns, ExecuteFails, DestroyBegins, DestroyReturns, Forget,
        DestroyFails, EvictBegins, EvictReturns, Answered, Tick, vars, memory

\* Date.now() does not go back.
LEMMA ClockGrows ==
    ASSUME TypeOK, [Next]_vars
    PROVE  clock' >= clock
  <1>1. CASE UNCHANGED clock
    BY <1>1 DEF TypeOK
  <1>2. CASE Tick
    BY <1>2 DEF Tick, TypeOK
  <1>. QED
    BY <1>1, <1>2
    DEF Next, Requests, BackendStep, ReturnStep, Eviction, CreateBegins,
        BackendCreates, CreateReturns, CreateFails, ExecuteBegins, Touch,
        BackendExecutes, ExecuteReturns, ExecuteFails, DestroyBegins,
        BackendDestroys, DestroyReturns, Forget, DestroyFails, EvictBegins,
        BackendEvicts, EvictReturns, Answered, Restart, vars

\* While a create is in flight nobody opens a record under its id.
LEMMA ClaimIsKept ==
    ASSUME TypeOK, CallsSound, CreatesDistinct, TimersSound,
           StoreMirrorsMemory, [Next]_vars,
           NEW d \in Calls, calls[d].op = "create", calls'[d] = calls[d],
           row[calls[d].id].status = "none"
    PROVE  row'[calls[d].id].status = "none"
  <1>1. CASE UNCHANGED row
    BY <1>1
  <1>2. ASSUME NEW c \in Calls,
             CreateReturns(c)
      PROVE  row'[calls[d].id].status = "none"
    <2>1. c # d
      BY <1>2, ReturnEffect DEF CreateReturns, TypeOK, IdleCall
    <2>2. calls[c].id # calls[d].id
      BY <1>2, <2>1 DEF CreateReturns, At, CreatesDistinct, Doing
    <2>. QED
      BY <1>2, <2>2, CallFields DEF CreateReturns, At, TypeOK
  <1>3. ASSUME NEW c \in Calls, NEW id \in Sandboxes, NEW user \in Owners,
             ExecuteBegins(c, id, user)
      PROVE  row'[calls[d].id].status = "none"
    <2>1. id # calls[d].id
      BY <1>3 DEF ExecuteBegins, Touch, MayUse, StoreMirrorsMemory
    <2>. QED
      BY <1>3, <2>1, CallFields, TouchEffect DEF ExecuteBegins, Touch, TypeOK
  <1>4. ASSUME NEW c \in Calls,
             DestroyReturns(c)
      PROVE  row'[calls[d].id].status = "none"
    <2>1. calls[c].id # calls[d].id /\ calls[c].id \in Sandboxes
      BY <1>4, CallFields
      DEF DestroyReturns, Forget, At, CallsSound, UseSound, TypeOK
    <2>. QED
      BY <1>4, <2>1, CallFields, MarkDestroyedEffect
      DEF DestroyReturns, Forget, TypeOK
  <1>5. ASSUME NEW t \in Timers,
             EvictReturns(t)
      PROVE  row'[calls[d].id].status = "none"
    <2>1. /\ timers[t].id # calls[d].id
          /\ timers[t].id \in Sandboxes
          /\ timers[t].now \in Nat
      BY <1>5, TimerFields
      DEF EvictReturns, Forget, Answered, TimersSound, TimerSound, TypeOK
    <2>. QED
      BY <1>5, <2>1, CallFields, MarkDestroyedEffect
      DEF EvictReturns, Forget, Answered, TypeOK
  <1>. QED
    BY <1>1, <1>2, <1>3, <1>4, <1>5
    DEF Next, Requests, BackendStep, ReturnStep, Eviction, CreateBegins,
        BackendCreates, CreateFails, BackendExecutes, ExecuteReturns,
        ExecuteFails, DestroyBegins, BackendDestroys, DestroyFails,
        EvictBegins, BackendEvicts, Tick, Restart, vars, store, memory

\* What a call relies on after its await survives the steps of the others.
LEMMA OtherCallsSound ==
    ASSUME TypeOK, CallsSound, CreatesDistinct, TimersSound,
           StoreMirrorsMemory, [Next]_vars,
           NEW d \in Calls, calls'[d] = calls[d]
    PROVE  CreateSound(d)' /\ UseSound(d)' /\ DestroySound(d)'
  <1>1. CreateSound(d)'
    <2> SUFFICES ASSUME calls[d].op = "create"
                 PROVE  /\ row'[calls[d].id].status = "none"
                        /\ calls[d].now <= clock'
                        /\ calls[d].stage = "failed" => BackendMayFail
      BY DEF CreateSound
    <2>1. /\ row[calls[d].id].status = "none"
          /\ calls[d].now <= clock
          /\ calls[d].stage = "failed" => BackendMayFail
      BY DEF CallsSound, CreateSound
    <2>2. calls[d].now \in Nat /\ clock \in Nat /\ clock' \in Nat
      BY CallFields, TypeStep DEF TypeOK
    <2>3. clock' >= clock
      BY ClockGrows
    <2>4. row'[calls[d].id].status = "none"
      BY <2>1, ClaimIsKept
    <2>. QED
      BY <2>1, <2>2, <2>3, <2>4
  <1>2. UseSound(d)'
    BY RecordIsKept, CallFields DEF CallsSound, UseSound, RecordKept, TypeOK
  <1>3. DestroySound(d)'
    <2> SUFFICES ASSUME calls[d].op = "destroy"
                 PROVE  /\ MayEnd(calls[d].user, calls[d].id)'
                        /\ calls[d].stage = "done" => calls[d].id \notin vms'
      BY DEF DestroySound
    <2>1. calls[d].id \in Sandboxes /\ row[calls[d].id].status # "none"
      BY CallFields DEF CallsSound, UseSound, TypeOK
    <2>. QED
      BY <2>1, RecordIsKept, NoNewVm
      DEF CallsSound, DestroySound, MayEnd, RecordKept
  <1>. QED
    BY <1>1, <1>2, <1>3

\* Each call keeps what it relies on: its own step establishes it, and the
\* steps of the others do not disturb it.
LEMMA CallsSoundStep ==
    ASSUME TypeOK, CallsSound, CreatesDistinct, TimersSound,
           StoreMirrorsMemory, [Next]_vars
    PROVE  CallsSound'
  <1>1. CASE UNCHANGED calls
    BY <1>1, OtherCallsSound DEF CallsSound
  <1>2. ASSUME NEW c \in Calls, NEW id \in Sandboxes, NEW user \in Owners,
             CreateBegins(c, id, user)
      PROVE  CallsSound'
    <2>1. \A d \in Calls : d # c => calls'[d] = calls[d]
      BY <1>2, AwaitEffect DEF CreateBegins, TypeOK, Stages
    <2>2. CreateSound(c)' /\ UseSound(c)' /\ DestroySound(c)'
      <3>1. calls'[c] = [op |-> "create", stage |-> "pending", id |-> id,
                         user |-> user, now |-> clock]
        BY <1>2, AwaitEffect DEF CreateBegins, TypeOK
      <3>. QED
        BY <1>2, <3>1
        DEF CreateBegins, TypeOK, store, Fresh, CreateSound, UseSound,
              DestroySound
    <2>. QED
      BY <2>1, <2>2, OtherCallsSound DEF CallsSound
  <1>3. ASSUME NEW c \in Calls,
             BackendCreates(c)
      PROVE  CallsSound'
    <2>1. \A d \in Calls : d # c => calls'[d] = calls[d]
      BY <1>3, SettleEffect DEF BackendCreates, TypeOK, Stages
    <2>2. CreateSound(c)' /\ UseSound(c)' /\ DestroySound(c)'
      <3>1. PICK stage \in Stages : Settle(c, stage)
        BY <1>3 DEF BackendCreates, Stages
      <3>2. /\ calls'[c].op = calls[c].op
            /\ calls'[c].id = calls[c].id
            /\ calls'[c].user = calls[c].user
            /\ calls'[c].now = calls[c].now
            /\ calls'[c].stage = stage
        BY <3>1, SettleEffect DEF TypeOK
      <3>3. stage = "failed" => BackendMayFail
        BY <1>3, <3>2
        DEF BackendCreates, Settle, CallsTyped, TypeOK, CallType, store
      <3>. QED
        BY <1>3, <3>2, <3>3
        DEF BackendCreates, At, store, MayEnd, CallsSound, CreateSound,
           UseSound,
            DestroySound
    <2>. QED
      BY <2>1, <2>2, OtherCallsSound DEF CallsSound
  <1>4. ASSUME NEW c \in Calls,
             CreateReturns(c)
      PROVE  CallsSound'
    <2>1. \A d \in Calls : d # c => calls'[d] = calls[d]
      BY <1>4, ReturnEffect DEF CreateReturns, TypeOK, Stages
    <2>2. CreateSound(c)' /\ UseSound(c)' /\ DestroySound(c)'
      BY <1>4, ReturnEffect DEF CreateReturns, TypeOK, IdleCall,
         CreateSound, UseSound, DestroySound
    <2>. QED
      BY <2>1, <2>2, OtherCallsSound DEF CallsSound
  <1>5. ASSUME NEW c \in Calls,
             CreateFails(c)
      PROVE  CallsSound'
    <2>1. \A d \in Calls : d # c => calls'[d] = calls[d]
      BY <1>5, ReturnEffect DEF CreateFails, TypeOK, Stages
    <2>2. CreateSound(c)' /\ UseSound(c)' /\ DestroySound(c)'
      BY <1>5, ReturnEffect DEF CreateFails, TypeOK, IdleCall,
         CreateSound, UseSound, DestroySound
    <2>. QED
      BY <2>1, <2>2, OtherCallsSound DEF CallsSound
  <1>6. ASSUME NEW c \in Calls, NEW id \in Sandboxes, NEW user \in Owners,
             ExecuteBegins(c, id, user)
      PROVE  CallsSound'
    <2>1. \A d \in Calls : d # c => calls'[d] = calls[d]
      BY <1>6, AwaitEffect DEF ExecuteBegins, Touch, TypeOK, Stages
    <2>2. CreateSound(c)' /\ UseSound(c)' /\ DestroySound(c)'
      <3>1. calls'[c] = [op |-> "execute", stage |-> "pending", id |-> id,
                         user |-> user, now |-> clock]
        BY <1>6, AwaitEffect DEF ExecuteBegins, Touch, TypeOK
      <3>. QED
        BY <1>6, <3>1, TouchEffect
        DEF ExecuteBegins, Touch, TypeOK, MayUse, StoreMirrorsMemory,
            CreateSound,
           UseSound,
            DestroySound
    <2>. QED
      BY <2>1, <2>2, OtherCallsSound DEF CallsSound
  <1>7. ASSUME NEW c \in Calls,
             BackendExecutes(c)
      PROVE  CallsSound'
    <2>1. \A d \in Calls : d # c => calls'[d] = calls[d]
      BY <1>7, SettleEffect DEF BackendExecutes, TypeOK, Stages
    <2>2. CreateSound(c)' /\ UseSound(c)' /\ DestroySound(c)'
      <3>1. PICK stage \in Stages : Settle(c, stage)
        BY <1>7 DEF BackendExecutes, Stages
      <3>2. /\ calls'[c].op = calls[c].op
            /\ calls'[c].id = calls[c].id
            /\ calls'[c].user = calls[c].user
            /\ calls'[c].now = calls[c].now
            /\ calls'[c].stage = stage
        BY <3>1, SettleEffect DEF TypeOK
      <3>3. row' = row
        BY <1>7, <3>2
        DEF BackendExecutes, Settle, CallsTyped, TypeOK, CallType, store
      <3>. QED
        BY <1>7, <3>2, <3>3
        DEF BackendExecutes, At, store, MayEnd, CallsSound, CreateSound,
           UseSound,
            DestroySound
    <2>. QED
      BY <2>1, <2>2, OtherCallsSound DEF CallsSound
  <1>8. ASSUME NEW c \in Calls,
             ExecuteReturns(c)
      PROVE  CallsSound'
    <2>1. \A d \in Calls : d # c => calls'[d] = calls[d]
      BY <1>8, ReturnEffect DEF ExecuteReturns, TypeOK, Stages
    <2>2. CreateSound(c)' /\ UseSound(c)' /\ DestroySound(c)'
      BY <1>8, ReturnEffect DEF ExecuteReturns, TypeOK, IdleCall,
         CreateSound, UseSound, DestroySound
    <2>. QED
      BY <2>1, <2>2, OtherCallsSound DEF CallsSound
  <1>9. ASSUME NEW c \in Calls,
             ExecuteFails(c)
      PROVE  CallsSound'
    <2>1. \A d \in Calls : d # c => calls'[d] = calls[d]
      BY <1>9, ReturnEffect DEF ExecuteFails, TypeOK, Stages
    <2>2. CreateSound(c)' /\ UseSound(c)' /\ DestroySound(c)'
      BY <1>9, ReturnEffect DEF ExecuteFails, TypeOK, IdleCall,
         CreateSound, UseSound, DestroySound
    <2>. QED
      BY <2>1, <2>2, OtherCallsSound DEF CallsSound
  <1>10. ASSUME NEW c \in Calls, NEW id \in Sandboxes, NEW user \in Owners,
             DestroyBegins(c, id, user)
      PROVE  CallsSound'
    <2>1. \A d \in Calls : d # c => calls'[d] = calls[d]
      BY <1>10, AwaitEffect DEF DestroyBegins, TypeOK, Stages
    <2>2. CreateSound(c)' /\ UseSound(c)' /\ DestroySound(c)'
      <3>1. calls'[c] = [op |-> "destroy", stage |-> "pending", id |-> id,
                         user |-> user, now |-> clock]
        BY <1>10, AwaitEffect DEF DestroyBegins, TypeOK
      <3>. QED
        BY <1>10, <3>1
        DEF DestroyBegins, TypeOK, store, MayUse, MayEnd, StoreMirrorsMemory,
            CreateSound, UseSound, DestroySound
    <2>. QED
      BY <2>1, <2>2, OtherCallsSound DEF CallsSound
  <1>11. ASSUME NEW c \in Calls,
             BackendDestroys(c)
      PROVE  CallsSound'
    <2>1. \A d \in Calls : d # c => calls'[d] = calls[d]
      BY <1>11, SettleEffect DEF BackendDestroys, TypeOK, Stages
    <2>2. CreateSound(c)' /\ UseSound(c)' /\ DestroySound(c)'
      <3>1. PICK stage \in Stages : Settle(c, stage)
        BY <1>11 DEF BackendDestroys, Stages
      <3>2. /\ calls'[c].op = calls[c].op
            /\ calls'[c].id = calls[c].id
            /\ calls'[c].user = calls[c].user
            /\ calls'[c].now = calls[c].now
            /\ calls'[c].stage = stage
        BY <3>1, SettleEffect DEF TypeOK
      <3>3. stage = "done" => vms' = vms \ {calls[c].id}
        BY <1>11, <3>2
        DEF BackendDestroys, Settle, CallsTyped, TypeOK, CallType, store
      <3>. QED
        BY <1>11, <3>2, <3>3
        DEF BackendDestroys, At, store, MayEnd, CallsSound, CreateSound,
           UseSound,
            DestroySound
    <2>. QED
      BY <2>1, <2>2, OtherCallsSound DEF CallsSound
  <1>12. ASSUME NEW c \in Calls,
             DestroyReturns(c)
      PROVE  CallsSound'
    <2>1. \A d \in Calls : d # c => calls'[d] = calls[d]
      BY <1>12, ReturnEffect DEF DestroyReturns, Forget, TypeOK, Stages
    <2>2. CreateSound(c)' /\ UseSound(c)' /\ DestroySound(c)'
      BY <1>12, ReturnEffect DEF DestroyReturns, Forget, TypeOK, IdleCall,
         CreateSound, UseSound, DestroySound
    <2>. QED
      BY <2>1, <2>2, OtherCallsSound DEF CallsSound
  <1>13. ASSUME NEW c \in Calls,
             DestroyFails(c)
      PROVE  CallsSound'
    <2>1. \A d \in Calls : d # c => calls'[d] = calls[d]
      BY <1>13, ReturnEffect DEF DestroyFails, TypeOK, Stages
    <2>2. CreateSound(c)' /\ UseSound(c)' /\ DestroySound(c)'
      BY <1>13, ReturnEffect DEF DestroyFails, TypeOK, IdleCall,
         CreateSound, UseSound, DestroySound
    <2>. QED
      BY <2>1, <2>2, OtherCallsSound DEF CallsSound
  <1>14. CASE Restart
    BY <1>14
    DEF Restart, IdleCall, CallsSound, CreateSound, UseSound, DestroySound
  <1>. QED
    BY <1>1, <1>2, <1>3, <1>4, <1>5, <1>6, <1>7, <1>8, <1>9, <1>10, <1>11,
       <1>12, <1>13, <1>14
    DEF Next, Requests, BackendStep, ReturnStep, Eviction, EvictBegins,
        BackendEvicts, EvictReturns, Forget, Answered, Tick, vars, memory

\* Two creates in flight have different ids.
LEMMA CreatesDistinctStep ==
    ASSUME TypeOK, CreatesDistinct, [Next]_vars
    PROVE  CreatesDistinct'
  <1>1. CASE UNCHANGED calls
    BY <1>1 DEF CreatesDistinct, Doing
  <1>2. ASSUME NEW c \in Calls, NEW id \in Sandboxes, NEW user \in Owners,
             CreateBegins(c, id, user)
      PROVE  CreatesDistinct'
    <2>1. /\ calls'[c] = [op |-> "create", stage |-> "pending", id |-> id,
                          user |-> user, now |-> clock]
          /\ \A d \in Calls : d # c => calls'[d] = calls[d]
      BY <1>2, AwaitEffect DEF CreateBegins, TypeOK
    <2>2. \A d \in Calls : calls[d].op = "create" => calls[d].id # id
      BY <1>2 DEF CreateBegins, Fresh, BeingCreated, Doing
    <2>. QED
      BY <2>1, <2>2 DEF CreatesDistinct, Doing
  <1>3. ASSUME NEW c \in Calls,
             BackendCreates(c)
      PROVE  CreatesDistinct'
    <2>1. \A d \in Calls : calls'[d].op = "create" =>
              calls[d].op = "create" /\ calls'[d].id = calls[d].id
      <3>1. PICK stage \in Stages : Settle(c, stage)
        BY <1>3 DEF BackendCreates, Stages
      <3>. QED
        BY <3>1, SettleEffect DEF TypeOK
    <2>. QED
      BY <2>1 DEF CreatesDistinct, Doing
  <1>4. ASSUME NEW c \in Calls,
             CreateReturns(c)
      PROVE  CreatesDistinct'
    <2>1. \A d \in Calls : calls'[d].op = "create" =>
              calls[d].op = "create" /\ calls'[d].id = calls[d].id
      <3>1. /\ calls'[c] = IdleCall
            /\ \A d \in Calls : d # c => calls'[d] = calls[d]
        BY <1>4, ReturnEffect DEF CreateReturns, TypeOK
      <3>. QED
        BY <3>1 DEF IdleCall
    <2>. QED
      BY <2>1 DEF CreatesDistinct, Doing
  <1>5. ASSUME NEW c \in Calls,
             CreateFails(c)
      PROVE  CreatesDistinct'
    <2>1. \A d \in Calls : calls'[d].op = "create" =>
              calls[d].op = "create" /\ calls'[d].id = calls[d].id
      <3>1. /\ calls'[c] = IdleCall
            /\ \A d \in Calls : d # c => calls'[d] = calls[d]
        BY <1>5, ReturnEffect DEF CreateFails, TypeOK
      <3>. QED
        BY <3>1 DEF IdleCall
    <2>. QED
      BY <2>1 DEF CreatesDistinct, Doing
  <1>6. ASSUME NEW c \in Calls, NEW id \in Sandboxes, NEW user \in Owners,
             ExecuteBegins(c, id, user)
      PROVE  CreatesDistinct'
    <2>1. \A d \in Calls : calls'[d].op = "create" =>
              calls[d].op = "create" /\ calls'[d].id = calls[d].id
      <3>1. /\ calls'[c] = [op |-> "execute", stage |-> "pending", id |-> id,
                            user |-> user, now |-> clock]
            /\ \A d \in Calls : d # c => calls'[d] = calls[d]
        BY <1>6, AwaitEffect DEF ExecuteBegins, Touch, TypeOK
      <3>. QED
        BY <3>1
    <2>. QED
      BY <2>1 DEF CreatesDistinct, Doing
  <1>7. ASSUME NEW c \in Calls,
             BackendExecutes(c)
      PROVE  CreatesDistinct'
    <2>1. \A d \in Calls : calls'[d].op = "create" =>
              calls[d].op = "create" /\ calls'[d].id = calls[d].id
      <3>1. PICK stage \in Stages : Settle(c, stage)
        BY <1>7 DEF BackendExecutes, Stages
      <3>. QED
        BY <3>1, SettleEffect DEF TypeOK
    <2>. QED
      BY <2>1 DEF CreatesDistinct, Doing
  <1>8. ASSUME NEW c \in Calls,
             ExecuteReturns(c)
      PROVE  CreatesDistinct'
    <2>1. \A d \in Calls : calls'[d].op = "create" =>
              calls[d].op = "create" /\ calls'[d].id = calls[d].id
      <3>1. /\ calls'[c] = IdleCall
            /\ \A d \in Calls : d # c => calls'[d] = calls[d]
        BY <1>8, ReturnEffect DEF ExecuteReturns, TypeOK
      <3>. QED
        BY <3>1 DEF IdleCall
    <2>. QED
      BY <2>1 DEF CreatesDistinct, Doing
  <1>9. ASSUME NEW c \in Calls,
             ExecuteFails(c)
      PROVE  CreatesDistinct'
    <2>1. \A d \in Calls : calls'[d].op = "create" =>
              calls[d].op = "create" /\ calls'[d].id = calls[d].id
      <3>1. /\ calls'[c] = IdleCall
            /\ \A d \in Calls : d # c => calls'[d] = calls[d]
        BY <1>9, ReturnEffect DEF ExecuteFails, TypeOK
      <3>. QED
        BY <3>1 DEF IdleCall
    <2>. QED
      BY <2>1 DEF CreatesDistinct, Doing
  <1>10. ASSUME NEW c \in Calls, NEW id \in Sandboxes, NEW user \in Owners,
             DestroyBegins(c, id, user)
      PROVE  CreatesDistinct'
    <2>1. \A d \in Calls : calls'[d].op = "create" =>
              calls[d].op = "create" /\ calls'[d].id = calls[d].id
      <3>1. /\ calls'[c] = [op |-> "destroy", stage |-> "pending", id |-> id,
                            user |-> user, now |-> clock]
            /\ \A d \in Calls : d # c => calls'[d] = calls[d]
        BY <1>10, AwaitEffect DEF DestroyBegins, TypeOK
      <3>. QED
        BY <3>1
    <2>. QED
      BY <2>1 DEF CreatesDistinct, Doing
  <1>11. ASSUME NEW c \in Calls,
             BackendDestroys(c)
      PROVE  CreatesDistinct'
    <2>1. \A d \in Calls : calls'[d].op = "create" =>
              calls[d].op = "create" /\ calls'[d].id = calls[d].id
      <3>1. PICK stage \in Stages : Settle(c, stage)
        BY <1>11 DEF BackendDestroys, Stages
      <3>. QED
        BY <3>1, SettleEffect DEF TypeOK
    <2>. QED
      BY <2>1 DEF CreatesDistinct, Doing
  <1>12. ASSUME NEW c \in Calls,
             DestroyReturns(c)
      PROVE  CreatesDistinct'
    <2>1. \A d \in Calls : calls'[d].op = "create" =>
              calls[d].op = "create" /\ calls'[d].id = calls[d].id
      <3>1. /\ calls'[c] = IdleCall
            /\ \A d \in Calls : d # c => calls'[d] = calls[d]
        BY <1>12, ReturnEffect DEF DestroyReturns, Forget, TypeOK
      <3>. QED
        BY <3>1 DEF IdleCall
    <2>. QED
      BY <2>1 DEF CreatesDistinct, Doing
  <1>13. ASSUME NEW c \in Calls,
             DestroyFails(c)
      PROVE  CreatesDistinct'
    <2>1. \A d \in Calls : calls'[d].op = "create" =>
              calls[d].op = "create" /\ calls'[d].id = calls[d].id
      <3>1. /\ calls'[c] = IdleCall
            /\ \A d \in Calls : d # c => calls'[d] = calls[d]
        BY <1>13, ReturnEffect DEF DestroyFails, TypeOK
      <3>. QED
        BY <3>1 DEF IdleCall
    <2>. QED
      BY <2>1 DEF CreatesDistinct, Doing
  <1>14. CASE Restart
    BY <1>14 DEF Restart, IdleCall, CreatesDistinct, Doing
  <1>. QED
    BY <1>1, <1>2, <1>3, <1>4, <1>5, <1>6, <1>7, <1>8, <1>9, <1>10, <1>11,
       <1>12, <1>13, <1>14
    DEF Next, Requests, BackendStep, ReturnStep, Eviction, EvictBegins,
        BackendEvicts, EvictReturns, Forget, Answered, Tick, vars, memory

\* The steps of others do not disturb an eviction in flight.
LEMMA OtherTimersSound ==
    ASSUME TypeOK, CallsSound, TimersSound, [Next]_vars,
           NEW t \in Timers, timers'[t] = timers[t]
    PROVE  TimerSound(t)'
  <1> SUFFICES ASSUME timers[t].op = "evict"
               PROVE  TimerSound(t)'
    BY DEF TimerSound
  <1>1. /\ row[timers[t].id].status # "none"
        /\ timers[t].now <= clock
        /\ WasExpired(timers[t].id, timers[t].now)
        /\ timers[t].stage # "pending" =>
              BackendMayFail \/ timers[t].id \notin vms
    BY DEF TimersSound, TimerSound
  <1>2. timers[t].id \in Sandboxes /\ timers[t].now \in Nat
    BY TimerFields DEF TypeOK
  <1>3. clock \in Nat /\ clock' \in Nat /\ clock' >= clock
    BY ClockGrows, TypeStep DEF TypeOK
  <1>4. RecordKept(timers[t].id)
    BY <1>1, <1>2, RecordIsKept
  <1>5. timers[t].id \notin vms => timers[t].id \notin vms'
    BY <1>1, <1>2, NoNewVm
  <1>6. WasExpired(timers[t].id, timers[t].now)'
    BY <1>1, <1>2, <1>3, <1>4 DEF RecordKept, WasExpired
  <1>. QED
    BY <1>1, <1>2, <1>3, <1>4, <1>5, <1>6 DEF RecordKept, TimerSound

\* Each eviction in flight keeps what it relies on.
LEMMA TimersSoundStep ==
    ASSUME TypeOK, CallsSound, TimersSound, StoreMirrorsMemory,
           ClosedAfterOpened, [Next]_vars
    PROVE  TimersSound'
  <1>1. CASE UNCHANGED timers
    BY <1>1, OtherTimersSound DEF TimersSound
  <1>2. ASSUME NEW t \in Timers, NEW id \in Sandboxes,
             EvictBegins(t, id)
      PROVE  TimersSound'
    <2>1. /\ timers'[t] = [op |-> "evict", stage |-> "pending", id |-> id,
                           now |-> clock]
          /\ \A u \in Timers : u # t => timers'[u] = timers[u]
      BY <1>2, ScanEffect DEF EvictBegins, TypeOK
    <2>2. row[id].status # "none" /\ WasExpired(id, clock)
      <3>1. /\ info[id].lastUsedAt \in Nat
            /\ row[id].lastUsedAt \in Nat
            /\ row[id].createdAt \in Nat
            /\ clock \in Nat
        BY DEF TypeOK, RowType
      <3>2. row[id].status = "running" /\ row[id].lastUsedAt = info[id].lastUsedAt
        BY <1>2 DEF EvictBegins, StoreMirrorsMemory
      <3>3. row[id].createdAt <= row[id].lastUsedAt
        BY <3>2 DEF ClosedAfterOpened, OrderedTimes
      <3>4. clock > info[id].lastUsedAt + Ttl
        BY <1>2 DEF EvictBegins, Expired
      <3>. QED
        BY <3>1, <3>2, <3>3, <3>4, NatAssumption DEF WasExpired
    <2>3. TimerSound(t)'
      BY <1>2, <2>1, <2>2 DEF EvictBegins, store, TypeOK, TimerSound, WasExpired
    <2>. QED
      BY <2>1, <2>3, OtherTimersSound DEF TimersSound
  <1>3. ASSUME NEW t \in Timers,
             BackendEvicts(t)
      PROVE  TimersSound'
    <2>1. PICK stage \in Stages : timers' = [timers EXCEPT ![t].stage = stage]
      BY <1>3 DEF BackendEvicts, Stages
    <2>2. /\ timers'[t].op = timers[t].op
          /\ timers'[t].id = timers[t].id
          /\ timers'[t].now = timers[t].now
          /\ \A u \in Timers : u # t => timers'[u] = timers[u]
      BY <2>1, TimerSettleEffect DEF TypeOK
    <2>3. BackendMayFail \/ timers[t].id \notin vms'
      BY <1>3 DEF BackendEvicts
    <2>4. TimerSound(t)'
      BY <1>3, <2>2, <2>3 DEF BackendEvicts, store, TimersSound, TimerSound, WasExpired
    <2>. QED
      BY <2>2, <2>4, OtherTimersSound DEF TimersSound
  <1>4. ASSUME NEW t \in Timers,
             EvictReturns(t)
      PROVE  TimersSound'
    <2>1. timers[t].id \in Sandboxes /\ timers[t].now \in Nat
      BY <1>4, TimerFields DEF EvictReturns, Forget, Answered, TypeOK
    <2>2. timers[t].now <= clock
      BY <1>4 DEF EvictReturns, Forget, Answered, TimersSound, TimerSound
    <2>3. CASE timers' = [timers EXCEPT ![t] = IdleTimer]
      <3>1. /\ timers'[t] = IdleTimer
            /\ \A u \in Timers : u # t => timers'[u] = timers[u]
        BY <2>3, ScanEndEffect DEF TypeOK
      <3>2. TimerSound(t)'
        BY <3>1 DEF TimerSound, IdleTimer
      <3>. QED
        BY <3>1, <3>2, OtherTimersSound DEF TimersSound
    <2>4. CASE \E i \in running : /\ Expired(i, timers[t].now)
                                  /\ timers' = [timers EXCEPT
                                        ![t] = Evicting(i, timers[t].now)]
      <3>1. PICK i \in running : /\ Expired(i, timers[t].now)
                                 /\ timers' = [timers EXCEPT
                                       ![t] = Evicting(i, timers[t].now)]
        BY <2>4
      <3>2. i \in Sandboxes
        BY DEF TypeOK
      <3>3. /\ timers'[t] = [op |-> "evict", stage |-> "pending", id |-> i,
                             now |-> timers[t].now]
            /\ \A u \in Timers : u # t => timers'[u] = timers[u]
        BY <2>1, <3>1, <3>2, ScanEffect DEF TypeOK
      <3>4. row[i].status # "none" /\ WasExpired(i, timers[t].now)
        <4>1. /\ info[i].lastUsedAt \in Nat
              /\ row[i].lastUsedAt \in Nat
              /\ row[i].createdAt \in Nat
          BY <3>2 DEF TypeOK, RowType
        <4>2. /\ row[i].status = "running"
              /\ row[i].lastUsedAt = info[i].lastUsedAt
          BY DEF StoreMirrorsMemory
        <4>3. row[i].createdAt <= row[i].lastUsedAt
          BY <3>2, <4>2 DEF ClosedAfterOpened, OrderedTimes
        <4>4. timers[t].now > info[i].lastUsedAt + Ttl
          BY <3>1 DEF Expired
        <4>. QED
          BY <2>1, <4>1, <4>2, <4>3, <4>4, NatAssumption DEF WasExpired
      <3>5. RecordKept(i)
        BY <3>2, <3>4, RecordIsKept
      <3>6. clock' = clock
        BY <1>4 DEF EvictReturns, Forget, Answered
      <3>7. WasExpired(i, timers[t].now)'
        BY <2>2, <3>3, <3>4, <3>5 DEF RecordKept, WasExpired
      <3>8. TimerSound(t)'
        <4>1. /\ row'[timers'[t].id].status # "none"
              /\ timers'[t].now <= clock' /\ timers'[t].stage = "pending"
          BY <2>2, <3>3, <3>5, <3>6 DEF RecordKept
        <4>2. WasExpired(timers[t].id, timers[t].now)'
          BY <3>3, <3>7 DEF WasExpired
        <4>. QED
          BY <4>1, <4>2 DEF TimerSound
      <3>. QED
        BY <3>3, <3>8, OtherTimersSound DEF TimersSound
    <2>. QED
      BY <1>4, <2>3, <2>4 DEF EvictReturns, Forget, Answered
  <1>5. CASE Restart
    BY <1>5 DEF Restart, IdleTimer, TimersSound, TimerSound
  <1>. QED
    BY <1>1, <1>2, <1>3, <1>4, <1>5
    DEF Next, Requests, BackendStep, ReturnStep, Eviction, CreateBegins,
        BackendCreates, CreateReturns, CreateFails, ExecuteBegins, Touch,
        BackendExecutes, ExecuteReturns, ExecuteFails, DestroyBegins,
        BackendDestroys, DestroyReturns, Forget, DestroyFails, Tick, vars, memory

\* The Map and the table change together.
LEMMA StoreMirrorsStep ==
    ASSUME TypeOK, CallsSound, TimersSound, StoreMirrorsMemory, [Next]_vars
    PROVE  StoreMirrorsMemory'
  <1>1. CASE UNCHANGED <<running, info, row, restarts>>
    BY <1>1 DEF StoreMirrorsMemory
  <1>2. ASSUME NEW c \in Calls,
             CreateReturns(c)
      PROVE  StoreMirrorsMemory'
    <2>1. /\ calls[c].id \in Sandboxes /\ calls[c].user \in Owners
          /\ calls[c].now \in Nat
      BY <1>2, CallFields DEF CreateReturns, At, TypeOK
    <2>. QED
      BY <1>2, <2>1 DEF CreateReturns, TypeOK, StoreMirrorsMemory
  <1>3. ASSUME NEW c \in Calls, NEW id \in Sandboxes, NEW user \in Owners,
             ExecuteBegins(c, id, user)
      PROVE  StoreMirrorsMemory'
    BY <1>3, TouchEffect, UseEffect
    DEF ExecuteBegins, Touch, TypeOK, StoreMirrorsMemory
  <1>4. ASSUME NEW c \in Calls,
             DestroyReturns(c)
      PROVE  StoreMirrorsMemory'
    <2>1. /\ calls[c].id \in Sandboxes /\ calls[c].user \in Owners
          /\ calls[c].now \in Nat
      BY <1>4, CallFields DEF DestroyReturns, Forget, At, TypeOK
    <2>2. /\ row'[calls[c].id].status = "destroyed"
          /\ \A i \in Sandboxes : i # calls[c].id => row'[i] = row[i]
      BY <1>4, <2>1, MarkDestroyedEffect DEF DestroyReturns, TypeOK
    <2>3. running' = running \ {calls[c].id} /\ UNCHANGED <<info, restarts>>
      BY <1>4 DEF DestroyReturns, Forget
    <2>. QED
      BY <2>1, <2>2, <2>3 DEF TypeOK, StoreMirrorsMemory
  <1>5. ASSUME NEW t \in Timers,
             EvictReturns(t)
      PROVE  StoreMirrorsMemory'
    <2>1. timers[t].id \in Sandboxes /\ timers[t].now \in Nat
      BY <1>5, TimerFields DEF EvictReturns, Forget, Answered, TypeOK
    <2>2. /\ row'[timers[t].id].status = "destroyed"
          /\ row'[timers[t].id].destroyedAt = timers[t].now
          /\ row'[timers[t].id].createdAt = row[timers[t].id].createdAt
          /\ row'[timers[t].id].lastUsedAt = row[timers[t].id].lastUsedAt
          /\ \A i \in Sandboxes : i # timers[t].id => row'[i] = row[i]
      BY <1>5, <2>1, MarkDestroyedEffect
      DEF EvictReturns, Forget, Answered, TypeOK
    <2>. QED
      BY <1>5, <2>1, <2>2
      DEF EvictReturns, Forget, Answered, TypeOK, StoreMirrorsMemory
  <1>6. CASE Restart
    BY <1>6 DEF Restart, TypeOK, StoreMirrorsMemory
  <1>. QED
    BY <1>1, <1>2, <1>3, <1>4, <1>5, <1>6
    DEF Next, Requests, BackendStep, ReturnStep, Eviction, CreateBegins,
        BackendCreates, CreateFails, BackendExecutes, ExecuteReturns,
        ExecuteFails, DestroyBegins, BackendDestroys, DestroyFails,
        EvictBegins, BackendEvicts, Tick, vars, store, memory

\* A scan's old time is still later than the creation of what it evicts.
LEMMA ClosedAfterOpenedStep ==
    ASSUME TypeOK, CallsSound, TimersSound, StoreMirrorsMemory,
           ClosedAfterOpened, [Next]_vars
    PROVE  ClosedAfterOpened'
  <1>1. CASE UNCHANGED <<row, clock>>
    BY <1>1 DEF ClosedAfterOpened, OrderedTimes
  <1>2. ASSUME NEW c \in Calls,
             CreateReturns(c)
      PROVE  ClosedAfterOpened'
    <2>1. /\ calls[c].id \in Sandboxes /\ calls[c].user \in Owners
          /\ calls[c].now \in Nat
      BY <1>2, CallFields DEF CreateReturns, At, TypeOK
    <2>2. calls[c].now <= clock /\ clock \in Nat
      BY <1>2 DEF CreateReturns, At, CallsSound, CreateSound, TypeOK
    <2>. QED
      BY <1>2, <2>1, <2>2
      DEF CreateReturns, TypeOK, RowType, ClosedAfterOpened, OrderedTimes
  <1>3. ASSUME NEW c \in Calls, NEW id \in Sandboxes, NEW user \in Owners,
             ExecuteBegins(c, id, user)
      PROVE  ClosedAfterOpened'
    <2>1. row[id].status = "running"
      BY <1>3 DEF ExecuteBegins, Touch, MayUse, StoreMirrorsMemory
    <2>2. /\ row[id].createdAt \in Nat
          /\ row[id].lastUsedAt \in Nat
          /\ clock \in Nat
      BY DEF TypeOK, RowType
    <2>3. row[id].createdAt <= clock
      BY <2>1, <2>2 DEF ClosedAfterOpened, OrderedTimes
    <2>. QED
      BY <1>3, <2>1, <2>2, <2>3, TouchEffect
      DEF ExecuteBegins, Touch, TypeOK, ClosedAfterOpened, OrderedTimes
  <1>4. ASSUME NEW c \in Calls,
             DestroyReturns(c)
      PROVE  ClosedAfterOpened'
    <2>1. /\ calls[c].id \in Sandboxes /\ calls[c].user \in Owners
          /\ calls[c].now \in Nat
      BY <1>4, CallFields DEF DestroyReturns, Forget, At, TypeOK
    <2>2. row[calls[c].id].status # "none"
      BY <1>4 DEF DestroyReturns, Forget, At, CallsSound, UseSound
    <2>3. /\ row[calls[c].id].createdAt \in Nat
          /\ row[calls[c].id].lastUsedAt \in Nat
          /\ clock \in Nat
      BY <2>1 DEF TypeOK, RowType
    <2>4. row[calls[c].id].createdAt <= clock
      BY <2>1, <2>2, <2>3 DEF ClosedAfterOpened, OrderedTimes
    <2>5. /\ row'[calls[c].id].status = "destroyed"
          /\ row'[calls[c].id].destroyedAt = clock
          /\ row'[calls[c].id].createdAt = row[calls[c].id].createdAt
          /\ row'[calls[c].id].lastUsedAt = row[calls[c].id].lastUsedAt
          /\ \A i \in Sandboxes : i # calls[c].id => row'[i] = row[i]
      BY <1>4, <2>1, MarkDestroyedEffect DEF DestroyReturns, Forget, TypeOK
    <2>. QED
      BY <1>4, <2>1, <2>2, <2>3, <2>4, <2>5
      DEF DestroyReturns, Forget, ClosedAfterOpened, OrderedTimes
  <1>5. ASSUME NEW t \in Timers,
             EvictReturns(t)
      PROVE  ClosedAfterOpened'
    <2>1. timers[t].id \in Sandboxes /\ timers[t].now \in Nat
      BY <1>5, TimerFields DEF EvictReturns, Forget, Answered, TypeOK
    <2>2. /\ row[timers[t].id].status # "none"
          /\ timers[t].now <= clock
          /\ timers[t].now > row[timers[t].id].createdAt + Ttl
      BY <1>5 DEF EvictReturns, Forget, Answered, TimersSound, TimerSound, WasExpired
    <2>3. row[timers[t].id].createdAt \in Nat /\ clock \in Nat
      BY <2>1 DEF TypeOK, RowType
    <2>4. row[timers[t].id].createdAt <= timers[t].now
      BY <2>1, <2>2, <2>3, NatAssumption
    <2>5. /\ row'[timers[t].id].status = "destroyed"
          /\ row'[timers[t].id].destroyedAt = timers[t].now
          /\ row'[timers[t].id].createdAt = row[timers[t].id].createdAt
          /\ row'[timers[t].id].lastUsedAt = row[timers[t].id].lastUsedAt
          /\ \A i \in Sandboxes : i # timers[t].id => row'[i] = row[i]
      BY <1>5, <2>1, MarkDestroyedEffect
      DEF EvictReturns, Forget, Answered, TypeOK
    <2>. QED
      BY <1>5, <2>1, <2>2, <2>4, <2>5
      DEF EvictReturns, Forget, Answered, ClosedAfterOpened, OrderedTimes
  <1>6. CASE Tick
    <2>1. /\ row' = row
          /\ clock' = clock + 1
          /\ clock \in Nat
          /\ row \in [Sandboxes -> RowType]
      BY <1>6 DEF Tick, store, TypeOK
    <2>. QED
      BY <2>1 DEF ClosedAfterOpened, OrderedTimes, RowType
  <1>. QED
    BY <1>1, <1>2, <1>3, <1>4, <1>5, <1>6
    DEF Next, Requests, BackendStep, ReturnStep, Eviction, CreateBegins,
        BackendCreates, CreateFails, BackendExecutes, ExecuteReturns,
        ExecuteFails, DestroyBegins, BackendDestroys, DestroyFails,
        EvictBegins, BackendEvicts, Restart, vars, store

\* A further event of a sandbox that has been announced leaves the log of its
\* events in order.
LEMMA AnnounceMore ==
    ASSUME NEW id, EventsOfSandboxAgree(id), events[id] \in Seq(EventTypes),
           events[id] # <<>>, NEW e \in {"completed", "destroyed"},
           events'[id] = Append(events[id], e),
           row'[id].status # "none",
           id \notin running => id \notin running',
           e = "destroyed" => id \notin running'
    PROVE  EventsOfSandboxAgree(id)'
  <1> DEFINE s == events[id]
             n == Len(s) + 1
  <1>1. /\ Len(s) \in Nat
        /\ Len(s) # 0
        /\ DOMAIN s = 1 .. Len(s)
    OBVIOUS
  <1>2. /\ DOMAIN Append(s, e) = 1 .. n
        /\ Append(s, e)[n] = e
        /\ \A i \in 1 .. Len(s) : Append(s, e)[i] = s[i]
        /\ Append(s, e) # <<>>
    BY <1>1
  <1>. QED
    BY <1>1, <1>2 DEF EventsOfSandboxAgree

\* Every broadcast is made when the Map and the record already say the same.
LEMMA EventsAgreeStep ==
    ASSUME TypeOK, CallsSound, TimersSound, StoreMirrorsMemory, EventsAgree,
           [Next]_vars
    PROVE  EventsAgree'
  <1>1. CASE UNCHANGED <<running, row, events>>
    BY <1>1 DEF EventsAgree, EventsOfSandboxAgree
  <1>2. ASSUME NEW c \in Calls,
             CreateReturns(c)
      PROVE  EventsAgree'
    <2>1. /\ calls[c].id \in Sandboxes /\ calls[c].user \in Owners
          /\ calls[c].now \in Nat
      BY <1>2, CallFields DEF CreateReturns, At, TypeOK
    <2>2. row[calls[c].id].status = "none" /\ events[calls[c].id] = <<>>
      BY <1>2, <2>1
      DEF CreateReturns, At, CallsSound, CreateSound, EventsAgree,
          EventsOfSandboxAgree
    <2>3. /\ events'[calls[c].id] = <<"created">>
          /\ \A i \in Sandboxes : i # calls[c].id => events'[i] = events[i]
      BY <1>2, <2>1, <2>2, BroadcastEffect
      DEF CreateReturns, TypeOK, EventTypes
    <2>4. \A i \in Sandboxes : i = calls[c].id => EventsOfSandboxAgree(i)'
      <3>1. row'[calls[c].id].status = "running"
        BY <1>2, <2>1 DEF CreateReturns, TypeOK
      <3>2. /\ <<"created">> # <<>>
            /\ DOMAIN <<"created">> = {1}
            /\ <<"created">>[1] = "created"
        OBVIOUS
      <3>. QED
        BY <2>3, <3>1, <3>2 DEF EventsOfSandboxAgree
    <2>5. \A i \in Sandboxes : i # calls[c].id => EventsOfSandboxAgree(i)'
      BY <1>2, <2>1, <2>3
      DEF CreateReturns, TypeOK, EventsAgree, EventsOfSandboxAgree
    <2>. QED
      BY <2>4, <2>5 DEF EventsAgree
  <1>3. ASSUME NEW c \in Calls, NEW id \in Sandboxes, NEW user \in Owners,
             ExecuteBegins(c, id, user)
      PROVE  EventsAgree'
    BY <1>3, TouchEffect
    DEF ExecuteBegins, Touch, TypeOK, EventsAgree, EventsOfSandboxAgree
  <1>4. ASSUME NEW c \in Calls,
             ExecuteReturns(c)
      PROVE  EventsAgree'
    <2>1. /\ calls[c].id \in Sandboxes /\ calls[c].user \in Owners
          /\ calls[c].now \in Nat
      BY <1>4, CallFields DEF ExecuteReturns, At, TypeOK
    <2>2. row[calls[c].id].status # "none" /\ events[calls[c].id] # <<>>
      BY <1>4, <2>1
      DEF ExecuteReturns, At, CallsSound, UseSound, EventsAgree,
          EventsOfSandboxAgree
    <2>3. /\ events'[calls[c].id] = Append(events[calls[c].id], "completed")
          /\ \A i \in Sandboxes : i # calls[c].id => events'[i] = events[i]
      BY <1>4, <2>1, BroadcastEffect DEF ExecuteReturns, TypeOK, EventTypes
    <2>4. \A i \in Sandboxes : i = calls[c].id => EventsOfSandboxAgree(i)'
      <3>1. events[calls[c].id] \in Seq(EventTypes)
        BY <2>1 DEF TypeOK
      <3>2. EventsOfSandboxAgree(calls[c].id)
        BY <2>1 DEF EventsAgree
      <3>3. row' = row /\ running' = running
        BY <1>4 DEF ExecuteReturns
      <3>. QED
        BY <2>2, <2>3, <3>1, <3>2, <3>3, AnnounceMore DEF EventTypes
    <2>5. \A i \in Sandboxes : i # calls[c].id => EventsOfSandboxAgree(i)'
      BY <1>4, <2>1, <2>3
      DEF ExecuteReturns, TypeOK, EventsAgree, EventsOfSandboxAgree
    <2>. QED
      BY <2>4, <2>5 DEF EventsAgree
  <1>5. ASSUME NEW c \in Calls,
             DestroyReturns(c)
      PROVE  EventsAgree'
    <2>1. /\ calls[c].id \in Sandboxes /\ calls[c].user \in Owners
          /\ calls[c].now \in Nat
      BY <1>5, CallFields DEF DestroyReturns, Forget, At, TypeOK
    <2>2. row[calls[c].id].status # "none" /\ events[calls[c].id] # <<>>
      BY <1>5, <2>1
      DEF DestroyReturns, Forget, At, CallsSound, UseSound, EventsAgree,
          EventsOfSandboxAgree
    <2>3. /\ events'[calls[c].id] = Append(events[calls[c].id], "destroyed")
          /\ \A i \in Sandboxes : i # calls[c].id => events'[i] = events[i]
      BY <1>5, <2>1, BroadcastEffect
      DEF DestroyReturns, Forget, TypeOK, EventTypes
    <2>4. /\ row'[calls[c].id].status = "destroyed"
          /\ row'[calls[c].id].destroyedAt = clock
          /\ row'[calls[c].id].createdAt = row[calls[c].id].createdAt
          /\ row'[calls[c].id].lastUsedAt = row[calls[c].id].lastUsedAt
          /\ \A i \in Sandboxes : i # calls[c].id => row'[i] = row[i]
      BY <1>5, <2>1, MarkDestroyedEffect DEF DestroyReturns, Forget, TypeOK
    <2>5. \A i \in Sandboxes : i = calls[c].id => EventsOfSandboxAgree(i)'
      <3>1. events[calls[c].id] \in Seq(EventTypes)
        BY <2>1 DEF TypeOK
      <3>2. EventsOfSandboxAgree(calls[c].id)
        BY <2>1 DEF EventsAgree
      <3>3. row'[calls[c].id].status # "none" /\ calls[c].id \notin running'
        BY <1>5, <2>4 DEF DestroyReturns, Forget
      <3>. QED
        BY <2>2, <2>3, <3>1, <3>2, <3>3, AnnounceMore DEF EventTypes
    <2>6. \A i \in Sandboxes : i # calls[c].id => EventsOfSandboxAgree(i)'
      BY <1>5, <2>3, <2>4
      DEF DestroyReturns, Forget, EventsAgree, EventsOfSandboxAgree
    <2>. QED
      BY <2>5, <2>6 DEF EventsAgree
  <1>6. ASSUME NEW t \in Timers,
             EvictReturns(t)
      PROVE  EventsAgree'
    <2>1. timers[t].id \in Sandboxes /\ timers[t].now \in Nat
      BY <1>6, TimerFields DEF EvictReturns, Forget, Answered, TypeOK
    <2>2. row[timers[t].id].status # "none"
      BY <1>6 DEF EvictReturns, Forget, Answered, TimersSound, TimerSound
    <2>3. /\ row'[timers[t].id].status = "destroyed"
          /\ row'[timers[t].id].destroyedAt = timers[t].now
          /\ row'[timers[t].id].createdAt = row[timers[t].id].createdAt
          /\ row'[timers[t].id].lastUsedAt = row[timers[t].id].lastUsedAt
          /\ \A i \in Sandboxes : i # timers[t].id => row'[i] = row[i]
      BY <1>6, <2>1, MarkDestroyedEffect
      DEF EvictReturns, Forget, Answered, TypeOK
    <2>. QED
      BY <1>6, <2>1, <2>2, <2>3
      DEF EvictReturns, Forget, Answered, EventsAgree, EventsOfSandboxAgree
  <1>7. CASE Restart
    BY <1>7 DEF Restart, store, EventsAgree, EventsOfSandboxAgree
  <1>. QED
    BY <1>1, <1>2, <1>3, <1>4, <1>5, <1>6, <1>7
    DEF Next, Requests, BackendStep, ReturnStep, Eviction, CreateBegins,
        BackendCreates, CreateFails, BackendExecutes, ExecuteFails,
        DestroyBegins, BackendDestroys, DestroyFails, EvictBegins,
        BackendEvicts, Tick, vars, store, memory

\* Counting the Map and the creates in flight makes sense.
LEMMA FiniteParts ==
    ASSUME TypeOK
    PROVE  /\ IsFiniteSet(running) /\ Cardinality(running) \in Nat
           /\ IsFiniteSet(Doing("create")) /\ Cardinality(Doing("create")) \in Nat
           /\ Cardinality(Doing("create")) <= Cardinality(Calls)
           /\ Cardinality(Calls) \in Nat
  <1>1. running \subseteq Sandboxes /\ Doing("create") \subseteq Calls
    BY DEF TypeOK, Doing
  <1>. QED
    BY <1>1, FiniteAssumption, FS_Subset, FS_CardinalityType

\* A step after which both are smaller keeps the bound.
LEMMA ShrinkingKeepsBound ==
    ASSUME TypeOK, OvershootIsBounded,
           running' \subseteq running, Doing("create")' \subseteq Doing("create")
    PROVE  OvershootIsBounded'
  <1>1. /\ IsFiniteSet(running) /\ Cardinality(running) \in Nat
        /\ IsFiniteSet(Doing("create")) /\ Cardinality(Doing("create")) \in Nat
        /\ Cardinality(Calls) \in Nat
    BY FiniteParts
  <1>2. /\ Cardinality(running') \in Nat
        /\ Cardinality(running') <= Cardinality(running)
    BY <1>1, FS_Subset, FS_CardinalityType
  <1>3. /\ Cardinality(Doing("create")') \in Nat
        /\ Cardinality(Doing("create")') <= Cardinality(Doing("create"))
    BY <1>1, FS_Subset, FS_CardinalityType
  <1>. QED
    BY <1>1, <1>2, <1>3, NatAssumption DEF OvershootIsBounded

\* A create passes the check only while the Map is under the limit, and moves
\* from the calls in flight to the Map when it returns.
LEMMA OvershootStep ==
    ASSUME TypeOK, CallsSound, StoreMirrorsMemory, OvershootIsBounded,
           [Next]_vars
    PROVE  OvershootIsBounded'
  <1>1. CASE UNCHANGED <<running, calls>>
    BY <1>1 DEF OvershootIsBounded, Doing
  <1>2. ASSUME NEW c \in Calls, NEW id \in Sandboxes, NEW user \in Owners,
             CreateBegins(c, id, user)
      PROVE  OvershootIsBounded'
    <2>1. running' = running /\ Doing("create")' \subseteq Calls
      BY <1>2 DEF CreateBegins, Doing
    <2>2. Cardinality(Doing("create")') <= Cardinality(Calls)
      BY <2>1, FiniteAssumption, FS_Subset
    <2>3. Cardinality(Doing("create")') \in Nat
      BY <2>1, FiniteAssumption, FS_Subset, FS_CardinalityType
    <2>4. MaxSandboxes > 0 => Cardinality(running) < MaxSandboxes
      BY <1>2 DEF CreateBegins, UnderLimit
    <2>. QED
      BY <2>1, <2>2, <2>3, <2>4, FiniteParts, NatAssumption
      DEF OvershootIsBounded
  <1>3. ASSUME NEW c \in Calls,
             BackendCreates(c)
      PROVE  OvershootIsBounded'
    <2>1. Doing("create")' \subseteq Doing("create")
      <3>1. PICK stage \in Stages : Settle(c, stage)
        BY <1>3 DEF BackendCreates, Stages
      <3>2. /\ calls'[c].op = calls[c].op
            /\ \A d \in Calls : d # c => calls'[d] = calls[d]
        BY <3>1, SettleEffect DEF TypeOK
      <3>. QED
        BY <3>2 DEF Doing
    <2>2. running' \subseteq running
      BY <1>3 DEF BackendCreates
    <2>. QED
      BY <2>1, <2>2, ShrinkingKeepsBound
  <1>4. ASSUME NEW c \in Calls,
             CreateReturns(c)
      PROVE  OvershootIsBounded'
    <2>1. /\ c \in Doing("create")
          /\ calls[c].id \in Sandboxes
      BY <1>4, CallFields DEF CreateReturns, At, Doing, TypeOK
    <2>2. calls[c].id \notin running
      BY <1>4
      DEF CreateReturns, At, CallsSound, CreateSound, StoreMirrorsMemory
    <2>3. Doing("create")' = Doing("create") \ {c}
      <3>1. /\ calls'[c] = IdleCall
            /\ \A d \in Calls : d # c => calls'[d] = calls[d]
        BY <1>4, ReturnEffect DEF CreateReturns, TypeOK
      <3>. QED
        BY <3>1 DEF Doing, IdleCall
    <2>4. running' = running \cup {calls[c].id}
      BY <1>4 DEF CreateReturns
    <2>5. Cardinality(Doing("create")') = Cardinality(Doing("create")) - 1
      BY <2>1, <2>3, FiniteParts, FS_RemoveElement
    <2>6. Cardinality(running') = Cardinality(running) + 1
      BY <2>2, <2>4, FiniteParts, FS_AddElement
    <2>. QED
      BY <2>5, <2>6, FiniteParts, NatAssumption DEF OvershootIsBounded
  <1>5. ASSUME NEW c \in Calls,
             CreateFails(c)
      PROVE  OvershootIsBounded'
    <2>1. Doing("create")' \subseteq Doing("create")
      <3>1. /\ calls'[c] = IdleCall
            /\ \A d \in Calls : d # c => calls'[d] = calls[d]
        BY <1>5, ReturnEffect DEF CreateFails, TypeOK
      <3>. QED
        BY <3>1 DEF Doing, IdleCall
    <2>2. running' \subseteq running
      BY <1>5 DEF CreateFails
    <2>. QED
      BY <2>1, <2>2, ShrinkingKeepsBound
  <1>6. ASSUME NEW c \in Calls, NEW id \in Sandboxes, NEW user \in Owners,
             ExecuteBegins(c, id, user)
      PROVE  OvershootIsBounded'
    <2>1. Doing("create")' \subseteq Doing("create")
      <3>1. /\ calls'[c] = [op |-> "execute", stage |-> "pending", id |-> id,
                            user |-> user, now |-> clock]
            /\ \A d \in Calls : d # c => calls'[d] = calls[d]
        BY <1>6, AwaitEffect DEF ExecuteBegins, Touch, TypeOK
      <3>. QED
        BY <3>1 DEF Doing
    <2>2. running' \subseteq running
      BY <1>6 DEF ExecuteBegins, Touch
    <2>. QED
      BY <2>1, <2>2, ShrinkingKeepsBound
  <1>7. ASSUME NEW c \in Calls,
             BackendExecutes(c)
      PROVE  OvershootIsBounded'
    <2>1. Doing("create")' \subseteq Doing("create")
      <3>1. PICK stage \in Stages : Settle(c, stage)
        BY <1>7 DEF BackendExecutes, Stages
      <3>2. /\ calls'[c].op = calls[c].op
            /\ \A d \in Calls : d # c => calls'[d] = calls[d]
        BY <3>1, SettleEffect DEF TypeOK
      <3>. QED
        BY <3>2 DEF Doing
    <2>2. running' \subseteq running
      BY <1>7 DEF BackendExecutes
    <2>. QED
      BY <2>1, <2>2, ShrinkingKeepsBound
  <1>8. ASSUME NEW c \in Calls,
             ExecuteReturns(c)
      PROVE  OvershootIsBounded'
    <2>1. Doing("create")' \subseteq Doing("create")
      <3>1. /\ calls'[c] = IdleCall
            /\ \A d \in Calls : d # c => calls'[d] = calls[d]
        BY <1>8, ReturnEffect DEF ExecuteReturns, TypeOK
      <3>. QED
        BY <3>1 DEF Doing, IdleCall
    <2>2. running' \subseteq running
      BY <1>8 DEF ExecuteReturns
    <2>. QED
      BY <2>1, <2>2, ShrinkingKeepsBound
  <1>9. ASSUME NEW c \in Calls,
             ExecuteFails(c)
      PROVE  OvershootIsBounded'
    <2>1. Doing("create")' \subseteq Doing("create")
      <3>1. /\ calls'[c] = IdleCall
            /\ \A d \in Calls : d # c => calls'[d] = calls[d]
        BY <1>9, ReturnEffect DEF ExecuteFails, TypeOK
      <3>. QED
        BY <3>1 DEF Doing, IdleCall
    <2>2. running' \subseteq running
      BY <1>9 DEF ExecuteFails
    <2>. QED
      BY <2>1, <2>2, ShrinkingKeepsBound
  <1>10. ASSUME NEW c \in Calls, NEW id \in Sandboxes, NEW user \in Owners,
             DestroyBegins(c, id, user)
      PROVE  OvershootIsBounded'
    <2>1. Doing("create")' \subseteq Doing("create")
      <3>1. /\ calls'[c] = [op |-> "destroy", stage |-> "pending", id |-> id,
                            user |-> user, now |-> clock]
            /\ \A d \in Calls : d # c => calls'[d] = calls[d]
        BY <1>10, AwaitEffect DEF DestroyBegins, TypeOK
      <3>. QED
        BY <3>1 DEF Doing
    <2>2. running' \subseteq running
      BY <1>10 DEF DestroyBegins
    <2>. QED
      BY <2>1, <2>2, ShrinkingKeepsBound
  <1>11. ASSUME NEW c \in Calls,
             BackendDestroys(c)
      PROVE  OvershootIsBounded'
    <2>1. Doing("create")' \subseteq Doing("create")
      <3>1. PICK stage \in Stages : Settle(c, stage)
        BY <1>11 DEF BackendDestroys, Stages
      <3>2. /\ calls'[c].op = calls[c].op
            /\ \A d \in Calls : d # c => calls'[d] = calls[d]
        BY <3>1, SettleEffect DEF TypeOK
      <3>. QED
        BY <3>2 DEF Doing
    <2>2. running' \subseteq running
      BY <1>11 DEF BackendDestroys
    <2>. QED
      BY <2>1, <2>2, ShrinkingKeepsBound
  <1>12. ASSUME NEW c \in Calls,
             DestroyReturns(c)
      PROVE  OvershootIsBounded'
    <2>1. Doing("create")' \subseteq Doing("create")
      <3>1. /\ calls'[c] = IdleCall
            /\ \A d \in Calls : d # c => calls'[d] = calls[d]
        BY <1>12, ReturnEffect DEF DestroyReturns, Forget, TypeOK
      <3>. QED
        BY <3>1 DEF Doing, IdleCall
    <2>2. running' \subseteq running
      BY <1>12 DEF DestroyReturns, Forget
    <2>. QED
      BY <2>1, <2>2, ShrinkingKeepsBound
  <1>13. ASSUME NEW c \in Calls,
             DestroyFails(c)
      PROVE  OvershootIsBounded'
    <2>1. Doing("create")' \subseteq Doing("create")
      <3>1. /\ calls'[c] = IdleCall
            /\ \A d \in Calls : d # c => calls'[d] = calls[d]
        BY <1>13, ReturnEffect DEF DestroyFails, TypeOK
      <3>. QED
        BY <3>1 DEF Doing, IdleCall
    <2>2. running' \subseteq running
      BY <1>13 DEF DestroyFails
    <2>. QED
      BY <2>1, <2>2, ShrinkingKeepsBound
  <1>14. ASSUME NEW t \in Timers,
             EvictReturns(t)
      PROVE  OvershootIsBounded'
    <2>1. Doing("create")' \subseteq Doing("create")
      BY <1>14 DEF EvictReturns, Forget, Answered, Doing
    <2>2. running' \subseteq running
      BY <1>14 DEF EvictReturns, Forget, Answered
    <2>. QED
      BY <2>1, <2>2, ShrinkingKeepsBound
  <1>15. CASE Restart
    <2>1. Doing("create")' \subseteq Doing("create")
      BY <1>15 DEF Restart, Doing, IdleCall
    <2>2. running' \subseteq running
      BY <1>15 DEF Restart
    <2>. QED
      BY <2>1, <2>2, ShrinkingKeepsBound
  <1>. QED
    BY <1>1, <1>2, <1>3, <1>4, <1>5, <1>6, <1>7, <1>8, <1>9, <1>10, <1>11,
       <1>12, <1>13, <1>14, <1>15
    DEF Next, Requests, BackendStep, ReturnStep, Eviction, EvictBegins,
        BackendEvicts, Tick, vars, memory

-----------------------------------------------------------------------------
(* The theorems *)

\* The invariants the runs check, and what the calls and evictions in flight
\* rely on: none of them is inductive without the others.
IndInv ==
    /\ TypeOK
    /\ CallsSound
    /\ CreatesDistinct
    /\ TimersSound
    /\ StoreMirrorsMemory
    /\ LiveVmIsKnown
    /\ ForgottenOnlyByFault
    /\ ClosedAfterOpened
    /\ EventsAgree
    /\ OvershootIsBounded

LEMMA IndInvInit == Init => IndInv
  <1> SUFFICES ASSUME Init PROVE IndInv
    OBVIOUS
  <1>1. TypeOK
    BY TypeInit
  <1>2. CallsSound /\ CreatesDistinct
    BY DEF Init, CallsSound, CreateSound, UseSound, DestroySound, IdleCall,
           CreatesDistinct, Doing
  <1>3. TimersSound
    BY DEF Init, TimersSound, TimerSound, IdleTimer
  <1>4. StoreMirrorsMemory /\ LiveVmIsKnown /\ ForgottenOnlyByFault
    BY DEF Init, StoreMirrorsMemory, LiveVmIsKnown, ForgottenOnlyByFault, NoRow
  <1>5. ClosedAfterOpened
    BY DEF Init, ClosedAfterOpened, OrderedTimes, NoRow
  <1>6. EventsAgree
    BY DEF Init, EventsAgree, EventsOfSandboxAgree, NoRow
  <1>7. OvershootIsBounded
    <2>1. running = {} /\ Doing("create") = {}
      BY DEF Init, Doing, IdleCall
    <2>. QED
      BY <1>1, <2>1, FiniteParts, FS_EmptySet, NatAssumption
      DEF OvershootIsBounded
  <1>. QED
    BY <1>1, <1>2, <1>3, <1>4, <1>5, <1>6, <1>7 DEF IndInv

LEMMA IndInvStep == IndInv /\ [Next]_vars => IndInv'
  BY TypeStep, CallsSoundStep, CreatesDistinctStep, TimersSoundStep,
     StoreMirrorsStep, LiveVmStep, ForgottenStep, ClosedAfterOpenedStep,
     EventsAgreeStep, OvershootStep
  DEF IndInv

LEMMA IndInvHolds == Spec => []IndInv
  BY IndInvInit, IndInvStep, PTL DEF Spec

\* The Map and the sandboxes table agree: a sandbox that can be used has an
\* open record with the same owner and last use.
THEOREM StoreMirrors == Spec => []StoreMirrorsMemory
  BY IndInvHolds, PTL DEF IndInv

\* Whatever requests, evictions, failures and restarts do, every VM is in the
\* Map, being created, or forgotten.
THEOREM LiveVmKnown == Spec => []LiveVmIsKnown
  BY IndInvHolds, PTL DEF IndInv

\* Interleaving alone never makes the manager forget a VM.
THEOREM ForgottenByFault == Spec => []ForgottenOnlyByFault
  BY IndInvHolds, PTL DEF IndInv

\* The times of a record are in order although an eviction writes an old one.
THEOREM TimesOrdered == Spec => []ClosedAfterOpened
  BY IndInvHolds, PTL DEF IndInv

\* What /events says of a sandbox agrees with the Map and the store.
THEOREM EventsInOrder == Spec => []EventsAgree
  BY IndInvHolds, PTL DEF IndInv

\* Concurrent creates exceed the limit by less than the number of handler
\* activations.
THEOREM OvershootBounded == Spec => []OvershootIsBounded
  BY IndInvHolds, PTL DEF IndInv

\* What calls and evictions in flight rely on after their await holds.
THEOREM InFlightIsSound == Spec => []InFlightSound
  BY IndInvHolds, PTL DEF IndInv, InFlightSound


-----------------------------------------------------------------------------
(* What no step does *)

\* Only a create that returns puts an id into the Map.
LEMMA OnlyCreateAdds ==
    ASSUME IndInv, [Next]_vars, NEW id \in running' \ running
    PROVE  row[id].status = "none"
  <1>1. CASE UNCHANGED running
    BY <1>1
  <1>2. ASSUME NEW c \in Calls,
             CreateReturns(c)
      PROVE  row[id].status = "none"
    BY <1>2 DEF CreateReturns, At, IndInv, CallsSound, CreateSound
  <1>3. ASSUME NEW c \in Calls,
             DestroyReturns(c)
      PROVE  row[id].status = "none"
    BY <1>3 DEF DestroyReturns, Forget
  <1>4. ASSUME NEW t \in Timers,
             EvictReturns(t)
      PROVE  row[id].status = "none"
    BY <1>4 DEF EvictReturns, Forget, Answered
  <1>5. CASE Restart
    BY <1>5 DEF Restart
  <1>. QED
    BY <1>1, <1>2, <1>3, <1>4, <1>5
    DEF Next, Requests, BackendStep, ReturnStep, Eviction, CreateBegins,
        BackendCreates, CreateFails, ExecuteBegins, Touch, BackendExecutes,
        ExecuteReturns, ExecuteFails, DestroyBegins, BackendDestroys,
        DestroyFails, EvictBegins, BackendEvicts, Tick, vars, memory

\* No late continuation brings a destroyed sandbox back.
THEOREM NothingResurrected == Spec => NoResurrection
  <1>1. IndInv /\ [Next]_vars =>
            [\A id \in running' \ running : row[id].status = "none"]_vars
    BY OnlyCreateAdds
  <1>. QED
    BY <1>1, IndInvHolds, PTL DEF Spec, NoResurrection

\* The two steps that close a record, and on whose authority.
LEMMA OnlyTwoClose ==
    ASSUME IndInv, [Next]_vars, NEW i \in Sandboxes,
           row[i].status = "running", row'[i].status = "destroyed"
    PROVE  \/ \E c \in Calls :
                /\ At(c, "destroy", "done") /\ calls[c].id = i
                /\ MayEnd(calls[c].user, i)
           \/ \E t \in Timers :
                /\ timers[t].op = "evict" /\ timers[t].id = i
                /\ WasExpired(i, timers[t].now)
  <1> DEFINE Closed == \/ \E c \in Calls :
                            /\ At(c, "destroy", "done") /\ calls[c].id = i
                            /\ MayEnd(calls[c].user, i)
                       \/ \E t \in Timers :
                            /\ timers[t].op = "evict" /\ timers[t].id = i
                            /\ WasExpired(i, timers[t].now)
  <1> SUFFICES Closed
    OBVIOUS
  <1>1. CASE UNCHANGED row
    BY <1>1
  <1>2. ASSUME NEW c \in Calls,
             CreateReturns(c)
      PROVE  Closed
    <2>1. row[calls[c].id].status = "none" /\ calls[c].id \in Sandboxes
      BY <1>2, CallFields
      DEF CreateReturns, At, IndInv, TypeOK, CallsSound, CreateSound
    <2>. QED
      BY <1>2, <2>1 DEF CreateReturns, IndInv, TypeOK
  <1>3. ASSUME NEW c \in Calls, NEW id \in Sandboxes, NEW user \in Owners,
             ExecuteBegins(c, id, user)
      PROVE  Closed
    BY <1>3, TouchEffect DEF ExecuteBegins, Touch, IndInv, TypeOK
  <1>4. ASSUME NEW c \in Calls,
             DestroyReturns(c)
      PROVE  Closed
    <2>1. calls[c].id \in Sandboxes
      BY <1>4, CallFields DEF DestroyReturns, Forget, At, IndInv, TypeOK
    <2>2. i = calls[c].id
      BY <1>4, <2>1, MarkDestroyedEffect
      DEF DestroyReturns, Forget, IndInv, TypeOK
    <2>3. MayEnd(calls[c].user, i)
      BY <1>4, <2>2
      DEF DestroyReturns, Forget, At, IndInv, CallsSound, DestroySound
    <2>. QED
      BY <1>4, <2>2, <2>3 DEF DestroyReturns, Forget
  <1>5. ASSUME NEW t \in Timers,
             EvictReturns(t)
      PROVE  Closed
    <2>1. timers[t].id \in Sandboxes /\ timers[t].now \in Nat
      BY <1>5, TimerFields DEF EvictReturns, Forget, Answered, IndInv, TypeOK
    <2>2. i = timers[t].id
      BY <1>5, <2>1, MarkDestroyedEffect
      DEF EvictReturns, Forget, Answered, IndInv, TypeOK
    <2>3. WasExpired(i, timers[t].now)
      BY <1>5, <2>2
      DEF EvictReturns, Forget, Answered, IndInv, TimersSound, TimerSound
    <2>. QED
      BY <1>5, <2>2, <2>3 DEF EvictReturns, Forget, Answered
  <1>. QED
    BY <1>1, <1>2, <1>3, <1>4, <1>5
    DEF Next, Requests, BackendStep, ReturnStep, Eviction, CreateBegins,
        BackendCreates, CreateFails, BackendExecutes, ExecuteReturns,
        ExecuteFails, DestroyBegins, BackendDestroys, DestroyFails,
        EvictBegins, BackendEvicts, Tick, Restart, vars, store, memory

\* A record is closed by its owner or by an eviction whose scan found the
\* sandbox unused for longer than the TTL, for any number of overlapping scans.
THEOREM EndedRightly == Spec => EndedByOwnerOrTtl
  <1>1. IndInv /\ [Next]_vars =>
            [\A id \in Sandboxes :
                row[id].status = "running" /\ row'[id].status = "destroyed" =>
                    \/ \E c \in Calls :
                          /\ At(c, "destroy", "done") /\ calls[c].id = id
                          /\ MayEnd(calls[c].user, id)
                    \/ \E t \in Timers :
                          /\ timers[t].op = "evict" /\ timers[t].id = id
                          /\ WasExpired(id, timers[t].now)]_vars
    BY OnlyTwoClose
  <1>. QED
    BY <1>1, IndInvHolds, PTL DEF Spec, EndedByOwnerOrTtl

-----------------------------------------------------------------------------
(* Refinement *)

status == [id \in Sandboxes |-> row[id].status]

LEMMA LifecycleInit == Init => Lifecycle!Init
  BY DEF Init, Lifecycle!Init, NoRow

\* Every step of the manager creates or closes one record, or changes no
\* record's status.
LEMMA LifecycleStep ==
    ASSUME IndInv, [Next]_vars
    PROVE  [Lifecycle!Next]_status
  <1>1. CASE UNCHANGED row
    BY <1>1 DEF status
  <1>2. ASSUME NEW c \in Calls,
             CreateReturns(c)
      PROVE  [Lifecycle!Next]_status
    <2>1. row[calls[c].id].status = "none" /\ calls[c].id \in Sandboxes
      BY <1>2, CallFields
      DEF CreateReturns, At, IndInv, TypeOK, CallsSound, CreateSound
    <2>2. /\ row'[calls[c].id].status = "running"
          /\ \A i \in Sandboxes : i # calls[c].id => row'[i] = row[i]
      BY <1>2, <2>1 DEF CreateReturns, IndInv, TypeOK
    <2>3. PICK i \in Sandboxes : i = calls[c].id
      BY <2>1
    <2>4. Lifecycle!Create(i)
      BY <2>1, <2>2, <2>3 DEF Lifecycle!Create
    <2>. QED
      BY <2>4 DEF Lifecycle!Next
  <1>3. ASSUME NEW c \in Calls, NEW id \in Sandboxes, NEW user \in Owners,
             ExecuteBegins(c, id, user)
      PROVE  [Lifecycle!Next]_status
    <2>1. \A i \in Sandboxes : row'[i].status = row[i].status
      BY <1>3, TouchEffect DEF ExecuteBegins, Touch, IndInv, TypeOK
    <2>. QED
      BY <2>1 DEF status
  <1>4. ASSUME NEW c \in Calls,
             DestroyReturns(c)
      PROVE  [Lifecycle!Next]_status
    <2>1. calls[c].id \in Sandboxes
      BY <1>4, CallFields DEF DestroyReturns, Forget, At, IndInv, TypeOK
    <2>2. /\ row'[calls[c].id].status = "destroyed"
          /\ \A i \in Sandboxes : i # calls[c].id => row'[i] = row[i]
      BY <1>4, <2>1, MarkDestroyedEffect
      DEF DestroyReturns, Forget, IndInv, TypeOK
    <2>3. row[calls[c].id].status \in {"running", "destroyed"}
      BY <1>4, <2>1
      DEF DestroyReturns, Forget, At, CallsSound, UseSound, IndInv, TypeOK,
          RowType
    <2>4. CASE row[calls[c].id].status = "running"
      <3>1. PICK i \in Sandboxes : i = calls[c].id
        BY <2>1
      <3>2. Lifecycle!Destroy(i)
        BY <2>1, <2>2, <2>4, <3>1 DEF Lifecycle!Destroy
      <3>. QED
        BY <3>2 DEF Lifecycle!Next
    <2>5. CASE row[calls[c].id].status = "destroyed"
      <3>1. \A i \in Sandboxes : row'[i].status = row[i].status
        BY <2>1, <2>2, <2>5
      <3>. QED
        BY <3>1 DEF status
    <2>. QED
      BY <2>3, <2>4, <2>5
  <1>5. ASSUME NEW t \in Timers,
             EvictReturns(t)
      PROVE  [Lifecycle!Next]_status
    <2>1. timers[t].id \in Sandboxes /\ timers[t].now \in Nat
      BY <1>5, TimerFields DEF EvictReturns, Forget, Answered, IndInv, TypeOK
    <2>2. /\ row'[timers[t].id].status = "destroyed"
          /\ \A i \in Sandboxes : i # timers[t].id => row'[i] = row[i]
      BY <1>5, <2>1, MarkDestroyedEffect
      DEF EvictReturns, Forget, Answered, IndInv, TypeOK
    <2>3. row[timers[t].id].status \in {"running", "destroyed"}
      BY <1>5, <2>1
      DEF EvictReturns, Forget, Answered, TimersSound, TimerSound, IndInv,
          TypeOK, RowType
    <2>4. CASE row[timers[t].id].status = "running"
      <3>1. PICK i \in Sandboxes : i = timers[t].id
        BY <2>1
      <3>2. Lifecycle!Destroy(i)
        BY <2>1, <2>2, <2>4, <3>1 DEF Lifecycle!Destroy
      <3>. QED
        BY <3>2 DEF Lifecycle!Next
    <2>5. CASE row[timers[t].id].status = "destroyed"
      <3>1. \A i \in Sandboxes : row'[i].status = row[i].status
        BY <2>1, <2>2, <2>5
      <3>. QED
        BY <3>1 DEF status
    <2>. QED
      BY <2>3, <2>4, <2>5
  <1>. QED
    BY <1>1, <1>2, <1>3, <1>4, <1>5
    DEF Next, Requests, BackendStep, ReturnStep, Eviction, CreateBegins,
        BackendCreates, CreateFails, BackendExecutes, ExecuteReturns,
        ExecuteFails, DestroyBegins, BackendDestroys, DestroyFails,
        EvictBegins, BackendEvicts, Tick, Restart, vars, store, memory

\* The manager implements the abstract life cycle.
THEOREM ManagerImplementsLifecycle == Spec => ImplementsLifecycle
  <1>1. IndInv /\ [Next]_vars => [Lifecycle!Next]_status
    BY LifecycleStep
  <1>. QED
    BY <1>1, LifecycleInit, IndInvHolds, PTL
    DEF Spec, ImplementsLifecycle, Lifecycle!Spec, status
-----------------------------------------------------------------------------
(* What the routes answer agrees, for every set of ids and of users *)

\* The metrics have counted every record since the process started, when it
\* has not restarted.
CreatedCounted ==
    /\ IsFiniteSet(Recorded)
    /\ restarts = 0 => metrics.created = Cardinality(Recorded)

\* Records appear one at a time, when a create returns.
LEMMA RecordedStep ==
    ASSUME IndInv, [Next]_vars
    PROVE  \/ Recorded' = Recorded /\ metrics'.created = metrics.created
           \/ Recorded' = Recorded /\ restarts' # 0
           \/ \E id \in Sandboxes \ Recorded :
                 /\ Recorded' = Recorded \cup {id}
                 /\ metrics'.created = metrics.created + 1
  <1>. DEFINE Same == Recorded' = Recorded /\ metrics'.created = metrics.created
  <1>1. CASE UNCHANGED <<row, metrics>>
    BY <1>1 DEF Recorded
  <1>2. ASSUME NEW c \in Calls, CreateReturns(c)
        PROVE  \E id \in Sandboxes \ Recorded :
                 /\ Recorded' = Recorded \cup {id}
                 /\ metrics'.created = metrics.created + 1
    <2>. DEFINE id == calls[c].id
    <2>1. id \in Sandboxes /\ row[id].status = "none"
      BY <1>2, CallFields DEF CreateReturns, At, IndInv, TypeOK, CallsSound, CreateSound
    <2>2. metrics'.created = metrics.created + 1
      BY <1>2 DEF CreateReturns, Count, IndInv, TypeOK
    <2>3. /\ row'[id].status = "running"
          /\ \A i \in Sandboxes : i # id => row'[i] = row[i]
      BY <1>2, <2>1 DEF CreateReturns, IndInv, TypeOK
    <2>. QED
      BY <2>1, <2>2, <2>3 DEF Recorded
  <1>3. ASSUME NEW c \in Calls, NEW id \in Sandboxes, NEW user \in Owners,
               ExecuteBegins(c, id, user)
        PROVE  Same
    BY <1>3, TouchEffect DEF ExecuteBegins, Touch, IndInv, TypeOK, Recorded
  <1>4. ASSUME NEW c \in Calls, ExecuteReturns(c)
        PROVE  Same
    BY <1>4 DEF ExecuteReturns, Count, IndInv, TypeOK, Recorded
  <1>5. ASSUME NEW c \in Calls, DestroyReturns(c)
        PROVE  Same
    <2>. DEFINE id == calls[c].id
    <2>1. id \in Sandboxes /\ row[id].status # "none"
      BY <1>5, CallFields DEF DestroyReturns, At, IndInv, TypeOK, CallsSound, UseSound
    <2>2. /\ row'[id].status = "destroyed"
          /\ \A i \in Sandboxes : i # id => row'[i] = row[i]
      BY <1>5, <2>1, MarkDestroyedEffect DEF DestroyReturns, IndInv, TypeOK
    <2>3. metrics'.created = metrics.created
      BY <1>5 DEF DestroyReturns, Count, IndInv, TypeOK
    <2>. QED
      BY <2>1, <2>2, <2>3 DEF Recorded
  <1>6. ASSUME NEW t \in Timers, EvictReturns(t)
        PROVE  Same
    <2>. DEFINE id == timers[t].id
    <2>1. id \in Sandboxes /\ timers[t].now \in Nat /\ row[id].status # "none"
      BY <1>6, TimerFields DEF EvictReturns, IndInv, TypeOK, TimersSound, TimerSound
    <2>2. /\ row'[id].status = "destroyed"
          /\ \A i \in Sandboxes : i # id => row'[i] = row[i]
      BY <1>6, <2>1, MarkDestroyedEffect DEF EvictReturns, IndInv, TypeOK
    <2>. QED
      BY <1>6, <2>1, <2>2 DEF EvictReturns, Recorded
  <1>7. CASE Restart
    BY <1>7 DEF Restart, store, Recorded, IndInv, TypeOK
  <1>. QED
    BY <1>1, <1>2, <1>3, <1>4, <1>5, <1>6, <1>7
    DEF Next, Requests, BackendStep, ReturnStep, Eviction, CreateBegins,
        BackendCreates, CreateFails, BackendExecutes, ExecuteFails,
        DestroyBegins, BackendDestroys, DestroyFails, EvictBegins,
        BackendEvicts, Tick, vars, store, memory

\* A process that has restarted stays one that has.
LEMMA RestartsGrow ==
    ASSUME TypeOK, [Next]_vars, restarts' = 0
    PROVE  restarts = 0
  <1>1. CASE UNCHANGED restarts
    BY <1>1
  <1>2. CASE Restart
    BY <1>2 DEF Restart, TypeOK
  <1>. QED
    BY <1>1, <1>2
    DEF Next, Requests, BackendStep, ReturnStep, Eviction, CreateBegins,
        BackendCreates, CreateReturns, CreateFails, ExecuteBegins,
        BackendExecutes, ExecuteReturns, ExecuteFails, DestroyBegins,
        BackendDestroys, DestroyReturns, DestroyFails, EvictBegins,
        BackendEvicts, EvictReturns, Tick, vars

LEMMA CreatedCountedStep == IndInv /\ CreatedCounted /\ [Next]_vars => CreatedCounted'
  <1>. SUFFICES ASSUME IndInv, CreatedCounted, [Next]_vars PROVE CreatedCounted'
    OBVIOUS
  <1>1. restarts' = 0 => restarts = 0
    BY RestartsGrow DEF IndInv
  <1>2. CASE Recorded' = Recorded /\ metrics'.created = metrics.created
    BY <1>1, <1>2 DEF CreatedCounted
  <1>3. CASE Recorded' = Recorded /\ restarts' # 0
    BY <1>3 DEF CreatedCounted
  <1>4. ASSUME NEW id \in Sandboxes \ Recorded, Recorded' = Recorded \cup {id},
               metrics'.created = metrics.created + 1
        PROVE  CreatedCounted'
    <2>1. /\ IsFiniteSet(Recorded \cup {id})
          /\ Cardinality(Recorded \cup {id}) = Cardinality(Recorded) + 1
      BY <1>4, FS_AddElement DEF CreatedCounted
    <2>. QED
      BY <1>1, <1>4, <2>1 DEF CreatedCounted
  <1>. QED
    BY <1>2, <1>3, <1>4, RecordedStep

\* Executions are logged under a sandbox that has a record, and each is counted.
LoggedCounted == \A id \in Sandboxes :
    /\ logs[id] > 0 => id \in Recorded
    /\ restarts = 0 => logs[id] <= metrics.executions

\* A log row appears, and the counter moves, when an execute returns.
LEMMA LoggedStep ==
    ASSUME IndInv, [Next]_vars
    PROVE  \/ logs' = logs /\ metrics'.executions = metrics.executions
           \/ logs' = logs /\ restarts' # 0
           \/ \E id \in Recorded :
                 /\ logs' = [logs EXCEPT ![id] = @ + 1]
                 /\ metrics'.executions = metrics.executions + 1
  <1>1. CASE UNCHANGED <<logs, metrics>>
    BY <1>1
  <1>2. ASSUME NEW c \in Calls, CreateReturns(c) \/ DestroyReturns(c)
        PROVE  logs' = logs /\ metrics'.executions = metrics.executions
    BY <1>2 DEF CreateReturns, DestroyReturns, Count, IndInv, TypeOK
  <1>3. ASSUME NEW c \in Calls, ExecuteReturns(c)
        PROVE  \E id \in Recorded :
                 /\ logs' = [logs EXCEPT ![id] = @ + 1]
                 /\ metrics'.executions = metrics.executions + 1
    <2>1. calls[c].id \in Recorded
      BY <1>3, CallFields
      DEF ExecuteReturns, At, IndInv, TypeOK, CallsSound, UseSound, Recorded
    <2>2. metrics'.executions = metrics.executions + 1
      BY <1>3 DEF ExecuteReturns, Count, IndInv, TypeOK
    <2>. QED
      BY <1>3, <2>1, <2>2 DEF ExecuteReturns
  <1>4. CASE Restart
    BY <1>4 DEF Restart, store, IndInv, TypeOK
  <1>. QED
    BY <1>1, <1>2, <1>3, <1>4
    DEF Next, Requests, BackendStep, ReturnStep, Eviction, CreateBegins,
        BackendCreates, CreateFails, ExecuteBegins, BackendExecutes,
        ExecuteFails, DestroyBegins, BackendDestroys, DestroyFails,
        EvictBegins, BackendEvicts, EvictReturns, Tick, vars, store, memory

LEMMA LoggedCountedStep == IndInv /\ LoggedCounted /\ [Next]_vars => LoggedCounted'
  <1>. SUFFICES ASSUME IndInv, LoggedCounted, [Next]_vars PROVE LoggedCounted'
    OBVIOUS
  <1>1. restarts' = 0 => restarts = 0
    BY RestartsGrow DEF IndInv
  <1>2. Recorded \subseteq Recorded'
    BY RecordedStep
  <1>3. CASE logs' = logs /\ metrics'.executions = metrics.executions
    BY <1>1, <1>2, <1>3 DEF LoggedCounted
  <1>4. CASE logs' = logs /\ restarts' # 0
    BY <1>2, <1>4 DEF LoggedCounted
  <1>5. ASSUME NEW id \in Recorded, logs' = [logs EXCEPT ![id] = @ + 1],
               metrics'.executions = metrics.executions + 1
        PROVE  LoggedCounted'
    <2>1. logs \in [Sandboxes -> Nat] /\ metrics.executions \in Nat
      BY DEF IndInv, TypeOK
    <2>2. ASSUME NEW i \in Sandboxes
          PROVE  logs'[i] <= logs[i] + 1 /\ (logs'[i] > 0 => logs[i] > 0 \/ i = id)
      BY <1>5, <2>1, <2>2
    <2>3. \A i \in Sandboxes : logs'[i] \in Nat
      BY <1>5, <2>1
    <2>. QED
      BY <1>1, <1>2, <1>5, <2>1, <2>2, <2>3 DEF LoggedCounted
  <1>. QED
    BY <1>3, <1>4, <1>5, LoggedStep

LEMMA LoggedCountedInit == Init => LoggedCounted
  BY DEF Init, LoggedCounted, ZeroMetrics

LEMMA CreatedCountedInit == Init => CreatedCounted
  <1>. SUFFICES ASSUME Init PROVE CreatedCounted
    OBVIOUS
  <1>1. Recorded = {}
    BY DEF Init, Recorded, NoRow
  <1>. QED
    BY <1>1, FS_EmptySet DEF Init, CreatedCounted, ZeroMetrics

\* In a state of the manager the table and the Map decide alike.
LEMMA SourcesAgree ==
    ASSUME IndInv, NEW id \in Sandboxes, NEW user \in Owners
    PROVE  /\ MayUse(id, user) => Visible(id, user)
           /\ id \in running => (Visible(id, user) <=> MayUse(id, user))
           /\ id \in Listed("all", user) => Visible(id, user)
           /\ id \in Listed("unset", user) /\ restarts = 0 => id \in running
  BY DEF IndInv, StoreMirrorsMemory, MayUse, Visible, Listed, Rows, Recorded

\* The worker's list is the Map, and every user's list is a part of it.
LEMMA WorkerListIsMap ==
    ASSUME IndInv
    PROVE  /\ running \subseteq WorkerList.sandboxes
           /\ restarts = 0 => WorkerList.sandboxes = running
           /\ \A user \in Owners : Listed("unset", user) \subseteq WorkerList.sandboxes
           /\ IsFiniteSet(WorkerList.sandboxes) /\ IsFiniteSet(running)
           /\ Cardinality(WorkerList.sandboxes) \in Nat /\ Cardinality(running) \in Nat
  <1>1. WorkerList.sandboxes = {id \in Sandboxes : row[id].status = "running"}
    BY DEF WorkerList, ListAnswer, Listed, Rows, Recorded
  <1>2. /\ running \subseteq WorkerList.sandboxes
        /\ restarts = 0 => WorkerList.sandboxes = running
    BY <1>1 DEF IndInv, TypeOK, StoreMirrorsMemory
  <1>3. \A user \in Owners : Listed("unset", user) \subseteq WorkerList.sandboxes
    BY <1>1 DEF Listed, Rows, Recorded
  <1>4. IsFiniteSet(WorkerList.sandboxes) /\ IsFiniteSet(running)
    BY <1>1, FiniteAssumption, FS_Subset DEF IndInv, TypeOK
  <1>. QED
    BY <1>2, <1>3, <1>4, FS_CardinalityType

LEMMA CallersAgree ==
    ASSUME IndInv, NEW id \in Sandboxes, NEW user \in Owners
    PROVE  CallerAgrees(id, user)
  <1>1. Answer("detail", id, user) = "not found" =>
            ~MayUse(id, user) /\ id \notin Listed("all", user)
    BY SourcesAgree DEF Answer
  <1>2. ASSUME id \in Listed("unset", user), restarts = 0, NEW route \in Routes
        PROVE  Answer(route, id, user) = "found"
    <2>1. Visible(id, user) /\ MayUse(id, user)
      BY <1>2, SourcesAgree DEF Listed, Rows, Visible, Recorded
    <2>. QED
      BY <2>1 DEF Answer, LogsVisible
  <1>3. ASSUME NEW other \in Users \ {user}, user \in Users, id \in Listed("all", other),
               NEW route \in Routes
        PROVE  Answer(route, id, user) = "not found"
    <2>1. ~Visible(id, user)
      BY <1>3, NullAssumption DEF Listed, Rows, Visible
    <2>. QED
      BY <2>1 DEF Answer
  <1>. QED
    BY <1>1, <1>2, <1>3 DEF CallerAgrees

\* A part of a finite set is as large as the whole only when it is the whole.
LEMMA ListsAgree ==
    ASSUME IndInv, restarts = 0, NEW user \in Owners
    PROVE  ListAgrees(user)
  <1>. DEFINE list == Listed("unset", user)
  <1>1. list \subseteq running /\ IsFiniteSet(running) /\ WorkerList.sandboxes = running
    BY WorkerListIsMap
  <1>2. ListAnswer("unset", user).sandboxes = list
        /\ ListAnswer("unset", user).count = Cardinality(running)
    BY DEF ListAnswer, ActiveCount
  <1>. HIDE DEF list
  <1>3. /\ Cardinality(list) <= Cardinality(running)
        /\ Cardinality(running) = Cardinality(list) => running = list
    BY <1>1, FS_Subset
  <1>. QED
    BY <1>1, <1>2, <1>3 DEF ListAgrees

\* The limit, the capacity and the list, compared as numbers.
LEMMA LimitsAgree ==
    ASSUME IndInv, restarts = 0, MaxSandboxes > 0
    PROVE  LimitAgrees
  <1>1. Cardinality(running) \in Nat /\ WorkerList.sandboxes = running
    BY WorkerListIsMap
  <1>2. UnderLimit <=> ~(Cardinality(running) >= MaxSandboxes)
    BY <1>1, NatAssumption DEF UnderLimit
  <1>3. Available = 0 <=> Cardinality(running) >= MaxSandboxes
    BY <1>1, NatAssumption DEF Available, ActiveCount
  <1>4. ASSUME NEW template \in Templates \cup {"unknown"}
        PROVE  CreateAnswer(template) = "limit reached" <=> ~UnderLimit
    BY DEF CreateAnswer
  <1>. QED
    BY <1>1, <1>2, <1>3, <1>4 DEF LimitAgrees

LEMMA NumbersAgree ==
    ASSUME IndInv, CreatedCounted, LoggedCounted, restarts = 0,
           NEW format \in {"json", "text"}
    PROVE  MetricsAgree(format)
  <1>1. /\ Exposed(format).active = Cardinality(running)
        /\ Exposed(format).created = metrics.created
        /\ Exposed(format).executions = metrics.executions
    BY DEF Exposed, Summary, Scrape, ActiveCount
  <1>2. Listed("all", NoUser) = Recorded
    BY DEF Listed, Rows
  <1>. QED
    BY <1>1, <1>2, WorkerListIsMap
    DEF CreatedCounted, LoggedCounted, ExecutionCount, MetricsAgree

LEMMA AgreementFollows == IndInv /\ CreatedCounted /\ LoggedCounted => ApiAgrees
  <1>. SUFFICES ASSUME IndInv, CreatedCounted, LoggedCounted PROVE ApiAgrees
    OBVIOUS
  <1>1. \A id \in Sandboxes : ExecutionCount(id) > 0 => id \in Listed("all", NoUser)
    BY DEF LoggedCounted, ExecutionCount, Listed, Rows
  <1>2. WorkerList.count <= Cardinality(WorkerList.sandboxes)
    <2>1. WorkerList.count = Cardinality(running)
      BY DEF WorkerList, ListAnswer, ActiveCount
    <2>2. running \subseteq WorkerList.sandboxes /\ IsFiniteSet(WorkerList.sandboxes)
      BY WorkerListIsMap
    <2>. QED
      BY <2>1, <2>2, FS_Subset
  <1>. QED
    BY <1>1, <1>2, CallersAgree, ListsAgree, LimitsAgree, NumbersAgree DEF ApiAgrees

\* For any users, limit and interleaving: what a caller may do agrees with what
\* that caller is shown, a list's count is everybody's and equals the caller's
\* own list exactly when nobody else has an open sandbox, and the refusals, the
\* capacity and the metrics fit the worker's list, although the table answers
\* some of it and the Map the rest.
\* The detail, the logs, the list, the writes, the counts and the refusals of
\* the API agree although the table answers some and the Map the others.
THEOREM RoutesAgree == Spec => []ApiAgrees
  <1>1. IndInv /\ CreatedCounted /\ [Next]_vars => CreatedCounted'
    BY CreatedCountedStep
  <1>2. IndInv /\ LoggedCounted /\ [Next]_vars => LoggedCounted'
    BY LoggedCountedStep
  <1>. QED
    BY <1>1, <1>2, IndInvHolds, CreatedCountedInit, LoggedCountedInit,
       AgreementFollows, PTL DEF Spec
=============================================================================
