--------------------------- MODULE FirecrackerProofs ---------------------------
(***************************************************************************)
(* Theorems about FirecrackerNode: a worker's microVM backend, beside a    *)
(* template that may be rebuilt at any time, for any sandboxes, overlapping*)
(* destroys, builders, versions and numbers of faults.                     *)
(***************************************************************************)
EXTENDS FirecrackerNode, TLAPS

Places == {"none"} \cup Booting \cup Ended
Fields == {"made", "rootfs", "state", "memory"}

\* The shape of the backend's state.  What a file holds does not matter.
Formed ==
    /\ DOMAIN jail = Sandboxes /\ jail = [id \in Sandboxes |-> jail[id]]
    /\ \A id \in Sandboxes :
           /\ DOMAIN jail[id] = Fields
           /\ jail[id] = [f \in Fields |-> jail[id][f]]
    /\ firecracker \in [Sandboxes -> {"none", "alive", "killed"}]
    /\ boot \in [Sandboxes -> [at : Places, put : Nat, restore : BOOLEAN]]
    /\ destroys \in [Calls -> [at : {"idle", "wait", "removed"},
                               id : Sandboxes \cup {None}, ttl : BOOLEAN]]
    /\ vms \subseteq Sandboxes /\ known \subseteq Sandboxes

\* Staged so far, in the order of a boot.
Rooted   == {"access_state", "access_memory", "link_state", "link_memory", "copy_state",
             "copy_memory", "spawn", "socket", "put", "agent"}
Launched == {"socket", "put", "agent", "ready", "failed", "lost"}

\* Nothing exists before mkdir; the jail of a boot has been made, with its
\* rootfs once that was copied; a process runs only inside its jail.
BootsSound == \A id \in Sandboxes :
    /\ boot[id].at = "none" => ~jail[id].made /\ firecracker[id] = "none"
    /\ boot[id].at \in Booting => jail[id].made
    /\ boot[id].at \in Rooted => jail[id].rootfs # None
    /\ firecracker[id] = "alive" =>
           boot[id].at \in Launched /\ jail[id].made /\ jail[id].rootfs # None

\* The two Maps: what the manager knows has booted, and is registered.
MapsSound ==
    /\ \A id \in known : id \in vms /\ boot[id].at = "ready"
    /\ \A id \in vms : boot[id].at \in {"agent", "ready", "failed"}
    /\ \A id \in Sandboxes : boot[id].at = "agent" => id \in vms

\* A destroy has killed its VM, and once past rm, has removed its jail.
DestroysSound == \A c \in Calls : destroys[c].at # "idle" =>
    /\ destroys[c].id \in Sandboxes
    /\ boot[destroys[c].id].at = "ready"
    /\ firecracker[destroys[c].id] # "alive"
    /\ destroys[c].at = "removed" => ~jail[destroys[c].id].made

\* A VM that booted and that the manager does not know leaves nothing, unless
\* the rm of a TTL destroy failed.
GoneOrKnown == \A id \in Sandboxes :
    boot[id].at = "ready" /\ id \notin known => ~Held(id) \/ id \in unremoved

BackendInv == Formed /\ BootsSound /\ MapsSound /\ DestroysSound /\ GoneOrKnown

-------------------------------------------------------------------------------
\* What the parts of the actions do

\* A boot moves, and no other.
LEMMA GoesEffect ==
    ASSUME Formed, NEW id \in Sandboxes, NEW from, NEW to \in Places, Goes(id, from, to)
    PROVE  /\ boot' \in [Sandboxes -> [at : Places, put : Nat, restore : BOOLEAN]]
           /\ boot[id].at = from /\ boot'[id].at = to
           /\ boot'[id].restore = boot[id].restore
           /\ \A i \in Sandboxes : i # id => boot'[i] = boot[i]
  <1>1. boot[id] \in [at : Places, put : Nat, restore : BOOLEAN]
    BY DEF Formed
  <1>2. [boot[id] EXCEPT !.at = to] \in [at : Places, put : Nat, restore : BOOLEAN]
    BY <1>1
  <1>3. boot' = [boot EXCEPT ![id] = [boot[id] EXCEPT !.at = to]]
    BY DEF Formed, Goes
  <1>4. boot' \in [Sandboxes -> [at : Places, put : Nat, restore : BOOLEAN]]
    BY <1>2, <1>3 DEF Formed
  <1>5. boot'[id] = [boot[id] EXCEPT !.at = to] /\ \A i \in Sandboxes : i # id => boot'[i] = boot[i]
    BY <1>3 DEF Formed
  <1>6. boot'[id].at = to /\ boot'[id].restore = boot[id].restore
    BY <1>1, <1>5
  <1>. QED
    BY <1>4, <1>5, <1>6 DEF Goes

\* One file lands in one jail.
LEMMA StageEffect ==
    ASSUME Formed, NEW id \in Sandboxes, NEW file \in Fields, NEW content,
           Stage(id, file, content)
    PROVE  /\ DOMAIN jail' = Sandboxes /\ jail' = [i \in Sandboxes |-> jail'[i]]
           /\ \A i \in Sandboxes :
                  /\ DOMAIN jail'[i] = Fields
                  /\ jail'[i] = [f \in Fields |-> jail'[i][f]]
           /\ jail'[id][file] = content
           /\ \A f \in Fields : f # file => jail'[id][f] = jail[id][f]
           /\ \A i \in Sandboxes : i # id => jail'[i] = jail[i]
  BY DEF Formed, Stage

\* The shape of the jails, on its own.
JailsFormed ==
    /\ DOMAIN jail = Sandboxes /\ jail = [id \in Sandboxes |-> jail[id]]
    /\ \A id \in Sandboxes :
           /\ DOMAIN jail[id] = Fields
           /\ jail[id] = [f \in Fields |-> jail[id][f]]

BootsTyped == boot \in [Sandboxes -> [at : Places, put : Nat, restore : BOOLEAN]]

\* One create goes on: what has to hold where it arrives.
LEMMA OneBoot ==
    ASSUME BackendInv, NEW id \in Sandboxes,
           BootsTyped', JailsFormed',
           \A i \in Sandboxes : i # id => boot'[i] = boot[i] /\ jail'[i] = jail[i],
           UNCHANGED <<firecracker, vms, known, destroys, unremoved>>,
           boot[id].at \in {"none"} \cup Booting,
           boot'[id].at \in (Booting \ {"agent"}) \cup {"failed"},
           jail'[id].made,
           boot'[id].at \in Rooted => jail'[id].rootfs # None,
           firecracker[id] = "alive" => boot'[id].at \in Launched /\ jail'[id].rootfs # None,
           id \in vms => boot'[id].at = "failed"
    PROVE  BackendInv'
  <1>1. Formed'
    BY DEF BackendInv, Formed, BootsTyped, JailsFormed
  <1>2. boot[id].at # "ready" /\ boot'[id].at # "ready" /\ boot'[id].at # "none"
    BY DEF Booting, Staging
  <1>3. BootsSound'
    <2>1. ASSUME NEW i \in Sandboxes
          PROVE  /\ boot'[i].at = "none" => ~jail'[i].made /\ firecracker'[i] = "none"
                 /\ boot'[i].at \in Booting => jail'[i].made
                 /\ boot'[i].at \in Rooted => jail'[i].rootfs # None
                 /\ firecracker'[i] = "alive" =>
                        boot'[i].at \in Launched /\ jail'[i].made /\ jail'[i].rootfs # None
      <3>1. CASE i = id
        BY <1>2, <3>1
      <3>2. CASE i # id
        BY <3>2 DEF BackendInv, BootsSound
      <3>. QED
        BY <3>1, <3>2
    <2>. QED
      BY <2>1 DEF BootsSound
  <1>4. MapsSound'
    <2>1. id \notin known
      BY <1>2 DEF BackendInv, MapsSound
    <2>2. boot'[id].at # "agent"
      BY DEF Booting, Staging
    <2>3. \A i \in known' : i \in vms' /\ boot'[i].at = "ready"
      BY <2>1 DEF BackendInv, MapsSound, Formed
    <2>4. \A i \in vms' : boot'[i].at \in {"agent", "ready", "failed"}
      BY DEF BackendInv, MapsSound, Formed
    <2>5. \A i \in Sandboxes : boot'[i].at = "agent" => i \in vms'
      BY <2>2 DEF BackendInv, MapsSound
    <2>. QED
      BY <2>3, <2>4, <2>5 DEF MapsSound
  <1>5. DestroysSound'
    <2>1. \A c \in Calls : destroys[c].at # "idle" => destroys[c].id # id
      BY <1>2 DEF BackendInv, DestroysSound
    <2>. QED
      BY <2>1 DEF BackendInv, DestroysSound
  <1>6. GoneOrKnown'
    BY <1>2 DEF BackendInv, GoneOrKnown, Held
  <1>. QED
    BY <1>1, <1>3, <1>4, <1>5, <1>6 DEF BackendInv

\* A create moves and changes nothing else.
LEMMA OnlyBootStep ==
    ASSUME BackendInv, NEW id \in Sandboxes, OnlyBoot, BootsTyped',
           \A i \in Sandboxes : i # id => boot'[i] = boot[i],
           boot[id].at \in Booting,
           boot'[id].at \in (Booting \ {"agent"}) \cup {"failed"},
           boot'[id].at \in Rooted => boot[id].at \in Rooted,
           boot[id].at \in Launched => boot'[id].at \in Launched,
           boot[id].at = "agent" => boot'[id].at = "failed"
    PROVE  BackendInv'
  <1>1. JailsFormed'
    BY DEF OnlyBoot, BackendInv, Formed, JailsFormed
  <1>2. jail'[id].made /\ (boot'[id].at \in Rooted => jail'[id].rootfs # None)
    BY DEF OnlyBoot, BackendInv, BootsSound
  <1>3. firecracker[id] = "alive" => boot'[id].at \in Launched /\ jail'[id].rootfs # None
    BY DEF OnlyBoot, BackendInv, BootsSound
  <1>4. id \in vms => boot'[id].at = "failed"
    <2>1. boot[id].at \notin {"ready", "failed"}
      BY DEF Booting, Staging
    <2>. QED
      BY <2>1 DEF BackendInv, MapsSound
  <1>. QED
    BY <1>1, <1>2, <1>3, <1>4, OneBoot DEF OnlyBoot

\* A create stages a file before it has a process.
LEMMA StagingStep ==
    ASSUME BackendInv, NEW id \in Sandboxes, NEW file \in Fields, NEW content,
           Stage(id, file, content), BootsTyped',
           \A i \in Sandboxes : i # id => boot'[i] = boot[i],
           boot[id].at \in {"none"} \cup Staging, boot'[id].at \in Staging,
           boot[id].at = "none" => file = "made",
           file = "made" => content = TRUE,
           file = "rootfs" => content # None,
           boot'[id].at \in Rooted => boot[id].at \in Rooted \/ file = "rootfs"
    PROVE  BackendInv'
  <1>0. Formed
    BY DEF BackendInv
  <1>1. JailsFormed' /\ \A i \in Sandboxes : i # id => jail'[i] = jail[i]
    BY <1>0, StageEffect DEF JailsFormed
  <1>2. jail'[id][file] = content /\ \A f \in Fields : f # file => jail'[id][f] = jail[id][f]
    BY <1>0, StageEffect
  <1>3. boot[id].at \notin Launched /\ boot[id].at \notin {"agent", "ready", "failed"}
    BY DEF Staging, Launched
  <1>4. firecracker[id] # "alive" /\ id \notin vms
    BY <1>3 DEF BackendInv, BootsSound, MapsSound
  <1>5. jail'[id]["made"]
    <2>1. CASE file = "made"
      BY <1>2, <2>1
    <2>2. CASE file # "made"
      <3>1. jail[id].made
        BY <2>2 DEF BackendInv, BootsSound, Booting
      <3>. QED
        BY <1>2, <2>2, <3>1 DEF Fields
    <2>. QED
      BY <2>1, <2>2
  <1>6. boot'[id].at \in Rooted => jail'[id]["rootfs"] # None
    <2>1. CASE file = "rootfs"
      BY <1>2, <2>1
    <2>2. CASE file # "rootfs"
      BY <1>2, <2>2 DEF Fields, BackendInv, BootsSound
    <2>. QED
      BY <2>1, <2>2
  <1>7. UNCHANGED <<firecracker, vms, known, destroys, unremoved>>
    BY DEF Stage
  <1>8. boot[id].at \in {"none"} \cup Booting /\ boot'[id].at \in Booting \ {"agent"}
    BY DEF Booting, Staging
  <1>. QED
    BY <1>1, <1>4, <1>5, <1>6, <1>7, <1>8, OneBoot

\* A boot that also notes that it restores a snapshot.
LEMMA RestoreEffect ==
    ASSUME Formed, NEW id \in Sandboxes, NEW to \in Places,
           boot' = [boot EXCEPT ![id].at = to, ![id].restore = TRUE]
    PROVE  /\ BootsTyped'
           /\ boot'[id].at = to /\ boot'[id].restore = TRUE
           /\ \A i \in Sandboxes : i # id => boot'[i] = boot[i]
  <1>1. boot[id] \in [at : Places, put : Nat, restore : BOOLEAN]
    BY DEF Formed
  <1>2. [boot[id] EXCEPT !.at = to, !.restore = TRUE] \in [at : Places, put : Nat, restore : BOOLEAN]
    BY <1>1
  <1>3. boot' = [boot EXCEPT ![id] = [boot[id] EXCEPT !.at = to, !.restore = TRUE]]
    BY DEF Formed
  <1>4. BootsTyped'
    BY <1>2, <1>3 DEF Formed, BootsTyped
  <1>5. /\ boot'[id] = [boot[id] EXCEPT !.at = to, !.restore = TRUE]
        /\ \A i \in Sandboxes : i # id => boot'[i] = boot[i]
    BY <1>3 DEF Formed
  <1>6. boot'[id].at = to /\ boot'[id].restore = TRUE
    BY <1>1, <1>5
  <1>. QED
    BY <1>4, <1>5, <1>6

LEMMA PutEffect ==
    ASSUME Formed, NEW id \in Sandboxes, boot' = [boot EXCEPT ![id].put = @ + 1]
    PROVE  /\ BootsTyped'
           /\ boot'[id].at = boot[id].at /\ boot'[id].restore = boot[id].restore
           /\ \A i \in Sandboxes : i # id => boot'[i] = boot[i]
  <1>1. boot[id] \in [at : Places, put : Nat, restore : BOOLEAN]
    BY DEF Formed
  <1>2. [boot[id] EXCEPT !.put = @ + 1] \in [at : Places, put : Nat, restore : BOOLEAN]
    BY <1>1
  <1>3. boot' = [boot EXCEPT ![id] = [boot[id] EXCEPT !.put = @ + 1]]
    BY DEF Formed
  <1>4. BootsTyped'
    BY <1>2, <1>3 DEF Formed, BootsTyped
  <1>5. /\ boot'[id] = [boot[id] EXCEPT !.put = @ + 1]
        /\ \A i \in Sandboxes : i # id => boot'[i] = boot[i]
    BY <1>3 DEF Formed
  <1>6. boot'[id].at = boot[id].at /\ boot'[id].restore = boot[id].restore
    BY <1>1, <1>5
  <1>. QED
    BY <1>4, <1>5, <1>6

-------------------------------------------------------------------------------
\* create

LEMMA CreateStep ==
    ASSUME BackendInv, NEW id \in Sandboxes, CreateBegins(id) \/ BootStep(id)
    PROVE  BackendInv'
  <1>. DEFINE Others == \A i \in Sandboxes : i # id => boot'[i] = boot[i]
              Moved(from, to) == BootsTyped' /\ boot[id].at = from /\ boot'[id].at = to /\ Others
  <1>0. Formed
    BY DEF BackendInv
  <1>1. ASSUME NEW from, NEW to \in Places, Goes(id, from, to)
        PROVE  Moved(from, to)
    BY <1>0, <1>1, GoesEffect DEF BootsTyped
  <1>. USE DEF Staging, Booting, Ended, Places, Rooted, Launched, Fields
  <1>2. CASE CreateBegins(id)
    <2>1. Moved("none", "kernel") /\ Stage(id, "made", TRUE)
      BY <1>1, <1>2 DEF CreateBegins
    <2>. QED
      BY <2>1, StagingStep
  <1>3. CASE LinkKernel(id)
    <2>1. Moved("kernel", "rootfs") /\ OnlyBoot
      BY <1>1, <1>3 DEF LinkKernel
    <2>. QED
      BY <2>1, OnlyBootStep
  <1>4. CASE CopyRootfs(id)
    <2>1. Moved("rootfs", "access_state") /\ Stage(id, "rootfs", disk.rootfs) /\ disk.rootfs # None
      BY <1>1, <1>4 DEF CopyRootfs
    <2>. QED
      BY <2>1, StagingStep
  <1>5. CASE AccessState(id)
    <2>1. OnlyBoot /\ (Moved("access_state", "access_memory") \/ Moved("access_state", "spawn"))
      BY <1>1, <1>5 DEF AccessState
    <2>. QED
      BY <2>1, OnlyBootStep
  <1>6. CASE AccessMemory(id)
    <2>1. OnlyBoot /\ (Moved("access_memory", "link_state") \/ Moved("access_memory", "spawn"))
      BY <1>1, <1>6 DEF AccessMemory
    <2>. QED
      BY <2>1, OnlyBootStep
  <1>7. CASE LinkState(id)
    <2>1. Moved("link_state", "link_memory") /\ Stage(id, "state", disk.state)
      BY <1>1, <1>7 DEF LinkState
    <2>. QED
      BY <2>1, StagingStep
  <1>8. CASE LinkMemory(id)
    <2>1. Moved("link_memory", "spawn") /\ Stage(id, "memory", disk.memory)
      BY <1>0, <1>8, RestoreEffect DEF LinkMemory
    <2>. QED
      BY <2>1, StagingStep
  <1>9. CASE LinkFails(id)
    <2>1. OnlyBoot /\ (Moved("link_state", "copy_state") \/ Moved("link_memory", "copy_state"))
      BY <1>1, <1>9 DEF LinkFails
    <2>. QED
      BY <2>1, OnlyBootStep
  <1>10. CASE CopyState(id)
    <2>1. Moved("copy_state", "copy_memory") /\ Stage(id, "state", disk.state)
      BY <1>1, <1>10 DEF CopyState
    <2>. QED
      BY <2>1, StagingStep
  <1>11. CASE CopyMemory(id)
    <2>1. Moved("copy_memory", "spawn") /\ Stage(id, "memory", disk.memory)
      BY <1>0, <1>11, RestoreEffect DEF CopyMemory
    <2>. QED
      BY <2>1, StagingStep
  <1>12. CASE CopyFails(id)
    <2>1. OnlyBoot /\ (Moved("copy_state", "spawn") \/ Moved("copy_memory", "spawn"))
      BY <1>1, <1>12 DEF CopyFails
    <2>. QED
      BY <2>1, OnlyBootStep
  <1>13. CASE Spawn(id)
    <2>1. /\ Moved("spawn", "socket") /\ firecracker' = [firecracker EXCEPT ![id] = "alive"]
          /\ UNCHANGED <<jail, vms, known, destroys, unremoved>>
      BY <1>1, <1>13 DEF Spawn
    <2>0. /\ firecracker' \in [Sandboxes -> {"none", "alive", "killed"}]
          /\ \A i \in Sandboxes : i # id => firecracker'[i] = firecracker[i]
      BY <1>0, <2>1 DEF Formed
    <2>7. /\ Moved("spawn", "socket") /\ firecracker'[id] = "alive"
          /\ UNCHANGED <<jail, vms, known, destroys, unremoved>>
      BY <1>0, <2>1 DEF Formed
    <2>2. Formed'
      <3>1. JailsFormed'
        BY <1>0, <2>7 DEF Formed, JailsFormed
      <3>2. (destroys \in [Calls -> [at : {"idle", "wait", "removed"},
                                     id : Sandboxes \cup {None}, ttl : BOOLEAN]])'
        BY <1>0, <2>7 DEF Formed
      <3>3. vms' \subseteq Sandboxes /\ known' \subseteq Sandboxes
        BY <1>0, <2>7 DEF Formed
      <3>. QED
        BY <2>0, <2>7, <3>1, <3>2, <3>3 DEF Formed, BootsTyped, JailsFormed
    <2>3. BootsSound'
      <3>1. jail[id].made /\ jail[id].rootfs # None
        BY <2>7 DEF BackendInv, BootsSound
      <3>. QED
        <4>1. ASSUME NEW i \in Sandboxes, i # id
              PROVE  UNCHANGED <<boot[i], jail[i], firecracker[i]>>
          BY <2>0, <2>7, <4>1
        <4>. QED
          BY <2>7, <3>1, <4>1 DEF BackendInv, BootsSound
    <2>4. MapsSound'
      BY <2>7 DEF BackendInv, MapsSound, Formed
    <2>5. DestroysSound'
      <3>1. \A c \in Calls : destroys[c].at # "idle" => destroys[c].id # id
        BY <2>7 DEF BackendInv, DestroysSound
      <3>. QED
        BY <2>0, <2>7, <3>1 DEF BackendInv, DestroysSound
    <2>6. GoneOrKnown'
      BY <2>0, <2>7 DEF BackendInv, GoneOrKnown, Held
    <2>. QED
      BY <2>2, <2>3, <2>4, <2>5, <2>6 DEF BackendInv
  <1>14. CASE SocketUp(id)
    <2>1. Moved("socket", "put") /\ OnlyBoot
      BY <1>1, <1>14 DEF SocketUp
    <2>. QED
      BY <2>1, OnlyBootStep
  <1>15. CASE Put(id)
    <2>1. Moved("put", "put") /\ OnlyBoot
      BY <1>0, <1>15, PutEffect DEF Put
    <2>. QED
      BY <2>1, OnlyBootStep
  <1>16. CASE Start(id)
    <2>1. /\ Moved("put", "agent") /\ vms' = vms \cup {id}
          /\ UNCHANGED <<jail, firecracker, known, destroys, unremoved>>
      BY <1>1, <1>16 DEF Start
    <2>2. Formed'
      BY <1>0, <2>1 DEF Formed, BootsTyped
    <2>3. BootsSound'
      BY <2>1 DEF BackendInv, BootsSound
    <2>4. MapsSound'
      BY <2>1 DEF BackendInv, MapsSound, Formed
    <2>5. DestroysSound' /\ GoneOrKnown'
      BY <2>1 DEF BackendInv, DestroysSound, GoneOrKnown, Held
    <2>. QED
      BY <2>2, <2>3, <2>4, <2>5 DEF BackendInv
  <1>17. CASE AgentReady(id)
    <2>1. /\ Moved("agent", "ready") /\ known' = known \cup {id}
          /\ UNCHANGED <<jail, firecracker, vms, destroys, unremoved>>
      BY <1>1, <1>17 DEF AgentReady
    <2>2. Formed'
      BY <1>0, <2>1 DEF Formed, BootsTyped
    <2>3. BootsSound'
      BY <2>1 DEF BackendInv, BootsSound
    <2>4. MapsSound'
      <3>1. id \in vms
        BY <2>1 DEF BackendInv, MapsSound
      <3>2. \A i \in known : i # id => boot'[i].at = "ready"
        BY <2>1 DEF BackendInv, MapsSound, Formed
      <3>3. \A i \in vms : boot'[i].at \in {"agent", "ready", "failed"}
        BY <2>1 DEF BackendInv, MapsSound, Formed
      <3>. QED
        BY <2>1, <3>1, <3>2, <3>3 DEF BackendInv, MapsSound
    <2>5. DestroysSound' /\ GoneOrKnown'
      BY <2>1 DEF BackendInv, DestroysSound, GoneOrKnown, Held
    <2>. QED
      BY <2>2, <2>3, <2>4, <2>5 DEF BackendInv
  <1>18. CASE CreateFails(id)
    <2>1. Moved(boot[id].at, "failed") /\ boot[id].at \in Fatal /\ OnlyBoot
      BY <1>1, <1>18 DEF CreateFails, Goes
    <2>. QED
      BY <2>1, OnlyBootStep DEF Fatal
  <1>. QED
    BY <1>2, <1>3, <1>4, <1>5, <1>6, <1>7, <1>8, <1>9, <1>10, <1>11, <1>12, <1>13,
       <1>14, <1>15, <1>16, <1>17, <1>18 DEF BootStep

-------------------------------------------------------------------------------
\* destroy

DestroysTyped == destroys \in [Calls -> [at : {"idle", "wait", "removed"},
                                         id : Sandboxes \cup {None}, ttl : BOOLEAN]]

\* A destroy settles: its activation is idle again, the others are as before.
LEMMA IdleEffect ==
    ASSUME DestroysTyped, NEW c \in Calls, destroys' = [destroys EXCEPT ![c] = IdleDestroy]
    PROVE  /\ DestroysTyped'
           /\ destroys'[c].at = "idle"
           /\ \A d \in Calls : d # c => destroys'[d] = destroys[d]
  BY DEF DestroysTyped, IdleDestroy

\* While its VM is alive a destroy kills it, whatever else is under way.
LEMMA DestroyBeginsStep ==
    ASSUME BackendInv, NEW c \in Calls, NEW id \in Sandboxes, NEW ttl \in BOOLEAN,
           DestroyBegins(c, id, ttl)
    PROVE  BackendInv'
  <1>1. id \in known /\ id \in vms /\ boot[id].at = "ready"
    BY DEF DestroyBegins, BackendInv, MapsSound
  <1>2. UNCHANGED <<jail, boot, vms, known, unremoved>>
    BY DEF DestroyBegins
  <1>3. /\ DestroysTyped'
        /\ destroys'[c].at = "wait" /\ destroys'[c].id = id
        /\ \A d \in Calls : d # c => destroys'[d] = destroys[d]
    BY DEF DestroyBegins, BackendInv, Formed, DestroysTyped
  <1>4. /\ firecracker' \in [Sandboxes -> {"none", "alive", "killed"}]
        /\ firecracker'[id] # "alive" /\ (firecracker[id] = "none" => firecracker'[id] = "none")
        /\ \A i \in Sandboxes : i # id => firecracker'[i] = firecracker[i]
    BY DEF DestroyBegins, BackendInv, Formed
  <1>5. \A i \in Sandboxes : firecracker'[i] = "alive" => firecracker[i] = "alive"
    BY <1>4
  <1>6. JailsFormed'
    BY <1>2 DEF BackendInv, Formed, JailsFormed
  <1>7. Formed'
    BY <1>2, <1>3, <1>4, <1>6 DEF BackendInv, Formed, DestroysTyped, JailsFormed
  <1>8. BootsSound'
    BY <1>1, <1>2, <1>4, <1>5 DEF BackendInv, BootsSound
  <1>9. MapsSound'
    BY <1>2 DEF BackendInv, MapsSound
  <1>10. DestroysSound'
    BY <1>1, <1>2, <1>3, <1>4, <1>5 DEF BackendInv, DestroysSound
  <1>11. GoneOrKnown'
    BY <1>2, <1>5 DEF BackendInv, GoneOrKnown, Held
  <1>. QED
    BY <1>7, <1>8, <1>9, <1>10, <1>11 DEF BackendInv

\* What rm removes is the jail of a VM that was killed before.
LEMMA RemoveJailStep ==
    ASSUME BackendInv, NEW c \in Calls, RemoveJail(c)
    PROVE  BackendInv'
  <1>. DEFINE id == destroys[c].id
  <1>1. /\ destroys[c].at = "wait"
        /\ UNCHANGED <<firecracker, boot, vms, known, unremoved>>
    BY DEF RemoveJail
  <1>2. id \in Sandboxes /\ boot[id].at = "ready" /\ firecracker[id] # "alive"
    BY <1>1 DEF BackendInv, DestroysSound
  <1>3. /\ DestroysTyped'
        /\ destroys'[c].id = id
        /\ \A d \in Calls : d # c => destroys'[d] = destroys[d]
    BY DEF RemoveJail, BackendInv, Formed, DestroysTyped
  <1>4. /\ JailsFormed'
        /\ ~jail'[id].made
        /\ \A i \in Sandboxes : i # id => jail'[i] = jail[i]
    BY <1>2 DEF RemoveJail, BackendInv, Formed, JailsFormed, NoJail, Fields
  <1>5. Formed'
    BY <1>1, <1>3, <1>4 DEF BackendInv, Formed, DestroysTyped, JailsFormed
  <1>6. boot[id].at \notin Booting \cup Rooted
    BY <1>2 DEF Booting, Staging, Rooted
  <1>7. BootsSound'
    BY <1>1, <1>2, <1>4, <1>6 DEF BackendInv, BootsSound
  <1>8. MapsSound'
    BY <1>1 DEF BackendInv, MapsSound
  <1>9. DestroysSound'
    <2>1. ASSUME NEW d \in Calls, destroys'[d].at # "idle"
          PROVE  /\ destroys'[d].id \in Sandboxes
                 /\ boot[destroys'[d].id].at = "ready"
                 /\ firecracker[destroys'[d].id] # "alive"
                 /\ destroys'[d].at = "removed" => ~jail'[destroys'[d].id].made
      <3>1. CASE d = c
        BY <1>2, <1>3, <1>4, <3>1
      <3>2. CASE d # c
        BY <1>3, <1>4, <2>1, <3>2 DEF BackendInv, DestroysSound
      <3>. QED
        BY <3>1, <3>2
    <2>. QED
      BY <1>1, <2>1 DEF DestroysSound
  <1>10. GoneOrKnown'
    <2>1. \A i \in Sandboxes : Held(i)' => Held(i)
      BY <1>1, <1>4 DEF Held
    <2>. QED
      BY <1>1, <2>1 DEF BackendInv, GoneOrKnown
  <1>. QED
    BY <1>5, <1>7, <1>8, <1>9, <1>10 DEF BackendInv

\* A destroy settles: what is dropped from the Maps is gone or unremoved.
LEMMA DestroySettlesStep ==
    ASSUME BackendInv, NEW c \in Calls, destroys' = [destroys EXCEPT ![c] = IdleDestroy],
           UNCHANGED <<jail, firecracker, boot>>,
           vms' \subseteq vms, known' \subseteq known, known' \subseteq vms',
           \A id \in vms \ vms' : boot[id].at = "ready",
           \A id \in known \ known' : ~Held(id) \/ id \in unremoved',
           unremoved \subseteq unremoved'
    PROVE  BackendInv'
  <1>1. /\ DestroysTyped'
        /\ destroys'[c].at = "idle"
        /\ \A d \in Calls : d # c => destroys'[d] = destroys[d]
    BY IdleEffect DEF BackendInv, Formed, DestroysTyped
  <1>2. Formed'
    <2>1. JailsFormed'
      BY DEF BackendInv, Formed, JailsFormed
    <2>. QED
      BY <1>1, <2>1 DEF BackendInv, Formed, DestroysTyped, JailsFormed
  <1>3. BootsSound' /\ MapsSound'
    BY DEF BackendInv, BootsSound, MapsSound
  <1>4. DestroysSound'
    BY <1>1 DEF BackendInv, DestroysSound
  <1>5. GoneOrKnown'
    <2>1. \A id \in Sandboxes : Held(id)' <=> Held(id)
      BY DEF Held
    <2>. QED
      BY <2>1 DEF BackendInv, GoneOrKnown
  <1>. QED
    BY <1>2, <1>3, <1>4, <1>5 DEF BackendInv

LEMMA DestroyStepSound ==
    ASSUME BackendInv, NEW c \in Calls, DestroyStep(c)
    PROVE  BackendInv'
  <1>. DEFINE id == destroys[c].id
  <1>0. known \subseteq vms
    BY DEF BackendInv, MapsSound
  <1>1. CASE RemoveJail(c)
    BY <1>1, RemoveJailStep
  <1>2. CASE DestroyReturns(c)
    <2>1. id \in Sandboxes /\ boot[id].at = "ready" /\ ~Held(id)
      BY <1>2 DEF DestroyReturns, BackendInv, DestroysSound, Held
    <2>. QED
      BY <1>0, <1>2, <2>1, DestroySettlesStep DEF DestroyReturns
  <1>3. CASE DestroyFails(c)
    BY <1>0, <1>3, DestroySettlesStep DEF DestroyFails
  <1>. QED
    BY <1>1, <1>2, <1>3 DEF DestroyStep

-------------------------------------------------------------------------------
\* The host and the server process

LEMMA ProcessEndsStep ==
    ASSUME BackendInv, NEW id \in Sandboxes, ProcessGone(id) \/ VmDies(id)
    PROVE  BackendInv'
  <1>1. /\ firecracker' = [firecracker EXCEPT ![id] = "none"]
        /\ UNCHANGED <<jail, boot, vms, known, destroys, unremoved>>
    BY DEF ProcessGone, VmDies
  <1>2. /\ firecracker' \in [Sandboxes -> {"none", "alive", "killed"}]
        /\ firecracker'[id] = "none"
        /\ \A i \in Sandboxes : i # id => firecracker'[i] = firecracker[i]
    BY <1>1 DEF BackendInv, Formed
  <1>3. Formed'
    <2>1. JailsFormed'
      BY <1>1 DEF BackendInv, Formed, JailsFormed
    <2>. QED
      BY <1>1, <1>2, <2>1 DEF BackendInv, Formed, JailsFormed
  <1>4. BootsSound'
    BY <1>1, <1>2 DEF BackendInv, BootsSound
  <1>5. MapsSound' /\ DestroysSound'
    BY <1>1, <1>2 DEF BackendInv, MapsSound, DestroysSound
  <1>6. GoneOrKnown'
    BY <1>1, <1>2 DEF BackendInv, GoneOrKnown, Held
  <1>. QED
    BY <1>3, <1>4, <1>5, <1>6 DEF BackendInv

\* A restart forgets every boot and every VM, and touches none.
LEMMA RestartStep ==
    ASSUME BackendInv, Restart
    PROVE  /\ BackendInv'
           /\ \A id \in Sandboxes : boot[id].at # "none" => boot'[id].at = "lost"
  <1>1. /\ vms' = {} /\ known' = {} /\ destroys' = [c \in Calls |-> IdleDestroy]
        /\ UNCHANGED <<jail, firecracker, unremoved>>
    BY DEF Restart
  <1>2. /\ BootsTyped'
        /\ \A id \in Sandboxes :
               IF boot[id].at = "none" THEN boot'[id] = boot[id] ELSE boot'[id].at = "lost"
    <2>1. \A id \in Sandboxes : boot[id] \in [at : Places, put : Nat, restore : BOOLEAN]
      BY DEF BackendInv, Formed
    <2>2. "lost" \in Places
      BY DEF Places, Ended
    <2>3. \A id \in Sandboxes :
             /\ [boot[id] EXCEPT !.at = "lost"] \in [at : Places, put : Nat, restore : BOOLEAN]
             /\ [boot[id] EXCEPT !.at = "lost"].at = "lost"
      BY <2>1, <2>2
    <2>4. \A id \in Sandboxes :
             boot'[id] = IF boot[id].at = "none" THEN boot[id] ELSE [boot[id] EXCEPT !.at = "lost"]
      BY DEF Restart
    <2>5. BootsTyped'
      BY <2>1, <2>3 DEF Restart, BootsTyped
    <2>. QED
      BY <2>3, <2>4, <2>5
  <1>3. DestroysTyped' /\ \A c \in Calls : destroys'[c].at = "idle"
    BY <1>1 DEF DestroysTyped, IdleDestroy
  <1>4. Formed'
    <2>1. JailsFormed'
      BY <1>1 DEF BackendInv, Formed, JailsFormed
    <2>. QED
      BY <1>1, <1>2, <1>3, <2>1 DEF BackendInv, Formed, JailsFormed, BootsTyped, DestroysTyped
  <1>5. "lost" \in Launched /\ "lost" \notin Rooted \cup Booting
    BY DEF Launched, Rooted, Booting, Staging
  <1>6. BootsSound'
    BY <1>1, <1>2, <1>5 DEF BackendInv, BootsSound
  <1>7. MapsSound'
    <2>1. \A id \in Sandboxes : boot'[id].at # "agent"
      BY <1>2
    <2>. QED
      BY <1>1, <2>1 DEF MapsSound
  <1>8. DestroysSound'
    BY <1>3 DEF DestroysSound
  <1>9. GoneOrKnown'
    <2>1. \A id \in Sandboxes : boot'[id].at # "ready"
      BY <1>2
    <2>. QED
      BY <2>1 DEF GoneOrKnown
  <1>. QED
    BY <1>2, <1>4, <1>6, <1>7, <1>8, <1>9 DEF BackendInv

LEMMA BackendInvStep == BackendInv /\ [NodeNext]_nodeVars => BackendInv'
  <1>. SUFFICES ASSUME BackendInv, [NodeNext]_nodeVars PROVE BackendInv'
    OBVIOUS
  <1>1. CASE Next
    BY <1>1, CreateStep, DestroyBeginsStep, DestroyStepSound, ProcessEndsStep, RestartStep
    DEF Next
  <1>2. CASE UNCHANGED backendVars
    BY <1>2 DEF backendVars, BackendInv, Formed, BootsSound, MapsSound, DestroysSound,
       GoneOrKnown, Held
  <1>. QED
    BY <1>1, <1>2 DEF NodeNext, nodeVars, vars

LEMMA BackendInvInit == NodeInit => BackendInv
  <1>. SUFFICES ASSUME InitBackend PROVE BackendInv
    BY DEF NodeInit
  <1>1. Formed
    BY DEF InitBackend, Formed, NoJail, Fields, Places, IdleDestroy
  <1>2. BootsSound
    BY DEF InitBackend, BootsSound, NoJail, Booting, Staging, Rooted
  <1>3. MapsSound /\ DestroysSound /\ GoneOrKnown
    BY DEF InitBackend, MapsSound, DestroysSound, GoneOrKnown, IdleDestroy
  <1>. QED
    BY <1>1, <1>2, <1>3 DEF BackendInv

-------------------------------------------------------------------------------
\* What a boot takes from the disk

Restoring == {"spawn", "socket", "put", "agent"}

\* Only what comes after the last staging step restores.
RestoreIsLate == \A id \in Sandboxes :
    boot[id].restore => boot[id].at \in Restoring \cup Ended

\* The snapshot on the disk, if there is one, is of the rootfs in the jail of id.
Matched(id) ==
    \/ disk.state = None /\ disk.memory = None
    \/ disk.state = disk.memory /\ disk.state # None /\ disk.state.of = jail[id].rootfs

\* While the boot of id takes files, the disk matches its rootfs and what it has
\* taken is on the disk; once it has them all, what is in the jail fits together.
FromDisk(id) ==
    /\ boot[id].at \in Taking => Matched(id)
    /\ boot[id].at \in {"access_memory", "link_state", "link_memory", "copy_state",
                        "copy_memory"} => disk.state # None
    /\ boot[id].at \in {"link_memory", "copy_memory"} => jail[id].state = disk.state
    /\ boot[id].restore /\ (boot[id].at \in Restoring \/ firecracker[id] = "alive") =>
           jail[id].state = jail[id].memory /\ jail[id].state.of = jail[id].rootfs

\* A boot that has not copied its rootfs has taken nothing that could be wrong.
NotTaking == {"none", "kernel", "rootfs"}

FlagSound(id) ==
    steady[id] => FromDisk(id) /\ (boot[id].at \in NotTaking => DiskSound)

SteadySound == \A id \in Sandboxes : FlagSound(id)

NodeInv == BackendInv /\ RestoreIsLate /\ SteadySound

\* A boot that does not move, or ends, keeps what it took.  Only one that is
\* still taking depends on the disk.
LEMMA KeptFromDisk ==
    ASSUME NEW id \in Sandboxes, FromDisk(id),
           boot'[id].at \in Taking => disk'.state = disk.state /\ disk'.memory = disk.memory,
           jail'[id] = jail[id] \/ (boot[id].at = "ready" /\ firecracker[id] # "alive"),
           boot'[id].restore = boot[id].restore,
           boot'[id].at = boot[id].at \/ boot'[id].at \in Ended,
           firecracker'[id] = "alive" => firecracker[id] = "alive"
    PROVE  FromDisk(id)'
  BY DEF FromDisk, Matched, Taking, Staging, Restoring, Ended

\* One step of a create, over a disk that stays as it is.
LEMMA CreateFromDisk ==
    ASSUME NodeInv, BackendInv', NEW id \in Sandboxes, CreateBegins(id) \/ BootStep(id)
    PROVE  /\ \A i \in Sandboxes : i # id =>
                  UNCHANGED <<boot[i], jail[i], firecracker[i]>>
           /\ boot'[id].restore => boot'[id].at \in Restoring \cup Ended
           /\ FromDisk(id) /\ (boot[id].at \in NotTaking => DiskSound) => FromDisk(id)'
           /\ disk' = disk
  <1>. DEFINE Others == \A i \in Sandboxes : i # id =>
                            UNCHANGED <<boot[i], jail[i], firecracker[i]>>
              Late == boot'[id].restore => boot'[id].at \in Restoring \cup Ended
              Kept == /\ FromDisk(id) /\ (boot[id].at \in NotTaking => DiskSound)
                          => FromDisk(id)'
                      /\ disk' = disk
              Moved(from, to) ==
                  /\ boot[id].at = from /\ boot'[id].at = to
                  /\ boot'[id].restore = boot[id].restore
                  /\ \A i \in Sandboxes : i # id => boot'[i] = boot[i]
              Staged(file, content) ==
                  /\ jail'[id][file] = content
                  /\ \A f \in Fields : f # file => jail'[id][f] = jail[id][f]
                  /\ \A i \in Sandboxes : i # id => jail'[i] = jail[i]
                  /\ UNCHANGED <<disk, firecracker>>
  <1>0. Formed
    BY DEF NodeInv, BackendInv
  <1>1. ASSUME NEW from, NEW to \in Places, Goes(id, from, to)
        PROVE  Moved(from, to)
    BY <1>0, <1>1, GoesEffect
  <1>2. ASSUME NEW file \in Fields, NEW content, Stage(id, file, content)
        PROVE  Staged(file, content)
    <2>1. UNCHANGED <<disk, firecracker>>
      BY <1>2 DEF Stage
    <2>2. /\ jail'[id][file] = content
          /\ \A f \in Fields : f # file => jail'[id][f] = jail[id][f]
          /\ \A i \in Sandboxes : i # id => jail'[i] = jail[i]
      BY <1>0, <1>2, StageEffect
    <2>. QED
      BY <2>1, <2>2
  <1>3. boot[id].restore => boot[id].at \in Restoring \cup Ended
    BY DEF NodeInv, RestoreIsLate
  <1>4. firecracker[id] = "alive" => boot[id].at \in Launched
    BY DEF NodeInv, BackendInv, BootsSound
  <1>. USE DEF Staging, Booting, Ended, Places, Launched, Fields, Restoring, Taking,
               NotTaking
  <1>5. CASE CreateBegins(id)
    <2>1. Moved("none", "kernel") /\ Staged("made", TRUE)
      BY <1>1, <1>2, <1>5 DEF CreateBegins
    <2>. QED
      BY <1>3, <2>1 DEF FromDisk, Matched
  <1>6. CASE LinkKernel(id)
    <2>1. Moved("kernel", "rootfs") /\ UNCHANGED <<disk, jail, firecracker>>
      BY <1>1, <1>6 DEF LinkKernel, OnlyBoot
    <2>. QED
      BY <1>3, <1>4, <2>1 DEF FromDisk, Matched
  <1>7. CASE CopyRootfs(id)
    <2>1. Moved("rootfs", "access_state") /\ Staged("rootfs", disk.rootfs)
      BY <1>1, <1>2, <1>7 DEF CopyRootfs
    <2>. QED
      BY <1>3, <1>4, <2>1 DEF FromDisk, Matched, DiskSound, Template!PairOf
  <1>8. CASE AccessState(id)
    <2>1. /\ UNCHANGED <<disk, jail, firecracker>>
          /\ \/ Moved("access_state", "access_memory") /\ disk.state # None
             \/ Moved("access_state", "spawn")
      BY <1>1, <1>8 DEF AccessState, OnlyBoot
    <2>. QED
      BY <1>3, <1>4, <2>1 DEF FromDisk, Matched
  <1>9. CASE AccessMemory(id)
    <2>1. /\ UNCHANGED <<disk, jail, firecracker>>
          /\ Moved("access_memory", "link_state") \/ Moved("access_memory", "spawn")
      BY <1>1, <1>9 DEF AccessMemory, OnlyBoot
    <2>. QED
      BY <1>3, <1>4, <2>1 DEF FromDisk, Matched
  <1>10. CASE LinkState(id)
    <2>1. Moved("link_state", "link_memory") /\ Staged("state", disk.state)
      BY <1>1, <1>2, <1>10 DEF LinkState
    <2>. QED
      BY <1>3, <1>4, <2>1 DEF FromDisk, Matched
  <1>11. CASE LinkMemory(id) \/ CopyMemory(id)
    <2>1. /\ Staged("memory", disk.memory)
          /\ boot[id].at \in {"link_memory", "copy_memory"}
          /\ boot' = [boot EXCEPT ![id].at = "spawn", ![id].restore = TRUE]
      BY <1>2, <1>11 DEF LinkMemory, CopyMemory
    <2>2. boot'[id].at = "spawn" /\ \A i \in Sandboxes : i # id => boot'[i] = boot[i]
      BY <1>0, <2>1, RestoreEffect
    <2>. QED
      BY <1>4, <2>1, <2>2 DEF FromDisk, Matched
  <1>12. CASE LinkFails(id)
    <2>1. /\ UNCHANGED <<disk, jail, firecracker>>
          /\ Moved("link_state", "copy_state") \/ Moved("link_memory", "copy_state")
      BY <1>1, <1>12 DEF LinkFails, OnlyBoot
    <2>. QED
      BY <1>3, <1>4, <2>1 DEF FromDisk, Matched
  <1>13. CASE CopyState(id)
    <2>1. Moved("copy_state", "copy_memory") /\ Staged("state", disk.state)
      BY <1>1, <1>2, <1>13 DEF CopyState
    <2>. QED
      BY <1>3, <1>4, <2>1 DEF FromDisk, Matched
  <1>14. CASE CopyFails(id)
    <2>1. /\ UNCHANGED <<disk, jail, firecracker>>
          /\ Moved("copy_state", "spawn") \/ Moved("copy_memory", "spawn")
      BY <1>1, <1>14 DEF CopyFails, OnlyBoot
    <2>. QED
      BY <1>3, <1>4, <2>1 DEF FromDisk, Matched
  <1>15. CASE Spawn(id)
    <2>1. /\ Moved("spawn", "socket") /\ UNCHANGED <<disk, jail>>
          /\ \A i \in Sandboxes : i # id => firecracker'[i] = firecracker[i]
      BY <1>0, <1>1, <1>15 DEF Spawn, Formed
    <2>. QED
      BY <1>3, <2>1 DEF FromDisk, Matched
  <1>16. CASE SocketUp(id)
    <2>1. Moved("socket", "put") /\ UNCHANGED <<disk, jail, firecracker>>
      BY <1>1, <1>16 DEF SocketUp, OnlyBoot
    <2>. QED
      BY <1>3, <2>1 DEF FromDisk, Matched
  <1>17. CASE Put(id)
    <2>1. Moved("put", "put") /\ UNCHANGED <<disk, jail, firecracker>>
      BY <1>0, <1>17, PutEffect DEF Put, OnlyBoot
    <2>. QED
      BY <1>3, <2>1 DEF FromDisk, Matched
  <1>18. CASE Start(id)
    <2>1. Moved("put", "agent") /\ UNCHANGED <<disk, jail, firecracker>>
      BY <1>1, <1>18 DEF Start
    <2>. QED
      BY <1>3, <2>1 DEF FromDisk, Matched
  <1>19. CASE AgentReady(id)
    <2>1. Moved("agent", "ready") /\ UNCHANGED <<disk, jail, firecracker>>
      BY <1>1, <1>19 DEF AgentReady
    <2>. QED
      BY <1>3, <2>1 DEF FromDisk, Matched
  <1>20. CASE CreateFails(id)
    <2>1. Moved(boot[id].at, "failed") /\ UNCHANGED <<disk, jail, firecracker>>
      BY <1>1, <1>20 DEF CreateFails, Goes, OnlyBoot
    <2>. QED
      BY <1>3, <2>1 DEF FromDisk, Matched
  <1>. QED
    BY <1>5, <1>6, <1>7, <1>8, <1>9, <1>10, <1>11, <1>12, <1>13, <1>14, <1>15, <1>16,
       <1>17, <1>18, <1>19, <1>20 DEF BootStep

\* The other steps of the backend leave every boot where it is or end it, and
\* take a jail only from a VM that was killed.
LEMMA OthersFromDisk ==
    ASSUME NodeInv, Next, ~\E id \in Sandboxes : CreateBegins(id) \/ BootStep(id),
           NEW i \in Sandboxes
    PROVE  /\ disk' = disk
           /\ jail'[i] = jail[i] \/ (boot[i].at = "ready" /\ firecracker[i] # "alive")
           /\ boot'[i].restore = boot[i].restore
           /\ boot'[i].at = boot[i].at \/ (boot'[i].at \in Ended /\ boot[i].at # "none")
           /\ firecracker'[i] = "alive" => firecracker[i] = "alive"
  <1>0. Formed
    BY DEF NodeInv, BackendInv
  <1>1. CASE \E c \in Calls, id \in Sandboxes, ttl \in BOOLEAN : DestroyBegins(c, id, ttl)
    BY <1>0, <1>1 DEF DestroyBegins, Formed
  <1>2. ASSUME NEW c \in Calls, DestroyStep(c)
        PROVE  /\ UNCHANGED <<disk, firecracker, boot>>
               /\ jail'[i] = jail[i] \/ (boot[i].at = "ready" /\ firecracker[i] # "alive")
    <2>1. CASE RemoveJail(c)
      <3>1. /\ boot[destroys[c].id].at = "ready" /\ firecracker[destroys[c].id] # "alive"
            /\ destroys[c].id \in Sandboxes
        BY <2>1 DEF RemoveJail, NodeInv, BackendInv, DestroysSound
      <3>2. i # destroys[c].id => jail'[i] = jail[i]
        BY <1>0, <2>1, <3>1 DEF RemoveJail, Formed
      <3>. QED
        BY <2>1, <3>1, <3>2 DEF RemoveJail
    <2>2. CASE DestroyReturns(c) \/ DestroyFails(c)
      BY <2>2 DEF DestroyReturns, DestroyFails
    <2>. QED
      BY <1>2, <2>1, <2>2 DEF DestroyStep
  <1>3. ASSUME NEW id \in Sandboxes, ProcessGone(id) \/ VmDies(id)
        PROVE  UNCHANGED <<disk, jail, boot>> /\ (firecracker'[i] = "alive" => firecracker[i] = "alive")
    BY <1>0, <1>3 DEF ProcessGone, VmDies, Formed
  <1>4. CASE Restart
    <2>1. UNCHANGED <<disk, jail, firecracker>>
      BY <1>4 DEF Restart
    <2>2. boot'[i] = IF boot[i].at = "none" THEN boot[i] ELSE [boot[i] EXCEPT !.at = "lost"]
      BY <1>4 DEF Restart
    <2>3. boot[i] \in [at : Places, put : Nat, restore : BOOLEAN]
      BY <1>0 DEF Formed
    <2>4. /\ [boot[i] EXCEPT !.at = "lost"].at = "lost"
          /\ [boot[i] EXCEPT !.at = "lost"].restore = boot[i].restore
      BY <2>3
    <2>. QED
      BY <2>1, <2>2, <2>4 DEF Ended
  <1>. QED
    BY <1>1, <1>2, <1>3, <1>4 DEF Next

\* A flag that stands is right after any step, of the daemon or of a builder.
LEMMA SteadyStep ==
    ASSUME NodeInv, BackendInv', NodeNext, NEW i \in Sandboxes
    PROVE  /\ boot'[i].restore => boot'[i].at \in Restoring \cup Ended
           /\ FlagSound(i)'
  <1>. DEFINE Late == boot'[i].restore => boot'[i].at \in Restoring \cup Ended
              Still == boot'[i].at \in Taking =>
                           disk'.state = disk.state /\ disk'.memory = disk.memory
              Kept == FromDisk(i) /\ (boot[i].at \in NotTaking => DiskSound) /\ Still
                          => FromDisk(i)'
  <1>1. Late /\ Kept
    <2>1. CASE Next /\ \E id \in Sandboxes : CreateBegins(id) \/ BootStep(id)
      <3>1. PICK id \in Sandboxes : CreateBegins(id) \/ BootStep(id)
        BY <2>1
      <3>2. CASE i = id
        BY <3>1, <3>2, CreateFromDisk
      <3>3. CASE i # id
        <4>1. UNCHANGED <<boot[i], jail[i], firecracker[i]>>
          BY <3>1, <3>3, CreateFromDisk
        <4>2. Late
          BY <4>1 DEF NodeInv, RestoreIsLate
        <4>. QED
          BY <4>1, <4>2, KeptFromDisk
      <3>. QED
        BY <3>2, <3>3
    <2>2. CASE Next /\ ~\E id \in Sandboxes : CreateBegins(id) \/ BootStep(id)
      <3>1. /\ jail'[i] = jail[i] \/ (boot[i].at = "ready" /\ firecracker[i] # "alive")
            /\ boot'[i].restore = boot[i].restore
            /\ boot'[i].at = boot[i].at \/ boot'[i].at \in Ended
            /\ firecracker'[i] = "alive" => firecracker[i] = "alive"
        BY <2>2, OthersFromDisk
      <3>2. Late
        BY <3>1 DEF NodeInv, RestoreIsLate
      <3>. QED
        BY <3>1, <3>2, KeptFromDisk
    <2>3. CASE UNCHANGED backendVars
      <3>1. Late
        BY <2>3 DEF backendVars, NodeInv, RestoreIsLate
      <3>. QED
        BY <2>3, <3>1, KeptFromDisk DEF backendVars
    <2>. QED
      BY <2>1, <2>2, <2>3 DEF NodeNext
  <1>2. steady'[i] = IF boot'[i].at \in NotTaking THEN DiskSound' ELSE steady[i] /\ Still
    BY DEF NodeNext, Observe, NotTaking
  <1>3. CASE boot'[i].at \in NotTaking
    <2>1. FromDisk(i)'
      <3>1. firecracker'[i] # "alive"
        BY <1>3 DEF BackendInv, BootsSound, Launched, NotTaking
      <3>. QED
        BY <1>3, <3>1 DEF FromDisk, Taking, Staging, Restoring, NotTaking
    <2>. QED
      BY <1>1, <1>2, <1>3, <2>1 DEF FlagSound
  <1>4. CASE boot'[i].at \notin NotTaking
    <2>1. steady'[i] => steady[i] /\ Still
      BY <1>2, <1>4
    <2>2. steady[i] => FromDisk(i) /\ (boot[i].at \in NotTaking => DiskSound)
      BY DEF NodeInv, SteadySound, FlagSound
    <2>. QED
      BY <1>1, <1>4, <2>1, <2>2 DEF FlagSound
  <1>. QED
    BY <1>3, <1>4

LEMMA NodeInvStep == NodeInv /\ [NodeNext]_nodeVars => NodeInv'
  <1>. SUFFICES ASSUME NodeInv, [NodeNext]_nodeVars PROVE NodeInv'
    OBVIOUS
  <1>1. BackendInv'
    BY BackendInvStep DEF NodeInv
  <1>2. CASE NodeNext
    BY <1>1, <1>2, SteadyStep DEF NodeInv, RestoreIsLate, SteadySound
  <1>3. CASE UNCHANGED nodeVars
    BY <1>1, <1>3 DEF nodeVars, vars, backendVars, NodeInv, RestoreIsLate, SteadySound,
       FlagSound, FromDisk, Matched, DiskSound, Template!PairOf
  <1>. QED
    BY <1>2, <1>3

LEMMA NodeInvInit == NodeInit => NodeInv
  BY BackendInvInit DEF NodeInit, InitBackend, NodeInv, RestoreIsLate, SteadySound,
     FlagSound

LEMMA NodeInvHolds == NodeSpec => []NodeInv
  BY NodeInvInit, NodeInvStep, PTL DEF NodeSpec

-------------------------------------------------------------------------------
\* Only a failed boot, a restart, or the failed rm of a TTL destroy leaves a jail
\* or a VM that nothing will release, for any overlap of boots and destroys.
THEOREM OnlyFailuresStrand == NodeSpec => []StrandedOnlyByFailure
  <1>1. BackendInv => StrandedOnlyByFailure
    <2>. SUFFICES ASSUME BackendInv, NEW id \in Sandboxes, Held(id), ~Pursued(id),
                         boot[id].at \notin {"failed", "lost"}
                  PROVE  id \in unremoved
      BY DEF StrandedOnlyByFailure
    <2>1. boot[id].at \in Places
      BY DEF BackendInv, Formed
    <2>2. boot[id].at # "none"
      BY DEF BackendInv, BootsSound, Held
    <2>3. boot[id].at = "ready" /\ id \notin known
      BY <2>1, <2>2 DEF Places, Ended, Pursued
    <2>. QED
      BY <2>3 DEF BackendInv, GoneOrKnown
  <1>. QED
    BY <1>1, NodeInvHolds, PTL DEF NodeInv

\* execute and destroy never meet "Sandbox not found": what the manager keeps is
\* registered.
THEOREM KnownRegistered == NodeSpec => []KnownIsRegistered
  <1>1. BackendInv => KnownIsRegistered
    BY DEF BackendInv, MapsSound, KnownIsRegistered
  <1>. QED
    BY <1>1, NodeInvHolds, PTL DEF NodeInv

\* No interleaving of destroys removes the files of a guest that runs.
THEOREM RunningJailed == NodeSpec => []RunningHasJail
  <1>1. BackendInv => RunningHasJail
    BY DEF BackendInv, BootsSound, RunningHasJail
  <1>. QED
    BY <1>1, NodeInvHolds, PTL DEF NodeInv

\* A restored guest has one capture and the rootfs it ran on, if the disk did when
\* its boot copied the rootfs and no install met the awaits up to the last link.
THEOREM RestoresSteady == NodeSpec => []SteadyRestoreIsSound
  <1>1. NodeInv => SteadyRestoreIsSound
    <2>. SUFFICES ASSUME NodeInv, NEW id \in Sandboxes, firecracker[id] = "alive",
                         boot[id].restore, steady[id]
                  PROVE  jail[id].state = jail[id].memory /\ jail[id].state.of = jail[id].rootfs
      BY DEF SteadyRestoreIsSound
    <2>. QED
      BY DEF NodeInv, SteadySound, FlagSound, FromDisk
  <1>. QED
    BY <1>1, NodeInvHolds, PTL

\* The entry of a VM is dropped only when nothing of it is left, or by a restart.
THEOREM HandleKept == NodeSpec => HandleKeptWhileHeld
  <1>1. BackendInv /\ [NodeNext]_nodeVars =>
            [\A id \in vms \ vms' : ~Held(id)' \/ boot'[id].at = "lost"]_vars
    <2>. SUFFICES ASSUME BackendInv, [NodeNext]_nodeVars, NEW id \in vms \ vms'
                  PROVE  ~Held(id)' \/ boot'[id].at = "lost"
      OBVIOUS
    <2>1. CASE Next
      <3>1. CASE Restart
        <4>1. id \in Sandboxes /\ boot[id].at # "none"
          BY DEF BackendInv, Formed, MapsSound
        <4>. QED
          BY <3>1, <4>1, RestartStep
      <3>2. ASSUME NEW c \in Calls, DestroyReturns(c)
            PROVE  ~Held(id)'
        <4>1. id = destroys[c].id /\ UNCHANGED <<jail, firecracker>>
          BY <3>2 DEF DestroyReturns
        <4>2. ~Held(id)
          BY <3>2, <4>1 DEF DestroyReturns, BackendInv, DestroysSound, Held
        <4>. QED
          BY <4>1, <4>2 DEF Held
      <3>. QED
        BY <2>1, <3>1, <3>2 DEF Next, CreateBegins, BootStep, Stage, OnlyBoot, LinkKernel,
           CopyRootfs, AccessState, AccessMemory, LinkState, LinkMemory, LinkFails, CopyState,
           CopyMemory, CopyFails, Spawn, SocketUp, Put, Start, AgentReady, CreateFails,
           DestroyBegins, DestroyStep, RemoveJail, DestroyFails, ProcessGone, VmDies
    <2>2. CASE UNCHANGED vms
      BY <2>2
    <2>. QED
      BY <2>1, <2>2 DEF NodeNext, nodeVars, vars, backendVars
  <1>. QED
    BY <1>1, NodeInvHolds, PTL DEF NodeInv, NodeSpec, HandleKeptWhileHeld

-------------------------------------------------------------------------------
\* One host of the fleet, seen from outside: a VM runs or does not, and once
\* its boot is past the spawn and it does not, it is over.
Host == "host"
VmPlace == [id \in Sandboxes |-> IF firecracker[id] = "alive" THEN {Host} ELSE {}]
VmOver == {id \in Sandboxes : boot[id].at \in Launched /\ firecracker[id] # "alive"}

Placement == INSTANCE SandboxPlacement
                 WITH Workers <- {Host}, place <- VmPlace, over <- VmOver

\* A host implements SandboxPlacement: whatever fails, restarts or overlaps, the
\* VM of an id is started at most once, and never after it has ended.
HostImplementsPlacement == Placement!Spec

\* No VM starts, and no boot goes back before its spawn.
NothingStarts ==
    /\ \A id \in Sandboxes : firecracker'[id] = "alive" => firecracker[id] = "alive"
    /\ \A id \in Sandboxes : boot[id].at \in Launched => boot'[id].at \in Launched

\* Such a step ends the VMs and the boots it ends, and places nothing.
LEMMA EndsSome ==
    ASSUME BackendInv, NothingStarts
    PROVE  Placement!Next
  <1>. DEFINE ids == VmOver' \ VmOver
  <1>1. \A id \in Sandboxes : firecracker[id] = "alive" => boot[id].at \in Launched
    BY DEF BackendInv, BootsSound
  <1>2. VmOver' = VmOver \cup ids
    BY DEF NothingStarts, VmOver
  <1>3. VmPlace' = [id \in Sandboxes |-> IF id \in ids THEN {} ELSE VmPlace[id]]
    <2>. SUFFICES ASSUME NEW id \in Sandboxes
                  PROVE  VmPlace'[id] = IF id \in ids THEN {} ELSE VmPlace[id]
      BY DEF VmPlace
    <2>1. CASE id \in ids
      BY <2>1 DEF VmOver, VmPlace
    <2>2. CASE id \notin ids
      BY <1>1, <2>2 DEF NothingStarts, VmOver, VmPlace
    <2>. QED
      BY <2>1, <2>2
  <1>4. ids \in SUBSET Sandboxes /\ ids \cap VmOver = {}
    BY DEF VmOver
  <1>5. Placement!End(ids)
    BY <1>2, <1>3, <1>4 DEF Placement!End
  <1>. QED
    BY <1>4, <1>5 DEF Placement!Next

\* The jailer starts the VM of a boot, which was neither running nor over.
LEMMA SpawnPlaces ==
    ASSUME BackendInv, NEW id \in Sandboxes, Spawn(id)
    PROVE  Placement!Next
  <1>1. /\ boot[id].at = "spawn" /\ boot'[id].at = "socket"
        /\ \A i \in Sandboxes : i # id => boot'[i] = boot[i]
    BY GoesEffect DEF BackendInv, Spawn, Places, Booting
  <1>2. firecracker[id] # "alive"
    BY <1>1 DEF BackendInv, BootsSound, Launched
  <1>3. /\ firecracker'[id] = "alive"
        /\ \A i \in Sandboxes : i # id => firecracker'[i] = firecracker[i]
    BY DEF BackendInv, Formed, Spawn
  <1>4. VmPlace[id] = {} /\ id \notin VmOver
    BY <1>1, <1>2 DEF VmPlace, VmOver, Launched
  <1>5. VmPlace' = [VmPlace EXCEPT ![id] = {Host}] /\ VmOver' = VmOver
    BY <1>1, <1>2, <1>3 DEF VmPlace, VmOver, Launched
  <1>6. Placement!Start(id, Host)
    BY <1>4, <1>5 DEF Placement!Start
  <1>. QED
    BY <1>6 DEF Placement!Next

\* Every other step of a boot goes forward.
LEMMA BootGoesOn ==
    ASSUME BackendInv, NEW id \in Sandboxes, CreateBegins(id) \/ BootStep(id), ~Spawn(id)
    PROVE  NothingStarts
  <1>1. UNCHANGED firecracker
    BY DEF CreateBegins, BootStep, Stage, OnlyBoot, LinkKernel, CopyRootfs, AccessState,
       AccessMemory, LinkState, LinkMemory, LinkFails, CopyState, CopyMemory, CopyFails,
       SocketUp, Put, Start, AgentReady, CreateFails
  <1>2. boot \in [Sandboxes -> [at : Places, put : Nat, restore : BOOLEAN]]
    BY DEF BackendInv, Formed
  <1>3. \A i \in Sandboxes : i # id => boot'[i] = boot[i]
    BY <1>2 DEF CreateBegins, BootStep, Goes, LinkKernel, CopyRootfs, AccessState,
       AccessMemory, LinkState, LinkMemory, LinkFails, CopyState, CopyMemory, CopyFails,
       SocketUp, Put, Start, AgentReady, CreateFails
  <1>4. boot[id].at \in Launched => boot'[id].at \in Launched
    <2>1. CASE SocketUp(id) \/ Start(id) \/ AgentReady(id)
      BY <1>2, <2>1 DEF SocketUp, Start, AgentReady, Goes, Launched
    <2>2. CASE Put(id)
      BY <1>2, <2>2 DEF Put
    <2>3. CASE CreateFails(id)
      BY <1>2, <2>3 DEF CreateFails, Launched
    <2>4. CASE boot[id].at \notin Launched
      BY <2>4
    <2>. QED
      BY <2>1, <2>2, <2>3, <2>4 DEF CreateBegins, BootStep, Goes, LinkKernel, CopyRootfs,
         AccessState, AccessMemory, LinkState, LinkMemory, LinkFails, CopyState, CopyMemory,
         CopyFails, Launched
  <1>. QED
    BY <1>1, <1>3, <1>4 DEF NothingStarts

\* No destroy, death or restart starts a VM.
LEMMA OthersStartNothing ==
    ASSUME BackendInv,
           \/ \E c \in Calls, id \in Sandboxes, ttl \in BOOLEAN : DestroyBegins(c, id, ttl)
           \/ \E c \in Calls : DestroyStep(c)
           \/ \E id \in Sandboxes : ProcessGone(id) \/ VmDies(id)
           \/ Restart
    PROVE  NothingStarts
  <1>1. CASE Restart
    BY <1>1 DEF BackendInv, Formed, Restart, NothingStarts, Launched
  <1>2. CASE \E c \in Calls : DestroyStep(c)
    BY <1>2 DEF DestroyStep, RemoveJail, DestroyReturns, DestroyFails, NothingStarts
  <1>3. ASSUME NEW c \in Calls, NEW id \in Sandboxes, NEW ttl \in BOOLEAN, DestroyBegins(c, id, ttl)
        PROVE  NothingStarts
    BY <1>3 DEF BackendInv, Formed, DestroyBegins, NothingStarts
  <1>4. ASSUME NEW id \in Sandboxes, ProcessGone(id) \/ VmDies(id)
        PROVE  NothingStarts
    BY <1>4 DEF BackendInv, Formed, ProcessGone, VmDies, NothingStarts
  <1>. QED
    BY <1>1, <1>2, <1>3, <1>4

\* A host starts the VM of an id at most once, and never after its end, however
\* boots, overlapping destroys, deaths and restarts interleave with the builders.
THEOREM HostImplements == NodeSpec => HostImplementsPlacement
  <1>1. NodeInit => Placement!Init
    BY DEF NodeInit, InitBackend, Placement!Init, VmPlace, VmOver, Launched
  <1>2. BackendInv /\ [NodeNext]_nodeVars => [Placement!Next]_<<VmPlace, VmOver>>
    <2>. SUFFICES ASSUME BackendInv, [NodeNext]_nodeVars
                  PROVE  Placement!Next \/ UNCHANGED <<VmPlace, VmOver>>
      OBVIOUS
    <2>1. ASSUME NEW id \in Sandboxes, CreateBegins(id) \/ BootStep(id)
          PROVE  Placement!Next
      BY <2>1, SpawnPlaces, BootGoesOn, EndsSome
    <2>2. CASE \/ \E c \in Calls, id \in Sandboxes, ttl \in BOOLEAN : DestroyBegins(c, id, ttl)
               \/ \E c \in Calls : DestroyStep(c)
               \/ \E id \in Sandboxes : ProcessGone(id) \/ VmDies(id)
               \/ Restart
      BY <2>2, OthersStartNothing, EndsSome
    <2>3. CASE UNCHANGED backendVars
      BY <2>3 DEF backendVars, VmPlace, VmOver
    <2>. QED
      BY <2>1, <2>2, <2>3 DEF NodeNext, Next, nodeVars, vars
  <1>. QED
    BY <1>1, <1>2, NodeInvHolds, PTL DEF NodeInv, NodeSpec, HostImplementsPlacement, Placement!Spec

-------------------------------------------------------------------------------
\* The builders beside the daemon: what SnapshotProofs shows of their steps.
BuilderProofs == INSTANCE SnapshotProofs

\* The daemon's steps are stutters of the builders.
LEMMA DaemonLeavesBuilders ==
    Next /\ UNCHANGED templateVars => UNCHANGED BuilderProofs!builderVars
  BY DEF templateVars, BuilderProofs!builderVars, BuilderProofs!buildVars,
     Next, CreateBegins, BootStep, Stage, OnlyBoot, LinkKernel,
     CopyRootfs, AccessState, AccessMemory, LinkState, LinkMemory, LinkFails, CopyState,
     CopyMemory, CopyFails, Spawn, SocketUp, Put, Start, AgentReady, CreateFails,
     DestroyBegins, DestroyStep, RemoveJail, DestroyReturns, DestroyFails, ProcessGone,
     VmDies, Restart

LEMMA BuildersTakeTheirSteps == Template!Next => BuilderProofs!Next
  BY DEF Template!Next, BuilderProofs!Next, Template!BuildBegins,
     BuilderProofs!BuildBegins, Template!BuildStep, BuilderProofs!BuildStep,
     Template!ReadManifest, BuilderProofs!ReadManifest, Template!Clear,
     BuilderProofs!Clear, Template!Mkdir, BuilderProofs!Mkdir, Template!StageRootfs,
     BuilderProofs!StageRootfs, Template!Spawn, BuilderProofs!Spawn, Template!SocketUp,
     BuilderProofs!SocketUp, Template!Boot, BuilderProofs!Boot, Template!AgentReady,
     BuilderProofs!AgentReady, Template!Pause, BuilderProofs!Pause, Template!Capture,
     BuilderProofs!Capture, Template!KillVms, BuilderProofs!KillVms,
     Template!RenameState, BuilderProofs!RenameState, Template!RenameMemory,
     BuilderProofs!RenameMemory, Template!CleanArea, BuilderProofs!CleanArea,
     Template!WriteManifest, BuilderProofs!WriteManifest, Template!StepFails,
     BuilderProofs!StepFails, Template!Die, BuilderProofs!Die, Template!TemplateStep,
     BuilderProofs!TemplateStep, Template!DeleteRootfs, BuilderProofs!DeleteRootfs,
     Template!TemplateBegins, BuilderProofs!TemplateBegins, Template!TemplateDone,
     BuilderProofs!TemplateDone, Template!Rootfs, BuilderProofs!Rootfs, Template!Moves,
     BuilderProofs!Moves, Template!Alive, BuilderProofs!Alive, Template!NoArea,
     BuilderProofs!NoArea, Template!Working, BuilderProofs!Working, Template!Preparing,
     BuilderProofs!Preparing, Template!Capturing, BuilderProofs!Capturing,
     Template!Installing, BuilderProofs!Installing

LEMMA BuildInvStep == BuilderProofs!Inv /\ [NodeNext]_nodeVars => BuilderProofs!Inv'
  <1>1. [NodeNext]_nodeVars => [BuilderProofs!Next]_(BuilderProofs!builderVars)
    BY DaemonLeavesBuilders, BuildersTakeTheirSteps
    DEF NodeNext, nodeVars, vars, templateVars, BuilderProofs!builderVars, BuilderProofs!buildVars
  <1>. QED
    BY <1>1, BuilderProofs!InvStep, BuilderAssumption, NoneAssumption, CapturesAssumption
    DEF Template!Snapshots, BuilderProofs!Snapshots

\* A worker after its first deploy: one builder is done, and the pair is its own.
LEMMA BuildInvInit == NodeInit => BuilderProofs!Inv
  <1>. SUFFICES ASSUME NEW b \in Builders, NEW v \in Versions \ {Partial},
                       disk = [rootfs |-> v, state |-> [vm |-> b, of |-> v],
                               memory |-> [vm |-> b, of |-> v]],
                       manifest = v,
                       vm = [c \in Builders |-> IF c = b THEN [is |-> "dead", of |-> v]
                                                ELSE [is |-> "none", of |-> None]],
                       build = [c \in Builders |-> IF c = b THEN [at |-> "done", wanted |-> v]
                                                   ELSE [at |-> "idle", wanted |-> None]],
                       area = Template!NoArea
                PROVE  BuilderProofs!Inv
    BY DEF NodeInit
  <1>1. [vm |-> b, of |-> v] \in BuilderProofs!Snapshots
    BY DEF BuilderProofs!Snapshots
  <1>2. [vm |-> b, of |-> v] # None
    BY <1>1, NoneAssumption, CapturesAssumption DEF Template!Snapshots, BuilderProofs!Snapshots
  <1>3. BuilderProofs!Typed
    <2>1. disk \in BuilderProofs!Disks /\ manifest \in Versions \cup {None}
      BY <1>1 DEF BuilderProofs!Disks
    <2>2. area \in BuilderProofs!Areas
      BY DEF Template!NoArea, BuilderProofs!Areas
    <2>3. vm \in [Builders -> BuilderProofs!Guests] /\ BuilderProofs!Booted
      BY DEF BuilderProofs!Guests, BuilderProofs!Booted
    <2>4. build \in [Builders -> BuilderProofs!Builds]
      BY DEF BuilderProofs!Builds, BuilderProofs!Places, BuilderProofs!Finished
    <2>. QED
      BY <2>1, <2>2, <2>3, <2>4 DEF BuilderProofs!Typed
  <1>4. BuilderProofs!OrphanOnlyByDeath
    BY DEF BuilderProofs!OrphanOnlyByDeath, BuilderProofs!Alive
  <1>5. \A c \in Builders : build[c].at \in {"idle", "done"}
    OBVIOUS
  <1>6. BuilderProofs!Undisturbed
    BY <1>2, <1>5 DEF BuilderProofs!Undisturbed, BuilderProofs!OneBusy, BuilderProofs!Busy,
       BuilderProofs!Working, BuilderProofs!Preparing, BuilderProofs!Capturing,
       BuilderProofs!Installing, BuilderProofs!Achieved, BuilderProofs!Copying,
       BuilderProofs!Described, BuilderProofs!PairOf
  <1>. QED
    BY <1>3, <1>4, <1>6 DEF BuilderProofs!Inv

LEMMA BuildInvHolds == NodeSpec => []BuilderProofs!Inv
  BY BuildInvInit, BuildInvStep, PTL DEF NodeSpec

\* Beside a daemon that boots from the same disk, and on a worker that has been
\* deployed before, the manifest still describes the snapshot next to it and only
\* a killed builder leaves a VM: the daemon writes nothing the builders rely on.
THEOREM BuildersUndisturbed ==
    NodeSpec => [](Template!ManifestSound /\ Template!OrphanOnlyByDeath)
  <1>1. BuilderProofs!Inv => Template!ManifestSound
    BY DEF BuilderProofs!Inv, BuilderProofs!Undisturbed, BuilderProofs!Described,
       BuilderProofs!NoInstall, BuilderProofs!Installing, BuilderProofs!PairOf,
       Template!ManifestSound, Template!Installing, Template!PairOf
  <1>2. BuilderProofs!Inv => Template!OrphanOnlyByDeath
    BY DEF BuilderProofs!Inv, BuilderProofs!OrphanOnlyByDeath, BuilderProofs!Alive,
       BuilderProofs!Capturing, Template!OrphanOnlyByDeath, Template!Alive, Template!Capturing
  <1>. QED
    BY <1>1, <1>2, BuildInvHolds, PTL

-------------------------------------------------------------------------------
\* Typing of the node

Jails == [made : BOOLEAN, rootfs : Versions \cup {None}, state : Captures \cup {None},
          memory : Captures \cup {None}]
DiskTyped == disk \in [rootfs : Versions \cup {None}, state : Captures \cup {None},
                       memory : Captures \cup {None}]
JailTyped == jail \in [Sandboxes -> Jails]
FaultsCounted == faults \in 0 .. MaxFaults /\ unremoved \subseteq Sandboxes

\* A boot is at a call of its plan, and at the first one until it makes calls:
\* so a snapshot that is staged late finds the one call a restore makes.
PutsInPlan == \A id \in Sandboxes :
    /\ boot[id].put \in 1 .. Len(Plan(boot[id]))
    /\ boot[id].at \in {"none"} \cup Staging => boot[id].put = 1

LEMMA JailStep == DiskTyped /\ JailTyped /\ BackendInv /\ [Next]_vars => JailTyped'
  <1>. SUFFICES ASSUME DiskTyped, JailTyped, BackendInv, [Next]_vars PROVE JailTyped'
    OBVIOUS
  <1>1. ASSUME NEW id \in Sandboxes, NEW file \in Fields, NEW content,
               Stage(id, file, content),
               [jail[id] EXCEPT ![file] = content] \in Jails
        PROVE  JailTyped'
    BY <1>1 DEF Stage, JailTyped
  <1>2. ASSUME NEW id \in Sandboxes, CreateBegins(id) \/ CopyRootfs(id) \/ LinkState(id)
                   \/ LinkMemory(id) \/ CopyState(id) \/ CopyMemory(id)
        PROVE  JailTyped'
    <2>. jail[id] \in Jails
      BY DEF JailTyped
    <2>1. CASE CreateBegins(id)
      BY <1>1, <2>1 DEF CreateBegins, Fields, Jails
    <2>2. CASE CopyRootfs(id)
      BY <1>1, <2>2 DEF CopyRootfs, Fields, Jails, DiskTyped
    <2>3. CASE LinkState(id) \/ CopyState(id)
      BY <1>1, <2>3 DEF LinkState, CopyState, Fields, Jails, DiskTyped
    <2>4. CASE LinkMemory(id) \/ CopyMemory(id)
      BY <1>1, <2>4 DEF LinkMemory, CopyMemory, Fields, Jails, DiskTyped
    <2>. QED
      BY <1>2, <2>1, <2>2, <2>3, <2>4
  <1>3. ASSUME NEW c \in Calls, RemoveJail(c) PROVE JailTyped'
    <2>1. NoJail \in Jails
      BY DEF NoJail, Jails
    <2>. QED
      BY <1>3, <2>1 DEF RemoveJail, JailTyped
  <1>4. CASE UNCHANGED jail
    BY <1>4 DEF JailTyped
  <1>. QED
    BY <1>2, <1>3, <1>4 DEF Next, vars, backendVars, BootStep, OnlyBoot, LinkKernel,
       AccessState, AccessMemory, LinkFails, CopyFails, Spawn, SocketUp, Put, Start,
       AgentReady, CreateFails, DestroyBegins, DestroyStep, DestroyReturns, DestroyFails,
       ProcessGone, VmDies, Restart

LEMMA FaultsStep == FaultsCounted /\ BackendInv /\ [Next]_vars => FaultsCounted'
  <1>. SUFFICES ASSUME FaultsCounted, BackendInv, [Next]_vars PROVE FaultsCounted'
    OBVIOUS
  <1>. USE FaultsAssumption
  <1>1. ASSUME NEW c \in Calls, DestroyFails(c) PROVE FaultsCounted'
    BY <1>1 DEF DestroyFails, FaultsCounted, BackendInv, DestroysSound
  <1>2. ASSUME NEW id \in Sandboxes, VmDies(id) PROVE FaultsCounted'
    BY <1>2 DEF VmDies, FaultsCounted
  <1>3. CASE Restart
    BY <1>3 DEF Restart, FaultsCounted
  <1>4. CASE UNCHANGED <<faults, unremoved>>
    BY <1>4 DEF FaultsCounted
  <1>. QED
    BY <1>1, <1>2, <1>3, <1>4 DEF Next, vars, backendVars, CreateBegins, BootStep, Stage,
       OnlyBoot, LinkKernel, CopyRootfs, AccessState, AccessMemory, LinkState, LinkMemory,
       LinkFails, CopyState, CopyMemory, CopyFails, Spawn, SocketUp, Put, Start, AgentReady,
       CreateFails, DestroyBegins, DestroyStep, RemoveJail, DestroyReturns, ProcessGone

\* The same without the plan: six calls, or the one of a restore.
PutsCounted == \A id \in Sandboxes :
    /\ boot[id].put \in 1 .. 6
    /\ boot[id].restore = TRUE => boot[id].put = 1
    /\ boot[id].at \in {"none"} \cup Staging => boot[id].put = 1

LEMMA PlanLength ==
    ASSUME BackendInv, NEW id \in Sandboxes
    PROVE  Len(Plan(boot[id])) = IF boot[id].restore = TRUE THEN 1 ELSE 6
  <1>1. boot[id].restore \in BOOLEAN
    BY DEF BackendInv, Formed
  <1>2. CASE boot[id].restore = TRUE
    BY <1>2 DEF Plan
  <1>3. CASE boot[id].restore = FALSE
    BY <1>3 DEF Plan, ColdBoot
  <1>. QED
    BY <1>1, <1>2, <1>3

LEMMA PutsAreCounted == BackendInv => (PutsInPlan <=> PutsCounted)
  <1>. SUFFICES ASSUME BackendInv, NEW id \in Sandboxes
                PROVE  boot[id].put \in 1 .. Len(Plan(boot[id]))
                         <=> /\ boot[id].put \in 1 .. 6
                             /\ boot[id].restore = TRUE => boot[id].put = 1
    BY DEF PutsInPlan, PutsCounted
  <1>1. boot[id].put \in Nat /\ boot[id].restore \in BOOLEAN
    BY DEF BackendInv, Formed
  <1>2. Len(Plan(boot[id])) = IF boot[id].restore = TRUE THEN 1 ELSE 6
    BY PlanLength
  <1>. QED
    BY <1>1, <1>2

LEMMA PutsStep == PutsCounted /\ BackendInv /\ [Next]_vars => PutsCounted'
  <1>. SUFFICES ASSUME PutsCounted, BackendInv, [Next]_vars PROVE PutsCounted'
    OBVIOUS
  <1>1. boot \in [Sandboxes -> [at : Places, put : Nat, restore : BOOLEAN]]
    BY DEF BackendInv, Formed
  <1>2. ASSUME NEW id \in Sandboxes, boot' = [boot EXCEPT ![id] = boot'[id]],
               boot'[id].put \in 1 .. 6, boot'[id].restore = TRUE => boot'[id].put = 1,
               boot'[id].at \in {"none"} \cup Staging => boot'[id].put = 1
        PROVE  PutsCounted'
    BY <1>1, <1>2 DEF PutsCounted
  <1>3. ASSUME NEW id \in Sandboxes, NEW from \in Places, NEW to \in Places,
               Goes(id, from, to),
               to \in {"none"} \cup Staging => from \in {"none"} \cup Staging
        PROVE  PutsCounted'
    BY <1>1, <1>2, <1>3 DEF Goes, PutsCounted
  <1>4. ASSUME NEW id \in Sandboxes, CreateBegins(id) \/ BootStep(id)
        PROVE  PutsCounted'
    <2>1. CASE LinkMemory(id) \/ CopyMemory(id)
      BY <1>1, <1>2, <2>1 DEF LinkMemory, CopyMemory, PutsCounted, Staging
    <2>2. CASE Put(id)
      <3>. Len(Plan(boot[id])) = IF boot[id].restore = TRUE THEN 1 ELSE 6
        BY PlanLength
      <3>1. boot[id].put # IF boot[id].restore = TRUE THEN 1 ELSE 6
        BY <2>2 DEF Put, Last
      <3>2. /\ boot[id].put \in 1 .. 6
            /\ boot[id].restore = TRUE => boot[id].put = 1
        BY DEF PutsCounted
      <3>3. /\ boot' = [boot EXCEPT ![id] = boot'[id]]
            /\ boot'[id] = [boot[id] EXCEPT !.put = boot[id].put + 1]
            /\ boot[id].at = "put"
        BY <1>1, <2>2 DEF Put
      <3>4. /\ boot'[id].put = boot[id].put + 1
            /\ boot'[id].restore = boot[id].restore /\ boot'[id].at = "put"
        BY <1>1, <3>3
      <3>5. boot[id].put \in 1 .. 5 /\ ~(boot[id].restore = TRUE)
        <4>1. CASE boot[id].restore = TRUE
          BY <3>1, <3>2, <4>1
        <4>2. CASE ~(boot[id].restore = TRUE)
          BY <3>1, <3>2, <4>2
        <4>. QED
          BY <4>1, <4>2
      <3>6. boot'[id].put \in 1 .. 6
        BY <3>4, <3>5
      <3>7. ~(boot'[id].restore = TRUE)
        BY <3>4, <3>5
      <3>8. boot'[id].at \notin {"none"} \cup Staging
        BY <3>4 DEF Staging
      <3>. QED
        BY <1>2, <3>3, <3>6, <3>7, <3>8
    <2>3. CASE CreateFails(id)
      BY <1>1, <1>2, <2>3 DEF CreateFails, PutsCounted, Staging
    <2>4. CASE ~(LinkMemory(id) \/ CopyMemory(id) \/ Put(id) \/ CreateFails(id))
      BY <1>3, <1>4, <2>4 DEF CreateBegins, BootStep, LinkKernel, CopyRootfs, AccessState,
         AccessMemory, LinkState, LinkFails, CopyState, CopyFails, Spawn, SocketUp, Start,
         AgentReady, Places, Staging, Booting, Ended
    <2>. QED
      BY <2>1, <2>2, <2>3, <2>4
  <1>5. CASE Restart
    BY <1>1, <1>5 DEF Restart, PutsCounted, Staging
  <1>6. CASE UNCHANGED boot
    BY <1>6 DEF PutsCounted
  <1>. QED
    BY <1>4, <1>5, <1>6 DEF Next, vars, backendVars, DestroyBegins, DestroyStep, RemoveJail,
       DestroyReturns, DestroyFails, ProcessGone, VmDies

NodeTyped == JailTyped /\ FaultsCounted /\ PutsCounted

LEMMA DiskIsTyped == BuilderProofs!Inv => DiskTyped
  BY CapturesAssumption DEF BuilderProofs!Inv, BuilderProofs!Typed, BuilderProofs!Disks,
     BuilderProofs!Snapshots, Template!Snapshots, DiskTyped

LEMMA NodeTypedHolds == NodeSpec => []NodeTyped
  <1>1. NodeInit => NodeTyped
    <2>. SUFFICES ASSUME NodeInit PROVE NodeTyped
      OBVIOUS
    <2>1. JailTyped /\ FaultsCounted
      BY FaultsAssumption DEF NodeInit, InitBackend, NoJail, JailTyped, Jails, FaultsCounted
    <2>2. \A id \in Sandboxes : boot[id].put = 1
      BY DEF NodeInit, InitBackend
    <2>. QED
      BY <2>1, <2>2 DEF NodeTyped, PutsCounted
  <1>2. NodeTyped /\ DiskTyped /\ BackendInv /\ [NodeNext]_nodeVars => NodeTyped'
    <2>. SUFFICES ASSUME NodeTyped, DiskTyped, BackendInv, [NodeNext]_nodeVars
                  PROVE  NodeTyped'
      OBVIOUS
    <2>1. CASE [Next]_vars
      BY <2>1, JailStep, FaultsStep, PutsStep DEF NodeTyped
    <2>2. CASE UNCHANGED backendVars
      BY <2>2 DEF NodeTyped, backendVars, JailTyped, FaultsCounted, PutsCounted
    <2>. QED
      BY <2>1, <2>2 DEF NodeNext, nodeVars, vars
  <1>. QED
    BY <1>1, <1>2, DiskIsTyped, BuildInvHolds, NodeInvHolds, PTL DEF NodeInv, NodeSpec

\* Every variable of the daemon beside the builders keeps its type: what a jail
\* holds was once on the disk, and a boot never makes a call outside its plan.
THEOREM TypeCorrect == NodeSpec => [](TypeOK /\ PutsInPlan)
  <1>1. NodeTyped /\ DiskTyped /\ BackendInv => TypeOK
    <2>. SUFFICES ASSUME NodeTyped, DiskTyped, BackendInv PROVE TypeOK
      OBVIOUS
    <2>1. ASSUME NEW id \in Sandboxes
          PROVE  boot[id] \in [at : Places, put : 1 .. Len(ColdBoot), restore : BOOLEAN]
      BY DEF BackendInv, Formed, NodeTyped, PutsCounted, ColdBoot
    <2>2. boot \in [Sandboxes -> [at : Places, put : 1 .. Len(ColdBoot), restore : BOOLEAN]]
      BY <2>1 DEF BackendInv, Formed
    <2>. QED
      BY <2>2 DEF BackendInv, Formed, NodeTyped, JailTyped, Jails, DiskTyped, FaultsCounted,
         Places, TypeOK
  <1>2. NodeTyped /\ BackendInv => PutsInPlan
    BY PutsAreCounted DEF NodeTyped
  <1>. QED
    BY <1>1, <1>2, NodeTypedHolds, DiskIsTyped, BuildInvHolds, NodeInvHolds, PTL DEF NodeInv

-------------------------------------------------------------------------------
\* A boot has no loop: an upper bound on the awaits still before it.
Ahead == [place \in Places |->
    CASE place = "kernel" -> 29
      [] place = "rootfs" -> 28
      [] place = "access_state" -> 27
      [] place = "access_memory" -> 26
      [] place = "link_state" -> 25
      [] place = "link_memory" -> 24
      [] place = "copy_state" -> 23
      [] place = "copy_memory" -> 22
      [] place = "spawn" -> 21
      [] place = "socket" -> 20
      [] place = "put" -> 9
      [] place = "agent" -> 1
      [] OTHER -> 0]

LEMMA AheadValues ==
    /\ Ahead["kernel"] = 29 /\ Ahead["rootfs"] = 28
    /\ Ahead["access_state"] = 27 /\ Ahead["access_memory"] = 26
    /\ Ahead["link_state"] = 25 /\ Ahead["link_memory"] = 24
    /\ Ahead["copy_state"] = 23 /\ Ahead["copy_memory"] = 22
    /\ Ahead["spawn"] = 21 /\ Ahead["socket"] = 20 /\ Ahead["put"] = 9
    /\ Ahead["agent"] = 1 /\ Ahead["ready"] = 0 /\ Ahead["failed"] = 0
    /\ Ahead["lost"] = 0
  BY DEF Ahead, Places, Booting, Staging, Ended

StepsLeft == [id \in Sandboxes |->
    IF boot[id].at = "put" THEN Ahead["put"] - boot[id].put ELSE Ahead[boot[id].at]]

\* Whoever takes a step, a boot under way that moves has fewer awaits before it.
BootsShorten ==
    [][\A id \in Sandboxes : boot[id].at \in Booting /\ boot'[id] # boot[id] =>
           StepsLeft'[id] \in Nat /\ StepsLeft'[id] < StepsLeft[id]]_nodeVars

\* One boot moves forward, the others stay.
LEMMA ForwardShortens ==
    ASSUME NEW id \in Sandboxes, NEW from, NEW to,
           BackendInv, Goes(id, from, to),
           from # "put", to # "put", Ahead[to] \in Nat, Ahead[to] < Ahead[from]
    PROVE  \A i \in Sandboxes : boot'[i] # boot[i] =>
               StepsLeft'[i] \in Nat /\ StepsLeft'[i] < StepsLeft[i]
  <1>1. boot \in [Sandboxes -> [at : Places, put : Nat, restore : BOOLEAN]]
    BY DEF BackendInv, Formed
  <1>2. boot'[id].at = to /\ boot[id].at = from
        /\ \A i \in Sandboxes : i # id => boot'[i] = boot[i]
    BY <1>1 DEF Goes
  <1>. QED
    BY <1>2 DEF StepsLeft

LEMMA BootShortens ==
    ASSUME BackendInv, PutsCounted, NEW id \in Sandboxes, BootStep(id)
    PROVE  \A i \in Sandboxes : boot'[i] # boot[i] =>
               StepsLeft'[i] \in Nat /\ StepsLeft'[i] < StepsLeft[i]
  <1>. USE ForwardShortens, AheadValues
  <1>1. boot \in [Sandboxes -> [at : Places, put : Nat, restore : BOOLEAN]]
    BY DEF BackendInv, Formed
  <1>2. CASE LinkKernel(id) \/ CopyRootfs(id) \/ AccessState(id) \/ AccessMemory(id)
    BY <1>2 DEF LinkKernel, CopyRootfs, AccessState, AccessMemory
  <1>3. CASE LinkState(id) \/ LinkFails(id) \/ CopyState(id) \/ CopyFails(id) \/ Spawn(id)
    BY <1>3 DEF LinkState, LinkFails, CopyState, CopyFails, Spawn
  <1>4. CASE AgentReady(id)
    BY <1>4 DEF AgentReady
  <1>5. ASSUME NEW b, boot' = [boot EXCEPT ![id] = b],
               b.at # "put", Ahead[b.at] \in Nat,
               Ahead[b.at] < StepsLeft[id]
        PROVE  \A i \in Sandboxes : boot'[i] # boot[i] =>
                   StepsLeft'[i] \in Nat /\ StepsLeft'[i] < StepsLeft[i]
    <2>1. boot'[id] = b /\ \A i \in Sandboxes : i # id => boot'[i] = boot[i]
      BY <1>1, <1>5
    <2>2. StepsLeft'[id] = Ahead[b.at]
      BY <1>5, <2>1 DEF StepsLeft
    <2>. QED
      BY <1>5, <2>1, <2>2
  <1>6. CASE LinkMemory(id) \/ CopyMemory(id)
    <2>1. boot' = [boot EXCEPT ![id] = [boot[id] EXCEPT !.at = "spawn", !.restore = TRUE]]
      BY <1>1, <1>6 DEF LinkMemory, CopyMemory
    <2>2. [boot[id] EXCEPT !.at = "spawn", !.restore = TRUE].at = "spawn"
      BY <1>1
    <2>3. Ahead["spawn"] \in Nat /\ Ahead["spawn"] < StepsLeft[id]
      BY <1>6 DEF LinkMemory, CopyMemory, StepsLeft
    <2>. QED
      BY <1>5, <2>1, <2>2, <2>3
  <1>7. CASE SocketUp(id)
    <2>1. /\ boot[id].at = "socket" /\ boot'[id].at = "put" /\ boot'[id].put = boot[id].put
          /\ \A i \in Sandboxes : i # id => boot'[i] = boot[i]
      BY <1>1, <1>7 DEF SocketUp, Goes
    <2>2. boot[id].put \in 1 .. 6
      BY DEF PutsCounted
    <2>. QED
      BY <2>1, <2>2 DEF StepsLeft
  <1>8. CASE Put(id)
    <2>1. /\ boot[id].at = "put" /\ boot'[id].at = "put" /\ boot'[id].put = boot[id].put + 1
          /\ \A i \in Sandboxes : i # id => boot'[i] = boot[i]
      BY <1>1, <1>8 DEF Put
    <2>2. boot[id].put \in 1 .. 6
      BY DEF PutsCounted
    <2>. QED
      BY <2>1, <2>2 DEF StepsLeft
  <1>9. CASE Start(id)
    <2>1. /\ boot[id].at = "put" /\ boot'[id].at = "agent"
          /\ \A i \in Sandboxes : i # id => boot'[i] = boot[i]
      BY <1>1, <1>9 DEF Start, Goes
    <2>2. boot[id].put \in 1 .. 6
      BY DEF PutsCounted
    <2>. QED
      BY <2>1, <2>2 DEF StepsLeft
  <1>10. CASE CreateFails(id)
    <2>1. /\ boot[id].at \in Fatal /\ boot'[id].at = "failed"
          /\ \A i \in Sandboxes : i # id => boot'[i] = boot[i]
      BY <1>1, <1>10 DEF CreateFails
    <2>2. boot[id].put \in 1 .. 6
      BY DEF PutsCounted
    <2>. QED
      BY <2>1, <2>2 DEF StepsLeft, Fatal
  <1>. QED
    BY <1>2, <1>3, <1>4, <1>6, <1>7, <1>8, <1>9, <1>10 DEF BootStep

\* A boot comes nearer to its end with each of its steps, through every fallback
\* and whatever destroys, restarts and builders do between them; at most 29
\* awaits separate its mkdir from its end.
THEOREM BootsComeToAnEnd == NodeSpec => BootsShorten
  <1>1. BackendInv /\ PutsCounted /\ [NodeNext]_nodeVars =>
            [\A id \in Sandboxes : boot[id].at \in Booting /\ boot'[id] # boot[id] =>
                StepsLeft'[id] \in Nat /\ StepsLeft'[id] < StepsLeft[id]]_nodeVars
    <2>. USE AheadValues
    <2>. SUFFICES ASSUME BackendInv, PutsCounted, [NodeNext]_nodeVars,
                         NEW id \in Sandboxes, boot[id].at \in Booting, boot'[id] # boot[id]
                  PROVE  StepsLeft'[id] \in Nat /\ StepsLeft'[id] < StepsLeft[id]
      OBVIOUS
    <2>1. ASSUME NEW i \in Sandboxes, BootStep(i)
          PROVE  StepsLeft'[id] \in Nat /\ StepsLeft'[id] < StepsLeft[id]
      BY <2>1, BootShortens
    <2>2. ASSUME NEW i \in Sandboxes, CreateBegins(i)
          PROVE  FALSE
      <3>1. boot[i].at = "none" /\ \A j \in Sandboxes : j # i => boot'[j] = boot[j]
        BY <2>2 DEF CreateBegins, Goes, BackendInv, Formed
      <3>. QED
        BY <3>1 DEF Booting, Staging
    <2>3. CASE Restart
      <3>1. boot'[id].at = "lost"
        <4>1. boot[id].at # "none" /\ boot[id] \in [at : Places, put : Nat, restore : BOOLEAN]
          BY DEF BackendInv, Formed, Booting, Staging
        <4>2. boot'[id] = [boot[id] EXCEPT !.at = "lost"]
          BY <2>3, <4>1 DEF Restart
        <4>. QED
          BY <4>1, <4>2
      <3>2. StepsLeft'[id] = 0
        BY <3>1 DEF StepsLeft
      <3>3. boot[id].put \in 1 .. 6
        BY DEF PutsCounted
      <3>4. StepsLeft[id] > 0
        BY <3>3 DEF StepsLeft, Booting, Staging
      <3>. QED
        BY <3>2, <3>4 DEF StepsLeft
    <2>. QED
      BY <2>1, <2>2, <2>3 DEF NodeNext, Next, nodeVars, vars, backendVars, DestroyBegins,
         DestroyStep, RemoveJail, DestroyReturns, DestroyFails, ProcessGone, VmDies
  <1>. QED
    BY <1>1, NodeTypedHolds, NodeInvHolds, PTL
    DEF NodeInv, NodeTyped, NodeSpec, BootsShorten
===============================================================================
