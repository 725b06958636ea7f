-------------------------- MODULE FirecrackerBackend --------------------------
(***************************************************************************)
(* The microVM backend of src/sandbox/firecracker-backend.ts: create and   *)
(* destroy, with the host state they build and remove.  Each await is a    *)
(* step boundary; what the host does on its own (a process dies, a killed  *)
(* one disappears) is a step too.  The manager is the caller: it destroys  *)
(* only a sandbox whose create resolved, at an owner's request or on its   *)
(* TTL, and after a TTL destroy it forgets the sandbox even on failure.    *)
(***************************************************************************)
EXTENDS Naturals, Sequences

CONSTANTS
    Sandboxes,     \* uuids: sanitizeId leaves them as they are, a jail each
    Versions,      \* contents the template's rootfs.ext4 may have
    Captures,      \* snapshots the builder may have taken of it
    None,          \* a file that does not exist
    Calls,         \* destroys that may be in flight together
    MaxFaults      \* bound: VM deaths and restarts of the server

ASSUME NoneAssumption == None \notin Versions /\ None \notin Captures
ASSUME FaultsAssumption == MaxFaults \in Nat

VARIABLES
    disk,       \* the template's files: rootfs and the snapshot's two
    jail,       \* jail[id] : the chroot of id
    firecracker,\* firecracker[id] : the Firecracker process of id
    boot,       \* boot[id] : where the create of id is
    vms,        \* keys of the Map `vms`
    known,      \* ids in the manager's Map: create resolved, not destroyed
    destroys,   \* destroys[c] : what destroy activation c is doing
    unremoved,  \* history: ids whose rm failed under a TTL destroy
    faults      \* VM deaths and restarts so far

backendVars == <<jail, firecracker, boot, vms, known, destroys, unremoved, faults>>
vars == <<disk, backendVars>>

NoJail == [made |-> FALSE, rootfs |-> None, state |-> None, memory |-> None]

\* The Firecracker API calls of a boot without a snapshot, in order.
ColdBoot == <<"machine-config", "boot-source", "drives/rootfs", "vsock",
              "entropy", "actions">>

\* The calls a boot makes: with a snapshot staged, it is only loaded.
Plan(b) == IF b.restore THEN <<"snapshot/load">> ELSE ColdBoot

Staging == {"kernel", "rootfs", "access_state", "access_memory", "link_state",
            "link_memory", "copy_state", "copy_memory", "spawn"}
Booting == Staging \cup {"socket", "put", "agent"}
Ended   == {"ready", "failed", "lost"}

TypeOK ==
    /\ disk \in [rootfs : Versions \cup {None}, state : Captures \cup {None},
                 memory : Captures \cup {None}]
    /\ jail \in [Sandboxes -> [made : BOOLEAN, rootfs : Versions \cup {None},
                               state : Captures \cup {None},
                               memory : Captures \cup {None}]]
    /\ firecracker \in [Sandboxes -> {"none", "alive", "killed"}]
    /\ boot \in [Sandboxes -> [at : {"none"} \cup Booting \cup Ended,
                               put : 1 .. Len(ColdBoot), restore : BOOLEAN]]
    /\ vms \subseteq Sandboxes
    /\ known \subseteq Sandboxes
    /\ destroys \in [Calls -> [at : {"idle", "wait", "removed"},
                               id : Sandboxes \cup {None}, ttl : BOOLEAN]]
    /\ unremoved \subseteq Sandboxes
    /\ faults \in 0 .. MaxFaults

IdleDestroy == [at |-> "idle", id |-> None, ttl |-> FALSE]

InitBackend ==
    /\ jail = [id \in Sandboxes |-> NoJail]
    /\ firecracker = [id \in Sandboxes |-> "none"]
    /\ boot = [id \in Sandboxes |-> [at |-> "none", put |-> 1, restore |-> FALSE]]
    /\ vms = {}
    /\ known = {}
    /\ destroys = [c \in Calls |-> IdleDestroy]
    /\ unremoved = {}
    /\ faults = 0

Init ==
    /\ disk \in [rootfs : Versions \cup {None}, state : Captures \cup {None},
                 memory : Captures \cup {None}]
    /\ InitBackend

-------------------------------------------------------------------------------
\* create

Goes(id, from, to) ==
    /\ boot[id].at = from
    /\ boot' = [boot EXCEPT ![id].at = to]

\* A chroot step: the file lands in the jail.
Stage(id, file, content) ==
    /\ jail' = [jail EXCEPT ![id][file] = content]
    /\ UNCHANGED <<disk, firecracker, vms, known, destroys, unremoved, faults>>

\* A step of create that changes nothing but where the boot is.
OnlyBoot ==
    UNCHANGED <<disk, jail, firecracker, vms, known, destroys, unremoved, faults>>

\* mkdir of the chroot.
CreateBegins(id) == Goes(id, "none", "kernel") /\ Stage(id, "made", TRUE)

\* The kernel is linked or else copied; its content never changes.
LinkKernel(id) == Goes(id, "kernel", "rootfs") /\ OnlyBoot

CopyRootfs(id) ==
    /\ disk.rootfs # None
    /\ Goes(id, "rootfs", "access_state")
    /\ Stage(id, "rootfs", disk.rootfs)

\* A snapshot is used when both files are there, one access after the other.
AccessState(id) ==
    /\ Goes(id, "access_state", IF disk.state # None THEN "access_memory" ELSE "spawn")
    /\ OnlyBoot

AccessMemory(id) ==
    /\ Goes(id, "access_memory", IF disk.memory # None THEN "link_state" ELSE "spawn")
    /\ OnlyBoot

LinkState(id) ==
    /\ disk.state # None
    /\ Goes(id, "link_state", "link_memory")
    /\ Stage(id, "state", disk.state)

LinkMemory(id) ==
    /\ disk.memory # None
    /\ boot[id].at = "link_memory"
    /\ boot' = [boot EXCEPT ![id].at = "spawn", ![id].restore = TRUE]
    /\ Stage(id, "memory", disk.memory)

\* Mutant: the fallback copies only the file whose link failed last.
LinkFailsToMemory(id) ==
    /\ Goes(id, "link_state", "copy_memory") \/ Goes(id, "link_memory", "copy_memory")
    /\ OnlyBoot

\* Either link fails (another filesystem, the file gone): copy both instead.
LinkFails(id) ==
    /\ Goes(id, "link_state", "copy_state") \/ Goes(id, "link_memory", "copy_state")
    /\ OnlyBoot

CopyState(id) ==
    /\ disk.state # None
    /\ Goes(id, "copy_state", "copy_memory")
    /\ Stage(id, "state", disk.state)

CopyMemory(id) ==
    /\ disk.memory # None
    /\ boot[id].at = "copy_memory"
    /\ boot' = [boot EXCEPT ![id].at = "spawn", ![id].restore = TRUE]
    /\ Stage(id, "memory", disk.memory)

\* A copy fails as well: boot cold, and leave behind what was staged.
CopyFails(id) ==
    /\ Goes(id, "copy_state", "spawn") \/ Goes(id, "copy_memory", "spawn")
    /\ OnlyBoot

\* chown, then the jailer, which starts Firecracker and may exit before it.
Spawn(id) ==
    /\ Goes(id, "spawn", "socket")
    /\ firecracker' = [firecracker EXCEPT ![id] = "alive"]
    /\ UNCHANGED <<disk, jail, vms, known, destroys, unremoved, faults>>

\* The API socket has appeared.
SocketUp(id) ==
    /\ firecracker[id] = "alive"
    /\ Goes(id, "socket", "put")
    /\ OnlyBoot

Last(id) == boot[id].put = Len(Plan(boot[id]))

\* One API call succeeds, or fails where a failure is not fatal.
Put(id) ==
    /\ boot[id].at = "put"
    /\ ~Last(id)
    /\ \/ firecracker[id] = "alive"
       \/ Plan(boot[id])[boot[id].put] = "entropy"
    /\ boot' = [boot EXCEPT ![id].put = @ + 1]
    /\ OnlyBoot

\* The last call starts or resumes the guest; the VM is registered at once.
Start(id) ==
    /\ firecracker[id] = "alive"
    /\ Last(id)
    /\ Goes(id, "put", "agent")
    /\ vms' = vms \cup {id}
    /\ UNCHANGED <<disk, jail, firecracker, known, destroys, unremoved, faults>>

\* A probe of the guest agent succeeds: create resolves, the manager keeps id.
AgentReady(id) ==
    /\ firecracker[id] = "alive"
    /\ Goes(id, "agent", "ready")
    /\ known' = known \cup {id}
    /\ UNCHANGED <<disk, jail, firecracker, vms, destroys, unremoved, faults>>

\* Mutant: the polls of the socket and the agent have no time limit.
FatalButPolls == {"kernel", "rootfs", "spawn", "put"}

\* The steps at which a failure or a timeout rejects create.
Fatal == {"kernel", "rootfs", "spawn", "socket", "put", "agent"}

\* create rejects where it stands, and nothing it made is removed.
CreateFails(id) ==
    /\ boot[id].at \in Fatal
    /\ boot' = [boot EXCEPT ![id].at = "failed"]
    /\ OnlyBoot

BootStep(id) ==
    \/ LinkKernel(id) \/ CopyRootfs(id) \/ AccessState(id) \/ AccessMemory(id)
    \/ LinkState(id) \/ LinkMemory(id) \/ LinkFails(id)
    \/ CopyState(id) \/ CopyMemory(id) \/ CopyFails(id)
    \/ Spawn(id) \/ SocketUp(id) \/ Put(id) \/ Start(id) \/ AgentReady(id)
    \/ CreateFails(id)

-------------------------------------------------------------------------------
\* destroy

\* The kill is synchronous; then the exit event or 500 ms are awaited.  `known`
\* ids are in `vms` (see KnownIsRegistered), so "Sandbox not found" is not met.
DestroyBegins(c, id, ttl) ==
    /\ destroys[c].at = "idle"
    /\ id \in known \cap vms
    /\ destroys' = [destroys EXCEPT ![c] = [at |-> "wait", id |-> id, ttl |-> ttl]]
    /\ firecracker' = [firecracker EXCEPT ![id] = IF @ = "alive" THEN "killed" ELSE @]
    /\ UNCHANGED <<disk, jail, boot, vms, known, unremoved, faults>>

\* Mutant: the jail is not removed.
RemoveNothing(c) ==
    /\ destroys[c].at = "wait"
    /\ destroys' = [destroys EXCEPT ![c].at = "removed"]
    /\ UNCHANGED <<disk, jail, firecracker, boot, vms, known, unremoved, faults>>

\* rm of the jail, whether or not the process has gone.
RemoveJail(c) ==
    /\ destroys[c].at = "wait"
    /\ destroys' = [destroys EXCEPT ![c].at = "removed"]
    /\ jail' = [jail EXCEPT ![destroys[c].id] = NoJail]
    /\ UNCHANGED <<disk, firecracker, boot, vms, known, unremoved, faults>>

DestroyReturns(c) ==
    /\ destroys[c].at = "removed"
    /\ destroys' = [destroys EXCEPT ![c] = IdleDestroy]
    /\ vms' = vms \ {destroys[c].id}
    /\ known' = known \ {destroys[c].id}
    /\ UNCHANGED <<disk, jail, firecracker, boot, unremoved, faults>>

\* Mutant: the entry is deleted in a finally block.
DestroyFailsForgets(c) ==
    /\ destroys[c].at = "wait"
    /\ destroys' = [destroys EXCEPT ![c] = IdleDestroy]
    /\ vms' = vms \ {destroys[c].id}
    /\ UNCHANGED <<disk, jail, firecracker, boot, known, unremoved, faults>>

\* rm rejects: an owner may try again, the TTL timer swallows it and forgets.
DestroyFails(c) ==
    LET id == destroys[c].id IN
    /\ destroys[c].at = "wait"
    /\ destroys' = [destroys EXCEPT ![c] = IdleDestroy]
    /\ known' = IF destroys[c].ttl THEN known \ {id} ELSE known
    /\ unremoved' = IF destroys[c].ttl THEN unremoved \cup {id} ELSE unremoved
    /\ UNCHANGED <<disk, jail, firecracker, boot, vms, faults>>

DestroyStep(c) == RemoveJail(c) \/ DestroyReturns(c) \/ DestroyFails(c)

-------------------------------------------------------------------------------
\* The host and the server process

ProcessGone(id) ==
    /\ firecracker[id] = "killed"
    /\ firecracker' = [firecracker EXCEPT ![id] = "none"]
    /\ UNCHANGED <<disk, jail, boot, vms, known, destroys, unremoved, faults>>

VmDies(id) ==
    /\ faults < MaxFaults
    /\ faults' = faults + 1
    /\ firecracker[id] = "alive"
    /\ firecracker' = [firecracker EXCEPT ![id] = "none"]
    /\ UNCHANGED <<disk, jail, boot, vms, known, destroys, unremoved>>

\* A new server process starts with empty Maps; the jails and the VMs, which
\* the jailer moved to PID namespaces and cgroups of their own, are still there.
Restart ==
    /\ faults < MaxFaults
    /\ faults' = faults + 1
    /\ vms' = {}
    /\ known' = {}
    /\ destroys' = [c \in Calls |-> IdleDestroy]
    /\ boot' = [id \in Sandboxes |->
                  IF boot[id].at = "none" THEN boot[id]
                  ELSE [boot[id] EXCEPT !.at = "lost"]]
    /\ UNCHANGED <<disk, jail, firecracker, unremoved>>

Next ==
    \/ \E id \in Sandboxes : CreateBegins(id) \/ BootStep(id)
    \/ \E c \in Calls, id \in Sandboxes, ttl \in BOOLEAN : DestroyBegins(c, id, ttl)
    \/ \E c \in Calls : DestroyStep(c)
    \/ \E id \in Sandboxes : ProcessGone(id) \/ VmDies(id)
    \/ Restart

Spec == Init /\ [][Next]_vars

\* Awaited file operations, API calls and the timers of the wait loops end.
Fairness ==
    /\ \A id \in Sandboxes : WF_vars(BootStep(id)) /\ WF_vars(ProcessGone(id))
    /\ \A c \in Calls : WF_vars(DestroyStep(c))

FairSpec == Spec /\ Fairness

-------------------------------------------------------------------------------
\* Properties

\* Something of `id` is left on the host.
Held(id) == jail[id].made \/ firecracker[id] = "alive"

\* A create or a destroy of `id` is running, or will be asked for by its owner.
Pursued(id) ==
    \/ boot[id].at \in Booting
    \/ id \in known
    \/ \E c \in Calls : destroys[c].id = id

\* A jail or a VM that nothing will release any more is one of three cases: its
\* boot failed, a restart forgot it, or the rm of its TTL destroy failed.  No
\* order of boots, overlapping destroys and VM deaths strands another one.
StrandedOnlyByFailure ==
    \A id \in Sandboxes : Held(id) /\ ~Pursued(id) =>
        boot[id].at \in {"failed", "lost"} \/ id \in unremoved

\* What the manager may ask to execute or to destroy is in `vms`: the throw
\* "Sandbox not found" of execute and destroy is never met.
KnownIsRegistered == known \subseteq vms

\* A guest never runs without its jail: destroy removes files of dead VMs only.
RunningHasJail ==
    \A id \in Sandboxes : firecracker[id] = "alive" =>
        jail[id].made /\ jail[id].rootfs # None

\* A registered VM leaves `vms` only when its jail and its VM are gone, or by
\* a restart: the entry is the only handle destroy has on them.
HandleKeptWhileHeld ==
    [][\A id \in vms \ vms' : ~Held(id)' \/ boot'[id].at = "lost"]_vars

\* Every create settles: the wait loops give up, every fatal step rejects.
CreateSettles ==
    \A id \in Sandboxes : boot[id].at \in Booting ~> boot[id].at \in Ended
===============================================================================
