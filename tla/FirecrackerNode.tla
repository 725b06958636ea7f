---------------------------- MODULE FirecrackerNode ----------------------------
(***************************************************************************)
(* A worker's disk as deploy-gcp.sh uses it: the template's files are      *)
(* rebuilt, and its snapshot captured anew, while the worker daemon still  *)
(* serves boots from them.  Nothing but the file system orders the two:    *)
(* the backend neither locks the files nor reads the manifest.             *)
(***************************************************************************)
EXTENDS FirecrackerBackend

CONSTANTS Builders, Partial, MaxChanges, MaxDeaths

VARIABLES manifest, area, vm, build, spoiled, changes, deaths,
    steady      \* history: id copied a sound rootfs, and no install met its staging

Template == INSTANCE SnapshotBuilder

ASSUME BuilderAssumption == Partial \in Versions /\ MaxChanges \in Nat /\ MaxDeaths \in Nat

\* Whatever a builder captures may be found on the disk.
ASSUME CapturesAssumption == Template!Snapshots \subseteq Captures

templateVars == <<manifest, area, vm, build, spoiled, changes, deaths>>
nodeVars == <<vars, templateVars, steady>>

\* What a boot should find: no snapshot, or one captured of this very rootfs.
DiskSound ==
    \/ disk.state = None /\ disk.memory = None
    \/ Template!PairOf(disk.rootfs)

\* A worker after its first deploy: builder b has installed a snapshot.
NodeInit ==
    /\ \E b \in Builders, v \in Versions \ {Partial} :
           LET pair == [vm |-> b, of |-> v] IN
           /\ disk = [rootfs |-> v, state |-> pair, memory |-> pair]
           /\ manifest = v
           /\ vm = [c \in Builders |-> IF c = b THEN [is |-> "dead", of |-> v]
                                        ELSE [is |-> "none", of |-> None]]
           /\ build = [c \in Builders |-> IF c = b THEN [at |-> "done", wanted |-> v]
                                           ELSE [at |-> "idle", wanted |-> None]]
    /\ area = Template!NoArea
    /\ spoiled = FALSE
    /\ changes = 0 /\ deaths = 0
    /\ InitBackend
    /\ steady = [id \in Sandboxes |-> FALSE]

\* The boot has its rootfs and is about to look at, or take, the snapshot's files.
Taking == Staging \ {"kernel", "rootfs", "spawn"}

\* Until a boot copies its rootfs, its flag follows the disk; then an install
\* clears it, until all is staged.
Observe ==
    steady' = [id \in Sandboxes |->
                 IF boot'[id].at \in {"none", "kernel", "rootfs"} THEN DiskSound'
                 ELSE steady[id] /\ (boot'[id].at \in Taking =>
                         disk'.state = disk.state /\ disk'.memory = disk.memory)]

NodeNext ==
    /\ \/ Next /\ UNCHANGED templateVars
       \/ Template!Next /\ UNCHANGED backendVars
    /\ Observe

NodeSpec == NodeInit /\ [][NodeNext]_nodeVars

\* The builder may stall: what the backend promises does not wait for it.
NodeFairSpec == NodeSpec /\ Fairness

\* A guest restored from a snapshot has both files of one capture, and a disk
\* with the content that capture ran on, if a snapshot of that content was there
\* when its boot copied the rootfs, and no install met the few awaits between
\* that copy and the last link.  Whatever the builders do before and after, and
\* a rebuild of the rootfs at any time, does no harm: an install renames its
\* files into place and so leaves alone those a chroot has linked.
SteadyRestoreIsSound ==
    \A id \in Sandboxes :
        firecracker[id] = "alive" /\ boot[id].restore /\ steady[id] =>
            /\ jail[id].state = jail[id].memory
            /\ jail[id].state.of = jail[id].rootfs
===============================================================================
