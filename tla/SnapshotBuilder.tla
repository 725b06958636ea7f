---------------------------- MODULE SnapshotBuilder ----------------------------
(***************************************************************************)
(* The files of one template on a worker: the rootfs that                  *)
(* infra/firecracker/build-template.sh makes in place, and the snapshot    *)
(* that scripts/build-snapshot.ts captures of a VM booted from it.  Runs   *)
(* of the builder share one chroot (JAIL_ID depends on the template only)  *)
(* and may overlap, fail at any await and be killed at any step.  A        *)
(* version stands for what the manifest's three hashes identify.           *)
(***************************************************************************)
EXTENDS Naturals

CONSTANTS
    Builders,     \* processes that run build-snapshot.ts, once each
    Versions,     \* rootfs contents, with
    Partial,      \*   the content of one whose build has not finished
    None,         \* a file that does not exist
    MaxChanges,   \* bound: rebuilds and deletions of the rootfs
    MaxDeaths     \* bound: builder processes killed

ASSUME VersionsAssumption == Partial \in Versions /\ None \notin Versions
ASSUME BoundsAssumption == MaxChanges \in Nat /\ MaxDeaths \in Nat

\* A captured file belongs to the VM it was taken of and the rootfs it ran.
Snapshots == [vm : Builders, of : Versions]

ASSUME NoneIsNoSnapshot == None \notin Snapshots

VARIABLES
    disk,       \* [rootfs, state, memory] of the template
    manifest,   \* version in manifest.json, None if absent or unreadable
    area,       \* the build chroot, and the VM its API socket belongs to
    vm,         \* vm[b] : the Firecracker process builder b spawned
    build,      \* build[b] : where b is, and the hashes it started with
    spoiled,    \* history: an install was cut, shared, or hashed other inputs
    changes, deaths

buildVars == <<manifest, area, vm, build, spoiled, changes, deaths>>
builderVars == <<disk, buildVars>>

NoArea == [made |-> FALSE, rootfs |-> None, state |-> None, memory |-> None,
           sock |-> None]

Preparing == {"clear", "mkdir", "stage", "spawn"}
Capturing == {"socket", "boot", "agent", "pause", "capture"}
Installing == {"memory", "clean", "manifest"}
Working == {"hashed", "kill", "abort", "state"} \cup Preparing \cup Capturing
           \cup Installing
Finished == {"done", "failed", "dead"}

TypeOK ==
    /\ disk \in [rootfs : Versions \cup {None}, state : Snapshots \cup {None},
                 memory : Snapshots \cup {None}]
    /\ manifest \in Versions \cup {None}
    /\ area \in [made : BOOLEAN, rootfs : Versions \cup {None},
                 state : Snapshots \cup {None}, memory : Snapshots \cup {None},
                 sock : Builders \cup {None}]
    /\ vm \in [Builders -> [is : {"none", "up", "running", "paused", "dead"},
                            of : Versions \cup {None}]]
    /\ build \in [Builders -> [at : {"idle"} \cup Working \cup Finished,
                               wanted : Versions \cup {None}]]
    /\ spoiled \in BOOLEAN
    /\ changes \in 0 .. MaxChanges
    /\ deaths \in 0 .. MaxDeaths

InitBuild ==
    /\ manifest = None
    /\ area = NoArea
    /\ vm = [b \in Builders |-> [is |-> "none", of |-> None]]
    /\ build = [b \in Builders |-> [at |-> "idle", wanted |-> None]]
    /\ spoiled = FALSE
    /\ changes = 0
    /\ deaths = 0

\* A provisioned worker: the template is built, its snapshot is not.
Init ==
    /\ \E v \in Versions \ {Partial} :
           disk = [rootfs |-> v, state |-> None, memory |-> None]
    /\ InitBuild

-------------------------------------------------------------------------------
\* build-snapshot.ts

Moves(b, from, to) ==
    /\ build[b].at = from
    /\ build' = [build EXCEPT ![b].at = to]

\* The VM that answers on the area's API socket and vsock, if it lives.
Alive(g) == g # None /\ vm[g].is \in {"up", "running", "paused"}

\* access, then the three hashes, in one synchronous stretch.
BuildBegins(b) ==
    /\ build[b].at = "idle"
    /\ build' = [build EXCEPT ![b] =
                   [at |-> IF disk.rootfs = None THEN "failed" ELSE "hashed",
                    wanted |-> disk.rootfs]]
    /\ UNCHANGED <<disk, manifest, area, vm, spoiled, changes, deaths>>

\* The manifest has been read: skip when it names the wanted hashes.
ReadManifest(b) ==
    /\ Moves(b, "hashed", IF manifest = build[b].wanted THEN "done" ELSE "clear")
    /\ UNCHANGED <<disk, manifest, area, vm, spoiled, changes, deaths>>

\* The chroot another builder may be using is removed.
Clear(b) ==
    /\ Moves(b, "clear", "mkdir")
    /\ area' = NoArea
    /\ spoiled' = (spoiled \/ \E c \in Builders \ {b} :
           build[c].at \in (Working \ {"hashed", "clear"}))
    /\ UNCHANGED <<disk, manifest, vm, changes, deaths>>

Mkdir(b) ==
    /\ Moves(b, "mkdir", "stage")
    /\ area' = [area EXCEPT !.made = TRUE]
    /\ UNCHANGED <<disk, manifest, vm, spoiled, changes, deaths>>

StageRootfs(b) ==
    /\ area.made /\ disk.rootfs # None
    /\ Moves(b, "stage", "spawn")
    /\ area' = [area EXCEPT !.rootfs = disk.rootfs]
    /\ UNCHANGED <<disk, manifest, vm, spoiled, changes, deaths>>

\* The jailer starts a VM in the area, unless the socket there is taken.
Spawn(b) ==
    /\ area.made
    /\ Moves(b, "spawn", "socket")
    /\ IF area.sock = None
       THEN /\ area' = [area EXCEPT !.sock = b]
            /\ vm' = [vm EXCEPT ![b].is = "up"]
       ELSE UNCHANGED <<area, vm>>
    /\ UNCHANGED <<disk, manifest, spoiled, changes, deaths>>

SocketUp(b) ==
    /\ area.sock # None
    /\ Moves(b, "socket", "boot")
    /\ UNCHANGED <<disk, manifest, area, vm, spoiled, changes, deaths>>

\* The configuration calls and InstanceStart, to whichever VM listens.
Boot(b) ==
    /\ Alive(area.sock) /\ vm[area.sock].is = "up" /\ area.rootfs # None
    /\ Moves(b, "boot", "agent")
    /\ vm' = [vm EXCEPT ![area.sock] = [is |-> "running", of |-> area.rootfs]]
    /\ UNCHANGED <<disk, manifest, area, spoiled, changes, deaths>>

AgentReady(b) ==
    /\ Alive(area.sock) /\ vm[area.sock].is = "running"
    /\ Moves(b, "agent", "pause")
    /\ UNCHANGED <<disk, manifest, area, vm, spoiled, changes, deaths>>

Pause(b) ==
    /\ Alive(area.sock) /\ vm[area.sock].is \in {"running", "paused"}
    /\ Moves(b, "pause", "capture")
    /\ vm' = [vm EXCEPT ![area.sock].is = "paused"]
    /\ UNCHANGED <<disk, manifest, area, spoiled, changes, deaths>>

\* Both files of the paused VM are written into the area.
Capture(b) ==
    LET taken == [vm |-> area.sock, of |-> vm[area.sock].of] IN
    /\ Alive(area.sock) /\ vm[area.sock].is = "paused"
    /\ Moves(b, "capture", "kill")
    /\ area' = [area EXCEPT !.state = taken, !.memory = taken]
    /\ UNCHANGED <<disk, manifest, vm, spoiled, changes, deaths>>

\* Mutant: finally forgets pkill; the jailer dies, Firecracker does not.
KillJailer(b) ==
    /\ Moves(b, "kill", "state") \/ Moves(b, "abort", "failed")
    /\ UNCHANGED <<disk, manifest, area, vm, spoiled, changes, deaths>>

\* finally: pkill by jail id reaches every VM of the template's builds.
KillVms(b) ==
    /\ Moves(b, "kill", "state") \/ Moves(b, "abort", "failed")
    /\ vm' = [c \in Builders |-> IF Alive(c) THEN [vm[c] EXCEPT !.is = "dead"]
                                 ELSE vm[c]]
    /\ UNCHANGED <<disk, manifest, area, spoiled, changes, deaths>>

RenameState(b) ==
    /\ area.state # None
    /\ Moves(b, "state", "memory")
    /\ disk' = [disk EXCEPT !.state = area.state]
    /\ area' = [area EXCEPT !.state = None]
    /\ UNCHANGED <<manifest, vm, spoiled, changes, deaths>>

RenameMemory(b) ==
    /\ area.memory # None
    /\ Moves(b, "memory", "clean")
    /\ disk' = [disk EXCEPT !.memory = area.memory]
    /\ area' = [area EXCEPT !.memory = None]
    /\ UNCHANGED <<manifest, vm, spoiled, changes, deaths>>

CleanArea(b) ==
    /\ Moves(b, "clean", "manifest")
    /\ area' = NoArea
    /\ UNCHANGED <<disk, manifest, vm, spoiled, changes, deaths>>

\* Mutant: the inputs are hashed again at the end.
WriteManifestAnew(b) ==
    /\ Moves(b, "manifest", "done")
    /\ manifest' = disk.rootfs
    /\ UNCHANGED <<disk, area, vm, spoiled, changes, deaths>>

WriteManifest(b) ==
    /\ Moves(b, "manifest", "done")
    /\ manifest' = build[b].wanted
    /\ UNCHANGED <<disk, area, vm, spoiled, changes, deaths>>

\* Mutant: the polls of socket and agent have no time limit.
StepFailsButPolls(b) ==
    /\ \/ \E p \in {"boot", "pause", "capture"} : Moves(b, p, "abort")
       \/ \E p \in Preparing \cup {"state"} \cup Installing : Moves(b, p, "failed")
    /\ spoiled' = (spoiled \/ build[b].at \in Installing)
    /\ UNCHANGED <<disk, manifest, area, vm, changes, deaths>>

\* An await rejects: under try the finally block runs first.
StepFails(b) ==
    /\ \/ \E p \in Capturing : Moves(b, p, "abort")
       \/ \E p \in Preparing \cup {"state"} \cup Installing : Moves(b, p, "failed")
    /\ spoiled' = (spoiled \/ build[b].at \in Installing)
    /\ UNCHANGED <<disk, manifest, area, vm, changes, deaths>>

BuildStep(b) ==
    \/ ReadManifest(b) \/ Clear(b) \/ Mkdir(b) \/ StageRootfs(b) \/ Spawn(b)
    \/ SocketUp(b) \/ Boot(b) \/ AgentReady(b) \/ Pause(b) \/ Capture(b)
    \/ KillVms(b) \/ RenameState(b) \/ RenameMemory(b) \/ CleanArea(b)
    \/ WriteManifest(b) \/ StepFails(b)

\* The process is killed: no finally block, its VM stays.  writeFile truncates
\* before it writes, so a manifest cut there does not parse.
Die(b) ==
    /\ deaths < MaxDeaths
    /\ deaths' = deaths + 1
    /\ \E p \in Working : Moves(b, p, "dead")
    /\ manifest' \in (IF build[b].at = "manifest" THEN {manifest, None} ELSE {manifest})
    /\ spoiled' = (spoiled \/ build[b].at \in Installing)
    /\ UNCHANGED <<disk, area, vm, changes>>

-------------------------------------------------------------------------------
\* build-template.sh, and the operator who deletes a rootfs to force a rebuild

\* A builder that hashed the rootfs has yet to copy it.
Rootfs(v) ==
    /\ disk' = [disk EXCEPT !.rootfs = v]
    /\ spoiled' = (spoiled \/ \E b \in Builders :
           build[b].at \in {"hashed", "clear", "mkdir", "stage"})
    /\ UNCHANGED <<manifest, area, vm, build, deaths>>

DeleteRootfs ==
    /\ changes < MaxChanges
    /\ changes' = changes + 1
    /\ disk.rootfs # None
    /\ Rootfs(None)

\* cp of the base image to its final name; the script skips a file that exists.
TemplateBegins == disk.rootfs = None /\ Rootfs(Partial) /\ UNCHANGED changes

\* setup.sh has run.  If it fails instead, the partial file stays for good.
TemplateDone ==
    /\ disk.rootfs = Partial
    /\ \E v \in Versions \ {Partial} : Rootfs(v)
    /\ UNCHANGED changes

TemplateStep == DeleteRootfs \/ TemplateBegins \/ TemplateDone

Next ==
    \/ \E b \in Builders : BuildBegins(b) \/ BuildStep(b) \/ Die(b)
    \/ TemplateStep

Spec == Init /\ [][Next]_builderVars

\* Every await of the builder settles: the wait loops have a time limit.
Fairness == \A b \in Builders : WF_builderVars(BuildStep(b))

FairSpec == Spec /\ Fairness

-------------------------------------------------------------------------------
\* Properties

\* A pair captured together of one VM, which ran version v.
PairOf(v) == disk.state = disk.memory /\ disk.state # None /\ disk.state.of = v

\* The manifest describes the two files beside it, outside the three steps of
\* an install, unless an install was cut there, two builds overlapped, or the
\* rootfs changed between its hash and its copy: the skip at the top of main
\* trusts the manifest alone.
ManifestSound ==
    ~spoiled /\ manifest # None /\ (\A b \in Builders : build[b].at \notin Installing)
        => PairOf(manifest)

\* The source VM of a build is killed by its finally block, and with it what
\* earlier builds left: only a killed builder leaves a VM, until the next
\* finally.
OrphanOnlyByDeath ==
    \A b \in Builders : Alive(b) => build[b].at \in Capturing \cup {"kill", "abort", "dead"}

\* Every build ends.
BuildEnds == \A b \in Builders : build[b].at \in Working ~> build[b].at \in Finished
===============================================================================
