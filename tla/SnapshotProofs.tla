---------------------------- MODULE SnapshotProofs ----------------------------
(***************************************************************************)
(* Theorems about SnapshotBuilder, for any builders that overlap, fail and *)
(* are killed, any versions of the rootfs, and any number of rebuilds.     *)
(***************************************************************************)
EXTENDS SnapshotBuilder, TLAPS

Disks == [rootfs : Versions \cup {None}, state : Snapshots \cup {None},
          memory : Snapshots \cup {None}]
Areas == [made : BOOLEAN, rootfs : Versions \cup {None}, state : Snapshots \cup {None},
          memory : Snapshots \cup {None}, sock : Builders \cup {None}]
Guests == [is : {"none", "up", "running", "paused", "dead"}, of : Versions \cup {None}]
Places == {"idle"} \cup Working \cup Finished
Builds == [at : Places, wanted : Versions \cup {None}]

Booted == \A b \in Builders : vm[b].is \in {"running", "paused"} => vm[b].of # None

Typed ==
    /\ Booted
    /\ disk \in Disks /\ manifest \in Versions \cup {None} /\ area \in Areas
    /\ vm \in [Builders -> Guests] /\ build \in [Builders -> Builds]

\* Steps at which a builder uses the shared area.
Busy == Working \ {"hashed", "clear"}

\* The place of a builder that has hashed the rootfs and not copied it yet.
Copying == {"hashed", "clear", "mkdir", "stage"}

\* What builder b has achieved where it is, as long as nobody interfered.
Achieved(b) ==
    LET at == build[b].at
        wanted == build[b].wanted
    IN /\ at \in Copying => disk.rootfs = wanted
       /\ at \in {"spawn", "socket", "boot", "agent", "pause", "capture"} =>
              area.rootfs = wanted
       /\ at \in {"agent", "pause", "capture"} =>
              area.sock \in Builders /\ vm[area.sock].of = wanted
       /\ at \in {"kill", "state"} =>
              area.state = area.memory /\ area.state # None /\ area.state.of = wanted
       /\ at = "memory" =>
              disk.state = area.memory /\ disk.state # None /\ disk.state.of = wanted
       /\ at \in {"clean", "manifest"} => PairOf(wanted)

OneBusy == \A b, c \in Builders : build[b].at \in Busy /\ build[c].at \in Busy => b = c

NoInstall == \A b \in Builders : build[b].at \notin Installing

Described == NoInstall /\ manifest # None => PairOf(manifest)

Undisturbed == ~spoiled => OneBusy /\ (\A b \in Builders : Achieved(b)) /\ Described

Inv == Typed /\ OrphanOnlyByDeath /\ Undisturbed

-------------------------------------------------------------------------------
\* A builder moves, and no other.
LEMMA MovesEffect ==
    ASSUME Typed, NEW b \in Builders, NEW from, NEW to \in Places, Moves(b, from, to)
    PROVE  /\ build' \in [Builders -> Builds]
           /\ build[b].at = from /\ build'[b].at = to
           /\ build'[b].wanted = build[b].wanted
           /\ \A c \in Builders : c # b => build'[c] = build[c]
  <1>1. build[b] \in Builds
    BY DEF Typed
  <1>2. /\ [build[b] EXCEPT !.at = to] \in Builds
        /\ [build[b] EXCEPT !.at = to].at = to
        /\ [build[b] EXCEPT !.at = to].wanted = build[b].wanted
    BY <1>1 DEF Builds
  <1>3. build' = [build EXCEPT ![b] = [build[b] EXCEPT !.at = to]]
    BY DEF Typed, Moves
  <1>4. build' \in [Builders -> Builds]
    BY <1>2, <1>3 DEF Typed
  <1>5. /\ build'[b] = [build[b] EXCEPT !.at = to]
        /\ \A c \in Builders : c # b => build'[c] = build[c]
    BY <1>3 DEF Typed
  <1>. QED
    BY <1>2, <1>4, <1>5 DEF Moves

LEMMA TypedStep == Typed /\ [Next]_builderVars => Typed'
  <1>. SUFFICES ASSUME Typed, [Next]_builderVars PROVE Typed'
    OBVIOUS
  <1>1. ASSUME NEW b \in Builders, NEW from, NEW to \in Places, Moves(b, from, to)
        PROVE  build' \in [Builders -> Builds]
    BY <1>1, MovesEffect
  <1>. USE DEF Places, Working, Finished, Preparing, Capturing, Installing
  <1>2. ASSUME NEW b \in Builders, BuildBegins(b) PROVE Typed'
    BY <1>2 DEF BuildBegins, Typed, Booted, Disks, Builds
  <1>3. ASSUME NEW b \in Builders,
               ReadManifest(b) \/ SocketUp(b) \/ AgentReady(b) \/ StepFails(b)
        PROVE  Typed'
    <2>1. build' \in [Builders -> Builds]
      BY <1>1, <1>3 DEF ReadManifest, SocketUp, AgentReady, StepFails
    <2>. QED
      BY <1>3, <2>1 DEF ReadManifest, SocketUp, AgentReady, StepFails, Typed, Booted
  <1>4. ASSUME NEW b \in Builders, Clear(b) \/ CleanArea(b) PROVE Typed'
    <2>1. build' \in [Builders -> Builds]
      BY <1>1, <1>4 DEF Clear, CleanArea
    <2>2. area' \in Areas
      <3>1. NoArea \in Areas
        BY DEF NoArea, Areas
      <3>. QED
        BY <1>4, <3>1 DEF Clear, CleanArea
    <2>. QED
      BY <1>4, <2>1, <2>2 DEF Clear, CleanArea, Typed, Booted
  <1>5. ASSUME NEW b \in Builders, Mkdir(b) \/ StageRootfs(b) PROVE Typed'
    <2>1. build' \in [Builders -> Builds]
      BY <1>1, <1>5 DEF Mkdir, StageRootfs
    <2>2. area' \in Areas
      BY <1>5 DEF Mkdir, StageRootfs, Typed, Areas, Disks
    <2>. QED
      BY <1>5, <2>1, <2>2 DEF Mkdir, StageRootfs, Typed, Booted
  <1>6. ASSUME NEW b \in Builders, Spawn(b) PROVE Typed'
    <2>1. build' \in [Builders -> Builds]
      BY <1>1, <1>6 DEF Spawn
    <2>2. area' \in Areas
      BY <1>6 DEF Spawn, Typed, Areas
    <2>3. vm' \in [Builders -> Guests]
      BY <1>6 DEF Spawn, Typed, Guests
    <2>4. Booted'
      BY <1>6 DEF Spawn, Typed, Booted, Guests
    <2>. QED
      BY <1>6, <2>1, <2>2, <2>3, <2>4 DEF Spawn, Typed
  <1>7. ASSUME NEW b \in Builders, Boot(b) \/ Pause(b) PROVE Typed'
    <2>1. build' \in [Builders -> Builds]
      BY <1>1, <1>7 DEF Boot, Pause
    <2>2. area.sock \in Builders
      BY <1>7 DEF Boot, Pause, Alive, Typed, Areas
    <2>3. vm' \in [Builders -> Guests]
      BY <1>7, <2>2 DEF Boot, Pause, Typed, Areas, Guests
    <2>4. Booted'
      BY <1>7, <2>2 DEF Boot, Pause, Typed, Booted, Guests
    <2>. QED
      BY <1>7, <2>1, <2>3, <2>4 DEF Boot, Pause, Typed
  <1>8. ASSUME NEW b \in Builders, Capture(b) PROVE Typed'
    <2>1. build' \in [Builders -> Builds]
      BY <1>1, <1>8 DEF Capture
    <2>2. area.sock \in Builders
      BY <1>8 DEF Capture, Alive, Typed, Areas
    <2>3. [vm |-> area.sock, of |-> vm[area.sock].of] \in Snapshots
      BY <1>8, <2>2 DEF Capture, Typed, Booted, Guests, Snapshots
    <2>4. area' \in Areas
      BY <1>8, <2>3 DEF Capture, Typed, Areas
    <2>. QED
      BY <1>8, <2>1, <2>4 DEF Capture, Typed, Booted
  <1>9. ASSUME NEW b \in Builders, KillVms(b) PROVE Typed'
    <2>1. build' \in [Builders -> Builds]
      BY <1>1, <1>9 DEF KillVms
    <2>2. vm' \in [Builders -> Guests]
      <3>1. \A c \in Builders : [vm[c] EXCEPT !.is = "dead"] \in Guests
        BY DEF Typed, Guests
      <3>. QED
        BY <1>9, <3>1 DEF KillVms, Typed
    <2>3. Booted'
      <3>1. \A c \in Builders : vm'[c] = IF Alive(c) THEN [vm[c] EXCEPT !.is = "dead"] ELSE vm[c]
        BY <1>9 DEF KillVms
      <3>2. \A c \in Builders : [vm[c] EXCEPT !.is = "dead"].is = "dead"
        BY DEF Typed, Guests
      <3>. QED
        BY <3>1, <3>2 DEF Typed, Booted
    <2>. QED
      BY <1>9, <2>1, <2>2, <2>3 DEF KillVms, Typed
  <1>10. ASSUME NEW b \in Builders, RenameState(b) \/ RenameMemory(b) PROVE Typed'
    <2>1. build' \in [Builders -> Builds]
      BY <1>1, <1>10 DEF RenameState, RenameMemory
    <2>2. disk' \in Disks
      BY <1>10 DEF RenameState, RenameMemory, Typed, Disks, Areas
    <2>3. area' \in Areas
      BY <1>10 DEF RenameState, RenameMemory, Typed, Areas
    <2>. QED
      BY <1>10, <2>1, <2>2, <2>3 DEF RenameState, RenameMemory, Typed, Booted
  <1>11. ASSUME NEW b \in Builders, WriteManifest(b) \/ Die(b) PROVE Typed'
    <2>1. build' \in [Builders -> Builds]
      BY <1>1, <1>11 DEF WriteManifest, Die
    <2>2. manifest' \in Versions \cup {None}
      BY <1>11 DEF WriteManifest, Die, Typed, Builds
    <2>. QED
      BY <1>11, <2>1, <2>2 DEF WriteManifest, Die, Typed, Booted
  <1>12. CASE TemplateStep
    <2>1. PICK v \in Versions \cup {None} : Rootfs(v)
      BY <1>12, VersionsAssumption DEF TemplateStep, DeleteRootfs, TemplateBegins, TemplateDone
    <2>2. disk' \in Disks
      BY <2>1 DEF Rootfs, Typed, Disks
    <2>. QED
      BY <2>1, <2>2 DEF Rootfs, Typed, Booted
  <1>13. CASE UNCHANGED builderVars
    BY <1>13 DEF builderVars, buildVars, Typed, Booted
  <1>. QED
    BY <1>2, <1>3, <1>4, <1>5, <1>6, <1>7, <1>8, <1>9, <1>10, <1>11, <1>12, <1>13
    DEF Next, BuildStep

-------------------------------------------------------------------------------
\* VMs

\* A step that lets nothing come alive, and moves builder b only: its VM is
\* dead, or it stays where a live VM may be.
LEMMA NothingBorn ==
    ASSUME OrphanOnlyByDeath, NEW b \in Builders,
           \A c \in Builders : c # b => build'[c] = build[c],
           \A c \in Builders : Alive(c)' => Alive(c),
           Alive(b)' => build'[b].at \in Capturing \cup {"kill", "abort", "dead"}
    PROVE  OrphanOnlyByDeath'
  BY DEF OrphanOnlyByDeath

LEMMA OrphanStep == Typed /\ OrphanOnlyByDeath /\ [Next]_builderVars => OrphanOnlyByDeath'
  <1>. SUFFICES ASSUME Typed, OrphanOnlyByDeath, [Next]_builderVars PROVE OrphanOnlyByDeath'
    OBVIOUS
  <1>. DEFINE Moved(b, from, to) ==
                  /\ build[b].at = from /\ build'[b].at = to
                  /\ \A c \in Builders : c # b => build'[c] = build[c]
  <1>1. ASSUME NEW b \in Builders, NEW from, NEW to \in Places, Moves(b, from, to)
        PROVE  Moved(b, from, to)
    BY <1>1, MovesEffect
  <1>2. ASSUME vm' = vm, NEW c PROVE Alive(c)' => Alive(c)
    BY <1>2 DEF Alive
  <1>3. \A b \in Builders : Alive(b) => build[b].at \in Capturing \cup {"kill", "abort", "dead"}
    BY DEF OrphanOnlyByDeath
  <1>. USE DEF Places, Working, Finished, Preparing, Capturing, Installing
  <1>4. ASSUME NEW b \in Builders, BuildBegins(b) PROVE OrphanOnlyByDeath'
    <2>1. \A c \in Builders : c # b => build'[c] = build[c]
      BY <1>4 DEF BuildBegins, Typed
    <2>. QED
      BY <1>2, <1>3, <1>4, <2>1, NothingBorn DEF BuildBegins
  <1>5. ASSUME NEW b \in Builders,
               ReadManifest(b) \/ Clear(b) \/ Mkdir(b) \/ StageRootfs(b) \/ RenameState(b)
               \/ RenameMemory(b) \/ CleanArea(b) \/ WriteManifest(b)
        PROVE  OrphanOnlyByDeath'
    <2>1. /\ vm' = vm
          /\ \E from \in {"hashed", "state"} \cup Preparing \cup Installing, to \in Places :
                Moves(b, from, to)
      BY <1>5 DEF ReadManifest, Clear, Mkdir, StageRootfs, RenameState, RenameMemory,
         CleanArea, WriteManifest
    <2>. QED
      BY <1>1, <1>2, <1>3, <2>1, NothingBorn
  <1>6. ASSUME NEW b \in Builders, SocketUp(b) \/ AgentReady(b) \/ Capture(b) \/ StepFails(b)
        PROVE  OrphanOnlyByDeath'
    <2>1. /\ vm' = vm
          /\ \/ \E from \in Capturing, to \in Capturing \cup {"kill", "abort"} : Moves(b, from, to)
             \/ \E from \in Preparing \cup {"state"} \cup Installing : Moves(b, from, "failed")
      BY <1>6 DEF SocketUp, AgentReady, Capture, StepFails
    <2>. QED
      BY <1>1, <1>2, <1>3, <2>1, NothingBorn
  <1>7. ASSUME NEW b \in Builders, Spawn(b) PROVE OrphanOnlyByDeath'
    <2>1. Moved(b, "spawn", "socket")
      BY <1>1, <1>7 DEF Spawn
    <2>2. \A c \in Builders : c # b => vm'[c] = vm[c]
      BY <1>7 DEF Spawn, Typed
    <2>. QED
      BY <1>3, <2>1, <2>2 DEF OrphanOnlyByDeath, Alive
  <1>8. ASSUME NEW b \in Builders, Boot(b) \/ Pause(b) PROVE OrphanOnlyByDeath'
    <2>1. Moved(b, "boot", "agent") \/ Moved(b, "pause", "capture")
      BY <1>1, <1>8 DEF Boot, Pause
    <2>2. area.sock \in Builders /\ Alive(area.sock)
      BY <1>8 DEF Boot, Pause, Alive, Typed, Areas
    <2>3. \A c \in Builders : c # area.sock => vm'[c] = vm[c]
      BY <1>8 DEF Boot, Pause, Typed
    <2>4. \A c \in Builders : Alive(c)' => Alive(c)
      BY <2>2, <2>3 DEF Alive
    <2>. QED
      BY <2>1, <2>4, NothingBorn
  <1>9. ASSUME NEW b \in Builders, KillVms(b) PROVE OrphanOnlyByDeath'
    <2>1. \A c \in Builders : vm'[c] = IF Alive(c) THEN [vm[c] EXCEPT !.is = "dead"] ELSE vm[c]
      BY <1>9 DEF KillVms
    <2>2. \A c \in Builders : [vm[c] EXCEPT !.is = "dead"].is = "dead"
      BY DEF Typed, Guests
    <2>3. \A c \in Builders : ~Alive(c)'
      BY <2>1, <2>2 DEF Alive
    <2>. QED
      BY <2>3 DEF OrphanOnlyByDeath
  <1>10. ASSUME NEW b \in Builders, Die(b) PROVE OrphanOnlyByDeath'
    <2>1. vm' = vm /\ \E from \in Working : Moves(b, from, "dead")
      BY <1>10 DEF Die
    <2>. QED
      BY <1>1, <1>2, <2>1, NothingBorn
  <1>11. CASE TemplateStep \/ UNCHANGED builderVars
    BY <1>11 DEF TemplateStep, DeleteRootfs, TemplateBegins, TemplateDone, Rootfs, builderVars,
       buildVars, OrphanOnlyByDeath, Alive
  <1>. QED
    BY <1>4, <1>5, <1>6, <1>7, <1>8, <1>9, <1>10, <1>11 DEF Next, BuildStep

-------------------------------------------------------------------------------
\* The manifest

\* A step of a builder that uses the area: nobody else does, so what it has
\* achieved itself is all that has to be shown.
LEMMA BusyStep ==
    ASSUME Typed, Undisturbed, NEW b \in Builders, build[b].at \in Busy, ~spoiled,
           \A c \in Builders : c # b => build'[c] = build[c],
           disk'.rootfs = disk.rootfs,
           Achieved(b)', Described'
    PROVE  Undisturbed'
  <1>1. OneBusy /\ \A c \in Builders : Achieved(c)
    BY DEF Undisturbed
  <1>2. \A c \in Builders : c # b => build[c].at \notin Busy
    BY <1>1 DEF OneBusy
  <1>3. OneBusy'
    BY <1>2 DEF OneBusy
  <1>4. ASSUME NEW c \in Builders, c # b PROVE Achieved(c)'
    BY <1>1, <1>2, <1>4 DEF Achieved, Busy, Working, Preparing, Capturing, Installing, Copying
  <1>. QED
    BY <1>3, <1>4 DEF Undisturbed

\* A step from outside an install that leaves the snapshot and the manifest.
LEMMA KeptDescribed ==
    ASSUME Described, NEW b \in Builders, build[b].at \notin Installing,
           \A c \in Builders : c # b => build'[c] = build[c],
           manifest' = manifest, disk'.state = disk.state, disk'.memory = disk.memory
    PROVE  Described'
  BY DEF Described, NoInstall, PairOf

\* A builder that stops, or goes to its finally block, outside an install.
LEMMA StoppedStep ==
    ASSUME Undisturbed, ~spoiled, NEW b \in Builders, build[b].at \notin Installing,
           build'[b].at \in Finished \cup {"abort"},
           build'[b].at \in Busy => build[b].at \in Busy,
           \A c \in Builders : c # b => build'[c] = build[c],
           UNCHANGED <<disk, manifest, area, vm>>
    PROVE  Undisturbed'
  <1>1. OneBusy /\ Described /\ \A c \in Builders : Achieved(c)
    BY DEF Undisturbed
  <1>2. Described'
    BY <1>1, KeptDescribed
  <1>3. Achieved(b)'
    BY DEF Achieved, Finished, Copying
  <1>4. ASSUME NEW c \in Builders, c # b PROVE Achieved(c)'
    BY <1>1, <1>4 DEF Achieved, PairOf
  <1>5. OneBusy'
    BY <1>1 DEF OneBusy
  <1>. QED
    BY <1>2, <1>3, <1>4, <1>5 DEF Undisturbed

LEMMA UndisturbedStep == Typed /\ Undisturbed /\ [Next]_builderVars => Undisturbed'
  <1>. SUFFICES ASSUME Typed, Undisturbed, [Next]_builderVars, ~spoiled' PROVE Undisturbed'
    BY DEF Undisturbed
  <1>. DEFINE Moved(b, from, to) ==
                  /\ build[b].at = from /\ build'[b].at = to
                  /\ build'[b].wanted = build[b].wanted
                  /\ \A c \in Builders : c # b => build'[c] = build[c]
  <1>1. ASSUME NEW b \in Builders, NEW from, NEW to \in Places, Moves(b, from, to)
        PROVE  Moved(b, from, to)
    BY <1>1, MovesEffect
  <1>2. ~spoiled
    BY DEF Next, BuildBegins, BuildStep, Die, ReadManifest, Clear, Mkdir, StageRootfs, Spawn,
       SocketUp, Boot, AgentReady, Pause, Capture, KillVms, RenameState, RenameMemory,
       CleanArea, WriteManifest, StepFails, TemplateStep, DeleteRootfs, TemplateBegins,
       TemplateDone, Rootfs, builderVars, buildVars
  <1>3. /\ OneBusy /\ Described /\ \A b \in Builders : Achieved(b)
        /\ disk \in Disks /\ area \in Areas
    BY <1>2 DEF Undisturbed, Typed
  <1>. USE DEF Places, Working, Finished, Preparing, Capturing, Installing, Busy, Copying
  <1>4. ASSUME NEW b \in Builders, BuildBegins(b) PROVE Undisturbed'
    <2>1. /\ \A c \in Builders : c # b => build'[c] = build[c]
          /\ build[b].at = "idle" /\ build'[b].at \in {"failed", "hashed"}
          /\ build'[b].wanted = disk.rootfs
          /\ UNCHANGED <<disk, manifest, area, vm>>
      BY <1>4 DEF BuildBegins, Typed
    <2>2. Described'
      BY <1>3, <2>1, KeptDescribed
    <2>3. \A c \in Builders : Achieved(c)'
      BY <1>3, <2>1 DEF Achieved, PairOf
    <2>4. OneBusy'
      BY <1>3, <2>1 DEF OneBusy
    <2>. QED
      BY <2>2, <2>3, <2>4 DEF Undisturbed
  <1>5. ASSUME NEW b \in Builders, ReadManifest(b) PROVE Undisturbed'
    <2>1. /\ Moved(b, "hashed", "done") \/ Moved(b, "hashed", "clear")
          /\ UNCHANGED <<disk, manifest, area, vm>>
      BY <1>1, <1>5 DEF ReadManifest
    <2>2. Described'
      BY <1>3, <2>1, KeptDescribed
    <2>3. \A c \in Builders : Achieved(c)'
      BY <1>3, <2>1 DEF Achieved, PairOf
    <2>4. OneBusy'
      BY <1>3, <2>1 DEF OneBusy
    <2>. QED
      BY <2>2, <2>3, <2>4 DEF Undisturbed
  <1>6. ASSUME NEW b \in Builders, Clear(b) PROVE Undisturbed'
    <2>1. /\ Moved(b, "clear", "mkdir")
          /\ \A c \in Builders : c # b => build[c].at \notin Busy
          /\ UNCHANGED <<disk, manifest, vm>>
      BY <1>1, <1>6 DEF Clear
    <2>2. Described'
      BY <1>3, <2>1, KeptDescribed
    <2>3. \A c \in Builders : Achieved(c)'
      BY <1>3, <2>1 DEF Achieved
    <2>4. OneBusy'
      BY <2>1 DEF OneBusy
    <2>. QED
      BY <2>2, <2>3, <2>4 DEF Undisturbed
  <1>7. ASSUME NEW b \in Builders, Mkdir(b) PROVE Undisturbed'
    <2>1. Moved(b, "mkdir", "stage") /\ UNCHANGED <<disk, manifest>>
      BY <1>1, <1>7 DEF Mkdir
    <2>2. Described'
      BY <1>3, <2>1, KeptDescribed
    <2>3. Achieved(b)'
      BY <1>3, <2>1 DEF Achieved
    <2>. QED
      BY <1>2, <2>1, <2>2, <2>3, BusyStep
  <1>8. ASSUME NEW b \in Builders, StageRootfs(b) PROVE Undisturbed'
    <2>1. Moved(b, "stage", "spawn") /\ UNCHANGED <<disk, manifest>> /\ area'.rootfs = disk.rootfs
      BY <1>1, <1>3, <1>8 DEF StageRootfs, Areas
    <2>2. Described'
      BY <1>3, <2>1, KeptDescribed
    <2>3. Achieved(b)'
      BY <1>3, <2>1 DEF Achieved
    <2>. QED
      BY <1>2, <2>1, <2>2, <2>3, BusyStep
  <1>9. ASSUME NEW b \in Builders, Spawn(b) PROVE Undisturbed'
    <2>1. /\ Moved(b, "spawn", "socket") /\ UNCHANGED <<disk, manifest>>
          /\ area'.rootfs = area.rootfs
      BY <1>1, <1>3, <1>9 DEF Spawn, Areas
    <2>2. Described'
      BY <1>3, <2>1, KeptDescribed
    <2>3. Achieved(b)'
      BY <1>3, <2>1 DEF Achieved
    <2>. QED
      BY <1>2, <2>1, <2>2, <2>3, BusyStep
  <1>10. ASSUME NEW b \in Builders, SocketUp(b) \/ AgentReady(b) PROVE Undisturbed'
    <2>1. /\ Moved(b, "socket", "boot") \/ Moved(b, "agent", "pause")
          /\ UNCHANGED <<disk, manifest, area, vm>>
      BY <1>1, <1>10 DEF SocketUp, AgentReady
    <2>2. Described'
      BY <1>3, <2>1, KeptDescribed
    <2>3. Achieved(b)'
      BY <1>3, <2>1 DEF Achieved
    <2>. QED
      BY <1>2, <2>1, <2>2, <2>3, BusyStep
  <1>11. ASSUME NEW b \in Builders, Boot(b) PROVE Undisturbed'
    <2>1. Moved(b, "boot", "agent") /\ UNCHANGED <<disk, manifest, area>>
      BY <1>1, <1>11 DEF Boot
    <2>2. area.sock \in Builders
      BY <1>3, <1>11 DEF Boot, Alive, Areas
    <2>3. vm'[area.sock].of = area.rootfs
      BY <1>11, <2>2 DEF Boot, Typed
    <2>4. Described'
      BY <1>3, <2>1, KeptDescribed
    <2>5. Achieved(b)'
      BY <1>3, <2>1, <2>2, <2>3 DEF Achieved
    <2>. QED
      BY <1>2, <2>1, <2>4, <2>5, BusyStep
  <1>12. ASSUME NEW b \in Builders, Pause(b) PROVE Undisturbed'
    <2>1. Moved(b, "pause", "capture") /\ UNCHANGED <<disk, manifest, area>>
      BY <1>1, <1>12 DEF Pause
    <2>2. area.sock \in Builders
      BY <1>3, <1>12 DEF Pause, Alive, Areas
    <2>3. vm'[area.sock].of = vm[area.sock].of
      BY <1>12, <2>2 DEF Pause, Typed, Guests
    <2>4. Described'
      BY <1>3, <2>1, KeptDescribed
    <2>5. Achieved(b)'
      BY <1>3, <2>1, <2>2, <2>3 DEF Achieved
    <2>. QED
      BY <1>2, <2>1, <2>4, <2>5, BusyStep
  <1>13. ASSUME NEW b \in Builders, Capture(b) PROVE Undisturbed'
    <2>. DEFINE taken == [vm |-> area.sock, of |-> vm[area.sock].of]
    <2>1. Moved(b, "capture", "kill") /\ UNCHANGED <<disk, manifest>>
      BY <1>1, <1>13 DEF Capture
    <2>2. area.sock \in Builders
      BY <1>3, <1>13 DEF Capture, Alive, Areas
    <2>3. area'.state = taken /\ area'.memory = taken
      BY <1>3, <1>13 DEF Capture, Areas
    <2>4. taken \in Snapshots /\ taken.of = vm[area.sock].of
      BY <1>13, <2>2 DEF Capture, Typed, Booted, Guests, Snapshots
    <2>5. taken # None
      BY <2>4, NoneIsNoSnapshot
    <2>6. Described'
      BY <1>3, <2>1, KeptDescribed
    <2>. HIDE DEF taken
    <2>7. Achieved(b)'
      BY <1>3, <2>1, <2>3, <2>4, <2>5 DEF Achieved
    <2>. QED
      BY <1>2, <2>1, <2>6, <2>7, BusyStep
  <1>14. ASSUME NEW b \in Builders, KillVms(b) PROVE Undisturbed'
    <2>1. /\ Moved(b, "kill", "state") \/ Moved(b, "abort", "failed")
          /\ UNCHANGED <<disk, manifest, area>>
      BY <1>1, <1>14 DEF KillVms
    <2>2. Described'
      BY <1>3, <2>1, KeptDescribed
    <2>3. Achieved(b)'
      BY <1>3, <2>1 DEF Achieved
    <2>. QED
      BY <1>2, <2>1, <2>2, <2>3, BusyStep
  <1>15. ASSUME NEW b \in Builders, RenameState(b) PROVE Undisturbed'
    <2>1. Moved(b, "state", "memory") /\ manifest' = manifest
      BY <1>1, <1>15 DEF RenameState
    <2>2. /\ disk'.state = area.state /\ disk'.rootfs = disk.rootfs
          /\ area'.memory = area.memory
      BY <1>3, <1>15 DEF RenameState, Disks, Areas
    <2>3. Described'
      BY <2>1 DEF Described, NoInstall
    <2>4. Achieved(b)'
      BY <1>3, <2>1, <2>2 DEF Achieved
    <2>. QED
      BY <1>2, <2>1, <2>2, <2>3, <2>4, BusyStep
  <1>16. ASSUME NEW b \in Builders, RenameMemory(b) PROVE Undisturbed'
    <2>1. Moved(b, "memory", "clean") /\ manifest' = manifest
      BY <1>1, <1>16 DEF RenameMemory
    <2>2. /\ disk'.memory = area.memory /\ disk'.rootfs = disk.rootfs
          /\ disk'.state = disk.state
      BY <1>3, <1>16 DEF RenameMemory, Disks
    <2>3. Described'
      BY <2>1 DEF Described, NoInstall
    <2>4. Achieved(b)'
      BY <1>3, <2>1, <2>2 DEF Achieved, PairOf
    <2>. QED
      BY <1>2, <2>1, <2>2, <2>3, <2>4, BusyStep
  <1>17. ASSUME NEW b \in Builders, CleanArea(b) PROVE Undisturbed'
    <2>1. Moved(b, "clean", "manifest") /\ UNCHANGED <<disk, manifest>>
      BY <1>1, <1>17 DEF CleanArea
    <2>2. Described'
      BY <2>1 DEF Described, NoInstall
    <2>3. Achieved(b)'
      BY <1>3, <2>1 DEF Achieved, PairOf
    <2>. QED
      BY <1>2, <2>1, <2>2, <2>3, BusyStep
  <1>18. ASSUME NEW b \in Builders, WriteManifest(b) PROVE Undisturbed'
    <2>1. /\ Moved(b, "manifest", "done") /\ UNCHANGED disk
          /\ manifest' = build[b].wanted
      BY <1>1, <1>18 DEF WriteManifest
    <2>2. PairOf(build[b].wanted)
      BY <1>3, <2>1 DEF Achieved
    <2>3. Described'
      BY <2>1, <2>2 DEF Described, PairOf
    <2>4. Achieved(b)'
      BY <2>1 DEF Achieved
    <2>. QED
      BY <1>2, <2>1, <2>3, <2>4, BusyStep
  <1>19. ASSUME NEW b \in Builders, StepFails(b) PROVE Undisturbed'
    <2>1. build[b].at \notin Installing /\ UNCHANGED <<disk, manifest, area, vm>>
      BY <1>19 DEF StepFails
    <2>2. \/ \E from \in Capturing : Moved(b, from, "abort")
          \/ Moved(b, build[b].at, "failed")
      BY <1>1, <1>19 DEF StepFails
    <2>. QED
      BY <1>2, <2>1, <2>2, StoppedStep
  <1>20. ASSUME NEW b \in Builders, Die(b) PROVE Undisturbed'
    <2>1. /\ build[b].at \notin Installing
          /\ Moved(b, build[b].at, "dead")
          /\ UNCHANGED <<disk, area, vm>>
      BY <1>1, <1>20 DEF Die
    <2>2. manifest' = manifest
      BY <1>20, <2>1 DEF Die
    <2>. QED
      BY <1>2, <2>1, <2>2, StoppedStep
  <1>21. CASE TemplateStep
    <2>1. PICK v : Rootfs(v)
      BY <1>21 DEF TemplateStep, DeleteRootfs, TemplateBegins, TemplateDone
    <2>2. /\ \A b \in Builders : build[b].at \notin Copying
          /\ disk'.state = disk.state /\ disk'.memory = disk.memory
          /\ UNCHANGED <<manifest, area, vm, build>>
      BY <1>3, <2>1 DEF Rootfs, Disks
    <2>3. \A b \in Builders : Achieved(b)'
      BY <1>3, <2>2 DEF Achieved, PairOf
    <2>4. OneBusy' /\ Described'
      BY <1>3, <2>2 DEF OneBusy, Described, NoInstall, PairOf
    <2>. QED
      BY <2>3, <2>4 DEF Undisturbed
  <1>22. CASE UNCHANGED builderVars
    BY <1>22 DEF builderVars, buildVars, Undisturbed, OneBusy, Achieved, Described, NoInstall,
       PairOf
  <1>. QED
    BY <1>4, <1>5, <1>6, <1>7, <1>8, <1>9, <1>10, <1>11, <1>12, <1>13, <1>14, <1>15, <1>16,
       <1>17, <1>18, <1>19, <1>20, <1>21, <1>22 DEF Next, BuildStep

-------------------------------------------------------------------------------
\* The theorems

LEMMA InitInv == Init => Inv
  <1>. SUFFICES ASSUME Init PROVE Inv
    OBVIOUS
  <1>1. Typed
    BY DEF Init, InitBuild, Typed, Booted, Disks, Areas, NoArea, Guests, Places, Builds
  <1>2. OrphanOnlyByDeath
    BY DEF Init, InitBuild, OrphanOnlyByDeath, Alive
  <1>3. Undisturbed
    BY DEF Init, InitBuild, Undisturbed, OneBusy, Described, Achieved, Busy, Working,
       Preparing, Capturing, Installing, Copying
  <1>. QED
    BY <1>1, <1>2, <1>3 DEF Inv

LEMMA InvStep == Inv /\ [Next]_builderVars => Inv'
  BY TypedStep, OrphanStep, UndisturbedStep DEF Inv

LEMMA InvHolds == Spec => []Inv
  BY InitInv, InvStep, PTL DEF Spec

\* However builds overlap and fail, a VM outlives its build's finally block
\* only if the build was killed.
THEOREM OnlyDeathOrphans == Spec => [](OrphanOnlyByDeath)
  <1>1. Inv => OrphanOnlyByDeath
    BY DEF Inv
  <1>. QED
    BY InvHolds, <1>1, PTL

\* A manifest describes the snapshot beside it, unless an install was cut or
\* shared or its inputs changed between their hash and their copy.
THEOREM ManifestDescribes == Spec => [](ManifestSound)
  <1>1. Inv => ManifestSound
    BY DEF Inv, Undisturbed, Described, NoInstall, ManifestSound
  <1>. QED
    BY InvHolds, <1>1, PTL

\* The rebuilds and the deaths that are counted stay within their bounds, and
\* the history flag is one.
Counted == changes \in 0 .. MaxChanges /\ deaths \in 0 .. MaxDeaths
Flagged == spoiled \in BOOLEAN

LEMMA CountedStep == Counted /\ [Next]_builderVars => Counted'
  <1>. SUFFICES ASSUME Counted, [Next]_builderVars PROVE Counted'
    OBVIOUS
  <1>. USE BoundsAssumption
  <1>1. ASSUME NEW b \in Builders, BuildBegins(b) \/ BuildStep(b) PROVE Counted'
    BY <1>1
    DEF Counted, BuildBegins, BuildStep, ReadManifest, Clear, Mkdir, StageRootfs, Spawn,
        SocketUp, Boot, AgentReady, Pause, Capture, KillVms, RenameState, RenameMemory,
        CleanArea, WriteManifest, StepFails
  <1>2. ASSUME NEW b \in Builders, Die(b) PROVE Counted'
    BY <1>2 DEF Counted, Die
  <1>3. CASE TemplateStep
    BY <1>3 DEF Counted, TemplateStep, DeleteRootfs, TemplateBegins, TemplateDone, Rootfs
  <1>4. CASE UNCHANGED builderVars
    BY <1>4 DEF Counted, builderVars, buildVars
  <1>. QED
    BY <1>1, <1>2, <1>3, <1>4 DEF Next

LEMMA FlaggedStep == Flagged /\ [Next]_builderVars => Flagged'
  BY DEF Flagged, Next, BuildBegins, BuildStep, ReadManifest, Clear, Mkdir, StageRootfs,
      Spawn, SocketUp, Boot, AgentReady, Pause, Capture, KillVms, RenameState,
      RenameMemory, CleanArea, WriteManifest, StepFails, Die, TemplateStep, DeleteRootfs,
      TemplateBegins, TemplateDone, Rootfs, builderVars, buildVars

\* Every variable keeps its type; a snapshot on the disk is always one that
\* was taken of a VM that had booted a rootfs.
THEOREM TypeCorrect == Spec => []TypeOK
  <1>1. Init => Counted
    BY BoundsAssumption DEF Init, InitBuild, Counted
  <1>2. Init => Flagged
    BY DEF Init, InitBuild, Flagged
  <1>3. Inv /\ Counted /\ Flagged => TypeOK
    BY DEF Inv, Typed, Disks, Areas, Guests, Builds, Places, Counted, Flagged, TypeOK
  <1>. QED
    BY InvHolds, CountedStep, FlaggedStep, <1>1, <1>2, <1>3, PTL DEF Spec

-------------------------------------------------------------------------------
\* A build has no loop: an upper bound on the awaits still before it.
Ahead == [place \in Places |->
    CASE place = "hashed" -> 15
      [] place = "clear" -> 14
      [] place = "mkdir" -> 13
      [] place = "stage" -> 12
      [] place = "spawn" -> 11
      [] place = "socket" -> 10
      [] place = "boot" -> 9
      [] place = "agent" -> 8
      [] place = "pause" -> 7
      [] place = "capture" -> 6
      [] place = "kill" -> 5
      [] place = "state" -> 4
      [] place = "memory" -> 3
      [] place = "clean" -> 2
      [] place \in {"manifest", "abort"} -> 1
      [] OTHER -> 0]

LEMMA AheadValues ==
    /\ Ahead["hashed"] = 15 /\ Ahead["clear"] = 14 /\ Ahead["mkdir"] = 13
    /\ Ahead["stage"] = 12 /\ Ahead["spawn"] = 11 /\ Ahead["socket"] = 10
    /\ Ahead["boot"] = 9 /\ Ahead["agent"] = 8 /\ Ahead["pause"] = 7
    /\ Ahead["capture"] = 6 /\ Ahead["kill"] = 5 /\ Ahead["state"] = 4
    /\ Ahead["memory"] = 3 /\ Ahead["clean"] = 2 /\ Ahead["manifest"] = 1
    /\ Ahead["abort"] = 1
    /\ Ahead["done"] = 0 /\ Ahead["failed"] = 0 /\ Ahead["dead"] = 0
  BY DEF Ahead, Places, Working, Preparing, Capturing, Installing, Finished

\* Whoever takes a step, a build under way that moves has fewer awaits before it.
BuildsShorten ==
    [][\A b \in Builders : build[b].at \in Working /\ build'[b] # build[b] =>
           /\ Ahead[build'[b].at] \in Nat
           /\ Ahead[build'[b].at] < Ahead[build[b].at]]_builderVars

\* A builder that moves forward, and no other.
LEMMA ForwardShortens ==
    ASSUME Typed, NEW b \in Builders, NEW from, NEW to, Moves(b, from, to),
           Ahead[to] \in Nat, Ahead[to] < Ahead[from]
    PROVE  \A c \in Builders : build'[c] # build[c] =>
               Ahead[build'[c].at] \in Nat /\ Ahead[build'[c].at] < Ahead[build[c].at]
  <1>1. /\ build'[b].at = to /\ build[b].at = from
        /\ \A c \in Builders : c # b => build'[c] = build[c]
    BY DEF Typed, Builds, Moves
  <1>. QED
    BY <1>1

\* Every build comes nearer to its end with each of its steps, whatever the other
\* builders of its area do: no failure sends it back to an earlier one.
THEOREM BuildsComeToAnEnd == Spec => BuildsShorten
  <1>. USE AheadValues
  <1>1. Typed /\ [Next]_builderVars =>
            [\A b \in Builders : build[b].at \in Working /\ build'[b] # build[b] =>
                /\ Ahead[build'[b].at] \in Nat
                /\ Ahead[build'[b].at] < Ahead[build[b].at]]_builderVars
    <2>. SUFFICES ASSUME Typed, [Next]_builderVars, NEW b \in Builders,
                         build[b].at \in Working, build'[b] # build[b]
                  PROVE  Ahead[build'[b].at] \in Nat /\ Ahead[build'[b].at] < Ahead[build[b].at]
      OBVIOUS
    <2>1. ASSUME NEW c \in Builders, BuildBegins(c) PROVE FALSE
      <3>1. build[c].at = "idle" /\ \A d \in Builders : d # c => build'[d] = build[d]
        BY <2>1 DEF BuildBegins, Typed
      <3>. QED
        BY <3>1 DEF Working, Preparing, Capturing, Installing
    <2>2. ASSUME NEW c \in Builders, BuildStep(c)
          PROVE  Ahead[build'[b].at] \in Nat /\ Ahead[build'[b].at] < Ahead[build[b].at]
      <3>1. CASE ReadManifest(c)
        BY <3>1, ForwardShortens DEF ReadManifest
      <3>2. CASE Clear(c) \/ Mkdir(c) \/ StageRootfs(c) \/ Spawn(c) \/ SocketUp(c) \/ Boot(c)
        BY <3>2, ForwardShortens DEF Clear, Mkdir, StageRootfs, Spawn, SocketUp, Boot
      <3>3. CASE AgentReady(c) \/ Pause(c) \/ Capture(c) \/ KillVms(c)
        BY <3>3, ForwardShortens DEF AgentReady, Pause, Capture, KillVms
      <3>4. CASE RenameState(c) \/ RenameMemory(c) \/ CleanArea(c) \/ WriteManifest(c)
        BY <3>4, ForwardShortens DEF RenameState, RenameMemory, CleanArea, WriteManifest
      <3>5. CASE StepFails(c)
        BY <3>5, ForwardShortens DEF StepFails, Preparing, Capturing, Installing
      <3>. QED
        BY <2>2, <3>1, <3>2, <3>3, <3>4, <3>5 DEF BuildStep
    <2>3. ASSUME NEW c \in Builders, Die(c)
          PROVE  Ahead[build'[b].at] \in Nat /\ Ahead[build'[b].at] < Ahead[build[b].at]
      BY <2>3, ForwardShortens DEF Die, Working, Preparing, Capturing, Installing
    <2>. QED
      BY <2>1, <2>2, <2>3 DEF Next, builderVars, buildVars, TemplateStep, DeleteRootfs,
         TemplateBegins, TemplateDone, Rootfs
  <1>. QED
    BY <1>1, InvHolds, PTL DEF Inv, Spec, BuildsShorten
===============================================================================
