-------------------------- MODULE ProcessBackendProofs --------------------------
(***************************************************************************)
(* Theorems about ProcessBackend, for any number of sandboxes and of       *)
(* executes in any overlap with each other and with the destroys.          *)
(***************************************************************************)
EXTENDS ProcessBackend, TLAPS

CallAt == {"idle", "open", "write", "spawn", "running", "resolved", "rejected"}
CallRecords == [at : CallAt, box : Sandboxes \cup {None}, linked : BOOLEAN,
                timedOut : BOOLEAN]
ChildRecords == [at : {"none", "starting", "running", "exited", "closed"},
                 saw : Contents, termed : BOOLEAN, late : BOOLEAN, held : BOOLEAN]
DestroyAt == {"none", "files", "rmdir", "done", "failed"}

\* An execute that is under way belongs to a sandbox, and no child runs before
\* the spawn.
Placed(c) ==
    /\ call[c].at # "idle" => call[c].box \in Sandboxes
    /\ call[c].at \in {"idle", "open", "write", "spawn"} => child[c].at = "none"
    /\ call[c].linked => call[c].at = "write"
    /\ child[c].at \in {"none", "starting"} => child[c].saw = None

\* What job.js holds is the work of c, unless c was disturbed.
Own(c) ==
    c \notin disturbed =>
        /\ call[c].at = "write" => file[call[c].box] = Empty /\ call[c].linked
        /\ call[c].at = "spawn" \/ child[c].at = "starting" => file[call[c].box] = c
        /\ child[c].at = "running" \/ child[c].saw # None => child[c].saw = c

\* A file is in a directory, and an execute writes to it only while it is there.
Kept(s) ==
    /\ file[s] # None => dir[s]
    /\ \A c \in Calls : call[c].box = s /\ call[c].linked => file[s] # None
    /\ s \in sandboxes => destroy[s] = "none"
    /\ destroy[s] = "done" => ~dir[s] /\ file[s] = None

Inv ==
    /\ TypeOK
    /\ \A c \in Calls : Placed(c)
    /\ \A c \in Calls : Own(c)
    /\ \A s \in Sandboxes : Kept(s)

-------------------------------------------------------------------------------
LEMMA InitInv == Init => Inv
  BY MarksAssumption DEF Init, Inv, TypeOK, Contents, NoChild, Placed, Own, Kept

\* Steps of a child that touch nothing but itself.
LEMMA ChildStep ==
    ASSUME Inv, NEW c \in Calls, ReadJob(c) \/ Exit(c) \/ Sigterm(c) \/ Sigkill(c)
    PROVE  Inv'
  <1>1. /\ UNCHANGED <<sandboxes, dir, file, call, destroy, disturbed>>
        /\ child[c].at # "none" /\ child[c] \in ChildRecords
        /\ \A d \in Calls : d # c => child'[d] = child[d]
    BY DEF Inv, TypeOK, ReadJob, Exit, Sigterm, Sigkill, OnlyChild, ChildRecords
  <1>2. /\ child' \in [Calls -> ChildRecords]
        /\ \/ /\ child[c].at = "starting" /\ child'[c].at = "running"
              /\ child'[c].saw = file[call[c].box]
           \/ child'[c].at = "exited" /\ child'[c].saw = child[c].saw
           \/ child'[c].at = child[c].at /\ child'[c].saw = child[c].saw
    <2>1. CASE ReadJob(c)
      <3>1. call[c].box \in Sandboxes
        BY <1>1 DEF Inv, TypeOK, Placed
      <3>. QED
        BY <1>1, <2>1, <3>1 DEF Inv, TypeOK, ReadJob, ChildRecords, Box
    <2>2. CASE Exit(c)
      BY <1>1, <2>2 DEF Inv, TypeOK, Exit, ChildRecords
    <2>3. CASE Sigterm(c)
      BY <1>1, <2>3 DEF Inv, TypeOK, Sigterm, ChildRecords
    <2>4. CASE Sigkill(c)
      BY <1>1, <2>4 DEF Inv, TypeOK, Sigkill, ChildRecords
    <2>. QED
      BY <2>1, <2>2, <2>3, <2>4
  <1>3. TypeOK'
    BY <1>1, <1>2 DEF Inv, TypeOK, ChildRecords
  <1>4. ASSUME NEW d \in Calls PROVE Placed(d)' /\ Own(d)'
    <2>1. Placed(d) /\ Own(d) /\ Placed(c) /\ Own(c)
      BY DEF Inv
    <2>. QED
      BY <1>1, <1>2, <2>1 DEF Placed, Own
  <1>5. \A t \in Sandboxes : Kept(t)'
    BY <1>1 DEF Inv, Kept
  <1>. QED
    BY <1>3, <1>4, <1>5 DEF Inv

LEMMA CreateStep ==
    ASSUME Inv, NEW s \in Sandboxes, Create(s) PROVE Inv'
  <1>1. TypeOK'
    BY DEF Inv, TypeOK, Create
  <1>2. \A c \in Calls : Placed(c)' /\ Own(c)'
    BY DEF Inv, Create, Placed, Own
  <1>3. \A t \in Sandboxes : Kept(t)'
    BY DEF Inv, TypeOK, Create, Kept
  <1>. QED
    BY <1>1, <1>2, <1>3 DEF Inv

LEMMA ExecuteBeginsStep ==
    ASSUME Inv, NEW c \in Calls, NEW s \in Sandboxes, ExecuteBegins(c, s) PROVE Inv'
  <1>1. /\ UNCHANGED <<sandboxes, dir, file, child, destroy, disturbed>>
        /\ call[c].at = "idle" /\ call[c] \in CallRecords
        /\ \A d \in Calls : d # c => call'[d] = call[d]
    BY DEF Inv, TypeOK, ExecuteBegins, CallRecords, CallAt
  <1>2. /\ call' \in [Calls -> CallRecords]
        /\ call'[c].at = "open" /\ call'[c].box = s /\ call'[c].linked = call[c].linked
    BY <1>1 DEF Inv, TypeOK, ExecuteBegins, CallRecords, CallAt
  <1>3. TypeOK'
    BY <1>1, <1>2 DEF Inv, TypeOK, CallRecords, CallAt
  <1>4. ~call[c].linked
    BY <1>1 DEF Inv, Placed
  <1>5. ASSUME NEW d \in Calls PROVE Placed(d)' /\ Own(d)'
    <2>1. Placed(d) /\ Own(d) /\ Placed(c) /\ Own(c)
      BY DEF Inv
    <2>. QED
      BY <1>1, <1>2, <1>4, <2>1 DEF Placed, Own
  <1>6. \A t \in Sandboxes : Kept(t)'
    BY <1>1, <1>2, <1>4 DEF Inv, Kept
  <1>. QED
    BY <1>3, <1>5, <1>6 DEF Inv

LEMMA OpenJobStep ==
    ASSUME Inv, NEW c \in Calls, OpenJob(c) PROVE Inv'
  <1>. DEFINE s == call[c].box
  <1>1. /\ UNCHANGED <<sandboxes, dir, child, destroy>>
        /\ call[c].at = "open" /\ call[c] \in CallRecords /\ s \in Sandboxes
        /\ child[c].at = "none" /\ child[c].saw = None /\ ~call[c].linked
        /\ \A d \in Calls : d # c => call'[d] = call[d]
    BY DEF Inv, TypeOK, OpenJob, CallRecords, CallAt, Placed
  <1>2. /\ call' \in [Calls -> CallRecords] /\ call'[c].box = s
        /\ \/ /\ dir[s] /\ call'[c].at = "write" /\ call'[c].linked
              /\ file' = [file EXCEPT ![s] = Empty]
              /\ disturbed' = disturbed \cup AtStake(s)
           \/ /\ call'[c].at = "rejected" /\ call'[c].linked = call[c].linked
              /\ UNCHANGED <<file, disturbed>>
    BY <1>1 DEF Inv, TypeOK, OpenJob, CallRecords, CallAt, Box
  <1>3. TypeOK'
    BY <1>1, <1>2 DEF Inv, TypeOK, CallRecords, CallAt, Contents, AtStake
  <1>4. ASSUME NEW d \in Calls PROVE Placed(d)' /\ Own(d)'
    <2>1. Placed(d) /\ Own(d) /\ Placed(c) /\ Own(c) /\ file \in [Sandboxes -> Contents]
      BY DEF Inv, TypeOK
    <2>2. Placed(d)'
      BY <1>1, <1>2, <2>1 DEF Placed
    <2>3. CASE d = c
      BY <1>1, <1>2, <2>1, <2>2, <2>3 DEF Own
    <2>4. CASE d # c
      BY <1>1, <1>2, <2>1, <2>2, <2>4 DEF Own, AtStake, Placed
    <2>. QED
      BY <2>2, <2>3, <2>4
  <1>5. ASSUME NEW t \in Sandboxes PROVE Kept(t)'
    <2>1. Kept(t) /\ file \in [Sandboxes -> Contents] /\ s \in Sandboxes
      BY <1>1 DEF Inv, TypeOK
    <2>2. Empty # None
      BY MarksAssumption
    <2>. QED
      BY <1>1, <1>2, <2>1, <2>2 DEF Kept
  <1>. QED
    BY <1>3, <1>4, <1>5 DEF Inv

LEMMA WriteJobStep ==
    ASSUME Inv, NEW c \in Calls, WriteJob(c) PROVE Inv'
  <1>. DEFINE s == call[c].box
  <1>1. /\ UNCHANGED <<sandboxes, dir, child, destroy>>
        /\ call[c].at = "write" /\ call[c] \in CallRecords /\ s \in Sandboxes
        /\ child[c].at = "none" /\ child[c].saw = None
        /\ disturbed' = disturbed \cup (AtStake(s) \ {c})
        /\ \A d \in Calls : d # c => call'[d] = call[d]
    BY DEF Inv, TypeOK, WriteJob, CallRecords, CallAt, Placed
  <1>2. /\ call' \in [Calls -> CallRecords] /\ call'[c].box = s
        /\ call'[c].at = "spawn" /\ ~call'[c].linked
    BY <1>1 DEF Inv, TypeOK, WriteJob, CallRecords, CallAt
  <1>3. PICK content \in {c, Mixed} :
           /\ file[s] = Empty => content = c
           /\ file' = IF call[c].linked THEN [file EXCEPT ![s] = content] ELSE file
    BY <1>1 DEF WriteJob, Box
  <1>4. TypeOK'
    BY <1>1, <1>2, <1>3 DEF Inv, TypeOK, CallRecords, CallAt, Contents, AtStake
  <1>5. ASSUME NEW d \in Calls PROVE Placed(d)' /\ Own(d)'
    <2>1. Placed(d) /\ Own(d) /\ Placed(c) /\ Own(c) /\ file \in [Sandboxes -> Contents]
      BY DEF Inv, TypeOK
    <2>2. Placed(d)'
      BY <1>1, <1>2, <2>1 DEF Placed
    <2>3. CASE d = c
      BY <1>1, <1>2, <1>3, <2>1, <2>2, <2>3 DEF Own
    <2>4. CASE d # c
      BY <1>1, <1>2, <1>3, <2>1, <2>2, <2>4 DEF Own, AtStake, Placed
    <2>. QED
      BY <2>2, <2>3, <2>4
  <1>6. ASSUME NEW t \in Sandboxes PROVE Kept(t)'
    <2>1. Kept(t) /\ Kept(s) /\ file \in [Sandboxes -> Contents] /\ s \in Sandboxes
      BY <1>1 DEF Inv, TypeOK
    <2>2. content # None
      BY <1>3, MarksAssumption
    <2>. QED
      BY <1>1, <1>2, <1>3, <2>1, <2>2 DEF Kept
  <1>. QED
    BY <1>4, <1>5, <1>6 DEF Inv

LEMMA SpawnChildStep ==
    ASSUME Inv, NEW c \in Calls, SpawnChild(c) PROVE Inv'
  <1>1. /\ UNCHANGED <<sandboxes, dir, file, destroy, disturbed>>
        /\ call[c].at = "spawn" /\ call[c] \in CallRecords
        /\ child[c] \in ChildRecords /\ child[c].at = "none" /\ child[c].saw = None
        /\ \A d \in Calls : d # c => call'[d] = call[d] /\ child'[d] = child[d]
    BY DEF Inv, TypeOK, SpawnChild, CallRecords, CallAt, ChildRecords, Placed
  <1>2. /\ call' \in [Calls -> CallRecords]
        /\ call'[c].box = call[c].box /\ call'[c].linked = call[c].linked
        /\ call'[c].at \in {"running", "resolved"}
    BY <1>1 DEF Inv, TypeOK, SpawnChild, CallRecords, CallAt
  <1>3. /\ child' \in [Calls -> ChildRecords]
        /\ child'[c].saw = None /\ child'[c].at \in {"none", "starting"}
    <2>1. CASE child' = child
      BY <1>1, <2>1 DEF Inv, TypeOK, ChildRecords
    <2>2. CASE child' # child
      <3>1. PICK held \in BOOLEAN :
                child' = [child EXCEPT ![c].at = "starting", ![c].held = held]
        BY <2>2 DEF SpawnChild
      <3>2. child' = [child EXCEPT ![c] = [child[c] EXCEPT !.at = "starting", !.held = held]]
        BY <3>1 DEF Inv, TypeOK
      <3>. DEFINE born == [child[c] EXCEPT !.at = "starting", !.held = held]
      <3>3. born \in ChildRecords /\ born.saw = None /\ born.at = "starting"
        BY <1>1 DEF ChildRecords
      <3>. QED
        BY <1>1, <3>2, <3>3 DEF Inv, TypeOK, ChildRecords
    <2>. QED
      BY <2>1, <2>2
  <1>4. TypeOK'
    BY <1>1, <1>2, <1>3 DEF Inv, TypeOK, CallRecords, CallAt, ChildRecords
  <1>5. ASSUME NEW d \in Calls PROVE Placed(d)' /\ Own(d)'
    <2>1. Placed(d) /\ Own(d) /\ Placed(c) /\ Own(c)
      BY DEF Inv
    <2>. QED
      BY <1>1, <1>2, <1>3, <2>1 DEF Placed, Own
  <1>6. \A t \in Sandboxes : Kept(t)'
    BY <1>1, <1>2 DEF Inv, Kept
  <1>. QED
    BY <1>4, <1>5, <1>6 DEF Inv

LEMMA CloseStep ==
    ASSUME Inv, NEW c \in Calls, Close(c) PROVE Inv'
  <1>1. /\ UNCHANGED <<sandboxes, dir, file, destroy, disturbed>>
        /\ call[c] \in CallRecords /\ child[c] \in ChildRecords /\ child[c].at = "exited"
        /\ call[c].at \notin {"idle", "open", "write", "spawn"} /\ ~call[c].linked
        /\ \A d \in Calls : d # c => call'[d] = call[d] /\ child'[d] = child[d]
    BY DEF Inv, TypeOK, Close, CallRecords, CallAt, ChildRecords, Placed
  <1>2. /\ call' \in [Calls -> CallRecords]
        /\ call'[c].box = call[c].box /\ call'[c].linked = call[c].linked
        /\ call'[c].at = "resolved"
    BY <1>1 DEF Inv, TypeOK, Close, CallRecords, CallAt, ChildRecords
  <1>3. /\ child' \in [Calls -> ChildRecords]
        /\ child'[c].saw = child[c].saw /\ child'[c].at = "closed"
    BY <1>1 DEF Inv, TypeOK, Close, ChildRecords
  <1>4. TypeOK'
    BY <1>1, <1>2, <1>3 DEF Inv, TypeOK, CallRecords, CallAt, ChildRecords
  <1>5. ASSUME NEW d \in Calls PROVE Placed(d)' /\ Own(d)'
    <2>1. Placed(d) /\ Own(d) /\ Placed(c) /\ Own(c)
      BY DEF Inv
    <2>. QED
      BY <1>1, <1>2, <1>3, <2>1 DEF Placed, Own
  <1>6. \A t \in Sandboxes : Kept(t)'
    BY <1>1, <1>2 DEF Inv, Kept
  <1>. QED
    BY <1>4, <1>5, <1>6 DEF Inv

LEMMA DestroyBeginsStep ==
    ASSUME Inv, NEW s \in Sandboxes, DestroyBegins(s) PROVE Inv'
  <1>1. TypeOK'
    BY DEF Inv, TypeOK, DestroyBegins
  <1>2. \A c \in Calls : Placed(c)' /\ Own(c)'
    BY DEF Inv, DestroyBegins, Placed, Own
  <1>3. \A t \in Sandboxes : Kept(t)'
    BY DEF Inv, TypeOK, DestroyBegins, Kept
  <1>. QED
    BY <1>1, <1>2, <1>3 DEF Inv

LEMMA RemoveFilesStep ==
    ASSUME Inv, NEW s \in Sandboxes, RemoveFiles(s) PROVE Inv'
  <1>1. /\ UNCHANGED <<sandboxes, dir, child>>
        /\ destroy[s] = "files" /\ destroy' = [destroy EXCEPT ![s] = "rmdir"]
        /\ file' = [file EXCEPT ![s] = None]
        /\ disturbed' = disturbed \cup AtStake(s)
    BY DEF RemoveFiles, Box
  <1>2. ASSUME NEW c \in Calls
        PROVE  /\ call'[c] \in CallRecords
               /\ call'[c].at = call[c].at /\ call'[c].box = call[c].box
               /\ call[c].box = s => ~call'[c].linked
               /\ call[c].box # s => call'[c].linked = call[c].linked
    <2>1. call[c] \in CallRecords
      BY DEF Inv, TypeOK, CallRecords, CallAt
    <2>2. call'[c] = IF call[c].box = s THEN [call[c] EXCEPT !.linked = FALSE] ELSE call[c]
      BY DEF RemoveFiles
    <2>. QED
      BY <2>1, <2>2 DEF CallRecords
  <1>3. call' \in [Calls -> CallRecords]
    BY <1>2 DEF RemoveFiles
  <1>4. TypeOK'
    BY <1>1, <1>3 DEF Inv, TypeOK, CallRecords, CallAt, Contents, AtStake
  <1>5. ASSUME NEW d \in Calls PROVE Placed(d)' /\ Own(d)'
    <2>1. Placed(d) /\ Own(d) /\ file \in [Sandboxes -> Contents] /\ call[d] \in CallRecords
      BY DEF Inv, TypeOK, CallRecords, CallAt
    <2>2. Placed(d)'
      BY <1>1, <1>2, <2>1 DEF Placed, CallRecords
    <2>3. Own(d)'
      BY <1>1, <1>2, <2>1 DEF Own, AtStake, Placed
    <2>. QED
      BY <2>2, <2>3
  <1>6. ASSUME NEW t \in Sandboxes PROVE Kept(t)'
    <2>1. /\ Kept(t) /\ file \in [Sandboxes -> Contents]
          /\ destroy \in [Sandboxes -> DestroyAt]
      BY DEF Inv, TypeOK, DestroyAt
    <2>. QED
      BY <1>1, <1>2, <2>1 DEF Kept
  <1>. QED
    BY <1>4, <1>5, <1>6 DEF Inv

LEMMA RemoveDirStep ==
    ASSUME Inv, NEW s \in Sandboxes, RemoveDir(s) PROVE Inv'
  <1>1. TypeOK'
    BY DEF Inv, TypeOK, RemoveDir
  <1>2. \A c \in Calls : Placed(c)' /\ Own(c)'
    BY DEF Inv, RemoveDir, Placed, Own
  <1>3. ASSUME NEW t \in Sandboxes PROVE Kept(t)'
    <2>1. Kept(t) /\ Kept(s) /\ TypeOK
      BY DEF Inv
    <2>. QED
      BY <2>1 DEF TypeOK, RemoveDir, Kept, Box
  <1>. QED
    BY <1>1, <1>2, <1>3 DEF Inv

LEMMA InvHolds == Spec => []Inv
  <1>1. Inv /\ [Next]_vars => Inv'
    <2>. SUFFICES ASSUME Inv, [Next]_vars PROVE Inv'
      OBVIOUS
    <2>1. CASE UNCHANGED vars
      BY <2>1 DEF vars, Inv, TypeOK, Placed, Own, Kept
    <2>2. CASE Next
      BY <2>2, ChildStep, CreateStep, ExecuteBeginsStep, OpenJobStep, WriteJobStep,
         SpawnChildStep, CloseStep, DestroyBeginsStep, RemoveFilesStep, RemoveDirStep
      DEF Next, Step
    <2>. QED
      BY <2>1, <2>2
  <1>. QED
    BY InitInv, <1>1, PTL DEF Spec

-------------------------------------------------------------------------------
\* The theorems

\* An undisturbed execute runs its own code, and nothing else.
THEOREM OwnCodeRuns == Spec => [](RunsItsCode)
  <1>1. Inv => RunsItsCode
    BY DEF Inv, Own, RunsItsCode
  <1>. QED
    BY InvHolds, <1>1, PTL

\* No execute in flight brings back what destroy has removed.
THEOREM RemovedStays == Spec => [](DestroyedStaysRemoved)
  <1>1. Inv => DestroyedStaysRemoved
    BY DEF Inv, Kept, DestroyedStaysRemoved
  <1>. QED
    BY InvHolds, <1>1, PTL

\* Every variable keeps its type.
THEOREM TypeCorrect == Spec => []TypeOK
  <1>1. Inv => TypeOK
    BY DEF Inv
  <1>. QED
    BY InvHolds, <1>1, PTL

-------------------------------------------------------------------------------
\* An execute settles once, and does not go round in a circle

\* A child lives exactly while its execute waits for it.
Paired == \A c \in Calls :
    /\ child[c].at \in {"starting", "running", "exited"} <=> call[c].at = "running"
    /\ child[c].at = "none" => ~child[c].termed /\ ~child[c].late

\* The steps still before an execute: its own, then those of its child, whose
\* two timers fire once each.
CallSteps == [at \in {"idle", "open", "write", "spawn", "running", "resolved", "rejected"} |->
    CASE at = "open" -> 14
      [] at = "write" -> 13
      [] at = "spawn" -> 12
      [] OTHER -> 0]

ChildSteps == [at \in {"none", "starting", "running", "exited", "closed"} |->
    CASE at = "starting" -> 7
      [] at = "running" -> 5
      [] at = "exited" -> 3
      [] OTHER -> 0]

LEMMA StepValues ==
    /\ CallSteps["open"] = 14 /\ CallSteps["write"] = 13 /\ CallSteps["spawn"] = 12
    /\ CallSteps["running"] = 0 /\ CallSteps["resolved"] = 0 /\ CallSteps["rejected"] = 0
    /\ ChildSteps["none"] = 0 /\ ChildSteps["starting"] = 7 /\ ChildSteps["running"] = 5
    /\ ChildSteps["exited"] = 3 /\ ChildSteps["closed"] = 0
  BY DEF CallSteps, ChildSteps

StepsLeft == [c \in Calls |->
    CallSteps[call[c].at] + ChildSteps[child[c].at]
        - (IF child[c].termed THEN 1 ELSE 0) - (IF child[c].late THEN 1 ELSE 0)]

UnderWay == {c \in Calls : call[c].at \in {"open", "write", "spawn", "running"}}
Settled == {c \in Calls : call[c].at \in {"resolved", "rejected"}}

\* What one step may do to the executes.
Moved ==
    /\ \A c \in UnderWay :
           call'[c].at # call[c].at \/ child'[c] # child[c] =>
               StepsLeft'[c] \in Nat /\ StepsLeft'[c] < StepsLeft[c]
    /\ \A c \in Settled :
           call'[c].at = call[c].at /\ call'[c].timedOut = call[c].timedOut
               /\ child'[c] = child[c]

\* Whoever takes a step, an execute under way that moves has fewer steps before it.
ExecutesShorten ==
    [][\A c \in UnderWay :
           call'[c].at # call[c].at \/ child'[c] # child[c] =>
               StepsLeft'[c] \in Nat /\ StepsLeft'[c] < StepsLeft[c]]_vars

\* What an execute has answered, and its child, change no more: no timer, error or
\* late event settles it again.
AnswersAreFinal ==
    [][\A c \in Settled :
           call'[c].at = call[c].at /\ call'[c].timedOut = call[c].timedOut
               /\ child'[c] = child[c]]_vars

\* One execute moves as the code lets it, and the others stay.
LEMMA OneMoves ==
    ASSUME Paired, NEW c \in Calls,
           \A d \in Calls \ {c} : child'[d] = child[d] /\ call'[d] = call[d],
           c \notin Settled,
           child'[c].at \in {"starting", "running", "exited"} <=> call'[c].at = "running",
           child'[c].at = "none" => ~child'[c].termed /\ ~child'[c].late,
           c \in UnderWay => StepsLeft'[c] \in Nat /\ StepsLeft'[c] < StepsLeft[c]
    PROVE  Paired' /\ Moved
  BY DEF Paired, Moved, Settled, UnderWay

\* Without a child only the steps of the execute itself are left.
LEMMA ChildlessSteps ==
    ASSUME NEW c \in Calls, child[c].at = "none", ~child[c].termed, ~child[c].late,
           CallSteps[call[c].at] \in Nat
    PROVE  StepsLeft[c] = CallSteps[call[c].at]
  BY StepValues DEF StepsLeft

LEMMA BeginsMoves ==
    ASSUME Inv, Paired, NEW c \in Calls, NEW s \in Sandboxes, ExecuteBegins(c, s)
    PROVE  Paired' /\ Moved
  <1>1. /\ UNCHANGED child /\ call[c].at = "idle" /\ call'[c].at = "open"
        /\ \A d \in Calls \ {c} : call'[d] = call[d]
    BY DEF Inv, TypeOK, ExecuteBegins
  <1>2. c \notin Settled /\ c \notin UnderWay
    BY <1>1 DEF Settled, UnderWay
  <1>3. child[c].at = "none" /\ ~child[c].termed /\ ~child[c].late
    BY <1>1 DEF Inv, Placed, Paired
  <1>. QED
    BY <1>1, <1>2, <1>3, OneMoves

\* The job file, and the spawn that may fail.
LEMMA CallMoves ==
    ASSUME Inv, Paired, NEW c \in Calls, OpenJob(c) \/ WriteJob(c) \/ SpawnChild(c)
    PROVE  Paired' /\ Moved
  <1>. USE StepValues
  <1>1. /\ call[c].at \in {"open", "write", "spawn"}
        /\ \A d \in Calls \ {c} : child'[d] = child[d] /\ call'[d] = call[d]
    BY DEF Inv, TypeOK, OpenJob, WriteJob, SpawnChild
  <1>2. c \notin Settled
    BY <1>1 DEF Settled
  <1>3. child[c].at = "none" /\ ~child[c].termed /\ ~child[c].late
    BY <1>1 DEF Inv, Placed, Paired
  <1>4. StepsLeft[c] = CallSteps[call[c].at]
    BY <1>1, <1>3, ChildlessSteps
  <1>5. CASE /\ child'[c] = child[c]
             /\ \/ call[c].at = "open" /\ call'[c].at \in {"write", "rejected"}
                \/ call[c].at = "write" /\ call'[c].at = "spawn"
                \/ call[c].at = "spawn" /\ call'[c].at = "resolved"
    <2>1. StepsLeft'[c] = CallSteps[call'[c].at]
      BY <1>3, <1>5 DEF StepsLeft
    <2>2. CallSteps[call'[c].at] \in Nat /\ CallSteps[call'[c].at] < CallSteps[call[c].at]
      BY <1>5
    <2>. QED
      BY <1>1, <1>2, <1>3, <1>4, <1>5, <2>1, <2>2, OneMoves
  <1>6. CASE /\ call[c].at = "spawn" /\ call'[c].at = "running"
             /\ child'[c].at = "starting" /\ ~child'[c].termed /\ ~child'[c].late
    <2>1. StepsLeft'[c] = 7
      BY <1>6 DEF StepsLeft
    <2>. QED
      BY <1>1, <1>2, <1>4, <1>6, <2>1, OneMoves
  <1>7. CASE OpenJob(c) \/ WriteJob(c)
    BY <1>5, <1>7 DEF Inv, TypeOK, OpenJob, WriteJob
  <1>8. CASE SpawnChild(c)
    BY <1>3, <1>5, <1>6, <1>8 DEF Inv, TypeOK, SpawnChild
  <1>. QED
    BY <1>7, <1>8

\* The child's life, and the two timers.
LEMMA ChildMoves ==
    ASSUME Inv, Paired, NEW c \in Calls,
           ReadJob(c) \/ Exit(c) \/ Sigterm(c) \/ Sigkill(c) \/ Close(c)
    PROVE  Paired' /\ Moved
  <1>. USE StepValues
  <1>1. /\ child[c].at \in {"starting", "running", "exited"}
        /\ \A d \in Calls \ {c} : child'[d] = child[d] /\ call'[d] = call[d]
    BY DEF Inv, TypeOK, ReadJob, Exit, Sigterm, Sigkill, Close, OnlyChild
  <1>2. call[c].at = "running" /\ c \notin Settled
    BY <1>1 DEF Paired, Settled
  <1>. DEFINE termed == IF child[c].termed THEN 1 ELSE 0
              late == IF child[c].late THEN 1 ELSE 0
  <1>3. StepsLeft[c] = ChildSteps[child[c].at] - termed - late
        /\ termed \in {0, 1} /\ late \in {0, 1}
    BY <1>1, <1>2 DEF StepsLeft
  <1>4. CASE ReadJob(c) \/ Exit(c)
    <2>1. /\ call'[c].at = "running"
          /\ \/ child[c].at = "starting" /\ child'[c].at \in {"running", "exited"}
             \/ child[c].at = "running" /\ child'[c].at = "exited"
          /\ child'[c].termed = child[c].termed /\ child'[c].late = child[c].late
      <3>1. CASE ReadJob(c)
        BY <1>2, <3>1 DEF Inv, TypeOK, ReadJob, OnlyChild
      <3>2. CASE Exit(c)
        BY <1>2, <3>2 DEF Inv, TypeOK, Exit, OnlyChild
      <3>. QED
        BY <1>4, <3>1, <3>2
    <2>2. StepsLeft'[c] = ChildSteps[child'[c].at] - termed - late
      BY <2>1 DEF StepsLeft
    <2>3. StepsLeft'[c] \in Nat /\ StepsLeft'[c] < StepsLeft[c]
      BY <1>3, <2>1, <2>2
    <2>. QED
      BY <1>1, <1>2, <2>1, <2>3, OneMoves
  <1>5. CASE Sigterm(c)
    <2>1. /\ call'[c].at = "running" /\ child'[c].at = child[c].at
          /\ ~child[c].termed /\ child'[c].termed /\ child'[c].late = child[c].late
      BY <1>2, <1>5 DEF Inv, TypeOK, Sigterm, OnlyChild
    <2>2. StepsLeft'[c] = ChildSteps[child[c].at] - 1 - late
      BY <1>1, <2>1 DEF StepsLeft
    <2>3. termed = 0
      BY <2>1
    <2>4. StepsLeft'[c] \in Nat /\ StepsLeft'[c] < StepsLeft[c]
      BY <1>1, <1>3, <2>2, <2>3
    <2>. QED
      BY <1>1, <1>2, <2>1, <2>4, OneMoves
  <1>6. CASE Sigkill(c)
    <2>1. /\ call'[c].at = "running" /\ child'[c].at = "exited"
          /\ ~child[c].late /\ child'[c].late /\ child'[c].termed = child[c].termed
      BY <1>2, <1>6 DEF Inv, TypeOK, Sigkill, OnlyChild
    <2>2. StepsLeft'[c] = 3 - termed - 1
      BY <2>1 DEF StepsLeft
    <2>3. late = 0
      BY <2>1
    <2>4. StepsLeft'[c] \in Nat /\ StepsLeft'[c] < StepsLeft[c]
      BY <1>1, <1>3, <2>2, <2>3
    <2>. QED
      BY <1>1, <1>2, <2>1, <2>4, OneMoves
  <1>7. CASE Close(c)
    <2>1. /\ call'[c].at = "resolved" /\ child[c].at = "exited" /\ child'[c].at = "closed"
          /\ ~child'[c].late /\ ~child'[c].termed
      BY <1>7 DEF Inv, TypeOK, Close
    <2>2. StepsLeft'[c] = 0
      BY <2>1 DEF StepsLeft
    <2>3. StepsLeft[c] > 0
      BY <1>3, <2>1
    <2>. QED
      BY <1>1, <1>2, <2>1, <2>2, <2>3, OneMoves
  <1>. QED
    BY <1>4, <1>5, <1>6, <1>7

\* Creates and destroys of sandboxes move no execute.
LEMMA BoxesMoveNothing ==
    ASSUME Inv, Paired,
           \/ UNCHANGED vars
           \/ \E s \in Sandboxes : Create(s) \/ DestroyBegins(s) \/ RemoveFiles(s) \/ RemoveDir(s)
    PROVE  Paired' /\ Moved
  <1>1. UNCHANGED child /\ \A c \in Calls : call'[c].at = call[c].at
                                /\ call'[c].timedOut = call[c].timedOut
    BY DEF vars, Inv, TypeOK, Create, DestroyBegins, RemoveFiles, RemoveDir
  <1>. QED
    BY <1>1 DEF Paired, Moved, Settled, UnderWay

LEMMA MovedStep == Inv /\ Paired /\ [Next]_vars => Paired' /\ Moved
  BY BeginsMoves, CallMoves, ChildMoves, BoxesMoveNothing DEF Next, Step

LEMMA PairedHolds == Spec => []Paired
  <1>1. Init => Paired
    BY DEF Init, NoChild, Paired
  <1>. QED
    BY <1>1, MovedStep, InvHolds, PTL DEF Spec

\* Every execute comes nearer to its answer with each of its steps, at most 14,
\* whatever executes and destroys of the same sandbox do between them.
THEOREM ExecutesComeToAnEnd == Spec => ExecutesShorten
  <1>1. Moved => \A c \in UnderWay :
            call'[c].at # call[c].at \/ child'[c] # child[c] =>
                StepsLeft'[c] \in Nat /\ StepsLeft'[c] < StepsLeft[c]
    BY DEF Moved
  <1>. QED
    BY <1>1, MovedStep, PairedHolds, InvHolds, PTL DEF Spec, ExecutesShorten

\* An execute settles once: after its answer neither timer, nor a late exit or
\* close of its child, nor a destroy changes what it has said.
THEOREM AnsweredOnce == Spec => AnswersAreFinal
  <1>1. Moved => \A c \in Settled :
            call'[c].at = call[c].at /\ call'[c].timedOut = call[c].timedOut
                /\ child'[c] = child[c]
    BY DEF Moved
  <1>. QED
    BY <1>1, MovedStep, PairedHolds, InvHolds, PTL DEF Spec, AnswersAreFinal
===============================================================================
