----------------------------- MODULE ProcessBackend -----------------------------
(***************************************************************************)
(* The development backend of src/sandbox/process-backend.ts: one          *)
(* directory per sandbox, one job.js in it for all its executes, and a     *)
(* node child that reads the file some time after it was spawned.  Two     *)
(* timers of the same length end a child: spawn's own (SIGTERM) and the    *)
(* backend's (SIGKILL); the code may ignore the first, and what it leaves  *)
(* behind may hold its pipes, which "close" waits for.                     *)
(***************************************************************************)
EXTENDS Naturals

CONSTANTS
    Sandboxes,
    Calls,       \* executes, of any sandbox, in any overlap
    None,        \* no such file, nothing read
    Empty,       \* a file just truncated
    Mixed        \* one code written over a longer one

ASSUME MarksAssumption ==
    /\ {None, Empty, Mixed} \cap (Sandboxes \cup Calls) = {}
    /\ None # Empty /\ None # Mixed /\ Empty # Mixed

VARIABLES
    sandboxes,  \* the Set `sandboxes`
    dir,        \* dir[s] : the directory of s exists
    file,       \* file[s] : whose code job.js of s holds
    call,       \* call[c] : where execute c is, for which sandbox
    child,      \* child[c] : the node process of c
    destroy,    \* destroy[s] : where the destroy of s is
    disturbed   \* history: executes whose job.js another call touched in time

vars == <<sandboxes, dir, file, call, child, destroy, disturbed>>

Contents == Calls \cup {None, Empty, Mixed}
NoChild == [at |-> "none", saw |-> None, termed |-> FALSE, late |-> FALSE, held |-> FALSE]

TypeOK ==
    /\ sandboxes \subseteq Sandboxes
    /\ dir \in [Sandboxes -> BOOLEAN]
    /\ file \in [Sandboxes -> Contents]
    /\ call \in [Calls -> [at : {"idle", "open", "write", "spawn", "running", "resolved",
                                 "rejected"},
                           box : Sandboxes \cup {None}, linked : BOOLEAN,
                           timedOut : BOOLEAN]]
    /\ child \in [Calls -> [at : {"none", "starting", "running", "exited", "closed"},
                            saw : Contents, termed : BOOLEAN, late : BOOLEAN,
                            held : BOOLEAN]]
    /\ destroy \in [Sandboxes -> {"none", "files", "rmdir", "done", "failed"}]
    /\ disturbed \subseteq Calls

Init ==
    /\ sandboxes = {}
    /\ dir = [s \in Sandboxes |-> FALSE]
    /\ file = [s \in Sandboxes |-> None]
    /\ call = [c \in Calls |-> [at |-> "idle", box |-> None, linked |-> FALSE,
                                timedOut |-> FALSE]]
    /\ child = [c \in Calls |-> NoChild]
    /\ destroy = [s \in Sandboxes |-> "none"]
    /\ disturbed = {}

\* Executes of `s` whose job.js is not yet read.
AtStake(s) ==
    {c \in Calls : call[c].box = s /\ (call[c].at \in {"write", "spawn"}
                                       \/ child[c].at = "starting")}

\* Mutant: a job.js shared by all sandboxes.
SharedBox(s) == CHOOSE t \in Sandboxes : TRUE

\* sandboxDir: the directory whose job.js `s` uses.
Box(s) == s

-------------------------------------------------------------------------------
Create(s) ==
    /\ s \notin sandboxes /\ destroy[s] = "none"
    /\ dir' = [dir EXCEPT ![s] = TRUE]
    /\ sandboxes' = sandboxes \cup {s}
    /\ UNCHANGED <<file, call, child, destroy, disturbed>>

\* The manager calls execute of a sandbox it still holds.
ExecuteBegins(c, s) ==
    /\ call[c].at = "idle"
    /\ s \in sandboxes
    /\ call' = [call EXCEPT ![c].at = "open", ![c].box = s]
    /\ UNCHANGED <<sandboxes, dir, file, child, destroy, disturbed>>

\* Mutant: the directory is made again when it is missing.
OpenJobAnew(c) ==
    LET s == Box(call[c].box) IN
    /\ call[c].at = "open"
    /\ call' = [call EXCEPT ![c].at = "write", ![c].linked = TRUE]
    /\ dir' = [dir EXCEPT ![s] = TRUE]
    /\ file' = [file EXCEPT ![s] = Empty]
    /\ UNCHANGED <<sandboxes, child, destroy, disturbed>>

\* writeFile opens with O_TRUNC, or rejects when the directory is gone.
OpenJob(c) ==
    LET s == Box(call[c].box) IN
    /\ call[c].at = "open"
    /\ IF dir[s]
       THEN /\ call' = [call EXCEPT ![c].at = "write", ![c].linked = TRUE]
            /\ file' = [file EXCEPT ![s] = Empty]
            /\ disturbed' = disturbed \cup AtStake(call[c].box)
       ELSE /\ call' = [call EXCEPT ![c].at = "rejected"]
            /\ UNCHANGED <<file, disturbed>>
    /\ UNCHANGED <<sandboxes, dir, child, destroy>>

\* The write reaches the file it opened, linked or not, at offset 0.
WriteJob(c) ==
    LET s == Box(call[c].box) IN
    /\ call[c].at = "write"
    /\ call' = [call EXCEPT ![c].at = "spawn", ![c].linked = FALSE]
    /\ \E content \in (IF file[s] = Empty THEN {c} ELSE {c, Mixed}) :
           file' = IF call[c].linked THEN [file EXCEPT ![s] = content] ELSE file
    /\ disturbed' = disturbed \cup (AtStake(call[c].box) \ {c})
    /\ UNCHANGED <<sandboxes, dir, child, destroy>>

\* spawn, which may only emit "error": then execute resolves with exit code 1.
SpawnChild(c) ==
    /\ call[c].at = "spawn"
    /\ \/ /\ call' = [call EXCEPT ![c].at = "running"]
          /\ \E held \in BOOLEAN : child' = [child EXCEPT ![c].at = "starting",
                                                         ![c].held = held]
       \/ call' = [call EXCEPT ![c].at = "resolved"] /\ UNCHANGED child
    /\ UNCHANGED <<sandboxes, dir, file, destroy, disturbed>>

\* Steps of a child that touch nothing but itself.
OnlyChild == UNCHANGED <<sandboxes, dir, file, call, destroy, disturbed>>

\* node reads job.js and runs what it finds.
ReadJob(c) ==
    /\ child[c].at = "starting"
    /\ child' = [child EXCEPT ![c].at = "running", ![c].saw = file[Box(call[c].box)]]
    /\ OnlyChild

\* The code ends, on its own or by SIGTERM.
Exit(c) ==
    /\ child[c].at = "running" \/ (child[c].at = "starting" /\ child[c].termed)
    /\ child' = [child EXCEPT ![c].at = "exited"]
    /\ OnlyChild

\* spawn's timeout option: SIGTERM, once, which the code may ignore.
Sigterm(c) ==
    /\ child[c].at \in {"starting", "running"} /\ ~child[c].termed
    /\ child' = [child EXCEPT ![c].termed = TRUE]
    /\ OnlyChild

\* Mutant: only spawn's own timeout ends a child.
SigkillNever(c) == FALSE

\* The backend's timer, set after spawn's: due from then on until "close".
Sigkill(c) ==
    /\ child[c].at \in {"starting", "running", "exited"} /\ ~child[c].late
    /\ child[c].termed \/ child[c].at = "exited"
    /\ child' = [child EXCEPT ![c].late = TRUE, ![c].at = "exited"]
    /\ OnlyChild

\* close: the child has exited and its pipes have no other holder.
Close(c) ==
    /\ child[c].at = "exited" /\ ~child[c].held
    /\ child' = [child EXCEPT ![c].at = "closed", ![c].termed = FALSE, ![c].late = FALSE]
    /\ call' = [call EXCEPT ![c].at = "resolved", ![c].timedOut = child[c].late]
    /\ UNCHANGED <<sandboxes, dir, file, destroy, disturbed>>

\* destroy leaves the Set at once; rm then unlinks the files and the directory.
DestroyBegins(s) ==
    /\ s \in sandboxes
    /\ sandboxes' = sandboxes \ {s}
    /\ destroy' = [destroy EXCEPT ![s] = "files"]
    /\ UNCHANGED <<dir, file, call, child, disturbed>>

RemoveFiles(s) ==
    /\ destroy[s] = "files"
    /\ destroy' = [destroy EXCEPT ![s] = "rmdir"]
    /\ file' = [file EXCEPT ![Box(s)] = None]
    /\ call' = [c \in Calls |-> IF call[c].box = s THEN [call[c] EXCEPT !.linked = FALSE]
                                ELSE call[c]]
    /\ disturbed' = disturbed \cup AtStake(s)
    /\ UNCHANGED <<sandboxes, dir, child>>

\* The directory is not empty when an execute in flight opened job.js again.
RemoveDir(s) ==
    /\ destroy[s] = "rmdir"
    /\ IF file[Box(s)] = None
       THEN dir' = [dir EXCEPT ![s] = FALSE] /\ destroy' = [destroy EXCEPT ![s] = "done"]
       ELSE destroy' = [destroy EXCEPT ![s] = "failed"] /\ UNCHANGED dir
    /\ UNCHANGED <<sandboxes, file, call, child, disturbed>>

Step(c) ==
    OpenJob(c) \/ WriteJob(c) \/ SpawnChild(c) \/ Sigterm(c) \/ Close(c)

Next ==
    \/ \E s \in Sandboxes :
        \/ Create(s) \/ DestroyBegins(s) \/ RemoveFiles(s) \/ RemoveDir(s)
        \/ \E c \in Calls : ExecuteBegins(c, s)
    \/ \E c \in Calls : Step(c) \/ ReadJob(c) \/ Exit(c) \/ Sigkill(c)

Spec == Init /\ [][Next]_vars

\* File operations and timers end; nothing is assumed of the code that runs.
Fairness == \A c \in Calls : WF_vars(Step(c)) /\ WF_vars(Sigkill(c))

FairSpec == Spec /\ Fairness

-------------------------------------------------------------------------------
\* Properties

\* A child runs anything but the code of its own execute (an empty file, a
\* missing one, another's, a mix) only when an execute or the destroy of the
\* same sandbox touched the one job.js between this execute's open and the
\* child's read.  Other sandboxes never do.
RunsItsCode ==
    \A c \in Calls :
        (child[c].at = "running" \/ child[c].saw # None) /\ child[c].saw # c
            => c \in disturbed

\* What destroy has removed stays removed, whatever executes were in flight:
\* they cannot make the directory again.
DestroyedStaysRemoved ==
    \A s \in Sandboxes : destroy[s] = "done" => ~dir[s] /\ file[s] = None

\* Every execute settles unless a process its code left holds the pipes.
ExecuteSettles ==
    \A c \in Calls :
        call[c].at = "open" ~> call[c].at \in {"resolved", "rejected"} \/ child[c].held
===============================================================================
