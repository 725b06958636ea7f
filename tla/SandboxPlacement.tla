--------------------------- MODULE SandboxPlacement ---------------------------
(***************************************************************************)
(* What the fleet promises of where a sandbox runs: it starts on one       *)
(* worker, at most once, and once it is over it never runs again.  It may  *)
(* be over without having run.  One event may end many of them: a worker   *)
(* or the control plane that dies.  The fleet implements this with         *)
(* requests that may be lost, late or refused (module WorkerCluster).      *)
(***************************************************************************)

CONSTANTS Sandboxes, Workers

VARIABLES
    place,   \* place[id] : the workers id runs on
    over     \* ids that will not run any more

Init ==
    /\ place = [id \in Sandboxes |-> {}]
    /\ over = {}

Start(id, w) ==
    /\ place[id] = {}
    /\ id \notin over
    /\ place' = [place EXCEPT ![id] = {w}]
    /\ UNCHANGED over

End(ids) ==
    /\ ids \cap over = {}
    /\ over' = over \cup ids
    /\ place' = [id \in Sandboxes |-> IF id \in ids THEN {} ELSE place[id]]

Next ==
    \/ \E id \in Sandboxes, w \in Workers : Start(id, w)
    \/ \E ids \in SUBSET Sandboxes : End(ids)

Spec == Init /\ [][Next]_<<place, over>>
===============================================================================
