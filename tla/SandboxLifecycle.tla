--------------------------- MODULE SandboxLifecycle ---------------------------
(***************************************************************************)
(* What a sandbox's durable record promises to a reader of GET /sandboxes: *)
(* it appears once, as "running", may become "destroyed" once, and never   *)
(* changes again.  Creation and destruction are single steps here; the     *)
(* manager implements each with a call to a backend that takes time, may   *)
(* fail and may race with others (module SandboxManager).                  *)
(***************************************************************************)

CONSTANT Sandboxes          \* the sandbox ids (uuids)

VARIABLE phase              \* phase[id] : what the record of id says

\* The phases a record goes through; "none" is an id without a record.
Phases == {"none", "running", "destroyed"}

Init == phase = [id \in Sandboxes |-> "none"]

\* The record of a new sandbox is written.
Create(id) ==
    /\ phase[id] = "none"
    /\ phase' = [phase EXCEPT ![id] = "running"]

\* The record of a running sandbox is closed.
Destroy(id) ==
    /\ phase[id] = "running"
    /\ phase' = [phase EXCEPT ![id] = "destroyed"]

Next == \E id \in Sandboxes : Create(id) \/ Destroy(id)

Spec == Init /\ [][Next]_phase
===============================================================================
