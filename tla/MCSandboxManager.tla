--------------------------- MODULE MCSandboxManager ---------------------------
(* Small instances of SandboxManager and SandboxApi for TLC. *)
EXTENDS SandboxApi, TLC

\* Ids, users, handler activations and timers are interchangeable.
Symmetry ==
    Permutations(Sandboxes) \cup Permutations(Users) \cup
    Permutations(Calls) \cup Permutations(Timers)
===============================================================================
