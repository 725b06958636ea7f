--------------------------- MODULE MCWorkerCluster ---------------------------
(* Small instances of WorkerCluster for TLC. *)
EXTENDS WorkerCluster, TLC

\* Ids, workers and calls are interchangeable.
Symmetry ==
    Permutations(Sandboxes) \cup Permutations(Workers) \cup
    Permutations(Calls)
===============================================================================
