-------------------------- MODULE MCSnapshotBuilder --------------------------
(* Small instances of SnapshotBuilder for TLC. *)
EXTENDS SnapshotBuilder, TLC
===============================================================================
