-------------------------- MODULE MCFirecrackerNode --------------------------
(* Small instances of FirecrackerNode for TLC. *)
EXTENDS FirecrackerNode, TLC

\* The captures of the builders of this instance.
MCCaptures == [vm : Builders, of : Versions]
==============================================================================
