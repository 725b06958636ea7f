------------------------------ MODULE MCAgentCall ------------------------------
(* Small instances of AgentCall for TLC. *)
EXTENDS AgentCall, TLC
===============================================================================
