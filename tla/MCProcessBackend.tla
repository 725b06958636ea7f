--------------------------- MODULE MCProcessBackend ---------------------------
(* Small instances of ProcessBackend for TLC. *)
EXTENDS ProcessBackend, TLC
===============================================================================
