---------------------------- MODULE RequestResponse ----------------------------
(***************************************************************************)
(* What a caller of SandboxBackend.execute may rely on when the code runs  *)
(* elsewhere: a call is answered or fails, once; its own code runs at most *)
(* once, never after the answer, but a failed call may still run.          *)
(***************************************************************************)
CONSTANTS Calls, None

VARIABLES
    outcome,    \* outcome[c] : "idle", "asked", "answered" or "failed"
    ran         \* ran[c] : the code run for c, the call it belongs to

vars == <<outcome, ran>>

Init ==
    /\ outcome = [c \in Calls |-> "idle"]
    /\ ran = [c \in Calls |-> None]

\* outcome of c goes from one value to another.
Turns(c, from, to) ==
    /\ outcome[c] = from
    /\ outcome' = [outcome EXCEPT ![c] = to]
    /\ UNCHANGED ran

Run(c) ==
    /\ outcome[c] \in {"asked", "failed"}
    /\ ran[c] = None
    /\ ran' = [ran EXCEPT ![c] = c]
    /\ UNCHANGED outcome

Next == \E c \in Calls :
    \/ Turns(c, "idle", "asked")
    \/ Turns(c, "asked", "answered")
    \/ Turns(c, "asked", "failed")
    \/ Run(c)

Spec == Init /\ [][Next]_vars
===============================================================================
