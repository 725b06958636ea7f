------------------------------ MODULE MCKeyCache ------------------------------
(* Small instances of KeyCache for TLC. *)
EXTENDS KeyCache, TLC

CONSTANTS k1, k2, u1, u2

MCOwnerOf == k1 :> u1 @@ k2 :> u2

Creds(b, t, s) == [bearer |-> b, token |-> t, session |-> s]

\* A script's header; a WebSocket's token in a browser with a cookie; and a
\* request that carries all three.
MCCredentials ==
    {Creds(k1, NoKey, NoUser), Creds(NoKey, k2, u1), Creds(k2, k1, u2)}
===============================================================================
