------------------------------- MODULE KeyCache -------------------------------
(***************************************************************************)
(* Who a request is: src/auth-hook.ts.  A bearer key, then the key in      *)
(* ?token=, then the session cookie are tried in turn.  A key that was     *)
(* found valid is remembered for CACHE_TTL_MS in a Map whose insertion     *)
(* order decides which entry goes when there are too many.  The key table  *)
(* and the sessions belong to Better Auth; other requests, and the owner   *)
(* who revokes a key, act while an answer of it is awaited.                *)
(***************************************************************************)
EXTENDS Naturals, Sequences, SequencesExt

CONSTANTS
    Keys, Users,
    OwnerOf,      \* OwnerOf[k] : the user a key belongs to
    NoKey, NoUser,
    Requests,     \* requests that may be authenticated together
    Credentials,  \* [bearer, token, session] combinations requests come with
    Limit,        \* entries the cache may hold: 1024
    Ttl,          \* CACHE_TTL_MS
    Delay,        \* bound: how long an answer of Better Auth takes
    MaxTime       \* bound: last value of the clock

ASSUME KeysAssumption == OwnerOf \in [Keys -> Users] /\ NoKey \notin Keys /\ NoUser \notin Users
ASSUME BoundsAssumption ==
    Limit \in Nat \ {0} /\ Ttl \in Nat /\ Delay \in Nat /\ MaxTime \in Nat
ASSUME CredentialsAssumption ==
    Credentials \subseteq [bearer : Keys \cup {NoKey}, token : Keys \cup {NoKey},
                           session : Users \cup {NoUser}]

VARIABLES
    live,        \* keys the table holds valid
    revokedAt,   \* history: when a key was revoked
    order,       \* the keys of the Map `cache`, oldest insertion first
    expiresAt,   \* expiresAt[k] : of the entry of k, while it has one
    req,         \* req[r] : how far the resolution of request r has come
    clock        \* Date.now()

vars == <<live, revokedAt, order, expiresAt, req, clock>>

\* Mutant: the cookie is looked at before ?token=.
SourcesCookieFirst == <<"bearer", "session", "token">>

\* Where resolveUserId looks, in turn.
Sources == <<"bearer", "token", "session">>

IdleRequest(c) == [at |-> "idle", cred |-> c, turn |-> 1, found |-> FALSE,
                   since |-> 0, user |-> NoUser, via |-> NoKey]

TypeOK ==
    /\ live \subseteq Keys
    /\ revokedAt \in [Keys -> Nat]
    /\ order \in Seq(Keys)
    /\ expiresAt \in [Keys -> Nat]
    /\ req \in [Requests -> [at : {"idle", "look", "asked", "read", "known", "refused"},
                             cred : Credentials, turn : 1 .. 3, found : BOOLEAN,
                             since : Nat, user : Users \cup {NoUser},
                             via : Keys \cup {NoKey}]]
    /\ clock \in Nat

Init ==
    /\ live = Keys
    /\ revokedAt = [k \in Keys |-> 0]
    /\ order = <<>>
    /\ expiresAt = [k \in Keys |-> 0]
    /\ req \in [Requests -> {IdleRequest(c) : c \in Credentials}]
    /\ clock = 0

Source(r) == Sources[req[r].turn]
KeyOf(r) == IF Source(r) = "session" THEN NoKey ELSE req[r].cred[Source(r)]

Cached(k) == \E i \in DOMAIN order : order[i] = k

\* Mutant: an entry is good for as long as it is there.
FreshForever(k) == Cached(k)

\* lookupCached finds an entry that has not expired.
FreshEntry(k) == Cached(k) /\ clock <= expiresAt[k]

Arrives(r, c) ==
    /\ req[r].at \in {"idle", "known", "refused"}
    /\ req' = [req EXCEPT ![r] = [IdleRequest(c) EXCEPT !.at = "look"]]
    /\ UNCHANGED <<live, revokedAt, order, expiresAt, clock>>

Known(r, user, via) ==
    req' = [req EXCEPT ![r].at = "known", ![r].user = user, ![r].via = via,
                       ![r].since = clock, ![r].found = FALSE]

\* This credential gave no user: on to the next, or 401.
NextTurn(r) ==
    req' = [req EXCEPT ![r] = IF @.turn = 3 THEN [IdleRequest(@.cred) EXCEPT !.at = "refused"]
                              ELSE [IdleRequest(@.cred) EXCEPT !.at = "look", !.turn = req[r].turn + 1]]

\* The credential is missing, or its key is answered from the cache.
Skip(r) ==
    /\ req[r].at = "look"
    /\ Source(r) # "session" /\ KeyOf(r) = NoKey
    /\ NextTurn(r)
    /\ UNCHANGED <<live, revokedAt, order, expiresAt, clock>>

Hit(r) ==
    /\ req[r].at = "look"
    /\ KeyOf(r) # NoKey /\ FreshEntry(KeyOf(r))
    /\ Known(r, OwnerOf[KeyOf(r)], KeyOf(r))
    /\ UNCHANGED <<live, revokedAt, order, expiresAt, clock>>

\* An expired entry is deleted; then verifyApiKey, or getSession, is awaited.
Ask(r) ==
    /\ req[r].at = "look"
    /\ Source(r) = "session" \/ (KeyOf(r) # NoKey /\ ~FreshEntry(KeyOf(r)))
    /\ req' = [req EXCEPT ![r].at = "asked", ![r].since = clock]
    /\ order' = RemoveFirst(order, KeyOf(r))
    /\ UNCHANGED <<live, revokedAt, expiresAt, clock>>

\* Better Auth reads its table some time before its answer arrives.
Read(r) ==
    /\ req[r].at = "asked"
    /\ req' = [req EXCEPT ![r].at = "read",
                 ![r].found = IF Source(r) = "session" THEN req[r].cred.session # NoUser
                              ELSE KeyOf(r) \in live]
    /\ UNCHANGED <<live, revokedAt, order, expiresAt, clock>>

\* Mutant: the newest entry goes when there are too many.
TrimNewest(s) == IF Len(s) > Limit THEN SubSeq(s, 1, Limit) ELSE s

\* cache.keys().next(): the entry inserted first goes.
Trim(s) == IF Len(s) > Limit THEN Tail(s) ELSE s

\* Map.set keeps the place of a key it has.
Set(s, k) == IF Cached(k) THEN s ELSE Append(s, k)

\* The answer: a valid key is remembered from now on, with its own TTL.
Answer(r) ==
    LET k == KeyOf(r) IN
    /\ req[r].at = "read"
    /\ IF ~req[r].found THEN NextTurn(r) /\ UNCHANGED <<order, expiresAt>>
       ELSE IF Source(r) = "session"
       THEN Known(r, req[r].cred.session, NoKey) /\ UNCHANGED <<order, expiresAt>>
       ELSE /\ Known(r, OwnerOf[k], k)
            /\ order' = Trim(Set(order, k))
            /\ expiresAt' = [expiresAt EXCEPT ![k] = clock + Ttl]
    /\ UNCHANGED <<live, revokedAt, clock>>

\* The owner revokes a key, in the dashboard.
Revoke(k) ==
    /\ k \in live
    /\ live' = live \ {k}
    /\ revokedAt' = [revokedAt EXCEPT ![k] = clock]
    /\ UNCHANGED <<order, expiresAt, req, clock>>

\* An answer does not take longer than Delay.
Tick ==
    /\ clock < MaxTime
    /\ \A r \in Requests : req[r].at \in {"asked", "read"} => clock < req[r].since + Delay
    /\ clock' = clock + 1
    /\ UNCHANGED <<live, revokedAt, order, expiresAt, req>>

Next ==
    \/ \E r \in Requests :
        \/ \E c \in Credentials : Arrives(r, c)
        \/ Skip(r) \/ Hit(r) \/ Ask(r) \/ Read(r) \/ Answer(r)
    \/ \E k \in Keys : Revoke(k)
    \/ Tick

Spec == Init /\ [][Next]_vars

-------------------------------------------------------------------------------
\* Properties

\* A revoked key dies: whatever requests were being verified when it was
\* revoked, and whoever of them remembers it last, no request is let in by it
\* later than an answer's delay and the TTL after the revocation.
RevokedKeyDies ==
    \A r \in Requests : req[r].at = "known" /\ req[r].via # NoKey =>
        req[r].via \in live \/ req[r].since <= revokedAt[req[r].via] + Delay + Ttl

\* The cache works at its limit: whatever verifications overlap, the Map stays
\* within it and never drops the entry that was just remembered.
RememberedIsKept ==
    [][ /\ Len(order') <= Limit
        /\ \A r \in Requests :
              req[r].at = "read" /\ req'[r].at = "known" /\ req'[r].via # NoKey
                  => \E i \in DOMAIN order' : order'[i] = req'[r].via ]_vars

\* A key that lets nobody in: there is none, or it has been revoked.
Refuted(k) == k \in {NoKey} \cup (Keys \ live)

\* The first credential that holds decides whose request it is, in the order
\* bearer, token, session, whatever is revoked while the answers are awaited:
\* the token counts only when the bearer does not hold, the session only when
\* neither key does, and a request is refused only when none of the three holds.
FirstCredentialWins ==
    \A r \in Requests :
        LET q == req[r] IN
        /\ q.at = "known" =>
              \/ q.via # NoKey /\ q.via = q.cred.bearer
              \/ q.via # NoKey /\ q.via = q.cred.token /\ Refuted(q.cred.bearer)
              \/ /\ q.via = NoKey /\ q.user = q.cred.session /\ q.user # NoUser
                 /\ Refuted(q.cred.bearer) /\ Refuted(q.cred.token)
        /\ q.at = "refused" =>
              Refuted(q.cred.bearer) /\ Refuted(q.cred.token) /\ q.cred.session = NoUser
===============================================================================
