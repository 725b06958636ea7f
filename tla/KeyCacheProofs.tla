---------------------------- MODULE KeyCacheProofs ----------------------------
(* Theorems about KeyCache for any keys, requests, limit, TTL and delay. *)
EXTENDS KeyCache, SequenceTheorems, TLAPS

Request == [at : {"idle", "look", "asked", "read", "known", "refused"},
            cred : Credentials, turn : 1 .. 3, found : BOOLEAN, since : Nat,
            user : Users \cup {NoUser}, via : Keys \cup {NoKey}]

\* The requests and the clocks are typed; the order of the Map comes below.
Typed ==
    /\ live \subseteq Keys
    /\ revokedAt \in [Keys -> Nat]
    /\ expiresAt \in [Keys -> Nat]
    /\ clock \in Nat
    /\ req \in [Requests -> Request]

\* How long a key that is no longer live may still let a request in.
Dead(k, t) == k \in live \/ t <= revokedAt[k] + Delay + Ttl

\* An entry expires a TTL from now at most, and in time if its key is dead.
EntriesSound ==
    \A k \in Keys :
        /\ Dead(k, expiresAt[k])
        /\ expiresAt[k] <= clock + Ttl
        /\ revokedAt[k] <= clock

\* An answer under way is not older than the delay; a key it found valid was
\* so when the request asked or later; a credential that was passed over is
\* missing or revoked.
Asking(q) == q.at \in {"asked", "read"} => clock <= q.since + Delay

\* The credential whose turn it is does not hold.
Holdless(cred, turn) ==
    /\ turn = 1 => Refuted(cred.bearer)
    /\ turn = 2 => Refuted(cred.token)
    /\ turn = 3 => cred.session = NoUser

Reading(q) ==
    q.at = "read" =>
        LET source == Sources[q.turn] IN
        /\ q.found /\ source = "session" => q.cred.session # NoUser
        /\ q.found /\ source # "session" =>
               /\ q.cred[source] \in Keys
               /\ q.cred[source] \in live \/ q.since <= revokedAt[q.cred[source]]
        /\ ~q.found => Holdless(q.cred, q.turn)

\* What decided a request comes after credentials that do not hold.
Decided(cred, user, via) ==
    \/ via # NoKey /\ via = cred.bearer
    \/ via # NoKey /\ via = cred.token /\ Refuted(cred.bearer)
    \/ /\ via = NoKey /\ user = cred.session /\ user # NoUser
       /\ Refuted(cred.bearer) /\ Refuted(cred.token)

Entering(q) ==
    q.at = "known" =>
        /\ q.via # NoKey => Dead(q.via, q.since)
        /\ Decided(q.cred, q.user, q.via)

PassedOver(q) ==
    /\ q.at # "known" /\ q.turn # 1 => Refuted(q.cred.bearer)
    /\ q.at # "known" /\ q.turn = 3 => Refuted(q.cred.token)

Refusing(q) ==
    q.at = "refused" =>
        Refuted(q.cred.bearer) /\ Refuted(q.cred.token) /\ q.cred.session = NoUser

Sound(q) ==
    /\ q.since <= clock
    /\ Asking(q) /\ Reading(q) /\ Entering(q) /\ PassedOver(q) /\ Refusing(q)

AnswersSound == \A r \in Requests : Sound(req[r])

Inv == Typed /\ EntriesSound /\ AnswersSound

-------------------------------------------------------------------------------
\* A key a request shows is a key.
LEMMA KeyOfTyped ==
    ASSUME Typed, NEW r \in Requests
    PROVE  /\ Source(r) \in {"bearer", "token", "session"}
           /\ KeyOf(r) \in Keys \cup {NoKey}
           /\ (KeyOf(r) = NoKey \/ Source(r) # "session")
  <1>1. req[r].turn \in {1, 2, 3} /\ req[r].cred \in Credentials
    BY DEF Typed, Request
  <1>2. Source(r) \in {"bearer", "token", "session"}
    BY <1>1 DEF Source, Sources
  <1>3. req[r].cred.bearer \in Keys \cup {NoKey} /\ req[r].cred.token \in Keys \cup {NoKey}
    BY <1>1, CredentialsAssumption
  <1>. QED
    BY <1>2, <1>3 DEF KeyOf

\* The records a request is reset to.
LEMMA IdleTyped ==
    ASSUME NEW c \in Credentials, NEW t \in 1 .. 3
    PROVE  /\ IdleRequest(c) \in Request
           /\ [IdleRequest(c) EXCEPT !.at = "look"] \in Request
           /\ [IdleRequest(c) EXCEPT !.at = "refused"] \in Request
           /\ [IdleRequest(c) EXCEPT !.at = "look", !.turn = t] \in Request
  <1>1. IdleRequest(c) \in Request
    BY DEF IdleRequest, Request
  <1>2. [IdleRequest(c) EXCEPT !.at = "look"] \in Request
    BY <1>1 DEF Request
  <1>3. [IdleRequest(c) EXCEPT !.at = "refused"] \in Request
    BY <1>1 DEF Request
  <1>4. [IdleRequest(c) EXCEPT !.at = "look", !.turn = t] \in Request
    BY DEF IdleRequest, Request
  <1>. QED
    BY <1>1, <1>2, <1>3, <1>4

LEMMA InvInit == Init => Inv
  <1>. SUFFICES ASSUME Init PROVE Inv
    OBVIOUS
  <1>1. \A r \in Requests : \E c \in Credentials : req[r] = IdleRequest(c)
    BY DEF Init
  <1>2. Typed
    <2>1. {IdleRequest(c) : c \in Credentials} \subseteq Request
      <3>1. 1 \in 1 .. 3
        OBVIOUS
      <3>. QED
        BY <3>1, IdleTyped
    <2>2. req \in [Requests -> Request]
      BY <2>1 DEF Init
    <2>. QED
      BY <2>2 DEF Init, Typed
  <1>3. EntriesSound
    BY BoundsAssumption DEF Init, EntriesSound, Dead
  <1>4. AnswersSound
    BY <1>1, BoundsAssumption DEF Init, AnswersSound, IdleRequest, Sound, Asking, Reading,
       Entering, PassedOver, Refusing
  <1>. QED
    BY <1>2, <1>3, <1>4 DEF Inv

\* What the steps of a request write.
LEMMA NextTurnTyped ==
    ASSUME Typed, NEW r \in Requests, NextTurn(r)
    PROVE  \E new \in Request :
               /\ req' = [req EXCEPT ![r] = new]
               /\ new.at \in {"look", "refused"}
               /\ new.since = 0
               /\ new.cred = req[r].cred
               /\ new.at = "look" => req[r].turn # 3 /\ new.turn = req[r].turn + 1
               /\ new.at = "refused" => req[r].turn = 3 /\ new.turn = 1
  <1>. DEFINE c == req[r].cred
              t == req[r].turn + 1
              last == [IdleRequest(c) EXCEPT !.at = "refused"]
              next == [IdleRequest(c) EXCEPT !.at = "look", !.turn = t]
  <1>1. req[r].turn \in 1 .. 3 /\ c \in Credentials
    BY DEF Typed, Request
  <1>2. CASE req[r].turn = 3
    <2>1. req' = [req EXCEPT ![r] = last]
      BY <1>2 DEF NextTurn
    <2>2. last \in Request
      BY <1>1, IdleTyped
    <2>3. last.at = "refused" /\ last.since = 0 /\ last.cred = c /\ last.turn = 1
      BY DEF IdleRequest
    <2>. QED
      BY <1>2, <2>1, <2>2, <2>3
  <1>3. CASE req[r].turn # 3
    <2>1. req' = [req EXCEPT ![r] = next]
      BY <1>3 DEF NextTurn
    <2>2. t \in 1 .. 3
      BY <1>1, <1>3
    <2>3. next \in Request
      BY <1>1, <2>2, IdleTyped
    <2>4. next.at = "look" /\ next.since = 0 /\ next.cred = c /\ next.turn = t
      BY DEF IdleRequest
    <2>. QED
      BY <1>3, <2>1, <2>3, <2>4
  <1>. QED
    BY <1>2, <1>3

LEMMA KnownTyped ==
    ASSUME Typed, NEW r \in Requests, NEW user \in Users, NEW via \in Keys \cup {NoKey},
           Known(r, user, via)
    PROVE  /\ req' = [req EXCEPT ![r] = req'[r]]
           /\ req'[r].at = "known" /\ req'[r].since = clock /\ req'[r].via = via
           /\ req'[r].user = user /\ req'[r].cred = req[r].cred
           /\ req'[r] \in Request
  <1>. DEFINE new == [req[r] EXCEPT !.at = "known", !.user = user, !.via = via,
                                    !.since = clock, !.found = FALSE]
  <1>1. req[r] \in Request /\ clock \in Nat
    BY DEF Typed
  <1>2. new \in Request
    BY <1>1 DEF Request
  <1>3. /\ new.at = "known" /\ new.since = clock /\ new.via = via
        /\ new.user = user /\ new.cred = req[r].cred
    BY <1>1 DEF Request
  <1>4. req' = [req EXCEPT ![r] = new]
    BY DEF Known, Typed
  <1>. HIDE DEF new
  <1>5. req'[r] = new
    BY <1>4 DEF Typed
  <1>. QED
    BY <1>2, <1>3, <1>4, <1>5

\* A step that moves one request to a sound record keeps the rest sound.
LEMMA OneRequest ==
    ASSUME Typed, AnswersSound, NEW r \in Requests, NEW new \in Request,
           req' = [req EXCEPT ![r] = new],
           UNCHANGED <<live, revokedAt, clock>>, Sound(new)
    PROVE  /\ (req \in [Requests -> Request])'
           /\ AnswersSound'
  <1>1. (req \in [Requests -> Request])'
    BY DEF Typed
  <1>2. ASSUME NEW q \in Requests PROVE Sound(req[q])'
    <2>1. Sound(req'[q])
      BY DEF Typed, AnswersSound
    <2>. QED
      BY <2>1 DEF Sound, Asking, Reading, Entering, PassedOver, Refusing, Holdless,
         Decided, Dead, Refuted
  <1>. QED
    BY <1>1, <1>2 DEF AnswersSound

\* Passing a credential over.
LEMMA NextTurnSound ==
    ASSUME Inv, NEW r \in Requests, NextTurn(r), UNCHANGED <<live, revokedAt, clock>>,
           req[r].at # "known", Holdless(req[r].cred, req[r].turn)
    PROVE  /\ (req \in [Requests -> Request])'
           /\ AnswersSound'
  <1>1. PICK new \in Request :
               /\ req' = [req EXCEPT ![r] = new]
               /\ new.at \in {"look", "refused"}
               /\ new.since = 0
               /\ new.cred = req[r].cred
               /\ new.at = "look" => req[r].turn # 3 /\ new.turn = req[r].turn + 1
               /\ new.at = "refused" => req[r].turn = 3 /\ new.turn = 1
    BY NextTurnTyped DEF Inv
  <1>2. req[r].turn \in {1, 2, 3} /\ clock \in Nat
    BY DEF Inv, Typed, Request
  <1>3. /\ Refuted(req[r].cred.bearer)
        /\ req[r].turn # 1 => Refuted(req[r].cred.token)
        /\ req[r].turn = 3 => req[r].cred.session = NoUser
    BY <1>2 DEF Inv, AnswersSound, Sound, PassedOver, Holdless
  <1>4. Sound(new)
    BY <1>1, <1>2, <1>3 DEF Sound, Asking, Reading, Entering, PassedOver, Refusing
  <1>. QED
    BY <1>1, <1>4, OneRequest DEF Inv

\* Letting a request in.
LEMMA KnownSound ==
    ASSUME Inv, NEW r \in Requests, NEW user \in Users, NEW via \in Keys \cup {NoKey},
           Known(r, user, via), UNCHANGED <<live, revokedAt, clock>>,
           via # NoKey => Dead(via, clock),
           Decided(req[r].cred, user, via)
    PROVE  /\ (req \in [Requests -> Request])'
           /\ AnswersSound'
  <1>. DEFINE new == req'[r]
  <1>1. /\ req' = [req EXCEPT ![r] = new]
        /\ new.at = "known" /\ new.since = clock /\ new.via = via
        /\ new.user = user /\ new.cred = req[r].cred
        /\ new \in Request
    BY KnownTyped DEF Inv
  <1>2. Sound(new)
    BY <1>1 DEF Inv, Typed, Sound, Asking, Reading, Entering, PassedOver, Refusing
  <1>. HIDE DEF new
  <1>. QED
    BY <1>1, <1>2, OneRequest DEF Inv

LEMMA ArrivesStep ==
    ASSUME Inv, NEW r \in Requests, NEW c \in Credentials, Arrives(r, c)
    PROVE  Inv'
  <1>. DEFINE new == [IdleRequest(c) EXCEPT !.at = "look"]
  <1>1. new \in Request
    <2>1. 1 \in 1 .. 3
      OBVIOUS
    <2>. QED
      BY <2>1, IdleTyped
  <1>2. Sound(new)
    BY DEF Inv, Typed, IdleRequest, Sound, Asking, Reading, Entering, PassedOver,
       Refusing
  <1>3. req' = [req EXCEPT ![r] = new] /\ UNCHANGED <<live, revokedAt, expiresAt, clock>>
    BY DEF Arrives
  <1>. HIDE DEF new
  <1>. QED
    BY <1>1, <1>2, <1>3, OneRequest DEF Inv, Typed, EntriesSound, Dead

LEMMA SkipStep ==
    ASSUME Inv, NEW r \in Requests, Skip(r)
    PROVE  Inv'
  <1>1. req[r].at = "look" /\ Holdless(req[r].cred, req[r].turn)
    BY DEF Skip, KeyOf, Source, Sources, Refuted, Holdless
  <1>2. /\ (req \in [Requests -> Request])'
        /\ AnswersSound'
    BY <1>1, NextTurnSound DEF Skip
  <1>. QED
    BY <1>2 DEF Skip, Inv, Typed, EntriesSound, Dead

LEMMA HitStep ==
    ASSUME Inv, NEW r \in Requests, Hit(r)
    PROVE  Inv'
  <1>. DEFINE k == KeyOf(r)
  <1>1. k \in Keys /\ OwnerOf[k] \in Users /\ k # NoKey
    BY KeyOfTyped, KeysAssumption DEF Hit, Inv
  <1>2. Dead(k, clock)
    BY <1>1, BoundsAssumption DEF Hit, FreshEntry, Inv, EntriesSound, Dead, Typed
  <1>3. Decided(req[r].cred, OwnerOf[k], k)
    <2>1. req[r].turn \in {1, 2, 3} /\ Sound(req[r]) /\ req[r].at = "look"
      BY DEF Inv, Typed, Request, AnswersSound, Hit
    <2>. QED
      BY <1>1, <2>1 DEF Sound, PassedOver, KeyOf, Source, Sources, Decided
  <1>4. Known(r, OwnerOf[k], k) /\ UNCHANGED <<live, revokedAt, expiresAt, clock>>
    BY DEF Hit
  <1>. HIDE DEF k
  <1>5. /\ (req \in [Requests -> Request])'
        /\ AnswersSound'
    BY <1>1, <1>2, <1>3, <1>4, KnownSound
  <1>. QED
    BY <1>4, <1>5 DEF Inv, Typed, EntriesSound, Dead

LEMMA AskStep ==
    ASSUME Inv, NEW r \in Requests, Ask(r)
    PROVE  Inv'
  <1>. DEFINE new == [req[r] EXCEPT !.at = "asked", !.since = clock]
  <1>1. req[r] \in Request /\ Sound(req[r]) /\ req[r].at = "look" /\ clock \in Nat
    BY DEF Inv, Typed, AnswersSound, Ask
  <1>2. new \in Request
    BY <1>1 DEF Request
  <1>3. Sound(new)
    BY <1>1, BoundsAssumption DEF Request, Sound, Asking, Reading, Entering, PassedOver,
       Refusing
  <1>4. req' = [req EXCEPT ![r] = new] /\ UNCHANGED <<live, revokedAt, expiresAt, clock>>
    BY <1>1 DEF Ask, Inv, Typed
  <1>. HIDE DEF new
  <1>. QED
    BY <1>2, <1>3, <1>4, OneRequest DEF Inv, Typed, EntriesSound, Dead

LEMMA ReadStep ==
    ASSUME Inv, NEW r \in Requests, Read(r)
    PROVE  Inv'
  <1>. DEFINE found == IF Source(r) = "session" THEN req[r].cred.session # NoUser
                       ELSE KeyOf(r) \in live
              new == [req[r] EXCEPT !.at = "read", !.found = found]
  <1>1. req[r] \in Request /\ Sound(req[r]) /\ req[r].at = "asked" /\ clock \in Nat
    BY DEF Inv, Typed, AnswersSound, Read
  <1>2. new \in Request
    <2>1. ASSUME NEW b \in BOOLEAN
          PROVE  [req[r] EXCEPT !.at = "read", !.found = b] \in Request
      BY <1>1 DEF Request
    <2>2. found \in BOOLEAN
      <3>1. CASE found
        BY <3>1
      <3>2. CASE ~found
        <4>1. found = FALSE
          BY <3>2, SMT
        <4>. QED
          BY <4>1
      <3>. QED
        BY <3>1, <3>2
    <2>. HIDE DEF found
    <2>. QED
      BY <2>1, <2>2
  <1>3. Source(r) = Sources[req[r].turn] /\ KeyOf(r) \in Keys \cup {NoKey}
        /\ (Source(r) # "session" => KeyOf(r) = req[r].cred[Source(r)])
    BY KeyOfTyped DEF Inv, Source, KeyOf
  <1>4. live \subseteq Keys
    BY DEF Inv, Typed
  <1>5. Reading(new)
    <2>1. new.found = found /\ new.turn = req[r].turn /\ new.cred = req[r].cred
      BY <1>1 DEF Request
    <2>2. ~found => Holdless(req[r].cred, req[r].turn)
      BY <1>3 DEF Refuted, Holdless, Sources
    <2>3. found /\ Source(r) # "session" => req[r].cred[Source(r)] \in live
      BY <1>3
    <2>. QED
      BY <1>3, <1>4, <2>1, <2>2, <2>3 DEF Reading
  <1>6. Sound(new)
    BY <1>1, <1>5 DEF Request, Sound, Asking, Entering, PassedOver, Refusing
  <1>7. req' = [req EXCEPT ![r] = new] /\ UNCHANGED <<live, revokedAt, expiresAt, clock>>
    BY <1>1 DEF Read, Inv, Typed
  <1>. HIDE DEF new
  <1>. QED
    BY <1>2, <1>6, <1>7, OneRequest DEF Inv, Typed, EntriesSound, Dead

LEMMA AnswerStep ==
    ASSUME Inv, NEW r \in Requests, Answer(r)
    PROVE  Inv'
  <1>. DEFINE k == KeyOf(r)
  <1>1. /\ req[r] \in Request /\ Sound(req[r]) /\ req[r].at = "read"
        /\ UNCHANGED <<live, revokedAt, clock>>
    BY DEF Inv, Typed, AnswersSound, Answer
  <1>2. CASE ~req[r].found
    <2>1. NextTurn(r) /\ UNCHANGED expiresAt
      BY <1>2 DEF Answer
    <2>2. Holdless(req[r].cred, req[r].turn)
      BY <1>1, <1>2 DEF Sound, Reading
    <2>3. /\ (req \in [Requests -> Request])'
          /\ AnswersSound'
      BY <1>1, <2>1, <2>2, NextTurnSound
    <2>. QED
      BY <1>1, <2>1, <2>3 DEF Inv, Typed, EntriesSound, Dead
  <1>3. CASE req[r].found /\ Source(r) = "session"
    <2>. DEFINE user == req[r].cred.session
    <2>1. Known(r, user, NoKey) /\ UNCHANGED expiresAt
      BY <1>3 DEF Answer
    <2>2. user \in Users
      BY <1>1, <1>3, CredentialsAssumption DEF Sound, Reading, Source, Request
    <2>3. Decided(req[r].cred, user, NoKey)
      <3>1. req[r].turn = 3 /\ user # NoUser
        BY <1>1, <1>3, <2>2, KeysAssumption DEF Source, Sources, Request
      <3>. QED
        BY <1>1, <3>1 DEF Sound, PassedOver, Decided
    <2>4. /\ (req \in [Requests -> Request])'
          /\ AnswersSound'
      BY <1>1, <2>1, <2>2, <2>3, KnownSound
    <2>. QED
      BY <1>1, <2>1, <2>4 DEF Inv, Typed, EntriesSound, Dead
  <1>4. CASE req[r].found /\ Source(r) # "session"
    <2>1. Known(r, OwnerOf[k], k) /\ expiresAt' = [expiresAt EXCEPT ![k] = clock + Ttl]
      BY <1>4 DEF Answer
    <2>2. /\ k \in Keys /\ OwnerOf[k] \in Users /\ k # NoKey
          /\ k \in live \/ req[r].since <= revokedAt[k]
      <3>1. k = req[r].cred[Source(r)]
        BY <1>4 DEF KeyOf
      <3>2. k \in Keys /\ (k \in live \/ req[r].since <= revokedAt[k])
        BY <1>1, <1>4, <3>1 DEF Sound, Reading, Source
      <3>. QED
        BY <3>2, KeysAssumption
    <2>3. Dead(k, clock + Ttl) /\ Dead(k, clock)
      BY <1>1, <2>2, BoundsAssumption DEF Sound, Asking, Dead, Inv, Typed, Request
    <2>4. Decided(req[r].cred, OwnerOf[k], k)
      <3>1. req[r].turn \in {1, 2} /\ k = req[r].cred[Source(r)]
        BY <1>1, <1>4 DEF KeyOf, Source, Sources, Request
      <3>. QED
        BY <1>1, <2>2, <3>1 DEF Sound, PassedOver, Source, Sources, Decided
    <2>. HIDE DEF k
    <2>5. /\ (req \in [Requests -> Request])'
          /\ AnswersSound'
      BY <1>1, <2>1, <2>2, <2>3, <2>4, KnownSound
    <2>6. Typed'
      BY <1>1, <2>1, <2>2, <2>5, BoundsAssumption DEF Inv, Typed
    <2>7. EntriesSound'
      BY <1>1, <2>1, <2>2, <2>3, BoundsAssumption DEF Inv, Typed, EntriesSound, Dead
    <2>. QED
      BY <2>5, <2>6, <2>7 DEF Inv
  <1>. QED
    BY <1>2, <1>3, <1>4

LEMMA RevokeStep ==
    ASSUME Inv, NEW k \in Keys, Revoke(k)
    PROVE  Inv'
  <1>1. /\ k \in live /\ live' = live \ {k} /\ revokedAt' = [revokedAt EXCEPT ![k] = clock]
        /\ UNCHANGED <<expiresAt, req, clock>>
    BY DEF Revoke
  <1>2. Typed'
    BY <1>1 DEF Inv, Typed
  <1>3. \A x \in Keys, t \in Nat : t <= clock + Ttl /\ Dead(x, t) => Dead(x, t)'
    BY <1>1, BoundsAssumption DEF Inv, Typed, Dead
  <1>4. EntriesSound'
    BY <1>1, <1>3, BoundsAssumption DEF Inv, Typed, EntriesSound
  <1>5. \A x : Refuted(x) => Refuted(x)'
    BY <1>1 DEF Refuted
  <1>6. ASSUME NEW r \in Requests PROVE Sound(req[r])'
    <2>1. req[r] \in Request /\ Sound(req[r]) /\ live \subseteq Keys
      BY DEF Inv, Typed, AnswersSound
    <2>2. /\ Asking(req[r])' /\ PassedOver(req[r])' /\ Refusing(req[r])'
          /\ req'[r].since <= clock'
      BY <1>1, <1>5, <2>1 DEF Sound, Asking, PassedOver, Refusing
    <2>3. Reading(req[r])'
      <3>1. \A x \in Keys : x \in live \/ req[r].since <= revokedAt[x]
                => x \in live' \/ req[r].since <= revokedAt'[x]
        BY <1>1, <2>1 DEF Sound, Inv, Typed
      <3>. QED
        BY <1>1, <1>5, <2>1, <3>1 DEF Sound, Reading, Holdless
    <2>4. Entering(req[r])'
      <3>1. req[r].since \in Nat /\ req[r].since <= clock + Ttl
        BY <2>1, BoundsAssumption DEF Sound, Request, Inv, Typed
      <3>2. req[r].via # NoKey => req[r].via \in Keys
        BY <2>1 DEF Request
      <3>. QED
        BY <1>1, <1>3, <1>5, <2>1, <3>1, <3>2 DEF Sound, Entering, Decided
    <2>. QED
      BY <2>2, <2>3, <2>4 DEF Sound
  <1>. QED
    BY <1>2, <1>4, <1>6 DEF Inv, AnswersSound

LEMMA TickStep ==
    ASSUME Inv, Tick
    PROVE  Inv'
  <1>1. Typed' /\ EntriesSound'
    BY BoundsAssumption DEF Tick, Inv, Typed, EntriesSound, Dead
  <1>2. ASSUME NEW r \in Requests PROVE Sound(req[r])'
    <2>1. req[r] \in Request /\ Sound(req[r]) /\ clock \in Nat
      BY DEF Inv, Typed, AnswersSound
    <2>2. req'[r].since <= clock' /\ Asking(req[r])'
      BY <2>1, BoundsAssumption DEF Tick, Sound, Asking, Request
    <2>3. Reading(req[r])' /\ Entering(req[r])' /\ PassedOver(req[r])' /\ Refusing(req[r])'
      BY <2>1 DEF Tick, Sound, Reading, Entering, PassedOver, Refusing, Holdless, Decided,
         Refuted, Dead
    <2>. QED
      BY <2>2, <2>3 DEF Sound
  <1>. QED
    BY <1>1, <1>2 DEF Inv, AnswersSound

LEMMA InvStep == Inv /\ [Next]_vars => Inv'
  <1>. SUFFICES ASSUME Inv, [Next]_vars PROVE Inv'
    OBVIOUS
  <1>1. CASE Next
    BY <1>1, ArrivesStep, SkipStep, HitStep, AskStep, ReadStep, AnswerStep, RevokeStep,
       TickStep DEF Next
  <1>2. CASE UNCHANGED vars
    BY <1>2 DEF vars, Inv, Typed, EntriesSound, AnswersSound, Sound, Asking, Reading,
       Entering, PassedOver, Refusing, Holdless, Decided, Refuted, Dead
  <1>. QED
    BY <1>1, <1>2

\* A revoked key lets no request in later than an answer's delay and the TTL
\* after its revocation, for any number of keys and requests.
THEOREM RevokedKeysDie == Spec => []RevokedKeyDies
  <1>1. Inv => RevokedKeyDies
    BY DEF Inv, AnswersSound, Sound, Entering, RevokedKeyDies, Dead
  <1>. QED
    BY <1>1, InvInit, InvStep, PTL DEF Spec

\* The first credential that holds decides whose request it is, in the order
\* bearer, token, session, and a request is refused only when none holds, for
\* any credentials and revocations while the answers are awaited.
THEOREM FirstCredentialDecides == Spec => []FirstCredentialWins
  <1>1. Inv => FirstCredentialWins
    BY DEF Inv, AnswersSound, Sound, Entering, Decided, Refusing, FirstCredentialWins
  <1>. QED
    BY <1>1, InvInit, InvStep, PTL DEF Spec
-------------------------------------------------------------------------------
(* The Map: its entries are few enough, and a key has one *)

Ordered(s) ==
    /\ s \in Seq(Keys)
    /\ Len(s) <= Limit
    /\ \A i, j \in 1 .. Len(s) : s[i] = s[j] => i = j

\* Deleting a key, which the Map may not have, leaves the others in order.
LEMMA RemoveFirstOrdered ==
    ASSUME NEW s, Ordered(s), NEW k
    PROVE  Ordered(RemoveFirst(s, k))
  <1>1. s \in Seq(Keys) /\ Len(s) \in Nat /\ \A i \in 1 .. Len(s) : s[i] \in Keys
    BY DEF Ordered
  <1>2. CASE ~ \E i \in 1 .. Len(s) : s[i] = k
    BY <1>2 DEF RemoveFirst
  <1>3. ASSUME NEW n \in 1 .. Len(s), s[n] = k
        PROVE  Ordered(RemoveFirst(s, k))
    <2>. DEFINE a == SubSeq(s, 1, n - 1)
                b == SubSeq(s, n + 1, Len(s))
    <2>1. {i \in 1 .. Len(s) : s[i] = k} = {n}
      BY <1>3 DEF Ordered
    <2>2. Min({n}) = n
      BY DEF Min
    <2>3. RemoveFirst(s, k) = a \o b
      BY <1>3, <2>1, <2>2 DEF RemoveFirst, SelectInSeq, RemoveAt
    <2>4. /\ a \in Seq(Keys) /\ Len(a) = n - 1
          /\ \A i \in 1 .. n - 1 : a[i] = s[i]
      <3>1. \A i \in 1 .. n - 1 : s[i] \in Keys
        BY <1>1
      <3>. QED
        BY <1>1, <3>1, SubSeqProperties, SMT
    <2>5. /\ b \in Seq(Keys) /\ Len(b) = Len(s) - n
          /\ \A i \in 1 .. Len(s) - n : b[i] = s[n + i]
      <3>1. \A i \in n + 1 .. Len(s) : s[i] \in Keys
        BY <1>1
      <3>. QED
        BY <1>1, <3>1, SubSeqProperties, SMT
    <2>. HIDE DEF a, b
    <2>6. /\ a \o b \in Seq(Keys) /\ Len(a \o b) = Len(s) - 1
          /\ \A i \in 1 .. Len(s) - 1 :
                (a \o b)[i] = IF i <= n - 1 THEN s[i] ELSE s[i + 1]
      <3>1. /\ a \o b \in Seq(Keys)
            /\ Len(a \o b) = Len(s) - 1
            /\ \A i \in 1 .. Len(s) - 1 :
                  (a \o b)[i] = IF i <= n - 1 THEN a[i] ELSE b[i - (n - 1)]
        BY <1>1, <2>4, <2>5, ConcatProperties
      <3>2. \A i \in 1 .. Len(s) - 1 : i > n - 1 => b[i - (n - 1)] = s[i + 1]
        <4>1. SUFFICES ASSUME NEW i \in 1 .. Len(s) - 1, i > n - 1
                       PROVE  b[i - (n - 1)] = s[i + 1]
          OBVIOUS
        <4>2. i - (n - 1) \in 1 .. Len(s) - n /\ n + (i - (n - 1)) = i + 1
          BY <1>1, <4>1
        <4>. QED
          BY <2>5, <4>2
      <3>3. \A i \in 1 .. Len(s) - 1 : i <= n - 1 => a[i] = s[i]
        BY <1>1, <2>4
      <3>. QED
        BY <1>1, <3>1, <3>2, <3>3
    <2>. DEFINE r == a \o b
    <2>7. /\ r \in Seq(Keys) /\ Len(r) = Len(s) - 1
          /\ \A i \in 1 .. Len(s) - 1 : r[i] = IF i <= n - 1 THEN s[i] ELSE s[i + 1]
      BY <2>6
    <2>. HIDE DEF r
    <2>8. \A i, j \in 1 .. Len(s) : s[i] = s[j] => i = j
      BY DEF Ordered
    <2>9. ASSUME NEW i \in 1 .. Len(r), NEW j \in 1 .. Len(r), r[i] = r[j]
          PROVE  i = j
      <3>. DEFINE at(m) == IF m <= n - 1 THEN m ELSE m + 1
      <3>1. at(i) \in 1 .. Len(s) /\ at(j) \in 1 .. Len(s)
        BY <1>1, <2>7
      <3>2. r[i] = s[at(i)] /\ r[j] = s[at(j)]
        BY <2>7
      <3>3. at(i) = at(j)
        BY <2>8, <2>9, <3>1, <3>2
      <3>. QED
        BY <1>1, <2>7, <3>3
    <2>10. Len(r) <= Limit
      BY <1>1, <2>7, BoundsAssumption DEF Ordered
    <2>11. RemoveFirst(s, k) = r
      BY <2>3 DEF r
    <2>. QED
      BY <2>7, <2>9, <2>10, <2>11 DEF Ordered
  <1>. QED
    BY <1>2, <1>3

\* Remembering a key: it has an entry afterwards, and the Map is still sound.
LEMMA TrimOrdered ==
    ASSUME Ordered(order), NEW k \in Keys
    PROVE  /\ Ordered(Trim(Set(order, k)))
           /\ \E i \in DOMAIN Trim(Set(order, k)) : Trim(Set(order, k))[i] = k
  <1>1. order \in Seq(Keys) /\ Len(order) \in Nat /\ DOMAIN order = 1 .. Len(order)
    BY DEF Ordered
  <1>4. Len(order) \in Nat /\ Limit \in Nat /\ Len(order) <= Limit
    BY BoundsAssumption DEF Ordered
  <1>2. CASE Cached(k)
    <2>1. Trim(Set(order, k)) = order
      BY <1>2, <1>4 DEF Set, Trim
    <2>. QED
      BY <1>2, <2>1 DEF Cached
  <1>3. CASE ~Cached(k)
    <2>. DEFINE s == Append(order, k)
    <2>1. /\ s \in Seq(Keys) /\ s # << >> /\ Len(s) = Len(order) + 1
          /\ \A i \in 1 .. Len(order) : s[i] = order[i]
          /\ s[Len(order) + 1] = k
      BY <1>1, AppendProperties
    <2>. HIDE DEF s
    <2>2. \A i, j \in 1 .. Len(s) : s[i] = s[j] => i = j
      <3>1. \A i \in 1 .. Len(order) : order[i] # k
        BY <1>1, <1>3 DEF Cached
      <3>2. \A i \in 1 .. Len(s) : i \in 1 .. Len(order) \/ i = Len(order) + 1
        BY <1>1, <2>1
      <3>. QED
        BY <2>1, <3>1, <3>2 DEF Ordered
    <2>3. Set(order, k) = s
      BY <1>3 DEF Set, s
    <2>4. CASE Len(s) <= Limit
      <3>1. Trim(s) = s
        BY <1>1, <2>1, <2>4, BoundsAssumption DEF Trim
      <3>2. Len(order) + 1 \in DOMAIN s
        BY <1>1, <2>1
      <3>. QED
        BY <2>1, <2>2, <2>3, <2>4, <3>1, <3>2 DEF Ordered
    <2>5. CASE Len(s) > Limit
      <3>. DEFINE t == Tail(s)
      <3>1. Trim(s) = t
        BY <2>5 DEF Trim
      <3>2. /\ t \in Seq(Keys) /\ Len(t) = Len(order)
            /\ \A i \in 1 .. Len(t) : t[i] = s[i + 1]
        BY <1>1, <2>1, HeadTailProperties
      <3>. HIDE DEF t
      <3>3. Len(order) = Limit /\ Limit \in DOMAIN t
        <4>1. Len(order) = Limit
          <5>1. Len(s) = Len(order) + 1
            BY <2>1
          <5>. QED
            BY <1>4, <2>5, <5>1
        <4>2. DOMAIN t = 1 .. Len(t)
          BY <3>2
        <4>. QED
          BY <3>2, <4>1, <4>2, BoundsAssumption
      <3>4. t[Limit] = k
        BY <1>1, <2>1, <3>2, <3>3, BoundsAssumption
      <3>5. \A i, j \in 1 .. Len(t) : t[i] = t[j] => i = j
        <4>1. SUFFICES ASSUME NEW i \in 1 .. Len(t), NEW j \in 1 .. Len(t), t[i] = t[j]
                       PROVE  i = j
          OBVIOUS
        <4>2. i + 1 \in 1 .. Len(s) /\ j + 1 \in 1 .. Len(s) /\ s[i + 1] = s[j + 1]
          BY <1>1, <2>1, <3>2, <4>1
        <4>3. i + 1 = j + 1
          BY <2>2, <4>2
        <4>. QED
          BY <1>1, <3>2, <4>3
      <3>. QED
        BY <2>3, <3>1, <3>2, <3>3, <3>4, <3>5, BoundsAssumption DEF Ordered
    <2>. QED
      BY <1>1, <2>1, <2>4, <2>5, BoundsAssumption
  <1>. QED
    BY <1>2, <1>3

\* What an answer does to the Map.
LEMMA AnswerOrdered ==
    ASSUME Inv, Ordered(order), NEW r \in Requests, Answer(r)
    PROVE  /\ Ordered(order')
           /\ req'[r].at = "known" /\ req'[r].via # NoKey =>
                 \E i \in DOMAIN order' : order'[i] = req'[r].via
  <1>. DEFINE k == KeyOf(r)
  <1>1. req \in [Requests -> Request] /\ req[r] \in Request /\ Sound(req[r]) /\ req[r].at = "read"
    BY DEF Inv, Typed, AnswersSound, Answer
  <1>2. CASE ~req[r].found
    <2>1. NextTurn(r) /\ UNCHANGED order
      BY <1>2 DEF Answer
    <2>2. PICK new \in Request : req' = [req EXCEPT ![r] = new] /\ new.at \in {"look", "refused"}
      BY <2>1, NextTurnTyped DEF Inv
    <2>3. req'[r].at # "known"
      BY <1>1, <2>2
    <2>. QED
      BY <2>1, <2>3
  <1>3. CASE req[r].found /\ Source(r) = "session"
    <2>1. Known(r, req[r].cred.session, NoKey) /\ UNCHANGED order
      BY <1>3 DEF Answer
    <2>2. req'[r].via = NoKey
      BY <1>1, <2>1 DEF Known, Request
    <2>. QED
      BY <2>1, <2>2
  <1>4. CASE req[r].found /\ Source(r) # "session"
    <2>1. Known(r, OwnerOf[k], k) /\ order' = Trim(Set(order, k))
      BY <1>4 DEF Answer
    <2>2. k \in Keys
      BY <1>1, <1>4 DEF Sound, Reading, KeyOf, Source
    <2>3. req'[r].via = k
      BY <1>1, <2>1 DEF Known, Request
    <2>. HIDE DEF k
    <2>. QED
      BY <2>1, <2>2, <2>3, TrimOrdered
  <1>. QED
    BY <1>2, <1>3, <1>4

LEMMA OrderStep == Inv /\ Ordered(order) /\ [Next]_vars => Ordered(order)'
  <1>. SUFFICES ASSUME Inv, Ordered(order), [Next]_vars PROVE Ordered(order')
    BY DEF Ordered
  <1>1. ASSUME NEW r \in Requests, Ask(r) PROVE Ordered(order')
    BY <1>1, RemoveFirstOrdered DEF Ask
  <1>2. ASSUME NEW r \in Requests, Answer(r) PROVE Ordered(order')
    BY <1>2, AnswerOrdered
  <1>3. CASE UNCHANGED order
    BY <1>3
  <1>. QED
    BY <1>1, <1>2, <1>3 DEF Next, vars, Arrives, Skip, Hit, Read, Revoke, Tick

\* Whatever verifications overlap, the Map stays within its limit and never
\* drops the entry just remembered.
LEMMA RememberedStep ==
    ASSUME Inv, Ordered(order), [Next]_vars, NEW r \in Requests,
           req[r].at = "read", req'[r].at = "known", req'[r].via # NoKey
    PROVE  \E i \in DOMAIN order' : order'[i] = req'[r].via
  <1>1. req \in [Requests -> Request]
    BY DEF Inv, Typed
  <1>2. Answer(r) \/ ~Answer(r)
    OBVIOUS
  <1>3. CASE Answer(r)
    BY <1>3, AnswerOrdered
  <1>4. CASE ~Answer(r)
    <2>1. \A q \in Requests, c \in Credentials : Arrives(q, c) => req'[r] = req[r] \/ q = r
      BY <1>1 DEF Arrives
    <2>2. \A q \in Requests : Skip(q) \/ Hit(q) \/ Ask(q) \/ Read(q) \/ Answer(q)
                                  => req'[r] = req[r] \/ q = r
      BY <1>1 DEF Skip, NextTurn, Hit, Known, Ask, Read, Answer
    <2>3. req'[r] = req[r]
      BY <1>4, <2>1, <2>2 DEF Next, vars, Arrives, Skip, Hit, Ask, Read, Revoke, Tick
    <2>. QED
      BY <2>3
  <1>. QED
    BY <1>2, <1>3, <1>4

LEMMA OrderInit == Init => Ordered(order)
  BY BoundsAssumption DEF Init, Ordered

\* The state is typed, and the Map holds few enough entries, one to a key.
THEOREM TypeCorrect == Spec => [](TypeOK /\ Ordered(order))
  <1>1. Inv /\ Ordered(order) => TypeOK
    BY DEF Inv, Typed, Request, Ordered, TypeOK
  <1>. QED
    BY <1>1, InvInit, InvStep, OrderInit, OrderStep, PTL DEF Spec

\* Whatever verifications overlap, the Map stays within its limit and keeps
\* the entry just remembered, for any limit and number of requests.
THEOREM TheRememberedIsKept == Spec => RememberedIsKept
  <1>1. Inv /\ Ordered(order) /\ [Next]_vars =>
            /\ Len(order') <= Limit
            /\ \A r \in Requests :
                  req[r].at = "read" /\ req'[r].at = "known" /\ req'[r].via # NoKey
                      => \E i \in DOMAIN order' : order'[i] = req'[r].via
    BY OrderStep, RememberedStep DEF Ordered
  <1>. QED
    BY <1>1, InvInit, InvStep, OrderInit, OrderStep, PTL DEF Spec, RememberedIsKept
===============================================================================
