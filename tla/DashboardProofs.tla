---------------------------- MODULE DashboardProofs ----------------------------
(***************************************************************************)
(* Proofs about Dashboard, for any sandboxes, keys and fetches under way   *)
(* together and any number of changes and faults.                          *)
(***************************************************************************)
EXTENDS Dashboard, TLAPS

CallType ==
    [do : {"none", "refresh", "destroy", "revoke", "create"},
     on : SUBSET (Boxes \cup Keys), read : BOOLEAN, ok : BOOLEAN,
     list : SUBSET (Boxes \cup Keys), mine : BOOLEAN,
     older : SUBSET Calls, passed : BOOLEAN]

\* A list that was read and has not arrived.
Waiting(c) == call[c].do = "refresh" /\ call[c].read

\* A refresh is of the page that is mounted, a create of a key, and only a list
\* on its way has been overtaken, by others on their way.
CallSound(c) ==
    /\ call[c].do = "refresh" => call[c].mine
    /\ call[c].do = "create" => call[c].on \subseteq Keys
    /\ ~Waiting(c) => call[c].older = {} /\ ~call[c].passed
    /\ \A d \in call[c].older : d # c /\ Waiting(d)

CallsSound == \A c \in Calls : CallSound(c)

\* The page will read the list again: it has been told to, or will be by the
\* answer to its own write.
Due(c) ==
    /\ call[c].mine
    /\ \/ call[c].do = "refresh" /\ ~call[c].read
       \/ call[c].do = "destroy"
       \/ call[c].do \in {"revoke", "create"} /\ call[c].read /\ call[c].ok

Told == queue > 0 \/ \E c \in Calls : Due(c)

\* The newest list on its way is what the server holds.
Fresh(c) ==
    /\ Waiting(c) /\ call[c].ok /\ call[c].older = {} /\ ~call[c].passed
    /\ call[c].list = Truth

FreshComes == \E c \in Calls :
    /\ Fresh(c)
    /\ \A d \in Calls \ {c} : Waiting(d) => c \in call[d].older \/ call[d].passed

\* The list shown is what the server holds, and no other is on its way that
\* would be applied unnoticed.
FreshShown == list = Truth /\ \A d \in Calls : Waiting(d) => call[d].passed

Current == page \in ListPages /\ ~missed => Told \/ FreshComes \/ FreshShown

Inv == TypeOK /\ CallsSound /\ Current
-----------------------------------------------------------------------------
(* What the building blocks do to the fetches *)

LEMMA FetchTyped ==
    ASSUME NEW do \in {"refresh", "destroy", "revoke", "create"},
           NEW on \in SUBSET (Boxes \cup Keys)
    PROVE  /\ NoCall \in CallType
           /\ Fetch(do, on) \in CallType
           /\ Fetch(do, on).do = do /\ Fetch(do, on).on = on
           /\ Fetch(do, on).mine /\ ~Fetch(do, on).read
           /\ Fetch(do, on).older = {} /\ ~Fetch(do, on).passed
  BY DEF NoCall, Fetch, CallType

LEMMA TypedRecords ==
    ASSUME NEW r \in CallType, NEW o \in SUBSET Calls, NEW b \in BOOLEAN,
           NEW e \in BOOLEAN, NEW l \in SUBSET (Boxes \cup Keys)
    PROVE  /\ [r EXCEPT !.older = o] \in CallType
           /\ [r EXCEPT !.older = o, !.passed = b] \in CallType
           /\ [r EXCEPT !.mine = b] \in CallType
           /\ [r EXCEPT !.read = b, !.ok = e] \in CallType
           /\ [r EXCEPT !.read = b, !.ok = e, !.list = l] \in CallType
  BY DEF CallType

\* An answer has been applied or lost.
LEMMA AppliedEffect ==
    ASSUME call \in [Calls -> CallType], NEW c \in Calls
    PROVE  /\ Applied(c) \in [Calls -> CallType]
           /\ Applied(c)[c] = NoCall
           /\ \A d \in Calls \ {c} :
                 /\ Applied(c)[d].do = call[d].do /\ Applied(c)[d].on = call[d].on
                 /\ Applied(c)[d].read = call[d].read
                 /\ Applied(c)[d].ok = call[d].ok /\ Applied(c)[d].list = call[d].list
                 /\ Applied(c)[d].mine = call[d].mine
                 /\ Applied(c)[d].older = call[d].older \ {c}
                 /\ Applied(c)[d].passed <=> call[d].passed \/ c \in call[d].older
  <1>. DEFINE b(d) == call[d].passed \/ c \in call[d].older
              new(d) == [call[d] EXCEPT !.older = call[d].older \ {c}, !.passed = b(d)]
  <1>1. NoCall \in CallType
    BY FetchTyped
  <1>2. ASSUME NEW d \in Calls
        PROVE  /\ new(d) \in CallType
               /\ new(d).do = call[d].do /\ new(d).on = call[d].on /\ new(d).read = call[d].read
               /\ new(d).ok = call[d].ok /\ new(d).list = call[d].list
               /\ new(d).mine = call[d].mine
               /\ new(d).older = call[d].older \ {c}
               /\ new(d).passed <=> b(d)
    <2>1. call[d] \in CallType /\ call[d].older \ {c} \in SUBSET Calls
      BY DEF CallType
    <2>2. b(d) \in BOOLEAN
      OBVIOUS
    <2>3. new(d) \in CallType
      <3>. HIDE DEF b
      <3>. QED
        BY <2>1, <2>2, TypedRecords
    <2>4. /\ new(d).do = call[d].do /\ new(d).on = call[d].on /\ new(d).read = call[d].read
          /\ new(d).ok = call[d].ok /\ new(d).list = call[d].list
          /\ new(d).mine = call[d].mine
          /\ new(d).older = call[d].older \ {c}
          /\ new(d).passed = b(d)
      <3>. HIDE DEF b
      <3>. QED
        BY <2>1 DEF CallType
    <2>. QED
      BY <2>3, <2>4
  <1>3. Applied(c) = [d \in Calls |-> IF d = c THEN NoCall ELSE new(d)]
    BY DEF Applied
  <1>. HIDE DEF new, b
  <1>4. Applied(c)[c] = NoCall /\ \A d \in Calls \ {c} : Applied(c)[d] = new(d)
    BY <1>3
  <1>5. Applied(c) \in [Calls -> CallType]
    BY <1>1, <1>2, <1>3
  <1>. QED
    BY <1>2, <1>4, <1>5 DEF b

\* A newer list has been read.
LEMMA NewestEffect ==
    ASSUME call \in [Calls -> CallType], NEW c \in Calls
    PROVE  /\ Newest(c) \in [Calls -> CallType]
           /\ Newest(c)[c] = call[c]
           /\ \A d \in Calls :
                 /\ Newest(c)[d].do = call[d].do /\ Newest(c)[d].on = call[d].on
                 /\ Newest(c)[d].read = call[d].read
                 /\ Newest(c)[d].ok = call[d].ok /\ Newest(c)[d].list = call[d].list
                 /\ Newest(c)[d].mine = call[d].mine
                 /\ Newest(c)[d].passed = call[d].passed
                 /\ Newest(c)[d].older = IF d # c /\ Waiting(d)
                                         THEN call[d].older \cup {c} ELSE call[d].older
  <1>. DEFINE new(d) == [call[d] EXCEPT !.older = call[d].older \cup {c}]
  <1>1. ASSUME NEW d \in Calls
        PROVE  /\ call[d] \in CallType /\ new(d) \in CallType
               /\ new(d).do = call[d].do /\ new(d).on = call[d].on /\ new(d).read = call[d].read
               /\ new(d).ok = call[d].ok /\ new(d).list = call[d].list
               /\ new(d).mine = call[d].mine /\ new(d).passed = call[d].passed
               /\ new(d).older = call[d].older \cup {c}
    <2>1. call[d] \in CallType /\ call[d].older \cup {c} \in SUBSET Calls
      BY DEF CallType
    <2>2. new(d) \in CallType
      BY <2>1, TypedRecords
    <2>. QED
      BY <2>1, <2>2 DEF CallType
  <1>2. Newest(c) = [d \in Calls |-> IF d # c /\ Waiting(d) THEN new(d) ELSE call[d]]
    BY DEF Newest, Waiting
  <1>. HIDE DEF new
  <1>3. Newest(c) \in [Calls -> CallType]
    BY <1>1, <1>2
  <1>4. \A d \in Calls : Newest(c)[d] = IF d # c /\ Waiting(d) THEN new(d) ELSE call[d]
    BY <1>2
  <1>. QED
    BY <1>1, <1>3, <1>4

\* What is left of the fetches of a page that is unmounted.
LEMMA UnmountedEffect ==
    ASSUME call \in [Calls -> CallType]
    PROVE  /\ Unmounted \in [Calls -> CallType]
           /\ \A d \in Calls :
                 /\ ~Unmounted[d].mine /\ Unmounted[d].do # "refresh" /\ ~Unmounted[d].read
                 /\ Unmounted[d] = NoCall \/
                       /\ call[d].do # "refresh" /\ ~call[d].read
                       /\ Unmounted[d].do = call[d].do /\ Unmounted[d].on = call[d].on
                       /\ Unmounted[d].older = call[d].older
                       /\ Unmounted[d].passed = call[d].passed
  <1>. DEFINE gone(d) == call[d].do = "refresh" \/ call[d].read
              left(d) == [call[d] EXCEPT !.mine = FALSE]
  <1>1. /\ NoCall \in CallType /\ ~NoCall.mine /\ NoCall.do # "refresh" /\ ~NoCall.read
    BY FetchTyped DEF NoCall
  <1>2. ASSUME NEW d \in Calls
        PROVE  /\ left(d) \in CallType /\ ~left(d).mine
               /\ left(d).do = call[d].do /\ left(d).on = call[d].on
               /\ left(d).read = call[d].read
               /\ left(d).older = call[d].older /\ left(d).passed = call[d].passed
    <2>1. call[d] \in CallType /\ FALSE \in BOOLEAN
      OBVIOUS
    <2>2. left(d) \in CallType
      BY <2>1, TypedRecords
    <2>. QED
      BY <2>1, <2>2 DEF CallType
  <1>3. Unmounted = [d \in Calls |-> IF gone(d) THEN NoCall ELSE left(d)]
    BY DEF Unmounted
  <1>. HIDE DEF left
  <1>4. Unmounted \in [Calls -> CallType]
    BY <1>1, <1>2, <1>3
  <1>. QED
    BY <1>1, <1>2, <1>3, <1>4
-----------------------------------------------------------------------------
(* Steps that leave every list on its way where it is *)

LEMMA CurrentKept ==
    ASSUME Current, UNCHANGED <<page, list>>, Truth' = Truth, ~missed' => ~missed,
           Told => Told',
           \A d \in Calls : /\ Waiting(d)' <=> Waiting(d)
                            /\ Waiting(d) => call'[d] = call[d]
    PROVE  Current'
  <1>. SUFFICES ASSUME page \in ListPages, ~missed, ~Told'
                PROVE  FreshComes' \/ FreshShown'
    BY DEF Current
  <1>1. CASE FreshComes
    BY <1>1 DEF FreshComes, Fresh, Waiting
  <1>2. CASE FreshShown
    BY <1>2 DEF FreshShown
  <1>. QED
    BY <1>1, <1>2 DEF Current

\* A fetch that is not a list on its way becomes another one that is not.
LEMMA OneFetch ==
    ASSUME call \in [Calls -> CallType], CallsSound, NEW c \in Calls, ~Waiting(c),
           NEW new \in CallType, call' = [call EXCEPT ![c] = new],
           new.do = "refresh" => new.mine /\ ~new.read,
           new.do = "create" => new.on \subseteq Keys,
           new.older = {}, ~new.passed
    PROVE  /\ call' \in [Calls -> CallType]
           /\ call'[c] = new /\ \A d \in Calls \ {c} : call'[d] = call[d]
           /\ CallsSound'
           /\ \A d \in Calls : /\ Waiting(d)' <=> Waiting(d)
                               /\ Waiting(d) => call'[d] = call[d]
  <1>1. /\ call' \in [Calls -> CallType]
        /\ call'[c] = new /\ \A d \in Calls \ {c} : call'[d] = call[d]
    OBVIOUS
  <1>2. \A d \in Calls : /\ Waiting(d)' <=> Waiting(d)
                         /\ Waiting(d) => call'[d] = call[d]
    BY <1>1 DEF Waiting
  <1>3. ASSUME NEW d \in Calls PROVE CallSound(d)'
    <2>1. CASE d = c
      BY <1>1, <2>1 DEF CallSound
    <2>2. CASE d # c
      <3>1. call[d].older \subseteq Calls /\ call'[d] = call[d] /\ CallSound(d)
        BY <1>1, <2>2 DEF CallType, CallsSound
      <3>2. CASE Waiting(d)
        BY <1>2, <3>1, <3>2 DEF CallSound
      <3>3. CASE ~Waiting(d)
        BY <1>2, <3>1, <3>3 DEF CallSound
      <3>. QED
        BY <3>2, <3>3
    <2>. QED
      BY <2>1, <2>2
  <1>. QED
    BY <1>1, <1>2, <1>3 DEF CallsSound

\* An event, or a change that is not announced.
LEMMA BroadcastEffect ==
    ASSUME queue \in Nat, missed \in BOOLEAN, Broadcast
    PROVE  /\ queue' \in Nat /\ missed' \in BOOLEAN
           /\ queue > 0 => queue' > 0
           /\ missed => missed'
           /\ page \in SandboxPages => queue' > 0 \/ missed'
  <1>1. CASE socket = "open"
    BY <1>1 DEF Broadcast
  <1>2. CASE socket # "open"
    BY <1>2 DEF Broadcast
  <1>. QED
    BY <1>1, <1>2

LEMMA SilentEffect ==
    ASSUME queue \in Nat, missed \in BOOLEAN, NEW pages, Silent(pages)
    PROVE  /\ queue' = queue /\ missed' \in BOOLEAN
           /\ missed => missed'
           /\ page \in pages => missed'
  BY DEF Silent

\* What happens outside the tab is announced, or was missed.
LEMMA OutsideStep ==
    ASSUME Inv, NEW id \in Boxes, BoxCreated(id) \/ BoxDestroyed(id) \/ BoxEvicted(id)
    PROVE  Inv'
  <1>. USE DEF OnServer
  <1>1. UNCHANGED <<session, page, list, call, socket, faults, valid>>
    BY DEF BoxCreated, BoxDestroyed, BoxEvicted
  <1>2. CallsSound'
    BY <1>1 DEF Inv, CallsSound, CallSound, Waiting
  <1>3. /\ open' \subseteq Boxes /\ used' \subseteq Boxes \cup Keys
        /\ changes' \in 0 .. MaxChanges
    BY BoundsAssumption
    DEF Inv, TypeOK, BoxCreated, BoxDestroyed, BoxEvicted, Outside
  <1>4. /\ queue' \in Nat /\ missed' \in BOOLEAN
        /\ queue > 0 => queue' > 0
        /\ missed => missed'
        /\ page \in SandboxPages => queue' > 0 \/ missed'
    <2>1. queue \in Nat /\ missed \in BOOLEAN
      BY DEF Inv, TypeOK
    <2>2. Broadcast \/ Silent(SandboxPages)
      BY DEF BoxCreated, BoxDestroyed, BoxEvicted
    <2>. QED
      BY <2>1, <2>2, BroadcastEffect, SilentEffect
  <1>5. TypeOK'
    BY <1>1, <1>3, <1>4 DEF Inv, TypeOK
  <1>6. CASE page \in SandboxPages
    BY <1>1, <1>2, <1>4, <1>5, <1>6 DEF Inv, Current, Told
  <1>7. CASE page = "keys"
    <2>1. Truth' = Truth
      BY <1>1, <1>7 DEF Truth
    <2>2. Told => Told'
      BY <1>1, <1>4 DEF Told, Due
    <2>3. ~missed' => ~missed
      BY <1>4
    <2>4. \A d \in Calls : /\ Waiting(d)' <=> Waiting(d)
                           /\ Waiting(d) => call'[d] = call[d]
      BY <1>1 DEF Waiting
    <2>. QED
      BY <1>1, <1>2, <1>5, <2>1, <2>2, <2>3, <2>4, CurrentKept DEF Inv
  <1>8. CASE page \notin ListPages
    BY <1>1, <1>2, <1>8, <1>5 DEF Inv, Current
  <1>. QED
    BY <1>7, <1>8, <1>6 DEF ListPages

\* Clicks are not answered yet.
LEMMA ClickStep ==
    ASSUME Inv, NEW c \in Calls, NEW do \in {"destroy", "revoke", "create"},
           NEW on \in SUBSET (Boxes \cup Keys), Click(c, do, on),
           do = "create" => on \subseteq Keys
    PROVE  Inv'
  <1>. DEFINE new == Fetch(do, on)
  <1>1. /\ call[c].do = "none" /\ call' = [call EXCEPT ![c] = new]
        /\ UNCHANGED <<serverVars, session, page, list, socket, queue, missed, faults>>
    BY DEF Click, Idle
  <1>2. /\ new \in CallType /\ new.do = do /\ new.on = on
        /\ new.older = {} /\ ~new.passed
    BY FetchTyped
  <1>. HIDE DEF new
  <1>3. call \in [Calls -> CallType] /\ CallsSound
    BY DEF Inv, TypeOK, CallType
  <1>4. ~Waiting(c)
    BY <1>1 DEF Waiting
  <1>5. /\ call' \in [Calls -> CallType] /\ CallsSound'
        /\ \A d \in Calls \ {c} : call'[d] = call[d]
        /\ \A d \in Calls : /\ Waiting(d)' <=> Waiting(d)
                            /\ Waiting(d) => call'[d] = call[d]
    BY <1>1, <1>2, <1>3, <1>4, OneFetch
  <1>6. Told => Told'
    BY <1>1, <1>5 DEF Told, Due
  <1>7. Truth' = Truth
    BY <1>1 DEF Truth, serverVars
  <1>8. TypeOK'
    BY <1>1, <1>5 DEF Inv, TypeOK, serverVars, CallType
  <1>. QED
    BY <1>1, <1>5, <1>6, <1>7, <1>8, CurrentKept DEF Inv

\* After its own write, and after an event, the page reads the list again.
LEMMA RefreshStep ==
    ASSUME Inv, NEW c \in Calls, EventArrives(c) \/ WriteAnswered(c)
    PROVE  Inv'
  <1>. DEFINE fetch == Fetch("refresh", {})
  <1>1. fetch \in CallType /\ fetch.do = "refresh" /\ fetch.mine /\ ~fetch.read
        /\ fetch.older = {} /\ ~fetch.passed
    BY FetchTyped
  <1>. HIDE DEF fetch
  <1>2. NoCall \in CallType /\ NoCall.do = "none" /\ NoCall.older = {} /\ ~NoCall.passed
    BY FetchTyped DEF NoCall
  <1>3. call \in [Calls -> CallType] /\ CallsSound
    BY DEF Inv, TypeOK, CallType
  <1>4. ~Waiting(c) /\ UNCHANGED <<serverVars, session, page, list, socket, missed, faults>>
    BY DEF EventArrives, WriteAnswered, Waiting, Idle
  <1>5. CASE call' = [call EXCEPT ![c] = fetch]
    <2>1. /\ call' \in [Calls -> CallType] /\ CallsSound' /\ call'[c] = fetch
      BY <1>1, <1>3, <1>4, <1>5, OneFetch
    <2>2. Told'
      BY <1>1, <2>1 DEF Told, Due
    <2>3. queue' \in Nat
      BY DEF EventArrives, WriteAnswered, Inv, TypeOK
    <2>4. TypeOK'
      BY <1>4, <2>1, <2>3 DEF Inv, TypeOK, serverVars, CallType
    <2>. QED
      BY <2>1, <2>2, <2>4 DEF Inv, Current
  <1>6. CASE /\ call' = [call EXCEPT ![c] = NoCall] /\ UNCHANGED queue
             /\ ~(call[c].mine /\ (call[c].do = "destroy" \/ call[c].ok))
             /\ call[c].do # "refresh"
    <2>1. /\ call' \in [Calls -> CallType] /\ CallsSound'
          /\ \A d \in Calls \ {c} : call'[d] = call[d]
          /\ \A d \in Calls : /\ Waiting(d)' <=> Waiting(d)
                              /\ Waiting(d) => call'[d] = call[d]
      BY <1>2, <1>3, <1>4, <1>6, OneFetch
    <2>2. Told => Told'
      BY <1>6, <2>1 DEF Told, Due
    <2>3. Truth' = Truth
      BY <1>4 DEF Truth, serverVars
    <2>4. TypeOK'
      BY <1>4, <1>6, <2>1 DEF Inv, TypeOK, serverVars, CallType
    <2>. QED
      BY <1>4, <2>1, <2>2, <2>3, <2>4, CurrentKept DEF Inv
  <1>. QED
    BY <1>5, <1>6 DEF EventArrives, WriteAnswered, fetch
-----------------------------------------------------------------------------
(* A write reaches the server *)

\* A write that is let in is announced or missed, or it is the page's own.
LEMMA EffectStep ==
    ASSUME Inv, NEW c \in Calls, Effect(c),
           call[c].do \in {"destroy", "revoke", "create"}
    PROVE  /\ open' \subseteq Boxes /\ valid' \subseteq Keys
           /\ used' \subseteq Boxes \cup Keys
           /\ queue' \in Nat /\ missed' \in BOOLEAN
           /\ queue > 0 => queue' > 0
           /\ missed => missed'
           /\ page \in SandboxPages /\ open' # open => queue' > 0 \/ missed'
           /\ page = "keys" /\ valid' # valid =>
                 missed' \/ (call[c].do \in {"revoke", "create"} /\ call[c].mine)
  <1>1. /\ open \subseteq Boxes /\ valid \subseteq Keys /\ used \subseteq Boxes \cup Keys
        /\ queue \in Nat /\ missed \in BOOLEAN
        /\ call[c].do = "create" => call[c].on \subseteq Keys
    BY DEF Inv, TypeOK, CallsSound, CallSound
  <1>2. CASE call[c].do = "destroy"
    <2>1. open' = open \ call[c].on /\ Broadcast /\ UNCHANGED <<valid, used>>
      BY <1>2 DEF Effect
    <2>. QED
      BY <1>1, <2>1, BroadcastEffect
  <1>3. CASE call[c].do \in {"revoke", "create"}
    <2>. DEFINE pages == IF call[c].mine THEN {} ELSE {"keys"}
    <2>1. /\ UNCHANGED open /\ Silent(pages)
          /\ \/ valid' = valid \ call[c].on /\ UNCHANGED used
             \/ /\ valid' = valid \cup call[c].on /\ used' = used \cup call[c].on
                /\ call[c].on \subseteq Keys
      BY <1>1, <1>3 DEF Effect
    <2>2. page = "keys" /\ ~call[c].mine => page \in pages
      OBVIOUS
    <2>. HIDE DEF pages
    <2>3. /\ queue' = queue /\ missed' \in BOOLEAN
          /\ missed => missed'
          /\ page \in pages => missed'
      BY <1>1, <2>1, SilentEffect
    <2>4. valid' \subseteq Keys /\ used' \subseteq Boxes \cup Keys
      BY <1>1, <2>1
    <2>. QED
      BY <1>1, <1>3, <2>1, <2>2, <2>3, <2>4
  <1>. QED
    BY <1>2, <1>3

LEMMA WriteStep ==
    ASSUME Inv, NEW c \in Calls, Write(c)
    PROVE  Inv'
  <1>. DEFINE new == [call[c] EXCEPT !.read = TRUE, !.ok = Accepted(c)]
  <1>1. /\ call[c].do \in {"destroy", "revoke", "create"} /\ ~call[c].read
        /\ call' = [call EXCEPT ![c] = new]
        /\ UNCHANGED <<session, page, list, socket, changes, faults>>
        /\ IF Accepted(c) THEN Effect(c) ELSE UNCHANGED <<open, valid, used, queue, missed>>
    BY DEF Write
  <1>2. call \in [Calls -> CallType] /\ CallsSound /\ call[c] \in CallType
    BY DEF Inv, TypeOK, CallType
  <1>3. ~Waiting(c) /\ call[c].older = {} /\ ~call[c].passed
        /\ (call[c].do = "create" => call[c].on \subseteq Keys)
    BY <1>1, <1>2 DEF Waiting, CallsSound, CallSound
  <1>4. /\ new \in CallType /\ new.read /\ (new.ok <=> Accepted(c))
        /\ new.do = call[c].do /\ new.on = call[c].on /\ new.mine = call[c].mine
        /\ new.older = {} /\ ~new.passed
    <2>1. ASSUME NEW b \in BOOLEAN
          PROVE  LET r == [call[c] EXCEPT !.read = TRUE, !.ok = b] IN
                 /\ r \in CallType /\ r.read /\ r.ok = b
                 /\ r.do = call[c].do /\ r.on = call[c].on /\ r.mine = call[c].mine
                 /\ r.older = call[c].older /\ r.passed = call[c].passed
      BY <1>2 DEF CallType
    <2>2. Accepted(c) \in BOOLEAN
      BY DEF Accepted
    <2>. QED
      BY <1>3, <2>1, <2>2
  <1>. HIDE DEF new
  <1>5. /\ call' \in [Calls -> CallType] /\ CallsSound'
        /\ call'[c] = new /\ \A d \in Calls \ {c} : call'[d] = call[d]
        /\ \A d \in Calls : /\ Waiting(d)' <=> Waiting(d)
                            /\ Waiting(d) => call'[d] = call[d]
    BY <1>1, <1>2, <1>3, <1>4, OneFetch
  <1>6. \A d \in Calls : Due(d) => Due(d)'
    BY <1>1, <1>4, <1>5 DEF Due
  <1>7. /\ open' \subseteq Boxes /\ valid' \subseteq Keys
        /\ used' \subseteq Boxes \cup Keys
        /\ queue' \in Nat /\ missed' \in BOOLEAN
        /\ queue > 0 => queue' > 0
        /\ missed => missed'
    <2>1. CASE Accepted(c)
      BY <1>1, <2>1, EffectStep
    <2>2. CASE ~Accepted(c)
      BY <1>1, <2>2 DEF Inv, TypeOK
    <2>. QED
      BY <2>1, <2>2
  <1>8. TypeOK'
    BY <1>1, <1>5, <1>7 DEF Inv, TypeOK, CallType
  <1>9. Told => Told'
    BY <1>6, <1>7 DEF Told
  <1>10. Current'
    <2>1. CASE Truth' = Truth
      BY <1>1, <1>5, <1>7, <1>9, <2>1, CurrentKept DEF Inv
    <2>2. CASE Truth' # Truth /\ page \in ListPages
      <3>1. Accepted(c) /\ Effect(c)
        BY <1>1, <2>2 DEF Truth
      <3>2. \/ page \in SandboxPages /\ open' # open
            \/ page = "keys" /\ valid' # valid
        BY <1>1, <2>2 DEF Truth, ListPages, SandboxPages
      <3>3. queue' > 0 \/ missed' \/ (call[c].do \in {"revoke", "create"} /\ call[c].mine)
        BY <1>1, <3>1, <3>2, EffectStep
      <3>4. call[c].do \in {"revoke", "create"} /\ call[c].mine => Due(c)'
        BY <1>4, <1>5, <3>1 DEF Due
      <3>. QED
        BY <3>3, <3>4 DEF Current, Told
    <2>3. CASE page \notin ListPages
      BY <1>1, <2>3 DEF Current
    <2>. QED
      BY <2>1, <2>2, <2>3
  <1>. QED
    BY <1>5, <1>8, <1>10 DEF Inv
-----------------------------------------------------------------------------
(* A list is read, arrives, or is lost *)

\* With a session, the list just read is fresh.
LEMMA ReadListStep ==
    ASSUME Inv, NEW c \in Calls, ReadList(c)
    PROVE  Inv'
  <1>. DEFINE new == [Newest(c)[c] EXCEPT !.read = TRUE, !.ok = session, !.list = Seen(c)]
  <1>1. call \in [Calls -> CallType] /\ CallsSound /\ call[c] \in CallType
        /\ session \in BOOLEAN /\ open \subseteq Boxes /\ valid \subseteq Keys
    BY DEF Inv, TypeOK, CallType
  <1>2. /\ call[c].do = "refresh" /\ ~call[c].read /\ call[c].mine
        /\ call[c].older = {} /\ ~call[c].passed
        /\ missed' = ~session
        /\ UNCHANGED <<serverVars, session, page, list, socket, queue, faults>>
    BY <1>1 DEF ReadList, CallsSound, CallSound, Waiting
  <1>3. /\ Newest(c) \in [Calls -> CallType]
        /\ Newest(c)[c] = call[c]
        /\ \A d \in Calls :
              /\ Newest(c)[d].do = call[d].do /\ Newest(c)[d].on = call[d].on
              /\ Newest(c)[d].read = call[d].read
              /\ Newest(c)[d].ok = call[d].ok /\ Newest(c)[d].list = call[d].list
              /\ Newest(c)[d].mine = call[d].mine
              /\ Newest(c)[d].passed = call[d].passed
              /\ Newest(c)[d].older = IF d # c /\ Waiting(d)
                                      THEN call[d].older \cup {c} ELSE call[d].older
    BY <1>1, NewestEffect
  <1>4. call' = [Newest(c) EXCEPT ![c] = new]
    BY <1>3 DEF ReadList
  <1>5. Seen(c) \subseteq Boxes \cup Keys /\ (session => Seen(c) = Truth)
    BY <1>1 DEF Seen, Truth
  <1>6. /\ new \in CallType /\ new.do = "refresh" /\ new.read /\ new.ok = session
        /\ new.list = Seen(c) /\ new.mine /\ new.older = {} /\ ~new.passed
    BY <1>1, <1>2, <1>3, <1>5 DEF CallType
  <1>. HIDE DEF new
  <1>7. call' \in [Calls -> CallType]
        /\ call'[c] = new /\ \A d \in Calls \ {c} : call'[d] = Newest(c)[d]
    BY <1>3, <1>4, <1>6
  <1>8. \A d \in Calls : Waiting(d)' <=> d = c \/ Waiting(d)
    BY <1>3, <1>6, <1>7 DEF Waiting
  <1>9. CallsSound'
    <2>. SUFFICES ASSUME NEW d \in Calls PROVE CallSound(d)'
      BY DEF CallsSound
    <2>1. CASE d = c
      BY <1>6, <1>7, <2>1 DEF CallSound
    <2>2. CASE d # c
      <3>1. CallSound(d) /\ call[d].older \subseteq Calls
        BY <1>1 DEF CallsSound, CallType
      <3>2. call'[d].older \subseteq call[d].older \cup {c}
        BY <1>3, <1>7, <2>2
      <3>3. \A e \in call'[d].older : e # d /\ Waiting(e)'
        BY <1>8, <2>2, <3>1, <3>2 DEF CallSound
      <3>4. ~Waiting(d)' => call'[d].older = {} /\ ~call'[d].passed
        BY <1>3, <1>7, <1>8, <2>2, <3>1 DEF CallSound
      <3>. QED
        BY <1>3, <1>7, <2>2, <3>1, <3>3, <3>4 DEF CallSound
    <2>. QED
      BY <2>1, <2>2
  <1>10. TypeOK'
    BY <1>1, <1>2, <1>7 DEF Inv, TypeOK, serverVars, CallType
  <1>11. ASSUME session PROVE FreshComes'
    <2>1. Fresh(c)'
      BY <1>2, <1>5, <1>6, <1>7, <1>8, <1>11 DEF Fresh, Truth, serverVars
    <2>2. ASSUME NEW d \in Calls \ {c}, Waiting(d)'
          PROVE  c \in call'[d].older
      BY <1>3, <1>7, <1>8, <2>2
    <2>. QED
      BY <2>1, <2>2 DEF FreshComes
  <1>. QED
    BY <1>2, <1>9, <1>10, <1>11 DEF Inv, Current

\* What Applied leaves is sound.
LEMMA AppliedSound ==
    ASSUME call \in [Calls -> CallType], CallsSound, NEW c \in Calls, call' = Applied(c)
    PROVE  /\ call' \in [Calls -> CallType]
           /\ CallsSound'
           /\ \A d \in Calls : Waiting(d)' <=> d # c /\ Waiting(d)
           /\ \A d \in Calls \ {c} :
                 /\ call'[d].do = call[d].do /\ call'[d].read = call[d].read
                 /\ call'[d].ok = call[d].ok /\ call'[d].list = call[d].list
                 /\ call'[d].mine = call[d].mine
                 /\ call'[d].older = call[d].older \ {c}
                 /\ call'[d].passed <=> call[d].passed \/ c \in call[d].older
  <1>1. /\ call' \in [Calls -> CallType] /\ call'[c] = NoCall
        /\ \A d \in Calls \ {c} :
              /\ call'[d].do = call[d].do /\ call'[d].on = call[d].on
              /\ call'[d].read = call[d].read
              /\ call'[d].ok = call[d].ok /\ call'[d].list = call[d].list
              /\ call'[d].mine = call[d].mine
              /\ call'[d].older = call[d].older \ {c}
              /\ call'[d].passed <=> call[d].passed \/ c \in call[d].older
    BY AppliedEffect
  <1>2. NoCall.do = "none" /\ NoCall.older = {} /\ ~NoCall.passed
    BY DEF NoCall
  <1>3. \A d \in Calls : Waiting(d)' <=> d # c /\ Waiting(d)
    BY <1>1, <1>2 DEF Waiting
  <1>4. ASSUME NEW d \in Calls PROVE CallSound(d)'
    <2>1. CASE d = c
      BY <1>1, <1>2, <2>1 DEF CallSound
    <2>2. CASE d # c
      <3>1. CallSound(d) /\ call[d].older \subseteq Calls
        BY DEF CallsSound, CallType
      <3>2. \A e \in call'[d].older : e # d /\ Waiting(e)'
        BY <1>1, <1>3, <2>2, <3>1 DEF CallSound
      <3>3. ~Waiting(d)' => call'[d].older = {} /\ ~call'[d].passed
        BY <1>1, <1>3, <2>2, <3>1 DEF CallSound
      <3>. QED
        BY <1>1, <2>2, <3>1, <3>2, <3>3 DEF CallSound
    <2>. QED
      BY <2>1, <2>2
  <1>. QED
    BY <1>1, <1>3, <1>4 DEF CallsSound

\* The list that arrives was the fresh one, or the fresh one is still to come,
\* or it was read before the one shown and counts as missed.
LEMMA ListArrivesStep ==
    ASSUME Inv, NEW c \in Calls, ListArrives(c)
    PROVE  Inv'
  <1>1. call \in [Calls -> CallType] /\ CallsSound /\ call[c] \in CallType
    BY DEF Inv, TypeOK, CallType
  <1>2. /\ Waiting(c) /\ call' = Applied(c)
        /\ UNCHANGED <<serverVars, session, page, socket, queue, faults>>
        /\ \/ /\ call[c].ok \/ page # "keys"
              /\ list' = call[c].list /\ missed' = (missed \/ call[c].passed)
           \/ /\ ~call[c].ok
              /\ UNCHANGED <<list, missed>>
    BY DEF ListArrives, Waiting
  <1>3. /\ call' \in [Calls -> CallType]
        /\ CallsSound'
        /\ \A d \in Calls : Waiting(d)' <=> d # c /\ Waiting(d)
        /\ \A d \in Calls \ {c} :
              /\ call'[d].do = call[d].do /\ call'[d].read = call[d].read
              /\ call'[d].ok = call[d].ok /\ call'[d].list = call[d].list
              /\ call'[d].mine = call[d].mine
              /\ call'[d].older = call[d].older \ {c}
              /\ call'[d].passed <=> call[d].passed \/ c \in call[d].older
    BY <1>1, <1>2, AppliedSound
  <1>4. TypeOK'
    <2>1. missed' \in BOOLEAN /\ list' \subseteq Boxes \cup Keys
      BY <1>1, <1>2 DEF Inv, TypeOK, CallType
    <2>. QED
      BY <1>2, <1>3, <2>1 DEF Inv, TypeOK, serverVars, CallType
  <1>5. Truth' = Truth
    BY <1>2 DEF Truth, serverVars
  <1>6. Told => Told'
    <2>1. ~Due(c)
      BY <1>2 DEF Due, Waiting
    <2>2. \A d \in Calls \ {c} : Due(d) => Due(d)'
      BY <1>3 DEF Due
    <2>. QED
      BY <1>2, <2>1, <2>2 DEF Told
  <1>7. ASSUME page \in ListPages, ~missed', ~Told
        PROVE  FreshComes' \/ FreshShown'
    <2>1. ~missed
      BY <1>2, <1>7
    <2>2. ASSUME NEW f \in Calls, Fresh(f),
                 \A d \in Calls \ {f} : Waiting(d) => f \in call[d].older \/ call[d].passed
          PROVE  FreshComes' \/ FreshShown'
      <3>1. CASE f = c
        <4>1. list' = Truth
          BY <1>2, <2>2, <3>1 DEF Fresh
        <4>2. \A d \in Calls : Waiting(d)' => call'[d].passed
          BY <1>3, <2>2, <3>1
        <4>. QED
          BY <1>5, <4>1, <4>2 DEF FreshShown
      <3>2. CASE f # c
        <4>1. Fresh(f)'
          BY <1>3, <1>5, <2>2, <3>2 DEF Fresh
        <4>2. \A d \in Calls \ {f} : Waiting(d)' => f \in call'[d].older \/ call'[d].passed
          BY <1>3, <2>2, <3>2
        <4>. QED
          BY <4>1, <4>2 DEF FreshComes
      <3>. QED
        BY <3>1, <3>2
    <2>3. CASE FreshShown
      <3>1. call[c].passed
        BY <1>2, <2>3 DEF FreshShown
      <3>2. UNCHANGED list
        BY <1>2, <1>7, <3>1
      <3>3. \A d \in Calls : Waiting(d)' => call'[d].passed
        BY <1>3, <2>3 DEF FreshShown
      <3>. QED
        BY <1>5, <2>3, <3>2, <3>3 DEF FreshShown
    <2>. QED
      BY <1>7, <2>1, <2>2, <2>3 DEF Inv, Current, FreshComes
  <1>8. Current'
    BY <1>2, <1>6, <1>7 DEF Current
  <1>. QED
    BY <1>3, <1>4, <1>8 DEF Inv

\* A fetch of this page that fails counts as missed; one of an earlier page
\* was a write.
LEMMA FetchFailsStep ==
    ASSUME Inv, NEW c \in Calls, FetchFails(c)
    PROVE  Inv'
  <1>1. call \in [Calls -> CallType] /\ CallsSound /\ call[c] \in CallType
    BY DEF Inv, TypeOK, CallType
  <1>2. /\ faults < MaxFaults /\ faults' = faults + 1
        /\ missed' = (missed \/ call[c].mine)
        /\ UNCHANGED <<serverVars, session, page, list, socket, queue>>
    BY DEF FetchFails
  <1>3. call' = Applied(c)
    <2>1. Applied(c) \in [Calls -> CallType] /\ Applied(c)[c] = NoCall
      BY <1>1, AppliedEffect
    <2>. QED
      BY <2>1 DEF FetchFails
  <1>4. /\ call' \in [Calls -> CallType]
        /\ CallsSound'
        /\ \A d \in Calls : Waiting(d)' <=> d # c /\ Waiting(d)
        /\ \A d \in Calls \ {c} :
              /\ call'[d].do = call[d].do /\ call'[d].read = call[d].read
              /\ call'[d].ok = call[d].ok /\ call'[d].list = call[d].list
              /\ call'[d].mine = call[d].mine
              /\ call'[d].older = call[d].older \ {c}
              /\ call'[d].passed <=> call[d].passed \/ c \in call[d].older
    BY <1>1, <1>3, AppliedSound
  <1>5. TypeOK'
    <2>1. missed' \in BOOLEAN
      BY <1>2
    <2>2. faults' \in 0 .. MaxFaults
      BY <1>2, BoundsAssumption DEF Inv, TypeOK
    <2>. QED
      BY <1>2, <1>4, <2>1, <2>2 DEF Inv, TypeOK, serverVars, CallType
  <1>6. ASSUME ~missed' PROVE Current'
    <2>1. ~missed /\ ~call[c].mine
      BY <1>2, <1>6
    <2>2. ~Waiting(c) /\ ~Due(c)
      BY <1>1, <2>1 DEF CallsSound, CallSound, Waiting, Due
    <2>3. \A d \in Calls \ {c} : c \notin call[d].older
      BY <1>1, <2>2 DEF CallsSound, CallSound
    <2>4. Told => Told'
      BY <1>2, <1>4, <2>2 DEF Told, Due
    <2>5. Truth' = Truth
      BY <1>2 DEF Truth, serverVars
    <2>6. FreshComes => FreshComes'
      <3>. SUFFICES ASSUME NEW f \in Calls, Fresh(f),
                           \A d \in Calls \ {f} :
                              Waiting(d) => f \in call[d].older \/ call[d].passed
                    PROVE  FreshComes'
        BY DEF FreshComes
      <3>1. f # c
        BY <2>2 DEF Fresh
      <3>2. Fresh(f)'
        BY <1>4, <2>3, <2>5, <3>1 DEF Fresh
      <3>3. \A d \in Calls \ {f} : Waiting(d)' => f \in call'[d].older \/ call'[d].passed
        BY <1>4, <3>1
      <3>. QED
        BY <3>2, <3>3 DEF FreshComes
    <2>7. FreshShown => FreshShown'
      BY <1>2, <1>4, <2>5 DEF FreshShown
    <2>. QED
      BY <1>2, <2>1, <2>4, <2>6, <2>7 DEF Inv, Current
  <1>7. Current'
    BY <1>6 DEF Current
  <1>. QED
    BY <1>4, <1>5, <1>7 DEF Inv
-----------------------------------------------------------------------------
(* The socket, the session and the pages *)

LEMMA UnmountedSound ==
    ASSUME call \in [Calls -> CallType], CallsSound, NEW d \in Calls
    PROVE  /\ Unmounted[d].do # "refresh"
           /\ Unmounted[d].do = "create" => Unmounted[d].on \subseteq Keys
           /\ Unmounted[d].older = {} /\ ~Unmounted[d].passed
  <1>1. /\ Unmounted[d].do # "refresh"
        /\ Unmounted[d] = NoCall \/
              /\ call[d].do # "refresh" /\ ~call[d].read
              /\ Unmounted[d].do = call[d].do /\ Unmounted[d].on = call[d].on
              /\ Unmounted[d].older = call[d].older
              /\ Unmounted[d].passed = call[d].passed
    BY UnmountedEffect
  <1>2. NoCall.do = "none" /\ NoCall.older = {} /\ ~NoCall.passed
    BY DEF NoCall
  <1>. QED
    BY <1>1, <1>2 DEF CallsSound, CallSound, Waiting

\* A new page begins with its first fetch.
LEMMA MountStep ==
    ASSUME Inv, NEW c \in Calls, NEW p \in ListPages, Mount(c, p), session' \in BOOLEAN
    PROVE  Inv'
  <1>. DEFINE fetch == Fetch("refresh", {})
  <1>1. call \in [Calls -> CallType] /\ CallsSound
    BY DEF Inv, TypeOK, CallType
  <1>2. fetch \in CallType /\ fetch.do = "refresh" /\ fetch.mine /\ ~fetch.read
        /\ fetch.older = {} /\ ~fetch.passed
    BY FetchTyped
  <1>. HIDE DEF fetch
  <1>3. Unmounted \in [Calls -> CallType]
    BY <1>1, UnmountedEffect
  <1>4. /\ call' = [Unmounted EXCEPT ![c] = fetch]
        /\ page' = p /\ list' = {} /\ queue' = 0 /\ missed' = FALSE
        /\ socket' \in {"none", "connecting"}
        /\ UNCHANGED <<serverVars, faults>>
    BY DEF Mount, fetch
  <1>5. /\ call' \in [Calls -> CallType] /\ call'[c] = fetch
        /\ \A d \in Calls \ {c} : call'[d] = Unmounted[d]
    BY <1>2, <1>3, <1>4
  <1>6. CallsSound'
    <2>. SUFFICES ASSUME NEW d \in Calls PROVE CallSound(d)'
      BY DEF CallsSound
    <2>1. CASE d = c
      BY <1>2, <1>5, <2>1 DEF CallSound
    <2>2. CASE d # c
      BY <1>1, <1>5, <2>2, UnmountedSound DEF CallSound
    <2>. QED
      BY <2>1, <2>2
  <1>7. Told'
    BY <1>2, <1>5 DEF Told, Due
  <1>8. TypeOK'
    BY <1>4, <1>5 DEF Inv, TypeOK, serverVars, CallType
  <1>. QED
    BY <1>6, <1>7, <1>8 DEF Inv, Current

LEMMA SignOutStep ==
    ASSUME Inv, SignOut
    PROVE  Inv'
  <1>1. call \in [Calls -> CallType] /\ CallsSound
    BY DEF Inv, TypeOK, CallType
  <1>2. call' \in [Calls -> CallType] /\ call' = Unmounted
    BY <1>1, UnmountedEffect DEF SignOut
  <1>3. CallsSound'
    BY <1>1, <1>2, UnmountedSound DEF CallsSound, CallSound
  <1>4. TypeOK'
    BY <1>2 DEF SignOut, Inv, TypeOK, serverVars, CallType
  <1>. QED
    BY <1>3, <1>4 DEF SignOut, Inv, Current, ListPages, SandboxPages

LEMMA SocketStep ==
    ASSUME Inv, Subscribed \/ SocketLost \/ SessionEnds \/ UNCHANGED vars
    PROVE  Inv'
  <1>1. UNCHANGED <<serverVars, page, list, call>>
    BY DEF Subscribed, SocketLost, SessionEnds, vars
  <1>2. CallsSound'
    BY <1>1 DEF Inv, CallsSound, CallSound, Waiting
  <1>3. \/ UNCHANGED <<queue, missed>>
        \/ queue' = 0 /\ missed' = (missed \/ queue > 0)
    BY DEF Subscribed, SocketLost, SessionEnds, vars
  <1>4. queue' \in Nat /\ missed' \in BOOLEAN
    <2>1. CASE UNCHANGED <<queue, missed>>
      BY <2>1 DEF Inv, TypeOK
    <2>2. CASE queue' = 0 /\ missed' = (missed \/ queue > 0)
      BY <2>2
    <2>. QED
      BY <1>3, <2>1, <2>2
  <1>5. TypeOK'
    <2>1. faults' \in 0 .. MaxFaults
      BY BoundsAssumption DEF Subscribed, SocketLost, SessionEnds, vars, Inv, TypeOK
    <2>2. session' \in BOOLEAN /\ socket' \in {"none", "connecting", "open", "dead"}
      BY DEF Subscribed, SocketLost, SessionEnds, vars, Inv, TypeOK
    <2>. QED
      BY <1>1, <1>4, <2>1, <2>2 DEF Inv, TypeOK, serverVars
  <1>6. ASSUME ~missed' PROVE Current'
    <2>1. ~missed /\ (queue > 0 => queue' > 0)
      BY <1>3, <1>6 DEF Inv, TypeOK
    <2>2. Told => Told'
      BY <1>1, <2>1 DEF Told, Due
    <2>3. Truth' = Truth
      BY <1>1 DEF Truth, serverVars
    <2>4. \A d \in Calls : /\ Waiting(d)' <=> Waiting(d)
                           /\ Waiting(d) => call'[d] = call[d]
      BY <1>1 DEF Waiting
    <2>. QED
      BY <1>1, <2>1, <2>2, <2>3, <2>4, CurrentKept DEF Inv
  <1>7. Current'
    BY <1>6 DEF Current
  <1>. QED
    BY <1>2, <1>5, <1>7 DEF Inv
-----------------------------------------------------------------------------
LEMMA InvInit == Init => Inv
  <1>. SUFFICES ASSUME Init PROVE Inv
    OBVIOUS
  <1>1. NoCall \in CallType /\ NoCall.do = "none" /\ NoCall.older = {} /\ ~NoCall.passed
    BY FetchTyped DEF NoCall
  <1>2. \A c \in Calls : call[c] = NoCall
    BY DEF Init
  <1>3. CallsSound
    BY <1>1, <1>2 DEF CallsSound, CallSound
  <1>4. TypeOK
    <2>1. call \in [Calls -> CallType]
      BY <1>1 DEF Init
    <2>2. 0 \in 0 .. MaxChanges /\ 0 \in 0 .. MaxFaults
      BY BoundsAssumption
    <2>. QED
      BY <2>1, <2>2 DEF Init, TypeOK, CallType
  <1>. QED
    BY <1>3, <1>4 DEF Init, Inv, Current, ListPages, SandboxPages

LEMMA InvStep == Inv /\ [Next]_vars => Inv'
  <1>. SUFFICES ASSUME Inv, [Next]_vars PROVE Inv'
    OBVIOUS
  <1>1. ASSUME NEW c \in Calls, NEW id \in Boxes, Destroy(c, id) PROVE Inv'
    BY <1>1, ClickStep DEF Destroy
  <1>2. ASSUME NEW c \in Calls, NEW id \in Keys, Revoke(c, id) \/ Create(c, id) PROVE Inv'
    BY <1>2, ClickStep DEF Revoke, Create
  <1>3. ASSUME NEW c \in Calls, SignIn(c) PROVE Inv'
    BY <1>3, MountStep DEF SignIn, ListPages, SandboxPages
  <1>4. ASSUME NEW c \in Calls, NEW p \in ListPages, Navigate(c, p) PROVE Inv'
    BY <1>4, MountStep DEF Navigate, Inv, TypeOK
  <1>. QED
    BY <1>1, <1>2, <1>3, <1>4, OutsideStep, ReadListStep, ListArrivesStep, WriteStep,
       RefreshStep, FetchFailsStep, SignOutStep, SocketStep
    DEF Next, Answering

\* The state is typed, and every fetch is what the page may have under way.
THEOREM TypeCorrect == Spec => []TypeOK
  <1>1. Inv => TypeOK
    BY DEF Inv
  <1>. QED
    BY <1>1, InvInit, InvStep, PTL DEF Spec

\* A page that waits for nothing shows what the server holds, but for the
\* cases counted as missed, whatever fetches, events and clicks overlapped.
THEOREM QuietListsAreCurrent == Spec => []QuietListIsCurrent
  <1>1. Inv => QuietListIsCurrent
    <2>. SUFFICES ASSUME Inv, page \in ListPages, Quiet, ~missed
                  PROVE  list = Truth
      BY DEF QuietListIsCurrent
    <2>1. ~Told
      BY DEF Told, Due, Quiet, Inv, TypeOK
    <2>2. ~FreshComes
      BY DEF FreshComes, Fresh, Waiting, Quiet, Inv, CallsSound, CallSound
    <2>. QED
      BY <2>1, <2>2 DEF Inv, Current, FreshShown
  <1>. QED
    BY <1>1, InvInit, InvStep, PTL DEF Spec
=============================================================================
