------------------------------- MODULE Dashboard -------------------------------
(***************************************************************************)
(* A browser tab of the dashboard, the /events hub it listens to, and what *)
(* the API tells it.  The overview and the sandboxes page list the user's  *)
(* open sandboxes and fetch the list again after each event and each click *)
(* on Destroy; the API keys page does so after its own creates and revokes *)
(* only.  Fetches overlap and are answered in any order, and an answer     *)
(* that arrives after the page was left changes nothing.                   *)
(***************************************************************************)
EXTENDS Naturals, FiniteSets

CONSTANTS
    Boxes,       \* sandboxes the user may have
    Keys,        \* API keys the user may have
    Calls,       \* fetches of the tab under way together
    MaxChanges,  \* bound: sandboxes and keys created or ended outside the tab
    MaxFaults    \* bound: failed fetches, lost sockets, ended sessions
ASSUME BoundsAssumption == MaxChanges \in Nat /\ MaxFaults \in Nat
ASSUME ThingsAssumption == Boxes \cap Keys = {}

VARIABLES
    open,      \* the user's running sandboxes, in the server's table
    valid,     \* the user's API keys, in Better Auth's table
    used,      \* ids given so far
    session,   \* the browser's cookie names a live session
    page,      \* the page mounted
    list,      \* what its table shows
    call,      \* call[c] : a fetch, and the one that its answer starts
    socket,    \* the page's WebSocket, as a subscriber of the hub
    queue,     \* events sent to it and not received
    missed,    \* history: since the latest read, the page was not told
    changes, faults

serverVars == <<open, valid, used, changes>>
vars == <<serverVars, session, page, list, call, socket, queue, missed, faults>>

SandboxPages == {"overview", "sandboxes"}
ListPages == SandboxPages \cup {"keys"}

\* older: fetches read after this one; passed: one of them was applied before.
NoCall == [do |-> "none", on |-> {}, read |-> FALSE, ok |-> FALSE, list |-> {},
           mine |-> FALSE, older |-> {}, passed |-> FALSE]

TypeOK ==
    /\ open \subseteq Boxes /\ valid \subseteq Keys /\ used \subseteq Boxes \cup Keys
    /\ session \in BOOLEAN
    /\ page \in ListPages \cup {"login"}
    /\ list \subseteq Boxes \cup Keys
    /\ call \in [Calls -> [do : {"none", "refresh", "destroy", "revoke", "create"},
                           on : SUBSET (Boxes \cup Keys), read : BOOLEAN, ok : BOOLEAN,
                           list : SUBSET (Boxes \cup Keys), mine : BOOLEAN,
                           older : SUBSET Calls, passed : BOOLEAN]]
    /\ socket \in {"none", "connecting", "open", "dead"}
    /\ queue \in Nat
    /\ missed \in BOOLEAN
    /\ changes \in 0 .. MaxChanges /\ faults \in 0 .. MaxFaults

Init ==
    /\ open \in SUBSET Boxes /\ valid = {} /\ used = open
    /\ session = FALSE
    /\ page = "login"
    /\ list = {}
    /\ call = [c \in Calls |-> NoCall]
    /\ socket = "none" /\ queue = 0
    /\ missed = FALSE
    /\ changes = 0 /\ faults = 0

-------------------------------------------------------------------------------
\* The hub, and what happens on the server

\* What the list of the current page should show.
Truth == IF page = "keys" THEN valid ELSE open

\* broadcastEvent: the sockets that are open get the event.  A page that lists
\* sandboxes misses it when its socket is not.
Broadcast ==
    /\ queue' = IF socket = "open" THEN queue + 1 ELSE queue
    /\ missed' = (missed \/ (page \in SandboxPages /\ socket # "open"))

\* A change that nobody announces to the page.
Silent(pages) == missed' = (missed \/ page \in pages) /\ UNCHANGED queue

Outside == changes < MaxChanges /\ changes' = changes + 1

OnServer == UNCHANGED <<session, page, list, call, socket, faults>>

\* Through the API: a create or a destroy, both announced.
BoxCreated(id) ==
    /\ Outside /\ id \notin used
    /\ open' = open \cup {id} /\ used' = used \cup {id}
    /\ Broadcast
    /\ OnServer /\ UNCHANGED valid

BoxDestroyed(id) ==
    /\ Outside /\ id \in open
    /\ open' = open \ {id}
    /\ Broadcast
    /\ OnServer /\ UNCHANGED <<valid, used>>

\* evictExpired closes the record and announces nothing.
BoxEvicted(id) ==
    /\ Outside /\ id \in open
    /\ open' = open \ {id}
    /\ Silent(SandboxPages)
    /\ OnServer /\ UNCHANGED <<valid, used>>

-------------------------------------------------------------------------------
\* Fetches

Idle(c) == call[c].do = "none"

Fetch(do, on) == [NoCall EXCEPT !.do = do, !.on = on, !.mine = TRUE]

\* The answer the server gives to a refresh: without a session the sandbox
\* pages get an empty list for a 401.
Seen(c) == IF session THEN Truth ELSE {}

\* A read newer than those of the others that wait for their answer.
Newest(c) ==
    [d \in Calls |-> IF d # c /\ call[d].do = "refresh" /\ call[d].read
                     THEN [call[d] EXCEPT !.older = @ \cup {c}] ELSE call[d]]

ReadList(c) ==
    /\ call[c].do = "refresh" /\ ~call[c].read
    /\ call' = [Newest(c) EXCEPT ![c].read = TRUE, ![c].ok = session, ![c].list = Seen(c)]
    /\ missed' = ~session
    /\ UNCHANGED <<serverVars, session, page, list, socket, queue, faults>>

\* setState: the answers read before this one are out of order from now on.
Applied(c) ==
    [d \in Calls |-> IF d = c THEN NoCall
                     ELSE [call[d] EXCEPT !.older = @ \ {c},
                                          !.passed = @ \/ c \in call[d].older]]

ListArrives(c) ==
    /\ call[c].do = "refresh" /\ call[c].read
    /\ call' = Applied(c)
    /\ IF call[c].ok \/ page # "keys"
       THEN list' = call[c].list /\ missed' = (missed \/ call[c].passed)
       ELSE UNCHANGED <<list, missed>>
    /\ UNCHANGED <<serverVars, session, page, socket, queue, faults>>

\* What a write that is let in does: a destroy is announced, what happens to a
\* key only the page that did it knows.
Effect(c) ==
    \/ /\ call[c].do = "destroy"
       /\ open' = open \ call[c].on /\ Broadcast /\ UNCHANGED <<valid, used>>
    \/ /\ call[c].do = "revoke"
       /\ valid' = valid \ call[c].on /\ UNCHANGED <<open, used>>
       /\ Silent(IF call[c].mine THEN {} ELSE {"keys"})
    \/ /\ call[c].do = "create"
       /\ valid' = valid \cup call[c].on /\ used' = used \cup call[c].on /\ UNCHANGED open
       /\ Silent(IF call[c].mine THEN {} ELSE {"keys"})

\* The server accepts a write of a live session about something it has.
Accepted(c) ==
    session /\ (call[c].do = "create" \/ call[c].on \subseteq open \cup valid)

Write(c) ==
    /\ call[c].do \in {"destroy", "revoke", "create"} /\ ~call[c].read
    /\ call' = [call EXCEPT ![c].read = TRUE, ![c].ok = Accepted(c)]
    /\ IF Accepted(c) THEN Effect(c) ELSE UNCHANGED <<open, valid, used, queue, missed>>
    /\ UNCHANGED <<session, page, list, socket, changes, faults>>

\* Mutant: a revoke updates nothing on the page.
WriteAnsweredQuietly(c) ==
    /\ call[c].do \in {"destroy", "revoke", "create"} /\ call[c].read
    /\ call' = [call EXCEPT ![c] = IF @.mine /\ @.do = "destroy" THEN Fetch("refresh", {})
                                   ELSE NoCall]
    /\ UNCHANGED <<serverVars, session, page, list, socket, queue, missed, faults>>

\* destroySandbox ignores the status and refreshes in any case; a create or a
\* revoke that was refused shows its error instead.
WriteAnswered(c) ==
    /\ call[c].do \in {"destroy", "revoke", "create"} /\ call[c].read
    /\ call' = [call EXCEPT ![c] = IF @.mine /\ (@.do = "destroy" \/ @.ok)
                                   THEN Fetch("refresh", {}) ELSE NoCall]
    /\ UNCHANGED <<serverVars, session, page, list, socket, queue, missed, faults>>

\* fetch rejects, before or after the server has done its part: nothing
\* catches it, and the refresh that was due is lost.
FetchFails(c) ==
    /\ faults < MaxFaults /\ faults' = faults + 1
    /\ ~Idle(c)
    /\ call' = [Applied(c) EXCEPT ![c] = NoCall]
    /\ missed' = (missed \/ call[c].mine)
    /\ UNCHANGED <<serverVars, session, page, list, socket, queue>>

-------------------------------------------------------------------------------
\* Clicks on a list

Click(c, do, on) ==
    /\ Idle(c)
    /\ call' = [call EXCEPT ![c] = Fetch(do, on)]
    /\ UNCHANGED <<serverVars, session, page, list, socket, queue, missed, faults>>

\* The button stays enabled: a second click sends a second DELETE.
Destroy(c, id) == page \in SandboxPages /\ id \in list /\ Click(c, "destroy", {id})
Revoke(c, id)  == page = "keys" /\ id \in list /\ Click(c, "revoke", {id})

\* The form is disabled while a create of this page is under way.
Create(c, id) ==
    /\ page = "keys" /\ id \notin used
    /\ \A d \in Calls : call[d].do = "create" => ~call[d].mine /\ call[d].on # {id}
    /\ Click(c, "create", {id})

-------------------------------------------------------------------------------
\* The page's socket

\* The hub has authenticated the upgrade and added the subscriber.
Subscribed ==
    /\ socket = "connecting"
    /\ socket' = IF session THEN "open" ELSE "dead"
    /\ UNCHANGED <<serverVars, session, page, list, call, queue, missed, faults>>

\* Mutant: no second refresh while one is under way.
EventOnceAtATime(c) ==
    /\ queue > 0 /\ Idle(c)
    /\ queue' = queue - 1
    /\ call' = IF \E d \in Calls : call[d].do = "refresh" THEN call
               ELSE [call EXCEPT ![c] = Fetch("refresh", {})]
    /\ UNCHANGED <<serverVars, session, page, list, socket, missed, faults>>

\* onmessage: whatever the event says, the list is fetched again.
EventArrives(c) ==
    /\ queue > 0 /\ Idle(c)
    /\ queue' = queue - 1
    /\ call' = [call EXCEPT ![c] = Fetch("refresh", {})]
    /\ UNCHANGED <<serverVars, session, page, list, socket, missed, faults>>

\* The connection is lost, with what was on it; nothing connects again.
SocketLost ==
    /\ faults < MaxFaults /\ faults' = faults + 1
    /\ socket \in {"connecting", "open"}
    /\ socket' = "dead"
    /\ queue' = 0
    /\ missed' = (missed \/ queue > 0)
    /\ UNCHANGED <<serverVars, session, page, list, call>>

-------------------------------------------------------------------------------
\* Navigation

\* The old page is unmounted: an answer to a refresh of it changes nothing and
\* is dropped here, a write may still reach the server.
Unmounted ==
    [d \in Calls |-> IF call[d].do = "refresh" \/ call[d].read THEN NoCall
                     ELSE [call[d] EXCEPT !.mine = FALSE]]

\* Inside the layout: the session is not looked at again.  A new page starts
\* with an empty table and its first fetch.
Mount(c, p) ==
    /\ Unmounted[c] = NoCall
    /\ page' = p
    /\ list' = {}
    /\ call' = [Unmounted EXCEPT ![c] = Fetch("refresh", {})]
    /\ socket' = IF p = "keys" THEN "none" ELSE "connecting"
    /\ queue' = 0
    /\ missed' = FALSE
    /\ UNCHANGED <<serverVars, faults>>

Navigate(c, p) == page # "login" /\ page # p /\ Mount(c, p) /\ UNCHANGED session

\* signIn.email succeeds and the router goes to the overview.
SignIn(c) == page = "login" /\ session' = TRUE /\ Mount(c, "overview")

SignOut ==
    /\ page # "login"
    /\ page' = "login" /\ session' = FALSE
    /\ list' = {} /\ call' = Unmounted /\ socket' = "none" /\ queue' = 0
    /\ missed' = FALSE
    /\ UNCHANGED <<serverVars, faults>>

\* It expires, or another tab signs out: this one is not told.
SessionEnds ==
    /\ faults < MaxFaults /\ faults' = faults + 1
    /\ session' = FALSE
    /\ UNCHANGED <<serverVars, page, list, call, socket, queue, missed>>

-------------------------------------------------------------------------------
Answering(c) == ReadList(c) \/ ListArrives(c) \/ Write(c) \/ WriteAnswered(c)

Next ==
    \/ \E id \in Boxes : BoxCreated(id) \/ BoxDestroyed(id) \/ BoxEvicted(id)
    \/ \E c \in Calls :
        \/ Answering(c) \/ FetchFails(c) \/ EventArrives(c)
        \/ SignIn(c)
        \/ \E id \in Boxes : Destroy(c, id)
        \/ \E id \in Keys : Revoke(c, id) \/ Create(c, id)
        \/ \E p \in ListPages : Navigate(c, p)
    \/ Subscribed \/ SocketLost \/ SignOut \/ SessionEnds

Spec == Init /\ [][Next]_vars

\* Fetches are answered or fail, and the browser handles what has arrived.
Fairness ==
    /\ \A c \in Calls : WF_vars(Answering(c))
    /\ WF_vars(\E c \in Calls : EventArrives(c))

FairSpec == Spec /\ Fairness

-------------------------------------------------------------------------------
\* Properties

Quiet == queue = 0 /\ \A c \in Calls : ~call[c].mine

\* A page that waits for nothing shows what the server holds, whatever fetches,
\* events and clicks overlapped, but for the cases counted as missed since its
\* latest read: a change while the socket was not open, an eviction, a failed
\* fetch, an ended session, and an answer applied after a newer one.
QuietListIsCurrent == page \in ListPages /\ Quiet /\ ~missed => list = Truth

\* A list that differs from the server catches up with it, unless one of the
\* same cases occurred or the page is left.
ListCatchesUp ==
    \A p \in ListPages :
        page = p /\ list # Truth ~> page # p \/ list = Truth \/ missed
===============================================================================
