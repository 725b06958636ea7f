------------------------------- MODULE AgentCall -------------------------------
(***************************************************************************)
(* FirecrackerBackend.execute and callAgent on the host, agent.js in the   *)
(* guest, and the vsock stream between them.  Bytes are positions in a     *)
(* stream that TCP-like sockets may cut into chunks anywhere: to the host  *)
(* flow the handshake line, a length header and the answer; to the guest a *)
(* header and the request.  Host and guest each run a timer; time is       *)
(* counted in ticks, per call.                                             *)
(***************************************************************************)
EXTENDS Integers, FiniteSets

CONSTANTS
    Calls,         \* concurrent executes in one guest, each on its connection
    None,          \* nothing read, nothing run
    LineLen,       \* bytes of Firecracker's reply to CONNECT, newline last
    HeaderLen,     \* bytes of a length header: 4
    RequestLen, AnswerLen,
    Timeout,       \* timeoutMs of an execute, in ticks
    Grace          \* what execute adds to it for callAgent: 5000 ms

ASSUME LengthsAssumption ==
    /\ LineLen \in Nat \ {0} /\ HeaderLen \in Nat \ {0}
    /\ RequestLen \in Nat \ {0} /\ AnswerLen \in Nat \ {0}
    /\ Timeout \in Nat /\ Grace \in Nat /\ IsFiniteSet(Calls)
    /\ None \notin Calls /\ None \notin Int

VARIABLES
    host,     \* host[c] : callAgent's phase, the bytes received and consumed
    wire,     \* wire[c] : bytes written to the host, and whether it ended
    guest,    \* guest[c] : request bytes sent by the host and received
    job,      \* job[c] : the child process agent.js runs for c
    files,    \* /tmp/job-n.js : whose code it holds
    jobSeq,   \* jobs started
    agent,    \* the agent process is up
    age,      \* ticks since callAgent set its timer
    lag       \* history: of those, the ticks the guest's job did not account for

vars == <<host, wire, guest, job, files, jobSeq, agent, age, lag>>

Waiting == {"handshake", "payload"}

TypeOK ==
    /\ host \in [Calls -> [at : {"idle", "resolved", "rejected"} \cup Waiting,
                           got : Nat, taken : Nat, expected : Int \cup {None},
                           late : BOOLEAN, timedOut : BOOLEAN]]
    /\ wire \in [Calls -> [ok : BOOLEAN, sent : Nat, ended : BOOLEAN,
                           timedOut : BOOLEAN]]
    /\ guest \in [Calls -> [sent : BOOLEAN, got : Nat]]
    /\ job \in [Calls -> [at : {"none", "running", "exited", "killed", "closed"},
                          path : Nat, ran : Calls \cup {None}, ticks : Nat,
                          held : BOOLEAN]]
    /\ files \in [1 .. Cardinality(Calls) -> Calls \cup {None}]
    /\ jobSeq \in 0 .. Cardinality(Calls)
    /\ agent \in BOOLEAN
    /\ age \in [Calls -> 0 .. Timeout + Grace]
    /\ lag \in [Calls -> Nat]

Init ==
    /\ host = [c \in Calls |-> [at |-> "idle", got |-> 0, taken |-> 0,
                                expected |-> None, late |-> FALSE, timedOut |-> FALSE]]
    /\ wire = [c \in Calls |-> [ok |-> FALSE, sent |-> 0, ended |-> FALSE,
                                timedOut |-> FALSE]]
    /\ guest = [c \in Calls |-> [sent |-> FALSE, got |-> 0]]
    /\ job = [c \in Calls |-> [at |-> "none", path |-> 0, ran |-> None, ticks |-> 0,
                               held |-> FALSE]]
    /\ files = [n \in 1 .. Cardinality(Calls) |-> None]
    /\ jobSeq = 0
    /\ agent = TRUE
    /\ age = [c \in Calls |-> 0]
    /\ lag = [c \in Calls |-> 0]

-------------------------------------------------------------------------------
\* The host: callAgent

Pending(c) == host[c].at \in Waiting

OnHost == UNCHANGED <<wire, job, files, jobSeq, agent, age, lag>>

CallBegins(c) ==
    /\ host[c].at = "idle"
    /\ host' = [host EXCEPT ![c].at = "handshake"]
    /\ OnHost /\ UNCHANGED guest

\* What a length header read at position p says: the answer's only if p is
\* where the frame begins.
LengthAt(p) == IF p = LineLen THEN AnswerLen ELSE 0

\* Mutant: the newline is left in the buffer.
HandshakeLeavesNewline(h) ==
    IF h.at = "handshake" /\ h.got >= LineLen
    THEN [h EXCEPT !.at = "payload", !.taken = LineLen - 1] ELSE h

\* The handshake line is complete in the buffer: consume it with its newline.
Handshake(h) ==
    IF h.at = "handshake" /\ h.got >= LineLen
    THEN [h EXCEPT !.at = "payload", !.taken = LineLen] ELSE h

\* Four bytes of the payload are there: consume the header.
Header(h) ==
    IF h.at = "payload" /\ h.expected = None /\ h.got - h.taken >= HeaderLen
    THEN [h EXCEPT !.expected = LengthAt(h.taken), !.taken = @ + HeaderLen] ELSE h

\* The whole frame is there: finish.
Frame(c, h) ==
    IF h.at = "payload" /\ h.expected # None /\ h.got - h.taken >= h.expected
    THEN [h EXCEPT !.at = "resolved", !.timedOut = wire[c].timedOut] ELSE h

\* A chunk of n bytes: what it completes is handled in one go.  A line that is
\* not "OK ..." rejects; a good one makes the host send its request.
HostData(c, n) ==
    LET h == Handshake([host[c] EXCEPT !.got = @ + n]) IN
    /\ Pending(c)
    /\ host[c].got + n <= wire[c].sent
    /\ IF h.at = "payload" /\ ~wire[c].ok
       THEN host' = [host EXCEPT ![c] = [h EXCEPT !.at = "rejected"]] /\ UNCHANGED guest
       ELSE /\ host' = [host EXCEPT ![c] = Frame(c, Header(h))]
            /\ guest' = [guest EXCEPT ![c].sent = (h.at = "payload")]
    /\ OnHost

Rejects(c) ==
    /\ Pending(c)
    /\ host' = [host EXCEPT ![c].at = "rejected"]
    /\ OnHost /\ UNCHANGED guest

\* "end" comes after the last byte; "error" may come at any time.
HostEnd(c) == wire[c].ended /\ host[c].got = wire[c].sent /\ Rejects(c)
HostError(c) == Rejects(c)

\* Mutant: execute passes its own timeout to callAgent.
HostTimeoutNoGrace(c) ==
    /\ Pending(c)
    /\ age[c] = Timeout
    /\ host' = [host EXCEPT ![c].at = "rejected", ![c].late = TRUE]
    /\ OnHost /\ UNCHANGED guest

\* Mutant: callAgent sets no timer of its own.
HostNeverTimesOut(c) == FALSE

HostTimeout(c) ==
    /\ Pending(c)
    /\ age[c] = Timeout + Grace
    /\ host' = [host EXCEPT ![c].at = "rejected", ![c].late = TRUE]
    /\ OnHost /\ UNCHANGED guest

-------------------------------------------------------------------------------
\* The VMM and the guest: vsock bridge and agent.js

OnGuest == UNCHANGED <<host, age, lag>>

\* Firecracker answers CONNECT with a line, or closes when nobody listens; the
\* bridge behind it accepts, and closes when the agent is not there.
Connect(c) ==
    /\ Pending(c) /\ wire[c].sent = 0 /\ ~wire[c].ended
    /\ \/ agent /\ wire' = [wire EXCEPT ![c].ok = TRUE, ![c].sent = LineLen]
       \/ \E ok \in BOOLEAN :
              wire' = [wire EXCEPT ![c].ok = ok, ![c].sent = LineLen, ![c].ended = TRUE]
       \/ wire' = [wire EXCEPT ![c].ended = TRUE]
    /\ OnGuest /\ UNCHANGED <<guest, job, files, jobSeq, agent>>

\* respond: the frame and the end of the stream.
Respond(c, timedOut) ==
    wire' = [wire EXCEPT ![c].sent = @ + HeaderLen + AnswerLen, ![c].ended = TRUE,
                         ![c].timedOut = timedOut]

\* The child on the new job file; it may leave someone on its pipes.
Spawned(c) ==
    /\ \E held \in BOOLEAN :
           job' = [job EXCEPT ![c] = [@ EXCEPT !.at = "running", !.path = jobSeq',
                                               !.held = held]]
    /\ UNCHANGED wire

\* The "error" event of a child that could not be spawned responds.
SpawnError(c) == job' = [job EXCEPT ![c].at = "closed"] /\ Respond(c, FALSE)

\* A chunk of the request; the last one runs handle: the code goes to a file
\* of its own and a child is spawned on it.
GuestData(c, n) ==
    LET got == guest[c].got + n IN
    /\ agent /\ guest[c].sent /\ ~wire[c].ended
    /\ got <= HeaderLen + RequestLen
    /\ guest' = [guest EXCEPT ![c].got = got]
    /\ IF got < HeaderLen + RequestLen
       THEN UNCHANGED <<wire, job, files, jobSeq>>
       ELSE /\ jobSeq' = jobSeq + 1
            /\ files' = [files EXCEPT ![jobSeq'] = c]
            /\ Spawned(c) \/ SpawnError(c)
    /\ OnGuest /\ UNCHANGED agent

\* Mutant: one job file for all.
JobReadsLatest(c) ==
    /\ job[c].at = "running" /\ job[c].ran = None
    /\ job' = [job EXCEPT ![c].ran = files[jobSeq]]
    /\ OnGuest /\ UNCHANGED <<wire, guest, files, jobSeq, agent>>

\* node has started and reads the job file.
JobReads(c) ==
    /\ job[c].at = "running" /\ job[c].ran = None
    /\ job' = [job EXCEPT ![c].ran = files[job[c].path]]
    /\ OnGuest /\ UNCHANGED <<wire, guest, files, jobSeq, agent>>

\* The child exits; "close" waits for its pipes too, which a process the code
\* left behind may hold.
JobExits(c) ==
    /\ job[c].at = "running" /\ job[c].ran # None
    /\ job' = [job EXCEPT ![c].at = "exited"]
    /\ OnGuest /\ UNCHANGED <<wire, guest, files, jobSeq, agent>>

\* The kill timer, cleared only on close.
JobTimer(c) ==
    /\ agent
    /\ job[c].at \in {"running", "exited"} /\ job[c].ticks = Timeout
    /\ job' = [job EXCEPT ![c].at = "killed"]
    /\ OnGuest /\ UNCHANGED <<wire, guest, files, jobSeq, agent>>

JobCloses(c) ==
    /\ agent
    /\ job[c].at \in {"exited", "killed"} /\ ~job[c].held
    /\ job' = [job EXCEPT ![c].at = "closed"]
    /\ Respond(c, job[c].at = "killed")
    /\ OnGuest /\ UNCHANGED <<guest, files, jobSeq, agent>>

\* An exception in handle (the job file cannot be written) ends the agent, and
\* with it every connection.
AgentDies ==
    /\ agent
    /\ \E c \in Calls : guest[c].sent /\ guest[c].got < HeaderLen + RequestLen
    /\ agent' = FALSE
    /\ wire' = [c \in Calls |-> IF wire[c].ok THEN [wire[c] EXCEPT !.ended = TRUE]
                                ELSE wire[c]]
    /\ OnGuest /\ UNCHANGED <<guest, job, files, jobSeq>>

-------------------------------------------------------------------------------
\* Time

\* The child accounts for this tick: it runs, or left someone on its pipes.
Busy(c) ==
    \/ job[c].at = "running"
    \/ job[c].at = "exited" /\ job[c].held

Clocked(c) == job[c].at \in {"running", "exited"} /\ job[c].ticks < Timeout

\* Due timers fire before time goes on.
Tick ==
    /\ \E c \in Calls : Pending(c) \/ (agent /\ Clocked(c))
    /\ \A c \in Calls :
        /\ Pending(c) => age[c] < Timeout + Grace
        /\ agent /\ job[c].at \in {"running", "exited"} => job[c].ticks < Timeout
    /\ age' = [c \in Calls |-> IF Pending(c) THEN age[c] + 1 ELSE age[c]]
    /\ lag' = [c \in Calls |-> IF Pending(c) /\ ~Busy(c) THEN lag[c] + 1 ELSE lag[c]]
    /\ job' = [c \in Calls |-> IF Clocked(c) THEN [job[c] EXCEPT !.ticks = @ + 1]
                               ELSE job[c]]
    /\ UNCHANGED <<host, wire, guest, files, jobSeq, agent>>

Chunks == 1 .. LineLen + HeaderLen + AnswerLen + RequestLen

Next ==
    \/ \E c \in Calls :
        \/ CallBegins(c) \/ HostEnd(c) \/ HostError(c) \/ HostTimeout(c)
        \/ Connect(c) \/ JobReads(c) \/ JobExits(c) \/ JobTimer(c) \/ JobCloses(c)
        \/ \E n \in Chunks : HostData(c, n) \/ GuestData(c, n)
    \/ AgentDies \/ Tick

Spec == Init /\ [][Next]_vars

\* Timers fire and time goes on; nothing is assumed of the guest.
Fairness ==
    /\ WF_vars(Tick)
    /\ \A c \in Calls : WF_vars(HostTimeout(c)) /\ WF_vars(JobTimer(c))

FairSpec == Spec /\ Fairness

-------------------------------------------------------------------------------
\* Properties

\* However the stream is cut, a call that resolves has consumed exactly the
\* line and the header, and holds exactly the answer.
AnswerIsWhole ==
    \A c \in Calls : host[c].at = "resolved" =>
        /\ host[c].taken = LineLen + HeaderLen
        /\ host[c].expected = AnswerLen
        /\ wire[c].sent = LineLen + HeaderLen + AnswerLen

\* "Agent call timeout" is not the job's doing: the agent kills a job after
\* timeoutMs, so the host's timer fires only when connecting, delivering,
\* spawning and closing took the grace, or the agent was dead or the job's
\* pipes were held; and an answer says "timed out" only of a full timeout.
TimeoutsAreHonest ==
    \A c \in Calls :
        /\ host[c].late => lag[c] >= Grace \/ job[c].held \/ ~agent
        /\ host[c].at = "resolved" /\ host[c].timedOut => job[c].ticks = Timeout

\* A call is answered or fails once, its own code runs at most once and never
\* after the answer.
Outcome(c) ==
    CASE host[c].at = "idle" -> "idle"
      [] host[c].at = "resolved" -> "answered"
      [] host[c].at = "rejected" -> "failed"
      [] OTHER -> "asked"

Abstract == INSTANCE RequestResponse WITH
    outcome <- [c \in Calls |-> Outcome(c)],
    ran <- [c \in Calls |-> job[c].ran]

ImplementsRequestResponse == Abstract!Spec

\* Whatever the guest does, every call settles.
CallSettles == \A c \in Calls : Pending(c) ~> ~Pending(c)
===============================================================================
