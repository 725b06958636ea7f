---------------------------- MODULE AgentCallProofs ----------------------------
(***************************************************************************)
(* Theorems about AgentCall, for any finite set of concurrent calls, any   *)
(* lengths of the handshake line, the header, the request and the answer,  *)
(* any cut of the streams, and any timeout and grace.                      *)
(***************************************************************************)
EXTENDS AgentCall, FiniteSetTheorems, TLAPS

HostRecords == [at : {"idle", "resolved", "rejected"} \cup Waiting, got : Nat, taken : Nat,
                expected : Int \cup {None}, late : BOOLEAN, timedOut : BOOLEAN]
WireRecords == [ok : BOOLEAN, sent : Nat, ended : BOOLEAN, timedOut : BOOLEAN]
GuestRecords == [sent : BOOLEAN, got : Nat]
JobRecords == [at : {"none", "running", "exited", "killed", "closed"}, path : Nat,
               ran : Calls \cup {None}, ticks : Nat, held : BOOLEAN]

Typed ==
    /\ host \in [Calls -> HostRecords] /\ wire \in [Calls -> WireRecords]
    /\ guest \in [Calls -> GuestRecords] /\ job \in [Calls -> JobRecords]
    /\ files \in [1 .. Cardinality(Calls) -> Calls \cup {None}]
    /\ jobSeq \in Nat /\ agent \in BOOLEAN
    /\ age \in [Calls -> Nat] /\ lag \in [Calls -> Nat]

Total == LineLen + HeaderLen + AnswerLen

\* What callAgent has consumed when it is in phase h.at.
Parsed(h) ==
    /\ h.at \in {"idle", "handshake"} => h.taken = 0 /\ h.expected = None
    /\ h.at = "payload" => \/ h.taken = LineLen /\ h.expected = None
                           \/ h.taken = LineLen + HeaderLen /\ h.expected = AnswerLen
    /\ h.at = "payload" => h.got >= LineLen
    /\ h.at = "resolved" =>
           h.taken = LineLen + HeaderLen /\ h.expected = AnswerLen /\ h.got >= Total

\* The stream to the host holds nothing, the line, or the line and the answer.
Streamed(c) ==
    /\ wire[c].sent \in {0, LineLen, Total}
    /\ wire[c].sent = Total => wire[c].ended /\ job[c].at = "closed"
    /\ host[c].got <= wire[c].sent
    /\ guest[c].sent => host[c].at \notin {"idle", "handshake"} /\ wire[c].sent # 0

\* The job is started by the last byte of the request, which the host sends.
Jobbed(c) ==
    /\ job[c].at = "none" <=> guest[c].got < HeaderLen + RequestLen
    /\ job[c].at = "none" => ~job[c].held /\ job[c].ran = None
    /\ job[c].at # "none" => guest[c].sent
    /\ job[c].at \in {"running", "exited", "killed"} => ~agent \/ ~wire[c].ended
    /\ job[c].at = "running" => job[c].path \in 1 .. jobSeq /\ files[job[c].path] = c

\* Job numbers count the jobs.
Started == {c \in Calls : job[c].at # "none"}
Numbered == jobSeq = Cardinality(Started)

\* Time: of the ticks of a pending call, the job's timer has seen all but lag.
Timed(c) ==
    /\ job[c].ticks <= Timeout
    /\ job[c].at = "killed" => job[c].ticks = Timeout
    /\ wire[c].timedOut => job[c].at = "closed" /\ job[c].ticks = Timeout
    /\ host[c].timedOut => wire[c].timedOut
    /\ job[c].held \/ ~agent \/ age[c] - lag[c] <= job[c].ticks
    /\ host[c].late => lag[c] >= Grace \/ job[c].held \/ ~agent

Inv ==
    /\ Typed /\ Numbered
    /\ \A c \in Calls : Parsed(host[c])
    /\ \A c \in Calls : Streamed(c)
    /\ \A c \in Calls : Jobbed(c)
    /\ \A c \in Calls : Timed(c)

-------------------------------------------------------------------------------
LEMMA InitInv == Init => Inv
  <1>. SUFFICES ASSUME Init PROVE Inv
    OBVIOUS
  <1>. USE LengthsAssumption
  <1>1. Typed
    BY DEF Init, Typed, HostRecords, WireRecords, GuestRecords, JobRecords, Waiting
  <1>2. Numbered
    <2>1. Started = {}
      BY DEF Init, Started
    <2>. QED
      BY <2>1, FS_EmptySet DEF Init, Numbered
  <1>3. ASSUME NEW c \in Calls PROVE Parsed(host[c]) /\ Streamed(c) /\ Jobbed(c) /\ Timed(c)
    <2>1. /\ host[c].at = "idle" /\ host[c].got = 0 /\ host[c].taken = 0
          /\ host[c].expected = None /\ ~host[c].late /\ ~host[c].timedOut
      BY DEF Init
    <2>2. wire[c].sent = 0 /\ ~wire[c].ended /\ ~wire[c].timedOut
      BY DEF Init
    <2>3. ~guest[c].sent /\ guest[c].got = 0
      BY DEF Init
    <2>4. job[c].at = "none" /\ job[c].ran = None /\ job[c].ticks = 0 /\ ~job[c].held
      BY DEF Init
    <2>5. age[c] = 0 /\ lag[c] = 0
      BY DEF Init
    <2>. QED
      BY <2>1, <2>2, <2>3, <2>4, <2>5 DEF Parsed, Streamed, Jobbed, Timed, Total
  <1>. QED
    BY <1>1, <1>2, <1>3 DEF Inv

-------------------------------------------------------------------------------
\* The host

\* What a chunk does to the record of callAgent.
LEMMA ReceiveEffect ==
    ASSUME NEW h \in HostRecords, NEW n \in Nat, h.at \in Waiting, Parsed(h)
    PROVE  LET g == [h EXCEPT !.got = @ + n]
               s == Handshake(g)
           IN /\ g \in HostRecords /\ s \in HostRecords /\ Header(s) \in HostRecords
              /\ g.got = h.got + n /\ s.got = g.got /\ Header(s).got = g.got
              /\ s.at \in Waiting /\ Header(s).at = s.at
              /\ h.at = "payload" \/ g.got >= LineLen <=> s.at = "payload"
              /\ Parsed(s) /\ Parsed(Header(s))
              /\ s.late = h.late /\ Header(s).late = h.late
              /\ s.timedOut = h.timedOut /\ Header(s).timedOut = h.timedOut
  <1>. DEFINE g == [h EXCEPT !.got = @ + n]
              s == Handshake(g)
  <1>. USE LengthsAssumption DEF Waiting
  <1>1. /\ g \in HostRecords /\ g.got = h.got + n /\ g.at = h.at /\ g.taken = h.taken
        /\ g.expected = h.expected /\ g.late = h.late /\ g.timedOut = h.timedOut
    BY DEF HostRecords
  <1>. HIDE DEF g
  <1>2. /\ s \in HostRecords /\ s.got = g.got /\ s.expected = h.expected
        /\ s.late = h.late /\ s.timedOut = h.timedOut
        /\ \/ h.at = "handshake" /\ g.got >= LineLen /\ s.at = "payload" /\ s.taken = LineLen
           \/ /\ ~(h.at = "handshake" /\ g.got >= LineLen)
              /\ s.at = h.at /\ s.taken = h.taken
    BY <1>1 DEF Handshake, HostRecords
  <1>. HIDE DEF s
  <1>3. Parsed(s)
    BY <1>1, <1>2 DEF Parsed, HostRecords
  <1>4. /\ Header(s) \in HostRecords /\ Header(s).got = s.got /\ Header(s).at = s.at
        /\ Header(s).late = s.late /\ Header(s).timedOut = s.timedOut
        /\ \/ /\ s.at = "payload" /\ s.expected = None
              /\ Header(s).expected = LengthAt(s.taken) /\ Header(s).taken = s.taken + HeaderLen
           \/ Header(s) = s
    <2>1. CASE s.at = "payload" /\ s.expected = None /\ s.got - s.taken >= HeaderLen
      <3>1. LengthAt(s.taken) \in Int /\ s.taken + HeaderLen \in Nat
        BY <1>2 DEF LengthAt, HostRecords
      <3>2. PICK e \in Int, t \in Nat : e = LengthAt(s.taken) /\ t = s.taken + HeaderLen
        BY <3>1
      <3>3. Header(s) = [s EXCEPT !.expected = e, !.taken = t]
        BY <2>1, <3>2 DEF Header
      <3>4. /\ Header(s) \in HostRecords /\ Header(s).expected = e /\ Header(s).taken = t
            /\ Header(s).got = s.got /\ Header(s).at = s.at
            /\ Header(s).late = s.late /\ Header(s).timedOut = s.timedOut
        BY <1>2, <3>3 DEF HostRecords
      <3>. QED
        BY <2>1, <3>2, <3>4
    <2>2. CASE ~(s.at = "payload" /\ s.expected = None /\ s.got - s.taken >= HeaderLen)
      BY <1>2, <2>2 DEF Header
    <2>. QED
      BY <2>1, <2>2
  <1>5. Parsed(Header(s))
    BY <1>2, <1>3, <1>4 DEF Parsed, LengthAt
  <1>. QED
    BY <1>1, <1>2, <1>3, <1>4, <1>5 DEF g, s

\* A complete frame resolves the call, which then holds the whole answer.
LEMMA FrameEffect ==
    ASSUME NEW c \in Calls, NEW h \in HostRecords, h.at \in Waiting, Parsed(h),
           wire[c] \in WireRecords
    PROVE  /\ Frame(c, h) \in HostRecords /\ Parsed(Frame(c, h))
           /\ Frame(c, h).got = h.got /\ Frame(c, h).late = h.late
           /\ Frame(c, h).at \in {h.at, "resolved"}
           /\ Frame(c, h).at = "resolved" => h.at = "payload"
           /\ \/ Frame(c, h).timedOut = h.timedOut
              \/ Frame(c, h).timedOut = wire[c].timedOut
  <1>. USE LengthsAssumption DEF Waiting
  <1>1. CASE h.at = "payload" /\ h.expected # None /\ h.got - h.taken >= h.expected
    <2>. DEFINE r == [h EXCEPT !.at = "resolved", !.timedOut = wire[c].timedOut]
    <2>1. /\ r \in HostRecords /\ r.at = "resolved" /\ r.got = h.got /\ r.late = h.late
          /\ r.taken = h.taken /\ r.expected = h.expected /\ r.timedOut = wire[c].timedOut
      BY DEF HostRecords, WireRecords
    <2>2. Frame(c, h) = r
      BY <1>1 DEF Frame
    <2>. HIDE DEF r
    <2>3. h.got \in Nat /\ h.taken = LineLen + HeaderLen /\ h.expected = AnswerLen
      BY <1>1 DEF Parsed, HostRecords
    <2>4. Parsed(r)
      BY <1>1, <2>1, <2>3 DEF Parsed, Total
    <2>. QED
      BY <1>1, <2>1, <2>2, <2>4
  <1>2. CASE ~(h.at = "payload" /\ h.expected # None /\ h.got - h.taken >= h.expected)
    BY <1>2 DEF Frame
  <1>. QED
    BY <1>1, <1>2

\* A step of the host keeps the invariant if it does for its own call.
LEMMA HostStep ==
    ASSUME Inv, NEW c \in Calls, OnHost,
           host' \in [Calls -> HostRecords], guest' \in [Calls -> GuestRecords],
           \A d \in Calls : d # c => host'[d] = host[d] /\ guest'[d] = guest[d],
           Parsed(host'[c]), host'[c].got <= wire[c].sent,
           guest'[c].got = guest[c].got, guest[c].sent => guest'[c].sent,
           guest'[c].sent => host'[c].at \notin {"idle", "handshake"} /\ wire[c].sent # 0,
           host'[c].timedOut => wire[c].timedOut,
           host'[c].late => lag[c] >= Grace \/ job[c].held \/ ~agent
    PROVE  Inv'
  <1>1. UNCHANGED <<wire, job, files, jobSeq, agent, age, lag>>
    BY DEF OnHost
  <1>2. Typed' /\ Numbered'
    BY <1>1 DEF Inv, Typed, Numbered, Started
  <1>3. ASSUME NEW d \in Calls PROVE Parsed(host'[d]) /\ Streamed(d)' /\ Jobbed(d)' /\ Timed(d)'
    <2>1. Parsed(host[d]) /\ Streamed(d) /\ Jobbed(d) /\ Timed(d)
      BY DEF Inv
    <2>2. Parsed(host'[d])
      BY <2>1
    <2>3. Streamed(d)'
      BY <1>1, <2>1 DEF Streamed
    <2>4. Jobbed(d)'
      BY <1>1, <2>1 DEF Jobbed
    <2>5. Timed(d)'
      BY <1>1, <2>1 DEF Timed
    <2>. QED
      BY <2>2, <2>3, <2>4, <2>5
  <1>. QED
    BY <1>2, <1>3 DEF Inv

\* What the invariant says of one call.
LEMMA OfCall ==
    ASSUME Inv, NEW c \in Calls
    PROVE  /\ host[c] \in HostRecords /\ wire[c] \in WireRecords
           /\ guest[c] \in GuestRecords /\ job[c] \in JobRecords
           /\ age[c] \in Nat /\ lag[c] \in Nat
           /\ Parsed(host[c]) /\ Streamed(c) /\ Jobbed(c) /\ Timed(c)
  BY DEF Inv, Typed

LEMMA CallBeginsStep ==
    ASSUME Inv, NEW c \in Calls, CallBegins(c) PROVE Inv'
  <1>. DEFINE r == [host[c] EXCEPT !.at = "handshake"]
  <1>1. /\ host[c].at = "idle" /\ OnHost /\ guest' = guest
        /\ host' = [host EXCEPT ![c] = r]
    BY DEF CallBegins
  <1>2. /\ r \in HostRecords /\ r.at = "handshake" /\ r.got = host[c].got
        /\ r.taken = host[c].taken /\ r.expected = host[c].expected
        /\ r.late = host[c].late /\ r.timedOut = host[c].timedOut
    BY OfCall DEF HostRecords, Waiting
  <1>. HIDE DEF r
  <1>3. /\ host' \in [Calls -> HostRecords] /\ host'[c] = r
        /\ \A d \in Calls : d # c => host'[d] = host[d]
    BY <1>1, <1>2 DEF Inv, Typed
  <1>4. Parsed(r) /\ r.got <= wire[c].sent /\ ~guest[c].sent
    BY <1>1, <1>2, OfCall DEF Parsed, Streamed
  <1>5. /\ r.timedOut => wire[c].timedOut
        /\ r.late => lag[c] >= Grace \/ job[c].held \/ ~agent
    BY <1>2, OfCall DEF Timed
  <1>. QED
    BY <1>1, <1>3, <1>4, <1>5, HostStep DEF Inv, Typed

LEMMA RejectsStep ==
    ASSUME Inv, NEW c \in Calls, NEW late \in BOOLEAN, Pending(c), OnHost, guest' = guest,
           host' = [host EXCEPT ![c] = [host[c] EXCEPT !.at = "rejected", !.late = late]],
           late => lag[c] >= Grace \/ job[c].held \/ ~agent
    PROVE  Inv'
  <1>. DEFINE r == [host[c] EXCEPT !.at = "rejected", !.late = late]
  <1>1. host' = [host EXCEPT ![c] = r]
    OBVIOUS
  <1>2. /\ r \in HostRecords /\ r.at = "rejected" /\ r.got = host[c].got
        /\ r.late = late /\ r.timedOut = host[c].timedOut
    BY OfCall DEF HostRecords
  <1>. HIDE DEF r
  <1>3. /\ host' \in [Calls -> HostRecords] /\ host'[c] = r
        /\ \A d \in Calls : d # c => host'[d] = host[d]
    BY <1>1, <1>2 DEF Inv, Typed
  <1>4. /\ Parsed(r) /\ r.got <= wire[c].sent
        /\ guest[c].sent => wire[c].sent # 0
    BY <1>2, OfCall DEF Parsed, Streamed
  <1>5. r.timedOut => wire[c].timedOut
    BY <1>2, OfCall DEF Timed
  <1>. QED
    BY <1>2, <1>3, <1>4, <1>5, HostStep DEF Inv, Typed

LEMMA GivesUpStep ==
    ASSUME Inv, NEW c \in Calls, HostEnd(c) \/ HostError(c) \/ HostTimeout(c) PROVE Inv'
  <1>. USE LengthsAssumption
  <1>1. CASE HostEnd(c) \/ HostError(c)
    <2>. DEFINE r == [host[c] EXCEPT !.at = "rejected"]
    <2>1. /\ Pending(c) /\ OnHost /\ guest' = guest
          /\ host' = [host EXCEPT ![c] = r]
      BY <1>1 DEF HostEnd, HostError, Rejects
    <2>2. host[c].late \in BOOLEAN /\ r = [host[c] EXCEPT !.at = "rejected", !.late = host[c].late]
      BY OfCall DEF HostRecords
    <2>3. host[c].late => lag[c] >= Grace \/ job[c].held \/ ~agent
      BY OfCall DEF Timed
    <2>. QED
      BY <2>1, <2>2, <2>3, RejectsStep
  <1>2. CASE HostTimeout(c)
    <2>1. /\ Pending(c) /\ OnHost /\ guest' = guest /\ age[c] = Timeout + Grace
          /\ host' = [host EXCEPT ![c] = [host[c] EXCEPT !.at = "rejected", !.late = TRUE]]
      BY <1>2 DEF HostTimeout, Inv, Typed
    <2>2. lag[c] >= Grace \/ job[c].held \/ ~agent
      BY <2>1, OfCall DEF Timed, JobRecords
    <2>. QED
      BY <2>1, <2>2, RejectsStep
  <1>. QED
    BY <1>1, <1>2

LEMMA HostDataStep ==
    ASSUME Inv, NEW c \in Calls, NEW n \in Chunks, HostData(c, n) PROVE Inv'
  <1>. USE LengthsAssumption
  <1>. DEFINE g == [host[c] EXCEPT !.got = @ + n]
              h == Handshake(g)
  <1>1. /\ host[c] \in HostRecords /\ n \in Nat /\ host[c].at \in Waiting /\ Parsed(host[c])
        /\ host[c].got + n <= wire[c].sent /\ wire[c] \in WireRecords
        /\ OnHost
    BY OfCall DEF HostData, Pending, Chunks
  <1>2. /\ h \in HostRecords /\ Header(h) \in HostRecords
        /\ h.got = host[c].got + n /\ Header(h).got = h.got
        /\ h.at \in Waiting /\ Header(h).at = h.at
        /\ host[c].at = "payload" \/ h.got >= LineLen <=> h.at = "payload"
        /\ Parsed(Header(h))
        /\ h.late = host[c].late /\ Header(h).late = host[c].late
        /\ h.timedOut = host[c].timedOut /\ Header(h).timedOut = host[c].timedOut
    BY <1>1, ReceiveEffect
  <1>3. \/ /\ h.at = "payload" /\ guest' = guest
           /\ host' = [host EXCEPT ![c] = [h EXCEPT !.at = "rejected"]]
        \/ /\ host' = [host EXCEPT ![c] = Frame(c, Header(h))]
           /\ guest' = [guest EXCEPT ![c].sent = (h.at = "payload")]
    BY DEF HostData
  <1>. HIDE DEF h
  <1>4. /\ host[c].timedOut => wire[c].timedOut
        /\ host[c].late => lag[c] >= Grace \/ job[c].held \/ ~agent
        /\ guest[c].sent => host[c].at = "payload" /\ wire[c].sent # 0
    BY <1>1, OfCall DEF Timed, Streamed, Waiting
  <1>5. wire[c].sent \in {0, LineLen, Total} /\ guest[c] \in GuestRecords /\ h.got \in Nat
    BY <1>2, OfCall DEF Streamed, HostRecords
  <1>6. CASE /\ h.at = "payload" /\ guest' = guest
             /\ host' = [host EXCEPT ![c] = [h EXCEPT !.at = "rejected"]]
    <2>. DEFINE r == [h EXCEPT !.at = "rejected"]
    <2>1. /\ r \in HostRecords /\ r.at = "rejected" /\ r.got = h.got
          /\ r.late = h.late /\ r.timedOut = h.timedOut
      BY <1>2 DEF HostRecords
    <2>2. host' = [host EXCEPT ![c] = r]
      BY <1>6
    <2>. HIDE DEF r
    <2>3. /\ host' \in [Calls -> HostRecords] /\ host'[c] = r
          /\ \A d \in Calls : d # c => host'[d] = host[d]
      BY <2>1, <2>2 DEF Inv, Typed
    <2>4. Parsed(r)
      BY <2>1 DEF Parsed
    <2>5. /\ r.got <= wire[c].sent /\ (r.timedOut => wire[c].timedOut)
          /\ r.late => lag[c] >= Grace \/ job[c].held \/ ~agent
          /\ guest'[c].sent => r.at \notin {"idle", "handshake"} /\ wire[c].sent # 0
      BY <1>1, <1>2, <1>4, <1>6, <2>1
    <2>6. /\ guest' \in [Calls -> GuestRecords] /\ \A d \in Calls : guest'[d] = guest[d]
          /\ guest[c].sent => guest'[c].sent
      BY <1>6 DEF Inv, Typed
    <2>. QED
      BY <1>1, <2>3, <2>4, <2>5, <2>6, HostStep
  <1>7. CASE /\ host' = [host EXCEPT ![c] = Frame(c, Header(h))]
             /\ guest' = [guest EXCEPT ![c].sent = (h.at = "payload")]
    <2>. DEFINE r == Frame(c, Header(h))
    <2>1. /\ r \in HostRecords /\ Parsed(r) /\ r.got = h.got /\ r.late = host[c].late
          /\ r.at \in {h.at, "resolved"} /\ (r.at = "resolved" => h.at = "payload")
          /\ r.timedOut = host[c].timedOut \/ r.timedOut = wire[c].timedOut
      BY <1>1, <1>2, FrameEffect
    <2>. HIDE DEF r
    <2>2. /\ host' \in [Calls -> HostRecords] /\ host'[c] = r
          /\ \A d \in Calls : d # c => host'[d] = host[d]
      BY <1>7, <2>1 DEF Inv, Typed, r
    <2>3. /\ guest' \in [Calls -> GuestRecords]
          /\ guest'[c].got = guest[c].got /\ (guest'[c].sent <=> h.at = "payload")
          /\ \A d \in Calls : d # c => guest'[d] = guest[d]
      <3>1. ASSUME NEW sent \in BOOLEAN
            PROVE  /\ [guest[c] EXCEPT !.sent = sent] \in GuestRecords
                   /\ [guest[c] EXCEPT !.sent = sent].got = guest[c].got
                   /\ [guest[c] EXCEPT !.sent = sent].sent = sent
        BY <1>5 DEF GuestRecords
      <3>2. PICK sent \in BOOLEAN : sent <=> h.at = "payload"
        OBVIOUS
      <3>3. guest' = [guest EXCEPT ![c] = [guest[c] EXCEPT !.sent = sent]]
        BY <1>7, <3>2 DEF Inv, Typed
      <3>. QED
        BY <3>1, <3>2, <3>3 DEF Inv, Typed
    <2>4. h.at = "payload" => wire[c].sent # 0
      BY <1>1, <1>2, <1>5, OfCall DEF Parsed, Streamed, HostRecords
    <2>5. guest'[c].sent => r.at \notin {"idle", "handshake"} /\ wire[c].sent # 0
      BY <2>1, <2>3, <2>4
    <2>6. guest[c].sent => guest'[c].sent
      BY <1>2, <1>4, <2>3
    <2>. QED
      BY <1>1, <1>2, <1>4, <2>1, <2>2, <2>3, <2>5, <2>6, HostStep
  <1>. QED
    BY <1>3, <1>6, <1>7

-------------------------------------------------------------------------------
\* The guest

\* So does a step of the VMM or the guest.
LEMMA GuestStep ==
    ASSUME Inv, NEW c \in Calls, UNCHANGED <<host, age, lag, agent>>, Typed', Numbered',
           \A d \in Calls : d # c => /\ wire'[d] = wire[d] /\ guest'[d] = guest[d]
                                     /\ job'[d] = job[d],
           \A n \in 1 .. jobSeq : n \in 1 .. jobSeq' /\ files'[n] = files[n],
           Streamed(c)', Jobbed(c)', Timed(c)'
    PROVE  Inv'
  <1>1. ASSUME NEW d \in Calls PROVE Parsed(host[d])' /\ Streamed(d)' /\ Jobbed(d)' /\ Timed(d)'
    <2>1. Parsed(host[d]) /\ Streamed(d) /\ Jobbed(d) /\ Timed(d)
      BY DEF Inv
    <2>2. Parsed(host[d])'
      BY <2>1
    <2>3. CASE d = c
      BY <2>2, <2>3
    <2>4. CASE d # c
      <3>1. Streamed(d)'
        BY <2>1, <2>4 DEF Streamed
      <3>2. Jobbed(d)'
        BY <2>1, <2>4 DEF Jobbed
      <3>3. Timed(d)'
        BY <2>1, <2>4 DEF Timed
      <3>. QED
        BY <2>2, <3>1, <3>2, <3>3
    <2>. QED
      BY <2>3, <2>4
  <1>. QED
    BY <1>1 DEF Inv

LEMMA ConnectStep ==
    ASSUME Inv, NEW c \in Calls, Connect(c) PROVE Inv'
  <1>. USE LengthsAssumption
  <1>1. /\ UNCHANGED <<host, age, lag, agent, guest, job, files, jobSeq>>
        /\ wire[c].sent = 0 /\ ~wire[c].ended /\ wire[c] \in WireRecords
    BY OfCall DEF Connect, OnGuest
  <1>2. /\ wire' \in [Calls -> WireRecords]
        /\ wire'[c].sent \in {0, LineLen} /\ wire'[c].timedOut = wire[c].timedOut
        /\ \A d \in Calls : d # c => wire'[d] = wire[d]
    <2>1. ASSUME NEW r \in WireRecords, r.sent \in {0, LineLen}, r.timedOut = wire[c].timedOut,
                 wire' = [wire EXCEPT ![c] = r]
          PROVE  /\ wire' \in [Calls -> WireRecords]
                 /\ wire'[c].sent \in {0, LineLen} /\ wire'[c].timedOut = wire[c].timedOut
                 /\ \A d \in Calls : d # c => wire'[d] = wire[d]
      BY <2>1 DEF Inv, Typed
    <2>2. ASSUME NEW ok \in BOOLEAN, NEW ended \in BOOLEAN
          PROVE  LET r == [wire[c] EXCEPT !.ok = ok, !.sent = LineLen, !.ended = ended]
                 IN r \in WireRecords /\ r.sent = LineLen /\ r.timedOut = wire[c].timedOut
      BY <1>1 DEF WireRecords
    <2>3. LET r == [wire[c] EXCEPT !.ended = TRUE]
          IN r \in WireRecords /\ r.sent = 0 /\ r.timedOut = wire[c].timedOut
      BY <1>1 DEF WireRecords
    <2>4. CASE wire' = [wire EXCEPT ![c].ok = TRUE, ![c].sent = LineLen]
      <3>1. wire' = [wire EXCEPT ![c] = [wire[c] EXCEPT !.ok = TRUE, !.sent = LineLen,
                                                        !.ended = FALSE]]
        BY <1>1, <2>4 DEF Inv, Typed, WireRecords
      <3>. QED
        BY <2>1, <2>2, <3>1
    <2>5. CASE \E ok \in BOOLEAN : wire' = [wire EXCEPT ![c].ok = ok, ![c].sent = LineLen,
                                                        ![c].ended = TRUE]
      <3>1. PICK ok \in BOOLEAN :
                wire' = [wire EXCEPT ![c] = [wire[c] EXCEPT !.ok = ok, !.sent = LineLen,
                                                            !.ended = TRUE]]
        BY <2>5 DEF Inv, Typed
      <3>. QED
        BY <2>1, <2>2, <3>1
    <2>6. CASE wire' = [wire EXCEPT ![c].ended = TRUE]
      <3>1. wire' = [wire EXCEPT ![c] = [wire[c] EXCEPT !.ended = TRUE]]
        BY <2>6 DEF Inv, Typed
      <3>. QED
        BY <2>1, <2>3, <3>1
    <2>. QED
      BY <2>4, <2>5, <2>6 DEF Connect
  <1>3. ~guest[c].sent /\ job[c].at = "none"
    BY <1>1, OfCall DEF Streamed, Jobbed, JobRecords
  <1>4. Streamed(c)'
    BY <1>1, <1>2, <1>3, OfCall DEF Streamed, Total, HostRecords
  <1>5. Jobbed(c)' /\ Timed(c)'
    BY <1>1, <1>2, <1>3, OfCall DEF Jobbed, Timed
  <1>6. Typed' /\ Numbered'
    BY <1>1, <1>2 DEF Inv, Typed, Numbered, Started
  <1>. QED
    BY <1>1, <1>2, <1>4, <1>5, <1>6, GuestStep

\* A job that is not closed has room for its answer in the stream.
LEMMA RespondEffect ==
    ASSUME Inv, NEW c \in Calls, NEW timedOut \in BOOLEAN, Respond(c, timedOut),
           ~wire[c].ended, guest[c].sent
    PROVE  /\ wire' \in [Calls -> WireRecords]
           /\ wire'[c].sent = Total /\ wire'[c].ended /\ (wire'[c].timedOut <=> timedOut)
           /\ \A d \in Calls : d # c => wire'[d] = wire[d]
  <1>. USE LengthsAssumption
  <1>1. wire[c].sent = LineLen /\ wire[c] \in WireRecords /\ wire \in [Calls -> WireRecords]
    BY OfCall DEF Streamed, Inv, Typed
  <1>. DEFINE r == [ok |-> wire[c].ok, sent |-> Total, ended |-> TRUE, timedOut |-> timedOut]
  <1>2. wire' = [wire EXCEPT ![c] = r]
    BY <1>1 DEF Respond, WireRecords, Total
  <1>3. r \in WireRecords
    BY <1>1 DEF WireRecords, Total
  <1>. QED
    BY <1>1, <1>2, <1>3

\* Steps of a job that touch nothing but its record.
LEMMA JobStep ==
    ASSUME Inv, NEW c \in Calls, JobReads(c) \/ JobExits(c) \/ JobTimer(c) PROVE Inv'
  <1>. USE LengthsAssumption
  <1>1. /\ UNCHANGED <<host, age, lag, agent, wire, guest, files, jobSeq>>
        /\ job[c] \in JobRecords /\ job \in [Calls -> JobRecords]
        /\ job[c].at \in {"running", "exited"}
    BY OfCall DEF JobReads, JobExits, JobTimer, OnGuest, Inv, Typed
  <1>2. /\ job' \in [Calls -> JobRecords]
        /\ \A d \in Calls : d # c => job'[d] = job[d]
        /\ job'[c].path = job[c].path /\ job'[c].ticks = job[c].ticks
        /\ job'[c].held = job[c].held
        /\ \/ job'[c].at = job[c].at
           \/ job'[c].at = "exited"
           \/ job'[c].at = "killed" /\ job[c].ticks = Timeout
    <2>1. CASE JobReads(c)
      <3>1. files[job[c].path] \in Calls \cup {None}
        BY <2>1, OfCall DEF JobReads, Jobbed
      <3>. DEFINE r == [job[c] EXCEPT !.ran = files[job[c].path]]
      <3>2. /\ r \in JobRecords /\ r.path = job[c].path /\ r.ticks = job[c].ticks
            /\ r.held = job[c].held /\ r.at = job[c].at
        BY <1>1, <3>1 DEF JobRecords
      <3>3. job' = [job EXCEPT ![c] = r]
        BY <2>1 DEF JobReads
      <3>. HIDE DEF r
      <3>. QED
        BY <1>1, <3>2, <3>3
    <2>2. CASE JobExits(c)
      BY <1>1, <2>2 DEF JobExits, JobRecords
    <2>3. CASE JobTimer(c)
      BY <1>1, <2>3 DEF JobTimer, JobRecords
    <2>. QED
      BY <2>1, <2>2, <2>3
  <1>3. Streamed(c)'
    BY <1>1, <1>2, OfCall DEF Streamed
  <1>4. Jobbed(c)'
    BY <1>1, <1>2, OfCall DEF Jobbed
  <1>5. Timed(c)'
    BY <1>1, <1>2, OfCall DEF Timed
  <1>6. Started' = Started
    BY <1>1, <1>2 DEF Started
  <1>7. Typed' /\ Numbered'
    BY <1>1, <1>2, <1>6 DEF Inv, Typed, Numbered
  <1>. QED
    BY <1>1, <1>2, <1>3, <1>4, <1>5, <1>7, GuestStep

LEMMA JobClosesStep ==
    ASSUME Inv, NEW c \in Calls, JobCloses(c) PROVE Inv'
  <1>. USE LengthsAssumption
  <1>1. /\ UNCHANGED <<host, age, lag, agent, guest, files, jobSeq>> /\ agent
        /\ job[c] \in JobRecords /\ job[c].at \in {"exited", "killed"} /\ ~job[c].held
        /\ Respond(c, job[c].at = "killed") /\ job' = [job EXCEPT ![c].at = "closed"]
    BY OfCall DEF JobCloses, OnGuest
  <1>2. ~wire[c].ended /\ guest[c].sent
    BY <1>1, OfCall DEF Jobbed
  <1>3. /\ wire' \in [Calls -> WireRecords]
        /\ wire'[c].sent = Total /\ wire'[c].ended
        /\ wire'[c].timedOut <=> job[c].at = "killed"
        /\ \A d \in Calls : d # c => wire'[d] = wire[d]
    <2>1. PICK timedOut \in BOOLEAN : timedOut = (job[c].at = "killed")
      OBVIOUS
    <2>. QED
      BY <1>1, <1>2, <2>1, RespondEffect
  <1>4. /\ job' \in [Calls -> JobRecords]
        /\ \A d \in Calls : d # c => job'[d] = job[d]
        /\ job'[c].ticks = job[c].ticks /\ job'[c].held = job[c].held
        /\ job'[c].at = "closed"
    BY <1>1 DEF Inv, Typed, JobRecords
  <1>5. Streamed(c)'
    <2>1. /\ host[c].got \in Nat /\ host[c].got <= wire[c].sent /\ wire[c].sent \in {0, LineLen, Total}
          /\ host[c].at \notin {"idle", "handshake"}
      BY <1>2, OfCall DEF Streamed, HostRecords
    <2>2. LineLen <= Total /\ 0 < Total /\ Total \in Nat /\ LineLen \in Nat
      BY DEF Total
    <2>3. host[c].got <= Total
      BY <2>1, <2>2
    <2>. QED
      BY <1>1, <1>3, <1>4, <2>1, <2>2, <2>3 DEF Streamed
  <1>6. Jobbed(c)'
    BY <1>1, <1>4, OfCall DEF Jobbed
  <1>7. Timed(c)'
    BY <1>1, <1>2, <1>3, <1>4, OfCall DEF Timed
  <1>8. Started' = Started
    BY <1>1, <1>4 DEF Started
  <1>9. Typed' /\ Numbered'
    BY <1>1, <1>3, <1>4, <1>8 DEF Inv, Typed, Numbered
  <1>. QED
    BY <1>1, <1>3, <1>4, <1>5, <1>6, <1>7, <1>9, GuestStep

\* There is a file for every job: no call starts two.
LEMMA RoomForJob ==
    ASSUME Inv, NEW c \in Calls, job[c].at = "none"
    PROVE  /\ jobSeq + 1 \in 1 .. Cardinality(Calls)
           /\ Cardinality(Started \cup {c}) = jobSeq + 1
  <1>. USE LengthsAssumption
  <1>1. Started \subseteq Calls /\ c \notin Started
    BY DEF Started
  <1>2. IsFiniteSet(Started)
    BY <1>1, FS_Subset
  <1>3. Cardinality(Started \cup {c}) = Cardinality(Started) + 1
    BY <1>1, <1>2, FS_AddElement
  <1>4. Cardinality(Started \cup {c}) <= Cardinality(Calls)
    BY <1>1, FS_Subset
  <1>5. Cardinality(Started) \in Nat /\ Cardinality(Calls) \in Nat
    BY <1>2, FS_CardinalityType
  <1>. QED
    BY <1>3, <1>4, <1>5 DEF Inv, Numbered

LEMMA GuestDataStep ==
    ASSUME Inv, NEW c \in Calls, NEW n \in Chunks, GuestData(c, n) PROVE Inv'
  <1>. USE LengthsAssumption
  <1>. DEFINE got == guest[c].got + n
  <1>1. /\ UNCHANGED <<host, age, lag, agent>> /\ agent
        /\ guest[c].sent /\ ~wire[c].ended /\ n \in Nat \ {0}
        /\ got <= HeaderLen + RequestLen
        /\ guest' = [guest EXCEPT ![c].got = got]
        /\ guest[c] \in GuestRecords /\ job[c] \in JobRecords /\ wire[c] \in WireRecords
    <2>1. n \in Nat \ {0}
      BY DEF Chunks
    <2>. QED
      BY <2>1, OfCall DEF GuestData, Spawned, SpawnError, OnGuest
  <1>2. got \in Nat /\ guest[c].got < HeaderLen + RequestLen
    BY <1>1 DEF GuestRecords
  <1>3. job[c].at = "none" /\ ~job[c].held /\ job[c].ran = None
    BY <1>2, OfCall DEF Jobbed
  <1>. HIDE DEF got
  <1>4. /\ guest' \in [Calls -> GuestRecords]
        /\ guest'[c].got = got /\ guest'[c].sent
        /\ \A d \in Calls : d # c => guest'[d] = guest[d]
    <2>. DEFINE r == [guest[c] EXCEPT !.got = got]
    <2>1. r \in GuestRecords /\ r.got = got /\ r.sent = guest[c].sent
      BY <1>1, <1>2 DEF GuestRecords
    <2>2. guest' = [guest EXCEPT ![c] = r]
      BY <1>1
    <2>. HIDE DEF r
    <2>. QED
      BY <1>1, <2>1, <2>2 DEF Inv, Typed
  <1>5. CASE got < HeaderLen + RequestLen
    <2>1. UNCHANGED <<wire, job, files, jobSeq>>
      BY <1>5 DEF GuestData, Spawned, SpawnError, got
    <2>2. Streamed(c)' /\ Jobbed(c)' /\ Timed(c)'
      BY <1>1, <1>3, <1>4, <1>5, <2>1, OfCall DEF Streamed, Jobbed, Timed
    <2>3. Typed' /\ Numbered'
      BY <1>1, <1>4, <2>1 DEF Inv, Typed, Numbered, Started
    <2>. QED
      BY <1>1, <1>4, <2>1, <2>2, <2>3, GuestStep
  <1>6. CASE ~(got < HeaderLen + RequestLen)
    <2>1. jobSeq' = jobSeq + 1 /\ files' = [files EXCEPT ![jobSeq'] = c]
      BY <1>6 DEF GuestData, Spawned, SpawnError, got
    <2>12. \/ /\ \E held \in BOOLEAN :
                  job' = [job EXCEPT ![c] = [@ EXCEPT !.at = "running", !.path = jobSeq',
                                                      !.held = held]]
              /\ wire' = wire
           \/ job' = [job EXCEPT ![c].at = "closed"] /\ Respond(c, FALSE)
      BY <1>6 DEF GuestData, Spawned, SpawnError, got
    <2>2. got = HeaderLen + RequestLen
      BY <1>1, <1>2, <1>6 DEF got
    <2>3. /\ jobSeq \in Nat /\ jobSeq + 1 \in 1 .. Cardinality(Calls)
          /\ Cardinality(Started \cup {c}) = jobSeq + 1
      BY <1>3, RoomForJob DEF Inv, Typed
    <2>4. /\ files' \in [1 .. Cardinality(Calls) -> Calls \cup {None}]
          /\ files'[jobSeq + 1] = c
          /\ \A m \in 1 .. jobSeq : m \in 1 .. jobSeq' /\ files'[m] = files[m]
      <3>1. /\ files \in [1 .. Cardinality(Calls) -> Calls \cup {None}]
            /\ files' = [files EXCEPT ![jobSeq + 1] = c]
        BY <2>1 DEF Inv, Typed
      <3>2. Cardinality(Calls) \in Nat
        BY FS_CardinalityType
      <3>3. \A m \in 1 .. jobSeq : /\ m \in 1 .. jobSeq + 1 /\ m # jobSeq + 1
                                   /\ m \in 1 .. Cardinality(Calls)
        BY <2>3, <3>2
      <3>. QED
        BY <2>1, <2>3, <3>1, <3>3
    <2>5. /\ job' \in [Calls -> JobRecords] /\ job'[c].ticks = job[c].ticks
          /\ \A d \in Calls : d # c => job'[d] = job[d]
          /\ \/ job'[c].at = "running" /\ job'[c].path = jobSeq + 1 /\ wire' = wire
             \/ job'[c].at = "closed" /\ ~job'[c].held /\ Respond(c, FALSE)
      <3>1. job \in [Calls -> JobRecords]
        BY DEF Inv, Typed
      <3>2. CASE wire' = wire /\ \E held \in BOOLEAN :
                      job' = [job EXCEPT ![c] = [@ EXCEPT !.at = "running", !.path = jobSeq',
                                                          !.held = held]]
        <4>1. PICK held \in BOOLEAN :
                  job' = [job EXCEPT ![c] = [job[c] EXCEPT !.at = "running", !.path = jobSeq',
                                                           !.held = held]]
          BY <3>2
        <4>. DEFINE r == [job[c] EXCEPT !.at = "running", !.path = jobSeq', !.held = held]
        <4>2. /\ r \in JobRecords /\ r.at = "running" /\ r.path = jobSeq + 1
              /\ r.ticks = job[c].ticks
          <5>1. PICK path \in Nat : path = jobSeq'
            BY <2>1, <2>3
          <5>. QED
            BY <1>1, <2>1, <5>1 DEF JobRecords
        <4>3. job' = [job EXCEPT ![c] = r]
          BY <4>1
        <4>. HIDE DEF r
        <4>. QED
          BY <3>1, <3>2, <4>2, <4>3
      <3>3. CASE job' = [job EXCEPT ![c].at = "closed"] /\ Respond(c, FALSE)
        BY <1>1, <1>3, <3>1, <3>3 DEF JobRecords
      <3>. QED
        BY <2>12, <3>2, <3>3
    <2>6. /\ wire' \in [Calls -> WireRecords]
          /\ \A d \in Calls : d # c => wire'[d] = wire[d]
          /\ \/ wire'[c] = wire[c] /\ job'[c].at = "running"
             \/ /\ job'[c].at = "closed" /\ wire'[c].sent = Total
                /\ wire'[c].ended /\ ~wire'[c].timedOut
      BY <1>1, <2>5, RespondEffect DEF Inv, Typed
    <2>7. Streamed(c)'
      <3>1. /\ host[c].got \in Nat /\ host[c].got <= wire[c].sent /\ wire[c].sent = LineLen
            /\ host[c].at \notin {"idle", "handshake"}
        BY <1>1, OfCall DEF Streamed, HostRecords
      <3>2. LineLen <= Total /\ 0 < Total /\ Total \in Nat /\ LineLen \in Nat /\ LineLen # Total
        BY DEF Total
      <3>3. host[c].got <= Total
        BY <3>1, <3>2
      <3>. QED
        BY <1>1, <2>6, <3>1, <3>2, <3>3 DEF Streamed
    <2>8. Jobbed(c)'
      <3>1. guest'[c].sent /\ guest'[c].got = HeaderLen + RequestLen
        BY <1>4, <2>2
      <3>2. /\ job'[c].at \in {"running", "closed"}
            /\ job'[c].at = "running" => /\ job'[c].path \in 1 .. jobSeq'
                                         /\ files'[job'[c].path] = c
        <4>1. jobSeq + 1 \in 1 .. jobSeq'
          BY <2>1, <2>3
        <4>2. job'[c].at = "running" => job'[c].path = jobSeq + 1
          BY <2>5
        <4>. QED
          BY <2>4, <2>5, <4>1, <4>2
      <3>3. job'[c].at = "running" => ~wire'[c].ended
        BY <1>1, <2>6
      <3>. QED
        BY <1>1, <3>1, <3>2, <3>3 DEF Jobbed
    <2>9. Timed(c)'
      BY <1>1, <1>3, <2>5, <2>6, OfCall DEF Timed
    <2>10. Started' = Started \cup {c}
      BY <2>5 DEF Started
    <2>11. Typed' /\ Numbered'
      <3>1. jobSeq' \in Nat
        BY <2>1, <2>3
      <3>2. Typed'
        BY <1>1, <1>4, <2>4, <2>5, <2>6, <3>1 DEF Inv, Typed
      <3>3. Numbered'
        BY <2>1, <2>3, <2>10 DEF Numbered
      <3>. QED
        BY <3>2, <3>3
    <2>. QED
      BY <1>1, <1>4, <2>4, <2>5, <2>6, <2>7, <2>8, <2>9, <2>11, GuestStep
  <1>. QED
    BY <1>5, <1>6

LEMMA AgentDiesStep == ASSUME Inv, AgentDies PROVE Inv'
  <1>1. UNCHANGED <<host, age, lag, guest, job, files, jobSeq>> /\ ~agent'
    BY DEF AgentDies, OnGuest
  <1>2. ASSUME NEW c \in Calls
        PROVE  /\ wire'[c] \in WireRecords /\ wire'[c].sent = wire[c].sent
               /\ wire'[c].timedOut = wire[c].timedOut /\ (wire[c].ended => wire'[c].ended)
    <2>1. wire'[c] = IF wire[c].ok THEN [wire[c] EXCEPT !.ended = TRUE] ELSE wire[c]
      BY DEF AgentDies
    <2>2. wire[c] \in WireRecords
      BY OfCall
    <2>. QED
      BY <2>1, <2>2 DEF WireRecords
  <1>3. wire' \in [Calls -> WireRecords]
    BY <1>2 DEF AgentDies
  <1>4. Typed' /\ Numbered'
    BY <1>1, <1>3 DEF Inv, Typed, Numbered, Started, AgentDies
  <1>5. ASSUME NEW c \in Calls PROVE Parsed(host[c])' /\ Streamed(c)' /\ Jobbed(c)' /\ Timed(c)'
    <2>1. Parsed(host[c])' /\ Streamed(c)'
      BY <1>1, <1>2, OfCall DEF Streamed
    <2>2. Jobbed(c)'
      BY <1>1, <1>2, OfCall DEF Jobbed
    <2>3. Timed(c)'
      BY <1>1, <1>2, OfCall DEF Timed
    <2>. QED
      BY <2>1, <2>2, <2>3
  <1>. QED
    BY <1>4, <1>5 DEF Inv

LEMMA TickStep == ASSUME Inv, Tick PROVE Inv'
  <1>. USE LengthsAssumption
  <1>1. UNCHANGED <<host, wire, guest, files, jobSeq, agent>>
    BY DEF Tick
  <1>2. ASSUME NEW c \in Calls
        PROVE  /\ age'[c] \in Nat /\ lag'[c] \in Nat /\ lag'[c] >= lag[c]
               /\ \/ age'[c] - lag'[c] <= age[c] - lag[c]
                  \/ Busy(c) /\ age'[c] - lag'[c] = age[c] - lag[c] + 1
    <2>1. /\ age'[c] = IF Pending(c) THEN age[c] + 1 ELSE age[c]
          /\ lag'[c] = IF Pending(c) /\ ~Busy(c) THEN lag[c] + 1 ELSE lag[c]
      BY DEF Tick
    <2>2. age[c] \in Nat /\ lag[c] \in Nat
      BY OfCall
    <2>. QED
      BY <2>1, <2>2
  <1>3. ASSUME NEW c \in Calls
        PROVE  /\ job'[c] \in JobRecords /\ job'[c].at = job[c].at
               /\ job'[c].path = job[c].path /\ job'[c].ran = job[c].ran
               /\ job'[c].held = job[c].held
               /\ job'[c].ticks = IF Clocked(c) THEN job[c].ticks + 1 ELSE job[c].ticks
    <2>1. job'[c] = IF Clocked(c) THEN [job[c] EXCEPT !.ticks = @ + 1] ELSE job[c]
      BY DEF Tick
    <2>. QED
      BY <2>1, OfCall DEF JobRecords
  <1>4. Typed'
    <2>1. job' \in [Calls -> JobRecords]
      BY <1>3 DEF Tick
    <2>2. age' \in [Calls -> Nat] /\ lag' \in [Calls -> Nat]
      BY <1>2 DEF Tick
    <2>. QED
      BY <1>1, <2>1, <2>2 DEF Inv, Typed
  <1>5. Numbered'
    BY <1>1, <1>3 DEF Inv, Numbered, Started
  <1>6. ASSUME NEW c \in Calls PROVE Parsed(host[c])' /\ Streamed(c)' /\ Jobbed(c)' /\ Timed(c)'
    <2>1. Parsed(host[c])' /\ Streamed(c)'
      BY <1>1, <1>3, OfCall DEF Streamed
    <2>2. Jobbed(c)'
      BY <1>1, <1>3, OfCall DEF Jobbed
    <2>3. Timed(c)'
      <3>1. agent /\ job[c].at = "running" => Clocked(c)
        BY DEF Tick, Clocked
      <3>2. /\ job[c].ticks \in Nat /\ lag[c] \in Nat /\ age[c] \in Nat
            /\ Timed(c)
        BY OfCall DEF JobRecords
      <3>3. job'[c].ticks <= Timeout /\ job'[c].ticks >= job[c].ticks
        BY <1>3, <3>2 DEF Timed, Clocked
      <3>4. job'[c].held \/ ~agent' \/ age'[c] - lag'[c] <= job'[c].ticks
        BY <1>1, <1>2, <1>3, <3>1, <3>2 DEF Timed, Busy
      <3>5. /\ job[c].at \in {"killed", "closed"} => job'[c].ticks = job[c].ticks
            /\ lag[c] >= Grace => lag'[c] >= Grace
        BY <1>2, <1>3, <3>2 DEF Clocked
      <3>. QED
        BY <1>1, <1>3, <3>2, <3>3, <3>4, <3>5 DEF Timed
    <2>. QED
      BY <2>1, <2>2, <2>3
  <1>. QED
    BY <1>4, <1>5, <1>6 DEF Inv

LEMMA InvHolds == Spec => []Inv
  <1>1. Inv /\ [Next]_vars => Inv'
    <2>. SUFFICES ASSUME Inv, [Next]_vars PROVE Inv'
      OBVIOUS
    <2>1. CASE UNCHANGED vars
      BY <2>1 DEF vars, Inv, Typed, Numbered, Started, Parsed, Streamed, Jobbed, Timed
    <2>2. CASE Next
      BY <2>2, CallBeginsStep, GivesUpStep, HostDataStep, ConnectStep, JobStep, JobClosesStep,
         GuestDataStep, AgentDiesStep, TickStep DEF Next
    <2>. QED
      BY <2>1, <2>2
  <1>. QED
    BY InitInv, <1>1, PTL DEF Spec

-------------------------------------------------------------------------------
\* The theorems

\* However the stream is cut, a call that resolves holds exactly its answer.
THEOREM AnswersWhole == Spec => [](AnswerIsWhole)
  <1>1. Inv => AnswerIsWhole
    <2>. SUFFICES ASSUME Inv, NEW c \in Calls, host[c].at = "resolved"
                  PROVE  /\ host[c].taken = LineLen + HeaderLen
                         /\ host[c].expected = AnswerLen
                         /\ wire[c].sent = LineLen + HeaderLen + AnswerLen
      BY DEF AnswerIsWhole
    <2>. QED
      BY OfCall, LengthsAssumption DEF Parsed, Streamed, HostRecords, Total
  <1>. QED
    BY InvHolds, <1>1, PTL

\* A timeout of the host is not the job's doing, and one of the guest is real.
THEOREM HonestTimeouts == Spec => [](TimeoutsAreHonest)
  <1>1. Inv => TimeoutsAreHonest
    BY DEF Inv, Timed, TimeoutsAreHonest
  <1>. QED
    BY InvHolds, <1>1, PTL

\* A call that is pending is within its timeout and the grace: once the two are
\* over, time does not go on before it has settled.
InTime == \A c \in Calls : age[c] <= Timeout + Grace

LEMMA InTimeStep == Inv /\ InTime /\ [Next]_vars => InTime'
  <1>. SUFFICES ASSUME Inv, InTime, [Next]_vars PROVE InTime'
    OBVIOUS
  <1>1. CASE Tick
    <2>1. ASSUME NEW c \in Calls PROVE age'[c] <= Timeout + Grace
      <3>1. age[c] \in Nat /\ Timeout + Grace \in Nat
        BY OfCall, LengthsAssumption
      <3>2. /\ Pending(c) => age[c] < Timeout + Grace
            /\ age'[c] = IF Pending(c) THEN age[c] + 1 ELSE age[c]
        BY <1>1 DEF Tick
      <3>. QED
        BY <3>1, <3>2 DEF InTime
    <2>. QED
      BY <2>1 DEF InTime
  <1>2. CASE UNCHANGED age
    BY <1>2 DEF InTime
  <1>3. Tick \/ UNCHANGED age
    BY DEF Next, CallBegins, HostEnd, HostError, HostTimeout, Rejects, HostData, Connect,
        JobReads, JobExits, JobTimer, JobCloses, GuestData, AgentDies, OnHost, OnGuest, vars
  <1>. QED
    BY <1>1, <1>2, <1>3

\* Every variable keeps its type: in particular no call is pending for longer
\* than its timeout and the grace, and no call starts a second job.
THEOREM TypeCorrect == Spec => []TypeOK
  <1>. USE LengthsAssumption
  <1>1. Init => InTime
    BY DEF Init, InTime
  <1>2. Inv /\ InTime => TypeOK
    <2>. SUFFICES ASSUME Inv, InTime PROVE TypeOK
      OBVIOUS
    <2>1. Cardinality(Calls) \in Nat
      BY FS_CardinalityType
    <2>2. Started \subseteq Calls
      BY DEF Started
    <2>3. jobSeq \in 0 .. Cardinality(Calls)
      <3>1. Cardinality(Started) <= Cardinality(Calls)
        BY <2>2, FS_Subset
      <3>. QED
        BY <2>1, <3>1 DEF Inv, Numbered, Typed
    <2>4. age \in [Calls -> 0 .. Timeout + Grace]
      <3>1. \A c \in Calls : age[c] \in 0 .. Timeout + Grace
        BY DEF Inv, Typed, InTime
      <3>. QED
        BY <3>1 DEF Inv, Typed
    <2>. QED
      BY <2>3, <2>4 DEF Inv, Typed, HostRecords, WireRecords, GuestRecords, JobRecords, TypeOK
  <1>. QED
    BY InvHolds, InTimeStep, <1>1, <1>2, PTL DEF Spec

LEMMA OutcomeOf ==
    ASSUME Inv, NEW c \in Calls
    PROVE  /\ host[c].at = "idle" => Outcome(c) = "idle"
           /\ host[c].at = "resolved" => Outcome(c) = "answered"
           /\ host[c].at = "rejected" => Outcome(c) = "failed"
           /\ host[c].at \in Waiting => Outcome(c) = "asked"
  BY DEF Outcome, Waiting

\* A call is answered only after its job has closed: the job runs before.
LEMMA RunsBeforeAnswer ==
    ASSUME Inv, NEW c \in Calls, job[c].at = "running"
    PROVE  Outcome(c) \in {"asked", "failed"} /\ files[job[c].path] = c
  <1>1. host[c].at \notin {"idle", "resolved"}
    BY OfCall, LengthsAssumption
    DEF Jobbed, Streamed, Parsed, Total, HostRecords, JobRecords
  <1>2. host[c].at \in Waiting \cup {"rejected"}
    BY <1>1, OfCall DEF HostRecords
  <1>. QED
    BY <1>2, OutcomeOf, OfCall DEF Jobbed

\* A step that moves no call and runs no code is a stutter.
LEMMA Stutters ==
    ASSUME \A c \in Calls : host'[c].at = host[c].at /\ job'[c].ran = job[c].ran
    PROVE  UNCHANGED Abstract!vars
  <1>1. \A c \in Calls : Outcome(c)' = Outcome(c) /\ job'[c].ran = job[c].ran
    BY DEF Outcome
  <1>2. [c \in Calls |-> Outcome(c)]' = [c \in Calls |-> Outcome(c)]
    BY <1>1
  <1>3. [c \in Calls |-> job[c].ran]' = [c \in Calls |-> job[c].ran]
    BY <1>1
  <1>. QED
    BY <1>2, <1>3 DEF Abstract!vars

\* A step of the host that runs no code moves one outcome forward, or none.
LEMMA TurnsOutcome ==
    ASSUME Inv, Inv', NEW c \in Calls, job' = job,
           \A d \in Calls : d # c => host'[d] = host[d],
           \/ host[c].at = "idle" /\ host'[c].at = "handshake"
           \/ host[c].at \in Waiting /\ host'[c].at \in Waiting \cup {"resolved", "rejected"}
    PROVE  [Abstract!Next]_(Abstract!vars)
  <1>1. \A d \in Calls : d # c => Outcome(d)' = Outcome(d)
    BY DEF Outcome
  <1>2. [d \in Calls |-> job[d].ran]' = [d \in Calls |-> job[d].ran]
    OBVIOUS
  <1>3. \/ Outcome(c) = "idle" /\ Outcome(c)' = "asked"
        \/ Outcome(c) = "asked" /\ Outcome(c)' \in {"asked", "answered", "failed"}
    BY DEF Outcome, Waiting
  <1>4. [d \in Calls |-> Outcome(d)]' = [[d \in Calls |-> Outcome(d)] EXCEPT ![c] = Outcome(c)']
    BY <1>1
  <1>5. CASE Outcome(c)' = Outcome(c)
    <2>1. [d \in Calls |-> Outcome(d)]' = [d \in Calls |-> Outcome(d)]
      BY <1>1, <1>5
    <2>. QED
      BY <1>2, <2>1 DEF Abstract!vars
  <1>6. CASE Outcome(c)' # Outcome(c)
    <2>1. \/ Abstract!Turns(c, "idle", "asked")
          \/ Abstract!Turns(c, "asked", "answered")
          \/ Abstract!Turns(c, "asked", "failed")
      BY <1>2, <1>3, <1>4, <1>6 DEF Abstract!Turns
    <2>. QED
      BY <2>1 DEF Abstract!Next
  <1>. QED
    BY <1>5, <1>6

LEMMA NextRefines == Inv /\ Inv' /\ [Next]_vars => [Abstract!Next]_(Abstract!vars)
  <1>. SUFFICES ASSUME Inv, Inv', [Next]_vars PROVE [Abstract!Next]_(Abstract!vars)
    OBVIOUS
  <1>. USE LengthsAssumption
  <1>1. ASSUME NEW c \in Calls, CallBegins(c) PROVE [Abstract!Next]_(Abstract!vars)
    BY <1>1, TurnsOutcome DEF CallBegins, OnHost, Inv, Typed, HostRecords
  <1>2. ASSUME NEW c \in Calls, HostEnd(c) \/ HostError(c) \/ HostTimeout(c)
        PROVE  [Abstract!Next]_(Abstract!vars)
    <2>1. host[c].at \in Waiting /\ job' = job
      BY <1>2 DEF HostEnd, HostError, HostTimeout, Rejects, Pending, OnHost
    <2>2. host'[c].at = "rejected" /\ \A d \in Calls : d # c => host'[d] = host[d]
      <3>1. CASE HostEnd(c) \/ HostError(c)
        <4>1. host' = [host EXCEPT ![c].at = "rejected"] /\ host \in [Calls -> HostRecords]
          BY <3>1 DEF HostEnd, HostError, Rejects, Inv, Typed
        <4>. QED
          BY <4>1 DEF HostRecords
      <3>2. CASE HostTimeout(c)
        BY <3>2 DEF HostTimeout, Inv, Typed, HostRecords
      <3>. QED
        BY <1>2, <3>1, <3>2
    <2>. QED
      BY <2>1, <2>2, TurnsOutcome
  <1>3. ASSUME NEW c \in Calls, NEW n \in Chunks, HostData(c, n)
        PROVE  [Abstract!Next]_(Abstract!vars)
    <2>. DEFINE h == Handshake([host[c] EXCEPT !.got = @ + n])
    <2>1. /\ host[c] \in HostRecords /\ n \in Nat /\ host[c].at \in Waiting /\ Parsed(host[c])
          /\ wire[c] \in WireRecords /\ job' = job
      BY <1>3, OfCall DEF HostData, Pending, Chunks, OnHost
    <2>2. /\ h \in HostRecords /\ Header(h) \in HostRecords /\ Parsed(Header(h))
          /\ h.at \in Waiting /\ Header(h).at = h.at
      BY <2>1, ReceiveEffect
    <2>3. \/ host' = [host EXCEPT ![c] = [h EXCEPT !.at = "rejected"]]
          \/ host' = [host EXCEPT ![c] = Frame(c, Header(h))]
      BY <1>3 DEF HostData
    <2>. HIDE DEF h
    <2>4. [h EXCEPT !.at = "rejected"].at = "rejected"
      BY <2>2 DEF HostRecords
    <2>5. Frame(c, Header(h)).at \in Waiting \cup {"resolved"}
      BY <2>1, <2>2, FrameEffect
    <2>6. /\ host'[c].at \in Waiting \cup {"resolved", "rejected"}
          /\ \A d \in Calls : d # c => host'[d] = host[d]
      BY <2>3, <2>4, <2>5 DEF Inv, Typed
    <2>. QED
      BY <2>1, <2>6, TurnsOutcome
  <1>4. ASSUME NEW c \in Calls, JobReads(c) PROVE [Abstract!Next]_(Abstract!vars)
    <2>1. /\ Outcome(c) \in {"asked", "failed"} /\ files[job[c].path] = c
          /\ job[c].ran = None /\ host' = host
          /\ job' = [job EXCEPT ![c].ran = files[job[c].path]]
      BY <1>4, RunsBeforeAnswer DEF JobReads, OnGuest
    <2>2. \A d \in Calls : job'[d].ran = IF d = c THEN c ELSE job[d].ran
      BY <2>1 DEF Inv, Typed, JobRecords
    <2>3. [d \in Calls |-> job[d].ran]' = [[d \in Calls |-> job[d].ran] EXCEPT ![c] = c]
      BY <2>2
    <2>4. [d \in Calls |-> Outcome(d)]' = [d \in Calls |-> Outcome(d)]
      BY <2>1 DEF Outcome
    <2>5. Abstract!Run(c)
      BY <2>1, <2>3, <2>4 DEF Abstract!Run
    <2>. QED
      BY <2>5 DEF Abstract!Next
  <1>5. ASSUME NEW c \in Calls, Connect(c) PROVE [Abstract!Next]_(Abstract!vars)
    BY <1>5, Stutters DEF Connect, OnGuest
  <1>6. ASSUME NEW c \in Calls, NEW n \in Chunks, GuestData(c, n)
        PROVE  [Abstract!Next]_(Abstract!vars)
    <2>1. host' = host
      BY <1>6 DEF GuestData, Spawned, SpawnError, OnGuest
    <2>2. \/ job' = job
          \/ \E held \in BOOLEAN :
                job' = [job EXCEPT ![c] = [job[c] EXCEPT !.at = "running", !.path = jobSeq',
                                                         !.held = held]]
          \/ job' = [job EXCEPT ![c].at = "closed"]
      BY <1>6 DEF GuestData, Spawned, SpawnError
    <2>3. \A d \in Calls : job'[d].ran = job[d].ran
      <3>1. job \in [Calls -> JobRecords] /\ job[c] \in JobRecords
        BY DEF Inv, Typed
      <3>2. CASE job' = job \/ job' = [job EXCEPT ![c].at = "closed"]
        BY <3>1, <3>2 DEF JobRecords
      <3>3. CASE \E held \in BOOLEAN :
                job' = [job EXCEPT ![c] = [job[c] EXCEPT !.at = "running", !.path = jobSeq',
                                                         !.held = held]]
        <4>1. PICK held \in BOOLEAN :
                job' = [job EXCEPT ![c] = [job[c] EXCEPT !.at = "running", !.path = jobSeq',
                                                         !.held = held]]
          BY <3>3
        <4>2. [job[c] EXCEPT !.at = "running", !.path = jobSeq', !.held = held].ran = job[c].ran
          BY <3>1 DEF JobRecords
        <4>. QED
          BY <3>1, <4>1, <4>2
      <3>. QED
        BY <2>2, <3>2, <3>3
    <2>. QED
      BY <2>1, <2>3, Stutters
  <1>7. ASSUME NEW c \in Calls, JobExits(c) \/ JobTimer(c) \/ JobCloses(c)
        PROVE  [Abstract!Next]_(Abstract!vars)
    <2>1. host' = host
      BY <1>7 DEF JobExits, JobTimer, JobCloses, OnGuest
    <2>2. \A d \in Calls : job'[d].ran = job[d].ran
      <3>1. /\ job \in [Calls -> JobRecords]
            /\ \E at \in {"exited", "killed", "closed"} : job' = [job EXCEPT ![c].at = at]
        BY <1>7 DEF JobExits, JobTimer, JobCloses, Inv, Typed
      <3>. QED
        BY <3>1 DEF JobRecords
    <2>. QED
      BY <2>1, <2>2, Stutters
  <1>8. CASE AgentDies
    BY <1>8, Stutters DEF AgentDies, OnGuest
  <1>9. CASE Tick
    <2>1. host' = host /\ \A d \in Calls : job'[d].ran = job[d].ran
      BY <1>9 DEF Tick, Inv, Typed, JobRecords
    <2>. QED
      BY <2>1, Stutters
  <1>10. CASE UNCHANGED vars
    BY <1>10, Stutters DEF vars
  <1>. QED
    BY <1>1, <1>2, <1>3, <1>4, <1>5, <1>6, <1>7, <1>8, <1>9, <1>10 DEF Next

\* To its caller an execute over vsock is a request that is answered or fails
\* once, runs its own code at most once, and never after the answer.
THEOREM RefinesRequestResponse == Spec => ImplementsRequestResponse
  <1>1. Init => Abstract!Init
    <2>. SUFFICES ASSUME Init PROVE Abstract!Init
      OBVIOUS
    <2>1. \A c \in Calls : Outcome(c) = "idle" /\ job[c].ran = None
      BY DEF Init, Outcome
    <2>. QED
      BY <2>1 DEF Abstract!Init
  <1>. QED
    BY <1>1, InvHolds, NextRefines, PTL DEF Spec, Abstract!Spec, ImplementsRequestResponse
===============================================================================
