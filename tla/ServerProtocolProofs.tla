------------------------- MODULE ServerProtocolProofs -------------------------
(***************************************************************************)
(* What one client of PolicyServer is answered: the verdict on its upgrade *)
(* request, and the frames of its connection.  For any settings, any       *)
(* number of connections and any mixture of frames from the clients.       *)
(***************************************************************************)
EXTENDS PolicyServerProofs

-----------------------------------------------------------------------------
(* The upgrade.                                                            *)

\* The key layer lets in who has a key, whatever was sent as a header.
LEMMA KeyLayer ==
    ASSUME NEW r \in Requests
    PROVE  HeaderRaises(AuthCfg, r.header) \/ KeyRefused(AuthCfg, r.header) <=> ~HasKey(r)
<1> DEFINE keyless == KeyRefused(AuthCfg, r.header)
<1>1. AuthCfg.api_keys = ConfiguredKeys
  BY DEF AuthCfg, FromEnvAndArgs, Stripped, ConfiguredKeys
<1>2. NoKey \notin ConfiguredKeys /\ Blank \notin ConfiguredKeys
  BY ServerAssumption DEF ConfiguredKeys, Stripped
<1>3. ASSUME ConfiguredKeys # {}, r.header # TwoHeaders, ~keyless PROVE HasKey(r)
  <2>1. ExtractApiKey(r.header) \in ConfiguredKeys
    BY <1>1, <1>3 DEF KeyRefused
  <2>2. /\ r.header # NoHeader /\ r.header.scheme \in {"api-key", "bearer"}
        /\ r.header.value \in ConfiguredKeys
    BY <1>2, <2>1 DEF ExtractApiKey
  <2> QED
    BY <1>3, <2>2, RequestAssumption DEF HasKey
<1>4. ASSUME NEW key \in ConfiguredKeys, NEW scheme \in {"api-key", "bearer"},
             r.header = [scheme |-> scheme, value |-> key]
      PROVE  ~keyless /\ r.header # TwoHeaders
  <2>1. r.header \notin {NoHeader, TwoHeaders} /\ key # Blank
    BY <1>2, <1>4, RequestAssumption DEF ConfiguredKeys
  <2>2. ExtractApiKey(r.header) = key
    BY <1>4, <2>1 DEF ExtractApiKey
  <2> QED
    BY <1>1, <2>1, <2>2 DEF KeyRefused
<1>5. ConfiguredKeys = {} => ~keyless /\ HasKey(r)
  BY <1>1 DEF KeyRefused, HasKey
<1> QED
  BY <1>1, <1>3, <1>4, <1>5 DEF HeaderRaises, HasKey

\* The address layer lets in who calls from an allowed place, and everybody
\* whose address is not known.
LEMMA AddressLayer ==
    ASSUME NEW r
    PROVE  AddressRefused(AuthCfg, r.addr) <=> ~FromAllowedPlace(r) /\ r.addr # NoAddr
<1>1. AuthCfg.ip_allowlist = ConfiguredBlocks
  BY DEF AuthCfg, FromEnvAndArgs, Stripped, ConfiguredBlocks
<1> QED
  BY <1>1 DEF AddressRefused, FromAllowedPlace

\* The verdict on a request that is not a health check is about nothing but
\* the settings, the address and the key - and the cap, for who may enter.
LEMMA VerdictSound ==
    ASSUME NEW r \in Requests, r.path # "/healthz"
    PROVE  /\ Verdict(r) \in {"PASS", "UNAVAILABLE"} =>
                  HasKey(r) /\ (FromAllowedPlace(r) \/ r.addr = NoAddr)
           /\ Verdict(r) \in {"FORBIDDEN", "UNAUTHORIZED", "ERROR"} => ~MayEnter(r)
           /\ Verdict(r) = "ERROR" => r.header = TwoHeaders
           /\ Verdict(r) \in {"PASS", "UNAVAILABLE", "FORBIDDEN", "UNAUTHORIZED", "ERROR"}
BY KeyLayer, AddressLayer DEF Verdict, CheckRequest, MayEnter, HeaderRaises

\* auth.py:89 against auth.py:9-10: with blocks configured, a request whose
\* peer address the transport does not know is not refused for it.  Its key
\* alone decides.
THEOREM UnknownAddressesPass ==
    \A r \in Requests :
        r.path # "/healthz" /\ r.addr = NoAddr =>
            (Verdict(r) \in {"PASS", "UNAVAILABLE"} <=> HasKey(r))
<1> SUFFICES ASSUME NEW r \in Requests, r.path # "/healthz", r.addr = NoAddr
             PROVE  Verdict(r) \in {"PASS", "UNAVAILABLE"} <=> HasKey(r)
  OBVIOUS
<1>1. ~AddressRefused(AuthCfg, r.addr)
  BY AddressLayer
<1> QED
  BY <1>1, KeyLayer DEF Verdict, CheckRequest

\* A request stays what it is, and only Accept and Reject answer it.
LEMMA OnlyVerdicts ==
    ASSUME [Next]_vars
    PROVE  /\ request' = request
           /\ status' = status \/ \E c \in Conns : Accept(c) \/ Reject(c)
<1>1. ASSUME NEW c \in Conns, Accept(c) \/ Reject(c) PROVE request' = request
  BY <1>1 DEF Accept, Reject
<1>2. ASSUME NEW c \in Conns,
             \/ HandlerStart(c) \/ MetadataFails(c) \/ SendReturns(c)
             \/ SendRaises(c) \/ RecvText(c) \/ RecvJunk(c) \/ RecvObs(c)
             \/ RecvClosed(c) \/ InferFails(c) \/ CloseDone(c)
      PROVE  UNCHANGED <<request, status>>
  BY <1>2 DEF HandlerStart, MetadataFails, SendReturns, SendRaises, RecvText,
              RecvJunk, RecvObs, RecvClosed, InferFails, CloseDone
<1>3. ASSUME NEW c \in Conns, InferReturns(c) PROVE UNCHANGED <<request, status>>
  BY <1>3 DEF InferReturns
<1>4. ASSUME \/ Interrupt \/ Kill \/ Stop \/ UNCHANGED vars
             \/ \E c \in Conns :
                    \/ Connect(c) \/ HandshakeAborts(c)
                    \/ Lose(c) \/ Notice(c) \/ ServerCloses(c)
                    \/ \E kind \in ClientFrames : ClientSend(c, kind)
      PROVE  UNCHANGED <<request, status>>
  BY <1>4 DEF Interrupt, Kill, Stop, vars, Connect, HandshakeAborts, Lose,
              Notice, ServerCloses, ClientSend
<1> QED
  BY <1>1, <1>2, <1>3, <1>4
  DEF Next, Environment, HandlerStep, TransportStep, Terminated

AdmissionInv == KnownAddresses => AdmissionSound

\* No step gives a wrong verdict.
LEMMA StepAdmission == TypeOK /\ AdmissionInv /\ [Next]_vars => AdmissionInv'
<1> SUFFICES ASSUME TypeOK, AdmissionSound, KnownAddresses, [Next]_vars
             PROVE  AdmissionSound'
  BY DEF AdmissionInv, KnownAddresses, ConfiguredBlocks
<1>1. /\ request' = request
      /\ status' = status \/ \E c \in Conns : Accept(c) \/ Reject(c)
  BY OnlyVerdicts
<1>2. status \in [Conns -> Statuses] /\ request \in [Conns -> Requests]
  BY DEF TypeOK
<1>3. CASE UNCHANGED status
  BY <1>1, <1>3 DEF AdmissionSound
<1>4. ASSUME NEW c \in Conns, NEW answer,
             status' = [status EXCEPT ![c] = answer],
             answer = "OK" => request[c].path = "/healthz",
             answer \in {"SWITCHING", "UNAVAILABLE"} =>
                 request[c].path # "/healthz" /\ MayEnter(request[c]),
             answer \in {"FORBIDDEN", "UNAUTHORIZED"} =>
                 request[c].path # "/healthz" /\ ~MayEnter(request[c]),
             answer = "ERROR" =>
                 /\ request[c].path # "/healthz" /\ ~MayEnter(request[c])
                 /\ request[c].header = TwoHeaders,
             answer \in Statuses
      PROVE  AdmissionSound'
  BY <1>1, <1>2, <1>4 DEF AdmissionSound, Statuses
<1>5. ASSUME NEW c \in Conns, request[c].path # "/healthz",
             Verdict(request[c]) \in {"PASS", "UNAVAILABLE"}
      PROVE  MayEnter(request[c])
  BY <1>2, <1>5, VerdictSound DEF MayEnter, KnownAddresses, FromAllowedPlace
<1>6. ASSUME NEW c \in Conns, Accept(c) PROVE AdmissionSound'
  <2>1. Verdict(request[c]) = "PASS" /\ status' = [status EXCEPT ![c] = "SWITCHING"]
    BY <1>6 DEF Accept
  <2>2. request[c].path # "/healthz"
    BY <2>1 DEF Verdict
  <2>3. MayEnter(request[c])
    BY <2>1, <2>2, <1>5
  <2> QED
    BY <1>4, <2>1, <2>2, <2>3 DEF Statuses
<1>7. ASSUME NEW c \in Conns, Reject(c) PROVE AdmissionSound'
  <2>1. CASE request[c].path = "/healthz"
    <3>1. Verdict(request[c]) = "OK"
      BY <2>1 DEF Verdict
    <3> QED
      BY <1>4, <1>7, <2>1, <3>1 DEF Reject, Statuses
  <2>2. CASE request[c].path # "/healthz"
    <3>1. /\ Verdict(request[c]) \in {"PASS", "UNAVAILABLE"} => MayEnter(request[c])
          /\ Verdict(request[c]) \in {"FORBIDDEN", "UNAUTHORIZED", "ERROR"} =>
                 ~MayEnter(request[c])
          /\ Verdict(request[c]) = "ERROR" => request[c].header = TwoHeaders
          /\ Verdict(request[c]) \in {"PASS", "UNAVAILABLE", "FORBIDDEN",
                                     "UNAUTHORIZED", "ERROR"}
      BY <1>2, <1>5, <2>2, VerdictSound
    <3> QED
      BY <1>4, <1>7, <2>2, <3>1 DEF Reject, Statuses
  <2> QED
    BY <2>1, <2>2
<1> QED
  BY <1>1, <1>3, <1>6, <1>7

\* Every upgrade request is answered as the settings call for, where the
\* transport knows its address.
THEOREM AdmissionIsSound == Spec => [](KnownAddresses => AdmissionSound)
<1>1. Init => AdmissionInv
  BY DEF Init, Unused, AdmissionInv, AdmissionSound
<1>2. Counted => TypeOK
  BY DEF Counted
<1>3. AdmissionInv => (KnownAddresses => AdmissionSound)
  BY DEF AdmissionInv
<1> QED
  BY <1>1, <1>2, <1>3, InitCounted, StepCounted, StepAdmission, PTL DEF Spec

-----------------------------------------------------------------------------
(* The frames of one connection.                                           *)

\* The observations among the first n frames a client sent.
ObsIn(asked, n) == {m \in 1..n : IsObs(asked[m])}

\* Frame k of log, sent on connection c, replies to the observation whose turn
\* it is among the frames asked.
Answers(c, asked, log, k) ==
    /\ IsResult(log[k])
    /\ log[k].obs \in 1..Len(asked) /\ IsObs(asked[log[k].obs])
    /\ Cardinality(ObsIn(asked, log[k].obs)) = k - 1
    /\ ~ReusesReply =>
           /\ log[k].rid = IF asked[log[k].obs] = "obsId" THEN <<c, log[k].obs>>
                           ELSE NoId
           /\ log[k].prev = IF k = 2 THEN 0 ELSE log[k - 1].obs

Fits(c, asked, log, k) ==
    IF k = 1 THEN log[k] = Metadata
    ELSE (log[k] = Traceback /\ k = Len(log)) \/ Answers(c, asked, log, k)

\* The observation of the last reply, 0 if there is none yet.
LastAnswered(log) == IF Len(log) = 1 THEN 0 ELSE log[Len(log)].obs

\* As long as the connection is open, the server has replied to every
\* observation it received, but for the one it is working on, and no traceback
\* was sent; prev_total_time is the step of the last reply.
UpToDate(c) ==
    /\ Len(out[c]) > 0 /\ out[c][Len(out[c])] # Traceback
    /\ Len(out[c]) = Cardinality(ObsIn(sent[c], rd[c])) + (IF pc[c] = "infer" THEN 0 ELSE 1)
    /\ IF pc[c] = "sendResult" THEN Len(out[c]) > 1 /\ out[c][Len(out[c])].obs = rd[c]
       ELSE prev[c] = LastAnswered(out[c])

Dialogue(c) ==
    /\ rd[c] <= Len(sent[c])
    /\ \A k \in 1..Len(out[c]) : Fits(c, sent[c], out[c], k)
    /\ pc[c] \in {"new", "opening", "accepted"} =>
           rd[c] = 0 /\ Len(out[c]) = 0 /\ prev[c] = 0
    /\ pc[c] = "infer" => rd[c] > 0 /\ IsObs(sent[c][rd[c]])
    /\ ws[c] = "open" /\ pc[c] \in {"sendMeta", "recv", "infer", "sendResult"} =>
           UpToDate(c)

\* What the client of every connection was sent is an account of what it asked.
DialogueInv == \A c \in Conns : Dialogue(c)

\* Counting on from frame n to frame n + 1.
LEMMA ObsCount ==
    ASSUME NEW asked, NEW n \in Nat
    PROVE  /\ Cardinality(ObsIn(asked, n)) \in Nat
           /\ Cardinality(ObsIn(asked, 0)) = 0
           /\ Cardinality(ObsIn(asked, n + 1)) =
                  Cardinality(ObsIn(asked, n)) + (IF IsObs(asked[n + 1]) THEN 1 ELSE 0)
<1>1. IsFiniteSet(ObsIn(asked, n))
  <2>1. IsFiniteSet(1..n)
    BY FS_Interval
  <2> QED
    BY <2>1, FS_Subset DEF ObsIn
<1>2. Cardinality(ObsIn(asked, n)) \in Nat
  BY <1>1, FS_CardinalityType
<1>3. Cardinality(ObsIn(asked, 0)) = 0
  <2>1. ObsIn(asked, 0) = {}
    BY DEF ObsIn
  <2> QED
    BY <2>1, FS_EmptySet
<1>4. CASE IsObs(asked[n + 1])
  <2>1. ObsIn(asked, n + 1) = ObsIn(asked, n) \cup {n + 1} /\ n + 1 \notin ObsIn(asked, n)
    BY <1>4 DEF ObsIn
  <2>2. Cardinality(ObsIn(asked, n + 1)) = Cardinality(ObsIn(asked, n)) + 1
    BY <1>1, <2>1, FS_AddElement
  <2> QED
    BY <1>2, <1>3, <1>4, <2>2
<1>5. CASE ~IsObs(asked[n + 1])
  <2>1. ObsIn(asked, n + 1) = ObsIn(asked, n)
    BY <1>5 DEF ObsIn
  <2> QED
    BY <1>2, <1>3, <1>5, <2>1
<1> QED
  BY <1>4, <1>5

\* Another frame from the client changes nothing about those before it.
LEMMA AskedGrows ==
    ASSUME NEW c, NEW asked \in Seq(FrameKinds), NEW kind \in FrameKinds,
           NEW more, more = Append(asked, kind)
    PROVE  /\ \A n \in 0..Len(asked) : ObsIn(more, n) = ObsIn(asked, n)
           /\ \A log, k : Fits(c, asked, log, k) => Fits(c, more, log, k)
<1>1. Len(more) = Len(asked) + 1 /\ \A n \in 1..Len(asked) : more[n] = asked[n]
  OBVIOUS
<1>2. \A n \in 0..Len(asked) : ObsIn(more, n) = ObsIn(asked, n)
  BY <1>1 DEF ObsIn
<1>3. ASSUME NEW log, NEW k, Answers(c, asked, log, k) PROVE Answers(c, more, log, k)
  <2>1. log[k].obs \in 0..Len(asked) /\ log[k].obs \in 1..Len(more)
    BY <1>1, <1>3 DEF Answers
  <2> QED
    BY <1>1, <1>2, <1>3, <2>1 DEF Answers
<1> QED
  BY <1>2, <1>3 DEF Fits

\* Another frame to the client changes nothing about those before it, if none
\* of them is the traceback.
LEMMA LogGrows ==
    ASSUME NEW c, NEW asked, NEW log \in Seq(ServerFrames),
           NEW frame \in ServerFrames, NEW longer, longer = Append(log, frame),
           \A k \in 1..Len(log) : Fits(c, asked, log, k),
           Len(log) > 0 => log[Len(log)] # Traceback,
           Fits(c, asked, longer, Len(longer))
    PROVE  \A k \in 1..Len(longer) : Fits(c, asked, longer, k)
<1>1. Len(longer) = Len(log) + 1 /\ \A k \in 1..Len(log) : longer[k] = log[k]
  OBVIOUS
<1> SUFFICES ASSUME NEW k \in 1..Len(log) PROVE Fits(c, asked, longer, k)
  BY <1>1
<1>2. longer[k] = log[k] /\ (k # 1 => longer[k - 1] = log[k - 1])
  BY <1>1
<1>3. Fits(c, asked, log, k) /\ (k # 1 => Answers(c, asked, log, k))
  BY DEF Fits
<1> QED
  BY <1>2, <1>3 DEF Fits, Answers

\* Sending a frame that fits on connection c.
LEMMA EmitContinues ==
    ASSUME TypeOK, NEW c \in Conns, NEW frame \in ServerFrames, Emit(c, frame),
           Dialogue(c), sent' = sent,
           ws[c] = "open" =>
               /\ Len(out[c]) > 0 => out[c][Len(out[c])] # Traceback
               /\ Fits(c, sent[c], Append(out[c], frame), Len(out[c]) + 1)
    PROVE  /\ \A k \in 1..Len(out'[c]) : Fits(c, sent'[c], out'[c], k)
           /\ ws[c] = "open" => /\ Len(out'[c]) = Len(out[c]) + 1
                                /\ out'[c][Len(out[c]) + 1] = frame
<1>1. out[c] \in Seq(ServerFrames) /\ out \in [Conns -> Seq(ServerFrames)]
  BY DEF TypeOK
<1>2. CASE ws[c] # "open"
  BY <1>1, <1>2 DEF Emit, Dialogue
<1>3. CASE ws[c] = "open"
  <2>1. out'[c] = Append(out[c], frame)
    BY <1>1, <1>3 DEF Emit
  <2>2. Len(out'[c]) = Len(out[c]) + 1 /\ out'[c][Len(out[c]) + 1] = frame
    BY <1>1, <2>1
  <2>3. \A k \in 1..Len(out[c]) : Fits(c, sent[c], out[c], k)
    BY DEF Dialogue
  <2>4. \A k \in 1..Len(out'[c]) : Fits(c, sent[c], out'[c], k)
    BY <1>1, <1>3, <2>1, <2>2, <2>3, LogGrows
  <2> QED
    BY <2>2, <2>4
<1> QED
  BY <1>2, <1>3

\* The handler of c keeps up its dialogue.
LEMMA HandlerDialogue ==
    ASSUME TypeOK, NEW c \in Conns, Dialogue(c), HandlerStep(c)
    PROVE  Dialogue(c)'
<1>1. /\ sent[c] \in Seq(FrameKinds) /\ rd[c] \in Nat /\ out[c] \in Seq(ServerFrames)
      /\ pc \in [Conns -> PCs] /\ ws \in [Conns -> {"none", "open", "lost", "closed"}]
      /\ rd \in [Conns -> Nat] /\ prev \in [Conns -> Nat]
      /\ out \in [Conns -> Seq(ServerFrames)] /\ Len(out[c]) \in Nat
  BY DEF TypeOK
<1>2. /\ rd[c] <= Len(sent[c])
      /\ \A k \in 1..Len(out[c]) : Fits(c, sent[c], out[c], k)
  BY DEF Dialogue
<1>3. ASSUME Accept(c) \/ Reject(c) PROVE Dialogue(c)'
  BY <1>1, <1>2, <1>3 DEF Accept, Reject, Dialogue
<1>4. ASSUME HandlerStart(c) PROVE Dialogue(c)'
  <2>1. /\ Emit(c, Metadata) /\ Metadata \in ServerFrames
        /\ Len(out[c]) = 0 /\ rd[c] = 0 /\ prev[c] = 0
        /\ UNCHANGED <<sent, rd, ws, prev>> /\ pc'[c] = "sendMeta"
    BY <1>1, <1>4 DEF HandlerStart, ServerFrames, Dialogue
  <2>2. Fits(c, sent[c], Append(out[c], Metadata), Len(out[c]) + 1)
    BY <1>1, <2>1 DEF Fits
  <2>3. /\ \A k \in 1..Len(out'[c]) : Fits(c, sent'[c], out'[c], k)
        /\ ws[c] = "open" => /\ Len(out'[c]) = Len(out[c]) + 1
                             /\ out'[c][Len(out[c]) + 1] = Metadata
    <3>1. Len(out[c]) > 0 => out[c][Len(out[c])] # Traceback
      BY <2>1
    <3> QED
      BY <2>1, <2>2, <3>1, EmitContinues
  <2>4. ws[c] = "open" => Len(out'[c]) = 1 /\ out'[c][1] = Metadata
    BY <2>1, <2>3
  <2>5. Cardinality(ObsIn(sent'[c], rd'[c])) = 0
    BY <2>1, ObsCount
  <2>6. Metadata # Traceback
    BY DEF Metadata, Traceback
  <2>7. ws[c] = "open" => UpToDate(c)'
    <3>1. prev'[c] = 0
      BY <2>1
    <3>2. pc'[c] = "sendMeta"
      BY <2>1
    <3> SUFFICES ASSUME ws[c] = "open" PROVE UpToDate(c)'
      OBVIOUS
    <3>3. Len(out'[c]) = 1 /\ out'[c][1] # Traceback
      BY <2>4, <2>6
    <3>4. LastAnswered(out'[c]) = 0
      BY <3>3 DEF LastAnswered
    <3> QED
      BY <2>5, <3>1, <3>2, <3>3, <3>4 DEF UpToDate
  <2> QED
    BY <1>1, <2>1, <2>3, <2>7 DEF Dialogue
<1>5. ASSUME UNCHANGED <<sent, rd, out>>, pc'[c] \in {"done", "closing"}
      PROVE  Dialogue(c)'
  BY <1>2, <1>5 DEF Dialogue
<1>6. ASSUME Leave(c), UNCHANGED <<sent, out>>, rd'[c] \in 1..Len(sent[c]) PROVE Dialogue(c)'
  BY <1>1, <1>2, <1>6 DEF Leave, Dialogue
<1>7. ASSUME MetadataFails(c) PROVE Dialogue(c)'
  BY <1>1, <1>5, <1>7 DEF MetadataFails
<1>8. ASSUME SendRaises(c) \/ RecvClosed(c) \/ CloseDone(c) PROVE Dialogue(c)'
  BY <1>1, <1>5, <1>8 DEF SendRaises, RecvClosed, CloseDone, Leave
<1>9. ASSUME SendReturns(c) PROVE Dialogue(c)'
  <2>1. CASE pc[c] = "sendError"
    BY <1>1, <1>5, <1>9, <2>1 DEF SendReturns
  <2>2. CASE pc[c] \in {"sendMeta", "sendResult"}
    <3>1. /\ UNCHANGED <<sent, rd, out, ws>> /\ pc'[c] = "recv"
          /\ prev'[c] = IF pc[c] = "sendResult" THEN rd[c] ELSE prev[c]
      BY <1>1, <1>9, <2>2 DEF SendReturns, StepTimed
    <3>2. ws[c] = "open" => UpToDate(c)
      BY <2>2 DEF Dialogue
    <3>3. ws[c] = "open" => UpToDate(c)'
      BY <2>2, <3>1, <3>2 DEF UpToDate, LastAnswered
    <3> QED
      BY <1>2, <3>1, <3>3 DEF Dialogue
  <2> QED
    BY <1>9, <2>1, <2>2 DEF SendReturns
<1>10. ASSUME Delivered(c), rd' = [rd EXCEPT ![c] = @ + 1]
       PROVE  /\ rd'[c] = rd[c] + 1 /\ rd'[c] \in 1..Len(sent[c]) /\ pc[c] = "recv"
              /\ NextFrame(c) = sent[c][rd[c] + 1]
              /\ Cardinality(ObsIn(sent[c], rd'[c])) =
                     Cardinality(ObsIn(sent[c], rd[c])) + (IF IsObs(NextFrame(c)) THEN 1 ELSE 0)
              /\ Cardinality(ObsIn(sent[c], rd[c])) \in Nat
              /\ ws[c] = "open" => UpToDate(c)
  <2>1. rd'[c] = rd[c] + 1 /\ rd'[c] \in 1..Len(sent[c]) /\ pc[c] = "recv"
    BY <1>1, <1>10 DEF Delivered
  <2>2. ws[c] = "open" => UpToDate(c)
    BY <2>1 DEF Dialogue
  <2> QED
    BY <1>1, <2>1, <2>2, ObsCount DEF NextFrame
<1>11. ASSUME RecvText(c) PROVE Dialogue(c)'
  <2>1. UNCHANGED <<sent, out, ws, pc, prev>> /\ NextFrame(c) = "text"
    BY <1>11 DEF RecvText
  <2>2. ws[c] = "open" => UpToDate(c)'
    BY <1>10, <1>11, <2>1 DEF RecvText, UpToDate, IsObs
  <2> QED
    BY <1>2, <1>10, <1>11, <2>1, <2>2 DEF RecvText, Dialogue
<1>12. ASSUME RecvObs(c) PROVE Dialogue(c)'
  <2>1. UNCHANGED <<sent, out, ws, prev>> /\ IsObs(NextFrame(c)) /\ pc'[c] = "infer"
    BY <1>1, <1>12 DEF RecvObs
  <2>2. ws[c] = "open" => UpToDate(c)'
    BY <1>10, <1>12, <2>1 DEF RecvObs, UpToDate
  <2> QED
    BY <1>2, <1>10, <1>12, <2>1, <2>2 DEF RecvObs, Dialogue
<1>13. ASSUME Emit(c, Traceback), sent' = sent, pc[c] \in {"recv", "infer"}
       PROVE  \A k \in 1..Len(out'[c]) : Fits(c, sent'[c], out'[c], k)
  <2>1. ws[c] = "open" => Len(out[c]) > 0 /\ out[c][Len(out[c])] # Traceback
    BY <1>13 DEF Dialogue, UpToDate
  <2>2. Len(out[c]) > 0 => Fits(c, sent[c], Append(out[c], Traceback), Len(out[c]) + 1)
    BY <1>1 DEF Fits
  <2>3. Traceback \in ServerFrames
    BY DEF ServerFrames
  <2> QED
    BY <1>13, <2>1, <2>2, <2>3, EmitContinues
<1>14. ASSUME ErrorReply(c), sent' = sent, pc[c] \in {"recv", "infer"},
              rd'[c] \in 1..Len(sent[c])
       PROVE  Dialogue(c)'
  <2>1. CASE Leave(c) /\ UNCHANGED out
    BY <1>6, <1>14, <2>1
  <2>2. CASE Emit(c, Traceback) /\ pc' = [pc EXCEPT ![c] = "sendError"] /\ UNCHANGED ws
    <3>1. \A k \in 1..Len(out'[c]) : Fits(c, sent'[c], out'[c], k)
      BY <1>13, <1>14, <2>2
    <3> QED
      BY <1>1, <1>14, <2>2, <3>1 DEF Dialogue
  <2> QED
    BY <1>14, <2>1, <2>2 DEF ErrorReply
<1>15. ASSUME RecvJunk(c) PROVE Dialogue(c)'
  BY <1>10, <1>14, <1>15 DEF RecvJunk
<1>16. ASSUME pc[c] = "infer"
       PROVE  /\ rd[c] \in 1..Len(sent[c]) /\ IsObs(sent[c][rd[c]])
              /\ ws[c] = "open" => UpToDate(c)
  BY <1>1, <1>2, <1>16 DEF Dialogue
<1>17. ASSUME InferFails(c) PROVE Dialogue(c)'
  BY <1>14, <1>16, <1>17 DEF InferFails
<1>18. ASSUME InferReturns(c) PROVE Dialogue(c)'
  <2> DEFINE base  == IF ReusesReply THEN shared ELSE FreshReply
             reply == Reply(c, rd[c], base)
             frame == [type |-> "result", obs |-> rd[c],
                       rid |-> reply.rid, prev |-> reply.prev]
  <2>1. pc[c] = "infer" /\ UNCHANGED <<sent, rd, prev>>
    BY <1>18 DEF InferReturns
  <2>2. CASE Leave(c) /\ UNCHANGED out
    BY <1>6, <1>16, <2>1, <2>2
  <2>3. CASE Emit(c, frame) /\ pc' = [pc EXCEPT ![c] = "sendResult"] /\ UNCHANGED ws
    <3>1. base \in Replies
      BY DEF TypeOK, FreshReply, Replies, RequestIds
    <3>2. reply \in Replies
      BY <3>1, ReplyType DEF Replies
    <3>3. frame \in ServerFrames
      BY <1>1, <3>2 DEF ServerFrames, Results, Replies
    <3>4. IsResult(frame) /\ frame.obs = rd[c] /\ frame # Traceback
      BY DEF IsResult, Traceback
    <3>5. ~ReusesReply =>
             /\ frame.rid = IF sent[c][rd[c]] = "obsId" THEN <<c, rd[c]>> ELSE NoId
             /\ frame.prev = prev[c]
      BY <1>1 DEF Reply, FreshReply
    <3> HIDE DEF frame
    <3>6. ws[c] = "open" => UpToDate(c) /\ rd[c] \in 1..Len(sent[c]) /\ IsObs(sent[c][rd[c]])
      BY <1>16, <2>1
    <3>7. ASSUME ws[c] = "open", NEW log, log = Append(out[c], frame)
          PROVE  Answers(c, sent[c], log, Len(out[c]) + 1)
      <4>1. log[Len(out[c]) + 1] = frame /\ (Len(out[c]) > 0 => log[Len(out[c])] = out[c][Len(out[c])])
        BY <1>1, <3>3, <3>7
      <4>2. /\ Len(out[c]) > 0 /\ Len(out[c]) = Cardinality(ObsIn(sent[c], rd[c]))
            /\ prev[c] = LastAnswered(out[c])
        BY <1>1, <2>1, <3>6, <3>7, ObsCount DEF UpToDate
      <4> DEFINE k == Len(out[c]) + 1
      <4>3. k \in Nat /\ k - 1 = Len(out[c]) /\ (k = 2 <=> Len(out[c]) = 1)
        <5>1. \A m \in Nat : m + 1 \in Nat /\ (m + 1) - 1 = m /\ (m + 1 = 2 <=> m = 1)
          OBVIOUS
        <5>2. Len(out[c]) \in Nat
          BY <1>1
        <5> QED
          BY <5>1, <5>2, Zenon
      <4>4. log[k] = frame /\ log[k - 1] = out[c][Len(out[c])]
        BY <4>1, <4>2, <4>3
      <4>5. ~ReusesReply => frame.prev = IF k = 2 THEN 0 ELSE log[k - 1].obs
        BY <3>5, <4>2, <4>3, <4>4 DEF LastAnswered
      <4>6. Cardinality(ObsIn(sent[c], frame.obs)) = k - 1
        BY <3>4, <4>2, <4>3
      <4> HIDE DEF k
      <4>7. Answers(c, sent[c], log, k)
        BY <3>4, <3>5, <3>6, <3>7, <4>4, <4>5, <4>6 DEF Answers
      <4> QED
        BY <4>7 DEF k
    <3>8. ws[c] = "open" =>
              /\ out[c][Len(out[c])] # Traceback /\ Len(out[c]) > 0
              /\ Fits(c, sent[c], Append(out[c], frame), Len(out[c]) + 1)
      <4> SUFFICES ASSUME ws[c] = "open"
                   PROVE  /\ out[c][Len(out[c])] # Traceback /\ Len(out[c]) > 0
                          /\ Fits(c, sent[c], Append(out[c], frame), Len(out[c]) + 1)
        OBVIOUS
      <4>1. out[c][Len(out[c])] # Traceback /\ Len(out[c]) > 0
        BY <3>6 DEF UpToDate
      <4>2. Answers(c, sent[c], Append(out[c], frame), Len(out[c]) + 1)
        BY <3>7
      <4>3. Len(out[c]) + 1 # 1
        BY <1>1, <4>1
      <4> QED
        BY <4>1, <4>2, <4>3 DEF Fits
    <3>9. /\ \A k \in 1..Len(out'[c]) : Fits(c, sent'[c], out'[c], k)
          /\ ws[c] = "open" => /\ Len(out'[c]) = Len(out[c]) + 1
                               /\ out'[c][Len(out[c]) + 1] = frame
      BY <2>1, <2>3, <3>3, <3>8, EmitContinues
    <3>10. ws[c] = "open" => UpToDate(c)'
      <4> SUFFICES ASSUME ws[c] = "open" PROVE UpToDate(c)'
        OBVIOUS
      <4>1. Len(out[c]) > 0 /\ Len(out[c]) = Cardinality(ObsIn(sent[c], rd[c]))
        BY <1>1, <2>1, <3>6, ObsCount DEF UpToDate
      <4>2. pc'[c] = "sendResult" /\ sent'[c] = sent[c] /\ rd'[c] = rd[c]
        BY <1>1, <2>1, <2>3
      <4>3. Len(out'[c]) > 1 /\ out'[c][Len(out'[c])] = frame
        BY <1>1, <3>9, <4>1
      <4>4. Len(out'[c]) = Cardinality(ObsIn(sent'[c], rd'[c])) + 1
        BY <3>9, <4>1, <4>2
      <4> QED
        BY <3>4, <4>2, <4>3, <4>4 DEF UpToDate
    <3> QED
      BY <1>1, <1>2, <2>1, <2>3, <3>9, <3>10 DEF Dialogue
  <2> QED
    BY <1>18, <2>2, <2>3 DEF InferReturns
<1> QED
  BY <1>3, <1>4, <1>7, <1>8, <1>9, <1>11, <1>12, <1>15, <1>17, <1>18 DEF HandlerStep

\* What the handlers of other connections leave alone.
LEMMA OthersLeave ==
    ASSUME TypeOK, NEW c \in Conns, NEW d \in Conns \ {c}, HandlerStep(d)
    PROVE  /\ pc'[c] = pc[c] /\ ws'[c] = ws[c] /\ rd'[c] = rd[c]
           /\ out'[c] = out[c] /\ prev'[c] = prev[c] /\ code'[c] = code[c]
           /\ sent' = sent
<1>1. /\ pc \in [Conns -> PCs] /\ ws \in [Conns -> {"none", "open", "lost", "closed"}]
      /\ rd \in [Conns -> Nat] /\ out \in [Conns -> Seq(ServerFrames)]
      /\ prev \in [Conns -> Nat] /\ code \in [Conns -> {0, 1001, 1011}]
  BY DEF TypeOK
<1>2. sent' = sent
  BY SMTT(60)
  DEF HandlerStep, Accept, Reject, HandlerStart, MetadataFails, SendReturns, SendRaises,
      RecvText, RecvJunk, RecvObs, RecvClosed, InferReturns, InferFails, CloseDone
<1> QED
  BY <1>1, <1>2, SMTT(60)
  DEF HandlerStep, Accept, Reject, HandlerStart, MetadataFails, SendReturns, SendRaises,
      RecvText, RecvJunk, RecvObs, RecvClosed, InferReturns, InferFails, CloseDone,
      StepTimed, Emit, Leave, ErrorReply

\* So it leaves the dialogue alone.
LEMMA OtherDialogues ==
    ASSUME TypeOK, NEW c \in Conns, NEW d \in Conns \ {c}, HandlerStep(d), Dialogue(c)
    PROVE  Dialogue(c)'
BY OthersLeave DEF Dialogue, UpToDate

\* A frame from the client of c does not change what it was told.
LEMMA AskedDialogue ==
    ASSUME TypeOK, NEW c \in Conns, NEW kind \in FrameKinds, Dialogue(c),
           sent' = [sent EXCEPT ![c] = Append(@, kind)],
           UNCHANGED <<pc, ws, rd, out, prev>>
    PROVE  Dialogue(c)'
<1>1. /\ sent[c] \in Seq(FrameKinds) /\ sent'[c] = Append(sent[c], kind)
      /\ rd[c] \in Nat /\ Len(sent[c]) \in Nat
  BY DEF TypeOK
<1>2. /\ \A n \in 0..Len(sent[c]) : ObsIn(sent'[c], n) = ObsIn(sent[c], n)
      /\ \A log, k : Fits(c, sent[c], log, k) => Fits(c, sent'[c], log, k)
  BY <1>1, AskedGrows
<1>3. rd[c] <= Len(sent[c]) /\ rd'[c] <= Len(sent'[c]) /\ rd[c] \in 0..Len(sent[c])
  BY <1>1 DEF Dialogue
<1>4. ObsIn(sent'[c], rd'[c]) = ObsIn(sent[c], rd[c])
  BY <1>2, <1>3
<1>5. \A k \in 1..Len(out'[c]) : Fits(c, sent'[c], out'[c], k)
  BY <1>2 DEF Dialogue
<1>6. rd[c] > 0 => sent'[c][rd'[c]] = sent[c][rd[c]]
  BY <1>1, <1>3
<1>7. UpToDate(c) => UpToDate(c)'
  BY <1>4 DEF UpToDate
<1> QED
  BY <1>3, <1>5, <1>6, <1>7 DEF Dialogue

\* No step spoils a dialogue.
LEMMA StepDialogue == TypeOK /\ DialogueInv /\ [Next]_vars => DialogueInv'
<1> SUFFICES ASSUME TypeOK, [Next]_vars, NEW c \in Conns, Dialogue(c) PROVE Dialogue(c)'
  BY DEF DialogueInv
<1>1. /\ pc \in [Conns -> PCs] /\ ws \in [Conns -> {"none", "open", "lost", "closed"}]
      /\ sent \in [Conns -> Seq(FrameKinds)]
  BY DEF TypeOK
<1>2. ASSUME UNCHANGED <<rd, out, prev>>, sent'[c] = sent[c],
             pc'[c] = pc[c] \/ (pc[c] = "new" /\ pc'[c] = "opening") \/ pc'[c] = "done",
             ws'[c] = ws[c] \/ ws'[c] # "open"
      PROVE  Dialogue(c)'
  BY <1>2 DEF Dialogue, UpToDate
<1>3. ASSUME NEW d \in Conns, HandlerStep(d) PROVE Dialogue(c)'
  BY <1>3, HandlerDialogue, OtherDialogues
<1>4. ASSUME NEW d \in Conns,
             Connect(d) \/ HandshakeAborts(d) \/ Lose(d) \/ TransportStep(d)
      PROVE  Dialogue(c)'
  <2>1. UNCHANGED <<rd, out, prev, sent>>
    BY <1>4 DEF Connect, HandshakeAborts, Lose, TransportStep, Notice, ServerCloses
  <2>2. /\ pc'[c] = pc[c] \/ (pc[c] = "new" /\ pc'[c] = "opening") \/ pc'[c] = "done"
        /\ ws'[c] = ws[c] \/ ws'[c] # "open"
    BY <1>1, <1>4 DEF Connect, HandshakeAborts, Lose, TransportStep, Notice, ServerCloses
  <2> QED
    BY <1>2, <2>1, <2>2
<1>5. ASSUME NEW d \in Conns, NEW kind \in ClientFrames, ClientSend(d, kind)
      PROVE  Dialogue(c)'
  <2>1. kind \in FrameKinds
    BY ServerAssumption DEF FrameKinds
  <2>2. CASE d = c
    BY <1>5, <2>1, <2>2, AskedDialogue DEF ClientSend
  <2>3. CASE d # c
    BY <1>1, <1>2, <1>5, <2>3 DEF ClientSend
  <2> QED
    BY <2>2, <2>3
<1>6. ASSUME Interrupt \/ Kill \/ Stop \/ UNCHANGED vars PROVE Dialogue(c)'
  BY <1>2, <1>6 DEF Interrupt, Kill, Stop, vars
<1> QED
  BY <1>3, <1>4, <1>5, <1>6 DEF Next, Environment, Terminated

\* Every dialogue holds at all times.
LEMMA Dialogues == Spec => []DialogueInv
<1>1. Init => DialogueInv
  <2> SUFFICES ASSUME Init, NEW c \in Conns PROVE Dialogue(c)
    BY DEF DialogueInv
  <2> QED
    BY DEF Init, Unused, Dialogue
<1>2. Counted => TypeOK
  BY DEF Counted
<1> QED
  BY <1>1, <1>2, InitCounted, StepCounted, StepDialogue, PTL DEF Spec

-----------------------------------------------------------------------------
(* What the client sees.                                                   *)

\* Frame by frame: metadata, replies, traceback.
LEMMA EveryFrame ==
    ASSUME DialogueInv, NEW c \in Conns, NEW k \in DOMAIN out[c],
           out[c] \in Seq(ServerFrames)
    PROVE  /\ k \in 1..Len(out[c])
           /\ k = 1 => out[c][k] = Metadata
           /\ k # 1 => \/ out[c][k] = Traceback /\ k = Len(out[c])
                       \/ Answers(c, sent[c], out[c], k)
<1>1. k \in 1..Len(out[c])
  OBVIOUS
<1> QED
  BY <1>1 DEF DialogueInv, Dialogue, Fits

\* Frames that fit are in the order of the protocol.
LEMMA DialogueGrammar == TypeOK /\ DialogueInv => WireGrammar
<1> SUFFICES ASSUME TypeOK, DialogueInv, NEW c \in Conns, NEW k \in DOMAIN out[c]
             PROVE  /\ (k = 1) <=> (out[c][k] = Metadata)
                    /\ out[c][k] = Traceback => k = Len(out[c])
  BY DEF WireGrammar
<1>1. out[c] \in Seq(ServerFrames)
  BY DEF TypeOK
<1>2. \A frame : IsResult(frame) => frame # Metadata /\ frame # Traceback
  BY DEF IsResult, Metadata, Traceback
<1>3. Metadata # Traceback
  BY DEF Metadata, Traceback
<1>4. CASE k = 1
  BY <1>1, <1>3, <1>4, EveryFrame
<1>5. CASE k # 1
  <2>1. (out[c][k] = Traceback /\ k = Len(out[c])) \/ IsResult(out[c][k])
    BY <1>1, <1>5, EveryFrame DEF Answers
  <2> QED
    BY <1>2, <1>3, <1>5, <2>1
<1> QED
  BY <1>4, <1>5

\* The metadata comes first and once, a traceback last.
THEOREM GrammarHolds == Spec => []WireGrammar
BY DialogueGrammar, TypeCorrect, Dialogues, PTL

\* A reply that fits answers the observation whose turn it is.
LEMMA DialogueInOrder == TypeOK /\ DialogueInv => RepliesInOrder
<1> SUFFICES ASSUME TypeOK, DialogueInv, NEW c \in Conns, NEW k \in DOMAIN out[c],
                    IsResult(out[c][k])
             PROVE  IsKthObs(c, out[c][k].obs, k - 1)
  BY DEF RepliesInOrder
<1>1. out[c] \in Seq(ServerFrames) /\ sent[c] \in Seq(FrameKinds)
  BY DEF TypeOK
<1>2. Answers(c, sent[c], out[c], k)
  BY <1>1, EveryFrame DEF IsResult, Metadata, Traceback
<1> QED
  BY <1>1, <1>2 DEF Answers, IsKthObs, ObsIn

\* The k-th reply answers the k-th observation.
THEOREM RepliesComeInOrder == Spec => []RepliesInOrder
BY DialogueInOrder, TypeCorrect, Dialogues, PTL

\* It carries the request_id of that observation, if its dict is new.
LEMMA DialogueEchoes == TypeOK /\ DialogueInv => (~ReusesReply => EchoesRequestId)
<1> SUFFICES ASSUME TypeOK, DialogueInv, ~ReusesReply,
                    NEW c \in Conns, NEW k \in DOMAIN out[c], IsResult(out[c][k])
             PROVE  out[c][k].rid = IF sent[c][out[c][k].obs] = "obsId"
                                    THEN <<c, out[c][k].obs>> ELSE NoId
  BY DEF EchoesRequestId
<1>1. out[c] \in Seq(ServerFrames)
  BY DEF TypeOK
<1>2. Answers(c, sent[c], out[c], k)
  BY <1>1, EveryFrame DEF IsResult, Metadata, Traceback
<1> QED
  BY <1>2 DEF Answers

\* A reply carries the request_id of its own observation, unless the policy
\* hands out one dict again and again.
THEOREM RequestIdsEchoed == Spec => [](~ReusesReply => EchoesRequestId)
BY DialogueEchoes, TypeCorrect, Dialogues, PTL

\* It carries the time of the reply before, if its dict is new.
LEMMA DialogueTimed == TypeOK /\ DialogueInv => (~ReusesReply => TimingOfPreviousStep)
<1> SUFFICES ASSUME TypeOK, DialogueInv, ~ReusesReply,
                    NEW c \in Conns, NEW k \in DOMAIN out[c], IsResult(out[c][k])
             PROVE  out[c][k].prev = IF k = 2 THEN 0 ELSE out[c][k - 1].obs
  BY DEF TimingOfPreviousStep
<1>1. out[c] \in Seq(ServerFrames)
  BY DEF TypeOK
<1>2. Answers(c, sent[c], out[c], k)
  BY <1>1, EveryFrame DEF IsResult, Metadata, Traceback
<1> QED
  BY <1>2 DEF Answers

\* prev_total_ms is the time of the reply before, on the same proviso.
THEOREM TimingIsPrevious == Spec => [](~ReusesReply => TimingOfPreviousStep)
BY DialogueTimed, TypeCorrect, Dialogues, PTL

-----------------------------------------------------------------------------
(* The end of a connection on which something went wrong.                  *)

\* The last frame is a traceback.
ToldError(c) == Len(out[c]) > 0 /\ out[c][Len(out[c])] = Traceback

\* The handler of c closes the connection if and, as long as the client is
\* there, only if it has sent a traceback.
ErrorKept(c) ==
    /\ ToldError(c) => pc[c] \in {"sendError", "closing", "done"}
    /\ pc[c] \in {"sendError", "closing"} /\ ws[c] = "open" => ToldError(c)

ErrorInv == \A c \in Conns : ErrorKept(c)

\* Whether the last frame is a traceback after frame is sent.
LEMMA EmitTells ==
    ASSUME TypeOK, NEW c \in Conns, NEW frame \in ServerFrames, Emit(c, frame)
    PROVE  IF ws[c] = "open" THEN ToldError(c)' <=> frame = Traceback
           ELSE ToldError(c)' <=> ToldError(c)
<1>1. out[c] \in Seq(ServerFrames) /\ out \in [Conns -> Seq(ServerFrames)]
  BY DEF TypeOK
<1>2. CASE ws[c] # "open"
  BY <1>2 DEF Emit, ToldError
<1>3. CASE ws[c] = "open"
  <2>1. out'[c] = Append(out[c], frame)
    BY <1>1, <1>3 DEF Emit
  <2>2. Len(out'[c]) = Len(out[c]) + 1 /\ out'[c][Len(out[c]) + 1] = frame
    BY <1>1, <2>1
  <2>3. Len(out'[c]) > 0 /\ out'[c][Len(out'[c])] = frame
    BY <1>1, <2>2
  <2> QED
    BY <1>3, <2>3 DEF ToldError
<1> QED
  BY <1>2, <1>3

\* The handler of c keeps to that.
LEMMA HandlerErrs ==
    ASSUME TypeOK, NEW c \in Conns, ErrorKept(c), HandlerStep(c)
    PROVE  ErrorKept(c)'
<1>1. /\ pc \in [Conns -> PCs] /\ ws \in [Conns -> {"none", "open", "lost", "closed"}]
      /\ rd[c] \in Nat
  BY DEF TypeOK
<1>2. ASSUME Leave(c), UNCHANGED out PROVE ErrorKept(c)'
  BY <1>1, <1>2 DEF Leave, ErrorKept, ToldError
<1>3. ASSUME SendRaises(c) \/ RecvClosed(c) \/ CloseDone(c) PROVE ErrorKept(c)'
  BY <1>2, <1>3 DEF SendRaises, RecvClosed, CloseDone
<1>4. ASSUME Accept(c) \/ Reject(c) \/ MetadataFails(c) PROVE ErrorKept(c)'
  BY <1>1, <1>4 DEF Accept, Reject, MetadataFails, ErrorKept, ToldError
<1>5. ASSUME RecvText(c) \/ RecvObs(c) \/ SendReturns(c) PROVE ErrorKept(c)'
  BY <1>1, <1>5 DEF RecvText, RecvObs, SendReturns, Delivered, ErrorKept, ToldError
<1>6. ASSUME NEW frame \in ServerFrames, frame # Traceback, Emit(c, frame),
             pc[c] \notin {"sendError", "closing", "done"},
             pc'[c] \notin {"sendError", "closing"}
      PROVE  ErrorKept(c)'
  <2>1. ~ToldError(c)'
    BY <1>6, EmitTells DEF ErrorKept
  <2> QED
    BY <1>6, <2>1 DEF ErrorKept
<1>7. ASSUME HandlerStart(c) PROVE ErrorKept(c)'
  <2>1. /\ Emit(c, Metadata) /\ Metadata \in ServerFrames /\ Metadata # Traceback
        /\ pc[c] = "accepted" /\ pc'[c] = "sendMeta"
    BY <1>1, <1>7 DEF HandlerStart, ServerFrames, Metadata, Traceback
  <2> QED
    BY <1>6, <2>1
<1>8. ASSUME ErrorReply(c), pc[c] \in {"recv", "infer"} PROVE ErrorKept(c)'
  <2>1. CASE Leave(c) /\ UNCHANGED out
    BY <1>2, <2>1
  <2>2. CASE Emit(c, Traceback) /\ pc' = [pc EXCEPT ![c] = "sendError"] /\ UNCHANGED ws
    <3>1. Traceback \in ServerFrames
      BY DEF ServerFrames
    <3>2. ws[c] = "open" => ToldError(c)'
      BY <2>2, <3>1, EmitTells
    <3> QED
      BY <1>1, <2>2, <3>2 DEF ErrorKept
  <2> QED
    BY <1>8, <2>1, <2>2 DEF ErrorReply
<1>9. ASSUME RecvJunk(c) \/ InferFails(c) PROVE ErrorKept(c)'
  BY <1>8, <1>9 DEF RecvJunk, InferFails, Delivered
<1>10. ASSUME InferReturns(c) PROVE ErrorKept(c)'
  <2> DEFINE base  == IF ReusesReply THEN shared ELSE FreshReply
             reply == Reply(c, rd[c], base)
             frame == [type |-> "result", obs |-> rd[c],
                       rid |-> reply.rid, prev |-> reply.prev]
  <2>1. CASE Leave(c) /\ UNCHANGED out
    BY <1>2, <2>1
  <2>2. CASE Emit(c, frame) /\ pc' = [pc EXCEPT ![c] = "sendResult"]
    <3>1. base \in Replies
      BY DEF TypeOK, FreshReply, Replies, RequestIds
    <3>2. reply \in Replies
      BY <3>1, ReplyType DEF Replies
    <3>3. frame \in ServerFrames /\ frame # Traceback
      BY <1>1, <3>2 DEF ServerFrames, Results, Replies, Traceback
    <3>4. pc[c] = "infer" /\ pc'[c] = "sendResult"
      BY <1>1, <1>10, <2>2 DEF InferReturns
    <3> QED
      BY <1>6, <2>2, <3>3, <3>4
  <2> QED
    BY <1>10, <2>1, <2>2 DEF InferReturns
<1> QED
  BY <1>3, <1>4, <1>5, <1>7, <1>9, <1>10 DEF HandlerStep

\* What the rest of the world leaves alone.
LEMMA WorldLeaves ==
    ASSUME TypeOK, NEW c \in Conns,
           \/ Environment \/ Stop \/ UNCHANGED vars
           \/ \E d \in Conns : TransportStep(d)
    PROVE  /\ UNCHANGED <<rd, out, prev>>
           /\ code'[c] = code[c] \/ code'[c] = 1001
           /\ \/ pc'[c] = pc[c] \/ (pc[c] = "new" /\ pc'[c] = "opening")
              \/ (pc[c] = "opening" /\ pc'[c] = "done")
           /\ ws'[c] = ws[c] \/ ws'[c] # "open"
<1>1. /\ pc \in [Conns -> PCs] /\ ws \in [Conns -> {"none", "open", "lost", "closed"}]
      /\ code \in [Conns -> {0, 1001, 1011}]
  BY DEF TypeOK
<1>2. ASSUME NEW d \in Conns, Connect(d) \/ HandshakeAborts(d)
      PROVE  /\ UNCHANGED <<rd, out, prev, code, ws>>
             /\ \/ pc'[c] = pc[c] \/ (pc[c] = "new" /\ pc'[c] = "opening")
                \/ (pc[c] = "opening" /\ pc'[c] = "done")
  BY <1>1, <1>2 DEF Connect, HandshakeAborts
<1>3. ASSUME NEW d \in Conns, Lose(d) \/ Notice(d) \/ ServerCloses(d)
      PROVE  /\ UNCHANGED <<rd, out, prev, pc>>
             /\ code'[c] = code[c] \/ code'[c] = 1001
             /\ ws'[c] = ws[c] \/ ws'[c] # "open"
  BY <1>1, <1>3 DEF Lose, Notice, ServerCloses
<1>4. ASSUME \/ Interrupt \/ Kill \/ Stop \/ UNCHANGED vars
             \/ \E d \in Conns, kind \in ClientFrames : ClientSend(d, kind)
      PROVE  UNCHANGED <<rd, out, prev, code, pc, ws>>
  BY <1>4 DEF Interrupt, Kill, Stop, vars, ClientSend
<1> QED
  BY <1>2, <1>3, <1>4 DEF Environment, TransportStep

\* A step is one of a handler or of the rest of the world.
LEMMA HandlerOrWorld ==
    ASSUME [Next]_vars
    PROVE  \/ \E d \in Conns : HandlerStep(d)
           \/ Environment \/ Stop \/ UNCHANGED vars
           \/ \E d \in Conns : TransportStep(d)
BY DEF Next, Terminated

\* No step forgets an error.
LEMMA StepErrors == TypeOK /\ ErrorInv /\ [Next]_vars => ErrorInv'
<1> SUFFICES ASSUME TypeOK, ErrorInv, [Next]_vars, NEW c \in Conns PROVE ErrorKept(c)'
  BY DEF ErrorInv
<1>1. ErrorKept(c)
  BY DEF ErrorInv
<1>2. ASSUME NEW d \in Conns, HandlerStep(d) PROVE ErrorKept(c)'
  BY <1>1, <1>2, HandlerErrs, OthersLeave DEF ErrorKept, ToldError
<1>3. CASE \/ Environment \/ Stop \/ UNCHANGED vars
           \/ \E d \in Conns : TransportStep(d)
  BY <1>1, <1>3, WorldLeaves DEF ErrorKept, ToldError
<1> QED
  BY <1>2, <1>3, HandlerOrWorld

\* A client is closed with 1011 after it was sent a traceback; or because the
\* metadata failed, before it was sent anything; or when it is no longer there.
InternalErrorExplained ==
    [][\A c \in Conns :
          code[c] # 1011 /\ code'[c] = 1011 =>
              \/ ToldError(c)
              \/ pc[c] = "accepted" /\ Len(out[c]) = 0
              \/ ws[c] = "lost"]_vars

\* After the traceback nothing more is taken from the connection or sent on it:
\* observations queued behind the one that failed never reach the policy.
ErrorIsFinal ==
    [][\A c \in Conns : ToldError(c) => rd'[c] = rd[c] /\ out'[c] = out[c]]_vars

\* One step to a close code of 1011.
LEMMA StepExplained ==
    ASSUME TypeOK, ErrorInv, DialogueInv, Transports, [Next]_vars,
           NEW c \in Conns, code[c] # 1011, code'[c] = 1011
    PROVE  \/ ToldError(c)
           \/ pc[c] = "accepted" /\ Len(out[c]) = 0
           \/ ws[c] = "lost"
<1>1. /\ code \in [Conns -> {0, 1001, 1011}]
      /\ ws \in [Conns -> {"none", "open", "lost", "closed"}]
  BY DEF TypeOK
<1>2. HandlerStep(c)
  BY <1>1, HandlerOrWorld, OthersLeave, WorldLeaves
<1>3. MetadataFails(c) \/ SendReturns(c)
  BY <1>2
  DEF HandlerStep, Accept, Reject, HandlerStart, SendRaises, RecvText, RecvJunk, RecvObs,
      RecvClosed, InferReturns, InferFails, CloseDone
<1>4. CASE MetadataFails(c)
  BY <1>4 DEF MetadataFails, DialogueInv, Dialogue
<1>5. CASE SendReturns(c)
  <2>1. pc[c] = "sendError" /\ ws[c] # "closed"
    BY <1>1, <1>5 DEF SendReturns
  <2>2. ws[c] \in {"open", "lost"}
    BY <1>1, <2>1 DEF Transports, InHandler
  <2> QED
    BY <2>1, <2>2 DEF ErrorInv, ErrorKept
<1> QED
  BY <1>3, <1>4, <1>5

\* One step after a traceback.
LEMMA StepFinal ==
    ASSUME TypeOK, ErrorInv, [Next]_vars, NEW c \in Conns, ToldError(c)
    PROVE  rd'[c] = rd[c] /\ out'[c] = out[c]
<1>1. pc[c] \in {"sendError", "closing", "done"}
  BY DEF ErrorInv, ErrorKept
<1>2. ASSUME HandlerStep(c) PROVE SendReturns(c) \/ SendRaises(c) \/ CloseDone(c)
  BY <1>1, <1>2
  DEF HandlerStep, Accept, Reject, HandlerStart, MetadataFails, RecvText, RecvJunk, RecvObs,
      RecvClosed, InferReturns, InferFails, Delivered
<1>3. ASSUME HandlerStep(c) PROVE rd'[c] = rd[c] /\ out'[c] = out[c]
  BY <1>2, <1>3 DEF SendReturns, SendRaises, CloseDone
<1> QED
  BY <1>3, HandlerOrWorld, OthersLeave, WorldLeaves

\* Errors are kept from the start.
LEMMA InitErrors == Init => Transports /\ ErrorInv
BY DEF Init, Unused, Transports, InHandler, ErrorInv, ErrorKept, ToldError

\* What is true of the claim of schema.py:11 that ServerMetadataError refutes:
\* 1011 comes after a traceback but for failed metadata and clients that left.
THEOREM InternalErrorsExplained == Spec => InternalErrorExplained
<1>1. TypeOK /\ ErrorInv /\ DialogueInv /\ Transports /\ [Next]_vars =>
        [\A c \in Conns :
            code[c] # 1011 /\ code'[c] = 1011 =>
                \/ ToldError(c)
                \/ pc[c] = "accepted" /\ Len(out[c]) = 0
                \/ ws[c] = "lost"]_vars
  BY StepExplained
<1> QED
  BY <1>1, InitErrors, TypeCorrect, Dialogues, StepTransports, StepErrors, PTL
  DEF Spec, InternalErrorExplained

\* A traceback is the end of what a connection asks of the policy.
THEOREM ErrorsAreFinal == Spec => ErrorIsFinal
<1>1. TypeOK /\ ErrorInv /\ [Next]_vars =>
        [\A c \in Conns : ToldError(c) => rd'[c] = rd[c] /\ out'[c] = out[c]]_vars
  BY StepFinal
<1> QED
  BY <1>1, InitErrors, TypeCorrect, StepErrors, PTL DEF Spec, ErrorIsFinal
=============================================================================
