-------------------------- MODULE ClientServerProofs --------------------------
(***************************************************************************)
(* Theorems about ClientServer, for any number of scripts, observations,   *)
(* failures and foreign clients.                                           *)
(***************************************************************************)
EXTENDS ClientServer, ServerProtocolProofs, SlotPoolProofs

-----------------------------------------------------------------------------
(* What a step of the system is for the server.                            *)

\* The server process makes a step of its own specification, or fails, or is
\* started again.
LEMMA ServerOrRestart ==
    ASSUME [SystemNext]_allVars
    PROVE  [Next]_vars \/ Crash \/ Serves
<1>1. ASSUME NEW c \in Scripts, ScriptStep(c) \/ TimesOut(c)
      PROVE  [Next]_vars
  <2>1. c \in Conns
    BY ScriptsAssumption
  <2>2. \/ UNCHANGED vars
        \/ Connect(c) \/ ClientSend(c, "obs") \/ Lose(c) \/ HandshakeAborts(c)
    BY <1>1 DEF ScriptStep, TimesOut, Dial, Refused, Retry, Upgraded, TurnedAway,
                Greeted, Hear, RecvFails, Ask, AskFails, InferEnds, ScriptEnds,
                Exit, Move
  <2> QED
    BY <2>1, <2>2, ScriptsAssumption DEF Next, Environment
<1>2. ASSUME ServerStep \/ World PROVE [Next]_vars
  BY <1>2 DEF ServerStep, World, Next, Environment
<1>3. ASSUME UnitStep PROVE [Next]_vars \/ Crash \/ Serves
  BY <1>3 DEF UnitStep, LoadFails, RestartDue, Stopped, Next, Environment
<1>4. ASSUME AllOver \/ UNCHANGED allVars PROVE UNCHANGED vars
  BY <1>4 DEF AllOver, allVars, vars
<1> QED
  BY <1>1, <1>2, <1>3, <1>4 DEF SystemNext

\* Nobody is connected to a server that has just been started, or has failed.
LEMMA SystemCounted ==
    ASSUME Counted, [SystemNext]_allVars PROVE Counted'
<1>1. ASSUME [Next]_vars PROVE Counted'
  BY <1>1, StepCounted
<1>2. ASSUME Crash PROVE Counted'
  BY <1>2 DEF Crash, Counted, TypeOK, SlotAccounting, Handlers
<1>3. ASSUME Serves PROVE Counted'
  <2>1. Handlers' = {}
    BY <1>3 DEF Serves, Handlers, InHandler
  <2>2. SlotAccounting'
    BY <1>3, <2>1, FS_EmptySet DEF Serves, SlotAccounting
  <2>3. pc' \in [Conns -> PCs] /\ ws' \in [Conns -> {"none", "open", "lost", "closed"}]
    BY <1>3 DEF Serves, PCs
  <2>4. /\ shared' \in Replies /\ resetBy' \in Conns \cup {Idle}
        /\ loop' \in Conns \cup {Idle} /\ active' \in Nat
        /\ srv' = "serving" /\ closed' \in BOOLEAN
    BY <1>3 DEF Serves, FreshReply, Replies, RequestIds
  <2>5. UNCHANGED <<request, status, code, sent, rd, out, prev>>
    BY <1>3 DEF Serves
  <2>6. TypeOK'
    BY <2>3, <2>4, <2>5, ZenonT(20) DEF TypeOK, Counted
  <2> QED
    BY <2>2, <2>6 DEF Counted
<1> QED
  BY <1>1, <1>2, <1>3, ServerOrRestart

-----------------------------------------------------------------------------
(* What the server keeps to through failures and restarts.                 *)

ServerInv ==
    /\ CapInv /\ EpisodeInv /\ Unjudged
    /\ AdmissionInv /\ DialogueInv
    /\ Transports /\ ErrorInv /\ ClosedLast /\ LoopHeld

\* A process that fails changes nothing of what its clients were told.
LEMMA CrashKeeps == ServerInv /\ Crash => ServerInv'
<1> SUFFICES ASSUME ServerInv, Crash PROVE ServerInv'
  OBVIOUS
<1>1. /\ Alive /\ srv' = "killed"
      /\ UNCHANGED <<loop, active, pc, request, status, ws, code, sent, rd, out,
                     prev, resetBy, shared, closed>>
  BY DEF Crash
<1>2. Counted'
  BY <1>1 DEF ServerInv, CapInv, Counted, TypeOK, SlotAccounting, Handlers
<1>3. CapInv' /\ EpisodeInv' /\ Unjudged'
  BY <1>1, <1>2
  DEF ServerInv, CapInv, UpgradeGuarded, CapRespected, Handlers, EpisodeInv, Unjudged
<1>4. AdmissionInv' /\ Transports' /\ ErrorInv'
  BY <1>1 DEF ServerInv, AdmissionInv, KnownAddresses, ConfiguredBlocks, AdmissionSound, Transports, ErrorInv, ErrorKept, ToldError
<1>5. DialogueInv'
  BY <1>1 DEF ServerInv, DialogueInv, Dialogue, UpToDate
<1>6. ClosedLast' /\ LoopHeld'
  BY <1>1 DEF ServerInv, ClosedLast, LoopHeld, Alive
<1> QED
  BY <1>3, <1>4, <1>5, <1>6 DEF ServerInv

\* A new process has no client, and says nothing on the connections of the one
\* before.
LEMMA ServesKeeps == ServerInv /\ Counted' /\ Serves => ServerInv'
<1> SUFFICES ASSUME ServerInv, Counted', Serves PROVE ServerInv'
  OBVIOUS
<1>1. /\ srv' = "serving" /\ active' = 0 /\ closed' = FALSE /\ loop' = Idle
      /\ pc' = [c \in Conns |-> IF pc[c] = "new" THEN "new" ELSE "done"]
      /\ ws' = [c \in Conns |-> IF ws[c] = "none" THEN "none" ELSE "closed"]
      /\ UNCHANGED <<request, status, code, sent, rd, out, prev>>
  BY DEF Serves
<1>2. \A c \in Conns :
          /\ pc'[c] = "done" \/ (pc'[c] = "new" /\ pc[c] = "new")
          /\ ws'[c] = "closed" \/ (ws'[c] = "none" /\ ws[c] = "none")
  BY <1>1
<1>3. CapInv' /\ EpisodeInv' /\ Unjudged'
  <2>1. \A c \in Conns : pc'[c] \notin InHandler \cup {"accepted", "opening"}
    BY <1>2 DEF InHandler
  <2>2. CapRespected'
    BY <1>1, ServerAssumption DEF Counted, SlotAccounting, CapRespected
  <2> QED
    BY <1>1, <1>2, <2>1, <2>2 DEF ServerInv, CapInv, UpgradeGuarded, EpisodeInv, Unjudged
<1>4. AdmissionInv' /\ ErrorInv'
  BY <1>1, <1>2 DEF ServerInv, AdmissionInv, KnownAddresses, ConfiguredBlocks, AdmissionSound, ErrorInv, ErrorKept, ToldError
<1>5. Transports'
  <2>1. \A c \in Conns : pc[c] = "new" => ws[c] = "none"
    BY DEF ServerInv, Transports
  <2> QED
    BY <1>1, <1>2, <2>1 DEF Transports, InHandler
<1>6. DialogueInv'
  <2> SUFFICES ASSUME NEW c \in Conns PROVE Dialogue(c)'
    BY DEF DialogueInv
  <2>1. Dialogue(c)
    BY DEF ServerInv, DialogueInv
  <2> QED
    BY <1>1, <1>2, <2>1 DEF Dialogue
<1>7. ClosedLast' /\ LoopHeld'
  BY <1>1, <1>2, ServerAssumption DEF ClosedLast, LoopHeld
<1> QED
  BY <1>3, <1>4, <1>5, <1>6, <1>7 DEF ServerInv

\* Neither the server's own steps nor its end or restart break it.
LEMMA StepServer == ServerInv /\ [SystemNext]_allVars => ServerInv'
<1> SUFFICES ASSUME ServerInv, [SystemNext]_allVars PROVE ServerInv'
  OBVIOUS
<1>1. TypeOK /\ Counted /\ CapInv
  BY DEF ServerInv, CapInv, Counted
<1>2. CASE [Next]_vars
  BY <1>1, <1>2, StepCap, StepEpisode, StepUnjudged, StepAdmission, StepDialogue,
     StepTransports, StepErrors, StepClosedLast, StepHeld
  DEF ServerInv
<1> QED
  BY <1>1, <1>2, CrashKeeps, ServesKeeps, SystemCounted, ServerOrRestart

\* It holds when the unit is started, whether the policy is loaded yet or not.
LEMMA InitServer == SystemInit => ServerInv
<1> SUFFICES ASSUME SystemInit PROVE ServerInv
  OBVIOUS
<1>1. Unused /\ srv \in {"serving", "killed"}
  BY DEF SystemInit
<1>2. Counted
  BY <1>1, UnusedCounted
<1>3. active = 0 /\ closed = FALSE /\ loop = Idle
      /\ \A c \in Conns : /\ pc[c] = "new" /\ status[c] = "NONE" /\ ws[c] = "none"
                          /\ out[c] = <<>> /\ sent[c] = <<>> /\ rd[c] = 0 /\ prev[c] = 0
  BY <1>1 DEF Unused
<1>4. CapInv
  BY <1>2, <1>3, ServerAssumption
  DEF CapInv, UpgradeGuarded, CapRespected, Counted, SlotAccounting
<1>5. EpisodeInv /\ Unjudged /\ Transports /\ ClosedLast /\ LoopHeld
  BY <1>1, <1>3, ServerAssumption
  DEF EpisodeInv, Unjudged, Transports, ClosedLast, LoopHeld, InHandler
<1>6. AdmissionInv
  BY <1>3 DEF AdmissionInv, AdmissionSound
<1>7. DialogueInv /\ ErrorInv
  BY <1>3 DEF DialogueInv, Dialogue, ErrorInv, ErrorKept, ToldError
<1> QED
  BY <1>4, <1>5, <1>6, <1>7 DEF ServerInv

\* The slots are counted, the cap is kept, the policy is in one call at a time
\* and episodes are not disturbed by other clients, whoever connects and however
\* often the process fails.
THEOREM SystemKeepsCap ==
    SystemSpec => [](SlotAccounting /\ CapRespected /\ SessionIsolated /\ OneInference)
<1>1. ServerInv => SlotAccounting /\ CapRespected /\ SessionIsolated /\ OneInference
  BY DEF ServerInv, CapInv, Counted, EpisodeInv, SessionIsolated, InHandler,
         LoopHeld, OneInference
<1> QED
  BY <1>1, InitServer, StepServer, PTL DEF SystemSpec

\* What a client was told about its request and its observations is right, also
\* when the process that told it is gone.
THEOREM SystemKeepsProtocol ==
    SystemSpec => [](/\ KnownAddresses => AdmissionSound
                     /\ WireGrammar /\ RepliesInOrder
                     /\ ~ReusesReply => EchoesRequestId /\ TimingOfPreviousStep)
<1>1. ServerInv => TypeOK /\ DialogueInv /\ (KnownAddresses => AdmissionSound)
  BY DEF ServerInv, CapInv, Counted, AdmissionInv
<1> QED
  BY <1>1, InitServer, StepServer, DialogueGrammar, DialogueInOrder, DialogueEchoes,
     DialogueTimed, PTL
  DEF SystemSpec

\* A process that closed its policy has no client left; one that is started
\* after it has a policy that is open.
THEOREM SystemClosesCleanly == SystemSpec => [](ClosedLast /\ CleanExit)
<1>1. ServerInv => Counted /\ Transports /\ ClosedLast
  BY DEF ServerInv, CapInv
<1> QED
  BY <1>1, InitServer, StepServer, ExitIsClean, PTL DEF SystemSpec

\* Nobody is told that there is no room because of clients of a process that
\* is gone.
THEOREM SystemDeniesJustly == SystemSpec => DenialJustified
<1>1. ServerInv /\ [SystemNext]_allVars =>
        [\A c \in Conns :
            status[c] # "UNAVAILABLE" /\ status'[c] = "UNAVAILABLE" =>
                srv = "closing" \/ Cardinality(Handlers) >= MaxConnections]_vars
  <2> SUFFICES ASSUME ServerInv, [SystemNext]_allVars, NEW c \in Conns,
                      status[c] # "UNAVAILABLE", status'[c] = "UNAVAILABLE"
               PROVE  srv = "closing" \/ Cardinality(Handlers) >= MaxConnections
    OBVIOUS
  <2>1. ~Crash /\ ~Serves
    BY DEF Crash, Serves
  <2> QED
    BY <2>1, ServerOrRestart, StepDenial DEF ServerInv, CapInv
<1> QED
  BY <1>1, InitServer, StepServer, PTL DEF SystemSpec, DenialJustified

-----------------------------------------------------------------------------
(* A connection the server has not seen.                                   *)

\* A step in which the client of c neither connects nor sends.
StepWithoutClient(c) ==
    \/ Interrupt \/ Kill \/ Stop \/ Crash \/ Serves \/ UNCHANGED vars
    \/ \E d \in Conns :
         HandlerStep(d) \/ TransportStep(d) \/ HandshakeAborts(d) \/ Lose(d)
    \/ \E d \in Conns \ {c} :
         Connect(d) \/ \E kind \in ClientFrames : ClientSend(d, kind)

\* Only Connect(c) makes a new connection an old one, and nothing makes an old
\* one new again.
LEMMA NewStays ==
    ASSUME Counted, NEW c \in Conns, StepWithoutClient(c)
    PROVE  pc'[c] = "new" <=> pc[c] = "new"
<1>1. pc \in [Conns -> PCs]
  BY DEF Counted, TypeOK
<1>2. ASSUME Crash \/ Serves PROVE pc'[c] = "new" <=> pc[c] = "new"
  BY <1>1, <1>2 DEF Crash, Serves
<1>3. ASSUME NEW d \in Conns, HandlerStep(d)
      PROVE  pc[d] # "new" /\ \E v \in PCs \ {"new"} : pc' = [pc EXCEPT ![d] = v]
  BY <1>1, <1>3, SMTT(60)
  DEF HandlerStep, Accept, Reject, HandlerStart, MetadataFails, SendReturns, SendRaises,
      RecvText, RecvJunk, RecvObs, RecvClosed, InferReturns, InferFails,
      CloseDone, Delivered, ErrorReply, Leave, PCs, InHandler
<1>4. ASSUME NEW d \in Conns, HandshakeAborts(d) \/ (d # c /\ Connect(d))
      PROVE  pc'[c] = "new" <=> pc[c] = "new"
  BY <1>1, <1>4 DEF Connect, HandshakeAborts
<1>5. ASSUME \/ Interrupt \/ Kill \/ Stop \/ UNCHANGED vars
             \/ \E d \in Conns : \/ Lose(d) \/ TransportStep(d)
                                 \/ \E kind \in ClientFrames : ClientSend(d, kind)
      PROVE  pc' = pc
  BY <1>5 DEF Interrupt, Kill, Stop, vars, Lose, TransportStep, Notice,
              ServerCloses, ClientSend
<1> QED
  BY <1>1, <1>2, <1>3, <1>4, <1>5 DEF StepWithoutClient

\* A script is connected by its own Dial and sends by its own Ask.
LEMMA DialAskOrNot ==
    ASSUME NEW c \in Scripts, [SystemNext]_allVars
    PROVE  StepWithoutClient(c) \/ Dial(c) \/ Ask(c)
<1> USE ScriptsAssumption DEF StepWithoutClient
<1>1. ASSUME NEW d \in Scripts, ScriptStep(d) \/ TimesOut(d), ~Dial(c), ~Ask(c)
      PROVE  StepWithoutClient(c)
  <2>1. \/ UNCHANGED vars
        \/ Dial(d) \/ Ask(d) \/ Lose(d) \/ HandshakeAborts(d)
    BY <1>1 DEF ScriptStep, TimesOut, Refused, Retry, Upgraded, TurnedAway,
                Greeted, Hear, RecvFails, AskFails, InferEnds, ScriptEnds,
                Exit, Move
  <2> QED
    BY <1>1, <2>1 DEF Dial, Ask
<1>2. ASSUME ServerStep \/ World PROVE StepWithoutClient(c)
  BY <1>2 DEF ServerStep, World
<1>3. ASSUME UnitStep PROVE StepWithoutClient(c)
  BY <1>3 DEF UnitStep, LoadFails, RestartDue, Stopped
<1>4. ASSUME AllOver \/ UNCHANGED allVars PROVE UNCHANGED vars
  BY <1>4 DEF AllOver, allVars, vars
<1> QED
  BY <1>1, <1>2, <1>3, <1>4 DEF SystemNext

\* The places a script can be in.
Places == {"connect", "sleep", "handshake", "greeting", "ready", "waiting", "ok", "failed"}

\* RetryOnlyUnseen is inductive, given the types of the server.
LEMMA StepUnseen ==
    ASSUME Counted, cpc \in [Scripts -> Places], RetryOnlyUnseen,
           [SystemNext]_allVars
    PROVE  RetryOnlyUnseen'
<1> SUFFICES ASSUME NEW c \in Scripts, cpc'[c] \in {"connect", "sleep"}
             PROVE  pc'[c] = "new"
  BY DEF RetryOnlyUnseen
<1>1. c \in Conns
  BY ScriptsAssumption
<1>2. cpc[c] \in {"connect", "sleep"}
  BY DEF SystemNext, allVars, ServerStep, World, AllOver, UnitStep, LoadFails, Fails,
         Crash, RestartDue, Serves, Stopped, UnitGoes, scriptVars, ScriptStep,
         TimesOut, Dial, Refused, Retry, Upgraded, TurnedAway, Greeted, Hear,
         RecvFails, Ask, AskFails, InferEnds, ScriptEnds, Exit, Move, Goto
<1>3. pc[c] = "new"
  BY <1>2 DEF RetryOnlyUnseen
<1>4. ~Dial(c) /\ ~Ask(c)
  <2>1. cpc'[c] \notin {"handshake", "waiting"}
    OBVIOUS
  <2>2. cpc \in [Scripts -> Places] => DOMAIN cpc = Scripts
    OBVIOUS
  <2> QED
    BY <2>1, <2>2 DEF Dial, Ask, Goto
<1> QED
  BY <1>1, <1>3, <1>4, NewStays, DialAskOrNot

\* A script goes from place to place.
LEMMA StepPlaces ==
    ASSUME cpc \in [Scripts -> Places], [SystemNext]_allVars
    PROVE  cpc' \in [Scripts -> Places]
<1>1. \/ cpc' = cpc
      \/ \E c \in Scripts, place \in Places : Goto(c, place)
  BY DEF SystemNext, allVars, ServerStep, World, AllOver, UnitStep, LoadFails, Fails,
         Crash, RestartDue, Serves, Stopped, UnitGoes, scriptVars, ScriptStep,
         TimesOut, Dial, Refused, Retry, Upgraded, TurnedAway, Greeted, Hear,
         RecvFails, Ask, AskFails, InferEnds, ScriptEnds, Exit, Move, Places
<1> QED
  BY <1>1 DEF Goto

UnseenInv == Counted /\ cpc \in [Scripts -> Places] /\ RetryOnlyUnseen

\* It holds when the scripts start.
LEMMA InitUnseen == SystemInit => UnseenInv
BY UnusedCounted, ScriptsAssumption
DEF SystemInit, UnseenInv, RetryOnlyUnseen, Unused, Places

\* A script that tries again has not been seen by any server, whatever the
\* server, systemd, the network and other clients do.
THEOREM RetriesAreHarmless == SystemSpec => []RetryOnlyUnseen
<1>1. UnseenInv /\ [SystemNext]_allVars => UnseenInv'
  BY SystemCounted, StepUnseen, StepPlaces DEF UnseenInv
<1>2. UnseenInv => RetryOnlyUnseen
  BY DEF UnseenInv
<1> QED
  BY <1>1, <1>2, InitUnseen, PTL DEF SystemSpec

-----------------------------------------------------------------------------
(* What the frames of a script's connection are.                           *)

\* The k-th frame is the metadata, or answers observation k - 1.
FrameFits(c, k) ==
    IF k = 1 THEN out[c][k] = Metadata
    ELSE out[c][k] = Traceback \/ (IsResult(out[c][k]) /\ out[c][k].obs = k - 1)

\* A connection on which only observations are sent: as long as it is open,
\* the server has sent one frame more than it has received, but for the
\* observation it is working on.  A handler has, or had, a transport.
Framed(c) ==
    /\ \A i \in 1..Len(sent[c]) : sent[c][i] = "obs"
    /\ \A k \in 1..Len(out[c]) : FrameFits(c, k)
    /\ pc[c] \in {"new", "opening", "accepted"} => rd[c] = 0 /\ Len(out[c]) = 0
    /\ rd[c] <= Len(sent[c])
    /\ pc[c] \notin {"new", "opening", "done"} => ws[c] # "none"
    /\ /\ ws[c] = "open"
       /\ pc[c] \in {"sendMeta", "recv", "sendResult", "sendError", "closing"}
       => Len(out[c]) = rd[c] + 1
    /\ ws[c] = "open" /\ pc[c] = "infer" => Len(out[c]) = rd[c] /\ rd[c] > 0

\* Sending frame on c, in the position it fits.
LEMMA EmitFits ==
    ASSUME TypeOK, NEW c \in Conns, NEW frame \in ServerFrames, Emit(c, frame),
           \A k \in 1..Len(out[c]) : FrameFits(c, k),
           ws[c] = "open" =>
               IF Len(out[c]) = 0 THEN frame = Metadata
               ELSE frame = Traceback \/ (IsResult(frame) /\ frame.obs = Len(out[c]))
    PROVE  /\ \A k \in 1..Len(out'[c]) : FrameFits(c, k)'
           /\ ws[c] = "open" => Len(out'[c]) = Len(out[c]) + 1
<1>1. out[c] \in Seq(ServerFrames) /\ out \in [Conns -> Seq(ServerFrames)]
  BY DEF TypeOK
<1>2. CASE ws[c] # "open"
  BY <1>1, <1>2 DEF Emit, FrameFits
<1>3. CASE ws[c] = "open"
  <2>1. out'[c] = Append(out[c], frame)
    BY <1>1, <1>3 DEF Emit
  <2>2. Len(out'[c]) = Len(out[c]) + 1 /\ out'[c][Len(out[c]) + 1] = frame
    BY <1>1, <2>1
  <2>3. \A k \in 1..Len(out[c]) : out'[c][k] = out[c][k]
    BY <1>1, <2>1
  <2> SUFFICES ASSUME NEW k \in 1..Len(out'[c]) PROVE FrameFits(c, k)'
    BY <2>2
  <2>4. k \in 1..Len(out[c]) \/ k = Len(out[c]) + 1
    BY <1>1, <2>2
  <2> QED
    BY <1>1, <1>3, <2>2, <2>3, <2>4 DEF FrameFits
<1> QED
  BY <1>2, <1>3

\* The handler of c keeps the frames of c in order.
LEMMA HandlerFramed ==
    ASSUME TypeOK, NEW c \in Conns, Framed(c), HandlerStep(c)
    PROVE  Framed(c)'
<1>1. /\ sent[c] \in Seq(FrameKinds) /\ rd[c] \in Nat /\ out[c] \in Seq(ServerFrames)
      /\ pc \in [Conns -> PCs] /\ ws \in [Conns -> {"none", "open", "lost", "closed"}]
      /\ rd \in [Conns -> Nat]
  BY DEF TypeOK
<1>2. sent' = sent
  BY DEF HandlerStep, Accept, Reject, HandlerStart, MetadataFails, SendReturns, SendRaises,
         RecvText, RecvJunk, RecvObs, RecvClosed, InferReturns, InferFails, CloseDone
<1>3. ASSUME out' = out PROVE \A k \in 1..Len(out'[c]) : FrameFits(c, k)'
  BY <1>3 DEF Framed, FrameFits
<1>4. ASSUME Accept(c) \/ Reject(c) PROVE Framed(c)'
  BY <1>1, <1>2, <1>3, <1>4 DEF Accept, Reject, Framed
<1>5. ASSUME HandlerStart(c) PROVE Framed(c)'
  <2>1. Emit(c, Metadata) /\ Metadata \in ServerFrames /\ Len(out[c]) = 0 /\ rd[c] = 0
    BY <1>5 DEF HandlerStart, ServerFrames, Framed
  <2>2. /\ \A k \in 1..Len(out'[c]) : FrameFits(c, k)'
        /\ ws[c] = "open" => Len(out'[c]) = Len(out[c]) + 1
    BY <2>1, EmitFits DEF Framed
  <2> QED
    BY <1>1, <1>2, <1>5, <2>1, <2>2 DEF HandlerStart, Framed
<1>6. ASSUME MetadataFails(c) \/ SendReturns(c) PROVE Framed(c)'
  BY <1>1, <1>2, <1>3, <1>6 DEF MetadataFails, SendReturns, Framed
<1>7. ASSUME Leave(c), UNCHANGED <<rd, out>> PROVE Framed(c)'
  BY <1>1, <1>2, <1>3, <1>7 DEF Leave, Framed
<1>8. ASSUME SendRaises(c) \/ RecvClosed(c) \/ CloseDone(c) PROVE Framed(c)'
  BY <1>7, <1>8 DEF SendRaises, RecvClosed, CloseDone
<1>9. ASSUME Delivered(c) PROVE NextFrame(c) = "obs"
  BY <1>1, <1>9 DEF Delivered, NextFrame, Framed
<1>10. ASSUME RecvText(c) \/ RecvJunk(c) PROVE Framed(c)'
  BY <1>9, <1>10 DEF RecvText, RecvJunk
<1>11. ASSUME RecvObs(c) PROVE Framed(c)'
  <2>1. /\ rd'[c] = rd[c] + 1 /\ rd'[c] <= Len(sent[c])
        /\ pc[c] = "recv" /\ pc'[c] = "infer" /\ UNCHANGED <<ws, out>>
    BY <1>1, <1>11 DEF RecvObs, Delivered
  <2> QED
    BY <1>1, <1>2, <1>3, <2>1 DEF Framed
<1>12. ASSUME NEW frame \in ServerFrames, pc[c] = "infer", Emit(c, frame),
              frame = Traceback \/ (IsResult(frame) /\ frame.obs = rd[c])
       PROVE  /\ \A k \in 1..Len(out'[c]) : FrameFits(c, k)'
              /\ ws[c] = "open" => Len(out'[c]) = rd[c] + 1
  <2>1. ws[c] = "open" => Len(out[c]) = rd[c] /\ rd[c] > 0
    BY <1>12 DEF Framed
  <2> QED
    BY <1>12, <2>1, EmitFits DEF Framed
<1>13. ASSUME InferReturns(c) PROVE Framed(c)'
  <2> DEFINE base  == IF ReusesReply THEN shared ELSE FreshReply
             reply == Reply(c, rd[c], base)
             frame == [type |-> "result", obs |-> rd[c],
                       rid |-> reply.rid, prev |-> reply.prev]
  <2>1. CASE Leave(c) /\ UNCHANGED out
    BY <1>7, <1>13, <2>1 DEF InferReturns
  <2>2. CASE Emit(c, frame) /\ pc' = [pc EXCEPT ![c] = "sendResult"] /\ UNCHANGED ws
    <3>1. base \in Replies
      BY DEF TypeOK, FreshReply, Replies, RequestIds
    <3>2. reply \in Replies
      BY <3>1, ReplyType DEF Replies
    <3>3. frame \in ServerFrames
      BY <1>1, <3>2 DEF ServerFrames, Results, Replies
    <3>4. IsResult(frame) /\ frame.obs = rd[c]
      BY DEF IsResult
    <3>5. pc[c] = "infer" /\ rd' = rd
      BY <1>13 DEF InferReturns
    <3> HIDE DEF frame
    <3>6. /\ \A k \in 1..Len(out'[c]) : FrameFits(c, k)'
          /\ ws[c] = "open" => Len(out'[c]) = rd[c] + 1
      BY <1>12, <2>2, <3>3, <3>4, <3>5
    <3> QED
      BY <1>1, <1>2, <2>2, <3>5, <3>6 DEF Framed
  <2> QED
    BY <1>13, <2>1, <2>2 DEF InferReturns
<1>14. ASSUME InferFails(c) PROVE Framed(c)'
  <2>1. CASE Leave(c) /\ UNCHANGED out
    BY <1>7, <1>14, <2>1 DEF InferFails
  <2>2. CASE Emit(c, Traceback) /\ pc' = [pc EXCEPT ![c] = "sendError"] /\ UNCHANGED ws
    <3>1. Traceback \in ServerFrames /\ pc[c] = "infer" /\ rd' = rd
      BY <1>14 DEF ServerFrames, InferFails
    <3>2. /\ \A k \in 1..Len(out'[c]) : FrameFits(c, k)'
          /\ ws[c] = "open" => Len(out'[c]) = rd[c] + 1
      BY <1>12, <2>2, <3>1
    <3> QED
      BY <1>1, <1>2, <2>2, <3>1, <3>2 DEF Framed
  <2> QED
    BY <1>14, <2>1, <2>2 DEF InferFails, ErrorReply
<1> QED
  BY <1>4, <1>5, <1>6, <1>8, <1>10, <1>11, <1>13, <1>14 DEF HandlerStep

\* A step without the client keeps the frames of c in order.
LEMMA ServerFramed ==
    ASSUME TypeOK, NEW c \in Conns, Framed(c), StepWithoutClient(c)
    PROVE  Framed(c)' /\ sent'[c] = sent[c]
<1>1. /\ pc \in [Conns -> PCs] /\ ws \in [Conns -> {"none", "open", "lost", "closed"}]
      /\ sent \in [Conns -> Seq(FrameKinds)]
  BY DEF TypeOK
<1>2. ASSUME rd'[c] = rd[c], out'[c] = out[c], sent'[c] = sent[c],
             pc'[c] = pc[c] \/ (pc[c] = "new" /\ pc'[c] = "opening") \/ pc'[c] = "done",
             ws'[c] = ws[c] \/ ws'[c] \in {"lost", "closed"}
      PROVE  Framed(c)' /\ sent'[c] = sent[c]
  BY <1>2 DEF Framed, FrameFits
<1>3. CASE HandlerStep(c)
  <2>1. sent' = sent
    BY <1>3
    DEF HandlerStep, Accept, Reject, HandlerStart, MetadataFails, SendReturns, SendRaises,
        RecvText, RecvJunk, RecvObs, RecvClosed, InferReturns, InferFails, CloseDone
  <2> QED
    BY <1>3, <2>1, HandlerFramed
<1>4. ASSUME NEW d \in Conns \ {c}, HandlerStep(d) PROVE Framed(c)' /\ sent'[c] = sent[c]
  BY <1>2, <1>4, OthersLeave
<1>5. ASSUME NEW d \in Conns, TransportStep(d) \/ Lose(d)
      PROVE  Framed(c)' /\ sent'[c] = sent[c]
  <2>1. UNCHANGED <<pc, rd, out, sent>> /\ (ws'[c] = ws[c] \/ ws'[c] \in {"lost", "closed"})
    BY <1>1, <1>5 DEF TransportStep, Notice, ServerCloses, Lose
  <2> QED
    BY <1>2, <2>1
<1>6. ASSUME NEW d \in Conns, HandshakeAborts(d) \/ (d # c /\ Connect(d))
      PROVE  Framed(c)' /\ sent'[c] = sent[c]
  <2>1. UNCHANGED <<ws, rd, out, sent>> /\ (pc'[c] = pc[c] \/ pc'[c] = "done")
    BY <1>1, <1>6 DEF HandshakeAborts, Connect
  <2> QED
    BY <1>2, <2>1
<1>7. ASSUME NEW d \in Conns \ {c}, NEW kind \in ClientFrames, ClientSend(d, kind)
      PROVE  Framed(c)' /\ sent'[c] = sent[c]
  <2>1. UNCHANGED <<pc, ws, rd, out>> /\ sent'[c] = sent[c]
    BY <1>1, <1>7 DEF ClientSend
  <2> QED
    BY <1>2, <2>1
<1>8. ASSUME Serves PROVE Framed(c)' /\ sent'[c] = sent[c]
  <2>1. UNCHANGED <<rd, out, sent>> /\ ws'[c] \in {ws[c], "closed"} /\ pc'[c] \in {pc[c], "done"}
    BY <1>8 DEF Serves
  <2> QED
    BY <1>2, <2>1
<1>9. ASSUME Interrupt \/ Kill \/ Stop \/ Crash \/ UNCHANGED vars
      PROVE  Framed(c)' /\ sent'[c] = sent[c]
  <2>1. UNCHANGED <<pc, ws, rd, out, sent>>
    BY <1>9 DEF Interrupt, Kill, Stop, Crash, vars
  <2> QED
    BY <1>2, <2>1
<1> QED
  BY <1>3, <1>4, <1>5, <1>6, <1>7, <1>8, <1>9 DEF StepWithoutClient

\* So does a client that connects, or sends an observation.
LEMMA ClientFramed ==
    ASSUME TypeOK, NEW c \in Scripts, Framed(c), Dial(c) \/ Ask(c)
    PROVE  Framed(c)'
<1>1. /\ c \in Conns
      /\ pc \in [Conns -> PCs]
      /\ sent \in [Conns -> Seq(FrameKinds)]
  BY ScriptsAssumption DEF TypeOK
<1>2. CASE Dial(c)
  <2>1. UNCHANGED <<ws, rd, out, sent>> /\ pc[c] = "new" /\ pc'[c] = "opening"
    BY <1>1, <1>2 DEF Dial, Connect
  <2> QED
    BY <2>1 DEF Framed, FrameFits
<1>3. CASE Ask(c)
  <2>1. UNCHANGED <<pc, ws, rd, out>> /\ sent'[c] = Append(sent[c], "obs")
    BY <1>1, <1>3 DEF Ask, ClientSend
  <2>2. /\ \A i \in 1..Len(sent'[c]) : sent'[c][i] = "obs"
        /\ rd[c] <= Len(sent'[c])
    <3>1. rd[c] \in Nat
      BY <1>1 DEF TypeOK
    <3> QED
      BY <1>1, <2>1, <3>1 DEF Framed
  <2> QED
    BY <2>1, <2>2 DEF Framed, FrameFits
<1> QED
  BY <1>2, <1>3

-----------------------------------------------------------------------------
(* What a script makes of them.                                            *)

\* A script has asked for nothing before it is greeted; after that it has
\* received the metadata and every answer but the one it waits for.
Heeded(c) ==
    /\ cpc[c] \in {"connect", "sleep", "handshake", "greeting"} =>
           got[c] = 0 /\ Len(sent[c]) = 0
    /\ cpc[c] = "ready" => got[c] = Len(sent[c]) + 1
    /\ cpc[c] = "waiting" => got[c] = Len(sent[c]) /\ Len(sent[c]) > 0

ScriptInv ==
    /\ Counted
    /\ cpc \in [Scripts -> Places]
    /\ got \in [Scripts -> Nat]
    /\ \A c \in Scripts : Framed(c) /\ Heeded(c)

\* It holds when the scripts start.
LEMMA InitScripts == SystemInit => ScriptInv
<1> SUFFICES ASSUME SystemInit PROVE ScriptInv
  OBVIOUS
<1>1. Unused /\ srv \in {"serving", "killed"} /\ Scripts \subseteq Conns
  BY ScriptsAssumption DEF SystemInit
<1>2. Counted
  BY <1>1, UnusedCounted
<1>3. /\ cpc = [c \in Scripts |-> "connect"]
      /\ got = [c \in Scripts |-> 0]
  BY DEF SystemInit
<1>4. ASSUME NEW c \in Scripts
      PROVE  /\ sent[c] = <<>> /\ out[c] = <<>> /\ rd[c] = 0
             /\ pc[c] = "new" /\ ws[c] = "none"
  BY <1>1 DEF Unused
<1> QED
  BY <1>2, <1>3, <1>4 DEF ScriptInv, Framed, FrameFits, Heeded, Places

\* What a script may do when it neither connects nor sends: it receives the
\* metadata or an answer, or only goes on.
LEMMA ScriptMoves ==
    ASSUME cpc \in [Scripts -> Places], got \in [Scripts -> Nat],
           NEW c \in Scripts, [SystemNext]_allVars, ~Dial(c), ~Ask(c)
    PROVE  \/ got'[c] = got[c] /\ (cpc'[c] = cpc[c] \/ cpc'[c] \in {"ok", "failed"})
           \/ /\ got'[c] = got[c]
              /\ cpc[c] \in {"connect", "sleep", "handshake"}
              /\ cpc'[c] \in {"connect", "sleep", "greeting"}
           \/ got'[c] = got[c] + 1 /\ cpc[c] = "greeting" /\ cpc'[c] = "ready"
           \/ /\ InferEnds(c) /\ got'[c] = got[c] + 1
              /\ cpc[c] = "waiting" /\ cpc'[c] \in {"ready", "failed"}
<1>1. ASSUME NEW d \in Scripts, ScriptStep(d) \/ TimesOut(d), d # c
      PROVE  got'[c] = got[c] /\ cpc'[c] = cpc[c]
  BY <1>1 DEF ScriptStep, TimesOut, Dial, Refused, Retry, Upgraded, TurnedAway,
              Greeted, Hear, RecvFails, Ask, AskFails, InferEnds, ScriptEnds,
              Exit, Move, Goto, scriptVars
<1>2. ASSUME Refused(c) \/ Retry(c) \/ Upgraded(c) \/ TurnedAway(c) \/ RecvFails(c)
             \/ AskFails(c) \/ ScriptEnds(c) \/ TimesOut(c) \/ Exit(c)
      PROVE  \/ got'[c] = got[c] /\ (cpc'[c] = cpc[c] \/ cpc'[c] \in {"ok", "failed"})
             \/ /\ got'[c] = got[c]
                /\ cpc[c] \in {"connect", "sleep", "handshake"}
                /\ cpc'[c] \in {"connect", "sleep", "greeting"}
  BY <1>2 DEF Refused, Retry, Upgraded, TurnedAway, RecvFails, AskFails, ScriptEnds,
              TimesOut, Exit, Move, Goto, scriptVars
<1>3. ASSUME Greeted(c)
      PROVE  got'[c] = got[c] + 1 /\ cpc[c] = "greeting" /\ cpc'[c] = "ready"
  BY <1>3 DEF Greeted, Hear, Goto
<1>4. ASSUME InferEnds(c)
      PROVE  /\ got'[c] = got[c] + 1
             /\ cpc[c] = "waiting" /\ cpc'[c] \in {"ready", "failed"}
  BY <1>4 DEF InferEnds, Hear, Goto
<1>5. ASSUME ServerStep \/ World \/ UnitStep \/ AllOver \/ UNCHANGED allVars
      PROVE  got' = got /\ cpc' = cpc
  BY <1>5 DEF ServerStep, World, AllOver, allVars, UnitStep, LoadFails, Fails, Crash,
              RestartDue, Serves, Stopped, UnitGoes, scriptVars
<1> QED
  BY <1>1, <1>2, <1>3, <1>4, <1>5 DEF SystemNext, ScriptStep

\* Every step of the system keeps frames and scripts together.
LEMMA StepScripts == ScriptInv /\ [SystemNext]_allVars => ScriptInv'
<1> SUFFICES ASSUME ScriptInv, [SystemNext]_allVars PROVE ScriptInv'
  OBVIOUS
<1>1. Counted' /\ cpc' \in [Scripts -> Places]
  BY SystemCounted, StepPlaces DEF ScriptInv
<1>2. got' \in [Scripts -> Nat]
  <2>1. got' = got \/ \E c \in Scripts : got' = [got EXCEPT ![c] = @ + 1]
    BY DEF SystemNext, ServerStep, World, AllOver, allVars, UnitStep, LoadFails, Fails,
           Crash, RestartDue, Serves, Stopped, UnitGoes, scriptVars, ScriptStep,
           TimesOut, Dial, Refused, Retry, Upgraded, TurnedAway, Greeted, Hear,
           RecvFails, Ask, AskFails, InferEnds, ScriptEnds, Exit, Move
  <2> QED
    BY <2>1 DEF ScriptInv
<1>3. ASSUME NEW c \in Scripts PROVE Framed(c)' /\ Heeded(c)'
  <2>1. /\ c \in Conns /\ TypeOK /\ Framed(c) /\ Heeded(c)
        /\ cpc \in [Scripts -> Places] /\ got \in [Scripts -> Nat]
        /\ sent \in [Conns -> Seq(FrameKinds)]
    BY ScriptsAssumption DEF ScriptInv, Counted, TypeOK
  <2>2. CASE Dial(c)
    <3>1. /\ UNCHANGED <<sent, got>>
          /\ cpc[c] = "connect" /\ cpc'[c] = "handshake"
      BY <2>1, <2>2 DEF Dial, Connect, Goto
    <3> QED
      BY <2>1, <2>2, <3>1, ClientFramed DEF Heeded
  <2>3. CASE Ask(c)
    <3>1. /\ got' = got /\ Len(sent'[c]) = Len(sent[c]) + 1
          /\ cpc[c] = "ready" /\ cpc'[c] = "waiting"
      BY <2>1, <2>3 DEF Ask, ClientSend, Goto
    <3> QED
      BY <2>1, <2>3, <3>1, ClientFramed DEF Heeded
  <2>4. CASE ~Dial(c) /\ ~Ask(c)
    <3>1. Framed(c)' /\ sent'[c] = sent[c]
      BY <2>1, <2>4, DialAskOrNot, ServerFramed
    <3>2. Heeded(c)'
      BY <2>1, <2>4, <3>1, ScriptMoves DEF Heeded
    <3> QED
      BY <3>1, <3>2
  <2> QED
    BY <2>2, <2>3, <2>4
<1> QED
  BY <1>1, <1>2, <1>3 DEF ScriptInv

\* What infer returns is the answer to the observation it was called with,
\* in sessions of any length, whatever happens to the server, the connection
\* and the other clients.
THEOREM InferAnswersItsQuestion == SystemSpec => AnswerToOwnQuestion
<1>1. ASSUME ScriptInv, [SystemNext]_allVars, NEW c \in Scripts,
             cpc[c] = "waiting", cpc'[c] = "ready"
      PROVE  IsResult(out[c][got'[c]]) /\ out[c][got'[c]].obs = Len(sent[c])
  <2>1. /\ Framed(c) /\ Heeded(c) /\ c \in Conns
        /\ cpc \in [Scripts -> Places] /\ got \in [Scripts -> Nat]
        /\ sent[c] \in Seq(FrameKinds) /\ out[c] \in Seq(ServerFrames)
    BY <1>1, ScriptsAssumption DEF ScriptInv, Counted, TypeOK
  <2>2. ~Dial(c) /\ ~Ask(c)
    BY <1>1 DEF Dial, Ask
  <2>3. InferEnds(c) /\ got'[c] = got[c] + 1
    BY <1>1, <2>1, <2>2, ScriptMoves
  <2>4. got[c] < Len(out[c]) /\ out[c][got[c] + 1] # Traceback
    BY <1>1, <2>1, <2>3 DEF InferEnds, Hear, Heard, Goto
  <2>5. got[c] = Len(sent[c]) /\ got[c] > 0
    BY <1>1, <2>1 DEF Heeded
  <2>6. FrameFits(c, got[c] + 1)
    BY <2>1, <2>4 DEF Framed
  <2> QED
    BY <2>1, <2>3, <2>4, <2>5, <2>6 DEF FrameFits
<1>2. ScriptInv /\ [SystemNext]_allVars =>
        [\A c \in Scripts :
            cpc[c] = "waiting" /\ cpc'[c] = "ready" =>
                LET answer == out[c][got'[c]]
                IN  IsResult(answer) /\ answer.obs = Len(sent[c])]_allVars
  BY <1>1
<1> QED
  BY <1>2, InitScripts, StepScripts, PTL DEF SystemSpec, AnswerToOwnQuestion

-----------------------------------------------------------------------------
(* Nobody waits for nobody.                                                *)

\* A script that waits always waits for somebody who has something to do.
THEOREM SomebodyMoves == SystemSpec => []NeverBothWaiting
<1>1. ScriptInv => NeverBothWaiting
  <2> SUFFICES ASSUME ScriptInv, NEW c \in Scripts, cpc[c] = "waiting", ~Owes(c), ~Gone(c)
               PROVE  got[c] < Len(out[c])
    BY DEF NeverBothWaiting
  <2>1. /\ c \in Conns /\ Framed(c) /\ Heeded(c)
        /\ pc[c] \in PCs /\ ws[c] \in {"none", "open", "lost", "closed"}
        /\ rd[c] \in Nat /\ Len(sent[c]) \in Nat /\ Len(out[c]) \in Nat
    BY ScriptsAssumption DEF ScriptInv, Counted, TypeOK
  <2>2. got[c] = Len(sent[c]) /\ Len(sent[c]) > 0
    BY <2>1 DEF Heeded
  <2>3. rd[c] = Len(sent[c]) /\ pc[c] \notin {"infer", "sendResult"}
    BY <2>1 DEF Framed, Owes
  <2>4. pc[c] \in {"sendMeta", "recv", "sendError", "closing"}
    <3>1. pc[c] \notin {"new", "opening", "accepted"}
      BY <2>1, <2>2, <2>3 DEF Framed
    <3>2. pc[c] # "done"
      BY DEF Gone
    <3> QED
      BY <2>1, <2>3, <3>1, <3>2 DEF PCs, InHandler
  <2>5. ws[c] = "open"
    BY <2>1, <2>4 DEF Framed, Gone
  <2> QED
    BY <2>1, <2>2, <2>3, <2>4, <2>5 DEF Framed
<1> QED
  BY <1>1, InitScripts, StepScripts, PTL DEF SystemSpec

-----------------------------------------------------------------------------
(* Types.                                                                  *)

\* What was sent stays sent.
LEMMA LogStays ==
    ASSUME TypeOK, NEW c \in Conns, [SystemNext]_allVars
    PROVE  /\ Len(out[c]) \in Nat /\ Len(out'[c]) \in Nat /\ Len(out[c]) <= Len(out'[c])
           /\ \A k \in 1..Len(out[c]) : out'[c][k] = out[c][k]
<1>1. out \in [Conns -> Seq(ServerFrames)]
  BY DEF TypeOK
<1>2. CASE out' = out
  BY <1>1, <1>2
<1>3. ASSUME NEW d \in Conns, NEW frame, Emit(d, frame)
      PROVE  /\ Len(out[c]) \in Nat /\ Len(out'[c]) \in Nat /\ Len(out[c]) <= Len(out'[c])
             /\ \A k \in 1..Len(out[c]) : out'[c][k] = out[c][k]
  <2>1. out'[c] = out[c] \/ out'[c] = Append(out[c], frame)
    BY <1>1, <1>3 DEF Emit
  <2>2. out[c] \in Seq(ServerFrames)
    BY <1>1
  <2>3. /\ Len(Append(out[c], frame)) = Len(out[c]) + 1
        /\ \A k \in 1..Len(out[c]) : Append(out[c], frame)[k] = out[c][k]
    BY <2>2
  <2> QED
    BY <2>1, <2>2, <2>3
<1>4. ASSUME NEW d \in Conns, HandlerStep(d)
      PROVE  out' = out \/ \E frame : Emit(d, frame)
  BY <1>4
  DEF HandlerStep, Accept, Reject, HandlerStart, MetadataFails, SendReturns, SendRaises,
      RecvText, RecvJunk, RecvObs, RecvClosed, InferReturns, InferFails, CloseDone,
      ErrorReply
<1>5. \/ out' = out
      \/ \E d \in Conns : HandlerStep(d)
  BY ScriptsAssumption
  DEF SystemNext, allVars, vars, ServerStep, World, AllOver, UnitStep, LoadFails, Crash,
      RestartDue, Serves, Stopped, Stop, Kill, Interrupt, TransportStep, Notice,
      ServerCloses, Lose, HandshakeAborts, Connect, ClientSend, ScriptStep, TimesOut,
      Dial, Refused, Retry, Upgraded, TurnedAway, Greeted, Hear, RecvFails, Ask,
      AskFails, InferEnds, ScriptEnds, Exit, Move
<1> QED
  BY <1>2, <1>3, <1>4, <1>5

\* systemd's idea of the process and the process agree.
UnitInv ==
    /\ unit \in {"loading", "active", "restarting", "inactive", "failed"}
    /\ failures \in 0..MaxFailures
    /\ unit = "active" <=> Alive

\* No step makes them disagree.
LEMMA StepUnit == UnitInv /\ [SystemNext]_allVars => UnitInv'
<1> SUFFICES ASSUME UnitInv, [SystemNext]_allVars PROVE UnitInv'
  OBVIOUS
<1>1. CASE LoadFails \/ Crash \/ RestartDue \/ Serves
  BY <1>1, ScriptsAssumption
  DEF UnitInv, LoadFails, Crash, RestartDue, Serves, Fails, UnitGoes, Alive, vars
<1>2. CASE Stopped
  BY <1>2 DEF UnitInv, Stopped, Stop, Kill, UnitGoes, Alive, vars
<1>3. ASSUME UNCHANGED unitVars, srv' = srv \/ (srv = "serving" /\ srv' = "closing")
      PROVE  UnitInv'
  BY <1>3 DEF UnitInv, unitVars, Alive
<1>4. CASE ServerStep
  <2>1. UNCHANGED unitVars
    BY <1>4 DEF ServerStep
  <2>2. ASSUME NEW d \in Conns, HandlerStep(d) PROVE srv' = srv
    BY <2>2
    DEF HandlerStep, Accept, Reject, HandlerStart, MetadataFails, SendReturns, SendRaises,
        RecvText, RecvJunk, RecvObs, RecvClosed, InferReturns, InferFails, CloseDone
  <2>3. srv' = srv \/ (srv = "serving" /\ srv' = "closing")
    BY <1>4, <2>2 DEF ServerStep, Interrupt, TransportStep, Notice, ServerCloses
  <2> QED
    BY <1>3, <2>1, <2>3
<1>5. CASE World \/ AllOver \/ UNCHANGED allVars
  BY <1>3, <1>5
  DEF World, AllOver, allVars, vars, unitVars, Lose, HandshakeAborts, Connect, ClientSend
<1>6. ASSUME NEW c \in Scripts, ScriptStep(c) \/ TimesOut(c) PROVE UnitInv'
  <2>1. UNCHANGED <<unitVars, srv>>
    BY <1>6
    DEF ScriptStep, TimesOut, Dial, Refused, Retry, Upgraded, TurnedAway, Greeted, Hear,
        RecvFails, Ask, AskFails, InferEnds, ScriptEnds, Exit, Move, unitVars, vars,
        Lose, HandshakeAborts, Connect, ClientSend
  <2> QED
    BY <1>3, <2>1
<1> QED
  BY <1>1, <1>2, <1>4, <1>5, <1>6 DEF SystemNext, UnitStep

\* What a script has yet to send and has read are numbers, and it has read no
\* more than was sent to it.
ReadInv ==
    /\ todo \in [Scripts -> 0..MaxFrames]
    /\ got \in [Scripts -> Nat]
    /\ \A c \in Scripts : got[c] <= Len(out[c])

\* Nothing is read before it is sent.
LEMMA StepRead == TypeOK /\ ReadInv /\ [SystemNext]_allVars => ReadInv'
<1> SUFFICES ASSUME TypeOK, ReadInv, [SystemNext]_allVars PROVE ReadInv'
  OBVIOUS
<1>1. /\ todo \in [Scripts -> 0..MaxFrames] /\ got \in [Scripts -> Nat]
      /\ \A c \in Scripts : got[c] <= Len(out[c])
      /\ MaxFrames \in Nat
  BY ServerAssumption DEF ReadInv
<1>2. \A c \in Scripts : /\ Len(out[c]) \in Nat /\ Len(out'[c]) \in Nat
                          /\ Len(out[c]) <= Len(out'[c])
  BY LogStays, ScriptsAssumption
<1>3. CASE UNCHANGED <<todo, got>>
  BY <1>1, <1>2, <1>3 DEF ReadInv
<1>4. ASSUME NEW c \in Scripts, Hear(c) PROVE ReadInv'
  <2>1. got[c] < Len(out[c]) /\ got' = [got EXCEPT ![c] = @ + 1] /\ todo' = todo
    BY <1>4 DEF Hear
  <2> QED
    BY <1>1, <1>2, <2>1 DEF ReadInv
<1>5. ASSUME NEW c \in Scripts, Ask(c) PROVE ReadInv'
  <2>1. todo[c] > 0 /\ todo' = [todo EXCEPT ![c] = @ - 1] /\ got' = got
    BY <1>5 DEF Ask
  <2>2. todo' \in [Scripts -> 0..MaxFrames]
    BY <1>1, <2>1
  <2> QED
    BY <1>1, <1>2, <2>1, <2>2 DEF ReadInv
<1>6. UNCHANGED <<todo, got>> \/ \E c \in Scripts : Hear(c) \/ Ask(c)
  BY DEF SystemNext, ServerStep, World, AllOver, allVars, UnitStep, LoadFails, Fails,
         Crash, RestartDue, Serves, Stopped, UnitGoes, scriptVars, ScriptStep,
         TimesOut, Dial, Refused, Retry, Upgraded, TurnedAway, Greeted,
         RecvFails, AskFails, InferEnds, ScriptEnds, Exit, Move
<1> QED
  BY <1>3, <1>4, <1>5, <1>6

\* The variables of the scripts and of systemd have their types; a script has
\* read what was sent to it, and the unit is active as long as the process is.
THEOREM ScriptTypes == SystemSpec => []ScriptTypeOK
<1>1. SystemInit => UnitInv /\ ReadInv
  <2>1. ASSUME SystemInit PROVE UnitInv
    BY <2>1, ScriptsAssumption DEF SystemInit, UnitInv, Alive
  <2>2. ASSUME SystemInit PROVE ReadInv
    BY <2>2, ScriptsAssumption DEF SystemInit, ReadInv, Unused
  <2> QED
    BY <2>1, <2>2
<1>2. ScriptInv => TypeOK
  BY DEF ScriptInv, Counted
<1>3. ScriptInv /\ UnitInv /\ ReadInv => ScriptTypeOK
  BY DEF ScriptInv, UnitInv, ReadInv, ScriptTypeOK, Places
<1> QED
  BY <1>1, <1>2, <1>3, InitScripts, StepScripts, StepUnit, StepRead, PTL DEF SystemSpec

-----------------------------------------------------------------------------
(* A script calls infer as if the policy were a function of its own.       *)

\* As long as a script goes on, no frame it has read was a traceback.
Content(c) ==
    cpc[c] \in {"ready", "waiting"} =>
        \A k \in 1..got[c] : out[c][k] # Traceback

CallInv == ScriptInv /\ UnitInv /\ ReadInv /\ \A c \in Scripts : Content(c)

\* The parts that the lemmas below use.
LEMMA CallFacts ==
    ASSUME CallInv, NEW c \in Scripts
    PROVE  /\ c \in Conns /\ TypeOK /\ Framed(c) /\ Heeded(c) /\ Content(c)
           /\ cpc \in [Scripts -> Places] /\ cpc[c] \in Places
           /\ got \in [Scripts -> Nat] /\ got[c] \in Nat
           /\ todo \in [Scripts -> 0..MaxFrames] /\ todo[c] \in Nat
           /\ Len(out[c]) \in Nat /\ got[c] <= Len(out[c])
           /\ sent \in [Conns -> Seq(FrameKinds)] /\ Len(sent[c]) \in Nat
<1>1. /\ c \in Conns /\ TypeOK /\ Framed(c) /\ Heeded(c) /\ Content(c)
      /\ cpc \in [Scripts -> Places] /\ got \in [Scripts -> Nat]
      /\ todo \in [Scripts -> 0..MaxFrames] /\ got[c] <= Len(out[c])
  BY ScriptsAssumption DEF CallInv, ScriptInv, Counted, ReadInv
<1>2. out[c] \in Seq(ServerFrames) /\ sent \in [Conns -> Seq(FrameKinds)]
  BY <1>1 DEF TypeOK
<1> QED
  BY <1>1, <1>2, ServerAssumption

\* The metadata and a traceback are no results.
LEMMA NoResults == ~IsResult(Metadata) /\ ~IsResult(Traceback)
BY DEF IsResult, Metadata, Traceback

\* A script stays content: with a traceback it fails.
LEMMA StepContent ==
    ASSUME CallInv, ScriptInv', ReadInv', [SystemNext]_allVars, NEW c \in Scripts
    PROVE  Content(c)'
<1>1. /\ c \in Conns /\ TypeOK /\ Heeded(c) /\ Content(c)
      /\ cpc \in [Scripts -> Places] /\ got \in [Scripts -> Nat]
      /\ got[c] \in Nat /\ Len(out[c]) \in Nat /\ got[c] <= Len(out[c])
  BY CallFacts
<1>2. \A k \in 1..Len(out[c]) : out'[c][k] = out[c][k]
  BY <1>1, LogStays
<1>3. CASE Dial(c)
  <2>1. cpc'[c] = "handshake"
    BY <1>1, <1>3 DEF Dial, Goto
  <2> QED
    BY <2>1 DEF Content
<1>4. CASE Ask(c)
  <2>1. cpc[c] = "ready" /\ UNCHANGED <<got, out>>
    BY <1>4 DEF Ask, ClientSend
  <2> QED
    BY <1>1, <2>1 DEF Content
<1>5. CASE ~Dial(c) /\ ~Ask(c)
  <2>1. CASE got'[c] = got[c] /\ (cpc'[c] = cpc[c] \/ cpc'[c] \in {"ok", "failed"})
    BY <1>1, <1>2, <2>1 DEF Content
  <2>2. CASE cpc'[c] \in {"connect", "sleep", "greeting"}
    BY <2>2 DEF Content
  <2>3. CASE got'[c] = got[c] + 1 /\ cpc[c] = "greeting"
    <3>1. got'[c] = 1 /\ 1 <= Len(out'[c])
      BY <1>1, <2>3 DEF Heeded, ReadInv
    <3>2. Len(out'[c]) \in Nat
      BY <1>1, LogStays
    <3>3. FrameFits(c, 1)'
      BY <3>1, <3>2 DEF ScriptInv, Framed
    <3>4. out'[c][1] = Metadata
      BY <3>3 DEF FrameFits
    <3> QED
      BY <3>1, <3>4 DEF Content, Metadata, Traceback
  <2>4. CASE InferEnds(c) /\ got'[c] = got[c] + 1 /\ cpc[c] = "waiting"
    <3>1. got[c] < Len(out[c]) /\ (cpc'[c] # "failed" => out[c][got[c] + 1] # Traceback)
      BY <1>1, <2>4 DEF InferEnds, Hear, Heard, Goto
    <3>2. cpc'[c] # "waiting"
      BY <1>1, <2>4 DEF InferEnds, Goto
    <3> SUFFICES ASSUME cpc'[c] = "ready", NEW k \in 1..(got[c] + 1)
                 PROVE  out'[c][k] # Traceback
      BY <2>4, <3>2 DEF Content
    <3>3. k \in 1..Len(out[c]) /\ (k \in 1..got[c] \/ k = got[c] + 1)
      BY <1>1, <3>1
    <3> QED
      BY <1>1, <1>2, <2>4, <3>1, <3>3 DEF Content
  <2> QED
    BY <1>1, <1>5, <2>1, <2>2, <2>3, <2>4, ScriptMoves
<1> QED
  BY <1>3, <1>4, <1>5

\* All of it is inductive.
LEMMA StepCalls == CallInv /\ [SystemNext]_allVars => CallInv'
<1> SUFFICES ASSUME CallInv, [SystemNext]_allVars PROVE CallInv'
  OBVIOUS
<1>1. TypeOK
  BY DEF CallInv, ScriptInv, Counted
<1>2. ScriptInv' /\ UnitInv' /\ ReadInv'
  BY <1>1, StepScripts, StepUnit, StepRead DEF CallInv
<1> QED
  BY <1>2, StepContent DEF CallInv

\* It holds when the scripts start.
LEMMA InitCalls == SystemInit => CallInv
<1> SUFFICES ASSUME SystemInit PROVE CallInv
  OBVIOUS
<1>1. UnitInv
  BY ScriptsAssumption DEF SystemInit, UnitInv, Alive
<1>2. ReadInv
  BY ScriptsAssumption DEF SystemInit, ReadInv, Unused
<1>3. \A c \in Scripts : Content(c)
  BY DEF SystemInit, Content
<1> QED
  BY <1>1, <1>2, <1>3, InitScripts DEF CallInv

\* What the program has got back: nothing until it is connected, then the
\* answer to every observation but the one infer is working on.
AnswersUpTo(c) ==
    /\ StageOf(c) = "connecting" => AnswersTo(c) = {} /\ Len(sent[c]) = 0
    /\ cpc[c] = "ready" => AnswersTo(c) = 1..Len(sent[c])
    /\ cpc[c] = "waiting" =>
           Len(sent[c]) > 0 /\ AnswersTo(c) = 1..(Len(sent[c]) - 1)

SoFar == \A c \in Scripts : AnswersUpTo(c)

\* It follows from the frames that fit.
LEMMA AnswersSoFar == CallInv => SoFar
<1> SUFFICES ASSUME CallInv, NEW c \in Scripts PROVE AnswersUpTo(c)
  BY DEF SoFar
<1>1. /\ Framed(c) /\ Heeded(c) /\ Content(c) /\ cpc[c] \in Places
      /\ got[c] \in Nat /\ Len(out[c]) \in Nat /\ got[c] <= Len(out[c])
      /\ Len(sent[c]) \in Nat
  BY CallFacts
<1>2. ASSUME StageOf(c) = "connecting" PROVE AnswersTo(c) = {} /\ Len(sent[c]) = 0
  <2>1. got[c] = 0 /\ Len(sent[c]) = 0
    BY <1>1, <1>2 DEF StageOf, Heeded, Places
  <2> QED
    BY <2>1 DEF AnswersTo
<1>3. ASSUME cpc[c] \in {"ready", "waiting"}
      PROVE  AnswersTo(c) = 1..(got[c] - 1)
  <2>1. ASSUME NEW k \in 1..got[c]
        PROVE  IF k = 1 THEN ~IsResult(out[c][k])
               ELSE IsResult(out[c][k]) /\ out[c][k].obs = k - 1
    <3>1. FrameFits(c, k) /\ out[c][k] # Traceback
      BY <1>1, <1>3 DEF Framed, Content
    <3> QED
      BY <3>1, NoResults DEF FrameFits
  <2>2. ASSUME NEW n \in 1..(got[c] - 1) PROVE n \in AnswersTo(c)
    <3>1. n + 1 \in 1..got[c] /\ n + 1 # 1 /\ (n + 1) - 1 = n
      BY <1>1
    <3>2. IsResult(out[c][n + 1]) /\ out[c][n + 1].obs = n
      BY <2>1, <3>1
    <3> QED
      BY <3>1, <3>2 DEF AnswersTo
  <2>3. ASSUME NEW n \in AnswersTo(c) PROVE n \in 1..(got[c] - 1)
    <3>1. PICK k \in 1..got[c] : IsResult(out[c][k]) /\ n = out[c][k].obs
      BY DEF AnswersTo
    <3>2. k # 1 /\ n = k - 1
      BY <2>1, <3>1
    <3> QED
      BY <1>1, <3>2
  <2> QED
    BY <2>2, <2>3
<1> QED
  BY <1>1, <1>2, <1>3 DEF Heeded, AnswersUpTo

\* What has been read stays read.
LEMMA AnswersStay ==
    ASSUME CallInv, NEW c \in Scripts, [SystemNext]_allVars, got'[c] = got[c]
    PROVE  AnswersTo(c)' = AnswersTo(c)
<1>1. /\ c \in Conns /\ TypeOK
      /\ got[c] \in Nat /\ Len(out[c]) \in Nat /\ got[c] <= Len(out[c])
  BY CallFacts
<1>2. \A k \in 1..got[c] : out'[c][k] = out[c][k]
  BY <1>1, LogStays
<1> QED
  BY <1>2 DEF AnswersTo

\* Only its own steps move a script.
LEMMA OnlyOneMoves ==
    ASSUME CallInv, [SystemNext]_allVars
    PROVE  \E c \in Scripts \cup {Idle} :
              /\ c \in Scripts => ScriptStep(c) \/ TimesOut(c)
              /\ \A d \in Scripts \ {c} :
                     /\ cpc'[d] = cpc[d] /\ todo'[d] = todo[d]
                     /\ got'[d] = got[d] /\ sent'[d] = sent[d]
<1>1. ASSUME NEW c \in Scripts, ScriptStep(c) \/ TimesOut(c), NEW d \in Scripts \ {c}
      PROVE  /\ cpc'[d] = cpc[d] /\ todo'[d] = todo[d]
             /\ got'[d] = got[d] /\ sent'[d] = sent[d]
  <2>1. \/ UNCHANGED sent
        \/ ClientSend(c, "obs")
    BY <1>1 DEF ScriptStep, TimesOut, Dial, Connect, Refused, Retry, Upgraded, TurnedAway,
                Greeted, Hear, RecvFails, Ask, AskFails, InferEnds, ScriptEnds,
                Exit, Lose, HandshakeAborts, Move, vars
  <2>2. sent'[d] = sent[d]
    BY <2>1, CallFacts DEF ClientSend
  <2>3. cpc'[d] = cpc[d] /\ todo'[d] = todo[d] /\ got'[d] = got[d]
    BY <1>1, CallFacts
    DEF ScriptStep, TimesOut, Dial, Refused, Retry, Upgraded, TurnedAway, Greeted, Hear,
        RecvFails, Ask, AskFails, InferEnds, ScriptEnds, Exit, Move, Goto, scriptVars
  <2> QED
    BY <2>2, <2>3
<1>2. ASSUME ServerStep \/ World \/ UnitStep \/ AllOver \/ UNCHANGED allVars,
             NEW d \in Scripts
      PROVE  /\ cpc'[d] = cpc[d] /\ todo'[d] = todo[d]
             /\ got'[d] = got[d] /\ sent'[d] = sent[d]
  <2>1. UNCHANGED scriptVars
    BY <1>2 DEF ServerStep, World, AllOver, allVars, UnitStep, LoadFails, Fails, Crash,
                RestartDue, Serves, Stopped, UnitGoes, scriptVars
  <2>2. ASSUME NEW e \in Conns, HandlerStep(e) PROVE UNCHANGED sent
    BY <2>2
    DEF HandlerStep, Accept, Reject, HandlerStart, MetadataFails, SendReturns, SendRaises,
        RecvText, RecvJunk, RecvObs, RecvClosed, InferReturns, InferFails, CloseDone
  <2>3. UNCHANGED sent \/ \E e \in Conns \ Scripts, kind \in ClientFrames : ClientSend(e, kind)
    BY <1>2, <2>2
    DEF ServerStep, World, AllOver, allVars, UnitStep, LoadFails, Crash, RestartDue, Serves,
        Stopped, Stop, Kill, Interrupt, TransportStep, Notice, ServerCloses, Connect, Lose,
        HandshakeAborts, vars
  <2>4. sent'[d] = sent[d]
    BY <2>3, CallFacts DEF ClientSend
  <2> QED
    BY <2>1, <2>4 DEF scriptVars
<1>3. Idle \notin Scripts
  BY ServerAssumption, ScriptsAssumption
<1> QED
  BY <1>1, <1>2, <1>3 DEF SystemNext

\* What the program sees of a step of its script: nothing, or that the
\* constructor or infer returns or raises, that infer is called, or the end.
LEMMA StepSeen ==
    ASSUME CallInv, [SystemNext]_allVars, NEW c \in Scripts,
           ScriptStep(c) \/ TimesOut(c),
           NEW stage, stage = StageOf(c), NEW n, n = Len(sent[c]),
           NEW left, left = todo[c], NEW answers, answers = AnswersTo(c)
    PROVE  \/ /\ StageOf(c)' = stage /\ Len(sent'[c]) = n /\ todo'[c] = left
              /\ AnswersTo(c)' = answers
           \/ /\ stage = "connecting" /\ StageOf(c)' = "idle"
              /\ Len(sent'[c]) = n /\ todo'[c] = left /\ AnswersTo(c)' = answers
           \/ /\ stage = "idle" /\ StageOf(c)' = "calling" /\ left > 0
              /\ Len(sent'[c]) = n + 1 /\ todo'[c] = left - 1
              /\ AnswersTo(c)' = answers
           \/ /\ stage = "calling" /\ StageOf(c)' = "idle" /\ n \notin answers
              /\ Len(sent'[c]) = n /\ todo'[c] = left
              /\ AnswersTo(c)' = answers \cup {n}
           \/ /\ stage \in {"connecting", "idle", "calling"} /\ StageOf(c)' = "raised"
              /\ Len(sent'[c]) = n /\ todo'[c] = left /\ AnswersTo(c)' = answers
           \/ /\ stage = "idle" /\ StageOf(c)' = "finished"
              /\ answers = 1..(n + left)
              /\ Len(sent'[c]) = n /\ todo'[c] = left /\ AnswersTo(c)' = answers
<1>1. /\ c \in Conns /\ Framed(c) /\ Heeded(c) /\ Content(c)
      /\ cpc \in [Scripts -> Places] /\ cpc[c] \in Places /\ TypeOK
      /\ got \in [Scripts -> Nat] /\ got[c] \in Nat
      /\ todo \in [Scripts -> 0..MaxFrames] /\ todo[c] \in Nat
      /\ Len(out[c]) \in Nat /\ got[c] <= Len(out[c])
      /\ sent \in [Conns -> Seq(FrameKinds)] /\ n \in Nat
  BY CallFacts
<1>2. AnswersUpTo(c) /\ AnswersUpTo(c)'
  <2>1. SoFar'
    BY StepCalls, AnswersSoFar, PTL
  <2> QED
    BY <2>1, AnswersSoFar DEF SoFar
<1>3. ASSUME UNCHANGED <<sent, todo, got>>, NEW from \in Places, NEW to \in Places,
             cpc[c] = from, cpc'[c] = to
      PROVE  /\ Len(sent'[c]) = n /\ todo'[c] = left /\ AnswersTo(c)' = answers
             /\ from \in {"connect", "sleep", "handshake", "greeting"}
                   => stage = "connecting"
             /\ from = "ready" => stage = "idle"
             /\ from = "waiting" => stage = "calling"
             /\ to \in {"connect", "sleep", "handshake", "greeting"}
                   => StageOf(c)' = "connecting"
             /\ to = "failed" => StageOf(c)' = "raised"
             /\ to = "ok" => StageOf(c)' = "finished"
  BY <1>3, AnswersStay DEF StageOf
<1>4. CASE Dial(c)
  <2>1. UNCHANGED <<sent, todo, got>> /\ cpc[c] = "connect" /\ cpc'[c] = "handshake"
    BY <1>1, <1>4 DEF Dial, Connect, Goto
  <2> QED
    BY <1>3, <2>1 DEF Places
<1>5. ASSUME NEW from \in Places, NEW to \in Places, Move(c, from, to)
      PROVE  UNCHANGED <<sent, todo, got>> /\ cpc[c] = from /\ cpc'[c] = to
  BY <1>1, <1>5 DEF Move, Goto, vars
<1>6. CASE Refused(c) \/ Retry(c) \/ Upgraded(c)
  <2>1. PICK from \in {"connect", "sleep", "handshake"},
             to \in {"connect", "sleep", "greeting"} : Move(c, from, to)
    BY <1>6 DEF Refused, Retry, Upgraded
  <2> QED
    BY <1>3, <1>5, <2>1 DEF Places
<1>7. CASE TurnedAway(c) \/ RecvFails(c) \/ AskFails(c) \/ TimesOut(c)
  <2>1. PICK from \in {"handshake", "greeting", "waiting", "ready"} :
             Move(c, from, "failed")
    BY <1>7 DEF TurnedAway, RecvFails, AskFails, TimesOut
  <2> QED
    BY <1>3, <1>5, <2>1 DEF Places
<1>8. CASE ScriptEnds(c)
  <2>1. Move(c, "ready", "ok") /\ left = 0
    BY <1>8 DEF ScriptEnds
  <2>2. cpc[c] = "ready"
    BY <2>1 DEF Move
  <2>3. answers = 1..(n + left)
    BY <1>1, <1>2, <2>1, <2>2 DEF AnswersUpTo
  <2> QED
    BY <1>3, <1>5, <2>1, <2>3 DEF Places
<1>9. CASE Exit(c)
  <2>1. UNCHANGED <<sent, todo, got, cpc>>
    BY <1>9 DEF Exit, Lose, HandshakeAborts, scriptVars
  <2> QED
    BY <1>1, <2>1, AnswersStay DEF StageOf
<1>10. CASE Greeted(c)
  <2>1. cpc[c] = "greeting" /\ cpc'[c] = "ready" /\ UNCHANGED <<sent, todo>>
    BY <1>1, <1>10 DEF Greeted, Hear, Goto, vars
  <2>2. n = 0 /\ answers = {} /\ stage = "connecting" /\ StageOf(c)' = "idle"
    BY <1>2, <2>1 DEF AnswersUpTo, StageOf
  <2>3. AnswersTo(c)' = 1..Len(sent'[c])
    BY <1>2, <2>1 DEF AnswersUpTo
  <2>4. 1..0 = {}
    OBVIOUS
  <2> QED
    BY <2>1, <2>2, <2>3, <2>4
<1>11. CASE Ask(c)
  <2>1. /\ cpc[c] = "ready" /\ cpc'[c] = "waiting" /\ got'[c] = got[c]
        /\ left > 0 /\ todo'[c] = left - 1 /\ Len(sent'[c]) = n + 1
    BY <1>1, <1>11 DEF Ask, ClientSend, Goto
  <2>2. stage = "idle" /\ StageOf(c)' = "calling"
    BY <2>1 DEF StageOf
  <2> QED
    BY <2>1, <2>2, AnswersStay
<1>12. CASE InferEnds(c)
  <2>1. cpc[c] = "waiting" /\ UNCHANGED <<sent, todo>> /\ got'[c] = got[c] + 1
    BY <1>1, <1>12 DEF InferEnds, Hear, vars
  <2>2. stage = "calling" /\ n > 0 /\ answers = 1..(n - 1)
    BY <1>2, <2>1 DEF AnswersUpTo, StageOf
  <2>3. CASE cpc'[c] = "ready"
    <3>1. AnswersTo(c)' = 1..Len(sent'[c])
      BY <1>2, <2>3 DEF AnswersUpTo
    <3>2. 1..n = (1..(n - 1)) \cup {n} /\ n \notin 1..(n - 1)
      BY <1>1, <2>2
    <3> QED
      BY <2>1, <2>2, <2>3, <3>1, <3>2 DEF StageOf
  <2>4. CASE cpc'[c] = "failed" /\ out[c][got[c] + 1] = Traceback
    <3>1. out' = out
      BY <1>12 DEF InferEnds, Hear, vars
    <3>2. AnswersTo(c)' = answers
      <4>1. \A k \in 1..(got[c] + 1) : k \in 1..got[c] \/ k = got[c] + 1
        BY <1>1
      <4>2. \A k \in 1..got[c] : k \in 1..(got[c] + 1)
        BY <1>1
      <4>3. {k \in 1..(got[c] + 1) : IsResult(out[c][k])} =
                {k \in 1..got[c] : IsResult(out[c][k])}
        BY <2>4, <4>1, <4>2, NoResults
      <4> QED
        BY <2>1, <3>1, <4>3 DEF AnswersTo
    <3> QED
      BY <2>1, <2>2, <2>4, <3>2 DEF StageOf
  <2> QED
    BY <1>1, <1>12, <2>3, <2>4 DEF InferEnds, Heard, Goto
<1> QED
  BY <1>4, <1>6, <1>7, <1>8, <1>9, <1>10, <1>11, <1>12 DEF ScriptStep

\* Every step of the system is a step of one caller or of none.
LEMMA StepRemote ==
    ASSUME CallInv, [SystemNext]_allVars
    PROVE  [Remote!CallNext]_(Remote!callVars)
<1> DEFINE stages  == [d \in Scripts |-> StageOf(d)]
           totals  == [d \in Scripts |-> Len(sent[d]) + todo[d]]
           numbers == [d \in Scripts |-> Len(sent[d])]
           answers == [d \in Scripts |-> AnswersTo(d)]
<1>1. PICK c \in Scripts \cup {Idle} :
              /\ c \in Scripts => ScriptStep(c) \/ TimesOut(c)
              /\ \A d \in Scripts \ {c} :
                     /\ cpc'[d] = cpc[d] /\ todo'[d] = todo[d]
                     /\ got'[d] = got[d] /\ sent'[d] = sent[d]
  BY OnlyOneMoves
<1>2. \A d \in Scripts \ {c} :
          /\ StageOf(d)' = StageOf(d) /\ AnswersTo(d)' = AnswersTo(d)
          /\ Len(sent'[d]) + todo'[d] = Len(sent[d]) + todo[d]
          /\ Len(sent'[d]) = Len(sent[d])
  BY <1>1, AnswersStay DEF StageOf
<1>3. CASE c \notin Scripts
  <2>1. stages' = stages /\ totals' = totals /\ numbers' = numbers /\ answers' = answers
    BY <1>2, <1>3
  <2> QED
    BY <2>1 DEF Remote!callVars
<1>4. CASE c \in Scripts
  <2>1. Len(sent[c]) \in Nat /\ todo[c] \in Nat
    BY <1>4, CallFacts
  <2>2. ASSUME NEW v, StageOf(c)' = v PROVE stages' = [stages EXCEPT ![c] = v]
    BY <1>2, <1>4, <2>2
  <2>3. ASSUME Len(sent'[c]) = Len(sent[c]), todo'[c] = todo[c]
        PROVE  totals' = totals /\ numbers' = numbers
    BY <1>2, <2>3
  <2>4. ASSUME AnswersTo(c)' = AnswersTo(c) PROVE answers' = answers
    BY <1>2, <2>4
  <2>5. stages[c] = StageOf(c) /\ numbers[c] = Len(sent[c]) /\ answers[c] = AnswersTo(c)
        /\ totals[c] = Len(sent[c]) + todo[c]
    BY <1>4
  <2>6. ASSUME Len(sent'[c]) = Len(sent[c]) + 1, todo'[c] = todo[c] - 1
        PROVE  totals' = totals /\ numbers' = [numbers EXCEPT ![c] = @ + 1]
    <3>1. Len(sent'[c]) + todo'[c] = Len(sent[c]) + todo[c]
      BY <2>1, <2>6
    <3> QED
      BY <1>2, <1>4, <2>6, <3>1
  <2>7. ASSUME AnswersTo(c)' = AnswersTo(c) \cup {Len(sent[c])}
        PROVE  answers' = [answers EXCEPT ![c] = @ \cup {numbers[c]}]
    BY <1>2, <1>4, <2>7
  <2>8. todo[c] > 0 => Len(sent[c]) < Len(sent[c]) + todo[c]
    BY <2>1
  <2>9. ScriptStep(c) \/ TimesOut(c)
    BY <1>1, <1>4
  <2> HIDE DEF stages, totals, numbers, answers
  <2>10. CASE /\ StageOf(c)' = StageOf(c) /\ AnswersTo(c)' = AnswersTo(c)
              /\ Len(sent'[c]) = Len(sent[c]) /\ todo'[c] = todo[c]
    <3>1. stages' = stages
      BY <1>2, <1>4, <2>10 DEF stages
    <3> QED
      BY <2>3, <2>4, <2>10, <3>1 DEF Remote!callVars, stages, totals, numbers, answers
  <2>11. CASE /\ StageOf(c) = "connecting" /\ StageOf(c)' = "idle"
              /\ Len(sent'[c]) = Len(sent[c]) /\ todo'[c] = todo[c]
              /\ AnswersTo(c)' = AnswersTo(c)
    <3>1. Remote!Connected(c)
      BY <2>2, <2>3, <2>4, <2>5, <2>11
      DEF Remote!Connected, stages, totals, numbers, answers
    <3> QED
      BY <1>4, <3>1 DEF Remote!CallNext
  <2>12. CASE /\ StageOf(c) = "idle" /\ StageOf(c)' = "calling" /\ todo[c] > 0
              /\ Len(sent'[c]) = Len(sent[c]) + 1 /\ todo'[c] = todo[c] - 1
              /\ AnswersTo(c)' = AnswersTo(c)
    <3>1. Remote!Call(c)
      BY <2>2, <2>4, <2>5, <2>6, <2>8, <2>12
      DEF Remote!Call, stages, totals, numbers, answers
    <3> QED
      BY <1>4, <3>1 DEF Remote!CallNext
  <2>13. CASE /\ StageOf(c) = "calling" /\ StageOf(c)' = "idle"
              /\ Len(sent[c]) \notin AnswersTo(c)
              /\ Len(sent'[c]) = Len(sent[c]) /\ todo'[c] = todo[c]
              /\ AnswersTo(c)' = AnswersTo(c) \cup {Len(sent[c])}
    <3>1. Remote!Return(c)
      BY <2>2, <2>3, <2>5, <2>7, <2>13
      DEF Remote!Return, stages, totals, numbers, answers
    <3> QED
      BY <1>4, <3>1 DEF Remote!CallNext
  <2>14. CASE /\ StageOf(c) \in {"connecting", "idle", "calling"}
              /\ StageOf(c)' = "raised"
              /\ Len(sent'[c]) = Len(sent[c]) /\ todo'[c] = todo[c]
              /\ AnswersTo(c)' = AnswersTo(c)
    <3>1. Remote!Raise(c)
      BY <2>2, <2>3, <2>4, <2>5, <2>14
      DEF Remote!Raise, stages, totals, numbers, answers
    <3> QED
      BY <1>4, <3>1 DEF Remote!CallNext
  <2>15. CASE /\ StageOf(c) = "idle" /\ StageOf(c)' = "finished"
              /\ AnswersTo(c) = 1..(Len(sent[c]) + todo[c])
              /\ Len(sent'[c]) = Len(sent[c]) /\ todo'[c] = todo[c]
              /\ AnswersTo(c)' = AnswersTo(c)
    <3>1. Remote!Finish(c)
      BY <2>2, <2>3, <2>4, <2>5, <2>15
      DEF Remote!Finish, stages, totals, numbers, answers
    <3> QED
      BY <1>4, <3>1 DEF Remote!CallNext
  <2> QED
    BY <1>4, <2>9, <2>10, <2>11, <2>12, <2>13, <2>14, <2>15, StepSeen
<1> QED
  BY <1>1, <1>3, <1>4

\* Whatever happens to the server, the unit and the connections, a script that
\* calls infer gets back the answer to that very observation or an exception,
\* and one that ends well has the answers to all its observations.
THEOREM ScriptsCallAFunction == SystemSpec => ImplementsRemotePolicy
<1>1. SystemInit => Remote!CallInit
  <2> SUFFICES ASSUME SystemInit PROVE Remote!CallInit
    OBVIOUS
  <2>1. CallInv
    BY InitCalls
  <2>2. \A c \in Scripts :
            /\ StageOf(c) = "connecting" /\ Len(sent[c]) = 0 /\ AnswersTo(c) = {}
            /\ Len(sent[c]) + todo[c] \in Nat
    <3> SUFFICES ASSUME NEW c \in Scripts
                 PROVE  /\ StageOf(c) = "connecting" /\ Len(sent[c]) = 0
                        /\ AnswersTo(c) = {} /\ Len(sent[c]) + todo[c] \in Nat
      OBVIOUS
    <3>1. StageOf(c) = "connecting"
      BY DEF SystemInit, StageOf
    <3> QED
      BY <2>1, <3>1, AnswersSoFar, CallFacts DEF SoFar, AnswersUpTo
  <2> QED
    BY <2>2 DEF Remote!CallInit
<1> QED
  BY <1>1, InitCalls, StepCalls, StepRemote, PTL
  DEF SystemSpec, ImplementsRemotePolicy, Remote!CallSpec

\* The part of NoGap about one program.
Served(stage, total, asked, answers) ==
    /\ asked \in Nat /\ total \in Nat
    /\ \/ answers = 1..asked
       \/ stage \in {"calling", "raised"} /\ answers = 1..(asked - 1)
    /\ stage = "calling" => asked > 0 /\ asked \notin answers
    /\ stage = "finished" => answers = 1..total

\* A step of a program, from s, t, a, w to the same primed, keeps its part.
LEMMA StepServed ==
    ASSUME NEW s, NEW t, NEW a, NEW w, NEW s1, NEW t1, NEW a1, NEW w1,
           Served(s, t, a, w), t1 = t,
           \/ s = "connecting" /\ s1 = "idle" /\ a1 = a /\ w1 = w
           \/ s = "idle" /\ s1 = "calling" /\ a1 = a + 1 /\ w1 = w
           \/ s = "calling" /\ s1 = "idle" /\ a1 = a /\ w1 = w \cup {a}
           \/ s \in {"connecting", "idle", "calling"} /\ s1 = "raised" /\ a1 = a /\ w1 = w
           \/ s = "idle" /\ s1 = "finished" /\ a1 = a /\ w1 = w /\ w = 1..t
           \/ s1 = s /\ a1 = a /\ w1 = w
    PROVE  Served(s1, t1, a1, w1)
<1>1. a \in Nat /\ t \in Nat
  BY DEF Served
<1>2. a + 1 \in Nat /\ a + 1 > 0 /\ (a + 1) - 1 = a /\ a + 1 \notin 1..a
  BY <1>1
<1>3. a > 0 => (1..(a - 1)) \cup {a} = 1..a
  BY <1>1
<1>4. CASE s = "idle" /\ s1 = "calling" /\ a1 = a + 1 /\ w1 = w
  <2>1. w = 1..a
    BY <1>4 DEF Served
  <2> QED
    BY <1>1, <1>2, <1>4, <2>1 DEF Served
<1>5. CASE s = "calling" /\ s1 = "idle" /\ a1 = a /\ w1 = w \cup {a}
  <2>1. a > 0 /\ a \notin w
    BY <1>5 DEF Served
  <2>2. w # 1..a
    BY <1>1, <2>1
  <2>3. w1 = 1..a
    BY <1>3, <1>5, <2>1, <2>2 DEF Served
  <2> QED
    BY <1>1, <1>5, <2>3 DEF Served
<1>6. CASE \/ s = "connecting" /\ s1 = "idle" /\ a1 = a /\ w1 = w
           \/ s \in {"connecting", "idle", "calling"} /\ s1 = "raised" /\ a1 = a /\ w1 = w
           \/ s = "idle" /\ s1 = "finished" /\ a1 = a /\ w1 = w /\ w = 1..t
           \/ s1 = s /\ a1 = a /\ w1 = w
  BY <1>6 DEF Served
<1> QED
  BY <1>4, <1>5, <1>6

\* The abstract specification gives a program what it needs, by itself.
LEMMA FunctionsHaveNoGap == Remote!CallSpec => []Remote!NoGap
<1> DEFINE served(c) ==
               Served(StageOf(c), Len(sent[c]) + todo[c], Len(sent[c]), AnswersTo(c))
<1>1. Remote!NoGap <=> \A c \in Scripts : served(c)
  BY DEF Remote!NoGap, Served
<1>2. Remote!NoGap' <=> \A c \in Scripts : served(c)'
  BY DEF Remote!NoGap, Served
<1>3. Remote!CallInit => \A c \in Scripts : served(c)
  <2> SUFFICES ASSUME Remote!CallInit, NEW c \in Scripts PROVE served(c)
    OBVIOUS
  <2>1. 1..0 = {}
    OBVIOUS
  <2>2. /\ StageOf(c) = "connecting" /\ Len(sent[c]) = 0
        /\ AnswersTo(c) = {} /\ Len(sent[c]) + todo[c] \in Nat
    <3>1. /\ [d \in Scripts |-> StageOf(d)][c] = "connecting"
          /\ [d \in Scripts |-> Len(sent[d])][c] = 0
          /\ [d \in Scripts |-> AnswersTo(d)][c] = {}
          /\ [d \in Scripts |-> Len(sent[d]) + todo[d]][c] \in Nat
      BY DEF Remote!CallInit
    <3> QED
      BY <3>1
  <2> QED
    BY <2>1, <2>2 DEF Served
<1>4. ASSUME NEW d \in Scripts, served(d), Remote!CallNext \/ UNCHANGED Remote!callVars
      PROVE  served(d)'
  <2> DEFINE stage   == [e \in Scripts |-> StageOf(e)]
             total   == [e \in Scripts |-> Len(sent[e]) + todo[e]]
             asked   == [e \in Scripts |-> Len(sent[e])]
             answers == [e \in Scripts |-> AnswersTo(e)]
             step(s1, a1, w1) ==
                 /\ total'[d] = total[d]
                 /\ stage'[d] = s1 /\ asked'[d] = a1 /\ answers'[d] = w1
             steps ==
                 \/ stage[d] = "connecting" /\ step("idle", asked[d], answers[d])
                 \/ stage[d] = "idle" /\ step("calling", asked[d] + 1, answers[d])
                 \/ stage[d] = "calling"
                    /\ step("idle", asked[d], answers[d] \cup {asked[d]})
                 \/ stage[d] \in {"connecting", "idle", "calling"}
                    /\ step("raised", asked[d], answers[d])
                 \/ stage[d] = "idle" /\ answers[d] = 1..total[d]
                    /\ step("finished", asked[d], answers[d])
                 \/ step(stage[d], asked[d], answers[d])
  <2>1. /\ stage[d] = StageOf(d) /\ total[d] = Len(sent[d]) + todo[d]
        /\ asked[d] = Len(sent[d]) /\ answers[d] = AnswersTo(d)
    OBVIOUS
  <2>2. /\ stage'[d] = StageOf(d)' /\ total'[d] = (Len(sent[d]) + todo[d])'
        /\ asked'[d] = Len(sent[d])' /\ answers'[d] = AnswersTo(d)'
    OBVIOUS
  <2>3. d \in DOMAIN stage /\ d \in DOMAIN asked /\ d \in DOMAIN answers
    OBVIOUS
  <2>4. ASSUME UNCHANGED Remote!callVars PROVE steps
    <3>1. UNCHANGED <<stage, total, asked, answers>>
      BY <2>4 DEF Remote!callVars
    <3> HIDE DEF stage, total, asked, answers
    <3> QED
      BY <3>1
  <2>5. ASSUME NEW c \in Scripts, Remote!Connected(c) PROVE steps
    <3>1. /\ stage[c] = "connecting" /\ stage' = [stage EXCEPT ![c] = "idle"]
          /\ UNCHANGED <<total, asked, answers>>
      BY <2>5 DEF Remote!Connected
    <3> HIDE DEF stage, total, asked, answers
    <3> QED
      BY <2>3, <3>1
  <2>6. ASSUME NEW c \in Scripts, Remote!Call(c) PROVE steps
    <3>1. /\ stage[c] = "idle" /\ stage' = [stage EXCEPT ![c] = "calling"]
          /\ asked' = [asked EXCEPT ![c] = @ + 1] /\ UNCHANGED <<total, answers>>
      BY <2>6 DEF Remote!Call
    <3> HIDE DEF stage, total, asked, answers
    <3> QED
      BY <2>3, <3>1
  <2>7. ASSUME NEW c \in Scripts, Remote!Return(c) PROVE steps
    <3>1. /\ stage[c] = "calling" /\ stage' = [stage EXCEPT ![c] = "idle"]
          /\ answers' = [answers EXCEPT ![c] = @ \cup {asked[c]}]
          /\ UNCHANGED <<total, asked>>
      BY <2>7 DEF Remote!Return
    <3> HIDE DEF stage, total, asked, answers
    <3> QED
      BY <2>3, <3>1
  <2>8. ASSUME NEW c \in Scripts, Remote!Raise(c) PROVE steps
    <3>1. /\ stage[c] \in {"connecting", "idle", "calling"}
          /\ stage' = [stage EXCEPT ![c] = "raised"]
          /\ UNCHANGED <<total, asked, answers>>
      BY <2>8 DEF Remote!Raise
    <3> HIDE DEF stage, total, asked, answers
    <3> QED
      BY <2>3, <3>1
  <2>9. ASSUME NEW c \in Scripts, Remote!Finish(c) PROVE steps
    <3>1. /\ stage[c] = "idle" /\ answers[c] = 1..total[c]
          /\ stage' = [stage EXCEPT ![c] = "finished"]
          /\ UNCHANGED <<total, asked, answers>>
      BY <2>9 DEF Remote!Finish
    <3> HIDE DEF stage, total, asked, answers
    <3> QED
      BY <2>3, <3>1
  <2> HIDE DEF stage, total, asked, answers
  <2>10. steps
    <3> HIDE DEF steps
    <3> QED
      BY <1>4, <2>4, <2>5, <2>6, <2>7, <2>8, <2>9 DEF Remote!CallNext
  <2>11. Served(stage[d], total[d], asked[d], answers[d])
    BY <1>4, <2>1
  <2>12. Served(stage'[d], total'[d], asked'[d], answers'[d])
    BY <2>10, <2>11, StepServed
  <2> QED
    BY <2>2, <2>12
<1>5. Remote!NoGap /\ [Remote!CallNext]_(Remote!callVars) => Remote!NoGap'
  BY <1>1, <1>2, <1>4
<1>6. Remote!CallInit => Remote!NoGap
  BY <1>1, <1>3
<1> QED
  BY <1>5, <1>6, PTL DEF Remote!CallSpec

\* So has every script: whatever happens, its answers are those to its first
\* observations, and one that ends well has them all.
THEOREM ScriptsHaveNoGap == SystemSpec => []Remote!NoGap
BY ScriptsCallAFunction, FunctionsHaveNoGap DEF ImplementsRemotePolicy

-----------------------------------------------------------------------------
(* A slot pool that may vanish and come back.                              *)

\* The pools count as the server does.
LEMMA SameCount == \A S : Restarts!Cardinality(S) = Cardinality(S)
BY DEF Restarts!Cardinality, Cardinality

\* A process that runs is a slot pool until it ends.
LEMMA StepRestartable ==
    ASSUME AtomicUpgrade, UnitInv, ServerInv, ServerInv', [SystemNext]_allVars
    PROVE  [Restarts!PoolNext \/ Restarts!Vanish \/ Restarts!Reopen]_(Restarts!poolVars)
<1> DEFINE holders == IF Alive THEN HeldBy ELSE {}
           opened  == srv = "serving"
<1> USE DEF Restarts!poolVars
<1>1. CASE Crash
  <2>1. holders' = {} /\ opened' = FALSE
    BY <1>1 DEF Crash, Alive
  <2>2. DeniedTo' = DeniedTo
    BY <1>1 DEF Crash, DeniedTo
  <2> QED
    BY <2>1, <2>2 DEF Restarts!Vanish
<1>2. CASE Serves /\ ~Alive
  <2>1. holders = {} /\ opened = FALSE /\ opened' = TRUE
    BY <1>2 DEF Serves, Alive
  <2>2. HeldBy' = {} /\ DeniedTo' = DeniedTo
    BY <1>2 DEF Serves, HeldBy, DeniedTo, InHandler
  <2> QED
    BY <2>1, <2>2 DEF Restarts!Reopen
<1>3. CASE [Next]_vars /\ ~Alive
  <2>1. UNCHANGED <<srv, pc, status>>
    BY <1>3, GoneIsGone DEF vars
  <2> QED
    BY <2>1 DEF HeldBy, DeniedTo, Alive
<1>4. CASE [Next]_vars /\ Alive /\ ~Alive'
  <2>1. holders' = {} /\ opened' = FALSE
    BY <1>4 DEF Alive
  <2>2. ASSUME NEW c \in Conns, HandlerStep(c) PROVE srv' = srv
    BY <2>2
    DEF HandlerStep, Accept, Reject, HandlerStart, MetadataFails, SendReturns, SendRaises,
        RecvText, RecvJunk, RecvObs, RecvClosed, InferReturns, InferFails, CloseDone
  <2>3. ASSUME NEW c \in Conns,
               \/ Connect(c) \/ HandshakeAborts(c) \/ Lose(c) \/ TransportStep(c)
               \/ \E kind \in ClientFrames : ClientSend(c, kind)
        PROVE  srv' = srv
    BY <2>3 DEF Connect, HandshakeAborts, Lose, TransportStep, Notice, ServerCloses,
                ClientSend
  <2>4. Stop \/ Kill
    BY <1>4, <2>2, <2>3
    DEF Next, Environment, Interrupt, Terminated, vars, Alive
  <2>5. DeniedTo' = DeniedTo
    BY <2>4 DEF Stop, Kill, DeniedTo
  <2> QED
    BY <2>1, <2>5 DEF Restarts!Vanish
<1>5. CASE [Next]_vars /\ Alive /\ Alive'
  <2>1. holders = HeldBy /\ holders' = HeldBy'
    BY <1>5
  <2>2. [Pool!PoolNext]_(Pool!poolVars)
    BY <1>5, StepPool DEF ServerInv
  <2>3. Pool!Full <=> Cardinality(HeldBy) >= MaxConnections
    BY SameCardinality DEF Pool!Full
  <2>4. Restarts!Full <=> Cardinality(holders) >= MaxConnections
    BY SameCount DEF Restarts!Full
  <2> QED
    BY <2>1, <2>2, <2>3, <2>4
    DEF Pool!PoolNext, Pool!poolVars, Pool!Acquire, Pool!Deny, Pool!Release, Pool!Shut,
        Restarts!PoolNext, Restarts!Acquire, Restarts!Deny, Restarts!Release, Restarts!Shut
<1>6. Serves => ~Alive
  BY DEF UnitInv, Serves
<1> QED
  BY <1>1, <1>2, <1>3, <1>4, <1>5, <1>6, ServerOrRestart

\* A server that is started again after every failure is a slot pool that is
\* started again: its clients lose their slots, and no slot is lost.
THEOREM SystemImplementsPool ==
    ASSUME AtomicUpgrade
    PROVE  SystemSpec => ImplementsRestartablePool
<1>1. SystemInit => Restarts!RestartInit
  <2> SUFFICES ASSUME SystemInit PROVE Restarts!RestartInit
    OBVIOUS
  <2>1. HeldBy = {} /\ DeniedTo = {}
    BY DEF SystemInit, Unused, HeldBy, DeniedTo, InHandler
  <2> QED
    BY <2>1 DEF Restarts!RestartInit
<1>2. UnitInv /\ ServerInv /\ ServerInv' /\ [SystemNext]_allVars =>
        [Restarts!PoolNext \/ Restarts!Vanish \/ Restarts!Reopen]_(Restarts!poolVars)
  BY StepRestartable
<1>3. SystemInit => UnitInv
  BY InitCalls DEF CallInv
<1> QED
  BY <1>1, <1>2, <1>3, InitServer, StepServer, StepUnit, PTL
  DEF SystemSpec, ImplementsRestartablePool, Restarts!RestartSpec

\* The abstract pool keeps its cap, by itself.
LEMMA PoolsFit == Restarts!RestartSpec => []Restarts!WithinCap
<1> DEFINE holders == IF Alive THEN HeldBy ELSE {}
<1>1. MaxConnections \in Nat
  BY ServerAssumption
<1>2. Restarts!WithinCap <=> IsFiniteSet(holders) /\ Cardinality(holders) <= MaxConnections
  BY SameCount DEF Restarts!WithinCap, Restarts!IsFiniteSet, IsFiniteSet
<1>3. Restarts!RestartInit => Restarts!WithinCap
  BY <1>1, <1>2, FS_EmptySet DEF Restarts!RestartInit
<1>4. ASSUME IsFiniteSet(holders), Cardinality(holders) <= MaxConnections,
             Restarts!PoolNext \/ Restarts!Vanish \/ Restarts!Reopen
      PROVE  IsFiniteSet(holders') /\ Cardinality(holders') <= MaxConnections
  <2>1. CASE Restarts!Vanish \/ Restarts!Reopen \/ Restarts!Shut
    <3>1. holders' = {} \/ holders' = holders
      BY <2>1 DEF Restarts!Vanish, Restarts!Reopen, Restarts!Shut
    <3> HIDE DEF holders
    <3> QED
      BY <1>1, <1>4, <3>1, FS_EmptySet
  <2>2. ASSUME NEW c \in Conns,
               Restarts!Acquire(c) \/ Restarts!Deny(c) \/ Restarts!Release(c)
        PROVE  IsFiniteSet(holders') /\ Cardinality(holders') <= MaxConnections
    <3>1. \/ /\ holders' = holders \cup {c} /\ c \notin holders
             /\ ~(Cardinality(holders) >= MaxConnections)
          \/ holders' = holders
          \/ holders' = holders \ {c} /\ c \in holders
      BY <2>2, SameCount
      DEF Restarts!Acquire, Restarts!Deny, Restarts!Release, Restarts!Full
    <3> HIDE DEF holders
    <3>2. Cardinality(holders) \in Nat
      BY <1>4, FS_CardinalityType
    <3> QED
      BY <1>1, <1>4, <3>1, <3>2, FS_AddElement, FS_RemoveElement
  <2> QED
    BY <1>4, <2>1, <2>2 DEF Restarts!PoolNext
<1>5. UNCHANGED Restarts!poolVars => holders' = holders
  BY DEF Restarts!poolVars
<1>6. Restarts!WithinCap'
      <=> IsFiniteSet(holders') /\ Cardinality(holders') <= MaxConnections
  BY SameCount DEF Restarts!WithinCap, Restarts!IsFiniteSet, IsFiniteSet
<1> HIDE DEF holders
<1>7. Restarts!WithinCap
      /\ [Restarts!PoolNext \/ Restarts!Vanish \/ Restarts!Reopen]_(Restarts!poolVars)
      => Restarts!WithinCap'
  BY <1>2, <1>4, <1>5, <1>6
<1> QED
  BY <1>3, <1>7, PTL DEF Restarts!RestartSpec

\* So does the server, failing and starting again, with the upgrades under way
\* counted in.
THEOREM SystemKeepsPool ==
    ASSUME AtomicUpgrade
    PROVE  SystemSpec => []Restarts!WithinCap
BY SystemImplementsPool, PoolsFit DEF ImplementsRestartablePool
=============================================================================
