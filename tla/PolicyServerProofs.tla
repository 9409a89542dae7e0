-------------------------- MODULE PolicyServerProofs --------------------------
(***************************************************************************)
(* Theorems about PolicyServer, for any finite set of connections, any cap *)
(* and any settings.                                                       *)
(***************************************************************************)
EXTENDS PolicyServer, FiniteSetTheorems, TLAPS

-----------------------------------------------------------------------------
(* Counting handlers.                                                      *)

\* Only finitely many handlers can run.
LEMMA HandlersFinite == IsFiniteSet(Handlers)
BY ServerAssumption, FS_Subset DEF Handlers

\* A connection that enters its handler adds one.
LEMMA CountEnter ==
    ASSUME pc \in [Conns -> PCs], NEW c \in Conns, NEW v \in InHandler,
           pc[c] \notin InHandler, pc' = [pc EXCEPT ![c] = v]
    PROVE  Cardinality(Handlers') = Cardinality(Handlers) + 1
<1>1. Handlers' = Handlers \cup {c}
  BY DEF Handlers
<1>2. c \notin Handlers
  BY DEF Handlers
<1> QED
  BY <1>1, <1>2, HandlersFinite, FS_AddElement

\* One that leaves it takes one away, and there was one to take.
LEMMA CountLeave ==
    ASSUME pc \in [Conns -> PCs], NEW c \in Conns, NEW v \in PCs \ InHandler,
           pc[c] \in InHandler, pc' = [pc EXCEPT ![c] = v]
    PROVE  /\ Cardinality(Handlers') = Cardinality(Handlers) - 1
           /\ Cardinality(Handlers) >= 1
<1>1. Handlers' = Handlers \ {c}
  BY DEF Handlers
<1>2. c \in Handlers
  BY DEF Handlers
<1>3. Cardinality(Handlers') = Cardinality(Handlers) - 1
  BY <1>1, <1>2, HandlersFinite, FS_RemoveElement
<1>4. IsFiniteSet(Handlers') /\ Cardinality(Handlers') \in Nat /\ Cardinality(Handlers) \in Nat
  BY <1>1, HandlersFinite, FS_Subset, FS_CardinalityType
<1> QED
  BY <1>3, <1>4

\* One that moves within it, or outside it, changes nothing.
LEMMA CountStays ==
    ASSUME pc \in [Conns -> PCs], NEW c \in Conns, NEW v,
           pc[c] \in InHandler <=> v \in InHandler, pc' = [pc EXCEPT ![c] = v]
    PROVE  Handlers' = Handlers
BY DEF Handlers

-----------------------------------------------------------------------------
(* Type correctness and the slot counter.                                  *)

\* The two are proved together: that the counter is a natural number rests
\* on its being the number of handlers.
Counted == TypeOK /\ SlotAccounting

\* What the handler makes of the policy's dict is a reply.
LEMMA ReplyType ==
    ASSUME TypeOK, NEW c \in Conns, NEW base \in Replies
    PROVE  Reply(c, rd[c], base) \in Replies
BY DEF TypeOK, Reply, Replies, RequestIds

\* A server that nobody has connected to counts no handler, and has none.
LEMMA UnusedCounted ==
    ASSUME Unused, srv \in {"serving", "killed"} PROVE Counted
<1>1. Handlers = {}
  BY DEF Unused, Handlers, InHandler
<1>2. SlotAccounting
  BY <1>1, FS_EmptySet DEF Unused, SlotAccounting
<1>3. sent \in [Conns -> Seq(FrameKinds)] /\ out \in [Conns -> Seq(ServerFrames)]
  BY DEF Unused
<1>4. shared \in Replies
  BY DEF Unused, FreshReply, Replies, RequestIds
<1>5. /\ pc \in [Conns -> PCs]
      /\ status \in [Conns -> Statuses]
      /\ ws \in [Conns -> {"none", "open", "lost", "closed"}]
  BY DEF Unused, PCs, Statuses
<1>6. /\ code \in [Conns -> {0, 1001, 1011}]
      /\ rd \in [Conns -> Nat]
      /\ prev \in [Conns -> Nat]
      /\ active \in Nat
  BY DEF Unused
<1>7. TypeOK
  BY <1>3, <1>4, <1>5, <1>6, ZenonT(20) DEF Unused, TypeOK
<1> QED
  BY <1>2, <1>7 DEF Counted

\* So does the server when it starts.
LEMMA InitCounted == Init => Counted
BY UnusedCounted DEF Init

\* Sending a frame keeps every wire log a sequence of frames.
LEMMA EmitType ==
    ASSUME TypeOK, NEW c \in Conns,
           NEW frame \in ServerFrames, Emit(c, frame)
    PROVE  out' \in [Conns -> Seq(ServerFrames)]
BY DEF TypeOK, Emit

\* The finally clause keeps count of the handlers.
LEMMA LeaveCounted ==
    ASSUME Counted, NEW c \in Conns, pc[c] \in InHandler, Leave(c)
    PROVE  /\ SlotAccounting'
           /\ active' \in Nat
           /\ pc' \in [Conns -> PCs]
           /\ ws' \in [Conns -> {"none", "open", "lost", "closed"}]
           /\ loop' \in Conns \cup {Idle}
<1>1. /\ Cardinality(Handlers') = Cardinality(Handlers) - 1
      /\ Cardinality(Handlers) >= 1
  <2>1. "done" \in PCs \ InHandler
    BY DEF PCs, InHandler
  <2> QED
    BY <2>1, CountLeave, ZenonT(20) DEF Counted, TypeOK, Leave
<1> QED
  BY <1>1 DEF Counted, TypeOK, SlotAccounting, Leave, GivenBack, PCs

\* The except clause keeps count of the handlers, on both its ways out.
LEMMA ErrorReplyCounted ==
    ASSUME Counted, NEW c \in Conns, pc[c] \in InHandler, ErrorReply(c)
    PROVE  /\ SlotAccounting'
           /\ active' \in Nat
           /\ pc' \in [Conns -> PCs]
           /\ ws' \in [Conns -> {"none", "open", "lost", "closed"}]
           /\ loop' \in Conns \cup {Idle}
           /\ out' \in [Conns -> Seq(ServerFrames)]
<1>1. CASE Leave(c) /\ UNCHANGED out
  BY <1>1, LeaveCounted DEF Counted, TypeOK
<1>2. CASE /\ Emit(c, Traceback)
           /\ pc' = [pc EXCEPT ![c] = "sendError"]
           /\ loop' = Idle
           /\ UNCHANGED <<active, ws>>
  <2>1. Handlers' = Handlers
    BY <1>2, CountStays, ZenonT(20) DEF Counted, TypeOK, InHandler
  <2>2. out' \in [Conns -> Seq(ServerFrames)]
    BY <1>2, EmitType DEF Counted, ServerFrames
  <2>3. pc' \in [Conns -> PCs]
    BY <1>2 DEF Counted, TypeOK, PCs, InHandler
  <2> QED
    BY <1>2, <2>1, <2>2, <2>3 DEF Counted, TypeOK, SlotAccounting
<1> QED
  BY <1>1, <1>2 DEF ErrorReply

\* Every await-to-await segment keeps count of the handlers.
LEMMA StepCounted == Counted /\ [Next]_vars => Counted'
<1> SUFFICES ASSUME Counted, [Next]_vars PROVE Counted'
  OBVIOUS
<1> USE DEF Counted
<1>1. ASSUME NEW c \in Conns, Accept(c) PROVE Counted'
  <2>1. Handlers' = Handlers
    BY <1>1, CountStays, ZenonT(20) DEF TypeOK, Accept, InHandler
  <2>2. TypeOK'
    BY <1>1, SMTT(40) DEF TypeOK, Accept, PCs, Statuses
  <2> QED
    BY <2>1, <2>2, <1>1 DEF SlotAccounting, Accept
<1>2. ASSUME NEW c \in Conns, HandlerStart(c) PROVE Counted'
  <2>1. Cardinality(Handlers') = Cardinality(Handlers) + 1
    <3>1. "sendMeta" \in InHandler /\ "accepted" \notin InHandler
      BY DEF InHandler
    <3>2. pc \in [Conns -> PCs]
      BY DEF TypeOK
    <3>3. pc[c] \notin InHandler /\ pc' = [pc EXCEPT ![c] = "sendMeta"]
      BY <1>2, <3>1 DEF HandlerStart
    <3> QED
      BY <3>1, <3>2, <3>3, CountEnter
  <2>2. out' \in [Conns -> Seq(ServerFrames)]
    BY <1>2, EmitType DEF HandlerStart, ServerFrames
  <2>3. pc' \in [Conns -> PCs]
    BY <1>2 DEF TypeOK, HandlerStart, PCs, InHandler
  <2>5. active' \in Nat
    BY <1>2 DEF TypeOK, HandlerStart, SlotTaken, Taken
  <2>6. resetBy' \in Conns \cup {Idle} /\ loop' \in Conns \cup {Idle}
    BY <1>2 DEF HandlerStart
  <2>7. UNCHANGED <<srv, request, status, ws, code, sent, rd, prev, shared, closed>>
    BY <1>2 DEF HandlerStart
  <2>8. TypeOK'
    BY <2>2, <2>3, <2>5, <2>6, <2>7, ZenonT(20) DEF TypeOK
  <2>4. SlotAccounting'
    BY <2>1, <1>2 DEF SlotAccounting, HandlerStart, SlotTaken, Taken
  <2> QED
    BY <2>4, <2>8
<1>3. ASSUME NEW c \in Conns, MetadataFails(c) PROVE Counted'
  <2>1. Handlers' = Handlers
    BY <1>3, CountStays, ZenonT(20) DEF TypeOK, MetadataFails, InHandler
  <2>2. active' = active
    BY <1>3 DEF TypeOK, MetadataFails, Taken, GivenBack
  <2>3. TypeOK'
    BY <1>3, <2>2, SMTT(40) DEF TypeOK, MetadataFails, PCs
  <2> QED
    BY <2>1, <2>2, <2>3 DEF SlotAccounting
<1>4. ASSUME NEW c \in Conns, SendReturns(c) PROVE Counted'
  <2>1. Handlers' = Handlers
    BY <1>4, CountStays, ZenonT(20) DEF TypeOK, SendReturns, InHandler
  <2>2. pc' \in [Conns -> PCs]
    BY <1>4 DEF TypeOK, SendReturns, PCs, InHandler
  <2>3. prev' \in [Conns -> Nat]
    BY <1>4 DEF TypeOK, SendReturns, StepTimed
  <2>4. TypeOK'
    BY <1>4, <2>2, <2>3, SMTT(40) DEF TypeOK, SendReturns
  <2> QED
    BY <2>1, <2>4, <1>4 DEF SlotAccounting, SendReturns
<1>5. ASSUME NEW c \in Conns, SendRaises(c) \/ RecvClosed(c) \/ CloseDone(c)
      PROVE  Counted'
  <2>1. pc[c] \in InHandler /\ Leave(c)
    BY <1>5 DEF SendRaises, RecvClosed, CloseDone, InHandler
  <2>2. UNCHANGED <<srv, request, status, code, sent, rd, out, prev, resetBy,
                    shared, closed>>
    BY <1>5 DEF SendRaises, RecvClosed, CloseDone
  <2> QED
    BY <2>1, <2>2, LeaveCounted DEF TypeOK
<1>6. ASSUME NEW c \in Conns, RecvText(c) PROVE Counted'
  <2>1. TypeOK'
    BY <1>6, SMTT(40) DEF TypeOK, RecvText
  <2> QED
    BY <2>1, <1>6 DEF SlotAccounting, Handlers, RecvText
<1>7. ASSUME NEW c \in Conns, RecvObs(c) PROVE Counted'
  <2>1. Handlers' = Handlers
    BY <1>7, CountStays, ZenonT(20) DEF TypeOK, RecvObs, Delivered, InHandler
  <2>2. pc' \in [Conns -> PCs]
    BY <1>7 DEF TypeOK, RecvObs, PCs, InHandler
  <2>3. TypeOK'
    BY <1>7, <2>2, SMTT(40) DEF TypeOK, RecvObs
  <2> QED
    BY <2>1, <2>3, <1>7 DEF SlotAccounting, RecvObs
<1>8. ASSUME NEW c \in Conns, RecvJunk(c) PROVE Counted'
  <2>1. pc[c] \in InHandler /\ ErrorReply(c)
    BY <1>8 DEF RecvJunk, Delivered, InHandler
  <2>2. rd' \in [Conns -> Nat]
    BY <1>8 DEF TypeOK, RecvJunk
  <2>3. /\ SlotAccounting'
        /\ active' \in Nat
        /\ pc' \in [Conns -> PCs]
        /\ ws' \in [Conns -> {"none", "open", "lost", "closed"}]
        /\ loop' \in Conns \cup {Idle}
        /\ out' \in [Conns -> Seq(ServerFrames)]
    BY <2>1, ErrorReplyCounted
  <2>4. TypeOK'
    BY <1>8, <2>2, <2>3, ZenonT(20) DEF TypeOK, RecvJunk
  <2> QED
    BY <2>3, <2>4
<1>9. ASSUME NEW c \in Conns, InferFails(c) PROVE Counted'
  <2>1. pc[c] \in InHandler /\ ErrorReply(c)
    BY <1>9 DEF InferFails, InHandler
  <2>2. shared \in Replies
    BY DEF TypeOK
  <2>3. shared' \in Replies
    BY <1>9, <2>2, ReplyType DEF InferFails, Replies
  <2> QED
    BY <1>9, <2>1, <2>3, ErrorReplyCounted DEF TypeOK, InferFails
<1>10. ASSUME NEW c \in Conns, InferReturns(c) PROVE Counted'
  <2> DEFINE base  == IF ReusesReply THEN shared ELSE FreshReply
             reply == Reply(c, rd[c], base)
             frame == [type |-> "result", obs |-> rd[c],
                       rid |-> reply.rid, prev |-> reply.prev]
  <2>1. base \in Replies
    BY DEF TypeOK, FreshReply, Replies, RequestIds
  <2>2. reply \in Replies
    BY <2>1, ReplyType DEF Replies
  <2>3. frame \in ServerFrames
    BY <2>2 DEF TypeOK, ServerFrames, Results, Replies
  <2>4. shared' \in Replies
    BY <1>10, <2>2 DEF InferReturns, TypeOK
  <2>5. pc[c] = "infer" /\ pc[c] \in InHandler
    BY <1>10 DEF InferReturns, InHandler
  <2>6. CASE Leave(c) /\ UNCHANGED out
    BY <1>10, <2>4, <2>5, <2>6, LeaveCounted, ZenonT(20) DEF InferReturns, TypeOK
  <2>7. CASE /\ Emit(c, frame)
             /\ pc' = [pc EXCEPT ![c] = "sendResult"]
             /\ loop' = Idle
             /\ UNCHANGED <<active, ws>>
    <3>1. Handlers' = Handlers
      BY <2>5, <2>7, CountStays, ZenonT(20) DEF TypeOK, InHandler
    <3>2. out' \in [Conns -> Seq(ServerFrames)]
      BY <2>3, <2>7, EmitType
    <3>3. pc' \in [Conns -> PCs]
      BY <2>7 DEF TypeOK, PCs, InHandler
    <3>4. TypeOK'
      BY <1>10, <2>4, <2>7, <3>2, <3>3, ZenonT(20) DEF TypeOK, InferReturns
    <3> QED
      BY <2>7, <3>1, <3>4 DEF SlotAccounting
  <2> QED
    BY <1>10, <2>6, <2>7 DEF InferReturns
<1>11. ASSUME NEW c \in Conns, Connect(c) \/ HandshakeAborts(c) PROVE Counted'
  <2>1. Handlers' = Handlers
    BY <1>11, CountStays, ZenonT(20) DEF TypeOK, Connect, HandshakeAborts, InHandler
  <2>2. pc' \in [Conns -> PCs]
    <3>1. PICK v \in {"opening", "done"} : pc' = [pc EXCEPT ![c] = v]
      BY <1>11 DEF Connect, HandshakeAborts
    <3>2. v \in PCs
      BY DEF PCs
    <3> QED
      BY <3>1, <3>2 DEF TypeOK
  <2>3. UNCHANGED <<srv, loop, active, request, status, ws, code, sent, rd, out,
                    prev, resetBy, shared, closed>>
    BY <1>11 DEF Connect, HandshakeAborts
  <2>4. TypeOK'
    BY <2>2, <2>3, SMTT(40) DEF TypeOK
  <2> QED
    BY <2>1, <2>3, <2>4 DEF SlotAccounting
<1>12. ASSUME NEW c \in Conns, Reject(c) PROVE Counted'
  <2>1. Handlers' = Handlers
    BY <1>12, CountStays, ZenonT(20) DEF TypeOK, Reject, InHandler
  <2>2. Verdict(request[c]) # "PASS" => Verdict(request[c]) \in Statuses
    BY DEF Verdict, CheckRequest, Statuses
  <2>3. status' \in [Conns -> Statuses]
    <3>1. "UNAVAILABLE" \in Statuses
      BY DEF Statuses
    <3>2. PICK answer \in Statuses : status' = [status EXCEPT ![c] = answer]
      BY <1>12, <2>2, <3>1 DEF Reject
    <3> QED
      BY <3>2 DEF TypeOK
  <2>4. TypeOK'
    BY <1>12, <2>3, SMTT(40) DEF TypeOK, Reject, PCs
  <2> QED
    BY <2>1, <2>4, <1>12 DEF SlotAccounting, Reject
<1>13. ASSUME NEW c \in Conns, NEW kind \in ClientFrames, ClientSend(c, kind)
       PROVE  Counted'
  <2>1. kind \in FrameKinds
    BY ServerAssumption DEF FrameKinds
  <2>2. sent' \in [Conns -> Seq(FrameKinds)]
    BY <1>13, <2>1 DEF TypeOK, ClientSend
  <2>3. TypeOK'
    BY <1>13, <2>2, SMTT(40) DEF TypeOK, ClientSend
  <2> QED
    BY <2>3, <1>13 DEF SlotAccounting, Handlers, ClientSend
<1>14. ASSUME NEW c \in Conns, Lose(c) \/ Notice(c) \/ ServerCloses(c)
       PROVE  Counted'
  <2>1. ws' \in [Conns -> {"none", "open", "lost", "closed"}]
    <3>1. PICK v \in {"lost", "closed"} : ws' = [ws EXCEPT ![c] = v]
      BY <1>14 DEF Lose, Notice, ServerCloses
    <3> QED
      BY <3>1 DEF TypeOK
  <2>2. code' \in [Conns -> {0, 1001, 1011}]
    BY <1>14 DEF TypeOK, Lose, Notice, ServerCloses
  <2>3. UNCHANGED <<srv, loop, active, pc, request, status, sent, rd, out, prev,
                    resetBy, shared, closed>>
    BY <1>14 DEF Lose, Notice, ServerCloses
  <2>4. TypeOK'
    BY <2>1, <2>2, <2>3, SMTT(40) DEF TypeOK
  <2> QED
    BY <2>3, <2>4 DEF SlotAccounting, Handlers
<1>15. ASSUME Interrupt \/ Stop \/ Kill \/ UNCHANGED vars PROVE Counted'
  <2>1. /\ srv' \in {"serving", "closing", "exited", "killed"}
        /\ closed' \in BOOLEAN
    BY <1>15, ZenonT(20) DEF TypeOK, Interrupt, Stop, Kill, vars
  <2>2. UNCHANGED <<loop, active, pc, request, status, ws, code, sent, rd, out,
                    prev, resetBy, shared>>
    BY <1>15 DEF Interrupt, Stop, Kill, vars
  <2>3. TypeOK'
    BY <2>1, <2>2, SMTT(40) DEF TypeOK
  <2> QED
    BY <2>2, <2>3 DEF SlotAccounting, Handlers
<1> QED
  BY <1>1, <1>2, <1>3, <1>4, <1>5, <1>6, <1>7, <1>8, <1>9, <1>10, <1>11,
     <1>12, <1>13, <1>14, <1>15
  DEF Next, Environment, HandlerStep, TransportStep, Terminated

\* The server's variables have their types: in particular the counter of
\* active connections never goes below zero.
THEOREM TypeCorrect == Spec => []TypeOK
<1>1. Counted => TypeOK
  BY DEF Counted
<1> QED
  BY <1>1, InitCounted, StepCounted, PTL DEF Spec

\* self._active is always the number of handlers between their increment and
\* their decrement, whichever way connections begin and end.
THEOREM SlotsCounted == Spec => []SlotAccounting
<1>1. Counted => SlotAccounting
  BY DEF Counted
<1> QED
  BY <1>1, InitCounted, StepCounted, PTL DEF Spec

-----------------------------------------------------------------------------
(* The connection cap.                                                     *)

\* What CapRespected needs to be inductive: between the test of the cap and
\* the increment nobody else has the loop, and the slot tested for is there.
UpgradeGuarded ==
    AtomicUpgrade => \A c \in Conns :
        pc[c] = "accepted" => loop = c /\ active < MaxConnections

CapInv == Counted /\ UpgradeGuarded /\ CapRespected

\* A request is let in only when a slot is free.
LEMMA PassMeansRoom ==
    ASSUME NEW r, Counted, Verdict(r) = "PASS"
    PROVE  active < MaxConnections
<1>1. ~AtCapacity
  BY DEF Verdict
<1> QED
  BY <1>1, ServerAssumption DEF AtCapacity, Counted, TypeOK

\* No segment exceeds the cap, if the upgrade is not suspended.
LEMMA StepCap == CapInv /\ [Next]_vars => CapInv'
<1> SUFFICES ASSUME CapInv, [Next]_vars PROVE CapInv'
  OBVIOUS
<1>1. Counted /\ Counted'
  BY StepCounted DEF CapInv
<1>2. CASE ~AtomicUpgrade
  BY <1>1, <1>2 DEF CapInv, UpgradeGuarded, CapRespected
<1>3. CASE AtomicUpgrade
  <2> USE <1>3
  <2> SUFFICES /\ active' <= MaxConnections
               /\ \A d \in Conns : pc'[d] = "accepted" =>
                      loop' = d /\ active' < MaxConnections
    BY <1>1 DEF CapInv, UpgradeGuarded, CapRespected, Counted, SlotAccounting
  <2>1. /\ active \in Nat /\ MaxConnections \in Nat
        /\ pc \in [Conns -> PCs]
        /\ Idle \notin Conns
        /\ active <= MaxConnections
        /\ \A d \in Conns : pc[d] = "accepted" =>
               loop = d /\ active < MaxConnections
    BY ServerAssumption
    DEF CapInv, Counted, TypeOK, SlotAccounting, UpgradeGuarded, CapRespected
  <2>2. ASSUME NEW c \in Conns, Accept(c)
        PROVE  /\ active' <= MaxConnections
               /\ \A d \in Conns : pc'[d] = "accepted" =>
                      loop' = d /\ active' < MaxConnections
    <3>1. active < MaxConnections /\ active' = active
      BY <1>1, <2>2, PassMeansRoom DEF Accept
    <3>2. loop' = c /\ \A d \in Conns : pc'[d] = "accepted" => d = c
      BY <2>1, <2>2 DEF Accept, CanRun
    <3> QED
      BY <2>1, <3>1, <3>2
  <2>3. ASSUME NEW c \in Conns, HandlerStart(c)
        PROVE  /\ active' <= MaxConnections
               /\ \A d \in Conns : pc'[d] # "accepted"
    <3>1. active < MaxConnections /\ active' = active + 1
      BY <2>1, <2>3 DEF HandlerStart, SlotTaken, Taken
    <3>2. \A d \in Conns : pc'[d] # "accepted"
      BY <2>1, <2>3 DEF HandlerStart
    <3> QED
      BY <2>1, <3>1, <3>2
  <2>4. ASSUME NEW c \in Conns,
               \/ MetadataFails(c) \/ SendReturns(c) \/ SendRaises(c)
               \/ RecvText(c) \/ RecvJunk(c) \/ RecvObs(c) \/ RecvClosed(c)
               \/ InferReturns(c) \/ InferFails(c) \/ CloseDone(c)
        PROVE  /\ active' <= MaxConnections
               /\ \A d \in Conns : pc'[d] # "accepted"
    <3>1. CanRun(c)
      BY <2>4 DEF MetadataFails, SendReturns, SendRaises, RecvText, RecvJunk,
                  RecvObs, RecvClosed, InferReturns, InferFails, CloseDone,
                  Delivered
    <3>2. \A d \in Conns : pc[d] = "accepted" => d = c
      BY <2>1, <3>1 DEF CanRun
    <3>3. active' \in {active, active - 1}
      <4>1. CASE MetadataFails(c)
        <5>1. active' = (active + 1) - 1
          BY <4>1 DEF MetadataFails, Taken, GivenBack
        <5> QED
          BY <2>1, <5>1
      <4>2. CASE ~MetadataFails(c)
        BY <2>4, <4>2
        DEF SendReturns, SendRaises, RecvText, RecvJunk, RecvObs, RecvClosed,
            InferReturns, InferFails, CloseDone, ErrorReply, Leave, GivenBack
      <4> QED
        BY <4>1, <4>2
    <3>4. \/ pc' = pc /\ pc[c] = "recv"
          \/ \E v \in InHandler \cup {"done"} : pc' = [pc EXCEPT ![c] = v]
      BY <2>4 DEF MetadataFails, SendReturns, SendRaises, RecvText, RecvJunk,
                  RecvObs, RecvClosed, InferReturns, InferFails, CloseDone,
                  ErrorReply, Leave, Delivered, InHandler
    <3>5. "accepted" \notin InHandler \cup {"done"}
      BY DEF InHandler
    <3> QED
      BY <2>1, <3>2, <3>3, <3>4, <3>5
  <2>5. ASSUME NEW c \in Conns, Connect(c) \/ HandshakeAborts(c) \/ Reject(c)
        PROVE  /\ active' <= MaxConnections
               /\ \A d \in Conns : pc'[d] = "accepted" =>
                      loop' = d /\ active' < MaxConnections
    <3>1. PICK v \in {"opening", "done"} : pc' = [pc EXCEPT ![c] = v]
      BY <2>5 DEF Connect, HandshakeAborts, Reject
    <3>2. UNCHANGED <<loop, active>>
      BY <2>5 DEF Connect, HandshakeAborts, Reject
    <3> QED
      BY <2>1, <3>1, <3>2
  <2>6. ASSUME \/ Interrupt \/ Kill \/ Stop \/ UNCHANGED vars
               \/ \E c \in Conns : \/ Lose(c) \/ Notice(c) \/ ServerCloses(c)
                                   \/ \E kind \in ClientFrames : ClientSend(c, kind)
        PROVE  UNCHANGED <<pc, loop, active>>
    BY <2>6 DEF Interrupt, Kill, Stop, vars, Lose, Notice, ServerCloses, ClientSend
  <2> QED
    BY <2>1, <2>2, <2>3, <2>4, <2>5, <2>6
    DEF Next, Environment, HandlerStep, TransportStep, Terminated
<1> QED
  BY <1>2, <1>3

\* The cap invariant holds when the server starts.
LEMMA InitCap == Init => CapInv
<1> SUFFICES ASSUME Init PROVE CapInv
  OBVIOUS
<1>1. Counted /\ active = 0
  BY InitCounted DEF Init, Unused
<1>2. \A c \in Conns : pc[c] # "accepted"
  BY DEF Init, Unused
<1> QED
  BY <1>1, <1>2, ServerAssumption
  DEF CapInv, UpgradeGuarded, CapRespected, Counted, SlotAccounting

\* --max-connections holds at all times, provided the library does not suspend
\* between asking _process_request and starting _handler.
THEOREM CapHolds == Spec => []CapRespected
<1>1. CapInv => CapRespected
  BY DEF CapInv
<1> QED
  BY <1>1, InitCap, StepCap, PTL DEF Spec

-----------------------------------------------------------------------------
(* What the cap gives to a client, and to one that is turned away.         *)

\* A handler is entered only by HandlerStart, and policy.reset() is called
\* only there and where the metadata fails right after it.
LEMMA HandlerEntry ==
    ASSUME pc \in [Conns -> PCs], [Next]_vars
    PROVE  /\ \A d \in Conns : pc'[d] \in InHandler /\ pc[d] \notin InHandler
                  => HandlerStart(d)
           /\ \/ resetBy' = resetBy
              \/ \E c \in Conns : HandlerStart(c) \/ MetadataFails(c)
<1>1. ASSUME NEW c \in Conns, HandlerStart(c) \/ MetadataFails(c)
      PROVE  \A d \in Conns : pc'[d] \in InHandler /\ pc[d] \notin InHandler
                  => HandlerStart(d)
  BY <1>1 DEF HandlerStart, MetadataFails, InHandler
<1>2. ASSUME NEW c \in Conns,
             \/ SendReturns(c) \/ SendRaises(c)
             \/ RecvText(c) \/ RecvJunk(c) \/ RecvObs(c) \/ RecvClosed(c)
             \/ InferReturns(c) \/ InferFails(c) \/ CloseDone(c)
      PROVE  /\ resetBy' = resetBy
             /\ \A d \in Conns : pc'[d] \in InHandler => pc[d] \in InHandler
  <2>1. pc[c] \in InHandler /\ resetBy' = resetBy
    BY <1>2 DEF SendReturns, SendRaises, RecvText, RecvJunk, RecvObs,
                RecvClosed, InferReturns, InferFails, CloseDone, Delivered,
                InHandler
  <2>2. pc' = pc \/ \E v \in PCs : pc' = [pc EXCEPT ![c] = v]
    BY <1>2 DEF SendReturns, SendRaises, RecvText, RecvJunk, RecvObs,
                RecvClosed, InferReturns, InferFails, CloseDone, ErrorReply,
                Leave, PCs, InHandler
  <2> QED
    BY <2>1, <2>2
<1>3. ASSUME NEW c \in Conns,
             Connect(c) \/ HandshakeAborts(c) \/ Accept(c) \/ Reject(c)
      PROVE  /\ resetBy' = resetBy
             /\ \A d \in Conns : pc'[d] \in InHandler => pc[d] \in InHandler
  <2>1. PICK v \in {"opening", "accepted", "done"} : pc' = [pc EXCEPT ![c] = v]
    BY <1>3 DEF Connect, HandshakeAborts, Accept, Reject
  <2>2. resetBy' = resetBy
    BY <1>3 DEF Connect, HandshakeAborts, Accept, Reject
  <2> QED
    BY <2>1, <2>2 DEF InHandler
<1>4. ASSUME \/ Interrupt \/ Kill \/ Stop \/ UNCHANGED vars
             \/ \E c \in Conns : \/ Lose(c) \/ Notice(c) \/ ServerCloses(c)
                                 \/ \E kind \in ClientFrames : ClientSend(c, kind)
      PROVE  UNCHANGED <<pc, resetBy>>
  BY <1>4 DEF Interrupt, Kill, Stop, vars, Lose, Notice, ServerCloses, ClientSend
<1> QED
  BY <1>1, <1>2, <1>3, <1>4
  DEF Next, Environment, HandlerStep, TransportStep, Terminated

\* SessionIsolated, for every place inside the handler.
EpisodeInv ==
    AtomicUpgrade /\ MaxConnections = 1 =>
        \A c \in Conns : pc[c] \in InHandler => resetBy = c

\* With one slot, a connection that is let in finds no handler running.
LEMMA NobodyElse ==
    ASSUME CapInv, AtomicUpgrade, MaxConnections = 1,
           NEW c \in Conns, pc[c] = "accepted"
    PROVE  \A d \in Conns : pc[d] \notin InHandler
<1>1. Cardinality(Handlers) = 0
  BY DEF CapInv, UpgradeGuarded, Counted, TypeOK, SlotAccounting
<1>2. Handlers = {}
  BY <1>1, HandlersFinite, FS_EmptySet
<1> QED
  BY <1>2 DEF Handlers

\* No segment lets a second client into a server with room for one.
LEMMA StepEpisode == CapInv /\ EpisodeInv /\ [Next]_vars => EpisodeInv'
<1> SUFFICES ASSUME CapInv, EpisodeInv, [Next]_vars,
                    AtomicUpgrade, MaxConnections = 1,
                    NEW d \in Conns, pc'[d] \in InHandler
             PROVE  resetBy' = d
  BY DEF EpisodeInv
<1>1. pc \in [Conns -> PCs]
  BY DEF CapInv, Counted, TypeOK
<1>2. CASE HandlerStart(d)
  BY <1>2 DEF HandlerStart
<1>3. CASE ~HandlerStart(d)
  <2>1. pc[d] \in InHandler
    BY <1>1, <1>3, HandlerEntry
  <2>2. \A c \in Conns : pc[c] # "accepted"
    BY <2>1, NobodyElse
  <2>3. resetBy' = resetBy
    BY <1>1, <2>2, HandlerEntry DEF HandlerStart, MetadataFails
  <2> QED
    BY <2>1, <2>3 DEF EpisodeInv
<1> QED
  BY <1>2, <1>3

\* With --max-connections 1 no other client's connection disturbs the episode
\* of the client that is being served.
THEOREM EpisodesIsolated == Spec => []SessionIsolated
<1>1. Init => CapInv /\ EpisodeInv
  <2>1. ASSUME Init PROVE \A c \in Conns : pc[c] \notin InHandler
    BY <2>1 DEF Init, Unused, InHandler
  <2> QED
    BY <2>1, InitCap DEF EpisodeInv
<1>2. EpisodeInv => SessionIsolated
  BY DEF EpisodeInv, SessionIsolated, InHandler
<1> QED
  BY <1>1, <1>2, StepCap, StepEpisode, PTL DEF Spec

\* Only a full server, or one that is shutting down, tells a client that there
\* is no room.
LEMMA StepDenial ==
    ASSUME Counted, [Next]_vars, NEW d \in Conns,
           status[d] # "UNAVAILABLE", status'[d] = "UNAVAILABLE"
    PROVE  srv = "closing" \/ Cardinality(Handlers) >= MaxConnections
<1>1. status \in [Conns -> Statuses]
  BY DEF Counted, TypeOK
<1>2. ASSUME NEW c \in Conns, Reject(c)
      PROVE  srv = "closing" \/ Cardinality(Handlers) >= MaxConnections
  <2>1. CASE Verdict(request[c]) # "PASS" /\ status' = [status EXCEPT ![c] = Verdict(request[c])]
    <3>1. Verdict(request[c]) = "UNAVAILABLE"
      BY <1>1, <2>1
    <3>2. AtCapacity
      BY <3>1 DEF Verdict, CheckRequest
    <3> QED
      BY <3>2 DEF AtCapacity, Counted, SlotAccounting
  <2> QED
    BY <1>2, <2>1 DEF Reject
<1>3. ASSUME NEW c \in Conns, Accept(c) PROVE FALSE
  BY <1>1, <1>3 DEF Accept
<1>4. CASE UNCHANGED status
  BY <1>4
<1>5. ASSUME NEW c \in Conns,
             \/ Connect(c) \/ HandshakeAborts(c) \/ HandlerStart(c)
             \/ MetadataFails(c) \/ SendReturns(c) \/ SendRaises(c)
             \/ RecvText(c) \/ RecvJunk(c) \/ RecvObs(c) \/ RecvClosed(c)
             \/ InferReturns(c) \/ InferFails(c) \/ CloseDone(c)
             \/ Lose(c) \/ Notice(c) \/ ServerCloses(c)
             \/ \E kind \in ClientFrames : ClientSend(c, kind)
      PROVE  UNCHANGED status
  BY <1>5 DEF Connect, HandshakeAborts, HandlerStart, MetadataFails,
              SendReturns, SendRaises, RecvText, RecvJunk, RecvObs,
              RecvClosed, InferReturns, InferFails, CloseDone, Lose, Notice,
              ServerCloses, ClientSend
<1>6. ASSUME Interrupt \/ Kill \/ Stop \/ UNCHANGED vars PROVE UNCHANGED status
  BY <1>6 DEF Interrupt, Kill, Stop, vars
<1> QED
  BY <1>2, <1>3, <1>4, <1>5, <1>6
  DEF Next, Environment, HandlerStep, TransportStep, Terminated

\* A client of an open server is told that there is no room only when there is
\* none.
THEOREM DenialsJustified == Spec => DenialJustified
<1>1. Counted /\ [Next]_vars =>
        [\A c \in Conns :
            status[c] # "UNAVAILABLE" /\ status'[c] = "UNAVAILABLE" =>
                srv = "closing" \/ Cardinality(Handlers) >= MaxConnections]_vars
  BY StepDenial
<1> QED
  BY <1>1, InitCounted, StepCounted, PTL DEF Spec, DenialJustified

-----------------------------------------------------------------------------
(* Transports and the end of the process.                                  *)

\* A process that is gone makes no step.
LEMMA GoneIsGone ==
    ASSUME ~Alive, [Next]_vars
    PROVE  UNCHANGED vars
<1>1. ASSUME NEW c \in Conns, HandlerStep(c) PROVE Alive
  BY <1>1
  DEF HandlerStep, Accept, Reject, HandlerStart, MetadataFails, SendReturns, SendRaises,
      RecvText, RecvJunk, RecvObs, RecvClosed, InferReturns, InferFails, CloseDone,
      Delivered, CanRun
<1>2. ASSUME NEW c \in Conns,
             \/ Connect(c) \/ HandshakeAborts(c) \/ Lose(c) \/ TransportStep(c)
             \/ \E kind \in ClientFrames : ClientSend(c, kind)
      PROVE  Alive
  BY <1>2 DEF Connect, HandshakeAborts, Lose, TransportStep, Notice, ServerCloses,
              ClientSend, CanRun, Alive
<1>3. ASSUME Interrupt \/ Kill \/ Stop PROVE Alive
  BY <1>3 DEF Interrupt, Kill, Stop, Alive
<1> QED
  BY <1>1, <1>2, <1>3 DEF Next, Environment, Terminated

\* A transport lives as long as the coroutine that watches it.
Transports ==
    \A c \in Conns :
        /\ pc[c] \in {"new", "opening"} => ws[c] = "none"
        /\ pc[c] = "done" => ws[c] \in {"none", "closed"}
        /\ pc[c] \in InHandler \cup {"accepted"} => ws[c] # "none"

\* No step leaves a transport behind.
LEMMA StepTransports == TypeOK /\ Transports /\ [Next]_vars => Transports'
<1> SUFFICES ASSUME TypeOK, Transports, [Next]_vars PROVE Transports'
  OBVIOUS
<1>1. /\ pc \in [Conns -> PCs]
      /\ ws \in [Conns -> {"none", "open", "lost", "closed"}]
  BY DEF TypeOK
<1> USE DEF Transports, PCs, InHandler
<1>2. ASSUME NEW c \in Conns, Connect(c) \/ HandshakeAborts(c) \/ Accept(c) \/ Reject(c)
      PROVE  Transports'
  BY <1>1, <1>2 DEF Connect, HandshakeAborts, Accept, Reject
<1>3. ASSUME NEW c \in Conns, Leave(c) PROVE Transports'
  BY <1>1, <1>3 DEF Leave
<1>4. ASSUME NEW c \in Conns, MetadataFails(c) PROVE Transports'
  BY <1>1, <1>4 DEF MetadataFails
<1>5. ASSUME NEW c \in Conns, pc[c] \in InHandler \cup {"accepted"}, UNCHANGED ws,
             pc' = pc \/ \E v \in InHandler : pc' = [pc EXCEPT ![c] = v]
      PROVE  Transports'
  BY <1>1, <1>5
<1>6. ASSUME NEW c \in Conns,
             \/ HandlerStart(c) \/ SendReturns(c) \/ SendRaises(c) \/ RecvText(c)
             \/ RecvJunk(c) \/ RecvObs(c) \/ RecvClosed(c)
             \/ InferReturns(c) \/ InferFails(c) \/ CloseDone(c)
      PROVE  Transports'
  <2>1. \/ Leave(c)
        \/ /\ pc[c] \in InHandler \cup {"accepted"} /\ UNCHANGED ws
           /\ pc' = pc \/ \E v \in InHandler : pc' = [pc EXCEPT ![c] = v]
    BY <1>6
    DEF HandlerStart, SendReturns, SendRaises, RecvText, RecvJunk, RecvObs, RecvClosed,
        InferReturns, InferFails, CloseDone, ErrorReply, Delivered
  <2> QED
    BY <1>3, <1>5, <2>1
<1>7. ASSUME NEW c \in Conns, Lose(c) \/ Notice(c) \/ ServerCloses(c) PROVE Transports'
  BY <1>1, <1>7 DEF Lose, Notice, ServerCloses
<1>8. ASSUME \/ Interrupt \/ Kill \/ Stop \/ UNCHANGED vars
             \/ \E c \in Conns, kind \in ClientFrames : ClientSend(c, kind)
      PROVE  Transports'
  BY <1>1, <1>8 DEF Interrupt, Kill, Stop, vars, ClientSend
<1> QED
  BY <1>2, <1>4, <1>6, <1>7, <1>8
  DEF Next, Environment, HandlerStep, TransportStep, Terminated

\* The policy is closed by the last act of the process and by nothing else:
\* when no coroutine is left that could call it.
ClosedLast ==
    /\ srv = "exited" <=> closed
    /\ closed => \A c \in Conns : pc[c] \in {"new", "done"}

\* Nothing else kills the process by itself.
KilledBySignal == srv = "killed" => "SIGTERM" \in Signals

\* Nothing happens after that.
LEMMA StepClosedLast ==
    ASSUME ClosedLast, [Next]_vars
    PROVE  ClosedLast' /\ (KilledBySignal => KilledBySignal')
<1> USE DEF KilledBySignal
<1>1. CASE ~Alive
  BY <1>1, GoneIsGone DEF ClosedLast, vars
<1>2. CASE Alive /\ (Stop \/ Kill)
  BY <1>2 DEF ClosedLast, Alive, Stop, Kill
<1>3. CASE Alive /\ srv' \in {"serving", "closing"} /\ closed' = closed
  BY <1>3 DEF ClosedLast, Alive
<1>4. ASSUME NEW c \in Conns, HandlerStep(c) PROVE UNCHANGED <<srv, closed>>
  BY <1>4
  DEF HandlerStep, Accept, Reject, HandlerStart, MetadataFails, SendReturns, SendRaises,
      RecvText, RecvJunk, RecvObs, RecvClosed, InferReturns, InferFails, CloseDone
<1>5. ASSUME \/ Interrupt \/ UNCHANGED vars
             \/ \E c \in Conns :
                    \/ Connect(c) \/ HandshakeAborts(c) \/ Lose(c) \/ TransportStep(c)
                    \/ \E kind \in ClientFrames : ClientSend(c, kind)
      PROVE  closed' = closed /\ (srv' = srv \/ srv' = "closing")
  BY <1>5 DEF Interrupt, vars, Connect, HandshakeAborts, Lose, TransportStep, Notice,
              ServerCloses, ClientSend
<1> QED
  BY <1>1, <1>2, <1>3, <1>4, <1>5 DEF Next, Environment, Terminated, Alive

\* What is left when serve_forever has returned: no client, no slot in use and
\* a policy that is closed.
CleanExit ==
    srv = "exited" =>
        closed /\ active = 0 /\ \A c \in Conns : ws[c] \in {"none", "closed"}

\* It follows: the handlers have ended, and with them their transports.
LEMMA ExitIsClean == Counted /\ Transports /\ ClosedLast => CleanExit
<1> SUFFICES ASSUME Counted, Transports, ClosedLast, srv = "exited" PROVE CleanExit
  BY DEF CleanExit
<1>1. closed /\ \A c \in Conns : pc[c] \in {"new", "done"}
  BY DEF ClosedLast
<1>2. Handlers = {}
  BY <1>1 DEF Handlers, InHandler
<1>3. active = 0
  BY <1>2, FS_EmptySet DEF Counted, SlotAccounting
<1> QED
  BY <1>1, <1>3 DEF CleanExit, Transports

\* policy.close() is called once nobody can call the policy any more, and the
\* process that called it leaves no client and no slot behind.
THEOREM ShutdownIsClean == Spec => [](ClosedLast /\ CleanExit)
<1>1. Init => Transports /\ ClosedLast
  BY DEF Init, Unused, Transports, ClosedLast, InHandler
<1>2. Counted => TypeOK
  BY DEF Counted
<1> QED
  BY <1>1, <1>2, InitCounted, StepCounted, StepTransports, StepClosedLast, ExitIsClean, PTL
  DEF Spec

\* SIGTERM is the only way to end the process with the policy not closed: the
\* claim of policy.py:46 that ServerSigterm refutes holds without it.
THEOREM OnlySigtermSkipsClose ==
    Spec => []("SIGTERM" \notin Signals => ShutdownClosesPolicy)
<1>1. ClosedLast /\ KilledBySignal => ("SIGTERM" \notin Signals => ShutdownClosesPolicy)
  BY DEF ClosedLast, KilledBySignal, ShutdownClosesPolicy
<1>2. Init => ClosedLast /\ KilledBySignal
  BY DEF Init, Unused, ClosedLast, KilledBySignal
<1> QED
  BY <1>1, <1>2, StepClosedLast, PTL DEF Spec

-----------------------------------------------------------------------------
(* Whose turn it is.                                                       *)

\* The loop is kept for an inference, or for an upgrade that is not suspended,
\* and by nobody who has left: it always comes back.
LoopHeld ==
    \A c \in Conns :
        /\ pc[c] = "infer" => loop = c
        /\ loop = c => pc[c] = "infer" \/ (AtomicUpgrade /\ pc[c] = "accepted")

\* The policy, which has no lock, is never in two calls.
OneInference ==
    \A c, d \in Conns : pc[c] = "infer" /\ pc[d] = "infer" => c = d

\* While it works on an observation it is neither reset nor closed, and nothing
\* is written into its reply dict.
Undisturbed ==
    \A c \in Conns : pc[c] = "infer" /\ pc'[c] = "infer" =>
        UNCHANGED <<resetBy, closed, shared>>

\* What a segment of a coroutine does to the loop.
LEMMA SegmentLoop ==
    ASSUME TypeOK, NEW c \in Conns, HandlerStep(c)
    PROVE  /\ CanRun(c)
           /\ \/ UNCHANGED <<pc, loop>>
              \/ pc[c] = "opening" /\ pc' = [pc EXCEPT ![c] = "done"] /\ loop' = loop
              \/ \E v \in PCs \ {"infer"} : pc' = [pc EXCEPT ![c] = v] /\ loop' = Idle
              \/ pc' = [pc EXCEPT ![c] = "infer"] /\ loop' = c
              \/ AtomicUpgrade /\ pc' = [pc EXCEPT ![c] = "accepted"] /\ loop' = c
<1>1. CanRun(c)
  BY DEF HandlerStep, Accept, Reject, HandlerStart, MetadataFails, SendReturns,
         SendRaises, RecvText, RecvJunk, RecvObs, RecvClosed, InferReturns,
         InferFails, CloseDone, Delivered
<1>2. CASE Accept(c) \/ RecvObs(c) \/ RecvText(c) \/ Reject(c)
  BY <1>1, <1>2, ServerAssumption DEF Accept, RecvObs, RecvText, Reject, PCs
<1>3. CASE HandlerStart(c) \/ MetadataFails(c)
  BY <1>1, <1>3 DEF HandlerStart, MetadataFails, PCs, InHandler
<1>4. CASE SendReturns(c) \/ SendRaises(c)
  BY <1>1, <1>4 DEF SendReturns, SendRaises, Leave, PCs, InHandler, TypeOK
<1>5. CASE RecvClosed(c) \/ CloseDone(c)
  BY <1>1, <1>5 DEF RecvClosed, CloseDone, Leave, PCs
<1>6. CASE RecvJunk(c) \/ InferFails(c)
  BY <1>1, <1>6 DEF RecvJunk, InferFails, ErrorReply, Leave, PCs, InHandler
<1>7. CASE InferReturns(c)
  BY <1>1, <1>7 DEF InferReturns, Leave, PCs, InHandler
<1> QED
  BY <1>2, <1>3, <1>4, <1>5, <1>6, <1>7 DEF HandlerStep

\* Nobody takes the loop from its holder.
LEMMA StepHeld == TypeOK /\ LoopHeld /\ [Next]_vars => LoopHeld'
<1> SUFFICES ASSUME TypeOK, LoopHeld, [Next]_vars PROVE LoopHeld'
  OBVIOUS
<1>1. pc \in [Conns -> PCs] /\ Idle \notin Conns
  BY ServerAssumption DEF TypeOK
<1>2. ASSUME NEW c \in Conns, HandlerStep(c) PROVE LoopHeld'
  <2>1. \A d \in Conns : pc[d] = "infer" => d = c
    BY <1>1, <1>2, SegmentLoop DEF CanRun, LoopHeld
  <2>2. \A d \in Conns \ {c} : loop # d
    BY <1>1, <1>2, SegmentLoop DEF CanRun
  <2>3. CASE UNCHANGED <<pc, loop>>
    BY <2>3 DEF LoopHeld
  <2>4. CASE pc[c] = "opening" /\ pc' = [pc EXCEPT ![c] = "done"] /\ loop' = loop
    BY <1>1, <2>1, <2>2, <2>4 DEF LoopHeld
  <2>5. CASE \E v \in PCs \ {"infer"} : pc' = [pc EXCEPT ![c] = v] /\ loop' = Idle
    BY <1>1, <2>1, <2>5 DEF LoopHeld
  <2>6. CASE pc' = [pc EXCEPT ![c] = "infer"] /\ loop' = c
    BY <1>1, <2>1, <2>6 DEF LoopHeld
  <2>7. CASE AtomicUpgrade /\ pc' = [pc EXCEPT ![c] = "accepted"] /\ loop' = c
    BY <1>1, <2>1, <2>7 DEF LoopHeld
  <2> QED
    BY <1>2, <2>3, <2>4, <2>5, <2>6, <2>7, SegmentLoop
<1>3. ASSUME NEW c \in Conns, Connect(c) \/ HandshakeAborts(c) PROVE LoopHeld'
  <2>1. pc[c] \in {"new", "opening"} /\ loop' = loop
    BY <1>3 DEF Connect, HandshakeAborts
  <2>2. PICK v \in {"opening", "done"} : pc' = [pc EXCEPT ![c] = v]
    BY <1>3 DEF Connect, HandshakeAborts
  <2> QED
    BY <1>1, <2>1, <2>2 DEF LoopHeld
<1>4. ASSUME \/ Interrupt \/ Kill \/ Stop \/ UNCHANGED vars
             \/ \E c \in Conns : \/ Lose(c) \/ TransportStep(c)
                                 \/ \E kind \in ClientFrames : ClientSend(c, kind)
      PROVE  UNCHANGED <<pc, loop>>
  BY <1>4 DEF Interrupt, Kill, Stop, vars, Lose, TransportStep, Notice, ServerCloses,
              ClientSend
<1>5. UNCHANGED <<pc, loop>> => LoopHeld'
  BY DEF LoopHeld
<1> QED
  BY <1>2, <1>3, <1>4, <1>5 DEF Next, Environment, Terminated

\* An inference is left alone by the segments of the others.
LEMMA StepUndisturbed ==
    TypeOK /\ LoopHeld /\ [Next]_vars => [Undisturbed]_vars
<1> SUFFICES ASSUME TypeOK, LoopHeld, Next,
                    NEW c \in Conns, pc[c] = "infer", pc'[c] = "infer"
             PROVE  UNCHANGED <<resetBy, closed, shared>>
  BY DEF Undisturbed
<1>1. pc \in [Conns -> PCs] /\ loop = c /\ Idle \notin Conns
  BY ServerAssumption DEF TypeOK, LoopHeld
<1>2. ASSUME NEW d \in Conns, HandlerStep(d) PROVE FALSE
  <2>1. d = c
    BY <1>1, <1>2, SegmentLoop DEF CanRun
  <2>2. InferReturns(c) \/ InferFails(c)
    BY <1>2, <2>1 DEF HandlerStep, Accept, Reject, HandlerStart, MetadataFails,
                      SendReturns, SendRaises, RecvText, RecvJunk, RecvObs, RecvClosed,
                      CloseDone, Delivered
  <2>3. \E v \in {"done", "sendResult", "sendError"} : pc' = [pc EXCEPT ![c] = v]
    BY <2>2 DEF InferReturns, InferFails, ErrorReply, Leave
  <2> QED
    BY <1>1, <2>3
<1>3. ~Stop
  BY DEF Stop
<1>4. ASSUME \/ Interrupt \/ Kill
             \/ \E d \in Conns :
                    \/ Connect(d) \/ HandshakeAborts(d) \/ Lose(d) \/ TransportStep(d)
                    \/ \E kind \in ClientFrames : ClientSend(d, kind)
      PROVE  UNCHANGED <<resetBy, closed, shared>>
  BY <1>4 DEF Interrupt, Kill, Connect, HandshakeAborts, Lose, TransportStep, Notice,
              ServerCloses, ClientSend
<1> QED
  BY <1>2, <1>3, <1>4 DEF Next, Environment, Terminated, vars

\* The policy object is in one call at a time and undisturbed during it, for any
\* number of clients; and whoever has the loop is at a place where its own next
\* segment gives it back.  The first is what lets a policy do without a lock,
\* the second what the liveness of everybody else rests on.
THEOREM PolicyCalledByOne ==
    Spec => [](OneInference /\ LoopHeld) /\ [][Undisturbed]_vars
<1>1. Init => LoopHeld
  BY ServerAssumption DEF Init, Unused, LoopHeld
<1>2. LoopHeld => OneInference
  BY DEF LoopHeld, OneInference
<1>3. Counted => TypeOK
  BY DEF Counted
<1> QED
  BY <1>1, <1>2, <1>3, InitCounted, StepCounted, StepHeld, StepUndisturbed, PTL DEF Spec
=============================================================================
