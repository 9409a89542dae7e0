---------------------------- MODULE SlotPoolProofs ----------------------------
(***************************************************************************)
(* PolicyServer implements SlotPool: every behaviour of the server, seen   *)
(* through HeldBy and DeniedTo, is one of a pool of MaxConnections slots.  *)
(***************************************************************************)
EXTENDS PolicyServerProofs

\* A connection that has not been judged has no status.
Unjudged ==
    \A c \in Conns : pc[c] \in {"new", "opening"} => status[c] = "NONE"

\* The parts of the type invariant that the refinement uses.
LEMMA Types ==
    ASSUME Counted
    PROVE  pc \in [Conns -> PCs] /\ status \in [Conns -> Statuses]
BY DEF Counted, TypeOK

\* A connection that was not judged yet was told nothing.
LEMMA StepUnjudged == Counted /\ Unjudged /\ [Next]_vars => Unjudged'
<1> SUFFICES ASSUME Counted, Unjudged, [Next]_vars PROVE Unjudged'
  OBVIOUS
<1>1. pc \in [Conns -> PCs] /\ status \in [Conns -> Statuses]
  BY Types
<1> USE DEF Unjudged
<1>2. ASSUME NEW c \in Conns, Connect(c) \/ HandshakeAborts(c) PROVE Unjudged'
  <2>1. PICK v \in {"opening", "done"} : pc' = [pc EXCEPT ![c] = v]
    BY <1>2 DEF Connect, HandshakeAborts
  <2>2. UNCHANGED status /\ status[c] = "NONE"
    BY <1>2 DEF Connect, HandshakeAborts
  <2> QED
    BY <1>1, <2>1, <2>2
<1>3. ASSUME NEW c \in Conns, Accept(c) \/ Reject(c) PROVE Unjudged'
  <2>1. PICK v \in {"accepted", "done"} : pc' = [pc EXCEPT ![c] = v]
    BY <1>3 DEF Accept, Reject
  <2>2. \A d \in Conns \ {c} : status'[d] = status[d]
    BY <1>1, <1>3 DEF Accept, Reject
  <2> QED
    BY <1>1, <2>1, <2>2
<1>4. ASSUME NEW c \in Conns,
             \/ HandlerStart(c) \/ MetadataFails(c)
             \/ SendReturns(c) \/ SendRaises(c)
             \/ RecvText(c) \/ RecvJunk(c) \/ RecvObs(c) \/ RecvClosed(c)
             \/ InferReturns(c) \/ InferFails(c) \/ CloseDone(c)
      PROVE  Unjudged'
  <2>1. UNCHANGED status
    BY <1>4 DEF HandlerStart, MetadataFails, SendReturns, SendRaises, RecvText,
                RecvJunk, RecvObs, RecvClosed, InferReturns, InferFails,
                CloseDone
  <2>2. pc' = pc \/ \E v \in InHandler \cup {"done"} : pc' = [pc EXCEPT ![c] = v]
    BY <1>4 DEF HandlerStart, MetadataFails, SendReturns, SendRaises, RecvText,
                RecvJunk, RecvObs, RecvClosed, InferReturns, InferFails,
                CloseDone, ErrorReply, Leave, InHandler
  <2>3. "new" \notin InHandler \cup {"done"} /\ "opening" \notin InHandler \cup {"done"}
    BY DEF InHandler
  <2> QED
    BY <1>1, <2>1, <2>2, <2>3
<1>5. ASSUME \/ Interrupt \/ Kill \/ Stop \/ UNCHANGED vars
             \/ \E c \in Conns : \/ Lose(c) \/ Notice(c) \/ ServerCloses(c)
                                 \/ \E kind \in ClientFrames : ClientSend(c, kind)
      PROVE  Unjudged'
  <2>1. UNCHANGED <<pc, status>>
    BY <1>5 DEF Interrupt, Kill, Stop, vars, Lose, Notice, ServerCloses, ClientSend
  <2> QED
    BY <2>1
<1> QED
  BY <1>2, <1>3, <1>4, <1>5
  DEF Next, Environment, HandlerStep, TransportStep, Terminated

-----------------------------------------------------------------------------

\* When the loop is free for c, nobody else is between the test of the cap and
\* the increment, so the slots held are the handlers.
LEMMA HeldIsHandlers ==
    ASSUME CapInv, AtomicUpgrade, NEW c \in Conns, CanRun(c), pc[c] # "accepted"
    PROVE  HeldBy = Handlers
<1>1. \A d \in Conns : pc[d] # "accepted"
  BY ServerAssumption DEF CapInv, UpgradeGuarded, CanRun
<1> QED
  BY <1>1 DEF HeldBy, Handlers

\* The pool counts as the server does.
LEMMA SameCardinality == \A S : Pool!Cardinality(S) = Cardinality(S)
BY DEF Pool!Cardinality, Cardinality

\* Every step of the server is a step of the pool or leaves it unchanged.
LEMMA StepPool ==
    ASSUME AtomicUpgrade, CapInv, CapInv', Unjudged, [Next]_vars
    PROVE  [Pool!PoolNext]_(Pool!poolVars)
<1> DEFINE opened == srv = "serving"
<1>1. pc \in [Conns -> PCs] /\ status \in [Conns -> Statuses]
  BY Types DEF CapInv
<1> USE DEF Pool!PoolNext, Pool!poolVars
<1>2. ASSUME NEW c \in Conns, Accept(c) PROVE Pool!Acquire(c)
  <2>1. HeldBy = Handlers
    BY <1>2, HeldIsHandlers DEF Accept
  <2>2. active < MaxConnections /\ active = Cardinality(Handlers) /\ MaxConnections \in Nat /\ active \in Nat
    BY <1>2, PassMeansRoom, ServerAssumption, ZenonT(20)
    DEF CapInv, Counted, SlotAccounting, TypeOK, Accept
  <2>3. HeldBy' = HeldBy \cup {c}
    BY <1>1, <1>2 DEF Accept, HeldBy, InHandler
  <2>4. DeniedTo' = DeniedTo
    BY <1>1, <1>2 DEF Accept, DeniedTo, Unjudged
  <2>5. c \notin HeldBy \cup DeniedTo
    BY <1>2 DEF Accept, HeldBy, DeniedTo, InHandler, Unjudged
  <2>6. srv = "serving" /\ srv' = srv
    BY <1>2 DEF Accept
  <2>7. ~Pool!Full
    BY <2>1, <2>2, SameCardinality DEF Pool!Full
  <2> QED
    BY <2>3, <2>4, <2>5, <2>6, <2>7 DEF Pool!Acquire
<1>3. ASSUME NEW c \in Conns, Reject(c)
      PROVE  Pool!Deny(c) \/ UNCHANGED <<HeldBy, DeniedTo, opened>>
  <2>1. HeldBy' = HeldBy
    BY <1>1, <1>3 DEF Reject, HeldBy, InHandler
  <2>2. PICK answer \in Statuses : status' = [status EXCEPT ![c] = answer]
    <3>1. Verdict(request[c]) # "PASS" => Verdict(request[c]) \in Statuses
      BY DEF Verdict, CheckRequest, Statuses
    <3>2. "UNAVAILABLE" \in Statuses
      BY DEF Statuses
    <3> QED
      BY <1>3, <3>1, <3>2 DEF Reject
  <2>3. c \notin HeldBy \cup DeniedTo
    BY <1>3 DEF Reject, HeldBy, DeniedTo, InHandler, Unjudged
  <2>4. srv' = srv
    BY <1>3 DEF Reject
  <2>5. CASE answer # "UNAVAILABLE"
    BY <1>1, <2>1, <2>2, <2>3, <2>4, <2>5 DEF DeniedTo
  <2>6. CASE answer = "UNAVAILABLE"
    <3>1. DeniedTo' = DeniedTo \cup {c}
      BY <1>1, <2>2, <2>6 DEF DeniedTo
    <3>2. Pool!Full \/ srv # "serving"
      <4>1. CASE Verdict(request[c]) = "UNAVAILABLE"
        <5>1. active >= MaxConnections
          BY <4>1 DEF Verdict, CheckRequest, AtCapacity
        <5>2. HeldBy = Handlers
          BY <1>3, HeldIsHandlers DEF Reject
        <5> QED
          BY <5>1, <5>2, SameCardinality DEF Pool!Full, CapInv, Counted, SlotAccounting
      <4>2. CASE srv = "closing"
        BY <4>2
      <4> QED
        BY <1>1, <1>3, <2>2, <2>6, <4>1, <4>2 DEF Reject
    <3> QED
      BY <2>1, <2>3, <2>4, <3>1, <3>2 DEF Pool!Deny
  <2> QED
    BY <2>5, <2>6
<1>4. ASSUME NEW c \in Conns,
             \/ HandlerStart(c) \/ SendReturns(c) \/ SendRaises(c)
             \/ MetadataFails(c)
             \/ RecvText(c) \/ RecvJunk(c) \/ RecvObs(c) \/ RecvClosed(c)
             \/ InferReturns(c) \/ InferFails(c) \/ CloseDone(c)
      PROVE  Pool!Release(c) \/ UNCHANGED <<HeldBy, DeniedTo, opened>>
  <2>1. pc[c] \in InHandler \cup {"accepted"} /\ UNCHANGED <<status, srv>>
    BY <1>4 DEF HandlerStart, MetadataFails, SendReturns, SendRaises, RecvText,
                RecvJunk, RecvObs, RecvClosed, InferReturns, InferFails,
                CloseDone, Delivered, InHandler
  <2>2. \/ pc' = pc
        \/ pc' = [pc EXCEPT ![c] = "done"]
        \/ \E v \in InHandler : pc' = [pc EXCEPT ![c] = v]
    BY <1>4 DEF HandlerStart, MetadataFails, SendReturns, SendRaises, RecvText,
                RecvJunk, RecvObs, RecvClosed, InferReturns, InferFails,
                CloseDone, ErrorReply, Leave, InHandler
  <2>3. DeniedTo' = DeniedTo /\ UNCHANGED opened
    BY <2>1 DEF DeniedTo
  <2>4. CASE pc' = pc
    BY <2>3, <2>4 DEF HeldBy
  <2>5. CASE pc' = [pc EXCEPT ![c] = "done"]
    <3>1. HeldBy' = HeldBy \ {c} /\ c \in HeldBy
      BY <1>1, <2>1, <2>5 DEF HeldBy, InHandler
    <3> QED
      BY <2>1, <2>3, <3>1 DEF Pool!Release
  <2>6. ASSUME NEW v \in InHandler, pc' = [pc EXCEPT ![c] = v]
        PROVE  HeldBy' = HeldBy
    BY <1>1, <2>1, <2>6 DEF HeldBy
  <2> QED
    BY <2>2, <2>3, <2>4, <2>5, <2>6
<1>5. ASSUME NEW c \in Conns, Connect(c) \/ HandshakeAborts(c)
      PROVE  UNCHANGED <<HeldBy, DeniedTo, opened>>
  <2>1. PICK v \in {"opening", "done"} : pc' = [pc EXCEPT ![c] = v]
    BY <1>5 DEF Connect, HandshakeAborts
  <2>2. pc[c] \in {"new", "opening"} /\ UNCHANGED <<status, srv>>
    BY <1>5 DEF Connect, HandshakeAborts
  <2> QED
    BY <1>1, <2>1, <2>2 DEF HeldBy, DeniedTo, InHandler
<1>6. ASSUME \E c \in Conns : \/ Lose(c) \/ Notice(c) \/ ServerCloses(c)
                              \/ \E kind \in ClientFrames : ClientSend(c, kind)
      PROVE  UNCHANGED <<HeldBy, DeniedTo, opened>>
  <2>1. UNCHANGED <<pc, status, srv>>
    BY <1>6 DEF Lose, Notice, ServerCloses, ClientSend
  <2> QED
    BY <2>1 DEF HeldBy, DeniedTo
<1>7. ASSUME Interrupt \/ Kill \/ Stop \/ UNCHANGED vars
      PROVE  Pool!Shut \/ UNCHANGED <<HeldBy, DeniedTo, opened>>
  <2>1. UNCHANGED <<pc, status>>
    BY <1>7 DEF Interrupt, Kill, Stop, vars
  <2>2. srv' = srv \/ (srv # "serving" /\ srv' # "serving")
                   \/ (srv = "serving" /\ srv' # "serving")
    BY <1>7 DEF Interrupt, Kill, Stop, vars
  <2>3. HeldBy' = HeldBy /\ DeniedTo' = DeniedTo
    BY <2>1 DEF HeldBy, DeniedTo
  <2> QED
    BY <2>2, <2>3 DEF Pool!Shut
<1> QED
  BY <1>2, <1>3, <1>4, <1>5, <1>6, <1>7
  DEF Next, Environment, HandlerStep, TransportStep, Terminated

\* A server whose library does not suspend the upgrade is a slot pool.
THEOREM ServerImplementsPool ==
    ASSUME AtomicUpgrade
    PROVE  Spec => ImplementsPool
<1>1. Init => Unjudged /\ Pool!PoolInit
  <2> SUFFICES ASSUME Init PROVE Unjudged /\ Pool!PoolInit
    OBVIOUS
  <2>1. HeldBy = {} /\ DeniedTo = {}
    BY DEF Init, Unused, HeldBy, DeniedTo, InHandler
  <2> QED
    BY <2>1 DEF Init, Unused, Unjudged, Pool!PoolInit
<1>2. CapInv /\ CapInv' /\ Unjudged /\ [Next]_vars => [Pool!PoolNext]_(Pool!poolVars)
  BY StepPool
<1>3. CapInv => Counted
  BY DEF CapInv
<1> QED
  BY <1>1, <1>2, <1>3, InitCap, StepCap, StepUnjudged, PTL
  DEF Spec, ImplementsPool, Pool!PoolSpec
=============================================================================
