---------------------------- MODULE SimToolsProofs ----------------------------
(***************************************************************************)
(* Theorems about SimTools, for arms with any number of joints, any range  *)
(* of the grippers, any settings, recordings and horizons.                 *)
(***************************************************************************)
EXTENDS SimTools, TLAPS

-----------------------------------------------------------------------------
(* Units and order.                                                        *)

\* A multiple divided by its factor is what was multiplied.
LEMMA MultiplesDivide ==
    ASSUME NEW d \in Nat \ {0}, NEW q \in Int PROVE (q * d) \div d = q
OBVIOUS

\* A quotient of a bounded number is bounded.
LEMMA QuotientInRange ==
    ASSUME NEW d \in Nat \ {0}, NEW o \in Nat, NEW x \in 0..(o * d)
    PROVE  x \div d \in 0..o
OBVIOUS

\* Whatever a gripper is told in normalized values, it is sent within its range.
LEMMA GripInRange ==
    ASSUME NEW g \in Int PROVE GripNormToCtrl(g) \in 0..OpenCtrl
<1>1. Clip(g, OpenNorm) \in 0..OpenNorm /\ OpenNorm \in Nat
  BY RobotAssumption DEF Clip, OpenNorm
<1> QED
  BY <1>1, RobotAssumption, QuotientInRange DEF GripNormToCtrl, OpenNorm

\* To read a gripper and to command what was read is to clip it.
LEMMA GripRoundTrip ==
    ASSUME NEW q \in Int PROVE GripNormToCtrl(GripQposToNorm(q)) = Clip(q, OpenCtrl)
<1> DEFINE d == NormPerCtrl
<1>1. d \in Nat \ {0} /\ OpenCtrl \in Nat \ {0} /\ q * d \in Int /\ OpenNorm = OpenCtrl * d
  BY RobotAssumption DEF OpenNorm
<1>2. /\ q < 0 <=> q * d < 0
      /\ q > OpenCtrl <=> q * d > OpenCtrl * d
  BY <1>1
<1>3. /\ (q * d) \div d = q
      /\ (OpenCtrl * d) \div d = OpenCtrl
      /\ 0 \div d = 0
  BY <1>1, MultiplesDivide
<1>4. OpenNorm >= 0
  BY <1>1
<1>5. GripQposToNorm(q) = Clip(q * d, OpenNorm) /\ GripQposToNorm(q) \in 0..OpenNorm
  BY <1>1, <1>4 DEF GripQposToNorm, Clip
<1>6. Clip(GripQposToNorm(q), OpenNorm) = GripQposToNorm(q)
  BY <1>1, <1>5 DEF Clip
<1> QED
  BY <1>1, <1>2, <1>3, <1>5, <1>6 DEF GripNormToCtrl, Clip

\* Every joint has one place in the layout.
LEMMA LayoutIsOnto ==
    /\ Range(QposOrder) = Joints
    /\ \A i, j \in 1..Dim : QposOrder[i] = QposOrder[j] => i = j
    /\ \A i \in 1..Dim : QposOrder[i][2] = Grip <=> IsGrip(i)
<1>1. ArmJoints \in Nat \ {0} /\ Grip = ArmJoints + 1 /\ Dim = 2 * Grip
  BY RobotAssumption DEF Grip, Dim
<1>2. \A i \in 1..Dim : QposOrder[i] \in Joints
  BY <1>1 DEF QposOrder, Joints
<1>3. \A n \in Joints : \E i \in 1..Dim : QposOrder[i] = n
  <2> SUFFICES ASSUME NEW s \in {"left", "right"}, NEW m \in 1..Grip
               PROVE  \E i \in 1..Dim : QposOrder[i] = <<s, m>>
    BY DEF Joints
  <2>1. CASE s = "left"
    <3>1. m \in 1..Dim /\ QposOrder[m] = <<s, m>>
      BY <1>1, <2>1 DEF QposOrder
    <3> QED
      BY <3>1
  <2>2. CASE s = "right"
    <3>1. m + Grip \in 1..Dim /\ QposOrder[m + Grip] = <<s, m>>
      BY <1>1, <2>2 DEF QposOrder
    <3> QED
      BY <3>1
  <2> QED
    BY <2>1, <2>2
<1>4. DOMAIN QposOrder = 1..Dim
  BY DEF QposOrder
<1>5. Range(QposOrder) = Joints
  BY <1>2, <1>3, <1>4 DEF Range
<1>6. ASSUME NEW i \in 1..Dim, NEW j \in 1..Dim, QposOrder[i] = QposOrder[j]
      PROVE  i = j
  BY <1>1, <1>6 DEF QposOrder
<1>7. ASSUME NEW i \in 1..Dim PROVE QposOrder[i][2] = Grip <=> IsGrip(i)
  BY <1>1 DEF QposOrder, IsGrip
<1> QED
  BY <1>5, <1>6, <1>7

\* What is written in the layout is found in its place.
LEMMA PlacedInOrder ==
    ASSUME NEW v, NEW i \in 1..Dim
    PROVE  Placed(QposOrder, v)[QposOrder[i]] = v[i]
<1>1. QposOrder[i] \in Range(QposOrder)
  BY DEF Range, QposOrder
<1>2. (CHOOSE j \in 1..Dim : QposOrder[j] = QposOrder[i]) = i
  BY LayoutIsOnto
<1> QED
  BY <1>1, <1>2 DEF Placed

\* Actuators and joints have the same layout.
LEMMA CommandIsPose ==
    ASSUME NEW a PROVE Command(a) = Pose(a)
BY DEF Command, Pose, ActOrder, QposOrder
\* Every joint n of a pose: told where to stand in normalized units.
LEMMA PoseIsReachable ==
    ASSUME NEW v \in [1..Dim -> Int]
    PROVE  /\ Pose(v) \in [Joints -> Int]
           /\ \A n \in Joints : Reachable(n, Pose(v)[n]) = Pose(v)[n]
<1> DEFINE w == InCtrlUnits(v)
<1>1. ASSUME NEW n \in Joints
      PROVE  Pose(v)[n] \in Int /\ Reachable(n, Pose(v)[n]) = Pose(v)[n]
  <2>1. PICK i \in 1..Dim : QposOrder[i] = n
    BY LayoutIsOnto DEF Range, QposOrder
  <2>2. Pose(v)[n] = w[i]
    BY <2>1, PlacedInOrder DEF Pose
  <2>3. v[i] \in Int
    OBVIOUS
  <2>4. CASE IsGrip(i)
    <3>1. w[i] = GripNormToCtrl(v[i]) /\ n[2] = Grip
      BY <2>1, <2>4, LayoutIsOnto DEF InCtrlUnits
    <3>2. w[i] \in 0..OpenCtrl
      BY <2>3, <3>1, GripInRange
    <3> HIDE DEF w
    <3> QED
      BY <2>2, <3>1, <3>2, RobotAssumption DEF Reachable, Clip
  <2>5. CASE ~IsGrip(i)
    <3>1. w[i] = v[i] /\ n[2] # Grip
      BY <2>1, <2>5, LayoutIsOnto DEF InCtrlUnits
    <3> QED
      BY <2>2, <2>3, <3>1 DEF Reachable
  <2> QED
    BY <2>4, <2>5
<1>2. Pose(v) = [n \in Joints |-> Pose(v)[n]]
  BY LayoutIsOnto DEF Pose, Placed
<1> QED
  BY <1>1, <1>2

\* To command the state that was read is to command where the joints stand.
LEMMA StateRoundTrip ==
    ASSUME NEW q \in [Joints -> Int], NEW n \in Joints
    PROVE  Command(ReadState14(q))[n] = Reachable(n, q[n])
<1> DEFINE v == ReadState14(q)
           w == InCtrlUnits(v)
<1>1. PICK i \in 1..Dim : QposOrder[i] = n
  BY LayoutIsOnto DEF Range, QposOrder
<1>2. Command(v)[n] = w[i]
  BY <1>1, PlacedInOrder, CommandIsPose DEF Pose
<1>3. CASE IsGrip(i)
  <2>1. w[i] = GripNormToCtrl(GripQposToNorm(q[n])) /\ n[2] = Grip
    BY <1>1, <1>3, LayoutIsOnto DEF InCtrlUnits, ReadState14
  <2> QED
    BY <1>2, <2>1, GripRoundTrip DEF Reachable
<1>4. CASE ~IsGrip(i)
  <2>1. w[i] = q[n] /\ n[2] # Grip
    BY <1>1, <1>4, LayoutIsOnto DEF InCtrlUnits, ReadState14
  <2> QED
    BY <1>2, <2>1 DEF Reachable
<1> QED
  BY <1>3, <1>4

-----------------------------------------------------------------------------
(* The echo.                                                               *)

\* The columns of the chunk are as many as the settings say.
LEMMA EchoWidth ==
    ASSUME NEW p, IsLength(p.action_dim), NEW state
    PROVE  Len(EchoRow(p, state)) = p.action_dim.val
<1>1. p.action_dim.val \in Nat
  BY DEF IsLength
<1> QED
  BY <1>1 DEF EchoRow

\* A row as wide as the state is the state.
LEMMA EchoIsState ==
    ASSUME NEW p, p.action_dim.val = Dim, NEW q
    PROVE  EchoRow(p, ReadState14(q)) = ReadState14(q)
<1>1. Dim \in Nat
  BY RobotAssumption DEF Dim, Grip
<1>2. ReadState14(q) = [i \in 1..Dim |-> ReadState14(q)[i]] /\ Len(ReadState14(q)) = Dim
  BY <1>1 DEF ReadState14
<1> QED
  BY <1>1, <1>2 DEF EchoRow

\* An echo that passes the assertion on its length holds the pose.
LEMMA EchoHolds ==
    ASSUME NEW p, IsLength(p.action_dim), NEW q \in [Joints -> Int],
           Len(EchoRow(p, ReadState14(q))) = Dim, NEW n \in Joints
    PROVE  Command(EchoRow(p, ReadState14(q)))[n] = Reachable(n, q[n])
BY EchoWidth, EchoIsState, StateRoundTrip

-----------------------------------------------------------------------------
(* The simulation.                                                         *)

\* The simulation has asked for no chunk yet.
Unasked == chunk = NoChunk /\ h = 0

\* The chunk is the echo of the pose it was asked in.
Asked ==
    /\ mode = "policy" /\ server = "up" /\ Infers(policy)
    /\ chunk = Chunk(policy, ReadState14(asked))
    /\ h > 0 /\ sim # "failed" =>
          Len(chunk.row) = Dim /\ ctrl = Command(chunk.row)

\* Before the first tick the arms stand in the pose of the first action.
Posed ==
    /\ sim = "off" => k = 0 /\ Unasked
    /\ sim = "running" /\ k = 0 => qpos = Pose(first) /\ (Unasked \/ asked = qpos)

ToolsInv ==
    /\ qpos \in [Joints -> Int] /\ asked \in [Joints -> Int]
    /\ k \in Nat /\ h \in Nat
    /\ first \in [1..Dim -> Int]
    /\ stream \in [1..Frames -> [1..Dim -> Int]]
    /\ source = "actions" => stream[1] = first
    /\ Unasked \/ Asked
    /\ Posed

\* Nothing has been run yet.
LEMMA InitTools == ASSUME Init PROVE ToolsInv
<1>1. Actions \subseteq [1..Dim -> Int]
  BY ToolsAssumption
<1> QED
  BY <1>1 DEF Init, ToolsInv, Unasked, Posed, AtRest

\* A command that is executed, or an assertion that fails.
LEMMA StepExecutes ==
    ASSUME NEW a, Execute(a), qpos \in [Joints -> Int], k \in Nat
    PROVE  \/ /\ Len(a) = Dim /\ ctrl' = Command(a) /\ sim' = sim
              /\ qpos' \in [Joints -> Int] /\ k' = k + 1
           \/ Len(a) # Dim /\ sim' = "failed" /\ qpos' = qpos /\ k' = k /\ ctrl' = ctrl
BY ToolsAssumption DEF Execute

\* chunk[h] is a row of the echo: no index past the end.
LEMMA RowThere == ASSUME ToolsInv, ChunkAction PROVE Asked /\ h < chunk.rows
<1>1. ActionHorizon \in Int /\ h \in Nat
  BY ToolsAssumption DEF ToolsInv
<1>2. Asked
  BY <1>1 DEF ChunkAction, InChunk, ToExecute, Unasked, NoChunk, ToolsInv
<1>3. chunk.rows \in Int
  BY <1>2 DEF Asked, Infers, IsCount, IsLength, Chunk
<1> QED
  BY <1>1, <1>2, <1>3 DEF ChunkAction, InChunk, ToExecute

\* Each program keeps the pose, the chunk and the command in step.
LEMMA StepTools == ASSUME ToolsInv, [Next]_vars PROVE ToolsInv'
<1> USE DEF ToolsInv
<1>1. CASE Launch
  <2>1. Unasked /\ UNCHANGED <<simVars, smoke>>
    BY <1>1 DEF Launch, Asked
  <2> QED
    BY <2>1 DEF simVars, runVars, Unasked, Posed
<1>2. CASE Smoke
  BY <1>2 DEF Smoke, policyVars, simVars, runVars, Unasked, Asked, Posed
<1>3. CASE InitToFirstFrame
  <2>1. qpos' = Pose(first) /\ qpos' \in [Joints -> Int]
    BY <1>3, PoseIsReachable DEF InitToFirstFrame
  <2> QED
    BY <1>3, <2>1 DEF InitToFirstFrame, policyVars, runVars, Unasked, Posed
<1>4. CASE Replay
  <2>1. /\ Execute(stream[k + 1]) /\ UNCHANGED <<policyVars, runVars, h, chunk, asked>>
        /\ mode = "replay" /\ sim = "running"
    BY <1>4 DEF Replay
  <2>2. Unasked
    BY <2>1 DEF Asked
  <2> QED
    BY <2>1, <2>2, StepExecutes DEF policyVars, runVars, Unasked, Posed
<1>5. CASE Ask
  <2>1. UNCHANGED <<policyVars, runVars, k, qpos, ctrl>>
    BY <1>5 DEF Ask
  <2>2. CASE Infers(policy)
    BY <1>5, <2>1, <2>2 DEF Ask, policyVars, runVars, Asked, Posed
  <2>3. CASE ~Infers(policy)
    BY <1>5, <2>1, <2>3 DEF Ask, policyVars, runVars, Unasked, Asked, Posed
  <2> QED
    BY <2>2, <2>3
<1>6. CASE ChunkAction
  <2>1. /\ UNCHANGED <<policyVars, runVars, chunk, asked>>
        /\ sim = "running" /\ h' = h + 1
    BY <1>6 DEF ChunkAction
  <2>2. Asked /\ h < chunk.rows
    BY <1>6, RowThere
  <2>3. Execute(chunk.row)
    BY <1>6, <2>2 DEF ChunkAction
  <2> QED
    BY <2>1, <2>2, <2>3, StepExecutes DEF policyVars, runVars, Asked, Posed
<1>7. CASE Finish
  BY <1>7 DEF Finish, policyVars, runVars, Unasked, Asked, Posed
<1>8. CASE UNCHANGED vars
  BY <1>8 DEF vars, policyVars, simVars, runVars, Unasked, Asked, Posed
<1> QED
  BY <1>1, <1>2, <1>3, <1>4, <1>5, <1>6, <1>7, <1>8 DEF Next
-----------------------------------------------------------------------------
(* What the tools promise.                                                 *)

\* The first command is the pose the arms stand in, joint by joint, for the
\* recording and for the echo; for every number of joints and every gripper.
THEOREM NobodyIsJolted == Spec => NoJolt
<1>1. ASSUME ToolsInv, [Next]_vars, k = 0, k' = 1,
             mode = "replay" => source = "actions", NEW n \in Joints
      PROVE  ctrl'[n] = qpos[n]
  <2>1. first \in [1..Dim -> Int] /\ qpos \in [Joints -> Int]
    BY <1>1 DEF ToolsInv
  <2>2. Replay \/ ChunkAction
    BY <1>1 DEF Next, Launch, Smoke, InitToFirstFrame, Ask, Finish, simVars, vars
  <2>3. CASE Replay
    <3>1. Execute(first) /\ qpos = Pose(first)
      BY <1>1, <2>3 DEF Replay, ToolsInv, Posed
    <3>2. ctrl' = Command(first)
      BY <1>1, <2>1, <3>1, StepExecutes
    <3> QED
      BY <3>1, <3>2, CommandIsPose
  <2>4. CASE ChunkAction
    <3>1. Asked /\ sim = "running" /\ qpos = Pose(first)
      BY <1>1, <2>4, RowThere DEF ChunkAction, ToolsInv, Posed
    <3>2. asked = qpos
      <4>1. ~Unasked
        BY <1>1, <2>4, ToolsAssumption
        DEF ChunkAction, InChunk, ToExecute, Unasked, NoChunk
      <4> QED
        BY <1>1, <3>1, <4>1 DEF ToolsInv, Posed
    <3>3. Execute(chunk.row)
      BY <1>1, <2>4 DEF ChunkAction, Execute
    <3>4. Len(chunk.row) = Dim /\ ctrl' = Command(chunk.row)
      BY <1>1, <2>1, <3>3, StepExecutes
    <3>5. chunk.row = EchoRow(policy, ReadState14(qpos)) /\ IsLength(policy.action_dim)
      BY <3>1, <3>2 DEF Asked, Chunk, Infers
    <3>6. ctrl'[n] = Reachable(n, qpos[n])
      BY <2>1, <3>4, <3>5, EchoHolds
    <3> QED
      BY <2>1, <3>1, <3>6, PoseIsReachable
  <2> QED
    BY <2>2, <2>3, <2>4
<1>2. ToolsInv /\ [Next]_vars =>
        [k = 0 /\ k' = 1 /\ (mode = "replay" => source = "actions") =>
            \A n \in Joints : ctrl'[n] = qpos[n]]_vars
  BY <1>1
<1> QED
  BY <1>2, InitTools, StepTools, PTL DEF Spec, NoJolt

\* The echo policy holds the arms in the pose they were seen in, wherever
\* physics has taken them; a gripper that is beyond its range goes to its end.
THEOREM EchoHoldsStill == Spec => []HoldsStill
<1>1. ASSUME ToolsInv PROVE HoldsStill
  <2> SUFFICES ASSUME mode = "policy", sim # "failed", h > 0, NEW n \in Joints
               PROVE  ctrl[n] = Reachable(n, asked[n])
    BY DEF HoldsStill
  <2>1. Asked /\ asked \in [Joints -> Int]
    BY <1>1 DEF ToolsInv, Unasked
  <2>2. /\ chunk.row = EchoRow(policy, ReadState14(asked))
        /\ IsLength(policy.action_dim)
        /\ Len(chunk.row) = Dim /\ ctrl = Command(chunk.row)
    BY <2>1 DEF Asked, Chunk, Infers
  <2> QED
    BY <2>1, <2>2, EchoHolds
<1> QED
  BY <1>1, InitTools, StepTools, PTL DEF Spec

\* What a verdict says of the policy, and what a failure says of it.
Judged ==
    /\ smoke.verdict = "PASS" =>
          server = "up" /\ Infers(policy) /\ smoke.cols = policy.action_dim.val
    /\ sim = "failed" =>
          server = "up" /\ (Infers(policy) => policy.action_dim.val # Dim)

\* Smoke tests and failures are judged against the policy that is served.
LEMMA StepJudged == ASSUME ToolsInv, Judged, [Next]_vars PROVE Judged'
<1> USE DEF Judged
<1>1. CASE Launch
  BY <1>1 DEF Launch, simVars
<1>2. CASE Smoke
  <2>1. Infers(policy) =>
          Len(Chunk(policy, [i \in 1..policy.state_dim.val |-> 0]).row) = policy.action_dim.val
    BY EchoWidth DEF Infers, Chunk
  <2> QED
    BY <1>2, <2>1 DEF Smoke, policyVars, simVars, NoVerdict
<1>3. CASE InitToFirstFrame \/ Finish
  BY <1>3 DEF InitToFirstFrame, Finish, policyVars
<1>4. CASE Replay
  <2>1. /\ Execute(stream[k + 1]) /\ stream[k + 1] \in [1..Dim -> Int]
        /\ qpos \in [Joints -> Int] /\ k \in Nat /\ UNCHANGED <<policyVars, smoke>>
    BY <1>4, ToolsAssumption DEF Replay, ToolsInv
  <2>2. Len(stream[k + 1]) = Dim
    BY <2>1, RobotAssumption DEF Dim, Grip
  <2> QED
    BY <2>1, <2>2, StepExecutes DEF policyVars
<1>5. CASE Ask
  BY <1>5 DEF Ask, policyVars
<1>6. CASE ChunkAction
  <2>1. Asked /\ h < chunk.rows
    BY <1>6, RowThere
  <2>2. /\ Execute(chunk.row) /\ UNCHANGED <<policyVars, smoke>>
        /\ qpos \in [Joints -> Int] /\ k \in Nat
    BY <1>6, <2>1 DEF ChunkAction, ToolsInv
  <2>3. Len(chunk.row) = policy.action_dim.val
    BY <2>1, EchoWidth DEF Asked, Chunk, Infers
  <2> QED
    BY <2>1, <2>2, <2>3, StepExecutes DEF policyVars, Asked
<1>7. CASE UNCHANGED vars
  BY <1>7 DEF vars, policyVars, simVars
<1> QED
  BY <1>1, <1>2, <1>3, <1>4, <1>5, <1>6, <1>7 DEF Next

\* A smoke test that passes with the right width foretells the simulation, for
\* every command line, before and after it.
THEOREM SmokeIsRight == Spec => []SmokeForetellsSim
<1>1. Init => Judged
  BY DEF Init, Judged, NoVerdict
<1>2. Judged => SmokeForetellsSim
  BY DEF Judged, SmokeForetellsSim
<1> QED
  BY <1>1, <1>2, InitTools, StepTools, StepJudged, PTL DEF Spec
=============================================================================
