---------------------------- MODULE RolloutProofs -----------------------------
(***************************************************************************)
(* Theorems about Rollout, for any recording, any chunk lengths, any       *)
(* inference delays and any control and frame periods.                     *)
(***************************************************************************)
EXTENDS Rollout, TLAPS

Actions == [obs : Nat, idx : Nat, at : Nat]

\* Every statement block keeps the types.
LEMMA StepTypes == TypeOK /\ [Next]_vars => TypeOK'
<1> SUFFICES ASSUME TypeOK, [Next]_vars PROVE TypeOK'
  OBVIOUS
<1>1. /\ step \in Nat /\ period \in Nat /\ wall \in Nat /\ time \in Nat
      /\ next \in Nat /\ k \in Nat /\ h \in Nat /\ obs \in Nat /\ Frames \in Nat
      /\ executed \in Seq(Actions) /\ captured \in Seq(Nat)
  BY RolloutAssumption DEF TypeOK, Actions
<1>2. ASSUME NEW frame \in Nat, NEW idx \in Nat, Execute(frame, idx), GoesOn
      PROVE  /\ wall' \in Nat /\ time' \in Nat /\ next' \in Nat
             /\ k' \in 0..Frames
             /\ executed' \in Seq(Actions) /\ captured' \in Seq(Nat)
  <2>1. wall' \in Nat
    BY <1>1, <1>2 DEF Execute, SleepUntilDue, Due
  <2>2. [obs |-> frame, idx |-> idx, at |-> wall'] \in Actions
    BY <2>1 DEF Actions
  <2>3. executed' \in Seq(Actions)
    BY <1>1, <1>2, <2>2 DEF Execute
  <2>4. time' \in Nat
    BY <1>1, <1>2 DEF Execute
  <2>5. captured' \in Seq(Nat) /\ next' \in Nat
    <3>1. CASE captured' = Append(captured, time') /\ next' = next + period
      BY <1>1, <2>4, <3>1
    <3>2. CASE UNCHANGED <<captured, next>>
      BY <1>1, <3>2
    <3> QED
      BY <1>2, <3>1, <3>2 DEF Execute, Sync
  <2>6. k' \in 0..Frames
    BY <1>1, <1>2 DEF Execute, GoesOn, TypeOK
  <2> QED
    BY <2>1, <2>3, <2>4, <2>5, <2>6
<1>3. ASSUME ReplayFrame PROVE TypeOK'
  <2>1. /\ wall' \in Nat /\ time' \in Nat /\ next' \in Nat
        /\ k' \in 0..Frames
        /\ executed' \in Seq(Actions) /\ captured' \in Seq(Nat)
    BY <1>1, <1>2, <1>3 DEF ReplayFrame
  <2> QED
    BY <1>3, <2>1 DEF TypeOK, ReplayFrame, confVars, Actions
<1>4. ASSUME ChunkAction PROVE TypeOK'
  <2>1. /\ wall' \in Nat /\ time' \in Nat /\ next' \in Nat
        /\ k' \in 0..Frames
        /\ executed' \in Seq(Actions) /\ captured' \in Seq(Nat)
    BY <1>1, <1>2, <1>4 DEF ChunkAction
  <2> QED
    BY <1>1, <1>4, <2>1 DEF TypeOK, ChunkAction, confVars, Actions
<1>5. ASSUME Answer PROVE TypeOK'
  <2>1. H' \in Int
    BY <1>5, RolloutAssumption DEF Answer, ToExecute, Shorter
  <2>2. wall' \in Nat /\ h' \in Nat
    BY <1>1, <1>5, RolloutAssumption DEF Answer, FirstAction
  <2> QED
    BY <1>5, <2>1, <2>2 DEF TypeOK, Answer, confVars, simVars
<1>6. ASSUME Ask PROVE TypeOK'
  BY <1>6, SMTT(40) DEF TypeOK, Ask, confVars, simVars
<1>7. ASSUME AnswerFails \/ ChunkEnds \/ Finish \/ CloseViewer \/ Interrupt
             \/ UNCHANGED vars
      PROVE  TypeOK'
  <2>1. UNCHANGED <<confVars, loopVars, wall, simVars>>
    BY <1>7 DEF AnswerFails, ChunkEnds, Finish, CloseViewer, Interrupt, vars
  <2>2. /\ pc' \in {"loop", "wait", "chunk", "done", "failed"}
        /\ running' \in BOOLEAN /\ closed' \in BOOLEAN
    BY <1>7
    DEF TypeOK, AnswerFails, ChunkEnds, Finish, CloseViewer, Interrupt, vars
  <2> QED
    BY <2>1, <2>2 DEF TypeOK, confVars, loopVars, simVars
<1> QED
  BY <1>3, <1>4, <1>5, <1>6, <1>7 DEF Next, Program, Ended

\* The first state is well typed.
LEMMA InitTypes == Init => TypeOK
<1> SUFFICES ASSUME Init PROVE TypeOK
  OBVIOUS
<1>1. executed \in Seq([obs : Nat, idx : Nat, at : Nat]) /\ captured \in Seq(Nat)
  BY DEF Init
<1>2. k \in 0..Frames /\ obs \in 0..Frames
  BY RolloutAssumption DEF Init
<1>3. h \in Nat /\ H \in Int /\ wall \in Nat /\ time \in Nat /\ next \in Nat
  BY DEF Init
<1>4. running \in BOOLEAN /\ closed \in BOOLEAN
  BY DEF Init
<1> QED
  BY <1>1, <1>2, <1>3, <1>4 DEF Init, TypeOK

\* The loop's variables have their types; the frame counter stays inside the
\* recording.
THEOREM RolloutTypeCorrect == Spec => []TypeOK
BY InitTypes, StepTypes, PTL DEF Spec

-----------------------------------------------------------------------------
(* Which action is executed at which frame, and when.                      *)

\* The policy was asked for the frame the loop is at; h counts the frames
\* executed since.
InChunk ==
    /\ pc = "wait" => obs = k
    /\ pc = "chunk" => obs + h = k /\ H <= ActionHorizon

LoopInv == TypeOK /\ InChunk /\ ActionsAligned /\ NeverEarly

\* Executing an action appends exactly one record to the log.
LEMMA Recorded ==
    ASSUME LoopInv, NEW frame \in Nat, NEW idx \in Nat, Execute(frame, idx),
           mode' = mode, sink' = sink, frame + idx = k,
           mode = "policy" => idx < ActionHorizon
    PROVE  ActionsAligned' /\ NeverEarly'
<1>1. /\ executed \in Seq(Actions) /\ k \in Nat /\ wall \in Nat
      /\ Len(executed) = k
      /\ \A i \in 1..Len(executed) :
             /\ executed[i].obs + executed[i].idx = i - 1
             /\ mode = "policy" => executed[i].idx < ActionHorizon
      /\ sink = "viewer" => \A i \in 1..Len(executed) : executed[i].at >= i - 1
  <2>1. executed \in Seq(Actions) /\ k \in Nat /\ wall \in Nat
    BY DEF LoopInv, TypeOK, Actions
  <2>2. ActionsAligned /\ NeverEarly
    BY DEF LoopInv
  <2> QED
    BY <2>1, <2>2 DEF ActionsAligned, NeverEarly
<1> DEFINE action == [obs |-> frame, idx |-> idx, at |-> wall']
<1>2. executed' = Append(executed, action) /\ k' = k + 1
  BY DEF Execute
<1>3. sink = "viewer" => wall' >= k
  BY <1>1 DEF Execute, SleepUntilDue, Due
<1>4. wall' \in Nat
  BY <1>1 DEF Execute, SleepUntilDue, Due
<1>5. action \in Actions
  BY <1>4 DEF Actions
<1>6. Len(executed') = k + 1
  BY <1>1, <1>2, <1>5
<1>7. \A i \in 1..k : executed'[i] = executed[i]
  BY <1>1, <1>2, <1>5
<1>8. executed'[k + 1] = action
  BY <1>1, <1>2, <1>5, SMTT(40)
<1>9. \A i \in 1..(k + 1) : i \in 1..k \/ i = k + 1
  BY <1>1
<1> HIDE DEF action
<1>10. action.obs + action.idx = k /\ (mode = "policy" => action.idx < ActionHorizon)
       /\ action.at = wall'
  BY DEF action
<1>11. ActionsAligned'
  <2> SUFFICES ASSUME NEW i \in 1..(k + 1)
               PROVE  /\ executed'[i].obs + executed'[i].idx = i - 1
                      /\ mode = "policy" => executed'[i].idx < ActionHorizon
    BY <1>1, <1>2, <1>6 DEF ActionsAligned
  <2>1. CASE i \in 1..k
    BY <1>1, <1>7, <2>1
  <2>2. CASE i = k + 1
    BY <1>1, <1>8, <1>10, <2>2
  <2> QED
    BY <1>9, <2>1, <2>2
<1>12. NeverEarly'
  <2> SUFFICES ASSUME NEW i \in 1..(k + 1), sink = "viewer"
               PROVE  executed'[i].at >= i - 1
    BY <1>1, <1>6 DEF NeverEarly
  <2>1. CASE i \in 1..k
    BY <1>1, <1>7, <2>1
  <2>2. CASE i = k + 1
    BY <1>1, <1>3, <1>8, <1>10, <2>2
  <2> QED
    BY <1>9, <2>1, <2>2
<1> QED
  BY <1>11, <1>12

\* Every statement block keeps frame, chunk and wall clock aligned.
LEMMA StepLoop == LoopInv /\ [Next]_vars => LoopInv'
<1> SUFFICES ASSUME LoopInv, [Next]_vars PROVE InChunk' /\ ActionsAligned' /\ NeverEarly'
  BY StepTypes DEF LoopInv
<1>1. k \in Nat /\ h \in Nat /\ obs \in Nat /\ H \in Int /\ ActionHorizon \in Int
  BY RolloutAssumption DEF LoopInv, TypeOK
<1>2. ASSUME ReplayFrame PROVE InChunk' /\ ActionsAligned' /\ NeverEarly'
  <2>1. ActionsAligned' /\ NeverEarly'
    BY <1>1, <1>2, Recorded DEF ReplayFrame, confVars
  <2> QED
    BY <1>2, <2>1 DEF ReplayFrame, InChunk
<1>3. ASSUME ChunkAction PROVE InChunk' /\ ActionsAligned' /\ NeverEarly'
  <2>1. obs + h = k /\ h < ActionHorizon
    BY <1>1, <1>3 DEF ChunkAction, LoopInv, InChunk
  <2>2. ActionsAligned' /\ NeverEarly'
    BY <1>1, <1>3, <2>1, Recorded DEF ChunkAction, confVars
  <2>3. k' = k + 1 /\ h' = h + 1 /\ UNCHANGED <<pc, obs, H>>
    BY <1>3 DEF ChunkAction, Execute
  <2> QED
    BY <1>1, <1>3, <2>1, <2>2, <2>3 DEF ChunkAction, LoopInv, InChunk
<1>4. ASSUME Answer PROVE InChunk' /\ ActionsAligned' /\ NeverEarly'
  <2>1. /\ pc = "wait" /\ pc' = "chunk" /\ h' = 0 /\ obs = k
        /\ UNCHANGED <<confVars, k, obs, executed>>
    BY <1>4 DEF Answer, FirstAction, simVars, LoopInv, InChunk
  <2>2. H' <= ActionHorizon
    BY <1>1, <1>4, RolloutAssumption DEF Answer, ToExecute, Shorter
  <2> QED
    BY <1>1, <2>1, <2>2
    DEF LoopInv, InChunk, ActionsAligned, NeverEarly, confVars
<1>5. ASSUME Ask PROVE InChunk' /\ ActionsAligned' /\ NeverEarly'
  BY <1>5 DEF Ask, LoopInv, InChunk, ActionsAligned, NeverEarly, confVars, simVars
<1>6. ASSUME AnswerFails \/ ChunkEnds \/ Finish \/ Interrupt
      PROVE  InChunk' /\ ActionsAligned' /\ NeverEarly'
  <2>1. pc' \in {"loop", "done", "failed"}
        /\ UNCHANGED <<confVars, loopVars, wall, simVars>>
    BY <1>6 DEF AnswerFails, ChunkEnds, Finish, Interrupt
  <2> QED
    BY <2>1
    DEF LoopInv, InChunk, ActionsAligned, NeverEarly, confVars, loopVars, simVars
<1>7. ASSUME CloseViewer \/ UNCHANGED vars
      PROVE  InChunk' /\ ActionsAligned' /\ NeverEarly'
  <2>1. UNCHANGED <<confVars, pc, loopVars, wall, simVars>>
    BY <1>7 DEF CloseViewer, vars
  <2> QED
    BY <2>1
    DEF LoopInv, InChunk, ActionsAligned, NeverEarly, confVars, loopVars, simVars
<1> QED
  BY <1>2, <1>3, <1>4, <1>5, <1>6, <1>7 DEF Next, Program, Ended

\* The loop invariant holds throughout a rollout.
LEMMA LoopInvariant == Spec => []LoopInv
<1>1. Init => LoopInv
  <2> SUFFICES ASSUME Init PROVE LoopInv
    OBVIOUS
  <2>1. Len(executed) = 0 /\ k = 0
    BY DEF Init
  <2> QED
    BY <2>1, InitTypes DEF Init, LoopInv, InChunk, ActionsAligned, NeverEarly
<1> QED
  BY <1>1, StepLoop, PTL DEF Spec

\* The action executed at a frame is the one meant for that frame, and its
\* observation is less than ActionHorizon frames old.
THEOREM ActionsAreAligned == Spec => []ActionsAligned
<1>1. LoopInv => ActionsAligned
  BY DEF LoopInv
<1> QED
  BY <1>1, LoopInvariant, PTL

\* With a viewer no action is executed before its time, however the policy's
\* answers are delayed.
THEOREM ActionsAreNeverEarly == Spec => []NeverEarly
<1>1. LoopInv => NeverEarly
  BY DEF LoopInv
<1> QED
  BY <1>1, LoopInvariant, PTL

-----------------------------------------------------------------------------
(* The video gate.                                                         *)

Latest == captured[Len(captured)]

\* What ties the gate of _VideoSink to the simulation's clock and to the last
\* picture.
Gate ==
    sink = "video" =>
        /\ next = Len(captured) * period
        /\ next - period <= time
        /\ step <= period => time <= next
        /\ k = 0 => captured = <<>> /\ time = 0
        /\ k > 0 => /\ captured # <<>>
                    /\ next <= Latest + period
                    /\ time <= Latest + period

GateInv == TypeOK /\ Gate

\* A control tick keeps the video gate within a period of the clock.
LEMMA GateAfterExecute ==
    ASSUME GateInv, NEW frame, NEW idx, Execute(frame, idx),
           UNCHANGED confVars
    PROVE  Gate'
<1> SUFFICES ASSUME sink = "video" PROVE Gate'
  BY DEF Gate, confVars
<1>1. /\ step \in Nat /\ period \in Nat /\ step > 0 /\ period > 0
      /\ time \in Nat /\ next \in Nat /\ k \in Nat
      /\ captured \in Seq(Nat) /\ Len(captured) \in Nat
      /\ time' = time + step /\ k' = k + 1
      /\ UNCHANGED <<sink, step, period>>
  BY RolloutAssumption DEF GateInv, TypeOK, Execute, confVars
<1>2. /\ next = Len(captured) * period
      /\ next - period <= time
      /\ step <= period => time <= next
      /\ k = 0 => captured = <<>> /\ time = 0
      /\ k > 0 => /\ captured # <<>>
                  /\ next <= Latest + period
                  /\ time <= Latest + period
  BY DEF GateInv, Gate
<1>3. CASE time' >= next
  <2>1. captured' = Append(captured, time') /\ next' = next + period
    BY <1>3 DEF Execute, Sync
  <2>2. Len(captured') = Len(captured) + 1 /\ captured' # <<>>
    BY <1>1, <2>1
  <2>3. Latest' = time'
    BY <1>1, <2>1, <2>2 DEF Latest
  <2>4. (Len(captured) + 1) * period = Len(captured) * period + period
    BY <1>1
  <2>5. next' = Len(captured') * period
    BY <1>2, <2>1, <2>2, <2>4
  <2> QED
    BY <1>1, <1>2, <1>3, <2>1, <2>2, <2>3, <2>5, SMTT(40) DEF Gate
<1>4. CASE time' < next
  <2>1. UNCHANGED <<captured, next>>
    BY <1>1, <1>4 DEF Execute, Sync
  <2>2. k > 0
    <3>1. k = 0 => Len(captured) = 0
      BY <1>2
    <3>2. k = 0 => next = 0
      BY <1>1, <1>2, <3>1
    <3> QED
      BY <1>1, <1>4, <3>2
  <2>3. Latest' = Latest /\ Len(captured') = Len(captured)
    BY <2>1 DEF Latest
  <2>4. Latest \in Nat
    <3>1. Len(captured) \in 1..Len(captured)
      BY <1>1, <1>2, <2>2
    <3> QED
      BY <1>1, <3>1 DEF Latest
  <2> QED
    BY <1>1, <1>2, <1>4, <2>1, <2>2, <2>3, <2>4 DEF Gate
<1> QED
  BY <1>1, <1>3, <1>4

\* Every statement block keeps the relation of gate and clock.
LEMMA StepGate == GateInv /\ [Next]_vars => Gate'
<1> SUFFICES ASSUME GateInv, [Next]_vars PROVE Gate'
  OBVIOUS
<1>1. CASE ReplayFrame
  BY <1>1, GateAfterExecute DEF ReplayFrame
<1>2. CASE ChunkAction
  BY <1>2, GateAfterExecute DEF ChunkAction
<1>3. ASSUME Ask \/ Answer \/ AnswerFails \/ ChunkEnds \/ Finish
             \/ CloseViewer \/ Interrupt \/ UNCHANGED vars
      PROVE  Gate'
  <2>1. UNCHANGED <<confVars, k, simVars>>
    BY <1>3 DEF Ask, Answer, AnswerFails, ChunkEnds, Finish, CloseViewer,
                Interrupt, vars, loopVars
  <2> QED
    BY <2>1 DEF GateInv, Gate, Latest, confVars, simVars
<1> QED
  BY <1>1, <1>2, <1>3 DEF Next, Program, Ended

\* The gate invariant holds throughout a rollout.
LEMMA GateInvariant == Spec => []GateInv
<1>1. Init => Gate
  <2> SUFFICES ASSUME Init PROVE Gate
    OBVIOUS
  <2>1. /\ captured = <<>> /\ Len(captured) = 0 /\ k = 0 /\ time = 0 /\ next = 0
        /\ period \in Nat /\ step \in Nat
    BY RolloutAssumption DEF Init
  <2>2. 0 * period = 0
    BY <2>1
  <2> QED
    BY <2>1, <2>2 DEF Gate
<1> QED
  BY <1>1, InitTypes, StepTypes, StepGate, PTL DEF Spec, GateInv

\* A video of at most one frame per control tick plays at simulated speed.
THEOREM VideoIsPaced == Spec => []VideoKeepsPace
<1>1. GateInv => VideoKeepsPace
  <2> SUFFICES ASSUME GateInv, sink = "video", step <= period
               PROVE  /\ (Len(captured) - 1) * period <= time
                      /\ time <= Len(captured) * period
    BY DEF VideoKeepsPace
  <2>1. period \in Nat /\ Len(captured) \in Nat /\ time \in Nat
    BY RolloutAssumption DEF GateInv, TypeOK
  <2>2. (Len(captured) - 1) * period = Len(captured) * period - period
    BY <2>1
  <2> QED
    BY <2>1, <2>2 DEF GateInv, Gate
<1> QED
  BY <1>1, GateInvariant, PTL

\* A finished video ends at most a frame period before the rollout does.
THEOREM RolloutEndIsShown == Spec => []EndIsShown
<1>1. GateInv => EndIsShown
  <2> SUFFICES ASSUME GateInv, sink = "video", k > 0
               PROVE  captured # <<>> /\ time - Latest <= period
    BY DEF EndIsShown, Latest
  <2>1. captured # <<>> /\ time <= Latest + period
    BY DEF GateInv, Gate
  <2>2. time \in Nat /\ period \in Nat /\ captured \in Seq(Nat)
    BY RolloutAssumption DEF GateInv, TypeOK
  <2>3. Latest \in Nat
    BY <2>1, <2>2 DEF Latest
  <2> QED
    BY <2>1, <2>2, <2>3
<1> QED
  BY <1>1, GateInvariant, PTL

-----------------------------------------------------------------------------
(* The end of a rollout.                                                   *)

\* Where the loop is in its round: an inference costs two steps, the first
\* action of a chunk gains a frame.
Place ==
    CASE pc = "loop" -> 6
      [] pc = "wait" -> 5
      [] pc = "chunk" -> IF h = 0 THEN 4 ELSE 7

\* An upper bound of the steps that are left.
StepsLeft ==
    CASE pc \in {"done", "failed"} -> IF running THEN 1 ELSE 0
      [] pc = "loop" /\ ~running -> 1
      [] pc = "chunk" /\ ~running -> 2
      [] pc = "wait" /\ ~running -> 3
      [] pc \in {"loop", "wait", "chunk"} /\ running -> 4 * (Frames - k) + Place

\* A chunk has an action, and is run only from a frame of the recording.
RoundInv ==
    /\ pc \in {"wait", "chunk"} => mode = "policy"
    /\ pc = "wait" => k < Frames
    /\ pc = "chunk" => H >= 1 /\ (h = 0 => k < Frames)

\* The first round starts at the first frame.
LEMMA InitRound == Init => RoundInv
BY DEF Init, RoundInv

\* What the theorem below assumes is what gives every chunk an action.
LEMMA StepRound ==
    ASSUME ActionHorizon >= 1, 0 \notin Lengths, TypeOK, RoundInv, [Next]_vars
    PROVE  RoundInv'
<1>1. k \in Nat /\ h \in Nat /\ Frames \in Nat /\ ActionHorizon \in Int
  BY RolloutAssumption DEF TypeOK
<1>2. CASE Answer
  <2>1. PICK len \in Lengths : H' = ToExecute(len)
    BY <1>2 DEF Answer
  <2>2. H' >= 1
    BY <1>1, <2>1, RolloutAssumption DEF ToExecute, Shorter
  <2> QED
    BY <1>2, <2>2 DEF Answer, RoundInv, confVars
<1>3. CASE ChunkAction
  BY <1>1, <1>3 DEF ChunkAction, Execute, RoundInv, confVars
<1>4. CASE Ask
  BY <1>4 DEF Ask, GoesOn, RoundInv, confVars
<1>5. CASE ReplayFrame \/ AnswerFails \/ ChunkEnds \/ Finish \/ Interrupt
  BY <1>5 DEF ReplayFrame, AnswerFails, ChunkEnds, Finish, Interrupt, RoundInv
<1>6. CASE CloseViewer \/ UNCHANGED vars
  BY <1>6 DEF CloseViewer, vars, confVars, loopVars, RoundInv
<1> QED
  BY <1>2, <1>3, <1>4, <1>5, <1>6 DEF Next, Program, Ended

\* Every step leaves fewer.
LEMMA StepsFewer ==
    ASSUME TypeOK, TypeOK', RoundInv, RoundInv', [Next]_vars
    PROVE  [StepsLeft' \in Nat /\ StepsLeft' < StepsLeft]_vars
<1> SUFFICES ASSUME Next, ~UNCHANGED vars
             PROVE  StepsLeft' \in Nat /\ StepsLeft' < StepsLeft
  OBVIOUS
<1>1. /\ k \in Nat /\ k' \in Nat /\ h \in Nat /\ h' \in Nat /\ Frames \in Nat
      /\ k <= Frames /\ k' <= Frames /\ H \in Int
      /\ pc \in {"loop", "wait", "chunk", "done", "failed"}
      /\ running \in BOOLEAN /\ running' \in BOOLEAN
  BY RolloutAssumption DEF TypeOK
<1>2. /\ pc \in {"loop", "wait", "chunk"} /\ running =>
             StepsLeft = 4 * (Frames - k) + Place /\ Place \in 4..7
      /\ pc \in {"loop", "wait", "chunk"} /\ ~running => StepsLeft \in 1..3
  BY <1>1 DEF StepsLeft, Place
<1>3. CASE ReplayFrame
  <2>1. /\ pc = "loop" /\ pc' = "loop" /\ running /\ running' /\ k' = k + 1
    BY <1>3 DEF ReplayFrame, GoesOn, Execute
  <2>2. StepsLeft = 4 * (Frames - k) + 6 /\ StepsLeft' = 4 * (Frames - k') + 6
    BY <2>1 DEF StepsLeft, Place
  <2> QED
    BY <1>1, <2>1, <2>2
<1>4. CASE Ask
  <2>1. pc = "loop" /\ pc' = "wait" /\ running /\ running' /\ k' = k
    BY <1>4 DEF Ask, GoesOn
  <2>2. StepsLeft = 4 * (Frames - k) + 6 /\ StepsLeft' = 4 * (Frames - k) + 5
    BY <2>1 DEF StepsLeft, Place
  <2> QED
    BY <1>1, <2>2
<1>5. CASE Answer
  <2>1. pc = "wait" /\ pc' = "chunk" /\ h' = 0 /\ UNCHANGED <<running, k>>
    BY <1>5 DEF Answer, FirstAction
  <2>2. CASE running
    <3>1. StepsLeft = 4 * (Frames - k) + 5 /\ StepsLeft' = 4 * (Frames - k) + 4
      BY <2>1, <2>2 DEF StepsLeft, Place
    <3> QED
      BY <1>1, <3>1
  <2>3. CASE ~running
    BY <2>1, <2>3 DEF StepsLeft
  <2> QED
    BY <2>2, <2>3
<1>6. CASE ChunkAction
  <2>1. /\ pc = "chunk" /\ pc' = "chunk" /\ running /\ running'
        /\ k' = k + 1 /\ h' = h + 1
    BY <1>6 DEF ChunkAction, GoesOn, Execute
  <2>2. /\ StepsLeft = 4 * (Frames - k) + (IF h = 0 THEN 4 ELSE 7)
        /\ StepsLeft' = 4 * (Frames - k') + 7
    BY <1>1, <2>1 DEF StepsLeft, Place
  <2> QED
    BY <1>1, <2>1, <2>2
<1>7. CASE ChunkEnds
  <2>1. pc = "chunk" /\ pc' = "loop" /\ UNCHANGED <<running, k, h, H>>
    BY <1>7 DEF ChunkEnds, loopVars
  <2>2. CASE running
    <3>1. h # 0
      BY <1>1, <1>7, <2>1, <2>2 DEF ChunkEnds, RoundInv, GoesOn
    <3>2. StepsLeft = 4 * (Frames - k) + 7 /\ StepsLeft' = 4 * (Frames - k) + 6
      BY <2>1, <2>2, <3>1 DEF StepsLeft, Place
    <3> QED
      BY <1>1, <3>2
  <2>3. CASE ~running
    BY <2>1, <2>3 DEF StepsLeft
  <2> QED
    BY <2>2, <2>3
<1>8. CASE AnswerFails \/ Finish \/ Interrupt
  <2>1. /\ pc \in {"loop", "wait", "chunk"} /\ pc' \in {"done", "failed"}
        /\ running' = running
    BY <1>8 DEF AnswerFails, Finish, Interrupt
  <2>2. StepsLeft' = IF running THEN 1 ELSE 0
    BY <2>1 DEF StepsLeft
  <2> QED
    BY <1>1, <1>2, <2>1, <2>2
<1>9. CASE CloseViewer
  <2>1. running /\ ~running' /\ pc' = pc
    BY <1>9 DEF CloseViewer
  <2>2. CASE pc \in {"done", "failed"}
    BY <2>1, <2>2 DEF StepsLeft
  <2>3. CASE pc \in {"loop", "wait", "chunk"}
    <3>1. StepsLeft' \in 1..3
      BY <2>1, <2>3 DEF StepsLeft
    <3> QED
      BY <1>1, <1>2, <2>1, <2>3, <3>1
  <2> QED
    BY <1>1, <2>2, <2>3
<1> QED
  BY <1>3, <1>4, <1>5, <1>6, <1>7, <1>8, <1>9 DEF Next, Program, Ended

\* A rollout has at most 4 * Frames + 6 steps, however the policy cuts its
\* chunks and whenever the window is closed, if each round executes something:
\* of RolloutEnds only that a next step is always possible is left to TLC.
THEOREM RolloutIsFinite ==
    ASSUME ActionHorizon >= 1, 0 \notin Lengths
    PROVE  Spec => /\ StepsLeft = 4 * Frames + 6
                   /\ [][StepsLeft' \in Nat /\ StepsLeft' < StepsLeft]_vars
<1>1. Init => StepsLeft = 4 * Frames + 6
  BY RolloutAssumption DEF Init, StepsLeft, Place
<1>2. TypeOK /\ RoundInv /\ [Next]_vars => TypeOK' /\ RoundInv'
  BY StepTypes, StepRound
<1>3. TypeOK /\ RoundInv /\ TypeOK' /\ RoundInv' /\ [Next]_vars
      => [StepsLeft' \in Nat /\ StepsLeft' < StepsLeft]_vars
  BY StepsFewer
<1> QED
  BY <1>1, <1>2, <1>3, InitTypes, InitRound, PTL DEF Spec
=============================================================================
