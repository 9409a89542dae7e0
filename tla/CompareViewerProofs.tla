-------------------------- MODULE CompareViewerProofs --------------------------
(***************************************************************************)
(* Theorems about CompareViewer, for any number of samples, any chunk      *)
(* lengths, pauses and inference delays, and any set of finger positions.  *)
(***************************************************************************)
EXTENDS CompareViewer, TLAPS

Record == [phase : Phases, idx : Nat, at : Nat]

\* A chunk is being prepared or run.
Busy == pc \in {"pause", "ask", "wait", "run"}

\* The horizon cuts a chunk, it never makes it longer.
LEMMA HorizonCuts == ASSUME NEW len \in Lengths PROVE Horizon(len) \in Nat
BY ViewerAssumption DEF Horizon

\* A chunk that is not run yet starts at its first action; only the policy is
\* asked.
Fresh ==
    /\ pc \in {"pause", "ask", "wait"} => h = 0
    /\ pc \in {"ask", "wait"} => phase = "policy"
    /\ pc = "sample" /\ sample > 0 => phase = "policy"
    /\ Busy => sample < Samples

Typed == TypeOK /\ Fresh

\* It is so before the first sample.
LEMMA InitTyped == ASSUME Init PROVE Typed
BY ViewerAssumption DEF Init, Typed, TypeOK, Fresh, Busy, Phases, Fingers

\* What a snap leaves behind is well typed.
LEMMA SnapTyped ==
    ASSUME TypeOK, state' \in Grips, NEW p \in Phases, Snap(p)
    PROVE  /\ driver' = state' /\ follower' \in Grips
           /\ start' \in [Phases -> Fingers]
           /\ start'[p].driver = state'
           /\ \A q \in Phases \ {p} : start'[q] = start[q]
BY DEF TypeOK, Snap, Fingers

\* Every step keeps the types, and no chunk is run past its horizon.
LEMMA StepTyped == ASSUME Typed, [Next]_vars PROVE Typed'
<1>1. /\ horizon \in [Phases -> Nat] /\ h \in Nat /\ h <= horizon[phase]
      /\ wall \in Nat /\ t0 \in Nat /\ late \in Nat /\ Samples \in Nat
      /\ ran \in Seq(Record) /\ sample \in 0..Samples
  BY ViewerAssumption DEF Typed, TypeOK, Phases, Record
<1>2. CASE StartSample
  <2>1. state' \in Grips /\ Snap("recorded") /\ "recorded" \in Phases
    BY <1>2 DEF StartSample, Phases
  <2>2. PICK len \in Lengths : horizon' = [recorded |-> Horizon(len), policy |-> 0]
    BY <1>2 DEF StartSample
  <2>3. horizon' \in [Phases -> Nat] /\ h' = 0 /\ h' \in 0..horizon'[phase']
    BY <1>2, <2>2, HorizonCuts DEF StartSample, Phases
  <2>4. ran' \in Seq(Record)
    BY <1>2 DEF StartSample
  <2> QED
    BY <1>2, <2>1, <2>3, <2>4, SnapTyped DEF Typed, TypeOK, Fresh, Busy, StartSample, GoesOn, Record
<1>3. CASE EndPause
  <2>1. wall' \in Nat /\ t0' \in Nat
    BY <1>1, <1>3, ViewerAssumption DEF EndPause, PauseOver, ChunkClock
  <2> QED
    BY <1>1, <1>3, <2>1 DEF Typed, TypeOK, Fresh, Busy, EndPause
<1>4. CASE Ask
  BY <1>1, <1>4 DEF Typed, TypeOK, Fresh, Busy, Ask
<1>5. CASE Answer
  <2>1. wall' \in Nat /\ t0' \in Nat
    BY <1>1, <1>5, ViewerAssumption DEF Answer, ChunkClock
  <2>2. PICK len \in Lengths : horizon' = [horizon EXCEPT !["policy"] = Horizon(len)]
    BY <1>5 DEF Answer
  <2>3. horizon' \in [Phases -> Nat] /\ h = 0 /\ phase = "policy" /\ h' = 0 /\ phase' = phase
    BY <1>1, <1>5, <2>2, HorizonCuts DEF Answer, Typed, Fresh
  <2>4. h' \in 0..horizon'[phase']
    BY <2>3 DEF Phases
  <2> QED
    BY <1>5, <2>1, <2>3, <2>4 DEF Typed, TypeOK, Fresh, Busy, Answer
<1>6. CASE RunAction
  <2>1. wall' \in Nat /\ driver' \in Grips /\ follower' \in Grips
    BY <1>1, <1>6 DEF RunAction
  <2>2. h' \in 0..horizon'[phase']
    BY <1>1, <1>6 DEF RunAction, MoreActions, Typed, TypeOK
  <2>3. ran' \in Seq(Record)
    BY <1>1, <1>6, <2>1 DEF RunAction, Typed, TypeOK, Record
  <2> QED
    BY <1>6, <2>1, <2>2, <2>3 DEF Typed, TypeOK, Fresh, Busy, RunAction, Record
<1>7. CASE RecordedOver
  <2>1. state' \in Grips /\ Snap("policy") /\ "policy" \in Phases /\ h' = 0
    BY <1>7 DEF RecordedOver, FirstAction, Typed, TypeOK, Phases
  <2> QED
    BY <1>1, <1>7, <2>1, SnapTyped DEF Typed, TypeOK, Fresh, Busy, RecordedOver, ChunkOver, Phases
<1>8. CASE PolicyOver
  <2>1. sample < Samples
    BY <1>8 DEF PolicyOver, ChunkOver, Typed, Fresh, Busy
  <2> QED
    BY <1>1, <1>8, <2>1 DEF Typed, TypeOK, Fresh, Busy, PolicyOver
<1>9. CASE Finish \/ Abort \/ CloseViewer \/ UNCHANGED vars
  BY <1>9 DEF Finish, Abort, CloseViewer, vars, Typed, TypeOK, Fresh, Busy
<1> QED
  BY <1>2, <1>3, <1>4, <1>5, <1>6, <1>7, <1>8, <1>9 DEF Next, Program, Ended

\* The comparison's state is well typed: no chunk is run past its horizon.
THEOREM ViewerTypeCorrect == Spec => []TypeOK
<1>1. Typed => TypeOK
  BY DEF Typed
<1> QED
  BY <1>1, InitTyped, StepTyped, PTL DEF Spec

-----------------------------------------------------------------------------
(* Starting states.                                                        *)

\* The snaps of a sample have set the driver to its state.
Snapped ==
    Busy =>
        /\ start["recorded"].driver = state
        /\ phase = "policy" => start["policy"].driver = state

\* A chunk only starts from a snap, and only physics moves the joints after it.
LEMMA StepSnapped == ASSUME Typed, Snapped, [Next]_vars PROVE Snapped'
<1> USE DEF Snapped, Busy
<1>1. CASE StartSample
  <2>1. state' \in Grips /\ Snap("recorded") /\ phase' = "recorded"
    BY <1>1 DEF StartSample
  <2> QED
    BY <2>1, SnapTyped DEF Typed, Phases
<1>2. CASE RecordedOver
  <2>1. /\ state' = state /\ state' \in Grips /\ Snap("policy")
        /\ start["recorded"].driver = state
    BY <1>2 DEF RecordedOver, ChunkOver, Typed, TypeOK
  <2> QED
    BY <2>1, SnapTyped DEF Typed, Phases
<1>3. CASE EndPause \/ Ask \/ Answer \/ RunAction \/ CloseViewer \/ UNCHANGED vars
  BY <1>3 DEF EndPause, Ask, Answer, RunAction, CloseViewer, vars
<1>4. CASE PolicyOver \/ Finish \/ Abort
  BY <1>4 DEF PolicyOver, Finish, Abort
<1> QED
  BY <1>1, <1>2, <1>3, <1>4 DEF Next, Program, Ended

\* The policy's rollout starts with the 14 joints where the recorded one did,
\* wherever that one has taken them.
THEOREM RolloutsStartAlike == Spec => []DriversStartAlike
<1>1. Init => Snapped
  BY DEF Init, Snapped, Busy
<1>2. Snapped => DriversStartAlike
  BY DEF Snapped, Busy, DriversStartAlike
<1> QED
  BY <1>1, <1>2, InitTyped, StepTyped, StepSnapped, PTL DEF Spec

-----------------------------------------------------------------------------
(* The closed window.                                                      *)

\* A late inference is the last one: no sample starts after it.
LastAsked ==
    /\ running => late = 0
    /\ late <= 1
    /\ late > 0 => phase = "policy" /\ pc \in {"wait", "run", "sample", "done", "failed"}

\* A closed window is noticed before the next sample is asked about.
LEMMA StepLastAsked == ASSUME Typed, LastAsked, [Next]_vars PROVE LastAsked'
<1> USE DEF LastAsked
<1>1. late \in Nat
  BY DEF Typed, TypeOK
<1>2. CASE StartSample \/ EndPause \/ RecordedOver
  BY <1>1, <1>2 DEF StartSample, GoesOn, EndPause, RecordedOver
<1>3. CASE Ask
  BY <1>1, <1>3 DEF Ask, Typed, Fresh
<1>4. CASE Answer \/ RunAction \/ PolicyOver \/ Finish
  BY <1>1, <1>4 DEF Answer, RunAction, PolicyOver, Finish
<1>5. CASE Abort \/ CloseViewer \/ UNCHANGED vars
  BY <1>1, <1>5 DEF Abort, CloseViewer, vars
<1> QED
  BY <1>2, <1>3, <1>4, <1>5 DEF Next, Program, Ended

\* After the window is closed the server is asked at most once, however many
\* samples are left.
THEOREM AskedOnceMoreAtMost == Spec => []OneLateInference
<1>1. Init => LastAsked
  BY DEF Init, LastAsked
<1>2. LastAsked => OneLateInference
  BY DEF LastAsked, OneLateInference
<1> QED
  BY <1>1, <1>2, InitTyped, StepTyped, StepLastAsked, PTL DEF Spec

-----------------------------------------------------------------------------
(* What the window shows, and when.                                        *)

\* How many actions of the recorded chunk are in the log.
Before == IF phase = "recorded" THEN h ELSE horizon["recorded"]

\* While the window is open the log holds, for the current sample, the
\* recorded chunk, whole once the policy's turn has come, and the part of the
\* policy's chunk that is done; of the chunk that runs, the last action was
\* executed on its clock.
Shown ==
    running /\ (Busy \/ (pc = "sample" /\ sample > 0)) =>
        /\ Len(ran) = (IF phase = "recorded" THEN h ELSE horizon["recorded"] + h)
        /\ \A i \in 1..Len(ran) :
              /\ ran[i].phase = IF i <= Before THEN "recorded" ELSE "policy"
              /\ ran[i].idx = IF i <= Before THEN i - 1
                              ELSE i - 1 - horizon["recorded"]
        /\ pc = "sample" => h = horizon["policy"]
        /\ pc = "run" => wall = (IF h = 0 THEN t0 ELSE t0 + h - 1)
        /\ pc = "run" /\ h > 0 => ran[Len(ran)].at = wall

ShownInv == Typed /\ Shown /\ EvenlyPaced

\* The log grows by the action that is due.
LEMMA RunActionShows ==
    ASSUME ShownInv, RunAction PROVE Shown' /\ EvenlyPaced'
<1>1. /\ ran \in Seq(Record) /\ h \in Nat /\ horizon["recorded"] \in Nat
      /\ phase \in {"recorded", "policy"} /\ wall \in Nat /\ t0 \in Nat
      /\ h < horizon[phase] /\ running /\ pc = "run"
  BY DEF ShownInv, Typed, TypeOK, Phases, Record, RunAction, MoreActions
<1> DEFINE new == [phase |-> phase, idx |-> h, at |-> wall']
           n == Len(ran)
<1>2. /\ n = (IF phase = "recorded" THEN h ELSE horizon["recorded"] + h)
      /\ \A i \in 1..n :
            /\ ran[i].phase = IF i <= Before THEN "recorded" ELSE "policy"
            /\ ran[i].idx = IF i <= Before THEN i - 1 ELSE i - 1 - horizon["recorded"]
      /\ wall = (IF h = 0 THEN t0 ELSE t0 + h - 1)
      /\ h > 0 => ran[n].at = wall
  BY <1>1 DEF ShownInv, Shown, Busy
<1>3. /\ ran' = Append(ran, new) /\ h' = h + 1 /\ wall' = t0 + h
      /\ UNCHANGED <<pc, phase, horizon, t0, running, sample>>
  BY <1>1, <1>2 DEF RunAction
<1>4. new \in Record
  BY <1>1, <1>3 DEF Record, Phases
<1>5. /\ Len(ran') = n + 1 /\ n \in Nat
      /\ ran'[n + 1] = new
      /\ \A i \in 1..n : ran'[i] = ran[i]
  BY <1>1, <1>3, <1>4
<1>6. Before' = (IF phase = "recorded" THEN h + 1 ELSE horizon["recorded"])
  BY <1>3 DEF Before
<1>7. ASSUME NEW i \in 1..(n + 1)
      PROVE  /\ ran'[i].phase = IF i <= Before' THEN "recorded" ELSE "policy"
             /\ ran'[i].idx = IF i <= Before' THEN i - 1 ELSE i - 1 - horizon["recorded"]
  <2>1. CASE i = n + 1
    <3>1. ran'[i].phase = phase /\ ran'[i].idx = h
      BY <1>5, <2>1
    <3>2. CASE phase = "recorded"
      BY <1>1, <1>2, <1>6, <2>1, <3>1, <3>2
    <3>3. CASE phase = "policy"
      BY <1>1, <1>2, <1>6, <2>1, <3>1, <3>3
    <3> QED
      BY <1>1, <3>2, <3>3
  <2>2. CASE i \in 1..n
    <3>1. ran'[i] = ran[i] /\ (i <= Before <=> i <= Before')
      BY <1>1, <1>2, <1>5, <1>6, <2>2 DEF Before
    <3> HIDE DEF n
    <3> QED
      BY <1>2, <2>2, <3>1
  <2> QED
    BY <1>5, <2>1, <2>2
<1>8. EvenlyPaced'
  <2> SUFFICES ASSUME NEW i \in 1..n, ran'[i].phase = ran'[i + 1].phase
               PROVE  ran'[i + 1].at = ran'[i].at + 1
    BY <1>5 DEF EvenlyPaced
  <2>1. CASE i < n
    BY <1>5, <2>1 DEF ShownInv, EvenlyPaced
  <2>2. CASE i = n
    <3>1. h > 0 /\ ran[n].at = wall
      BY <1>1, <1>2, <1>5, <2>2 DEF Before
    <3> QED
      BY <1>1, <1>2, <1>3, <1>5, <2>2, <3>1
  <2> QED
    BY <1>5, <2>1, <2>2
<1>9. Shown'
  <2>1. Len(ran') = (IF phase' = "recorded" THEN h' ELSE horizon'["recorded"] + h')
    <3>1. n + 1 = (IF phase = "recorded" THEN h + 1 ELSE horizon["recorded"] + (h + 1))
      BY <1>1, <1>2
    <3> QED
      BY <1>3, <1>5, <3>1
  <2>2. \A i \in 1..Len(ran') :
            /\ ran'[i].phase = IF i <= Before' THEN "recorded" ELSE "policy"
            /\ ran'[i].idx = IF i <= Before' THEN i - 1
                             ELSE i - 1 - horizon'["recorded"]
    BY <1>3, <1>5, <1>7
  <2>3. wall' = t0' + h' - 1 /\ h' > 0 /\ pc' = "run"
    BY <1>1, <1>3
  <2>4. ran'[Len(ran')].at = wall'
    BY <1>5
  <2> QED
    BY <2>1, <2>2, <2>3, <2>4 DEF Shown
<1> QED
  BY <1>8, <1>9

\* Every action is logged when it is executed, at the due time of its chunk.
LEMMA StepShown == ASSUME ShownInv, [Next]_vars PROVE ShownInv'
<1>1. Typed'
  BY StepTyped DEF ShownInv
<1>2. /\ h \in Nat /\ phase \in Phases /\ h <= horizon[phase]
      /\ horizon \in [Phases -> Nat] /\ ran \in Seq(Record)
  BY DEF ShownInv, Typed, TypeOK, Phases, Record
<1> USE DEF ShownInv, Shown, Busy
<1>3. CASE StartSample
  BY <1>1, <1>3 DEF StartSample, EvenlyPaced
<1>4. CASE EndPause
  <2>1. /\ pc = "pause" /\ h = 0 /\ UNCHANGED <<phase, sample, horizon, h, ran, running>>
        /\ pc' = "run" => t0' = wall'
        /\ pc' \in {"run", "ask"}
    BY <1>4 DEF EndPause, ChunkClock, Typed, Fresh
  <2>2. Before' = Before
    BY <2>1 DEF Before
  <2>3. pc' = "run" => wall' = (IF h' = 0 THEN t0' ELSE t0' + h' - 1)
    BY <2>1
  <2>4. SUFFICES ASSUME running PROVE Shown'
    BY <1>1, <2>1 DEF EvenlyPaced
  <2>5. /\ Len(ran') = (IF phase' = "recorded" THEN h' ELSE horizon'["recorded"] + h')
        /\ \A i \in 1..Len(ran') :
              /\ ran'[i].phase = IF i <= Before' THEN "recorded" ELSE "policy"
              /\ ran'[i].idx = IF i <= Before' THEN i - 1
                               ELSE i - 1 - horizon'["recorded"]
    BY <2>1, <2>2, <2>4
  <2>6. ~(pc' = "run" /\ h' > 0) /\ pc' # "sample"
    BY <2>1
  <2> QED
    BY <2>3, <2>5, <2>6
<1>5. CASE Ask
  BY <1>1, <1>5 DEF Ask, EvenlyPaced, Before
<1>6. CASE Answer
  BY <1>1, <1>2, <1>6 DEF Answer, ChunkClock, EvenlyPaced, Before, Typed, Fresh, Phases
<1>7. CASE RunAction
  BY <1>1, <1>7, RunActionShows
<1>8. CASE RecordedOver
  <2>1. /\ phase = "recorded" /\ phase' = "policy" /\ pc = "run" /\ pc' = "pause"
        /\ h' = 0 /\ UNCHANGED <<ran, running, horizon>>
        /\ running => h = horizon["recorded"]
    BY <1>2, <1>8 DEF RecordedOver, ChunkOver, FirstAction
  <2>2. running => Before' = Before /\ Len(ran') = horizon'["recorded"] + h'
    BY <1>2, <2>1 DEF Before
  <2>3. Shown'
    BY <2>1, <2>2
  <2> QED
    BY <1>1, <2>1, <2>3 DEF EvenlyPaced
<1>9. CASE PolicyOver
  BY <1>1, <1>2, <1>9 DEF PolicyOver, ChunkOver, EvenlyPaced, Before
<1>10. CASE Finish \/ Abort \/ CloseViewer \/ UNCHANGED vars
  BY <1>1, <1>10 DEF Finish, Abort, CloseViewer, vars, EvenlyPaced, Before
<1> QED
  BY <1>3, <1>4, <1>5, <1>6, <1>7, <1>8, <1>9, <1>10 DEF Next, Program, Ended

\* Nothing has been shown at first.
LEMMA InitShown == ASSUME Init PROVE ShownInv
BY InitTyped DEF Init, ShownInv, Shown, Busy, EvenlyPaced

\* Within a chunk the actions come one control period apart, whatever the
\* pause and the inference before it took.
THEOREM ChunksEvenlyPaced == Spec => []EvenlyPaced
<1>1. ShownInv => EvenlyPaced
  BY DEF ShownInv
<1> QED
  BY <1>1, InitShown, StepShown, PTL DEF Spec

\* A sample that was looked at to its end showed both chunks, in order and
\* whole up to the horizon.
THEOREM BothChunksShown == Spec => []BothShownInOrder
<1>1. ASSUME ShownInv PROVE BothShownInOrder
  <2> SUFFICES ASSUME pc = "sample", sample > 0, running
               PROVE  BothShownInOrder
    BY DEF BothShownInOrder
  <2>1. phase = "policy" /\ horizon["recorded"] \in Nat /\ horizon["policy"] \in Nat
    BY <1>1 DEF ShownInv, Typed, Fresh, TypeOK, Phases
  <2>2. /\ Len(ran) = horizon["recorded"] + horizon["policy"]
        /\ \A i \in 1..Len(ran) :
              /\ ran[i].phase = IF i <= horizon["recorded"] THEN "recorded" ELSE "policy"
              /\ ran[i].idx = IF i <= horizon["recorded"] THEN i - 1
                              ELSE i - 1 - horizon["recorded"]
    BY <1>1, <2>1 DEF ShownInv, Shown, Before
  <2> QED
    BY <2>1, <2>2 DEF BothShownInOrder
<1> QED
  BY <1>1, InitShown, StepShown, PTL DEF Spec

-----------------------------------------------------------------------------
(* The end of a comparison.                                                *)

\* What is left of a sample.
Stage ==
    CASE pc = "sample" -> 7
      [] pc = "pause" -> IF phase = "recorded" THEN 6 ELSE 4
      [] pc = "run" -> IF phase = "recorded" THEN 5 ELSE 1
      [] pc = "ask" -> 3
      [] pc = "wait" -> 2
      [] OTHER -> 0

\* Whether the window is open, the samples, the stages and the actions that are
\* left: the length of a chunk is known only when it arrives, so there is no
\* one number that bounds the steps.
Window == IF running THEN 1 ELSE 0
SamplesLeft == Samples - sample
ActionsLeft == horizon[phase] - h

\* The four of them are natural numbers.
Counting ==
    /\ Window \in Nat /\ SamplesLeft \in Nat
    /\ Stage \in Nat /\ ActionsLeft \in Nat

\* The first of them that changes is less afterwards, and one of them does.
Nearer ==
    \/ Window' < Window
    \/ Window' = Window /\ SamplesLeft' < SamplesLeft
    \/ Window' = Window /\ SamplesLeft' = SamplesLeft /\ Stage' < Stage
    \/ /\ Window' = Window /\ SamplesLeft' = SamplesLeft /\ Stage' = Stage
       /\ ActionsLeft' < ActionsLeft

\* The four are counters in the bounds of the type invariant.
LEMMA TypedCounts == Typed => Counting
<1> SUFFICES ASSUME Typed PROVE Counting
  OBVIOUS
<1>1. Window \in Nat /\ Stage \in Nat
  BY DEF Window, Stage
<1>2. SamplesLeft \in Nat
  BY ViewerAssumption DEF SamplesLeft, Typed, TypeOK
<1>3. horizon[phase] \in Nat /\ h \in 0..horizon[phase]
  BY DEF Typed, TypeOK
<1>4. ActionsLeft \in Nat
  BY <1>3 DEF ActionsLeft
<1> QED
  BY <1>1, <1>2, <1>4 DEF Counting

\* Every step of the program, and closing the window, comes nearer to the end.
LEMMA StepNearer == Typed /\ [Next]_vars => [Nearer]_vars
<1> SUFFICES ASSUME Typed, Next, ~UNCHANGED vars PROVE Nearer
  OBVIOUS
<1>1. /\ horizon[phase] \in Nat /\ h \in Nat /\ sample \in Nat /\ Samples \in Nat
      /\ running \in BOOLEAN /\ phase \in {"recorded", "policy"}
  BY ViewerAssumption DEF Typed, TypeOK, Phases
<1>2. CASE StartSample \/ RecordedOver \/ Finish
  <2>1. UNCHANGED <<running, sample>>
    BY <1>2 DEF StartSample, RecordedOver, Finish
  <2>2. Stage' < Stage
    BY <1>2 DEF StartSample, RecordedOver, ChunkOver, Finish, Stage
  <2> QED
    BY <2>1, <2>2 DEF Nearer, Window, SamplesLeft
<1>3. CASE EndPause \/ Ask \/ Answer
  <2>1. UNCHANGED <<running, sample>>
    BY <1>3 DEF EndPause, Ask, Answer
  <2>2. Stage' < Stage
    BY <1>3 DEF EndPause, Ask, Answer, Stage, Typed, Fresh
  <2> QED
    BY <2>1, <2>2 DEF Nearer, Window, SamplesLeft
<1>4. CASE RunAction
  <2>1. UNCHANGED <<running, sample, pc, phase, horizon>> /\ h' = h + 1
    BY <1>4 DEF RunAction
  <2>2. Stage' = Stage
    BY <2>1 DEF Stage
  <2>3. ActionsLeft' < ActionsLeft
    BY <1>1, <2>1 DEF ActionsLeft
  <2> QED
    BY <2>1, <2>2, <2>3 DEF Nearer, Window, SamplesLeft
<1>5. CASE PolicyOver
  <2>1. running' = running /\ sample' = sample + 1
    BY <1>5 DEF PolicyOver
  <2> QED
    BY <1>1, <2>1 DEF Nearer, Window, SamplesLeft
<1>6. CASE Abort
  <2>1. UNCHANGED <<running, sample>>
    BY <1>6 DEF Abort
  <2>2. Stage' = 0 /\ Stage > 0
    BY <1>1, <1>6 DEF Abort, Stage, Typed, TypeOK
  <2> QED
    BY <2>1, <2>2 DEF Nearer, Window, SamplesLeft
<1>7. CASE CloseViewer
  BY <1>7 DEF CloseViewer, Nearer, Window
<1> QED
  BY <1>2, <1>3, <1>4, <1>5, <1>6, <1>7 DEF Next, Program, Ended

\* Every step of a comparison brings its end nearer in a well-founded order,
\* whatever the chunks' lengths and whenever the window is closed: of
\* CompareEnds only that a next step is always possible is left to TLC.
THEOREM CompareIsFinite == Spec => []Counting /\ [][Nearer]_vars
<1>1. Spec => []Typed
  BY InitTyped, StepTyped, PTL DEF Spec
<1> QED
  BY <1>1, TypedCounts, StepNearer, PTL DEF Spec
=============================================================================
