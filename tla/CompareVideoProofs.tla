-------------------------- MODULE CompareVideoProofs --------------------------
(***************************************************************************)
(* Theorems about CompareVideo, for any number of samples, any chunk       *)
(* lengths and any control and frame periods.                              *)
(***************************************************************************)
EXTENDS CompareVideo, TLAPS

\* A truncated chunk has a natural number of actions.
LEMMA HorizonType == \A len \in Lengths : Horizon(len) \in Nat
BY VideoAssumption DEF Horizon, Shorter

\* The tick loop has a natural number of rounds.
LEMMA TickCountType ==
    ASSUME horizon \in [Sides -> Nat]
    PROVE  /\ TickCount \in Nat
           /\ horizon["L"] <= TickCount /\ horizon["R"] <= TickCount
           /\ TickCount \in {horizon["L"], horizon["R"]}
BY DEF TickCount, Longer, Sides

\* The policy is asked before the first tick, about a sample of the bundle.
Fresh ==
    /\ pc = "query" => t = 0
    /\ pc \in {"query", "roll"} => sample < Samples

Typed == TypeOK /\ Fresh

\* The first state is well typed, side by side.
LEMMA InitTyped == Init => Typed
<1> SUFFICES ASSUME Init PROVE Typed
  OBVIOUS
<1>1. TickCount = 0
  BY DEF Init, TickCount, Longer, Sides
<1>2. /\ horizon \in [Sides -> Nat] /\ time \in [Sides -> Nat]
      /\ shown \in [Sides -> Nat] /\ pairs \in Seq([Sides -> Nat])
  BY DEF Init
<1>3. t \in 0..TickCount /\ sample \in 0..Samples /\ next \in Nat
  BY <1>1, VideoAssumption DEF Init
<1> QED
  BY <1>2, <1>3 DEF Init, Typed, TypeOK, Fresh

\* Every statement block keeps the types.
LEMMA StepTyped == Typed /\ [Next]_vars => Typed'
<1> SUFFICES ASSUME Typed, [Next]_vars PROVE Typed'
  OBVIOUS
<1> USE DEF Typed
<1>1. /\ step \in Nat /\ period \in Nat /\ Samples \in Nat
      /\ horizon \in [Sides -> Nat] /\ time \in [Sides -> Nat]
      /\ shown \in [Sides -> Nat] /\ t \in Nat
      /\ TickCount \in Nat /\ t <= TickCount
  BY VideoAssumption, TickCountType DEF TypeOK
<1>2. ASSUME StartSample PROVE Typed'
  <2>1. PICK h \in Nat : horizon' = [L |-> h, R |-> 0]
    BY <1>2, HorizonType DEF StartSample
  <2>2. horizon' \in [Sides -> Nat]
    BY <2>1 DEF Sides
  <2>3. t' \in 0..TickCount'
    BY <1>2, <2>1 DEF StartSample, TickCount, Longer
  <2> QED
    BY <1>2, <2>2, <2>3 DEF TypeOK, Fresh, StartSample, RestartGate
<1>3. ASSUME Query PROVE Typed'
  <2>1. PICK h \in Nat : horizon' = [horizon EXCEPT !["R"] = h]
    BY <1>3, HorizonType DEF Query
  <2>2. horizon' \in [Sides -> Nat]
    BY <1>1, <2>1 DEF Sides
  <2>3. t' \in 0..TickCount'
    BY <1>3, <2>1, <2>2 DEF Query, Fresh, TickCount, Longer, Sides
  <2> QED
    BY <1>3, <2>2, <2>3 DEF TypeOK, Fresh, Query
<1>4. ASSUME Tick PROVE Typed'
  <2>1. \A s \in Sides : TimeAfter(s) \in Nat /\ Picture(s) \in Nat
    BY <1>1 DEF TimeAfter, Picture
  <2>2. time' \in [Sides -> Nat]
    BY <1>4, <2>1 DEF Tick
  <2>3. shown' \in [Sides -> Nat] /\ pairs' \in Seq([Sides -> Nat]) /\ next' \in Nat
    <3>1. CASE Due /\ shown' = [s \in Sides |-> Picture(s)]
                   /\ pairs' = Append(pairs, [s \in Sides |-> Picture(s)])
                   /\ NextDue
      <4>1. [s \in Sides |-> Picture(s)] \in [Sides -> Nat]
        BY <2>1
      <4> QED
        BY <1>1, <3>1, <4>1 DEF TypeOK, NextDue
    <3>2. CASE UNCHANGED <<shown, pairs, next>>
      BY <3>2 DEF TypeOK
    <3> QED
      BY <1>4, <3>1, <3>2 DEF Tick
  <2>4. TickCount' = TickCount /\ t' \in 0..TickCount'
    BY <1>1, <1>4 DEF Tick, MoreTicks, TickCount
  <2> QED
    BY <1>4, <2>2, <2>3, <2>4 DEF TypeOK, Fresh, Tick
<1>5. ASSUME EndSample \/ Finish \/ Abort \/ UNCHANGED vars PROVE Typed'
  <2>1. UNCHANGED <<step, period, t, horizon, time, next, shown, pairs>>
    BY <1>5 DEF EndSample, Finish, Abort, vars
  <2>2. /\ pc' \in {"sample", "query", "roll", "done", "failed"}
        /\ pc' = "query" => pc = "query"
        /\ closed' \in BOOLEAN
    BY <1>5 DEF TypeOK, EndSample, Finish, Abort, vars
  <2>3. TickCount' = TickCount
    BY <2>1 DEF TickCount
  <2>4. /\ sample' \in 0..Samples
        /\ pc' \in {"query", "roll"} => sample' < Samples
    BY <1>1, <1>5 DEF TypeOK, Fresh, EndSample, Finish, Abort, vars
  <2> QED
    BY <2>1, <2>2, <2>3, <2>4 DEF TypeOK, Fresh
<1> QED
  BY <1>2, <1>3, <1>4, <1>5 DEF Next, Ended

\* The variables of the renderer have their types; no rollout runs past the
\* longer of its two chunks.
THEOREM VideoTypeCorrect == Spec => []TypeOK
<1>1. Typed => TypeOK
  BY DEF Typed
<1> QED
  BY <1>1, InitTyped, StepTyped, PTL DEF Spec

-----------------------------------------------------------------------------
(* Pacing.                                                                 *)

\* What ties the gate to the clock of the recorded side and to its picture.
\* next is the number of frames times the frame period; it is stated without
\* the product, which the step does not need.
Gate ==
    /\ next = Len(pairs) * period
    /\ t = 0 => pairs = <<>> /\ time["L"] = 0 /\ shown["L"] = 0
    /\ t <= horizon["L"] =>
           /\ time["L"] = t * step
           /\ next - period <= time["L"]
           /\ next <= shown["L"] * step + period
           /\ time["L"] <= shown["L"] * step + period
           /\ step <= period => time["L"] <= next

GateInv == Typed /\ Gate

\* The gate invariant holds before the first sample.
LEMMA InitGate == Init => Gate
<1> SUFFICES ASSUME Init PROVE Gate
  OBVIOUS
<1>1. step \in Nat /\ period \in Nat
  BY VideoAssumption DEF Init
<1>2. Len(pairs) = 0 /\ pairs = <<>>
  BY DEF Init
<1>3. time["L"] = 0 /\ shown["L"] = 0
  BY DEF Init, Sides
<1>4. 0 * period = 0 /\ 0 * step = 0
  BY <1>1
<1> QED
  BY <1>1, <1>2, <1>3, <1>4 DEF Init, Gate

\* Every statement block keeps the relation of gate, clocks and pictures.
LEMMA StepGate == GateInv /\ [Next]_vars => Gate'
<1> SUFFICES ASSUME GateInv, [Next]_vars PROVE Gate'
  OBVIOUS
<1>1. /\ step \in Nat /\ period \in Nat
      /\ horizon["L"] \in Nat /\ time["L"] \in Nat /\ shown["L"] \in Nat
      /\ t \in Nat /\ next \in Nat
      /\ pairs \in Seq([Sides -> Nat]) /\ Len(pairs) \in Nat
  BY VideoAssumption, TickCountType DEF GateInv, Typed, TypeOK, Sides
<1>2. ASSUME StartSample PROVE Gate'
  <2>1. /\ t' = 0 /\ next' = 0 /\ pairs' = <<>> /\ time'["L"] = 0 /\ shown'["L"] = 0
        /\ step' = step /\ period' = period
    BY <1>2 DEF StartSample, RestartGate, Sides
  <2>2. Len(pairs') = 0 /\ 0 * period = 0 /\ 0 * step = 0
    BY <1>1, <2>1
  <2> QED
    BY <1>1, <2>1, <2>2 DEF Gate
<1>3. ASSUME Query PROVE Gate'
  <2>1. horizon'["L"] = horizon["L"]
    BY <1>3 DEF Query, GateInv, Typed, TypeOK, Sides
  <2> QED
    BY <1>3, <2>1 DEF Query, Gate, GateInv
<1>4. ASSUME Tick PROVE Gate'
  <2>1. /\ step' = step /\ period' = period /\ horizon' = horizon /\ t' = t + 1
        /\ time'["L"] = TimeAfter("L")
    BY <1>4 DEF Tick, Sides
  <2>2. CASE t < horizon["L"]
    <3>1. /\ time["L"] = t * step
          /\ next - period <= time["L"]
          /\ next <= shown["L"] * step + period
          /\ time["L"] <= shown["L"] * step + period
          /\ step <= period => time["L"] <= next
          /\ next = Len(pairs) * period
      BY <1>1, <2>2 DEF GateInv, Gate
    <3>2. time'["L"] = time["L"] + step /\ time'["L"] = (t + 1) * step
      BY <1>1, <2>1, <2>2, <3>1 DEF TimeAfter
    <3>3. CASE Due /\ shown' = [s \in Sides |-> Picture(s)]
                   /\ pairs' = Append(pairs, [s \in Sides |-> Picture(s)])
                   /\ NextDue
      <4>1. shown'["L"] = t + 1
        BY <2>2, <3>3 DEF Picture, Sides
      <4>2. Len(pairs') = Len(pairs) + 1
        BY <1>1, <3>3
      <4>3. next' = next + period /\ next <= time'["L"]
        BY <1>1, <2>1, <3>3 DEF NextDue, Due
      <4>4. next' = Len(pairs') * period'
        BY <1>1, <2>1, <3>1, <4>2, <4>3
      <4>5. shown'["L"] * step = time'["L"]
        BY <3>2, <4>1
      <4> QED
        BY <1>1, <2>1, <3>1, <3>2, <4>3, <4>4, <4>5, SMTT(40) DEF Gate
    <3>4. CASE ~Due /\ UNCHANGED <<shown, pairs, next>>
      <4>1. time'["L"] < next
        BY <1>1, <2>1, <3>2, <3>4 DEF Due
      <4>2. shown'["L"] * step = shown["L"] * step /\ Len(pairs') = Len(pairs)
        BY <3>4
      <4> QED
        BY <1>1, <2>1, <3>1, <3>2, <3>4, <4>1, <4>2, SMTT(40) DEF Gate
    <3> QED
      BY <1>4, <3>3, <3>4 DEF Tick
  <2>3. CASE t >= horizon["L"]
    <3>1. next' = Len(pairs') * period'
      <4>1. next = Len(pairs) * period
        BY DEF GateInv, Gate
      <4>2. \/ Len(pairs') = Len(pairs) + 1 /\ next' = next + period
            \/ Len(pairs') = Len(pairs) /\ next' = next
        BY <1>1, <1>4 DEF Tick, NextDue
      <4>3. (Len(pairs) + 1) * period = Len(pairs) * period + period
        BY <1>1
      <4>4. CASE Len(pairs') = Len(pairs) + 1 /\ next' = next + period
        BY <2>1, <4>1, <4>3, <4>4
      <4>5. CASE Len(pairs') = Len(pairs) /\ next' = next
        BY <2>1, <4>1, <4>5
      <4> QED
        BY <4>2, <4>4, <4>5
    <3>2. t' # 0 /\ ~(t' <= horizon'["L"])
      BY <1>1, <2>1, <2>3
    <3> QED
      BY <3>1, <3>2 DEF Gate
  <2> QED
    BY <1>1, <2>2, <2>3
<1>5. ASSUME EndSample \/ Finish \/ Abort \/ UNCHANGED vars PROVE Gate'
  <2>1. UNCHANGED <<step, period, t, horizon, time, next, shown, pairs>>
    BY <1>5 DEF EndSample, Finish, Abort, vars
  <2> QED
    BY <2>1 DEF Gate, GateInv
<1> QED
  BY <1>2, <1>3, <1>4, <1>5 DEF Next, Ended

\* The gate invariant holds throughout a comparison.
LEMMA GateInvariant == Spec => []GateInv
<1>1. Init => GateInv
  BY InitTyped, InitGate DEF GateInv
<1>2. GateInv /\ [Next]_vars => GateInv'
  BY StepTyped, StepGate DEF GateInv
<1> QED
  BY <1>1, <1>2, PTL DEF Spec

\* With at least one frame period per control tick, k frames of a rollout
\* stand for between k-1 and k frame periods of simulated time: the video
\* neither runs away from the simulation nor falls behind it.
THEOREM VideoKeepsTime == Spec => []VideoTracksSim
<1>1. GateInv => VideoTracksSim
  <2> SUFFICES ASSUME GateInv, step <= period, t <= horizon["L"]
               PROVE  /\ (Len(pairs) - 1) * period <= time["L"]
                      /\ time["L"] <= Len(pairs) * period
    BY DEF VideoTracksSim
  <2>1. period \in Nat /\ Len(pairs) \in Nat /\ time["L"] \in Nat
    BY VideoAssumption DEF GateInv, Typed, TypeOK, Sides
  <2>2. (Len(pairs) - 1) * period = Len(pairs) * period - period
    BY <2>1
  <2> QED
    BY <2>1, <2>2 DEF GateInv, Gate
<1> QED
  BY <1>1, GateInvariant, PTL

\* A recorded chunk that is not the shorter one is followed to its end.
THEOREM ReplayIsShown == Spec => []ReplayShownToEnd
<1>1. GateInv => ReplayShownToEnd
  <2> SUFFICES ASSUME GateInv, t = TickCount, horizon["L"] >= horizon["R"]
               PROVE  Age("L") <= period
    BY DEF ReplayShownToEnd
  <2>1. /\ horizon \in [Sides -> Nat] /\ step \in Nat /\ period \in Nat
        /\ shown["L"] \in Nat /\ horizon["L"] \in Nat /\ horizon["R"] \in Nat
    BY VideoAssumption DEF GateInv, Typed, TypeOK, Sides
  <2>2. t = horizon["L"]
    BY <2>1 DEF TickCount, Longer
  <2>3. horizon["L"] * step <= shown["L"] * step + period
    BY <2>1, <2>2, SMTT(40) DEF GateInv, Gate
  <2>4. (horizon["L"] - shown["L"]) * step = horizon["L"] * step - shown["L"] * step
    BY <2>1
  <2> QED
    BY <2>1, <2>3, <2>4 DEF Age
<1> QED
  BY <1>1, GateInvariant, PTL

\* Every sample with an action is shown from its first tick on.
THEOREM SamplesShown == Spec => []EverySampleShown
<1>1. Init => EverySampleShown
  BY DEF Init, EverySampleShown
<1>2. GateInv /\ EverySampleShown /\ [Next]_vars => EverySampleShown'
  <2> SUFFICES ASSUME GateInv, EverySampleShown, [Next]_vars
               PROVE  EverySampleShown'
    OBVIOUS
  <2>1. /\ pairs \in Seq([Sides -> Nat]) /\ t \in Nat /\ period \in Nat
        /\ time["L"] \in Nat /\ step \in Nat /\ horizon \in [Sides -> Nat]
        /\ horizon["L"] \in Nat /\ horizon["R"] \in Nat
    BY VideoAssumption, TickCountType DEF GateInv, Typed, TypeOK, Sides
  <2>2. ASSUME Tick PROVE EverySampleShown'
    <3> DEFINE frame == [s \in Sides |-> Picture(s)]
    <3>1. CASE t > 0
      <4>1. pairs # <<>> /\ \E s \in Sides : pairs[1][s] = 1
        BY <3>1 DEF EverySampleShown
      <4>2. pairs' = pairs \/ pairs' = Append(pairs, frame)
        BY <2>2 DEF Tick
      <4>3. pairs' # <<>> /\ pairs'[1] = pairs[1]
        <5>1. Len(pairs) >= 1
          BY <2>1, <4>1
        <5>2. CASE pairs' = Append(pairs, frame)
          <6>1. Len(pairs') >= 1 /\ pairs'[1] = pairs[1]
            BY <2>1, <5>1, <5>2
          <6>2. pairs' # <<>>
            BY <6>1
          <6> QED
            BY <6>1, <6>2
        <5> QED
          BY <4>1, <4>2, <5>2
      <4> QED
        BY <4>1, <4>3 DEF EverySampleShown
    <3>2. CASE t = 0
      <4>1. pairs = <<>> /\ next = 0 /\ time["L"] = 0
        BY <2>1, <3>2 DEF GateInv, Gate
      <4>2. Due
        BY <2>1, <4>1 DEF Due, TimeAfter
      <4>3. pairs' = Append(pairs, frame)
        BY <2>2, <4>2 DEF Tick
      <4>4. pairs' # <<>> /\ pairs'[1] = frame
        BY <4>1, <4>3
      <4>5. \E s \in Sides : t < horizon[s]
        BY <2>1, <2>2 DEF Tick, MoreTicks, TickCount, Longer, Sides
      <4>6. PICK s \in Sides : frame[s] = 1
        BY <3>2, <4>5 DEF Picture
      <4> QED
        BY <4>4, <4>6 DEF EverySampleShown
    <3> QED
      BY <2>1, <3>1, <3>2
  <2>3. ASSUME StartSample PROVE EverySampleShown'
    BY <2>3 DEF StartSample, EverySampleShown
  <2>4. ASSUME Query \/ EndSample \/ Finish \/ Abort \/ UNCHANGED vars
        PROVE  EverySampleShown'
    <3>1. UNCHANGED <<t, pairs>>
      BY <2>4 DEF Query, EndSample, Finish, Abort, vars
    <3> QED
      BY <3>1 DEF EverySampleShown
  <2> QED
    BY <2>2, <2>3, <2>4 DEF Next, Ended
<1> QED
  BY <1>1, <1>2, GateInvariant, PTL DEF Spec

-----------------------------------------------------------------------------
(* Freezing.                                                               *)

\* The latest tick that pair k of log shows.
Ahead(log, k) == Longer(log[k]["L"], log[k]["R"])

\* Side s of pair k of log is as ShorterSideFreezes wants it.
Frozen(log, k, s) ==
    log[k][s] # Ahead(log, k) =>
        /\ Ahead(log, k) > horizon[s]
        /\ log[k][s] = IF k = 1 THEN 0 ELSE log[k - 1][s]
        /\ \A j \in k..Len(log) : log[j][s] = log[k][s]

\* Besides: nothing is shown before its tick, and what a side shows is what it
\* shows in the last pair.
FreezeInv ==
    /\ \A s \in Sides : shown[s] = IF Len(pairs) = 0 THEN 0 ELSE pairs[Len(pairs)][s]
    /\ \A k \in 1..Len(pairs) : \A s \in Sides :
           pairs[k][s] <= t /\ Frozen(pairs, k, s)

\* Another pair leaves the frozen sides as they are.
LEMMA TickFreezes ==
    ASSUME GateInv, FreezeInv, Tick, NEW frame, frame = [s \in Sides |-> Picture(s)],
           pairs' = Append(pairs, frame), shown' = frame, NEW n, n = Len(pairs)
    PROVE  FreezeInv'
<1>1. /\ pairs \in Seq([Sides -> Nat]) /\ n \in Nat /\ t \in Nat
      /\ shown \in [Sides -> Nat] /\ horizon \in [Sides -> Nat]
      /\ \A k \in 1..n : pairs[k] \in [Sides -> Nat]
  BY TickCountType DEF GateInv, Typed, TypeOK
<1>2. /\ \A s \in Sides : Picture(s) \in Nat /\ Picture(s) <= t + 1
      /\ frame \in [Sides -> Nat] /\ \A s \in Sides : frame[s] = Picture(s)
  <2>1. ASSUME NEW s \in Sides PROVE shown[s] \in Nat /\ shown[s] <= t
    <3>1. CASE n = 0
      BY <1>1, <3>1 DEF FreezeInv
    <3>2. CASE n # 0
      <4>1. n \in 1..n
        BY <1>1, <3>2
      <4>2. shown[s] = pairs[n][s] /\ pairs[n][s] <= t
        BY <3>2, <4>1 DEF FreezeInv
      <4> QED
        BY <1>1, <4>1, <4>2
    <3> QED
      BY <3>1, <3>2
  <2> QED
    BY <1>1, <2>1 DEF Picture
<1>3. /\ Len(pairs') = n + 1 /\ pairs'[n + 1] = frame
      /\ \A k \in 1..n : pairs'[k] = pairs[k]
  BY <1>1, <1>2
<1>4. t' = t + 1 /\ horizon' = horizon /\ \E s \in Sides : t < horizon[s]
  BY <1>1 DEF Tick, MoreTicks, TickCount, Longer, Sides
<1>5. \A s \in Sides : shown'[s] = IF Len(pairs') = 0 THEN 0 ELSE pairs'[Len(pairs')][s]
  BY <1>1, <1>3
<1>6. \A k \in 1..Len(pairs') : \A s \in Sides : pairs'[k][s] <= t'
  BY <1>1, <1>2, <1>3, <1>4 DEF FreezeInv
<1>7. Ahead(pairs', n + 1) = t + 1
  <2>1. \/ frame["L"] = t + 1 /\ frame["R"] <= t + 1
        \/ frame["R"] = t + 1 /\ frame["L"] <= t + 1
    BY <1>2, <1>4 DEF Picture, Sides
  <2> QED
    BY <1>1, <1>2, <1>3, <2>1 DEF Ahead, Longer, Sides
<1>8. ASSUME NEW s \in Sides, t >= horizon[s] PROVE frame[s] = shown[s]
  BY <1>1, <1>2, <1>8 DEF Picture
<1>9. ASSUME NEW s \in Sides PROVE Frozen(pairs, n + 1, s)'
  <2>1. CASE frame[s] = t + 1
    BY <1>3, <1>7, <2>1 DEF Frozen
  <2>2. CASE frame[s] # t + 1
    <3>1. t >= horizon[s]
      BY <1>1, <1>2, <2>2 DEF Picture
    <3>2. t + 1 > horizon'[s]
      BY <1>1, <1>4, <3>1
    <3>3. frame[s] = IF n = 0 THEN 0 ELSE pairs[n][s]
      BY <1>8, <3>1 DEF FreezeInv
    <3>4. frame[s] = IF n + 1 = 1 THEN 0 ELSE pairs'[(n + 1) - 1][s]
      <4>1. n # 0 => n \in 1..n
        BY <1>1
      <4>2. (n + 1) - 1 = n /\ (n + 1 = 1 <=> n = 0)
        BY <1>1
      <4> QED
        BY <1>3, <3>3, <4>1, <4>2
    <3>5. \A j \in (n + 1)..Len(pairs') : pairs'[j][s] = frame[s]
      BY <1>1, <1>3
    <3> QED
      BY <1>3, <1>7, <3>2, <3>4, <3>5 DEF Frozen
  <2> QED
    BY <2>1, <2>2
<1>10. ASSUME NEW k \in 1..n, NEW s \in Sides PROVE Frozen(pairs, k, s)'
  <2>1. Frozen(pairs, k, s) /\ \A r \in Sides : pairs[k][r] \in Nat /\ pairs[k][r] <= t
    BY <1>1 DEF FreezeInv
  <2>2. Ahead(pairs', k) = Ahead(pairs, k) /\ Ahead(pairs, k) <= t
    BY <1>1, <1>3, <2>1 DEF Ahead, Longer, Sides
  <2>3. pairs'[k][s] = pairs[k][s] /\ (k # 1 => pairs'[k - 1][s] = pairs[k - 1][s])
    BY <1>1, <1>3
  <2>4. ASSUME pairs[k][s] # Ahead(pairs, k) PROVE frame[s] = pairs[k][s]
    <3>1. Ahead(pairs, k) > horizon[s] /\ pairs[n][s] = pairs[k][s] /\ n # 0
      BY <1>1, <2>1, <2>4 DEF Frozen
    <3>2. t >= horizon[s]
      BY <1>1, <2>1, <2>2, <3>1 DEF Ahead, Longer, Sides
    <3> QED
      BY <1>8, <3>1, <3>2 DEF FreezeInv
  <2>5. ASSUME pairs[k][s] # Ahead(pairs, k), NEW j \in k..Len(pairs')
        PROVE  pairs'[j][s] = pairs[k][s]
    <3>1. j \in k..(n + 1)
      BY <1>3
    <3>2. j \in k..n \/ j = n + 1
      <4>1. n \in Nat /\ k \in Nat
        BY <1>1
      <4> QED
        BY <3>1, <4>1
    <3>3. j \in k..n => j \in 1..n /\ pairs[j][s] = pairs[k][s]
      BY <1>1, <2>1, <2>5 DEF Frozen
    <3> QED
      BY <1>3, <2>4, <2>5, <3>2, <3>3
  <2> QED
    BY <1>4, <2>1, <2>2, <2>3, <2>5 DEF Frozen
<1>11. ASSUME NEW k \in 1..Len(pairs'), NEW s \in Sides PROVE Frozen(pairs, k, s)'
  <2>1. k \in 1..n \/ k = n + 1
    BY <1>1, <1>3
  <2> QED
    BY <1>9, <1>10, <2>1
<1> QED
  BY <1>5, <1>6, <1>11 DEF FreezeInv

\* No statement block thaws a side.
LEMMA StepFreezes == GateInv /\ FreezeInv /\ [Next]_vars => FreezeInv'
<1> SUFFICES ASSUME GateInv, FreezeInv, [Next]_vars PROVE FreezeInv'
  OBVIOUS
<1>1. CASE Tick
  <2>1. CASE /\ pairs' = Append(pairs, [s \in Sides |-> Picture(s)])
             /\ shown' = [s \in Sides |-> Picture(s)]
    BY <1>1, <2>1, TickFreezes
  <2>2. CASE UNCHANGED <<shown, pairs>>
    <3>1. t' = t + 1 /\ horizon' = horizon /\ t \in Nat
      BY <1>1, TickCountType DEF Tick, GateInv, Typed, TypeOK
    <3>2. \A k \in 1..Len(pairs) : \A s \in Sides : pairs[k][s] \in Nat
      BY DEF GateInv, Typed, TypeOK
    <3> QED
      BY <2>2, <3>1, <3>2 DEF FreezeInv, Frozen
  <2> QED
    BY <1>1, <2>1, <2>2 DEF Tick
<1>2. CASE StartSample
  <2>1. pairs' = <<>> /\ shown' = [s \in Sides |-> 0]
    BY <1>2 DEF StartSample
  <2> QED
    BY <2>1 DEF FreezeInv
<1>3. CASE Query
  <2>1. pairs = <<>> /\ UNCHANGED <<pairs, shown>>
    BY <1>3 DEF Query, GateInv, Typed, Fresh, Gate
  <2> QED
    BY <2>1 DEF FreezeInv
<1>4. CASE EndSample \/ Finish \/ Abort \/ UNCHANGED vars
  <2>1. UNCHANGED <<t, horizon, shown, pairs>>
    BY <1>4 DEF EndSample, Finish, Abort, vars
  <2> QED
    BY <2>1 DEF FreezeInv, Frozen
<1> QED
  BY <1>1, <1>2, <1>3, <1>4 DEF Next, Ended

\* The side that has run out of actions is frozen, in chunks of any lengths and
\* at any pair of rates.
THEOREM ShorterSideIsFrozen == Spec => []ShorterSideFreezes
<1>1. Init => FreezeInv
  BY DEF Init, FreezeInv
<1>2. GateInv /\ FreezeInv => ShorterSideFreezes
  <2> SUFFICES ASSUME GateInv, FreezeInv, NEW k \in 1..Len(pairs), NEW s \in Sides
               PROVE  LET ahead == Longer(pairs[k]["L"], pairs[k]["R"])
                      IN  pairs[k][s] # ahead =>
                            /\ ahead > horizon[s]
                            /\ pairs[k][s] = IF k = 1 THEN 0 ELSE pairs[k - 1][s]
                            /\ \A j \in k..Len(pairs) : pairs[j][s] = pairs[k][s]
    <3>1. GateInv => DOMAIN pairs = 1..Len(pairs)
      BY DEF GateInv, Typed, TypeOK
    <3> QED
      BY <3>1 DEF ShorterSideFreezes
  <2> QED
    BY DEF FreezeInv, Frozen, Ahead
<1> QED
  BY <1>1, <1>2, GateInvariant, StepFreezes, PTL DEF Spec

-----------------------------------------------------------------------------
(* How much of the policy's rollout is shown: PolicyShownToEnd, which the  *)
(* code does not keep, made exact.                                         *)

\* A policy's chunk that is not longer than the recorded one is followed to its
\* end like that one.
ShorterPolicyShown ==
    pc = "roll" /\ t = TickCount /\ horizon["R"] <= horizon["L"]
        => Age("R") <= period

\* Of a longer one at most one tick is shown after the recorded side has ended,
\* however long it goes on; as long as a tick is no longer than a frame.
LongerPolicyCut == step <= period => shown["R"] <= horizon["L"] + 1

\* While both sides have actions they show the same tick, and the policy's is
\* frozen within a frame period of its end if it ends first.
InStep ==
    /\ \A s \in Sides : shown[s] <= t /\ shown[s] <= horizon[s]
    /\ t <= horizon["L"] /\ t <= horizon["R"] => shown["R"] = shown["L"]
    /\ horizon["R"] <= t /\ horizon["R"] <= horizon["L"] =>
           horizon["R"] * step <= shown["R"] * step + period

\* Once the recorded side has ended its clock stands, and the next frame is due
\* after it: the gate can have opened once more, and never opens again.
Stalled ==
    step <= period =>
        /\ shown["R"] <= horizon["L"] + 1
        /\ t > horizon["L"] => time["L"] < next

\* Every statement block keeps the two sides in step.
LEMMA StepInStep == GateInv /\ GateInv' /\ InStep /\ [Next]_vars => InStep'
<1> SUFFICES ASSUME GateInv, GateInv', InStep, [Next]_vars PROVE InStep'
  OBVIOUS
<1>1. /\ step \in Nat /\ period \in Nat /\ step' \in Nat /\ period' \in Nat
      /\ t \in Nat /\ t' \in Nat
      /\ \A s \in Sides : /\ shown[s] \in Nat /\ shown'[s] \in Nat
                          /\ horizon[s] \in Nat /\ horizon'[s] \in Nat
      /\ "L" \in Sides /\ "R" \in Sides
  <2>1. /\ TypeOK /\ TypeOK'
        /\ Steps \subseteq Nat /\ Periods \subseteq Nat
    BY VideoAssumption DEF GateInv, Typed
  <2>2. TickCount \in Nat /\ TickCount' \in Nat
    BY <2>1 DEF TypeOK, TickCount, Longer, Sides
  <2>3. step \in Nat /\ period \in Nat /\ step' \in Nat /\ period' \in Nat
    BY <2>1 DEF TypeOK
  <2>4. t \in Nat /\ t' \in Nat
    BY <2>1, <2>2 DEF TypeOK
  <2>5. \A s \in Sides : /\ shown[s] \in Nat /\ shown'[s] \in Nat
                        /\ horizon[s] \in Nat /\ horizon'[s] \in Nat
    BY <2>1 DEF TypeOK
  <2> QED
    BY <2>3, <2>4, <2>5 DEF Sides
<1>2. CASE Tick
  <2>1. UNCHANGED <<step, period, horizon>> /\ t' = t + 1
    BY <1>2 DEF Tick
  <2>2. \A s \in Sides : shown'[s] = shown[s] \/ (t < horizon[s] /\ shown'[s] = t + 1)
    BY <1>2 DEF Tick, Picture
  <2>3. \A s \in Sides : shown'[s] <= t' /\ shown'[s] <= horizon'[s]
    BY <1>1, <2>1, <2>2 DEF InStep
  <2>4. ASSUME t' <= horizon'["L"], t' <= horizon'["R"] PROVE shown'["R"] = shown'["L"]
    <3>1. /\ t < horizon["L"] /\ t < horizon["R"] /\ shown["R"] = shown["L"]
      BY <1>1, <2>1, <2>4 DEF InStep
    <3> QED
      BY <1>2, <3>1 DEF Tick, Picture, Sides
  <2>5. ASSUME horizon'["R"] <= t', horizon'["R"] <= horizon'["L"]
        PROVE  horizon'["R"] * step' <= shown'["R"] * step' + period'
    <3>1. CASE t' = horizon'["R"]
      <4>1. shown'["R"] = shown'["L"]
        BY <1>1, <2>4, <2>5, <3>1
      <4>2. /\ time'["L"] = t' * step'
            /\ time'["L"] <= shown'["L"] * step' + period'
        BY <1>1, <2>5, <3>1 DEF GateInv, Gate
      <4> QED
        BY <3>1, <4>1, <4>2
    <3>2. CASE t' # horizon'["R"]
      <4>1. horizon["R"] <= t /\ horizon["R"] <= horizon["L"]
        BY <1>1, <2>1, <2>5, <3>2
      <4>2. shown'["R"] = shown["R"]
        BY <1>1, <2>2, <4>1
      <4>3. horizon["R"] * step <= shown["R"] * step + period
        BY <4>1 DEF InStep
      <4> QED
        BY <2>1, <4>2, <4>3
    <3> QED
      BY <3>1, <3>2
  <2> QED
    BY <2>3, <2>4, <2>5 DEF InStep
<1>3. CASE StartSample \/ Query
  <2>1. t' = 0 /\ shown' = [s \in Sides |-> 0]
    <3>1. CASE StartSample
      BY <3>1 DEF StartSample
    <3>2. CASE Query
      <4>1. t = 0 /\ t' = t /\ shown' = shown /\ shown \in [Sides -> Nat]
        BY <3>2 DEF Query, GateInv, Typed, TypeOK, Fresh
      <4>2. \A s \in Sides : shown[s] = 0
        BY <1>1, <4>1 DEF InStep
      <4> QED
        BY <4>1, <4>2
    <3> QED
      BY <1>3, <3>1, <3>2
  <2>2. \A s \in Sides : shown'[s] = 0
    BY <2>1
  <2>3. ASSUME horizon'["R"] <= t'
        PROVE  horizon'["R"] * step' <= shown'["R"] * step' + period'
    <3>1. horizon'["R"] = 0 /\ shown'["R"] = 0
      BY <1>1, <2>1, <2>2, <2>3
    <3>2. step' \in Nat /\ period' \in Nat
      BY <1>1
    <3>3. \A n \in Nat : 0 * n = 0 /\ 0 <= 0 + n
      OBVIOUS
    <3>4. 0 * step' = 0 /\ 0 <= 0 + period'
      BY <3>2, <3>3, Zenon
    <3> QED
      BY <3>1, <3>4, Zenon
  <2> QED
    BY <1>1, <2>1, <2>2, <2>3 DEF InStep
<1>4. CASE EndSample \/ Finish \/ Abort \/ UNCHANGED vars
  <2>1. UNCHANGED <<step, period, t, horizon, shown>>
    BY <1>4 DEF EndSample, Finish, Abort, vars
  <2> QED
    BY <2>1 DEF InStep
<1> QED
  BY <1>2, <1>3, <1>4 DEF Next, Ended

\* No statement block opens the gate of a stalled video.
LEMMA StepStalled == GateInv /\ InStep /\ Stalled /\ [Next]_vars => Stalled'
<1> SUFFICES ASSUME GateInv, InStep, Stalled, [Next]_vars, step' <= period'
             PROVE  /\ shown'["R"] <= horizon'["L"] + 1
                    /\ t' > horizon'["L"] => time'["L"] < next'
  BY DEF Stalled
<1>1. /\ step \in Nat /\ period \in Nat /\ period > 0 /\ t \in Nat /\ next \in Nat
      /\ horizon["L"] \in Nat /\ horizon["R"] \in Nat
      /\ shown["R"] \in Nat /\ time["L"] \in Nat
  BY VideoAssumption, TickCountType DEF GateInv, Typed, TypeOK, Sides
<1>2. UNCHANGED <<step, period>>
  BY DEF Next, StartSample, Query, Tick, EndSample, Finish, Abort, Ended, vars
<1>3. CASE Tick
  <2>1. horizon' = horizon /\ t' = t + 1 /\ time'["L"] = TimeAfter("L")
    BY <1>3 DEF Tick, Sides
  <2>2. CASE t < horizon["L"]
    <3>1. shown'["R"] = shown["R"] \/ shown'["R"] = t + 1
      BY <1>3 DEF Tick, Picture, Sides
    <3> QED
      BY <1>1, <1>2, <2>1, <2>2, <3>1 DEF Stalled
  <2>3. CASE t >= horizon["L"]
    <3>1. TimeAfter("L") = time["L"]
      BY <1>1, <2>3 DEF TimeAfter
    <3>2. CASE Due /\ shown' = [s \in Sides |-> Picture(s)] /\ NextDue
      <4>1. time["L"] >= next
        BY <3>1, <3>2 DEF Due
      <4>2. t = horizon["L"]
        BY <1>1, <1>2, <2>3, <4>1 DEF Stalled
      <4>3. time["L"] <= next
        BY <1>1, <1>2, <4>2 DEF GateInv, Gate
      <4>4. shown'["R"] = shown["R"] \/ shown'["R"] = t + 1
        BY <3>2 DEF Picture, Sides
      <4> QED
        BY <1>1, <1>2, <2>1, <3>1, <3>2, <4>2, <4>3, <4>4 DEF NextDue, Stalled
    <3>3. CASE ~Due /\ UNCHANGED <<shown, next>>
      BY <1>1, <1>2, <2>1, <3>1, <3>3 DEF Due, Stalled
    <3> QED
      BY <1>3, <3>2, <3>3 DEF Tick
  <2> QED
    BY <1>1, <2>2, <2>3
<1>4. CASE StartSample
  <2>1. t' = 0 /\ shown'["R"] = 0
    BY <1>4 DEF StartSample, Sides
  <2>2. PICK n \in Nat : horizon' = [L |-> n, R |-> 0]
    BY <1>4, HorizonType DEF StartSample
  <2> QED
    BY <2>1, <2>2
<1>5. CASE Query
  <2>1. UNCHANGED <<t, shown, time, next>> /\ horizon'["L"] = horizon["L"]
    BY <1>5 DEF Query, GateInv, Typed, TypeOK, Sides
  <2> QED
    BY <1>1, <1>2, <2>1 DEF Stalled
<1>6. CASE EndSample \/ Finish \/ Abort \/ UNCHANGED vars
  <2>1. UNCHANGED <<t, horizon, time, next, shown>>
    BY <1>6 DEF EndSample, Finish, Abort, vars
  <2> QED
    BY <1>1, <1>2, <2>1 DEF Stalled
<1> QED
  BY <1>3, <1>4, <1>5, <1>6 DEF Next, Ended

\* A policy's chunk is shown to its end if it is not the longer one; otherwise
\* the video stands still from the recorded side's end, if a tick is no longer
\* than a frame, as by default (60 and 30 Hz).
THEOREM PolicyIsShownOrCut == Spec => [](ShorterPolicyShown /\ LongerPolicyCut)
<1>1. Init => InStep /\ Stalled
  <2> SUFFICES ASSUME Init PROVE InStep /\ Stalled
    OBVIOUS
  <2>1. /\ t = 0 /\ \A s \in Sides : shown[s] = 0 /\ horizon[s] = 0
        /\ step \in Nat /\ period \in Nat
    BY VideoAssumption DEF Init
  <2>2. 0 * step = 0 /\ 0 <= 0 + period
    BY <2>1
  <2> QED
    BY <2>1, <2>2 DEF InStep, Stalled, Sides
<1>2. GateInv /\ InStep /\ Stalled => ShorterPolicyShown /\ LongerPolicyCut
  <2> SUFFICES ASSUME GateInv, InStep, Stalled
               PROVE  ShorterPolicyShown /\ LongerPolicyCut
    OBVIOUS
  <2>1. LongerPolicyCut
    BY DEF Stalled, LongerPolicyCut
  <2>2. ASSUME t = TickCount, horizon["R"] <= horizon["L"] PROVE Age("R") <= period
    <3>1. /\ horizon \in [Sides -> Nat] /\ step \in Nat /\ period \in Nat
          /\ shown["R"] \in Nat /\ horizon["L"] \in Nat /\ horizon["R"] \in Nat
      BY VideoAssumption DEF GateInv, Typed, TypeOK, Sides
    <3>2. horizon["R"] <= t
      BY <2>2, <3>1, TickCountType
    <3>3. horizon["R"] * step <= shown["R"] * step + period
      BY <2>2, <3>2 DEF InStep
    <3>4. (horizon["R"] - shown["R"]) * step = horizon["R"] * step - shown["R"] * step
      BY <3>1
    <3>5. horizon["R"] * step \in Nat /\ shown["R"] * step \in Nat
      BY <3>1
    <3> QED
      BY <3>1, <3>3, <3>4, <3>5 DEF Age
  <2> QED
    BY <2>1, <2>2 DEF ShorterPolicyShown
<1> QED
  BY <1>1, <1>2, GateInvariant, StepInStep, StepStalled, PTL DEF Spec
=============================================================================
