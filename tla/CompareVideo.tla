---------------------------- MODULE CompareVideo -----------------------------
(***************************************************************************)
(* sim/check_in_sim.py, run_compare_slim_dual_video and _DualVideoSink:    *)
(* two simulations side by side in one video, the recorded actions on the  *)
(* left (L), the policy's on the right (R), sample after sample.           *)
(*                                                                         *)
(* Simulated time is counted in integer units: a control tick is step      *)
(* units (inner_steps * sim_dt), a video frame period units (1 / fps).     *)
(* The 1e-9 in the code's comparison absorbs the rounding of its floats,   *)
(* so the comparison is exact here.  A picture is the pose it shows, and a *)
(* pose is the number of actions that side has executed; physics is        *)
(* MuJoCo's.                                                               *)
(***************************************************************************)
EXTENDS Integers, Sequences

CONSTANTS Samples,        \* number of samples in the bundle
          Lengths,        \* lengths a recorded or predicted chunk may have
          ActionHorizon,  \* --action-horizon
          NoHorizon,      \* value of ActionHorizon for None
          Steps,          \* control ticks to consider, in units of time
          Periods         \* frame periods to consider

ASSUME VideoAssumption ==
    /\ Samples \in Nat
    /\ Lengths \subseteq Nat
    /\ ActionHorizon \in Nat \cup {NoHorizon}
    /\ Steps \subseteq Nat \ {0}
    /\ Periods \subseteq Nat \ {0}

VARIABLES
    step,     \* length of a control tick
    period,   \* sink.dt_video
    pc,       \* next statement block
    sample,   \* s_idx
    t,        \* control ticks of this sample that have run
    horizon,  \* H_rec and H_pol
    time,     \* data_L.time and data_R.time
    next,     \* sink.next_t
    shown,    \* last_L and last_R
    pairs,    \* frame pairs written since this sample's title card
    closed    \* sink._closed

vars == <<step, period, pc, sample, t, horizon, time, next, shown, pairs, closed>>

Sides == {"L", "R"}

Shorter(m, n) == IF m <= n THEN m ELSE n
Longer(m, n) == IF m <= n THEN n ELSE m

\* chunk[:min(action_horizon, len(chunk))]
Horizon(len) ==
    IF ActionHorizon = NoHorizon THEN len ELSE Shorter(ActionHorizon, len)

\* H_max, or what it will be
TickCount == Longer(horizon["L"], horizon["R"])

TypeOK ==
    /\ step \in Steps /\ period \in Periods
    /\ pc \in {"sample", "query", "roll", "done", "failed"}
    /\ sample \in 0..Samples
    /\ t \in 0..TickCount
    /\ horizon \in [Sides -> Nat]
    /\ time \in [Sides -> Nat]
    /\ next \in Nat
    /\ shown \in [Sides -> Nat]
    /\ pairs \in Seq([Sides -> Nat])
    /\ closed \in BOOLEAN

Init ==
    /\ step \in Steps /\ period \in Periods
    /\ pc = "sample" /\ sample = 0 /\ t = 0
    /\ horizon = [s \in Sides |-> 0]
    /\ time = [s \in Sides |-> 0]
    /\ next = 0
    /\ shown = [s \in Sides |-> 0]
    /\ pairs = <<>>
    /\ closed = FALSE

-----------------------------------------------------------------------------

\* Mutant: the gate of the sample before is kept.
KeepGate == UNCHANGED next

\* sink.next_t = 0.0, for every sample anew.
RestartGate == next' = 0

\* Both sides snap to the recorded state, their clocks and the gate restart,
\* the title card holds the picture of that pose.
StartSample ==
    /\ pc = "sample" /\ sample < Samples
    /\ \E len \in Lengths : horizon' = [L |-> Horizon(len), R |-> 0]
    /\ t' = 0
    /\ time' = [s \in Sides |-> 0]
    /\ RestartGate
    /\ shown' = [s \in Sides |-> 0]
    /\ pairs' = <<>>
    /\ pc' = "query"
    /\ UNCHANGED <<step, period, sample, closed>>

\* client.infer returns a chunk.
Query ==
    /\ pc = "query"
    /\ \E len \in Lengths : horizon' = [horizon EXCEPT !["R"] = Horizon(len)]
    /\ pc' = "roll"
    /\ UNCHANGED <<step, period, sample, t, time, next, shown, pairs, closed>>

\* After mj_step: the clock of a side runs only while it has actions.
TimeAfter(s) == time[s] + (IF t < horizon[s] THEN step ELSE 0)

\* Mutant: the gate looks at the other side's clock.
DueByPolicySide == TimeAfter("R") >= next

\* The gate: enough simulated time has passed for the next frame.
Due == TimeAfter("L") >= next

\* Mutant: a side is rendered whether it has actions left or not.
PictureAlways(s) == Shorter(t + 1, horizon[s])

\* What side s shows in the frame of this tick: a new rendering while it has
\* actions, the last one from then on.
Picture(s) == IF t < horizon[s] THEN t + 1 ELSE shown[s]

\* Mutant: the next frame is due a period after this tick: the gate drifts.
NextDueFromNow == next' = TimeAfter("L") + period

\* sink.next_t += sink.dt_video
NextDue == next' = next + period

\* Mutant: one tick too many.
OneMoreTick == t <= TickCount

\* for t in range(H_max)
MoreTicks == t < TickCount

\* One pass of the per-tick loop.
Tick ==
    /\ pc = "roll" /\ MoreTicks
    /\ t' = t + 1
    /\ time' = [s \in Sides |-> TimeAfter(s)]
    /\ \/ /\ Due
          /\ shown' = [s \in Sides |-> Picture(s)]
          /\ pairs' = Append(pairs, [s \in Sides |-> Picture(s)])
          /\ NextDue
       \/ /\ ~Due
          /\ UNCHANGED <<shown, pairs, next>>
    /\ UNCHANGED <<step, period, pc, sample, horizon, closed>>

EndSample ==
    /\ pc = "roll" /\ t = TickCount
    /\ sample' = sample + 1
    /\ pc' = "sample"
    /\ UNCHANGED <<step, period, t, horizon, time, next, shown, pairs, closed>>

\* The with block is left after the last sample: the sink is closed.
Finish ==
    /\ pc = "sample" /\ sample = Samples
    /\ pc' = "done"
    /\ closed' = TRUE
    /\ UNCHANGED <<step, period, sample, t, horizon, time, next, shown, pairs>>

\* The server's error, a chunk that does not fit, or Ctrl-C: __exit__ closes
\* the sink and the exception goes on.
Abort ==
    /\ pc \in {"sample", "query", "roll"}
    /\ pc' = "failed"
    /\ closed' = TRUE
    /\ UNCHANGED <<step, period, sample, t, horizon, time, next, shown, pairs>>

Ended == pc \in {"done", "failed"} /\ UNCHANGED vars

Next == StartSample \/ Query \/ Tick \/ EndSample \/ Finish \/ Abort \/ Ended

Spec == Init /\ [][Next]_vars

-----------------------------------------------------------------------------

\* The video plays at the speed of the simulation: while the recorded side
\* has actions, k frames stand for a simulated time between k-1 and k frame
\* periods.  Needs at least one frame period per control tick, fps <= ctrl_hz.
VideoTracksSim ==
    step <= period /\ t <= horizon["L"] =>
        /\ (Len(pairs) - 1) * period <= time["L"]
        /\ time["L"] <= Len(pairs) * period

\* What a sample's rollout shows begins with its first tick, whatever the
\* samples before it left in the gate.
EverySampleShown == t > 0 => pairs # <<>> /\ \E s \in Sides : pairs[1][s] = 1

\* In every frame either both sides show the same tick, or the one that shows
\* the earlier tick has no action left and is frozen: it shows what it showed
\* when it last had actions (the title card, if it never was in a frame), and
\* that never changes again, also when frames were skipped in between.
ShorterSideFreezes ==
    \A k \in DOMAIN pairs : \A s \in Sides :
        LET ahead == Longer(pairs[k]["L"], pairs[k]["R"])
        IN  pairs[k][s] # ahead =>
                /\ ahead > horizon[s]
                /\ pairs[k][s] = IF k = 1 THEN 0 ELSE pairs[k - 1][s]
                /\ \A j \in k..Len(pairs) : pairs[j][s] = pairs[k][s]

\* Age of the picture of side s at the end of a rollout.
Age(s) == (horizon[s] - shown[s]) * step

\* If the recorded chunk is not the shorter one, the video follows it to its
\* end: the last picture of it is at most a frame period old.
ReplayShownToEnd ==
    pc = "roll" /\ t = TickCount /\ horizon["L"] >= horizon["R"]
        => Age("L") <= period

\* check_in_sim.py:501: "Shorter side freezes on its last rendered frame until
\* the longer side finishes" -- so that the longer one, here the policy's, is
\* shown to its end too.
PolicyShownToEnd ==
    pc = "roll" /\ t = TickCount /\ horizon["R"] > horizon["L"]
        => Age("R") <= period
=============================================================================
