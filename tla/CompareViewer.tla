----------------------------- MODULE CompareViewer -----------------------------
(***************************************************************************)
(* sim/check_in_sim.py, run_compare_slim with _run_chunk and               *)
(* _snap_to_state14: in the live viewer, each sample's recorded chunk and  *)
(* the policy's chunk one after the other in the same simulation.          *)
(*                                                                         *)
(* Wall time is counted in control periods; pauses and inferences take     *)
(* whole periods, nothing else takes time.  Of the simulated state there   *)
(* are the two fingers of a gripper: the driver, one of the 14 joints, and *)
(* the follower, coupled to it by an equality constraint of the scene and  *)
(* not among the 14.  MuJoCo is external: whatever was commanded, after a  *)
(* control tick the driver is somewhere and the follower where it is.      *)
(***************************************************************************)
EXTENDS Integers, Sequences

CONSTANTS Samples,        \* number of samples in the bundle
          Lengths,        \* lengths a recorded or predicted chunk may have
          ActionHorizon,  \* --action-horizon
          NoHorizon,      \* value of ActionHorizon for None
          Pause,          \* --pause-s, in control periods
          Delays,         \* control periods an inference may take
          Grips,          \* positions of a finger
          Rest            \* the one it has in a new MjData

ASSUME ViewerAssumption ==
    /\ Samples \in Nat
    /\ Lengths \subseteq Nat
    /\ ActionHorizon \in Nat \cup {NoHorizon}
    /\ Pause \in Nat
    /\ Delays \subseteq Nat
    /\ Rest \in Grips

VARIABLES
    pc,        \* next statement block
    phase,     \* whose chunk it is about
    sample,    \* s_idx
    state,     \* the driver in s["state"]
    horizon,   \* H_rec and H_pol
    h,         \* next action of the chunk
    driver,    \* qpos of the driver
    follower,  \* qpos of the follower
    start,     \* both fingers after each snap of this sample
    ran,       \* actions of this sample that were executed
    wall,      \* time.perf_counter()
    t0,        \* t_wall0 of _run_chunk
    running,   \* viewer.is_running()
    late       \* inferences asked for after the viewer was closed

vars == <<pc, phase, sample, state, horizon, h, driver, follower, start, ran,
          wall, t0, running, late>>

Phases == {"recorded", "policy"}
Fingers == [driver : Grips, follower : Grips]

\* chunk[:min(action_horizon, len(chunk))]
Horizon(len) ==
    IF ActionHorizon = NoHorizon \/ len <= ActionHorizon THEN len
    ELSE ActionHorizon

TypeOK ==
    /\ pc \in {"sample", "pause", "ask", "wait", "run", "done", "failed"}
    /\ phase \in Phases
    /\ sample \in 0..Samples
    /\ horizon \in [Phases -> Nat]
    /\ h \in 0..horizon[phase]
    /\ {state, driver, follower} \subseteq Grips
    /\ start \in [Phases -> Fingers]
    /\ ran \in Seq([phase : Phases, idx : Nat, at : Nat])
    /\ wall \in Nat /\ t0 \in Nat
    /\ running \in BOOLEAN
    /\ late \in Nat

\* init_to_first_frame sets the driver as well, and not the follower.
Init ==
    /\ pc = "sample" /\ phase = "recorded" /\ sample = 0
    /\ horizon = [p \in Phases |-> 0] /\ h = 0
    /\ state \in Grips /\ driver = state /\ follower = Rest
    /\ start = [p \in Phases |-> [driver |-> driver, follower |-> follower]]
    /\ ran = <<>>
    /\ wall = 0 /\ t0 = 0
    /\ running = TRUE /\ late = 0

-----------------------------------------------------------------------------

\* Mutant: only the first rollout of a sample is snapped.
SnapOnce(p) ==
    /\ driver' = IF p = "recorded" THEN state' ELSE driver
    /\ UNCHANGED follower
    /\ start' = [start EXCEPT ![p] = [driver |-> driver', follower |-> follower]]

\* _snap_to_state14: the 14 joints are set, every other one stays.
Snap(p) ==
    /\ driver' = state'
    /\ UNCHANGED follower
    /\ start' = [start EXCEPT ![p] = [driver |-> driver', follower |-> follower]]

\* Mutant: the window is not looked at between samples.
UntilSamplesEnd == sample < Samples

\* for s_idx, s in enumerate(samples), if not viewer.is_running(): break
GoesOn == sample < Samples /\ running

\* The next sample: snap for its recorded chunk.
StartSample ==
    /\ pc = "sample" /\ GoesOn
    /\ state' \in Grips
    /\ \E len \in Lengths : horizon' = [recorded |-> Horizon(len), policy |-> 0]
    /\ h' = 0
    /\ ran' = <<>>
    /\ Snap("recorded")
    /\ phase' = "recorded"
    /\ pc' = "pause"
    /\ UNCHANGED <<sample, wall, t0, running, late>>

\* Mutant: the clock of the recorded chunk is used for both.
ClockOfSample == t0' = IF phase = "recorded" THEN wall' ELSE t0

\* t_wall0 = time.perf_counter()
ChunkClock == t0' = wall'

\* Mutant: the pause waits for a window that is gone.
PauseInWindow == running /\ wall' = wall + Pause

\* The pause, cut short when the viewer is closed.
PauseOver ==
    \E d \in 0..Pause : (running => d = Pause) /\ wall' = wall + d

\* After the pause: _run_chunk for the recorded chunk, the query for the other.
EndPause ==
    /\ pc = "pause"
    /\ PauseOver
    /\ \/ phase = "recorded" /\ pc' = "run" /\ ChunkClock
       \/ phase = "policy" /\ pc' = "ask" /\ UNCHANGED t0
    /\ UNCHANGED <<phase, sample, state, horizon, h, driver, follower, start,
                   ran, running, late>>

\* client.infer is called, whether the viewer is still there or not.
Ask ==
    /\ pc = "ask"
    /\ pc' = "wait"
    /\ late' = IF running THEN late ELSE late + 1
    /\ UNCHANGED <<phase, sample, state, horizon, h, driver, follower, start,
                   ran, wall, t0, running>>

\* The chunk arrives: _run_chunk.
Answer ==
    /\ pc = "wait"
    /\ \E len \in Lengths : horizon' = [horizon EXCEPT !["policy"] = Horizon(len)]
    /\ \E d \in Delays : wall' = wall + d
    /\ ChunkClock
    /\ pc' = "run"
    /\ UNCHANGED <<phase, sample, state, h, driver, follower, start, ran,
                   running, late>>

\* Mutant: one action too many.
OneMoreAction == h <= horizon[phase]

\* for h in range(len(chunk))
MoreActions == h < horizon[phase]

\* One pass of _run_chunk: sleep until it is due, command, simulate.
RunAction ==
    /\ pc = "run" /\ MoreActions /\ running
    /\ wall' = IF wall < t0 + h THEN t0 + h ELSE wall
    /\ ran' = Append(ran, [phase |-> phase, idx |-> h, at |-> wall'])
    /\ driver' \in Grips /\ follower' = driver'
    /\ h' = h + 1
    /\ UNCHANGED <<pc, phase, sample, state, horizon, start, t0, running, late>>

ChunkOver == pc = "run" /\ (h >= horizon[phase] \/ ~running)

\* Mutant: the second chunk goes on where the first one ended.
SamePlace == UNCHANGED h

\* Each call of _run_chunk counts from the start.
FirstAction == h' = 0

\* The recorded chunk is over: snap back, also when the viewer is closed.
RecordedOver ==
    /\ ChunkOver /\ phase = "recorded"
    /\ UNCHANGED state
    /\ Snap("policy")
    /\ phase' = "policy"
    /\ FirstAction
    /\ pc' = "pause"
    /\ UNCHANGED <<sample, horizon, ran, wall, t0, running, late>>

\* The policy's chunk is over, the differences are printed.
PolicyOver ==
    /\ ChunkOver /\ phase = "policy"
    /\ sample' = sample + 1
    /\ pc' = "sample"
    /\ UNCHANGED <<phase, state, horizon, h, driver, follower, start, ran,
                   wall, t0, running, late>>

Finish ==
    /\ pc = "sample" /\ ~GoesOn
    /\ pc' = "done"
    /\ UNCHANGED <<phase, sample, state, horizon, h, driver, follower, start,
                   ran, wall, t0, running, late>>

\* infer raises, a chunk does not fit, or Ctrl-C: the exception goes on.
Abort ==
    /\ pc \notin {"done", "failed"}
    /\ pc' = "failed"
    /\ UNCHANGED <<phase, sample, state, horizon, h, driver, follower, start,
                   ran, wall, t0, running, late>>

\* The user closes the window.
CloseViewer ==
    /\ running
    /\ running' = FALSE
    /\ UNCHANGED <<pc, phase, sample, state, horizon, h, driver, follower,
                   start, ran, wall, t0, late>>

Ended == pc \in {"done", "failed"} /\ UNCHANGED vars

Program ==
    \/ StartSample \/ EndPause \/ Ask \/ Answer \/ RunAction
    \/ RecordedOver \/ PolicyOver \/ Finish

Next == Program \/ Abort \/ CloseViewer \/ Ended

Spec == Init /\ [][Next]_vars

\* One thread; for Answer it says that the server answers.
FairSpec == Spec /\ WF_vars(Program)

-----------------------------------------------------------------------------

\* Both rollouts of a sample start with the 14 joints at the recorded state.
DriversStartAlike ==
    pc = "run" /\ phase = "policy" =>
        start["policy"].driver = start["recorded"].driver

\* Within a chunk the actions come one control period apart, however long the
\* pause before it and the inference took: each chunk has its own clock, so
\* that the policy's rollout does not rush to make up for its inference.
EvenlyPaced ==
    \A i \in 1..(Len(ran) - 1) :
        ran[i].phase = ran[i + 1].phase => ran[i + 1].at = ran[i].at + 1

\* A sample that was looked at to its end showed all of the recorded actions
\* in order, then all of the policy's, each up to the horizon.
BothShownInOrder ==
    pc = "sample" /\ sample > 0 /\ running =>
        /\ Len(ran) = horizon["recorded"] + horizon["policy"]
        /\ \A i \in 1..Len(ran) :
               LET recorded == i <= horizon["recorded"]
               IN  /\ (ran[i].phase = "recorded") <=> recorded
                   /\ ran[i].idx = i - 1 - (IF recorded THEN 0
                                            ELSE horizon["recorded"])

\* Once the window is closed the server is asked at most once more.
OneLateInference == late <= 1

\* A comparison ends, by itself or when the window is closed.
CompareEnds == <>(pc \in {"done", "failed"})

\* sim/README.md:109: "Snap back to the same starting state".
SameStartingState ==
    pc = "run" /\ phase = "policy" => start["policy"] = start["recorded"]
=============================================================================
