------------------------------- MODULE Rollout --------------------------------
(***************************************************************************)
(* sim/check_in_sim.py, run_replay and run_policy with _VideoSink, and the *)
(* part of scripts/_client.py they use: the loop that streams recorded or  *)
(* predicted actions into one simulation.                                  *)
(*                                                                         *)
(* Frames are numbered from 0 as in the bundle.  Simulated time is counted *)
(* in integer units, a control tick is step units and a video frame period *)
(* units; wall time is counted in control periods (ctrl_dt / speed).  An   *)
(* action is named by the frame its chunk was asked for (obs) and its      *)
(* place in the chunk (idx).  Physics and rendering are MuJoCo's.          *)
(***************************************************************************)
EXTENDS Integers, Sequences

CONSTANTS Frames,         \* T, length of the recording
          Modes,          \* values of --mode to consider
          Sinks,          \* "video" with --output, else "viewer"
          ActionHorizon,  \* --action-horizon
          Lengths,        \* lengths a predicted chunk may have
          Delays,         \* whole control periods an inference may take
          Steps, Periods  \* lengths of a control tick and of a video frame

ASSUME RolloutAssumption ==
    /\ Frames \in Nat
    /\ Modes \subseteq {"replay", "policy"}
    /\ Sinks \subseteq {"video", "viewer"}
    /\ ActionHorizon \in Int
    /\ Lengths \subseteq Nat
    /\ Delays \subseteq Nat
    /\ Steps \subseteq Nat \ {0}
    /\ Periods \subseteq Nat \ {0}

VARIABLES
    mode, sink,    \* what was asked for on the command line
    step, period,  \* its control tick and sink.dt_video
    pc,            \* next statement block
    k,             \* frame
    obs,           \* frame the current chunk was asked for
    h, H,          \* next action of it, actions of it to execute
    wall,          \* time.perf_counter() - t_wall0
    running,       \* viewer.is_running()
    time,          \* data.time
    next,          \* sink.next_t
    executed,      \* actions executed, with the wall time of each
    captured,      \* simulated time of each video frame
    closed         \* the sink is closed

loopVars == <<k, obs, h, H>>
simVars == <<time, next, executed, captured>>
confVars == <<mode, sink, step, period>>
vars == <<confVars, pc, loopVars, wall, running, simVars, closed>>

Shorter(m, n) == IF m <= n THEN m ELSE n

TypeOK ==
    /\ mode \in Modes /\ sink \in Sinks
    /\ step \in Steps /\ period \in Periods
    /\ pc \in {"loop", "wait", "chunk", "done", "failed"}
    /\ k \in 0..Frames
    /\ obs \in 0..Frames
    /\ h \in Nat /\ H \in Int
    /\ wall \in Nat
    /\ running \in BOOLEAN
    /\ time \in Nat /\ next \in Nat
    /\ executed \in Seq([obs : Nat, idx : Nat, at : Nat])
    /\ captured \in Seq(Nat)
    /\ closed \in BOOLEAN

Init ==
    /\ mode \in Modes /\ sink \in Sinks
    /\ step \in Steps /\ period \in Periods
    /\ pc = "loop" /\ k = 0 /\ obs = 0 /\ h = 0 /\ H = 0
    /\ wall = 0 /\ running = TRUE
    /\ time = 0 /\ next = 0
    /\ executed = <<>> /\ captured = <<>>
    /\ closed = FALSE

-----------------------------------------------------------------------------

\* Mutant: the end of the recording is not looked at inside a chunk.
UntilClosed == running

\* viewer.is_running() and k < T
GoesOn == running /\ k < Frames

\* With a viewer the loop sleeps until frame k is due; a frame that is late
\* already runs at once.  Video is not throttled.
Due(frame) == IF sink = "viewer" /\ wall < frame THEN frame ELSE wall

\* Mutant: the deadline counts from the start of the chunk.
DueInChunk == wall' = Due(h)

SleepUntilDue == wall' = Due(k)

\* Mutant: the next frame is due a period after this one: the gate drifts.
SyncDrifts ==
    IF sink = "video" /\ time' >= next
    THEN captured' = Append(captured, time') /\ next' = time' + period
    ELSE UNCHANGED <<captured, next>>

\* Mutant: the picture is taken before the action is simulated.
SyncBeforeTick ==
    IF sink = "video" /\ time >= next
    THEN captured' = Append(captured, time) /\ next' = next + period
    ELSE UNCHANGED <<captured, next>>

\* _VideoSink.sync: capture if enough simulated time has passed.  The live
\* viewer's sync only refreshes the screen.
Sync ==
    IF sink = "video" /\ time' >= next
    THEN captured' = Append(captured, time') /\ next' = next + period
    ELSE UNCHANGED <<captured, next>>

\* action14_to_ctrl, inner_steps times mj_step, sync, k += 1.
Execute(frame, idx) ==
    /\ SleepUntilDue
    /\ executed' = Append(executed, [obs |-> frame, idx |-> idx, at |-> wall'])
    /\ time' = time + step
    /\ Sync
    /\ k' = k + 1

\* One pass of run_replay's loop: the recorded action of this very frame.
ReplayFrame ==
    /\ mode = "replay" /\ pc = "loop" /\ GoesOn
    /\ Execute(k, 0)
    /\ UNCHANGED <<confVars, pc, obs, h, H, running, closed>>

\* run_policy builds the observation of frame k and calls client.infer.
Ask ==
    /\ mode = "policy" /\ pc = "loop" /\ GoesOn
    /\ obs' = k
    /\ pc' = "wait"
    /\ UNCHANGED <<confVars, k, h, H, wall, running, simVars, closed>>

\* Mutant: one action of every chunk is dropped.
ExecuteAllButOne(len) == Shorter(ActionHorizon, len) - 1

\* H = min(action_horizon, len(chunk))
ToExecute(len) == Shorter(ActionHorizon, len)

\* Mutant: the loop over the chunk goes on where the last chunk ended.
SameAction == UNCHANGED h

\* for h in range(H)
FirstAction == h' = 0

\* The chunk arrives, after the policy has taken its time.
Answer ==
    /\ pc = "wait"
    /\ \E len \in Lengths : H' = ToExecute(len)
    /\ \E d \in Delays : wall' = wall + d
    /\ FirstAction
    /\ pc' = "chunk"
    /\ UNCHANGED <<confVars, k, obs, running, simVars, closed>>

\* infer raises: a text frame is the server's error, or the connection is gone.
AnswerFails ==
    /\ pc = "wait"
    /\ pc' = "failed"
    /\ closed' = TRUE
    /\ UNCHANGED <<confVars, loopVars, wall, running, simVars>>

\* One pass of the loop over the chunk.
ChunkAction ==
    /\ pc = "chunk" /\ h < H /\ GoesOn
    /\ Execute(obs, h)
    /\ h' = h + 1
    /\ UNCHANGED <<confVars, pc, obs, H, running, closed>>

ChunkEnds ==
    /\ pc = "chunk"
    /\ h >= H \/ ~GoesOn
    /\ pc' = "loop"
    /\ UNCHANGED <<confVars, loopVars, wall, running, simVars, closed>>

\* The loop is over, the with block is left.
Finish ==
    /\ pc = "loop" /\ ~GoesOn
    /\ pc' = "done"
    /\ closed' = TRUE
    /\ UNCHANGED <<confVars, loopVars, wall, running, simVars>>

\* The user closes the viewer window.  Nothing stops a video.
CloseViewer ==
    /\ sink = "viewer" /\ running
    /\ running' = FALSE
    /\ UNCHANGED <<confVars, pc, loopVars, wall, simVars, closed>>

\* Ctrl-C: the exception leaves the with block.
Interrupt ==
    /\ pc \in {"loop", "wait", "chunk"}
    /\ pc' = "failed"
    /\ closed' = TRUE
    /\ UNCHANGED <<confVars, loopVars, wall, running, simVars>>

Ended == pc \in {"done", "failed"} /\ UNCHANGED vars

Program ==
    \/ ReplayFrame \/ Ask \/ Answer \/ AnswerFails
    \/ ChunkAction \/ ChunkEnds \/ Finish

Next == Program \/ CloseViewer \/ Interrupt \/ Ended

Spec == Init /\ [][Next]_vars

\* The program is one thread and is scheduled.  For Answer and AnswerFails
\* this says that the server answers or the connection breaks: client.infer
\* has no timeout of its own, see ObservationsAnswered of PolicyServer.
FairSpec == Spec /\ WF_vars(Program)

-----------------------------------------------------------------------------

\* Frame after frame exactly one action is executed: the one that was recorded
\* or predicted for that frame, idx ticks after the observation, and no
\* prediction whose observation is ActionHorizon or more frames old.
ActionsAligned ==
    /\ Len(executed) = k
    /\ \A i \in 1..Len(executed) :
           /\ executed[i].obs + executed[i].idx = i - 1
           /\ mode = "policy" => executed[i].idx < ActionHorizon

\* In the viewer no action is executed before its time in the recording,
\* even if the loop has to catch up after a slow inference.
NeverEarly ==
    sink = "viewer" =>
        \A i \in 1..Len(executed) : executed[i].at >= i - 1

\* A video of at most one frame per control tick plays at simulated speed:
\* after each tick, k frames stand for k-1 to k frame periods.
VideoKeepsPace ==
    sink = "video" /\ step <= period =>
        /\ (Len(captured) - 1) * period <= time
        /\ time <= Len(captured) * period

\* The last picture of a finished rollout is at most a frame period old.
EndIsShown ==
    sink = "video" /\ pc = "done" /\ k > 0 =>
        captured # <<>> /\ time - captured[Len(captured)] <= period

\* Every rollout ends, if each round executes something.  With an
\* --action-horizon of 0 or less, which the compare modes take for "the whole
\* chunk", or a policy that returns an empty chunk, run_policy asks for the
\* same frame for ever.
RolloutEnds ==
    ActionHorizon >= 1 /\ 0 \notin Lengths => <>(pc \in {"done", "failed"})
=============================================================================
