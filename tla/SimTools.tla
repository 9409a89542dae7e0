------------------------------ MODULE SimTools -------------------------------
(***************************************************************************)
(* The quick start: launch.py serves the echo policy, smoke_test.py tries  *)
(* it, check_in_sim.py drives the arms with it or with a recording.  What  *)
(* this module looks at is what the arms are told; when they are told, and *)
(* how connections fail, is in Rollout and ClientServer.                   *)
(*                                                                         *)
(* MuJoCo is external: a control tick moves the joints anywhere.           *)
(***************************************************************************)
EXTENDS RobotIO, EchoPolicy

CONSTANTS Settings,       \* command lines: sequences of --policy-kwargs
          Actions,        \* actions that occur in a recording
          Places,         \* where ticks take the joints: a function of joints
          Modes,          \* --mode, a subset of {"replay", "policy"}
          Sources,        \* --source, a subset of {"actions", "gello_actions"}
          Frames,         \* length of the recording
          ActionHorizon   \* --action-horizon

ASSUME ToolsAssumption ==
    /\ Actions \subseteq [1..Dim -> Int]
    /\ Places \subseteq [Joints -> Int]
    /\ Modes \subseteq {"replay", "policy"}
    /\ Sources \subseteq {"actions", "gello_actions"}
    /\ Frames \in Nat \ {0}
    /\ ActionHorizon \in Int

VARIABLES
    settings,  \* the command line of launch.py
    server,    \* "down", "failed", or "up" with policy
    policy,    \* attributes of the EchoPolicy
    smoke,     \* what smoke_test.py printed: verdict and width of the chunk
    mode,      \* --mode of check_in_sim.py
    source,    \* --source: the stream that is replayed
    first,     \* bundle["actions"][0]
    stream,    \* bundle[source]
    sim,       \* where check_in_sim.py is
    k, h,      \* frame, action of the chunk
    chunk,     \* the policy's chunk
    asked,     \* pose in which the observation was made
    qpos, ctrl \* data.qpos and data.ctrl of the 14 joints

policyVars == <<settings, server, policy>>
runVars == <<mode, source, first, stream>>
simVars == <<runVars, sim, k, h, chunk, asked, qpos, ctrl>>
vars == <<policyVars, smoke, simVars>>

NoVerdict == [verdict |-> "none", cols |-> 0]
NoChunk == [rows |-> 0, row |-> <<>>]
AtRest == [n \in Joints |-> 0]

Init ==
    /\ settings \in Settings
    /\ server = "down" /\ policy = Defaults
    /\ smoke = NoVerdict
    /\ mode \in Modes /\ source \in Sources
    /\ first \in Actions
    /\ stream \in [1..Frames -> Actions]
    /\ source = "actions" => stream[1] = first
    /\ sim = "off" /\ k = 0 /\ h = 0
    /\ chunk = NoChunk /\ asked = AtRest
    /\ qpos = AtRest /\ ctrl = AtRest

-----------------------------------------------------------------------------
(* launch.py and smoke_test.py.                                            *)

Launch ==
    /\ server = "down"
    /\ LET kw == KvList(settings)
       IN  IF Parses(settings) /\ Constructs(kw)
           THEN server' = "up" /\ policy' = Echo(kw)
           ELSE server' = "failed" /\ UNCHANGED policy
    /\ UNCHANGED <<settings, smoke, simVars>>

\* The observation smoke_test.py can build from the metadata: int() of the
\* state_dim, images of the image_shape.
CanBuildObs ==
    /\ policy.state_dim.type \in {"int", "float"} /\ policy.state_dim.val \in Nat
    /\ policy.image_shape.type = "tuple"

Smoke ==
    /\ server = "up" /\ smoke = NoVerdict
    /\ smoke' =
        IF CanBuildObs /\ Infers(policy)
        THEN LET c == Chunk(policy, [i \in 1..policy.state_dim.val |-> 0])
             IN  [verdict |-> "PASS", cols |-> Len(c.row)]
        ELSE [NoVerdict EXCEPT !.verdict = "raised"]
    /\ UNCHANGED <<policyVars, simVars>>

-----------------------------------------------------------------------------
(* check_in_sim.py.                                                        *)

\* main calls init_to_first_frame with source="actions", whatever --source is.
InitToFirstFrame ==
    /\ sim = "off"
    /\ qpos' = Pose(first)
    /\ ctrl' = Command(first)
    /\ sim' = "running"
    /\ UNCHANGED <<policyVars, smoke, runVars, k, h, chunk, asked>>

\* action14_to_ctrl and the mj_steps of one control tick; the assertion on the
\* length comes before anything is written.
Execute(a) ==
    IF Len(a) = Dim
    THEN /\ ctrl' = Command(a)
         /\ qpos' \in Places
         /\ k' = k + 1
         /\ UNCHANGED sim
    ELSE sim' = "failed" /\ UNCHANGED <<ctrl, qpos, k>>

Replay ==
    /\ sim = "running" /\ mode = "replay" /\ k < Frames
    /\ Execute(stream[k + 1])
    /\ UNCHANGED <<policyVars, smoke, runVars, h, chunk, asked>>

\* Mutant: the horizon alone says how many actions to execute.
WholeHorizon == ActionHorizon

ToExecute == IF chunk.rows < ActionHorizon THEN chunk.rows ELSE ActionHorizon

InChunk == h < ToExecute

\* run_policy asks for the next chunk.  A server that is not up is waited for
\* or ends the client, which is in ClientServer.
Ask ==
    /\ sim = "running" /\ mode = "policy" /\ k < Frames /\ ~InChunk
    /\ server = "up"
    /\ IF Infers(policy)
       THEN /\ chunk' = Chunk(policy, ReadState14(qpos))
            /\ h' = 0 /\ asked' = qpos
            /\ UNCHANGED sim
       ELSE sim' = "failed" /\ UNCHANGED <<chunk, h, asked>>
    /\ UNCHANGED <<policyVars, smoke, runVars, k, qpos, ctrl>>

\* chunk[h]: an IndexError past the end.
ChunkAction ==
    /\ sim = "running" /\ mode = "policy" /\ k < Frames /\ InChunk
    /\ IF h < chunk.rows
       THEN Execute(chunk.row)
       ELSE sim' = "failed" /\ UNCHANGED <<ctrl, qpos, k>>
    /\ h' = h + 1
    /\ UNCHANGED <<policyVars, smoke, runVars, chunk, asked>>

Finish ==
    /\ sim = "running" /\ k = Frames
    /\ sim' = "done"
    /\ UNCHANGED <<policyVars, smoke, runVars, k, h, chunk, asked, qpos, ctrl>>

Next ==
    \/ Launch \/ Smoke
    \/ InitToFirstFrame \/ Replay \/ Ask \/ ChunkAction \/ Finish

Spec == Init /\ [][Next]_vars

-----------------------------------------------------------------------------
(* Properties.                                                             *)

\* No jolt on step 1: whoever commands the arms, the recording or the echo of
\* the pose they stand in, the first command is the pose, joint by joint.
\* Not so for another stream than the one the pose was taken from.
NoJolt ==
    [][k = 0 /\ k' = 1 /\ (mode = "replay" => source = "actions") =>
          \A n \in Joints : ctrl'[n] = qpos[n]]_vars

\* Where the arms stand, in what a gripper can be commanded to.
Reachable(n, q) == IF n[2] = Grip THEN Clip(q, OpenCtrl) ELSE q

\* The echo policy holds the arms in the pose they were seen in: state and
\* action have the same order and the same units, through the policy's row.
HoldsStill ==
    mode = "policy" /\ sim # "failed" /\ h > 0 =>
        \A n \in Joints : ctrl[n] = Reachable(n, asked[n])

\* A smoke test that passes with a chunk of the right width foretells the
\* simulation: no error of the server, no assertion, no index out of range.
SmokeForetellsSim ==
    smoke.verdict = "PASS" /\ smoke.cols = Dim => sim # "failed"
=============================================================================
