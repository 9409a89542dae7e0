------------------------------- MODULE RobotIO -------------------------------
(***************************************************************************)
(* sim/check_in_sim.py: how a 14-dim action or state meets the joints and  *)
(* actuators of the scene.  Joints are named <<side, number>>, number      *)
(* ArmJoints + 1 is the gripper; an actuator has the name of the joint it  *)
(* drives.  Positions are integers; a gripper has OpenCtrl positions       *)
(* between closed and open, and a normalized value counts NormPerCtrl for  *)
(* each of them, so 1.0 is OpenNorm.                                       *)
(***************************************************************************)
EXTENDS Integers, Sequences, Functions

CONSTANTS ArmJoints,   \* joints of one arm, 6 in the code
          OpenCtrl,    \* GRIP_OPEN_CTRL; GRIP_CLOSE_CTRL is 0
          NormPerCtrl

ASSUME RobotAssumption ==
    /\ ArmJoints \in Nat \ {0}
    /\ OpenCtrl \in Nat \ {0}
    /\ NormPerCtrl \in Nat \ {0}

Grip == ArmJoints + 1
Dim == 2 * Grip
OpenNorm == OpenCtrl * NormPerCtrl

Joints == {"left", "right"} \X (1..Grip)

\* Mutant: the order of ALL_JOINTS, both arms before both grippers.
ArmsFirst ==
    [i \in 1..Dim |->
        IF i <= ArmJoints THEN <<"left", i>>
        ELSE IF i <= 2 * ArmJoints THEN <<"right", i - ArmJoints>>
        ELSE IF i < Dim THEN <<"left", Grip>> ELSE <<"right", Grip>>]

\* qpos_order of _resolve_indices.
QposOrder ==
    [i \in 1..Dim |-> IF i <= Grip THEN <<"left", i>> ELSE <<"right", i - Grip>>]

\* ACT_NAMES.
ActOrder ==
    [i \in 1..Dim |-> IF i <= Grip THEN <<"left", i>> ELSE <<"right", i - Grip>>]

\* Indices 6 and 13 of the code.
IsGrip(i) == i \in {Grip, Dim}

Clip(x, hi) == IF x < 0 THEN 0 ELSE IF x > hi THEN hi ELSE x

GripNormToCtrl(g) == Clip(g, OpenNorm) \div NormPerCtrl
GripQposToNorm(q) == Clip(q * NormPerCtrl, OpenNorm)

InCtrlUnits(a) ==
    [i \in 1..Dim |-> IF IsGrip(i) THEN GripNormToCtrl(a[i]) ELSE a[i]]

\* The values v written to the places that order names.
Placed(order, v) == [n \in Range(order) |-> v[CHOOSE i \in 1..Dim : order[i] = n]]

\* action14_to_ctrl, and what init_to_first_frame and the snap do to ctrl.
Command(a) == Placed(ActOrder, InCtrlUnits(a))

\* What init_to_first_frame and the snap do to qpos.
Pose(v) == Placed(QposOrder, InCtrlUnits(v))

\* Mutant: the gripper's position is passed on in metres.
RawState(qpos) == [i \in 1..Dim |-> qpos[QposOrder[i]]]

ReadState14(qpos) ==
    [i \in 1..Dim |-> IF IsGrip(i) THEN GripQposToNorm(qpos[QposOrder[i]])
                      ELSE qpos[QposOrder[i]]]
=============================================================================
