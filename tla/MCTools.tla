------------------------------- MODULE MCTools -------------------------------
(* Small sets for SimTools: one joint per arm.                             *)
EXTENDS SimTools

Text(reads, val) == [reads |-> reads, val |-> val]
Entry(key, text) == [key |-> key, text |-> text]
IntText(n) == Text({"int", "float"}, n)
FloatText(n) == Text({"float"}, n)
Word == Text({}, 0)

\* Entries that are fine, of the wrong type, out of range, or misspelt.
Entries ==
    { Entry("action_horizon", t) : t \in {IntText(3), IntText(1), IntText(0), FloatText(1), FloatText(2), Word} }
    \cup { Entry("action_dim", t) : t \in {IntText(3), IntText(5), IntText(-1), FloatText(4)} }
    \cup { Entry("state_dim", t) : t \in {IntText(2), IntText(6), IntText(-1), FloatText(4)} }
    \cup { Entry("image_shape", Word), Entry("image_keys", IntText(3)),
           Entry("control_mode", Text({"bool"}, 1)), Entry("horizon", IntText(3)),
           NoEquals }

\* Up to two entries, one key given twice included.
SecondEntries ==
    { Entry("action_horizon", IntText(3)), Entry("action_dim", IntText(5)),
      Entry("action_dim", IntText(4)), Entry("state_dim", IntText(6)) }

FewSettings ==
    {<<>>} \cup {<<e>> : e \in Entries}
    \cup {<<e, f>> : e \in Entries, f \in SecondEntries}

\* Left joint, left gripper, right joint, right gripper; a gripper may be
\* recorded beyond its range.
SomeActions == { <<0, 0, 1, 4>>, <<1, 6, 0, 2>>, <<-1, -2, 2, 4>> }

Standing(lj, lg, rj, rg) ==
    [n \in Joints |-> IF n[1] = "left" THEN IF n[2] = 1 THEN lj ELSE lg
                      ELSE IF n[2] = 1 THEN rj ELSE rg]

\* Grippers may be pushed beyond their range.
SomePlaces == { Standing(0, 1, 2, -1), Standing(1, 3, 0, 2), Standing(2, 0, 1, 1) }

BothSources == {"actions", "gello_actions"}
BothModes == {"replay", "policy"}
=============================================================================
