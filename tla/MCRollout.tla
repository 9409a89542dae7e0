------------------------------ MODULE MCRollout -------------------------------
(* Small values for Rollout.                                               *)
EXTENDS Rollout
BothModes == {"replay", "policy"}
BothSinks == {"video", "viewer"}
FewLengths == {1, 2, 4}
FewDelays == {0, 3}
FewUnits == 1..3
=============================================================================
