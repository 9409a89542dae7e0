------------------------------- MODULE MCVideo -------------------------------
(* Small values for CompareVideo.                                          *)
EXTENDS CompareVideo
FewLengths == 0..5
FewUnits == 1..4
=============================================================================
