------------------------------ MODULE MCViewer -------------------------------
(* Small values for CompareViewer.                                         *)
EXTENDS CompareViewer
FewLengths == {0, 1, 3}
FewDelays == {0, 2}
OpenOrClosed == {0, 1}
=============================================================================
