CONSTANTS
  Samples = 2
  Lengths <- FewLengths
  NoHorizon = NoHorizon
  ActionHorizon = 2
  Pause = 1
  Delays <- FewDelays
  Grips <- OpenOrClosed
  Rest = 0
SPECIFICATION FairSpec
INVARIANTS TypeOK DriversStartAlike EvenlyPaced BothShownInOrder OneLateInference
PROPERTY CompareEnds
