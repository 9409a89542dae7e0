CONSTANTS
  Frames = 5
  Modes <- BothModes
  Sinks <- BothSinks
  ActionHorizon = 3
  Lengths <- FewLengths
  Delays <- FewDelays
  Steps <- FewUnits
  Periods <- FewUnits
SPECIFICATION FairSpec
INVARIANTS TypeOK ActionsAligned NeverEarly VideoKeepsPace EndIsShown
PROPERTY RolloutEnds
