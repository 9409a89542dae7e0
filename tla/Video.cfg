CONSTANTS
  Samples = 2
  Lengths <- FewLengths
  NoHorizon = NoHorizon
  ActionHorizon = 4
  Steps <- FewUnits
  Periods <- FewUnits
SPECIFICATION Spec
INVARIANTS TypeOK VideoTracksSim EverySampleShown ShorterSideFreezes ReplayShownToEnd
