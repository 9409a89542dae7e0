CONSTANTS
  Samples = 2
  Lengths <- FewLengths
  NoHorizon = NoHorizon
  ActionHorizon = 4
  Steps <- FewUnits
  Periods <- FewUnits
SPECIFICATION Spec
INVARIANT PolicyShownToEnd
