CONSTANTS
  ArmJoints = 1
  OpenCtrl = 2
  NormPerCtrl = 2
  DefaultHorizon = 2
  DefaultDim = 4
  Settings <- FewSettings
  Actions <- SomeActions
  Places <- SomePlaces
  Modes <- BothModes
  Sources <- BothSources
  Frames = 3
  ActionHorizon = 2
SPECIFICATION Spec
CHECK_DEADLOCK FALSE
INVARIANTS HoldsStill SmokeForetellsSim
PROPERTY NoJolt
