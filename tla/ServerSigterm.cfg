CONSTANTS
  c1 = c1  c2 = c2  c3 = c3
  Idle = Idle  NoId = NoId
  Blank = Blank  NoHeader = NoHeader  TwoHeaders = TwoHeaders  NoKey = NoKey  NoAddr = NoAddr
  flagKey = flagKey  envKey = envKey  wrongKey = wrongKey
  inside = inside  outside = outside
  ApiKeys <- OneFlagKey
  EnvKeys <- OneEnvKey
  AllowCidrs <- OneBlock
  Conns <- TwoConns
  MaxConnections = 1
  MaxFrames = 1
  ClientFrames <- OnlyObs
  Requests <- Welcome
  Signals <- BothSignals
  AtomicUpgrade = TRUE
  ReusesReply = FALSE
SPECIFICATION Spec
SYMMETRY ConnSymmetry
INVARIANT ShutdownClosesPolicy
