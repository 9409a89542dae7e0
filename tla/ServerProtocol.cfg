CONSTANTS
  c1 = c1  c2 = c2  c3 = c3
  Idle = Idle  NoId = NoId
  Blank = Blank  NoHeader = NoHeader  TwoHeaders = TwoHeaders  NoKey = NoKey  NoAddr = NoAddr
  flagKey = flagKey  envKey = envKey  wrongKey = wrongKey
  inside = inside  outside = outside
  ApiKeys <- OneFlagKey
  EnvKeys <- OneEnvKey
  AllowCidrs <- OneBlock
  Conns <- OneConn
  MaxConnections = 2
  MaxFrames = 4
  ClientFrames <- AnyFrame
  Requests <- Welcome
  Signals <- BothSignals
  AtomicUpgrade = FALSE
  ReusesReply = FALSE
SPECIFICATION FairSpec
INVARIANTS WireGrammar RepliesInOrder EchoesRequestId TimingOfPreviousStep
PROPERTY ObservationsAnswered
