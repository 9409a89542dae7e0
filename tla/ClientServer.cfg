CONSTANTS
  c1 = c1  c2 = c2
  inside = inside  outside = outside
  Idle = Idle  NoId = NoId
  Blank = Blank  NoHeader = NoHeader  TwoHeaders = TwoHeaders  NoKey = NoKey  NoAddr = NoAddr
  ApiKeys <- NoKeys
  EnvKeys <- NoKeys
  AllowCidrs <- OneBlock
  Conns <- TwoConns
  Scripts <- OneScript
  MaxConnections = 1
  MaxFrames = 1
  MaxFailures = 1
  ClientFrames <- OnlyObs
  Requests <- InAndOut
  Signals <- BothSignals
  AtomicUpgrade = TRUE
  ReusesReply = FALSE
SPECIFICATION SystemSpec
INVARIANTS ScriptTypeOK RetryOnlyUnseen NeverBothWaiting
PROPERTIES ImplementsRemotePolicy ScriptsEnd AdmissionAnswered SlotEventuallyFreed ShutdownCompletes
