------------------------------ MODULE MCServer -------------------------------
(* Model values and small sets for PolicyServer.                           *)
EXTENDS PolicyServer, TLC

CONSTANTS c1, c2, c3, flagKey, envKey, wrongKey, inside, outside

OneConn == {c1}
TwoConns == {c1, c2}
ThreeConns == {c1, c2, c3}
ConnSymmetry == Permutations(Conns)

Header(scheme, key) == [scheme |-> scheme, value |-> key]
Request(path, addr, header) == [path |-> path, addr |-> addr, header |-> header]

OneFlagKey == {flagKey, Blank}
OneEnvKey == {envKey, Blank}
OneBlock == {{inside}, Blank}

\* A client that may enter.
Welcome == {Request("/", inside, Header("api-key", flagKey))}

\* One request per way through check_request, and the health check.
EveryRequest == Welcome \cup
    { Request("/", inside,  Header("bearer", envKey)),
      Request("/", inside,  Header("api-key", wrongKey)),
      Request("/", inside,  Header("basic", flagKey)),
      Request("/", inside,  Header("bearer", Blank)),
      Request("/", inside,  NoHeader),
      Request("/", inside,  TwoHeaders),
      Request("/", outside, Header("api-key", flagKey)),
      Request("/healthz", outside, NoHeader) }

AnyFrame == FrameKinds
WithAndWithoutId == {"obs", "obsId"}
OnlyObs == {"obs"}
ObsAndText == {"obs", "text"}

BothSignals == {"SIGINT", "SIGTERM"}
OnlyInterrupt == {"SIGINT"}
=============================================================================
