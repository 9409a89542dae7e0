---------------------------- MODULE MCClientServer ----------------------------
(* Model values and small sets for ClientServer.                           *)
EXTENDS ClientServer

CONSTANTS c1, c2, inside, outside

TwoConns == {c1, c2}
OneScript == {c1}
OnlyObs == {"obs"}
NoKeys == {Blank}
OneBlock == {{inside}, Blank}
Keyless(addr) == [path |-> "/", addr |-> addr, header |-> NoHeader]
InAndOut == {Keyless(inside), Keyless(outside)}
BothSignals == {"SIGINT", "SIGTERM"}
=============================================================================
