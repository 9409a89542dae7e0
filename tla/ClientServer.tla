----------------------------- MODULE ClientServer -----------------------------
(***************************************************************************)
(* The server of PolicyServer as a systemd unit, and its clients.          *)
(*                                                                         *)
(* Scripts run scripts/_client.py: ping.py, smoke_test.py and the          *)
(* simulation differ, for the server, only in how many observations they   *)
(* send before they exit, and none of them calls close().  Every other     *)
(* connection is a client of somebody else's, which sends what it likes,   *)
(* when it likes.                                                          *)
(*                                                                         *)
(* The process may fail at any time, while it loads its policy too; all    *)
(* it knew is gone with it.  A connection attempt that finds nobody        *)
(* listening leaves no trace, so one element of Conns is one script.       *)
(***************************************************************************)
EXTENDS PolicyServer

CONSTANTS Scripts,      \* connections of the repository's client
          MaxFailures   \* bound: failures of the process

ASSUME ScriptsAssumption ==
    /\ Scripts \subseteq Conns
    /\ "obs" \in ClientFrames
    /\ MaxFailures \in Nat

VARIABLES
    unit,      \* what systemd does with the process
    failures,  \* how often it has failed
    cpc,       \* where each script is
    todo,      \* observations it has yet to send
    got        \* frames it has received

unitVars == <<unit, failures>>
scriptVars == <<cpc, todo, got>>
serverVars == vars
allVars == <<vars, unit, failures, cpc, todo, got>>

Ended(c) == cpc[c] \in {"ok", "failed"}

ScriptTypeOK ==
    /\ unit \in {"loading", "active", "restarting", "inactive", "failed"}
    /\ failures \in 0..MaxFailures
    /\ cpc \in [Scripts -> {"connect", "sleep", "handshake", "greeting", "ready",
                            "waiting", "ok", "failed"}]
    /\ todo \in [Scripts -> 0..MaxFrames]
    /\ got \in [Scripts -> Nat]
    /\ \A c \in Scripts : got[c] <= Len(out[c])
    /\ unit = "active" <=> Alive

\* The server is up, or still loading its policy when the first script comes.
SystemInit ==
    /\ Unused
    /\ \/ srv = "serving" /\ unit = "active"
       \/ srv = "killed" /\ unit = "loading"
    /\ failures = 0
    /\ cpc = [c \in Scripts |-> "connect"]
    /\ todo \in [Scripts -> 0..MaxFrames]
    /\ got = [c \in Scripts |-> 0]

-----------------------------------------------------------------------------
(* The client: WebsocketPolicyClient and the scripts that use it.          *)

Goto(c, place) == cpc' = [cpc EXCEPT ![c] = place]

\* The script leaves place from for place to, nothing else happens.
Move(c, from, to) ==
    /\ cpc[c] = from
    /\ Goto(c, to)
    /\ UNCHANGED <<vars, unitVars, todo, got>>

\* The connection of c is over for the client too.
Gone(c) == ~Alive \/ pc[c] = "done" \/ ws[c] \in {"lost", "closed"}

Dial(c) ==
    /\ cpc[c] = "connect" /\ Connect(c)
    /\ Goto(c, "handshake")
    /\ UNCHANGED <<unitVars, todo, got>>

\* ConnectionRefusedError: nobody listens.  Try again later, for ever.
Refused(c) == srv # "serving" /\ Move(c, "connect", "sleep")
Retry(c) == Move(c, "sleep", "connect")

Upgraded(c) == status[c] = "SWITCHING" /\ Move(c, "handshake", "greeting")

\* Any other status, a reset, a timeout: not what the except clause names.
TurnedAway(c) ==
    /\ status[c] \notin {"NONE", "SWITCHING"} \/ Gone(c)
    /\ Move(c, "handshake", "failed")

\* recv hands over the next frame; what was in flight may still be read when
\* the connection is gone.
Hear(c) ==
    /\ got[c] < Len(out[c])
    /\ got' = [got EXCEPT ![c] = @ + 1]
    /\ UNCHANGED <<vars, unitVars, todo>>

Heard(c) == out[c][got[c] + 1]

\* Mutant: connect leaves the metadata to whoever receives next.
GreetedUnheard(c) ==
    /\ got[c] < Len(out[c])
    /\ Move(c, "greeting", "ready")

\* The metadata: the client object exists.
Greeted(c) == cpc[c] = "greeting" /\ Goto(c, "ready") /\ Hear(c)

\* Mutant: a connection that breaks before the metadata is tried again.
RecvFailsRetries(c) ==
    /\ Gone(c)
    /\ Move(c, "greeting", "sleep") \/ Move(c, "waiting", "failed")

\* recv raises ConnectionClosed, in _connect or in infer.
RecvFails(c) ==
    /\ Gone(c)
    /\ Move(c, "greeting", "failed") \/ Move(c, "waiting", "failed")

\* Mutant: one observation more than there are.
AskOnceMore(c) ==
    /\ cpc[c] = "ready"
    /\ ClientSend(c, "obs")
    /\ todo' = [todo EXCEPT ![c] = @ - 1]
    /\ Goto(c, "waiting")
    /\ UNCHANGED <<unitVars, got>>

\* infer: the observation is sent.
Ask(c) ==
    /\ cpc[c] = "ready" /\ todo[c] > 0
    /\ ClientSend(c, "obs")
    /\ todo' = [todo EXCEPT ![c] = @ - 1]
    /\ Goto(c, "waiting")
    /\ UNCHANGED <<unitVars, got>>

\* send raises ConnectionClosed.
AskFails(c) == todo[c] > 0 /\ Gone(c) /\ Move(c, "ready", "failed")

\* infer returns what a binary frame holds, raises on a text frame.
InferEnds(c) ==
    /\ cpc[c] = "waiting" /\ Hear(c)
    /\ Goto(c, IF Heard(c) = Traceback THEN "failed" ELSE "ready")

\* main() returns.
ScriptEnds(c) == todo[c] = 0 /\ Move(c, "ready", "ok")

\* The process of the script is gone and its socket with it.
Exit(c) ==
    /\ Ended(c)
    /\ Lose(c) \/ HandshakeAborts(c)
    /\ UNCHANGED <<unitVars, scriptVars>>

ScriptStep(c) ==
    \/ Dial(c) \/ Refused(c) \/ Retry(c) \/ Upgraded(c) \/ TurnedAway(c)
    \/ Greeted(c) \/ RecvFails(c) \/ Ask(c) \/ AskFails(c) \/ InferEnds(c)
    \/ ScriptEnds(c) \/ Exit(c)

-----------------------------------------------------------------------------
(* The process: deploy/policy-server.service and scripts/launch.py.        *)

UnitGoes(to) == unit' = to /\ UNCHANGED <<failures, scriptVars>>

\* Mutant: Restart=on-abnormal, which leaves an exit status 1 alone.
GivesUp ==
    /\ failures < MaxFailures
    /\ failures' = failures + 1
    /\ unit' = "failed"
    /\ UNCHANGED scriptVars

\* Restart=on-failure: the next start is due after RestartSec.
Fails ==
    /\ failures < MaxFailures
    /\ failures' = failures + 1
    /\ unit' = "restarting"
    /\ UNCHANGED scriptVars

\* The constructor of the policy raises: exit status 1.
LoadFails == unit = "loading" /\ Fails /\ UNCHANGED vars

\* Killed by the kernel, a signal that is no clean exit, an exception.
Crash ==
    /\ Alive /\ Fails
    /\ srv' = "killed"
    /\ UNCHANGED <<loop, active, pc, request, status, ws, code, sent, rd, out,
                   prev, resetBy, shared, closed>>

RestartDue == unit = "restarting" /\ UnitGoes("loading") /\ UNCHANGED vars

\* The policy is loaded and the port bound: a new process, which knows none
\* of the connections of the one before.
Serves ==
    /\ unit = "loading" /\ UnitGoes("active")
    /\ srv' = "serving"
    /\ loop' = Idle
    /\ active' = 0
    /\ pc' = [c \in Conns |-> IF pc[c] = "new" THEN "new" ELSE "done"]
    /\ ws' = [c \in Conns |-> IF ws[c] = "none" THEN "none" ELSE "closed"]
    /\ resetBy' = Idle
    /\ shared' = FreshReply
    /\ closed' = FALSE
    /\ UNCHANGED <<request, status, code, sent, rd, out, prev>>

\* systemctl stop (SIGTERM) and the end after SIGINT are clean: no restart.
Stopped ==
    /\ UnitGoes("inactive")
    /\ \/ Stop \/ Kill
       \/ unit \in {"loading", "restarting"} /\ "SIGTERM" \in Signals /\ UNCHANGED vars

UnitStep == LoadFails \/ Crash \/ RestartDue \/ Serves \/ Stopped

-----------------------------------------------------------------------------
(* Composition.                                                            *)

\* A step of the server that the clients see only through its variables.
ServerStep ==
    /\ Interrupt \/ \E c \in Conns : HandlerStep(c) \/ TransportStep(c)
    /\ UNCHANGED <<unitVars, scriptVars>>

\* Connections break, clients that are no scripts do as they please.
World ==
    /\ \E c \in Conns :
         \/ Lose(c) \/ HandshakeAborts(c)
         \/ c \notin Scripts /\ (Connect(c) \/ \E k \in ClientFrames : ClientSend(c, k))
    /\ UNCHANGED <<unitVars, scriptVars>>

\* A script's own open_timeout, while somebody's inference keeps the loop.
TimesOut(c) == loop \notin {Idle, c} /\ Move(c, "handshake", "failed")

AllOver ==
    /\ unit \in {"inactive", "failed"}
    /\ UNCHANGED allVars

SystemNext ==
    \/ ServerStep \/ UnitStep \/ World \/ AllOver
    \/ \E c \in Scripts : ScriptStep(c) \/ TimesOut(c)

\* The scripts and systemd run; loading the policy ends, one way or the other.
SystemFairness ==
    /\ Fairness
    /\ \A c \in Scripts : WF_allVars(ScriptStep(c))
    /\ WF_allVars(RestartDue) /\ WF_allVars(LoadFails \/ Serves)

SystemSpec == SystemInit /\ [][SystemNext]_allVars /\ SystemFairness

-----------------------------------------------------------------------------
(* Properties.                                                             *)

\* Only a script no server has seen tries again, so a retry never repeats
\* what a server has done: taken a slot, reset the policy, inferred.
RetryOnlyUnseen ==
    \A c \in Scripts : cpc[c] \in {"connect", "sleep"} => pc[c] = "new"

\* The server still has something to do for the observation of c.
Owes(c) == rd[c] < Len(sent[c]) \/ pc[c] \in {"infer", "sendResult"}

\* Nobody waits for nobody: a script that waits for an answer has an
\* observation the server has not done with, a frame to read, or a connection
\* that is gone, which ends its recv.
NeverBothWaiting ==
    \A c \in Scripts :
        cpc[c] = "waiting" => got[c] < Len(out[c]) \/ Owes(c) \/ Gone(c)

\* What infer returns is the answer to the observation it was called with.
AnswerToOwnQuestion ==
    [][\A c \in Scripts :
          cpc[c] = "waiting" /\ cpc'[c] = "ready" =>
              LET answer == out[c][got'[c]]
              IN  IsResult(answer) /\ answer.obs = Len(sent[c])]_allVars

\* What the program that uses the client knows of it: whether it is connected,
\* and whether infer is running, has returned or has raised.
StageOf(c) ==
    CASE cpc[c] \in {"connect", "sleep", "handshake", "greeting"} -> "connecting"
      [] cpc[c] = "ready" -> "idle"
      [] cpc[c] = "waiting" -> "calling"
      [] cpc[c] = "ok" -> "finished"
      [] cpc[c] = "failed" -> "raised"

\* The observations that the results it has read are about.
AnswersTo(c) ==
    {out[c][k].obs : k \in {j \in 1..got[c] : IsResult(out[c][j])}}

Remote == INSTANCE RemotePolicy WITH
              Callers <- Scripts,
              stage <- [c \in Scripts |-> StageOf(c)],
              total <- [c \in Scripts |-> Len(sent[c]) + todo[c]],
              asked <- [c \in Scripts |-> Len(sent[c])],
              answers <- [c \in Scripts |-> AnswersTo(c)]

\* Through crashes, restarts, lost connections and other clients, a script can
\* call infer as if the policy were a function of its own process: refinement.
ImplementsRemotePolicy == Remote!CallSpec

\* The slots of the process that runs; those of one that is gone are gone.
Restarts == INSTANCE RestartablePool WITH
                Clients <- Conns, Cap <- MaxConnections,
                open <- srv = "serving",
                held <- IF Alive THEN HeldBy ELSE {},
                denied <- DeniedTo

\* Through every failure and restart the server stays a slot pool, if the
\* library does not suspend the upgrade: refinement.
ImplementsRestartablePool == Restarts!RestartSpec

\* Every script ends, with an answer or an error, however late the server
\* comes up and however often it fails; unless the operator stops it for good.
ScriptsEnd ==
    \A c \in Scripts : <>(Ended(c) \/ unit = "inactive")
=============================================================================
