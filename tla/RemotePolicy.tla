----------------------------- MODULE RemotePolicy -----------------------------
(***************************************************************************)
(* What WebsocketPolicyClient promises the program that calls it, with     *)
(* nothing of connections, frames and restarts: infer can be called like a *)
(* function.  It is called with one observation at a time, returns the     *)
(* answer to that one or raises, and nothing is called after it raised.    *)
(***************************************************************************)
EXTENDS Integers

CONSTANTS Callers

VARIABLES stage,   \* where each program is
          total,   \* observations it has
          asked,   \* how many of them infer was called with
          answers  \* those that infer returned the answer to

callVars == <<stage, total, asked, answers>>

CallInit ==
    /\ stage = [c \in Callers |-> "connecting"]
    /\ total \in [Callers -> Nat]
    /\ asked = [c \in Callers |-> 0]
    /\ answers = [c \in Callers |-> {}]

\* The constructor of the client returns.
Connected(c) ==
    /\ stage[c] = "connecting"
    /\ stage' = [stage EXCEPT ![c] = "idle"]
    /\ UNCHANGED <<total, asked, answers>>

\* infer is called.
Call(c) ==
    /\ stage[c] = "idle" /\ asked[c] < total[c]
    /\ stage' = [stage EXCEPT ![c] = "calling"]
    /\ asked' = [asked EXCEPT ![c] = @ + 1]
    /\ UNCHANGED <<total, answers>>

\* infer returns, for the first time, the answer to what it was called with.
Return(c) ==
    /\ stage[c] = "calling" /\ asked[c] \notin answers[c]
    /\ stage' = [stage EXCEPT ![c] = "idle"]
    /\ answers' = [answers EXCEPT ![c] = @ \cup {asked[c]}]
    /\ UNCHANGED <<total, asked>>

\* The constructor or infer raises, and the program with it.
Raise(c) ==
    /\ stage[c] \in {"connecting", "idle", "calling"}
    /\ stage' = [stage EXCEPT ![c] = "raised"]
    /\ UNCHANGED <<total, asked, answers>>

\* The program ends well: it has got the answers to all its observations.
Finish(c) ==
    /\ stage[c] = "idle" /\ answers[c] = 1..total[c]
    /\ stage' = [stage EXCEPT ![c] = "finished"]
    /\ UNCHANGED <<total, asked, answers>>

CallNext ==
    \E c \in Callers :
        Connected(c) \/ Call(c) \/ Return(c) \/ Raise(c) \/ Finish(c)

CallSpec == CallInit /\ [][CallNext]_callVars

\* What follows for the program: its observations are answered in order and
\* without a gap, only the last answer may be missing, from a call that runs
\* or has raised, and no answer is missing in the end.
NoGap ==
    \A c \in Callers :
        /\ asked[c] \in Nat /\ total[c] \in Nat
        /\ answers[c] = 1..asked[c]
           \/ /\ stage[c] \in {"calling", "raised"}
              /\ answers[c] = 1..(asked[c] - 1)
        /\ stage[c] = "calling" => asked[c] > 0 /\ asked[c] \notin answers[c]
        /\ stage[c] = "finished" => answers[c] = 1..total[c]
=============================================================================
