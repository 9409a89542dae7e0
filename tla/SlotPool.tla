------------------------------- MODULE SlotPool -------------------------------
(***************************************************************************)
(* What --max-connections promises, with nothing of how the server does    *)
(* it: at most Cap clients hold a slot at any time, and nobody is turned   *)
(* away while the server is open and a slot is free.                       *)
(***************************************************************************)
EXTENDS FiniteSets, Integers

CONSTANTS Clients, Cap

VARIABLES open,    \* the server takes clients in
          held,    \* clients with a slot
          denied   \* clients turned away for lack of one

poolVars == <<open, held, denied>>

PoolInit == open = TRUE /\ held = {} /\ denied = {}

Full == Cardinality(held) >= Cap

Acquire(c) ==
    /\ open /\ ~Full /\ c \notin held \cup denied
    /\ held' = held \cup {c}
    /\ UNCHANGED <<open, denied>>

Deny(c) ==
    /\ Full \/ ~open
    /\ c \notin held \cup denied
    /\ denied' = denied \cup {c}
    /\ UNCHANGED <<open, held>>

Release(c) ==
    /\ c \in held
    /\ held' = held \ {c}
    /\ UNCHANGED <<open, denied>>

Shut ==
    /\ open
    /\ open' = FALSE
    /\ UNCHANGED <<held, denied>>

PoolNext == Shut \/ \E c \in Clients : Acquire(c) \/ Deny(c) \/ Release(c)

PoolSpec == PoolInit /\ [][PoolNext]_poolVars

\* What follows: there are never more clients with a slot than slots.
WithinCap == IsFiniteSet(held) /\ Cardinality(held) <= Cap
=============================================================================
