--------------------------- MODULE RestartablePool ----------------------------
(***************************************************************************)
(* SlotPool for a server that may vanish at any moment and is started      *)
(* again: those who had a slot lose it, nobody keeps one over a restart,   *)
(* and the next server starts with all its slots free.                     *)
(***************************************************************************)
EXTENDS SlotPool

RestartInit == open \in BOOLEAN /\ held = {} /\ denied = {}

\* The process ends, with whoever it was serving.
Vanish ==
    /\ open' = FALSE
    /\ held' = {}
    /\ UNCHANGED denied

\* A new process takes clients in.
Reopen ==
    /\ ~open /\ held = {}
    /\ open' = TRUE
    /\ UNCHANGED <<held, denied>>

RestartSpec == RestartInit /\ [][PoolNext \/ Vanish \/ Reopen]_poolVars
=============================================================================
