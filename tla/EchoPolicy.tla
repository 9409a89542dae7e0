----------------------------- MODULE EchoPolicy ------------------------------
(***************************************************************************)
(* examples/echo_policy.py, and how scripts/launch.py makes one from the   *)
(* --policy-kwargs of the command line.  Nothing checks the settings: one  *)
(* of the wrong type or sign fails where it is first used.                 *)
(*                                                                         *)
(* A value of Python is its type and a number.  A text of the command line *)
(* is the set of types its characters can be read as, and the number that  *)
(* they spell: "10" can be read as int and as float.                       *)
(***************************************************************************)
EXTENDS Integers, Sequences, TLC

CONSTANTS DefaultHorizon, DefaultDim   \* 10 and 14 in the code

ASSUME EchoAssumption == DefaultHorizon \in Nat /\ DefaultDim \in Nat

Py(type, val) == [type |-> type, val |-> val]

\* An entry of --policy-kwargs that was given without "=".
NoEquals == [key |-> "", text |-> [reads |-> {}, val |-> 0]]

-----------------------------------------------------------------------------
(* launch.py.                                                              *)

Coerce(text) ==
    Py(IF "bool" \in text.reads THEN "bool"
       ELSE IF "int" \in text.reads THEN "int"
       ELSE IF "float" \in text.reads THEN "float" ELSE "str", text.val)

\* The later of two entries with one key counts.
KvList(items) ==
    [k \in {items[i].key : i \in DOMAIN items} |->
        LET last == CHOOSE i \in DOMAIN items :
                        /\ items[i].key = k
                        /\ \A j \in DOMAIN items : items[j].key = k => j <= i
        IN  Coerce(items[last].text)]

\* The ValueError of _parse_kv_list.
Parses(items) == \A i \in DOMAIN items : items[i] # NoEquals

-----------------------------------------------------------------------------
(* EchoPolicy.                                                             *)

Defaults ==
    [ action_horizon |-> Py("int", DefaultHorizon),
      action_dim     |-> Py("int", DefaultDim),
      state_dim      |-> Py("int", DefaultDim),
      image_keys     |-> Py("tuple", 3),
      image_shape    |-> Py("tuple", 3),
      control_mode   |-> Py("str", 0) ]

\* cls(**kwargs): every key is a parameter, list() accepts a tuple or a str.
Constructs(kw) ==
    /\ DOMAIN kw \subseteq DOMAIN Defaults
    /\ \A k \in DOMAIN kw \cap {"image_keys", "image_shape"} : kw[k].type = "str"

Echo(kw) == kw @@ Defaults

\* What np.zeros accepts as a length.
IsLength(v) == v.type = "int" /\ v.val \in Nat

\* What np.tile accepts as a number of rows: 1.0 is one as well.
IsCount(v) == IsLength(v) \/ (v.type = "float" /\ v.val = 1)

\* infer raises unless the settings are good for that: np.zeros(action_dim) is
\* evaluated for every observation, as the default of obs.get.
Infers(p) == IsLength(p.action_dim) /\ IsCount(p.action_horizon)

\* One row of the chunk for a one-dimensional state; all rows are alike.
EchoRow(p, state) ==
    [i \in 1..p.action_dim.val |-> IF i <= Len(state) THEN state[i] ELSE 0]

Chunk(p, state) == [rows |-> p.action_horizon.val, row |-> EchoRow(p, state)]
=============================================================================
