------------------------------ MODULE MCStartup -----------------------------
(***************************************************************************)
(* A small instance of Startup: two servers whose names differ in length,  *)
(* one of them saved without a key, which the environment may supply.      *)
(***************************************************************************)
EXTENDS Startup, TLC

CONSTANTS near, far, key, fact, decision

MCConfigs == {[addr |-> far, apiKey |-> key], [addr |-> near, apiKey |-> key],
              [addr |-> near, apiKey |-> None]}

MCEnvs == {[addr |-> None, apiKey |-> None], [addr |-> None, apiKey |-> key]}

MCLength == [c \in MCConfigs |-> IF c.addr = far THEN 9 ELSE 5]

(* With and without a lifetime; with a tag of the agent's own that repeats *)
(* the kind, with one that does not, and without.                          *)
MCForms == {[kind |-> fact, keywords |-> Words, lifetime |-> Null],
            [kind |-> decision, keywords |-> Words \cup {Tag(fact)}, lifetime |-> Null],
            [kind |-> fact, keywords |-> Words \cup {Tag(fact)}, lifetime |-> Hour]}

Symmetry == Permutations(Procs) \cup Permutations(Ids) \cup Permutations(Files)
=============================================================================
