---- MODULE MCCeilings ----
(* Constants for the runs of Ceilings: envelopes of which two give the      *)
(* containers the same caps, a generator whose messages grow by four per    *)
(* cent, inside the tolerance, and one that is outside it.                  *)
EXTENDS Ceilings, TLC
CONSTANTS c1, c2, c3, e1, e2, e3, p, q
MCSize == [c \in Corpora |-> CASE c = c1 -> 100 [] c = c2 -> 104 [] OTHER -> 130]
MCCaps == [e \in Envelopes |-> [c \in Containers |-> IF e = e3 THEN 2 ELSE 1]]
Symmetry ==                             \* e1 and e2 give the same caps
  Permutations(Procs) \union Permutations(Formats) \union Permutations({e1, e2})
====
