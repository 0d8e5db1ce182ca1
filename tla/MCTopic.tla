---- MODULE MCTopic ----
(* Symmetry for the runs of Topic: processes and generators are alike.      *)
EXTENDS Topic
Symmetry == Permutations(Procs) \union Permutations(Gens)
====
