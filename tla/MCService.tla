----------------------------- MODULE MCService -----------------------------
(* Service for TLC: ids and handlers are model values, and the             *)
(* specification distinguishes none of them from the others.               *)
EXTENDS Service, TLC

Symmetry ==
  Permutations(GroupIds) \cup Permutations(PersonIds) \cup Permutations(Handlers)
=============================================================================
