-------------------------- MODULE MCAccountClosure --------------------------
(* Small instances of AccountClosure for TLC.                              *)
EXTENDS AccountClosure, TLC

Symmetry == Permutations(Login) \cup Permutations(SignOn) \cup Permutations(Op)
=============================================================================
