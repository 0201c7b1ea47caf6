---------------------------- MODULE MCExperience -----------------------------
(* Small instances of Experience for TLC.                                  *)
EXTENDS Experience, TLC

Symmetry == Permutations(Identifier) \cup Permutations(Chain)
=============================================================================
