---------------------------- MODULE MCBffSession ----------------------------
(* Small instances of BffSession for TLC.                                  *)
EXTENDS BffSession, TLC

Symmetry == Permutations(Req) \cup Permutations(Sid) \cup Permutations(Subject)

\* Sessions of two users have nothing in common but closures: with two users no
\* token nears its expiry and no session expires.
Bound ==
    Cardinality({row[s].subject : s \in {t \in Sid : Exists(t)}}) > 1 =>
        due = {} /\ \A s \in Sid : ~row[s].expired
=============================================================================
