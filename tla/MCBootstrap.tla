----------------------------- MODULE MCBootstrap -----------------------------
(* Small instances of Bootstrap for TLC.                                   *)
EXTENDS Bootstrap

\* Settings have nothing to do with objects: collections outgrow a page, and
\* applications are deleted, only while nobody has edited a setting.  The third
\* run starts only if at most one collection has outgrown a page.
Bound ==
    /\ edits > 0 => crowded = {} /\ deleted = {}
    /\ runs > 2 => Cardinality(crowded) < 2
=============================================================================
