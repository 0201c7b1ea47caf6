----------------------------- MODULE MCLoginSites -----------------------------
(* Small instances of LoginSites for TLC.                                  *)
EXTENDS LoginSites, TLC

CONSTANTS app, id, elsewhere    \* hosts; id is a subdomain of app

MCHost == {app, id, elsewhere}
MCBelow == {<<h, h>> : h \in MCHost} \cup {<<id, app>>}

Deployed(bff, web, domain) == [bff |-> bff, web |-> web, domain |-> domain]
MCSite == {
    Deployed(id, app, None),        \* below the web application's host
    Deployed(id, None, app),        \* that host not configured, its domain set
    Deployed(id, elsewhere, None),  \* two sites
    Deployed(id, app, elsewhere)}   \* the domain set wrongly

Symmetry == Permutations(Browser) \cup Permutations(Flow) \cup Permutations(Callback)
=============================================================================
