-------------------------- MODULE MCAdministration --------------------------
(* Small instances of Administration for TLC.                              *)
EXTENDS Administration, TLC

CONSTANTS Org, Other, guest, manager

\* A guest is an administrator in another organization.
Guest == [nsTenant |-> None, organization_id |-> Org, nsRoles |-> {}, roles |-> {},
          nsPermissions |-> {}, permissions |-> {}, scope |-> {"openid"},
          organization_roles |-> {<<Other, "identity.admin">>}]
Manager == [Guest EXCEPT !.permissions = {"identity.users.write", "identity.organizations.write"}]

MCToken == {guest, manager}
MCClaims == [t \in MCToken |-> IF t = manager THEN Manager ELSE Guest]
MCOrganization == {Org}

\* A second request overlaps the first, and a user has a second session at the
\* provider, only while nothing has happened to any other user.
InFlight == {o \in Op : request[o] # NoRequest}
Untouched(u) ==
    /\ granted[u] = guest /\ account[u] = "active" /\ closed[u] = "no" /\ signedOn[u] = {}
    /\ \A c \in Login : login[c].user # u
Alone(u) == \A v \in User \ {u} : Untouched(v)
Bound ==
    /\ Cardinality(InFlight) > 1 =>
          \E u \in User : Alone(u) /\ \A o \in Op : op[o].user = u
    /\ \A u \in User : Cardinality(signedOn[u]) > 1 => Alone(u)

Symmetry == Permutations(Login) \cup Permutations(SignOn) \cup Permutations(Op) \cup Permutations(User)
=============================================================================
