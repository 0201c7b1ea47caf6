--------------------------- MODULE Administration ---------------------------
(***************************************************************************)
(* /api/v1 as its callers use it: every route, the session and the         *)
(* permission it asks for, and what its calls change, on top of            *)
(* AccountClosure.  The requests that close accounts come from live        *)
(* sessions here, with the authority the ID token of their login gave      *)
(* them; other requests change what the next ID token will say.            *)
(***************************************************************************)
EXTENDS AccountClosure

CONSTANTS
    Organization,   \* tenants
    Token,          \* what the ID token of a user may be
    Claims          \* the claims in each

\* Claims come under a namespace of our own or under their plain name; a claim
\* that is missing is None or the empty set.  organization_roles has pairs of
\* an organization and a role.
ASSUME AdministrationAssumption ==
    /\ None \notin Organization \cup Token
    /\ DOMAIN Claims = Token
    /\ \A t \in Token :
         DOMAIN Claims[t] = {"nsTenant", "organization_id", "nsRoles", "roles", "nsPermissions",
                     "permissions", "scope", "organization_roles"}

VARIABLES
    granted,    \* what the user's next ID token will be, by user
    claims,     \* the ID token of each login, while it may act
    request     \* who sent the request in each slot, and what it is to do

adminVars == <<vars, granted, claims, request>>

-----------------------------------------------------------------------------
(* The routes: the permission a route needs, or "session" if a session is  *)
(* enough; whether it compares the tenant with its path; and what it does: *)
(* a route of AccountClosure, "claims" of one user or "allClaims", which   *)
(* it changes at the provider, "signOff", or "none" of these: it reads, or *)
(* writes what no token tells.                                             *)

Needs(p, does) == [needs |-> p, scoped |-> FALSE, does |-> does]
Scoped(p, does) == [needs |-> p, scoped |-> TRUE, does |-> does]

AccountRoutes ==
    [me                   |-> Needs("session", "none"),
     update_me_profile    |-> Needs("session", "none"),
     verify_me_password   |-> Needs("session", "none"),
     send_me_email_code   |-> Needs("session", "none"),
     verify_me_email_code |-> Needs("session", "none"),
     update_me_email      |-> Needs("session", "none"),
     update_me_password   |-> Needs("session", "none"),
     list_me_sessions     |-> Needs("session", "none"),
     revoke_me_session    |-> Needs("session", "signOff"),
     deactivate_me        |-> Needs("session", "deactivate")]

\* PATCH /users/{id} suspends, restores or does neither.
UserRoutes ==
    LET read == "identity.users.read"
        write == "identity.users.write"
    IN  [list_users           |-> Needs(read, "none"),
         create_user          |-> Needs(write, "none"),
         get_user             |-> Needs(read, "none"),
         update_user          |-> Needs(write, "none"),
         update_user_suspends |-> Needs(write, "patch"),
         update_user_restores |-> Needs(write, "restore"),
         suspend_user         |-> Needs(write, "suspend"),
         restore_user         |-> Needs(write, "restore"),
         delete_user          |-> Needs(write, "delete")]

\* Tokens tell the names of roles.
RoleRoutes ==
    LET read == "identity.roles.read"
        write == "identity.roles.write"
    IN  [list_roles     |-> Needs(read, "none"),
         create_role    |-> Needs(write, "none"),
         update_role    |-> Needs(write, "allClaims"),
         set_user_roles |-> Needs(write, "claims")]

OrganizationRoutes ==
    LET read == "identity.organizations.read"
        write == "identity.organizations.write"
    IN  [list_organizations  |-> Needs(read, "none"),
         create_organization |-> Needs(write, "none"),
         update_organization |-> Needs(write, "none"),
         delete_organization |-> Needs(write, "allClaims")]

MemberRoutes ==
    LET read == "identity.organizations.read"
        write == "identity.organizations.write"
    IN  [list_organization_roles |-> Scoped(read, "none"),
         list_members            |-> Scoped(read, "none"),
         add_members             |-> Scoped(write, "allClaims"),
         remove_member           |-> Scoped(write, "claims"),
         set_member_roles        |-> Scoped(write, "claims")]

AuditRoutes == [list_audit |-> Needs("identity.audit.read", "none")]

Routes ==
    UNION {{table[name] : name \in DOMAIN table} :
               table \in {AccountRoutes, UserRoutes, RoleRoutes, OrganizationRoutes,
                          MemberRoutes, AuditRoutes}}

-----------------------------------------------------------------------------
(* Who may take them.                                                      *)

OrElse(S, T) == IF S # {} THEN S ELSE T

\* Mutant of PrincipalOf: roles in any organization count.
PrincipalOfAnywhere(t) ==
    LET tenant == IF t.nsTenant # None THEN t.nsTenant ELSE t.organization_id
    IN  [tenant_id |-> tenant,
         roles |-> OrElse(t.nsRoles, t.roles) \cup {r[2] : r \in t.organization_roles},
         permissions |-> OrElse(OrElse(t.nsPermissions, t.permissions), t.scope)
                           \ {"openid", "profile", "email", "offline_access"}]

\* principal_from_claims: of several places for a claim the first that is not
\* empty counts; roles in the tenant count, those in other organizations do not.
PrincipalOf(t) ==
    LET tenant == IF t.nsTenant # None THEN t.nsTenant ELSE t.organization_id
    IN  [tenant_id |-> tenant,
         roles |-> OrElse(t.nsRoles, t.roles)
                     \cup {r[2] : r \in {x \in t.organization_roles : x[1] = tenant}},
         permissions |-> OrElse(OrElse(t.nsPermissions, t.permissions), t.scope)
                           \ {"openid", "profile", "email", "offline_access"}]

IsAdmin(p) == "identity.admin" \in p.permissions \cup p.roles

\* require_permission, and _assert_tenant for organization g in the path.
Permits(p, route, g) ==
    /\ route.needs \in p.permissions \cup {"session"} \/ IsAdmin(p)
    /\ route.scoped => p.tenant_id = g \/ IsAdmin(p)

-----------------------------------------------------------------------------
(* The actions.                                                            *)

Does == Route \cup {"asking", "none", "claims", "allClaims", "signOff"}
NoRequest == [by |-> None, token |-> None, does |-> "none", on |-> None]

AdminInit ==
    /\ Init
    /\ granted \in [User -> Token]
    /\ claims = [c \in Login |-> None]
    /\ request = [o \in Op |-> NoRequest]

\* The claims of a session that is over are not read again.
Forget ==
    claims' = [c \in Login |-> IF login'[c].state = "over" THEN None ELSE claims[c]]

\* callback: the session carries the claims of its ID token for good; get_session_context
\* and rotate write them back unchanged when they renew the tokens.
AdminExchange(c, u) ==
    /\ Exchange(c, u)
    /\ claims' = [claims EXCEPT ![c] = granted[u]]
    /\ UNCHANGED <<granted, request>>

\* The other steps of callback, users and the provider.
Outside ==
    /\ \/ \E u \in User, p \in SignOn : SignsOn(u, p) \/ SignsOff(u, p)
       \/ \E c \in Login : Store(c) \/ EndLogin(c)
    /\ Forget
    /\ UNCHANGED <<granted, request>>

\* What the routes let a session with claims t do, to its own user or to anyone.
Permitted ==
    [t \in Token |->
        {[does |-> route.does, own |-> route.needs = "session"] :
            route \in {x \in Routes : \E g \in Organization : Permits(PrincipalOf(Claims[t]), x, g)}}]

\* A request arrives from session c, whose row get SELECTs while it is live.  Its
\* principal is made from those claims, whatever becomes of the row while get
\* and a refresh of the tokens wait.
Find(o, c) ==
    /\ op[o] = IdleOp /\ request[o] = NoRequest
    /\ login[c].state = "live"
    /\ request' = [request EXCEPT ![o] =
                      [by |-> c, token |-> claims[c], does |-> "asking", on |-> None]]
    /\ UNCHANGED <<vars, granted, claims>>

\* It is let in, to do may.does, to user u if that concerns one.  Routes that
\* change anything have validate_csrf look at the row again, the others do not.
Ask(o, u) ==
    LET c == request[o].by
    IN  /\ request[o].does = "asking"
        /\ \E may \in Permitted[request[o].token] :
            /\ may.does # "none" => login[c].state = "live"
            /\ may.own \/ may.does \in {"none", "allClaims"} => u = login[c].user
            /\ request' = [request EXCEPT ![o].does = may.does,
                  ![o].on = IF may.does \in {"claims", "signOff"} THEN u ELSE None]
            /\ IF may.does \in Route THEN Begin(o, may.does, u) ELSE UNCHANGED vars
        /\ UNCHANGED <<granted, claims>>

Answered(o) == request' = [request EXCEPT ![o] = NoRequest]

\* Mutant of AdminRun: a request that failed still counts as in flight.
AdminRunForgets(o) ==
    /\ Run(o)
    /\ UNCHANGED request
    /\ Forget
    /\ UNCHANGED granted

\* A step of a request that closes or restores an account.
AdminRun(o) ==
    /\ Run(o)
    /\ IF op'[o] = IdleOp THEN Answered(o) ELSE UNCHANGED request
    /\ Forget
    /\ UNCHANGED granted

Asked(o, does) == request[o].by # None /\ request[o].does = does

\* The call at the provider changes what it will tell of the user, or of users.
ChangeClaims(o) ==
    \E new \in [User -> Token] :
        /\ \/ Asked(o, "claims") /\ \A u \in User \ {request[o].on} : new[u] = granted[u]
           \/ Asked(o, "allClaims")
        /\ granted' = new
        /\ Answered(o)
        /\ UNCHANGED <<vars, claims>>

EndSignOn(o) ==
    /\ Asked(o, "signOff")
    /\ \E p \in SignOn : SignsOff(request[o].on, p)
    /\ Answered(o)
    /\ UNCHANGED <<granted, claims>>

\* The request is refused, had nothing to change, or its call failed; or the
\* process dies.
Ends(o) ==
    /\ request[o].by # None /\ request[o].does \notin Route
    /\ Answered(o)
    /\ UNCHANGED <<vars, granted, claims>>

AdminNext ==
    \/ \E c \in Login, u \in User : AdminExchange(c, u)
    \/ Outside
    \/ \E o \in Op, c \in Login : Find(o, c)
    \/ \E o \in Op, u \in User : Ask(o, u)
    \/ \E o \in Op : AdminRun(o) \/ ChangeClaims(o) \/ EndSignOn(o) \/ Ends(o)

AdminSpec == AdminInit /\ [][AdminNext]_adminVars

-----------------------------------------------------------------------------
(* Properties.                                                             *)

\* Every variable keeps its shape, a request that works on an account is one of
\* AccountClosure's, and a login has claims as long as it may act.
AdminTypeOK ==
    /\ granted \in [User -> Token]
    /\ claims \in [Login -> Token \cup {None}]
    /\ request \in [Op -> [by : Login \cup {None}, token : Token \cup {None},
                           does : Does, on : User \cup {None}]]
    /\ \A o \in Op : /\ request[o].by # None => request[o].token # None
                     /\ request[o].by = None => request[o] = NoRequest
                     /\ op[o] # IdleOp <=> request[o].does \in Route
                     /\ op[o] # IdleOp => op[o].route = request[o].does
    /\ \A c \in Login : claims[c] # None <=> login[c].state \in {"exchanged", "live"}

\* What an ID token says for its bearer, in any place a principal may come from.
Says(t) ==
    LET c == Claims[t]
        here == {x \in c.organization_roles : x[1] \in {c.nsTenant, c.organization_id}}
    IN  UNION {c.nsRoles, c.roles, c.nsPermissions, c.permissions, c.scope,
               {r[2] : r \in here}}

Writes == {"identity.users.write", "identity.roles.write",
           "identity.organizations.write", "identity.admin"}

Harmless(t) == Says(t) \cap Writes = {}

\* No ID token, session or request is of anybody who may write.
Powerless ==
    /\ \A u \in User : Harmless(granted[u])
    /\ \A c \in Login : claims[c] # None => Harmless(claims[c])
    /\ \A o \in Op : request[o].by # None =>
          /\ Harmless(request[o].token)
          /\ request[o].does \in {"asking", "none", "signOff", "deactivate"}

\* Authority never comes from nowhere: while nobody holds a permission to write,
\* no sequence of requests on any of the routes gives one to anybody, changes
\* what a token will say, or an account, except that its owner deactivates it.
\* Roles in another organization than the token's count for nothing.
PowerlessStaysPowerless ==
    [][Powerless =>
         /\ Powerless'
         /\ granted' = granted
         /\ \A u \in User : account'[u] # account[u] =>
               \E o \in Op : request[o].does = "deactivate" /\ login[request[o].by].user = u
      ]_adminVars
=============================================================================
