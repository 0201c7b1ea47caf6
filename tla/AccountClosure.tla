--------------------------- MODULE AccountClosure ---------------------------
(***************************************************************************)
(* Closing accounts: the routes that suspend, restore and delete a user at *)
(* the identity provider and revoke the user's sessions, while users sign  *)
(* in and call back.                                                       *)
(*                                                                         *)
(* Each route is a fixed sequence of calls with an await between any two;  *)
(* the first call that fails ends the request with an error.  A login is   *)
(* one run of GET /auth/callback: the code exchange at the provider, then  *)
(* the insertion of the session row.                                       *)
(***************************************************************************)
EXTENDS Integers, Sequences, FiniteSets

CONSTANTS
    User,       \* accounts at the provider
    Login,      \* callbacks, and the session row each may insert
    SignOn,     \* sessions of the browser at the provider itself
    Op,         \* requests to the routes below that may be in flight at once
    None        \* nobody

ASSUME ClosureAssumption == None \notin User \cup Login

VARIABLES
    account,    \* the provider's account status, by user
    signedOn,   \* the provider's sessions, by user
    usedSignOn, \* provider sessions that ever existed
    login,      \* callbacks and session rows
    op,         \* requests in flight
    closed,     \* the route whose answer closed the account, until restored
    straggler   \* logins in flight while that route closed it, by user

vars == <<account, signedOn, usedSignOn, login, op, closed, straggler>>

\* Mutant of Plan: sessions are revoked before the account is suspended.
PlanRevokeFirst ==
    [idle       |-> <<>>,
     deactivate |-> <<"revoke", "suspend", "list", "purge">>,
     suspend    |-> <<"revoke", "suspend", "list", "purge">>,
     patch      |-> <<"revoke", "suspend">>,
     restore    |-> <<"restore">>,
     delete     |-> <<"revoke", "list", "purge", "remove">>]

\* The calls each route makes, in order.  PATCH /users/{id} is "patch" when its
\* body has isSuspended: true and "restore" when it has isSuspended: false; its
\* other bodies change nothing here.
Plan ==
    [idle       |-> <<>>,
     deactivate |-> <<"suspend", "list", "purge", "revoke">>,
     suspend    |-> <<"suspend", "list", "purge", "revoke">>,
     patch      |-> <<"suspend", "revoke">>,
     restore    |-> <<"restore">>,
     delete     |-> <<"revoke", "list", "purge", "remove">>]

Route == DOMAIN Plan \ {"idle"}
Suspending == {"deactivate", "suspend", "patch"}
Closing == Suspending \cup {"delete"}

LoginStates == {"none", "exchanged", "live", "over"}
Logins == [state : LoginStates, user : User \cup {None}]
Ops == [route : DOMAIN Plan, step : 1..4, user : User \cup {None},
        todo : SUBSET SignOn,       \* provider sessions listed, not yet deleted
        inFlight : SUBSET Login,    \* logins past the exchange at its suspension;
                                    \* of delete, at its revocation or since
        undone : BOOLEAN]           \* the user was restored since

IdleOp == [route |-> "idle", step |-> 1, user |-> None, todo |-> {},
           inFlight |-> {}, undone |-> FALSE]

Init ==
    /\ account = [u \in User |-> "active"]
    /\ signedOn = [u \in User |-> {}]
    /\ usedSignOn = {}
    /\ login = [c \in Login |-> [state |-> "none", user |-> None]]
    /\ op = [o \in Op |-> IdleOp]
    /\ closed = [u \in User |-> "no"]
    /\ straggler = [u \in User |-> {}]

Of(u, st) == {c \in Login : login[c].user = u /\ login[c].state = st}
Moved(c, st) == login' = [login EXCEPT ![c].state = st]

-----------------------------------------------------------------------------
(* Signing in.  The provider lets only active accounts sign on, and answers *)
(* a code exchange only for them.                                           *)

SignsOn(u, p) ==
    /\ account[u] = "active"
    /\ p \notin usedSignOn
    /\ usedSignOn' = usedSignOn \cup {p}
    /\ signedOn' = [signedOn EXCEPT ![u] = @ \cup {p}]
    /\ UNCHANGED <<account, login, op, closed, straggler>>

\* A session at the provider ends: it expires, the user signs out there or
\* deletes it (revoke_me_session).
SignsOff(u, p) ==
    /\ p \in signedOn[u]
    /\ signedOn' = [signedOn EXCEPT ![u] = @ \ {p}]
    /\ UNCHANGED <<account, usedSignOn, login, op, closed, straggler>>

\* OidcFlow.exchange in callback.
Exchange(c, u) ==
    /\ login[c].state = "none"
    /\ account[u] = "active"
    /\ signedOn[u] # {}
    /\ login' = [login EXCEPT ![c] = [state |-> "exchanged", user |-> u]]
    /\ op' = [o \in Op |-> IF op[o].route = "delete" /\ op[o].user = u
                             THEN [op[o] EXCEPT !.inFlight = @ \cup {c}] ELSE op[o]]
    /\ UNCHANGED <<account, signedOn, usedSignOn, closed, straggler>>

\* SessionManager.create in callback: nobody looks at the account again.
Store(c) ==
    /\ login[c].state = "exchanged"
    /\ Moved(c, "live")
    /\ UNCHANGED <<account, signedOn, usedSignOn, op, closed, straggler>>

\* The ID token is missing or invalid, the insert fails; or the session ends by
\* logout, expiry or a refused refresh.
EndLogin(c) ==
    /\ login[c].state \in {"exchanged", "live"}
    /\ Moved(c, "over")
    /\ UNCHANGED <<account, signedOn, usedSignOn, op, closed, straggler>>

-----------------------------------------------------------------------------
(* The routes.                                                             *)

\* A request arrives.  deactivate_me comes from a live session of the user; the
\* others come from an administrator.
Begin(o, k, u) ==
    /\ op[o] = IdleOp
    /\ k = "deactivate" => Of(u, "live") # {}
    /\ op' = [op EXCEPT ![o] = [IdleOp EXCEPT !.route = k, !.user = u]]
    /\ UNCHANGED <<account, signedOn, usedSignOn, login, closed, straggler>>

At(o, call) == op[o].route # "idle" /\ Plan[op[o].route][op[o].step] = call
LastStep(o) == op[o].step = Len(Plan[op[o].route])

\* Mutant of Proceed: the last call is followed by another.
ProceedPastEnd(o, q) ==
    /\ op' = [op EXCEPT ![o] = [q EXCEPT !.step = @ + 1]]
    /\ UNCHANGED <<closed, straggler>>

\* A suspension or deletion that is answered closes the account, unless the
\* suspension was undone.
Closes(o, q) == LastStep(o) /\ q.route \in Closing /\ (q.undone => q.route = "delete")

\* Request o, now q, goes on to its next call, or is answered with success.
Proceed(o, q) ==
    /\ op' = [op EXCEPT ![o] = IF LastStep(o) THEN IdleOp ELSE [q EXCEPT !.step = @ + 1]]
    /\ IF Closes(o, q)
       THEN /\ closed' = [closed EXCEPT ![q.user] = q.route]
            /\ straggler' = [straggler EXCEPT ![q.user] = q.inFlight]
       ELSE UNCHANGED <<closed, straggler>>

\* users.update(id, isSuspended: true); 404 for a deleted user is a failure.
Suspend(o) ==
    LET u == op[o].user
    IN  /\ At(o, "suspend")
        /\ account[u] # "deleted"
        /\ account' = [account EXCEPT ![u] = "suspended"]
        /\ Proceed(o, [op[o] EXCEPT !.inFlight = Of(u, "exchanged"), !.undone = FALSE])
        /\ UNCHANGED <<signedOn, usedSignOn, login>>

\* revoke_all_user_sessions: list them ...
List(o) ==
    LET u == op[o].user
    IN  /\ At(o, "list")
        /\ account[u] # "deleted"
        /\ Proceed(o, [op[o] EXCEPT !.todo = signedOn[u]])
        /\ UNCHANGED <<account, signedOn, usedSignOn, login>>

\* Mutant of Purge: only the first listed session is deleted.
PurgeOnce(o) ==
    LET u == op[o].user
    IN  /\ At(o, "purge")
        /\ op[o].todo # {}
        /\ \E p \in op[o].todo \cap signedOn[u] :
               signedOn' = [signedOn EXCEPT ![u] = @ \ {p}]
        /\ Proceed(o, op[o])
        /\ UNCHANGED <<account, usedSignOn, login>>

\* ... and delete them one by one; one that is gone by now is a 404.  (The loop
\* passes over an entry without an id: the provider's sessions all have one.)
Purge(o) ==
    LET u == op[o].user
    IN  /\ At(o, "purge")
        /\ IF op[o].todo = {}
           THEN Proceed(o, op[o]) /\ UNCHANGED signedOn
           ELSE \E p \in op[o].todo \cap signedOn[u] :
                /\ signedOn' = [signedOn EXCEPT ![u] = @ \ {p}]
                /\ op' = [op EXCEPT ![o].todo = @ \ {p}]
                /\ UNCHANGED <<closed, straggler>>
        /\ UNCHANGED <<account, usedSignOn, login>>

\* SessionManager.revoke_subject; when it fails the request does.
Revoke(o) ==
    LET u == op[o].user
    IN  /\ At(o, "revoke")
        /\ login' = [c \in Login |-> IF c \in Of(u, "live")
                        THEN [login[c] EXCEPT !.state = "over"] ELSE login[c]]
        /\ Proceed(o, IF op[o].route = "delete"
                      THEN [op[o] EXCEPT !.inFlight = Of(u, "exchanged")] ELSE op[o])
        /\ UNCHANGED <<account, signedOn, usedSignOn>>

\* users.update(id, isSuspended: false).
Restore(o) ==
    LET u == op[o].user
    IN  /\ At(o, "restore")
        /\ account[u] # "deleted"
        /\ account' = [account EXCEPT ![u] = "active"]
        /\ op' = [x \in Op |-> IF x = o THEN IdleOp
                               ELSE [op[x] EXCEPT !.undone = op[x].user = u \/ @]]
        /\ closed' = [closed EXCEPT ![u] = "no"]
        /\ UNCHANGED <<signedOn, usedSignOn, login, straggler>>

Remove(o) ==
    LET u == op[o].user
    IN  /\ At(o, "remove")
        /\ account[u] # "deleted"
        /\ account' = [account EXCEPT ![u] = "deleted"]
        /\ Proceed(o, op[o])
        /\ UNCHANGED <<signedOn, usedSignOn, login>>

\* A call is refused, times out, or fails in the database; the process may also
\* die there.  The request ends, its calls so far stay done.
Fail(o) ==
    /\ op[o].route # "idle"
    /\ op' = [op EXCEPT ![o] = IdleOp]
    /\ UNCHANGED <<account, signedOn, usedSignOn, login, closed, straggler>>

\* The same with the provider's reply lost: the call itself took effect.
FailAfterEffect(o) ==
    LET u == op[o].user
    IN  /\ \/ /\ At(o, "suspend") /\ account[u] # "deleted"
              /\ account' = [account EXCEPT ![u] = "suspended"]
              /\ UNCHANGED signedOn
           \/ /\ At(o, "remove") /\ account[u] # "deleted"
              /\ account' = [account EXCEPT ![u] = "deleted"]
              /\ UNCHANGED signedOn
           \/ /\ At(o, "purge")
              /\ \E p \in op[o].todo \cap signedOn[u] :
                     signedOn' = [signedOn EXCEPT ![u] = @ \ {p}]
              /\ UNCHANGED account
        /\ op' = [op EXCEPT ![o] = IdleOp]
        /\ UNCHANGED <<usedSignOn, login, closed, straggler>>

Run(o) ==
    \/ Suspend(o)
    \/ List(o)
    \/ Purge(o)
    \/ Revoke(o)
    \/ Restore(o)
    \/ Remove(o)
    \/ Fail(o)
    \/ FailAfterEffect(o)

Next ==
    \/ \E u \in User, p \in SignOn : SignsOn(u, p) \/ SignsOff(u, p)
    \/ \E c \in Login, u \in User : Exchange(c, u)
    \/ \E c \in Login : Store(c) \/ EndLogin(c)
    \/ \E o \in Op, k \in Route, u \in User : Begin(o, k, u)
    \/ \E o \in Op : Run(o)

Spec == Init /\ [][Next]_vars

-----------------------------------------------------------------------------
(* Properties.                                                             *)

\* Every variable keeps its shape, and who signed on is not reused.
TypeOK ==
    /\ account \in [User -> {"active", "suspended", "deleted"}]
    /\ signedOn \in [User -> SUBSET usedSignOn]
    /\ usedSignOn \subseteq SignOn
    /\ login \in [Login -> Logins]
    /\ op \in [Op -> Ops]
    /\ \A o \in Op : op[o].route # "idle" => op[o].step <= Len(Plan[op[o].route])
    /\ closed \in [User -> Closing \cup {"no"}]
    /\ straggler \in [User -> SUBSET Login]

\* Once a suspension has been answered, and until the user is restored, a live
\* session of the user can only be one whose callback was between its code
\* exchange and its insert when the account was suspended: no later sign-in,
\* and no session that existed then, survives (deactivate_me, suspend_user,
\* update_user: suspend first, revoke after it).  After a deletion, which
\* revokes first and closes the door last (delete_user), it can also be one
\* whose callback exchanged its code between the two.
ClosedOnlyStragglers ==
    \A u \in User : closed[u] # "no" =>
        account[u] # "active" /\ Of(u, "live") \subseteq straggler[u]

\* deactivate_me and suspend_user touch the user's own sessions last: by then
\* the account is closed and no provider session is left to sign in with
\* silently, nor is there one later, until the user is restored.  A closure that
\* fails before has ended no session, so the user it came from can send it again.
NothingLeftUpstream ==
    LET Full == {"deactivate", "suspend"} IN
    /\ \A o \in Op :
          At(o, "revoke") /\ op[o].route \in Full /\ ~op[o].undone
              => account[op[o].user] # "active" /\ signedOn[op[o].user] = {}
    /\ \A u \in User : closed[u] \in Full => signedOn[u] = {}

\* Self-service closure is suspension plus revocation of all sessions of the
\* user: once deactivate_me was answered, and until the user is restored, none
\* is live.
ClosureIsComplete ==
    \A u \in User : closed[u] = "deactivate" =>
        account[u] # "active" /\ Of(u, "live") = {}
=============================================================================
