----------------------------- MODULE BffSession -----------------------------
(***************************************************************************)
(* The browser sessions of the BFF: the rows of table bff_sessions, the    *)
(* HTTP requests that read, rotate and revoke them, and the identity       *)
(* provider's token endpoint as those requests use it.                     *)
(*                                                                         *)
(* Every request runs as one coroutine with one database session, so what  *)
(* can interleave is what lies between two of its commits or awaits.  A    *)
(* request is a record with a program counter:                             *)
(*                                                                         *)
(*   idle -> found -> admitted -> serving -> ...        -> idle            *)
(*             |                     |                                     *)
(*             +-> refreshing <------+   (POST /auth/refresh)              *)
(*                    |      \                                             *)
(*                 granted -> rotating -> admitted or idle                 *)
(*                    |                                                    *)
(*                 revoking -> idle                                        *)
(*                                                                         *)
(*   found       SessionManager.get has SELECTed the row, not committed    *)
(*   refreshing  OidcFlow.refresh is awaiting the token endpoint           *)
(*   granted     the token endpoint has answered with new tokens           *)
(*   rotating    rotate holds the row lock, has checked the row, and has   *)
(*               not committed                                             *)
(*   revoking    the except branch is about to revoke the session          *)
(*   admitted    get_session_context has returned                          *)
(*   serving     validate_csrf has passed, the handler body runs           *)
(*   upstream    logout is revoking tokens at the provider                 *)
(*   closing     revoke_subject's UPDATE collects the locks of its rows,   *)
(*               or has them all and is about to commit                    *)
(*                                                                         *)
(* A token is a number: the n-th token pair the provider issues has access *)
(* token n and refresh token n.  NoTok stands for a missing token.         *)
(***************************************************************************)
EXTENDS Integers, FiniteSets

CONSTANTS
    Sid,        \* session ids that logins may create
    Req,        \* requests that may be in flight at once
    Subject,    \* user ids
    MaxTok,     \* bound: token pairs the provider issues
    Faults,     \* which of FaultKinds may happen
    None        \* no request, no session

FaultKinds == {"outage", "lost", "drop", "db", "crash"}

ASSUME SessionAssumption ==
    /\ MaxTok \in Nat
    /\ Faults \subseteq FaultKinds
    /\ None \notin Sid \cup Req

VARIABLES
    row,        \* bff_sessions, by session id
    lock,       \* which request's transaction holds the row's lock
    req,        \* the requests in flight
    issued,     \* token pairs issued so far
    honoured,   \* refresh tokens the provider accepts
    due         \* access tokens that are within the refresh skew of expiry

vars == <<row, lock, req, issued, honoured, due>>

NoTok == 0
Tok   == 1..MaxTok
TokOrNone == Tok \cup {NoTok}

\* POST, PATCH, PUT and DELETE routes depend on validate_csrf; "close" is a
\* route that calls revoke_subject (deactivate, suspend, delete).
Mutating == {"write", "refresh", "logout", "close"}
Kinds    == {"read"} \cup Mutating

PCs == {"idle", "found", "refreshing", "granted", "rotating", "revoking",
        "admitted", "serving", "upstream", "closing"}

Rows == [state : {"absent", "open", "revoked"}, expired : BOOLEAN,
         subject : Subject \cup {None}, at : TokOrNone, rt : TokOrNone]

Requests == [pc : PCs, kind : Kinds, sid : Sid \cup {None},
             stage : {"entry", "handler"},
             at : TokOrNone, rt : TokOrNone,        \* SessionContext
             newAt : TokOrNone, newRt : TokOrNone,  \* the token response
             scope : SUBSET Sid]                    \* revoke_subject's rows,
                                                    \* not locked yet

NoRow   == [state |-> "absent", expired |-> FALSE, subject |-> None,
            at |-> NoTok, rt |-> NoTok]
IdleReq == [pc |-> "idle", kind |-> "read", sid |-> None, stage |-> "entry",
            at |-> NoTok, rt |-> NoTok, newAt |-> NoTok, newRt |-> NoTok,
            scope |-> {}]

Init ==
    /\ row = [s \in Sid |-> NoRow]
    /\ lock = [s \in Sid |-> None]
    /\ req = [r \in Req |-> IdleReq]
    /\ issued = 0
    /\ honoured = {}
    /\ due = {}

-----------------------------------------------------------------------------
(* Helpers.                                                                *)

\* What get, rotate, csrf_token and csrf_valid all test.
Live(s) == row[s].state = "open" /\ ~row[s].expired

At(r, p)  == req[r].pc = p
Becomes(r, q) == req' = [req EXCEPT ![r] = q]
Goto(r, p) == Becomes(r, [req[r] EXCEPT !.pc = p])
Reply(r)   == Becomes(r, IdleReq)

RowFree(s) == lock[s] = None
Owns(r)    == lock[req[r].sid] = r

\* Token pairs the requests in flight may still ask for: the entry refresh
\* and, for POST /auth/refresh, the handler's own.
Demand(k) == IF k = "refresh" THEN 2 ELSE 1
Reserved == LET Active(k) == {r \in Req : req[r].pc # "idle" /\ req[r].kind = k}
            IN  Cardinality({r \in Req : req[r].pc # "idle"})
                  + Cardinality(Active("refresh"))

-----------------------------------------------------------------------------
(* Login: GET /auth/callback after the code exchange inserts the row.      *)

\* Mutant of Login: a second callback stores the tokens of the first.
LoginReplayed(s, u, hasRt) ==
    /\ row[s].state = "absent"
    /\ issued' = 1
    /\ honoured' = IF hasRt THEN honoured \cup {1} ELSE honoured
    /\ row' = [row EXCEPT ![s] =
                 [state |-> "open", expired |-> FALSE, subject |-> u,
                  at |-> 1, rt |-> IF hasRt THEN 1 ELSE NoTok]]
    /\ UNCHANGED <<lock, req, due>>

Login(s, u, hasRt) ==
    /\ row[s].state = "absent"
    /\ issued < MaxTok /\ issued + Reserved < MaxTok   \* bound on MaxTok
    /\ issued' = issued + 1
    /\ honoured' = IF hasRt THEN honoured \cup {issued'} ELSE honoured
    /\ row' = [row EXCEPT ![s] =
                 [state |-> "open", expired |-> FALSE, subject |-> u,
                  at |-> issued', rt |-> IF hasRt THEN issued' ELSE NoTok]]
    /\ UNCHANGED <<lock, req, due>>

-----------------------------------------------------------------------------
(* get_session_context.                                                    *)

\* SessionManager.get up to its SELECT; a row that is not live is a 401 that
\* leaves nothing behind.
Lookup(r, s, k) ==
    /\ At(r, "idle")
    /\ issued + Reserved + Demand(k) <= MaxTok      \* bound on MaxTok
    /\ Live(s)
    /\ Becomes(r, [IdleReq EXCEPT !.pc = "found", !.kind = k, !.sid = s,
                                  !.at = row[s].at, !.rt = row[s].rt])
    /\ UNCHANGED <<row, lock, issued, honoured, due>>

\* Mutant of AfterTouch: the test of the refresh token is inverted.
AfterTouchInverted(r) ==
    CASE req[r].at \notin due -> "admitted"
      [] req[r].at \in due /\ req[r].rt # NoTok -> "revoking"
      [] OTHER -> "refreshing"

AfterTouch(r) ==
    CASE req[r].at \notin due  -> "admitted"
      [] req[r].at \in due /\ req[r].rt = NoTok -> "revoking"
      [] OTHER -> "refreshing"

\* The UPDATE of last_seen_at waits for the row lock and commits; the context
\* is built from the values SELECTed before, then its expiry is looked at.
Touch(r) ==
    /\ At(r, "found")
    /\ RowFree(req[r].sid)
    /\ Goto(r, AfterTouch(r))
    /\ UNCHANGED <<row, lock, issued, honoured, due>>

\* The token endpoint accepts the refresh token; a rotating answer consumes
\* it and carries a new one.
Grant(r, rotates) ==
    /\ At(r, "refreshing")
    /\ req[r].rt \in honoured
    /\ issued < MaxTok
    /\ issued' = issued + 1
    /\ honoured' = IF rotates THEN (honoured \ {req[r].rt}) \cup {issued'}
                              ELSE honoured

\* An answer that does not rotate the token repeats it or leaves it out; the
\* OAuth client then puts the presented one into what it returns.
RefreshGranted(r, rotates) ==
    /\ Grant(r, rotates)
    /\ Becomes(r, [req[r] EXCEPT !.pc = "granted", !.newAt = issued',
                      !.newRt = IF rotates THEN issued' ELSE req[r].rt])
    /\ UNCHANGED <<row, lock, due>>

RefreshRefused(r) ==
    /\ At(r, "refreshing")
    /\ req[r].rt \notin honoured
    /\ Goto(r, "revoking")
    /\ UNCHANGED <<row, lock, issued, honoured, due>>

\* Mutant of RotateLock: the row is not tested again under its lock.
RotateLockUnchecked(r) ==
    /\ At(r, "granted")
    /\ RowFree(req[r].sid)
    /\ lock' = [lock EXCEPT ![req[r].sid] = r]
    /\ Goto(r, "rotating")
    /\ UNCHANGED <<row, issued, honoured, due>>

\* Mutant of RotateLock: rotate's None is answered, the transaction left open.
RotateLockLeaked(r) ==
    /\ At(r, "granted")
    /\ RowFree(req[r].sid)
    /\ lock' = [lock EXCEPT ![req[r].sid] = r]
    /\ IF Live(req[r].sid) THEN Goto(r, "rotating") ELSE Reply(r)
    /\ UNCHANGED <<row, issued, honoured, due>>

\* rotate: SELECT ... FOR UPDATE, then the test of the row.  Its early return
\* leaves the transaction, and so the lock, open for the revoke that follows.
RotateLock(r) ==
    /\ At(r, "granted")
    /\ RowFree(req[r].sid)
    /\ lock' = [lock EXCEPT ![req[r].sid] = r]
    /\ Goto(r, IF Live(req[r].sid) THEN "rotating" ELSE "revoking")
    /\ UNCHANGED <<row, issued, honoured, due>>

\* Mutant of Rotated: the new refresh token is not stored.
RotatedKeepsOld(old, q) == [old EXCEPT !.at = q.newAt]

\* Mutant of Rotated: an empty access token is stored.
RotatedEmpty(old, q) ==
    [old EXCEPT !.at = NoTok, !.rt = IF q.newRt # NoTok THEN q.newRt ELSE old.rt]

\* What rotate writes: the refresh token of the response, if it has one,
\* whatever the row has stored since the request read it.
Rotated(old, q) ==
    [old EXCEPT !.at = q.newAt,
                !.rt = IF q.newRt # NoTok THEN q.newRt ELSE old.rt]

\* rotate's writes and commit; the refreshed context replaces the old one.
RotateCommit(r) ==
    LET s == req[r].sid
        new == Rotated(row[s], req[r])
    IN  /\ At(r, "rotating")
        /\ row' = [row EXCEPT ![s] = new]
        /\ lock' = [lock EXCEPT ![s] = None]
        /\ IF req[r].stage = "entry"
           THEN Becomes(r, [req[r] EXCEPT
                      !.pc = "admitted", !.at = new.at, !.rt = new.rt,
                      !.newAt = NoTok, !.newRt = NoTok])
           ELSE Reply(r)
        /\ UNCHANGED <<issued, honoured, due>>

\* SessionManager.revoke, then the 401.
Revoke(r) ==
    LET s == req[r].sid
    IN  /\ At(r, "revoking")
        /\ RowFree(s) \/ Owns(r)
        /\ row' = [row EXCEPT ![s].state = "revoked"]
        /\ lock' = [lock EXCEPT ![s] = None]
        /\ Reply(r)
        /\ UNCHANGED <<issued, honoured, due>>

-----------------------------------------------------------------------------
(* The handlers.                                                           *)

\* A GET handler works from the context alone.
ServeRead(r) ==
    /\ At(r, "admitted")
    /\ req[r].kind = "read"
    /\ Reply(r)
    /\ UNCHANGED <<row, lock, issued, honoured, due>>

\* validate_csrf reads the row again; a wrong header or a dead row is a 403.
CheckCsrf(r, headerOk) ==
    /\ At(r, "admitted")
    /\ req[r].kind \in Mutating
    /\ IF headerOk /\ Live(req[r].sid) THEN Goto(r, "serving") ELSE Reply(r)
    /\ UNCHANGED <<row, lock, issued, honoured, due>>

ServeWrite(r) ==
    /\ At(r, "serving")
    /\ req[r].kind = "write"
    /\ Reply(r)
    /\ UNCHANGED <<row, lock, issued, honoured, due>>

\* POST /auth/refresh: 401 without revocation when there is nothing to refresh
\* with, else the same refresh and rotate as at entry.
ServeRefresh(r) ==
    /\ At(r, "serving")
    /\ req[r].kind = "refresh"
    /\ IF req[r].rt = NoTok
       THEN Reply(r)
       ELSE Becomes(r, [req[r] EXCEPT !.pc = "refreshing", !.stage = "handler"])
    /\ UNCHANGED <<row, lock, issued, honoured, due>>

\* POST /auth/logout: the row first, then the provider.
LogoutRevoke(r) ==
    /\ At(r, "serving")
    /\ req[r].kind = "logout"
    /\ RowFree(req[r].sid)
    /\ row' = [row EXCEPT ![req[r].sid].state = "revoked"]
    /\ Goto(r, "upstream")
    /\ UNCHANGED <<lock, issued, honoured, due>>

\* Best effort: the endpoint may be missing or fail, and the reply is the same.
LogoutUpstream(r, done) ==
    /\ At(r, "upstream")
    /\ honoured' = IF done THEN honoured \ {req[r].rt} ELSE honoured
    /\ Reply(r)
    /\ UNCHANGED <<row, lock, issued, due>>

\* Mutant of CloseSnapshot: the condition on the subject is missing.
CloseSnapshotOfAll(r, u) ==
    /\ At(r, "serving")
    /\ req[r].kind = "close"
    /\ Becomes(r, [req[r] EXCEPT !.pc = "closing",
           !.scope = {s \in Sid : row[s].state = "open"}])
    /\ UNCHANGED <<row, lock, issued, honoured, due>>

\* revoke_subject's UPDATE: the rows its snapshot sees ...
CloseSnapshot(r, u) ==
    /\ At(r, "serving")
    /\ req[r].kind = "close"
    /\ Becomes(r, [req[r] EXCEPT !.pc = "closing",
           !.scope = {s \in Sid : row[s].state = "open" /\ row[s].subject = u}])
    /\ UNCHANGED <<row, lock, issued, honoured, due>>

\* ... are locked one after another, in an order PostgreSQL does not promise;
\* those it has stay locked while it waits for the next ...
CloseLock(r, s) ==
    /\ At(r, "closing")
    /\ s \in req[r].scope
    /\ RowFree(s)
    /\ lock' = [lock EXCEPT ![s] = r]
    /\ Becomes(r, [req[r] EXCEPT !.scope = @ \ {s}])
    /\ UNCHANGED <<row, issued, honoured, due>>

Locked(r) == {s \in Sid : lock[s] = r}

\* Mutant of ReleaseOf: the database session is not closed after an error.
ReleaseNothing(r) == lock

\* Closing the request's database session, or a commit, ends its transaction.
ReleaseOf(r) == [s \in Sid |-> IF lock[s] = r THEN None ELSE lock[s]]

\* ... and are revoked together by the commit.
CloseCommit(r) ==
    /\ At(r, "closing")
    /\ req[r].scope = {}
    /\ row' = [s \in Sid |-> IF s \in Locked(r)
                             THEN [row[s] EXCEPT !.state = "revoked"] ELSE row[s]]
    /\ lock' = ReleaseOf(r)
    /\ Reply(r)
    /\ UNCHANGED <<issued, honoured, due>>

-----------------------------------------------------------------------------
(* Waiting.                                                                *)

\* Request r waits for a row lock that q holds: get's UPDATE, rotate's SELECT
\* FOR UPDATE, the UPDATEs of revoke (in a transaction of its own or in the one
\* rotate left open), of logout and of revoke_subject.
WaitsFor(r, q) ==
    \E s \in Sid :
        /\ lock[s] = q
        /\ \/ req[r].pc \in {"found", "granted"} /\ req[r].sid = s
           \/ At(r, "revoking") /\ req[r].sid = s /\ q # r
           \/ At(r, "serving") /\ req[r].kind = "logout" /\ req[r].sid = s
           \/ At(r, "closing") /\ s \in req[r].scope

\* Requests that wait for each other in a circle.
Deadlocked(C) ==
    \A q \in C : (\E p \in C : WaitsFor(q, p)) /\ (\E p \in C : WaitsFor(p, q))

\* PostgreSQL finds the circle and cancels one UPDATE in it: its transaction is
\* rolled back, the request ends in a 500.
DeadlockBroken(r) ==
    /\ At(r, "closing")
    /\ \E C \in SUBSET Req : r \in C /\ Deadlocked(C)
    /\ lock' = ReleaseOf(r)
    /\ Reply(r)
    /\ UNCHANGED <<row, issued, honoured, due>>

-----------------------------------------------------------------------------
(* Time and faults.                                                        *)

Expire(s) ==
    /\ row[s].state # "absent"
    /\ ~row[s].expired
    /\ row' = [row EXCEPT ![s].expired = TRUE]
    /\ UNCHANGED <<lock, req, issued, honoured, due>>

\* An access token some row or context still refers to nears its expiry.
BecomeDue(t) ==
    /\ t \notin due
    /\ (\E s \in Sid : row[s].at = t) \/ (\E r \in Req : req[r].at = t)
    /\ due' = due \cup {t}
    /\ UNCHANGED <<row, lock, req, issued, honoured>>

\* The token endpoint does not answer.
RefreshUnreachable(r) ==
    /\ "outage" \in Faults
    /\ At(r, "refreshing")
    /\ Goto(r, "revoking")
    /\ UNCHANGED <<row, lock, issued, honoured, due>>

\* It answers and the answer is lost, or is malformed.
RefreshReplyLost(r, rotates) ==
    /\ "lost" \in Faults
    /\ Grant(r, rotates)
    /\ Goto(r, "revoking")
    /\ UNCHANGED <<row, lock, due>>

\* The provider ends a grant by itself.
ProviderDrop(t) ==
    /\ "drop" \in Faults
    /\ t \in honoured
    /\ honoured' = honoured \ {t}
    /\ UNCHANGED <<row, lock, req, issued, due>>

\* A database step fails.  Once a transaction is open the except branch's
\* revoke fails as well, so the request ends in a 500 and the row stays; if
\* rotate could not even begin one, the revoke may still succeed.
DbFault(r) ==
    /\ "db" \in Faults
    /\ \/ req[r].pc \in {"found", "granted", "rotating", "revoking", "admitted", "closing"}
       \/ At(r, "serving") /\ req[r].kind \in {"logout", "close"}
    /\ \/ Reply(r)
       \/ At(r, "granted") /\ Goto(r, "revoking")
    /\ lock' = ReleaseOf(r)
    /\ UNCHANGED <<row, issued, honoured, due>>

\* rotate's commit takes effect and its acknowledgement does not arrive.
CommitUnacknowledged(r) ==
    /\ "db" \in Faults
    /\ At(r, "rotating")
    /\ row' = [row EXCEPT ![req[r].sid] = Rotated(@, req[r])]
    /\ lock' = ReleaseOf(r)
    /\ Reply(r)
    /\ UNCHANGED <<issued, honoured, due>>

\* The server process dies: its requests are gone, its transactions roll back.
Crash ==
    /\ "crash" \in Faults
    /\ \E r \in Req : req[r].pc # "idle"
    /\ req' = [r \in Req |-> IdleReq]
    /\ lock' = [s \in Sid |-> None]
    /\ UNCHANGED <<row, issued, honoured, due>>

-----------------------------------------------------------------------------
\* What the server does for request r once it is in flight.
Serve(r) ==
    \/ Touch(r)
    \/ \E rotates \in BOOLEAN : RefreshGranted(r, rotates)
    \/ RefreshRefused(r)
    \/ RotateLock(r)
    \/ RotateCommit(r)
    \/ Revoke(r)
    \/ ServeRead(r)
    \/ \E headerOk \in BOOLEAN : CheckCsrf(r, headerOk)
    \/ ServeWrite(r)
    \/ ServeRefresh(r)
    \/ LogoutRevoke(r)
    \/ \E done \in BOOLEAN : LogoutUpstream(r, done)
    \/ \E u \in Subject : CloseSnapshot(r, u)
    \/ \E s \in Sid : CloseLock(r, s)
    \/ CloseCommit(r)
    \/ DeadlockBroken(r)

Clients ==
    \/ \E s \in Sid, u \in Subject, hasRt \in BOOLEAN : Login(s, u, hasRt)
    \/ \E r \in Req, s \in Sid, k \in Kinds : Lookup(r, s, k)

Time ==
    \/ \E s \in Sid : Expire(s)
    \/ \E t \in Tok : BecomeDue(t)

Fault ==
    \/ \E r \in Req : RefreshUnreachable(r)
    \/ \E r \in Req, rotates \in BOOLEAN : RefreshReplyLost(r, rotates)
    \/ \E t \in Tok : ProviderDrop(t)
    \/ \E r \in Req : DbFault(r)
    \/ \E r \in Req : CommitUnacknowledged(r)
    \/ Crash

Next == (\E r \in Req : Serve(r)) \/ Clients \/ Time \/ Fault

\* The event loop runs every ready coroutine, outgoing HTTP calls time out, and
\* PostgreSQL queues the waiters of a row lock in order and breaks deadlocks: a
\* request that can go on again and again does go on.
Fairness == \A r \in Req : SF_vars(Serve(r))

Spec == Init /\ [][Next]_vars
FairSpec == Spec /\ Fairness

-----------------------------------------------------------------------------
(* Properties.                                                             *)

Shape ==
    /\ row \in [Sid -> Rows]
    /\ lock \in [Sid -> Req \cup {None}]
    /\ req \in [Req -> Requests]
    /\ issued \in 0..MaxTok
    /\ honoured \subseteq Tok
    /\ due \subseteq Tok

Exists(s) == row[s].state # "absent"

WellFormed ==
    /\ \A r \in Req : /\ ~At(r, "idle") => req[r].sid \in Sid /\ Exists(req[r].sid)
                      /\ At(r, "granted") \/ At(r, "rotating") => req[r].newAt # NoTok
                      /\ \A s \in req[r].scope : Exists(s)
    /\ \A s \in Sid : /\ Exists(s) => row[s].at # NoTok
                      /\ lock[s] # None => Exists(s)

\* Every variable keeps its shape; a request in flight has a session and a lock
\* a row; an answer in hand has an access token, and so has every row, where the
\* column encrypted_access_token is not nullable.
TypeOK == Shape /\ WellFormed

\* A row lock never outlives its purpose: its owner is between rotate's SELECT
\* FOR UPDATE and the commit of rotate, or of the revoke after rotate returned
\* None, and works on that very row; or it is a closure that has the row and
\* has not committed.  Otherwise every later request of the browser would hang
\* in get.
LockDiscipline ==
    \A s \in Sid : lock[s] # None =>
        \/ req[lock[s]].pc \in {"rotating", "revoking"} /\ req[lock[s]].sid = s
        \/ At(lock[s], "closing") /\ s \notin req[lock[s]].scope

\* Only closures of one user can deadlock: who holds a lock that others wait
\* for and waits itself is a closure, and all the rows it has and wants are one
\* user's.  A refresh or a logout is never part of a circle, although rotate
\* returns None with its transaction open and revoke needs the row again.
OnlyClosuresHoldAndWait ==
    \A r, q, p \in Req : WaitsFor(r, q) /\ WaitsFor(q, p) =>
        /\ At(q, "closing")
        /\ \A s \in Locked(q), t \in req[q].scope : row[s].subject = row[t].subject

\* Revocation is final, whatever refresh was in flight when it committed: a
\* revoked row is never reopened and never gets new tokens (sessions.py, the
\* second test in rotate, made under the row lock).
RevokedIsFinal ==
    [][\A s \in Sid : row[s].state = "revoked" =>
           /\ row'[s].state = "revoked"
           /\ row'[s].at = row[s].at
           /\ row'[s].rt = row[s].rt]_vars

\* r has an answer of the token endpoint with a refresh token for session s
\* that the provider accepts.
Carries(r, s) ==
    /\ req[r].pc \in {"granted", "rotating"}
    /\ req[r].sid = s
    /\ req[r].newRt \in honoured

\* r could not use the lost answer to its refresh and is about to end s.
Abandons(r, s) == "lost" \in Faults /\ At(r, "revoking") /\ req[r].sid = s

\* Session s has not lost its grant: it never had a refresh token, or the stored
\* one is accepted, or a request holds its successor and is about to store it,
\* or the successor was lost on its way and a request is about to end s.
HasGrant(s) ==
    \/ row[s].rt = NoTok
    \/ row[s].rt \in honoured
    \/ \E r \in Req : Carries(r, s) \/ Abandons(r, s)

\* r stores the refresh token it presented over the one another request has
\* stored since r read the row.
WritesBack(r, s) ==
    /\ At(r, "rotating") /\ req[r].sid = s
    /\ req[r].newRt = req[r].rt
    /\ row[s].rt \in honoured /\ row[s].rt # req[r].rt
    /\ row'[s].rt = req[r].rt

\* As long as the server and its database work and the provider ends no grant
\* by itself, whether the provider can be reached or not, and however many
\* requests, logouts and closures overlap: the only way a session that stays
\* live loses its grant is that rotate writes a token back that another request
\* has replaced (sessions.py, rotate does not look at the stored token).
GrantLostOnlyByWriteBack ==
    [][Faults \subseteq {"outage", "lost"} =>
         \A s \in Sid : Live(s) /\ HasGrant(s) /\ Live(s)' /\ ~HasGrant(s)' =>
             \E r \in Req : WritesBack(r, s)]_vars

\* Request r ends session s because its refresh failed.
EndsByFailedRefresh(r, s) ==
    /\ At(r, "revoking") /\ req[r].sid = s
    /\ Live(s)
    /\ row'[s].state = "revoked"
    /\ req'[r].pc = "idle"

\* As long as the token endpoint answers and the database works, a failed
\* refresh ends a live session only if the session could not be refreshed any
\* more or another request has refreshed it since this one read it, also when
\* the provider ends grants by itself or the server restarts
\* (dependencies.py and routes.py, the except branches).
EndsOnlyDeadOrSuperseded ==
    [][Faults \subseteq {"drop", "crash"} =>
         \A r \in Req, s \in Sid : EndsByFailedRefresh(r, s) =>
           \/ row[s].rt \notin honoured
           \/ row[s].rt # req[r].rt]_vars

\* The promise of a safe session refresh: while nothing fails, a request whose
\* refresh was refused does not end a session that still has a refresh token
\* the provider accepts.
RefreshIsSafe ==
    [][Faults = {} => \A r \in Req, s \in Sid :
           EndsByFailedRefresh(r, s) => row[s].rt \notin honoured]_vars

\* Every request is answered, with all faults and any contention for the row:
\* no request waits for ever on a lock, and no lock order can deadlock.
EveryRequestAnswered ==
    \A r \in Req : ~At(r, "idle") ~> At(r, "idle")

\* The store keeps SessionContract's promise: a grant is stored once, in the
\* session it was obtained for, and only while that session has not ended.
StatusOf(s) == CASE row[s].state = "absent" -> "unborn"
                 [] row[s].state = "open" -> "live"
                 [] OTHER -> "ended"
Held == {<<req[r].sid, req[r].newAt>> :
            r \in {q \in Req : req[q].pc \in {"granted", "rotating"}}}

Contract == INSTANCE SessionContract WITH
    Session <- Sid, MaxGrant <- MaxTok,
    status <- [s \in Sid |-> StatusOf(s)],
    grant <- [s \in Sid |-> row[s].at],
    spent <- 1..issued,
    held <- Held

KeepsContract == Contract!CSpec

\* Tokens stay private: no two sessions ever store the tokens of one answer of
\* the provider, and an answer on its way into a session is nobody else's.
TokensStayPrivate == Contract!OneOwner
=============================================================================
