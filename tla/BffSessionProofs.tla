-------------------------- MODULE BffSessionProofs --------------------------
(***************************************************************************)
(* What holds of BffSession for every set of sessions, requests, users and *)
(* faults, and every bound on the tokens.                                  *)
(***************************************************************************)
EXTENDS BffSession, TLAPS

-----------------------------------------------------------------------------
(* Shape of the helpers.                                                   *)

\* Only request r changes, and it becomes q.
LEMMA BecomesType ==
    ASSUME Shape, NEW r \in Req, NEW q \in Requests, Becomes(r, q)
    PROVE  /\ req' \in [Req -> Requests]
           /\ req'[r] = q
           /\ \A x \in Req : x # r => req'[x] = req[x]
  BY DEF Shape, Becomes

\* Goto changes nothing but the program counter of its request.
LEMMA GotoType ==
    ASSUME Shape, NEW r \in Req, NEW p \in PCs, Goto(r, p)
    PROVE  /\ req' \in [Req -> Requests]
           /\ \A x \in Req : x # r => req'[x] = req[x]
           /\ req'[r].pc = p
           /\ req'[r].kind = req[r].kind /\ req'[r].sid = req[r].sid
           /\ req'[r].stage = req[r].stage /\ req'[r].scope = req[r].scope
           /\ req'[r].at = req[r].at /\ req'[r].rt = req[r].rt
           /\ req'[r].newAt = req[r].newAt /\ req'[r].newRt = req[r].newRt
  <1>1. [req[r] EXCEPT !.pc = p] \in Requests
    BY DEF Shape, Requests
  <1> QED
    BY <1>1, BecomesType DEF Goto, Shape, Requests

LEMMA IdleType ==
    /\ IdleReq \in Requests
    /\ IdleReq.pc = "idle" /\ IdleReq.scope = {} /\ IdleReq.newRt = NoTok /\ IdleReq.rt = NoTok
  BY DEF Requests, IdleReq, PCs, Kinds, TokOrNone

\* CloseLock takes one row off the list.
LEMMA CloseLockType ==
    ASSUME Shape, NEW r \in Req, NEW s \in Sid, CloseLock(r, s)
    PROVE  /\ req' \in [Req -> Requests]
           /\ \A x \in Req : x # r => req'[x] = req[x]
           /\ req'[r].pc = "closing" /\ req[r].pc = "closing"
           /\ req'[r].scope = req[r].scope \ {s} /\ s \in req[r].scope
           /\ req'[r].sid = req[r].sid
           /\ req'[r].at = req[r].at /\ req'[r].rt = req[r].rt
           /\ req'[r].newAt = req[r].newAt /\ req'[r].newRt = req[r].newRt
  <1> DEFINE q == [req[r] EXCEPT !.scope = @ \ {s}]
  <1>1. /\ q \in Requests /\ Becomes(r, q) /\ req[r].pc = "closing" /\ s \in req[r].scope
        /\ q.pc = req[r].pc /\ q.scope = req[r].scope \ {s} /\ q.sid = req[r].sid
        /\ q.at = req[r].at /\ q.rt = req[r].rt
        /\ q.newAt = req[r].newAt /\ q.newRt = req[r].newRt
    BY DEF CloseLock, Shape, Requests, At
  <1> HIDE DEF q
  <1> QED
    BY <1>1, BecomesType

\* Reply forgets its request.
LEMMA ReplyType ==
    ASSUME Shape, NEW r \in Req, Reply(r)
    PROVE  /\ req' \in [Req -> Requests]
           /\ \A x \in Req : x # r => req'[x] = req[x]
           /\ req'[r] = IdleReq /\ req'[r].pc = "idle" /\ req'[r].scope = {}
           /\ req'[r].newRt = NoTok /\ req'[r].rt = NoTok
  BY IdleType, BecomesType DEF Reply

\* What rotate stores, field by field.
LEMMA RotatedType ==
    ASSUME NEW old \in Rows, NEW q \in Requests
    PROVE  /\ Rotated(old, q) \in Rows
           /\ Rotated(old, q).at = q.newAt
           /\ Rotated(old, q).state = old.state
           /\ Rotated(old, q).expired = old.expired
           /\ q.newRt # NoTok => Rotated(old, q).rt = q.newRt
           /\ q.newRt = NoTok => Rotated(old, q).rt = old.rt
  BY DEF Rotated, Rows, Requests

LEMMA TokFacts ==
    /\ NoTok \in TokOrNone
    /\ Tok \subseteq TokOrNone
    /\ NoTok \notin Tok
    /\ \A n \in 0..MaxTok : n < MaxTok => n + 1 \in Tok /\ n + 1 \in 0..MaxTok
  BY SessionAssumption DEF NoTok, TokOrNone, Tok

-----------------------------------------------------------------------------
(* Type correctness.                                                       *)

LEMMA TypeInit == Init => TypeOK
  <1> SUFFICES ASSUME Init PROVE TypeOK
    OBVIOUS
  <1>1. NoRow \in Rows /\ NoRow.state = "absent"
    BY TokFacts DEF NoRow, Rows
  <1>2. Shape
    BY <1>1, SessionAssumption, IdleType DEF Init, Shape
  <1>3. WellFormed
    BY <1>1, IdleType DEF Init, WellFormed, Exists, At
  <1> QED
    BY <1>2, <1>3 DEF TypeOK

\* A step that moves one request and ends sessions, or moves nothing, keeps the
\* relations between rows and requests.
LEMMA MoveKeepsWellFormed ==
    ASSUME WellFormed, NEW r \in Req,
           \A x \in Req : x # r => req'[x] = req[x],
           \A s \in Sid : Exists(s) => row'[s].state # "absent",
           \A s \in Sid : row'[s].state # "absent" => row'[s].at # NoTok,
           req'[r].pc # "idle" => req'[r].sid = req[r].sid /\ ~At(r, "idle"),
           req'[r].pc \in {"granted", "rotating"} => req'[r].newAt # NoTok,
           \A s \in req'[r].scope : Exists(s),
           \A s \in Sid : lock'[s] # None => Exists(s),
           \A x \in Req : req[x].scope \subseteq Sid /\ req'[x].scope \subseteq Sid
    PROVE  WellFormed'
  BY DEF WellFormed, Exists, At

\* A step of a request keeps TypeOK.
LEMMA TypeServe == ASSUME TypeOK, NEW r \in Req, Serve(r) PROVE TypeOK'
  <1> USE TokFacts
  <1>0. /\ Shape /\ WellFormed
        /\ req[r] \in Requests
        /\ ~At(r, "idle") => req[r].sid \in Sid /\ row[req[r].sid] \in Rows
        /\ \A s \in Sid : Exists(s) => row[s].at # NoTok
        /\ \A s \in Sid : lock[s] # None => Exists(s)
        /\ \A s \in req[r].scope : s \in Sid /\ Exists(s)
        /\ \A x \in Req : req[x].scope \subseteq Sid
    BY DEF TypeOK, Shape, WellFormed, Requests
  <1>1. CASE Touch(r)
    <2>1. AfterTouch(r) \in PCs /\ AfterTouch(r) \notin {"granted", "rotating", "idle"}
      BY DEF AfterTouch, PCs
    <2>2. Shape'
      BY <1>0, <1>1, <2>1, GotoType DEF Touch, Shape
    <2>3. WellFormed'
      BY <1>0, <1>1, <2>1, GotoType, MoveKeepsWellFormed DEF Touch, At, Exists
    <2> QED
      BY <2>2, <2>3 DEF TypeOK
  <1>2. ASSUME NEW rotates \in BOOLEAN, RefreshGranted(r, rotates) PROVE TypeOK'
    <2> DEFINE q == [req[r] EXCEPT !.pc = "granted", !.newAt = issued',
                                   !.newRt = IF rotates THEN issued' ELSE req[r].rt]
    <2>1. issued' \in Tok /\ issued' \in 0..MaxTok
      BY <1>0, <1>2 DEF RefreshGranted, Grant, Shape
    <2>2. honoured' \subseteq Tok
      BY <1>0, <1>2, <2>1 DEF RefreshGranted, Grant, Shape
    <2>3. /\ q \in Requests /\ q.sid = req[r].sid
          /\ q.newAt # NoTok /\ q.scope = req[r].scope
      BY <1>0, <2>1 DEF Requests, PCs
    <2>4. Becomes(r, q) /\ ~At(r, "idle") /\ UNCHANGED <<row, lock, due>>
      BY <1>2 DEF RefreshGranted, Grant, At
    <2> HIDE DEF q
    <2>5. Shape'
      BY <1>0, <2>1, <2>2, <2>3, <2>4, BecomesType DEF Shape
    <2>6. WellFormed'
      BY <1>0, <2>3, <2>4, BecomesType, MoveKeepsWellFormed DEF Exists
    <2> QED
      BY <2>5, <2>6 DEF TypeOK
  <1>3. CASE RefreshRefused(r)
    <2>1. Shape'
      BY <1>0, <1>3, GotoType DEF RefreshRefused, Shape, PCs
    <2>2. WellFormed'
      BY <1>0, <1>3, GotoType, MoveKeepsWellFormed DEF RefreshRefused, At, Exists, PCs
    <2> QED
      BY <2>1, <2>2 DEF TypeOK
  <1>4. CASE RotateLock(r)
    <2> DEFINE p == IF Live(req[r].sid) THEN "rotating" ELSE "revoking"
    <2>1. p \in PCs /\ p # "idle" /\ p # "granted"
      BY DEF PCs
    <2>2. /\ req[r].newAt # NoTok /\ ~At(r, "idle") /\ Goto(r, p) /\ UNCHANGED row
          /\ \A s \in Sid : lock'[s] # None => Exists(s)
      BY <1>0, <1>4 DEF RotateLock, At, WellFormed, Shape
    <2> HIDE DEF p
    <2>3. Shape'
      BY <1>0, <1>4, <2>1, <2>2, GotoType DEF RotateLock, Shape
    <2>4. WellFormed'
      BY <1>0, <2>1, <2>2, GotoType, MoveKeepsWellFormed DEF Exists
    <2> QED
      BY <2>3, <2>4 DEF TypeOK
  <1>5. CASE RotateCommit(r)
    <2> DEFINE s == req[r].sid
               new == Rotated(row[s], req[r])
               q == [req[r] EXCEPT !.pc = "admitted", !.at = new.at, !.rt = new.rt,
                                   !.newAt = NoTok, !.newRt = NoTok]
    <2>1. /\ s \in Sid /\ new \in Rows /\ new.state = row[s].state
          /\ new.at # NoTok /\ ~At(r, "idle")
      BY <1>0, <1>5, RotatedType DEF RotateCommit, At, WellFormed
    <2>2. q \in Requests /\ q.sid = s /\ q.pc = "admitted" /\ q.scope = req[r].scope
      BY <1>0, <2>1 DEF Requests, Rows, PCs
    <2>3. /\ row' = [row EXCEPT ![s] = new]
          /\ lock' = [lock EXCEPT ![s] = None]
          /\ Becomes(r, q) \/ Reply(r)
          /\ UNCHANGED <<issued, honoured, due>>
      BY <1>5 DEF RotateCommit
    <2>4. /\ req' \in [Req -> Requests]
          /\ \A x \in Req : x # r => req'[x] = req[x]
          /\ req'[r].scope \subseteq req[r].scope
          /\ req'[r].pc = "idle" \/ (req'[r].pc = "admitted" /\ req'[r].sid = s)
      BY <1>0, <2>2, <2>3, BecomesType, ReplyType
    <2> HIDE DEF q, new, s
    <2>5. Shape'
      BY <1>0, <2>1, <2>3, <2>4 DEF Shape
    <2>6. /\ \A t \in Sid : Exists(t) => row'[t].state # "absent"
          /\ \A t \in Sid : row'[t].state # "absent" => row'[t].at # NoTok
          /\ \A t \in Sid : lock'[t] # None => Exists(t)
      BY <1>0, <2>1, <2>3 DEF Shape, Exists
    <2>7. WellFormed'
      BY <1>0, <2>1, <2>4, <2>6, MoveKeepsWellFormed DEF s, Requests
    <2> QED
      BY <2>5, <2>7 DEF TypeOK
  <1>6. CASE Revoke(r)
    <2>1. /\ row' \in [Sid -> Rows]
          /\ \A s \in Sid : Exists(s) <=> row'[s].state # "absent"
          /\ \A s \in Sid : row'[s].at = row[s].at
      BY <1>0, <1>6 DEF Revoke, Shape, Rows, At, Exists, WellFormed
    <2>2. Shape'
      BY <1>0, <1>6, <2>1, ReplyType DEF Revoke, Shape, At, WellFormed
    <2>3. WellFormed'
      <3>1. /\ Reply(r) /\ \A s \in Sid : row'[s].state # "absent" => row'[s].at # NoTok
            /\ \A s \in Sid : lock'[s] # None => Exists(s)
        BY <1>0, <1>6, <2>1 DEF Revoke, Shape
      <3> QED
        BY <1>0, <2>1, <3>1, ReplyType, MoveKeepsWellFormed
    <2> QED
      BY <2>2, <2>3 DEF TypeOK
  <1>7. CASE ServeRead(r) \/ ServeWrite(r)
    <2>1. Reply(r) /\ UNCHANGED <<row, lock, issued, honoured, due>>
      BY <1>7 DEF ServeRead, ServeWrite
    <2>2. Shape'
      BY <1>0, <2>1, ReplyType DEF Shape
    <2>3. WellFormed'
      BY <1>0, <2>1, ReplyType, MoveKeepsWellFormed DEF Exists
    <2> QED
      BY <2>2, <2>3 DEF TypeOK
  <1>8. ASSUME NEW headerOk \in BOOLEAN, CheckCsrf(r, headerOk) PROVE TypeOK'
    <2>1. /\ Goto(r, "serving") \/ Reply(r)
          /\ ~At(r, "idle") /\ UNCHANGED <<row, lock, issued, honoured, due>>
      BY <1>8 DEF CheckCsrf, At
    <2>2. Shape'
      BY <1>0, <2>1, GotoType, ReplyType DEF Shape, PCs
    <2>3. WellFormed'
      BY <1>0, <2>1, GotoType, ReplyType, MoveKeepsWellFormed DEF PCs, Exists
    <2> QED
      BY <2>2, <2>3 DEF TypeOK
  <1>9. CASE ServeRefresh(r)
    <2> DEFINE q == [req[r] EXCEPT !.pc = "refreshing", !.stage = "handler"]
    <2>1. /\ q \in Requests /\ q.sid = req[r].sid /\ q.pc = "refreshing"
          /\ q.scope = req[r].scope
      BY <1>0 DEF Requests, PCs
    <2>2. /\ Becomes(r, q) \/ Reply(r)
          /\ ~At(r, "idle") /\ UNCHANGED <<row, lock, issued, honoured, due>>
      BY <1>9 DEF ServeRefresh, At
    <2> HIDE DEF q
    <2>3. Shape'
      BY <1>0, <2>1, <2>2, BecomesType, ReplyType DEF Shape
    <2>4. WellFormed'
      BY <1>0, <2>1, <2>2, BecomesType, ReplyType, MoveKeepsWellFormed DEF Exists
    <2> QED
      BY <2>3, <2>4 DEF TypeOK
  <1>10. CASE LogoutRevoke(r)
    <2>1. /\ row' \in [Sid -> Rows]
          /\ \A s \in Sid : Exists(s) <=> row'[s].state # "absent"
          /\ \A s \in Sid : row'[s].at = row[s].at
          /\ ~At(r, "idle")
      BY <1>0, <1>10 DEF LogoutRevoke, Shape, Rows, At, Exists, WellFormed
    <2>2. Shape'
      BY <1>0, <1>10, <2>1, GotoType DEF LogoutRevoke, Shape, PCs
    <2>3. WellFormed'
      BY <1>0, <1>10, <2>1, GotoType, MoveKeepsWellFormed DEF LogoutRevoke, PCs
    <2> QED
      BY <2>2, <2>3 DEF TypeOK
  <1>11. ASSUME NEW done \in BOOLEAN, LogoutUpstream(r, done) PROVE TypeOK'
    <2>1. Shape'
      BY <1>0, <1>11, ReplyType DEF LogoutUpstream, Shape
    <2>2. WellFormed'
      BY <1>0, <1>11, ReplyType, MoveKeepsWellFormed DEF LogoutUpstream, Exists
    <2> QED
      BY <2>1, <2>2 DEF TypeOK
  <1>12. ASSUME NEW u \in Subject, CloseSnapshot(r, u) PROVE TypeOK'
    <2> DEFINE S == {s \in Sid : row[s].state = "open" /\ row[s].subject = u}
               q == [req[r] EXCEPT !.pc = "closing", !.scope = S]
    <2>1. /\ q \in Requests /\ q.sid = req[r].sid /\ q.pc = "closing"
          /\ \A s \in q.scope : s \in Sid /\ Exists(s)
      BY <1>0 DEF Requests, PCs, Exists
    <2>2. Becomes(r, q) /\ ~At(r, "idle") /\ UNCHANGED <<row, lock, issued, honoured, due>>
      BY <1>12 DEF CloseSnapshot, At
    <2> HIDE DEF q
    <2>3. Shape'
      BY <1>0, <2>1, <2>2, BecomesType DEF Shape
    <2>4. WellFormed'
      BY <1>0, <2>1, <2>2, BecomesType, MoveKeepsWellFormed DEF Exists
    <2> QED
      BY <2>3, <2>4 DEF TypeOK
  <1>13. ASSUME NEW s \in Sid, CloseLock(r, s) PROVE TypeOK'
    <2>1. /\ ~At(r, "idle") /\ UNCHANGED <<row, issued, honoured, due>>
          /\ lock' \in [Sid -> Req \cup {None}]
      BY <1>0, <1>13 DEF CloseLock, At, Shape
    <2>2. Shape'
      BY <1>0, <1>13, <2>1, CloseLockType DEF Shape
    <2>3. \A t \in Sid : lock'[t] # None => Exists(t)
      BY <1>0, <1>13, CloseLockType DEF CloseLock, Shape
    <2>4. WellFormed'
      BY <1>0, <2>1, <2>3, <1>13, CloseLockType, MoveKeepsWellFormed DEF Exists
    <2> QED
      BY <2>2, <2>4 DEF TypeOK
  <1>14. CASE CloseCommit(r)
    <2>1. /\ row' \in [Sid -> Rows]
          /\ \A s \in Sid : row'[s].at = row[s].at
          /\ \A s \in Sid : Exists(s) => row'[s].state # "absent"
          /\ \A s \in Sid : row'[s].state # "absent" => Exists(s)
      BY <1>0, <1>14, SessionAssumption DEF CloseCommit, Shape, Rows, Exists, Locked
    <2>2. Shape'
      BY <1>0, <1>14, <2>1, ReplyType DEF CloseCommit, ReleaseOf, Shape
    <2>3. /\ \A s \in Sid : row'[s].state # "absent" => row'[s].at # NoTok
          /\ \A s \in Sid : lock'[s] # None => Exists(s)
          /\ Reply(r)
      BY <1>0, <1>14, <2>1 DEF CloseCommit, ReleaseOf
    <2>4. WellFormed'
      BY <1>0, <2>1, <2>3, ReplyType, MoveKeepsWellFormed
    <2> QED
      BY <2>2, <2>4 DEF TypeOK
  <1>15. CASE DeadlockBroken(r)
    <2>1. Reply(r) /\ ~At(r, "idle") /\ UNCHANGED <<row, issued, honoured, due>>
      BY <1>15 DEF DeadlockBroken, At
    <2>2. Shape'
      BY <1>0, <1>15, <2>1, ReplyType DEF DeadlockBroken, ReleaseOf, Shape
    <2>3. WellFormed'
      BY <1>0, <1>15, <2>1, ReplyType, MoveKeepsWellFormed DEF DeadlockBroken, ReleaseOf, Exists
    <2> QED
      BY <2>2, <2>3 DEF TypeOK
  <1> QED
    BY <1>1, <1>2, <1>3, <1>4, <1>5, <1>6, <1>7, <1>8, <1>9, <1>10, <1>11, <1>12,
       <1>13, <1>14, <1>15 DEF Serve

\* So does a client, the passing of time, or a fault.
LEMMA TypeEnvironment == ASSUME TypeOK, Clients \/ Time \/ Fault PROVE TypeOK'
  <1> USE TokFacts
  <1>0. /\ Shape /\ WellFormed
        /\ \A s \in Sid : Exists(s) => row[s].at # NoTok
        /\ \A s \in Sid : lock[s] # None => Exists(s)
        /\ \A x \in Req : \A s \in req[x].scope : s \in Sid /\ Exists(s)
        /\ \A x \in Req : req[x].scope \subseteq Sid
    BY DEF TypeOK, Shape, WellFormed, Requests
  <1>1. ASSUME NEW s \in Sid, NEW u \in Subject, NEW hasRt \in BOOLEAN, Login(s, u, hasRt)
        PROVE  TypeOK'
    <2>1. issued' \in Tok /\ issued' \in 0..MaxTok
      BY <1>0, <1>1 DEF Login, Shape
    <2>2. [state |-> "open", expired |-> FALSE, subject |-> u,
           at |-> issued', rt |-> IF hasRt THEN issued' ELSE NoTok] \in Rows
      BY <2>1 DEF Rows
    <2>3. Shape'
      BY <1>0, <1>1, <2>1, <2>2 DEF Login, Shape
    <2>4. WellFormed'
      BY <1>0, <1>1, <2>1 DEF Login, WellFormed, Exists, At, Shape
    <2> QED
      BY <2>3, <2>4 DEF TypeOK
  <1>2. ASSUME NEW r \in Req, NEW s \in Sid, NEW k \in Kinds, Lookup(r, s, k) PROVE TypeOK'
    <2> DEFINE q == [IdleReq EXCEPT !.pc = "found", !.kind = k, !.sid = s,
                                    !.at = row[s].at, !.rt = row[s].rt]
    <2>1. q \in Requests /\ q.sid = s /\ q.pc = "found" /\ q.scope = {}
      BY <1>0, IdleType DEF Requests, PCs, Shape, Rows
    <2>2. Becomes(r, q) /\ Exists(s) /\ UNCHANGED <<row, lock, issued, honoured, due>>
      BY <1>2 DEF Lookup, Live, Exists
    <2> HIDE DEF q
    <2>3. Shape'
      BY <1>0, <2>1, <2>2, BecomesType DEF Shape
    <2>4. WellFormed'
      BY <1>0, <2>1, <2>2, BecomesType DEF WellFormed, At, Exists
    <2> QED
      BY <2>3, <2>4 DEF TypeOK
  <1>3. ASSUME NEW s \in Sid, Expire(s) PROVE TypeOK'
    <2>1. /\ row' \in [Sid -> Rows]
          /\ \A t \in Sid : row'[t].state = row[t].state /\ row'[t].at = row[t].at
      BY <1>0, <1>3, ZenonT(60) DEF Expire, Shape, Rows
    <2> QED
      BY <1>0, <1>3, <2>1 DEF Expire, TypeOK, Shape, WellFormed, Exists, At
  <1>4. ASSUME NEW t \in Tok, BecomeDue(t) PROVE TypeOK'
    BY <1>0, <1>4 DEF BecomeDue, TypeOK, Shape, WellFormed, Exists, At
  <1>5. ASSUME NEW r \in Req, RefreshUnreachable(r) PROVE TypeOK'
    <2>1. Shape'
      BY <1>0, <1>5, GotoType DEF RefreshUnreachable, Shape, PCs
    <2>2. WellFormed'
      BY <1>0, <1>5, GotoType, MoveKeepsWellFormed DEF RefreshUnreachable, At, Exists, PCs
    <2> QED
      BY <2>1, <2>2 DEF TypeOK
  <1>6. ASSUME NEW r \in Req, NEW rotates \in BOOLEAN, RefreshReplyLost(r, rotates)
        PROVE  TypeOK'
    <2>1. issued' \in Tok /\ issued' \in 0..MaxTok
      BY <1>0, <1>6 DEF RefreshReplyLost, Grant, Shape
    <2>2. Shape'
      BY <1>0, <1>6, <2>1, GotoType DEF RefreshReplyLost, Grant, Shape, PCs
    <2>3. WellFormed'
      BY <1>0, <1>6, GotoType, MoveKeepsWellFormed DEF RefreshReplyLost, Grant, At, Exists, PCs
    <2> QED
      BY <2>2, <2>3 DEF TypeOK
  <1>7. ASSUME NEW t \in Tok, ProviderDrop(t) PROVE TypeOK'
    BY <1>0, <1>7 DEF ProviderDrop, TypeOK, Shape, WellFormed, Exists, At
  <1>8. ASSUME NEW r \in Req, DbFault(r) PROVE TypeOK'
    <2>1. /\ Reply(r) \/ Goto(r, "revoking")
          /\ ~At(r, "idle") /\ UNCHANGED <<row, issued, honoured, due>>
          /\ lock' = ReleaseOf(r)
      BY <1>8 DEF DbFault, At
    <2>2. Shape'
      BY <1>0, <2>1, GotoType, ReplyType DEF Shape, PCs, ReleaseOf
    <2>3. \A s \in Sid : lock'[s] # None => Exists(s)
      BY <1>0, <2>1 DEF ReleaseOf
    <2>4. WellFormed'
      BY <1>0, <2>1, <2>3, GotoType, ReplyType, MoveKeepsWellFormed DEF PCs, Exists
    <2> QED
      BY <2>2, <2>4 DEF TypeOK
  <1>9. ASSUME NEW r \in Req, CommitUnacknowledged(r) PROVE TypeOK'
    <2> DEFINE s == req[r].sid
               new == Rotated(row[s], req[r])
    <2>0. req[r] \in Requests /\ s \in Sid /\ row[s] \in Rows /\ req[r].newAt # NoTok
      BY <1>0, <1>9 DEF CommitUnacknowledged, At, WellFormed, Shape
    <2>1. /\ s \in Sid /\ new \in Rows /\ new.state = row[s].state /\ new.at # NoTok
      BY <2>0, RotatedType
    <2>2. row' = [row EXCEPT ![s] = new] /\ Reply(r) /\ lock' = ReleaseOf(r)
      BY <1>0, <1>9 DEF CommitUnacknowledged, Shape
    <2>5. UNCHANGED <<issued, honoured, due>>
      BY <1>9 DEF CommitUnacknowledged
    <2> HIDE DEF new, s
    <2>3. Shape'
      BY <1>0, <2>1, <2>2, <2>5, ReplyType DEF Shape, ReleaseOf
    <2>4. \A t \in Sid : lock'[t] # None => Exists(t)
      BY <1>0, <2>2 DEF ReleaseOf
    <2>6. WellFormed'
      BY <1>0, <2>1, <2>2, <2>4, ReplyType, MoveKeepsWellFormed DEF Shape, Exists
    <2> QED
      BY <2>3, <2>6 DEF TypeOK
  <1>10. CASE Crash
    BY <1>0, <1>10, IdleType DEF Crash, TypeOK, Shape, WellFormed, Exists, At
  <1> QED
    BY <1>1, <1>2, <1>3, <1>4, <1>5, <1>6, <1>7, <1>8, <1>9, <1>10
       DEF Clients, Time, Fault

LEMMA TypeStep == TypeOK /\ [Next]_vars => TypeOK'
  BY TypeServe, TypeEnvironment DEF Next, vars, TypeOK, Shape, WellFormed, Exists, At

\* TypeOK holds of every reachable state.
THEOREM TypeCorrect == Spec => []TypeOK
  BY TypeInit, TypeStep, PTL DEF Spec

-----------------------------------------------------------------------------
(* The row lock.  LockDiscipline says where the owner of a lock may be; the *)
(* other direction makes it inductive: a request that is about to write new *)
(* tokens owns the lock of its row, and the row is still open.              *)

Guarded(r) ==
    At(r, "rotating") => lock[req[r].sid] = r /\ row[req[r].sid].state = "open"

LockInv == LockDiscipline /\ \A r \in Req : Guarded(r)

LEMMA LockInit == Init => LockInv
  BY IdleType DEF Init, LockInv, LockDiscipline, Guarded, At

\* A request without a lock cannot disturb those that have one, if it leaves
\* locked rows alone.
LEMMA MoveKeepsLocks ==
    ASSUME TypeOK, LockInv, NEW r \in Req,
           \A x \in Req : x # r => req'[x] = req[x],
           req[r].pc \notin {"rotating", "revoking", "closing"},
           req'[r].pc # "rotating",
           lock' = lock,
           \A s \in Sid : row'[s].state = row[s].state \/ lock[s] = None
    PROVE  LockInv'
  <1>1. \A s \in Sid : lock[s] # None => lock[s] \in Req /\ lock[s] # r
    BY DEF LockInv, LockDiscipline, TypeOK, Shape, At
  <1>2. LockDiscipline'
    BY <1>1 DEF LockInv, LockDiscipline, At
  <1>3. ASSUME NEW x \in Req, At(x, "rotating")' PROVE Guarded(x)'
    <2>1. x # r /\ At(x, "rotating") /\ req'[x] = req[x]
      BY <1>3 DEF At
    <2>2. req[x].sid \in Sid /\ lock[req[x].sid] = x /\ x # None
      BY <2>1, SessionAssumption DEF LockInv, Guarded, TypeOK, WellFormed, At
    <2> QED
      BY <2>1, <2>2 DEF LockInv, Guarded
  <1> QED
    BY <1>2, <1>3 DEF LockInv, Guarded

\* A request that gives its locks back disturbs nobody either.
LEMMA ReleaseKeepsLocks ==
    ASSUME TypeOK, LockInv, NEW r \in Req,
           \A x \in Req : x # r => req'[x] = req[x],
           req'[r].pc # "rotating",
           \A s \in Sid : lock'[s] = IF lock[s] = r THEN None ELSE lock[s],
           \A s \in Sid : row'[s].state = row[s].state \/ lock[s] \in {None, r}
    PROVE  LockInv'
  <1>1. \A s \in Sid : lock'[s] # None => lock[s] = lock'[s] /\ lock[s] # r /\ lock[s] \in Req
    BY DEF TypeOK, Shape
  <1>2. LockDiscipline'
    BY <1>1 DEF LockInv, LockDiscipline, At
  <1>3. ASSUME NEW x \in Req, At(x, "rotating")' PROVE Guarded(x)'
    <2>1. x # r /\ At(x, "rotating") /\ req'[x] = req[x]
      BY <1>3 DEF At
    <2>2. req[x].sid \in Sid /\ lock[req[x].sid] = x /\ x # None
      BY <2>1, SessionAssumption DEF LockInv, Guarded, TypeOK, WellFormed, At
    <2> QED
      BY <2>1, <2>2 DEF LockInv, Guarded
  <1> QED
    BY <1>2, <1>3 DEF LockInv, Guarded

LEMMA LockServe == ASSUME TypeOK, LockInv, NEW r \in Req, Serve(r) PROVE LockInv'
  <1>0. /\ Shape /\ WellFormed
        /\ req[r] \in Requests
        /\ ~At(r, "idle") => req[r].sid \in Sid /\ row[req[r].sid] \in Rows
        /\ IdleReq.pc = "idle"
    BY IdleType DEF TypeOK, Shape, WellFormed
  <1>1. CASE Touch(r) \/ RefreshRefused(r)
    <2>1. AfterTouch(r) \in PCs \ {"rotating"} /\ "revoking" \in PCs
      BY DEF AfterTouch, PCs
    <2> QED
      BY <1>0, <1>1, <2>1, GotoType, MoveKeepsLocks DEF Touch, RefreshRefused, At
  <1>2. ASSUME NEW rotates \in BOOLEAN, RefreshGranted(r, rotates) PROVE LockInv'
    <2> DEFINE q == [req[r] EXCEPT !.pc = "granted", !.newAt = issued',
                                   !.newRt = IF rotates THEN issued' ELSE req[r].rt]
    <2>1. q.pc = "granted"
      BY <1>0 DEF Requests
    <2>2. Becomes(r, q) /\ At(r, "refreshing") /\ UNCHANGED <<row, lock>>
      BY <1>2 DEF RefreshGranted, Grant
    <2> HIDE DEF q
    <2>3. req'[r] = q /\ \A x \in Req : x # r => req'[x] = req[x]
      BY <1>0, <2>2 DEF Becomes, Shape
    <2> QED
      BY <2>1, <2>2, <2>3, MoveKeepsLocks DEF At
  <1>3. CASE RotateLock(r)
    <2> DEFINE s == req[r].sid
               p == IF Live(s) THEN "rotating" ELSE "revoking"
    <2>1. /\ p \in {"rotating", "revoking"} /\ p \in PCs
          /\ p = "rotating" => row[s].state = "open"
      BY DEF PCs, Live
    <2>2. /\ s \in Sid /\ lock[s] = None /\ lock' = [lock EXCEPT ![s] = r]
          /\ Goto(r, p) /\ UNCHANGED row /\ At(r, "granted")
      BY <1>0, <1>3 DEF RotateLock, RowFree, At
    <2> HIDE DEF p
    <2>3. /\ req'[r].pc = p /\ req'[r].sid = s
          /\ \A x \in Req : x # r => req'[x] = req[x]
      BY <1>0, <2>1, <2>2, GotoType
    <2> HIDE DEF s
    <2>4. lock'[s] = r /\ \A t \in Sid : t # s => lock'[t] = lock[t]
      BY <1>0, <2>2 DEF Shape
    <2>5. \A t \in Sid : lock[t] # None => lock[t] \in Req /\ lock[t] # r
      BY <1>0, <2>2 DEF LockInv, LockDiscipline, Shape, At
    <2>6. LockDiscipline'
      BY <2>1, <2>3, <2>4, <2>5 DEF LockInv, LockDiscipline, At
    <2>7. ASSUME NEW x \in Req, At(x, "rotating")' PROVE Guarded(x)'
      <3>1. CASE x = r
        BY <2>1, <2>2, <2>3, <2>4, <2>7, <3>1 DEF Guarded, At
      <3>2. CASE x # r
        <4>1. req[x].sid \in Sid /\ lock[req[x].sid] = x /\ row[req[x].sid].state = "open"
          BY <1>0, <2>3, <2>7, <3>2 DEF LockInv, Guarded, WellFormed, At
        <4>2. req[x].sid # s
          BY <2>2, <4>1, SessionAssumption
        <4> QED
          BY <2>2, <2>3, <2>4, <3>2, <4>1, <4>2 DEF Guarded
      <3> QED
        BY <3>1, <3>2
    <2> QED
      BY <2>6, <2>7 DEF LockInv, Guarded
  <1>4. CASE RotateCommit(r)
    <2> DEFINE s == req[r].sid
               new == Rotated(row[s], req[r])
               q == [req[r] EXCEPT !.pc = "admitted", !.at = new.at, !.rt = new.rt,
                                   !.newAt = NoTok, !.newRt = NoTok]
    <2>1. s \in Sid /\ new.state = row[s].state /\ q.pc = "admitted" /\ lock[s] = r
      BY <1>0, <1>4, RotatedType DEF RotateCommit, At, Requests, LockInv, Guarded
    <2>2. /\ row' = [row EXCEPT ![s] = new] /\ lock' = [lock EXCEPT ![s] = None]
          /\ Becomes(r, q) \/ Becomes(r, IdleReq)
      BY <1>4 DEF RotateCommit, Reply
    <2>3. \A t \in Sid : lock[t] = r => t = s
      BY <1>0, <1>4, SessionAssumption DEF RotateCommit, LockInv, LockDiscipline, At
    <2> HIDE DEF q, new, s
    <2>4. /\ \A x \in Req : x # r => req'[x] = req[x]
          /\ req'[r].pc # "rotating"
      BY <1>0, <2>1, <2>2 DEF Becomes, Shape
    <2>5. \A t \in Sid : lock'[t] = IF lock[t] = r THEN None ELSE lock[t]
      BY <1>0, <2>1, <2>2, <2>3 DEF Shape
    <2>6. \A t \in Sid : row'[t].state = row[t].state
      BY <1>0, <2>1, <2>2 DEF Shape
    <2> QED
      BY <2>4, <2>5, <2>6, ReleaseKeepsLocks
  <1>5. CASE Revoke(r)
    <2> DEFINE s == req[r].sid
    <2>1. /\ s \in Sid /\ lock[s] \in {None, r} /\ lock' = [lock EXCEPT ![s] = None]
          /\ row' = [row EXCEPT ![s].state = "revoked"] /\ Reply(r)
      BY <1>0, <1>5 DEF Revoke, RowFree, Owns, At
    <2>2. \A t \in Sid : lock[t] = r => t = s
      BY <1>5, SessionAssumption DEF Revoke, LockInv, LockDiscipline, At
    <2> HIDE DEF s
    <2>3. \A t \in Sid : lock'[t] = IF lock[t] = r THEN None ELSE lock[t]
      BY <1>0, <2>1, <2>2 DEF Shape
    <2>4. \A t \in Sid : row'[t].state = row[t].state \/ lock[t] \in {None, r}
      BY <1>0, <2>1 DEF Shape
    <2> QED
      BY <1>0, <2>1, <2>3, <2>4, ReplyType, ReleaseKeepsLocks
  <1>6. CASE ServeRead(r) \/ ServeWrite(r)
    BY <1>0, <1>6, ReplyType, MoveKeepsLocks DEF ServeRead, ServeWrite, At
  <1>7. ASSUME NEW headerOk \in BOOLEAN, CheckCsrf(r, headerOk) PROVE LockInv'
    BY <1>0, <1>7, GotoType, ReplyType, MoveKeepsLocks DEF CheckCsrf, At, PCs
  <1>8. CASE ServeRefresh(r)
    <2>1. [req[r] EXCEPT !.pc = "refreshing", !.stage = "handler"].pc = "refreshing"
      BY <1>0 DEF Requests
    <2>2. /\ \A x \in Req : x # r => req'[x] = req[x]
          /\ req'[r].pc # "rotating"
      BY <1>0, <1>8, <2>1 DEF ServeRefresh, Reply, Becomes, Shape
    <2> QED
      BY <1>8, <2>2, MoveKeepsLocks DEF ServeRefresh, At
  <1>9. CASE LogoutRevoke(r)
    <2>1. \A t \in Sid : row'[t].state = row[t].state \/ lock[t] = None
      BY <1>0, <1>9 DEF LogoutRevoke, RowFree, Shape, At
    <2> QED
      BY <1>0, <1>9, <2>1, GotoType, MoveKeepsLocks DEF LogoutRevoke, At, PCs
  <1>10. ASSUME NEW done \in BOOLEAN, LogoutUpstream(r, done) PROVE LockInv'
    BY <1>0, <1>10, ReplyType, MoveKeepsLocks DEF LogoutUpstream, At
  <1>11. ASSUME NEW u \in Subject, CloseSnapshot(r, u) PROVE LockInv'
    <2> DEFINE q == [req[r] EXCEPT !.pc = "closing",
                  !.scope = {s \in Sid : row[s].state = "open" /\ row[s].subject = u}]
    <2>1. q.pc = "closing"
      BY <1>0 DEF Requests
    <2>2. Becomes(r, q) /\ At(r, "serving") /\ UNCHANGED <<row, lock>>
      BY <1>11 DEF CloseSnapshot
    <2> HIDE DEF q
    <2>3. req'[r] = q /\ \A x \in Req : x # r => req'[x] = req[x]
      BY <1>0, <2>2 DEF Becomes, Shape
    <2> QED
      BY <2>1, <2>2, <2>3, MoveKeepsLocks DEF At
  <1>12. ASSUME NEW s \in Sid, CloseLock(r, s) PROVE LockInv'
    <2>1. /\ lock[s] = None /\ lock' = [lock EXCEPT ![s] = r] /\ UNCHANGED row
          /\ r # None
      BY <1>12, SessionAssumption DEF CloseLock, RowFree
    <2>2. /\ At(r, "closing") /\ At(r, "closing")' /\ req'[r].scope = req[r].scope \ {s}
          /\ \A x \in Req : x # r => req'[x] = req[x]
      BY <1>0, <1>12, CloseLockType DEF At
    <2>3. lock'[s] = r /\ \A t \in Sid : t # s => lock'[t] = lock[t]
      BY <1>0, <2>1 DEF Shape
    <2>4. LockDiscipline'
      <3> SUFFICES ASSUME NEW t \in Sid, lock'[t] # None
                   PROVE  \/ req'[lock'[t]].pc \in {"rotating", "revoking"} /\ req'[lock'[t]].sid = t
                          \/ req'[lock'[t]].pc = "closing" /\ t \notin req'[lock'[t]].scope
        BY DEF LockDiscipline, At
      <3>1. CASE t = s
        BY <2>2, <2>3, <3>1 DEF At
      <3>2. CASE t # s
        <4>1. /\ lock'[t] = lock[t] /\ lock[t] \in Req
              /\ \/ req[lock[t]].pc \in {"rotating", "revoking"} /\ req[lock[t]].sid = t
                 \/ At(lock[t], "closing") /\ t \notin req[lock[t]].scope
          BY <1>0, <2>3, <3>2 DEF LockInv, LockDiscipline, Shape
        <4> QED
          BY <2>2, <4>1 DEF At
      <3> QED
        BY <3>1, <3>2
    <2>5. ASSUME NEW x \in Req, At(x, "rotating")' PROVE Guarded(x)'
      <3>1. x # r /\ At(x, "rotating") /\ req'[x] = req[x]
        BY <2>2, <2>5 DEF At
      <3>2. req[x].sid \in Sid /\ lock[req[x].sid] = x /\ x # None
        BY <1>0, <3>1, SessionAssumption DEF LockInv, Guarded, WellFormed, At
      <3> QED
        BY <2>1, <2>3, <3>1, <3>2 DEF LockInv, Guarded
    <2> QED
      BY <2>4, <2>5 DEF LockInv, Guarded
  <1>13. CASE CloseCommit(r) \/ DeadlockBroken(r)
    <2>1. /\ \A t \in Sid : row'[t].state = row[t].state \/ lock[t] = r
          /\ \A t \in Sid : lock'[t] = IF lock[t] = r THEN None ELSE lock[t]
          /\ Reply(r)
      BY <1>0, <1>13 DEF CloseCommit, DeadlockBroken, ReleaseOf, Locked, Shape
    <2> QED
      BY <1>0, <2>1, ReplyType, ReleaseKeepsLocks
  <1> QED
    BY <1>1, <1>2, <1>3, <1>4, <1>5, <1>6, <1>7, <1>8, <1>9, <1>10, <1>11, <1>12, <1>13
       DEF Serve

LEMMA LockEnvironment ==
    ASSUME TypeOK, LockInv, Clients \/ Time \/ Fault PROVE LockInv'
  <1>0. Shape /\ WellFormed /\ IdleReq.pc = "idle"
    BY IdleType DEF TypeOK
  <1>1. ASSUME NEW s \in Sid, NEW u \in Subject, NEW hasRt \in BOOLEAN, Login(s, u, hasRt)
        PROVE  LockInv'
    <2>1. \A r \in Req : At(r, "rotating") => req[r].sid # s
      BY <1>0, <1>1 DEF Login, WellFormed, Exists, At
    <2>2. \A t \in Sid : t # s => row'[t] = row[t]
      BY <1>0, <1>1 DEF Login, Shape
    <2> QED
      BY <1>0, <1>1, <2>1, <2>2 DEF Login, LockInv, LockDiscipline, Guarded, At, WellFormed
  <1>2. ASSUME NEW r \in Req, NEW s \in Sid, NEW k \in Kinds, Lookup(r, s, k) PROVE LockInv'
    <2> DEFINE q == [IdleReq EXCEPT !.pc = "found", !.kind = k, !.sid = s,
                                    !.at = row[s].at, !.rt = row[s].rt]
    <2>1. q.pc = "found"
      BY IdleType DEF Requests
    <2>2. Becomes(r, q) /\ At(r, "idle") /\ UNCHANGED <<row, lock>>
      BY <1>2 DEF Lookup
    <2> HIDE DEF q
    <2>3. req'[r] = q /\ \A x \in Req : x # r => req'[x] = req[x]
      BY <1>0, <2>2 DEF Becomes, Shape
    <2> QED
      BY <2>1, <2>2, <2>3, MoveKeepsLocks DEF At
  <1>3. ASSUME NEW s \in Sid, Expire(s) PROVE LockInv'
    <2>1. \A t \in Sid : row'[t].state = row[t].state
      BY <1>0, <1>3 DEF Expire, Shape, Rows
    <2> QED
      BY <1>0, <1>3, <2>1 DEF Expire, LockInv, LockDiscipline, Guarded, At, WellFormed
  <1>4. CASE \/ \E t \in Tok : BecomeDue(t)
             \/ \E t \in Tok : ProviderDrop(t)
    BY <1>4 DEF BecomeDue, ProviderDrop, LockInv, LockDiscipline, Guarded, At
  <1>5. ASSUME NEW r \in Req, RefreshUnreachable(r) PROVE LockInv'
    BY <1>0, <1>5, GotoType, MoveKeepsLocks DEF RefreshUnreachable, At, PCs
  <1>6. ASSUME NEW r \in Req, NEW rotates \in BOOLEAN, RefreshReplyLost(r, rotates)
        PROVE  LockInv'
    BY <1>0, <1>6, GotoType, MoveKeepsLocks DEF RefreshReplyLost, Grant, At, PCs
  <1>7. ASSUME NEW r \in Req, DbFault(r) PROVE LockInv'
    <2>1. \A s \in Sid : lock'[s] = IF lock[s] = r THEN None ELSE lock[s]
      BY <1>7 DEF DbFault, ReleaseOf
    <2> QED
      BY <1>0, <1>7, <2>1, GotoType, ReplyType, ReleaseKeepsLocks DEF DbFault, PCs
  <1>8. ASSUME NEW r \in Req, CommitUnacknowledged(r) PROVE LockInv'
    <2>1. \A s \in Sid : lock'[s] = IF lock[s] = r THEN None ELSE lock[s]
      BY <1>8 DEF CommitUnacknowledged, ReleaseOf
    <2>2. req[r].sid \in Sid /\ req[r] \in Requests /\ row[req[r].sid] \in Rows
      BY <1>0, <1>8 DEF CommitUnacknowledged, WellFormed, At, Shape
    <2>3. \A s \in Sid : row'[s].state = row[s].state
      BY <1>0, <1>8, <2>2, RotatedType DEF CommitUnacknowledged, Shape
    <2> QED
      BY <1>0, <1>8, <2>1, <2>3, ReplyType, ReleaseKeepsLocks DEF CommitUnacknowledged
  <1>9. CASE Crash
    BY <1>0, <1>9 DEF Crash, LockInv, LockDiscipline, Guarded, At
  <1> QED
    BY <1>1, <1>2, <1>3, <1>4, <1>5, <1>6, <1>7, <1>8, <1>9 DEF Clients, Time, Fault

LEMMA LockStep == TypeOK /\ LockInv /\ [Next]_vars => LockInv'
  <1>1. CASE UNCHANGED vars
    BY <1>1 DEF vars, LockInv, LockDiscipline, Guarded, At
  <1> QED
    BY <1>1, LockServe, LockEnvironment DEF Next

\* The owner of a row lock is always about to commit or revoke that row.
THEOREM LocksAreDisciplined == Spec => []LockDiscipline
  <1>1. Spec => []LockInv
    BY LockInit, LockStep, TypeCorrect, PTL DEF Spec
  <1>2. LockInv => LockDiscipline
    BY DEF LockInv
  <1> QED
    BY <1>1, <1>2, PTL

-----------------------------------------------------------------------------
(* Where a request can go.                                                 *)

\* A step for one request leaves the others alone.
LEMMA OneServed ==
    ASSUME TypeOK, NEW r \in Req, Serve(r), NEW q \in Req, q # r
    PROVE  req'[q] = req[q]
  <1>1. Shape
    BY DEF TypeOK
  <1>2. \E x : Becomes(r, x)
    <2>1. ASSUME NEW p, Goto(r, p) PROVE \E x : Becomes(r, x)
      BY <2>1 DEF Goto
    <2>2. ASSUME Reply(r) PROVE \E x : Becomes(r, x)
      BY <2>2 DEF Reply
    <2> QED
      BY <2>1, <2>2
         DEF Serve, Touch, RefreshGranted, RefreshRefused, RotateLock, RotateCommit,
             Revoke, ServeRead, CheckCsrf, ServeWrite, ServeRefresh, LogoutRevoke,
             LogoutUpstream, CloseSnapshot, CloseLock, CloseCommit, DeadlockBroken
  <1> QED
    BY <1>1, <1>2 DEF Becomes, Shape

\* Which steps bring a request to the revoke of the except branch, and which to
\* the UPDATE of revoke_subject.
LEMMA Turns ==
    ASSUME TypeOK, NEW r \in Req, Serve(r)
    PROVE  /\ At(r, "revoking")' => Touch(r) \/ RefreshRefused(r) \/ RotateLock(r)
           /\ At(r, "closing")' => \/ \E u \in Subject : CloseSnapshot(r, u)
                                   \/ \E s \in Sid : CloseLock(r, s)
  <1> DEFINE Elsewhere == ~At(r, "revoking")' /\ ~At(r, "closing")'
  <1>0. /\ Shape /\ req[r] \in Requests
        /\ ~At(r, "idle") => req[r].sid \in Sid /\ row[req[r].sid] \in Rows
    BY DEF TypeOK, Shape, WellFormed
  <1>1. ASSUME NEW p \in PCs \ {"revoking", "closing"}, Goto(r, p) PROVE Elsewhere
    BY <1>0, <1>1, GotoType DEF At
  <1>2. ASSUME NEW x \in Requests, Becomes(r, x), x.pc \notin {"revoking", "closing"}
        PROVE  Elsewhere
    BY <1>0, <1>2, BecomesType DEF At
  <1>3. ASSUME Reply(r) PROVE Elsewhere
    BY <1>0, <1>3, ReplyType DEF At
  <1>4. CASE Touch(r)
    <2>1. AfterTouch(r) \in PCs /\ AfterTouch(r) # "closing" /\ Goto(r, AfterTouch(r))
      BY <1>4 DEF AfterTouch, PCs, Touch
    <2> QED
      BY <1>0, <1>4, <2>1, GotoType DEF At
  <1>5. CASE RefreshRefused(r)
    BY <1>0, <1>5, GotoType DEF RefreshRefused, PCs, At
  <1>6. CASE RotateLock(r)
    <2>1. \E p \in PCs : p # "closing" /\ Goto(r, p)
      BY <1>6 DEF RotateLock, PCs
    <2> QED
      BY <1>0, <1>6, <2>1, GotoType DEF At
  <1>7. ASSUME NEW rotates \in BOOLEAN, RefreshGranted(r, rotates) PROVE Elsewhere
    <2> DEFINE q == [req[r] EXCEPT !.pc = "granted", !.newAt = issued',
                                   !.newRt = IF rotates THEN issued' ELSE req[r].rt]
    <2>1. q \in Requests /\ q.pc = "granted" /\ Becomes(r, q)
      BY <1>0, <1>7, TokFacts, SessionAssumption
         DEF RefreshGranted, Grant, Requests, PCs, Shape
    <2> QED
      BY <1>2, <2>1
  <1>8. CASE RotateCommit(r)
    <2> DEFINE new == Rotated(row[req[r].sid], req[r])
               q == [req[r] EXCEPT !.pc = "admitted", !.at = new.at, !.rt = new.rt,
                                   !.newAt = NoTok, !.newRt = NoTok]
    <2>1. new \in Rows
      BY <1>0, <1>8, RotatedType DEF RotateCommit, At
    <2>2. q \in Requests /\ q.pc = "admitted"
      BY <1>0, <2>1, TokFacts DEF Requests, Rows, PCs
    <2>3. Becomes(r, q) \/ Reply(r)
      BY <1>8 DEF RotateCommit
    <2> HIDE DEF q
    <2> QED
      BY <1>2, <1>3, <2>2, <2>3
  <1>9. CASE Revoke(r) \/ ServeRead(r) \/ ServeWrite(r) \/ CloseCommit(r) \/ DeadlockBroken(r)
    BY <1>3, <1>9 DEF Revoke, ServeRead, ServeWrite, CloseCommit, DeadlockBroken
  <1>10. ASSUME NEW done \in BOOLEAN, LogoutUpstream(r, done) PROVE Elsewhere
    BY <1>3, <1>10 DEF LogoutUpstream
  <1>11. ASSUME NEW headerOk \in BOOLEAN, CheckCsrf(r, headerOk) PROVE Elsewhere
    BY <1>1, <1>3, <1>11 DEF CheckCsrf, PCs
  <1>12. CASE LogoutRevoke(r)
    BY <1>1, <1>12 DEF LogoutRevoke, PCs
  <1>13. CASE ServeRefresh(r)
    <2> DEFINE q == [req[r] EXCEPT !.pc = "refreshing", !.stage = "handler"]
    <2>1. q \in Requests /\ q.pc = "refreshing" /\ (Becomes(r, q) \/ Reply(r))
      BY <1>0, <1>13 DEF ServeRefresh, Requests, PCs
    <2> HIDE DEF q
    <2> QED
      BY <1>2, <1>3, <2>1
  <1>14. ASSUME NEW u \in Subject, CloseSnapshot(r, u) PROVE ~At(r, "revoking")'
    <2> DEFINE q == [req[r] EXCEPT !.pc = "closing",
                  !.scope = {s \in Sid : row[s].state = "open" /\ row[s].subject = u}]
    <2>1. q \in Requests /\ q.pc = "closing" /\ Becomes(r, q)
      BY <1>0, <1>14 DEF CloseSnapshot, Requests, PCs
    <2> HIDE DEF q
    <2> QED
      BY <1>0, <2>1, BecomesType DEF At
  <1>15. ASSUME NEW s \in Sid, CloseLock(r, s) PROVE ~At(r, "revoking")'
    BY <1>0, <1>15, CloseLockType DEF At
  <1> QED
    BY <1>4, <1>5, <1>6, <1>7, <1>8, <1>9, <1>10, <1>11, <1>12, <1>13, <1>14, <1>15 DEF Serve

-----------------------------------------------------------------------------
(* Waiting.  A closure works on the rows of one user, and no row ever goes  *)
(* to another user.                                                         *)

\* The rows that a closure has locked or is going to.
Reach(r) == req[r].scope \cup Locked(r)

OneUser ==
    \A r \in Req : At(r, "closing") =>
        \A s, t \in Reach(r) : row[s].subject = row[t].subject

SubjectKept == \A s \in Sid : Exists(s) => row'[s].subject = row[s].subject

LEMMA SubjectStep == ASSUME TypeOK, Next PROVE SubjectKept
  <1>0. Shape /\ WellFormed
    BY DEF TypeOK
  <1>1. ASSUME NEW r \in Req, RotateCommit(r) \/ CommitUnacknowledged(r) PROVE SubjectKept
    <2>1. row' = [row EXCEPT ![req[r].sid] = Rotated(row[req[r].sid], req[r])]
          /\ req[r].sid \in Sid
      BY <1>0, <1>1 DEF RotateCommit, CommitUnacknowledged, WellFormed, At, Shape
    <2>2. Rotated(row[req[r].sid], req[r]).subject = row[req[r].sid].subject
      BY <1>0, <2>1 DEF Rotated, Shape, Rows
    <2> QED
      BY <1>0, <2>1, <2>2 DEF SubjectKept, Shape
  <1>2. ASSUME NEW r \in Req, Revoke(r) \/ LogoutRevoke(r) PROVE SubjectKept
    BY <1>0, <1>2 DEF Revoke, LogoutRevoke, SubjectKept, Shape, Rows
  <1>3. ASSUME NEW r \in Req, CloseCommit(r) PROVE SubjectKept
    BY <1>0, <1>3 DEF CloseCommit, SubjectKept, Shape, Rows
  <1>4. ASSUME NEW t \in Sid, NEW u \in Subject, NEW hasRt \in BOOLEAN, Login(t, u, hasRt)
        PROVE  SubjectKept
    BY <1>0, <1>4 DEF Login, SubjectKept, Exists, Shape
  <1>5. ASSUME NEW t \in Sid, Expire(t) PROVE SubjectKept
    BY <1>0, <1>5 DEF Expire, SubjectKept, Shape, Rows
  <1>6. CASE UNCHANGED row
    BY <1>6 DEF SubjectKept
  <1>7. ASSUME NEW r \in Req, Serve(r) PROVE SubjectKept
    BY <1>1, <1>2, <1>3, <1>6, <1>7
       DEF Serve, Touch, RefreshGranted, RefreshRefused, RotateLock, ServeRead, CheckCsrf,
           ServeWrite, ServeRefresh, LogoutUpstream, CloseSnapshot, CloseLock, DeadlockBroken
  <1>8. ASSUME Clients PROVE SubjectKept
    BY <1>4, <1>6, <1>8 DEF Clients, Lookup
  <1>9. ASSUME Time \/ Fault PROVE SubjectKept
    BY <1>1, <1>5, <1>6, <1>9
       DEF Time, Fault, BecomeDue, RefreshUnreachable, RefreshReplyLost, ProviderDrop,
           DbFault, Crash
  <1> QED
    BY <1>7, <1>8, <1>9 DEF Next

\* A closure that takes no further row keeps to its user.
LEMMA ReachShrinks ==
    ASSUME TypeOK, OneUser, SubjectKept, NEW r \in Req, At(r, "closing"), Reach(r)' \subseteq Reach(r)
    PROVE  \A s, t \in Reach(r)' : row'[s].subject = row'[t].subject
  <1>1. \A s \in Reach(r) : s \in Sid /\ Exists(s)
    BY SessionAssumption DEF Reach, Locked, TypeOK, Shape, Requests, WellFormed
  <1> QED
    BY <1>1 DEF OneUser, SubjectKept

\* What the steps of others do to a closure: they give locks back, at most.
LEMMA ReachOfOthers ==
    ASSUME TypeOK, NEW r \in Req, req'[r] = req[r],
           \A s \in Sid : lock'[s] = r => lock[s] = r
    PROVE  Reach(r)' \subseteq Reach(r) /\ (At(r, "closing")' => At(r, "closing"))
  BY DEF Reach, Locked, At

LEMMA UserServe == ASSUME TypeOK, LockInv, OneUser, SubjectKept, NEW r \in Req, Serve(r) PROVE OneUser'
  <1>0. Shape /\ WellFormed /\ req[r] \in Requests
    BY DEF TypeOK, Shape
  <1>1. \A s \in Sid : lock'[s] \in {lock[s], None, r}
    BY <1>0 DEF Shape, Serve, Touch, RefreshGranted, RefreshRefused, RotateLock, RotateCommit,
          Revoke, ServeRead, CheckCsrf, ServeWrite, ServeRefresh, LogoutRevoke,
          LogoutUpstream, CloseSnapshot, CloseLock, CloseCommit, DeadlockBroken, ReleaseOf
  <1>2. SUFFICES ASSUME NEW q \in Req, At(q, "closing")'
                 PROVE  \A s, t \in Reach(q)' : row'[s].subject = row'[t].subject
    BY DEF OneUser
  <1>3. CASE q # r
    <2>1. req'[q] = req[q] /\ \A s \in Sid : lock'[s] = q => lock[s] = q
      BY <1>1, <1>3, OneServed, SessionAssumption
    <2> QED
      BY <1>2, <2>1, ReachOfOthers, ReachShrinks
  <1>4. CASE q = r
    <2>1. ASSUME NEW u \in Subject, CloseSnapshot(r, u)
          PROVE  \A s, t \in Reach(r)' : row'[s].subject = row'[t].subject
      <3> DEFINE S == {s \in Sid : row[s].state = "open" /\ row[s].subject = u}
                 x == [req[r] EXCEPT !.pc = "closing", !.scope = S]
      <3>1. x \in Requests /\ x.scope = S
        BY <1>0 DEF Requests, PCs
      <3>2. Becomes(r, x) /\ At(r, "serving") /\ UNCHANGED <<row, lock>>
        BY <2>1 DEF CloseSnapshot
      <3> HIDE DEF x
      <3>3. req'[r].scope = S
        BY <1>0, <3>1, <3>2, BecomesType
      <3>4. Locked(r)' = {}
        BY <3>2, SessionAssumption DEF LockInv, LockDiscipline, Locked, At
      <3> QED
        BY <3>2, <3>3, <3>4 DEF Reach
    <2>2. ASSUME NEW s \in Sid, CloseLock(r, s)
          PROVE  \A t, v \in Reach(r)' : row'[t].subject = row'[v].subject
      <3>1. req'[r].scope = req[r].scope \ {s} /\ s \in req[r].scope /\ At(r, "closing")
        BY <1>0, <2>2, CloseLockType DEF At
      <3>2. lock' = [lock EXCEPT ![s] = r]
        BY <2>2 DEF CloseLock
      <3>3. Reach(r)' \subseteq Reach(r)
        BY <1>0, <3>1, <3>2 DEF Reach, Locked, Shape
      <3> QED
        BY <3>1, <3>3, ReachShrinks
    <2> QED
      BY <1>2, <1>4, <2>1, <2>2, Turns
  <1> QED
    BY <1>3, <1>4

LEMMA UserStep == TypeOK /\ LockInv /\ OneUser /\ [Next]_vars => OneUser'
  <1> SUFFICES ASSUME TypeOK, LockInv, OneUser, [Next]_vars PROVE OneUser'
    OBVIOUS
  <1>1. CASE UNCHANGED vars
    BY <1>1 DEF vars, OneUser, At, Reach, Locked
  <1>2. CASE Next
    <2>0. Shape /\ SubjectKept
      BY <1>2, SubjectStep DEF TypeOK
    <2>1. ASSUME NEW r \in Req, Serve(r) PROVE OneUser'
      BY <2>0, <2>1, UserServe
    <2>2. ASSUME NEW q \in Req, At(q, "closing")', Clients \/ Time \/ Fault
          PROVE  req'[q] = req[q] /\ \A s \in Sid : lock'[s] = q => lock[s] = q
      <3>1. ASSUME NEW r \in Req, q # r, \E x : Becomes(r, x),
                   \A s \in Sid : lock'[s] \in {lock[s], None}
            PROVE  req'[q] = req[q] /\ \A s \in Sid : lock'[s] = q => lock[s] = q
        BY <2>0, <3>1, SessionAssumption DEF Becomes, Shape
      <3>2. ASSUME NEW r \in Req, NEW x \in Requests, Becomes(r, x), x.pc # "closing",
                   \A s \in Sid : lock'[s] \in {lock[s], None}
            PROVE  req'[q] = req[q] /\ \A s \in Sid : lock'[s] = q => lock[s] = q
        BY <2>0, <2>2, <3>1, <3>2, BecomesType DEF At
      <3>3. ASSUME NEW r \in Req, Reply(r) \/ Goto(r, "revoking"),
                   \A s \in Sid : lock'[s] \in {lock[s], None}
            PROVE  req'[q] = req[q] /\ \A s \in Sid : lock'[s] = q => lock[s] = q
        <4>1. q # r
          BY <2>0, <2>2, <3>3, ReplyType, GotoType DEF At, PCs
        <4> QED
          BY <3>1, <3>3, <4>1 DEF Reply, Goto
      <3>4. ASSUME NEW r \in Req, NEW s \in Sid, NEW k \in Kinds, Lookup(r, s, k)
            PROVE  req'[q] = req[q] /\ \A t \in Sid : lock'[t] = q => lock[t] = q
        <4> DEFINE x == [IdleReq EXCEPT !.pc = "found", !.kind = k, !.sid = s,
                                        !.at = row[s].at, !.rt = row[s].rt]
        <4>1. x \in Requests /\ x.pc = "found" /\ Becomes(r, x) /\ UNCHANGED lock
          BY <2>0, <3>4, IdleType DEF Lookup, Requests, PCs, Shape, Rows
        <4> HIDE DEF x
        <4> QED
          BY <3>2, <4>1
      <3>5. ~Crash
        BY <2>2, IdleType DEF Crash, At
      <3> QED
        BY <2>2, <3>3, <3>4, <3>5
           DEF Clients, Time, Fault, Login, Expire, BecomeDue, RefreshUnreachable,
               RefreshReplyLost, ProviderDrop, DbFault, CommitUnacknowledged, ReleaseOf
    <2>3. ASSUME Clients \/ Time \/ Fault PROVE OneUser'
      BY <2>0, <2>2, <2>3, ReachOfOthers, ReachShrinks DEF OneUser
    <2> QED
      BY <1>2, <2>1, <2>3 DEF Next
  <1> QED
    BY <1>1, <1>2

\* A deadlock takes two closures of one user: whoever holds a lock that others
\* wait for and waits itself is a closure, which has and wants rows of one user
\* only.  No refresh and no logout is ever part of one.
THEOREM DeadlocksNeedTwoClosures == Spec => []OnlyClosuresHoldAndWait
  <1>1. TypeOK /\ LockDiscipline /\ OneUser => OnlyClosuresHoldAndWait
    <2> SUFFICES ASSUME TypeOK, LockDiscipline, OneUser, NEW r \in Req, NEW q \in Req, NEW p \in Req,
                        WaitsFor(r, q), WaitsFor(q, p)
                 PROVE  /\ At(q, "closing")
                        /\ \A s \in Locked(q), t \in req[q].scope : row[s].subject = row[t].subject
      BY DEF OnlyClosuresHoldAndWait
    <2>1. PICK s \in Sid : lock[s] = q
      BY DEF WaitsFor
    <2>2. \/ req[q].pc \in {"rotating", "revoking"} /\ req[q].sid = s
          \/ At(q, "closing")
      BY <2>1, SessionAssumption DEF LockDiscipline
    <2>3. At(q, "closing")
      <3> SUFFICES ASSUME req[q].pc \in {"rotating", "revoking"}, req[q].sid = s PROVE FALSE
        BY <2>2
      <3>1. PICK t \in Sid : lock[t] = p /\ At(q, "revoking") /\ req[q].sid = t /\ p # q
        BY DEF WaitsFor, At
      <3> QED
        BY <2>1, <3>1
    <2> QED
      BY <2>3 DEF OneUser, Reach
  <1>2. Spec => []LockInv
    BY LockInit, LockStep, TypeCorrect, PTL DEF Spec
  <1>3. Init => OneUser
    BY IdleType DEF Init, OneUser, At
  <1>4. Spec => []OneUser
    BY <1>2, <1>3, UserStep, TypeCorrect, PTL DEF Spec
  <1> QED
    BY <1>1, <1>4, TypeCorrect, LocksAreDisciplined, PTL

-----------------------------------------------------------------------------
(* How far a request is from its answer: get, at most one refresh on the    *)
(* way in, the handler, and for POST /auth/refresh one more refresh.        *)

Rank(q) ==
    CASE q.pc = "idle" -> 0
      [] q.pc \in {"revoking", "upstream", "closing"} -> 1
      [] q.pc = "rotating" -> IF q.stage = "handler" THEN 2 ELSE 7
      [] q.pc = "granted" -> IF q.stage = "handler" THEN 3 ELSE 8
      [] q.pc = "refreshing" -> IF q.stage = "handler" THEN 4 ELSE 9
      [] q.pc = "serving" -> 5
      [] q.pc = "admitted" -> 6
      [] q.pc = "found" -> 10

\* A closure also comes nearer by each row it locks.
Closer(old, new) ==
    \/ Rank(new) < Rank(old)
    \/ Rank(new) = Rank(old) /\ new.scope \subseteq old.scope /\ new.scope # old.scope

\* What changes a request in flight brings it nearer to its answer.
Nearer ==
    \A r \in Req : ~At(r, "idle") /\ req'[r] # req[r] => Closer(req[r], req'[r])

LEMMA NearerServe == ASSUME TypeOK, NEW r \in Req, Serve(r) PROVE Nearer
  <1> SUFFICES ASSUME ~At(r, "idle")
               PROVE  Rank(req'[r]) < Rank(req[r]) \/ \E s \in Sid : CloseLock(r, s)
    <2>1. ASSUME NEW s \in Sid, CloseLock(r, s) PROVE Closer(req[r], req'[r])
      <3>1. /\ req'[r].pc = "closing" /\ req[r].pc = "closing"
            /\ req'[r].scope = req[r].scope \ {s} /\ s \in req[r].scope
        BY <2>1, CloseLockType DEF TypeOK
      <3>2. Rank(req'[r]) = 1 /\ Rank(req[r]) = 1
        BY <3>1 DEF Rank
      <3> QED
        BY <3>1, <3>2 DEF Closer
    <2>2. Rank(req'[r]) < Rank(req[r]) => Closer(req[r], req'[r])
      BY DEF Closer
    <2> QED
      BY <2>1, <2>2, OneServed DEF Nearer
  <1>0. Shape /\ req[r] \in Requests /\ req[r].pc # "idle" /\ IdleReq.pc = "idle"
    BY IdleType DEF TypeOK, Shape, At
  <1>1. ASSUME NEW p \in PCs, Goto(r, p)
        PROVE  req'[r].pc = p /\ req'[r].stage = req[r].stage
    BY <1>0, <1>1, GotoType
  <1>2. ASSUME Reply(r) PROVE Rank(req'[r]) < Rank(req[r])
    BY <1>0, <1>2, ReplyType DEF Rank, Requests, PCs
  <1>3. CASE Touch(r)
    <2>1. AfterTouch(r) \in {"admitted", "revoking", "refreshing"}
      BY DEF AfterTouch
    <2> QED
      BY <1>1, <1>3, <2>1 DEF Touch, Rank, PCs, At
  <1>4. ASSUME NEW rotates \in BOOLEAN, RefreshGranted(r, rotates)
        PROVE  Rank(req'[r]) < Rank(req[r])
    <2> DEFINE q == [req[r] EXCEPT !.pc = "granted", !.newAt = issued',
                                   !.newRt = IF rotates THEN issued' ELSE req[r].rt]
    <2>1. /\ q \in Requests /\ q.pc = "granted" /\ q.stage = req[r].stage
          /\ Becomes(r, q) /\ req[r].pc = "refreshing"
      BY <1>0, <1>4, TokFacts, SessionAssumption
         DEF RefreshGranted, Grant, Requests, PCs, Shape, At
    <2> HIDE DEF q
    <2> QED
      BY <1>0, <2>1, BecomesType DEF Rank, Requests
  <1>5. CASE RefreshRefused(r)
    BY <1>1, <1>5 DEF RefreshRefused, Rank, PCs, At
  <1>6. CASE RotateLock(r)
    <2>1. \E p \in {"rotating", "revoking"} : Goto(r, p) /\ req[r].pc = "granted"
      BY <1>6 DEF RotateLock, At
    <2> QED
      BY <1>1, <2>1 DEF Rank, PCs
  <1>7. CASE RotateCommit(r)
    <2> DEFINE new == Rotated(row[req[r].sid], req[r])
               q == [req[r] EXCEPT !.pc = "admitted", !.at = new.at, !.rt = new.rt,
                                   !.newAt = NoTok, !.newRt = NoTok]
    <2>1. req[r].sid \in Sid /\ row[req[r].sid] \in Rows /\ req[r].pc = "rotating"
      BY <1>0, <1>7 DEF RotateCommit, At, TypeOK, Shape, WellFormed
    <2>2. new \in Rows
      BY <1>0, <2>1, RotatedType
    <2>3. q \in Requests /\ q.pc = "admitted"
      BY <1>0, <2>2, TokFacts DEF Requests, Rows, PCs
    <2>4. Reply(r) \/ (req[r].stage = "entry" /\ Becomes(r, q))
      BY <1>7 DEF RotateCommit
    <2> HIDE DEF q
    <2>5. CASE req[r].stage = "entry" /\ Becomes(r, q)
      BY <1>0, <2>1, <2>3, <2>5, BecomesType DEF Rank
    <2> QED
      BY <1>2, <2>4, <2>5
  <1>8. ASSUME NEW headerOk \in BOOLEAN, CheckCsrf(r, headerOk)
        PROVE  Rank(req'[r]) < Rank(req[r])
    <2>1. req[r].pc = "admitted" /\ (Reply(r) \/ Goto(r, "serving"))
      BY <1>8 DEF CheckCsrf, At
    <2>2. CASE Goto(r, "serving")
      BY <1>1, <2>1, <2>2 DEF Rank, PCs
    <2> QED
      BY <1>2, <2>1, <2>2
  <1>9. CASE ServeRefresh(r)
    <2> DEFINE q == [req[r] EXCEPT !.pc = "refreshing", !.stage = "handler"]
    <2>1. /\ q \in Requests /\ q.pc = "refreshing" /\ q.stage = "handler"
          /\ Becomes(r, q) \/ Reply(r)
          /\ req[r].pc = "serving"
      BY <1>0, <1>9 DEF ServeRefresh, Requests, PCs, At
    <2> HIDE DEF q
    <2>2. CASE Becomes(r, q)
      BY <1>0, <2>1, <2>2, BecomesType DEF Rank
    <2> QED
      BY <1>2, <2>1, <2>2
  <1>10. CASE LogoutRevoke(r)
    BY <1>1, <1>10 DEF LogoutRevoke, Rank, PCs, At
  <1>11. ASSUME NEW u \in Subject, CloseSnapshot(r, u) PROVE Rank(req'[r]) < Rank(req[r])
    <2> DEFINE q == [req[r] EXCEPT !.pc = "closing",
                  !.scope = {s \in Sid : row[s].state = "open" /\ row[s].subject = u}]
    <2>1. /\ q \in Requests /\ q.pc = "closing" /\ Becomes(r, q)
          /\ req[r].pc = "serving"
      BY <1>0, <1>11 DEF CloseSnapshot, Requests, PCs, At
    <2> HIDE DEF q
    <2> QED
      BY <1>0, <2>1, BecomesType DEF Rank
  <1> QED
    BY <1>2, <1>3, <1>4, <1>5, <1>6, <1>7, <1>8, <1>9, <1>10, <1>11
       DEF Serve, Revoke, ServeRead, ServeWrite, LogoutUpstream, CloseCommit,
           DeadlockBroken

LEMMA NearerEnvironment == ASSUME TypeOK, Clients \/ Time \/ Fault PROVE Nearer
  <1>0. Shape /\ IdleReq.pc = "idle" /\ \A r \in Req : req[r] \in Requests
    BY IdleType DEF TypeOK, Shape
  <1>1. ASSUME NEW r \in Req, Reply(r) PROVE Nearer
    BY <1>0, <1>1, ReplyType DEF Nearer, Closer, Rank, At, Requests, PCs
  <1>2. ASSUME NEW r \in Req, Goto(r, "revoking"), req[r].pc \in {"refreshing", "granted"}
        PROVE  Nearer
    <2>1. /\ req'[r].pc = "revoking" /\ \A q \in Req : q # r => req'[q] = req[q]
      BY <1>0, <1>2, GotoType DEF PCs
    <2> QED
      BY <1>2, <2>1 DEF Nearer, Closer, Rank
  <1>3. ASSUME NEW r \in Req, NEW s \in Sid, NEW k \in Kinds, Lookup(r, s, k) PROVE Nearer
    <2>1. At(r, "idle") /\ \A q \in Req : q # r => req'[q] = req[q]
      BY <1>0, <1>3 DEF Lookup, Becomes, Shape
    <2> QED
      BY <2>1 DEF Nearer
  <1>4. CASE Crash
    BY <1>0, <1>4 DEF Crash, Nearer, Closer, Rank, At, Requests, PCs
  <1>5. ASSUME UNCHANGED req PROVE Nearer
    BY <1>5 DEF Nearer
  <1> QED
    BY <1>1, <1>2, <1>3, <1>4, <1>5
       DEF Clients, Time, Fault, Login, Expire, BecomeDue, RefreshUnreachable,
           RefreshReplyLost, Grant, ProviderDrop, DbFault, CommitUnacknowledged, At

\* No request goes in circles, with every fault and however often its session
\* is refreshed by others meanwhile: each change of a request in flight brings
\* it nearer to its answer, so ten of them and one for each row of a closure
\* answer it.
THEOREM RequestsOnlyAdvance == Spec => [][Nearer]_vars
  <1>1. TypeOK /\ [Next]_vars => [Nearer]_vars
    BY NearerServe, NearerEnvironment DEF Next
  <1> QED
    BY <1>1, TypeCorrect, PTL DEF Spec

-----------------------------------------------------------------------------
(* Revocation is final.                                                    *)

Final(s) ==
    row[s].state = "revoked" => /\ row'[s].state = "revoked"
                                /\ row'[s].at = row[s].at
                                /\ row'[s].rt = row[s].rt

\* Only rotate writes tokens, and it does so to an open row.
LEMMA FinalStep ==
    ASSUME TypeOK, LockInv, Next, NEW s \in Sid
    PROVE  Final(s)
  <1>0. Shape /\ WellFormed /\ row[s] \in Rows
    BY DEF TypeOK, Shape
  <1>1. ASSUME NEW r \in Req, RotateCommit(r) \/ CommitUnacknowledged(r) PROVE Final(s)
    <2>1. req[r].sid \in Sid /\ row[req[r].sid].state = "open"
      BY <1>0, <1>1 DEF RotateCommit, CommitUnacknowledged, LockInv, Guarded, WellFormed, At
    <2>2. s # req[r].sid => row'[s] = row[s]
      BY <1>0, <1>1 DEF RotateCommit, CommitUnacknowledged, Shape
    <2> QED
      BY <2>1, <2>2 DEF Final
  <1>2. ASSUME NEW r \in Req, Revoke(r) \/ LogoutRevoke(r) PROVE Final(s)
    <2>1. row' = [row EXCEPT ![req[r].sid].state = "revoked"]
      BY <1>2 DEF Revoke, LogoutRevoke
    <2> QED
      BY <1>0, <2>1 DEF Final, Shape, Rows
  <1>3. ASSUME NEW r \in Req, CloseCommit(r) PROVE Final(s)
    BY <1>0, <1>3 DEF CloseCommit, Final, Rows
  <1>4. ASSUME NEW t \in Sid, NEW u \in Subject, NEW hasRt \in BOOLEAN, Login(t, u, hasRt)
        PROVE  Final(s)
    BY <1>0, <1>4 DEF Login, Final, Shape
  <1>5. ASSUME NEW t \in Sid, Expire(t) PROVE Final(s)
    BY <1>0, <1>5 DEF Expire, Final, Shape, Rows
  <1>6. CASE UNCHANGED row
    BY <1>6 DEF Final
  <1>7. ASSUME NEW r \in Req, Serve(r) PROVE Final(s)
    BY <1>1, <1>2, <1>3, <1>6, <1>7
       DEF Serve, Touch, RefreshGranted, RefreshRefused, RotateLock, ServeRead, CheckCsrf,
           ServeWrite, ServeRefresh, LogoutUpstream, CloseSnapshot, CloseLock, DeadlockBroken
  <1>8. ASSUME Clients PROVE Final(s)
    BY <1>4, <1>6, <1>8 DEF Clients, Lookup
  <1>9. ASSUME Time \/ Fault PROVE Final(s)
    BY <1>1, <1>5, <1>6, <1>9
       DEF Time, Fault, BecomeDue, RefreshUnreachable, RefreshReplyLost, ProviderDrop,
           DbFault, Crash
  <1> QED
    BY <1>7, <1>8, <1>9 DEF Next

\* A session that has been revoked is never reopened and never gets new
\* tokens, in any interleaving and under any fault.
THEOREM RevocationIsFinal == Spec => RevokedIsFinal
  <1>1. Spec => []LockInv
    BY LockInit, LockStep, TypeCorrect, PTL DEF Spec
  <1>2. TypeOK /\ LockInv /\ [Next]_vars =>
            [\A s \in Sid : row[s].state = "revoked" =>
                /\ row'[s].state = "revoked"
                /\ row'[s].at = row[s].at
                /\ row'[s].rt = row[s].rt]_vars
    BY FinalStep DEF Final
  <1> QED
    BY <1>1, <1>2, TypeCorrect, PTL DEF Spec, RevokedIsFinal

-----------------------------------------------------------------------------
(* Tokens are numbered: every refresh token in a row, a request or an       *)
(* answer has been issued.                                                 *)

Numbered ==
    /\ honoured \subseteq 1..issued
    /\ \A s \in Sid : row[s].rt \in 0..issued
    /\ \A r \in Req : req[r].rt \in 0..issued /\ req[r].newRt \in 0..issued

LEMMA NumberedInit == Init => Numbered
  BY IdleType DEF Init, Numbered, NoRow, NoTok

\* Where the tokens of the next state come from.
Spread ==
    /\ \/ issued' = issued /\ honoured' \subseteq honoured
       \/ issued' = issued + 1 /\ honoured' \subseteq honoured \cup {issued'}
    /\ \A s \in Sid :
          \/ row'[s].rt \in {row[s].rt, NoTok, issued'}
          \/ \E q \in Req : row'[s].rt = req[q].newRt
    /\ \A r \in Req :
          \/ req'[r].rt \in {req[r].rt, NoTok}
          \/ \E s \in Sid : req'[r].rt \in {row[s].rt, row'[s].rt}
    /\ \A r \in Req : req'[r].newRt \in {req[r].newRt, req[r].rt, NoTok, issued'}

\* A session that is not live does not come back to life.
Ending == \A s \in Sid : Exists(s) /\ Live(s)' => Live(s)

LEMMA SpreadServe ==
    ASSUME TypeOK, NEW r \in Req, Serve(r) PROVE Spread /\ Ending
  <1>0. /\ Shape /\ WellFormed /\ req[r] \in Requests
        /\ ~At(r, "idle") => req[r].sid \in Sid /\ row[req[r].sid] \in Rows
        /\ IdleReq.rt = NoTok /\ IdleReq.newRt = NoTok
    BY IdleType DEF TypeOK, Shape, WellFormed
  <1>1. CASE Touch(r)
    <2>1. AfterTouch(r) \in PCs
      BY DEF AfterTouch, PCs
    <2> QED
      BY <1>0, <1>1, <2>1, GotoType DEF Touch, Spread, Ending, Live
  <1>2. ASSUME NEW rotates \in BOOLEAN, RefreshGranted(r, rotates) PROVE Spread /\ Ending
    <2> DEFINE q == [req[r] EXCEPT !.pc = "granted", !.newAt = issued',
                                   !.newRt = IF rotates THEN issued' ELSE req[r].rt]
    <2>1. /\ q \in Requests /\ q.rt = req[r].rt /\ q.newRt \in {req[r].rt, issued'}
          /\ Becomes(r, q)
      BY <1>0, <1>2, TokFacts, SessionAssumption
         DEF RefreshGranted, Grant, Requests, PCs, Shape
    <2> HIDE DEF q
    <2>2. /\ UNCHANGED row /\ issued' = issued + 1
          /\ honoured' \subseteq honoured \cup {issued'}
      BY <1>2 DEF RefreshGranted, Grant
    <2> QED
      BY <1>0, <2>1, <2>2, BecomesType DEF Spread, Ending, Live
  <1>3. CASE RefreshRefused(r)
    BY <1>0, <1>3, GotoType DEF RefreshRefused, Spread, Ending, Live, PCs
  <1>4. CASE RotateLock(r)
    <2> DEFINE p == IF Live(req[r].sid) THEN "rotating" ELSE "revoking"
    <2>1. p \in PCs /\ UNCHANGED <<row, honoured, issued>> /\ Goto(r, p)
      BY <1>4 DEF RotateLock, PCs
    <2> HIDE DEF p
    <2> QED
      BY <1>0, <2>1, GotoType DEF Spread, Ending, Live
  <1>5. CASE RotateCommit(r)
    <2> DEFINE s == req[r].sid
               new == Rotated(row[s], req[r])
               q == [req[r] EXCEPT !.pc = "admitted", !.at = new.at, !.rt = new.rt,
                                   !.newAt = NoTok, !.newRt = NoTok]
    <2>1. /\ s \in Sid /\ UNCHANGED <<issued, honoured>>
          /\ new \in Rows /\ new.state = row[s].state /\ new.expired = row[s].expired
          /\ new.rt \in {row[s].rt, req[r].newRt}
      BY <1>0, <1>5, RotatedType DEF RotateCommit, At
    <2>2. q \in Requests /\ q.rt = new.rt /\ q.newRt = NoTok
      BY <1>0, <2>1, TokFacts DEF Requests, Rows, PCs
    <2>3. row' = [row EXCEPT ![s] = new] /\ (Becomes(r, q) \/ Reply(r))
      BY <1>5 DEF RotateCommit
    <2> HIDE DEF q, new
    <2>4. /\ \A y \in Req : y # r => req'[y] = req[y]
          /\ req'[r].rt \in {NoTok, new.rt} /\ req'[r].newRt = NoTok
      BY <1>0, <2>2, <2>3, BecomesType, ReplyType
    <2>5. row'[s] = new /\ \A t \in Sid : t # s => row'[t] = row[t]
      BY <1>0, <2>1, <2>3 DEF Shape
    <2> QED
      BY <2>1, <2>4, <2>5 DEF Spread, Ending, Live
  <1>6. CASE Revoke(r) \/ LogoutRevoke(r)
    <2>1. /\ \A s \in Sid : row'[s].rt = row[s].rt /\ (Live(s)' => Live(s))
          /\ UNCHANGED <<issued, honoured>>
      BY <1>0, <1>6 DEF Revoke, LogoutRevoke, Shape, Rows, Live, At
    <2> QED
      BY <1>0, <1>6, <2>1, ReplyType, GotoType
         DEF Revoke, LogoutRevoke, PCs, Spread, Ending
  <1>7. CASE ServeRead(r) \/ ServeWrite(r)
    BY <1>0, <1>7, ReplyType DEF ServeRead, ServeWrite, Spread, Ending, Live
  <1>8. ASSUME NEW headerOk \in BOOLEAN, CheckCsrf(r, headerOk) PROVE Spread /\ Ending
    BY <1>0, <1>8, GotoType, ReplyType DEF CheckCsrf, PCs, Spread, Ending, Live
  <1>9. CASE ServeRefresh(r)
    <2> DEFINE q == [req[r] EXCEPT !.pc = "refreshing", !.stage = "handler"]
    <2>1. /\ q.rt = req[r].rt /\ q.newRt = req[r].newRt /\ q \in Requests
          /\ UNCHANGED <<row, honoured, issued>> /\ (Becomes(r, q) \/ Reply(r))
      BY <1>0, <1>9 DEF ServeRefresh, Requests, PCs
    <2> HIDE DEF q
    <2> QED
      BY <1>0, <2>1, BecomesType, ReplyType DEF Spread, Ending, Live
  <1>10. ASSUME NEW done \in BOOLEAN, LogoutUpstream(r, done) PROVE Spread /\ Ending
    <2>1. Reply(r) /\ UNCHANGED <<row, issued>> /\ honoured' \subseteq honoured
      BY <1>10 DEF LogoutUpstream
    <2> QED
      BY <1>0, <2>1, ReplyType DEF Spread, Ending, Live
  <1>11. ASSUME NEW u \in Subject, CloseSnapshot(r, u) PROVE Spread /\ Ending
    <2> DEFINE q == [req[r] EXCEPT !.pc = "closing",
                  !.scope = {s \in Sid : row[s].state = "open" /\ row[s].subject = u}]
    <2>1. /\ q.rt = req[r].rt /\ q.newRt = req[r].newRt /\ q \in Requests
          /\ UNCHANGED <<row, honoured, issued>> /\ Becomes(r, q)
      BY <1>0, <1>11 DEF CloseSnapshot, Requests, PCs
    <2> HIDE DEF q
    <2> QED
      BY <1>0, <2>1, BecomesType DEF Spread, Ending, Live
  <1>12. CASE CloseCommit(r)
    <2>1. /\ \A s \in Sid : row'[s].rt = row[s].rt /\ (Live(s)' => Live(s))
          /\ UNCHANGED <<issued, honoured>> /\ Reply(r)
      BY <1>0, <1>12 DEF CloseCommit, Shape, Rows, Live
    <2> QED
      BY <1>0, <2>1, ReplyType DEF Spread, Ending
  <1>13. ASSUME NEW s \in Sid, CloseLock(r, s) PROVE Spread /\ Ending
    BY <1>0, <1>13, CloseLockType DEF CloseLock, Spread, Ending, Live
  <1>14. CASE DeadlockBroken(r)
    BY <1>0, <1>14, ReplyType DEF DeadlockBroken, Spread, Ending, Live
  <1> QED
    BY <1>1, <1>2, <1>3, <1>4, <1>5, <1>6, <1>7, <1>8, <1>9, <1>10, <1>11, <1>12, <1>13,
       <1>14 DEF Serve

LEMMA SpreadEnvironment ==
    ASSUME TypeOK, Clients \/ Time \/ Fault PROVE Spread /\ Ending
  <1>0. /\ Shape /\ WellFormed
        /\ \A r \in Req : /\ req[r] \in Requests
                          /\ ~At(r, "idle") => req[r].sid \in Sid /\ row[req[r].sid] \in Rows
        /\ IdleReq.rt = NoTok /\ IdleReq.newRt = NoTok
    BY IdleType DEF TypeOK, Shape, WellFormed
  <1>1. ASSUME NEW s \in Sid, NEW u \in Subject, NEW hasRt \in BOOLEAN, Login(s, u, hasRt)
        PROVE  Spread /\ Ending
    <2>1. /\ issued' = issued + 1 /\ UNCHANGED req /\ ~Exists(s)
          /\ honoured' \subseteq honoured \cup {issued'}
          /\ row'[s].rt \in {NoTok, issued'}
          /\ \A t \in Sid : t # s => row'[t] = row[t]
      BY <1>0, <1>1 DEF Login, Shape, Exists
    <2> QED
      BY <2>1 DEF Spread, Ending, Live
  <1>2. ASSUME NEW r \in Req, NEW s \in Sid, NEW k \in Kinds, Lookup(r, s, k)
        PROVE  Spread /\ Ending
    <2> DEFINE q == [IdleReq EXCEPT !.pc = "found", !.kind = k, !.sid = s,
                                    !.at = row[s].at, !.rt = row[s].rt]
    <2>1. q \in Requests /\ q.rt = row[s].rt /\ q.newRt = NoTok
      BY <1>0, IdleType DEF Requests, PCs, Shape, Rows
    <2>2. Becomes(r, q) /\ UNCHANGED <<row, issued, honoured>>
      BY <1>2 DEF Lookup
    <2> HIDE DEF q
    <2> QED
      BY <1>0, <2>1, <2>2, BecomesType DEF Spread, Ending, Live
  <1>3. ASSUME NEW s \in Sid, Expire(s) PROVE Spread /\ Ending
    <2>1. /\ \A t \in Sid : row'[t].rt = row[t].rt /\ (Live(t)' => Live(t))
          /\ UNCHANGED <<req, issued, honoured>>
      BY <1>0, <1>3 DEF Expire, Shape, Rows, Live
    <2> QED
      BY <2>1 DEF Spread, Ending
  <1>4. ASSUME NEW t \in Tok, BecomeDue(t) PROVE Spread /\ Ending
    BY <1>4 DEF BecomeDue, Spread, Ending, Live
  <1>5. ASSUME NEW r \in Req, RefreshUnreachable(r) PROVE Spread /\ Ending
    BY <1>0, <1>5, GotoType DEF RefreshUnreachable, Spread, Ending, Live, PCs
  <1>6. ASSUME NEW r \in Req, NEW rotates \in BOOLEAN, RefreshReplyLost(r, rotates)
        PROVE  Spread /\ Ending
    <2>1. /\ UNCHANGED row /\ issued' = issued + 1 /\ Goto(r, "revoking")
          /\ honoured' \subseteq honoured \cup {issued'}
      BY <1>6 DEF RefreshReplyLost, Grant
    <2> QED
      BY <1>0, <2>1, GotoType DEF Spread, Ending, Live, PCs
  <1>7. ASSUME NEW t \in Tok, ProviderDrop(t) PROVE Spread /\ Ending
    BY <1>7 DEF ProviderDrop, Spread, Ending, Live
  <1>8. ASSUME NEW r \in Req, DbFault(r) PROVE Spread /\ Ending
    <2>1. UNCHANGED <<row, issued, honoured>> /\ (Reply(r) \/ Goto(r, "revoking"))
      BY <1>8 DEF DbFault
    <2> QED
      BY <1>0, <2>1, GotoType, ReplyType DEF Spread, Ending, Live, PCs
  <1>9. ASSUME NEW r \in Req, CommitUnacknowledged(r) PROVE Spread /\ Ending
    <2> DEFINE s == req[r].sid
               new == Rotated(row[s], req[r])
    <2>1. /\ s \in Sid /\ UNCHANGED <<issued, honoured>> /\ Reply(r)
          /\ new \in Rows /\ new.state = row[s].state /\ new.expired = row[s].expired
          /\ new.rt \in {row[s].rt, req[r].newRt}
      BY <1>0, <1>9, RotatedType DEF CommitUnacknowledged, At
    <2>2. row' = [row EXCEPT ![s] = new]
      BY <1>9 DEF CommitUnacknowledged
    <2> HIDE DEF new
    <2>3. row'[s] = new /\ \A t \in Sid : t # s => row'[t] = row[t]
      BY <1>0, <2>1, <2>2 DEF Shape
    <2> QED
      BY <1>0, <2>1, <2>3, ReplyType DEF Spread, Ending, Live
  <1>10. CASE Crash
    <2>1. \A r \in Req : req'[r] = IdleReq
      BY <1>10 DEF Crash
    <2> QED
      BY <1>0, <1>10, <2>1 DEF Crash, Spread, Ending, Live
  <1> QED
    BY <1>1, <1>2, <1>3, <1>4, <1>5, <1>6, <1>7, <1>8, <1>9, <1>10
       DEF Clients, Time, Fault

\* With every fault: nothing ever refers to a token that was not issued.
LEMMA NumberedStep == TypeOK /\ Numbered /\ [Next]_vars => Numbered'
  <1> SUFFICES ASSUME TypeOK, Numbered, [Next]_vars PROVE Numbered'
    OBVIOUS
  <1>1. CASE UNCHANGED vars
    BY <1>1 DEF vars, Numbered
  <1>2. CASE Next
    <2>0. issued \in Nat /\ NoTok = 0 /\ honoured \subseteq 1..issued
      BY SessionAssumption DEF TypeOK, Shape, NoTok, Numbered
    <2>1. Spread
      BY <1>2, SpreadServe, SpreadEnvironment DEF Next
    <2>2. issued' \in Nat /\ issued <= issued'
      BY <2>0, <2>1 DEF Spread
    <2>3. /\ \A n \in 0..issued : n \in 0..issued'
          /\ \A n \in 1..issued : n \in 1..issued'
          /\ issued # issued' => issued' \in 1..issued'
      BY <2>0, <2>2
    <2>7. honoured' \subseteq 1..issued'
      <3>1. CASE honoured' \subseteq honoured
        BY <2>0, <2>3, <3>1
      <3>2. CASE issued' = issued + 1 /\ honoured' \subseteq honoured \cup {issued'}
        <4>1. issued # issued'
          BY <2>0, <3>2
        <4> QED
          BY <2>0, <2>3, <3>2, <4>1
      <3> QED
        BY <2>1, <3>1, <3>2 DEF Spread
    <2>4. NoTok \in 0..issued' /\ issued' \in 0..issued'
      BY <2>0, <2>2
    <2>5. \A s \in Sid : row'[s].rt \in 0..issued'
      BY <2>1, <2>3, <2>4 DEF Spread, Numbered
    <2>6. \A r \in Req : req'[r].rt \in 0..issued' /\ req'[r].newRt \in 0..issued'
      BY <2>1, <2>3, <2>4, <2>5 DEF Spread, Numbered
    <2> QED
      BY <2>7, <2>5, <2>6 DEF Numbered
  <1> QED
    BY <1>1, <1>2

-----------------------------------------------------------------------------
(* Refresh tokens.  That a session keeps its grant follows from who may     *)
(* know a refresh token: one session at most, and a new token on its way    *)
(* into the row nobody but the request that carries it.                     *)

Carrying(r) == req[r].pc \in {"granted", "rotating"}

\* r carries a token that replaces the one it presented.
Fresh(r) == Carrying(r) /\ req[r].newRt # req[r].rt

\* A new token on its way into a row is accepted and nobody else knows it.
Private ==
    \A r \in Req : Fresh(r) =>
        /\ req[r].newRt \in honoured
        /\ \A s \in Sid : row[s].rt # req[r].newRt
        /\ \A q \in Req : req[q].rt # req[r].newRt
        /\ \A q \in Req : Carrying(q) /\ q # r => req[q].newRt # req[r].newRt

\* A token is known to one session only.
Unshared ==
    /\ \A s, t \in Sid : s # t /\ row[s].rt # NoTok => row[s].rt # row[t].rt
    /\ \A r \in Req, s \in Sid :
            s # req[r].sid /\ req[r].rt # NoTok => req[r].rt # row[s].rt
    /\ \A r, q \in Req :
            req[q].sid # req[r].sid /\ req[r].rt # NoTok => req[r].rt # req[q].rt

\* A request that has a refresh token works for a row that has one.
Stored ==
    \A r \in Req : req[r].rt # NoTok =>
        ~At(r, "idle") /\ req[r].sid \in Sid /\ row[req[r].sid].rt # NoTok

\* logout asks the provider to revoke after it has revoked the row.
RowFirst == \A r \in Req : At(r, "upstream") => row[req[r].sid].state = "revoked"

GrantInv == Private /\ Unshared /\ Stored /\ RowFirst

\* What a step may do to the grants of the sessions.
GrantsKept ==
    \A s \in Sid : Live(s) /\ HasGrant(s) /\ Live(s)' /\ ~HasGrant(s)' =>
        \E r \in Req : WritesBack(r, s)

LEMMA GrantInit == Init => GrantInv
  BY IdleType DEF Init, GrantInv, Private, Unshared, Stored, RowFirst, Carrying, Fresh,
     At, NoRow, NoTok

\* A step that leaves the tokens of rows and provider alone, moves only request
\* r, revives no session, neither drops nor invents a carried token, and leaves
\* no session alone that r was about to end.
LEMMA QuietStep ==
    ASSUME TypeOK, GrantInv, NEW r \in Req,
           \A x \in Req : x # r => req'[x] = req[x],
           req'[r].rt = NoTok \/ (req'[r].rt = req[r].rt /\ req'[r].sid = req[r].sid),
           honoured' = honoured,
           \A s \in Sid : row'[s].rt = row[s].rt,
           \A s \in Sid : Live(s)' => Live(s),
           \A s \in Sid : row[s].state = "revoked" => row'[s].state = "revoked",
           Carrying(r)' => /\ Carrying(r) /\ req'[r].newRt = req[r].newRt
                           /\ req'[r].rt = req[r].rt,
           Carrying(r) => /\ req'[r].sid = req[r].sid
                          /\ Carrying(r)' \/ ~Live(req[r].sid)',
           At(r, "idle")' => req'[r].rt = NoTok,
           At(r, "upstream")' => row'[req'[r].sid].state = "revoked",
           \A s \in Sid : At(r, "revoking") /\ req[r].sid = s => ~Live(s)'
    PROVE  GrantInv' /\ GrantsKept
  <1>1. Private'
    BY DEF GrantInv, Private, Carrying, Fresh, Unshared, NoTok, TypeOK, Shape, Tok
  <1>2. Unshared'
    BY DEF GrantInv, Unshared
  <1>3. Stored'
    BY DEF GrantInv, Stored, At
  <1>4. RowFirst'
    BY DEF GrantInv, RowFirst, At, TypeOK, WellFormed
  <1>5. GrantsKept
    <2> SUFFICES ASSUME NEW s \in Sid, Live(s), Live(s)', HasGrant(s)
                 PROVE  HasGrant(s)'
      BY DEF GrantsKept
    <2>1. CASE row[s].rt = NoTok \/ row[s].rt \in honoured
      BY <2>1 DEF HasGrant
    <2>2. ASSUME NEW q \in Req, Carries(q, s) PROVE HasGrant(s)'
      <3>1. Carrying(q) /\ req[q].sid = s
        BY <2>2 DEF Carries, Carrying
      <3>2. Carrying(q)' /\ req'[q].sid = s /\ req'[q].newRt = req[q].newRt
        BY <3>1 DEF Carrying
      <3>3. Carries(q, s)'
        BY <2>2, <3>2 DEF Carries, Carrying
      <3> QED
        BY <3>3 DEF HasGrant
    <2>3. ASSUME NEW q \in Req, Abandons(q, s) PROVE HasGrant(s)'
      <3>1. req'[q] = req[q]
        BY <2>3 DEF Abandons
      <3>2. Abandons(q, s)'
        BY <2>3, <3>1 DEF Abandons, At
      <3> QED
        BY <3>2 DEF HasGrant
    <2> QED
      BY <2>1, <2>2, <2>3 DEF HasGrant
  <1> QED
    BY <1>1, <1>2, <1>3, <1>4, <1>5 DEF GrantInv

\* The provider gives up token x of the session of r: whoever else carries x
\* works for that session too.
LEMMA GrantWithdrawn ==
    ASSUME TypeOK, GrantInv, NEW r \in Req, ~Carrying(r), req[r].rt # NoTok,
           \A y \in Req : y # r => req'[y] = req[y],
           UNCHANGED row, ~At(r, "revoking"),
           \A t \in honoured : t # req[r].rt => t \in honoured',
           \A s \in Sid : req[r].sid = s /\ Live(s) => HasGrant(s)'
    PROVE  GrantsKept
  <1> SUFFICES ASSUME NEW s \in Sid, Live(s), HasGrant(s), req[r].sid # s
               PROVE  HasGrant(s)'
    BY DEF GrantsKept
  <1>1. CASE row[s].rt = NoTok \/ row[s].rt \in honoured
    <2>1. row[s].rt # req[r].rt
      BY DEF GrantInv, Unshared
    <2> QED
      BY <1>1, <2>1 DEF HasGrant
  <1>2. ASSUME NEW q \in Req, Carries(q, s) PROVE HasGrant(s)'
    <2>1. /\ Carrying(q) /\ q # r /\ req'[q] = req[q] /\ req[q].sid = s
          /\ req[q].newRt \in honoured
      BY <1>2 DEF Carries, Carrying
    <2>2. req[q].newRt # req[r].rt
      BY <2>1 DEF GrantInv, Private, Fresh, Unshared
    <2>3. Carries(q, s)'
      BY <2>1, <2>2 DEF Carries, Carrying
    <2> QED
      BY <2>3 DEF HasGrant
  <1>3. ASSUME NEW q \in Req, Abandons(q, s) PROVE HasGrant(s)'
    <2>1. q # r /\ req'[q] = req[q]
      BY <1>3 DEF Abandons
    <2>2. Abandons(q, s)'
      BY <1>3, <2>1 DEF Abandons, At
    <2> QED
      BY <2>2 DEF HasGrant
  <1> QED
    BY <1>1, <1>2, <1>3 DEF HasGrant

\* The token endpoint answers r; a rotating answer replaces the old token.
LEMMA GrantRefreshed ==
    ASSUME TypeOK, Numbered, GrantInv, NEW r \in Req, NEW rotates \in BOOLEAN,
           RefreshGranted(r, rotates)
    PROVE  GrantInv' /\ GrantsKept
  <1> DEFINE x == req[r].rt
             n == issued + 1
             q == [req[r] EXCEPT !.pc = "granted", !.newAt = issued',
                                 !.newRt = IF rotates THEN issued' ELSE req[r].rt]
  <1>0. /\ Shape /\ WellFormed /\ req[r] \in Requests /\ issued \in Nat
        /\ x \in honoured /\ issued' = n /\ n \in Tok /\ n # NoTok
        /\ honoured' = IF rotates THEN (honoured \ {x}) \cup {n} ELSE honoured
        /\ At(r, "refreshing") /\ UNCHANGED row /\ x # NoTok /\ x \in Tok
    BY TokFacts, SessionAssumption DEF RefreshGranted, Grant, TypeOK, Shape
  <1>1. /\ q \in Requests /\ q.pc = "granted" /\ q.rt = x /\ q.sid = req[r].sid
        /\ q.newRt = IF rotates THEN n ELSE x
    BY <1>0, TokFacts DEF Requests, PCs
  <1>2. Becomes(r, q)
    BY DEF RefreshGranted
  <1> HIDE DEF q
  <1>3. req'[r] = q /\ \A y \in Req : y # r => req'[y] = req[y]
    BY <1>0, <1>1, <1>2, BecomesType
  <1>4. \A y \in Req : req'[y].rt = req[y].rt /\ req'[y].sid = req[y].sid
    BY <1>1, <1>3
  <1>5. n # x /\ n \notin honoured /\ (\A s \in Sid : row[s].rt # n)
        /\ \A y \in Req : req[y].rt # n /\ req[y].newRt # n
    BY <1>0 DEF Numbered
  <1>6. /\ ~Carrying(r) /\ Carrying(r)' /\ (Fresh(r)' <=> rotates)
        /\ \A y \in Req : y # r => (Carrying(y)' <=> Carrying(y)) /\ (Fresh(y)' <=> Fresh(y))
    BY <1>0, <1>1, <1>3, <1>5 DEF Carrying, Fresh, At
  <1>7. Private'
    <2>1. ASSUME NEW y \in Req, y # r, Fresh(y)
          PROVE  req[y].newRt # n /\ req[y].newRt # x /\ req[y].newRt \in honoured'
      BY <1>0, <1>5, <2>1 DEF GrantInv, Private
    <2> QED
      BY <1>0, <1>1, <1>3, <1>4, <1>5, <1>6, <2>1 DEF GrantInv, Private
  <1>8. Unshared' /\ Stored'
    BY <1>0, <1>1, <1>3, <1>4 DEF GrantInv, Unshared, Stored, At
  <1>9. RowFirst'
    BY <1>0, <1>1, <1>3, <1>4 DEF GrantInv, RowFirst, At
  <1>10. GrantsKept
    <2>1. \A s \in Sid : req[r].sid = s => Carries(r, s)'
      BY <1>0, <1>1, <1>3 DEF Carries
    <2>2. \A s \in Sid : req[r].sid = s => HasGrant(s)'
      BY <2>1 DEF HasGrant
    <2>3. /\ \A t \in honoured : t # x => t \in honoured'
          /\ ~At(r, "revoking")
      BY <1>0 DEF At
    <2> QED
      BY <1>0, <1>3, <1>6, <2>2, <2>3, GrantWithdrawn
  <1> QED
    BY <1>7, <1>8, <1>9, <1>10 DEF GrantInv

\* The answer with the successor of r's token is lost: r ends the session.
LEMMA GrantLost ==
    ASSUME TypeOK, Numbered, GrantInv, NEW r \in Req, NEW rotates \in BOOLEAN,
           RefreshReplyLost(r, rotates)
    PROVE  GrantInv' /\ GrantsKept
  <1> DEFINE x == req[r].rt
             n == issued + 1
  <1>0. /\ Shape /\ WellFormed /\ req[r] \in Requests /\ issued \in Nat
        /\ x \in honoured /\ issued' = n /\ n \in Tok /\ n # NoTok
        /\ honoured' = IF rotates THEN (honoured \ {x}) \cup {n} ELSE honoured
        /\ At(r, "refreshing") /\ UNCHANGED row /\ x # NoTok /\ "lost" \in Faults
    BY TokFacts, SessionAssumption DEF RefreshReplyLost, Grant, TypeOK, Shape
  <1>1. /\ \A y \in Req : y # r => req'[y] = req[y]
        /\ \A y \in Req : req'[y].rt = req[y].rt /\ req'[y].sid = req[y].sid
        /\ At(r, "revoking")'
    BY <1>0, GotoType DEF RefreshReplyLost, PCs, At
  <1>2. /\ ~Carrying(r) /\ ~Carrying(r)'
        /\ \A y \in Req : y # r => (Carrying(y)' <=> Carrying(y)) /\ (Fresh(y)' <=> Fresh(y))
    BY <1>0, <1>1 DEF Carrying, Fresh, At
  <1>3. Private'
    BY <1>0, <1>1, <1>2 DEF GrantInv, Private, Fresh
  <1>4. Unshared' /\ Stored'
    BY <1>0, <1>1 DEF GrantInv, Unshared, Stored, At
  <1>5. RowFirst'
    BY <1>0, <1>1 DEF GrantInv, RowFirst, At
  <1>6. GrantsKept
    <2>1. \A s \in Sid : req[r].sid = s => HasGrant(s)'
      BY <1>0, <1>1 DEF HasGrant, Abandons
    <2>2. /\ \A t \in honoured : t # x => t \in honoured'
          /\ ~At(r, "revoking")
      BY <1>0 DEF At
    <2> QED
      BY <1>0, <1>1, <1>2, <2>1, <2>2, GrantWithdrawn
  <1> QED
    BY <1>3, <1>4, <1>5, <1>6 DEF GrantInv

\* logout revokes the token of a row that is already revoked.
LEMMA GrantLoggedOut ==
    ASSUME TypeOK, GrantInv, NEW r \in Req, NEW done \in BOOLEAN, LogoutUpstream(r, done)
    PROVE  GrantInv' /\ GrantsKept
  <1>0. /\ Shape /\ WellFormed /\ req[r].sid \in Sid /\ NoTok \notin honoured
        /\ At(r, "upstream") /\ UNCHANGED row /\ Reply(r)
        /\ \A t \in honoured : t # req[r].rt => t \in honoured'
        /\ ~Live(req[r].sid)
    BY TokFacts
       DEF LogoutUpstream, TypeOK, Shape, WellFormed, At, Live, GrantInv, RowFirst
  <1>1. /\ \A y \in Req : y # r => req'[y] = req[y]
        /\ req'[r].pc = "idle" /\ req'[r].rt = NoTok
    BY <1>0, ReplyType
  <1>2. /\ ~Carrying(r) /\ ~Carrying(r)'
        /\ \A y \in Req : y # r => (Carrying(y)' <=> Carrying(y)) /\ (Fresh(y)' <=> Fresh(y))
    BY <1>0, <1>1 DEF Carrying, Fresh, At
  <1>3. Private'
    <2>1. ASSUME NEW y \in Req, Fresh(y) PROVE req[y].newRt # NoTok /\ req[y].newRt # req[r].rt
      BY <1>0, <2>1 DEF GrantInv, Private
    <2> QED
      BY <1>0, <1>1, <1>2, <2>1 DEF GrantInv, Private, Fresh
  <1>4. Unshared' /\ Stored'
    BY <1>0, <1>1 DEF GrantInv, Unshared, Stored, At
  <1>5. RowFirst'
    BY <1>0, <1>1 DEF GrantInv, RowFirst, At
  <1>6. GrantsKept
    <2>1. CASE req[r].rt # NoTok
      BY <1>0, <1>1, <1>2, <2>1, GrantWithdrawn DEF At
    <2>2. CASE req[r].rt = NoTok
      <3> SUFFICES ASSUME NEW s \in Sid, HasGrant(s) PROVE HasGrant(s)'
        BY DEF GrantsKept
      <3>1. \A t \in honoured : t \in honoured'
        BY <1>0, <2>2
      <3>2. ASSUME NEW q \in Req, Carries(q, s) \/ Abandons(q, s)
            PROVE  (Carries(q, s) \/ Abandons(q, s))'
        <4>1. q # r /\ req'[q] = req[q]
          BY <1>0, <1>1, <3>2 DEF Carries, Abandons, At
        <4> QED
          BY <3>1, <3>2, <4>1 DEF Carries, Abandons, At
      <3> QED
        BY <1>0, <3>1, <3>2 DEF HasGrant
    <2> QED
      BY <2>1, <2>2
  <1> QED
    BY <1>3, <1>4, <1>5, <1>6 DEF GrantInv

\* rotate moves the token r carries into the row, or keeps the stored one.
LEMMA GrantCommitted ==
    ASSUME TypeOK, GrantInv, NEW r \in Req, RotateCommit(r)
    PROVE  GrantInv' /\ GrantsKept
  <1> DEFINE s == req[r].sid
             new == Rotated(row[s], req[r])
             q == [req[r] EXCEPT !.pc = "admitted", !.at = new.at, !.rt = new.rt,
                                 !.newAt = NoTok, !.newRt = NoTok]
  <1>0. /\ Shape /\ WellFormed /\ req[r] \in Requests /\ s \in Sid /\ row[s] \in Rows
        /\ At(r, "rotating") /\ UNCHANGED honoured /\ NoTok \notin honoured
    BY TokFacts DEF RotateCommit, TypeOK, Shape, WellFormed, At
  <1>1. /\ new \in Rows /\ new.state = row[s].state /\ new.expired = row[s].expired
        /\ new.rt = IF req[r].newRt # NoTok THEN req[r].newRt ELSE row[s].rt
    BY <1>0, RotatedType
  <1>2. q \in Requests /\ q.pc = "admitted" /\ q.rt = new.rt /\ q.sid = s
    BY <1>0, <1>1, TokFacts DEF Requests, Rows, PCs
  <1>3. row' = [row EXCEPT ![s] = new] /\ (Becomes(r, q) \/ Reply(r))
    BY DEF RotateCommit
  <1>4. /\ \A y \in Req : y # r => req'[y] = req[y]
        /\ req'[r].pc \in {"idle", "admitted"}
        /\ \/ req'[r].rt = NoTok
           \/ req'[r].rt = new.rt /\ req'[r].sid = s /\ req'[r].pc = "admitted"
    BY <1>0, <1>2, <1>3, BecomesType, ReplyType
  <1> HIDE DEF q, new
  <1>5. /\ row'[s] = new /\ \A t \in Sid : t # s => row'[t] = row[t]
        /\ \A t \in Sid : Live(t)' <=> Live(t)
        /\ \A t \in Sid : row'[t].state = row[t].state
    BY <1>0, <1>1, <1>3 DEF Shape, Live
  <1>6. /\ Carrying(r) /\ ~Carrying(r)'
        /\ \A y \in Req : y # r => (Carrying(y)' <=> Carrying(y)) /\ (Fresh(y)' <=> Fresh(y))
    BY <1>0, <1>4 DEF Carrying, Fresh, At
  <1>7. /\ \A t \in Sid : t # s /\ new.rt # NoTok => row[t].rt # new.rt
        /\ \A y \in Req : y # r /\ Fresh(y) => req[y].newRt # new.rt
        /\ \A y \in Req : req[y].sid # s /\ new.rt # NoTok => req[y].rt # new.rt
    <2>1. CASE Fresh(r) /\ req[r].newRt # NoTok
      <3>1. new.rt = req[r].newRt
        BY <1>1, <2>1
      <3> QED
        BY <1>6, <2>1, <3>1 DEF GrantInv, Private
    <2>2. CASE ~Fresh(r) /\ req[r].newRt # NoTok
      <3>1. new.rt = req[r].rt
        BY <1>1, <1>6, <2>2 DEF Fresh
      <3> QED
        BY <1>0, <3>1 DEF GrantInv, Private, Unshared
    <2>3. CASE req[r].newRt = NoTok
      <3>1. new.rt = row[s].rt
        BY <1>1, <2>3
      <3> QED
        BY <1>0, <3>1 DEF GrantInv, Private, Unshared
    <2> QED
      BY <2>1, <2>2, <2>3
  <1>8. Private'
    <2>1. ASSUME NEW y \in Req, Fresh(y) PROVE req[y].newRt # NoTok
      BY <1>0, <2>1 DEF GrantInv, Private
    <2> QED
      BY <1>0, <1>4, <1>5, <1>6, <1>7, <2>1 DEF GrantInv, Private, Fresh
  <1>9. Unshared'
    BY <1>0, <1>4, <1>5, <1>7 DEF GrantInv, Unshared
  <1>10. Stored'
    <2>1. row[s].rt # NoTok => new.rt # NoTok
      BY <1>1
    <2> QED
      BY <1>0, <1>4, <1>5, <2>1 DEF GrantInv, Stored, At
  <1>11. RowFirst'
    BY <1>0, <1>4, <1>5 DEF GrantInv, RowFirst, At, WellFormed
  <1>12. GrantsKept
    <2> SUFFICES ASSUME NEW t \in Sid, HasGrant(t), ~HasGrant(t)'
                 PROVE  WritesBack(r, t)
      BY DEF GrantsKept
    <2>1. ~\E y \in Req : y # r /\ (Carries(y, t) \/ Abandons(y, t))
      <3> SUFFICES ASSUME NEW y \in Req, y # r, Carries(y, t) \/ Abandons(y, t) PROVE FALSE
        OBVIOUS
      <3>1. (Carries(y, t) \/ Abandons(y, t))'
        BY <1>0, <1>4 DEF Carries, Abandons, At
      <3> QED
        BY <3>1 DEF HasGrant
    <2>2. ~Abandons(r, t)
      BY <1>0 DEF Abandons, At
    <2>3. row'[t].rt # NoTok /\ row'[t].rt \notin honoured
      BY <1>0 DEF HasGrant
    <2>4. t = s
      <3> SUFFICES ASSUME t # s PROVE FALSE
        OBVIOUS
      <3>1. row'[t] = row[t] /\ ~Carries(r, t)
        BY <1>5 DEF Carries
      <3> QED
        BY <2>1, <2>2, <2>3, <3>1 DEF HasGrant
    <2>5. ~Carries(r, t)
      <3> SUFFICES ASSUME Carries(r, t) PROVE FALSE
        OBVIOUS
      <3>1. req[r].newRt \in honoured
        BY DEF Carries
      <3> QED
        BY <1>0, <1>1, <1>5, <2>3, <2>4, <3>1
    <2>6. row[t].rt = NoTok \/ row[t].rt \in honoured
      BY <2>1, <2>2, <2>5 DEF HasGrant
    <2>7. req[r].newRt # NoTok /\ row'[t].rt = req[r].newRt
      BY <1>0, <1>1, <1>5, <2>3, <2>4, <2>6
    <2>8. ~Fresh(r)
      BY <2>3, <2>7 DEF GrantInv, Private
    <2>9. req[r].newRt = req[r].rt
      BY <1>6, <2>8 DEF Fresh
    <2>10. row[t].rt # NoTok
      BY <2>4, <2>7, <2>9 DEF GrantInv, Stored
    <2> QED
      BY <1>0, <2>3, <2>4, <2>6, <2>7, <2>9, <2>10 DEF WritesBack
  <1> QED
    BY <1>8, <1>9, <1>10, <1>11, <1>12 DEF GrantInv

LEMMA GrantServe ==
    ASSUME TypeOK, Numbered, GrantInv, NEW r \in Req, Serve(r)
    PROVE  GrantInv' /\ GrantsKept
  <1>0. /\ Shape /\ WellFormed
        /\ req[r] \in Requests
        /\ ~At(r, "idle") => req[r].sid \in Sid /\ row[req[r].sid] \in Rows
        /\ IdleReq.pc = "idle" /\ IdleReq.rt = NoTok /\ NoTok \notin honoured
    BY IdleType, TokFacts DEF TypeOK, Shape, WellFormed
  <1>1. CASE Touch(r)
    <2>1. /\ AfterTouch(r) \in PCs
          /\ AfterTouch(r) \notin {"granted", "rotating", "upstream", "idle"}
          /\ AfterTouch(r) = "revoking" => req[r].rt = NoTok
      BY DEF AfterTouch, PCs
    <2>2. At(r, "found") /\ UNCHANGED <<row, honoured, issued>> /\ Goto(r, AfterTouch(r))
      BY <1>1 DEF Touch
    <2> QED
      BY <1>0, <2>1, <2>2, GotoType, QuietStep DEF At, Carrying, Live
  <1>2. ASSUME NEW rotates \in BOOLEAN, RefreshGranted(r, rotates) PROVE GrantInv' /\ GrantsKept
    BY <1>2, GrantRefreshed
  <1>3. CASE RefreshRefused(r)
    BY <1>0, <1>3, GotoType, QuietStep DEF RefreshRefused, At, Carrying, Live, PCs
  <1>4. CASE RotateLock(r)
    <2> DEFINE p == IF Live(req[r].sid) THEN "rotating" ELSE "revoking"
    <2>1. /\ p \in PCs /\ p \in {"rotating", "revoking"}
          /\ p = "revoking" => ~Live(req[r].sid)
      BY DEF PCs
    <2>2. At(r, "granted") /\ UNCHANGED <<row, honoured, issued>> /\ Goto(r, p)
      BY <1>4 DEF RotateLock
    <2> HIDE DEF p
    <2> QED
      BY <1>0, <2>1, <2>2, GotoType, QuietStep DEF At, Carrying, Live
  <1>5. CASE RotateCommit(r)
    BY <1>5, GrantCommitted
  <1>6. CASE Revoke(r)
    <2>1. /\ \A s \in Sid : row'[s].rt = row[s].rt /\ (Live(s)' => Live(s))
          /\ \A s \in Sid : row[s].state = "revoked" => row'[s].state = "revoked"
          /\ \A s \in Sid : req[r].sid = s => ~Live(s)'
      BY <1>0, <1>6 DEF Revoke, Shape, Rows, Live, At
    <2> QED
      BY <1>0, <1>6, <2>1, ReplyType, QuietStep DEF Revoke, At, Carrying
  <1>7. CASE ServeRead(r) \/ ServeWrite(r)
    BY <1>0, <1>7, ReplyType, QuietStep DEF ServeRead, ServeWrite, At, Carrying, Live
  <1>8. ASSUME NEW headerOk \in BOOLEAN, CheckCsrf(r, headerOk) PROVE GrantInv' /\ GrantsKept
    BY <1>0, <1>8, GotoType, ReplyType, QuietStep DEF CheckCsrf, At, Carrying, Live, PCs
  <1>9. CASE ServeRefresh(r)
    <2> DEFINE q == [req[r] EXCEPT !.pc = "refreshing", !.stage = "handler"]
    <2>1. q.pc = "refreshing" /\ q.rt = req[r].rt /\ q.sid = req[r].sid /\ q \in Requests
      BY <1>0 DEF Requests, PCs
    <2>2. /\ At(r, "serving") /\ UNCHANGED <<row, honoured, issued>>
          /\ Becomes(r, q) \/ Reply(r)
      BY <1>9 DEF ServeRefresh
    <2> HIDE DEF q
    <2> QED
      BY <1>0, <2>1, <2>2, BecomesType, ReplyType, QuietStep DEF At, Carrying, Live
  <1>10. CASE LogoutRevoke(r)
    <2>1. /\ \A s \in Sid : row'[s].rt = row[s].rt /\ (Live(s)' => Live(s))
          /\ \A s \in Sid : row[s].state = "revoked" => row'[s].state = "revoked"
          /\ row'[req[r].sid].state = "revoked"
      BY <1>0, <1>10 DEF LogoutRevoke, Shape, Rows, Live, At
    <2> QED
      BY <1>0, <1>10, <2>1, GotoType, QuietStep DEF LogoutRevoke, At, Carrying, PCs
  <1>11. ASSUME NEW done \in BOOLEAN, LogoutUpstream(r, done) PROVE GrantInv' /\ GrantsKept
    BY <1>11, GrantLoggedOut
  <1>12. ASSUME NEW u \in Subject, CloseSnapshot(r, u) PROVE GrantInv' /\ GrantsKept
    <2> DEFINE q == [req[r] EXCEPT !.pc = "closing",
                  !.scope = {s \in Sid : row[s].state = "open" /\ row[s].subject = u}]
    <2>1. q.pc = "closing" /\ q.rt = req[r].rt /\ q.sid = req[r].sid /\ q \in Requests
      BY <1>0 DEF Requests, PCs
    <2>2. Becomes(r, q) /\ At(r, "serving") /\ UNCHANGED <<row, honoured, issued>>
      BY <1>12 DEF CloseSnapshot
    <2> HIDE DEF q
    <2> QED
      BY <1>0, <2>1, <2>2, BecomesType, QuietStep DEF At, Carrying, Live
  <1>13. CASE CloseCommit(r)
    <2>1. /\ \A s \in Sid : row'[s].rt = row[s].rt /\ (Live(s)' => Live(s))
          /\ \A s \in Sid : row[s].state = "revoked" => row'[s].state = "revoked"
      BY <1>0, <1>13 DEF CloseCommit, Shape, Rows, Live
    <2> QED
      BY <1>0, <1>13, <2>1, ReplyType, QuietStep DEF CloseCommit, At, Carrying
  <1>14. ASSUME NEW s \in Sid, CloseLock(r, s) PROVE GrantInv' /\ GrantsKept
    BY <1>0, <1>14, CloseLockType, QuietStep DEF CloseLock, At, Carrying, Live
  <1>15. CASE DeadlockBroken(r)
    BY <1>0, <1>15, ReplyType, QuietStep DEF DeadlockBroken, At, Carrying, Live
  <1> QED
    BY <1>1, <1>2, <1>3, <1>4, <1>5, <1>6, <1>7, <1>8, <1>9, <1>10, <1>11, <1>12,
       <1>13, <1>14, <1>15 DEF Serve

\* A login brings tokens nobody knows, a lookup copies those of its own row.
LEMMA GrantEnvironment ==
    ASSUME TypeOK, Numbered, GrantInv, Clients \/ Time PROVE GrantInv' /\ GrantsKept
  <1>0. /\ Shape /\ WellFormed /\ issued \in Nat /\ NoTok \notin honoured
        /\ IdleReq.newRt = NoTok /\ IdleReq.pc = "idle"
    BY IdleType, TokFacts, SessionAssumption DEF TypeOK, Shape
  <1>1. ASSUME NEW s \in Sid, NEW u \in Subject, NEW hasRt \in BOOLEAN, Login(s, u, hasRt)
        PROVE  GrantInv' /\ GrantsKept
    <2> DEFINE n == issued + 1
    <2>1. /\ UNCHANGED req /\ row[s].state = "absent"
          /\ honoured \subseteq honoured'
          /\ row'[s].rt = IF hasRt THEN n ELSE NoTok
          /\ \A t \in Sid : t # s => row'[t] = row[t]
      BY <1>0, <1>1 DEF Login, Shape
    <2>2. \A r \in Req : req[r].pc # "idle" => req[r].sid # s
      BY <1>0, <2>1 DEF WellFormed, Exists, At
    <2>3. \A r \in Req : (Carrying(r)' <=> Carrying(r)) /\ (Fresh(r)' <=> Fresh(r))
      BY <2>1 DEF Carrying, Fresh
    <2>4. \A r \in Req : req[r].rt # n /\ req[r].newRt # n
      BY <1>0 DEF Numbered
    <2>5. \A t \in Sid : row[t].rt # n
      BY <1>0 DEF Numbered
    <2>6. Private'
      <3>1. ASSUME NEW r \in Req, Fresh(r) PROVE row'[s].rt # req[r].newRt
        BY <1>0, <2>1, <2>4, <3>1 DEF GrantInv, Private
      <3> QED
        BY <2>1, <2>3, <3>1 DEF GrantInv, Private
    <2>7. Unshared'
      BY <2>1, <2>4, <2>5 DEF GrantInv, Unshared
    <2>8. Stored'
      BY <2>1, <2>2 DEF GrantInv, Stored, At
    <2>9. RowFirst'
      BY <1>0, <2>1, <2>2 DEF GrantInv, RowFirst, At, WellFormed
    <2>10. GrantsKept
      <3> SUFFICES ASSUME NEW t \in Sid, Live(t), HasGrant(t) PROVE HasGrant(t)'
        BY DEF GrantsKept
      <3>1. row'[t] = row[t]
        BY <2>1 DEF Live
      <3> QED
        BY <2>1, <3>1 DEF HasGrant, Carries, Abandons, At
    <2> QED
      BY <2>6, <2>7, <2>8, <2>9, <2>10 DEF GrantInv
  <1>2. ASSUME NEW r \in Req, NEW s \in Sid, NEW k \in Kinds, Lookup(r, s, k)
        PROVE  GrantInv' /\ GrantsKept
    <2> DEFINE q == [IdleReq EXCEPT !.pc = "found", !.kind = k, !.sid = s,
                                    !.at = row[s].at, !.rt = row[s].rt]
    <2>1. q \in Requests /\ q.pc = "found" /\ q.rt = row[s].rt /\ q.sid = s
      BY <1>0, IdleType DEF Requests, PCs, Shape, Rows
    <2>2. Becomes(r, q) /\ At(r, "idle") /\ UNCHANGED <<row, honoured>>
      BY <1>2 DEF Lookup
    <2> HIDE DEF q
    <2>3. req'[r] = q /\ \A x \in Req : x # r => req'[x] = req[x]
      BY <1>0, <2>1, <2>2, BecomesType
    <2>4. /\ ~Carrying(r) /\ ~Carrying(r)'
          /\ \A x \in Req : x # r => (Carrying(x)' <=> Carrying(x)) /\ (Fresh(x)' <=> Fresh(x))
      BY <2>1, <2>2, <2>3 DEF Carrying, Fresh, At
    <2>5. Private'
      BY <2>1, <2>2, <2>3, <2>4 DEF GrantInv, Private, Fresh
    <2>6. Unshared'
      BY <2>1, <2>2, <2>3 DEF GrantInv, Unshared
    <2>7. Stored' /\ RowFirst'
      BY <2>1, <2>2, <2>3 DEF GrantInv, Stored, RowFirst, At
    <2>8. GrantsKept
      <3> SUFFICES ASSUME NEW t \in Sid, HasGrant(t) PROVE HasGrant(t)'
        BY DEF GrantsKept
      <3>1. ASSUME NEW x \in Req, Carries(x, t) \/ Abandons(x, t)
            PROVE  (Carries(x, t) \/ Abandons(x, t))'
        <4>1. x # r /\ req'[x] = req[x]
          BY <2>2, <2>3, <3>1 DEF Carries, Abandons, At
        <4> QED
          BY <2>2, <3>1, <4>1 DEF Carries, Abandons, At
      <3> QED
        BY <2>2, <3>1 DEF HasGrant
    <2> QED
      BY <2>5, <2>6, <2>7, <2>8 DEF GrantInv
  <1>3. ASSUME UNCHANGED <<req, honoured>>,
               \A t \in Sid : row'[t].rt = row[t].rt /\ row'[t].state = row[t].state
        PROVE  GrantInv' /\ GrantsKept
    <2>1. \A r \in Req : (Carrying(r)' <=> Carrying(r)) /\ (Fresh(r)' <=> Fresh(r))
      BY <1>3 DEF Carrying, Fresh
    <2>2. Private'
      BY <1>3, <2>1 DEF GrantInv, Private, Carrying
    <2>3. Unshared' /\ Stored' /\ RowFirst'
      BY <1>0, <1>3 DEF GrantInv, Unshared, Stored, RowFirst, At, WellFormed
    <2>4. GrantsKept
      BY <1>3 DEF GrantsKept, HasGrant, Carries, Abandons, At
    <2> QED
      BY <2>2, <2>3, <2>4 DEF GrantInv
  <1>4. Time => /\ UNCHANGED <<req, honoured>>
                /\ \A t \in Sid : row'[t].rt = row[t].rt /\ row'[t].state = row[t].state
    BY <1>0 DEF Time, Expire, BecomeDue, Shape, Rows
  <1> QED
    BY <1>1, <1>2, <1>3, <1>4 DEF Clients

NetworkInv == Faults \subseteq {"outage", "lost"} => GrantInv

\* With faults of the network to the provider only, the invariant on refresh
\* tokens is inductive, and every step keeps the grants.
LEMMA GrantStep ==
    TypeOK /\ Numbered /\ NetworkInv /\ [Next]_vars =>
        NetworkInv' /\ [Faults \subseteq {"outage", "lost"} => GrantsKept]_vars
  <1> SUFFICES ASSUME TypeOK, Numbered, GrantInv, [Next]_vars, Faults \subseteq {"outage", "lost"}
               PROVE  GrantInv' /\ [GrantsKept]_vars
    BY DEF NetworkInv
  <1>1. CASE UNCHANGED vars
    <2>1. GrantInv'
      BY <1>1 DEF vars, GrantInv, Private, Unshared, Stored, RowFirst, Carrying, Fresh, At
    <2> QED
      BY <1>1, <2>1
  <1>2. ASSUME NEW r \in Req, RefreshUnreachable(r) PROVE GrantInv' /\ GrantsKept
    <2>1. /\ req[r] \in Requests /\ At(r, "refreshing") /\ Goto(r, "revoking")
          /\ UNCHANGED <<row, honoured, issued>>
      BY <1>2 DEF RefreshUnreachable, TypeOK, Shape
    <2> QED
      BY <2>1, GotoType, QuietStep DEF At, Carrying, Live, PCs, TypeOK
  <1>3. ASSUME NEW r \in Req, NEW rotates \in BOOLEAN, RefreshReplyLost(r, rotates)
        PROVE  GrantInv' /\ GrantsKept
    BY <1>3, GrantLost
  <1>4. Fault => \/ \E r \in Req : RefreshUnreachable(r)
                 \/ \E r \in Req, rotates \in BOOLEAN : RefreshReplyLost(r, rotates)
    BY DEF Fault, ProviderDrop, DbFault, CommitUnacknowledged, Crash
  <1> QED
    BY <1>1, <1>2, <1>3, <1>4, GrantServe, GrantEnvironment DEF Next

\* As long as the database works and the provider ends no grant by itself, the
\* only step that takes its grant from a session that stays live is a rotate
\* that writes the presented token back over the one another request stored.
THEOREM GrantsAreLostOnlyByWriteBack == Spec => GrantLostOnlyByWriteBack
  <1>1. Spec => []Numbered
    BY NumberedInit, TypeCorrect, NumberedStep, PTL DEF Spec
  <1>2. Init => NetworkInv
    BY GrantInit DEF NetworkInv
  <1>3. Spec => []NetworkInv
    BY <1>1, <1>2, TypeCorrect, GrantStep, PTL DEF Spec
  <1>4. TypeOK /\ Numbered /\ NetworkInv /\ [Next]_vars =>
          [Faults \subseteq {"outage", "lost"} =>
             \A s \in Sid : Live(s) /\ HasGrant(s) /\ Live(s)' /\ ~HasGrant(s)' =>
                 \E r \in Req : WritesBack(r, s)]_vars
    BY GrantStep DEF GrantsKept
  <1> QED
    BY <1>1, <1>3, <1>4, TypeCorrect, PTL DEF Spec, GrantLostOnlyByWriteBack

-----------------------------------------------------------------------------
(* Who is about to revoke has a refresh token the provider will never accept *)
(* again, or a session that is over: a token that is not accepted stays so,  *)
(* because every token the provider adds is new.                             *)

FailedForGood ==
    \A r \in Req : At(r, "revoking") =>
        req[r].rt \notin honoured \/ ~Live(req[r].sid)

\* A request that the server turns to revoking can never refresh its session.
LEMMA TurnsToRevoking ==
    ASSUME TypeOK, NEW r \in Req, Serve(r), At(r, "revoking")'
    PROVE  /\ req'[r].rt = req[r].rt /\ req'[r].sid = req[r].sid
           /\ ~At(r, "idle")
           /\ req[r].rt \notin honoured \/ ~Live(req[r].sid)
  <1>0. Shape /\ NoTok \notin honoured /\ req'[r].pc = "revoking"
    BY TokFacts DEF TypeOK, Shape, At
  <1>1. CASE Touch(r)
    <2>1. /\ AfterTouch(r) \in PCs
          /\ AfterTouch(r) = "revoking" => req[r].rt = NoTok
      BY DEF AfterTouch, PCs
    <2> QED
      BY <1>0, <1>1, <2>1, GotoType DEF Touch, At
  <1>2. CASE RefreshRefused(r)
    BY <1>0, <1>2, GotoType DEF RefreshRefused, PCs, At
  <1>3. CASE RotateLock(r)
    <2> DEFINE p == IF Live(req[r].sid) THEN "rotating" ELSE "revoking"
    <2>1. p \in PCs /\ Goto(r, p) /\ At(r, "granted") /\ (p = "revoking" => ~Live(req[r].sid))
      BY <1>3 DEF RotateLock, PCs
    <2> HIDE DEF p
    <2> QED
      BY <1>0, <2>1, GotoType DEF At
  <1> QED
    BY <1>1, <1>2, <1>3, Turns

EndpointInv == Faults \subseteq {"drop", "crash"} => FailedForGood

\* As long as the token endpoint answers and the database works, a request at
\* revoking stays one that could not refresh, or came too late to.
LEMMA EndpointStep == TypeOK /\ Numbered /\ EndpointInv /\ [Next]_vars => EndpointInv'
  <1> SUFFICES ASSUME TypeOK, Numbered, FailedForGood, [Next]_vars,
                      Faults \subseteq {"drop", "crash"},
                      NEW q \in Req, At(q, "revoking")'
               PROVE  (req[q].rt \notin honoured \/ ~Live(req[q].sid))'
    BY DEF EndpointInv, FailedForGood
  <1>1. CASE UNCHANGED vars
    BY <1>1 DEF vars, FailedForGood, At, Live
  <1>2. CASE Next
    <2> DEFINE Goal == /\ req'[q].rt = req[q].rt /\ req'[q].sid = req[q].sid
                       /\ ~At(q, "idle")
                       /\ req[q].rt \notin honoured \/ ~Live(req[q].sid)
    <2>1. ASSUME req'[q] = req[q] PROVE Goal
      BY <2>1 DEF FailedForGood, At
    <2>2. ASSUME NEW r \in Req, Serve(r) PROVE Goal
      <3>1. CASE q = r
        BY <2>2, <3>1, TurnsToRevoking
      <3>2. CASE q # r
        BY <2>1, <2>2, <3>2, OneServed
      <3> QED
        BY <3>1, <3>2
    <2>3. ASSUME Clients \/ Time PROVE Goal
      <3>1. ASSUME NEW r \in Req, NEW s \in Sid, NEW k \in Kinds, Lookup(r, s, k) PROVE Goal
        <4> DEFINE x == [IdleReq EXCEPT !.pc = "found", !.kind = k, !.sid = s,
                                        !.at = row[s].at, !.rt = row[s].rt]
        <4>1. x \in Requests /\ x.pc = "found" /\ Becomes(r, x)
          BY <3>1, IdleType DEF Lookup, Requests, PCs, TypeOK, Shape, Rows
        <4> HIDE DEF x
        <4>2. q # r
          BY <4>1, BecomesType DEF At, TypeOK
        <4> QED
          BY <2>1, <4>1, <4>2, BecomesType DEF TypeOK
      <3>2. ASSUME ~\E r \in Req, s \in Sid, k \in Kinds : Lookup(r, s, k) PROVE Goal
        BY <2>1, <2>3, <3>2 DEF Clients, Time, Login, Expire, BecomeDue
      <3> QED
        BY <3>1, <3>2
    <2>4. ASSUME Fault PROVE Goal
      <3>1. Crash \/ \E t \in Tok : ProviderDrop(t)
        BY <2>4 DEF Fault, RefreshUnreachable, RefreshReplyLost, DbFault, CommitUnacknowledged
      <3>2. ~Crash
        BY IdleType DEF Crash, At
      <3> QED
        BY <2>1, <3>1, <3>2 DEF ProviderDrop
    <2>5. Goal
      BY <1>2, <2>2, <2>3, <2>4 DEF Next
    <2>6. Spread /\ Ending
      BY <1>2, SpreadServe, SpreadEnvironment DEF Next
    <2>7. req[q].sid \in Sid /\ Exists(req[q].sid)
      BY <2>5 DEF TypeOK, WellFormed
    <2>8. req[q].rt \notin honoured => req[q].rt \notin honoured'
      <3>1. req[q].rt \in 0..issued /\ issued \in Nat
        BY SessionAssumption DEF Numbered, TypeOK, Shape
      <3>2. req[q].rt # issued + 1
        BY <3>1
      <3> QED
        BY <2>6, <3>2 DEF Spread
    <2>9. ~Live(req[q].sid) => ~Live(req[q].sid)'
      BY <2>5, <2>6, <2>7 DEF Ending, Live
    <2> QED
      BY <2>5, <2>8, <2>9 DEF Live
  <1> QED
    BY <1>1, <1>2

\* As long as the token endpoint answers and the database works, a failed
\* refresh ends a live session only when it was unable to refresh or another
\* request had refreshed it meanwhile.
THEOREM EndsForAReason == Spec => EndsOnlyDeadOrSuperseded
  <1>2. Spec => []Numbered
    BY NumberedInit, TypeCorrect, NumberedStep, PTL DEF Spec
  <1>3. Init => EndpointInv
    BY IdleType DEF Init, EndpointInv, FailedForGood, At
  <1>4. Spec => []EndpointInv
    BY <1>2, <1>3, TypeCorrect, EndpointStep, PTL DEF Spec
  <1>5. EndpointInv /\ [Next]_vars =>
          [Faults \subseteq {"drop", "crash"} =>
             \A r \in Req, s \in Sid : EndsByFailedRefresh(r, s) =>
               \/ row[s].rt \notin honoured
               \/ row[s].rt # req[r].rt]_vars
    BY DEF EndsByFailedRefresh, EndpointInv, FailedForGood
  <1> QED
    BY <1>4, <1>5, PTL DEF Spec, EndsOnlyDeadOrSuperseded

-----------------------------------------------------------------------------
(* BffSession implements SessionContract: every step of a request, a       *)
(* client, time or a fault is a step of the contract or leaves it alone.   *)

\* Request r holds a grant that is not stored yet.
Holding(r) == req[r].pc \in {"granted", "rotating"}

\* Two requests never hold the same grant: storing one takes away no other.
HeldInv ==
    \A r \in Req : Holding(r) =>
        /\ req[r].newAt \in 1..issued
        /\ \A q \in Req : q # r /\ Holding(q) => req[q].newAt # req[r].newAt

LEMMA HeldInit == Init => HeldInv
  BY IdleType DEF Init, HeldInv, Holding

\* How the variables of the contract depend on those of the store.
LEMMA MapStutters ==
    ASSUME \A s \in Sid : row'[s].state = row[s].state /\ row'[s].at = row[s].at,
           issued' = issued, Held' = Held
    PROVE  UNCHANGED Contract!cvars
  BY DEF Contract!cvars, StatusOf

\* What a step does to the grants that wait, when it moves only request r.
LEMMA HeldKept ==
    ASSUME NEW r \in Req,
           \A x \in Req : x # r => req'[x] = req[x],
           Holding(r)' <=> Holding(r),
           Holding(r) => req'[r].sid = req[r].sid /\ req'[r].newAt = req[r].newAt
    PROVE  Held' = Held
  <1>1. \A x \in Req : /\ Holding(x)' <=> Holding(x)
                       /\ Holding(x) => req'[x].sid = req[x].sid /\ req'[x].newAt = req[x].newAt
    BY DEF Holding
  <1>2. Held = {<<req[x].sid, req[x].newAt>> : x \in {y \in Req : Holding(y)}}
    BY DEF Held, Holding
  <1>3. Held' = {<<req'[x].sid, req'[x].newAt>> : x \in {y \in Req : Holding(y)'}}
    BY DEF Held, Holding
  <1> QED
    BY <1>1, <1>2, <1>3

LEMMA HeldDropped ==
    ASSUME \A x \in Req : Holding(x)' => Holding(x) /\ req'[x].sid = req[x].sid
                                                    /\ req'[x].newAt = req[x].newAt,
           \A s \in Sid : row'[s].state = row[s].state /\ row'[s].at = row[s].at,
           issued' = issued
    PROVE  Contract!CNext
  <1>1. Held' \subseteq Held
    BY DEF Held, Holding
  <1>2. Held' = Held \ (Held \ Held')
    BY <1>1
  <1>3. Contract!Discard(Held \ Held')
    BY <1>2 DEF Contract!Discard, StatusOf
  <1>4. (Held \ Held') \in SUBSET Held
    OBVIOUS
  <1> QED
    BY <1>3, <1>4 DEF Contract!CNext

\* A step that neither takes nor stores a grant and changes no row is a stutter
\* of the contract, or discards the grant r was holding.
LEMMA RowsKept ==
    ASSUME NEW r \in Req, HeldInv,
           \A x \in Req : x # r => req'[x] = req[x],
           Holding(r)' => Holding(r) /\ req'[r].sid = req[r].sid
                                    /\ req'[r].newAt = req[r].newAt,
           \A s \in Sid : row'[s].state = row[s].state /\ row'[s].at = row[s].at,
           issued' = issued
    PROVE  Contract!CNext /\ HeldInv'
  <1>1. \A x \in Req : Holding(x)' => Holding(x) /\ req'[x].sid = req[x].sid
                                                 /\ req'[x].newAt = req[x].newAt
    BY DEF Holding
  <1>2. HeldInv'
    BY <1>1 DEF HeldInv
  <1> QED
    BY <1>1, <1>2, HeldDropped

\* A step that revokes the rows of S and moves request r, which holds nothing.
LEMMA RowsEnded ==
    ASSUME NEW r \in Req, HeldInv, NEW S \in SUBSET Sid,
           \A x \in Req : x # r => req'[x] = req[x],
           ~Holding(r), ~Holding(r)',
           \A s \in S : Exists(s),
           \A s \in Sid : /\ row'[s].state = IF s \in S THEN "revoked" ELSE row[s].state
                          /\ row'[s].at = row[s].at,
           issued' = issued
    PROVE  Contract!CNext /\ HeldInv'
  <1>1. Held' = Held
    BY HeldKept
  <1>2. Contract!End(S)
    BY <1>1 DEF Contract!End, StatusOf, Exists
  <1>3. HeldInv'
    <2>1. \A x \in Req : /\ Holding(x)' <=> Holding(x)
                         /\ Holding(x) => req'[x].newAt = req[x].newAt
      BY DEF Holding
    <2> QED
      BY <2>1 DEF HeldInv
  <1> QED
    BY <1>2, <1>3 DEF Contract!CNext

\* The answer of the token endpoint: a grant is obtained, or lost on the way.
LEMMA GrantObtained ==
    ASSUME TypeOK, HeldInv, NEW r \in Req, NEW rotates \in BOOLEAN,
           RefreshGranted(r, rotates) \/ RefreshReplyLost(r, rotates)
    PROVE  Contract!CNext /\ HeldInv'
  <1> DEFINE n == issued + 1
             q == [req[r] EXCEPT !.pc = "granted", !.newAt = issued',
                                 !.newRt = IF rotates THEN issued' ELSE req[r].rt]
  <1>0. /\ Shape /\ WellFormed /\ issued \in Nat /\ issued' = n /\ n \in 1..MaxTok
        /\ At(r, "refreshing") /\ UNCHANGED row /\ req[r].sid \in Sid
        /\ Exists(req[r].sid) /\ ~Holding(r) /\ req[r] \in Requests
    BY TokFacts, SessionAssumption
       DEF RefreshGranted, RefreshReplyLost, Grant, TypeOK, Shape, WellFormed, At, Holding, Tok
  <1>1. n \notin 1..issued /\ 1..issued' = (1..issued) \cup {n}
    BY <1>0
  <1>2. CASE RefreshReplyLost(r, rotates)
    <2>1. /\ ~Holding(r)' /\ \A x \in Req : x # r => req'[x] = req[x]
      BY <1>0, <1>2, GotoType DEF RefreshReplyLost, Holding, PCs
    <2>2. Held' = Held
      BY <1>0, <2>1, HeldKept
    <2>3. Contract!Obtain(req[r].sid, n, FALSE)
      BY <1>0, <1>1, <2>2 DEF Contract!Obtain, StatusOf, Exists
    <2>4. HeldInv'
      BY <1>0, <2>1 DEF HeldInv, Holding
    <2> QED
      BY <1>0, <2>3, <2>4 DEF Contract!CNext, Contract!Grants
  <1>3. CASE RefreshGranted(r, rotates)
    <2>1. q \in Requests /\ q.pc = "granted" /\ q.sid = req[r].sid /\ q.newAt = n
      BY <1>0, TokFacts DEF Requests, PCs, Tok
    <2>2. Becomes(r, q)
      BY <1>3 DEF RefreshGranted
    <2> HIDE DEF q
    <2>3. req'[r] = q /\ \A x \in Req : x # r => req'[x] = req[x]
      BY <1>0, <2>1, <2>2, BecomesType
    <2>4. Holding(r)' /\ \A x \in Req : x # r => (Holding(x)' <=> Holding(x))
      BY <2>1, <2>3 DEF Holding
    <2>5. Held' = Held \cup {<<req[r].sid, n>>}
      <3>1. Held = {<<req[x].sid, req[x].newAt>> : x \in {y \in Req : Holding(y)}}
        BY DEF Held, Holding
      <3>2. Held' = {<<req'[x].sid, req'[x].newAt>> : x \in {y \in Req : Holding(y)'}}
        BY DEF Held, Holding
      <3> QED
        BY <1>0, <2>1, <2>3, <2>4, <3>1, <3>2
    <2>6. Contract!Obtain(req[r].sid, n, TRUE)
      BY <1>0, <1>1, <2>5 DEF Contract!Obtain, StatusOf, Exists
    <2>7. HeldInv'
      BY <1>0, <1>1, <2>1, <2>3, <2>4 DEF HeldInv
    <2> QED
      BY <1>0, <2>6, <2>7 DEF Contract!CNext, Contract!Grants
  <1> QED
    BY <1>2, <1>3

\* rotate's commit stores the grant r holds, in the session it was obtained for.
LEMMA GrantStored ==
    ASSUME TypeOK, LockInv, HeldInv, NEW r \in Req,
           RotateCommit(r) \/ CommitUnacknowledged(r)
    PROVE  Contract!CNext /\ HeldInv'
  <1> DEFINE s == req[r].sid
             g == req[r].newAt
             new == Rotated(row[s], req[r])
             q == [req[r] EXCEPT !.pc = "admitted", !.at = new.at, !.rt = new.rt,
                                 !.newAt = NoTok, !.newRt = NoTok]
  <1>0. /\ Shape /\ s \in Sid /\ row[s] \in Rows /\ req[r] \in Requests
        /\ row[s].state = "open" /\ Holding(r) /\ g \in 1..issued /\ issued \in 0..MaxTok
        /\ UNCHANGED issued
    BY DEF RotateCommit, CommitUnacknowledged, TypeOK, Shape, WellFormed, At, LockInv,
           Guarded, Holding, HeldInv
  <1>1. new \in Rows /\ new.state = "open" /\ new.at = g
    BY <1>0, RotatedType
  <1>2. q \in Requests /\ q.pc = "admitted"
    BY <1>0, <1>1, TokFacts DEF Requests, Rows, PCs
  <1>3. /\ row' = [row EXCEPT ![s] = new]
        /\ Becomes(r, q) \/ Reply(r)
    BY <1>0 DEF RotateCommit, CommitUnacknowledged, Shape
  <1> HIDE DEF new, q
  <1>4. ~Holding(r)' /\ \A x \in Req : x # r => req'[x] = req[x]
    BY <1>0, <1>2, <1>3, BecomesType, ReplyType DEF Holding
  <1>5. \A x \in Req : x # r => /\ Holding(x)' <=> Holding(x)
                                /\ Holding(x) => req[x].newAt # g
    BY <1>0, <1>4 DEF Holding, HeldInv
  <1>6. Held' = Held \ {<<s, g>>} /\ <<s, g>> \in Held
    <2>1. Held = {<<req[x].sid, req[x].newAt>> : x \in {y \in Req : Holding(y)}}
      BY DEF Held, Holding
    <2>2. Held' = {<<req'[x].sid, req'[x].newAt>> : x \in {y \in Req : Holding(y)'}}
      BY DEF Held, Holding
    <2> QED
      BY <1>0, <1>4, <1>5, <2>1, <2>2
  <1>7. /\ row'[s].state = "open" /\ row'[s].at = g
        /\ \A t \in Sid : t # s => row'[t] = row[t]
    BY <1>0, <1>1, <1>3 DEF Shape
  <1>8. [t \in Sid |-> row'[t].at] = [[t \in Sid |-> row[t].at] EXCEPT ![s] = g]
    BY <1>0, <1>7
  <1>10. HeldInv'
    BY <1>0, <1>4, <1>5 DEF HeldInv
  <1>11. g \in 1..MaxTok /\ s \in Sid
    BY <1>0, SessionAssumption
  <1>12. PICK t \in Sid, h \in 1..MaxTok : t = s /\ h = g
    BY <1>11
  <1> HIDE DEF g, s
  <1>13. Contract!Store(t, h)
    BY <1>0, <1>6, <1>7, <1>8, <1>12 DEF Contract!Store, StatusOf
  <1>14. Contract!CNext
    BY <1>12, <1>13 DEF Contract!CNext, Contract!Grants
  <1> QED
    BY <1>10, <1>14

LEMMA ContractServe ==
    ASSUME TypeOK, LockInv, HeldInv, NEW r \in Req, Serve(r)
    PROVE  Contract!CNext /\ HeldInv'
  <1>0. /\ Shape /\ WellFormed /\ req[r] \in Requests
        /\ ~At(r, "idle") => req[r].sid \in Sid /\ Exists(req[r].sid)
        /\ \A s \in req[r].scope : s \in Sid /\ Exists(s)
    BY DEF TypeOK, Shape, WellFormed, Requests
  <1>1. CASE Touch(r)
    <2>1. AfterTouch(r) \in PCs \ {"granted", "rotating"}
      BY DEF AfterTouch, PCs
    <2> QED
      BY <1>0, <1>1, <2>1, GotoType, RowsKept DEF Touch, Holding
  <1>2. ASSUME NEW rotates \in BOOLEAN, RefreshGranted(r, rotates)
        PROVE  Contract!CNext /\ HeldInv'
    BY <1>2, GrantObtained
  <1>3. CASE RefreshRefused(r)
    BY <1>0, <1>3, GotoType, RowsKept DEF RefreshRefused, Holding, PCs
  <1>4. CASE RotateLock(r)
    <2>1. (IF Live(req[r].sid) THEN "rotating" ELSE "revoking") \in PCs
      BY DEF PCs
    <2> QED
      BY <1>0, <1>4, <2>1, GotoType, RowsKept DEF RotateLock, Holding, At
  <1>5. CASE RotateCommit(r)
    BY <1>5, GrantStored
  <1>6. CASE Revoke(r) \/ LogoutRevoke(r)
    <2> DEFINE s == req[r].sid
    <2>1. /\ s \in Sid /\ Exists(s) /\ row' = [row EXCEPT ![s].state = "revoked"]
          /\ UNCHANGED issued /\ ~Holding(r)
          /\ Reply(r) \/ Goto(r, "upstream")
      BY <1>0, <1>6 DEF Revoke, LogoutRevoke, At, Holding
    <2>2. ~Holding(r)' /\ \A x \in Req : x # r => req'[x] = req[x]
      BY <1>0, <2>1, ReplyType, GotoType DEF Holding, PCs
    <2> HIDE DEF s
    <2>3. \A t \in Sid : /\ row'[t].state = IF t \in {s} THEN "revoked" ELSE row[t].state
                         /\ row'[t].at = row[t].at
      BY <1>0, <2>1 DEF Shape, Rows
    <2>4. {s} \in SUBSET Sid /\ \A t \in {s} : Exists(t)
      BY <2>1
    <2> QED
      BY <2>1, <2>2, <2>3, <2>4, RowsEnded
  <1>7. CASE ServeRead(r) \/ ServeWrite(r)
    BY <1>0, <1>7, ReplyType, RowsKept DEF ServeRead, ServeWrite, Holding
  <1>8. ASSUME NEW headerOk \in BOOLEAN, CheckCsrf(r, headerOk)
        PROVE  Contract!CNext /\ HeldInv'
    BY <1>0, <1>8, GotoType, ReplyType, RowsKept DEF CheckCsrf, Holding, PCs
  <1>9. CASE ServeRefresh(r)
    <2>1. [req[r] EXCEPT !.pc = "refreshing", !.stage = "handler"].pc = "refreshing"
      BY <1>0 DEF Requests
    <2>2. ~Holding(r)' /\ \A x \in Req : x # r => req'[x] = req[x]
      BY <1>0, <1>9, <2>1, ReplyType DEF ServeRefresh, Becomes, Shape, Holding
    <2> QED
      BY <1>9, <2>2, RowsKept DEF ServeRefresh
  <1>10. ASSUME NEW done \in BOOLEAN, LogoutUpstream(r, done)
         PROVE  Contract!CNext /\ HeldInv'
    BY <1>0, <1>10, ReplyType, RowsKept DEF LogoutUpstream, Holding
  <1>11. ASSUME NEW u \in Subject, CloseSnapshot(r, u)
         PROVE  Contract!CNext /\ HeldInv'
    <2> DEFINE q == [req[r] EXCEPT !.pc = "closing",
                  !.scope = {s \in Sid : row[s].state = "open" /\ row[s].subject = u}]
    <2>1. q.pc = "closing"
      BY <1>0 DEF Requests
    <2>2. Becomes(r, q) /\ UNCHANGED <<row, issued>>
      BY <1>11 DEF CloseSnapshot
    <2> HIDE DEF q
    <2>3. ~Holding(r)' /\ \A x \in Req : x # r => req'[x] = req[x]
      BY <1>0, <2>1, <2>2 DEF Becomes, Shape, Holding
    <2> QED
      BY <2>2, <2>3, RowsKept
  <1>12. CASE CloseCommit(r)
    <2>1. /\ ~Holding(r) /\ ~Holding(r)' /\ \A x \in Req : x # r => req'[x] = req[x]
          /\ UNCHANGED issued
      BY <1>0, <1>12, ReplyType DEF CloseCommit, At, Holding
    <2>2. \A t \in Sid :
              /\ row'[t].state = IF t \in Locked(r) THEN "revoked" ELSE row[t].state
              /\ row'[t].at = row[t].at
      BY <1>0, <1>12 DEF CloseCommit, Shape, Rows
    <2>3. Locked(r) \in SUBSET Sid /\ \A t \in Locked(r) : Exists(t)
      BY <1>0, SessionAssumption DEF Locked, WellFormed
    <2> QED
      BY <1>0, <2>1, <2>2, <2>3, RowsEnded
  <1>13. ASSUME NEW s \in Sid, CloseLock(r, s) PROVE Contract!CNext /\ HeldInv'
    BY <1>0, <1>13, CloseLockType, RowsKept DEF CloseLock, Holding
  <1>14. CASE DeadlockBroken(r)
    BY <1>0, <1>14, ReplyType, RowsKept DEF DeadlockBroken, Holding
  <1> QED
    BY <1>1, <1>2, <1>3, <1>4, <1>5, <1>6, <1>7, <1>8, <1>9, <1>10, <1>11, <1>12, <1>13,
       <1>14 DEF Serve

LEMMA ContractEnvironment ==
    ASSUME TypeOK, LockInv, HeldInv, Clients \/ Time \/ Fault
    PROVE  [Contract!CNext]_(Contract!cvars) /\ HeldInv'
  <1>0. Shape /\ WellFormed /\ issued \in Nat
    BY SessionAssumption DEF TypeOK, Shape
  <1>1. ASSUME NEW s \in Sid, NEW u \in Subject, NEW hasRt \in BOOLEAN, Login(s, u, hasRt)
        PROVE  Contract!CNext /\ HeldInv'
    <2> DEFINE n == issued + 1
    <2>1. /\ row[s].state = "absent" /\ row'[s].state = "open" /\ row'[s].at = n
          /\ \A t \in Sid : t # s => row'[t] = row[t]
          /\ issued' = n /\ n \in 1..MaxTok /\ UNCHANGED req
      BY <1>0, <1>1, SessionAssumption DEF Login, Shape
    <2>2. n \notin 1..issued /\ 1..issued' = (1..issued) \cup {n}
      BY <1>0, <2>1
    <2>3. Held' = Held
      BY <2>1 DEF Held
    <2>4. /\ \A t \in Sid : StatusOf(t)' = IF t = s THEN "live" ELSE StatusOf(t)
          /\ [t \in Sid |-> row'[t].at] = [[t \in Sid |-> row[t].at] EXCEPT ![s] = n]
      BY <2>1 DEF StatusOf
    <2>5. [t \in Sid |-> StatusOf(t)]' = [[t \in Sid |-> StatusOf(t)] EXCEPT ![s] = "live"]
      BY <2>4
    <2>6. StatusOf(s) = "unborn"
      BY <2>1 DEF StatusOf
    <2>7. HeldInv'
      <3>1. \A x \in Req : Holding(x)' <=> Holding(x)
        BY <2>1 DEF Holding
      <3> QED
        BY <1>0, <2>1, <2>2, <3>1 DEF HeldInv
    <2> HIDE DEF n
    <2>8. Contract!Open(s, n)
      BY <2>1, <2>2, <2>3, <2>4, <2>5, <2>6 DEF Contract!Open
    <2>9. PICK h \in 1..MaxTok : h = n
      BY <2>1
    <2>10. Contract!Open(s, h)
      BY <2>8, <2>9 DEF Contract!Open
    <2> QED
      BY <2>7, <2>10 DEF Contract!CNext, Contract!Grants
  <1>2. ASSUME NEW r \in Req, NEW s \in Sid, NEW k \in Kinds, Lookup(r, s, k)
        PROVE  Contract!CNext /\ HeldInv'
    <2>1. [IdleReq EXCEPT !.pc = "found", !.kind = k, !.sid = s,
                          !.at = row[s].at, !.rt = row[s].rt].pc = "found"
      BY IdleType DEF Requests
    <2>2. ~Holding(r)' /\ \A x \in Req : x # r => req'[x] = req[x]
      BY <1>0, <1>2, <2>1 DEF Lookup, Becomes, Shape, Holding
    <2> QED
      BY <1>2, <2>2, RowsKept DEF Lookup
  <1>3. ASSUME UNCHANGED req, issued' = issued,
               \A s \in Sid : row'[s].state = row[s].state /\ row'[s].at = row[s].at
        PROVE  UNCHANGED Contract!cvars /\ HeldInv'
    <2>1. Held' = Held
      BY <1>3 DEF Held
    <2> QED
      BY <1>3, <2>1, MapStutters DEF HeldInv, Holding
  <1>4. ASSUME Time PROVE UNCHANGED Contract!cvars /\ HeldInv'
    <2>1. /\ UNCHANGED req /\ issued' = issued
          /\ \A s \in Sid : row'[s].state = row[s].state /\ row'[s].at = row[s].at
      BY <1>0, <1>4 DEF Time, Expire, BecomeDue, Shape, Rows
    <2> QED
      BY <1>3, <2>1
  <1>5. ASSUME NEW t \in Tok, ProviderDrop(t) PROVE UNCHANGED Contract!cvars /\ HeldInv'
    BY <1>3, <1>5 DEF ProviderDrop
  <1>6. ASSUME NEW r \in Req, RefreshUnreachable(r) PROVE Contract!CNext /\ HeldInv'
    BY <1>0, <1>6, GotoType, RowsKept DEF RefreshUnreachable, Holding, PCs
  <1>7. ASSUME NEW r \in Req, NEW rotates \in BOOLEAN, RefreshReplyLost(r, rotates)
        PROVE  Contract!CNext /\ HeldInv'
    BY <1>7, GrantObtained
  <1>8. ASSUME NEW r \in Req, DbFault(r) PROVE Contract!CNext /\ HeldInv'
    BY <1>0, <1>8, GotoType, ReplyType, RowsKept DEF DbFault, Holding, PCs
  <1>9. ASSUME NEW r \in Req, CommitUnacknowledged(r) PROVE Contract!CNext /\ HeldInv'
    BY <1>9, GrantStored
  <1>10. CASE Crash
    <2>1. \A x \in Req : ~Holding(x)'
      BY <1>10, IdleType DEF Crash, Holding
    <2>2. HeldInv'
      BY <2>1 DEF HeldInv
    <2> QED
      BY <1>10, <2>1, <2>2, HeldDropped DEF Crash
  <1> QED
    BY <1>1, <1>2, <1>4, <1>5, <1>6, <1>7, <1>8, <1>9, <1>10 DEF Clients, Fault

LEMMA ContractStep ==
    TypeOK /\ LockInv /\ HeldInv /\ [Next]_vars =>
        [Contract!CNext]_(Contract!cvars) /\ HeldInv'
  <1>1. ASSUME UNCHANGED vars PROVE UNCHANGED Contract!cvars
    BY <1>1, MapStutters DEF vars, Held
  <1>2. ASSUME UNCHANGED vars, HeldInv PROVE HeldInv'
    BY <1>2 DEF vars, HeldInv, Holding
  <1> QED
    BY <1>1, <1>2, ContractServe, ContractEnvironment DEF Next

LEMMA ContractInit == Init => Contract!CInit
  <1> SUFFICES ASSUME Init PROVE Contract!CInit
    OBVIOUS
  <1>1. NoRow.state = "absent" /\ NoRow.at = 0
    BY DEF NoRow, NoTok
  <1>2. Held = {}
    BY IdleType DEF Init, Held
  <1>3. 1..issued = {}
    BY DEF Init
  <1> QED
    BY <1>1, <1>2, <1>3 DEF Init, Contract!CInit, StatusOf

\* The session store implements its contract: a grant is stored at most once,
\* in the session it was obtained for, while that session has not ended.
THEOREM StoreKeepsContract == Spec => KeepsContract
  <1>1. Spec => []LockInv
    BY LockInit, LockStep, TypeCorrect, PTL DEF Spec
  <1>2. Spec => []HeldInv
    BY <1>1, HeldInit, ContractStep, TypeCorrect, PTL DEF Spec
  <1> QED
    BY <1>1, <1>2, ContractInit, ContractStep, TypeCorrect, PTL
       DEF Spec, KeepsContract, Contract!CSpec

ContractProofs == INSTANCE SessionContractProofs WITH
    Session <- Sid, MaxGrant <- MaxTok,
    status <- [s \in Sid |-> StatusOf(s)],
    grant <- [s \in Sid |-> row[s].at],
    spent <- 1..issued,
    held <- Held

\* Whatever the contract implies holds of the store: no two sessions share the
\* tokens of one answer of the provider.
THEOREM TokensArePrivate == Spec => []TokensStayPrivate
  <1>1. MaxTok \in Nat
    BY SessionAssumption
  <1>2. KeepsContract => []TokensStayPrivate
    BY <1>1, ContractProofs!OneOwnerHolds, PTL
       DEF KeepsContract, TokensStayPrivate,
           Contract!CSpec, Contract!CInit, Contract!CNext, Contract!cvars, Contract!Grants, Contract!Open, Contract!Obtain, Contract!Store, Contract!Discard, Contract!End, Contract!OneOwner,
           ContractProofs!CSpec, ContractProofs!CInit, ContractProofs!CNext, ContractProofs!cvars, ContractProofs!Grants, ContractProofs!Open, ContractProofs!Obtain, ContractProofs!Store, ContractProofs!Discard, ContractProofs!End, ContractProofs!OneOwner
  <1> QED
    BY <1>2, StoreKeepsContract, PTL
=============================================================================
