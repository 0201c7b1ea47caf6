------------------------ MODULE AdministrationProofs ------------------------
(***************************************************************************)
(* The invariants of account closure, for any users, logins, provider      *)
(* sessions and requests, and what they say of the callers of the routes,  *)
(* for any ID tokens.                                                      *)
(***************************************************************************)
EXTENDS Administration, TLAPS

Full == {"deactivate", "suspend"}

\* Requests concern users, and so do logins once the code is exchanged.
Attributed ==
    /\ \A o \in Op : op[o].route # "idle" => op[o].user \in User
    /\ \A c \in Login : login[c].state # "none" => login[c].user \in User

\* After a suspension, while it is not undone, nobody exchanges a code any more.
DoorShut ==
    \A o \in Op : op[o].route \in Suspending /\ op[o].step > 1 /\ ~op[o].undone =>
        /\ account[op[o].user] # "active"
        /\ Of(op[o].user, "exchanged") \subseteq op[o].inFlight

\* A deletion keeps count of the logins its revocation could not reach.
Counted ==
    \A o \in Op : op[o].route = "delete" /\ op[o].step > 1 =>
        Of(op[o].user, "exchanged") \cup Of(op[o].user, "live") \subseteq op[o].inFlight

\* The provider sessions that are left are those still to be deleted.
Purging ==
    \A o \in Op : op[o].route \in Full /\ ~op[o].undone =>
        /\ op[o].step = 3 => signedOn[op[o].user] \subseteq op[o].todo
        /\ op[o].step = 4 => signedOn[op[o].user] = {}

Closed ==
    \A u \in User : closed[u] # "no" =>
        /\ account[u] # "active"
        /\ Of(u, "exchanged") \cup Of(u, "live") \subseteq straggler[u]
        /\ closed[u] \in Full => signedOn[u] = {}

IInv == TypeOK /\ Attributed /\ DoorShut /\ Counted /\ Purging /\ Closed

LEMMA PlanShape ==
    /\ DOMAIN Plan = {"idle", "deactivate", "suspend", "patch", "restore", "delete"}
    /\ \A r \in Route : Len(Plan[r]) \in 1..4
    /\ Len(Plan["delete"]) = 4 /\ Len(Plan["patch"]) = 2
    /\ \A r \in Full : Len(Plan[r]) = 4
    /\ \A r \in Route : \A i \in 1..Len(Plan[r]) :
         /\ Plan[r][i] = "suspend" => r \in Suspending /\ i = 1
         /\ Plan[r][i] = "list" => r \in Full \cup {"delete"} /\ i = 2
         /\ Plan[r][i] = "purge" => r \in Full \cup {"delete"} /\ i = 3
         /\ Plan[r][i] = "revoke" => \/ r \in Full /\ i = 4
                                     \/ r = "patch" /\ i = 2
                                     \/ r = "delete" /\ i = 1
         /\ Plan[r][i] = "remove" => r = "delete" /\ i = 4
         /\ Plan[r][i] = "restore" => r = "restore" /\ i = 1
  <1>1. DOMAIN Plan = {"idle", "deactivate", "suspend", "patch", "restore", "delete"}
    BY DEF Plan
  <1>2. \A r \in Full : Plan[r] = <<"suspend", "list", "purge", "revoke">>
    BY DEF Plan, Full
  <1>3. Plan["patch"] = <<"suspend", "revoke">>
    BY DEF Plan
  <1>4. Plan["restore"] = <<"restore">>
    BY DEF Plan
  <1>5. Plan["delete"] = <<"revoke", "list", "purge", "remove">>
    BY DEF Plan
  <1>6. Route = Full \cup {"patch", "restore", "delete"}
    BY <1>1 DEF Route, Full
  <1>7. Full \cup {"patch"} = Suspending
    BY DEF Full, Suspending
  <1>8. ASSUME NEW r \in Full PROVE
         /\ Len(Plan[r]) = 4
         /\ \A i \in 1..4 :
              /\ Plan[r][i] = "suspend" <=> i = 1
              /\ Plan[r][i] = "list" <=> i = 2
              /\ Plan[r][i] = "purge" <=> i = 3
              /\ Plan[r][i] = "revoke" <=> i = 4
              /\ Plan[r][i] \notin {"remove", "restore"}
    BY <1>2
  <1>9. /\ Len(Plan["patch"]) = 2
        /\ \A i \in 1..2 :
              /\ Plan["patch"][i] = "suspend" <=> i = 1
              /\ Plan["patch"][i] = "revoke" <=> i = 2
              /\ Plan["patch"][i] \in {"suspend", "revoke"}
    BY <1>3
  <1>10. /\ Len(Plan["restore"]) = 1
         /\ \A i \in 1..1 : Plan["restore"][i] = "restore"
    BY <1>4
  <1>11. /\ Len(Plan["delete"]) = 4
         /\ \A i \in 1..4 :
              /\ Plan["delete"][i] = "revoke" <=> i = 1
              /\ Plan["delete"][i] = "list" <=> i = 2
              /\ Plan["delete"][i] = "purge" <=> i = 3
              /\ Plan["delete"][i] = "remove" <=> i = 4
              /\ Plan["delete"][i] \notin {"suspend", "restore"}
    BY <1>5
  <1> QED
    BY <1>1, <1>6, <1>7, <1>8, <1>9, <1>10, <1>11

LEMMA Routing ==
    /\ Suspending = Full \cup {"patch"} /\ Closing = Suspending \cup {"delete"}
    /\ "delete" \notin Suspending \cup Full /\ "patch" \notin Full
    /\ \A r \in Suspending : Len(Plan[r]) \in {2, 4}
  BY PlanShape DEF Suspending, Closing, Full

LEMMA InitInv == Init => IInv
  <1> SUFFICES ASSUME Init PROVE IInv
    OBVIOUS
  <1>1. IdleOp \in Ops /\ "idle" \notin Suspending \cup Full \cup {"delete"}
    BY PlanShape DEF IdleOp, Ops, Suspending, Full
  <1>2. \A o \in Op : op[o] = IdleOp /\ op[o].route = "idle"
    BY DEF Init, IdleOp
  <1>3. TypeOK
    BY <1>1, <1>2 DEF Init, TypeOK, Logins, LoginStates
  <1>4. Attributed
    BY <1>2 DEF Init, Attributed
  <1>5. DoorShut /\ Counted /\ Purging /\ Closed
    BY <1>1, <1>2 DEF Init, DoorShut, Counted, Purging, Closed
  <1> QED
    BY <1>3, <1>4, <1>5 DEF IInv

LEMMA Requested ==
    ASSUME TypeOK, Attributed, NEW o \in Op, op[o].route # "idle"
    PROVE  /\ op[o] \in Ops /\ op[o].route \in Route /\ op[o].user \in User
           /\ op[o].step \in 1..Len(Plan[op[o].route])
  BY PlanShape DEF TypeOK, Attributed, Ops, Route

\* A step after which no door is open that was shut, no login newly in flight or
\* live, and no provider session left that was not there.
Quieter ==
    /\ account' \in [User -> {"active", "suspended", "deleted"}]
    /\ signedOn' \in [User -> SUBSET usedSignOn] /\ usedSignOn' = usedSignOn
    /\ login' \in [Login -> Logins]
    /\ \A u \in User : account[u] # "active" => account'[u] # "active"
    /\ \A u \in User : signedOn'[u] \subseteq signedOn[u]
    /\ \A c \in Login : login'[c].state # "none" => login'[c].user \in User
    /\ \A u \in User : /\ Of(u, "exchanged")' \subseteq Of(u, "exchanged")
                       /\ Of(u, "live")' \subseteq Of(u, "exchanged") \cup Of(u, "live")

\* Such a step preserves the invariant when a request ends in it, or a provider
\* session it has listed is gone after it.
LEMMA QuieterInv ==
    ASSUME IInv, Quieter, UNCHANGED <<closed, straggler>>,
           op' \in [Op -> Ops],
           \A o \in Op :
              \/ op'[o] = op[o]
              \/ op'[o] = IdleOp
              \/ /\ \E S \in SUBSET SignOn : op'[o] = [op[o] EXCEPT !.todo = S]
                 /\ op[o].step = 3 /\ op[o].user \in User /\ op[o].route # "idle"
                 /\ signedOn[op[o].user] \subseteq op[o].todo =>
                       signedOn'[op[o].user] \subseteq op'[o].todo
    PROVE  IInv'
  <1> USE DEF IInv
  <1>1. IdleOp.route = "idle" /\ "idle" \notin Suspending \cup Full \cup {"delete"}
    BY DEF IdleOp, Suspending, Full
  <1>2. ASSUME NEW o \in Op, op'[o].route # "idle" PROVE
            /\ op'[o].route = op[o].route /\ op'[o].step = op[o].step
            /\ op'[o].user = op[o].user /\ op'[o].inFlight = op[o].inFlight
            /\ op'[o].undone = op[o].undone /\ op'[o].user \in User
            /\ op[o].step = 3 /\ signedOn[op[o].user] \subseteq op[o].todo =>
                  signedOn'[op[o].user] \subseteq op'[o].todo
    <2>1. CASE op'[o] = op[o]
      BY <1>2, <2>1, Requested DEF Quieter
    <2>2. CASE op'[o] = IdleOp
      BY <1>1, <1>2, <2>2
    <2>3. CASE \E S \in SUBSET SignOn : op'[o] = [op[o] EXCEPT !.todo = S]
      <3>1. op[o] \in Ops
        BY DEF TypeOK
      <3>2. PICK S \in SUBSET SignOn : op'[o] = [op[o] EXCEPT !.todo = S]
        BY <2>3
      <3>3. /\ op'[o].route = op[o].route /\ op'[o].step = op[o].step
            /\ op'[o].user = op[o].user /\ op'[o].inFlight = op[o].inFlight
            /\ op'[o].undone = op[o].undone
        BY <3>1, <3>2 DEF Ops
      <3> QED
        BY <1>1, <1>2, <3>3, Requested DEF Quieter
    <2> QED
      BY <2>1, <2>2, <2>3
  <1>3. TypeOK'
    BY <1>2 DEF TypeOK, Quieter
  <1>4. Attributed'
    BY <1>2 DEF Attributed, Quieter
  <1>5. DoorShut'
    BY <1>1, <1>2 DEF DoorShut, Quieter
  <1>6. Counted'
    BY <1>1, <1>2 DEF Counted, Quieter
  <1>7. Purging'
    BY <1>1, <1>2, SMTT(30) DEF Purging, Quieter
  <1>8. Closed'
    BY DEF Closed, Quieter, TypeOK
  <1> QED
    BY <1>3, <1>4, <1>5, <1>6, <1>7, <1>8

\* A request that makes a call and goes on, as q, or is answered.
LEMMA ProceedInv ==
    ASSUME IInv, Quieter, NEW o \in Op, op[o].route # "idle",
           NEW q \in Ops,
           q.route = op[o].route, q.step = op[o].step, q.user = op[o].user,
           Proceed(o, q),
           q.route \in Suspending /\ ~q.undone =>
              account'[q.user] # "active" /\ Of(q.user, "exchanged")' \subseteq q.inFlight,
           q.route = "delete" =>
              (Of(q.user, "exchanged") \cup Of(q.user, "live"))' \subseteq q.inFlight,
           q.route \in Full /\ ~q.undone =>
              /\ q.step = 2 => signedOn'[q.user] \subseteq q.todo
              /\ q.step \in {3, 4} => signedOn'[q.user] = {},
           Closes(o, q) =>
              account'[q.user] # "active" /\ Of(q.user, "live")' \subseteq q.inFlight
    PROVE  IInv'
  <1> USE DEF IInv
  <1>1. IdleOp \in Ops /\ IdleOp.route = "idle" /\ "idle" \notin Suspending \cup Full \cup {"delete"}
    BY PlanShape DEF IdleOp, Suspending, Full, Ops
  <1>2. q.step \in 1..Len(Plan[q.route]) /\ Len(Plan[q.route]) \in 1..4 /\ q.user \in User
    BY Requested, PlanShape
  <1>3. CASE LastStep(o)
    <2>1. op' = [op EXCEPT ![o] = IdleOp] /\ op' \in [Op -> Ops]
      BY <1>1, <1>3 DEF Proceed, TypeOK
    <2>2. \A x \in Op : op'[x].route # "idle" => op'[x] = op[x]
      BY <1>1, <2>1 DEF TypeOK
    <2>3. CASE ~Closes(o, q)
      <3>1. UNCHANGED <<closed, straggler>> /\ \A x \in Op : op'[x] = op[x] \/ op'[x] = IdleOp
        BY <2>1, <2>3 DEF Proceed, TypeOK
      <3> QED
        BY <2>1, <3>1, QuieterInv
    <2>4. CASE Closes(o, q)
      <3>1. /\ closed' = [closed EXCEPT ![q.user] = q.route]
            /\ straggler' = [straggler EXCEPT ![q.user] = q.inFlight]
        BY <2>4 DEF Proceed
      <3>2. q.route \in Closing /\ (q.undone => q.route = "delete")
        BY <2>4 DEF Closes
      <3>3. TypeOK'
        <4>1. closed' \in [User -> Closing \cup {"no"}] /\ straggler' \in [User -> SUBSET Login]
          BY <3>1, <3>2 DEF TypeOK, Ops
        <4>2. \A x \in Op : op'[x].route # "idle" => op'[x].step <= Len(Plan[op'[x].route])
          BY <2>2 DEF TypeOK
        <4> QED
          BY <2>1, <4>1, <4>2 DEF TypeOK, Quieter
      <3>4. Attributed'
        BY <2>2 DEF Attributed, Quieter
      <3>5. /\ \A x \in Op : op'[x].route # "idle" => op'[x].user \in User
            /\ DoorShut' /\ Counted' /\ Purging'
        <4>1. \A x \in Op : op'[x].route # "idle" => op'[x].user \in User
          BY <2>2, Requested
        <4>2. DoorShut'
          BY <1>1, <2>2, <4>1 DEF DoorShut, Quieter
        <4>3. Counted'
          BY <1>1, <2>2, <4>1 DEF Counted, Quieter
        <4>4. Purging'
          <5>1. ASSUME NEW x \in Op, op'[x].route \in Full PROVE
                    op'[x] = op[x] /\ signedOn'[op[x].user] \subseteq signedOn[op[x].user]
            BY <1>1, <2>2, <4>1, <5>1 DEF Quieter
          <5> QED
            BY <5>1 DEF Purging
        <4> QED
          BY <4>1, <4>2, <4>3, <4>4
      <3>6. Closed'
        <4> SUFFICES ASSUME NEW u \in User, closed'[u] # "no"
            PROVE /\ account'[u] # "active"
                  /\ (Of(u, "exchanged") \cup Of(u, "live"))' \subseteq straggler'[u]
                  /\ closed'[u] \in Full => signedOn'[u] = {}
          BY DEF Closed
        <4>1. CASE u # q.user
          BY <3>1, <4>1 DEF Closed, TypeOK, Quieter
        <4>2. CASE u = q.user
          <5>1. closed'[u] = q.route /\ straggler'[u] = q.inFlight
            BY <3>1, <4>2 DEF TypeOK
          <5>2. q.route \in Full => q.step = 4 /\ ~q.undone
            BY <1>3, <3>2, PlanShape DEF LastStep, Full
          <5>3. Of(u, "exchanged")' \subseteq q.inFlight
            BY <3>2, <4>2 DEF Closing
          <5> QED
            BY <2>4, <4>2, <5>1, <5>2, <5>3
        <4> QED
          BY <4>1, <4>2
      <3> QED
        BY <3>3, <3>4, <3>5, <3>6
    <2> QED
      BY <2>3, <2>4
  <1>4. CASE ~LastStep(o)
    <2> DEFINE r == [q EXCEPT !.step = @ + 1]
    <2>1. q.step < Len(Plan[q.route])
      BY <1>2, <1>4 DEF LastStep
    <2>2. /\ r \in Ops /\ r.route = q.route /\ r.step = q.step + 1 /\ r.user = q.user
          /\ r.inFlight = q.inFlight /\ r.undone = q.undone /\ r.todo = q.todo
      <3>1. q.step + 1 \in 1..4
        <4>1. PICK n \in 1..4 : n = Len(Plan[q.route])
          BY <1>2
        <4>2. q.step \in 1..n /\ q.step < n
          BY <1>2, <2>1, <4>1
        <4> QED
          BY <4>2
      <3>2. /\ q \in [route : DOMAIN Plan, step : 1..4, user : User \cup {None},
                     todo : SUBSET SignOn, inFlight : SUBSET Login, undone : BOOLEAN]
            /\ r = [q EXCEPT !.step = q.step + 1]
        BY DEF Ops
      <3>3. /\ r.route = q.route /\ r.step = q.step + 1 /\ r.user = q.user
            /\ r.inFlight = q.inFlight /\ r.undone = q.undone /\ r.todo = q.todo
        BY <3>2
      <3>4. r \in Ops
        BY <3>1, <3>2 DEF Ops
      <3> QED
        BY <3>3, <3>4
    <2>3. op' = [op EXCEPT ![o] = r] /\ UNCHANGED <<closed, straggler>>
      BY <1>4 DEF Proceed, Closes
    <2>4. op' \in [Op -> Ops] /\ op'[o] = r /\ \A x \in Op \ {o} : op'[x] = op[x]
      BY <2>2, <2>3 DEF TypeOK
    <2> HIDE DEF r
    <2>5. TypeOK'
      <3>1. \A x \in Op : op'[x].route # "idle" => op'[x].step <= Len(Plan[op'[x].route])
        BY <1>2, <2>1, <2>2, <2>4 DEF TypeOK
      <3> QED
        BY <2>3, <2>4, <3>1 DEF TypeOK, Quieter
    <2>6. Attributed'
      BY <1>2, <2>2, <2>4 DEF Attributed, Quieter
    <2>7. DoorShut'
      BY <1>1, <2>2, <2>4, Requested DEF DoorShut, Quieter
    <2>8. Counted'
      BY <1>1, <2>2, <2>4, Requested DEF Counted, Quieter
    <2>9. Purging'
      <3>1. ASSUME NEW x \in Op \ {o}, op'[x].route \in Full PROVE
                op'[x] = op[x] /\ signedOn'[op[x].user] \subseteq signedOn[op[x].user]
        BY <1>1, <2>4, <3>1, Requested DEF Quieter
      <3>2. ASSUME op'[o].route \in Full, ~op'[o].undone PROVE
                /\ op'[o].step = 3 => signedOn'[op'[o].user] \subseteq op'[o].todo
                /\ op'[o].step = 4 => signedOn'[op'[o].user] = {}
        BY <1>2, <2>2, <2>4, <3>2
      <3> QED
        BY <3>1, <3>2 DEF Purging
    <2>10. Closed'
      BY <2>3 DEF Closed, TypeOK, Quieter
    <2> QED
      BY <2>5, <2>6, <2>7, <2>8, <2>9, <2>10
  <1> QED
    BY <1>3, <1>4

LEMMA AtCall ==
    ASSUME TypeOK, Attributed, NEW o \in Op, NEW call, At(o, call)
    PROVE  /\ op[o] \in Ops /\ op[o].route \in Route /\ op[o].user \in User
           /\ op[o].route # "idle"
           /\ op[o].step \in 1..Len(Plan[op[o].route])
           /\ Plan[op[o].route][op[o].step] = call
  BY Requested DEF At

\* Changing fields of a request that is not the one the plan goes by.
LEMMA Fields ==
    ASSUME NEW q \in Ops, NEW S \in SUBSET SignOn, NEW L \in SUBSET Login, NEW b \in BOOLEAN
    PROVE  /\ [q EXCEPT !.inFlight = L, !.undone = b] \in Ops
           /\ [q EXCEPT !.inFlight = L] \in Ops
           /\ [q EXCEPT !.undone = b] \in Ops
           /\ [q EXCEPT !.todo = S] \in Ops
  BY DEF Ops

LEMMA SuspendInv == ASSUME IInv, NEW o \in Op, Suspend(o) PROVE IInv'
  <1> USE DEF IInv
  <1>1. /\ op[o] \in Ops /\ op[o].route \in Suspending /\ op[o].step = 1
        /\ op[o].user \in User /\ op[o].route # "idle"
    BY AtCall, PlanShape DEF Suspend
  <1>2. PICK u \in User : u = op[o].user
    BY <1>1
  <1>a. PICK q \in Ops : q = [op[o] EXCEPT !.inFlight = Of(u, "exchanged"), !.undone = FALSE]
    <2>1. Of(u, "exchanged") \in SUBSET Login
      BY DEF Of
    <2> QED
      BY <1>1, <2>1, Fields
  <1>3. /\ q.route = op[o].route /\ q.step = 1 /\ q.user = u
        /\ q.inFlight = Of(u, "exchanged") /\ q.undone = FALSE
    BY <1>1, <1>2, <1>a DEF Ops
  <1>4. account' = [account EXCEPT ![u] = "suspended"] /\ Proceed(o, q)
        /\ UNCHANGED <<signedOn, usedSignOn, login>>
    BY <1>2, <1>a DEF Suspend
  <1>5. Quieter
    BY <1>1, <1>2, <1>4 DEF Quieter, TypeOK, Attributed, Of
  <1>6. account'[u] # "active" /\ Of(u, "exchanged")' = Of(u, "exchanged")
    BY <1>1, <1>2, <1>4 DEF TypeOK, Of
  <1>7. ~Closes(o, q) /\ q.route # "delete"
    <2>1. Len(Plan[op[o].route]) # 1 /\ op[o].route # "delete"
      BY <1>1, Routing
    <2> QED
      BY <1>1, <1>3, <2>1 DEF Closes, LastStep
  <1> HIDE DEF IInv
  <1> QED
    BY <1>1, <1>2, <1>3, <1>4, <1>5, <1>6, <1>7, ProceedInv

LEMMA ListInv == ASSUME IInv, NEW o \in Op, List(o) PROVE IInv'
  <1> USE DEF IInv
  <1>1. /\ op[o] \in Ops /\ op[o].route \in Full \cup {"delete"} /\ op[o].step = 2
        /\ op[o].user \in User /\ op[o].route # "idle" /\ Len(Plan[op[o].route]) = 4
    BY AtCall, PlanShape DEF List
  <1>2. PICK u \in User : u = op[o].user
    BY <1>1
  <1>a. PICK q \in Ops : q = [op[o] EXCEPT !.todo = signedOn[u]]
    <2>1. signedOn[u] \in SUBSET SignOn
      BY DEF TypeOK
    <2> QED
      BY <1>1, <2>1, Fields
  <1>3. /\ q.route = op[o].route /\ q.step = 2 /\ q.user = u
        /\ q.inFlight = op[o].inFlight /\ q.undone = op[o].undone /\ q.todo = signedOn[u]
    BY <1>1, <1>2, <1>a DEF Ops
  <1>4. Proceed(o, q) /\ UNCHANGED <<account, signedOn, usedSignOn, login>>
    BY <1>2, <1>a DEF List
  <1>5. Quieter
    BY <1>1, <1>2, <1>4 DEF Quieter, TypeOK, Attributed, Of
  <1>6. q.route \in Suspending /\ ~q.undone =>
            account'[u] # "active" /\ Of(u, "exchanged")' \subseteq q.inFlight
    BY <1>1, <1>2, <1>3, <1>4 DEF DoorShut, Of
  <1>7. q.route = "delete" =>
            (Of(u, "exchanged") \cup Of(u, "live"))' \subseteq q.inFlight
    <2>1. op[o].route = "delete" => Of(u, "exchanged") \cup Of(u, "live") \subseteq op[o].inFlight
      BY <1>1, <1>2 DEF Counted
    <2>2. (Of(u, "exchanged") \cup Of(u, "live"))' = Of(u, "exchanged") \cup Of(u, "live")
      BY <1>4 DEF Of
    <2> QED
      BY <1>3, <2>1, <2>2
  <1>8. ~Closes(o, q)
    BY <1>1 DEF Closes, LastStep
  <1> HIDE DEF IInv
  <1> QED
    BY <1>1, <1>2, <1>3, <1>4, <1>5, <1>6, <1>7, <1>8, ProceedInv

LEMMA PurgeInv == ASSUME IInv, NEW o \in Op, Purge(o) PROVE IInv'
  <1> USE DEF IInv
  <1>a. /\ op[o] \in Ops /\ op[o].user \in User /\ Len(Plan[op[o].route]) = 4
        /\ op[o].route # "idle" /\ op[o].route \in Full \cup {"delete"} /\ op[o].step = 3
    BY AtCall, PlanShape DEF Purge
  <1>b. PICK u \in User, q \in Ops : u = op[o].user /\ q = op[o]
    BY <1>a
  <1>1. q.user = u /\ q.route \in Full \cup {"delete"} /\ q.step = 3 /\ q.route # "idle"
    BY <1>a, <1>b
  <1>2. CASE q.todo = {}
    <2>1. Proceed(o, q) /\ UNCHANGED <<account, signedOn, usedSignOn, login>>
      BY <1>2, <1>b DEF Purge
    <2>2. Quieter
      BY <1>1, <1>b, <2>1 DEF Quieter, TypeOK, Attributed, Of
    <2>3. q.route \in Suspending /\ ~q.undone =>
              account'[u] # "active" /\ Of(u, "exchanged")' \subseteq q.inFlight
      BY <1>1, <1>b, <2>1 DEF DoorShut, Of
    <2>4. q.route = "delete" =>
              (Of(u, "exchanged") \cup Of(u, "live"))' \subseteq q.inFlight
      BY <1>1, <1>b, <2>1 DEF Counted, Of
    <2>5. q.route \in Full /\ ~q.undone => signedOn'[u] = {}
      BY <1>1, <1>b, <1>2, <2>1 DEF Purging
    <2>6. ~Closes(o, q)
      BY <1>a DEF Closes, LastStep
    <2> HIDE DEF IInv
    <2> QED
      BY <1>1, <1>b, <2>1, <2>2, <2>3, <2>4, <2>5, <2>6, ProceedInv
  <1>3. CASE q.todo # {}
    <2>1. PICK p \in q.todo \cap signedOn[u] :
              /\ signedOn' = [signedOn EXCEPT ![u] = @ \ {p}]
              /\ op' = [op EXCEPT ![o] = [q EXCEPT !.todo = @ \ {p}]]
      BY <1>3, <1>b DEF Purge
    <2>2. UNCHANGED <<account, usedSignOn, login, closed, straggler>>
      BY <1>3, <1>b DEF Purge
    <2>3. q.todo \ {p} \in SUBSET SignOn
      BY DEF Ops
    <2>4. /\ [q EXCEPT !.todo = q.todo \ {p}] \in Ops
          /\ [q EXCEPT !.todo = q.todo \ {p}].todo = q.todo \ {p}
      BY <2>3, Fields DEF Ops
    <2>4a. op' \in [Op -> Ops] /\ op'[o] = [q EXCEPT !.todo = q.todo \ {p}]
          /\ op'[o].todo = q.todo \ {p}
      BY <2>1, <2>4 DEF TypeOK
    <2>5. \A x \in Op \ {o} : op'[x] = op[x]
      BY <2>1 DEF TypeOK
    <2>6. signedOn'[u] = signedOn[u] \ {p}
      BY <1>1, <1>b, <2>1 DEF TypeOK
    <2>7. Quieter
      BY <1>1, <1>b, <2>1, <2>2, <2>6 DEF Quieter, TypeOK, Attributed, Of
    <2>8. signedOn[u] \subseteq q.todo => signedOn'[u] \subseteq op'[o].todo
      BY <2>4a, <2>6
    <2> HIDE DEF IInv
    <2> QED
      BY <1>1, <1>b, <2>2, <2>3, <2>4a, <2>5, <2>7, <2>8, QuieterInv
  <1> QED
    BY <1>2, <1>3

LEMMA RevokeInv == ASSUME IInv, NEW o \in Op, Revoke(o) PROVE IInv'
  <1> USE DEF IInv
  <1>1. /\ op[o] \in Ops /\ op[o].route # "idle" /\ op[o].user \in User
        /\ \/ op[o].route \in Full /\ op[o].step = 4
           \/ op[o].route = "patch" /\ op[o].step = 2
           \/ op[o].route = "delete" /\ op[o].step = 1
    BY AtCall, PlanShape DEF Revoke
  <1>2. PICK u \in User : u = op[o].user
    BY <1>1
  <1>a. PICK q \in Ops :
            q = IF op[o].route = "delete"
                  THEN [op[o] EXCEPT !.inFlight = Of(u, "exchanged")] ELSE op[o]
    <2>1. Of(u, "exchanged") \in SUBSET Login
      BY DEF Of
    <2> QED
      BY <1>1, <2>1, Fields
  <1>3. /\ q.route = op[o].route /\ q.step = op[o].step /\ q.user = u
        /\ q.inFlight = (IF op[o].route = "delete" THEN Of(u, "exchanged") ELSE op[o].inFlight)
        /\ q.undone = op[o].undone /\ q.todo = op[o].todo
    BY <1>1, <1>2, <1>a DEF Ops
  <1>4. /\ login' = [c \in Login |-> IF c \in Of(u, "live")
                        THEN [login[c] EXCEPT !.state = "over"] ELSE login[c]]
        /\ Proceed(o, q) /\ UNCHANGED <<account, signedOn, usedSignOn>>
    BY <1>2, <1>a DEF Revoke
  <1>5. \A c \in Login : /\ login'[c] \in Logins /\ login'[c].user = login[c].user
                         /\ login'[c].state = (IF c \in Of(u, "live") THEN "over" ELSE login[c].state)
    BY <1>4 DEF TypeOK, Logins, LoginStates
  <1>6. Of(u, "live")' = {} /\ Of(u, "exchanged")' = Of(u, "exchanged")
    BY <1>5 DEF Of
  <1>7. \A v \in User : /\ Of(v, "exchanged")' \subseteq Of(v, "exchanged")
                        /\ Of(v, "live")' \subseteq Of(v, "live")
    BY <1>5 DEF Of
  <1>8. Quieter
    <2>1. login' \in [Login -> Logins]
      BY <1>4, <1>5
    <2>2. \A c \in Login : login'[c].state # "none" => login'[c].user \in User
      BY <1>5 DEF Attributed, Of
    <2> QED
      BY <1>4, <1>7, <2>1, <2>2 DEF Quieter, TypeOK
  <1>9. "delete" \notin Suspending \cup Full /\ "patch" \notin Full
    BY Routing
  <1>10. q.route \in Suspending /\ ~q.undone =>
            account'[u] # "active" /\ Of(u, "exchanged")' \subseteq q.inFlight
    BY <1>1, <1>2, <1>3, <1>4, <1>6, <1>9 DEF DoorShut
  <1>11. q.route = "delete" =>
            (Of(u, "exchanged") \cup Of(u, "live"))' \subseteq q.inFlight
    BY <1>3, <1>6
  <1>12. q.route \in Full /\ ~q.undone => q.step = 4 /\ signedOn'[u] = {}
    BY <1>1, <1>2, <1>3, <1>4, <1>9 DEF Purging
  <1>13. Closes(o, q) => account'[u] # "active" /\ Of(u, "live")' \subseteq q.inFlight
    <2>1. Closes(o, q) => q.route \in Suspending /\ ~q.undone
      <3>1. q.route = "delete" => ~LastStep(o)
        <4>1. q.route = "delete" => op[o].step = 1 /\ Len(Plan[op[o].route]) # 1
          BY <1>1, <1>3, <1>9, PlanShape
        <4> QED
          BY <4>1 DEF LastStep
      <3> QED
        BY <3>1, Routing DEF Closes
    <2> QED
      BY <1>6, <1>10, <2>1
  <1> HIDE DEF IInv
  <1> QED
    BY <1>1, <1>2, <1>3, <1>4, <1>8, <1>10, <1>11, <1>12, <1>13, ProceedInv

LEMMA RemoveInv == ASSUME IInv, NEW o \in Op, Remove(o) PROVE IInv'
  <1> USE DEF IInv
  <1>a. PICK u \in User, q \in Ops : u = op[o].user /\ q = op[o]
    BY AtCall DEF Remove
  <1>1. /\ q.route = "delete" /\ q.step = 4 /\ q.user = u
        /\ q.route \notin Suspending \cup Full /\ q.route # "idle"
    BY <1>a, AtCall, PlanShape DEF Remove, Suspending, Full
  <1>2. /\ account' = [account EXCEPT ![u] = "deleted"] /\ Proceed(o, q)
        /\ UNCHANGED <<signedOn, usedSignOn, login>>
    BY <1>a DEF Remove
  <1>3. Quieter
    BY <1>a, <1>1, <1>2 DEF Quieter, TypeOK, Attributed, Of
  <1>4. (Of(u, "exchanged") \cup Of(u, "live"))' \subseteq q.inFlight
    BY <1>a, <1>1, <1>2 DEF Counted, Of
  <1>5. account'[u] # "active"
    BY <1>a, <1>1, <1>2 DEF TypeOK
  <1> HIDE DEF IInv
  <1> QED
    BY <1>a, <1>1, <1>2, <1>3, <1>4, <1>5, ProceedInv

LEMMA FailInv == ASSUME IInv, NEW o \in Op, Fail(o) \/ FailAfterEffect(o) PROVE IInv'
  <1> USE DEF IInv
  <1>1. IdleOp \in Ops
    BY PlanShape DEF IdleOp, Ops
  <1>2. op' = [op EXCEPT ![o] = IdleOp] /\ UNCHANGED <<usedSignOn, login, closed, straggler>>
    BY DEF Fail, FailAfterEffect
  <1>3. op' \in [Op -> Ops] /\ \A x \in Op : op'[x] = op[x] \/ op'[x] = IdleOp
    BY <1>1, <1>2 DEF TypeOK
  <1>4. PICK u \in User : u = op[o].user
    BY AtCall, Requested DEF Fail, FailAfterEffect
  <1>5. \/ UNCHANGED <<account, signedOn>>
        \/ account' = [account EXCEPT ![u] = "suspended"] /\ UNCHANGED signedOn
        \/ account' = [account EXCEPT ![u] = "deleted"] /\ UNCHANGED signedOn
        \/ /\ \E p \in SignOn : signedOn' = [signedOn EXCEPT ![u] = @ \ {p}]
           /\ UNCHANGED account
    <2>1. CASE Fail(o)
      BY <2>1 DEF Fail
    <2>2. CASE FailAfterEffect(o)
      <3>1. signedOn[u] \subseteq SignOn
        BY DEF TypeOK
      <3> QED
        BY <1>4, <2>2, <3>1 DEF FailAfterEffect
    <2> QED
      BY <2>1, <2>2
  <1>6. /\ account' \in [User -> {"active", "suspended", "deleted"}]
        /\ \A v \in User : account[v] # "active" => account'[v] # "active"
    BY <1>4, <1>5 DEF TypeOK
  <1>7. /\ signedOn' \in [User -> SUBSET usedSignOn]
        /\ \A v \in User : signedOn'[v] \subseteq signedOn[v]
    BY <1>4, <1>5 DEF TypeOK
  <1>8. Quieter
    BY <1>2, <1>6, <1>7 DEF Quieter, TypeOK, Attributed, Of
  <1> HIDE DEF IInv
  <1> QED
    BY <1>2, <1>3, <1>8, QuieterInv

LEMMA RestoreInv == ASSUME IInv, NEW o \in Op, Restore(o) PROVE IInv'
  <1> USE DEF IInv
  <1>1. PICK u \in User : u = op[o].user
    BY AtCall DEF Restore
  <1>2. /\ account' = [account EXCEPT ![u] = "active"]
        /\ op' = [x \in Op |-> IF x = o THEN IdleOp
                               ELSE [op[x] EXCEPT !.undone = op[x].user = u \/ @]]
        /\ closed' = [closed EXCEPT ![u] = "no"]
        /\ UNCHANGED <<signedOn, usedSignOn, login, straggler>>
    BY <1>1 DEF Restore
  <1>3. IdleOp \in Ops /\ IdleOp.route = "idle"
    BY PlanShape DEF IdleOp, Ops
  <1>4. ASSUME NEW x \in Op PROVE
            /\ op'[x] \in Ops
            /\ op'[x].route # "idle" =>
                 /\ op'[x].route = op[x].route /\ op'[x].step = op[x].step
                 /\ op'[x].user = op[x].user /\ op'[x].todo = op[x].todo
                 /\ op'[x].inFlight = op[x].inFlight /\ op[x].user \in User
                 /\ ~op'[x].undone => op[x].user # u /\ ~op[x].undone
    <2>1. CASE x = o
      BY <1>2, <1>3, <2>1
    <2>2. CASE x # o
      <3> DEFINE b == op[x].user = u \/ op[x].undone
      <3>1. op[x] \in Ops /\ b \in BOOLEAN
        BY DEF TypeOK, Ops
      <3>2. op'[x] = [op[x] EXCEPT !.undone = b]
        BY <1>2, <2>2
      <3>3. /\ op'[x] \in Ops /\ op'[x].route = op[x].route /\ op'[x].step = op[x].step
            /\ op'[x].user = op[x].user /\ op'[x].todo = op[x].todo
            /\ op'[x].inFlight = op[x].inFlight /\ op'[x].undone = b
        <4>1. PICK q \in Ops, v \in BOOLEAN : q = op[x] /\ v = b
          BY <3>1
        <4>2. op'[x] = [q EXCEPT !.undone = v]
          BY <3>2, <4>1
        <4> HIDE DEF b
        <4>3. [q EXCEPT !.undone = v] \in Ops
          BY DEF Ops
        <4>4. /\ op'[x].route = q.route /\ op'[x].step = q.step /\ op'[x].user = q.user
              /\ op'[x].todo = q.todo /\ op'[x].inFlight = q.inFlight /\ op'[x].undone = v
          BY <4>2 DEF Ops
        <4> QED
          BY <4>1, <4>2, <4>3, <4>4
      <3> QED
        BY <3>3, Requested
    <2> QED
      BY <2>1, <2>2
  <1>5. \A v \in User : /\ Of(v, "exchanged")' = Of(v, "exchanged")
                        /\ Of(v, "live")' = Of(v, "live")
    BY <1>2 DEF Of
  <1>6. TypeOK'
    <2>1. account' \in [User -> {"active", "suspended", "deleted"}]
          /\ closed' \in [User -> Closing \cup {"no"}]
      BY <1>2 DEF TypeOK
    <2>2. op' \in [Op -> Ops]
      BY <1>2, <1>4
    <2>3. \A x \in Op : op'[x].route # "idle" => op'[x].step <= Len(Plan[op'[x].route])
      BY <1>4 DEF TypeOK
    <2> QED
      BY <1>2, <2>1, <2>2, <2>3 DEF TypeOK
  <1>7. Attributed'
    BY <1>2, <1>4 DEF Attributed
  <1>8. "idle" \notin Suspending \cup Full \cup {"delete"}
    BY DEF Suspending, Full
  <1>9. DoorShut'
    <2> SUFFICES ASSUME NEW x \in Op, op'[x].route \in Suspending, op'[x].step > 1, ~op'[x].undone
        PROVE  /\ account'[op'[x].user] # "active"
               /\ Of(op[x].user, "exchanged")' \subseteq op'[x].inFlight
      BY DEF DoorShut
    <2>1. /\ op[x].user \in User \ {u} /\ op'[x].user = op[x].user
          /\ op'[x].inFlight = op[x].inFlight
      BY <1>4, <1>8
    <2>2. /\ account[op[x].user] # "active"
          /\ Of(op[x].user, "exchanged") \subseteq op[x].inFlight
      BY <1>4, <1>8 DEF DoorShut
    <2>3. account'[op[x].user] = account[op[x].user]
      BY <1>2, <2>1 DEF TypeOK
    <2> QED
      BY <1>5, <2>1, <2>2, <2>3
  <1>10. Counted'
    BY <1>4, <1>5 DEF Counted
  <1>11. Purging'
    BY <1>2, <1>4, <1>8, ZenonT(60) DEF Purging
  <1>12. Closed'
    BY <1>2, <1>5 DEF Closed, TypeOK
  <1> QED
    BY <1>6, <1>7, <1>9, <1>10, <1>11, <1>12

LEMMA BeginInv ==
    ASSUME IInv, NEW o \in Op, NEW k \in Route, NEW u \in User, Begin(o, k, u) PROVE IInv'
  <1> USE DEF IInv
  <1> DEFINE q == [IdleOp EXCEPT !.route = k, !.user = u]
  <1>1. /\ q \in Ops /\ q.route = k /\ q.user = u /\ q.step = 1
    <2>0. IdleOp \in Ops
      BY PlanShape DEF IdleOp, Ops
    <2>1. PICK i \in Ops : i = IdleOp
      BY <2>0, Zenon
    <2>2. i.step = 1 /\ q = [i EXCEPT !.route = k, !.user = u]
      BY <2>1 DEF IdleOp
    <2>3. k \in DOMAIN Plan
      BY DEF Route
    <2> HIDE DEF q
    <2> QED
      BY <2>2, <2>3 DEF Ops
  <1>2. op' = [op EXCEPT ![o] = q]
        /\ UNCHANGED <<account, signedOn, usedSignOn, login, closed, straggler>>
    BY DEF Begin
  <1> HIDE DEF q
  <1>3. op' \in [Op -> Ops] /\ op'[o] = q /\ \A x \in Op \ {o} : op'[x] = op[x]
    BY <1>1, <1>2 DEF TypeOK
  <1>4. 1 <= Len(Plan[k])
    <2>1. PICK n \in 1..4 : n = Len(Plan[k])
      BY PlanShape
    <2>2. 1 <= n
      OBVIOUS
    <2> QED
      BY <2>1, <2>2, Zenon
  <1>5. TypeOK'
    BY <1>1, <1>2, <1>3, <1>4 DEF TypeOK
  <1>6. Attributed'
    BY <1>1, <1>2, <1>3 DEF Attributed
  <1>7. DoorShut'
    BY <1>1, <1>2, <1>3 DEF DoorShut, Of
  <1>8. Counted'
    BY <1>1, <1>2, <1>3 DEF Counted, Of
  <1>9. Purging'
    BY <1>1, <1>2, <1>3 DEF Purging
  <1>10. Closed'
    BY <1>2 DEF Closed, Of
  <1> QED
    BY <1>5, <1>6, <1>7, <1>8, <1>9, <1>10

LEMMA SignsOnInv ==
    ASSUME IInv, NEW u \in User, NEW p \in SignOn, SignsOn(u, p) PROVE IInv'
  <1> USE DEF IInv
  <1>1. /\ account[u] = "active" /\ signedOn' = [signedOn EXCEPT ![u] = @ \cup {p}]
        /\ usedSignOn' = usedSignOn \cup {p}
        /\ UNCHANGED <<account, login, op, closed, straggler>>
    BY DEF SignsOn
  <1>2. signedOn' \in [User -> SUBSET usedSignOn'] /\ \A v \in User \ {u} : signedOn'[v] = signedOn[v]
    BY <1>1 DEF TypeOK
  <1>3. TypeOK'
    BY <1>1, <1>2 DEF TypeOK
  <1>4. Attributed' /\ DoorShut' /\ Counted'
    BY <1>1 DEF Attributed, DoorShut, Counted, Of
  <1>5. Purging'
    <2> SUFFICES ASSUME NEW o \in Op, op[o].route \in Full, ~op[o].undone
        PROVE  /\ op[o].step = 3 => signedOn'[op[o].user] \subseteq op[o].todo
               /\ op[o].step = 4 => signedOn'[op[o].user] = {}
      BY <1>1 DEF Purging
    <2>1. op[o].route \in Suspending /\ op[o].user \in User
      BY Requested, Routing DEF Full
    <2>2. CASE op[o].step \in {3, 4}
      <3>1. op[o].step > 1
        BY <2>2
      <3>2. op[o].user # u
        BY <1>1, <2>1, <3>1 DEF DoorShut
      <3> QED
        BY <1>2, <2>1, <3>2 DEF Purging
    <2> QED
      BY <2>2
  <1>6. Closed'
    BY <1>1, <1>2 DEF Closed, Of
  <1> QED
    BY <1>3, <1>4, <1>5, <1>6

LEMMA ExchangeInv ==
    ASSUME IInv, NEW c \in Login, NEW u \in User, Exchange(c, u) PROVE IInv'
  <1> USE DEF IInv
  <1>1. /\ login[c].state = "none" /\ account[u] = "active"
        /\ login' = [login EXCEPT ![c] = [state |-> "exchanged", user |-> u]]
        /\ op' = [o \in Op |-> IF op[o].route = "delete" /\ op[o].user = u
                     THEN [op[o] EXCEPT !.inFlight = @ \cup {c}] ELSE op[o]]
        /\ UNCHANGED <<account, signedOn, usedSignOn, closed, straggler>>
    BY DEF Exchange
  <1>2. login' \in [Login -> Logins] /\ login'[c] = [state |-> "exchanged", user |-> u]
        /\ \A d \in Login \ {c} : login'[d] = login[d]
    BY <1>1 DEF TypeOK, Logins, LoginStates
  <1>3. ASSUME NEW o \in Op PROVE
            /\ op'[o] \in Ops
            /\ op'[o].route = op[o].route /\ op'[o].step = op[o].step
            /\ op'[o].user = op[o].user /\ op'[o].todo = op[o].todo
            /\ op'[o].undone = op[o].undone
            /\ op[o].inFlight \subseteq op'[o].inFlight
            /\ op[o].route = "delete" /\ op[o].user = u => c \in op'[o].inFlight
    <2>1. PICK q \in Ops : q = op[o]
      BY DEF TypeOK
    <2>2. CASE q.route = "delete" /\ q.user = u
      <3>1. q.inFlight \cup {c} \in SUBSET Login
        BY DEF Ops
      <3>2. op'[o] = [q EXCEPT !.inFlight = q.inFlight \cup {c}]
        BY <1>1, <2>1, <2>2
      <3>3. op'[o] \in Ops
        BY <3>1, <3>2, Fields
      <3>4. /\ op'[o].route = q.route /\ op'[o].step = q.step /\ op'[o].user = q.user
            /\ op'[o].todo = q.todo /\ op'[o].undone = q.undone
            /\ op'[o].inFlight = q.inFlight \cup {c}
        BY <3>2 DEF Ops
      <3> QED
        BY <2>1, <3>3, <3>4
    <2>3. CASE ~(q.route = "delete" /\ q.user = u)
      BY <1>1, <2>1, <2>3
    <2> QED
      BY <2>2, <2>3
  <1>4. \A v \in User : /\ Of(v, "exchanged")' \subseteq Of(v, "exchanged") \cup {c}
                        /\ v # u => Of(v, "exchanged")' = Of(v, "exchanged")
                        /\ Of(v, "live")' = Of(v, "live")
    BY <1>1, <1>2 DEF Of
  <1>5. TypeOK'
    <2>1. op' \in [Op -> Ops]
      BY <1>1, <1>3
    <2>2. \A o \in Op : op'[o].route # "idle" => op'[o].step <= Len(Plan[op'[o].route])
      BY <1>3 DEF TypeOK
    <2> QED
      BY <1>1, <1>2, <2>1, <2>2 DEF TypeOK
  <1>6. Attributed'
    BY <1>2, <1>3 DEF Attributed
  <1>7. "idle" \notin Suspending \cup Full \cup {"delete"}
    BY DEF Suspending, Full
  <1>8. DoorShut'
    <2> SUFFICES ASSUME NEW o \in Op, op[o].route \in Suspending, op[o].step > 1, ~op[o].undone
        PROVE  account'[op[o].user] # "active" /\ Of(op[o].user, "exchanged")' \subseteq op'[o].inFlight
      BY <1>3 DEF DoorShut
    <2>1. /\ op[o].user \in User /\ account[op[o].user] # "active"
          /\ Of(op[o].user, "exchanged") \subseteq op[o].inFlight
      BY <1>7 DEF DoorShut, Attributed
    <2> QED
      BY <1>1, <1>3, <1>4, <2>1
  <1>9. Counted'
    <2> SUFFICES ASSUME NEW o \in Op, op[o].route = "delete", op[o].step > 1
        PROVE  Of(op[o].user, "exchanged")' \cup Of(op[o].user, "live")' \subseteq op'[o].inFlight
      BY <1>3 DEF Counted
    <2>1. /\ op[o].user \in User
          /\ Of(op[o].user, "exchanged") \cup Of(op[o].user, "live") \subseteq op[o].inFlight
      BY <1>7 DEF Counted, Attributed
    <2> QED
      BY <1>3, <1>4, <2>1
  <1>10. Purging'
    BY <1>1, <1>3 DEF Purging
  <1>11. Closed'
    BY <1>1, <1>4 DEF Closed
  <1> QED
    BY <1>5, <1>6, <1>8, <1>9, <1>10, <1>11

\* A provider session ends, a callback stores its session, or a session ends.
LEMMA UserStepInv ==
    ASSUME IInv,
           \/ \E u \in User, p \in SignOn : SignsOff(u, p)
           \/ \E c \in Login : Store(c) \/ EndLogin(c)
    PROVE  IInv'
  <1> USE DEF IInv
  <1>1. UNCHANGED <<account, usedSignOn, op, closed, straggler>>
    BY DEF SignsOff, Store, EndLogin
  <1>2. Quieter
    <2>1. ASSUME NEW u \in User, NEW p \in SignOn, SignsOff(u, p) PROVE Quieter
      BY <2>1 DEF SignsOff, Quieter, TypeOK, Attributed, Of
    <2>2. ASSUME NEW c \in Login, Store(c) \/ EndLogin(c) PROVE Quieter
      <3>1. /\ login' \in [Login -> Logins]
            /\ \A d \in Login : login'[d].user = login[d].user
            /\ \A d \in Login \ {c} : login'[d].state = login[d].state
            /\ login[c].state \in {"exchanged", "live"}
            /\ \/ login'[c].state = "live" /\ login[c].state = "exchanged"
               \/ login'[c].state = "over"
        BY <2>2, SMTT(30) DEF Store, EndLogin, Moved, TypeOK, Logins, LoginStates
      <3>2. UNCHANGED <<account, signedOn, usedSignOn>>
        BY <2>2 DEF Store, EndLogin
      <3>3. \A d \in Login : login'[d].state # "none" => login'[d].user \in User
        BY <3>1 DEF Attributed
      <3>4. \A v \in User : /\ Of(v, "exchanged")' \subseteq Of(v, "exchanged")
                            /\ Of(v, "live")' \subseteq Of(v, "exchanged") \cup Of(v, "live")
        BY <3>1 DEF Of
      <3> QED
        BY <3>1, <3>2, <3>3, <3>4 DEF Quieter, TypeOK
    <2> QED
      BY <2>1, <2>2
  <1>3. op' \in [Op -> Ops] /\ \A o \in Op : op'[o] = op[o]
    BY <1>1 DEF TypeOK
  <1> HIDE DEF IInv
  <1> QED
    BY <1>1, <1>2, <1>3, QuieterInv

LEMMA RunInv == ASSUME IInv, NEW o \in Op, Run(o) PROVE IInv'
  BY SuspendInv, ListInv, PurgeInv, RevokeInv, RestoreInv, RemoveInv, FailInv DEF Run

LEMMA NextInv == IInv /\ [Next]_vars => IInv'
  <1> SUFFICES ASSUME IInv, [Next]_vars PROVE IInv'
    OBVIOUS
  <1>1. CASE \E u \in User, p \in SignOn : SignsOn(u, p)
    BY <1>1, SignsOnInv
  <1>2. CASE \E c \in Login, u \in User : Exchange(c, u)
    BY <1>2, ExchangeInv
  <1>3. CASE \/ \E u \in User, p \in SignOn : SignsOff(u, p)
             \/ \E c \in Login : Store(c) \/ EndLogin(c)
    BY <1>3, UserStepInv
  <1>4. CASE \E o \in Op, k \in Route, u \in User : Begin(o, k, u)
    BY <1>4, BeginInv
  <1>5. CASE \E o \in Op : Run(o)
    BY <1>5, RunInv
  <1>6. CASE UNCHANGED vars
    BY <1>6 DEF vars, IInv, TypeOK, Attributed, DoorShut, Counted, Purging, Closed, Of
  <1> QED
    BY <1>1, <1>2, <1>3, <1>4, <1>5, <1>6 DEF Next

LEMMA Invariants == Spec => []IInv
  BY InitInv, NextInv, PTL DEF Spec

\* What the invariant promises.
LEMMA Promises == IInv => ClosedOnlyStragglers /\ NothingLeftUpstream
  <1> SUFFICES ASSUME IInv PROVE ClosedOnlyStragglers /\ NothingLeftUpstream
    OBVIOUS
  <1> USE DEF IInv
  <1>1. ClosedOnlyStragglers
    BY DEF Closed, ClosedOnlyStragglers
  <1>2. ASSUME NEW o \in Op, At(o, "revoke"), op[o].route \in Full, ~op[o].undone
        PROVE  account[op[o].user] # "active" /\ signedOn[op[o].user] = {}
    <2>1. op[o].step = 4 /\ op[o].route \in Suspending
      BY <1>2, AtCall, PlanShape, Routing
    <2> QED
      BY <1>2, <2>1 DEF Purging, DoorShut
  <1>3. NothingLeftUpstream
    BY <1>2 DEF NothingLeftUpstream, Closed, Full
  <1> QED
    BY <1>1, <1>3

\* Every variable of AccountClosure keeps its shape, whatever requests, sign-ins
\* and failures come in any order.
THEOREM ClosureTypes == Spec => []TypeOK
  <1>1. IInv => TypeOK
    BY DEF IInv
  <1> QED
    BY <1>1, Invariants, PTL

\* deactivate_me, suspend_user, update_user, delete_user: a session that is live
\* on a closed account is one whose callback was in flight when it was closed.
THEOREM ClosureLeavesStragglers == Spec => []ClosedOnlyStragglers
  BY Invariants, Promises, PTL

\* deactivate_me and suspend_user: no provider session is left when the user's own
\* sessions are revoked, nor afterwards.
THEOREM ClosureEndsSignOns == Spec => []NothingLeftUpstream
  BY Invariants, Promises, PTL

-----------------------------------------------------------------------------
(* The same requests as their callers send them.                           *)

Requests == [by : Login \cup {None}, token : Token \cup {None}, does : Does,
             on : User \cup {None}]

\* What changes the claims or ends a session of one user concerns a user.
Aimed == \A o \in Op : request[o].does \in {"claims", "signOff"} => request[o].on \in User

\* deactivate_me closes the account of the session's own user.
Own ==
    \A o \in Op : request[o].does = "deactivate" =>
        /\ request[o].by \in Login
        /\ login[request[o].by].state # "none"
        /\ op[o].user = login[request[o].by].user

AdminIInv == IInv /\ AdminTypeOK /\ Aimed /\ Own

\* What the routes do, table by table.
LEMMA RouteShape ==
    /\ Route = {"deactivate", "suspend", "patch", "restore", "delete"}
    /\ \A route \in Routes :
         /\ route.does \in Does
         /\ route.does = "deactivate" => route.needs = "session"
         /\ route.needs \notin Writes => route.does \in {"none", "signOff", "deactivate"}
         /\ "session" \notin Writes
  <1>1. Route = {"deactivate", "suspend", "patch", "restore", "delete"}
    BY PlanShape DEF Route
  <1> DEFINE Shaped(route) ==
         /\ route.does \in Does
         /\ route.does = "deactivate" => route.needs = "session"
         /\ route.needs \notin Writes => route.does \in {"none", "signOff", "deactivate"}
  <1>2. ASSUME NEW name \in DOMAIN AccountRoutes PROVE Shaped(AccountRoutes[name])
    BY <1>1, <1>2 DEF AccountRoutes, Needs, Does
  <1>3. ASSUME NEW name \in DOMAIN UserRoutes PROVE Shaped(UserRoutes[name])
    BY <1>1, <1>3 DEF UserRoutes, Needs, Does, Writes
  <1>4. ASSUME NEW name \in DOMAIN RoleRoutes PROVE Shaped(RoleRoutes[name])
    BY <1>1, <1>4 DEF RoleRoutes, Needs, Does, Writes
  <1>5. ASSUME NEW name \in DOMAIN OrganizationRoutes PROVE Shaped(OrganizationRoutes[name])
    BY <1>1, <1>5 DEF OrganizationRoutes, Needs, Does, Writes
  <1>6. ASSUME NEW name \in DOMAIN MemberRoutes PROVE Shaped(MemberRoutes[name])
    BY <1>1, <1>6 DEF MemberRoutes, Scoped, Does, Writes
  <1>7. ASSUME NEW name \in DOMAIN AuditRoutes PROVE Shaped(AuditRoutes[name])
    BY <1>1, <1>7 DEF AuditRoutes, Needs, Does, Writes
  <1>8. "session" \notin Writes
    BY DEF Writes
  <1> HIDE DEF Shaped
  <1>9. \A route \in Routes : Shaped(route)
    BY <1>2, <1>3, <1>4, <1>5, <1>6, <1>7 DEF Routes
  <1> QED
    BY <1>1, <1>8, <1>9 DEF Shaped

\* What a session may do, from its claims.
LEMMA MayDo ==
    ASSUME NEW t \in Token, NEW may \in Permitted[t]
    PROVE  /\ may.does \in Does
           /\ may.does = "deactivate" => may.own
           /\ Harmless(t) => may.does \in {"none", "signOff", "deactivate"}
  <1>1. PICK route \in Routes, g \in Organization :
            /\ may = [does |-> route.does, own |-> route.needs = "session"]
            /\ Permits(PrincipalOf(Claims[t]), route, g)
    BY DEF Permitted
  <1>2. may.does = route.does /\ (may.own <=> route.needs = "session")
    BY <1>1
  <1>3. ASSUME Harmless(t) PROVE route.needs \notin Writes
    <2> DEFINE c == Claims[t]
               p == PrincipalOf(c)
    <2>1. p.permissions \subseteq Says(t)
      BY DEF PrincipalOf, Says, OrElse
    <2>2. p.roles \subseteq Says(t)
      <3> DEFINE tenant == IF c.nsTenant # None THEN c.nsTenant ELSE c.organization_id
                 here == {r[2] : r \in {x \in c.organization_roles : x[1] = tenant}}
      <3>1. p.roles = OrElse(c.nsRoles, c.roles) \cup here
        BY DEF PrincipalOf
      <3>2. here \subseteq {r[2] : r \in {x \in c.organization_roles :
                                  x[1] \in {c.nsTenant, c.organization_id}}}
        OBVIOUS
      <3>3. OrElse(c.nsRoles, c.roles) \subseteq c.nsRoles \cup c.roles
        BY DEF OrElse
      <3>4. here \subseteq Says(t) /\ c.nsRoles \cup c.roles \subseteq Says(t)
        BY <3>2 DEF Says
      <3> HIDE DEF here
      <3> QED
        BY <3>1, <3>3, <3>4
    <2>3. ~IsAdmin(p)
      BY <1>3, <2>1, <2>2 DEF IsAdmin, Harmless, Writes
    <2>4. route.needs \in Says(t) \cup {"session"}
      BY <1>1, <2>1, <2>3 DEF Permits
    <2> QED
      BY <1>3, <2>4, RouteShape DEF Harmless
  <1> QED
    BY <1>2, <1>3, RouteShape

LEMMA AdminStep == ASSUME Aimed, [AdminNext]_adminVars PROVE [Next]_vars
  <1>1. CASE \E c \in Login, u \in User : AdminExchange(c, u)
    BY <1>1 DEF AdminExchange, Next
  <1>2. CASE Outside
    BY <1>2 DEF Outside, Next
  <1>3. ASSUME NEW o \in Op, NEW u \in User, Ask(o, u) PROVE [Next]_vars
    <2>1. \/ \E k \in Route : Begin(o, k, u)
          \/ UNCHANGED vars
      BY <1>3 DEF Ask
    <2> QED
      BY <2>1 DEF Next
  <1>4. ASSUME NEW o \in Op, AdminRun(o) PROVE [Next]_vars
    BY <1>4 DEF AdminRun, Next
  <1>5. ASSUME NEW o \in Op, ChangeClaims(o) \/ Ends(o) \/ \E c \in Login : Find(o, c)
        PROVE  [Next]_vars
    BY <1>5 DEF ChangeClaims, Ends, Find
  <1>6. ASSUME NEW o \in Op, EndSignOn(o) PROVE [Next]_vars
    <2>1. PICK p \in SignOn : SignsOff(request[o].on, p)
      BY <1>6 DEF EndSignOn
    <2>2. request[o].on \in User
      BY <1>6 DEF EndSignOn, Asked, Aimed
    <2> QED
      BY <2>1, <2>2 DEF Next
  <1>7. CASE UNCHANGED adminVars
    BY <1>7 DEF adminVars
  <1> QED
    BY <1>1, <1>2, <1>3, <1>4, <1>5, <1>6, <1>7 DEF AdminNext

LEMMA NoRequestShape ==
    /\ NoRequest \in Requests /\ NoRequest.by = None /\ NoRequest.does = "none"
    /\ "none" \notin Route /\ "asking" \notin Route
  BY PlanShape DEF NoRequest, Requests, Does, Route

LEMMA AdminInitInv == AdminInit => AdminIInv
  <1> SUFFICES ASSUME AdminInit PROVE AdminIInv
    OBVIOUS
  <1>1. IInv
    BY InitInv DEF AdminInit
  <1>2. /\ \A o \in Op : op[o] = IdleOp /\ request[o] = NoRequest
        /\ \A c \in Login : claims[c] = None /\ login[c].state = "none"
    BY DEF AdminInit, Init
  <1>3. request \in [Op -> Requests]
    BY NoRequestShape DEF AdminInit
  <1>4. AdminTypeOK
    BY <1>2, <1>3, NoRequestShape DEF AdminInit, AdminTypeOK, Requests
  <1>5. Aimed /\ Own
    BY <1>2, NoRequestShape DEF Aimed, Own
  <1> QED
    BY <1>1, <1>4, <1>5 DEF AdminIInv

\* Logins as the steps that make none leave them.
Onward ==
    \A c \in Login :
        /\ login'[c].user = login[c].user
        /\ \/ login'[c].state = login[c].state
           \/ login'[c].state = "over"
           \/ login[c].state = "exchanged" /\ login'[c].state = "live"

\* Claims after such a step.
LEMMA OnwardInv ==
    ASSUME AdminIInv, IInv', Onward, Forget
    PROVE  /\ claims' \in [Login -> Token \cup {None}]
           /\ \A c \in Login : claims'[c] # None <=> login'[c].state \in {"exchanged", "live"}
           /\ \A c \in Login : claims'[c] # None => claims'[c] = claims[c]
  <1> USE DEF AdminIInv
  <1>1. \A c \in Login : claims'[c] = IF login'[c].state = "over" THEN None ELSE claims[c]
    BY DEF Forget
  <1>2. claims' \in [Login -> Token \cup {None}]
    BY DEF Forget, AdminTypeOK
  <1>3. \A c \in Login : claims'[c] # None <=> login'[c].state \in {"exchanged", "live"}
    BY <1>1 DEF Onward, AdminTypeOK
  <1> QED
    BY <1>1, <1>2, <1>3

\* A step of a request keeps the others as they are, as far as callers tell.
LEMMA RunEffect ==
    ASSUME AdminIInv, NEW o \in Op, Run(o)
    PROVE  /\ op[o] # IdleOp
           /\ op'[o] # IdleOp => op'[o].route = op[o].route /\ op'[o].user = op[o].user
           /\ \A x \in Op \ {o} : /\ op'[x] = IdleOp <=> op[x] = IdleOp
                                  /\ op'[x].route = op[x].route
                                  /\ op'[x].user = op[x].user
           /\ Onward
  <1> USE DEF AdminIInv, IInv
  <1>1. IdleOp.route = "idle" /\ "idle" \notin Route
    BY DEF IdleOp, Route
  <1>2. op[o].route # "idle"
    BY DEF Run, Suspend, List, Purge, Revoke, Restore, Remove, Fail, FailAfterEffect, At
  <1>3. op \in [Op -> Ops] /\ \A x \in Op : op[x] \in Ops
    BY DEF TypeOK
  <1>4. Onward
    <2>1. CASE Revoke(o)
      BY <2>1 DEF Revoke, Onward, Of, TypeOK, Logins
    <2>2. CASE ~Revoke(o)
      <3>1. UNCHANGED login
        BY <2>2 DEF Run, Suspend, List, Purge, Restore, Remove, Fail, FailAfterEffect
      <3> QED
        BY <3>1 DEF Onward
    <2> QED
      BY <2>1, <2>2
  <1>5. CASE Restore(o)
    <2>1. op[o].user # None
      BY <1>2, Requested, ClosureAssumption
    <2>2. op'[o] = IdleOp
      BY <1>5 DEF Restore
    <2>3. ASSUME NEW x \in Op \ {o} PROVE
              /\ op'[x] = IdleOp <=> op[x] = IdleOp
              /\ op'[x].route = op[x].route /\ op'[x].user = op[x].user
      <3>1. op'[x] = [op[x] EXCEPT !.undone = op[x].user = op[o].user \/ op[x].undone]
        BY <1>5 DEF Restore
      <3>2. op'[x].route = op[x].route /\ op'[x].user = op[x].user
        BY <1>3, <3>1 DEF Ops
      <3>3. ASSUME op[x] = IdleOp PROVE op'[x] = IdleOp
        <4>1. /\ op[x].user = None /\ op[x].undone = FALSE
              /\ (op[x].user = op[o].user \/ op[x].undone) = FALSE
          BY <2>1, <3>3 DEF IdleOp
        <4>2. op'[x] = [IdleOp EXCEPT !.undone = FALSE]
          BY <3>1, <3>3, <4>1
        <4> QED
          BY <4>2 DEF IdleOp
      <3>4. op[x] # IdleOp => op[x].route # "idle"
        BY <1>1 DEF AdminTypeOK
      <3> QED
        BY <1>1, <3>2, <3>3, <3>4
    <2> QED
      BY <1>1, <1>2, <1>4, <2>2, <2>3
  <1>6. CASE ~Restore(o)
    <2>1. PICK r : /\ op' = [op EXCEPT ![o] = r]
                   /\ r = IdleOp \/ (r.route = op[o].route /\ r.user = op[o].user)
      <3>1. ASSUME NEW q \in Ops, q.route = op[o].route, q.user = op[o].user, Proceed(o, q)
            PROVE  \E r : /\ op' = [op EXCEPT ![o] = r]
                          /\ r = IdleOp \/ (r.route = op[o].route /\ r.user = op[o].user)
        <4> DEFINE r == [q EXCEPT !.step = @ + 1]
        <4>1. op' = [op EXCEPT ![o] = IdleOp] \/ op' = [op EXCEPT ![o] = r]
          BY <3>1 DEF Proceed
        <4>2. r.route = op[o].route /\ r.user = op[o].user
          BY <3>1 DEF Ops
        <4> HIDE DEF r
        <4> QED
          BY <4>1, <4>2
      <3>2. CASE Suspend(o)
        <4>1. PICK q \in Ops : q = [op[o] EXCEPT !.inFlight = Of(op[o].user, "exchanged"), !.undone = FALSE]
          BY <1>3 DEF Ops, Of
        <4> QED
          BY <1>3, <3>1, <3>2, <4>1 DEF Suspend, Ops
      <3>3. CASE List(o)
        <4>1. signedOn[op[o].user] \in SUBSET SignOn
          BY <3>3, AtCall DEF List, TypeOK
        <4>2. PICK q \in Ops : q = [op[o] EXCEPT !.todo = signedOn[op[o].user]]
          BY <1>3, <4>1 DEF Ops
        <4> QED
          BY <1>3, <3>1, <3>3, <4>2 DEF List, Ops
      <3>4. CASE Purge(o)
        <4>1. CASE op[o].todo = {}
          BY <1>3, <3>1, <3>4, <4>1 DEF Purge
        <4>2. CASE op[o].todo # {}
          <5>1. PICK p : op' = [op EXCEPT ![o].todo = @ \ {p}]
            BY <3>4, <4>2 DEF Purge
          <5>2. op' = [op EXCEPT ![o] = [op[o] EXCEPT !.todo = @ \ {p}]]
            BY <5>1
          <5>3. /\ [op[o] EXCEPT !.todo = @ \ {p}].route = op[o].route
                /\ [op[o] EXCEPT !.todo = @ \ {p}].user = op[o].user
            BY <1>3 DEF Ops
          <5> QED
            BY <5>2, <5>3
        <4> QED
          BY <4>1, <4>2
      <3>5. CASE Revoke(o)
        <4>1. PICK q \in Ops : q = IF op[o].route = "delete"
                     THEN [op[o] EXCEPT !.inFlight = Of(op[o].user, "exchanged")] ELSE op[o]
          BY <1>3 DEF Ops, Of
        <4> QED
          BY <1>3, <3>1, <3>5, <4>1 DEF Revoke, Ops
      <3>6. CASE Remove(o)
        BY <1>3, <3>1, <3>6 DEF Remove
      <3>7. CASE Fail(o) \/ FailAfterEffect(o)
        BY <3>7 DEF Fail, FailAfterEffect
      <3> QED
        BY <1>6, <3>2, <3>3, <3>4, <3>5, <3>6, <3>7 DEF Run
    <2> QED
      BY <1>1, <1>2, <1>3, <1>4, <2>1
  <1> QED
    BY <1>5, <1>6

LEMMA AdminExchangeInv ==
    ASSUME AdminIInv, IInv', NEW c \in Login, NEW u \in User, AdminExchange(c, u)
    PROVE  AdminIInv'
  <1> USE DEF AdminIInv
  <1>1. /\ claims' = [claims EXCEPT ![c] = granted[u]]
        /\ UNCHANGED <<granted, request>>
        /\ login[c].state = "none"
        /\ login' = [login EXCEPT ![c] = [state |-> "exchanged", user |-> u]]
        /\ op' = [o \in Op |-> IF op[o].route = "delete" /\ op[o].user = u
                     THEN [op[o] EXCEPT !.inFlight = @ \cup {c}] ELSE op[o]]
    BY DEF AdminExchange, Exchange
  <1>2. granted[u] \in Token /\ granted[u] # None
    BY AdministrationAssumption DEF AdminTypeOK
  <1>3. /\ login'[c].state = "exchanged" /\ login'[c].user = u
        /\ \A d \in Login \ {c} : login'[d] = login[d]
    BY <1>1 DEF IInv, TypeOK
  <1>4. claims'[c] = granted[u] /\ \A d \in Login \ {c} : claims'[d] = claims[d]
    BY <1>1 DEF AdminTypeOK
  <1>5. ASSUME NEW o \in Op PROVE
            /\ op'[o] # IdleOp <=> op[o] # IdleOp
            /\ op'[o].route = op[o].route
            /\ op'[o].user = op[o].user
    <2>1. op[o] \in Ops
      BY DEF IInv, TypeOK
    <2>2. CASE op[o].route = "delete" /\ op[o].user = u
      <3>1. op'[o] = [op[o] EXCEPT !.inFlight = @ \cup {c}]
        BY <1>1, <2>2
      <3>2. op'[o].route = "delete" /\ op'[o].user = u
        BY <2>1, <2>2, <3>1 DEF Ops
      <3> QED
        BY <2>2, <3>2 DEF IdleOp
    <2>3. CASE ~(op[o].route = "delete" /\ op[o].user = u)
      BY <1>1, <2>3
    <2> QED
      BY <2>2, <2>3
  <1>6. AdminTypeOK'
    <2>1. claims' \in [Login -> Token \cup {None}]
      BY <1>1, <1>2 DEF AdminTypeOK
    <2>2. \A d \in Login : claims'[d] # None <=> login'[d].state \in {"exchanged", "live"}
      BY <1>2, <1>3, <1>4 DEF AdminTypeOK
    <2>3. \A o \in Op : /\ op'[o] # IdleOp <=> request'[o].does \in Route
                        /\ op'[o] # IdleOp => op'[o].route = request'[o].does
      BY <1>1, <1>5 DEF AdminTypeOK
    <2> QED
      BY <1>1, <2>1, <2>2, <2>3 DEF AdminTypeOK
  <1>7. Aimed'
    BY <1>1 DEF Aimed
  <1>8. Own'
    BY <1>1, <1>3, <1>5 DEF Own
  <1> QED
    BY <1>6, <1>7, <1>8

\* Own as logins move on.
LEMMA OwnOnward ==
    ASSUME AdminIInv, Onward,
           \A o \in Op : request'[o].does = "deactivate" =>
               /\ request'[o] = request[o]
               /\ op'[o].user = op[o].user
    PROVE  Own'
  BY DEF AdminIInv, Own, Onward

LEMMA OutsideInv == ASSUME AdminIInv, IInv', Outside PROVE AdminIInv'
  <1>1. Onward
    BY DEF Outside, SignsOn, SignsOff, Store, EndLogin, Moved, Onward, AdminIInv, IInv, TypeOK, Logins
  <1>2. UNCHANGED <<op, granted, request>> /\ Forget
    BY DEF Outside, SignsOn, SignsOff, Store, EndLogin
  <1>3. AdminTypeOK'
    BY <1>1, <1>2, OnwardInv DEF AdminIInv, AdminTypeOK
  <1>4. Aimed' /\ Own'
    BY <1>1, <1>2, OwnOnward DEF AdminIInv, Aimed
  <1> QED
    BY <1>3, <1>4 DEF AdminIInv

LEMMA FindInv ==
    ASSUME AdminIInv, IInv', NEW o \in Op, NEW c \in Login, Find(o, c)
    PROVE  AdminIInv'
  <1> USE DEF AdminIInv
  <1> DEFINE r == [by |-> c, token |-> claims[c], does |-> "asking", on |-> None]
  <1>1. /\ op[o] = IdleOp /\ login[c].state = "live"
        /\ request' = [request EXCEPT ![o] = r]
        /\ UNCHANGED <<vars, granted, claims>>
    BY DEF Find
  <1>2. claims[c] \in Token
    BY <1>1 DEF AdminTypeOK
  <1>3. /\ r \in Requests /\ r.does = "asking" /\ r.by = c /\ r.token = claims[c]
        /\ r.by # None /\ r.token # None
    BY <1>2, AdministrationAssumption, ClosureAssumption DEF Requests, Does
  <1> HIDE DEF r
  <1>4. request' \in [Op -> Requests]
    BY <1>1, <1>3 DEF AdminTypeOK, Requests
  <1>5. request'[o] = r /\ \A x \in Op \ {o} : request'[x] = request[x]
    BY <1>1 DEF AdminTypeOK
  <1>6. AdminTypeOK'
    BY <1>1, <1>3, <1>4, <1>5, NoRequestShape DEF AdminTypeOK, Requests, vars
  <1>7. Aimed'
    BY <1>3, <1>5 DEF Aimed
  <1>8. Own'
    BY <1>1, <1>3, <1>5 DEF Own, vars
  <1> QED
    BY <1>6, <1>7, <1>8

LEMMA AskInv ==
    ASSUME AdminIInv, IInv', NEW o \in Op, NEW u \in User, Ask(o, u)
    PROVE  AdminIInv'
  <1> USE DEF AdminIInv
  <1> DEFINE c == request[o].by
  <1>1. request[o].does = "asking" /\ UNCHANGED <<granted, claims>>
    BY DEF Ask
  <1>2. PICK may \in Permitted[request[o].token] :
            /\ may.does # "none" => login[c].state = "live"
            /\ may.own \/ may.does \in {"none", "allClaims"} => u = login[c].user
            /\ request' = [request EXCEPT ![o].does = may.does,
                  ![o].on = IF may.does \in {"claims", "signOff"} THEN u ELSE None]
            /\ IF may.does \in Route THEN Begin(o, may.does, u) ELSE UNCHANGED vars
    BY DEF Ask
  <1>3. /\ request \in [Op -> Requests] /\ request[o] \in Requests
        /\ c # None /\ request[o].token # None /\ op[o] = IdleOp
    BY <1>1, NoRequestShape DEF AdminTypeOK, Requests
  <1>4. c \in Login /\ request[o].token \in Token
    BY <1>3 DEF Requests
  <1>5. /\ may.does \in Does
        /\ may.does = "deactivate" => may.own
    BY <1>2, <1>4, MayDo
  <1>6. request'[o] = [request[o] EXCEPT !.does = may.does,
                   !.on = IF may.does \in {"claims", "signOff"} THEN u ELSE None]
    BY <1>2, <1>3
  <1>7. /\ request'[o].by = c /\ request'[o].token = request[o].token
        /\ request'[o].does = may.does
        /\ may.does \in {"claims", "signOff"} => request'[o].on = u
        /\ request'[o] \in Requests
    <2> DEFINE on == IF may.does \in {"claims", "signOff"} THEN u ELSE None
    <2>1. on \in User \cup {None} /\ (may.does \in {"claims", "signOff"} => on = u)
      OBVIOUS
    <2>2. request'[o] = [request[o] EXCEPT !.does = may.does, !.on = on]
      BY <1>6
    <2> HIDE DEF on
    <2>3. /\ request'[o].by = c /\ request'[o].token = request[o].token
          /\ request'[o].does = may.does /\ request'[o].on = on
      BY <1>3, <2>2 DEF Requests
    <2>4. request'[o] \in Requests
      BY <1>3, <1>5, <2>1, <2>2 DEF Requests
    <2> QED
      BY <2>1, <2>3, <2>4
  <1>8. /\ \A x \in Op \ {o} : request'[x] = request[x]
        /\ DOMAIN request' = Op
        /\ request' = [x \in Op |-> request'[x]]
    BY <1>2, <1>3
  <1>9. UNCHANGED login
    BY <1>2 DEF Begin, vars
  <1>10. ASSUME NEW x \in Op PROVE
            /\ op'[x] # IdleOp <=> request'[x].does \in Route
            /\ op'[x] # IdleOp => op'[x].route = request'[x].does
            /\ x # o => op'[x] = op[x]
            /\ x = o /\ may.does \in Route => op'[x].user = u
    <2>1. CASE may.does \in Route
      <3>1. op' = [op EXCEPT ![o] = [IdleOp EXCEPT !.route = may.does, !.user = u]]
        BY <1>2, <2>1 DEF Begin
      <3>2. op'[o].route = may.does /\ op'[o].user = u /\ op'[o] # IdleOp
        BY <2>1, <3>1 DEF IInv, TypeOK, IdleOp, Route
      <3>3. x # o => op'[x] = op[x]
        BY <3>1 DEF IInv, TypeOK
      <3> QED
        BY <1>7, <1>8, <2>1, <3>2, <3>3 DEF AdminTypeOK
    <2>2. CASE may.does \notin Route
      BY <1>2, <1>3, <1>7, <1>8, <2>2 DEF vars, AdminTypeOK
    <2> QED
      BY <2>1, <2>2
  <1>11. AdminTypeOK'
    <2>1. request' \in [Op -> Requests]
      BY <1>3, <1>7, <1>8
    <2>2. ASSUME NEW x \in Op PROVE
              /\ request'[x].by # None => request'[x].token # None
              /\ request'[x].by = None => request'[x] = NoRequest
      BY <1>3, <1>7, <1>8 DEF AdminTypeOK
    <2> QED
      BY <1>1, <1>9, <1>10, <2>1, <2>2 DEF AdminTypeOK, Requests
  <1>12. Aimed'
    BY <1>7, <1>8 DEF Aimed
  <1>13. Own'
    <2> SUFFICES ASSUME NEW x \in Op, request'[x].does = "deactivate"
                 PROVE  /\ request'[x].by \in Login
                        /\ login'[request'[x].by].state # "none"
                        /\ op'[x].user = login'[request'[x].by].user
      BY DEF Own
    <2>1. CASE x = o
      BY <1>2, <1>4, <1>5, <1>7, <1>9, <1>10, <2>1, RouteShape
    <2>2. CASE x # o
      BY <1>8, <1>9, <1>10, <2>2 DEF Own
    <2> QED
      BY <2>1, <2>2
  <1> QED
    BY <1>11, <1>12, <1>13

\* A request is answered: one that worked on an account, with its last step.
LEMMA AnsweredOnly ==
    ASSUME AdminTypeOK, Aimed, NEW o \in Op, Answered(o)
    PROVE  /\ request' \in [Op -> Requests]
           /\ request'[o] = NoRequest
           /\ \A x \in Op \ {o} : request'[x] = request[x]
           /\ Aimed'
  <1>1. request \in [Op -> Requests]
    BY DEF AdminTypeOK, Requests
  <1>2. request'[o] = NoRequest /\ \A x \in Op \ {o} : request'[x] = request[x]
    BY <1>1 DEF Answered
  <1>3. request' \in [Op -> Requests]
    BY <1>1, NoRequestShape DEF Answered
  <1> QED
    BY <1>2, <1>3, NoRequestShape DEF Aimed

LEMMA AdminRunInv == ASSUME AdminIInv, IInv', NEW o \in Op, AdminRun(o) PROVE AdminIInv'
  <1> USE DEF AdminIInv
  <1>1. Run(o) /\ Forget /\ UNCHANGED granted
    BY DEF AdminRun
  <1>2. /\ claims' \in [Login -> Token \cup {None}]
        /\ \A c \in Login : claims'[c] # None <=> login'[c].state \in {"exchanged", "live"}
    BY <1>1, RunEffect, OnwardInv
  <1>3. CASE op'[o] = IdleOp
    <2>1. Answered(o)
      BY <1>3 DEF AdminRun
    <2>2. /\ request' \in [Op -> Requests]
          /\ request'[o] = NoRequest
          /\ \A x \in Op \ {o} : request'[x] = request[x]
          /\ Aimed'
      BY <2>1, AnsweredOnly
    <2>3. ASSUME NEW x \in Op PROVE
              /\ request'[x].by # None => request'[x].token # None
              /\ request'[x].by = None => request'[x] = NoRequest
              /\ op'[x] # IdleOp <=> request'[x].does \in Route
              /\ op'[x] # IdleOp => op'[x].route = request'[x].does
      <3>1. CASE x = o
        BY <1>3, <2>2, <3>1, NoRequestShape
      <3>2. CASE x # o
        BY <1>1, <2>2, <3>2, RunEffect DEF AdminTypeOK
      <3> QED
        BY <3>1, <3>2
    <2>4. AdminTypeOK'
      BY <1>1, <1>2, <2>2, <2>3 DEF AdminTypeOK, Requests
    <2>5. Own'
      BY <1>1, <2>2, RunEffect, OwnOnward, NoRequestShape
    <2> QED
      BY <2>2, <2>4, <2>5
  <1>4. CASE op'[o] # IdleOp
    <2>1. UNCHANGED request
      BY <1>4 DEF AdminRun
    <2>2. AdminTypeOK' /\ Aimed'
      BY <1>1, <1>2, <1>4, <2>1, RunEffect DEF AdminTypeOK, Aimed
    <2>3. Own'
      BY <1>1, <1>4, <2>1, RunEffect, OwnOnward
    <2> QED
      BY <2>2, <2>3
  <1> QED
    BY <1>3, <1>4

LEMMA OtherInv ==
    ASSUME AdminIInv, IInv', NEW o \in Op, ChangeClaims(o) \/ EndSignOn(o) \/ Ends(o)
    PROVE  AdminIInv'
  <1> USE DEF AdminIInv
  <1>1. Answered(o) /\ UNCHANGED <<login, op, claims>> /\ request[o].does \notin Route
    BY PlanShape DEF ChangeClaims, EndSignOn, Ends, Asked, vars, SignsOff, Route
  <1>2. granted' \in [User -> Token]
    BY DEF ChangeClaims, EndSignOn, Ends, AdminTypeOK
  <1>3. /\ request' \in [Op -> Requests]
        /\ request'[o] = NoRequest
        /\ \A x \in Op \ {o} : request'[x] = request[x]
        /\ Aimed'
    BY <1>1, AnsweredOnly
  <1>4. AdminTypeOK'
    BY <1>1, <1>2, <1>3, NoRequestShape DEF AdminTypeOK, Requests
  <1>5. Own'
    BY <1>1, <1>3, OwnOnward, NoRequestShape DEF Onward
  <1> QED
    BY <1>3, <1>4, <1>5

LEMMA AdminNextInv == AdminIInv /\ [AdminNext]_adminVars => AdminIInv'
  <1> SUFFICES ASSUME AdminIInv, [AdminNext]_adminVars PROVE AdminIInv'
    OBVIOUS
  <1>1. IInv'
    BY AdminStep, NextInv DEF AdminIInv
  <1>2. CASE UNCHANGED adminVars
    BY <1>1, <1>2 DEF adminVars, vars, AdminIInv, AdminTypeOK, Aimed, Own
  <1>3. CASE AdminNext
    BY <1>1, <1>3, AdminExchangeInv, OutsideInv, FindInv, AskInv, AdminRunInv, OtherInv
    DEF AdminNext
  <1> QED
    BY <1>2, <1>3

LEMMA AdminInvariants == AdminSpec => []AdminIInv
  BY AdminInitInv, AdminNextInv, PTL DEF AdminSpec

\* Whatever the callers of the routes do, the accounts go through steps of
\* AccountClosure only: its theorems hold of them.
THEOREM AdministrationImplementsClosure == AdminSpec => Spec
  <1>1. AdminInit => Init
    BY DEF AdminInit
  <1>2. AdminIInv => Aimed
    BY DEF AdminIInv
  <1>3. Aimed /\ [AdminNext]_adminVars => [Next]_vars
    BY AdminStep
  <1> QED
    BY <1>1, <1>2, <1>3, AdminInvariants, PTL DEF Spec, AdminSpec

\* Requests and claims keep their shape: a request on an account is one of
\* AccountClosure's, and a login has claims as long as it may act.
THEOREM AdminTypes == AdminSpec => []AdminTypeOK
  <1>1. AdminIInv => AdminTypeOK
    BY DEF AdminIInv
  <1> QED
    BY <1>1, AdminInvariants, PTL

\* Accounts change with a step of a request only, and only the one it is about.
LEMMA AccountEffect ==
    ASSUME AdminIInv, AdminNext, NEW u \in User, account'[u] # account[u]
    PROVE  \E o \in Op : request[o].does \in Route /\ op[o].user = u
  <1>1. PICK o \in Op : AdminRun(o)
    BY DEF AdminNext, AdminExchange, Exchange, Outside, SignsOn, SignsOff, Store, EndLogin,
           Find, Ask, Begin, ChangeClaims, EndSignOn, Ends, vars
  <1>2. Run(o)
    BY <1>1 DEF AdminRun
  <1>3. op[o].user = u
    BY <1>2 DEF Run, Suspend, List, Purge, Revoke, Restore, Remove, Fail, FailAfterEffect,
                AdminIInv, IInv, TypeOK
  <1>4. request[o].does \in Route
    BY <1>2, RunEffect DEF AdminIInv, AdminTypeOK
  <1> QED
    BY <1>3, <1>4

\* Without a request that changes them, the provider tells the same of everyone.
LEMMA GrantedEffect ==
    ASSUME AdminNext, \A o \in Op : request[o].by # None =>
               request[o].does \in {"asking", "none", "signOff", "deactivate"}
    PROVE  granted' = granted
  BY DEF AdminNext, AdminExchange, Outside, Find, Ask, AdminRun, ChangeClaims, EndSignOn,
         Ends, Asked

\* What a request is, that nobody who may write has sent.
Mild(r) ==
    r.by # None => /\ Harmless(r.token)
                   /\ r.does \in {"asking", "none", "signOff", "deactivate"}

\* While nobody may write, a step makes nobody who may.
LEMMA PowerlessStep == ASSUME AdminIInv, AdminNext, Powerless PROVE Powerless'
  <1> USE DEF AdminIInv
  <1>1. \A u \in User : Harmless(granted'[u])
    BY GrantedEffect DEF Powerless
  <1>2. ASSUME NEW c \in Login, claims'[c] # None PROVE Harmless(claims'[c])
    <2>1. ASSUME NEW d \in Login, NEW u \in User, AdminExchange(d, u)
          PROVE  Harmless(claims'[c])
      <3>1. claims' = [claims EXCEPT ![d] = granted[u]]
        BY <2>1 DEF AdminExchange
      <3>2. claims'[c] = granted[u] \/ claims'[c] = claims[c]
        BY <3>1 DEF AdminTypeOK
      <3> QED
        BY <1>2, <3>2 DEF Powerless
    <2>2. CASE Forget
      <3>1. claims'[c] = claims[c]
        BY <1>2, <2>2 DEF Forget
      <3> QED
        BY <1>2, <3>1 DEF Powerless
    <2>3. CASE UNCHANGED claims
      BY <1>2, <2>3 DEF Powerless
    <2> QED
      BY <2>1, <2>2, <2>3
      DEF AdminNext, Outside, Find, Ask, AdminRun, ChangeClaims, EndSignOn, Ends
  <1>3. ASSUME NEW o \in Op PROVE Mild(request'[o])
    <2>1. \A x \in Op : Mild(request[x])
      BY DEF Powerless, Mild
    <2>2. Mild(NoRequest)
      BY NoRequestShape DEF Mild
    <2>3. CASE UNCHANGED request
      BY <2>1, <2>3
    <2>4. ASSUME NEW x \in Op, Answered(x) PROVE Mild(request'[o])
      BY <2>1, <2>2, <2>4 DEF Answered, AdminTypeOK
    <2>5. ASSUME NEW x \in Op, NEW c \in Login, Find(x, c) PROVE Mild(request'[o])
      <3> DEFINE r == [by |-> c, token |-> claims[c], does |-> "asking", on |-> None]
      <3>1. login[c].state = "live" /\ request' = [request EXCEPT ![x] = r]
        BY <2>5 DEF Find
      <3>2. Harmless(claims[c])
        BY <3>1 DEF AdminTypeOK, Powerless
      <3>3. Mild(r)
        BY <3>2 DEF Mild
      <3> HIDE DEF r
      <3> QED
        BY <2>1, <3>1, <3>3 DEF AdminTypeOK
    <2>6. ASSUME NEW x \in Op, NEW u \in User, Ask(x, u) PROVE Mild(request'[o])
      <3>1. CASE o # x
        <4>1. request'[o] = request[o]
          BY <2>6, <3>1 DEF Ask, AdminTypeOK
        <4> QED
          BY <2>1, <4>1
      <3>2. CASE o = x
        <4>1. request[x] \in Requests /\ request[x].does = "asking"
          BY <2>6 DEF Ask, AdminTypeOK, Requests
        <4>2. request[x].by # None /\ request[x].token \in Token
          BY <4>1, NoRequestShape DEF AdminTypeOK, Requests
        <4>3. Harmless(request[x].token)
          BY <4>2 DEF Powerless
        <4>4. PICK may \in Permitted[request[x].token] :
                 request' = [request EXCEPT ![x].does = may.does,
                     ![x].on = IF may.does \in {"claims", "signOff"} THEN u ELSE None]
          BY <2>6 DEF Ask
        <4>5. request'[x] = [request[x] EXCEPT !.does = may.does,
                     !.on = IF may.does \in {"claims", "signOff"} THEN u ELSE None]
          BY <4>4 DEF AdminTypeOK
        <4>6. request'[x].does = may.does /\ request'[x].token = request[x].token
          BY <4>1, <4>5 DEF Requests
        <4>7. may.does \in {"none", "signOff", "deactivate"}
          BY <4>2, <4>3, MayDo
        <4> QED
          BY <3>2, <4>3, <4>6, <4>7 DEF Mild
      <3> QED
        BY <3>1, <3>2
    <2> QED
      BY <2>3, <2>4, <2>5, <2>6
      DEF AdminNext, AdminExchange, Outside, AdminRun, ChangeClaims, EndSignOn, Ends
  <1> QED
    BY <1>1, <1>2, <1>3 DEF Powerless, Mild

\* Whatever the ID tokens say and in which place, and however the requests of all
\* routes, logins and failures interleave: while no token, session or request is of
\* anybody who may write, the API gives nobody a permission, changes nothing that a
\* token will tell, and no account but that of a user who deactivates it
\* (require_permission, _assert_tenant, principal_from_claims, deactivate_me).
THEOREM AuthorityNeverAppears == AdminSpec => PowerlessStaysPowerless
  <1>1. ASSUME AdminIInv, [AdminNext]_adminVars, Powerless PROVE Powerless' /\ granted' = granted
    <2>1. CASE AdminNext
      BY <1>1, <2>1, PowerlessStep, GrantedEffect DEF Powerless
    <2>2. CASE UNCHANGED adminVars
      BY <1>1, <2>2 DEF adminVars, Powerless
    <2> QED
      BY <1>1, <2>1, <2>2
  <1>2. ASSUME AdminIInv, [AdminNext]_adminVars, Powerless, NEW u \in User,
               account'[u] # account[u]
        PROVE  \E o \in Op : request[o].does = "deactivate" /\ login[request[o].by].user = u
    <2>1. AdminNext
      BY <1>2 DEF adminVars, vars
    <2>2. PICK o \in Op : request[o].does \in Route /\ op[o].user = u
      BY <1>2, <2>1, AccountEffect
    <2>3. request[o].by # None
      BY <1>2, <2>2, NoRequestShape DEF AdminIInv, AdminTypeOK
    <2>4. request[o].does = "deactivate"
      BY <1>2, <2>2, <2>3, RouteShape, NoRequestShape DEF Powerless
    <2> QED
      BY <1>2, <2>2, <2>4 DEF AdminIInv, Own
  <1>3. AdminIInv /\ [AdminNext]_adminVars =>
          [Powerless =>
             /\ Powerless'
             /\ granted' = granted
             /\ \A u \in User : account'[u] # account[u] =>
                   \E o \in Op : request[o].does = "deactivate" /\ login[request[o].by].user = u
          ]_adminVars
    BY <1>1, <1>2
  <1> QED
    BY <1>3, AdminInvariants, PTL DEF AdminSpec, PowerlessStaysPowerless
=============================================================================
