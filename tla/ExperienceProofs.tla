--------------------------- MODULE ExperienceProofs ---------------------------
(***************************************************************************)
(* Proofs about Experience: for any number of identifiers and of chains in *)
(* flight, late answers never part a password from its identifier, no      *)
(* registration is finished without the password that was asked for, and a *)
(* disabled form waits for a chain.                                        *)
(***************************************************************************)
EXTENDS Experience, TLAPS

\* What a page p is like, given the chains q.
GoodPage(p, q) ==
    /\ p \in Pages
    /\ p.password # None => p.password = p.identifier
    /\ p.view = "register-verify" /\ settings.password => p.password # None
    /\ p.busy /\ p.view \in Forms \ {"sign-in"} => \E c \in Chain : q[c].kind # "none"
    /\ p.view = "loading" => ~ p.busy /\ \A c \in Chain : q[c].kind = "none"
    /\ p.view \in {"loading", "forgot"} => p.password = None

\* What the chains are like.
GoodCalls(q) ==
    /\ q \in [Chain -> Calls]
    /\ \A c \in Chain : q[c].kind = "finishRegistration" /\ settings.password =>
                            q[c].password = q[c].identifier

Inv ==
    /\ settings \in [byCode : BOOLEAN, password : BOOLEAN]
    /\ saved \in BOOLEAN
    /\ GoodPage(page, calls)
    /\ GoodCalls(calls)

LEMMA InvImplies ==
    Inv => /\ TypeOK /\ PasswordBelongsToIdentifier
           /\ RegistersWithPassword /\ BusyMeansWaiting
  BY DEF Inv, GoodPage, GoodCalls, TypeOK, PasswordBelongsToIdentifier,
         RegistersWithPassword, BusyMeansWaiting, At

\* The empty chain and the page that loads are what they should be.
LEMMA Fresh ==
    /\ NoCall \in Calls
    /\ NoCall.kind = "none"
    /\ \A u \in Urls : /\ Loading(u) \in Pages
                       /\ Loading(u).view = "loading"
                       /\ Loading(u).password = None
                       /\ Loading(u).busy = FALSE
  BY DEF NoCall, Calls, Kinds, Loading, Pages, Views, Urls

LEMMA InvInit == Init => Inv
  <1> SUFFICES ASSUME Init PROVE Inv
    OBVIOUS
  <1>1. GoodPage(page, calls)
    BY Fresh DEF Init, GoodPage, Forms
  <1>2. GoodCalls(calls)
    BY Fresh DEF Init, GoodCalls
  <1> QED
    BY <1>1, <1>2 DEF Init, Inv

-----------------------------------------------------------------------------
(* Steps.                                                                  *)

\* Drawing a page makes it a good one if only the form for the code is amiss.
LEMMA RenderedIsGood ==
    ASSUME NEW p \in Pages, NEW q,
           settings \in [byCode : BOOLEAN, password : BOOLEAN],
           p.password # None => p.password = p.identifier,
           p.busy /\ p.view \in Forms \ {"sign-in"} => \E c \in Chain : q[c].kind # "none",
           p.view # "loading",
           p.view = "forgot" => p.password = None
    PROVE  GoodPage(Rendered(p), q)
  <1> DEFINE incomplete == /\ p.view = "register-verify"
                           /\ \/ None \in {p.identifier, p.verificationId}
                              \/ settings.password /\ p.password = None
  <1>1. CASE ~ incomplete
    <2>1. Rendered(p) = p
      BY <1>1 DEF Rendered
    <2> QED
      BY <1>1, <2>1 DEF GoodPage
  <1>2. CASE incomplete
    <2>1. Rendered(p) = [view |-> "register", url |-> "register", busy |-> p.busy,
                         identifier |-> None, verificationId |-> None, password |-> None]
      BY <1>2 DEF Rendered, Forgotten, Pages
    <2> QED
      BY <1>2, <2>1 DEF GoodPage, Pages, Views, Urls, Forms
  <1> QED
    BY <1>1, <1>2

\* Ending a chain keeps the chains good.
LEMMA EndsIsGood ==
    ASSUME GoodCalls(calls), NEW c \in Chain, Ends(c)
    PROVE  GoodCalls(calls')
  BY Fresh DEF GoodCalls, Ends

\* A submission whose page and chain are good is a good step.
LEMMA SubmitsIsGood ==
    ASSUME Inv, NEW c \in Chain, NEW v \in Forms, NEW q \in Calls, NEW p \in Pages,
           Submits(c, v, q, p),
           q.kind # "none",
           q.kind = "finishRegistration" /\ settings.password => q.password = q.identifier,
           p.view = v,
           p.password # None => p.password = p.identifier,
           v # "register" => p.password = page.password
    PROVE  Inv'
  <1>1. page' = [p EXCEPT !.busy = TRUE] /\ page' \in Pages
    BY DEF Submits, Pages
  <1>2. calls' = [calls EXCEPT ![c] = q] /\ calls'[c] = q
    BY DEF Submits, Inv, GoodCalls
  <1>3. GoodCalls(calls)'
    BY <1>2 DEF Inv, GoodCalls, Submits
  <1>4. /\ page'.view = v /\ page'.password = p.password /\ page'.identifier = p.identifier
        /\ page.view = v
    BY <1>1 DEF Submits, Pages
  <1>5. /\ v = "register-verify" /\ settings.password => p.password # None
        /\ v = "forgot" => p.password = None
        /\ v # "loading"
    BY <1>4 DEF Inv, GoodPage, Forms
  <1>6. settings' = settings
    BY DEF Submits
  <1>7. GoodPage(page', calls')
    BY <1>1, <1>2, <1>4, <1>5 DEF GoodPage
  <1> QED
    BY <1>3, <1>6, <1>7 DEF Inv, Submits, GoodPage

LEMMA InvStep == Inv /\ [Next]_vars => Inv'
  <1> SUFFICES ASSUME Inv, [Next]_vars PROVE Inv'
    OBVIOUS
  <1> USE ExperienceAssumption
  <1>0. /\ settings \in [byCode : BOOLEAN, password : BOOLEAN]
        /\ saved \in BOOLEAN
        /\ GoodPage(page, calls)
        /\ GoodCalls(calls)
        /\ page \in Pages
        /\ calls \in [Chain -> Calls]
        /\ page.password # None => page.password = page.identifier
        /\ page.busy /\ page.view \in Forms \ {"sign-in"} => \E c \in Chain : calls[c].kind # "none"
    BY DEF Inv, GoodPage, GoodCalls
  <1>1. ASSUME Loaded PROVE Inv'
    <2>1. /\ page' \in Pages
          /\ page'.busy = FALSE /\ page'.password = None
          /\ page'.view \in {"sign-in", "register", "forgot", "forgot-verify"}
      BY <1>0, <1>1, ZenonT(60) DEF Loaded, Pages, Views, Forms, Urls, GoodPage
    <2>2. GoodPage(page, calls)'
      BY <2>1 DEF GoodPage
    <2> QED
      BY <1>0, <1>1, <2>2 DEF Loaded, Inv, GoodCalls
  <1>2. ASSUME NEW c \in Chain, LoadedCallback(c) PROVE Inv'
    <2>1. GoodPage(page, calls)'
      BY <1>0, <1>2 DEF LoadedCallback, GoodPage, Pages, Views, Forms
    <2>2. calls' \in [Chain -> Calls]
      BY <1>0, <1>2 DEF LoadedCallback, Calls, Kinds
    <2>3. \A d \in Chain : calls'[d] = calls[d] \/ calls'[d].kind = "callback"
      BY <1>0, <1>2 DEF LoadedCallback, Calls
    <2> QED
      BY <1>0, <1>2, <2>1, <2>2, <2>3 DEF LoadedCallback, Inv, GoodCalls
  <1>3. ASSUME LoadFails PROVE Inv'
    <2>1. GoodPage(page, calls)'
      BY <1>0, <1>3 DEF LoadFails, GoodPage, Pages, Views, Forms
    <2> QED
      BY <1>0, <1>3, <2>1 DEF LoadFails, Inv, GoodCalls
  <1>4. ASSUME NEW u \in Urls, Reload(u) PROVE Inv'
    <2>1. GoodPage(page, calls)'
      BY <1>4, Fresh DEF Reload, GoodPage, Forms
    <2>2. GoodCalls(calls)'
      BY <1>4, Fresh DEF Reload, GoodCalls
    <2> QED
      BY <1>0, <1>4, <2>1, <2>2 DEF Reload, Inv
  <1>5. ASSUME NEW v \in Forms, Navigate(v) PROVE Inv'
    <2>1. page' = [view |-> v, url |-> v, busy |-> FALSE,
                   identifier |-> None, verificationId |-> None, password |-> None]
      BY <1>0, <1>5 DEF Navigate, Forgotten, Pages
    <2>2. v \in {"sign-in", "register", "forgot"}
      BY <1>5 DEF Navigate, Leads
    <2>3. GoodPage(page, calls)'
      BY <2>1, <2>2 DEF GoodPage, Pages, Views, Forms, Urls
    <2> QED
      BY <1>0, <1>5, <2>3 DEF Navigate, Inv, GoodCalls
  <1>6. ASSUME NEW c \in Chain, NEW i \in Identifier, SignIn(c, i) PROVE Inv'
    <2> DEFINE q == [NoCall EXCEPT !.kind = "signIn", !.identifier = i, !.password = i]
    <2>1. q \in Calls /\ q.kind = "signIn"
      BY DEF NoCall, Calls, Kinds
    <2>2. Submits(c, "sign-in", q, page) /\ page.view = "sign-in" /\ "sign-in" \in Forms
      BY <1>6 DEF SignIn, Submits, Forms
    <2> HIDE DEF q
    <2> QED
      BY <1>0, <2>1, <2>2, SubmitsIsGood
  <1>7. ASSUME NEW c \in Chain, NEW i \in Identifier, Register(c, i) PROVE Inv'
    <2> DEFINE q == [NoCall EXCEPT !.kind = "register", !.identifier = i]
               pw == IF settings.password THEN i ELSE None
               p == [page EXCEPT !.identifier = i, !.password = pw]
    <2>1. q \in Calls /\ q.kind = "register"
      BY DEF NoCall, Calls, Kinds
    <2>2. p \in Pages /\ p.view = page.view /\ (p.password # None => p.password = p.identifier)
      BY <1>0 DEF Pages
    <2>3. Submits(c, "register", q, p) /\ page.view = "register" /\ "register" \in Forms
      BY <1>7 DEF Register, Submits, Forms
    <2> HIDE DEF q, p
    <2> QED
      BY <2>1, <2>2, <2>3, SubmitsIsGood
  <1>8. ASSUME NEW c \in Chain, NEW i \in Identifier, Forgot(c, i) PROVE Inv'
    <2> DEFINE q == [NoCall EXCEPT !.kind = "forgot", !.identifier = i]
               p == [page EXCEPT !.identifier = i]
    <2>1. q \in Calls /\ q.kind = "forgot"
      BY DEF NoCall, Calls, Kinds
    <2>2. Submits(c, "forgot", q, p) /\ page.view = "forgot" /\ "forgot" \in Forms
      BY <1>8 DEF Forgot, Submits, Forms
    <2>3. p \in Pages /\ p.view = page.view /\ p.password = page.password /\ p.password = None
      BY <1>0, <2>2 DEF Pages, GoodPage
    <2> HIDE DEF q, p
    <2> QED
      BY <2>1, <2>2, <2>3, SubmitsIsGood
  <1>9. ASSUME NEW c \in Chain, FinishRegistration(c) PROVE Inv'
    <2> DEFINE q == [kind |-> "finishRegistration", identifier |-> page.identifier,
                     password |-> page.password, verificationId |-> page.verificationId]
    <2>1. q \in Calls /\ q.kind = "finishRegistration"
      BY <1>0 DEF Calls, Kinds, Pages
    <2>2. Submits(c, "register-verify", q, page) /\ page.view = "register-verify"
          /\ "register-verify" \in Forms
      BY <1>9 DEF FinishRegistration, Finish, Submits, Forms
    <2>3. settings.password => q.password = q.identifier
      BY <1>0, <2>2 DEF GoodPage
    <2> HIDE DEF q
    <2> QED
      BY <1>0, <2>1, <2>2, <2>3, SubmitsIsGood
  <1>10. ASSUME NEW c \in Chain, FinishForgotPassword(c) PROVE Inv'
    <2> DEFINE q == [kind |-> "finishForgotPassword", identifier |-> page.identifier,
                     password |-> page.identifier, verificationId |-> page.verificationId]
    <2>1. q \in Calls /\ q.kind = "finishForgotPassword"
      BY <1>0 DEF Calls, Kinds, Pages
    <2>2. Submits(c, "forgot-verify", q, page) /\ page.view = "forgot-verify"
          /\ "forgot-verify" \in Forms
      BY <1>10 DEF FinishForgotPassword, Finish, Submits, Forms
    <2> HIDE DEF q
    <2> QED
      BY <1>0, <2>1, <2>2, SubmitsIsGood
  <1>11. ASSUME NEW c \in Chain, Social(c) PROVE Inv'
    <2>1. GoodPage(page, calls)'
      BY <1>0, <1>11 DEF Social, GoodPage, Pages
    <2>2. calls' \in [Chain -> Calls]
      BY <1>0, <1>11 DEF Social, Calls, Kinds
    <2>3. \A d \in Chain : calls'[d] = calls[d] \/ calls'[d].kind = "social"
      BY <1>0, <1>11 DEF Social, Calls
    <2> QED
      BY <1>0, <1>11, <2>1, <2>2, <2>3 DEF Social, Inv, GoodCalls
  \* The answers: the page they make is good, drawn or not, and the chain ends.
  <1>12. ASSUME NEW c \in Chain, Ends(c), UNCHANGED settings, saved' \in BOOLEAN,
                NEW p \in Pages, page' = p \/ page' = Rendered(p),
                p.password # None => p.password = p.identifier,
                p.view # "register-verify" \/ page' = Rendered(p),
                p.view = "forgot" => p.password = None,
                p.view # "loading",
                ~ p.busy \/ p.view \notin Forms \ {"sign-in"}
         PROVE  Inv'
    <2>1. settings' = settings /\ settings' \in [byCode : BOOLEAN, password : BOOLEAN]
      BY <1>0, <1>12
    <2>2. GoodPage(Rendered(p), calls')
      BY <1>0, <1>12, RenderedIsGood
    <2>3. page' = p /\ p.view # "register-verify" => GoodPage(page', calls')
      BY <1>12 DEF GoodPage
    <2>4. GoodPage(page', calls')
      BY <1>12, <2>2, <2>3
    <2>5. GoodCalls(calls')
      BY <1>0, <1>12, EndsIsGood
    <2> QED
      BY <1>12, <2>1, <2>4, <2>5 DEF Inv, GoodPage, GoodCalls
  <1>13. ASSUME Answer PROVE Inv'
    <2> SUFFICES ASSUME NEW c \in Chain, page.view # "left",
                        \/ Fails(c) \/ CodeSent(c) \/ NameAccepted(c)
                        \/ Redirects(c) \/ NoRedirect(c) \/ SocialAuthorized(c)
                 PROVE  Inv'
      BY <1>13 DEF Answer
    <2>0. page.view # "forgot" \/ page.password = None
      BY <1>0 DEF GoodPage
    <2>1. CASE Fails(c)
      <3> DEFINE p == [page EXCEPT !.busy = FALSE,
                                   !.view = IF At(c, "callback") THEN "sign-in" ELSE @]
      <3>1. /\ p \in Pages /\ p.busy = FALSE
            /\ p.password = page.password /\ p.identifier = page.identifier
            /\ p.view \in {page.view, "sign-in"}
        BY <1>0 DEF Pages, Views, Forms
      <3>2. page.view # "loading"
        BY <1>0, <2>1 DEF Fails, At, GoodPage
      <3>3. page' = Rendered(p) /\ Ends(c) /\ UNCHANGED settings /\ saved' \in BOOLEAN
        BY <1>0, <2>1 DEF Fails
      <3> HIDE DEF p
      <3> QED
        BY <1>0, <1>12, <2>0, <3>1, <3>2, <3>3
    <2>2. CASE CodeSent(c)
      <3> DEFINE v == IF At(c, "register") THEN "register-verify" ELSE "forgot-verify"
                 p == [page EXCEPT
                       !.verificationId = calls[c].identifier, !.busy = FALSE, !.view = v,
                       !.url = IF At(c, "register") THEN "register" ELSE "forgot"]
      <3>1. /\ p \in Pages /\ p.busy = FALSE
            /\ p.password = page.password /\ p.identifier = page.identifier
            /\ p.view \in {"register-verify", "forgot-verify"}
        BY <1>0 DEF Pages, Views, Forms, Urls, Calls
      <3>2. page' = Rendered(p) /\ Ends(c) /\ UNCHANGED settings /\ saved' \in BOOLEAN
        BY <1>0, <2>2 DEF CodeSent
      <3> HIDE DEF p
      <3> QED
        BY <1>0, <1>12, <3>1, <3>2
    <2>3. CASE NameAccepted(c)
      <3> DEFINE q == [calls[c] EXCEPT !.kind = "registerName", !.password = page.password]
      <3>0. q \in Calls
        <4>1. calls[c] \in Calls
          BY <1>0
        <4>2. page.password \in Identifier \cup {None} /\ "registerName" \in Kinds
          BY <1>0 DEF Pages, Kinds
        <4>3. \A r \in Calls, k \in Kinds, w \in Identifier \cup {None} :
                [r EXCEPT !.kind = k, !.password = w] \in Calls
          BY DEF Calls
        <4> QED
          BY <4>1, <4>2, <4>3
      <3>1. calls' \in [Chain -> Calls]
        <4>1. calls' = [calls EXCEPT ![c] = q]
          BY <2>3 DEF NameAccepted
        <4> HIDE DEF q
        <4> QED
          BY <1>0, <3>0, <4>1
      <3>2. \A d \in Chain : calls'[d] = calls[d] \/ calls'[d].kind = "registerName"
        BY <1>0, <2>3 DEF NameAccepted, Calls
      <3>3. GoodPage(page, calls)'
        BY <1>0, <2>3, <3>2 DEF NameAccepted, GoodPage, At
      <3> QED
        BY <1>0, <2>3, <3>1, <3>2, <3>3 DEF NameAccepted, Inv, GoodCalls
    <2>4. /\ After(c) \in Pages
          /\ After(c).busy = page.busy
          /\ After(c).view = page.view
          /\ After(c).password \in {page.password, None}
          /\ After(c).identifier = page.identifier
      BY <1>0 DEF After, Pages
    <2>5. CASE Redirects(c)
      <3> DEFINE p == [After(c) EXCEPT !.view = "left"]
      <3>1. /\ p \in Pages /\ p.view = "left"
            /\ p.password = After(c).password /\ p.identifier = After(c).identifier
        BY <2>4 DEF Pages, Views
      <3>2. page' = p /\ Ends(c) /\ UNCHANGED settings /\ saved' \in BOOLEAN
        BY <1>0, <2>5 DEF Redirects
      <3>3. p.view \notin Forms
        BY <3>1 DEF Forms
      <3> HIDE DEF p
      <3> QED
        BY <1>0, <1>12, <2>4, <3>1, <3>2, <3>3
    <2>6. CASE NoRedirect(c) /\ page' = [After(c) EXCEPT !.view = "sign-in"]
      <3> DEFINE p == [After(c) EXCEPT !.view = "sign-in"]
      <3>1. /\ p \in Pages /\ p.view = "sign-in"
            /\ p.password = After(c).password /\ p.identifier = After(c).identifier
        BY <2>4 DEF Pages, Views, Forms
      <3>2. page' = p /\ Ends(c) /\ UNCHANGED settings /\ saved' \in BOOLEAN
        BY <1>0, <2>6 DEF NoRedirect
      <3> HIDE DEF p
      <3> QED
        BY <1>0, <1>12, <2>4, <3>1, <3>2
    <2>7. CASE NoRedirect(c) /\ page' # [After(c) EXCEPT !.view = "sign-in"]
      <3> DEFINE p == [After(c) EXCEPT !.busy = FALSE,
                                       !.view = IF At(c, "callback") THEN "sign-in" ELSE @]
      <3>1. /\ p \in Pages /\ p.busy = FALSE
            /\ p.password = After(c).password /\ p.identifier = After(c).identifier
            /\ p.view \in {page.view, "sign-in"}
        BY <2>4 DEF Pages, Views, Forms
      <3>2. page.view # "loading"
        BY <1>0, <2>7 DEF NoRedirect, Submitted, GoodPage
      <3>3. page' = Rendered(p) /\ Ends(c) /\ UNCHANGED settings /\ saved' \in BOOLEAN
        BY <1>0, <2>7 DEF NoRedirect
      <3> HIDE DEF p
      <3> QED
        BY <1>0, <1>12, <2>0, <2>4, <3>1, <3>2, <3>3
    <2>8. CASE SocialAuthorized(c)
      <3> DEFINE p == [page EXCEPT !.view = "left"]
      <3>1. /\ p \in Pages /\ p.view = "left" /\ p.view \notin Forms
            /\ p.password = page.password /\ p.identifier = page.identifier
        BY <1>0 DEF Pages, Views, Forms
      <3>2. page' = p /\ Ends(c) /\ UNCHANGED settings /\ saved' \in BOOLEAN
        BY <2>8 DEF SocialAuthorized
      <3> HIDE DEF p
      <3> QED
        BY <1>0, <1>12, <3>1, <3>2
    <2> QED
      BY <2>1, <2>2, <2>3, <2>5, <2>6, <2>7, <2>8
  <1>14. CASE UNCHANGED vars
    BY <1>0, <1>14 DEF vars, Inv, GoodPage, GoodCalls
  <1> QED
    BY <1>1, <1>2, <1>3, <1>4, <1>5, <1>6, <1>7, <1>8, <1>9, <1>10, <1>11, <1>13, <1>14
    DEF Next, User

LEMMA InvAlways == Spec => []Inv
  BY InvInit, InvStep, PTL DEF Spec

\* Every reachable state of the pages is well formed.
THEOREM ExperienceTypeCorrect == Spec => []TypeOK
  BY InvAlways, InvImplies, PTL

\* The page never holds the password of one identifier next to another one,
\* whatever calls of abandoned forms are answered.
THEOREM PasswordsStayWithIdentifiers == Spec => []PasswordBelongsToIdentifier
  BY InvAlways, InvImplies, PTL

\* No registration is finished without the password sign-up asks for.
THEOREM RegistrationsHavePasswords == Spec => []RegistersWithPassword
  BY InvAlways, InvImplies, PTL

\* A disabled form, other than the one for signing in, waits for an answer.
THEOREM NoFormIsStuck == Spec => []BusyMeansWaiting
  BY InvAlways, InvImplies, PTL
=============================================================================
