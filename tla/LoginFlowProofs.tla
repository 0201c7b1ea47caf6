---------------------------- MODULE LoginFlowProofs ----------------------------
(***************************************************************************)
(* Who gets signed in by whom, for any number of browsers, logins and      *)
(* callbacks in flight; and that logins on one site find their way back.   *)
(***************************************************************************)
EXTENDS LoginSites, TLAPS

Passed(c) == cb[c].pc \in {"exchanging", "exchanged", "created"}
Redeemed(c) == cb[c].pc \in {"exchanged", "created"}

\* A browser's state cookie is that of a login it started and that has not
\* signed it in.
CookieInv ==
    \A b \in Browser :
        /\ stateCookie[b] # None => startedBy[stateCookie[b]] = b
        /\ sessionCookie[b] # None => stateCookie[b] # sessionCookie[b]

\* A callback that passed the state check has the verifier of a login of its own
\* browser; from the exchange on the code was that login's, the callback is its
\* only one, and no session exists before its insert.
CallbackInv ==
    \A c \in Callback :
        /\ cb[c].pc # "idle" => cb[c].browser \in Browser
        /\ Passed(c) => /\ cb[c].flow \in Flow /\ cb[c].signed \in Flow
                        /\ startedBy[cb[c].signed] = cb[c].browser
        /\ Redeemed(c) => code[cb[c].flow] = "spent" /\ cb[c].signed = cb[c].flow
        /\ At(c, "exchanged") => cb[c].flow \notin session
        /\ At(c, "created") => cb[c].flow \in session
        /\ \A d \in Callback : Redeemed(c) /\ Redeemed(d) /\ cb[c].flow = cb[d].flow => c = d

SessionInv ==
    /\ \A f \in session : code[f] = "spent"
    /\ \A b \in Browser : sessionCookie[b] # None => sessionCookie[b] \in session

IInv == TypeOK /\ OwnLoginsOnly /\ CookieInv /\ CallbackInv /\ SessionInv

LEMMA InitInv == Init => IInv
  BY LoginAssumption
  DEF Init, Idle, IInv, TypeOK, Requests, PCs, At, OwnLoginsOnly, CookieInv, CallbackInv,
      SessionInv, Passed, Redeemed

\* What a step that changes request c only, to q, does to the requests.
LEMMA RequestStep ==
    ASSUME TypeOK, NEW c \in Callback, NEW q \in Requests,
           q.pc = "idle" <=> q = Idle,
           cb' = [cb EXCEPT ![c] = q]
    PROVE  /\ cb' \in [Callback -> Requests]
           /\ cb'[c] = q
           /\ \A d \in Callback : d # c => cb'[d] = cb[d]
           /\ \A d \in Callback : At(d, "idle")' <=> cb'[d] = Idle
  BY DEF TypeOK, At

\* A request that ends leaves the others alone.
LEMMA EndsStep ==
    ASSUME TypeOK, NEW c \in Callback, Ends(c)
    PROVE  /\ cb' \in [Callback -> Requests]
           /\ cb'[c].pc = "idle"
           /\ \A d \in Callback : d # c => cb'[d] = cb[d]
           /\ \A d \in Callback : At(d, "idle")' <=> cb'[d] = Idle
  <1>1. Idle \in Requests /\ Idle.pc = "idle"
    BY DEF Idle, Requests, PCs
  <1> QED
    BY <1>1, RequestStep DEF Ends

\* A request that moves on to p keeps all else.
LEMMA GotoStep ==
    ASSUME TypeOK, NEW c \in Callback, NEW p \in PCs \ {"idle"}, Goto(c, p)
    PROVE  /\ cb' \in [Callback -> Requests]
           /\ cb'[c].pc = p
           /\ cb'[c].browser = cb[c].browser
           /\ cb'[c].flow = cb[c].flow
           /\ cb'[c].signed = cb[c].signed
           /\ \A d \in Callback : d # c => cb'[d] = cb[d]
           /\ \A d \in Callback : At(d, "idle")' <=> cb'[d] = Idle
  <1>1. PICK q : q = [cb[c] EXCEPT !.pc = p]
    OBVIOUS
  <1>2. cb[c] \in Requests /\ cb' = [cb EXCEPT ![c] = q]
    BY <1>1 DEF TypeOK, Goto
  <1>3. /\ q \in Requests /\ q.pc = p /\ p # "idle"
        /\ q.browser = cb[c].browser /\ q.flow = cb[c].flow /\ q.signed = cb[c].signed
    BY <1>1, <1>2 DEF Requests
  <1>4. Idle.pc = "idle"
    BY DEF Idle
  <1> QED
    BY <1>2, <1>3, <1>4, RequestStep

\* Ending a request never disturbs the requests' invariant.
LEMMA EndsCallback ==
    ASSUME IInv, NEW c \in Callback, Ends(c), UNCHANGED <<startedBy, session>>,
           \A f \in Flow : code[f] = "spent" => code'[f] = "spent"
    PROVE  CallbackInv'
  <1>1. /\ cb'[c].pc = "idle"
        /\ \A d \in Callback : d # c => cb'[d] = cb[d]
    BY EndsStep DEF IInv
  <1>2. \A d \in Callback : Passed(d) => cb[d].flow \in Flow /\ cb[d].signed \in Flow
    BY DEF IInv, CallbackInv
  <1> QED
    BY <1>1, <1>2 DEF IInv, CallbackInv, Passed, Redeemed, At

LEMMA NextInv == IInv /\ [Next]_vars => IInv'
  <1> SUFFICES ASSUME IInv, [Next]_vars PROVE IInv'
    OBVIOUS
  <1> USE LoginAssumption
  <1>0. TypeOK /\ OwnLoginsOnly /\ CookieInv /\ CallbackInv /\ SessionInv
    BY DEF IInv
  <1>1. ASSUME NEW b \in Browser, NEW f \in Flow, Begin(b, f) PROVE IInv'
    <2>1. /\ startedBy[f] = None /\ startedBy'[f] = b
          /\ \A g \in Flow : g # f => startedBy'[g] = startedBy[g]
          /\ stateCookie'[b] = f
          /\ \A a \in Browser : a # b => stateCookie'[a] = stateCookie[a]
          /\ UNCHANGED <<aged, code, sessionCookie, cb, session>>
      BY <1>0, <1>1 DEF Begin, TypeOK
    <2>2. TypeOK'
      BY <1>0, <1>1 DEF Begin, TypeOK, At
    <2>3. /\ \A a \in Browser : stateCookie[a] \in Flow \cup {None}
                                /\ sessionCookie[a] \in Flow \cup {None}
          /\ \A a \in Browser : sessionCookie[a] # None => sessionCookie[a] # f
      BY <1>0, <2>1 DEF TypeOK, OwnLoginsOnly
    <2>4. OwnLoginsOnly'
      BY <1>0, <2>1, <2>3 DEF OwnLoginsOnly
    <2>5. CookieInv'
      BY <1>0, <2>1, <2>3 DEF CookieInv
    <2>6. CallbackInv' /\ SessionInv'
      BY <1>0, <2>1 DEF CallbackInv, SessionInv, Passed, Redeemed, At
    <2> QED
      BY <2>2, <2>4, <2>5, <2>6 DEF IInv
  <1>2. ASSUME NEW f \in Flow, SignIn(f) \/ CodeExpires(f) PROVE IInv'
    <2>1. /\ code' \in [Flow -> {"none", "issued", "spent"}]
          /\ \A g \in Flow : code[g] = "spent" => code'[g] = "spent"
          /\ UNCHANGED <<startedBy, aged, stateCookie, sessionCookie, cb, session>>
      BY <1>0, <1>2 DEF SignIn, CodeExpires, TypeOK
    <2>2. /\ \A c \in Callback : Passed(c) => cb[c].flow \in Flow /\ cb[c].signed \in Flow
          /\ session \subseteq Flow
      BY <1>0 DEF CallbackInv, TypeOK
    <2>3. TypeOK' /\ OwnLoginsOnly' /\ CookieInv'
      BY <1>0, <2>1 DEF TypeOK, OwnLoginsOnly, CookieInv, At
    <2>4. CallbackInv' /\ SessionInv'
      BY <1>0, <2>1, <2>2 DEF CallbackInv, SessionInv, Passed, Redeemed, At
    <2> QED
      BY <2>3, <2>4 DEF IInv
  <1>3. ASSUME NEW f \in Flow, Age(f) PROVE IInv'
    BY <1>0, <1>3 DEF Age, IInv, TypeOK, OwnLoginsOnly, CookieInv, CallbackInv,
       SessionInv, Passed, Redeemed, At
  <1>4. ASSUME NEW b \in Browser, CookieExpires(b) PROVE IInv'
    <2>1. /\ stateCookie' \in [Browser -> Flow \cup {None}]
          /\ \A a \in Browser : stateCookie'[a] = stateCookie[a] \/ stateCookie'[a] = None
          /\ UNCHANGED <<startedBy, aged, code, sessionCookie, cb, session>>
      BY <1>0, <1>4 DEF CookieExpires, TypeOK
    <2> QED
      BY <1>0, <2>1 DEF IInv, TypeOK, OwnLoginsOnly, CookieInv, CallbackInv, SessionInv,
         Passed, Redeemed, At
  <1>5. ASSUME NEW c \in Callback, NEW b \in Browser, NEW f \in Flow, NEW k \in Flow,
               Open(c, b, f, k)
        PROVE  IInv'
    <2>1. PICK q : q = Received(Verdict(f, stateCookie[b]), b, k, stateCookie[b])
      OBVIOUS
    <2>2. /\ cb' = [cb EXCEPT ![c] = q]
          /\ Verdict(f, stateCookie[b]) # "idle"
          /\ UNCHANGED <<startedBy, aged, code, stateCookie, sessionCookie, session>>
      BY <1>5, <2>1 DEF Open
    <2>3. /\ Verdict(f, stateCookie[b]) \in {"exchanging", "clearing"}
          /\ Verdict(f, stateCookie[b]) = "exchanging" => stateCookie[b] = f
      BY <2>2 DEF Verdict
    <2>4. /\ q \in Requests /\ q.browser = b
          /\ q.pc \in {"exchanging", "clearing"}
          /\ q.pc = "exchanging" => stateCookie[b] = f /\ q.flow = k /\ q.signed = f
      BY <1>0, <2>1, <2>3 DEF TypeOK, Requests, PCs, Received, Idle
    <2>5. q.pc # "idle" /\ q # Idle
      BY <2>4 DEF Idle
    <2>6. /\ cb' \in [Callback -> Requests]
          /\ cb'[c] = q
          /\ \A d \in Callback : d # c => cb'[d] = cb[d]
          /\ \A d \in Callback : At(d, "idle")' <=> cb'[d] = Idle
      BY <1>0, <2>2, <2>4, <2>5, RequestStep
    <2>7. TypeOK' /\ OwnLoginsOnly' /\ CookieInv' /\ SessionInv'
      BY <1>0, <2>2, <2>6 DEF TypeOK, OwnLoginsOnly, CookieInv, SessionInv
    <2>8. q.pc = "exchanging" => startedBy[f] = b
      BY <1>0, <2>4 DEF CookieInv
    <2>9. CallbackInv'
      BY <1>0, <2>2, <2>4, <2>6, <2>8 DEF CallbackInv, Passed, Redeemed, At
    <2> QED
      BY <2>7, <2>9 DEF IInv
  <1>6. ASSUME NEW c \in Callback, Cleared(c) PROVE IInv'
    <2>1. /\ stateCookie' \in [Browser -> Flow \cup {None}]
          /\ \A a \in Browser : stateCookie'[a] = stateCookie[a] \/ stateCookie'[a] = None
          /\ Ends(c)
          /\ UNCHANGED <<startedBy, aged, code, sessionCookie, session>>
      BY <1>0, <1>6 DEF Cleared, TypeOK
    <2>2. TypeOK'
      BY <1>0, <2>1, EndsStep DEF TypeOK
    <2>3. CallbackInv'
      BY <2>1, EndsCallback
    <2>4. OwnLoginsOnly' /\ CookieInv' /\ SessionInv'
      BY <1>0, <2>1 DEF TypeOK, OwnLoginsOnly, CookieInv, SessionInv
    <2> QED
      BY <2>2, <2>3, <2>4 DEF IInv
  <1>7. ASSUME NEW c \in Callback, Exchange(c) PROVE IInv'
    <2>1. /\ cb[c].flow \in Flow /\ At(c, "exchanging") /\ code[cb[c].flow] = "issued"
          /\ cb[c].signed = cb[c].flow
      BY <1>0, <1>7 DEF Exchange, Redeems, CallbackInv, Passed, At
    <2>2. /\ code' \in [Flow -> {"none", "issued", "spent"}]
          /\ code'[cb[c].flow] = "spent"
          /\ \A g \in Flow : code[g] = "spent" => code'[g] = "spent"
          /\ UNCHANGED <<startedBy, aged, stateCookie, sessionCookie, session>>
      BY <1>0, <1>7, <2>1 DEF Exchange, TypeOK
    <2>3. "exchanged" \in PCs \ {"idle"}
      BY DEF PCs
    <2>4. /\ cb' \in [Callback -> Requests]
          /\ cb'[c].pc = "exchanged"
          /\ cb'[c].browser = cb[c].browser /\ cb'[c].flow = cb[c].flow
          /\ cb'[c].signed = cb[c].signed
          /\ \A d \in Callback : d # c => cb'[d] = cb[d]
          /\ \A d \in Callback : At(d, "idle")' <=> cb'[d] = Idle
      BY <1>0, <1>7, <2>3, GotoStep DEF Exchange
    <2>5. TypeOK' /\ OwnLoginsOnly' /\ CookieInv'
      BY <1>0, <2>2, <2>4 DEF TypeOK, OwnLoginsOnly, CookieInv
    <2>6. SessionInv'
      BY <1>0, <2>2 DEF TypeOK, SessionInv
    <2>7. /\ cb[c].flow \notin session
          /\ \A d \in Callback : Redeemed(d) => cb[d].flow # cb[c].flow
      BY <1>0, <2>1 DEF SessionInv, CallbackInv
    <2>8. \A d \in Callback : Passed(d) => cb[d].flow \in Flow /\ cb[d].signed \in Flow
      BY <1>0 DEF CallbackInv
    <2>9. CallbackInv'
      <3> SUFFICES ASSUME NEW d \in Callback
                   PROVE  /\ cb'[d].pc # "idle" => cb'[d].browser \in Browser
                          /\ Passed(d)' => /\ cb'[d].flow \in Flow /\ cb'[d].signed \in Flow
                                           /\ startedBy'[cb'[d].signed] = cb'[d].browser
                          /\ Redeemed(d)' => /\ code'[cb'[d].flow] = "spent"
                                             /\ cb'[d].signed = cb'[d].flow
                          /\ At(d, "exchanged")' => cb'[d].flow \notin session'
                          /\ At(d, "created")' => cb'[d].flow \in session'
                          /\ \A e \in Callback : Redeemed(d)' /\ Redeemed(e)'
                                 /\ cb'[d].flow = cb'[e].flow => d = e
        BY DEF CallbackInv
      <3>1. CASE d = c
        BY <3>1, <1>0, <2>1, <2>2, <2>4, <2>7 DEF CallbackInv, Passed, Redeemed, At
      <3>2. CASE d # c
        BY <3>2, <1>0, <2>2, <2>4, <2>7, <2>8 DEF CallbackInv, Passed, Redeemed, At
      <3> QED
        BY <3>1, <3>2
    <2> QED
      BY <2>5, <2>6, <2>9 DEF IInv
  <1>8. ASSUME NEW c \in Callback, ExchangeFails(c) \/ Reject(c) \/ Lose(c) PROVE IInv'
    <2>1. /\ Ends(c)
          /\ code' \in [Flow -> {"none", "issued", "spent"}]
          /\ \A g \in Flow : code[g] = "spent" => code'[g] = "spent"
          /\ UNCHANGED <<startedBy, aged, stateCookie, sessionCookie, session>>
      BY <1>0, <1>8 DEF ExchangeFails, Reject, Lose, TypeOK
    <2>2. TypeOK'
      BY <1>0, <2>1, EndsStep DEF TypeOK
    <2>3. CallbackInv'
      BY <2>1, EndsCallback
    <2>4. OwnLoginsOnly' /\ CookieInv' /\ SessionInv'
      BY <1>0, <2>1 DEF TypeOK, OwnLoginsOnly, CookieInv, SessionInv
    <2> QED
      BY <2>2, <2>3, <2>4 DEF IInv
  <1>9. ASSUME NEW c \in Callback, Create(c) PROVE IInv'
    <2>1. /\ cb[c].flow \in Flow /\ code[cb[c].flow] = "spent" /\ cb[c].browser \in Browser
          /\ cb[c].signed = cb[c].flow
          /\ startedBy[cb[c].flow] = cb[c].browser
          /\ \A d \in Callback : Redeemed(d) /\ d # c => cb[d].flow # cb[c].flow
      BY <1>0, <1>9 DEF Create, CallbackInv, Passed, Redeemed, At
    <2>2. /\ session' = session \cup {cb[c].flow}
          /\ UNCHANGED <<startedBy, aged, code, stateCookie, sessionCookie>>
      BY <1>9 DEF Create
    <2>3. "created" \in PCs \ {"idle"}
      BY DEF PCs
    <2>4. /\ cb' \in [Callback -> Requests]
          /\ cb'[c].pc = "created"
          /\ cb'[c].browser = cb[c].browser /\ cb'[c].flow = cb[c].flow
          /\ cb'[c].signed = cb[c].signed
          /\ \A d \in Callback : d # c => cb'[d] = cb[d]
          /\ \A d \in Callback : At(d, "idle")' <=> cb'[d] = Idle
      BY <1>0, <1>9, <2>3, GotoStep DEF Create
    <2>5. TypeOK' /\ OwnLoginsOnly' /\ CookieInv'
      BY <1>0, <2>1, <2>2, <2>4 DEF TypeOK, OwnLoginsOnly, CookieInv
    <2>6. SessionInv'
      BY <1>0, <2>1, <2>2 DEF SessionInv
    <2>7. CallbackInv'
      BY <1>0, <2>1, <2>2, <2>4 DEF CallbackInv, Passed, Redeemed, At
    <2> QED
      BY <2>5, <2>6, <2>7 DEF IInv
  <1>10. ASSUME NEW c \in Callback, Finish(c) PROVE IInv'
    <2>1. /\ cb[c].flow \in Flow /\ cb[c].browser \in Browser
          /\ startedBy[cb[c].flow] = cb[c].browser /\ cb[c].flow \in session
      BY <1>0, <1>10 DEF Finish, CallbackInv, Passed, Redeemed, At
    <2>2. /\ stateCookie' \in [Browser -> Flow \cup {None}]
          /\ sessionCookie' \in [Browser -> Flow \cup {None}]
          /\ stateCookie'[cb[c].browser] = None
          /\ sessionCookie'[cb[c].browser] = cb[c].flow
          /\ \A a \in Browser : a # cb[c].browser => /\ stateCookie'[a] = stateCookie[a]
                                                     /\ sessionCookie'[a] = sessionCookie[a]
          /\ Ends(c)
          /\ UNCHANGED <<startedBy, aged, code, session>>
      BY <1>0, <1>10, <2>1 DEF Finish, TypeOK
    <2>3. TypeOK'
      BY <1>0, <2>2, EndsStep DEF TypeOK
    <2>4. CallbackInv'
      BY <2>2, EndsCallback
    <2>5. OwnLoginsOnly'
      BY <1>0, <2>1, <2>2 DEF OwnLoginsOnly
    <2>6. CookieInv' /\ SessionInv'
      BY <1>0, <2>1, <2>2 DEF CookieInv, SessionInv
    <2> QED
      BY <2>3, <2>4, <2>5, <2>6 DEF IInv
  <1>11. ASSUME NEW b \in Browser, NEW f \in Flow, BeginUnkept(b, f) PROVE IInv'
    <2>1. /\ startedBy[f] = None /\ startedBy'[f] = b
          /\ startedBy' \in [Flow -> Browser \cup {None}]
          /\ \A g \in Flow : g # f => startedBy'[g] = startedBy[g]
          /\ UNCHANGED <<aged, code, stateCookie, sessionCookie, cb, session>>
      BY <1>0, <1>11 DEF BeginUnkept, TypeOK
    <2>2. TypeOK'
      BY <1>0, <2>1 DEF TypeOK, At
    <2>3. \A a \in Browser : stateCookie[a] \in Flow \cup {None}
                             /\ sessionCookie[a] \in Flow \cup {None}
      BY <1>0 DEF TypeOK
    <2>4. OwnLoginsOnly' /\ CookieInv'
      BY <1>0, <2>1, <2>3 DEF OwnLoginsOnly, CookieInv
    <2>5. CallbackInv' /\ SessionInv'
      BY <1>0, <2>1 DEF CallbackInv, SessionInv, Passed, Redeemed, At
    <2> QED
      BY <2>2, <2>4, <2>5 DEF IInv
  <1>12. CASE UNCHANGED vars
    BY <1>0, <1>12 DEF vars, IInv, TypeOK, OwnLoginsOnly, CookieInv, CallbackInv,
       SessionInv, Passed, Redeemed, At
  <1> QED
    BY <1>1, <1>2, <1>3, <1>4, <1>5, <1>6, <1>7, <1>8, <1>9, <1>10, <1>11, <1>12 DEF Next, Serve

LEMMA Invariance == Spec => []IInv
  BY InitInv, NextInv, PTL DEF Spec

\* Every reachable state of the login flow is well formed.
THEOREM LoginTypeCorrect == Spec => []TypeOK
  <1>1. IInv => TypeOK
    BY DEF IInv
  <1> QED
    BY <1>1, Invariance, PTL

\* A browser is only ever signed in by a login it started itself.
THEOREM BrowsersGetOwnLogins == Spec => []OwnLoginsOnly
  <1>1. IInv => OwnLoginsOnly
    BY DEF IInv
  <1> QED
    BY <1>1, Invariance, PTL

\* A login that signed a browser in cannot be used again.
THEOREM CompletedLoginsAreOver == Spec => []CompletedIsOver
  <1>1. IInv => CompletedIsOver
    <2> SUFFICES ASSUME IInv, NEW b \in Browser, sessionCookie[b] # None
                 PROVE  /\ stateCookie[b] # sessionCookie[b]
                        /\ code[sessionCookie[b]] = "spent"
                        /\ sessionCookie[b] \in session
                        /\ \A c \in Callback : At(c, "exchanged") => cb[c].flow # sessionCookie[b]
      BY DEF CompletedIsOver
    <2>1. sessionCookie[b] \in session /\ code[sessionCookie[b]] = "spent"
      BY DEF IInv, SessionInv
    <2>2. stateCookie[b] # sessionCookie[b]
      BY DEF IInv, CookieInv
    <2> QED
      BY <2>1, <2>2 DEF IInv, CallbackInv
  <1> QED
    BY <1>1, Invariance, PTL

-----------------------------------------------------------------------------
(* LoginFlow implements LoginContract.                                     *)

\* A step of callback c moves its own login only: two callbacks past the exchange
\* never work for the same one.
LEMMA LoginsStep ==
    ASSUME IInv, NEW c \in Callback, NEW p \in {"exchanged", "created"},
           \A d \in Callback : d # c => cb'[d] = cb[d]
    PROVE  LoginsAt(p)' = (LoginsAt(p) \ (IF At(c, p) THEN {cb[c].flow} ELSE {}))
                              \cup (IF At(c, p)' THEN {cb'[c].flow} ELSE {})
  <1>1. \A d \in Callback : At(c, p) /\ At(d, p) /\ d # c => cb[d].flow # cb[c].flow
    BY DEF IInv, CallbackInv, Redeemed, At
  <1>2. \A d \in Callback : d # c => (At(d, p)' <=> At(d, p)) /\ cb'[d].flow = cb[d].flow
    BY DEF At
  <1>3. ASSUME NEW f
        PROVE  f \in LoginsAt(p)' <=>
                   \/ f \in LoginsAt(p) /\ ~(At(c, p) /\ f = cb[c].flow)
                   \/ At(c, p)' /\ f = cb'[c].flow
    <2>1. f \in LoginsAt(p) <=> \E d \in Callback : At(d, p) /\ f = cb[d].flow
      BY DEF LoginsAt
    <2>2. f \in LoginsAt(p)' <=> \E d \in Callback : At(d, p)' /\ f = cb'[d].flow
      BY DEF LoginsAt
    <2>3. ASSUME f \in LoginsAt(p)', ~(At(c, p)' /\ f = cb'[c].flow)
          PROVE  f \in LoginsAt(p) /\ ~(At(c, p) /\ f = cb[c].flow)
      <3>1. PICK d \in Callback : d # c /\ At(d, p)' /\ f = cb'[d].flow
        BY <2>2, <2>3
      <3> QED
        BY <1>1, <1>2, <2>1, <3>1
    <2>4. ASSUME f \in LoginsAt(p), ~(At(c, p) /\ f = cb[c].flow)
          PROVE  f \in LoginsAt(p)'
      <3>1. PICK d \in Callback : d # c /\ At(d, p) /\ f = cb[d].flow
        BY <2>1, <2>4
      <3> QED
        BY <1>2, <2>2, <3>1
    <2>5. ASSUME At(c, p)', f = cb'[c].flow PROVE f \in LoginsAt(p)'
      BY <2>2, <2>5
    <2> QED
      BY <2>3, <2>4, <2>5
  <1> QED
    BY <1>3

\* A callback that ends takes its login out, wherever it was.
LEMMA EndsLogins ==
    ASSUME IInv, NEW c \in Callback, Ends(c)
    PROVE  /\ \A p \in {"exchanged", "created"} :
                 LoginsAt(p)' = LoginsAt(p) \ (IF At(c, p) THEN {cb[c].flow} ELSE {})
           /\ \A p \in {"exchanged", "created"} : At(c, p) => cb[c].flow \in LoginsAt(p)
  <1>1. /\ cb'[c].pc = "idle"
        /\ \A d \in Callback : d # c => cb'[d] = cb[d]
    BY EndsStep DEF IInv
  <1>2. \A p \in {"exchanged", "created"} : ~At(c, p)'
    BY <1>1 DEF At
  <1>3. ASSUME NEW p \in {"exchanged", "created"}
        PROVE  LoginsAt(p)' = LoginsAt(p) \ (IF At(c, p) THEN {cb[c].flow} ELSE {})
    BY <1>1, <1>2, LoginsStep
  <1>4. \A p : At(c, p) => cb[c].flow \in LoginsAt(p)
    BY DEF LoginsAt
  <1> QED
    BY <1>3, <1>4

LEMMA InitContract == Init => LoginContract!LInit
  <1> SUFFICES ASSUME Init PROVE LoginContract!LInit
    OBVIOUS
  <1>1. \A c \in Callback : cb[c].pc = "idle"
    BY DEF Init, Idle
  <1>2. LoginsAt("exchanged") = {} /\ LoginsAt("created") = {}
    BY <1>1 DEF LoginsAt, At
  <1> QED
    BY <1>2 DEF Init, LoginContract!LInit

LEMMA NextContract == IInv /\ [Next]_vars => [LoginContract!LNext]_(LoginContract!lvars)
  <1> SUFFICES ASSUME IInv, [Next]_vars
               PROVE  LoginContract!LNext \/ UNCHANGED LoginContract!lvars
    OBVIOUS
  <1>0. TypeOK /\ CallbackInv /\ SessionInv
    BY DEF IInv
  <1>a. UNCHANGED cb => LoginsAt("exchanged")' = LoginsAt("exchanged")
                        /\ LoginsAt("created")' = LoginsAt("created")
    BY DEF LoginsAt, At
  <1>1. ASSUME NEW b \in Browser, NEW f \in Flow, Begin(b, f) \/ BeginUnkept(b, f)
        PROVE  LoginContract!Start(b, f)
    BY <1>1, <1>a DEF Begin, BeginUnkept, LoginContract!Start
  <1>2. ASSUME NEW f \in Flow, SignIn(f) PROVE LoginContract!Issue(f)
    BY <1>2, <1>a DEF SignIn, LoginContract!Issue
  <1>3. ASSUME NEW f \in Flow, CodeExpires(f) PROVE LoginContract!Spend(f, FALSE)
    BY <1>3, <1>a DEF CodeExpires, LoginContract!Spend
  <1>4. ASSUME (\E f \in Flow : Age(f)) \/ (\E b \in Browser : CookieExpires(b))
        PROVE  UNCHANGED LoginContract!lvars
    BY <1>4, <1>a DEF Age, CookieExpires, LoginContract!lvars
  <1>5. ASSUME NEW c \in Callback, NEW b \in Browser, NEW f \in Flow, NEW k \in Flow,
               Open(c, b, f, k)
        PROVE  UNCHANGED LoginContract!lvars
    <2>1. PICK q : q = Received(Verdict(f, stateCookie[b]), b, k, stateCookie[b])
      OBVIOUS
    <2>2. /\ At(c, "idle") /\ cb' = [cb EXCEPT ![c] = q]
          /\ UNCHANGED <<startedBy, code, sessionCookie, session>>
      BY <1>5, <2>1 DEF Open
    <2>3. q.pc \in {"idle", "exchanging", "clearing"}
      BY <2>1 DEF Verdict, Received, Idle
    <2>4. cb'[c] = q /\ \A d \in Callback : d # c => cb'[d] = cb[d]
      BY <1>0, <2>2 DEF TypeOK
    <2>5. ASSUME NEW p \in {"exchanged", "created"} PROVE LoginsAt(p)' = LoginsAt(p)
      <3>1. ~At(c, p) /\ ~At(c, p)'
        BY <2>2, <2>3, <2>4 DEF At
      <3> QED
        BY <2>4, <3>1, LoginsStep
    <2> QED
      BY <2>2, <2>5 DEF LoginContract!lvars
  <1>6. ASSUME NEW c \in Callback, Cleared(c) \/ ExchangeFails(c)
        PROVE  UNCHANGED LoginContract!lvars
    <2>1. /\ Ends(c) /\ ~At(c, "exchanged") /\ ~At(c, "created")
          /\ UNCHANGED <<startedBy, code, sessionCookie, session>>
      BY <1>6 DEF Cleared, ExchangeFails, At
    <2> QED
      BY <2>1, EndsLogins DEF LoginContract!lvars
  <1>7. ASSUME NEW c \in Callback, Exchange(c) PROVE LoginContract!Spend(cb[c].flow, TRUE)
    <2>1. /\ At(c, "exchanging") /\ code[cb[c].flow] = "issued"
          /\ code' = [code EXCEPT ![cb[c].flow] = "spent"]
          /\ Goto(c, "exchanged")
          /\ UNCHANGED <<startedBy, sessionCookie, session>>
      BY <1>7 DEF Exchange, Redeems
    <2>2. /\ cb'[c].pc = "exchanged" /\ cb'[c].flow = cb[c].flow
          /\ \A d \in Callback : d # c => cb'[d] = cb[d]
      <3>1. "exchanged" \in PCs \ {"idle"}
        BY DEF PCs
      <3> QED
        BY <1>0, <2>1, <3>1, GotoStep
    <2>3. LoginsAt("exchanged")' = LoginsAt("exchanged") \cup {cb[c].flow}
      <3>1. ~At(c, "exchanged") /\ At(c, "exchanged")'
        BY <2>1, <2>2 DEF At
      <3> QED
        BY <2>2, <3>1, LoginsStep
    <2>4. LoginsAt("created")' = LoginsAt("created")
      <3>1. ~At(c, "created") /\ ~At(c, "created")'
        BY <2>1, <2>2 DEF At
      <3> QED
        BY <2>2, <3>1, LoginsStep
    <2> QED
      BY <2>1, <2>3, <2>4 DEF LoginContract!Spend
  <1>8. ASSUME NEW c \in Callback, Reject(c)
        PROVE  LoginContract!Spend(cb[c].flow, FALSE) \/ LoginContract!GiveUp(cb[c].flow)
    <2>1. Ends(c) /\ UNCHANGED <<startedBy, sessionCookie, session>>
      BY <1>8 DEF Reject
    <2>2. CASE At(c, "exchanged") /\ UNCHANGED code
      <3>1. ~At(c, "created") /\ cb[c].flow \notin LoginsAt("created")
        <4>1. ASSUME NEW d \in Callback, At(d, "created") PROVE cb[d].flow # cb[c].flow
          BY <1>0, <2>2, <4>1 DEF CallbackInv, Redeemed, At
        <4> QED
          BY <2>2, <4>1 DEF LoginsAt, At
      <3> QED
        BY <2>1, <2>2, <3>1, EndsLogins DEF LoginContract!GiveUp
    <2>3. CASE /\ At(c, "exchanging") /\ Redeems(c)
               /\ code' = [code EXCEPT ![cb[c].flow] = "spent"]
      <3>1. ~At(c, "exchanged") /\ ~At(c, "created")
        BY <2>3 DEF At
      <3> QED
        BY <2>1, <2>3, <3>1, EndsLogins DEF Redeems, LoginContract!Spend
    <2> QED
      BY <1>8, <2>2, <2>3 DEF Reject
  <1>9. ASSUME NEW c \in Callback, Create(c) PROVE LoginContract!OpenSession(cb[c].flow)
    <2>1. /\ At(c, "exchanged") /\ session' = session \cup {cb[c].flow} /\ Goto(c, "created")
          /\ UNCHANGED <<startedBy, code, sessionCookie>>
      BY <1>9 DEF Create
    <2>2. /\ cb'[c].pc = "created" /\ cb'[c].flow = cb[c].flow
          /\ \A d \in Callback : d # c => cb'[d] = cb[d]
      <3>1. "created" \in PCs \ {"idle"}
        BY DEF PCs
      <3> QED
        BY <1>0, <2>1, <3>1, GotoStep
    <2>3. LoginsAt("exchanged")' = LoginsAt("exchanged") \ {cb[c].flow}
      <3>1. At(c, "exchanged") /\ ~At(c, "exchanged")'
        BY <2>1, <2>2 DEF At
      <3> QED
        BY <2>2, <3>1, LoginsStep
    <2>4. LoginsAt("created")' = LoginsAt("created") \cup {cb[c].flow}
      <3>1. ~At(c, "created") /\ At(c, "created")'
        BY <2>1, <2>2 DEF At
      <3> QED
        BY <2>2, <3>1, LoginsStep
    <2>5. cb[c].flow \in LoginsAt("exchanged") /\ cb[c].flow \notin session
      BY <1>0, <2>1 DEF LoginsAt, CallbackInv
    <2> QED
      BY <2>1, <2>3, <2>4, <2>5 DEF LoginContract!OpenSession
  <1>10. ASSUME NEW c \in Callback, Finish(c) PROVE LoginContract!Answer(cb[c].flow)
    <2>1. /\ At(c, "created") /\ ~At(c, "exchanged") /\ Ends(c)
          /\ sessionCookie' = [sessionCookie EXCEPT ![cb[c].browser] = cb[c].flow]
          /\ UNCHANGED <<startedBy, code, session>>
      BY <1>10 DEF Finish, At
    <2>2. startedBy[cb[c].flow] = cb[c].browser
      BY <1>0, <2>1 DEF CallbackInv, Passed, Redeemed, At
    <2>3. /\ LoginsAt("exchanged")' = LoginsAt("exchanged")
          /\ LoginsAt("created")' = LoginsAt("created") \ {cb[c].flow}
          /\ cb[c].flow \in LoginsAt("created")
      BY <2>1, EndsLogins
    <2> QED
      BY <2>1, <2>2, <2>3 DEF LoginContract!Answer
  <1>11. ASSUME NEW c \in Callback, Lose(c)
         PROVE  LoginContract!GiveUp(cb[c].flow) \/ UNCHANGED LoginContract!lvars
    <2>1. Ends(c) /\ UNCHANGED <<startedBy, code, sessionCookie, session>>
      BY <1>11 DEF Lose
    <2>2. ASSUME At(c, "exchanged") \/ At(c, "created")
          PROVE  LoginContract!GiveUp(cb[c].flow)
      <3>1. \A p \in {"exchanged", "created"} : ~At(c, p) => cb[c].flow \notin LoginsAt(p)
        <4>1. ASSUME NEW d \in Callback, Redeemed(d), d # c PROVE cb[d].flow # cb[c].flow
          BY <1>0, <2>2, <4>1 DEF CallbackInv, Redeemed, At
        <4> QED
          BY <4>1 DEF LoginsAt, Redeemed, At
      <3>2. \A p \in {"exchanged", "created"} : LoginsAt(p)' = LoginsAt(p) \ {cb[c].flow}
        BY <2>1, <3>1, EndsLogins
      <3>3. cb[c].flow \in LoginsAt("exchanged") \cup LoginsAt("created")
        BY <2>1, <2>2, EndsLogins
      <3> QED
        BY <2>1, <3>2, <3>3 DEF LoginContract!GiveUp
    <2>3. ASSUME ~At(c, "exchanged"), ~At(c, "created") PROVE UNCHANGED LoginContract!lvars
      BY <2>1, <2>3, EndsLogins DEF LoginContract!lvars
    <2> QED
      BY <2>2, <2>3
  <1>12. ASSUME UNCHANGED vars PROVE UNCHANGED LoginContract!lvars
    BY <1>12, <1>a DEF vars, LoginContract!lvars
  <1>13. ASSUME NEW c \in Callback, At(c, "exchanging") \/ At(c, "exchanged") \/ At(c, "created")
         PROVE  cb[c].flow \in Flow
    BY <1>0, <1>13 DEF CallbackInv, Passed, At
  <1>14. ASSUME NEW c \in Callback, Serve(c)
         PROVE  LoginContract!LNext \/ UNCHANGED LoginContract!lvars
    <2>1. CASE Cleared(c) \/ ExchangeFails(c)
      BY <1>6, <2>1
    <2>2. CASE Exchange(c)
      BY <1>7, <1>13, <2>2 DEF Exchange, LoginContract!LNext
    <2>3. CASE Reject(c)
      BY <1>8, <1>13, <2>3 DEF Reject, LoginContract!LNext
    <2>4. CASE Create(c)
      BY <1>9, <1>13, <2>4 DEF Create, LoginContract!LNext
    <2>5. CASE Finish(c)
      BY <1>10, <1>13, <2>5 DEF Finish, LoginContract!LNext
    <2>6. CASE Lose(c)
      <3>1. LoginContract!GiveUp(cb[c].flow) => cb[c].flow \in LoginsAt("exchanged") \cup LoginsAt("created")
        BY DEF LoginContract!GiveUp
      <3>2. LoginsAt("exchanged") \cup LoginsAt("created") \subseteq Flow
        BY <1>13 DEF LoginsAt
      <3> QED
        BY <1>11, <2>6, <3>1, <3>2 DEF LoginContract!LNext
    <2> QED
      BY <1>14, <2>1, <2>2, <2>3, <2>4, <2>5, <2>6 DEF Serve
  <1> QED
    BY <1>1, <1>2, <1>3, <1>4, <1>5, <1>12, <1>14 DEF Next, LoginContract!LNext

\* The callback with its cookies, tabs and late answers implements the line of
\* LoginContract: each login is redeemed, stored and answered once, in that order,
\* and the answer reaches the browser it was started from.
THEOREM LoginsWalkOneLine == Spec => KeepsLoginContract
  <1>1. Init => LoginContract!LInit
    BY InitContract
  <1>2. IInv /\ [Next]_vars => [LoginContract!LNext]_(LoginContract!lvars)
    BY NextContract
  <1> QED
    BY <1>1, <1>2, Invariance, PTL DEF Spec, KeepsLoginContract, LoginContract!LSpec

-----------------------------------------------------------------------------
(* Deployments.                                                            *)

\* Every behaviour of a deployment is one of LoginFlow.
LEMMA SiteStep == [SiteNext]_siteVars => [Next]_vars
  BY DEF SiteNext, siteVars, BeginAt, OpenAt, Unaffected, Respond, Next, Serve

THEOREM SitesImplementLoginFlow == SiteSpec => Spec
  <1>1. SiteInit => Init
    BY DEF SiteInit
  <1> QED
    BY <1>1, SiteStep, PTL DEF SiteSpec, Spec

\* On one site every cookie reaches the callback, and a session the web
\* application.
LEMMA CookiesReach ==
    ASSUME site \in Site, OneSite
    PROVE  /\ \A host \in Entries : Carries(host, site.bff)
           /\ Carries(site.bff, Landing)
  <1> USE SitesAssumption
  <1>1. site \in [bff : Host, web : Host \cup {None}, domain : Host \cup {None}]
    OBVIOUS
  <1>2. CASE site.domain # None
    BY <1>1, <1>2 DEF OneSite, Carries, CookieDomain, Entries, Landing
  <1>3. CASE site.domain = None /\ site.web # None
    BY <1>1, <1>3 DEF OneSite, Carries, CookieDomain, Entries, Landing
  <1>4. CASE site.domain = None /\ site.web = None
    BY <1>1, <1>4 DEF OneSite, Carries, CookieDomain, Entries, Landing
  <1> QED
    BY <1>2, <1>3, <1>4

\* A fresh login is its browser's last, waits alone, and has its state.
FreshInv ==
    \A f \in fresh :
        /\ f \in Flow /\ startedBy[f] \in Browser
        /\ \A c \in Callback : cb[c].browser # startedBy[f]
        /\ \A g \in fresh : startedBy[g] = startedBy[f] => g = f
        /\ OneSite /\ f \notin aged => stateCookie[startedBy[f]] = f

SiteInv == IInv /\ site \in Site /\ FreshInv

\* A step that begins no login and opens no callback lets a browser's cookie
\* change only if a response arrives or its state has aged.
LEMMA UnaffectedStep ==
    ASSUME IInv, Unaffected
    PROVE  /\ startedBy' = startedBy
           /\ aged \subseteq aged'
           /\ \A b \in Browser :
                 (\A c \in Callback : cb[c].browser # b)
                     => /\ \A c \in Callback : cb'[c].browser # b
                        /\ stateCookie[b] \notin aged => stateCookie'[b] = stateCookie[b]
  <1> USE LoginAssumption
  <1>1. TypeOK
    BY DEF IInv
  <1>2. \A b \in Browser : b # Idle.browser
    BY DEF Idle
  <1>3. ASSUME NEW f \in Flow, SignIn(f) \/ CodeExpires(f) \/ Age(f)
        PROVE  startedBy' = startedBy /\ aged \subseteq aged' /\ UNCHANGED <<cb, stateCookie>>
    BY <1>3 DEF SignIn, CodeExpires, Age
  <1>4. ASSUME NEW a \in Browser, CookieExpires(a)
        PROVE  /\ UNCHANGED <<startedBy, aged, cb>>
               /\ \A b \in Browser : stateCookie[b] \notin aged => stateCookie'[b] = stateCookie[b]
    BY <1>1, <1>4 DEF CookieExpires, TypeOK
  <1>5. ASSUME NEW c \in Callback,
               Respond(c) \/ Exchange(c) \/ ExchangeFails(c) \/ Reject(c) \/ Create(c) \/ Lose(c)
        PROVE  /\ UNCHANGED <<startedBy, aged>>
               /\ \A d \in Callback : cb'[d].browser = cb[d].browser \/ cb'[d].browser = None
               /\ \A b \in Browser : b # cb[c].browser => stateCookie'[b] = stateCookie[b]
    <2>1. /\ UNCHANGED <<startedBy, aged>>
          /\ \A b \in Browser : b # cb[c].browser => stateCookie'[b] = stateCookie[b]
      BY <1>1, <1>5 DEF Respond, Cleared, Finish, Exchange, ExchangeFails, Reject, Create,
         Lose, TypeOK
    <2>2. Ends(c) \/ \E p \in PCs \ {"idle"} : Goto(c, p)
      BY <1>5 DEF Respond, Cleared, Finish, Exchange, ExchangeFails, Reject, Create, Lose, PCs
    <2>3. CASE Ends(c)
      BY <1>1, <2>1, <2>3 DEF Ends, Idle, TypeOK
    <2>4. ASSUME NEW p \in PCs \ {"idle"}, Goto(c, p)
          PROVE  \A d \in Callback : cb'[d].browser = cb[d].browser
      BY <1>1, <2>4, GotoStep
    <2> QED
      BY <2>1, <2>2, <2>3, <2>4
  <1>6. ASSUME NEW c \in Callback,
               Respond(c) \/ Exchange(c) \/ ExchangeFails(c) \/ Reject(c) \/ Create(c) \/ Lose(c),
               NEW b \in Browser, \A d \in Callback : cb[d].browser # b
        PROVE  /\ \A d \in Callback : cb'[d].browser # b
               /\ stateCookie'[b] = stateCookie[b]
    BY <1>5, <1>6
  <1> QED
    BY <1>3, <1>4, <1>5, <1>6 DEF Unaffected

LEMMA SiteInvariance == SiteSpec => []SiteInv
  <1> USE LoginAssumption
  <1>1. SiteInit => SiteInv
    BY InitInv DEF SiteInit, SiteInv, FreshInv
  <1>2. SiteInv /\ [SiteNext]_siteVars => SiteInv'
    <2> SUFFICES ASSUME SiteInv, [SiteNext]_siteVars PROVE SiteInv'
      OBVIOUS
    <2>1. IInv /\ TypeOK /\ CookieInv /\ FreshInv /\ site \in Site
      BY DEF SiteInv, IInv
    <2>2. IInv'
      BY <2>1, SiteStep, NextInv
    <2>3. site' = site /\ (OneSite' <=> OneSite)
      BY DEF SiteNext, siteVars, OneSite, Entries
    <2>4. ASSUME NEW b \in Browser, NEW f \in Flow, NEW host \in Entries, BeginAt(b, f, host)
          PROVE  FreshInv'
      <3>1. /\ startedBy[f] = None /\ startedBy'[f] = b
            /\ \A g \in Flow : g # f => startedBy'[g] = startedBy[g]
            /\ \A a \in Browser : a # b => stateCookie'[a] = stateCookie[a]
            /\ UNCHANGED <<aged, cb>>
        BY <2>1, <2>4 DEF BeginAt, Begin, BeginUnkept, TypeOK
      <3>2. OneSite => stateCookie'[b] = f
        BY <2>1, <2>4, CookiesReach DEF BeginAt, Begin, TypeOK
      <3>3. \A g \in fresh' : \/ g \in fresh /\ g # f /\ startedBy[g] # b
                              \/ g = f /\ \A c \in Callback : cb[c].browser # b
        BY <2>1, <2>4, <3>1 DEF BeginAt, Of, FreshInv
      <3> QED
        BY <2>1, <2>3, <3>1, <3>2, <3>3 DEF FreshInv
    <2>5. ASSUME NEW c \in Callback, NEW b \in Browser, NEW f \in Flow, NEW k \in Flow,
                 OpenAt(c, b, f, k)
          PROVE  FreshInv'
      <3>1. /\ UNCHANGED <<startedBy, aged, stateCookie>>
            /\ \A d \in Callback : cb'[d].browser = cb[d].browser \/ cb'[d].browser = b
        BY <2>1, <2>5 DEF OpenAt, Open, Received, TypeOK
      <3>2. \A g \in fresh' : g \in fresh /\ startedBy[g] # b
        BY <2>1, <2>5 DEF OpenAt, Of, FreshInv
      <3> QED
        BY <2>1, <2>3, <3>1, <3>2 DEF FreshInv
    <2>6. ASSUME Unaffected, UNCHANGED fresh PROVE FreshInv'
      <3>1. SUFFICES ASSUME NEW f \in fresh
                     PROVE  /\ f \in Flow /\ startedBy'[f] \in Browser
                            /\ \A c \in Callback : cb'[c].browser # startedBy'[f]
                            /\ \A g \in fresh : startedBy'[g] = startedBy'[f] => g = f
                            /\ OneSite /\ f \notin aged' => stateCookie'[startedBy'[f]] = f
        BY <2>3, <2>6 DEF FreshInv
      <3>2. /\ f \in Flow /\ startedBy[f] \in Browser
            /\ \A c \in Callback : cb[c].browser # startedBy[f]
            /\ \A g \in fresh : startedBy[g] = startedBy[f] => g = f
            /\ OneSite /\ f \notin aged => stateCookie[startedBy[f]] = f
        BY <2>1, <3>1 DEF FreshInv
      <3> QED
        BY <2>1, <2>6, <3>2, UnaffectedStep
    <2>7. ASSUME UNCHANGED siteVars PROVE FreshInv'
      BY <2>1, <2>3, <2>7 DEF siteVars, vars, FreshInv
    <2>8. FreshInv'
      BY <2>4, <2>5, <2>6, <2>7 DEF SiteNext
    <2> QED
      BY <2>1, <2>2, <2>3, <2>8 DEF SiteInv
  <1> QED
    BY <1>1, <1>2, PTL DEF SiteSpec

\* On one site, an undisturbed login finds its state at the callback and its
\* session at the web application, whichever host it started from.
THEOREM CookiesSurviveOneSite == SiteSpec => []CookiesSurvive
  <1>1. SiteInv => CookiesSurvive
    BY CookiesReach DEF SiteInv, FreshInv, CookiesSurvive, Verdict
  <1> QED
    BY <1>1, SiteInvariance, PTL
=============================================================================
