------------------------------- MODULE LoginFlow -------------------------------
(***************************************************************************)
(* Signing in through the BFF: /auth/login (and /auth/register and         *)
(* /auth/forgot-password, which differ in a query parameter), the sign-in  *)
(* at the provider, and GET /auth/callback.                                *)
(*                                                                         *)
(* The server keeps nothing between the two requests: state, PKCE verifier *)
(* and nonce travel in one signed cookie, lingxi_oauth_state, of which a   *)
(* browser has one for all its tabs.  What a callback does to the browser  *)
(* happens when its response arrives, possibly much later.                 *)
(***************************************************************************)
EXTENDS Integers

CONSTANTS
    Browser,
    Flow,       \* authorizations; each has its own state, verifier and nonce
    Callback,   \* callback requests that may be in flight at once
    None        \* no browser, no flow

ASSUME LoginAssumption == None \notin Browser \cup Flow

VARIABLES
    startedBy,      \* the browser each flow was started from
    aged,           \* flows whose signed state is older than its max_age
    code,           \* the authorization code of each flow
    stateCookie,    \* lingxi_oauth_state, by browser
    sessionCookie,  \* the flow whose session the browser's session cookie names
    cb,             \* the callback requests
    session         \* flows a session row was created for

vars == <<startedBy, aged, code, stateCookie, sessionCookie, cb, session>>

\* A request is idle, awaiting the token endpoint or the insert of its row, or
\* its response is on the way to the browser.
PCs == {"idle", "exchanging", "exchanged", "created", "clearing"}
Requests == [pc : PCs, browser : Browser \cup {None},
             flow : Flow \cup {None},       \* of the code in its query
             signed : Flow \cup {None}]     \* of its state cookie
Idle == [pc |-> "idle", browser |-> None, flow |-> None, signed |-> None]

Init ==
    /\ startedBy = [f \in Flow |-> None]
    /\ aged = {}
    /\ code = [f \in Flow |-> "none"]
    /\ stateCookie = [b \in Browser |-> None]
    /\ sessionCookie = [b \in Browser |-> None]
    /\ cb = [c \in Callback |-> Idle]
    /\ session = {}

At(c, p) == cb[c].pc = p
Goto(c, p) == cb' = [cb EXCEPT ![c].pc = p]
Ends(c) == cb' = [cb EXCEPT ![c] = Idle]

-----------------------------------------------------------------------------
\* login, register, forgot_password: OidcFlow.authorize, and the response sets
\* the cookie over the one of an earlier flow.
Begin(b, f) ==
    /\ startedBy[f] = None
    /\ startedBy' = [startedBy EXCEPT ![f] = b]
    /\ stateCookie' = [stateCookie EXCEPT ![b] = f]
    /\ UNCHANGED <<aged, code, sessionCookie, cb, session>>

\* The same, but the browser does not keep the cookie, or not for the host of
\* the callback.
BeginUnkept(b, f) ==
    /\ startedBy[f] = None
    /\ startedBy' = [startedBy EXCEPT ![f] = b]
    /\ UNCHANGED <<aged, code, stateCookie, sessionCookie, cb, session>>

\* The user signs in at the provider, which redirects to the callback.
SignIn(f) ==
    /\ startedBy[f] # None
    /\ code[f] = "none"
    /\ code' = [code EXCEPT ![f] = "issued"]
    /\ UNCHANGED <<startedBy, aged, stateCookie, sessionCookie, cb, session>>

CodeExpires(f) ==
    /\ code[f] = "issued"
    /\ code' = [code EXCEPT ![f] = "spent"]
    /\ UNCHANGED <<startedBy, aged, stateCookie, sessionCookie, cb, session>>

\* The signed state passes its max_age; the browser may still send it.
Age(f) ==
    /\ startedBy[f] # None
    /\ f \notin aged
    /\ aged' = aged \cup {f}
    /\ UNCHANGED <<startedBy, code, stateCookie, sessionCookie, cb, session>>

\* The cookie itself expires.
CookieExpires(b) ==
    /\ stateCookie[b] \in aged
    /\ stateCookie' = [stateCookie EXCEPT ![b] = None]
    /\ UNCHANGED <<startedBy, aged, code, sessionCookie, cb, session>>

-----------------------------------------------------------------------------
(* callback.                                                               *)

\* What callback makes of state f and the signed cookie: no cookie is a 400 and
\* changes nothing; an invalid or another flow's one is a 400 that clears it.
Verdict(f, signed) ==
    CASE signed = None -> "idle"
      [] signed = f /\ f \notin aged -> "exchanging"
      [] OTHER -> "clearing"

\* The request at p; a 400 needs no more than its browser.
Received(p, b, k, signed) ==
    IF p = "clearing" THEN [Idle EXCEPT !.pc = p, !.browser = b]
    ELSE [pc |-> p, browser |-> b, flow |-> k, signed |-> signed]

\* Mutant of Open: without a cookie the state of the address is believed.
OpenTrusting(c, b, f, k) ==
    LET signed == IF stateCookie[b] = None THEN f ELSE stateCookie[b]
    IN  /\ At(c, "idle")
        /\ code[k] # "none"
        /\ cb' = [cb EXCEPT ![c] = Received(Verdict(f, signed), b, k, signed)]
        /\ UNCHANGED <<startedBy, aged, code, stateCookie, sessionCookie, session>>

\* A browser opens a callback address with the state of flow f and the code of
\* flow k.  They are the same when the provider redirects, on a reload, or when
\* the address was passed on; nothing in an address ties the one to the other.
Open(c, b, f, k) ==
    LET p == Verdict(f, stateCookie[b])
    IN  /\ At(c, "idle")
        /\ code[k] # "none"
        /\ p # "idle"
        /\ cb' = [cb EXCEPT ![c] = Received(p, b, k, stateCookie[b])]
        /\ UNCHANGED <<startedBy, aged, code, stateCookie, sessionCookie, session>>

\* The 400 arrives and clears whatever state cookie the browser has by then.
Cleared(c) ==
    /\ At(c, "clearing")
    /\ stateCookie' = [stateCookie EXCEPT ![cb[c].browser] = None]
    /\ Ends(c)
    /\ UNCHANGED <<startedBy, aged, code, sessionCookie, session>>

\* The provider redeems a code once, and only with the verifier of its own flow,
\* which exchange takes from the cookie.
Redeems(c) == code[cb[c].flow] = "issued" /\ cb[c].signed = cb[c].flow

Exchange(c) ==
    /\ At(c, "exchanging")
    /\ Redeems(c)
    /\ code' = [code EXCEPT ![cb[c].flow] = "spent"]
    /\ Goto(c, "exchanged")
    /\ UNCHANGED <<startedBy, aged, stateCookie, sessionCookie, session>>

\* The exchange is refused, or fails before the provider saw it: an error that
\* leaves the cookies alone.
ExchangeFails(c) ==
    /\ At(c, "exchanging")
    /\ Ends(c)
    /\ UNCHANGED <<startedBy, aged, code, stateCookie, sessionCookie, session>>

\* The code is redeemed and the request ends all the same: the reply was lost,
\* the ID token is missing or does not verify, the insert fails.
Reject(c) ==
    /\ \/ At(c, "exchanged") /\ UNCHANGED code
       \/ /\ At(c, "exchanging") /\ Redeems(c)
          /\ code' = [code EXCEPT ![cb[c].flow] = "spent"]
    /\ Ends(c)
    /\ UNCHANGED <<startedBy, aged, stateCookie, sessionCookie, session>>

\* SessionManager.create.
Create(c) ==
    /\ At(c, "exchanged")
    /\ session' = session \cup {cb[c].flow}
    /\ Goto(c, "created")
    /\ UNCHANGED <<startedBy, aged, code, stateCookie, sessionCookie>>

\* Mutant of Finish: the state cookie is not cleared.
FinishKeepsState(c) ==
    /\ At(c, "created")
    /\ sessionCookie' = [sessionCookie EXCEPT ![cb[c].browser] = cb[c].flow]
    /\ Ends(c)
    /\ UNCHANGED <<startedBy, aged, code, stateCookie, session>>

\* The redirect arrives with both cookies.
Finish(c) ==
    /\ At(c, "created")
    /\ stateCookie' = [stateCookie EXCEPT ![cb[c].browser] = None]
    /\ sessionCookie' = [sessionCookie EXCEPT ![cb[c].browser] = cb[c].flow]
    /\ Ends(c)
    /\ UNCHANGED <<startedBy, aged, code, session>>

\* The server process dies, or the response does not reach the browser.
Lose(c) ==
    /\ cb[c].pc # "idle"
    /\ Ends(c)
    /\ UNCHANGED <<startedBy, aged, code, stateCookie, sessionCookie, session>>

Serve(c) ==
    \/ Cleared(c)
    \/ Exchange(c)
    \/ ExchangeFails(c)
    \/ Reject(c)
    \/ Create(c)
    \/ Finish(c)
    \/ Lose(c)

Next ==
    \/ \E b \in Browser, f \in Flow : Begin(b, f) \/ BeginUnkept(b, f)
    \/ \E f \in Flow : SignIn(f) \/ CodeExpires(f) \/ Age(f)
    \/ \E b \in Browser : CookieExpires(b)
    \/ \E c \in Callback, b \in Browser, f, k \in Flow : Open(c, b, f, k)
    \/ \E c \in Callback : Serve(c)

Spec == Init /\ [][Next]_vars

-----------------------------------------------------------------------------
(* Properties.                                                             *)

\* Every variable keeps its shape.
TypeOK ==
    /\ startedBy \in [Flow -> Browser \cup {None}]
    /\ aged \subseteq Flow
    /\ code \in [Flow -> {"none", "issued", "spent"}]
    /\ stateCookie \in [Browser -> Flow \cup {None}]
    /\ sessionCookie \in [Browser -> Flow \cup {None}]
    /\ cb \in [Callback -> Requests]
    /\ \A c \in Callback : At(c, "idle") <=> cb[c] = Idle
    /\ session \subseteq Flow

\* "State/nonce/PKCE protect the OIDC callback": a browser is only ever signed
\* in by a login it started itself, however callback addresses, tabs and late
\* responses mix.
OwnLoginsOnly ==
    \A b \in Browser : sessionCookie[b] # None => startedBy[sessionCookie[b]] = b

\* A login that signed a browser in is over: neither its state cookie nor its
\* code can be used again, and it left one session behind.
CompletedIsOver ==
    \A b \in Browser : LET f == sessionCookie[b] IN
        f # None => /\ stateCookie[b] # f
                    /\ code[f] = "spent"
                    /\ f \in session
                    /\ \A c \in Callback : At(c, "exchanged") => cb[c].flow # f

\* The logins of the callbacks at p.
LoginsAt(p) == {cb[c].flow : c \in {d \in Callback : At(d, p)}}

LoginContract == INSTANCE LoginContract WITH
    redeemed <- LoginsAt("exchanged"),
    unanswered <- LoginsAt("created"),
    signedIn <- sessionCookie

\* Seen without cookies and callbacks each login walks its line once and ends at
\* the browser it came from: one redemption, one session, one answer, whatever
\* is reloaded, passed on, opened in two tabs or late.
KeepsLoginContract == LoginContract!LSpec
=============================================================================
