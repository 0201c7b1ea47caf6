---------------------------- MODULE LoginContract ----------------------------
(***************************************************************************)
(* What a login is, without cookies, callbacks and tabs: a line that is    *)
(* walked once.  It is started from a browser, its code is issued and      *)
(* redeemed, a session is opened for it, and its answer signs in the       *)
(* browser it was started from, or nobody.                                 *)
(***************************************************************************)
CONSTANTS Browser, Flow, None

VARIABLES
    startedBy,      \* the browser each login was started from
    code,           \* its authorization code
    redeemed,       \* logins whose code is redeemed and that have no session yet
    session,        \* logins that have, or had, a session
    unanswered,     \* those whose answer has not reached a browser
    signedIn        \* the login each browser is signed in with

lvars == <<startedBy, code, redeemed, session, unanswered, signedIn>>

LInit ==
    /\ startedBy = [f \in Flow |-> None]
    /\ code = [f \in Flow |-> "none"]
    /\ redeemed = {}
    /\ session = {}
    /\ unanswered = {}
    /\ signedIn = [b \in Browser |-> None]

Start(b, f) ==
    /\ startedBy[f] = None
    /\ startedBy' = [startedBy EXCEPT ![f] = b]
    /\ UNCHANGED <<code, redeemed, session, unanswered, signedIn>>

Issue(f) ==
    /\ startedBy[f] # None
    /\ code[f] = "none"
    /\ code' = [code EXCEPT ![f] = "issued"]
    /\ UNCHANGED <<startedBy, redeemed, session, unanswered, signedIn>>

\* The code is redeemed, or expires or is wasted.
Spend(f, works) ==
    /\ code[f] = "issued"
    /\ code' = [code EXCEPT ![f] = "spent"]
    /\ redeemed' = IF works THEN redeemed \cup {f} ELSE redeemed
    /\ UNCHANGED <<startedBy, session, unanswered, signedIn>>

OpenSession(f) ==
    /\ f \in redeemed
    /\ f \notin session
    /\ redeemed' = redeemed \ {f}
    /\ session' = session \cup {f}
    /\ unanswered' = unanswered \cup {f}
    /\ UNCHANGED <<startedBy, code, signedIn>>

\* The answer arrives at the browser that started the login, at no other.
Answer(f) ==
    /\ f \in unanswered
    /\ unanswered' = unanswered \ {f}
    /\ signedIn' = [signedIn EXCEPT ![startedBy[f]] = f]
    /\ UNCHANGED <<startedBy, code, redeemed, session>>

GiveUp(f) ==
    /\ f \in redeemed \cup unanswered
    /\ redeemed' = redeemed \ {f}
    /\ unanswered' = unanswered \ {f}
    /\ UNCHANGED <<startedBy, code, session, signedIn>>

LNext ==
    \/ \E b \in Browser, f \in Flow : Start(b, f)
    \/ \E f \in Flow : Issue(f) \/ OpenSession(f) \/ Answer(f) \/ GiveUp(f)
    \/ \E f \in Flow, works \in BOOLEAN : Spend(f, works)

LSpec == LInit /\ [][LNext]_lvars
=============================================================================
