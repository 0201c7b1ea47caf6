------------------------------ MODULE Experience ------------------------------
(***************************************************************************)
(* The sign-in pages (experience/src): one page whose state every handler  *)
(* reads and writes, and chains of provider calls that go on while the     *)
(* user moves to another form, because nothing cancels them.  Nothing is   *)
(* assumed of the provider: a chain fails or is answered at any time, in   *)
(* any order.  Only its verification ids matter, and of these only the     *)
(* address the code was sent to, so that address stands for the id.  A     *)
(* password is represented by the identifier it was typed with.            *)
(***************************************************************************)
EXTENDS Integers

CONSTANTS
    Identifier, \* what the user types
    Chain,      \* chains of calls that may be in flight at once
    None

ASSUME ExperienceAssumption == None \notin Identifier

VARIABLES
    settings,   \* byCode: sign-up sends a code; password: it asks for one
    page,       \* the state of app.ts, with what firstScreen makes of the address
    calls,      \* the chains
    saved       \* whether sessionStorage holds a social sign-in

vars == <<settings, page, calls, saved>>

Forms == {"sign-in", "register", "register-verify", "forgot", "forgot-verify"}
Views == Forms \cup {"loading", "callback", "left"}
Urls == {"sign-in", "register", "forgot", "callback"}

Pages == [view : Views, url : Urls, busy : BOOLEAN,
          identifier : Identifier \cup {None}, verificationId : Identifier \cup {None},
          password : Identifier \cup {None}]
Kinds == {"none", "signIn", "register", "registerName", "finishRegistration",
          "forgot", "finishForgotPassword", "social", "callback"}
Calls == [kind : Kinds, identifier : Identifier \cup {None},
          verificationId : Identifier \cup {None}, password : Identifier \cup {None}]

NoCall == [kind |-> "none", identifier |-> None, verificationId |-> None, password |-> None]
Loading(u) == [view |-> "loading", url |-> u, busy |-> FALSE,
               identifier |-> None, verificationId |-> None, password |-> None]

Init ==
    /\ settings \in [byCode : BOOLEAN, password : BOOLEAN]
    /\ \E u \in Urls \ {"callback"} : page = Loading(u)
    /\ calls = [c \in Chain |-> NoCall]
    /\ saved = FALSE

At(c, k) == calls[c].kind = k
Ends(c) == calls' = [calls EXCEPT ![c] = NoCall]

-----------------------------------------------------------------------------
(* Rendering and loading.                                                  *)

Forgotten(p) == [p EXCEPT !.identifier = None, !.verificationId = None, !.password = None]

\* Mutant of Rendered: the form for the code is drawn with whatever there is.
RenderedUnchecked(p) == p

\* render: the form for the code starts over if anything it needs is gone.
Rendered(p) ==
    IF /\ p.view = "register-verify"
       /\ \/ None \in {p.identifier, p.verificationId}
          \/ settings.password /\ p.password = None
    THEN [Forgotten(p) EXCEPT !.view = "register", !.url = "register"]
    ELSE p

\* startExperience with settings and interaction at hand: the address decides,
\* then the provider's record of a password reset, then the kind of interaction.
Loaded ==
    /\ page.view = "loading"
    /\ page.url # "callback"
    /\ IF page.url # "sign-in"
       THEN page' = [page EXCEPT !.view = page.url]
       ELSE \/ \E v \in {"sign-in", "register", "forgot"} : page' = [page EXCEPT !.view = v]
            \/ \E i \in Identifier :
                 page' = [page EXCEPT !.view = "forgot-verify", !.identifier = i,
                                      !.verificationId = i]
    /\ UNCHANGED <<settings, calls, saved>>

\* renderCallback begins to complete a social sign-in, if its state is saved.
LoadedCallback(c) ==
    /\ page.view = "loading"
    /\ page.url = "callback"
    /\ saved
    /\ At(c, "none")
    /\ page' = [page EXCEPT !.view = "callback"]
    /\ calls' = [calls EXCEPT ![c].kind = "callback"]
    /\ UNCHANGED <<settings, saved>>

\* Loading fails, or the callback is not the one that was saved.
LoadFails ==
    /\ page.view = "loading"
    /\ page' = [page EXCEPT !.view = "sign-in"]
    /\ UNCHANGED <<settings, calls, saved>>

\* The user reloads, or comes back from the application or a social provider.
Reload(u) ==
    /\ page.view # "loading"
    /\ u = page.url \/ page.view = "left"
    /\ page' = Loading(u)
    /\ calls' = [c \in Chain |-> NoCall]
    /\ UNCHANGED <<settings, saved>>

-----------------------------------------------------------------------------
(* The user.                                                               *)

\* The buttons of each form that lead to another one; they are never disabled.
Leads(v) ==
    CASE v = "sign-in" -> {"forgot", "register"}
      [] v = "register-verify" -> {"register"}
      [] v \in {"register", "forgot", "forgot-verify"} -> {"sign-in"}
      [] OTHER -> {}

\* Mutant of Navigate: the form is left, the call is still waited for.
NavigateBusy(v) ==
    /\ v \in Leads(page.view)
    /\ page' = [Forgotten(page) EXCEPT !.view = v, !.url = v]
    /\ UNCHANGED <<settings, calls, saved>>

\* attachActions.
Navigate(v) ==
    /\ v \in Leads(page.view)
    /\ page' = [Forgotten(page) EXCEPT !.view = v, !.url = v, !.busy = FALSE]
    /\ UNCHANGED <<settings, calls, saved>>

\* Chain c starts from form v with call q, and the page becomes p.
Submits(c, v, q, p) ==
    /\ page.view = v
    /\ ~ page.busy
    /\ At(c, "none")
    /\ calls' = [calls EXCEPT ![c] = q]
    /\ page' = [p EXCEPT !.busy = TRUE]
    /\ UNCHANGED <<settings, saved>>

SignIn(c, i) ==
    Submits(c, "sign-in", [NoCall EXCEPT !.kind = "signIn", !.identifier = i, !.password = i], page)

\* Mutant of Register: an earlier password is kept.
RegisterKeeps(c, i) ==
    LET pw == IF ~ settings.password THEN None
              ELSE IF page.password # None THEN page.password ELSE i
    IN  Submits(c, "register", [NoCall EXCEPT !.kind = "register", !.identifier = i],
                [page EXCEPT !.identifier = i, !.password = pw])

Register(c, i) ==
    LET pw == IF settings.password THEN i ELSE None
    IN  Submits(c, "register", [NoCall EXCEPT !.kind = "register", !.identifier = i],
                [page EXCEPT !.identifier = i, !.password = pw])

Forgot(c, i) ==
    Submits(c, "forgot", [NoCall EXCEPT !.kind = "forgot", !.identifier = i],
            [page EXCEPT !.identifier = i])

\* The code is sent with what the page holds by now.
Finish(c, v, k, pw) ==
    /\ None \notin {page.identifier, page.verificationId}
    /\ Submits(c, v, [kind |-> k, identifier |-> page.identifier, password |-> pw,
                      verificationId |-> page.verificationId], page)

FinishRegistration(c) == Finish(c, "register-verify", "finishRegistration", page.password)
FinishForgotPassword(c) == Finish(c, "forgot-verify", "finishForgotPassword", page.identifier)

\* attachSocial: these buttons are not disabled either.
Social(c) ==
    /\ page.view = "sign-in"
    /\ At(c, "none")
    /\ calls' = [calls EXCEPT ![c].kind = "social"]
    /\ page' = [page EXCEPT !.busy = TRUE]
    /\ UNCHANGED <<settings, saved>>

-----------------------------------------------------------------------------
(* Answers.                                                                *)

\* Mutant of Fails: only the message is set.
FailsBusy(c) ==
    /\ ~ At(c, "none")
    /\ page' = Rendered([page EXCEPT !.view = IF At(c, "callback") THEN "sign-in" ELSE @])
    /\ Ends(c)
    /\ saved' \in IF At(c, "callback") THEN {saved, FALSE} ELSE {saved}
    /\ UNCHANGED settings

\* setError, for a call of any chain.  A callback may have used up what was
\* saved before its last call.
Fails(c) ==
    /\ ~ At(c, "none")
    /\ page' = Rendered([page EXCEPT !.busy = FALSE,
                                     !.view = IF At(c, "callback") THEN "sign-in" ELSE @])
    /\ Ends(c)
    /\ saved' \in IF At(c, "callback") THEN {saved, FALSE} ELSE {saved}
    /\ UNCHANGED settings

\* beginRegistration or beginForgotPassword has sent a code.
CodeSent(c) ==
    LET v == IF At(c, "register") THEN "register-verify" ELSE "forgot-verify"
    IN  /\ \/ At(c, "register") /\ settings.byCode
           \/ At(c, "forgot")
        /\ page' = Rendered([page EXCEPT
                       !.verificationId = calls[c].identifier, !.busy = FALSE, !.view = v,
                       !.url = IF At(c, "register") THEN "register" ELSE "forgot"])
        /\ Ends(c)
        /\ UNCHANGED <<settings, saved>>

\* beginRegistration needed no code: the handler goes on with the password the
\* page holds by now.
NameAccepted(c) ==
    /\ At(c, "register")
    /\ ~ settings.byCode
    /\ calls' = [calls EXCEPT ![c] = [@ EXCEPT !.kind = "registerName",
                                              !.password = page.password]]
    /\ UNCHANGED <<settings, page, saved>>

\* The chains that end with /api/experience/submit, and what the page forgets
\* before it looks at the answer.
Submitted(c) == calls[c].kind \in {"signIn", "registerName", "finishRegistration",
                                   "finishForgotPassword", "callback"}
After(c) == IF calls[c].kind \in {"registerName", "finishRegistration"}
            THEN [page EXCEPT !.password = None] ELSE page

\* submitResult with an address: the page is left.
Redirects(c) ==
    /\ Submitted(c)
    /\ page' = [After(c) EXCEPT !.view = "left"]
    /\ Ends(c)
    /\ saved' = (saved /\ ~ At(c, "callback"))
    /\ UNCHANGED settings

\* submitResult without an address, which leaves busy as it is, or with one of
\* another protocol, which is an error like those of the calls.
NoRedirect(c) ==
    /\ Submitted(c)
    /\ \/ page' = [After(c) EXCEPT !.view = "sign-in"]
       \/ page' = Rendered([After(c) EXCEPT !.busy = FALSE,
                                !.view = IF At(c, "callback") THEN "sign-in" ELSE @])
    /\ Ends(c)
    /\ saved' = (saved /\ ~ At(c, "callback"))
    /\ UNCHANGED settings

\* socialAuthorization saves its state; the page is left for the provider.
SocialAuthorized(c) ==
    /\ At(c, "social")
    /\ saved' = TRUE
    /\ page' = [page EXCEPT !.view = "left"]
    /\ Ends(c)
    /\ UNCHANGED settings

User ==
    \/ \E u \in Urls : Reload(u)
    \/ \E v \in Forms : Navigate(v)
    \/ \E c \in Chain, i \in Identifier : SignIn(c, i) \/ Register(c, i) \/ Forgot(c, i)
    \/ \E c \in Chain : FinishRegistration(c) \/ FinishForgotPassword(c) \/ Social(c)

\* A page that is left handles nothing more.
Answer ==
    /\ page.view # "left"
    /\ \E c \in Chain :
         \/ Fails(c)
         \/ CodeSent(c)
         \/ NameAccepted(c)
         \/ Redirects(c)
         \/ NoRedirect(c)
         \/ SocialAuthorized(c)

Next ==
    \/ Loaded
    \/ \E c \in Chain : LoadedCallback(c)
    \/ LoadFails
    \/ User
    \/ Answer

Spec == Init /\ [][Next]_vars

-----------------------------------------------------------------------------
(* Properties.                                                             *)

\* Every variable keeps its shape.
TypeOK ==
    /\ settings \in [byCode : BOOLEAN, password : BOOLEAN]
    /\ page \in Pages
    /\ calls \in [Chain -> Calls]
    /\ saved \in BOOLEAN

\* Whatever answers of abandoned forms arrive, the password the page keeps for
\* a registration is the one typed with the identifier it keeps.
PasswordBelongsToIdentifier ==
    page.password # None => page.password = page.identifier

\* Where sign-up asks for a password, no registration is finished without one:
\* the password an abandoned registration clears is asked for again.
RegistersWithPassword ==
    \A c \in Chain : At(c, "finishRegistration") /\ settings.password =>
        calls[c].password = calls[c].identifier

\* A form that is disabled waits for an answer; only after an answer without an
\* address does the sign-in form stay disabled until the user leaves it.
BusyMeansWaiting ==
    page.busy /\ page.view \in Forms \ {"sign-in"} => \E c \in Chain : ~ At(c, "none")

\* "Registration passwords are deliberately kept only in page memory between
\* the identifier/password step and the verification-code step": none is kept
\* while the user resets a password.
PasswordOnlyInRegistration ==
    settings.byCode /\ page.password # None => page.view \notin {"forgot", "forgot-verify"}
=============================================================================
