------------------------------ MODULE LoginSites ------------------------------
(***************************************************************************)
(* LoginFlow in a deployment.  Logins start at the host of the web         *)
(* application, which forwards /auth to the BFF, or at the BFF's own; the  *)
(* callback is always at the BFF's; from there the browser goes to the web *)
(* application.  Whether the cookies follow depends on the domain they are *)
(* set for, which the server derives from its settings at startup.         *)
(***************************************************************************)
EXTENDS LoginFlow

CONSTANTS
    Host,
    Below,      \* the pairs of a host and itself or one it is a subdomain of
    Site        \* deployments

\* BFF_PUBLIC_URL, BFF_WEB_PUBLIC_URL and SESSION_COOKIE_DOMAIN; None if empty.
ASSUME SitesAssumption ==
    /\ None \notin Host
    /\ \A h \in Host : <<h, h>> \in Below
    /\ Site \subseteq [bff : Host, web : Host \cup {None}, domain : Host \cup {None}]

VARIABLES
    site,   \* this deployment
    fresh   \* logins since whose start their browser has neither begun another
            \* one nor opened a callback, nor had a response on its way

siteVars == <<vars, site, fresh>>

-----------------------------------------------------------------------------
(* Settings and cookies.                                                   *)

\* Mutant of CookieDomain: only the explicit setting counts.
CookieDomainExplicit == site.domain

\* effective_session_cookie_domain; None makes cookies host-only.
CookieDomain ==
    IF site.domain # None THEN site.domain
    ELSE IF site.web # None /\ <<site.bff, site.web>> \in Below THEN site.web
    ELSE None

\* A browser sends a cookie that host "from" has set to host "to".
Carries(from, to) ==
    IF CookieDomain = None THEN from = to
    ELSE \A h \in {from, to} : <<h, CookieDomain>> \in Below

Entries == {site.bff, site.web} \ {None}

\* _resolve_next_url.
Landing == IF site.web = None THEN site.bff ELSE site.web

-----------------------------------------------------------------------------
Of(b) == {f \in Flow : startedBy[f] = b}

SiteInit ==
    /\ Init
    /\ site \in Site
    /\ fresh = {}

BeginAt(b, f, host) ==
    /\ IF Carries(host, site.bff) THEN Begin(b, f) ELSE BeginUnkept(b, f)
    /\ fresh' = (fresh \ Of(b)) \cup
                  (IF \E c \in Callback : cb[c].browser = b THEN {} ELSE {f})

OpenAt(c, b, f, k) ==
    /\ Open(c, b, f, k)
    /\ fresh' = fresh \ Of(b)

\* A response can only clear or set cookies that the BFF's host may set; the
\* browser ignores the others, and with them what the response is for: Lose.
Respond(c) == Carries(site.bff, site.bff) /\ (Cleared(c) \/ Finish(c))

Unaffected ==
    \/ \E f \in Flow : SignIn(f) \/ CodeExpires(f) \/ Age(f)
    \/ \E b \in Browser : CookieExpires(b)
    \/ \E c \in Callback : Respond(c) \/ Exchange(c) \/ ExchangeFails(c)
                            \/ Reject(c) \/ Create(c) \/ Lose(c)

SiteNext ==
    /\ \/ \E b \in Browser, f \in Flow, host \in Entries : BeginAt(b, f, host)
       \/ \E c \in Callback, b \in Browser, f, k \in Flow : OpenAt(c, b, f, k)
       \/ Unaffected /\ UNCHANGED fresh
    /\ UNCHANGED site

SiteSpec == SiteInit /\ [][SiteNext]_siteVars

-----------------------------------------------------------------------------
(* Properties.                                                             *)

\* The hosts are one site: the BFF's is the web application's or below it, or
\* the domain that is set covers both.
OneSite ==
    IF site.domain # None THEN \A h \in Entries : <<h, site.domain>> \in Below
    ELSE site.web # None => <<site.bff, site.web>> \in Below

\* "so both the short-lived OAuth state cookie and the final session cookie
\* survive": wherever on one site a login started, its callback finds its
\* state, unless that aged, or another tab or callback of the browser came
\* between; and the web application sees the session the callback created.
CookiesSurvive ==
    OneSite =>
        /\ \A f \in fresh \ aged : Verdict(f, stateCookie[startedBy[f]]) = "exchanging"
        /\ \A b \in Browser : sessionCookie[b] # None => Carries(site.bff, Landing)
==============================================================================
