----------------------------- MODULE TokenSource -----------------------------
(***************************************************************************)
(* What the calls of the Management API adapter get from its token cache,  *)
(* without lock, waiting list or arithmetic of lifetimes: one token shared *)
(* by all of them, renewed by one call at a time and never without need;   *)
(* each call is sent twice at most, and with a token that is alive and     *)
(* newer than the one it was refused with.                                 *)
(***************************************************************************)
EXTENDS Integers

CONSTANTS Call, Lifetimes, Step, MaxTok

VARIABLES
    now,        \* the clock
    issued,     \* tokens issued so far
    dies,       \* when each token expires at the provider
    revoked,    \* tokens the provider refuses before that
    shared,     \* the token the calls share
    use         \* what each call does with tokens

svars == <<now, issued, dies, revoked, shared, use>>

NoTok == 0
Tok == 1..MaxTok

NotInUse == [stage |-> "idle", try |-> 1, tok |-> NoTok, refused |-> NoTok]

SInit ==
    /\ now = 0
    /\ issued = 0
    /\ dies = [t \in Tok |-> 0]
    /\ revoked = {}
    /\ shared = NoTok
    /\ use = [c \in Call |-> NotInUse]

Renewing(c) == use[c].stage = "asking" /\ use[c].tok # NoTok
Becomes(c, s, t) == use' = [use EXCEPT ![c] = [stage |-> s, try |-> @.try, tok |-> t,
                                               refused |-> @.refused]]

\* A token worth sending.
Good(c, t) == t \in 1..issued /\ now < dies[t] /\ t > use[c].refused

Ask(c) ==
    /\ use[c].stage = "idle"
    /\ Becomes(c, "asking", NoTok)
    /\ UNCHANGED <<now, issued, dies, revoked, shared>>

\* With the token that is there, at once or after waiting for it.
SendShared(c) ==
    /\ use[c].stage \in {"idle", "asking"}
    /\ ~Renewing(c)
    /\ shared # NoTok
    /\ Good(c, shared)
    /\ Becomes(c, "sending", shared)
    /\ UNCHANGED <<now, issued, dies, revoked, shared>>

\* The provider issues a token to a call, if no other call is at it already.
Renew(c, e) ==
    /\ use[c].stage = "asking"
    /\ shared = NoTok
    /\ \A d \in Call : ~Renewing(d)
    /\ issued < MaxTok
    /\ issued' = issued + 1
    /\ dies' = [dies EXCEPT ![issued'] = now + e]
    /\ Becomes(c, "asking", issued')
    /\ UNCHANGED <<now, revoked, shared>>

SendRenewed(c) ==
    /\ Renewing(c)
    /\ Good(c, use[c].tok)
    /\ shared' = use[c].tok
    /\ Becomes(c, "sending", use[c].tok)
    /\ UNCHANGED <<now, issued, dies, revoked>>

\* The first 401: the token that is shared by now is given up.
Refuse(c) ==
    /\ use[c].stage = "sending"
    /\ use[c].try = 1
    /\ use[c].tok \in revoked \/ now >= dies[use[c].tok]
    /\ shared' = NoTok
    /\ use' = [use EXCEPT ![c] = [stage |-> "asking", try |-> 2, tok |-> NoTok,
                                 refused |-> use[c].tok]]
    /\ UNCHANGED <<now, issued, dies, revoked>>

\* An answer, or an error.
End(c) ==
    /\ use[c].stage # "idle"
    /\ use' = [use EXCEPT ![c] = NotInUse]
    /\ UNCHANGED <<now, issued, dies, revoked, shared>>

Revoke(t) ==
    /\ t \in 1..issued
    /\ revoked' = revoked \cup {t}
    /\ UNCHANGED <<now, issued, dies, shared, use>>

\* The shared token may be given up as time goes by.
Tick ==
    /\ now' = now + Step
    /\ shared' \in {shared, NoTok}
    /\ UNCHANGED <<issued, dies, revoked, use>>

SNext ==
    \/ \E c \in Call : Ask(c) \/ SendShared(c) \/ SendRenewed(c) \/ Refuse(c) \/ End(c)
    \/ \E c \in Call, e \in Lifetimes : Renew(c, e)
    \/ \E t \in Tok : Revoke(t)
    \/ Tick

SSpec == SInit /\ [][SNext]_svars
=============================================================================
