--------------------------- MODULE SessionContract ---------------------------
(***************************************************************************)
(* What the session store promises, without requests, locks or commits.    *)
(*                                                                         *)
(* A session is opened with one grant of the provider, lives with one      *)
(* grant at a time, and ends once.  Grants obtained for a session wait in  *)
(* held until they are stored or discarded.                                *)
(***************************************************************************)
EXTENDS Integers

CONSTANTS
    Session,    \* session ids
    MaxGrant    \* grants are 1..MaxGrant, 0 is no grant

VARIABLES
    status,     \* "unborn", "live" or "ended", by session
    grant,      \* the grant a session has stored, by session
    spent,      \* grants the provider has given out
    held        \* <<session, grant>>: obtained for the session, not stored

cvars == <<status, grant, spent, held>>

Grants == 1..MaxGrant

CInit ==
    /\ status = [s \in Session |-> "unborn"]
    /\ grant = [s \in Session |-> 0]
    /\ spent = {}
    /\ held = {}

Open(s, g) ==
    /\ status[s] = "unborn"
    /\ g \notin spent
    /\ status' = [status EXCEPT ![s] = "live"]
    /\ grant' = [grant EXCEPT ![s] = g]
    /\ spent' = spent \cup {g}
    /\ UNCHANGED held

\* A grant arrives for a session; it may be lost on the way.
Obtain(s, g, arrives) ==
    /\ status[s] # "unborn"
    /\ g \notin spent
    /\ spent' = spent \cup {g}
    /\ held' = IF arrives THEN held \cup {<<s, g>>} ELSE held
    /\ UNCHANGED <<status, grant>>

Store(s, g) ==
    /\ <<s, g>> \in held
    /\ status[s] = "live"
    /\ grant' = [grant EXCEPT ![s] = g]
    /\ held' = held \ {<<s, g>>}
    /\ UNCHANGED <<status, spent>>

Discard(H) ==
    /\ H \subseteq held
    /\ held' = held \ H
    /\ UNCHANGED <<status, grant, spent>>

End(S) ==
    /\ \A s \in S : status[s] # "unborn"
    /\ status' = [s \in Session |-> IF s \in S THEN "ended" ELSE status[s]]
    /\ UNCHANGED <<grant, spent, held>>

CNext ==
    \/ \E s \in Session, g \in Grants : Open(s, g)
    \/ \E s \in Session, g \in Grants, arrives \in BOOLEAN : Obtain(s, g, arrives)
    \/ \E s \in Session, g \in Grants : Store(s, g)
    \/ \E H \in SUBSET held : Discard(H)
    \/ \E S \in SUBSET Session : End(S)

CSpec == CInit /\ [][CNext]_cvars

-----------------------------------------------------------------------------
CTypeOK ==
    /\ status \in [Session -> {"unborn", "live", "ended"}]
    /\ grant \in [Session -> Grants \cup {0}]
    /\ spent \subseteq Grants
    /\ held \subseteq Session \X Grants

\* A grant has one owner: no two sessions ever store the same grant, and a
\* grant still waiting is neither stored anywhere nor waiting for another
\* session.  This is what keeps one browser from getting another's tokens.
OneOwner ==
    /\ \A s, t \in Session : grant[s] # 0 /\ grant[s] = grant[t] => s = t
    /\ \A p, q \in held : p[2] = q[2] => p = q
    /\ \A p \in held, s \in Session : grant[s] # p[2]
=============================================================================
