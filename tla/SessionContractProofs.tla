----------------------- MODULE SessionContractProofs -----------------------
(***************************************************************************)
(* What SessionContract's promise is good for: a grant has one owner.      *)
(***************************************************************************)
EXTENDS SessionContract, TLAPS

\* Every grant that is stored or waits was given out: a new one is nobody's.
KnownGrants ==
    /\ \A s \in Session : grant[s] # 0 => grant[s] \in spent
    /\ \A p \in held : p[2] \in spent

OwnerInv == CTypeOK /\ KnownGrants /\ OneOwner

LEMMA OwnerInit == CInit => OwnerInv
  BY DEF CInit, OwnerInv, CTypeOK, KnownGrants, OneOwner, Grants

LEMMA OwnerStep == OwnerInv /\ [CNext]_cvars => OwnerInv'
  <1> SUFFICES ASSUME OwnerInv, [CNext]_cvars PROVE OwnerInv'
    OBVIOUS
  <1>0. CTypeOK /\ KnownGrants /\ OneOwner /\ 0 \notin Grants
    BY DEF OwnerInv, Grants
  <1>1. ASSUME NEW s \in Session, NEW g \in Grants, Open(s, g) PROVE OwnerInv'
    <2>1. CTypeOK'
      BY <1>0, <1>1 DEF Open, CTypeOK
    <2>2. \A t \in Session : grant'[t] = IF t = s THEN g ELSE grant[t]
      BY <1>0, <1>1 DEF Open, CTypeOK
    <2>3. KnownGrants' /\ OneOwner'
      BY <1>0, <1>1, <2>2 DEF Open, KnownGrants, OneOwner
    <2> QED
      BY <2>1, <2>3 DEF OwnerInv
  <1>2. ASSUME NEW s \in Session, NEW g \in Grants, NEW arrives \in BOOLEAN,
               Obtain(s, g, arrives)
        PROVE  OwnerInv'
    <2>1. CTypeOK'
      BY <1>0, <1>2 DEF Obtain, CTypeOK
    <2>2. \A p \in held' : p \in held \/ p = <<s, g>>
      BY <1>2 DEF Obtain
    <2>3. KnownGrants' /\ OneOwner'
      BY <1>0, <1>2, <2>2 DEF Obtain, KnownGrants, OneOwner
    <2> QED
      BY <2>1, <2>3 DEF OwnerInv
  <1>3. ASSUME NEW s \in Session, NEW g \in Grants, Store(s, g) PROVE OwnerInv'
    <2>1. CTypeOK'
      BY <1>0, <1>3 DEF Store, CTypeOK
    <2>2. /\ \A t \in Session : grant'[t] = IF t = s THEN g ELSE grant[t]
          /\ <<s, g>> \in held /\ <<s, g>>[2] = g
          /\ held' \subseteq held /\ <<s, g>> \notin held' /\ UNCHANGED spent
      BY <1>0, <1>3 DEF Store, CTypeOK
    <2>3. \A p \in held' : p[2] # g
      BY <1>0, <2>2 DEF OneOwner
    <2>4. KnownGrants' /\ OneOwner'
      BY <1>0, <2>2, <2>3 DEF KnownGrants, OneOwner
    <2> QED
      BY <2>1, <2>4 DEF OwnerInv
  <1>4. ASSUME NEW H \in SUBSET held, Discard(H) PROVE OwnerInv'
    BY <1>0, <1>4 DEF Discard, OwnerInv, CTypeOK, KnownGrants, OneOwner
  <1>5. ASSUME NEW S \in SUBSET Session, End(S) PROVE OwnerInv'
    BY <1>0, <1>5 DEF End, OwnerInv, CTypeOK, KnownGrants, OneOwner
  <1>6. CASE UNCHANGED cvars
    BY <1>0, <1>6 DEF cvars, OwnerInv, CTypeOK, KnownGrants, OneOwner
  <1> QED
    BY <1>1, <1>2, <1>3, <1>4, <1>5, <1>6 DEF CNext

\* A session store that keeps the contract never lets two sessions share a
\* grant, stored or waiting.
THEOREM OneOwnerHolds == CSpec => []OneOwner
  <1>1. OwnerInv => OneOwner
    BY DEF OwnerInv
  <1> QED
    BY <1>1, OwnerInit, OwnerStep, PTL DEF CSpec

=============================================================================
