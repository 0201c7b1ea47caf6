-------------------------- MODULE TokenCacheProofs --------------------------
(***************************************************************************)
(* The token cache's invariants, for any number of calls and tokens, any   *)
(* lifetimes of at least Latency + 5 seconds and any clock step.           *)
(***************************************************************************)
EXTENDS TokenCache, TLAPS

\* The cache gives a token up at least Latency seconds before it expires: the
\* margin of 60 seconds and the floor of 5 leave room for the response's way.
LEMMA CacheForBound ==
    ASSUME NEW e \in Lifetimes
    PROVE  CacheFor(e) \in Nat /\ Latency + CacheFor(e) <= e
  BY CacheAssumption DEF CacheFor, Larger

\* Every token anyone knows was issued.
Known ==
    /\ value <= issued
    /\ \A c \in Call : call[c].tok <= issued /\ call[c].refused <= issued

\* A response on its way carries the newest token, one nobody else has.
Newest ==
    \A d \in Call : At(d, "replied") =>
        /\ call[d].tok = issued /\ issued > 0
        /\ value < issued
        /\ \A c \in Call : call[c].refused < issued /\ (c # d => call[c].tok < issued)

\* A call that was refused once and waits will not be served the same token.
RetryInv ==
    \A c \in Call : call[c].try = 2 =>
        /\ At(c, "sending") => call[c].tok > call[c].refused
        /\ At(c, "waiting") /\ value # NoTok => value > call[c].refused

\* The cache gives a token up no later than the provider does.
AliveInv ==
    /\ value # NoTok => expiry <= dies[value]
    /\ \A c \in Call : At(c, "replied") =>
           /\ call[c].life \in Lifetimes
           /\ dies[call[c].tok] = call[c].since + call[c].life
           /\ now <= call[c].since + Latency

IInv == TypeOK /\ FetchesMerge /\ Known /\ Newest /\ RetryInv /\ AliveInv

LEMMA InitInv == Init => IInv
  <1> SUFFICES ASSUME Init PROVE IInv
    OBVIOUS
  <1>1. \A c \in Call : call[c] = IdleCall
    BY DEF Init
  <1>2. IdleCall \in Calls /\ IdleCall.pc = "idle" /\ IdleCall.tok = 0
        /\ IdleCall.refused = 0 /\ IdleCall.try = 1
    BY DEF IdleCall, Calls, PCs, NoTok
  <1>3. TypeOK
    BY <1>2, CacheAssumption DEF Init, TypeOK, NoTok
  <1> QED
    BY <1>1, <1>2, <1>3 DEF Init, IInv, FetchesMerge, Fetching, At, Known, Newest,
       RetryInv, AliveInv, NoTok

\* What replacing call c by q does.
LEMMA BecomesType ==
    ASSUME TypeOK, NEW c \in Call, NEW q \in Calls, Becomes(c, q)
    PROVE  /\ call' \in [Call -> Calls]
           /\ call'[c] = q
           /\ \A d \in Call : d # c => call'[d] = call[d]
  BY DEF TypeOK, Becomes

\* get, asked by call c with the cache holding v: it either leaves the cache
\* alone or follows the invalidation.
LEMMA GetStep ==
    ASSUME IInv, NEW c \in Call, NEW v, NEW q \in Calls,
           ~Fetching(c),
           q.tok = NoTok, q.refused <= issued,
           \A d \in Call : At(d, "replied") => q.refused < issued,
           \/ v = value /\ UNCHANGED <<value, expiry>> /\ q.try = 1
           \/ v = NoTok /\ value' = NoTok /\ expiry' = 0,
           UNCHANGED <<now, issued, dies, revoked>>,
           Get(c, v, q)
    PROVE  IInv'
  <1>0. /\ TypeOK /\ FetchesMerge /\ Known /\ Newest /\ RetryInv /\ AliveInv
        /\ issued \in Nat /\ v \in Tok \cup {NoTok} /\ v \in Nat /\ NoTok = 0 /\ expiry' \in Nat
        /\ value' = v /\ v <= value /\ value \in Nat /\ value' \in Tok \cup {NoTok}
        /\ \A d \in Call : call[d] \in Calls /\ call[d].tok \in Nat /\ call[d].refused \in Nat
    <2>1. TypeOK /\ FetchesMerge /\ Known /\ Newest /\ RetryInv /\ AliveInv
      BY DEF IInv
    <2>2. /\ issued \in Nat /\ value \in Tok \cup {NoTok} /\ NoTok = 0 /\ expiry \in Nat
          /\ \A d \in Call : call[d] \in Calls
      BY <2>1, CacheAssumption DEF TypeOK, NoTok
    <2>3. v \in Tok \cup {NoTok} /\ value' = v /\ expiry' \in Nat
      BY <2>2
    <2>4. \A t \in Tok \cup {NoTok} : t \in Nat
      BY <2>2, CacheAssumption DEF Tok
    <2>5. \A d \in Call : call[d].tok \in Nat /\ call[d].refused \in Nat
      BY <2>2, <2>4 DEF Calls
    <2>6. v <= value
      BY <2>2, <2>3, <2>4
    <2> QED
      BY <2>1, <2>2, <2>3, <2>4, <2>5, <2>6
  <1>a. PICK p \in {"sending", "fetching", "waiting"}, t \in {v, NoTok} :
           /\ Becomes(c, [q EXCEPT !.pc = p, !.tok = t])
           /\ p = "sending" => t = v /\ Cached(v) /\ UNCHANGED <<lock, queue>>
           /\ p # "sending" => t = NoTok /\ ~Cached(v)
           /\ p = "fetching" => lock = None /\ lock' = c /\ UNCHANGED queue
           /\ p = "waiting" => UNCHANGED lock /\ queue' = Append(queue, c)
    <2>1. [q EXCEPT !.pc = "fetching"] = [q EXCEPT !.pc = "fetching", !.tok = NoTok]
          /\ [q EXCEPT !.pc = "waiting"] = [q EXCEPT !.pc = "waiting", !.tok = NoTok]
      BY DEF Calls
    <2> QED
      BY <2>1 DEF Get
  <1> DEFINE n == [q EXCEPT !.pc = p, !.tok = t]
  <1>1. n \in Calls /\ n.pc = p /\ n.tok = t /\ n.refused = q.refused /\ n.try = q.try
    BY <1>0 DEF Calls, PCs, NoTok
  <1> HIDE DEF n
  <1>2. call' \in [Call -> Calls] /\ call'[c] = n /\ \A d \in Call : d # c => call'[d] = call[d]
    BY <1>0, <1>1, <1>a, BecomesType DEF n
  <1>3. TypeOK'
    <2>0. lock \in Call \cup {None} /\ queue \in Seq(Call)
      BY <1>0 DEF TypeOK
    <2>1. lock' \in Call \cup {None} /\ queue' \in Seq(Call)
      <3>1. Append(queue, c) \in Seq(Call)
        BY <2>0
      <3>2. \/ UNCHANGED <<lock, queue>>
            \/ lock' = c /\ UNCHANGED queue
            \/ UNCHANGED lock /\ queue' = Append(queue, c)
        BY <1>a
      <3> QED
        BY <2>0, <3>1, <3>2
    <2> QED
      BY <1>0, <1>2, <2>1 DEF TypeOK
  <1>4. FetchesMerge'
    <2>1. lock = None => \A d \in Call : ~Fetching(d)
      BY <1>0, CacheAssumption DEF FetchesMerge
    <2>2. ~Cached(value) => ~Cached(value)'
      BY <1>0 DEF Cached
    <2>3. ~Cached(v) => ~Cached(value)'
      BY <1>0 DEF Cached
    <2> QED
      BY <1>0, <1>1, <1>2, <1>a, <2>1, <2>2, <2>3 DEF FetchesMerge, Fetching, At
  <1>5. Known'
    BY <1>0, <1>1, <1>2, <1>a DEF Known
  <1>6. Newest'
    BY <1>0, <1>1, <1>2, <1>a DEF Newest, At, Known, Fetching
  <1>7. RetryInv'
    BY <1>0, <1>1, <1>2, <1>a DEF RetryInv, At, Cached
  <1>8. AliveInv'
    BY <1>0, <1>1, <1>2, <1>a DEF AliveInv, At
  <1> QED
    BY <1>3, <1>4, <1>5, <1>6, <1>7, <1>8 DEF IInv

LEMMA StepInv == IInv /\ [Next]_vars => IInv'
  <1> SUFFICES ASSUME IInv, [Next]_vars PROVE IInv'
    OBVIOUS
  <1>0. /\ TypeOK /\ FetchesMerge /\ Known /\ Newest /\ RetryInv /\ AliveInv
        /\ issued \in Nat /\ MaxTok \in Nat /\ NoTok = 0 /\ value \in Nat
        /\ \A d \in Call : call[d] \in Calls /\ call[d].tok \in Nat /\ call[d].refused \in Nat
    <2>1. TypeOK /\ FetchesMerge /\ Known /\ Newest /\ RetryInv /\ AliveInv
      BY DEF IInv
    <2>2. /\ issued \in Nat /\ MaxTok \in Nat /\ value \in Tok \cup {NoTok} /\ NoTok = 0
          /\ \A d \in Call : call[d] \in Calls
      BY <2>1, CacheAssumption DEF TypeOK, NoTok
    <2>3. \A t \in Tok \cup {NoTok} : t \in Nat
      BY <2>2 DEF Tok
    <2>4. \A d \in Call : call[d].tok \in Nat /\ call[d].refused \in Nat
      BY <2>2, <2>3 DEF Calls
    <2> QED
      BY <2>1, <2>2, <2>3, <2>4
  <1>i. /\ IdleCall \in Calls /\ IdleCall.pc = "idle" /\ IdleCall.tok = 0
        /\ IdleCall.refused = 0 /\ IdleCall.try = 1 /\ IdleCall.since = 0 /\ IdleCall.life = 0
    BY DEF IdleCall, Calls, PCs, NoTok
  <1>1. ASSUME NEW c \in Call, Begin(c) PROVE IInv'
    <2>1. ~Fetching(c) /\ UNCHANGED <<value, expiry>> /\ Get(c, value, IdleCall)
          /\ UNCHANGED <<now, issued, dies, revoked>>
      BY <1>1 DEF Begin, At, Fetching
    <2>2. \A d \in Call : At(d, "replied") => IdleCall.refused < issued
      BY <1>0, <1>i DEF Newest
    <2>3. IdleCall.tok = NoTok /\ IdleCall.refused <= issued
      BY <1>0, <1>i
    <2> QED
      BY <1>0, <1>i, <2>1, <2>2, <2>3, GetStep
  <1>2. ASSUME NEW c \in Call, Refused(c) PROVE IInv'
    <2> DEFINE q == [call[c] EXCEPT !.try = 2, !.tok = NoTok, !.refused = call[c].tok]
    <2>1. q \in Calls /\ q.tok = NoTok /\ q.refused = call[c].tok
      BY <1>0 DEF Calls, NoTok
    <2>2. ~Fetching(c) /\ value' = NoTok /\ expiry' = 0 /\ Get(c, NoTok, q)
          /\ UNCHANGED <<now, issued, dies, revoked>>
      BY <1>2 DEF Refused, At, Fetching
    <2>3. call[c].tok <= issued /\ \A d \in Call : At(d, "replied") => call[c].tok < issued
      BY <1>0, <2>2 DEF Known, Newest, Fetching
    <2> HIDE DEF q
    <2> QED
      BY <1>0, <2>1, <2>2, <2>3, GetStep
  <1>3. ASSUME NEW c \in Call, Wake(c) PROVE IInv'
    <2> DEFINE n == IF Cached(value) THEN [call[c] EXCEPT !.pc = "sending", !.tok = value]
                                     ELSE [call[c] EXCEPT !.pc = "fetching"]
    <2>1. /\ n \in Calls /\ n.try = call[c].try /\ n.refused = call[c].refused
          /\ n.pc = IF Cached(value) THEN "sending" ELSE "fetching"
          /\ n.tok = IF Cached(value) THEN value ELSE call[c].tok
      BY <1>0 DEF Calls, PCs, TypeOK
    <2>2. /\ At(c, "waiting") /\ lock = None /\ Becomes(c, n)
          /\ queue # <<>> /\ queue' = Tail(queue)
          /\ lock' = IF Cached(value) THEN None ELSE c
          /\ UNCHANGED <<now, value, expiry, issued, dies, revoked>>
      BY <1>3 DEF Wake
    <2> HIDE DEF n
    <2>3. call' \in [Call -> Calls] /\ call'[c] = n /\ \A d \in Call : d # c => call'[d] = call[d]
      BY <1>0, <2>1, <2>2, BecomesType
    <2>4. TypeOK'
      BY <1>0, <2>2, <2>3 DEF TypeOK
    <2>5. \A d \in Call : ~Fetching(d)
      BY <1>0, <2>2, CacheAssumption DEF FetchesMerge
    <2>6. FetchesMerge'
      BY <2>1, <2>2, <2>3, <2>5 DEF FetchesMerge, Fetching, At, Cached
    <2>7. Known' /\ Newest'
      BY <1>0, <2>1, <2>2, <2>3, <2>5 DEF Known, Newest, Fetching, At
    <2>8. RetryInv'
      BY <1>0, <2>1, <2>2, <2>3 DEF RetryInv, At, Cached
    <2>9. AliveInv'
      BY <1>0, <2>1, <2>2, <2>3, <2>5 DEF AliveInv, At, Fetching
    <2> QED
      BY <2>4, <2>6, <2>7, <2>8, <2>9 DEF IInv
  <1>4. ASSUME NEW c \in Call, NEW e \in Lifetimes, Issue(c, e) PROVE IInv'
    <2> DEFINE n == [call[c] EXCEPT !.pc = "replied", !.tok = issued',
                                    !.since = now, !.life = e]
    <2>0. /\ issued < MaxTok /\ issued' = issued + 1 /\ issued' \in Tok /\ e \in Nat
          /\ now \in Nat /\ At(c, "fetching") /\ Latency \in Nat
          /\ dies' = [dies EXCEPT ![issued'] = now + e]
          /\ UNCHANGED <<now, value, expiry, lock, queue, revoked>>
      <3>1. /\ issued < MaxTok /\ issued' = issued + 1 /\ At(c, "fetching")
            /\ dies' = [dies EXCEPT ![issued'] = now + e]
            /\ UNCHANGED <<now, value, expiry, lock, queue, revoked>>
        BY <1>4 DEF Issue
      <3>2. issued' \in Tok
        BY <1>0, <3>1 DEF Tok
      <3>3. e \in Nat /\ now \in Nat /\ Latency \in Nat
        BY <1>0, CacheAssumption DEF TypeOK
      <3> QED
        BY <3>1, <3>2, <3>3
    <2>1. /\ n \in Calls /\ n.try = call[c].try /\ n.refused = call[c].refused
          /\ n.pc = "replied" /\ n.tok = issued' /\ n.since = now /\ n.life = e
      BY <1>0, <2>0 DEF Calls, PCs
    <2>2. Becomes(c, n)
      BY <1>4 DEF Issue
    <2> HIDE DEF n
    <2>3. call' \in [Call -> Calls] /\ call'[c] = n /\ \A d \in Call : d # c => call'[d] = call[d]
      BY <1>0, <2>1, <2>2, BecomesType
    <2>4. dies' \in [Tok -> Nat] /\ dies'[issued'] = now + e
          /\ \A t \in Tok : t # issued' => dies'[t] = dies[t]
      BY <1>0, <2>0 DEF TypeOK
    <2>5. issued' \in 0..MaxTok
      BY <1>0, <2>0 DEF Tok
    <2>6. TypeOK'
      BY <1>0, <2>0, <2>3, <2>4, <2>5 DEF TypeOK
    <2>7. FetchesMerge'
      BY <1>0, <2>0, <2>1, <2>3 DEF FetchesMerge, Fetching, At, Cached
    <2>8. Known'
      BY <1>0, <2>0, <2>1, <2>3 DEF Known
    <2>9. \A d \in Call : At(d, "replied")' => d = c
      BY <1>0, <2>0, <2>3 DEF FetchesMerge, Fetching, At
    <2>10. Newest'
      BY <1>0, <2>0, <2>1, <2>3, <2>9 DEF Newest, Known, At
    <2>11. RetryInv'
      BY <1>0, <2>0, <2>1, <2>3 DEF RetryInv, At
    <2>12. AliveInv'
      BY <1>0, <2>0, <2>1, <2>3, <2>4, <2>9 DEF AliveInv, Known, At, TypeOK
    <2> QED
      BY <2>6, <2>7, <2>8, <2>10, <2>11, <2>12 DEF IInv
  <1>5. ASSUME NEW c \in Call, Fetched(c) PROVE IInv'
    <2> DEFINE n == [call[c] EXCEPT !.pc = "sending", !.since = 0, !.life = 0]
               e == call[c].life
    <2>1. /\ n \in Calls /\ n.try = call[c].try /\ n.refused = call[c].refused
          /\ n.pc = "sending" /\ n.tok = call[c].tok
      BY <1>0 DEF Calls, PCs
    <2>2. /\ At(c, "replied") /\ Becomes(c, n) /\ lock' = None
          /\ value' = call[c].tok /\ expiry' = now + CacheFor(e)
          /\ UNCHANGED <<now, queue, issued, dies, revoked>>
      BY <1>5 DEF Fetched
    <2> HIDE DEF n
    <2>3. call' \in [Call -> Calls] /\ call'[c] = n /\ \A d \in Call : d # c => call'[d] = call[d]
      BY <1>0, <2>1, <2>2, BecomesType
    <2>4. e \in Lifetimes /\ e \in Nat /\ now \in Nat /\ CacheFor(e) \in Nat /\ Latency \in Nat
          /\ call[c].since \in Nat /\ Latency + CacheFor(e) <= e
      BY <1>0, <2>2, CacheForBound, CacheAssumption DEF AliveInv, TypeOK, Calls
    <2>5. value' = issued /\ value' \in Tok /\ value' # NoTok /\ expiry' \in Nat
      <3>1. value' = issued /\ issued > 0 /\ issued \in 0..MaxTok
        BY <1>0, <2>2 DEF Newest, TypeOK
      <3>2. issued \in Tok /\ expiry' \in Nat
        BY <1>0, <2>2, <2>4, <3>1 DEF Tok
      <3> QED
        BY <1>0, <3>1, <3>2
    <2>6. TypeOK'
      BY <1>0, <2>2, <2>3, <2>5 DEF TypeOK
    <2>7. \A d \in Call : Fetching(d) => d = c
      BY <1>0, <2>2 DEF FetchesMerge, Fetching
    <2>8. \A d \in Call : ~Fetching(d)'
      BY <2>1, <2>3, <2>7 DEF Fetching, At
    <2>9. FetchesMerge' /\ Newest'
      BY <2>8 DEF FetchesMerge, Newest, Fetching
    <2>10. Known'
      BY <1>0, <2>1, <2>2, <2>3, <2>5 DEF Known
    <2>11. RetryInv'
      BY <1>0, <2>1, <2>2, <2>3, <2>5 DEF RetryInv, Newest, At
    <2>12. expiry' <= dies[value']
      BY <1>0, <2>2, <2>4 DEF AliveInv
    <2>13. AliveInv'
      BY <2>2, <2>8, <2>12 DEF AliveInv, Fetching
    <2> QED
      BY <2>6, <2>9, <2>10, <2>11, <2>13 DEF IInv
  <1>6. ASSUME NEW c \in Call, FetchFails(c) \/ Answered(c) \/ TransferFails(c) PROVE IInv'
    <2>1. /\ Becomes(c, IdleCall) 
          /\ \/ lock' = None /\ Fetching(c)
             \/ UNCHANGED lock /\ ~Fetching(c)
          /\ UNCHANGED <<now, value, expiry, queue, issued, dies, revoked>>
      BY <1>6 DEF FetchFails, Answered, TransferFails, Fetching, At
    <2>2. call' \in [Call -> Calls] /\ call'[c] = IdleCall
          /\ \A d \in Call : d # c => call'[d] = call[d]
      BY <1>0, <1>i, <2>1, BecomesType
    <2>3. TypeOK'
      BY <1>0, <2>1, <2>2 DEF TypeOK
    <2>4. FetchesMerge'
      BY <1>0, <1>i, <2>1, <2>2 DEF FetchesMerge, Fetching, At, Cached
    <2>5. Known' /\ Newest' /\ RetryInv' /\ AliveInv'
      BY <1>0, <1>i, <2>1, <2>2 DEF Known, Newest, RetryInv, AliveInv, At
    <2> QED
      BY <2>3, <2>4, <2>5 DEF IInv
  <1>7. ASSUME NEW t \in Tok, RevokeToken(t) PROVE IInv'
    <2>1. TypeOK'
      BY <1>0, <1>7 DEF RevokeToken, TypeOK
    <2>2. FetchesMerge' /\ Known' /\ Newest' /\ RetryInv' /\ AliveInv'
      BY <1>0, <1>7 DEF RevokeToken, FetchesMerge, Fetching, Known, Newest, RetryInv,
         AliveInv, At, Cached
    <2> QED
      BY <2>1, <2>2 DEF IInv
  <1>8. CASE Tick
    <2>1. now' = now + Step /\ now' \in Nat /\ now' >= now /\ now \in Nat /\ expiry \in Nat
          /\ UNCHANGED <<value, expiry, lock, queue, call, issued, dies, revoked>>
      BY <1>0, <1>8, CacheAssumption DEF Tick, TypeOK
    <2>2. TypeOK'
      BY <1>0, <2>1 DEF TypeOK
    <2>3. FetchesMerge' /\ Known' /\ Newest' /\ RetryInv'
      BY <1>0, <2>1 DEF FetchesMerge, Fetching, Known, Newest, RetryInv, At, Cached
    <2>4. AliveInv'
      BY <1>0, <1>8, <2>1 DEF Tick, AliveInv, At
    <2> QED
      BY <2>2, <2>3, <2>4 DEF IInv
  <1>9. CASE UNCHANGED vars
    BY <1>0, <1>9 DEF vars, IInv, TypeOK, FetchesMerge, Fetching, Known, Newest, RetryInv,
       AliveInv, At, Cached
  <1> QED
    BY <1>1, <1>2, <1>3, <1>4, <1>5, <1>6, <1>7, <1>8, <1>9 DEF Next, Run

LEMMA Invariance == Spec => []IInv
  BY InitInv, StepInv, PTL DEF Spec

\* Type correctness.
THEOREM CacheTypeCorrect == Spec => []TypeOK
  <1>1. IInv => TypeOK
    BY DEF IInv
  <1> QED
    BY <1>1, Invariance, PTL

\* One fetch at a time, and none while a cached token could be served.
THEOREM ConcurrentFetchesMerge == Spec => []FetchesMerge
  <1>1. IInv => FetchesMerge
    BY DEF IInv
  <1> QED
    BY <1>1, Invariance, PTL

\* The retry after a 401 is made with a token newer than the refused one.
THEOREM RetriesAreNotPointless == Spec => []RetryUsesAnotherToken
  <1>1. IInv => RetryUsesAnotherToken
    BY DEF IInv, RetryInv, RetryUsesAnotherToken
  <1> QED
    BY <1>1, Invariance, PTL

\* A cached token is never past its expiry at the provider, if responses take
\* at most Latency seconds and every lifetime exceeds that by the floor of 5.
THEOREM CacheIsNeverStale == Spec => []CachedTokenIsAlive
  <1>1. IInv => CachedTokenIsAlive
    <2> SUFFICES ASSUME IInv, Cached(value) PROVE now < dies[value]
      BY DEF CachedTokenIsAlive
    <2>1. now < expiry /\ expiry <= dies[value] /\ value \in Tok
      BY DEF IInv, AliveInv, Cached, TypeOK
    <2> QED
      BY <2>1 DEF IInv, TypeOK
  <1> QED
    BY <1>1, Invariance, PTL

-----------------------------------------------------------------------------
(* The waiting list.                                                       *)

\* A call at rest has no token, one that was not refused yet knows of none, and
\* one that is sent has one.
RestInv ==
    \A c \in Call :
        /\ At(c, "idle") => call[c] = IdleCall
        /\ call[c].try = 1 => call[c].refused = NoTok
        /\ At(c, "sending") => call[c].tok # NoTok

QInv == IInv /\ EveryWaiterIsQueued /\ RestInv

\* Joining the end of a list of distinct calls.
LEMMA AppendDistinct ==
    ASSUME NEW q \in Seq(Call), NEW c \in Call,
           \A i \in 1..Len(q) : q[i] # c,
           \A i, j \in 1..Len(q) : q[i] = q[j] => i = j
    PROVE  LET r == Append(q, c)
           IN  /\ \A d : (\E i \in 1..Len(r) : r[i] = d)
                             <=> d = c \/ \E i \in 1..Len(q) : q[i] = d
               /\ \A i, j \in 1..Len(r) : r[i] = r[j] => i = j
  <1> DEFINE r == Append(q, c)
  <1>1. /\ Len(r) = Len(q) + 1 /\ Len(q) \in Nat
        /\ r[Len(q) + 1] = c
        /\ \A i \in 1..Len(q) : r[i] = q[i]
    OBVIOUS
  <1> HIDE DEF r
  <1>2. \A i \in 1..Len(r) : i \in 1..Len(q) \/ i = Len(q) + 1
    BY <1>1
  <1>3. \A i \in 1..Len(q) : i \in 1..Len(r)
    BY <1>1
  <1>4. Len(q) + 1 \in 1..Len(r)
    BY <1>1
  <1>5. ASSUME NEW d
        PROVE  (\E i \in 1..Len(r) : r[i] = d) <=> d = c \/ \E i \in 1..Len(q) : q[i] = d
    BY <1>1, <1>2, <1>3, <1>4
  <1>6. ASSUME NEW i \in 1..Len(r), NEW j \in 1..Len(r), r[i] = r[j] PROVE i = j
    BY <1>1, <1>2, <1>6
  <1> QED
    BY <1>5, <1>6 DEF r

\* The first leaves it.
LEMMA TailDistinct ==
    ASSUME NEW q \in Seq(Call), q # <<>>,
           \A i, j \in 1..Len(q) : q[i] = q[j] => i = j
    PROVE  LET r == Tail(q)
           IN  /\ \A d : (\E i \in 1..Len(r) : r[i] = d)
                             <=> d # Head(q) /\ \E i \in 1..Len(q) : q[i] = d
               /\ \A i, j \in 1..Len(r) : r[i] = r[j] => i = j
  <1> DEFINE r == Tail(q)
  <1>1. /\ Len(q) \in Nat /\ Len(q) > 0 /\ Len(r) = Len(q) - 1
        /\ Head(q) = q[1]
        /\ \A i \in 1..Len(r) : r[i] = q[i + 1]
    OBVIOUS
  <1> HIDE DEF r
  <1>2. \A i \in 1..Len(r) : i + 1 \in 1..Len(q) /\ i + 1 # 1
    BY <1>1
  <1>3. ASSUME NEW i \in 1..Len(q), i # 1 PROVE i - 1 \in 1..Len(r) /\ r[i - 1] = q[i]
    <2>1. i - 1 \in 1..Len(r) /\ (i - 1) + 1 = i
      BY <1>1, <1>3
    <2> QED
      BY <1>1, <2>1
  <1>4. 1 \in 1..Len(q)
    BY <1>1
  <1>5. ASSUME NEW d
        PROVE  (\E i \in 1..Len(r) : r[i] = d)
                   <=> d # Head(q) /\ \E i \in 1..Len(q) : q[i] = d
    <2>1. ASSUME NEW i \in 1..Len(r), r[i] = d
          PROVE  d # Head(q) /\ \E j \in 1..Len(q) : q[j] = d
      BY <1>1, <1>2, <1>4, <2>1
    <2>2. ASSUME d # Head(q), NEW i \in 1..Len(q), q[i] = d PROVE \E j \in 1..Len(r) : r[j] = d
      BY <1>1, <1>3, <2>2
    <2> QED
      BY <2>1, <2>2
  <1>6. ASSUME NEW i \in 1..Len(r), NEW j \in 1..Len(r), r[i] = r[j] PROVE i = j
    <2>1. q[i + 1] = q[j + 1]
      BY <1>1, <1>6
    <2>2. i + 1 = j + 1
      BY <1>2, <2>1
    <2> QED
      BY <1>1, <2>2
  <1> QED
    BY <1>5, <1>6 DEF r

\* A call that neither enters nor leaves the list.
LEMMA ListStays ==
    ASSUME EveryWaiterIsQueued, NEW c \in Call, UNCHANGED queue,
           ~At(c, "waiting"), ~At(c, "waiting")',
           \A d \in Call : d # c => call'[d] = call[d],
           lock' = c <=> Fetching(c)',
           \A d \in Call : d # c => (lock' = d <=> lock = d)
    PROVE  EveryWaiterIsQueued'
  BY DEF EveryWaiterIsQueued, Fetching, At

\* get: the call goes on, starts to fetch, or joins the list.
LEMMA GetQueued ==
    ASSUME EveryWaiterIsQueued, TypeOK, NEW c \in Call, NEW v, NEW q,
           ~Fetching(c), ~At(c, "waiting"),
           call' \in [Call -> Calls], q \in Calls, Get(c, v, q)
    PROVE  /\ EveryWaiterIsQueued'
           /\ call'[c].try = q.try /\ call'[c].refused = q.refused
           /\ call'[c].pc \in {"sending", "fetching", "waiting"}
           /\ \A d \in Call : d # c => call'[d] = call[d]
           /\ call'[c].pc = "sending" => Cached(v) /\ call'[c].tok = v /\ v # NoTok
  <1>0. /\ call \in [Call -> Calls] /\ queue \in Seq(Call) /\ None \notin Call
        /\ \A p : Becomes(c, p) => call'[c] = p /\ \A d \in Call : d # c => call'[d] = call[d]
    BY CacheAssumption DEF TypeOK, Becomes
  <1>1. ASSUME Cached(v), Becomes(c, [q EXCEPT !.pc = "sending", !.tok = v]),
               UNCHANGED <<lock, queue>>
        PROVE  /\ EveryWaiterIsQueued'
               /\ call'[c].try = q.try /\ call'[c].refused = q.refused
               /\ call'[c].pc = "sending" /\ call'[c].tok = v
               /\ \A d \in Call : d # c => call'[d] = call[d]
    <2>1. call'[c] = [q EXCEPT !.pc = "sending", !.tok = v]
          /\ \A d \in Call : d # c => call'[d] = call[d]
      BY <1>0, <1>1 DEF Becomes
    <2>2. call'[c].try = q.try /\ call'[c].refused = q.refused
          /\ call'[c].pc = "sending" /\ call'[c].tok = v
      BY <2>1 DEF Calls
    <2>3. lock' # c
      BY <1>1 DEF EveryWaiterIsQueued
    <2>4. ~At(c, "waiting")' /\ ~Fetching(c)'
      BY <2>2 DEF At, Fetching
    <2> QED
      BY <1>1, <2>1, <2>2, <2>3, <2>4, ListStays
  <1>2. ASSUME ~Cached(v), lock = None, queue = <<>>,
               Becomes(c, [q EXCEPT !.pc = "fetching"]), lock' = c, UNCHANGED queue
        PROVE  /\ EveryWaiterIsQueued'
               /\ call'[c].try = q.try /\ call'[c].refused = q.refused
               /\ call'[c].pc = "fetching"
               /\ \A d \in Call : d # c => call'[d] = call[d]
    <2>1. call'[c] = [q EXCEPT !.pc = "fetching"]
          /\ \A d \in Call : d # c => call'[d] = call[d]
      BY <1>0, <1>2 DEF Becomes
    <2>2. call'[c].try = q.try /\ call'[c].refused = q.refused /\ call'[c].pc = "fetching"
      BY <2>1 DEF Calls
    <2>3. \A d \in Call : d # c => lock # d /\ lock' # d
      BY <1>0, <1>2
    <2>4. ~At(c, "waiting")' /\ Fetching(c)'
      BY <2>2 DEF At, Fetching
    <2> QED
      BY <1>2, <2>1, <2>2, <2>3, <2>4, ListStays
  <1>3. ASSUME ~Cached(v), Becomes(c, [q EXCEPT !.pc = "waiting"]),
               queue' = Append(queue, c), UNCHANGED lock
        PROVE  /\ EveryWaiterIsQueued'
               /\ call'[c].try = q.try /\ call'[c].refused = q.refused
               /\ call'[c].pc = "waiting"
               /\ \A d \in Call : d # c => call'[d] = call[d]
    <2>1. call'[c] = [q EXCEPT !.pc = "waiting"]
          /\ \A d \in Call : d # c => call'[d] = call[d]
      BY <1>0, <1>3 DEF Becomes
    <2>2. call'[c].try = q.try /\ call'[c].refused = q.refused /\ call'[c].pc = "waiting"
      BY <2>1 DEF Calls
    <2>3. /\ \A i \in 1..Len(queue) : queue[i] # c
          /\ \A i, j \in 1..Len(queue) : queue[i] = queue[j] => i = j
      BY DEF EveryWaiterIsQueued
    <2>4. /\ \A d : (\E i \in 1..Len(queue') : queue'[i] = d)
                        <=> d = c \/ \E i \in 1..Len(queue) : queue[i] = d
          /\ \A i, j \in 1..Len(queue') : queue'[i] = queue'[j] => i = j
      <3>1. LET r == Append(queue, c)
            IN  /\ \A d : (\E i \in 1..Len(r) : r[i] = d)
                               <=> d = c \/ \E i \in 1..Len(queue) : queue[i] = d
                /\ \A i, j \in 1..Len(r) : r[i] = r[j] => i = j
        BY <1>0, <2>3, AppendDistinct
      <3>2. queue' = Append(queue, c)
        BY <1>3
      <3> QED
        BY <3>1, <3>2, Zenon
    <2>5. ASSUME NEW d \in Call PROVE lock' = d <=> Fetching(d)'
      <3>1. UNCHANGED lock
        BY <1>3
      <3>2. call'[d].pc = IF d = c THEN "waiting" ELSE call[d].pc
        BY <2>1, <2>2
      <3> QED
        BY <3>1, <3>2 DEF EveryWaiterIsQueued, Fetching, At
    <2>6. ASSUME NEW d \in Call
          PROVE  At(d, "waiting")' <=> \E i \in 1..Len(queue') : queue'[i] = d
      <3>1. call'[d].pc = IF d = c THEN "waiting" ELSE call[d].pc
        BY <2>1, <2>2
      <3>2. (\E i \in 1..Len(queue') : queue'[i] = d)
                <=> d = c \/ \E i \in 1..Len(queue) : queue[i] = d
        BY <2>4
      <3>3. At(d, "waiting") <=> \E i \in 1..Len(queue) : queue[i] = d
        BY DEF EveryWaiterIsQueued
      <3> QED
        BY <3>1, <3>2, <3>3 DEF At
    <2> QED
      BY <2>1, <2>2, <2>4, <2>5, <2>6 DEF EveryWaiterIsQueued
  <1>4. Cached(v) => v # NoTok
    BY DEF Cached
  <1> QED
    BY <1>1, <1>2, <1>3, <1>4 DEF Get

LEMMA InitQueued == Init => EveryWaiterIsQueued /\ RestInv
  <1> SUFFICES ASSUME Init PROVE EveryWaiterIsQueued /\ RestInv
    OBVIOUS
  <1>1. \A c \in Call : call[c] = IdleCall /\ call[c].pc = "idle" /\ call[c].refused = NoTok
    BY DEF Init, IdleCall
  <1>2. lock = None /\ None \notin Call /\ Len(queue) = 0
    BY CacheAssumption DEF Init
  <1> QED
    BY <1>1, <1>2 DEF EveryWaiterIsQueued, RestInv, Fetching, At

LEMMA StepQueued == QInv /\ IInv' /\ [Next]_vars => EveryWaiterIsQueued' /\ RestInv'
  <1> SUFFICES ASSUME QInv, IInv', [Next]_vars PROVE EveryWaiterIsQueued' /\ RestInv'
    OBVIOUS
  <1>0. /\ TypeOK /\ EveryWaiterIsQueued /\ RestInv /\ FetchesMerge /\ None \notin Call
        /\ call \in [Call -> Calls] /\ call' \in [Call -> Calls] /\ queue \in Seq(Call)
        /\ \A c \in Call : call[c] \in Calls
    BY CacheAssumption DEF QInv, IInv, TypeOK
  <1>i. /\ IdleCall \in Calls /\ IdleCall.pc = "idle" /\ IdleCall.try = 1
        /\ IdleCall.refused = NoTok
    BY CacheAssumption DEF IdleCall, Calls, PCs, NoTok
  <1>1. ASSUME NEW c \in Call, Begin(c) PROVE EveryWaiterIsQueued' /\ RestInv'
    <2>1. ~Fetching(c) /\ ~At(c, "waiting") /\ Get(c, value, IdleCall)
      BY <1>1 DEF Begin, Fetching, At
    <2> QED
      BY <1>0, <1>i, <2>1, GetQueued DEF RestInv, At
  <1>2. ASSUME NEW c \in Call, Refused(c) PROVE EveryWaiterIsQueued' /\ RestInv'
    <2> DEFINE q == [call[c] EXCEPT !.try = 2, !.tok = NoTok, !.refused = call[c].tok]
    <2>1. ~Fetching(c) /\ ~At(c, "waiting") /\ Get(c, NoTok, q)
      BY <1>2 DEF Refused, Fetching, At
    <2>2. q \in Calls /\ q.try = 2
      BY <1>0 DEF Calls, NoTok
    <2> HIDE DEF q
    <2> QED
      BY <1>0, <2>1, <2>2, GetQueued DEF RestInv, At
  <1>3. ASSUME NEW c \in Call, Wake(c) PROVE EveryWaiterIsQueued' /\ RestInv'
    <2> DEFINE n == IF Cached(value) THEN [call[c] EXCEPT !.pc = "sending", !.tok = value]
                                     ELSE [call[c] EXCEPT !.pc = "fetching"]
    <2>1. /\ n.try = call[c].try /\ n.refused = call[c].refused
          /\ n.pc = IF Cached(value) THEN "sending" ELSE "fetching"
          /\ n.pc = "sending" => n.tok # NoTok
      BY <1>0 DEF Calls, Cached
    <2>2. Becomes(c, n)
      BY <1>3 DEF Wake
    <2>a. /\ lock = None /\ queue # <<>> /\ Head(queue) = c /\ queue' = Tail(queue)
          /\ lock' = IF Cached(value) THEN lock ELSE c
      BY <1>3 DEF Wake
    <2> HIDE DEF n
    <2>3. call'[c] = n /\ \A d \in Call : d # c => call'[d] = call[d]
      BY <1>0, <2>2 DEF Becomes
    <2>4. /\ \A d : (\E i \in 1..Len(queue') : queue'[i] = d)
                        <=> d # c /\ \E i \in 1..Len(queue) : queue[i] = d
          /\ \A i, j \in 1..Len(queue') : queue'[i] = queue'[j] => i = j
      <3>1. \A i, j \in 1..Len(queue) : queue[i] = queue[j] => i = j
        BY <1>0 DEF EveryWaiterIsQueued
      <3> QED
        <4>1. LET r == Tail(queue)
              IN  /\ \A d : (\E i \in 1..Len(r) : r[i] = d)
                                 <=> d # Head(queue) /\ \E i \in 1..Len(queue) : queue[i] = d
                  /\ \A i, j \in 1..Len(r) : r[i] = r[j] => i = j
          BY <1>0, <2>a, <3>1, TailDistinct
        <4>2. queue' = Tail(queue) /\ Head(queue) = c
          BY <2>a
        <4> QED
          BY <4>1, <4>2, Zenon
    <2>5. \A d \in Call : lock' = d <=> Fetching(d)'
      BY <1>0, <2>1, <2>a, <2>3 DEF EveryWaiterIsQueued, Fetching, At
    <2>6. \A d \in Call : At(d, "waiting")' <=> \E i \in 1..Len(queue') : queue'[i] = d
      BY <1>0, <2>1, <2>3, <2>4, ZenonT(60) DEF EveryWaiterIsQueued, At
    <2>7. EveryWaiterIsQueued'
      BY <2>4, <2>5, <2>6 DEF EveryWaiterIsQueued
    <2>8. RestInv'
      BY <1>0, <2>1, <2>3 DEF RestInv, At
    <2> QED
      BY <2>7, <2>8
  <1>4. ASSUME NEW c \in Call, NEW e \in Lifetimes, Issue(c, e)
        PROVE  EveryWaiterIsQueued' /\ RestInv'
    <2> DEFINE n == [call[c] EXCEPT !.pc = "replied", !.tok = issued', !.since = now, !.life = e]
    <2>1. n.try = call[c].try /\ n.refused = call[c].refused /\ n.pc = "replied"
      BY <1>0 DEF Calls
    <2>2. Becomes(c, n) /\ At(c, "fetching") /\ UNCHANGED <<lock, queue>>
      BY <1>4 DEF Issue
    <2> HIDE DEF n
    <2>3. call'[c] = n /\ \A d \in Call : d # c => call'[d] = call[d]
      BY <1>0, <2>2 DEF Becomes
    <2>4. EveryWaiterIsQueued'
      BY <1>0, <2>1, <2>2, <2>3 DEF EveryWaiterIsQueued, Fetching, At
    <2>5. RestInv'
      BY <1>0, <2>1, <2>3, ZenonT(60) DEF RestInv, At
    <2> QED
      BY <2>4, <2>5
  <1>5. ASSUME NEW c \in Call, Fetched(c) PROVE EveryWaiterIsQueued' /\ RestInv'
    <2> DEFINE n == [call[c] EXCEPT !.pc = "sending", !.since = 0, !.life = 0]
    <2>1. n.try = call[c].try /\ n.refused = call[c].refused /\ n.pc = "sending"
          /\ n.tok = call[c].tok
      BY <1>0 DEF Calls
    <2>2. Becomes(c, n) /\ At(c, "replied") /\ lock' = None /\ UNCHANGED queue
      BY <1>5 DEF Fetched
    <2> HIDE DEF n
    <2>3. call'[c] = n /\ \A d \in Call : d # c => call'[d] = call[d]
      BY <1>0, <2>2 DEF Becomes
    <2>4. EveryWaiterIsQueued'
      BY <1>0, <2>1, <2>2, <2>3 DEF EveryWaiterIsQueued, Fetching, At
    <2>5. call[c].tok # NoTok
      BY <2>2, CacheAssumption DEF QInv, IInv, TypeOK, Newest, NoTok
    <2>6. RestInv'
      BY <1>0, <2>1, <2>3, <2>5 DEF RestInv, At
    <2> QED
      BY <2>4, <2>6
  <1>6. ASSUME NEW c \in Call, FetchFails(c) \/ Answered(c) \/ TransferFails(c)
        PROVE  EveryWaiterIsQueued' /\ RestInv'
    <2>1. /\ Becomes(c, IdleCall) /\ UNCHANGED queue /\ ~At(c, "waiting")
          /\ \/ lock' = None /\ Fetching(c)
             \/ UNCHANGED lock /\ ~Fetching(c)
      BY <1>6 DEF FetchFails, Answered, TransferFails, Fetching, At
    <2>2. call'[c] = IdleCall /\ \A d \in Call : d # c => call'[d] = call[d]
      BY <1>0, <2>1 DEF Becomes
    <2>3. EveryWaiterIsQueued'
      BY <1>0, <1>i, <2>1, <2>2 DEF EveryWaiterIsQueued, Fetching, At
    <2>4. RestInv'
      BY <1>0, <1>i, <2>2 DEF RestInv, At
    <2> QED
      BY <2>3, <2>4
  <1>7. ASSUME UNCHANGED <<lock, queue, call>> PROVE EveryWaiterIsQueued' /\ RestInv'
    BY <1>0, <1>7 DEF EveryWaiterIsQueued, RestInv, Fetching, At
  <1>8. ASSUME (\E t \in Tok : RevokeToken(t)) \/ Tick \/ UNCHANGED vars
        PROVE  UNCHANGED <<lock, queue, call>>
    BY <1>8 DEF RevokeToken, Tick, vars
  <1> QED
    BY <1>1, <1>2, <1>3, <1>4, <1>5, <1>6, <1>7, <1>8 DEF Next, Run

LEMMA QueueInvariance == Spec => []QInv
  <1>1. Init => QInv
    BY InitInv, InitQueued DEF QInv
  <1>2. QInv /\ [Next]_vars => QInv'
    BY StepInv, StepQueued DEF QInv
  <1> QED
    BY <1>1, <1>2, PTL DEF Spec

\* Whoever waits has one place in the list, and the lock is held by a call that
\* fetches: no failure leaves the waiters without anybody to wake them.
THEOREM NobodyWaitsInVain == Spec => []EveryWaiterIsQueued
  <1>1. QInv => EveryWaiterIsQueued
    BY DEF QInv
  <1> QED
    BY <1>1, QueueInvariance, PTL

-----------------------------------------------------------------------------
(* The cache implements TokenSource.                                       *)

Uses == [c \in Call |-> UseOf(call[c])]
Shared == IF Cached(value) THEN value ELSE NoTok

\* Responses travel for less than a token lives.
LEMMA LifetimeBound == ASSUME NEW e \in Lifetimes PROVE Latency \in Nat /\ e >= Latency + 5
  BY CacheAssumption

\* Every token is cached for some time.
LEMMA CacheForPositive == ASSUME NEW e \in Lifetimes PROVE CacheFor(e) \in Nat /\ CacheFor(e) > 0
  BY CacheAssumption DEF CacheFor, Larger

\* What the contract sees of a call, by its program counter.
LEMMA UseFields ==
    ASSUME NEW q \in Calls
    PROVE  /\ q.pc = "idle" => UseOf(q) = [stage |-> "idle", try |-> q.try, tok |-> NoTok,
                                           refused |-> q.refused]
           /\ q.pc \in {"waiting", "fetching"} =>
                  UseOf(q) = [stage |-> "asking", try |-> q.try, tok |-> NoTok,
                              refused |-> q.refused]
           /\ q.pc = "replied" => UseOf(q) = [stage |-> "asking", try |-> q.try, tok |-> q.tok,
                                              refused |-> q.refused]
           /\ q.pc = "sending" => UseOf(q) = [stage |-> "sending", try |-> q.try, tok |-> q.tok,
                                              refused |-> q.refused]
  BY DEF UseOf

\* A step of call c changes its own entry of the mapped state only.
LEMMA UsesStep ==
    ASSUME NEW c \in Call, \A d \in Call : d # c => call'[d] = call[d]
    PROVE  Uses' = [Uses EXCEPT ![c] = UseOf(call'[c])]
  BY DEF Uses

\* How the entry of a call becomes another one.
LEMMA EntryBecomes ==
    ASSUME NEW c \in Call, NEW s, NEW t,
           \A d \in Call : d # c => call'[d] = call[d],
           UseOf(call'[c]) = [stage |-> s, try |-> UseOf(call[c]).try, tok |-> t,
                              refused |-> UseOf(call[c]).refused]
    PROVE  TokenSource!Becomes(c, s, t)
  <1>1. Uses' = [d \in Call |-> IF d = c THEN UseOf(call'[c]) ELSE UseOf(call[d])]
    BY DEF Uses
  <1>2. [Uses EXCEPT ![c] = [stage |-> s, try |-> @.try, tok |-> t, refused |-> @.refused]]
            = [d \in Call |-> IF d = c THEN UseOf(call'[c]) ELSE UseOf(call[d])]
    BY DEF Uses
  <1> QED
    BY <1>1, <1>2 DEF TokenSource!Becomes, Uses

\* The cached token, taken by a call that was not refused it, is a good one.
LEMMA SharedIsGood ==
    ASSUME QInv, NEW c \in Call, Cached(value),
           At(c, "idle") \/ At(c, "waiting")
    PROVE  value \in 1..issued /\ now < dies[value] /\ value > call[c].refused
  <1>1. /\ TypeOK /\ Known /\ AliveInv /\ RetryInv /\ RestInv /\ NoTok = 0
        /\ value # NoTok /\ value \in Tok /\ now < expiry /\ issued \in Nat /\ MaxTok \in Nat
        /\ call[c] \in Calls
    BY CacheAssumption DEF QInv, IInv, TypeOK, Cached, NoTok
  <1>2. value \in 1..issued
    BY <1>1 DEF Known, Tok
  <1>3. now < dies[value]
    BY <1>1 DEF AliveInv, TypeOK
  <1>4. value > call[c].refused
    <2>1. CASE call[c].try = 1
      BY <1>1, <1>2, <2>1 DEF RestInv
    <2>2. CASE call[c].try = 2
      <3>1. At(c, "waiting")
        BY <1>1, <2>2 DEF RestInv, At, IdleCall
      <3> QED
        BY <1>1, <2>2, <3>1 DEF RetryInv
    <2> QED
      BY <1>1, <2>1, <2>2 DEF Calls
  <1> QED
    BY <1>2, <1>3, <1>4

LEMMA InitTokenSource == Init => TokenSource!SInit
  <1> SUFFICES ASSUME Init PROVE TokenSource!SInit
    OBVIOUS
  <1>1. IdleCall \in Calls /\ IdleCall.pc = "idle" /\ IdleCall.try = 1
        /\ IdleCall.refused = NoTok
    BY CacheAssumption DEF IdleCall, Calls, PCs, NoTok
  <1>2. UseOf(IdleCall) = TokenSource!NotInUse
    BY <1>1, UseFields DEF TokenSource!NotInUse, TokenSource!NoTok, NoTok
  <1>3. ~Cached(value)
    BY DEF Init, Cached
  <1> QED
    BY <1>2, <1>3 DEF Init, TokenSource!SInit, TokenSource!NoTok, NoTok, TokenSource!Tok, Tok

LEMMA StepTokenSource ==
    QInv /\ QInv' /\ [Next]_vars => [TokenSource!SNext]_(TokenSource!svars)
  <1> SUFFICES ASSUME QInv, QInv', [Next]_vars
               PROVE  TokenSource!SNext \/ UNCHANGED TokenSource!svars
    OBVIOUS
  <1>0. /\ TypeOK /\ EveryWaiterIsQueued /\ RestInv /\ FetchesMerge
        /\ call \in [Call -> Calls] /\ call' \in [Call -> Calls]
        /\ \A c \in Call : call[c] \in Calls /\ call'[c] \in Calls
        /\ \A c \in Call : Uses[c] = UseOf(call[c])
    BY DEF QInv, IInv, TypeOK, Uses
  <1>i. /\ IdleCall \in Calls /\ IdleCall.pc = "idle" /\ IdleCall.try = 1
        /\ IdleCall.refused = NoTok
    BY CacheAssumption DEF IdleCall, Calls, PCs, NoTok
  <1>n. /\ NoTok = 0 /\ TokenSource!NoTok = 0 /\ TokenSource!Tok = Tok
        /\ Uses = [d \in Call |-> Uses[d]]
        /\ UseOf(IdleCall) = TokenSource!NotInUse
    BY <1>i, UseFields
    DEF NoTok, TokenSource!NoTok, Tok, TokenSource!Tok, Uses, TokenSource!NotInUse
  <1>1. ASSUME NEW c \in Call, Begin(c)
        PROVE  TokenSource!Ask(c) \/ TokenSource!SendShared(c)
    <2>1. /\ At(c, "idle") /\ ~Fetching(c) /\ ~At(c, "waiting") /\ Get(c, value, IdleCall)
          /\ UNCHANGED <<now, value, expiry, issued, dies, revoked>>
      BY <1>1 DEF Begin, Fetching, At
    <2>2. /\ call'[c].try = 1 /\ call'[c].refused = NoTok
          /\ call'[c].pc \in {"sending", "fetching", "waiting"}
          /\ \A d \in Call : d # c => call'[d] = call[d]
          /\ call'[c].pc = "sending" => Cached(value) /\ call'[c].tok = value
      BY <1>0, <1>i, <2>1, GetQueued
    <2>3. /\ Uses' = [Uses EXCEPT ![c] = UseOf(call'[c])]
          /\ Uses[c] = [stage |-> "idle", try |-> 1, tok |-> NoTok, refused |-> NoTok]
          /\ Shared' = Shared
      BY <1>0, <1>i, <2>1, <2>2, UsesStep, UseFields DEF RestInv, At, Shared, Cached
    <2>4. CASE call'[c].pc \in {"fetching", "waiting"}
      <3>1. UseOf(call'[c]) = [stage |-> "asking", try |-> 1, tok |-> NoTok, refused |-> NoTok]
        BY <1>0, <2>2, <2>4, UseFields
      <3>2. TokenSource!Becomes(c, "asking", NoTok)
        BY <1>0, <2>2, <2>3, <3>1, EntryBecomes
      <3> QED
        BY <1>n, <2>1, <2>3, <3>2 DEF TokenSource!Ask, Uses, Shared
    <2>5. CASE call'[c].pc = "sending"
      <3>1. UseOf(call'[c]) = [stage |-> "sending", try |-> 1, tok |-> value, refused |-> NoTok]
        BY <1>0, <2>2, <2>5, UseFields
      <3>2. Shared = value /\ Shared # NoTok
        BY <2>2, <2>5 DEF Shared, Cached
      <3>3. TokenSource!Good(c, Shared)
        BY <1>0, <2>1, <2>2, <2>3, <2>5, <3>2, SharedIsGood, <1>i DEF TokenSource!Good, Uses, RestInv, At
      <3>4. TokenSource!Becomes(c, "sending", Shared)
        BY <1>0, <2>2, <2>3, <3>1, <3>2, EntryBecomes
      <3>5. ~TokenSource!Renewing(c)
        BY <2>3 DEF TokenSource!Renewing, Uses
      <3> QED
        BY <1>n, <2>1, <2>3, <3>2, <3>3, <3>4, <3>5 DEF TokenSource!SendShared, Uses, Shared
    <2> QED
      BY <2>2, <2>4, <2>5
  <1>2. ASSUME NEW c \in Call, Refused(c) PROVE TokenSource!Refuse(c)
    <2> DEFINE q == [call[c] EXCEPT !.try = 2, !.tok = NoTok, !.refused = call[c].tok]
    <2>1. /\ ~Fetching(c) /\ ~At(c, "waiting") /\ Get(c, NoTok, q)
          /\ At(c, "sending") /\ call[c].try = 1 /\ ~Usable(call[c].tok)
          /\ value' = NoTok /\ expiry' = 0
          /\ UNCHANGED <<now, issued, dies, revoked>>
      BY <1>2 DEF Refused, Fetching, At
    <2>2. q \in Calls /\ q.try = 2 /\ q.refused = call[c].tok
      BY <1>0 DEF Calls, NoTok
    <2> HIDE DEF q
    <2>3. ~Cached(NoTok) /\ Shared' = NoTok
      BY <2>1 DEF Cached, Shared
    <2>4. /\ call'[c].try = 2 /\ call'[c].refused = call[c].tok
          /\ call'[c].pc \in {"fetching", "waiting"}
          /\ \A d \in Call : d # c => call'[d] = call[d]
      BY <1>0, <2>1, <2>2, <2>3, GetQueued
    <2>5. /\ UseOf(call'[c]) = [stage |-> "asking", try |-> 2, tok |-> NoTok,
                                refused |-> call[c].tok]
          /\ Uses[c] = [stage |-> "sending", try |-> 1, tok |-> call[c].tok,
                        refused |-> call[c].refused]
          /\ Uses' = [Uses EXCEPT ![c] = UseOf(call'[c])]
      BY <1>0, <2>1, <2>4, UsesStep, UseFields DEF At
    <2>6. call[c].tok \in revoked \/ now >= dies[call[c].tok]
      <3>1. call[c].tok \in Tok /\ now \in Nat /\ dies \in [Tok -> Nat]
        BY <1>0, <2>1 DEF Calls, TypeOK, RestInv
      <3>2. call[c].tok \in revoked \/ ~(now < dies[call[c].tok])
        BY <2>1 DEF Usable
      <3> QED
        BY <3>1, <3>2
    <2>7. Uses' = [Uses EXCEPT ![c] = [stage |-> "asking", try |-> 2, tok |-> NoTok,
                                       refused |-> Uses[c].tok]]
      BY <2>5
    <2>8. Uses[c].stage = "sending" /\ Uses[c].try = 1 /\ Uses[c].tok = call[c].tok
      BY <2>5
    <2> QED
      BY <1>n, <2>1, <2>3, <2>6, <2>7, <2>8 DEF TokenSource!Refuse, Uses, Shared
  <1>3. ASSUME NEW c \in Call, Wake(c)
        PROVE  TokenSource!SendShared(c) \/ UNCHANGED TokenSource!svars
    <2>1. /\ At(c, "waiting") /\ UNCHANGED <<now, value, expiry, issued, dies, revoked>>
          /\ Becomes(c, IF Cached(value) THEN [call[c] EXCEPT !.pc = "sending", !.tok = value]
                        ELSE [call[c] EXCEPT !.pc = "fetching"])
      BY <1>3 DEF Wake
    <2>2. /\ call'[c] = IF Cached(value) THEN [call[c] EXCEPT !.pc = "sending", !.tok = value]
                        ELSE [call[c] EXCEPT !.pc = "fetching"]
          /\ \A d \in Call : d # c => call'[d] = call[d]
      BY <1>0, <2>1 DEF Becomes
    <2>3. /\ Uses' = [Uses EXCEPT ![c] = UseOf(call'[c])]
          /\ Uses[c] = [stage |-> "asking", try |-> call[c].try, tok |-> NoTok,
                        refused |-> call[c].refused]
          /\ Shared' = Shared
      BY <1>0, <2>1, <2>2, UsesStep, UseFields DEF At, Shared, Cached
    <2>4. CASE ~Cached(value)
      <3>1. call'[c].pc = "fetching" /\ call'[c].try = call[c].try
            /\ call'[c].refused = call[c].refused
        BY <1>0, <2>2, <2>4 DEF Calls
      <3>2. UseOf(call'[c]) = Uses[c]
        BY <1>0, <2>3, <3>1, UseFields
      <3>3. Uses' = Uses
        BY <1>n, <2>3, <3>2
      <3> QED
        BY <2>1, <2>3, <3>3 DEF TokenSource!svars, Uses, Shared
    <2>5. CASE Cached(value)
      <3>1. call'[c].pc = "sending" /\ call'[c].tok = value /\ call'[c].try = call[c].try
            /\ call'[c].refused = call[c].refused
        BY <1>0, <2>2, <2>5 DEF Calls
      <3>2. UseOf(call'[c]) = [stage |-> "sending", try |-> call[c].try, tok |-> value,
                              refused |-> call[c].refused]
        BY <1>0, <3>1, UseFields
      <3>3. Shared = value /\ Shared # NoTok
        BY <2>5 DEF Shared, Cached
      <3>4. TokenSource!Good(c, Shared)
        BY <1>0, <2>1, <2>3, <2>5, <3>3, SharedIsGood DEF TokenSource!Good, Uses
      <3>5. TokenSource!Becomes(c, "sending", Shared)
        BY <1>0, <2>2, <2>3, <3>2, <3>3, EntryBecomes
      <3>6. ~TokenSource!Renewing(c)
        BY <1>n, <2>3 DEF TokenSource!Renewing, Uses
      <3> QED
        BY <1>n, <2>1, <2>3, <3>3, <3>4, <3>5, <3>6 DEF TokenSource!SendShared, Uses, Shared
    <2> QED
      BY <2>4, <2>5
  <1>4. ASSUME NEW c \in Call, NEW e \in Lifetimes, Issue(c, e) PROVE TokenSource!Renew(c, e)
    <2>1. /\ At(c, "fetching") /\ UNCHANGED <<now, value, expiry, lock, queue, revoked>>
          /\ issued < MaxTok /\ issued' = issued + 1
          /\ dies' = [dies EXCEPT ![issued'] = now + e]
          /\ Becomes(c, [call[c] EXCEPT !.pc = "replied", !.tok = issued', !.since = now,
                                        !.life = e])
      BY <1>4 DEF Issue
    <2>2. /\ call'[c] = [call[c] EXCEPT !.pc = "replied", !.tok = issued', !.since = now,
                                        !.life = e]
          /\ \A d \in Call : d # c => call'[d] = call[d]
      BY <1>0, <2>1 DEF Becomes
    <2>3. call'[c].pc = "replied" /\ call'[c].tok = issued' /\ call'[c].try = call[c].try
          /\ call'[c].refused = call[c].refused
      BY <1>0, <2>2 DEF Calls
    <2>a. Uses[c] = [stage |-> "asking", try |-> call[c].try, tok |-> NoTok,
                     refused |-> call[c].refused]
      BY <1>0, <2>1, UseFields DEF At
    <2>b. UseOf(call'[c]) = [stage |-> "asking", try |-> call[c].try, tok |-> issued',
                             refused |-> call[c].refused]
      BY <1>0, <2>3, UseFields
    <2>c. Uses' = [Uses EXCEPT ![c] = UseOf(call'[c])]
      BY <2>2, UsesStep
    <2>5. TokenSource!Becomes(c, "asking", issued')
      BY <1>0, <2>2, <2>a, <2>b, EntryBecomes
    <2>6. Shared = NoTok /\ Shared' = NoTok
      BY <1>0, <2>1 DEF FetchesMerge, Fetching, Shared, Cached
    <2>7. ASSUME NEW d \in Call PROVE ~TokenSource!Renewing(d)
      <3>1. call[d].pc # "replied"
        BY <1>0, <2>1 DEF FetchesMerge, Fetching, At
      <3> QED
        BY <1>0, <1>n, <3>1, UseFields DEF TokenSource!Renewing, Uses, Calls, PCs
    <2> QED
      BY <1>n, <2>1, <2>a, <2>5, <2>6, <2>7 DEF TokenSource!Renew, Uses, Shared
  <1>5. ASSUME NEW c \in Call, Fetched(c) PROVE TokenSource!SendRenewed(c)
    <2>1. /\ At(c, "replied") /\ UNCHANGED <<now, queue, issued, dies, revoked>>
          /\ value' = call[c].tok /\ expiry' = now + CacheFor(call[c].life)
          /\ Becomes(c, [call[c] EXCEPT !.pc = "sending", !.since = 0, !.life = 0])
      BY <1>5 DEF Fetched
    <2>2. /\ call'[c] = [call[c] EXCEPT !.pc = "sending", !.since = 0, !.life = 0]
          /\ \A d \in Call : d # c => call'[d] = call[d]
      BY <1>0, <2>1 DEF Becomes
    <2>3. call'[c].pc = "sending" /\ call'[c].tok = call[c].tok /\ call'[c].try = call[c].try
          /\ call'[c].refused = call[c].refused
      BY <1>0, <2>2 DEF Calls
    <2>a. Uses[c] = [stage |-> "asking", try |-> call[c].try, tok |-> call[c].tok,
                     refused |-> call[c].refused]
      BY <1>0, <2>1, UseFields DEF At
    <2>b. UseOf(call'[c]) = [stage |-> "sending", try |-> call[c].try, tok |-> call[c].tok,
                             refused |-> call[c].refused]
      BY <1>0, <2>3, UseFields
    <2>c. Uses' = [Uses EXCEPT ![c] = UseOf(call'[c])]
      BY <2>2, UsesStep
    <2>4. /\ Uses' = [Uses EXCEPT ![c] = [stage |-> "sending", try |-> call[c].try,
                                          tok |-> call[c].tok, refused |-> call[c].refused]]
          /\ Uses[c].stage = "asking" /\ Uses[c].tok = call[c].tok
          /\ Uses[c].refused = call[c].refused
      BY <2>a, <2>b, <2>c
    <2>5. /\ call[c].tok = issued /\ issued > 0 /\ call[c].refused < issued
          /\ call[c].life \in Lifetimes /\ dies[call[c].tok] = call[c].since + call[c].life
          /\ now <= call[c].since + Latency
      BY <2>1 DEF QInv, IInv, Newest, AliveInv
    <2>6. /\ now \in Nat /\ issued \in Nat /\ call[c].since \in Nat /\ call[c].life \in Nat
          /\ Latency \in Nat /\ call[c].life >= Latency + 5
          /\ CacheFor(call[c].life) \in Nat /\ CacheFor(call[c].life) > 0
      <3>1. now \in Nat /\ issued \in 0..MaxTok
        BY DEF QInv, IInv, TypeOK
      <3>2. call[c].since \in Nat /\ call[c].life \in Nat
        BY <1>0 DEF Calls
      <3>3. Latency \in Nat /\ call[c].life >= Latency + 5
        BY <2>5, LifetimeBound
      <3>4. CacheFor(call[c].life) \in Nat /\ CacheFor(call[c].life) > 0
        BY <2>5, CacheForPositive
      <3> QED
        BY <3>1, <3>2, <3>3, <3>4
    <2>7. Cached(value)' /\ Shared' = call[c].tok
      BY <1>n, <2>1, <2>5, <2>6 DEF Cached, Shared
    <2>8. TokenSource!Good(c, call[c].tok)
      BY <2>4, <2>5, <2>6 DEF TokenSource!Good, Uses
    <2>9. TokenSource!Becomes(c, "sending", call[c].tok)
      BY <1>0, <2>2, <2>a, <2>b, EntryBecomes
    <2>10. TokenSource!Renewing(c)
      BY <1>n, <2>4, <2>5, <2>6 DEF TokenSource!Renewing, Uses
    <2> QED
      BY <2>1, <2>4, <2>7, <2>8, <2>9, <2>10 DEF TokenSource!SendRenewed, Uses, Shared
  <1>6. ASSUME NEW c \in Call, FetchFails(c) \/ Answered(c) \/ TransferFails(c)
        PROVE  TokenSource!End(c)
    <2>1. /\ Becomes(c, IdleCall) /\ call[c].pc \in {"fetching", "replied", "sending"}
          /\ UNCHANGED <<now, value, expiry, issued, dies, revoked>>
      BY <1>6 DEF FetchFails, Answered, TransferFails, At
    <2>2. call'[c] = IdleCall /\ \A d \in Call : d # c => call'[d] = call[d]
      BY <1>0, <2>1 DEF Becomes
    <2>3. Uses' = [Uses EXCEPT ![c] = TokenSource!NotInUse] /\ Shared' = Shared
      BY <1>n, <2>1, <2>2, UsesStep DEF Shared, Cached
    <2>4. Uses[c].stage # "idle"
      BY <1>0, <2>1, UseFields
    <2> QED
      BY <2>1, <2>3, <2>4 DEF TokenSource!End, Uses, Shared
  <1>7. ASSUME NEW t \in Tok, RevokeToken(t) PROVE TokenSource!Revoke(t)
    BY <1>7 DEF RevokeToken, TokenSource!Revoke, Cached
  <1>8. ASSUME Tick PROVE TokenSource!Tick
    <2>1. /\ now' = now + Step /\ UNCHANGED <<value, expiry, call, issued, dies, revoked>>
      BY <1>8 DEF Tick
    <2>2. Cached(value)' => Cached(value)
      BY <1>0, <2>1, CacheAssumption DEF Cached, TypeOK
    <2>3. Shared' \in {Shared, NoTok}
      BY <2>1, <2>2 DEF Shared
    <2>4. Uses' = Uses
      BY <2>1 DEF Uses
    <2> QED
      BY <1>n, <2>1, <2>3, <2>4 DEF TokenSource!Tick, Uses, Shared
  <1>9. ASSUME UNCHANGED vars PROVE UNCHANGED TokenSource!svars
    BY <1>9 DEF vars, TokenSource!svars, Cached
  <1> QED
    BY <1>1, <1>2, <1>3, <1>4, <1>5, <1>6, <1>7, <1>8, <1>9 DEF Next, Run, TokenSource!SNext, TokenSource!Tok, Tok

\* Lock, double check and waiting list implement TokenSource: one shared token,
\* renewed by one call at a time and only when there is none, sent only while it
\* lives, never by the call it was refused to, in two attempts at most.
THEOREM CacheKeepsTokenContract == Spec => KeepsTokenContract
  <1>1. Init => TokenSource!SInit
    BY InitTokenSource
  <1>2. QInv /\ QInv' /\ [Next]_vars => [TokenSource!SNext]_(TokenSource!svars)
    BY StepTokenSource
  <1> QED
    BY <1>1, <1>2, QueueInvariance, PTL DEF Spec, KeepsTokenContract, TokenSource!SSpec

-----------------------------------------------------------------------------
(* How far a call is from its answer: the cache, a fetch, an attempt, and   *)
(* after a first 401 the same once more.                                    *)

Rank(q) ==
    CASE q.pc = "idle" -> 0
      [] q.pc = "sending"  -> IF q.try = 2 THEN 1 ELSE 5
      [] q.pc = "replied"  -> IF q.try = 2 THEN 2 ELSE 6
      [] q.pc = "fetching" -> IF q.try = 2 THEN 3 ELSE 7
      [] q.pc = "waiting"  -> IF q.try = 2 THEN 4 ELSE 8

\* What changes a call in flight brings it nearer to its answer.
Nearer ==
    \A c \in Call : ~At(c, "idle") /\ call'[c] # call[c] => Rank(call'[c]) < Rank(call[c])

\* A call becomes q and no other call changes.
LEMMA NearerStep ==
    ASSUME TypeOK, NEW c \in Call, NEW q \in Calls, Becomes(c, q),
           At(c, "idle") \/ Rank(q) < Rank(call[c])
    PROVE  Nearer
  BY BecomesType DEF Nearer

\* get leaves a call waiting, fetching or sending, at the attempt it is at.
LEMMA NearerGet ==
    ASSUME TypeOK, NEW c \in Call, NEW v \in Tok \cup {NoTok}, NEW q \in Calls, Get(c, v, q),
           At(c, "idle") \/ (At(c, "sending") /\ call[c].try = 1 /\ q.try = 2)
    PROVE  Nearer
  <1>1. PICK p \in {"sending", "fetching", "waiting"}, t \in {v, q.tok} :
           Becomes(c, [q EXCEPT !.pc = p, !.tok = t])
    <2>1. /\ [q EXCEPT !.pc = "fetching"] = [q EXCEPT !.pc = "fetching", !.tok = q.tok]
          /\ [q EXCEPT !.pc = "waiting"] = [q EXCEPT !.pc = "waiting", !.tok = q.tok]
      BY DEF Calls
    <2> QED
      BY <2>1 DEF Get
  <1> DEFINE n == [q EXCEPT !.pc = p, !.tok = t]
  <1>2. n \in Calls /\ n.pc = p /\ n.try = q.try
    BY DEF Calls, PCs
  <1> HIDE DEF n
  <1>3. At(c, "idle") \/ Rank(n) < Rank(call[c])
    BY <1>2 DEF Rank, At
  <1> QED
    BY <1>1, <1>2, <1>3, NearerStep DEF n

LEMMA NearerNext == ASSUME TypeOK, Next PROVE Nearer
  <1>0. /\ \A c \in Call : call[c] \in Calls
        /\ IdleCall \in Calls /\ IdleCall.pc = "idle"
        /\ value \in Tok \cup {NoTok}
    BY DEF TypeOK, IdleCall, Calls, PCs, NoTok
  <1>1. ASSUME NEW c \in Call, Begin(c) PROVE Nearer
    BY <1>0, <1>1, NearerGet DEF Begin
  <1>2. ASSUME NEW c \in Call, Wake(c) PROVE Nearer
    <2>1. PICK p \in {"sending", "fetching"}, t \in {value, call[c].tok} :
             Becomes(c, [call[c] EXCEPT !.pc = p, !.tok = t])
      <3>1. [call[c] EXCEPT !.pc = "fetching"]
              = [call[c] EXCEPT !.pc = "fetching", !.tok = call[c].tok]
        BY <1>0 DEF Calls
      <3> QED
        BY <1>2, <3>1 DEF Wake
    <2> DEFINE n == [call[c] EXCEPT !.pc = p, !.tok = t]
    <2>2. n \in Calls /\ n.pc = p /\ n.try = call[c].try
      BY <1>0 DEF Calls, PCs
    <2> HIDE DEF n
    <2>3. Rank(n) < Rank(call[c])
      BY <1>0, <1>2, <2>2 DEF Rank, Wake, At, Calls
    <2> QED
      BY <2>1, <2>2, <2>3, NearerStep DEF n
  <1>3. ASSUME NEW c \in Call, NEW e \in Lifetimes, Issue(c, e) PROVE Nearer
    <2> DEFINE n == [call[c] EXCEPT !.pc = "replied", !.tok = issued',
                                    !.since = now, !.life = e]
    <2>1. issued' \in Tok /\ now \in Nat /\ e \in Nat /\ call[c].pc = "fetching" /\ Becomes(c, n)
      BY <1>3, CacheAssumption DEF Issue, TypeOK, Tok, At
    <2>2. n \in Calls /\ n.pc = "replied" /\ n.try = call[c].try
      BY <1>0, <2>1 DEF Calls, PCs
    <2> HIDE DEF n
    <2>3. Rank(n) < Rank(call[c])
      BY <1>0, <2>1, <2>2 DEF Rank, Calls
    <2> QED
      BY <2>1, <2>2, <2>3, NearerStep
  <1>4. ASSUME NEW c \in Call, Fetched(c) PROVE Nearer
    <2> DEFINE n == [call[c] EXCEPT !.pc = "sending", !.since = 0, !.life = 0]
    <2>1. n \in Calls /\ n.pc = "sending" /\ n.try = call[c].try
      BY <1>0 DEF Calls, PCs
    <2>2. Becomes(c, n) /\ call[c].pc = "replied"
      BY <1>4 DEF Fetched, At
    <2> HIDE DEF n
    <2>3. Rank(n) < Rank(call[c])
      BY <1>0, <2>1, <2>2 DEF Rank, Calls
    <2> QED
      BY <2>1, <2>2, <2>3, NearerStep
  <1>5. ASSUME NEW c \in Call, FetchFails(c) \/ Answered(c) \/ TransferFails(c) PROVE Nearer
    <2>1. Becomes(c, IdleCall) /\ call[c].pc \in {"fetching", "replied", "sending"}
      BY <1>5 DEF FetchFails, Answered, TransferFails, At
    <2>2. Rank(IdleCall) < Rank(call[c])
      BY <1>0, <2>1 DEF Rank, Calls
    <2> QED
      BY <1>0, <2>1, <2>2, NearerStep
  <1>6. ASSUME NEW c \in Call, Refused(c) PROVE Nearer
    <2> DEFINE q == [call[c] EXCEPT !.try = 2, !.tok = NoTok, !.refused = call[c].tok]
    <2>1. q \in Calls /\ q.try = 2
      BY <1>0 DEF Calls
    <2>2. Get(c, NoTok, q) /\ At(c, "sending") /\ call[c].try = 1
      BY <1>6 DEF Refused
    <2> HIDE DEF q
    <2> QED
      BY <2>1, <2>2, NearerGet
  <1>7. ASSUME UNCHANGED call PROVE Nearer
    BY <1>7 DEF Nearer
  <1> QED
    BY <1>1, <1>2, <1>3, <1>4, <1>5, <1>6, <1>7 DEF Next, Run, RevokeToken, Tick

\* No call goes in circles, whatever the provider refuses and however often the
\* token changes meanwhile: each change of a call in flight brings it nearer to
\* its answer, so eight of them answer it.
THEOREM CallsOnlyAdvance == Spec => [][Nearer]_vars
  <1>1. TypeOK /\ [Next]_vars => [Nearer]_vars
    BY NearerNext
  <1> QED
    BY <1>1, CacheTypeCorrect, PTL DEF Spec
=============================================================================
