----------------------------- MODULE TokenCache -----------------------------
(***************************************************************************)
(* The Management API adapter's token cache, and the calls that use it.    *)
(*                                                                         *)
(* _TokenCache.get looks at the cached token, takes an asyncio.Lock, looks *)
(* again and fetches a token.  _request sends a call with the token it     *)
(* got; when the answer is 401 it invalidates the cache, gets a token and  *)
(* sends the call once more.  Everything between two awaits is one step.   *)
(* Times are in seconds; tokens are numbered as the provider issues them.  *)
(***************************************************************************)
EXTENDS Integers, Sequences

CONSTANTS
    Call,       \* calls of the adapter that may be in flight at once
    Lifetimes,  \* values of expires_in
    Latency,    \* how long a token response may travel
    Step,       \* how far the clock moves at once
    MaxTime,    \* bound on the clock
    MaxTok,     \* bound on tokens issued
    None        \* no call

ASSUME CacheAssumption ==
    /\ Lifetimes \subseteq Nat
    /\ Latency \in 0..60
    /\ \A e \in Lifetimes : e >= Latency + 5
    /\ Step \in Nat \ {0}
    /\ MaxTime \in Nat
    /\ MaxTok \in Nat
    /\ None \notin Call

VARIABLES
    now,        \* the clock
    value,      \* _value
    expiry,     \* _expires_at
    lock,       \* which call holds _lock
    queue,      \* the calls waiting for _lock, first come first
    call,       \* the calls in flight
    issued,     \* tokens issued so far
    dies,       \* when each token expires at the provider
    revoked     \* tokens the provider refuses before that

vars == <<now, value, expiry, lock, queue, call, issued, dies, revoked>>

NoTok == 0
Tok == 1..MaxTok

PCs == {"idle", "waiting", "fetching", "replied", "sending"}
Calls == [pc : PCs, try : {1, 2},
          tok : Tok \cup {NoTok},       \* fetched, or sent as bearer token
          refused : Tok \cup {NoTok},   \* the token of the first 401
          since : Nat, life : Nat]      \* a token response on its way
IdleCall == [pc |-> "idle", try |-> 1, tok |-> NoTok, refused |-> NoTok,
             since |-> 0, life |-> 0]

Init ==
    /\ now = 0
    /\ value = NoTok
    /\ expiry = 0
    /\ lock = None
    /\ queue = <<>>
    /\ call = [c \in Call |-> IdleCall]
    /\ issued = 0
    /\ dies = [t \in Tok |-> 0]
    /\ revoked = {}

Larger(a, b) == IF a >= b THEN a ELSE b

\* Mutant of CacheFor: tokens are kept as long as they live.
CacheForAll(e) == Larger(e, 5)

\* Mutant of CacheFor: the floors are missing.
CacheForNoFloor(e) == e - 60

\* For how long a token that lives e seconds is cached.
CacheFor(e) == Larger(Larger(e, 30) - 60, 5)

Cached(v) == v # NoTok /\ now < expiry
At(c, p) == call[c].pc = p
Becomes(c, q) == call' = [call EXCEPT ![c] = q]
Usable(t) == t \notin revoked /\ now < dies[t]

\* get up to its first await, when the cache holds v: the cached token, or the
\* lock if it is free and nobody waits for it, or a place in the queue.
Get(c, v, q) ==
    \/ /\ Cached(v)
       /\ Becomes(c, [q EXCEPT !.pc = "sending", !.tok = v])
       /\ UNCHANGED <<lock, queue>>
    \/ /\ ~Cached(v) /\ lock = None /\ queue = <<>>
       /\ Becomes(c, [q EXCEPT !.pc = "fetching"])
       /\ lock' = c
       /\ UNCHANGED queue
    \/ /\ ~Cached(v) /\ (lock # None \/ queue # <<>>)
       /\ Becomes(c, [q EXCEPT !.pc = "waiting"])
       /\ queue' = Append(queue, c)
       /\ UNCHANGED lock

\* _request begins.
Begin(c) ==
    /\ At(c, "idle")
    /\ Get(c, value, IdleCall)
    /\ UNCHANGED <<now, value, expiry, issued, dies, revoked>>

\* Mutant of Wake: the cache is not looked at again.
WakeAndFetch(c) ==
    /\ At(c, "waiting")
    /\ lock = None
    /\ queue # <<>> /\ Head(queue) = c
    /\ queue' = Tail(queue)
    /\ lock' = c
    /\ Becomes(c, [call[c] EXCEPT !.pc = "fetching"])
    /\ UNCHANGED <<now, value, expiry, issued, dies, revoked>>

\* The first waiter gets the lock and looks at the cache again; if that serves
\* it, the lock is free again before anyone else runs.
Wake(c) ==
    /\ At(c, "waiting")
    /\ lock = None
    /\ queue # <<>> /\ Head(queue) = c
    /\ queue' = Tail(queue)
    /\ IF Cached(value)
       THEN /\ Becomes(c, [call[c] EXCEPT !.pc = "sending", !.tok = value])
            /\ UNCHANGED lock
       ELSE /\ Becomes(c, [call[c] EXCEPT !.pc = "fetching"])
            /\ lock' = c
    /\ UNCHANGED <<now, value, expiry, issued, dies, revoked>>

\* The provider issues a token; the response is on its way.
Issue(c, e) ==
    /\ At(c, "fetching")
    /\ issued < MaxTok                                  \* bound on MaxTok
    /\ issued' = issued + 1
    /\ dies' = [dies EXCEPT ![issued'] = now + e]
    /\ Becomes(c, [call[c] EXCEPT !.pc = "replied", !.tok = issued',
                                  !.since = now, !.life = e])
    /\ UNCHANGED <<now, value, expiry, lock, queue, revoked>>

\* It arrives: the token is cached, the lock released, the call sent.
Fetched(c) ==
    /\ At(c, "replied")
    /\ value' = call[c].tok
    /\ expiry' = now + CacheFor(call[c].life)
    /\ lock' = None
    /\ Becomes(c, [call[c] EXCEPT !.pc = "sending", !.since = 0, !.life = 0])
    /\ UNCHANGED <<now, queue, issued, dies, revoked>>

\* Mutant of FetchFails: the lock is not released on the way out.
FetchFailsLocked(c) ==
    /\ At(c, "fetching") \/ At(c, "replied")
    /\ Becomes(c, IdleCall)
    /\ UNCHANGED <<now, value, expiry, lock, queue, issued, dies, revoked>>

\* The token request fails, or its response is lost or malformed: the caller
\* gets an error.
FetchFails(c) ==
    /\ At(c, "fetching") \/ At(c, "replied")
    /\ lock' = None
    /\ Becomes(c, IdleCall)
    /\ UNCHANGED <<now, value, expiry, queue, issued, dies, revoked>>

\* Mutant of Refused: the cache is not invalidated.
RefusedKeepsValue(c) ==
    /\ At(c, "sending") /\ call[c].try = 1
    /\ ~Usable(call[c].tok)
    /\ Get(c, value, [call[c] EXCEPT !.try = 2, !.tok = NoTok, !.refused = call[c].tok])
    /\ UNCHANGED <<now, value, expiry, issued, dies, revoked>>

\* The first answer is 401: invalidate, whatever is cached by now, and get
\* again, without an await in between.
Refused(c) ==
    /\ At(c, "sending") /\ call[c].try = 1
    /\ ~Usable(call[c].tok)
    /\ value' = NoTok
    /\ expiry' = 0
    /\ Get(c, NoTok, [call[c] EXCEPT !.try = 2, !.tok = NoTok, !.refused = call[c].tok])
    /\ UNCHANGED <<now, issued, dies, revoked>>

\* Any other answer, a failed transfer, or a second 401 ends the call.
Answered(c) ==
    /\ At(c, "sending")
    /\ call[c].try = 2 \/ Usable(call[c].tok)
    /\ Becomes(c, IdleCall)
    /\ UNCHANGED <<now, value, expiry, lock, queue, issued, dies, revoked>>

\* The transfer itself fails.
TransferFails(c) ==
    /\ At(c, "sending")
    /\ Becomes(c, IdleCall)
    /\ UNCHANGED <<now, value, expiry, lock, queue, issued, dies, revoked>>

\* The provider stops accepting a token, for instance after a key rotation.
RevokeToken(t) ==
    /\ t \in 1..issued
    /\ Usable(t)
    /\ revoked' = revoked \cup {t}
    /\ UNCHANGED <<now, value, expiry, lock, queue, call, issued, dies>>

Tick ==
    /\ now + Step <= MaxTime                            \* bound on MaxTime
    /\ \A c \in Call : At(c, "replied") => now + Step <= call[c].since + Latency
    /\ now' = now + Step
    /\ UNCHANGED <<value, expiry, lock, queue, call, issued, dies, revoked>>

\* What the adapter does for a call in flight.
Run(c) ==
    \/ Wake(c)
    \/ \E e \in Lifetimes : Issue(c, e)
    \/ Fetched(c)
    \/ FetchFails(c)
    \/ Refused(c)
    \/ Answered(c)
    \/ TransferFails(c)

Next ==
    \/ \E c \in Call : Begin(c) \/ Run(c)
    \/ \E t \in Tok : RevokeToken(t)
    \/ Tick

Spec == Init /\ [][Next]_vars

\* The HTTP client has a timeout, so every await ends.
FairSpec == Spec /\ \A c \in Call : WF_vars(Run(c))

-----------------------------------------------------------------------------
(* Properties.                                                             *)

\* Every variable keeps its shape.
TypeOK ==
    /\ now \in Nat /\ expiry \in Nat
    /\ value \in Tok \cup {NoTok}
    /\ lock \in Call \cup {None}
    /\ queue \in Seq(Call)
    /\ call \in [Call -> Calls]
    /\ issued \in 0..MaxTok
    /\ dies \in [Tok -> Nat]
    /\ revoked \subseteq Tok

Fetching(c) == At(c, "fetching") \/ At(c, "replied")

\* Concurrent callers share one fetch: a token is being fetched by at most one
\* call, the one that holds the lock, and only while the cache holds nothing
\* that could be served (test_management_token_cache_merges_concurrent_refreshes
\* tries this with twenty callers that start together).
FetchesMerge ==
    \A c \in Call : Fetching(c) => lock = c /\ ~Cached(value)

\* The second attempt after a 401 never repeats the token that was refused,
\* whoever else filled the cache in between.
RetryUsesAnotherToken ==
    \A c \in Call : At(c, "sending") /\ call[c].try = 2 => call[c].tok > call[c].refused

\* What the cache serves has not expired at the provider, although its age is
\* counted from the arrival of the response only.
CachedTokenIsAlive ==
    Cached(value) => now < dies[value]

\* Nobody waits in vain: the lock is held by a call that fetches and by no other,
\* and every call that waits has its one place in the queue.
EveryWaiterIsQueued ==
    /\ \A c \in Call : lock = c <=> Fetching(c)
    /\ \A c \in Call : At(c, "waiting") <=> \E i \in 1..Len(queue) : queue[i] = c
    /\ \A i, j \in 1..Len(queue) : queue[i] = queue[j] => i = j

\* A call as TokenSource knows it: waiting and fetching look the same.
UseOf(q) ==
    [stage |-> IF q.pc \in {"idle", "sending"} THEN q.pc ELSE "asking",
     try |-> q.try, refused |-> q.refused,
     tok |-> IF q.pc \in {"replied", "sending"} THEN q.tok ELSE NoTok]

TokenSource == INSTANCE TokenSource WITH
    shared <- IF Cached(value) THEN value ELSE NoTok,
    use <- [c \in Call |-> UseOf(call[c])]

\* With lock, double check and waiting list the cache is one shared token: renewed
\* by one call at a time and only when there is none, sent only while it lives,
\* never sent again by a call it was refused to, and two attempts end a call.
KeepsTokenContract == TokenSource!SSpec

\* Every call is answered: a failed fetch does not keep the others waiting.
EveryCallAnswered ==
    \A c \in Call : ~At(c, "idle") ~> At(c, "idle")
=============================================================================
