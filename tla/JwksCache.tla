------------------------------- MODULE JwksCache -------------------------------
(***************************************************************************)
(* The cache of the provider's signing keys in an OidcVerifier, shared by  *)
(* the threads that verify tokens with it.                                 *)
(*                                                                         *)
(* key_for holds a threading.Lock from its first look at the cache until   *)
(* it has a key or gives up, across one or two downloads of the key set.   *)
(* A key is identified by its kid; a kid is never given to another key.    *)
(***************************************************************************)
EXTENDS Integers

CONSTANTS
    Kid,        \* key ids
    Caller,     \* threads that verify tokens
    TTL,        \* ttl_seconds
    Latency,    \* how long a downloaded key set may travel
    MaxTime,    \* bound on the clock
    None        \* no thread, no key

ASSUME JwksAssumption ==
    /\ TTL \in Nat
    /\ Latency \in Nat
    /\ MaxTime \in Nat
    /\ None \notin Caller \cup Kid

VARIABLES
    now,        \* time.monotonic()
    keys,       \* _keys
    expiry,     \* _expires_at
    lock,       \* which thread holds _lock
    call,       \* the threads
    status,     \* what the provider does with each key
    gone        \* when it withdrew it

vars == <<now, keys, expiry, lock, call, status, gone>>

\* A thread is outside key_for, with the outcome of its last call, or in it.
Outside == {"found", "missing", "failed"}
PCs == Outside \cup {"waiting", "fetching", "replied"}
Calls == [pc : PCs, kid : Kid \cup {None}, try : {1, 2},
          payload : SUBSET Kid, since : Nat,    \* a key set on its way
          steady : BOOLEAN]     \* the key was published all the time so far
Return(outcome, steady) == [pc |-> outcome, kid |-> None, try |-> 1, payload |-> {},
                            since |-> 0, steady |-> steady]

Init ==
    /\ now = 0
    /\ keys = {}
    /\ expiry = 0
    /\ lock = None
    /\ call = [c \in Caller |-> Return("found", FALSE)]
    /\ status \in [Kid -> {"future", "published"}]
    /\ gone = [k \in Kid |-> 0]

At(c, p) == call[c].pc = p
Becomes(c, q) == call' = [call EXCEPT ![c] = q]
Published == {k \in Kid : status[k] = "published"}

-----------------------------------------------------------------------------
\* key_for for a token whose header names k; the lock comes next.
KeyFor(c, k) ==
    /\ call[c].pc \in Outside
    /\ Becomes(c, [pc |-> "waiting", kid |-> k, try |-> 1, payload |-> {},
                   since |-> 0, steady |-> k \in Published])
    /\ UNCHANGED <<now, keys, expiry, lock, status, gone>>

\* Mutant of Lookup: a key set that has not expired is taken as complete.
LookupTrusting(c) ==
    /\ At(c, "waiting")
    /\ lock = None
    /\ IF now >= expiry
       THEN lock' = c /\ Becomes(c, [call[c] EXCEPT !.pc = "fetching"])
       ELSE /\ UNCHANGED lock
            /\ Becomes(c, IF call[c].kid \in keys THEN Return("found", FALSE)
                          ELSE Return("missing", call[c].steady))
    /\ UNCHANGED <<now, keys, expiry, status, gone>>

\* The lock is free: the cached key, or a download while the lock is held.
Lookup(c) ==
    /\ At(c, "waiting")
    /\ lock = None
    /\ IF now >= expiry \/ call[c].kid \notin keys
       THEN lock' = c /\ Becomes(c, [call[c] EXCEPT !.pc = "fetching"])
       ELSE UNCHANGED lock /\ Becomes(c, Return("found", FALSE))
    /\ UNCHANGED <<now, keys, expiry, status, gone>>

\* The provider answers with the keys it publishes at that moment.
Download(c) ==
    /\ At(c, "fetching")
    /\ Becomes(c, [call[c] EXCEPT !.pc = "replied", !.payload = Published, !.since = now])
    /\ UNCHANGED <<now, keys, expiry, lock, status, gone>>

\* Mutant of Kept: keys of earlier downloads stay.
KeptForever(payload) == keys \cup payload

\* What _refresh makes of a download: the whole set is replaced.
Kept(payload) == payload

\* Mutant of Refresh: a missing key is asked for again and again.
RefreshAgain(c) ==
    LET has == call[c].kid \in call[c].payload
    IN  /\ At(c, "replied")
        /\ keys' = Kept(call[c].payload)
        /\ expiry' = now + TTL
        /\ IF ~has
           THEN /\ Becomes(c, [call[c] EXCEPT !.pc = "fetching", !.try = @ + 1,
                                              !.payload = {}, !.since = 0])
                /\ UNCHANGED lock
           ELSE Becomes(c, Return("found", FALSE)) /\ lock' = None
        /\ UNCHANGED <<now, status, gone>>

\* The answer arrives: it replaces the cache; a key that is not in it is asked
\* for a second time, and then the call gives up.
Refresh(c) ==
    LET has == call[c].kid \in call[c].payload
    IN  /\ At(c, "replied")
        /\ keys' = Kept(call[c].payload)
        /\ expiry' = now + TTL
        /\ IF ~has /\ call[c].try = 1
           THEN /\ Becomes(c, [call[c] EXCEPT !.pc = "fetching", !.try = 2,
                                              !.payload = {}, !.since = 0])
                /\ UNCHANGED lock
           ELSE /\ Becomes(c, IF has THEN Return("found", FALSE)
                              ELSE Return("missing", call[c].steady))
                /\ lock' = None
        /\ UNCHANGED <<now, status, gone>>

\* Mutant of RefreshFails: the lock is not released on the way out.
RefreshFailsLocked(c) ==
    /\ At(c, "fetching") \/ At(c, "replied")
    /\ Becomes(c, Return("failed", FALSE))
    /\ UNCHANGED <<now, keys, expiry, lock, status, gone>>

\* The download fails, or holds a key that cannot be read: the cache stays as
\* it is and the caller gets the error.
RefreshFails(c) ==
    /\ At(c, "fetching") \/ At(c, "replied")
    /\ lock' = None
    /\ Becomes(c, Return("failed", FALSE))
    /\ UNCHANGED <<now, keys, expiry, status, gone>>

-----------------------------------------------------------------------------
(* The provider and the clock.                                             *)

Publish(k) ==
    /\ status[k] = "future"
    /\ status' = [status EXCEPT ![k] = "published"]
    /\ UNCHANGED <<now, keys, expiry, lock, call, gone>>

Withdraw(k) ==
    /\ status[k] = "published"
    /\ status' = [status EXCEPT ![k] = "withdrawn"]
    /\ gone' = [gone EXCEPT ![k] = now]
    /\ call' = [c \in Caller |-> IF call[c].kid = k
                                 THEN [call[c] EXCEPT !.steady = FALSE] ELSE call[c]]
    /\ UNCHANGED <<now, keys, expiry, lock>>

Tick ==
    /\ now < MaxTime                                    \* bound on MaxTime
    /\ \A c \in Caller : At(c, "replied") => now + 1 <= call[c].since + Latency
    /\ now' = now + 1
    /\ UNCHANGED <<keys, expiry, lock, call, status, gone>>

\* What a thread does with the lock in its hands.
Hold(c) == Download(c) \/ Refresh(c) \/ RefreshFails(c)

Next ==
    \/ \E c \in Caller, k \in Kid : KeyFor(c, k)
    \/ \E c \in Caller : Lookup(c) \/ Hold(c)
    \/ \E k \in Kid : Publish(k) \/ Withdraw(k)
    \/ Tick

Spec == Init /\ [][Next]_vars

\* The download has a timeout, so the thread that holds the lock goes on.
FairSpec == Spec /\ \A c \in Caller : WF_vars(Hold(c))

-----------------------------------------------------------------------------
(* Properties.                                                             *)

\* Every variable keeps its shape.
TypeOK ==
    /\ now \in Nat /\ expiry \in Nat
    /\ keys \subseteq Kid
    /\ lock \in Caller \cup {None}
    /\ call \in [Caller -> Calls]
    /\ status \in [Kid -> {"future", "published", "withdrawn"}]
    /\ gone \in [Kid -> Nat]

\* A key the provider has withdrawn is trusted for the cache's lifetime and the
\* travel time of one download at most, whatever downloads other threads cause
\* for other keys in between (key_for, the test of _expires_at).
TrustEnds ==
    \A k \in keys : now < expiry /\ status[k] = "withdrawn" =>
        now < gone[k] + TTL + Latency

\* "JWKS is cached and refreshed on unknown kid": a key that was published all
\* the time a call took is never reported missing, however old the cached set
\* is and whatever other threads have put into it.
PublishedKeyIsFound ==
    \A c \in Caller : At(c, "missing") => ~call[c].steady

\* The lock is in the hands of a thread that is downloading, never of one that has
\* left key_for or waits for it: whoever waits, waits for somebody who goes on.
LockHasWorker ==
    \A c \in Caller : lock = c <=> At(c, "fetching") \/ At(c, "replied")

\* Downloads a call may still make: two when it begins, none when it has returned.
Left(q) ==
    CASE q.pc \in Outside -> 0
      [] q.pc = "waiting" -> 2
      [] q.pc = "fetching" -> 3 - q.try
      [] q.pc = "replied" -> 2 - q.try

\* A call as its thread sees it.
Seen(q) == [stage |-> IF q.pc \in Outside THEN q.pc ELSE "asking",
            kid |-> q.kid,
            steady |-> q.pc \notin Outside /\ q.steady,
            left |-> Left(q)]

KeySource == INSTANCE KeySource WITH asks <- [c \in Caller |-> Seen(call[c])]

\* The threads see what KeySource promises: each key that key_for returns is
\* published, or was TTL + Latency ago at most; a token is refused for want of a
\* key only after two downloads; and no call makes a third.
KeepsKeyContract == KeySource!KSpec

\* The lock is released whatever becomes of the downloads, so one failure of the
\* provider does not end verification for every thread.
LockIsReleased ==
    \A c \in Caller : lock = c ~> lock # c
=============================================================================
