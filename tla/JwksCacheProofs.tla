---------------------------- MODULE JwksCacheProofs ----------------------------
(***************************************************************************)
(* The key cache's invariants, for any keys, threads, lifetime and latency. *)
(***************************************************************************)
EXTENDS JwksCache, TLAPS

\* A downloaded key set that is still on its way was published, as a whole, a
\* short while ago.
DownloadInv ==
    \A c \in Caller : At(c, "replied") =>
        /\ call[c].since <= now
        /\ now <= call[c].since + Latency
        /\ \A k \in call[c].payload :
               status[k] = "withdrawn" => call[c].since <= gone[k]

\* What is cached was published at most TTL + Latency before the cache expires.
CacheInv ==
    /\ expiry <= now + TTL
    /\ \A k \in keys : status[k] = "withdrawn" => expiry <= gone[k] + TTL + Latency

\* A key that is published all the time is in every download made for it.
SteadyInv ==
    \A c \in Caller :
        /\ call[c].pc \notin Outside => call[c].kid \in Kid
        /\ call[c].pc \notin Outside /\ call[c].steady => call[c].kid \in Published
        /\ At(c, "replied") /\ call[c].steady => call[c].kid \in call[c].payload

IInv == TypeOK /\ DownloadInv /\ CacheInv /\ SteadyInv /\ PublishedKeyIsFound

LEMMA ReturnType ==
    ASSUME NEW o \in Outside, NEW b \in BOOLEAN
    PROVE  /\ Return(o, b) \in Calls
           /\ Return(o, b).pc = o
           /\ Return(o, b).steady = b
  BY DEF Return, Calls, PCs

LEMMA InitInv == Init => IInv
  <1> SUFFICES ASSUME Init PROVE IInv
    OBVIOUS
  <1>1. "found" \in Outside /\ FALSE \in BOOLEAN
    BY DEF Outside
  <1>2. \A c \in Caller : call[c] \in Calls /\ call[c].pc = "found" /\ call[c].steady = FALSE
    BY <1>1, ReturnType DEF Init
  <1>3. TypeOK
    BY <1>1, ReturnType, JwksAssumption DEF Init, TypeOK
  <1>4. DownloadInv /\ SteadyInv /\ PublishedKeyIsFound
    BY <1>1, <1>2 DEF DownloadInv, SteadyInv, PublishedKeyIsFound, At
  <1>5. CacheInv
    BY JwksAssumption DEF Init, CacheInv
  <1> QED
    BY <1>3, <1>4, <1>5 DEF IInv

\* What replacing the record of thread c by q does.
LEMMA BecomesCall ==
    ASSUME TypeOK, NEW c \in Caller, NEW q \in Calls, Becomes(c, q)
    PROVE  /\ call' \in [Caller -> Calls]
           /\ call'[c] = q
           /\ \A d \in Caller : d # c => call'[d] = call[d]
  BY DEF TypeOK, Becomes

\* A step of thread c that leaves the provider and the clock alone keeps the
\* threads' part of the invariant if the thread's new record q fits.
LEMMA ThreadStep ==
    ASSUME IInv, NEW c \in Caller, NEW q \in Calls, Becomes(c, q),
           UNCHANGED <<now, status, gone>>,
           q.pc = "replied" => q.since = now /\ q.payload = Published,
           q.pc \notin Outside => q.kid \in Kid,
           q.pc \notin Outside /\ q.steady => q.kid \in Published,
           q.pc = "missing" => ~q.steady
    PROVE  DownloadInv' /\ SteadyInv' /\ PublishedKeyIsFound'
  <1>1. /\ call' \in [Caller -> Calls]
        /\ call'[c] = q
        /\ \A d \in Caller : d # c => call'[d] = call[d]
    BY BecomesCall DEF IInv
  <1>2. Published' = Published /\ now \in Nat /\ Latency \in Nat
    BY JwksAssumption DEF Published, IInv, TypeOK
  <1>3. DownloadInv'
    <2> SUFFICES ASSUME NEW d \in Caller, At(d, "replied")'
                 PROVE  /\ call'[d].since <= now
                        /\ now <= call'[d].since + Latency
                        /\ \A k \in call'[d].payload :
                               status[k] = "withdrawn" => call'[d].since <= gone[k]
      BY DEF DownloadInv
    <2>1. CASE d = c
      BY <2>1, <1>1, <1>2 DEF At, Published
    <2>2. CASE d # c
      BY <2>2, <1>1 DEF IInv, DownloadInv, At
    <2> QED
      BY <2>1, <2>2
  <1>4. SteadyInv'
    <2> SUFFICES ASSUME NEW d \in Caller
                 PROVE  /\ call'[d].pc \notin Outside => call'[d].kid \in Kid
                        /\ call'[d].pc \notin Outside /\ call'[d].steady
                               => call'[d].kid \in Published
                        /\ call'[d].pc = "replied" /\ call'[d].steady
                               => call'[d].kid \in call'[d].payload
      BY <1>2 DEF SteadyInv, At
    <2>1. CASE d = c
      <3>1. q.pc = "replied" => q.pc \notin Outside
        BY DEF Outside
      <3> QED
        BY <2>1, <3>1, <1>1
    <2>2. CASE d # c
      BY <2>2, <1>1 DEF IInv, SteadyInv, At
    <2> QED
      BY <2>1, <2>2
  <1>5. PublishedKeyIsFound'
    BY <1>1 DEF IInv, PublishedKeyIsFound, At
  <1> QED
    BY <1>3, <1>4, <1>5

LEMMA NextInv == IInv /\ [Next]_vars => IInv'
  <1> SUFFICES ASSUME IInv, [Next]_vars PROVE IInv'
    OBVIOUS
  <1> USE JwksAssumption
  <1>0. /\ now \in Nat /\ expiry \in Nat
        /\ \A c \in Caller : call[c] \in Calls /\ call[c].kid \in Kid \cup {None}
                             /\ call[c].since \in Nat /\ call[c].payload \subseteq Kid
                             /\ call[c].steady \in BOOLEAN
        /\ \A k \in Kid : gone[k] \in Nat
    BY DEF IInv, TypeOK, Calls
  <1>1. ASSUME NEW c \in Caller, NEW k \in Kid, KeyFor(c, k) PROVE IInv'
    <2>1. PICK q : q = [pc |-> "waiting", kid |-> k, try |-> 1, payload |-> {},
                        since |-> 0, steady |-> k \in Published]
      OBVIOUS
    <2>2. q \in Calls /\ Becomes(c, q)
      BY <1>1, <2>1 DEF KeyFor, Calls, PCs
    <2>3. DownloadInv' /\ SteadyInv' /\ PublishedKeyIsFound'
      BY <1>1, <2>1, <2>2, ThreadStep DEF KeyFor
    <2>4. TypeOK' /\ CacheInv'
      BY <1>1, <2>2, BecomesCall DEF KeyFor, IInv, TypeOK, CacheInv
    <2> QED
      BY <2>3, <2>4 DEF IInv
  <1>2. ASSUME NEW c \in Caller, Lookup(c) PROVE IInv'
    <2>1. PICK q : q = IF now >= expiry \/ call[c].kid \notin keys
                       THEN [call[c] EXCEPT !.pc = "fetching"] ELSE Return("found", FALSE)
      OBVIOUS
    <2>2. Becomes(c, q)
      BY <1>2, <2>1 DEF Lookup
    <2>3. "found" \in Outside /\ "waiting" \notin Outside /\ "fetching" \in PCs
      BY DEF Outside, PCs
    <2>a. /\ Return("found", FALSE) \in Calls
          /\ Return("found", FALSE).pc = "found"
      BY <2>3, ReturnType
    <2>b. LET f == [call[c] EXCEPT !.pc = "fetching"]
          IN  f \in Calls /\ f.pc = "fetching" /\ f.kid = call[c].kid
              /\ f.steady = call[c].steady
      BY <1>0, <2>3 DEF Calls
    <2>4. q \in Calls
      BY <2>1, <2>a, <2>b
    <2>5. DownloadInv' /\ SteadyInv' /\ PublishedKeyIsFound'
      <3>1. /\ q.pc # "replied" /\ q.pc # "missing"
            /\ q.pc \notin Outside => q.kid = call[c].kid /\ q.steady = call[c].steady
        BY <2>1, <2>3, <2>a, <2>b
      <3>2. call[c].kid \in Kid /\ (call[c].steady => call[c].kid \in Published)
        BY <1>2, <2>3 DEF Lookup, IInv, SteadyInv, At
      <3> QED
        BY <1>2, <2>2, <2>4, <3>1, <3>2, ThreadStep DEF Lookup
    <2>6. TypeOK' /\ CacheInv'
      BY <1>2, <2>2, <2>4, BecomesCall DEF Lookup, IInv, TypeOK, CacheInv
    <2> QED
      BY <2>5, <2>6 DEF IInv
  <1>3. ASSUME NEW c \in Caller, Download(c) PROVE IInv'
    <2>1. PICK q : q = [call[c] EXCEPT !.pc = "replied", !.payload = Published, !.since = now]
      OBVIOUS
    <2>2. q \in Calls /\ Becomes(c, q)
      <3>1. "replied" \in PCs /\ Published \in SUBSET Kid /\ now \in Nat
        BY <1>0 DEF PCs, Published
      <3>2. q = [pc |-> "replied", kid |-> call[c].kid, try |-> call[c].try,
                 payload |-> Published, since |-> now, steady |-> call[c].steady]
        BY <1>0, <2>1 DEF Calls
      <3>a. call[c].kid \in Kid \cup {None} /\ call[c].try \in {1, 2}
            /\ call[c].steady \in BOOLEAN
        BY <1>0 DEF Calls
      <3>3. q \in Calls
        BY <3>1, <3>2, <3>a DEF Calls
      <3> QED
        BY <1>3, <2>1, <3>3 DEF Download
    <2>3. DownloadInv' /\ SteadyInv' /\ PublishedKeyIsFound'
      <3>1. /\ q.pc = "replied" /\ q.since = now /\ q.payload = Published
            /\ q.kid = call[c].kid /\ q.steady = call[c].steady
        BY <1>0, <2>1 DEF Calls
      <3>2. call[c].kid \in Kid /\ (call[c].steady => call[c].kid \in Published)
        BY <1>3 DEF Download, IInv, SteadyInv, At, Outside
      <3> QED
        BY <1>3, <2>2, <3>1, <3>2, ThreadStep DEF Download
    <2>4. TypeOK' /\ CacheInv'
      BY <1>3, <2>2, BecomesCall DEF Download, IInv, TypeOK, CacheInv
    <2> QED
      BY <2>3, <2>4 DEF IInv
  <1>4. ASSUME NEW c \in Caller, Refresh(c) PROVE IInv'
    <2> DEFINE has == call[c].kid \in call[c].payload
    <2>1. PICK q : q = IF ~has /\ call[c].try = 1
                       THEN [call[c] EXCEPT !.pc = "fetching", !.try = 2,
                                            !.payload = {}, !.since = 0]
                       ELSE IF has THEN Return("found", FALSE)
                                   ELSE Return("missing", call[c].steady)
      OBVIOUS
    <2>2. Becomes(c, q)
      BY <1>4, <2>1 DEF Refresh
    <2>3. /\ "found" \in Outside /\ "missing" \in Outside /\ "fetching" \in PCs
          /\ "replied" \notin Outside
      BY DEF Outside, PCs
    <2>a. /\ Return("found", FALSE) \in Calls
          /\ Return("found", FALSE).pc = "found"
      BY <2>3, ReturnType
    <2>b. /\ Return("missing", call[c].steady) \in Calls
          /\ Return("missing", call[c].steady).pc = "missing"
          /\ Return("missing", call[c].steady).steady = call[c].steady
      BY <1>0, <2>3, ReturnType
    <2>c. LET f == [call[c] EXCEPT !.pc = "fetching", !.try = 2, !.payload = {}, !.since = 0]
          IN  f \in Calls /\ f.pc = "fetching" /\ f.kid = call[c].kid
              /\ f.steady = call[c].steady
      BY <1>0, <2>3 DEF Calls
    <2>4. q \in Calls
      BY <2>1, <2>a, <2>b, <2>c
    <2>5. DownloadInv' /\ SteadyInv' /\ PublishedKeyIsFound'
      <3>1. /\ q.pc # "replied"
            /\ q.pc \notin Outside => q.kid = call[c].kid /\ q.steady = call[c].steady
            /\ q.pc = "missing" => ~has /\ q.steady = call[c].steady
        BY <2>1, <2>3, <2>a, <2>b, <2>c
      <3>2. /\ call[c].kid \in Kid
            /\ call[c].steady => call[c].kid \in Published /\ has
        BY <1>4, <2>3 DEF Refresh, IInv, SteadyInv, At
      <3> HIDE DEF has
      <3> QED
        BY <1>4, <2>2, <2>4, <3>1, <3>2, ThreadStep DEF Refresh
    <2>6. TypeOK'
      <3>1. keys' \subseteq Kid /\ expiry' \in Nat
        BY <1>0, <1>4 DEF Refresh, Kept
      <3>2. call' \in [Caller -> Calls]
        BY <2>2, <2>4, BecomesCall DEF IInv
      <3>3. lock' \in Caller \cup {None} /\ UNCHANGED <<now, status, gone>>
        BY <1>4 DEF Refresh, IInv, TypeOK
      <3> QED
        BY <3>1, <3>2, <3>3 DEF IInv, TypeOK
    <2>7. CacheInv'
      <3>1. /\ keys' = call[c].payload /\ expiry' = now + TTL
            /\ UNCHANGED <<now, status, gone>>
        BY <1>4 DEF Refresh, Kept
      <3>2. /\ now <= call[c].since + Latency
            /\ \A k \in call[c].payload :
                   status[k] = "withdrawn" => call[c].since <= gone[k]
        BY <1>4 DEF Refresh, IInv, DownloadInv
      <3> QED
        BY <1>0, <3>1, <3>2 DEF CacheInv
    <2> QED
      BY <2>5, <2>6, <2>7 DEF IInv
  <1>5. ASSUME NEW c \in Caller, RefreshFails(c) PROVE IInv'
    <2>1. PICK q : q = Return("failed", FALSE)
      OBVIOUS
    <2>2. q \in Calls /\ Becomes(c, q) /\ q.pc = "failed"
      BY <1>5, <2>1, ReturnType DEF RefreshFails, Outside
    <2>3. DownloadInv' /\ SteadyInv' /\ PublishedKeyIsFound'
      BY <1>5, <2>2, ThreadStep DEF RefreshFails, Outside
    <2>4. TypeOK' /\ CacheInv'
      BY <1>5, <2>2, BecomesCall DEF RefreshFails, IInv, TypeOK, CacheInv
    <2> QED
      BY <2>3, <2>4 DEF IInv
  <1>6. ASSUME NEW k \in Kid, Publish(k) PROVE IInv'
    <2>1. /\ \A j \in Kid : status'[j] = "withdrawn" <=> status[j] = "withdrawn"
          /\ Published \subseteq Published'
          /\ UNCHANGED <<now, keys, expiry, lock, call, gone>>
      BY <1>6 DEF Publish, Published, IInv, TypeOK
    <2>2. TypeOK'
      BY <1>6 DEF Publish, IInv, TypeOK
    <2>3. DownloadInv' /\ CacheInv'
      BY <1>0, <2>1 DEF IInv, TypeOK, DownloadInv, CacheInv, At
    <2>4. SteadyInv' /\ PublishedKeyIsFound'
      BY <2>1 DEF IInv, SteadyInv, PublishedKeyIsFound, At
    <2> QED
      BY <2>2, <2>3, <2>4 DEF IInv
  <1>7. ASSUME NEW k \in Kid, Withdraw(k) PROVE IInv'
    <2>1. /\ \A j \in Kid : j # k => status'[j] = status[j] /\ gone'[j] = gone[j]
          /\ gone'[k] = now
          /\ status'[k] = "withdrawn"
          /\ UNCHANGED <<now, keys, expiry, lock>>
          /\ \A j \in Published : j # k => j \in Published'
      BY <1>7 DEF Withdraw, Published, IInv, TypeOK
    <2>2. \A c \in Caller :
              /\ call'[c] \in Calls
              /\ call'[c].pc = call[c].pc /\ call'[c].kid = call[c].kid
              /\ call'[c].since = call[c].since /\ call'[c].payload = call[c].payload
              /\ call'[c].steady => call[c].steady /\ call[c].kid # k
      BY <1>0, <1>7 DEF Withdraw, Calls
    <2>3. TypeOK'
      <3>1. call' \in [Caller -> Calls]
        BY <1>7, <2>2 DEF Withdraw
      <3> QED
        BY <1>0, <1>7, <3>1 DEF Withdraw, IInv, TypeOK
    <2>4. DownloadInv'
      BY <1>0, <2>1, <2>2 DEF IInv, DownloadInv, At
    <2>5. CacheInv'
      BY <1>0, <2>1 DEF IInv, TypeOK, CacheInv
    <2>6. SteadyInv' /\ PublishedKeyIsFound'
      BY <2>1, <2>2 DEF IInv, SteadyInv, PublishedKeyIsFound, At
    <2> QED
      BY <2>3, <2>4, <2>5, <2>6 DEF IInv
  <1>8. CASE Tick
    <2>1. /\ now' = now + 1
          /\ \A c \in Caller : At(c, "replied") => now + 1 <= call[c].since + Latency
          /\ UNCHANGED <<keys, expiry, lock, call, status, gone>>
      BY <1>8 DEF Tick
    <2>2. TypeOK' /\ CacheInv'
      BY <1>0, <2>1 DEF IInv, TypeOK, CacheInv
    <2>3. DownloadInv'
      BY <1>0, <2>1 DEF IInv, DownloadInv, At
    <2>4. SteadyInv' /\ PublishedKeyIsFound'
      BY <2>1 DEF IInv, SteadyInv, PublishedKeyIsFound, At, Published
    <2> QED
      BY <2>2, <2>3, <2>4 DEF IInv
  <1>9. CASE UNCHANGED vars
    BY <1>9 DEF vars, IInv, TypeOK, DownloadInv, CacheInv, SteadyInv,
       PublishedKeyIsFound, At, Published
  <1> QED
    BY <1>1, <1>2, <1>3, <1>4, <1>5, <1>6, <1>7, <1>8, <1>9 DEF Next, Hold

LEMMA Invariance == Spec => []IInv
  BY InitInv, NextInv, PTL DEF Spec

\* Every reachable state of the key cache is well formed.
THEOREM JwksTypeCorrect == Spec => []TypeOK
  <1>1. IInv => TypeOK
    BY DEF IInv
  <1> QED
    BY <1>1, Invariance, PTL

\* A withdrawn key is trusted for TTL + Latency at most, whatever downloads
\* other threads cause in between.
THEOREM TrustInWithdrawnKeysEnds == Spec => []TrustEnds
  <1>1. IInv => TrustEnds
    BY JwksAssumption DEF IInv, TypeOK, CacheInv, TrustEnds
  <1> QED
    BY <1>1, Invariance, PTL

\* A key that was published all the time is never reported missing.
THEOREM RotationIsNoticed == Spec => []PublishedKeyIsFound
  <1>1. IInv => PublishedKeyIsFound
    BY DEF IInv
  <1> QED
    BY <1>1, Invariance, PTL

-----------------------------------------------------------------------------
(* The lock, and the contract.                                             *)

\* A call counts its downloads from 1, and nobody has heard of a key that the
\* provider has not published yet.
CountInv ==
    /\ \A c \in Caller : At(c, "waiting") => call[c].try = 1
    /\ \A k \in keys : status[k] # "future"
    /\ \A c \in Caller : At(c, "replied") => \A k \in call[c].payload : status[k] # "future"

WInv == IInv /\ LockHasWorker /\ CountInv

LEMMA InitWorker == Init => LockHasWorker /\ CountInv
  <1>1. Init => \A c \in Caller : call[c].pc = "found"
    BY DEF Init, Return
  <1> QED
    BY <1>1, JwksAssumption DEF Init, LockHasWorker, CountInv, At

\* What thread c has in its hands after a step of its own, field by field.
LEMMA AfterStep ==
    ASSUME TypeOK, NEW c \in Caller
    PROVE  /\ \A k \in Kid : KeyFor(c, k) =>
                 call'[c].pc = "waiting" /\ call'[c].try = 1 /\ call'[c].kid = k
                 /\ call'[c].steady = (k \in Published)
           /\ Lookup(c) =>
                 IF now >= expiry \/ call[c].kid \notin keys
                 THEN /\ call'[c].pc = "fetching" /\ call'[c].try = call[c].try
                      /\ call'[c].kid = call[c].kid /\ call'[c].steady = call[c].steady
                 ELSE call'[c].pc = "found" /\ call'[c].kid = None
           /\ Download(c) =>
                 /\ call'[c].pc = "replied" /\ call'[c].try = call[c].try
                 /\ call'[c].kid = call[c].kid /\ call'[c].steady = call[c].steady
                 /\ call'[c].payload = Published
           /\ Refresh(c) =>
                 \/ /\ call[c].try = 1 /\ UNCHANGED lock
                    /\ call'[c].pc = "fetching" /\ call'[c].try = 2
                    /\ call'[c].kid = call[c].kid /\ call'[c].steady = call[c].steady
                 \/ /\ call[c].kid \in call[c].payload /\ lock' = None
                    /\ call'[c].pc = "found" /\ call'[c].kid = None
                 \/ /\ call[c].kid \notin call[c].payload /\ call[c].try = 2 /\ lock' = None
                    /\ call'[c].pc = "missing" /\ call'[c].kid = None
           /\ RefreshFails(c) => call'[c].pc = "failed" /\ call'[c].kid = None
  <1>1. call \in [Caller -> Calls] /\ call[c] \in Calls
    BY DEF TypeOK
  <1>2. /\ Return("found", FALSE).pc = "found" /\ Return("found", FALSE).kid = None
        /\ Return("failed", FALSE).pc = "failed" /\ Return("failed", FALSE).kid = None
        /\ Return("missing", call[c].steady).pc = "missing"
        /\ Return("missing", call[c].steady).kid = None
    BY DEF Return
  <1>3. \A q : Becomes(c, q) => call'[c] = q
    BY <1>1 DEF Becomes
  <1>4. call[c].try \in {1, 2}
    BY <1>1 DEF Calls
  <1>5. \A k \in Kid : KeyFor(c, k) =>
            call'[c].pc = "waiting" /\ call'[c].try = 1 /\ call'[c].kid = k
            /\ call'[c].steady = (k \in Published)
    BY <1>3 DEF KeyFor
  <1>6. LET f == [call[c] EXCEPT !.pc = "fetching"]
        IN  f.pc = "fetching" /\ f.try = call[c].try /\ f.kid = call[c].kid
            /\ f.steady = call[c].steady
    BY <1>1 DEF Calls
  <1>7. LET f == [call[c] EXCEPT !.pc = "replied", !.payload = Published, !.since = now]
        IN  f.pc = "replied" /\ f.try = call[c].try /\ f.kid = call[c].kid
            /\ f.steady = call[c].steady /\ f.payload = Published
    BY <1>1 DEF Calls
  <1>8. LET f == [call[c] EXCEPT !.pc = "fetching", !.try = 2, !.payload = {}, !.since = 0]
        IN  f.pc = "fetching" /\ f.try = 2 /\ f.kid = call[c].kid
            /\ f.steady = call[c].steady
    BY <1>1 DEF Calls
  <1>9. Lookup(c) => IF now >= expiry \/ call[c].kid \notin keys
                     THEN /\ call'[c].pc = "fetching" /\ call'[c].try = call[c].try
                          /\ call'[c].kid = call[c].kid /\ call'[c].steady = call[c].steady
                     ELSE call'[c].pc = "found" /\ call'[c].kid = None
    <2>1. Lookup(c) => Becomes(c, IF now >= expiry \/ call[c].kid \notin keys
                                 THEN [call[c] EXCEPT !.pc = "fetching"]
                                 ELSE Return("found", FALSE))
      BY DEF Lookup
    <2> QED
      BY <1>2, <1>3, <1>6, <2>1
  <1>10. Download(c) =>
                 /\ call'[c].pc = "replied" /\ call'[c].try = call[c].try
                 /\ call'[c].kid = call[c].kid /\ call'[c].steady = call[c].steady
                 /\ call'[c].payload = Published
    BY <1>3, <1>7 DEF Download
  <1>11. Refresh(c) =>
                 \/ /\ call[c].try = 1 /\ UNCHANGED lock
                    /\ call'[c].pc = "fetching" /\ call'[c].try = 2
                    /\ call'[c].kid = call[c].kid /\ call'[c].steady = call[c].steady
                 \/ /\ call[c].kid \in call[c].payload /\ lock' = None
                    /\ call'[c].pc = "found" /\ call'[c].kid = None
                 \/ /\ call[c].kid \notin call[c].payload /\ call[c].try = 2 /\ lock' = None
                    /\ call'[c].pc = "missing" /\ call'[c].kid = None
    <2>1. ASSUME Refresh(c), call[c].kid \notin call[c].payload, call[c].try = 1
          PROVE  /\ Becomes(c, [call[c] EXCEPT !.pc = "fetching", !.try = 2,
                                               !.payload = {}, !.since = 0])
                 /\ UNCHANGED lock
      BY <2>1 DEF Refresh
    <2>2. ASSUME Refresh(c), call[c].kid \in call[c].payload
          PROVE  Becomes(c, Return("found", FALSE)) /\ lock' = None
      BY <2>2 DEF Refresh
    <2>3. ASSUME Refresh(c), call[c].kid \notin call[c].payload, call[c].try = 2
          PROVE  Becomes(c, Return("missing", call[c].steady)) /\ lock' = None
      BY <2>3 DEF Refresh
    <2> QED
      BY <1>2, <1>3, <1>4, <1>8, <2>1, <2>2, <2>3
  <1>12. RefreshFails(c) => call'[c].pc = "failed" /\ call'[c].kid = None
    <2>1. RefreshFails(c) => Becomes(c, Return("failed", FALSE))
      BY DEF RefreshFails
    <2> QED
      BY <1>2, <1>3, <2>1
  <1> QED
    BY <1>5, <1>9, <1>10, <1>11, <1>12

\* A step of one thread leaves the others' records as they are.
LEMMA OthersStay ==
    ASSUME TypeOK, NEW c \in Caller, NEW d \in Caller, d # c,
           (\E k \in Kid : KeyFor(c, k)) \/ Lookup(c) \/ Hold(c)
    PROVE  call'[d] = call[d]
  BY DEF TypeOK, KeyFor, Lookup, Hold, Download, Refresh, RefreshFails, Becomes

LEMMA NextWorker == WInv /\ [Next]_vars => LockHasWorker' /\ CountInv'
  <1> SUFFICES ASSUME WInv, [Next]_vars PROVE LockHasWorker' /\ CountInv'
    OBVIOUS
  <1>0. /\ TypeOK /\ LockHasWorker /\ CountInv /\ None \notin Caller
        /\ "waiting" \notin Outside /\ "fetching" \notin Outside /\ "replied" \notin Outside
    BY JwksAssumption DEF WInv, IInv, Outside
  <1>1. ASSUME NEW c \in Caller, NEW k \in Kid, KeyFor(c, k)
        PROVE  LockHasWorker' /\ CountInv'
    <2>1. /\ call[c].pc \in Outside /\ UNCHANGED <<now, keys, expiry, lock, status, gone>>
          /\ \A d \in Caller : d # c => call'[d] = call[d]
      BY <1>0, <1>1, OthersStay DEF KeyFor
    <2>2. call'[c].pc = "waiting" /\ call'[c].try = 1
      BY <1>0, <1>1, AfterStep
    <2> QED
      BY <1>0, <2>1, <2>2 DEF LockHasWorker, CountInv, At
  <1>2. ASSUME NEW c \in Caller, Lookup(c) PROVE LockHasWorker' /\ CountInv'
    <2>1. /\ At(c, "waiting") /\ lock = None /\ UNCHANGED <<now, keys, expiry, status, gone>>
          /\ \A d \in Caller : d # c => call'[d] = call[d]
          /\ \/ call'[c].pc = "fetching" /\ lock' = c
             \/ call'[c].pc = "found" /\ UNCHANGED lock
      BY <1>0, <1>2, AfterStep, OthersStay DEF Lookup
    <2> QED
      BY <1>0, <2>1 DEF LockHasWorker, CountInv, At
  <1>3. ASSUME NEW c \in Caller, Download(c) PROVE LockHasWorker' /\ CountInv'
    <2>1. /\ At(c, "fetching") /\ UNCHANGED <<now, keys, expiry, lock, status, gone>>
          /\ \A d \in Caller : d # c => call'[d] = call[d]
          /\ call'[c].pc = "replied" /\ call'[c].payload = Published
      BY <1>0, <1>3, AfterStep, OthersStay DEF Download, Hold
    <2>2. \A k \in Published : status[k] # "future"
      BY DEF Published
    <2> QED
      BY <1>0, <2>1, <2>2 DEF LockHasWorker, CountInv, At
  <1>4. ASSUME NEW c \in Caller, Refresh(c) PROVE LockHasWorker' /\ CountInv'
    <2>1. /\ At(c, "replied") /\ keys' = call[c].payload /\ UNCHANGED <<now, status, gone>>
          /\ \A d \in Caller : d # c => call'[d] = call[d]
          /\ \/ call'[c].pc = "fetching" /\ UNCHANGED lock
             \/ call'[c].pc \in {"found", "missing"} /\ lock' = None
      BY <1>0, <1>4, AfterStep, OthersStay DEF Refresh, Kept, Hold
    <2> QED
      BY <1>0, <2>1 DEF LockHasWorker, CountInv, At
  <1>5. ASSUME NEW c \in Caller, RefreshFails(c) PROVE LockHasWorker' /\ CountInv'
    <2>1. /\ At(c, "fetching") \/ At(c, "replied")
          /\ lock' = None /\ UNCHANGED <<now, keys, expiry, status, gone>>
          /\ \A d \in Caller : d # c => call'[d] = call[d]
          /\ call'[c].pc = "failed"
      BY <1>0, <1>5, AfterStep, OthersStay DEF RefreshFails, Hold
    <2> QED
      BY <1>0, <2>1 DEF LockHasWorker, CountInv, At
  <1>6. ASSUME NEW k \in Kid, Publish(k) \/ Withdraw(k) PROVE LockHasWorker' /\ CountInv'
    <2>1. /\ \A j \in Kid : status[j] # "future" => status'[j] # "future"
          /\ UNCHANGED <<keys, lock>>
          /\ keys \subseteq Kid /\ \A c \in Caller : call[c].payload \subseteq Kid
      BY <1>0, <1>6 DEF Publish, Withdraw, TypeOK, Calls
    <2>2. \A c \in Caller : call'[c].pc = call[c].pc /\ call'[c].try = call[c].try
                             /\ call'[c].payload = call[c].payload
      BY <1>0, <1>6 DEF Publish, Withdraw, TypeOK, Calls
    <2> QED
      BY <1>0, <2>1, <2>2 DEF LockHasWorker, CountInv, At
  <1>7. CASE Tick \/ UNCHANGED vars
    BY <1>0, <1>7 DEF Tick, vars, LockHasWorker, CountInv, At
  <1> QED
    BY <1>1, <1>2, <1>3, <1>4, <1>5, <1>6, <1>7 DEF Next, Hold

LEMMA WorkerInvariance == Spec => []WInv
  <1>1. Init => WInv
    BY InitInv, InitWorker DEF WInv
  <1>2. WInv /\ [Next]_vars => WInv'
    BY NextInv, NextWorker DEF WInv
  <1> QED
    BY <1>1, <1>2, PTL DEF Spec

\* The lock is held by a thread that is downloading and by no other: a download
\* that fails leaves nobody waiting for a lock without a holder.
THEOREM LockIsNeverOrphaned == Spec => []LockHasWorker
  <1>1. WInv => LockHasWorker
    BY DEF WInv
  <1> QED
    BY <1>1, WorkerInvariance, PTL

\* Nobody sees more of a call than whether it goes on, and what is left to it.
LEMMA SeenFields ==
    ASSUME NEW q
    PROVE  /\ Seen(q).stage = IF q.pc \in Outside THEN q.pc ELSE "asking"
           /\ Seen(q).kid = q.kid
           /\ Seen(q).left = Left(q)
           /\ q.pc \in Outside =>
                  Seen(q) = [stage |-> q.pc, kid |-> q.kid, steady |-> FALSE, left |-> 0]
  <1>1. q.pc \in Outside => Left(q) = 0
    BY DEF Left, Outside
  <1>2. q.pc \in Outside => (q.pc \notin Outside /\ q.steady) = FALSE
    OBVIOUS
  <1>3. q.pc \in Outside =>
            Seen(q) = [stage |-> q.pc, kid |-> q.kid, steady |-> FALSE, left |-> 0]
    BY <1>1, <1>2 DEF Seen
  <1> QED
    BY <1>3 DEF Seen

\* The downloads left to a call that is going on.
LEMMA LeftFields ==
    ASSUME NEW q \in Calls
    PROVE  /\ q.pc = "waiting" => Left(q) = 2
           /\ q.pc = "fetching" => Left(q) = 3 - q.try
           /\ q.pc = "replied" => Left(q) = 2 - q.try
           /\ q.pc \in {"waiting", "fetching", "replied"} =>
                  Seen(q) = [stage |-> "asking", kid |-> q.kid, steady |-> q.steady,
                             left |-> Left(q)]
  <1>1. "waiting" \notin Outside /\ "fetching" \notin Outside /\ "replied" \notin Outside
    BY DEF Outside
  <1>2. q.steady \in BOOLEAN
    BY DEF Calls
  <1> QED
    BY <1>1, <1>2 DEF Left, Seen

Asks == [c \in Caller |-> Seen(call[c])]

\* A step of thread c changes its own entry of the mapped state only.
LEMMA AsksStep ==
    ASSUME WInv, NEW c \in Caller,
           (\E k \in Kid : KeyFor(c, k)) \/ Lookup(c) \/ Hold(c)
    PROVE  Asks' = [Asks EXCEPT ![c] = Seen(call'[c])]
  <1>1. \A d \in Caller : d # c => call'[d] = call[d]
    BY OthersStay DEF WInv, IInv
  <1> QED
    BY <1>1 DEF Asks

LEMMA InitKeySource == Init => KeySource!KInit
  <1> SUFFICES ASSUME Init PROVE KeySource!KInit
    OBVIOUS
  <1>1. \A c \in Caller : call[c].pc = "found" /\ call[c].kid = None
    BY DEF Init, Return
  <1>2. "found" \in Outside
    BY DEF Outside
  <1>3. \A c \in Caller : Seen(call[c]) = KeySource!Answered("found")
    BY <1>1, <1>2, SeenFields DEF KeySource!Answered
  <1> QED
    BY <1>3 DEF Init, KeySource!KInit

LEMMA NextKeySource == WInv /\ WInv' /\ [Next]_vars => [KeySource!KNext]_(KeySource!kvars)
  <1> SUFFICES ASSUME WInv, WInv', [Next]_vars
               PROVE  KeySource!KNext \/ UNCHANGED KeySource!kvars
    OBVIOUS
  <1>0. /\ TypeOK /\ IInv /\ CountInv /\ "asking" \notin Outside
        /\ \A c \in Caller : call[c] \in Calls /\ call'[c] \in Calls
        /\ \A c \in Caller : Asks[c] = Seen(call[c])
    BY DEF WInv, IInv, TypeOK, Outside, Asks
  <1>1. ASSUME NEW c \in Caller, NEW k \in Kid, KeyFor(c, k) PROVE KeySource!Ask(c, k)
    <2>1. /\ call'[c].pc = "waiting" /\ call'[c].kid = k
          /\ call'[c].steady = (status[k] = "published")
      BY <1>0, <1>1, AfterStep DEF Published
    <2>2. Seen(call'[c]) = [stage |-> "asking", kid |-> k, left |-> 2,
                            steady |-> status[k] = "published"]
      BY <1>0, <2>1, LeftFields
    <2>3. Asks[c].stage # "asking" /\ UNCHANGED <<now, status, gone>>
      BY <1>0, <1>1, SeenFields DEF KeyFor
    <2>4. Asks' = [Asks EXCEPT ![c] = Seen(call'[c])]
      BY <1>1, AsksStep
    <2> QED
      BY <2>2, <2>3, <2>4 DEF KeySource!Ask, KeySource!Asking, Asks
  <1>2. ASSUME NEW c \in Caller, Lookup(c)
        PROVE  KeySource!Give(c) \/ UNCHANGED KeySource!kvars
    <2>0. /\ call[c].pc = "waiting" /\ call[c].try = 1 /\ UNCHANGED <<now, status, gone>>
          /\ Asks' = [Asks EXCEPT ![c] = Seen(call'[c])]
          /\ call[c].kid \in Kid
      BY <1>0, <1>2, AsksStep DEF Lookup, At, CountInv, IInv, SteadyInv, Outside
    <2>1. Asks[c] = [stage |-> "asking", kid |-> call[c].kid, steady |-> call[c].steady,
                     left |-> 2]
      BY <1>0, <2>0, LeftFields
    <2>2. CASE now >= expiry \/ call[c].kid \notin keys
      <3>1. Seen(call'[c]) = Asks[c]
        <4>1. /\ call'[c].pc = "fetching" /\ call'[c].try = 1
              /\ call'[c].kid = call[c].kid /\ call'[c].steady = call[c].steady
          BY <1>0, <1>2, <2>0, <2>2, AfterStep
        <4> QED
          BY <1>0, <2>1, <4>1, LeftFields
      <3>2. Asks' = Asks
        BY <2>0, <3>1 DEF Asks
      <3> QED
        BY <2>0, <3>2 DEF KeySource!kvars, Asks
    <2>3. CASE ~(now >= expiry \/ call[c].kid \notin keys)
      <3>1. Seen(call'[c]) = KeySource!Answered("found")
        <4>1. call'[c].pc = "found" /\ call'[c].kid = None
          BY <1>0, <1>2, <2>3, AfterStep
        <4> QED
          BY <4>1, SeenFields DEF KeySource!Answered, Outside
      <3>2. /\ status[call[c].kid] # "future"
            /\ status[call[c].kid] = "withdrawn" => now <= gone[call[c].kid] + TTL + Latency
        <4>1. /\ call[c].kid \in keys /\ now < expiry
              /\ now \in Nat /\ expiry \in Nat /\ TTL \in Nat /\ Latency \in Nat
              /\ gone[call[c].kid] \in Nat
          BY <1>0, <2>0, <2>3, JwksAssumption DEF TypeOK
        <4> QED
          BY <1>0, <4>1 DEF IInv, CacheInv, CountInv
      <3> QED
        BY <2>0, <2>1, <3>1, <3>2 DEF KeySource!Give, KeySource!Asking, Asks
    <2> QED
      BY <2>2, <2>3
  <1>3. ASSUME NEW c \in Caller, Download(c) PROVE KeySource!AskProvider(c)
    <2>1. /\ call[c].pc = "fetching" /\ UNCHANGED <<now, status, gone>>
          /\ Asks' = [Asks EXCEPT ![c] = Seen(call'[c])]
          /\ call[c].try \in {1, 2}
      BY <1>0, <1>3, AsksStep DEF Download, At, Hold, Calls
    <2>2. /\ call'[c].pc = "replied" /\ call'[c].try = call[c].try
          /\ call'[c].kid = call[c].kid /\ call'[c].steady = call[c].steady
      BY <1>0, <1>3, AfterStep
    <2>3. Asks[c] = [stage |-> "asking", kid |-> call[c].kid, steady |-> call[c].steady,
                     left |-> 3 - call[c].try]
      BY <1>0, <2>1, LeftFields
    <2>4. Seen(call'[c]) = [stage |-> "asking", kid |-> call[c].kid,
                            steady |-> call[c].steady, left |-> 2 - call[c].try]
      BY <1>0, <2>2, LeftFields
    <2>5. 3 - call[c].try > 0 /\ (3 - call[c].try) - 1 = 2 - call[c].try
      BY <2>1
    <2>6. Asks' = [Asks EXCEPT ![c].left = @ - 1]
      <3>1. Seen(call'[c]) = [Asks[c] EXCEPT !.left = Asks[c].left - 1]
        BY <2>3, <2>4, <2>5
      <3> QED
        BY <2>1, <3>1
    <2> QED
      BY <2>1, <2>3, <2>5, <2>6 DEF KeySource!AskProvider, KeySource!Asking, Asks
  <1>4. ASSUME NEW c \in Caller, Refresh(c)
        PROVE  KeySource!Give(c) \/ KeySource!Deny(c) \/ UNCHANGED KeySource!kvars
    <2>0. /\ call[c].pc = "replied" /\ UNCHANGED <<now, status, gone>>
          /\ Asks' = [Asks EXCEPT ![c] = Seen(call'[c])]
          /\ call[c].kid \in Kid
      BY <1>0, <1>4, AsksStep DEF Refresh, At, Hold, IInv, SteadyInv, Outside
    <2>1. Asks[c] = [stage |-> "asking", kid |-> call[c].kid, steady |-> call[c].steady,
                     left |-> 2 - call[c].try]
      BY <1>0, <2>0, LeftFields
    <2>2. CASE /\ call[c].try = 1
               /\ call'[c].pc = "fetching" /\ call'[c].try = 2
               /\ call'[c].kid = call[c].kid /\ call'[c].steady = call[c].steady
      <3>1. Seen(call'[c]) = Asks[c]
        BY <1>0, <2>1, <2>2, LeftFields
      <3>2. Asks' = Asks
        BY <2>0, <3>1 DEF Asks
      <3> QED
        BY <2>0, <3>2 DEF KeySource!kvars, Asks
    <2>3. CASE /\ call[c].kid \in call[c].payload
               /\ call'[c].pc = "found" /\ call'[c].kid = None
      <3>1. Seen(call'[c]) = KeySource!Answered("found")
        BY <2>3, SeenFields DEF KeySource!Answered, Outside
      <3>2. /\ status[call[c].kid] # "future"
            /\ status[call[c].kid] = "withdrawn" => now <= gone[call[c].kid] + TTL + Latency
        <4>1. /\ now \in Nat /\ TTL \in Nat /\ Latency \in Nat /\ call[c].since \in Nat
              /\ gone[call[c].kid] \in Nat
          BY <1>0, <2>0, JwksAssumption DEF TypeOK, Calls
        <4>2. /\ now <= call[c].since + Latency
              /\ status[call[c].kid] = "withdrawn" => call[c].since <= gone[call[c].kid]
          BY <1>0, <2>0, <2>3 DEF IInv, DownloadInv, At
        <4> QED
          BY <1>0, <2>0, <2>3, <4>1, <4>2 DEF CountInv, At
      <3> QED
        BY <2>0, <2>1, <3>1, <3>2 DEF KeySource!Give, KeySource!Asking, Asks
    <2>4. CASE /\ call[c].kid \notin call[c].payload /\ call[c].try = 2
               /\ call'[c].pc = "missing" /\ call'[c].kid = None
      <3>1. Seen(call'[c]) = KeySource!Answered("missing")
        BY <2>4, SeenFields DEF KeySource!Answered, Outside
      <3>2. ~call[c].steady
        BY <1>0, <2>0, <2>4 DEF IInv, SteadyInv, At
      <3> QED
        BY <2>0, <2>1, <2>4, <3>1, <3>2 DEF KeySource!Deny, KeySource!Asking, Asks
    <2> QED
      BY <1>0, <1>4, <2>2, <2>3, <2>4, AfterStep
  <1>5. ASSUME NEW c \in Caller, RefreshFails(c) PROVE KeySource!Fail(c)
    <2>1. /\ call[c].pc \notin Outside /\ UNCHANGED <<now, status, gone>>
          /\ Asks' = [Asks EXCEPT ![c] = Seen(call'[c])]
      BY <1>5, AsksStep DEF RefreshFails, At, Hold, Outside
    <2>2. Seen(call'[c]) = KeySource!Answered("failed")
      BY <1>0, <1>5, AfterStep, SeenFields DEF KeySource!Answered, Outside
    <2> QED
      BY <1>0, <2>1, <2>2, SeenFields DEF KeySource!Fail, KeySource!Asking, Asks
  <1>6. ASSUME NEW k \in Kid, Publish(k) PROVE KeySource!Publish(k)
    BY <1>6 DEF Publish, KeySource!Publish
  <1>7. ASSUME NEW k \in Kid, Withdraw(k) PROVE KeySource!Withdraw(k)
    <2>1. ASSUME NEW c \in Caller
          PROVE  Seen(call'[c]) = IF Asks[c].kid = k THEN [Asks[c] EXCEPT !.steady = FALSE]
                                  ELSE Asks[c]
      <3>1. call'[c] = IF call[c].kid = k THEN [call[c] EXCEPT !.steady = FALSE] ELSE call[c]
        BY <1>7 DEF Withdraw
      <3>2. Asks[c].kid = call[c].kid
        BY <1>0, SeenFields
      <3>3. ASSUME call[c].kid = k PROVE Seen(call'[c]) = [Asks[c] EXCEPT !.steady = FALSE]
        <4>1. /\ call'[c].pc = call[c].pc /\ call'[c].try = call[c].try
              /\ call'[c].kid = call[c].kid /\ call'[c].steady = FALSE
          BY <1>0, <3>1, <3>3 DEF Calls
        <4>2. Left(call'[c]) = Left(call[c])
          BY <4>1 DEF Left
        <4>3. (call'[c].pc \notin Outside /\ call'[c].steady) = FALSE
          BY <4>1
        <4>4. Seen(call'[c]) = [stage |-> Seen(call[c]).stage, kid |-> Seen(call[c]).kid,
                                steady |-> FALSE, left |-> Seen(call[c]).left]
          BY <4>1, <4>2, <4>3 DEF Seen
        <4>5. [Seen(call[c]) EXCEPT !.steady = FALSE]
                  = [stage |-> Seen(call[c]).stage, kid |-> Seen(call[c]).kid,
                     steady |-> FALSE, left |-> Seen(call[c]).left]
          <5>1. PICK b : b = FALSE
            OBVIOUS
          <5>2. PICK r : r = Seen(call[c])
            OBVIOUS
          <5>3. [r EXCEPT !.steady = b] = [stage |-> r.stage, kid |-> r.kid, steady |-> b,
                                           left |-> r.left]
            BY <5>2 DEF Seen
          <5> QED
            BY <5>1, <5>2, <5>3
        <4> QED
          BY <1>0, <4>4, <4>5
      <3> QED
        BY <1>0, <3>1, <3>2, <3>3
    <2>2. Asks' = [c \in Caller |-> IF Asks[c].kid = k THEN [Asks[c] EXCEPT !.steady = FALSE]
                                     ELSE Asks[c]]
      BY <2>1 DEF Asks
    <2> QED
      BY <1>7, <2>2 DEF Withdraw, KeySource!Withdraw, Asks
  <1>8. ASSUME Tick PROVE KeySource!Tick
    BY <1>8 DEF Tick, KeySource!Tick
  <1>9. CASE UNCHANGED vars
    BY <1>9 DEF vars, KeySource!kvars
  <1> QED
    BY <1>1, <1>2, <1>3, <1>4, <1>5, <1>6, <1>7, <1>8, <1>9 DEF Next, Hold, KeySource!KNext

\* The cache, its lock and its downloads implement KeySource: the key a thread
\* gets is published or was a short while ago, a token is refused only when its
\* key was not there all along, and a call costs two downloads at most.
THEOREM CacheKeepsKeyContract == Spec => KeepsKeyContract
  <1>1. Init => KeySource!KInit
    BY InitKeySource
  <1>2. WInv /\ WInv' /\ [Next]_vars => [KeySource!KNext]_(KeySource!kvars)
    BY NextKeySource
  <1> QED
    BY <1>1, <1>2, WorkerInvariance, PTL DEF Spec, KeepsKeyContract, KeySource!KSpec

-----------------------------------------------------------------------------
(* How far a thread is from leaving key_for: the lock, a download, and if    *)
(* the key was not in it another one.                                        *)

Rank(q) ==
    CASE q.pc \in Outside -> 0
      [] q.pc = "replied"  -> IF q.try = 2 THEN 1 ELSE 3
      [] q.pc = "fetching" -> IF q.try = 2 THEN 2 ELSE 4
      [] q.pc = "waiting"  -> 5

\* What moves a thread inside key_for brings it nearer to its end.
Nearer ==
    \A c \in Caller : call[c].pc \notin Outside =>
        \/ call'[c].pc = call[c].pc /\ call'[c].try = call[c].try
        \/ Rank(call'[c]) < Rank(call[c])

\* A thread becomes q and no other thread changes.
LEMMA NearerStep ==
    ASSUME TypeOK, NEW c \in Caller, NEW q \in Calls, Becomes(c, q),
           call[c].pc \in Outside \/ Rank(q) < Rank(call[c])
    PROVE  Nearer
  BY BecomesCall DEF Nearer

LEMMA NearerNext == ASSUME TypeOK, Next PROVE Nearer
  <1>0. \A c \in Caller : call[c] \in Calls
    BY DEF TypeOK
  <1>1. ASSUME NEW c \in Caller, NEW o \in Outside, NEW b \in BOOLEAN,
               Becomes(c, Return(o, b)), call[c].pc \notin Outside
        PROVE  Nearer
    <2>1. Return(o, b) \in Calls /\ Return(o, b).pc \in Outside
      BY <1>1, ReturnType
    <2> DEFINE n == Return(o, b)
    <2> HIDE DEF n
    <2>2. Rank(n) = 0
      BY <2>1 DEF Rank, Outside, n
    <2>3. Rank(call[c]) > 0
      BY <1>0, <1>1 DEF Rank, Calls, PCs, Outside
    <2> QED
      BY <1>1, <2>1, <2>2, <2>3, NearerStep DEF n
  <1>2. ASSUME NEW c \in Caller, NEW k \in Kid, KeyFor(c, k) PROVE Nearer
    <2> DEFINE n == [pc |-> "waiting", kid |-> k, try |-> 1, payload |-> {},
                     since |-> 0, steady |-> k \in Published]
    <2>1. n \in Calls /\ Becomes(c, n) /\ call[c].pc \in Outside
      BY <1>2 DEF KeyFor, Calls, PCs
    <2> HIDE DEF n
    <2> QED
      BY <2>1, NearerStep
  <1>3. ASSUME NEW c \in Caller, Lookup(c) PROVE Nearer
    <2> DEFINE n == [call[c] EXCEPT !.pc = "fetching"]
    <2>1. n \in Calls /\ n.pc = "fetching"
      BY <1>0 DEF Calls, PCs
    <2>2. call[c].pc = "waiting" /\ (Becomes(c, n) \/ Becomes(c, Return("found", FALSE)))
      BY <1>3 DEF Lookup, At
    <2> HIDE DEF n
    <2>3. CASE Becomes(c, n)
      <3>1. Rank(n) < Rank(call[c])
        BY <2>1, <2>2 DEF Rank, Outside
      <3> QED
        BY <2>1, <2>3, <3>1, NearerStep
    <2> QED
      BY <1>1, <2>2, <2>3 DEF Outside
  <1>4. ASSUME NEW c \in Caller, Download(c) PROVE Nearer
    <2> DEFINE n == [call[c] EXCEPT !.pc = "replied", !.payload = Published, !.since = now]
    <2>1. n \in Calls /\ n.pc = "replied" /\ n.try = call[c].try
      BY <1>0 DEF Calls, PCs, TypeOK, Published
    <2>2. call[c].pc = "fetching" /\ Becomes(c, n)
      BY <1>4 DEF Download, At
    <2> HIDE DEF n
    <2>3. Rank(n) < Rank(call[c])
      BY <1>0, <2>1, <2>2 DEF Rank, Calls, Outside
    <2> QED
      BY <2>1, <2>2, <2>3, NearerStep
  <1>5. ASSUME NEW c \in Caller, Refresh(c) PROVE Nearer
    <2> DEFINE n == [call[c] EXCEPT !.pc = "fetching", !.try = 2, !.payload = {}, !.since = 0]
    <2>1. n \in Calls /\ n.pc = "fetching" /\ n.try = 2
      BY <1>0 DEF Calls, PCs
    <2>2. /\ call[c].pc = "replied"
          /\ \/ call[c].try = 1 /\ Becomes(c, n)
             \/ Becomes(c, Return("found", FALSE))
             \/ Becomes(c, Return("missing", call[c].steady))
      BY <1>5 DEF Refresh, At
    <2> HIDE DEF n
    <2>3. CASE call[c].try = 1 /\ Becomes(c, n)
      <3>1. Rank(n) < Rank(call[c])
        BY <2>1, <2>2, <2>3 DEF Rank, Outside
      <3> QED
        BY <2>1, <2>3, <3>1, NearerStep
    <2>4. call[c].steady \in BOOLEAN
      BY <1>0 DEF Calls
    <2> QED
      BY <1>1, <2>2, <2>3, <2>4 DEF Outside
  <1>6. ASSUME NEW c \in Caller, RefreshFails(c) PROVE Nearer
    <2>1. call[c].pc \in {"fetching", "replied"} /\ Becomes(c, Return("failed", FALSE))
      BY <1>6 DEF RefreshFails, At
    <2> QED
      BY <1>1, <2>1 DEF Outside
  <1>7. ASSUME NEW k \in Kid, Withdraw(k) PROVE Nearer
    <2>1. \A c \in Caller : call'[c].pc = call[c].pc /\ call'[c].try = call[c].try
      BY <1>0, <1>7 DEF Withdraw, Calls
    <2> QED
      BY <2>1 DEF Nearer
  <1>8. ASSUME UNCHANGED call PROVE Nearer
    BY <1>8 DEF Nearer
  <1> QED
    BY <1>2, <1>3, <1>4, <1>5, <1>6, <1>7, <1>8 DEF Next, Hold, Publish, Tick

\* No verification keeps the lock in circles, whatever the token names and
\* however the keys change: each step of a thread inside key_for brings it nearer
\* to its end, so five of them end it.
THEOREM ThreadsOnlyAdvance == Spec => [][Nearer]_vars
  <1>1. TypeOK /\ [Next]_vars => [Nearer]_vars
    BY NearerNext
  <1> QED
    BY <1>1, JwksTypeCorrect, PTL DEF Spec
=============================================================================
