# LingxiIdentity in TLA+

This directory holds TLA+ models of LingxiIdentity, the TLC configurations that
check them on small instances, and proofs of their main properties for all values
of the constants. Paths are relative to the repository. `PROJECT.json`
maps each definition to the lines it stands for and lists the runs, mutants,
theorems and hazards.

## 1. The system

LingxiIdentity puts an identity layer around a Logto server ("the provider"):

| Part | Where | State | Operations | Talks to |
| --- | --- | --- | --- | --- |
| Session store and session requests | `server/.../security/sessions.py`, `api/dependencies.py`, session routes of `api/routes.py` | table `bff_sessions`, one row per signed-in browser; row locks | `create`, `get`, `rotate`, `csrf_valid`, `revoke`, `revoke_subject`; refresh near expiry, `POST /auth/refresh`, logout | PostgreSQL, token endpoint |
| OIDC login flow | `api/routes.py`, `auth/oidc_flow.py` | signed state cookie and session cookie of each browser; codes at the provider | `/auth/login`, `/auth/register`, `/auth/forgot-password`, `/auth/callback` | token endpoint, session store |
| Account closure and user administration | `api/routes.py`, `providers/logto/management.py` | account status and provider sessions (both at the provider), the rows of the user | `deactivate_me`, `suspend_user`, `restore_user`, `update_user`, `delete_user` | Management API, session store |
| Role, organization and audit administration, permissions | `api/routes.py`, `api/dependencies.py`, `sdk/.../principal.py` | the claims stored in a session row; what the provider will tell of a user | `require_permission`, `_assert_tenant`, `principal_from_claims`; the role, member and organization routes | Management API |
| Management token cache | `providers/logto/management.py` | `_value`, `_expires_at`, `_lock` | `get`, `invalidate`, `_request` with one retry after 401 | token endpoint, Management API |
| Token verifier and key cache | `sdk/.../oidc.py` | `_keys`, `_expires_at`, `_lock` | `key_for` | JWKS endpoint |
| Bootstrap command | `bootstrap/cli.py`, `manifest.py` | none of its own; the provider's objects, the output file, `.env` | `run`: ensure resources, scopes, roles, organization, user, member, applications; write the file | Management API |
| Experience pages | `experience/src` | the `state` object of `app.ts`, `sessionStorage` | render, navigate, submit, the call chains of `experience-api.ts` | Experience API of the provider |
| Account API proxy | `api/routes.py`, `providers/logto/account.py` | none | one or two forwarded calls | Account API |
| Settings | `server/.../settings.py` | the environment, read at start | `effective_session_cookie_domain`, validation | cookies of the login flow |
| SDK facade, models | `sdk/.../client.py`, `models.py` | none | delegation, mapping of records | |
| Wiring, migrations, deployment, tests | `server/.../main.py`, `alembic/`, `deployment/`, `tests/` | | start, health probes, schema | |

What makes it hard:

* The BFF is one process with one event loop. Every request is a coroutine with
  its own database session under READ COMMITTED, so any two requests of a browser
  may interleave between commits and awaits, and a client that goes away cancels
  nothing. A value `SELECT`ed by `get` is used after other requests have
  changed the row.
- The provider rotates refresh tokens, so the outcome of a refresh is needed
  exactly once, while a crash, a timeout or a lost answer can come between the
  rotation at the provider and the commit here.
- Closing an account and provisioning a tenant are sequences of calls without a
  transaction around them; each call may fail, with or without having had effect.
- Authority is copied: the permissions of a session are those of its ID token, kept
  in the row while roles and accounts change at the provider.
- What one setting, read at start, says about cookies decides whether a login can
  be completed at all, and depends on how the hosts of a deployment relate.
- Two caches are shared, one between coroutines (`asyncio.Lock`), one between threads
  (`threading.Lock`); both hold their lock across network calls that may fail.
- In the browser nothing cancels a call when its form is left: its answer
  changes the state of whatever form is open by then.

What would make each part correct is stated below as properties; every hazard is
listed with its line in `PROJECT.json`, with the properties that would notice it
going wrong or the reason none does.

## 2. Modules

The order is the order they were written in, most important behaviour first.

| Module | What it is | Checked by | Proofs in |
| --- | --- | --- | --- |
| `SessionContract` | abstract session store: what it promises | (as a property of `BffSession`) | `SessionContractProofs` |
| `BffSession` | session rows, requests, token endpoint | `MCBffSession` | `BffSessionProofs` |
| `AccountClosure` | suspend, restore, patch, delete against logins | `MCAccountClosure`, `MCAdministration` | `AdministrationProofs` |
| `Administration` | all routes of `/api/v1`, with sessions and permissions; extends `AccountClosure` | `MCAdministration` | `AdministrationProofs` |
| `TokenSource` | abstract: what calls may rely on when they ask for a token | (as a property of `TokenCache`) | `TokenCacheProofs` |
| `TokenCache` | Management token cache and retry | `MCTokenCache` | `TokenCacheProofs` |
| `KeySource` | abstract: what a verification may rely on when it asks for a key | (as a property of `JwksCache`) | `JwksCacheProofs` |
| `JwksCache` | key cache of a shared verifier | `MCJwksCache` | `JwksCacheProofs` |
| `LoginContract` | abstract: the line each login walks once | (as a property of `LoginFlow`) | `LoginFlowProofs` |
| `LoginFlow` | browsers, cookies, callbacks | `MCLoginSites` | `LoginFlowProofs` |
| `LoginSites` | the same in a deployment: hosts and cookie domain; extends `LoginFlow` | `MCLoginSites` | `LoginFlowProofs` |
| `Bootstrap` | provisioning runs | `MCBootstrap` | `BootstrapProofs` |
| `Experience` | the sign-in pages | `MCExperience` | `ExperienceProofs` |

Three modules meet at the routes. `BffSession` has the whole life of a session
row but treats login and closure as single actions. `LoginFlow` expands the
callback, and `AccountClosure` expands closure together with the last two steps of
the callback (code exchange, insertion). Each has only the variables its questions need.
`Administration` and `LoginSites` are compositions: each extends the module it
composes, adds variables, and conjoins its conditions to that module's actions, so
that its behaviours are behaviours of that module too; both facts are proved.
No module recurses, so all can be proved about.

Definitions whose comment begins "Mutant of" are wrong variants of the definition
that follows; nothing uses them. They are there to be put in its place, to see
that a property notices.

### BffSession

*State.* `row` is the table (state, expiry, subject, access and refresh token);
`lock` is PostgreSQL's row lock; `req` holds the coroutines with their program
counter, the context `get_session_context` returned and the token response in
hand; `issued` and `honoured` are the provider: pair *n* is access token *n* with
refresh token *n*, and it accepts the refresh tokens in `honoured`; `due` are
access tokens within the refresh skew.

*Actions.* `Login` is the insertion by the callback. `Lookup` and `Touch` are
`get`: its SELECT, then its UPDATE of `last_seen_at`, which waits for the row lock
and returns values that may be stale by then. `RefreshGranted` and
`RefreshRefused` are the token endpoint's answers. An answer that does not rotate
carries the presented refresh token again, whether the provider repeats it or the
OAuth client puts it back (authlib's `refresh_token` does), and `rotate` stores what the answer
carries (`Rotated`), whatever the row holds by then. `RotateLock` and `RotateCommit`
are `rotate` on either side of its commit; after a failed test under the lock it
returns None *with the lock held*, and `Revoke` is the except branch that follows.
`CheckCsrf`, `ServeRead`, `ServeWrite`, `ServeRefresh`, `LogoutRevoke`,
`LogoutUpstream`, and the closure are `validate_csrf` and the
handlers. A closure is `revoke_subject`'s UPDATE: `CloseSnapshot` finds the user's rows,
`CloseLock` locks them one by one in any order and keeps them, `CloseCommit` revokes them together.
Two closures can meet in opposite order; `WaitsFor` says who waits for whose lock, and
`DeadlockBroken` is PostgreSQL cancelling one UPDATE of such a circle, a 500 that leaves the rows as they were.
Every read of the row (`csrf_valid`, `rotate`) goes to the database again: the ORM session keeps
no strong reference to a record whose call has returned. `Expire` and `BecomeDue` are time. The faults, each switched by a member
of `Faults`, are: token endpoint unreachable or its answer lost, a grant ended by the
provider, a failing database call, an unacknowledged commit, and the death of the process.

Encryption, cookies and claims are left out and tokens are numbers: the properties
are about *which* tokens are where.

`SessionContract` is the same store for a reader who does not care about requests:
grants are obtained for a session, stored in it or discarded, and an ended session
never stores anything. `BffSession` maps to it through `Contract`: `status` from
the row's state, `grant` from its access token, `held` from the responses in
requests between refresh and commit.

### AccountClosure

*State.* `account` and `signedOn` at the provider; `login`, one callback between
exchange, insertion and end of the session; `op`, the routes in flight with the
position in their call sequence; the history variables `closed` (which route
answered) and `straggler` (callbacks past their exchange when the suspension took
effect). *Actions.* `Begin` and `Run` take a route through `Plan`, its fixed
sequence of calls; in `Run` each call may fail, with or without effect.
`SignsOn`, `SignsOff`, `Exchange`, `Store` and `EndLogin` are the user. A deletion
revokes first and closes the door last, so its stragglers are all callbacks
that exchanged a code before it removed the account.

### Administration

In `AccountClosure` requests come from nowhere. Here each one is sent from a live
session, on a route of `api/routes.py`. The tables `AccountRoutes` to
`AuditRoutes` list every route with the permission it asks for, whether it compares the
tenant with its path, and what its calls change: a closure, the claims of one or
of all users, a session at the provider, or nothing a session could notice.
`PrincipalOf` and `Permits` are `principal_from_claims`, `require_permission` and
`_assert_tenant`.

*State.* `granted` is what the provider's next ID token will say of a user, `claims` what
the ID token of each login said as long as it may act, `request` who asked for what in each slot, with the claims
it was let in with. *Actions.* `AdminExchange` copies the claims into the session; `Find` is `get`'s SELECT of a live
row; `Ask` is all that follows until the handler runs, by when the session may be over: routes that change
something have `validate_csrf` look at the row again, others do not. `AdminRun` is a step of `AccountClosure`'s `Run`;
`ChangeClaims` and `EndSignOn` are the other calls with an effect; `Ends` is a request that failed or only read.

Nothing relates a session's claims to the provider's present ones: they are copied at login and stay,
through every refresh, which is how the code wants it. What must hold is that authority has a source.
`PowerlessStaysPowerless` says that while no token, session or request is of anybody who may write
(`Powerless`, read off the raw claims by `Says`, not by way of `PrincipalOf`), this stays so
whatever is requested, and no account or claim changes, but for an owner who deactivates the account.
A wrong entry in the table of routes, a permission taken from the wrong claim or a role from
another organization breaks it.

### TokenCache and JwksCache

Both are translated statement by statement up to the awaits (or, for threads, the
steps under the lock), with a clock. `TokenCache` keeps asyncio's
first-come-first-served waiting list. Each token has its lifetime at the
provider, so that the cache's arithmetic (at least 30, minus 60, at least 5) is
measured against the truth. `JwksCache` keeps the history of each key (future, published,
withdrawn at a time); a call remembers whether its key was published all the time
(`steady`). The BFF itself builds a verifier for each callback, so `JwksCache` is
about users of the SDK that share one.

`TokenSource` has one shared token and no lock, list or arithmetic. `TokenCache` maps to it with
`shared` the cached value (none when it is not to be served any more) and `use` read off each
call's program counter by `UseOf`: waiting and fetching are "asking", until the response that
carries the new token is on its way. `KeySource` has no key set at all: a thread asks for a key
and gets it, is refused, or fails, after two questions to the provider at most. `Seen` maps a thread of
`JwksCache` to it; the lock and the cached set have no counterpart.

### LoginFlow

A flow stands for its state, PKCE verifier and nonce together. A browser has one
state cookie and one session cookie; responses of callbacks reach it late and in
any order; a callback address may be opened by any browser, any number of times, and may carry the
state of one login and the code of another: nothing but PKCE (`Redeems`) ties the two together.
`Begin` is `/auth/login` (also `register` and `forgot-password`); `Open` and
`Serve` are the callback, split at the code exchange, the insertion and the response.

`LoginContract` knows no cookies, callbacks or tabs: a login is started, its code issued and spent,
a session opened, its answer given, each once and in this order, the answer to the browser
that started it. `redeemed` and `unanswered` are the flows of callbacks on either side of the insertion
(`LoginsAt`), and `signedIn` is the session cookie.

### LoginSites

Whether the state cookie set at the start of a login reaches the callback, and the
session cookie the web application, depends on three settings. `Site` is
a set of deployments (the hosts in `BFF_PUBLIC_URL` and `BFF_WEB_PUBLIC_URL`, and
`SESSION_COOKIE_DOMAIN`), one of which is chosen at the start; `Below` is the subdomain
relation. `CookieDomain` is `effective_session_cookie_domain` and `Carries` what a
browser does with a cookie of that domain. A login begun at a host whose cookies the callback
does not see is `LoginFlow`'s `BeginUnkept`. `fresh` remembers the logins whose browser
has done nothing since that the code lets interfere (there is one state cookie for all tabs).

### Bootstrap

`Steps` is `run()` as data: what is looked up where, created with which links, and
linked afterwards. `Find`, `Create`, `Link` take a run through it;
`ConfigureClaims`, `Read`, `Patch` are the settings (each read, changed and
written back whole), `Write` the output file, which may die after truncating it and leave it empty.
Each call may die done (`Goes`) or not done (`Die`). `Save` is the operator who copies the file into `.env`, `Delete` the one who removes an
application, `Edit` somebody who changes another part of a setting in the console, `Crowd` a
collection that outgrows the one page `list_all` reads.

### Experience

`page` is the `state` object with the view and address, `calls` the chains in
flight, `saved` the social sign-in in `sessionStorage`. The user's actions are
`Navigate`, `SignIn`, `Register`, `Forgot`, `Finish...`, `Social`, `Reload`; the
answers (`CodeSent`, `NameAccepted`, `Redirects`, `NoRedirect`, `SocialStarted`,
`Fails`) act on the page as it is when they arrive. A verification id is
represented by the address the code went to, a password by the identifier it
was typed with.

## 3. Runs

Some runs also check their module's type invariant where `PROJECT.json` lists it.

| Run | Instance | Shows |
| --- | --- | --- |
| `session` | 2 sessions, 2 requests, 2 users, 4 token pairs, no faults | `TokensStayPrivate`, `OnlyClosuresHoldAndWait`, `GrantLostOnlyByWriteBack`, `EndsOnlyDeadOrSuperseded` |
| `session_faults` | 1 session, 2 requests, 3 pairs, all faults, fairness | `LockDiscipline`, `RevokedIsFinal`, `KeepsContract`, `EveryRequestAnswered` |
| `safe_refresh` | as above, no faults | violation of `RefreshIsSafe` (finding 1) |
| `closure` | `Administration`: 2 users, 2 callbacks, 2 provider sessions, 2 requests, tokens of a manager and of anybody | `ClosedOnlyStragglers`, `NothingLeftUpstream`, `PowerlessStaysPowerless` |
| `closure_complete` | `AccountClosure`: 1 user, 2 callbacks, 2 provider sessions, 2 routes | violation of `ClosureIsComplete` (finding 2) |
| `token_cache` | 3 calls, lifetimes 30 and 75, time to 30 in steps of 15, 2 tokens, fairness | `FetchesMerge`, `RetryUsesAnotherToken`, `CachedTokenIsAlive`, `EveryWaiterIsQueued`, `KeepsTokenContract`, `EveryCallAnswered` |
| `jwks` | 2 keys, 2 threads, TTL 1, latency 1, time to 3, fairness | `TrustEnds`, `PublishedKeyIsFound`, `LockHasWorker`, `KeepsKeyContract`, `LockIsReleased` |
| `login` | 2 browsers, 3 flows, 2 callbacks, 4 deployments | `OwnLoginsOnly`, `CompletedIsOver`, `CookiesSurvive`, `KeepsLoginContract` |
| `bootstrap` | 3 runs, 1 deletion, 2 crowded collections, 2 edits | `FirstRunDelivers`, `OneEach`, `WiredUp`, `CredentialsMatch`, `EditsSurvive` |
| `bootstrap_credentials` | 2 runs, provider undisturbed | violation of `DeliversCredentials` (finding 3) |
| `experience` | 2 identifiers, 3 chains, all settings | `PasswordBelongsToIdentifier`, `RegistersWithPassword`, `BusyMeansWaiting` |
| `experience_password` | same | violation of `PasswordOnlyInRegistration` (finding 4) |

Why the bounds are enough to be interesting:

* *session*: two requests are what an overlap needs, and every kind meets every
  kind. Four pairs allow two logins and two refreshes. `Login` and `Lookup` reserve the
  pairs that requests in flight may still ask for, so no request is stuck on
  the bound. With faults one session is enough, since sessions share only
  `revoke_subject`, and three pairs give a login and two refreshes.
  Two users let a closure hit one session or both; two closures of one user and two sessions are what a
  deadlock needs. As sessions of two users have nothing in common but closures, the constraint `Bound` lets access tokens near their
  expiry, and sessions expire, only while all sessions are one user's.
  `GrantLostOnlyByWriteBack` and `EndsOnlyDeadOrSuperseded` name the faults they bear (outage and lost answers; dropped grants
  and a crash). The run has none of them; the theorems cover them. `EveryRequestAnswered` is checked with one session, so
  the order of locks on several rows is not part of it: `OnlyClosuresHoldAndWait`, `DeadlockBroken` and
  `RequestsOnlyAdvance` speak about that.
* *closure*: two users are one who closes the other. Two callbacks give one before and
  one after the suspension, two requests a closure against a restore or a deletion.
  The manager's token opens the routes for users and for members, the
  other, a guest who is administrator in another organization, only those that need a session. The whole product is out of
  reach, so the constraint `Bound` lets requests overlap, and a user have two sessions at the provider, only while the
  other user is untouched: overlap is a matter of one account (routes for different users touch
  different rows and accounts), authority of two. The proofs need no such restriction.
* *token_cache*: lifetime 30 is the floor and 75 leaves 15 seconds after the
  margin of 60, so both floors and the subtraction are exercised. Time goes to two
  cache lifetimes. Two tokens are a fetch and a refetch, three calls a holder and two waiters.
* *jwks*: with TTL and latency 1, time 3 suffices for a download, a withdrawal
  during its travel, its expiry and the time after.
* *login*: three flows are two tabs of one browser and another browser's login. The four
  deployments are: the BFF below the web application's host, alone with the domain
  set, on another site, and with the domain set wrongly; in the last two, `OneSite` is false and logins
  do fail, as `OwnLoginsOnly` and `CompletedIsOver` have to bear.
* *bootstrap*: three runs are one that dies, one that repairs, one that repeats; two
  edits are one that a run sees and one that falls between its read and its write. The constraint
  `Bound` keeps edits apart from deletions and crowded collections, since settings and objects have nothing in
  common, and the third run from a second crowded collection.
* *experience*: three chains are two abandoned ones and that of the open form.

Symmetry is used where only invariants and step properties are checked, never
with liveness. Deadlock is switched off where all tokens, runs or flows may be used
up (`session*`, `safe_refresh`, `closure`, `token_cache`, `login`, `bootstrap*`) and checked elsewhere.

Fairness appears in three runs. `session_faults`: each request whose next step is
possible again and again is carried on (strong fairness, since a row lock comes
and goes while it waits). The code justifies it with the event loop, which runs every
ready coroutine, with the timeouts of all outgoing calls, and with PostgreSQL's queue for row
locks; no client and no fault is ever forced. `token_cache`: weak fairness per call, as the
HTTP client has a timeout and `asyncio.Lock` a queue. `jwks`: weak fairness for
the thread that holds the lock only, since `threading.Lock` promises nothing to those that wait.

## 4. What the runs found

1. **A failed refresh ends a session that is fine** (`RefreshIsSafe`).
   `0002_session_token_expiry.py` speaks of "safe session refresh". Two requests of a
   browser read the same refresh token, the provider rotates it for one and refuses the
   other, and the other's except branch (`dependencies.py:70`) revokes the session.
   What does hold is `EndsOnlyDeadOrSuperseded`: as long as the token endpoint
   answers and the database works, a refresh ends a live session with an intact grant only if another request has refreshed
   it meanwhile. The overlap has a second outcome: the provider does not rotate for the first request and rotates for the second; the second
   commits, and then the first writes the old token over the new one (`sessions.py:133`). The session lives on with a consumed refresh token and
   ends at its next refresh. `GrantLostOnlyByWriteBack` says that this is the only way in which a session that
   stays live loses its grant while the server, its database and the provider work.
2. **A closed account keeps a session** (`ClosureIsComplete`). `docs/security.md:14`
   calls closure "suspension plus revocation of all BFF sessions". A callback between
   its exchange and its insertion is not revoked. `ClosedOnlyStragglers` says that
   this is all that can be left.
3. **The credentials are lost** (`DeliversCredentials`). A bootstrap run that dies
   after it created an application takes the secret with it; the repetition ends
   well and writes the id alone (`cli.py:427`; `bootstrap/README.md:20`). The
   id and the secret it writes are of one application, unless `.env` still names one that was deleted: then the file has the old
   id with the new secret (`cli.py:426`), and what `CredentialsMatch` says is that no application has that id. (Collections larger than
   a page are exempt.) A first run that ends well does deliver (`FirstRunDelivers`).
4. **A registration's password outlives its step** (`PasswordOnlyInRegistration`).
   The answer of an abandoned password reset takes the page away from a
   registration and leaves its password in memory (`app.ts:408`, against the
   comment at `app.ts:26`). It is never used with another identifier:
   `PasswordBelongsToIdentifier`.

## 5. Proofs

The theorems hold for every value of the constants, under the named `ASSUME` of
each module (bounds are naturals, `None` is nobody; in `TokenCache` also that
the latency is at most 60 and every lifetime at least 5 more than it).

* **BffSession.** `TypeCorrect`; `LocksAreDisciplined`, strengthened by `Guarded`:
  a request in `rotating` holds its row's lock and its row is not revoked;
  `RevocationIsFinal`, a step property that follows from it. `DeadlocksNeedTwoClosures`: the holder of a lock is
  in `rotating` or `revoking` on that row, and then waits for nobody, or it is a closure; and a closure's rows, those it has
  and those it wants, are one user's. So a circle has closures of one user only.
  `GrantsAreLostOnlyByWriteBack` is a step property over an invariant that says which tokens are in use
  and that logout writes the row before it tells the provider: each action keeps a session's grant,
  or ends the session, or is `RotateCommit` with the presented token in hand. It
  bears outages and lost answers: a lost answer leaves a request that ends the session, which is
  why `HasGrant` has its third case. With a failing database, a crash or a grant the provider drops, the property is false.
  `EndsForAReason` follows from `FailedForGood` (a request about to revoke holds a refresh token the provider never
  accepts again, or its session is over), with `Spread` (where a token may be) and `Ending` (no step revives a session) about the steps
  that kill tokens. It is inductive while the token endpoint answers and the database works. Both invariants are carried under
  these hypotheses (`NetworkInv`, `EndpointInv`), all other conjuncts without any.
* **Refinement.** `StoreKeepsContract` is proved under the mapping above with `HeldInv` (a
  response in hand belongs to an existing session); each action of `BffSession` is
  one step of the contract or a stutter. `SessionContractProofs` proves `OneOwner` of the
  abstract store, and `TokensArePrivate` carries it to the code by instantiation.
* **AccountClosure and Administration.** `IInv` adds to the type invariant where a
  session may come from (`Attributed`), that an account whose closure has passed its first call
  admits no exchange (`DoorShut`), that each request in flight counts the
  callbacks it may miss (`Counted`), what remains to be deleted upstream (`Purging`), and what holds after the answer
  (`Closed`); it needs all of them because a closure, a restore and a login may
  interleave between any two calls. `ClosureLeavesStragglers` and `ClosureEndsSignOns`
  follow. `AdministrationImplementsClosure` shows that every step of `Administration` is one of
  `AccountClosure` or a stutter, which carries both over. `AuthorityNeverAppears` uses the type invariant
  and a lemma about the route tables: a token that is harmless in its raw claims is let in by `Permits` on no route
  that writes (`Permitted`), for any claims and organizations; `Own` says that a
  request that deactivates works on the user of the session it came from.
* **TokenCache.** One inductive invariant `IInv`. `Known` and `Newest` order the
  tokens (whatever anyone uses was issued, and a response on its way carries a token newer
  than all others in use); `RetryInv` relates the
  refused token to the cached one; `AliveInv` bounds the cache's expiry by the
  provider's. `CacheForBound` is the arithmetic of the floors. `NobodyWaitsInVain` needs `QInv`, which adds `RestInv` (a call at rest has
  no token and knows of none refused): the lock's holder is the call that fetches, and a call is in the waiting list exactly while it waits, once. `CacheKeepsTokenContract`
  maps each step to one of `TokenSource` or a stutter. The point is the double check after
  the lock is obtained: whoever wakes and finds a token takes `SendShared`, and only one
  that finds none gets to `Renew`, where `FetchesMerge` says that it is alone.
* **JwksCache.** `DownloadInv` and `CacheInv` date the downloaded and the cached
  set, `SteadyInv` says that a key
  published throughout a call is in every set downloaded for it. `LockIsNeverOrphaned` and
  `CacheKeepsKeyContract` use `WInv`, which adds that the holder of the lock, and nobody else, is downloading
  (`LockHasWorker`), that a thread counts its downloads from its first, and that no set names a key the provider has not
  published yet (`CountInv`): so a call makes two downloads at most, and a refusal comes after both.
* **LoginFlow.** `CookieInv`, `CallbackInv` and `SessionInv` say that the state cookie and the verifier a
  request in flight has are of a flow the browser started, that from the exchange on its code is that flow's too, and that a
  code is spent before anything follows from it. `LoginsWalkOneLine` is the refinement: by `CallbackInv` no two callbacks
  are past the exchange with the same flow, so that a step of a callback moves its own login along the line and no other (`LoginsStep`).
  `SitesImplementLoginFlow` carries its theorems to every
  deployment; `CookiesSurviveOneSite` adds `FreshInv`, that the browser of a fresh login has no
  callback in flight and, on one site, still has its state, for any hosts, subdomain relation and settings.
* **Bootstrap.** The inductive invariant says that ids are given out once (`IdInv`); that what a run
  is about to create is not there as far as it can see (`OnceInv`); that there is one scope in one
  resource and a role that carries it (`TreeInv`), without which a role that is *found* could lack a
  scope that was created again; that for each step behind a run there is an object with the id it
  found and the links of that step (`WiringInv`), which later steps do not disturb because a step refers to earlier ones
  only (`RefsEarlier`); that what the file and `.env` know of an application fits the objects
  (`CredentialInv`); and that a run about to write has read the last edit, or one came between
  (`EditInv`). `OnceTheorem`, `WiringTheorem`, `CredentialTheorem` and `EditTheorem` follow.
  `FirstRunTheorem` rests on `FirstInv`: as long as the first run goes on, every object is its own (`OwnOnly`), so each application it
  names is one it was told the secret of, and neither file nor `.env` interferes.
* **Experience.** `Inv`: `GoodPage` (the password kept belongs to the identifier
  kept, the form for the code has the password it will send, a page that loads has no calls
  and no password) and `GoodCalls` (a registration being finished carries its own password).
  Both are stated for any page and any chains, so a lemma on rendering serves every answer.

Only model-checked: the liveness properties (`EveryRequestAnswered`,
`EveryCallAnswered`, `LockIsReleased`), since liveness under fairness is beyond the
prover. Their safety halves are proved. `RequestsOnlyAdvance`, `CallsOnlyAdvance` and `ThreadsOnlyAdvance` give each
actor a natural number (`Rank`) that every change of it decreases until it is answered, so nothing goes in circles, for any
number of actors and any faults; `NobodyWaitsInVain` and `LockIsNeverOrphaned` say that
whoever waits for a lock of the caches waits for somebody who works, and `DeadlocksNeedTwoClosures` that circles of waiting requests
are of closures only, which PostgreSQL breaks. What TLC adds is that under the fairness stated each such step is taken.
Every other property of a passing run is proved. The four findings are counterexamples of TLC's.

## 6. Assumptions and what is left out

About the provider, from how the code uses it: it exchanges codes and lets users
sign on only while their account is active; tokens and ids are never given out twice; a code works
once and only with its own verifier; a kid is never given to another key; a
secret is told when an application is created and never again; names other than those of
applications and organizations are unique. Whether the token endpoint rotates the refresh token is
open in every answer; an answer that leaves the token out has the effect of one that repeats it, since the OAuth client
returns the presented one in both cases (so the branch of `rotate` for an answer without any token is never taken, nor is an
explicit `null` modelled). The sessions the provider lists have ids (`management.py:201` passes over others).

PostgreSQL locks the rows of an UPDATE in no promised order, keeps them until the transaction ends, and breaks deadlocks.

About the rest: a bootstrap run without credentials (`BOOTSTRAP_SEED_*`, else `LOGTO_M2M_*`, `cli.py:342`) ends before its first
call, which is a run that dies at once; a page that is being left takes no input and no answers; a
bootstrap run and its successor do not overlap, and a call that took effect did
so before its run is seen to fail.

Not modelled: what the Account API keeps (verification records, profile, e-mail, password; the routes
are in `Administration` as requests of a session that leave the claims alone); the SDK facade and its records (data
without control); the settings other than the hosts and the cookie domain; schemas, wiring, migrations
and deployment; signature, issuer, audience and expiry checks (PyJWT's); encryption and the other cookie attributes;
the path of the redirect after login; validation, wording and HTML of the Experience pages; the contents of
roles, claims scripts, branding and redirect URIs. Bootstrap returns an existing application or role
as it is (`cli.py:206`), whatever the configuration says by then: with contents left
out, no property is about that.

## 7. Plan

1. Ranks for the routes of `Administration` and the call chains of `Experience`, as for the caches: a closure that does not
   fail goes through its calls and ends.
2. `Bootstrap`: redirect URIs and scopes of objects that exist already (`cli.py:206`), two runs at once, a call that takes
   effect after its run died.
3. `Experience`: the provider's interaction call by call (identification, verification,
   profile, submission), so that chains that overlap meet in it (`experience-api.ts:196`); sign-up by user name, which
   reads its password after the call (`app.ts:279`).
4. `LoginFlow` and `Administration` composed with `BffSession`'s rows, so that
   one instance has a login, its refreshes and its closure.
