# Formal model of app-gateway

TLA+ modules, TLC runs and TLAPS proofs for the API gateway in `src/`: sessions and refresh
tokens, access tokens, per-tenant encryption keys, the rate limiter, the proxy, signing keys and
graceful shutdown. `PROJECT.json` maps every definition to the lines it models and lists the runs,
the hazards and the theorems.

## 1. The system

The gateway is an Express application. Several processes of it run behind a load balancer and share
one PostgreSQL database and one Redis; nothing else coordinates them. A handler is an `async`
function: between two `await`s it runs alone in its process, at every `await` any other handler of
the same process, and at any time any statement of another process, may run. Except for
`rotateTenantKey` no code opens a database transaction.

| Component | State it keeps | Operations | What makes it correct |
|---|---|---|---|
| Refresh tokens (`refreshToken.service.ts`) | table `refresh_tokens`; Redis keys `revoked:refresh:<hash>` | issue, rotate, revoke a family, revoke by hash, revoke the user's newest | a consumed token is never usable again; a replay kills its family; the Redis mirror never contradicts the table |
| Idempotency cache (`token.service.ts`) | Redis keys `idempotency:refresh:<key>`: free, pending, done (30 s) | claim (`SET NX`), complete, release, read | one owner per key; a retry gets the recorded pair; nobody waits for ever |
| Auth endpoints (`auth.router.ts`) | the locals of each handler | `/login`, `/refresh`, `/logout`, `/me` | the order of the statements above; claims released on failure |
| Access tokens (`token.service.ts`, `authenticate.ts`, `time.ts`) | JWT `exp`; Redis keys `revoked:jti:<jti>` with a TTL in whole seconds | sign, verify, check revocation, revoke | a revoked token is refused for as long as it could be accepted |
| Tenant keys (`tenantKey.service.ts`, `crypto.ts`) | table `tenant_encryption_keys`; two LRU caches in every process | encrypt, decrypt, provision the first key, rotate (the one transaction) | one active key; caches agree with the table; every ciphertext stays decryptable |
| Rate limiter (`rateLimiter.ts`) | Redis counter per client and window | INCR, PEXPIRE by the creator, decide, fail open | of the requests counted in their window at most the limit pass; nobody refused early; no counter without a TTL |
| Signing keys (`crypto.ts`, `token.service.ts`) | lazily filled per-process caches of the signing key and the JWKS, each from the process's own environment | load, sign, verify, serve the JWKS | a token signed by one replica verifies at every other throughout a key rotation; a document a client keeps lacks no key but newer ones |
| Proxy (`proxy.router.ts`, `proxy.service.ts`, `routes.ts`) | per-route limiters; a WeakMap of pending upstream errors | resolve the route, strip headers, authenticate, check role, scope and rate, dispatch, audit | only authorized requests reach an upstream, under a verified identity; a dispatch settles, once, with the outcome of its own call |
| Lifecycle (`index.ts`, `db/client.ts`) | HTTP server, pool and Redis handles; one run of `shutdown` per signal | start, SIGTERM/SIGINT, 10 s limit, exit | resources close after the requests that use them; the process stops |
| Audit log, users, health, OAuth/SAML stubs, configuration, validation, error handling, logging | append-only or none | | no protocol state |

Interactions: `/refresh` claims an idempotency slot, rotates in the refresh-token table, mirrors
revocations to Redis, reads the user (which decrypts the e-mail with a tenant key), signs an access
token, and completes the slot. `/logout` passes `validateAccessToken`, writes the `jti` key and then
revokes a refresh token. The limiter stands in front of `/login`, `/refresh` and every proxied route.
Signing and verifying share `cachedKeys`; verifying and the JWKS endpoint share one cached promise.
Shutdown closes the pool and the Redis client that every handler uses.

What is hard here: decisions taken on a row read several awaits earlier; writes by id that do not
look again; two stores (PostgreSQL and Redis) written one after the other without a transaction;
TTLs that run out under a slow owner; caches filled inside a transaction that may not commit;
rounding between millisecond clocks and second-valued TTLs; a counter that expires between being
chosen and being incremented; promises cached whether they resolve or reject; replicas with
different environments during a rollout; handlers that outlive their connection. `PROJECT.json`
lists each of these under `hazards` at its line.

## 2. The modules

```
RefreshTokenStore <- IdempotencyCache <- AuthSessions <- MCAuthSessions
                      SessionLineage <....    ^-------- AuthSessions_proofs
                       (implemented by)                    ^-- SessionGuarantees_proofs
BoundedLru <- TenantKeys <- MCTenantKeys, TenantKeys_proofs
AccessTokens  <- MCAccessTokens, AccessTokens_proofs
RateLimiter   <- MCRateLimiter, RateLimiter_proofs
ProxyRequests <- MCProxyRequests, ProxyRequests_proofs
SigningKeys   <- MCSigningKeys, SigningKeys_proofs
Shutdown      <- MCShutdown, Shutdown_proofs
```

**RefreshTokenStore.** The table, one function per column, and the mirror. Rows are numbered in the
order of their INSERT (which is the order of `issued_at`); a family is named by its first row.
`reason[t]` joins `revoked_at` and `revocation_reason`: `active` is `revoked_at IS NULL`, `absent`
is no row. `parent` is a history variable: the row a rotation consumed to create this one. Each
operator is one statement (`InsertRow`, `MarkRevoked`, `CacheRevocation`), or something that
happens by itself: a row's `expires_at` passes, a mirror key lapses, a user is deleted and the
foreign key cascades.

**IdempotencyCache.** One slot per key: `Free`, `Pending` or `Done(presented token, pair)`.
`CompleteClaim` and `ReleaseClaim` are unconditional because `completeIdempotentRefresh` and
`releaseIdempotencyKey` are (SET and DEL without checking who owns the slot). `SlotLapses` is the end
of the 30 s; whether it may come under an owner that is still at work is `ClaimsMayLapse`.

**AuthSessions.** The composition: the three handlers over both stores. `req[r]` holds the locals of
the request in slot `r`, its `pc` the await it is at; each action is one statement with the
synchronous code up to the next await.

| pc | code | actions |
|---|---|---|
| `claim`, `poll` | `/refresh`: `claimIdempotencyKey`, `waitForIdempotentResult` | `ClaimWon`, `ClaimLost`, `ClaimReplyLost`, `PollHit`, `PollAgain`, `PollGiveUp` |
| `select` | SELECT of `rotateRefreshToken` with its three outcomes | `SelectReplay`, `SelectRefused`, `SelectUsable` |
| `rotUpdate`, `rotMirror`, `insert` | the rest of `rotateRefreshToken`, `issueRefreshToken` | `RotateUpdate`, `RotateMirror`, `Insert`, `InsertRefused` |
| `famSelect`, `famUpdate`, `famMirror` | `revokeSessionFamily` | `FamilySelect`, `FamilyUpdate`, `FamilyMirror` |
| `reuse`, `refuse` | the error branch, releasing an owned claim | `Reject` |
| `findUser`, `complete`, `respond` | the success branch | `UserFound`, `UserMissing`, `Complete`, `Respond` |
| `outJti` ... `outMirror` | `/logout` | `LogoutJti`, `LogoutSelect`, `LogoutUpdate`, `LogoutMirror` |

`Fail` ends a request at any await: a rejected promise (answered 500, and nothing cleaned up), a
dead process and a lost response leave the same state behind. `ClaimReplyLost` is ioredis resending
a `SET NX` whose reply was lost. A client can present only a token it has received (`delivered`),
but any of those, at any time, as often as it likes: that is where retries and replays come from.
The fields `late`, `expect` and `mark` of a request are history variables for the properties.
`accessAge[t]` places the access token of pair `t` before its `exp`, in the `clockTolerance` after it,
or beyond: `/logout` lets the first two in, `revokeToken` writes a key for the first only
(`LogoutJti`), and the key `revokedJti` lapses at `exp` (`JtiKeyLapses`). AccessTokens has the same
clock in ticks.

**SessionLineage.** What the above promises, without its statements: tokens are unborn, usable or
spent; a login opens a session (`Open`); a request may be granted the exchange of a usable token
(`Grant`), which it uses at most once, when that token is spent, for one successor in the same
session (`Exchange`), or not at all (`GiveUp`); any set of existing tokens may be spent (`Spend`).
`AuthSessions` implements it (`ImplementsLineage`): a token is unborn until its INSERT, usable while
its row is active, and a request holds its grant from the SELECT that found the row active until its
INSERT. Two requests may hold a grant for one token, because the code decides on a SELECT and does
not look again; what the refinement excludes is a grant for a spent token, a grant used twice, a
successor beside a token that is still usable, a token that changes its session or its origin, and a
spent token that becomes usable.

**BoundedLru.** The hand-rolled LRU of `tenantKey.service.ts`: the Map as the sequence of its
entries in iteration order.

**TenantKeys.** The table, both caches of each process and the calls in flight. The reply to a
SELECT or INSERT is a step of its own where the code then writes a cache (`Found`, `Provisioned`),
because other calls of that process run in between. The rotation transaction keeps its uncommitted
writes in its call; `RowLocked` and `InsertPending` are the row lock of its UPDATE and the index
entry of its INSERT. The caches are filled by `RotateInsert`, before `Commit`, as in the code. A
DEK is a number; a ciphertext is decryptable exactly with the DEK it was made with. The partial
unique index on active rows is not modelled: `OneActiveKey` shows it never has to refuse a write.
`lost` is a history variable: DEKs whose COMMIT did not happen. `Sealed` is `encryptWithDek`: a version
that does not fit in the ciphertext's prefix (`MaxPrefix`, 2^16 - 1 in the code) makes it throw.

**AccessTokens.** A clock with `PerSecond` ticks to a second, `exp` in seconds rounded down as
`signAccessToken` does, the revocation key's TTL rounded up as `ttlSecondsUntil` does. A request
checks `exp` (with `clockTolerance`) in one step and Redis in another; time passes between.

**RateLimiter.** Counters per client and fixed window. The window is computed on arrival; INCR and
PEXPIRE run later, and the clock may move on at either await, also into the next window. INCR may be
resent (a lost reply), and either call may reject, whereupon the request goes on to the next handler
unchecked (`FailOpen`). `served` has every request that goes on; `timely` those that INCR counted
while their window was still open.

**ProxyRequests.** `ALL /api/**`: the handler of `proxy.router.ts` with the functions of
`proxy.service.ts`. `http[r]` holds the locals of a request, `res[r]` the state of its response
object, `upstream[r]` that of the upstream call, `pending` the WeakMap `pendingUpstreamErrors`.
`RouteTable` is `routeConfig` in file order; a pattern is the set of paths it covers, and the first
entry that covers a path wins (`Resolves`).

| pc | code | actions |
|---|---|---|
| `new` | `resolveRoute`, `stripSpoofedHeaders` | `Receive`, `NoRoute` |
| `auth` | `validateAccessToken`, the role and scope checks | `Authenticate`, `VerificationFails` |
| `limit` | `runRateLimiter`, then identity headers and `dispatchToUpstream` | `RateLimited`, `Dispatch` |
| `denied` | `auditDenial`, `next(error)` | `AuditDenial` |
| `await` | the promise of `dispatchToUpstream` | `UpstreamEnds` (`finish`), `ClientCloses` (`close`), `UpstreamError` (`on.error`), `NotSent` (`next(err)`) |
| `allowed` | `auditAllowedIfFlagged` | `AuditAllowed` |

`UpstreamAnswers` and `UpstreamBreaksOff` are the library's. The events go on after the promise has
settled (an upstream may still answer a client that left), which is what `settled` guards against.
Whether a token is valid and whether a client is over its limit are inputs here; AccessTokens and
RateLimiter say what they mean.

**SigningKeys.** A fleet of processes. `env[p]` is the deploy a process was started with, which
gives its `JWT_KID` and `JWT_PREVIOUS_KID` (`Config`; `env.ts` refuses one without its key file).
`cachedKeys[p]` and `cachedJwksDocument[p]` are the module variables of `crypto.ts` and
`token.service.ts`. A promise is unset, reading the key files, building, ready with a set of kids,
or rejected, and stays so until the process restarts; a load started by a signing request that fails
is not cached, one started for the document is. `cachedVerifyKeySet` is made from the document and
has no state of its own. `live` is the set of keys under which an unexpired token exists, `held` the
document that some client keeps, as long as it likes or until it fetches another, `refused` a
history variable. The operator is external: `NextDeploy` needs every process on the last deploy and,
before the old key is dropped, its last token expired (`MayRetire`), as the runbook says, and waits
for nothing else. `Restart(p, g)` is a rolling restart (`g = target`) or a crash (`g = env[p]`).

**Shutdown.** One process. A connection (`conn`) and the handler of its last request (`handler`) are
separate, since handlers go on when clients leave, and `proxy.router.ts` writes an audit entry after
the response (state `audit`). `run[g]` is the run of `shutdown` that signal `g` started: `drain`, or
`drainAgain` when the server had been closed before and Node calls back with an error, then the
pool, Redis and exit. A signal may come before the server listens: the handlers are installed as
soon as it is created. `Closed` is the server's `close` event, `Timeout` the 10 s timer of a run.
Node's server, `pg.Pool.end` and `redis.quit` are external.

Definitions named `X_Something` are plausible defects of `X`, kept beside it to show that the
properties notice them; no specification uses them.

## 3. The runs

Run with `tlc -workers 2 -config <run>.cfg <module>`.

| Run | Instance | What it shows |
|---|---|---|
| `sessions_concurrent` | 2 requests in flight, 1 account, 1 session, 3 rows, no key; every await may reject, the account may be deleted, the first pair's access token ages | under every interleaving of two handlers: consumed tokens stay dead, the mirror is sound, a replay never rotates and revokes every row that existed at its UPDATE, an answered logout took effect, dead sessions stay dead; the handlers implement `SessionLineage` |
| `sessions_claims` | 2 requests in flight, 1 session, 3 rows, 1 key, failures; slots lapse unless their owner is at work, the last row expires; fairness | answers descend from the token presented; a key has one owner; a retry gets the recorded pair; every request is answered although a claim's owner may die |
| `keys_races` | 2 processes, 2 calls, 3 DEKs, caches of 1 entry, failing commits, crashes, fairness | one active key, the loser of the provisioning race finds a row, caches and ciphertexts are backed by the table, calls return |
| `access_clock` | 2 tokens, 2 requests, 2 ticks to a second, lifetime 2 s, tolerance 1 s, 10 ticks | revocations hold until `exp`, however the TTL is rounded and however the two checks of a request fall |
| `limiter_windows` | 1 client, 2 concurrent requests, 4 requests, window of 3 ticks, limit 2, failures, a clock that overtakes requests | the limit for the requests counted in their window, no early refusal, no orphaned counter |
| `proxy_requests` | 2 requests, 2 users, 5 routes, fairness; clients leave, verifications reject, upstreams fail | only authorized requests under a verified identity are sent, the audit log is truthful, errors stay with their request, callbacks exist exactly for unsettled calls, and a dispatch whose client is there settles |
| `signing_rollout` | 2 processes, 2 requests, 4 deploys (one rotation and the first deploy of the next), failing loads, rollbacks, crashes, fairness | no process refuses an unexpired token for its key; a kept document lacks no key but newer ones; requests are answered although the keys could not be read |
| `shutdown_drain` | 3 connections, 2 signals, fairness of replies and timers | nobody is cut off and no waiting client meets a closed resource unless a timer fired; one signal ends in a clean exit; the process stops |
| `bad_double_rotation` | 2 requests, no failure | two overlapping requests both exchange one token |
| `bad_family_survivor` | 2 requests, no failure | a replay is answered although a rotation it overlapped with leaves the family a usable token |
| `bad_uncommitted_key` | 1 process, 2 calls, failing commits | a key cached before a COMMIT that fails encrypts data no row can decrypt |
| `bad_tolerance_gap` | 1 token, 2 requests | a logged-out access token is accepted in the tolerance after its `exp` |

The `bad_` runs end in a counterexample: each refutes a sentence of the repository's own
specifications or comments, which `PROJECT.json` quotes under `findings`.

**Bounds.** Three rows are the fewest in which one token is rotated twice, or in which a family with
a replayed, a live and a just-inserted row exists. The session runs have one session: no statement
but the cascade of a deleted account and a logout without `refresh_token` touches two, and the
proofs cover any number. Two requests suffice for every race of a pair of handlers; a slot is used
again, so an owner, a waiter and a latecomer on one idempotency key occur one after the other.
`WaitAttempts = 2` (5 in the code) distinguishes a poll that is followed by another from the last
one. Room for rows is reserved on arrival (`HasRoom`), so the bound never stops a handler half way;
it only stops new requests. `MaxCached = 1` makes every second cache write evict; three DEKs allow a
provisioning, a rotation and a lost rotation, and `MaxPrefix = 2` a rotation past the prefix. Two
ticks to a second make a TTL that is not a whole number of seconds, which is what rounding is about;
10 ticks cover signing, the lifetime, the tolerance and the key's end, for tokens signed at either
phase of a second. A limit of 2 with 4 requests reaches "one more than allowed", a second window,
and late requests beside a full window. Two proxied requests can share a route and so its error
callback. The five routes are one for each combination the checks tell apart: a role, only a token,
a role or a scope where the token is optional, and a public route that earlier ones shadow; `other`
is covered by none. Four deploys are a rotation and the publication of a third key while tokens of
the second are about and a document from before may still be kept; two processes are an old and a
new neighbour. Three connections allow a waiting client, an idle connection and a handler without a
client at once; two signals are the first and any later one.

**Fairness.** `FairSpec` assumes weak fairness of each request's own steps: Node's event loop resumes
every handler whose awaited call has returned or rejected, and drivers time out. No fairness is
assumed of clients, failures, expiry or deletion. `KeysFairSpec` adds strong fairness for statements
that may wait for a row lock or an index entry: PostgreSQL queues lock waiters, so a waiting
statement is not passed over for ever; the lock holder itself is only weakly fair. `ProxyFairSpec`
assumes weak fairness of each request's handler and of its upstream, which `proxyTimeout` ends if it
stalls; clients never have to leave. `SigningFairSpec` assumes it of the continuations of a request
and of a document, not of restarts or the rollout. `ShutdownFairSpec` assumes that statements and
commands come back, that timers fire and that a run of `shutdown` resumes; nothing of clients, of
handlers or of the `close` event.

**Deadlock** is checked except where the bounds let a behaviour end (a comment in the cfg says why).

**Symmetry** is used for slots, keys, users, tokens and processes, only in runs without liveness.

## 4. The proofs

Every safety property that a passing run checks is also a theorem, for all values of the constants
that satisfy the assumptions named in the modules (constants are of the expected kinds, a `None` is
not a row, a process or a client), and with failures allowed or not. Three theorems say more as a
hypothesis: two that no claim lapses under an owner at work, and one that the slots are finitely many.

| Module | Theorem | Property |
|---|---|---|
| `AuthSessions_proofs` | `Typing` | `TypeOK` |
| | `ConsumedTokensStayDead` | `ConsumedNeverActive` |
| | `MirrorIsSound` | `MirrorSound` |
| | `AnswersDescend` | `AnswerDescendsFromToken` |
| | `ReplaysAreCaught` | `ReplayNeverRotates` |
| | `ReplaysRevoke` | `ReplayRevokesExisting` |
| | `LogoutsTakeEffect` | `LogoutEffective` |
| | `DeadSessionsStayDead` | `DeadSessionStaysDead`, an action property |
| `SessionGuarantees_proofs` | `SessionsImplementLineage` | `ImplementsLineage`, the refinement |
| | `ExchangesAreBounded` | no run's: a token has at most as many successors as there are slots, if these are finitely many |
| | `ClaimsHaveOneOwner` | `ClaimOwnerUnique`, if `ClaimsMayLapse = FALSE` |
| | `RetriesGetTheirAnswer` | `RetryGetsSamePair`, if `ClaimsMayLapse = FALSE` |
| `TenantKeys_proofs` | `KeysTyping` | `KeysTypeOK` |
| | `OneKeyIsActive` | `OneActiveKey` |
| | `CachesFollowTheTable` | `CacheCoherent` |
| | `CiphertextsStayReadable` | `RecoverableOnceCommitted` |
| `RateLimiter_proofs` | `LimiterTyping` | `LimiterTypeOK` |
| | `WindowsAreLimited` | `LimitPerWindow` |
| | `RefusalsAreDeserved` | `NeverRefusesEarly` |
| | `CountersGetTheirTtl` | `NoOrphanCounter` |
| `SigningKeys_proofs` | `SigningTyping` | `SigningTypeOK` |
| | `NoTokenIsRefusedSpuriously` | `NoSpuriousRefusal` |
| | `DocumentsLackOnlyNewerKeys` | `OldKeysStayPublished` |
| `AccessTokens_proofs` | `AccessTyping` | `AccessTypeOK` |
| | `RevocationsHold` | `RevocationHoldsUntilExp` |
| `Shutdown_proofs` | `ShutdownTyping` | `ShutdownTypeOK` |
| | `DrainCutsNobodyOff` | `NobodyCutOff` |
| | `OneSignalExitsClean` | `CleanExit` |
| `ProxyRequests_proofs` | `ProxyTyping` | `ProxyTypeOK` |
| | `OnlyAuthorizedRequestsAreSent` | `SentIsAuthorized` |
| | `IdentitiesAreVerified` | `IdentityIsVerified` |
| | `TheAuditLogIsTruthful` | `AuditIsTruthful` |
| | `ErrorsDoNotCross` | `ErrorsStayWithTheirRequest` |
| | `CallbacksArePrecise` | `PendingIsUnsettled` |

`ClaimsMayLapse = FALSE` is what the code does not give: an owner slower than the 30 s of its claim
overwrites the next owner's slot, and both properties fail, as section 5 tells. It is an assumption
about time, under which no failure, crash, retry or order of requests breaks them. Where the code
breaks a promise under plain overlap there is no theorem, but a counterexample: `SingleUse` and
`EntireFamilyRevoked` are checked to fail. `ExchangesAreBounded` is what is left of the first: a token
is exchanged at most once per request in flight together.

**The sessions.** None of the properties is inductive by itself. The inductive invariant `IInv` joins

- `TypeOK`;
- `StoreOK`: rows beyond `issued` are absent and have no parent, every row has a family, a row that
  has a successor or a mirror key has been inserted and is not active, delivered tokens have rows;
- `CacheOK`: a finished slot's pair has the slot's token as its parent;
- `SlotOK(r)` for every request, which says what a handler may rely on at each `pc`: what its
  locals name exists (`TokensOK`), the row it has updated is no longer active while it mirrors and
  inserts (`RotationOK`), rows waiting to be mirrored are not active (`TodoOK`), the family's rows
  up to `mark` are not active after `FamilyUpdate` (`FamilyOK`), a logout's `jti` is on the list or
  past its `exp`, and its row is revoked (`LogoutOK`).

The argument that makes it work across requests is `RowsOnlyMature`: every step of every request
leaves an existing row's family and parent alone and never turns a row that is not active into an
active one. `KeysOnlyMature` says the like of the `jti` keys, which go only when `exp` has passed.
What one request knows is therefore stable under the steps of all others, so `SlotOK` of an idle
bystander needs one lemma and not one case per action. The proof has one lemma per action for the
request that takes it, `Invariance` combines them, and each theorem follows from `IInv`.

*Refinement.* `IInv` is what the mapped steps need: an INSERT of a refresh is an `Exchange` because
`RotationOK` says that the token is spent and `StoreOK` that it has a family; the SELECT is a
`Grant`; the UPDATEs and the cascade are `Spend`; a request that ends gives up its grant; everything
else stutters, since a grant comes and goes only in rotation (`EntersRotation`, `LeavesRotation`).

*Exchanges.* `ExchangesInv` says that once a token has a successor, its successors and the requests that
still hold a grant for it are together no more than the slots. It is proved of the abstract steps,
through the refinement: an `Exchange` turns a grant into a successor, and no `Grant` is given for a
token that is spent.

*Claims.* `ClaimsInv` says that an owner is past its claim and that its slot is pending until it
answers (`OwnerOK`), that two owners of one key are not both at work (`OwnersApart`), and that the
answer a retry met on arrival is still on record (`RetryOK`). `completeIdempotentRefresh` and
`releaseIdempotencyKey` do not look who owns the slot; the lemma `SlotWrites` shows that without a
lapse only the owner is ever in a position to call them. A slot that is done therefore stays done
(`AnswersStay`).

**Tenant keys.** `KeysInv`: a tenant's versions are a run of retired keys under one active key
(`TableOK`); what a call has read of the table is still there when it fills the caches, and a
rotation past its INSERT builds on the newest version (`CallsOK`); two rotations of a tenant are not
both past it (`CommitsOK`, from the row lock and the index entry); every cached DEK is backed by a
row or an open transaction, or lost (`Coherent`). Rows never lose their DEK, so all of it is
stable under other calls. The LRU's operators have lemmas of their own: an operation adds no entry
but the one it is given and keeps the bound.

**The limiter.** `LimiterInv` relates each counter, and each reply of an INCR, to the set of
requests that were counted in that window (`CountsOK`); to compare a number with a set the requests
of a client must be told apart (`NumbersDiffer`, `CountedOK`). For `LimitPerWindow` `ServedInv` says
that, while a window lasts, its counter is at least the number of requests counted in time and let
through, or about to be (`Holders`). A counter's TTL is set to a full window from some moment at or
after the window's start, so it never expires inside its own window, not even when a late INCR and
PEXPIRE create it again after its end; and a request that arrives late adds to no `Holders`.

**Signing keys.** `RolloutOK`: a rotation is in one of two phases. Before the swap one key signs,
and every document and every process's configuration holds it (`Steady`); during the swap and back
two keys sign, and everything published holds both (`Swapping`). Processes are at most one deploy
apart. `HeldOK` says that a kept document, however old, has the old key of the rotation in progress
or only older ones. `CachesOK` says that a cache holds what its process's own deploy says,
`HandlerOK` that a request signs with its process's key.

**Access tokens.** The one fact needed is arithmetic: `ttlSecondsUntil` rounds up, so the key set at
any tick lapses at `exp` or later (`RoundsUp`, `LapseOK`).

**Shutdown.** `DrainOK`: a run past its drain without a timeout has seen every connection gone, and
a closing server accepts none; `EndedOK`: what has ended has nobody using it; `OneRunOK`: while
there is one run its place tells the state of the pool and of Redis.

**The proxy.** `ProxyInv` joins the types, `PendingIsUnsettled` and `RequestOK(h, u, a)` for every
request: what its locals, its upstream call and its audit entries may be at each `pc` (nothing is
sent before the checks are passed, the identity is empty until dispatch, the claims are those of
the token once it is verified). `RequestOK` is about one request only, so `ByOwnStep` reduces the
induction to the request that moves. That is also the argument for `ErrorsDoNotCross`: the callback a
failing call finds is its own (`Listener`), which needs `PendingIsUnsettled` to know that the
request is still waiting.

**Only model-checked.** Liveness (`RequestsTerminate`, `CallsReturn`, `DispatchSettles`,
`RequestsAnswered`, `ShutdownEnds`) is outside what the prover handles, and so are the four
counterexamples. The bounds of the runs matter for these only.

## 5. Departures from the repository's documents

Besides the four `bad_` runs, these were seen while modelling; each is a consequence of the modelled
code and can be reproduced by adding the named condition as an invariant.

- After `IDEMPOTENCY_CLAIM_WAIT_ATTEMPTS` polls a request rotates beside a live owner
  (`PollGiveUp`), although the comment on `claimIdempotencyKey` says only one caller ever does.
- `releaseIdempotencyKey` and `completeIdempotentRefresh` write the slot without checking that it is
  still theirs: an owner whose 30 s claim ran out deletes or replaces what the next owner recorded,
  and a retry within its window is not answered with "the identical token pair"
  (`specs/core-jwt-authentication.spec.md:141`). `RetryGetsSamePair` therefore holds in
  `sessions_claims` and fails with `ClaimsMayLapse = TRUE`.
- `/logout` without `refresh_token` revokes the user's newest token (`LogoutTarget`), which may be
  that of another session; and a token that was rotated before the logout's UPDATE leaves its
  successor usable. `LogoutEffective` promises neither that the right session ends nor that any does.
- `/logout` writes the `jti` key and the row one after the other; `Fail` in between leaves half.
  `LogoutEffective` speaks of logouts that are answered with 204.
- `revokeSessionFamily` mirrors the rows of its SELECT, so a row inserted before its UPDATE is
  revoked but not mirrored (the mirror is sound, not complete).
- A `getActiveDek` that read the table before a rotation can set the cached pointer back to the
  retired version (`Found` after `RotateInsert`); what is encrypted then is still decryptable.
- An INCR that reaches Redis after the window's counter has expired starts it again at 1 and is let
  through, and so is every request whose INCR or PEXPIRE rejects: of all requests of a window more
  than the limit may go on. `LimitPerWindow` bounds those that INCR counted while the window was open.
- The windows are fixed, so twice the limit passes around a boundary, where a sliding window is
  specified.
- A resent INCR returns 2, so no request gives the counter its TTL: `NoOrphanCounter` excludes
  counters a call has failed on.
- A client that disconnects before `dispatchToUpstream` registers its listeners has emitted `close`
  already: unless the upstream fails with an error event, the promise never settles and nothing is
  audited (`ClientCloses` at `auth` or `limit`; `DispatchSettles` asks for a client that is there).
- An upstream that breaks off in mid-body without an error event leaves the call open until the
  client gives up.
- An upstream error after the response has started reaches `errorHandler`, whose `res.status` can
  only throw then; the connection is cut (answer `cut`).
- From the 65536th version of a tenant's key on `encryptWithDek` throws and no e-mail of the tenant
  can be stored; `rotateTenantKey` does not stop before.
- A rejected load of the JWKS document is cached (`DocumentFails`): the process signs tokens, as
  `loadSigningKeys` tries again, but answers every verification with 500 until it is restarted.
  `specs/infrastructure-operations.spec.md:33` says the cache is "refreshed every 60 minutes"; the
  runbook notes that it is not, and says that it is "populated once at process start", which it is
  not either: the first request fills it, and a missing key file goes unnoticed until then.
- The runbook swaps the keys as soon as every replica publishes the new one, while a client may keep
  a document without it for another hour (`max-age=3600`) and meet tokens signed with the new key.
  Neither the code nor the runbook waits: the invariant `\A d \in held : live \subseteq d` fails.
  `OldKeysStayPublished` is what holds.
- The timer of `shutdown` does not "force exit after 10 s regardless" (`index.ts:139`): it goes on to
  `pool.end`, which waits for the statements in progress, and nothing limits those.
- A second signal makes `shutdown` reject when the drain ends: the process exits with 1, and with the
  pool and Redis open, although all went well. After a timeout it may instead exit with 0 past a
  statement the first run is waiting for (`CleanExit` asks for one signal).
- A handler whose client has left is not drained: it may meet a closed pool half way through a
  rotation, with what `Fail` leaves behind in `AuthSessions`.
- `specs/request-proxy-authorization.spec.md:43` lists a `proxy.upstream_error` audit event; the
  code never writes it.

## 6. Not modelled

Password hashing, JWT signatures, AES-GCM and token hashing are taken to be correct. Audit entries
of the auth endpoints, `markLastLogin` and `/me` change nothing that is read by the modelled code.
Header values, response bodies, validation of request bodies, logging and configuration are left
out. OAuth and SAML answer 501. `/health` and `/ready` keep no state. In the proxy,
`http-proxy-middleware` is modelled by its events and path patterns by the sets of paths they cover:
matching is `path-to-regexp`'s and `staticPrefixOf` cuts a string at a character, so a model of
`strip_prefix` would be a transliteration of string operations. The swap of `req.url` and the
loading of the route file are left out. The exit on an unhandled rejection is left out of Shutdown:
no path of the code that leaves one was found.

## 7. Plan

Done: all modules of section 2, and a theorem for every safety property, action property and
refinement the runs check. What could follow:

1. Theorems about `SessionLineage` itself (a spent token stays spent, a token keeps its session and
   its origin, a successor's origin is spent), which by the refinement then hold of the handlers.
2. Action properties of the tables that the proofs use as lemmas, stated on their own: rows only
   mature, a DEK never changes under its version.
