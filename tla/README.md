# Formal models of padlok

padlok is a webhook token authenticator for Kubernetes. The API server posts a
token review to it; padlok verifies the JWT with the authenticator configured
for its issuer, fetches further claims from external sources, maps the claims
to a user and answers. Its configuration is a file that it watches and reloads
while it serves requests.

The modules here model that system at the level of its processes and of what
they share, TLC checks them on small instances, and TLAPS proves every safety
property of theirs for every instance. Paths below are relative to the repository;
`oidc.go` without a path is the apiserver plugin under
`pkg/internal/third_party/kubernetes/apiserver/plugin/pkg/authenticator/token/oidc/`.

## 1. Inventory

| Component | State | Operations | Interacts with |
|---|---|---|---|
| Configurator, `pkg/authenticator/jwt/config/configurator.go` | mutex, current authenticator with its cancel function, hash of the configuration it was built from | `Run` (first load, then starts the watch), `handleConfigChange`, `TokenAuthenticator` | called by the watch goroutine and by every request; builds OIDC authenticators |
| File watch, `.../pkg/util/filesystem/watchuntil.go` | fsnotify watcher (or a no-op), `attemptPeriodicRewatch`, ticker | one goroutine: `Add`, then ticks, events, errors | calls `handleConfigChange`; races whoever edits the file |
| JWT authenticator, `pkg/authenticator/jwt/jwt.go` | none of its own | `AuthenticateToken` | obtains the authenticator under the mutex, uses it without |
| OIDC authenticator, `oidc.go`, `oidc_patch.go` | verifier (atomic), health | `New` (starts a discovery goroutine), `AuthenticateToken` | lifecycle context of the configurator; issuer's discovery and keys |
| Union, `.../token/union/union.go` | none | asks every authenticator in turn | |
| External claims resolver, `pkg/oidc/externalclaims/resolver/resolver.go` | none; the claims map of the request | `ExpandClaims` | token getters, external sources |
| Token getters, `pkg/oidc/externalclaims/tokengetters` | oauth2 token cache of a client-credential source | `GetAccessToken`, first fetch on construction | token endpoint |
| Distributed claims, `oidc.go` (`claimResolver`, `asyncIDTokenVerifier`) | a verifier per issuer | `expand`, `resolve` | endpoints a token names |
| Webhook handler, `pkg/handlers/authenticate.go` | none | `ServeHTTP` | |
| Server and commands, `pkg/server`, `pkg/cmd`, `main.go` | listener goroutine and the channel for its error, context of the command | `Serve`; `run` starts the first load and the server together | a failed first load, or the return of `Serve`, ends the process |
| Validation, `pkg/apis/authentication/validation` | none | pure rules over a configuration | called by the configurator; assembly relies on them |
| API types and conversion, `pkg/apis/authentication` | none | decoding and two conversions of a configuration | called by the configurator and by validation |
| Assembly, `pkg/oidc/oidc.go`, constructors of resolver and token getters, `pkg/oidc/externalclaims/cel` | none | `New`, `NewResolver`, `NewClientCredential` | called by the configurator during a reload |

What is hard here: a reload is a dozen steps under one mutex, some of them
network calls, next to requests that keep what they obtained from before the
reload; contexts must be cancelled exactly when nobody is given them any more;
the watch can lose its inode, its events or itself; a reload can fail at any
step and nothing but the poll retries it; and an external source can fail at
any of half a dozen places in the middle of deciding a token. Reviews share
token caches and mutexes with each other and with reloads, so one endpoint that
hangs delays them all. And a configuration passes through an unsafe cast, a
second conversion, validation in another package and an assembly that skips
what it does not expect. `PROJECT.json`
lists these hazards at their lines, with the properties aimed at them.

What makes each component correct: the configurator never hands out an
authenticator that is cancelled, half built or made from rejected content,
leaks nothing and keeps serving (`Configurator`, `HotReload`); the watch never
relies on a watch that is gone and never sleeps over a change (`WatchUntil`);
together they bring a valid file into force (`ConfigReload`); a source
contributes wholly or not at all, and an outage changes nothing else
(`JWTAuthenticator`); what validation accepts is assembled, with nothing lost
(`LoadConfiguration`); and a review gets the verdict of its issuer's
authenticator, within a bound, from a process that drains before it says it has
(`TokenReview`).

## 2. Modules

### WatchUntil

One process, the goroutine of `WatchUntil`, as a loop with the positions
`start`, `add`, `handler`, `returning`, `select`; one action per case of the
`select` and per step before it. `Rewatch` is the `Remove`/`Add` pair. The
handler is seen as a read of the file some time after it is called. The
environment writes in place, renames over, removes and creates the file, and
swaps the symbolic link of a mounted ConfigMap, where the watched inode
outlives the path that named it (`armed = "orphan"`). The kernel queues events
or, when the queue is not empty, may drop one and queue an error. Events form a
set of kinds: a second identical event adds nothing, as the loop reads the file
afresh for each. Adding a watch may fail at any time.

The loop rewatches only if the name in the event equals the path it was given
(`watchuntil.go:126`). fsnotify cleans names, and nothing cleans the value of
`--config`: the variable `path`, chosen once and for all, says whether the two can be
equal. If not (`./config.yaml`), an event that dropped the watch calls the handler and
does no more, and from then on only the poll sees changes.

The `ctx.Done` cases have no action: `main` passes a context nobody cancels, and the
watch is only ever started with that one. `TokenReview` does model cancellation,
because `Serve` takes its context from its caller and promises something when it ends.

### Configurator, HotReload

`Configurator` has three kinds of process: the configuration goroutine
(`Lock`, `ValidateFails`, `Unchanged`, `Changed`, `BuildJWT`, `BuildFails`,
`BuildDone`, `CancelOld`, `Install`, one per step another process can tell
apart), a goroutine per request (`Arrive`, `TokenAuthenticator`, then
`NotInitialized`, `NoAuthenticator`, `VerifierNotInitialized` or `Dispatch` and
`Verify`), and a discovery goroutine per issuer of each authenticator
(`FetchProvider`, `SetVerifier`). The environment edits the file and takes the
token endpoint up and down.

Abstractions: a content is its own SHA-256 hash (no collisions); reading the
file is atomic; which contents validate is the constant `Valid`; the only
build failure of a valid configuration is a token endpoint that does not
answer; the JWT authenticators are built in any order rather than in the list's;
the outcome of verifying a token is open, except that `contextCancelled` needs a
cancelled context. Authenticators are heap cells, reused once nothing
refers to them, so the number of reloads has no bound.

`HotReload` is the abstract specification: one configuration in force, which
only becomes the valid content read last; a request takes what is in force when
it asks and is decided by it alone; only a configuration that lists the token's
issuer accepts it. `Configurator` instantiates it with `serving` as the
configuration of the current authenticator and `snapshot` as that of the one a
request holds (`KeepsPromise`).

### ConfigReload

Extends `Configurator` and instantiates `WatchUntil` over the same file. The
call of the handler (`FirstCall`, `EventCalls`, `TickCalls`) is one step of
both modules, and so is its read of the file (`HandlerReads`); the watch loop
goes on when `handleConfigChange` has returned (`HandlerReturns`).

### JWTAuthenticator

`AuthenticateToken` after verification, for one token: distributed groups
claim, then `ExpandClaims` of one source after the other over one claims map
(`NotWanted`, `NoAccessToken`, `NoURL`, `NoResponse`, `Merge`), then `Decide`
with the mappings and rules (`MapClaims` and the `Get...` operators). Requests
do not share claims, so one request is enough. A claim is absent, malformed
bytes, a string or another JSON value; a CEL expression is the claim it refers
to and what it asks of it. `Quote` is what `%q` does: most strings become JSON,
those in `Unquotable` do not. `Fail` is where every failure of a source ends: the
error is logged and the next source has its turn. Prefixes of usernames and groups, and the text of
errors, are left out.

### LoadConfiguration, Validation, Conversion, AuthenticationTypes, V1alpha1Types

What `Configurator` takes as the constants `Valid`, `IssuersOf` and
`ClientCredential`: one configuration from the decoded file to the union of
authenticators.

`AuthenticationTypes` and `V1alpha1Types` list the fields of each struct in
memory order with their Go types. `Conversion` has the generated conversion,
which casts the list of authenticators through `unsafe.Pointer`: `As` gives each
field of the target what lies at its place in the source, and `Garbage` where
the types differ. The generated conversions of the nested types are registered
but nothing calls them. It also has `ConvertAuthenticationConfiguration`, field by
field, to the types of the API server.

`Validation` has one operator per function of `validation.go`, and of the API
server's validation it calls, TRUE where the code returns no errors. A string is
a member of a set of classes that the rules tell apart: which strings are
certificates, host names, paths, URLs, which match a regular expression, which
compile as CEL over which variable and with which result. The text and the path of
errors are left out.

`LoadConfiguration` starts from any file (`Files`, restricted only by Go's
typing) and has an action per step: `Load` (decode and convert), `Accept` or
`Reject`, and for each authenticator `IssuerCA`, `BuildExpander` per source or
`FirstFetchFails`, and `NewAuthenticator`, then `Built`. The constructors that
`BuildExpander` calls are operators that return the set of what they can
construct: empty stands for an error.

### TokenReview

The process in time. `loader` is the goroutine of `Configurator.Run`, which holds
`mu` while it builds; each review goes through `ServeHTTP`, `TokenAuthenticator`,
`Union`, and for the handler of its issuer, source by source, `NotWanted`,
`NoFetch` or `GetAccessToken`, `Do`, and at last `Decide`; `Serve` has an action
per case of its `select` and per step of the shutdown. What external code does is
modelled from how padlok uses it: `sync.Mutex` with its two modes (a newcomer may
overtake a waiter until the waiter has waited 1 ms; then the mutex is handed over
in order), oauth2's reuse of a token until `expiryDelta` before it expires, with
the mutex held during a fetch, and the connections `http.Server.Shutdown` waits
for.

`Tick` is half a second. It happens only when nobody can go on at once: reviews
wait for a mutex, for a token endpoint (2 ticks at most) or for a source (1 tick
at most), and `Serve` has nothing to do (`ServeReady` collects the guards of its
steps). `waited` is the time the review
`Observed` has spent where it is. Reloads here fail or find the file unchanged,
because swaps are the subject of `Configurator`; a swap gives later reviews token
sources of their own, which makes queues shorter. A reload that takes time builds
another configuration than the one served, as an unchanged file ends it before the
build (`configurator.go:117`). How long it may hold `mu` is therefore that of any
configuration validation accepts: `BuildTime` counts `maxTokenSources`, the
client-credential sources a file can have, and only `FirstLoad` counts those served. Keys of issuers are taken to be
cached, so `InTime` is about what padlok adds to verification.

## 3. Runs

| Run | Instance | What it shows |
|---|---|---|
| `watch_until` | 3 contents, both kinds of path | `NeverUnwatched`, `NoMissedChange`, and under fairness `EventuallySeen` |
| `configurator` | 2 contents, 2 issuers, 1 request slot, 3 cells | `HandsOutLive`, `NoLeakedContext`, `SuccessServesLoaded`, `FullyBuilt`, `KeepsPromise` |
| `configurator_live` | as above, 1 issuer | `EveryRequestAnswered` |
| `config_reload` | 2 contents, 1 issuer, no requests, both kinds of path | `SettledServesFile`, `EventuallyServed` |
| `jwt_authenticator` | 3 claim names, 3 strings, 70 configurations | `WholeSources`, `OutageLeavesTokenAlone`, `GuardPreventsOverride`, `FailuresStayLocal` |
| `load_configuration` | 5271 files of up to 2 authenticators and 7 sources | `AcceptedBuilds`, `NoRuleLost`, `SourcesComplete`, `ClaimNamesDisjoint`, `IssuersDistinct`, `WithinBudget` |
| `token_review` | 2 reviews, 2 authenticators, 1 client-credential and 1 request-provided source, 3 issuers; files of up to 2 client-credential sources | `FreshToken`, `InTime`, `VerdictStands`, `Drained`, `ServeReturns` |

Why the bounds suffice. `watch_until`: the loop remembers one content, the file
holds another, and a third lets the file change back. `configurator`: the first
configuration needs no token endpoint, the second keeps its issuer and adds one
that does, so a build can fail after its first half; three cells are the one in
use, the one being built and one held by a request. Requests do not interact
with each other except through a mutex that they hold for one step, and the
proofs cover any number of them. A missing file stands for all content that does
not validate: the code treats both alike. `View` hides what a garbage cell
held: no guard reads it before `Changed` has overwritten it, so states that
agree on the view have the same behaviours; permuting the cells is a symmetry,
used for safety only. `config_reload` leaves requests out because nothing in the
configuration goroutine depends on them except the mutex, which they always give
back. `jwt_authenticator`: two sources are what cross-source effects
take, and one source with two mappings what partial failure takes. The run may
stop (no deadlock check): a decided token is the end of the behaviour.
`load_configuration`: the files are a valid one and departures from it: the
fields of an authenticator one at a time, those of two sources in pairs, each with
a value of each class, each list at and beyond its limit, and repeated names within
a source, across sources and across authenticators; loading ends, so deadlock is not
checked. `token_review`: two reviews are what it takes to
queue, to overtake and to share a token; the timeouts of the two clients are the
real ones in ticks of 500 ms. `expiryDelta` is 1 tick where oauth2 has 20, with
tokens that live 3, and `shutdownTimeout` 2 where the code has 60: both outcomes of
a shutdown, and expiry during a wait, happen within them. Deadlock is checked: a
process that has exited stutters, and anything else that stops, time included,
would be reported.

Fairness. Goroutines are scheduled and every network call they wait for has a
client timeout (weak fairness of their steps). The ticker of `WatchUntil` is
one of several ready cases of a `select`, which Go picks at random, hence strong
fairness of `Tick`. A request that waits for the mutex gets it although reloads
take it again and again, because a Go mutex goes into starvation mode after
1 ms: strong fairness of `TokenAuthenticator`. Nobody is assumed to edit the
file, to bring the token endpoint up or to send a request.

What the two runs on loading and on time show in numbers. `WithinBudget`: the
timeouts of five sources with client credentials add up to 7.5 s, which is within
the API server's 10 s, though not within the 5 s that the comment of
`externalSourceRequestTimeout` (`resolver.go:54`) counts on, as it does not count
the token fetches. `InTime` is tight: a review can wait for two builds, each of
2 s per client-credential source of the configuration that is being built, because a
new token source tries each fetch twice, and then at each such source for `K + 1` fetches of 1 s, where `K` is the number
of reviews in flight, since a fetch that fails is not remembered and the request's
own context is not used. With a few reviews and a hanging token endpoint this
exceeds 10 s: the API server gives up, and padlok goes on. The limits of validation are
64 authenticators of 5 sources, so `maxTokenSources` is 320 in the program and the bound
on one build 640 s; the run has 2, one more than are served, so that a reload may take
longer than the first load did.

`ServeReturns` is bounded response, not liveness: at once when the listener
fails, within the shutdown timeout when the context is cancelled. In the program
as it is the context is cobra's background context, which nothing cancels, so the
graceful shutdown is reached only by callers that pass another one.

Disagreements between the code and what its comments or documents say; each is
a run that TLC refutes:

- `no_use_after_cancel`: a request that obtained the old authenticator verifies
  with it after the reload cancelled its context (`configurator.go:130`), which
  `oidc.go:272` forbids; if it needs a key that is not cached, a valid token is
  rejected.
- `valid_is_swapped_in`: a valid configuration is not swapped in while the token
  endpoint of one of its sources is down (`docs/authentication-configuration.md:60`).
- `unavailable_is_not_rejected`: with the documents' own mapping of sourced
  groups, an unavailable source gets the token rejected
  (`docs/external-claims-sources.md:24`). `OutageLeavesTokenAlone` is what does hold.
- `conditions_see_token_claims`: conditions of a later source see the claims of
  earlier ones (`docs/cel-expressions.md:15`).
- `merged_claims_decode`: `%q` is not JSON for every string, and such a claim
  cannot be decoded (`resolver.go:386`).

One more has no run of its own, since it appears as an exception in properties that
pass: "Try to re-establish the watcher for events which dropped the existing watch"
(`watchuntil.go:125`) is not what happens when `--config` is not a cleaned path.
`NeverUnwatched` is about cleaned paths only, `NoMissedChange` leaves out a watch that
was lost on an uncleaned one, and `SettledServesFile` requires that the path is
watched or is cleaned. `EventuallySeen` and `EventuallyServed` hold for both kinds: the
poll is what makes up for it.

Every property of a passing run has a mutant: an operator named after the
definition it would replace, marked "Wrong:", which changes it the way a
plausible bug would and breaks the property.

## 4. Proofs

`ConfiguratorProofs` proves, for any contents, issuers, requests and cells that
satisfy `ConfigurationAssumption`, that `Configurator` keeps `TypeOK`,
`HandsOutLive`, `NoLeakedContext`, `FullyBuilt` and `SuccessServesLoaded`, and
that it implements `HotReload` (`HotReloadPromise`).

`HandsOutLive` speaks only of states where the mutex is free, but it is broken,
if at all, by steps taken while it is held. The inductive invariant `IInv`
therefore says what holds in between:

- `MutexHeld`: the mutex is held exactly from `validate` to `install`;
- `BuiltIsPrivate`: the cell being built is neither in use nor held by a
  request, and has the configuration just read, a live context, and only that
  configuration's issuers (all of them once the build is over);
- `ActiveInForce`: the cell in use is complete, has the configuration of the
  stored hash, and is live except between `CancelOld` and `Install`;
- `RequestSteps`: what a request holds at each of its steps;
- with `TypeOK`, `NoLeakedContext`, `FullyBuilt` and `SuccessServesLoaded`.

The induction is one lemma per group of conjuncts, each with one step per action
(`NextTypeOK`, `NextBuilt`, `NextActive`, `NextContexts`, `NextHeld`).
`NoLeakedContext` needs that a failed build cancels the cell under construction
and that `Install` follows `CancelOld`; `FullyBuilt` needs that `Changed` only
takes garbage cells. The refinement maps `Changed`, `Unchanged` and `ValidateFails`
to `Read`, `Install` to `Serve`, `Arrive` to `Ask`, `TokenAuthenticator` to `Take`,
every answer to `Decide`, and all the rest to stuttering.

`ASSUME HeapAssumption` is not used by the proofs; it is what keeps `Changed`
enabled, which the liveness runs need.

`LoadConfigurationProofs` proves all seven properties of `load_configuration` for
every file that Go's types allow (`FilesAssumption`), of any length, and for any
classes of strings. The argument has three layers:

- `AsIdentity` and `SameLayout`: a cast between structs with the same fields in the
  same order is the identity, and the two versions have the same fields in the same
  order, struct by struct; so `ConversionUnchanged`: loading gives what the file
  says. `RulesPreserved` then needs only that the second conversion copies
  each field.
- `ValidSourceHasExpander`: a source that `validateExternalClaimsSource` accepts gets
  exactly one resolver, the one `SourceComplete` describes. This is where validation
  and assembly, which share no code, are shown to agree: no condition or mapping
  is skipped, no expression fails to compile the second time, no bundle of
  certificates is refused.
- `Invariance`: the inductive invariant relates where loading is to what has been
  built: what is past `validate` has been accepted (`Accepted`), the lists are no
  longer than the file's (`Position`), each resolver was built from the source
  at its index (`BuiltFrom`) and each authenticator is the conversion of the file's
  (`JWTsMatch`). `NamesDisjoint`, `OneAuthenticatorPerIssuer` and `BudgetKept` then
  follow from what validation says of the whole file.

`WatchUntilProofs` proves `TypeOK`, `NeverUnwatched` and `NoMissedChange` of
`WatchUntil` for any set of contents, the first for a cleaned path and the others with
the exception of section 3. `NoMissedChange` speaks of the waiting loop and
is not inductive: a change may come between the handler's read and its return, and
is not reported when the path is not watched. `WatchInv` therefore adds
`ReadIsFollowed`, the same promise from the read on, and `WatchedExists`, a watched
path names a file, so that nobody creates it unnoticed; `NeverUnwatched` covers the
watch that is gone. `RewatchResult` is the one fact about `Remove` and `Add` that the
steps of the loop need.

`JWTAuthenticatorProofs` proves the five invariants of `jwt_authenticator` for any
claim names, values and configurations that satisfy `ConfigurationsAssumption`, with
any number of sources. That no two sources of an authenticator map the same claim is
an assumption here and `NamesDisjoint` in `LoadConfigurationProofs`. `ClaimsInv` adds
`NothingYet` (before the expansion the claims are the token's) and `Decided` (after it the
result is what the claims map to, unless a distributed claim could not be looked up).
The crux is `MergeKeepsClaimsInv`: as mappings are disjoint, what a guarded source finds
absent no other source has written, so the token lacked it too. `FailuresStayLocal`
(theorem `FailuresAreContained`) says that a source whose conditions are about no claim
of another source is consulted exactly if the token meets them, whatever became of the
sources before it. It rests on `WantedSame`, conditions see only the claims they are
about, and `IndependentSeesToken`, by `WholeSources` nobody has written those.

`ConfigReloadProofs` proves that the composition implements both its parts
(`ImplementsWatch`, `ImplementsConfigurator`): `handleConfigChange` is a handler as
`WatchUntil` expects one, and the watch calls it as `Configurator` allows. What is
proved of each part therefore holds of the whole, and `SettledServesFile` follows from
one property of each: a waiting watch that has not been lost for good, with nothing to report, has seen what
the file holds (`NoMissedChange`), and a reload that succeeded serves what it loaded
(`SuccessServesLoaded`). What joins them is `Coupled`: where one goroutine is when the
other is at a given place, and that what the loop has `seen` is what the configurator
has `loaded` from the moment the handler has read. Neither part knows this, and without
it the two properties speak of different reads.

`TokenReviewProofs` proves `TypeOK`, `FreshToken`, `VerdictStands`, `Drained` and
`ServeReturns` of `TokenReview` for any finite number of reviews and any
authenticators, sources, issuers and shutdown timeout. `Inv` has three parts:

- `LocalInv`, of each review by itself. `Place`: where in the configuration it is, so
  that a review that fetches does so at a token source. `Verdict`: no review in flight
  has been accepted, and one that is past handler `a` without an error was not `a`'s to
  decide; this is what `VerdictStands` needs at the end of the union. `Timers`:
  no client waits beyond its timeout, and a token that is in use lives longer
  than the timeout of a source, which gives `FreshToken`.
- `QueueInv`, of each mutex: the queue is without repetition and does not contain the
  holder, a starving mutex has a queue and a holder (`Sound`); who queues waits, the
  holder is in its critical section or is waiting and was handed the mutex, and nobody
  else waits or is inside. Without the last part `Unlock` could hand the
  mutex to a review that has gone on, or forget one that waits. The lemmas about
  `Lock`, `Enqueue`, `Unlock` and `Woke` are stated once for any mutex, and an action
  has to say only what its review sought before and seeks after.
- `ServeInv`, of `Serve`: a listener that has returned has its error in the channel
  until `Serve` returns, so that `Serve` never blocks on it, and from `receive` on no
  review is in flight.

`TokenReviewTimeProofs` proves `InTime` on top of that. That a bound on waiting holds
is not inductive at all: what a review has waited says nothing of what is still to
come. `TimeInv` says that the two together stay within the limit (`Due`): what it has
waited, what is left of the holder's time (`Left`), what those ahead of it in the queue
may take (`Ahead`), its own turn, and, until the mutex is handed over in order, the turn of
one newcomer (`Grace`). One newcomer is enough because queues are `Ordered`: if anyone
in a queue has waited for a tick then its head has, and the next one who overtakes
it sets `starving`. A tick moves one unit from `Left` to `waited`, and every other step
keeps the sum or lowers it. When a review joins a queue the sum is at most the limit
because a queue has no more places than there are other reviews (`QueueIsShort`, by the
pigeonhole principle), and because at `mu` only the configurator takes time, `BuildTime`
at most.

The assumptions: the authenticators have distinct issuers, which is
`OneAuthenticatorPerIssuer` of `LoadConfigurationProofs`; a token lives longer than
the 500 ms that a request to a source may take, as token endpoints count lifetimes in
whole seconds; `expiryDelta` (10 s in oauth2) is no shorter than that either; no
configuration has more than `maxTokenSources` sources with client credentials, the one
served included; reviews are finitely many.

Only model-checked, as it is out of the prover's reach: liveness under fairness
(`EventuallySeen`, `EveryRequestAnswered`, `EventuallyServed`).

## 5. Not modelled

Signature verification and the caching of keys; evaluation of CEL and its costs;
metrics, health checks and logging; the HTTP and TLS layers and their options;
flags; scheme registration, deep copies and the generated conversions that nothing
calls; the `ctx.Done` case of the file watch. Distributed-claim verifiers appear
only as a lookup that may fail. One difference between a document and the code has
no run: a host name of more than 253 characters is accepted although
`types.go:506` and `docs/external-claims-sources.md:100` limit it; the classes of
`Validation` do not carry lengths of host names.

## 6. Plan

Done: the hot-reload and the decision of a token first, as everything else hangs on
them; then loading and validation (which replace the constant `Valid` of
`Configurator` by rules), and the process in time; then proofs of every safety
property, and that `ConfigReload` implements both its parts. Left:

1. What one step may never do, as theorems: a reload never replaces the authenticator
   in use before its successor is complete, a cached token is never replaced by one that
   lives shorter except by a fetch, a mutex is never taken from its holder.
2. That the part of `TokenReview` which decides refines an abstract union: one verdict
   per review, of one authenticator.
3. Polling of the verifiers of distributed-claim issuers, and key rotation during a
   swap.
