# A specification of mcp-portal

mcp-portal serves the operations of HTTP and GraphQL upstreams as MCP tools.  This
directory holds TLA+ modules for the parts of it whose correctness depends on the order
in which things happen, the TLC configurations that check them on small instances, and
proofs that TLAPS checks for every instance.  Paths below are relative to
`src/mcp_portal/` unless they say otherwise.

## The system

One process, one asyncio event loop.  A *tool call* arrives from the MCP SDK
(`server/stdio.py`, `server/http.py`) and runs through

    policy decision -> credential (token cache, IdP) -> request -> retry loop -> result
    policy.py          auth/outbound.py,               transports/             server/mcp.py
                       auth/token_cache.py

Code between two `await`s that suspend runs without interruption, so concurrency is
exactly the interleaving of such stretches of the calls under way, plus what the outside
(IdP, upstream, client, clock) does in between.  That is the grain of every concurrent
module here: **an action is what one task does from one suspension to the next.**

Before it takes calls the process runs through

    load_config -> introspect each upstream, resolve its references -> build_app -> serve
    config/        introspect.py, sources/                             app.py, registry.py

which is sequential: its hard parts are what the files and documents may hold, and that
both may change while the process goes on with what it has read.

| Component | State it keeps | Operations | Hard parts | What makes it correct |
| --- | --- | --- | --- | --- |
| Token cache, `auth/token_cache.py` | entries and locks by key | `get_or_fetch`, purge | waiting for a lock, a fetch that fails or is cancelled, a purge from another key's fetch | locks are given back and handed on; a token stays with its key; calls for one key do not fetch side by side |
| Outbound credentials, `auth/outbound.py` | none (one cache per process) | `get` of static, client credentials, token exchange | callers and operations share the cache | the token sent was minted for this upstream, these details, this caller |
| JWKS cache, `auth/inbound.py` | keys by kid, time of the last refresh, a lock | `key_for` | a slow, failing or malformed answer; key rotation | one refresh at a time, one per interval; a published key is found |
| Token verifier, HTTP server, `auth/inbound.py`, `auth/principal.py`, `server/http.py` | the resolved verifier | discovery, lifespan, `verify_token`, principal of a request | a request suspends for a key while others run, time passes or the server shuts down; malformed claims and metadata | no principal without a valid token; a bad token is refused and does not make the server fail (but see Findings); a start ends |
| Retry loops, `transports/` | per call: attempt, start time | `execute`, `wait_for_retry` | lost and late answers, Retry-After, budget | an action is applied at most once; a call ends, and within its budget |
| Policy, `policy.py`, `auth/rar.py` | none | `evaluate` | overlapping rules, partial coverage | all matching rules count; grants do not add up |
| Tool invocation, `server/mcp.py`, `app.py` | none | `ToolInvoker.call` | a decision is used after suspensions | only entitled calls reach a source or an upstream |
| Registry and naming, `registry.py`, `naming.py` | the tool set | `build_toolset`, `generate_names` | collisions; rules that build on one another; clients that remember names over a restart | a remembered name reaches what it reached or nothing; `introspect-safe` exposes only what is safe by the operator's last word |
| Configure, `configure/`, `cli.py` | the config file and the policy file | survey, reconcile, write, over many runs | a run declined or cut between the two writes; upstream documents that change | an operation does not open, and a hand-written rule does not go, without an answer to that effect |
| Configuration, `config/` | none | `load_config` | guards across fields and across upstreams | what could only fail at a call fails at the start |
| Sources, `sources/`, `introspect.py` | base URLs and operations found so far; the resolver's memo and chain | documents to operations | `$ref` cycles and diamonds, argument name collisions, types that recur | each argument goes out once or the call is refused; each node is walked once, only recursion is cut, the result is finite; selections are whole |

## The modules

| Module | Stands for | Its state and actions in the code |
| --- | --- | --- |
| `AsyncioLock` | CPython's `asyncio.Lock`, external, as far as `async with lock` and `lock.locked()` go | a lock is its flag and its queue of (task, future); `Release` clears the flag and wakes the head, `Resume` is the woken task taking the lock, `CancelWait` and `Abort` are the two halves of a cancellation |
| `TokenCache` | `TokenCache` | `entries`, `locks` are `_entries`, `_locks`; `lock` the Lock objects by identity, since a key's lock may be dropped and made anew while a task still holds the old one; `pc`, `req`, `mine` the suspended calls of `get_or_fetch`.  `Hit`, `Miss` start a call, `ResumeHit`, `ResumeMiss` are a woken waiter's second look, `FetchReturns`, `FetchFails` end a fetch, `Cancel`, `Aborts` a wait |
| `JwksCache` | `JwksCache` | `keys`, `age`, `lock` are `_keys`, the time since `_last_refresh` and `_lock`.  Times are kept as ages up to the interval: the code only compares distances with it.  `published` and `last` are the IdP's and the observer's |
| `Transport` | `HttpTransport.execute` and `GraphQlTransport.execute` (the same loop), `transports/common.py` | `attempt`, `spent` are the loop's counter and `time.monotonic() - started`; `stage`, `operation`, `clock` say what the call awaits and since when.  `Start` to `Wakes` are the loop, `Applies` and `Proceeds` the upstream and the network |
| `Expiry` | the lifetimes worked out in `auth/outbound.py`, on top of `Transport` | `life`, `kept`, `subject` are what is left of the token at the IdP, of its cache entry (`time.monotonic`) and of the caller's token; `behind` is how wrong `time.time` was when the entry was made.  `StartsCached` and `StartsFetched` are a call's start with either kind of token, `Loops` the transport's own steps |
| `KeyService` | what `key_for` promises its caller | abstract: `known`, the kid `asked` for, the answer `got`; implemented by `JwksCache` (`Keys == INSTANCE KeyService WITH known <- keys, asked <- kid`), used by `Inbound` |
| `Inbound` | `_InboundVerifier`, `JwtTokenVerifier`, `discover_jwks_uri`, `_principal_for_request` | `phase`, `location` are the lifespan and how far discovery has got; `bearer`, `stage`, `outcome` each request.  `Starts` to `ShutsDown` are the lifespan; the `Arrives...` actions a request up to its first suspension, `Resumes` what follows the key, `Calls` the tool call.  Extends `KeyService` |
| `Policy` | `rar.covers`, `PolicyEngine.evaluate` | operators; a rule is a record of its match, the details it requires and its carry flag |
| `CallPath` | `ToolInvoker.call` over all of these | composes `TokenCache` and `Transport`: each of its steps is a step of one of them, or of both where a credential arrives and the first attempt goes out without a suspension in between |
| `Lists` | a filtering list comprehension | `Where(s, Test)` is `[x for x in s if Test(x)]`, by the ranks of the places kept instead of by recursion, so that it can be proved about |
| `Configure` | `configure` runs: `cli.py` `_run_configure`, `configure/` | `entries`, `linked` are the config file's `operations[]` and whether its `policy` refers to the policy file, `policyFile` that file; `document` what introspection finds.  `Run` is everything up to the first confirmation (load, survey or reconcile with any answers, render), `WritePolicy` and `WriteConfig` the two confirmed writes, `Stop` a declined one or a kill; `DocumentChanges` and `EditPolicy` happen between runs |
| `Interface` | `sources/flatten.py`, `build_request`, `build_graphql_request` | what a binding is (`operations.py`), and operators over bindings: what makes a binding unusable, argument names, the schema's names, where each argument goes in the request |
| `Selection` | `sources/graphql_selection.py` | `FieldsFor` is the recursion, a function on paths of types; `Reference` says without recursion which selection is wanted: for every path of types that meets none twice, the sequences of fields that lead down it |
| `Refs` | `RefResolver` (`sources/refs.py`) | the recursion of `_walk` is the `stack`, `done` the memo in the order of its entries, `cut` what became an open object; `Cuts`, `Reuses`, `Raises`, `Enters`, `Leaves`, `Returns` are the ways a `$ref` or a node ends |
| `Catalog` | the sources' filters, `merge.py`, `classify.py`, `registry.py`, `naming.py` | operators from documents and config to the named tools |
| `Startup` | `load_config`'s guards, `introspect_upstreams`, `build_app`, `ToolInvoker.tools` and `call` up to the request | `world` is the files and documents as they are, `config`, `documents`, `bases`, `found`, `served` what the process has made of them, `listed`, `answer` the client's side.  One action per upstream and way of introspection, `Resolves` for the steps of `Refs`, `Exits` for every error |

`MC...` modules give TLC its constants; `...Proofs` modules hold the theorems, and `Lemmas`
what several of them use.
Operators introduced by a comment "Wrong on purpose" are not part of a specification:
each is a definition with a plausible bug, put in the place of the right one to see that
a property notices.

### Abstractions

* Tokens are known by the request they were minted for, so "the wrong token" is visible.
* `hash()` in the cache keys is taken to tell values apart, and carried details are a set:
  the code's key also depends on their order, so it may fetch once more than the model,
  never share more.
* Response bodies are left out.  Names of arguments, headers and placeholders are in
  `Interface`.  Of the values of arguments it keeps the kinds that make a difference to a
  request (`Value`: an empty text, a line break, an empty list, any other), and in the
  request an argument is known by its name.  `EveryArgumentArrives` ends at the request that
  `build_request` returns; in `CallPath`, that none can be built (`RequestBuildError`) is a
  choice.
* A name is a sequence of words (`Catalog`), its cap counts words, and a hash is a word no
  other text has: six hex digits are taken to tell ids apart, as the cache keys' hash is.
  Several ids may normalize to the same words; an id that is its own normal form (`Normal`)
  is the text of its name, so that `_cap` hashes the same text as `_suffix` there (`Text`).
* `WellFormed` is what pydantic and the readers of documents have seen to before the first
  action of `Startup`: lists are finite, operations have ids and bindings.  No argument's
  name is the credential or the body's content type (`Name`): these two are values, which
  `Interface` tells from arguments by their name.
* A GraphQL type that is not defined has no fields (`Eligible`): the code raises there,
  which is `Selectable`.
* A document is what the code makes something of: operations with their bindings, fields
  with the types they return, the graph of its references.  The references' outcome does
  not change the operations: schemas are not part of the model.
* A GraphQL selection is a set of paths, so that its order and layout are left out.
* In `Inbound` a token is a record of what each check asks of it, and its own principal.  An
  `alg` that is a list or an object, which Python cannot hash, is the value `Unhashable`.
  PyJWT is taken to answer or to raise its own errors, and published keys to be well formed.
* In `JwksCache` a refresh that crashes does so with an answer, some of whose keys may have
  been stored.  A crash straight out of the HTTP client leaves the same state as an answer
  of whose keys none was stored, and is not told apart; nor is a lookup cancelled.
* In `Expiry` a task stands for one cache key and its calls follow one another; a fetch is
  one step that takes its time off the lives it concerns.  How the caches and locks behave
  under concurrency is `TokenCache`'s.
* The event loop is never late: time stands still while a timer is due (`Transport`).
* In `Configure` an operation is what `configure` compares, groups by and matches; its
  binding survives a write and a load.  Documents and configs name an operation once: the
  server refuses others when it merges (`sources/merge.py:26`, `registry.py:112`).  A file is
  written whole.  A YAML file that the config does not refer to keeps its top-level keys that
  were not rendered, `defaults` among them, a JSON file does not (`RenderText`).  The policy file is the
  one the config refers to, or the default one beside it; `--policy` is left out, and so
  are id globs that happen to spell an operation's id.
* Backoff is in units of 2^attempt / 2 steps: 0..n+1 ticks for the two attempts a retry
  can follow.

## The runs

| Run | Question | Bounds, and why they are enough |
| --- | --- | --- |
| `token_cache` | do locks, wake-ups and tokens stay in order, and does every call end? | 3 tasks: one holds, one is woken or cancelled, one is behind it; 2 keys: one purges the other; 3 lock identities: two registered and a stale or a new one; a clock of 2 instants: a token expires or never does.  The safety properties are theorems, so the run's bounds are those liveness can afford |
| `token_cache_single_flight` (violated) | do concurrent calls for one key fetch once? | see Findings |
| `token_cache_orphan_lock` (violated) | do locks go with their entries? | see Findings |
| `jwks_cache` | one refresh at a time, rate limited, nobody turned away who should not be, an end to every lookup, and a published kid known in the end? | 2 tasks, one refreshing and one waiting; 2 kids, an interval of 2 ticks, so that a response can be late by less, just as much and more than it.  Safety holds for every value by the proofs |
| `jwks_cache_rate_limit` (violated) | one refresh per interval? | see Findings |
| `transport` | at most one application of an action, retries within the budget, an end; tokens that go out in time | one task, calls following one another; timeout 3, budget 9, two network operations per attempt, Retry-After 0, 4 and 9 with a cap of 5: at once, affordable only early, capped.  A tick is 10 seconds with the defaults, so the leeway is 6; tokens minted for less, just as much and more than it, callers' tokens likewise, clocks off by less and by more |
| `call_path` | only entitled calls, and the right credential, through the composition | 2 calls of 2 callers; two operations on a token-exchange upstream, one on a client-credentials and one on a static upstream; 2 policies (default deny; default allow with overlapping rules); 3 locks.  The view hides `got` and `applied`, which no action reads |
| `configure` | does what `configure` cannot express survive, and does no operation open unasked? | runs in any number, complete, declined or cut; a document of up to three operations: one that changes its binding or turns read-only, one that comes and goes, one GraphQL operation; five hand-written policies: rules by tag and by sensitivity, rules for an id that `configure` may and may not replace, one that carries and requires, one that only carries, both defaults |
| `inbound` | only verified callers call, as themselves; what of a token may make its request fail; a start and every request end | 2 requests, one suspended and one running; 2 keys; a good token for each and twelve with one fault each; a clock of 3 instants around exp and leeway; 4 configurations; every pair of metadata answers |
| `startup` | do stale names, arguments, wiring, safe mode, selections and references hold, over restarts? | six families of small worlds, each of which varies one thing and keeps the rest plain, because their product is far beyond a model checker (below) |
| `configure_unchanged` (violated) | are unchanged operations left as recorded? | see Findings |
| `configure_dropped` (violated) | is an entry only dropped when reported or declined? | see Findings |

The families of `startup`:

* *names*: two ids with the same words, one that spells another's suffix, two too long for
  a name (`MaxWords` is 3), declared names, prefixes, an excluded twin; the only family
  whose worlds are edited, all pairs of them, while a gateway runs;
* *bindings*: up to two parameters in path, query and header with plain and prefixed-looking
  names, every kind of body, placeholders that fit and do not; calls with at most two
  arguments that are not plain (`MaxUnusual`), since a value concerns its own parameter only
  and two can meet in one place.  In all families one call is under way at a time: building
  a request leaves nothing behind;
* *wiring*: every mode, transport, way of introspection, base URL, outbound kind and mix of
  HTTP and GraphQL entries over two upstreams;
* *references*: all graphs of three keys with up to two uses each below a document that
  uses two, and broken and external
  references under every consent;
* *selections*: all schemas of two object types with two fields, recursive, dangling and
  needing arguments;
* *classification*: up to two rules over what is read-only or not, sensitive or not, by
  document or by entry.

A gateway whose config does not load stays down, so the run does not check for deadlock;
the other runs do.

Fairness.  `TokenCache` and `JwksCache` assume that the event loop runs a scheduled task
(weak fairness of each task's own steps) and that a fetch ends, which the timeout of the
httpx client ensures.  No caller is assumed to call, and no clock to tick, except in
`JwksCache`, where `Recovers` needs time to pass and an IdP that, asked for ever, answers
well once (strong fairness of the answer and of the refresh it leads to).  `Transport`
assumes that time passes, that due timeouts fire and that sleeps end, and so does
`Expiry`.  `Inbound` assumes that the event loop goes on with startup and with scheduled
requests and that each call of `key_for` ends, which `EveryCallEnds` of `jwks_cache` shows
of the cache behind it.  `Startup` assumes nothing: it claims no liveness.

Refinement.  `jwks_cache` also checks that `JwksCache`, with its lock, clock and rate limit,
implements `KeyService` (`ImplementsKeyService`), which is all that `Inbound` knows of it.
`call_path` is built of `TokenCache` and `Transport`, `startup` of `Refs`; that the
compositions implement their parts is proved.

### Findings

* **Single flight can be lost** (`auth/token_cache.py:77`).  A holder releases: the flag is
  cleared and the next waiter scheduled.  Before it runs, another key's fetch returns and
  purges; the first key's entry has expired and its lock is not `locked()`, so the lock is
  dropped.  A third call makes a new lock and fetches beside the waiter.  This contradicts
  the module docstring (lines 6-8) and the comment at 74-76.
* **Locks without entries stay** (`auth/token_cache.py:67`).  A key whose fetch failed has
  a lock and no entry, and the purge goes by entries.
* **A malformed key set escapes** (`auth/inbound.py:92`).  Only `httpx.HTTPError` is
  caught: the request crashes, and the refresh does not count for the rate limit.
* **An unchanged operation can open** (`configure/write.py:174`).  A hand-written rule for one
  id that requires nothing and only carries (legal,
  `tests/test_config_policy.py:101`) is kept, and suppresses the operation's own generated
  rule (lines 163-175), which is dropped as `configure`'s: a run that asks nothing takes the
  requirement away, and under a default of allow opens the operation to callers without
  details.  `ClosedStaysClosed` excepts such rules, by its conjunct about `CarryOnly`.
* **GraphQL entries disappear** (`configure/reconcile.py:44`).  Skipped when decisions are
  reconstructed, they are missing from what is written and from the report of removals.

Found while modelling and proving, without a run of their own:

* An unchanged operation's requirement can be exchanged for another
  (`configure/reconcile.py:32`).  What is recorded for it is the first detail of all rules
  that match it; after a first run foreign rules precede its own, so a second run that asks
  nothing replaces what the operator answered by what the rule for its tag requires.  This
  breaks `UnchangedLeftAsRecorded` too, whose run stops at the finding above.
* A token whose header names a JSON list or object for its `alg` makes `verify_token` raise a
  `TypeError` (`auth/inbound.py:148`): a 500, where the docstring (lines 117-122) has `None`
  for a disallowed `alg`.  `ErrorsAreTheServers` names such tokens and holds of all others.
* Three kinds of values pass the schema and do not go out: an empty text for the path and a
  line break for a header refuse the call (`transports/http.py:94`, `:114`; both tested), an
  empty list that is exploded puts nothing into the query, even if the parameter is required
  (`:106`).  `EveryArgumentArrives` says that these are the only ones.
* A retry may outlive the budget (`transports/common.py:100`): the gate allows for one
  timeout, httpx applies it to each network operation.  `BudgetBoundsRetries` states what
  holds, with the excess: what one attempt lasts beyond one timeout.
* A garbled metadata document at the first location keeps discovery from the second
  (`auth/inbound.py:46`): `WellFormedMetadataIsFound` excepts it.
* A token may be over when a late retry sends it, by what the budget and its own way from
  the IdP exceed the leeway (`TokensGoOutInTime`): with the default timeouts by that way
  alone, with a larger `max_total_ms` by the difference.
* The docstrings of `naming.py` and `registry.py` say that naming runs after selection
  because the other order would let removing an operation rename another.  It is this
  order that does: hiding one of two twins gives the other the plain name.  What does hold
  is that a remembered name does not reach the other twin, `StaleNameReachesSameOrNone`,
  but for the exceptions it lists: an id that spells another's suffix, and an over-long id
  that is its own normal form, whose suffixed name is the plain capped name of the ids that
  normalize to it (`naming.py:72`).
* A body that requires a property it does not declare makes a tool whose every call fails
  (`sources/flatten.py:195`), and header parameters of one wire name overwrite one another;
  both load.  `EveryArgumentArrives` excepts them.
* `ClosedStaysClosed` is about operations the operator was not asked about, and excepts
  what the findings and the paragraph below say of it: GraphQL entries, changed operations
  that are now read-only, and operations with a carry-only rule of their own.
* `check_operation_headers` (`config/loader.py:117`) has no caller.

Allowed by `Configure` without a property against it: the policy file is written before the
config's diff is shown, so a declined config write can leave an operation exposed whose own
rule is gone (the README promises both diffs first); an operation that leaves the document
and returns is new, so the rule kept for it meanwhile is dropped unless asked for again; a
declined operation is proposed for exposure again by each run; re-confirming a changed
operation drops the actions of its requirement; a changed operation that is read-only loses
its own rule unasked, even one written by hand.

## The proofs

Every safety property that a passing run checks, invariant or action property, is also a
theorem, for any sets of tasks, keys, kids, requests, operations, callers, policies, tokens,
documents, hand-written files, worlds and graphs of references, and any intervals, timeouts,
lifetimes and budgets.  What is assumed of the constants is named in the module that
declares them, and TLC evaluates it on every run: times are natural numbers, the markers
(`NoLock`, `NoCall`, `NoDetail`, ...) are not among the values they mark, a request names its
key, an operation its effect, what is written by hand passes the loader, and the worlds are
well formed (`WellFormed`).  Only `ObjectType`, the upstreams and the lists in a file or
document are finite, as they are in the code.

### What they share: `Lemmas`

*Lists.*  `Ranks` and `FilteredHolds` say what a filtered list holds, `Joined` what a
concatenation does; `Sequenced` turns a finite set into a list.  With them the proofs speak
of the *elements* of rules, details and operations, and of order only where it matters.

*Induction.*  The library's induction theorems take an operator, which the provers cannot
instantiate.  `Inherited` says the same of a *set*: a set that holds 0, and each number up
to n if it holds the one before, holds 0..n (else there is a first number outside it, of
rank one among those outside).  Where a property can be put as a set comprehension this
gives induction over numbers, which is enough for the rules of a classification and,
counting down from the longest paths, for the recursion of `_fields_for`.

*Locks.*  About the lock alone: each operation keeps a queue *sound* (each task waits at
most once, and an unlocked lock that is waited for has its head scheduled).  The two caches
rest on it.

### The caches

* `TokenCacheProofs`.  The inductive invariant `IInv` adds to the type invariant that
  every lock is sound (`Sound`), that exactly the waiting tasks are in the queue of the
  lock they refer to, in the state their `pc` says (`QueuesOK`), and that a lock is held
  exactly by the one fetching task that refers to it (`HoldersOK`).  None of the safety
  properties is inductive alone: that a release frees the lock of nobody else needs
  `HoldersOK`, that a resumed task finds its future in the queue needs `QueuesOK`, and
  that a new Lock object is nobody's needs that both speak of the objects, registered or
  not.  Each action keeps `IInv` by one of four patterns (a call starts fetching, starts
  waiting, ends, or leaves the locks alone), each a lemma.
* `JwksCacheProofs`.  One lock, so the same invariant in a simpler form, and two facts
  about time: the observer's `last` is never older than what the code counts from
  (`LastOK`), which gives the rate limit, and a key published before the last good
  refresh was asked for is known (`SeenOK`), which gives `UnknownOnlyWhileNew`.  Also the
  refinement of `KeyService`, step by step.

### A call

* `TransportProofs`.  `Counted` ties the number of applications to the attempt of an
  action, which is never tried again once it may have been applied; `Funded` says that an
  attempt after the first was paid for out of the budget when it was decided on, which
  `BudgetBoundsRetries` needs at every later instant of that attempt.
  Then `Expiry`: its steps are the transport's or leave the transport alone
  (`LoopImplemented`), so `Counted` and `Funded` hold there too.  `Covered` says that a cache
  entry ends the leeway before its token, but for the token's way from the IdP, and before
  the caller's token by the clock it was made by; `Lasts` carries what was left at the start
  of a call through it, less the time it has spent.  What a retry has spent is bounded by
  `Funded`, and the difference is `TokensGoOutInTime`.
* `CallPathProofs`.  The composition implements `TokenCache` and `Transport`: each of its
  steps is a step or a stutter of both.  That a task is in one of the two at a time, and
  that what it awaits belongs to its call, is the invariant (`Fine`, `Stored`) from which
  `CredentialFitsCall` follows; `OnlyEntitledCalls` follows from the decision's own
  definition and from the policy and the call being constant while the call is under way.
* `InboundProofs`.  A request is judged in one step and calls in a later one: what the
  judgement found (`AuthorizedOK`), and what the header check found of a request that
  waits for its key (`VerifyingOK`), hold until then, because the configuration is fixed
  and keys are never unlearnt.  `SearchedOK` says that discovery goes on only from a
  location that holds nothing.  `ErrorsAreOurs` goes through the ways a request can end: what is
  refused by its header ends as refused unless its `alg` is `Unhashable`, what waits for a key
  fails only by the key cache, and a verdict on claims never fails.

### `configure`: `ConfigureProofs`

`CInv` holds between any two steps of any number of runs: the state is well formed, the
policy file loads (`FileOK`), and a decision still to be written stands for an unchanged
entry with what was found required of it, for an operation accepted as proposed, or for one
that was asked about (`DecidedOK`).  `Rendered` says what a written policy file holds: the
rules `configure` does not own, and one for each requirement decided on that no such rule is
about alone.  `BeyondConfigure` follows because what carries, or requires more than a type
and actions, is not owned.  For `ClosedStays`, a closed entry has a matching rule that
requires something, so the decision that stands for it has a requirement
(`ClosedRequires`), which is then written, or left out for a foreign rule that requires
something of that id (`DecisionCloses`).  The proof did not go through for rules that only carry, for the
reason given in Findings.  A written file loads whether or not it keeps an old default,
because the rules in it require something or were loaded under that default (`RenderedLoads`).

### The start: `StartupProofs`

* *References*, for every graph.  `ChainOK`: each key on the stack encloses those above it,
  so a use that meets its key there closes a cycle, which is `OnlyCyclesAreCut`.
  `FramesOK`: each use in a node being walked is still to come, cut, memoized, or the frame
  above; when nothing is left to come, the last two give `ResultIsFinite`.  `WalkedOK`: what
  was walked is on the stack or memoized, hence `WalkedOnce`.  That one node encloses another
  says every set closed under use that holds the one holds the other, so no induction over
  paths is needed.  A start is a behaviour of the resolver (`ResolverImplemented`), edits and
  restarts included, so all this holds of the gateway.
* *Upstreams.*  An upstream without a base URL is one still to be introspected as OpenAPI
  (`BasesOK`), hence `UpstreamsServable`.
* *Tools.*  `ToolsInv` says of each operation found where it came from (`Discovered`), of
  what is served that it is `build_toolset` of the merged operations and nameable
  (`ServedOK`), and of an answered call that it is of such an operation (`AnswerOK`).  From
  it follow `ToolsCanBeCalled`; `SafeMode`, by induction over the rules: after each, effect
  and sensitivity are the operation's own or some rule's, and the last rule about it alone or
  everything has had its way; and `ArgumentsArrive`, because flattening leaves every name to one
  parameter or body property and the placeholders to the path's parameters, so that a value
  that is unfit, or vanishes, is so in the one place its name has (`SentSupplied`).
* *Names.*  What a client remembers are base names, or base names trimmed with the suffix of
  their operation (`ListedOK`).  A remembered name that reaches another operation is the one
  kind for the one and the other kind for the other, or the same for both; the cases
  come down to a suffix inside a base name, which the property excepts, or to
  a base name that both have, which suffixes both if both are there.
* *Selections.*  `FieldsFor` at a path of types is the set of field sequences that lead from
  it down some extension of the path and end there (`Below`), by induction on how many types
  the path leaves; at the path of one type that is `Reference`.  An upstream's operations
  are of the document that stays, since its turn comes once (`SelectedOK`).

### Only model-checked

* Liveness (`EveryCallEnds` of both caches and of the transport, `Recovers`,
  `StartupSettles`, `EveryRequestEnds`): fairness and ENABLED are beyond the prover.
* The violated properties, of course: each run shows a counterexample.

## Plan

Done: everything in the tables above.  What further work would add, in order:

1. That accumulation of rules only tightens a policy under each default, and what
   `configure` may do to operations that it does ask about.
2. `Startup` and `CallPath` on one tool set: the policy's rules name operations whose
   effects and names come from the catalog.
3. The conversion of OpenAPI 3.0 schemas, once a property of schemas is worth stating.

## Not modelled

Parsing and field-by-field validation of files, OpenAPI and GraphQL documents (syntax and
I/O, including what of a document makes a reader raise, such as body or parameter schemas
that are no objects: `sources/openapi.py:141-167`, `sources/flatten.py:46-52`), the resolution of secrets, the conversion of 3.0 schemas, the wording of results and
logs, the mapping of response bodies, closing HTTP clients at the end of the process, the
SDK's sessions and middleware beyond what `Inbound` takes from it, JWT cryptography.
