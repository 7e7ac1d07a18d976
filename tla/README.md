# Verification of go-toolbox

TLA+ models of the stateful packages of `github.com/erlorenz/go-toolbox`, the TLC runs that
check them and the TLAPS proofs about them. Line numbers are those of the files under `src/`.

## 1. Inventory

| Component | State | Operations | What is hard |
|---|---|---|---|
| `pubsub` interface (`pubsub.go`) | - | `Publish`, `Subscribe`, `Close` | what callers may rely on when the three race |
| in-memory broker (`inmemory.go`) | `subs`, `closed`, `closedCh`, `mu`; one watcher goroutine per subscription | `Publish` (read lock), `Subscribe`, `removeSubscription`, `Close` (write lock) | contexts end at any moment; the check of a context and the start of its handler are two steps; handlers share one slice |
| PostgreSQL broker (`postgres.go`) | `listeners`, `closed`, `mu`; per topic a `topicListener` with `handlers`, a connection and a listen goroutine; per subscription a watcher | `Subscribe`/`createTopicListener`, `listen`, `watchHandler`/`removeHandler`, `Publish`, `Close` | network calls under the lock, pooled connections that keep their LISTEN, lost connections, full pool |
| `kv` interface (`kv.go`) | - | the same as the stores' | what an `Update` may rely on, what has expired |
| PostgreSQL store (`kv/postgres.go`) | the table; `cleanupClose`, `cleanupDone` | `Get`, `Set`, `SetMany`, `Update`, `Delete`, `Keys`, `Cleanup`, `Close` | concurrent transactions, expiry, colliding hashes, deadlocks, lost answers |
| memory store (`kv/memory.go`) | `data`, `mu`, `close`; a cleanup goroutine | the same | slices shared with callers, functions run under the lock, expiry at the boundary |
| AES encryptor (`kv/aes_encryptor.go`) | a key | `Encrypt`, `Decrypt` | - |
| asset manager (`assetmgr/`) | the map of assets, the import map and its tag, `mu` | `New`, `Reload` and the build (walk, compile, import maps), `ServeHTTP`, getters | references between files rewritten in no fixed order, failed builds, rebuild against reads, URLs that browsers keep for good |
| configuration parser (`cfgx/`) | the fields of one struct | `Parse` with its sources | order and precedence of sources, optional and required fields, errors that are dropped |
| case conversion (`casing/`) | - | `ToKebab` and the others | word boundaries |
| examples | - | two programs | the subscription adapter closes a channel that handlers send on |

Interaction: the brokers and the stores are independent of each other; the two PostgreSQL
components share a `pgxpool.Pool` with whatever else the program does, and talk to other
processes through the server only. `Publish` and `Subscribe` share `mu`; a listen goroutine and
the registry share `tl.handlers` under `tl.mu` and the contexts under no lock at all; callers
reach the goroutines by cancelling contexts.

What makes each component correct:

* **Brokers.** A payload reaches each live subscription of its topic once and nobody else;
  a subscription that is cancelled disappears, with its goroutines and its connection; after
  `Close` no subscription is live. For the PostgreSQL broker also: connections are neither
  leaked nor shared, and a topic has one listener that is cancelled with its last handler.
* **PostgreSQL store.** `Update` is atomic for a key that exists; `Cleanup` deletes only what is
  expired; a key gets its own values; calls end, whatever order they take their rows in; `Close`
  ends the cleanup goroutine and waits for it.
* **Memory store.** The promises of the interface on one lock; slices it handed out do not change;
  what has expired goes.
* **Asset manager.** No request sees a map while it is built; what is handed out after a build has the
  versions of what is served; a URL with a version names one content; every request is answered.
* **Configuration parser.** A field has the value of the source of the highest priority that has
  one, whatever fails in other fields and sources; every field that is required has one or is reported.

`PROJECT.json` lists the hazards with their lines.

## 2. Plan

1. `PgBroker`, the component where most can go wrong, with proofs (done).
2. `Broker`, the promise of the interface, and `MemBroker`, which implements it (done).
3. `PgStore`, the transactions of the store (done).
4. `AssetMgr`: the build as a state machine, the requests and the rebuild of development mode,
   deployments and the browser cache (done).
5. `PgCleanup`: the cleanup goroutine against `Close`, around `PgStore` (done). `KvStore`, the promise of
   the interface, and `MemStore`, which implements it (done).
6. `Cfgx`: the order of sources and what each assigns (done).
7. Proofs of the safety properties of the other modules, with `MemBroker => Broker` and `MemStore => KvStore`
   (done).
8. The same interfaces for the PostgreSQL components: `PgBroker => Broker` and `PgStore => KvStore`, with their
   proofs (done).

What is left out for good, and why, is in section 7.

## 3. Modules

### PgBroker

One `Postgres` value. `Subs` are the `Subscribe` calls; a `topicListener` has the name of the call
that creates it. `mu` names the call that holds `p.mu` over network calls (only `Subscribe` does,
in `createTopicListener`); all other critical sections are single steps that need `mu = None`.

| State | Code |
|---|---|
| `listeners`, `handlers`, `closed` | `p.listeners`, `tl.handlers`, `p.closed` |
| `userDone`, `stopped`, `ended` | the contexts: the caller's, `h.cancel()`, `tl.cancel()` |
| `watching` | the `watchHandler` goroutines |
| `spc`, `ppc`, `lpc` | where calls and listen goroutines are |
| `lmsg`, `snap`, `cur` | locals of `listen`: the payload, the copied handlers, the one whose context was found live |
| `owner`, `listening`, `inbox`, `broken` | external: the pool's slots, what each session LISTENs on, its unread notifications, lost sockets |
| `got` | how many times each handler was started with each payload |

`SubscribeJoin` and `SubscribeCreate` / `SubscribeAcquire` / `ListenOk` / `Register` are the two ways
through `Subscribe`, with `SubscribeNoConn` and `ListenFails` its error returns; `Receive`, `Skip`,
`Check`, `Start`, `DispatchEnd`, `ListenExit` the loop of `listen`, where `Check` and `Start` are apart
because no lock covers them. A released connection is modelled as pgx does it: healthy ones go back with
their LISTEN registrations and unread notifications, broken ones are dropped. Payload lengths are
chosen where the code and the server compare them (`MaxPayload`, `NotifyLimit`).

### Broker and its implementations

`Broker` is what `pubsub.go` promises: a handler is started once at most with a payload, after it was picked
(`Pick`) while its subscription was active and after `Publish` was called; `due` are the handlers picked and not yet
started, since nothing covers the step between the check of a context and the start. With `Remote = FALSE`, a broker
in memory, a `Publish` that returns nil has given its payload to each subscription of its topic that was active when
it began and still is, nothing is due when it or `Close` returns. With `Remote = TRUE` a server is in between: a
`Publish` returns when the payload is sent, or with an error when it may have been, handlers are picked later, those
that were picked may be started after `Close`, and `Subscribe` may fail. That a payload only reaches its topic
is not among the promises for `Remote`, because the code does not keep it (`topic_isolation`, section 4).

`MemBroker` is `inmemory.go` step by step: a `Publish` holds the read lock from `PublishBegins` to `PublishReturns`,
and every operation that needs the write lock waits for `NoReaders`. `Slice` says which slice handlers are given;
`RunHandler` and `ReusePayload` are the callers who look at and write into slices; `Writers` are the handlers that write,
and `spoiled` has those that were given a payload that was no longer the published one. Its refinement maps a subscription
to idle, active, ended or refused by its return and its contexts, and a `Publish` that is in its loop to "sending";
`audience`, the live subscriptions at its start, is a history variable of both.

`PgBroker` refines `Broker` with `Remote`: a call that waits for the lock, a connection or its LISTEN is idle; a
`Publish` is "sending" from its `Acquire` to its answer; `Check` is `Pick` and leaves its handler due until `Start`.

### PgStore

Calls on one table at READ COMMITTED. A single-row statement is one step that needs the row free;
`Update`, `SetMany` and `Cleanup` take rows one at a time and keep them until they end. A value is the set of
calls that went into it, which is what makes a lost update visible. `began` is NOW() in a transaction,
`expires` the `expires_at` that the process computed; `Live`, `Matches`, `Expired` and `Upsert` are the
WHERE and ON CONFLICT clauses. Any call may fail before its commit (`Fails`: the function, the
encryptor, the connection), and after it the answer may be lost ("unknown").

The calls are records [kind, keys, ttl], chosen in `Init` from a constant set of programs, so that one
run covers several combinations of calls. `Keys` is `ListKeys`, whose LIKE pattern is the set of keys it is about.
A row has the key that made it: two keys may share a hash, and `Get` compares the key (`Matches`) while `Upsert`
finds the row by hash alone.

### PgCleanup

Extends `PgStore` with the life of one `PostgresStore` value: a goroutine for each `WithCleanup`, which
makes a channel (`Resets`), defers its close (`Defers`), runs `Cleanup` when its ticker fires (`Ticks`,
`Swept`) and returns when `cleanupClose` is closed (`Returns`); `Close` closes that (`CloseSignals`), reads
`s.cleanupDone` (`CloseReads`) and waits for what it read (`CloseReturns`). The field is shared without a
lock, so the read finds the channel from before or after `Resets`. A channel is named for the goroutine
that makes it. A `Close` that comes before `Resets` reads the channel that `NewPostgresStore` closed and
returns while the goroutine has yet to run, and perhaps to sweep once, against the comment at
`kv/postgres.go:531` ('Wait for cleanup goroutine to finish'); `CloseWaits` therefore speaks of a `Close` that
found a goroutine's channel, and `CloseEnds` says that the goroutine ends all the same. Two `WithCleanup` share the
field too, and the second may close the first one's channel twice; `NoDoubleClose` is about one.

### KvStore and its implementations

`KvStore` is what `kv.go` promises: every call takes effect at once, except that the function of an `Update`
runs between its reading and its writing, while no other call changes the key. It leaves open whether an
entry is there at the very moment of its expiry: the memory store still has it (`After`, `memory.go:18`), the
PostgreSQL store does not (`<=`). The stores differ in two more ways, which are parameters:

* `Exclusive`: whether an `Update` that found nothing has its key to itself. In the PostgreSQL store it has not,
  because FOR UPDATE locks the rows it finds (`lost_update`, section 4).
* `Remote`: the call goes over a connection. It may go by the time at which it was made (`since`): NOW() is
  the start of the transaction, and `expires_at` is computed before the statement waits for its row. It may fail at
  any moment without effect, and the answer to one that was done may be lost ("unknown").

`MemStore` is `memory.go`: a call waits for `s.mu` (`Invoke`), and what it does under it is one step, except that
`Update` keeps the lock while its function runs (`UpdateReads`, then `UpdateStores` or `UpdateFails`) and `SetMany`
stores one item per step. `data` holds slices by name and `buf` what they hold, since `Get` and `Update` hand out the
stored slice and `Set` keeps the caller's. It is `Exclusive` and not `Remote`. In the refinement a slice stands for
what it holds, and a `SetMany` takes effect when it gets the lock (`Entry`). Callers that write into a slice they
gave or got are left out: an entry would then change with no call at all, and so would that of an `Update` whose
function fails, against `memory.go:101`.

`PgStore` is `Remote` and not `Exclusive`. A write takes effect when it commits; the entry of a key is the row of its
hash if the row has that key; a `Cleanup` is nobody's call, its deletions are `Purge`.

### Cfgx

One call of `Parse`. Sources have offers for fields: nothing, a good text, one for the zero value, one that does
not parse, a file that cannot be read. `Walk` makes `structMap` and sets `Version`; `ProcessTags`, `ProcessEnv`,
`ProcessFiles` and, for the flags, `ProcessFlags`, `FlagsFail` and `FlagsClash` are the sources, taken by priority;
`Validate` is `validateRequired`. A flag has a long and perhaps a short name (`flagName`,
`shortName`), and any two of them may be the same. What the code does and its documentation does not lead one to expect:
a flag with a zero value counts as not given (`sources.go:269`), so `-debug=false` overrides nothing; one bad flag, or one
for a field that was filled before, drops all flags without an error (`sources.go:261`, `cfgx.go:138`); a bool that
does not parse is false; without `options.Args` no flag is read, although `cfgx.go:64` says that they default to
`os.Args[1:]`, because the source is built from the options as given (`cfgx.go:115`); a flag
name that two fields share, long or short, makes the flag package panic.

`Precedence` compares two accounts of what a source has to say about a field. `Gives` is the documented one: every value
that the source has and that parses. `Says` is `Gives` with the code's departures from it, named one by one:
flags count only with `options.Args` and if none is wrong, and not when zero; a bool that does not parse is
false in the other sources. Neither looks at what the actions write, and `HighestWins` is the rule
of priorities for either: with `Says` it is `Precedence`, which holds, and with `Gives` it is `DocumentedPrecedence`, which
does not (section 4).

### AssetMgr

One `Manager`, in development or production mode. `mu` names the call whose `build` holds `m.mu`
(`New`, a `Reload`, or a request in development); `phase`, `pos` and `todo` say how far the build is:
`WalkFile` one file of the walk, `CompileAsset` one round of `compileAssets` in any order, `MergeMap` one import
map, and the failures of each; an import map may be there and be no JSON (`NoJson`, `Parses`), which fails the build in
both modes, and when that build is `New`'s there is no server. `ServeHTTP` is `RequestBuilds` (development), `LookUp` under the read lock and
`Respond` under none. A content is a version of a file with the versioned paths its references were
rewritten to, and its hash is the content itself: hashes do not collide here. `NoAsset` is the nil `*Asset`. `Skipped` and `Targets`
say which references `compile.go` rewrites. External: `Edit` changes a file under the manager in
development, where files are read from the disk and may be unreadable; `Deploy` starts a new process with a changed
file in production, where files are those of the binary (`embed.FS`, as the package's README has
it); `cache` is what browsers keep under `immutable`.

## 4. Runs

| Run | Shows | Bounds |
|---|---|---|
| `pg_broker_safety` | `TypeOK`, `ConnAccounting`, `NoOrphanListener`, `RegisteredAreWatched`, `ActiveIsRegistered`, `CloseStopsAll`, `AtMostOnce`, `ImplementsBroker` | 3 subscriptions, 2 of one topic; 1 publish; 3 connections, 1 failure. Symmetric in connections |
| `pg_broker_live` | `Unsubscribed`, `ConnsReturned`, `Delivered` | 3 subscriptions, 2 of one topic, so that a listener has two handlers; 1 publish of a payload that is not refused; 2 connections. One of them may fail in behaviours without the third subscription and the publish (`MCNext`); refused payloads and a failure with either are in `pg_broker_safety` |
| `mem_broker` | `TypeOK`, `EntriesAreWatched`, `LiveIsRegistered`, `PayloadIntact`, `ImplementsBroker`, `WatchersEnd` | 3 subscriptions, 2 of one topic, 1 publish; of the two handlers of that topic one writes into the slice it is given |
| `pg_store` | `SystemTypeOK`, `ReadIsStable`, `CleanupKeepsLive`, `ImplementsKvStore`, `CallsEnd`, `NoDoubleClose`, `CloseWaits`, `CloseEnds` | six combinations of 2 or 3 calls: every single-key method on one key, `SetMany` and `Cleanup` on two rows, a cleanup goroutine and `Close` with a `Set`; the clock goes from 1 to 2 |
| `mem_store` | `TypeOK`, `SlicesStay`, `ImplementsKvStore`, `CallsEnd`, `ExpiredGoes` | seven combinations of 3 calls on 2 keys, the cleanup goroutine and `Close`; the clock goes from 1 to 3 |
| `cfgx` | `TypeOK`, `Precedence`, `RequiredIsSet`, `FilledStays` | 6 fields, 2 of them in a nested struct; 5 sources, 2 of one priority; 1856 calls: every combination of offers for a number and for a bool, and of filled fields, skipped sources, flags with and without `Args`, flag names that clash, long or short, and ways to handle errors |
| `assets` | `TypeOK`, `TagsAreCurrent`, `ImportMapIsCurrent`, `ETagNamesBody`, `NotFoundIsTrue`, `Answered` | both modes; 3 scripts in a chain, one of them in two file systems, a style sheet, an import map whose second version is no JSON; 2 requests, one for a path that does not exist; 1 `Reload`, 1 change of a file |

The bounds are the smallest at which the cases happen: two handlers on one listener and one on
another (joining, removing one of two, removing the last), a connection for each listener, one more for the
publisher in `pg_broker_safety`, a connection that changes hands; for the store, a row that expires while it is waited for,
a row that is refreshed while a sweep waits, a cycle of two calls over two rows, a `Close` before, during and after a
sweep; for the memory store an entry before, at and after its expiry and an `Update` that holds the lock
against each other call; for the assets, a chain of three files, so that the middle one can
be compiled before or after both its neighbours, and a build between another request's build and its look-up. `MaxBreaks` bounds failures, `MaxTime` the clock.

Where the documentation and the code part, a run states the former and TLC shows the
latter:

| Run | Statement | What happens |
|---|---|---|
| `topic_isolation` | `TopicIsolation`: a handler gets payloads of its topic | a connection returns to the pool still listening, another topic's listener gets it and does not look at the channel (`postgres.go:150-166`) |
| `full_pool` | `Unsubscribed`, with one connection | `Subscribe` waits for a connection with `p.mu` held; `removeHandler` waits for `p.mu` (`postgres.go:119`, `188`) |
| `dead_listener` | `JoinIsServed`: a topic without a listening connection gets one | the entry of a listener that lost its connection stays (`postgres.go:155`) |
| `lost_update` | `UpdateIsAtomic` | FOR UPDATE locks nothing when the key is missing (`kv/postgres.go:370-381`) |
| `cache_busting` | `CacheBusting`: a URL that is handed out is in no cache with other content | `app` compiled before `utils` refers to `utils` by its uncompiled version; a new `lib` changes what `utils` serves and not that version (`assetmgr.go:353-361`, `746`) |

Three more statements of the documentation are false of the code. Each is a definition of its module, and a
change to the cfg of a passing run shows the counterexample.

`HandlersHaveCopies`, in `MemBroker`: a handler is given the payload as it was published. The comment at `inmemory.go:55`
says 'Copy payload so handlers can't mutate it' and the interface, at `pubsub.go:39`, that handlers 'each receive a copy',
but one copy is made per `Publish` and every handler is given that slice (`inmemory.go:67`). Put it
for `PayloadIntact` in `MemBroker.cfg`: the handler in `Writers` changes what the other one of its topic is given.
`PayloadIntact` says what is left of the promise: nothing but another handler of the same `Publish` changes a payload, no
other `Publish` and no publisher that reuses its buffer. `postgres.go:166` shares one slice in the same way.

`DocumentedPrecedence`, in `Cfgx`: a field has the value of the highest source that gives it one. `cfgx.go:35` says
'Higher priority sources override lower priority sources', `cfgx.go:64` of `Args` that they default 'to os.Args[1:]', and
`cfgx/README.md:57-62` lists the flags as the source of the highest priority. Put it for `Precedence` in `Cfgx.cfg`: a
`-debug=false` leaves a default of true (`sources.go:269`), and without `Args` a flag has no say (`cfgx.go:107`).

`ValueIsOfKey`, in `PgStore`, says what the comment at `kv/postgres.go:232` says, 'verifies actual key to handle collisions': nobody is
given what was stored for another key. It fails where two keys
share a hash: a `Set` of the second finds the row of the first, replaces its value and leaves its key
(`kv/postgres.go:289`), so that a `Get` of the first passes the verification and returns the other's value. To see
it, give `pg_store` `Hash <- MCCollision` and `Programs <- MCPair` with `ValueIsOfKey` as its
only property; `ImplementsKvStore` fails there too. What holds whatever the hashes are is `OnlyCollisionsMix`
(section 6): a value goes only to keys with the hash of one it was stored for.

## 5. Fairness

`PgBroker`: weak fairness of the calls that have begun, the listen goroutines and the watchers together (`GoOn`): while
one of them can go on, some one does. Go runs a goroutine that can run, its mutex and the pool serve
waiters in order. Every call happens once, so behaviours are finite and end where none of them can go on, which is
all that fairness of each would say. Nobody is forced to call, cancel or fail. `MemBroker`: the same, with strong fairness for a watcher that
waits for the write lock, since a `sync.RWMutex` keeps new readers out while a writer waits.
`PgStore`: strong fairness of each call that has begun, since the server queues those that wait for
a row; it rolls back one transaction of a deadlock. The caller's function is assumed to return.
In `PgCleanup` the goroutines run (weak fairness); nobody has to call `Close`, and the ticker need not fire.
`MemStore`: strong fairness of each call that waits for `s.mu`, which Go's mutex hands to its waiters, and of the
sweep, since the ticker fires every minute until the goroutine ends. `Cfgx` has no liveness property.
`AssetMgr`: weak fairness of the build, which waits for nothing once it has the lock, and strong fairness of
each request, since a `sync.RWMutex` serves those who wait. Nobody is forced to ask, edit or deploy.

## 6. Proofs

Every safety invariant and action property of the passing runs is proved, for all values of the constants that the
assumptions allow, and so are the four refinements. The assumptions, each named in its module, say that constants have their
types and that calls, connections, files and `None` are different things; what goes beyond that is said below. In each
module `Inductive` is `Spec => []IInv`, and the other theorems follow from it. What `IInv` adds, since the properties
are not inductive:

**PgBrokerProofs**, from `BrokerAssumption`: the seven invariants of `pg_broker_safety`, and
`NoDispatchAfterClose`, which no run checks by itself since `ImplementsBroker` contains it: `Pick` needs an active
subscription, and `Close` ends them all.

* `RegistryInv`: the holder of `p.mu` is the one call between `Subscribe`'s check and its return, found
  no entry for its topic and the broker open; goroutines and handlers belong to calls that got that
  far; handlers are of their listener's topic; only returned calls are cancelled. From these follow
  `NoOrphanListener` (an unregistered listener is the lock holder's or was cancelled),
  `RegisteredAreWatched` and `ActiveIsRegistered`.
* `ConnAccounting`, which is inductive given `RegistryInv`: a step that acquires makes one holder, a step
  that releases ends one.
* `DeliveryInv`: a handler belongs to one listener for good (`HostInv`); the loop's variables agree with
  its place (`LoopInv`); a payload is nowhere before its NOTIFY (`SentInv`), and no longer in the buffer
  of the connection that took it (`TakenInv`); a handler that got it is neither among those still to be looked
  at nor on a connection that still holds it (`SeenInv`). `AtMostOnce` follows although connections
  change hands with unread payloads: another listener has other handlers.

`JoinsAreServed` is the counterpart of the run `dead_listener`: where no connection is lost (`MaxBreaks = 0`), a
`Subscribe` joins or makes a listener that has not ended. `ServedInv`: a registered listener runs and was
not told to stop, since a listener ends only when it is told to, after it left the registry, or when its connection
is lost. The lost connection is therefore the only way to what `dead_listener` shows.

**PgBrokerRefines**, from the same assumption: `Spec => ImplementsBroker`, over the invariant `IInv` of
PgBrokerProofs, with a lemma for each action. A `Check` is `Pick` because the handler it found is active, has not got the
payload (`SeenInv`) and is not due to any other listener, being a handler of one only (`HostInv`, `OnlyHost`);
a `Start` takes just that pair from `due` for the same reason. `Close` ends every active subscription, since each is a
handler of a registered listener (`ActiveIsRegistered`). A `Subscribe` that returns nil finds the broker open: the one that
went for a connection holds `p.mu` all the while, and `Close` needs it (`RegistryInv`).

**MemBrokerProofs**, from `MemBrokerAssumption`: `TypeOK`, `EntriesAreWatched`, `LiveIsRegistered`, `PayloadIntact`
and `ImplementsBroker`. `SubInv`: a subscription has a watcher until it is removed, and its
entry as long; `ClosedInv`: `Close` leaves no entry and no `Publish` in its loop, since it took the write lock;
`PubInv`: of the audience a `Publish` found, who is neither still to be looked at nor about to be started either got the
payload once or was over. This is what a step to `Broker`'s `PublishReturns` needs. `CopyInv`, for `PayloadIntact` with any `Writers`: the slice of a
`Publish` holds what was published until a handler of that `Publish` that writes has run.

**PgStoreProofs**, from `StoreAssumption` and `CleanupAssumption`: `TypeOK`, `ReadIsStable`, `CleanupKeepsLive`, and
for the composition `SystemTypeOK`, `NoDoubleClose` and `CloseWaits`. The invariant is one of each call (`OpInv`): its place
fits its method (`Kinds`), it holds rows only in a transaction (`Holds`), what it has not locked is in its plan
(`Plans`), an `Update` that read a row holds it and it is as it was (`Reads`), what a `Cleanup` holds had expired when it
began (`Sweeps`). A step of another call takes nothing from it, because it changes only rows it holds or that are
free; that is one lemma instead of a case for every pair of methods. `Composes` shows that the composition implements
`PgStore`, which carries its theorems over. For the goroutines, `ChannelInv` says which channels exist and are closed,
`QuietInv` that no `Cleanup` runs outside of its goroutine's sweep, and `WaitInv` that a `Close` that returned found its
channel closed. `NoDoubleClose` and
`CloseWaits` have `OneOption`, one `WithCleanup` at most, as their condition.

**PgStoreRefines**, from the same assumptions. `RefInductive` is `Spec => []RInv`: a call that is under way began
no later than now and has an `expires_at` computed since (`TimeInv`), what it read or returned is its own (`FreshInv`), a
row is under the hash of its key (`RowInv`). With it and `IInv`:

* `Implements`, `Spec => ImplementsKvStore`, and `SystemImplements` for the store with its cleanup goroutine. The
  lemmas go by the calls' steps. That no write changes the key of an `Update` that found it is the row lock (`Holds`,
  `Reads`); that a `Cleanup` is a `Purge` needs `Sweeps` and that time only moves forward; that a write by an old
  `expires_at` is allowed needs `TimeInv`.
* `MixedByCollision`, `Spec => []OnlyCollisionsMix`, with no condition on the hashes: what a `Get` returns and an `Update` is
  given was made by calls on keys that have the hash of its own. `HashInv` is the same of what the rows hold; it needs
  `OnlyCollisionsMix` in turn, since an `Update` writes what it was given with its own call added.

The two refinements have `OneToOne` as their condition: no two keys in use share a hash. It is needed, since two that do
violate `ImplementsKvStore` and `ValueIsOfKey` (section 4), and it is the only condition. All other theorems hold with collisions too.

**MemStoreProofs**, from `MemAssumption`: `TypeOK`, `SlicesStay` and `ImplementsKvStore`. `LockInv`: a call is inside
an `Update` or a `SetMany` exactly while it holds `s.mu`; `KindInv`: what each method leaves in the variables of its
call; `SliceInv`: nobody has the slice that an `Update` has yet to make. The refinement has a lemma for each action: a step that
stores is the abstract call, the sweep is `Purge` because it drops only what has expired, a `SetMany` takes effect
when it gets the lock, and the items it then stores are stutters because nobody else can look at the map.

**CfgxProofs**, from `CfgxAssumption`: the four properties of `cfgx`. `SourcesInv` is a loop invariant: the processed
sources have priorities no higher than those left, and each field has what one of the highest among the
processed ones wrote. With the last source it is `Precedence`, by `SaysEffect`: what a source says
of a field, which is stated from its offers, is what the actions make of them. Priorities may be equal and any number.

**AssetMgrProofs**, from `AssetAssumption` (the walk meets every file): `TypeOK`, `TagsAreCurrent`, `ImportMapIsCurrent`,
`ETagNamesBody` and `NotFoundIsTrue`. `LockInv`: the lock is held exactly during a build, by a call that waits for it;
`AssetInv`: each asset, in the map or in a request's hands, has one content (`OneContent`), which in production is the file's if
it was not compiled; `MapInv`: what was merged leads to the present versions, since no asset changes after the compilation.
`WalkedInv`, by `WalkComplete`: files that were walked have assets, and after the walk all of them have.

Only model-checked: liveness, which is outside the prover's reach (`Unsubscribed`, `ConnsReturned`, `Delivered`,
`WatchersEnd`, `CallsEnd` in both stores, `CloseEnds`, `ExpiredGoes`, `Answered`). What the five violation runs show needs no
proof: each is a counterexample; `JoinsAreServed` says when the
statement of one of them holds, and `MixedByCollision` how far `ValueIsOfKey` can fail.

## 7. Not modelled

* A skew between the clocks of a process and of the server; a second `Close`, which panics in both stores.
* Encryption: undone on every read, its errors are part of `Fails`. The AES encryptor is standard-library
  cryptography on the data of one call and keeps nothing but its key.
* The hash function: keys have hashes, equal or not. LIKE patterns, the text of SQL and of errors, table options.
* `casing`: functions of one string, which a table of strings tests better than a model does. That two paths may
  give one name is part of `Cfgx`.
* How `cfgx` makes names of paths and values of text; a field of a named type, on which `reflect.Set` panics when
  its flag is given (`sources.go:277`).
* The panics of handlers, goroutine scheduling inside a critical section that does not block; the syntax of CSS and
  JS references, MIME types, tags of the getters.
* The programs under `examples/`, which are no part of the library; the subscription adapter of the pubsub one closes
  a channel that its handlers may still send on (`main.go:81`).
