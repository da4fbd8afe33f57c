# Verification of trvl

trvl (Go) searches flights, hotels and ground transport from a command line and
as an MCP server, and watches prices: a user saves watches, background processes
re-price them and raise alerts.  This directory specifies in TLA+ the parts of it
that keep state across calls, goroutines and processes -- the watch store and
everything that prices watches, the MCP server, the sharing and caching of
ground searches, the cooldown after a refusal by Google -- checks them with TLC
on small instances, and proves their main results for every instance with TLAPS.

Paths below are relative to `src/`; `watch/` stands for `internal/watch/`,
`ground/` for `internal/ground/`.

## 1. The system

### Parts, their state and what makes them correct

| Part | State | Operations | What makes it correct |
|---|---|---|---|
| **Watch store** `watch/store*.go`, `txn.go`, `lock_unix.go` | `watch.db` (bbolt), the legacy pair `watches.json` and `price-history.json`, `watch.db.creating`, `watch.db.unreadable*`, `.lock`; one `Store` per process | `Load`, `Add`, `Remove`, `Update`, `MutateAndRecordPrice`, `Migrate`, recovery of a database that was never published | every operation takes effect once, on the committed state, or not at all; nothing is lost at the conversion; a foreign or damaged database is left alone |
| **Watch records** `watch/watch.go`, `identity.go`, `update.go` | target, currency, thresholds, last and lowest price, alert memory, pending currency | re-watch, edit, identity | one watch per target; magnitudes of two currencies are never compared |
| **Route observations** `watch/store_route_history.go` | route-keyed points beside the watches' | record, throttle, evict fairly | a busy route does not evict a quiet one |
| **Price checks** `watch/check.go`, `check_room.go`, `internal/pricealert` | a copy of the watch while a provider is asked | poll, fold, confirm a currency, alert | an answer is folded into what it was asked about; a drop is real and announced once; the user's thresholds stay the user's |
| **Migration** `watch/migrate.go` | the store | collapse duplicates, reassign and compact history | idempotent; no observation or alert memory is lost |
| **Round cache** `watch/pollcache.go`, `CheckAllBounded` | entries of one round, slots, contexts | lead, follow, give up | one provider call per target; nobody waits for ever; no price is made up |
| **Scheduler** `watch/scheduler.go`, `lock.go`, `cmd/trvl/watch_daemon.go` | `scheduler.lock`, `started`, `stopped`, `done`, `s.lock` | `Start`, `Stop`, retry, rounds | one scheduler per store, one always if any is willing, silence after `Stop` |
| **MCP server** `mcp/server.go`, `server_stdio.go`, `protocol_2026.go`, `http.go`, `tools.go` | a goroutine per request, `toolSem`, `pendingElicit`, `s.listens`, the `WaitGroup` of `ServeStdio` | dispatch, call a tool, ask the user, announce a change, open and cancel a stream, shut down | every request is answered; an answer reaches who asked; a stream hears of changes after its acknowledgement and until its own end |
| **Ground search** `ground/search.go`, `search_prefetch.go` | the shared runs of `groundGroup`, one per cache key | look into the caches, join or launch a run, walk away, ask the providers, rank and cache | a caller gets the complete answer to its own question; nobody inherits what another gave up |
| **Circuit breaker** `internal/breaker` | failures per provider | allow, record | a provider that fails is spared for a while |
| **TTL and negative cache** `internal/cache`, `ground/search_prefetch.go` | entries with expiry | get, set, mark, evict, clean | a fresh entry is served and not lost; only a clean run says "no service" |
| **Google cooldown** `internal/batchexec/refusal.go`, `client.go` | a mutex and a deadline per client, a deadline in a file, a file lock | begin, retry, arm | no process of the machine calls before the deadline; the silence ends a cap after the last refusal, or after the first look at a file that may hold any deadline, if the bound could be stored |
| Probe budget `internal/probebudget` | tokens | acquire, refill | probes never starve interactive calls |
| Atomic JSON files `internal/atomicjson` | temporary files | write, find and clean orphans | a reader sees a whole file; a live writer's file is not cleaned away |
| Trips `internal/trips` | `trips.json`, `alerts.json` | add, update, delete, alert | no lost update, both files agree |
| Provider engine `internal/providers` | registry, breaker counters, limiter, cookie vault | search, mark, reload | limits hold, counters reflect outcomes |
| Self-update, telemetry, caches of probes, cookies; consent (environment variables only) | small files | | |
| Search domains, deal engines, travel knowledge, pricing arithmetic, parsers, the tools behind MCP, command line | none across calls, or the above | | wire formats, ranking and rendering: nothing for a model checker |

The rows in bold are modelled.  `PROJECT.json` lists all components under
`components`, with what is modelled of each, and the hazards under `hazards`.

### How they interact

```
 user: CLI          MCP client (stdio, or several over HTTP)         watch daemons
   |                   | requests, cancellations, answers               |
   |                   v                                                |
   |              MCP server ---- Scheduler ----- scheduler.lock -------+
   |               | tools     ^ changes                  | one of them
   |               |           | to streams               v
   +---------------+-----------+----------------> rounds: round cache
   | Add, Update, Remove, Migrate                   | provider calls
   |               |                                |
   |               v                                v
   |        ground search: caches, shared runs   Google cooldown (mutex, file lock,
   |               | breakers                     deadline in memory and file)
   |               v
   |        providers; routes observed
   v               v
 watch store: .lock, watch.db, legacy JSON pair   (any number of processes)
```

A check reads a copy of a watch from a `Store`, asks a provider for seconds
*without any lock*, and folds the answer in a transaction of its own.  Meanwhile
other processes commit.  Most of what is difficult in the watches comes from
there: a stale copy, answers out of order, a process that dies between two file
operations, an old binary's directory met by two new ones at once, a holder of a
lock that dies or stops.  In the server and in the searches it comes from work
that is shared: a run that outlives the caller who launched it, a question whose
answer comes late or twice, a stream that is told of a change while it is being
opened or cancelled, a lock whose holder dies with the deadline half written.

## 2. Modules

| Module | Models | Built on |
|---|---|---|
| `WatchRecord` | one watch as a record, and the pure bookkeeping on it: `ApplyIntent` (re-watch), `ApplyUpdate` (edit), `Fold` (a quote), `Evaluate` (alert detector) | |
| `WatchGeneration` | the store's content as one value -- watches and history, routes included -- and the effect of every operation on it: `Effect(g, r)` gives the verdict (save, skip, error), the new generation and the answer | `WatchRecord` |
| `WatchLedger` | **abstract specification**: one book, each operation takes effect at one instant between call and return or not at all; one conversion | |
| `WatchStore` | the directory, the lock and every file operation of several processes; refines `WatchLedger` | `WatchGeneration`, `WatchLedger` |
| `WatchPolls` | checks in flight against the store, with re-watches, edits and removals in between | `WatchGeneration` |
| `WatchMigrate` | `Migrate` on a store with duplicates, between polls and observations of routes | `WatchGeneration` |
| `RoundCache` | a bounded check round: goroutines, slots, deadlines, shared calls | |
| `WatchScheduler` | election, rounds, `Start` and `Stop`, death and fail-over | |
| `McpServer` | the server between its transport and its tools: requests, slots, questions to the user, streams, cancellation, the end of the input | |
| `GroundSearch` | callers, caches, shared runs and breakers of one process | |
| `GoogleCooldown` | processes that call Google one at a time and fall quiet together, with failing locks and writes and deaths | |
| `WatchGenerationProofs` | what every operation on a generation does to it, as lemmas on the operators: used by the next three | `WatchGeneration` |
| `WatchStoreProofs`, `WatchPollsProofs`, `WatchMigrateProofs` | proofs about the module of that name | `WatchGenerationProofs` |
| `WatchRoundsProofs` | proofs about `WatchScheduler` and `RoundCache` | |
| `McpServerProofs`, `GroundSearchProofs`, `GoogleCooldownProofs` | proofs about the module of that name | |
| `MC...` | small targets, wishes, stores, quotes and requests for TLC | |

`WatchStore` establishes that an operation is atomic on one book; `WatchPolls`
and `WatchMigrate` take that as given and work on one variable `gen`.  The three
use the same `WatchGeneration`, so that the bookkeeping is written once.

### Correspondence with the code

*Store.*  `pc[p]` is the operation of process `p`'s `Store` (its mutex `s.mu`
admits one).  A step is one observation or change of the directory:

- `Invoke` calls a method (`Add` validates first: `Reject`); `TakeLock` is
  `acquireFileLock`, `Return` the deferred release, `Crash` the death of the
  process at any point.
- `Stat`, `View`, `Recheck`, `Reload`, `Json` are the read path
  (`loadLockedWithFileLock`, `loadBoltLocked`,
  `quarantineUnreadableDatabaseFileLocked`).  `Load` takes the lock only when it
  finds a database that was never published, and asks again under it.
- `ApplyTxn` is the callback of `withTxn`; `SaveStat`, `Backup`, `Build`, `Sync`,
  `Publish`, `Commit` its write path: the first generation is assembled in
  `watch.db.creating`, flushed and renamed, every later one is a transaction.
- `Tx` is `withBoltMutation`, the path of a quote, which reads the watches inside
  the transaction that writes them.
- `Fault` is a failing file operation, which ends the operation with an error.

`db.kind` abstracts the file: `none`, `bare` (no schema, no data: what
`neverPublished` recognises), `published`, `torn` and `alien`.  Damage is told apart
by who notices it.  A database is `torn` when a history point in it cannot be
decoded: every load refuses it, but `withBoltMutation` never decodes the history,
so a quote still writes it; a purge or a cap drops points unread, and when the
damaged one goes the database is `published` again (`KindsAfter`).  An `alien` one
is refused by every path: a newer schema, watches that cannot be decoded, a file
that does not open.  The content is a generation, a value of `WatchGeneration`.

*Polls.*  `poll[p]` is the check `p` from the copy it was given (`asked`), through
the usable answer (`answered`), to its result (`folded`).  `RecordIn` is the
whole callback of `MutateAndRecordPrice`: the gate on the poll identity, the
fold, the purge, the point, the caps.

*Routes.*  A point of the history belongs to a watch or to a route, by its `id`.
The code evicts routes in two ways: a transaction takes one point of the longest
route at a time (`PruneRoutes`), a generation in memory gives every route as many
points as there is room for (`FairShare`).  Both end in the largest quota that
fits, and hand out the rest one by one -- by the order of the keys (`KeyOrder`) in
a transaction, in memory to the routes that the history names first -- which is
`ShareOut`, their closed form.  `ObserveIn` is `RecordObservation`; whether the route was seen
within the throttle's 15 minutes is a free choice (`soon`).

*Migration.*  `MigrateIn` is `migrateLocked` on a generation.  The dates of a watch,
by which `richer` decides, are kept beside the generation by ID, as small numbers
(`dates`).  `Survivor` is the end of the scan of a group: the last member that is
richer than all before it.  `MCWatchMigrate` lets TLC compare the two closed forms
with the code's loops, turn by turn: `SurvivorIsScanned` for every group of three
over a few prices and dates, `ShareIsEvicted` for every history of up to six points
of four routes.

*Scheduler.*  `loop[p]` is the goroutine of a server or the main loop of a daemon;
`pc[c]` is the place in `Start` or `Stop` of a calling goroutine `c = <<p, k>>`.
`startOnce` and `stopOnce` are the `sync.Once`s, with the wait they impose on the
callers who come second.  `Acquire` and `Keep` are apart because `Stop` may run
between the kernel's grant and `s.lock = lock`.

*Round.*  `at[w]` is the goroutine of watch `w`; `leader[k]` and `final[k]` are the
entry of poll identity `k`, before and after `close(e.done)`.

*MCP server.*  `at[c]`, `stream[l]` and `cancel[k]` are the places of the goroutines
of a tool call, of a `subscriptions/listen` and of a cancellation; `handlers` is
the `WaitGroup` that `ServeStdio` adds to before the goroutine exists (`Dispatch`)
and that the goroutine leaves (`Done`).  `pending` is `pendingElicit`, keyed by
`nano`, a reading of `UnixNano` that may stand still between two questions;
`inbox[c]` is the channel of one answer that a call waits on.  A registration and
the wait on it, the snapshot of the ready streams and the writes to them, taking
a stream from the list and writing its result are separate steps, as they are in
separate critical sections.  On stdio a `listen` handler returns once the stream
is ready; over HTTP it stays until its client is `gone`.

*Ground search.*  `at[s]` is a caller in `SearchByName`: `Get` and `Seen` each look
in one critical section and remove what had expired in another (`Evict` removes
whatever is there by then, `Unmark` looks again).  `flight[k]` is the run that
`groundGroup` has registered under a key; `owner`, `phase` and `outcome` are a run,
which keeps the options of the caller who launched it and outlives it.
`WalkAway` is a caller whose context ends: it forgets the key, *whichever* run is
registered under it.  `Conclude` is the rest of `searchByNameCore` after the
fan-out, with its two writes to the caches; `Mark`, the one to the negative cache,
first drops a mark when the cache is full: an expired one, or an arbitrary live one
when none has expired (`Victims`).  A `Season` is what a mark is about: service,
route and month.

*Cooldown.*  `mutex` is `googleMu`, `lock` the file lock, `mem` is `refuseUntil`,
`file` what the next reader gets from the cooldown file.  A call goes through
`beginGoogle` (`TakeMutex`, `TakeLock` or `GoWithoutLock`, `Refuse` or `Admit`) and
the attempts of `doWithRetryVia`; `Decline` arms in memory, `Truncate` and `Store`
are the two halves of `os.WriteFile`.  Two history variables: `sound` says that no
lock and no write has failed so far; `since` when Google last declined a call or,
if it did not, a deadline was first learnt from the file.

A definition marked *Mutant* is the form that a plausible bug would give the
definition after it; no specification uses it, and `PROJECT.json` says which
property rejects it.

## 3. Runs

Every `.cfg` is named after its run's module.  Times are with two workers.

| Run | Question | States | Time |
|---|---|---|---|
| `store` | Do two processes -- one may fail in any file operation, both may die anywhere -- keep the store's promises, starting from every kind of directory? | 508 k | 60 s |
| `store_live` | Does every call return, through recoveries inside `Load` and deaths of lock holders? | 7 k | 20 s |
| `polls` | Do two overlapping checks of a flight, of one that is about to change its currency, of a room or of a watch nobody has priced yet keep what is stored and said consistent, among re-watches in other currencies, edits and removals? | 477 k | 60 s |
| `migrate` | Is the migration idempotent, does it keep every price worth keeping, in every order of polls and observations around it?  Are routes evicted fairly? | 203 k | 50 s |
| `migrate_alerts` | Does a merge never repeat an alert? **Violated** (finding 1) | | s |
| `round_cache` | One call per target, no invented or lost price, the round ends | 91 k | 15 s |
| `scheduler` | One scheduler, silence after `Stop`, every `Stop` returns, fail-over | 21 k | 20 s |
| `mcp` | Do calls that ask and announce, a stream and its cancellation keep out of each other's way, is everybody served, on both transports? | 106 k | 45 s |
| `mcp_streams` | Do two HTTP clients with one id leave each other's streams alone? **Violated** (finding 2) | | s |
| `search` | Do callers who share, leave and overtake each other's runs get the right answers, and does the negative cache, full or not, keep what they rely on? | 426 k | 80 s |
| `search_negative` | Is only a run without errors taken for "no service"? **Violated** (finding 3) | | s |
| `cooldown` | Is a deadline kept by every process, through retries, deaths and failing locks, and does the silence end? | 395 k | 95 s |

### What the properties say

*Store.*  `FreshUntilSaved`: from the reload to the write, the generation in
memory is what the directory stands for -- the lost update between processes.
`ConversionSafe` has two parts: `StagedWhole`, only a complete, flushed generation
is renamed over a missing database, though an earlier process left its own
staging file; `LegacyCopied`, a database supersedes a legacy pair only when a copy
of it exists.  `DatabaseRespected`: `PublishedStays`, no recovery sets a published
database aside, however stale the observation that started it; `TornKept`, one with a
point that cannot be decoded only ever changes by a quote, which writes it in
place; `AlienUntouched`, one that every path refuses is neither renamed nor
written.  `GenerationSound`: whatever a load or a quote works on is `Sound` (in
`WatchGeneration`).  `CanonicalTexts`: stored currencies are canonical, on which
`withBoltMutation` relies; `Priced` and `Owned`: every retained point is a route's,
or a stored watch's, in its currency, and that watch has a price; `Capped`: both
caps hold from the first generation on.  `NoNewDuplicates`: a store in which no
target is watched twice stays so, however many processes `Add` it at once.  Soundness
does not ask for it, since old pairs hold duplicates (`watch/migrate.go:57`), which
only `Migrate` removes.  `Linearizable`: the store implements the ledger.
`EveryCallReturns`.

*Polls.*  `SeriesComparable` relates the history to the record: points in the
watch's currency, the newest being its last price, none under its lowest.
`AlertMemoryCoherent` does so for the alert memory.  `SwitchJustified`: two
consecutive quotes, and a question asked in the currency that is given up (rooms
excepted, see section 5).  `ThresholdsRespected` has two parts:
`ThresholdsFollowCurrency`, a poll takes a threshold away only with a currency
switch, and says so; `NoUnchosenPolicy`, who chose a threshold is never alerted by
the 10 % default instead.  `DropsComparable`: a reported drop is the distance from
the newest retained point, whatever committed while the check was in flight.
`NothingUndone`: no check brings back the currency or the watch of its stale copy.

*Migration and routes.*  `CleanStaysClean`, `LowCoversSeries`,
`ObservationsSurvive`; `QuietRoutesKept`: a route loses points only while no other
is left with two more than it, only its oldest, and only as many as a cap
demands -- for both ways of evicting.

*Round and scheduler.*  Stated beside each property.

*MCP server.*  `UpdatesFollowAck`: a stream is in the list before it is
acknowledged, and still hears of nothing before.  `AnswersRouted`: the read loop
never blocks on an answer, also when the client answers twice or two calls ask in
one nanosecond, and a call hears only an answer to its own id (`RoomForAnswer`,
`OwnAnswer`).  `FlushedAtReturn`: `ServeStdio` returns after every response.
`EveryoneServed`: no client can keep a call, a slot or the shutdown waiting by not
answering.  `CancelHonoured`: a cancellation that finds its stream ends it.

*Ground search.*  `NoInheritance`: nobody joins a run that another walked away
from, and the price is at most one run more per caller who did.  `AnswersFit`: a
result is complete and of a run for exactly what the caller asked, from the cache
only while fresh.  `NegativeKept`: a live "no service" is never removed by who read
an older one, nor by a run while there is room; only when the cache is full of
live marks does a run that marks another route take one away, and the marks never
exceed the capacity.  `StayersAnswered`: who stays gets an answer.

*Cooldown.*  `QuietKept`: nobody dials, at a first attempt or at a retry, before a
deadline it could know of.  `Shared`: what one process knows is in the file
whenever the lock is free.  `QuietEnds`: while locks and writes work, no deadline in
a client's memory, nor in the file that the others look at, is later than a cap
after the last refusal or, without one, after the first look at a file that may
hold anything: a damaged deadline is bounded once, not anew at every look.  When
the bound cannot be stored it *is* bounded anew (section 5), and nothing is
claimed.  `EveryCallEnds`.

### Bounds, and why they are enough

- *Two processes, two checks, three callers, three calls, three contenders for
  the scheduler.*  The hazards are between an actor and what another one does in
  the meantime; the mutants show that two reach each of them, and a third is there
  where two of a kind must meet another.  The proofs lift the results on control
  to any number.
- *Two targets, two currencies, spellings that canonicalise to them, one that is
  no currency.*  A property compares a currency with another one, a target with
  another one.
- *Prices from two or three values*, placed so that a threshold is met by one and
  not by the other.
- *Caps of 2 points per watch and 2 or 3 in all* (1 and 1 in `store_live`, which is
  about control; its watch is of a room, whose fold is short) are reached within a
  few polls; one legacy pair starts above both, with an orphan and a foreign
  currency, another with two watches of one target.
  Routes: four, with 3 points each and 3 in all, from corpora that are at or
  above the cap, one of them with more routes than points fit.
- `MaxQuotes` (5) bounds the answers folded in a behaviour: a switch needs two, an
  alert after it a third.  The two checks are interchangeable (symmetry on
  `Pollers`; the run has no liveness property).  `MaxPolls` (4) counts polls and
  observations, in any split around migrations.  `MaxQuarantine` is 2 (1 where the
  recovery is not the question) in place of 100; the directory starts with none
  or with all of them in use.
- *Requests to the store*: both targets are watched, one of them is added to,
  re-watched, edited, polled and removed, and one operation concerns the other
  only through the common caps.  An `Add` that is refused draws no ID.
- A process draws each watch ID once; collisions of random IDs are left out.
- *MCP*: three calls for two slots, two of them asking, one announcing; one stream
  and one cancellation (two streams of one id in `mcp_streams`); two readings of
  the clock, so that two questions may share one.  A call asks at most once.
- *Search*: two callers with one key and a third with another of the same month,
  who bypasses the caches; one provider (two in `search_negative`, so that one
  breaker can trip while the other answers), 2 or 3 runs.  Expiry, cooldown and
  threshold are 0 or 1 with a clock of one tick, which is enough for an entry to
  expire between its two critical sections; the breaker and the negative cache
  start with any past.  The negative cache holds two marks (in place of 4000) of
  three seasons, one of which no caller asks about, so that a run meets it full
  and must evict.  Callers come only while there is a name for the run they may
  launch (`Comes`).
- *Cooldown*: two calls of one process and one of another, two attempts, waits of 1
  and 2, a cap of 2 and a clock to 3: a deadline can be armed, outlived and armed
  again.  The file starts empty or with a deadline beyond the cap.  The clock
  never runs backwards.

`CHECK_DEADLOCK FALSE` is set for `polls` (quotes are used up and IDs drawn) and for
the runs of `McpServer`, `GroundSearch` and `GoogleCooldown`, whose requests come
once each: there everything may come to rest.

### Fairness, and why the code justifies it

- *Store*: running code goes on (`WF` on `Advance`); `flock` serves everybody who
  waits (`SF` on `TakeLock`), since holders come and go.  Nothing obliges a
  process to call, to fail or to die.
- *Scheduler*: a launched goroutine and a called `Stop` go on (`WF`).  `SF` on
  `Quit`, because Go's `select` chooses uniformly between a cancelled context and
  a ticker that are both ready; `SF` on `Acquire`, because an attempt that is
  possible again and again is not for ever met by an error of the file system.
  Nobody is obliged to call `Start` or `Stop`, and daemons owe nothing.
- *Round*: a goroutine that can go on does (`WF`), provider calls included: they
  are given a context with a deadline.  A send on the semaphore takes turns
  (`SF` on `Enter`).  Deadlines and cancellation are not fair: the round ends
  without them.
- *MCP*: goroutines go on (`WF` on the steps of a call, a stream, a cancellation, and
  on `StopServing`).  Among the steps of a call are its deadline in the queue and
  the five minutes after which a question is given up, so that the model needs
  no help from the client: nobody has to answer, to cancel, to disconnect or to
  end the input.
- *Search*: a caller that has begun goes on, and so does a run, whose providers are
  given a context with a deadline (`WF`).  No caller has to come, and no caller's
  context has to end.
- *Cooldown*: a call goes on (`WF` on `Progress`); requests have a timeout.  Nothing
  has to fail, no context has to end.

## 4. Proofs

| Theorem | Statement |
|---|---|
| `TypeCorrect`, `NoLostUpdate`, `ConvertedSafely` (`NothingHalfPublished`, `CopiedBeforeConverted`) | `WatchStore`: `Spec => []` `TypeOK`, `FreshUntilSaved`, `ConversionSafe` |
| `DatabaseKept` (`PublicationStays`, `TornStays`, `AlienKept`) | `Spec => DatabaseRespected` |
| `Implements` | `Spec => Linearizable`: the store refines the ledger |
| `AlwaysSound`, `NeverTwice` | `WatchStore`: `PricedPairs => (Spec => []GenerationSound)`, `PricedPairs => (Spec => NoNewDuplicates)`: the content of a published database |
| `PollInvariant`, `AlwaysComparable`, `AlwaysCoherent` | `WatchPolls`: `Spec => []` `PollInv`, `SeriesComparable`, `AlertMemoryCoherent` |
| `SwitchesJustified`, `ThresholdsKept` (`ThresholdsFollow`, `NoPolicyUnchosen`), `DropsAreComparable`, `NothingIsUndone` | `WatchPolls`: `Spec =>` `SwitchJustified`, `ThresholdsRespected`, `DropsComparable`, `NothingUndone` |
| `SchedulerTyped`, `Elected`, `StopsForGood` | `WatchScheduler`: `Spec => []` `TypeOK`, `OneScheduler`, `StoppedIsQuiet` |
| `MigrationInvariant`, `MigratesOnce`, `LowIsLowest` | `WatchMigrate`: `Spec => []` `IInv`, `CleanStaysClean`, `LowCoversSeries` |
| `ObservationsOutlive`, `QuietRoutesAreKept` | `WatchMigrate`: `Spec =>` `ObservationsSurvive`, `QuietRoutesKept` |
| `RoundTyped`, `OneCall`, `OnePrice`, `EveryoneHears` | `RoundCache`: `RoundSpec => []` `RoundTypeOK`, `OneCallPerTarget`, `PricesAgree`, `NothingLost` |
| `ServerTyped`, `AcknowledgedFirst`, `Routed`, `Flushed` | `McpServer`: `Spec => []` `TypeOK`, `UpdatesFollowAck`, `AnswersRouted`, `FlushedAtReturn` |
| `SearchTyped`, `NotInherited`, `Answered`, `MarksKept` | `GroundSearch`: `Spec => []` `TypeOK`, `[]NoInheritance`, `AnswersFit`, `NegativeKept` |
| `Quiet`, `DeadlinesShared`, `QuietOver` | `GoogleCooldown`: `Spec => []` `QuietKept`, `Shared`, `QuietEnds` |

They hold for any sets of processes, requests, callers, calls, streams, keys,
targets, currencies, prices, wishes, caps and starting states, under the named
assumptions of the modules only, and for the content of the store under the
hypothesis `PricedPairs`, which the theorems state.

- `ProcAssumption`, `SchedulerAssumption`, `RoundAssumption`, `McpAssumption`,
  `SearchAssumption`, `CooldownAssumption`: identities are distinct, sets that are
  counted are finite, starting files have the shapes the code distinguishes.
- `CurrencyAssumption`: to canonicalise a text twice changes nothing, and a
  currency code is canonical.  `TargetAssumption`, `RouteAssumption`: the targets
  that are rooms are targets; no route has the name of a watch, and the keys of
  routes are in a strict order (the code compares strings).
  `RetentionAssumption`: the caps are positive, as `retentionConfig` demands.
- `RequestAssumption`, `PollAssumption`: what callers ask for has a type, its
  prices are positive, a quote to be recorded is canonical (`check.go` makes it so),
  and the ID of a new watch is not one of old points.
- `StartAssumption` of `WatchStore`: a database that was published before is
  `Sound`, the text of a damaged point aside; a legacy pair is any generation,
  with any number of watches of a target, any currencies, owners and points.
- `PricedPairs`, a hypothesis of `AlwaysSound` and `NeverTwice` only: in a legacy pair
  a watch that has points has a price (`Loadable`), as polling leaves both at once;
  of a pair that differs, see section 5.  The conversion establishes the rest.
- `StartAssumption` of `WatchMigrate`: an old store may hold any number of watches of
  a target, in any currencies and with any dates, and a history beyond every cap;
  each watch alone is in order (its points are in its currency, none under its
  lowest price, which is what polling it led to), and every point is a watch's or
  a route's.
- `StartAssumption` of `WatchPolls`: the store is one that earlier calls left, in
  the middle of a confirmation or not: what it says of records and series is what
  the theorems show to be kept.  A store that `Migrate` has merged may differ, as
  the newest point of two series need not be the last price of the surviving
  watch.

*Store.*  `FreshUntilSaved` is not inductive: that nobody else writes between a
reload and a save follows from who holds the lock, and that nobody else
*quarantines* follows from what a holder knows of the database.  The inductive
invariant `IInv` adds `LockHeld` (every label that observes or changes the
directory for a mutation implies holding the lock, a Load's `recheck` included),
`LoadsOnlyRead`, `DatabaseKnown` (what the holder has learnt of `watch.db` still
holds), `QuoteConverts` (a quote comes to the write path only to convert),
`SavesDecided` (what is saved is what the callback decided to save) and
`CopyPrecedes`.  One lemma per family of actions shows that a step keeps it; the
frame lemmas say what a step leaves alone.  `Effect`, `Canonical` and `Compact`
are never expanded: the results do not depend on what the operations compute.
For the refinement each action is mapped to a ledger step or a stutter, with the
linearization points in the code's order: a mutation at its commit, a `Load` at
its read transaction, or, when it finds no database, at its `Stat`, since the
legacy files never change.

*Content.*  `GenerationSound` is about the published generation, and inductive
together with `PricedPairs`, of a legacy pair that nothing writes (`PublishedInv`).
Three actions write it.  `Commit` and `Tx` (`TxWrites`) apply an operation to a
generation that is `Sound`; that the one a writer holds is the one it replaces is
`FreshUntilSaved`, proved before.  `Publish` writes what `Compact` made of a
`Loadable` pair and one operation.  That no operation makes duplicates where there
were none is a part of `EffectKeeps`, and gives `NeverTwice` by the same three
cases.  So the proof is about operators: `WatchGenerationProofs` shows that
`AddTo`, `RemoveFrom`, `UpdateIn` and `RecordIn` keep a sound generation sound
(`EffectKeeps`) and that `Compact` makes one (`CompactSound`).  Below these are the
lemmas on sequences: `WithoutIs` says what is left when positions go (a rank
function is a bijection and preserves the order), `EvictOldestIs` that an eviction
leaves the newest and as many as the limit, and `LeftOf`, a transitive relation,
that a purge, an eviction or the fair share only takes points away.

*Polls.*  None of the six properties is inductive.  `PollInv` adds to `Sound`:
`Settled` (`Comparable`, `Coherent` and `Kept`, the last being what a fold needs to
preserve the other two: a high-water mark implies a lowest price, a cleared
threshold no mark), `Remembered` (a dissent remembered by a watch is the currency
of the quote folded last, and a chosen threshold is there or marked as cleared)
and `InFlight` (an answer without a currency was given to a question without one,
so that a fold behind the gate on the poll identity cannot make a watch forget
its currency).  `FoldSays` splits a fold by what it does to the currency, believed
or doubted; `FoldKeeps` shows that a fold keeps the invariant, `FoldUpholds` that it
satisfies the action properties, and `OnlyFoldFolds` that no other step is a fold.  For the
history `NewestStays` is the lemma that matters: an eviction never takes the newest
point of a series while the cap is positive, so the point just appended stays
the last price.

*Scheduler.*  `OneScheduler` needs `RoundsLocked`; `StoppedIsQuiet` needs to know
who answers for the kernel's lock.  `LockAccounted` says it: a process between
grant and handle, the handle, or the one `Stop` that took it.  `OneLaunch`,
`StartedOnce`, `StopPassed` and `StoppedFirst` are what `sync.Once` and the order
of statements in `Start` and `Stop` give.

*Round.*  Everything follows from who may write an entry: `CallsCounted` (a call was
made for a key exactly when somebody is registered for it), `CallersLead` (who is
in a call is registered and the entry still open), `FinalLed`.

*MCP server.*  The invariant has four parts that do not need each other.
`SlotsHeld` counts the calls inside a tool.  `PendingWaits` says that who is
registered under an id is waiting under it, so that a second question with the
same reading of the clock replaces a registration without leaving a dangling
one; with `WaitingAsks` it gives `AnswersRouted`.  `ToldReady` says that only streams
that are, or were, ready are in a snapshot.  `Counted` equates the `WaitGroup` with
the requests that are not over, and `Ends` that the server returns at zero after
the input ended, when nothing can be dispatched any more.

*Ground search.*  `RunsFit`, `CallersFit` and `KeysFit` say that what a caller waits for,
what a key is registered for and what the cache holds are runs for the right key,
and that one that has concluded no longer changes: `AnswersFit` through any order
of forgotten and overtaken runs.  `Counted` bounds the runs in flight by the
callers who left; its step needs that a forgotten key costs a caller who will not
come back.  `Room` is about the model's names for runs.  `MarksKept` needs that the
marks are within the capacity (`MarkRoom`), from which a run that takes a live mark
away met the cache full of live ones.

*Cooldown.*  `QuietKept` needs that what a call saw in the file when it was admitted
is still there when it dials.  `MutexHeld` and `LockHeld` say that it alone may write
(the latter while nothing has failed), `FarAdmitsNobody` that a damaged file
admits nobody, and for `Shared`, `Known`, `StoresLatest` and `StillThere` follow a deadline
from the memory of one process into the file while the file is cut off and
written again.  `QuietEnds` adds `MemCapped`, that what a client knows is within a
cap of the clock, and `Ends`, that a file which is not is about to be replaced by the
call that holds the lock.

*Migration.*  `CleanStaysClean` says that a second migration has nothing to do.  It
is not inductive: what a later poll or observation leaves must again be what a
migration would leave alone.  `IInv` says what that is.  `Clean`, of a migrated
store: `Sound`, every route under its cap and all of them under theirs
(`RoutesCapped`), and a renewal date for every watch; and `InOrder`, of any store:
types, one watch per ID, canonical currencies, `Placed` and `AllCovered`
(`LowCoversSeries`).  The step of a migration has two cases (`MigrateDoes`).  One
that saves leaves one watch of a target (`CollapsedIs`) and compacts the history
(`CompactDoes`).  One that does *not* save found as many watches and points as it
would leave, and from that it follows that each group was one watch and nothing was
over a cap, so that the store was that one already (`MergeNothing`,
`CompactNoShorter`).  `CleanSkips` is the converse: to compact a clean store changes
nothing (`CompactClean`).  `PollKeeps` and `ObserveKeeps` show that `Clean` survives
what comes between two migrations.

`LowCoversSeries` through a merge is `MergeKeeps`: the points of an heir come from
members of the survivor's currency (`HeirIs`), each covered by the low of the member
it had, and the merged low is the least of these (`MergedIs`).
`ObservationsSurvive` needs in addition that neither the reassignment nor the caps
change what is newest in a series (`MigrationKeepsNewest`).

`QuietRoutesKept` rests on one lemma on `ShareOut` (`ShareOutIs`): it takes only
oldest points of a route, meets the budget, and takes from a route only while no
other keeps two more than it (`FairShareFair`, `PruneRoutesIs`).  The argument is by
the quota: all routes keep as many points as that, or all they had, one more for
everybody would not fit (`QuotaIs`), and so the turns use up the budget
(`EnoughBehind`, `BudgetSpent`).  A migration and an observation are then
the share of a history with at most one new point.

*Only model-checked.*  The liveness properties -- `EveryCallReturns`,
`EveryoneServed`, `CancelHonoured`, `StayersAnswered`, `EveryCallEnds`, `StopReturns`,
`FailOver`, `RoundReturns` -- since reasoning under fairness and `ENABLED` is beyond
the prover used; and that the closed forms of the scan and of the transaction's eviction
are what the code's loops compute (`SurvivorIsScanned`, `ShareIsEvicted`), which needs an
induction over data that the installed provers cannot instantiate.  Every safety
invariant and action property of a passing run is stated by a theorem.

## 5. Findings

1. **A merge repeats an alert** (`migrate_alerts`).  `LastAlertedPrice` of a group
   becomes the highest of its members' because "the HIGHEST value suppresses
   most" (`watch/migrate.go:275`); `Evaluate` is silent at and above that price
   (`pricealert.go:106`), so the highest suppresses least.
2. **An HTTP client's cancellation may take another client's stream**
   (`mcp_streams`).  The streams are "keyed by pointer so two HTTP clients that
   both use request id 1 do not close each other" (`mcp/server.go:121`), but the
   cancellation path looks a stream up by its id among those of all clients
   (`mcp/protocol_2026.go:338`).
3. **A route is marked as without service though a provider was not asked**
   (`search_negative`).  "A run with any error is never cached"
   (`ground/search_prefetch.go:25`); a provider skipped because its breaker tripped
   on errors adds no error to the run (`ground/search.go:655`), and the mark
   outlives the breaker's cooldown.

Seen while modelling, without a run:

- `Load` may report an error though no file failed: two processes find a database
  that was never published, the first renames it aside, the second finds nothing
  to examine (`watch/store_bolt_recovery.go:127`; `store.go:111` says "not an
  error").  A retry succeeds.
- Rooms adopt another currency on a single poll (`check_room.go:252`), which
  `watch.go:94` calls no evidence.  `SwitchJustified` is about flights for that
  reason.
- Three seconds of pause and a budget of 60 s let a daemon's round check about
  twenty watches, and the next round starts from the first again (`check.go:183`;
  "all saved watches", `watch_daemon.go:44`).
- The breaker's doc speaks of a single half-open probe; `Allow` lets every search
  through once the cooldown is over.
- `Get` removes, in its second critical section, whatever the key holds by then, a
  fresh entry included (`cache.go:72`): a search is repeated.  A caller that walks
  away forgets whichever run is registered by then: likewise.
- A tool call that asks the user may outlast `toolTimeout` by the five minutes of a
  question.
- A change that happens between a stream's acknowledgement and its being marked
  ready is not sent to it; one whose fan-out had begun may be sent after the
  stream's result.  The responses of streams are written without a common lock.
- A deadline restored from the cooldown file is bounded once if the bound can be
  stored.  If the write fails, no lock was had or the process dies first, the far
  deadline stays in the file and is bounded anew by every process that looks, so
  that the silence outlasts the cap (`batchexec/refusal.go:129`).  Nor is it
  bounded again when the clock is set back.
- A database with a history point that cannot be decoded is refused by every load
  (`watch/store_bolt.go:213`) and still written by quotes, which do not decode the
  history (`store_bolt.go:107`); a purge or a cap may drop the point unread.
- A purge after a change of currency looks at the watch's price only; points of a
  watch without one, as an old pair may hold, keep their currency.

## 6. What is not modelled, and why

- *Inside the watch modules.*  A damaged legacy JSON file (Load reports it and
  changes nothing); a backup of one of the two legacy files only; loss of a
  rename at a power failure (no directory is flushed); the in-memory list a
  `Store` serves between operations; platforms without `flock`
  (`lock_other.go`), where the code gives no exclusion; collisions of random
  watch IDs; travel dates, the TTL and last-minute mode; webhook delivery, which
  is fire-and-forget; the choice among several room offers; the migration's dry
  run, which does the same on a copy; a scheduler's probe hook; the pauses of a
  round and its deadline.  A bbolt transaction is taken as atomic and durable.
- *Inside the MCP server.*  `initialize` and the capabilities it negotiates,
  authorisation and origins over HTTP, legacy subscriptions, pings and lists,
  progress, and the tools themselves, of which only what they ask and announce is
  kept.  Whoever writes a response is taken to write it whole.
- *Inside the ground search.*  The providers' requests and parsers, ranking and
  filters, currency conversion, prefetching, travel hacks, the pairing of two
  directions, and the size bound of the response cache.
- *Inside the cooldown.*  The reading of wait hints from headers and bodies (a choice
  among waits), the limiter and the response cache of the client, a clock that is
  set back.
- *Parts.*  Those marked `not_modelled` in `PROJECT.json`: either planned below,
  or stateless -- request building, parsing and ranking over network data, which
  is most of the code.

## 7. Plan

Done, in this order: `WatchRecord`, `WatchGeneration`, `WatchStore` with its
abstraction and its proofs, `WatchPolls`, `WatchScheduler` with its proofs,
`RoundCache`, `WatchMigrate`; then `GoogleCooldown`, `McpServer`, `GroundSearch`
(with breaker and caches) and the proofs of these and of `RoundCache`, route
observations; then the proofs on content, of `WatchGeneration` for `WatchStore`, of
all of `WatchPolls` and of all of `WatchMigrate`.

Next, most important first:

1. `JsonFiles`: `atomicjson` writes by processes that die, the cleaning of
   orphans, and on it the trip store, which rewrites two files without a lock.
2. The probe budget, the limiter of the provider engine and the coalescing of
   trips: tokens and deadlines shared by searches.
3. Room offers and `Store.RecordPrice` into `WatchPolls` and `WatchStore`; the
   database's indexes refined to the history sequence.
