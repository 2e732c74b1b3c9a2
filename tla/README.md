# Verification of the Microsoft OpenTelemetry distro for JavaScript

TLA+ models of the parts of `src/src` that keep state across calls, awaits, timers,
processes and restarts, or that decide what is recorded and sent; TLC configurations that
check them on small instances; and machine-checked proofs. Paths below are relative to the
repository; line numbers are in `PROJECT.json` (`map`, `hazards`, `findings`).

Run from this directory: `tlc -config X.cfg M` for a run of the table in section 3, and
`tlapm M.tla` for each module whose name ends in `_proof`.

## 1. The system

The distro configures OpenTelemetry for Node.js and adds exporters, processors and
instrumentations:

| Component (`src/src/...`) | State it keeps | Operations | What is hard about it | What makes it correct |
|---|---|---|---|---|
| Transmission gate, `a365/exporter/durable/TransmissionGate.ts` | generation, blockedUntil, probeInFlight, consecutiveFailures | acquire, recordSuccess, recordRetryableFailure | outcomes of concurrent sends arrive in any order, also after the state they were admitted under is gone; the wall clock moves both ways | one probe at a time, never wedged, a late success lifts no newer backoff, a burst counts once |
| Gate registry, `.../TransmissionGateRegistry.ts` | map of tenant to entry (gate, lease count, last access) | acquire, release, trim | entries are dropped while senders hold objects | one gate per tenant in use, exact lease counts, backoffs survive trimming, capacity |
| Record store, `.../PersistentStore.ts` | a directory: file names carry the state (`.tmp`, `.json`, `.lease`, `.quarantine`) | persist, pruneForCapacity, claimBatch, recoverStaleLeases, complete, release, quarantine | several processes, no lock between them; an await between any two file operations, each of which may fail, a rename also after its effect; crashes | exclusive claims, no leaked temporaries, held records not removed, leases end, the storage bound |
| Delivery manager, `.../DurableDeliveryManager.ts` | active promises, serialised passes, replay timer, closed/stopped flags | deliver, replay pass, startReplay, forceFlush, beginShutdown, shutdown | live delivery, replay, flush and shutdown interleave at every await; each step may fail | at-least-once delivery, quiet shutdown, flush covers what was accepted, healthy records are not starved |
| Agent365 exporter, `a365/exporter/Agent365Exporter.ts` | active exports, durable initialisation promise, manager, shutdown flags | export, exportGroup, postWithRetries, forceFlush, shutdown | initialisation, exports, the shutdown deadline and the manager's own shutdown race | no manager outlives shutdown, accepted exports are answered, SUCCESS means complete |
| Exporter utilities, `a365/exporter/utils.ts` | none | partitionByIdentity, truncateSpan, estimateSpanBytes, chunkBySize | escaping and multi-byte text at the size limits; a key joined from two identifiers | payloads fit, keep the spans and their order, cut no more than needed |
| Agentic token cache, `a365/hosting/agenticTokenCache.ts` | LRU map of entries, per-key lock chain | refreshObservabilityToken, getObservabilityToken, invalidateToken, invalidateAll | entries are evicted or invalidated while an exchange is awaited; timeouts and retries | one exchange per key, fresh tokens, final invalidation, refreshes end |
| Live metrics, `azureMonitor/metrics/quickpulse/` | collecting flag, etag, configuration, ping timers, meter provider, counters, documents, derived metrics | goQuickpulse, quickPulseDone, activate/deactivate, shutdown; recordSpan, recordLog, the gauges' collection | two modes, pings and posts in flight while the mode changes; items recorded while the configuration changes | no provider after shutdown, never asleep, one configuration per etag, exact rates and derived metrics |
| Metric handler, standard metrics, performance counters (`azureMonitor/metrics/`) | counters | markSpanAsProcessed, recordSpan, recordLog | one handler's exception keeps an item from the next | every item counted once by each |
| Distro life cycle, `distro/` | module-level SDK, shutdown flag, loaders, console instrumentation | useMicrosoftOpenTelemetry, shutdownMicrosoftOpenTelemetry | nothing orders a new initialisation after a pending shutdown, or the dynamic imports of either; a registered processor and a wrapped method outlive the singletons | shutdown leaves nothing of what it takes down, a new initialisation and the runs under it are served, spans have an exporter |
| SDK stats, `sdkstats/` | singleton manager, pipelines, request counts, feature flags and their environment variable | initialize, shutdown, observe, count | counts drained by two collections; pipelines that export once more while they close | each request reported once, features of this process |
| LangChain instrumentation, `genai/instrumentations/langchain/` | maps of runs and parents, a wrapped method | onRunCreate, _endTrace, enable/disable | ends that never come, parents that are evicted, hidden or ended; data at many places | spans end, parents and callers are true, content only with consent |
| OpenAI agents instrumentation, `genai/instrumentations/openai/` | maps of spans, roots and handoffs | start/end of spans and traces, shutdown | data complete only at the end, and malformed data that throw there; concurrent agents of one name | as above, a handoff is taken once |
| Main agent processors, `mainAgent/` | none | onStart, onEnd | copied from a parent that may not be complete | the topmost agent is named |
| A365 scopes, baggage, middleware and messages, `a365/{scopes,middleware,processors,hosting,context}`, `message-utils.ts` | context baggage, a span per scope, a turn's parent reference | scopes' start, records and disposal; baggage builder; middleware of turns and sends | nested and asynchronous turns; a send or a tool that throws; shared and circular payloads | identity of the right turn, records complete, spans end |
| Trace and log processors, sampler, OTLP set-up, configuration, browser loader | none | attribute mappings, wiring | numeric edges | — |
| Diagnostic file logger, `shared/logging/diagFileConsoleLogger.ts` | a log file and its backups | append, rotate | awaits between size check, read and overwrite | no line lost |
| QuickPulse client (generated) | none | parsing, I/O | — | — |

How they interact. `Agent365Exporter.export` groups the spans of a batch by identity and
starts one asynchronous task per group, which cuts spans down and packs them into chunks.
If durable delivery is enabled, the task waits for the initialisation (directory, ACL,
store), then hands each chunk to `DurableDeliveryManager.deliver`, which leases the
tenant's gate from the `TransmissionGateRegistry`, resolves a token, acquires a permit and
sends; a retryable failure or a shut gate persists the record. Replay passes claim records
one by one from the `PersistentStore` and send them through the same gates. `forceFlush`
and `shutdown` of the exporter drain its exports, wait for the initialisation, and call the
manager's. The store's directory is shared with other processes. The token cache is used by
the hosts' token resolver.

`useMicrosoftOpenTelemetry` builds the SDK with its processors, starts the SDK stats and
imports the GenAI instrumentors. The spans that those and the A365 scopes start pass the
main agent's processor (which reads the parent's attributes) and the A365 span processor
(which reads the baggage that the middleware put into the context) before they are
exported. The metric handler passes every span and log record to live metrics and to two
sets of counters. Exporters count their requests in the SDK stats.

## 2. Modules

| Module | Models | Extends / uses |
|---|---|---|
| `GateOps` | the methods of one gate, as operators on a gate record and a clock reading | |
| `TransmissionGate` | one gate shared by concurrent senders | `GateOps` |
| `TransmissionGateRegistry` | the registry and the sends that lease from it | `GateOps` |
| `PersistentStore` | the record directory, two processes with two lanes each | |
| `DurableDelivery` | abstract: what durable delivery promises | |
| `DurableDeliveryManager` | the manager over an abstract store and gate; refines `DurableDelivery` | `INSTANCE DurableDelivery` |
| `Agent365Exporter` | export, durable initialisation, flush, shutdown, over an abstract manager | |
| `ExportPayload` | grouping, mapping, cutting down, size estimate, chunks, envelopes (pure) | |
| `Agent365Export` | the exporter with real batches: life cycle and payloads composed | `Agent365Exporter`, `ExportPayload` |
| `AgenticTokenCache` | the token cache | |
| `LiveMetrics` | the protocol of pings, posts, timers, etag and shutdown | |
| `QuickpulseData` | the columns live metrics and the counters read from spans and log records (pure) | |
| `QuickpulseFilter` | validation, filters, projections and aggregation (pure) | `QuickpulseData` |
| `MetricHandler` | what is recorded and reported between and across the steps of `LiveMetrics`, by all three handlers | `LiveMetrics`, `QuickpulseFilter` |
| `SdkStats` | the stats manager, its pipelines, request counts, features | |
| `GenAIInstrumentors` | the singletons that wrap the frameworks, and the tracers that runs get | |
| `DistroSetup` | instrumentations and the chain of processors, from the options (pure) | |
| `Distro` | initialisation and shutdown, composed with the three above | `SdkStats`, `GenAIInstrumentors`, `DistroSetup` |
| `LangChainRun` | what is read off a LangChain run (pure) | |
| `GenAISpans` | the tree of spans and the main agent's processor | `LangChainRun` |
| `LangChainTracer` | the tracer's callbacks and maps | `GenAISpans` |
| `OpenAIAgentsTraceProcessor` | the processor's callbacks and maps | `GenAISpans` |
| `ToolPayload` | serialisation of messages, arguments and results (pure) | `LangChainRun` |
| `A365Baggage` | baggage builder, turn context, span processor (pure) | `LangChainRun` |
| `A365Scopes` | what each scope writes, when it starts and while it is open (pure) | `A365Baggage`, `ToolPayload` |
| `A365Turns` | turns, scopes and sends of a hosted agent | `GenAISpans`, `A365Scopes` |
| `GenAI` | both instrumentations and A365 over one tree of spans | `LangChainTracer`, `OpenAIAgentsTraceProcessor`, `A365Turns` |
| `PersistentStore_proof`, `DurableDeliveryManager_proof`, `AgenticTokenCache_proof`, `MetricHandler_proof`, `Distro_proof`, `GenAI_proof` | theorems | the module named, `TLAPS` |
| `TransmissionGateRegistry_proof` | theorems about the gate and the registry | `TransmissionGate`, `TransmissionGateRegistry`, `TLAPS` |
| `Agent365Exporter_proof` | theorems about the exporter and its payloads | `Agent365Export`, `TLAPS` |
| `MC...` | scenarios, symmetry and sizes of a run | the module that each extends |

The durable half is composed by layers. `GateOps` is evaluated unchanged in the single gate
and in the registry. The manager does not repeat the clock arithmetic of the gate or the
files of the store: it sees a gate as *open, blocked, halfOpen, probing* and a permit as
*current* or *stale* (what `TransmissionGate` shows the generations amount to), and a
record as *pending, leased, expired* or absent. The exporter likewise sees a manager
whose life is *running, stopping, closing, complete, failed*. Each abstraction admits
every outcome the lower layer can produce: a call of the store may fail before its effect
or after it (a claim then leaves a lease that nobody holds, a release a record that is
pending although the call threw). The other
compositions are conjunctions over shared variables: `MetricHandler` adds to each action of
`LiveMetrics` what it does to the telemetry, `Agent365Export` gives every chunk its
contents, and `GenAI` puts three producers of spans before the same processors.

Correspondence of state and actions:

* **TransmissionGate.** `gate` has the four fields of the class. `Acquire`, `SendSucceeds`
  and `SendFails` are the callers' calls; `RetryDelays` is the set of every delay
  `recordRetryableFailure` can compute (Retry-After capped to the maximum, or the jittered
  exponential, floored and clamped). `ClockMoves` also sets the clock back, since the
  gate reads `Date.now()`. `startedAt` of a permit is a ghost.
* **TransmissionGateRegistry.** `heap` holds entry objects, `registry` the map: an object
  may be out with a sender after the map dropped it. `AcquireLease` and `Release` contain
  both calls of `trim`. `deadline` is a ghost: the backoff a tenant was told to observe.
* **PersistentStore.** A file is a record, a kind and a version; the version stands for
  the time stamp, pid and UUID of its name. Every await of the code is a step: `readdir`,
  the stats, each unlink and rename, the temporary's write. A rename of a path that is
  gone meets ENOENT exactly where the code handles it. Every call may fail otherwise, too:
`PersistFails` with nothing done, `WriteFails` with the temporary there (write, sync,
close), `PublishSyncFails` with the record already pending, `RemovalFails` in the error
path itself; `ClaimFails` ends a batch, or a settling, before the effect of its rename or
unlink or after it, when the sync of the directory fails. `mishaps.abandoned` is a ghost: the records whose temporary no
writer is left to remove, after a crash or a failed removal. Ageing of files, expiry of leases,
  damage of a file and crashes are actions of the environment.
* **DurableDeliveryManager.** A step runs from one await to the next. Outcomes a healthy
  environment does not produce spend a fault from the scenario's budget; a store operation
  that fails may have had its effect. `Restart` keeps
  the store, the endpoint and the answers already given, and resets the rest.
* **Agent365Exporter.** The three waits of `shutdown` under one deadline are
  `ExportsDrained`, `Initialized`, `ManagerClosed`, and `DeadlinePasses` may pre-empt any
  of them; `Finalize` is the `finally` clause. `InitSucceeds` contains
  `closeLateDurableManager`. A group that gets no token over the network ends as
  *skipped*, and a batch of which every other group succeeded reports SUCCESS: that is
  what the code does, and SuccessIsComplete says exactly that.
* **ExportPayload, Agent365Export.** A text is its length, the width of its code points and
  the factor by which JSON lengthens it, so that a byte limit can fall within a code point
  or an escape; sizes are bytes with the code's own limits. `truncateSpan` is the loop over
  the shrinkable parts, largest first; keys of groups are joined with a colon, as in the
  code, from identifiers that are sequences of characters. The loop that fills a Map of
  groups is one definition (`GroupedBy`): the keys in the order of their first item, each
  with its items in order.
* **AgenticTokenCache.** A token is named after the refresh that obtained it, an entry
  object after the refresh that made it. `Begin` runs from the lock to the exchange. An
  exchange without an `exp` claim leaves `expiresOn` as it was, as the code does.
* **LiveMetrics.** A chain of pings is a pending timer (`handle`, or one of the `orphans`
  it no longer refers to), a ping in flight, or a `goQuickpulse` about to be resumed
  (`pinged`: other answers may be handled between the answer and the resumption).
  `QuickPulseDone` is the one handler of all answers. A configuration is its etag. A
  response of the service is any pair of headers, since several subscribers may come and
  go between two requests; one with a new etag carries its configuration. That a provider
  that is shut down exports once more is the metrics SDK's doing (external).
* **MetricHandler.** `recorded` is a history, `rateMark` and `valueMark` say where the
  current intervals began: the properties compute from them, by definitions of their own,
  what `totals`, `last` and `projections` should amount to. A filter that throws half-way
  leaves what the code has done by then. Texts are sets of words, and a filter on any
  field reads every column as the text it is printed as; a gauge reports a count
  instead of a count divided by the time.
* **Distro, SdkStats, GenAIInstrumentors, DistroSetup.** SDKs, pipelines and options are
  named after the initialisation they belong to; "the" SDK and pipeline are what the
  module-level variables hold. A call of shutdown is a position in its chain of promises.
  `importing` holds what awaits each dynamic import. Resetting a singleton removes neither
  the processor that is registered with the agents' SDK nor the wrapper of LangChain's
  method: `registered` and `wrapper` go on with the tracer of the SDK they were made under,
  until another takes their place. `ConfigureRun` is a run of LangChain on new handlers or
  on the handlers of earlier runs; a tracer that it finds there is kept, with its SDK, and
  gets the wrapper's flag. Both meter providers of a pipeline are one. `orderly` is a ghost:
  no call has overlapped another; `since` and `at` are ghosts: the initialisation under
  which the handlers got their tracer, and under which the last run began.
* **LangChainTracer, LangChainRun.** A run holds, for each datum, a function from the places
  where LangChain may leave it to values, and the code's order of places decides. `runs`
  and `parentByRunId` are the tracer's maps; over the limit a run gets no entry.
* **OpenAIAgentsTraceProcessor.** `otelSpans`, `rootSpans` and `reverseHandoffsDict` are the
  maps of the same names, the last in insertion order. The SDK's spans nest; a trace may
  end, and the processor be shut down, at any time. `onSpanEnd` drops the entry of the span
  before it reads the span's data; a null content block in a response's output or input
  throws there (`ThrowsAtItsEnd`), and the span keeps what it was given by then and is never
  ended. In an input that is a text, the same block is caught and the text kept as it is.
* **A365Turns, A365Scopes, A365Baggage, ToolPayload.** A turn is processed within another
  scope's callback or at the top; its middleware puts baggage into the context; the
  application's calls to the builder follow. A scope is started, makes its records one by
  one and is disposed of, possibly with an error thrown through it; a send waits and
  succeeds, fails, or throws what cannot be printed, so that no error is recorded. Payloads are a heap of objects, so that sharing and cycles exist.

## 3. Runs

| Run | Module and cfg | What it shows |
|---|---|---|
| gate | `TransmissionGate` | ProbeIsOneSend, BackoffLiftedByLaterSend, BurstEscalatesOnce, with a clock that jumps both ways |
| registry | `MCTransmissionGateRegistry` | RegistryInv (types, one gate per tenant in use, exact lease counts), NoSendDuringBackoff, CapacityAfterEachCall |
| store | `MCPersistentStore` | StoreInv (types, one valid claim per record, no temporary without a writer, whichever call failed), HeldRecordIsSafe, UndisturbedPersistFits, LeasesEnd |
| manager | `MCDurableDeliveryManager` | ManagerInv (types, a probing gate has a sender), ShutdownIsQuiet, FlushCoversDeliveries, AtLeastOnce (refinement of `DurableDelivery`), HealthyRecordsLeave |
| exporter | `MCAgent365Exporter` | CleanShutdown (no manager left open, no accepted export refused before the deadline, nothing unfinished when it resolves), SuccessIsComplete (every span sent once, under its own identity and scope), PayloadsFit (no request too large, a group handed over in order), SpansAreCutAsNeeded, EverythingEnds |
| token_cache | `AgenticTokenCache` | LimitsAreKept (of size, with the order of use in step with the entries, and of the time a token is served), OneExchangePerKey, InvalidateAllIsFinal, RefreshesEnd |
| live_metrics | `MCMetricHandler` | ProviderOnlyWhileSubscribed, NeverAsleep, ReportsOwnConfiguration, RatesAreExact, DerivedMetricsAreExact, SubscriptionTakesEffect |
| lifecycle | `MCDistro` | WellFormed (types, features of this process, an exporter for spans, the caller's choices kept), ShutdownLeavesNothing, ReinitialisationIsServed (statistics, instrumentors, registered processor and wrapper of the last initialisation), LangChainRunsAreServed (whose tracer and flag the runs have, on new and on reused handlers), EachRequestReportedOnce, ShutdownsSettle |
| genai | `MCGenAI` | OpenSpansAreTracked (with the limits and consistency of the maps), IdentitiesAreTrue (main agents; identity and caller of the right turn), LineageIsTrue (parents and callers), RecordsAreFaithful (consent, finish reasons, tool calls, errors, payloads) |
| store_bound | `MCPersistentStore`, `StorageBounded.cfg` | violation, see section 4 |
| starvation | `MCDurableDeliveryManager`, `ReplayStarvation.cfg` | violation, see section 4 |
| token_ttl | `AgenticTokenCache`, `FallbackTtl.cfg` | violation, see section 4 |

Without a cfg named, it is the one of the module's name. For each property a mutant of one
mapped definition (a dropped guard, a missing reset, an off-by-one; the operators commented
"Mutation:") makes the same run fail. The properties of the composed runs are about the
composition: SuccessIsComplete needs the life cycle and the contents of the chunks,
RatesAreExact the protocol and the counters, IdentitiesAreTrue the producers of spans and
the processors that complete them.

### Bounds, and why they are enough

* **gate.** Three senders: a probe, a stale permit and a third that can be mistaken for
  either. Delays 2..5 make the exponential double, jitter and hit its cap; Retry-After
  values 0 (absent), 1 (below the minimum) and 9 (above the maximum); two counted
  failures give stale, current and newer generations; clock 0..7 reaches every deadline.
* **registry.** Three tenants on a capacity of one: an entry in use, one in backoff and one
  to evict at once. Two incarnations per tenant suffice for two sends, checked by
  `FreshId` being defined. Here the clock only moves forward, one unit at a time: with a
  clock set back, "idle since" has no meaning to state a property about. The two sends
  are symmetric, and the run has no liveness property.
* **store.** Two processes, three records, sizes 1, 1 and 2 against a maximum of 1, so every
  persist must evict and one record never fits. Five scenarios (two persisting lanes, with
  ageing files and a crash; two claiming lanes over a legacy lease; damage with ageing, a
  crash and a failing call; one process alone; one process with two failing calls, so that
  the error path itself may fail) instead of their product, which is out of reach. `MaxVersion`
  bounds the names remembered at once, not a history: versions nobody remembers are used
  again, and with more than three for each process one is always free. The claimed batch is one record, as the manager always asks.
* **manager.** Two records, of two tenants (the first without a token) or of one; one
  fault, one restart. Batch size 2 stands for 10 and the scan factor 2 for 10: enough for
  a pass that skips, defers and goes on.
* **exporter.** A batch of two identities, of which one agent's name has a colon, a batch of
  one, and one of an unknown operation and a blank tenant, of which nothing is sent. The
  first identity needs two chunks. Spans are within the limit, or over it by texts, wide
  letters, quotes and a blob that can be cut down, by what cannot, by as much as is left
  when some strings are overwritten, or malformed so that truncation throws. One retry for
  three. Durable delivery on and off are both initial states. The limit of a chunk is
  lowered to make two chunks of few spans, that of a span is the code's. Tenants are GUIDs (`TenantAssumption`): a tenant with a colon could
  share the key of a group with another.
* **token_cache.** Two keys on a cache of one, three refreshes, so that a lock's chain has
  a holder, a waiter and one who comes while it is cleaned up; one retry for two;
  lifetimes below and above the skew and the maximum.
* **live_metrics.** Two configurations, which use the same ids for different metrics, cover
  every aggregation, field and validation error between them; three spans (a request whose
  exception has no message, on which a filter throws; two dependencies) and a log record,
  two items in a history; one post in flight, so that an answer finds its provider, its
  successor or none; two chains of pings. In the code the number of chains has no bound:
  each behaves like the others, and the theorems of the protocol hold for every bound.
* **lifecycle.** Two initialisations with different options (Azure Monitor with browser
  loader and exporting A365; invalid Azure Monitor with A365 and explicit
  instrumentations), two shutdowns, one counted request, an environment inherited from a
  parent: every overlap of a shutdown with what comes before and after it. Three runs
  of LangChain: handlers get their tracer under one initialisation, after its shutdown or
  under the next, and are used again. They are followed where calls are orderly, the only
  place where something is said of them, and apart from requests, with which they share no
  variable (`RunsApart`; the theorems hold without it).
* **genai.** Six LangChain runs on three entries: agents below a hidden run and a tool, a
  model with several generations, a malformed output, a run without a parent. Seven spans
  of the Agents SDK on four entries and one handoff: two agents of one name, two handoffs
  in a trace, errors with and without a name, and a response whose input has a null block,
  which throws when its output and usage have been set. Three turns (an agent's, another's
  within it, an asynchronous reply), six scopes (one refused, one with an invalid
  reference, one that refers to another turn's span) and a send, which may end with what
  JSON refuses; payloads that share an object, that are circular and that JSON refuses. An
  application uses one framework (`OneFramework`): the maps of the three are disjoint and
  a span's parent is of its own producer here, so that their product adds only
  interleavings of steps that commute. Middleware is configured before the first turn.
  Content recording is on or off from the start, and may be turned off at any time.

`CHECK_DEADLOCK FALSE` is given where the system really ends: a process that has shut down
(manager, exporter, live metrics, lifecycle), a cache whose calls and clock are used up, an
application all of whose runs and turns are over.

### Fairness

* **store.** A lane makes progress (file operations return), the claiming lane of a running
  process claims again and again (the manager's timer does), and a lease grows older than
  its duration. No fairness on persisting, damage, ageing or crashes. The safety run
  *store_bound* uses the specification without fairness.
* **manager.** Waits end (tokens and sends have timeouts, store operations return), passes
  take their steps, the armed timer fires, backoffs and leases run out. No fairness on
  `Deliver`, `CallFlush`, shutdown or `Restart`; faults are bounded, not scheduled.
* **exporter.** Awaited calls return and the shutdown timers fire; no fairness on `Export`,
  `CallFlush`, `CallShutdown`, nor on the replay timer.
* **token_cache.** Timers fire and lock promises settle. The token service is not assumed
  to answer: RefreshesEnd rests on the timeout alone.
* **live_metrics.** Timers fire, resumed promises run, and a ping ends, with an answer or an
  error. The last is an assumption about the HTTP client: `isSubscribed` sets no timeout
  of its own. Posts need not be answered, nothing need be recorded or exported.
* **lifecycle.** Imports resolve, in the order in which they were asked for; a provider that
  is shutting down finishes or gives up (exports have timeouts); settled promises run what
  awaits them. No fairness on the application's calls, requests or the export timers.
* **genai** has safety properties only: nothing makes an application end what it began.

## 4. What disagreed

* **store_bound** (documentation). `A365_DOCUMENTATION.md` says the total size of stored
  records, leased ones included, is bounded by `maxStorageBytes`. `pruneForCapacity` does
  not count a file that was renamed between its readdir and its stat, and subtracts the
  size of files whose removal found nothing; a single process whose replay claims or
  releases a record in between ends above the bound.
* **starvation** (documentation). A comment of the replay loop and the changelog say that
  records which cannot be sent do not keep others from being replayed. A release without
  a token counts as an attempt, so `maxReplayBatchSize` records of a tenant without tokens
  at the head of the store use up every pass. The run has batch size 1 and one such record.
* **token_ttl** (code). The log line "No exp claim, fallback TTL" states what should happen;
  `expiresOn` is not reset, so the new token inherits the expiry of the one before it.

Some properties are worded around what the code does and no document contradicts: a skipped
group in a batch reported as SUCCESS (SuccessIsComplete); a maximum of negative values
reported as zero, and an item on which a filter throws, which the performance counters
never see (DerivedMetricsAreExact, RatesAreExact); a span of the Agents SDK whose end throws
on a null block, which stays open (OpenSpansAreTracked); a tracer of a closed SDK that reused
handlers keep, and the processor and the wrapper that a shutdown leaves (LangChainRunsAreServed,
ReinitialisationIsServed, ShutdownLeavesNothing); an agent that got a conversation from
above but no name (MainAgentIsTopmost). And four hazards have no property, with the reason
in `PROJECT.json`: the models have the behaviour, but nothing says what should happen.

## 5. Proofs

Eight modules; every proof is checked to the last leaf, for every value of the constants.

`TransmissionGateRegistry_proof`, of the single gate, for all senders, delays, Retry-After values
and bounds:

| Theorem | Statement |
|---|---|
| GateTypeCorrect | `GateSpec => []GateTypeOK` |
| OneProbe | `GateSpec => []ProbeIsOneSend` |
| NoStaleLift | `GateSpec => BackoffLiftedByLaterSend` |
| BurstCountsOnce | `GateSpec => BurstEscalatesOnce` |

Assumptions: `DelayAssumption` (0 < minimum <= maximum), `BoundsAssumption` (Retry-After
values and bounds are naturals) and `GateAssumption` ("no permit" is not a permit). None of
the properties is inductive alone. `GateIInv` adds three facts: `PermitsAreOld` (no permit is of a generation the
gate has not reached: without it, a failure could make a permit current that was not),
`CurrentIsTheProbe` (while there is a deadline, the senders whose outcome counts are those
that passed as the probe, with probeInFlight set, and began at or after the deadline), and
`ProbeNeedsDeadline` (the probe flag is set only under a deadline). One lemma per action
shows that it keeps `GateIInv`, with the stale outcome, which changes no gate, apart from the
accepted one. The action properties follow from `GateIInv` in the state before the step.

The same module, of the registry, for all tenants, sends, incarnations, delays and sizes of
the registry:

| Theorem | Statement |
|---|---|
| Spec_RegistryInv | `Spec => []RegistryInv` |
| Spec_NoSendDuringBackoff | `Spec => NoSendDuringBackoff` |
| Spec_CapacityAfterEachCall | `Spec => CapacityAfterEachCall` |

Assumptions: `DelayAssumption`, `BoundsAssumption` and `RegistryAssumption` (finitely many sends, a positive
capacity; "none" is no entry, lease or permit). `acquire` and `release` trim the map before
and after they change it, so the invariant is a predicate, `Sound`, of a registry, a heap,
leases and deadlines, and each of those changes keeps it: a tenant's key maps to an object
of its own (`OwnEntries`), a lease is of the object the key maps to (`LeasesAreCurrent`),
an object counts the leases that are out (`LeaseCounts`), and the gate of a tenant whose
deadline lies ahead is registered and blocked until then (`DeadlinesHold`: this is where
trim must not take an entry in backoff). `trim` evicts the entries before which, in the
order of last use, fewer come than there are too many; `RankedBelow` shows that these are
as many as there are too many, or all that may be evicted.

`PersistentStore_proof`, for all processes, records, sizes, limits and scenarios:

| Theorem | Statement |
|---|---|
| Spec_StoreInv | `Spec => []StoreInv` |
| Spec_HeldRecordIsSafe | `Spec => HeldRecordIsSafe` |
| Spec_UndisturbedPersistFits | `Spec => UndisturbedPersistFits` |

Assumption: `StoreAssumption` (finitely many processes and records, and more versions of a
name than can be remembered at once). The argument is about paths: what a lane remembers of
the directory can only go out of date, since a path that is gone does not come back while
anybody remembers it. The invariant says of each lane what its position implies of the
names it holds (`PersisterOK`, `ClaimerOK`), that a persist that was not disturbed knows
every file (`Current`), that a lease about to be recovered has run out if it is still there
(`RecoversStale`), and that no record has two writers and no lease two claimers
(`OneWriter`, `OneClaimer`). That no temporary stays needs of every step, a failing one
included, that it makes no temporary but its own and that a writer ends only when its file is
gone or counted as abandoned; `KeepsMishaps` says once that all steps but a crash and a failed
removal abandon nothing. Sums of sizes are unfolded by taking a least set for which they
would go wrong.

`DurableDeliveryManager_proof`, for all records, tenants, batch sizes, scan factors, faults
and restarts:

| Theorem | Statement |
|---|---|
| Spec_ManagerInv | `Spec => []ManagerInv` |
| Spec_ShutdownIsQuiet | `Spec => []ShutdownIsQuiet` |
| Spec_FlushCoversDeliveries | `Spec => []FlushCoversDeliveries` |
| Spec_AtLeastOnce | `Spec => AtLeastOnce` |

Assumption: `ManagerAssumption`. `IInv` adds to the types and to "a probing gate has a
sender" what a pass has in hand and completes only after the endpoint answered (`PassInv`),
that a record is stored, and answered, only when its delivery has returned (`CustodyInv`),
and that shutdown closes, closing stops and stopping disarms (`DrainInv`, `FlushInv`).
Spec_AtLeastOnce is the refinement: under the mapping of the `INSTANCE`, the initial states
are `DurableDelivery`'s, and each step is one of its actions or changes nothing it sees.
That a completed record is let go (`LetGo`) needs `PassInv`, and that a persist takes over
an unanswered record (`TakeOver`) needs `CustodyInv`.

`Distro_proof`, for all options, requests and numbers of initialisations and shutdowns,
however they overlap:

| Theorem | Statement |
|---|---|
| Spec_WellFormed | `Spec => []WellFormed` |
| Spec_ShutdownLeavesNothing | `Spec => []ShutdownLeavesNothing` |
| Spec_ReinitialisationIsServed | `Spec => []ReinitialisationIsServed` |
| Spec_LangChainRunsAreServed | `Spec => []LangChainRunsAreServed` |
| Spec_EachRequestReportedOnce | `Spec => []EachRequestReportedOnce` |

Assumptions: `DistroAssumption`, `SdkStatsAssumption`, `InheritedAssumption`. What makes the
invariant inductive is to name the shutdowns called since the last initialisation: each
stage that one has passed has taken something down (`Down`) that only another initialisation
brings back (`TakenDown`). For orderly calls `NothingElse` says that whatever is not of the
last initialisation is gone, and `InService`, that an import which is still awaited is
awaited by the last initialisation alone. `RunsOK` says of the handlers followed that their
tracer is of the SDK of the initialisation that attached it, and that the wrapper
of an instance is the last initialisation's, from which the flag of each run follows. `QueuesOK` and `PipelinesOK` say who waits for an
import and for a closing pipeline; FeaturesOfThisProcess and EachRequestReportedOnce are
inductive with them. The chain of processors is followed through `DistroSetup`, one
processor after the other, for any options.

`MetricHandler_proof`, for all etags, configurations, spans, log records and bounds on posts
and chains:

| Theorem | Statement |
|---|---|
| LiveMetricsTypeCorrect | `Spec => []TypeOK` |
| NoStrayProvider | `Spec => []ProviderOnlyWhileSubscribed` |
| ChainsGoOn | `Spec => []NeverAsleep` |
| OwnConfiguration | `Spec => []ReportsOwnConfiguration` |
| HandlerFollowsClient | `HandlerSpec => Init /\ [][Next]_vars` |
| HandlerKeepsProtocol | the four properties above, of `HandlerSpec` |
| RatesExact | `HandlerSpec => []RatesAreExact` |
| DerivedMetricsExact | `HandlerSpec => []DerivedMetricsAreExact` |

Assumptions: `LiveMetricsAssumption` (the empty etag and "none" are not etags; positive
bounds) and `MetricHandlerAssumption` (a configuration's metrics and filters have the shape
of the client's types, durations and counts are naturals, and every number is below the
maximum value, from which a minimum is computed). Filters are not assumed to be valid, ids
not to be distinct, and derived metrics not to be filtered without an error: those cases are
part of the statements.

The four invariants of the protocol are inductive, given the types: quickPulseDone tests
isShutdown first, starts a chain whenever it ends a provider, and sets the three copies of
the etag together. `DoneType` states once what the handler does to the timers, for pings and
posts. Each action of `MetricHandler` is one of `LiveMetrics` or leaves its variables alone.

RatesAreExact follows from `HandlerInv`: the totals are sums over the items live metrics
took, the counters of the last collection are sums over those before `rateMark`, and the
standard and performance counters differ from the sums over all items only by what a filter
that threw cut off. Sums over sets of positions are split at the mark and grow item by item;
those lemmas are by induction on finite sets, from the well-foundedness of <.

DerivedMetricsAreExact follows from `DerivedInv`: each projection stands for (`Tally`) the
samples that its metric has had since `valueMark`, and its metric is one of the
configuration in force (`Follow`). The argument has four parts. What is parsed of a
configuration is its valid metrics, with distinct ids, each of one telemetry type. A filter
decides alike however often it is evaluated, and throws alike. An item passes through a
fold over the metrics of its type, and through another for each of its exceptions; an
enumeration of a set in increasing order (`Comes`, `nth`) relates each round of the fold to
one member of the set. And an aggregate of the samples so far and one more is the aggregate
of all of them, for sums, averages, minima and maxima. The model's alternatives of a CASE
are disjoint for these proofs: where two guards hold, the choice is not determined in TLA+,
although TLC takes the first.

`AgenticTokenCache_proof`, for all keys, refreshes, cache sizes, retries and times:

| Theorem | Statement |
|---|---|
| TokenCacheTyped | `Spec => []Typed` |
| OneExchange | `Spec => []OneExchangePerKey` |
| InvalidationIsFinal | `Spec => []InvalidateAllIsFinal` |
| KeepsItsLimits | `Spec => []LimitsAreKept`, from ServedFresh and CacheKeepsItsSize, one for each limit |

Assumption: `CacheAssumption`. That exchanges of a key exclude each other needs the order of
the lock's chain, which no variable holds: `InLine` says that there is a rank of the
refreshes by which the tail of a key's chain comes last, each refresh waits for one right
before it, and only the head runs; a new refresh takes a rank above all. `Final` says that
what invalidateAll voided is referred to by no entry (`VoidedApart`), and that fresh objects
have no token yet; `AllDated`, that every object's token carries the times it was obtained
with. The order of use says only which entry is evicted, so `Typed` leaves it out; that it
names each entry once, as a use, an eviction and an invalidation reorder it, is `Ordered`,
from which the bound follows.

`Agent365Exporter_proof`, for all exports, groups, chunks and retries:

| Theorem | Statement |
|---|---|
| ExporterTypeCorrect | `Spec => []TypeOK` |
| ShutdownIsClean | `Spec => []CleanShutdown` |
| AnswerIsFinal | a result, once given to the caller, never changes |
| SuccessIsHandedOver | SUCCESS: every request of every group not skipped was handed over |
| SuccessMeansComplete | `Spec => []SuccessIsComplete` |
| PayloadsAreWithinLimit | `Spec => []PayloadsFit` |
| ChunksFit | `chunkBySize`, for all items, sizes and limits: the chunks are the items cut at increasing places, and each is within the limit or a single item |
| IdentityIsKept | `parseIdentityKey(IdentityKey(span))` is the span's tenant and agent |

Assumptions: `ExporterAssumption` (groups belong to one export and are finitely many, each
with at least one chunk); for SuccessIsHandedOver `BatchAssumption` (a group has a chunk per
request); for IdentityIsKept that the tenant has no colon, as `TenantAssumption` says of
every batch; for SuccessMeansComplete and PayloadsAreWithinLimit all of these and `SpansAssumption`: the spans of a
batch have distinct identifiers (a span ends, and is exported, once), a scope is a name and
a version without a colon, and the estimate of a span is a natural number. The version is
an assumption the code relies on: it joins name and version with a colon, and two scopes
that differ only in where the colon falls would be merged. The invariant adds to the property `Phases` (what each phase of
shutdown implies of the manager, the initialisation and the accepted exports) and
`GroupsFollow` (only groups of accepted exports are under way, and only with a manager do
they deliver). `Moves` states once what a step of a group may do, so that the invariant is
shown for it once instead of for each of the group's steps. `Answers` adds what the callers
were told: nothing before the export settled, and SUCCESS only of groups that were skipped
or are past their last chunk.

ChunksFit is about a fold. A lemma (`Upwards`) that what holds of 0 and passes from n - 1 to
n holds up to N, from the well-foundedness of <, shows that the recursive function behind
the fold exists, so that the fold can be unfolded item by item; then, that after each item
the chunks so far and the one being filled cut the items up to it (`CutBy`), with bytes that
are a difference of two sums of sizes; and last, that such a difference is the total of the
chunk's own sizes.

SuccessMeansComplete follows a span from the batch to the requests. The members of a set of
positions, taken by rank, are all of them in ascending order (`InOrderIs`), so that what is
picked from a sequence is what was meant, each item once (`PickedIs`). A Map filled in order
has each key once and each item under its key alone (`GroupedByIs`); the last colon parts a
scope's key, the first an identity's, so that neither merges two (`ScopeIsKept`,
`IdentityIsRight`). Truncation replaces attributes and nothing else (`TruncatedIsSame`). The
cuts of ChunksFit put each item of a group between one pair of places (`OnePart`), hence
each span of a group into one request with its own scope and identity (`GroupIsSent`,
`OneRequest`). Last, `AtFirstChunk`, an invariant of the life cycle, says that a group
skipped for want of a token has handed over nothing; the others have handed over everything
(`Answers`). PayloadsAreWithinLimit adds that the parts of a sequence, cut at n places, are
together the sequence up to the n-th place (`PartsJoin`).

`GenAI_proof`, for all runs of LangChain, spans of the OpenAI SDK, turns, scopes, sends and
limits of the maps:

| Theorem | Statement |
|---|---|
| OpenSpansStayTracked | `Spec => []OpenSpansAreTracked` |

Assumptions: `LangChainTracerAssumption` (finitely many runs, a positive limit, parents among
them), `ProcessorAssumption` (the same of the SDK's spans) and `GenAIAssumption` (an identifier
is that of a run, an SDK's span, a scope or a send, and not of two). The property says of an
open span that it can be found; the invariant has to say the converse as well, that what the
maps hold is open. `TracerOK`: the runs with an entry are exactly those whose spans are open.
`ProcessorOK`: every entry is of a span started and not ended by the SDK, an open span without
one is one that a shutdown forgot or whose end threw (`LostStays`: it stays such a one), and reverseHandoffsDict has a key once, whatever is set, taken
and pushed out at its limit (`HandoffsAreKept`). `TurnsOK`: what a turn, a scope or a send refers
to has been started; without it a span could get a parent that is none. `SpansOK`: every span's
parent has been started, for which the search through evicted parents must return one of the runs
it was to be among (`NearestIsAmong`). Every step starts or changes one span (`Only`), and one
lemma per producer says that what it knows of its own spans stays when another's step is taken.

TLC evaluates all these assumptions in the runs.

Model-checked only. Liveness under fairness (LeasesEnd, HealthyRecordsLeave, EverythingEnds,
RefreshesEnd, SubscriptionTakesEffect, ShutdownsSettle), which is out of the prover's reach.
SpansAreCutAsNeeded, for what goes through the flattening and sorting of places and the rounds of
the truncation, which change what a span weighs: PayloadsFit is proved for whatever the truncation
makes of a span, and TLC shows that a span is cut down as needed and no further. The other
properties of *genai* (IdentitiesAreTrue, LineageIsTrue, RecordsAreFaithful): they compare what
spans say with what was said to the program, through searches, joins of maps and serializations
by recursive definitions, of which the prover has no more than the names.

## 6. Not modelled

* **Text and I/O**: Windows ACLs, HTTP envelopes, URLs, the browser loader's patching of
  responses, log wording, the texts of error messages and of stack traces. `resolveStorageRoot`
  and the directory's permissions: set-up before any operation.
* **Generated code**: the QuickPulse client.
* **Stateless mappings**: Azure Monitor's trace and log processors, data types, constants,
  configuration precedence, validation of options, the conversion of identifiers and kinds.
  The sampler's decision is a hash of the trace id.
* **Gauges of the process** (processor, memory), the polling hint and the redirect of live
  metrics; dimensions of standard metrics; autoAttach, module loaders and resource detection.
* **Headers**: the propagation of trace context through HTTP headers, the token context,
  times that a caller gives to a scope.
* **The file logger**: a diagnostic aid; no document promises that no line is lost.

Abstractions that matter when reading a result:

* Time in the store is an order (old, stale) and not a clock. Any call of the file system may
  fail, before its effect or after it; a scenario bounds how many do.
* What the Agents SDK does with the rejection of `onSpanEnd` is its own matter; the model goes
  on with the next span. Of the handlers of an application one object is followed.
* The reader of the meter's instruments and its exporter are one step; what the SDK records
  between the two belongs to the next interval.
* A run of LangChain has its operation from its type, a span of the other producers an
  explicit one: the operation is never inferred from a span's name, which the models leave
  out. Ports are numbers; `telemetry.sdk.*` is one attribute.
* A span whose parent is only a reference has no attributes that can be read there.

`PROJECT.json` lists every component with its status.

## 7. Plan

1. **Proofs**: what `trimString` and a round of the truncation keep of a span (SpansAreCutAsNeeded).
2. **The rotating file log**, should its documentation promise anything of its lines.
3. **The sampler and rate limits** as pure definitions against a reference.
4. **Larger compositions**: the manager over the store's own steps instead of its summary.
