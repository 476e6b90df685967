# Unified Gateway: TLA+ models and proofs

Unified Gateway (`src/apps/gateway`) is an HTTP gateway in front of language-model providers. Several
replicas run the same process against one Postgres and one Redis. This directory holds TLA+ modules that
model the gateway's behaviour, the TLC configurations that check them on small instances, and proofs, for
instances of any size, of the main properties of its shared Redis state, its router, its streams and
sockets, its operation log, its video jobs and the spread of its configuration.

All paths below are under `src/apps/gateway/src/` unless they start with `apps/`. `PROJECT.json` maps every
definition that models code to the lines it stands for.

Contents: [1. The system](#1-the-system) · [2. Modules](#2-modules-and-the-code) ·
[3. Runs](#3-what-the-runs-check) · [4. Proofs](#4-what-is-proved) ·
[5. Disagreements](#5-where-the-code-and-its-words-disagree) · [6. Not modelled](#6-not-modelled) ·
[7. Running](#7-running-it)

## 1. The system

### A request

An endpoint (`endpoints/*.ts`) authenticates the key, applies the rate limits of a virtual key, opens an
operation in the log and calls the router. `route()` turns a public model into candidate deployments and
tries them, model by model along the fallback chain, until one execution returns. Each attempt takes a
circuit permit, a quota lease of the key and an admission lease of the deployment, in this order, persists
an attempt row, and only then contacts the provider. The endpoint renders the result and calls `finish()`,
which settles everything the attempt holds. Streams go through `routeChat()`, which routes again when a
stream dies before its first semantic frame.

```
client ── public contract ── endpoint ── validation, input files, extensions, response cache
                                │
                       route()/routeChat() ──┬── circuits           Redis              router/circuit.ts
                          │        │         ├── key budget         Redis + Postgres   ratelimit/index.ts
                          │        │         ├── attempt admission  Redis              router/state.ts
                          │        │         └── execute()          adapter, provider wire
                          │        └── finish() settles the three and reports health
                          └── operation log  Postgres + Redis        logging/operations.ts
beside the requests: video poller, reconciler, maintenance, reload of extensions, shutdown, administrators
```

### Components

| Component | State | Operations | What is hard | What makes it correct |
|---|---|---|---|---|
| **Circuits** `router/circuit.ts` | 5 Redis keys per deployment and per failure domain | acquire, record (transient, configuration, throttle), close, release, force | a permit covers two subjects and its reports are separate scripts; late reports; crashes; key expiry | one probe at a time, decided by its owner; late failures never extend a cooldown; nobody blocked for ever |
| **Deployment admission** `router/state.ts` | lease set, in-flight count, per-minute RPM, TPM, reserved TPM | start, settle with/without usage | crashed replicas, minute change, lost replies, Redis loss | limits hold, usage counted once, every lease is seen |
| **Virtual-key budget** `ratelimit/index.ts`, `db/repos/virtualKeys.ts` | Redis counter, reserved, leases; row with spend and window end | look up, seed, reset, reserve, settle, release; admin reset | two stores, concurrent seeding and reset, crash, Redis loss, rollover | cap holds, ledgers agree, spend wiped once per window |
| **Router** `router/index.ts`, `endpoints/runtime/parameterPolicy.ts` | locals of one logical request | pools, selection loop, chain, retry rounds, re-entry, finish | early exits while holding leases; one budget over all re-entries | everything handed back once, attempts bounded, terminates |
| **Streams** `gateway/streamLifecycle.ts`, `endpoints/runtime/sse.ts`, adapters, renderers, the bodies of the text endpoints | one stream: parser, renderer, writer, deadlines, verdicts | read, render, write, persist, finish, abort | the reader is a frame ahead of the writer; deadlines, a client that leaves, a store that fails | client, charge and log agree on one outcome |
| **Responses WebSocket** `endpoints/responses.ts`, `gateway/responsesWebSocketSessions.ts`, `adapters/openaiResponsesWebSocket.ts` | turn queue, continuation state, upstream sockets | turn, execute, commit, invalidate, close | continuation ids known in three places; one socket read by one turn after another | a turn continues from the history its client named |
| **Live transcription** `endpoints/liveTranscription.ts`, `adapters/openaiLiveTranscription.ts` | two sockets, two configurations, audio received | relay, update, pin, settle | echoes that arrive late; settlement during queued events | audio charged, sessions end |
| **Conversations** adapters, contracts, `core/providerSpecificFields.ts` | none: the client carries it | request to body, reply to client | state only one provider understands travels through another provider's turn | every provider hears all of it |
| **Input files** `files/requestContentInputs.ts` | memo, semaphore, totals of one request | download, parse, deliver | shared downloads that outlive a failed attempt | fetched once, within limits, delivered whole |
| **Reasoning** `core/reasoning.ts`, adapters | none | interpret, snap, say, log | one canonical request on deployments with other levels and knobs | the nearest level, in the provider's words |
| **Metering and media endpoints** `logging/cost.ts`, `endpoints/{embeddings,images,audio,rerank}.ts` | lease, upload, log record | reserve, execute, check, settle, remove | four token buckets on seven wires; failures after the provider has worked | work charged once and never above its reservation |
| **Catalogue sync** `catalog/sync` | catalogue, history, report | fetch, match, merge, draft, deprecate | sources that fail, answer in part or spell differently | no model called gone, new or repriced without a source that says so |
| **Operation log, shutdown** `logging/operations.ts`, `runtime/shutdown.ts` | rows, attempts, Redis lease, bounded queue | begin, attempt, touch, complete, reconcile, flush | reconciler against a live or late operation; retries; a shared deadline | first outcome stays; flushed means durable |
| **Video jobs** `videos/service.ts`, `db/repos/videos.ts` | job row, asset row, object | create, claim, refresh, ingest, delete, collect | three actors refresh one row read earlier | every job ends, no orphan objects |
| **Extensions** `extensions/runtime.ts` | set of definitions and instances, breaker | load, swap, set up, tear down, run hooks | overlapping reloads | newest version stays; code in use is set up |
| **Administration** `deployments/service.ts`, `fallbacks/service.ts`, key rotation | rows, locks | create, rename, delete, configure, rotate | transactions that read before they lock | chains resolve; credentials stay readable |
| **Caches** `cache/responseCache.ts`, `auth/virtualKeyCache.ts`, `router/settings.ts` | epoch and entries; key row; settings | read, store, invalidate | a store that overlaps an invalidation | nothing old is served after its bound |

`PROJECT.json` lists the hazards of this code, each at its line with the property that covers it.

## 2. Modules and the code

| Module | Models | Composed or extended by |
|---|---|---|
| `Breaker` | what one circuit promises: the abstract specification | instantiated in `CircuitBreaker` |
| `CircuitBreaker` | `router/circuit.ts` | `MCCircuitBreaker`, `DeploymentProofs` |
| `AttemptAdmission` | `router/state.ts`, admission and settlement | `MCAttemptAdmission`, `DeploymentProofs` |
| `KeyBudget` | the budget half of `ratelimit/index.ts` with its Postgres row | `MCKeyBudget`, `KeyBudgetProofs` |
| `Router` | `route()`, `routeChat()` and `finish()` for one logical request | `MCRouter`, `RouterProofs` |
| `Wires` | the four provider streams, made canonical chunks | `Renderers` |
| `Renderers` | canonical chunks, made the frames of the three public streams | `Streams` |
| `Streams` | one streamed text request from provider bytes to client frames and log | `MCStreams`, `StreamsProofs` |
| `ResponsesSocket` | one Responses WebSocket connection | `Sockets` |
| `LiveTranscription` | one live transcription session | `Sockets` |
| `Sockets` | the two kinds of WebSocket side by side | `MCSockets`, `SocketsProofs` |
| `OperationLog` | the durable log, the reconciler and the shutdown | `MCOperationLog`, `DurableProofs` |
| `VideoJobs` | one video job | `MCVideoJobs`, `DurableProofs` |
| `Extensions`, `Administration`, `Caches` | the three ways a change of configuration spreads | `Configuration` |
| `Configuration` | the three side by side | `MCConfiguration`, `ConfigurationProofs` |
| `TextRequests` | files, images and parameters on their way to deployments | `RequestParts` |
| `Conversation` | what each provider hears of a conversation | `RequestParts` |
| `Effort`, `EffortSamples` | how much a model is asked to think | `RequestParts` |
| `CatalogSync`, `CatalogueSamples` | two sync runs and the human who applies reports | `RequestParts` |
| `Metering`, `MeteringSamples` | one paid request from its body to its log | `RequestParts` |
| `RequestParts` | the five side by side | `MCRequests`, `RequestsProofs` |

The `...Samples` modules hold only the inputs of a run. Definitions whose comment starts with "Mutated form"
belong to no specification: each is a plausible bug of the definition beside it and is substituted for it to
see that a property notices. `Sockets`, `Configuration` and `RequestParts` put parts that share nothing
side by side: a behaviour is of one `kind`, and the other parts stay as they began, so the number of states is
the sum of the parts and each keeps its own properties under its own name.

**CircuitBreaker.** A subject is a deployment or a failure domain; its keys are `cooldown` (with its cause),
`failures`, `history` and `probe`. A Lua script is one action. `acquireCircuitPermit` gates both subjects in
one script (`Acquire`, `AcquireRefused`, `AcquireDisabled`). A report is a first script and then further Redis
calls: `TransientFailure` records against the deployment and leaves a pending `close` of the capacity in
`calls`, `CloseSubject` and `ReleaseSubject` apply pending calls in any order, and `CrashAttempt` drops them. TTLs are
expiry actions. A probe may expire while its attempt runs, whatever `halfOpenProbeSeconds`.

**Breaker** has a phase (closed, open, recovering) and an owner per subject. It allows a trip only from closed,
a grant only when nobody owns the probe, and a decision of the recovery only by the owner. `CircuitBreaker`
implements it under `Phase` (open while a cooldown is set, recovering while only history is) and
`owner <- probe`.

**AttemptAdmission.** One deployment, the current minute's counters, the lease set shared by all minutes.
`Start`/`Resend` are `START_ATTEMPT_LUA`, `Settle` is `SETTLE_ATTEMPT_LUA` behind its three callers. Leases
pass their deadline (`LeaseDeadline`), minutes change, both keys expire, replicas crash, Redis restarts empty.
With `MayResend`, a reply is lost and the client runs the script again, as ioredis does by default.

**KeyBudget.** One key with a discrete clock, because the property at stake relates two expiries. A request
runs through look-up, read of the row, seeding or reset of the window, reservation and settlement, one await
at a time; the settlement's Redis and Postgres writes are in flight together. `Tick` keeps a request within
`MaxDuration`, which is shorter than `LeaseTtl` as total timeouts are shorter than the lease TTL in the code.
A behaviour picks one of `Settings`; only one with `trouble` loses Redis or is reset by an administrator.

**Router.** `pc` walks through the functions: `enter` and `loop` are `tryPublicModel`, `admission`, `begin` and
`upstream` an attempt, `ended`, `round` and `enter` with `leg.again` the chain and the retry rounds, `returned`
and `serving` the endpoint's side. What other requests do is nondeterminism: which circuits look open, which
permits own probes, whether quota and limits admit. `held` counts what the current attempt must still hand
back. `past` is auxiliary and remembers what properties of whole requests need. The strategies are covered
because any least-tried candidate may be chosen.

**Wires, Renderers, Streams.** `Wires` folds the events of one provider (`chat_completions`, `messages`,
`gemini`, `responses`) into canonical chunks and states what the same content becomes in one JSON document;
`Renderers` folds chunks into frames. A piece of text, reasoning or arguments is the number of the event that
brought it, so that a lost, repeated or misplaced piece is visible. `Streams` runs them: `Read`, `Eof`,
`Expire`, `TotalDeadline` and `Aborted` are what the source does; `Attach`, `Take`, `Writes`, `Beat` the writer,
one frame behind the reader; `Persist`, `Last`, `Settle` the endpoint's body, `finish()` and the log;
`Stumble` and `Cleaned` the error path and the return of the iterators.

**ResponsesSocket, LiveTranscription.** A response is the number of its turn and its content the set of turns it
was made from; an upstream response id is the content upstream keeps under it. A turn expands a reference from
the connection, from Postgres or by `previous_response_id` on the socket that owns it, is tried on up to two
deployments, and commits or invalidates. A live session has two configurations (the gateway's and
upstream's), a queue of client events, echoes in flight, and the audio both sides counted.

**OperationLog.** Draft, begin, attempt, progress and final tasks of one replica in a bounded queue drained in
batches, each with its tries; leases in Redis; another replica's reconciler in its three steps; the stages of
the shutdown under their common deadline; the replica may be killed at any of them.

**VideoJobs.** Submission with its compensation, `Claim` and `Refresh` of pollers and of requests that look or
download, the ingestion of the content step by step, deletion, collection. Each await between a read and a
write is a step, and every actor may die.

**Extensions, Administration, Caches.** `Extensions`: mutations on this replica and elsewhere, the reload of the
poll and of the request in their steps (read version, read rows, import, swap, set up, tear down, prune), the
breaker and calls begun under an earlier set. `Administration`: statements of transactions are steps of their own under
read-committed isolation and advisory locks, with the rotation of the encryption key going on. `Caches`: the
epoch, keys and settings with their times to live.

**TextRequests, Conversation, Effort, CatalogSync, Metering.** Mostly data, therefore mostly operators, with few
actions around them. `TextRequests` keeps promises of parts as `task` states, a semaphore and its waiters, and
the totals; `Conversation` renders a transcript into the body of each wire and a reply back into each contract;
`Effort` interprets three contracts' ways of asking, snaps, and renders per adapter; `CatalogSync` is a sync run
(`Run`), a change at a source, and a human applying items; `Metering` maps the usage of each wire, prices it, and
walks one request through reservation, execution, checks, settlement and removal of its upload.

How they compose: `Router` calls circuits, budget and admission at the points where it changes `held`. Its
assumptions about them are exactly their answers (granted with some probes, refused, failed), and the steps it
makes on them (start, settle, cancel, report, release) are the actions of their modules. `Streams` begins where
`Router` is in `serving` and ends with the `finish()` that `Router` counts; `Metering` does the same for
requests without a stream and takes over the amounts that `KeyBudget` leaves free; `Caches` and `Extensions`
decide under which configuration a request of the others runs.

## 3. What the runs check

| Run | Question | Properties |
|---|---|---|
| `circuit` | two deployments behind one failure domain, two concurrent attempts, circuits switched on and off | `OpenHasHistory`, `ProbeAccounted`, `NoExtension`, `ImplementsBreaker`, `NeverBlockedForever` |
| `attempt` | three attempts; crashes, Redis loss, replies lost and scripts run again | `WithinLimits`, `ReservedCoversLeases`, `UsageCountedOnce`, `LeastBusyCovers` |
| `budget` | a budget that never resets with crashes, and one whose windows roll over with Redis loss and administrator resets | `ReservedCoversLeases`, `LedgersAgree`, `HardCap`, `SpendWipedOnlyWhenDue` |
| `route` | one request, a stream or not, over a pool of two and its fallbacks | `SettledOnce`, `ChosenInTurn`, `SpentNotRepeated`, `Terminates` |
| `streams` | four events of each provider through each public API, with everything that can go wrong on the way | `FramesComplete`, `OneOutcome`, `OneVerdict`, `FairlySettled`, `StreamEnds` |
| `sockets` | three turns of a Responses connection; three events of a live transcription | `HistoryKept`, `AudioCharged`, `SessionsEnd` |
| `operations` | one operation, a queue of one, shutdown or death, the reconciler of another replica | `FlushedIsDurable`, `FirstReportStays`, `AbandonsOnlyUnleased`, `EverySettles` |
| `videos` | one job, a poller, a client, a deletion, the collector | `ServableIsStored`, `NothingOrphaned`, `JobEnds`, `AssetsCollected` |
| `configuration` | administrators against each other, against reloads and against caches | `ConfigurationKept`, `ConfigurationArrives` |
| `requests` | what a request carries, asks for and costs; conversations; the catalogue | `InputsKept`, `ConversationKept`, `EffortKept`, `CatalogueKept`, `MeteringKept` |
| `budget_rollover` | does the window end when it should? (violated) | `RollsOver` |
| `live_updates` | does a live session keep what its client set? (violated) | `UpdatesKept` |

The properties are stated in the modules, with a comment each. Type invariants are conjuncts of the first
invariant of a run (`SettledOnce`, `FramesComplete`, `HistoryKept`, `ConfigurationKept`, ...), or are proved
(section 4). What the properties say:

- **Circuits.** Late, reordered and lost reports of attempts admitted before, during and after an outage cannot
  decide a recovery they do not own, extend a cooldown, or strand a probe without a crash; infinitely often
  every subject would admit somebody.
- **Admission and budget.** Limits hold whatever is resent; usage is counted once; the reserved counter covers
  the leases (that of a budget, while it never resets); both ledgers of a budget agree on what both were told; spend stays within the limit; it is wiped
  only when a window is over or an administrator says so.
- **Router.** Permits, leases and reservations are handed back once, one limit bounds all attempts of all
  re-entries, a deployment is charged one failure (except streams, section 5), candidates are used evenly and
  fallbacks in order, and a request gives up only because something hindered it.
- **Streams.** Whatever the interleaving of text, reasoning and calls, every frame belongs to an open block,
  every piece reaches the client once and in order, and the stream, the log and the JSON document of the same content come to one
  outcome. A client told the end is never told of an error. Usage once reported is charged, and a
  deployment is never blamed for a slow or departed client.
- **Sockets.** A turn's response is made from the whole conversation its client named, however it was continued;
  turns are answered in order; a finished live session is charged the audio that upstream received; turns end
  and no upstream socket outlives its client.
- **Operations.** The outcome an endpoint reports first stays; a row is abandoned only while nobody holds its
  lease; what a flush returned for is durable; every operation gets an outcome.
- **Videos.** What can be downloaded is stored; an object always has a row that will remove it; every job ends;
  every expired video is collected.
- **Configuration.** Fallback chains name models that exist, a rotation never undoes a change of credentials,
  administrators never wait for each other in a circle, a quiet replica at the registry's version runs that
  version, no cache answers with what was changed before, and what escapes expires.
- **Requests.** A source is fetched once, its bytes reach an adapter whole and within the limits; results follow
  their calls, signatures and encrypted state reach the provider that made them and no other; the effort told is the
  one nearest to the wish that the model has, in the provider's words, and so is the log; a sync report calls a
  model gone, new or repriced only with the sources that say so; work is charged once at its rates and never
  above what was reserved, and uploads and leases do not outlive their request.

**Bounds.** They are small so that every interleaving is reached, and chosen so that each limit is hit.

- `circuit`: a token is reused, so there is no bound on attempts over time; two tokens give a probe and a late
  attempt, or two attempts in one failure domain. `MaxOpen = 2` lets the history grow once and saturate (the
  cooldown's length is not modelled); `AllowedFails = 1` has a counting and an opening failure.
- `attempt`: three attempts fill an RPM limit of two with room for a refused one; a TPM limit of three and
  reservations up to two make refusals depend on reservations.
- `budget`: three requests, a limit of three and cost up to two do the same; the rolling budget has two requests,
  a limit of one and a window of two. `MaxTime` ends the clock after two windows or two lease lifetimes.
  `SpendBound` stops one cent above the limit, because every Redis loss may admit one more request.
- `route`: three attempts suffice for one in each pool of a chain of two, or two in the same pool and a retry round. `Faults`
  holds one fault for each way a failure is treated: retried, throttled, exhausting, and fallback by reason.
  Streams have one fallback instead of two.
- `streams`: four events are a block of each kind interleaved with another and an end. Faults of the client, the
  writer, storage and the observer's deadlines strike while a stream has had at most `FaultyEvents = 1` event, which
  reaches every place they can strike (the deadline of the attempt may strike at any time); longer streams exercise the renderers.
  The alphabets keep one event for each branch of the parsers.
- `sockets`: three turns are a continuation, a continuation of that one, and a failure between; two deployments,
  with and without a native socket, and one upstream fault. A queue of two can be full. A live session has three
  events, enough for an update that crosses another's echo.
- `operations`, `videos`: one row, two faults: one that is handled and one while handling it.
- `configuration`: two mutations overlap on three deployments of two models (the last deployment of each); two changes and one
  fault of a reload; one change against two readers of each cache. Deployments are interchangeable, so the run begins with
  them in the order of their models, and the parts that do not run begin in one state (`Few`).
- `requests`: one download slot for up to three parts, two attempts, three candidates that take different forms;
  conversations of three requests; two attempts at about twenty models; two runs with one change between them
  and one missed detail, where absence is tolerated up to half the models (`Ratio = 2`; the code tolerates 5 %), and the
  change may be to an offer without a price and with an output that no entry has a word for;
  up to two tokens in each bucket and two price tiers.

**Deadlock** is not checked where the system really stops: a request ends (`Router`, `Streams`, and all of
`MCRequests`), a row reaches its last state, or a bound on changes or the clock is used up.

**Fairness** is weak everywhere, and is assumed of steps of two kinds only.

- Time: Redis expires a key whose TTL has passed (`CircuitBreaker`: cooldown and probe; `Caches`: key and
  settings), timers fire (`Streams`: the deadline of the attempt; `VideoJobs`: the next poll, the runtime limit,
  retention; `OperationLog`: a row goes stale, a lease ends).
- The process's own straight-line code and its calls, each of which is answered or times out: `Router`'s
  `Advance`, the writer and body of `Streams`, `ResponsesSocket`'s `Turn`, `LiveTranscription`'s `Relay`, the
  poll, the claims, refreshes and deletions of `VideoJobs`, the drain and the audit of `OperationLog`, the reload poll of `Extensions`.

No client, provider or administrator is assumed to do anything, no attempt in `CircuitBreaker` is assumed to report, and
crashes, faults and deadlines other than the above need never happen. Faults are bounded by `MaxFaults`, which is
how the liveness properties say "once failures stop".

## 4. What is proved

Eight modules hold proofs. They are checked by TLAPS for every value of the constants allowed by the assumptions.

**`DeploymentProofs`** has the theorems about the two things Redis keeps of a deployment, its circuits and its
admission of attempts. They share no key. It extends both modules. Of the circuits (assuming `CircuitAssumption`,
which only says what the constants are):

| Theorem | Property |
|---|---|
| `CircuitTyped` | `CircuitTypeOK` |
| `CountsOnlyWhileClosed` | `FailuresOnlyWhileClosed` |
| `OpenRemembersHistory` | `OpenHasHistory` |
| `LateFailuresCannotExtend` | `NoExtension` |
| `CircuitImplementsBreaker` | `ImplementsBreaker` |
| `ProbesAreAccounted` | `ProbeAccounted` |

The inductive invariant is `CircuitTypeOK`, `FailuresOnlyWhileClosed`, `OpenHasHistory`, `ProbeAccounted` and two
strengthenings. The two key invariants are proved together. `ProbeAccounted` needs `PermitShape`
(an attempt without a permit has no call left to make, and a permit's half-open subjects are subjects of its
deployment and are held only while the circuit is enabled) and `ProbeRecovers` (unless `MayLapse`, a probe exists
only while its subject has a history and no cooldown, so that the report that ends it finds it half-open). For
the refinement, every action is classified per subject: a lemma says that each step changes a subject as one of
`Breaker`'s eight steps or leaves it alone, and `Breaker!Next` is their conjunction.

Of the admission (assuming `AdmissionAssumption`):

| Theorem | Property |
|---|---|
| `TypeCorrect` | `TypeOK` |
| `ReservationsCovered` | `ReservedCoversLeases` |
| `LimitsHold` | `WithinLimits` |
| `UsageIsCountedOnce` | `UsageCountedOnce` |
| `LeastBusyIsCovered` | `LeastBusyCovers` |

The counters are sums over attempts. `Units(f)` turns such a sum into the cardinality of a finite set of pairs,
so that adding or removing one attempt is a disjoint union and the library's cardinality facts apply; without it
a sum would need induction over data. One lemma says what a change of `f` at one point does to the cardinality.
The strengthening is `Owners`: reservations and usage stay within their bounds, an idle attempt holds no lease,
`used` is zero for whoever still holds a lease, is idle or was resent, an overdue attempt belongs to a past
minute, and nothing is resent unless `MayResend`.

**`RouterProofs`** (assuming `RouterAssumption`: finite pools that do not overlap, a positive limit, chains that do
not name the primary):

| Theorem | Property |
|---|---|
| `AttemptsSettledOnce` | `SettledOnce` |
| `SpentStaysSpent` | `SpentNotRepeated` |
| `CandidatesUsedEvenly` | `EvenUse`, the first conjunct of `ChosenInTurn` |
| `OnlyHinderedGivesUp` | `GivesUpOnlyHindered`, its last conjunct |
| `RequestsChooseInTurn` | `ChosenInTurn`, if `ChainsFit` |

`SettledOnce` is not inductive. `Inv` adds the shape of the locals (`Typed`); that earlier attempts and the current
budget add up to the limit, and that an attempt starts only below it (`Counts`); what is held in each state, which
is what lets the ends of an attempt hand back exactly that (`Holdings`): a transient failure that makes no circuit
call is one whose permit has no probe of the deployment; and that `req` counts a deployment before `past` charges it
(`Charges`). `EvenUse` speaks of the current pool only, but retry rounds enter a pool again, so `Evenness` keeps the
same for every pool, and says that the tries a pool allows never exceed by more than one those of a candidate it may
still use. That a limit of tries is a number needs the least element of a set of naturals: `LeastNatural` gets it
from the well-foundedness of strict inclusion between the intervals `1..n`, a fact of the library that takes no
operator parameter.

`GivesUpOnlyHindered` speaks of a whole retry round after it has ended, so `Rounds` says it of the pools that the round
has left behind: while a round has made no attempt, each model before `leg.at` is hindered, and a pool in which nothing
was tried lets its candidates be tried as often as the most tried of them. `ChosenInTurn` also has fallbacks in order.
`ChainsFit` says that every chain is shorter than `MaxAttempts`. It is necessary: with a longer chain the code passes
models over (`router/index.ts:1199`, section 5). Under it `Reserve` is the argument: the pool in hand, at the limit that
the code gives it, leaves an attempt to each model after it. This holds for as long as the first `route()` runs; a
later one inherits what is left, and fallbacks in order are stated of the first.

**`KeyBudgetProofs`** (assuming `BudgetAssumption`: finitely many requests, settings made of numbers, requests shorter
than the lease TTL):

| Theorem | Property |
|---|---|
| `LeasesCovered` | `ReservedCoversLeases` |
| `LedgersAlwaysAgree` | `LedgersAgree`, if `"settling" \notin CrashPhases` |
| `SpendStaysWithinLimit` | `HardCap`, if `"settling" \notin CrashPhases` |
| `SpendWipedOnce` | `SpendWipedOnlyWhenDue` |

A replica that dies between the two writes of a settlement leaves one ledger behind: the two theorems with a
condition are false without it. `Inv` (types, who may own a lease, `Covered`) holds whatever fails. `Covered` adds that
without a period the reserved counter outlives the leases: every script that writes both gives the counter the full
lease TTL. `LifetimeInv` adds what holds of a budget that never resets while Redis keeps its data: its counter is
seeded once, before anything is spent (`Seeded`); a request in time still has its lease, because its deadline lies a
lease TTL after it began and `MaxDuration` is shorter (`InTime`); and every cent is in both ledgers or still to be
written, under a limit that actual and reserved spend keep together (`Balanced`). Then what is recorded is at most what
Redis counts plus what is to be written there, all of which is still reserved. Sums are cardinalities, as above.

**`StreamsProofs`** (assuming `StreamsAssumption`: the alphabets are of the modelled wires, the APIs among the three,
`None` is none of the values it stands in for, the kinds of blocks and pieces included):

| Theorem | Property |
|---|---|
| `TypeCorrect` | `TypeOK` |
| `EndToldOnce` | `OneVerdict` |
| `SettledFairly` | `FairlySettled` |
| `OneOutcomeTold` | `OneOutcome` |
| `EveryPieceShown` | `FramesComplete` |

They hold for streams of any length and for faults at any point of them. No induction over the frames is needed, because
the invariants say what is true of the whole sequence `sent` and how it grows by a batch: until the stream is closed it
consists of body frames, or ends with the one end frame, in which case reader and writer have nothing left
(`SentInOrder`). `Inv` adds the types (`Typed`); that the endpoint has taken, or holds in the batch the reader is ahead
by, the usage that the observer knows (`UsageTold`); where the writer can be for each way the reader ended (`Ordered`);
which trouble belongs to which stage (`Troubled`); and that the end is on its way to a client that is still there
(`EndUnderway`). For `OneOutcome`, `Judged` relates the observer to the document while the stream is open: a Responses
wire's terminal is that of the document, and on the other wires the reason the observer keeps for each choice has the
outcome of the one in the document. `Signed` carries what the end frame says from the renderer through
`ready` and `writing` to `sent`.

`FramesComplete` is about the content of all frames, so it needs an account of a sequence of frames that each
frame continues (`Account`): blocks are numbered in the order in which they open (`Numbered`), a frame that extends or
closes a block finds it open and of its type (`Paired`), and the blocks that nothing has closed are the renderer's open
ones (`Standing`). For each public API lemmas say what its chunks open, extend, close and show (`TextShown`, `ThinkShown`,
`ToolShown`, `MessagesShown`, `ResponsesShown`) or put aside for later (`AsideKept`), and what its end closes and shows
(`MessagesEnds`, `ResponsesEnds`); for each wire, lemmas say which pieces of the document the chunks of one event bring
(`ChatGives`, `GeminiGives`, `MessagesGives`, `ResponsesGives`). `FramesInv` then says of an open stream that what the client has,
followed by what is being written and what is ready, is accounted for and shows the document up to what the renderer
still holds; and of an ended one that nothing stands open and nothing is missing but the reasoning that the Responses
API cannot show any more (`Done`). A stream that breaks off leaves the client a beginning of that sequence, of which
everything holds but completeness (`PrefixAccounted`).

**`SocketsProofs`** (assuming `SocketsAssumption`: bounds are numbers, native deployments are deployments, the default
format is a format, `None` is none of the records it stands in for):

| Theorem | Property |
|---|---|
| `TypeCorrect` | `TypeOK`, of both kinds |
| `ConversationsContinue` | `HistoryKept` |
| `AudioIsPaidFor` | `AudioCharged` |

`HistoryKept` needs `ResponsesInv`: messages keep their order and a response is marked only after its turn was told of
(`Numbered`); what the session, the table of stored responses and the upstream socket remember of one response is the
same (`Remembered`), so that what upstream continues from is what the gateway's input begins with (`Continued`),
whichever of the three a turn was expanded from; and a socket that no turn reads has nothing running, while the one
that is read runs this turn's input (`Undisturbed`), so that what is read was asked for (`Faithful`). All but the
order exempts a socket on which a message was garbled, as the property does (section 5). `AudioCharged` needs `LiveInv`: a
patient client has one event under way (`Waiting`); then gateway and upstream have the same configuration whenever audio
can move (`Agreed`); nothing reaches upstream after the end (`Over`); and what upstream received has been counted but
for the piece being flushed (`Balanced`).

**`DurableProofs`** has the theorems about what must outlive the process that began it, the log of operations and the
video jobs. They share no table. It extends both modules. Of the log (assuming `LogAssumption`: positive limits, statuses
and terminals among those of the code):

| Theorem | Property |
|---|---|
| `TypeCorrect` | `TypeOK` |
| `FirstReportWins` | `FirstReportStays` |
| `LeasedAreNotAbandoned` | `AbandonsOnlyUnleased` |
| `FlushIsDurable` | `FlushedIsDurable` |

An outcome in a row was reported first or is the reconciler's (`ReportsKept`). The reconciler reads rows, reads leases and
writes in three steps; it abandons no leased operation because what it audits began long ago (`Begun`) and takes no
lease any more, and what it is about to update had none (`UpdatesUnleased`). For durability, a report is written, counted as
lost, or in a finalization task (`ReportsTravel`) whose row exists once its begin has ended (`RowsBegun`), and the
flush waits for every task whose report is owed and not written (`FlushCovers`).

Of the video jobs (assuming `VideoAssumption`: nobody is both poller and viewer):

| Theorem | Property |
|---|---|
| `VideoTypeCorrect` | `VideoTypeOK` |
| `DownloadsAreStored` | `ServableIsStored` |
| `NothingLeftBehind` | `NothingOrphaned` |

For any number of pollers and viewers: objects are removed only under a job that was deleted or has expired
(`RemovedWhenOver`), and until then an object put by an ingestion stays (`PutStays`). Nothing is orphaned because no
ingestion ran beside a removal, unless it is counted as `astray` (`Alone`), so a removal that reaches its row has removed
the object (`MarkedIsGone`), and an object has its row or the ingestion that is about to write it (`ObjectOwned`).

**`ConfigurationProofs`** (assuming `ConfigurationAssumption`: models are finitely many and ordered, the bounds are
numbers, `None` and `"?"` are none of the values they stand in for):

| Theorem | Property |
|---|---|
| `ConfigurationTyped` | `TypeOK`, of the three parts |
| `SetsStayCurrent` | `Extensions!SetCurrent` |
| `AdministrationStays` | `Administration!AdministrationKept`: `ChainsResolve`, `SecretsLast`, `NoCircle` |
| `CachesStayCurrent` | `Caches!CachesKept` |
| `ConfigurationStays` | `ConfigurationKept`, all of them |

The three parts have each an inductive invariant, and a step of one leaves the others alone. *Extensions*
(`ExtensionsInv`): unless a replica is blemished, one reload runs at a time and what it has put on disk, imported and set
up is still there (`Undisturbed`); the poll and the administrator reload versions that the registry has (`Reloading`);
and because a reload reads the version before the rows, what it has read is what the rows say whenever its version is
still the last (`Current`), so that the set it swaps in is that of the version recorded after it. *Administration*
(`AdministrationInv`): a request takes its locks in the order of the models, and what it holds is what is recorded in
`lock` (`LocksHeld`), so no two requests hold one lock; a row that is being deleted is deleted by one request, and keeps its
model until then (`RowsLocked`); so what was counted under the lock is still true when the row is written (`Renames`), and
a chain loses a model only with the model's last deployment. For `NoCircle`, suppose everybody waits. A request that
has deleted its row waits for nothing, so nobody waits for a row, and everybody waits for a lock. The holder of the
greatest lock waited for then waits for one that is greater still (`NoneInCircle`; `Greatest` finds the
maximum of a finite set of naturals by the well-foundedness of strict inclusion among finite sets). *Caches* (`CachesInv`): what is due was stored before it became due
(`Stored`); a request that is to put something into a cache read it no earlier than what is due to it, and an entry under
an epoch was made of what its epoch's invalidation followed (`KeyFresh`, `SettingsFresh`, `EntriesFresh`, `Yields`).

**`RequestsProofs`** (assuming `RequestsAssumption`, which only says what the constants are: `Metering!WellMeant`,
`CatalogSync!WellKept` and `Effort!WellPosed`):

| Theorem | Property |
|---|---|
| `MeteringStays` | `MeteringKept`: `Paid`, `Covered`, `Told`, `Tiered` |
| `CatalogueStays` | `CatalogueKept`: `HistoryTrue`, `GoneOnly`, `Backed`, `Settled`, `NewOnly`, `Reviewed`, `Quiet` |
| `EffortStays` | `EffortKept`: `Heeded`, `Discreet`, `NotRefused`, `Logged` |

A behaviour is of one kind, and each part has an inductive invariant of its own that the steps of the others leave alone.

*Metering.* It holds for every price list the schema accepts (`profiles/schema.ts:6-28`), any number of tiers, any figures a provider
may report and every way a request may end. `WellMeant` says that work is what its wire has words for (a rerank has no
output tokens, only a transcription has seconds), that a text endpoint answers in one of its contracts, and
that Vercel's brackets are what such a list means: they follow one another from prompts of no size, without gaps or
overlaps, and a flat rate beside them is that of the first (`Contiguous`). The last is an assumption about a provider;
without it there are prompts that have no rate or two.

The inductive invariant `MeteringInv` says for each stage of a request what is owed: nothing is charged or written
while the provider may still refuse (`WaitingOK`); from the answer on, the usage in hand is what the gateway counts of the
work that was done, or was lost with a stream (`AnsweredOK` to `TailOK`); and what is over has one charge, of the work or of
nothing (`ChargeOK`). What remains is arithmetic for every number. `CountedIs` says for each of the twelve wires that
its usage, in whatever way the wire counts, comes to the same four buckets, and `CostIsDue` that their price by
`computeCost` is what `Due` asks for work of that size. `DueIsCovered` bounds it by the estimate: the estimate takes the
greatest rate of any tier for the whole of the prompt and of the output, so each bucket costs at most its share of it.
`TiersAgree` says that a price list made from brackets charges every prompt what the one bracket it falls in says: exactly
one does (`OneHolds`), and the last tier whose threshold it exceeds, filled in from the ones below, carries that bracket's
rate.

*The catalogue.* It holds for any finite set of names and any spelling of them, whatever the sources answer in
any number of runs, any tolerance for failed details and any starting catalogue whose drafts carry their mark
(`WellKept`). `CatalogueInv` says that an entry whose reasoning is drafted awaits review (`CatalogFits`); that the
history is what the runs so far have heard (`Remembers`): who was ever confirmed, and of each model that one source alone
names since how many runs; and what a report in hand is made of (`ItemsOK`): each of its items is an entry merged with
what this run heard (`Made`). `StreakGrows` extends a streak by a run; because it says what the last `n` runs have in
common and not how they are counted, no induction over data is needed. Of an item the properties follow by what merging
does: a changed figure was the only one given, or two sources gave figures within the tolerance of each other (`ResolvedIs`,
for `Backed`); only what nobody has settled is filled in (`MadeSettles`); and merging the same answers into the
result changes nothing (`MadeIsQuiet`). `GoneOnly` has to be in the invariant, because it speaks of the sources as they
were when the run asked; `GoneIs` shows it of a new report: a complete answer fails to name at most the tolerated
share, and what is reported gone is named by none.
The proof corrected the model: an earlier form of `Backed` counted the sources that name the model instead of those that
give the figure, which is false when an offer has no price.

*Reasoning effort.* It holds for every request the three schemas accept and every model that `validateReasoning` and
`validateProvider` let in: any levels, budgets and names of levels, on any adapter, tried in any order (`WellPosed` only
gives the types, and says that a deployment's default transport is one its adapter supports). The
invariant is short, since every attempt starts from the canonical request: `EffortInv` says that what was told and logged
last is a function of the request and the model (`TellsOf`), so nothing an earlier attempt snapped or dropped is in
it. `AskMeans` relates the canonical form of each contract to the wish read off the request as the client
wrote it, and `SnapServes` says of every set of levels that snapping finds the level that serves a wish best.
For each adapter a lemma (`AnthropicFits`, `GoogleFits`, `ChatFits`, `ResponsesFits`, `VercelFits`) says that its
words are understood as that level by the model they are sent to. The gaps of the code stay named in the
properties (`OverResponses`, `Unbudgeted`, `Neighbours`). The proof widened the last of them: Gemini is told `high`
for any level whose upstream name is `xhigh` (`adapters/google/index.ts:239`), which an operator's
`upstreamEffortMap` may give to another level than `xhigh`.

**Model-checked only.**

- Liveness (`NeverBlockedForever`, `Terminates`, `StreamEnds`, `SessionsEnd`, `EverySettles`, `JobEnds`, `AssetsCollected`,
  `ConfigurationArrives`): it rests on fairness and `ENABLED`, which are out of the prover's reach.
- `InputsKept`, `ConversationKept`: what they say is about folds over parts, candidates and transcripts, which would need
  induction over data.
- That administrators' requests are stuck for no other reason than a lock (`Administration!NoneStuck`): it is about `ENABLED`.

## 5. Where the code and its words disagree

The first two are runs that TLC finds violated.

1. **The budget window slides** (`budget_rollover`, `RollsOver`). `SETTLE_LUA` re-arms the counter's expiry with the
   time that was left at reservation (`ratelimit/index.ts:76`), so each settlement moves the end by the duration
   of its request. `apps/docs/content/docs/virtual-keys.mdx:61`: "When the window rolls over, `spendCents` resets."
2. **A live update is lost** (`live_updates`, `UpdatesKept`). `receiveUpstream` replaces `session.config` by whatever
   `session.updated` reports (`endpoints/liveTranscription.ts:191`); a late one, for the pinning or an earlier update,
   overwrites what the client has since changed, and the next partial update is built on it.
   `adapters/openaiLiveTranscription.ts:169`: "The public client may still replace every other setting."

Other promises that TLC refutes. The definitions are in the modules and belong to no run.

| Property | How TLC refutes it | What happens |
|---|---|---|
| `CircuitBreaker!SuccessfulProbeCloses` | the constants of `circuit` | a half-open attempt outlives its probe key and its success closes nothing; `routing.mdx:140` says a successful probe closes the circuit |
| `KeyBudget!HardCap` without its guard | `period = 3`, `limit = 1`, `cost = 1`, `MaxTime = 6` | a reservation of the old window is settled into the new one |
| `KeyBudget!ReservedCoversAlways` | `limit = 3`, `cost = 1`, `period = 2`, no trouble, two requests, `LeaseTtl = 4`, `MaxDuration = 2`, `MaxTime = 7`, no crashes | a settlement re-arms the reserved counter for what its own request thought was left of the window (`ratelimit/index.ts:71`), so the counter may end before leases that another request has extended further; `virtual-keys.mdx:77-80` promises a conservative reservation |
| `KeyBudget!RebuiltFromRow` | the constants of `budget` | spend settled between a loss of Redis and the seeding is missing from the counter |
| `KeyBudget!CrashStrandsNothing` | the constants of `budget` | the lease keys expire together with a longer-lived reserved counter, which keeps the amount; `virtual-keys.mdx:77-84` |
| `Router!FallbacksInOrder` | `route` with `MaxAttempts = 2` | the limit of early fallbacks is zero (`router/index.ts:1199`), so the last one is contacted before another that was never tried; `fallbacks.mdx:50-51`: "the chosen chain is traversed linearly" |
| `Router!RetriesExhaustPolicy` | the constants of `route` | `maxAttemptsPerDeployment` counts blocked siblings (`router/index.ts:385`): while one is in cooldown nobody is tried twice, and the request fails with attempts left; the comment at `router/index.ts:1205-1207` says rounds go on until the policy is exhausted |
| `Router!ProbesHandedBack` | the constants of `route` | a transient failure that is not a first signal makes no circuit call (`router/index.ts:1011`), so a capacity probe in its permit is kept to its TTL; `circuit.ts:416` promises a release |
| `Router!ChargedOnce` for streams | the constants of `route`, without `~streaming` | `finish()` and re-entry count a deployment again; `routing.mdx:127` |
| `Router!SpentNotRepeated` for streams | the same | re-entry forgets which deployments were exhausted; `fallbacks.mdx:66-67` |
| `VideoJobs!EndsStay` | the constants of `videos` | a refresh that read the row earlier overwrites a final status (`videos/service.ts:173`) |
| `OperationLog!AttemptsSettle` | the constants of `operations` | the reconciler's two updates are not one transaction (`logging/operations.ts:803-833`): if it dies between them, the attempt stays in progress |

Modelling met the following as well. They are in the modules as the code has them, and the properties are stated
around them: where a property has an exception, this is it.

**Routing and settlement**

- Streamed Messages are charged output tokens only when they succeed (`endpoints/messages.ts:142-157`,
  `router/index.ts:674`), and all tokens when they fail. Streamed Responses drop the cache counts.
- A stream whose client leaves before the usage arrives releases its quota uncharged.
- A heartbeat write that times out while `routeChat` has just resolved drops its result: nobody calls `finish()`
  (compare `endpoints/runtime/routeLifecycle.ts:8-9`).
- Image and transcription streams record no usage on failure: one that fails at or before its completed event is
  released uncharged. A text JSON request whose extension throws is released uncharged, while media endpoints charge their fallback usage.
- File transcriptions reserve no seconds, so `audioInputCentsPerMinute` may exceed the upper bound of the reservation.
- Cache rates fall back to the base input rate even where a tier raises input (`logging/cost.ts:28` says "at that
  level"). Vercel's tier minimum is inclusive, the gateway's is not. OpenAI usage without a total settles zero TPM.

**Streams and contracts**

- On backpressure the cleanup waits for the pending upstream read before it aborts it; the prefetched read has no
  rejection handler; `routeChat`'s prefetch wrapper does not return the inner iterator.
- Reasoning that arrives after the text is not emitted on Responses ("so nothing is dropped", `responsesRender.ts`).
- Gemini calls streamed in separate events all get index 0 and the id `call_0_0` (`adapters/google/index.ts:1042-1052`).
- A native Responses stream that is incomplete with a tool call is reported completed and logged incomplete.
- Anthropic's JSON answer says `tool_calls` whenever a tool is present; its stream keeps `max_tokens`.
- In a Responses conversation a signed Gemini answer of text and calls sends its calls twice on the next Gemini turn
  (`responsesRender.ts:897-907`); the thinking of a call-only Anthropic answer is lost; ids made from positions
  collide across turns; a reasoning-only OpenAI turn's reasoning joins the next assistant message. The comment at
  `responsesRender.ts:727-731` ("Emitted regardless of the client's include") is undone by `responseForClient`.
- Messages drops unknown image blocks and non-text system blocks silently. Dropping unsupported `tools` keeps `tool_choice`.
- The combined limit of 50 MB (`file-inputs.mdx:86`) is not applied to parts an abandoned attempt counted. A failed
  download is remembered, so a passing failure fails every later candidate.

**Reasoning**

- Models whose reasoning is `fixed` or a flag in the body are refused over the `responses` transport, whatever the
  effort (`reasoning.mdx:25`: "never returns an error for an out-of-range effort").
- Gemini levels map `none` to `minimal` and whatever is named `xhigh` upstream to `high`. Vercel needs explicit budgets and ignores
  `upstreamEffortMap` for scalar kinds. Under "drop" the log is made from the original request.

**Sockets**

- After a garbled upstream message a Responses socket stays open, and the next turn reads what upstream goes on
  generating. `generate: false` on a native socket always fails (`responses.mdx:135`). A connection that opens
  after the first-output deadline may be orphaned.
- A live session is settled without waiting for its queue; a client that leaves while the pinning update is flushed
  leaves the upstream socket open; a rejected update leaves `session.config` changed.

**State in the background**

- Overlapping reloads can leave an older set under a newer version, tear down code that is loaded, or prune a module that
  another reload imports. A crash between a change and `bumpRegistryVersion` hides the change. `setupDone` is lost on
  a reload without an active instance. `SetCurrent` holds outside these (`blemish`).
- `configureFallback` takes no advisory lock and names are read before locks; overlapping deletions may leave
  dangling fallbacks (`db/repos/deployments.ts:302-322`; `raced`). `updateDeployment` rewrites unpatched fields from a stale read.
- Settings and keys read before an invalidation are stored after it (up to their time to live); a response made under
  another replica's stale settings is cached for its whole time to live.
- The reconciler's outcome is overwritten by a late finalization; a task that identifies an operation overwrites its
  `publicModel` (`logging/operations.ts:748`). A video completed by a request is never ingested by the poller.

**Catalogue sync**

- A model whose detail call failed at both sources within the tolerance is reported deprecated ("a partial/failed
  fetch must never read as 'the model is gone'", `catalog/sync/deprecate.ts`); an empty answer counts as complete.
- Two spellings of one model are drafted twice or alternate between runs. A human's "does not reason" is drafted again.
  Deprecated entries are never revived.

## 6. Not modelled

- **Virtual-key RPM/TPM counters** (the other half of `ratelimit/index.ts`): the same scripts as deployment
  admission without a second store; they enter `Router` as answers.
- **Scores of the strategies** (`router/strategies.ts`, EWMAs of `router/state.ts`): statistics that only weigh a
  choice every module leaves open.
- **Media bodies** of adapters and the summaries made of them for the log: one call, one reply, formatting. What is charged for them is in `Metering`.
- **Object storage, telemetry text, OpenAPI documents, the documentation site, environment parsing, database
  schema, AES-GCM**: I/O, generated text or configuration; each limit enters a model as a constant, each failure as an outcome.
- **Item references and compaction** of stored responses (`endpoints/runtime/responseCompaction.ts`): one row is read whole in
  `ResponsesSocket`; what a compaction drops is the provider's choice.
- **Listings, reports and searches** of the administration: reads.
- **A composed attempt** over `CircuitBreaker`, `AttemptAdmission` and `KeyBudget` for several requests: the
  product of their states is beyond TLC at bounds where something happens. `Router` checks instead that each call's
  answers are used as the three modules require.

`PROJECT.json` gives the status of each component.

## 7. Running it

```
tlasany CircuitBreaker.tla
tlc -workers 2 -config MCCircuitBreaker.cfg MCCircuitBreaker
tlapm DeploymentProofs.tla
```

`MC<Name>.cfg` belongs to the module named in `PROJECT.json`, "runs". Each run takes at most a few minutes on two cores.
