# A verification project for llm-sdk-ts

TLA+ models of the parts of the SDK whose behaviour depends on the order in
which things happen or on a translation that must lose nothing, the TLC runs
that check small instances of them, and TLAPS proofs of what matters most for
every size. Paths are relative to the repository (`src/src/...` is the
implementation, `src/tests/...` its tests, `src/docs/...` its documents; a bare
`loop.ts:936` is the file of that name under `src/src`). `PROJECT.json` maps
every definition to the lines it models.

Throughout, one action is the code between two awaits: JavaScript runs a turn
to its end, so the awaits are the only places where two activities interleave.

## 1. Inventory

| component | state | operations | what is hard |
|---|---|---|---|
| `network/queue-state.ts`, `semaphore.ts`, `request-queue.ts` | heap of entries, `running`, the loop's place, `current` and `waiters`, per-request attempt | `submit`, `submitStream`, process loop, `executeWithRetry`, `handleRetry`, `connect`, `purgeExpired` | hooks that throw at any emit, retries re-entering the queue, streams that bypass it, one wake-up flag |
| `network/rate-limiter.ts`, `engine.ts` | three token buckets, map of named queues | `waitTimeMs`, `updateFromHeaders`, `pause`, `configureQueue`, `dropQueue` | streams and answers under way change the buckets while the loop sleeps; dropping a queue with requests in flight |
| `network/sse.ts`, `realtime-connection.ts`, `llm/realtime` | decoder buffer, outbox, ready flag | parse, `send`, `markReady`, close | chunks cut anywhere, sends before the socket is ready |
| `plugins/scheduler`, `plugins/persistence` | records on disk, timers, `running` | `after`, `at`, `every`, `cancel`, `start`, `stop`, firing | crashes, torn and rejected writes, start racing everything else |
| `plugins/batch`, `helpers/batch.ts`, `*/batch.ts` | buffer, pending resolvers, job records, poll tasks | intercept, flush, poll, restore, destroy; submit, wait, results, cancel | partial failure of a chain of awaits, restart in the middle, each provider's own status words and order of answers |
| `agent/loop.ts` and its internals | run flag, abort flag, step state, pending tool calls | `run`, `stream`, `abort`, tool rounds, guardrails, finalisation | abort at any await, parallel tool calls, history that must stay well formed |
| `agent/history.ts`, `plugins/context-guard` | messages, token estimates, index of the last actual count, ladder level | `append`, `truncate`, `clear`, `spliceRange`, measure, compact, retry | cuts that part a call from its result, indices that outlive what they index |
| `agent/context-registry` | layers, parents, subscriptions | set, remove, attach, clear, render | bubbling through chains that change |
| `llm/client.ts`, `server-state.ts`, `llm/moderation` | messages, server-state ids, repair count, moderation report | `complete`, `structuredComplete`, `stream` | what the provider keeps against what is resent, verdicts racing the text |
| `wire/`, `llm/providers` | body under construction, registries of open stream items | inherit, fields, blocks, overlays; message builders; stream and response registries | rules that write to each other's paths, five formats of one conversation |
| `plugins/mcp`, `helpers/mcp.ts` | pending requests, timers, session, era, result cache, grant | `request`, `close`, `listen`, connect, `invalidate`, refresh | a timeout against a late answer, a session the server forgot, two refreshes of one token |
| `plugins/telemetry`, `cost-collector`, `context-measurer` | open spans, ledger, budgets, learned rates | hooks, budgets, counters | overlapping runs, failed and retried calls, overlapping updates |
| `server/` | conversations, LRU cache | handle, dispatch, `ResponseStore` | read, await, write |
| `bus/agent-bus.ts`, `plugins/tool-catalog`, `permissions`, `agent/lazy-tools.ts` | subscriptions, queue, scopes | `emit`, call, `setScope`, search | emits inside handlers, scopes changed during a call |
| `plugins/media`, `files`, `cache`, `configuration`, `retrieval`, `internal-tools`, `catalog` | keyed stores with expiry, references or indexes | get, set, resolve, upload, delete, poll, load, run | read, await, write; expiry or deletion between check and use |
| `bus/hook-bus.ts`, `logger`, `embeddings`, thin helpers, `runtime`, `util` | little | | see section 7 |

The components interact through calls (an `LLMClient` calls the `NetworkEngine`,
the engine a queue, the `Batcher` the `Scheduler`, an `AgentLoop` its client and
tools), through hooks (`HookBus` lets a subscriber's error reach the emitter,
`bus/hook-bus.ts:11-14`, so every emit is a place where a step may be cut off),
through persistence (scheduler records, batch records, agent checkpoints), and
through promises and generators handed to callers.

What makes each of them correct:

- **Queue.** The semaphore's count is the number of slots held; the provider
  never sees more than `limits.concurrent` requests; no slot idles while someone
  waits; every entry is in one pair of hands; a request is sent within its retry
  budget and never after it was accepted; every caller is answered.
- **Rate limiter, engine, streams.** A wait is long enough for the tokens it was
  asked for, unless another sender or an answer changes the bucket meanwhile; a
  named queue obeys its settings; the cuts of a stream do not show.
- **Scheduler, batcher, batch jobs.** No accepted task is lost; no request is
  submitted twice or forgotten; what the provider finishes reaches the caller
  that asked for it, or is announced after a restart.
- **Agent loop.** One run at a time; the history sent to a model pairs calls and
  answers; the number of model calls is bounded; a gated tool runs only on an
  approval of that invocation; a run ends with one report.
- **Calls of a model.** Sent messages and kept state make up the whole
  conversation; a body is what its spec says; a streamed answer is the buffered
  one; a cut keeps a call with its result; each verdict and each call is
  accounted for.
- **MCP.** Each request is answered once, by its own answer, its timeout or the
  close; one rebuild of a lost session; a listing is as new as the last change
  told; the stored grant is the accepted one.
- **Plugins.** What was recorded, saved, cached or indexed is what happened and
  is found again as long as it should be.

The places where the code is exposed are listed at their lines under `hazards`
in `PROJECT.json`.

## 2. Modules

| module | models | used by |
|---|---|---|
| `RequestLifecycle` | abstract: what one queue promises its callers | refined by `QueueState` |
| `QueueState` | `network/queue-state.ts`, `semaphore.ts`, order of `request-queue.ts` | `MCQueueState`, the two queue proof modules |
| `NetworkEngine` | `rate-limiter.ts` on a clock, `errors.ts`, `engine.ts` | `MCNetwork`, `NetworkProofs` |
| `Streams` | `sse.ts`; `realtime-connection.ts`, `llm/realtime`, the two providers' sessions | `MCNetwork` |
| `McpTransport` | `plugins/mcp/base-transport.ts`, the three transports, `subscriptions.ts` | `MCNetwork`, `NetworkProofs` |
| `McpClient` | `plugins/mcp/client.ts`, HTTP sessions, `input-required.ts`, `result-cache.ts`, `helpers/mcp.ts` | `MCNetwork`, `mcp_session`, `NetworkProofs` |
| `McpOauth` | `plugins/mcp/oauth.ts` | `MCNetwork`, `NetworkProofs` |
| `Scheduler` | `plugins/scheduler/scheduler.ts` over `plugins/persistence` | `MCScheduler`, `SchedulerProofs` |
| `Batcher` | `plugins/batch/batcher.ts` for one provider, over the guarantees of `Scheduler` | `MCBatcher`, `BatcherProofs` |
| `BatchJobs` | `helpers/batch.ts` and the four batch adapters | `MCLlmCalls` |
| `AgentLoop` | `agent/loop.ts`, `loop-internals.ts`, `fallback.ts`, `reflect-retry.ts` | `MCAgentLoop`, `AgentLoopProofs`, `AgentHistoryProofs` |
| `LLMClient` | `llm/client.ts`, `client-internal.ts`, `server-state.ts`, `response-shape.ts` | `MCLLMClient` |
| `ModeratedStream` | `llm/moderation/runner.ts` and `stream` of the client | `MCLlmCalls`, `moderation_lost` |
| `Wire` | `wire/inherit.ts`, `interpreter.ts`, the spec registries | `MCWire` (excerpts of two spec chains) |
| `Adapters` | message builders of five chat APIs, `wire-transforms.ts`, `tool-result.ts` | `MCLlmCalls` |
| `StreamAssembly` | stream and response registries of the same five, `agent/loop-internals.ts` | `MCLlmCalls` |
| `ContextGuard` | `agent/history.ts`, `plugins/context-guard` with three strategies | `MCLlmCalls` |
| `ContextRegistry` | `agent/context-registry` | `MCLlmCalls` |
| `Telemetry`, `CostCollector`, `Calibration` | `plugins/telemetry`; `plugins/cost-collector`, `helpers/estimate.ts`, `one-shot.ts`; `plugins/context-measurer` | `MCNetwork` |
| `Server` | `server/` | `MCPlugins`, `PluginsProofs` |
| `Tools` | `bus/agent-bus.ts`, `plugins/tool-catalog`, `permissions`, `agent/lazy-tools.ts` | `MCPlugins`, `PluginsProofs` |
| `Media`, `Files` | `plugins/media`, `plugins/files` and the providers' media and file adapters | `MCPlugins`, `PluginsProofs` |
| `Stores` | `plugins/cache`, `plugins/configuration`, key names of `persistence/file.ts` | `MCPlugins`, `PluginsProofs` |
| `Retrieval` | `plugins/retrieval` | `MCPlugins`, `PluginsProofs` |
| `InternalTools` | `plugins/internal-tools` | `MCPlugins`, `PluginsProofs` |
| `Catalog` | `catalog/catalog.ts`, `helpers/select-model.ts` | `MCPlugins`, `PluginsProofs` |
| `MCNetwork`, `MCLlmCalls`, `MCPlugins` | the instances of the above, one part on turn (section 3) | runs |

Definitions whose names say how they differ from the code (`ReleaseForgetsCount`,
`SvPutBeforeEvicting`, ...) are used by no specification. They are the plausible
bugs the properties are tried against (`mutants` in `PROJECT.json`). Each module
of the second half prefixes its names (`Mc`, `Cg`, ...), so that several can be
extended together.

### QueueState

`pc[a]` is the await a request is parked at; `queue`, `running`, `current`,
`waiters` are the fields of the same names, `loop` is where `processLoop` stands,
`attempt` is `entry.attempt` (for a stream, the counter of `connect`). `answer`
and `sends` record what was seen on the wire. Buffered requests go through
`submit`, the loop and `executeWithRetry`; streams take a slot of the same
semaphore in `submitStream`. Every emit of a hook in `Throwing` may throw.
Time belongs to the environment: the limiter may ask for a wait or not, any
prefix of the queue may have expired, a retry's delay may or may not exceed the
budget of its attempt. The limiter's arithmetic is in `NetworkEngine`. A send is one
attempt: with `redirect: 'same-origin'` `fetchFn` may be called up to four times in
it, along a chain of redirects that answer neither 2xx nor an error
(`queue-state.ts:638-639`, `:659-681`); the retry budget counts attempts.

### NetworkEngine, Streams, MCP

`NetworkEngine` has a clock and counts tokens in parts of `1 / NeMinute`, so that a
refill per tick is exact. Of the queue it keeps those who share the limiter, the loop
and the streams (`NeSenders`): each asks how long to wait, sleeps, takes its tokens and
sends, and nobody looks at what `canProceed` answers. While one sleeps, another sender, a
header or a pause may change its buckets; `neUpset` notes for each sleeper the buckets its
wait did not reckon with. `Streams` gives the line decoder every cut of a text
into chunks, and a realtime session every order of open, setup, send, close.
`McpTransport` is one connection of any of the three kinds: a message is its id,
the server answers late, twice or never. `McpClient` has a server that speaks
some eras, may forget its sessions and change its list of tools; a listing is
the version of the list each of its two pages shows. `McpOauth` makes every
access of the provider's store and every request a turn of its own; the
authorization server rotates refresh tokens.

### Scheduler

`store` is the set of tasks with a record, `live[t]` the timers of a task that
are set (a second one replaces the first in the map `timers` and stays set),
`mapped` the keys of the map, `handling` and `saving` the runs at the await of the
handler and of the write. `start` is three kinds of turns: list, load one key,
schedule it. A crash drops all but `store`; with `AtomicWrites = FALSE` a record
being written may be cut, which `FilePersistence.get` reads as missing. Each call of
the persistence may also reject: the add or the cancel rejects to its caller, `start`
ends before it got to the rest, a periodic task is not scheduled again, a one-shot one
keeps its record (`AddFails`, `CancelFails`, `StartFails`, `RescheduleFails`,
`DeletionFails`). `dropped` is a history variable: the tasks such a rejection left
without a timer. The rejection is unhandled in a timer's callback, where the runtime may
end the process: that is `Crash`. Due times belong to the environment. One `start` runs
at a time.

### Batcher, BatchJobs

`promise[r]` is what the caller holds, `collecting` the buffer, `flush[b]` where
`flushCollection` stands, `remote[b]` the batch at the provider, `jobs` the records,
`resolvers` the keys of `pendingResolvers`, `tasks[b]` the stored poll tasks and
`polls[b]` the polls at each await. What the batcher needs of the scheduler, that
a stored task is run until it ran to its end and its record is deleted then, is
what module `Scheduler` shows of a persistence that does not reject the scheduler's own
calls. `lost` is a history variable: requests met by a
failure the code does not recover from, each added at the line where that
happens. Which requests are intercepted is the strategy's choice and is left
open; counting of requestors is not modelled. `BatchJobs` has one job per
provider, in the states the provider names, and gives each answer its name again
as that provider's adapter does.

### AgentLoop

`pc[r]` is the await or yield a run is parked at, `at[r][c]` where
`executeSingleTool` stands with a call, `running` is `_running`, `pending`, `prefed`
and `checkpoint` are `_pendingToolCalls`, `_prefedApprovals` and the stored dump.
A message is its role and the call ids it asks or answers; a tool with its
arguments is one value of `Args`, as it is one digest in `approvalDigest`; a
fallback chain is one model that replies or fails; dump and write of a checkpoint
are one step. `executed`, `misreported`, `consents`, `rogue`, `sends` and `failures`
are history variables. Not modelled: the tool table and its mutators, system and
context setters, contents of replies. `resumeWithApproval` is called as the guide
calls it, with no run in flight.

### LLMClient, Wire, Adapters, StreamAssembly, ModeratedStream

`LLMClient` holds one conversation through clients of several models, some of
which keep state: a message is its number and origin, and a request is what is
sent plus the id it continues from, compared with what the provider behind that
id knows. `Wire` represents a JSON value as the set of its leaves, each a path and
a scalar; its log of writes is checked against the body. `MCWire` has excerpts of
`openai-completions.json` and `anthropic-chain/*.json` with the rules kept that
write to each other's paths. `Adapters` builds one history for all five chat APIs
and checks order, pairing and presence of what went out. `StreamAssembly` sends an
answer in every interleaving of its pieces that an API allows, may cut it, and
compares the assembled step with the buffered parse. `ModeratedStream` is the three
wrappers `post`, `buffer`, `parallel` with verdicts that land at any time and a
consumer that may leave.

### ContextGuard, ContextRegistry

A history is messages with a kind, a call id and a size; the guard measures,
compares with the ladder of the strategy, cuts, measures again, and lets the
request through or aborts it. Counters agree on sizes here; what a summariser
returns is a size and whether facts came with it. The registry's layers hold the
letters written to them; subscriptions remember which change was heard.

### The plugins

`Telemetry` takes the hooks in the orders `queue-state.ts`, `client.ts` and `loop.ts` emit
them; a tool call that was skipped, denied or overridden, or whose approver threw, is left
without an end (`TlToolLeft`), and a resume may start its id again. `CostCollector` counts
money in whole units. `Calibration` tells a rate apart by the samples that went into it.
`Server` has several requests in flight, each access of the conversation loader a turn, and
beside them the response store's cache over a persistence that ends its operations in any
order and may fail them. `Files` makes a deletion three turns, asked, done at the provider,
answered, any answer of which may be lost. `Tools` runs calls of the catalog, which emit on
the bus, whose handlers may throw, emit, or leave work behind. `Media`, `Files`, `Stores`,
`Retrieval` and `InternalTools` split every operation at its awaits. `Catalog` loads entries
that claim each other's names.

## 3. Runs

Every run completes in under five minutes with two workers.

| run | instance | shows |
|---|---|---|
| `queue_quiet` | three buffered requests (one interactive, one stateful), one stream, two slots, queue of two, one 429 retry, no hook throws | exact slot count, no idle slot, no stranded entry, one keeper per entry, `QueueState` implements `RequestLifecycle` |
| `queue_live` | two requests, one stream, one slot, queue of one, every hook but `onRequestStart` may throw | every submitted request is settled, unless a throw cost an entry its request |
| `queue_throwing` | eleven parts: queue (two requests, one stream, one slot, uneven retry budgets, every hook but `onRetry` may throw), clock, named queues, MCP transport, MCP client, OAuth, SSE, realtime, telemetry, cost, calibration | the network layer keeps its limits and loses or mixes up nothing; what listens records what happened |
| `sched_durable` | one one-shot and one periodic task, two starts, crashes, every call of the persistence may reject | no task lost; all tended and run but those a rejection dropped, until the next start |
| `llm_calls` | thirteen parts: batcher (two requests, one crash, all nine faults), client, moderation, wire, stream, guard, registry, adapters, one batch job per provider and a refused one | what is sent and what comes back is the conversation |
| `agent_loop` | a `complete()` and a `stream()`, two parallel calls, two steps, one retry, throwing hooks | one run at a time, sendable history, bounded model calls, suspended calls listed, every run ends with its report |
| `agent_resume` | a `complete()` and a `stream()`, one call id used with two invocations, all throwers, one staged message, one restart | approvals serve their invocation once, waiting calls are in the checkpoint, no tool outlives its run, staged input is said once |
| `plugins` | fourteen parts: server, response store, tools and bus, lazy tools, media, files, cache, configuration, chunker, vectors, hosted retrieval, tool registry, runner, catalog | what plugins answer and store is what happened |
| `queue_resend` | one request, `onRequestComplete` may throw | **violation**: a request answered 2xx is sent again |
| `state_ids` | a streamed step, then a request | **violation**: a made-up id is sent as the provider's |
| `moderation_lost` | the parallel wrapper, four events | **violation**: a verdict nobody is given |
| `mcp_session` | one call, the fetch `connectMcp` passes, one restart of the server | **violation**: a forgotten session is not rebuilt |

**Sums.** `queue_throwing`, `llm_calls` and `plugins` are sums of parts that share no
state: the first state chooses `turn`, a behaviour takes only the steps of that part, and
the parts off turn start in one fixed state. The reachable states are therefore the
disjoint union of those of the parts, and a property of the sum says of each part what its
own module states, by these names:

| property | conjoins |
|---|---|
| `LimitsHold` | `NeSendsAreCovered`, `NeQueueObeysSettings`, `RetryBudget` |
| `McpDelivers` | `TpAnswersReachTheirCallers`, `TpSubscriptionsTended` |
| `McpClientHolds` | `McAutoAgrees`, `McOneRecovery`, `McOnlyRacedListsAreStale`, `OaGrantKept` |
| `StreamsFaithful` | `StChunksDoNotShow`, `RtFramesInCallOrder` |
| `CallsAreWhole` | `LcToldEverything`, `LcAnswersAccounted`, `LcNoSilentDrop` |
| `RequestsFaithful` | `WiLastWriterWins`, `WiInherits`, `WiRegistriesClosed`; `AdPairsTravel`, `AdAnsweredAtOnce`, `AdResultsNamed`, `AdSaidIsSent` |
| `AnswersFaithful` | `ResolversBelongToJobs`; `SaStreamIsTheAnswer`, `SaCutIsSeen`, `SaMediaBracketed`; `MdFaithful`; `BjAnswersMatch`, `BjCollectsTheEnd`, `BjChargedPerReading` |
| `ContextFaithful` | `CgPairsKept`, `CgRequestIsHistory`, `CgEstimateIsExact`; `CrNoCycle`, `CrHeardOnce`, `CrRendersNearest` |
| `ObserversFaithful` | `TlStackIsWhatIsOpen`, `TlFilteredTreeHolds`, `TlTokensToldOnce`; `CcBudgetsFire`, `CcLedgerAddsUp`; `CaRatesAreLearned` |
| `ServerFaithful` | `SvTurnsKept`, `SvReportsAgree`, `SvStoreAgrees` |
| `ToolsFaithful`, `LazyFaithful` | `ToStoriesInOrder`, `AbSameOrder`, `ToRunsWithinScope`, `ToReportsTrue`; `LzReturnsTheBest` |
| `MediaFaithful` | `MeReturnedIsAnnounced`, `MeVideosAreReal` |
| `RunnersFaithful` | `RgCacheAgrees`, `ItStoryHolds`, `ItRunsOnce` |
| `FilesFaithful` | `FiRefsWereLive`, `FiNothingLeftBehind`, `FiNoNeedlessUpload` |
| `CacheFaithful`, `ConfigurationFaithful` | `ChAnswersAreFresh`, `ChInvalidated`; `CfNearestWins` |
| `IndexFaithful`, `SearchFaithful` | `RvChunksCover`, `VsNothingLost`, `HrReadyMeansIndexed`; `VsSearchIsGlobal` |
| `CatalogFaithful` | `MgCalledIsPriced`, `MgRefusalHolds`, `MgPicksAreCallable` |
| `RunsAreSound` | `HistoryIsSendable`, `BoundedSends`, `SuspendedIsListed` |

A conjunction has a mutant in each of the modules it speaks of (`mutants` in
`PROJECT.json`).

**Bounds.** The numbers are the smallest at which each race exists: a slot more than one
holder and less than the requesters, a queue one request can overflow, a retry that re-enters,
one restart in the middle of each write, a call id that comes back; two MCP calls for one lost
session; two refreshes of one grant and a third grant to tell lost from replaced; texts of
five characters, which hold a field, its line end in both characters and the blank line after
it; four turns in a window of eight tokens, which fire every rung of the ladder; three items
an answer and two pieces an item; four loads out of five catalogs that claim each other's
names. `MaxStarts`, `MaxCrashes`, `MaxStaged`, `McRestarts`, `McChanges`, `OaGrants`, `CrOps`,
`TlSpans`, `RgChanges` and their like bound what is otherwise unbounded; `PollRearms` keeps
ended polls of one batch from piling up. The clock has one stream beside the loop and ends a
tick after the longest wait of an empty bucket, with which a stream takes the tokens a
sleeping loop waits for and the loop leaves bare; of the two request buckets it has the one
headers and pauses reach, since the daily one differs from it in nothing else. The batcher has
one batch id in `llm_calls`, with which no two batches exist: that no request is submitted in
two (`SubmittedOnce`) is therefore in no run's list, and is the theorem `SpecSubmittedOnce`,
for any number of them. No symmetry sets are used, since most runs check liveness or a
refinement. `CHECK_DEADLOCK FALSE` is set because all these systems really stop: when every
request, task or run is over, nothing is left to do.

**Fairness.** Weak fairness on the turns the runtime owes: timers fire, resolved promises run
their continuation, `fetchFn` answers or its timeout aborts it, persistence returns (and the
scheduler's, if it does not reject), a provider ends a batch, model, tools, hooks and approver
answer; for `TpCloseEndsAll`, the timers, the background readers and the aborts of one
transport. No fairness on callers, `stop`, `cancel`, `destroy`, servers or crashes. Two
assumptions are about others than this code: consumers of a stream read on or leave
(`ConsumerFairness` in `QueueState`, `RunStep` of a streamed run in `AgentLoop`), and a
human's answer comes. In the sums only the transport and the batcher have fairness, each in
the form its own module states it.

## 4. Proofs

TLAPS proves the following for every value of the constants that satisfies the
modules' named assumptions. `Spec...` is the specification the theorem is about;
those of `NetworkProofs` are about `NetworkSpec`, the specification the run
`queue_throwing` checks, and those of `PluginsProofs` about `PluginsSpec`, which
`plugins` checks.

| module | theorems | argument |
|---|---|---|
| `QueueStateProofs` | `SpecTypeOK`, `SpecNoIdleSlot`, `SpecRetryBudget` | `IInv`: types, entries in the queue are parked and distinct (`QueueParked`), `NoIdleSlot`, sends stay behind attempts with one to spare before a send (`BudgetKept`), what must not be replayed has no second attempt (`OnceUntried`). `RetryBudget`, which the runs check inside `LimitsHold`, is not inductive: it forgets that a request on its way to `fetchFn` has a send left |
| `QueueSlotProofs` | `SpecSlotAccounting`, `SpecConcurrencyCap` | each turn either keeps the set of holders and the count, or changes both by one (`SlotsKept`, `SlotGiven`, ...), on top of `IInv` |
| | `SpecNoStrandedEntry`, `SpecEveryEntryHasAKeeper` | `KeeperInv`: a queued request has one entry, the loop sleeps or acquires for exactly one request that is in no queue, and while entries or a request in hand exist the loop is not over. Neither property is inductive alone: that nothing is stranded rests on what the loop carries when it wakes |
| | `SpecImplementsLifecycle` | the refinement of `RequestLifecycle`: the initial states map, and every turn of a request, a stream or the loop is one abstract step or a stutter, on top of `IInv`, `SlotsCovered` (slots may be lost, never lent twice) and `BodyUntried` |
| | `SpecNoResendAfterSuccess` | `AcceptedStays`: a request answered 2xx is at one of the places after the answer, from which no turn leads back to `fetchFn` |
| `SchedulerProofs` | `SpecTypeOK`, `SpecNoTaskLost`, `SpecEveryTaskTended` | a task is on record from the call on, whatever the persistence rejects (`TaskKept`, assumes `AtomicWrites`); while `start` is under way it may still come to the task (`Tended`, which needs no assumption: a torn record belongs to a run or a call that sets the timer, or was dropped with it) |
| `BatcherProofs` | `SpecSubmittedOnce`, `SpecEveryCallerHasAKeeper`, `SpecEveryJobHasAPoll`, `SpecResolversBelongToJobs` | `CallerInv`: what is held was intercepted and an id is used once. `JobInv`: nothing refers to a batch before its record; running polls have tasks; the tasks of a job outnumber the polls that are over. `EveryJobHasAPoll` alone breaks when a poll deletes its own task. `ResolversBelongToJobs` is checked inside `AnswersFaithful` |
| `AgentLoopProofs` | `SpecOneRunAtATime`, `SpecTypeOK` | `RunInv`: a run whose `beginRun` threw is over. `TypeInv` adds the types of calls, feeds and of what a checkpoint saved (a restart gives them back), and that a run in the loop has a step left to take |
| | `SpecNoRogueExecution`, `SpecGateIsDurable`, `SpecNoToolOutlivesItsRun` | `GateInv`: a call is under way only in a run that waits for its tools, and alone; waiting calls are listed; approved calls and decisions fed in advance have their consent; a decision fed is unused while its call waits for another |
| `AgentHistoryProofs` | `SpecStagedInputSaidOnce` | `StagedInv`: nothing is staged while a run is in the loop, so a checkpoint holds no staged input; said and staged together are no more than was added, and as many while nothing crashed |
| | `SpecRunsAreSound` | `SendsLeft`: sends against the steps paid for and the retries of this one. `TurnsMatch`: the history is paired but for its last turn, whose calls are those of the run that is executing them. `WaitingInv`: calls under way were said, belong to one run and are listed when suspended |
| `NetworkProofs` | lemmas `TpInvInit`, `TpInvStep`, `McInvInit`, `McInvStep`, `McInvSays`, `OaInvInit`, `OaInvStep` | `TpInv`: no id is given out twice, a pending call was sent, and a subscription has somebody who ends it already while it is being opened (`TpOpeningTended`; the property begins when it is open). `McInv`: what the era tried so far has shown of the server (`McLearnt`), the recovery flag is up exactly while one call rebuilds (`McOneRebuilds`), a listing no notification overtook has seen a page as new as the last one (`McListsFresh`). `OaInv`: a grant about to be saved is alive, is not the stored one, and is in nobody else's hands (`OaGrantsOwned`) |
| | `SpecLimitsHold`, `SpecMcpDelivers`, `SpecMcpClientHolds`, `SpecRatesAreLearned`, from `SpecNetworkInv` | every step of the sum is a step of one part and a stutter of the others (`NetworkStepIsOfOnePart`), so `IInv`, `NeInv`, `TpInv`, `McInv`, `OaInv`, `CaInv` hold together. `NeInv`: while a sender sleeps, each bucket it asked that nobody has upset since will hold its share when the sleep ends, however many senders share the limiter (`NeWaitsEnough`); that the rounded quotient of `waitTimeMs` suffices is `NeWaitIsEnough`. `CaInv`: an update holds what is stored, as long as none overlapped it. `CaRatesAreLearned` is checked inside `ObserversFaithful` |
| `PluginsProofs` | `ServerStaysFaithful` | `SvStoreInv`: of two operations on an id under way at once neither is a write, unless the id is noted (`SvClean`), so whatever the order in which they end, the persistence then holds what the cache says (`SvSettled`). `SvRequestInv`: where no two requests were in a conversation at once, what is saved is what was answered, and the one inside has loaded exactly that (`SvAlone`); what a request was reported with, phase by phase, a refused one's two reports included (`SvStories`). `SvTurnsKept` alone forgets what the request inside holds |
| | `ToolsStayFaithful` | `ToInv`: a call has one event open, in the queue or at the head of the drain, and it belongs to the phase the call waits in (`AbOneOpen`); what anybody has heard is past or is being delivered, and what is being delivered is new to those still to hear it (`AbHeardSoFar`). From that, no two listeners hear two events in opposite orders, however handlers nest, throw and unsubscribe |
| | `MediaStaysFaithful` | `MeInv`: at each place of a call, what it has stored, announced and counted; that the usage summed over an answer is 1 is `MeUsageSum`, by induction over its items |
| | `RunnersStayFaithful` | `RgInv`: a build that saw every change so far is right about the backends it has passed (`RgFirsts`). `ItInv`: a story has an odd number of events exactly while a tool runs, and starts only models the run has come to (`ItStory`) |
| | `FilesStayFaithful` | `FiInv`: what the registry says of a copy against what the provider has (`FiUploadsKept`), copies at one provider expire in the order they were made (`FiRemoteKept`), and an upload under way was begun in need (`FiBegunInNeed`); a copy whose deletion has come back is not on record as uploaded (`FiToldKept`), which a reference taken between the provider's deletion and `setDeleted` does not contradict |
| | `CacheStaysFaithful` | `ChInv`: every body is that of a set that is over, under its key (`ChWasSet`); what an invalidation saw and has not deleted it still has on its list (`ChSeenOf`) |
| | `IndexStaysFaithful` | `RvInv`: between the last chunk and where the next begins are only spaces. `VsInv`: before the first load nothing is applied; then the newest write is of the entries as they are, under way or landed (`VsAfter`). `HrStatesAreTrue` holds of every state |
| | `CatalogStaysFaithful` | `MgInv`: every name of an entry leads to a slug, and an alias to an entry that was given it, after each of the entries of a load (`MgAfterIs`, induction over the catalog loaded) |
| | `PluginsStayTyped` | `PluginsTypeOK` from these invariants; for the vector store `VsKept`: what is in memory, on disk or in a write under way was given to it, and no write lands that was not begun |

**Hypotheses.** Beside the constants' assumptions, some theorems exclude what the code
does not survive; each exclusion is a disagreement or divergence of section 5 or a
choice of the instance.

| hypothesis | theorems | without it |
|---|---|---|
| `onRetry` does not throw | `SpecSlotAccounting`, `SpecConcurrencyCap`, `SpecImplementsLifecycle` | a slot is given back twice |
| `onRequestStart` does not throw, or there are no streams | `SpecSlotAccounting` | a stream's slot leaks |
| `onDequeue`, `onQueueTimeout` do not throw | `SpecNoStrandedEntry`, `SpecEveryEntryHasAKeeper` | the entry in hand is lost |
| `onRequestComplete` does not throw | `SpecImplementsLifecycle`, `SpecNoResendAfterSuccess` | an accepted request is sent again (`queue_resend`) |
| `onRateLimitUpdate` does not throw | `SpecNoResendAfterSuccess` | the same, by the hook emitted before it in the turn of the answer (`RequestLifecycle` counts a request as accepted only after that turn) |
| `AtomicWrites` | `SpecNoTaskLost` | a torn record reads as none |
| every request and call has an id of its own (`SvAssumption`, `ToAssumption`, `FiShapes`) | `ServerStaysFaithful`, `ToolsStayFaithful`, `FilesStayFaithful` | ids name the actors of the model, and are no part of the code, but for the ids of tool calls, which `catalog.ts` generates |
| a part of type `file` names an attachment, which a path part does not (`FiShapes`); `gone` models ship inactive (`MgShapes`); subscriptions are listed once each (`ToAssumption`); hosted documents are finitely many (`HrAssumption`) | the theorem of that part | shapes the code gives its data, named in the modules |
| calls in sequence (`~Parallel`) | the three of `GateInv`, `SpecStagedInputSaidOnce` | a call that outlives its run executes in the next one, and writes a checkpoint while input is staged |
| the model uses every id once (`~Reissues`) | `SpecRunsAreSound` | an id used again after an interruption escapes the repair |

**Only model-checked**, and why:

- Liveness and everything under fairness: `ENABLED` is out of the prover's reach.
- `StreamsFaithful`, `ObserversFaithful` but for its calibration part, and with them
  `NetworkTypeOK`: the line decoder, the ledger's sums and the tokens of a run are folds over
  sequences and sets, the realtime and telemetry properties filter sequences, and what a
  fold returns needs induction over data. (`stPending` of the decoder is a Boolean because
  a fold returns one.) The other conjuncts of `NetworkTypeOK` are proved: `NeInvTyped`,
  and parts of `TpInv`, `McInv`, `OaInv`.
- `LlmTypeOK`, `CallsAreWhole`, `RequestsFaithful`, `AnswersFaithful` but for its batcher
  part, `ContextFaithful`: conjunctions over `Wire`, whose evaluation of a specification
  is recursive in the term it evaluates (`WiEval`, a `RECURSIVE` operator, which no module
  with a theorem may reach), and over folds of messages and stream events.
- `ConfigurationFaithful`, `SearchFaithful`, `LazyFaithful`: a fold over the chain of
  ancestors, and the best so many of a set in order, which is a recursive function or a
  sort; that these compute what the reference says is induction over data.

Induction over numbers is in reach where it is over a set of numbers: `NatSetInduction`
proves it from the least element of a set, and `MeUsageSum`, `MgAfterIs` use it.

## 5. Where code and documents disagree

Four runs keep a disagreement as a counterexample (`findings` in `PROJECT.json`). Five
more are stated as properties of the modules and refuted by TLC when they are listed as an
invariant or property of an instance:

| property | code | says otherwise |
|---|---|---|
| `Scheduler.CancelDisarms` | a cancelled task runs again (`scheduler.ts:102`, `:148`) | `src/tests/unit/plugins/scheduler/scheduler-at.test.ts:104` |
| `Batcher.EveryCallerSettles` | a batch cancelled at the provider leaves its callers waiting (`batcher.ts:134`) | `batcher.ts:3` |
| `AgentLoop.RepairTellsTruth` | the repair says "never run" of a tool that ran (`loop.ts:936`) | `src/docs/guide/agent-loop.md:229` |
| `AgentLoop.RetryBudgetPerRun` | two runs share the reflect policy's counter (`reflect-retry.ts:75`) | `reflect-retry.ts:74` |
| `ContextGuard.CgPairsComplete` | the layered strategy cuts between a call and its result (`layered.ts:86`, `:108`, `:119`, `:141`, `:175`) | `layered-strategy.test.ts:347`, `history.ts:260-271` |

Others were met while modelling. Where the model can show one, it is behind a constant or
an exemption named in the property, and a passing run would fail without it.

*Queue, scheduler, batcher, agent.*

- A throwing `onRetry` releases a slot twice (`queue-state.ts:368`): add it to
  `Throwing`, and `ConcurrencyCap` fails. A throwing `onRequestStart` of a stream leaks
  its slot (`:128`), a throwing `onDequeue` or `onQueueTimeout` loses an entry.
- `connect` retries a stateful stream (`queue-state.ts:596`), and streams at all
  (`:549`, against `src/docs/design/network.md:405`): `Stateful = {s1}`.
- `FilePersistence.set` writes in place (`persistence/file.ts:38`): with
  `AtomicWrites = FALSE`, `NoTaskLost` fails.
- A write that rejects after a periodic run, or a deletion that does after a one-shot one,
  leaves the task without a timer until the next start (`scheduler.ts:148`, `:151`), and as an
  unhandled rejection may end the process; a `start` whose `list` or `get` rejects leaves the
  tasks it had not come to, with `running` set (`:100`). `EveryTaskTended` and `EveryTaskRuns`
  except the tasks in `dropped`.
- A poll that throws is not repeated (`batcher.ts:125`): the requests in `lost`.
- `beginRun` sets `_running` before it awaits the system thunk and `onRunStart`,
  outside any `try` (`loop.ts:1649`): with `"begin"` in `Throwing` the agent stays busy.
  `OneRunAtATime` names the case. An `onRunError` that throws costs `complete()` its
  report (`loop.ts:713-757`). `stream()` never asks the reflect policy.
- Siblings of a parallel call that threw go on after the run, and one approved
  later runs without the run's signal (`loop.ts:1061`): `Parallel = TRUE` breaks
  `NoToolOutlivesItsRun`. `pendingApprovals` keeps the record of a call whose approver
  threw (`loop.ts:1405-1416`). A call id the model uses again escapes the repair after a
  second interruption: `Reissues = TRUE` breaks `HistoryIsSendable`.

*Network and MCP.*

- The loop and a stream take their tokens after the wait without asking again, and ignore
  what `canProceed` answers (`queue-state.ts:232`, `:686`): a sender that another one, a
  header or a pause overtakes during its sleep leaves without tokens. A wait worked out
  during a pause counts from now (`rate-limiter.ts:38`, `:57-61`) and may end before the
  pause has let the tokens in. `NeSendsAreCovered` exempts the buckets this befell
  (`neUpset`), and a request larger than its bucket, which is never covered.
- An empty chunk between CR and LF resets `pendingLineFeed` (`sse.ts:35`). A send from a
  hook during the flush of `markReady` overtakes the outbox (`session.ts:58`).
- A late 404 drops a session another call has rebuilt (`transport-http.ts:181`);
  `paginate` stores a list fetched before the change it was told of
  (`mcp/client.ts:465`); concurrent refreshes apply the older list last
  (`helpers/mcp.ts:176`). `connectMcp` that fails after the spawn leaves the process open
  (`helpers/mcp.ts:239`), `mcpToolset` the connections that did succeed (`:291`). `listen`
  on a closed stdio transport never ends (`base-transport.ts:77`). `startRedirect` saves
  verifier and state in two awaits (`oauth.ts:505`).

*Calls and context.*

- The moderation key is checked after `onBeforeSubmit` (`llm/client.ts:594`);
  `structuredComplete` appends to the caller's array (`:711`); a consumer that leaves a
  stream early leaves the call unaccounted; `noteDroppedSampling` looks at top-level
  options only (`:389`). Verdicts out of order leave an older one in the report
  (`moderation/runner.ts`).
- `mergeFrom` shares the caller's `providerOptions` with the body
  (`wire/interpreter.ts:627-629`, against "pure" in `wire/README.md:28`); `rename` skips
  falsy values (`:618`). Interactions records the names of calls in `parseResponse` only
  (`interactions.ts:235`), so the result of a streamed call goes out with an empty name
  (`:198`). Responses drops audio and video parts (`responses.ts:387-414`).
- A streamed finish reason `length` becomes `stop` (`loop-internals.ts:242-247`); a call cut
  before its first fragment runs with `{}` (`:167`); buffered thinking keeps the last block;
  two Google calls without ids (`google/stream-registry.ts:161-167`) and two shell calls
  (`responses-stream-registry.ts:223`) overwrite each other.
- The guard tries again on floor *or* trigger (`guard.ts:171`, against
  `src/docs/guide/context-guard-and-persistence.md:276-279`); a request declined and sent
  again unchanged passes (`:86-92`); its second measure leaves out the system text
  (`:166`); the level never falls. `truncate` and `clear` keep a stale actual count
  (`history.ts:277`). Layers of the legacy system have priority 200 where
  `PRIORITY_LEGACY_SYSTEM` is 50 (`layers.ts:50`). `clear()` of a registry ends its
  children's bubbling (`registry.ts:449-455`).
- `results()` after `wait()` emits the costs again (`helpers/batch.ts:222-251`); a Google
  batch that is done reads as completed however it ended (`google/batch.ts:134`); an xAI
  batch whose requests are refused stays created and empty (`xai/batch.ts:111`).

*Plugins.*

- Telemetry: "A finished container stops being the parent for later work" (`telemetry.ts:963`)
  is not so of a tool call that is skipped, denied or overridden, or whose approver throws: it
  emits `onToolCallStart` and no end (`loop.ts:1098-1104`, `:1134`, `:1164`, `:1201`, `:1414`,
  `:1431`, `:1449`), so later spans hang under it, and a resume that starts its id again
  (`:1401`) leaves the old span on the stack for ever (`telemetry.ts:940-951`).
  `TlStackIsWhatIsOpen` speaks of spans not recorded, and `TlToolLeft` leaves them. A response
  that is not ok lowers the gauge twice (`telemetry.ts:675-680`), bare span ids are not unique
  (`:929-930`), the span of a network failure stays open, a nested run takes the outer run's
  tokens. Cost: with a threshold of 1.0 `onBudgetExceeded` is never emitted
  (`collector.ts:325-340`, against `src/docs/guide/cost.md:225`), a tag-scoped budget is
  charged with every call (`:321`), the estimate ignores the tier (`one-shot.ts:322`).
  Calibration: concurrent learning loses a sample (`calibration/store.ts:41-61`), and the
  measurer passes no fetch to the counting APIs (`measurer.ts:62-68`).
- Server: concurrent turns of one conversation are lost (`server.ts:223-253`), a late get
  overwrites or revives an entry (`response-store.ts:62`), two writes of one id may land the
  other way round, and one that fails leaves its value in the cache; `SvTurnsKept` and
  `SvStoreAgrees` exempt these. A failure of the model is answered 400 (`:178`); an
  `onServerResponse` that throws at a 401 makes it a 500 and is told again (`:150`, `:189`,
  `:194`; `SvToldTwice`), at any other status it rejects `handle` (`:194`); `dispatch` may
  capture another request's id (`dispatch.ts:46`).
- Tools: work a handler leaves behind keeps `handlerContext` and emits out of line
  (`agent-bus.ts:187`); a call keeps the policy of its start (`tool-catalog/catalog.ts:175`).
  Internal tools: the pool keeps the first model's pin for its provider (`runner.ts:181-194`),
  a throwing `onInternalToolCallComplete` runs a tool again that succeeded (`:276-286`),
  `willRetry` is announced where no model left has a key (`:288`), and a cache built before an
  invalidation is stored after it (`internal-tools/registry.ts:84-93`).
- Files: parts are replaced in the caller's message (`files/registry.ts:161`), two requests
  upload one file twice (`:253`), a late `setDeleted` hits the new upload (`:135-136`);
  between the provider's deletion and `setDeleted`, and for good when the deletion's answer is
  lost, a request takes a reference to a copy that is gone (`:135-136`; `FiRefsWereLive`
  exempts it). Media: a Google operation that is done with an error reads as completed
  (`google/media.ts:292-293`); a failing save leaves the items before it saved and unannounced
  (`output.ts:217`); a video that times out is not told to `onMediaError` (`:303`). Stores: an
  expired get deletes a fresh entry (`cache.ts:56`), names with `:` meet (`:111-124`), keys
  with a character above 0xff are listed under another name (`file.ts:86-99`), configurations
  may form cycles. Retrieval: two first loads and two whole-store writes overtake each other
  (`vector-store.ts:136-143`, `:149`), an add that fails half way is not undone
  (`local.ts:127-163`), Google's `addDocument` returns the operation's name where
  `removeDocument` wants the file's (`hosted-google.ts:199`, `:251`). Catalog: the hint of a
  refusal may name an id that is another model's slug (`catalog.ts:470-475`).

## 6. Plan

Done: all modules of section 2, their runs, the proofs of section 4. Left, in order:

1. Proofs of the small state machines of `llm_calls` whose invariants need no fold:
   `MdFaithful` (`ModeratedStream`), `LcAnswersAccounted` (`LLMClient`).
2. `TlStackIsWhatIsOpen` (`Telemetry`) and the order of `RtFramesInCallOrder` (`Streams`) with
   the lemmas about filtered sequences they need; `SuspendedIsListed` with ids used again.
3. The hook bus: subscribers taken off during an emit (`hook-bus.ts:97-116` iterates the live
   list, and a `once` makes it skip the next handler).
4. The composition of `Batcher` with `Scheduler` in place of the guarantees it assumes, and of
   `LLMClient` with `AgentLoop`.

## 7. Not modelled

- `bus/hook-bus.ts`: its contract, that a subscriber's error reaches the emitter, is in every
  module that emits; the iteration over a list that changes is in the plan.
  `hook-map.ts` is types.
- A delay above 2^31-1 ms fires at once (`scheduler.ts:126`): due times are the environment's.
- Of the wire layer: multipart bodies, envelopes, tool constraints and the realtime
  operations. Of the adapters: parameters, headers and embeddings. Of MCP: prompts,
  resources and sampling are one kind of call. Of the registry: handoff and serialisation.
- Logger, embeddings, transcription and the thin helpers (`chain`, `parallel`, `delegate`,
  `handoff`, `route`) compose the parts above and keep no state of their own.
- `runtime`, `util`, `types` and the packaged catalog are environment detection, pure
  functions and data; `src/scripts` is tooling.

`components` in `PROJECT.json` gives the reason for each.
