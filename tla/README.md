# Orchard Inference: TLA+ models and proofs

Orchard Inference is an asyncio HTTP server that runs language-model generation behind a
bounded, batching scheduler. This directory models its core in TLA+, model-checks it with TLC
and proves its main invariants with TLAPS.

## 1. Inventory

Paths are relative to `src/src/orchard_inference/`.

| Part | State it keeps | Operations | What is hard | What makes it correct |
|---|---|---|---|---|
| Request lifecycle (`lifecycle.py`) | one state per request, the set of live tasks, outcome counters, the accepting flag | `transition`, `create_task`, `finish`, `shutdown` | several parties race to end one request; shutdown races completion | only legal transitions, every outcome counted once, nothing runs after shutdown |
| Scheduler (`scheduler.py`) | `_queue`, `_items`, `_active_tasks`, `_deadline_tasks`, one condition, per item a result future, an output buffer and a pending cancellation | `submit`, `cancel`, `_dispatch`, `_run_batch`, `_run`, `_expire`, `_finished`, `shutdown` | cancellation, deadlines, backend answers and slow clients interleave at every `await`; batches share one task and one timeout | bounded queue, slots and buffers; registries that agree; one answer per request; no missed wake-up; no starvation |
| HTTP handlers (`api.py`) | the waiting handler or the generator of a streaming response | refuse, prepare, submit, await the result, read the stream, cancel on disconnect | a client leaves while the scheduler waits for it; the status of a stream is sent before its outcome is known | each response ends; status and content tell what happened |
| Lifespan (`main.py`) | the order of startup and shutdown | start, shut down scheduler, tasks, cache, backend | requests arrive during shutdown | the backend is unloaded only when nothing can call it |
| Cache (`cache.py`) | two LRU maps with expiry and a byte bound | get, put, tokenize | two requests miss for one prompt; replacement of an entry | bounds hold, bytes add up |
| Prefix router (`prefix_router.py`) | one trie of token prefixes with visit counts, and totals | `observe`: match, then insert | the prompt must not match itself; cut at `max_prefix_tokens`; the trie is never pruned | the match is the longest prefix shared with an earlier prompt, and totals add up |
| KV blocks (`kv_blocks.py`) | block reference counts, one block table per sequence | allocate, fork, append, release | shared prefixes ending inside a block | a block is free exactly when nobody holds it |
| Chunked prefill (`chunked_prefill.py`), continuous batching (`continuous_batching.py`) | the lists of waiting and decoding sequences, remaining work, a step counter | one loop each | overdue decodes, step 0 taken for no step, sequences without work | work is in exactly one list, bounded token gaps, termination |
| Metrics (`observability.py`) | counters, gauges, histograms | record | as the lifecycle counters | outcomes counted once |
| Mock backend (`backends/mock.py`) | a fault configuration, a status, a request counter | load, `generate`, `stream` | faults before, between and after tokens | each fault becomes the error it stands for |
| MLX and MPS backends (`backends/mlx.py`, `backends/pytorch_mps.py`) | a status; per stream a thread, a streamer queue and a stop event | `load`, `generate`, `generate_batch`, `stream`, `unload` | a cancelled coroutine does not stop its thread; streams hold two threads of one pool | streams deliver all or raise; the model stops soon; threads become free |
| Load generator (`benchmark.py`), quality prompts (`quantization.py`), direct baseline (`compare_mlx.py`), control room (`ui.py`) | requests in flight, a concurrency tracker, samples | closed and open mode, one prompt after the other, a page | client timeouts race answers; a stream fails after its 200 | a sample tells what happened to its request |
| Configuration, logging, statistics, plots | - | - | values, wording and offline analysis | - |

**Interactions.** A handler calls `scheduler.submit`, which puts a work item in the queue and
notifies the dispatcher. The dispatcher ranks the queue, forms a batch and creates one task
for it. The task moves its members through the states of the lifecycle, calls the backend and
resolves each member's future or fills its output buffer, which the handler reads. A deadline
task per item and the handler's clean-up call `cancel`. When a task ends, its done callback
creates `_finished`, which frees the slots and notifies the dispatcher. The lifespan shuts
down the scheduler (queue), then the lifecycle manager (tasks), then the backend. Before
`submit`, the handler counts tokens through the cache and shows them to the prefix router. The
load generator, the quality prompts and the page are HTTP clients of all this; the three
simulators (blocks, chunked prefill, continuous batching) are called by command lines and by two
endpoints of the page, and share nothing with the server.

## 2. Modules

| Module | Models |
|---|---|
| `RequestState` | the states and the transition table of `lifecycle.py` |
| `RequestLifecycle` | **abstract specification**: what the server promises of every request (legal transitions, result and counter move with the final state, nothing changes afterwards) |
| `SchedulingPolicy` | the ranking and `form_batch`, at constant level |
| `RequestScheduler` | the request path: admission, dispatcher, batch and stream tasks, cancellation, deadlines, clients, shutdown |
| `RequestSchedulerProperties` | its properties, and the refinement of `RequestLifecycle` |
| `MCRequestScheduler` | definitions for small instances |
| `RequestScheduler_proofs` | TLAPS proofs about the scheduler: types, registries, wake-ups, outcomes and counters, that it implements `RequestLifecycle`, and what becomes of its requests (answers, causes, shutdown, streams, batches, bounds, overtaking) |
| `ListsAndSums` | lemmas: sums over finite sets, and the lists of the step loops (filter, append, cut) |
| `BoundedLRU` | the LRU cache of `cache.py`, as operators on its state |
| `CacheManager` | the two cache layers, rendered prefixes and concurrent calls of `tokenize`, with their properties |
| `PromptRoutes` | token sequences, their prefixes and the reported route: what the next two share |
| `PrefixIndex` | **abstract specification**: a prompt is compared with the list of all earlier ones |
| `PrefixRouter` | the tree of `prefix_router.py`, its inductive invariant, and the refinement of `PrefixIndex` |
| `PromptPreparation_proofs` | TLAPS proofs about the router, the caches and their composition |
| `PromptPreparation` | **composition** of `CacheManager` and `PrefixRouter`: what `chat_completion` does with a prompt before it submits |
| `MCCacheManager` | definitions for a small instance of it |
| `KVBlocks` | the block manager of `kv_blocks.py`, and its properties |
| `KVBlocks_proofs` | TLAPS proofs about the block manager: counts, isolation, full blocks, totals |
| `StepLists`, `StepLoops` | what both step loops share: lists that are cut at a capacity, filtered, counted; the limit on steps |
| `ChunkedPrefill` | the step loop of `chunked_prefill.py` with its three policies |
| `ChunkedPrefill_proofs` | TLAPS proofs about it: places, end, token gaps |
| `ContinuousBatching` | the step loop of `continuous_batching.py` and its static cohorts |
| `ContinuousBatching_proofs` | TLAPS proofs about it: places, end, comparison with the cohorts |
| `MCSimulators` | `KVBlocks`, `ChunkedPrefill` and `ContinuousBatching` side by side, with their small workloads |
| `ChatService` | the server as clients see it: the handlers of `api.py`, the lifespan and the mock backend, over the scheduler's promise |
| `LoadClients` | **composition** of `ChatService` with the programs that ask it: `benchmark.py`, `quantization.py`, `compare_mlx.py`, `ui.py` |
| `MCService` | the faults of a small instance |
| `LoadClients_proofs` | TLAPS proofs about the service and its clients: samples and ledgers |
| `BackendThreads` | the coroutines and threads of the MLX and the MPS backend |
| `MCThreads` | the lengths of its calls in a small instance |
| `BackendThreads_proofs` | TLAPS proofs about them: what streams yield, and how promptly they stop |

### How the model reads the code

*Atomicity.* Everything runs on one event loop, so an action is the code between two
suspension points. `_condition` is never held across an `await` other than
`Condition.wait`, which releases it; `async with` on a free asyncio lock does not suspend.
So `submit`, `cancel`, `_terminal_error` and `_finished` are one action each. Several
suspension points give the interesting interleavings: between `create_task` and the first step
of a task (`pc = "created"`), inside the backend (`"generating"`), inside `put` on a full
buffer (`"putting_token"`, `"putting_end"`), between the end of a task and `_finished`
(`"done"`), between `task.cancel()` and the delivery of `CancelledError` (`cancelling`), and
inside `wait_for` and the batch wait of the dispatcher. Without a batch wait the dispatcher
forms one batch after another without suspending (`dispatcher = "forming"`), and no other
action is enabled meanwhile (`DispatcherSuspended`).

*State.* `queue`, `items`, `active`, `alarm` are `_queue`, `_items`, `_active_tasks`,
`_deadline_tasks`. `_queue` is a set, as the code selects by rank, which is total
(`score`, `sequence`). `batchOf[r]` is `item.batch_id`, and a batch and its task are named by
the request that seeded them. `result` is the future: `"abandoned"` is a future cancelled by
the task that awaited it. `finished` counts outcomes like `LifecycleMetrics` and the
`requests_*` counters.

*Actions.* `Submit`/`Reject` are `submit`; `DispatcherWakes`, `DispatchNothing`, `Dispatch`
are `_dispatch`; `StartTask`, `StartRaises`, `BackendReturns`, `BackendFails`, `StreamYields`,
`StreamEnds`, `PutResumes`, `TimeoutFires`, `CancelDelivered` are the body of `_run_batch` with
`_run_complete` and `_run`; `Finished` is the done callback and `_finished`; `CancelRequest`,
`Expire`, `ClientDisconnects` call `cancel`, whose four cases are `CancelIgnored`,
`CancelAlone`, `CancelMember`, `CancelQueued`; `HandlerCancelled` and `ClientReads` are the
handlers; `StopDispatcher`, `CancelQueue`, `GraceEnds`, `Unload` are the end of the lifespan.

*Abstractions.* Prompts, messages and sampling values are model values. The backend is any
backend: it returns, raises, yields up to `max_tokens` tokens or hangs. A backend that itself
raises `TimeoutError` (which the code would take for a deadline) is not modelled. Gauges,
histograms, timings and log lines are left out. When `transition` raises for one member, the
members before it were already PREFILL; they fail in the same section of code, so nothing
sees it. The remaining time of a deadline is not a number: a deadline passes at any moment
(`DeadlinePasses`), after which the task's timeout and `_expire` fire in either order.
`GraceEnds` waits until no task is merely created, since the ready queue of asyncio is first
in, first out and shutdown suspends at least twice before the grace period ends.

*The caches.* `CacheManager` keeps two LRU states, `prompt` and `tokens`, the counters
`cache_operations` and the gauge of bytes. `render_prompt` does not suspend, so `Render` is one
action. `tokenize` awaits the backend between its lookup and its store: `Hit`, or `Miss` and later
`Store` or `Fail` (the tokenizer raises, or the handler is cancelled). `Clear` is the end of the
lifespan, and may find calls still waiting. In `BoundedLRU` the eviction loop of `put` takes the
least number of oldest entries whose removal makes the rest fit (`Surplus`, `EvictOldest`). Keys stand for the
digests of what is stored, so a collision of digests is not modelled; both layers are
enabled. `PromptPreparation` puts the router behind it: nothing suspends between the return of
`tokenize` and the end of `observe`, so `Hit` or `Store` and `Observe` are one step. `chat_completion` renders
through the backend (`api.py:424`) and not through the cache, so `Render` in the composition is more than its
handlers do.

*The router.* A node of the tree is named by its path (`nodes[path]`). `_longest_match` is `Walk`, the
depths it reaches; `observe` matches and then inserts (`MatchAndInsert`), or only counts (`Pass`).
`PrefixIndex` keeps no tree but all prompts observed, with repetitions, and says what a route
should be; `Observed` reads them back from the tree.

*The block manager.* `KVBlocks` is sequential and stands alone, as nothing else in the server
calls `kv_blocks.py`. `blocks`, `sequences`, `nextBlockId` are `_blocks`, `_sequences`,
`_next_block_id`; a block is its id. `Allocate`, `Fork`, `AppendTokens` and `Release` are the
four operations, each including the blocks that `_append_private_blocks` creates (`NewBlocks`,
`NewTable`, `NewBlock`). Calls that raise (an id that exists or is missing) change nothing and
are not steps. Token counts are naturals; a negative prefix length, which `fork` does not reject,
is not among the inputs. The totals of `summary` are the property `SummaryBalances`.

*The step loops.* An iteration is one `BatchingStep` or `PrefillStep`; the lists keep their order. `None` is
the step that has not come, and `last_decode_step or -1` is modelled as it is, with step 0 taken for
none. `StepLimit` stands for the million steps after which the programs raise. A sequence is its
position in the list of specs. The stages of an iteration have the names `Arrived`, `Queue`, `Stage`,
`Ready`, `Rest`, `Served`, `Gone` in continuous batching and `NewRequests`, `PrefillQueue`, `Prefills`,
`Decodes`, `Selected` in chunked prefill; `Keep` is a list comprehension. As one run has both loops, chunked
prefill has other names for what the code calls alike: `reqs` for the specs, `tick` for the step,
`outputRemaining`, `firstDecodeStep`, `completedAt` for `decode_remaining`, `first_token_step`,
`completed_step`. An interval of the first program may be negative, as its parser
takes any integer; the arguments of the second are what the UI's form admits. The cohorts of
`simulate_static_batches` are taken in the order of the list, where the code sorts by arrival and then
by id as a string: the same for lists that arrive in order and are named in it, and for the command
line's up to ten requests (beyond, "request-10" sorts before "request-2" if all arrive together).

*The service.* `ChatService` keeps of the scheduler only the promise of `RequestLifecycle`: an admitted
request moves through its states and ends, at the latest by its deadline. The scheduler breaks this promise in
two places (section 6 and `LostEnd`), and so does the model: a queued request may be lost before its task's first
step (`LostStart`), and shutdown may drop the end marker of a completed stream that is not drained
(`Ending`, in `Unload`). The handler is then `"stranded"` and is never told; no fairness forces or rules out
either loss. Batch siblings and the limit
on active requests are not in it (they are in `RequestScheduler`), the two accepting flags of
scheduler and lifecycle manager are one, and tokenization does not fail. The mock raises the fault
that follows a token when the next token is asked for. `LoadClients` has one program per behaviour
(`client`): the closed mode is a set of workers, the open mode a list of offers behind a
semaphore, the quality prompts run one by one and stop at the first failure, and the page waits
without a timeout. Warm-up requests are sent the same way and left out, and so are limits on
connections.

*The threads.* `BackendThreads` has one pool for all `asyncio.to_thread` calls of both backends.
`pool` is its queue and `running` the jobs that have a thread; cancelling a coroutine removes
queued work but not running work. An MPS stream has two jobs, the generation (`Work`) and one at a
time the wait for the next fragment (`Wait`), which is queued before the task that starts the
generation runs (`unstarted`). `more` says whether the model goes on after its last token; the
text flushed at the end is taken as not empty, and a generation fails only while the model still
goes on. `load` precedes all calls and `unload` follows the end of the tasks, as the lifespan has
it. A single call (`generate`, `generate_batch`, `tokenize`) is one job, which runs on after its
coroutine is cancelled. A call is given up (`GivenUp`) when it is over or its clean-up has begun; a generator
that was cancelled at its `yield` is only `"dropped"`, and learns of it when the event loop closes it
(`Finalize`). Three things are left out. A backend that is not ready raises before there is a job. Handlers call
`tokenize` and `render_prompt` before admission, so these may exceed `MaxActive`, by which `Begin` counts them.
And `generate` of transformers ends its streamer itself when it succeeds, so the `finally` puts an empty text
and a second end marker, which nobody reads (`fragments = <<>>` in `StreamsFaithful` is of the model's one
marker).

## 3. Runs

| Run | Instance | Question |
|---|---|---|
| `batches` (`MCBatches.cfg`) | 3 requests without streaming, 2 slots, queue of 2, batches of 2, one deadline, two cancellable requests, one whose handler may be cancelled, batch wait, shutdown at any moment | do registries, results, counters and wake-ups stay consistent, and is `RequestLifecycle` implemented? |
| `streams` (`MCStreams.cfg`) | 2 streams with buffers of one entry, slow and leaving clients, deadlines, a failing or hanging backend, shutdown | does each response that is read end, and does each slot come back? |
| `aging` (`MCAging.cfg`) | 4 requests of 3 priorities arriving over time, 2 slots, no batch wait | is starvation bounded, and do batches keep to size, budget and sampling settings? |
| `caches` (`MCCacheManager.cfg`) | 3 calls of `tokenize` over 4 prompts, 2 prefixes, 2 entries and 4 bytes per layer, entries that live 2 ticks, routes over 2 tokens with paths of at most 3 | do bounds, totals and counters survive concurrent misses, expiry and clearing, is no hit stale, and does the tree answer like the list of prompts? |
| `simulators` (`MCSimulators.cfg`) | one of the three, the other two at rest. Blocks: 3 sequences, blocks of 2 tokens, counts 0, 1, 2, 3, 5, at most 6 blocks ever created. Continuous batching: 3 sequences of 6 sizes each and 3 patterns of arrival, one list of 4 in which one is overtaken, command lines of 0, 4, 7 and 10 requests at intervals -1 to 2, 5 pairs of capacities. Chunked prefill: 3 requests of 6 sizes each and 3 patterns of arrival, command lines of 0, 3 and 5, chunks and bounds of 1 and 2, all policies | are reference counts exact and sequences isolated in every order of allocation, fork, append and release? Is work placed once and finished in time, is live admission no slower than cohorts where that can be said, and is the wait for a token bounded? |
| `service` (`MCService.cfg`) | 5 client programs, 2 requests, concurrency 1 or 2, no fault or one of the mock's five, client timeouts, deadlines, lost requests, shutdown at any moment | do the programs report what the server did, do the counts balance, and does every request get its sample, unless the page waits for a lost one? |
| `threads` (`MCThreads.cfg`) | 2 calls of either backend, of up to 3 and 2 tokens, 3 threads, cancellation at any moment and twice | do streams deliver all or raise, does the model stop within a token of the clean-up, do threads become free? |
| `lost_start`, `early_timeout`, `cancelled_handler`, `slot_leak`, `hidden_failures` | variants of the above | each refutes a statement of the repository, see section 6 |

Bounds: `MaxClock` ends the clock that ages work (used in `aging` only), a stream yields at most
`max_tokens` tokens, a request is submitted once. Three requests are enough for a batch of two
beside a queued request, a member cancelled in a batch, a full queue and a full set of slots;
four let two requests of unequal priority be overtaken while slots are taken. A buffer of one
entry is full after a single token, so both `put` and `_force_output` meet it. Deadlock is not
checked for the scheduler: a server whose clients are done rests. For the block manager,
`MaxBlocks` bounds the blocks ever created; prefixes and totals of 0 to 5 over blocks of 2 end
inside a block, at its end and beyond the parent, and three sequences can share one block. The
three simulators share no state, so one of them runs while the other two stay where they begin: a loop at the
empty list of requests (`BatchingRests`, `PrefillRests`). All interleavings of the three would add nothing. A
loop that ends stops and block ids run out, so deadlock is not checked for them. For the caches, the
sizes are chosen so that one layer meets the bound on entries alone, the other the bound on bytes
alone, and one prompt is too large to keep; three calls are a store and two later hits, or two stores
of one prompt around a third. `MaxTime` exceeds the age at which an entry dies, `MaxRenders`
bounds the calls of `render_prompt`. When all calls and the clock are used up the caches rest, so
deadlock is not checked. Prompts are tokenized to paths that share every length up to the bound of
3, one of them is longer than it, and one shares nothing; a repeated prompt meets its own path.

In the loops, sizes include an empty prompt, nothing to decode, a prompt saved entirely and one
longer than a chunk; every list that can be served is done before `StepLimit`, and one that cannot runs up to it. Three requests are enough to be
overtaken by two others at once. In the service, two requests fill the concurrency and exceed a
queue of one; of the two output lengths one exceeds a limit; a stream of two tokens may fail
between them. Two calls over three threads are the smallest pool that holds `PoolAssumption`, so
that a missing thread shows; with two threads, `WorkersReturn` fails (each stream's wait holds a
thread and no generation gets one). The default pool has at least five threads and
`max_active_requests` is 4 by default, so the assumption holds of the defaults by one; no upper bound in
`config.py:36` enforces it, so a configuration with more active requests than threads is outside every result
about threads. Three tokens let a generator be dropped, its model go on, and more than one token still be to
come when the generator is closed.
Both rest when calls and requests are used up.

### What the properties say

* `ResourcesBounded`: queue, slots and buffers never exceed their limits, although a batch
  fills several slots and a terminal error is forced into a full buffer. `batches` has no streams and shows
  it of the queue and the slots; of buffers it is proved (section 4).
* `RegistriesAgree`: an item is either queued or active, its deadline task lives as long as
  it, and it holds its slot exactly until its batch is reaped.
* `OutcomeDelivered`, `CountedOnce`, `ImplementsLifecycle`: the first party to end a request
  decides; result, state and counters agree on it, and nothing changes later.
* `NoMissedWakeup`: the dispatcher never waits while it could dispatch.
* `ReleasedIsAnswered`, `Answered`: no request leaves without an answer, and one with a deadline is
  answered even if the backend hangs. Both carry the exception `LostStart` (section 6).
* `TimeoutHasCause`, `FailureHasCause`: a time-out has a deadline in the batch behind it. With a
  backend that does not fail, a failure has a sibling that ended early, cancelled or timed out: the
  whole batch fails with it.
* `UnloadedIsIdle`: the backend is unloaded when no task can call it and all is answered.
* `StreamsTerminated`, `ResponsesEnd`: a stream's buffer ends with the marker of its outcome,
  and a client that reads comes to it. Exception `LostEnd`: shutdown cancels a completed
  stream's task while it waits for room, and the end marker is dropped.
* `SlotsFreed`: every slot comes back, unless a stream's client has left. `Answered`, `SlotsFreed` and
  `ResponsesEnd` are about backends whose calls end when cancelled (see Fairness).
* `BatchesCompatible`: a batch keeps to its limits.
* `BoundedOvertaking`: of all requests a dispatch takes, one that came later than a request left in the queue
  has come within its head start times `aging_seconds`; or it is a batch mate of a seed that obeys this
  rule, and the earlier request has no place in the batch, being incompatible with the seed or over the token
  budget. `form_batch` skips such a candidate and goes on (`scheduler.py:264`). So how often a request is passed
  over by mates is not bounded by aging; that no seed passes it is.
* `WithinBounds`: neither layer exceeds its entries or bytes; running totals and gauge are exact.
* `MissesAccounted`: a miss waits, failed, was too large, or is stored or counted as evicted. A call that
  stores a prompt a second time evicts the first copy, and the eviction counter says so.
* `HitHasSource`: a hit answers with what a call stored less than `ttl_seconds` ago, although hits
  promote the entry. `OrderedByUse`: the order `put` evicts in is the order of last access.
* `RefcountsExact`: a block exists exactly while some table lists it, and its count is the
  number of tables that do.
* `TablesFull`, `SharedBlocksFull`: a table holds the tokens its sequence counts, in full blocks but
  for the last, and a shared block is always full. So `append` can only meet an open last block that
  is private: its test of the reference count never decides.
* `Isolated`: no operation on one sequence frees or changes a block of another.
* `SummaryBalances`: capacity never exceeds dense allocation, and the blocks' tokens, counted once
  per holder, are the logical tokens.
* `RoutesLikeIndex`: the tree reports the longest prefix shared with any earlier prompt, and how many
  share its beginning, although it keeps only counters; a prompt never matches itself.
* `WorkPlaced`, `RequestsPlaced`: no sequence is in two lists of a loop, or lost between them.
* `EndsByHorizon`, `PrefillEndsByHorizon`: a loop ends by the sum of its work, or runs to its limit exactly if a request has
  nothing to decode (or, in continuous batching, an empty prompt or a negative arrival).
* `StaticNoBetter`: no sequence beats the steps it needs alone; and live admission is no slower than the
  cohorts it is compared with, if the prefill stage is as wide as the batch and no prompt is longer than
  a later one (`NoOvertaking`). Both conditions matter. A narrow stage delays what the cohorts
  start at once. And a sequence joins the batch when its prompt ends, so one with a long prompt is overtaken
  by shorter ones behind it: of (prompt, decode) (1, 9), (4, 6), (1, 4), (1, 4), all arriving at step 0, in
  batches of two, the second starts to decode when the other two are done, and the run takes 16 steps where the
  cohorts take 15 (`Overtaken`, in the run). The program makes no promise here, so this is no finding.
* `CommandLineNoSlower`: on the command line's own workloads, whose prompts do overtake, live admission is
  still no slower, for the lengths and intervals of the run and a prefill stage as wide as the batch. The
  command line's defaults (16 requests, a stage of 2 beside a batch of 4) are outside this condition and this
  size, and a negative interval, which never ends, satisfies it emptily.
* `TokenGapsBounded`: a decode waits 1 step under decode-first, for the others' whole prompts under
  prefill-first, and for its bound plus one turn of each other request under the mixed policy. The
  bound of the mixed policy is thus missed by up to N - 1 steps of N requests, as one decode runs per step.
* `SamplesTruthful`: whatever races, a success was completed and came with all its tokens (or is a
  stream that broke off, see section 6), and each status stands for what happened.
* `LedgersAgree`: each request received is refused, under way or in exactly one counter; the tracker never
  exceeds the concurrency; only requests that a program abandoned run behind its back.
* `EverySampled`: a program ends after its time, with a sample for every request and every offer. Exception
  `WaitsForEver`: the page has no timeout, so it waits for ever for a handler that is stranded by a lost start
  or a lost end marker. The other programs leave such a request by their timeout (without the exception TLC finds
  the page waiting).
* `StreamsFaithful`: a stream that returns has yielded every text, and an error is never a short answer.
* `StopsPromptly`: once the clean-up of a cancelled stream has begun, its model generates at most one more
  token, whichever `await` was cancelled and how often. A stream cancelled between two tokens is not included
  until the event loop closes its generator: until then nothing tells the model to stop.
* `WorkersReturn`: threads become free however calls end, for a pool that satisfies `PoolAssumption`. For a
  `generate` that was cancelled it says only that its thread ends. Exception `Starved`: if the inputs of
  an MPS generation cannot be built (`pytorch_mps.py:246`), or a second cancellation reaches it before it has a
  thread (`pytorch_mps.py:227`), nothing is ever put into its streamer, and the thread that waits for a
  fragment is lost.

The runs check no type invariant but the scheduler's. Those of the caches (`TypeOK` of `CacheManager`), the
blocks (`TypeOK` of `KVBlocks`) and the loops (`BatchingTypeOK`, `PrefillTypeOK`) are proved (section 4).

### Fairness

Liveness is checked under `FairSpec`. Weak fairness is assumed of what asyncio runs by itself:
the dispatcher, ready tasks, timers, deadlines, the steps of shutdown. Clients that still read
go on reading (`ClientFairness`). Nothing is assumed of arrivals or of clients who cancel. The backend
may hang for ever, but a call of it that is cancelled ends (`CancelDelivered`, `TimeoutFires`): coroutines do
that, and `asyncio.to_thread` leaves its thread behind. The exception in the code is an MPS stream, whose `finally` awaits its
thread without a deadline (`pytorch_mps.py:225-227`). If the thread hangs, its task, slot and
response hang with it; the liveness properties of the scheduler do not hold of such a backend. In
`LoadClients`, handlers run, deadlines pass, answers that were sent arrive, and where none does, the timeouts of
httpx fire (`benchmark.py:275` and `377`, `quantization.py:136` and `281`); the server need not be stopped, no request
need be lost, and the page has no timeout. In
`BackendThreads`, threads run and the event loop runs what is ready; a model generates at most
`MaxTokens` tokens, so here a thread does not hang. The caches, the blocks and the step loops state no fairness.

## 4. Proofs

Every invariant of the passing runs is proved for all values of the constants, except
`CommandLineNoSlower`; so are the two safety properties of steps (`Isolated`, `BoundedOvertaking`) and
both refinements. The only assumptions are the `ASSUME`s of the modules, which say what the code requires of
its configuration (limits are numbers in range, requests and calls are finitely many, the pool has
more threads than streams are active). Each inductive invariant was model-checked before it was proved.

### The request scheduler

The theorems of `RequestScheduler_proofs` hold for all values of the constants that satisfy `ConfigAssumption`,
`RequestsFinite` and `PolicyAssumption`.

* `TypeCorrect`: `Spec => []TypeOK`.
* `RegistriesCorrect`: `Spec => []RegistriesAgree`.
* `WakeupsNotMissed`: `Spec => []NoMissedWakeup`.
* `LifecycleImplemented`: `Spec => ImplementsLifecycle`, the refinement of `RequestLifecycle`.
* `OutcomesDelivered`: `Spec => []OutcomeDelivered`. `OutcomesCounted`: `Spec => []CountedOnce`.
* `ReleasedRequestsAnswered`: `Spec => []ReleasedIsAnswered`.
* `TimeoutsCaused`, `FailuresCaused`: `Spec => []TimeoutHasCause`, `Spec => []FailureHasCause`.
* `UnloadedWhenIdle`: `Spec => []UnloadedIsIdle`.
* `StreamsWellTerminated`: `Spec => []StreamsTerminated`.
* `BatchesAreCompatible`: `Spec => []BatchesCompatible`.
* `ResourcesAreBounded`: `Spec => []ResourcesBounded`.
* `OvertakingIsBounded`: `Spec => BoundedOvertaking`.

*Registries.* Types and registries are not inductive alone. `RegistryInvariant` is their conjunction
with `BatchesNamed`: types need the registries (cancelling an active request cancels the task of its
batch, so there must be one), and the registries need `BatchesNamed`. When `Dispatch` names a
batch after its seed, no older request may carry that name, or an old slot would come back to
life: the seed is queued, hence has no batch, and a batch is named after one of its own members.
When `Finished` drops its members, none of them may be queued. The proof has a lemma for
types and one for registries for each group of actions; `QuietStep` covers the many actions
that leave the registries alone, and `CancelRegistries` the callers of `cancel`.

*Outcomes.* The refinement needs to know in which state a request is when it moves. `OutcomeInvariant`
adds three facts to `RegistryInvariant`: queued work is numbered apart (`QueueNumbered`), so the
dispatcher seeds a batch with one item and a stream, compatible with nothing, runs in a batch of its
own (`StreamsAlone`), and its task never answers for a sibling; and while a task is in the backend,
its members are being generated or have ended early (`TasksProgress`). With it
`StepRefines` maps every step to a step of `RequestLifecycle` or a stutter: a task's first step
moves its members along the path to GENERATING, completion and `_terminal_error` end those that
are not yet ended. `OutcomeDelivered` and `CountedOnce` are then carried by the steps of the
abstract specification, and need no second look at the scheduler.

*Answers.* `AnswerInvariant` adds what the server still knows of a request it has let go of. Queued work
has not ended, a batch keeps its task, a task that has not started has only queued members or members
that ended early, and a task leaves the backend with its members answered or lost (`AnswersTracked`).
What `cancel` leaves for a task to deliver has the same causes as what is delivered
(`CancellationHasCause`): without it a time-out would be believed on the task's word.
`ShutdownTracked` says that nothing is dispatched once shutdown began. Each lemma looks at one request
and one step (`TaskStepLocal`, `RequestStepLocal`): who ends it, and what else moves.

*Streams.* `StreamInvariant` is proved for one stream at a time. What a step can do to it is one of seven
moves (`Moves`): keep, proceed, fail, put a token, complete, put its end, be read. `StreamMoves` shows
that every step of the server is one of them, and `MovesKeepFitting` that each keeps the buffer fitting:
tokens first, then at most one marker, of the right outcome. `_force_output` into a full buffer is the case
that needs `EndPending`: what it displaces is a token.

*Batches.* `TotalTokens` sums over a set, so that its order is the model's choice and not the code's.
`ListsAndSums` shows that it does not matter; `BatchFits` then follows the token budget through
`IsBatch`. Slots are bounded because a batch never has more members than slots are free, although only its
seed was tested. *Overtaking* needs that nothing was queued in the future and the arithmetic of
`score` (`scheduler.py:100`): with q = floor(waited / aging), a difference of whole steps less than the head
start is a difference in time less than that many periods (`PeriodsOrdered`), with no step of rounding. This is
the order among seeds and among candidates that fit; a candidate that is passed over in favour of a later mate is
incompatible, or exceeds the budget beside those chosen before it and hence beside the whole batch
(`SkippedHasNoPlace`, `TotalOfPart`).

### The block manager

The theorems of `KVBlocks_proofs` hold for every block size, set of requests and token counts
(`BlockAssumption`).

* `TypeCorrect`: `Spec => []TypeOK`.
* `CountsCorrect`: `Spec => []RefcountsExact`.
* `SequencesIsolated`: `Spec => Isolated`.
* `TablesAreFull`: `Spec => []TablesFull`. `SharedAreFull`: `Spec => []SharedBlocksFull`.
* `SummariesBalance`: `Spec => []SummaryBalances`.

`BlockInvariant` adds to types and counts that no table lists a block twice (`TablesDistinct`):
`fork` and `release` count once per entry of the table, and this is once per holder only if
entries differ. Allocate, fork and append are one argument, `Grown`: a table of old blocks
followed by new ones, where the counts of the old ones follow the set of their holders. For
`release`, `CountWithout` says that a count less the table's entries is the number of the other
holders, so that the blocks kept are those somebody else holds. `SequencesIsolated` is where the
counts pay off: `append` writes into a block only if its count is 1, hence into nobody else's.

`FullInvariant` adds `TablesFull` and `SharedBlocksFull`, which need each other: a fork shares full
blocks only, so an open last block is private and may be written; and as it is the only one written,
shared blocks stay full. The ceiling of `BlocksFor` is characterised by two inequalities that are linear
once a multiple of `BlockSize` has a name. `SummaryBalances` counts a set of pairs twice: the units held
in (block, holder) pairs, by block and by holder.

### The caches

The theorems of `PromptPreparation_proofs` about them hold for every capacity, expiry, set of prompts and calls
(`CacheAssumption`, `ManagerAssumption`).

* `CachesTyped`: `Spec => []TypeOK`. `CachesBounded`: `Spec => []WithinBounds`.
* `MissesAreAccounted`: `Spec => []MissesAccounted`. `HitsHaveSources`: `Spec => []HitHasSource`.
* `EvictionFollowsUse`: `Spec => []OrderedByUse`.
* `PreparationComposes`: `PrepareSpec => Spec /\ RouterSpec`: the composition is a behaviour of each part.
* `PreparedPromptsRouted`: `PrepareSpec => RoutesLikeIndex`.

`CacheInvariant` says of each layer that it is exact (`Exact`): the order lists each key once, entries
are not from the future, the order is that of use, and the running total of bytes is the sum over the
entries. `put` passes through caches that are exact and exceed their bounds, so `Exact` and `Fits` are
apart. `SurplusFits` shows that the eviction loop ends within the bounds: removing all entries leaves an empty
cache, which fits, so a least number exists. An expired or replaced entry leaves from the middle of the
order (`WithoutLists`). `HitHasSource` is about calls, but a call that hits only sees an entry, so the
invariant has `EntriesHaveSource`: some call stored it at the time it says. `MissesAccounted` is a
balance: `put` adds one to entries or evictions for every call that stores.

### The prefix router

Its theorems, also in `PromptPreparation_proofs`, hold for every vocabulary, set of prompts and bound
(`RouteAssumption`). They are about `RouterSpec`; every step of `PromptPreparation` observes one prompt
or leaves the router alone.

* `TreeCorrect`: `RouterSpec => []RouterInvariant`.
* `IndexImplemented`: `RouterSpec => RoutesLikeIndex`, the refinement of `PrefixIndex`.

The tree only keeps counters, so the proof says what they count. `RouterInvariant`: the tree is
closed under prefixes, each of its nodes but the root is on the path of an observed prompt, and
its visits are the number of prompts whose path goes through it. An insertion adds one pair to `Observed`
(`InsertObserves`) and one visit to each node on its path (`InsertKeeps`). The walk stops at the first
missing node; as the tree is closed, no observed prompt shares a longer prefix
(`MatchIsLongest`). Fewer prompts go through a deeper node, so the most visits on the walk are
those of its first node (`MostVisitedIsFirst`).

### The service and its clients

The theorems of `LoadClients_proofs` hold for every number of requests, workload, limit, fault of the mock
and client program (`ServiceAssumption`, `ClientAssumption`).

* `SamplesAreTruthful`: `Spec => []SamplesTruthful`.
* `LedgersBalance`: `Spec => []LedgersAgree`.

`ServiceInvariant` follows one request from its handler to its verdict: where the handler is says which
states the request can be in (`HandlerState`), a reply is closed only by a handler that ended, and its status
then tells a state that is final (`ClosedReply`, `ReplyTells`), a verdict on an answer was passed on a
closed reply (`JudgedReply`), and a request at the server is waited for or was given up
(`SentRequest`). A stranded handler has lost a request that stays queued or the end of one that was completed,
and its reply is never closed, so nothing is reported of it but a timeout. A step of the server leaves verdicts alone and moves live requests only
(`RequestsMove`), a handler's step concerns one request (`HandlerStep`). `LedgersAgree` sums the
counters of outcomes, which are the sizes of disjoint sets of requests (`OutcomesSumUp`).

### The threads

The theorems of `BackendThreads_proofs` hold for every number of calls, tokens and threads
(`PoolAssumption`).

* `StreamsAreFaithful`: `Spec => []StreamsFaithful`. `ModelsStopPromptly`: `Spec => []StopsPromptly`.

`ThreadInvariant` adds, per call, that it has one wait at a time, which outlives the call only in a thread
(`WaitTracked`); that the end marker is the last fragment and comes after generation, and a call that joins
its generation has read everything (`TextTracked`); and that a model that may go on for a call given up was told
to stop, so that what is late came with the last step of the model or of the last thread (`LateTracked`). The calls share the queue of the pool and nothing else, so the
proof separates the step of a call from what it leaves of the others (`Untouched`); a queue without
repetitions stays one under removal from its middle, which cancelling queued work does.

### The step loops

The theorems of `ContinuousBatching_proofs` and `ChunkedPrefill_proofs` hold for every list of specs, and
for every pair of capacities (`ArgumentsTyped`) or every policy, chunk size and bound
(`PrefillArgumentsTyped`).

* `TypesHold`: `BatchingSpec => []BatchingTypeOK` and `PrefillSpec => []PrefillTypeOK`.
* `WorkIsPlaced`: `BatchingSpec => []WorkPlaced` and `PrefillSpec => []RequestsPlaced`.
* `LoopEnds`: `BatchingSpec => []EndsByHorizon` and `PrefillSpec => []PrefillEndsByHorizon`.
* `NoSlowerThanCohorts`: `BatchingSpec => []StaticNoBetter`.
* `GapsBounded`: `PrefillSpec => []TokenGapsBounded`.

*Places.* `Lists` says which set each list is, in terms of the counters (`ToPrefill`, `ToDecode`), and that
no list has a member twice; the counts of `WorkPlaced` and `RequestsPlaced` follow. An iteration is a chain of filters, cuts and
appends, so `ListsAndSums` says of each what it does to the set, the length, the distinctness and the order of
a list. `Keep` is defined by the places it keeps for this reason (a library filter is recursive); a filter
is reasoned about through an increasing list of those places (`KeptPlaces`). `Told` is what the counters of
one sequence say of each other.

*The end.* From the last arrival on, every iteration takes at least one piece of what is left (`WorkFalls`,
`SomeoneMoves`): `OnTime` bounds the steps since then plus what is left by the whole. An unfinished
sequence has something left, so by the horizon none is. What cannot be served never finishes, by `Told`.

*Gaps.* A request that has begun to decode stays the head of its list under the first two policies. Under
prefill-first it waits only while others prefill, so `Waited` pays for its wait with the chunks of others
done since. Under the mixed policy every step past its due time adds another request to `Overtakers`, those
that decoded while it was due: one that did has the later last step and is not ahead again, and this
includes those whose first token came meanwhile. `WaitsKept` has a case per policy and operation.

*Cohorts.* `Ordered`: where nothing can overtake, the lists keep the order of the specs, and a later sequence
is never ahead in its prompt. `KeepsUp`: an unfinished sequence whose cohort the static batches would
have started has no more left than its cohort would have had time for. For this it must be served in each
step from then on (`InTurn`): when its cohort starts, all earlier cohorts are done (`EarlierDone`, from
`KeepsUp` itself), so what is ahead of it is of its own cohort, which fits the batch and the stage.
`CohortEnd` is a recursion over cohorts; that the definition has the recursion's values is shown by a least
counterexample (`EndsRecur`), the times of the cohorts then follow (`CohortEnds`).

### Sums

`FiniteSetsExt` sums over a set element by element, in an order that CHOOSE decides, through a function that
is defined by itself. `ListsAndSums` compares such a function with a count of units (pairs of an element and
one of the units of its weight): if they differed, they would differ on a smallest subset, and there both add
the same weight to the same rest. So sums are cardinalities, and the theorems on unions apply. This is how the
token budget, the bytes of a cache, the totals of `summary` and the counters of outcomes are reasoned about.

### What stays with TLC

* Liveness under fairness: `Answered`, `SlotsFreed`, `ResponsesEnd`, `EverySampled`, `WorkersReturn`.
* `CommandLineNoSlower`: it rests on the pattern of lengths 1, 2, 3 and 2, 5, 8 that the command line
  repeats, for which the argument of `NoOvertaking` fails; checked up to ten requests.
* What the models say of the code, that is, the correspondence in section 2.

## 5. Not modelled

Of `api.py` the read-only endpoints, the validation of bodies and a tokenizer that raises (the cache is
modelled with one, the response to it is not); of the lifespan, configuration and wiring. Logging,
histograms, gauges and export formats. What a model computes, and how MLX batches. Percentiles and
other statistics of the load generator, comparison of result files, memory polling and plots; the
experiment of `continuous_batching.py` on a real batch generator; the fairness index; the layout
of the page. These are values and formats, or offline code without state of its own.

The router's tree has no bound on its nodes. No property says so, as it would only restate that
nothing is ever removed.

### What is left

1. `form_batch` as the loop it is, against the declarative `IsBatch`.
2. `ChatService` over a bounded number of active requests and with batches, as `RequestScheduler` has them.
3. The gauges and histograms of the metrics.
4. `CommandLineNoSlower` for every number of requests.

## 6. Where the code and its statements differ

* **Lost start** (`scheduler.py:368`). `cancel` promises to release the completion channels, but
  a task cancelled before its first step never runs its body: result pending for ever, no
  terminal event, nothing counted. Run `lost_start`.
* **Early time-out** (`scheduler.py:415`). One timeout stands for a batch, so the earliest
  deadline times out every member. Run `early_timeout`.
* **Cancelled handler** (`api.py:211`). The awaited future is cancelled first, so `cancel` finds
  it done and leaves the work queued. Run `cancelled_handler`.
* **Slot leak** (`scheduler.py:518`). The end marker of a completed stream waits for room without
  a deadline; if the client has left, the slot is never freed. Run `slot_leak`.
* **Hidden failures** (`benchmark.py:183`). A streaming sample is a success when its status was 200,
  which is sent before generation begins; the error event that ends a broken stream is skipped, and
  `summarize`, which promises not to hide failed requests, counts it as successful. Run `hidden_failures`.
