# Verification of full-inference-engine

TLA+ models of full-inference-engine (a single-GPU LLM server in Python and PyTorch,
`src/engine`), the TLC instances that check them and the TLAPS proofs about them.
`PROJECT.json` maps every definition to the source lines it stands for and lists runs,
mutants, hazards, findings and theorems.

## 1. The system and its parts

    HTTP handlers (native, OpenAI) --submit/cancel--> ContinuousBatchingService
                                        | submit, cancel, step     (worker thread only)
                                     ContinuousBatchingEngine.step
                                        | FCFSScheduler      queue, active set, preemption
                                        | PrefixCache        radix nodes, exact entries, LRU
                                        | KVBlockManager     block tables, lengths
                                        | BlockAllocator     free list, reference counts
                                        | proposer, sampler  drafts, generators
                                     staging buffers -> eager forward or CUDA graph
                                        | attention backends over the KV pages
                                        | 4-bit linear layers
    start-up: model loader, backend registry and policy, pool size, warm-up of graphs

| Part | State | Operations | What is hard | What makes it correct |
|---|---|---|---|---|
| Block allocator (`cache/allocator.py`) | free list, owner tables, reference counts | allocate, extend, attach, replace_shared, release | counters stepped in five places, never recomputed | a page is free exactly when nobody names it; copy-on-write leaves shared pages alone |
| KV block manager (`cache/paging.py`) | tables, sequence lengths | reserve, attach_prefix, ensure_capacity, append_tokens, copy_on_write_tail, release | partial tails that are shared | committed positions read back as written |
| Prefix cache (`cache/prefix.py`) | radix nodes, exact entries, LRU clock, cache reference counts | lookup, publish, evict_until_free, the block limit | entries share pages with each other and with running requests | cached pages never change, the tree stays reachable, the limit holds |
| Scheduler (`scheduler/scheduler.py`) | waiting queue, active table, prefill order, progress epoch | submit, admit_available, preempt, finish, fail, cancel, plan_prefill | preemption, gated readmission, order by creation | FCFS, the oldest never yields, everyone ends |
| Request (`runtime/request.py`) | state, output, prefill counters, resumption flags | transition, append_token, advance_prefill, preempt, complete_resumption | resumption after preemption | only legal transitions; counters agree with the block manager |
| Engine (`batching/continuous_batching.py`) | KV pages, the step's rows and plans, staging buffers | step, submit, cancel, the constructor, warm-up | capacity is taken row by row and lost again before the forward; buffers are reused while copies are queued | the output is what the request would get alone |
| Speculation (`speculative/`, `batching/batched_speculative.py`) | drafts per request; caches and masks of the stand-alone decoders | propose, verify, accept, crop | rejected positions, drafts that outlive a rebuild, rows of unequal progress | output is greedy decoding of the target alone |
| Sampler (`batching/sampler.py`) | seeded generators, log-probabilities | sample, forget | rows of one batch share padded tensors; rows whose token is dropped | a row depends on its own parameters; streams never restart |
| Service (`server/continuous.py`) | inbox, cancellation queue, handle table, flags | submit, cancel, worker loop, drain, stop | four kinds of thread step between every access | every accepted request is reported once, as it ended |
| HTTP (`server/api.py`, `server/openai.py`) | a call: its handle, its deadline, what was sent | four generating routes | deadline, disconnect, worker and shutdown race | the status tells the cause; streams are whole; nothing abandoned runs on |
| Graphs and warm-up (`graphs/`, engine) | captured graphs, kinds given up | warm-up rounds, capture, replay | a graph freezes sizes that later batches must fit | every replayed graph was recorded for at least this batch |
| Backends (`backends/`) | registry, the choice per phase, the pool | register, resolve, defaults | availability by device, geometry and storage | what runs was asked for or measured, or the engine is refused |
| Kernels (`kernels/`) | KV pools, scales, mask cache | KV writers, six decode and seven prefill backends | tiles, masks, padding, split-K merges, grouped heads | each computes the exact softmax over the row's own keys |
| 4-bit layers (`quantization/w4a16.py`, `kernels/w4a16_linear.py`) | packed weights, shared scratch tile, reference mode | pack, four routes, install | a shared buffer recorded in graphs, chunk and group arithmetic | every route is the same function |
| Loading (`quantization/w4a16.py`, `runtime/`) | tensors placed and missing | stream, tie, refuse | incomplete and over-full checkpoints, memory while loading | a whole model or a refusal |
| Contiguous allocator, metrics, reference and static paths | | | | not modelled: section 9 |

## 2. Modules

| Module | Models | Composition |
|---|---|---|
| `BlockPool` | the allocator's record and its operations as operators, and their invariants | used by all below |
| `PageOwnership` | abstract: pages held by owners, no counters, no free list | refined by `BlockAllocator` |
| `BlockAllocator` | every sequence of allocator calls | EXTENDS `BlockPool` |
| `Filters` | dropping elements of a list in order (`Keep`, `Without`) | |
| `PagedKV` | block manager, prefix cache, capacity helpers and the content of pages as operators on one record | INSTANCE `BlockPool` |
| `PrefixCache` | every order of calls that requests can make of cache and manager | EXTENDS `PagedKV` |
| `Engine` | scheduler, request lifecycle and `step()` | EXTENDS `PagedKV` |
| `SampledEngine` | generators and log-probabilities over the same step | EXTENDS `Engine` |
| `Speculation` | acceptance, n-gram lookup, draft-model proposer as operators | |
| `SpecEngine` | the speculative branch of `step()` and the drafts' lifecycle | EXTENDS `Engine`, `Speculation` |
| `SpecDecoders` | the vanilla, optimized and batched stand-alone decoders | |
| `Sampling` | penalties, filters, draw and log-probability entries of a batch | |
| `Staging` | pinned host buffers, queued copies, forwards and replays on one stream | |
| `GraphShapes` | warm-up and the graph each live step replays or captures | |
| `Backends` | registry, availability, defaults, resolution, pool size | |
| `ModelLoad` | the streaming 4-bit loader and the stock loader | |
| `PagedKernels` | KV writers and attention kernels by index arithmetic and online softmax | |
| `W4Linear` | the packed format, its four routes, the scratch tile, reference mode | |
| `Service` | client threads, worker thread, shutdown thread | sees `Engine` through its contract |
| `Api` | one HTTP call against worker, deadline, client and shutdown | sees `Service` through one handle |
| `SequenceLemmas`, `MemoryLemmas` | lemmas on lists, recursive functions and bounded induction; what each operator of `PagedKV` keeps | |
| `BlockAllocatorProofs`, `PrefixCacheProofs`, `EngineProofs`, `EngineMemoryProofs`, `ServiceProofs`, `ApiProofs` | the theorems of section 6 | EXTEND their modules and the lemmas |
| `MC*` | instances: small constants, workloads, deterministic models | |

How state corresponds to code:

- **Pages.** `mem.pool.owns` is `_allocations`, `refs` is `_refcounts`, `free` is
  `_free_blocks` as a set: the list is sorted again after every release and only popped
  at its end, so `Popped` is the largest free blocks, largest first.
  The keys and values of a position depend on every token before it, so a slot of a page
  holds that token prefix; reading back is equality of prefixes. Freed pages are blanked,
  since anybody may overwrite them. The rows padded for CUDA graphs own `Reserved` pages.
- **Cache.** Radix nodes are named by their token path and exact entries by their tokens;
  the LRU clock never repeats, so `lru` keeps only its order.
- **Step.** `Engine` cuts `step()` at every loop turn (variable `pc`, listed at the top of
  the module). One thread runs it, so arrivals and cancellations fall between steps;
  the cut shows the states between two capacity grants, where rows are preempted.
  `prefill_batch` (whole prompts, with generated history replayed) and `prefill_chunks` ask
  for the same capacity and leave the same pages, so one path stands for both. The
  token is read from the row's pages when it is committed, which equals the forward's
  result because the row keeps its pages between the two. That the buffers a forward
  reads really say what the step decided is `Staging`; that a kernel reads what the
  buffers say is `PagedKernels`.
- **Model.** `Model(_)` is the greedy next token after a context; a sampled request may
  get any token. `created_ns` is an arrival number, given by `Create`; `Submit` is the
  scheduler's, in the same order if `InOrder`, else in any order (client threads build
  requests and put them into the inbox in two steps).
- **Speculation.** `SpecEngine` adds program counters for the proposal, its capacity, the
  verification forward and the commit per row. A draft state keeps what the proposer says
  its cache covers (`tokens`) apart from what the cache holds (`cache`); that the two agree is checked.
  In `SpecDecoders` a cache is the list of tokens with the positions they were read at, and
  a prediction depends on every visible one: a wrong position, a forgotten crop or a wrong mask
  bit changes the output.
- **Staging.** Host buffers, device buffers, the pool and the queue of the stream are
  separate variables; a copy reads the host buffer when the device gets to it. `MaxAhead` is
  how many operations the device may lag behind in the replay loop: 0 is a device that
  keeps up, a larger bound one that does not. `torch` promises neither.
- **Kernels.** A cell holds the identity of the vector stored there, a key's value is its own
  unit vector and a weight is a power of two, so the accumulator of a softmax says which
  keys were read, how often and with which weight, in exact integers.
- **4-bit layers.** Weights and activations are integers, a scale `max|w|/7` is kept as
  `max|w|`; the rounding of scales and sums to 16 bits is left out.
- **Service.** One action per access to a queue, a flag or the handle table. The engine
  appears as: submit accepts, rejects, or raises (`TooLong`: past `max_model_len`, which
  the HTTP layer refuses earlier, so it concerns direct users of the service); a step ends
  any set of live requests, or raises. The wake event only shortens a 50 ms wait.
  Cancelling the leftovers of a drain is one action; the pause after it is left out.
- **Api.** One call; the handler is cut at its awaits. Text is what the tokenizer makes of
  tokens, special tokens dropped. The worker is reduced to what one handle can see of it,
  the loss of a handle included.

`MCAlgorithms`, `MCKernels` and `MCStartup` check several components in one run. The components share no state; a variable `about` (in `MCAlgorithms`
the kind of the input) says which of them a behaviour is about, and the others stay at one
initial state, so that each is checked exactly as it would be by itself.

## 3. Runs

| Run | Instance | What it shows |
|---|---|---|
| `memory` | two requests, three prompts with a common first block (one shorter, one with a partial tail, one of two blocks), four pages of two tokens of which one is reserved, a cache of two blocks | requests read back their own tokens, cached pages never change, the cache stays exact, within budget and reachable, through every hit, copy-on-write, eviction and double publication |
| `engine` | three requests out of five kinds (shared prefixes, greedy and seeded, ended by stop token, EOS and length, one that can never fit) over three usable pages; fused forward, prefix cache, chunks of two tokens, three per step | output, pages, counters, order, progress and generators through preemption of decoding and prefilling requests, resumption, queue overflow, rejection and cancellation |
| `spec_engine` | three requests, four usable pages, separate forwards, draft-model or n-gram proposer of depth two, submission in any order; a draft that agrees, is cut and is rejected at once | speculation changes nothing: output, pages and counters; drafts are current and belong to the living |
| `service` | three clients (one past `max_model_len`), an inbox of two, exceptions, drain and join timeouts, a shutdown at any moment | completion is final, nothing is orphaned, stop leaves nothing, accepted requests complete |
| `api` | every generating route, prompts that are empty, fit or are too long, three sets of stop strings, up to two tokens | answers tell the truth (the OpenAI exceptions: section 8), waiters are woken, abandoned calls are cancelled, streams are whole, every call is answered |
| `staging` | three requests over five pages, decode, chunked, fused and capture staging, one graph bucket of two rows, one preemption each, `MaxAhead = 0` | rows stay apart, the sampled row is the right one, pages hold their request's history |
| `algorithms` | allocator: four symmetric owners, three pages, requests of up to two pages, five operations in any order, `attach` with every list of live pages whoever holds them; every round over two tokens with drafts of up to two, every n-gram history up to seven tokens, every pair of draft histories up to four, batches of two rows through the sampler, and whole calls of the three decoders with 18 target and 18 draft models | counters, free list and tables are exact and every allocator step is a step of `PageOwnership`; a round commits what stepwise decoding would, lookups continue the best match, drafts forget the past, rows are sampled alone, decoders are greedy and their caches exact |
| `kernels` | one or two live rows over contexts of up to eight tokens, pages of two, all backends, two tile widths, with and without graph padding and a stale mask cache, two layers; layers of one to four groups, one to four rows, graphs and two nested reference modes | attention is exact and NaN-free and writes nowhere else; every route of a 4-bit layer agrees and is within half a step |
| `startup` | checkpoints that miss up to two tensors and carry one more, in every order; machines of three generations and none, two cards, small cards, 26 geometries, every name an operator can pass; thirteen graph configurations | a whole model or a just refusal; the engine is as asked; replayed graphs fit |
| `engine_served` | as `engine`, without oversize requests | violated: section 8, 1 |
| `service_completes` | two clients | violated: section 8, 2 |
| `staging_replay` | as `staging`, the device up to nine operations behind | violated: section 8, 3 |

### Bounds

Three requests are the fewest for which a victim, an older survivor and a third arrival
between them exist; a page holds two tokens, so that partial tails, exact block ends and
block crossings all occur within five positions; three usable pages are one less than two
of the longest requests need. In `algorithms` four owners and three pages
are enough for an owner that attaches a path of pages held by two or three other owners,
and for copy-on-write of such a page while a free one is left. The next-token function `MCModel` makes outputs alternate:
a shifted or repeated token changes the output. Counters (epoch, yields, arrival) are
bounded by the number of requests. In `kernels` a chunk of three queries over tiles of two has
a full and a partial query tile, and a context of eight over tiles of two and four has several
slices of split-K. In `startup` the graph configurations use the code's own sizes, lengths
around each bucket border included. Nothing is cut off by a state constraint.

Two disjuncts exist for the code's sake and are never taken in these instances: the failure
of a lone request inside prefill, and `INVALID_PREFIX_ENTRY` (an exact hit without a
prediction), which `lookup` rules out.

## 4. Properties

Properties that are checked together are conjunctions of named parts; each part carries
its own comment.

- *Memory*: `PoolConsistent` (type, exact reference counts, free is unheld, tables without
  repetition), `ImplementsOwnership`, `RequestsReadBack`, `CacheImmutable`,
  `CacheConsistent` (exact cache references, budget, reachable tree).
- *Engine*: `EngineConsistent` (counters of request, manager and pages agree; every page is
  accounted for), `KVIntegrity`, `SoloOutput` (token identity under batching, caching,
  chunking, preemption and speculation), `FirstComeFirstServed` (arrival order kept, yields
  bounded), `OldestNeverYields`, `LegalTransitions`, `EveryRequestEnds` (liveness).
- *Sampling*: `GeneratorsExact` (generators of the living, a draw for every token),
  `StreamsNeverRestart`, `RowsSampleAlone`.
- *Speculation*: `ProposalsAreCurrent`, `DraftsOfTheLiving`, `SpeculationIsExact`,
  `DecodingIsGreedy`, `CachesExact`.
- *Service and HTTP*: `CompletedIsFinal`, `NoOrphans`, `StopIsFinal`, `AcceptedCompletes`
  (liveness); `AnswersAreTrue`, `WaiterIsWoken`, `AbandonedIsCancelled`, `StreamIsWhole`,
  `EveryCallAnswered` (liveness).
- *GPU side*: `RowsStayApart`, `SampledFromOwnHistory`, `PagesHoldHistory`,
  `AttentionIsSound`, `LinearIsSound`.
- *Start-up*: `LoadIsSound`, `EngineAsAsked`, `GraphsServe`.

Every property of a passing run has a mutant: an operator beside the original, named
after the bug it makes (`ReleaseFreesShared`, `RequeuedLast`, `HeldForever`...), under
which TLC finds the property violated.

## 5. Fairness

- `Engine`, `SampledEngine`: `WorkerRuns`, weak fairness of `Step`: the worker's loop calls
  `step()` while `has_unfinished_requests`, and nothing in a step blocks. `ENABLED Step` is
  written out as `Busy`: between steps `BeginStep` is enabled when there is work, and inside a
  step only `Step` can act, so that it is enabled there is the absence of deadlock, which
  the runs check. Clients need not submit or cancel anything.
- `Service`: weak fairness of the worker and of the shutdown thread once it runs (threads
  are scheduled). Strong fairness of a step that ends a request: this is
  `EveryRequestEnds` of `Engine` seen from outside. Nobody has to call `stop`. The
  `service` runs do not check deadlock: after `stop` everything has ended.
- `Api`: weak fairness of the handler (the event loop runs what can go on) and of the clock.
  Nothing is assumed of the worker: it may hang, die or lose the handle, and
  `EveryCallAnswered` still holds.

`staging`, `algorithms`, `kernels` and `startup` check safety only and may stop where the
work is done, so they do not check deadlock either.

## 6. Proofs

`BlockAllocatorProofs`, for every number of pages, every set of owners and every request
size:

- `PoolConsistency`: `Spec => []PoolConsistent`.
- `AllocatorImplementsOwnership`: `Spec => ImplementsOwnership`.

The inductive invariant is the conjunction of the four parts (`Consistent`). None is
inductive alone: `release` frees the pages whose counter reaches zero, so that only unheld
pages are freed follows from exact counters; exact counters after `release` or `attach`
(one step per page) need tables without repetition; and tables without repetition after
`allocate` need that free pages are unheld. One lemma per operator shows that it preserves
`Consistent`; the arguments on cardinality (adding or removing one owner changes the
number of holders by one) are the lemmas at the top. `attach` is taken with
any list of distinct live pages, not with a run of one owner's table: a radix path that a
request attaches is held by a cache owner per node. The refinement follows from the
invariant: a free page is an available page of `PageOwnership`, a page with a reference is
a held one, and a counter above one means another holder. Assumptions: `Owner` is finite, the pool's size and `MaxCount` are
naturals.

`ServiceProofs`, for every finite set of handles, every inbox size, and whether or not the
engine can raise and the timeouts can pass:

- `CompletionIsFinal`: `Spec => []CompletedIsFinal`.
- `NoRequestOrphaned`: `Spec => []NoOrphans`.
- `StopLeavesNothing`: `Spec => []StopIsFinal`.

The inductive invariant `IInv` adds to the two properties where a handle can be. `Places`:
before `submit` has returned, in the inbox and in the worker's hand a handle is fresh
(waiting, not completed, in no table or batch) and in one of those places only; without it
the worker could accept a handle that was already completed, and `NoOrphans` would not
survive the next step. `Batches`: a batch is empty outside `_fail_all`, and an error implies
completion. `Stopped`: once `stop` has given up on the worker, the worker is inside its step,
past it, or dead, never about to take a handle; this is what makes the table stay empty.
The lemmas at the top say which elements an inbox has after a put and a get.

`PrefixCacheProofs`, for every number of requests, pages, prompts, every page size and every
budget of the cache:

- `NoForeignKeys`: `Spec => []RequestsReadBack`.
- `CachedPagesStand`: `Spec => []CacheImmutable`.
- `CacheBooksBalance`: `Spec => []CacheConsistent`.

None of the three is inductive. The invariant `CacheInv` is `MemoryOK(mem, seq)` with the
budget and `Placed`. `MemoryOK` has two halves. `CacheOK`: the pool is `Consistent`, the
cache's references are exact, the LRU list holds each entry once, the tree is closed under
parents, and each node and each exact entry has as many pages as it needs and reads as it
is filed. `RequestOK`: the committed positions read back, and every page *ahead* of them
(the pages after the committed positions, and the one they end in unless it is the last)
is held by nobody else. The last clause is what the code relies on without saying so:
`_ensure_writable_tail` looks at the last page only, and only when it is partly filled, so a
forward would overwrite a sharer's page if a page ahead could be shared. It is also why
`Placed` is needed: `publish` takes references on the pages of the prompt, and none of them may
be ahead, so a prefilling request must not have pages beyond the one it writes next.
`MemoryLemmas` shows for each operator of `PagedKV` that it keeps `MemoryOK`: `Evict` and
both eviction loops, `Retain`, `Touch`, `Lookup` (a hit returns pages that read as the
looked-up tokens), `AttachPrefix`, `Reserve`, `Grow`, `CopyTail`, `EnsureKV`, `Forward`,
`Drop` and `Publish`. The pool's part comes from `BlockAllocatorProofs`. That
`EvictToLimit` ends within the budget is a count: every turn removes an entry, and as long as
the cache is over its budget some entry is a leaf (a longest path).

`EngineProofs`, for every set of requests, workload and capacity:

- `EngineInvariant`: `Spec => []EngineInv`.
- `TransitionsLegal`: `Spec => LegalTransitions`.
- `OldestKeepsRunning`: `Spec => OldestNeverYields`.
- `ServedInOrder`: `InOrder` implies `Spec => []FirstComeFirstServed`. The hypothesis is the
  property's own: without it the property is false (`NoOvertaking`, section 8).

Here the memory is opaque: whether `EnsureKV` succeeds is left open, so these theorems hold
whatever the pages say. `EngineInv` has these parts. `RequestsOK`: each request is a record of the
right fields, and one that is not queued yet waits. `ArrivalsOK`: arrivals are distinct and
at most the number of created requests, so the next `Create` is newer than all; `Older` is
a total order and `NewestActive` exists. `ContainersOK`: waiting, active and order hold
exactly the requests whose state says so, once. `QueueOK`: with arrivals in order, the queue
is sorted, every active request is older than every waiting one, and a request not queued yet
is the newest; the last part makes `Submit` keep the first two. `EpochsOK`: an active request
that has yielded either saw the epoch move since, or is the oldest and so is never
chosen again; without the second case (readmission into an empty engine) the bound on yields
is not inductive. `LoopOK`: the rows and chunks a loop commits without looking again are
still decoding and prefilling, which is what makes `CommitDecodeRow` a legal transition.

`EngineMemoryProofs` joins the last two, for every set of requests, workload, capacity, page
pool, cache budget, and every `Model` that answers a context with a token (`ModelTyped`; it
is a hypothesis of the theorems and not an `ASSUME`, since TLC cannot range over all contexts):

- `BooksBalance`: `Spec => []EngineConsistent`.
- `OwnContextOnly`: `Spec => []KVIntegrity`.
- `TokensAsAlone`: `Spec => []SoloOutput`.
- `MemoryInvariant`: `Spec => []MemoryInv`, the invariant they follow from together with
  `EngineInv`.

`MemoryInv` has four parts.

- `MemoryAgrees`: the memory satisfies `MemoryOK` of `MemoryLemmas` for the *stories* of the
  requests. The story of a request is its prompt and output while it is active, and nothing
  otherwise; this is what the pages of the request have to read as, once computed. Exact
  entries predict what the model would. A request has the pages and the length its state
  calls for: none outside the active states, all but the last token while decoding,
  `prefilled` positions while prefilling.
- In the same conjunct, what is in flight. A step checks capacity for all rows and chunks
  first, then runs one forward, then commits row by row, and any of these turns may
  preempt, evict or retire another request. `Grants` are the rows and chunks that have
  passed their capacity check and have not been written: each still holds, unshared, every
  page it will write. `Writes` are those written and not yet committed: the tokens stored
  past the committed length are those of the story. Without `Grants` a row could write
  into a page that eviction or a copy on write had given away; without `Writes` the commit
  could make visible what the forward did not compute.
- `Books`: each output is a run of greedy decoding that ends where it must (`OutputOK`), and
  the resumption state fits it (`PhaseOK`). A request resumes exactly when it has output. A
  request that has nothing left to prefill without having computed it found its whole
  prompt in the cache, so it is greedy and the cached token is the model's: this is what
  makes the exact hit, which emits a token without a forward, return the same token.
- `PlansFit` and `RowsFit`: a planned chunk stays within what is left of its request's
  prefill, even if the request yields, is cancelled or is readmitted in between; rows kept
  for a fused step are decoding.

The proof goes by the way a turn touches memory. `MemoryAgrees` is kept by each operator of
`PagedKV` for the request it acts on, and the others keep their pages, grants and writes
(`Moves`, `Elsewhere`); one lemma per action of `Engine` then says which requests and grants
it changes. A forward writes all rows in a fold, one after the other: the invariant of
the fold is that the rows written so far cover their stories and the rest are still ready.

The seeded requests of `SampledEngine` (the first two theorems are in `EngineProofs`):

- `GeneratorsLive`: `SampleSpec => []GeneratorsOfTheLiving`.
- `StreamsContinue`: `EnoughGenerators` implies `SampleSpec => StreamsNeverRestart`.
- `TokensPaid`: `ModelTyped` and `EnoughGenerators` imply `SampleSpec => []GeneratorsExact`.

`EnoughGenerators` says that `max_generators` is at least `max_active` plus the length of the
queue, or at least the number of requests; the server's defaults are 1024, 16 and 256. Without
it a draw of one request drops the generator of another, whose stream starts again.
The invariant has four parts. `CrowdOK`: at most `max_active + max_waiting` requests are
submitted and have not ended; a yielded request re-enters a queue that may be full, so
the two bounds do not hold one by one, only their sum. `GensOK`: generators belong to that crowd,
hence no draw drops one. `StreamsOK`: a request has as many draws as reports, and a living
one without a generator has none. `PaidOK`: a seeded request has at least as many draws as
tokens, and one more while a sampled token waits for its commit (`Owed`). The proof classes
every action by what it does to the tokens and debts of a request (`Moved`). The one way to
get a token without a draw is an exact hit, and the cache answers only greedy requests:
that is where `Books` is needed.

And the worker with a proposer, `SpecEngine`, under `ModelTyped` and `DraftTyped` (the draft
model, too, answers every context with a token), for every depth, match length and draft model.
What the proposers and the acceptance rule compute is at the end of `EngineProofs`.

- `SpeculationTransparent`: `SpecSpec => []SoloOutput`.
- `RejectedNeverRead`: `SpecSpec => []KVIntegrity`.
- `SpeculationBalances`: `SpecSpec => []EngineConsistent`.
- `ProposalsCurrent`: `SpecSpec => []ProposalsAreCurrent`.
- `DraftsForgotten`: `SpecSpec => []DraftsOfTheLiving`.
- `SpeculationLegal`, `SpeculationSparesOldest`: `SpecSpec => LegalTransitions`,
  `SpecSpec => OldestNeverYields`.
- `SpeculationServesInOrder`: `InOrder` implies `SpecSpec => []FirstComeFirstServed`.
- `SpeculationInvariant`: `SpecSpec => []SpecInv`, which they follow from.

`SpecInv` is `EngineInv` and `MemoryInv` outside a speculative round and `RoundInv` inside one.
`RoundInv` keeps what both share (`Balanced`, from which the first three follow in either
worker) and says what is in flight: `RoundGrants`, a row that has passed its capacity
check holds, unshared, the pages for its pending token and its whole proposal; `RoundWrites`,
what was written behind the committed positions of a row that waits for its commit reads as its
story followed by its proposal; `RoundRows`, a group lists each row once, and those that are
verified and committed without looking again are decoding. `ProposalsFresh`: the proposal of a row
that is still to be verified was made for the history the row has now. Preemption does not
break it, since it keeps the output, and a row that was committed has left its group.
`ProposerOK`: a draft cache holds the tokens it is filed under, and only live requests have one.

The commit is where the argument is. `PlanFacts` says what `plan_greedy_commit` returns: tokens
that agree with the proposal up to the last one, as many as inputs become visible. `SpecEmits`
turns that into what the engine needs. The prediction behind an accepted prefix was made in
a context that reads as the story and that prefix, so the tokens emitted are a run of
greedy decoding (`Extends`); the reason the plan gives is that of `_finish_reason` and no
earlier token would have ended the request (`RoundReasons`); and what was stored for the
proposal reads, up to the new length, as the new story, because the two differ only in the last token,
whose keys and values are not visible yet. `SynchronizeExact` and `DraftProposeFacts` are about
`DraftModelProposer`: whatever its cache covered before, after synchronizing it covers the history,
and the proposal is what the draft model would say of it.

`ApiProofs`, for every set of tokens, stop strings and limits:

- `AnswersTrue`: `Spec => []AnswersAreTrue`.
- `WaitersWoken`: `Spec => []WaiterIsWoken`.
- `NothingAbandoned`: `Spec => []AbandonedIsCancelled`.
- `StreamsWhole`: `TextIsFinal` implies `Spec => []StreamIsWhole`. `TextIsFinal` says that no
  token is half a character. Without it the statement is false: a replacement character
  that was sent is not taken back when its second half arrives.

The invariant `ApiInv` has these parts. `Places`: where the service may hold the handle while
the handler stands at each await, and that a completed handle is gone from the table, so
its output no longer grows. `Causes`: what lies behind each way a request ends and
behind each queued cancellation (a timeout only past the deadline, a shutdown only when the
service no longer serves). `Waits`: while the handler waits, it has been woken exactly when
its event is set, and otherwise its callback is registered; this is what `on_complete` gets
from looking at the event again under the lock. `Unsaid` and `Said`: what a route has told
the client before and after its answer. `Texts`: the text of an answer ends before the last
character of the text decoded so far, unless the request is over. The last clause is the
point of a stop string being at least one character long: the worker goes on appending until
the cancellation reaches it, a token may still change the last character, and the answer
remains a prefix all the same. The lemmas say what one more token does to the decoded
text (`DecodeAppend`, `DecodeGrows`) and what `truncate_at_stop` returns
(`TruncateAtStopCuts`).

Facts that need induction over data are proved by induction over sets of numbers
(`SetInduction`, `BoundedInduction` of `SequenceLemmas`), and a recursive function definition is
unfolded by showing that a function satisfying its equation exists (`RecursionExists`,
`StagedRecursion`). So what folds compute (`Keep`, `Decode`, `PlanOf`, `Forward`, `TouchAll`,
`Publish`, `AfterRows`, the eviction loops) is proved for every input.

Assumptions: those of the modules (`KVAssumption`, `OwnerAssumption`, `EngineAssumption`,
`ServiceAssumption`, `ApiAssumption`, `GeneratorAssumption`, `SpecAssumption`, `MatchAssumption`,
`PoolAssumption` and `MaxCountAssumption`): constants have their types, sets
of requests, prompts and handles are finite, a prompt is not empty, and cache owners are not requests.
On top of them some theorems have a hypothesis, stated above: `ModelTyped`, `DraftTyped`, `EnoughGenerators`,
`InOrder`, `TextIsFinal`.

Only model-checked: liveness and everything under fairness, which TLAPS does not prove; the
properties of the stand-alone speculative decoders, staging, kernels and start-up; the type
invariant of `Service`.

## 7. Hazards

`PROJECT.json` lists what is hard to test in this code, at its line, with the properties
that would catch it. One has none: a failed request reported with a normal finish reason by
the OpenAI routes, which is how the code behaves (section 8).

## 8. Known disagreements

Three runs have a violation that shows a difference between the code and what it says of
itself:

1. `engine_served` (`AdmittedIsServed`): a page only the cache holds survives
   `evict_until_free`, because its node has a descendant that a request pins and only leaves
   are evicted; a request that is alone and fits fails with `KV_POOL_EXHAUSTED`.
2. `service_completes` (`EveryHandleCompletes`): the put of `submit` comes after the last look
   at the inbox, or `engine.submit` raises while the handle is in no table; the handle waits
   for ever.
3. `staging_replay` (`PagesHoldHistory`): the replay of a resumed request stages the next
   token over a buffer whose non-blocking copy is still queued.

Others are *exceptions inside a property*. The instance reaches each case, and TLC finds
the property without the exception violated:

| Part (run) | Exception | The code |
|---|---|---|
| `LazyOnlyWhenSkipped` (`startup`) | shapes warm-up skipped | warm-up drops a shape when all rows at the rounded-up context exceed the pool; rows of unequal length reach it and capture it live (`continuous_batching.py:1643`; its comment at 354 says never) |
| `GraphTypeOK` (`startup`) | a kind given up after an oversize live capture | any `RuntimeError` of a capture gives the kind up (`continuous_batching.py:1661`) |
| `KeysCovered` (`startup`) | fused gather graph, decode row longer than the chunks' context | that context is recorded as the split-K bound of the decode rows (`fused_step_graph.py:63`) |
| `StorageMatches` (`startup`) | decode graphs | the capture leaves `kv_dtype` at its default over a scaled pool (`paged_decode_graph.py:46`) |
| `PoolIsRead` (`startup`) | FlashAttention over scaled pages of 256 tokens | availability does not look at the storage type (`builtin.py:34`) |
| `RunsOnItsDevice` (`startup`) | two cards | device 0 is probed whatever device the engine is on |
| `AutoIsMeasured` (`startup`) | `prefill_attention="auto"` | goes to `resolve()` and takes the highest priority, not the measured default (`continuous_batching.py:464`) |
| `StrangersRefused` (`startup`) | a bias of a 4-bit layer | is taken whether or not the config gives the layer one (`w4a16.py:361`) |
| `EveryLayerServes` (`kernels`) | widths above a chunk that are no multiple of it | installed, and refused by the GEMV (1536 in the code; `w4a16_linear.py:198`) |
| `PenaltiesOfTheRow` (`algorithms`) | token 0 of a padded row that penalises token 0 | padding writes the unpenalised logit to token 0 and the scatter keeps either (`sampler.py:175`) |

`GraphTilesHeld` holds on the checked sizes, where the head's tile is over the scratch limit;
a head whose tile is the largest that still fits would replace the buffer under captured
graphs (`w4a16.py:74`).

The last group are *stated, refuted and in no run*: definitions kept beside the
properties because they say what a doc or comment states.

| Definition | Refuted on | The code |
|---|---|---|
| `EvictionReclaimsUnpinned` (`PrefixCache`) | `memory` | the cause of finding 1 |
| `NoOvertaking` (`Engine`) | `engine` with `InOrder = FALSE` | the queue is in submission order, the insertion of a yielded request by creation time; it lands ahead of an older one queued late |
| `CancellationApplied` (`Service`) | `service` | a cancellation read before its own submission is dropped (the streaming API cancels only after acceptance and does not meet it) |
| `DrainLetsWorkFinish` (`Service`) | `service_completes` | a handle between inbox and table is invisible to `drain`; its request is failed although no deadline passed |
| `ParkedHoldsNoDraft` (`SpecEngine`) | `spec_engine` | a request preempted while it is rebuilt waits with its draft cache (`continuous_batching.py:1756`) |
| `LogprobsAligned`, `OneDrawPerToken` (`SampledEngine`) | `engine` | rows whose token is dropped append an entry and draw (`continuous_batching.py:1930`, `sampler.py:63`) |
| `PenaltiesIgnoreNeighbours` (`MCAlgorithms`) | `algorithms` | `PenaltiesOfTheRow` without its exception |
| `OpenAITruth` (`Api`) | `api` | every end but LENGTH is answered 200 with finish reason "stop" (`openai.py:112`) |
| `StopWithheld` (`Api`) | `api` | the beginning of a stop string that spans two reads has already been streamed (`openai.py:266`) |
| `CaptureWrapsAround` (`Staging`) | `staging` | a comment says that a capture on no rows wraps around, so that two inert rows store into one slot (`continuous_batching.py:918-920`); one slot is reserved per row of the widest bucket and rows take them by `row - count`, which never wraps (845-864, 893-906, 922): the comment is stale, and `DistinctWrites` holds for these captures too |
| `PoolFits` (`Backends`) | `startup` | the scale pools are not in the sum compared with free memory (`continuous_batching.py:673`) |

## 9. Not modelled

- `ContiguousKVAllocator`, static batching, single-request reference caches and the command
  line: baselines the server does not use.
- Floating point: rounding, the scales of INT8 and FP8 pages, the fused norm, rotary and
  SwiGLU kernels, the INT8 weight paths. The models say which operands meet, not to how
  many bits.
- CUDA itself: capture and replay are taken as recording addresses and sizes; the stream
  as a queue.
- Metrics, statistics, timing, logging: nothing on the serving path depends on them. The HTTP
  routes that only read them are left out too.
- Tokenizer, runner and the discovery of modules for fused kernels: framework glue.
- Benchmarks, examples, notebooks, scripts.
- `reset()` and `release()` of the engine, `generate()`: they run without the service.

## 10. Plan

Modelled first because everything else relies on it: allocator, cache, engine, service; then
speculation, sampling, staging, graphs, HTTP, kernels, backends and loading. What is left
is proof: `SpecDecoders`, whose acceptance rule is the one of `PlanFacts`; `LoadIsSound`;
`GraphsServe` from the arithmetic of buckets.
