------------------------------- MODULE Engine -------------------------------
(***************************************************************************)
(* The serving engine's worker: FCFSScheduler (src/engine/scheduler/       *)
(* scheduler.py), the request lifecycle (src/engine/runtime/request.py)    *)
(* and ContinuousBatchingEngine.step (src/engine/batching/                 *)
(* continuous_batching.py), over the paged memory of PagedKV.              *)
(*                                                                         *)
(* submit, cancel and step are called by one worker thread, so calls never *)
(* interleave; a step is a sequence of actions (variable pc), one per loop *)
(* turn of the code, in the order of the code:                             *)
(*                                                                         *)
(*   decodeCap   _decode_viable: capacity for each decoding row, by age    *)
(*   decode      the separate decode forward (without the fused step)      *)
(*   commitD     _commit_decode, row by row                                *)
(*   admit       admit_available, one waiting head per action              *)
(*   exact       exact prefix hits go straight to decoding                 *)
(*   plan        plan_prefill                                              *)
(*   prefillCap  _prefill_viable, chunk by chunk                           *)
(*   forward     the chunk forward, fused with the decode rows if enabled  *)
(*   commitP     _commit_prefill, chunk by chunk                           *)
(*                                                                         *)
(* Arrivals and cancellations happen while pc = "idle".                    *)
(***************************************************************************)
EXTENDS PagedKV, SequencesExt, Filters

CONSTANTS EosIds,      \* eos_ids of the model
          Model(_),    \* the greedy next token after a context
          Workload,    \* the requests clients send (see Kind)
          MaxActive,   \* max_active
          MaxWaiting,  \* max_waiting_requests
          ChunkSize,   \* prefill_chunk_size
          Budget,      \* max_prefill_tokens_per_iteration
          Fused,       \* fused_step
          InOrder      \* requests reach submit in the order of created_ns

Kind == [prompt    : Prompts,
         maxNew    : Nat \ {0},
         greedy    : BOOLEAN,         \* sampling.can_reuse_cached_prediction
         stop      : SUBSET Token,    \* sampling.stop_token_ids
         ignoreEos : BOOLEAN]

ASSUME EngineAssumption ==
    /\ Workload \subseteq Kind
    /\ EosIds \subseteq Token
    /\ MaxActive \in Nat \ {0} /\ MaxWaiting \in Nat \ {0}
    /\ ChunkSize \in Nat \ {0} /\ Budget \in Nat \ {0}
    /\ Fused \in BOOLEAN /\ InOrder \in BOOLEAN

VARIABLES mem,       \* the PagedKV record
          req,       \* the GenerationRequest objects
          waiting,   \* scheduler.waiting
          active,    \* scheduler.active, in insertion order
          order,     \* scheduler._prefill_order
          epoch,     \* scheduler.progress_epoch
          pc,        \* where in step() the worker is
          todo,      \* what the current loop still has to visit
          rows,      \* decode rows that hold capacity for their next token
          plans      \* the prefill plan: <<request, count>>

sched == <<mem, req, waiting, active, order, epoch>>
vars == <<sched, pc, todo, rows, plans>>

Terminal == {"FINISHED", "CANCELLED", "FAILED", "REJECTED"}
State == {"new", "WAITING", "PREFILLING", "DECODING"} \cup Terminal

NoRequest == [state |-> "new"]

Init ==
    /\ mem = InitMem
    /\ req = [r \in Req |-> NoRequest]
    /\ waiting = << >> /\ active = << >> /\ order = << >>
    /\ epoch = 0
    /\ pc = "idle" /\ todo = << >> /\ rows = << >> /\ plans = << >>

-----------------------------------------------------------------------------
(* Requests. *)

Created == {r \in Req : req[r].state # "new"}

Older(a, b) == req[a].arrival < req[b].arrival

\* The sequence of tokens whose KV must exist before r can decode.
PrefillIds(q) == IF q.resuming THEN q.kind.prompt \o Front(q.out)
                 ELSE q.kind.prompt

Remaining(q) == Len(PrefillIds(q)) - q.prefilled

\* Mutant: a preempted request forgets that it had generated tokens.
PreemptedRestarts(q) ==
    [q EXCEPT !.state = "WAITING", !.prefilled = 0, !.cachedNext = NoToken,
              !.recomputing = TRUE, !.yields = @ + 1, !.epoch = epoch]

\* GenerationRequest.preempt
Preempted(q) ==
    [q EXCEPT !.state = "WAITING", !.prefilled = 0, !.cachedNext = NoToken,
              !.resuming = q.out # << >>, !.recomputing = TRUE,
              !.yields = @ + 1, !.epoch = epoch]

Ended(q, state, reason) == [q EXCEPT !.state = state, !.reason = reason]

\* _finish_reason of the token just appended; "none" for None.
FinishReason(q) ==
    LET t == Last(q.out)
    IN  IF t \in q.kind.stop THEN "STOP"
        ELSE IF ~q.kind.ignoreEos /\ t \in EosIds THEN "EOS"
        ELSE IF Len(q.out) >= q.kind.maxNew THEN "LENGTH"
        ELSE "none"

-----------------------------------------------------------------------------
(* Calls between steps. *)

\* A client thread builds the GenerationRequest, which takes its created_ns.
\* Ids are fresh: which unused one is taken does not matter.
Create(k) ==
    LET r == CHOOSE x \in Req \ Created : TRUE
    IN  /\ pc = "idle" /\ Created # Req
        /\ InOrder => \A x \in Created : req[x].queued
        /\ req' = [req EXCEPT ![r] =
              [state |-> "WAITING", kind |-> k, arrival |-> Cardinality(Created) + 1,
               queued |-> FALSE, out |-> << >>, next |-> NoToken, prefilled |-> 0,
               cachedNext |-> NoToken, resuming |-> FALSE, recomputing |-> FALSE,
               yields |-> 0, epoch |-> 0, reason |-> "none"]]
        /\ UNCHANGED <<mem, waiting, active, order, epoch, pc, todo, rows, plans>>

\* scheduler.submit.  The worker drains its inbox in FIFO order; client threads
\* that built their requests in one order may have enqueued them in another.
Submit(r) ==
    /\ pc = "idle" /\ r \in Created /\ ~req[r].queued
    /\ IF Len(waiting) >= MaxWaiting
       THEN /\ req' = [req EXCEPT ![r] = [Ended(@, "REJECTED", "QUEUE_FULL")
                                            EXCEPT !.queued = TRUE]]
            /\ UNCHANGED waiting
       ELSE /\ req' = [req EXCEPT ![r].queued = TRUE]
            /\ waiting' = Append(waiting, r)
    /\ UNCHANGED <<mem, active, order, epoch, pc, todo, rows, plans>>

\* The active request r leaves for good: pages back, epoch forward.
\* m is the memory the caller has already changed.
Retire(m, r, q) ==
    /\ mem' = Drop(m, r)
    /\ req' = [req EXCEPT ![r] = q]
    /\ active' = Without(active, r)
    /\ order' = Without(order, r)
    /\ epoch' = epoch + 1
    /\ UNCHANGED waiting

\* Mutant: cancelling does not look whether the request is still there.
CancelUnchecked(r) ==
    /\ pc = "idle" /\ r \in Created /\ req[r].queued /\ r \notin ToSet(active)
    /\ waiting' = Without(waiting, r)
    /\ req' = [req EXCEPT ![r] = Ended(@, "CANCELLED", "CANCELLED_BY_CLIENT")]
    /\ UNCHANGED <<mem, active, order, epoch, pc, todo, rows, plans>>

Cancel(r) ==
    /\ pc = "idle"
    /\ \/ /\ r \in ToSet(waiting)
          /\ waiting' = Without(waiting, r)
          /\ req' = [req EXCEPT ![r] = Ended(@, "CANCELLED", "CANCELLED_BY_CLIENT")]
          /\ UNCHANGED <<mem, active, order, epoch>>
       \/ /\ r \in ToSet(active)
          /\ Retire(mem, r, Ended(req[r], "CANCELLED", "CANCELLED_BY_CLIENT"))
    /\ UNCHANGED <<pc, todo, rows, plans>>

-----------------------------------------------------------------------------
(* Capacity. *)

\* Mutant: the oldest request is the victim.
OldestActive == CHOOSE r \in ToSet(active) : \A x \in ToSet(active) : ~Older(x, r)

\* newest_active: ages are created_ns, not the order of admission.
NewestActive == CHOOSE r \in ToSet(active) : \A x \in ToSet(active) : ~Older(r, x)

\* Mutant: a yielded request goes to the back of the queue.
RequeuedLast(r) == Append(waiting, r)

\* _requeue_in_arrival_order: before the first later arrival.
Requeued(r) ==
    LET later == {i \in 1 .. Len(waiting) : Older(r, waiting[i])}
    IN  IF later = {} THEN Append(waiting, r) ELSE InsertAt(waiting, Min(later), r)

Preempt(m, r) ==
    /\ mem' = Drop(m, r)
    /\ req' = [req EXCEPT ![r] = Preempted(@)]
    /\ active' = Without(active, r)
    /\ order' = Without(order, r)
    /\ waiting' = Requeued(r)
    /\ UNCHANGED epoch

\* One turn of _acquire_capacity for the head r of todo inside
\* _capacity_or_fail: r gets its pages (Got), or a newer request yields and r
\* tries again, or r yields itself, or, alone, fails.
Acquire(r, target, Got) ==
    \E c \in {EnsureKV(mem, r, target)}, v \in {NewestActive} :
        \/ /\ c.ok
           /\ mem' = c.m
           /\ Got
           /\ todo' = Tail(todo)
           /\ UNCHANGED <<req, waiting, active, order, epoch>>
        \/ /\ ~c.ok /\ v # r
           /\ Preempt(c.m, v)
           /\ UNCHANGED <<todo, rows, plans>>
        \/ /\ ~c.ok /\ v = r /\ Len(active) > 1
           /\ Preempt(c.m, r)
           /\ todo' = Tail(todo)
           /\ UNCHANGED <<rows, plans>>
        \/ /\ ~c.ok /\ v = r /\ Len(active) <= 1
           /\ Retire(c.m, r, Ended(req[r], "FAILED", "KV_POOL_EXHAUSTED"))
           /\ todo' = Tail(todo)
           /\ UNCHANGED <<rows, plans>>

-----------------------------------------------------------------------------
(* step(): the decode rows. *)

\* The one sequence of the requests S from the oldest to the newest.
ByAge(S) ==
    {s \in [1 .. Cardinality(S) -> S] :
        \A i, j \in 1 .. Cardinality(S) : i < j => Older(s[i], s[j])}

BeginStep ==
    /\ pc = "idle" /\ (waiting # << >> \/ active # << >>)   \* has_unfinished_requests
    /\ todo' \in ByAge({r \in ToSet(active) : req[r].state = "DECODING"})
    /\ pc' = "decodeCap"
    /\ UNCHANGED <<sched, rows, plans>>

DecodeRowCapacity ==
    /\ pc = "decodeCap" /\ todo # << >>
    /\ LET r == Head(todo)
       IN  \/ /\ req[r].state = "DECODING"
              /\ Acquire(r, mem.len[r] + 1, rows' = Append(rows, r) /\ UNCHANGED plans)
           \/ /\ req[r].state # "DECODING"    \* preempted earlier in this loop
              /\ todo' = Tail(todo)
              /\ UNCHANGED <<sched, rows, plans>>
    /\ UNCHANGED pc

StillDecoding(s) == Keep(s, {r \in Req : req[r].state = "DECODING"})

DecodeRowsReady ==
    /\ pc = "decodeCap" /\ todo = << >>
    /\ rows' = StillDecoding(rows)
    /\ pc' = IF ~Fused /\ rows' # << >> THEN "decode" ELSE "admit"
    /\ UNCHANGED <<sched, todo, plans>>

\* The rows of one forward pass write their slots, each into its own pages.
ForwardAll(m, work) ==
    LET f[i \in 0 .. Len(work)] ==
            IF i = 0 THEN m
            ELSE Forward(f[i - 1], work[i].r, work[i].from, work[i].toks)
    IN  f[Len(work)]

DecodeWork == [i \in 1 .. Len(rows) |->
                 [r |-> rows[i], from |-> mem.len[rows[i]], toks |-> <<req[rows[i]].next>>]]

PrefillWork == [i \in 1 .. Len(plans) |->
                 LET r == plans[i][1]
                     n == req[r].prefilled
                 IN  [r |-> r, from |-> n,
                      toks |-> SubSeq(PrefillIds(req[r]), n + 1, n + plans[i][2])]]

DecodeForward ==
    /\ pc = "decode"
    /\ mem' = ForwardAll(mem, DecodeWork)
    /\ todo' = rows
    /\ pc' = "commitD"
    /\ UNCHANGED <<req, waiting, active, order, epoch, rows, plans>>

\* The token the sampler returns for r once its KV covers n positions.
Sampled(r, n) == IF req[r].kind.greedy THEN {Model(Context(mem, r, n))} ELSE Token

\* append_token, then finish if the token ends the request.
AppendToken(m, r, q) ==
    LET reason == FinishReason(q)
    IN  IF reason = "none"
        THEN /\ mem' = m
             /\ req' = [req EXCEPT ![r] = q]
             /\ UNCHANGED <<waiting, active, order, epoch>>
        ELSE Retire(m, r, Ended(q, "FINISHED", reason))

CommitDecodeRow ==
    /\ pc = "commitD" /\ todo # << >>
    /\ LET r == Head(todo)
           m == Commit(mem, r, 1)
       IN  \E t \in Sampled(r, m.len[r]) :
               AppendToken(m, r, [req[r] EXCEPT !.next = t, !.out = Append(@, t)])
    /\ todo' = Tail(todo)
    /\ UNCHANGED <<pc, rows, plans>>

DecodeCommitted ==
    /\ pc = "commitD" /\ todo = << >>
    /\ pc' = IF Fused THEN "commitP" ELSE "admit"
    /\ todo' = IF Fused THEN plans ELSE << >>
    /\ rows' = << >>
    /\ UNCHANGED <<sched, plans>>

-----------------------------------------------------------------------------
(* step(): admission. *)

\* Admission looks at the head q of the queue while a request slot is free.
AdmitsHead == pc = "admit" /\ waiting # << >> /\ Len(active) < MaxActive

\* reserved_tokens against effective_capacity_tokens
Fits(q) == Len(q.kind.prompt) + q.kind.maxNew <= (NumBlocks - Reserved) * BlockSize

\* Mutant: the gate of a yielded request never opens.
HeldForever(q) == q.recomputing

\* Nothing was released since q yielded, and somebody still runs.
Held(q) == q.recomputing /\ q.epoch >= epoch /\ active # << >>

RejectHead ==
    LET r == Head(waiting)
    IN  /\ AdmitsHead /\ ~Fits(req[r])
        /\ waiting' = Tail(waiting)
        /\ req' = [req EXCEPT ![r] = Ended(@, "REJECTED", "KV_CAPACITY_EXCEEDED")]
        /\ UNCHANGED <<mem, active, order, epoch, pc, todo, rows, plans>>

\* Mutant: the tokens found in the cache are not counted as prefilled.
EnterUncounted(r, m, count, next) ==
    /\ mem' = m
    /\ req' = [req EXCEPT ![r].state = "PREFILLING", ![r].cachedNext = next]
    /\ waiting' = Tail(waiting)
    /\ active' = Append(active, r)
    /\ order' = Append(order, r)
    /\ todo' = Append(todo, r)
    /\ UNCHANGED <<epoch, pc>>

\* The head joins the active set; todo collects the requests admitted in this step.
Enter(r, m, count, next) ==
    /\ mem' = m
    /\ req' = [req EXCEPT ![r].state = "PREFILLING", ![r].prefilled = count,
                          ![r].cachedNext = next]
    /\ waiting' = Tail(waiting)
    /\ active' = Append(active, r)
    /\ order' = Append(order, r)
    /\ todo' = Append(todo, r)
    /\ UNCHANGED <<epoch, pc>>

\* One turn of admit_available for a head that may be tried: attach what the
\* cache has, else reserve a first page, evicting once if there is none.
AdmitHead ==
    LET r == Head(waiting)
        ids == PrefillIds(req[r])
        n == Min({Len(ids), BlockSize})
    IN  /\ AdmitsHead /\ Fits(req[r]) /\ ~Held(req[r])
        /\ \E hit \in {Lookup(mem, ids, req[r].kind.greedy)} :
           \E e \in {IF CanReserve(hit.m, n) THEN hit.m ELSE EvictUntilFree(hit.m, 1)} :
              \/ /\ hit.count > 0
                 /\ Enter(r, AttachPrefix(hit.m, r, hit.blocks, hit.count),
                          hit.count, hit.next)
              \/ /\ hit.count = 0 /\ CanReserve(e, n)
                 /\ Enter(r, Reserve(e, r, n), 0, NoToken)
              \/ /\ hit.count = 0 /\ ~CanReserve(e, n)
                 /\ mem' = e
                 /\ pc' = "exact"
                 /\ UNCHANGED <<req, waiting, active, order, epoch, todo>>
        /\ UNCHANGED <<rows, plans>>

\* The queue is empty or held, or every request slot is taken.
AdmissionEnds ==
    /\ pc = "admit"
    /\ AdmitsHead => Fits(req[Head(waiting)]) /\ Held(req[Head(waiting)])
    /\ pc' = "exact"
    /\ UNCHANGED <<sched, todo, rows, plans>>

\* _complete_prefill with the predicted token t.
CompletePrefill(m, r, q, t) ==
    IF q.resuming
    THEN \* the prediction is dropped: the last generated token is the next input
         /\ mem' = Publish(m, r, q.kind.prompt, NoToken)
         /\ req' = [req EXCEPT ![r] =
               [q EXCEPT !.state = "DECODING", !.next = Last(q.out),
                         !.recomputing = FALSE, !.resuming = FALSE,
                         !.prefilled = Len(q.kind.prompt)]]
         /\ UNCHANGED <<waiting, active, order, epoch>>
    ELSE IF t = NoToken
    THEN Retire(m, r, Ended(q, "FAILED", "INVALID_PREFIX_ENTRY"))
    ELSE AppendToken(Publish(m, r, q.kind.prompt, IF q.kind.greedy THEN t ELSE NoToken), r,
                     [q EXCEPT !.state = "DECODING", !.next = t, !.recomputing = FALSE,
                               !.out = Append(@, t)])

ExactHit ==
    /\ pc = "exact" /\ todo # << >>
    /\ LET r == Head(todo)
       IN  IF Remaining(req[r]) = 0
           THEN CompletePrefill(mem, r, req[r], req[r].cachedNext)
           ELSE UNCHANGED sched
    /\ todo' = Tail(todo)
    /\ UNCHANGED <<pc, rows, plans>>

ExactDone ==
    /\ pc = "exact" /\ todo = << >>
    /\ pc' = "plan"
    /\ UNCHANGED <<sched, todo, rows, plans>>

-----------------------------------------------------------------------------
(* step(): prefill. *)

\* One visit of plan_prefill's loop, which stops when the budget is gone:
\* the plan, the budget left, and how many requests were rotated to the back.
PlanVisit(p, r) ==
    LET n == IF req[r].state = "PREFILLING"
             THEN Min({Remaining(req[r]), ChunkSize, p.left}) ELSE 0
    IN  IF p.left = 0 THEN p
        ELSE [plan   |-> IF n > 0 THEN Append(p.plan, <<r, n>>) ELSE p.plan,
              left   |-> p.left - n,
              visits |-> p.visits + 1]

\* plan_prefill over the requests s
PlanOf(s) ==
    LET f[i \in 0 .. Len(s)] ==
            IF i = 0 THEN [plan |-> << >>, left |-> Budget, visits |-> 0]
            ELSE PlanVisit(f[i - 1], s[i])
    IN  f[Len(s)]

PlanPrefill ==
    /\ pc = "plan"
    /\ LET p == PlanOf(order)
       IN  /\ plans' = p.plan
           /\ todo' = p.plan
           /\ order' = SubSeq(order, p.visits + 1, Len(order)) \o SubSeq(order, 1, p.visits)
    /\ pc' = "prefillCap"
    /\ UNCHANGED <<mem, req, waiting, active, epoch, rows>>

PrefillChunkCapacity ==
    /\ pc = "prefillCap" /\ todo # << >>
    /\ LET r == Head(todo)[1]
       IN  \/ /\ req[r].state = "PREFILLING"
              /\ Acquire(r, req[r].prefilled + Head(todo)[2], UNCHANGED <<rows, plans>>)
           \/ /\ req[r].state # "PREFILLING"
              /\ todo' = Tail(todo)
              /\ UNCHANGED <<sched, rows, plans>>
    /\ UNCHANGED pc

PrefillChunksReady ==
    /\ pc = "prefillCap" /\ todo = << >>
    /\ plans' = Keep(plans, {p \in ToSet(plans) : req[p[1]].state = "PREFILLING"})
    /\ rows' = StillDecoding(rows)
    /\ pc' = IF plans' = << >> /\ rows' = << >> THEN "idle" ELSE "forward"
    /\ UNCHANGED <<sched, todo>>

\* Decode rows (fused step only) and chunks in one forward.
FusedForward ==
    /\ pc = "forward"
    /\ mem' = ForwardAll(mem, DecodeWork \o PrefillWork)
    /\ pc' = IF Fused THEN "commitD" ELSE "commitP"
    /\ todo' = IF Fused THEN rows ELSE plans
    /\ UNCHANGED <<req, waiting, active, order, epoch, rows, plans>>

CommitPrefillChunk ==
    /\ pc = "commitP" /\ todo # << >>
    /\ LET r == Head(todo)[1]
           n == Head(todo)[2]
           m == Commit(mem, r, n)
           q == [req[r] EXCEPT !.prefilled = @ + n]
       IN  IF Remaining(q) = 0
           THEN \E t \in Sampled(r, m.len[r]) : CompletePrefill(m, r, q, t)
           ELSE /\ mem' = m
                /\ req' = [req EXCEPT ![r] = q]
                /\ UNCHANGED <<waiting, active, order, epoch>>
    /\ todo' = Tail(todo)
    /\ UNCHANGED <<pc, rows, plans>>

EndStep ==
    /\ pc = "commitP" /\ todo = << >>
    /\ pc' = "idle" /\ plans' = << >> /\ rows' = << >>
    /\ UNCHANGED <<sched, todo>>

-----------------------------------------------------------------------------
Step ==
    \/ BeginStep \/ DecodeRowCapacity \/ DecodeRowsReady \/ DecodeForward
    \/ CommitDecodeRow \/ DecodeCommitted
    \/ RejectHead \/ AdmitHead \/ AdmissionEnds \/ ExactHit \/ ExactDone
    \/ PlanPrefill \/ PrefillChunkCapacity \/ PrefillChunksReady
    \/ FusedForward \/ CommitPrefillChunk \/ EndStep

\* The worker is inside step(), or has_unfinished_requests.
Busy == pc # "idle" \/ waiting # << >> \/ active # << >>

\* Nothing to do: the worker loop waits for its wake event.
WaitForWork == ~Busy /\ UNCHANGED vars

Next ==
    \/ \E k \in Workload : Create(k)
    \/ \E r \in Req : Submit(r) \/ Cancel(r)
    \/ Step
    \/ WaitForWork

\* The worker loop calls step as long as it has unfinished requests.  This is
\* weak fairness of Step with ENABLED Step written out as Busy; that Step is
\* enabled whenever Busy holds is the absence of deadlock.
WorkerRuns == []<>~Busy \/ []<><<Step>>_vars

Spec == Init /\ [][Next]_vars /\ WorkerRuns

-----------------------------------------------------------------------------
(* What the worker promises. *)

Live == {r \in Created : req[r].state \in {"PREFILLING", "DECODING"}}

TypeOK ==
    /\ mem.pool \in Pool
    /\ \A r \in Created :
          /\ req[r].state \in State
          /\ req[r].kind \in Workload
          /\ req[r].out \in Seq(Token)
          /\ req[r].next \in Token \cup {NoToken}
          /\ req[r].prefilled \in Nat /\ req[r].yields \in Nat
    /\ waiting \in Seq(Created) /\ active \in Seq(Created) /\ order \in Seq(Created)
    /\ plans \in Seq(Created \X (1 .. ChunkSize)) /\ epoch \in Nat

(***************************************************************************)
(* The keys and values a request attends to are those of its own prompt    *)
(* and output, and a cached page still holds what it was published with:   *)
(* across sharing, copy-on-write, eviction, preemption and the rebuild of  *)
(* a resumed request (prompt plus generated tokens).                       *)
(***************************************************************************)
KVIntegrity ==
    /\ \A r \in Live :
          ReadsBack(mem, r, req[r].kind.prompt \o req[r].out, mem.len[r])
    /\ CacheReadsBack(mem)

\* The sequence after n steps of greedy decoding with nobody else around.
Solo(prompt, n) ==
    LET f[i \in 0 .. n] == IF i = 0 THEN prompt ELSE Append(f[i - 1], Model(f[i - 1]))
    IN  f[n]

(***************************************************************************)
(* Token identity: whatever was batched, cached, chunked or preempted, the *)
(* output of a greedy request is the one it would get alone, it stops at   *)
(* the first token that ends it and no earlier.                            *)
(***************************************************************************)
SoloOutput ==
    \A r \in Created :
        LET q == req[r]
            n == Len(q.out)
        IN  /\ q.kind.greedy => q.kind.prompt \o q.out = Solo(q.kind.prompt, n)
            /\ \A i \in 1 .. n - 1 : FinishReason([q EXCEPT !.out = Prefix(q.out, i)]) = "none"
            /\ q.state = "FINISHED" => n > 0 /\ FinishReason(q) = q.reason

(***************************************************************************)
(* The request's counters agree with the block manager's: a decoding       *)
(* request has KV for everything but the token it feeds next, a prefilling *)
(* one for exactly the tokens counted as prefilled.  The exceptions that   *)
(* append_token, advance_prefill and transition raise guard this relation. *)
(***************************************************************************)
CountersAgree ==
    \A r \in Live :
        LET q == req[r]
        IN  /\ mem.len[r] <= Len(Table(mem, r)) * BlockSize
            /\ q.state = "DECODING" =>
                 /\ mem.len[r] = Len(q.kind.prompt) + Len(q.out) - 1
                 /\ q.next = Last(q.out) /\ Len(q.out) < q.kind.maxNew
            /\ q.state = "PREFILLING" =>
                 /\ mem.len[r] = q.prefilled
                 /\ q.prefilled <= Len(PrefillIds(q))

(***************************************************************************)
(* No page leaks and none is freed early: pages belong to active requests, *)
(* to cache entries or to the padded graph rows, the reference counts say  *)
(* so, and each scheduler container holds exactly the requests whose state *)
(* says they are in it.                                                    *)
(***************************************************************************)
PagesAccounted ==
    /\ Consistent(mem.pool) /\ CacheRefsExact(mem)
    /\ \A r \in Req : (Table(mem, r) # << >>) <=> (r \in ToSet(active))
    /\ ToSet(active) = Live
    /\ ToSet(waiting) = {r \in Created : req[r].queued /\ req[r].state = "WAITING"}
    /\ IsInjective(waiting) /\ IsInjective(active)
    /\ IsInjective(order) /\ ToSet(order) = ToSet(active)

(***************************************************************************)
(* FCFS: when requests arrive in the order they were created, every active *)
(* request is older than every waiting one and the queue is sorted, across *)
(* preemption and readmission (policy 1 and 6 of scheduler.py).            *)
(***************************************************************************)
ArrivalOrderKept ==
    /\ \A a \in ToSet(active), w \in ToSet(waiting) : Older(a, w)
    /\ \A i, j \in 1 .. Len(waiting) : i < j => Older(waiting[i], waiting[j])

(***************************************************************************)
(* Recompute is bounded (policy 3 and 4): a request yields at most once    *)
(* per progress epoch, so at most once per terminated request, plus one.   *)
(***************************************************************************)
YieldsBounded ==
    \A r \in Created : req[r].yields > 0 => req[r].yields <= req[r].epoch + 1

(***************************************************************************)
(* The books of the engine balance between any two of its steps: request   *)
(* counters, sequence lengths, pages, containers and cache references.     *)
(***************************************************************************)
EngineConsistent == TypeOK /\ CountersAgree /\ PagesAccounted

(***************************************************************************)
(* FCFS with bounded recompute, across yields and readmissions.            *)
(***************************************************************************)
FirstComeFirstServed == ArrivalOrderKept /\ YieldsBounded

(***************************************************************************)
(* Policy 5: a request that fits the effective capacity and is admitted    *)
(* can be served once it is alone, so KV_POOL_EXHAUSTED never happens.     *)
(***************************************************************************)
AdmittedIsServed == \A r \in Created : req[r].reason # "KV_POOL_EXHAUSTED"

(***************************************************************************)
(* Policy 6: a yielded request never stands ahead of an older one that     *)
(* still waits for its first admission.                                    *)
(***************************************************************************)
NoOvertaking ==
    \A i, j \in 1 .. Len(waiting) :
        (i < j /\ req[waiting[i]].yields > 0 /\ req[waiting[j]].yields = 0)
            => Older(waiting[i], waiting[j])

(***************************************************************************)
(* Policy 1: whoever yields leaves an older active request behind, so the  *)
(* oldest active request is never displaced.                               *)
(***************************************************************************)
OldestNeverYields ==
    [][\A r \in Created :
          (r \in ToSet(active) /\ req'[r].state = "WAITING")
              => \E x \in ToSet(active') : Older(x, r)]_vars

Allowed == [new        |-> {"WAITING"},
            WAITING    |-> {"PREFILLING", "CANCELLED", "REJECTED"},
            PREFILLING |-> {"DECODING", "FINISHED", "WAITING", "CANCELLED", "FAILED"},
            DECODING   |-> {"FINISHED", "WAITING", "CANCELLED", "FAILED"}]

(***************************************************************************)
(* No step takes a transition that request.transition refuses (a raise     *)
(* there ends the worker), output is only ever appended to, and what a     *)
(* terminal request says of itself is final.  (PREFILLING to FINISHED is   *)
(* _complete_prefill's DECODING and finish in one step.)                   *)
(***************************************************************************)
LegalTransitions ==
    [][\A r \in Req :
          /\ req'[r].state # req[r].state =>
               req[r].state \notin Terminal /\ req'[r].state \in Allowed[req[r].state]
          /\ r \in Created => IsPrefix(req[r].out, req'[r].out)
          /\ req[r].state \in Terminal => req'[r] = req[r]]_vars

(***************************************************************************)
(* Nobody starves: under fairness of the worker's loop alone, every queued *)
(* request reaches a terminal state.  (Terminal states are final and the   *)
(* requests are finitely many, so it is enough that there is always a      *)
(* later moment without a pending one.)                                    *)
(***************************************************************************)
EveryRequestEnds ==
    []<>(\A r \in Created : req[r].queued => req[r].state \in Terminal)

=============================================================================
