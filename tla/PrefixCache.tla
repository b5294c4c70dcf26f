----------------------------- MODULE PrefixCache -----------------------------
(***************************************************************************)
(* The prefix cache and the block manager under every order of calls that  *)
(* requests can make of them: requests come and go, share cached blocks,   *)
(* compute what is missing, publish their prompts, grow by decoding into   *)
(* possibly shared tails, and take capacity from the cache.  The scheduler *)
(* that restricts these orders is in Engine.                               *)
(***************************************************************************)
EXTENDS PagedKV

CONSTANT MaxLen    \* longest sequence a request grows to (bounds decoding)

VARIABLES mem,    \* the PagedKV record
          seq,    \* the tokens a request is about: prompt, then generated ones
          phase   \* "out", "prefill", "publish" or "decode"

vars == <<mem, seq, phase>>

Init == /\ mem = InitMem
        /\ seq = [r \in Req |-> << >>]
        /\ phase = [r \in Req |-> "out"]

\* What admit_available does for the head request (lookup and attach, or a
\* first page, after one attempt at eviction).
Admit(r, p, allowExact) ==
    LET hit == Lookup(mem, p, allowExact)
        n == IF Len(p) < BlockSize THEN Len(p) ELSE BlockSize
        e == IF CanReserve(hit.m, n) THEN hit.m ELSE EvictUntilFree(hit.m, 1)
    IN  /\ phase[r] = "out"
        /\ \/ /\ hit.count > 0
              /\ mem' = AttachPrefix(hit.m, r, hit.blocks, hit.count)
              /\ phase' = [phase EXCEPT ![r] = IF hit.count = Len(p) THEN "publish"
                                                                     ELSE "prefill"]
              /\ seq' = [seq EXCEPT ![r] = p]
           \/ /\ hit.count = 0 /\ CanReserve(e, n)
              /\ mem' = Reserve(e, r, n)
              /\ phase' = [phase EXCEPT ![r] = "prefill"]
              /\ seq' = [seq EXCEPT ![r] = p]
           \/ /\ hit.count = 0 /\ ~CanReserve(e, n)
              /\ mem' = e
              /\ UNCHANGED <<seq, phase>>

\* Compute n more prompt positions, if the pages can be had.
Prefill(r, n) ==
    LET done == mem.len[r]
        c == EnsureKV(mem, r, done + n)
    IN  /\ phase[r] = "prefill"
        /\ IF c.ok
           THEN /\ mem' = Commit(Forward(c.m, r, done, SubSeq(seq[r], done + 1, done + n)), r, n)
                /\ phase' = [phase EXCEPT ![r] = IF done + n = Len(seq[r]) THEN "publish"
                                                                           ELSE @]
           ELSE mem' = c.m /\ UNCHANGED phase
        /\ UNCHANGED seq

\* The greedy next token: one fixed token per prompt is all that matters here.
Predicted == CHOOSE t \in Token : TRUE

\* _publish_prefix: only a plain greedy request caches the predicted token.
PublishPrompt(r, next) ==
    /\ phase[r] = "publish"
    /\ mem' = Publish(mem, r, seq[r], next)
    /\ phase' = [phase EXCEPT ![r] = "decode"]
    /\ UNCHANGED seq

\* One decode step: the pending token is written at the next position.
Decode(r, t) ==
    LET c == EnsureKV(mem, r, mem.len[r] + 1)
    IN  /\ phase[r] = "decode" /\ mem.len[r] < MaxLen
        /\ IF c.ok
           THEN /\ mem' = Commit(Forward(c.m, r, mem.len[r], <<t>>), r, 1)
                /\ seq' = [seq EXCEPT ![r] = Append(@, t)]
           ELSE mem' = c.m /\ UNCHANGED seq
        /\ UNCHANGED phase

\* finish, fail, cancel and preempt all return the pages.
Leave(r) ==
    /\ phase[r] # "out"
    /\ mem' = Drop(mem, r)
    /\ seq' = [seq EXCEPT ![r] = << >>]
    /\ phase' = [phase EXCEPT ![r] = "out"]

Next ==
    \E r \in Req :
        \/ \E p \in Prompts, b \in BOOLEAN : Admit(r, p, b)
        \/ \E n \in 1 .. Len(seq[r]) - mem.len[r] : Prefill(r, n)
        \/ \E t \in {Predicted, NoToken} : PublishPrompt(r, t)
        \/ \E t \in Token : Decode(r, t)
        \/ Leave(r)

Spec == Init /\ [][Next]_vars

-----------------------------------------------------------------------------
TypeOK ==
    /\ mem.pool \in Pool
    /\ mem.len \in [Req -> Nat]
    /\ mem.crefs \in [Block -> Nat]
    /\ phase \in [Req -> {"out", "prefill", "publish", "decode"}]

(***************************************************************************)
(* No request ever reads another sequence's keys and values: whatever was  *)
(* shared, published, copied on write or evicted in between, the committed *)
(* positions of each request's table read back as its own tokens.          *)
(***************************************************************************)
RequestsReadBack ==
    \A r \in Req : phase[r] # "out" => ReadsBack(mem, r, seq[r], mem.len[r])

(***************************************************************************)
(* Cached pages are immutable: no decode of the publishing or of a sharing *)
(* request changes what a radix node or an exact entry stands for.         *)
(***************************************************************************)
CacheImmutable == CacheReadsBack(mem)

(***************************************************************************)
(* _references, kept incrementally through publish and eviction, equals a  *)
(* rebuild from the entries; _is_freeable compares it with the allocator's *)
(* counters, which must be exact as well.                                  *)
(***************************************************************************)
ReferencesExact == CacheRefsExact(mem) /\ Consistent(mem.pool)

(***************************************************************************)
(* Publishing leaves the cache within max_blocks distinct physical blocks. *)
(***************************************************************************)
WithinBudget == Cardinality(CachedBlocks(mem)) <= CacheBlocks

(***************************************************************************)
(* Eviction order keeps the tree reachable from its root.                  *)
(***************************************************************************)
TreeReachable == RadixClosed(mem)

(***************************************************************************)
(* The books of the cache balance after any order of publishing, sharing   *)
(* and eviction: its incremental reference counts, its budget and its      *)
(* tree.                                                                   *)
(***************************************************************************)
CacheConsistent == TypeOK /\ ReferencesExact /\ WithinBudget /\ TreeReachable

(***************************************************************************)
(* evict_until_free says it leaves alone the entries whose blocks active   *)
(* requests still reference.  So asking for the whole pool must leave no   *)
(* block that only the cache holds.  It does not: a freeable inner node is *)
(* no candidate while a pinned descendant hangs below it.                  *)
(***************************************************************************)
EvictionReclaimsUnpinned ==
    LET e == EvictUntilFree(mem, NumBlocks)
    IN  \A b \in CachedBlocks(e) : e.pool.refs[b] > e.crefs[b]

=============================================================================
