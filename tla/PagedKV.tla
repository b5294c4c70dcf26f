------------------------------- MODULE PagedKV -------------------------------
(***************************************************************************)
(* The paged KV memory as operators on one record: the block tables and    *)
(* lengths of KVBlockManager (src/engine/cache/paging.py), the radix and   *)
(* exact entries of PrefixCache (src/engine/cache/prefix.py), the engine's *)
(* capacity helpers (src/engine/batching/continuous_batching.py), and what *)
(* the physical pages contain.                                             *)
(*                                                                         *)
(*   pool   the BlockPool record; a request's table is pool.owns[r]        *)
(*   len    sequence_length of each request's allocation                   *)
(*   lru    the cache's owners by last_access, least recently used first   *)
(*          (the clock never repeats, so the order is all that eviction    *)
(*          reads of it)                                                   *)
(*   crefs  _references: how many cache owners name each block             *)
(*   pred   next_token_id of each exact entry                              *)
(*   kv     what each slot of each page holds: the keys and values of a    *)
(*          position depend on every token up to it, so a slot holds that  *)
(*          token prefix; << >> is a slot whose content nobody may read    *)
(*                                                                         *)
(* A radix node is named by its token path (every node's parent is in the  *)
(* tree, RadixClosed below, so node ids add nothing), an exact entry by    *)
(* its token sequence.                                                     *)
(***************************************************************************)
EXTENDS Integers, Sequences, FiniteSets, Filters

CONSTANTS Req,          \* request ids
          Token,        \* the vocabulary
          Prompts,      \* the prompts that can be published
          NumBlocks,    \* num_blocks
          BlockSize,    \* block_size_tokens
          CacheBlocks,  \* max_blocks of the prefix cache
          Reserved,     \* pages held by the padded CUDA-Graph rows
          NoToken       \* None where a token id could be

\* request.py refuses an empty prompt.
ASSUME KVAssumption == /\ IsFiniteSet(Req) /\ IsFiniteSet(Prompts)
                       /\ Prompts \subseteq Seq(Token) \ {<< >>}
                       /\ NumBlocks \in Nat \ {0}
                       /\ BlockSize \in Nat \ {0}
                       /\ CacheBlocks \in Nat
                       /\ Reserved \in 0 .. NumBlocks - 1

Prefix(s, n) == SubSeq(s, 1, n)

BlocksFor(n) == (n + BlockSize - 1) \div BlockSize

NodePath == UNION {{Prefix(p, k * BlockSize) : k \in 1 .. Len(p) \div BlockSize} :
                      p \in Prompts}

NodeOwner(path) == <<"node", path>>
ExactOwner(s) == <<"exact", s>>
DummyOwner == <<"graph", << >> >>

CacheOwner == {NodeOwner(p) : p \in NodePath} \cup {ExactOwner(s) : s \in Prompts}
PageOwner == Req \cup CacheOwner \cup {DummyOwner}

\* The cache owns pages under objects of its own (_CacheOwner, _ExactOwner), the
\* graph rows under a string no request is given as its id.
ASSUME OwnerAssumption == Req \cap (CacheOwner \cup {DummyOwner}) = {}

INSTANCE BlockPool WITH Owner <- PageOwner

Slots == 0 .. BlockSize - 1
Blank == [i \in Slots |-> << >>]

\* The blocks n pops return.
Take(p, n) == CHOOSE s \in Popped(p, n) : TRUE

FreeCount(m) == Cardinality(m.pool.free)

\* A page that goes back to the free list may be overwritten by anybody.
WithPool(m, p) ==
    [m EXCEPT !.pool = p,
              !.kv = [b \in Block |-> IF b \in p.free THEN Blank ELSE m.kv[b]]]

InitMem ==
    [pool  |-> IF Reserved = 0 THEN EmptyPool
               ELSE Grant(EmptyPool, DummyOwner, Take(EmptyPool, Reserved)),
     len   |-> [r \in Req |-> 0],
     lru   |-> << >>,
     crefs |-> [b \in Block |-> 0],
     pred  |-> [s \in Prompts |-> NoToken],
     kv    |-> [b \in Block |-> Blank]]

-----------------------------------------------------------------------------
(* Reading and writing pages. *)

Table(m, r) == m.pool.owns[r]

\* physical_location: logical position p (from 1) of r's table.
Slot(m, r, p) ==
    m.kv[Table(m, r)[((p - 1) \div BlockSize) + 1]][(p - 1) % BlockSize]

\* What attention over r's first n positions sees: the tokens, if every slot
\* holds the keys and values of that position of one sequence.
Context(m, r, n) ==
    IF n = 0 THEN << >>
    ELSE LET c == Slot(m, r, n)
         IN  IF Len(c) = n /\ \A q \in 1 .. n : Slot(m, r, q) = Prefix(c, q)
             THEN c ELSE [i \in 1 .. n |-> NoToken]

\* A forward pass over the tokens ts at the positions after n: position by
\* position, attend to what is there and store the new keys and values.
Forward(m, r, n, ts) ==
    LET put(k, t, ctx) ==
            [k EXCEPT ![Table(m, r)[(Len(ctx) \div BlockSize) + 1]]
                         [Len(ctx) % BlockSize] = Append(ctx, t)]
        f[i \in 0 .. Len(ts)] ==
            IF i = 0 THEN m
            ELSE [f[i - 1] EXCEPT
                    !.kv = put(f[i - 1].kv, ts[i], Context(f[i - 1], r, n + i - 1))]
    IN  f[Len(ts)]

-----------------------------------------------------------------------------
(* KVBlockManager. *)

CanReserve(m, n) == BlocksFor(n) <= FreeCount(m)

Reserve(m, r, n) ==
    [m EXCEPT !.pool = Grant(@, r, Take(@, BlocksFor(n))), !.len[r] = 0]

AttachPrefix(m, r, blocks, n) ==
    [m EXCEPT !.pool = Attach(@, r, blocks), !.len[r] = n]

CanGrow(m, r, target) ==
    BlocksFor(target) - Len(Table(m, r)) <= FreeCount(m)

\* ensure_capacity
Grow(m, r, target) ==
    LET extra == BlocksFor(target) - Len(Table(m, r))
    IN  IF extra <= 0 THEN m
        ELSE [m EXCEPT !.pool = Grant(@, r, Take(@, extra))]

\* append_tokens after the capacity was acquired
Commit(m, r, n) == [m EXCEPT !.len[r] = @ + n]

Drop(m, r) == [WithPool(m, Release(m.pool, r)) EXCEPT !.len[r] = 0]

\* Mutant: the private tail is handed out without copying the page.
CopyTailSkipsCopy(m, r) ==
    [m EXCEPT !.pool = Replace(@, r, Len(Table(m, r)), Take(@, 1)[1])]

\* copy_on_write_tail and the page copy that follows it.
CopyTail(m, r) ==
    LET i == Len(Table(m, r))
        b == Take(m.pool, 1)[1]
    IN  [m EXCEPT !.pool = Replace(@, r, i, b), !.kv[b] = m.kv[Table(m, r)[i]]]

-----------------------------------------------------------------------------
(* PrefixCache. *)

Present(m, o) == m.pool.owns[o] # << >>

Nodes(m) == {p \in NodePath : Present(m, NodeOwner(p))}

Touch(m, o) == [m EXCEPT !.lru = Append(Without(@, o), o)]

TouchAll(m, os) ==
    LET f[i \in 0 .. Len(os)] == IF i = 0 THEN m ELSE Touch(f[i - 1], os[i])
    IN  f[Len(os)]

\* The longest run of complete blocks in the tree, leaving one token to compute.
RadixDepth(m, toks) ==
    LET most == (Len(toks) - 1) \div BlockSize
        hit(k) == \A j \in 1 .. k : Prefix(toks, j * BlockSize) \in Nodes(m)
    IN  CHOOSE k \in 0 .. most : hit(k) /\ \A j \in k + 1 .. most : ~hit(j)

\* lookup: [m |-> the memory after the touches, blocks, count, next].
Lookup(m, toks, allowExact) ==
    LET e == ExactOwner(toks)
        k == RadixDepth(m, toks)
        path == [j \in 1 .. k |-> NodeOwner(Prefix(toks, j * BlockSize))]
    IN  IF allowExact /\ toks \in Prompts /\ Present(m, e)
        THEN [m |-> Touch(m, e), blocks |-> m.pool.owns[e],
              count |-> Len(toks), next |-> m.pred[toks]]
        ELSE [m |-> TouchAll(m, path), blocks |-> [j \in 1 .. k |-> m.pool.owns[path[j]][1]],
              count |-> k * BlockSize, next |-> NoToken]

\* A new cache owner o takes a reference on each of the blocks.
Retain(m, o, blocks) ==
    Touch([m EXCEPT !.pool = Attach(@, o, blocks),
                    !.crefs = [b \in Block |->
                        IF \E i \in 1 .. Len(blocks) : blocks[i] = b
                        THEN @[b] + 1 ELSE @[b]]], o)

IsLeaf(m, path) ==
    ~ \E q \in Nodes(m) : Len(q) = Len(path) + BlockSize /\ Prefix(q, Len(path)) = path

\* Mutant: inner nodes are victims too.
CandidatesInner(m) ==
    {NodeOwner(p) : p \in Nodes(m)} \cup
    {ExactOwner(s) : s \in {q \in Prompts : Present(m, ExactOwner(q))}}

Candidates(m) ==
    {NodeOwner(p) : p \in {q \in Nodes(m) : IsLeaf(m, q)}} \cup
    {ExactOwner(s) : s \in {q \in Prompts : Present(m, ExactOwner(q))}}

\* _is_freeable: some block of the entry has no owner outside the cache.
Freeable(m, o) ==
    \E i \in 1 .. Len(m.pool.owns[o]) :
        LET b == m.pool.owns[o][i] IN m.pool.refs[b] = m.crefs[b]

\* Release the entry o and forget it.
Evict(m, o) ==
    [WithPool(m, Release(m.pool, o)) EXCEPT
        !.lru = Without(@, o),
        !.crefs = [b \in Block |-> IF Holds(m.pool, o, b) THEN @[b] - 1 ELSE @[b]],
        !.pred = IF o[1] = "exact" THEN [@ EXCEPT ![o[2]] = NoToken] ELSE @]

\* _evict_one among cands: the least recently used of them.
EvictLRU(m, cands) ==
    LET i == CHOOSE j \in 1 .. Len(m.lru) :
                 m.lru[j] \in cands /\ \A h \in 1 .. j - 1 : m.lru[h] \notin cands
    IN  Evict(m, m.lru[i])

CachedBlocks(m) == {b \in Block : m.crefs[b] > 0}

EvictToLimit(m) ==
    LET f[i \in 0 .. Len(m.lru)] ==
            IF i = 0 THEN m
            ELSE IF Cardinality(CachedBlocks(f[i - 1])) > CacheBlocks
                 THEN EvictLRU(f[i - 1], Candidates(f[i - 1]))
                 ELSE f[i - 1]
    IN  f[Len(m.lru)]

EvictUntilFree(m, n) ==
    LET freeable(x) == {o \in Candidates(x) : Freeable(x, o)}
        f[i \in 0 .. Len(m.lru)] ==
            IF i = 0 THEN m
            ELSE IF FreeCount(f[i - 1]) < n /\ freeable(f[i - 1]) # {}
                 THEN EvictLRU(f[i - 1], freeable(f[i - 1]))
                 ELSE f[i - 1]
    IN  f[Len(m.lru)]

\* publish: one node per complete block, the exact entry, then the block budget.
Publish(m, r, toks, next) ==
    LET table == Table(m, r)
        node(j) == NodeOwner(Prefix(toks, j * BlockSize))
        complete == IF Len(toks) \div BlockSize < Len(table)
                    THEN Len(toks) \div BlockSize ELSE Len(table)
        f[j \in 0 .. complete] ==
            IF j = 0 THEN m
            ELSE IF Present(f[j - 1], node(j)) THEN Touch(f[j - 1], node(j))
                 ELSE Retain(f[j - 1], node(j), <<table[j]>>)
        withNodes == f[complete]
        e == ExactOwner(toks)
        withExact ==
            IF next # NoToken /\ BlocksFor(Len(toks)) <= CacheBlocks
                 /\ ~Present(withNodes, e)
            THEN [Retain(withNodes, e, SubSeq(table, 1, BlocksFor(Len(toks))))
                    EXCEPT !.pred[toks] = next]
            ELSE withNodes
    IN  IF CacheBlocks = 0 THEN m ELSE EvictToLimit(withExact)

-----------------------------------------------------------------------------
(* The engine's capacity helpers. *)

\* Mutant: a shared partial tail is written in place.
WritableTailInPlace(m, r) == [ok |-> TRUE, m |-> m]

\* _ensure_writable_tail: [ok, m].
WritableTail(m, r) ==
    LET tail == Table(m, r)[Len(Table(m, r))]
        shared(x) == x.pool.refs[tail] > 1
        e == IF FreeCount(m) = 0 THEN EvictUntilFree(m, 1) ELSE m
    IN  IF m.len[r] % BlockSize = 0 \/ ~shared(m) THEN [ok |-> TRUE, m |-> m]
        ELSE IF ~shared(e) THEN [ok |-> TRUE, m |-> e]
        ELSE IF FreeCount(e) = 0 THEN [ok |-> FALSE, m |-> e]
        ELSE [ok |-> TRUE, m |-> CopyTail(e, r)]

\* _ensure_kv_capacity: [ok, m].
EnsureKV(m, r, target) ==
    LET w == IF target > m.len[r] THEN WritableTail(m, r) ELSE [ok |-> TRUE, m |-> m]
        e == IF CanGrow(w.m, r, target) THEN w.m
             ELSE EvictUntilFree(w.m, BlocksFor(target) - Len(Table(w.m, r)))
    IN  IF ~w.ok THEN w
        ELSE [ok |-> CanGrow(e, r, target),
              m  |-> IF CanGrow(e, r, target) THEN Grow(e, r, target) ELSE e]

-----------------------------------------------------------------------------
(* What a memory must satisfy, whoever calls these operations. *)

\* The first n positions of r's table read back as toks.
ReadsBack(m, r, toks, n) == Context(m, r, n) = Prefix(toks, n)

\* Every cached block still holds the keys and values of the tokens it is filed
\* under: radix blocks their own slots, exact entries the whole prompt.
CacheReadsBack(m) ==
    /\ \A p \in Nodes(m) :
          LET b == m.pool.owns[NodeOwner(p)][1]
          IN  \A i \in Slots : m.kv[b][i] = Prefix(p, Len(p) - BlockSize + i + 1)
    /\ \A s \in Prompts : Present(m, ExactOwner(s)) => ReadsBack(m, ExactOwner(s), s, Len(s))

\* The incrementally kept reference map equals a rebuild from the entries.
CacheRefsExact(m) ==
    \A b \in Block :
        m.crefs[b] = Cardinality({o \in CacheOwner : Holds(m.pool, o, b)})

\* Every node's parent is in the tree: a lookup can reach it.
RadixClosed(m) ==
    \A p \in Nodes(m) :
        Len(p) > BlockSize => Prefix(p, Len(p) - BlockSize) \in Nodes(m)

=============================================================================
