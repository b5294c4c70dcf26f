-------------------------- MODULE PrefixCacheProofs --------------------------
(***************************************************************************)
(* The prefix cache is safe to share, for every number of requests, pages, *)
(* prompts and every page size: what PrefixCache's runs check on a small   *)
(* instance follows from one inductive invariant, which MemoryLemmas shows *)
(* each memory operation to keep.                                          *)
(***************************************************************************)
EXTENDS PrefixCache, MemoryLemmas

Phases == {"out", "prefill", "publish", "decode"}

\* What the phase ph of a request r about the sequence t says of its pages: a request that is
\* out has none, one that prefills never has a page beyond the one it writes next, and one
\* that publishes ends with its prompt.
Placed(m, r, t, ph) ==
    /\ ph = "out" => m.pool.owns[r] = << >> /\ m.len[r] = 0
    /\ ph = "prefill" => /\ t \in Prompts /\ m.len[r] < Len(t)
                         /\ Len(m.pool.owns[r]) <= BlocksFor(m.len[r] + 1)
    /\ ph = "publish" => /\ t \in Prompts /\ m.len[r] = Len(t)
                         /\ Len(m.pool.owns[r]) <= BlocksFor(m.len[r])
    /\ ph = "decode" => m.len[r] = Len(t)

\* The inductive invariant.
CacheInv ==
    /\ seq \in [Req -> Seq(Token)]
    /\ phase \in [Req -> Phases]
    /\ MemoryOK(mem, seq)
    /\ ~Over(mem)
    /\ \A r \in Req : Placed(mem, r, seq[r], phase[r])

\* Giving up cached blocks keeps the cache within its budget.
LEMMA FewerBlocks ==
    ASSUME NEW m, NEW x, CachedBlocks(x) \subseteq CachedBlocks(m), ~Over(m)
    PROVE  ~Over(x)
  <1>1. IsFiniteSet(Block)
    BY FS_Interval, KVAssumption DEF Block
  <1>2. CachedBlocks(m) \subseteq Block
    BY DEF CachedBlocks
  <1>3. IsFiniteSet(CachedBlocks(m))
    BY <1>1, <1>2, FS_Subset
  <1>4. /\ IsFiniteSet(CachedBlocks(x))
        /\ Cardinality(CachedBlocks(x)) <= Cardinality(CachedBlocks(m))
    BY <1>3, FS_Subset
  <1>5. Cardinality(CachedBlocks(x)) \in Nat /\ Cardinality(CachedBlocks(m)) \in Nat
    BY <1>3, <1>4, FS_CardinalityType
  <1>6. CacheBlocks \in Nat
    BY KVAssumption
  <1> QED BY <1>4, <1>5, <1>6 DEF Over

\* A step of one request: what it owes the invariant.
LEMMA OneRequest ==
    ASSUME CacheInv, NEW r \in Req, NEW x, NEW u \in Seq(Token), NEW f \in Phases,
           mem' = x, seq' = [seq EXCEPT ![r] = u], phase' = [phase EXCEPT ![r] = f],
           MemoryOK(x, [seq EXCEPT ![r] = u]), ~Over(x), Placed(x, r, u, f),
           \A y \in Req \ {r} : x.pool.owns[y] = mem.pool.owns[y] /\ x.len[y] = mem.len[y]
    PROVE  CacheInv'
  <1>1. seq' \in [Req -> Seq(Token)] /\ phase' \in [Req -> Phases]
    BY DEF CacheInv
  <1>2. MemoryOK(mem', seq') /\ ~Over(mem')
    OBVIOUS
  <1>3. ASSUME NEW y \in Req PROVE Placed(mem', y, seq'[y], phase'[y])
    <2>1. CASE y = r
      <3>1. seq'[y] = u /\ phase'[y] = f
        BY <2>1 DEF CacheInv
      <3> QED BY <2>1, <3>1
    <2>2. CASE y # r
      <3>1. seq'[y] = seq[y] /\ phase'[y] = phase[y]
        BY <2>2 DEF CacheInv
      <3>2. mem'.pool.owns[y] = mem.pool.owns[y] /\ mem'.len[y] = mem.len[y]
        BY <2>2
      <3>3. Placed(mem, y, seq[y], phase[y])
        BY DEF CacheInv
      <3> QED BY <3>1, <3>2, <3>3 DEF Placed
    <2> QED BY <2>1, <2>2
  <1> QED BY <1>1, <1>2, <1>3 DEF CacheInv

\* What the invariant says of a request.
LEMMA OfRequest ==
    ASSUME CacheInv, NEW r \in Req
    PROVE  /\ mem \in Memory /\ CacheOK(mem) /\ mem.len[r] \in Nat /\ r \in PageOwner \ CacheOwner
           /\ seq[r] \in Seq(Token) /\ Len(seq[r]) \in Nat /\ phase[r] \in Phases
           /\ mem.len[r] <= Len(seq[r]) /\ RequestOK(mem, r, seq[r])
           /\ Len(mem.pool.owns[r]) \in Nat
           /\ [seq EXCEPT ![r] = seq[r]] = seq /\ [phase EXCEPT ![r] = phase[r]] = phase
  <1>1. mem \in Memory /\ CacheOK(mem) /\ RequestOK(mem, r, seq[r])
    BY DEF CacheInv, MemoryOK, CacheOK
  <1>2. mem.len \in [Req -> Nat] /\ mem.pool.owns \in [PageOwner -> Seq(Block)]
    BY <1>1, MemoryFields
  <1>3. r \in PageOwner \ CacheOwner
    BY OwnersDiffer
  <1>4. seq[r] \in Seq(Token) /\ phase[r] \in Phases
    BY DEF CacheInv
  <1>5. mem.len[r] <= Len(seq[r])
    BY <1>1 DEF RequestOK
  <1>6. [seq EXCEPT ![r] = seq[r]] = seq /\ [phase EXCEPT ![r] = phase[r]] = phase
    BY DEF CacheInv
  <1>7. Len(mem.pool.owns[r]) \in Nat /\ mem.len[r] \in Nat /\ Len(seq[r]) \in Nat
    <2>1. mem.pool.owns[r] \in Seq(Block)
      BY <1>2, <1>3
    <2> QED BY <1>2, <1>4, <2>1
  <1> QED BY <1>1, <1>3, <1>4, <1>5, <1>6, <1>7

-----------------------------------------------------------------------------
(* One lemma per action. *)

LEMMA LeaveKeeps ==
    ASSUME CacheInv, NEW r \in Req, Leave(r)
    PROVE  CacheInv'
  <1> DEFINE x == Drop(mem, r)
             u == << >>
  <1>1. mem' = x /\ seq' = [seq EXCEPT ![r] = u] /\ phase' = [phase EXCEPT ![r] = "out"]
    BY DEF Leave
  <1>2. u \in Seq(Token) /\ "out" \in Phases
    BY DEF Phases
  <1>3. seq \in [Req -> Seq(Token)] /\ MemoryOK(mem, seq) /\ ~Over(mem) /\ mem \in Memory
    BY OfRequest DEF CacheInv
  <1> HIDE DEF u
  <1>4. /\ MemoryOK(x, [seq EXCEPT ![r] = u])
        /\ x.len = [mem.len EXCEPT ![r] = 0] /\ x.pool.owns[r] = << >>
        /\ \A y \in PageOwner \ {r} : x.pool.owns[y] = mem.pool.owns[y]
        /\ CachedBlocks(x) = CachedBlocks(mem)
    BY <1>2, <1>3, DropKeeps
  <1> HIDE DEF x
  <1>5. mem.len \in [Req -> Nat]
    BY <1>3, MemoryFields
  <1>6. ~Over(x)
    BY <1>3, <1>4, FewerBlocks
  <1>7. \A y \in Req \ {r} : x.pool.owns[y] = mem.pool.owns[y] /\ x.len[y] = mem.len[y]
    BY <1>4, <1>5, OwnersDiffer
  <1>8. Placed(x, r, u, "out")
    BY <1>4, <1>5 DEF Placed
  <1> QED BY <1>1, <1>2, <1>4, <1>6, <1>7, <1>8, OneRequest

LEMMA PublishPromptKeeps ==
    ASSUME CacheInv, NEW r \in Req, NEW next \in {Predicted, NoToken}, PublishPrompt(r, next)
    PROVE  CacheInv'
  <1> DEFINE u == seq[r]
             x == Publish(mem, r, u, next)
  <1>1. /\ phase[r] = "publish" /\ mem' = x /\ seq' = [seq EXCEPT ![r] = u]
        /\ phase' = [phase EXCEPT ![r] = "decode"]
    BY OfRequest DEF PublishPrompt
  <1>2. /\ MemoryOK(mem, seq) /\ ~Over(mem) /\ mem \in Memory /\ RequestOK(mem, r, u)
        /\ mem.len[r] \in Nat /\ u \in Seq(Token) /\ [seq EXCEPT ![r] = u] = seq
        /\ Len(mem.pool.owns[r]) \in Nat
    BY OfRequest DEF CacheInv
  <1>3. u \in Prompts /\ mem.len[r] = Len(u) /\ Len(mem.pool.owns[r]) <= BlocksFor(Len(u))
    BY <1>1 DEF CacheInv, Placed
  <1>4. next \in Value
    <2>1. u # << >> /\ u \in Seq(Token)
      BY <1>2, <1>3, KVAssumption
    <2>2. u[1] \in Token
      BY <2>1
    <2>3. Predicted \in Token
      BY <2>2 DEF Predicted
    <2> QED BY <2>3 DEF Value
  <1>5. Reads(mem, r, u, Len(u))
    BY <1>2, <1>3 DEF RequestOK
  <1>6. BlocksFor(Len(u)) \in Nat
    BY <1>2, <1>3, BlocksForPage
  <1>7. \A i \in 1 .. BlocksFor(Len(u)) : ~Ahead(mem, r, i)
    BY <1>2, <1>3, <1>6 DEF Ahead
  <1>8. Len(u) <= mem.len[r]
    BY <1>2, <1>3
  <1> HIDE DEF u
  <1>9. /\ MemoryOK(x, seq) /\ x.len = mem.len
        /\ \A y \in PageOwner \ CacheOwner : x.pool.owns[y] = mem.pool.owns[y]
        /\ ~Over(x)
    <2>1. Published(mem, x, seq, r, u, next)
      BY <1>2, <1>3, <1>4, <1>5, <1>7, <1>8, PublishKeeps
    <2> QED BY <2>1, <1>2 DEF Published
  <1> HIDE DEF x
  <1>10. \A y \in Req \ {r} : x.pool.owns[y] = mem.pool.owns[y] /\ x.len[y] = mem.len[y]
    BY <1>9, OwnersDiffer
  <1>11. Placed(x, r, u, "decode")
    BY <1>3, <1>9 DEF Placed
  <1>12. "decode" \in Phases
    BY DEF Phases
  <1> QED BY <1>1, <1>2, <1>9, <1>10, <1>11, <1>12, OneRequest

\* The outcome of one such step: c is what _ensure_kv_capacity left, x the memory if it had the pages.
Stepped(m, c, x, t, r, n, ts, u) ==
    /\ MemoryOK(c.m, t) /\ ~Over(c.m) /\ c.m.len = m.len
    /\ \A y \in Req \ {r} : c.m.pool.owns[y] = m.pool.owns[y]
    /\ ~c.ok => Len(c.m.pool.owns[r]) = Len(m.pool.owns[r])
    /\ c.ok => /\ MemoryOK(x, [t EXCEPT ![r] = u]) /\ ~Over(x)
               /\ x.len[r] = n + Len(ts)
               /\ \A y \in Req \ {r} : x.pool.owns[y] = m.pool.owns[y] /\ x.len[y] = m.len[y]
               /\ Len(m.pool.owns[r]) <= BlocksFor(n + Len(ts)) =>
                     Len(x.pool.owns[r]) = BlocksFor(n + Len(ts))

\* The positions a step adds: pages for them, the forward pass over them and the commit.
LEMMA ExtendKeeps ==
    ASSUME NEW m, NEW t \in [Req -> Seq(Token)], MemoryOK(m, t), ~Over(m), NEW r \in Req,
           NEW ts \in Seq(Token), ts # << >>, NEW n \in Nat, n = m.len[r],
           NEW u \in Seq(Token), Continues(u, t[r], n, ts),
           NEW c, c = EnsureKV(m, r, n + Len(ts)),
           NEW x, x = Commit(Forward(c.m, r, n, ts), r, Len(ts))
    PROVE  Stepped(m, c, x, t, r, n, ts, u)
  <1> DEFINE g == n + Len(ts)
             a == Len(m.pool.owns[r])
  <1>1. m \in Memory /\ m.len \in [Req -> Nat] /\ m.pool.owns \in [PageOwner -> Seq(Block)]
    BY MemoryFields DEF MemoryOK, CacheOK
  <1>2. n \in Nat /\ a \in Nat /\ Len(ts) \in Nat \ {0} /\ g \in Nat /\ g > m.len[r]
    <2>1. m.pool.owns[r] \in Seq(Block)
      BY <1>1, OwnersDiffer
    <2>2. n \in Nat /\ a \in Nat /\ Len(ts) \in Nat \ {0}
      BY <1>1, <2>1
    <2> QED BY <2>2
  <1>3. BlocksFor(g) \in Nat
    BY <1>2, BlocksForPage
  <1> HIDE DEF g, a
  <1>4. /\ Grown(m, c.m, r, t)
        /\ ~c.ok => Len(c.m.pool.owns[r]) = a
        /\ c.ok => /\ BlocksFor(g) <= a => Len(c.m.pool.owns[r]) = a
                   /\ BlocksFor(g) > a => Len(c.m.pool.owns[r]) = BlocksFor(g)
                   /\ n % BlockSize # 0 => Alone(c.m, r, BlocksFor(n))
    BY <1>1, <1>2, EnsureKVKeeps, ZenonT(60) DEF g, a
  <1>5. /\ MemoryOK(c.m, t) /\ c.m.len = m.len /\ CachedBlocks(c.m) \subseteq CachedBlocks(m)
        /\ \A y \in Req \ {r} : c.m.pool.owns[y] = m.pool.owns[y]
    BY <1>4, OwnersDiffer DEF Grown
  <1>6. ~Over(c.m)
    BY <1>5, FewerBlocks
  <1>7. ASSUME c.ok
        PROVE  /\ MemoryOK(x, [t EXCEPT ![r] = u]) /\ ~Over(x)
               /\ x.len[r] = g
               /\ \A y \in Req \ {r} : x.pool.owns[y] = m.pool.owns[y] /\ x.len[y] = m.len[y]
               /\ a <= BlocksFor(g) => Len(x.pool.owns[r]) = BlocksFor(g)
    <2>1. /\ BlocksFor(g) <= Len(c.m.pool.owns[r])
          /\ a <= BlocksFor(g) => Len(c.m.pool.owns[r]) = BlocksFor(g)
      <3>1. PICK l : l = Len(c.m.pool.owns[r])
        OBVIOUS
      <3>2. PICK k : k = BlocksFor(g)
        OBVIOUS
      <3>3. (k <= a => l = a) /\ (k > a => l = k)
        <4>1. /\ BlocksFor(g) <= a => Len(c.m.pool.owns[r]) = a
              /\ BlocksFor(g) > a => Len(c.m.pool.owns[r]) = BlocksFor(g)
          BY <1>4, <1>7, Zenon
        <4> QED BY <4>1, <3>1, <3>2
      <3>4. k \in Nat /\ a \in Nat
        BY <3>2, <1>2, <1>3
      <3>5. k <= l /\ (a <= k => l = k)
        BY <3>3, <3>4
      <3> QED BY <3>1, <3>2, <3>5
    <2>2. n = c.m.len[r] /\ (n % BlockSize # 0 => Alone(c.m, r, BlocksFor(n)))
      BY <1>4, <1>5, <1>7
    <2>3. BlocksFor(n + Len(ts)) <= Len(c.m.pool.owns[r])
      BY <2>1 DEF g
    <2>4. /\ MemoryOK(x, [t EXCEPT ![r] = u])
          /\ x.len[r] = n + Len(ts) /\ (\A y \in Req \ {r} : x.len[y] = c.m.len[y]) /\ x.pool = c.m.pool
          /\ CachedBlocks(x) = CachedBlocks(c.m)
      <3> DEFINE d == c.m
      <3>1. MemoryOK(d, t) /\ n = d.len[r] /\ BlocksFor(n + Len(ts)) <= Len(d.pool.owns[r])
        BY <1>5, <2>2, <2>3
      <3>2. n % BlockSize # 0 => Alone(d, r, BlocksFor(n))
        BY <2>2
      <3>3. x = Commit(Forward(d, r, n, ts), r, Len(ts))
        OBVIOUS
      <3> HIDE DEF d
      <3>4. Computed(d, x, t, r, n, ts, u)
        BY <3>1, <3>2, <3>3, ForwardKeeps
      <3> QED BY <3>4 DEF d, Computed
    <2>5. ~Over(x)
      BY <2>4, <1>6, FewerBlocks
    <2>6. x.len[r] = g /\ \A y \in Req \ {r} : x.len[y] = m.len[y]
      BY <2>4, <1>5, <1>1 DEF g
    <2>7. \A y \in Req \ {r} : x.pool.owns[y] = m.pool.owns[y]
      BY <2>4, <1>5
    <2> QED BY <2>1, <2>4, <2>5, <2>6, <2>7
  <1> QED BY <1>4, <1>5, <1>6, <1>7 DEF g, a, Stepped

LEMMA DecodeKeeps ==
    ASSUME CacheInv, NEW r \in Req, NEW t \in Token, Decode(r, t)
    PROVE  CacheInv'
  <1> DEFINE n == mem.len[r]
             ts == <<t>>
             u == Append(seq[r], t)
             c == EnsureKV(mem, r, n + 1)
             x == Commit(Forward(c.m, r, n, ts), r, 1)
  <1>1. /\ phase[r] = "decode" /\ phase' = [phase EXCEPT ![r] = phase[r]] /\ phase[r] \in Phases
        /\ \/ c.ok /\ mem' = x /\ seq' = [seq EXCEPT ![r] = u]
           \/ ~c.ok /\ mem' = c.m /\ seq' = [seq EXCEPT ![r] = seq[r]]
    BY OfRequest DEF Decode
  <1>2. /\ seq[r] \in Seq(Token) /\ n \in Nat /\ n = Len(seq[r]) /\ [seq EXCEPT ![r] = seq[r]] = seq
    BY <1>1, OfRequest DEF CacheInv, Placed
  <1>3. ts \in Seq(Token) /\ ts # << >> /\ Len(ts) = 1 /\ ts[1] = t
    OBVIOUS
  <1>4. u \in Seq(Token) /\ Len(u) = n + 1 /\ u[n + 1] = t
    BY <1>2
  <1>5. \A q \in 1 .. n : Prefix(u, q) = Prefix(seq[r], q)
    BY <1>2 DEF Prefix
  <1>6. Continues(u, seq[r], n, ts)
    <2>1. n + Len(ts) <= Len(u) /\ \A i \in 1 .. Len(ts) : u[n + i] = ts[i]
      BY <1>2, <1>3, <1>4
    <2> QED BY <1>5, <2>1 DEF Continues
  <1>7. c = EnsureKV(mem, r, n + Len(ts)) /\ x = Commit(Forward(c.m, r, n, ts), r, Len(ts))
    BY <1>3
  <1>a. MemoryOK(mem, seq) /\ ~Over(mem) /\ seq \in [Req -> Seq(Token)]
    BY DEF CacheInv
  <1> HIDE DEF u, ts, c, x
  <1>b. Stepped(mem, c, x, seq, r, n, ts, u)
    BY <1>a, <1>2, <1>3, <1>4, <1>6, <1>7, ExtendKeeps
  <1>8. /\ MemoryOK(c.m, seq) /\ ~Over(c.m) /\ c.m.len = mem.len
        /\ \A y \in Req \ {r} : c.m.pool.owns[y] = mem.pool.owns[y]
        /\ c.ok => /\ MemoryOK(x, [seq EXCEPT ![r] = u]) /\ ~Over(x)
                   /\ x.len[r] = n + Len(ts)
                   /\ \A y \in Req \ {r} : x.pool.owns[y] = mem.pool.owns[y] /\ x.len[y] = mem.len[y]
    BY <1>b DEF Stepped
  <1>9. CASE c.ok
    <2>1. mem' = x /\ seq' = [seq EXCEPT ![r] = u]
      BY <1>1, <1>9
    <2>2. Placed(x, r, u, phase[r])
      BY <1>1, <1>3, <1>4, <1>8, <1>9 DEF Placed
    <2>3. MemoryOK(x, [seq EXCEPT ![r] = u])
      BY <1>8, <1>9
    <2> QED BY <2>1, <2>2, <2>3, <1>1, <1>4, <1>8, <1>9, OneRequest
  <1>10. CASE ~c.ok
    <2>1. mem' = c.m /\ seq' = [seq EXCEPT ![r] = seq[r]]
      BY <1>1, <1>10
    <2>2. Placed(c.m, r, seq[r], phase[r])
      BY <1>1, <1>2, <1>8 DEF Placed
    <2>3. MemoryOK(c.m, [seq EXCEPT ![r] = seq[r]])
      BY <1>2, <1>8
    <2> QED BY <2>1, <2>2, <2>3, <1>1, <1>2, <1>8, OneRequest
  <1> QED BY <1>9, <1>10

LEMMA SliceOf ==
    ASSUME NEW S, NEW s \in Seq(S), NEW a \in Nat, NEW k \in Nat \ {0}, a + k <= Len(s)
    PROVE  /\ SubSeq(s, a + 1, a + k) \in Seq(S) /\ Len(SubSeq(s, a + 1, a + k)) = k
           /\ \A i \in 1 .. k : SubSeq(s, a + 1, a + k)[i] = s[a + i]
  BY SubSeqProperties

LEMMA PrefillKeeps ==
    ASSUME CacheInv, NEW r \in Req, NEW k \in 1 .. Len(seq[r]) - mem.len[r], Prefill(r, k)
    PROVE  CacheInv'
  <1> DEFINE n == mem.len[r]
             u == seq[r]
             ts == SubSeq(u, n + 1, n + k)
             c == EnsureKV(mem, r, n + k)
             x == Commit(Forward(c.m, r, n, ts), r, k)
             f == IF n + k = Len(u) THEN "publish" ELSE "prefill"
  <1>1. /\ phase[r] = "prefill" /\ seq' = [seq EXCEPT ![r] = u]
        /\ \/ c.ok /\ mem' = x /\ phase' = [phase EXCEPT ![r] = f]
           \/ ~c.ok /\ mem' = c.m /\ phase' = [phase EXCEPT ![r] = "prefill"]
    BY OfRequest DEF Prefill
  <1>2. /\ u \in Seq(Token) /\ n \in Nat /\ Len(u) \in Nat /\ [seq EXCEPT ![r] = u] = seq
        /\ Len(mem.pool.owns[r]) \in Nat
    BY OfRequest
  <1>3. u \in Prompts /\ n < Len(u) /\ Len(mem.pool.owns[r]) <= BlocksFor(n + 1)
    BY <1>1 DEF CacheInv, Placed
  <1>4. k \in Nat \ {0} /\ n + k <= Len(u) /\ n + 1 \in Nat /\ n + k \in Nat /\ n + 1 <= n + k
        /\ n + k + 1 \in Nat /\ n + k <= n + k + 1
    BY <1>2, SMTT(30)
  <1>5. /\ ts \in Seq(Token) /\ Len(ts) = k /\ ts # << >>
        /\ \A i \in 1 .. k : ts[i] = u[n + i]
    <2>1. ts \in Seq(Token) /\ Len(ts) = k /\ \A i \in 1 .. k : ts[i] = u[n + i]
      <3> HIDE DEF u, n
      <3> QED BY <1>2, <1>4, SliceOf
    <2>2. ts # << >>
      BY <1>4, <2>1
    <2> QED BY <2>1, <2>2
  <1>6. Continues(u, u, n, ts)
    BY <1>2, <1>4, <1>5 DEF Continues
  <1>7. c = EnsureKV(mem, r, n + Len(ts)) /\ x = Commit(Forward(c.m, r, n, ts), r, Len(ts))
    BY <1>5
  <1>8. MemoryOK(mem, seq) /\ ~Over(mem) /\ seq \in [Req -> Seq(Token)]
    BY DEF CacheInv
  <1> HIDE DEF ts, c, x
  <1>9. Stepped(mem, c, x, seq, r, n, ts, u)
    BY <1>2, <1>5, <1>6, <1>7, <1>8, ExtendKeeps
  <1>10. /\ BlocksFor(n + 1) \in Nat /\ BlocksFor(n + k) \in Nat /\ BlocksFor(n + k + 1) \in Nat
         /\ BlocksFor(n + 1) <= BlocksFor(n + k) /\ BlocksFor(n + k) <= BlocksFor(n + k + 1)
    BY <1>4, BlocksForPage, BlocksMonotone
  <1>11. Len(mem.pool.owns[r]) <= BlocksFor(n + k)
    BY <1>2, <1>3, <1>10, SMTT(30)
  <1>12. CASE c.ok
    <2>1. mem' = x /\ phase' = [phase EXCEPT ![r] = f]
      BY <1>1, <1>12
    <2>2. /\ MemoryOK(x, [seq EXCEPT ![r] = u]) /\ ~Over(x) /\ x.len[r] = n + k
          /\ \A y \in Req \ {r} : x.pool.owns[y] = mem.pool.owns[y] /\ x.len[y] = mem.len[y]
          /\ Len(x.pool.owns[r]) = BlocksFor(n + k)
      BY <1>5, <1>9, <1>11, <1>12 DEF Stepped
    <2>3. f \in Phases
      BY DEF Phases
    <2>4. Placed(x, r, u, f)
      <3>1. CASE n + k = Len(u)
        BY <3>1, <2>2, <1>3, <1>10 DEF Placed
      <3>2. CASE n + k # Len(u)
        <4>1. n + k < Len(u) /\ Len(x.pool.owns[r]) <= BlocksFor(x.len[r] + 1)
          BY <3>2, <1>2, <1>4, <1>10, <2>2
        <4>2. f = "prefill"
          BY <3>2
        <4> QED BY <4>1, <4>2, <2>2, <1>3 DEF Placed
      <3> QED BY <3>1, <3>2
    <2> HIDE DEF f
    <2> QED BY <2>1, <2>2, <2>3, <2>4, <1>1, <1>2, OneRequest
  <1>13. CASE ~c.ok
    <2>1. mem' = c.m /\ phase' = [phase EXCEPT ![r] = "prefill"] /\ "prefill" \in Phases
      BY <1>1, <1>13 DEF Phases
    <2>2. /\ MemoryOK(c.m, seq) /\ ~Over(c.m) /\ c.m.len = mem.len
          /\ \A y \in Req \ {r} : c.m.pool.owns[y] = mem.pool.owns[y]
          /\ Len(c.m.pool.owns[r]) = Len(mem.pool.owns[r])
      BY <1>9, <1>13 DEF Stepped
    <2>3. Placed(c.m, r, u, "prefill")
      BY <2>2, <1>3 DEF Placed
    <2>4. MemoryOK(c.m, [seq EXCEPT ![r] = u])
      BY <2>2, <1>2
    <2>5. \A y \in Req \ {r} : c.m.pool.owns[y] = mem.pool.owns[y] /\ c.m.len[y] = mem.len[y]
      BY <2>2
    <2> QED BY <2>1, <2>2, <2>3, <2>4, <2>5, <1>1, <1>2, OneRequest
  <1> QED BY <1>12, <1>13

\* The first page of a request is one page.
LEMMA FirstPage ==
    ASSUME NEW n \in 1 .. BlockSize
    PROVE  BlocksFor(n) = 1
  <1>1. BlockSize \in Nat \ {0}
    BY KVAssumption
  <1>2. n \in Nat \ {0} /\ n - 1 \in 0 .. BlockSize - 1 /\ n - 1 \in Slots
    BY <1>1 DEF Slots
  <1>3. PageOf(BlockSize * (1 - 1) + (n - 1) + 1) = 1
    BY <1>2, PositionOf
  <1>4. BlockSize * (1 - 1) + (n - 1) + 1 = n
    BY <1>1, <1>2
  <1> QED BY <1>2, <1>3, <1>4, BlocksForPage

LEMMA AdmitKeeps ==
    ASSUME CacheInv, NEW r \in Req, NEW p \in Prompts, NEW b \in BOOLEAN, Admit(r, p, b)
    PROVE  CacheInv'
  <1> DEFINE h == Lookup(mem, p, b)
             n == IF Len(p) < BlockSize THEN Len(p) ELSE BlockSize
             e == IF CanReserve(h.m, n) THEN h.m ELSE EvictUntilFree(h.m, 1)
             z == Reserve(e, r, n)
             x == AttachPrefix(h.m, r, h.blocks, h.count)
             f == IF h.count = Len(p) THEN "publish" ELSE "prefill"
  <1>1. /\ phase[r] = "out"
        /\ \/ h.count > 0 /\ mem' = x /\ phase' = [phase EXCEPT ![r] = f] /\ seq' = [seq EXCEPT ![r] = p]
           \/ /\ h.count = 0 /\ CanReserve(e, n) /\ mem' = z
              /\ phase' = [phase EXCEPT ![r] = "prefill"] /\ seq' = [seq EXCEPT ![r] = p]
           \/ mem' = e /\ phase' = phase /\ seq' = seq
    BY DEF Admit
  <1>2. /\ MemoryOK(mem, seq) /\ ~Over(mem) /\ seq \in [Req -> Seq(Token)] /\ mem \in Memory
        /\ mem.len \in [Req -> Nat] /\ mem.pool.owns[r] = << >> /\ mem.len[r] = 0
        /\ r \in PageOwner \ CacheOwner /\ [seq EXCEPT ![r] = seq[r]] = seq
        /\ [phase EXCEPT ![r] = phase[r]] = phase /\ seq[r] \in Seq(Token) /\ phase[r] \in Phases
    BY <1>1, OfRequest, MemoryFields DEF CacheInv, Placed
  <1>3. p \in Seq(Token) \ {<< >>} /\ p \in Seq(Token) /\ Len(p) \in Nat \ {0} /\ BlockSize \in Nat \ {0}
    BY KVAssumption, EmptySeq
  <1>4. n \in 1 .. BlockSize /\ n \in Nat /\ BlocksFor(n) = 1
    <2>1. n \in 1 .. BlockSize /\ n \in Nat
      BY <1>3
    <2> HIDE DEF n
    <2> QED BY <2>1, FirstPage
  <1>5. /\ MemoryOK(h.m, seq) /\ h.m.pool = mem.pool /\ h.m.len = mem.len
        /\ h.m.crefs = mem.crefs /\ h.m.kv = mem.kv
        /\ Hit(mem, p, h.blocks, h.count)
    BY <1>2, <1>3, LookupKeeps
  <1>6. Hit(h.m, p, h.blocks, h.count)
    BY <1>5 DEF Hit
  <1>7. CachedBlocks(h.m) = CachedBlocks(mem) /\ ~Over(h.m)
    BY <1>2, <1>5 DEF CachedBlocks, Over
  <1> HIDE DEF h, n
  <1>8. /\ MemoryOK(e, seq) /\ e.len = mem.len /\ ~Over(e)
        /\ \A y \in PageOwner \ CacheOwner : e.pool.owns[y] = mem.pool.owns[y]
    <2>1. CASE e = h.m
      BY <2>1, <1>5, <1>7
    <2>2. CASE e = EvictUntilFree(h.m, 1)
      <3>1. Trimmed(h.m, e, seq)
        BY <2>2, <1>5, EvictUntilFreeKeeps
      <3> HIDE DEF e
      <3>2. CachedBlocks(e) \subseteq CachedBlocks(h.m)
        BY <3>1 DEF Trimmed
      <3>3. ~Over(e)
        BY <3>2, <1>7, FewerBlocks
      <3> QED BY <3>1, <3>3, <1>5 DEF Trimmed
    <2> QED BY <2>1, <2>2
  <1> HIDE DEF e
  <1>9. CASE h.count > 0 /\ mem' = x /\ phase' = [phase EXCEPT ![r] = f] /\ seq' = [seq EXCEPT ![r] = p]
    <2>1. h.m.pool.owns[r] = << >>
      BY <1>2, <1>5
    <2>2. /\ MemoryOK(x, [seq EXCEPT ![r] = p])
          /\ x.len = [h.m.len EXCEPT ![r] = h.count] /\ x.pool.owns[r] = h.blocks
          /\ \A y \in PageOwner \ {r} : x.pool.owns[y] = h.m.pool.owns[y]
          /\ CachedBlocks(x) = CachedBlocks(h.m)
      <3>1. seq \in [Req -> Seq(Token)] /\ MemoryOK(h.m, seq) /\ p \in Seq(Token) /\ h.count > 0
        BY <1>2, <1>3, <1>5, <1>9
      <3> DEFINE d == h.m
                 s == h.blocks
                 k == h.count
      <3>2. Hit(d, p, s, k) /\ k > 0 /\ d.pool.owns[r] = << >> /\ MemoryOK(d, seq)
        BY <3>1, <2>1, <1>6
      <3>3. x = AttachPrefix(d, r, s, k)
        OBVIOUS
      <3> HIDE DEF d, s, k, x
      <3>4. Attached(d, x, seq, r, p, s, k)
        BY <3>1, <3>2, <3>3, HitAttaches
      <3> QED BY <3>4 DEF d, s, k, Attached
    <2> HIDE DEF x
    <2>3. ~Over(x)
      BY <2>2, <1>7, FewerBlocks
    <2>4. \A y \in Req \ {r} : x.pool.owns[y] = mem.pool.owns[y] /\ x.len[y] = mem.len[y]
      BY <2>2, <1>2, <1>5, OwnersDiffer
    <2>5. /\ h.count \in Nat /\ h.count <= Len(p) /\ Len(x.pool.owns[r]) = BlocksFor(h.count)
          /\ x.len[r] = h.count
      BY <2>2, <1>2, <1>3, <1>5, <1>6 DEF Hit
    <2>6. h.count + 1 \in Nat /\ h.count <= h.count + 1
      BY <2>5
    <2>7. /\ BlocksFor(h.count) \in Nat /\ BlocksFor(h.count + 1) \in Nat
          /\ BlocksFor(h.count) <= BlocksFor(h.count + 1)
      BY <2>5, <2>6, BlocksForPage, BlocksMonotone
    <2>8. Placed(x, r, p, f) /\ f \in Phases
      <3>1. CASE h.count = Len(p)
        BY <3>1, <2>5, <2>7 DEF Placed, Phases
      <3>2. CASE h.count # Len(p)
        <4>1. h.count < Len(p) /\ f = "prefill"
          BY <3>2, <2>5, <1>3
        <4> QED BY <4>1, <2>5, <2>7 DEF Placed, Phases
      <3> QED BY <3>1, <3>2
    <2> HIDE DEF f
    <2> QED BY <2>2, <2>3, <2>4, <2>8, <1>3, <1>9, OneRequest
  <1>10. CASE /\ h.count = 0 /\ CanReserve(e, n) /\ mem' = z
              /\ phase' = [phase EXCEPT ![r] = "prefill"] /\ seq' = [seq EXCEPT ![r] = p]
    <2>1. e.len[r] = 0 /\ e.pool.owns[r] = << >>
      BY <1>2, <1>8
    <2>2. /\ MemoryOK(z, [seq EXCEPT ![r] = p]) /\ z.len = e.len
          /\ CachedBlocks(z) = CachedBlocks(e)
          /\ Len(z.pool.owns[r]) = Len(e.pool.owns[r]) + BlocksFor(n)
          /\ \A y \in PageOwner \ {r} : z.pool.owns[y] = e.pool.owns[y]
      <3>1. seq \in [Req -> Seq(Token)] /\ MemoryOK(e, seq) /\ p \in Seq(Token) /\ n \in Nat
        BY <1>2, <1>3, <1>4, <1>8
      <3>2. CanReserve(e, n)
        BY <1>10
      <3> QED BY <3>1, <3>2, <2>1, ReserveKeeps, ZenonT(60)
    <2> HIDE DEF z
    <2>3. ~Over(z)
      BY <2>2, <1>8, FewerBlocks
    <2>4. \A y \in Req \ {r} : z.pool.owns[y] = mem.pool.owns[y] /\ z.len[y] = mem.len[y]
      BY <2>2, <1>8, OwnersDiffer
    <2>5. 1 \in 1 .. BlockSize
      BY <1>3
    <2>6. BlocksFor(1) = 1
      BY <2>5, FirstPage
    <2>7. Len(z.pool.owns[r]) = 1 /\ z.len[r] = 0
      BY <2>1, <2>2, <1>4
    <2>8. Placed(z, r, p, "prefill") /\ "prefill" \in Phases
      BY <2>6, <2>7, <1>3 DEF Placed, Phases
    <2> QED BY <2>2, <2>3, <2>4, <2>8, <1>3, <1>10, OneRequest
  <1>11. CASE mem' = e /\ phase' = phase /\ seq' = seq
    <2>1. seq' = [seq EXCEPT ![r] = seq[r]] /\ phase' = [phase EXCEPT ![r] = phase[r]]
      BY <1>2, <1>11
    <2>2. \A y \in Req \ {r} : e.pool.owns[y] = mem.pool.owns[y] /\ e.len[y] = mem.len[y]
      BY <1>8, OwnersDiffer
    <2>3. Placed(e, r, seq[r], phase[r])
      BY <1>1, <1>2, <1>8 DEF Placed
    <2>4. MemoryOK(e, [seq EXCEPT ![r] = seq[r]])
      BY <1>2, <1>8
    <2> QED BY <2>1, <2>2, <2>3, <2>4, <1>2, <1>8, <1>11, OneRequest
  <1> QED BY <1>1, <1>9, <1>10, <1>11

-----------------------------------------------------------------------------
(* The theorems. *)

LEMMA InitInv == Init => CacheInv
  <1> SUFFICES ASSUME Init PROVE CacheInv
    OBVIOUS
  <1>1. /\ mem = InitMem /\ seq = [r \in Req |-> << >>] /\ phase = [r \in Req |-> "out"]
    BY DEF Init
  <1>2. seq \in [Req -> Seq(Token)] /\ phase \in [Req -> Phases]
    BY <1>1 DEF Phases
  <1>3. /\ MemoryOK(mem, seq) /\ ~Over(mem)
        /\ \A r \in Req : mem.pool.owns[r] = << >> /\ mem.len[r] = 0
    BY <1>1, <1>2, InitMemOK
  <1>4. \A r \in Req : Placed(mem, r, seq[r], phase[r])
    BY <1>1, <1>3 DEF Placed
  <1> QED BY <1>2, <1>3, <1>4 DEF CacheInv

LEMMA NextInv == CacheInv /\ [Next]_vars => CacheInv'
  <1> SUFFICES ASSUME CacheInv, [Next]_vars PROVE CacheInv'
    OBVIOUS
  <1>1. CASE UNCHANGED vars
    BY <1>1 DEF vars, CacheInv
  <1>2. ASSUME NEW r \in Req, NEW p \in Prompts, NEW b \in BOOLEAN, Admit(r, p, b) PROVE CacheInv'
    BY <1>2, AdmitKeeps
  <1>3. ASSUME NEW r \in Req, NEW n \in 1 .. Len(seq[r]) - mem.len[r], Prefill(r, n) PROVE CacheInv'
    BY <1>3, PrefillKeeps
  <1>4. ASSUME NEW r \in Req, NEW t \in {Predicted, NoToken}, PublishPrompt(r, t) PROVE CacheInv'
    BY <1>4, PublishPromptKeeps
  <1>5. ASSUME NEW r \in Req, NEW t \in Token, Decode(r, t) PROVE CacheInv'
    BY <1>5, DecodeKeeps
  <1>6. ASSUME NEW r \in Req, Leave(r) PROVE CacheInv'
    BY <1>6, LeaveKeeps
  <1> QED BY <1>1, <1>2, <1>3, <1>4, <1>5, <1>6 DEF Next

\* Every reachable state of the cache and its requests satisfies the inductive invariant.
THEOREM CacheInvariant == Spec => []CacheInv
  BY InitInv, NextInv, PTL DEF Spec

LEMMA InvReadsBack == CacheInv => RequestsReadBack
  <1> SUFFICES ASSUME CacheInv, NEW r \in Req PROVE ReadsBack(mem, r, seq[r], mem.len[r])
    BY DEF RequestsReadBack
  <1>1. /\ mem \in Memory /\ r \in PageOwner /\ seq[r] \in Seq(Token) /\ RequestOK(mem, r, seq[r])
        /\ mem.len[r] \in Nat /\ Len(seq[r]) \in Nat /\ mem.len[r] <= Len(seq[r])
    BY OfRequest
  <1>2. mem.len[r] \in 0 .. Len(seq[r]) /\ Reads(mem, r, seq[r], mem.len[r])
    BY <1>1 DEF RequestOK
  <1> QED BY <1>1, <1>2, ReadsContext

\* No request ever reads another sequence's keys and values, whatever order the requests
\* attach, compute, publish, decode, evict and leave in: the committed positions of each
\* block table read back as the request's own tokens (lookup, attach_prefix,
\* _ensure_writable_tail, publish, evict_until_free).
THEOREM NoForeignKeys == Spec => []RequestsReadBack
  BY CacheInvariant, InvReadsBack, PTL

LEMMA InvImmutable == CacheInv => CacheImmutable
  <1> SUFFICES ASSUME CacheInv PROVE CacheReadsBack(mem)
    BY DEF CacheImmutable
  <1>1. CacheOK(mem)
    BY DEF CacheInv, MemoryOK
  <1> QED BY <1>1, CacheOKReadsBack

\* Cached pages are immutable: no decode of the publishing or of a sharing request changes
\* what a radix node or an exact entry stands for, because _ensure_writable_tail copies every
\* shared page before it is written.
THEOREM CachedPagesStand == Spec => []CacheImmutable
  BY CacheInvariant, InvImmutable, PTL

LEMMA InvConsistent == CacheInv => CacheConsistent
  <1> SUFFICES ASSUME CacheInv PROVE CacheConsistent
    OBVIOUS
  <1>1. /\ mem \in Memory /\ Consistent(mem.pool) /\ CacheRefsExact(mem) /\ RadixClosed(mem)
    BY DEF CacheInv, MemoryOK, CacheOK
  <1>2. mem.pool \in Pool /\ mem.len \in [Req -> Nat] /\ mem.crefs \in [Block -> Nat]
    BY <1>1, MemoryFields
  <1>3. TypeOK
    BY <1>2 DEF TypeOK, CacheInv, Phases
  <1>4. WithinBudget
    <2>1. CachedBlocks(mem) \subseteq Block /\ IsFiniteSet(Block)
      BY FS_Interval, KVAssumption DEF CachedBlocks, Block
    <2>2. IsFiniteSet(CachedBlocks(mem))
      BY <2>1, FS_Subset
    <2>3. Cardinality(CachedBlocks(mem)) \in Nat /\ CacheBlocks \in Nat
      BY <2>2, FS_CardinalityType, KVAssumption
    <2>4. ~(Cardinality(CachedBlocks(mem)) > CacheBlocks)
      BY DEF CacheInv, Over
    <2> QED BY <2>3, <2>4 DEF WithinBudget
  <1> QED BY <1>1, <1>3, <1>4 DEF CacheConsistent, ReferencesExact, TreeReachable

\* The books of the cache balance after any order of publishing, sharing and eviction:
\* _references equals a rebuild from the entries, the allocator's counters equal the number
\* of holders, publish leaves at most max_blocks cached blocks, and _evict_one never cuts a
\* radix node off from the root.
THEOREM CacheBooksBalance == Spec => []CacheConsistent
  BY CacheInvariant, InvConsistent, PTL

=============================================================================
