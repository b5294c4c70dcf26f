-------------------------- MODULE EngineMemoryProofs --------------------------
(***************************************************************************)
(* What Engine promises about the page memory and about the tokens it      *)
(* returns, for every model, workload, pool size and cache size: the books *)
(* of scheduler, block manager and cache balance, every request attends to *)
(* its own prompt and output, and a greedy request gets the tokens it      *)
(* would get alone.  With SampledEngine, the draws pay for the tokens of   *)
(* seeded requests.  With SpecEngine, a worker with a proposer promises    *)
(* all that Engine does, and what it verifies and keeps of the proposer is *)
(* up to date.                                                             *)
(***************************************************************************)
EXTENDS EngineProofs, MemoryLemmas

-----------------------------------------------------------------------------
(* The inductive invariant. *)

\* The pages and the length of r are those its state calls for.
PagesOf(m, r, q) ==
    /\ q.state \notin Running => m.pool.owns[r] = << >> /\ m.len[r] = 0
    /\ q.state = "DECODING" => /\ m.pool.owns[r] # << >>
                               /\ m.len[r] = Len(q.kind.prompt) + Len(q.out) - 1
    /\ q.state = "PREFILLING" => /\ m.pool.owns[r] # << >>
                                 /\ m.len[r] = q.prefilled
                                 /\ Len(m.pool.owns[r]) <= BlocksFor(Len(PrefillIds(q)))

\* An exact entry predicts what the model would.
PredsRight(m) == \A s \in Prompts : Present(m, ExactOwner(s)) => m.pred[s] = Model(s)

\* The rows and chunks, as <<request, count>>, that hold the pages they will write.
Grants ==
    {<<r, 1>> : r \in {x \in ToSet(rows) :
        req[x].state = "DECODING" /\ pc \notin {"idle", "commitD", "commitP"}}}
    \cup {p \in ToSet(plans) :
            /\ pc \in {"prefillCap", "forward"}
            /\ req[p[1]].state = "PREFILLING"
            /\ pc = "prefillCap" => p \notin ToSet(todo)}

\* Those that are written and wait for their commit.
Writes ==
    {<<r, 1>> : r \in {x \in ToSet(todo) : pc = "commitD"}}
    \cup {p \in ToSet(plans) : pc = "commitD" /\ Fused}
    \cup {p \in ToSet(todo) : pc = "commitP"}

\* The memory m and the requests rq agree, with the rows and chunks in flight.
MemoryAgrees(m, rq, grants, writes) ==
    /\ MemoryOK(m, StoriesOf(rq))
    /\ PredsRight(m)
    /\ \A r \in Req : PagesOf(m, r, rq[r])
    /\ \A g \in grants : Ready(m, g[1], g[2])
    /\ \A w \in writes : Covers(m, w[1], w[2], Story(rq[w[1]]))

\* A planned chunk stays within what is left to prefill.
PlansFit ==
    /\ plans \in Seq(Created \X (1 .. ChunkSize))
    /\ pc \in {"idle", "decodeCap", "decode", "admit", "exact", "plan"} => plans = << >>
    /\ pc \in {"prefillCap", "forward", "commitD"} =>
          \A p \in ToSet(plans) : req[p[1]].state = "PREFILLING" =>
             req[p[1]].prefilled + p[2] <= Len(PrefillIds(req[p[1]]))
    /\ pc = "commitD" /\ ~Fused => plans = << >>
    /\ pc = "commitP" => \A p \in ToSet(todo) :
             req[p[1]].prefilled + p[2] <= Len(PrefillIds(req[p[1]]))
    /\ pc = "prefillCap" => ToSet(todo) \subseteq ToSet(plans)

\* Outside the loop that gathers them, the rows kept for a fused step are decoding.
RowsFit ==
    pc \in {"admit", "exact", "plan"} => \A r \in ToSet(rows) : req[r].state = "DECODING"

MemoryInv ==
    /\ MemoryAgrees(mem, req, Grants, Writes)
    /\ Books /\ PlansFit /\ RowsFit

-----------------------------------------------------------------------------
(* Memory and requests move together. *)

LEMMA SparedPages ==
    ASSUME NEW m, NEW x, NEW y, NEW q, Spared(m, x, y), PagesOf(m, y, q)
    PROVE  PagesOf(x, y, q)
  BY DEF Spared, Keeps, PagesOf

LEMMA SparedReady ==
    ASSUME NEW m \in Memory, NEW x, NEW y \in Req, NEW c \in Nat, Spared(m, x, y), Ready(m, y, c)
    PROVE  Ready(x, y, c)
  <1>1. x.pool.owns[y] = m.pool.owns[y] /\ x.len[y] = m.len[y]
    BY DEF Spared, Keeps
  <1>2. m.len[y] \in Nat /\ Len(m.pool.owns[y]) \in Nat
    BY MemoryFields DEF PageOwner
  <1>3. ASSUME m.len[y] % BlockSize # 0
        PROVE  Alone(x, y, BlocksFor(m.len[y]))
    <2>1. m.len[y] # 0
      <3>1. BlockSize \in Nat \ {0} /\ 0 \in 0 .. BlockSize - 1
        BY KVAssumption
      <3>2. (BlockSize * 0 + 0) % BlockSize = 0
        BY <3>1, DivUnique
      <3>3. BlockSize * 0 + 0 = 0
        BY <3>1
      <3> QED BY <3>2, <3>3, <1>3
    <2>2. BlocksFor(m.len[y]) \in Nat \ {0} /\ BlocksFor(m.len[y] + c) \in Nat
      <3>1. m.len[y] \in Nat \ {0} /\ m.len[y] + c \in Nat
        BY <1>2, <2>1
      <3>2. PageOf(m.len[y]) \in Nat \ {0}
        BY <3>1, PositionParts
      <3>3. BlocksFor(m.len[y]) = PageOf(m.len[y])
        BY <1>2, <2>1, BlocksForPage
      <3>4. BlocksFor(m.len[y] + c) \in Nat
        BY <3>1, BlocksForPage
      <3> QED BY <3>2, <3>3, <3>4
    <2>3. BlocksFor(m.len[y]) <= BlocksFor(m.len[y] + c)
      BY <1>2, BlocksMonotone
    <2>4. BlocksFor(m.len[y] + c) <= Len(m.pool.owns[y])
      BY DEF Ready
    <2>5. BlocksFor(m.len[y]) \in 1 .. Len(m.pool.owns[y])
      BY <1>2, <2>2, <2>3, <2>4
    <2>6. Alone(m, y, BlocksFor(m.len[y]))
      BY <1>3 DEF Ready
    <2> QED BY <2>5, <2>6 DEF Spared
  <1> QED BY <1>1, <1>3 DEF Ready

LEMMA SparedCovers ==
    ASSUME NEW m \in Memory, NEW x \in Memory, NEW y \in Req, NEW c \in Nat, NEW u,
           Spared(m, x, y), Covers(m, y, c, u)
    PROVE  Covers(x, y, c, u)
  <1>1. Keeps(m, x, y) /\ x.len[y] = m.len[y] /\ y \in PageOwner
    BY DEF Spared, PageOwner
  <1>2. m.len[y] \in Nat
    BY MemoryFields
  <1>3. Reads(x, y, u, m.len[y] + c)
    BY <1>1, <1>2, KeepsReads DEF Covers
  <1> QED BY <1>1, <1>3 DEF Covers

LEMMA PredsRightKept ==
    ASSUME NEW m, NEW x, PredsRight(m), PredsKept(m, x)
    PROVE  PredsRight(x)
  BY DEF PredsRight, PredsKept

\* Pairs of a request and a count of tokens.
Pairs(A) == \A g \in A : g[1] \in Req /\ g[2] \in Nat

\* Each grant of B is one of A for another request than r, or is freshly ready in x.
GrantsMove(A, B, x, r) ==
    \A g \in B : (g \in A /\ g[1] # r) \/ Ready(x, g[1], g[2])

WritesMove(A, B, x, r, rq) ==
    \A w \in B : (w \in A /\ w[1] # r) \/ Covers(x, w[1], w[2], Story(rq[w[1]]))

\* Only r differs between rq and rq2.
Elsewhere(rq, rq2, r) == \A y \in Req \ {r} : rq2[y] = rq[y]

\* r moves from rq to rq2 and the memory from m to x; nobody else notices.
Moves(m, x, r, rq, rq2) ==
    /\ Elsewhere(rq, rq2, r)
    /\ MemoryOK(x, StoriesOf(rq2))
    /\ Spares(m, x, Req \ {r})
    /\ PredsRight(x)
    /\ PagesOf(x, r, rq2[r])

LEMMA OneMoves ==
    ASSUME NEW m, NEW x, NEW rq, NEW rq2, NEW r \in Req, NEW A, NEW B, NEW C, NEW D,
           Pairs(A), Pairs(C), MemoryAgrees(m, rq, A, C), Moves(m, x, r, rq, rq2),
           GrantsMove(A, B, x, r), WritesMove(C, D, x, r, rq2)
    PROVE  MemoryAgrees(x, rq2, B, D)
  <1>1. m \in Memory /\ x \in Memory
    BY DEF MemoryAgrees, Moves, MemoryOK, CacheOK
  <1>2. ASSUME NEW y \in Req PROVE PagesOf(x, y, rq2[y])
    <2>1. CASE y = r
      BY <2>1 DEF Moves
    <2>2. CASE y # r
      <3>1. Spared(m, x, y) /\ rq2[y] = rq[y]
        BY <2>2 DEF Moves, Elsewhere, Spares
      <3>2. PagesOf(m, y, rq[y])
        BY DEF MemoryAgrees
      <3> QED BY <3>1, <3>2, SparedPages
    <2> QED BY <2>1, <2>2
  <1>3. ASSUME NEW g \in B PROVE Ready(x, g[1], g[2])
    <2>1. CASE g \in A /\ g[1] # r
      <3>1. g[1] \in Req /\ g[2] \in Nat
        BY <2>1 DEF Pairs
      <3>2. Spared(m, x, g[1])
        BY <2>1, <3>1 DEF Moves, Spares
      <3>3. Ready(m, g[1], g[2])
        BY <2>1 DEF MemoryAgrees
      <3> QED BY <3>1, <3>2, <3>3, <1>1, SparedReady
    <2> QED BY <2>1 DEF GrantsMove
  <1>4. ASSUME NEW w \in D PROVE Covers(x, w[1], w[2], Story(rq2[w[1]]))
    <2>1. CASE w \in C /\ w[1] # r
      <3>1. w[1] \in Req /\ w[2] \in Nat
        BY <2>1 DEF Pairs
      <3>2. Spared(m, x, w[1]) /\ rq2[w[1]] = rq[w[1]]
        BY <2>1, <3>1 DEF Moves, Elsewhere, Spares
      <3>3. Covers(m, w[1], w[2], Story(rq[w[1]]))
        BY <2>1 DEF MemoryAgrees
      <3> QED BY <3>1, <3>2, <3>3, <1>1, SparedCovers
    <2> QED BY <2>1 DEF WritesMove
  <1> QED BY <1>2, <1>3, <1>4 DEF MemoryAgrees, Moves

\* With the same memory and requests, fewer promises hold.
LEMMA FewerPromises ==
    ASSUME NEW m, NEW rq, NEW A, NEW C, MemoryAgrees(m, rq, A, C), NEW B \in SUBSET A, NEW D \in SUBSET C
    PROVE  MemoryAgrees(m, rq, B, D)
  BY DEF MemoryAgrees

\* What is promised is promised to requests.
LEMMA PromisesTyped ==
    ASSUME EngineInv, PlansFit
    PROVE  Pairs(Grants) /\ Pairs(Writes)
  <1>1. \A r \in ToSet(rows) : r \in Req
    <2>1. rows \in Seq(Req)
      BY DEF EngineInv, LoopOK
    <2> QED BY <2>1, ToSetIndexed
  <1>2. ASSUME NEW p \in ToSet(plans) PROVE p[1] \in Req /\ p[2] \in Nat
    <2>1. ToSet(plans) \subseteq Created \X (1 .. ChunkSize)
      BY ToSetIndexed DEF PlansFit
    <2>2. p \in Created \X (1 .. ChunkSize)
      BY <2>1
    <2> QED BY <2>2 DEF Created
  <1>3. ASSUME pc = "commitD", NEW r \in ToSet(todo) PROVE r \in Req
    <2>1. todo \in Seq(Req)
      BY <1>3 DEF EngineInv, LoopOK, RequestsIn
    <2> QED BY <1>3, <2>1, ToSetIndexed
  <1>4. ASSUME pc = "commitP", NEW p \in ToSet(todo) PROVE p[1] \in Req /\ p[2] \in Nat
    <2>1. IsPlan(todo)
      BY <1>4 DEF EngineInv, LoopOK, PlanIn
    <2>2. PICK i \in 1 .. Len(todo) : todo[i] = p
      BY <1>4, <2>1, ToSetIndexed DEF IsPlan, IsSeq
    <2>3. p[2] \in Nat \ {0} /\ p[1] \in Req
      BY <2>1, <2>2 DEF IsPlan
    <2> QED BY <2>3
  <1>5. ASSUME NEW g \in Grants PROVE g[1] \in Req /\ g[2] \in Nat
    <2>1. CASE \E r \in ToSet(rows) : g = <<r, 1>>
      BY <2>1, <1>1
    <2>2. CASE g \in ToSet(plans)
      BY <2>2, <1>2
    <2> QED BY <2>1, <2>2 DEF Grants
  <1>6. ASSUME NEW g \in Writes PROVE g[1] \in Req /\ g[2] \in Nat
    <2>1. CASE \E r \in ToSet(todo) : pc = "commitD" /\ g = <<r, 1>>
      BY <2>1, <1>3
    <2>2. CASE g \in ToSet(plans)
      BY <2>2, <1>2
    <2>3. CASE pc = "commitP" /\ g \in ToSet(todo)
      BY <2>3, <1>4
    <2> QED BY <2>1, <2>2, <2>3 DEF Writes
  <1> QED BY <1>5, <1>6 DEF Pairs

-----------------------------------------------------------------------------
(* What a request that moves leaves behind. *)

LEMMA ReadsPrefix ==
    ASSUME NEW m, NEW o, NEW s, NEW n \in Nat, Reads(m, o, s, n), Len(m.pool.owns[o]) \in Nat,
           NEW k \in 0 .. n, NEW u, \A q \in 1 .. k : Prefix(u, q) = Prefix(s, q)
    PROVE  Reads(m, o, u, k)
  <1>1. BlocksFor(k) <= BlocksFor(n) /\ BlocksFor(k) \in Nat /\ BlocksFor(n) \in Nat
    BY BlocksMonotone, BlocksForPage
  <1>2. BlocksFor(n) <= Len(m.pool.owns[o]) /\ \A q \in 1 .. n : Slot(m, o, q) = Prefix(s, q)
    BY DEF Reads
  <1>3. BlocksFor(k) <= Len(m.pool.owns[o])
    BY <1>1, <1>2
  <1>4. \A q \in 1 .. k : Slot(m, o, q) = Prefix(u, q)
    BY <1>2
  <1> QED BY <1>3, <1>4 DEF Reads

\* The token the sampler returns for r, when r's pages read as s.
LEMMA SampledIsNext ==
    ASSUME ModelTyped, NEW t, MemoryOK(mem, t), NEW r \in Req, NEW s \in Seq(Token),
           NEW n \in Nat, n <= Len(s), Reads(mem, r, s, n), NEW a \in Sampled(r, n)
    PROVE  a \in Token /\ (req[r].kind.greedy => a = Model(Prefix(s, n)))
  <1>1. mem \in Memory /\ r \in PageOwner /\ n \in 0 .. Len(s)
    BY DEF MemoryOK, CacheOK, PageOwner
  <1>2. Context(mem, r, n) = Prefix(s, n)
    BY <1>1, ReadsContext DEF ReadsBack
  <1>3. Prefix(s, n) \in Seq(Token)
    BY <1>1 DEF Prefix
  <1>4. Model(Prefix(s, n)) \in Token
    BY <1>3 DEF ModelTyped
  <1>5. CASE req[r].kind.greedy
    BY <1>2, <1>4, <1>5 DEF Sampled
  <1>6. CASE ~req[r].kind.greedy
    BY <1>6 DEF Sampled
  <1> QED BY <1>5, <1>6

\* r gives its pages back.
LEMMA LeaveMoves ==
    ASSUME NEW m, NEW x, NEW rq, NEW rq2, NEW r \in Req,
           StoriesOf(rq) \in [Req -> Seq(Token)], MemoryOK(x, StoriesOf(rq)),
           Spares(m, x, Req \ {r}), PredsRight(x),
           Elsewhere(rq, rq2, r), rq2[r].state \notin Running
    PROVE  Moves(m, Drop(x, r), r, rq, rq2)
  <1> DEFINE t == StoriesOf(rq)
             u == StoriesOf(rq2)
             z == Drop(x, r)
  <1>1. Story(rq2[r]) = << >> /\ << >> \in Seq(Token)
    BY DEF Story
  <1>2. u = [t EXCEPT ![r] = << >>]
    <2>1. StoriesOf(rq2) = [StoriesOf(rq) EXCEPT ![r] = Story(rq2[r])]
      BY DEF StoriesOf, Elsewhere
    <2> QED BY <2>1, <1>1
  <1>3. t \in [Req -> Seq(Token)] /\ MemoryOK(x, t)
    OBVIOUS
  <1> HIDE DEF t, u, z
  <1>4. /\ MemoryOK(z, [t EXCEPT ![r] = << >>])
        /\ z.len = [x.len EXCEPT ![r] = 0] /\ z.pool.owns[r] = << >> /\ Apart(x, z, r)
    BY <1>1, <1>3, DropKeeps DEF z
  <1>5. Spares(m, z, Req \ {r})
    BY <1>4, SparesAgain DEF Apart
  <1>6. PredsRight(z)
    BY <1>4, PredsRightKept DEF Apart
  <1>7. z.len[r] = 0
    <2>1. x \in Memory
      BY <1>3 DEF MemoryOK, CacheOK
    <2>2. x.len \in [Req -> Nat]
      BY <2>1, MemoryFields
    <2> QED BY <2>2, <1>4
  <1>8. PagesOf(z, r, rq2[r])
    BY <1>4, <1>7 DEF PagesOf, Running
  <1> QED BY <1>2, <1>4, <1>5, <1>6, <1>8 DEF Moves, u, z

\* r goes on, with the same sequence as far as it is computed.
LEMMA StayMoves ==
    ASSUME NEW m, NEW x, NEW rq, NEW rq2, NEW r \in Req,
           StoriesOf(rq) \in [Req -> Seq(Token)], MemoryOK(x, StoriesOf(rq)),
           Spares(m, x, Req \ {r}), PredsRight(x),
           Elsewhere(rq, rq2, r),
           NEW s \in Seq(Token), s = Story(rq2[r]), Follows(s, Story(rq[r]), x.len[r]),
           PagesOf(x, r, rq2[r])
    PROVE  Moves(m, x, r, rq, rq2)
  <1> DEFINE t == StoriesOf(rq)
             u == StoriesOf(rq2)
  <1>1. u = [t EXCEPT ![r] = s]
    <2>1. StoriesOf(rq2) = [StoriesOf(rq) EXCEPT ![r] = Story(rq2[r])]
      BY DEF StoriesOf, Elsewhere
    <2> QED BY <2>1
  <1>2. t \in [Req -> Seq(Token)] /\ MemoryOK(x, t) /\ t[r] = Story(rq[r])
    BY DEF StoriesOf
  <1> HIDE DEF t, u
  <1>3. MemoryOK(x, [t EXCEPT ![r] = s])
    BY <1>2, Retarget DEF Follows
  <1> QED BY <1>1, <1>3 DEF Moves, u

\* m is the memory after r made progress in its own pages.
Progressed(m, r) ==
    MemoryOK(m, StoriesOf(req)) /\ Spares(mem, m, Req \ {r}) /\ PredsRight(m)

\* u is q with the token t behind its output, decoding from there.
TokenTo(q, u, t) ==
    /\ IsRequest(u)
    /\ u.kind = q.kind /\ u.out = Append(q.out, t) /\ u.next = t
    /\ u.state = "DECODING" /\ u.cachedNext = q.cachedNext

\* r moves with the memory, and its books are in order.
MovesBooked(r) ==
    Moves(mem, mem', r, req, req') /\ RequestBooks(req'[r])

\* append_token, and finish when the token ends the request.
LEMMA AppendTokenMoves ==
    ASSUME ModelTyped, RequestsOK, Books, NEW r \in Live, NEW m, Progressed(m, r),
           m.pool.owns[r] # << >>, m.len[r] = Len(Story(req[r])),
           NEW t \in Token, req[r].kind.greedy => t = Model(Story(req[r])),
           NEW u, TokenTo(req[r], u, t), AppendToken(m, r, u)
    PROVE  MovesBooked(r) /\ req'[r].state \in {"DECODING", "FINISHED"}
  <1> DEFINE q == req[r]
             s == Story(q)
  <1>0. q = req[r] /\ s = Story(q)
    OBVIOUS
  <1>1. /\ r \in Req /\ RequestBooks(q) /\ q.kind \in Workload /\ q.out \in Seq(Token)
        /\ q.state \notin Terminal /\ s = q.kind.prompt \o q.out /\ s \in Seq(Token)
        /\ Len(s) = Len(q.kind.prompt) + Len(q.out) /\ q.kind.prompt \in Seq(Token)
        /\ Len(q.kind.prompt) \in Nat /\ Len(q.out) \in Nat
    BY RunningFacts
  <1>2. StoriesOf(req) \in [Req -> Seq(Token)]
    BY StoriesTyped DEF Books
  <1>3. /\ IsRequest(u) /\ u.kind = q.kind /\ u.out = Append(q.out, t) /\ u.next = t
        /\ u.state = "DECODING" /\ u.cachedNext = q.cachedNext
    BY DEF TokenTo
  <1>4. MemoryOK(m, StoriesOf(req)) /\ Spares(mem, m, Req \ {r}) /\ PredsRight(m)
    BY DEF Progressed
  <1>5. q.kind.greedy => t = Model(q.kind.prompt \o q.out)
    BY <1>1
  <1>6. OutputOK(q) /\ q.next \in Value /\ q.cachedNext \in Value
    BY <1>1 DEF RequestBooks, Value
  <1>7. FinishReason(u) = ReasonOf(u.kind, u.out)
    BY ReasonIs
  <1>8. "DECODING" \notin Terminal /\ "FINISHED" \in Terminal
    BY DEF Terminal
  <1> HIDE DEF q, s
  <1>9. CASE FinishReason(u) = "none"
    <2>1. mem' = m /\ req' = [req EXCEPT ![r] = u]
      BY <1>9 DEF AppendToken
    <2>2. req'[r] = u /\ Only(r)
      BY <2>1, <1>1, Assigned
    <2>3. Answers(q, u, t)
      BY <1>3, <1>7, <1>8, <1>9 DEF Answers
    <2>4. OutputOK(u) /\ u.out # << >> /\ Last(u.out) = t /\ Len(u.out) = Len(q.out) + 1
      BY <2>3, <1>1, <1>5, <1>6, OutputAppended
    <2>5. PhaseOK(u)
      BY <2>4, <1>3 DEF PhaseOK
    <2>6. RequestBooks(u)
      BY <2>4, <2>5, <1>1, <1>3, <1>6 DEF RequestBooks, Value
    <2>7. Story(u) = Append(s, t)
      <3>1. Story(u) = q.kind.prompt \o Append(q.out, t)
        BY <1>3 DEF Story, Running
      <3>2. q.kind.prompt \o Append(q.out, t) = Append(q.kind.prompt \o q.out, t)
        BY <1>1, AppendInside
      <3> QED BY <3>1, <3>2, <1>1
    <2>8. Follows(Story(u), s, Len(s)) /\ Story(u) \in Seq(Token)
      <3>1. s \in Seq(Token)
        BY <1>1
      <3>2. Len(s) \in Nat /\ Len(s) <= Len(s)
        BY <3>1, LenProperties
      <3>3. Follows(Append(s, t), s, Len(s)) /\ Append(s, t) \in Seq(Token)
        BY <3>1, <3>2, FollowsAppend
      <3> QED BY <2>7, <3>3
    <2>9. PagesOf(m, r, u)
      BY <2>4, <1>0, <1>1, <1>3, SMTT(30) DEF PagesOf, Running
    <2>10. Elsewhere(req, req', r)
      BY <2>2 DEF Elsewhere, Only
    <2>11. Moves(mem, m, r, req, req')
      <3>1. m.len[r] = Len(s) /\ s = Story(req[r])
        BY <1>0
      <3> QED BY <3>1, <2>2, <2>8, <2>9, <2>10, <1>1, <1>2, <1>4, StayMoves
    <2> QED BY <2>1, <2>2, <2>6, <2>11, <1>3 DEF MovesBooked
  <1>10. CASE FinishReason(u) # "none"
    <2> DEFINE e == Ended(u, "FINISHED", FinishReason(u))
    <2>1. mem' = Drop(m, r) /\ req' = [req EXCEPT ![r] = e]
      BY <1>10 DEF AppendToken, Retire
    <2>2. req'[r] = e /\ Only(r)
      BY <2>1, <1>1, Assigned
    <2>3. /\ e.state = "FINISHED" /\ e.reason = FinishReason(u) /\ e.kind = u.kind
          /\ e.out = u.out /\ e.next = u.next /\ e.cachedNext = u.cachedNext
      BY <1>3, EndedFields
    <2> HIDE DEF e
    <2>4. Answers(q, e, t)
      BY <2>3, <1>3, <1>7, <1>8 DEF Answers
    <2>5. OutputOK(e)
      BY <2>4, <1>1, <1>5, <1>6, OutputAppended
    <2>6. PhaseOK(e)
      BY <2>3 DEF PhaseOK
    <2>7. RequestBooks(e)
      BY <2>3, <2>5, <2>6, <1>1, <1>3, <1>6 DEF RequestBooks, Value
    <2>8. Elsewhere(req, req', r) /\ req'[r].state \notin Running
      BY <2>2, <2>3 DEF Elsewhere, Only, Running
    <2>9. Moves(mem, mem', r, req, req')
      BY <2>1, <2>8, <1>1, <1>2, <1>4, LeaveMoves
    <2> QED BY <2>2, <2>3, <2>7, <2>9 DEF MovesBooked
  <1> QED BY <1>9, <1>10

\* q says of itself what p says, but for how far its prefill came.
SameRequest(p, q) ==
    /\ IsRequest(q)
    /\ q.state = p.state /\ q.kind = p.kind /\ q.out = p.out /\ q.next = p.next
    /\ q.cachedNext = p.cachedNext /\ q.resuming = p.resuming

LEMMA SameSelf ==
    ASSUME NEW q, IsRequest(q)
    PROVE  SameRequest(q, q)
  BY DEF SameRequest

\* r ends without an answer.
LEMMA EndMoves ==
    ASSUME RequestsOK, Books, NEW r \in Live, NEW m, Progressed(m, r),
           NEW q, SameRequest(req[r], q), NEW state \in {"FAILED", "CANCELLED"}, NEW reason,
           mem' = Drop(m, r), req' = [req EXCEPT ![r] = Ended(q, state, reason)]
    PROVE  MovesBooked(r) /\ req'[r].state = state
  <1> DEFINE e == Ended(q, state, reason)
  <1>1. r \in Req /\ RequestBooks(req[r]) /\ req[r].state \notin Terminal
    BY RunningFacts
  <1>2. StoriesOf(req) \in [Req -> Seq(Token)]
    BY StoriesTyped DEF Books
  <1>3. /\ IsRequest(q) /\ q.kind = req[r].kind /\ q.out = req[r].out /\ q.next = req[r].next
        /\ q.cachedNext = req[r].cachedNext
    BY DEF SameRequest
  <1>4. /\ e.state = state /\ e.kind = q.kind /\ e.out = q.out
        /\ e.next = q.next /\ e.cachedNext = q.cachedNext
    BY <1>3, EndedFields
  <1>5. req'[r] = e /\ Only(r)
    BY <1>1, Assigned
  <1> HIDE DEF e
  <1>6. e.state \in Terminal /\ e.state # "FINISHED" /\ e.state \notin Running
        /\ e.state \notin {"WAITING", "PREFILLING", "DECODING"}
    BY <1>4 DEF Terminal, Running
  <1>7. OutputOK(e)
    BY <1>1, <1>3, <1>4, <1>6, OutputSame DEF RequestBooks
  <1>8. PhaseOK(e)
    BY <1>6 DEF PhaseOK
  <1>9. RequestBooks(e)
    BY <1>1, <1>3, <1>4, <1>7, <1>8 DEF RequestBooks
  <1>10. Elsewhere(req, req', r) /\ req'[r].state \notin Running
    BY <1>5, <1>6 DEF Elsewhere, Only
  <1>11. Moves(mem, mem', r, req, req')
    BY <1>1, <1>2, <1>10, LeaveMoves DEF Progressed
  <1> QED BY <1>4, <1>5, <1>9, <1>11 DEF MovesBooked

\* r's pages are shared with the cache; a predicted token is the model's.
LEMMA PublishProgress ==
    ASSUME RequestsOK, Books, NEW r \in Live, NEW m, Progressed(m, r),
           NEW p, p = req[r].kind.prompt, Len(p) <= m.len[r], NEW next \in Value,
           next # NoToken => /\ m.len[r] = Len(p) /\ next = Model(p)
                             /\ Len(m.pool.owns[r]) <= BlocksFor(m.len[r]),
           NEW x, x = Publish(m, r, p, next)
    PROVE  Progressed(x, r) /\ x.len[r] = m.len[r] /\ x.pool.owns[r] = m.pool.owns[r]
  <1> DEFINE s == Story(req[r])
             t == StoriesOf(req)
  <1>1. /\ r \in Req /\ req[r].kind.prompt \in Prompts /\ s = req[r].kind.prompt \o req[r].out
        /\ s \in Seq(Token) /\ t[r] = s /\ req[r].kind.prompt \in Seq(Token)
        /\ req[r].out \in Seq(Token)
    BY RunningFacts
  <1>2. MemoryOK(m, t) /\ Spares(mem, m, Req \ {r}) /\ PredsRight(m)
    BY DEF Progressed
  <1>3. Reads(m, r, s, m.len[r]) /\ m.len[r] <= Len(s)
    BY <1>1, <1>2 DEF MemoryOK, RequestOK
  <1>4. m.len[r] \in Nat /\ Len(m.pool.owns[r]) \in Nat /\ r \in PageOwner
    <2>1. m \in Memory
      BY <1>2 DEF MemoryOK, CacheOK
    <2> QED BY <2>1, <1>1, MemoryFields, SMTT(30) DEF PageOwner
  <1>5. Reads(m, r, p, Len(p))
    <2> HIDE DEF s, t
    <2>o. p \in Seq(Token) /\ req[r].out \in Seq(Token) /\ s = p \o req[r].out
      BY <1>1
    <2>1. p \in Seq(Token) /\ Len(p) \in Nat /\ Len(p) <= Len(s) /\ \A i \in 1 .. Len(p) : s[i] = p[i]
      <3> DEFINE o == req[r].out
      <3>1. p \in Seq(Token) /\ o \in Seq(Token) /\ s = p \o o
        BY <2>o
      <3> HIDE DEF o
      <3> QED BY <3>1, ConcatProperties, LenProperties
    <2>2. \A q \in 1 .. Len(p) : Prefix(s, q) = Prefix(p, q)
      <3>1. s \in Seq(Token) /\ Len(p) <= Len(p)
        BY <2>1, <1>1, SMTT(30)
      <3>2. \A i \in 1 .. Len(p) : p[i] = s[i]
        BY <2>1
      <3> QED BY <2>1, <3>1, <3>2, SamePrefixes
    <2>3. Len(p) \in 0 .. m.len[r]
      BY <2>1, <1>4
    <2> QED BY <2>2, <2>3, <1>3, <1>4, ReadsPrefix
  <1>6. next # NoToken => \A i \in 1 .. BlocksFor(Len(p)) : ~Ahead(m, r, i)
    <2> SUFFICES ASSUME next # NoToken, NEW i \in 1 .. BlocksFor(Len(p)) PROVE ~Ahead(m, r, i)
      OBVIOUS
    <2>1. m.len[r] = Len(p) /\ Len(m.pool.owns[r]) <= BlocksFor(m.len[r])
      OBVIOUS
    <2>2. BlocksFor(m.len[r]) \in Nat
      BY <1>4, BlocksForPage
    <2> QED BY <2>1, <2>2, <1>4 DEF Ahead
  <1> HIDE DEF s, t
  <1>7. Published(m, x, t, r, p, next)
    BY <1>1, <1>2, <1>5, <1>6, PublishKeeps
  <1>8. MemoryOK(x, t) /\ x.len = m.len /\ Spares(m, x, Req \ {r})
        /\ (next # NoToken => PredsSet(m, x, p, next)) /\ (next = NoToken => PredsKept(m, x))
        /\ \A y \in PageOwner \ CacheOwner : x.pool.owns[y] = m.pool.owns[y]
    BY <1>7 DEF Published
  <1>9. Spares(mem, x, Req \ {r})
    BY <1>2, <1>8, SparesAgain
  <1>10. PredsRight(x)
    <2>1. CASE next = NoToken
      BY <2>1, <1>2, <1>8, PredsRightKept
    <2>2. CASE next # NoToken
      BY <2>2, <1>2, <1>8 DEF PredsRight, PredsSet
    <2> QED BY <2>1, <2>2
  <1>11. x.pool.owns[r] = m.pool.owns[r]
    BY <1>1, <1>4, <1>8, OwnersDiffer
  <1> QED BY <1>8, <1>9, <1>10, <1>11 DEF Progressed, t

\* _complete_prefill: r has computed all it must before it can decode.
LEMMA CompletePrefillMoves ==
    ASSUME ModelTyped, RequestsOK, Books, NEW r \in Live, req[r].state = "PREFILLING",
           NEW m, Progressed(m, r), m.len[r] = Len(PrefillIds(req[r])),
           m.pool.owns[r] # << >>, Len(m.pool.owns[r]) <= BlocksFor(m.len[r]),
           NEW q, SameRequest(req[r], q), NEW t,
           ~q.resuming => t \in Token /\ (q.kind.greedy => t = Model(q.kind.prompt)),
           CompletePrefill(m, r, q, t)
    PROVE  MovesBooked(r) /\ req'[r].state \in {"DECODING", "FINISHED", "FAILED"}
  <1> DEFINE p == req[r].kind.prompt
             o == req[r].out
             s == Story(req[r])
             ids == PrefillIds(req[r])
  <1>0. p = req[r].kind.prompt /\ o = req[r].out /\ s = Story(req[r]) /\ ids = PrefillIds(req[r])
    OBVIOUS
  <1>1. /\ r \in Req /\ RequestBooks(req[r]) /\ req[r].kind \in Workload /\ o \in Seq(Token)
        /\ req[r].state \notin Terminal /\ s = p \o o /\ s \in Seq(Token)
        /\ Len(s) = Len(p) + Len(o) /\ p \in Seq(Token) /\ Len(p) \in Nat /\ Len(o) \in Nat
    BY RunningFacts
  <1>2. req[r].resuming <=> o # << >>
    BY <1>1 DEF RequestBooks, PhaseOK
  <1>3. /\ Len(ids) <= Len(s) /\ Len(ids) \in Nat
        /\ o = << >> => ids = p
        /\ o # << >> => Len(ids) = Len(s) - 1 /\ Len(p) <= Len(ids)
    BY <1>1, <1>2, StoryFacts
  <1>4. /\ IsRequest(q) /\ q.kind = req[r].kind /\ q.out = o /\ q.next = req[r].next
        /\ q.cachedNext = req[r].cachedNext /\ q.resuming = req[r].resuming
    BY DEF SameRequest
  <1>5. StoriesOf(req) \in [Req -> Seq(Token)]
    BY StoriesTyped DEF Books
  <1>6. OutputOK(req[r]) /\ req[r].next \in Value /\ req[r].cachedNext \in Value
    BY <1>1 DEF RequestBooks, Value
  <1> HIDE DEF p, o, s, ids
  <1>7. q.kind.prompt = p
    BY <1>0, <1>4
  <1>f. {"state", "kind", "out", "next", "cachedNext", "resuming", "recomputing", "prefilled"}
           \subseteq DOMAIN q
    <2>1. q = [f \in Fields |-> q[f]]
      BY <1>4 DEF IsRequest
    <2>2. DOMAIN q = Fields
      BY <2>1
    <2> QED BY <2>2 DEF Fields
  <1>8. CASE q.resuming
    <2> DEFINE d == [q EXCEPT !.state = "DECODING", !.next = Last(q.out),
                              !.recomputing = FALSE, !.resuming = FALSE,
                              !.prefilled = Len(q.kind.prompt)]
    <2>1. mem' = Publish(m, r, q.kind.prompt, NoToken) /\ req' = [req EXCEPT ![r] = d]
      BY <1>8 DEF CompletePrefill
    <2>2. o # << >>
      BY <1>2, <1>4, <1>8
    <2>3. /\ d.state = "DECODING" /\ d.next = Last(o) /\ d.kind = req[r].kind /\ d.out = o
          /\ d.cachedNext = req[r].cachedNext
      BY <1>4, <1>f
    <2>4. req'[r] = d /\ Only(r)
      BY <2>1, <1>1, Assigned
    <2> HIDE DEF d
    <2>5. Last(o) \in Token
      BY <2>2, <1>1, FrontFacts
    <2>6. OutputOK(d)
      BY <2>3, <1>0, <1>1, <1>6, OutputSame
    <2>7. PhaseOK(d)
      BY <2>2, <2>3 DEF PhaseOK
    <2>8. RequestBooks(d)
      BY <2>3, <2>5, <2>6, <2>7, <1>1, <1>6 DEF RequestBooks, Value
    <2>9. Progressed(mem', r) /\ mem'.len[r] = m.len[r] /\ mem'.pool.owns[r] = m.pool.owns[r]
      <3>1. Len(p) <= m.len[r] /\ NoToken \in Value
        BY <2>2, <1>0, <1>3 DEF Value
      <3> QED BY <3>1, <2>1, <1>0, <1>7, PublishProgress
    <2>10. Story(d) = s
      BY <2>3, <1>0, <1>1 DEF Story, Running
    <2>11. Follows(s, s, m.len[r])
      BY <1>0, <1>3 DEF Follows
    <2>12. PagesOf(mem', r, d)
      <3>1. m.len[r] = Len(p) + Len(o) - 1
        <4>1. Len(ids) = Len(s) - 1
          BY <2>2, <1>3, Zenon
        <4>2. Len(s) = Len(p) + Len(o)
          BY <1>1
        <4>3. m.len[r] = Len(ids)
          BY <1>0, Zenon
        <4> QED BY <4>1, <4>2, <4>3
      <3>2. mem'.pool.owns[r] # << >>
        BY <2>9
      <3>3. mem'.len[r] = Len(d.kind.prompt) + Len(d.out) - 1
        BY <3>1, <2>3, <2>9, <1>0
      <3> QED BY <3>2, <3>3, <2>3 DEF PagesOf, Running
    <2>13. Moves(mem, mem', r, req, req')
      <3>1. Elsewhere(req, req', r)
        BY <2>4 DEF Elsewhere, Only
      <3> QED BY <3>1, <2>4, <2>9, <2>10, <2>11, <2>12, <1>0, <1>1, <1>5, StayMoves DEF Progressed
    <2> QED BY <2>3, <2>4, <2>8, <2>13 DEF MovesBooked
  <1>9. CASE ~q.resuming /\ t = NoToken
    <2>1. mem' = Drop(m, r)
          /\ req' = [req EXCEPT ![r] = Ended(q, "FAILED", "INVALID_PREFIX_ENTRY")]
      BY <1>9 DEF CompletePrefill, Retire
    <2> QED BY <2>1, EndMoves
  <1>10. CASE ~q.resuming /\ t # NoToken
    <2> DEFINE u == [q EXCEPT !.state = "DECODING", !.next = t, !.recomputing = FALSE,
                              !.out = Append(@, t)]
               next == IF q.kind.greedy THEN t ELSE NoToken
               x == Publish(m, r, q.kind.prompt, next)
    <2>1. AppendToken(x, r, u)
      BY <1>10 DEF CompletePrefill
    <2>2. o = << >> /\ ids = p /\ s = p
      <3>1. o = << >>
        BY <1>2, <1>4, <1>10
      <3>2. p \o << >> = p
        BY <1>1, ConcatEmptySeq
      <3> QED BY <3>1, <3>2, <1>1, <1>3
    <2>3. t \in Token /\ (q.kind.greedy => t = Model(p))
      BY <1>7, <1>10
    <2>4. TokenTo(req[r], u, t)
      <3>1. /\ u.kind = q.kind /\ u.out = Append(q.out, t) /\ u.next = t
            /\ u.state = "DECODING" /\ u.cachedNext = q.cachedNext
        BY <1>f
      <3>2. IsRequest(u)
        <4>1. TokenAppended(q, u, t)
          BY DEF TokenAppended
        <4>2. Carried(q, q)
          <5>1. IsPrefix(q.out, q.out)
            BY <1>4, PrefixReflexive DEF IsRequest
          <5> QED BY <5>1, <1>4 DEF Carried
        <4> QED BY <4>1, <4>2, TokenCarried DEF Carried
      <3> QED BY <3>1, <3>2, <1>0, <1>4 DEF TokenTo
    <2>5. Progressed(x, r) /\ x.len[r] = m.len[r] /\ x.pool.owns[r] = m.pool.owns[r]
      <3>1. next \in Value /\ (next # NoToken => next = Model(p))
        BY <2>3 DEF Value
      <3>2. m.len[r] = Len(p) /\ Len(p) <= m.len[r]
        BY <2>2, <1>0, <1>1
      <3>3. x = Publish(m, r, p, next)
        BY <1>7
      <3> HIDE DEF x, next
      <3> QED BY <3>1, <3>2, <3>3, <1>0, PublishProgress
    <2> HIDE DEF u, x, next
    <2>6. x.len[r] = Len(Story(req[r]))
      BY <2>2, <2>5, <1>0
    <2>7. req[r].kind.greedy => t = Model(Story(req[r]))
      BY <2>2, <2>3, <1>0, <1>4
    <2>8. x.pool.owns[r] # << >>
      BY <2>5
    <2> QED BY <2>1, <2>3, <2>4, <2>5, <2>6, <2>7, <2>8, AppendTokenMoves
  <1> QED BY <1>8, <1>9, <1>10

-----------------------------------------------------------------------------
(* Capacity. *)

\* Between the request's counters and its pages: what MemoryInv says of a running request.
LEMMA RunningPages ==
    ASSUME RequestsOK, Books, NEW G, NEW W, MemoryAgrees(mem, req, G, W), NEW r \in Live
    PROVE  /\ mem \in Memory /\ r \in PageOwner /\ mem.len[r] \in Nat
           /\ mem.pool.owns[r] \in Seq(Block) /\ mem.pool.owns[r] # << >>
           /\ Len(mem.pool.owns[r]) \in Nat \ {0}
           /\ PagesOf(mem, r, req[r])
           /\ MemoryOK(mem, StoriesOf(req)) /\ PredsRight(mem)
           /\ StoriesOf(req) \in [Req -> Seq(Token)]
           /\ Progressed(mem, r)
  <1>1. r \in Req /\ req[r].state \in {"PREFILLING", "DECODING"}
    BY LiveFacts
  <1>2. MemoryOK(mem, StoriesOf(req)) /\ PredsRight(mem) /\ PagesOf(mem, r, req[r])
    BY <1>1 DEF MemoryAgrees
  <1>3. mem \in Memory
    BY <1>2 DEF MemoryOK, CacheOK
  <1>4. r \in PageOwner /\ mem.len[r] \in Nat /\ mem.pool.owns[r] \in Seq(Block)
    BY <1>1, <1>3, MemoryFields DEF PageOwner
  <1>5. mem.pool.owns[r] # << >>
    BY <1>1, <1>2 DEF PagesOf
  <1>6. Len(mem.pool.owns[r]) \in Nat \ {0}
    BY <1>4, <1>5, EmptySeq
  <1>7. StoriesOf(req) \in [Req -> Seq(Token)]
    BY StoriesTyped DEF Books
  <1>8. Spares(mem, mem, Req \ {r})
    BY SparedSelf DEF Spares
  <1> QED BY <1>2, <1>3, <1>4, <1>5, <1>6, <1>7, <1>8 DEF Progressed

\* _ensure_kv_capacity: r may hold more pages than before, and evict cache entries for them.
LEMMA GrowMoves ==
    ASSUME RequestsOK, Books, NEW G, NEW W, MemoryAgrees(mem, req, G, W), NEW r \in Live,
           NEW n \in Nat \ {0},
           req[r].state = "PREFILLING" => req[r].prefilled + n <= Len(PrefillIds(req[r])),
           NEW c, c = EnsureKV(mem, r, mem.len[r] + n)
    PROVE  Moves(mem, c.m, r, req, req) /\ (c.ok => Ready(c.m, r, n))
  <1> DEFINE t == StoriesOf(req)
             target == mem.len[r] + n
             x == c.m
             a == mem.pool.owns[r]
             b == x.pool.owns[r]
  <1>1. /\ mem \in Memory /\ r \in PageOwner /\ mem.len[r] \in Nat /\ a \in Seq(Block)
        /\ Len(a) \in Nat \ {0} /\ PagesOf(mem, r, req[r])
        /\ MemoryOK(mem, t) /\ PredsRight(mem)
    BY RunningPages
  <1>2. r \in Req /\ req[r].state \in {"PREFILLING", "DECODING"}
    BY LiveFacts
  <1>3. target \in Nat /\ target > mem.len[r]
    BY <1>1
  <1>4. c = EnsureKV(mem, r, target)
    OBVIOUS
  <1> HIDE DEF target, t
  <1>5. /\ Grown(mem, c.m, r, t)
        /\ ~c.ok => Len(c.m.pool.owns[r]) = Len(mem.pool.owns[r])
        /\ c.ok => /\ BlocksFor(target) <= Len(mem.pool.owns[r]) =>
                         Len(c.m.pool.owns[r]) = Len(mem.pool.owns[r])
                   /\ BlocksFor(target) > Len(mem.pool.owns[r]) =>
                         Len(c.m.pool.owns[r]) = BlocksFor(target)
                   /\ mem.len[r] % BlockSize # 0 => Alone(c.m, r, BlocksFor(mem.len[r]))
    BY <1>1, <1>2, <1>3, <1>4, EnsureKVKeeps
  <1>6. MemoryOK(x, t) /\ x.len = mem.len /\ Apart(mem, x, r)
    BY <1>5 DEF Grown
  <1>7. Spares(mem, x, Req \ {r}) /\ PredsRight(x)
    BY <1>1, <1>6, PredsRightKept DEF Apart
  <1>8. BlocksFor(target) \in Nat
    BY <1>3, BlocksForPage
  <1>9. /\ Len(b) = Len(a) \/ (c.ok /\ Len(b) = BlocksFor(target) /\ Len(b) > Len(a))
        /\ c.ok => BlocksFor(target) <= Len(b)
    BY <1>1, <1>5, <1>8, SMTT(30)
  <1>10. b # << >>
    <2>1. Len(b) # 0
      BY <1>1, <1>8, <1>9
    <2> QED BY <2>1, EmptySeq
  <1>11. PagesOf(x, r, req[r])
    <2>1. CASE req[r].state = "DECODING"
      BY <2>1, <1>1, <1>6, <1>10 DEF PagesOf, Running
    <2>2. CASE req[r].state = "PREFILLING"
      <3> DEFINE ids == PrefillIds(req[r])
      <3>1. mem.len[r] = req[r].prefilled /\ Len(a) <= BlocksFor(Len(ids))
        BY <2>2, <1>1 DEF PagesOf
      <3>2. Len(ids) \in Nat
        BY <1>2, LiveFacts, PrefillLength
      <3>3. target <= Len(ids)
        BY <2>2, <3>1 DEF target
      <3> HIDE DEF ids
      <3>4. BlocksFor(target) <= BlocksFor(Len(ids)) /\ BlocksFor(Len(ids)) \in Nat
        BY <3>2, <3>3, <1>3, BlocksMonotone, BlocksForPage
      <3>5. Len(b) <= BlocksFor(Len(ids))
        BY <3>1, <3>4, <1>1, <1>8, <1>9
      <3> QED BY <2>2, <3>1, <3>5, <1>6, <1>10 DEF PagesOf, Running, ids
    <2> QED BY <2>1, <2>2, <1>2
  <1>12. Moves(mem, x, r, req, req)
    BY <1>6, <1>7, <1>11 DEF Moves, Elsewhere, t
  <1>13. c.ok => Ready(x, r, n)
    BY <1>5, <1>6, <1>9 DEF Ready, target
  <1> QED BY <1>12, <1>13

\* After r tried for capacity, v, which may be r, gives its pages back.
LEMMA YieldAgrees ==
    ASSUME RequestsOK, Books, NEW G, NEW W, NEW G2, MemoryAgrees(mem, req, G, W), Pairs(G), W = {},
           NEW r \in Live, NEW x, Moves(mem, x, r, req, req), \A g \in G : g[1] # r,
           NEW v \in Live, mem' = Drop(x, v),
           Only(v), req'[v].state \notin Running,
           \A g \in G2 : g \in G /\ g[1] # v
    PROVE  MemoryAgrees(mem', req', G2, {})
  <1>1. r \in Req /\ v \in Req
    BY LiveFacts
  <1>2. GrantsMove(G, G, x, r) /\ WritesMove(W, W, x, r, req) /\ Pairs(W)
    BY DEF GrantsMove, WritesMove, Pairs
  <1>3. MemoryAgrees(x, req, G, W)
    BY <1>1, <1>2, OneMoves
  <1>4. StoriesOf(req) \in [Req -> Seq(Token)]
    BY StoriesTyped DEF Books
  <1>5. MemoryOK(x, StoriesOf(req)) /\ PredsRight(x)
    BY <1>3 DEF MemoryAgrees
  <1>6. Spares(x, x, Req \ {v})
    BY SparedSelf DEF Spares
  <1>7. Elsewhere(req, req', v)
    BY DEF Elsewhere, Only
  <1>8. Moves(x, mem', v, req, req')
    BY <1>1, <1>4, <1>5, <1>6, <1>7, LeaveMoves
  <1>9. GrantsMove(G, G2, mem', v) /\ WritesMove(W, {}, mem', v, req')
    BY DEF GrantsMove, WritesMove
  <1> QED BY <1>1, <1>2, <1>3, <1>8, <1>9, OneMoves

\* preempt keeps the request's books.
LEMMA PreemptBooks ==
    ASSUME RequestsOK, Books, NEW v \in Live
    PROVE  RequestBooks(Preempted(req[v])) /\ Preempted(req[v]).state = "WAITING"
  <1> DEFINE q == req[v]
             e == Preempted(q)
  <1>1. IsRequest(q) /\ RequestBooks(q) /\ q.state \notin Terminal
    BY RunningFacts
  <1>2. {"state", "kind", "out", "next", "prefilled", "cachedNext", "resuming", "recomputing",
         "yields", "epoch"}
           \subseteq DOMAIN q
    <2>1. q = [f \in Fields |-> q[f]]
      BY <1>1 DEF IsRequest
    <2>2. DOMAIN q = Fields
      BY <2>1
    <2> QED BY <2>2 DEF Fields
  <1> HIDE DEF q
  <1>3. /\ e.state = "WAITING" /\ e.kind = q.kind /\ e.out = q.out /\ e.next = q.next
        /\ e.cachedNext = NoToken /\ e.resuming = (q.out # << >>)
    BY <1>2 DEF Preempted
  <1> HIDE DEF e
  <1>4. OutputOK(e)
    BY <1>1, <1>3, OutputSame DEF RequestBooks
  <1>5. PhaseOK(e)
    BY <1>3 DEF PhaseOK
  <1> QED BY <1>1, <1>3, <1>4, <1>5 DEF RequestBooks, Value, q, e

\* What ended without an answer has its books in order.
LEMMA EndedBooks ==
    ASSUME NEW q, IsRequest(q), RequestBooks(q), q.state \notin Terminal,
           NEW state \in Terminal \ {"FINISHED"}, NEW reason
    PROVE  RequestBooks(Ended(q, state, reason)) /\ Ended(q, state, reason).state = state
           /\ state \notin Running
  <1> DEFINE e == Ended(q, state, reason)
  <1>1. /\ e.state = state /\ e.kind = q.kind /\ e.out = q.out
        /\ e.next = q.next /\ e.cachedNext = q.cachedNext
    BY EndedFields
  <1> HIDE DEF e
  <1>2. e.state \in Terminal /\ e.state # "FINISHED" /\ e.state \notin Running
        /\ e.state \notin {"WAITING", "PREFILLING", "DECODING"}
    BY <1>1 DEF Terminal, Running
  <1>3. OutputOK(e)
    BY <1>1, <1>2, OutputSame DEF RequestBooks
  <1>4. PhaseOK(e)
    BY <1>2 DEF PhaseOK
  <1> QED BY <1>1, <1>2, <1>3, <1>4 DEF RequestBooks, e

\* The turns of _acquire_capacity in which v yields or fails, with the memory x after the attempt.
GivesWay(x, v) ==
    \/ Preempt(x, v)
    \/ Retire(x, v, Ended(req[v], "FAILED", "KV_POOL_EXHAUSTED"))

LEMMA GivesWayBooks ==
    ASSUME RequestsOK, Books, NEW x, NEW v \in Live, GivesWay(x, v)
    PROVE  /\ mem' = Drop(x, v) /\ Only(v) /\ RequestBooks(req'[v])
           /\ req'[v].state \in {"WAITING", "FAILED"}
  <1>1. v \in Req /\ IsRequest(req[v]) /\ RequestBooks(req[v]) /\ req[v].state \notin Terminal
    BY RunningFacts
  <1>2. mem' = Drop(x, v)
    BY DEF GivesWay, Preempt, Retire
  <1>3. CASE Preempt(x, v)
    <2>1. req'[v] = Preempted(req[v]) /\ Only(v)
      BY <1>3, <1>1, Assigned DEF Preempt
    <2> QED BY <2>1, <1>2, PreemptBooks
  <1>4. CASE Retire(x, v, Ended(req[v], "FAILED", "KV_POOL_EXHAUSTED"))
    <2>1. req'[v] = Ended(req[v], "FAILED", "KV_POOL_EXHAUSTED") /\ Only(v)
      BY <1>4, <1>1, Assigned DEF Retire
    <2>2. "FAILED" \in Terminal \ {"FINISHED"}
      BY DEF Terminal
    <2>3. RequestBooks(req'[v]) /\ req'[v].state = "FAILED"
      BY <2>1, <2>2, <1>1, EndedBooks
    <2> QED BY <2>1, <2>3, <1>2
  <1> QED BY <1>3, <1>4 DEF GivesWay

-----------------------------------------------------------------------------
(* The plan and the rows, when the loop that uses them goes on. *)

\* Nobody else's books change.
LEMMA BooksStand ==
    ASSUME Books, NEW v \in Created, Only(v), RequestBooks(req'[v]), Created' = Created
    PROVE  Books'
  BY DEF Books, Only, Created

\* Who still prefills has not moved since the chunks were planned.
PrefillsStand == \A x \in Created : req'[x].state = "PREFILLING" => req'[x] = req[x]

LEMMA PlansStand ==
    ASSUME PlansFit, Created \subseteq Created', plans' = plans, pc' = pc, pc # "commitP",
           pc \in {"prefillCap", "forward", "commitD"} => PrefillsStand,
           pc = "prefillCap" => ToSet(todo') \subseteq ToSet(todo)
    PROVE  PlansFit'
  <1>1. plans \in Seq(Created' \X (1 .. ChunkSize))
    <2>1. plans \in Seq(Created \X (1 .. ChunkSize))
      BY DEF PlansFit
    <2>2. Created \X (1 .. ChunkSize) \subseteq Created' \X (1 .. ChunkSize)
      OBVIOUS
    <2> QED BY <2>1, <2>2, SeqGrows
  <1>2. ASSUME pc \in {"prefillCap", "forward", "commitD"}, NEW p \in ToSet(plans),
               req'[p[1]].state = "PREFILLING"
        PROVE  req'[p[1]].prefilled + p[2] <= Len(PrefillIds(req'[p[1]]))
    <2>1. p \in Created \X (1 .. ChunkSize)
      BY ToSetIndexed DEF PlansFit
    <2>2. p[1] \in Created
      BY <2>1
    <2>3. req'[p[1]] = req[p[1]]
      BY <1>2, <2>2 DEF PrefillsStand
    <2> QED BY <1>2, <2>3 DEF PlansFit
  <1> QED BY <1>1, <1>2 DEF PlansFit

\* The rows kept for a fused step go on decoding.
LEMMA RowsStand ==
    ASSUME RowsFit, rows' = rows, pc' = pc,
           \A x \in ToSet(rows) : req[x].state = "DECODING" => req'[x].state = "DECODING"
    PROVE  RowsFit'
  BY DEF RowsFit

-----------------------------------------------------------------------------
(* Every action keeps the invariant. *)

LEMMA InvParts ==
    ASSUME EngineInv, MemoryInv
    PROVE  /\ RequestsOK /\ SchedulerOK /\ LoopOK /\ Books /\ PlansFit /\ RowsFit
           /\ MemoryAgrees(mem, req, Grants, Writes)
           /\ Pairs(Grants) /\ Pairs(Writes)
           /\ ToSet(active) = Live
           /\ Live # {} => NewestActive \in Live
  <1>1. /\ RequestsOK /\ SchedulerOK /\ LoopOK /\ ToSet(active) = Live
    BY DEF EngineInv, SchedulerOK, ContainersOK
  <1>2. Live # {} => NewestActive \in Live
    BY <1>1, NewestIsNewest
  <1>3. Books /\ PlansFit /\ RowsFit /\ MemoryAgrees(mem, req, Grants, Writes)
    BY DEF MemoryInv
  <1>4. Pairs(Grants) /\ Pairs(Writes)
    BY <1>3, PromisesTyped
  <1> QED BY <1>1, <1>2, <1>3, <1>4

\* The memory and the requests stay.
LEMMA QuietAgrees ==
    ASSUME MemoryInv, UNCHANGED <<mem, req>>, Grants' \subseteq Grants, Writes' \subseteq Writes
    PROVE  MemoryAgrees(mem, req, Grants, Writes)' /\ Books'
  <1>1. MemoryAgrees(mem, req, Grants, Writes) /\ Books
    BY DEF MemoryInv
  <1>2. MemoryAgrees(mem, req, Grants', Writes')
    BY <1>1, FewerPromises
  <1>3. MemoryAgrees(mem, req, Grants, Writes)'
    BY <1>2
  <1>4. Books'
    BY <1>1 DEF Books, Created
  <1> QED BY <1>3, <1>4

\* After an attempt at capacity for r that failed, somebody gives way.
LEMMA FailedAgrees ==
    ASSUME EngineInv, MemoryInv, Writes = {}, Writes' = {}, NEW r \in Live,
           NEW x, Moves(mem, x, r, req, req), \A g \in Grants : g[1] # r,
           NEW v \in Live, GivesWay(x, v),
           \A g \in Grants' : g \in Grants /\ req'[g[1]].state \in Running
    PROVE  /\ MemoryAgrees(mem, req, Grants, Writes)' /\ Books' /\ PrefillsStand
           /\ Created' = Created
  <1>1. /\ RequestsOK /\ Books /\ Pairs(Grants) /\ MemoryAgrees(mem, req, Grants, Writes)
    BY InvParts
  <1>2. /\ mem' = Drop(x, v) /\ Only(v) /\ RequestBooks(req'[v])
        /\ req'[v].state \in {"WAITING", "FAILED"}
    BY <1>1, GivesWayBooks
  <1>3. v \in Created
    BY DEF Live
  <1>4. Created' = Created
    BY <1>2, <1>3 DEF Created, Only
  <1>5. Books'
    BY <1>1, <1>2, <1>3, <1>4, BooksStand
  <1>6. PrefillsStand
    BY <1>2 DEF PrefillsStand, Only, Created
  <1>7. req'[v].state \notin Running
    BY <1>2 DEF Running
  <1>8. \A g \in Grants' : g \in Grants /\ g[1] # v
    BY <1>7
  <1>9. MemoryAgrees(mem', req', Grants', {})
    BY <1>1, <1>2, <1>7, <1>8, YieldAgrees
  <1> QED BY <1>4, <1>5, <1>6, <1>9

LEMMA DecodeRowCapacityAgrees ==
    ASSUME EngineInv, MemoryInv, DecodeRowCapacity
    PROVE  MemoryInv'
  <1> DEFINE r == Head(todo)
             c == EnsureKV(mem, r, mem.len[r] + 1)
  <1>1. /\ RequestsOK /\ Books /\ PlansFit /\ LoopOK
        /\ MemoryAgrees(mem, req, Grants, Writes) /\ Pairs(Grants) /\ Pairs(Writes)
    BY InvParts
  <1>2. /\ pc = "decodeCap" /\ pc' = pc /\ todo \in Seq(Req) /\ todo # << >>
        /\ rows \in Seq(Req) /\ ToSet(rows) \cap ToSet(todo) = {}
    BY <1>1 DEF LoopOK, DecodeRowCapacity
  <1>3. r \in Req /\ r \in ToSet(todo) /\ r \notin ToSet(rows)
    BY <1>2, TailSet
  <1>4. /\ Writes = {} /\ Writes' = {} /\ plans = << >>
        /\ Grants = {<<y, 1>> : y \in {z \in ToSet(rows) : req[z].state = "DECODING"}}
        /\ Grants' = {<<y, 1>> : y \in {z \in ToSet(rows') : req'[z].state = "DECODING"}}
    BY <1>1, <1>2 DEF Writes, Grants, PlansFit
  <1>5. \A g \in Grants : g[1] # r
    BY <1>3, <1>4
  <1>6. MemoryAgrees(mem, req, Grants, Writes)' /\ Books' /\ Created' = Created /\ plans' = plans
    <2>1. CASE req[r].state # "DECODING"
      <3>1. UNCHANGED <<mem, req, rows, plans>>
        BY <2>1 DEF DecodeRowCapacity, sched
      <3>2. Grants' \subseteq Grants /\ Writes' \subseteq Writes
        BY <3>1, <1>4
      <3>3. Created' = Created
        BY <3>1 DEF Created
      <3> QED BY <3>1, <3>2, <3>3, QuietAgrees
    <2>2. CASE req[r].state = "DECODING"
      <3>1. r \in Live
        BY <2>2, <1>3 DEF Live, Created
      <3>2. /\ Moves(mem, c.m, r, req, req)
            /\ c.ok => Ready(c.m, r, 1)
        BY <3>1, <2>2, <1>1, GrowMoves
      <3> DEFINE v == NewestActive
      <3>3. v \in Live
        BY <3>1, InvParts
      <3>4. \/ /\ c.ok /\ mem' = c.m /\ rows' = Append(rows, r) /\ plans' = plans /\ req' = req
            \/ /\ GivesWay(c.m, v) /\ rows' = rows /\ plans' = plans
        BY <2>2 DEF DecodeRowCapacity, Acquire, GivesWay
      <3> HIDE DEF c, v, r
      <3>5. CASE c.ok /\ mem' = c.m /\ rows' = Append(rows, r) /\ plans' = plans /\ req' = req
        <4>1. ToSet(rows') = ToSet(rows) \cup {r}
          BY <3>5, <1>2, <1>3, AppendSet
        <4>2. GrantsMove(Grants, Grants', c.m, r)
          <5>1. ASSUME NEW g \in Grants' PROVE (g \in Grants /\ g[1] # r) \/ Ready(c.m, g[1], g[2])
            <6>1. PICK y \in ToSet(rows') : g = <<y, 1>> /\ req[y].state = "DECODING"
              BY <3>5, <1>4
            <6>2. CASE y = r
              BY <6>1, <6>2, <3>2, <3>5
            <6>3. CASE y # r
              BY <6>1, <6>3, <4>1, <1>4
            <6> QED BY <6>2, <6>3
          <5> QED BY <5>1 DEF GrantsMove
        <4>3. WritesMove(Writes, Writes', c.m, r, req)
          BY <1>4 DEF WritesMove
        <4>4. MemoryAgrees(c.m, req, Grants', Writes')
          BY <4>2, <4>3, <3>2, <1>1, <1>3, OneMoves
        <4>5. MemoryAgrees(mem, req, Grants, Writes)'
          BY <4>4, <3>5
        <4>6. Books' /\ Created' = Created
          BY <3>5, <1>1 DEF Books, Created
        <4> QED BY <4>5, <4>6, <3>5
      <3>6. CASE GivesWay(c.m, v) /\ rows' = rows /\ plans' = plans
        <4>1. Only(v) /\ req'[v].state \in {"WAITING", "FAILED"}
          BY <3>3, <3>6, <1>1, GivesWayBooks
        <4>2. ASSUME NEW g \in Grants' PROVE g \in Grants /\ req'[g[1]].state \in Running
          <5>1. PICK y \in ToSet(rows) : g = <<y, 1>> /\ req'[y].state = "DECODING"
            BY <3>6, <1>4
          <5>2. y \in Req
            BY <1>2, ToSetIndexed
          <5>3. req[y].state = "DECODING"
            <6>1. CASE y = v
              BY <6>1, <4>1, <5>1
            <6>2. CASE y # v
              BY <6>2, <5>1, <5>2, <4>1 DEF Only
            <6> QED BY <6>1, <6>2
          <5> QED BY <5>1, <5>3, <1>4 DEF Running
        <4>3. /\ MemoryAgrees(mem, req, Grants, Writes)' /\ Books' /\ Created' = Created
          BY <4>2, <3>1, <3>2, <3>3, <3>6, <1>4, <1>5, FailedAgrees
        <4> QED BY <4>3, <3>6
      <3> QED BY <3>4, <3>5, <3>6
    <2> QED BY <2>1, <2>2
  <1>7. PlansFit'
    BY <1>1, <1>2, <1>6, PlansStand
  <1>8. RowsFit'
    BY <1>2 DEF RowsFit
  <1> QED BY <1>6, <1>7, <1>8 DEF MemoryInv

LEMMA PrefillChunkCapacityAgrees ==
    ASSUME EngineInv, MemoryInv, PrefillChunkCapacity
    PROVE  MemoryInv'
  <1> DEFINE h == Head(todo)
             r == h[1]
             n == h[2]
             c == EnsureKV(mem, r, mem.len[r] + n)
             Row(g) == \E y \in ToSet(rows) : g = <<y, 1>> /\ req[y].state = "DECODING"
             Row2(g) == \E y \in ToSet(rows) : g = <<y, 1>> /\ req'[y].state = "DECODING"
             Chunk(g) == g \in ToSet(plans) /\ req[g[1]].state = "PREFILLING" /\ g \notin ToSet(todo)
             Chunk2(g) == g \in ToSet(plans) /\ req'[g[1]].state = "PREFILLING" /\ g \notin ToSet(todo')
  <1>1. /\ RequestsOK /\ Books /\ PlansFit /\ LoopOK
        /\ MemoryAgrees(mem, req, Grants, Writes) /\ Pairs(Grants) /\ Pairs(Writes)
    BY InvParts
  <1>2. /\ pc = "prefillCap" /\ pc' = pc /\ todo # << >> /\ IsPlan(todo) /\ IsPlan(plans)
        /\ ToSet(todo) \subseteq ToSet(plans) /\ rows \in Seq(Req)
    BY <1>1 DEF LoopOK, PrefillChunkCapacity, PlansFit
  <1>3. /\ h \in ToSet(todo) /\ ToSet(todo) = ToSet(Tail(todo)) \cup {h}
        /\ r \in Req /\ n \in Nat \ {0}
    BY <1>2, TailSet, PlanTail DEF IsPlan, IsSeq
  <1>4. rows' = rows /\ plans' = plans /\ (todo' = todo \/ todo' = Tail(todo))
    <2>1. CASE req[r].state = "PREFILLING"
      BY <2>1 DEF PrefillChunkCapacity, Acquire
    <2>2. CASE req[r].state # "PREFILLING"
      BY <2>2 DEF PrefillChunkCapacity
    <2> QED BY <2>1, <2>2
  <1>5. /\ Writes = {} /\ Writes' = {}
        /\ \A g : g \in Grants <=> Row(g) \/ Chunk(g)
        /\ \A g : g \in Grants' <=> Row2(g) \/ Chunk2(g)
    <2>1. Writes = {} /\ Writes' = {}
      BY <1>2 DEF Writes
    <2>2. ASSUME NEW g PROVE g \in Grants <=> Row(g) \/ Chunk(g)
      BY <1>2 DEF Grants
    <2>3. ASSUME NEW g PROVE g \in Grants' <=> Row2(g) \/ Chunk2(g)
      BY <1>2, <1>4 DEF Grants
    <2> QED BY <2>1, <2>2, <2>3
  <1>6. \A p \in ToSet(plans) : p[1] = r => p = h
    <2>1. h \in ToSet(plans)
      BY <1>2, <1>3
    <2>2. ASSUME NEW p \in ToSet(plans), p[1] = r PROVE p = h
      <3>1. PICK i \in 1 .. Len(plans) : plans[i] = p
        BY <1>2, ToSetIndexed DEF IsPlan, IsSeq
      <3>2. PICK j \in 1 .. Len(plans) : plans[j] = h
        BY <2>1, <1>2, ToSetIndexed DEF IsPlan, IsSeq
      <3>3. i = j
        BY <2>2, <3>1, <3>2, <1>2 DEF IsPlan
      <3> QED BY <3>1, <3>2, <3>3
    <2> QED BY <2>2
  <1>7. \A y \in ToSet(rows) : y \in Req
    BY <1>2, ToSetIndexed
  <1>8. MemoryAgrees(mem, req, Grants, Writes)' /\ Books' /\ Created' = Created /\ PrefillsStand
    <2>1. CASE req[r].state # "PREFILLING"
      <3>1. UNCHANGED <<mem, req>> /\ todo' = Tail(todo)
        BY <2>1 DEF PrefillChunkCapacity, sched
      <3> HIDE DEF h, r, n, c
      <3>2. ASSUME NEW g \in Grants' PROVE g \in Grants
        <4>1. CASE Row2(g)
          BY <4>1, <3>1, <1>5
        <4>2. CASE Chunk2(g)
          <5>1. g # h
            BY <4>2, <3>1, <2>1 DEF r
          <5> QED BY <4>2, <5>1, <3>1, <1>3, <1>5
        <4> QED BY <4>1, <4>2, <1>5
      <3>3. Created' = Created /\ PrefillsStand
        BY <3>1 DEF Created, PrefillsStand
      <3> QED BY <3>1, <3>2, <3>3, <1>5, QuietAgrees
    <2>2. CASE req[r].state = "PREFILLING"
      <3>1. r \in Live
        BY <2>2, <1>3 DEF Live, Created
      <3>2. req[r].prefilled = mem.len[r]
        BY <2>2, <1>1, <1>3 DEF MemoryAgrees, PagesOf
      <3>3. h \in ToSet(plans) /\ req[r].prefilled + n <= Len(PrefillIds(req[r]))
        BY <2>2, <1>1, <1>2, <1>3 DEF PlansFit
      <3>4. /\ Moves(mem, c.m, r, req, req)
            /\ c.ok => Ready(c.m, r, n)
        BY <3>1, <3>3, <2>2, <1>1, <1>3, GrowMoves
      <3> DEFINE v == NewestActive
      <3>5. v \in Live
        BY <3>1, InvParts
      <3>6. \/ /\ c.ok /\ mem' = c.m /\ req' = req /\ todo' = Tail(todo)
            \/ /\ GivesWay(c.m, v) /\ (todo' = todo \/ (v = r /\ todo' = Tail(todo)))
        BY <2>2, <3>2 DEF PrefillChunkCapacity, Acquire, GivesWay
      <3> HIDE DEF c, v, r, h, n
      <3>7. \A g \in Grants : g[1] # r
        <4>1. ASSUME NEW g \in Grants, g[1] = r PROVE FALSE
          <5>1. CASE Row(g)
            <6>1. g = <<r, 1>> /\ req[r].state = "DECODING"
              BY <5>1, <4>1
            <6> QED BY <6>1, <2>2
          <5>2. CASE Chunk(g)
            BY <5>2, <4>1, <1>3, <1>6
          <5> QED BY <5>1, <5>2, <4>1, <1>5
        <4> QED BY <4>1
      <3>8. CASE c.ok /\ mem' = c.m /\ req' = req /\ todo' = Tail(todo)
        <4>1. GrantsMove(Grants, Grants', c.m, r)
          <5>1. ASSUME NEW g \in Grants' PROVE (g \in Grants /\ g[1] # r) \/ Ready(c.m, g[1], g[2])
            <6>1. CASE g \in Grants
              BY <6>1, <3>7
            <6>2. CASE g \notin Grants
              <7>1. Chunk2(g) /\ ~Chunk(g)
                BY <6>2, <3>8, <1>5
              <7>2. g = h
                BY <7>1, <3>8, <1>3
              <7> QED BY <7>2, <3>4, <3>8 DEF r, n
            <6> QED BY <6>1, <6>2
          <5> QED BY <5>1 DEF GrantsMove
        <4>2. WritesMove(Writes, Writes', c.m, r, req)
          BY <1>5 DEF WritesMove
        <4>3. MemoryAgrees(c.m, req, Grants', Writes')
          BY <4>1, <4>2, <3>4, <1>1, <1>3, OneMoves
        <4>4. MemoryAgrees(mem, req, Grants, Writes)'
          BY <4>3, <3>8
        <4>5. Books' /\ Created' = Created /\ PrefillsStand
          BY <3>8, <1>1 DEF Books, Created, PrefillsStand
        <4> QED BY <4>4, <4>5
      <3>9. CASE GivesWay(c.m, v) /\ (todo' = todo \/ (v = r /\ todo' = Tail(todo)))
        <4>1. Only(v) /\ req'[v].state \in {"WAITING", "FAILED"}
          BY <3>5, <3>9, <1>1, GivesWayBooks
        <4>2. ASSUME NEW g \in Grants' PROVE g \in Grants /\ req'[g[1]].state \in Running
          <5>1. CASE Row2(g)
            <6>1. PICK y \in ToSet(rows) : g = <<y, 1>> /\ req'[y].state = "DECODING"
              BY <5>1
            <6>2. y # v /\ y \in Req
              BY <6>1, <4>1, <1>7
            <6>3. req'[y] = req[y]
              BY <6>2, <4>1 DEF Only
            <6> QED BY <6>1, <6>3, <1>5 DEF Running
          <5>2. CASE Chunk2(g)
            <6>1. g[1] # v
              BY <5>2, <4>1
            <6>2. g[1] \in Req
              <7>1. PICK i \in 1 .. Len(plans) : plans[i] = g
                BY <5>2, <1>2, ToSetIndexed DEF IsPlan, IsSeq
              <7> QED BY <7>1, <1>2 DEF IsPlan
            <6>3. req'[g[1]] = req[g[1]]
              BY <6>1, <6>2, <4>1 DEF Only
            <6>4. g \notin ToSet(todo)
              <7>1. CASE todo' = todo
                BY <7>1, <5>2
              <7>2. CASE v = r /\ todo' = Tail(todo)
                <8>1. g # h
                  BY <7>2, <6>1 DEF r
                <8> QED BY <8>1, <7>2, <5>2, <1>3
              <7> QED BY <7>1, <7>2, <3>9
            <6> QED BY <5>2, <6>3, <6>4, <1>5 DEF Running
          <5> QED BY <5>1, <5>2, <4>2, <1>5
        <4>3. MemoryAgrees(mem, req, Grants, Writes)' /\ Books' /\ PrefillsStand /\ Created' = Created
          BY <4>2, <3>1, <3>4, <3>5, <3>7, <3>9, <1>5, FailedAgrees
        <4> QED BY <4>3
      <3> QED BY <3>6, <3>8, <3>9
    <2> QED BY <2>1, <2>2
  <1>9. PlansFit'
    <2>1. ToSet(todo') \subseteq ToSet(todo)
      BY <1>3, <1>4
    <2> QED BY <2>1, <1>1, <1>2, <1>4, <1>8, PlansStand
  <1>10. RowsFit'
    BY <1>2 DEF RowsFit
  <1> QED BY <1>8, <1>9, <1>10 DEF MemoryInv

\* The turns of the step that only the loop's own variables notice.
LEMMA LoopTurnsAgree ==
    ASSUME EngineInv, MemoryInv,
           \/ BeginStep \/ DecodeRowsReady \/ DecodeCommitted \/ AdmissionEnds \/ ExactDone
           \/ PrefillChunksReady \/ EndStep \/ WaitForWork
    PROVE  MemoryInv'
  <1>1. PlansFit /\ LoopOK /\ RowsFit /\ RequestsOK
    BY InvParts
  <1>2. rows \in Seq(Req) /\ IsInjective(rows)
    BY <1>1 DEF LoopOK
  <1>3. UNCHANGED <<mem, req>>
    BY DEF BeginStep, DecodeRowsReady, DecodeCommitted, AdmissionEnds, ExactDone,
           PrefillChunksReady, EndStep, WaitForWork, vars, sched
  <1>4. Created' = Created
    BY <1>3 DEF Created
  <1>5. /\ ToSet(StillDecoding(rows)) \subseteq ToSet(rows)
        /\ \A r \in ToSet(StillDecoding(rows)) : req[r].state = "DECODING"
    BY <1>1, <1>2, KeepProperties, StillDecodingRows DEF StillDecoding, RequestsIn
  <1>6. ToSet(<< >>) = {}
    BY EmptyLists
  <1>7. << >> \in Seq(Created \X (1 .. ChunkSize))
    OBVIOUS
  <1>8. SUFFICES Grants' \subseteq Grants /\ Writes' \subseteq Writes /\ PlansFit' /\ RowsFit'
    BY <1>3, QuietAgrees DEF MemoryInv
  <1>9. CASE BeginStep
    <2>1. pc = "idle" /\ pc' = "decodeCap" /\ rows' = rows /\ plans' = plans
      BY <1>9 DEF BeginStep
    <2>2. rows = << >> /\ plans = << >>
      BY <2>1, <1>1 DEF LoopOK, PlansFit
    <2>3. Grants' = {} /\ Writes' = {}
      BY <2>1, <2>2, <1>6 DEF Grants, Writes
    <2>4. PlansFit'
      BY <2>1, <2>2, <1>4, <1>7 DEF PlansFit
    <2> QED BY <2>1, <2>3, <2>4 DEF RowsFit
  <1>10. CASE DecodeRowsReady
    <2>1. pc = "decodeCap" /\ pc' \in {"decode", "admit"} /\ rows' = StillDecoding(rows)
          /\ plans' = plans
      BY <1>10 DEF DecodeRowsReady
    <2>2. plans = << >>
      BY <2>1, <1>1 DEF PlansFit
    <2>3. Grants' \subseteq Grants
      <3>1. ASSUME NEW g \in Grants' PROVE g \in Grants
        <4>1. PICK y \in ToSet(rows') : g = <<y, 1>> /\ req[y].state = "DECODING"
          BY <2>1, <1>3 DEF Grants
        <4>2. y \in ToSet(rows)
          BY <4>1, <2>1, <1>5
        <4> QED BY <4>1, <4>2, <2>1 DEF Grants
      <3> QED BY <3>1
    <2>4. Writes' = {}
      BY <2>1 DEF Writes
    <2>5. PlansFit'
      BY <2>1, <2>2, <1>4, <1>7 DEF PlansFit
    <2>6. RowsFit'
      BY <2>1, <1>3, <1>5 DEF RowsFit
    <2> QED BY <2>3, <2>4, <2>5, <2>6
  <1>11. CASE DecodeCommitted
    <2>1. /\ pc = "commitD" /\ todo = << >> /\ rows' = << >> /\ plans' = plans
          /\ pc' = IF Fused THEN "commitP" ELSE "admit"
          /\ todo' = IF Fused THEN plans ELSE << >>
      BY <1>11 DEF DecodeCommitted
    <2>2. Grants' = {}
      BY <2>1, <1>6 DEF Grants
    <2>3. RowsFit'
      BY <2>1, <1>6 DEF RowsFit
    <2>4. CASE Fused
      <3>1. pc' = "commitP" /\ todo' = plans
        BY <2>1, <2>4
      <3>2. Writes' \subseteq Writes
        BY <3>1, <2>1, <2>4 DEF Writes
      <3>3. PlanIn(plans, "PREFILLING")
        BY <2>1, <2>4, <1>1 DEF LoopOK
      <3>4. ASSUME NEW p \in ToSet(plans) PROVE req[p[1]].state = "PREFILLING"
        <4>1. PICK i \in 1 .. Len(plans) : plans[i] = p
          BY <3>3, ToSetIndexed DEF PlanIn, IsPlan, IsSeq
        <4> QED BY <4>1, <3>3 DEF PlanIn
      <3>5. PlansFit'
        BY <3>1, <3>4, <2>1, <1>1, <1>3, <1>4 DEF PlansFit
      <3> QED BY <2>2, <2>3, <3>2, <3>5
    <2>5. CASE ~Fused
      <3>1. pc' = "admit" /\ todo' = << >> /\ plans = << >>
        BY <2>1, <2>5, <1>1 DEF PlansFit
      <3>2. Writes' = {}
        BY <3>1 DEF Writes
      <3>3. PlansFit'
        BY <3>1, <2>1, <1>4, <1>7 DEF PlansFit
      <3> QED BY <2>2, <2>3, <3>2, <3>3
    <2> QED BY <2>4, <2>5
  <1>12. CASE AdmissionEnds \/ ExactDone
    <2>1. pc \in {"admit", "exact"} /\ pc' \in {"exact", "plan"} /\ rows' = rows /\ plans' = plans
      BY <1>12 DEF AdmissionEnds, ExactDone
    <2>2. plans = << >>
      BY <2>1, <1>1 DEF PlansFit
    <2>3. Grants' \subseteq Grants /\ Writes' = {}
      BY <2>1, <1>3 DEF Grants, Writes
    <2>4. PlansFit'
      BY <2>1, <2>2, <1>4, <1>7 DEF PlansFit
    <2>5. RowsFit'
      BY <2>1, <1>1, <1>3 DEF RowsFit
    <2> QED BY <2>3, <2>4, <2>5
  <1>13. CASE PrefillChunksReady
    <2> DEFINE T == {p \in ToSet(plans) : req[p[1]].state = "PREFILLING"}
    <2>1. /\ pc = "prefillCap" /\ todo = << >> /\ todo' = todo
          /\ rows' = StillDecoding(rows) /\ plans' = Keep(plans, T)
          /\ pc' = IF plans' = << >> /\ rows' = << >> THEN "idle" ELSE "forward"
      BY <1>13 DEF PrefillChunksReady
    <2>2. plans' \in Seq(Created \X (1 .. ChunkSize)) /\ ToSet(plans') = ToSet(plans) \cap T
      BY <2>1, <1>1, KeepProperties DEF PlansFit
    <2> HIDE DEF T
    <2>3. ToSet(plans') \subseteq ToSet(plans)
      BY <2>2
    <2>4. ASSUME NEW g \in Grants' PROVE g \in Grants
      <3>1. CASE g \in ToSet(plans') /\ req'[g[1]].state = "PREFILLING"
        BY <3>1, <2>1, <2>3, <1>3, <1>6 DEF Grants
      <3>2. CASE \E y \in ToSet(rows') : g = <<y, 1>> /\ req'[y].state = "DECODING"
        <4>1. PICK y \in ToSet(rows') : g = <<y, 1>> /\ req[y].state = "DECODING"
          BY <3>2, <1>3
        <4>2. y \in ToSet(rows)
          BY <4>1, <2>1, <1>5
        <4> QED BY <4>1, <4>2, <2>1 DEF Grants
      <3> QED BY <3>1, <3>2, <2>4 DEF Grants
    <2>5. Writes' = {}
      BY <2>1 DEF Writes
    <2>6. PlansFit'
      BY <2>1, <2>2, <2>3, <1>1, <1>3, <1>4 DEF PlansFit
    <2>7. RowsFit'
      BY <2>1 DEF RowsFit
    <2> QED BY <2>4, <2>5, <2>6, <2>7
  <1>14. CASE EndStep
    <2>1. pc' = "idle" /\ rows' = << >> /\ plans' = << >>
      BY <1>14 DEF EndStep
    <2>2. Grants' = {} /\ Writes' = {}
      BY <2>1, <1>6 DEF Grants, Writes
    <2>3. PlansFit'
      BY <2>1, <1>4, <1>7 DEF PlansFit
    <2>4. RowsFit'
      BY <2>1 DEF RowsFit
    <2> QED BY <2>2, <2>3, <2>4
  <1>15. CASE WaitForWork
    <2>1. UNCHANGED <<pc, rows, plans, todo, req>>
      BY <1>15 DEF WaitForWork, vars, sched
    <2>2. Grants' = Grants /\ Writes' = Writes
      BY <2>1 DEF Grants, Writes
    <2>3. PlansFit' /\ RowsFit'
      BY <2>1, <1>1 DEF PlansFit, RowsFit, Created
    <2> QED BY <2>2, <2>3
  <1> QED BY <1>9, <1>10, <1>11, <1>12, <1>13, <1>14, <1>15

-----------------------------------------------------------------------------
(* One forward pass over several rows. *)

\* A row of a forward pass has the pages for its tokens, which its request goes on with.
RowOK(m, t, w) ==
    /\ w.r \in Req /\ w.toks \in Seq(Token) /\ w.toks # << >> /\ w.from = m.len[w.r]
    /\ Ready(m, w.r, Len(w.toks))
    /\ Continues(t[w.r], t[w.r], w.from, w.toks)

\* The rows are of different requests.
WorkOK(m, t, work) ==
    /\ Len(work) \in Nat
    /\ \A i \in 1 .. Len(work) : RowOK(m, t, work[i])
    /\ \A i, j \in 1 .. Len(work) : work[i].r = work[j].r => i = j

\* x is m with the keys and values of the first i rows.
Forwarded(m, x, t, work, i) ==
    /\ MemoryOK(x, t) /\ x \in Memory
    /\ x.pool = m.pool /\ x.len = m.len /\ x.lru = m.lru /\ x.crefs = m.crefs /\ x.pred = m.pred
    /\ \A j \in 1 .. i : Covers(x, work[j].r, Len(work[j].toks), t[work[j].r])

ForwardRow(x, w) == Forward(x, w.r, w.from, w.toks)

LEMMA ForwardRowKeeps ==
    ASSUME NEW m, NEW t \in [Req -> Seq(Token)], NEW work, WorkOK(m, t, work),
           NEW i \in 1 .. Len(work), NEW x, Forwarded(m, x, t, work, i - 1),
           NEW y, y = ForwardRow(x, work[i])
    PROVE  Forwarded(m, y, t, work, i)
  <1> DEFINE w == work[i]
             r == w.r
             ts == w.toks
             n == w.from
  <1>1. RowOK(m, t, w) /\ Len(work) \in Nat
    BY DEF WorkOK
  <1>2. /\ MemoryOK(x, t) /\ x \in Memory
        /\ x.pool = m.pool /\ x.len = m.len /\ x.lru = m.lru /\ x.crefs = m.crefs /\ x.pred = m.pred
    BY DEF Forwarded
  <1>3. r \in Req /\ ts \in Seq(Token) /\ ts # << >> /\ n = x.len[r]
    BY <1>1, <1>2 DEF RowOK
  <1>4. Ready(x, r, Len(ts)) /\ Continues(t[r], t[r], n, ts)
    BY <1>1, <1>2 DEF RowOK, Ready, Alone, Holds
  <1>5. y = Forward(x, r, n, ts)
    BY DEF ForwardRow
  <1>6. n \in Nat
    BY <1>2, <1>3, MemoryFields
  <1> HIDE DEF r, ts, n
  <1>7. Stores(x, y, t, r, Len(ts))
    BY <1>2, <1>3, <1>4, <1>5, <1>6, ForwardStores
  <1>8. /\ MemoryOK(y, t) /\ y \in Memory
        /\ y.pool = m.pool /\ y.len = m.len /\ y.lru = m.lru /\ y.crefs = m.crefs /\ y.pred = m.pred
    BY <1>2, <1>7 DEF Stores
  <1>9. Covers(y, r, Len(ts), t[r]) /\ Spares(x, y, Req \ {r})
    BY <1>7 DEF Stores, Apart
  <1>10. ASSUME NEW j \in 1 .. i
         PROVE  Covers(y, work[j].r, Len(work[j].toks), t[work[j].r])
    <2>1. CASE j = i
      BY <2>1, <1>9 DEF r, ts
    <2>2. CASE j # i
      <3>1. j \in 1 .. i - 1 /\ j \in 1 .. Len(work)
        BY <2>2, <1>1
      <3> DEFINE v == work[j].r
                 c == Len(work[j].toks)
      <3>2. RowOK(m, t, work[j]) /\ v # r
        BY <3>1, <2>2 DEF WorkOK, r
      <3>3. v \in Req /\ c \in Nat
        BY <3>2, LenProperties DEF RowOK
      <3>4. Covers(x, v, c, t[v])
        BY <3>1 DEF Forwarded
      <3> HIDE DEF v, c
      <3>5. Spared(x, y, v)
        BY <3>2, <3>3, <1>9 DEF Spares
      <3>6. Covers(y, v, c, t[v])
        BY <3>3, <3>4, <3>5, <1>2, <1>8, SparedCovers
      <3> QED BY <3>6 DEF v, c
    <2> QED BY <2>1, <2>2
  <1> QED BY <1>8, <1>10 DEF Forwarded

LEMMA ForwardAllStores ==
    ASSUME NEW m, NEW t \in [Req -> Seq(Token)], MemoryOK(m, t), NEW work, WorkOK(m, t, work)
    PROVE  Forwarded(m, ForwardAll(m, work), t, work, Len(work))
  <1> DEFINE n == Len(work)
             T == [i \in 0 .. n |-> {x \in Memory : Forwarded(m, x, t, work, i)}]
             G == [i \in 1 .. n |-> [x \in Memory |-> ForwardRow(x, work[i])]]
             step(f) == [i \in 0 .. n |-> IF i = 0 THEN m ELSE ForwardRow(f[i - 1], work[i])]
             k == CHOOSE f : f = step(f)
  <1>0. n \in Nat
    BY DEF WorkOK
  <1>1. ForwardAll(m, work) = k[n]
    BY DEF ForwardAll, ForwardRow
  <1>2. m \in T[0]
    BY <1>0 DEF Forwarded, MemoryOK, CacheOK
  <1>3. ASSUME NEW i \in 1 .. n, NEW x \in T[i - 1]
        PROVE  ForwardRow(x, work[i]) \in T[i] /\ x \in Memory
    <2> DEFINE y == ForwardRow(x, work[i])
    <2>1. i - 1 \in 0 .. n /\ i \in 0 .. n /\ i \in 1 .. Len(work)
      BY <1>0
    <2>2. x \in Memory /\ Forwarded(m, x, t, work, i - 1)
      BY <2>1
    <2>3. y = ForwardRow(x, work[i])
      OBVIOUS
    <2> HIDE DEF y, T, G, k, n
    <2>4. Forwarded(m, y, t, work, i)
      BY <2>1, <2>2, <2>3, ForwardRowKeeps
    <2>5. y \in Memory
      BY <2>4 DEF Forwarded
    <2>6. y \in T[i]
      BY <2>1, <2>4, <2>5 DEF T
    <2> QED BY <2>2, <2>6 DEF y
  <1>4. \A i \in 1 .. n : \A x \in T[i - 1] : G[i][x] \in T[i] /\ G[i][x] = ForwardRow(x, work[i])
    BY <1>3
  <1>k. k = CHOOSE f : f = step(f)
    OBVIOUS
  <1> HIDE DEF T, G, k, n
  <1>g. \A i \in 1 .. n : \A x \in T[i - 1] : G[i][x] \in T[i]
    BY <1>4
  <1>p. PICK h : Staged(h, n, m, G)
    BY <1>0, <1>2, <1>g, StagedRecursion
  <1>5. /\ DOMAIN h = 0 .. n /\ h = [i \in 0 .. n |-> h[i]]
        /\ h[0] = m /\ \A i \in 1 .. n : h[i] = G[i][h[i - 1]]
    BY <1>p DEF Staged
  <1>6. \A i \in 0 .. n : h[i] \in T[i]
    BY <1>0, <1>2, <1>4, <1>5, StagedStays
  <1>7. \A i \in 1 .. n : h[i] = ForwardRow(h[i - 1], work[i])
    <2> SUFFICES ASSUME NEW i \in 1 .. n PROVE h[i] = ForwardRow(h[i - 1], work[i])
      OBVIOUS
    <2>1. i - 1 \in 0 .. n
      BY <1>0
    <2> QED BY <2>1, <1>4, <1>5, <1>6
  <1>8. h = step(h)
    <2>1. ASSUME NEW i \in 0 .. n
          PROVE  h[i] = IF i = 0 THEN m ELSE ForwardRow(h[i - 1], work[i])
      <3>1. CASE i = 0
        BY <3>1, <1>5
      <3>2. CASE i # 0
        <4>1. i \in 1 .. n
          BY <3>2, <1>0
        <4> QED BY <3>2, <4>1, <1>7
      <3> QED BY <3>1, <3>2
    <2> QED BY <2>1, <1>5
  <1>9. k = step(k)
    BY <1>8, <1>k
  <1>10. k[0] = m /\ \A i \in 1 .. n : k[i] = ForwardRow(k[i - 1], work[i])
    <2>1. \A i \in 0 .. n : k[i] = IF i = 0 THEN m ELSE ForwardRow(k[i - 1], work[i])
      BY <1>9
    <2>2. 0 \in 0 .. n /\ \A i \in 1 .. n : i \in 0 .. n /\ i # 0
      BY <1>0
    <2> QED BY <2>1, <2>2
  <1>11. \A i \in 0 .. n : k[i] \in T[i]
    <2>1. \A i \in 1 .. n : k[i - 1] \in T[i - 1] => k[i] \in T[i]
      BY <1>3, <1>10
    <2>2. k[0] \in T[0]
      BY <1>2, <1>10
    <2> QED BY <2>1, <2>2, <1>0, StagedStays
  <1>12. k[n] \in T[n] /\ n \in 0 .. n
    BY <1>0, <1>11
  <1>13. Forwarded(m, k[n], t, work, n)
    BY <1>12 DEF T
  <1> QED BY <1>1, <1>13 DEF n

LEMMA DecodeRowWork ==
    ASSUME RequestsOK, Books, NEW G, NEW W, MemoryAgrees(mem, req, G, W), NEW r \in Req,
           req[r].state = "DECODING", Ready(mem, r, 1)
    PROVE  RowOK(mem, StoriesOf(req), [r |-> r, from |-> mem.len[r], toks |-> <<req[r].next>>])
  <1> DEFINE q == req[r]
             o == q.out
             p == q.kind.prompt
             s == Story(q)
             a == q.next
             n == mem.len[r]
  <1>1. r \in Live
    BY DEF Live, Created
  <1>2. /\ RequestBooks(q) /\ s = p \o o /\ s \in Seq(Token) /\ StoriesOf(req)[r] = s
        /\ Len(s) = Len(p) + Len(o) /\ Len(p) \in Nat \ {0} /\ o \in Seq(Token) /\ p \in Seq(Token)
    BY <1>1, RunningFacts
  <1>3. n = Len(p) + Len(o) - 1
    BY DEF MemoryAgrees, PagesOf
  <1>4. o # << >> /\ a = Last(o)
    BY <1>2 DEF RequestBooks, PhaseOK
  <1> HIDE DEF o, p, s, a, n, q
  <1>5. Len(o) \in Nat \ {0} /\ a = o[Len(o)] /\ a \in Token
    BY <1>2, <1>4, FrontFacts
  <1>6. n \in Nat /\ n + 1 = Len(s) /\ n + 1 = Len(p) + Len(o)
    BY <1>2, <1>3, <1>5
  <1>7. s[n + 1] = a
    <2>1. (p \o o)[Len(p) + Len(o)] = o[Len(o)]
      BY <1>2, <1>5
    <2> QED BY <2>1, <1>2, <1>5, <1>6
  <1>8. <<a>> \in Seq(Token) /\ <<a>> # << >> /\ Len(<<a>>) = 1
    BY <1>5
  <1>9. Continues(s, s, n, <<a>>)
    <2>1. \A i \in 1 .. Len(<<a>>) : s[n + i] = <<a>>[i]
      <3>1. ASSUME NEW i \in 1 .. Len(<<a>>) PROVE s[n + i] = <<a>>[i]
        <4>1. i = 1
          BY <3>1, <1>8
        <4>2. <<a>>[1] = a
          OBVIOUS
        <4> QED BY <4>1, <4>2, <1>7
      <3> QED BY <3>1
    <2>2. n + Len(<<a>>) <= Len(s)
      BY <1>6, <1>8, <1>2
    <2> QED BY <2>1, <2>2 DEF Continues
  <1>10. Ready(mem, r, Len(<<a>>))
    BY <1>8
  <1> QED BY <1>2, <1>8, <1>9, <1>10 DEF RowOK, a, n, q

LEMMA SliceFacts ==
    ASSUME NEW ids \in Seq(Token), NEW n \in Nat, NEW c \in Nat \ {0}, n + c <= Len(ids)
    PROVE  LET ts == SubSeq(ids, n + 1, n + c)
           IN  /\ ts \in Seq(Token) /\ ts # << >> /\ Len(ts) = c
               /\ \A i \in 1 .. c : ts[i] = ids[n + i]
  <1> DEFINE k == n + 1
             l == n + c
             ts == SubSeq(ids, k, l)
  <1>1. k \in Nat \ {0} /\ l \in Nat /\ l - k + 1 = c /\ k <= l
        /\ \A i \in 1 .. c : k + i - 1 = n + i
    OBVIOUS
  <1>2. \A i \in k .. l : ids[i] \in Token
    OBVIOUS
  <1> HIDE DEF k, l
  <1>3. /\ SubSeq(ids, k, l) \in Seq(Token)
        /\ Len(SubSeq(ids, k, l)) = IF k <= l THEN l - k + 1 ELSE 0
        /\ \A i \in 1 .. l - k + 1 : SubSeq(ids, k, l)[i] = ids[k + i - 1]
    BY <1>1, <1>2, SubSeqProperties
  <1>4. /\ ts \in Seq(Token) /\ Len(ts) = c
        /\ \A i \in 1 .. c : ts[i] = ids[n + i]
    BY <1>1, <1>3
  <1> HIDE DEF ts
  <1>5. ts # << >>
    BY <1>4, EmptySeq
  <1> QED BY <1>4, <1>5 DEF ts, k, l

LEMMA PrefillRowWork ==
    ASSUME RequestsOK, Books, NEW G, NEW W, MemoryAgrees(mem, req, G, W), NEW r \in Req,
           req[r].state = "PREFILLING", NEW c \in Nat \ {0}, Ready(mem, r, c),
           req[r].prefilled + c <= Len(PrefillIds(req[r]))
    PROVE  LET n == req[r].prefilled
               ts == SubSeq(PrefillIds(req[r]), n + 1, n + c)
           IN  RowOK(mem, StoriesOf(req), [r |-> r, from |-> n, toks |-> ts]) /\ Len(ts) = c
  <1> DEFINE q == req[r]
             s == Story(q)
             ids == PrefillIds(q)
             n == q.prefilled
             ts == SubSeq(ids, n + 1, n + c)
  <1>1. r \in Live
    BY DEF Live, Created
  <1>2. /\ RequestBooks(q) /\ s = q.kind.prompt \o q.out /\ s \in Seq(Token)
        /\ StoriesOf(req)[r] = s /\ q.kind \in Workload /\ q.out \in Seq(Token) /\ IsRequest(q)
    BY <1>1, RunningFacts
  <1>3. n = mem.len[r] /\ n + c <= Len(ids)
    BY DEF MemoryAgrees, PagesOf
  <1>4. n \in Nat
    BY <1>2 DEF IsRequest
  <1>5. q.resuming <=> q.out # << >>
    BY <1>2 DEF RequestBooks, PhaseOK
  <1> HIDE DEF q, n, ts
  <1>6. /\ ids \in Seq(Token) /\ Len(ids) \in Nat \ {0} /\ Len(ids) <= Len(q.kind.prompt \o q.out)
        /\ \A i \in 1 .. Len(ids) : ids[i] = (q.kind.prompt \o q.out)[i]
    BY <1>2, <1>5, StoryFacts
  <1> HIDE DEF s, ids
  <1>7. Len(s) \in Nat /\ Len(ids) <= Len(s) /\ \A i \in 1 .. Len(ids) : ids[i] = s[i]
    BY <1>2, <1>6, LenProperties
  <1>8. ts \in Seq(Token) /\ ts # << >> /\ Len(ts) = c /\ \A i \in 1 .. c : ts[i] = ids[n + i]
    BY <1>3, <1>4, <1>6, SliceFacts DEF ts
  <1>9. Continues(s, s, n, ts)
    <2>1. n + Len(ts) <= Len(s)
      BY <1>3, <1>4, <1>6, <1>7, <1>8
    <2>2. \A i \in 1 .. Len(ts) : s[n + i] = ts[i]
      <3>1. ASSUME NEW i \in 1 .. Len(ts) PROVE s[n + i] = ts[i]
        <4>1. i \in 1 .. c /\ n + i \in 1 .. Len(ids)
          BY <1>3, <1>4, <1>6, <1>8
        <4> QED BY <4>1, <1>7, <1>8
      <3> QED BY <3>1
    <2> QED BY <2>1, <2>2 DEF Continues
  <1>10. RowOK(mem, StoriesOf(req), [r |-> r, from |-> n, toks |-> ts])
    BY <1>2, <1>3, <1>8, <1>9 DEF RowOK
  <1> QED BY <1>8, <1>10 DEF ts, ids, n, q

\* After the pass the rows wait for their commit.
LEMMA ForwardAgrees ==
    ASSUME EngineInv, MemoryInv, NEW work, WorkOK(mem, StoriesOf(req), work),
           mem' = ForwardAll(mem, work), req' = req, Grants' = {},
           \A w \in Writes' : \E i \in 1 .. Len(work) : work[i].r = w[1] /\ Len(work[i].toks) = w[2]
    PROVE  MemoryAgrees(mem, req, Grants, Writes)' /\ Books' /\ Created' = Created
  <1> DEFINE t == StoriesOf(req)
  <1>1. RequestsOK /\ Books /\ MemoryAgrees(mem, req, Grants, Writes)
    BY InvParts
  <1>2. t \in [Req -> Seq(Token)] /\ \A r \in Req : t[r] = Story(req[r])
    BY <1>1, StoriesTyped DEF Books
  <1>3. MemoryOK(mem, t) /\ PredsRight(mem)
    BY <1>1 DEF MemoryAgrees
  <1>4. Forwarded(mem, mem', t, work, Len(work))
    BY <1>2, <1>3, ForwardAllStores
  <1>5. MemoryOK(mem', t) /\ mem'.pool = mem.pool /\ mem'.len = mem.len /\ mem'.pred = mem.pred
    BY <1>4 DEF Forwarded
  <1>6. PredsRight(mem')
    BY <1>3, <1>5 DEF PredsRight, Present
  <1>7. \A r \in Req : PagesOf(mem', r, req[r])
    BY <1>1, <1>5 DEF MemoryAgrees, PagesOf
  <1>8. ASSUME NEW w \in Writes' PROVE Covers(mem', w[1], w[2], Story(req[w[1]]))
    <2>1. PICK i \in 1 .. Len(work) : work[i].r = w[1] /\ Len(work[i].toks) = w[2]
      OBVIOUS
    <2>2. work[i].r \in Req
      BY DEF WorkOK, RowOK
    <2>3. Covers(mem', work[i].r, Len(work[i].toks), t[work[i].r])
      BY <1>4 DEF Forwarded
    <2> QED BY <2>1, <2>2, <2>3, <1>2
  <1>9. MemoryAgrees(mem', req, Grants', Writes')
    BY <1>5, <1>6, <1>7, <1>8 DEF MemoryAgrees
  <1>10. Books' /\ Created' = Created
    BY <1>1 DEF Books, Created
  <1> QED BY <1>9, <1>10

\* The rows of DecodeWork and PrefillWork, as members of a pass.
LEMMA DecodeWorkRows ==
    ASSUME EngineInv, MemoryInv, RequestsIn(rows, "DECODING"), pc \in {"decode", "forward"}
    PROVE  /\ Len(DecodeWork) = Len(rows) /\ Len(rows) \in Nat
           /\ \A i \in 1 .. Len(rows) : /\ RowOK(mem, StoriesOf(req), DecodeWork[i])
                                        /\ DecodeWork[i].r = rows[i] /\ Len(DecodeWork[i].toks) = 1
                                        /\ req[DecodeWork[i].r].state = "DECODING"
           /\ \A i, j \in 1 .. Len(rows) : DecodeWork[i].r = DecodeWork[j].r => i = j
  <1>1. RequestsOK /\ Books /\ MemoryAgrees(mem, req, Grants, Writes)
    BY InvParts
  <1>2. /\ rows \in Seq(Req) /\ Len(rows) \in Nat
        /\ \A i, j \in 1 .. Len(rows) : rows[i] = rows[j] => i = j
        /\ \A i \in 1 .. Len(rows) : rows[i] \in ToSet(rows) /\ rows[i] \in Req
                                     /\ req[rows[i]].state = "DECODING"
    <2>1. rows \in Seq(Req) /\ IsInjective(rows) /\ \A r \in ToSet(rows) : req[r].state = "DECODING"
      BY DEF RequestsIn
    <2>2. /\ \A x : x \in ToSet(rows) <=> \E i \in 1 .. Len(rows) : rows[i] = x
          /\ \A i, j \in 1 .. Len(rows) : rows[i] = rows[j] => i = j
          /\ Len(rows) \in Nat
      BY <2>1, ToSetIndexed
    <2>3. \A i \in 1 .. Len(rows) : rows[i] \in ToSet(rows) /\ rows[i] \in Req
      BY <2>1, <2>2
    <2> QED BY <2>1, <2>2, <2>3
  <1>3. Len(DecodeWork) = Len(rows)
    BY <1>2 DEF DecodeWork
  <1>4. ASSUME NEW i \in 1 .. Len(rows)
        PROVE  /\ RowOK(mem, StoriesOf(req), DecodeWork[i])
               /\ DecodeWork[i].r = rows[i] /\ Len(DecodeWork[i].toks) = 1
    <2> DEFINE r == rows[i]
    <2>1. r \in ToSet(rows) /\ r \in Req /\ req[r].state = "DECODING"
      BY <1>2
    <2>2. DecodeWork[i] = [r |-> r, from |-> mem.len[r], toks |-> <<req[r].next>>]
      BY <1>2 DEF DecodeWork
    <2> HIDE DEF r
    <2>3. Ready(mem, r, 1)
      <3>1. <<r, 1>> \in Grants
        BY <2>1 DEF Grants
      <3>2. Ready(mem, <<r, 1>>[1], <<r, 1>>[2])
        BY <3>1, <1>1 DEF MemoryAgrees
      <3> QED BY <3>2
    <2>4. RowOK(mem, StoriesOf(req), [r |-> r, from |-> mem.len[r], toks |-> <<req[r].next>>])
      BY <2>1, <2>3, <1>1, DecodeRowWork
    <2> QED BY <2>2, <2>4 DEF r
  <1> QED BY <1>2, <1>3, <1>4

LEMMA PrefillWorkRows ==
    ASSUME EngineInv, MemoryInv, pc = "forward"
    PROVE  /\ Len(PrefillWork) = Len(plans) /\ Len(plans) \in Nat
           /\ \A i \in 1 .. Len(plans) :
                 /\ RowOK(mem, StoriesOf(req), PrefillWork[i])
                 /\ PrefillWork[i].r = plans[i][1] /\ Len(PrefillWork[i].toks) = plans[i][2]
                 /\ req[PrefillWork[i].r].state = "PREFILLING"
           /\ \A i, j \in 1 .. Len(plans) : PrefillWork[i].r = PrefillWork[j].r => i = j
  <1>1. RequestsOK /\ Books /\ MemoryAgrees(mem, req, Grants, Writes) /\ PlansFit /\ LoopOK
    BY InvParts
  <1>2. /\ IsPlan(plans) /\ Len(plans) \in Nat
        /\ \A i \in 1 .. Len(plans) : req[plans[i][1]].state = "PREFILLING"
    BY <1>1, LenProperties DEF LoopOK, PlanIn, IsPlan, IsSeq
  <1>3. \A i, j \in 1 .. Len(plans) : plans[i][1] = plans[j][1] => i = j
    BY <1>2 DEF IsPlan
  <1>4. Len(PrefillWork) = Len(plans)
    BY <1>2 DEF PrefillWork
  <1>5. ASSUME NEW i \in 1 .. Len(plans)
        PROVE  /\ RowOK(mem, StoriesOf(req), PrefillWork[i])
               /\ PrefillWork[i].r = plans[i][1] /\ Len(PrefillWork[i].toks) = plans[i][2]
    <2> DEFINE r == plans[i][1]
               c == plans[i][2]
               n == req[r].prefilled
               ts == SubSeq(PrefillIds(req[r]), n + 1, n + c)
    <2>1. r \in Req /\ c \in Nat \ {0} /\ req[r].state = "PREFILLING"
      BY <1>2 DEF IsPlan
    <2>2. PrefillWork[i] = [r |-> r, from |-> n, toks |-> ts]
      BY <1>2 DEF PrefillWork
    <2>3. plans[i] \in ToSet(plans)
      BY <1>2, ToSetIndexed DEF IsPlan, IsSeq
    <2>4. n + c <= Len(PrefillIds(req[r]))
      BY <2>1, <2>3, <1>1 DEF PlansFit
    <2>5. Ready(mem, r, c)
      <3>1. plans[i] \in Grants
        BY <2>1, <2>3 DEF Grants
      <3> QED BY <3>1, <1>1 DEF MemoryAgrees
    <2> HIDE DEF r, c
    <2>6. RowOK(mem, StoriesOf(req), [r |-> r, from |-> n, toks |-> ts]) /\ Len(ts) = c
      BY <2>1, <2>4, <2>5, <1>1, PrefillRowWork
    <2> HIDE DEF ts, n
    <2> QED BY <2>2, <2>6 DEF r, c
  <1> QED BY <1>2, <1>3, <1>4, <1>5

LEMMA DecodeForwardAgrees ==
    ASSUME EngineInv, MemoryInv, DecodeForward
    PROVE  MemoryInv'
  <1>1. PlansFit /\ LoopOK
    BY InvParts
  <1>2. /\ pc = "decode" /\ pc' = "commitD" /\ mem' = ForwardAll(mem, DecodeWork) /\ req' = req
        /\ todo' = rows /\ rows' = rows /\ plans' = plans
    BY DEF DecodeForward
  <1>3. ~Fused /\ RequestsIn(rows, "DECODING") /\ plans = << >>
    BY <1>1, <1>2 DEF LoopOK, PlansFit
  <1>4. /\ Len(DecodeWork) = Len(rows) /\ Len(rows) \in Nat
        /\ \A i \in 1 .. Len(rows) : /\ RowOK(mem, StoriesOf(req), DecodeWork[i])
                                     /\ DecodeWork[i].r = rows[i] /\ Len(DecodeWork[i].toks) = 1
        /\ \A i, j \in 1 .. Len(rows) : DecodeWork[i].r = DecodeWork[j].r => i = j
    BY <1>2, <1>3, DecodeWorkRows
  <1>5. WorkOK(mem, StoriesOf(req), DecodeWork)
    BY <1>4 DEF WorkOK
  <1>6. Grants' = {} /\ Writes' = {<<r, 1>> : r \in ToSet(rows)}
    BY <1>2, <1>3, EmptyLists DEF Grants, Writes
  <1>7. ASSUME NEW w \in Writes'
        PROVE  \E i \in 1 .. Len(DecodeWork) :
                  DecodeWork[i].r = w[1] /\ Len(DecodeWork[i].toks) = w[2]
    <2>1. PICK r \in ToSet(rows) : w = <<r, 1>>
      BY <1>6
    <2>2. PICK i \in 1 .. Len(rows) : rows[i] = r
      BY <1>3, ToSetIndexed DEF RequestsIn
    <2>3. w[1] = r /\ w[2] = 1
      BY <2>1
    <2> QED BY <2>2, <2>3, <1>4
  <1>8. MemoryAgrees(mem, req, Grants, Writes)' /\ Books' /\ Created' = Created
    BY <1>2, <1>5, <1>6, <1>7, ForwardAgrees
  <1>9. PlansFit'
    BY <1>1, <1>2, <1>3, <1>8, EmptyLists DEF PlansFit
  <1>10. RowsFit'
    BY <1>2 DEF RowsFit
  <1> QED BY <1>8, <1>9, <1>10 DEF MemoryInv

LEMMA FusedForwardAgrees ==
    ASSUME EngineInv, MemoryInv, FusedForward
    PROVE  MemoryInv'
  <1> DEFINE work == DecodeWork \o PrefillWork
             a == Len(rows)
             b == Len(plans)
  <1>1. PlansFit /\ LoopOK
    BY InvParts
  <1>2. /\ pc = "forward" /\ mem' = ForwardAll(mem, work) /\ req' = req
        /\ pc' = (IF Fused THEN "commitD" ELSE "commitP")
        /\ todo' = (IF Fused THEN rows ELSE plans)
        /\ rows' = rows /\ plans' = plans
    BY DEF FusedForward
  <1>3. RequestsIn(rows, "DECODING") /\ PlanIn(plans, "PREFILLING")
    BY <1>1, <1>2 DEF LoopOK
  <1>4. /\ Len(DecodeWork) = a /\ a \in Nat
        /\ \A i \in 1 .. a : /\ RowOK(mem, StoriesOf(req), DecodeWork[i])
                             /\ DecodeWork[i].r = rows[i] /\ Len(DecodeWork[i].toks) = 1
                             /\ req[DecodeWork[i].r].state = "DECODING"
        /\ \A i, j \in 1 .. a : DecodeWork[i].r = DecodeWork[j].r => i = j
    BY <1>2, <1>3, DecodeWorkRows
  <1>5. /\ Len(PrefillWork) = b /\ b \in Nat
        /\ \A i \in 1 .. b :
              /\ RowOK(mem, StoriesOf(req), PrefillWork[i])
              /\ PrefillWork[i].r = plans[i][1] /\ Len(PrefillWork[i].toks) = plans[i][2]
              /\ req[PrefillWork[i].r].state = "PREFILLING"
        /\ \A i, j \in 1 .. b : PrefillWork[i].r = PrefillWork[j].r => i = j
    BY <1>2, PrefillWorkRows
  <1>6. /\ Len(work) = a + b
        /\ \A i \in 1 .. a + b : work[i] = IF i <= a THEN DecodeWork[i] ELSE PrefillWork[i - a]
    <2> DEFINE S == {DecodeWork[i] : i \in 1 .. a} \cup {PrefillWork[i] : i \in 1 .. b}
    <2>1. DecodeWork \in Seq(S) /\ PrefillWork \in Seq(S)
      <3>1. DecodeWork = [i \in 1 .. a |-> DecodeWork[i]] /\ PrefillWork = [i \in 1 .. b |-> PrefillWork[i]]
        BY DEF DecodeWork, PrefillWork
      <3>2. \A i \in 1 .. a : DecodeWork[i] \in S
        OBVIOUS
      <3>3. \A i \in 1 .. b : PrefillWork[i] \in S
        OBVIOUS
      <3> HIDE DEF S
      <3> QED BY <3>1, <3>2, <3>3, <1>4, <1>5
    <2> HIDE DEF S
    <2>2. /\ Len(work) = Len(DecodeWork) + Len(PrefillWork)
          /\ \A i \in 1 .. Len(DecodeWork) + Len(PrefillWork) :
                work[i] = IF i <= Len(DecodeWork) THEN DecodeWork[i] ELSE PrefillWork[i - Len(DecodeWork)]
      BY <2>1, ConcatProperties
    <2> QED BY <2>2, <1>4, <1>5
  <1> HIDE DEF work, a, b
  <1>7. \A i \in a + 1 .. a + b : i - a \in 1 .. b /\ i \in 1 .. a + b /\ ~(i <= a)
    BY <1>4, <1>5
  <1>8. \A i \in 1 .. a + b : i \in 1 .. a \/ i \in a + 1 .. a + b
    BY <1>4, <1>5
  <1>9. \A i \in 1 .. a : i \in 1 .. a + b /\ work[i] = DecodeWork[i]
    BY <1>4, <1>5, <1>6
  <1>10. \A i \in a + 1 .. a + b : work[i] = PrefillWork[i - a]
    BY <1>6, <1>7
  <1>11. ASSUME NEW i \in 1 .. a + b, NEW j \in 1 .. a + b, work[i].r = work[j].r
         PROVE  i = j
    <2>1. CASE i \in 1 .. a /\ j \in 1 .. a
      BY <2>1, <1>4, <1>9, <1>11
    <2>2. CASE i \in a + 1 .. a + b /\ j \in a + 1 .. a + b
      <3>1. i - a = j - a
        BY <2>2, <1>5, <1>7, <1>10, <1>11
      <3> QED BY <3>1, <2>2, <1>4, <1>5
    <2>3. CASE i \in 1 .. a /\ j \in a + 1 .. a + b
      BY <2>3, <1>4, <1>5, <1>7, <1>9, <1>10, <1>11
    <2>4. CASE i \in a + 1 .. a + b /\ j \in 1 .. a
      BY <2>4, <1>4, <1>5, <1>7, <1>9, <1>10, <1>11
    <2> QED BY <2>1, <2>2, <2>3, <2>4, <1>8
  <1>12. WorkOK(mem, StoriesOf(req), work)
    <2>1. ASSUME NEW i \in 1 .. Len(work) PROVE RowOK(mem, StoriesOf(req), work[i])
      <3>1. i \in 1 .. a + b
        BY <1>6
      <3>2. CASE i \in 1 .. a
        BY <3>2, <1>4, <1>9
      <3>3. CASE i \in a + 1 .. a + b
        BY <3>3, <1>5, <1>7, <1>10
      <3> QED BY <3>1, <3>2, <3>3, <1>8
    <2>2. Len(work) \in Nat
      BY <1>4, <1>5, <1>6
    <2> QED BY <2>1, <2>2, <1>6, <1>11 DEF WorkOK
  <1>13. Grants' = {}
    BY <1>2, EmptyLists DEF Grants
  <1>14. ASSUME NEW w \in Writes'
         PROVE  \E i \in 1 .. Len(work) : work[i].r = w[1] /\ Len(work[i].toks) = w[2]
    <2>1. CASE \E r \in ToSet(rows) : w = <<r, 1>>
      <3>1. PICK r \in ToSet(rows) : w = <<r, 1>>
        BY <2>1
      <3>2. PICK i \in 1 .. a : rows[i] = r
        BY <1>3, ToSetIndexed DEF RequestsIn, a
      <3>3. w[1] = r /\ w[2] = 1
        BY <3>1
      <3>4. i \in 1 .. Len(work) /\ work[i].r = r /\ Len(work[i].toks) = 1
        BY <3>2, <1>4, <1>6, <1>9
      <3> QED BY <3>3, <3>4
    <2>2. CASE w \in ToSet(plans)
      <3>1. PICK i \in 1 .. b : plans[i] = w
        BY <2>2, <1>3, ToSetIndexed DEF PlanIn, IsPlan, IsSeq, b
      <3>2. a + i \in a + 1 .. a + b /\ (a + i) - a = i /\ a + i \in 1 .. Len(work)
        BY <3>1, <1>4, <1>5, <1>6
      <3>3. work[a + i] = PrefillWork[i]
        BY <3>2, <1>10
      <3>4. work[a + i].r = w[1] /\ Len(work[a + i].toks) = w[2]
        BY <3>1, <3>3, <1>5
      <3> QED BY <3>2, <3>4
    <2>3. (\E r \in ToSet(rows) : w = <<r, 1>>) \/ w \in ToSet(plans)
      BY <1>2 DEF Writes
    <2> QED BY <2>1, <2>2, <2>3
  <1>15. MemoryAgrees(mem, req, Grants, Writes)' /\ Books' /\ Created' = Created
    BY <1>2, <1>12, <1>13, <1>14, ForwardAgrees
  <1>16. PlansFit'
    <2>1. ASSUME NEW p \in ToSet(plans) PROVE req[p[1]].prefilled + p[2] <= Len(PrefillIds(req[p[1]]))
      <3>1. PICK i \in 1 .. Len(plans) : plans[i] = p
        BY <1>3, ToSetIndexed DEF PlanIn, IsPlan, IsSeq
      <3>2. req[p[1]].state = "PREFILLING"
        BY <3>1, <1>3 DEF PlanIn
      <3> QED BY <3>2, <1>1, <1>2 DEF PlansFit
    <2> QED BY <2>1, <1>1, <1>2, <1>15 DEF PlansFit
  <1>17. RowsFit'
    BY <1>2 DEF RowsFit
  <1> QED BY <1>15, <1>16, <1>17 DEF MemoryInv

-----------------------------------------------------------------------------
(* Commits. *)

\* A sequence that starts with p has it as a prefix.
LEMMA PrefixOfStart ==
    ASSUME NEW s \in Seq(Token), NEW p \in Seq(Token), Len(p) <= Len(s),
           \A i \in 1 .. Len(p) : s[i] = p[i]
    PROVE  Prefix(s, Len(p)) = p
  <1> DEFINE n == Len(p)
             x == SubSeq(s, 1, n)
  <1>1. n \in Nat /\ Len(s) \in Nat
    BY LenProperties
  <1>2. \A i \in 1 .. n : s[i] \in Token
    BY <1>1
  <1>3. /\ x \in Seq(Token) /\ Len(x) = (IF 1 <= n THEN n - 1 + 1 ELSE 0)
        /\ \A i \in 1 .. n - 1 + 1 : x[i] = s[1 + i - 1]
    <2>1. 1 \in Nat
      OBVIOUS
    <2> HIDE DEF n
    <2> QED BY <2>1, <1>1, <1>2, SubSeqProperties
  <1> HIDE DEF x
  <1>4. Len(x) = Len(p) /\ \A i \in 1 .. Len(p) : x[i] = p[i]
    BY <1>1, <1>3
  <1>5. x = p
    BY <1>3, <1>4, SeqEqual
  <1> QED BY <1>5 DEF x, Prefix

\* r moved, and with it what was promised to it.
LEMMA OneAgrees ==
    ASSUME EngineInv, MemoryInv, NEW r \in Created, MovesBooked(r), req'[r].state # "new",
           GrantsMove(Grants, Grants', mem', r), WritesMove(Writes, Writes', mem', r, req')
    PROVE  MemoryAgrees(mem, req, Grants, Writes)' /\ Books' /\ Created' = Created /\ Only(r)
  <1>1. /\ Books /\ MemoryAgrees(mem, req, Grants, Writes) /\ Pairs(Grants) /\ Pairs(Writes)
    BY InvParts
  <1>2. Moves(mem, mem', r, req, req') /\ RequestBooks(req'[r]) /\ r \in Req
    BY DEF MovesBooked, Created
  <1>3. Only(r)
    BY <1>2 DEF Moves, Elsewhere, Only
  <1>4. Created' = Created
    BY <1>3 DEF Created, Only
  <1>5. Books'
    BY <1>1, <1>2, <1>3, <1>4, BooksStand
  <1>6. MemoryAgrees(mem', req', Grants', Writes')
    BY <1>1, <1>2, OneMoves
  <1> QED BY <1>3, <1>4, <1>5, <1>6

\* m is the memory after r's c positions, which read as its own story, were committed.
Commits(m, r, c) ==
    /\ Progressed(m, r)
    /\ m.len[r] = mem.len[r] + c /\ m.len[r] \in Nat /\ m.len[r] <= Len(Story(req[r]))
    /\ m.pool = mem.pool /\ m.pool.owns[r] # << >>
    /\ PagesOf(mem, r, req[r])
    /\ \A n \in {m.len[r]} : \A a : a \in Sampled(r, n) /\ ModelTyped =>
          a \in Token /\ (req[r].kind.greedy => a = Model(Prefix(Story(req[r]), n)))

LEMMA CommitProgress ==
    ASSUME EngineInv, MemoryInv, NEW r \in Live, NEW c \in Nat \ {0},
           NEW w \in Writes, w[1] = r, w[2] = c, NEW m, m = Commit(mem, r, c)
    PROVE  Commits(m, r, c)
  <1> DEFINE t == StoriesOf(req)
             s == Story(req[r])
  <1>1. RequestsOK /\ Books /\ MemoryAgrees(mem, req, Grants, Writes)
    BY InvParts
  <1>2. /\ mem \in Memory /\ mem.len[r] \in Nat /\ mem.pool.owns[r] # << >>
        /\ PagesOf(mem, r, req[r]) /\ MemoryOK(mem, t) /\ PredsRight(mem)
        /\ t \in [Req -> Seq(Token)]
    BY <1>1, RunningPages
  <1>3. r \in Req /\ s \in Seq(Token) /\ t[r] = s
    BY <1>1, RunningFacts
  <1>4. Covers(mem, r, c, s)
    <2>1. Covers(mem, w[1], w[2], Story(req[w[1]]))
      BY <1>1 DEF MemoryAgrees
    <2> QED BY <2>1
  <1> HIDE DEF t, s
  <1>5. Advanced(mem, m, t, r, c)
    BY <1>2, <1>3, <1>4, CommitKeeps
  <1>6. /\ MemoryOK(m, t) /\ m.pool = mem.pool /\ m.len = [mem.len EXCEPT ![r] = mem.len[r] + c]
        /\ Apart(mem, m, r)
    BY <1>5 DEF Advanced
  <1>7. m.len[r] = mem.len[r] + c
    BY <1>2, <1>3, <1>6, MemoryFields
  <1>8. mem.len[r] + c <= Len(s) /\ Reads(mem, r, s, mem.len[r] + c) /\ mem.len[r] + c \in Nat
    BY <1>2, <1>4 DEF Covers
  <1>9. Progressed(m, r)
    <2>1. Spares(mem, m, Req \ {r}) /\ PredsRight(m)
      BY <1>2, <1>6, PredsRightKept DEF Apart
    <2> QED BY <2>1, <1>6 DEF Progressed, t
  <1>10. ASSUME NEW a, a \in Sampled(r, mem.len[r] + c), ModelTyped
         PROVE  a \in Token /\ (req[r].kind.greedy => a = Model(Prefix(s, mem.len[r] + c)))
    BY <1>2, <1>3, <1>8, <1>10, SampledIsNext
  <1>11. ASSUME NEW n \in {m.len[r]}, NEW a, a \in Sampled(r, n), ModelTyped
         PROVE  a \in Token /\ (req[r].kind.greedy => a = Model(Prefix(s, n)))
    BY <1>7, <1>10, <1>11
  <1> QED BY <1>2, <1>6, <1>7, <1>8, <1>9, <1>11 DEF s, Commits

LEMMA CommitDecodeRowAgrees ==
    ASSUME ModelTyped, EngineInv, MemoryInv, CommitDecodeRow
    PROVE  MemoryInv'
  <1> DEFINE r == Head(todo)
             m == Commit(mem, r, 1)
             s == Story(req[r])
  <1>1. RequestsOK /\ Books /\ PlansFit /\ LoopOK
    BY InvParts
  <1>2. /\ pc = "commitD" /\ pc' = pc /\ todo # << >> /\ RequestsIn(todo, "DECODING")
        /\ todo' = Tail(todo) /\ rows' = rows /\ plans' = plans
    BY <1>1 DEF LoopOK, CommitDecodeRow
  <1>3. /\ todo \in Seq(Req) /\ IsInjective(todo)
        /\ r \in Req /\ r \in ToSet(todo) /\ ToSet(todo) = ToSet(Tail(todo)) \cup {r}
        /\ r \notin ToSet(Tail(todo)) /\ req[r].state = "DECODING"
    BY <1>2, TailSet DEF RequestsIn
  <1>4. r \in Live /\ r \in Created
    BY <1>3 DEF Live, Created
  <1>5. Commits(m, r, 1)
    <2>1. <<r, 1>> \in Writes
      BY <1>2, <1>3 DEF Writes
    <2>2. <<r, 1>>[1] = r /\ <<r, 1>>[2] = 1 /\ 1 \in Nat \ {0}
      OBVIOUS
    <2> QED BY <2>1, <2>2, <1>4, CommitProgress
  <1>6. /\ Progressed(m, r) /\ m.len[r] = mem.len[r] + 1 /\ m.pool.owns[r] # << >>
        /\ PagesOf(mem, r, req[r])
        /\ \A n \in {m.len[r]} : \A a : a \in Sampled(r, n) /\ ModelTyped =>
              a \in Token /\ (req[r].kind.greedy => a = Model(Prefix(s, n)))
    BY <1>5 DEF Commits
  <1>7. /\ IsRequest(req[r]) /\ s \in Seq(Token)
        /\ Len(s) = Len(req[r].kind.prompt) + Len(req[r].out)
        /\ Len(req[r].kind.prompt) \in Nat \ {0} /\ Len(req[r].out) \in Nat
    BY <1>1, <1>4, RunningFacts
  <1>8. m.len[r] = Len(s)
    <2>1. mem.len[r] = Len(req[r].kind.prompt) + Len(req[r].out) - 1
      BY <1>3, <1>6 DEF PagesOf
    <2> HIDE DEF m, s, r
    <2> QED BY <2>1, <1>6, <1>7
  <1>9. PICK t \in Sampled(r, m.len[r]) :
           AppendToken(m, r, [req[r] EXCEPT !.next = t, !.out = Append(@, t)])
    BY Zenon DEF CommitDecodeRow
  <1> DEFINE u == [req[r] EXCEPT !.next = t, !.out = Append(@, t)]
  <1>10. AppendToken(m, r, u)
    BY <1>9
  <1>11. t \in Token /\ (req[r].kind.greedy => t = Model(s))
    <2>1. t \in Token /\ (req[r].kind.greedy => t = Model(Prefix(s, m.len[r])))
      BY <1>6, <1>9
    <2> HIDE DEF m, s, r
    <2>2. Prefix(s, Len(s)) = s
      <3>1. Len(s) <= Len(s)
        BY <1>7, LenProperties
      <3> QED BY <3>1, <1>7, PrefixOfStart
    <2> QED BY <2>1, <2>2, <1>8
  <1>12. TokenTo(req[r], u, t)
    <2> DEFINE q == req[r]
    <2>1. Carried(q, q) /\ TokenAppended(q, u, t)
      BY <1>1, <1>3, <1>4, CarriedSelf DEF TokenAppended
    <2>2. {"state", "next", "out", "kind", "cachedNext"} \subseteq DOMAIN q
      <3>1. q = [f \in Fields |-> q[f]]
        BY <1>7 DEF IsRequest
      <3>2. DOMAIN q = Fields
        BY <3>1
      <3> QED BY <3>2 DEF Fields
    <2>3. q.state = "DECODING"
      BY <1>3
    <2> HIDE DEF q
    <2>4. u.kind = q.kind /\ u.out = Append(q.out, t) /\ u.next = t /\ u.state = q.state
          /\ u.cachedNext = q.cachedNext
      BY <2>2 DEF q
    <2> HIDE DEF u
    <2>5. IsRequest(u)
      BY <2>1, TokenCarried DEF Carried
    <2> QED BY <2>3, <2>4, <2>5 DEF TokenTo, q
  <1> HIDE DEF u, m
  <1>13. MovesBooked(r) /\ req'[r].state \in {"DECODING", "FINISHED"}
    BY <1>1, <1>4, <1>6, <1>8, <1>10, <1>11, <1>12, AppendTokenMoves
  <1> HIDE DEF r, s
  <1>14. Grants' = {}
    BY <1>2 DEF Grants
  <1>15. ASSUME NEW w \in Writes' PROVE w \in Writes /\ w[1] # r
    <2>1. CASE \E y \in ToSet(Tail(todo)) : w = <<y, 1>>
      <3>1. PICK y \in ToSet(Tail(todo)) : w = <<y, 1>>
        BY <2>1
      <3> QED BY <3>1, <1>2, <1>3 DEF Writes
    <2>2. CASE Fused /\ w \in ToSet(plans)
      <3>1. PlanIn(plans, "PREFILLING")
        BY <2>2, <1>1, <1>2 DEF LoopOK
      <3>2. PICK i \in 1 .. Len(plans) : plans[i] = w
        BY <2>2, <3>1, ToSetIndexed DEF PlanIn, IsPlan, IsSeq
      <3>3. req[w[1]].state = "PREFILLING"
        BY <3>1, <3>2 DEF PlanIn
      <3> QED BY <2>2, <3>3, <1>2, <1>3 DEF Writes
    <2> QED BY <2>1, <2>2, <1>2 DEF Writes
  <1>16. GrantsMove(Grants, Grants', mem', r) /\ WritesMove(Writes, Writes', mem', r, req')
    BY <1>14, <1>15 DEF GrantsMove, WritesMove
  <1>17. MemoryAgrees(mem, req, Grants, Writes)' /\ Books' /\ Created' = Created /\ Only(r)
    BY <1>4, <1>13, <1>16, OneAgrees
  <1>18. PrefillsStand
    BY <1>13, <1>17 DEF PrefillsStand, Only, Created
  <1>19. PlansFit'
    BY <1>1, <1>2, <1>17, <1>18, PlansStand
  <1>20. RowsFit'
    BY <1>2 DEF RowsFit
  <1> QED BY <1>17, <1>19, <1>20 DEF MemoryInv

LEMMA ExactHitAgrees ==
    ASSUME ModelTyped, EngineInv, MemoryInv, ExactHit
    PROVE  MemoryInv'
  <1> DEFINE r == Head(todo)
  <1>1. RequestsOK /\ Books /\ PlansFit /\ LoopOK /\ RowsFit /\ MemoryAgrees(mem, req, Grants, Writes)
    BY InvParts
  <1>2. /\ pc = "exact" /\ pc' = pc /\ todo # << >> /\ RequestsIn(todo, "PREFILLING")
        /\ rows' = rows /\ plans' = plans
    BY <1>1 DEF LoopOK, ExactHit
  <1>3. r \in Req /\ req[r].state = "PREFILLING"
    BY <1>2, TailSet DEF RequestsIn
  <1>4. r \in Live /\ r \in Created
    BY <1>3 DEF Live, Created
  <1>5. /\ Grants = {<<y, 1>> : y \in {z \in ToSet(rows) : req[z].state = "DECODING"}}
        /\ Grants' = {<<y, 1>> : y \in {z \in ToSet(rows) : req'[z].state = "DECODING"}}
        /\ Writes = {} /\ Writes' = {}
    BY <1>2 DEF Grants, Writes
  <1>6. \A y \in ToSet(rows) : req[y].state = "DECODING" /\ y # r /\ y \in Req
    <2>1. rows \in Seq(Req)
      BY <1>1 DEF LoopOK
    <2> QED BY <2>1, <1>1, <1>2, <1>3, ToSetIndexed DEF RowsFit
  <1>7. CASE Remaining(req[r]) = 0
    <2> DEFINE q == req[r]
               ids == PrefillIds(q)
    <2>1. /\ IsRequest(q) /\ RequestBooks(q) /\ q.kind.prompt \in Seq(Token)
      BY <1>1, <1>4, RunningFacts
    <2>2. /\ mem.pool.owns[r] # << >> /\ PagesOf(mem, r, q) /\ Progressed(mem, r)
      BY <1>1, <1>4, RunningPages
    <2>3. q.prefilled = Len(ids)
      <3>1. Len(ids) \in Nat /\ q.prefilled \in Nat
        BY <2>1, PrefillLength DEF IsRequest
      <3>2. Len(ids) - q.prefilled = 0
        BY <1>7 DEF Remaining
      <3> HIDE DEF ids, q
      <3> QED BY <3>1, <3>2
    <2>4. mem.len[r] = Len(ids) /\ Len(mem.pool.owns[r]) <= BlocksFor(mem.len[r])
      BY <2>2, <2>3, <1>3 DEF PagesOf
    <2>5. ~q.resuming => q.cachedNext \in Token /\ (q.kind.greedy => q.cachedNext = Model(q.kind.prompt))
      BY <2>1, <2>3, <1>3 DEF RequestBooks, PhaseOK, ModelTyped
    <2>6. CompletePrefill(mem, r, q, q.cachedNext)
      BY <1>7 DEF ExactHit
    <2>7. SameRequest(q, q)
      BY <2>1, SameSelf
    <2> HIDE DEF r
    <2>8. MovesBooked(r) /\ req'[r].state \in {"DECODING", "FINISHED", "FAILED"}
      BY <2>2, <2>4, <2>5, <2>6, <2>7, <1>1, <1>3, <1>4, CompletePrefillMoves
    <2>9. Only(r)
      BY <2>8 DEF MovesBooked, Moves, Elsewhere, Only
    <2>10. \A y \in ToSet(rows) : req'[y] = req[y]
      BY <2>9, <1>6 DEF Only
    <2>11. GrantsMove(Grants, Grants', mem', r) /\ WritesMove(Writes, Writes', mem', r, req')
      BY <2>10, <1>5, <1>6 DEF GrantsMove, WritesMove
    <2>12. MemoryAgrees(mem, req, Grants, Writes)' /\ Books' /\ Created' = Created
      BY <2>8, <2>11, <1>4, OneAgrees
    <2>13. PlansFit'
      BY <2>12, <1>1, <1>2, PlansStand
    <2>14. RowsFit'
      BY <2>10, <1>1, <1>2, RowsStand
    <2> QED BY <2>12, <2>13, <2>14 DEF MemoryInv
  <1>8. CASE Remaining(req[r]) # 0
    <2>1. UNCHANGED <<mem, req>>
      BY <1>8 DEF ExactHit, sched
    <2>2. MemoryAgrees(mem, req, Grants, Writes)' /\ Books'
      BY <2>1, <1>5, QuietAgrees
    <2>3. Created' = Created
      BY <2>1 DEF Created
    <2>4. PlansFit' /\ RowsFit'
      BY <2>1, <2>3, <1>1, <1>2, PlansStand, RowsStand
    <2> QED BY <2>2, <2>4 DEF MemoryInv
  <1> QED BY <1>7, <1>8

LEMMA CommitPrefillChunkAgrees ==
    ASSUME ModelTyped, EngineInv, MemoryInv, CommitPrefillChunk
    PROVE  MemoryInv'
  <1> DEFINE h == Head(todo)
             r == h[1]
             n == h[2]
             m == Commit(mem, r, n)
             q == [req[r] EXCEPT !.prefilled = @ + n]
             ids == PrefillIds(req[r])
             s == Story(req[r])
  <1>1. RequestsOK /\ Books /\ PlansFit /\ LoopOK
    BY InvParts
  <1>2. /\ pc = "commitP" /\ pc' = pc /\ todo # << >> /\ PlanIn(todo, "PREFILLING")
        /\ todo' = Tail(todo) /\ rows' = rows /\ plans' = plans
    BY <1>1 DEF LoopOK, CommitPrefillChunk
  <1>3. IsPlan(todo) /\ \A i \in 1 .. Len(todo) : req[todo[i][1]].state = "PREFILLING"
    BY <1>2 DEF PlanIn
  <1>4. /\ IsPlan(Tail(todo)) /\ r \in Req /\ n \in Nat \ {0}
        /\ 1 \in 1 .. Len(todo) /\ h = todo[1]
        /\ \A i \in 1 .. Len(Tail(todo)) :
              /\ i + 1 \in 1 .. Len(todo) /\ Tail(todo)[i] = todo[i + 1]
              /\ Tail(todo)[i][1] # r
    BY <1>2, <1>3, PlanTail
  <1> HIDE DEF h
  <1>5. req[r].state = "PREFILLING" /\ h \in ToSet(todo)
    BY <1>3, <1>4, ToSetIndexed DEF IsPlan, IsSeq
  <1>6. ASSUME NEW w \in ToSet(Tail(todo)) PROVE w \in ToSet(todo) /\ w[1] # r /\ w[1] \in Req
    <2>0. IsSeq(Tail(todo)) /\ IsSeq(todo)
      BY <1>3, <1>4 DEF IsPlan
    <2>1. PICK i \in 1 .. Len(Tail(todo)) : w = Tail(todo)[i]
      BY <2>0, ToSetIndexed DEF IsSeq
    <2>2. w = todo[i + 1] /\ i + 1 \in 1 .. Len(todo) /\ w[1] # r
      BY <2>1, <1>4
    <2>3. w[1] \in Req /\ w \in ToSet(todo)
      <3>1. \A k \in 1 .. Len(todo) : todo[k][1] \in Req
        BY <1>3, SMTT(30) DEF IsPlan
      <3>2. w[1] \in Req
        <4>1. PICK k \in 1 .. Len(todo) : w = todo[k]
          BY <2>2, Zenon
        <4> QED BY <4>1, <3>1, Zenon
      <3>3. w \in ToSet(todo)
        <4>1. \A x : x \in ToSet(todo) <=> \E k \in 1 .. Len(todo) : todo[k] = x
          BY <2>0, ToSetIndexed, ZenonT(30) DEF IsSeq
        <4> QED BY <4>1, <2>2, Zenon
      <3> QED BY <3>2, <3>3
    <2> QED BY <2>2, <2>3
  <1>7. r \in Live /\ r \in Created
    BY <1>4, <1>5 DEF Live, Created
  <1>8. h \in Writes
    BY <1>2, <1>5 DEF Writes
  <1>0. Commits(m, r, n)
    BY <1>4, <1>7, <1>8, CommitProgress
  <1>9. /\ Progressed(m, r) /\ MemoryOK(m, StoriesOf(req)) /\ m.len[r] = mem.len[r] + n
        /\ m.len[r] \in Nat /\ m.len[r] <= Len(s) /\ m.pool = mem.pool
        /\ m.pool.owns[r] # << >> /\ PagesOf(mem, r, req[r])
        /\ \A k \in {m.len[r]} : \A a : a \in Sampled(r, k) /\ ModelTyped =>
              a \in Token /\ (req[r].kind.greedy => a = Model(Prefix(s, k)))
    BY <1>0 DEF Commits, Progressed
  <1>10. /\ IsRequest(req[r]) /\ RequestBooks(req[r]) /\ s \in Seq(Token)
         /\ req[r].kind.prompt \in Seq(Token) /\ req[r].state \notin Terminal
         /\ req[r].kind \in Workload /\ req[r].out \in Seq(Token)
         /\ s = req[r].kind.prompt \o req[r].out
         /\ StoriesOf(req) \in [Req -> Seq(Token)]
    BY <1>1, <1>7, RunningFacts, StoriesTyped DEF Books
  <1>11. req[r].prefilled + n <= Len(ids)
    BY <1>1, <1>2, <1>5 DEF PlansFit
  <1>12. SameRequest(req[r], q) /\ q.prefilled = req[r].prefilled + n
    <2> DEFINE p == req[r]
    <2>1. p = [f \in Fields |-> p[f]] /\ IsRequest(p)
          /\ q = [p EXCEPT !.prefilled = p.prefilled + n]
      BY <1>10 DEF IsRequest
    <2> HIDE DEF p, q
    <2>2. /\ q = [f \in Fields |-> q[f]]
          /\ q.state = p.state /\ q.queued = p.queued
          /\ q.out = p.out /\ q.yields = p.yields /\ q.epoch = p.epoch
          /\ q.kind = p.kind /\ q.prefilled = p.prefilled + n
          /\ q.next = p.next /\ q.cachedNext = p.cachedNext /\ q.resuming = p.resuming
      BY <2>1 DEF Fields
    <2>3. q.prefilled \in Nat
      BY <2>1, <2>2, <1>4 DEF IsRequest
    <2>4. IsRequest(q)
      BY <2>1, <2>2, <2>3 DEF IsRequest
    <2> QED BY <2>2, <2>4 DEF SameRequest, p
  <1> HIDE DEF r, n, m, q, s
  <1>13. PrefillIds(q) = ids
    BY <1>12 DEF PrefillIds, SameRequest
  <1>14. /\ m.len[r] = q.prefilled /\ Len(m.pool.owns[r]) <= BlocksFor(Len(ids))
         /\ q.prefilled \in Nat /\ Len(ids) \in Nat /\ q.prefilled <= Len(ids)
    BY <1>5, <1>9, <1>10, <1>11, <1>12, PrefillLength DEF PagesOf, IsRequest
  <1> HIDE DEF ids
  <1>15. MovesBooked(r) /\ req'[r].state \in {"PREFILLING", "DECODING", "FINISHED", "FAILED"}
    <2>1. CASE Remaining(q) = 0
      <3>1. PICK t \in Sampled(r, m.len[r]) : CompletePrefill(m, r, q, t)
        BY <2>1 DEF CommitPrefillChunk, r, n, m, q, h
      <3>2. m.len[r] = Len(ids)
        BY <2>1, <1>13, <1>14 DEF Remaining
      <3>3. t \in Token /\ (req[r].kind.greedy => t = Model(Prefix(s, m.len[r])))
        BY <3>1, <1>9
      <3>4. ASSUME ~q.resuming PROVE Prefix(s, m.len[r]) = req[r].kind.prompt
        <4>1. ids = req[r].kind.prompt
          BY <3>4, <1>12 DEF ids, PrefillIds, SameRequest
        <4>2. /\ Len(req[r].kind.prompt) <= Len(s)
              /\ \A i \in 1 .. Len(req[r].kind.prompt) : s[i] = req[r].kind.prompt[i]
          <5>1. \A i \in 1 .. Len(req[r].kind.prompt) : s[i] = req[r].kind.prompt[i]
            BY <1>10, StoryFacts
          <5> QED BY <5>1, <3>2, <4>1, <1>9
        <4> QED BY <4>1, <4>2, <3>2, <1>10, PrefixOfStart
      <3>5. ~q.resuming => t \in Token /\ (q.kind.greedy => t = Model(q.kind.prompt))
        BY <3>3, <3>4, <1>12 DEF SameRequest
      <3>6. Len(m.pool.owns[r]) <= BlocksFor(m.len[r]) /\ m.len[r] = Len(PrefillIds(req[r]))
        BY <3>2, <1>14 DEF ids
      <3> QED BY <3>1, <3>5, <3>6, <1>1, <1>5, <1>7, <1>9, <1>12, CompletePrefillMoves
    <2>2. CASE Remaining(q) # 0
      <3>1. mem' = m /\ req' = [req EXCEPT ![r] = q]
        BY <2>2 DEF CommitPrefillChunk, r, n, m, q, h
      <3>2. req'[r] = q /\ Only(r)
        BY <3>1, <1>1, <1>4, Assigned
      <3>3. q.prefilled # Len(ids)
        BY <2>2, <1>13, <1>14 DEF Remaining
      <3>4. q.state = "PREFILLING" /\ Story(q) = s
        BY <1>5, <1>12 DEF SameRequest, Story, s
      <3>5. OutputOK(q)
        BY <3>4, <1>10, <1>12, OutputSame DEF SameRequest, RequestBooks
      <3>6. PhaseOK(q)
        BY <3>3, <3>4, <1>5, <1>10, <1>12, <1>13, <1>14 DEF PhaseOK, SameRequest, RequestBooks
      <3>7. RequestBooks(q)
        BY <3>5, <3>6, <1>10, <1>12 DEF RequestBooks, SameRequest
      <3>8. PagesOf(m, r, q)
        BY <3>4, <1>9, <1>13, <1>14 DEF PagesOf, Running
      <3>9. Follows(s, s, m.len[r])
        BY <1>9 DEF Follows
      <3>10. Moves(mem, m, r, req, req')
        <4>1. s = Story(req[r])
          BY DEF s
        <4>2. Elsewhere(req, req', r)
          BY <3>2 DEF Only, Elsewhere
        <4>3. Spares(mem, m, Req \ {r}) /\ PredsRight(m)
          BY <1>9 DEF Progressed
        <4>4. s = Story(req'[r]) /\ PagesOf(m, r, req'[r])
          BY <3>2, <3>4, <3>8
        <4>5. Follows(s, Story(req[r]), m.len[r])
          BY <3>9, <4>1
        <4> QED BY <4>2, <4>3, <4>4, <4>5, <1>4, <1>9, <1>10, StayMoves
      <3> QED BY <3>1, <3>2, <3>4, <3>7, <3>10 DEF MovesBooked
    <2> QED BY <2>1, <2>2
  <1>16. Grants' = {} /\ Writes = ToSet(todo) /\ Writes' = ToSet(Tail(todo))
    BY <1>2 DEF Grants, Writes
  <1>17. GrantsMove(Grants, Grants', mem', r) /\ WritesMove(Writes, Writes', mem', r, req')
    BY <1>6, <1>16 DEF GrantsMove, WritesMove
  <1>18. MemoryAgrees(mem, req, Grants, Writes)' /\ Books' /\ Created' = Created /\ Only(r)
    BY <1>7, <1>15, <1>17, OneAgrees
  <1>19. PlansFit'
    <2>1. \A p \in ToSet(todo') :
             req'[p[1]].prefilled + p[2] <= Len(PrefillIds(req'[p[1]]))
      BY <1>1, <1>2, <1>6, <1>18 DEF PlansFit, Only
    <2> QED BY <2>1, <1>1, <1>2, <1>18 DEF PlansFit
  <1>20. RowsFit'
    BY <1>2 DEF RowsFit
  <1> QED BY <1>18, <1>19, <1>20 DEF MemoryInv

-----------------------------------------------------------------------------
(* The plan. *)

\* The chunks that stay within what a prefilling request has left.
FittingChunks ==
    {c \in Live \X (1 .. ChunkSize) :
        req[c[1]].prefilled + c[2] <= Len(PrefillIds(req[c[1]]))}

FittingPlans == [plan : Seq(FittingChunks), left : Nat, visits : Int]

LEMMA PlanVisitFits ==
    ASSUME RequestsOK, NEW p \in FittingPlans, NEW r \in Req
    PROVE  PlanVisit(p, r) \in FittingPlans
  <1> DEFINE q == req[r]
             n == IF q.state = "PREFILLING" THEN Min({Remaining(q), ChunkSize, p.left}) ELSE 0
             z == [plan   |-> IF n > 0 THEN Append(p.plan, <<r, n>>) ELSE p.plan,
                   left   |-> p.left - n,
                   visits |-> p.visits + 1]
  <1>1. PlanVisit(p, r) = IF p.left = 0 THEN p ELSE z
    BY DEF PlanVisit
  <1>2. p.plan \in Seq(FittingChunks) /\ p.left \in Nat /\ p.visits \in Int
    BY DEF FittingPlans
  <1>3. /\ n \in Int /\ n <= p.left
        /\ n > 0 => <<r, n>> \in FittingChunks
    <2>1. CASE q.state # "PREFILLING"
      BY <2>1, <1>2
    <2>2. CASE q.state = "PREFILLING"
      <3>1. IsRequest(q) /\ r \in Live
        BY <2>2, LiveFacts DEF Created, Live
      <3>2. Remaining(q) \in Int /\ ChunkSize \in Nat \ {0} /\ p.left \in Int
        BY <3>1, <1>2, PrefillLength, EngineAssumption
      <3> DEFINE k == Min({Remaining(q), ChunkSize, p.left})
      <3>3. k \in {Remaining(q), ChunkSize, p.left}
            /\ k <= Remaining(q) /\ k <= ChunkSize /\ k <= p.left
        <4>1. Remaining(q) \in Int /\ ChunkSize \in Int /\ p.left \in Int
          BY <3>2
        <4> QED BY <4>1, LeastOfThree, Zenon
      <3>4. n = k
        BY <2>2
      <3> HIDE DEF k, n
      <3>5. n \in Int /\ n <= p.left /\ n <= Remaining(q) /\ n <= ChunkSize
        BY <3>2, <3>3, <3>4
      <3>6. ASSUME n > 0 PROVE <<r, n>> \in FittingChunks
        <4>1. n \in 1 .. ChunkSize
          BY <3>2, <3>5, <3>6
        <4>2. Len(PrefillIds(q)) \in Nat /\ q.prefilled \in Nat
          BY <3>1, PrefillLength DEF IsRequest
        <4>3. n <= Len(PrefillIds(q)) - q.prefilled
          BY <3>5 DEF Remaining
        <4>4. q.prefilled + n <= Len(PrefillIds(q))
          <5> HIDE DEF q
          <5> QED BY <4>2, <4>3, <3>5
        <4> QED BY <4>1, <4>4, <3>1 DEF FittingChunks
      <3> QED BY <3>5, <3>6
    <2> QED BY <2>1, <2>2
  <1> HIDE DEF n
  <1>4. (IF n > 0 THEN Append(p.plan, <<r, n>>) ELSE p.plan) \in Seq(FittingChunks)
    BY <1>2, <1>3
  <1>5. p.left - n \in Nat
    BY <1>2, <1>3
  <1>6. z \in FittingPlans
    BY <1>2, <1>4, <1>5 DEF FittingPlans
  <1> HIDE DEF z
  <1> QED BY <1>1, <1>6

LEMMA PlanOfFits ==
    ASSUME RequestsOK, NEW s \in Seq(Req)
    PROVE  PlanOf(s).plan \in Seq(FittingChunks)
  <1> DEFINE n == Len(s)
             S == FittingPlans
             c == [plan |-> << >>, left |-> Budget, visits |-> 0]
             G == [i \in 1 .. n |-> [x \in S |-> PlanVisit(x, s[i])]]
             step(f) == [i \in 0 .. n |-> IF i = 0 THEN c ELSE PlanVisit(f[i - 1], s[i])]
             k == CHOOSE f : f = step(f)
  <1>0. PlanOf(s) = k[n]
    BY DEF PlanOf
  <1>1. n \in Nat /\ \A i \in 1 .. n : s[i] \in Req
    OBVIOUS
  <1>2. c \in S
    BY EngineAssumption DEF FittingPlans
  <1> HIDE DEF n, c
  <1>3. G \in [1 .. n -> [S -> S]]
    BY <1>1, PlanVisitFits
  <1>4. \A i \in 1 .. n : \A x \in S : G[i][x] = PlanVisit(x, s[i])
    OBVIOUS
  <1> HIDE DEF G, S
  <1>5. PICK h : Recursion(h, n, S, c, G)
    BY <1>1, <1>2, <1>3, RecursionExists
  <1>6. h = step(h)
    <2>1. /\ h \in [0 .. n -> S] /\ h[0] = c
          /\ \A i \in 1 .. n : h[i] = G[i][h[i - 1]]
      BY <1>5 DEF Recursion
    <2>2. ASSUME NEW i \in 1 .. n PROVE h[i] = PlanVisit(h[i - 1], s[i])
      <3>1. i - 1 \in 0 .. n
        BY <1>1
      <3>2. h[i - 1] \in S
        BY <3>1, <2>1
      <3> QED BY <2>1, <3>2, <1>4
    <2>3. \A i \in 0 .. n : h[i] = IF i = 0 THEN c ELSE PlanVisit(h[i - 1], s[i])
      BY <1>1, <2>1, <2>2
    <2> QED BY <2>1, <2>3
  <1>7. k = step(k)
    BY <1>6
  <1> HIDE DEF k
  <1>8. k[0] = c /\ \A i \in 1 .. n : k[i] = PlanVisit(k[i - 1], s[i])
    <2>1. \A i \in 0 .. n : k[i] = IF i = 0 THEN c ELSE PlanVisit(k[i - 1], s[i])
      BY <1>7
    <2> QED BY <2>1, <1>1
  <1>9. \A i \in 0 .. n : k[i] \in S
    <2> DEFINE T == [i \in 0 .. n |-> S]
    <2>1. k[0] \in T[0]
      BY <1>1, <1>2, <1>8
    <2>2. \A i \in 1 .. n : k[i - 1] \in T[i - 1] => k[i] \in T[i]
      <3>1. ASSUME NEW i \in 1 .. n, k[i - 1] \in S PROVE k[i] \in S
        BY <3>1, <1>1, <1>8, PlanVisitFits DEF S
      <3> QED BY <3>1, <1>1
    <2>3. \A i \in 0 .. n : T[i] = S
      OBVIOUS
    <2> HIDE DEF T
    <2>4. \A i \in 0 .. n : k[i] \in T[i]
      BY <2>1, <2>2, <1>1, StagedStays
    <2> QED BY <2>3, <2>4
  <1>10. PlanOf(s) \in S
    BY <1>0, <1>1, <1>9
  <1> QED BY <1>10 DEF S, FittingPlans

LEMMA PlanPrefillAgrees ==
    ASSUME EngineInv, MemoryInv, PlanPrefill
    PROVE  MemoryInv'
  <1>1. RequestsOK /\ Books /\ PlansFit /\ LoopOK /\ order \in Seq(Req)
    BY InvParts DEF SchedulerOK, ContainersOK
  <1>2. /\ pc = "plan" /\ pc' = "prefillCap" /\ plans' = PlanOf(order).plan /\ todo' = plans'
        /\ UNCHANGED <<mem, req, rows>>
    BY DEF PlanPrefill
  <1>3. plans' \in Seq(FittingChunks)
    BY <1>1, <1>2, PlanOfFits
  <1>4. plans' \in Seq(Created \X (1 .. ChunkSize))
    <2>1. FittingChunks \subseteq Created \X (1 .. ChunkSize)
      BY DEF FittingChunks, Live
    <2> QED BY <2>1, <1>3, SeqGrows
  <1>5. \A p \in ToSet(plans') : req[p[1]].prefilled + p[2] <= Len(PrefillIds(req[p[1]]))
    <2>1. \A p \in ToSet(plans') : p \in FittingChunks
      BY <1>3, ToSetIndexed
    <2> QED BY <2>1 DEF FittingChunks
  <1>6. Grants' \subseteq Grants /\ Writes' \subseteq Writes
    <2>1. Writes' = {}
      BY <1>2 DEF Writes
    <2>2. Grants' \subseteq Grants
      BY <1>2 DEF Grants
    <2> QED BY <2>1, <2>2
  <1>7. MemoryAgrees(mem, req, Grants, Writes)' /\ Books'
    BY <1>2, <1>6, QuietAgrees
  <1>8. PlansFit'
    <2>1. Created' = Created
      BY <1>2 DEF Created
    <2> QED BY <2>1, <1>2, <1>4, <1>5 DEF PlansFit
  <1>9. RowsFit'
    BY <1>2 DEF RowsFit
  <1> QED BY <1>7, <1>8, <1>9 DEF MemoryInv

-----------------------------------------------------------------------------
(* Admission. *)

\* The request r, which waits, has come to pages with the first count of the tokens it must
\* prefill.
Admitted(x, r, count) ==
    LET ids == PrefillIds(req[r])
    IN  /\ MemoryOK(x, [StoriesOf(req) EXCEPT ![r] = ids])
        /\ Apart(mem, x, r)
        /\ x.len[r] = count /\ count \in 0 .. Len(ids)
        /\ x.pool.owns[r] # << >> /\ Len(x.pool.owns[r]) <= BlocksFor(Len(ids))

\* What the head of the queue has to do with the memory.
LEMMA WaitingFacts ==
    ASSUME RequestsOK, Books, NEW G, NEW W, MemoryAgrees(mem, req, G, W),
           NEW r \in Created, req[r].state = "WAITING"
    PROVE  LET q == req[r]
               ids == PrefillIds(q)
           IN  /\ r \in Req /\ IsRequest(q) /\ RequestBooks(q) /\ (q.resuming <=> q.out # << >>)
               /\ MemoryOK(mem, StoriesOf(req)) /\ PredsRight(mem) /\ mem \in Memory
               /\ StoriesOf(req) \in [Req -> Seq(Token)]
               /\ mem.pool.owns[r] = << >> /\ mem.len[r] = 0
               /\ ids \in Seq(Token) /\ ids # << >> /\ Len(ids) \in Nat \ {0}
               /\ BlocksFor(Len(ids)) \in Nat
  <1> DEFINE q == req[r]
             ids == PrefillIds(q)
  <1>1. r \in Req /\ IsRequest(q) /\ RequestBooks(q)
    BY LiveFacts DEF Books
  <1>2. q.resuming <=> q.out # << >>
    BY <1>1 DEF RequestBooks, PhaseOK
  <1>3. MemoryOK(mem, StoriesOf(req)) /\ PredsRight(mem) /\ PagesOf(mem, r, q)
    BY <1>1 DEF MemoryAgrees
  <1>4. mem \in Memory
    BY <1>3 DEF MemoryOK, CacheOK
  <1>5. mem.pool.owns[r] = << >> /\ mem.len[r] = 0
    BY <1>3 DEF PagesOf, Running
  <1>6. StoriesOf(req) \in [Req -> Seq(Token)]
    BY StoriesTyped DEF Books
  <1>7. q.kind \in Workload /\ q.out \in Seq(Token)
    BY <1>1 DEF RequestBooks, OutputOK
  <1>8. ids \in Seq(Token) /\ ids # << >> /\ Len(ids) \in Nat \ {0}
    BY <1>2, <1>7, StoryFacts
  <1>9. BlocksFor(Len(ids)) \in Nat
    BY <1>8, BlocksForPage
  <1> QED BY <1>1, <1>2, <1>3, <1>4, <1>5, <1>6, <1>8, <1>9

\* It attaches to what the cache has of its tokens.
LEMMA AttachAdmits ==
    ASSUME RequestsOK, Books, NEW G, NEW W, MemoryAgrees(mem, req, G, W),
           NEW r \in Created, req[r].state = "WAITING",
           NEW h, h = Lookup(mem, PrefillIds(req[r]), req[r].kind.greedy), h.count > 0,
           NEW x, x = AttachPrefix(h.m, r, h.blocks, h.count)
    PROVE  Admitted(x, r, h.count)
  <1> DEFINE t == StoriesOf(req)
             ids == PrefillIds(req[r])
  <1>1. /\ r \in Req /\ IsRequest(req[r]) /\ MemoryOK(mem, t) /\ t \in [Req -> Seq(Token)]
        /\ mem \in Memory /\ mem.pool.owns[r] = << >> /\ ids \in Seq(Token) /\ ids # << >>
        /\ Len(ids) \in Nat \ {0} /\ BlocksFor(Len(ids)) \in Nat
    BY WaitingFacts
  <1>2. req[r].kind.greedy \in BOOLEAN
    BY <1>1 DEF IsRequest, Kind
  <1>3. ids \in Seq(Token) \ {<< >>} /\ h = Lookup(mem, ids, req[r].kind.greedy)
    BY <1>1
  <1> HIDE DEF t, ids
  <1>4. /\ MemoryOK(h.m, t) /\ h.m.pool = mem.pool /\ h.m.len = mem.len
        /\ h.m.pred = mem.pred /\ h.m.kv = mem.kv
        /\ Hit(mem, ids, h.blocks, h.count)
    BY <1>1, <1>2, <1>3, LookupKeeps, SMTT(30)
  <1>5. Hit(h.m, ids, h.blocks, h.count)
    BY <1>4, Zenon DEF Hit
  <1>6. Attached(h.m, x, t, r, ids, h.blocks, h.count)
    <2>1. h.m.pool.owns[r] = << >>
      BY <1>1, <1>4
    <2> QED BY <2>1, <1>1, <1>4, <1>5, HitAttaches
  <1>7. /\ MemoryOK(x, [t EXCEPT ![r] = ids]) /\ x.len = [mem.len EXCEPT ![r] = h.count]
        /\ x.pool.owns[r] = h.blocks /\ Apart(h.m, x, r)
    BY <1>4, <1>6, Zenon DEF Attached
  <1>8. Apart(mem, x, r)
    <2>1. Spares(mem, h.m, Req \ {r})
      BY <1>4, SparedSelf DEF Spares
    <2>2. PredsKept(mem, h.m)
      BY <1>4, PredsSame
    <2> QED BY <2>1, <2>2, <1>7, SparesAgain, PredsAgain, Zenon DEF Apart
  <1>9. x.len[r] = h.count
    BY <1>1, <1>7, MemoryFields, Zenon
  <1>10. h.count \in 0 .. Len(ids) /\ h.blocks \in Seq(Block) /\ Len(h.blocks) = BlocksFor(h.count)
    BY <1>4, Zenon DEF Hit
  <1>11. h.count \in Nat \ {0} /\ h.count <= Len(ids)
    BY <1>1, <1>10
  <1>12. BlocksFor(h.count) \in Nat \ {0}
    BY <1>11, BlocksForPage, PositionParts
  <1>13. BlocksFor(h.count) <= BlocksFor(Len(ids))
    BY <1>1, <1>11, BlocksMonotone
  <1>14. h.blocks # << >>
    BY <1>10, <1>12, EmptySeq
  <1> QED BY <1>7, <1>8, <1>9, <1>10, <1>13, <1>14, Zenon DEF Admitted, t, ids

\* The memory when the lookup found nothing: cache entries may have gone.
LEMMA MissTrims ==
    ASSUME RequestsOK, Books, NEW G, NEW W, MemoryAgrees(mem, req, G, W),
           NEW r \in Created, req[r].state = "WAITING",
           NEW h, h = Lookup(mem, PrefillIds(req[r]), req[r].kind.greedy),
           NEW e, e = h.m \/ e = EvictUntilFree(h.m, 1)
    PROVE  /\ MemoryOK(e, StoriesOf(req)) /\ Spares(mem, e, Req) /\ PredsKept(mem, e)
           /\ e.len[r] = 0 /\ e.pool.owns[r] = << >>
  <1> DEFINE t == StoriesOf(req)
             ids == PrefillIds(req[r])
  <1>1. /\ r \in Req /\ IsRequest(req[r]) /\ MemoryOK(mem, t)
        /\ mem.pool.owns[r] = << >> /\ mem.len[r] = 0 /\ ids \in Seq(Token) \ {<< >>}
    BY WaitingFacts
  <1>2. req[r].kind.greedy \in BOOLEAN
    BY <1>1 DEF IsRequest, Kind
  <1>3. h = Lookup(mem, ids, req[r].kind.greedy)
    OBVIOUS
  <1> HIDE DEF t, ids
  <1>4. /\ MemoryOK(h.m, t) /\ h.m.pool = mem.pool /\ h.m.len = mem.len
        /\ h.m.pred = mem.pred /\ h.m.kv = mem.kv
    BY <1>1, <1>2, <1>3, LookupKeeps
  <1>5. Trimmed(h.m, e, t)
    BY <1>4, TrimmedSelf, EvictUntilFreeKeeps
  <1>6. MemoryOK(e, t) /\ Spares(h.m, e, Req) /\ PredsKept(h.m, e)
    BY <1>5 DEF Trimmed
  <1>7. Spares(mem, h.m, Req) /\ PredsKept(mem, h.m)
    BY <1>4, SparedSelf, PredsSame DEF Spares
  <1>8. Spares(mem, e, Req) /\ PredsKept(mem, e)
    BY <1>6, <1>7, SparesAgain, PredsAgain
  <1>9. e.len[r] = 0 /\ e.pool.owns[r] = << >>
    BY <1>1, <1>8 DEF Spares, Spared, Keeps
  <1> QED BY <1>6, <1>8, <1>9 DEF t

\* It takes the pages of a first chunk.
LEMMA ReserveAdmits ==
    ASSUME RequestsOK, Books, NEW G, NEW W, MemoryAgrees(mem, req, G, W),
           NEW r \in Created, req[r].state = "WAITING",
           NEW e, MemoryOK(e, StoriesOf(req)), Spares(mem, e, Req), PredsKept(mem, e),
           e.len[r] = 0, e.pool.owns[r] = << >>,
           NEW n, n = Min({Len(PrefillIds(req[r])), BlockSize}), CanReserve(e, n),
           NEW x, x = Reserve(e, r, n)
    PROVE  Admitted(x, r, 0)
  <1> DEFINE t == StoriesOf(req)
             ids == PrefillIds(req[r])
  <1>1. /\ r \in Req /\ t \in [Req -> Seq(Token)] /\ ids \in Seq(Token)
        /\ Len(ids) \in Nat \ {0} /\ BlocksFor(Len(ids)) \in Nat
    BY WaitingFacts
  <1>2. MemoryOK(e, t) /\ n = Min({Len(ids), BlockSize})
    OBVIOUS
  <1> HIDE DEF t, ids
  <1>3. n \in Nat \ {0} /\ n <= Len(ids)
    <2> DEFINE T == {Len(ids), BlockSize}
    <2>1. T \subseteq Nat \ {0} /\ T \subseteq Nat /\ T # {} /\ Len(ids) \in T
      BY <1>1, KVAssumption
    <2>2. n = Min(T)
      BY <1>2
    <2> HIDE DEF T
    <2> QED BY <2>1, <2>2, MinProperties
  <1>4. /\ MemoryOK(x, [t EXCEPT ![r] = ids]) /\ x.len = e.len /\ Apart(e, x, r)
        /\ Len(x.pool.owns[r]) = Len(e.pool.owns[r]) + BlocksFor(n)
    <2>1. n \in Nat
      BY <1>3
    <2>2. /\ MemoryOK(Reserve(e, r, n), [t EXCEPT ![r] = ids]) /\ Reserve(e, r, n).len = e.len
          /\ Apart(e, Reserve(e, r, n), r)
          /\ Len(Reserve(e, r, n).pool.owns[r]) = Len(e.pool.owns[r]) + BlocksFor(n)
      BY <2>1, <1>1, <1>2, ReserveKeeps, ZenonT(40)
    <2> QED BY <2>2
  <1>5. Apart(mem, x, r)
    <2>1. Spares(mem, e, Req \ {r})
      BY DEF Spares
    <2> QED BY <2>1, <1>4, SparesAgain, PredsAgain DEF Apart
  <1>6. Len(e.pool.owns[r]) = 0
    BY EmptySeq
  <1>7. BlocksFor(n) \in Nat \ {0} /\ BlocksFor(n) <= BlocksFor(Len(ids))
    BY <1>1, <1>3, BlocksForPage, PositionParts, BlocksMonotone
  <1>8. Len(x.pool.owns[r]) = BlocksFor(n) /\ Len(x.pool.owns[r]) # 0
    BY <1>4, <1>6, <1>7
  <1>9. x.pool.owns[r] # << >>
    BY <1>8, EmptySeq
  <1>10. x.len[r] = 0 /\ 0 \in 0 .. Len(ids)
    BY <1>1, <1>4
  <1> QED BY <1>4, <1>5, <1>7, <1>8, <1>9, <1>10 DEF Admitted, t, ids

\* It enters the active set.
LEMMA EnterMoves ==
    ASSUME RequestsOK, Books, NEW G, NEW W, MemoryAgrees(mem, req, G, W),
           NEW r \in Created, req[r].state = "WAITING",
           NEW x, NEW count, Admitted(x, r, count), NEW next \in Value,
           count = Len(PrefillIds(req[r])) /\ ~req[r].resuming =>
              req[r].kind.greedy /\ next = Model(req[r].kind.prompt),
           Enter(r, x, count, next)
    PROVE  MovesBooked(r) /\ req'[r].state = "PREFILLING"
  <1> DEFINE p == req[r]
             q == [p EXCEPT !.state = "PREFILLING", !.prefilled = count, !.cachedNext = next]
             t == StoriesOf(req)
             ids == PrefillIds(p)
             s == p.kind.prompt \o p.out
  <1>1. /\ r \in Req /\ IsRequest(p) /\ RequestBooks(p) /\ (p.resuming <=> p.out # << >>)
        /\ PredsRight(mem) /\ t \in [Req -> Seq(Token)]
        /\ ids \in Seq(Token) /\ Len(ids) \in Nat \ {0}
    BY WaitingFacts
  <1>2. /\ MemoryOK(x, [t EXCEPT ![r] = ids]) /\ Apart(mem, x, r)
        /\ x.len[r] = count /\ count \in 0 .. Len(ids)
        /\ x.pool.owns[r] # << >> /\ Len(x.pool.owns[r]) <= BlocksFor(Len(ids))
    BY DEF Admitted
  <1>3. mem' = x /\ req' = [req EXCEPT ![r] = q]
    BY <1>1 DEF Enter, RequestsOK
  <1>4. p.kind \in Workload /\ p.out \in Seq(Token)
    BY <1>1 DEF RequestBooks, OutputOK
  <1>5. /\ s \in Seq(Token) /\ Len(ids) <= Len(s) /\ \A i \in 1 .. Len(ids) : ids[i] = s[i]
        /\ p.out = << >> => ids = p.kind.prompt
    BY <1>1, <1>4, StoryFacts
  <1>6. {"state", "kind", "out", "next", "prefilled", "cachedNext", "resuming"} \subseteq DOMAIN p
    <2>1. p = [f \in Fields |-> p[f]]
      BY <1>1 DEF IsRequest
    <2>2. DOMAIN p = Fields
      BY <2>1
    <2> QED BY <2>2 DEF Fields
  <1> HIDE DEF p
  <1>7. /\ q.state = "PREFILLING" /\ q.prefilled = count /\ q.cachedNext = next
        /\ q.kind = p.kind /\ q.out = p.out /\ q.next = p.next /\ q.resuming = p.resuming
    BY <1>6
  <1>8. req'[r] = q /\ Only(r)
    BY <1>1, <1>3, Assigned
  <1> HIDE DEF q
  <1>9. Story(q) = s /\ PrefillIds(q) = ids
    BY <1>7 DEF Story, Running, PrefillIds
  <1>10. p.state = "WAITING"
    BY DEF p
  <1>11. OutputOK(q)
    BY <1>1, <1>7, <1>10, OutputSame DEF RequestBooks, Terminal
  <1>12. count = Len(ids) /\ ~p.resuming => p.kind.greedy /\ next = Model(p.kind.prompt)
    BY DEF p
  <1> HIDE DEF ids, s, t
  <1>13. count \in Nat /\ count <= Len(ids)
    BY <1>1, <1>2
  <1>14. PhaseOK(q)
    BY <1>1, <1>7, <1>9, <1>12, <1>13 DEF PhaseOK
  <1>15. RequestBooks(q)
    BY <1>1, <1>7, <1>11, <1>14 DEF RequestBooks, Value
  <1>16. PagesOf(x, r, q)
    BY <1>2, <1>7, <1>9 DEF PagesOf, Running
  <1>17. MemoryOK(x, [t EXCEPT ![r] = s])
    <2> DEFINE u == [t EXCEPT ![r] = ids]
    <2>1. u \in [Req -> Seq(Token)] /\ u[r] = ids /\ [u EXCEPT ![r] = s] = [t EXCEPT ![r] = s]
      BY <1>1
    <2>2. MemoryOK(x, u)
      BY <1>2
    <2> HIDE DEF u
    <2>3. \A k \in 1 .. Len(ids) : Prefix(s, k) = Prefix(ids, k)
      <3>1. \A i \in 1 .. Len(ids) : s[i] = ids[i]
        BY <1>5
      <3>2. Len(ids) \in Nat /\ Len(ids) <= Len(ids)
        BY <1>1
      <3> QED BY <3>1, <3>2, <1>1, <1>5, SamePrefixes
    <2>4. x.len[r] <= Len(s) /\ \A k \in 1 .. x.len[r] : Prefix(s, k) = Prefix(u[r], k)
      <3>1. Len(s) \in Nat
        BY <1>5
      <3> QED BY <3>1, <2>1, <2>3, <1>1, <1>2, <1>5, <1>13
    <2>5. MemoryOK(x, [u EXCEPT ![r] = s])
      BY <2>1, <2>2, <2>4, <1>1, <1>5, Retarget
    <2> QED BY <2>1, <2>5
  <1>18. MemoryOK(x, StoriesOf(req'))
    <2>1. StoriesOf(req') = [StoriesOf(req) EXCEPT ![r] = Story(req'[r])]
      BY <1>8 DEF StoriesOf, Only
    <2> QED BY <2>1, <1>8, <1>9, <1>17 DEF t
  <1>19. PredsRight(x)
    BY <1>1, <1>2, PredsRightKept DEF Apart
  <1>20. Moves(mem, x, r, req, req')
    BY <1>2, <1>8, <1>16, <1>18, <1>19 DEF Moves, Elsewhere, Only, Apart
  <1> QED BY <1>3, <1>7, <1>8, <1>15, <1>20 DEF MovesBooked

LEMMA AdmitHeadAgrees ==
    ASSUME EngineInv, MemoryInv, AdmitHead
    PROVE  MemoryInv'
  <1> DEFINE r == Head(waiting)
             ids == PrefillIds(req[r])
             n == Min({Len(ids), BlockSize})
             h == Lookup(mem, ids, req[r].kind.greedy)
             e == IF CanReserve(h.m, n) THEN h.m ELSE EvictUntilFree(h.m, 1)
  <1>1. /\ RequestsOK /\ SchedulerOK /\ Books /\ PlansFit /\ LoopOK /\ RowsFit
        /\ MemoryAgrees(mem, req, Grants, Writes)
    BY InvParts
  <1>2. pc = "admit" /\ waiting # << >> /\ rows' = rows /\ plans' = plans /\ rows \in Seq(Req)
    BY <1>1 DEF AdmitHead, AdmitsHead, LoopOK
  <1>3. r \in Created /\ req[r].state = "WAITING"
    <2>1. waiting \in Seq(Req)
          /\ ToSet(waiting) = {y \in Created : req[y].queued /\ req[y].state = "WAITING"}
      BY <1>1 DEF SchedulerOK, ContainersOK
    <2>2. r \in ToSet(waiting)
      BY <2>1, <1>2, TailSet
    <2> QED BY <2>1, <2>2
  <1>4. \/ h.count > 0 /\ Enter(r, AttachPrefix(h.m, r, h.blocks, h.count), h.count, h.next)
        \/ CanReserve(e, n) /\ Enter(r, Reserve(e, r, n), 0, NoToken)
        \/ mem' = e /\ req' = req /\ pc' = "exact"
    BY DEF AdmitHead
  <1>5. pc' \in {"admit", "exact"}
    BY <1>2, <1>4 DEF Enter
  <1>6. /\ r \in Req /\ IsRequest(req[r]) /\ RequestBooks(req[r])
        /\ (req[r].resuming <=> req[r].out # << >>) /\ MemoryOK(mem, StoriesOf(req))
        /\ PredsRight(mem) /\ mem \in Memory /\ ids \in Seq(Token) \ {<< >>}
        /\ Len(ids) \in Nat \ {0}
    BY <1>1, <1>3, WaitingFacts
  <1>7. h = Lookup(mem, PrefillIds(req[r]), req[r].kind.greedy) /\ (e = h.m \/ e = EvictUntilFree(h.m, 1))
        /\ n = Min({Len(PrefillIds(req[r])), BlockSize})
    OBVIOUS
  <1>8. \/ /\ req[r].kind.greedy /\ ids \in Prompts /\ Present(mem, ExactOwner(ids))
           /\ h.count = Len(ids) /\ h.next = mem.pred[ids]
        \/ h.count < Len(ids) /\ h.next = NoToken
    <2>1. req[r].kind.greedy \in BOOLEAN
      BY <1>6 DEF IsRequest, Kind
    <2> HIDE DEF ids
    <2> QED BY <2>1, <1>6, LookupKeeps
  <1>9. ~req[r].resuming => ids = req[r].kind.prompt
    BY DEF PrefillIds
  <1> HIDE DEF r, e, h, n, ids
  <1>10. MovesBooked(r) /\ req'[r].state # "new" /\ (req' = req \/ req'[r].state = "PREFILLING")
    <2>1. CASE h.count > 0 /\ Enter(r, AttachPrefix(h.m, r, h.blocks, h.count), h.count, h.next)
      <3> DEFINE x == AttachPrefix(h.m, r, h.blocks, h.count)
      <3>1. Admitted(x, r, h.count)
        BY <2>1, <1>1, <1>3, <1>7, AttachAdmits
      <3>2. h.next \in Value
        BY <1>6, <1>8, MemoryFields DEF Value
      <3>3. h.count = Len(PrefillIds(req[r])) /\ ~req[r].resuming =>
               req[r].kind.greedy /\ h.next = Model(req[r].kind.prompt)
        BY <1>6, <1>8, <1>9 DEF PredsRight, ids
      <3> HIDE DEF x
      <3>4. Enter(r, x, h.count, h.next)
        BY <2>1 DEF x
      <3>5. MovesBooked(r) /\ req'[r].state = "PREFILLING"
        BY <3>1, <3>2, <3>3, <3>4, <1>1, <1>3, EnterMoves
      <3> QED BY <3>5
    <2>2. CASE CanReserve(e, n) /\ Enter(r, Reserve(e, r, n), 0, NoToken)
      <3> DEFINE x == Reserve(e, r, n)
      <3>1. /\ MemoryOK(e, StoriesOf(req)) /\ Spares(mem, e, Req) /\ PredsKept(mem, e)
            /\ e.len[r] = 0 /\ e.pool.owns[r] = << >>
        BY <1>1, <1>3, <1>7, MissTrims
      <3>2. Admitted(x, r, 0)
        BY <2>2, <3>1, <1>1, <1>3, <1>7, ReserveAdmits
      <3>3. Len(PrefillIds(req[r])) # 0
        BY <1>6 DEF ids
      <3> HIDE DEF x
      <3>4. Enter(r, x, 0, NoToken) /\ NoToken \in Value
        BY <2>2 DEF x, Value
      <3>5. MovesBooked(r) /\ req'[r].state = "PREFILLING"
        BY <3>2, <3>3, <3>4, <1>1, <1>3, EnterMoves
      <3> QED BY <3>5
    <2>3. CASE mem' = e /\ req' = req /\ pc' = "exact"
      <3>1. MemoryOK(e, StoriesOf(req)) /\ Spares(mem, e, Req) /\ PredsKept(mem, e)
        BY <1>1, <1>3, <1>7, MissTrims
      <3>2. PredsRight(e)
        BY <3>1, <1>6, PredsRightKept
      <3>3. PagesOf(e, r, req[r])
        <4>1. Spared(mem, e, r) /\ PagesOf(mem, r, req[r])
          BY <3>1, <1>1, <1>6 DEF Spares, MemoryAgrees
        <4> QED BY <4>1, SparedPages
      <3>4. Moves(mem, e, r, req, req)
        BY <3>1, <3>2, <3>3 DEF Moves, Elsewhere, Spares
      <3> QED BY <2>3, <3>4, <1>3, <1>6 DEF MovesBooked
    <2> QED BY <2>1, <2>2, <2>3, <1>4
  <1>11. Only(r)
    BY <1>10 DEF MovesBooked, Moves, Elsewhere, Only
  <1>12. \A y \in ToSet(rows) : y # r /\ req'[y] = req[y] /\ req[y].state = "DECODING"
    <2>1. \A y \in ToSet(rows) : y \in Req /\ req[y].state = "DECODING"
      BY <1>1, <1>2, ToSetIndexed DEF RowsFit
    <2> QED BY <2>1, <1>3, <1>11 DEF Only
  <1>13. GrantsMove(Grants, Grants', mem', r) /\ WritesMove(Writes, Writes', mem', r, req')
    <2>1. Grants = {<<y, 1>> : y \in {z \in ToSet(rows) : req[z].state = "DECODING"}}
      BY <1>2 DEF Grants
    <2>2. Grants' = {<<y, 1>> : y \in {z \in ToSet(rows) : req'[z].state = "DECODING"}}
      BY <1>2, <1>5 DEF Grants
    <2>3. Writes' = {}
      BY <1>5 DEF Writes
    <2> QED BY <2>1, <2>2, <2>3, <1>12 DEF GrantsMove, WritesMove
  <1>14. MemoryAgrees(mem, req, Grants, Writes)' /\ Books' /\ Created' = Created
    BY <1>3, <1>10, <1>13, OneAgrees
  <1>15. PlansFit'
    <2>1. plans' = << >> /\ << >> \in Seq(Created \X (1 .. ChunkSize))
      BY <1>1, <1>2 DEF PlansFit
    <2> QED BY <2>1, <1>5, <1>14 DEF PlansFit
  <1>16. RowsFit'
    BY <1>2, <1>12 DEF RowsFit
  <1> QED BY <1>14, <1>15, <1>16 DEF MemoryInv

-----------------------------------------------------------------------------
(* Requests that come, and requests that go without ever holding pages. *)

\* Only the record of r changes, and r holds no pages before or after.
LEMMA AsideMoves ==
    ASSUME RequestsOK, NEW G, NEW W, MemoryAgrees(mem, req, G, W), NEW r \in Req,
           req[r].state \notin Running, NEW q, q.state \notin Running,
           req' = [req EXCEPT ![r] = q], mem' = mem
    PROVE  Moves(mem, mem', r, req, req') /\ req'[r] = q /\ Only(r)
  <1>1. req'[r] = q /\ Only(r)
    BY Assigned
  <1>2. StoriesOf(req') = StoriesOf(req)
    <2>1. ASSUME NEW y \in Req PROVE Story(req'[y]) = Story(req[y])
      <3>1. CASE y = r
        BY <3>1, <1>1 DEF Story
      <3>2. CASE y # r
        BY <3>2, <1>1 DEF Only
      <3> QED BY <3>1, <3>2
    <2> QED BY <2>1 DEF StoriesOf
  <1>3. MemoryOK(mem', StoriesOf(req')) /\ PredsRight(mem')
    BY <1>2 DEF MemoryAgrees
  <1>4. PagesOf(mem', r, req'[r])
    <2>1. PagesOf(mem, r, req[r])
      BY DEF MemoryAgrees
    <2>2. mem'.pool.owns[r] = << >> /\ mem'.len[r] = 0
      BY <2>1 DEF PagesOf
    <2> QED BY <2>2, <1>1 DEF PagesOf, Running
  <1>5. Spares(mem, mem', Req \ {r})
    BY SparedSelf DEF Spares
  <1> QED BY <1>1, <1>3, <1>4, <1>5 DEF Moves, Elsewhere, Only

\* Between steps nothing is in flight.
LEMMA IdleAgrees ==
    ASSUME EngineInv, MemoryInv, pc = "idle", UNCHANGED <<pc, todo, rows, plans>>,
           NEW r \in Created, MovesBooked(r), req'[r].state # "new"
    PROVE  MemoryInv'
  <1>1. Grants' = {} /\ Writes' = {}
    BY DEF Grants, Writes
  <1>2. GrantsMove(Grants, Grants', mem', r) /\ WritesMove(Writes, Writes', mem', r, req')
    BY <1>1 DEF GrantsMove, WritesMove
  <1>3. MemoryAgrees(mem, req, Grants, Writes)' /\ Books' /\ Created' = Created
    BY <1>2, OneAgrees
  <1>4. PlansFit'
    BY <1>3, InvParts, PlansStand
  <1>5. RowsFit'
    BY DEF RowsFit
  <1> QED BY <1>3, <1>4, <1>5 DEF MemoryInv

\* A request that ends in the queue.
LEMMA DequeuedBooked ==
    ASSUME EngineInv, MemoryInv, NEW r \in Created, req[r].state = "WAITING",
           NEW state \in {"CANCELLED", "REJECTED"}, NEW reason,
           NEW q, q = Ended(req[r], state, reason) \/ q = [Ended(req[r], state, reason)
                                                             EXCEPT !.queued = TRUE],
           req' = [req EXCEPT ![r] = q], mem' = mem
    PROVE  MovesBooked(r) /\ req'[r].state = state /\ Only(r)
  <1> DEFINE e == Ended(req[r], state, reason)
  <1>1. RequestsOK /\ Books /\ MemoryAgrees(mem, req, Grants, Writes)
    BY InvParts
  <1>2. r \in Req /\ IsRequest(req[r]) /\ RequestBooks(req[r])
    BY <1>1, LiveFacts DEF Books
  <1>3. req[r].state \notin Terminal /\ req[r].state \notin Running
        /\ state \in Terminal \ {"FINISHED"} /\ state \in State \ {"new"}
    BY DEF Terminal, Running, State
  <1>4. RequestBooks(e) /\ e.state = state /\ state \notin Running
    BY <1>2, <1>3, EndedBooks
  <1>5. IsRequest(e)
    BY <1>1, <1>3, CarriedSelf, EndedCarried DEF Carried
  <1> HIDE DEF e
  <1>6. RequestBooks(q) /\ q.state = state
    <2>1. CASE q = e
      BY <2>1, <1>4
    <2>2. CASE q = [e EXCEPT !.queued = TRUE]
      <3>1. {"state", "kind", "out", "next", "cachedNext", "reason", "queued"} \subseteq DOMAIN e
        <4>1. e = [f \in Fields |-> e[f]]
          BY <1>5 DEF IsRequest
        <4>2. DOMAIN e = Fields
          BY <4>1
        <4> QED BY <4>2 DEF Fields
      <3>2. /\ q.state = e.state /\ q.kind = e.kind /\ q.out = e.out /\ q.next = e.next
            /\ q.cachedNext = e.cachedNext /\ q.reason = e.reason
        BY <3>1, <2>2
      <3>3. OutputOK(q)
        BY <3>2, <1>4 DEF RequestBooks, OutputOK
      <3>4. PhaseOK(q)
        BY <3>2, <1>4 DEF PhaseOK
      <3> QED BY <3>2, <3>3, <3>4, <1>4 DEF RequestBooks
    <2> QED BY <2>1, <2>2 DEF e
  <1>7. Moves(mem, mem', r, req, req') /\ req'[r] = q /\ Only(r)
    <2>1. r \in Req /\ req[r].state \notin Running /\ q.state \notin Running
      BY <1>2, <1>3, <1>4, <1>6
    <2> QED BY <2>1, <1>1, AsideMoves, ZenonT(40)
  <1> QED BY <1>6, <1>7 DEF MovesBooked

LEMMA SubmitAgrees ==
    ASSUME EngineInv, MemoryInv, NEW r \in Req, Submit(r)
    PROVE  MemoryInv'
  <1> DEFINE p == req[r]
             q == [p EXCEPT !.queued = TRUE]
  <1>1. RequestsOK /\ Books /\ MemoryAgrees(mem, req, Grants, Writes)
    BY InvParts
  <1>2. /\ pc = "idle" /\ r \in Created /\ ~p.queued /\ mem' = mem
        /\ UNCHANGED <<pc, todo, rows, plans>>
    BY DEF Submit
  <1>3. p.state = "WAITING" /\ IsRequest(p) /\ RequestBooks(p)
    BY <1>1, <1>2, LiveFacts DEF RequestsOK, Books
  <1>4. \/ req' = [req EXCEPT ![r] = [Ended(p, "REJECTED", "QUEUE_FULL") EXCEPT !.queued = TRUE]]
        \/ req' = [req EXCEPT ![r] = q]
    BY <1>1 DEF Submit, RequestsOK
  <1>5. q.state = "WAITING" /\ RequestBooks(q)
    <2>1. {"state", "kind", "out", "next", "prefilled", "cachedNext", "resuming", "reason",
           "queued"} \subseteq DOMAIN p
      <3>1. p = [f \in Fields |-> p[f]]
        BY <1>3 DEF IsRequest
      <3>2. DOMAIN p = Fields
        BY <3>1
      <3> QED BY <3>2 DEF Fields
    <2> HIDE DEF p
    <2>2. /\ q.state = p.state /\ q.kind = p.kind /\ q.out = p.out /\ q.next = p.next
          /\ q.prefilled = p.prefilled /\ q.cachedNext = p.cachedNext
          /\ q.resuming = p.resuming /\ q.reason = p.reason
      BY <2>1
    <2> HIDE DEF q
    <2>3. OutputOK(q)
      BY <2>2, <1>3 DEF RequestBooks, OutputOK
    <2>4. PhaseOK(q)
      BY <2>2, <1>3 DEF RequestBooks, PhaseOK
    <2> QED BY <2>2, <2>3, <2>4, <1>3 DEF RequestBooks
  <1> HIDE DEF q
  <1>6. MovesBooked(r) /\ req'[r].state # "new"
    <2>1. CASE req' = [req EXCEPT ![r] = q]
      <3>1. p.state \notin Running /\ q.state \notin Running
        BY <1>3, <1>5 DEF Running
      <3>2. Moves(mem, mem', r, req, req') /\ req'[r] = q
        BY <3>1, <2>1, <1>1, <1>2, AsideMoves
      <3> QED BY <3>2, <1>5 DEF MovesBooked
    <2>2. CASE req' = [req EXCEPT ![r] = [Ended(p, "REJECTED", "QUEUE_FULL") EXCEPT !.queued = TRUE]]
      <3> DEFINE e == [Ended(p, "REJECTED", "QUEUE_FULL") EXCEPT !.queued = TRUE]
      <3>1. e = [Ended(req[r], "REJECTED", "QUEUE_FULL") EXCEPT !.queued = TRUE]
            /\ req' = [req EXCEPT ![r] = e]
        BY <2>2
      <3> HIDE DEF e
      <3>2. MovesBooked(r) /\ req'[r].state = "REJECTED"
        BY <3>1, <1>2, <1>3, DequeuedBooked
      <3> QED BY <3>2
    <2> QED BY <2>1, <2>2, <1>4
  <1> QED BY <1>2, <1>6, IdleAgrees

LEMMA CancelAgrees ==
    ASSUME EngineInv, MemoryInv, NEW r \in Req, Cancel(r)
    PROVE  MemoryInv'
  <1> DEFINE e == Ended(req[r], "CANCELLED", "CANCELLED_BY_CLIENT")
  <1>1. /\ RequestsOK /\ Books /\ MemoryAgrees(mem, req, Grants, Writes) /\ ToSet(active) = Live
        /\ ToSet(waiting) = {y \in Created : req[y].queued /\ req[y].state = "WAITING"}
    BY InvParts DEF SchedulerOK, ContainersOK
  <1>2. pc = "idle" /\ UNCHANGED <<pc, todo, rows, plans>>
    BY DEF Cancel
  <1>3. \/ r \in ToSet(waiting) /\ req' = [req EXCEPT ![r] = e] /\ mem' = mem
        \/ r \in ToSet(active) /\ mem' = Drop(mem, r) /\ req' = [req EXCEPT ![r] = e]
    BY <1>1 DEF Cancel, Retire, RequestsOK
  <1>4. e = Ended(req[r], "CANCELLED", "CANCELLED_BY_CLIENT")
    OBVIOUS
  <1> HIDE DEF e
  <1>5. r \in Created /\ MovesBooked(r) /\ req'[r].state = "CANCELLED"
    <2>1. CASE r \in ToSet(waiting) /\ req' = [req EXCEPT ![r] = e] /\ mem' = mem
      <3>1. r \in Created /\ req[r].state = "WAITING"
        BY <2>1, <1>1
      <3>2. MovesBooked(r) /\ req'[r].state = "CANCELLED"
        BY <3>1, <2>1, <1>4, DequeuedBooked
      <3> QED BY <3>1, <3>2
    <2>2. CASE r \in ToSet(active) /\ mem' = Drop(mem, r) /\ req' = [req EXCEPT ![r] = e]
      <3>1. r \in Live /\ r \in Created
        BY <2>2, <1>1, LiveFacts
      <3>2. Progressed(mem, r)
        BY <3>1, <1>1, RunningPages
      <3>3. SameRequest(req[r], req[r])
        BY <3>1, <1>1, LiveFacts, SameSelf
      <3>4. MovesBooked(r) /\ req'[r].state = "CANCELLED"
        BY <3>1, <3>2, <3>3, <2>2, <1>1, <1>4, EndMoves
      <3> QED BY <3>1, <3>4
    <2> QED BY <2>1, <2>2, <1>3
  <1> QED BY <1>2, <1>5, IdleAgrees

\* A new request has no output and no pages.
LEMMA CreateAgrees ==
    ASSUME ModelTyped, EngineInv, MemoryInv, NEW k \in Workload, Create(k)
    PROVE  MemoryInv'
  <1> DEFINE q == [state |-> "WAITING", kind |-> k, arrival |-> Cardinality(Created) + 1,
                   queued |-> FALSE, out |-> << >>, next |-> NoToken, prefilled |-> 0,
                   cachedNext |-> NoToken, resuming |-> FALSE, recomputing |-> FALSE,
                   yields |-> 0, epoch |-> 0, reason |-> "none"]
  <1>1. RequestsOK /\ Books /\ PlansFit /\ MemoryAgrees(mem, req, Grants, Writes)
        /\ Pairs(Grants) /\ Pairs(Writes)
    BY InvParts
  <1>2. PICK r \in Req \ Created : req' = [req EXCEPT ![r] = q]
    <2>1. (CHOOSE x \in Req \ Created : TRUE) \in Req \ Created
      BY DEF Create, Created
    <2> QED BY <2>1 DEF Create
  <1>3. pc = "idle" /\ mem' = mem /\ UNCHANGED <<pc, todo, rows, plans>>
    BY DEF Create
  <1>4. /\ q.state = "WAITING" /\ q.kind = k /\ q.out = << >> /\ q.next = NoToken
        /\ q.cachedNext = NoToken /\ q.resuming = FALSE
    OBVIOUS
  <1> HIDE DEF q
  <1>5. RequestBooks(q)
    <2>1. << >> \in Seq(Token) /\ Len(<< >>) = 0
      OBVIOUS
    <2>2. k.prompt \in Seq(Token)
      BY EngineAssumption, KindFacts
    <2>3. k.prompt \o << >> = k.prompt
      BY <2>2
    <2>4. Solo(k.prompt, 0) = k.prompt
      BY <2>2, SoloNext
    <2>5. OutputOK(q)
      <3>1. 1 .. Len(q.out) - 1 = {}
        BY <2>1, <1>4
      <3>2. q.kind.prompt \o q.out = Solo(q.kind.prompt, Len(q.out))
        BY <2>1, <2>3, <2>4, <1>4
      <3>3. q.state # "FINISHED"
        BY <1>4
      <3> QED BY <3>1, <3>2, <3>3, <2>1, <1>4 DEF OutputOK
    <2>6. PhaseOK(q)
      BY <1>4 DEF PhaseOK
    <2> QED BY <2>5, <2>6, <1>4 DEF RequestBooks, Value
  <1>6. req[r].state \notin Running /\ q.state \notin Running
    <2>1. req[r].state = "new"
      BY <1>2 DEF Created
    <2> QED BY <2>1, <1>4 DEF Running
  <1>7. Moves(mem, mem', r, req, req') /\ req'[r] = q /\ Only(r)
    BY <1>1, <1>2, <1>3, <1>6, AsideMoves
  <1>8. Created' = Created \cup {r}
    BY <1>2, <1>4, <1>7 DEF Created, Only
  <1>9. Books'
    BY <1>1, <1>2, <1>5, <1>7, <1>8 DEF Books, Only, Created
  <1>10. Grants' = {} /\ Writes' = {}
    BY <1>3 DEF Grants, Writes
  <1>11. MemoryAgrees(mem', req', Grants', Writes')
    <2>1. GrantsMove(Grants, Grants', mem', r) /\ WritesMove(Writes, Writes', mem', r, req')
      BY <1>10 DEF GrantsMove, WritesMove
    <2> QED BY <2>1, <1>1, <1>2, <1>7, OneMoves
  <1>12. PlansFit'
    BY <1>1, <1>3, <1>8, PlansStand
  <1>13. RowsFit'
    BY <1>3 DEF RowsFit
  <1> QED BY <1>9, <1>11, <1>12, <1>13 DEF MemoryInv

LEMMA RejectHeadAgrees ==
    ASSUME EngineInv, MemoryInv, RejectHead
    PROVE  MemoryInv'
  <1> DEFINE r == Head(waiting)
             e == Ended(req[r], "REJECTED", "KV_CAPACITY_EXCEEDED")
  <1>1. RequestsOK /\ SchedulerOK /\ PlansFit /\ LoopOK /\ RowsFit
    BY InvParts
  <1>2. /\ pc = "admit" /\ waiting # << >> /\ UNCHANGED <<pc, todo, rows, plans>>
        /\ rows \in Seq(Req) /\ mem' = mem
    BY <1>1 DEF RejectHead, AdmitsHead, LoopOK
  <1>3. r \in Created /\ req[r].state = "WAITING"
    <2>1. waiting \in Seq(Req)
          /\ ToSet(waiting) = {y \in Created : req[y].queued /\ req[y].state = "WAITING"}
      BY <1>1 DEF SchedulerOK, ContainersOK
    <2>2. r \in ToSet(waiting)
      BY <2>1, <1>2, TailSet
    <2> QED BY <2>1, <2>2
  <1>4. req' = [req EXCEPT ![r] = e] /\ e = Ended(req[r], "REJECTED", "KV_CAPACITY_EXCEEDED")
    BY <1>1, <1>3 DEF RejectHead, RequestsOK, Created
  <1> HIDE DEF r, e
  <1>5. MovesBooked(r) /\ req'[r].state = "REJECTED" /\ Only(r)
    BY <1>2, <1>3, <1>4, DequeuedBooked
  <1>6. \A y \in ToSet(rows) : y # r /\ req'[y] = req[y] /\ req[y].state = "DECODING"
    <2>1. \A y \in ToSet(rows) : y \in Req /\ req[y].state = "DECODING"
      BY <1>1, <1>2, ToSetIndexed DEF RowsFit
    <2> QED BY <2>1, <1>3, <1>5 DEF Only
  <1>7. GrantsMove(Grants, Grants', mem', r) /\ WritesMove(Writes, Writes', mem', r, req')
    <2>1. Grants = {<<y, 1>> : y \in {z \in ToSet(rows) : req[z].state = "DECODING"}}
      BY <1>2 DEF Grants
    <2>2. Grants' = {<<y, 1>> : y \in {z \in ToSet(rows) : req'[z].state = "DECODING"}}
      BY <1>2 DEF Grants
    <2>3. Writes' = {}
      BY <1>2 DEF Writes
    <2> QED BY <2>1, <2>2, <2>3, <1>6 DEF GrantsMove, WritesMove
  <1>8. MemoryAgrees(mem, req, Grants, Writes)' /\ Books' /\ Created' = Created
    BY <1>3, <1>5, <1>7, OneAgrees
  <1>9. PlansFit'
    BY <1>1, <1>2, <1>8, PlansStand
  <1>10. RowsFit'
    BY <1>2, <1>6 DEF RowsFit
  <1> QED BY <1>8, <1>9, <1>10 DEF MemoryInv

-----------------------------------------------------------------------------
(* Every step of the engine. *)

LEMMA InitMemoryInv ==
    ASSUME Init
    PROVE  MemoryInv
  <1>1. /\ mem = InitMem /\ req = [r \in Req |-> NoRequest] /\ pc = "idle"
        /\ todo = << >> /\ rows = << >> /\ plans = << >>
    BY DEF Init
  <1>2. Created = {}
    BY <1>1 DEF Created, NoRequest
  <1>3. RequestsOK
    BY InitEngineInv DEF EngineInv, SchedulerOK
  <1>4. Books
    BY <1>2 DEF Books
  <1>5. Grants = {} /\ Writes = {}
    BY <1>1 DEF Grants, Writes
  <1>6. StoriesOf(req) \in [Req -> Seq(Token)]
    BY <1>3, <1>4, StoriesTyped DEF Books
  <1>7. /\ MemoryOK(mem, StoriesOf(req)) /\ Entries(mem) = {}
        /\ \A r \in Req : mem.pool.owns[r] = << >> /\ mem.len[r] = 0
    BY <1>1, <1>6, InitMemOK
  <1>8. PredsRight(mem)
    BY <1>7, OwnersDiffer DEF PredsRight, Entries
  <1>9. \A r \in Req : PagesOf(mem, r, req[r])
    BY <1>1, <1>7 DEF PagesOf, NoRequest
  <1>10. MemoryAgrees(mem, req, Grants, Writes)
    BY <1>5, <1>7, <1>8, <1>9 DEF MemoryAgrees
  <1>11. PlansFit /\ RowsFit
    <2>1. << >> \in Seq(Created \X (1 .. ChunkSize))
      OBVIOUS
    <2> QED BY <1>1, <2>1 DEF PlansFit, RowsFit
  <1> QED BY <1>4, <1>10, <1>11 DEF MemoryInv

LEMMA NextMemoryInv ==
    ASSUME ModelTyped, EngineInv, MemoryInv, Next
    PROVE  MemoryInv'
  <1>1. ASSUME NEW k \in Workload, Create(k) PROVE MemoryInv'
    BY <1>1, CreateAgrees
  <1>2. ASSUME NEW r \in Req, Submit(r) PROVE MemoryInv'
    BY <1>2, SubmitAgrees
  <1>3. ASSUME NEW r \in Req, Cancel(r) PROVE MemoryInv'
    BY <1>3, CancelAgrees
  <1>4. CASE \/ BeginStep \/ DecodeRowsReady \/ DecodeCommitted \/ AdmissionEnds \/ ExactDone
             \/ PrefillChunksReady \/ EndStep \/ WaitForWork
    BY <1>4, LoopTurnsAgree
  <1>5. CASE DecodeRowCapacity
    BY <1>5, DecodeRowCapacityAgrees
  <1>6. CASE DecodeForward
    BY <1>6, DecodeForwardAgrees
  <1>7. CASE CommitDecodeRow
    BY <1>7, CommitDecodeRowAgrees
  <1>8. CASE RejectHead
    BY <1>8, RejectHeadAgrees
  <1>9. CASE AdmitHead
    BY <1>9, AdmitHeadAgrees
  <1>10. CASE ExactHit
    BY <1>10, ExactHitAgrees
  <1>11. CASE PlanPrefill
    BY <1>11, PlanPrefillAgrees
  <1>12. CASE PrefillChunkCapacity
    BY <1>12, PrefillChunkCapacityAgrees
  <1>13. CASE FusedForward
    BY <1>13, FusedForwardAgrees
  <1>14. CASE CommitPrefillChunk
    BY <1>14, CommitPrefillChunkAgrees
  <1> QED BY <1>1, <1>2, <1>3, <1>4, <1>5, <1>6, <1>7, <1>8, <1>9, <1>10, <1>11, <1>12, <1>13,
             <1>14 DEF Next, Step

LEMMA StutterMemoryInv ==
    ASSUME MemoryInv, UNCHANGED vars
    PROVE  MemoryInv'
  <1>1. UNCHANGED <<mem, req, pc, todo, rows, plans>>
    BY DEF vars, sched
  <1>2. Grants' = Grants /\ Writes' = Writes
    BY <1>1 DEF Grants, Writes
  <1>3. MemoryAgrees(mem, req, Grants, Writes)' /\ Books'
    BY <1>1, <1>2, QuietAgrees
  <1>4. PlansFit' /\ RowsFit'
    BY <1>1 DEF MemoryInv, PlansFit, RowsFit, Created
  <1> QED BY <1>3, <1>4 DEF MemoryInv

-----------------------------------------------------------------------------
(* What the invariant says. *)

\* The first n positions fit the pages that are counted for them.
LEMMA PagesSuffice ==
    ASSUME NEW n \in Nat, NEW k \in Nat, BlocksFor(n) <= k
    PROVE  n <= k * BlockSize
  <1>1. BlockSize \in Nat \ {0}
    BY KVAssumption
  <1>2. CASE n = 0
    <2>1. k * BlockSize \in Nat
      BY <1>1
    <2> QED BY <2>1, <1>2
  <1>3. CASE n # 0
    <2> DEFINE p == PageOf(n)
               o == OffsetOf(n)
    <2>1. p \in Nat \ {0} /\ o \in 0 .. BlockSize - 1 /\ n = BlockSize * (p - 1) + o + 1 /\ p <= k
      BY <1>3, PositionParts, BlocksForPage DEF Slots
    <2> HIDE DEF p, o
    <2>2. BlockSize * (p - 1) + BlockSize = p * BlockSize
      BY <1>1, <2>1
    <2>3. p * BlockSize <= k * BlockSize
      BY <1>1, <2>1
    <2>4. n <= BlockSize * (p - 1) + BlockSize
      <3>1. BlockSize * (p - 1) \in Nat
        BY <1>1, <2>1
      <3> QED BY <3>1, <1>1, <2>1
    <2>5. p * BlockSize \in Nat /\ k * BlockSize \in Nat
      BY <1>1, <2>1
    <2> QED BY <2>2, <2>3, <2>4, <2>5
  <1> QED BY <1>2, <1>3

\* What holds between two turns of any loop, before what it has in flight.
Balanced ==
    /\ SchedulerOK /\ Books /\ MemoryAgrees(mem, req, {}, {})
    /\ plans \in Seq(Created \X (1 .. ChunkSize))

LEMMA InvBalanced == EngineInv /\ MemoryInv => Balanced
  <1> SUFFICES ASSUME EngineInv, MemoryInv PROVE Balanced
    OBVIOUS
  <1>1. SchedulerOK /\ Books /\ PlansFit /\ MemoryAgrees(mem, req, Grants, Writes)
    BY InvParts
  <1>2. MemoryAgrees(mem, req, {}, {})
    BY <1>1, FewerPromises
  <1> QED BY <1>1, <1>2 DEF Balanced, PlansFit

LEMMA BalancedConsistent == Balanced => EngineConsistent
  <1> SUFFICES ASSUME Balanced PROVE EngineConsistent
    OBVIOUS
  <1>1. /\ RequestsOK /\ SchedulerOK /\ Books /\ ContainersOK /\ epoch \in Nat
        /\ MemoryAgrees(mem, req, {}, {})
    BY DEF Balanced, SchedulerOK, EpochsOK
  <1>2. /\ MemoryOK(mem, StoriesOf(req)) /\ mem \in Memory /\ mem.pool \in Pool
        /\ Consistent(mem.pool) /\ CacheRefsExact(mem)
    BY <1>1, MemoryFields DEF MemoryAgrees, MemoryOK, CacheOK
  <1>3. TypeOK
    <2>1. ASSUME NEW r \in Created
          PROVE  /\ req[r].state \in State /\ req[r].kind \in Workload /\ req[r].out \in Seq(Token)
                 /\ req[r].next \in Token \cup {NoToken}
                 /\ req[r].prefilled \in Nat /\ req[r].yields \in Nat
      <3>1. IsRequest(req[r]) /\ RequestBooks(req[r])
        BY <1>1, LiveFacts DEF Books
      <3> QED BY <3>1 DEF IsRequest, RequestBooks, OutputOK, Value
    <2>2. waiting \in Seq(Created) /\ active \in Seq(Created) /\ order \in Seq(Created)
      <3>1. waiting \in Seq(Req) /\ active \in Seq(Req) /\ order \in Seq(Req)
        BY <1>1 DEF ContainersOK
      <3>2. /\ ToSet(waiting) \subseteq Created /\ ToSet(active) \subseteq Created
            /\ ToSet(order) \subseteq Created
        BY <1>1 DEF ContainersOK, Live
      <3> QED BY <3>1, <3>2, SeqIn
    <2>3. plans \in Seq(Created \X (1 .. ChunkSize))
      BY DEF Balanced
    <2> QED BY <2>1, <2>2, <2>3, <1>1, <1>2 DEF TypeOK
  <1>4. CountersAgree
    <2> SUFFICES ASSUME NEW r \in Live
                 PROVE  /\ mem.len[r] <= Len(Table(mem, r)) * BlockSize
                        /\ req[r].state = "DECODING" =>
                              /\ mem.len[r] = Len(req[r].kind.prompt) + Len(req[r].out) - 1
                              /\ req[r].next = Last(req[r].out) /\ Len(req[r].out) < req[r].kind.maxNew
                        /\ req[r].state = "PREFILLING" =>
                              /\ mem.len[r] = req[r].prefilled
                              /\ req[r].prefilled <= Len(PrefillIds(req[r]))
      BY DEF CountersAgree
    <2>1. /\ r \in Req /\ r \in Created /\ RequestBooks(req[r]) /\ req[r].state \notin Terminal
          /\ Len(req[r].out) \in Nat /\ req[r].kind \in Kind
      BY <1>1, RunningFacts
    <2>2. mem.len[r] \in Nat /\ Len(mem.pool.owns[r]) \in Nat /\ PagesOf(mem, r, req[r])
      BY <1>1, RunningPages
    <2>3. BlocksFor(mem.len[r]) <= Len(mem.pool.owns[r])
      BY <1>2, <2>1 DEF MemoryOK, RequestOK, Reads
    <2>4. mem.len[r] <= Len(Table(mem, r)) * BlockSize
      BY <2>2, <2>3, PagesSuffice DEF Table
    <2>5. ASSUME req[r].state = "DECODING"
          PROVE  /\ mem.len[r] = Len(req[r].kind.prompt) + Len(req[r].out) - 1
                 /\ req[r].next = Last(req[r].out) /\ Len(req[r].out) < req[r].kind.maxNew
      <3>1. req[r].out # << >> /\ req[r].next = Last(req[r].out)
        BY <2>1, <2>5 DEF RequestBooks, PhaseOK
      <3>2. ReasonOf(req[r].kind, req[r].out) = "none"
        BY <2>1, <3>1 DEF RequestBooks, OutputOK
      <3>3. ~(Len(req[r].out) >= req[r].kind.maxNew)
        BY <3>2 DEF ReasonOf
      <3>4. req[r].kind.maxNew \in Nat
        BY <2>1, KindFacts
      <3>5. Len(req[r].out) < req[r].kind.maxNew
        BY <3>3, <3>4, <2>1
      <3> QED BY <3>1, <3>5, <2>2, <2>5 DEF PagesOf
    <2>6. ASSUME req[r].state = "PREFILLING"
          PROVE  mem.len[r] = req[r].prefilled /\ req[r].prefilled <= Len(PrefillIds(req[r]))
      BY <2>1, <2>2, <2>6 DEF RequestBooks, PhaseOK, PagesOf
    <2> QED BY <2>4, <2>5, <2>6
  <1>5. PagesAccounted
    <2>1. ASSUME NEW r \in Req PROVE (Table(mem, r) # << >>) <=> (r \in ToSet(active))
      <3>1. PagesOf(mem, r, req[r]) /\ ToSet(active) = Live
        BY <1>1 DEF MemoryAgrees, ContainersOK
      <3>2. r \in Live <=> req[r].state \in Running
        BY DEF Live, Created, Running
      <3> QED BY <3>1, <3>2 DEF PagesOf, Running, Table
    <2> QED BY <2>1, <1>1, <1>2 DEF PagesAccounted, ContainersOK
  <1> QED BY <1>3, <1>4, <1>5 DEF EngineConsistent

LEMMA BalancedIntegrity == Balanced => KVIntegrity
  <1> SUFFICES ASSUME Balanced PROVE KVIntegrity
    OBVIOUS
  <1>1. RequestsOK /\ Books /\ MemoryAgrees(mem, req, {}, {})
    BY DEF Balanced, SchedulerOK
  <1>2. MemoryOK(mem, StoriesOf(req)) /\ CacheOK(mem) /\ mem \in Memory
    BY <1>1 DEF MemoryAgrees, MemoryOK, CacheOK
  <1>3. ASSUME NEW r \in Live
        PROVE  ReadsBack(mem, r, req[r].kind.prompt \o req[r].out, mem.len[r])
    <2>1. /\ r \in Req /\ Story(req[r]) = req[r].kind.prompt \o req[r].out
          /\ Story(req[r]) \in Seq(Token) /\ StoriesOf(req)[r] = Story(req[r])
      BY <1>1, RunningFacts
    <2>2. mem.len[r] \in Nat /\ r \in PageOwner
      BY <1>1, RunningPages
    <2> DEFINE s == Story(req[r])
    <2>3. RequestOK(mem, r, s)
      BY <1>2, <2>1 DEF MemoryOK
    <2>4. s \in Seq(Token) /\ s = req[r].kind.prompt \o req[r].out
      BY <2>1
    <2> HIDE DEF s
    <2>5. mem.len[r] \in 0 .. Len(s) /\ Reads(mem, r, s, mem.len[r])
      <3>1. Len(s) \in Nat
        BY <2>4, LenProperties
      <3> QED BY <3>1, <2>2, <2>3 DEF RequestOK
    <2>6. ReadsBack(mem, r, s, mem.len[r])
      BY <1>2, <2>2, <2>4, <2>5, ReadsContext
    <2> QED BY <2>4, <2>6
  <1> QED BY <1>2, <1>3, CacheOKReadsBack DEF KVIntegrity

LEMMA BalancedSolo == Balanced => SoloOutput
  <1> SUFFICES ASSUME Balanced, NEW r \in Created
               PROVE  LET q == req[r]
                          n == Len(q.out)
                      IN  /\ q.kind.greedy => q.kind.prompt \o q.out = Solo(q.kind.prompt, n)
                          /\ \A i \in 1 .. n - 1 :
                                FinishReason([q EXCEPT !.out = Prefix(q.out, i)]) = "none"
                          /\ q.state = "FINISHED" => n > 0 /\ FinishReason(q) = q.reason
    BY DEF SoloOutput
  <1> DEFINE q == req[r]
  <1>1. IsRequest(q) /\ OutputOK(q)
    BY LiveFacts DEF Balanced, SchedulerOK, Books, RequestBooks
  <1>2. DOMAIN q = Fields
    <2>1. q = [f \in Fields |-> q[f]]
      BY <1>1 DEF IsRequest
    <2> QED BY <2>1
  <1> HIDE DEF q
  <1>3. ASSUME NEW i \in 1 .. Len(q.out) - 1
        PROVE  FinishReason([q EXCEPT !.out = Prefix(q.out, i)]) = "none"
    <2> DEFINE o == Prefix(q.out, i)
               u == [q EXCEPT !.out = o]
    <2>1. ReasonOf(q.kind, o) = "none"
      BY <1>1 DEF OutputOK
    <2> HIDE DEF o
    <2>2. u.kind = q.kind /\ u.out = o
      BY <1>2 DEF Fields
    <2> HIDE DEF u
    <2>3. FinishReason(u) = "none"
      BY <2>1, <2>2, ReasonIs
    <2> QED BY <2>3 DEF u, o
  <1>4. ASSUME q.state = "FINISHED" PROVE Len(q.out) > 0 /\ FinishReason(q) = q.reason
    <2>1. q.out # << >> /\ q.out \in Seq(Token) /\ ReasonOf(q.kind, q.out) = q.reason
      BY <1>1, <1>4 DEF OutputOK
    <2>2. Len(q.out) > 0
      BY <2>1, EmptySeq
    <2> QED BY <2>1, <2>2, ReasonIs
  <1>5. q.kind.greedy => q.kind.prompt \o q.out = Solo(q.kind.prompt, Len(q.out))
    BY <1>1 DEF OutputOK
  <1> QED BY <1>3, <1>4, <1>5 DEF q

-----------------------------------------------------------------------------
(* The theorems. *)

\* Between any two turns of the worker the memory stands for what the requests have computed,
\* and what a loop of a step is about to write or commit has the pages for it.
THEOREM MemoryInvariant ==
    ASSUME ModelTyped
    PROVE  Spec => []MemoryInv
  <1>1. Init => MemoryInv
    BY InitMemoryInv
  <1>2. EngineInv /\ MemoryInv /\ [Next]_vars => MemoryInv'
    BY NextMemoryInv, StutterMemoryInv
  <1> QED BY <1>1, <1>2, EngineInvariant, PTL DEF Spec

\* No page leaks and none is freed early, and the counters of requests, block manager,
\* allocator and prefix cache agree, across admission, chunked prefill, preemption,
\* cancellation, failure for lack of pages and eviction.
THEOREM BooksBalance ==
    ASSUME ModelTyped
    PROVE  Spec => []EngineConsistent
  BY MemoryInvariant, EngineInvariant, InvBalanced, BalancedConsistent, PTL

\* A request attends to its own prompt and output, and a cached page to what it was
\* published with, however steps batch, share, copy, evict, preempt and recompute.
THEOREM OwnContextOnly ==
    ASSUME ModelTyped
    PROVE  Spec => []KVIntegrity
  BY MemoryInvariant, EngineInvariant, InvBalanced, BalancedIntegrity, PTL

\* Token identity: a greedy request returns what it would return alone, and every request
\* stops at the first token that ends it and no earlier.
THEOREM TokensAsAlone ==
    ASSUME ModelTyped
    PROVE  Spec => []SoloOutput
  BY MemoryInvariant, EngineInvariant, InvBalanced, BalancedSolo, PTL

-----------------------------------------------------------------------------
(* Seeded requests: the tokens and the draws. *)

(***************************************************************************)
(* _sample draws once for each report and at least once for each token of  *)
(* a seeded request, however its prompt was cut and however often it was   *)
(* parked and rebuilt: a token is appended only after a draw of its own.   *)
(***************************************************************************)
THEOREM TokensPaid ==
    ASSUME ModelTyped, EnoughGenerators
    PROVE  SampleSpec => []GeneratorsExact
  <1>1. SampleInit => PaidOK
    BY InitSampleInv
  <1>2. MemoryInv => Books
    BY DEF MemoryInv
  <1>3. EngineInv /\ MemoryInv /\ CrowdOK /\ GensOK /\ StreamsOK /\ PaidOK
           /\ [SampleNext]_sampleVars => PaidOK'
    BY <1>2, PaidStep, StutterSampleInv DEF SampleNext
  <1>4. SampleSpec => []EngineInv /\ []MemoryInv
    BY SamplingIsServing, EngineInvariant, MemoryInvariant, PTL
  <1>5. SampleSpec => [](CrowdOK /\ GensOK)
    BY CrowdInvariant
  <1>6. SampleSpec => []StreamsOK
    BY StreamsInvariant
  <1>7. SampleSpec => []PaidOK
    BY <1>1, <1>3, <1>4, <1>5, <1>6, PTL DEF SampleSpec
  <1>8. GeneratorsOfTheLiving /\ StreamsOK /\ PaidOK => GeneratorsExact
    <2> SUFFICES ASSUME GeneratorsOfTheLiving, StreamsOK, PaidOK PROVE EveryTokenDrawn
      BY DEF GeneratorsExact
    <2> SUFFICES ASSUME NEW r \in Settled
                 PROVE  drawn[r] = logprobs[r] /\ Len(req[r].out) <= drawn[r]
      <3>1. \A r \in Settled : drawn[r] = logprobs[r] /\ Len(req[r].out) <= drawn[r]
        OBVIOUS
      <3> QED BY <3>1 DEF EveryTokenDrawn
    <2>1. r \in Req /\ r \in Created /\ ~req[r].kind.greedy
      BY DEF Settled, Created
    <2> QED BY <2>1 DEF StreamsOK, PaidOK
  <1> QED BY <1>6, <1>7, <1>8, GeneratorsLive, PTL

-----------------------------------------------------------------------------
(* The worker with a proposer: its inductive invariant. *)

SpecPlaces == {"group", "specCap", "verify", "specCommit"}

\* Distinct rows of the group whose proposals are of the present depth.
GroupRows(s) == s \in Seq(Req) /\ IsInjective(s) /\ \A r \in ToSet(s) : Len(proposals[r]) = depth

RoundRows ==
    /\ pc = "specCap" => GroupRows(todo) /\ GroupRows(rows) /\ ToSet(rows) \cap ToSet(todo) = {}
    /\ pc = "verify" => GroupRows(rows) /\ RequestsIn(rows, "DECODING")
    /\ pc = "specCommit" => GroupRows(todo) /\ RequestsIn(todo, "DECODING")

\* The rows that hold the pages for their pending token and their proposal.
RoundGrants ==
    {<<r, depth + 1>> : r \in {x \in ToSet(rows) :
        req[x].state = "DECODING" /\ pc \in {"specCap", "verify"}}}

\* What is written for a verified row reads as its story and the proposal after it.
RoundWrites ==
    pc = "specCommit" =>
        \A r \in ToSet(todo) : Covers(mem, r, depth + 1, Story(req[r]) \o proposals[r])

\* The proposal for r waits to be verified.
Unverified(r) ==
    \/ Len(proposals[r]) > depth
    \/ Len(proposals[r]) = depth /\ pc \in {"specCap", "verify"}

\* Nothing has happened to the history a proposal was made for.
ProposalsFresh ==
    proposer = "draft_model" =>
        \A r \in Req : Unverified(r) => proposals[r] = GreedyDraft(History(r), Len(proposals[r]))

RoundInv ==
    /\ SchedulerOK /\ Books /\ plans = << >>
    /\ MemoryAgrees(mem, req, RoundGrants, {})
    /\ RoundRows /\ RoundWrites /\ ProposalsFresh

ProposerOK ==
    /\ depth \in Nat /\ decoding \subseteq Req
    /\ \A r \in Req : /\ proposals[r] \in Seq(Token)
                      /\ DraftExact(drafts[r]) /\ drafts[r].tokens \in Seq(Token)
    /\ DraftsOfTheLiving

SpecInv ==
    /\ pc \in SpecPlaces => RoundInv
    /\ pc \notin SpecPlaces => EngineInv /\ MemoryInv
    /\ ProposerOK

-----------------------------------------------------------------------------
(* What the invariant says. *)

LEMMA RoundBalanced == RoundInv => Balanced
  <1> SUFFICES ASSUME RoundInv PROVE Balanced
    OBVIOUS
  <1>1. SchedulerOK /\ Books /\ MemoryAgrees(mem, req, RoundGrants, {}) /\ plans = << >>
    BY DEF RoundInv
  <1>2. MemoryAgrees(mem, req, {}, {})
    BY <1>1, FewerPromises
  <1> QED BY <1>1, <1>2 DEF Balanced

LEMMA SpecBalanced == SpecInv => Balanced
  BY InvBalanced, RoundBalanced DEF SpecInv

\* The rows that are verified have proposals for their present history.
LEMMA SpecCurrent == SpecInv => ProposalsAreCurrent
  <1> SUFFICES ASSUME SpecInv PROVE ProposalsAreCurrent
    OBVIOUS
  <1>1. \A r \in Req : DraftExact(drafts[r])
    BY DEF SpecInv, ProposerOK
  <1>2. ASSUME proposer = "draft_model", pc = "verify", NEW i \in 1 .. Len(rows)
        PROVE  proposals[rows[i]] = GreedyDraft(History(rows[i]), depth)
    <2>1. RoundInv
      BY <1>2 DEF SpecInv, SpecPlaces
    <2>2. GroupRows(rows) /\ ProposalsFresh
      BY <2>1, <1>2 DEF RoundInv, RoundRows
    <2>3. rows[i] \in Req /\ rows[i] \in ToSet(rows)
      BY <2>2, <1>2, ToSetIndexed DEF GroupRows
    <2>4. Len(proposals[rows[i]]) = depth
      BY <2>2, <2>3 DEF GroupRows
    <2> QED BY <2>2, <2>3, <2>4, <1>2 DEF ProposalsFresh, Unverified
  <1> QED BY <1>1, <1>2 DEF ProposalsAreCurrent

-----------------------------------------------------------------------------
(* The proposer's state. *)

\* What forget leaves: a state that ended is gone, the others are as they were.
LEMMA ForgetKeeps ==
    ASSUME ProposerOK, LegalStep, ForgetDrafts,
           \/ UNCHANGED <<proposals, depth, decoding>>
           \/ proposals' = None /\ depth' = 0 /\ decoding' = {}
    PROVE  ProposerOK'
  <1>1. depth' \in Nat /\ decoding' \subseteq Req /\ \A r \in Req : proposals'[r] \in Seq(Token)
    <2>1. \A r \in Req : None[r] \in Seq(Token)
      BY DEF None
    <2> QED BY <2>1 DEF ProposerOK
  <1>2. ASSUME NEW r \in Req
        PROVE  /\ drafts'[r] = NoDraft \/ (drafts'[r] = drafts[r] /\ r \notin JustEnded)
               /\ r \in Req /\ DraftExact(drafts'[r]) /\ drafts'[r].tokens \in Seq(Token)
    <2>1. CASE r \in JustEnded \cup Parked
      <3>1. drafts'[r] = NoDraft
        BY <2>1 DEF ForgetDrafts
      <3>2. DraftExact(NoDraft) /\ NoDraft.tokens \in Seq(Token)
        BY DEF NoDraft, DraftExact
      <3> QED BY <3>1, <3>2
    <2>2. CASE r \notin JustEnded \cup Parked
      <3>1. drafts'[r] = drafts[r]
        BY <2>2 DEF ForgetDrafts
      <3> QED BY <3>1, <2>2 DEF ProposerOK
    <2> QED BY <2>1, <2>2
  <1>3. ASSUME NEW r \in Req, drafts'[r] # NoDraft
        PROVE  req'[r].state \in {"PREFILLING", "DECODING", "WAITING"}
    <2>1. drafts[r] # NoDraft /\ r \notin JustEnded
      BY <1>2, <1>3
    <2>2. req[r].state \in {"PREFILLING", "DECODING", "WAITING"}
      BY <2>1 DEF ProposerOK, DraftsOfTheLiving
    <2>3. req'[r].state \notin Terminal
      BY <2>1, <2>2 DEF JustEnded, Terminal
    <2>4. req'[r].state # req[r].state => req'[r].state \in Allowed[req[r].state]
      BY DEF LegalStep
    <2> QED BY <2>2, <2>3, <2>4 DEF Allowed, Terminal
  <1> QED BY <1>1, <1>2, <1>3 DEF ProposerOK, DraftsOfTheLiving

\* Nothing is proposed and nobody moves.
LEMMA ProposerStands ==
    ASSUME ProposerOK, UNCHANGED <<req, drafts, proposals, decoding>>, depth' \in Nat
    PROVE  ProposerOK'
  BY DEF ProposerOK, DraftsOfTheLiving

\* The history of a request that holds pages, and what may still follow it.
LEMMA HistoryFacts ==
    ASSUME RequestsOK, Books, NEW r \in Live
    PROVE  /\ History(r) = Story(req[r]) /\ History(r) \in Seq(Token) /\ History(r) # << >>
           /\ req[r].kind.maxNew \in Nat \ {0} /\ Len(req[r].out) \in Nat
  <1>1. /\ req[r].kind \in Kind /\ Story(req[r]) = req[r].kind.prompt \o req[r].out
        /\ Story(req[r]) \in Seq(Token) /\ Len(req[r].out) \in Nat
        /\ Len(Story(req[r])) = Len(req[r].kind.prompt) + Len(req[r].out)
        /\ Len(req[r].kind.prompt) \in Nat \ {0}
    BY RunningFacts
  <1>2. PICK s : s = Story(req[r])
    OBVIOUS
  <1>3. s \in Seq(Token) /\ Len(s) # 0
    <2>1. \A a \in Nat \ {0}, b \in Nat : a + b # 0
      OBVIOUS
    <2>2. Len(s) # 0
      BY <2>1, <1>1, <1>2
    <2> QED BY <2>2, <1>1, <1>2
  <1>4. s # << >>
    BY <1>3
  <1>5. History(r) = s
    BY <1>1, <1>2 DEF History
  <1> QED BY <1>1, <1>2, <1>3, <1>4, <1>5, KindFacts

\* A proposal p for r and the state of the proposer after it.
Proposed(p, r) ==
    /\ p.tokens \in Seq(Token) /\ DraftExact(p.state) /\ p.state.tokens \in Seq(Token)
    /\ (proposer = "draft_model" /\ p.tokens # << >>) =>
          p.tokens = GreedyDraft(History(r), Len(p.tokens))

LEMMA ProposeFacts ==
    ASSUME DraftTyped, RequestsOK, Books, ProposerOK, NEW r \in Live
    PROVE  Proposed(Propose(r), r)
  <1>1. DraftExact(drafts[r]) /\ drafts[r].tokens \in Seq(Token) /\ r \in Req
    BY LiveFacts DEF ProposerOK
  <1>2. /\ History(r) \in Seq(Token) /\ History(r) # << >>
        /\ req[r].kind.maxNew \in Nat \ {0} /\ Len(req[r].out) \in Nat
    BY HistoryFacts
  <1>3. CASE ~Eligible(r)
    <2>1. Propose(r) = [tokens |-> << >>, state |-> drafts[r]]
      BY <1>3 DEF Propose
    <2> QED BY <2>1, <1>1 DEF Proposed
  <1>4. CASE Eligible(r)
    <2> DEFINE n == MostTokens(r)
    <2>1. n \in Nat \ {0}
      <3>1. req[r].kind.maxNew - Len(req[r].out) >= 2
        BY <1>4 DEF Eligible
      <3>2. PICK b : b = req[r].kind.maxNew - Len(req[r].out) - 1
        OBVIOUS
      <3>3. b \in Int /\ b >= 1 /\ Depth \in Int /\ Depth >= 1
        BY <3>1, <3>2, <1>2, SpecAssumption
      <3>4. n = IF Depth <= b THEN Depth ELSE b
        BY <3>2, <3>3, LeastOfTwo DEF MostTokens
      <3> QED BY <3>3, <3>4
    <2> HIDE DEF n
    <2>2. CASE proposer = "ngram"
      <3>1. Propose(r) = [tokens |-> NgramPropose(History(r), n), state |-> drafts[r]]
        BY <1>4, <2>2 DEF Propose, n
      <3>2. NgramPropose(History(r), n) \in Seq(Token)
        BY <2>1, <1>2, NgramTokens
      <3> QED BY <3>1, <3>2, <1>1, <2>2 DEF Proposed
    <2>3. CASE proposer # "ngram"
      <3>1. Propose(r) = DraftPropose(drafts[r], History(r), n)
        BY <1>4, <2>3 DEF Propose, n
      <3>2. DraftsOwn(DraftPropose(drafts[r], History(r), n), History(r), n)
        BY <2>1, <1>1, <1>2, DraftProposeFacts
      <3> QED BY <3>1, <3>2 DEF DraftsOwn, Proposed
    <2> QED BY <2>2, <2>3
  <1> QED BY <1>3, <1>4

-----------------------------------------------------------------------------
(* The turns of a round that move nobody. *)

\* The scheduler and the memory stand, whatever is promised no longer.
LEMMA RoundStands ==
    ASSUME SchedulerOK, Books, NEW G, MemoryAgrees(mem, req, G, {}), UNCHANGED sched,
           RoundGrants' \subseteq G
    PROVE  /\ SchedulerOK' /\ Books' /\ MemoryAgrees(mem, req, RoundGrants, {})'
           /\ LegalStep /\ YieldStep /\ Created' = Created
  <1>1. UNCHANGED <<mem, req, waiting, active, order, epoch>>
    BY DEF sched
  <1>2. SchedulerOK' /\ LegalStep /\ YieldStep
    BY <1>1, StutterKeeps
  <1>3. Created' = Created /\ Books'
    BY <1>1 DEF Created, Books
  <1>4. MemoryAgrees(mem, req, RoundGrants', {})
    BY FewerPromises
  <1> QED BY <1>1, <1>2, <1>3, <1>4

\* The one sequence by age lists each request once.
LEMMA ByAgeRows ==
    ASSUME ArrivalsOK, NEW S \in SUBSET Created, NEW s \in ByAge(S)
    PROVE  s \in Seq(Req) /\ IsInjective(s) /\ ToSet(s) \subseteq S
  <1> DEFINE n == Cardinality(S)
  <1>1. S \subseteq Req /\ n \in Nat
    <2>1. Created \subseteq Req
      BY DEF Created
    <2> QED BY <2>1, KVAssumption, FS_Subset, FS_CardinalityType
  <1>2. s \in [1 .. n -> S] /\ \A i, j \in 1 .. n : i < j => Older(s[i], s[j])
    BY DEF ByAge
  <1> HIDE DEF n
  <1>3. s \in Seq(S) /\ s \in Seq(Req) /\ Len(s) = n
    BY <1>1, <1>2
  <1>4. ASSUME NEW i \in 1 .. n, NEW j \in 1 .. n, s[i] = s[j] PROVE i = j
    <2>1. ~Older(s[i], s[i])
      BY <1>2, OlderIsOrder
    <2>2. ~(i < j) /\ ~(j < i)
      BY <2>1, <1>2, <1>4
    <2> QED BY <2>2, <1>1
  <1>5. IsInjective(s)
    BY <1>3, <1>4, ToSetIndexed
  <1>6. ToSet(s) \subseteq S
    BY <1>3, ToSetIndexed
  <1> QED BY <1>3, <1>5, <1>6

\* Proposals that still wait were waiting before, and their histories stand.
LEMMA FreshStands ==
    ASSUME ProposalsFresh, UNCHANGED <<proposals, proposer>>,
           \A r \in Req : Unverified(r)' => Unverified(r) /\ History(r)' = History(r)
    PROVE  ProposalsFresh'
  <1> SUFFICES ASSUME proposer' = "draft_model", NEW r \in Req, Unverified(r)'
               PROVE  proposals'[r] = GreedyDraft(History(r)', Len(proposals'[r]))
    BY DEF ProposalsFresh
  <1>1. Unverified(r) /\ History(r)' = History(r) /\ proposer = "draft_model"
    OBVIOUS
  <1> QED BY <1>1 DEF ProposalsFresh

\* speculative_decode_step's first loop.
LEMMA BeginSpeculationKeeps ==
    ASSUME DraftTyped, SpecInv, BeginSpeculation
    PROVE  SpecInv' /\ LegalStep /\ YieldStep
  <1> DEFINE D == {r \in ToSet(active) : req[r].state = "DECODING"}
  <1>1. /\ pc = "idle" /\ pc' = "group" /\ depth' = 0 /\ UNCHANGED <<sched, plans, proposer>>
        /\ proposals' = [r \in Req |-> IF r \in D THEN Propose(r).tokens ELSE << >>]
        /\ drafts' = [r \in Req |-> IF r \in D THEN Propose(r).state ELSE drafts[r]]
    BY DEF BeginSpeculation
  <1>2. EngineInv /\ MemoryInv /\ ProposerOK
    BY <1>1 DEF SpecInv, SpecPlaces
  <1>3. /\ SchedulerOK /\ RequestsOK /\ Books /\ PlansFit /\ ToSet(active) = Live
        /\ MemoryAgrees(mem, req, Grants, Writes)
    BY <1>2, InvParts
  <1>4. \A r \in D : Proposed(Propose(r), r) /\ req[r].state = "DECODING"
    BY <1>2, <1>3, ProposeFacts
  <1>12. decoding' \subseteq Req
    BY <1>3 DEF BeginSpeculation, Live, Created
  <1> HIDE DEF D
  <1>5. MemoryAgrees(mem, req, {}, {}) /\ RoundGrants' = {}
    BY <1>1, <1>3, FewerPromises DEF RoundGrants
  <1>6. /\ SchedulerOK' /\ Books' /\ MemoryAgrees(mem, req, RoundGrants, {})'
        /\ LegalStep /\ YieldStep
    BY <1>1, <1>3, <1>5, RoundStands
  <1>7. plans' = << >> /\ RoundRows' /\ RoundWrites'
    BY <1>1, <1>3 DEF PlansFit, RoundRows, RoundWrites
  <1>8. UNCHANGED req /\ \A r \in Req : History(r)' = History(r)
    BY <1>1 DEF sched, History
  <1>9. ProposalsFresh'
    <2> SUFFICES ASSUME proposer' = "draft_model", NEW r \in Req, Unverified(r)'
                 PROVE  proposals'[r] = GreedyDraft(History(r)', Len(proposals'[r]))
      BY DEF ProposalsFresh
    <2>1. proposals'[r] # << >>
      <3>1. Len(proposals'[r]) > 0
        BY <1>1 DEF Unverified
      <3>2. ~(Len(<< >>) > 0)
        OBVIOUS
      <3> QED BY <3>1, <3>2
    <2>2. r \in D /\ proposals'[r] = Propose(r).tokens
      BY <2>1, <1>1
    <2> QED BY <2>1, <2>2, <1>1, <1>4, <1>8 DEF Proposed
  <1>10. ProposerOK'
    <2>1. ASSUME NEW r \in Req
          PROVE  /\ proposals'[r] \in Seq(Token)
                 /\ DraftExact(drafts'[r]) /\ drafts'[r].tokens \in Seq(Token)
                 /\ drafts'[r] # NoDraft => req'[r].state \in {"PREFILLING", "DECODING", "WAITING"}
      <3>1. CASE r \in D
        <4>1. proposals'[r] = Propose(r).tokens /\ drafts'[r] = Propose(r).state
          BY <3>1, <1>1
        <4> QED BY <4>1, <3>1, <1>4, <1>8 DEF Proposed
      <3>2. CASE r \notin D
        <4>1. proposals'[r] = << >> /\ drafts'[r] = drafts[r]
          BY <3>2, <1>1
        <4>2. << >> \in Seq(Token)
          OBVIOUS
        <4> QED BY <4>1, <4>2, <1>2, <1>8 DEF ProposerOK, DraftsOfTheLiving
      <3> QED BY <3>1, <3>2
    <2>2. decoding' \subseteq Req
      BY <1>12
    <2> QED BY <2>1, <2>2, <1>1 DEF ProposerOK, DraftsOfTheLiving
  <1>11. RoundInv'
    BY <1>6, <1>7, <1>9 DEF RoundInv
  <1> QED BY <1>1, <1>6, <1>10, <1>11 DEF SpecInv, SpecPlaces

\* The next depth, with its rows by age.
LEMMA NextGroupKeeps ==
    ASSUME SpecInv, NextGroup
    PROVE  SpecInv' /\ LegalStep /\ YieldStep
  <1> DEFINE S == Group({r \in Req : Len(proposals[r]) = depth'})
  <1>1. /\ pc = "group" /\ pc' \in {"group", "specCap"} /\ Deeper # {} /\ depth' = Min(Deeper)
        /\ todo' \in ByAge(S) /\ rows' = << >>
        /\ UNCHANGED <<sched, plans, drafts, proposals, decoding, proposer>>
    BY DEF NextGroup
  <1>2. RoundInv /\ ProposerOK
    BY <1>1 DEF SpecInv, SpecPlaces
  <1>3. /\ SchedulerOK /\ ArrivalsOK /\ Books /\ plans = << >> /\ ProposalsFresh
        /\ MemoryAgrees(mem, req, RoundGrants, {})
    BY <1>2 DEF RoundInv, SchedulerOK
  <1>4. depth' \in Nat /\ depth' > depth /\ depth \in Nat
    <2>1. Deeper \subseteq Nat /\ \A d \in Deeper : d > depth
      BY DEF Deeper
    <2>2. Min(Deeper) \in Deeper
      BY <1>1, <2>1, MinProperties
    <2> QED BY <2>1, <2>2, <1>1, <1>2 DEF ProposerOK
  <1>5. S \in SUBSET Created /\ \A r \in S : Len(proposals[r]) = depth'
    BY DEF Group, Created
  <1> HIDE DEF S
  <1>6. todo' \in Seq(Req) /\ IsInjective(todo') /\ ToSet(todo') \subseteq S
    BY <1>1, <1>3, <1>5, ByAgeRows
  <1>7. << >> \in Seq(Req) /\ IsInjective(<< >>) /\ ToSet(<< >>) = {}
    BY EmptyLists
  <1>8. RoundGrants' = {}
    BY <1>1, <1>7 DEF RoundGrants
  <1>9. /\ SchedulerOK' /\ Books' /\ MemoryAgrees(mem, req, RoundGrants, {})'
        /\ LegalStep /\ YieldStep
    BY <1>1, <1>3, <1>8, RoundStands
  <1>10. GroupRows(todo)' /\ GroupRows(rows)' /\ ToSet(rows') \cap ToSet(todo') = {}
    BY <1>1, <1>5, <1>6, <1>7 DEF GroupRows
  <1>11. RoundRows' /\ RoundWrites'
    BY <1>1, <1>10 DEF RoundRows, RoundWrites
  <1>12. ProposalsFresh'
    <2>1. ASSUME NEW r \in Req, Unverified(r)' PROVE Unverified(r) /\ History(r)' = History(r)
      <3>1. Len(proposals[r]) >= depth' /\ Len(proposals[r]) \in Nat
        BY <1>1, <1>2, <1>4, <2>1 DEF Unverified, ProposerOK
      <3>2. Len(proposals[r]) > depth
        BY <3>1, <1>4
      <3> QED BY <3>2, <1>1 DEF Unverified, History, sched
    <2> QED BY <2>1, <1>1, <1>3, FreshStands
  <1>13. ProposerOK'
    BY <1>1, <1>2, <1>4, ProposerStands DEF sched
  <1>14. RoundInv'
    BY <1>1, <1>3, <1>9, <1>11, <1>12 DEF RoundInv
  <1>15. pc' \in SpecPlaces
    BY <1>1 DEF SpecPlaces
  <1> QED BY <1>9, <1>13, <1>14, <1>15 DEF SpecInv

\* The rows without a proposal: the engine's own loops go on.
LEMMA OrdinaryRowsKeeps ==
    ASSUME SpecInv, OrdinaryRows
    PROVE  SpecInv' /\ LegalStep /\ YieldStep
  <1> DEFINE S == {r \in decoding : proposals[r] = << >> /\ req[r].state = "DECODING"}
  <1>1. /\ pc = "group" /\ pc' = "decodeCap" /\ todo' \in ByAge(S) /\ rows' = << >>
        /\ UNCHANGED <<sched, plans, drafts, proposals, depth, decoding, proposer>>
    BY DEF OrdinaryRows
  <1>2. RoundInv /\ ProposerOK
    BY <1>1 DEF SpecInv, SpecPlaces
  <1>3. /\ SchedulerOK /\ ArrivalsOK /\ Books /\ plans = << >>
        /\ MemoryAgrees(mem, req, RoundGrants, {})
    BY <1>2 DEF RoundInv, SchedulerOK
  <1>4. S \in SUBSET Created
    BY <1>2 DEF Created, ProposerOK
  <1> HIDE DEF S
  <1>5. todo' \in Seq(Req) /\ IsInjective(todo')
    BY <1>1, <1>3, <1>4, ByAgeRows
  <1>6. /\ rows' \in Seq(Req) /\ IsInjective(rows') /\ ToSet(rows') = {}
        /\ plans' = << >> /\ ToSet(plans') = {}
    BY <1>1, <1>3, EmptyLists
  <1>7. Grants' = {} /\ Writes' = {} /\ RoundGrants' = {}
    BY <1>1, <1>6 DEF Grants, Writes, RoundGrants
  <1>8. /\ SchedulerOK' /\ Books' /\ MemoryAgrees(mem, req, RoundGrants, {})'
        /\ LegalStep /\ YieldStep
    BY <1>1, <1>3, <1>7, RoundStands
  <1>9. LoopOK'
    BY <1>1, <1>5, <1>6 DEF LoopOK
  <1>10. PlansFit' /\ RowsFit'
    BY <1>1, <1>6 DEF PlansFit, RowsFit
  <1>11. EngineInv' /\ MemoryInv'
    BY <1>7, <1>8, <1>9, <1>10 DEF EngineInv, MemoryInv
  <1>12. ProposerOK'
    BY <1>1, <1>2, ProposerStands DEF sched, ProposerOK
  <1> QED BY <1>1, <1>8, <1>11, <1>12 DEF SpecInv, SpecPlaces

\* The rows that still decode are verified.
LEMMA SpecRowsReadyKeeps ==
    ASSUME SpecInv, SpecRowsReady
    PROVE  SpecInv' /\ LegalStep /\ YieldStep
  <1>1. /\ pc = "specCap" /\ pc' = (IF rows' = << >> THEN "group" ELSE "verify")
        /\ rows' = StillDecoding(rows)
        /\ UNCHANGED <<sched, todo, plans, drafts, proposals, depth, decoding, proposer>>
    BY DEF SpecRowsReady
  <1>2. RoundInv /\ ProposerOK
    BY <1>1 DEF SpecInv, SpecPlaces
  <1>3. /\ SchedulerOK /\ RequestsOK /\ Books /\ plans = << >> /\ ProposalsFresh
        /\ MemoryAgrees(mem, req, RoundGrants, {}) /\ GroupRows(rows)
    BY <1>1, <1>2 DEF RoundInv, SchedulerOK, RoundRows
  <1>4. RequestsIn(rows', "DECODING")
    BY <1>1, <1>3, StillDecodingRows DEF GroupRows
  <1>5. ToSet(rows') \subseteq ToSet(rows)
    <2> DEFINE T == {x \in Req : req[x].state = "DECODING"}
    <2>1. rows' = Keep(rows, T)
      BY <1>1 DEF StillDecoding
    <2> HIDE DEF T
    <2> QED BY <2>1, <1>3, KeepProperties DEF GroupRows
  <1>6. GroupRows(rows)' /\ RequestsIn(rows, "DECODING")'
    BY <1>1, <1>3, <1>4, <1>5 DEF GroupRows, RequestsIn, sched
  <1>7. RoundGrants' \subseteq RoundGrants
    BY <1>1, <1>5 DEF RoundGrants, sched
  <1>8. /\ SchedulerOK' /\ Books' /\ MemoryAgrees(mem, req, RoundGrants, {})'
        /\ LegalStep /\ YieldStep
    BY <1>1, <1>3, <1>7, RoundStands
  <1>9. pc' \in {"group", "verify"}
    BY <1>1
  <1>10. RoundRows' /\ RoundWrites'
    BY <1>9, <1>6 DEF RoundRows, RoundWrites
  <1>11. ProposalsFresh'
    <2>1. ASSUME NEW r \in Req, Unverified(r)' PROVE Unverified(r) /\ History(r)' = History(r)
      BY <1>1, <2>1 DEF Unverified, History, sched
    <2> QED BY <2>1, <1>1, <1>3, FreshStands
  <1>12. ProposerOK'
    BY <1>1, <1>2, ProposerStands DEF sched, ProposerOK
  <1>13. RoundInv'
    BY <1>1, <1>3, <1>8, <1>10, <1>11 DEF RoundInv
  <1>14. pc' \in SpecPlaces
    BY <1>9 DEF SpecPlaces
  <1> QED BY <1>8, <1>12, <1>13, <1>14 DEF SpecInv

\* The group is done.
LEMMA SpecCommittedKeeps ==
    ASSUME SpecInv, SpecCommitted
    PROVE  SpecInv' /\ LegalStep /\ YieldStep
  <1>1. /\ pc = "specCommit" /\ pc' = "group"
        /\ UNCHANGED <<sched, plans, drafts, proposals, depth, decoding, proposer>>
    BY DEF SpecCommitted
  <1>2. RoundInv /\ ProposerOK
    BY <1>1 DEF SpecInv, SpecPlaces
  <1>3. /\ SchedulerOK /\ Books /\ plans = << >> /\ ProposalsFresh
        /\ MemoryAgrees(mem, req, RoundGrants, {})
    BY <1>2 DEF RoundInv
  <1>4. RoundGrants' = {}
    BY <1>1 DEF RoundGrants
  <1>5. /\ SchedulerOK' /\ Books' /\ MemoryAgrees(mem, req, RoundGrants, {})'
        /\ LegalStep /\ YieldStep
    BY <1>1, <1>3, <1>4, RoundStands
  <1>6. RoundRows' /\ RoundWrites'
    BY <1>1 DEF RoundRows, RoundWrites
  <1>7. ProposalsFresh'
    <2>1. ASSUME NEW r \in Req, Unverified(r)' PROVE Unverified(r) /\ History(r)' = History(r)
      BY <1>1, <2>1 DEF Unverified, History, sched
    <2> QED BY <2>1, <1>1, <1>3, FreshStands
  <1>8. ProposerOK'
    BY <1>1, <1>2, ProposerStands DEF sched, ProposerOK
  <1>9. RoundInv'
    BY <1>1, <1>3, <1>5, <1>6, <1>7 DEF RoundInv
  <1> QED BY <1>1, <1>5, <1>8, <1>9 DEF SpecInv, SpecPlaces

-----------------------------------------------------------------------------
(* Capacity for a group. *)

\* The scheduler, the lists and the histories.
RoundTurn ==
    /\ SchedulerOK' /\ LegalStep /\ YieldStep
    /\ GroupRows(todo)' /\ GroupRows(rows)' /\ ToSet(rows') \cap ToSet(todo') = {}
    /\ \A r \in Req : History(r)' = History(r)

LEMMA SpecRowCapacityTurns ==
    ASSUME RoundInv, SpecRowCapacity
    PROVE  RoundTurn
  <1> DEFINE r == Head(todo)
  <1>1. /\ pc = "specCap" /\ pc' = pc /\ todo # << >> /\ UNCHANGED <<proposals, depth>>
        /\ GroupRows(todo) /\ GroupRows(rows) /\ ToSet(rows) \cap ToSet(todo) = {}
        /\ SchedulerOK
    BY DEF RoundInv, RoundRows, SpecRowCapacity
  <1>2. /\ r \in Req /\ r \in ToSet(todo) /\ Tail(todo) \in Seq(Req)
        /\ ToSet(todo) = ToSet(Tail(todo)) \cup {r} /\ r \notin ToSet(Tail(todo))
        /\ IsInjective(Tail(todo))
    BY <1>1, TailSet DEF GroupRows
  <1>3. \/ req[r].state = "DECODING" /\ AcquireTurn(r)
        \/ UNCHANGED <<req, waiting, active, order, epoch>>
    <2>1. CASE req[r].state = "DECODING"
      BY <2>1 DEF SpecRowCapacity, Acquire, AcquireTurn
    <2>2. CASE req[r].state # "DECODING"
      BY <2>2 DEF SpecRowCapacity, sched
    <2> QED BY <2>1, <2>2
  <1>4. \/ todo' = Tail(todo) /\ (rows' = rows \/ rows' = Append(rows, r))
        \/ todo' = todo /\ rows' = rows
    <2>1. CASE req[r].state = "DECODING"
      BY <2>1 DEF SpecRowCapacity, Acquire
    <2>2. CASE req[r].state # "DECODING"
      BY <2>2 DEF SpecRowCapacity
    <2> QED BY <2>1, <2>2
  <1>5. /\ SchedulerOK' /\ LegalStep /\ YieldStep
        /\ req' = req \/ \E v \in Created : Stays(v)
    <2>1. CASE req[r].state = "DECODING" /\ AcquireTurn(r)
      <3>1. r \in Live
        BY <2>1, <1>2 DEF Live, Created
      <3> QED BY <3>1, <2>1, <1>1, AcquireKeeps, AcquireStays
    <2>2. CASE UNCHANGED <<req, waiting, active, order, epoch>>
      BY <2>2, <1>1, StutterKeeps
    <2> QED BY <2>1, <2>2, <1>3
  <1>6. \A x \in Req : History(x)' = History(x)
    <2>1. CASE req' = req
      BY <2>1 DEF History
    <2>2. CASE \E v \in Created : Stays(v)
      <3>1. PICK v \in Created : Stays(v)
        BY <2>2
      <3>2. \A x \in Req : req'[x].kind = req[x].kind /\ req'[x].out = req[x].out
        BY <3>1 DEF Stays, Only
      <3> QED BY <3>2 DEF History
    <2> QED BY <2>1, <2>2, <1>5
  <1> HIDE DEF r
  <1>7. GroupRows(todo)' /\ GroupRows(rows)' /\ ToSet(rows') \cap ToSet(todo') = {}
    <2>1. CASE todo' = Tail(todo) /\ rows' = rows
      BY <2>1, <1>1, <1>2 DEF GroupRows
    <2>2. CASE todo' = Tail(todo) /\ rows' = Append(rows, r)
      <3>1. /\ rows' \in Seq(Req) /\ ToSet(rows') = ToSet(rows) \cup {r}
            /\ IsInjective(rows')
        BY <2>2, <1>1, <1>2, AppendSet DEF GroupRows
      <3> QED BY <3>1, <2>2, <1>1, <1>2 DEF GroupRows
    <2>3. CASE todo' = todo /\ rows' = rows
      BY <2>3, <1>1 DEF GroupRows
    <2> QED BY <2>1, <2>2, <2>3, <1>4
  <1> QED BY <1>5, <1>6, <1>7 DEF RoundTurn

\* The memory.
LEMMA SpecRowCapacityAgrees ==
    ASSUME RoundInv, ProposerOK, SpecRowCapacity
    PROVE  MemoryAgrees(mem, req, RoundGrants, {})' /\ Books' /\ plans' = << >>
  <1> DEFINE r == Head(todo)
             c == EnsureKV(mem, r, mem.len[r] + depth + 1)
             d == depth + 1
  <1>1. /\ SchedulerOK /\ RequestsOK /\ Books /\ plans = << >> /\ depth \in Nat
        /\ MemoryAgrees(mem, req, RoundGrants, {})
    BY DEF RoundInv, SchedulerOK, ProposerOK
  <1>2. /\ pc = "specCap" /\ pc' = pc /\ depth' = depth /\ todo # << >>
        /\ todo \in Seq(Req) /\ rows \in Seq(Req) /\ ToSet(rows) \cap ToSet(todo) = {}
    BY DEF RoundInv, RoundRows, GroupRows, SpecRowCapacity
  <1>3. r \in Req /\ r \in ToSet(todo) /\ r \notin ToSet(rows)
    BY <1>2, TailSet
  <1>4. /\ RoundGrants = {<<y, d>> : y \in {z \in ToSet(rows) : req[z].state = "DECODING"}}
        /\ RoundGrants' = {<<y, d>> : y \in {z \in ToSet(rows') : req'[z].state = "DECODING"}}
    BY <1>2 DEF RoundGrants
  <1>5. d \in Nat \ {0} /\ mem.len[r] + depth + 1 = mem.len[r] + d
    <2>1. mem \in Memory
      BY <1>1 DEF MemoryAgrees, MemoryOK, CacheOK
    <2>2. mem.len[r] \in Nat
      BY <2>1, <1>3, MemoryFields
    <2> QED BY <2>2, <1>1
  <1> HIDE DEF d
  <1>6. Pairs(RoundGrants) /\ Pairs({}) /\ \A g \in RoundGrants : g[1] # r
    <2>1. \A y \in ToSet(rows) : y \in Req
      BY <1>2, ToSetIndexed
    <2> QED BY <2>1, <1>3, <1>4, <1>5 DEF Pairs
  <1>7. CASE req[r].state # "DECODING"
    <2>1. UNCHANGED <<mem, req, rows, plans>>
      BY <1>7 DEF SpecRowCapacity, sched
    <2>2. RoundGrants' = RoundGrants
      BY <2>1, <1>4
    <2>3. Books'
      BY <2>1, <1>1 DEF Books, Created
    <2> QED BY <2>1, <2>2, <2>3, <1>1
  <1>8. CASE req[r].state = "DECODING"
    <2>1. r \in Live
      BY <1>8, <1>3 DEF Live, Created
    <2>2. c = EnsureKV(mem, r, mem.len[r] + d)
      BY <1>5
    <2>3. /\ Moves(mem, c.m, r, req, req)
          /\ c.ok => Ready(c.m, r, d)
      BY <2>1, <2>2, <1>1, <1>5, <1>8, GrowMoves
    <2> DEFINE v == NewestActive
    <2>4. v \in Live
      BY <2>1, <1>1, NewestIsNewest
    <2>5. \/ /\ c.ok /\ mem' = c.m /\ rows' = Append(rows, r) /\ plans' = plans /\ req' = req
          \/ /\ GivesWay(c.m, v) /\ rows' = rows /\ plans' = plans
      BY <1>8 DEF SpecRowCapacity, Acquire, GivesWay
    <2> HIDE DEF c, v, r
    <2>6. CASE c.ok /\ mem' = c.m /\ rows' = Append(rows, r) /\ plans' = plans /\ req' = req
      <3>1. ToSet(rows') = ToSet(rows) \cup {r}
        BY <2>6, <1>2, <1>3, AppendSet
      <3>2. GrantsMove(RoundGrants, RoundGrants', c.m, r)
        <4>1. ASSUME NEW g \in RoundGrants'
              PROVE  (g \in RoundGrants /\ g[1] # r) \/ Ready(c.m, g[1], g[2])
          <5>1. PICK y \in ToSet(rows') : g = <<y, d>> /\ req[y].state = "DECODING"
            BY <2>6, <1>4
          <5>2. CASE y = r
            BY <5>1, <5>2, <2>3, <2>6
          <5>3. CASE y # r
            BY <5>1, <5>3, <3>1, <1>4
          <5> QED BY <5>2, <5>3
        <4> QED BY <4>1 DEF GrantsMove
      <3>3. WritesMove({}, {}, c.m, r, req)
        BY DEF WritesMove
      <3>4. MemoryAgrees(c.m, req, RoundGrants', {})
        BY <3>2, <3>3, <2>3, <1>1, <1>3, <1>6, OneMoves
      <3>5. MemoryAgrees(mem, req, RoundGrants, {})'
        BY <3>4, <2>6
      <3>6. Books'
        BY <2>6, <1>1 DEF Books, Created
      <3> QED BY <3>5, <3>6, <2>6, <1>1
    <2>7. CASE GivesWay(c.m, v) /\ rows' = rows /\ plans' = plans
      <3>1. /\ mem' = Drop(c.m, v) /\ Only(v) /\ RequestBooks(req'[v])
            /\ req'[v].state \in {"WAITING", "FAILED"} /\ req'[v].state \notin Running
        BY <2>4, <2>7, <1>1, GivesWayBooks DEF Running
      <3>2. ASSUME NEW g \in RoundGrants' PROVE g \in RoundGrants /\ g[1] # v
        <4>1. PICK y \in ToSet(rows) : g = <<y, d>> /\ req'[y].state = "DECODING"
          BY <2>7, <1>4
        <4>2. y \in Req /\ y # v
          BY <4>1, <3>1, <1>2, ToSetIndexed
        <4> QED BY <4>1, <4>2, <3>1, <1>4 DEF Only
      <3>3. MemoryAgrees(mem', req', RoundGrants', {})
        BY <3>1, <3>2, <2>1, <2>3, <2>4, <1>1, <1>6, YieldAgrees
      <3>4. v \in Created /\ Created' = Created
        BY <3>1, <2>4 DEF Live, Created, Only
      <3>5. Books'
        BY <3>1, <3>4, <1>1, BooksStand
      <3> QED BY <3>3, <3>5, <2>7, <1>1
    <2> QED BY <2>5, <2>6, <2>7
  <1> QED BY <1>7, <1>8

LEMMA SpecRowCapacityKeeps ==
    ASSUME SpecInv, SpecRowCapacity, ForgetDrafts
    PROVE  SpecInv' /\ LegalStep /\ YieldStep
  <1>1. pc = "specCap" /\ pc' = pc /\ UNCHANGED <<proposals, depth, decoding, proposer>>
    BY DEF SpecRowCapacity
  <1>2. RoundInv /\ ProposerOK
    BY <1>1 DEF SpecInv, SpecPlaces
  <1>3. RoundTurn
    BY <1>2, SpecRowCapacityTurns
  <1>4. MemoryAgrees(mem, req, RoundGrants, {})' /\ Books' /\ plans' = << >>
    BY <1>2, SpecRowCapacityAgrees
  <1>5. RoundRows' /\ RoundWrites'
    BY <1>1, <1>3 DEF RoundTurn, RoundRows, RoundWrites
  <1>6. ProposalsFresh'
    <2>1. ASSUME NEW r \in Req, Unverified(r)' PROVE Unverified(r) /\ History(r)' = History(r)
      BY <1>1, <1>3, <2>1 DEF Unverified, RoundTurn
    <2> QED BY <2>1, <1>1, <1>2, FreshStands DEF RoundInv
  <1>7. ProposerOK'
    BY <1>1, <1>2, <1>3, ForgetKeeps DEF RoundTurn
  <1>8. RoundInv'
    BY <1>3, <1>4, <1>5, <1>6 DEF RoundInv, RoundTurn
  <1> QED BY <1>1, <1>3, <1>7, <1>8 DEF SpecInv, SpecPlaces, RoundTurn

-----------------------------------------------------------------------------
(* Verification. *)

\* A decoding request has computed everything but its pending token.
LEMMA DecodingFacts ==
    ASSUME RequestsOK, Books, NEW G, NEW W, MemoryAgrees(mem, req, G, W), NEW r \in Req,
           req[r].state = "DECODING"
    PROVE  LET s == Story(req[r])
           IN  /\ r \in Live /\ s \in Seq(Token) /\ mem.len[r] \in Nat /\ mem.len[r] + 1 = Len(s)
               /\ req[r].next \in Token /\ s[Len(s)] = req[r].next
  <1> DEFINE q == req[r]
             o == q.out
             p == q.kind.prompt
             s == Story(q)
             a == q.next
             n == mem.len[r]
  <1>1. r \in Live
    BY DEF Live, Created
  <1>2. /\ RequestBooks(q) /\ s = p \o o /\ s \in Seq(Token)
        /\ Len(s) = Len(p) + Len(o) /\ Len(p) \in Nat \ {0} /\ o \in Seq(Token) /\ p \in Seq(Token)
    BY <1>1, RunningFacts
  <1>3. n = Len(p) + Len(o) - 1
    BY DEF MemoryAgrees, PagesOf
  <1>4. o # << >> /\ a = Last(o)
    BY <1>2 DEF RequestBooks, PhaseOK
  <1> HIDE DEF o, p, s, a, n, q
  <1>5. Len(o) \in Nat \ {0} /\ a = o[Len(o)] /\ a \in Token
    BY <1>2, <1>4, FrontFacts
  <1>6. n \in Nat /\ n + 1 = Len(s)
    BY <1>2, <1>3, <1>5
  <1>7. s[Len(s)] = a
    <2>1. (p \o o)[Len(p) + Len(o)] = o[Len(o)]
      BY <1>2, <1>5
    <2> QED BY <2>1, <1>2, <1>5
  <1> QED BY <1>1, <1>2, <1>5, <1>6, <1>7 DEF s, a, n, q

\* The pending token and the proposal d go on from what r has computed.
LEMMA SpecRowWork ==
    ASSUME RequestsOK, Books, NEW G, NEW W, MemoryAgrees(mem, req, G, W), NEW r \in Req,
           req[r].state = "DECODING", NEW d \in Seq(Token), Ready(mem, r, Len(d) + 1),
           NEW t, t[r] = Story(req[r]) \o d,
           NEW ts, ts = <<req[r].next>> \o d
    PROVE  RowOK(mem, t, [r |-> r, from |-> mem.len[r], toks |-> ts]) /\ Len(ts) = Len(d) + 1
  <1> DEFINE n == mem.len[r]
             s == Story(req[r])
             a == req[r].next
             u == s \o d
  <1>1. /\ s \in Seq(Token) /\ n \in Nat /\ n + 1 = Len(s) /\ a \in Token /\ s[Len(s)] = a
    BY DecodingFacts
  <1> HIDE DEF n, s, a
  <1>2. /\ u \in Seq(Token) /\ Len(u) = Len(s) + Len(d) /\ Len(d) \in Nat
        /\ \A i \in 1 .. Len(s) : u[i] = s[i]
        /\ \A i \in 1 .. Len(d) : u[Len(s) + i] = d[i]
    BY <1>1, JoinFacts
  <1>3. /\ ts \in Seq(Token) /\ Len(ts) = Len(d) + 1 /\ ts[1] = a
        /\ \A i \in 2 .. Len(ts) : ts[i] = d[i - 1]
    BY <1>1 DEF a
  <1> HIDE DEF u
  <1>4. ASSUME NEW i \in 1 .. Len(ts) PROVE u[n + i] = ts[i]
    <2>1. CASE i = 1
      <3>1. u[Len(s)] = s[Len(s)]
        BY <1>1, <1>2
      <3> QED BY <3>1, <2>1, <1>1, <1>3
    <2>2. CASE i # 1
      <3>1. i - 1 \in 1 .. Len(d) /\ i \in 2 .. Len(ts) /\ n + i = Len(s) + (i - 1)
        <4>1. PICK k : k = Len(d)
          OBVIOUS
        <4>2. PICK l : l = Len(s)
          OBVIOUS
        <4>3. k \in Nat /\ i \in 1 .. k + 1 /\ n \in Nat /\ l = n + 1
          BY <4>1, <4>2, <1>1, <1>2, <1>3
        <4>4. i - 1 \in 1 .. k /\ i \in 2 .. k + 1 /\ n + i = l + (i - 1)
          BY <4>3, <2>2
        <4> QED BY <4>1, <4>2, <4>4, <1>3
      <3>2. u[Len(s) + (i - 1)] = d[i - 1]
        BY <3>1, <1>2
      <3> QED BY <3>1, <3>2, <1>3
    <2> QED BY <2>1, <2>2
  <1>5. n + Len(ts) <= Len(u)
    BY <1>1, <1>2, <1>3
  <1>6. Continues(u, u, n, ts)
    BY <1>4, <1>5 DEF Continues
  <1>7. ts # << >>
    BY <1>2, <1>3
  <1>8. Ready(mem, r, Len(ts))
    BY <1>3
  <1>9. t[r] = u
    BY DEF u, s
  <1> QED BY <1>3, <1>6, <1>7, <1>8, <1>9 DEF RowOK, n

\* What is committed reads the same when every sequence is told further.
LEMMA Retold ==
    ASSUME NEW m, NEW t, MemoryOK(m, t), NEW u,
           \A r \in Req : /\ m.len[r] <= Len(u[r])
                          /\ \A q \in 1 .. m.len[r] : Prefix(u[r], q) = Prefix(t[r], q)
    PROVE  MemoryOK(m, u)
  <1>1. ASSUME NEW r \in Req PROVE RequestOK(m, r, u[r])
    <2>1. RequestOK(m, r, t[r])
      BY DEF MemoryOK
    <2>2. Reads(m, r, u[r], m.len[r])
      BY <2>1 DEF RequestOK, Reads
    <2> QED BY <2>1, <2>2 DEF RequestOK
  <1> QED BY <1>1 DEF MemoryOK

\* The sequences that verification is about: each row's story and its proposal.
Told == [r \in Req |-> IF r \in ToSet(rows) THEN Story(req[r]) \o proposals[r] ELSE Story(req[r])]

LEMMA ToldFacts ==
    ASSUME RequestsOK, Books, ProposerOK, NEW G, NEW W, MemoryAgrees(mem, req, G, W)
    PROVE  /\ Told \in [Req -> Seq(Token)]
           /\ \A r \in Req : mem.len[r] \in Nat /\ mem.len[r] <= Len(Story(req[r]))
           /\ \A r \in Req : /\ mem.len[r] <= Len(Told[r])
                             /\ \A q \in 1 .. mem.len[r] : Prefix(Told[r], q) = Prefix(Story(req[r]), q)
  <1>1. MemoryOK(mem, StoriesOf(req)) /\ mem \in Memory
    BY DEF MemoryAgrees, MemoryOK, CacheOK
  <1>2. ASSUME NEW r \in Req
        PROVE  /\ Told[r] \in Seq(Token)
               /\ mem.len[r] \in Nat /\ mem.len[r] <= Len(Story(req[r]))
               /\ mem.len[r] <= Len(Told[r])
               /\ \A q \in 1 .. mem.len[r] : Prefix(Told[r], q) = Prefix(Story(req[r]), q)
    <2> DEFINE s == Story(req[r])
               d == proposals[r]
               n == mem.len[r]
    <2>1. s \in Seq(Token) /\ d \in Seq(Token) /\ StoriesOf(req)[r] = s
      BY StoriesTyped DEF Books, ProposerOK
    <2>2. n \in Nat /\ n <= Len(s)
      BY <1>1, <2>1, MemoryFields DEF MemoryOK, RequestOK
    <2>3. Told[r] = s \/ Told[r] = s \o d
      BY DEF Told
    <2> HIDE DEF s, d, n
    <2>4. /\ s \o d \in Seq(Token) /\ Len(s) <= Len(s \o d) /\ Len(s) \in Nat
          /\ \A i \in 1 .. Len(s) : (s \o d)[i] = s[i]
      BY <2>1, JoinFacts
    <2>5. PICK u \in Seq(Token) : u = s \o d
      BY <2>4
    <2>6. \A q \in 1 .. n : Prefix(u, q) = Prefix(s, q)
      <3>1. PICK l : l = Len(s)
        OBVIOUS
      <3>2. l \in Nat /\ n \in Nat /\ n <= l /\ l <= Len(u) /\ Len(u) \in Nat
        BY <3>1, <2>2, <2>4, <2>5
      <3>3. n <= Len(u) /\ \A i \in 1 .. n : i \in 1 .. l
        BY <3>2
      <3>4. \A i \in 1 .. n : u[i] = s[i]
        BY <3>1, <3>3, <2>4, <2>5
      <3> QED BY <3>3, <3>4, <2>1, <2>2, <2>5, SamePrefixes
    <2>7. n <= Len(s \o d)
      BY <2>2, <2>4, <2>5
    <2> QED BY <2>1, <2>2, <2>3, <2>4, <2>5, <2>6, <2>7 DEF s, n
  <1>3. Told \in [Req -> Seq(Token)]
    BY <1>2 DEF Told
  <1> QED BY <1>2, <1>3

\* The rows of VerifyWork, as members of a pass.
LEMMA VerifyRows ==
    ASSUME RoundInv, ProposerOK, pc = "verify"
    PROVE  /\ WorkOK(mem, Told, VerifyWork) /\ Len(VerifyWork) = Len(rows)
           /\ \A i \in 1 .. Len(rows) :
                 VerifyWork[i].r = rows[i] /\ Len(VerifyWork[i].toks) = depth + 1
  <1>1. /\ RequestsOK /\ Books /\ MemoryAgrees(mem, req, RoundGrants, {})
        /\ GroupRows(rows) /\ RequestsIn(rows, "DECODING")
    BY DEF RoundInv, SchedulerOK, RoundRows
  <1>2. /\ rows \in Seq(Req) /\ Len(rows) \in Nat
        /\ \A i, j \in 1 .. Len(rows) : rows[i] = rows[j] => i = j
        /\ \A i \in 1 .. Len(rows) : rows[i] \in ToSet(rows) /\ rows[i] \in Req
                                     /\ req[rows[i]].state = "DECODING"
                                     /\ Len(proposals[rows[i]]) = depth
    <2>1. /\ rows \in Seq(Req) /\ IsInjective(rows)
          /\ \A r \in ToSet(rows) : req[r].state = "DECODING" /\ Len(proposals[r]) = depth
      BY <1>1 DEF RequestsIn, GroupRows
    <2>2. /\ \A x : x \in ToSet(rows) <=> \E i \in 1 .. Len(rows) : rows[i] = x
          /\ \A i, j \in 1 .. Len(rows) : rows[i] = rows[j] => i = j
          /\ Len(rows) \in Nat
      BY <2>1, ToSetIndexed
    <2>3. \A i \in 1 .. Len(rows) : rows[i] \in ToSet(rows) /\ rows[i] \in Req
      BY <2>1, <2>2
    <2> QED BY <2>1, <2>2, <2>3
  <1>3. Len(VerifyWork) = Len(rows)
    BY <1>2 DEF VerifyWork
  <1>4. ASSUME NEW i \in 1 .. Len(rows)
        PROVE  /\ RowOK(mem, Told, VerifyWork[i])
               /\ VerifyWork[i].r = rows[i] /\ Len(VerifyWork[i].toks) = depth + 1
    <2> DEFINE r == rows[i]
               d == proposals[r]
               ts == <<req[r].next>> \o d
    <2>1. r \in ToSet(rows) /\ r \in Req /\ req[r].state = "DECODING" /\ Len(d) = depth
      BY <1>2
    <2>2. VerifyWork[i] = [r |-> r, from |-> mem.len[r], toks |-> ts]
      BY <1>2 DEF VerifyWork
    <2>3. d \in Seq(Token)
      BY <2>1 DEF ProposerOK
    <2>4. Told[r] = Story(req[r]) \o d
      BY <2>1 DEF Told
    <2> HIDE DEF r, d
    <2>5. Ready(mem, r, depth + 1)
      <3>1. <<r, depth + 1>> \in RoundGrants
        BY <2>1 DEF RoundGrants
      <3>2. Ready(mem, <<r, depth + 1>>[1], <<r, depth + 1>>[2])
        BY <3>1, <1>1 DEF MemoryAgrees
      <3> QED BY <3>2
    <2>6. Ready(mem, r, Len(d) + 1)
      BY <2>1, <2>5
    <2> HIDE DEF ts
    <2>7. RowOK(mem, Told, [r |-> r, from |-> mem.len[r], toks |-> ts]) /\ Len(ts) = Len(d) + 1
      BY <2>1, <2>3, <2>4, <2>6, <1>1, SpecRowWork DEF ts
    <2> QED BY <2>1, <2>2, <2>7 DEF r
  <1>5. WorkOK(mem, Told, VerifyWork)
    BY <1>2, <1>3, <1>4 DEF WorkOK
  <1> QED BY <1>3, <1>4, <1>5

\* _verify_forward: the rows wait for their commit.
LEMMA VerifyKeeps ==
    ASSUME SpecInv, Verify
    PROVE  SpecInv' /\ LegalStep /\ YieldStep
  <1>1. /\ pc = "verify" /\ pc' = "specCommit" /\ mem' = ForwardAll(mem, VerifyWork) /\ todo' = rows
        /\ UNCHANGED <<req, waiting, active, order, epoch, rows, plans,
                       drafts, proposals, depth, decoding, proposer>>
    BY DEF Verify
  <1>2. RoundInv /\ ProposerOK
    BY <1>1 DEF SpecInv, SpecPlaces
  <1>3. /\ SchedulerOK /\ RequestsOK /\ Books /\ plans = << >> /\ ProposalsFresh
        /\ MemoryAgrees(mem, req, RoundGrants, {})
        /\ GroupRows(rows) /\ RequestsIn(rows, "DECODING")
    BY <1>1, <1>2 DEF RoundInv, SchedulerOK, RoundRows
  <1>4. /\ Told \in [Req -> Seq(Token)]
        /\ \A r \in Req : mem.len[r] \in Nat /\ mem.len[r] <= Len(Story(req[r]))
        /\ \A r \in Req : /\ mem.len[r] <= Len(Told[r])
                          /\ \A q \in 1 .. mem.len[r] : Prefix(Told[r], q) = Prefix(Story(req[r]), q)
    BY <1>2, <1>3, ToldFacts
  <1>5. /\ WorkOK(mem, Told, VerifyWork) /\ Len(VerifyWork) = Len(rows)
        /\ \A i \in 1 .. Len(rows) :
              VerifyWork[i].r = rows[i] /\ Len(VerifyWork[i].toks) = depth + 1
    BY <1>1, <1>2, VerifyRows
  <1>6. MemoryOK(mem, StoriesOf(req)) /\ PredsRight(mem)
    BY <1>3 DEF MemoryAgrees
  <1>7. \A r \in Req : StoriesOf(req)[r] = Story(req[r])
    BY DEF StoriesOf
  <1>8. MemoryOK(mem, Told)
    BY <1>4, <1>6, <1>7, Retold
  <1>9. Forwarded(mem, mem', Told, VerifyWork, Len(rows))
    BY <1>1, <1>4, <1>5, <1>8, ForwardAllStores
  <1>10. MemoryOK(mem', Told) /\ mem'.pool = mem.pool /\ mem'.len = mem.len /\ mem'.pred = mem.pred
    BY <1>9 DEF Forwarded
  <1>11. MemoryOK(mem', StoriesOf(req))
    <2>1. PICK t : t = StoriesOf(req)
      OBVIOUS
    <2>2. PICK m : m = mem'
      OBVIOUS
    <2>3. ASSUME NEW r \in Req
          PROVE  /\ m.len[r] <= Len(t[r])
                 /\ \A q \in 1 .. m.len[r] : Prefix(t[r], q) = Prefix(Told[r], q)
      BY <2>1, <2>2, <1>4, <1>7, <1>10
    <2>4. MemoryOK(m, Told)
      BY <2>2, <1>10
    <2>5. MemoryOK(m, t)
      BY <2>3, <2>4, Retold
    <2> QED BY <2>1, <2>2, <2>5
  <1>12. PredsRight(mem')
    BY <1>6, <1>10 DEF PredsRight, Present
  <1>13. \A r \in Req : PagesOf(mem', r, req[r])
    BY <1>3, <1>10 DEF MemoryAgrees, PagesOf
  <1>14. RoundGrants' = {}
    BY <1>1 DEF RoundGrants
  <1>15. MemoryAgrees(mem, req, RoundGrants, {})'
    BY <1>1, <1>11, <1>12, <1>13, <1>14 DEF MemoryAgrees
  <1>16. ASSUME NEW r \in ToSet(rows)
         PROVE  Covers(mem', r, depth + 1, Story(req[r]) \o proposals[r])
    <2>1. PICK i \in 1 .. Len(rows) : rows[i] = r
      BY <1>3, ToSetIndexed DEF GroupRows
    <2>2. Covers(mem', VerifyWork[i].r, Len(VerifyWork[i].toks), Told[VerifyWork[i].r])
      BY <1>9 DEF Forwarded
    <2>3. r \in Req
      BY <1>3, <2>1 DEF GroupRows
    <2>4. Told[r] = Story(req[r]) \o proposals[r]
      BY <2>3 DEF Told
    <2> QED BY <2>1, <2>2, <2>4, <1>5
  <1>17. RoundWrites'
    BY <1>1, <1>16 DEF RoundWrites
  <1>18. RoundRows'
    BY <1>1, <1>3 DEF RoundRows, GroupRows, RequestsIn
  <1>19. SchedulerOK' /\ LegalStep /\ YieldStep
    BY <1>1, <1>3, StutterKeeps
  <1>20. Books'
    BY <1>1, <1>3 DEF Books, Created
  <1>21. ProposalsFresh'
    <2>1. ASSUME NEW r \in Req, Unverified(r)' PROVE Unverified(r) /\ History(r)' = History(r)
      BY <1>1, <2>1 DEF Unverified, History
    <2> QED BY <2>1, <1>1, <1>3, FreshStands
  <1>22. ProposerOK'
    BY <1>1, <1>2, ProposerStands DEF ProposerOK
  <1>23. RoundInv'
    BY <1>1, <1>3, <1>15, <1>17, <1>18, <1>19, <1>20, <1>21 DEF RoundInv
  <1> QED BY <1>1, <1>19, <1>22, <1>23 DEF SpecInv, SpecPlaces

-----------------------------------------------------------------------------
(* The commit of a verified row. *)

\* The model's token for r after the pending input and k proposals.
LEMMA PredictionFacts ==
    ASSUME ModelTyped, NEW t, MemoryOK(mem, t), NEW r \in Req, NEW u \in Seq(Token), NEW c \in Nat,
           Covers(mem, r, c, u), NEW k \in Nat, k < c
    PROVE  Prediction(r, k) \in Token /\ Prediction(r, k) = Model(Prefix(u, mem.len[r] + 1 + k))
  <1> DEFINE n == mem.len[r] + 1 + k
  <1>1. mem \in Memory /\ r \in PageOwner /\ mem.len[r] \in Nat
    <2>1. mem \in Memory
      BY DEF MemoryOK, CacheOK
    <2> QED BY <2>1, MemoryFields DEF PageOwner
  <1>2. mem.len[r] + c <= Len(u) /\ Reads(mem, r, u, mem.len[r] + c) /\ Len(u) \in Nat
    BY LenProperties DEF Covers
  <1>3. mem.len[r] + c \in 0 .. Len(u) /\ n \in 1 .. mem.len[r] + c
    BY <1>1, <1>2
  <1>4. Reads(mem, r, u, n)
    <2>1. Len(mem.pool.owns[r]) \in Nat
      <3>1. mem.pool.owns[r] \in Seq(Block)
        BY <1>1, MemoryFields
      <3> QED BY <3>1, LenProperties
    <2>2. mem.len[r] + c \in Nat /\ n \in 0 .. mem.len[r] + c
      BY <1>3
    <2> QED BY <2>1, <2>2, <1>2, ReadsPrefix
  <1>5. Context(mem, r, n) = Prefix(u, n)
    <2>1. n \in 0 .. Len(u)
      BY <1>3
    <2> QED BY <2>1, <1>1, <1>4, ReadsContext DEF ReadsBack
  <1>6. Prefix(u, n) \in Seq(Token)
    BY <1>2, <1>3 DEF Prefix
  <1>7. Model(Prefix(u, n)) \in Token
    BY <1>6 DEF ModelTyped
  <1> QED BY <1>5, <1>7 DEF Prediction

\* p is a round of r: tokens of the model, behind inputs whose keys and values are stored.
Emits(r, p) ==
    LET q == req[r]
        e == p.emitted
        v == Story(q) \o e
    IN  /\ Extends(q, e) /\ p.cached = Len(e) /\ Len(e) \in Nat \ {0}
        /\ ReasonOf(q.kind, q.out \o e) = p.reason
        /\ v \in Seq(Token) /\ Len(v) = mem.len[r] + Len(e) + 1
        /\ Covers(mem, r, Len(e), v)
        /\ \A x \in 1 .. mem.len[r] : Prefix(v, x) = Prefix(Story(q), x)

LEMMA SpecEmits ==
    ASSUME ModelTyped, RoundInv, ProposerOK, pc = "specCommit", todo # << >>,
           NEW r, r = Head(todo),
           NEW p, p = Plan(proposals[r], [k \in 1 .. depth |-> Prediction(r, k - 1)],
                           Prediction(r, depth), req[r].kind.maxNew - Len(req[r].out),
                           EosIds, req[r].kind.stop, req[r].kind.ignoreEos)
    PROVE  Emits(r, p)
  <1> DEFINE q == req[r]
             s == Story(q)
             d == proposals[r]
             n == mem.len[r]
             f == [k \in 1 .. depth |-> Prediction(r, k - 1)]
             b == Prediction(r, depth)
             left == q.kind.maxNew - Len(q.out)
             e == p.emitted
  <1>1. /\ RequestsOK /\ Books /\ MemoryAgrees(mem, req, RoundGrants, {})
        /\ GroupRows(todo) /\ RequestsIn(todo, "DECODING") /\ RoundWrites /\ depth \in Nat
    BY DEF RoundInv, SchedulerOK, RoundRows, ProposerOK
  <1>2. /\ r \in Req /\ r \in ToSet(todo) /\ q.state = "DECODING" /\ Len(d) = depth
        /\ d \in Seq(Token) /\ Covers(mem, r, depth + 1, s \o d)
    <2>1. r \in Req /\ r \in ToSet(todo)
      BY <1>1, TailSet DEF GroupRows
    <2> QED BY <2>1, <1>1 DEF GroupRows, RequestsIn, RoundWrites, ProposerOK
  <1>3. r \in Live /\ s \in Seq(Token) /\ n \in Nat /\ n + 1 = Len(s)
    BY <1>1, <1>2, DecodingFacts
  <1>4. /\ RequestBooks(q) /\ s = q.kind.prompt \o q.out /\ q.out \in Seq(Token)
        /\ q.kind.maxNew \in Nat /\ Len(q.out) \in Nat /\ q.state \notin Terminal
    BY <1>1, <1>3, RunningFacts, KindFacts
  <1>5. left \in Nat \ {0}
    <2>1. q.out # << >> /\ ReasonOf(q.kind, q.out) = "none"
      BY <1>2, <1>4 DEF RequestBooks, PhaseOK, OutputOK
    <2>2. PICK a : a = q.kind.maxNew
      OBVIOUS
    <2>3. PICK c : c = Len(q.out)
      OBVIOUS
    <2>4. ~(c >= a)
      BY <2>1, <2>2, <2>3 DEF ReasonOf
    <2>5. a \in Nat /\ c \in Nat
      <3>1. q.kind.maxNew \in Nat /\ Len(q.out) \in Nat
        BY <1>4
      <3> QED BY <3>1, <2>2, <2>3
    <2>6. a - c \in Nat \ {0}
      BY <2>4, <2>5
    <2> QED BY <2>2, <2>3, <2>6
  <1>6. MemoryOK(mem, StoriesOf(req)) /\ mem \in Memory
    BY <1>1 DEF MemoryAgrees, MemoryOK, CacheOK
  <1> HIDE DEF s, d
  <1>7. s \o d \in Seq(Token) /\ Len(s \o d) = Len(s) + Len(d)
    BY <1>2, <1>3, JoinFacts
  <1>8. ASSUME NEW k \in 0 .. depth
        PROVE  Prediction(r, k) \in Token /\ Prediction(r, k) = Model(Prefix(s \o d, n + 1 + k))
    <2>1. depth + 1 \in Nat /\ k \in Nat /\ k < depth + 1
      BY <1>1
    <2> QED BY <2>1, <1>2, <1>6, <1>7, PredictionFacts
  <1>9. f \in Seq(Token) /\ Len(f) = Len(d) /\ b \in Token /\ \A i \in 1 .. depth : f[i] = Prediction(r, i - 1)
    <2>1. \A i \in 1 .. depth : Prediction(r, i - 1) \in Token
      <3>1. \A i \in 1 .. depth : i - 1 \in 0 .. depth
        BY <1>1
      <3> QED BY <3>1, <1>8
    <2>2. depth \in 0 .. depth
      BY <1>1
    <2>3. f \in [1 .. depth -> Token]
      BY <2>1
    <2>4. f \in Seq(Token) /\ Len(f) = depth
      BY <2>3, <1>1
    <2> QED BY <2>2, <2>4, <1>2, <1>8
  <1> HIDE DEF f, b, left, n
  <1>10. e \in Seq(Token) /\ RoundCommits(p, e, d, f, b, left, EosIds, q.kind.stop, q.kind.ignoreEos)
    <2>1. p = Plan(d, f, b, left, EosIds, q.kind.stop, q.kind.ignoreEos)
      BY DEF d, f, b, left
    <2> QED BY <2>1, <1>2, <1>5, <1>9, PlanFacts
  <1> HIDE DEF e
  <1>11. /\ Len(e) \in 1 .. Len(d) + 1 /\ p.cached = Len(e)
         /\ \A i \in 1 .. Len(e) - 1 : e[i] = d[i]
         /\ \A i \in 1 .. Len(e) : /\ i <= Len(d) => e[i] = f[i]
                                   /\ i > Len(d) => e[i] = b
    BY <1>10 DEF RoundCommits
  <1>12. ASSUME NEW i \in 1 .. Len(e) PROVE e[i] = Model(s \o SubSeq(e, 1, i - 1))
    <2>1. i \in Nat /\ i <= depth + 1 /\ i - 1 \in 0 .. depth /\ Len(e) \in Nat
      BY <1>1, <1>2, <1>11, SMTT(30)
    <2>2. e[i] = Prediction(r, i - 1)
      <3>1. CASE i <= depth
        <4>1. i \in 1 .. depth
          BY <3>1, <2>1, <1>1
        <4> QED BY <4>1, <3>1, <1>2, <1>9, <1>11
      <3>2. CASE ~(i <= depth)
        <4>1. i = depth + 1 /\ i > depth /\ i - 1 = depth
          BY <3>2, <2>1, <1>1
        <4> QED BY <4>1, <1>2, <1>11 DEF b
      <3> QED BY <3>1, <3>2
    <2>3. Prediction(r, i - 1) = Model(Prefix(s \o d, n + 1 + (i - 1)))
      BY <2>1, <1>8 DEF n
    <2>4. PICK j : j = i - 1
      OBVIOUS
    <2>5. j \in Nat /\ j <= Len(d) /\ j <= Len(e) /\ \A x \in 1 .. j : x \in 1 .. Len(e) - 1
      BY <2>1, <2>4, <1>2, <1>1
    <2>6. Prefix(s \o d, Len(s) + j) = s \o SubSeq(e, 1, j)
      <3>1. \A x \in 1 .. j : e[x] = d[x]
        BY <2>5, <1>11
      <3>2. s \in Seq(Token) /\ d \in Seq(Token) /\ e \in Seq(Token)
        BY <1>2, <1>3, <1>10
      <3> QED BY <3>1, <3>2, <2>5, SharedStart
    <2> QED BY <2>2, <2>3, <2>4, <2>6, <1>3 DEF n
  <1>13. e # << >>
    BY <1>11
  <1>14. /\ \A i \in 1 .. Len(e) - 1 : ReasonOf(q.kind, q.out \o SubSeq(e, 1, i)) = "none"
         /\ ReasonOf(q.kind, q.out \o e) = p.reason
    <2>1. PICK k : k = q.kind
      OBVIOUS
    <2>2. PICK o : o = q.out
      OBVIOUS
    <2>3. k.maxNew \in Nat /\ o \in Seq(Token) /\ left = k.maxNew - Len(o)
      BY <2>1, <2>2, <1>4 DEF left
    <2>4. RoundCommits(p, e, d, f, b, left, EosIds, k.stop, k.ignoreEos) /\ e \in Seq(Token)
      BY <2>1, <1>10
    <2>5. ReasonsAgree(k, o, e, p)
      BY <2>3, <2>4, <1>13, RoundReasons, Zenon
    <2> QED BY <2>1, <2>2, <2>5 DEF ReasonsAgree
  <1>15. Extends(q, e)
    BY <1>4, <1>10, <1>12, <1>13, <1>14 DEF Extends
  <1>16. /\ \A x \in 1 .. n + Len(e) : Prefix(s \o e, x) = Prefix(s \o d, x)
         /\ \A x \in 1 .. n : Prefix(s \o e, x) = Prefix(s, x)
         /\ Len(s \o e) = n + Len(e) + 1 /\ s \o e \in Seq(Token) /\ Len(e) \in Nat \ {0}
    <2>1. Len(e) <= Len(d) + 1 /\ n \in Nat /\ n + 1 = Len(s)
      BY <1>2, <1>3, <1>11, SMTT(30) DEF n
    <2> QED BY <2>1, <1>2, <1>3, <1>10, <1>11, <1>13, SharedPrefixes
  <1>17. Covers(mem, r, Len(e), s \o e)
    <2>1. Reads(mem, r, s \o d, n + (depth + 1))
      BY <1>2 DEF Covers, n
    <2>2. n + Len(e) \in 0 .. n + (depth + 1) /\ n + (depth + 1) \in Nat
      <3>1. PICK l : l = Len(e)
        OBVIOUS
      <3>2. PICK k : k = depth
        OBVIOUS
      <3>3. PICK c : c = n
        OBVIOUS
      <3>4. k \in Nat /\ l \in 1 .. k + 1
        <4>1. Len(e) \in 1 .. Len(d) + 1 /\ Len(d) = depth /\ depth \in Nat
          BY <1>1, <1>2, <1>11
        <4> QED BY <4>1, <3>1, <3>2
      <3>5. c \in Nat
        BY <3>3, <1>3 DEF n
      <3>6. c + l \in 0 .. c + (k + 1) /\ c + (k + 1) \in Nat
        BY <3>4, <3>5
      <3> QED BY <3>1, <3>2, <3>3, <3>6
    <2>3. Len(mem.pool.owns[r]) \in Nat
      <3>1. mem.pool.owns[r] \in Seq(Block)
        BY <1>2, <1>6, MemoryFields DEF PageOwner
      <3> QED BY <3>1, LenProperties
    <2>4. Reads(mem, r, s \o e, n + Len(e))
      BY <2>1, <2>2, <2>3, <1>16, ReadsPrefix
    <2>5. n + Len(e) <= Len(s \o e)
      <3>1. \A a \in Nat, c \in Nat : a + c <= a + c + 1
        OBVIOUS
      <3>2. n \in Nat /\ Len(e) \in Nat /\ Len(s \o e) = n + Len(e) + 1
        BY <1>3, <1>16 DEF n
      <3> QED BY <3>1, <3>2
    <2> QED BY <2>4, <2>5 DEF Covers, n
  <1> QED BY <1>11, <1>14, <1>15, <1>16, <1>17, Zenon DEF Emits, e, s, n

\* u is q with the tokens e behind its output.
TokensTo(q, u, e) ==
    /\ IsRequest(u)
    /\ u.kind = q.kind /\ u.out = q.out \o e /\ u.next = Last(e)
    /\ u.state = "DECODING" /\ u.cachedNext = q.cachedNext

LEMMA TokensCarried ==
    ASSUME NEW q, IsRequest(q), q.state = "DECODING", q.out \in Seq(Token), NEW e \in Seq(Token),
           NEW u, u = [q EXCEPT !.next = Last(e), !.out = @ \o e]
    PROVE  TokensTo(q, u, e) /\ Carried(q, u)
  <1>1. q = [f \in Fields |-> q[f]]
    BY DEF IsRequest
  <1>2. /\ u = [f \in Fields |-> u[f]] /\ u.state = q.state
        /\ u.arrival = q.arrival /\ u.queued = q.queued /\ u.yields = q.yields
        /\ u.epoch = q.epoch /\ u.out = q.out \o e /\ u.kind = q.kind
        /\ u.prefilled = q.prefilled /\ u.next = Last(e) /\ u.cachedNext = q.cachedNext
    BY <1>1 DEF Fields
  <1>3. PICK o : o = q.out
    OBVIOUS
  <1>4. PICK v : v = o \o e
    OBVIOUS
  <1>5. /\ v \in Seq(Token) /\ Len(v) = Len(o) + Len(e) /\ Len(o) \in Nat /\ Len(e) \in Nat
        /\ \A i \in 1 .. Len(o) : v[i] = o[i]
    <2>1. o \in Seq(Token)
      BY <1>3
    <2> QED BY <2>1, <1>4, JoinFacts
  <1>6. IsSeq(v)
    BY <1>5 DEF IsSeq
  <1>7. IsPrefix(o, v)
    <2>1. o \in Seq(Token)
      BY <1>3
    <2>2. Len(o) <= Len(v)
      BY <1>5
    <2>3. SubSeq(o, 1, Len(o)) = SubSeq(v, 1, Len(o))
      BY <2>1, <2>2, <1>5
    <2> QED BY <2>2, <2>3 DEF IsPrefix
  <1>8. /\ u.queued \in BOOLEAN /\ u.yields \in Nat /\ u.epoch \in Nat
        /\ u.kind \in Kind /\ u.prefilled \in Nat
    BY <1>2 DEF IsRequest
  <1>9. IsRequest(u)
    BY <1>2, <1>3, <1>4, <1>6, <1>8, Zenon DEF IsRequest
  <1> QED BY <1>2, <1>3, <1>4, <1>7, <1>9 DEF TokensTo, Carried

\* The memory m is about the requests rq, which only r tells apart from req.
RoundGrown(m, rq, r) ==
    /\ StoriesOf(rq) \in [Req -> Seq(Token)] /\ MemoryOK(m, StoriesOf(rq))
    /\ Spares(mem, m, Req \ {r}) /\ PredsRight(m)
    /\ PagesOf(m, r, rq[r])

\* append_tokens, of as many inputs as tokens were emitted.
LEMMA RoundGrows ==
    ASSUME RequestsOK, Books, NEW G, NEW W, MemoryAgrees(mem, req, G, W),
           NEW r \in Req, req[r].state = "DECODING", NEW p, Emits(r, p),
           NEW m, m = Commit(mem, r, p.cached),
           NEW u, TokensTo(req[r], u, p.emitted), NEW rq, rq = [req EXCEPT ![r] = u]
    PROVE  RoundGrown(m, rq, r)
  <1> DEFINE q == req[r]
             e == p.emitted
             s == Story(q)
             v == s \o e
             t == StoriesOf(req)
             x == [t EXCEPT ![r] = v]
  <1>1. r \in Live /\ s \in Seq(Token) /\ mem.len[r] \in Nat /\ mem.len[r] + 1 = Len(s)
    BY DecodingFacts
  <1>2. /\ s = q.kind.prompt \o q.out /\ q.out \in Seq(Token) /\ q.kind.prompt \in Seq(Token)
        /\ Len(s) = Len(q.kind.prompt) + Len(q.out) /\ t[r] = s
        /\ Len(q.kind.prompt) \in Nat /\ Len(q.out) \in Nat
    BY <1>1, RunningFacts
  <1>3. /\ mem \in Memory /\ MemoryOK(mem, t) /\ PredsRight(mem) /\ t \in [Req -> Seq(Token)]
        /\ mem.pool.owns[r] # << >>
    BY <1>1, RunningPages
  <1>4. /\ e \in Seq(Token) /\ p.cached = Len(e) /\ Len(e) \in Nat \ {0}
        /\ v \in Seq(Token) /\ Len(v) = mem.len[r] + Len(e) + 1
        /\ Covers(mem, r, Len(e), v)
        /\ \A y \in 1 .. mem.len[r] : Prefix(v, y) = Prefix(s, y)
    BY DEF Emits, Extends
  <1>5. /\ u.kind = q.kind /\ u.out = q.out \o e /\ u.state = "DECODING"
    BY DEF TokensTo
  <1>6. Story(u) = v
    <2>1. PICK a : a = q.kind.prompt
      OBVIOUS
    <2>2. PICK b : b = q.out
      OBVIOUS
    <2> HIDE DEF e
    <2>3. a \in Seq(Token) /\ b \in Seq(Token) /\ e \in Seq(Token)
      BY <2>1, <2>2, <1>2, <1>4
    <2>4. (a \o b) \o e = a \o (b \o e)
      BY <2>3, JoinAgain
    <2>5. Story(u) = a \o (b \o e)
      BY <2>1, <2>2, <1>5 DEF Story, Running
    <2> QED BY <2>1, <2>2, <2>4, <2>5, <1>2
  <1>7. StoriesOf(rq) = x
    <2>1. req = [y \in Req |-> req[y]]
      BY DEF RequestsOK
    <2>2. rq[r] = u /\ \A y \in Req \ {r} : rq[y] = req[y]
      BY <2>1
    <2>3. StoriesOf(rq) = [StoriesOf(req) EXCEPT ![r] = Story(rq[r])]
      <3>1. PICK b : b = rq
        OBVIOUS
      <3>2. b[r] = rq[r] /\ \A y \in Req \ {r} : b[y] = req[y]
        BY <2>2, <3>1
      <3>3. StoriesOf(b) = [StoriesOf(req) EXCEPT ![r] = Story(b[r])]
        BY <3>2 DEF StoriesOf
      <3> QED BY <3>1, <3>2, <3>3
    <2> HIDE DEF v
    <2> QED BY <2>2, <2>3, <1>6
  <1>8. rq[r] = u
    BY DEF RequestsOK
  <1> HIDE DEF q, e, s, v, t
  <1>9. x \in [Req -> Seq(Token)] /\ x[r] = v
    BY <1>3, <1>4
  <1>10. MemoryOK(mem, x)
    <2>1. mem.len[r] <= Len(v)
      <3>1. \A a \in Nat, c \in Nat : a <= a + c + 1
        OBVIOUS
      <3>2. mem.len[r] \in Nat /\ Len(e) \in Nat /\ Len(v) = mem.len[r] + Len(e) + 1
        BY <1>1, <1>4
      <3> QED BY <3>1, <3>2
    <2> QED BY <2>1, <1>2, <1>3, <1>4, Retarget
  <1> HIDE DEF x
  <1>11. Advanced(mem, m, x, r, Len(e))
    BY <1>4, <1>9, <1>10, CommitKeeps
  <1>12. /\ MemoryOK(m, x) /\ m.pool = mem.pool
         /\ m.len = [mem.len EXCEPT ![r] = mem.len[r] + Len(e)] /\ Apart(mem, m, r)
    BY <1>11 DEF Advanced
  <1>13. m.len[r] = mem.len[r] + Len(e)
    BY <1>3, <1>12, MemoryFields
  <1>14. Spares(mem, m, Req \ {r}) /\ PredsRight(m)
    BY <1>3, <1>12, PredsRightKept DEF Apart
  <1>15. PagesOf(m, r, u)
    <2>1. Len(u.out) = Len(q.out) + Len(e)
      <3>1. PICK b : b = q.out
        OBVIOUS
      <3>2. b \in Seq(Token) /\ e \in Seq(Token)
        BY <3>1, <1>2, <1>4
      <3>3. Len(b \o e) = Len(b) + Len(e)
        BY <3>2, JoinFacts
      <3> QED BY <3>1, <3>3, <1>5
    <2>2. m.len[r] = Len(q.kind.prompt) + Len(u.out) - 1
      <3>1. PICK a \in Nat : a = Len(q.kind.prompt)
        BY <1>2
      <3>2. PICK b \in Nat : b = Len(q.out)
        BY <1>2
      <3>3. PICK c \in Nat : c = Len(e)
        BY <1>4
      <3>4. PICK n \in Nat : n = mem.len[r]
        BY <1>1
      <3>5. n + 1 = a + b
        BY <3>1, <3>2, <3>4, <1>1, <1>2
      <3>6. n + c = a + (b + c) - 1
        BY <3>5
      <3>7. mem.len[r] + Len(e) = Len(q.kind.prompt) + (Len(q.out) + Len(e)) - 1
        BY <3>1, <3>2, <3>3, <3>4, <3>6
      <3> QED BY <3>7, <2>1, <1>13
    <2>3. m.pool.owns[r] # << >>
      BY <1>3, <1>12
    <2>4. u.kind.prompt = q.kind.prompt /\ u.state = "DECODING"
      BY <1>5
    <2> QED BY <2>2, <2>3, <2>4 DEF PagesOf, Running
  <1> QED BY <1>7, <1>8, <1>9, <1>12, <1>14, <1>15 DEF RoundGrown

\* append_tokens, and finish when the last token ends the request.
LEMMA AppendTokensMoves ==
    ASSUME ModelTyped, RequestsOK, Books, NEW G, NEW W, MemoryAgrees(mem, req, G, W),
           NEW r \in Req, req[r].state = "DECODING", NEW p, Emits(r, p),
           NEW m, m = Commit(mem, r, p.cached),
           NEW u, TokensTo(req[r], u, p.emitted), AppendToken(m, r, u)
    PROVE  MovesBooked(r) /\ req'[r].state \in {"DECODING", "FINISHED"}
  <1> DEFINE q == req[r]
             rq == [req EXCEPT ![r] = u]
  <1>1. /\ r \in Live /\ RequestBooks(q) /\ q.kind \in Workload /\ q.out \in Seq(Token)
        /\ q.state \notin Terminal
    <2>1. r \in Live
      BY DecodingFacts
    <2> QED BY <2>1, RunningFacts
  <1>2. RoundGrown(m, rq, r) /\ rq[r] = u /\ Elsewhere(req, rq, r)
    <2>1. PICK x : x = rq
      OBVIOUS
    <2>2. RoundGrown(m, x, r)
      BY <2>1, RoundGrows
    <2>3. rq[r] = u /\ Elsewhere(req, rq, r)
      BY DEF Elsewhere, RequestsOK
    <2> QED BY <2>1, <2>2, <2>3
  <1>3. /\ StoriesOf(rq) \in [Req -> Seq(Token)] /\ MemoryOK(m, StoriesOf(rq))
        /\ Spares(mem, m, Req \ {r}) /\ PredsRight(m) /\ PagesOf(m, r, u)
    BY <1>2 DEF RoundGrown
  <1>4. /\ IsRequest(u) /\ u.kind = q.kind /\ u.out = q.out \o p.emitted
        /\ u.next = Last(p.emitted) /\ u.state = "DECODING" /\ u.cachedNext = q.cachedNext
    BY DEF TokensTo
  <1>5. Extends(q, p.emitted) /\ ReasonOf(u.kind, u.out) = p.reason
    BY <1>4 DEF Emits
  <1>6. OutputOK(q) /\ q.next \in Value /\ q.cachedNext \in Value
    BY <1>1 DEF RequestBooks, Value
  <1>7. FinishReason(u) = ReasonOf(u.kind, u.out)
    BY ReasonIs
  <1>8. "DECODING" \notin Terminal /\ "FINISHED" \in Terminal
    BY DEF Terminal
  <1>9. u.out # << >> /\ u.next = Last(u.out) /\ u.next \in Value
    <2>1. PICK e : e = p.emitted
      OBVIOUS
    <2>2. e \in Seq(Token) /\ e # << >>
      BY <2>1, <1>5 DEF Extends
    <2>3. PICK o : o = q.out
      OBVIOUS
    <2>4. o \in Seq(Token)
      BY <2>3, <1>1
    <2>5. Last(o \o e) = e[Len(e)] /\ o \o e # << >> /\ Len(e) \in Nat \ {0}
      BY <2>2, <2>4, JoinLast
    <2>6. Last(e) = e[Len(e)] /\ e[Len(e)] \in Token
      BY <2>2, <2>5 DEF Last
    <2> QED BY <2>1, <2>3, <2>5, <2>6, <1>4 DEF Value
  <1> HIDE DEF q, rq
  <1>10. CASE FinishReason(u) = "none"
    <2>1. mem' = m /\ req' = rq
      BY <1>10 DEF AppendToken, rq
    <2>2. OutputOK(u)
      BY <1>1, <1>4, <1>5, <1>6, <1>7, <1>8, <1>10, OutputExtended
    <2>3. PhaseOK(u)
      BY <1>4, <1>9 DEF PhaseOK
    <2>4. RequestBooks(u)
      BY <2>2, <2>3, <1>1, <1>4, <1>6, <1>9 DEF RequestBooks, Value
    <2>5. Moves(mem, m, r, req, rq)
      BY <1>2, <1>3 DEF Moves
    <2> QED BY <2>1, <2>4, <2>5, <1>2, <1>4 DEF MovesBooked
  <1>11. CASE FinishReason(u) # "none"
    <2> DEFINE e == Ended(u, "FINISHED", FinishReason(u))
    <2>1. mem' = Drop(m, r) /\ req' = [req EXCEPT ![r] = e]
      BY <1>11 DEF AppendToken, Retire
    <2>2. req'[r] = e /\ Only(r)
      BY <2>1, <1>1, Assigned
    <2>3. /\ e.state = "FINISHED" /\ e.reason = FinishReason(u) /\ e.kind = u.kind
          /\ e.out = u.out /\ e.next = u.next /\ e.cachedNext = u.cachedNext
      <3>1. IsRequest(u)
        BY <1>4
      <3> QED BY <3>1, EndedFields
    <2> HIDE DEF e
    <2>4. OutputOK(e)
      BY <2>3, <1>1, <1>4, <1>5, <1>6, <1>7, <1>8, OutputExtended
    <2>5. PhaseOK(e)
      BY <2>3 DEF PhaseOK
    <2>6. RequestBooks(e)
      BY <2>3, <2>4, <2>5, <1>1, <1>4, <1>6, <1>9 DEF RequestBooks, Value
    <2>7. Elsewhere(rq, req', r) /\ Elsewhere(req, req', r) /\ req'[r].state \notin Running
      BY <2>2, <2>3, <1>2 DEF Elsewhere, Only, Running
    <2>8. Moves(mem, Drop(m, r), r, rq, req')
      BY <2>7, <1>3, LeaveMoves
    <2>9. Moves(mem, mem', r, req, req')
      BY <2>1, <2>7, <2>8 DEF Moves
    <2> QED BY <2>2, <2>3, <2>6, <2>9 DEF MovesBooked
  <1> QED BY <1>10, <1>11

\* r is the row whose round is committed.
RoundOf(r) ==
    /\ r = Head(todo) /\ r \in Req /\ r \in Live /\ req[r].state = "DECODING"
    /\ MovesBooked(r) /\ req'[r].state \in {"DECODING", "FINISHED"}
    /\ SchedulerOK' /\ LegalStep /\ YieldStep /\ Only(r)

LEMMA SpecCommitMoves ==
    ASSUME ModelTyped, RoundInv, ProposerOK, SpecCommitRow
    PROVE  RoundOf(Head(todo))
  <1>1. PICK r : r = Head(todo)
    OBVIOUS
  <1>2. pc = "specCommit" /\ todo # << >>
    BY DEF SpecCommitRow
  <1>3. /\ SchedulerOK /\ RequestsOK /\ Books /\ MemoryAgrees(mem, req, RoundGrants, {})
        /\ GroupRows(todo) /\ RequestsIn(todo, "DECODING")
    BY <1>2 DEF RoundInv, SchedulerOK, RoundRows
  <1>4. r \in Req /\ r \in ToSet(todo) /\ req[r].state = "DECODING"
    <2>1. r \in Req /\ r \in ToSet(todo)
      BY <1>1, <1>2, <1>3, TailSet DEF GroupRows
    <2> QED BY <2>1, <1>3 DEF RequestsIn
  <1>5. PICK p : p = Plan(proposals[r], [k \in 1 .. depth |-> Prediction(r, k - 1)],
                           Prediction(r, depth), req[r].kind.maxNew - Len(req[r].out),
                           EosIds, req[r].kind.stop, req[r].kind.ignoreEos)
    OBVIOUS
  <1>6. Emits(r, p)
    BY <1>1, <1>2, <1>5, SpecEmits
  <1>7. PICK q : q = req[r]
    OBVIOUS
  <1>8. PICK e : e = p.emitted
    OBVIOUS
  <1>9. PICK u : u = [q EXCEPT !.next = Last(e), !.out = @ \o e]
    OBVIOUS
  <1>10. r \in Live /\ IsRequest(q) /\ q.out \in Seq(Token) /\ q.state = "DECODING"
    <2>1. r \in Live
      BY <1>3, <1>4, DecodingFacts
    <2> QED BY <2>1, <1>3, <1>4, <1>7, RunningFacts
  <1>11. e \in Seq(Token) /\ ReasonOf(q.kind, q.out \o e) = p.reason
    BY <1>6, <1>7, <1>8 DEF Emits, Extends
  <1>12. TokensTo(q, u, e) /\ Carried(q, u)
    BY <1>9, <1>10, <1>11, TokensCarried, Zenon
  <1>13. FinishReason(u) = p.reason /\ u.state = "DECODING"
    BY <1>11, <1>12, ReasonIs DEF TokensTo
  <1>14. PICK m : m = Commit(mem, r, p.cached)
    OBVIOUS
  <1>15. AppendToken(m, r, u)
    <2>1. Committed(r, p) = m
      BY <1>14 DEF Committed
    <2>2. LET reason == IF p.reason # "none" THEN p.reason ELSE FinishReason(u)
          IN  IF reason = "none"
              THEN /\ mem' = m /\ req' = [req EXCEPT ![r] = u]
                   /\ UNCHANGED <<waiting, active, order, epoch>>
              ELSE Retire(m, r, Ended(u, "FINISHED", reason))
      <3>1. PICK n : n = [req[r] EXCEPT !.next = Last(p.emitted), !.out = @ \o p.emitted]
        OBVIOUS
      <3>2. LET reason == IF p.reason # "none" THEN p.reason ELSE FinishReason(n)
            IN  IF reason = "none"
                THEN /\ mem' = Committed(r, p) /\ req' = [req EXCEPT ![r] = n]
                     /\ UNCHANGED <<waiting, active, order, epoch>>
                ELSE Retire(Committed(r, p), r, Ended(n, "FINISHED", reason))
        BY <3>1, <1>1, <1>5, ZenonT(60) DEF SpecCommitRow
      <3>3. n = u
        BY <3>1, <1>7, <1>8, <1>9
      <3> QED BY <3>2, <3>3, <2>1, Zenon
    <2> QED BY <2>2, <1>13 DEF AppendToken
  <1>16. SchedulerOK' /\ LegalStep /\ YieldStep /\ Only(r)
    BY <1>3, <1>7, <1>10, <1>12, <1>13, <1>15, AppendTokenKeeps
  <1>17. MovesBooked(r) /\ req'[r].state \in {"DECODING", "FINISHED"}
    BY <1>3, <1>4, <1>6, <1>7, <1>8, <1>12, <1>14, <1>15, AppendTokensMoves
  <1> QED BY <1>1, <1>4, <1>10, <1>16, <1>17 DEF RoundOf

LEMMA SpecCommitRowKeeps ==
    ASSUME ModelTyped, SpecInv, SpecCommitRow, ForgetDrafts
    PROVE  SpecInv' /\ LegalStep /\ YieldStep
  <1>1. /\ pc = "specCommit" /\ pc' = pc /\ todo # << >> /\ todo' = Tail(todo)
        /\ UNCHANGED <<rows, plans, proposals, depth, decoding, proposer>>
    BY DEF SpecCommitRow
  <1>2. RoundInv /\ ProposerOK
    BY <1>1 DEF SpecInv, SpecPlaces
  <1>3. PICK r : r = Head(todo)
    OBVIOUS
  <1>4. /\ r \in Req /\ r \in Live /\ req[r].state = "DECODING" /\ MovesBooked(r)
        /\ req'[r].state \in {"DECODING", "FINISHED"}
        /\ SchedulerOK' /\ LegalStep /\ YieldStep /\ Only(r)
    BY <1>2, <1>3, SpecCommitMoves DEF RoundOf
  <1>5. /\ Books /\ plans = << >> /\ ProposalsFresh /\ RoundWrites
        /\ MemoryAgrees(mem, req, RoundGrants, {})
        /\ GroupRows(todo) /\ RequestsIn(todo, "DECODING") /\ depth \in Nat
    BY <1>1, <1>2 DEF RoundInv, RoundRows, ProposerOK
  <1>6. /\ ToSet(todo) = ToSet(todo') \cup {r} /\ r \notin ToSet(todo')
        /\ todo' \in Seq(Req) /\ IsInjective(todo') /\ ToSet(todo') \subseteq Req
    <2>1. /\ ToSet(todo) = ToSet(Tail(todo)) \cup {Head(todo)} /\ Head(todo) \notin ToSet(Tail(todo))
          /\ Tail(todo) \in Seq(Req) /\ IsInjective(Tail(todo))
      BY <1>1, <1>5, TailSet DEF GroupRows
    <2>2. PICK s : s = Tail(todo)
      OBVIOUS
    <2>3. ToSet(s) \subseteq Req
      BY <2>1, <2>2 DEF ToSet
    <2> QED BY <2>1, <2>2, <2>3, <1>1, <1>3
  <1>7. RoundGrants = {} /\ RoundGrants' = {}
    BY <1>1 DEF RoundGrants
  <1>8. Moves(mem, mem', r, req, req') /\ RequestBooks(req'[r])
    BY <1>4 DEF MovesBooked
  <1>9. MemoryAgrees(mem', req', {}, {})
    <2>1. Pairs({}) /\ GrantsMove({}, {}, mem', r) /\ WritesMove({}, {}, mem', r, req')
      BY DEF Pairs, GrantsMove, WritesMove
    <2>2. MemoryAgrees(mem, req, {}, {})
      BY <1>5, <1>7
    <2> QED BY <2>1, <2>2, <1>4, <1>8, OneMoves
  <1>10. r \in Created /\ Created' = Created
    BY <1>4 DEF Only, Created
  <1>11. Books'
    BY <1>4, <1>5, <1>8, <1>10, BooksStand
  <1>12. ASSUME NEW y \in ToSet(todo')
         PROVE  /\ y \in ToSet(todo) /\ y \in Req /\ y # r /\ req'[y] = req[y]
    BY <1>4, <1>6 DEF Only
  <1>13. RoundRows'
    <2>1. GroupRows(todo)'
      BY <1>1, <1>5, <1>6, <1>12 DEF GroupRows
    <2>2. RequestsIn(todo, "DECODING")'
      BY <1>5, <1>6, <1>12 DEF RequestsIn
    <2> QED BY <2>1, <2>2, <1>1 DEF RoundRows
  <1>14. RoundWrites'
    <2>1. mem \in Memory /\ mem' \in Memory
      BY <1>8, <1>9, <1>5 DEF MemoryAgrees, MemoryOK, CacheOK
    <2>2. ASSUME NEW y \in ToSet(todo')
          PROVE  Covers(mem', y, depth + 1, Story(req'[y]) \o proposals[y])
      <3>1. Covers(mem, y, depth + 1, Story(req[y]) \o proposals[y])
        BY <1>1, <1>5, <1>12 DEF RoundWrites
      <3>2. Spared(mem, mem', y)
        BY <1>8, <1>12 DEF Moves, Spares
      <3>3. PICK u : u = Story(req[y]) \o proposals[y]
        OBVIOUS
      <3>4. Covers(mem', y, depth + 1, u)
        BY <3>1, <3>2, <3>3, <2>1, <1>5, <1>12, SparedCovers
      <3> QED BY <3>3, <3>4, <1>12
    <2> QED BY <2>2, <1>1 DEF RoundWrites
  <1>15. ProposalsFresh'
    <2>1. Len(proposals[r]) = depth
      BY <1>5, <1>6 DEF GroupRows
    <2>2. ASSUME NEW y \in Req, Unverified(y)'
          PROVE  Unverified(y) /\ History(y)' = History(y)
      <3>1. Len(proposals[y]) > depth
        BY <2>2, <1>1 DEF Unverified
      <3>2. y # r
        BY <3>1, <2>1, <1>5
      <3> QED BY <3>1, <3>2, <1>4 DEF Unverified, History, Only
    <2> QED BY <2>2, <1>1, <1>5, FreshStands
  <1>16. ProposerOK'
    BY <1>1, <1>2, <1>4, ForgetKeeps
  <1>17. RoundInv'
    BY <1>1, <1>4, <1>5, <1>7, <1>9, <1>11, <1>13, <1>14, <1>15 DEF RoundInv
  <1> QED BY <1>1, <1>4, <1>16, <1>17 DEF SpecInv, SpecPlaces

-----------------------------------------------------------------------------
(* Every step keeps the invariant. *)

\* The calls and the loops of Engine are not enabled inside a round.
LEMMA NextPlaces ==
    ASSUME Next
    PROVE  pc \notin SpecPlaces
  <1>1. CASE \/ \E k \in Workload : Create(k)
             \/ \E r \in Req : Submit(r) \/ Cancel(r)
             \/ WaitForWork
    BY <1>1 DEF Create, Submit, Cancel, WaitForWork, Busy, SpecPlaces
  <1>2. CASE \/ BeginStep \/ DecodeRowCapacity \/ DecodeRowsReady \/ DecodeForward
             \/ CommitDecodeRow \/ DecodeCommitted
    <2>1. pc \in {"idle", "decodeCap", "decode", "commitD"}
      <3>1. CASE BeginStep \/ DecodeRowCapacity \/ DecodeRowsReady
        BY <3>1 DEF BeginStep, DecodeRowCapacity, DecodeRowsReady
      <3>2. CASE DecodeForward
        BY <3>2 DEF DecodeForward
      <3>3. CASE CommitDecodeRow
        BY <3>3 DEF CommitDecodeRow
      <3>4. CASE DecodeCommitted
        BY <3>4 DEF DecodeCommitted
      <3> QED BY <3>1, <3>2, <3>3, <3>4, <1>2
    <2> QED BY <2>1 DEF SpecPlaces
  <1>3. CASE RejectHead \/ AdmitHead \/ AdmissionEnds \/ ExactHit \/ ExactDone
    <2>1. pc \in {"admit", "exact"}
      <3>1. CASE RejectHead
        BY <3>1 DEF RejectHead, AdmitsHead
      <3>2. CASE AdmitHead
        BY <3>2 DEF AdmitHead, AdmitsHead
      <3>3. CASE AdmissionEnds \/ ExactHit \/ ExactDone
        BY <3>3 DEF AdmissionEnds, ExactHit, ExactDone
      <3> QED BY <3>1, <3>2, <3>3, <1>3
    <2> QED BY <2>1 DEF SpecPlaces
  <1>4. CASE \/ PlanPrefill \/ PrefillChunkCapacity \/ PrefillChunksReady
             \/ FusedForward \/ CommitPrefillChunk \/ EndStep
    BY <1>4 DEF PlanPrefill, PrefillChunkCapacity, PrefillChunksReady,
                FusedForward, CommitPrefillChunk, EndStep, SpecPlaces
  <1> QED BY <1>1, <1>2, <1>3, <1>4 DEF Next, Step

\* A call or a turn of Engine.
LEMMA EngineMoveKeeps ==
    ASSUME ModelTyped, SpecInv, Next, EngineMove(TRUE)
    PROVE  SpecInv' /\ LegalStep /\ YieldStep
  <1>1. EngineInv /\ MemoryInv /\ ProposerOK
    BY NextPlaces DEF SpecInv
  <1>2. EngineInv' /\ MemoryInv' /\ LegalStep /\ YieldStep
    BY <1>1, NextEngineInv, NextMemoryInv
  <1>3. pc' \notin SpecPlaces
    BY <1>2 DEF EngineInv, LoopOK, SpecPlaces
  <1>4. ProposerOK'
    BY <1>1, <1>2, ForgetKeeps DEF EngineMove
  <1> QED BY <1>2, <1>3, <1>4 DEF SpecInv

LEMMA NextSpecInv ==
    ASSUME ModelTyped, DraftTyped, SpecInv, SpecNext
    PROVE  SpecInv' /\ LegalStep /\ YieldStep
  <1>1. CASE \/ \E k \in Workload : EngineMove(Create(k))
             \/ \E r \in Req : EngineMove(Submit(r)) \/ EngineMove(Cancel(r))
             \/ EngineMove(WaitForWork)
             \/ EngineMove(/\ Step
                           /\ pc = "idle" => ~ \E r \in ToSet(active) : req[r].state = "DECODING")
    <2>1. Next /\ EngineMove(TRUE)
      BY <1>1 DEF Next, EngineMove
    <2> QED BY <2>1, EngineMoveKeeps
  <1>2. CASE BeginSpeculation
    BY <1>2, BeginSpeculationKeeps
  <1>3. CASE NextGroup
    BY <1>3, NextGroupKeeps
  <1>4. CASE OrdinaryRows
    BY <1>4, OrdinaryRowsKeeps
  <1>5. CASE SpecRowCapacity /\ ForgetDrafts
    BY <1>5, SpecRowCapacityKeeps
  <1>6. CASE SpecRowsReady
    BY <1>6, SpecRowsReadyKeeps
  <1>7. CASE Verify
    BY <1>7, VerifyKeeps
  <1>8. CASE SpecCommitRow /\ ForgetDrafts
    BY <1>8, SpecCommitRowKeeps
  <1>9. CASE SpecCommitted
    BY <1>9, SpecCommittedKeeps
  <1> QED BY <1>1, <1>2, <1>3, <1>4, <1>5, <1>6, <1>7, <1>8, <1>9 DEF SpecNext, SpecStep

LEMMA InitSpecInv ==
    ASSUME SpecInit
    PROVE  SpecInv
  <1>1. Init
    BY DEF SpecInit
  <1>2. EngineInv /\ MemoryInv
    BY <1>1, InitEngineInv, InitMemoryInv
  <1>3. pc \notin SpecPlaces
    BY <1>1 DEF Init, SpecPlaces
  <1>4. ProposerOK
    <2>1. depth = 0 /\ decoding = {} /\ proposals = None /\ drafts = [r \in Req |-> NoDraft]
      BY DEF SpecInit
    <2>2. ASSUME NEW r \in Req
          PROVE  /\ proposals[r] \in Seq(Token) /\ DraftExact(drafts[r])
                 /\ drafts[r].tokens \in Seq(Token) /\ drafts[r] = NoDraft
      <3>1. proposals[r] = << >> /\ drafts[r] = NoDraft
        BY <2>1 DEF None
      <3>2. DraftExact(NoDraft) /\ NoDraft.tokens \in Seq(Token)
        BY DEF NoDraft, DraftExact
      <3> QED BY <3>1, <3>2
    <2> QED BY <2>1, <2>2 DEF ProposerOK, DraftsOfTheLiving
  <1> QED BY <1>2, <1>3, <1>4 DEF SpecInv

LEMMA StutterSpecInv ==
    ASSUME SpecInv, UNCHANGED specVars
    PROVE  SpecInv'
  <1>1. /\ UNCHANGED <<mem, req, waiting, active, order, epoch>>
        /\ UNCHANGED <<pc, todo, rows, plans, proposer, drafts, proposals, depth, decoding>>
        /\ UNCHANGED vars
    BY DEF specVars, vars, sched
  <1>2. ProposerOK'
    BY <1>1, ProposerStands DEF SpecInv, ProposerOK
  <1>3. CASE pc \notin SpecPlaces
    <2>1. EngineInv /\ MemoryInv
      BY <1>3 DEF SpecInv
    <2>2. EngineInv' /\ MemoryInv'
      BY <1>1, <2>1, StutterEngineInv, StutterMemoryInv
    <2>3. pc' \notin SpecPlaces
      BY <1>1, <1>3
    <2> QED BY <1>2, <2>2, <2>3 DEF SpecInv
  <1>4. CASE pc \in SpecPlaces
    <2>1. RoundInv /\ SchedulerOK /\ Books /\ plans = << >> /\ RoundRows /\ RoundWrites
          /\ ProposalsFresh /\ MemoryAgrees(mem, req, RoundGrants, {})
      BY <1>4 DEF SpecInv, RoundInv
    <2>2. SchedulerOK'
      BY <1>1, <2>1, StutterKeeps
    <2>3. Books' /\ MemoryAgrees(mem, req, RoundGrants, {})'
      BY <1>1, <2>1 DEF Books, Created, RoundGrants
    <2>4. RoundRows' /\ RoundWrites'
      BY <1>1, <2>1 DEF RoundRows, RoundWrites, GroupRows, RequestsIn
    <2>5. ProposalsFresh'
      <3>1. \A r \in Req : Unverified(r)' => Unverified(r) /\ History(r)' = History(r)
        BY <1>1 DEF Unverified, History
      <3> QED BY <3>1, <1>1, <2>1, FreshStands
    <2>6. RoundInv'
      BY <1>1, <2>1, <2>2, <2>3, <2>4, <2>5 DEF RoundInv
    <2>7. pc' \in SpecPlaces
      BY <1>1, <1>4
    <2> QED BY <1>2, <2>6, <2>7 DEF SpecInv
  <1> QED BY <1>3, <1>4

-----------------------------------------------------------------------------
(* The theorems about the speculative worker. *)

\* Between any two turns of the worker with a proposer the engine's invariant holds, or, inside
\* a speculative round, the pages of a group stand for its pending tokens and its proposals, each
\* proposal is for the history its request still has, and draft state is exact and of the living.
THEOREM SpeculationInvariant ==
    ASSUME ModelTyped, DraftTyped
    PROVE  SpecSpec => []SpecInv
  <1>1. SpecInit => SpecInv
    BY InitSpecInv
  <1>2. SpecInv /\ [SpecNext]_specVars => SpecInv'
    BY NextSpecInv, StutterSpecInv
  <1> QED BY <1>1, <1>2, PTL DEF SpecSpec

\* No page leaks when a round writes more inputs than it keeps, a proposal is cut short or its
\* request is displaced between capacity and verification, and the counters still agree.
THEOREM SpeculationBalances ==
    ASSUME ModelTyped, DraftTyped
    PROVE  SpecSpec => []EngineConsistent
  <1>1. SpecInv => EngineConsistent
    BY SpecBalanced, BalancedConsistent
  <1> QED BY <1>1, SpeculationInvariant, PTL

\* The keys and values of rejected inputs are never read: every request still attends to its own
\* prompt and output, and a cached page is what it was published with.
THEOREM RejectedNeverRead ==
    ASSUME ModelTyped, DraftTyped
    PROVE  SpecSpec => []KVIntegrity
  <1>1. SpecInv => KVIntegrity
    BY SpecBalanced, BalancedIntegrity
  <1> QED BY <1>1, SpeculationInvariant, PTL

\* Whatever is proposed, accepted, corrected and cut, a greedy request gets the tokens it would
\* get alone and without speculation, and ends where its own limit or stop tokens end it.
THEOREM SpeculationTransparent ==
    ASSUME ModelTyped, DraftTyped
    PROVE  SpecSpec => []SoloOutput
  <1>1. SpecInv => SoloOutput
    BY SpecBalanced, BalancedSolo
  <1> QED BY <1>1, SpeculationInvariant, PTL

\* Each row is verified against a proposal for its present history, and a draft cache holds the
\* tokens it is filed under.
THEOREM ProposalsCurrent ==
    ASSUME ModelTyped, DraftTyped
    PROVE  SpecSpec => []ProposalsAreCurrent
  BY SpecCurrent, SpeculationInvariant, PTL

\* No draft state outlives its request.
THEOREM DraftsForgotten ==
    ASSUME ModelTyped, DraftTyped
    PROVE  SpecSpec => []DraftsOfTheLiving
  <1>1. SpecInv => DraftsOfTheLiving
    BY DEF SpecInv, ProposerOK
  <1> QED BY <1>1, SpeculationInvariant, PTL

\* A round's transitions are legal, the tokens it emits come behind the output, and what ended
\* stays as it is.
THEOREM SpeculationLegal ==
    ASSUME ModelTyped, DraftTyped
    PROVE  SpecSpec => LegalTransitions
  <1>1. SpecInv /\ [SpecNext]_specVars => [LegalStep]_vars
    BY NextSpecInv DEF specVars
  <1>2. SpecSpec => [][LegalStep]_vars
    BY <1>1, SpeculationInvariant, PTL DEF SpecSpec
  <1> QED BY <1>2 DEF LegalTransitions, LegalStep

\* Capacity for a group never displaces the oldest active request.
THEOREM SpeculationSparesOldest ==
    ASSUME ModelTyped, DraftTyped
    PROVE  SpecSpec => OldestNeverYields
  <1>1. SpecInv /\ [SpecNext]_specVars => [YieldStep]_vars
    BY NextSpecInv DEF specVars
  <1>2. SpecSpec => [][YieldStep]_vars
    BY <1>1, SpeculationInvariant, PTL DEF SpecSpec
  <1> QED BY <1>2 DEF OldestNeverYields, YieldStep

\* First come first served and bounded recompute, when requests reach submit in the order of
\* their created_ns.
THEOREM SpeculationServesInOrder ==
    ASSUME ModelTyped, DraftTyped, InOrder
    PROVE  SpecSpec => []FirstComeFirstServed
  <1>1. SpecInv => FirstComeFirstServed
    BY SpecBalanced DEF Balanced, SchedulerOK, QueueOK, EpochsOK, FirstComeFirstServed
  <1> QED BY <1>1, SpeculationInvariant, PTL

=============================================================================
