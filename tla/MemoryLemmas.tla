---------------------------- MODULE MemoryLemmas ----------------------------
(***************************************************************************)
(* What the operations of the paged KV memory do to a memory in good       *)
(* order, for every value of the constants.  MemoryOK is the relation that *)
(* every operation keeps: the books of the pool and of the prefix cache    *)
(* balance, every cache entry and every request reads back its own tokens, *)
(* and a page a request may write is held by nobody else.                  *)
(***************************************************************************)
EXTENDS PagedKV, SequenceLemmas

-----------------------------------------------------------------------------
(* Positions, pages and slots. *)

LEMMA DivMod ==
    ASSUME NEW a \in Nat, NEW d \in Nat \ {0}
    PROVE  /\ a \div d \in Nat /\ a % d \in 0 .. d - 1
           /\ a = d * (a \div d) + (a % d)
  OBVIOUS

LEMMA DivUnique ==
    ASSUME NEW d \in Nat \ {0}, NEW x \in Nat, NEW y \in 0 .. d - 1
    PROVE  (d * x + y) \div d = x /\ (d * x + y) % d = y
  OBVIOUS

\* The page of a table, and the slot of that page, of logical position q.
PageOf(q) == ((q - 1) \div BlockSize) + 1
OffsetOf(q) == (q - 1) % BlockSize

LEMMA PositionParts ==
    ASSUME NEW q \in Nat \ {0}
    PROVE  /\ PageOf(q) \in Nat \ {0} /\ OffsetOf(q) \in Slots
           /\ q = BlockSize * (PageOf(q) - 1) + OffsetOf(q) + 1
  <1>1. BlockSize \in Nat \ {0} /\ q - 1 \in Nat
    BY KVAssumption
  <1> DEFINE x == (q - 1) \div BlockSize
             y == (q - 1) % BlockSize
  <1>2. x \in Nat /\ y \in 0 .. BlockSize - 1 /\ q - 1 = BlockSize * x + y
    BY <1>1, DivMod
  <1>3. PageOf(q) = x + 1 /\ OffsetOf(q) = y
    BY DEF PageOf, OffsetOf
  <1> HIDE DEF x, y
  <1>4. (x + 1) - 1 = x
    BY <1>2
  <1> QED BY <1>2, <1>3, <1>4 DEF Slots

LEMMA PositionOf ==
    ASSUME NEW p \in Nat \ {0}, NEW i \in Slots
    PROVE  /\ BlockSize * (p - 1) + i + 1 \in Nat \ {0}
           /\ PageOf(BlockSize * (p - 1) + i + 1) = p
           /\ OffsetOf(BlockSize * (p - 1) + i + 1) = i
  <1>1. BlockSize \in Nat \ {0} /\ p - 1 \in Nat /\ i \in 0 .. BlockSize - 1
    BY KVAssumption DEF Slots
  <1> DEFINE q == BlockSize * (p - 1) + i + 1
  <1>2. BlockSize * (p - 1) \in Nat
    BY <1>1
  <1>3. q \in Nat \ {0} /\ q - 1 = BlockSize * (p - 1) + i
    BY <1>1, <1>2
  <1>4. (q - 1) \div BlockSize = p - 1 /\ (q - 1) % BlockSize = i
    BY <1>1, <1>3, DivUnique
  <1> HIDE DEF q
  <1>5. PageOf(q) = p /\ OffsetOf(q) = i
    BY <1>4, <1>1 DEF PageOf, OffsetOf
  <1> QED BY <1>3, <1>5 DEF q

LEMMA PageMonotone ==
    ASSUME NEW q \in Nat \ {0}, NEW n \in Nat \ {0}, q <= n
    PROVE  PageOf(q) <= PageOf(n)
  <1> DEFINE a == PageOf(q)
             b == PageOf(n)
  <1>1. /\ a \in Nat \ {0} /\ b \in Nat \ {0}
        /\ q = BlockSize * (a - 1) + OffsetOf(q) + 1
        /\ n = BlockSize * (b - 1) + OffsetOf(n) + 1
        /\ OffsetOf(q) \in 0 .. BlockSize - 1 /\ OffsetOf(n) \in 0 .. BlockSize - 1
    BY PositionParts DEF Slots
  <1> HIDE DEF a, b
  <1>2. BlockSize \in Nat \ {0}
    BY KVAssumption
  <1> SUFFICES ASSUME a > b PROVE FALSE
    BY <1>1 DEF a, b
  <1>3. a - 1 = (b - 1) + (a - b) /\ a - b \in Nat \ {0}
    BY <1>1
  <1>4. BlockSize * (a - 1) = BlockSize * (b - 1) + BlockSize * (a - b)
    BY <1>1, <1>2, <1>3
  <1>5. BlockSize * (a - b) >= BlockSize
    BY <1>2, <1>3
  <1> QED BY <1>1, <1>2, <1>4, <1>5

LEMMA BlocksForPage ==
    ASSUME NEW n \in Nat
    PROVE  /\ BlocksFor(n) \in Nat
           /\ n = 0 => BlocksFor(n) = 0
           /\ n # 0 => BlocksFor(n) = PageOf(n)
  <1>1. BlockSize \in Nat \ {0}
    BY KVAssumption
  <1>2. CASE n = 0
    <2>1. (0 + BlockSize - 1) = BlockSize * 0 + (BlockSize - 1) /\ BlockSize - 1 \in 0 .. BlockSize - 1
      BY <1>1
    <2>2. (BlockSize * 0 + (BlockSize - 1)) \div BlockSize = 0
      BY <1>1, <2>1, DivUnique
    <2> QED BY <1>2, <2>1, <2>2 DEF BlocksFor
  <1>3. CASE n # 0
    <2> DEFINE x == (n - 1) \div BlockSize
               y == (n - 1) % BlockSize
    <2>0. n - 1 \in Nat
      BY <1>3
    <2>1. x \in Nat /\ y \in 0 .. BlockSize - 1 /\ n - 1 = BlockSize * x + y
      BY <1>1, <2>0, DivMod
    <2> HIDE DEF x, y
    <2>2. n + BlockSize - 1 = BlockSize * (x + 1) + y
      BY <1>1, <2>1
    <2>3. (BlockSize * (x + 1) + y) \div BlockSize = x + 1
      BY <1>1, <2>1, DivUnique
    <2> QED BY <1>3, <2>1, <2>2, <2>3 DEF BlocksFor, PageOf, x
  <1> QED BY <1>2, <1>3

LEMMA BlocksMonotone ==
    ASSUME NEW a \in Nat, NEW b \in Nat, a <= b
    PROVE  BlocksFor(a) <= BlocksFor(b)
  <1>1. CASE a = 0
    BY <1>1, BlocksForPage
  <1>2. CASE a # 0
    BY <1>2, BlocksForPage, PageMonotone
  <1> QED BY <1>1, <1>2

\* The page of the position after n.
LEMMA NextPage ==
    ASSUME NEW n \in Nat
    PROVE  /\ PageOf(n + 1) = (n \div BlockSize) + 1 /\ OffsetOf(n + 1) = n % BlockSize
           /\ n % BlockSize = 0 => BlocksFor(n) = PageOf(n + 1) - 1
           /\ n % BlockSize # 0 => BlocksFor(n) = PageOf(n + 1)
           /\ n \div BlockSize \in Nat /\ n % BlockSize \in Slots
  <1>1. BlockSize \in Nat \ {0}
    BY KVAssumption
  <1> DEFINE x == n \div BlockSize
             y == n % BlockSize
  <1>2. x \in Nat /\ y \in 0 .. BlockSize - 1 /\ n = BlockSize * x + y
    BY <1>1, DivMod
  <1>3. PageOf(n + 1) = x + 1 /\ OffsetOf(n + 1) = y
    BY DEF PageOf, OffsetOf
  <1> HIDE DEF x, y
  <1>4. CASE y = 0
    <2>1. n + BlockSize - 1 = BlockSize * x + (BlockSize - 1)
      BY <1>1, <1>2, <1>4
    <2>2. (BlockSize * x + (BlockSize - 1)) \div BlockSize = x
      BY <1>1, <1>2, DivUnique
    <2> QED BY <1>2, <1>3, <1>4, <2>1, <2>2 DEF BlocksFor, x, y, Slots
  <1>5. CASE y # 0
    <2>1. n + BlockSize - 1 = BlockSize * (x + 1) + (y - 1) /\ y - 1 \in 0 .. BlockSize - 1
      BY <1>1, <1>2, <1>5
    <2>2. (BlockSize * (x + 1) + (y - 1)) \div BlockSize = x + 1
      BY <1>1, <1>2, <2>1, DivUnique
    <2> QED BY <1>2, <1>3, <1>5, <2>1, <2>2 DEF BlocksFor, x, y, Slots
  <1> QED BY <1>4, <1>5

-----------------------------------------------------------------------------
(* The pool: the facts BlockAllocatorProofs shows of every set of owners, for *)
(* the owners of this memory.                                                 *)

LEMMA ImageFinite ==
    ASSUME NEW S, IsFiniteSet(S), NEW f
    PROVE  IsFiniteSet({f[x] : x \in S})
  <1> DEFINE g == [x \in S |-> f[x]]
  <1>1. g \in Surjection(S, {f[x] : x \in S})
    BY DEF Surjection
  <1> QED BY <1>1, FS_Surjection

LEMMA OwnersFinite == IsFiniteSet(PageOwner) /\ IsFiniteSet(CacheOwner)
  <1> DEFINE K(p) == 1 .. Len(p) \div BlockSize
             N(p) == {Prefix(p, k * BlockSize) : k \in K(p)}
  <1>1. ASSUME NEW p \in Prompts PROVE IsFiniteSet(N(p))
    <2>1. Len(p) \div BlockSize \in Nat
      BY KVAssumption
    <2>2. IsFiniteSet(K(p))
      BY <2>1, FS_Interval
    <2> DEFINE f == [k \in K(p) |-> Prefix(p, k * BlockSize)]
    <2>3. IsFiniteSet({f[k] : k \in K(p)})
      <3> HIDE DEF f, K
      <3> QED BY <2>2, ImageFinite
    <2>4. {f[k] : k \in K(p)} = N(p)
      OBVIOUS
    <2> QED BY <2>3, <2>4
  <1>2. IsFiniteSet({N(p) : p \in Prompts})
    <2> DEFINE f == [p \in Prompts |-> N(p)]
    <2>1. {f[p] : p \in Prompts} = {N(p) : p \in Prompts}
      OBVIOUS
    <2> HIDE DEF f, N
    <2> QED BY <2>1, KVAssumption, ImageFinite, ZenonT(60)
  <1>3. IsFiniteSet(UNION {N(p) : p \in Prompts})
    <2>1. \A T \in {N(p) : p \in Prompts} : IsFiniteSet(T)
      BY <1>1
    <2> HIDE DEF N
    <2> QED BY <1>2, <2>1, FS_UNION
  <1>4. IsFiniteSet(NodePath)
    BY <1>3 DEF NodePath
  <1>5. IsFiniteSet({NodeOwner(p) : p \in NodePath})
    <2> DEFINE f == [p \in NodePath |-> NodeOwner(p)]
    <2>1. {f[p] : p \in NodePath} = {NodeOwner(p) : p \in NodePath}
      OBVIOUS
    <2> HIDE DEF f
    <2> QED BY <2>1, <1>4, ImageFinite
  <1>6. IsFiniteSet({ExactOwner(s) : s \in Prompts})
    <2> DEFINE f == [s \in Prompts |-> ExactOwner(s)]
    <2>1. {f[s] : s \in Prompts} = {ExactOwner(s) : s \in Prompts}
      OBVIOUS
    <2> HIDE DEF f
    <2> QED BY <2>1, KVAssumption, ImageFinite, ZenonT(60)
  <1>7. IsFiniteSet(CacheOwner)
    BY <1>5, <1>6, FS_Union DEF CacheOwner
  <1>8. IsFiniteSet({DummyOwner})
    BY FS_Singleton
  <1>9. IsFiniteSet(Req \cup CacheOwner)
    BY <1>7, KVAssumption, FS_Union
  <1> QED BY <1>7, <1>8, <1>9, FS_Union DEF PageOwner

Allocator == INSTANCE BlockAllocatorProofs WITH Owner <- PageOwner, pool <- << >>, MaxCount <- 0

LEMMA SameCardinality == ASSUME NEW S PROVE Allocator!Cardinality(S) = Cardinality(S)
  BY DEF Allocator!Cardinality, Cardinality

LEMMA SameFinite == ASSUME NEW S PROVE Allocator!IsFiniteSet(S) <=> IsFiniteSet(S)
  BY DEF Allocator!IsFiniteSet, IsFiniteSet

\* PoolAssumption holds of this memory's owners, and so do the facts proved from it.
LEMMA PoolFits == Allocator!IsFiniteSet(PageOwner) /\ NumBlocks \in Nat \ {0} /\ 0 \in Nat
  BY OwnersFinite, SameFinite, KVAssumption

LEMMA SameConsistent == ASSUME NEW p PROVE Allocator!Consistent(p) <=> Consistent(p)
  <1>1. \A b : Allocator!Holders(p, b) = Holders(p, b)
    BY DEF Allocator!Holders, Holders, Allocator!Holds, Holds
  <1>2. Allocator!Block = Block
    BY DEF Allocator!Block, Block
  <1>3. Allocator!Pool = Pool
    BY <1>2 DEF Allocator!Pool, Pool
  <1>4. Allocator!RefsCountHolders(p) <=> RefsCountHolders(p)
    BY <1>1, <1>2, SameCardinality DEF Allocator!RefsCountHolders, RefsCountHolders
  <1>5. Allocator!FreeHasNoHolder(p) <=> FreeHasNoHolder(p)
    BY <1>1, <1>2 DEF Allocator!FreeHasNoHolder, FreeHasNoHolder
  <1>6. Allocator!NoDuplicates(p) <=> NoDuplicates(p)
    BY DEF Allocator!NoDuplicates, NoDuplicates
  <1> QED BY <1>3, <1>4, <1>5, <1>6 DEF Allocator!Consistent, Consistent

LEMMA EmptyPoolOK == Consistent(EmptyPool)
  <1>1. Allocator!EmptyPool = EmptyPool
    BY DEF Allocator!EmptyPool, EmptyPool, Allocator!Block, Block
  <1>2. Allocator!Consistent(Allocator!EmptyPool)
    BY PoolFits, Allocator!EmptyPoolConsistent
  <1> QED BY <1>1, <1>2, SameConsistent

LEMMA PoppedOK ==
    ASSUME NEW p \in Pool, NEW n \in Nat, NEW s \in Popped(p, n)
    PROVE  /\ s \in Seq(Block)
           /\ Len(s) = n
           /\ \A i \in 1 .. n : s[i] \in p.free
           /\ \A i, j \in 1 .. n : s[i] = s[j] => i = j
  <1>1. /\ Allocator!Popped(p, n) = Popped(p, n)
        /\ Allocator!Block = Block
        /\ Allocator!Pool = Pool
    BY DEF Allocator!Popped, Popped, Allocator!Block, Block, Allocator!Pool, Pool
  <1> QED BY <1>1, PoolFits, Allocator!PoppedType

LEMMA GrantOK ==
    ASSUME NEW p, Consistent(p), NEW o \in PageOwner, NEW n \in Nat, NEW s \in Popped(p, n)
    PROVE  Consistent(Grant(p, o, s))
  <1>1. Allocator!Popped(p, n) = Popped(p, n)
    BY DEF Allocator!Popped, Popped
  <1>2. Allocator!Grant(p, o, s) = Grant(p, o, s)
    BY DEF Allocator!Grant, Grant, Allocator!Block, Block
  <1>3. Allocator!Consistent(Allocator!Grant(p, o, s))
    BY <1>1, SameConsistent, PoolFits, Allocator!GrantConsistent
  <1> QED BY <1>2, <1>3, SameConsistent

LEMMA AttachOK ==
    ASSUME NEW p, Consistent(p), NEW o \in PageOwner, NEW s \in Seq(Block), CanAttach(p, o, s)
    PROVE  Consistent(Attach(p, o, s))
  <1>1. Allocator!CanAttach(p, o, s) /\ Allocator!Block = Block
    BY DEF Allocator!CanAttach, CanAttach, Allocator!Block, Block
  <1>2. Allocator!Attach(p, o, s) = Attach(p, o, s)
    BY DEF Allocator!Attach, Attach, Allocator!Block, Block
  <1>3. Allocator!Consistent(Allocator!Attach(p, o, s))
    BY <1>1, SameConsistent, PoolFits, Allocator!AttachConsistent
  <1> QED BY <1>2, <1>3, SameConsistent

LEMMA ReleaseOK ==
    ASSUME NEW p, Consistent(p), NEW o \in PageOwner
    PROVE  Consistent(Release(p, o))
  <1>1. Allocator!Release(p, o) = Release(p, o)
    BY DEF Allocator!Release, Release, Allocator!Block, Block, Allocator!Holds, Holds
  <1>2. Allocator!Consistent(Allocator!Release(p, o))
    BY SameConsistent, PoolFits, Allocator!ReleaseConsistent
  <1> QED BY <1>1, <1>2, SameConsistent

LEMMA ReplaceOK ==
    ASSUME NEW p, Consistent(p), NEW o \in PageOwner, NEW i \in Nat, NEW b \in p.free,
           CanReplace(p, o, i)
    PROVE  Consistent(Replace(p, o, i, b))
  <1>1. Allocator!CanReplace(p, o, i)
    BY DEF Allocator!CanReplace, CanReplace
  <1>2. Allocator!Replace(p, o, i, b) = Replace(p, o, i, b)
    BY DEF Allocator!Replace, Replace
  <1>3. Allocator!Consistent(Allocator!Replace(p, o, i, b))
    BY <1>1, SameConsistent, PoolFits, Allocator!ReplaceConsistent
  <1> QED BY <1>2, <1>3, SameConsistent

\* As many blocks as are free can be popped.
LEMMA TakeOK ==
    ASSUME NEW p \in Pool, NEW n \in Nat, n <= Cardinality(p.free)
    PROVE  Take(p, n) \in Popped(p, n)
  <1> DEFINE F == p.free
             Top(s, k) == /\ \A i, j \in 1 .. k : i < j => s[i] > s[j]
                          /\ \A b \in F : (\A i \in 1 .. k : s[i] # b) => \A i \in 1 .. k : s[i] > b
             T == {k \in Nat : k <= Cardinality(F) => \E s \in [1 .. k -> F] : Top(s, k)}
  <1>1. F \subseteq 0 .. NumBlocks - 1 /\ NumBlocks - 1 \in Nat
    BY KVAssumption DEF Pool, Block
  <1>2. IsFiniteSet(F)
    <2>1. IsFiniteSet(0 .. NumBlocks - 1)
      BY <1>1, FS_Interval
    <2> QED BY <2>1, <1>1, FS_Subset
  <1>c. Cardinality(F) \in Nat
    BY <1>2, FS_CardinalityType
  <1> HIDE DEF F
  <1>3. 0 \in T
    <2> DEFINE s == [i \in 1 .. 0 |-> 0]
    <2>1. s \in [1 .. 0 -> F] /\ Top(s, 0)
      OBVIOUS
    <2> QED BY <2>1
  <1>4. ASSUME NEW k \in Nat, k \in T PROVE k + 1 \in T
    <2> SUFFICES ASSUME k + 1 <= Cardinality(F) PROVE \E s \in [1 .. k + 1 -> F] : Top(s, k + 1)
      OBVIOUS
    <2>1. k <= Cardinality(F)
      BY <1>c
    <2>2. PICK s \in [1 .. k -> F] : Top(s, k)
      BY <1>4, <2>1
    <2> DEFINE R == {b \in F : \A i \in 1 .. k : s[i] # b}
    <2>3. R # {}
      <3> SUFFICES ASSUME R = {} PROVE FALSE
        OBVIOUS
      <3>1. s \in Surjection(1 .. k, F)
        BY DEF Surjection
      <3>2. ExistsSurjection(1 .. k, F)
        BY <3>1 DEF ExistsSurjection
      <3>3. Cardinality(F) <= k
        BY <3>2, FS_SurjCardinalityBound
      <3> QED BY <3>3, <1>c
    <2>4. R \subseteq 0 .. NumBlocks - 1
      BY <1>1
    <2>5. PICK x \in R : \A y \in R : y <= x
      <3> HIDE DEF R
      <3> QED BY <2>3, <2>4, <1>1, GreatestExists
    <2> DEFINE u == [i \in 1 .. k + 1 |-> IF i = k + 1 THEN x ELSE s[i]]
    <2>6. x \in F /\ x \in Int /\ \A i \in 1 .. k : s[i] > x /\ s[i] \in F /\ s[i] \in Int
      <3>1. x \in F /\ \A i \in 1 .. k : s[i] # x
        BY <2>5
      <3>2. \A i \in 1 .. k : s[i] > x /\ s[i] \in F
        BY <3>1, <2>2
      <3>3. \A y \in F : y \in Int
        BY <1>1
      <3> QED BY <3>1, <3>2, <3>3
    <2>7. /\ u \in [1 .. k + 1 -> F] /\ u[k + 1] = x
          /\ \A i \in 1 .. k : u[i] = s[i]
          /\ \A i \in 1 .. k + 1 : i = k + 1 \/ i \in 1 .. k
          /\ k + 1 \in 1 .. k + 1 /\ \A i \in 1 .. k : i \in 1 .. k + 1
      BY <2>6
    <2> HIDE DEF u
    <2>8. ASSUME NEW i \in 1 .. k + 1, NEW j \in 1 .. k + 1, i < j PROVE u[i] > u[j]
      <3>1. i \in 1 .. k
        BY <2>8
      <3>2. CASE j = k + 1
        BY <3>1, <3>2, <2>6, <2>7
      <3>3. CASE j \in 1 .. k
        BY <3>1, <3>3, <2>2, <2>7, <2>8
      <3> QED BY <3>2, <3>3, <2>7
    <2>9. ASSUME NEW b \in F, \A i \in 1 .. k + 1 : u[i] # b, NEW i \in 1 .. k + 1 PROVE u[i] > b
      <3>1. b \in R /\ b # x
        BY <2>7, <2>9
      <3>2. x > b
        BY <3>1, <2>5, <2>6, <1>1
      <3>3. CASE i \in 1 .. k
        BY <3>1, <3>3, <2>2, <2>7
      <3> QED BY <3>2, <3>3, <2>7
    <2> QED BY <2>7, <2>8, <2>9
  <1>5. n \in T
    <2> HIDE DEF T
    <2> QED BY <1>3, <1>4, SetInduction
  <1>6. PICK s \in [1 .. n -> F] : Top(s, n)
    BY <1>5 DEF F
  <1>7. s \in Popped(p, n)
    BY <1>6 DEF Popped, F
  <1> QED BY <1>7 DEF Take

\* What the tables of a consistent pool contain.
LEMMA PoolFacts ==
    ASSUME NEW p, Consistent(p)
    PROVE  /\ p \in Pool /\ p.free \subseteq Block
           /\ p.owns \in [PageOwner -> Seq(Block)] /\ p.refs \in [Block -> Nat]
           /\ \A o \in PageOwner :
                 /\ Len(p.owns[o]) \in Nat
                 /\ \A i \in 1 .. Len(p.owns[o]) :
                       p.owns[o][i] \in Block /\ Holds(p, o, p.owns[o][i])
                 /\ \A i, j \in 1 .. Len(p.owns[o]) : p.owns[o][i] = p.owns[o][j] => i = j
           /\ \A o \in PageOwner, b \in Block : Holds(p, o, b) => b \notin p.free
           /\ \A b \in Block : b \in p.free \/ \E o \in PageOwner : Holds(p, o, b)
  <1>1. p \in Pool /\ NoDuplicates(p) /\ FreeHasNoHolder(p)
    BY DEF Consistent
  <1>2. /\ p.free \subseteq Block
        /\ p.owns \in [PageOwner -> Seq(Block)] /\ p.refs \in [Block -> Nat]
    BY <1>1 DEF Pool
  <1>3. ASSUME NEW o \in PageOwner
        PROVE  /\ Len(p.owns[o]) \in Nat
               /\ \A i \in 1 .. Len(p.owns[o]) : p.owns[o][i] \in Block /\ Holds(p, o, p.owns[o][i])
               /\ \A i, j \in 1 .. Len(p.owns[o]) : p.owns[o][i] = p.owns[o][j] => i = j
    <2>1. p.owns[o] \in Seq(Block)
      BY <1>2
    <2>2. Len(p.owns[o]) \in Nat /\ \A i \in 1 .. Len(p.owns[o]) : p.owns[o][i] \in Block
      BY <2>1
    <2> QED BY <2>2, <1>1 DEF Holds, NoDuplicates
  <1>4. \A o \in PageOwner, b \in Block : Holds(p, o, b) => b \notin p.free
    BY <1>1 DEF FreeHasNoHolder, Holders
  <1>5. \A b \in Block : b \in p.free \/ \E o \in PageOwner : Holds(p, o, b)
    BY <1>1 DEF FreeHasNoHolder, Holders
  <1> QED BY <1>1, <1>2, <1>3, <1>4, <1>5

\* The counter of a page tells whether its holder is alone.
LEMMA CounterTells ==
    ASSUME NEW p, Consistent(p), NEW o \in PageOwner, NEW b \in Block, Holds(p, o, b)
    PROVE  /\ p.refs[b] \in Nat \ {0}
           /\ p.refs[b] = 1 <=> \A x \in PageOwner \ {o} : ~Holds(p, x, b)
  <1> DEFINE S == Holders(p, b)
  <1>1. p.refs[b] = Cardinality(S)
    BY DEF Consistent, RefsCountHolders
  <1>2. o \in S /\ S \subseteq PageOwner
    BY DEF Holders
  <1>3. IsFiniteSet(S)
    BY <1>2, OwnersFinite, FS_Subset
  <1>4. S \ {o} = {} <=> \A x \in PageOwner \ {o} : ~Holds(p, x, b)
    BY DEF Holders
  <1> HIDE DEF S
  <1>5. /\ IsFiniteSet(S \ {o}) /\ Cardinality(S \ {o}) = Cardinality(S) - 1
        /\ Cardinality(S) \in Nat /\ Cardinality(S \ {o}) \in Nat
    BY <1>2, <1>3, FS_RemoveElement, FS_CardinalityType
  <1>6. Cardinality(S \ {o}) = 0 <=> S \ {o} = {}
    BY <1>5, FS_EmptySet
  <1> QED BY <1>1, <1>4, <1>5, <1>6

-----------------------------------------------------------------------------
(* A memory in good order. *)

Value == Token \cup {NoToken}

Memory == [pool  : Pool,
           len   : [Req -> Nat],
           lru   : Seq(CacheOwner),
           crefs : [Block -> Nat],
           pred  : [Prompts -> Value],
           kv    : [Block -> [Slots -> Seq(Value)]]]

\* The pages of o hold the first n positions of the sequence t.
Reads(m, o, t, n) ==
    /\ BlocksFor(n) <= Len(m.pool.owns[o])
    /\ \A q \in 1 .. n : Slot(m, o, q) = Prefix(t, q)

NodeEntry(m, p) ==
    /\ Len(m.pool.owns[NodeOwner(p)]) = 1
    /\ \A i \in Slots :
          m.kv[m.pool.owns[NodeOwner(p)][1]][i] = Prefix(p, Len(p) - BlockSize + i + 1)

ExactEntry(m, s) ==
    /\ Len(m.pool.owns[ExactOwner(s)]) = BlocksFor(Len(s))
    /\ Reads(m, ExactOwner(s), s, Len(s))

Entries(m) == {o \in CacheOwner : Present(m, o)}

\* The books of the cache balance and its entries are what they are filed under.
CacheOK(m) ==
    /\ m \in Memory
    /\ Consistent(m.pool)
    /\ CacheRefsExact(m)
    /\ IsInjective(m.lru) /\ ToSet(m.lru) = Entries(m)
    /\ RadixClosed(m)
    /\ \A p \in Nodes(m) : NodeEntry(m, p)
    /\ \A s \in Prompts : Present(m, ExactOwner(s)) => ExactEntry(m, s)

\* Nobody but o holds page i of its table.
Alone(m, o, i) ==
    \A x \in PageOwner \ {o} : ~Holds(m.pool, x, m.pool.owns[o][i])

\* The pages r writes to without asking: those after the committed positions, and
\* the page those end in when it is not the last one.
Ahead(m, r, i) ==
    \/ i > BlocksFor(m.len[r])
    \/ i = BlocksFor(m.len[r]) /\ m.len[r] % BlockSize # 0 /\ i < Len(m.pool.owns[r])

RequestOK(m, r, t) ==
    /\ m.len[r] <= Len(t)
    /\ Reads(m, r, t, m.len[r])
    /\ \A i \in 1 .. Len(m.pool.owns[r]) : Ahead(m, r, i) => Alone(m, r, i)

\* t[r] is the sequence request r is about.
MemoryOK(m, t) == CacheOK(m) /\ \A r \in Req : RequestOK(m, r, t[r])

LEMMA MemoryFields ==
    ASSUME NEW m \in Memory
    PROVE  /\ m.pool \in Pool /\ m.len \in [Req -> Nat] /\ m.lru \in Seq(CacheOwner)
           /\ m.crefs \in [Block -> Nat] /\ m.pred \in [Prompts -> Value]
           /\ m.kv \in [Block -> [Slots -> Seq(Value)]]
           /\ m.pool.owns \in [PageOwner -> Seq(Block)]
  BY DEF Memory, Pool

LEMMA OwnersDiffer ==
    /\ CacheOwner \subseteq PageOwner /\ Req \subseteq PageOwner /\ DummyOwner \in PageOwner
    /\ \A p \in NodePath : NodeOwner(p) \in CacheOwner
    /\ \A s \in Prompts : ExactOwner(s) \in CacheOwner
    /\ \A r \in Req : r \notin CacheOwner /\ r # DummyOwner
    /\ \A p, s : NodeOwner(p) # ExactOwner(s)
    /\ \A p, q : NodeOwner(p) = NodeOwner(q) => p = q
    /\ \A p, q : ExactOwner(p) = ExactOwner(q) => p = q
    /\ DummyOwner \notin CacheOwner
  BY OwnerAssumption DEF PageOwner, CacheOwner, NodeOwner, ExactOwner, DummyOwner

\* Where the committed positions of an owner are.
LEMMA SlotAt ==
    ASSUME NEW m \in Memory, NEW o \in PageOwner, NEW n \in Nat,
           BlocksFor(n) <= Len(m.pool.owns[o]), NEW q \in 1 .. n
    PROVE  /\ PageOf(q) \in 1 .. Len(m.pool.owns[o])
           /\ OffsetOf(q) \in Slots
           /\ Slot(m, o, q) = m.kv[m.pool.owns[o][PageOf(q)]][OffsetOf(q)]
           /\ m.pool.owns[o][PageOf(q)] \in Block
           /\ Holds(m.pool, o, m.pool.owns[o][PageOf(q)])
  <1>1. m.pool.owns[o] \in Seq(Block)
    BY MemoryFields
  <1>2. q \in Nat \ {0} /\ n \in Nat \ {0} /\ q <= n
    OBVIOUS
  <1>3. PageOf(q) \in Nat \ {0} /\ OffsetOf(q) \in Slots /\ PageOf(q) <= PageOf(n) /\ PageOf(n) = BlocksFor(n)
    BY <1>2, PositionParts, PageMonotone, BlocksForPage
  <1>4. BlocksFor(n) \in Nat /\ Len(m.pool.owns[o]) \in Nat
    <2>1. BlocksFor(n) \in Nat
      BY BlocksForPage
    <2> QED BY <1>1, <2>1
  <1>5. PageOf(q) \in 1 .. Len(m.pool.owns[o])
    BY <1>3, <1>4
  <1> QED BY <1>1, <1>3, <1>5 DEF Slot, Table, PageOf, OffsetOf, Holds

\* Between m and x, o keeps its table and what the pages in it hold.
Keeps(m, x, o) ==
    /\ x.pool.owns[o] = m.pool.owns[o]
    /\ \A b \in Block : Holds(m.pool, o, b) => x.kv[b] = m.kv[b]

LEMMA KeepsReads ==
    ASSUME NEW m \in Memory, NEW x \in Memory, NEW o \in PageOwner, Keeps(m, x, o),
           NEW t, NEW n \in Nat, Reads(m, o, t, n)
    PROVE  Reads(x, o, t, n)
  <1>1. BlocksFor(n) <= Len(m.pool.owns[o]) /\ x.pool.owns[o] = m.pool.owns[o]
    BY DEF Reads, Keeps
  <1>2. ASSUME NEW q \in 1 .. n PROVE Slot(x, o, q) = Prefix(t, q)
    <2> DEFINE b == m.pool.owns[o][PageOf(q)]
    <2>1. b \in Block /\ Holds(m.pool, o, b) /\ Slot(m, o, q) = m.kv[b][OffsetOf(q)]
      BY <1>1, SlotAt
    <2>2. Slot(x, o, q) = x.kv[b][OffsetOf(q)]
      BY <1>1 DEF Slot, Table, PageOf, OffsetOf
    <2>3. x.kv[b] = m.kv[b]
      BY <2>1 DEF Keeps
    <2> QED BY <2>1, <2>2, <2>3 DEF Reads
  <1> QED BY <1>1, <1>2 DEF Reads

\* What reads back in the terms of Context.
LEMMA ReadsContext ==
    ASSUME NEW m \in Memory, NEW o \in PageOwner, NEW t \in Seq(Token), NEW n \in 0 .. Len(t),
           Reads(m, o, t, n)
    PROVE  ReadsBack(m, o, t, n)
  <1>1. CASE n = 0
    <2>1. Context(m, o, n) = << >>
      BY <1>1 DEF Context
    <2>2. Prefix(t, n) = << >>
      BY <1>1 DEF Prefix
    <2> QED BY <2>1, <2>2 DEF ReadsBack
  <1>2. CASE n # 0
    <2>1. Slot(m, o, n) = Prefix(t, n) /\ \A q \in 1 .. n : Slot(m, o, q) = Prefix(t, q)
      BY <1>2 DEF Reads
    <2>2. Len(Prefix(t, n)) = n
      BY DEF Prefix
    <2>3. \A q \in 1 .. n : Prefix(Prefix(t, n), q) = Prefix(t, q)
      BY DEF Prefix
    <2>4. Context(m, o, n) = Prefix(t, n)
      BY <1>2, <2>1, <2>2, <2>3 DEF Context
    <2> QED BY <2>4 DEF ReadsBack
  <1> QED BY <1>1, <1>2

\* CacheOK has the property the runs check.
LEMMA CacheOKReadsBack ==
    ASSUME NEW m, CacheOK(m)
    PROVE  CacheReadsBack(m)
  <1>1. \A p \in Nodes(m) : NodeEntry(m, p)
    BY DEF CacheOK
  <1>2. ASSUME NEW s \in Prompts, Present(m, ExactOwner(s))
        PROVE  ReadsBack(m, ExactOwner(s), s, Len(s))
    <2>1. m \in Memory /\ Reads(m, ExactOwner(s), s, Len(s))
      BY <1>2 DEF CacheOK, ExactEntry
    <2>2. s \in Seq(Token) /\ Len(s) \in 0 .. Len(s) /\ ExactOwner(s) \in PageOwner
      BY KVAssumption, OwnersDiffer
    <2> QED BY <2>1, <2>2, ReadsContext
  <1> QED BY <1>1, <1>2 DEF CacheReadsBack, NodeEntry

-----------------------------------------------------------------------------
(* What a step of one owner leaves alone. *)

LEMMA EntriesKept ==
    ASSUME NEW m, CacheOK(m), NEW x \in Memory,
           \A p \in Nodes(x) : (p \in Nodes(m) /\ Keeps(m, x, NodeOwner(p))) \/ NodeEntry(x, p),
           \A s \in Prompts : Present(x, ExactOwner(s)) =>
               (Present(m, ExactOwner(s)) /\ Keeps(m, x, ExactOwner(s))) \/ ExactEntry(x, s)
    PROVE  /\ \A p \in Nodes(x) : NodeEntry(x, p)
           /\ \A s \in Prompts : Present(x, ExactOwner(s)) => ExactEntry(x, s)
  <1>1. m \in Memory /\ Consistent(m.pool)
    BY DEF CacheOK
  <1>2. ASSUME NEW p \in Nodes(m), Keeps(m, x, NodeOwner(p)) PROVE NodeEntry(x, p)
    <2> DEFINE b == m.pool.owns[NodeOwner(p)][1]
    <2>1. NodeEntry(m, p) /\ NodeOwner(p) \in PageOwner
      BY OwnersDiffer DEF CacheOK, Nodes
    <2>2. Len(m.pool.owns[NodeOwner(p)]) = 1
      BY <2>1 DEF NodeEntry
    <2>3. b \in Block /\ Holds(m.pool, NodeOwner(p), b)
      BY <2>1, <2>2, <1>1, PoolFacts
    <2>4. x.kv[b] = m.kv[b] /\ x.pool.owns[NodeOwner(p)] = m.pool.owns[NodeOwner(p)]
      BY <2>3, <1>2 DEF Keeps
    <2> QED BY <2>1, <2>4 DEF NodeEntry
  <1>3. ASSUME NEW s \in Prompts, Present(m, ExactOwner(s)), Keeps(m, x, ExactOwner(s))
        PROVE  ExactEntry(x, s)
    <2>1. ExactEntry(m, s) /\ ExactOwner(s) \in PageOwner /\ Len(s) \in Nat
      BY <1>3, OwnersDiffer, KVAssumption DEF CacheOK
    <2>2. Reads(x, ExactOwner(s), s, Len(s))
      BY <2>1, <1>1, <1>3, KeepsReads DEF ExactEntry
    <2> QED BY <2>1, <2>2, <1>3 DEF ExactEntry, Keeps
  <1> QED BY <1>2, <1>3

LEMMA RequestKept ==
    ASSUME NEW m \in Memory, NEW x \in Memory, NEW r \in Req, NEW t, RequestOK(m, r, t),
           Keeps(m, x, r), x.len[r] = m.len[r],
           \A i \in 1 .. Len(m.pool.owns[r]) :
              Ahead(m, r, i) /\ Alone(m, r, i) =>
                 \A y \in PageOwner \ {r} : ~Holds(x.pool, y, m.pool.owns[r][i])
    PROVE  RequestOK(x, r, t)
  <1>1. r \in PageOwner /\ m.len[r] \in Nat
    BY OwnersDiffer, MemoryFields
  <1>2. Reads(x, r, t, m.len[r])
    BY <1>1, KeepsReads DEF RequestOK
  <1>3. x.pool.owns[r] = m.pool.owns[r]
    BY DEF Keeps
  <1>4. ASSUME NEW i \in 1 .. Len(x.pool.owns[r]), Ahead(x, r, i) PROVE Alone(x, r, i)
    <2>1. i \in 1 .. Len(m.pool.owns[r]) /\ Ahead(m, r, i)
      BY <1>3, <1>4 DEF Ahead
    <2>2. Alone(m, r, i)
      BY <2>1 DEF RequestOK
    <2> QED BY <2>1, <2>2, <1>3 DEF Alone
  <1> QED BY <1>2, <1>4 DEF RequestOK

\* Between m and x, request y notices nothing: its table, what its pages hold, its length, and
\* every page only y held is still only y's.
Spared(m, x, y) ==
    /\ Keeps(m, x, y)
    /\ x.len[y] = m.len[y]
    /\ \A i \in 1 .. Len(m.pool.owns[y]) : Alone(m, y, i) => Alone(x, y, i)

Spares(m, x, S) == \A y \in S : Spared(m, x, y)

\* An exact entry is only ever given up, with its predicted token.
PredsKept(m, x) ==
    \A s \in Prompts : Present(x, ExactOwner(s)) =>
        Present(m, ExactOwner(s)) /\ x.pred[s] = m.pred[s]

LEMMA SparedRequest ==
    ASSUME NEW m \in Memory, NEW x \in Memory, NEW r \in Req, NEW t, RequestOK(m, r, t),
           Spared(m, x, r)
    PROVE  RequestOK(x, r, t)
  <1>1. Keeps(m, x, r) /\ x.len[r] = m.len[r] /\ x.pool.owns[r] = m.pool.owns[r]
    BY DEF Spared, Keeps
  <1>2. \A i \in 1 .. Len(m.pool.owns[r]) : Alone(m, r, i) =>
           \A y \in PageOwner \ {r} : ~Holds(x.pool, y, m.pool.owns[r][i])
    BY <1>1 DEF Spared, Alone
  <1> QED BY <1>1, <1>2, RequestKept

LEMMA SparedSelf ==
    ASSUME NEW m, NEW x, x.pool = m.pool, x.len = m.len, x.kv = m.kv
    PROVE  \A y : Spared(m, x, y)
  BY DEF Spared, Keeps, Alone

LEMMA SparedAgain ==
    ASSUME NEW m, NEW x, NEW z, NEW y, Spared(m, x, y), Spared(x, z, y)
    PROVE  Spared(m, z, y)
  <1>1. x.pool.owns[y] = m.pool.owns[y]
    BY DEF Spared, Keeps
  <1>2. Keeps(m, z, y)
    BY <1>1 DEF Spared, Keeps, Holds
  <1> QED BY <1>1, <1>2 DEF Spared

\* Between m and x, request r did something that nobody else notices.
Apart(m, x, r) == Spares(m, x, Req \ {r}) /\ PredsKept(m, x)

LEMMA SparesAgain ==
    ASSUME NEW m, NEW x, NEW z, NEW S, Spares(m, x, S), Spares(x, z, S)
    PROVE  Spares(m, z, S)
  BY SparedAgain DEF Spares

LEMMA PredsAgain ==
    ASSUME NEW m, NEW x, NEW z, PredsKept(m, x), PredsKept(x, z)
    PROVE  PredsKept(m, z)
  BY DEF PredsKept

LEMMA PredsSame ==
    ASSUME NEW m, NEW x, x.pred = m.pred, \A y \in CacheOwner : x.pool.owns[y] = m.pool.owns[y]
    PROVE  PredsKept(m, x)
  BY OwnersDiffer DEF PredsKept, Present

LEMMA ApartAgain ==
    ASSUME NEW m, NEW x, NEW z, NEW r, Apart(m, x, r), Apart(x, z, r)
    PROVE  Apart(m, z, r)
  BY SparesAgain, PredsAgain DEF Apart

LEMMA ApartSelf ==
    ASSUME NEW m, NEW x, NEW r, x.pool = m.pool, x.len = m.len, x.kv = m.kv, x.pred = m.pred
    PROVE  Apart(m, x, r)
  BY SparedSelf, PredsSame DEF Apart, Spares

\* Touch changes the order of the entries and nothing else.
LEMMA TouchFields ==
    ASSUME NEW m \in Memory, NEW o \in CacheOwner
    PROVE  /\ Touch(m, o) \in Memory
           /\ Touch(m, o).pool = m.pool /\ Touch(m, o).len = m.len
           /\ Touch(m, o).crefs = m.crefs /\ Touch(m, o).pred = m.pred /\ Touch(m, o).kv = m.kv
           /\ ToSet(Touch(m, o).lru) = ToSet(m.lru) \cup {o}
           /\ IsInjective(m.lru) => IsInjective(Touch(m, o).lru)
  <1> DEFINE w == Without(m.lru, o)
             l == Append(w, o)
  <1>1. m.lru \in Seq(CacheOwner)
    BY MemoryFields
  <1>2. /\ w \in Seq(CacheOwner) /\ ToSet(w) = ToSet(m.lru) \ {o}
        /\ IsInjective(m.lru) => IsInjective(w)
    BY <1>1, WithoutProperties
  <1> HIDE DEF w
  <1>3. /\ l \in Seq(CacheOwner) /\ ToSet(l) = ToSet(w) \cup {o}
        /\ IsInjective(w) => IsInjective(l)
    BY <1>2, AppendSet
  <1>4. Touch(m, o) = [m EXCEPT !.lru = l]
    BY DEF Touch, w
  <1> HIDE DEF l
  <1>5. /\ [m EXCEPT !.lru = l] \in Memory
        /\ [m EXCEPT !.lru = l].pool = m.pool /\ [m EXCEPT !.lru = l].len = m.len
        /\ [m EXCEPT !.lru = l].crefs = m.crefs /\ [m EXCEPT !.lru = l].pred = m.pred
        /\ [m EXCEPT !.lru = l].kv = m.kv /\ [m EXCEPT !.lru = l].lru = l
    BY <1>3 DEF Memory
  <1> QED BY <1>2, <1>3, <1>4, <1>5

LEMMA TouchKeeps ==
    ASSUME NEW m, NEW t, MemoryOK(m, t), NEW o \in Entries(m)
    PROVE  MemoryOK(Touch(m, o), t)
  <1> DEFINE x == Touch(m, o)
  <1>1. m \in Memory /\ o \in CacheOwner /\ ToSet(m.lru) = Entries(m) /\ IsInjective(m.lru)
    BY DEF MemoryOK, CacheOK, Entries
  <1>2. /\ x \in Memory /\ x.pool = m.pool /\ x.len = m.len /\ x.crefs = m.crefs /\ x.kv = m.kv
        /\ ToSet(x.lru) = Entries(m) /\ IsInjective(x.lru)
    <2>1. ToSet(m.lru) \cup {o} = Entries(m)
      BY <1>1
    <2> QED BY <1>1, <2>1, TouchFields
  <1> HIDE DEF x
  <1>3. Entries(x) = Entries(m) /\ Nodes(x) = Nodes(m)
    BY <1>2 DEF Entries, Nodes, Present
  <1>4. \A y : Keeps(m, x, y)
    BY <1>2 DEF Keeps
  <1>5. CacheOK(m)
    BY DEF MemoryOK
  <1>6. \A s : Present(x, ExactOwner(s)) <=> Present(m, ExactOwner(s))
    BY <1>2 DEF Present
  <1>7. /\ \A p \in Nodes(x) : NodeEntry(x, p)
        /\ \A s \in Prompts : Present(x, ExactOwner(s)) => ExactEntry(x, s)
    BY <1>2, <1>3, <1>4, <1>5, <1>6, EntriesKept
  <1>8. CacheRefsExact(x) /\ RadixClosed(x)
    BY <1>2, <1>3, <1>5 DEF CacheOK, CacheRefsExact, RadixClosed
  <1>9. CacheOK(x)
    BY <1>2, <1>3, <1>5, <1>7, <1>8 DEF CacheOK
  <1>10. ASSUME NEW r \in Req PROVE RequestOK(x, r, t[r])
    <2>1. RequestOK(m, r, t[r])
      BY DEF MemoryOK
    <2> QED BY <2>1, <1>1, <1>2, <1>4, RequestKept DEF Alone
  <1> QED BY <1>9, <1>10 DEF MemoryOK, x

\* The pages of o go back, and nobody else notices.
LEMMA ReleaseLeaves ==
    ASSUME NEW m \in Memory, Consistent(m.pool), NEW o \in PageOwner, NEW x \in Memory,
           x.pool = Release(m.pool, o),
           x.kv = [b \in Block |-> IF b \in x.pool.free THEN Blank ELSE m.kv[b]]
    PROVE  /\ Consistent(x.pool)
           /\ x.pool.owns[o] = << >>
           /\ \A y \in PageOwner \ {o} : Keeps(m, x, y)
           /\ \A y \in PageOwner \ {o} : x.pool.owns[y] = m.pool.owns[y]
           /\ \A y \in PageOwner, b \in Block :
                 Holds(x.pool, y, b) <=> (y # o /\ Holds(m.pool, y, b))
  <1>1. Consistent(x.pool)
    BY ReleaseOK
  <1>2. m.pool.owns \in [PageOwner -> Seq(Block)]
    BY MemoryFields
  <1>3. x.pool.owns[o] = << >> /\ \A y \in PageOwner \ {o} : x.pool.owns[y] = m.pool.owns[y]
    BY <1>2 DEF Release
  <1>4. ASSUME NEW y \in PageOwner \ {o}, NEW b \in Block, Holds(m.pool, y, b)
        PROVE  x.kv[b] = m.kv[b]
    <2>1. Holds(x.pool, y, b)
      BY <1>3, <1>4 DEF Holds
    <2>2. b \notin x.pool.free
      BY <2>1, <1>1, PoolFacts
    <2> QED BY <2>2
  <1>5. \A y \in PageOwner, b \in Block :
           Holds(x.pool, y, b) <=> (y # o /\ Holds(m.pool, y, b))
    BY <1>3 DEF Holds
  <1> QED BY <1>1, <1>3, <1>4, <1>5 DEF Keeps

-----------------------------------------------------------------------------
(* Eviction. *)

CacheHolders(m, b) == {o \in CacheOwner : Holds(m.pool, o, b)}

LEMMA CacheHoldersFinite ==
    ASSUME NEW m, NEW b
    PROVE  IsFiniteSet(CacheHolders(m, b)) /\ Cardinality(CacheHolders(m, b)) \in Nat
  <1>1. CacheHolders(m, b) \subseteq CacheOwner
    BY DEF CacheHolders
  <1>2. IsFiniteSet(CacheHolders(m, b))
    BY <1>1, OwnersFinite, FS_Subset
  <1> QED BY <1>2, FS_CardinalityType

LEMMA NodePathFacts ==
    ASSUME NEW p \in NodePath
    PROVE  p \in Seq(Token) /\ Len(p) \in Nat /\ Len(p) >= BlockSize
  <1>1. PICK s \in Prompts : \E k \in 1 .. Len(s) \div BlockSize : p = Prefix(s, k * BlockSize)
    BY DEF NodePath
  <1>2. PICK k \in 1 .. Len(s) \div BlockSize : p = Prefix(s, k * BlockSize)
    BY <1>1
  <1>3. s \in Seq(Token) /\ Len(s) \in Nat /\ BlockSize \in Nat \ {0}
    BY KVAssumption
  <1> DEFINE d == Len(s) \div BlockSize
  <1>4. d \in Nat /\ Len(s) = BlockSize * d + (Len(s) % BlockSize) /\ Len(s) % BlockSize \in 0 .. BlockSize - 1
    BY <1>3, DivMod
  <1>5. k \in 1 .. d
    OBVIOUS
  <1> HIDE DEF d
  <1>6. k * BlockSize <= BlockSize * d /\ k * BlockSize >= BlockSize /\ k * BlockSize \in Nat
    <2>1. d = k + (d - k) /\ d - k \in Nat /\ k - 1 \in Nat /\ k = (k - 1) + 1
      BY <1>4, <1>5
    <2>2. BlockSize * d = BlockSize * k + BlockSize * (d - k) /\ BlockSize * (d - k) >= 0
      BY <1>3, <1>4, <1>5, <2>1
    <2>3. k * BlockSize = BlockSize * (k - 1) + BlockSize /\ BlockSize * (k - 1) >= 0
      BY <1>3, <1>5, <2>1
    <2>4. k * BlockSize = BlockSize * k
      BY <1>3, <1>5
    <2> QED BY <1>3, <1>4, <1>5, <2>2, <2>3, <2>4
  <1>7. k * BlockSize \in 0 .. Len(s)
    BY <1>3, <1>4, <1>6
  <1>8. p \in Seq(Token) /\ Len(p) = k * BlockSize
    BY <1>2, <1>3, <1>7 DEF Prefix
  <1> QED BY <1>3, <1>6, <1>8

LEMMA CandidateIsEntry ==
    ASSUME NEW m, NEW o \in Candidates(m)
    PROVE  /\ o \in Entries(m)
           /\ \/ \E p \in Nodes(m) : o = NodeOwner(p) /\ IsLeaf(m, p)
              \/ \E s \in Prompts : o = ExactOwner(s)
  BY OwnersDiffer DEF Candidates, Entries, Nodes

\* Evict gives back the pages of one entry, field by field.
LEMMA EvictFields ==
    ASSUME NEW m, CacheOK(m), NEW o \in Entries(m)
    PROVE  LET x == Evict(m, o)
           IN  /\ x \in Memory
               /\ x.pool = Release(m.pool, o) /\ x.len = m.len
               /\ x.kv = [b \in Block |-> IF b \in x.pool.free THEN Blank ELSE m.kv[b]]
               /\ x.crefs = [b \in Block |-> IF Holds(m.pool, o, b) THEN m.crefs[b] - 1 ELSE m.crefs[b]]
               /\ x.lru = Without(m.lru, o)
               /\ \A s \in Prompts : x.pred[s] = m.pred[s] \/ (o = ExactOwner(s) /\ x.pred[s] = NoToken)
  <1> DEFINE p == Release(m.pool, o)
             kv == [b \in Block |-> IF b \in p.free THEN Blank ELSE m.kv[b]]
             cr == [b \in Block |-> IF Holds(m.pool, o, b) THEN m.crefs[b] - 1 ELSE m.crefs[b]]
             l == Without(m.lru, o)
             pr == IF o[1] = "exact" THEN [m.pred EXCEPT ![o[2]] = NoToken] ELSE m.pred
             w == WithPool(m, p)
             x == Evict(m, o)
  <1>1. m \in Memory /\ Consistent(m.pool) /\ CacheRefsExact(m) /\ o \in CacheOwner /\ o \in PageOwner
    BY OwnersDiffer DEF CacheOK, Entries
  <1>2. p \in Pool
    BY <1>1, ReleaseOK, PoolFacts
  <1>3. kv \in [Block -> [Slots -> Seq(Value)]]
    <2>1. Blank \in [Slots -> Seq(Value)]
      BY DEF Blank
    <2> HIDE DEF p
    <2> QED BY <1>1, <2>1, MemoryFields
  <1>4. cr \in [Block -> Nat]
    <2> SUFFICES ASSUME NEW b \in Block, Holds(m.pool, o, b) PROVE m.crefs[b] - 1 \in Nat
      BY <1>1, MemoryFields
    <2>1. m.crefs[b] = Cardinality(CacheHolders(m, b)) /\ o \in CacheHolders(m, b)
      BY <1>1 DEF CacheRefsExact, CacheHolders
    <2>2. Cardinality(CacheHolders(m, b)) # 0
      BY <2>1, CacheHoldersFinite, FS_EmptySet
    <2> QED BY <2>1, <2>2, CacheHoldersFinite
  <1>5. l \in Seq(CacheOwner)
    BY <1>1, MemoryFields, WithoutProperties
  <1>6. /\ pr \in [Prompts -> Value]
        /\ \A s \in Prompts : pr[s] = m.pred[s] \/ (o = ExactOwner(s) /\ pr[s] = NoToken)
    <2>1. m.pred \in [Prompts -> Value] /\ NoToken \in Value
      BY <1>1, MemoryFields DEF Value
    <2>2. CASE \E s \in Prompts : o = ExactOwner(s)
      <3>1. PICK s \in Prompts : o = ExactOwner(s)
        BY <2>2
      <3>2. o[1] = "exact" /\ o[2] = s
        BY <3>1 DEF ExactOwner
      <3>3. pr = [m.pred EXCEPT ![s] = NoToken]
        BY <3>2
      <3> QED BY <3>1, <3>3, <2>1
    <2>3. CASE \E q \in NodePath : o = NodeOwner(q)
      <3>1. o[1] = "node" /\ "node" # "exact"
        BY <2>3 DEF NodeOwner
      <3>2. pr = m.pred
        BY <3>1
      <3> QED BY <3>2, <2>1
    <2> QED BY <1>1, <2>2, <2>3 DEF CacheOwner
  <1>7. /\ w \in Memory /\ w.pool = p /\ w.len = m.len /\ w.kv = kv /\ w.crefs = m.crefs
        /\ w.lru = m.lru /\ w.pred = m.pred
    <2> HIDE DEF p
    <2>1. w = [m EXCEPT !.pool = p, !.kv = kv]
      BY DEF WithPool
    <2> HIDE DEF kv, w
    <2> QED BY <1>1, <1>2, <1>3, <2>1 DEF Memory
  <1>8. x = [w EXCEPT !.lru = l, !.crefs = cr, !.pred = pr]
    <2> HIDE DEF p
    <2>1. x = [w EXCEPT !.lru = Without(w.lru, o),
                        !.crefs = [b \in Block |-> IF Holds(m.pool, o, b) THEN w.crefs[b] - 1 ELSE w.crefs[b]],
                        !.pred = IF o[1] = "exact" THEN [w.pred EXCEPT ![o[2]] = NoToken] ELSE w.pred]
      BY DEF Evict, p
    <2> HIDE DEF w
    <2> QED BY <2>1, <1>7
  <1> HIDE DEF p, kv, cr, l, pr, w
  <1>9. /\ x \in Memory /\ x.pool = p /\ x.len = m.len /\ x.kv = kv /\ x.crefs = cr
        /\ x.lru = l /\ x.pred = pr
    <2> HIDE DEF x
    <2> QED BY <1>4, <1>5, <1>6, <1>7, <1>8 DEF Memory
  <1> QED BY <1>6, <1>9 DEF p, kv, cr, l, pr

\* Between m and x the cache gave up entries: no request is touched.
Trimmed(m, x, t) ==
    /\ MemoryOK(x, t)
    /\ \A y \in CacheOwner : x.pool.owns[y] = m.pool.owns[y] \/ x.pool.owns[y] = << >>
    /\ x.len = m.len
    /\ \A y \in PageOwner \ CacheOwner : x.pool.owns[y] = m.pool.owns[y]
    /\ CachedBlocks(x) \subseteq CachedBlocks(m)
    /\ Spares(m, x, Req) /\ PredsKept(m, x)

LEMMA EvictKeeps ==
    ASSUME NEW m, NEW t, MemoryOK(m, t), NEW o \in Candidates(m)
    PROVE  /\ Trimmed(m, Evict(m, o), t)
           /\ o \in Entries(m) /\ Entries(Evict(m, o)) = Entries(m) \ {o}
  <1> DEFINE x == Evict(m, o)
  <1>1. /\ CacheOK(m) /\ o \in Entries(m) /\ o \in CacheOwner /\ o \in PageOwner
        /\ m \in Memory /\ Consistent(m.pool)
    BY CandidateIsEntry, OwnersDiffer DEF MemoryOK, CacheOK, Entries
  <1>2. /\ x \in Memory
        /\ x.pool = Release(m.pool, o) /\ x.len = m.len
        /\ x.kv = [b \in Block |-> IF b \in x.pool.free THEN Blank ELSE m.kv[b]]
        /\ x.crefs = [b \in Block |-> IF Holds(m.pool, o, b) THEN m.crefs[b] - 1 ELSE m.crefs[b]]
        /\ x.lru = Without(m.lru, o)
        /\ \A s \in Prompts : x.pred[s] = m.pred[s] \/ (o = ExactOwner(s) /\ x.pred[s] = NoToken)
    BY <1>1, EvictFields
  <1> HIDE DEF x
  <1>3. /\ Consistent(x.pool)
        /\ x.pool.owns[o] = << >>
        /\ \A y \in PageOwner \ {o} : Keeps(m, x, y)
        /\ \A y \in PageOwner \ {o} : x.pool.owns[y] = m.pool.owns[y]
        /\ \A y \in PageOwner, b \in Block :
              Holds(x.pool, y, b) <=> (y # o /\ Holds(m.pool, y, b))
    BY <1>1, <1>2, ReleaseLeaves
  <1>4. Entries(x) = Entries(m) \ {o}
    <2>1. \A y \in CacheOwner : Present(x, y) <=> (y # o /\ Present(m, y))
      BY <1>3, OwnersDiffer DEF Present
    <2> QED BY <2>1 DEF Entries
  <1>5. IsInjective(x.lru) /\ ToSet(x.lru) = Entries(x)
    <2>1. m.lru \in Seq(CacheOwner) /\ IsInjective(m.lru) /\ ToSet(m.lru) = Entries(m)
      BY <1>1, MemoryFields DEF CacheOK
    <2>2. ToSet(x.lru) = ToSet(m.lru) \ {o} /\ IsInjective(x.lru)
      BY <1>2, <2>1, WithoutProperties
    <2> QED BY <2>1, <2>2, <1>4
  <1>6. ASSUME NEW b \in Block
        PROVE  x.crefs[b] = Cardinality(CacheHolders(x, b)) /\ CacheHolders(x, b) = CacheHolders(m, b) \ {o}
    <2>1. CacheHolders(x, b) = CacheHolders(m, b) \ {o}
      BY <1>3, OwnersDiffer DEF CacheHolders
    <2>2. m.crefs[b] = Cardinality(CacheHolders(m, b))
      BY <1>1 DEF CacheOK, CacheRefsExact, CacheHolders
    <2>3. o \in CacheHolders(m, b) <=> Holds(m.pool, o, b)
      BY <1>1 DEF CacheHolders
    <2>4. Cardinality(CacheHolders(m, b) \ {o}) =
             IF o \in CacheHolders(m, b) THEN Cardinality(CacheHolders(m, b)) - 1
             ELSE Cardinality(CacheHolders(m, b))
      BY CacheHoldersFinite, FS_RemoveElement
    <2> QED BY <1>2, <2>1, <2>2, <2>3, <2>4
  <1>7. CacheRefsExact(x)
    BY <1>6 DEF CacheRefsExact, CacheHolders
  <1>8. CachedBlocks(x) \subseteq CachedBlocks(m)
    <2>1. \A b \in Block : m.crefs[b] \in Nat
      BY <1>1, MemoryFields
    <2>2. \A b \in Block : x.crefs[b] > 0 => m.crefs[b] > 0
      BY <1>2, <2>1
    <2> QED BY <2>2 DEF CachedBlocks
  <1>9. \A p \in Nodes(x) : p \in Nodes(m) /\ NodeOwner(p) # o /\ Keeps(m, x, NodeOwner(p))
    BY <1>3, <1>4, OwnersDiffer DEF Nodes, Present, Entries
  <1>10. RadixClosed(x)
    <2> SUFFICES ASSUME NEW p \in Nodes(x), Len(p) > BlockSize
                 PROVE  Prefix(p, Len(p) - BlockSize) \in Nodes(x)
      BY DEF RadixClosed
    <2> DEFINE q == Prefix(p, Len(p) - BlockSize)
    <2>1. q \in Nodes(m) /\ p \in Nodes(m)
      BY <1>1, <1>9 DEF CacheOK, RadixClosed
    <2>2. p \in Seq(Token) /\ Len(p) \in Nat /\ BlockSize \in Nat \ {0}
      BY <2>1, NodePathFacts, KVAssumption DEF Nodes
    <2>3. Len(p) - BlockSize \in 0 .. Len(p)
      BY <2>2
    <2>4. Len(q) = Len(p) - BlockSize
      BY <2>2, <2>3 DEF Prefix
    <2>5. Len(p) = Len(q) + BlockSize /\ Prefix(p, Len(q)) = q
      BY <2>2, <2>4
    <2>6. ~IsLeaf(m, q)
      BY <2>1, <2>5 DEF IsLeaf
    <2> HIDE DEF q
    <2>7. o # NodeOwner(q)
      BY <2>6, CandidateIsEntry, OwnersDiffer
    <2>8. q \in NodePath /\ Present(m, NodeOwner(q)) /\ NodeOwner(q) \in PageOwner \ {o}
      BY <2>1, <2>7, OwnersDiffer DEF Nodes
    <2>9. q \in Nodes(x)
      BY <2>8, <1>3 DEF Nodes, Present
    <2> QED BY <2>9 DEF q
  <1>11. \A s \in Prompts : Present(x, ExactOwner(s)) =>
            (Present(m, ExactOwner(s)) /\ Keeps(m, x, ExactOwner(s)))
    BY <1>3, OwnersDiffer DEF Present
  <1>12. /\ \A p \in Nodes(x) : NodeEntry(x, p)
         /\ \A s \in Prompts : Present(x, ExactOwner(s)) => ExactEntry(x, s)
    BY <1>1, <1>2, <1>9, <1>11, EntriesKept
  <1>13. CacheOK(x)
    BY <1>2, <1>3, <1>5, <1>7, <1>10, <1>12 DEF CacheOK
  <1>14. ASSUME NEW r \in Req PROVE Spared(m, x, r) /\ RequestOK(x, r, t[r])
    <2>1. RequestOK(m, r, t[r]) /\ r \in PageOwner \ {o}
      BY <1>1, OwnersDiffer DEF MemoryOK
    <2>2. Keeps(m, x, r) /\ x.len[r] = m.len[r] /\ x.pool.owns[r] = m.pool.owns[r]
      BY <2>1, <1>2, <1>3
    <2>3. ASSUME NEW i \in 1 .. Len(m.pool.owns[r]), Alone(m, r, i), NEW y \in PageOwner \ {r}
          PROVE  ~Holds(x.pool, y, m.pool.owns[r][i])
      <3>1. m.pool.owns[r][i] \in Block
        BY <2>1, <1>1, PoolFacts
      <3> QED BY <2>3, <3>1, <1>3 DEF Alone
    <2>4. Spared(m, x, r)
      BY <2>2, <2>3 DEF Spared, Alone
    <2> QED BY <2>1, <2>4, <1>1, <1>2, SparedRequest
  <1>18. PredsKept(m, x)
    BY <1>2, <1>3, <1>11 DEF PredsKept, Present
  <1>15. MemoryOK(x, t)
    BY <1>13, <1>14 DEF MemoryOK
  <1>16. \A y \in PageOwner \ CacheOwner : x.pool.owns[y] = m.pool.owns[y]
    BY <1>1, <1>3
  <1>17. \A y \in CacheOwner : x.pool.owns[y] = m.pool.owns[y] \/ x.pool.owns[y] = << >>
    BY <1>3, OwnersDiffer
  <1>19. Spares(m, x, Req)
    BY <1>14 DEF Spares
  <1> QED BY <1>1, <1>2, <1>4, <1>8, <1>15, <1>16, <1>17, <1>18, <1>19 DEF Trimmed, x

\* The least recently used candidate is one of them.
LEMMA EvictLRUPicks ==
    ASSUME NEW m, NEW t, MemoryOK(m, t), NEW C, C \subseteq Candidates(m), C # {}
    PROVE  \E o \in C : EvictLRU(m, C) = Evict(m, o)
  <1> DEFINE T == {j \in 1 .. Len(m.lru) : m.lru[j] \in C}
             First(j) == m.lru[j] \in C /\ \A h \in 1 .. j - 1 : m.lru[h] \notin C
  <1>1. m.lru \in Seq(CacheOwner) /\ ToSet(m.lru) = Entries(m)
    BY MemoryFields DEF MemoryOK, CacheOK
  <1>2. PICK o \in C : TRUE
    OBVIOUS
  <1>3. o \in ToSet(m.lru)
    BY <1>1, <1>2, CandidateIsEntry
  <1>4. PICK j \in 1 .. Len(m.lru) : m.lru[j] = o
    BY <1>1, <1>3, ToSetIndexed
  <1>5. T # {} /\ T \subseteq Nat
    BY <1>4
  <1>6. Min(T) \in T /\ \A x \in T : Min(T) <= x
    <2> HIDE DEF T
    <2> QED BY <1>5, MinProperties
  <1>7. Len(m.lru) \in Nat
    BY <1>1
  <1>8. PICK a \in T : \A x \in T : a <= x
    BY <1>6
  <1>9. \E i \in 1 .. Len(m.lru) : First(i)
    <2>1. ASSUME NEW h \in 1 .. a - 1 PROVE m.lru[h] \notin C
      <3>1. h \in 1 .. Len(m.lru) /\ ~(a <= h)
        BY <1>7
      <3> QED BY <3>1, <1>8
    <2> QED BY <2>1
  <1> DEFINE i == CHOOSE k \in 1 .. Len(m.lru) : First(k)
  <1>10. First(i)
    BY <1>9
  <1>11. EvictLRU(m, C) = Evict(m, m.lru[i])
    BY DEF EvictLRU
  <1> QED BY <1>10, <1>11

LEMMA EvictLRUKeeps ==
    ASSUME NEW m, NEW t, MemoryOK(m, t), NEW C, C \subseteq Candidates(m), C # {}
    PROVE  /\ Trimmed(m, EvictLRU(m, C), t)
           /\ \E o \in Entries(m) : Entries(EvictLRU(m, C)) = Entries(m) \ {o}
  <1>1. PICK o \in C : EvictLRU(m, C) = Evict(m, o)
    BY EvictLRUPicks
  <1> QED BY <1>1, EvictKeeps

LEMMA TrimmedSelf ==
    ASSUME NEW m, NEW t, MemoryOK(m, t)
    PROVE  Trimmed(m, m, t)
  BY SparedSelf DEF Trimmed, Spares, PredsKept

LEMMA TrimmedAgain ==
    ASSUME NEW m, NEW x, NEW y, NEW t, Trimmed(m, x, t), Trimmed(x, y, t)
    PROVE  Trimmed(m, y, t)
  <1>1. Spares(m, y, Req) /\ PredsKept(m, y)
    BY SparesAgain, PredsAgain DEF Trimmed
  <1> QED BY <1>1 DEF Trimmed

\* A table of numbers has a greatest one.
LEMMA GreatestIndex ==
    ASSUME NEW n \in Nat \ {0}, NEW g \in [1 .. n -> Nat]
    PROVE  \E i \in 1 .. n : \A j \in 1 .. n : g[j] <= g[i]
  <1> DEFINE T == {k \in Nat : k \in 1 .. n => \E i \in 1 .. k : \A j \in 1 .. k : g[j] <= g[i]}
  <1>1. 0 \in T
    OBVIOUS
  <1>2. ASSUME NEW k \in Nat, k \in T PROVE k + 1 \in T
    <2> SUFFICES ASSUME k + 1 \in 1 .. n
                 PROVE  \E i \in 1 .. k + 1 : \A j \in 1 .. k + 1 : g[j] <= g[i]
      OBVIOUS
    <2>1. CASE k = 0
      <3>1. \A j \in 1 .. k + 1 : j = 1
        BY <2>1
      <3>2. 1 \in 1 .. k + 1 /\ g[1] <= g[1]
        BY <2>1
      <3> QED BY <3>1, <3>2
    <2>2. CASE k # 0
      <3>1. k \in 1 .. n
        BY <2>2
      <3>2. PICK i \in 1 .. k : \A j \in 1 .. k : g[j] <= g[i]
        BY <3>1, <1>2
      <3>3. g[i] \in Nat /\ g[k + 1] \in Nat /\ i \in 1 .. k + 1 /\ k + 1 \in 1 .. k + 1
        BY <3>1, <3>2
      <3>4. \A j \in 1 .. k + 1 : j \in 1 .. k \/ j = k + 1
        OBVIOUS
      <3>5. \A j \in 1 .. k : g[j] \in Nat
        BY <3>1
      <3>6. CASE g[k + 1] <= g[i]
        BY <3>2, <3>3, <3>4, <3>6
      <3>7. CASE g[i] <= g[k + 1]
        <4>1. \A j \in 1 .. k + 1 : g[j] <= g[k + 1]
          BY <3>2, <3>3, <3>4, <3>5, <3>7
        <4> QED BY <4>1, <3>3
      <3> QED BY <3>3, <3>6, <3>7
    <2> QED BY <2>1, <2>2
  <1>3. n \in T
    <2> HIDE DEF T
    <2> QED BY <1>1, <1>2, SetInduction
  <1> QED BY <1>3

\* As long as a block is cached there is an entry to evict: the longest node has no child.
LEMMA CachedHasCandidate ==
    ASSUME NEW m, CacheOK(m), Entries(m) # {}
    PROVE  Candidates(m) # {}
  <1>1. m.lru \in Seq(CacheOwner) /\ ToSet(m.lru) = Entries(m)
    BY MemoryFields DEF CacheOK
  <1>2. CASE \E s \in Prompts : Present(m, ExactOwner(s))
    BY <1>2 DEF Candidates
  <1>3. CASE ~ \E s \in Prompts : Present(m, ExactOwner(s))
    <2> DEFINE n == Len(m.lru)
               g == [j \in 1 .. n |-> Len(m.lru[j][2])]
    <2>1. \A o \in Entries(m) : \E p \in Nodes(m) : o = NodeOwner(p)
      BY <1>3 DEF Entries, CacheOwner, Nodes
    <2>2. \A j \in 1 .. n : \E p \in Nodes(m) : m.lru[j] = NodeOwner(p) /\ m.lru[j][2] = p
      <3> SUFFICES ASSUME NEW j \in 1 .. n
                   PROVE \E p \in Nodes(m) : m.lru[j] = NodeOwner(p) /\ m.lru[j][2] = p
        OBVIOUS
      <3>1. m.lru[j] \in Entries(m)
        BY <1>1, ToSetIndexed
      <3>2. PICK p \in Nodes(m) : m.lru[j] = NodeOwner(p)
        BY <2>1, <3>1
      <3> QED BY <3>2 DEF NodeOwner
    <2>3. \A j \in 1 .. n : m.lru[j][2] \in Nodes(m) /\ Len(m.lru[j][2]) \in Nat
      BY <2>2, NodePathFacts DEF Nodes
    <2>4. n \in Nat \ {0}
      <3>1. PICK o \in Entries(m) : TRUE
        OBVIOUS
      <3>2. \E j \in 1 .. n : m.lru[j] = o
        BY <1>1, <3>1, ToSetIndexed
      <3> QED BY <3>2, <1>1
    <2>5. g \in [1 .. n -> Nat] /\ \A j \in 1 .. n : g[j] = Len(m.lru[j][2])
      BY <2>3
    <2>6. PICK i \in 1 .. n : \A j \in 1 .. n : g[j] <= g[i]
      <3> HIDE DEF g, n
      <3> QED BY <2>4, <2>5, GreatestIndex
    <2> DEFINE p == m.lru[i][2]
    <2>7. p \in Nodes(m) /\ Len(p) \in Nat
      BY <2>3
    <2>8. \A q \in Nodes(m) : Len(q) <= Len(p)
      <3> SUFFICES ASSUME NEW q \in Nodes(m) PROVE Len(q) <= Len(p)
        OBVIOUS
      <3>1. NodeOwner(q) \in Entries(m)
        BY OwnersDiffer DEF Nodes, Entries
      <3>2. PICK j \in 1 .. n : m.lru[j] = NodeOwner(q)
        BY <1>1, <3>1, ToSetIndexed
      <3>3. m.lru[j][2] = q
        BY <3>2 DEF NodeOwner
      <3> QED BY <3>3, <2>5, <2>6
    <2> HIDE DEF p
    <2>9. IsLeaf(m, p)
      <3> SUFFICES ASSUME NEW q \in Nodes(m), Len(q) = Len(p) + BlockSize PROVE FALSE
        BY DEF IsLeaf
      <3>1. BlockSize \in Nat \ {0} /\ Len(q) <= Len(p)
        BY <2>8, KVAssumption
      <3> QED BY <3>1, <2>7
    <2> QED BY <2>7, <2>9 DEF Candidates
  <1> QED BY <1>2, <1>3

\* With no entry left no block is cached.
LEMMA NoEntryNoBlock ==
    ASSUME NEW m, CacheOK(m), Entries(m) = {}
    PROVE  CachedBlocks(m) = {}
  <1> SUFFICES ASSUME NEW b \in Block PROVE ~(m.crefs[b] > 0)
    BY DEF CachedBlocks
  <1>1. m.crefs[b] = Cardinality(CacheHolders(m, b))
    BY DEF CacheOK, CacheRefsExact, CacheHolders
  <1>2. CacheHolders(m, b) = {}
    <2> SUFFICES ASSUME NEW o \in CacheOwner, Holds(m.pool, o, b) PROVE FALSE
      BY DEF CacheHolders
    <2>1. m.pool.owns[o] = << >>
      BY DEF Entries, Present
    <2> QED BY <2>1 DEF Holds
  <1>3. Cardinality(CacheHolders(m, b)) = 0
    BY <1>2, FS_EmptySet
  <1> QED BY <1>1, <1>3

\* A recursion that stays in S.
LEMMA RecursionStays ==
    ASSUME NEW n \in Nat, NEW S, NEW c \in S, NEW G \in [1 .. n -> [S -> S]], NEW k,
           k[0] = c, \A i \in 1 .. n : k[i - 1] \in S => k[i] = G[i][k[i - 1]]
    PROVE  /\ \A i \in 0 .. n : k[i] \in S
           /\ \A i \in 1 .. n : k[i] = G[i][k[i - 1]]
  <1> DEFINE U == {i \in 0 .. n : k[i] \in S}
  <1>1. 0 \in U
    OBVIOUS
  <1>2. ASSUME NEW i \in 0 .. n - 1, i \in U PROVE i + 1 \in U
    <2>1. i + 1 \in 1 .. n /\ i + 1 \in 0 .. n /\ (i + 1) - 1 = i
      OBVIOUS
    <2>2. k[i + 1] = G[i + 1][k[i]] /\ k[i] \in S
      BY <1>2, <2>1
    <2>3. k[i + 1] \in S
      BY <2>1, <2>2
    <2> QED BY <2>1, <2>3
  <1>3. \A i \in 0 .. n - 1 : i \in U => i + 1 \in U
    BY <1>2
  <1>4. \A i \in 0 .. n : i \in U
    <2> HIDE DEF U
    <2> QED BY <1>1, <1>3, BoundedInduction
  <1> QED BY <1>4

-----------------------------------------------------------------------------
(* The two eviction loops. *)

Over(m) == Cardinality(CachedBlocks(m)) > CacheBlocks

LimitStep(m) == IF Over(m) THEN EvictLRU(m, Candidates(m)) ELSE m

FreeableOnes(m) == {o \in Candidates(m) : Freeable(m, o)}

FreeStep(m, n) ==
    IF FreeCount(m) < n /\ FreeableOnes(m) # {} THEN EvictLRU(m, FreeableOnes(m)) ELSE m

LEMMA OverHasEntry ==
    ASSUME NEW m, CacheOK(m), Over(m)
    PROVE  Entries(m) # {}
  <1> SUFFICES ASSUME Entries(m) = {} PROVE FALSE
    OBVIOUS
  <1>1. Cardinality(CachedBlocks(m)) = 0
    BY NoEntryNoBlock, FS_EmptySet
  <1> QED BY <1>1, KVAssumption DEF Over

LEMMA LimitStepKeeps ==
    ASSUME NEW m, NEW t, MemoryOK(m, t)
    PROVE  /\ Trimmed(m, LimitStep(m), t)
           /\ Over(m) => \E o \in Entries(m) : Entries(LimitStep(m)) = Entries(m) \ {o}
  <1>1. CASE Over(m)
    <2>1. Candidates(m) # {}
      BY <1>1, OverHasEntry, CachedHasCandidate DEF MemoryOK
    <2> QED BY <1>1, <2>1, EvictLRUKeeps DEF LimitStep
  <1>2. CASE ~Over(m)
    BY <1>2, TrimmedSelf DEF LimitStep
  <1> QED BY <1>1, <1>2

LEMMA FreeStepKeeps ==
    ASSUME NEW m, NEW t, MemoryOK(m, t), NEW n
    PROVE  Trimmed(m, FreeStep(m, n), t)
  <1>1. CASE FreeCount(m) < n /\ FreeableOnes(m) # {}
    <2>1. FreeableOnes(m) \subseteq Candidates(m)
      BY DEF FreeableOnes
    <2> QED BY <1>1, <2>1, EvictLRUKeeps DEF FreeStep
  <1>2. CASE ~(FreeCount(m) < n /\ FreeableOnes(m) # {})
    BY <1>2, TrimmedSelf DEF FreeStep
  <1> QED BY <1>1, <1>2

\* A list without repetitions is as long as its set is large.
LEMMA EntriesCounted ==
    ASSUME NEW m, CacheOK(m)
    PROVE  /\ IsFiniteSet(Entries(m)) /\ Cardinality(Entries(m)) = Len(m.lru)
           /\ Len(m.lru) \in Nat
  <1>1. m.lru \in Seq(CacheOwner) /\ IsInjective(m.lru) /\ ToSet(m.lru) = Entries(m)
    BY MemoryFields DEF CacheOK
  <1>2. /\ Len(m.lru) \in Nat /\ m.lru \in [1 .. Len(m.lru) -> Entries(m)]
        /\ \A o \in Entries(m) : \E i \in 1 .. Len(m.lru) : m.lru[i] = o
        /\ \A i, j \in 1 .. Len(m.lru) : m.lru[i] = m.lru[j] => i = j
    <2>1. m.lru \in [1 .. Len(m.lru) -> CacheOwner] /\ Len(m.lru) \in Nat
      BY <1>1
    <2>2. \A i \in 1 .. Len(m.lru) : m.lru[i] \in Entries(m)
      BY <1>1, ToSetIndexed
    <2> QED BY <1>1, <2>1, <2>2, ToSetIndexed
  <1>3. m.lru \in Bijection(1 .. Len(m.lru), Entries(m))
    BY <1>1, <1>2 DEF Bijection, Injection, Surjection
  <1>4. ExistsBijection(1 .. Len(m.lru), Entries(m))
    BY <1>3 DEF ExistsBijection
  <1> QED BY <1>2, <1>4, FS_NatBijection, FS_CountingElements

\* evict to the limit: every turn over the limit gives up one entry, and there are as
\* many turns as entries.
LEMMA EvictToLimitKeeps ==
    ASSUME NEW m, NEW t, MemoryOK(m, t)
    PROVE  Trimmed(m, EvictToLimit(m), t) /\ ~Over(EvictToLimit(m))
  <1> DEFINE n == Len(m.lru)
             S == {x \in Memory : Trimmed(m, x, t)}
             G == [i \in 1 .. n |-> [x \in S |-> LimitStep(x)]]
             step(f) == [i \in 0 .. n |-> IF i = 0 THEN m ELSE LimitStep(f[i - 1])]
             k == CHOOSE f : f = step(f)
  <1>0. EvictToLimit(m) = k[n]
    BY DEF EvictToLimit, LimitStep, Over
  <1>1. n \in Nat /\ m \in S
    BY EntriesCounted, TrimmedSelf DEF MemoryOK, CacheOK
  <1> HIDE DEF n
  <1>2. ASSUME NEW x \in S PROVE LimitStep(x) \in S
    <2>1. MemoryOK(x, t) /\ Trimmed(m, x, t)
      BY DEF Trimmed
    <2>2. Trimmed(x, LimitStep(x), t)
      BY <2>1, LimitStepKeeps
    <2>3. Trimmed(m, LimitStep(x), t)
      BY <2>1, <2>2, TrimmedAgain
    <2>4. LimitStep(x) \in Memory
      BY <2>3 DEF Trimmed, MemoryOK, CacheOK
    <2> QED BY <2>3, <2>4
  <1>3. /\ G \in [1 .. n -> [S -> S]]
        /\ \A i \in 1 .. n : \A x \in S : G[i][x] = LimitStep(x)
    BY <1>2
  <1> HIDE DEF G, S
  <1>4. PICK h : Recursion(h, n, S, m, G)
    BY <1>1, <1>3, RecursionExists
  <1>5. h \in [0 .. n -> S] /\ h[0] = m /\ \A i \in 1 .. n : h[i] = LimitStep(h[i - 1])
    <2>1. h \in [0 .. n -> S] /\ h[0] = m /\ \A i \in 1 .. n : h[i] = G[i][h[i - 1]]
      BY <1>4 DEF Recursion
    <2>2. \A i \in 1 .. n : h[i - 1] \in S
      BY <2>1, <1>1
    <2> QED BY <2>1, <2>2, <1>3
  <1>6. h = step(h)
    <2>1. \A i \in 0 .. n : h[i] = IF i = 0 THEN m ELSE LimitStep(h[i - 1])
      BY <1>1, <1>5
    <2> QED BY <2>1, <1>5
  <1>7. k = step(k)
    BY <1>6
  <1> HIDE DEF k
  <1>8. k[0] = m /\ \A i \in 1 .. n : k[i] = LimitStep(k[i - 1])
    <2>1. \A i \in 0 .. n : k[i] = IF i = 0 THEN m ELSE LimitStep(k[i - 1])
      BY <1>7
    <2> QED BY <2>1, <1>1
  <1>9. \A i \in 0 .. n : k[i] \in S
    <2>1. \A i \in 1 .. n : k[i - 1] \in S => k[i] = G[i][k[i - 1]]
      BY <1>3, <1>8
    <2> QED BY <2>1, <1>1, <1>3, <1>8, RecursionStays
  <1>10. \A i \in 0 .. n : Trimmed(m, k[i], t) /\ MemoryOK(k[i], t) /\ CacheOK(k[i])
    BY <1>9 DEF S, Trimmed, MemoryOK
  <1> DEFINE U == {i \in 0 .. n : Over(k[i]) => Cardinality(Entries(k[i])) <= n - i}
  <1>11. 0 \in U
    <2>1. Cardinality(Entries(m)) = n
      BY EntriesCounted DEF MemoryOK, n
    <2> QED BY <2>1, <1>1, <1>8
  <1>12. ASSUME NEW i \in 0 .. n - 1, i \in U PROVE i + 1 \in U
    <2>1. i + 1 \in 1 .. n /\ i + 1 \in 0 .. n /\ (i + 1) - 1 = i /\ i \in 0 .. n
      BY <1>1
    <2>2. k[i + 1] = LimitStep(k[i])
      BY <2>1, <1>8
    <2>3. CASE Over(k[i])
      <3>1. PICK o \in Entries(k[i]) : Entries(k[i + 1]) = Entries(k[i]) \ {o}
        BY <2>1, <2>2, <2>3, <1>10, LimitStepKeeps
      <3>2. IsFiniteSet(Entries(k[i])) /\ Cardinality(Entries(k[i])) \in Nat
        BY <2>1, <1>10, EntriesCounted
      <3>3. Cardinality(Entries(k[i + 1])) = Cardinality(Entries(k[i])) - 1
        BY <3>1, <3>2, FS_RemoveElement
      <3>4. Cardinality(Entries(k[i])) <= n - i
        BY <1>12, <2>3
      <3>5. Cardinality(Entries(k[i + 1])) <= n - (i + 1)
        BY <3>2, <3>3, <3>4, <1>1
      <3> QED BY <3>5, <2>1
    <2>4. CASE ~Over(k[i])
      BY <2>1, <2>2, <2>4 DEF LimitStep
    <2> QED BY <2>3, <2>4
  <1>13. n \in U
    <2>1. \A i \in 0 .. n - 1 : i \in U => i + 1 \in U
      BY <1>12
    <2> HIDE DEF U
    <2>2. \A i \in 0 .. n : i \in U
      BY <1>1, <1>11, <2>1, BoundedInduction
    <2> QED BY <2>2, <1>1
  <1>14. ~Over(k[n])
    <2> SUFFICES ASSUME Over(k[n]) PROVE FALSE
      OBVIOUS
    <2>1. n \in 0 .. n
      BY <1>1
    <2>2. IsFiniteSet(Entries(k[n])) /\ Cardinality(Entries(k[n])) \in Nat
      BY <2>1, <1>10, EntriesCounted
    <2>3. Cardinality(Entries(k[n])) <= 0
      BY <1>1, <1>13
    <2>4. Entries(k[n]) = {}
      BY <2>2, <2>3, FS_EmptySet
    <2> QED BY <2>1, <2>4, <1>10, OverHasEntry
  <1> QED BY <1>0, <1>1, <1>10, <1>14

LEMMA EvictUntilFreeKeeps ==
    ASSUME NEW m, NEW t, MemoryOK(m, t), NEW c
    PROVE  Trimmed(m, EvictUntilFree(m, c), t)
  <1> DEFINE n == Len(m.lru)
             S == {x \in Memory : Trimmed(m, x, t)}
             G == [i \in 1 .. n |-> [x \in S |-> FreeStep(x, c)]]
             step(f) == [i \in 0 .. n |-> IF i = 0 THEN m ELSE FreeStep(f[i - 1], c)]
             k == CHOOSE f : f = step(f)
  <1>0. EvictUntilFree(m, c) = k[n]
    BY DEF EvictUntilFree, FreeStep, FreeableOnes
  <1>1. n \in Nat /\ m \in S
    BY EntriesCounted, TrimmedSelf DEF MemoryOK, CacheOK
  <1> HIDE DEF n
  <1>2. ASSUME NEW x \in S PROVE FreeStep(x, c) \in S
    <2>1. MemoryOK(x, t) /\ Trimmed(m, x, t)
      BY DEF Trimmed
    <2>2. Trimmed(x, FreeStep(x, c), t)
      BY <2>1, FreeStepKeeps
    <2>3. Trimmed(m, FreeStep(x, c), t)
      BY <2>1, <2>2, TrimmedAgain
    <2>4. FreeStep(x, c) \in Memory
      BY <2>3 DEF Trimmed, MemoryOK, CacheOK
    <2> QED BY <2>3, <2>4
  <1>3. /\ G \in [1 .. n -> [S -> S]]
        /\ \A i \in 1 .. n : \A x \in S : G[i][x] = FreeStep(x, c)
    BY <1>2
  <1> HIDE DEF G, S
  <1>4. PICK h : Recursion(h, n, S, m, G)
    BY <1>1, <1>3, RecursionExists
  <1>5. h \in [0 .. n -> S] /\ h[0] = m /\ \A i \in 1 .. n : h[i] = FreeStep(h[i - 1], c)
    <2>1. h \in [0 .. n -> S] /\ h[0] = m /\ \A i \in 1 .. n : h[i] = G[i][h[i - 1]]
      BY <1>4 DEF Recursion
    <2>2. \A i \in 1 .. n : h[i - 1] \in S
      BY <2>1, <1>1
    <2> QED BY <2>1, <2>2, <1>3
  <1>6. h = step(h)
    <2>1. \A i \in 0 .. n : h[i] = IF i = 0 THEN m ELSE FreeStep(h[i - 1], c)
      BY <1>1, <1>5
    <2> QED BY <2>1, <1>5
  <1>7. k = step(k)
    BY <1>6
  <1> HIDE DEF k
  <1>8. k[0] = m /\ \A i \in 1 .. n : k[i] = FreeStep(k[i - 1], c)
    <2>1. \A i \in 0 .. n : k[i] = IF i = 0 THEN m ELSE FreeStep(k[i - 1], c)
      BY <1>7
    <2> QED BY <2>1, <1>1
  <1>9. \A i \in 0 .. n : k[i] \in S
    <2>1. \A i \in 1 .. n : k[i - 1] \in S => k[i] = G[i][k[i - 1]]
      BY <1>3, <1>8
    <2> QED BY <2>1, <1>1, <1>3, <1>8, RecursionStays
  <1>10. Trimmed(m, k[n], t)
    BY <1>1, <1>9 DEF S
  <1> QED BY <1>0, <1>10

-----------------------------------------------------------------------------
(* Sharing pages: a cache entry or a request attaches to pages somebody holds. *)

\* After an attach the new owner holds the blocks s, everybody else what they held.
LEMMA AttachLeaves ==
    ASSUME NEW p, Consistent(p), NEW o \in PageOwner, NEW s \in Seq(Block), CanAttach(p, o, s)
    PROVE  /\ Consistent(Attach(p, o, s))
           /\ Attach(p, o, s).free = p.free
           /\ Attach(p, o, s).owns[o] = s
           /\ \A y \in PageOwner \ {o} : Attach(p, o, s).owns[y] = p.owns[y]
           /\ \A y \in PageOwner, b \in Block :
                 Holds(Attach(p, o, s), y, b) <=>
                    (Holds(p, y, b) \/ (y = o /\ \E i \in 1 .. Len(s) : s[i] = b))
  <1> DEFINE q == Attach(p, o, s)
  <1>1. Consistent(q)
    BY AttachOK
  <1>2. p.owns \in [PageOwner -> Seq(Block)] /\ p.owns[o] = << >>
    BY PoolFacts DEF CanAttach
  <1>3. q.free = p.free /\ q.owns[o] = s /\ \A y \in PageOwner \ {o} : q.owns[y] = p.owns[y]
    BY <1>2 DEF Attach
  <1> HIDE DEF q
  <1>4. \A b : ~Holds(p, o, b)
    BY <1>2 DEF Holds
  <1>5. \A y \in PageOwner, b \in Block :
           Holds(q, y, b) <=> (Holds(p, y, b) \/ (y = o /\ \E i \in 1 .. Len(s) : s[i] = b))
    <2> SUFFICES ASSUME NEW y \in PageOwner, NEW b \in Block
                 PROVE  Holds(q, y, b) <=> (Holds(p, y, b) \/ (y = o /\ \E i \in 1 .. Len(s) : s[i] = b))
      OBVIOUS
    <2>1. CASE y = o
      BY <2>1, <1>3, <1>4 DEF Holds
    <2>2. CASE y # o
      BY <2>2, <1>3 DEF Holds
    <2> QED BY <2>1, <2>2
  <1> QED BY <1>1, <1>3, <1>5 DEF q

\* A step in which only o's holdings grow, by the blocks s, keeps a request whose
\* pages ahead are not among s.
LEMMA SharedRequestKept ==
    ASSUME NEW m \in Memory, Consistent(m.pool), NEW x \in Memory, NEW r \in Req, NEW t,
           RequestOK(m, r, t), x.len[r] = m.len[r], x.kv = m.kv,
           NEW o \in PageOwner \ {r}, NEW s \in Seq(Block),
           x.pool.owns[r] = m.pool.owns[r],
           \A y \in PageOwner, b \in Block :
              Holds(x.pool, y, b) <=> (Holds(m.pool, y, b) \/ (y = o /\ \E i \in 1 .. Len(s) : s[i] = b)),
           \A i \in 1 .. Len(m.pool.owns[r]) :
              Ahead(m, r, i) /\ Alone(m, r, i) => \A j \in 1 .. Len(s) : s[j] # m.pool.owns[r][i]
    PROVE  RequestOK(x, r, t)
  <1>1. Keeps(m, x, r)
    BY DEF Keeps
  <1>2. ASSUME NEW i \in 1 .. Len(m.pool.owns[r]), Ahead(m, r, i), Alone(m, r, i), NEW y \in PageOwner \ {r}
        PROVE  ~Holds(x.pool, y, m.pool.owns[r][i])
    <2>1. m.pool.owns[r][i] \in Block
      BY PoolFacts, OwnersDiffer
    <2>2. ~Holds(m.pool, y, m.pool.owns[r][i])
      BY <1>2 DEF Alone
    <2> QED BY <2>1, <2>2, <1>2
  <1> QED BY <1>1, <1>2, RequestKept

LEMMA RetainFields ==
    ASSUME NEW m \in Memory, NEW o \in CacheOwner, NEW s \in Seq(Block),
           Attach(m.pool, o, s) \in Pool
    PROVE  LET x == Retain(m, o, s)
           IN  /\ x \in Memory
               /\ x.pool = Attach(m.pool, o, s) /\ x.len = m.len /\ x.kv = m.kv /\ x.pred = m.pred
               /\ x.crefs = [b \in Block |-> IF \E i \in 1 .. Len(s) : s[i] = b
                                             THEN m.crefs[b] + 1 ELSE m.crefs[b]]
               /\ ToSet(x.lru) = ToSet(m.lru) \cup {o}
               /\ IsInjective(m.lru) => IsInjective(x.lru)
  <1> DEFINE p == Attach(m.pool, o, s)
             cr == [b \in Block |-> IF \E i \in 1 .. Len(s) : s[i] = b
                                    THEN m.crefs[b] + 1 ELSE m.crefs[b]]
             w == [m EXCEPT !.pool = p, !.crefs = cr]
  <1>1. Retain(m, o, s) = Touch(w, o)
    BY DEF Retain
  <1>2. cr \in [Block -> Nat] /\ p \in Pool
    BY MemoryFields
  <1> HIDE DEF p, cr
  <1>3. /\ w \in Memory /\ w.pool = p /\ w.len = m.len /\ w.kv = m.kv /\ w.crefs = cr
        /\ w.lru = m.lru /\ w.pred = m.pred
    BY <1>2 DEF Memory
  <1> HIDE DEF w
  <1> QED BY <1>1, <1>3, TouchFields DEF p, cr

\* A new entry o on the blocks s.  Its own content and place in the tree are the caller's to
\* show; everything else keeps what it had.
LEMMA RetainKeeps ==
    ASSUME NEW m, NEW t, MemoryOK(m, t), NEW o \in CacheOwner, NEW s \in Seq(Block),
           CanAttach(m.pool, o, s),
           \A p \in NodePath : o = NodeOwner(p) =>
              /\ NodeEntry(Retain(m, o, s), p)
              /\ Len(p) > BlockSize => Prefix(p, Len(p) - BlockSize) \in Nodes(m),
           \A e \in Prompts : o = ExactOwner(e) => ExactEntry(Retain(m, o, s), e),
           \A r \in Req : \A i \in 1 .. Len(m.pool.owns[r]) :
              Ahead(m, r, i) /\ Alone(m, r, i) => \A j \in 1 .. Len(s) : s[j] # m.pool.owns[r][i]
    PROVE  /\ MemoryOK(Retain(m, o, s), t)
           /\ Retain(m, o, s).len = m.len /\ Retain(m, o, s).kv = m.kv
           /\ Retain(m, o, s).pred = m.pred
           /\ Retain(m, o, s).pool.owns[o] = s
           /\ \A y \in PageOwner \ {o} : Retain(m, o, s).pool.owns[y] = m.pool.owns[y]
  <1> DEFINE x == Retain(m, o, s)
  <1>1. CacheOK(m) /\ m \in Memory /\ Consistent(m.pool) /\ o \in PageOwner
    BY OwnersDiffer DEF MemoryOK, CacheOK
  <1>2. /\ Consistent(Attach(m.pool, o, s))
        /\ Attach(m.pool, o, s).owns[o] = s
        /\ \A y \in PageOwner \ {o} : Attach(m.pool, o, s).owns[y] = m.pool.owns[y]
        /\ \A y \in PageOwner, b \in Block :
              Holds(Attach(m.pool, o, s), y, b) <=>
                 (Holds(m.pool, y, b) \/ (y = o /\ \E i \in 1 .. Len(s) : s[i] = b))
    BY <1>1, AttachLeaves
  <1>3. Attach(m.pool, o, s) \in Pool
    BY <1>2, PoolFacts
  <1>4. /\ x \in Memory
        /\ x.pool = Attach(m.pool, o, s) /\ x.len = m.len /\ x.kv = m.kv /\ x.pred = m.pred
        /\ x.crefs = [b \in Block |-> IF \E i \in 1 .. Len(s) : s[i] = b
                                      THEN m.crefs[b] + 1 ELSE m.crefs[b]]
        /\ ToSet(x.lru) = ToSet(m.lru) \cup {o}
        /\ IsInjective(m.lru) => IsInjective(x.lru)
    BY <1>1, <1>3, RetainFields
  <1>5. /\ \A p \in NodePath : o = NodeOwner(p) =>
              /\ NodeEntry(x, p)
              /\ Len(p) > BlockSize => Prefix(p, Len(p) - BlockSize) \in Nodes(m)
        /\ \A e \in Prompts : o = ExactOwner(e) => ExactEntry(x, e)
    OBVIOUS
  <1> HIDE DEF x
  <1>6. /\ Consistent(x.pool)
        /\ x.pool.owns[o] = s
        /\ \A y \in PageOwner \ {o} : x.pool.owns[y] = m.pool.owns[y]
        /\ \A y \in PageOwner, b \in Block :
              Holds(x.pool, y, b) <=> (Holds(m.pool, y, b) \/ (y = o /\ \E i \in 1 .. Len(s) : s[i] = b))
    BY <1>2, <1>4
  <1>7. s # << >> /\ m.pool.owns[o] = << >> /\ \A b : ~Holds(m.pool, o, b)
    BY DEF CanAttach, Holds
  <1>8. Entries(x) = Entries(m) \cup {o}
    <2>1. \A y \in CacheOwner : Present(x, y) <=> (y = o \/ Present(m, y))
      BY <1>6, <1>7, OwnersDiffer DEF Present
    <2> QED BY <2>1 DEF Entries
  <1>9. IsInjective(x.lru) /\ ToSet(x.lru) = Entries(x)
    BY <1>1, <1>4, <1>8 DEF CacheOK
  <1>10. CacheRefsExact(x)
    <2> SUFFICES ASSUME NEW b \in Block PROVE x.crefs[b] = Cardinality(CacheHolders(x, b))
      BY DEF CacheRefsExact, CacheHolders
    <2>1. m.crefs[b] = Cardinality(CacheHolders(m, b))
      BY <1>1 DEF CacheOK, CacheRefsExact, CacheHolders
    <2>2. CASE \E i \in 1 .. Len(s) : s[i] = b
      <3>1. CacheHolders(x, b) = CacheHolders(m, b) \cup {o}
        BY <2>2, <1>6, OwnersDiffer DEF CacheHolders
      <3>2. o \notin CacheHolders(m, b)
        BY <1>7 DEF CacheHolders
      <3>3. Cardinality(CacheHolders(m, b) \cup {o}) = Cardinality(CacheHolders(m, b)) + 1
        BY <3>2, CacheHoldersFinite, FS_AddElement
      <3> QED BY <2>1, <2>2, <3>1, <3>3, <1>4
    <2>3. CASE ~ \E i \in 1 .. Len(s) : s[i] = b
      <3>1. CacheHolders(x, b) = CacheHolders(m, b)
        BY <2>3, <1>6, OwnersDiffer DEF CacheHolders
      <3> QED BY <2>1, <2>3, <3>1, <1>4
    <2> QED BY <2>2, <2>3
  <1>11. \A y \in PageOwner \ {o} : Keeps(m, x, y)
    BY <1>4, <1>6 DEF Keeps
  <1>12. /\ \A p \in Nodes(x) : (p \in Nodes(m) /\ NodeOwner(p) # o) \/ o = NodeOwner(p)
         /\ \A p \in Nodes(m) : p \in Nodes(x)
    BY <1>8, OwnersDiffer DEF Nodes, Entries
  <1>13. RadixClosed(x)
    <2> SUFFICES ASSUME NEW p \in Nodes(x), Len(p) > BlockSize
                 PROVE  Prefix(p, Len(p) - BlockSize) \in Nodes(x)
      BY DEF RadixClosed
    <2>1. CASE p \in Nodes(m)
      BY <2>1, <1>1, <1>12 DEF CacheOK, RadixClosed
    <2>2. CASE o = NodeOwner(p)
      BY <2>2, <1>5, <1>12 DEF Nodes
    <2> QED BY <2>1, <2>2, <1>12
  <1>14. ASSUME NEW p \in Nodes(x)
         PROVE (p \in Nodes(m) /\ Keeps(m, x, NodeOwner(p))) \/ NodeEntry(x, p)
    <2>1. p \in NodePath /\ NodeOwner(p) \in PageOwner
      BY OwnersDiffer DEF Nodes
    <2> QED BY <2>1, <1>5, <1>11, <1>12
  <1>15. ASSUME NEW e \in Prompts, Present(x, ExactOwner(e))
         PROVE  (Present(m, ExactOwner(e)) /\ Keeps(m, x, ExactOwner(e))) \/ ExactEntry(x, e)
    <2>1. ExactOwner(e) \in PageOwner /\ ExactOwner(e) \in CacheOwner
      BY OwnersDiffer
    <2>2. CASE ExactOwner(e) # o
      BY <2>1, <2>2, <1>6, <1>11, <1>15 DEF Present
    <2> QED BY <2>2, <1>5
  <1>16. /\ \A p \in Nodes(x) : NodeEntry(x, p)
         /\ \A e \in Prompts : Present(x, ExactOwner(e)) => ExactEntry(x, e)
    BY <1>1, <1>4, <1>14, <1>15, EntriesKept
  <1>17. CacheOK(x)
    BY <1>4, <1>6, <1>9, <1>10, <1>13, <1>16 DEF CacheOK
  <1>18. ASSUME NEW r \in Req PROVE RequestOK(x, r, t[r])
    <2>1. RequestOK(m, r, t[r]) /\ o \in PageOwner \ {r} /\ x.len[r] = m.len[r]
      BY <1>1, <1>4, OwnersDiffer DEF MemoryOK
    <2>2. x.pool.owns[r] = m.pool.owns[r]
      BY <2>1, <1>6, OwnersDiffer
    <2> QED BY <2>1, <2>2, <1>1, <1>4, <1>6, SharedRequestKept
  <1>19. MemoryOK(x, t)
    BY <1>17, <1>18 DEF MemoryOK
  <1> QED BY <1>4, <1>6, <1>19 DEF x

-----------------------------------------------------------------------------
(* Requests take, copy and return pages; the cache keeps its entries. *)

LEMMA CacheUntouched ==
    ASSUME NEW m, CacheOK(m), NEW x \in Memory, Consistent(x.pool),
           x.lru = m.lru, x.crefs = m.crefs, \A y \in CacheOwner : Keeps(m, x, y)
    PROVE  CacheOK(x) /\ CachedBlocks(x) = CachedBlocks(m)
  <1>1. \A y \in CacheOwner : x.pool.owns[y] = m.pool.owns[y]
    BY DEF Keeps
  <1>2. Entries(x) = Entries(m) /\ Nodes(x) = Nodes(m)
    BY <1>1, OwnersDiffer DEF Entries, Nodes, Present
  <1>3. \A s \in Prompts : Present(x, ExactOwner(s)) <=> Present(m, ExactOwner(s))
    BY <1>1, OwnersDiffer DEF Present
  <1>4. /\ \A p \in Nodes(x) : NodeEntry(x, p)
        /\ \A s \in Prompts : Present(x, ExactOwner(s)) => ExactEntry(x, s)
    <2>1. \A p \in Nodes(x) : p \in Nodes(m) /\ Keeps(m, x, NodeOwner(p))
      BY <1>2, OwnersDiffer DEF Nodes
    <2>2. \A s \in Prompts : Present(x, ExactOwner(s)) =>
             (Present(m, ExactOwner(s)) /\ Keeps(m, x, ExactOwner(s)))
      BY <1>3, OwnersDiffer
    <2> QED BY <2>1, <2>2, EntriesKept
  <1>5. CacheRefsExact(x)
    <2>1. \A b \in Block : CacheHolders(x, b) = CacheHolders(m, b)
      BY <1>1 DEF CacheHolders, Holds
    <2> QED BY <2>1 DEF CacheOK, CacheRefsExact, CacheHolders
  <1>6. RadixClosed(x)
    BY <1>2 DEF CacheOK, RadixClosed
  <1> QED BY <1>2, <1>4, <1>5, <1>6 DEF CacheOK, CachedBlocks

\* A request may be about another sequence that agrees on the committed positions.
LEMMA Retarget ==
    ASSUME NEW m, NEW t \in [Req -> Seq(Token)], MemoryOK(m, t), NEW r \in Req, NEW u \in Seq(Token),
           m.len[r] <= Len(u), \A q \in 1 .. m.len[r] : Prefix(u, q) = Prefix(t[r], q)
    PROVE  MemoryOK(m, [t EXCEPT ![r] = u])
  <1> DEFINE v == [t EXCEPT ![r] = u]
  <1>1. ASSUME NEW y \in Req PROVE RequestOK(m, y, v[y])
    <2>1. RequestOK(m, y, t[y])
      BY DEF MemoryOK
    <2>2. CASE y = r
      BY <2>1, <2>2 DEF RequestOK, Reads
    <2>3. CASE y # r
      BY <2>1, <2>3
    <2> QED BY <2>2, <2>3
  <1> QED BY <1>1 DEF MemoryOK

\* What a lookup hands out: pages the cache holds, with the keys and values of the first
\* count positions of the sequence.
Hit(m, toks, blocks, count) ==
    /\ count \in 0 .. Len(toks)
    /\ blocks \in Seq(Block) /\ Len(blocks) = BlocksFor(count)
    /\ \A i, j \in 1 .. Len(blocks) : i # j => blocks[i] # blocks[j]
    /\ \A j \in 1 .. Len(blocks) : \E o \in CacheOwner : Holds(m.pool, o, blocks[j])
    /\ \A q \in 1 .. count : m.kv[blocks[PageOf(q)]][OffsetOf(q)] = Prefix(toks, q)

LEMMA AttachPrefixKeeps ==
    ASSUME NEW m, NEW t \in [Req -> Seq(Token)], MemoryOK(m, t), NEW r \in Req, NEW s \in Seq(Block),
           CanAttach(m.pool, r, s), NEW n \in Nat, NEW u \in Seq(Token), Hit(m, u, s, n)
    PROVE  LET x == AttachPrefix(m, r, s, n)
           IN  /\ MemoryOK(x, [t EXCEPT ![r] = u])
               /\ x.len = [m.len EXCEPT ![r] = n] /\ x.pool.owns[r] = s
               /\ \A y \in PageOwner \ {r} : x.pool.owns[y] = m.pool.owns[y]
               /\ CachedBlocks(x) = CachedBlocks(m) /\ x.pred = m.pred
               /\ Apart(m, x, r)
  <1> DEFINE x == AttachPrefix(m, r, s, n)
             v == [t EXCEPT ![r] = u]
  <1>0. /\ Len(s) = BlocksFor(n) /\ n <= Len(u)
        /\ \A q \in 1 .. n : m.kv[s[PageOf(q)]][OffsetOf(q)] = Prefix(u, q)
        /\ \A j \in 1 .. Len(s) : \E o \in CacheOwner : Holds(m.pool, o, s[j])
    BY DEF Hit
  <1>1. CacheOK(m) /\ m \in Memory /\ Consistent(m.pool) /\ r \in PageOwner
    BY OwnersDiffer DEF MemoryOK, CacheOK
  <1>2. /\ Consistent(Attach(m.pool, r, s))
        /\ Attach(m.pool, r, s).owns[r] = s
        /\ \A y \in PageOwner \ {r} : Attach(m.pool, r, s).owns[y] = m.pool.owns[y]
        /\ \A y \in PageOwner, b \in Block :
              Holds(Attach(m.pool, r, s), y, b) <=>
                 (Holds(m.pool, y, b) \/ (y = r /\ \E i \in 1 .. Len(s) : s[i] = b))
    BY <1>1, AttachLeaves
  <1>3. /\ x \in Memory /\ x.pool = Attach(m.pool, r, s) /\ x.len = [m.len EXCEPT ![r] = n]
        /\ x.kv = m.kv /\ x.lru = m.lru /\ x.crefs = m.crefs /\ x.pred = m.pred
    <2>1. Attach(m.pool, r, s) \in Pool
      BY <1>2, PoolFacts
    <2> DEFINE p == Attach(m.pool, r, s)
    <2>2. x = [m EXCEPT !.pool = p, !.len[r] = n]
      BY DEF AttachPrefix
    <2> HIDE DEF x, p
    <2>3. p \in Pool
      BY <2>1 DEF p
    <2>4. /\ x \in Memory /\ x.pool = p /\ x.len = [m.len EXCEPT ![r] = n]
          /\ x.kv = m.kv /\ x.lru = m.lru /\ x.crefs = m.crefs /\ x.pred = m.pred
      BY <2>2, <2>3, <1>1 DEF Memory
    <2> QED BY <2>4 DEF p
  <1> HIDE DEF x
  <1>4. /\ Consistent(x.pool) /\ x.pool.owns[r] = s
        /\ \A y \in PageOwner \ {r} : x.pool.owns[y] = m.pool.owns[y]
        /\ \A y \in PageOwner, b \in Block :
              Holds(x.pool, y, b) <=> (Holds(m.pool, y, b) \/ (y = r /\ \E i \in 1 .. Len(s) : s[i] = b))
    BY <1>2, <1>3
  <1>5. \A y \in PageOwner \ {r} : Keeps(m, x, y)
    BY <1>3, <1>4 DEF Keeps
  <1>6. CacheOK(x) /\ CachedBlocks(x) = CachedBlocks(m)
    <2>1. \A y \in CacheOwner : y \in PageOwner \ {r}
      BY OwnersDiffer
    <2> QED BY <2>1, <1>1, <1>3, <1>4, <1>5, CacheUntouched
  <1>7. RequestOK(x, r, u)
    <2>1. x.len[r] = n
      BY <1>1, <1>3, MemoryFields
    <2>2. BlocksFor(n) <= Len(x.pool.owns[r])
      BY <1>0, <1>4, BlocksForPage
    <2>3. \A q \in 1 .. n : Slot(x, r, q) = Prefix(u, q)
      <3> SUFFICES ASSUME NEW q \in 1 .. n PROVE Slot(x, r, q) = Prefix(u, q)
        OBVIOUS
      <3>0. x \in Memory /\ r \in PageOwner /\ n \in Nat
        BY <1>1, <1>3
      <3>1. Slot(x, r, q) = x.kv[x.pool.owns[r][PageOf(q)]][OffsetOf(q)]
        BY <2>2, <3>0, SlotAt
      <3> QED BY <1>0, <3>1, <1>3, <1>4
    <2>4. \A i \in 1 .. Len(s) : ~Ahead(x, r, i)
      <3>1. Len(s) \in Nat /\ BlocksFor(n) = Len(s)
        BY <1>0
      <3> QED BY <2>1, <3>1, <1>4 DEF Ahead
    <2> QED BY <1>0, <2>1, <2>2, <2>3, <2>4, <1>4 DEF RequestOK, Reads
  <1>8. ASSUME NEW y \in Req, y # r PROVE RequestOK(x, y, t[y]) /\ Spared(m, x, y)
    <2>1. RequestOK(m, y, t[y]) /\ r \in PageOwner \ {y} /\ y \in PageOwner \ {r}
      BY <1>1, <1>8, OwnersDiffer DEF MemoryOK
    <2>2. x.len[y] = m.len[y]
      BY <1>1, <1>3, <1>8, MemoryFields
    <2>3. ASSUME NEW i \in 1 .. Len(m.pool.owns[y]), Alone(m, y, i), NEW j \in 1 .. Len(s)
          PROVE  s[j] # m.pool.owns[y][i]
      <3>1. PICK o \in CacheOwner : Holds(m.pool, o, s[j])
        BY <1>0
      <3>2. o \in PageOwner \ {y}
        BY OwnersDiffer
      <3> QED BY <2>3, <3>1, <3>2 DEF Alone
    <2>4. ASSUME NEW i \in 1 .. Len(m.pool.owns[y]), Alone(m, y, i), NEW z \in PageOwner \ {y}
          PROVE  ~Holds(x.pool, z, m.pool.owns[y][i])
      <3>1. m.pool.owns[y][i] \in Block
        BY <2>1, <1>1, PoolFacts
      <3>2. ~Holds(m.pool, z, m.pool.owns[y][i])
        BY <2>4 DEF Alone
      <3>3. ~ \E j \in 1 .. Len(s) : s[j] = m.pool.owns[y][i]
        BY <2>3, <2>4
      <3> QED BY <3>1, <3>2, <3>3, <1>4
    <2>5. Keeps(m, x, y) /\ x.pool.owns[y] = m.pool.owns[y]
      BY <2>1, <1>4, <1>5
    <2> HIDE DEF v
    <2>6. Spared(m, x, y)
      BY <2>2, <2>4, <2>5 DEF Spared, Alone
    <2> QED BY <2>1, <2>6, <1>1, <1>3, SparedRequest
  <1>9. MemoryOK(x, v)
    <2>1. \A y \in Req : RequestOK(x, y, v[y])
      BY <1>7, <1>8
    <2> QED BY <2>1, <1>6 DEF MemoryOK
  <1>10. Apart(m, x, r)
    <2>1. PredsKept(m, x)
      BY <1>3, <1>4, PredsSame, OwnersDiffer
    <2> QED BY <2>1, <1>8 DEF Apart, Spares
  <1> QED BY <1>3, <1>4, <1>6, <1>9, <1>10 DEF x

\* Blocks leave the free list for o.
LEMMA GrantLeaves ==
    ASSUME NEW p, Consistent(p), NEW o \in PageOwner, NEW n \in Nat, n <= Cardinality(p.free),
           NEW q, q = Grant(p, o, Take(p, n))
    PROVE  /\ Consistent(q)
           /\ Len(q.owns[o]) = Len(p.owns[o]) + n
           /\ \A i \in 1 .. Len(p.owns[o]) : q.owns[o][i] = p.owns[o][i]
           /\ \A i \in 1 .. Len(q.owns[o]) : i > Len(p.owns[o]) => q.owns[o][i] \in p.free
           /\ \A y \in PageOwner \ {o} : q.owns[y] = p.owns[y]
  <1> DEFINE s == Take(p, n)
  <1>1. p \in Pool /\ p.owns \in [PageOwner -> Seq(Block)]
    BY PoolFacts
  <1>2. s \in Popped(p, n)
    BY <1>1, TakeOK
  <1> HIDE DEF s
  <1>3. s \in Seq(Block) /\ Len(s) = n /\ \A i \in 1 .. n : s[i] \in p.free
    BY <1>1, <1>2, PoppedOK
  <1>0. q = Grant(p, o, s)
    BY DEF s
  <1>4. Consistent(q)
    BY <1>0, <1>2, GrantOK
  <1>5. q.owns[o] = p.owns[o] \o s /\ \A y \in PageOwner \ {o} : q.owns[y] = p.owns[y]
    BY <1>0, <1>1 DEF Grant
  <1> DEFINE a == p.owns[o]
  <1>6. a \in Seq(Block) /\ Len(a) \in Nat
    BY <1>1
  <1>7. /\ Len(a \o s) = Len(a) + n
        /\ \A i \in 1 .. Len(a) + n : (a \o s)[i] = IF i <= Len(a) THEN a[i] ELSE s[i - Len(a)]
    BY <1>3, <1>6, ConcatProperties
  <1> HIDE DEF a
  <1>8. \A i \in 1 .. Len(a) : (a \o s)[i] = a[i]
    BY <1>6, <1>7
  <1>9. ASSUME NEW i \in 1 .. Len(a) + n, i > Len(a) PROVE (a \o s)[i] \in p.free
    <2>1. i - Len(a) \in 1 .. n /\ ~(i <= Len(a))
      BY <1>6, <1>9
    <2> QED BY <2>1, <1>3, <1>7
  <1> QED BY <1>3, <1>4, <1>5, <1>7, <1>8, <1>9 DEF a

\* r takes c free pages.  Pages of others stay theirs; a partly filled page of r that is
\* no longer its last one must be r's own.
LEMMA GrantKeeps ==
    ASSUME NEW m, NEW t, MemoryOK(m, t), NEW r \in Req, NEW c \in Nat, c <= FreeCount(m),
           m.len[r] % BlockSize # 0 => Alone(m, r, BlocksFor(m.len[r])),
           NEW x \in Memory, x.pool = Grant(m.pool, r, Take(m.pool, c)), x.len = m.len,
           x.kv = m.kv, x.lru = m.lru, x.crefs = m.crefs, x.pred = m.pred
    PROVE  /\ MemoryOK(x, t) /\ Apart(m, x, r)
           /\ CachedBlocks(x) = CachedBlocks(m)
           /\ Len(x.pool.owns[r]) = Len(m.pool.owns[r]) + c
           /\ \A y \in PageOwner \ {r} : x.pool.owns[y] = m.pool.owns[y]
           /\ m.len[r] % BlockSize # 0 => Alone(x, r, BlocksFor(m.len[r]))
  <1>1. CacheOK(m) /\ m \in Memory /\ Consistent(m.pool) /\ r \in PageOwner
    BY OwnersDiffer DEF MemoryOK, CacheOK
  <1> DEFINE a == m.pool.owns[r]
  <1>2. /\ Consistent(x.pool)
        /\ Len(x.pool.owns[r]) = Len(m.pool.owns[r]) + c
        /\ \A i \in 1 .. Len(m.pool.owns[r]) : x.pool.owns[r][i] = m.pool.owns[r][i]
        /\ \A i \in 1 .. Len(x.pool.owns[r]) : i > Len(m.pool.owns[r]) => x.pool.owns[r][i] \in m.pool.free
        /\ \A y \in PageOwner \ {r} : x.pool.owns[y] = m.pool.owns[y]
    <2>1. c <= Cardinality(m.pool.free)
      BY DEF FreeCount
    <2> DEFINE p == m.pool
               q == x.pool
    <2>2. Consistent(p) /\ c <= Cardinality(p.free) /\ q = Grant(p, r, Take(p, c))
      BY <1>1, <2>1
    <2> HIDE DEF p, q
    <2>3. /\ Consistent(q)
          /\ Len(q.owns[r]) = Len(p.owns[r]) + c
          /\ \A i \in 1 .. Len(p.owns[r]) : q.owns[r][i] = p.owns[r][i]
          /\ \A i \in 1 .. Len(q.owns[r]) : i > Len(p.owns[r]) => q.owns[r][i] \in p.free
          /\ \A y \in PageOwner \ {r} : q.owns[y] = p.owns[y]
      BY <2>2, <1>1, GrantLeaves
    <2> QED BY <2>3 DEF p, q
  <1>3. \A y \in PageOwner \ {r} : Keeps(m, x, y)
    BY <1>2 DEF Keeps
  <1>4. CacheOK(x) /\ CachedBlocks(x) = CachedBlocks(m)
    <2>1. \A y \in CacheOwner : y \in PageOwner \ {r}
      BY OwnersDiffer
    <2> QED BY <2>1, <1>1, <1>2, <1>3, CacheUntouched
  <1>5. \A b : \A y \in PageOwner \ {r} : Holds(x.pool, y, b) <=> Holds(m.pool, y, b)
    BY <1>2 DEF Holds
  <1>6. ASSUME NEW y \in Req, y # r PROVE RequestOK(x, y, t[y]) /\ Spared(m, x, y)
    <2>1. RequestOK(m, y, t[y]) /\ y \in PageOwner \ {r}
      BY <1>6, OwnersDiffer DEF MemoryOK
    <2>2. Keeps(m, x, y) /\ x.len[y] = m.len[y] /\ x.pool.owns[y] = m.pool.owns[y]
      BY <2>1, <1>2, <1>3
    <2>3. ASSUME NEW i \in 1 .. Len(m.pool.owns[y]), Alone(m, y, i), NEW z \in PageOwner \ {y}
          PROVE  ~Holds(x.pool, z, m.pool.owns[y][i])
      <3> DEFINE b == m.pool.owns[y][i]
      <3>1. b \in Block /\ Holds(m.pool, y, b) /\ b \notin m.pool.free
        BY <2>1, <1>1, PoolFacts
      <3>2. ~Holds(m.pool, z, b)
        BY <2>3 DEF Alone
      <3>3. CASE z = r
        <4> SUFFICES ASSUME NEW j \in 1 .. Len(x.pool.owns[r]), x.pool.owns[r][j] = b PROVE FALSE
          BY <3>3 DEF Holds
        <4>1. Len(m.pool.owns[r]) \in Nat
          BY <1>1, PoolFacts
        <4>2. j \in 1 .. Len(m.pool.owns[r])
          BY <4>1, <3>1, <1>2
        <4> QED BY <4>2, <3>2, <3>3, <1>2 DEF Holds
      <3>4. CASE z # r
        BY <3>2, <3>4, <1>5
      <3> QED BY <3>3, <3>4
    <2>4. Spared(m, x, y)
      BY <2>2, <2>3 DEF Spared, Alone
    <2> QED BY <2>1, <2>4, <1>1, SparedRequest
  <1>7. /\ m.len[r] \in Nat /\ Len(a) \in Nat /\ BlocksFor(m.len[r]) \in Nat
        /\ RequestOK(m, r, t[r]) /\ BlocksFor(m.len[r]) <= Len(a)
    <2>1. m.len[r] \in Nat /\ Len(a) \in Nat
      BY <1>1, MemoryFields, PoolFacts
    <2>2. BlocksFor(m.len[r]) \in Nat
      BY <2>1, BlocksForPage
    <2>3. RequestOK(m, r, t[r])
      BY DEF MemoryOK
    <2> QED BY <2>1, <2>2, <2>3 DEF RequestOK, Reads
  <1>8. Reads(x, r, t[r], m.len[r])
    <2>1. BlocksFor(m.len[r]) <= Len(x.pool.owns[r])
      BY <1>2, <1>7
    <2>2. ASSUME NEW q \in 1 .. m.len[r] PROVE Slot(x, r, q) = Prefix(t[r], q)
      <3>1. /\ PageOf(q) \in 1 .. Len(m.pool.owns[r])
            /\ Slot(m, r, q) = m.kv[m.pool.owns[r][PageOf(q)]][OffsetOf(q)]
        BY <1>1, <1>7, SlotAt
      <3>2. Slot(x, r, q) = x.kv[x.pool.owns[r][PageOf(q)]][OffsetOf(q)]
        BY <2>1, <1>1, <1>7, SlotAt
      <3>3. Slot(m, r, q) = Prefix(t[r], q)
        BY <1>7 DEF RequestOK, Reads
      <3> QED BY <3>1, <3>2, <3>3, <1>2
    <2> QED BY <2>1, <2>2 DEF Reads
  <1>9. ASSUME NEW i \in 1 .. Len(a), Alone(m, r, i) PROVE Alone(x, r, i)
    BY <1>2, <1>5, <1>9 DEF Alone
  <1>10. ASSUME NEW i \in 1 .. Len(x.pool.owns[r]), i > Len(a) PROVE Alone(x, r, i)
    <2>1. x.pool.owns[r][i] \in m.pool.free /\ x.pool.owns[r][i] \in Block
      BY <1>1, <1>2, <1>10, PoolFacts
    <2>2. \A y \in PageOwner : ~Holds(m.pool, y, x.pool.owns[r][i])
      BY <2>1, <1>1, PoolFacts
    <2> QED BY <2>2, <1>5 DEF Alone
  <1>11. m.len[r] % BlockSize # 0 => BlocksFor(m.len[r]) \in 1 .. Len(a) /\ Alone(x, r, BlocksFor(m.len[r]))
    <2> SUFFICES ASSUME m.len[r] % BlockSize # 0
                 PROVE  BlocksFor(m.len[r]) \in 1 .. Len(a) /\ Alone(x, r, BlocksFor(m.len[r]))
      OBVIOUS
    <2>1. BlocksFor(m.len[r]) = PageOf(m.len[r] + 1)
      BY <1>7, NextPage
    <2>2. PageOf(m.len[r] + 1) \in Nat \ {0}
      BY <1>7, PositionParts
    <2>3. BlocksFor(m.len[r]) \in 1 .. Len(a)
      BY <2>1, <2>2, <1>7
    <2> QED BY <2>3, <1>9
  <1>12. ASSUME NEW i \in 1 .. Len(x.pool.owns[r]), Ahead(x, r, i) PROVE Alone(x, r, i)
    <2>1. CASE i > Len(a)
      BY <2>1, <1>10
    <2>2. CASE i = BlocksFor(m.len[r]) /\ m.len[r] % BlockSize # 0
      BY <2>2, <1>11
    <2>3. CASE ~(i > Len(a)) /\ ~(i = BlocksFor(m.len[r]) /\ m.len[r] % BlockSize # 0)
      <3>1. i \in 1 .. Len(a) /\ i > BlocksFor(m.len[r])
        BY <2>3, <1>2, <1>7, <1>12 DEF Ahead
      <3>2. Alone(m, r, i)
        BY <3>1, <1>7 DEF RequestOK, Ahead
      <3> QED BY <3>1, <3>2, <1>9
    <2> QED BY <2>1, <2>2, <2>3
  <1>13. RequestOK(x, r, t[r])
    BY <1>7, <1>8, <1>12 DEF RequestOK
  <1>14. MemoryOK(x, t)
    BY <1>4, <1>6, <1>13 DEF MemoryOK
  <1>15. Apart(m, x, r)
    <2>1. PredsKept(m, x)
      BY <1>2, PredsSame, OwnersDiffer
    <2> QED BY <2>1, <1>6 DEF Apart, Spares
  <1> QED BY <1>2, <1>4, <1>11, <1>14, <1>15

LEMMA GrowKeeps ==
    ASSUME NEW m, NEW t, MemoryOK(m, t), NEW r \in Req, NEW target \in Nat,
           CanGrow(m, r, target),
           m.len[r] % BlockSize # 0 => Alone(m, r, BlocksFor(m.len[r]))
    PROVE  LET x == Grow(m, r, target)
           IN  /\ MemoryOK(x, t) /\ x.len = m.len /\ Apart(m, x, r)
               /\ CachedBlocks(x) = CachedBlocks(m)
               /\ BlocksFor(target) <= Len(m.pool.owns[r]) => Len(x.pool.owns[r]) = Len(m.pool.owns[r])
               /\ BlocksFor(target) > Len(m.pool.owns[r]) => Len(x.pool.owns[r]) = BlocksFor(target)
               /\ \A y \in PageOwner \ {r} : x.pool.owns[y] = m.pool.owns[y]
               /\ m.len[r] % BlockSize # 0 => Alone(x, r, BlocksFor(m.len[r]))
  <1> DEFINE x == Grow(m, r, target)
             a == Len(m.pool.owns[r])
             c == BlocksFor(target) - a
  <1>1. m \in Memory /\ Consistent(m.pool) /\ r \in PageOwner
    BY OwnersDiffer DEF MemoryOK, CacheOK
  <1>2. a \in Nat /\ BlocksFor(target) \in Nat
    <2>1. a \in Nat
      BY <1>1, PoolFacts
    <2> QED BY <2>1, BlocksForPage
  <1>3. CASE c <= 0
    <2>1. x = m
      BY <1>3 DEF Grow, Table
    <2>2. BlocksFor(target) <= a /\ ~(BlocksFor(target) > a)
      BY <1>2, <1>3
    <2> HIDE DEF x, a
    <2>3. /\ MemoryOK(x, t) /\ x.len = m.len /\ CachedBlocks(x) = CachedBlocks(m)
          /\ Apart(m, x, r)
          /\ \A y \in PageOwner : x.pool.owns[y] = m.pool.owns[y]
          /\ m.len[r] % BlockSize # 0 => Alone(x, r, BlocksFor(m.len[r]))
      BY <2>1, ApartSelf
    <2> QED BY <1>1, <2>2, <2>3 DEF x, a
  <1>4. CASE ~(c <= 0)
    <2>1. c \in Nat /\ c <= FreeCount(m)
      BY <1>2, <1>4, SMTT(30) DEF CanGrow, Table
    <2> DEFINE p == Grant(m.pool, r, Take(m.pool, c))
    <2>2. x = [m EXCEPT !.pool = p]
      BY <1>4 DEF Grow, Table
    <2>3. p \in Pool
      <3>1. c <= Cardinality(m.pool.free)
        BY <2>1 DEF FreeCount
      <3>2. Consistent(p)
        <4> HIDE DEF c
        <4> QED BY <1>1, <2>1, <3>1, GrantLeaves
      <3> QED BY <3>2, PoolFacts
    <2>4. /\ x \in Memory /\ x.pool = p /\ x.len = m.len /\ x.kv = m.kv
          /\ x.lru = m.lru /\ x.crefs = m.crefs /\ x.pred = m.pred
      <3> HIDE DEF x, p
      <3> QED BY <2>2, <2>3, <1>1 DEF Memory
    <2>5. x.pool = Grant(m.pool, r, Take(m.pool, c))
      BY <2>4
    <2> HIDE DEF x, p, c
    <2>6. /\ MemoryOK(x, t) /\ Apart(m, x, r)
          /\ CachedBlocks(x) = CachedBlocks(m)
          /\ Len(x.pool.owns[r]) = Len(m.pool.owns[r]) + c
          /\ \A y \in PageOwner \ {r} : x.pool.owns[y] = m.pool.owns[y]
          /\ m.len[r] % BlockSize # 0 => Alone(x, r, BlocksFor(m.len[r]))
      BY <2>1, <2>4, <2>5, GrantKeeps
    <2>7. Len(x.pool.owns[r]) = BlocksFor(target) /\ BlocksFor(target) > a
      BY <2>6, <1>2, <1>4 DEF c, a
    <2> QED BY <2>4, <2>6, <2>7, <1>2 DEF x
  <1> QED BY <1>3, <1>4

\* The private tail: r's last page is replaced by a copy that only r holds.
LEMMA CopyTailKeeps ==
    ASSUME NEW m, NEW t, MemoryOK(m, t), NEW r \in Req, m.len[r] % BlockSize # 0,
           Len(m.pool.owns[r]) = BlocksFor(m.len[r]), FreeCount(m) # 0,
           m.pool.refs[m.pool.owns[r][Len(m.pool.owns[r])]] > 1
    PROVE  LET x == CopyTail(m, r)
           IN  /\ MemoryOK(x, t) /\ x.len = m.len /\ Apart(m, x, r)
               /\ CachedBlocks(x) = CachedBlocks(m)
               /\ Len(x.pool.owns[r]) = Len(m.pool.owns[r])
               /\ \A y \in PageOwner \ {r} : x.pool.owns[y] = m.pool.owns[y]
               /\ Alone(x, r, BlocksFor(m.len[r]))
  <1> DEFINE x == CopyTail(m, r)
             a == m.pool.owns[r]
             l == Len(a)
             b == Take(m.pool, 1)[1]
             p == Replace(m.pool, r, l, b)
  <1>1. CacheOK(m) /\ m \in Memory /\ Consistent(m.pool) /\ r \in PageOwner
    BY OwnersDiffer DEF MemoryOK, CacheOK
  <1>2. /\ a \in Seq(Block) /\ l \in 1 .. Len(a) /\ l \in Nat /\ l = BlocksFor(m.len[r])
        /\ m.len[r] \in Nat /\ a[l] \in Block /\ Holds(m.pool, r, a[l])
    <2>1. m.len[r] \in Nat /\ a \in Seq(Block) /\ l \in Nat
      BY <1>1, MemoryFields
    <2>2. l \in Nat \ {0}
      <3> DEFINE n == m.len[r]
      <3>1. n \in Nat /\ n % BlockSize # 0 /\ l = BlocksFor(n)
        BY <2>1
      <3> HIDE DEF n, l
      <3>2. BlocksFor(n) = PageOf(n + 1)
        BY <3>1, NextPage
      <3>3. n + 1 \in Nat \ {0}
        BY <3>1
      <3>4. PageOf(n + 1) \in Nat \ {0}
        BY <3>3, PositionParts
      <3> QED BY <3>1, <3>2, <3>4
    <2>3. l \in 1 .. Len(a)
      BY <2>2
    <2> QED BY <2>1, <2>3 DEF Holds
  <1>3. b \in m.pool.free /\ b \in Block
    <2>1. m.pool \in Pool /\ m.pool.free \subseteq Block
      BY <1>1, PoolFacts
    <2>2. IsFiniteSet(m.pool.free)
      <3>1. IsFiniteSet(0 .. NumBlocks - 1)
        BY KVAssumption, FS_Interval
      <3> QED BY <3>1, <2>1, FS_Subset DEF Block
    <2>3. 1 <= Cardinality(m.pool.free)
      BY <2>2, FS_CardinalityType DEF FreeCount
    <2>4. Take(m.pool, 1) \in Popped(m.pool, 1)
      BY <2>1, <2>3, TakeOK
    <2>5. b \in m.pool.free
      BY <2>1, <2>4, PoppedOK
    <2> QED BY <2>1, <2>5
  <1>0. x = [m EXCEPT !.pool = p, !.kv[b] = m.kv[a[l]]]
    BY DEF CopyTail, Table
  <1> HIDE DEF b, x
  <1>4. Consistent(p)
    <2>1. CanReplace(m.pool, r, l)
      BY <1>2 DEF CanReplace
    <2> HIDE DEF l
    <2> QED BY <2>1, <1>1, <1>2, <1>3, ReplaceOK
  <1>5. /\ p.owns[r] = [a EXCEPT ![l] = b]
        /\ \A y \in PageOwner \ {r} : p.owns[y] = m.pool.owns[y]
    <2>1. m.pool.owns \in [PageOwner -> Seq(Block)]
      BY <1>1, MemoryFields
    <2> QED BY <2>1, <1>1 DEF Replace
  <1>6. p \in Pool
    BY <1>4, PoolFacts
  <1> HIDE DEF p
  <1>7. /\ x \in Memory /\ x.pool = p /\ x.len = m.len /\ x.lru = m.lru /\ x.crefs = m.crefs
        /\ x.kv = [m.kv EXCEPT ![b] = m.kv[a[l]]] /\ x.pred = m.pred
    <2>1. m.kv \in [Block -> [Slots -> Seq(Value)]] /\ m.kv[a[l]] \in [Slots -> Seq(Value)]
      BY <1>1, <1>2, MemoryFields
    <2> DEFINE c == m.kv[a[l]]
    <2>2. x = [m EXCEPT !.pool = p, !.kv[b] = c]
      BY <1>0
    <2> HIDE DEF c
    <2>3. c \in [Slots -> Seq(Value)]
      BY <2>1 DEF c
    <2>4. [m.kv EXCEPT ![b] = c] \in [Block -> [Slots -> Seq(Value)]]
      BY <2>1, <2>3, <1>3
    <2>5. /\ x \in Memory /\ x.pool = p /\ x.len = m.len /\ x.lru = m.lru /\ x.crefs = m.crefs
          /\ x.kv = [m.kv EXCEPT ![b] = c] /\ x.pred = m.pred
      BY <2>2, <2>4, <1>1, <1>6 DEF Memory
    <2> QED BY <2>5 DEF c
  <1>8. /\ x.kv[b] = m.kv[a[l]] /\ \A c \in Block \ {b} : x.kv[c] = m.kv[c]
    <2>1. m.kv \in [Block -> [Slots -> Seq(Value)]]
      BY <1>1, MemoryFields
    <2> QED BY <2>1, <1>3, <1>7
  <1>9. \A y \in PageOwner : ~Holds(m.pool, y, b)
    BY <1>1, <1>3, PoolFacts
  <1>10. \A y \in PageOwner \ {r} : Keeps(m, x, y)
    BY <1>5, <1>7, <1>8, <1>9 DEF Keeps
  <1>11. CacheOK(x) /\ CachedBlocks(x) = CachedBlocks(m)
    <2>1. \A y \in CacheOwner : y \in PageOwner \ {r}
      BY OwnersDiffer
    <2> QED BY <2>1, <1>1, <1>4, <1>7, <1>10, CacheUntouched
  <1>12. /\ Len(x.pool.owns[r]) = l /\ x.pool.owns[r][l] = b
         /\ \A i \in 1 .. l : i # l => x.pool.owns[r][i] = a[i]
    <2>1. x.pool.owns[r] = [a EXCEPT ![l] = b]
      BY <1>5, <1>7
    <2>2. a \in [1 .. l -> Block]
      BY <1>2, SMTT(30)
    <2> QED BY <2>1, <2>2, <1>2, <1>3, SMTT(30)
  <1>13. \A y \in PageOwner \ {r} : \A c : Holds(x.pool, y, c) <=> Holds(m.pool, y, c)
    BY <1>5, <1>7 DEF Holds
  <1>14. Alone(x, r, l)
    BY <1>9, <1>12, <1>13 DEF Alone
  <1>15. ASSUME NEW y \in Req, y # r PROVE RequestOK(x, y, t[y]) /\ Spared(m, x, y)
    <2>1. RequestOK(m, y, t[y]) /\ y \in PageOwner \ {r} /\ x.len[y] = m.len[y]
      BY <1>7, <1>15, OwnersDiffer DEF MemoryOK
    <2>2. ASSUME NEW i \in 1 .. Len(m.pool.owns[y]), Alone(m, y, i), NEW z \in PageOwner \ {y}
          PROVE  ~Holds(x.pool, z, m.pool.owns[y][i])
      <3> DEFINE c == m.pool.owns[y][i]
      <3>1. c \in Block /\ Holds(m.pool, y, c) /\ c # b
        BY <2>1, <1>1, <1>9, PoolFacts
      <3>2. ~Holds(m.pool, z, c)
        BY <2>2 DEF Alone
      <3> HIDE DEF c
      <3>3. CASE z = r
        <4> SUFFICES ASSUME NEW j \in 1 .. l, x.pool.owns[r][j] = c PROVE FALSE
          BY <3>3, <1>12 DEF Holds, c
        <4>1. a[j] = c
          BY <1>12, <3>1
        <4> QED BY <4>1, <3>2, <3>3 DEF Holds
      <3>4. CASE z # r
        BY <3>2, <3>4, <1>13 DEF c
      <3> QED BY <3>3, <3>4
    <2>3. Keeps(m, x, y) /\ x.pool.owns[y] = m.pool.owns[y]
      BY <2>1, <1>10 DEF Keeps
    <2>4. Spared(m, x, y)
      BY <2>1, <2>2, <2>3 DEF Spared, Alone
    <2> QED BY <2>1, <2>4, <1>1, <1>7, SparedRequest
  <1>16. RequestOK(x, r, t[r])
    <2>1. RequestOK(m, r, t[r]) /\ x.len[r] = m.len[r]
      BY <1>7 DEF MemoryOK
    <2>2. BlocksFor(m.len[r]) <= Len(x.pool.owns[r]) /\ BlocksFor(m.len[r]) <= Len(m.pool.owns[r])
      BY <1>2, <1>12, SMTT(30)
    <2>3. ASSUME NEW q \in 1 .. m.len[r] PROVE Slot(x, r, q) = Prefix(t[r], q)
      <3> DEFINE i == PageOf(q)
      <3>1. i \in 1 .. l /\ Slot(m, r, q) = m.kv[a[i]][OffsetOf(q)] /\ a[i] \in Block
            /\ Holds(m.pool, r, a[i])
        BY <2>2, <1>1, <1>2, SlotAt
      <3>2. Slot(x, r, q) = x.kv[x.pool.owns[r][i]][OffsetOf(q)]
        <4>1. x \in Memory /\ m.len[r] \in Nat
          BY <1>2, <1>7
        <4> QED BY <2>2, <4>1, <1>1, SlotAt
      <3>3. Slot(m, r, q) = Prefix(t[r], q)
        BY <2>1 DEF RequestOK, Reads
      <3> HIDE DEF i
      <3>4. x.kv[x.pool.owns[r][i]] = m.kv[a[i]]
        <4>1. CASE i = l
          BY <4>1, <1>8, <1>12
        <4>2. CASE i # l
          <5>1. a[i] # b
            BY <3>1, <1>1, <1>9
          <5> QED BY <3>1, <4>2, <5>1, <1>8, <1>12
        <4> QED BY <4>1, <4>2
      <3> QED BY <3>1, <3>2, <3>3, <3>4
    <2>4. \A i \in 1 .. Len(x.pool.owns[r]) : ~Ahead(x, r, i)
      BY <2>1, <1>2, <1>12, SMTT(30) DEF Ahead
    <2> QED BY <2>1, <2>2, <2>3, <2>4 DEF RequestOK, Reads
  <1>17. MemoryOK(x, t)
    BY <1>11, <1>15, <1>16 DEF MemoryOK
  <1>18. Apart(m, x, r)
    <2>1. PredsKept(m, x)
      BY <1>5, <1>7, PredsSame, OwnersDiffer, SMTT(30)
    <2> QED BY <2>1, <1>15 DEF Apart, Spares
  <1> QED BY <1>2, <1>5, <1>7, <1>11, <1>12, <1>14, <1>17, <1>18 DEF x

\* r gives all its pages back and is about any other sequence.
LEMMA DropKeeps ==
    ASSUME NEW m, NEW t \in [Req -> Seq(Token)], MemoryOK(m, t), NEW r \in Req, NEW u \in Seq(Token)
    PROVE  LET x == Drop(m, r)
           IN  /\ MemoryOK(x, [t EXCEPT ![r] = u])
               /\ x.len = [m.len EXCEPT ![r] = 0] /\ x.pool.owns[r] = << >>
               /\ \A y \in PageOwner \ {r} : x.pool.owns[y] = m.pool.owns[y]
               /\ CachedBlocks(x) = CachedBlocks(m) /\ Apart(m, x, r)
  <1> DEFINE x == Drop(m, r)
             v == [t EXCEPT ![r] = u]
             p == Release(m.pool, r)
             k == [b \in Block |-> IF b \in p.free THEN Blank ELSE m.kv[b]]
  <1>1. CacheOK(m) /\ m \in Memory /\ Consistent(m.pool) /\ r \in PageOwner
    BY OwnersDiffer DEF MemoryOK, CacheOK
  <1>2. x = [[m EXCEPT !.pool = p, !.kv = k] EXCEPT !.len[r] = 0]
    BY DEF Drop, WithPool
  <1>3. p \in Pool
    BY <1>1, ReleaseOK, PoolFacts
  <1>4. k \in [Block -> [Slots -> Seq(Value)]]
    <2>1. Blank \in [Slots -> Seq(Value)]
      BY DEF Blank
    <2>2. m.kv \in [Block -> [Slots -> Seq(Value)]]
      BY <1>1, MemoryFields
    <2> HIDE DEF p
    <2> QED BY <2>1, <2>2
  <1>5. k = [b \in Block |-> IF b \in p.free THEN Blank ELSE m.kv[b]] /\ p = Release(m.pool, r)
    OBVIOUS
  <1> HIDE DEF x, p, k
  <1>6. /\ x \in Memory /\ x.pool = p /\ x.kv = k /\ x.len = [m.len EXCEPT ![r] = 0]
        /\ x.lru = m.lru /\ x.crefs = m.crefs
    BY <1>1, <1>2, <1>3, <1>4 DEF Memory
  <1>p. x.pred = m.pred
    BY <1>1, <1>2 DEF Memory
  <1>7. /\ Consistent(x.pool) /\ x.pool.owns[r] = << >>
        /\ \A y \in PageOwner \ {r} : Keeps(m, x, y)
        /\ \A y \in PageOwner \ {r} : x.pool.owns[y] = m.pool.owns[y]
        /\ \A y \in PageOwner, b \in Block :
              Holds(x.pool, y, b) <=> (y # r /\ Holds(m.pool, y, b))
    BY <1>1, <1>5, <1>6, ReleaseLeaves
  <1>8. CacheOK(x) /\ CachedBlocks(x) = CachedBlocks(m)
    <2>1. \A y \in CacheOwner : y \in PageOwner \ {r}
      BY OwnersDiffer
    <2> QED BY <2>1, <1>1, <1>6, <1>7, CacheUntouched
  <1>9. ASSUME NEW y \in Req, y # r PROVE RequestOK(x, y, t[y]) /\ Spared(m, x, y)
    <2>1. RequestOK(m, y, t[y]) /\ y \in PageOwner \ {r}
      BY <1>9, OwnersDiffer DEF MemoryOK
    <2>2. x.len[y] = m.len[y]
      BY <1>1, <1>6, <1>9, MemoryFields
    <2>3. ASSUME NEW i \in 1 .. Len(m.pool.owns[y]), Alone(m, y, i), NEW z \in PageOwner \ {y}
          PROVE  ~Holds(x.pool, z, m.pool.owns[y][i])
      <3>1. m.pool.owns[y][i] \in Block
        BY <2>1, <1>1, PoolFacts
      <3> QED BY <3>1, <2>3, <1>7 DEF Alone
    <2>4. Keeps(m, x, y) /\ x.pool.owns[y] = m.pool.owns[y]
      BY <2>1, <1>7
    <2> HIDE DEF v
    <2>5. Spared(m, x, y)
      BY <2>2, <2>3, <2>4 DEF Spared, Alone
    <2> QED BY <2>1, <2>5, <1>1, <1>6, SparedRequest
  <1>10. RequestOK(x, r, u)
    <2>1. x.len[r] = 0
      BY <1>1, <1>6, MemoryFields
    <2>2. Len(x.pool.owns[r]) = 0 /\ BlocksFor(0) = 0
      BY <1>7, BlocksForPage
    <2>3. Len(u) \in Nat
      OBVIOUS
    <2> QED BY <2>1, <2>2, <2>3 DEF RequestOK, Reads
  <1>11. MemoryOK(x, v)
    <2>1. \A y \in Req : RequestOK(x, y, v[y])
      BY <1>9, <1>10
    <2> QED BY <2>1, <1>8 DEF MemoryOK
  <1>12. Apart(m, x, r)
    <2>1. PredsKept(m, x)
      BY <1>p, <1>7, PredsSame, OwnersDiffer
    <2> QED BY <2>1, <1>9 DEF Apart, Spares
  <1> QED BY <1>6, <1>7, <1>8, <1>11, <1>12 DEF x

-----------------------------------------------------------------------------
(* Capacity: what _ensure_writable_tail and _ensure_kv_capacity leave behind. *)

\* Between m and x request r took pages, perhaps from the cache: no other request is touched.
Grown(m, x, r, t) ==
    /\ MemoryOK(x, t)
    /\ x.len = m.len
    /\ \A y \in PageOwner \ (CacheOwner \cup {r}) : x.pool.owns[y] = m.pool.owns[y]
    /\ CachedBlocks(x) \subseteq CachedBlocks(m)
    /\ Apart(m, x, r)

LEMMA TrimmedAlone ==
    ASSUME NEW m, NEW x, NEW t, Trimmed(m, x, t), NEW r \in Req, NEW i, Alone(m, r, i)
    PROVE  Alone(x, r, i) /\ x.pool.owns[r] = m.pool.owns[r]
  <1>1. x.pool.owns[r] = m.pool.owns[r]
    BY OwnersDiffer DEF Trimmed
  <1>2. \A y \in PageOwner : x.pool.owns[y] = m.pool.owns[y] \/ x.pool.owns[y] = << >>
    BY DEF Trimmed
  <1>3. \A y \in PageOwner : \A b : Holds(x.pool, y, b) => Holds(m.pool, y, b)
    BY <1>2 DEF Holds
  <1> QED BY <1>1, <1>3 DEF Alone

LEMMA TrimmedGrown ==
    ASSUME NEW m, NEW x, NEW t, Trimmed(m, x, t), NEW r \in Req
    PROVE  Grown(m, x, r, t) /\ x.pool.owns[r] = m.pool.owns[r]
  <1>1. Apart(m, x, r)
    BY DEF Trimmed, Apart, Spares
  <1> QED BY <1>1, OwnersDiffer DEF Trimmed, Grown

LEMMA GrownAgain ==
    ASSUME NEW m, NEW x, NEW y, NEW r, NEW t, Grown(m, x, r, t), Grown(x, y, r, t)
    PROVE  Grown(m, y, r, t)
  <1>1. Apart(m, y, r)
    BY ApartAgain DEF Grown
  <1> QED BY <1>1 DEF Grown

\* What the last page of a table tells about the page the committed positions end in.
LEMMA TailTells ==
    ASSUME NEW m, NEW t, MemoryOK(m, t), NEW r \in Req, m.len[r] % BlockSize # 0
    PROVE  LET l == Len(m.pool.owns[r])
               n == BlocksFor(m.len[r])
           IN  /\ l \in Nat /\ n \in 1 .. l
               /\ ~(m.pool.refs[m.pool.owns[r][l]] > 1) => Alone(m, r, n)
               /\ m.pool.refs[m.pool.owns[r][l]] > 1 => l = n
  <1> DEFINE l == Len(m.pool.owns[r])
             k == m.len[r]
             n == BlocksFor(k)
             b == m.pool.owns[r][l]
  <1>1. m \in Memory /\ Consistent(m.pool) /\ r \in PageOwner /\ RequestOK(m, r, t[r])
    BY OwnersDiffer DEF MemoryOK, CacheOK
  <1>2. l \in Nat /\ k \in Nat
    BY <1>1, MemoryFields, PoolFacts
  <1>3. n \in Nat \ {0}
    <2>1. k % BlockSize # 0 /\ k \in Nat
      BY <1>2
    <2> HIDE DEF k
    <2>2. BlocksFor(k) = PageOf(k + 1)
      BY <2>1, NextPage
    <2>3. k + 1 \in Nat \ {0}
      BY <2>1
    <2>4. PageOf(k + 1) \in Nat \ {0}
      BY <2>3, PositionParts
    <2> QED BY <2>2, <2>4
  <1>4. n <= l
    BY <1>1 DEF RequestOK, Reads
  <1>5. l \in 1 .. l /\ n \in 1 .. l
    BY <1>2, <1>3, <1>4
  <1>6. b \in Block /\ Holds(m.pool, r, b)
    BY <1>1, <1>5, PoolFacts
  <1>7. /\ m.pool.refs[b] \in Nat \ {0}
        /\ m.pool.refs[b] = 1 <=> Alone(m, r, l)
    BY <1>1, <1>6, CounterTells DEF Alone
  <1>8. CASE l = n
    BY <1>2, <1>5, <1>7, <1>8, SMTT(30)
  <1>9. CASE l # n
    <2>1. n < l /\ l > n
      BY <1>2, <1>3, <1>4, <1>9
    <2>2. Ahead(m, r, n) /\ Ahead(m, r, l)
      BY <2>1 DEF Ahead
    <2>3. Alone(m, r, n) /\ Alone(m, r, l)
      BY <2>2, <1>1, <1>5 DEF RequestOK
    <2>4. ~(m.pool.refs[b] > 1)
      BY <2>3, <1>7
    <2> QED BY <2>3, <2>4, <1>2, <1>5
  <1> QED BY <1>8, <1>9

LEMMA WritableTailKeeps ==
    ASSUME NEW m, NEW t, MemoryOK(m, t), NEW r \in Req
    PROVE  LET w == WritableTail(m, r)
           IN  /\ Grown(m, w.m, r, t)
               /\ Len(w.m.pool.owns[r]) = Len(m.pool.owns[r])
               /\ w.ok /\ m.len[r] % BlockSize # 0 => Alone(w.m, r, BlocksFor(m.len[r]))
  <1> DEFINE w == WritableTail(m, r)
             tail == m.pool.owns[r][Len(m.pool.owns[r])]
             e == IF FreeCount(m) = 0 THEN EvictUntilFree(m, 1) ELSE m
             Good(v) == /\ Grown(m, v.m, r, t)
                        /\ Len(v.m.pool.owns[r]) = Len(m.pool.owns[r])
                        /\ v.ok /\ m.len[r] % BlockSize # 0 => Alone(v.m, r, BlocksFor(m.len[r]))
  <1>1. Trimmed(m, m, t) /\ Trimmed(m, e, t)
    BY TrimmedSelf, EvictUntilFreeKeeps
  <1>2. w = IF m.len[r] % BlockSize = 0 \/ ~(m.pool.refs[tail] > 1) THEN [ok |-> TRUE, m |-> m]
            ELSE IF ~(e.pool.refs[tail] > 1) THEN [ok |-> TRUE, m |-> e]
            ELSE IF FreeCount(e) = 0 THEN [ok |-> FALSE, m |-> e]
            ELSE [ok |-> TRUE, m |-> CopyTail(e, r)]
    BY DEF WritableTail, Table
  <1> HIDE DEF w, e
  <1>3. /\ Grown(m, m, r, t) /\ Grown(m, e, r, t) /\ e.pool.owns[r] = m.pool.owns[r]
        /\ MemoryOK(e, t) /\ e.len = m.len
    BY <1>1, TrimmedGrown DEF Trimmed
  <1>4. CASE m.len[r] % BlockSize = 0 \/ ~(m.pool.refs[tail] > 1)
    <2>1. w.m = m
      BY <1>2, <1>4
    <2>2. m.len[r] % BlockSize # 0 => Alone(m, r, BlocksFor(m.len[r]))
      BY <1>4, TailTells
    <2> QED BY <2>1, <2>2, <1>3 DEF w
  <1>5. CASE ~(m.len[r] % BlockSize = 0 \/ ~(m.pool.refs[tail] > 1)) /\ ~(e.pool.refs[tail] > 1)
    <2>1. w.m = e
      BY <1>2, <1>5
    <2>2. e.len[r] % BlockSize # 0 /\ ~(e.pool.refs[e.pool.owns[r][Len(e.pool.owns[r])]] > 1)
      BY <1>3, <1>5
    <2>3. Alone(e, r, BlocksFor(e.len[r]))
      BY <2>2, <1>3, TailTells
    <2> QED BY <2>1, <2>3, <1>3 DEF w
  <1>6. CASE ~(m.len[r] % BlockSize = 0 \/ ~(m.pool.refs[tail] > 1)) /\ e.pool.refs[tail] > 1
             /\ FreeCount(e) = 0
    <2>1. w.m = e /\ w.ok = FALSE
      BY <1>2, <1>6
    <2> QED BY <2>1, <1>3 DEF w
  <1>7. CASE ~(m.len[r] % BlockSize = 0 \/ ~(m.pool.refs[tail] > 1)) /\ e.pool.refs[tail] > 1
             /\ FreeCount(e) # 0
    <2> DEFINE c == CopyTail(e, r)
    <2>1. w.m = c
      BY <1>2, <1>7
    <2>2. e.len[r] % BlockSize # 0 /\ e.pool.refs[e.pool.owns[r][Len(e.pool.owns[r])]] > 1
      BY <1>3, <1>7
    <2>3. Len(e.pool.owns[r]) = BlocksFor(e.len[r])
      BY <2>2, <1>3, TailTells
    <2>4. /\ MemoryOK(c, t) /\ c.len = e.len /\ CachedBlocks(c) = CachedBlocks(e)
          /\ Apart(e, c, r)
          /\ Len(c.pool.owns[r]) = Len(e.pool.owns[r])
          /\ \A y \in PageOwner \ {r} : c.pool.owns[y] = e.pool.owns[y]
          /\ Alone(c, r, BlocksFor(e.len[r]))
      BY <2>2, <2>3, <1>3, <1>7, CopyTailKeeps
    <2> HIDE DEF c
    <2>5. Grown(e, c, r, t)
      BY <2>4 DEF Grown
    <2>6. Grown(m, c, r, t)
      BY <2>5, <1>3, GrownAgain
    <2> QED BY <2>1, <2>4, <2>6, <1>3 DEF w
  <1> QED BY <1>4, <1>5, <1>6, <1>7

\* With capacity for target positions in hand, every page r is about to write is r's own.
LEMMA EnsureKVKeeps ==
    ASSUME NEW m, NEW t, MemoryOK(m, t), NEW r \in Req, NEW target \in Nat, target > m.len[r]
    PROVE  LET c == EnsureKV(m, r, target)
           IN  /\ Grown(m, c.m, r, t)
               /\ ~c.ok => Len(c.m.pool.owns[r]) = Len(m.pool.owns[r])
               /\ c.ok => /\ BlocksFor(target) <= Len(m.pool.owns[r]) =>
                                Len(c.m.pool.owns[r]) = Len(m.pool.owns[r])
                          /\ BlocksFor(target) > Len(m.pool.owns[r]) =>
                                Len(c.m.pool.owns[r]) = BlocksFor(target)
                          /\ m.len[r] % BlockSize # 0 => Alone(c.m, r, BlocksFor(m.len[r]))
  <1> DEFINE c == EnsureKV(m, r, target)
             w == WritableTail(m, r)
             e == IF CanGrow(w.m, r, target) THEN w.m
                  ELSE EvictUntilFree(w.m, BlocksFor(target) - Len(Table(w.m, r)))
             l == Len(m.pool.owns[r])
             part == m.len[r] % BlockSize # 0
  <1>1. /\ Grown(m, w.m, r, t) /\ Len(w.m.pool.owns[r]) = l
        /\ w.ok /\ part => Alone(w.m, r, BlocksFor(m.len[r]))
    BY WritableTailKeeps
  <1>2. c = IF ~w.ok THEN w
            ELSE [ok |-> CanGrow(e, r, target),
                  m  |-> IF CanGrow(e, r, target) THEN Grow(e, r, target) ELSE e]
    BY DEF EnsureKV
  <1> HIDE DEF w
  <1>3. Trimmed(w.m, e, t)
    <2>1. MemoryOK(w.m, t)
      BY <1>1 DEF Grown
    <2> QED BY <2>1, TrimmedSelf, EvictUntilFreeKeeps
  <1> HIDE DEF e, c
  <1>4. /\ Grown(m, e, r, t) /\ Len(e.pool.owns[r]) = l
        /\ w.ok /\ part => Alone(e, r, BlocksFor(m.len[r]))
    BY <1>1, <1>3, TrimmedGrown, GrownAgain, TrimmedAlone
  <1>5. CASE ~w.ok
    <2>1. c = w
      BY <1>2, <1>5
    <2> HIDE DEF l, part
    <2>2. Grown(m, c.m, r, t) /\ ~c.ok /\ Len(c.m.pool.owns[r]) = l
      BY <2>1, <1>1, <1>5
    <2> QED BY <2>2 DEF c, l
  <1>6. CASE w.ok /\ ~CanGrow(e, r, target)
    <2>1. c.m = e /\ ~c.ok
      BY <1>2, <1>6
    <2> HIDE DEF l, part
    <2>2. Grown(m, c.m, r, t) /\ ~c.ok /\ Len(c.m.pool.owns[r]) = l
      BY <2>1, <1>4
    <2> QED BY <2>2 DEF c, l
  <1>7. CASE w.ok /\ CanGrow(e, r, target)
    <2> DEFINE g == Grow(e, r, target)
    <2>1. c.m = g /\ c.ok
      BY <1>2, <1>7
    <2>2. MemoryOK(e, t) /\ e.len = m.len
      BY <1>4 DEF Grown
    <2>3. e.len[r] % BlockSize # 0 => Alone(e, r, BlocksFor(e.len[r]))
      BY <2>2, <1>4, <1>7
    <2>4. /\ MemoryOK(g, t) /\ g.len = e.len /\ Apart(e, g, r)
          /\ CachedBlocks(g) = CachedBlocks(e)
          /\ BlocksFor(target) <= Len(e.pool.owns[r]) => Len(g.pool.owns[r]) = Len(e.pool.owns[r])
          /\ BlocksFor(target) > Len(e.pool.owns[r]) => Len(g.pool.owns[r]) = BlocksFor(target)
          /\ \A y \in PageOwner \ {r} : g.pool.owns[y] = e.pool.owns[y]
          /\ e.len[r] % BlockSize # 0 => Alone(g, r, BlocksFor(e.len[r]))
      BY <2>2, <2>3, <1>7, GrowKeeps
    <2> HIDE DEF g, l, part
    <2>5. Grown(e, g, r, t)
      BY <2>4 DEF Grown
    <2>6. Grown(m, g, r, t)
      BY <2>5, <1>4, GrownAgain
    <2>7. /\ BlocksFor(target) <= l => Len(g.pool.owns[r]) = l
          /\ BlocksFor(target) > l => Len(g.pool.owns[r]) = BlocksFor(target)
          /\ part => Alone(g, r, BlocksFor(m.len[r]))
      BY <2>2, <2>4, <1>4 DEF part
    <2> QED BY <2>1, <2>6, <2>7 DEF c, l, part
  <1> QED BY <1>5, <1>6, <1>7

\* A request that enters takes its first pages.
LEMMA ReserveKeeps ==
    ASSUME NEW m, NEW t \in [Req -> Seq(Token)], MemoryOK(m, t), NEW r \in Req, NEW n \in Nat,
           m.len[r] = 0, CanReserve(m, n), NEW u \in Seq(Token)
    PROVE  LET x == Reserve(m, r, n)
           IN  /\ MemoryOK(x, [t EXCEPT ![r] = u]) /\ x.len = m.len
               /\ CachedBlocks(x) = CachedBlocks(m) /\ Apart(m, x, r)
               /\ Len(x.pool.owns[r]) = Len(m.pool.owns[r]) + BlocksFor(n)
               /\ \A y \in PageOwner \ {r} : x.pool.owns[y] = m.pool.owns[y]
  <1> DEFINE x == Reserve(m, r, n)
             c == BlocksFor(n)
             p == Grant(m.pool, r, Take(m.pool, c))
  <1>1. m \in Memory /\ Consistent(m.pool) /\ r \in PageOwner
    BY OwnersDiffer DEF MemoryOK, CacheOK
  <1>2. c \in Nat /\ c <= FreeCount(m)
    BY BlocksForPage DEF CanReserve
  <1>3. x = [m EXCEPT !.pool = p, !.len[r] = 0]
    BY DEF Reserve
  <1> HIDE DEF c, x
  <1>4. p \in Pool
    <2>1. c <= Cardinality(m.pool.free)
      BY <1>2 DEF FreeCount
    <2>2. Consistent(p)
      BY <1>1, <1>2, <2>1, GrantLeaves
    <2> QED BY <2>2, PoolFacts
  <1> HIDE DEF p
  <1>5. /\ x \in Memory /\ x.pool = p /\ x.len = m.len /\ x.kv = m.kv
        /\ x.lru = m.lru /\ x.crefs = m.crefs /\ x.pred = m.pred
    <2>1. m.len \in [Req -> Nat] /\ [m.len EXCEPT ![r] = 0] = m.len
      BY <1>1, MemoryFields
    <2>2. /\ x \in Memory /\ x.pool = p /\ x.len = [m.len EXCEPT ![r] = 0] /\ x.kv = m.kv
          /\ x.lru = m.lru /\ x.crefs = m.crefs /\ x.pred = m.pred
      BY <1>1, <1>3, <1>4 DEF Memory
    <2> QED BY <2>1, <2>2
  <1>6. ~(m.len[r] % BlockSize # 0)
    BY KVAssumption
  <1>7. /\ MemoryOK(x, t) /\ Apart(m, x, r)
        /\ CachedBlocks(x) = CachedBlocks(m)
        /\ Len(x.pool.owns[r]) = Len(m.pool.owns[r]) + c
        /\ \A y \in PageOwner \ {r} : x.pool.owns[y] = m.pool.owns[y]
    <2>1. x.pool = Grant(m.pool, r, Take(m.pool, c))
      BY <1>5 DEF p
    <2> QED BY <2>1, <1>2, <1>5, <1>6, GrantKeeps, ZenonT(60)
  <1>8. MemoryOK(x, [t EXCEPT ![r] = u])
    <2>1. x.len[r] = 0 /\ Len(u) \in Nat
      BY <1>5
    <2>2. x.len[r] <= Len(u) /\ \A q \in 1 .. x.len[r] : Prefix(u, q) = Prefix(t[r], q)
      BY <2>1
    <2> QED BY <2>2, <1>7, Retarget
  <1> QED BY <1>5, <1>7, <1>8 DEF x, c

-----------------------------------------------------------------------------
(* The forward pass. *)

\* Two positions of a table without repetitions are two slots.
LEMMA SlotsApart ==
    ASSUME NEW q \in Nat \ {0}, NEW n \in Nat \ {0}, PageOf(q) = PageOf(n), OffsetOf(q) = OffsetOf(n)
    PROVE  q = n
  <1>1. /\ q = BlockSize * (PageOf(q) - 1) + OffsetOf(q) + 1
        /\ n = BlockSize * (PageOf(n) - 1) + OffsetOf(n) + 1
    BY PositionParts
  <1> QED BY <1>1

\* Attention over n positions sees n values, whatever the slots hold.
LEMMA ContextType ==
    ASSUME NEW m \in Memory, NEW o \in PageOwner, NEW n \in Nat, BlocksFor(n) <= Len(m.pool.owns[o])
    PROVE  Context(m, o, n) \in Seq(Value) /\ Len(Context(m, o, n)) = n
  <1>1. CASE n = 0
    BY <1>1 DEF Context
  <1>2. CASE n # 0
    <2>1. Slot(m, o, n) \in Seq(Value)
      <3>1. n \in 1 .. n
        BY <1>2
      <3>2. /\ OffsetOf(n) \in Slots /\ m.pool.owns[o][PageOf(n)] \in Block
            /\ Slot(m, o, n) = m.kv[m.pool.owns[o][PageOf(n)]][OffsetOf(n)]
        BY <3>1, SlotAt
      <3>3. m.kv \in [Block -> [Slots -> Seq(Value)]]
        BY MemoryFields
      <3> QED BY <3>2, <3>3
    <2>2. [i \in 1 .. n |-> NoToken] \in Seq(Value) /\ Len([i \in 1 .. n |-> NoToken]) = n
      BY DEF Value
    <2> QED BY <1>2, <2>1, <2>2 DEF Context
  <1> QED BY <1>1, <1>2

\* Position n + i of r gets its keys and values: attention over what is there, then the store.
Stored(m, x, r, n, i, ts) ==
    LET ctx == Context(x, r, n + i - 1)
    IN  [x EXCEPT !.kv = [x.kv EXCEPT ![Table(m, r)[(Len(ctx) \div BlockSize) + 1]]
                                         [Len(ctx) % BlockSize] = Append(ctx, ts[i])]]

\* x differs from m in slots of r's pages from position n + 1 on, at most.
Written(m, x, r, n) ==
    /\ x \in Memory
    /\ x.pool = m.pool /\ x.len = m.len /\ x.lru = m.lru /\ x.crefs = m.crefs /\ x.pred = m.pred
    /\ \A b \in Block :
          (\A j \in 1 .. Len(m.pool.owns[r]) : j >= PageOf(n + 1) => m.pool.owns[r][j] # b) =>
              x.kv[b] = m.kv[b]

LEMMA StoredKeeps ==
    ASSUME NEW m, CacheOK(m), NEW r \in Req, NEW n \in Nat, NEW x, Written(m, x, r, n),
           NEW ts \in Seq(Token), NEW i \in 1 .. Len(ts),
           BlocksFor(n + Len(ts)) <= Len(m.pool.owns[r]), NEW y, y = Stored(m, x, r, n, i, ts)
    PROVE  /\ Written(m, y, r, n)
           /\ \A u \in Seq(Token) :
                 n + i <= Len(u) /\ u[n + i] = ts[i] /\ Reads(x, r, u, n + i - 1) =>
                    Reads(y, r, u, n + i)
  <1> DEFINE k == n + i - 1
             ctx == Context(x, r, k)
             c == Append(ctx, ts[i])
             a == m.pool.owns[r]
             g == PageOf(k + 1)
             o == OffsetOf(k + 1)
             b == a[g]
             kv == [x.kv EXCEPT ![b][o] = c]
  <1>1. /\ m \in Memory /\ Consistent(m.pool) /\ r \in PageOwner /\ x \in Memory /\ x.pool = m.pool
        /\ Len(ts) \in Nat /\ ts[i] \in Token
    BY OwnersDiffer DEF CacheOK, Written
  <1>2. k \in Nat /\ k + 1 = n + i /\ k + 1 \in 1 .. n + Len(ts) /\ n + Len(ts) \in Nat /\ n + 1 <= k + 1
        /\ n + 1 \in Nat \ {0} /\ k + 1 \in Nat \ {0}
    BY <1>1
  <1> HIDE DEF k
  <1>3. /\ g \in 1 .. Len(a) /\ o \in Slots /\ b \in Block /\ Holds(m.pool, r, b)
    BY <1>1, <1>2, SlotAt
  <1>4. g >= PageOf(n + 1)
    <2>1. PageOf(n + 1) <= PageOf(k + 1) /\ PageOf(n + 1) \in Nat \ {0} /\ PageOf(k + 1) \in Nat \ {0}
      BY <1>2, PageMonotone, PositionParts
    <2> QED BY <2>1
  <1>5. BlocksFor(k) <= Len(x.pool.owns[r]) /\ BlocksFor(k + 1) <= Len(x.pool.owns[r])
    <2>1. BlocksFor(k) <= BlocksFor(n + Len(ts)) /\ BlocksFor(k + 1) <= BlocksFor(n + Len(ts))
      BY <1>2, BlocksMonotone
    <2>2. BlocksFor(k) \in Nat /\ BlocksFor(n + Len(ts)) \in Nat /\ BlocksFor(k + 1) \in Nat
      BY <1>2, BlocksForPage
    <2>3. Len(m.pool.owns[r]) \in Nat
      BY <1>1, PoolFacts
    <2> QED BY <2>1, <2>2, <2>3, <1>1
  <1>6. ctx \in Seq(Value) /\ Len(ctx) = k
    BY <1>1, <1>2, <1>5, ContextType
  <1>7. c \in Seq(Value)
    <2>1. ts[i] \in Value
      BY <1>1 DEF Value
    <2> HIDE DEF ctx
    <2> QED BY <2>1, <1>6
  <1>8. g = (Len(ctx) \div BlockSize) + 1 /\ o = Len(ctx) % BlockSize
    BY <1>2, <1>6, NextPage
  <1>9. y = [x EXCEPT !.kv = kv]
    BY <1>1, <1>8 DEF Stored, Table, k
  <1> HIDE DEF ctx, c, g, o, b
  <1>10. /\ kv \in [Block -> [Slots -> Seq(Value)]] /\ kv[b][o] = c
         /\ \A d \in Block : \A s \in Slots : (d # b \/ s # o) => kv[d][s] = x.kv[d][s]
         /\ \A d \in Block \ {b} : kv[d] = x.kv[d]
    <2>1. x.kv \in [Block -> [Slots -> Seq(Value)]]
      BY <1>1, MemoryFields
    <2> QED BY <2>1, <1>3, <1>7
  <1> HIDE DEF kv
  <1>11. /\ y \in Memory /\ y.pool = x.pool /\ y.len = x.len /\ y.lru = x.lru
         /\ y.crefs = x.crefs /\ y.pred = x.pred /\ y.kv = kv
    BY <1>1, <1>9, <1>10 DEF Memory
  <1>12. Written(m, y, r, n)
    <2>1. ASSUME NEW d \in Block,
                 \A j \in 1 .. Len(a) : j >= PageOf(n + 1) => a[j] # d
          PROVE  y.kv[d] = m.kv[d]
      <3>1. d # b
        BY <2>1, <1>3, <1>4 DEF b
      <3>2. x.kv[d] = m.kv[d]
        BY <2>1 DEF Written
      <3> QED BY <3>1, <3>2, <1>10, <1>11
    <2> QED BY <2>1, <1>11 DEF Written
  <1>13. ASSUME NEW u \in Seq(Token), n + i <= Len(u), u[n + i] = ts[i],
                Reads(x, r, u, n + i - 1)
         PROVE  Reads(y, r, u, n + i)
    <2>1. Reads(x, r, u, k) /\ k \in 0 .. Len(u) /\ k + 1 <= Len(u) /\ Len(u) \in Nat /\ u[k + 1] = ts[i]
      BY <1>2, <1>13 DEF k
    <2>2. ctx = Prefix(u, k)
      BY <2>1, <1>1, ReadsContext DEF ReadsBack, ctx
    <2>3. c = Prefix(u, k + 1)
      <3>1. Prefix(u, k + 1) = Append(Prefix(u, k), u[k + 1])
        BY <2>1, <1>2 DEF Prefix
      <3> QED BY <3>1, <2>1, <2>2 DEF c
    <2>4. ASSUME NEW q \in 1 .. k + 1 PROVE Slot(y, r, q) = Prefix(u, q)
      <3>1. /\ PageOf(q) \in 1 .. Len(a) /\ OffsetOf(q) \in Slots /\ a[PageOf(q)] \in Block
            /\ Slot(y, r, q) = kv[a[PageOf(q)]][OffsetOf(q)]
        <4>1. BlocksFor(k + 1) <= Len(y.pool.owns[r]) /\ y \in Memory /\ k + 1 \in Nat
          BY <1>2, <1>5, <1>11
        <4>2. /\ PageOf(q) \in 1 .. Len(y.pool.owns[r]) /\ OffsetOf(q) \in Slots
              /\ y.pool.owns[r][PageOf(q)] \in Block
              /\ Slot(y, r, q) = y.kv[y.pool.owns[r][PageOf(q)]][OffsetOf(q)]
          BY <4>1, <1>1, SlotAt
        <4> QED BY <4>2, <1>1, <1>11
      <3>2. CASE q = k + 1
        <4>1. PageOf(q) = g /\ OffsetOf(q) = o
          BY <3>2 DEF g, o
        <4> QED BY <3>1, <3>2, <4>1, <2>3, <1>10 DEF b
      <3>3. CASE q # k + 1
        <4>1. q \in 1 .. k /\ q \in Nat \ {0}
          BY <3>3, <1>2
        <4>2. PageOf(q) # g \/ OffsetOf(q) # o
          BY <3>3, <4>1, <1>2, SlotsApart DEF g, o
        <4>3. a[PageOf(q)] # b \/ OffsetOf(q) # o
          BY <3>1, <4>2, <1>1, <1>3, PoolFacts DEF b
        <4>4. kv[a[PageOf(q)]][OffsetOf(q)] = x.kv[a[PageOf(q)]][OffsetOf(q)]
          BY <3>1, <4>3, <1>10
        <4>5. Slot(x, r, q) = x.kv[a[PageOf(q)]][OffsetOf(q)]
          <5>1. x \in Memory /\ k \in Nat /\ BlocksFor(k) <= Len(x.pool.owns[r])
            BY <1>1, <1>2, <1>5
          <5>2. Slot(x, r, q) = x.kv[x.pool.owns[r][PageOf(q)]][OffsetOf(q)]
            BY DEF Slot, Table, PageOf, OffsetOf
          <5> QED BY <5>2, <1>1
        <4>6. Slot(x, r, q) = Prefix(u, q)
          BY <4>1, <2>1 DEF Reads
        <4> QED BY <3>1, <4>4, <4>5, <4>6
      <3> QED BY <3>2, <3>3
    <2>5. BlocksFor(k + 1) <= Len(y.pool.owns[r])
      BY <1>5, <1>11
    <2>6. Reads(y, r, u, k + 1)
      BY <2>4, <2>5 DEF Reads
    <2> QED BY <2>6, <1>2
  <1> QED BY <1>12, <1>13

\* Forward stores position after position: what r held it still holds, and the pages read
\* back the sequence with the new tokens.
LEMMA ForwardWrites ==
    ASSUME NEW m, CacheOK(m), NEW r \in Req, NEW n \in Nat, NEW ts \in Seq(Token),
           BlocksFor(n + Len(ts)) <= Len(m.pool.owns[r]),
           NEW u \in Seq(Token), n + Len(ts) <= Len(u), \A i \in 1 .. Len(ts) : u[n + i] = ts[i],
           Reads(m, r, u, n)
    PROVE  Written(m, Forward(m, r, n, ts), r, n) /\ Reads(Forward(m, r, n, ts), r, u, n + Len(ts))
  <1> DEFINE l == Len(ts)
             S == {x \in Memory : Written(m, x, r, n)}
             G == [i \in 1 .. l |-> [x \in S |-> Stored(m, x, r, n, i, ts)]]
             step(f) == [i \in 0 .. l |-> IF i = 0 THEN m ELSE Stored(m, f[i - 1], r, n, i, ts)]
             k == CHOOSE f : f = step(f)
  <1>0. Forward(m, r, n, ts) = k[l]
    BY DEF Forward, Stored
  <1>1. l \in Nat /\ m \in S
    BY DEF Written, CacheOK
  <1>2. ASSUME NEW i \in 1 .. l, NEW x \in S
        PROVE  /\ Stored(m, x, r, n, i, ts) \in S
               /\ Reads(x, r, u, n + i - 1) => Reads(Stored(m, x, r, n, i, ts), r, u, n + i)
    <2> DEFINE y == Stored(m, x, r, n, i, ts)
    <2>1. Written(m, x, r, n) /\ y = Stored(m, x, r, n, i, ts) /\ i \in 1 .. Len(ts)
      OBVIOUS
    <2>2. n + i <= Len(u) /\ u[n + i] = ts[i]
      <3>1. Len(u) \in Nat
        OBVIOUS
      <3> QED BY <3>1, <1>1
    <2> HIDE DEF y, S, G, k, l
    <2>3. /\ Written(m, y, r, n)
          /\ \A v \in Seq(Token) :
                n + i <= Len(v) /\ v[n + i] = ts[i] /\ Reads(x, r, v, n + i - 1) => Reads(y, r, v, n + i)
      BY <2>1, StoredKeeps
    <2>4. Reads(x, r, u, n + i - 1) => Reads(y, r, u, n + i)
      BY <2>2, <2>3
    <2>5. y \in S
      BY <2>3 DEF S, Written
    <2> QED BY <2>4, <2>5 DEF y
  <1> HIDE DEF l
  <1>3. /\ G \in [1 .. l -> [S -> S]]
        /\ \A i \in 1 .. l : \A x \in S : G[i][x] = Stored(m, x, r, n, i, ts)
    BY <1>2
  <1> HIDE DEF G, S
  <1>4. PICK h : Recursion(h, l, S, m, G)
    BY <1>1, <1>3, RecursionExists
  <1>5. h \in [0 .. l -> S] /\ h[0] = m /\ \A i \in 1 .. l : h[i] = Stored(m, h[i - 1], r, n, i, ts)
    <2>1. h \in [0 .. l -> S] /\ h[0] = m /\ \A i \in 1 .. l : h[i] = G[i][h[i - 1]]
      BY <1>4 DEF Recursion
    <2>2. \A i \in 1 .. l : h[i - 1] \in S
      BY <2>1, <1>1
    <2> QED BY <2>1, <2>2, <1>3
  <1>6. h = step(h)
    <2>1. \A i \in 0 .. l : h[i] = IF i = 0 THEN m ELSE Stored(m, h[i - 1], r, n, i, ts)
      BY <1>1, <1>5
    <2> QED BY <2>1, <1>5
  <1>7. k = step(k)
    BY <1>6
  <1> HIDE DEF k
  <1>8. k[0] = m /\ \A i \in 1 .. l : k[i] = Stored(m, k[i - 1], r, n, i, ts)
    <2>1. \A i \in 0 .. l : k[i] = IF i = 0 THEN m ELSE Stored(m, k[i - 1], r, n, i, ts)
      BY <1>7
    <2> QED BY <2>1, <1>1
  <1>9. \A i \in 0 .. l : k[i] \in S
    <2>1. \A i \in 1 .. l : k[i - 1] \in S => k[i] = G[i][k[i - 1]]
      BY <1>3, <1>8
    <2>2. l \in Nat /\ m \in S /\ G \in [1 .. l -> [S -> S]] /\ k[0] = m
      BY <1>1, <1>3, <1>8
    <2> QED BY <2>1, <2>2, RecursionStays, ZenonT(60)
  <1> DEFINE U == {i \in 0 .. l : Reads(k[i], r, u, n + i)}
  <1>10. 0 \in U
    <2>1. n + 0 = n /\ 0 \in 0 .. l
      BY <1>1
    <2> QED BY <2>1, <1>8
  <1>11. ASSUME NEW i \in 0 .. l - 1, i \in U PROVE i + 1 \in U
    <2> DEFINE j == i + 1
    <2>1. j \in 1 .. l /\ j \in 0 .. l /\ j - 1 = i /\ n + j - 1 = n + i /\ i \in 0 .. l
      BY <1>1
    <2>2. Reads(k[j - 1], r, u, n + j - 1) /\ k[j - 1] \in S /\ k[j] = Stored(m, k[j - 1], r, n, j, ts)
      BY <2>1, <1>8, <1>9, <1>11
    <2> HIDE DEF j
    <2>3. Reads(k[j], r, u, n + j)
      BY <2>1, <2>2, <1>2
    <2> QED BY <2>1, <2>3 DEF j
  <1>12. l \in U
    <2>1. \A i \in 0 .. l - 1 : i \in U => i + 1 \in U
      BY <1>11
    <2> HIDE DEF U
    <2>2. \A i \in 0 .. l : i \in U
      BY <1>1, <1>10, <2>1, BoundedInduction
    <2> QED BY <2>2, <1>1
  <1>13. Written(m, k[l], r, n)
    BY <1>1, <1>9 DEF S
  <1> QED BY <1>0, <1>12, <1>13 DEF l

\* u goes on from the first n positions of s with the tokens ts.
Continues(u, s, n, ts) ==
    /\ n + Len(ts) <= Len(u)
    /\ \A q \in 1 .. n : Prefix(u, q) = Prefix(s, q)
    /\ \A i \in 1 .. Len(ts) : u[n + i] = ts[i]

\* r has the pages for c more positions, and nobody else the one it will write into.
Ready(m, r, c) ==
    /\ BlocksFor(m.len[r] + c) <= Len(m.pool.owns[r])
    /\ m.len[r] % BlockSize # 0 => Alone(m, r, BlocksFor(m.len[r]))

\* The c positions after r's committed ones read as u, which they belong to.
Covers(m, r, c, u) ==
    /\ m.len[r] + c <= Len(u)
    /\ Reads(m, r, u, m.len[r] + c)

\* Between m and w, r computed the c positions after its committed ones.
Stores(m, w, t, r, c) ==
    /\ MemoryOK(w, t) /\ w \in Memory
    /\ w.pool = m.pool /\ w.len = m.len /\ w.lru = m.lru /\ w.crefs = m.crefs /\ w.pred = m.pred
    /\ Covers(w, r, c, t[r])
    /\ Apart(m, w, r)

\* A forward pass over pages that are r's own, not yet committed.
LEMMA ForwardStores ==
    ASSUME NEW m, NEW t \in [Req -> Seq(Token)], MemoryOK(m, t), NEW r \in Req,
           NEW ts \in Seq(Token), ts # << >>, NEW n \in Nat, n = m.len[r],
           Ready(m, r, Len(ts)), Continues(t[r], t[r], n, ts),
           NEW w, w = Forward(m, r, n, ts)
    PROVE  Stores(m, w, t, r, Len(ts))
  <1> DEFINE l == Len(ts)
             u == t[r]
             a == m.pool.owns[r]
  <1>0. /\ n + Len(ts) <= Len(u)
        /\ \A i \in 1 .. Len(ts) : u[n + i] = ts[i]
        /\ BlocksFor(n + Len(ts)) <= Len(a)
        /\ n % BlockSize # 0 => Alone(m, r, BlocksFor(n))
    BY DEF Continues, Ready
  <1>1. /\ CacheOK(m) /\ m \in Memory /\ Consistent(m.pool) /\ r \in PageOwner /\ RequestOK(m, r, u)
        /\ u \in Seq(Token)
    BY OwnersDiffer DEF MemoryOK, CacheOK
  <1> HIDE DEF u
  <1>2. l \in Nat \ {0} /\ n + 1 \in Nat \ {0} /\ Len(u) \in Nat
    <2>1. l \in Nat \ {0} /\ Len(u) \in Nat
      BY <1>1, EmptySeq
    <2> HIDE DEF l
    <2> QED BY <2>1
  <1>3. Reads(m, r, u, n)
    BY <1>1 DEF RequestOK
  <1>5. Written(m, w, r, n) /\ Reads(w, r, u, n + l)
    BY <1>0, <1>1, <1>2, <1>3, ForwardWrites
  <1> HIDE DEF l
  <1>6. /\ w \in Memory /\ w.pool = m.pool /\ w.len = m.len /\ w.lru = m.lru
        /\ w.crefs = m.crefs /\ w.pred = m.pred
    BY <1>5 DEF Written
  <1>10. ASSUME NEW j \in 1 .. Len(a), j >= PageOf(n + 1) PROVE Alone(m, r, j)
    <2>1. /\ n % BlockSize = 0 => BlocksFor(n) = PageOf(n + 1) - 1
          /\ n % BlockSize # 0 => BlocksFor(n) = PageOf(n + 1)
      BY NextPage
    <2>2. PageOf(n + 1) \in Nat \ {0} /\ BlocksFor(n) \in Nat
      BY <1>2, PositionParts, BlocksForPage
    <2>3. CASE n % BlockSize # 0 /\ j = BlocksFor(n)
      BY <2>3, <1>0
    <2>4. CASE ~(n % BlockSize # 0 /\ j = BlocksFor(n))
      <3>1. j > BlocksFor(n)
        BY <1>10, <2>1, <2>2, <2>4
      <3> QED BY <3>1, <1>1, <1>10 DEF RequestOK, Ahead
    <2> QED BY <2>3, <2>4
  <1>11. \A y \in PageOwner \ {r} : Keeps(m, w, y)
    <2> SUFFICES ASSUME NEW y \in PageOwner \ {r}, NEW b \in Block, Holds(m.pool, y, b)
                 PROVE  w.kv[b] = m.kv[b]
      BY <1>6 DEF Keeps
    <2>1. \A j \in 1 .. Len(a) : j >= PageOf(n + 1) => a[j] # b
      BY <1>10 DEF Alone
    <2> QED BY <2>1, <1>5 DEF Written
  <1>12. CacheOK(w)
    <2>1. \A y \in CacheOwner : y \in PageOwner \ {r}
      BY OwnersDiffer
    <2> QED BY <2>1, <1>1, <1>6, <1>11, CacheUntouched
  <1>13. ASSUME NEW y \in Req \ {r} PROVE Spared(m, w, y) /\ RequestOK(w, y, t[y])
    <2>1. RequestOK(m, y, t[y]) /\ y \in PageOwner \ {r}
      BY OwnersDiffer DEF MemoryOK
    <2>2. Spared(m, w, y)
      BY <2>1, <1>6, <1>11 DEF Spared, Alone
    <2> QED BY <2>1, <2>2, <1>1, <1>6, SparedRequest
  <1>14. RequestOK(w, r, u)
    <2>1. \A i \in 1 .. Len(w.pool.owns[r]) : Ahead(w, r, i) => Alone(w, r, i)
      BY <1>1, <1>6 DEF RequestOK, Ahead, Alone
    <2>2. Reads(w, r, u, n)
      <3>1. BlocksFor(n) <= Len(w.pool.owns[r])
        BY <1>3, <1>6 DEF Reads
      <3>2. 1 .. n \subseteq 1 .. n + l
        BY <1>2
      <3> QED BY <3>1, <3>2, <1>5 DEF Reads
    <2> QED BY <2>1, <2>2, <1>1, <1>6 DEF RequestOK
  <1>15. MemoryOK(w, t)
    <2>1. \A y \in Req : RequestOK(w, y, t[y])
      BY <1>13, <1>14 DEF u
    <2> QED BY <2>1, <1>12 DEF MemoryOK
  <1>16. Covers(w, r, l, u)
    BY <1>0, <1>5, <1>6 DEF Covers, l
  <1>17. Apart(m, w, r)
    <2>1. PredsKept(m, w)
      BY <1>6, PredsSame
    <2> QED BY <2>1, <1>13 DEF Apart, Spares
  <1> QED BY <1>6, <1>15, <1>16, <1>17 DEF Stores, u, l

\* x is m after the commit of c positions of r.
Advanced(m, x, t, r, c) ==
    /\ MemoryOK(x, t) /\ x \in Memory
    /\ x.pool = m.pool /\ x.len = [m.len EXCEPT ![r] = m.len[r] + c]
    /\ x.lru = m.lru /\ x.crefs = m.crefs /\ x.pred = m.pred
    /\ Apart(m, x, r)

\* append_tokens: r stands by positions that are already stored.
LEMMA CommitKeeps ==
    ASSUME NEW m, NEW t \in [Req -> Seq(Token)], MemoryOK(m, t), NEW r \in Req,
           NEW c \in Nat \ {0}, Covers(m, r, c, t[r]),
           NEW x, x = Commit(m, r, c)
    PROVE  Advanced(m, x, t, r, c)
  <1> DEFINE n == m.len[r]
             u == t[r]
             g == [m.len EXCEPT ![r] = m.len[r] + c]
  <1>1. /\ CacheOK(m) /\ m \in Memory /\ Consistent(m.pool) /\ RequestOK(m, r, u)
        /\ n \in Nat /\ m.len \in [Req -> Nat]
    BY MemoryFields DEF MemoryOK, CacheOK
  <1> HIDE DEF u
  <1>2. g \in [Req -> Nat] /\ g[r] = n + c /\ \A y \in Req \ {r} : g[y] = m.len[y]
    BY <1>1
  <1>3. x = [m EXCEPT !.len = g]
    BY DEF Commit
  <1>4. n + c <= Len(u) /\ Reads(m, r, u, n + c)
    BY DEF Covers, u
  <1> HIDE DEF n, g
  <1>5. /\ x \in Memory /\ x.pool = m.pool /\ x.len = g /\ x.lru = m.lru
        /\ x.crefs = m.crefs /\ x.kv = m.kv /\ x.pred = m.pred
    BY <1>1, <1>2, <1>3 DEF Memory
  <1>6. CacheOK(x)
    BY <1>1, <1>5, CacheUntouched DEF Keeps
  <1>7. ASSUME NEW y \in Req \ {r} PROVE Spared(m, x, y) /\ RequestOK(x, y, t[y])
    <2>1. Spared(m, x, y)
      BY <1>2, <1>5 DEF Spared, Keeps, Alone
    <2> QED BY <2>1, <1>1, <1>5, SparedRequest DEF MemoryOK
  <1>8. ASSUME NEW i \in 1 .. Len(m.pool.owns[r]), Ahead(x, r, i) PROVE Ahead(m, r, i)
    <2>1. /\ BlocksFor(n) \in Nat /\ BlocksFor(n + c) \in Nat /\ BlocksFor(n) <= BlocksFor(n + c)
          /\ n + c \in Nat /\ n + 1 \in Nat \ {0} /\ n + c \in Nat \ {0} /\ n + 1 <= n + c
      <3>1. n + c \in Nat /\ n + 1 \in Nat \ {0} /\ n + c \in Nat \ {0} /\ n + 1 <= n + c /\ n <= n + c
        BY <1>1
      <3> QED BY <3>1, <1>1, BlocksForPage, BlocksMonotone
    <2>2. n % BlockSize = 0 => BlocksFor(n) < BlocksFor(n + c)
      <3>1. n % BlockSize = 0 => BlocksFor(n) = PageOf(n + 1) - 1
        BY <1>1, NextPage
      <3>2. PageOf(n + 1) <= PageOf(n + c) /\ BlocksFor(n + c) = PageOf(n + c)
        BY <2>1, PageMonotone, BlocksForPage
      <3>3. PageOf(n + 1) \in Nat
        BY <2>1, PositionParts
      <3> QED BY <3>1, <3>2, <3>3, <2>1
    <2>3. \/ i > BlocksFor(n + c)
          \/ i = BlocksFor(n + c) /\ i < Len(m.pool.owns[r])
      BY <1>2, <1>5, <1>8 DEF Ahead
    <2>4. i \in Nat
      OBVIOUS
    <2>5. CASE i > BlocksFor(n)
      BY <2>5 DEF Ahead, n
    <2>6. CASE ~(i > BlocksFor(n))
      <3>1. i = BlocksFor(n) /\ i < Len(m.pool.owns[r]) /\ n % BlockSize # 0
        BY <2>1, <2>2, <2>3, <2>4, <2>6
      <3> QED BY <3>1 DEF Ahead, n
    <2> QED BY <2>5, <2>6
  <1>9. RequestOK(x, r, u)
    <2>1. \A i \in 1 .. Len(x.pool.owns[r]) : Ahead(x, r, i) => Alone(x, r, i)
      BY <1>1, <1>5, <1>8 DEF RequestOK, Alone
    <2>2. Reads(x, r, u, n + c)
      BY <1>4, <1>5 DEF Reads, Slot, Table
    <2> QED BY <2>1, <2>2, <1>2, <1>4, <1>5 DEF RequestOK
  <1>10. MemoryOK(x, t)
    <2>1. \A y \in Req : RequestOK(x, y, t[y])
      BY <1>7, <1>9 DEF u
    <2> QED BY <2>1, <1>6 DEF MemoryOK
  <1>11. Apart(m, x, r)
    <2>1. PredsKept(m, x)
      BY <1>5, PredsSame
    <2> QED BY <2>1, <1>7 DEF Apart, Spares
  <1> QED BY <1>5, <1>10, <1>11 DEF Advanced, g

\* Between m and x, r computed the tokens ts after its first n positions and is about u.
Computed(m, x, t, r, n, ts, u) ==
    /\ MemoryOK(x, [t EXCEPT ![r] = u])
    /\ x.len[r] = n + Len(ts) /\ \A y \in Req \ {r} : x.len[y] = m.len[y]
    /\ x.pool = m.pool
    /\ CachedBlocks(x) = CachedBlocks(m)

\* A forward pass over pages that are r's own, and the commit of its positions.
LEMMA ForwardKeeps ==
    ASSUME NEW m, NEW t \in [Req -> Seq(Token)], MemoryOK(m, t), NEW r \in Req,
           NEW ts \in Seq(Token), ts # << >>, NEW n \in Nat, n = m.len[r],
           BlocksFor(n + Len(ts)) <= Len(m.pool.owns[r]),
           n % BlockSize # 0 => Alone(m, r, BlocksFor(n)),
           NEW u \in Seq(Token), Continues(u, t[r], n, ts),
           NEW x, x = Commit(Forward(m, r, n, ts), r, Len(ts))
    PROVE  Computed(m, x, t, r, n, ts, u)
  <1> DEFINE v == [t EXCEPT ![r] = u]
             w == Forward(m, r, n, ts)
             c == Len(ts)
  <1>1. v \in [Req -> Seq(Token)] /\ v[r] = u /\ c \in Nat \ {0} /\ Len(u) \in Nat /\ n \in Nat
    BY EmptySeq
  <1>2. /\ n + c <= Len(u) /\ \A q \in 1 .. n : Prefix(u, q) = Prefix(t[r], q)
        /\ \A i \in 1 .. c : u[n + i] = ts[i]
    BY DEF Continues
  <1>3. MemoryOK(m, v)
    <2>1. n <= Len(u)
      <3> HIDE DEF c
      <3> QED BY <1>1, <1>2
    <2> QED BY <2>1, <1>2, Retarget
  <1>4. Ready(m, r, c) /\ Continues(u, u, n, ts)
    BY <1>2 DEF Ready, Continues
  <1>5. w = Forward(m, r, n, ts) /\ x = Commit(w, r, c)
    OBVIOUS
  <1> HIDE DEF v, w
  <1>6. Stores(m, w, v, r, c)
    BY <1>1, <1>3, <1>4, <1>5, ForwardStores
  <1>7. /\ MemoryOK(w, v) /\ w.pool = m.pool /\ w.len = m.len /\ w.crefs = m.crefs
        /\ Covers(w, r, c, v[r]) /\ m.len \in [Req -> Nat]
    BY <1>6, MemoryFields DEF Stores, MemoryOK, CacheOK
  <1> HIDE DEF c
  <1>8. Advanced(w, x, v, r, c)
    BY <1>1, <1>5, <1>7, CommitKeeps
  <1>9. MemoryOK(x, v) /\ x.pool = w.pool /\ x.len = [w.len EXCEPT ![r] = w.len[r] + c] /\ x.crefs = w.crefs
    BY <1>8 DEF Advanced
  <1>10. x.len[r] = n + c /\ \A y \in Req \ {r} : x.len[y] = m.len[y]
    BY <1>7, <1>9
  <1>11. CachedBlocks(x) = CachedBlocks(m)
    BY <1>7, <1>9 DEF CachedBlocks
  <1> QED BY <1>7, <1>9, <1>10, <1>11 DEF Computed, v, c

-----------------------------------------------------------------------------
(* Looking up the cache. *)

LEMMA TouchAllKeeps ==
    ASSUME NEW m, NEW t, MemoryOK(m, t), NEW os \in Seq(Entries(m))
    PROVE  LET x == TouchAll(m, os)
           IN  /\ MemoryOK(x, t) /\ x.pool = m.pool /\ x.len = m.len
               /\ x.crefs = m.crefs /\ x.pred = m.pred /\ x.kv = m.kv
  <1> DEFINE l == Len(os)
             Same(x) == /\ MemoryOK(x, t) /\ x.pool = m.pool /\ x.len = m.len
                        /\ x.crefs = m.crefs /\ x.pred = m.pred /\ x.kv = m.kv
             S == {x \in Memory : Same(x)}
             G == [i \in 1 .. l |-> [x \in S |-> Touch(x, os[i])]]
             step(f) == [i \in 0 .. l |-> IF i = 0 THEN m ELSE Touch(f[i - 1], os[i])]
             k == CHOOSE f : f = step(f)
  <1>0. TouchAll(m, os) = k[l]
    BY DEF TouchAll
  <1>1. l \in Nat /\ m \in S
    BY DEF MemoryOK, CacheOK
  <1>2. ASSUME NEW i \in 1 .. l, NEW x \in S PROVE Touch(x, os[i]) \in S
    <2>1. os[i] \in Entries(m) /\ Entries(x) = Entries(m)
      BY DEF Entries, Present
    <2> DEFINE o == os[i]
               y == Touch(x, o)
    <2>2. o \in Entries(x) /\ o \in CacheOwner /\ MemoryOK(x, t) /\ x \in Memory
      BY <2>1 DEF Entries
    <2>3. Same(x)
      OBVIOUS
    <2> HIDE DEF o, S, G, k, y
    <2>4. /\ y \in Memory /\ y.pool = x.pool /\ y.len = x.len
          /\ y.crefs = x.crefs /\ y.pred = x.pred /\ y.kv = x.kv
      BY <2>2, TouchFields DEF y
    <2>5. MemoryOK(y, t)
      BY <2>2, TouchKeeps DEF y
    <2>6. y \in S
      BY <2>3, <2>4, <2>5 DEF S
    <2> QED BY <2>6 DEF y, o
  <1> HIDE DEF l
  <1>3. /\ G \in [1 .. l -> [S -> S]]
        /\ \A i \in 1 .. l : \A x \in S : G[i][x] = Touch(x, os[i])
    BY <1>2
  <1> HIDE DEF G, S
  <1>4. PICK h : Recursion(h, l, S, m, G)
    BY <1>1, <1>3, RecursionExists
  <1>5. h \in [0 .. l -> S] /\ h[0] = m /\ \A i \in 1 .. l : h[i] = Touch(h[i - 1], os[i])
    <2>1. h \in [0 .. l -> S] /\ h[0] = m /\ \A i \in 1 .. l : h[i] = G[i][h[i - 1]]
      BY <1>4 DEF Recursion
    <2>2. \A i \in 1 .. l : h[i - 1] \in S
      BY <2>1, <1>1
    <2> QED BY <2>1, <2>2, <1>3
  <1>6. h = step(h)
    <2>1. \A i \in 0 .. l : h[i] = IF i = 0 THEN m ELSE Touch(h[i - 1], os[i])
      BY <1>1, <1>5
    <2> QED BY <2>1, <1>5
  <1>7. k = step(k)
    BY <1>6
  <1> HIDE DEF k
  <1>8. k[0] = m /\ \A i \in 1 .. l : k[i] = Touch(k[i - 1], os[i])
    <2>1. \A i \in 0 .. l : k[i] = IF i = 0 THEN m ELSE Touch(k[i - 1], os[i])
      BY <1>7
    <2> QED BY <2>1, <1>1
  <1>9. \A i \in 0 .. l : k[i] \in S
    <2>1. \A i \in 1 .. l : k[i - 1] \in S => k[i] = G[i][k[i - 1]]
      BY <1>3, <1>8
    <2>2. l \in Nat /\ m \in S /\ G \in [1 .. l -> [S -> S]] /\ k[0] = m
      BY <1>1, <1>3, <1>8
    <2> QED BY <2>1, <2>2, RecursionStays, SMTT(30)
  <1>10. Same(k[l])
    BY <1>1, <1>9 DEF S
  <1> QED BY <1>0, <1>10

\* The radix walk ends at a depth all of whose blocks are in the tree, one token short of
\* the sequence at least.
LEMMA RadixDepthOK ==
    ASSUME NEW m, NEW toks \in Seq(Token) \ {<< >>}
    PROVE  LET k == RadixDepth(m, toks)
           IN  /\ k \in Nat /\ k * BlockSize <= Len(toks) - 1 /\ k * BlockSize \in Nat
               /\ \A j \in 1 .. k : Prefix(toks, j * BlockSize) \in Nodes(m)
  <1> DEFINE most == (Len(toks) - 1) \div BlockSize
             hit(j) == \A i \in 1 .. j : Prefix(toks, i * BlockSize) \in Nodes(m)
             T == {j \in 0 .. most : hit(j)}
             k == RadixDepth(m, toks)
  <1>1. Len(toks) \in Nat \ {0} /\ BlockSize \in Nat \ {0} /\ Len(toks) - 1 \in Nat
    <2>1. Len(toks) \in Nat \ {0}
      BY EmptySeq
    <2> QED BY <2>1, KVAssumption
  <1>2. /\ most \in Nat
        /\ Len(toks) - 1 = BlockSize * most + ((Len(toks) - 1) % BlockSize)
        /\ (Len(toks) - 1) % BlockSize \in 0 .. BlockSize - 1
    BY <1>1, DivMod
  <1>3. k = CHOOSE j \in 0 .. most : hit(j) /\ \A i \in j + 1 .. most : ~hit(i)
    BY DEF RadixDepth
  <1> HIDE DEF most, k
  <1>4. \E j \in 0 .. most : hit(j) /\ \A i \in j + 1 .. most : ~hit(i)
    <2>1. 0 \in T /\ T \subseteq 0 .. most
      BY <1>2
    <2>2. PICK j \in T : \A i \in T : i <= j
      <3> HIDE DEF T
      <3> QED BY <2>1, <1>2, GreatestExists
    <2>3. ASSUME NEW i \in j + 1 .. most, hit(i) PROVE FALSE
      <3>1. i \in T /\ ~(i <= j)
        BY <2>3, <1>2
      <3> QED BY <3>1, <2>2
    <2> QED BY <2>3
  <1>5. k \in 0 .. most /\ hit(k)
    <2> HIDE DEF hit
    <2> QED BY <1>3, <1>4
  <1>6. k \in Nat /\ k * BlockSize \in Nat
    BY <1>1, <1>2, <1>5
  <1>7. k * BlockSize <= BlockSize * most
    <2>1. most = k + (most - k) /\ most - k \in Nat
      BY <1>2, <1>5
    <2>2. BlockSize * most = BlockSize * k + BlockSize * (most - k)
      BY <2>1, <1>1, <1>6
    <2>3. BlockSize * (most - k) \in Nat
      BY <2>1, <1>1
    <2>4. k * BlockSize = BlockSize * k
      BY <1>1, <1>6
    <2> QED BY <2>2, <2>3, <2>4, <1>1, <1>6
  <1>8. k * BlockSize <= Len(toks) - 1
    <2>1. BlockSize * most \in Nat
      BY <1>1, <1>2
    <2> QED BY <2>1, <1>1, <1>2, <1>6, <1>7
  <1> QED BY <1>5, <1>6, <1>8 DEF k

LEMMA WholeBlocks ==
    ASSUME NEW k \in Nat
    PROVE  BlocksFor(k * BlockSize) = k /\ k * BlockSize \in Nat
  <1>1. BlockSize \in Nat \ {0}
    BY KVAssumption
  <1>2. k * BlockSize + BlockSize - 1 = BlockSize * k + (BlockSize - 1) /\ BlockSize - 1 \in 0 .. BlockSize - 1
        /\ k * BlockSize \in Nat
    BY <1>1
  <1>3. (BlockSize * k + (BlockSize - 1)) \div BlockSize = k
    BY <1>1, <1>2, DivUnique
  <1> QED BY <1>2, <1>3 DEF BlocksFor

LEMMA EntryHit ==
    ASSUME NEW m, CacheOK(m), NEW toks \in Prompts, Present(m, ExactOwner(toks))
    PROVE  Hit(m, toks, m.pool.owns[ExactOwner(toks)], Len(toks))
  <1> DEFINE o == ExactOwner(toks)
             s == m.pool.owns[o]
             n == Len(toks)
  <1>1. m \in Memory /\ Consistent(m.pool) /\ o \in CacheOwner /\ o \in PageOwner /\ n \in Nat
    BY KVAssumption, OwnersDiffer DEF CacheOK
  <1>2. ExactEntry(m, toks)
    BY DEF CacheOK
  <1>3. Len(s) = BlocksFor(n) /\ BlocksFor(n) <= Len(s) /\ \A q \in 1 .. n : Slot(m, o, q) = Prefix(toks, q)
    BY <1>2 DEF ExactEntry, Reads
  <1> HIDE DEF o
  <1>4. s \in Seq(Block) /\ \A i, j \in 1 .. Len(s) : i # j => s[i] # s[j]
    BY <1>1, PoolFacts
  <1>5. \A j \in 1 .. Len(s) : \E y \in CacheOwner : Holds(m.pool, y, s[j])
    BY <1>1, PoolFacts
  <1>6. ASSUME NEW q \in 1 .. n PROVE m.kv[s[PageOf(q)]][OffsetOf(q)] = Prefix(toks, q)
    <2>1. Slot(m, o, q) = m.kv[m.pool.owns[o][PageOf(q)]][OffsetOf(q)]
      BY <1>1, <1>3, SlotAt
    <2> QED BY <2>1, <1>3
  <1>7. n \in 0 .. n
    BY <1>1
  <1> QED BY <1>3, <1>4, <1>5, <1>6, <1>7 DEF Hit, o

LEMMA RadixHit ==
    ASSUME NEW m, CacheOK(m), NEW toks \in Seq(Token), NEW k \in Nat, k * BlockSize <= Len(toks),
           \A j \in 1 .. k : Prefix(toks, j * BlockSize) \in Nodes(m)
    PROVE  Hit(m, toks, [j \in 1 .. k |-> m.pool.owns[NodeOwner(Prefix(toks, j * BlockSize))][1]],
               k * BlockSize)
  <1> DEFINE P(j) == Prefix(toks, j * BlockSize)
             s == [j \in 1 .. k |-> m.pool.owns[NodeOwner(P(j))][1]]
             n == k * BlockSize
  <1>1. m \in Memory /\ Consistent(m.pool) /\ BlockSize \in Nat \ {0} /\ Len(toks) \in Nat
    BY KVAssumption DEF CacheOK
  <1>2. n \in Nat /\ BlocksFor(n) = k
    BY WholeBlocks
  <1>3. ASSUME NEW j \in 1 .. k
        PROVE  /\ j * BlockSize \in Nat /\ j * BlockSize <= Len(toks)
               /\ Len(P(j)) = j * BlockSize /\ P(j) \in Nodes(m)
    <2>1. j \in Nat \ {0} /\ j <= k /\ k = j + (k - j) /\ k - j \in Nat
      OBVIOUS
    <2>2. n = j * BlockSize + (k - j) * BlockSize
      BY <2>1, <1>1
    <2>3. (k - j) * BlockSize \in Nat /\ j * BlockSize \in Nat
      BY <2>1, <1>1
    <2>4. j * BlockSize <= Len(toks)
      BY <2>2, <2>3, <1>1, <1>2
    <2>5. Len(P(j)) = j * BlockSize
      BY <2>3, <2>4, <1>1 DEF Prefix
    <2> QED BY <2>3, <2>4, <2>5
  <1>4. ASSUME NEW j \in 1 .. k
        PROVE  /\ s[j] \in Block /\ NodeOwner(P(j)) \in CacheOwner
               /\ Holds(m.pool, NodeOwner(P(j)), s[j])
               /\ \A i \in Slots : m.kv[s[j]][i] = Prefix(P(j), Len(P(j)) - BlockSize + i + 1)
    <2> DEFINE o == NodeOwner(P(j))
    <2>1. NodeEntry(m, P(j)) /\ o \in CacheOwner /\ o \in PageOwner
      <3>1. P(j) \in Nodes(m) /\ P(j) \in NodePath
        BY <1>3 DEF Nodes
      <3> HIDE DEF P
      <3> QED BY <3>1, OwnersDiffer DEF CacheOK
    <2>2. s[j] = m.pool.owns[o][1] /\ Len(m.pool.owns[o]) = 1
      BY <2>1 DEF NodeEntry
    <2> HIDE DEF s
    <2>3. s[j] \in Block /\ Holds(m.pool, o, s[j])
      <3>1. o \in PageOwner /\ 1 \in 1 .. Len(m.pool.owns[o]) /\ s[j] = m.pool.owns[o][1]
        BY <2>1, <2>2
      <3> HIDE DEF o, P
      <3> QED BY <3>1, <1>1, PoolFacts
    <2>4. \A i \in Slots : m.kv[s[j]][i] = Prefix(P(j), Len(P(j)) - BlockSize + i + 1)
      BY <2>1, <2>2 DEF NodeEntry
    <2> QED BY <2>1, <2>3, <2>4
  <1>5. ASSUME NEW j \in 1 .. k, NEW i \in Slots
        PROVE  /\ m.kv[s[j]][i] = Prefix(toks, BlockSize * (j - 1) + i + 1)
               /\ Len(m.kv[s[j]][i]) = BlockSize * (j - 1) + i + 1
    <2> DEFINE q == BlockSize * (j - 1) + i + 1
               e == j * BlockSize
    <2>1. e \in Nat /\ e <= Len(toks) /\ Len(P(j)) = e
      BY <1>3
    <2>2. m.kv[s[j]][i] = Prefix(P(j), Len(P(j)) - BlockSize + i + 1)
      BY <1>4
    <2>3. e = BlockSize * (j - 1) + BlockSize /\ BlockSize * (j - 1) \in Nat /\ i \in 0 .. BlockSize - 1
      BY <1>1 DEF Slots
    <2>4. q \in 1 .. e /\ Len(P(j)) - BlockSize + i + 1 = q
      <3> DEFINE f == BlockSize * (j - 1)
      <3>1. e = f + BlockSize /\ f \in Nat /\ i \in 0 .. BlockSize - 1 /\ q = f + i + 1
        BY <2>3
      <3> HIDE DEF f, e, q
      <3> QED BY <3>1, <2>1, <1>1
    <2> HIDE DEF q, e
    <2>5. P(j) = Prefix(toks, e)
      BY DEF e
    <2>6. Prefix(Prefix(toks, e), q) = Prefix(toks, q) /\ Len(Prefix(toks, q)) = q
      BY <2>1, <2>4, <1>1 DEF Prefix
    <2>7. m.kv[s[j]][i] = Prefix(toks, q) /\ Len(m.kv[s[j]][i]) = q
      BY <2>2, <2>4, <2>5, <2>6
    <2> QED BY <2>7 DEF q
  <1>6. s \in Seq(Block) /\ Len(s) = k
    <2>1. s \in [1 .. k -> Block]
      BY <1>4
    <2> HIDE DEF s
    <2> QED BY <2>1
  <1> HIDE DEF s, P
  <1>7. ASSUME NEW i \in 1 .. k, NEW j \in 1 .. k, i # j PROVE s[i] # s[j]
    <2>1. 0 \in Slots
      BY <1>1 DEF Slots
    <2>2. Len(m.kv[s[i]][0]) = BlockSize * (i - 1) + 0 + 1 /\ Len(m.kv[s[j]][0]) = BlockSize * (j - 1) + 0 + 1
      BY <2>1, <1>5
    <2>3. BlockSize * (i - 1) # BlockSize * (j - 1)
      <3>1. i \in Nat \ {0} /\ j \in Nat \ {0}
        OBVIOUS
      <3>2. PageOf(BlockSize * (i - 1) + 0 + 1) = i /\ PageOf(BlockSize * (j - 1) + 0 + 1) = j
        BY <2>1, <3>1, PositionOf
      <3> QED BY <3>2, <1>7
    <2>4. BlockSize * (i - 1) \in Nat /\ BlockSize * (j - 1) \in Nat
      BY <1>1
    <2> QED BY <2>2, <2>3, <2>4, SMTT(30)
  <1>8. ASSUME NEW q \in 1 .. n PROVE m.kv[s[PageOf(q)]][OffsetOf(q)] = Prefix(toks, q)
    <2>1. q \in Nat \ {0} /\ n \in Nat \ {0} /\ q <= n
      BY <1>2
    <2>2. /\ PageOf(q) \in Nat \ {0} /\ OffsetOf(q) \in Slots
          /\ q = BlockSize * (PageOf(q) - 1) + OffsetOf(q) + 1
      BY <2>1, PositionParts
    <2>3. PageOf(q) <= k
      <3> HIDE DEF n
      <3>1. PageOf(q) <= PageOf(n) /\ PageOf(n) = BlocksFor(n)
        BY <2>1, PageMonotone, BlocksForPage
      <3> QED BY <3>1, <1>2
    <2>4. PageOf(q) \in 1 .. k
      BY <2>2, <2>3
    <2> QED BY <2>2, <2>4, <1>5
  <1>9. \A j \in 1 .. Len(s) : \E o \in CacheOwner : Holds(m.pool, o, s[j])
    BY <1>4, <1>6
  <1>10. n \in 0 .. Len(toks)
    BY <1>1, <1>2
  <1>11. Hit(m, toks, s, n)
    BY <1>2, <1>6, <1>7, <1>8, <1>9, <1>10 DEF Hit
  <1> QED BY <1>11 DEF s, P

LEMMA LookupKeeps ==
    ASSUME NEW m, NEW t, MemoryOK(m, t), NEW toks \in Seq(Token) \ {<< >>}, NEW exact \in BOOLEAN
    PROVE  LET h == Lookup(m, toks, exact)
           IN  /\ MemoryOK(h.m, t) /\ h.m.pool = m.pool /\ h.m.len = m.len
               /\ h.m.crefs = m.crefs /\ h.m.pred = m.pred /\ h.m.kv = m.kv
               /\ Hit(m, toks, h.blocks, h.count)
               /\ \/ /\ exact /\ toks \in Prompts /\ Present(m, ExactOwner(toks))
                     /\ h.count = Len(toks) /\ h.next = m.pred[toks]
                  \/ h.count < Len(toks) /\ h.next = NoToken
  <1> DEFINE h == Lookup(m, toks, exact)
             e == ExactOwner(toks)
             k == RadixDepth(m, toks)
             path == [j \in 1 .. k |-> NodeOwner(Prefix(toks, j * BlockSize))]
             s == [j \in 1 .. k |-> m.pool.owns[path[j]][1]]
  <1>1. CacheOK(m) /\ m \in Memory
    BY DEF MemoryOK, CacheOK
  <1>2. CASE exact /\ toks \in Prompts /\ Present(m, e)
    <2>1. h = [m |-> Touch(m, e), blocks |-> m.pool.owns[e], count |-> Len(toks), next |-> m.pred[toks]]
      BY <1>2 DEF Lookup
    <2>2. e \in Entries(m) /\ e \in CacheOwner
      BY <1>2, OwnersDiffer DEF Entries
    <2>3. Hit(m, toks, m.pool.owns[e], Len(toks))
      BY <1>1, <1>2, EntryHit
    <2> DEFINE x == Touch(m, e)
    <2>4. /\ MemoryOK(x, t) /\ x.pool = m.pool /\ x.len = m.len
          /\ x.crefs = m.crefs /\ x.pred = m.pred /\ x.kv = m.kv
      BY <2>2, <1>1, TouchKeeps, TouchFields
    <2> HIDE DEF h, e, x
    <2>5. h.m = x /\ h.blocks = m.pool.owns[e] /\ h.count = Len(toks) /\ h.next = m.pred[toks]
      BY <2>1 DEF x
    <2> QED BY <2>3, <2>4, <2>5, <1>2 DEF h, e
  <1>3. CASE ~(exact /\ toks \in Prompts /\ Present(m, e))
    <2>1. h = [m |-> TouchAll(m, path), blocks |-> s, count |-> k * BlockSize, next |-> NoToken]
      BY <1>3 DEF Lookup
    <2>2. /\ k \in Nat /\ k * BlockSize <= Len(toks) - 1 /\ k * BlockSize \in Nat
          /\ \A j \in 1 .. k : Prefix(toks, j * BlockSize) \in Nodes(m)
      BY RadixDepthOK
    <2>0. h.m = TouchAll(m, path) /\ h.blocks = s /\ h.count = k * BlockSize /\ h.next = NoToken
      BY <2>1
    <2> HIDE DEF k, h
    <2>3. k * BlockSize <= Len(toks)
      <3>1. Len(toks) \in Nat
        OBVIOUS
      <3> QED BY <3>1, <2>2
    <2>4. s = [j \in 1 .. k |-> m.pool.owns[NodeOwner(Prefix(toks, j * BlockSize))][1]]
      OBVIOUS
    <2>5. Hit(m, toks, s, k * BlockSize)
      <3> HIDE DEF s, path
      <3>1. toks \in Seq(Token)
        OBVIOUS
      <3>2. Hit(m, toks, [j \in 1 .. k |-> m.pool.owns[NodeOwner(Prefix(toks, j * BlockSize))][1]], k * BlockSize)
        BY <2>2, <2>3, <3>1, <1>1, RadixHit
      <3> QED BY <3>2, <2>4
    <2>6. path \in Seq(Entries(m))
      <3>1. \A j \in 1 .. k : path[j] \in Entries(m)
        BY <2>2, OwnersDiffer DEF Nodes, Entries
      <3>2. path \in [1 .. k -> Entries(m)]
        BY <3>1
      <3> HIDE DEF path
      <3> QED BY <3>2, <2>2
    <2> DEFINE x == TouchAll(m, path)
    <2> HIDE DEF s, path
    <2>7. /\ MemoryOK(x, t) /\ x.pool = m.pool /\ x.len = m.len
          /\ x.crefs = m.crefs /\ x.pred = m.pred /\ x.kv = m.kv
      BY <2>6, TouchAllKeeps
    <2> HIDE DEF x
    <2>8. h.m = x
      BY <2>0 DEF x
    <2>9. h.count < Len(toks)
      <3>1. Len(toks) \in Nat
        OBVIOUS
      <3> QED BY <3>1, <2>0, <2>2
    <2> QED BY <2>0, <2>5, <2>7, <2>8, <2>9 DEF h
  <1> QED BY <1>2, <1>3

\* Between m and x, r attached to the pages s for the first n positions of toks.
Attached(m, x, t, r, toks, s, n) ==
    /\ MemoryOK(x, [t EXCEPT ![r] = toks])
    /\ x.len = [m.len EXCEPT ![r] = n] /\ x.pool.owns[r] = s
    /\ \A y \in PageOwner \ {r} : x.pool.owns[y] = m.pool.owns[y]
    /\ CachedBlocks(x) = CachedBlocks(m)
    /\ Apart(m, x, r)

\* A request without pages can attach to what a lookup found.
LEMMA HitAttaches ==
    ASSUME NEW m, NEW t \in [Req -> Seq(Token)], MemoryOK(m, t), NEW r \in Req,
           m.pool.owns[r] = << >>, NEW toks \in Seq(Token), NEW s, NEW n, Hit(m, toks, s, n), n > 0
    PROVE  Attached(m, AttachPrefix(m, r, s, n), t, r, toks, s, n)
  <1>1. Consistent(m.pool)
    BY DEF MemoryOK, CacheOK
  <1>2. /\ n \in Nat \ {0} /\ n <= Len(toks) /\ s \in Seq(Block) /\ Len(s) = BlocksFor(n)
        /\ \A i, j \in 1 .. Len(s) : i # j => s[i] # s[j]
        /\ \A j \in 1 .. Len(s) : \E o \in CacheOwner : Holds(m.pool, o, s[j])
        /\ \A q \in 1 .. n : m.kv[s[PageOf(q)]][OffsetOf(q)] = Prefix(toks, q)
    <2>1. Len(toks) \in Nat /\ n \in 0 .. Len(toks)
      BY DEF Hit
    <2>2. n \in Nat \ {0} /\ n <= Len(toks)
      BY <2>1
    <2> QED BY <2>2 DEF Hit
  <1>3. s # << >>
    <2>1. BlocksFor(n) \in Nat \ {0}
      BY <1>2, BlocksForPage, PositionParts
    <2> QED BY <2>1, <1>2
  <1>4. ASSUME NEW j \in 1 .. Len(s) PROVE m.pool.refs[s[j]] # 0
    <2>1. PICK o \in CacheOwner : Holds(m.pool, o, s[j])
      BY <1>2
    <2>2. s[j] \in Block /\ o \in PageOwner
      BY <1>2, OwnersDiffer
    <2>3. m.pool.refs[s[j]] \in Nat \ {0}
      BY <2>1, <2>2, <1>1, CounterTells
    <2> QED BY <2>3
  <1>5. CanAttach(m.pool, r, s)
    BY <1>2, <1>3, <1>4 DEF CanAttach
  <1>6. n \in Nat /\ s \in Seq(Block)
    BY <1>2
  <1>7. /\ MemoryOK(AttachPrefix(m, r, s, n), [t EXCEPT ![r] = toks])
        /\ Apart(m, AttachPrefix(m, r, s, n), r)
    BY <1>5, <1>6, AttachPrefixKeeps
  <1> DEFINE x == AttachPrefix(m, r, s, n)
             p == Attach(m.pool, r, s)
  <1>8. x = [m EXCEPT !.pool = p, !.len[r] = n]
    BY DEF AttachPrefix
  <1>9. m \in Memory /\ m.pool.owns \in [PageOwner -> Seq(Block)] /\ r \in PageOwner
    BY MemoryFields, OwnersDiffer DEF MemoryOK, CacheOK
  <1>10. p.owns[r] = s /\ \A y \in PageOwner \ {r} : p.owns[y] = m.pool.owns[y]
    BY <1>9 DEF Attach
  <1> HIDE DEF p
  <1>11. x.len = [m.len EXCEPT ![r] = n] /\ x.pool = p /\ x.crefs = m.crefs
    BY <1>8, <1>9 DEF Memory
  <1> HIDE DEF x
  <1>12. CachedBlocks(x) = CachedBlocks(m)
    BY <1>11 DEF CachedBlocks
  <1> QED BY <1>7, <1>10, <1>11, <1>12 DEF x, Attached

-----------------------------------------------------------------------------
(* Publishing a prompt. *)

\* The predicted token of an entry is no part of what must hold.
LEMMA PredKeeps ==
    ASSUME NEW m, NEW t, MemoryOK(m, t), NEW x \in Memory, x.pool = m.pool, x.len = m.len,
           x.kv = m.kv, x.lru = m.lru, x.crefs = m.crefs
    PROVE  MemoryOK(x, t)
  <1>1. CacheOK(m) /\ m \in Memory /\ Consistent(m.pool)
    BY DEF MemoryOK, CacheOK
  <1>2. \A y : Keeps(m, x, y)
    BY DEF Keeps
  <1>3. CacheOK(x)
    BY <1>1, <1>2, CacheUntouched
  <1>4. ASSUME NEW r \in Req PROVE RequestOK(x, r, t[r])
    <2>1. RequestOK(m, r, t[r])
      BY DEF MemoryOK
    <2> QED BY <2>1, <1>1, <1>2, RequestKept DEF Alone
  <1> QED BY <1>3, <1>4 DEF MemoryOK

\* The pages 1 .. b of r can be handed to a new cache owner o when r is not about to
\* write any page among s, which are pages of r.
LEMMA PagesShared ==
    ASSUME NEW m, NEW t, MemoryOK(m, t), NEW r \in Req, NEW s \in Seq(Block),
           \A j \in 1 .. Len(s) : \E i \in 1 .. Len(m.pool.owns[r]) :
              s[j] = m.pool.owns[r][i] /\ ~Ahead(m, r, i)
    PROVE  /\ \A j \in 1 .. Len(s) : m.pool.refs[s[j]] # 0
           /\ \A y \in Req : \A i \in 1 .. Len(m.pool.owns[y]) :
                 Ahead(m, y, i) /\ Alone(m, y, i) => \A j \in 1 .. Len(s) : s[j] # m.pool.owns[y][i]
  <1>1. Consistent(m.pool) /\ r \in PageOwner
    BY OwnersDiffer DEF MemoryOK, CacheOK
  <1>2. ASSUME NEW j \in 1 .. Len(s) PROVE m.pool.refs[s[j]] # 0 /\ Holds(m.pool, r, s[j])
    <2>1. PICK i \in 1 .. Len(m.pool.owns[r]) : s[j] = m.pool.owns[r][i]
      OBVIOUS
    <2>2. s[j] \in Block /\ Holds(m.pool, r, s[j])
      BY <2>1, <1>1, PoolFacts
    <2>3. m.pool.refs[s[j]] \in Nat \ {0}
      BY <2>2, <1>1, CounterTells
    <2> QED BY <2>2, <2>3
  <1>3. ASSUME NEW y \in Req, NEW i \in 1 .. Len(m.pool.owns[y]), Ahead(m, y, i), Alone(m, y, i),
               NEW j \in 1 .. Len(s), s[j] = m.pool.owns[y][i]
        PROVE  FALSE
    <2>1. CASE y = r
      <3>1. PICK h \in 1 .. Len(m.pool.owns[r]) : s[j] = m.pool.owns[r][h] /\ ~Ahead(m, r, h)
        OBVIOUS
      <3>2. h = i
        BY <3>1, <2>1, <1>1, <1>3, PoolFacts
      <3> QED BY <3>1, <3>2, <2>1, <1>3
    <2>2. CASE y # r
      BY <2>2, <1>1, <1>2, <1>3 DEF Alone
    <2> QED BY <2>1, <2>2
  <1> QED BY <1>2, <1>3

\* The table of a new owner and the pages, right after Retain.
LEMMA RetainOwns ==
    ASSUME NEW m, CacheOK(m), NEW o \in CacheOwner, NEW s \in Seq(Block), CanAttach(m.pool, o, s)
    PROVE  /\ Retain(m, o, s) \in Memory /\ Retain(m, o, s).pool.owns[o] = s
           /\ Retain(m, o, s).kv = m.kv
  <1>1. m \in Memory /\ Consistent(m.pool) /\ o \in PageOwner
    BY OwnersDiffer DEF CacheOK
  <1>2. Consistent(Attach(m.pool, o, s)) /\ Attach(m.pool, o, s).owns[o] = s
    BY <1>1, AttachLeaves
  <1>3. Attach(m.pool, o, s) \in Pool
    BY <1>2, PoolFacts
  <1>4. /\ Retain(m, o, s) \in Memory /\ Retain(m, o, s).pool = Attach(m.pool, o, s)
        /\ Retain(m, o, s).kv = m.kv
    BY <1>1, <1>3, RetainFields
  <1> QED BY <1>2, <1>4

\* Nobody but r notices when pages of r get another owner.
LEMMA RetainSpares ==
    ASSUME NEW m \in Memory, Consistent(m.pool), NEW o \in CacheOwner, NEW s \in Seq(Block),
           CanAttach(m.pool, o, s), NEW r \in Req, \A j \in 1 .. Len(s) : Holds(m.pool, r, s[j])
    PROVE  Spares(m, Retain(m, o, s), Req \ {r})
  <1> DEFINE x == Retain(m, o, s)
             p == Attach(m.pool, o, s)
  <1>1. /\ o \in PageOwner /\ r \in PageOwner /\ Consistent(p)
        /\ \A y \in PageOwner \ {o} : p.owns[y] = m.pool.owns[y]
        /\ \A y \in PageOwner, b \in Block :
              Holds(p, y, b) <=> (Holds(m.pool, y, b) \/ (y = o /\ \E i \in 1 .. Len(s) : s[i] = b))
    BY OwnersDiffer, AttachLeaves
  <1>0. Attach(m.pool, o, s) \in Pool
    BY <1>1, PoolFacts
  <1>2. x.pool = p /\ x.len = m.len /\ x.kv = m.kv
    BY <1>0, RetainFields
  <1> HIDE DEF x, p
  <1> SUFFICES ASSUME NEW y \in Req \ {r} PROVE Spared(m, x, y)
    BY DEF Spares, x
  <1>3. y \in PageOwner \ {o} /\ r \in PageOwner \ {y} /\ y \in PageOwner
    BY <1>1, OwnersDiffer
  <1>4. x.pool.owns[y] = m.pool.owns[y] /\ Keeps(m, x, y)
    BY <1>1, <1>2, <1>3 DEF Keeps
  <1>5. ASSUME NEW i \in 1 .. Len(m.pool.owns[y]), Alone(m, y, i), NEW z \in PageOwner \ {y}
        PROVE  ~Holds(x.pool, z, m.pool.owns[y][i])
    <2>1. m.pool.owns[y][i] \in Block
      BY <1>3, PoolFacts
    <2>2. ~Holds(m.pool, z, m.pool.owns[y][i]) /\ ~Holds(m.pool, r, m.pool.owns[y][i])
      BY <1>3, <1>5 DEF Alone
    <2>3. ~ \E j \in 1 .. Len(s) : s[j] = m.pool.owns[y][i]
      BY <2>2
    <2> QED BY <2>1, <2>2, <2>3, <1>1, <1>2
  <1> QED BY <1>2, <1>4, <1>5 DEF Spared, Alone

\* x has what m had, and perhaps more cache entries on pages of r.
Extended(m, x, t, r) ==
    /\ MemoryOK(x, t)
    /\ Apart(m, x, r)
    /\ x.len = m.len /\ x.kv = m.kv
    /\ \A y \in PageOwner \ CacheOwner : x.pool.owns[y] = m.pool.owns[y]

NodeAt(toks, j) == Prefix(toks, j * BlockSize)

\* The step of publish for the j-th complete block.
NodeStep(x, table, toks, j) ==
    IF Present(x, NodeOwner(NodeAt(toks, j))) THEN Touch(x, NodeOwner(NodeAt(toks, j)))
    ELSE Retain(x, NodeOwner(NodeAt(toks, j)), <<table[j]>>)

\* Arithmetic of the j-th complete block.
LEMMA NodeAtFacts ==
    ASSUME NEW toks \in Prompts, NEW j \in 1 .. Len(toks) \div BlockSize
    PROVE  /\ NodeAt(toks, j) \in NodePath /\ Len(NodeAt(toks, j)) = BlockSize * j
           /\ BlockSize * j \in Nat /\ BlockSize * j <= Len(toks) /\ Len(toks) \in Nat
           /\ j \in Nat \ {0} /\ toks \in Seq(Token)
           /\ Len(NodeAt(toks, j)) > BlockSize =>
                 /\ j - 1 \in 1 .. Len(toks) \div BlockSize
                 /\ Prefix(NodeAt(toks, j), Len(NodeAt(toks, j)) - BlockSize) = NodeAt(toks, j - 1)
           /\ \A i \in Slots :
                 /\ BlockSize * (j - 1) + i + 1 \in 1 .. BlockSize * j
                 /\ Prefix(NodeAt(toks, j), Len(NodeAt(toks, j)) - BlockSize + i + 1) =
                       Prefix(toks, BlockSize * (j - 1) + i + 1)
  <1> DEFINE d == Len(toks) \div BlockSize
             e == BlockSize * j
             p == NodeAt(toks, j)
  <1>1. toks \in Seq(Token) /\ Len(toks) \in Nat /\ BlockSize \in Nat \ {0}
    BY KVAssumption
  <1>2. d \in Nat /\ Len(toks) = BlockSize * d + (Len(toks) % BlockSize) /\ Len(toks) % BlockSize \in 0 .. BlockSize - 1
    BY <1>1, DivMod
  <1>3. j \in 1 .. d
    OBVIOUS
  <1>4. p \in NodePath
    BY DEF NodePath, NodeAt
  <1> HIDE DEF d
  <1>5. j \in Nat \ {0} /\ d = j + (d - j) /\ d - j \in Nat
    BY <1>2, <1>3
  <1>6. BlockSize * d = BlockSize * j + BlockSize * (d - j) /\ BlockSize * (d - j) \in Nat /\ e \in Nat
    BY <1>1, <1>5
  <1>7. e <= Len(toks)
    BY <1>1, <1>2, <1>6
  <1>8. j * BlockSize = e
    BY <1>1, <1>5
  <1>9. p = Prefix(toks, e)
    BY <1>8 DEF NodeAt
  <1> HIDE DEF p
  <1>10. BlockSize * (j - 1) \in Nat /\ e = BlockSize * (j - 1) + BlockSize
    BY <1>1, <1>5
  <1> DEFINE f == BlockSize * (j - 1)
  <1>11. f \in Nat /\ e = f + BlockSize
    BY <1>10
  <1> HIDE DEF e, f
  <1>12. Len(p) = e
    BY <1>1, <1>6, <1>7, <1>9 DEF Prefix
  <1>13. \A q \in 0 .. e : Prefix(p, q) = Prefix(toks, q)
    BY <1>1, <1>6, <1>7, <1>9 DEF Prefix
  <1>14. ASSUME Len(p) > BlockSize
         PROVE  j - 1 \in 1 .. d /\ Prefix(p, Len(p) - BlockSize) = NodeAt(toks, j - 1)
    <2>1. f # 0
      BY <1>11, <1>12, <1>14, <1>1
    <2>2. j # 1
      BY <2>1, <1>1 DEF f
    <2>3. j - 1 \in 1 .. d
      BY <2>2, <1>2, <1>3
    <2>4. (j - 1) * BlockSize = f
      BY <1>1, <1>5 DEF f
    <2>5. Len(p) - BlockSize = f /\ f \in 0 .. e
      BY <1>1, <1>11, <1>12
    <2> QED BY <2>3, <2>4, <2>5, <1>13 DEF NodeAt
  <1>15. ASSUME NEW i \in Slots
         PROVE  /\ f + i + 1 \in 1 .. e
                /\ Prefix(p, Len(p) - BlockSize + i + 1) = Prefix(toks, f + i + 1)
    <2>1. i \in 0 .. BlockSize - 1
      BY DEF Slots
    <2>2. f + i + 1 \in 1 .. e /\ Len(p) - BlockSize + i + 1 = f + i + 1 /\ f + i + 1 \in 0 .. e
      BY <2>1, <1>1, <1>11, <1>12
    <2> QED BY <2>2, <1>13
  <1> QED BY <1>1, <1>4, <1>5, <1>6, <1>7, <1>12, <1>14, <1>15 DEF p, e, f, d

\* A page full of committed positions is not one r is about to write.
LEMMA FullPageBehind ==
    ASSUME NEW m \in Memory, NEW r \in Req, NEW j \in Nat \ {0}, BlockSize * j <= m.len[r]
    PROVE  ~Ahead(m, r, j)
  <1> DEFINE n == m.len[r]
             b == BlocksFor(n)
  <1>1. BlockSize \in Nat \ {0} /\ n \in Nat
    BY KVAssumption, MemoryFields
  <1> HIDE DEF n
  <1>2. /\ n \div BlockSize \in Nat /\ n % BlockSize \in Slots /\ PageOf(n + 1) = (n \div BlockSize) + 1
        /\ n % BlockSize = 0 => b = PageOf(n + 1) - 1
        /\ n % BlockSize # 0 => b = PageOf(n + 1)
    BY <1>1, NextPage
  <1> DEFINE x == n \div BlockSize
             y == n % BlockSize
  <1>3. x \in Nat /\ y \in 0 .. BlockSize - 1 /\ n = BlockSize * x + y
    BY <1>1, DivMod
  <1>4. (y = 0 => b = x) /\ (y # 0 => b = x + 1)
    BY <1>2, <1>3
  <1> HIDE DEF x, y, b
  <1>5. j <= x
    <2> SUFFICES ASSUME j > x PROVE FALSE
      BY <1>3
    <2>1. j = x + 1 + (j - x - 1) /\ j - x - 1 \in Nat
      BY <1>3
    <2>2. BlockSize * j = BlockSize * x + BlockSize + BlockSize * (j - x - 1)
      BY <2>1, <1>1, <1>3
    <2>3. BlockSize * (j - x - 1) \in Nat /\ BlockSize * x \in Nat
      BY <2>1, <1>1, <1>3
    <2>4. BlockSize * j <= n
      BY DEF n
    <2> QED BY <2>2, <2>3, <2>4, <1>1, <1>3
  <1>6. b \in Nat /\ ~(j > b) /\ (j = b => y = 0)
    BY <1>3, <1>4, <1>5
  <1> QED BY <1>6 DEF Ahead, n, b, y

\* One complete block of a prompt r has computed goes into the tree below its parent.
LEMMA NodeStepKeeps ==
    ASSUME NEW m, NEW t, MemoryOK(m, t), NEW r \in Req, NEW toks \in Prompts,
           Reads(m, r, toks, Len(toks)), Len(toks) <= m.len[r],
           NEW x, Extended(m, x, t, r), NEW j \in 1 .. Len(toks) \div BlockSize,
           \A i \in 1 .. j - 1 : NodeAt(toks, i) \in Nodes(x),
           NEW y, y = NodeStep(x, m.pool.owns[r], toks, j)
    PROVE  Extended(m, y, t, r) /\ \A i \in 1 .. j : NodeAt(toks, i) \in Nodes(y)
  <1> DEFINE p == NodeAt(toks, j)
             o == NodeOwner(p)
             a == m.pool.owns[r]
             n == Len(toks)
  <1>1. /\ p \in NodePath /\ Len(p) = BlockSize * j
        /\ BlockSize * j \in Nat /\ BlockSize * j <= n /\ n \in Nat
        /\ j \in Nat \ {0} /\ toks \in Seq(Token)
        /\ Len(p) > BlockSize => /\ j - 1 \in 1 .. Len(toks) \div BlockSize
                                 /\ Prefix(p, Len(p) - BlockSize) = NodeAt(toks, j - 1)
        /\ \A i \in Slots : /\ BlockSize * (j - 1) + i + 1 \in 1 .. BlockSize * j
                            /\ Prefix(p, Len(p) - BlockSize + i + 1) = Prefix(toks, BlockSize * (j - 1) + i + 1)
    BY NodeAtFacts
  <1> HIDE DEF p
  <1>2. /\ CacheOK(m) /\ m \in Memory /\ Consistent(m.pool) /\ r \in PageOwner /\ r \notin CacheOwner
        /\ CacheOK(x) /\ x \in Memory /\ Consistent(x.pool) /\ MemoryOK(x, t)
        /\ o \in CacheOwner /\ o \in PageOwner
        /\ x.len = m.len /\ x.kv = m.kv /\ x.pool.owns[r] = a
    BY <1>1, OwnersDiffer DEF MemoryOK, CacheOK, Extended
  <1>3. \A i \in 1 .. j : i = j \/ i \in 1 .. j - 1
    BY <1>1
  <1>4. CASE Present(x, o)
    <2>1. y = Touch(x, o) /\ o \in Entries(x) /\ p \in Nodes(x)
      BY <1>1, <1>2, <1>4 DEF NodeStep, Entries, Nodes, p
    <2>2. MemoryOK(y, t) /\ y.pool = x.pool /\ y.len = x.len /\ y.kv = x.kv /\ y.pred = x.pred
      BY <2>1, <1>2, TouchKeeps, TouchFields
    <2>3. Nodes(y) = Nodes(x)
      BY <2>2 DEF Nodes, Present
    <2>5. Apart(m, y, r)
      <3>1. Apart(x, y, r)
        BY <2>2, ApartSelf
      <3>2. Apart(m, x, r)
        BY DEF Extended
      <3> QED BY <3>1, <3>2, ApartAgain
    <2>4. Extended(m, y, t, r)
      BY <2>2, <2>5 DEF Extended
    <2> QED BY <2>1, <2>3, <2>4, <1>3 DEF p
  <1>5. CASE ~Present(x, o)
    <2> DEFINE s == <<a[j]>>
    <2>1. y = Retain(x, o, s)
      BY <1>5 DEF NodeStep, p
    <2>2. j \in 1 .. Len(a) /\ a[j] \in Block
      <3>1. BlockSize * j \in 1 .. n /\ BlocksFor(n) <= Len(a)
        <4>1. BlockSize \in Nat \ {0}
          BY KVAssumption
        <4>2. BlockSize * j # 0
          BY <4>1, <1>1
        <4> QED BY <4>2, <1>1 DEF Reads
      <3>2. PageOf(BlockSize * j) \in 1 .. Len(a) /\ a[PageOf(BlockSize * j)] \in Block
        BY <3>1, <1>1, <1>2, SlotAt
      <3>3. PageOf(BlockSize * j) = j
        <4>1. BlocksFor(j * BlockSize) = j /\ j * BlockSize = BlockSize * j
          BY <1>1, WholeBlocks, KVAssumption
        <4>2. BlocksFor(BlockSize * j) = PageOf(BlockSize * j)
          BY <3>1, <1>1, BlocksForPage
        <4> QED BY <4>1, <4>2
      <3> QED BY <3>2, <3>3
    <2>3. s \in Seq(Block) /\ Len(s) = 1 /\ s[1] = a[j]
      BY <2>2
    <2>4. ~Ahead(x, r, j)
      <3>1. BlockSize * j <= x.len[r]
        <4>1. m.len[r] \in Nat
          BY <1>2, MemoryFields
        <4> QED BY <4>1, <1>1, <1>2
      <3> QED BY <3>1, <1>1, <1>2, FullPageBehind
    <2> HIDE DEF s
    <2>5. /\ \A h \in 1 .. Len(s) : x.pool.refs[s[h]] # 0
          /\ \A z \in Req : \A i \in 1 .. Len(x.pool.owns[z]) :
                Ahead(x, z, i) /\ Alone(x, z, i) => \A h \in 1 .. Len(s) : s[h] # x.pool.owns[z][i]
      <3>1. \A h \in 1 .. Len(s) : \E i \in 1 .. Len(x.pool.owns[r]) :
               s[h] = x.pool.owns[r][i] /\ ~Ahead(x, r, i)
        BY <2>2, <2>3, <2>4, <1>2
      <3> QED BY <2>3, <3>1, <1>2, PagesShared, SMTT(30)
    <2>6. CanAttach(x.pool, o, s)
      <3>1. x.pool.owns[o] = << >>
        BY <1>5 DEF Present
      <3>2. s # << >>
        <4>1. <<a[j]>> # << >>
          OBVIOUS
        <4> QED BY <4>1 DEF s
      <3>3. \A h, i \in 1 .. Len(s) : h # i => s[h] # s[i]
        BY <2>3
      <3> QED BY <2>5, <3>1, <3>2, <3>3 DEF CanAttach
    <2>7. y \in Memory /\ y.pool.owns[o] = s /\ y.kv = x.kv
      BY <2>1, <2>3, <2>6, <1>2, RetainOwns
    <2>8. NodeEntry(y, p)
      <3> SUFFICES ASSUME NEW i \in Slots
                   PROVE  y.kv[a[j]][i] = Prefix(p, Len(p) - BlockSize + i + 1)
        BY <2>3, <2>7 DEF NodeEntry
      <3> DEFINE q == BlockSize * (j - 1) + i + 1
      <3>1. q \in 1 .. BlockSize * j /\ Prefix(p, Len(p) - BlockSize + i + 1) = Prefix(toks, q)
        BY <1>1
      <3>2. PageOf(q) = j /\ OffsetOf(q) = i
        BY <1>1, PositionOf
      <3> HIDE DEF q
      <3>3. q \in 1 .. n
        BY <3>1, <1>1
      <3>4. Slot(m, r, q) = Prefix(toks, q) /\ BlocksFor(n) <= Len(m.pool.owns[r])
        BY <3>3 DEF Reads
      <3>5. Slot(m, r, q) = m.kv[m.pool.owns[r][PageOf(q)]][OffsetOf(q)]
        <4>1. m \in Memory /\ r \in PageOwner /\ n \in Nat
          BY <1>1, <1>2
        <4> HIDE DEF n
        <4> QED BY <3>3, <3>4, <4>1, SlotAt
      <3> QED BY <3>1, <3>2, <3>4, <3>5, <2>7, <1>2
    <2>9. Len(p) > BlockSize => Prefix(p, Len(p) - BlockSize) \in Nodes(x)
      <3> SUFFICES ASSUME Len(p) > BlockSize PROVE Prefix(p, Len(p) - BlockSize) \in Nodes(x)
        OBVIOUS
      <3>1. j - 1 \in 1 .. j - 1 /\ Prefix(p, Len(p) - BlockSize) = NodeAt(toks, j - 1)
        BY <1>1
      <3> QED BY <3>1
    <2>10. /\ \A c \in NodePath : o = NodeOwner(c) =>
                 /\ NodeEntry(Retain(x, o, s), c)
                 /\ Len(c) > BlockSize => Prefix(c, Len(c) - BlockSize) \in Nodes(x)
           /\ \A e \in Prompts : o = ExactOwner(e) => ExactEntry(Retain(x, o, s), e)
      BY <2>1, <2>8, <2>9, OwnersDiffer
    <2>11. /\ MemoryOK(y, t) /\ y.len = x.len /\ y.kv = x.kv /\ y.pred = x.pred
           /\ y.pool.owns[o] = s
           /\ \A z \in PageOwner \ {o} : y.pool.owns[z] = x.pool.owns[z]
      BY <2>1, <2>3, <2>5, <2>6, <2>10, <1>2, RetainKeeps
    <2>12. Extended(m, y, t, r)
      <3>1. \A z \in PageOwner \ CacheOwner : y.pool.owns[z] = x.pool.owns[z]
        BY <2>11, <1>2
      <3>2. Spares(x, y, Req \ {r})
        <4>1. \A h \in 1 .. Len(s) : Holds(x.pool, r, s[h])
          BY <2>2, <2>3, <1>2 DEF Holds
        <4> QED BY <4>1, <2>1, <2>3, <2>6, <1>2, RetainSpares
      <3>3. PredsKept(x, y)
        <4>1. \A c \in Prompts : ExactOwner(c) \in PageOwner \ {o}
          BY OwnersDiffer
        <4> QED BY <4>1, <2>11 DEF PredsKept, Present
      <3>4. Apart(m, y, r)
        BY <3>2, <3>3, ApartAgain DEF Apart, Extended
      <3> QED BY <2>11, <3>1, <3>4 DEF Extended
    <2>13. p \in Nodes(y) /\ \A c \in Nodes(x) : c \in Nodes(y)
      <3>1. s # << >>
        BY DEF s
      <3> QED BY <2>11, <3>1, <1>1, OwnersDiffer DEF Nodes, Present
    <2> QED BY <2>12, <2>13, <1>3 DEF p
  <1> QED BY <1>4, <1>5

\* The predicted tokens of m, and that of the exact entry toks.
PredsSet(m, x, toks, next) ==
    \A s \in Prompts : Present(x, ExactOwner(s)) =>
        \/ Present(m, ExactOwner(s)) /\ x.pred[s] = m.pred[s]
        \/ s = toks /\ x.pred[s] = next

\* The exact entry: all the pages of the prompt, the partly filled one included.
\* The whole-prompt entry of toks on the pages of a, and its predicted token.
EnterExact(x, toks, a, next) ==
    [Retain(x, ExactOwner(toks), SubSeq(a, 1, BlocksFor(Len(toks)))) EXCEPT !.pred[toks] = next]

\* y has what m had and the entry of toks.
Entered(m, y, t, r, toks, next) ==
    /\ MemoryOK(y, t) /\ y.len = m.len /\ Spares(m, y, Req \ {r})
    /\ \A w \in PageOwner \ CacheOwner : y.pool.owns[w] = m.pool.owns[w]
    /\ PredsSet(m, y, toks, next)

LEMMA ExactStepKeeps ==
    ASSUME NEW m, NEW t, MemoryOK(m, t), NEW r \in Req, NEW toks \in Prompts,
           Reads(m, r, toks, Len(toks)),
           \A i \in 1 .. BlocksFor(Len(toks)) : ~Ahead(m, r, i),
           NEW x, Extended(m, x, t, r), ~Present(x, ExactOwner(toks)), NEW next \in Value,
           NEW y, y = EnterExact(x, toks, m.pool.owns[r], next)
    PROVE  Entered(m, y, t, r, toks, next)
  <1> DEFINE o == ExactOwner(toks)
             a == m.pool.owns[r]
             n == Len(toks)
             b == BlocksFor(n)
             s == SubSeq(a, 1, b)
             z == Retain(x, o, s)
  <1>1. /\ CacheOK(m) /\ m \in Memory /\ Consistent(m.pool) /\ r \in PageOwner /\ r \notin CacheOwner
        /\ CacheOK(x) /\ x \in Memory /\ Consistent(x.pool) /\ MemoryOK(x, t)
        /\ o \in CacheOwner /\ o \in PageOwner
        /\ x.len = m.len /\ x.kv = m.kv /\ x.pool.owns[r] = a
    BY OwnersDiffer DEF MemoryOK, CacheOK, Extended
  <1>2. n \in Nat \ {0} /\ toks \in Seq(Token)
    BY KVAssumption, EmptySeq
  <1>3. b \in Nat \ {0} /\ b <= Len(a) /\ a \in Seq(Block) /\ Len(a) \in Nat
    <2>1. b \in Nat \ {0}
      BY <1>2, BlocksForPage, PositionParts
    <2>2. a \in Seq(Block) /\ Len(a) \in Nat
      BY <1>1, MemoryFields
    <2> QED BY <2>1, <2>2 DEF Reads
  <1> HIDE DEF b, a
  <1>4. s \in Seq(Block) /\ Len(s) = b /\ \A i \in 1 .. b : s[i] = a[i] /\ i \in 1 .. Len(a)
    BY <1>3
  <1> HIDE DEF s
  <1>5. \A h \in 1 .. Len(s) : \E i \in 1 .. Len(x.pool.owns[r]) :
           s[h] = x.pool.owns[r][i] /\ ~Ahead(x, r, i)
    <2>1. \A i \in 1 .. b : ~Ahead(x, r, i)
      BY <1>1 DEF Ahead, b, a
    <2> QED BY <2>1, <1>1, <1>4
  <1>6. /\ \A h \in 1 .. Len(s) : x.pool.refs[s[h]] # 0
        /\ \A w \in Req : \A i \in 1 .. Len(x.pool.owns[w]) :
              Ahead(x, w, i) /\ Alone(x, w, i) => \A h \in 1 .. Len(s) : s[h] # x.pool.owns[w][i]
    <2>1. MemoryOK(x, t) /\ s \in Seq(Block)
      BY <1>1, <1>4
    <2> QED BY <2>1, <1>5, PagesShared
  <1>7. CanAttach(x.pool, o, s)
    <2>1. x.pool.owns[o] = << >>
      BY DEF Present
    <2>2. s # << >>
      BY <1>3, <1>4
    <2>3. \A i, j \in 1 .. Len(s) : i # j => s[i] # s[j]
      <3>1. \A i, j \in 1 .. Len(a) : a[i] = a[j] => i = j
        BY <1>1, PoolFacts DEF a
      <3> QED BY <3>1, <1>4
    <2> QED BY <2>1, <2>2, <2>3, <1>6 DEF CanAttach
  <1>8. z \in Memory /\ z.pool.owns[o] = s /\ z.kv = x.kv
    BY <1>1, <1>4, <1>7, RetainOwns
  <1>9. z = Retain(x, o, s)
    OBVIOUS
  <1>10. y = [z EXCEPT !.pred[toks] = next]
    BY DEF s, b, a, EnterExact
  <1> HIDE DEF z
  <1>11. ExactEntry(z, toks)
    <2>1. Len(z.pool.owns[o]) = BlocksFor(n) /\ BlocksFor(n) <= Len(z.pool.owns[o])
      BY <1>3, <1>4, <1>8 DEF b
    <2>2. ASSUME NEW q \in 1 .. n PROVE Slot(z, o, q) = Prefix(toks, q)
      <3>1. /\ PageOf(q) \in 1 .. Len(z.pool.owns[o])
            /\ Slot(z, o, q) = z.kv[z.pool.owns[o][PageOf(q)]][OffsetOf(q)]
        <4>1. n \in Nat
          BY <1>2
        <4> QED BY <2>1, <4>1, <1>1, <1>8, SlotAt
      <3>2. Slot(m, r, q) = Prefix(toks, q) /\ BlocksFor(n) <= Len(m.pool.owns[r])
        BY DEF Reads
      <3>3. Slot(m, r, q) = m.kv[m.pool.owns[r][PageOf(q)]][OffsetOf(q)]
        BY <3>2, <1>1, <1>2, SlotAt, SMTT(30)
      <3>4. s[PageOf(q)] = m.pool.owns[r][PageOf(q)]
        BY <3>1, <1>4, <1>8 DEF a
      <3> QED BY <3>1, <3>2, <3>3, <3>4, <1>1, <1>8
    <2> QED BY <2>1, <2>2 DEF ExactEntry, Reads
  <1>12. /\ \A c \in NodePath : o = NodeOwner(c) =>
               /\ NodeEntry(Retain(x, o, s), c)
               /\ Len(c) > BlockSize => Prefix(c, Len(c) - BlockSize) \in Nodes(x)
         /\ \A e \in Prompts : o = ExactOwner(e) => ExactEntry(Retain(x, o, s), e)
    BY <1>9, <1>11, OwnersDiffer
  <1>13. /\ MemoryOK(z, t) /\ z.len = x.len /\ z.kv = x.kv /\ z.pred = x.pred
         /\ \A w \in PageOwner \ {o} : z.pool.owns[w] = x.pool.owns[w]
    <2> HIDE DEF o
    <2> QED BY <1>1, <1>4, <1>6, <1>7, <1>9, <1>12, RetainKeeps
  <1>14. \A w \in PageOwner \ CacheOwner : z.pool.owns[w] = m.pool.owns[w]
    BY <1>1, <1>13 DEF Extended
  <1>16. Spares(m, z, Req \ {r})
    <2>1. \A h \in 1 .. Len(s) : Holds(x.pool, r, s[h])
      BY <1>1, <1>4 DEF Holds
    <2>2. Spares(x, z, Req \ {r})
      BY <2>1, <1>1, <1>4, <1>7, <1>9, RetainSpares
    <2> QED BY <2>2, SparesAgain DEF Extended, Apart
  <1>15. /\ MemoryOK(y, t) /\ y.len = z.len /\ y.pool = z.pool /\ y.kv = z.kv
         /\ y.pred = [z.pred EXCEPT ![toks] = next] /\ z.pred \in [Prompts -> Value]
    <2>1. /\ y \in Memory /\ y.len = z.len /\ y.pool = z.pool /\ y.kv = z.kv
          /\ y.lru = z.lru /\ y.crefs = z.crefs
          /\ y.pred = [z.pred EXCEPT ![toks] = next] /\ z.pred \in [Prompts -> Value]
      <3> DEFINE g == [z.pred EXCEPT ![toks] = next]
      <3>1. z.pred \in [Prompts -> Value]
        BY <1>8, MemoryFields
      <3>2. g \in [Prompts -> Value]
        BY <3>1
      <3>3. y = [z EXCEPT !.pred = g]
        BY <1>10
      <3> HIDE DEF g
      <3>4. /\ y \in Memory /\ y.len = z.len /\ y.pool = z.pool /\ y.kv = z.kv
            /\ y.lru = z.lru /\ y.crefs = z.crefs /\ y.pred = g
        BY <3>2, <3>3, <1>8 DEF Memory
      <3> QED BY <3>1, <3>4 DEF g
    <2> QED BY <2>1, <1>13, PredKeeps
  <1>17. Spares(m, y, Req \ {r})
    <2>1. Spares(z, y, Req \ {r})
      BY <1>15, SparedSelf DEF Spares
    <2> QED BY <2>1, <1>16, SparesAgain
  <1>18. ASSUME NEW c \in Prompts, Present(y, ExactOwner(c))
         PROVE  \/ Present(m, ExactOwner(c)) /\ y.pred[c] = m.pred[c]
                \/ c = toks /\ y.pred[c] = next
    <2>1. CASE c = toks
      BY <2>1, <1>15
    <2>2. CASE c # toks
      <3>1. ExactOwner(c) \in PageOwner \ {o}
        BY <2>2, OwnersDiffer
      <3>2. y.pool.owns[ExactOwner(c)] = x.pool.owns[ExactOwner(c)] /\ y.pred[c] = x.pred[c]
        BY <3>1, <2>2, <1>13, <1>15
      <3> QED BY <3>2, <1>18 DEF Extended, Apart, PredsKept, Present
    <2> QED BY <2>1, <2>2
  <1>19. PredsSet(m, y, toks, next)
    BY <1>18 DEF PredsSet
  <1> QED BY <1>1, <1>13, <1>14, <1>15, <1>17, <1>19 DEF Entered

LEMMA CompleteBlocks ==
    ASSUME NEW toks \in Prompts
    PROVE  Len(toks) \div BlockSize \in Nat
  <1>1. Len(toks) \in Nat /\ BlockSize \in Nat \ {0}
    BY KVAssumption
  <1> QED BY <1>1, DivMod

LEMMA NodesPublished ==
    ASSUME NEW m, NEW t, MemoryOK(m, t), NEW r \in Req, NEW toks \in Prompts,
           Reads(m, r, toks, Len(toks)), Len(toks) <= m.len[r],
           NEW n \in Nat, n <= Len(toks) \div BlockSize, NEW k,
           k = CHOOSE f : f = [j \in 0 .. n |->
                  IF j = 0 THEN m ELSE NodeStep(f[j - 1], m.pool.owns[r], toks, j)]
    PROVE  Extended(m, k[n], t, r)
  <1> DEFINE T == [i \in 0 .. n |->
                     {x \in Memory : Extended(m, x, t, r) /\ \A j \in 1 .. i : NodeAt(toks, j) \in Nodes(x)}]
             G == [i \in 1 .. n |-> [x \in Memory |-> NodeStep(x, m.pool.owns[r], toks, i)]]
             step(f) == [j \in 0 .. n |->
                          IF j = 0 THEN m ELSE NodeStep(f[j - 1], m.pool.owns[r], toks, j)]
  <1>1. Extended(m, m, t, r) /\ m \in Memory
    BY ApartSelf DEF Extended, MemoryOK, CacheOK
  <1>2. m \in T[0]
    BY <1>1
  <1>3. ASSUME NEW i \in 1 .. n, NEW x \in T[i - 1]
        PROVE  NodeStep(x, m.pool.owns[r], toks, i) \in T[i] /\ x \in Memory
    <2> DEFINE y == NodeStep(x, m.pool.owns[r], toks, i)
    <2>1. i - 1 \in 0 .. n /\ i \in 0 .. n /\ i \in 1 .. Len(toks) \div BlockSize
      <3>1. Len(toks) \div BlockSize \in Nat
        BY CompleteBlocks
      <3> QED BY <3>1
    <2>2. x \in Memory /\ Extended(m, x, t, r) /\ \A j \in 1 .. i - 1 : NodeAt(toks, j) \in Nodes(x)
      BY <2>1
    <2>3. y = NodeStep(x, m.pool.owns[r], toks, i)
      OBVIOUS
    <2> HIDE DEF y, T, G
    <2>4. Extended(m, y, t, r) /\ \A j \in 1 .. i : NodeAt(toks, j) \in Nodes(y)
      BY <2>1, <2>2, <2>3, NodeStepKeeps
    <2>5. y \in Memory
      BY <2>4 DEF Extended, MemoryOK, CacheOK
    <2>6. y \in T[i]
      BY <2>1, <2>4, <2>5 DEF T
    <2> QED BY <2>2, <2>6 DEF y
  <1>4. \A i \in 1 .. n : \A x \in T[i - 1] :
           G[i][x] \in T[i] /\ G[i][x] = NodeStep(x, m.pool.owns[r], toks, i)
    BY <1>3
  <1> HIDE DEF T, G
  <1>g. \A i \in 1 .. n : \A x \in T[i - 1] : G[i][x] \in T[i]
    BY <1>4
  <1>p. PICK h : Staged(h, n, m, G)
    BY <1>2, <1>g, StagedRecursion
  <1>5. /\ DOMAIN h = 0 .. n /\ h = [i \in 0 .. n |-> h[i]]
        /\ h[0] = m /\ \A i \in 1 .. n : h[i] = G[i][h[i - 1]]
    BY <1>p DEF Staged
  <1>6. \A i \in 0 .. n : h[i] \in T[i]
    BY <1>2, <1>4, <1>5, StagedStays, ZenonT(30)
  <1>7. \A i \in 1 .. n : h[i] = NodeStep(h[i - 1], m.pool.owns[r], toks, i)
    <2> SUFFICES ASSUME NEW i \in 1 .. n PROVE h[i] = NodeStep(h[i - 1], m.pool.owns[r], toks, i)
      OBVIOUS
    <2>1. i - 1 \in 0 .. n
      OBVIOUS
    <2> QED BY <2>1, <1>4, <1>5, <1>6
  <1>8. h = step(h)
    <2>1. ASSUME NEW j \in 0 .. n
          PROVE  h[j] = IF j = 0 THEN m ELSE NodeStep(h[j - 1], m.pool.owns[r], toks, j)
      <3>1. CASE j = 0
        BY <3>1, <1>5
      <3>2. CASE j # 0
        <4>1. j \in 1 .. n
          BY <3>2
        <4> QED BY <3>2, <4>1, <1>7
      <3> QED BY <3>1, <3>2
    <2> QED BY <2>1, <1>5
  <1>9. k = step(k)
    BY <1>8
  <1>10. k[0] = m /\ \A i \in 1 .. n : k[i] = NodeStep(k[i - 1], m.pool.owns[r], toks, i)
    <2>1. \A i \in 0 .. n : k[i] = IF i = 0 THEN m ELSE NodeStep(k[i - 1], m.pool.owns[r], toks, i)
      BY <1>9
    <2> QED BY <2>1
  <1>11. \A i \in 0 .. n : k[i] \in T[i]
    <2>1. \A i \in 1 .. n : k[i - 1] \in T[i - 1] => k[i] \in T[i]
      BY <1>3, <1>10
    <2>2. k[0] \in T[0]
      BY <1>2, <1>10
    <2> QED BY <2>1, <2>2, StagedStays
  <1> QED BY <1>11 DEF T

\* publish: r has computed the prompt toks; with a predicted token in hand its pages end with
\* the prompt, so the partly filled page may be shared as well.
Published(m, x, t, r, toks, next) ==
    /\ MemoryOK(x, t) /\ x.len = m.len
    /\ Spares(m, x, Req \ {r})
    /\ next # NoToken => PredsSet(m, x, toks, next)
    /\ next = NoToken => PredsKept(m, x)
    /\ \A y \in PageOwner \ CacheOwner : x.pool.owns[y] = m.pool.owns[y]
    /\ ~Over(m) => ~Over(x)

LEMMA PublishKeeps ==
    ASSUME NEW m, NEW t, MemoryOK(m, t), NEW r \in Req, NEW toks \in Prompts,
           Reads(m, r, toks, Len(toks)), Len(toks) <= m.len[r], NEW next \in Value,
           next # NoToken => \A i \in 1 .. BlocksFor(Len(toks)) : ~Ahead(m, r, i)
    PROVE  Published(m, Publish(m, r, toks, next), t, r, toks, next)
  <1> DEFINE table == m.pool.owns[r]
             n == IF Len(toks) \div BlockSize < Len(table) THEN Len(toks) \div BlockSize ELSE Len(table)
             k == CHOOSE f : f = [j \in 0 .. n |->
                     IF j = 0 THEN m ELSE NodeStep(f[j - 1], table, toks, j)]
             e == ExactOwner(toks)
             b == BlocksFor(Len(toks))
             w == IF next # NoToken /\ b <= CacheBlocks /\ ~Present(k[n], e)
                  THEN [Retain(k[n], e, SubSeq(table, 1, b)) EXCEPT !.pred[toks] = next]
                  ELSE k[n]
             x == Publish(m, r, toks, next)
             Good(z) == /\ MemoryOK(z, t) /\ z.len = m.len
                        /\ Spares(m, z, Req \ {r})
                        /\ next # NoToken => PredsSet(m, z, toks, next)
                        /\ next = NoToken => PredsKept(m, z)
                        /\ \A y \in PageOwner \ CacheOwner : z.pool.owns[y] = m.pool.owns[y]
  <1> HIDE DEF Good
  <1>0. x = IF CacheBlocks = 0 THEN m ELSE EvictToLimit(w)
    BY DEF Publish, Table, NodeStep, NodeAt
  <1>1. n \in Nat /\ n <= Len(toks) \div BlockSize
    <2>1. m \in Memory /\ r \in PageOwner
      BY OwnersDiffer DEF MemoryOK, CacheOK
    <2>2. Len(table) \in Nat
      BY <2>1, MemoryFields
    <2>3. Len(toks) \div BlockSize \in Nat
      BY CompleteBlocks
    <2> HIDE DEF table
    <2> QED BY <2>2, <2>3
  <1> HIDE DEF n, x
  <1>2. Extended(m, k[n], t, r)
    <2>1. k = CHOOSE f : f = [j \in 0 .. n |->
                 IF j = 0 THEN m ELSE NodeStep(f[j - 1], m.pool.owns[r], toks, j)]
      OBVIOUS
    <2> HIDE DEF k
    <2> QED BY <2>1, <1>1, NodesPublished
  <1> HIDE DEF k
  <1>e. Extended(m, k[n], t, r) => Good(k[n])
    BY DEF Extended, Apart, PredsKept, PredsSet, Good
  <1>3. Good(w)
    <2>1. CASE next # NoToken /\ b <= CacheBlocks /\ ~Present(k[n], e)
      <3>1. /\ w = EnterExact(k[n], toks, m.pool.owns[r], next)
            /\ ~Present(k[n], ExactOwner(toks))
            /\ \A i \in 1 .. BlocksFor(Len(toks)) : ~Ahead(m, r, i)
        BY <2>1 DEF EnterExact
      <3> HIDE DEF w
      <3>2. Entered(m, w, t, r, toks, next)
        BY <3>1, <1>2, ExactStepKeeps
      <3> QED BY <3>2, <2>1 DEF Good, Entered
    <2>2. CASE ~(next # NoToken /\ b <= CacheBlocks /\ ~Present(k[n], e))
      <3>1. w = k[n]
        BY <2>2
      <3> QED BY <3>1, <1>2, <1>e
    <2> QED BY <2>1, <2>2
  <1> HIDE DEF w
  <1>4. CASE CacheBlocks = 0
    <2>1. x = m
      BY <1>0, <1>4
    <2>2. Good(m)
      BY ApartSelf DEF Good, Apart, PredsKept, PredsSet
    <2> QED BY <2>1, <2>2 DEF x, Good, Published
  <1>5. CASE CacheBlocks # 0
    <2>1. x = EvictToLimit(w)
      BY <1>0, <1>5
    <2>2. Trimmed(w, x, t) /\ ~Over(x)
      BY <2>1, <1>3, EvictToLimitKeeps DEF Good
    <2>3. Spares(m, x, Req \ {r})
      <3>1. Spares(w, x, Req \ {r})
        BY <2>2 DEF Trimmed, Spares
      <3> QED BY <3>1, <1>3, SparesAgain DEF Good
    <2>4. /\ next # NoToken => PredsSet(m, x, toks, next)
          /\ next = NoToken => PredsKept(m, x)
      <3>1. PredsKept(w, x)
        BY <2>2 DEF Trimmed
      <3> QED BY <3>1, <1>3 DEF Good, PredsKept, PredsSet
    <2> QED BY <2>2, <2>3, <2>4, <1>3 DEF x, Trimmed, Good, Published
  <1> QED BY <1>4, <1>5

-----------------------------------------------------------------------------
(* The memory at the start. *)

LEMMA InitMemOK ==
    ASSUME NEW t \in [Req -> Seq(Token)]
    PROVE  MemoryOK(InitMem, t) /\ ~Over(InitMem) /\ Entries(InitMem) = {}
           /\ \A r \in Req : InitMem.pool.owns[r] = << >> /\ InitMem.len[r] = 0
  <1> DEFINE m == InitMem
             p == IF Reserved = 0 THEN EmptyPool
                  ELSE Grant(EmptyPool, DummyOwner, Take(EmptyPool, Reserved))
  <1>1. Consistent(EmptyPool) /\ \A y \in PageOwner : EmptyPool.owns[y] = << >>
    BY EmptyPoolOK DEF EmptyPool
  <1>2. Consistent(p) /\ \A y \in PageOwner \ {DummyOwner} : p.owns[y] = << >>
    <2>1. CASE Reserved = 0
      BY <2>1, <1>1
    <2>2. CASE Reserved # 0
      <3>1. Reserved \in Nat /\ Reserved <= NumBlocks /\ NumBlocks \in Nat \ {0}
        BY KVAssumption
      <3>2. EmptyPool.free = 0 .. NumBlocks - 1
        BY DEF EmptyPool, Block
      <3>3. Cardinality(0 .. NumBlocks - 1) = NumBlocks
        BY <3>1, FS_Interval
      <3>4. Reserved <= Cardinality(EmptyPool.free) /\ DummyOwner \in PageOwner
        BY <3>1, <3>2, <3>3, OwnersDiffer
      <3> DEFINE q == Grant(EmptyPool, DummyOwner, Take(EmptyPool, Reserved))
      <3>5. Consistent(q) /\ \A y \in PageOwner \ {DummyOwner} : q.owns[y] = EmptyPool.owns[y]
        BY <3>1, <3>4, <1>1, GrantLeaves
      <3> QED BY <3>5, <1>1, <2>2
    <2> QED BY <2>1, <2>2
  <1>3. m = [pool  |-> p,
             len   |-> [r \in Req |-> 0],
             lru   |-> << >>,
             crefs |-> [b \in Block |-> 0],
             pred  |-> [s \in Prompts |-> NoToken],
             kv    |-> [b \in Block |-> Blank]]
    BY DEF InitMem
  <1> HIDE DEF m, p
  <1>4. /\ m.pool = p /\ m.len = [r \in Req |-> 0] /\ m.lru = << >> /\ m.crefs = [b \in Block |-> 0]
        /\ m \in Memory
    <2>1. p \in Pool
      BY <1>2, PoolFacts
    <2>2. Blank \in [Slots -> Seq(Value)]
      BY DEF Blank
    <2>3. [b \in Block |-> Blank] \in [Block -> [Slots -> Seq(Value)]]
      BY <2>2
    <2>4. [s \in Prompts |-> NoToken] \in [Prompts -> Value]
      BY DEF Value
    <2>5. << >> \in Seq(CacheOwner) /\ [r \in Req |-> 0] \in [Req -> Nat] /\ [b \in Block |-> 0] \in [Block -> Nat]
      OBVIOUS
    <2> QED BY <1>3, <2>1, <2>3, <2>4, <2>5 DEF Memory
  <1>5. \A y \in CacheOwner \cup Req : m.pool.owns[y] = << >> /\ y \in PageOwner
    BY <1>2, <1>4, OwnersDiffer
  <1>6. Entries(m) = {} /\ Nodes(m) = {} /\ \A s \in Prompts : ~Present(m, ExactOwner(s))
    BY <1>5, OwnersDiffer DEF Entries, Nodes, Present
  <1>7. IsInjective(m.lru) /\ ToSet(m.lru) = Entries(m)
    <2>1. << >> \in Seq(CacheOwner) /\ Len(<< >>) = 0
      OBVIOUS
    <2>2. IsInjective(<< >>) /\ ToSet(<< >>) = {}
      BY <2>1 DEF ToSet, IsInjective
    <2> QED BY <2>2, <1>4, <1>6
  <1>8. CacheRefsExact(m)
    <2> SUFFICES ASSUME NEW b \in Block
                 PROVE  m.crefs[b] = Cardinality({o \in CacheOwner : Holds(m.pool, o, b)})
      BY DEF CacheRefsExact
    <2>1. {o \in CacheOwner : Holds(m.pool, o, b)} = {}
      BY <1>5 DEF Holds
    <2>2. Cardinality({}) = 0
      BY FS_EmptySet
    <2> QED BY <2>1, <2>2, <1>4
  <1>9. CacheOK(m)
    BY <1>2, <1>4, <1>6, <1>7, <1>8 DEF CacheOK, RadixClosed
  <1>10. ASSUME NEW r \in Req PROVE RequestOK(m, r, t[r])
    <2>1. m.len[r] = 0 /\ Len(m.pool.owns[r]) = 0 /\ BlocksFor(0) = 0 /\ Len(t[r]) \in Nat
      BY <1>4, <1>5, BlocksForPage
    <2> QED BY <2>1 DEF RequestOK, Reads
  <1>11. ~Over(m)
    <2>1. CachedBlocks(m) = {}
      BY <1>4 DEF CachedBlocks
    <2>2. Cardinality({}) = 0
      BY FS_EmptySet
    <2> QED BY <2>1, <2>2, KVAssumption DEF Over
  <1>12. MemoryOK(m, t)
    BY <1>9, <1>10 DEF MemoryOK
  <1> QED BY <1>4, <1>5, <1>6, <1>11, <1>12 DEF m

=============================================================================
