------------------------- MODULE BlockAllocatorProofs -------------------------
(***************************************************************************)
(* BlockAllocator is correct for every pool size, every finite set of      *)
(* owners and every bound on a call's count.  Each method of the pool      *)
(* keeps Consistent; the lemmas are about the pool operators, so that any  *)
(* module that works on pool records can cite them.                        *)
(***************************************************************************)
EXTENDS BlockAllocator, FiniteSetTheorems, SequenceTheorems, TLAPS

\* Every set of owners is finite: what cardinalities of holder sets need.
LEMMA HoldersFinite ==
    ASSUME NEW p, NEW b
    PROVE  IsFiniteSet(Holders(p, b))
  BY PoolAssumption, FS_Subset DEF Holders

LEMMA HoldersEmpty ==
    ASSUME NEW p, NEW b
    PROVE  Cardinality(Holders(p, b)) = 0 <=> Holders(p, b) = {}
  BY HoldersFinite, FS_EmptySet

\* If o becomes a holder of b and nothing else changes for b, b has one more.
LEMMA HolderAdded ==
    ASSUME NEW p, NEW q, NEW b, NEW o \in Owner,
           ~Holds(p, o, b), Holds(q, o, b),
           \A x \in Owner \ {o} : Holds(q, x, b) <=> Holds(p, x, b)
    PROVE  Cardinality(Holders(q, b)) = Cardinality(Holders(p, b)) + 1
  <1>1. Holders(q, b) = Holders(p, b) \cup {o}
    BY DEF Holders
  <1>2. o \notin Holders(p, b)
    BY DEF Holders
  <1> QED BY <1>1, <1>2, HoldersFinite, FS_AddElement

LEMMA HolderRemoved ==
    ASSUME NEW p, NEW q, NEW b, NEW o \in Owner,
           Holds(p, o, b), ~Holds(q, o, b),
           \A x \in Owner \ {o} : Holds(q, x, b) <=> Holds(p, x, b)
    PROVE  Cardinality(Holders(q, b)) = Cardinality(Holders(p, b)) - 1
  <1>1. Holders(q, b) = Holders(p, b) \ {o}
    BY DEF Holders
  <1>2. o \in Holders(p, b)
    BY DEF Holders
  <1> QED BY <1>1, <1>2, HoldersFinite, FS_RemoveElement

LEMMA HoldersSame ==
    ASSUME NEW p, NEW q, NEW b,
           \A x \in Owner : Holds(q, x, b) <=> Holds(p, x, b)
    PROVE  Holders(q, b) = Holders(p, b)
  BY DEF Holders

LEMMA AnotherMember ==
    ASSUME NEW S, IsFiniteSet(S), NEW x \in S, Cardinality(S) > 1
    PROVE  S \ {x} # {}
  <1> SUFFICES ASSUME S \ {x} = {} PROVE FALSE
    OBVIOUS
  <1>1. S = {x}
    OBVIOUS
  <1> QED BY <1>1, FS_Singleton

\* Where the elements of a concatenation come from.
LEMMA ConcatIndexed ==
    ASSUME NEW S, NEW t \in Seq(S), NEW s \in Seq(S)
    PROVE  /\ Len(t \o s) = Len(t) + Len(s)
           /\ \A k \in 1 .. Len(t) : (t \o s)[k] = t[k]
           /\ \A k \in 1 .. Len(t) + Len(s) :
                 k > Len(t) => (t \o s)[k] = s[k - Len(t)]
  <1>1. Len(t) \in Nat /\ Len(s) \in Nat
    OBVIOUS
  <1>2. \A k \in 1 .. Len(t) + Len(s) :
           (t \o s)[k] = IF k <= Len(t) THEN t[k] ELSE s[k - Len(t)]
    BY ConcatProperties
  <1>3. Len(t \o s) = Len(t) + Len(s)
    BY ConcatProperties
  <1>4. ASSUME NEW k \in 1 .. Len(t)
        PROVE  (t \o s)[k] = t[k]
    <2>1. k \in 1 .. Len(t) + Len(s) /\ k <= Len(t)
      BY <1>1
    <2> QED BY <2>1, <1>2
  <1>5. ASSUME NEW k \in 1 .. Len(t) + Len(s), k > Len(t)
        PROVE  (t \o s)[k] = s[k - Len(t)]
    <2>1. ~(k <= Len(t))
      BY <1>1, <1>5
    <2> QED BY <2>1, <1>2
  <1> QED BY <1>3, <1>4, <1>5

-----------------------------------------------------------------------------
LEMMA EmptyPoolConsistent == Consistent(EmptyPool)
  <1>1. EmptyPool \in Pool
    BY DEF EmptyPool, Pool
  <1>2. \A b \in Block : Holders(EmptyPool, b) = {}
    BY DEF EmptyPool, Holders, Holds
  <1>3. RefsCountHolders(EmptyPool)
    BY <1>2, FS_EmptySet DEF RefsCountHolders, EmptyPool
  <1>4. FreeHasNoHolder(EmptyPool)
    BY <1>2 DEF FreeHasNoHolder, EmptyPool
  <1>5. NoDuplicates(EmptyPool)
    BY DEF NoDuplicates, EmptyPool
  <1> QED BY <1>1, <1>3, <1>4, <1>5 DEF Consistent

LEMMA PoppedType ==
    ASSUME NEW p \in Pool, NEW n \in Nat, NEW s \in Popped(p, n)
    PROVE  /\ s \in Seq(Block)
           /\ Len(s) = n
           /\ \A i \in 1 .. n : s[i] \in p.free
           /\ \A i, j \in 1 .. n : s[i] = s[j] => i = j
  <1>1. s \in [1 .. n -> p.free] /\ p.free \in SUBSET Block
    BY DEF Popped, Pool
  <1>2. s \in Seq(Block) /\ Len(s) = n
    BY <1>1
  <1>3. \A i, j \in 1 .. n : i < j => s[i] > s[j]
    BY DEF Popped
  <1>4. \A i \in 1 .. n : s[i] \in Int
    BY <1>1, PoolAssumption DEF Block
  <1> QED
    BY <1>1, <1>2, <1>3, <1>4

LEMMA GrantConsistent ==
    ASSUME NEW p, Consistent(p), NEW o \in Owner,
           NEW n \in Nat, NEW s \in Popped(p, n)
    PROVE  Consistent(Grant(p, o, s))
  <1> DEFINE q == Grant(p, o, s)
  <1>0. p \in Pool
    BY DEF Consistent
  <1>1. /\ s \in Seq(Block) /\ Len(s) = n
        /\ \A i \in 1 .. n : s[i] \in p.free
        /\ \A i, j \in 1 .. n : s[i] = s[j] => i = j
    BY <1>0, PoppedType
  <1>2. q \in Pool
    BY <1>0, <1>1 DEF Grant, Pool
  <1>3. /\ Len(q.owns[o]) = Len(p.owns[o]) + n
        /\ \A i \in 1 .. Len(p.owns[o]) : q.owns[o][i] = p.owns[o][i]
        /\ \A k \in 1 .. Len(p.owns[o]) + n : k > Len(p.owns[o]) =>
              q.owns[o][k] = s[k - Len(p.owns[o])]
        /\ \A x \in Owner \ {o} : q.owns[x] = p.owns[x]
        /\ Len(p.owns[o]) \in Nat
    <2>1. p.owns \in [Owner -> Seq(Block)] /\ p.owns[o] \in Seq(Block)
      BY <1>0 DEF Pool
    <2>2. q.owns = [p.owns EXCEPT ![o] = p.owns[o] \o s]
      BY DEF Grant
    <2>3. q.owns[o] = p.owns[o] \o s /\ \A x \in Owner \ {o} : q.owns[x] = p.owns[x]
      BY <2>1, <2>2
    <2>4. Len(p.owns[o]) \in Nat /\ Len(s) = n
      BY <2>1, <1>1
    <2> DEFINE t == p.owns[o]
    <2> HIDE DEF q, t
    <2>5. t \in Seq(Block) /\ q.owns[o] = t \o s
      BY <2>1, <2>3 DEF t
    <2>6. /\ Len(t \o s) = Len(t) + Len(s)
          /\ \A k \in 1 .. Len(t) : (t \o s)[k] = t[k]
          /\ \A k \in 1 .. Len(t) + Len(s) :
                k > Len(t) => (t \o s)[k] = s[k - Len(t)]
      BY <2>5, <1>1, ConcatIndexed, ZenonT(60)
    <2>7. /\ Len(q.owns[o]) = Len(t) + n
          /\ \A k \in 1 .. Len(t) : q.owns[o][k] = t[k]
          /\ \A k \in 1 .. Len(t) + n : k > Len(t) => q.owns[o][k] = s[k - Len(t)]
      BY <2>4, <2>5, <2>6
    <2> QED BY <2>3, <2>4, <2>7 DEF t
  <1>4. \A b \in Block, x \in Owner \ {o} : Holds(q, x, b) <=> Holds(p, x, b)
    BY <1>3 DEF Holds
  <1>5. \A b \in Block :
           Holds(q, o, b) <=> Holds(p, o, b) \/ \E i \in 1 .. n : s[i] = b
    <2> SUFFICES ASSUME NEW b \in Block
                 PROVE  Holds(q, o, b) <=>
                          Holds(p, o, b) \/ \E i \in 1 .. n : s[i] = b
      OBVIOUS
    <2>1. ASSUME Holds(q, o, b), ~Holds(p, o, b)
          PROVE  \E i \in 1 .. n : s[i] = b
      <3> HIDE DEF q
      <3>1. PICK k \in 1 .. Len(q.owns[o]) : q.owns[o][k] = b
        BY <2>1 DEF Holds
      <3>2. k \notin 1 .. Len(p.owns[o])
        BY <3>1, <2>1, <1>3 DEF Holds
      <3>3. k - Len(p.owns[o]) \in 1 .. n
        BY <3>1, <3>2, <1>3
      <3>4. q.owns[o][k] = s[k - Len(p.owns[o])]
        BY <3>1, <3>3, <1>3
      <3> QED BY <3>1, <3>3, <3>4
    <2>2. ASSUME Holds(p, o, b) PROVE Holds(q, o, b)
      <3> HIDE DEF q
      <3>1. PICK k \in 1 .. Len(p.owns[o]) : p.owns[o][k] = b
        BY <2>2 DEF Holds
      <3>2. k \in 1 .. Len(q.owns[o])
        BY <3>1, <1>3
      <3>3. q.owns[o][k] = b
        BY <3>1, <1>3
      <3> QED BY <3>2, <3>3 DEF Holds
    <2>3. ASSUME NEW i \in 1 .. n, s[i] = b PROVE Holds(q, o, b)
      <3> HIDE DEF q
      <3> DEFINE k == Len(p.owns[o]) + i
      <3>1. /\ k \in 1 .. Len(q.owns[o])
            /\ k \in 1 .. Len(p.owns[o]) + n
            /\ k > Len(p.owns[o])
            /\ k - Len(p.owns[o]) = i
        BY <1>3
      <3> HIDE DEF k
      <3>3. q.owns[o][k] = s[i]
        BY <3>1, <1>3
      <3> QED BY <3>1, <3>3, <2>3 DEF Holds
    <2> QED BY <2>1, <2>2, <2>3
  <1>6. ASSUME NEW i \in 1 .. n
        PROVE  s[i] \in Block /\ Holders(p, s[i]) = {}
    <2>1. s[i] \in Block
      BY <1>0, <1>1 DEF Pool
    <2> QED BY <2>1, <1>1 DEF Consistent, FreeHasNoHolder
  <1>7. RefsCountHolders(q)
    <2> SUFFICES ASSUME NEW b \in Block
                 PROVE  q.refs[b] = Cardinality(Holders(q, b))
      BY DEF RefsCountHolders
    <2>1. CASE \E i \in 1 .. n : s[i] = b
      <3>1. Holders(p, b) = {}
        BY <2>1, <1>6
      <3>2. q.refs[b] = 1
        BY <2>1, <1>1 DEF Grant
      <3>3. Holders(q, b) = {o}
        BY <3>1, <2>1, <1>4, <1>5 DEF Holders
      <3> QED BY <3>2, <3>3, FS_Singleton
    <2>2. CASE ~ \E i \in 1 .. n : s[i] = b
      <3>1. q.refs[b] = p.refs[b]
        BY <2>2, <1>1 DEF Grant
      <3>2. Holders(q, b) = Holders(p, b)
        BY <2>2, <1>4, <1>5 DEF Holders
      <3> QED BY <3>1, <3>2 DEF Consistent, RefsCountHolders
    <2> QED BY <2>1, <2>2
  <1>8. FreeHasNoHolder(q)
    <2> SUFFICES ASSUME NEW b \in Block
                 PROVE  b \in q.free <=> Holders(q, b) = {}
      BY DEF FreeHasNoHolder
    <2>1. q.free = p.free \ {s[i] : i \in 1 .. n}
      BY <1>1 DEF Grant
    <2>2. CASE \E i \in 1 .. n : s[i] = b
      BY <2>1, <2>2, <1>5 DEF Holders
    <2>3. CASE ~ \E i \in 1 .. n : s[i] = b
      <3>1. Holders(q, b) = Holders(p, b)
        BY <2>3, <1>4, <1>5 DEF Holders
      <3> QED BY <2>1, <2>3, <3>1 DEF Consistent, FreeHasNoHolder
    <2> QED BY <2>2, <2>3
  <1>9. NoDuplicates(q)
    <2> SUFFICES ASSUME NEW x \in Owner,
                        NEW i \in 1 .. Len(q.owns[x]), NEW j \in 1 .. Len(q.owns[x]),
                        q.owns[x][i] = q.owns[x][j]
                 PROVE  i = j
      BY DEF NoDuplicates
    <2>1. CASE x # o
      BY <2>1, <1>3 DEF Consistent, NoDuplicates
    <2>2. CASE x = o
      <3> DEFINE m == Len(p.owns[o])
      <3>1. ASSUME NEW k \in 1 .. Len(q.owns[o]), k > m
            PROVE  /\ k - m \in 1 .. n
                   /\ q.owns[o][k] = s[k - m]
                   /\ q.owns[o][k] \in p.free
        <4> HIDE DEF q
        <4>1. k - m \in 1 .. n
          BY <3>1, <1>3
        <4>2. q.owns[o][k] = s[k - m]
          BY <3>1, <4>1, <1>3
        <4>3. s[k - m] \in p.free
          BY <4>1, <1>1
        <4> QED BY <4>1, <4>2, <4>3
      <3>2. ASSUME NEW k \in 1 .. Len(q.owns[o]), k <= m
            PROVE  /\ k \in 1 .. m
                   /\ q.owns[o][k] = p.owns[o][k]
                   /\ q.owns[o][k] \notin p.free
        <4>1. k \in 1 .. m /\ q.owns[o][k] = p.owns[o][k]
          BY <3>2, <1>3
        <4>2. p.owns[o][k] \in Block
          BY <4>1, <1>0 DEF Pool
        <4>3. o \in Holders(p, p.owns[o][k])
          BY <4>1 DEF Holders, Holds
        <4> QED BY <4>1, <4>2, <4>3 DEF Consistent, FreeHasNoHolder
      <3>3. CASE i > m /\ j > m
        <4> HIDE DEF q
        <4>1. s[i - m] = s[j - m]
          BY <3>1, <3>3, <2>2
        <4>2. i - m \in 1 .. n /\ j - m \in 1 .. n
          BY <3>1, <3>3, <2>2
        <4>3. i - m = j - m
          BY <4>1, <4>2, <1>1
        <4> QED BY <4>3, <2>2, <1>3
      <3>4. CASE i <= m /\ j <= m
        BY <3>2, <3>4, <2>2 DEF Consistent, NoDuplicates
      <3>5. CASE i <= m /\ j > m
        BY <3>1, <3>2, <3>5, <2>2
      <3>6. CASE i > m /\ j <= m
        BY <3>1, <3>2, <3>6, <2>2
      <3> QED BY <3>3, <3>4, <3>5, <3>6, <2>2, <1>3
    <2> QED BY <2>1, <2>2
  <1> QED BY <1>2, <1>7, <1>8, <1>9 DEF Consistent

LEMMA AttachConsistent ==
    ASSUME NEW p, Consistent(p), NEW o \in Owner, NEW s \in Seq(Block),
           CanAttach(p, o, s)
    PROVE  Consistent(Attach(p, o, s))
  <1> DEFINE q == Attach(p, o, s)
  <1>0. p \in Pool
    BY DEF Consistent
  <1>1. q \in Pool
    BY <1>0 DEF Attach, Pool
  <1>2. /\ q.free = p.free
        /\ q.owns[o] = s
        /\ \A x \in Owner \ {o} : q.owns[x] = p.owns[x]
        /\ \A b \in Block : q.refs[b] = IF \E i \in 1 .. Len(s) : s[i] = b
                                       THEN p.refs[b] + 1 ELSE p.refs[b]
    BY <1>0 DEF Attach, Pool
  <1> HIDE DEF q
  <1>3. \A b \in Block, x \in Owner \ {o} : Holds(q, x, b) <=> Holds(p, x, b)
    BY <1>2 DEF Holds
  <1>4. \A b \in Block : Holds(q, o, b) <=> \E i \in 1 .. Len(s) : s[i] = b
    BY <1>2 DEF Holds
  <1>5. \A b \in Block : ~Holds(p, o, b)
    BY DEF Holds, CanAttach
  <1>6. ASSUME NEW b \in Block
        PROVE  /\ q.refs[b] = Cardinality(Holders(q, b))
               /\ b \in q.free <=> Holders(q, b) = {}
    <2>1. /\ p.refs[b] = Cardinality(Holders(p, b))
          /\ b \in p.free <=> Holders(p, b) = {}
      BY DEF Consistent, RefsCountHolders, FreeHasNoHolder
    <2>2. CASE \E i \in 1 .. Len(s) : s[i] = b
      <3>1. Cardinality(Holders(q, b)) = Cardinality(Holders(p, b)) + 1
        BY <2>2, <1>3, <1>4, <1>5, HolderAdded
      <3>2. p.refs[b] # 0
        BY <2>2 DEF CanAttach
      <3>3. Holders(p, b) # {}
        BY <3>2, <2>1, HoldersEmpty
      <3>4. o \in Holders(q, b)
        BY <2>2, <1>4 DEF Holders
      <3> QED BY <3>1, <3>3, <3>4, <2>1, <2>2, <1>2
    <2>3. CASE ~ \E i \in 1 .. Len(s) : s[i] = b
      <3>1. Holders(q, b) = Holders(p, b)
        BY <2>3, <1>3, <1>4, <1>5, HoldersSame
      <3> QED BY <3>1, <2>1, <2>3, <1>2
    <2> QED BY <2>2, <2>3
  <1>7. NoDuplicates(q)
    <2> SUFFICES ASSUME NEW x \in Owner,
                        NEW i \in 1 .. Len(q.owns[x]), NEW j \in 1 .. Len(q.owns[x]),
                        q.owns[x][i] = q.owns[x][j]
                 PROVE  i = j
      BY DEF NoDuplicates
    <2>1. CASE x # o
      BY <2>1, <1>2 DEF Consistent, NoDuplicates
    <2>2. CASE x = o
      BY <2>2, <1>2 DEF CanAttach
    <2> QED BY <2>1, <2>2
  <1>8. RefsCountHolders(q) /\ FreeHasNoHolder(q)
    BY <1>6 DEF RefsCountHolders, FreeHasNoHolder
  <1> QED BY <1>1, <1>7, <1>8 DEF Consistent, q

LEMMA ReleaseConsistent ==
    ASSUME NEW p, Consistent(p), NEW o \in Owner
    PROVE  Consistent(Release(p, o))
  <1> DEFINE q == Release(p, o)
  <1>0. p \in Pool
    BY DEF Consistent
  <1>1. /\ q.free = p.free \cup {b \in Block : Holds(p, o, b) /\ p.refs[b] = 1}
        /\ q.owns[o] = << >>
        /\ \A x \in Owner \ {o} : q.owns[x] = p.owns[x]
        /\ \A b \in Block :
              q.refs[b] = IF Holds(p, o, b) THEN p.refs[b] - 1 ELSE p.refs[b]
    BY <1>0 DEF Release, Pool
  <1>2. \A b \in Block : Holds(p, o, b) => p.refs[b] \in Nat \ {0}
    <2> SUFFICES ASSUME NEW b \in Block, Holds(p, o, b)
                 PROVE  p.refs[b] \in Nat \ {0}
      OBVIOUS
    <2>1. o \in Holders(p, b)
      BY DEF Holders
    <2>2. p.refs[b] = Cardinality(Holders(p, b))
      BY DEF Consistent, RefsCountHolders
    <2>3. p.refs[b] \in Nat
      BY <1>0 DEF Pool
    <2> QED BY <2>1, <2>2, <2>3, HoldersEmpty
  <1>3. q \in Pool
    BY <1>0, <1>2 DEF Release, Pool
  <1> HIDE DEF q
  <1>4. \A b \in Block, x \in Owner \ {o} : Holds(q, x, b) <=> Holds(p, x, b)
    BY <1>1 DEF Holds
  <1>5. \A b \in Block : ~Holds(q, o, b)
    BY <1>1 DEF Holds
  <1>6. ASSUME NEW b \in Block
        PROVE  /\ q.refs[b] = Cardinality(Holders(q, b))
               /\ b \in q.free <=> Holders(q, b) = {}
    <2>1. /\ p.refs[b] = Cardinality(Holders(p, b))
          /\ b \in p.free <=> Holders(p, b) = {}
          /\ p.refs[b] \in Nat
      BY <1>0 DEF Consistent, RefsCountHolders, FreeHasNoHolder, Pool
    <2>2. CASE Holds(p, o, b)
      <3>1. Cardinality(Holders(q, b)) = Cardinality(Holders(p, b)) - 1
        BY <2>2, <1>4, <1>5, HolderRemoved
      <3>2. q.refs[b] = Cardinality(Holders(q, b))
        BY <3>1, <2>1, <2>2, <1>1
      <3>3. b \notin p.free
        BY <2>1, <2>2 DEF Holders
      <3>4. b \in q.free <=> p.refs[b] = 1
        BY <3>3, <2>2, <1>1
      <3>5. p.refs[b] = 1 <=> Holders(q, b) = {}
        BY <3>1, <2>1, HoldersEmpty
      <3> QED BY <3>2, <3>4, <3>5
    <2>3. CASE ~Holds(p, o, b)
      <3>1. Holders(q, b) = Holders(p, b)
        BY <2>3, <1>4, <1>5, HoldersSame
      <3> QED BY <3>1, <2>1, <2>3, <1>1
    <2> QED BY <2>2, <2>3
  <1>7. NoDuplicates(q)
    <2> SUFFICES ASSUME NEW x \in Owner,
                        NEW i \in 1 .. Len(q.owns[x]), NEW j \in 1 .. Len(q.owns[x]),
                        q.owns[x][i] = q.owns[x][j]
                 PROVE  i = j
      BY DEF NoDuplicates
    <2>1. CASE x # o
      BY <2>1, <1>1 DEF Consistent, NoDuplicates
    <2>2. CASE x = o
      BY <2>2, <1>1
    <2> QED BY <2>1, <2>2
  <1>8. RefsCountHolders(q) /\ FreeHasNoHolder(q)
    BY <1>6 DEF RefsCountHolders, FreeHasNoHolder
  <1> QED BY <1>3, <1>7, <1>8 DEF Consistent, q

LEMMA ReplaceConsistent ==
    ASSUME NEW p, Consistent(p), NEW o \in Owner, NEW i \in Nat, NEW b \in p.free,
           CanReplace(p, o, i)
    PROVE  Consistent(Replace(p, o, i, b))
  <1> DEFINE q == Replace(p, o, i, b)
             old == p.owns[o][i]
  <1>0. p \in Pool
    BY DEF Consistent
  <1>1. /\ p.owns[o] \in Seq(Block)
        /\ i \in 1 .. Len(p.owns[o])
        /\ old \in Block
        /\ b \in Block
        /\ p.refs[old] \in Nat /\ p.refs[old] > 1
    BY <1>0 DEF Pool, CanReplace
  <1>2. Holders(p, b) = {}
    BY <1>1 DEF Consistent, FreeHasNoHolder
  <1>3. Holds(p, o, old)
    BY <1>1 DEF Holds
  <1>4. b # old
    BY <1>2, <1>3 DEF Holders
  <1>5. /\ q.free = p.free \ {b}
        /\ q.owns[o] = [p.owns[o] EXCEPT ![i] = b]
        /\ \A x \in Owner \ {o} : q.owns[x] = p.owns[x]
        /\ q.refs[b] = 1
        /\ q.refs[old] = p.refs[old] - 1
        /\ \A c \in Block \ {b, old} : q.refs[c] = p.refs[c]
    BY <1>0, <1>1, <1>4 DEF Replace, Pool
  <1>6. q.owns[o] \in Seq(Block) /\ Len(q.owns[o]) = Len(p.owns[o])
    BY <1>1, <1>5
  <1>7. q \in Pool
    <2>1. q = [free |-> q.free, owns |-> q.owns, refs |-> q.refs]
      BY DEF Replace
    <2>2. q.free \in SUBSET Block
      BY <1>0 DEF Replace, Pool
    <2>3. q.owns \in [Owner -> Seq(Block)]
      BY <1>0, <1>6 DEF Replace, Pool
    <2>4. q.refs \in [Block -> Nat]
      <3>1. p.refs[old] - 1 \in Nat
        BY <1>1
      <3> QED BY <3>1, <1>0, <1>1 DEF Replace, Pool
    <2> HIDE DEF q
    <2> QED BY <2>1, <2>2, <2>3, <2>4 DEF Pool
  <1>8. /\ q.owns[o][i] = b
        /\ \A k \in 1 .. Len(p.owns[o]) : k # i => q.owns[o][k] = p.owns[o][k]
    BY <1>1, <1>5
  <1> HIDE DEF q
  <1>9. \A c \in Block, x \in Owner \ {o} : Holds(q, x, c) <=> Holds(p, x, c)
    BY <1>5 DEF Holds
  <1>10. \A k \in 1 .. Len(p.owns[o]) : k # i => p.owns[o][k] # old
    BY <1>1 DEF Consistent, NoDuplicates
  <1>11. Holds(q, o, b) /\ ~Holds(q, o, old)
    BY <1>1, <1>4, <1>6, <1>8, <1>10 DEF Holds
  <1>12. \A c \in Block \ {b, old} : Holds(q, o, c) <=> Holds(p, o, c)
    BY <1>1, <1>6, <1>8 DEF Holds
  <1>13. ASSUME NEW c \in Block
         PROVE  /\ q.refs[c] = Cardinality(Holders(q, c))
                /\ c \in q.free <=> Holders(q, c) = {}
    <2>1. /\ p.refs[c] = Cardinality(Holders(p, c))
          /\ c \in p.free <=> Holders(p, c) = {}
      BY DEF Consistent, RefsCountHolders, FreeHasNoHolder
    <2>2. CASE c = b
      <3>1. Holders(q, b) = {o}
        BY <1>2, <1>9, <1>11, <1>1 DEF Holders
      <3> QED BY <3>1, <2>2, <1>5, FS_Singleton
    <2>3. CASE c = old
      <3>1. Cardinality(Holders(q, old)) = Cardinality(Holders(p, old)) - 1
        BY <1>1, <1>3, <1>9, <1>11, HolderRemoved
      <3>2. q.refs[old] = Cardinality(Holders(q, old)) /\ q.refs[old] # 0
        BY <3>1, <2>1, <2>3, <1>1, <1>5
      <3>3. Holders(q, old) # {}
        BY <3>2, HoldersEmpty
      <3>4. old \notin q.free
        BY <1>3, <1>5, <2>1, <2>3 DEF Holders
      <3> QED BY <3>2, <3>3, <3>4, <2>3
    <2>4. CASE c \notin {b, old}
      <3>1. Holders(q, c) = Holders(p, c)
        BY <2>4, <1>9, <1>12, HoldersSame
      <3> QED BY <3>1, <2>1, <2>4, <1>5
    <2> QED BY <2>2, <2>3, <2>4
  <1>14. NoDuplicates(q)
    <2> SUFFICES ASSUME NEW x \in Owner,
                        NEW j \in 1 .. Len(q.owns[x]), NEW k \in 1 .. Len(q.owns[x]),
                        q.owns[x][j] = q.owns[x][k]
                 PROVE  j = k
      BY DEF NoDuplicates
    <2>1. CASE x # o
      BY <2>1, <1>5 DEF Consistent, NoDuplicates
    <2>2. CASE x = o
      <3>1. \A m \in 1 .. Len(p.owns[o]) : p.owns[o][m] # b
        BY <1>2 DEF Holders, Holds
      <3>2. CASE j # i /\ k # i
        BY <2>2, <3>2, <1>6, <1>8 DEF Consistent, NoDuplicates
      <3>3. CASE j = i \/ k = i
        BY <2>2, <3>1, <3>3, <1>6, <1>8
      <3> QED BY <3>2, <3>3
    <2> QED BY <2>1, <2>2
  <1>15. RefsCountHolders(q) /\ FreeHasNoHolder(q)
    BY <1>13 DEF RefsCountHolders, FreeHasNoHolder
  <1> QED BY <1>7, <1>14, <1>15 DEF Consistent, q

-----------------------------------------------------------------------------
\* The inductive invariant: the three facts together, with the types.
IInv == Consistent(pool)

\* An argument of attach is a list of blocks.
LEMMA BlockListsType ==
    ASSUME NEW s \in BlockLists
    PROVE  s \in Seq(Block)
  <1>1. PICK k \in 1 .. NumBlocks : s \in [1 .. k -> Block]
    BY DEF BlockLists
  <1> QED BY <1>1

LEMMA PoolInductive == Spec => []IInv
  <1>1. Init => IInv
    BY EmptyPoolConsistent DEF Init, IInv
  <1>2. IInv /\ [Next]_pool => IInv'
    <2> SUFFICES ASSUME IInv, [Next]_pool
                 PROVE  IInv'
      OBVIOUS
    <2> USE DEF IInv
    <2>0. pool \in Pool /\ \A o \in Owner : Len(pool.owns[o]) \in Nat
      BY DEF Consistent, Pool
    <2>1. ASSUME NEW o \in Owner, NEW n \in 1 .. MaxCount, Allocate(o, n)
          PROVE  IInv'
      BY <2>1, GrantConsistent, MaxCountAssumption DEF Allocate
    <2>2. ASSUME NEW o \in Owner, NEW n \in 1 .. MaxCount, Extend(o, n)
          PROVE  IInv'
      BY <2>2, GrantConsistent, MaxCountAssumption DEF Extend
    <2>3. ASSUME NEW o \in Owner, NEW s \in BlockLists, Share(o, s)
          PROVE  IInv'
      BY <2>3, BlockListsType, AttachConsistent DEF Share
    <2>4. ASSUME NEW o \in Owner, NEW i \in 1 .. Len(pool.owns[o]), CopyOnWrite(o, i)
          PROVE  IInv'
      <3>1. PICK s \in Popped(pool, 1) : pool' = Replace(pool, o, i, s[1])
        BY <2>4 DEF CopyOnWrite
      <3>2. s[1] \in pool.free
        BY <2>0, PoppedType
      <3> QED BY <2>0, <2>4, <3>1, <3>2, ReplaceConsistent DEF CopyOnWrite
    <2>5. ASSUME NEW o \in Owner, Free(o)
          PROVE  IInv'
      BY <2>5, ReleaseConsistent DEF Free
    <2>6. CASE UNCHANGED pool
      BY <2>6
    <2> QED BY <2>1, <2>2, <2>3, <2>4, <2>5, <2>6 DEF Next
  <1> QED BY <1>1, <1>2, PTL DEF Spec

(***************************************************************************)
(* In every reachable state every counter of BlockAllocator equals the     *)
(* number of tables that name the block, a block is free exactly when no   *)
(* table names it, and no table names a block twice, whatever sequence of  *)
(* allocate, extend, attach, replace_shared and release calls led there.   *)
(* attach takes any list of live blocks: one owner's, or the radix path of *)
(* the prefix cache, whose blocks have an owner each.                      *)
(***************************************************************************)
THEOREM PoolConsistency ==
    Spec => []PoolConsistent
  <1>1. IInv => PoolConsistent
    BY DEF IInv, Consistent, PoolConsistent, TypeOK, RefcountsExact, FreeIsUnheld, TablesInjective
  <1> QED BY <1>1, PoolInductive, PTL

-----------------------------------------------------------------------------
\* In a consistent pool the free list is the set of pages nobody holds.
LEMMA FreeIsAvailable ==
    ASSUME IInv
    PROVE  pool.free = Ownership!Available
  <1>1. pool.free \in SUBSET Block
    BY DEF IInv, Consistent, Pool
  <1>2. \A b \in Block : b \in pool.free <=> \A o \in Owner : ~Holds(pool, o, b)
    BY DEF IInv, Consistent, FreeHasNoHolder, Holders
  <1> QED BY <1>1, <1>2 DEF Ownership!Available, Ownership!HeldBy, Ownership!Block, Block, Holds

\* A block with a reference is held by some owner, so it is not free.
LEMMA LiveIsHeld ==
    ASSUME IInv, NEW b \in Block, pool.refs[b] # 0
    PROVE  b \notin pool.free
  <1>1. Holders(pool, b) # {}
    BY HoldersEmpty DEF IInv, Consistent, RefsCountHolders
  <1> QED BY <1>1 DEF IInv, Consistent, FreeHasNoHolder

(***************************************************************************)
(* BlockAllocator implements PageOwnership: hiding counters and free list, *)
(* each of its calls is a step of plain page ownership.                    *)
(***************************************************************************)
THEOREM AllocatorImplementsOwnership == Spec => ImplementsOwnership
  <1>1. Init => Ownership!Init
    BY DEF Init, Ownership!Init, EmptyPool
  <1>2. IInv /\ [Next]_pool => [Ownership!Next]_(pool.owns)
    <2> SUFFICES ASSUME IInv, [Next]_pool
                 PROVE  Ownership!Next \/ UNCHANGED pool.owns
      OBVIOUS
    <2>0. pool \in Pool /\ pool.free = Ownership!Available
      BY FreeIsAvailable DEF IInv, Consistent
    <2>1. ASSUME NEW o \in Owner, NEW n \in 1 .. MaxCount, NEW s \in Popped(pool, n),
                 pool' = Grant(pool, o, s)
          PROVE  Ownership!Next
      <3>1. s \in [1 .. n -> Ownership!Available]
        BY <2>0 DEF Popped
      <3>2. Ownership!Distinct(s)
        BY <2>0, <2>1, PoppedType, MaxCountAssumption DEF Ownership!Distinct
      <3>3. Ownership!Acquire(o, s)
        BY <2>1, <3>2 DEF Ownership!Acquire, Grant
      <3> QED BY <3>1, <3>3 DEF Ownership!Next
    <2>2. ASSUME NEW o \in Owner, NEW s \in BlockLists, Share(o, s)
          PROVE  Ownership!Next
      <3>1. PICK k \in 1 .. NumBlocks : s \in [1 .. k -> Block]
        BY DEF BlockLists
      <3>2. Len(s) = k
        BY <3>1
      <3>3. \A i \in 1 .. k : s[i] \in Block \ Ownership!Available
        <4>1. \A i \in 1 .. k : s[i] \in Block /\ pool.refs[s[i]] # 0
          BY <2>2, <3>1, <3>2 DEF Share, CanAttach
        <4> QED BY <4>1, <2>0, LiveIsHeld
      <3>4. s \in [1 .. k -> Ownership!Block \ Ownership!Available]
        BY <3>1, <3>3 DEF Block, Ownership!Block
      <3>5. Ownership!Distinct(s) /\ pool.owns[o] = << >>
        BY <2>2 DEF Share, CanAttach, Ownership!Distinct
      <3>6. pool'.owns = [pool.owns EXCEPT ![o] = s]
        BY <2>2 DEF Share, Attach
      <3>7. Ownership!Share(o, s)
        BY <3>5, <3>6 DEF Ownership!Share
      <3> QED BY <3>4, <3>7 DEF Ownership!Next
    <2>3. ASSUME NEW o \in Owner, NEW i \in 1 .. Len(pool.owns[o]), CopyOnWrite(o, i)
          PROVE  Ownership!Next
      <3>1. PICK s \in Popped(pool, 1) : pool' = Replace(pool, o, i, s[1])
        BY <2>3 DEF CopyOnWrite
      <3>2. s[1] \in Ownership!Available
        BY <2>0, PoppedType
      <3> DEFINE old == pool.owns[o][i]
      <3>3. old \in Block /\ pool.refs[old] > 1 /\ pool.refs[old] = Cardinality(Holders(pool, old))
        BY <2>0, <2>3 DEF CopyOnWrite, CanReplace, Pool, IInv, Consistent, RefsCountHolders
      <3>4. o \in Holders(pool, old)
        BY DEF Holders, Holds
      <3>5. IsFiniteSet(Holders(pool, old))
        BY HoldersFinite
      <3>6. Cardinality(Holders(pool, old)) > 1
        BY <3>3
      <3>7. Holders(pool, old) \ {o} # {}
        BY <3>4, <3>5, <3>6, AnotherMember
      <3>8. \E x \in Owner \ {o} : Ownership!HeldBy(x, old)
        BY <3>7 DEF Holders, Holds, Ownership!HeldBy
      <3>9. Ownership!Trade(o, i, s[1])
        BY <3>1, <3>8 DEF Ownership!Trade, Replace
      <3> QED BY <3>2, <3>9 DEF Ownership!Next
    <2>4. ASSUME NEW o \in Owner, Free(o)
          PROVE  Ownership!Next
      <3>1. Ownership!Drop(o)
        BY <2>4 DEF Free, Release, Ownership!Drop
      <3> QED BY <3>1 DEF Ownership!Next
    <2>5. CASE UNCHANGED pool
      BY <2>5
    <2> QED BY <2>1, <2>2, <2>3, <2>4, <2>5 DEF Next, Allocate, Extend
  <1>3. Spec => []IInv
    BY PoolInductive
  <1> QED BY <1>1, <1>2, <1>3, PTL DEF Spec, ImplementsOwnership, Ownership!Spec

=============================================================================
