---------------------------- MODULE BlockAllocator ----------------------------
(***************************************************************************)
(* The life of one BlockAllocator (src/engine/cache/allocator.py): any     *)
(* sequence of allocate, attach, extend, replace_shared and release calls, *)
(* by requests and by the prefix cache.  A call that raises or returns     *)
(* None leaves the allocator as it was and is a stuttering step.           *)
(***************************************************************************)
EXTENDS BlockPool

CONSTANT MaxCount    \* the largest count one allocate or extend asks for

ASSUME MaxCountAssumption == MaxCount \in Nat

VARIABLE pool

Init == pool = EmptyPool

Allocate(o, n) ==
    /\ CanAllocate(pool, o, n)
    /\ \E s \in Popped(pool, n) : pool' = Grant(pool, o, s)

Extend(o, n) ==
    /\ CanExtend(pool, o, n)
    /\ \E s \in Popped(pool, n) : pool' = Grant(pool, o, s)

\* Every list of blocks attach can be called with and accept: one that is longer
\* than the pool names a block twice and is refused.
BlockLists == UNION {[1 .. k -> Block] : k \in 1 .. NumBlocks}

\* attach: o becomes an owner of the live blocks s, whoever holds them.  They may be
\* a prefix of one request's table, one radix block, the blocks of an exact entry, or
\* a radix path, whose nodes have an owner each.
Share(o, s) ==
    /\ CanAttach(pool, o, s)
    /\ pool' = Attach(pool, o, s)

CopyOnWrite(o, i) ==
    /\ CanReplace(pool, o, i)
    /\ \E s \in Popped(pool, 1) : pool' = Replace(pool, o, i, s[1])

Free(o) ==
    /\ pool.owns[o] # << >>
    /\ pool' = Release(pool, o)

Next ==
    \E o \in Owner :
        \/ \E n \in 1 .. MaxCount : Allocate(o, n)
        \/ \E n \in 1 .. MaxCount : Extend(o, n)
        \/ \E s \in BlockLists : Share(o, s)
        \/ \E i \in 1 .. Len(pool.owns[o]) : CopyOnWrite(o, i)
        \/ Free(o)

Spec == Init /\ [][Next]_pool

-----------------------------------------------------------------------------
TypeOK == pool \in Pool

(***************************************************************************)
(* The counters are never recomputed: allocate overwrites them with 1,     *)
(* attach and release step them, replace_shared steps two of them.  Every  *)
(* counter must still equal the number of owners whose table names the     *)
(* block.                                                                  *)
(***************************************************************************)
RefcountsExact == RefsCountHolders(pool)

(***************************************************************************)
(* The free list holds exactly the blocks nobody names: otherwise release  *)
(* has freed a page another request is still reading, or a page is lost    *)
(* for ever.                                                               *)
(***************************************************************************)
FreeIsUnheld == FreeHasNoHolder(pool)

(***************************************************************************)
(* No table names one physical block twice: two logical positions of one   *)
(* request would overwrite each other's keys and values.                   *)
(***************************************************************************)
TablesInjective == NoDuplicates(pool)

(***************************************************************************)
(* The books of the allocator balance after any sequence of calls: exact   *)
(* counters, a free list of exactly the unheld blocks, tables without      *)
(* repetition.                                                             *)
(***************************************************************************)
PoolConsistent == TypeOK /\ RefcountsExact /\ FreeIsUnheld /\ TablesInjective

(***************************************************************************)
(* The counters and the free list implement plain page ownership: pages    *)
(* are handed out only while nobody holds them, release returns exactly    *)
(* the pages whose last holder leaves, and copy-on-write moves only the    *)
(* caller off a page that somebody else keeps.                             *)
(***************************************************************************)
Ownership == INSTANCE PageOwnership WITH owns <- pool.owns

ImplementsOwnership == Ownership!Spec

=============================================================================
