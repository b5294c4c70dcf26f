------------------------------ MODULE BlockPool ------------------------------
(***************************************************************************)
(* The refcounted physical-block pool of src/engine/cache/allocator.py     *)
(* (class BlockAllocator), as operators on a pool record:                  *)
(*                                                                         *)
(*   free   the blocks of _free_blocks (the list is always sorted, so the  *)
(*          set loses nothing: pop() takes its largest element),           *)
(*   owns   _allocations: every owner's blocks in logical order; an owner  *)
(*          that is not a key of the dictionary has the empty sequence     *)
(*          (allocate and attach refuse an empty allocation),              *)
(*   refs   _refcounts, the incrementally maintained counters.             *)
(*                                                                         *)
(* Each method is a predicate that says when the call returns normally     *)
(* (Can...) and an operator that gives the pool it leaves behind.          *)
(***************************************************************************)
EXTENDS Integers, Sequences, FiniteSets

CONSTANTS Owner,     \* request ids and the prefix cache's owners
          NumBlocks  \* num_blocks

ASSUME PoolAssumption == /\ IsFiniteSet(Owner)
                         /\ NumBlocks \in Nat \ {0}

Block == 0 .. NumBlocks - 1

Pool == [free : SUBSET Block,
         owns : [Owner -> Seq(Block)],
         refs : [Block -> Nat]]

EmptyPool == [free |-> Block,
              owns |-> [o \in Owner |-> << >>],
              refs |-> [b \in Block |-> 0]]

Holds(p, o, b) == \E i \in 1 .. Len(p.owns[o]) : p.owns[o][i] = b

Holders(p, b) == {o \in Owner : Holds(p, o, b)}

(***************************************************************************)
(* n pops from the end of the sorted free list: the n largest free blocks, *)
(* largest first.  There is exactly one such sequence when n blocks are    *)
(* free and none otherwise.                                                *)
(***************************************************************************)
Popped(p, n) ==
    {s \in [1 .. n -> p.free] :
        /\ \A i, j \in 1 .. n : i < j => s[i] > s[j]
        /\ \A b \in p.free :
              (\A i \in 1 .. n : s[i] # b) => \A i \in 1 .. n : s[i] > b}

\* The blocks s leave the free list with one reference, and o's allocation
\* grows by them.  With an empty allocation this is allocate, otherwise extend.
Grant(p, o, s) ==
    [free |-> p.free \ {s[i] : i \in 1 .. Len(s)},
     owns |-> [p.owns EXCEPT ![o] = @ \o s],
     refs |-> [b \in Block |->
                 IF \E i \in 1 .. Len(s) : s[i] = b THEN 1 ELSE p.refs[b]]]

CanAllocate(p, o, n) == n > 0 /\ p.owns[o] = << >> /\ n <= Cardinality(p.free)

CanExtend(p, o, n) == n > 0 /\ p.owns[o] # << >> /\ n <= Cardinality(p.free)

\* attach refuses an owner that exists, a repeated block and a dead block.
CanAttach(p, o, s) ==
    /\ p.owns[o] = << >>
    /\ s # << >>
    /\ \A i, j \in 1 .. Len(s) : i # j => s[i] # s[j]
    /\ \A i \in 1 .. Len(s) : p.refs[s[i]] # 0

\* Mutant: the new owner is recorded and its references are not counted.
AttachUncounted(p, o, s) == [p EXCEPT !.owns = [@ EXCEPT ![o] = s]]

Attach(p, o, s) ==
    [free |-> p.free,
     owns |-> [p.owns EXCEPT ![o] = s],
     refs |-> [b \in Block |->
                 IF \E i \in 1 .. Len(s) : s[i] = b THEN p.refs[b] + 1
                                                 ELSE p.refs[b]]]

\* Mutant: every block of o is freed, shared or not.
ReleaseFreesShared(p, o) ==
    [free |-> p.free \cup {b \in Block : Holds(p, o, b)},
     owns |-> [p.owns EXCEPT ![o] = << >>],
     refs |-> [b \in Block |->
                 IF Holds(p, o, b) THEN p.refs[b] - 1 ELSE p.refs[b]]]

\* Drop one reference per block of o; the ones that reach zero are free again.
Release(p, o) ==
    [free |-> p.free \cup {b \in Block : Holds(p, o, b) /\ p.refs[b] = 1},
     owns |-> [p.owns EXCEPT ![o] = << >>],
     refs |-> [b \in Block |->
                 IF Holds(p, o, b) THEN p.refs[b] - 1 ELSE p.refs[b]]]

\* Mutant: copy-on-write of a block with one reference.
CanReplacePrivate(p, o, i) == i \in 1 .. Len(p.owns[o])

\* replace_shared(o, i): o's slot i moves from a shared block to the private b.
CanReplace(p, o, i) == i \in 1 .. Len(p.owns[o]) /\ p.refs[p.owns[o][i]] > 1

Replace(p, o, i, b) ==
    [free |-> p.free \ {b},
     owns |-> [p.owns EXCEPT ![o] = [@ EXCEPT ![i] = b]],
     refs |-> [p.refs EXCEPT ![b] = 1, ![p.owns[o][i]] = @ - 1]]

-----------------------------------------------------------------------------
\* What it means for the incrementally kept fields to agree with the tables.
RefsCountHolders(p) == \A b \in Block : p.refs[b] = Cardinality(Holders(p, b))

FreeHasNoHolder(p) == \A b \in Block : b \in p.free <=> Holders(p, b) = {}

NoDuplicates(p) ==
    \A o \in Owner : \A i, j \in 1 .. Len(p.owns[o]) :
        p.owns[o][i] = p.owns[o][j] => i = j

Consistent(p) == /\ p \in Pool
                 /\ RefsCountHolders(p)
                 /\ FreeHasNoHolder(p)
                 /\ NoDuplicates(p)

=============================================================================
