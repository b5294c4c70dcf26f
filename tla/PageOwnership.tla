---------------------------- MODULE PageOwnership ----------------------------
(***************************************************************************)
(* What the block allocator promises, without counters or a free list:     *)
(* owners hold sequences of pages; a page is available exactly when nobody *)
(* holds it; an owner acquires only available pages, shares only pages     *)
(* that are held (by one owner or by several), and trades a page away only *)
(* while someone else keeps it.  BlockAllocator implements this            *)
(* specification.                                                          *)
(***************************************************************************)
EXTENDS Integers, Sequences

CONSTANTS Owner, NumBlocks, MaxCount

Block == 0 .. NumBlocks - 1

VARIABLE owns

HeldBy(o, b) == \E i \in 1 .. Len(owns[o]) : owns[o][i] = b

Available == {b \in Block : \A o \in Owner : ~HeldBy(o, b)}

Distinct(s) == \A i, j \in 1 .. Len(s) : s[i] = s[j] => i = j

Init == owns = [o \in Owner |-> << >>]

Acquire(o, s) ==
    /\ Distinct(s)
    /\ owns' = [owns EXCEPT ![o] = @ \o s]

\* The pages of s, which Next takes from the held ones, gain an owner.  (A list of
\* more than NumBlocks pages is not Distinct.)
Share(o, s) ==
    /\ owns[o] = << >>
    /\ Distinct(s)
    /\ owns' = [owns EXCEPT ![o] = s]

Trade(o, i, b) ==
    /\ \E q \in Owner \ {o} : HeldBy(q, owns[o][i])
    /\ owns' = [owns EXCEPT ![o] = [@ EXCEPT ![i] = b]]

Drop(o) == owns' = [owns EXCEPT ![o] = << >>]

Next ==
    \E o \in Owner :
        \/ \E n \in 1 .. MaxCount : \E s \in [1 .. n -> Available] : Acquire(o, s)
        \/ \E n \in 1 .. NumBlocks :
               \E s \in [1 .. n -> Block \ Available] : Share(o, s)
        \/ \E i \in 1 .. Len(owns[o]), b \in Available : Trade(o, i, b)
        \/ Drop(o)

Spec == Init /\ [][Next]_owns

=============================================================================
