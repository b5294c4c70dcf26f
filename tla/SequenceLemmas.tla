--------------------------- MODULE SequenceLemmas ---------------------------
(***************************************************************************)
(* What the list operations of the model compute, for every input.         *)
(*                                                                         *)
(* The library's induction principles take a predicate as a parameter.     *)
(* Here a predicate is the set of the numbers that satisfy it: induction   *)
(* then follows from the well-foundedness of < on Nat, and a function      *)
(* defined by recursion on 0 .. n exists because each of its initial       *)
(* pieces does.                                                            *)
(***************************************************************************)
EXTENDS Filters, SequencesExt, SequenceTheorems, FiniteSetTheorems,
        WellFoundedInduction, TLAPS

\* Induction on the natural numbers, for a set.
LEMMA SetInduction ==
    ASSUME NEW T, 0 \in T, \A k \in Nat : k \in T => k + 1 \in T
    PROVE  \A k \in Nat : k \in T
  <1> SUFFICES ASSUME NEW k \in Nat, k \notin T PROVE FALSE
    OBVIOUS
  <1> DEFINE B == {n \in Nat : n \notin T}
  <1>1. IsWellFoundedOn(OpToRel(<, Nat), Nat)
    BY NatLessThanWellFounded
  <1>2. B \subseteq Nat /\ B # {}
    OBVIOUS
  <1>3. \E x \in B : \A y \in B : ~(<<y, x>> \in OpToRel(<, Nat))
    <2> HIDE DEF B
    <2> QED BY <1>1, <1>2, WFMin
  <1>4. PICK x \in B : \A y \in B : ~(<<y, x>> \in OpToRel(<, Nat))
    BY <1>3
  <1>5. \A y \in B : ~(y < x)
    BY <1>4 DEF OpToRel
  <1>6. x # 0
    OBVIOUS
  <1>7. x - 1 \in Nat /\ x - 1 < x /\ (x - 1) + 1 = x
    BY <1>6
  <1>8. x - 1 \in T
    BY <1>5, <1>7
  <1> QED BY <1>7, <1>8

\* Induction up to a bound.
LEMMA BoundedInduction ==
    ASSUME NEW n \in Nat, NEW T, 0 \in T,
           \A k \in 0 .. n - 1 : k \in T => k + 1 \in T
    PROVE  \A k \in 0 .. n : k \in T
  <1> DEFINE U == {k \in Nat : k <= n => k \in T}
  <1>1. 0 \in U
    OBVIOUS
  <1>2. \A k \in Nat : k \in U => k + 1 \in U
    OBVIOUS
  <1>3. \A k \in Nat : k \in U
    <2> HIDE DEF U
    <2> QED BY <1>1, <1>2, SetInduction
  <1> QED BY <1>3

\* h is the recursion from c with the steps G: G[i] takes h[i - 1] to h[i].
Recursion(h, n, S, c, G) ==
    /\ h \in [0 .. n -> S]
    /\ h[0] = c
    /\ \A i \in 1 .. n : h[i] = G[i][h[i - 1]]

LEMMA RecursionExists ==
    ASSUME NEW n \in Nat, NEW S, NEW c \in S, NEW G \in [1 .. n -> [S -> S]]
    PROVE  \E h : Recursion(h, n, S, c, G)
  <1> DEFINE Ok(k) == \E h \in [0 .. k -> S] :
                         h[0] = c /\ \A i \in 1 .. k : h[i] = G[i][h[i - 1]]
             T == {k \in Nat : k <= n => Ok(k)}
  <1>1. 0 \in T
    <2>1. [i \in 0 .. 0 |-> c] \in [0 .. 0 -> S] /\ [i \in 0 .. 0 |-> c][0] = c
      OBVIOUS
    <2>2. \A i \in 1 .. 0 :
             [j \in 0 .. 0 |-> c][i] = G[i][[j \in 0 .. 0 |-> c][i - 1]]
      OBVIOUS
    <2>3. Ok(0)
      BY <2>1, <2>2
    <2> QED BY <2>3
  <1>2. ASSUME NEW k \in Nat, k \in T PROVE k + 1 \in T
    <2> SUFFICES ASSUME k + 1 <= n PROVE Ok(k + 1)
      OBVIOUS
    <2>1. PICK h \in [0 .. k -> S] :
             h[0] = c /\ \A i \in 1 .. k : h[i] = G[i][h[i - 1]]
      BY <1>2
    <2> DEFINE g == [i \in 0 .. k + 1 |-> IF i <= k THEN h[i] ELSE G[k + 1][h[k]]]
    <2>2. G[k + 1] \in [S -> S] /\ h[k] \in S
      OBVIOUS
    <2>3. g \in [0 .. k + 1 -> S]
      BY <2>2
    <2>4. g[0] = c
      BY <2>1
    <2>5. ASSUME NEW i \in 1 .. k + 1 PROVE g[i] = G[i][g[i - 1]]
      <3>1. CASE i <= k
        BY <3>1, <2>1
      <3>2. CASE i = k + 1
        BY <3>2, <2>1
      <3> QED BY <3>1, <3>2
    <2> QED BY <2>3, <2>4, <2>5
  <1> HIDE DEF T
  <1>3. n \in T
    BY <1>1, <1>2, SetInduction
  <1>4. Ok(n)
    BY <1>3 DEF T
  <1> QED BY <1>4 DEF Recursion

-----------------------------------------------------------------------------
(* Keep and Without. *)

KeepStep(f, s, T, i) == IF s[i] \in T THEN Append(f[i - 1], s[i]) ELSE f[i - 1]

\* f[i] is what Keep makes of the first i elements of s.
KeepRun(f, s, S, T) ==
    /\ f \in [0 .. Len(s) -> Seq(S)]
    /\ f[0] = << >>
    /\ \A i \in 1 .. Len(s) : f[i] = KeepStep(f, s, T, i)
    /\ Keep(s, T) = f[Len(s)]

LEMMA KeepRuns ==
    ASSUME NEW S, NEW s \in Seq(S), NEW T
    PROVE  \E f : KeepRun(f, s, S, T)
  <1> DEFINE n == Len(s)
             G == [i \in 1 .. n |-> [x \in Seq(S) |->
                     IF s[i] \in T THEN Append(x, s[i]) ELSE x]]
             step(f) == [i \in 0 .. n |-> IF i = 0 THEN << >> ELSE KeepStep(f, s, T, i)]
             k == CHOOSE f : f = step(f)
  <1>0. Keep(s, T) = k[n]
    BY DEF Keep, KeepStep
  <1>1. n \in Nat /\ << >> \in Seq(S) /\ \A i \in 1 .. n : s[i] \in S
    OBVIOUS
  <1> HIDE DEF n
  <1>2. \A i \in 1 .. n : \A x \in Seq(S) :
           (IF s[i] \in T THEN Append(x, s[i]) ELSE x) \in Seq(S)
    BY <1>1
  <1>3. G \in [1 .. n -> [Seq(S) -> Seq(S)]]
    BY <1>2
  <1>4. \A i \in 1 .. n : \A x \in Seq(S) :
           G[i][x] = IF s[i] \in T THEN Append(x, s[i]) ELSE x
    OBVIOUS
  <1> HIDE DEF G
  <1>5. PICK h : Recursion(h, n, Seq(S), << >>, G)
    BY <1>1, <1>3, RecursionExists
  <1>6. h \in [0 .. n -> Seq(S)] /\ h[0] = << >> /\ \A i \in 1 .. n : h[i] = KeepStep(h, s, T, i)
    <2>1. h \in [0 .. n -> Seq(S)] /\ h[0] = << >> /\ \A i \in 1 .. n : h[i] = G[i][h[i - 1]]
      BY <1>5 DEF Recursion
    <2>2. ASSUME NEW i \in 1 .. n PROVE h[i] = KeepStep(h, s, T, i)
      <3>1. i - 1 \in 0 .. n
        BY <1>1
      <3>2. h[i - 1] \in Seq(S)
        BY <3>1, <2>1
      <3> QED BY <2>1, <3>2, <1>4 DEF KeepStep
    <2> QED BY <2>1, <2>2
  <1>7. h = step(h)
    <2>1. \A i \in 0 .. n : h[i] = IF i = 0 THEN << >> ELSE KeepStep(h, s, T, i)
      BY <1>1, <1>6
    <2> QED BY <2>1, <1>6
  <1>8. k = step(k)
    BY <1>7
  <1> HIDE DEF k
  <1>9. k[0] = << >> /\ \A i \in 1 .. n : k[i] = KeepStep(k, s, T, i)
    <2>1. \A i \in 0 .. n : k[i] = IF i = 0 THEN << >> ELSE KeepStep(k, s, T, i)
      BY <1>8
    <2> QED BY <2>1, <1>1
  <1>10. \A i \in 0 .. n : k[i] \in Seq(S)
    <2> DEFINE U == {i \in 0 .. n : k[i] \in Seq(S)}
    <2>1. 0 \in U
      <3>1. 0 \in 0 .. n
        BY <1>1
      <3> QED BY <1>1, <1>9, <3>1
    <2>2. ASSUME NEW i \in 0 .. n - 1, i \in U PROVE i + 1 \in U
      <3>1. i + 1 \in 1 .. n /\ i + 1 \in 0 .. n /\ (i + 1) - 1 = i
        BY <1>1
      <3>2. k[i + 1] = IF s[i + 1] \in T THEN Append(k[i], s[i + 1]) ELSE k[i]
        BY <3>1, <1>9 DEF KeepStep
      <3>3. k[i] \in Seq(S) /\ s[i + 1] \in S
        BY <2>2, <3>1, <1>1
      <3>4. k[i + 1] \in Seq(S)
        BY <3>2, <3>3
      <3> QED BY <3>1, <3>4
    <2>3. \A i \in 0 .. n - 1 : i \in U => i + 1 \in U
      BY <2>2
    <2> HIDE DEF U
    <2>4. \A i \in 0 .. n : i \in U
      BY <1>1, <2>1, <2>3, BoundedInduction
    <2> QED BY <2>4 DEF U
  <1>11. k \in [0 .. n -> Seq(S)]
    BY <1>8, <1>10
  <1> QED BY <1>0, <1>9, <1>11 DEF n, KeepRun

\* k is s restricted to the positions g[1] < g[2] < ..., which are all those
\* that hold an element of T.
KeptAt(k, g, s, n, T) ==
    /\ g \in [1 .. Len(k) -> 1 .. n]
    /\ \A i, j \in 1 .. Len(k) : i < j => g[i] < g[j]
    /\ \A i \in 1 .. Len(k) : k[i] = s[g[i]] /\ s[g[i]] \in T
    /\ \A j \in 1 .. n : s[j] \in T => \E i \in 1 .. Len(k) : g[i] = j

LEMMA KeepPositions ==
    ASSUME NEW S, NEW s \in Seq(S), NEW T
    PROVE  /\ Keep(s, T) \in Seq(S)
           /\ \E g : KeptAt(Keep(s, T), g, s, Len(s), T)
  <1>1. PICK f : KeepRun(f, s, S, T)
    BY KeepRuns
  <1> DEFINE U == {n \in 0 .. Len(s) : \E g : KeptAt(f[n], g, s, n, T)}
  <1>2. /\ Len(s) \in Nat
        /\ f \in [0 .. Len(s) -> Seq(S)] /\ f[0] = << >> /\ Keep(s, T) = f[Len(s)]
        /\ \A i \in 1 .. Len(s) :
              f[i] = IF s[i] \in T THEN Append(f[i - 1], s[i]) ELSE f[i - 1]
    BY <1>1 DEF KeepRun, KeepStep
  <1>3. 0 \in U
    <2> DEFINE g == [i \in 1 .. 0 |-> 0]
    <2>1. f[0] = << >> /\ Len(f[0]) = 0 /\ 1 .. 0 = {}
      BY <1>2
    <2>2. KeptAt(<< >>, g, s, 0, T)
      BY <2>1 DEF KeptAt
    <2>3. KeptAt(f[0], g, s, 0, T)
      BY <2>1, <2>2
    <2> QED BY <2>3, <1>2
  <1>4. ASSUME NEW n \in 0 .. Len(s) - 1, n \in U PROVE n + 1 \in U
    <2>1. PICK g : KeptAt(f[n], g, s, n, T)
      BY <1>4
    <2> DEFINE m == Len(f[n])
    <2>2. n + 1 \in 1 .. Len(s) /\ n + 1 \in 0 .. Len(s) /\ (n + 1) - 1 = n /\ n \in Nat
      BY <1>2
    <2>3. f[n] \in Seq(S) /\ m \in Nat /\ s[n + 1] \in S
      <3>1. n \in 0 .. Len(s)
        BY <1>2
      <3>2. f[n] \in Seq(S)
        BY <3>1, <1>2
      <3>3. s[n + 1] \in S
        BY <2>2
      <3> QED BY <3>2, <3>3
    <2>4. f[n + 1] = IF s[n + 1] \in T THEN Append(f[n], s[n + 1]) ELSE f[n]
      <3>1. f[n + 1] = KeepStep(f, s, T, n + 1)
        BY <2>2, <1>1 DEF KeepRun
      <3> QED BY <2>2, <3>1 DEF KeepStep
    <2>5. /\ g \in [1 .. m -> 1 .. n]
          /\ \A i, j \in 1 .. m : i < j => g[i] < g[j]
          /\ \A i \in 1 .. m : f[n][i] = s[g[i]] /\ s[g[i]] \in T
          /\ \A j \in 1 .. n : s[j] \in T => \E i \in 1 .. m : g[i] = j
      BY <2>1 DEF KeptAt
    <2>6. CASE s[n + 1] \notin T
      <3>1. f[n + 1] = f[n]
        BY <2>4, <2>6
      <3> HIDE DEF m
      <3>2. g \in [1 .. m -> 1 .. n + 1]
        BY <2>2, <2>3, <2>5
      <3>3. \A j \in 1 .. n + 1 : s[j] \in T => \E i \in 1 .. m : g[i] = j
        BY <2>2, <2>5, <2>6
      <3>4. KeptAt(f[n + 1], g, s, n + 1, T)
        BY <3>1, <3>2, <3>3, <2>5 DEF KeptAt, m
      <3> QED BY <3>4, <2>2
    <2>7. CASE s[n + 1] \in T
      <3> DEFINE h == [i \in 1 .. m + 1 |-> IF i = m + 1 THEN n + 1 ELSE g[i]]
      <3>1. /\ Len(f[n + 1]) = m + 1
            /\ f[n + 1][m + 1] = s[n + 1]
            /\ \A i \in 1 .. m : f[n + 1][i] = f[n][i]
        BY <2>3, <2>4, <2>7
      <3> HIDE DEF m
      <3>2. \A i \in 1 .. m : i \in 1 .. m + 1 /\ i # m + 1 /\ g[i] \in 1 .. n
        BY <2>3, <2>5
      <3>3. \A i \in 1 .. m + 1 : i = m + 1 \/ i \in 1 .. m
        BY <2>3
      <3>4. m + 1 \in 1 .. m + 1
        BY <2>3
      <3>5. h[m + 1] = n + 1 /\ \A i \in 1 .. m : h[i] = g[i]
        BY <3>2, <3>4
      <3>6. h \in [1 .. m + 1 -> 1 .. n + 1]
        BY <3>2, <3>3, <2>2
      <3> HIDE DEF h
      <3>7. ASSUME NEW i \in 1 .. m + 1, NEW j \in 1 .. m + 1, i < j
            PROVE  h[i] < h[j]
        <4>1. i \in 1 .. m
          BY <3>7, <2>3
        <4>2. CASE j = m + 1
          BY <4>1, <4>2, <3>2, <3>5, <2>2
        <4>3. CASE j \in 1 .. m
          BY <4>1, <4>3, <3>5, <3>7, <2>5
        <4> QED BY <4>2, <4>3, <3>3
      <3>8. ASSUME NEW i \in 1 .. m + 1
            PROVE  f[n + 1][i] = s[h[i]] /\ s[h[i]] \in T
        <4>1. CASE i = m + 1
          BY <4>1, <3>1, <3>5, <2>7
        <4>2. CASE i \in 1 .. m
          BY <4>2, <3>1, <3>5, <2>5
        <4> QED BY <4>1, <4>2, <3>3
      <3>9. ASSUME NEW j \in 1 .. n + 1, s[j] \in T
            PROVE  \E i \in 1 .. m + 1 : h[i] = j
        <4>1. CASE j = n + 1
          BY <4>1, <3>4, <3>5
        <4>2. CASE j \in 1 .. n
          <5>1. PICK i \in 1 .. m : g[i] = j
            BY <4>2, <3>9, <2>5
          <5> QED BY <5>1, <3>2, <3>5
        <4> QED BY <4>1, <4>2, <2>2
      <3>10. KeptAt(f[n + 1], h, s, n + 1, T)
        BY <3>1, <3>6, <3>7, <3>8, <3>9 DEF KeptAt
      <3> QED BY <3>10, <2>2
    <2> QED BY <2>6, <2>7
  <1>5. \A n \in 0 .. Len(s) - 1 : n \in U => n + 1 \in U
    BY <1>4
  <1>6. Len(s) \in U
    <2> HIDE DEF U
    <2>1. \A n \in 0 .. Len(s) : n \in U
      BY <1>2, <1>3, <1>5, BoundedInduction
    <2> QED BY <1>2, <2>1
  <1>7. f[Len(s)] \in Seq(S)
    BY <1>2
  <1> QED BY <1>2, <1>6, <1>7

\* The elements of a sequence are those at 1 .. Len.
LEMMA ToSetIndexed ==
    ASSUME NEW S, NEW s \in Seq(S)
    PROVE  /\ \A x : x \in ToSet(s) <=> \E i \in 1 .. Len(s) : s[i] = x
           /\ IsInjective(s) <=> \A i, j \in 1 .. Len(s) : s[i] = s[j] => i = j
           /\ Len(s) \in Nat
           /\ \A i \in 1 .. Len(s) : s[i] \in S
           /\ ToSet(s) \subseteq S
  BY DEF ToSet, IsInjective

\* Keep(s, T) has the elements of s that are in T, each as often as before
\* and in the order of s.
LEMMA KeepProperties ==
    ASSUME NEW S, NEW s \in Seq(S), NEW T
    PROVE  /\ Keep(s, T) \in Seq(S)
           /\ ToSet(Keep(s, T)) = ToSet(s) \cap T
           /\ IsInjective(s) => IsInjective(Keep(s, T))
           /\ \A i, j \in 1 .. Len(Keep(s, T)) : i < j =>
                 \E a, b \in 1 .. Len(s) :
                    a < b /\ s[a] = Keep(s, T)[i] /\ s[b] = Keep(s, T)[j]
  <1> DEFINE k == Keep(s, T)
  <1>1. k \in Seq(S) /\ \E g : KeptAt(k, g, s, Len(s), T)
    BY KeepPositions
  <1> HIDE DEF k
  <1>2. PICK g : KeptAt(k, g, s, Len(s), T)
    BY <1>1
  <1>3. /\ g \in [1 .. Len(k) -> 1 .. Len(s)]
        /\ \A i, j \in 1 .. Len(k) : i < j => g[i] < g[j]
        /\ \A i \in 1 .. Len(k) : k[i] = s[g[i]] /\ s[g[i]] \in T
        /\ \A j \in 1 .. Len(s) : s[j] \in T => \E i \in 1 .. Len(k) : g[i] = j
    BY <1>2 DEF KeptAt
  <1>4. Len(k) \in Nat /\ Len(s) \in Nat
    BY <1>1
  <1>5. ToSet(k) = ToSet(s) \cap T
    <2>1. ASSUME NEW x \in ToSet(k) PROVE x \in ToSet(s) \cap T
      <3>1. PICK i \in 1 .. Len(k) : k[i] = x
        BY <2>1, <1>1, ToSetIndexed
      <3>2. g[i] \in 1 .. Len(s) /\ s[g[i]] = x /\ x \in T
        BY <3>1, <1>3
      <3> QED BY <3>2, ToSetIndexed
    <2>2. ASSUME NEW x \in ToSet(s), x \in T PROVE x \in ToSet(k)
      <3>1. PICK j \in 1 .. Len(s) : s[j] = x
        BY <2>2, ToSetIndexed
      <3>2. PICK i \in 1 .. Len(k) : g[i] = j
        BY <3>1, <2>2, <1>3
      <3>3. k[i] = x
        BY <3>1, <3>2, <1>3
      <3> QED BY <3>2, <3>3, <1>1, ToSetIndexed
    <2> QED BY <2>1, <2>2
  <1>6. ASSUME IsInjective(s) PROVE IsInjective(k)
    <2> SUFFICES ASSUME NEW i \in 1 .. Len(k), NEW j \in 1 .. Len(k), k[i] = k[j]
                 PROVE  i = j
      BY <1>1, ToSetIndexed
    <2>1. g[i] \in 1 .. Len(s) /\ g[j] \in 1 .. Len(s) /\ s[g[i]] = s[g[j]]
      BY <1>3
    <2>2. g[i] = g[j]
      BY <2>1, <1>6, ToSetIndexed
    <2>3. ~(i < j) /\ ~(j < i)
      BY <2>1, <2>2, <1>3, <1>4
    <2> QED BY <2>3, <1>4
  <1>7. ASSUME NEW i \in 1 .. Len(k), NEW j \in 1 .. Len(k), i < j
        PROVE  \E a, b \in 1 .. Len(s) : a < b /\ s[a] = k[i] /\ s[b] = k[j]
    <2>1. g[i] \in 1 .. Len(s) /\ g[j] \in 1 .. Len(s) /\ g[i] < g[j]
      BY <1>3, <1>7
    <2> QED BY <2>1, <1>3
  <1> QED BY <1>1, <1>5, <1>6, <1>7 DEF k

LEMMA WithoutProperties ==
    ASSUME NEW S, NEW s \in Seq(S), NEW e
    PROVE  /\ Without(s, e) \in Seq(S)
           /\ ToSet(Without(s, e)) = ToSet(s) \ {e}
           /\ IsInjective(s) => IsInjective(Without(s, e))
           /\ \A i, j \in 1 .. Len(Without(s, e)) : i < j =>
                 \E a, b \in 1 .. Len(s) :
                    a < b /\ s[a] = Without(s, e)[i] /\ s[b] = Without(s, e)[j]
  <1> DEFINE T == {s[i] : i \in 1 .. Len(s)} \ {e}
  <1>1. T = ToSet(s) \ {e}
    BY DEF ToSet
  <1>2. Without(s, e) = Keep(s, T)
    BY DEF Without
  <1> HIDE DEF T
  <1>3. ToSet(s) \cap T = ToSet(s) \ {e}
    BY <1>1
  <1> QED BY <1>2, <1>3, KeepProperties

-----------------------------------------------------------------------------
(* Adding to and taking from a list without repetitions. *)

LEMMA AppendSet ==
    ASSUME NEW S, NEW s \in Seq(S), NEW e \in S
    PROVE  /\ Append(s, e) \in Seq(S)
           /\ ToSet(Append(s, e)) = ToSet(s) \cup {e}
           /\ IsInjective(s) /\ e \notin ToSet(s) => IsInjective(Append(s, e))
  <1> DEFINE t == Append(s, e)
  <1>1. /\ t \in Seq(S) /\ Len(t) = Len(s) + 1 /\ t[Len(s) + 1] = e /\ Len(s) \in Nat
        /\ \A i \in 1 .. Len(s) : t[i] = s[i]
    OBVIOUS
  <1> HIDE DEF t
  <1>2. \A i \in 1 .. Len(t) : i \in 1 .. Len(s) \/ i = Len(s) + 1
    BY <1>1
  <1>3. Len(s) + 1 \in 1 .. Len(t) /\ \A i \in 1 .. Len(s) : i \in 1 .. Len(t)
    BY <1>1
  <1>4. ToSet(t) = ToSet(s) \cup {e}
    <2>1. ASSUME NEW x \in ToSet(t) PROVE x \in ToSet(s) \cup {e}
      <3>1. PICK i \in 1 .. Len(t) : t[i] = x
        BY <1>1, ToSetIndexed
      <3> QED BY <3>1, <1>1, <1>2, ToSetIndexed
    <2>2. ASSUME NEW x \in ToSet(s) PROVE x \in ToSet(t)
      <3>1. PICK i \in 1 .. Len(s) : s[i] = x
        BY ToSetIndexed
      <3> QED BY <3>1, <1>1, <1>3, ToSetIndexed
    <2>3. e \in ToSet(t)
      BY <1>1, <1>3, ToSetIndexed
    <2> QED BY <2>1, <2>2, <2>3
  <1>5. ASSUME IsInjective(s), e \notin ToSet(s) PROVE IsInjective(t)
    <2> SUFFICES ASSUME NEW i \in 1 .. Len(t), NEW j \in 1 .. Len(t), t[i] = t[j]
                 PROVE  i = j
      BY <1>1, ToSetIndexed
    <2>1. \A k \in 1 .. Len(s) : s[k] # e
      BY <1>5, ToSetIndexed
    <2>2. CASE i \in 1 .. Len(s) /\ j \in 1 .. Len(s)
      BY <2>2, <1>1, <1>5, ToSetIndexed
    <2>3. CASE ~(i \in 1 .. Len(s) /\ j \in 1 .. Len(s))
      BY <2>1, <2>3, <1>1, <1>2
    <2> QED BY <2>2, <2>3
  <1> QED BY <1>1, <1>4, <1>5 DEF t

LEMMA TailSet ==
    ASSUME NEW S, NEW s \in Seq(S), s # << >>
    PROVE  /\ Head(s) \in S /\ Head(s) \in ToSet(s)
           /\ Tail(s) \in Seq(S)
           /\ ToSet(s) = ToSet(Tail(s)) \cup {Head(s)}
           /\ IsInjective(s) => Head(s) \notin ToSet(Tail(s)) /\ IsInjective(Tail(s))
  <1> DEFINE t == Tail(s)
  <1>1. /\ t \in Seq(S) /\ Len(t) = Len(s) - 1 /\ Len(s) \in Nat \ {0}
        /\ \A i \in 1 .. Len(t) : t[i] = s[i + 1]
        /\ Head(s) = s[1]
    BY HeadTailProperties
  <1> HIDE DEF t
  <1>2. /\ 1 \in 1 .. Len(s)
        /\ \A i \in 1 .. Len(t) : i + 1 \in 1 .. Len(s)
        /\ \A i \in 1 .. Len(s) : i = 1 \/ (i - 1 \in 1 .. Len(t) /\ (i - 1) + 1 = i)
    BY <1>1
  <1>3. Head(s) \in S /\ Head(s) \in ToSet(s)
    BY <1>1, <1>2, ToSetIndexed
  <1>4. ToSet(t) \subseteq ToSet(s)
    <2> SUFFICES ASSUME NEW x \in ToSet(t) PROVE x \in ToSet(s)
      OBVIOUS
    <2>1. PICK i \in 1 .. Len(t) : t[i] = x
      BY <1>1, ToSetIndexed
    <2> QED BY <2>1, <1>1, <1>2, ToSetIndexed
  <1>5. ToSet(s) \subseteq ToSet(t) \cup {Head(s)}
    <2> SUFFICES ASSUME NEW x \in ToSet(s), x # Head(s) PROVE x \in ToSet(t)
      OBVIOUS
    <2>1. PICK i \in 1 .. Len(s) : s[i] = x
      BY ToSetIndexed
    <2>2. i - 1 \in 1 .. Len(t) /\ (i - 1) + 1 = i
      BY <2>1, <1>1, <1>2
    <2>3. t[i - 1] = x
      BY <2>1, <2>2, <1>1
    <2> QED BY <2>2, <2>3, <1>1, ToSetIndexed
  <1>6. ASSUME IsInjective(s) PROVE Head(s) \notin ToSet(t) /\ IsInjective(t)
    <2>1. \A i, j \in 1 .. Len(s) : s[i] = s[j] => i = j
      BY <1>6, ToSetIndexed
    <2>2. Head(s) \notin ToSet(t)
      <3> SUFFICES ASSUME NEW i \in 1 .. Len(t), t[i] = Head(s) PROVE FALSE
        BY <1>1, ToSetIndexed
      <3>1. i + 1 = 1
        BY <2>1, <1>1, <1>2
      <3> QED BY <3>1, <1>1
    <2>3. \A i, j \in 1 .. Len(t) : t[i] = t[j] => i = j
      <3> SUFFICES ASSUME NEW i \in 1 .. Len(t), NEW j \in 1 .. Len(t), t[i] = t[j]
                   PROVE  i = j
        OBVIOUS
      <3>1. i + 1 = j + 1
        BY <2>1, <1>1, <1>2
      <3> QED BY <3>1, <1>1
    <2> QED BY <2>2, <2>3, <1>1, ToSetIndexed
  <1> QED BY <1>1, <1>3, <1>4, <1>5, <1>6 DEF t

\* InsertAt puts e before the old s[i].
LEMMA InsertIndexed ==
    ASSUME NEW S, NEW s \in Seq(S), NEW e \in S, NEW i \in 1 .. Len(s)
    PROVE  /\ InsertAt(s, i, e) \in Seq(S)
           /\ Len(InsertAt(s, i, e)) = Len(s) + 1
           /\ \A k \in 1 .. Len(s) + 1 :
                 InsertAt(s, i, e)[k] = IF k < i THEN s[k] ELSE IF k = i THEN e ELSE s[k - 1]
  <1> DEFINE a == SubSeq(s, 1, i - 1)
             b == SubSeq(s, i, Len(s))
  <1>1. Len(s) \in Nat /\ \A k \in 1 .. Len(s) : s[k] \in S
    OBVIOUS
  <1>2. /\ a \in Seq(S) /\ Len(a) = i - 1 /\ \A k \in 1 .. i - 1 : a[k] = s[k]
        /\ b \in Seq(S) /\ Len(b) = Len(s) - i + 1
        /\ \A k \in 1 .. Len(s) - i + 1 : b[k] = s[i + k - 1]
    BY <1>1
  <1>3. InsertAt(s, i, e) = (a \o <<e>>) \o b
    BY DEF InsertAt
  <1> HIDE DEF a, b
  <1>4. /\ a \o <<e>> \in Seq(S) /\ Len(a \o <<e>>) = i
        /\ (a \o <<e>>)[i] = e
        /\ \A k \in 1 .. i - 1 : (a \o <<e>>)[k] = s[k]
    <2>1. <<e>> \in Seq(S) /\ Len(<<e>>) = 1 /\ <<e>>[1] = e
      OBVIOUS
    <2> DEFINE u == <<e>>
    <2> HIDE DEF u
    <2>2. u \in Seq(S) /\ Len(u) = 1 /\ u[1] = e
      BY <2>1 DEF u
    <2>3. /\ a \o u \in Seq(S) /\ Len(a \o u) = Len(a) + Len(u)
          /\ \A k \in 1 .. Len(a) + Len(u) :
                (a \o u)[k] = IF k <= Len(a) THEN a[k] ELSE u[k - Len(a)]
      BY <1>2, <2>2, ConcatProperties
    <2>4. Len(a) + Len(u) = i /\ i \in 1 .. i /\ ~(i <= i - 1) /\ i - (i - 1) = 1
      BY <1>2, <2>2
    <2>5. (a \o u)[i] = e
      BY <2>2, <2>3, <2>4, <1>2
    <2>6. ASSUME NEW k \in 1 .. i - 1 PROVE (a \o u)[k] = s[k]
      <3>1. k \in 1 .. i /\ k <= i - 1
        OBVIOUS
      <3> QED BY <3>1, <2>3, <2>4, <1>2
    <2> QED BY <2>3, <2>4, <2>5, <2>6 DEF u
  <1> DEFINE c == a \o <<e>>
  <1> HIDE DEF c
  <1>5. /\ c \o b \in Seq(S) /\ Len(c \o b) = Len(s) + 1
        /\ \A k \in 1 .. Len(s) + 1 :
              (c \o b)[k] = IF k <= i THEN c[k] ELSE b[k - i]
    <2>1. c \in Seq(S) /\ Len(c) = i
      BY <1>4 DEF c
    <2>2. /\ c \o b \in Seq(S) /\ Len(c \o b) = Len(c) + Len(b)
          /\ \A k \in 1 .. Len(c) + Len(b) :
                (c \o b)[k] = IF k <= Len(c) THEN c[k] ELSE b[k - Len(c)]
      BY <1>2, <2>1, ConcatProperties
    <2>3. Len(c) + Len(b) = Len(s) + 1
      BY <1>1, <1>2, <2>1
    <2> QED BY <2>1, <2>2, <2>3
  <1>6. ASSUME NEW k \in 1 .. Len(s) + 1
        PROVE  (c \o b)[k] = IF k < i THEN s[k] ELSE IF k = i THEN e ELSE s[k - 1]
    <2>1. CASE k < i
      <3>1. k <= i /\ k \in 1 .. i - 1
        BY <2>1, <1>1
      <3> QED BY <2>1, <3>1, <1>4, <1>5 DEF c
    <2>2. CASE k = i
      BY <2>2, <1>1, <1>4, <1>5 DEF c
    <2>3. CASE k > i
      <3>1. ~(k <= i) /\ k - i \in 1 .. Len(s) - i + 1 /\ i + (k - i) - 1 = k - 1
        BY <2>3, <1>1
      <3>2. (c \o b)[k] = b[k - i]
        BY <3>1, <1>5
      <3>3. b[k - i] = s[k - 1]
        BY <3>1, <1>2
      <3>4. ~(k < i) /\ k # i
        BY <2>3
      <3> QED BY <3>2, <3>3, <3>4
    <2>4. k < i \/ k = i \/ k > i
      BY <1>1
    <2> QED BY <2>1, <2>2, <2>3, <2>4
  <1> QED BY <1>3, <1>5, <1>6 DEF c

LEMMA InsertSet ==
    ASSUME NEW S, NEW s \in Seq(S), NEW e \in S, NEW i \in 1 .. Len(s)
    PROVE  /\ ToSet(InsertAt(s, i, e)) = ToSet(s) \cup {e}
           /\ IsInjective(s) /\ e \notin ToSet(s) => IsInjective(InsertAt(s, i, e))
  <1> DEFINE t == InsertAt(s, i, e)
             n == Len(s)
  <1>1. /\ t \in Seq(S) /\ Len(t) = n + 1 /\ n \in Nat
        /\ \A k \in 1 .. n + 1 : t[k] = IF k < i THEN s[k] ELSE IF k = i THEN e ELSE s[k - 1]
    BY InsertIndexed
  <1> HIDE DEF t
  <1>2. \A j \in 1 .. n : s[j] \in ToSet(s) /\ s[j] \in S
    BY ToSetIndexed
  <1>3. \A x \in ToSet(s) : \E j \in 1 .. n : s[j] = x
    BY ToSetIndexed
  <1>4. IsInjective(s) => \A a, b \in 1 .. n : s[a] = s[b] => a = b
    BY ToSetIndexed
  <1>i. i \in 1 .. n
    OBVIOUS
  <1> HIDE DEF n
  <1>5. ASSUME NEW k \in 1 .. n + 1
        PROVE  /\ k < i => k \in 1 .. n /\ t[k] = s[k]
               /\ k = i => t[k] = e
               /\ k > i => k - 1 \in 1 .. n /\ t[k] = s[k - 1]
    <2>1. k < i => k \in 1 .. n
      BY <1>1, <1>i
    <2>2. k > i => k - 1 \in 1 .. n /\ ~(k < i) /\ k # i
      BY <1>1, <1>i
    <2>3. k = i => ~(k < i)
      BY <1>i
    <2>4. t[k] = IF k < i THEN s[k] ELSE IF k = i THEN e ELSE s[k - 1]
      BY <1>1
    <2>5. CASE k < i
      BY <2>1, <2>4, <2>5, <1>i
    <2>6. CASE k = i
      BY <2>3, <2>4, <2>6, <1>i
    <2>7. CASE k > i
      BY <2>2, <2>4, <2>7
    <2> QED BY <2>5, <2>6, <2>7
  <1>6. \A k \in 1 .. n + 1 : k < i \/ k = i \/ k > i
    BY <1>1, <1>i
  <1>7. ToSet(t) \subseteq ToSet(s) \cup {e}
    <2> SUFFICES ASSUME NEW x \in ToSet(t) PROVE x \in ToSet(s) \cup {e}
      OBVIOUS
    <2>1. PICK k \in 1 .. n + 1 : t[k] = x
      BY <1>1, ToSetIndexed
    <2> QED BY <2>1, <1>2, <1>5, <1>6
  <1>8. e \in ToSet(t)
    <2>1. i \in 1 .. n + 1
      BY <1>1, <1>i
    <2>2. t[i] = e
      BY <2>1, <1>5
    <2> QED BY <2>1, <2>2, <1>1, ToSetIndexed
  <1>9. ToSet(s) \subseteq ToSet(t)
    <2> SUFFICES ASSUME NEW x \in ToSet(s) PROVE x \in ToSet(t)
      OBVIOUS
    <2>1. PICK j \in 1 .. n : s[j] = x
      BY <1>3
    <2>2. CASE j < i
      <3>1. j \in 1 .. n + 1
        BY <1>1
      <3>2. t[j] = x
        BY <3>1, <2>1, <2>2, <1>5
      <3> QED BY <3>1, <3>2, <1>1, ToSetIndexed
    <2>3. CASE j >= i
      <3>1. j + 1 \in 1 .. n + 1 /\ j + 1 > i /\ (j + 1) - 1 = j
        BY <2>3, <1>1, <1>i
      <3>2. t[j + 1] = x
        BY <3>1, <2>1, <1>5
      <3> QED BY <3>1, <3>2, <1>1, ToSetIndexed
    <2> QED BY <2>2, <2>3, <1>i
  <1>10. ASSUME IsInjective(s), e \notin ToSet(s) PROVE IsInjective(t)
    <2> SUFFICES ASSUME NEW a \in 1 .. n + 1, NEW b \in 1 .. n + 1, t[a] = t[b]
                 PROVE  a = b
      BY <1>1, ToSetIndexed
    <2>1. \A j \in 1 .. n : s[j] # e
      BY <1>2, <1>10
    <2>2. \A x, y \in 1 .. n : s[x] = s[y] => x = y
      BY <1>4, <1>10
    <2>3. CASE a = i
      <3>1. t[a] = e
        BY <2>3, <1>5
      <3> QED BY <2>1, <2>3, <3>1, <1>5, <1>6
    <2>4. CASE b = i
      <3>1. t[b] = e
        BY <2>4, <1>5
      <3> QED BY <2>1, <2>4, <3>1, <1>5, <1>6
    <2>5. CASE a < i /\ b < i
      BY <2>2, <2>5, <1>5
    <2>6. CASE a > i /\ b > i
      <3>1. a - 1 = b - 1
        BY <2>2, <2>6, <1>5
      <3> QED BY <3>1
    <2>7. CASE a < i /\ b > i
      <3>1. a = b - 1
        BY <2>2, <2>7, <1>5
      <3> QED BY <3>1, <2>7, <1>i
    <2>8. CASE a > i /\ b < i
      <3>1. a - 1 = b
        BY <2>2, <2>8, <1>5
      <3> QED BY <3>1, <2>8, <1>i
    <2> QED BY <2>3, <2>4, <2>5, <2>6, <2>7, <2>8, <1>6
  <1> QED BY <1>7, <1>8, <1>9, <1>10 DEF t

\* Every non-empty set of numbers has a least one, and a bounded one a greatest.
LEMMA MinProperties ==
    ASSUME NEW T, T \subseteq Nat, T # {}
    PROVE  Min(T) \in T /\ \A x \in T : Min(T) <= x
  <1>1. \E x \in T : \A y \in T : ~(<<y, x>> \in OpToRel(<, Nat))
    BY WFMin, NatLessThanWellFounded
  <1>2. PICK x \in T : \A y \in T : ~(<<y, x>> \in OpToRel(<, Nat))
    BY <1>1
  <1>3. \A y \in T : ~(y < x)
    BY <1>2 DEF OpToRel
  <1>4. \A y \in T : x <= y
    BY <1>3
  <1> QED BY <1>4 DEF Min

LEMMA GreatestExists ==
    ASSUME NEW n \in Nat, NEW T, T \subseteq 0 .. n, T # {}
    PROVE  \E x \in T : \A y \in T : y <= x
  <1> DEFINE D == {n - x : x \in T}
  <1>1. D \subseteq Nat /\ D # {}
    <2>1. \A x \in T : n - x \in Nat
      OBVIOUS
    <2> QED BY <2>1
  <1> HIDE DEF D
  <1>2. Min(D) \in D /\ \A d \in D : Min(D) <= d
    BY <1>1, MinProperties
  <1>3. PICK x \in T : Min(D) = n - x
    BY <1>2 DEF D
  <1>4. \A y \in T : n - x <= n - y
    BY <1>2, <1>3 DEF D
  <1> QED BY <1>4

\* Moving the first v elements to the back.
LEMMA RotateSet ==
    ASSUME NEW S, NEW s \in Seq(S), NEW v \in 0 .. Len(s)
    PROVE  LET t == SubSeq(s, v + 1, Len(s)) \o SubSeq(s, 1, v)
           IN  /\ t \in Seq(S)
               /\ ToSet(t) = ToSet(s)
               /\ IsInjective(s) => IsInjective(t)
  <1> DEFINE n == Len(s)
             a == SubSeq(s, v + 1, n)
             b == SubSeq(s, 1, v)
             t == a \o b
             g(i) == IF i <= n - v THEN i + v ELSE i - (n - v)
  <1>1. n \in Nat /\ v \in 0 .. n /\ \A i \in 1 .. n : s[i] \in S
    OBVIOUS
  <1>2. /\ a \in Seq(S) /\ Len(a) = n - v /\ \A i \in 1 .. n - v : a[i] = s[i + v]
        /\ b \in Seq(S) /\ Len(b) = v /\ \A i \in 1 .. v : b[i] = s[i]
    BY <1>1
  <1> HIDE DEF a, b, n
  <1>3. /\ t \in Seq(S) /\ Len(t) = n
        /\ \A i \in 1 .. n : t[i] = IF i <= n - v THEN a[i] ELSE b[i - (n - v)]
    BY <1>1, <1>2
  <1> HIDE DEF t
  <1>4. \A i \in 1 .. n : g(i) \in 1 .. n /\ t[i] = s[g(i)]
    <2> SUFFICES ASSUME NEW i \in 1 .. n PROVE g(i) \in 1 .. n /\ t[i] = s[g(i)]
      OBVIOUS
    <2>1. CASE i <= n - v
      <3>1. i \in 1 .. n - v /\ i + v \in 1 .. n
        BY <2>1, <1>1
      <3> QED BY <3>1, <2>1, <1>2, <1>3
    <2>2. CASE ~(i <= n - v)
      <3>1. i - (n - v) \in 1 .. v /\ i - (n - v) \in 1 .. n
        BY <2>2, <1>1
      <3> QED BY <3>1, <2>2, <1>2, <1>3
    <2> QED BY <2>1, <2>2
  <1>5. \A i, j \in 1 .. n : g(i) = g(j) => i = j
    BY <1>1
  <1>6. \A k \in 1 .. n : \E i \in 1 .. n : g(i) = k
    <2> SUFFICES ASSUME NEW k \in 1 .. n PROVE \E i \in 1 .. n : g(i) = k
      OBVIOUS
    <2>1. CASE k > v
      <3>1. k - v \in 1 .. n /\ g(k - v) = k
        BY <2>1, <1>1
      <3> QED BY <3>1
    <2>2. CASE ~(k > v)
      <3>1. k + (n - v) \in 1 .. n /\ g(k + (n - v)) = k
        BY <2>2, <1>1
      <3> QED BY <3>1
    <2> QED BY <2>1, <2>2
  <1> HIDE DEF g
  <1>7. ToSet(t) = ToSet(s)
    <2>1. \A x : x \in ToSet(t) <=> \E i \in 1 .. n : t[i] = x
      BY <1>3, ToSetIndexed
    <2>2. \A x : x \in ToSet(s) <=> \E i \in 1 .. n : s[i] = x
      BY ToSetIndexed DEF n
    <2>3. \A x : (\E i \in 1 .. n : t[i] = x) <=> (\E i \in 1 .. n : s[i] = x)
      BY <1>4, <1>6
    <2> QED BY <2>1, <2>2, <2>3
  <1>8. IsInjective(s) => IsInjective(t)
    <2>1. IsInjective(s) => \A i, j \in 1 .. n : s[i] = s[j] => i = j
      BY ToSetIndexed DEF n
    <2>2. (\A i, j \in 1 .. n : t[i] = t[j] => i = j) => IsInjective(t)
      BY <1>3, ToSetIndexed
    <2> QED BY <2>1, <2>2, <1>4, <1>5
  <1> QED BY <1>3, <1>7, <1>8 DEF t, a, b, n

\* The least of three integers is one of them.
LEMMA LeastOfThree ==
    ASSUME NEW a \in Int, NEW b \in Int, NEW c \in Int
    PROVE  /\ Min({a, b, c}) \in {a, b, c}
           /\ Min({a, b, c}) <= a /\ Min({a, b, c}) <= b /\ Min({a, b, c}) <= c
  <1> DEFINE T == {a, b, c}
  <1>1. \E x \in T : \A y \in T : x <= y
    <2>1. CASE a <= b /\ a <= c
      BY <2>1
    <2>2. CASE b <= a /\ b <= c
      BY <2>2
    <2>3. CASE c <= a /\ c <= b
      BY <2>3
    <2> QED BY <2>1, <2>2, <2>3
  <1> HIDE DEF T
  <1>2. Min(T) \in T /\ \A y \in T : Min(T) <= y
    BY <1>1 DEF Min
  <1>3. Min(T) <= a /\ Min(T) <= b /\ Min(T) <= c
    BY <1>2 DEF T
  <1> QED BY <1>2, <1>3 DEF T

-----------------------------------------------------------------------------
(* Counting. *)

\* A list without repetitions is as long as its set is large.
LEMMA LengthCounts ==
    ASSUME NEW S, NEW s \in Seq(S), IsInjective(s)
    PROVE  IsFiniteSet(ToSet(s)) /\ Cardinality(ToSet(s)) = Len(s)
  <1> DEFINE n == Len(s)
             f == [i \in 1 .. n |-> s[i]]
  <1>1. n \in Nat /\ \A i, j \in 1 .. n : s[i] = s[j] => i = j
    BY ToSetIndexed
  <1>2. \A x : x \in ToSet(s) <=> \E i \in 1 .. n : s[i] = x
    BY ToSetIndexed
  <1> HIDE DEF n
  <1>3. f \in Bijection(1 .. n, ToSet(s))
    BY <1>1, <1>2 DEF Bijection, Injection, Surjection, IsInjective
  <1>4. IsFiniteSet(1 .. n) /\ Cardinality(1 .. n) = n
    BY <1>1, FS_Interval
  <1>5. ExistsBijection(1 .. n, ToSet(s))
    BY <1>3 DEF ExistsBijection
  <1> QED BY <1>4, <1>5, FS_Bijection DEF n

\* One element more.
LEMMA OneMore ==
    ASSUME NEW S, IsFiniteSet(S), NEW x
    PROVE  /\ IsFiniteSet(S \cup {x}) /\ Cardinality(S \cup {x}) <= Cardinality(S) + 1
           /\ Cardinality(S \cup {x}) \in Nat
  <1>1. IsFiniteSet(S \cup {x}) /\ Cardinality(S) \in Nat
    BY FS_AddElement, FS_CardinalityType
  <1>2. Cardinality(S \cup {x}) = Cardinality(S) \/ Cardinality(S \cup {x}) = Cardinality(S) + 1
    BY FS_AddElement, Zenon
  <1> QED BY <1>1, <1>2

\* One list after another.
LEMMA JoinedLists ==
    ASSUME NEW S, NEW s \in Seq(S), NEW t \in Seq(S)
    PROVE  /\ s \o t \in Seq(S) /\ ToSet(s \o t) = ToSet(s) \cup ToSet(t)
           /\ IsInjective(s) /\ IsInjective(t) /\ ToSet(s) \cap ToSet(t) = {}
                 => IsInjective(s \o t)
  <1> DEFINE m == Len(s)
             n == Len(t)
             u == s \o t
  <1>1. /\ m \in Nat /\ n \in Nat /\ u \in Seq(S) /\ Len(u) = m + n
        /\ \A i \in 1 .. m + n : u[i] = IF i <= m THEN s[i] ELSE t[i - m]
    OBVIOUS
  <1>2. /\ \A x : x \in ToSet(s) <=> \E i \in 1 .. m : s[i] = x
        /\ \A x : x \in ToSet(t) <=> \E i \in 1 .. n : t[i] = x
        /\ IsInjective(s) <=> \A i, j \in 1 .. m : s[i] = s[j] => i = j
        /\ IsInjective(t) <=> \A i, j \in 1 .. n : t[i] = t[j] => i = j
    BY ToSetIndexed
  <1> HIDE DEF m, n, u
  <1>3. /\ \A x : x \in ToSet(u) <=> \E i \in 1 .. m + n : u[i] = x
        /\ IsInjective(u) <=> \A i, j \in 1 .. m + n : u[i] = u[j] => i = j
    <2>1. /\ \A x : x \in ToSet(u) <=> \E i \in 1 .. Len(u) : u[i] = x
          /\ IsInjective(u) <=> \A i, j \in 1 .. Len(u) : u[i] = u[j] => i = j
      BY <1>1, ToSetIndexed
    <2>2. Len(u) = m + n
      BY <1>1
    <2> QED BY <2>1, <2>2
  <1>4. \A i \in 1 .. m + n : \/ i \in 1 .. m /\ u[i] = s[i]
                              \/ i - m \in 1 .. n /\ u[i] = t[i - m]
    BY <1>1
  <1>5. /\ \A i \in 1 .. m : i \in 1 .. m + n /\ u[i] = s[i]
        /\ \A i \in 1 .. n : i + m \in 1 .. m + n /\ u[i + m] = t[i]
    BY <1>1
  <1>6. \A x : x \in ToSet(u) <=> x \in ToSet(s) \/ x \in ToSet(t)
    <2> TAKE x
    <2>1. x \in ToSet(u) => x \in ToSet(s) \/ x \in ToSet(t)
      BY <1>2, <1>3, <1>4
    <2>2. x \in ToSet(s) \/ x \in ToSet(t) => x \in ToSet(u)
      BY <1>2, <1>3, <1>5
    <2> QED BY <2>1, <2>2
  <1>7. ASSUME IsInjective(s), IsInjective(t), ToSet(s) \cap ToSet(t) = {}
        PROVE  IsInjective(u)
    <2> SUFFICES ASSUME NEW i \in 1 .. m + n, NEW j \in 1 .. m + n, u[i] = u[j] PROVE i = j
      BY <1>3
    <2>1. CASE i \in 1 .. m /\ u[i] = s[i] /\ j \in 1 .. m /\ u[j] = s[j]
      BY <2>1, <1>2, <1>7
    <2>2. CASE i - m \in 1 .. n /\ u[i] = t[i - m] /\ j - m \in 1 .. n /\ u[j] = t[j - m]
      <3>1. i - m = j - m
        BY <2>2, <1>2, <1>7
      <3> QED BY <3>1, <1>1
    <2>3. ~(i \in 1 .. m /\ u[i] = s[i] /\ j - m \in 1 .. n /\ u[j] = t[j - m])
      BY <1>2, <1>7
    <2>4. ~(j \in 1 .. m /\ u[j] = s[j] /\ i - m \in 1 .. n /\ u[i] = t[i - m])
      BY <1>2, <1>7
    <2> QED BY <1>4, <2>1, <2>2, <2>3, <2>4
  <1> QED BY <1>1, <1>6, <1>7 DEF u

-----------------------------------------------------------------------------
(* A recursion whose values have a set each. *)

\* h is the recursion from c with the steps G, where the i-th value is in T[i].
Staged(h, n, c, G) ==
    /\ DOMAIN h = 0 .. n /\ h = [i \in 0 .. n |-> h[i]]
    /\ h[0] = c /\ \A i \in 1 .. n : h[i] = G[i][h[i - 1]]

LEMMA StagedRecursion ==
    ASSUME NEW n \in Nat, NEW T, NEW G, NEW c \in T[0],
           \A i \in 1 .. n : \A x \in T[i - 1] : G[i][x] \in T[i]
    PROVE  \E h : Staged(h, n, c, G)
  <1> DEFINE S == UNION {T[i] : i \in 0 .. n}
             F == [i \in 1 .. n |-> [x \in S |-> IF x \in T[i - 1] THEN G[i][x] ELSE c]]
  <1>1. c \in S /\ \A i \in 0 .. n : T[i] \subseteq S
    OBVIOUS
  <1> HIDE DEF S
  <1>2. F \in [1 .. n -> [S -> S]]
    <2> SUFFICES ASSUME NEW i \in 1 .. n, NEW x \in S
                 PROVE  (IF x \in T[i - 1] THEN G[i][x] ELSE c) \in S
      OBVIOUS
    <2>1. i \in 0 .. n
      OBVIOUS
    <2> QED BY <2>1, <1>1
  <1>3. \A i \in 1 .. n : \A x \in T[i - 1] : F[i][x] = G[i][x]
    <2> SUFFICES ASSUME NEW i \in 1 .. n, NEW x \in T[i - 1] PROVE F[i][x] = G[i][x]
      OBVIOUS
    <2>1. i - 1 \in 0 .. n
      OBVIOUS
    <2> QED BY <2>1, <1>1
  <1> HIDE DEF F
  <1>4. PICK h : Recursion(h, n, S, c, F)
    BY <1>1, <1>2, RecursionExists
  <1>5. h \in [0 .. n -> S] /\ h[0] = c /\ \A i \in 1 .. n : h[i] = F[i][h[i - 1]]
    BY <1>4 DEF Recursion
  <1> DEFINE U == {i \in 0 .. n : h[i] \in T[i]}
  <1>6. 0 \in U
    BY <1>5
  <1>7. ASSUME NEW i \in 0 .. n - 1, i \in U PROVE i + 1 \in U
    <2>1. i + 1 \in 1 .. n /\ i + 1 \in 0 .. n /\ (i + 1) - 1 = i
      OBVIOUS
    <2>2. h[i + 1] = F[i + 1][h[i]] /\ h[i] \in T[(i + 1) - 1] /\ h[i] \in T[i]
      BY <2>1, <1>5, <1>7
    <2>3. h[i + 1] = G[i + 1][h[i]]
      BY <2>1, <2>2, <1>3
    <2>4. h[i + 1] \in T[i + 1]
      BY <2>1, <2>2, <2>3
    <2> QED BY <2>1, <2>4
  <1>8. \A i \in 0 .. n : i \in U
    <2>1. \A i \in 0 .. n - 1 : i \in U => i + 1 \in U
      BY <1>7
    <2> HIDE DEF U
    <2> QED BY <1>6, <2>1, BoundedInduction
  <1>9. ASSUME NEW i \in 1 .. n PROVE h[i] = G[i][h[i - 1]]
    <2>1. i - 1 \in 0 .. n
      OBVIOUS
    <2> QED BY <2>1, <1>3, <1>5, <1>8
  <1>10. Staged(h, n, c, G)
    BY <1>5, <1>9 DEF Staged
  <1> QED BY <1>10

LEMMA StagedStays ==
    ASSUME NEW n \in Nat, NEW T, NEW k, k[0] \in T[0],
           \A i \in 1 .. n : k[i - 1] \in T[i - 1] => k[i] \in T[i]
    PROVE  \A i \in 0 .. n : k[i] \in T[i]
  <1> DEFINE U == {i \in 0 .. n : k[i] \in T[i]}
  <1>1. 0 \in U
    OBVIOUS
  <1>2. ASSUME NEW i \in 0 .. n - 1, i \in U PROVE i + 1 \in U
    <2>1. i + 1 \in 1 .. n /\ i + 1 \in 0 .. n /\ (i + 1) - 1 = i
      OBVIOUS
    <2>2. k[i + 1] \in T[i + 1]
      BY <2>1, <1>2
    <2> QED BY <2>1, <2>2
  <1>3. \A i \in 0 .. n - 1 : i \in U => i + 1 \in U
    BY <1>2
  <1>4. \A i \in 0 .. n : i \in U
    <2> HIDE DEF U
    <2> QED BY <1>1, <1>3, BoundedInduction
  <1> QED BY <1>4

=============================================================================
