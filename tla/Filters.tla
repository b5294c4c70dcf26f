------------------------------- MODULE Filters -------------------------------
(***************************************************************************)
(* List comprehensions with a condition, and removal from a list, as the   *)
(* scheduler, the engine and the prefix cache use them.  The condition is  *)
(* a set, not an operator, so that one lemma is about every use.           *)
(***************************************************************************)
EXTENDS Integers, Sequences

\* [x for x in s if x in T]
Keep(s, T) ==
    LET f[i \in 0 .. Len(s)] ==
            IF i = 0 THEN << >>
            ELSE IF s[i] \in T THEN Append(f[i - 1], s[i]) ELSE f[i - 1]
    IN  f[Len(s)]

\* s after e is taken out
Without(s, e) == Keep(s, {s[i] : i \in 1 .. Len(s)} \ {e})

=============================================================================
