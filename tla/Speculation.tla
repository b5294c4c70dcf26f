----------------------------- MODULE Speculation -----------------------------
(***************************************************************************)
(* Greedy speculation as operators: what a verification round commits      *)
(* (src/engine/speculative/acceptance.py), the n-gram proposer (ngram.py)  *)
(* and the draft-model proposer with its per-request state                 *)
(* (draft_model.py).                                                       *)
(*                                                                         *)
(* A draft state is a record: tokens, what the proposer says its cache     *)
(* covers; cache, the token sequence whose keys and values the cache       *)
(* really holds; next, the prediction after the last of them.              *)
(***************************************************************************)
EXTENDS Integers, Sequences, SequencesExt

CONSTANTS DraftModel(_),   \* the draft model's greedy next token
          MinMatch,        \* min_match
          MaxMatch         \* max_match

ASSUME MatchAssumption == MinMatch \in Nat \ {0} /\ MaxMatch \in Nat /\ MaxMatch >= MinMatch

CommonPrefix(a, b) == Len(LongestCommonPrefix({a, b}))

-----------------------------------------------------------------------------
(* acceptance.py *)

\* Why token t ends a request with this stop set, "none" if it does not.
EndsWith(t, eos, stop, ignoreEos) ==
    IF t \in stop THEN "STOP" ELSE IF ~ignoreEos /\ t \in eos THEN "EOS" ELSE "none"

\* Mutant: the first rejected draft token is kept.
CandidatesOneMore(draft, target, bonus) ==
    LET a == CommonPrefix(draft, target)
    IN  IF a = Len(draft) THEN Append(draft, bonus)
        ELSE Append(SubSeq(draft, 1, a + 1), target[a + 1])

\* The accepted draft prefix and the target's own token after it.
RoundTokens(draft, target, bonus) ==
    LET a == CommonPrefix(draft, target)
    IN  Append(SubSeq(draft, 1, a), IF a = Len(draft) THEN bonus ELSE target[a + 1])

\* plan_greedy_commit
Plan(draft, target, bonus, remaining, eos, stop, ignoreEos) ==
    LET c == RoundTokens(draft, target, bonus)
        most == SubSeq(c, 1, Min({Len(c), remaining}))
        i == SelectInSeq(most, LAMBDA t : EndsWith(t, eos, stop, ignoreEos) # "none")
        e == IF i = 0 THEN most ELSE SubSeq(most, 1, i)
    IN  [emitted  |-> e,
         accepted |-> Min({CommonPrefix(draft, target), Len(e)}),
         cached   |-> Len(e),
         reason   |-> IF i # 0 THEN EndsWith(most[i], eos, stop, ignoreEos)
                      ELSE IF Len(e) = remaining THEN "LENGTH" ELSE "none"]

-----------------------------------------------------------------------------
(* ngram.py: positions are 0-based as in the code. *)

\* tokens[a:b]
Slice(tokens, a, b) == SubSeq(tokens, a + 1, Min({b, Len(tokens)}))

\* The starts of earlier occurrences of the last width tokens.
Matches(tokens, width) ==
    {s \in 0 .. Len(tokens) - 2 * width :
        Slice(tokens, s, s + width) = Slice(tokens, Len(tokens) - width, Len(tokens))}

\* NgramProposer.propose: the longest width first, its most recent occurrence.
NgramPropose(tokens, most) ==
    LET widths == {w \in MinMatch .. Min({MaxMatch, Len(tokens) \div 2}) : Matches(tokens, w) # {}}
        start == Max(Matches(tokens, Max(widths))) + Max(widths)
    IN  IF most <= 0 \/ widths = {} THEN << >> ELSE Slice(tokens, start, start + most)

-----------------------------------------------------------------------------
(* draft_model.py *)

NoDraft == [tokens |-> << >>, cache |-> << >>, next |-> 0]

\* _forward_tokens: evaluate ts behind what the cache holds.
DraftForward(cache, ts, tokens) ==
    [tokens |-> tokens, cache |-> cache \o ts, next |-> DraftModel(cache \o ts)]

\* Mutant: the cache is not cut back to the common prefix.
SynchronizeUncropped(d, history) ==
    LET common == CommonPrefix(d.tokens, history)
    IN  IF d = NoDraft \/ common = Len(history) THEN DraftForward(<< >>, history, history)
        ELSE DraftForward(d.cache, SubSeq(history, common + 1, Len(history)), history)

\* Mutant: a history the cache already covers keeps the logits of the longer cache.
SynchronizeKeepsLogits(d, history) ==
    LET common == CommonPrefix(d.tokens, history)
    IN  IF d = NoDraft THEN DraftForward(<< >>, history, history)
        ELSE IF common = Len(history)
        THEN [tokens |-> history, cache |-> SubSeq(d.cache, 1, common), next |-> d.next]
        ELSE DraftForward(SubSeq(d.cache, 1, common),
                          SubSeq(history, common + 1, Len(history)), history)

\* _synchronize: crop to the common prefix, evaluate the rest; no state, or no
\* rest, rebuilds from nothing.
Synchronize(d, history) ==
    LET common == CommonPrefix(d.tokens, history)
    IN  IF d = NoDraft \/ common = Len(history) THEN DraftForward(<< >>, history, history)
        ELSE DraftForward(SubSeq(d.cache, 1, common),
                          SubSeq(history, common + 1, Len(history)), history)

\* propose: max_tokens greedy steps, each feeding its own token back.
DraftSteps(d, history, most) ==
    LET f[i \in 0 .. most] ==
            IF i = 0 THEN Synchronize(d, history)
            ELSE DraftForward(f[i - 1].cache, <<f[i - 1].next>>, << >>)
    IN  [f[most] EXCEPT !.tokens = history \o SubSeq(f[most].cache, Len(f[most].cache) - most + 1,
                                                     Len(f[most].cache))]

\* [tokens, state] after DraftModelProposer.propose
DraftPropose(d, history, most) ==
    IF most <= 0 \/ history = << >> THEN [tokens |-> << >>, state |-> d]
    ELSE LET s == DraftSteps(d, history, most)
         IN  [tokens |-> SubSeq(s.tokens, Len(history) + 1, Len(s.tokens)), state |-> s]

\* The continuation a fresh draft model would produce: nothing kept, nothing cut.
GreedyDraft(history, most) ==
    LET f[i \in 0 .. most] == IF i = 0 THEN history ELSE Append(f[i - 1], DraftModel(f[i - 1]))
    IN  SubSeq(f[most], Len(history) + 1, Len(history) + most)

\* What a draft state claims is what its cache holds.
DraftExact(d) == d = NoDraft \/ (d.cache = d.tokens /\ d.next = DraftModel(d.cache))

=============================================================================
