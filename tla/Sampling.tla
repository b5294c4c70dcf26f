------------------------------ MODULE Sampling ------------------------------
(***************************************************************************)
(* The stages of BatchedSampler.sample (src/engine/batching/sampler.py) on *)
(* a batch: rows are 1 .. N, tokens 0 .. Vocab - 1.                        *)
(*                                                                         *)
(* Logits are integers and NegInf is -inf.  The softmax of a row is given  *)
(* by Weight, which maps a logit to a positive integer in the same order   *)
(* and -inf to 0: a probability is a weight over the row's sum, and top_p, *)
(* min_p are percentages, so every comparison is made in integers.         *)
(*                                                                         *)
(* A row's parameters: greedy (temperature 0 or top_k 1), topK, topP,      *)
(* minP, repetition, presence, frequency, logprobs (NoLogprobs or a count) *)
(***************************************************************************)
EXTENDS Integers, Sequences, FiniteSets, SequencesExt

CONSTANTS Vocab,      \* the size of the vocabulary
          Weight(_)   \* exp, up to a factor

NoLogprobs == -1
NegInf == -1000      \* -inf: below every logit that occurs
Tokens == 0 .. Vocab - 1
Hundred == 100

HasPenalties(p) == p.repetition # 1 \/ p.presence # 0 \/ p.frequency # 0

-----------------------------------------------------------------------------
(* _apply_penalties *)

Count(ctx, t) == Cardinality({i \in DOMAIN ctx : ctx[i] = t})

\* list(occurrences): the distinct tokens of a context, by first occurrence.
Packed(p, ctx) ==
    IF HasPenalties(p)
    THEN FoldLeft(LAMBDA s, t : IF Contains(s, t) THEN s ELSE Append(s, t), << >>, ctx)
    ELSE << >>

Penalized(p, logit, count) ==
    (IF logit > 0 THEN logit \div p.repetition ELSE logit * p.repetition)
        - p.presence - p.frequency * count

\* What the scatter writes for one row of the padded [N, width] index: padding
\* points at token 0 and carries the logit that was gathered there.
ScatterWrites(p, logits, ctx, width) ==
    LET packed == Packed(p, ctx)
    IN  [i \in 1 .. width |->
           IF i <= Len(packed)
           THEN <<packed[i], Penalized(p, logits[packed[i]], Count(ctx, packed[i]))>>
           ELSE <<0, logits[0]>>]

\* scatter leaves open which of several writes to one index survives.
ScatterOutcomes(logits, writes) ==
    {f \in [Tokens -> {logits[t] : t \in Tokens} \cup {writes[i][2] : i \in DOMAIN writes}] :
        \A t \in Tokens :
            LET w == {writes[i][2] : i \in {j \in DOMAIN writes : writes[j][1] = t}}
            IN  IF w = {} THEN f[t] = logits[t] ELSE f[t] \in w}

\* The logits row n may have after the stage.
ApplyPenalties(params, logits, ctxs, n) ==
    LET width == Max({Len(Packed(params[i], ctxs[i])) : i \in DOMAIN params})
    IN  ScatterOutcomes(logits[n], ScatterWrites(params[n], logits[n], ctxs[n], width))

-----------------------------------------------------------------------------
(* _filter *)

RowSum(row) == FoldLeft(LAMBDA s, t : s + Weight(row[t]), 0, [i \in 1 .. Vocab |-> i - 1])

Descending(row) == SetToSortSeq(Tokens, LAMBDA a, b : row[a] > row[b] \/ (row[a] = row[b] /\ a < b))

TopK(p) == IF 0 < p.topK /\ p.topK < Vocab /\ ~p.greedy THEN p.topK ELSE 0

\* Mutant: the threshold is that of the batch's largest k.
KeepTopKOfBatch(params, row, n) ==
    LET limit == Max({TopK(params[i]) : i \in DOMAIN params})
    IN  IF limit = 0 THEN row
        ELSE [t \in Tokens |-> IF TopK(params[n]) # 0 /\ row[t] < row[Descending(row)[limit]]
                               THEN NegInf ELSE row[t]]

\* The row's own k-th best is its threshold; ties with it stay.
KeepTopK(params, row, n) ==
    LET limit == Max({TopK(params[i]) : i \in DOMAIN params})
        k == TopK(params[n])
        kth == [i \in 1 .. limit |-> row[Descending(row)[i]]]
    IN  IF limit = 0 \/ k = 0 THEN row
        ELSE [t \in Tokens |-> IF row[t] < kth[k] THEN NegInf ELSE row[t]]

KeepMinP(params, row, n) ==
    LET minP == IF params[n].greedy THEN 0 ELSE params[n].minP
        best == Max({Weight(row[t]) : t \in Tokens})
    IN  [t \in Tokens |-> IF Hundred * Weight(row[t]) < minP * best THEN NegInf ELSE row[t]]

\* Dropped: tokens before which the mass limit is already reached.
KeepTopP(params, row, n) ==
    LET topP == IF params[n].greedy THEN Hundred ELSE params[n].topP
        d == Descending(row)
        before(i) == FoldLeft(LAMBDA s, t : s + Weight(row[t]), 0, SubSeq(d, 1, i - 1))
    IN  [t \in Tokens |->
           IF Hundred * before(SelectInSeq(d, LAMBDA x : x = t)) >= topP * RowSum(row)
           THEN NegInf ELSE row[t]]

Filter(params, row, n) == KeepTopP(params, KeepMinP(params, KeepTopK(params, row, n), n), n)

-----------------------------------------------------------------------------
(* _draw and _logprobs *)

\* The tokens row n can come out with.
Drawable(p, row) ==
    IF p.greedy THEN {Descending(row)[1]} ELSE {t \in Tokens : Weight(row[t]) > 0}

\* One row of _logprobs: the chosen token, then the others of the row's top.
Entries(p, row, chosen) ==
    LET top == SubSeq(Descending(row), 1, p.logprobs)
        all == <<chosen>> \o SelectSeq(top, LAMBDA t : t # chosen)
    IN  SubSeq(all, 1, Min({Len(all), p.logprobs + 1}))

=============================================================================
