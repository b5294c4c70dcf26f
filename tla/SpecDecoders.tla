---------------------------- MODULE SpecDecoders ----------------------------
(***************************************************************************)
(* The stand-alone speculative decoders: VanillaSpeculativeDecoder and      *)
(* OptimizedSpeculativeDecoder for one prompt, BatchedSpeculativeEngine for *)
(* a left-padded batch that advances in lockstep.                           *)
(*                                                                         *)
(* A cache is what the model has read: a token and the position it was      *)
(* given, per column.  The mask says which columns a row may attend to.     *)
(***************************************************************************)
EXTENDS Integers, Sequences, SequencesExt, FiniteSetsExt

CONSTANTS VocabSize,     \* number of tokens
          EosIds,    \* tokens that end a sequence
          PadId,     \* the padding token
          Cases      \* records [kind, prompts, depth, maxNew, target, draft]

VARIABLES call,      \* the call of generate, one of Cases
          pc, out, done, tgt, drf, proposals, want, bonus, accepted, rounds

decoderVars == <<call, pc, out, done, tgt, drf, proposals, want, bonus, accepted, rounds>>

ASSUME SpecDecodersAssumption ==
    /\ EosIds \subseteq 0 .. VocabSize - 1 /\ PadId \in 0 .. VocabSize - 1
    /\ \A c \in Cases : /\ c.kind \in {"vanilla", "optimized", "batched"} /\ c.depth > 0
                        /\ c.kind = "batched" \/ Len(c.prompts) = 1
                        /\ c.kind = "vanilla" => c.maxNew > 0

Rows == DOMAIN call.prompts
Min2(a, b) == IF a < b THEN a ELSE b

----------------------------------------------------------------------------
(* The models: a prediction depends on every token read and on where.      *)

\* argmax of the logits at the last of the columns seen.
Predict(model, seen) ==
    FoldLeft(LAMBDA s, e : s + model[1] * e[1] * (e[2] + 1) + model[2], model[3], seen) % VocabSize

Seen(kv, mask, upto) ==
    LET columns == SelectSeq([k \in 1 .. upto |-> k], LAMBDA k : mask[k] = 1)
    IN  [j \in 1 .. Len(columns) |-> kv[columns[j]]]

Ones(mask, upto) == Cardinality({k \in 1 .. upto : mask[k] = 1})

\* Mutant: the column itself, padding counted.
PositionOfColumn(mask, column) == column - 1

\* Where a column of a row is put, whatever stands to its left: cumsum(mask) - 1.
Position(mask, column) == Ones(mask, column) - 1

\* The tokens toks[i] of every row pass through the model behind what its cache holds.
Forward(model, s, toks) ==
    LET old == Len(s.mask[1])
        new == Len(toks[1])
        mask == [i \in Rows |-> s.mask[i] \o [j \in 1 .. new |-> 1]]
        kv == [i \in Rows |-> s.kv[i] \o [j \in 1 .. new |->
                                            <<toks[i][j], Position(mask[i], old + j)>>]]
        preds == [i \in Rows |-> [j \in 1 .. new |->
                                    Predict(model, Seen(kv[i], mask[i], old + j))]]
    IN  [kv |-> kv, mask |-> mask, preds |-> preds, next |-> [i \in Rows |-> Last(preds[i])]]

\* Prompts are padded on the left; a pad is at position 1 and never seen.
Prefill(model) ==
    LET width == Max({Len(call.prompts[i]) : i \in Rows})
        pads(i) == width - Len(call.prompts[i])
        mask == [i \in Rows |-> [k \in 1 .. width |-> IF k <= pads(i) THEN 0 ELSE 1]]
        kv == [i \in Rows |-> [k \in 1 .. width |->
                 IF k <= pads(i) THEN <<PadId, 1>>
                 ELSE <<call.prompts[i][k - pads(i)], Position(mask[i], k)>>]]
    IN  [kv |-> kv, mask |-> mask, preds |-> <<>>,
         next |-> [i \in Rows |-> Predict(model, Seen(kv[i], mask[i], width))]]

Decode(model, s, tokens) == Forward(model, s, [i \in Rows |-> <<tokens[i]>>])

\* The cache loses a suffix as long as the mask is over the length; never the other way.
Crop(s, length) ==
    LET over == Len(s.mask[1]) - length
    IN  [s EXCEPT !.kv = [i \in Rows |-> SubSeq(s.kv[i], 1, Len(s.kv[i]) - Max({over, 0}))],
                  !.mask = [i \in Rows |-> SubSeq(s.mask[i], 1, length)]]

----------------------------------------------------------------------------
(* One round.                                                              *)

More(o, d) == (\E i \in Rows : ~d[i]) /\ Max({Len(o[i]) : i \in Rows}) < call.maxNew

\* A decoder for one prompt proposes no more than it may still emit.
Depth == IF call.kind = "batched" THEN call.depth
         ELSE Min2(call.depth, call.maxNew - Len(out[1]))

Begin ==
    /\ pc = "prefill"
    /\ tgt' = Prefill(call.target)
    /\ drf' = Prefill(call.draft)
    /\ pc' = IF More(out, done) THEN "draft" ELSE "done"
    /\ UNCHANGED <<call, out, done, proposals, want, bonus, accepted, rounds>>

Draft ==
    /\ pc = "draft" /\ Len(proposals[1]) < Depth
    /\ proposals' = [i \in Rows |-> Append(proposals[i], drf.next[i])]
    /\ drf' = Decode(call.draft, drf, drf.next)
    /\ UNCHANGED <<call, pc, out, done, tgt, want, bonus, accepted, rounds>>

\* What the target wants at the first proposal is what it predicted before the round.
Verify ==
    /\ pc = "draft" /\ Len(proposals[1]) = Depth
    /\ LET v == Forward(call.target, tgt, proposals)
       IN  /\ tgt' = v
           /\ want' = [i \in Rows |-> <<tgt.next[i]>> \o Front(v.preds[i])]
           /\ bonus' = v.next
    /\ rounds' = rounds + 1
    /\ pc' = "commit"
    /\ UNCHANGED <<call, out, done, drf, proposals, accepted>>

Agreed(i) ==
    LET same == {n \in 0 .. Len(want[i]) : SubSeq(proposals[i], 1, n) = SubSeq(want[i], 1, n)}
    IN  IF done[i] THEN 0 ELSE Max(same)

\* greedy_accept
Emit(i) ==
    IF done[i] THEN <<>>
    ELSE IF Agreed(i) = Len(proposals[i]) THEN Append(proposals[i], bonus[i])
    ELSE Append(SubSeq(proposals[i], 1, Agreed(i)), want[i][Agreed(i) + 1])

FirstEos(s) == {n \in 1 .. Len(s) : s[n] \in EosIds /\ \A k \in 1 .. n - 1 : s[k] \notin EosIds}

UpToEos(s) == IF FirstEos(s) = {} THEN s ELSE SubSeq(s, 1, CHOOSE n \in FirstEos(s) : TRUE)

\* Both caches are cut, then the last token of the round is read once by each model.
Reread(length, last) ==
    /\ tgt' = Decode(call.target, Crop(tgt, length), last)
    /\ drf' = Decode(call.draft, Crop(drf, length), last)

EndRound ==
    /\ proposals' = [i \in Rows |-> <<>>]
    /\ pc' = IF More(out', done') THEN "draft" ELSE "done"
    /\ UNCHANGED <<call, want, bonus, rounds>>

\* emitted.extend(round_tokens[:room])
WithinRoom(s, room) == SubSeq(s, 1, Min2(Len(s), room))

\* Accepted proposals that the round keeps: none behind its first end of sequence.
Retained(tokens) == IF FirstEos(Emit(1)) = {} THEN Agreed(1) ELSE Min2(Agreed(1), Len(tokens))

\* One prompt: the round ends at the first end of sequence.
CommitOne ==
    /\ pc = "commit" /\ call.kind # "batched"
    /\ LET tokens == UpToEos(Emit(1))
           retained == Retained(tokens)
           context == Len(tgt.mask[1]) - Len(proposals[1])
       IN  /\ accepted' = accepted + retained
           /\ out' = <<out[1] \o WithinRoom(tokens, call.maxNew - Len(out[1]))>>
           /\ done' = <<FirstEos(Emit(1)) # {}>>
           /\ Reread(context + retained, <<Last(tokens)>>)
    /\ EndRound

\* Mutant: the last committed token is not taken off.
CropTwice(prev, commit) == prev + commit

\* One short of the committed length, for the last committed token is read again.
CropLength(prev, commit) == prev + commit - 1

\* A batch keeps the shortest of what its rows emit, so that it stays rectangular.
CommitBatch ==
    /\ pc = "commit" /\ call.kind = "batched"
    /\ LET active == {i \in Rows : ~done[i]}
           commit == Min({Len(Emit(i)) : i \in active})
           kept(i) == UpToEos(SubSeq(Emit(i), 1, commit))
           prev == Len(tgt.mask[1]) - Len(proposals[1])
       IN  /\ out' = [i \in Rows |-> IF done[i] THEN out[i]
                                     ELSE out[i] \o WithinRoom(kept(i), call.maxNew - Len(out[i]))]
           /\ done' = [i \in Rows |-> done[i] \/ \E n \in DOMAIN out'[i] : out'[i][n] \in EosIds]
           /\ accepted' = accepted + FoldSet(LAMBDA i, s : s + Min2(Agreed(i), commit), 0, active)
           /\ Reread(CropLength(prev, commit),
                     [i \in Rows |-> IF done[i] THEN PadId ELSE Emit(i)[commit]])
    /\ EndRound

\* generate is called.
Called(c) ==
    /\ call = c
    /\ pc = "prefill"
    /\ out = [i \in Rows |-> <<>>] /\ done = [i \in Rows |-> FALSE]
    /\ tgt = <<>> /\ drf = <<>> /\ proposals = [i \in Rows |-> <<>>]
    /\ want = <<>> /\ bonus = <<>>
    /\ accepted = 0 /\ rounds = 0

DecodersInit == \E c \in Cases : Called(c)

DecodersNext ==
    \/ Begin
    \/ Draft
    \/ Verify
    \/ CommitOne
    \/ CommitBatch

DecodersSpec == DecodersInit /\ [][DecodersNext]_decoderVars

----------------------------------------------------------------------------
Placed(s) == [k \in 1 .. Len(s) |-> <<s[k], k - 1>>]

\* The target model alone on prompt i, one token at a time.
Greedy(i) ==
    FoldLeft(LAMBDA s, n : IF s # <<>> /\ Last(s) \in EosIds THEN s
                           ELSE Append(s, Predict(call.target, Placed(call.prompts[i] \o s))),
             <<>>, [n \in 1 .. call.maxNew |-> n])

BetweenRounds == pc = "draft" /\ Len(proposals[1]) = 0

\* Each sequence holds tokens, and a call that returned has left no round open.
DecodersTypeOK ==
    /\ \A i \in Rows : /\ out[i] \in Seq(0 .. VocabSize - 1) /\ Len(out[i]) <= call.maxNew
                       /\ proposals[i] \in Seq(0 .. VocabSize - 1)
    /\ accepted \in Nat /\ rounds \in Nat
    /\ pc = "done" => \A i \in Rows : proposals[i] = <<>>

\* Speculation never changes the output: what was emitted is what the target would have
\* emitted alone, and a call ends with all of it ("batched speculative output ==
\* per-sequence vanilla speculative output").
OutputIsGreedy ==
    \A i \in Rows : /\ IsPrefix(out[i], Greedy(i))
                    /\ pc = "done" => out[i] = Greedy(i)

\* Between rounds both caches have read exactly the prompt and the output, each token once
\* and at its own position, in every row that has not ended: rejected proposals leave no
\* trace and padding is never seen.
CachesFollowOutput ==
    BetweenRounds =>
        \A i \in Rows : ~done[i] =>
            /\ \A s \in {tgt, drf} :
                 Seen(s.kv[i], s.mask[i], Len(s.mask[i])) = Placed(call.prompts[i] \o out[i])
            /\ tgt.next[i] = Predict(call.target, Placed(call.prompts[i] \o out[i]))

\* The cache and the mask of a model have the same columns in every row, at every step.
CacheMatchesMask ==
    pc # "prefill" =>
        \A s \in {tgt, drf}, i \in Rows : /\ Len(s.kv[i]) = Len(s.mask[i])
                                          /\ Len(s.mask[i]) = Len(s.mask[1])

\* Every round emits at least one token for every sequence that has not ended, whatever
\* the draft proposes and however the rows of a batch disagree.
EveryRoundAdvances ==
    BetweenRounds => \A i \in Rows : ~done[i] => Len(out[i]) >= rounds

\* A decoder for one prompt reports no more accepted proposals than tokens it emitted,
\* whatever an end of sequence or the token limit cut off the last round.  (A batch counts
\* what its rows agreed on before they are cut.)
AcceptedWereEmitted == call.kind # "batched" => accepted <= Len(out[1])

\* A speculative call is greedy decoding, round by round: its output, its progress and
\* what it reports of them.
DecodingIsGreedy == DecodersTypeOK /\ OutputIsGreedy /\ EveryRoundAdvances /\ AcceptedWereEmitted

\* The caches of both models follow the output, column by column, in every row.
CachesExact == CacheMatchesMask /\ CachesFollowOutput
=============================================================================
