---------------------------- MODULE MCAlgorithms ----------------------------
(***************************************************************************)
(* The parts that are called and hold no thread of their own.  The         *)
(* algorithms that decide tokens, over every small input: proposals and    *)
(* their verification (Speculation), the sampler's stages (Sampling), each *)
(* one state per input, and whole calls of the stand-alone decoders        *)
(* (SpecDecoders).  And any sequence of calls on one BlockAllocator.       *)
(***************************************************************************)
EXTENDS Speculation, Sampling, SpecDecoders, BlockAllocator

CONSTANTS Alphabet, Eos, MaxHistory, MaxDepth

Perms == Permutations(Owner)

VARIABLE input

-----------------------------------------------------------------------------
(* Inputs of Speculation. *)

Sequences(lo, hi) == UNION {[1 .. n -> Alphabet] : n \in lo .. hi}

\* A draft model that looks back two tokens.
MCDraft(c) == IF Len(c) < 2 THEN 1 ELSE 1 + ((c[Len(c)] + c[Len(c) - 1] + Len(c)) % 2)

\* A target model on the contexts a round can meet, a draft, the token limits.
RoundInput ==
    [kind : {"round"}, model : [Sequences(0, MaxDepth) -> Alphabet], draft : Sequences(1, MaxDepth),
     remaining : 1 .. MaxDepth + 1, stop : {{}, {1}, {2}}, ignoreEos : BOOLEAN]

LookupInput == [kind : {"lookup"}, history : Sequences(0, MaxHistory), most : 0 .. 2]

\* A draft state left by a proposal for one history, then another history.
DraftInput == [kind : {"draft"}, first : Sequences(0, 3), second : Sequences(1, 4), most : 1 .. 2]

-----------------------------------------------------------------------------
(* Inputs of Sampling: batches of two rows.  Row 1 is the one looked at,   *)
(* row 2 its neighbour.                                                    *)

MCWeight(x) == IF x < 0 THEN 0 ELSE 2 ^ x

Plain == [greedy |-> FALSE, topK |-> 0, topP |-> 100, minP |-> 0, repetition |-> 1,
          presence |-> 0, frequency |-> 0, logprobs |-> NoLogprobs]

Penalties == {Plain, [Plain EXCEPT !.repetition = 2], [Plain EXCEPT !.presence = 1],
              [Plain EXCEPT !.frequency = 1]}

Contexts == UNION {[1 .. n -> Tokens] : n \in 0 .. 2}

Neighbour == [t \in Tokens |-> 2]

PenaltyInput == [kind : {"penalty"}, logits : [Tokens -> {-2, 2, 4}], param : Penalties,
                 ctx : Contexts, other : {Plain, [Plain EXCEPT !.presence = 1]},
                 otherCtx : Contexts]

FilterInput == [kind : {"filter"}, logits : [Tokens -> 0 .. 2], topK : 0 .. Vocab,
                minP : {0, 50}, topP : {30, 60, 100}, greedy : BOOLEAN, otherK : 0 .. Vocab]

EntryInput == [kind : {"entries"}, logits : [Tokens -> 0 .. 2], chosen : Tokens, count : 0 .. Vocab]

-----------------------------------------------------------------------------
(* Calls of the decoders: models of three tokens that depend on all they   *)
(* read; drafts that agree with the target always, often and seldom;       *)
(* batches of unequal prompts.                                             *)

Models == {<<a, b, c>> : a \in {0, 1}, b \in 0 .. 2, c \in 0 .. 2}

Call(k, p, d, n, t, f) ==
    [kind |-> k, prompts |-> p, depth |-> d, maxNew |-> n, target |-> t, draft |-> f]

One == {Call(k, p, d, n, t, f) : k \in {"vanilla", "optimized"}, p \in {<<<<1>>>>, <<<<1, 2>>>>},
                                 d \in {1, 2, 3}, n \in {1, 4}, t \in Models, f \in Models}

Nothing == {Call("optimized", <<<<1>>>>, 2, 0, <<1, 0, 1>>, <<1, 0, 1>>)}

Batch ==
    {Call("batched", p, d, 4, t, f) :
        p \in {<<<<1>>, <<2, 1, 1>>>>, <<<<1, 2>>, <<2, 2>>, <<1>>>>},
        d \in {1, 2, 3}, t \in Models, f \in Models}

AllCalls == One \cup Nothing \cup Batch

-----------------------------------------------------------------------------
Pure == RoundInput \cup LookupInput \cup DraftInput \cup PenaltyInput \cup FilterInput \cup EntryInput

Idle == Call("vanilla", <<<<1>>>>, 1, 1, <<0, 0, 0>>, <<0, 0, 0>>)

AlgorithmsInit ==
    /\ \/ input \in Pure /\ Called(Idle)
       \/ input = [kind |-> "call"] /\ DecodersInit
       \/ input = [kind |-> "allocator"] /\ Called(Idle)
    /\ Init

AlgorithmsNext ==
    \/ input.kind = "call" /\ DecodersNext /\ UNCHANGED <<input, pool>>
    \/ input.kind = "allocator" /\ Next /\ UNCHANGED <<input, decoderVars>>

AlgorithmsSpec == AlgorithmsInit /\ [][AlgorithmsNext]_<<input, decoderVars, pool>>

-----------------------------------------------------------------------------
Predictions(i) == [k \in 1 .. Len(i.draft) |-> i.model[SubSeq(i.draft, 1, k - 1)]]

RoundPlan(i) == Plan(i.draft, Predictions(i), i.model[i.draft], i.remaining, Eos, i.stop, i.ignoreEos)

\* What decoding one token at a time emits from here, as far as the model says:
\* each token is appended, then the request ends or goes on.
Stepwise(i) ==
    LET stops(s) == s # << >> /\ EndsWith(Last(s), Eos, i.stop, i.ignoreEos) # "none"
        f[n \in 0 .. MaxDepth + 1] ==
            IF n = 0 THEN << >>
            ELSE IF stops(f[n - 1]) \/ Len(f[n - 1]) = i.remaining \/ Len(f[n - 1]) > MaxDepth
                 THEN f[n - 1] ELSE Append(f[n - 1], i.model[f[n - 1]])
    IN  f[MaxDepth + 1]

(***************************************************************************)
(* A verification round commits exactly what decoding token by token would *)
(* have: never past a stop token, EOS or the length, never a rejected      *)
(* draft token, always at least one token, and it says that the request    *)
(* has ended when decoding would have said so.                             *)
(***************************************************************************)
RoundIsStepwise ==
    input.kind = "round" =>
        LET p == RoundPlan(input)
            s == Stepwise(input)
        IN  /\ p.emitted # << >> /\ IsPrefix(p.emitted, s)
            /\ p.cached = Len(p.emitted) /\ p.accepted <= Len(p.emitted)
            /\ p.reason # "none" <=>
                 \/ EndsWith(Last(p.emitted), Eos, input.stop, input.ignoreEos) # "none"
                 \/ Len(p.emitted) = input.remaining
            /\ CommonPrefix(input.draft, s) <= Len(p.emitted)

\* How many tokens before position e repeat the end of h, without overlap.
MatchBefore(h, e) ==
    Max({0} \cup {w \in 1 .. Min({MaxMatch, e, Len(h) - e}) :
                     SubSeq(h, e - w + 1, e) = SubSeq(h, Len(h) - w + 1, Len(h))})

(***************************************************************************)
(* The n-gram lookup continues the place whose preceding tokens agree with *)
(* the end of the history for longest, the latest of several, and stays    *)
(* silent only if no place agrees on min_match tokens.                     *)
(***************************************************************************)
LookupContinuesBestMatch ==
    input.kind = "lookup" =>
        LET h == input.history
            p == NgramPropose(h, input.most)
            good == {e \in 1 .. Len(h) - 1 : MatchBefore(h, e) >= MinMatch}
            better(a, b) == \/ MatchBefore(h, a) > MatchBefore(h, b)
                            \/ MatchBefore(h, a) = MatchBefore(h, b) /\ a > b
        IN  IF input.most = 0 \/ good = {} THEN p = << >>
            ELSE LET e == CHOOSE x \in good : \A y \in good \ {x} : better(x, y)
                 IN  p = SubSeq(h, e + 1, Min({e + input.most, Len(h)}))

(***************************************************************************)
(* Whatever the previous proposal left in the draft cache (a rejected      *)
(* suffix, a history that shrank, an identical history), the next one is   *)
(* what a draft model without any cache would propose.                     *)
(***************************************************************************)
ProposalForgetsThePast ==
    input.kind = "draft" =>
        LET d == DraftPropose(NoDraft, input.first, input.most).state
            p == DraftPropose(d, input.second, input.most)
        IN  p.tokens = GreedyDraft(input.second, input.most) /\ DraftExact(p.state)

\* Row 1 as if it were alone.
AloneAfterPenalties(i) ==
    [t \in Tokens |-> IF HasPenalties(i.param) /\ t \in ToSet(i.ctx)
                      THEN Penalized(i.param, i.logits[t], Count(i.ctx, t)) ELSE i.logits[t]]

BatchAfterPenalties(i) ==
    ApplyPenalties(<<i.param, i.other>>, <<i.logits, Neighbour>>, <<i.ctx, i.otherCtx>>, 1)

(***************************************************************************)
(* A seen token is penalized once for being seen and once per use, by its  *)
(* row's own parameters; no other token changes, whatever the other rows   *)
(* have in their contexts.  (Token 0 is left out where its row is padded.) *)
(***************************************************************************)
PenaltiesOfTheRow ==
    input.kind = "penalty" =>
        LET mine == Packed(input.param, input.ctx)
            padded == Len(mine) < Len(Packed(input.other, input.otherCtx))
        IN  \A f \in BatchAfterPenalties(input), t \in Tokens :
                (t # 0 \/ ~padded \/ 0 \notin ToSet(mine)) => f[t] = AloneAfterPenalties(input)[t]

(***************************************************************************)
(* The penalized logits of a row are those it would have alone.            *)
(***************************************************************************)
PenaltiesIgnoreNeighbours ==
    input.kind = "penalty" => BatchAfterPenalties(input) = {AloneAfterPenalties(input)}

FilterParams(i) ==
    <<[Plain EXCEPT !.greedy = i.greedy, !.topK = i.topK, !.topP = i.topP, !.minP = i.minP],
      [Plain EXCEPT !.topK = i.otherK]>>

\* The filters by rank and mass: what each lets through, one after the other.
Survivors(i) ==
    LET w(t) == Weight(i.logits[t])
        mass(S) == FoldLeft(LAMBDA s, t : s + w(t), 0, SetToSeq(S))
        above(S, t) == {u \in S : i.logits[u] > i.logits[t] \/ (i.logits[u] = i.logits[t] /\ u < t)}
        kept == IF i.topK = 0 THEN Tokens
                ELSE {t \in Tokens : Cardinality({u \in Tokens : i.logits[u] > i.logits[t]}) < i.topK}
        likely == {t \in kept : \A u \in kept : Hundred * w(t) >= i.minP * w(u)}
    IN  IF i.greedy THEN {CHOOSE t \in Tokens : above(Tokens, t) = {}}
        ELSE {t \in likely : Hundred * mass(above(likely, t)) < i.topP * mass(likely)}

(***************************************************************************)
(* What a row can draw follows from its own logits and parameters: top-k   *)
(* by rank, then min-p against the best, then the smallest top-p nucleus,  *)
(* the most likely token always included, whatever its neighbour asks for. *)
(***************************************************************************)
DrawFollowsOwnFilters ==
    input.kind = "filter" =>
        LET params == FilterParams(input)
            S == Drawable(params[1], Filter(params, input.logits, 1))
        IN  S = Survivors(input) /\ \E t \in S : \A u \in Tokens : input.logits[t] >= input.logits[u]

(***************************************************************************)
(* A log-probability record starts with the chosen token, names no token   *)
(* twice and contains each of the count most likely ones.                  *)
(***************************************************************************)
EntriesComplete ==
    input.kind = "entries" =>
        LET e == Entries([Plain EXCEPT !.logprobs = input.count], input.logits, input.chosen)
        IN  /\ e[1] = input.chosen
            /\ Cardinality(ToSet(e)) = Len(e)
            /\ \A t \in Tokens :
                  Cardinality({u \in Tokens : input.logits[u] > input.logits[t]
                                  \/ (input.logits[u] = input.logits[t] /\ u < t)}) < input.count
                  => t \in ToSet(e)

(***************************************************************************)
(* Proposing and verifying never changes the tokens: rounds are stepwise   *)
(* decoding, lookups continue the best match, draft caches are invisible.  *)
(***************************************************************************)
SpeculationIsExact == RoundIsStepwise /\ LookupContinuesBestMatch /\ ProposalForgetsThePast

(***************************************************************************)
(* A row of a sampled batch is penalized, filtered, drawn from and         *)
(* reported by its own parameters.                                         *)
(***************************************************************************)
RowsSampleAlone == PenaltiesOfTheRow /\ DrawFollowsOwnFilters /\ EntriesComplete
=============================================================================
