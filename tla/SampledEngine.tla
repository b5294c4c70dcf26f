---------------------------- MODULE SampledEngine ----------------------------
(***************************************************************************)
(* Engine with what _sample (src/engine/batching/continuous_batching.py)   *)
(* and BatchedSampler (src/engine/batching/sampler.py) keep per request:   *)
(* the seeded generators and output_logprobs.  Every request whose token   *)
(* is not reusable (kind.greedy is FALSE) is taken to be seeded and to ask *)
(* for log-probabilities.                                                  *)
(*                                                                         *)
(* _sample runs on every row of a forward, before any row is committed:    *)
(* also on a chunk that does not finish its prompt and on a rebuilt        *)
(* request, whose sampled tokens are dropped.                              *)
(***************************************************************************)
EXTENDS Engine

CONSTANT MaxGenerators   \* max_generators

ASSUME GeneratorAssumption == MaxGenerators \in Nat \ {0}

VARIABLES gens,      \* the keys of _seeded, least recently used first
          drawn,     \* draws from the request's present generator
          logprobs   \* Len(output_logprobs)

sampleVars == <<vars, gens, drawn, logprobs>>

SampleInit == /\ Init
              /\ gens = << >>
              /\ drawn = [r \in Req |-> 0] /\ logprobs = [r \in Req |-> 0]

\* Mutant: only the rows that will keep their token are sampled.
RowsThatDecode == IF pc \in {"decode", "forward"} THEN rows ELSE << >>

\* The rows of the forward that runs now, in the order of its logits.
LogitRows == CASE pc = "decode"  -> rows
               [] pc = "forward" -> rows \o [i \in 1 .. Len(plans) |-> plans[i][1]]
               [] OTHER          -> << >>

SampledRows == Keep(LogitRows, {r \in Created : ~req[r].kind.greedy})

DropOldest(g) == IF Len(g) > MaxGenerators THEN Tail(g) ELSE g

\* _row_generator: a new generator starts the seed's stream from its beginning.
RowGenerator(s, r) ==
    [gens  |-> DropOldest(Append(Without(s.gens, r), r)),
     drawn |-> [s.drawn EXCEPT ![r] = IF r \in ToSet(s.gens) THEN @ + 1 ELSE 1]]

\* Mutant: preemption drops the generator as well.
ForgottenWhenParked == {r \in Req : req'[r].state \in Terminal \cup {"WAITING"}}

\* forget, in _finish_request, _fail_request and cancel
Forgotten == {r \in Req : req'[r].state \in Terminal}

\* BatchedSampler.sample draws row by row.
AfterRows(s) ==
    LET f[i \in 0 .. Len(s)] ==
            IF i = 0 THEN [gens |-> gens, drawn |-> drawn]
            ELSE RowGenerator(f[i - 1], s[i])
    IN  f[Len(s)]

Sample ==
    /\ gens' = Keep(AfterRows(SampledRows).gens, Req \ Forgotten)
    /\ drawn' = AfterRows(SampledRows).drawn
    /\ logprobs' = [r \in Req |-> IF r \in ToSet(SampledRows) THEN logprobs[r] + 1
                                  ELSE logprobs[r]]

SampleNext == Next /\ Sample

SampleSpec == SampleInit /\ [][SampleNext]_sampleVars /\ WorkerRuns

-----------------------------------------------------------------------------
(* Between steps. *)
Settled == {r \in Created : pc = "idle" /\ ~req[r].kind.greedy}

(***************************************************************************)
(* A generator belongs to a request that has not ended, and there are      *)
(* never more than max_generators of them.                                 *)
(***************************************************************************)
GeneratorsOfTheLiving ==
    /\ Len(gens) <= MaxGenerators /\ IsInjective(gens)
    /\ \A r \in ToSet(gens) : req[r].state \notin Terminal

(***************************************************************************)
(* While the map is large enough for every request, a seeded stream is     *)
(* never started again: preemption, parking and other requests' draws      *)
(* leave the generator of a living request where it was.                   *)
(***************************************************************************)
StreamsNeverRestart ==
    [][\A r \in ToSet(SampledRows) : drawn'[r] = drawn[r] + 1]_sampleVars

(***************************************************************************)
(* No token goes without a draw and a report of its own: however chunks,   *)
(* yields, rebuilds and other requests' draws fall, a seeded request has   *)
(* drawn once per report, and at least once per token it has.              *)
(***************************************************************************)
EveryTokenDrawn ==
    \A r \in Settled : req[r].state \in {"DECODING", "FINISHED"} =>
        drawn[r] = logprobs[r] /\ drawn[r] >= Len(req[r].out)

(***************************************************************************)
(* Generators live as long as their requests and, while the map is large   *)
(* enough for every request, pay for every token.                          *)
(***************************************************************************)
GeneratorsExact == GeneratorsOfTheLiving /\ EveryTokenDrawn

(***************************************************************************)
(* output_logprobs has one entry for each output token.                    *)
(***************************************************************************)
LogprobsAligned == \A r \in Settled : logprobs[r] = Len(req[r].out)

(***************************************************************************)
(* A seeded request has drawn once for each of its tokens, however its     *)
(* prompt was cut and however often it was preempted and rebuilt.          *)
(***************************************************************************)
OneDrawPerToken ==
    \A r \in Settled : req[r].state \in {"DECODING", "FINISHED"} => drawn[r] = Len(req[r].out)

=============================================================================
