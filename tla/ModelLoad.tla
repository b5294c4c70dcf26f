----------------------------- MODULE ModelLoad ------------------------------
(***************************************************************************)
(* Loading a checkpoint: the streaming 4-bit loader, tensor by tensor, with *)
(* its refusals, and the stock loader with its tying of the output head.    *)
(*                                                                         *)
(* A tensor is named by a key, <<module, leaf>>, and its value by what it   *)
(* was made from: <<form, key>> with form "fp16" or "w4".  A rotary table   *)
(* is computed from the config.  What transformers does is external.       *)
(***************************************************************************)
EXTENDS Integers, FiniteSets

CONSTANTS Modules,         \* every module with a weight, "embed", "head" and "rotary" included
          Linears,         \* those that are nn.Linear, "head" included
          Biased,          \* the Linears the config gives a bias
          Divisible,       \* the Linears whose width is a multiple of the group
          Checkpoints,     \* sets of keys the shards may hold
          LoadConfigs          \* records [tie, targets, quantize]; targets is a set of Linears

Embed == <<"embed", "weight">>
HeadWeight == <<"head", "weight">>
Rotary == <<"rotary", "inv_freq">>
Meta == <<"meta">>
Computed == <<"computed">>
NoKey == <<>>

\* The parameters and buffers of the model the config describes.
ModelKeys ==
    {<<m, "weight">> : m \in Modules \ {"rotary"}} \cup {<<m, "bias">> : m \in Biased} \cup {Rotary}

ASSUME LoadAssumption ==
    /\ {"embed", "head", "rotary"} \subseteq Modules
    /\ "head" \in Linears /\ Linears \subseteq Modules
    /\ Biased \subseteq Linears /\ Divisible \subseteq Linears
    /\ \A c \in LoadConfigs : c.targets \subseteq Linears

VARIABLES config, checkpoint, same, pc, shells, place, left, inflight, unexpected

loadVars == <<config, checkpoint, same, pc, shells, place, left, inflight, unexpected>>

IsShell(k) == k[1] \in shells
OnMeta == {k \in ModelKeys : place[k] = Meta}

\* The head ships with its own values or with a copy of the embedding's.
Value(form, k) == <<form, IF k = HeadWeight /\ same THEN Embed ELSE k>>

----------------------------------------------------------------------------
LoadInit ==
    /\ config \in LoadConfigs
    /\ checkpoint \in Checkpoints
    /\ same \in (IF HeadWeight \in checkpoint THEN BOOLEAN ELSE {FALSE})
    /\ pc = "start"
    /\ shells = {}
    /\ place = [k \in ModelKeys |-> Meta]
    /\ left = {}
    /\ inflight = NoKey
    /\ unexpected = {}

\* Shells take the place of the targets whose width the group divides.
InstallShells ==
    /\ pc = "start" /\ config.quantize
    /\ shells' = config.targets \cap Divisible
    /\ left' = checkpoint
    /\ pc' = IF checkpoint = {} THEN "error" ELSE "stream"
    /\ UNCHANGED <<config, checkpoint, same, place, inflight, unexpected>>

\* One tensor of a shard is read; the shards and their keys come in some order.
ReadTensor ==
    /\ pc = "stream" /\ inflight = NoKey
    /\ \E k \in left : inflight' = k /\ left' = left \ {k}
    /\ UNCHANGED <<config, checkpoint, same, pc, shells, place, unexpected>>

Accepted(k) ==
    \/ IsShell(k) /\ k[2] \in {"weight", "bias"}
    \/ k \in ModelKeys                            \* _assign finds it

\* A weight of a shell is quantised, a bias of a shell is set, anything else is put where
\* its name says or noted as unexpected; the copy that was read is dropped.
Placed(k) ==
    [x \in DOMAIN place \cup {k} |->
        IF x # k THEN place[x]
        ELSE IF IsShell(k) /\ k[2] = "weight" THEN Value("w4", k) ELSE Value("fp16", k)]

PlaceTensor ==
    /\ pc = "stream" /\ inflight # NoKey
    /\ inflight' = NoKey
    /\ IF Accepted(inflight)
       THEN place' = Placed(inflight) /\ UNCHANGED unexpected
       ELSE unexpected' = unexpected \cup {inflight} /\ UNCHANGED place
    /\ UNCHANGED <<config, checkpoint, same, pc, shells, left>>

EndStream ==
    /\ pc = "stream" /\ inflight = NoKey /\ left = {}
    /\ pc' = IF unexpected # {} THEN "error" ELSE "tie"
    /\ UNCHANGED <<config, checkpoint, same, shells, place, left, inflight, unexpected>>

\* A head the shards did not bring comes from the embedding when the config ties them;
\* quantising an embedding that never came leaves the head on meta.
Requantised == IF place[Embed] = Meta THEN Meta ELSE <<"w4", Embed>>

\* Mutant: a missing head is filled whether or not the config ties it.
TieHeadUntied ==
    /\ pc = "tie"
    /\ place' = IF place[HeadWeight] = Meta THEN [place EXCEPT ![HeadWeight] = Requantised] ELSE place
    /\ pc' = "rotary"
    /\ UNCHANGED <<config, checkpoint, same, shells, left, inflight, unexpected>>

TieHead ==
    /\ pc = "tie"
    /\ IF "head" \in shells /\ place[HeadWeight] = Meta
       THEN IF config.tie
            THEN place' = [place EXCEPT ![HeadWeight] = Requantised] /\ pc' = "rotary"
            ELSE pc' = "error" /\ UNCHANGED place
       ELSE /\ place' = IF place[HeadWeight] = Meta /\ config.tie
                        THEN [place EXCEPT ![HeadWeight] = place[Embed]] ELSE place
            /\ pc' = "rotary"
    /\ UNCHANGED <<config, checkpoint, same, shells, left, inflight, unexpected>>

ReinitRotary ==
    /\ pc = "rotary"
    /\ place' = [place EXCEPT ![Rotary] = Computed]
    /\ pc' = "check"
    /\ UNCHANGED <<config, checkpoint, same, shells, left, inflight, unexpected>>

CheckMeta ==
    /\ pc = "check"
    /\ pc' = IF OnMeta = {} THEN "done" ELSE "error"
    /\ UNCHANGED <<config, checkpoint, same, shells, place, left, inflight, unexpected>>

\* from_pretrained: what the shards hold is loaded, unknown keys are ignored, a missing
\* tensor is initialised afresh, and a head that did not ship is tied.  Only complete
\* checkpoints are of interest here.
StockLoad ==
    /\ pc = "start" /\ ~config.quantize
    /\ ModelKeys \ {Rotary, HeadWeight} \subseteq checkpoint
    /\ HeadWeight \in checkpoint \/ config.tie
    /\ place' = [k \in ModelKeys |-> CASE k = Rotary -> Computed
                                       [] k = HeadWeight /\ HeadWeight \notin checkpoint -> <<"shared", Embed>>
                                       [] OTHER -> Value("fp16", k)]
    /\ pc' = "stock"
    /\ UNCHANGED <<config, checkpoint, same, shells, left, inflight, unexpected>>

\* tie_output_embeddings: two equal copies become one.
TieOutputs ==
    /\ pc = "stock"
    /\ place' = IF config.tie /\ place[HeadWeight] = place[Embed]
                THEN [place EXCEPT ![HeadWeight] = <<"shared", Embed>>] ELSE place
    /\ pc' = "done"
    /\ UNCHANGED <<config, checkpoint, same, shells, left, inflight, unexpected>>

LoadNext ==
    \/ InstallShells
    \/ ReadTensor
    \/ PlaceTensor
    \/ EndStream
    \/ TieHead
    \/ ReinitRotary
    \/ CheckMeta
    \/ StockLoad
    \/ TieOutputs

LoadSpec == LoadInit /\ [][LoadNext]_loadVars

----------------------------------------------------------------------------
LoadTypeOK ==
    /\ pc \in {"start", "stream", "tie", "rotary", "check", "stock", "done", "error"}
    /\ shells \subseteq Linears
    /\ ModelKeys \subseteq DOMAIN place
    /\ left \subseteq checkpoint /\ unexpected \subseteq checkpoint
    /\ inflight = NoKey \/ inflight \in checkpoint

\* What a tensor must be in the end, from the config and the checkpoint alone.
Expected(k) ==
    LET form == IF k[1] \in config.targets \cap Divisible /\ k[2] = "weight" /\ config.quantize
                THEN "w4" ELSE "fp16"
    IN  CASE k = Rotary -> {Computed}
          [] k = HeadWeight /\ HeadWeight \notin checkpoint ->
                IF config.tie THEN {<<form, Embed>>, <<"shared", Embed>>} ELSE {}
          [] k = HeadWeight /\ same -> {<<form, Embed>>, <<"shared", Embed>>}
          [] OTHER -> {<<form, k>>}

\* A load that succeeds leaves nothing on meta and every tensor made from its own
\* checkpoint tensor, the head from the embedding when only that was shipped: whatever
\* the order of shards and keys, the targets and the tying ("leaves nothing on meta").
LoadedIsWhole ==
    pc = "done" => \A k \in ModelKeys : place[k] \in Expected(k)

\* An error means that a tensor is missing, or that one has no home in the model; a
\* checkpoint with all of its tensors loads.
RefusalsAreJust ==
    pc = "error" => \/ ~(ModelKeys \ {Rotary} \subseteq checkpoint \cup (IF config.tie THEN {HeadWeight} ELSE {}))
                    \/ ~(checkpoint \subseteq ModelKeys)

\* "The fp16 model is never assembled anywhere": while shards stream, at most one target
\* weight exists in 16 bits.
OneCopyInFlight ==
    config.quantize =>
        Cardinality({k \in DOMAIN place : IsShell(k) /\ k[2] = "weight" /\ place[k][1] = "fp16"}
                      \cup (IF inflight # NoKey /\ IsShell(inflight) /\ inflight[2] = "weight"
                            THEN {inflight} ELSE {})) <= 1

\* The stock loader ends with one storage for a head equal to the embedding, and never
\* replaces a head that differs.
TiedExactly ==
    (pc = "done" /\ ~config.quantize) =>
        (place[HeadWeight] = <<"shared", Embed>> <=> config.tie /\ (HeadWeight \notin checkpoint \/ same))

\* "checkpoint tensors with no home in the model" are refused, a bias for a 4-bit layer
\* that has none excepted.
StrangersRefused ==
    (pc = "done" /\ config.quantize) =>
        checkpoint \subseteq ModelKeys \cup {<<p, "bias">> : p \in shells}

\* In every order of tensors a load ends with the whole model, tied as configured and
\* never doubled in memory, or is refused with cause.
LoadIsSound ==
    /\ LoadTypeOK /\ LoadedIsWhole /\ RefusalsAreJust
    /\ OneCopyInFlight /\ TiedExactly /\ StrangersRefused
=============================================================================
