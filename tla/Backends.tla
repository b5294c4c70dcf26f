------------------------------ MODULE Backends ------------------------------
(***************************************************************************)
(* What an engine is built with: the registry of attention backends, which  *)
(* of them can run on this device with this geometry, the defaults of the   *)
(* device, the resolution of what the caller asked for, the graphs that may *)
(* be captured over it, and the size of the KV pool.                       *)
(*                                                                         *)
(* An engine either comes up with a backend per phase or is refused.        *)
(***************************************************************************)
EXTENDS Integers, Sequences, FiniteSets

CONSTANTS Machines,    \* records [device, zero, triton, wheel, free]; sm of the engine's
                       \* device (0 off CUDA) and of CUDA device 0, what imports, free memory
          Geometries,  \* records [head_dim, q_heads, kv_heads, block_size, kv_dtype, plain]; plain:
                       \* no sliding window, experts or latent attention
          Requests,    \* records [prefill, decode, verify, num_blocks, tiled, graphs]:
                       \* keywords of the constructor, num_blocks 0 standing for "auto"
          Custom,      \* backends an operator may register
          NameOrder,   \* backend names in the order Python compares strings
          Reserve,     \* kv_reserve_bytes
          MaxChanges   \* registrations and removals explored

None == "none"
Auto == "auto"

Registered(p, n, pri, safe) == [phase |-> p, name |-> n, priority |-> pri, graph_safe |-> safe]

\* The backends of builtin.py.
DecodeBackends ==
    {Registered("decode", "per_head", 50, TRUE), Registered("decode", "gqa", 10, TRUE),
     Registered("decode", "split_k", 20, TRUE), Registered("decode", "flash", 80, FALSE)}

PrefillBackends ==
    {Registered("prefill", "sdpa", 50, TRUE), Registered("prefill", "per_token", 30, TRUE),
     Registered("prefill", "tiled", 40, TRUE), Registered("prefill", "flash", 80, FALSE),
     Registered("prefill", "flash_dense", 45, FALSE)}

Builtin == DecodeBackends \cup PrefillBackends

\* MEASURED
Measured == [decode |-> [s75 |-> "per_head", s89 |-> "per_head"],
             prefill |-> [s75 |-> "sdpa", s89 |-> "tiled"]]
IsMeasured(sm) == sm \in {75, 89}
MeasuredName(phase, sm) == IF sm = 75 THEN Measured[phase].s75 ELSE Measured[phase].s89

ASSUME BackendsAssumption ==
    \A b \in Builtin \cup Custom : \E i \in DOMAIN NameOrder : NameOrder[i] = b.name

VARIABLES machine, geometry, registry, outcome, request, engine, changes

buildVars == <<machine, geometry, registry, outcome, request, engine, changes>>

----------------------------------------------------------------------------
(* Can a backend run here?  Each says no for a reason.                     *)

Quantized == geometry.kv_dtype \in {"int8", "fp8"}
Group == geometry.q_heads \div geometry.kv_heads

TritonRuns == geometry.head_dim <= 128 /\ machine.triton

\* The wheel is checked against CUDA device 0.
FlashInstalled == machine.zero > 0 /\ machine.wheel /\ machine.zero >= 80
FlashFits == geometry.head_dim % 8 = 0 /\ geometry.head_dim <= 256

TiledRuns == (machine.device = 0 \/ machine.device >= 80) /\ ~Quantized /\ TritonRuns

FlashRuns == FlashInstalled /\ geometry.block_size % 256 = 0 /\ FlashFits
FlashDenseRuns == ~Quantized /\ FlashInstalled /\ FlashFits
SdpaRuns == ~Quantized

SplitKRuns == ~Quantized /\ TritonRuns
GqaRuns == Group = 2 /\ ~Quantized /\ TritonRuns

\* A custom backend declares no need.
Available(b) ==
    CASE b.name \in {"per_head", "per_token"} -> TritonRuns
      [] b.name = "gqa" -> GqaRuns
      [] b.name = "split_k" -> SplitKRuns
      [] b.name = "tiled" -> TiledRuns
      [] b.name = "sdpa" -> SdpaRuns
      [] b.name = "flash" -> FlashRuns
      [] b.name = "flash_dense" -> FlashDenseRuns
      [] OTHER -> TRUE

----------------------------------------------------------------------------
(* The registry.                                                           *)

Of(phase) == {b \in registry : b.phase = phase}
Named(phase, name) == {b \in Of(phase) : b.name = name}
Candidates(phase) == {b \in Of(phase) : Available(b)}
Position(name) == CHOOSE i \in DOMAIN NameOrder : NameOrder[i] = name

\* max over (priority, name); the empty set when there is nothing to choose from.
Best(S) ==
    {b \in S : \A c \in S :
        \/ b.priority > c.priority
        \/ b.priority = c.priority /\ Position(b.name) >= Position(c.name)}

NameOf(S) == IF S = {} THEN None ELSE (CHOOSE b \in S : TRUE).name

\* resolve: the one backend, or none when it raises.
Resolve(phase, requested) ==
    IF requested \in {None, Auto} THEN Best(Candidates(phase))
    ELSE Named(phase, requested) \cap Candidates(phase)

\* Mutant: the default is named whether or not it can run here.
DefaultForced(phase) ==
    IF IsMeasured(machine.device) THEN MeasuredName(phase, machine.device)
    ELSE NameOf(Best(Of(phase)))

\* defaults_for: the measured name where it can run, else the best that can, else a name
\* for resolve to refuse.
Default(phase) ==
    LET measured == MeasuredName(phase, machine.device)
        runs == IsMeasured(machine.device) /\ Named(phase, measured) \cap Candidates(phase) # {}
    IN  IF ~runs /\ Candidates(phase) # {} THEN NameOf(Best(Candidates(phase)))
        ELSE IF IsMeasured(machine.device) THEN measured
        ELSE NameOf(Best(Of(phase)))

\* _verify_default
VerifyDefault ==
    LET runs == {b.name : b \in Candidates("prefill")}
    IN  IF machine.device >= 80 /\ "tiled" \in runs THEN "tiled"
        ELSE IF "per_token" \in runs THEN "per_token" ELSE "prefill"

----------------------------------------------------------------------------
(* The constructor, called with the keywords q.                            *)

PrefillName(q) ==
    IF q.prefill # None THEN q.prefill
    ELSE IF q.tiled THEN "tiled" ELSE Default("prefill")

DecodeName(q) == IF q.decode \in {None, Auto} THEN Default("decode") ELSE q.decode

VerifyName(q) ==
    LET name == IF q.verify \in {None, Auto} THEN VerifyDefault ELSE q.verify
    IN  IF name = "prefill" THEN PrefillName(q) ELSE name

\* ensure_supported
Supported == /\ geometry.head_dim <= 128 /\ geometry.head_dim % 8 = 0
             /\ geometry.q_heads % geometry.kv_heads = 0
             /\ geometry.plain

KvRuns == geometry.kv_dtype = "fp8" => (machine.device = 0 \/ machine.device >= 89)

\* Bytes of one page, for the keys and values of one layer, and of its scales.
ElementBytes == IF Quantized THEN 1 ELSE 2
BytesPerBlock == 2 * geometry.block_size * geometry.kv_heads * geometry.head_dim * ElementBytes
ScaleBytes == IF Quantized THEN 2 * geometry.block_size * geometry.kv_heads * 2 ELSE 0

\* kv_fraction is 0.95.
PoolBudget == (machine.free * 95) \div 100 - Reserve

NumBlocks(q) ==
    IF q.num_blocks # 0 THEN q.num_blocks
    ELSE IF PoolBudget < BytesPerBlock THEN 1 ELSE PoolBudget \div BytesPerBlock

\* On a CUDA device the pool must fit what is free; "auto" needs one.
PoolRefused(q) ==
    \/ q.num_blocks = 0 /\ machine.device = 0
    \/ machine.device > 0 /\ NumBlocks(q) * BytesPerBlock > machine.free

EngineOf(q) ==
    LET prefill == CHOOSE b \in Resolve("prefill", PrefillName(q)) : TRUE
        decode == CHOOSE b \in Resolve("decode", DecodeName(q)) : TRUE
    IN  [prefill |-> prefill, decode |-> decode,
         verify |-> CHOOSE b \in Resolve("prefill", VerifyName(q)) : TRUE,
         decode_graphs |-> decode.graph_safe,
         prefill_graphs |-> q.graphs /\ prefill.graph_safe,
         blocks |-> NumBlocks(q)]

Refused(q) ==
    \/ Resolve("prefill", PrefillName(q)) = {} \/ Resolve("decode", DecodeName(q)) = {}
    \/ Resolve("prefill", VerifyName(q)) = {}
    \/ ~Supported \/ ~KvRuns \/ PoolRefused(q)

Construct ==
    /\ outcome = "none"
    /\ \E q \in Requests :
         /\ request' = q
         /\ \/ Refused(q) /\ outcome' = "refused" /\ UNCHANGED engine
            \/ ~Refused(q) /\ outcome' = "up" /\ engine' = EngineOf(q)
    /\ UNCHANGED <<machine, geometry, registry, changes>>

\* A known name is refused unless replace.
Register ==
    /\ outcome = "none" /\ changes < MaxChanges
    /\ \E b \in Custom, replace \in BOOLEAN :
         /\ Named(b.phase, b.name) = {} \/ replace
         /\ registry' = (registry \ Named(b.phase, b.name)) \cup {b}
    /\ changes' = changes + 1
    /\ UNCHANGED <<machine, geometry, outcome, request, engine>>

Unregister ==
    /\ outcome = "none" /\ changes < MaxChanges
    /\ \E b \in registry : registry' = registry \ {b}
    /\ changes' = changes + 1
    /\ UNCHANGED <<machine, geometry, outcome, request, engine>>

BuildInit ==
    /\ machine \in Machines
    /\ geometry \in Geometries
    /\ registry = Builtin
    /\ outcome = "none"
    /\ request = <<>>
    /\ engine = <<>>
    /\ changes = 0

BuildNext ==
    \/ Construct
    \/ Register
    \/ Unregister

BuildSpec == BuildInit /\ [][BuildNext]_buildVars

----------------------------------------------------------------------------
IsUp == outcome = "up"
Serving == {engine.prefill, engine.decode, engine.verify}

\* The registry holds one backend per phase and name, and an engine is built from it.
BuildTypeOK ==
    /\ registry \subseteq Builtin \cup Custom
    /\ \A b, c \in registry : b.phase = c.phase /\ b.name = c.name => b = c
    /\ outcome # "none" => request \in Requests
    /\ IsUp => /\ engine.prefill \in Of("prefill") /\ engine.decode \in Of("decode")
               /\ engine.verify \in Of("prefill") /\ engine.blocks \in Nat \ {0}

\* "A named backend that cannot run raises, quoting the reason": what the operator named is
\* what the engine is built with, or there is no engine.
NamedIsServed ==
    IsUp => /\ request.prefill \notin {None, Auto} => engine.prefill.name = request.prefill
            /\ request.decode \notin {None, Auto} => engine.decode.name = request.decode
            /\ request.verify \notin {None, Auto, "prefill"} => engine.verify.name = request.verify
            /\ (request.prefill = None /\ request.tiled) => engine.prefill.name = "tiled"

\* A caller who names nothing gets an engine wherever each phase has a backend that can
\* run and the model, the storage and the memory are served: "A measured default that
\* cannot run here must not be forced".
DefaultsComeUp ==
    outcome = "refused" =>
        \/ request.prefill \notin {None, Auto} \/ request.tiled
        \/ request.decode \notin {None, Auto} \/ request.verify \notin {None, Auto, "prefill"}
        \/ Candidates("decode") = {} \/ Candidates("prefill") = {}
        \/ ~Supported \/ ~KvRuns \/ PoolRefused(request)

\* Decode, prefill and fused graphs are captured only over backends that are safe to
\* capture, whatever was registered, replaced or asked for.
GraphsAreSafe ==
    IsUp => /\ engine.decode_graphs => engine.decode.graph_safe
            /\ engine.prefill_graphs => engine.prefill.graph_safe

\* "the backends that read fp16 pages directly ... cannot run on one and say so": over a
\* scaled pool the engine runs the dequantising pair that per_head and per_token stand for,
\* so it never comes up reporting another, except FlashAttention with its own page size.
PoolIsRead ==
    (IsUp /\ Quantized) =>
        \A b \in Serving \cap Builtin :
            \/ b.name \in {"per_head", "per_token"}
            \/ b.name \in {"flash", "flash_dense"} /\ geometry.block_size = 256

\* FlashAttention needs sm_80, on the device it runs on if there is only one.
RunsOnItsDevice ==
    (IsUp /\ machine.device > 0 /\ \E b \in Serving : b.name \in {"flash", "flash_dense"}) =>
        machine.device >= 80 \/ (machine.zero >= 80 /\ machine.zero # machine.device)

\* ""auto" (the default) takes the measured default for the architecture", wherever what
\* was measured can run (in the prefill phase only when nothing is passed).
AutoIsMeasured ==
    \A phase \in {"decode", "prefill"} :
        LET measured == MeasuredName(phase, machine.device)
        IN  (/\ IsUp /\ IsMeasured(machine.device)
             /\ request[phase] = None \/ (request[phase] = Auto /\ phase = "decode")
             /\ ~request.tiled
             /\ Named(phase, measured) \cap Candidates(phase) # {})
            => engine[phase].name = measured

\* A pool that is accepted can be allocated: its pages and its scales fit what is free.
PoolFits ==
    (IsUp /\ machine.device > 0) =>
        engine.blocks * (BytesPerBlock + ScaleBytes) <= machine.free

\* A pool sized from what is free leaves the reserve for graphs and activations alone, its
\* scales included, unless not even one page fits beside the reserve.
ReserveKept ==
    (IsUp /\ request.num_blocks = 0 /\ PoolBudget >= BytesPerBlock) =>
        engine.blocks * (BytesPerBlock + ScaleBytes) + Reserve <= machine.free

\* An engine that comes up serves what was asked for or measured, on kernels, storage and
\* memory that exist; otherwise it is refused for a reason.
EngineAsAsked ==
    /\ BuildTypeOK /\ NamedIsServed /\ DefaultsComeUp /\ GraphsAreSafe
    /\ PoolIsRead /\ RunsOnItsDevice /\ AutoIsMeasured /\ ReserveKept
=============================================================================
