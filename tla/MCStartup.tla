----------------------------- MODULE MCStartup ------------------------------
(***************************************************************************)
(* Bringing an engine up: the weights are loaded (ModelLoad), backends and *)
(* a pool are chosen (Backends), and the shapes that will be served are    *)
(* captured (GraphShapes).  A behaviour is about one of the three; the     *)
(* others stay at their first initial state.                               *)
(***************************************************************************)
EXTENDS ModelLoad, Backends, GraphShapes

VARIABLE about

-----------------------------------------------------------------------------
(* A model with one target of each kind: biased, plain and not divisible,  *)
(* and a head.  Checkpoints miss at most two tensors and carry at most one *)
(* more.                                                                   *)

MCModules == {"embed", "norm", "q", "down", "odd", "head", "rotary"}
MCLinears == {"q", "down", "odd", "head"}

Required == ModelKeys \ {Rotary}
Extras == {{}, {<<"other", "weight">>}, {Rotary}, {<<"q", "qweight">>}, {<<"down", "bias">>}}

MCCheckpoints ==
    {(Required \ m) \cup e : <<m, e>> \in {m \in SUBSET Required : Cardinality(m) <= 2} \X Extras}
      \cup {{}}

MCLoadConfigs ==
    {[tie |-> t, targets |-> s, quantize |-> q] :
        t \in BOOLEAN, s \in {MCLinears, {"q", "down"}}, q \in BOOLEAN}

-----------------------------------------------------------------------------
(* Devices of three generations and none, with and without Triton and the  *)
(* FlashAttention wheel; head sizes around the kernels' limit; both page   *)
(* sizes; every storage type; every name an operator can pass.             *)

Order == <<"flash", "flash_dense", "gqa", "mine", "per_head", "per_token", "sdpa", "split_k", "tiled">>

\* sm 0 is a machine without CUDA, where nothing is asked about device 0 either.
OneCard ==
    {[device |-> sm, zero |-> sm, triton |-> t, wheel |-> w, free |-> 5000000] :
        sm \in {0, 75, 86, 89}, t \in BOOLEAN, w \in BOOLEAN}

\* Memory for a few pages only, as it is after the weights of a large model.
SmallCard ==
    {[device |-> 86, zero |-> 86, triton |-> TRUE, wheel |-> FALSE, free |-> f] :
        f \in {1000, 6000, 16500, 33000, 90000}}

\* Two cards of different generations, the engine on the second.
TwoCards ==
    {[device |-> x[1], zero |-> x[2], triton |-> TRUE, wheel |-> TRUE, free |-> 5000000] :
        x \in {<<75, 89>>, <<89, 75>>}}

Cards == OneCard \cup TwoCards \cup SmallCard

G(d, q, k, b, kv) == [head_dim |-> d, q_heads |-> q, kv_heads |-> k, block_size |-> b,
                         kv_dtype |-> kv, plain |-> TRUE]

MCGeometries ==
    {G(d, q, 2, b, kv) : d \in {64, 256}, q \in {4, 6}, b \in {16, 256}, kv \in {"float16", "int8", "fp8"}}
      \cup {[G(64, 4, 2, 16, "float16") EXCEPT !.plain = FALSE], G(64, 5, 2, 16, "float16")}

Q(p, d, v, n, t) == [prefill |-> p, decode |-> d, verify |-> v, num_blocks |-> n, tiled |-> t,
                    graphs |-> TRUE]

Names(phases) == {b.name : b \in {c \in Builtin \cup Custom : c.phase = phases}}

MCRequests ==
    {Q(p, None, None, 4, FALSE) : p \in Names("prefill") \cup {None, Auto, "missing"}}
      \cup {Q(None, d, None, 4, FALSE) : d \in Names("decode") \cup {Auto, "missing"}}
      \cup {Q(None, None, v, 4, FALSE) : v \in Names("prefill") \cup {"prefill", Auto}}
      \cup {Q(None, None, None, 4, TRUE), Q(None, None, None, 0, FALSE),
            [Q(None, None, None, 4, FALSE) EXCEPT !.graphs = FALSE]}

MCCustom == {[phase |-> "prefill", name |-> "mine", priority |-> 90, graph_safe |-> FALSE],
             [phase |-> "decode", name |-> "per_head", priority |-> 80, graph_safe |-> TRUE]}

-----------------------------------------------------------------------------
(* Engine configurations with the code's own sizes: paged prefill, or a    *)
(* gather whose pool holds every row bucket at the longest context, or     *)
(* does not, or is smaller than one context.                               *)

Base == [buckets |-> {1, 2, 4}, maxActive |-> 5, pool |-> 8192, maxLen |-> 1000,
         kind |-> "tiled", decode |-> "per_head", dtype |-> "fp16", fused |-> TRUE,
         prefillRows |-> 4, fusedRows |-> 2, fails |-> {}]

MCGraphConfigs ==
    {Base, [Base EXCEPT !.buckets = {4}], [Base EXCEPT !.buckets = {}],
     [Base EXCEPT !.fused = FALSE, !.pool = 1024],
     [Base EXCEPT !.kind = "sdpa"], [Base EXCEPT !.kind = "sdpa", !.fails = {"fused"}],
     [Base EXCEPT !.fails = {"prefill", "fused"}],
     [Base EXCEPT !.decode = "split_k"], [Base EXCEPT !.maxLen = 128],
     [Base EXCEPT !.kind = "sdpa", !.decode = "split_k"], [Base EXCEPT !.dtype = "int8"],
     [Base EXCEPT !.kind = "sdpa", !.pool = 2048],
     [Base EXCEPT !.kind = "sdpa", !.pool = 900, !.buckets = {2}, !.maxActive = 2]}

-----------------------------------------------------------------------------
NoLoad == /\ config = (CHOOSE c \in LoadConfigs : TRUE)
          /\ checkpoint = {} /\ same = FALSE
NoBuild == machine = (CHOOSE m \in Machines : TRUE) /\ geometry = (CHOOSE g \in Geometries : TRUE)
NoGraphs == cfg = Base

StartupInit ==
    /\ \/ about = "load" /\ NoBuild /\ NoGraphs
       \/ about = "build" /\ NoLoad /\ NoGraphs
       \/ about = "graphs" /\ NoLoad /\ NoBuild
    /\ LoadInit /\ BuildInit /\ GraphInit

StartupNext ==
    \/ about = "load" /\ LoadNext /\ UNCHANGED <<about, buildVars, graphVars>>
    \/ about = "build" /\ BuildNext /\ UNCHANGED <<about, loadVars, graphVars>>
    \/ about = "graphs" /\ GraphNext /\ UNCHANGED <<about, loadVars, buildVars>>

StartupSpec == StartupInit /\ [][StartupNext]_<<about, loadVars, buildVars, graphVars>>
=============================================================================
