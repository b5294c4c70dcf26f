------------------------------ MODULE MCEngine ------------------------------
(* Workloads and a deterministic model for the Engine instances. *)
EXTENDS Engine

\* A next token that depends on the tokens of the context and on its length;
\* <<1, 1, 2>> continues with 1, 2, 1.
MCModel(c) ==
    1 + (((Len(c) \div 2) + Cardinality({i \in 1 .. Len(c) : c[i] = 2})) % 2)

K(p, n, g, stop, ie) ==
    [prompt |-> p, maxNew |-> n, greedy |-> g, stop |-> stop, ignoreEos |-> ie]

MCPrompts == {<<1, 1>>, <<1, 1, 2>>, <<1, 1, 2, 2>>}

\* Prompts that share a first block, with a partial tail to copy on write;
\* greedy and sampled, ended by length, stop token and EOS.
Sharing == {K(<<1, 1>>, 2, TRUE, {2}, TRUE),
            K(<<1, 1, 2>>, 3, TRUE, {}, TRUE),
            K(<<1, 1, 2, 2>>, 2, FALSE, {}, FALSE)}

\* The same, and a request that can never fit.
Oversize == Sharing \cup {K(<<1, 1, 2, 2>>, 4, TRUE, {}, TRUE)}
=============================================================================
