--------------------------- MODULE MCSampledEngine ---------------------------
(* Seeded requests beside greedy ones. *)
EXTENDS SampledEngine, MCEngine

\* A seeded prompt of one chunk beside what Oversize has.
Seeded == Oversize \cup {K(<<1, 1>>, 3, FALSE, {}, FALSE)}
=============================================================================
