---------------------------- MODULE MCSpecEngine ----------------------------
(* Workloads and a draft model for the speculative worker. *)
EXTENDS SpecEngine, MCEngine

\* Agrees with MCModel except on contexts of four tokens, which the second
\* proposal for <<1, 1>> and the first for <<1, 1, 2>> meet.
MCDraft(c) == IF Len(c) = 4 THEN 3 - MCModel(c) ELSE MCModel(c)

\* Proposals accepted, cut after the first token and rejected at once, a stop
\* token inside a round, and rows that fall back near their limit.
Speculative == {K(<<1, 1>>, 5, TRUE, {}, TRUE), K(<<1, 1, 2>>, 3, TRUE, {2}, TRUE)}
=============================================================================
