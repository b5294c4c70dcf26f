------------------------------ MODULE MCMemory -------------------------------
(***************************************************************************)
(* Requests that share pages through the prefix cache, in every order.     *)
(***************************************************************************)
EXTENDS PrefixCache, TLC

Perms == Permutations(Req)

\* A full block, the same block and a partial one, and two full blocks.
MCPrompts == {<<1, 1>>, <<1, 1, 1>>, <<1, 1, 2, 2>>}
=============================================================================
