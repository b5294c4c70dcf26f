----------------------------- MODULE MCStaging -----------------------------
(* Instances of Staging: three requests that share a small pool.           *)
EXTENDS Staging

MCPrompt == [r \in Requests |-> IF r = 1 THEN 3 ELSE 2]
============================================================================
