------------------------------ MODULE MCService ------------------------------
(* Two or three client threads, the worker and the shutdown thread. *)
EXTENDS Service
=============================================================================
