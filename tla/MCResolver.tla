----------------------------- MODULE MCResolver -----------------------------
(* Resolver for TLC: the queries and threads are model values of the cfg. *)
EXTENDS Resolver
=============================================================================
