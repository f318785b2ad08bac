-------------------------- MODULE MCHandlerStorage --------------------------
(* A small instance of HandlerStorage for TLC. *)
EXTENDS HandlerStorage, TLC

Symmetry == Permutations(Handlers) \cup Permutations(Storages)
=============================================================================
