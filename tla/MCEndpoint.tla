----------------------------- MODULE MCEndpoint -----------------------------
(* Endpoint for TLC with processes that are told apart by nothing but what  *)
(* they do: no definition of Endpoint orders or chooses among them.         *)
EXTENDS Endpoint, TLC

Symmetry == Permutations(Procs)
=============================================================================
