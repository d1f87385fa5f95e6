----------------------------- MODULE MCPrestamo -----------------------------
(* Prestamo on a small instance; pids and frames are only compared, so     *)
(* that any of them may stand for another.                                 *)
EXTENDS Prestamo, TLC

Simetria == Permutations(Procesos) \cup Permutations(Marcos)
=============================================================================
