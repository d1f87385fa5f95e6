------------------------------- MODULE Carga --------------------------------
(***************************************************************************)
(* What the table of files promises to the programs that read theirs while *)
(* they still come (ARCH_OP_LISTO and WAIT: obj/file.rs, secuencia of      *)
(* obj/cargando.rs): the pieces that may be read are the first ones of the *)
(* file, more of them each time until no more come; a load that ended does *)
(* not go on; and who sleeps is awake after the step that brings any news. *)
(*                                                                         *)
(* One step of the disk may bring news to several slots, so a step is what *)
(* each of them sees of it.                                                *)
(***************************************************************************)
EXTENDS Naturals

CONSTANTS Ranuras,   (* the slots *)
          Trozos     (* the pieces of a file *)

VARIABLES
  abierto,           (* per slot: whether a program holds it *)
  leible,            (* per slot: the pieces that may be read, by their place *)
  viene,             (* per slot: whether more may come *)
  duermen            (* the slots whose program sleeps until there is news *)

vars == <<abierto, leible, viene, duermen>>

Primeros(n) == [k \in 1..n |-> k]
Nuevo(i) == leible'[i] = Primeros(0) /\ i \notin duermen'

Init ==
  /\ abierto = [i \in Ranuras |-> FALSE]
  /\ leible = [i \in Ranuras |-> Primeros(0)]
  /\ viene = [i \in Ranuras |-> FALSE]
  /\ duermen = {}

Abre(i) == ~abierto[i] /\ abierto'[i] /\ viene'[i] /\ Nuevo(i)

(* It comes to its end with the last piece, or is cut after any. *)
Llega(i) ==
  /\ viene[i] /\ abierto'[i] = abierto[i] /\ i \notin duermen'
  /\ \E n \in 1..Trozos : /\ n \notin DOMAIN leible[i]
                          /\ leible'[i] = Primeros(n)
                          /\ viene'[i] => n < Trozos

(* The disk failed: the file stays short, and that is news too. *)
Corta(i) ==
  /\ viene[i] /\ ~viene'[i] /\ i \notin duermen'
  /\ abierto'[i] = abierto[i] /\ leible'[i] = leible[i]

Espera(i) ==
  /\ viene[i] /\ viene'[i] /\ i \in duermen'
  /\ abierto'[i] = abierto[i] /\ leible'[i] = leible[i]

Cierra(i) == abierto[i] /\ ~abierto'[i] /\ ~viene'[i] /\ Nuevo(i)

Queda(i) ==
  /\ abierto'[i] = abierto[i] /\ leible'[i] = leible[i] /\ viene'[i] = viene[i]
  /\ i \in duermen' <=> i \in duermen

Next == \A i \in Ranuras :
          Abre(i) \/ Llega(i) \/ Corta(i) \/ Espera(i) \/ Cierra(i) \/ Queda(i)

Spec == Init /\ [][Next]_vars
=============================================================================
