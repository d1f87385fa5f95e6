------------------------------ MODULE Estuario ------------------------------
(***************************************************************************)
(* What a channel promises: two queues.  A request is answered, or         *)
(* consumed without an answer, in the order in which it was made; an       *)
(* answer is handed over once, whole, in the order in which it was given.  *)
(* No rings, indices, bells or budgets.                                    *)
(***************************************************************************)
EXTENDS Naturals, Sequences

CONSTANTS Ops,    (* operation codes, Vacio among them *)
          Vacio,  (* the one that says nothing *)
          Nada    (* no answer was handed over yet *)

VARIABLES peticiones,   (* requests made and not yet served *)
          respuestas,   (* answers given and not yet handed over *)
          cuenta,       (* messages so far: each has a number of its own *)
          ultima        (* the last answer handed over *)

vars == <<peticiones, respuestas, cuenta, ultima>>

Init == /\ peticiones = <<>>
        /\ respuestas = <<>>
        /\ cuenta = 0
        /\ ultima = Nada

Mensaje(op) == [op |-> op, arg |-> cuenta + 1]

Pide(op) ==
  /\ peticiones' = Append(peticiones, Mensaje(op))
  /\ cuenta' = cuenta + 1
  /\ UNCHANGED <<respuestas, ultima>>

Contesta ==
  /\ peticiones # <<>>
  /\ peticiones' = Tail(peticiones)
  /\ respuestas' = Append(respuestas, Head(peticiones))
  /\ UNCHANGED <<cuenta, ultima>>

Consume ==
  /\ peticiones # <<>>
  /\ peticiones' = Tail(peticiones)
  /\ UNCHANGED <<respuestas, cuenta, ultima>>

Publica(op) ==
  /\ respuestas' = Append(respuestas, Mensaje(op))
  /\ cuenta' = cuenta + 1
  /\ UNCHANGED <<peticiones, ultima>>

Entrega ==
  /\ respuestas # <<>>
  /\ respuestas' = Tail(respuestas)
  /\ ultima' = IF Head(respuestas).op = Vacio THEN ultima ELSE Head(respuestas)
  /\ UNCHANGED <<peticiones, cuenta>>

Next == \/ \E op \in Ops : Pide(op) \/ Publica(op)
        \/ Contesta \/ Consume \/ Entrega

Spec == Init /\ [][Next]_vars
=============================================================================
