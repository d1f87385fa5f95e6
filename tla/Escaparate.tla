----------------------------- MODULE Escaparate -----------------------------
(***************************************************************************)
(* What a lamina promises to the window that shows it                      *)
(* (platform/shared/verrano/src/lamina.rs): the app publishes one frame    *)
(* after another, the desktop takes the one that is published when it      *)
(* takes it, and either shows that frame or lets it go.                    *)
(***************************************************************************)
EXTENDS Naturals

VARIABLES
  publicado,   (* the last frame published; 0, none *)
  tomado,      (* the frame that the desktop took *)
  mostrado     (* the frame in the window *)

Init == publicado = 0 /\ tomado = 0 /\ mostrado = 0

Publica ==
  /\ publicado' = publicado + 1
  /\ UNCHANGED <<tomado, mostrado>>

Toma ==
  /\ tomado' = publicado
  /\ UNCHANGED <<publicado, mostrado>>

Muestra ==
  /\ mostrado' = tomado
  /\ UNCHANGED <<publicado, tomado>>

(* The drawing failed: the window keeps what it had. *)
Pierde ==
  /\ tomado' = mostrado
  /\ UNCHANGED <<publicado, mostrado>>

Next == Publica \/ Toma \/ Muestra \/ Pierde

Spec == Init /\ [][Next]_<<publicado, tomado, mostrado>>
=============================================================================
