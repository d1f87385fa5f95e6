-------------------------------- MODULE Rpc --------------------------------
(***************************************************************************)
(* What an endpoint promises: the calls made to it are taken one by one in *)
(* the order they were made, and each is answered at most once, by whoever *)
(* took it, or by the kernel when its endpoint closes before it is taken   *)
(* or there is no way left to answer it.  A call whose taker died is never *)
(* answered: that is no promise, but it is what the code does.             *)
(***************************************************************************)
EXTENDS Naturals, Sequences

CONSTANTS Procs, Endpoints

VARIABLES
  cola,   (* cola[e]: who has called e and was not taken yet, in order *)
  fase,   (* where the call of each process is                         *)
  quien   (* who took the call of each process                         *)

vars == <<cola, fase, quien>>

Llamantes(q) == {q[k] : k \in 1 .. Len(q)}

Init ==
  /\ cola = [e \in Endpoints |-> <<>>]
  /\ fase = [c \in Procs |-> "libre"]
  /\ quien = [c \in Procs |-> c]

Pide(c, e) ==
  /\ fase[c] = "libre"
  /\ cola' = [cola EXCEPT ![e] = Append(@, c)]
  /\ fase' = [fase EXCEPT ![c] = "pedida"]
  /\ UNCHANGED quien

(* The first in the queue is taken, or refused for want of room. *)
Coge(s, e) ==
  /\ cola[e] # <<>>
  /\ cola' = [cola EXCEPT ![e] = Tail(@)]
  /\ \/ /\ fase' = [fase EXCEPT ![Head(cola[e])] = "cogida"]
        /\ quien' = [quien EXCEPT ![Head(cola[e])] = s]
     \/ /\ fase' = [fase EXCEPT ![Head(cola[e])] = "libre"]
        /\ UNCHANGED quien

Contesta(s, c) ==
  /\ fase[c] = "cogida" /\ quien[c] = s
  /\ fase' = [fase EXCEPT ![c] = "libre"]
  /\ quien' = [quien EXCEPT ![c] = c]
  /\ UNCHANGED cola

(* The endpoints of a dead server close, and all that wait in them hear it. *)
Cierra(es) ==
  /\ cola' = [e \in Endpoints |-> IF e \in es THEN <<>> ELSE cola[e]]
  /\ fase' = [c \in Procs |-> IF \E e \in es : c \in Llamantes(cola[e])
                              THEN "libre" ELSE fase[c]]
  /\ UNCHANGED quien

(* Whoever it had taken is left without an answer. *)
Abandona(s) ==
  /\ fase' = [c \in Procs |-> IF fase[c] = "cogida" /\ quien[c] = s
                              THEN "huerfana" ELSE fase[c]]
  /\ quien' = [c \in Procs |-> IF quien[c] = s THEN c ELSE quien[c]]
  /\ UNCHANGED cola

Next ==
  \/ \E p \in Procs, e \in Endpoints : Pide(p, e) \/ Coge(p, e)
  \/ \E s, c \in Procs : Contesta(s, c)
  \/ \E es \in SUBSET Endpoints : Cierra(es)
  \/ \E s \in Procs : Abandona(s)

Spec == Init /\ [][Next]_vars
=============================================================================
