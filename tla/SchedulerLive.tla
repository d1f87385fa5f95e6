--------------------------- MODULE SchedulerLive ---------------------------
(***************************************************************************)
(* What the scheduler of module Scheduler gets done, given that the timer  *)
(* beats and that whoever has the CPU again and again gets on.  tic tells  *)
(* beats of the timer from steps that leave the scheduler as it was.       *)
(***************************************************************************)
EXTENDS Scheduler

VARIABLE tic     (* flips with every interrupt of the timer *)

LiveInit == Init /\ tic = 0

LiveNext ==
  \/ Reloj /\ tic' = 1 - tic
  \/ (IrqDisco \/ Programas \/ Enterrador) /\ UNCHANGED tic

(* A kernel thread ends its turn by parking. *)
Descansa == \E key \in {Nada, Disco}, plazo \in {0, MaxPlazo} : Aparca(key, plazo)

(* Nothing is asked of programs: one may compute forever.  Inside the door *)
(* a task gets on because the two seconds of entrar bound its wait and the *)
(* deadlines of every order bound the GPU's; this is the strong fairness   *)
(* of Toma, Desiste and Sal with what enables them spelt out.              *)
Fairness ==
  /\ WF_tic(tic' = 1 - tic)
  /\ SF_vars(Enterrador)
  /\ SF_vars(current # SHELL /\ Descansa)
  /\ \A t \in Tids :
       []<>(cpu = t /\ hilo[t].lugar \in {"espera", "dentro"}) =>
         []<><<hilo'[t].lugar # hilo[t].lugar \/ hilo'[t].fin # hilo[t].fin>>_hilo

LiveSpec == LiveInit /\ [][LiveNext]_<<vars, tic>> /\ Fairness

----------------------------------------------------------------------------
Lista(t) == \E i \in Slots \ {IDLE} : tasks[i].tid = t /\ tasks[i].state = "Ready"
Muerta(t) == \E i \in Slots : tasks[i].tid = t /\ tasks[i].state = "Exited"

(* choose_next, QUANTUM_DELANTE: the wheel leaves nobody out; whoever is   *)
(* ready runs, or dies, in the end.                                        *)
EveryoneGetsATurn == \A t \in Tids : Lista(t) ~> ~Lista(t)

(* despues_del_cambio, enterrador::hilo: every dead task is buried, and    *)
(* its slot and its stack are free again.                                  *)
DeadAreBuried ==
  \A t \in Tids :
    Muerta(t) ~> (t \notin pilas /\ \A i \in Slots : tasks[i].tid # t)

(* con_la_gpu, iommu: a death noted in the door comes about once the task  *)
(* has left it, whatever it was doing there.                               *)
NotedDeathComes ==
  \A t \in Tids :
    matar = t ~> \A i \in Slots : tasks[i].tid = t => tasks[i].state = "Exited"
=============================================================================
