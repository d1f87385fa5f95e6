-------------------------- MODULE SchedulerPurga ---------------------------
(***************************************************************************)
(* The purge (core/purga.rs, limpieza_de_ring3): a kernel thread, here the *)
(* shell, closes all of Ring 3 in three passes and then yields until the   *)
(* dead are buried.  It runs with interrupts open, between the steps of    *)
(* everybody else.                                                         *)
(***************************************************************************)
EXTENDS Scheduler

CONSTANT VueltasMax    (* VUELTAS_MAX *)

VARIABLE purga   (* the pass to come, the processes listed (by tid) and the *)
                 (* yields done                                             *)

PurgaInit == Init /\ purga = [pase |-> "nada", pids |-> {}, vueltas |-> 0]

EnPase(pase) == EnHilo /\ current = SHELL /\ purga.pase = pase

DeRing3(t) == {i \in Slots \ {SHELL} : t[i].is_user
                                       /\ t[i].state \notin {"Empty", "Exited"}}

(* Pass 1, under the lock: who is alive; the one inside the door of the    *)
(* GPU is not listed, its death is noted.                                  *)
Apunta ==
  /\ EnPase("nada")
  /\ LET vivas == {tasks[i].tid : i \in DeRing3(tasks)} IN
       /\ purga' = [pase |-> "revoca", pids |-> vivas \ {intocable}, vueltas |-> 0]
       /\ matar' = IF intocable \in vivas THEN intocable ELSE matar
  /\ UNCHANGED <<tasks, current, next_tid, resto, trap_rsp, rampa, intocable,
                 titular, cadaver, cpu, hilo, pilas, roto, caps>>

(* Pass 2, outside the lock: revoke_all. *)
Revoca ==
  /\ EnPase("revoca")
  /\ caps' = caps \ purga.pids
  /\ purga' = [purga EXCEPT !.pase = "marca"]
  /\ UNCHANGED <<tasks, current, next_tid, resto, trap_rsp, rampa, puerta,
                 cadaver, cpu, hilo, pilas, roto>>

(* Pass 3, under the lock again: whoever is listed is marked. *)
Marca ==
  /\ EnPase("marca")
  /\ tasks' = [i \in Slots |->
       IF i \in DeRing3(tasks) /\ tasks[i].tid \in purga.pids
       THEN [tasks[i] EXCEPT !.state = "Exited"] ELSE tasks[i]]
  /\ purga' = [purga EXCEPT !.pase = "cede"]
  /\ UNCHANGED <<current, next_tid, resto, trap_rsp, rampa, puerta, cadaver, cpu,
                 hilo, pilas, roto, caps>>

(* purgar: yield_current while Ring 3 has a task, from the body of a       *)
(* thread: no trap published a frame and no epilogue follows.              *)
Cede ==
  /\ EnPase("cede")
  /\ IF purga.vueltas < VueltasMax /\ \E i \in Slots : tasks[i].is_user
     THEN LET S == ScheduleLocked(Estado(tasks, resto, trap_rsp), TRUE, 0) IN
          /\ tasks' = S.tasks /\ current' = S.current /\ resto' = S.resto
          /\ trap_rsp' = S.trap /\ rampa' = S.rampa
          /\ purga' = [purga EXCEPT !.vueltas = @ + 1]
     ELSE /\ purga' = [pase |-> "nada", pids |-> {}, vueltas |-> 0]
          /\ UNCHANGED <<tasks, current, resto, trap_rsp, rampa>>
  /\ UNCHANGED <<next_tid, puerta, cadaver, cpu, hilo, pilas, roto, caps>>

(* While it purges, the shell does nothing else. *)
PurgaNext ==
  \/ Apunta \/ Revoca \/ Marca \/ Cede
  \/ /\ \/ Reloj \/ IrqDisco
        \/ Programas /\ (cpu # tasks[SHELL].tid \/ purga.pase = "nada")
        \/ Enterrador
     /\ UNCHANGED purga

PurgaSpec == PurgaInit /\ [][PurgaNext]_<<vars, purga>>

=============================================================================
