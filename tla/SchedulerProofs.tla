-------------------------- MODULE SchedulerProofs --------------------------
(***************************************************************************)
(* Proofs about Scheduler, for any number of slots and tids, any quanta,   *)
(* deadlines, keys and kernel threads.                                     *)
(*                                                                         *)
(* The table changes in three ways: by marks (a wake, a wait, an exit, a   *)
(* death), that leave every frame where it is; by the turn, that           *)
(* schedule_locked gives and the epilogue of the stub takes; and by tasks  *)
(* that are born and buried.  Each has its lemmas; an action is one or two *)
(* of them in a row.                                                       *)
(***************************************************************************)
EXTENDS Scheduler, FiniteSetTheorems, WellFoundedInduction, TLAPS

(* The sizes, as the provers need them. *)
LEMMA Tamanos ==
  /\ NSlots \in Nat /\ NSlots > 3 /\ MaxTid \in Nat /\ MaxTid > 3
  /\ Quantum \in Nat /\ QuantumDelante \in Nat /\ Quantum > 0 /\ QuantumDelante > Quantum
  /\ MaxPlazo \in Nat /\ MaxAparte \in Nat
  /\ Hilos \subseteq (0 .. 31) \X BOOLEAN
  /\ Slots \subseteq Nat /\ SHELL \in Slots /\ IDLE \in Slots /\ 2 \in Slots /\ 3 \in Slots
  /\ SHELL # IDLE /\ SHELL # 2 /\ IDLE # 2
  /\ Tids \subseteq Nat /\ 0 \notin Tids /\ YO \in Tids /\ 1 \in Tids /\ 2 \in Tids
  BY SizesAssumption DEF Slots, Tids, SHELL, IDLE, YO

(* A set of natural numbers that is not empty has a least one. *)
LEMMA ElMenor ==
  ASSUME NEW T, T \subseteq Nat, T # {}
  PROVE  \E x \in T : \A y \in T : x <= y
<1> DEFINE R == {ss \in Nat \X Nat : ss[1] < ss[2]}
<1>1. IsWellFoundedOn(R, Nat)
  BY NatLessThanWellFounded, Zenon DEF OpToRel
<1>2. PICK x \in T : \A y \in T : ~ (<<y, x>> \in R)
  <2> HIDE DEF R
  <2> QED
    BY <1>1, WFMin
<1>3. ASSUME NEW y \in T PROVE x <= y
  <2>1. x \in Nat /\ y \in Nat /\ <<y, x>> \notin R
    BY <1>2
  <2>2. ~ (y < x)
    BY <2>1
  <2> QED
    BY <2>1, <2>2
<1> QED
  BY <1>3

----------------------------------------------------------------------------
(* Tables. *)

(* A table that the scheduler may have: slots and tids tell tasks apart,   *)
(* an empty slot is nobody's, the three tasks of boot are where they were  *)
(* and alive, and one task at most has the long turn.                      *)
BuenaTabla(t) ==
  /\ t \in [Slots -> Task]
  /\ \A i, j \in Slots : t[i].tid = t[j].tid /\ t[i].tid # 0 => i = j
  /\ \A i \in Slots : t[i].state = "Empty" <=> t[i].tid = 0
  /\ \A i \in Slots : t[i].state = "Empty" => ~t[i].is_user
  /\ t[SHELL].tid = 1 /\ ~t[SHELL].is_user /\ t[SHELL].state # "Exited"
  /\ t[IDLE].tid = 2 /\ ~t[IDLE].is_user /\ t[IDLE].state \in {"Ready", "Running"}
  /\ t[2].tid = YO /\ ~t[2].is_user /\ t[2].state # "Exited"
  /\ \A i \in Slots : ~t[i].is_user => t[i].quantum = Quantum
  /\ \A i, j \in Slots : t[i].quantum = QuantumDelante /\ t[j].quantum = QuantumDelante
                           => i = j

(* The task of a slot that is not empty, and its tid, that no other has. *)
LEMMA DeSuTid ==
  ASSUME NEW t, BuenaTabla(t), NEW i \in Slots, t[i].state # "Empty"
  PROVE  /\ t[i] \in Task /\ t[i].tid \in Tids /\ t[i].tid # 0
         /\ \A j \in Slots : t[j].tid = t[i].tid => j = i
<1>1. t[i] \in Task /\ t[i].tid # 0
  BY DEF BuenaTabla
<1>2. t[i].tid \in 0 .. MaxTid
  BY <1>1 DEF Task
<1>3. t[i].tid \in Tids
  BY <1>1, <1>2, Tamanos DEF Tids
<1> QED
  BY <1>1, <1>3 DEF BuenaTabla

(* u has the tasks of t: nobody comes or goes, and the dead stay dead. *)
Misma(t, u) ==
  \A i \in Slots :
    /\ u[i].tid = t[i].tid /\ u[i].is_user = t[i].is_user
    /\ u[i].quantum = t[i].quantum /\ u[i].priority = t[i].priority
    /\ (u[i].state = "Empty") <=> (t[i].state = "Empty")
    /\ t[i].state = "Exited" => u[i].state = "Exited"

(* Besides, every frame is where it was. *)
Marcada(t, u) ==
  Misma(t, u) /\ \A i \in Slots : u[i].context_rsp = t[i].context_rsp

(* Nobody died between t and u; or no program did. *)
NadieMuere(t, u) == \A i \in Slots : u[i].state = "Exited" => t[i].state = "Exited"
NingunPrograma(t, u) ==
  \A i \in Slots : u[i].is_user /\ u[i].state = "Exited" => t[i].state = "Exited"

(* Nobody is no program. *)
LEMMA NadieNinguno == \A t, u : NadieMuere(t, u) => NingunPrograma(t, u)
  BY DEF NadieMuere, NingunPrograma

(* One after the other. *)
LEMMA MismaSigue ==
  ASSUME NEW t, NEW u, NEW v, Misma(t, u), Misma(u, v)
  PROVE  /\ Misma(t, v)
         /\ NadieMuere(t, u) /\ NadieMuere(u, v) => NadieMuere(t, v)
  BY DEF Misma, NadieMuere

(* A good table with marks that spare the three tasks of boot is good. *)
LEMMA MismaBuena ==
  ASSUME NEW t, NEW u, BuenaTabla(t), u \in [Slots -> Task], Misma(t, u),
         u[SHELL].state # "Exited", u[IDLE].state \in {"Ready", "Running"},
         u[2].state # "Exited"
  PROVE  BuenaTabla(u)
  BY Tamanos DEF BuenaTabla, Misma

(* A task with some fields rewritten is a task. *)
LEMMA TareaMarcada ==
  ASSUME NEW x \in Task
  PROVE  /\ Despierta(x) \in Task
         /\ PasaUnTic(x) \in Task
         /\ [x EXCEPT !.state = "Ready"] \in Task
         /\ [x EXCEPT !.state = "Running"] \in Task
         /\ [x EXCEPT !.state = "Exited"] \in Task
         /\ \A q \in {Quantum, QuantumDelante} : [x EXCEPT !.quantum = q] \in Task
<1>1. Despierta(x) \in Task
  <2>1. 0 \in 0 .. MaxPlazo
    BY Tamanos
  <2>2. Nada \in Llaves \cup {Nada, Latido, Disco, Muertos}
    OBVIOUS
  <2> QED
    BY <2>1, <2>2 DEF Despierta, Task
<1>2. PasaUnTic(x) \in Task
  <2> DEFINE d == IF x.wait_deadline > 0 THEN x.wait_deadline - 1 ELSE 0
             a == IF x.apartada > 0 THEN x.apartada - 1 ELSE 0
  <2>1. d \in 0 .. MaxPlazo /\ a \in 0 .. MaxAparte
    BY Tamanos DEF Task
  <2>2. PasaUnTic(x) = [x EXCEPT !.wait_deadline = d, !.apartada = a]
    BY DEF PasaUnTic
  <2> HIDE DEF d, a
  <2> QED
    BY <2>1, <2>2 DEF Task
<1> QED
  BY <1>1, <1>2 DEF Task

(* The wakes of a set of blocked tasks. *)
LEMMA DespiertaABuena ==
  ASSUME NEW t, BuenaTabla(t), NEW Q, \A i \in Q : t[i].state = "Blocked"
  PROVE  /\ BuenaTabla(DespiertaA(t, Q)) /\ Marcada(t, DespiertaA(t, Q))
         /\ NadieMuere(t, DespiertaA(t, Q))
         /\ \A i \in Slots : DespiertaA(t, Q)[i].state =
                               IF i \in Q THEN "Ready" ELSE t[i].state
<1> DEFINE u == DespiertaA(t, Q)
<1>1. t \in [Slots -> Task]
  BY DEF BuenaTabla
<1>2. u \in [Slots -> Task]
  BY <1>1, TareaMarcada DEF DespiertaA
<1>3. \A i \in Slots : u[i] = IF i \in Q THEN Despierta(t[i]) ELSE t[i]
  BY DEF DespiertaA
<1>4. \A i \in Slots : t[i] \in Task
  BY <1>1
<1> HIDE DEF u
<1>5. Marcada(t, u)
  <2> SUFFICES ASSUME NEW i \in Slots
               PROVE  /\ u[i].tid = t[i].tid /\ u[i].is_user = t[i].is_user
                      /\ u[i].quantum = t[i].quantum /\ u[i].priority = t[i].priority
                      /\ (u[i].state = "Empty") <=> (t[i].state = "Empty")
                      /\ t[i].state = "Exited" => u[i].state = "Exited"
                      /\ u[i].context_rsp = t[i].context_rsp
    BY DEF Marcada, Misma
  <2>1. CASE i \in Q
    <3>1. u[i] = Despierta(t[i]) /\ t[i].state = "Blocked" /\ t[i] \in Task
      BY <1>3, <1>4, <2>1
    <3> QED
      BY <3>1 DEF Despierta, Task
  <2>2. CASE i \notin Q
    BY <1>3, <2>2
  <2> QED
    BY <2>1, <2>2
<1>6. \A i \in Slots : u[i].state = IF i \in Q THEN "Ready" ELSE t[i].state
  BY <1>3, <1>4 DEF Despierta, Task
<1>7. u[SHELL].state # "Exited" /\ u[IDLE].state \in {"Ready", "Running"}
      /\ u[2].state # "Exited"
  BY <1>6, Tamanos DEF BuenaTabla
<1>8. BuenaTabla(u)
  BY <1>2, <1>5, <1>7, MismaBuena DEF Marcada
<1>9. NadieMuere(t, u)
  BY <1>6 DEF NadieMuere
<1> QED
  BY <1>5, <1>6, <1>8, <1>9 DEF u

(* choose_next: somebody who may run, of the highest rank there is; else   *)
(* the idle thread; else whoever runs.                                     *)
LEMMA ElegidoDe ==
  ASSUME NEW t, BuenaTabla(t), NEW desde \in Slots
  PROVE  IF Elegibles(t) # {}
         THEN /\ ChooseNext(t, desde) \in Elegibles(t)
              /\ \A j \in Elegibles(t) : t[j].priority <= t[ChooseNext(t, desde)].priority
         ELSE ChooseNext(t, desde) = IF t[IDLE].state = "Ready" THEN IDLE ELSE desde
<1>1. CASE Elegibles(t) = {}
  BY <1>1 DEF ChooseNext
<1>2. CASE Elegibles(t) # {}
  <2> DEFINE E == Elegibles(t)
             P(i) == /\ i \in E
                     /\ \A j \in E : \/ t[i].priority > t[j].priority
                                     \/ /\ t[i].priority = t[j].priority
                                        /\ Distancia(desde, i) <= Distancia(desde, j)
  <2>1. E \subseteq Slots /\ \A i \in E : t[i].priority \in 0 .. 31
    BY DEF Elegibles, BuenaTabla, Task
  <2>2. \A i \in Slots : Distancia(desde, i) \in Nat
    BY Tamanos DEF Distancia, Slots
  <2>3. PICK m \in E : \A j \in E : t[j].priority <= t[m].priority
    <3> DEFINE K == {31 - t[i].priority : i \in E}
    <3>1. K \subseteq Nat /\ K # {}
      BY <1>2, <2>1
    <3> HIDE DEF K
    <3>2. PICK k \in K : \A l \in K : k <= l
      BY <3>1, ElMenor
    <3>3. PICK m \in E : k = 31 - t[m].priority
      BY <3>2 DEF K
    <3>4. ASSUME NEW j \in E PROVE t[j].priority <= t[m].priority
      <4>1. 31 - t[m].priority <= 31 - t[j].priority
        BY <3>2, <3>3 DEF K
      <4> QED
        BY <2>1, <4>1
    <3> QED
      BY <3>4
  <2> DEFINE A == {i \in E : t[i].priority = t[m].priority}
             D == {Distancia(desde, i) : i \in A}
  <2>4. D \subseteq Nat /\ D # {}
    BY <2>1, <2>2
  <2> HIDE DEF D
  <2>5. PICK d \in D : \A e \in D : d <= e
    BY <2>4, ElMenor
  <2>6. PICK n \in A : d = Distancia(desde, n)
    BY <2>5 DEF D
  <2>7. P(n)
    <3>1. SUFFICES ASSUME NEW j \in E, ~(t[n].priority > t[j].priority)
                   PROVE  t[n].priority = t[j].priority
                          /\ Distancia(desde, n) <= Distancia(desde, j)
      BY <2>6
    <3>2. t[j].priority = t[m].priority /\ t[n].priority = t[m].priority
      BY <2>1, <2>3, <2>6, <3>1
    <3> QED
      BY <2>5, <2>6, <3>2 DEF D
  <2>8. ChooseNext(t, desde) = CHOOSE i \in E : \A j \in E :
                                      \/ t[i].priority > t[j].priority
                                      \/ /\ t[i].priority = t[j].priority
                                         /\ Distancia(desde, i) <= Distancia(desde, j)
    BY <1>2 DEF ChooseNext
  <2> HIDE DEF E
  <2>9. P(ChooseNext(t, desde))
    BY <2>7, <2>8
  <2>10. \A j \in E : t[j].priority <= t[ChooseNext(t, desde)].priority
    BY <2>1, <2>9
  <2> QED
    BY <1>2, <2>9, <2>10 DEF E
<1> QED
  BY <1>1, <1>2

(* despues_del_cambio only wakes. *)
LEMMA DespuesBuena ==
  ASSUME NEW t, BuenaTabla(t)
  PROVE  /\ BuenaTabla(DespuesDelCambio(t)) /\ Marcada(t, DespuesDelCambio(t))
         /\ NadieMuere(t, DespuesDelCambio(t))
         /\ \A i \in Slots :
              \/ DespuesDelCambio(t)[i].state = t[i].state
              \/ t[i].state = "Blocked" /\ DespuesDelCambio(t)[i].state = "Ready"
                 /\ t[i].tid = YO
<1> DEFINE Q == {i \in Esperan(t, Muertos) : t[i].tid = YO}
<1>1. \A i \in Q : t[i].state = "Blocked" /\ t[i].tid = YO
  BY DEF Esperan
<1>2. DespuesDelCambio(t) = IF HayMuerto(t) THEN DespiertaA(t, Q) ELSE t
  BY DEF DespuesDelCambio
<1> HIDE DEF Q
<1>3. CASE HayMuerto(t)
  BY <1>1, <1>2, <1>3, DespiertaABuena
<1>4. CASE ~HayMuerto(t)
  BY <1>2, <1>4 DEF Marcada, Misma, NadieMuere
<1> QED
  BY <1>3, <1>4

----------------------------------------------------------------------------
(* The turn. *)

(* Frames that a task has on its stack besides the top one: that of the    *)
(* system call it is in, if it waits at the door or is inside.             *)
Dentro(h, x) == IF h[x].lugar \in {"espera", "dentro"} THEN 1 ELSE 0

(* Whoever waits for a turn is saved whole. *)
Guardadas(t, c, h) ==
  \A i \in Slots \ {c} :
    t[i].state \in {"Ready", "Blocked"} =>
      /\ t[i].context_rsp = [de |-> t[i].tid, n |-> h[t[i].tid].hondo]
      /\ h[t[i].tid].hondo = Dentro(h, t[i].tid) + 1

(* Only the current task runs; a user task that is current runs or is      *)
(* dead, since it gives the CPU away in the very trap that blocks it.      *)
Corre(t, c, k) ==
  /\ t[c].tid = k
  /\ \A i \in Slots : t[i].state = "Running" => i = c
  /\ t[c].state \notin {"Empty", "Ready"}
  /\ t[c].is_user => t[c].state # "Blocked"

(* Between two steps: the task that the CPU executes is the current one,   *)
(* with no frame on its stack but that of its system call, on its own      *)
(* ramp, and with that frame for its epilogue.                             *)
Sano(t, c, k, h, rp, tr) ==
  /\ BuenaTabla(t) /\ c \in Slots /\ k \in Tids /\ h \in [Tids -> Hilo]
  /\ rp \in Tids /\ tr \in Frame \cup {NoFrame}
  /\ Corre(t, c, k)
  /\ h[k].hondo = Dentro(h, k)
  /\ Guardadas(t, c, h)
  /\ c # SHELL => rp = k
  /\ t[c].is_user /\ Dentro(h, k) = 1 /\ h[k].fin # "fallo" => tr = [de |-> k, n |-> 1]

(* In a trap, before the turn: the frame of the trap is on the stack. *)
Antes(t, h) ==
  /\ BuenaTabla(t) /\ h \in [Tids -> Hilo]
  /\ current \in Slots /\ cpu \in Tids /\ rampa \in Tids
  /\ t[current].tid = cpu /\ t[current].state # "Empty"
  /\ \A i \in Slots : t[i].state = "Running" => i = current
  /\ h[cpu].hondo = Dentro(h, cpu) + 1
  /\ Guardadas(t, current, h)
  /\ current # SHELL => rampa = cpu

(* After the turn, before the epilogue: S.trap is the top frame of the     *)
(* task that is current from now on.                                       *)
Despues(S, h) ==
  /\ BuenaTabla(S.tasks) /\ h \in [Tids -> Hilo]
  /\ S.current \in Slots /\ S.rampa \in Tids /\ S.resto \in 1 .. QuantumDelante
  /\ Corre(S.tasks, S.current, S.tasks[S.current].tid)
  /\ S.trap = [de |-> S.tasks[S.current].tid, n |-> h[S.tasks[S.current].tid].hondo]
  /\ h[S.tasks[S.current].tid].hondo = Dentro(h, S.tasks[S.current].tid) + 1
  /\ Guardadas(S.tasks, S.current, h)
  /\ S.current # SHELL => S.rampa = S.tasks[S.current].tid

(* g has the threads of h, wherever their stacks have got to; those that   *)
(* are not born yet did not move.                                          *)
MismosHilos(h, g) ==
  \A x \in Tids :
    /\ g[x].lugar = h[x].lugar /\ g[x].fin = h[x].fin /\ g[x].victima = h[x].victima
    /\ (\A i \in Slots : tasks[i].tid # x) => g[x] = h[x]

(* The epilogue takes the second to the first, and breaks nothing. *)
LEMMA EpilogoSano ==
  ASSUME NEW S, NEW h, Despues(S, h), Epilogo(S, h), ~roto, Misma(tasks, S.tasks)
  PROVE  /\ Sano(tasks', current', cpu', hilo', rampa', trap_rsp')
         /\ ~roto' /\ resto' \in 1 .. QuantumDelante
         /\ tasks' = S.tasks /\ current' = S.current /\ rampa' = S.rampa
         /\ cpu' = S.tasks[S.current].tid
         /\ MismosHilos(h, hilo')
<1> DEFINE k == S.tasks[S.current].tid
           g == [h EXCEPT ![k].hondo = h[k].hondo - 1]
<1>1. S.trap.de = k /\ S.trap.n = h[k].hondo
  BY DEF Despues
<1>2. /\ roto' = (roto \/ h[S.trap.de].hondo # S.trap.n)
      /\ cpu' = S.trap.de
      /\ hilo' = [h EXCEPT ![S.trap.de].hondo = S.trap.n - 1]
      /\ trap_rsp' = Republica(S.trap)
      /\ tasks' = S.tasks /\ current' = S.current
      /\ resto' = S.resto /\ rampa' = S.rampa
  BY DEF Epilogo
<1>3. roto' = FALSE /\ cpu' = k /\ hilo' = g
  BY <1>1, <1>2
<1>4. k \in Tids /\ h[k] \in Hilo /\ h[k].hondo \in 0 .. 2
  <2>1. S.tasks[S.current] \in Task /\ k # 0
    BY DEF Despues, BuenaTabla, Corre
  <2>2. k \in Tids
    BY <2>1, Tamanos DEF Task, Tids
  <2> QED
    BY <2>2 DEF Despues, Hilo
<1>5. Dentro(h, k) \in {0, 1} /\ h[k].hondo = Dentro(h, k) + 1
  BY DEF Despues, Dentro
<1>6. /\ g \in [Tids -> Hilo]
      /\ \A x \in Tids : /\ g[x].lugar = h[x].lugar /\ g[x].fin = h[x].fin
                         /\ g[x].victima = h[x].victima
                         /\ x # k => g[x] = h[x]
      /\ g[k].hondo = Dentro(h, k)
  <2>1. h \in [Tids -> Hilo]
    BY DEF Despues
  <2>2. h[k].hondo - 1 \in 0 .. 2 /\ h[k].hondo - 1 = Dentro(h, k)
    BY <1>4, <1>5
  <2>3. g = [x \in Tids |-> IF x = k THEN [h[k] EXCEPT !.hondo = h[k].hondo - 1]
                                     ELSE h[x]]
    BY <2>1
  <2>4. [h[k] EXCEPT !.hondo = h[k].hondo - 1] \in Hilo
    BY <1>4, <2>2 DEF Hilo
  <2>5. /\ [h[k] EXCEPT !.hondo = h[k].hondo - 1].lugar = h[k].lugar
        /\ [h[k] EXCEPT !.hondo = h[k].hondo - 1].fin = h[k].fin
        /\ [h[k] EXCEPT !.hondo = h[k].hondo - 1].victima = h[k].victima
        /\ [h[k] EXCEPT !.hondo = h[k].hondo - 1].hondo = h[k].hondo - 1
    BY <1>4 DEF Hilo
  <2> HIDE DEF g
  <2> QED
    BY <1>4, <2>1, <2>2, <2>3, <2>4, <2>5
<1> HIDE DEF g
<1>7. \A x \in Tids : Dentro(g, x) = Dentro(h, x)
  BY <1>6 DEF Dentro
<1>8. Guardadas(S.tasks, S.current, g)
  <2> SUFFICES ASSUME NEW i \in Slots \ {S.current}, S.tasks[i].state \in {"Ready", "Blocked"}
               PROVE  /\ S.tasks[i].context_rsp =
                           [de |-> S.tasks[i].tid, n |-> g[S.tasks[i].tid].hondo]
                      /\ g[S.tasks[i].tid].hondo = Dentro(g, S.tasks[i].tid) + 1
    BY DEF Guardadas
  <2>1. S.tasks[i].tid # k /\ S.tasks[i].tid \in Tids
    BY DeSuTid DEF Despues
  <2> QED
    BY <1>6, <1>7, <2>1 DEF Despues, Guardadas
<1>9. /\ Republica(S.trap) \in Frame \cup {NoFrame}
      /\ Dentro(h, k) = 1 => Republica(S.trap) = [de |-> k, n |-> 1]
  <2>1. S.trap = [de |-> k, n |-> Dentro(h, k) + 1]
    BY <1>5 DEF Despues
  <2>2. S.trap \in Frame
    BY <1>4, <1>5, <2>1 DEF Frame
  <2>3. CASE S.trap.n = 2
    <3>1. Republica(S.trap) = [S.trap EXCEPT !.n = 1]
      BY <2>3 DEF Republica
    <3>2. [S.trap EXCEPT !.n = 1] = [de |-> k, n |-> 1]
      BY <2>1
    <3> QED
      BY <1>4, <3>1, <3>2 DEF Frame
  <2>4. CASE S.trap.n # 2
    BY <1>5, <2>1, <2>2, <2>4 DEF Republica
  <2> QED
    BY <2>3, <2>4
<1>10. MismosHilos(h, g)
  <2>1. \E i \in Slots : tasks[i].tid = k
    BY DEF Misma, Despues
  <2> QED
    BY <1>6, <2>1 DEF MismosHilos
<1>11. Sano(S.tasks, S.current, k, g, S.rampa, Republica(S.trap))
  BY <1>4, <1>6, <1>7, <1>8, <1>9 DEF Sano, Despues
<1> QED
  BY <1>2, <1>3, <1>10, <1>11 DEF Despues

(* The table as schedule_locked finds it: the one that leaves is ready. *)
Saliendo(t) ==
  IF t[current].state = "Running" THEN [t EXCEPT ![current].state = "Ready"] ELSE t

(* The tables that schedule_locked leaves, staying or switching. *)
Vuelve(t) == [Saliendo(t) EXCEPT ![current].state = "Running"]
Cambia(t, next, pub, castigo, m) ==
  [Saliendo(t) EXCEPT
     ![current].context_rsp = IF pub THEN m ELSE @,
     ![current].apartada = IF Saliendo(t)[current].compas /\ @ = 0 THEN castigo ELSE @,
     ![next].state = "Running"]

(* The one that leaves becomes ready, and nothing else happens. *)
LEMMA SaliendoBuena ==
  ASSUME NEW t, NEW h, Antes(t, h)
  PROVE  /\ BuenaTabla(Saliendo(t)) /\ Marcada(t, Saliendo(t)) /\ NadieMuere(t, Saliendo(t))
         /\ \A i \in Slots : /\ Saliendo(t)[i].state # "Running"
                             /\ i # current => Saliendo(t)[i] = t[i]
         /\ Saliendo(t)[current].state = IF t[current].state = "Running" THEN "Ready"
                                         ELSE t[current].state
         /\ Saliendo(t)[IDLE].state = "Ready"
<1> DEFINE u == Saliendo(t)
<1>1. t \in [Slots -> Task] /\ current \in Slots /\ \A i \in Slots : t[i] \in Task
  BY DEF Antes, BuenaTabla
<1>2. [t[current] EXCEPT !.state = "Ready"] \in Task
  BY <1>1, TareaMarcada
<1>3. u \in [Slots -> Task]
  BY <1>1, <1>2 DEF Saliendo
<1>4. \A i \in Slots : u[i] = IF i = current /\ t[current].state = "Running"
                              THEN [t[current] EXCEPT !.state = "Ready"] ELSE t[i]
  BY <1>1 DEF Saliendo
<1>5. LET x == [t[current] EXCEPT !.state = "Ready"] IN
      /\ x.tid = t[current].tid /\ x.is_user = t[current].is_user
      /\ x.quantum = t[current].quantum /\ x.priority = t[current].priority
      /\ x.context_rsp = t[current].context_rsp /\ x.state = "Ready"
  BY <1>1 DEF Task
<1> HIDE DEF u
<1>6. Marcada(t, u) /\ NadieMuere(t, u)
  BY <1>1, <1>4, <1>5 DEF Marcada, Misma, NadieMuere
<1>7. \A i \in Slots : /\ u[i].state # "Running"
                       /\ i # current => u[i] = t[i]
  BY <1>1, <1>4, <1>5 DEF Antes
<1>8. u[current].state = IF t[current].state = "Running" THEN "Ready" ELSE t[current].state
  BY <1>1, <1>4, <1>5
<1>9. /\ u[SHELL].state # "Exited" /\ u[IDLE].state \in {"Ready", "Running"}
      /\ u[2].state # "Exited"
  BY <1>1, <1>7, <1>8, Tamanos DEF Antes, BuenaTabla
<1>10. BuenaTabla(u)
  BY <1>3, <1>6, <1>9, MismaBuena DEF Antes, Marcada
<1>11. u[IDLE].state = "Ready"
  BY <1>7, <1>9, Tamanos
<1> QED
  BY <1>6, <1>7, <1>8, <1>10, <1>11 DEF u

(* Whoever is chosen is ready. *)
LEMMA ElegidoListo ==
  ASSUME NEW t, BuenaTabla(t), NEW desde \in Slots, t[IDLE].state = "Ready"
  PROVE  ChooseNext(t, desde) \in Slots /\ t[ChooseNext(t, desde)].state = "Ready"
<1>1. CASE Elegibles(t) # {}
  <2>1. ChooseNext(t, desde) \in Elegibles(t)
    BY <1>1, ElegidoDe
  <2> QED
    BY <2>1 DEF Elegibles
<1>2. CASE Elegibles(t) = {}
  <2>1. ChooseNext(t, desde) = IDLE
    BY <1>2, ElegidoDe
  <2> QED
    BY <2>1, Tamanos
<1> QED
  BY <1>1, <1>2

(* What schedule_locked does, case by case. *)
PorCasos(S, t, next, r, m, pub, castigo) ==
  /\ next = current => S = Estado(DespuesDelCambio(Vuelve(t)), r, m)
  /\ next # current =>
       S = [tasks |-> DespuesDelCambio(Cambia(t, next, pub, castigo, m)),
            current |-> next, resto |-> Saliendo(t)[next].quantum,
            trap |-> Saliendo(t)[next].context_rsp,
            rampa |-> RampaDe(Saliendo(t), next, rampa)]

(* The case of a context that is null never happens. *)
LEMMA TurnoEs ==
  ASSUME NEW t, NEW h, Antes(t, h), NEW r, NEW m, NEW pub, NEW castigo
  PROVE  PorCasos(ScheduleLocked(Estado(t, r, m), pub, castigo), t,
                  ChooseNext(Saliendo(t), current), r, m, pub, castigo)
<1> DEFINE next == ChooseNext(Saliendo(t), current)
<1>1. next \in Slots /\ Saliendo(t)[next].state = "Ready"
  <2>1. BuenaTabla(Saliendo(t)) /\ Saliendo(t)[IDLE].state = "Ready"
    BY SaliendoBuena
  <2> QED
    BY <2>1, ElegidoListo DEF Antes
<1> HIDE DEF next
<1>2. CASE next = current
  <2>1. [Estado(t, r, m) EXCEPT !.tasks = DespuesDelCambio(Vuelve(t))]
          = Estado(DespuesDelCambio(Vuelve(t)), r, m)
    BY DEF Estado
  <2>2. ScheduleLocked(Estado(t, r, m), pub, castigo)
          = [Estado(t, r, m) EXCEPT !.tasks = DespuesDelCambio(Vuelve(t))]
    BY <1>1, <1>2 DEF ScheduleLocked, Estado, Saliendo, Vuelve, next
  <2> QED
    BY <1>2, <2>1, <2>2 DEF next, PorCasos
<1>3. CASE next # current
  <2>1. Saliendo(t)[next] = t[next] /\ next \in Slots \ {current}
    BY <1>1, <1>3, SaliendoBuena
  <2>2. /\ t[next].context_rsp = [de |-> t[next].tid, n |-> h[t[next].tid].hondo]
        /\ h[t[next].tid].hondo = Dentro(h, t[next].tid) + 1
    BY <1>1, <2>1 DEF Antes, Guardadas
  <2>3. t[next].context_rsp # NoFrame
    <3>1. t[next].tid # 0
      BY <1>1, <2>1, DeSuTid DEF Antes
    <3> QED
      BY <2>2, <3>1 DEF NoFrame
  <2>4. ScheduleLocked(Estado(t, r, m), pub, castigo)
          = [tasks |-> DespuesDelCambio(Cambia(t, next, pub, castigo, m)),
             current |-> next, resto |-> Saliendo(t)[next].quantum,
             trap |-> Saliendo(t)[next].context_rsp,
             rampa |-> RampaDe(Saliendo(t), next, rampa)]
    BY <1>3, <2>1, <2>3 DEF ScheduleLocked, Estado, Saliendo, Cambia, next
  <2> QED
    BY <1>3, <2>4 DEF next, PorCasos
<1> QED
  BY <1>2, <1>3

(* The table after the turn, when the same task goes on. *)
LEMMA VuelveBuena ==
  ASSUME NEW t, NEW h, Antes(t, h), Saliendo(t)[current].state = "Ready"
  PROVE  /\ BuenaTabla(Vuelve(t)) /\ Marcada(t, Vuelve(t)) /\ NadieMuere(t, Vuelve(t))
         /\ \A i \in Slots \ {current} : Vuelve(t)[i] = t[i]
         /\ Vuelve(t)[current].state = "Running"
<1> DEFINE s == Saliendo(t)
           u == Vuelve(t)
           x == [s[current] EXCEPT !.state = "Running"]
<1>1. /\ BuenaTabla(s) /\ Marcada(t, s) /\ NadieMuere(t, s)
      /\ \A i \in Slots : /\ s[i].state # "Running"
                          /\ i # current => s[i] = t[i]
      /\ s[current].state = "Ready"
      /\ current \in Slots
  BY SaliendoBuena DEF Antes
<1>2. s \in [Slots -> Task] /\ s[current] \in Task
  BY <1>1 DEF BuenaTabla
<1>3. /\ x \in Task /\ x.tid = s[current].tid /\ x.is_user = s[current].is_user
      /\ x.quantum = s[current].quantum /\ x.priority = s[current].priority
      /\ x.context_rsp = s[current].context_rsp /\ x.state = "Running"
  BY <1>2, TareaMarcada DEF Task
<1>4. u = [s EXCEPT ![current] = x]
  BY DEF Vuelve
<1> HIDE DEF s, u, x
<1>5. /\ u \in [Slots -> Task] /\ u[current] = x
      /\ \A i \in Slots \ {current} : u[i] = s[i]
  BY <1>1, <1>2, <1>3, <1>4
<1>6. Marcada(s, u) /\ NadieMuere(s, u)
  BY <1>1, <1>3, <1>5 DEF Marcada, Misma, NadieMuere
<1>7. BuenaTabla(u)
  <2>1. u[SHELL].state # "Exited" /\ u[IDLE].state \in {"Ready", "Running"}
        /\ u[2].state # "Exited"
    BY <1>1, <1>3, <1>5, Tamanos DEF BuenaTabla
  <2> QED
    BY <1>1, <1>5, <1>6, <2>1, MismaBuena DEF Marcada
<1>8. Marcada(t, u) /\ NadieMuere(t, u)
  BY <1>1, <1>6 DEF Marcada, Misma, NadieMuere
<1> QED
  BY <1>1, <1>3, <1>5, <1>7, <1>8 DEF u

(* The table after the turn, when another task comes.                      *)
LEMMA CambiaBuena ==
  ASSUME NEW t, NEW h, Antes(t, h), NEW next \in Slots \ {current},
         Saliendo(t)[next].state = "Ready", NEW pub, NEW castigo \in 0 .. MaxAparte,
         NEW m \in Frame \cup {NoFrame}
  PROVE  LET u == Cambia(t, next, pub, castigo, m) IN
         /\ BuenaTabla(u) /\ Misma(t, u) /\ NadieMuere(t, u)
         /\ \A i \in Slots \ {current, next} : u[i] = t[i]
         /\ u[next].state = "Running" /\ u[next].context_rsp = t[next].context_rsp
         /\ u[current].state = Saliendo(t)[current].state
         /\ pub => u[current].context_rsp = m
         /\ u[current].apartada = 0 => Saliendo(t)[current].apartada = 0
<1> DEFINE s == Saliendo(t)
           u == Cambia(t, next, pub, castigo, m)
           f == IF pub THEN m ELSE s[current].context_rsp
           a == IF s[current].compas /\ s[current].apartada = 0 THEN castigo
                ELSE s[current].apartada
           x == [s[current] EXCEPT !.context_rsp = f, !.apartada = a]
           y == [s[next] EXCEPT !.state = "Running"]
<1>1. /\ BuenaTabla(s) /\ Marcada(t, s) /\ NadieMuere(t, s)
      /\ \A i \in Slots : /\ s[i].state # "Running"
                          /\ i # current => s[i] = t[i]
      /\ s[next].state = "Ready"
      /\ current \in Slots
  BY SaliendoBuena DEF Antes
<1>2. s \in [Slots -> Task] /\ s[current] \in Task /\ s[next] \in Task
  BY <1>1 DEF BuenaTabla
<1>3. /\ y \in Task /\ y.tid = s[next].tid /\ y.is_user = s[next].is_user
      /\ y.quantum = s[next].quantum /\ y.priority = s[next].priority
      /\ y.context_rsp = s[next].context_rsp /\ y.state = "Running"
  BY <1>2, TareaMarcada, ZenonT(60) DEF Task
<1>4. /\ x \in Task /\ x.tid = s[current].tid /\ x.is_user = s[current].is_user
      /\ x.quantum = s[current].quantum /\ x.priority = s[current].priority
      /\ x.context_rsp = f /\ x.state = s[current].state
      /\ x.apartada = 0 => s[current].apartada = 0
  <2>1. f \in Frame \cup {NoFrame} /\ a \in 0 .. MaxAparte
    BY <1>2 DEF Task
  <2>2. a = 0 => s[current].apartada = 0
    OBVIOUS
  <2> HIDE DEF f, a
  <2> QED
    BY <1>2, <2>1, <2>2 DEF Task
<1>5. u = [s EXCEPT ![current] = x, ![next] = y]
  BY <1>1, <1>2 DEF Cambia
<1> HIDE DEF s, u, x, y
<1>6. /\ u \in [Slots -> Task] /\ u[current] = x /\ u[next] = y
      /\ \A i \in Slots \ {current, next} : u[i] = s[i]
  BY <1>1, <1>2, <1>3, <1>4, <1>5
<1>7. Misma(s, u) /\ NadieMuere(s, u)
  BY <1>1, <1>3, <1>4, <1>6 DEF Misma, NadieMuere
<1>8. BuenaTabla(u)
  <2>1. u[SHELL].state # "Exited" /\ u[IDLE].state \in {"Ready", "Running"}
        /\ u[2].state # "Exited"
    BY <1>1, <1>3, <1>4, <1>6, Tamanos DEF BuenaTabla
  <2> QED
    BY <1>1, <1>6, <1>7, <2>1, MismaBuena
<1>9. Misma(t, u) /\ NadieMuere(t, u)
  BY <1>1, <1>7, MismaSigue DEF Marcada
<1> QED
  BY <1>1, <1>3, <1>4, <1>6, <1>8, <1>9 DEF u, s, f

(* What the turn gives: a table and a frame for the epilogue, the current  *)
(* task running, nobody come, gone or dead.                                *)
Entrega(S, t, h) ==
  /\ Despues(S, h) /\ Misma(t, S.tasks) /\ NadieMuere(t, S.tasks)
  /\ S.tasks[S.current].state = "Running"
  /\ S.rampa \in {rampa, S.tasks[S.current].tid}

(* The turn, when the same task goes on. *)
LEMMA TurnoSigue ==
  ASSUME NEW t, NEW h, Antes(t, h), Saliendo(t)[current].state = "Ready",
         NEW r \in 1 .. QuantumDelante
  PROVE  Entrega(Estado(DespuesDelCambio(Vuelve(t)), r, [de |-> cpu, n |-> h[cpu].hondo]),
                 t, h)
<1> DEFINE m == [de |-> cpu, n |-> h[cpu].hondo]
           u == DespuesDelCambio(Vuelve(t))
           S == Estado(u, r, m)
<1>1. /\ S.tasks = u /\ S.current = current /\ S.resto = r /\ S.trap = m
      /\ S.rampa = rampa
  BY DEF Estado
<1>2. /\ BuenaTabla(Vuelve(t)) /\ Marcada(t, Vuelve(t)) /\ NadieMuere(t, Vuelve(t))
      /\ \A i \in Slots \ {current} : Vuelve(t)[i] = t[i]
      /\ Vuelve(t)[current].state = "Running"
  BY VuelveBuena
<1>3. /\ BuenaTabla(u) /\ Marcada(Vuelve(t), u) /\ NadieMuere(Vuelve(t), u)
      /\ \A i \in Slots :
           \/ u[i].state = Vuelve(t)[i].state
           \/ Vuelve(t)[i].state = "Blocked" /\ u[i].state = "Ready"
  BY <1>2, DespuesBuena
<1> HIDE DEF u, S
<1>4. Marcada(t, u) /\ NadieMuere(t, u)
  BY <1>2, <1>3, MismaSigue DEF Marcada
<1>5. /\ u[current].tid = cpu /\ u[current].state = "Running"
      /\ \A i \in Slots : u[i].state = "Running" => i = current
  BY <1>2, <1>3, <1>4 DEF Antes, Marcada, Misma
<1>6. Guardadas(u, current, h)
  <2> SUFFICES ASSUME NEW i \in Slots \ {current}, u[i].state \in {"Ready", "Blocked"}
               PROVE  /\ u[i].context_rsp = [de |-> u[i].tid, n |-> h[u[i].tid].hondo]
                      /\ h[u[i].tid].hondo = Dentro(h, u[i].tid) + 1
    BY DEF Guardadas
  <2>1. t[i].state \in {"Ready", "Blocked"}
    BY <1>2, <1>3
  <2> QED
    BY <1>4, <2>1 DEF Antes, Guardadas, Marcada, Misma
<1>7. Despues(S, h)
  BY <1>1, <1>3, <1>5, <1>6 DEF Despues, Antes, Corre
<1> QED
  BY <1>1, <1>4, <1>5, <1>7 DEF Entrega, Marcada, S, u, m

(* The turn, when another task comes. *)
LEMMA TurnoCambia ==
  ASSUME NEW t, NEW h, Antes(t, h), NEW next \in Slots \ {current},
         Saliendo(t)[next].state = "Ready", NEW pub, NEW castigo \in 0 .. MaxAparte,
         NEW m \in Frame \cup {NoFrame},
         pub => m = [de |-> cpu, n |-> h[cpu].hondo],
         ~pub => t[current].state = "Exited",
         NEW S,
         S = [tasks |-> DespuesDelCambio(Cambia(t, next, pub, castigo, m)),
              current |-> next, resto |-> Saliendo(t)[next].quantum,
              trap |-> Saliendo(t)[next].context_rsp,
              rampa |-> RampaDe(Saliendo(t), next, rampa)]
  PROVE  Entrega(S, t, h)
<1> DEFINE v == Cambia(t, next, pub, castigo, m)
           u == DespuesDelCambio(v)
<1>1. /\ S.tasks = u /\ S.current = next /\ S.resto = Saliendo(t)[next].quantum
      /\ S.trap = Saliendo(t)[next].context_rsp
      /\ S.rampa = RampaDe(Saliendo(t), next, rampa)
  OBVIOUS
<1>2. /\ BuenaTabla(v) /\ Misma(t, v) /\ NadieMuere(t, v)
      /\ \A i \in Slots \ {current, next} : v[i] = t[i]
      /\ v[next].state = "Running" /\ v[next].context_rsp = t[next].context_rsp
      /\ v[current].state = Saliendo(t)[current].state
      /\ pub => v[current].context_rsp = m
  BY CambiaBuena
<1> HIDE DEF v
<1>3. /\ BuenaTabla(u) /\ Marcada(v, u) /\ NadieMuere(v, u)
      /\ \A i \in Slots :
           \/ u[i].state = v[i].state
           \/ v[i].state = "Blocked" /\ u[i].state = "Ready"
  BY <1>2, DespuesBuena
<1> HIDE DEF u
<1>4. Misma(t, u) /\ NadieMuere(t, u)
  BY <1>2, <1>3, MismaSigue DEF Marcada
<1>5. /\ Saliendo(t)[next] = t[next] /\ t[next].state = "Ready"
      /\ t[next] \in Task /\ current \in Slots
      /\ Saliendo(t)[current].state # "Running"
      /\ t[current].state = "Exited" => Saliendo(t)[current].state = "Exited"
  BY SaliendoBuena DEF Antes, BuenaTabla
<1>6. /\ u[next].tid = t[next].tid /\ u[next].state = "Running"
      /\ \A i \in Slots : u[i].state = "Running" => i = next
  BY <1>2, <1>3, <1>4, <1>5 DEF Antes, Misma
<1>7. Guardadas(u, next, h)
  <2> SUFFICES ASSUME NEW i \in Slots \ {next}, u[i].state \in {"Ready", "Blocked"}
               PROVE  /\ u[i].context_rsp = [de |-> u[i].tid, n |-> h[u[i].tid].hondo]
                      /\ h[u[i].tid].hondo = Dentro(h, u[i].tid) + 1
    BY DEF Guardadas
  <2>1. v[i].state \in {"Ready", "Blocked"} /\ u[i].tid = t[i].tid
        /\ u[i].context_rsp = v[i].context_rsp
    BY <1>3, <1>4 DEF Marcada, Misma
  <2>2. CASE i # current
    BY <1>2, <2>1, <2>2 DEF Antes, Guardadas
  <2>3. CASE i = current
    <3>1. pub
      BY <1>2, <1>5, <2>1, <2>3
    <3> QED
      BY <1>2, <2>1, <2>3, <3>1 DEF Antes
  <2> QED
    BY <2>2, <2>3
<1>8. /\ t[next].context_rsp = [de |-> t[next].tid, n |-> h[t[next].tid].hondo]
      /\ h[t[next].tid].hondo = Dentro(h, t[next].tid) + 1
  BY <1>5 DEF Antes, Guardadas
<1>9. /\ t[next].quantum \in 1 .. QuantumDelante
      /\ t[next].tid \in Tids
  <2>1. t[next].quantum \in {Quantum, QuantumDelante}
    BY <1>5 DEF Task
  <2>2. t[next].tid \in Tids
    BY <1>5, DeSuTid DEF Antes
  <2> QED
    BY <2>1, <2>2, Tamanos
<1>10. /\ S.rampa \in {rampa, t[next].tid} /\ S.rampa \in Tids
       /\ next # SHELL => S.rampa = t[next].tid
  BY <1>1, <1>5, <1>9 DEF RampaDe, Antes
<1>11. Despues(S, h)
  BY <1>1, <1>3, <1>5, <1>6, <1>7, <1>8, <1>9, <1>10 DEF Despues, Antes, Corre
<1> QED
  BY <1>1, <1>4, <1>6, <1>10, <1>11 DEF Entrega

(* schedule_locked. *)
LEMMA TurnoDa ==
  ASSUME NEW t, NEW h, Antes(t, h), NEW r \in 1 .. QuantumDelante,
         NEW m \in Frame \cup {NoFrame}, NEW pub, NEW castigo \in 0 .. MaxAparte,
         pub => m = [de |-> cpu, n |-> h[cpu].hondo],
         ~pub => t[current].state = "Exited"
  PROVE  Entrega(ScheduleLocked(Estado(t, r, m), pub, castigo), t, h)
<1> DEFINE next == ChooseNext(Saliendo(t), current)
           S == ScheduleLocked(Estado(t, r, m), pub, castigo)
<1>1. next \in Slots /\ Saliendo(t)[next].state = "Ready"
  <2>1. BuenaTabla(Saliendo(t)) /\ Saliendo(t)[IDLE].state = "Ready"
    BY SaliendoBuena
  <2> QED
    BY <2>1, ElegidoListo DEF Antes
<1>2. PorCasos(S, t, next, r, m, pub, castigo)
  BY TurnoEs
<1> HIDE DEF next, S
<1>3. CASE next = current
  <2>1. Saliendo(t)[current].state = IF t[current].state = "Running" THEN "Ready"
                                     ELSE t[current].state
    BY SaliendoBuena
  <2>2. m = [de |-> cpu, n |-> h[cpu].hondo]
    BY <1>1, <1>3, <2>1
  <2> QED
    BY <1>1, <1>2, <1>3, <2>2, TurnoSigue DEF S, PorCasos
<1>4. CASE next # current
  BY <1>1, <1>2, <1>4, TurnoCambia DEF S, PorCasos
<1> QED
  BY <1>3, <1>4

(* Whom the turn leaves waiting: nobody of higher rank, and nobody for the *)
(* idle thread, but for the undertaker that it has just woken.             *)
Postergados(S, t) ==
  \A i \in Elegibles(S.tasks) :
    \/ S.tasks[i].priority <= S.tasks[S.current].priority /\ S.current # IDLE
    \/ t[i].tid = YO /\ t[i].state = "Blocked"

(* Whoever may be chosen once the turn is given could be before, or is the *)
(* undertaker.                                                             *)
LEMMA YaElegible ==
  ASSUME NEW t, NEW h, Antes(t, h), NEW v, BuenaTabla(v), NEW next \in Slots,
         v[next].state = "Running",
         \A i \in Slots \ {current, next} : v[i] = t[i],
         current # next => v[current].state = Saliendo(t)[current].state,
         current # next /\ v[current].apartada = 0 => Saliendo(t)[current].apartada = 0,
         Misma(t, v), NEW i \in Elegibles(DespuesDelCambio(v))
  PROVE  \/ i \in Elegibles(Saliendo(t)) /\ i # next
         \/ t[i].tid = YO /\ t[i].state = "Blocked"
<1> DEFINE u == DespuesDelCambio(v)
           Q == {k \in Esperan(v, Muertos) : v[k].tid = YO}
<1>1. i \in Slots /\ i # IDLE /\ u[i].state = "Ready" /\ u[i].apartada = 0
  BY DEF Elegibles
<1>2. u[i] = v[i] \/ (v[i].state = "Blocked" /\ v[i].tid = YO)
  <2>1. u = IF HayMuerto(v) THEN DespiertaA(v, Q) ELSE v
    BY DEF DespuesDelCambio
  <2>2. DespiertaA(v, Q)[i] = IF i \in Q THEN Despierta(v[i]) ELSE v[i]
    BY <1>1 DEF DespiertaA
  <2>3. i \in Q => v[i].state = "Blocked" /\ v[i].tid = YO
    BY DEF Esperan
  <2> HIDE DEF u, Q
  <2> QED
    BY <2>1, <2>2, <2>3
<1> HIDE DEF u
<1>3. i # next /\ v[i].tid = t[i].tid
  <2>1. u[i] = v[i] => i # next
    BY <1>1
  <2> QED
    BY <1>1, <1>2, <2>1 DEF Misma
<1>4. /\ \A j \in Slots \ {current} : Saliendo(t)[j] = t[j]
      /\ Saliendo(t)[current].state = IF t[current].state = "Running" THEN "Ready"
                                      ELSE t[current].state
  BY SaliendoBuena
<1>5. CASE i # current
  BY <1>1, <1>2, <1>3, <1>4, <1>5 DEF Elegibles
<1>6. CASE i = current
  BY <1>1, <1>2, <1>3, <1>4, <1>6 DEF Elegibles
<1> QED
  BY <1>5, <1>6

(* schedule_locked honours ranks. *)
LEMMA TurnoDelMayor ==
  ASSUME NEW t, NEW h, Antes(t, h), NEW r, NEW m \in Frame \cup {NoFrame}, NEW pub,
         NEW castigo \in 0 .. MaxAparte
  PROVE  Postergados(ScheduleLocked(Estado(t, r, m), pub, castigo), t)
<1> DEFINE s == Saliendo(t)
           next == ChooseNext(s, current)
           S == ScheduleLocked(Estado(t, r, m), pub, castigo)
           v == IF next = current THEN Vuelve(t) ELSE Cambia(t, next, pub, castigo, m)
<1>1. /\ BuenaTabla(s) /\ Marcada(t, s) /\ s[IDLE].state = "Ready" /\ current \in Slots
  BY SaliendoBuena DEF Antes
<1>2. next \in Slots /\ s[next].state = "Ready"
  BY <1>1, ElegidoListo
<1>3. \A i \in Elegibles(s) : s[i].priority <= s[next].priority /\ next # IDLE
  <2> SUFFICES ASSUME NEW i \in Elegibles(s)
               PROVE  s[i].priority <= s[next].priority /\ next # IDLE
    OBVIOUS
  <2>1. next \in Elegibles(s) /\ \A j \in Elegibles(s) : s[j].priority <= s[next].priority
    BY <1>1, ElegidoDe
  <2> QED
    BY <2>1 DEF Elegibles
<1>4. PorCasos(S, t, next, r, m, pub, castigo)
  BY TurnoEs
<1> HIDE DEF next, S
<1>5. S.tasks = DespuesDelCambio(v) /\ S.current = next
  <2>1. CASE next = current
    BY <1>4, <2>1 DEF PorCasos, Estado
  <2>2. CASE next # current
    BY <1>4, <2>2 DEF PorCasos
  <2> QED
    BY <2>1, <2>2
<1>6. /\ BuenaTabla(v) /\ Misma(t, v) /\ v[next].state = "Running"
      /\ \A i \in Slots \ {current, next} : v[i] = t[i]
      /\ current # next => v[current].state = s[current].state
      /\ current # next /\ v[current].apartada = 0 => s[current].apartada = 0
  <2>1. CASE next = current
    BY <1>2, <2>1, VuelveBuena DEF Marcada
  <2>2. CASE next # current
    <3> DEFINE w == Cambia(t, next, pub, castigo, m)
    <3>1. v = w /\ next \in Slots \ {current} /\ Saliendo(t)[next].state = "Ready"
      BY <1>2, <2>2
    <3>2. /\ BuenaTabla(w) /\ Misma(t, w) /\ w[next].state = "Running"
          /\ \A i \in Slots \ {current, next} : w[i] = t[i]
          /\ w[current].state = Saliendo(t)[current].state
          /\ w[current].apartada = 0 => Saliendo(t)[current].apartada = 0
          /\ pub => w[current].context_rsp = m
      BY <1>2, <2>2, CambiaBuena
    <3> HIDE DEF w, v
    <3> QED
      BY <3>1, <3>2
  <2> QED
    BY <2>1, <2>2
<1> HIDE DEF v
<1>7. ASSUME NEW i \in Elegibles(DespuesDelCambio(v))
      PROVE  \/ DespuesDelCambio(v)[i].priority <= DespuesDelCambio(v)[next].priority
                /\ next # IDLE
             \/ t[i].tid = YO /\ t[i].state = "Blocked"
  <2> SUFFICES ASSUME i \in Elegibles(s)
               PROVE  DespuesDelCambio(v)[i].priority <= DespuesDelCambio(v)[next].priority
                      /\ next # IDLE
    BY <1>2, <1>6, YaElegible
  <2>1. \A k \in Slots : DespuesDelCambio(v)[k].priority = s[k].priority
    BY <1>1, <1>6, DespuesBuena DEF Marcada, Misma
  <2> QED
    BY <1>2, <1>3, <2>1 DEF Elegibles
<1> QED
  BY <1>5, <1>7 DEF Postergados, S

(* No turn: the task that runs, or that died in its call, goes on. *)
LEMMA QuedaDa ==
  ASSUME NEW t, NEW h, Antes(t, h), Corre(t, current, cpu), NEW r \in 1 .. QuantumDelante
  PROVE  LET S == Estado(t, r, [de |-> cpu, n |-> h[cpu].hondo]) IN
         Despues(S, h) /\ S.tasks = t /\ S.current = current /\ S.rampa = rampa
<1> DEFINE m == [de |-> cpu, n |-> h[cpu].hondo]
           S == Estado(t, r, m)
<1>1. /\ S.tasks = t /\ S.current = current /\ S.resto = r /\ S.trap = m
      /\ S.rampa = rampa
  BY DEF Estado
<1> HIDE DEF S
<1>2. Despues(S, h)
  BY <1>1 DEF Despues, Antes, Corre
<1> QED
  BY <1>1, <1>2 DEF S

----------------------------------------------------------------------------
(* The invariant. *)

(* The stack of a task that is not born yet. *)
Recien == [hondo |-> 1, lugar |-> "fuera", fin |-> "nada", victima |-> 0]

Base ==
  /\ Sano(tasks, current, cpu, hilo, rampa, trap_rsp)
  /\ roto = FALSE /\ resto \in 1 .. QuantumDelante

(* Tids are handed out in order. *)
Nacidas ==
  /\ next_tid \in 4 .. MaxTid + 1
  /\ \A i \in Slots : tasks[i].tid < next_tid
  /\ \A x \in Tids : x >= next_tid => hilo[x] = Recien
  /\ cadaver \in [slot : Slots, tid : 0 .. MaxTid] /\ cadaver.tid < next_tid

(* Whoever is inside holds the door, who holds it is inside, and a death   *)
(* that waits is the holder's.                                             *)
Puerta ==
  /\ titular \in 0 .. MaxTid /\ intocable = titular
  /\ matar \in {0, titular}
  /\ \A i \in Slots : tasks[i].tid # 0 /\ hilo[tasks[i].tid].lugar = "dentro"
                        => titular = tasks[i].tid
  /\ titular # 0 => hilo[titular].lugar = "dentro"

(* A program whose death waits has no capabilities left. *)
Muertes ==
  /\ caps \subseteq Tids
  /\ matar # 0 => matar \notin caps

(* The stacks in use are allocated; the one that the undertaker is about   *)
(* to free is a dead task's.                                               *)
Pilas ==
  /\ pilas \subseteq Tids /\ cpu \in pilas /\ rampa \in pilas
  /\ \A i \in Slots : tasks[i].state \notin {"Empty", "Exited"} => tasks[i].tid \in pilas
  /\ hilo[YO].lugar = "enterrar" =>
       /\ cadaver.tid # YO
       /\ \A i \in Slots : tasks[i].tid = cadaver.tid
                             => tasks[i].state \in {"Empty", "Exited"}

IInv == Base /\ Nacidas /\ Puerta /\ Muertes /\ Pilas

(* Nobody dies that has the GPU at work on its memory, but on the way out  *)
(* of the door (terminar, MATAR_AL_SALIR).                                 *)
MuereFuera ==
  \A i \in Slots :
    /\ tasks[i].state \notin {"Empty", "Exited"} /\ tasks'[i].state = "Exited"
    /\ hilo[tasks[i].tid].lugar = "dentro"
    => hilo'[tasks[i].tid].lugar = "fuera"

(* No program dies that is left with capabilities. *)
MuereSinCaps == \A i \in Mueren : tasks[i].tid \notin caps'

BienMuere == MuereFuera /\ MuereSinCaps

(* If nobody dies at all, least of all does anybody inside. *)
LEMMA NadieFuera == NadieMuere(tasks, tasks') => BienMuere
  BY DEF NadieMuere, BienMuere, MuereFuera, MuereSinCaps, Mueren

(* Nor does anybody if the table stays as it is. *)
LEMMA IgualFuera == tasks' = tasks => BienMuere
  BY NadieFuera DEF NadieMuere

(* A step that touches nothing of the door, the dead or the stacks, in     *)
(* which nobody dies and no thread moves but on its stack.                 *)
LEMMA RestoIgual ==
  ASSUME IInv, Misma(tasks, tasks'), NingunPrograma(tasks, tasks'),
         MismosHilos(hilo, hilo'), cpu' \in pilas, rampa' \in pilas,
         UNCHANGED <<next_tid, puerta, cadaver, pilas, caps>>
  PROVE  Nacidas' /\ Puerta' /\ Muertes' /\ Pilas'
<1>1. /\ next_tid' = next_tid /\ titular' = titular /\ intocable' = intocable
      /\ matar' = matar /\ cadaver' = cadaver /\ pilas' = pilas
      /\ caps' = caps
  BY DEF puerta
<1>2. \A i \in Slots : /\ tasks'[i].tid = tasks[i].tid
                       /\ tasks'[i].is_user = tasks[i].is_user
                       /\ (tasks'[i].state = "Empty") <=> (tasks[i].state = "Empty")
                       /\ tasks[i].state = "Exited" => tasks'[i].state = "Exited"
                       /\ tasks'[i].is_user /\ tasks'[i].state = "Exited"
                            => tasks[i].state = "Exited"
  BY DEF Misma, NingunPrograma
<1>3. Nacidas'
  <2>1. ASSUME NEW x \in Tids, x >= next_tid PROVE hilo'[x] = Recien
    <3>1. \A i \in Slots : tasks[i].tid # x
      <4>1. next_tid \in Nat /\ x \in Nat
        BY Tamanos DEF IInv, Nacidas
      <4>2. \A i \in Slots : tasks[i].tid \in Nat
        BY DEF IInv, Base, Sano, BuenaTabla, Task
      <4> QED
        BY <2>1, <4>1, <4>2 DEF IInv, Nacidas
    <3> QED
      BY <2>1, <3>1 DEF IInv, Nacidas, MismosHilos
  <2> QED
    BY <1>1, <1>2, <2>1 DEF IInv, Nacidas
<1>4. Puerta'
  <2>1. ASSUME NEW i \in Slots, tasks[i].tid # 0
        PROVE  hilo'[tasks[i].tid].lugar = hilo[tasks[i].tid].lugar
    BY <2>1, DeSuTid DEF IInv, Base, Sano, BuenaTabla, MismosHilos
  <2>2. titular # 0 => hilo'[titular].lugar = "dentro"
    BY Tamanos DEF IInv, Puerta, MismosHilos, Tids
  <2> QED
    BY <1>1, <1>2, <2>1, <2>2 DEF IInv, Puerta
<1>5. Muertes'
  BY <1>1, <1>2 DEF IInv, Muertes
<1>6. Pilas'
  <2>1. hilo'[YO].lugar = hilo[YO].lugar
    BY Tamanos DEF MismosHilos
  <2> QED
    BY <1>1, <1>2, <2>1 DEF IInv, Pilas
<1> QED
  BY <1>3, <1>4, <1>5, <1>6

(* Whoever waits in a table with marks waited before, on the same frame. *)
LEMMA EsperabaYa ==
  ASSUME Base, NEW t, t \in [Slots -> Task], Marcada(tasks, t),
         NEW i \in Slots \ {current}, t[i].state \in {"Ready", "Blocked"}
  PROVE  /\ tasks[i].state \in {"Ready", "Blocked"}
         /\ tasks[i].tid = t[i].tid /\ tasks[i].context_rsp = t[i].context_rsp
<1>1. /\ tasks[i].state # "Empty" /\ tasks[i].state # "Exited"
      /\ tasks[i].tid = t[i].tid /\ tasks[i].context_rsp = t[i].context_rsp
  BY DEF Marcada, Misma
<1>2. tasks[i] \in Task
  BY DEF Base, Sano, BuenaTabla
<1>3. tasks[i].state # "Running"
  BY DEF Base, Sano, Corre
<1> QED
  BY <1>1, <1>2, <1>3 DEF Task

(* The others are saved as they were. *)
LEMMA GuardadasDe ==
  ASSUME Base, NEW t, BuenaTabla(t), t[current].tid = cpu, t[current].state # "Empty",
         \A i \in Slots \ {current} : t[i].state \in {"Ready", "Blocked"} =>
            /\ tasks[i].state \in {"Ready", "Blocked"}
            /\ tasks[i].tid = t[i].tid /\ tasks[i].context_rsp = t[i].context_rsp,
         NEW h, \A x \in Tids \ {cpu} : h[x] = hilo[x]
  PROVE  Guardadas(t, current, h)
<1> SUFFICES ASSUME NEW i \in Slots \ {current}, t[i].state \in {"Ready", "Blocked"}
             PROVE  /\ t[i].context_rsp = [de |-> t[i].tid, n |-> h[t[i].tid].hondo]
                    /\ h[t[i].tid].hondo = Dentro(h, t[i].tid) + 1
  BY DEF Guardadas
<1>1. t[i].tid \in Tids /\ t[i].tid # cpu
  BY DeSuTid DEF Base, Sano
<1>2. h[t[i].tid] = hilo[t[i].tid]
  BY <1>1
<1>3. Dentro(h, t[i].tid) = Dentro(hilo, t[i].tid)
  BY <1>2 DEF Dentro
<1>4. /\ tasks[i].context_rsp = [de |-> tasks[i].tid, n |-> hilo[tasks[i].tid].hondo]
      /\ hilo[tasks[i].tid].hondo = Dentro(hilo, tasks[i].tid) + 1
  BY DEF Base, Sano, Guardadas
<1> QED
  BY <1>2, <1>3, <1>4

(* A table with marks, and the frame of the trap pushed. *)
LEMMA AntesDe ==
  ASSUME Base, NEW t, BuenaTabla(t), Marcada(tasks, t),
         \A i \in Slots : t[i].state = "Running" => i = current,
         NEW h \in [Tids -> Hilo], h[cpu].hondo = Dentro(h, cpu) + 1,
         \A x \in Tids \ {cpu} : h[x] = hilo[x]
  PROVE  Antes(t, h)
<1>1. /\ current \in Slots /\ cpu \in Tids /\ rampa \in Tids /\ BuenaTabla(tasks)
      /\ t[current].tid = cpu /\ t[current].state # "Empty"
      /\ current # SHELL => rampa = cpu
  BY DEF Base, Sano, Corre, Marcada, Misma
<1>2. \A i \in Slots \ {current} : t[i].state \in {"Ready", "Blocked"} =>
         /\ tasks[i].state \in {"Ready", "Blocked"}
         /\ tasks[i].tid = t[i].tid /\ tasks[i].context_rsp = t[i].context_rsp
  BY EsperabaYa DEF BuenaTabla
<1>3. Guardadas(t, current, h)
  BY <1>1, <1>2, GuardadasDe
<1> QED
  BY <1>1, <1>3 DEF Antes

(* The frame that a trap pushes. *)
LEMMA AtrapadoDe ==
  ASSUME Base
  PROVE  /\ Atrapado \in [Tids -> Hilo]
         /\ Atrapado[cpu].hondo = Dentro(Atrapado, cpu) + 1
         /\ \A x \in Tids \ {cpu} : Atrapado[x] = hilo[x]
         /\ MismosHilos(hilo, Atrapado)
         /\ Marco = [de |-> cpu, n |-> Atrapado[cpu].hondo] /\ Marco \in Frame
<1> DEFINE x == [hilo[cpu] EXCEPT !.hondo = hilo[cpu].hondo + 1]
<1>1. cpu \in Tids /\ hilo \in [Tids -> Hilo] /\ hilo[cpu] \in Hilo
      /\ hilo[cpu].hondo = Dentro(hilo, cpu) /\ Dentro(hilo, cpu) \in {0, 1}
  BY DEF Base, Sano, Dentro
<1>2. hilo[cpu].hondo + 1 \in 0 .. 2
  BY <1>1
<1>3. /\ x \in Hilo /\ x.hondo = hilo[cpu].hondo + 1 /\ x.lugar = hilo[cpu].lugar
      /\ x.fin = hilo[cpu].fin /\ x.victima = hilo[cpu].victima
  BY <1>1, <1>2 DEF Hilo
<1>4. Atrapado = [hilo EXCEPT ![cpu] = x]
  BY <1>1 DEF Atrapado
<1> HIDE DEF x
<1>5. /\ Atrapado \in [Tids -> Hilo] /\ Atrapado[cpu] = x
      /\ \A y \in Tids \ {cpu} : Atrapado[y] = hilo[y]
  BY <1>1, <1>3, <1>4
<1>6. Dentro(Atrapado, cpu) = Dentro(hilo, cpu)
  BY <1>3, <1>5 DEF Dentro
<1>7. \E i \in Slots : tasks[i].tid = cpu
  BY DEF Base, Sano, Corre
<1>8. MismosHilos(hilo, Atrapado)
  BY <1>3, <1>5, <1>7 DEF MismosHilos
<1>9. Marco = [de |-> cpu, n |-> Atrapado[cpu].hondo]
  BY <1>3, <1>5 DEF Marco
<1>10. Marco \in Frame
  <2>1. Atrapado[cpu].hondo \in 1 .. 2
    BY <1>1, <1>3, <1>5
  <2> QED
    BY <1>1, <1>9, <2>1 DEF Frame
<1> QED
  BY <1>1, <1>3, <1>5, <1>6, <1>8, <1>9, <1>10

(* A turn and its epilogue. *)
LEMMA TurnoEntero ==
  ASSUME IInv, NEW t, NEW h, Misma(tasks, t), NEW S, Entrega(S, t, h), Epilogo(S, h)
  PROVE  /\ Base' /\ Misma(tasks, tasks') /\ NadieMuere(t, tasks')
         /\ NadieMuere(tasks, t) => NadieMuere(tasks, tasks')
         /\ MismosHilos(h, hilo') /\ cpu' \in pilas /\ rampa' \in pilas
<1>1. /\ Despues(S, h) /\ Misma(tasks, S.tasks) /\ NadieMuere(t, S.tasks)
      /\ NadieMuere(tasks, t) => NadieMuere(tasks, S.tasks)
  BY MismaSigue DEF Entrega
<1>2. /\ Sano(tasks', current', cpu', hilo', rampa', trap_rsp')
      /\ ~roto' /\ resto' \in 1 .. QuantumDelante
      /\ tasks' = S.tasks /\ current' = S.current /\ rampa' = S.rampa
      /\ cpu' = S.tasks[S.current].tid
      /\ MismosHilos(h, hilo') /\ roto' \in BOOLEAN
  <2>1. roto' \in BOOLEAN
    BY DEF Epilogo
  <2> QED
    BY <1>1, <2>1, EpilogoSano DEF IInv, Base
<1>3. Base'
  BY <1>2 DEF Base
<1>4. cpu' \in pilas
  <2>1. S.current \in Slots /\ S.tasks[S.current].state = "Running"
    BY DEF Entrega, Despues
  <2>2. /\ tasks[S.current].state \notin {"Empty", "Exited"}
        /\ tasks[S.current].tid = S.tasks[S.current].tid
    BY <1>1, <2>1 DEF Misma
  <2> QED
    BY <1>2, <2>1, <2>2 DEF IInv, Pilas
<1>5. rampa' \in pilas
  BY <1>2, <1>4 DEF Entrega, IInv, Pilas
<1> QED
  BY <1>1, <1>2, <1>3, <1>4, <1>5

(* An epilogue without a turn. *)
LEMMA QuedaEntero ==
  ASSUME IInv, NEW t, NEW h, Misma(tasks, t), Antes(t, h), Corre(t, current, cpu),
         NEW r \in 1 .. QuantumDelante,
         Epilogo(Estado(t, r, [de |-> cpu, n |-> h[cpu].hondo]), h)
  PROVE  /\ Base' /\ tasks' = t /\ cpu' = cpu /\ rampa' = rampa
         /\ MismosHilos(h, hilo')
<1> DEFINE S == Estado(t, r, [de |-> cpu, n |-> h[cpu].hondo])
<1>1. Despues(S, h) /\ S.tasks = t /\ S.current = current /\ S.rampa = rampa
  BY QuedaDa
<1>2. Epilogo(S, h)
  OBVIOUS
<1> HIDE DEF S
<1>3. roto' \in BOOLEAN
  BY <1>2 DEF Epilogo
<1>4. /\ Sano(tasks', current', cpu', hilo', rampa', trap_rsp')
      /\ ~roto' /\ resto' \in 1 .. QuantumDelante
      /\ tasks' = S.tasks /\ current' = S.current /\ rampa' = S.rampa
      /\ cpu' = S.tasks[S.current].tid
      /\ MismosHilos(h, hilo')
  BY <1>1, <1>2, EpilogoSano DEF IInv, Base
<1> QED
  BY <1>1, <1>3, <1>4 DEF Base, Corre

----------------------------------------------------------------------------
(* The traps that only move the table and the CPU. *)

(* What cobrar_compas sets aside is within its bound. *)
LEMMA CastigosDe == Castigos \subseteq 0 .. MaxAparte
  BY Tamanos DEF Castigos

(* A trap that marks, gives the turn and comes back. *)
LEMMA ConTurno ==
  ASSUME IInv, NEW t, BuenaTabla(t), Marcada(tasks, t), NadieMuere(tasks, t),
         \A i \in Slots : t[i].state = "Running" => i = current,
         NEW r \in 1 .. QuantumDelante, NEW castigo \in 0 .. MaxAparte,
         Epilogo(ScheduleLocked(Estado(t, r, Marco), TRUE, castigo), Atrapado),
         UNCHANGED <<next_tid, puerta, cadaver, pilas, caps>>
  PROVE  IInv' /\ BienMuere
<1> DEFINE S == ScheduleLocked(Estado(t, r, Marco), TRUE, castigo)
<1>1. /\ Atrapado \in [Tids -> Hilo]
      /\ Atrapado[cpu].hondo = Dentro(Atrapado, cpu) + 1
      /\ \A x \in Tids \ {cpu} : Atrapado[x] = hilo[x]
      /\ MismosHilos(hilo, Atrapado)
      /\ Marco = [de |-> cpu, n |-> Atrapado[cpu].hondo] /\ Marco \in Frame
  BY AtrapadoDe DEF IInv
<1>2. Antes(t, Atrapado)
  BY <1>1, AntesDe DEF IInv
<1>3. Entrega(S, t, Atrapado)
  BY <1>1, <1>2, TurnoDa
<1>4. Epilogo(S, Atrapado)
  OBVIOUS
<1> HIDE DEF S
<1>5. /\ Base' /\ Misma(tasks, tasks') /\ NadieMuere(tasks, tasks')
      /\ MismosHilos(Atrapado, hilo') /\ cpu' \in pilas /\ rampa' \in pilas
  BY <1>3, <1>4, TurnoEntero DEF Marcada
<1>6. MismosHilos(hilo, hilo')
  BY <1>1, <1>5 DEF MismosHilos
<1> QED
  BY <1>5, <1>6, NadieNinguno, NadieFuera, RestoIgual DEF IInv

(* A tick passes. *)
LEMMA TicBuena ==
  ASSUME NEW t, BuenaTabla(t), NEW u, u = [i \in Slots |-> PasaUnTic(t[i])]
  PROVE  /\ BuenaTabla(u) /\ Marcada(t, u)
         /\ \A i \in Slots : u[i].state = t[i].state
<1>1. \A i \in Slots : t[i] \in Task /\ u[i] = PasaUnTic(t[i])
  BY DEF BuenaTabla
<1>2. u \in [Slots -> Task]
  BY <1>1, TareaMarcada
<1>3. \A i \in Slots :
        /\ u[i].tid = t[i].tid /\ u[i].is_user = t[i].is_user
        /\ u[i].quantum = t[i].quantum /\ u[i].priority = t[i].priority
        /\ u[i].state = t[i].state /\ u[i].context_rsp = t[i].context_rsp
  BY <1>1 DEF PasaUnTic, Task
<1>4. Marcada(t, u)
  BY <1>3 DEF Marcada, Misma
<1>5. BuenaTabla(u)
  <2>1. u[SHELL].state # "Exited" /\ u[IDLE].state \in {"Ready", "Running"}
        /\ u[2].state # "Exited"
    BY <1>3, Tamanos DEF BuenaTabla
  <2> QED
    BY <1>2, <1>4, <2>1, MismaBuena DEF Marcada
<1> QED
  BY <1>3, <1>4, <1>5

(* The sweep only wakes and counts down. *)
LEMMA BarridoBueno ==
  ASSUME BuenaTabla(tasks), NEW servidas
  PROVE  LET u == Barrido(servidas).tasks IN
         /\ BuenaTabla(u) /\ Marcada(tasks, u) /\ NadieMuere(tasks, u)
         /\ \A i \in Slots : u[i].state \in {"Running", "Blocked"}
                               => u[i].state = tasks[i].state
<1> DEFINE Q == UNION {Esperan(tasks, k) : k \in servidas}
           t == DespiertaA(tasks, Q)
           R == {i \in Slots : t[i].state = "Blocked"
                   /\ (t[i].wait_deadline = 1 \/ t[i].wait_key = Latido)}
           v == DespiertaA(t, R)
           u == [i \in Slots |-> PasaUnTic(v[i])]
<1>1. Barrido(servidas).tasks = u
  BY DEF Barrido, DespiertaA
<1>2. \A i \in Q : tasks[i].state = "Blocked"
  BY DEF Esperan
<1> HIDE DEF Q
<1>3. /\ BuenaTabla(t) /\ Marcada(tasks, t) /\ NadieMuere(tasks, t)
      /\ \A i \in Slots : t[i].state = IF i \in Q THEN "Ready" ELSE tasks[i].state
  BY <1>2, DespiertaABuena
<1> HIDE DEF t
<1>4. \A i \in R : t[i].state = "Blocked"
  OBVIOUS
<1> HIDE DEF R
<1>5. /\ BuenaTabla(v) /\ Marcada(t, v) /\ NadieMuere(t, v)
      /\ \A i \in Slots : v[i].state = IF i \in R THEN "Ready" ELSE t[i].state
  BY <1>3, <1>4, DespiertaABuena
<1> HIDE DEF v
<1>6. /\ BuenaTabla(u) /\ Marcada(v, u)
      /\ \A i \in Slots : u[i].state = v[i].state
  BY <1>5, TicBuena
<1> HIDE DEF u
<1>7. Marcada(tasks, u)
  BY <1>3, <1>5, <1>6 DEF Marcada, Misma
<1>8. NadieMuere(tasks, u)
  BY <1>3, <1>5, <1>6 DEF NadieMuere
<1>9. \A i \in Slots : u[i].state \in {"Running", "Blocked"}
                       => u[i].state = tasks[i].state
  BY <1>3, <1>5, <1>6
<1> QED
  BY <1>1, <1>6, <1>7, <1>8, <1>9

(* on_timer *)
LEMMA TickIInv ==
  ASSUME IInv, NEW servidas, Tick(servidas)
  PROVE  IInv' /\ BienMuere
<1> DEFINE t == Barrido(servidas).tasks
           sigue == /\ t[current].state = "Running" /\ resto > 1
                    /\ ~Expropiar(t, resto, Barrido(servidas).vencidas)
<1>1. PICK castigo \in Castigos :
        Epilogo(IF sigue THEN Estado(t, resto - 1, Marco)
                ELSE ScheduleLocked(Estado(t, t[current].quantum, Marco), TRUE, castigo),
                Atrapado)
  BY DEF Tick
<1>2. UNCHANGED <<next_tid, puerta, cadaver, pilas, caps>>
  BY DEF Tick
<1>3. BuenaTabla(tasks) /\ current \in Slots
  BY DEF IInv, Base, Sano
<1>4. /\ BuenaTabla(t) /\ Marcada(tasks, t) /\ NadieMuere(tasks, t)
      /\ \A i \in Slots : t[i].state = "Running" => tasks[i].state = "Running"
  BY <1>3, BarridoBueno
<1>5. \A i \in Slots : t[i].state = "Running" => i = current
  BY <1>4 DEF IInv, Base, Sano, Corre
<1>6. t[current].quantum \in 1 .. QuantumDelante /\ castigo \in 0 .. MaxAparte
  <2>1. t[current].quantum \in {Quantum, QuantumDelante}
    BY <1>3, <1>4 DEF BuenaTabla, Task
  <2> QED
    BY <2>1, Tamanos, CastigosDe
<1>7. sigue => resto - 1 \in 1 .. QuantumDelante /\ t[current].state = "Running"
  BY Tamanos DEF IInv, Base
<1> HIDE DEF t, sigue
<1>8. CASE ~sigue
  <2>1. Epilogo(ScheduleLocked(Estado(t, t[current].quantum, Marco), TRUE, castigo),
                Atrapado)
    BY <1>1, <1>8
  <2> QED
    BY <1>2, <1>4, <1>5, <1>6, <2>1, ConTurno
<1>9. CASE sigue
  <2>1. Epilogo(Estado(t, resto - 1, Marco), Atrapado)
    BY <1>1, <1>9
  <2>2. /\ Atrapado \in [Tids -> Hilo]
        /\ Atrapado[cpu].hondo = Dentro(Atrapado, cpu) + 1
        /\ \A x \in Tids \ {cpu} : Atrapado[x] = hilo[x]
        /\ MismosHilos(hilo, Atrapado)
        /\ Marco = [de |-> cpu, n |-> Atrapado[cpu].hondo]
    BY AtrapadoDe DEF IInv
  <2>3. Antes(t, Atrapado)
    BY <1>4, <1>5, <2>2, AntesDe DEF IInv
  <2>4. Corre(t, current, cpu)
    BY <1>5, <1>7, <1>9, <2>3 DEF Corre, Antes
  <2>5. /\ Base' /\ tasks' = t /\ cpu' = cpu /\ rampa' = rampa
        /\ MismosHilos(Atrapado, hilo')
    BY <1>4, <1>7, <1>9, <2>1, <2>2, <2>3, <2>4, QuedaEntero DEF Marcada
  <2>6. MismosHilos(hilo, hilo')
    BY <2>2, <2>5 DEF MismosHilos
  <2>7. cpu' \in pilas /\ rampa' \in pilas
    BY <2>5 DEF IInv, Pilas
  <2> QED
    BY <1>2, <1>4, <2>5, <2>6, <2>7, NadieNinguno, NadieFuera, RestoIgual DEF IInv, Marcada
<1> QED
  BY <1>8, <1>9

(* despertar_desde_irq *)
LEMMA IrqDiscoIInv ==
  ASSUME IInv, IrqDisco
  PROVE  IInv' /\ BienMuere
<1> DEFINE t == DespiertaA(tasks, Esperan(tasks, Disco))
<1>1. PICK castigo \in Castigos :
        Epilogo(ScheduleLocked(Estado(t, resto, Marco), TRUE, castigo), Atrapado)
  BY DEF IrqDisco
<1>2. BuenaTabla(tasks) /\ \A i \in Esperan(tasks, Disco) : tasks[i].state = "Blocked"
  BY DEF IInv, Base, Sano, Esperan
<1>3. /\ BuenaTabla(t) /\ Marcada(tasks, t) /\ NadieMuere(tasks, t)
      /\ \A i \in Slots : t[i].state = IF i \in Esperan(tasks, Disco) THEN "Ready"
                                       ELSE tasks[i].state
  BY <1>2, DespiertaABuena
<1> HIDE DEF t
<1>4. \A i \in Slots : t[i].state = "Running" => i = current
  BY <1>3 DEF IInv, Base, Sano, Corre
<1>5. UNCHANGED <<next_tid, puerta, cadaver, pilas, caps>>
  BY DEF IrqDisco
<1>6. castigo \in 0 .. MaxAparte /\ resto \in 1 .. QuantumDelante
  BY CastigosDe DEF IInv, Base
<1> QED
  BY <1>1, <1>3, <1>4, <1>5, <1>6, ConTurno

(* mark_wait *)
LEMMA MarkWaitBuena ==
  ASSUME Base, current # IDLE,
         NEW key \in Llaves \cup {Nada, Latido, Disco, Muertos}, NEW plazo \in 0 .. MaxPlazo
  PROVE  LET u == MarkWait(tasks, key, plazo) IN
         /\ BuenaTabla(u) /\ Marcada(tasks, u) /\ NadieMuere(tasks, u)
         /\ \A i \in Slots \ {current} : u[i] = tasks[i]
         /\ \A i \in Slots : u[i].state = "Running" => i = current
         /\ u[current].state # "Ready"
<1> DEFINE u == MarkWait(tasks, key, plazo)
           x == [tasks[current] EXCEPT !.state = "Blocked", !.wait_key = key,
                                       !.wait_deadline = plazo]
<1>1. /\ BuenaTabla(tasks) /\ tasks \in [Slots -> Task] /\ current \in Slots
      /\ tasks[current] \in Task
      /\ \A i \in Slots : tasks[i].state = "Running" => i = current
      /\ tasks[current].state \notin {"Empty", "Ready"}
  BY DEF Base, Sano, BuenaTabla, Corre
<1>2. /\ x \in Task /\ x.tid = tasks[current].tid /\ x.is_user = tasks[current].is_user
      /\ x.quantum = tasks[current].quantum /\ x.priority = tasks[current].priority
      /\ x.context_rsp = tasks[current].context_rsp /\ x.state = "Blocked"
  BY <1>1 DEF Task
<1>3. u = IF tasks[current].state = "Running" THEN [tasks EXCEPT ![current] = x]
          ELSE tasks
  BY <1>1 DEF MarkWait
<1> HIDE DEF u, x
<1>4. /\ u \in [Slots -> Task] /\ \A i \in Slots \ {current} : u[i] = tasks[i]
      /\ u[current] = IF tasks[current].state = "Running" THEN x ELSE tasks[current]
  BY <1>1, <1>2, <1>3
<1>5. Marcada(tasks, u) /\ NadieMuere(tasks, u)
  BY <1>1, <1>2, <1>4 DEF Marcada, Misma, NadieMuere
<1>6. /\ \A i \in Slots : u[i].state = "Running" => i = current
      /\ u[current].state # "Ready"
  BY <1>1, <1>2, <1>4
<1>7. BuenaTabla(u)
  <2>1. u[SHELL].state # "Exited" /\ u[IDLE].state \in {"Ready", "Running"}
        /\ u[2].state # "Exited"
    BY <1>1, <1>2, <1>4, Tamanos DEF BuenaTabla
  <2> QED
    BY <1>1, <1>4, <1>5, <2>1, MismaBuena DEF Marcada
<1> QED
  BY <1>4, <1>5, <1>6, <1>7 DEF u

(* yield_current *)
LEMMA YieldIInv ==
  ASSUME IInv, Yield
  PROVE  IInv' /\ BienMuere
<1>1. /\ BuenaTabla(tasks) /\ resto \in 1 .. QuantumDelante
      /\ \A i \in Slots : tasks[i].state = "Running" => i = current
  BY DEF IInv, Base, Sano, Corre
<1>2. Marcada(tasks, tasks) /\ NadieMuere(tasks, tasks)
  BY DEF Marcada, Misma, NadieMuere
<1>3. /\ Epilogo(ScheduleLocked(Estado(tasks, resto, Marco), TRUE, 0), Atrapado)
      /\ UNCHANGED <<next_tid, puerta, cadaver, pilas, caps>>
  BY DEF Yield, Llamada
<1>4. 0 \in 0 .. MaxAparte
  BY Tamanos
<1> QED
  BY <1>1, <1>2, <1>3, <1>4, ConTurno

(* wait_current, wait_current_checked *)
LEMMA WaitIInv ==
  ASSUME IInv, NEW key \in Llaves \cup {Nada, Latido}, NEW plazo \in 0 .. MaxPlazo,
         Wait(key, plazo)
  PROVE  IInv' /\ BienMuere
<1> DEFINE t == MarkWait(tasks, key, plazo)
<1>1. /\ Epilogo(ScheduleLocked(Estado(t, resto, Marco), TRUE, 0), Atrapado)
      /\ UNCHANGED <<next_tid, puerta, cadaver, pilas, caps>>
      /\ EnRing3
  BY DEF Wait, Llamada
<1>2. current # IDLE /\ Base
  BY <1>1 DEF EnRing3, IInv, Base, Sano, BuenaTabla
<1>3. /\ BuenaTabla(t) /\ Marcada(tasks, t) /\ NadieMuere(tasks, t)
      /\ \A i \in Slots : t[i].state = "Running" => i = current
  BY <1>2, MarkWaitBuena
<1> HIDE DEF t
<1>4. 0 \in 0 .. MaxAparte /\ resto \in 1 .. QuantumDelante
  BY Tamanos DEF IInv, Base
<1> QED
  BY <1>1, <1>3, <1>4, ConTurno

----------------------------------------------------------------------------
(* Steps that stay where they are. *)

(* Out of its traps, a task is not at the door. *)
LEMMA FueraDeLaPuerta ==
  ASSUME Base, hilo[cpu].hondo = 0
  PROVE  Dentro(hilo, cpu) = 0 /\ hilo[cpu].lugar \notin {"espera", "dentro"}
  BY DEF Base, Sano, Dentro

(* The CPU stays on the task it is on. *)
LEMMA Quieto ==
  ASSUME Base, hilo' \in [Tids -> Hilo], hilo'[cpu].hondo = 0,
         hilo'[cpu].lugar \notin {"espera", "dentro"},
         \A x \in Tids \ {cpu} : hilo'[x] = hilo[x],
         BuenaTabla(tasks'), Corre(tasks', current, cpu), Guardadas(tasks', current, hilo'),
         trap_rsp' \in Frame \cup {NoFrame},
         UNCHANGED <<current, resto, rampa, cpu, roto>>
  PROVE  Base'
<1>1. Dentro(hilo', cpu) = 0
  BY DEF Dentro
<1>2. Sano(tasks', current, cpu, hilo', rampa, trap_rsp')
  BY <1>1 DEF Base, Sano
<1> QED
  BY <1>2 DEF Base

(* Marks on tasks, from a system call that does not switch or from the     *)
(* body of a thread.                                                       *)
LEMMA MarcasIInv ==
  ASSUME IInv, hilo[cpu].hondo = 0, BuenaTabla(tasks'), Marcada(tasks, tasks'),
         NingunPrograma(tasks, tasks'), Corre(tasks', current, cpu),
         trap_rsp' \in Frame \cup {NoFrame},
         UNCHANGED <<current, next_tid, resto, rampa, puerta, cadaver, cpu, hilo, roto,
                     pilas, caps>>
  PROVE  IInv'
<1>1. Base /\ Dentro(hilo, cpu) = 0 /\ hilo[cpu].lugar \notin {"espera", "dentro"}
  BY FueraDeLaPuerta DEF IInv
<1>2. \A i \in Slots \ {current} : tasks'[i].state \in {"Ready", "Blocked"} =>
         /\ tasks[i].state \in {"Ready", "Blocked"}
         /\ tasks[i].tid = tasks'[i].tid /\ tasks[i].context_rsp = tasks'[i].context_rsp
  BY <1>1, EsperabaYa DEF BuenaTabla
<1>3. hilo' = hilo /\ cpu' = cpu /\ rampa' = rampa /\ hilo \in [Tids -> Hilo]
  BY <1>1 DEF Base, Sano
<1>4. Guardadas(tasks', current, hilo)
  BY <1>1, <1>2, GuardadasDe DEF Corre
<1>5. Base'
  BY <1>1, <1>3, <1>4, Quieto
<1>6. MismosHilos(hilo, hilo')
  BY <1>3 DEF MismosHilos
<1>7. cpu' \in pilas /\ rampa' \in pilas
  BY <1>3 DEF IInv, Pilas
<1> QED
  BY <1>5, <1>6, <1>7, RestoIgual DEF IInv, Marcada

(* What SinCambio says. *)
LEMMA SinCambioDe ==
  ASSUME IInv, NEW t, SinCambio(t)
  PROVE  /\ tasks' = t /\ trap_rsp' \in Frame \cup {NoFrame}
         /\ hilo[cpu].hondo = 0 /\ tasks[current].state \in {"Running", "Exited"}
         /\ current # IDLE
         /\ UNCHANGED <<current, resto, rampa, puerta, cadaver, cpu, hilo, roto>>
<1>1. EnRing3 \/ EnHilo
  BY DEF SinCambio
<1>2. hilo[cpu].hondo = 0
  BY <1>1 DEF EnRing3, EnHilo
<1>3. tasks[current].state \in {"Running", "Exited"}
  <2>1. tasks[current] \in Task /\ tasks[current].state \notin {"Empty", "Ready"}
    BY DEF IInv, Base, Sano, BuenaTabla, Corre
  <2>2. tasks[current].is_user => tasks[current].state # "Blocked"
    BY DEF IInv, Base, Sano, Corre
  <2> QED
    BY <1>1, <2>1, <2>2 DEF EnRing3, EnHilo, Task
<1>4. current # IDLE
  BY <1>1 DEF EnRing3, EnHilo, IInv, Base, Sano, BuenaTabla
<1>5. trap_rsp' \in Frame \cup {NoFrame}
  <2>1. Marco \in Frame
    BY AtrapadoDe DEF IInv
  <2>2. trap_rsp \in Frame \cup {NoFrame}
    BY DEF IInv, Base, Sano
  <2> QED
    BY <2>1, <2>2 DEF SinCambio
<1> QED
  BY <1>2, <1>3, <1>4, <1>5 DEF SinCambio

(* wake_n_by_key *)
LEMMA WakeIInv ==
  ASSUME IInv, NEW key, NEW n, Wake(key, n)
  PROVE  IInv' /\ BienMuere
<1> DEFINE Q == {i \in Esperan(tasks, key) :
                    Cardinality({j \in Esperan(tasks, key) : j < i}) < n}
           u == DespiertaA(tasks, Q)
<1>1. SinCambio(u) /\ UNCHANGED <<next_tid, pilas, caps>>
  BY DEF Wake
<1>2. \A i \in Q : tasks[i].state = "Blocked"
  BY DEF Esperan
<1> HIDE DEF Q
<1>3. BuenaTabla(tasks)
  BY DEF IInv, Base, Sano
<1>4. /\ BuenaTabla(u) /\ Marcada(tasks, u) /\ NadieMuere(tasks, u)
      /\ \A i \in Slots : u[i].state = IF i \in Q THEN "Ready" ELSE tasks[i].state
  BY <1>2, <1>3, DespiertaABuena
<1> HIDE DEF u
<1>5. /\ tasks' = u /\ trap_rsp' \in Frame \cup {NoFrame}
      /\ hilo[cpu].hondo = 0 /\ tasks[current].state \in {"Running", "Exited"}
      /\ UNCHANGED <<current, resto, rampa, puerta, cadaver, cpu, hilo, roto>>
  BY <1>1, SinCambioDe
<1>6. Corre(u, current, cpu)
  <2>1. /\ tasks[current].tid = cpu /\ current \in Slots
        /\ \A i \in Slots : tasks[i].state = "Running" => i = current
    BY DEF IInv, Base, Sano, Corre
  <2>2. u[current].state = tasks[current].state
    BY <1>2, <1>4, <1>5, <2>1
  <2> QED
    BY <1>4, <1>5, <2>1, <2>2 DEF Corre, Marcada, Misma
<1> QED
  BY <1>1, <1>4, <1>5, <1>6, NadieNinguno, NadieFuera, MarcasIInv

(* delante *)
LEMMA DelanteOpIInv ==
  ASSUME IInv, NEW tid \in 0 .. MaxTid, DelanteOp(tid)
  PROVE  IInv' /\ BienMuere
<1> DEFINE u == PonDelante(tasks, tid)
<1>1. SinCambio(u) /\ UNCHANGED <<next_tid, pilas, caps>>
  BY DEF DelanteOp
<1>2. /\ BuenaTabla(tasks) /\ \A i \in Slots : tasks[i] \in Task
      /\ Base /\ Corre(tasks, current, cpu) /\ current \in Slots /\ hilo \in [Tids -> Hilo]
  BY DEF IInv, Base, Sano, BuenaTabla
<1>3. \A i \in Slots : u[i] \in Task /\ u[i].state = tasks[i].state
        /\ u[i].tid = tasks[i].tid /\ u[i].is_user = tasks[i].is_user
        /\ u[i].context_rsp = tasks[i].context_rsp /\ u[i].priority = tasks[i].priority
        /\ u[i].quantum = (IF tasks[i].is_user
                           THEN IF tasks[i].tid = tid THEN QuantumDelante ELSE Quantum
                           ELSE tasks[i].quantum)
  <2> SUFFICES ASSUME NEW i \in Slots
               PROVE  u[i] \in Task /\ u[i].state = tasks[i].state
                 /\ u[i].tid = tasks[i].tid /\ u[i].is_user = tasks[i].is_user
                 /\ u[i].context_rsp = tasks[i].context_rsp
                 /\ u[i].priority = tasks[i].priority
                 /\ u[i].quantum = (IF tasks[i].is_user
                                    THEN IF tasks[i].tid = tid THEN QuantumDelante
                                         ELSE Quantum
                                    ELSE tasks[i].quantum)
    OBVIOUS
  <2> DEFINE q == IF tasks[i].tid = tid THEN QuantumDelante ELSE Quantum
  <2>1. tasks[i] \in Task /\ (tasks[i].state = "Empty" => ~tasks[i].is_user)
    BY <1>2 DEF BuenaTabla
  <2>2. u[i] = IF tasks[i].is_user THEN [tasks[i] EXCEPT !.quantum = q] ELSE tasks[i]
    BY <2>1 DEF PonDelante
  <2>3. q \in {Quantum, QuantumDelante}
    OBVIOUS
  <2> HIDE DEF u
  <2>4. CASE ~tasks[i].is_user
    BY <2>1, <2>2, <2>4
  <2>5. CASE tasks[i].is_user
    <3> HIDE DEF q
    <3>1. u[i] = [tasks[i] EXCEPT !.quantum = q]
      BY <2>2, <2>5
    <3>2. u[i] \in Task /\ u[i].quantum = q /\ u[i].state = tasks[i].state
          /\ u[i].tid = tasks[i].tid /\ u[i].is_user = tasks[i].is_user
          /\ u[i].context_rsp = tasks[i].context_rsp /\ u[i].priority = tasks[i].priority
      BY <2>1, <2>3, <3>1 DEF Task
    <3> QED
      BY <2>5, <3>2 DEF q
  <2> QED
    BY <2>1, <2>4, <2>5 DEF Task
<1>4. u \in [Slots -> Task]
  BY <1>3 DEF PonDelante
<1> HIDE DEF u
<1>5. /\ tasks' = u /\ trap_rsp' \in Frame \cup {NoFrame}
      /\ hilo[cpu].hondo = 0
      /\ UNCHANGED <<current, resto, rampa, puerta, cadaver, cpu, hilo, roto>>
  BY <1>1, SinCambioDe
<1>6. BuenaTabla(u)
  <2>1. ASSUME NEW i \in Slots, NEW j \in Slots, u[i].quantum = QuantumDelante,
               u[j].quantum = QuantumDelante
        PROVE  i = j
    <3>1. \A k \in Slots : u[k].quantum = QuantumDelante =>
              tasks[k].is_user /\ tasks[k].tid = tid
      BY <1>2, <1>3, Tamanos DEF BuenaTabla
    <3>2. tasks[i].state # "Empty" /\ tasks[j].tid = tasks[i].tid
      BY <1>2, <2>1, <3>1 DEF BuenaTabla
    <3> QED
      BY <1>2, <3>2, DeSuTid
  <2>2. \A i \in Slots : ~u[i].is_user => u[i].quantum = Quantum
    BY <1>2, <1>3 DEF BuenaTabla
  <2> QED
    BY <1>2, <1>3, <1>4, <2>1, <2>2, Tamanos DEF BuenaTabla
<1>7. Corre(u, current, cpu)
  BY <1>2, <1>3 DEF Corre
<1>8. Guardadas(u, current, hilo)
  BY <1>2, <1>3, <1>6, <1>7, GuardadasDe DEF Corre
<1>9. Base'
  BY <1>2, <1>5, <1>6, <1>7, <1>8, FueraDeLaPuerta, Quieto
<1>10. Nacidas' /\ Puerta' /\ Muertes' /\ Pilas'
  BY <1>1, <1>3, <1>5 DEF IInv, Nacidas, Puerta, Muertes, Pilas, puerta
<1>11. BienMuere
  BY <1>3, <1>5, NadieFuera DEF NadieMuere
<1> QED
  BY <1>9, <1>10, <1>11 DEF IInv

(* cap::grant: whose death waits is inside the door, so it is not the one  *)
(* that calls.                                                             *)
LEMMA ConcedeIInv ==
  ASSUME IInv, Concede
  PROVE  IInv' /\ BienMuere
<1>1. SinCambio(tasks) /\ UNCHANGED <<next_tid, pilas>> /\ caps' = caps \cup {cpu}
  BY DEF Concede
<1>2. /\ tasks' = tasks /\ trap_rsp' \in Frame \cup {NoFrame} /\ hilo[cpu].hondo = 0
      /\ UNCHANGED <<current, resto, rampa, puerta, cadaver, cpu, hilo, roto>>
  BY <1>1, SinCambioDe
<1>3. /\ Base /\ BuenaTabla(tasks) /\ Corre(tasks, current, cpu)
      /\ Guardadas(tasks, current, hilo) /\ hilo \in [Tids -> Hilo] /\ cpu \in Tids
  BY DEF IInv, Base, Sano
<1>4. hilo[cpu].lugar \notin {"espera", "dentro"}
  BY <1>2, <1>3, FueraDeLaPuerta
<1>5. Base'
  BY <1>2, <1>3, <1>4, Quieto
<1>6. matar # 0 => matar \notin caps'
  BY <1>1, <1>4 DEF IInv, Puerta, Muertes
<1>7. Nacidas' /\ Puerta' /\ Muertes' /\ Pilas'
  BY <1>1, <1>2, <1>3, <1>6 DEF IInv, Nacidas, Puerta, Muertes, Pilas, puerta
<1> QED
  BY <1>2, <1>5, <1>7, IgualFuera DEF IInv

(* A task as it is born. *)
EsNueva(x, tid) ==
  /\ x \in Task /\ x.tid = tid /\ x.quantum = Quantum
  /\ x.state = "Ready" /\ x.context_rsp = [de |-> tid, n |-> 1]

(* It is one of the table. *)
LEMMA NuevaDe ==
  ASSUME NEW tid \in Tids, NEW priority \in 0 .. 31, NEW is_user \in BOOLEAN,
         NEW compas \in BOOLEAN
  PROVE  EsNueva(Nueva(tid, priority, is_user, compas), tid)
<1>1. EMPTY \in Task /\ EMPTY.quantum = Quantum
  <2>1. 0 \in 0 .. MaxTid /\ 0 \in 0 .. 31 /\ 0 \in 0 .. MaxPlazo /\ 0 \in 0 .. MaxAparte
    BY Tamanos
  <2> QED
    BY <2>1 DEF EMPTY, Task
<1>2. [de |-> tid, n |-> 1] \in Frame /\ tid \in 0 .. MaxTid
  BY Tamanos DEF Frame, Tids
<1> QED
  BY <1>1, <1>2 DEF Nueva, Task, EsNueva

(* u is the table with a task more. *)
Nace(u, i, x) ==
  /\ BuenaTabla(u) /\ u[i] = x /\ \A j \in Slots \ {i} : u[j] = tasks[j]

(* The first trap of a task that is born finds a table that is good. *)
LEMMA NaceBuena ==
  ASSUME BuenaTabla(tasks), NEW i \in Slots, tasks[i].state = "Empty",
         NEW tid \in Tids, NEW x, EsNueva(x, tid), \A j \in Slots : tasks[j].tid # tid
  PROVE  Nace([tasks EXCEPT ![i] = x], i, x)
<1> DEFINE u == [tasks EXCEPT ![i] = x]
<1>0. /\ x \in Task /\ x.tid # 0 /\ \A j \in Slots : tasks[j].tid # x.tid
      /\ x.quantum = Quantum /\ x.state = "Ready"
  BY Tamanos DEF EsNueva
<1>1. /\ u \in [Slots -> Task] /\ u[i] = x /\ \A j \in Slots \ {i} : u[j] = tasks[j]
  BY <1>0 DEF BuenaTabla
<1> HIDE DEF u
<1>2. i \notin {SHELL, IDLE, 2}
  BY Tamanos DEF BuenaTabla
<1>3. \A j, k \in Slots : u[j].tid = u[k].tid /\ u[j].tid # 0 => j = k
  BY <1>0, <1>1 DEF BuenaTabla
<1>4. \A j, k \in Slots : u[j].quantum = QuantumDelante /\ u[k].quantum = QuantumDelante
                            => j = k
  BY <1>0, <1>1, Tamanos DEF BuenaTabla
<1>5. \A j \in Slots : /\ (u[j].state = "Empty") <=> (u[j].tid = 0)
                       /\ u[j].state = "Empty" => ~u[j].is_user
                       /\ ~u[j].is_user => u[j].quantum = Quantum
  BY <1>0, <1>1 DEF BuenaTabla
<1> QED
  BY <1>1, <1>2, <1>3, <1>4, <1>5, Tamanos DEF BuenaTabla, Nace, u

(* spawn_user, spawn_kernel *)
LEMMA SpawnIInv ==
  ASSUME IInv, NEW priority \in 0 .. 31, NEW is_user \in BOOLEAN, NEW compas \in BOOLEAN,
         Spawn(priority, is_user, compas)
  PROVE  IInv' /\ BienMuere
<1> DEFINE x == Nueva(next_tid, priority, is_user, compas)
<1>1. PICK i \in Slots : tasks[i].state = "Empty" /\ SinCambio([tasks EXCEPT ![i] = x])
  BY DEF Spawn
<1> DEFINE u == [tasks EXCEPT ![i] = x]
<1>2. /\ next_tid \in Tids /\ next_tid \in Nat /\ next_tid > 3
      /\ next_tid' = next_tid + 1 /\ next_tid' \in 4 .. MaxTid + 1
      /\ pilas' = pilas \cup {next_tid}
      /\ caps \subseteq caps' /\ caps' \subseteq caps \cup {next_tid}
  BY Tamanos DEF Spawn, IInv, Nacidas, Tids
<1>3. EsNueva(x, next_tid)
  BY <1>2, NuevaDe
<1> HIDE DEF x
<1>4. /\ BuenaTabla(tasks) /\ Base /\ Corre(tasks, current, cpu) /\ current \in Slots
      /\ hilo \in [Tids -> Hilo]
      /\ \A j \in Slots : tasks[j].tid \in Nat /\ tasks[j].tid < next_tid
      /\ hilo[next_tid] = Recien
  <2>1. \A j \in Slots : tasks[j].tid \in Nat
    BY DEF IInv, Base, Sano, BuenaTabla, Task
  <2>2. hilo[next_tid] = Recien
    BY <1>2 DEF IInv, Nacidas
  <2> QED
    BY <2>1, <2>2 DEF IInv, Base, Sano, Nacidas
<1>5. /\ BuenaTabla(u) /\ u[i] = x /\ \A j \in Slots \ {i} : u[j] = tasks[j]
  <2>1. \A j \in Slots : tasks[j].tid # next_tid
    BY <1>2, <1>4
  <2>2. Nace(u, i, x)
    BY <1>1, <1>2, <1>3, <1>4, <2>1, NaceBuena
  <2> QED
    BY <2>2 DEF Nace
<1>5b. /\ x \in Task /\ x.tid = next_tid
      /\ x.state = "Ready" /\ x.context_rsp = [de |-> next_tid, n |-> 1]
  BY <1>3 DEF EsNueva
<1>6. /\ tasks' = u /\ trap_rsp' \in Frame \cup {NoFrame}
      /\ hilo[cpu].hondo = 0
      /\ UNCHANGED <<current, resto, rampa, puerta, cadaver, cpu, hilo, roto>>
  BY <1>1, SinCambioDe
<1> HIDE DEF u
<1>7. i # current /\ Corre(u, current, cpu)
  BY <1>1, <1>5b, <1>4, <1>5 DEF Corre
<1>8. Guardadas(u, current, hilo)
  <2> SUFFICES ASSUME NEW j \in Slots \ {current}, u[j].state \in {"Ready", "Blocked"}
               PROVE  /\ u[j].context_rsp = [de |-> u[j].tid, n |-> hilo[u[j].tid].hondo]
                      /\ hilo[u[j].tid].hondo = Dentro(hilo, u[j].tid) + 1
    BY DEF Guardadas
  <2>1. CASE j = i
    BY <1>5b, <1>4, <1>5, <2>1 DEF Recien, Dentro
  <2>2. CASE j # i
    <3>1. u[j] = tasks[j]
      BY <1>5, <2>2
    <3> QED
      BY <1>4, <3>1 DEF Base, Sano, Guardadas
  <2> QED
    BY <2>1, <2>2
<1>9. Base'
  BY <1>4, <1>5, <1>6, <1>7, <1>8, FueraDeLaPuerta, Quieto
<1>10. Nacidas'
  <2>1. \A j \in Slots : u[j].tid < next_tid'
    BY <1>2, <1>5b, <1>4, <1>5
  <2>2. \A y \in Tids : y >= next_tid' => hilo'[y] = Recien
    <3> SUFFICES ASSUME NEW y \in Tids, y >= next_tid' PROVE hilo'[y] = Recien
      OBVIOUS
    <3>1. y \in Nat /\ y >= next_tid
      BY <1>2, Tamanos
    <3> QED
      BY <1>6, <3>1 DEF IInv, Nacidas
  <2>3. cadaver' = cadaver /\ cadaver.tid \in Nat /\ cadaver.tid < next_tid
        /\ cadaver \in [slot : Slots, tid : 0 .. MaxTid]
    BY <1>6 DEF IInv, Nacidas
  <2>4. cadaver'.tid < next_tid'
    BY <1>2, <2>3
  <2> QED
    BY <1>2, <1>6, <2>1, <2>2, <2>3, <2>4 DEF Nacidas
<1>11. Puerta'
  <2>1. ASSUME NEW j \in Slots, u[j].tid # 0, hilo[u[j].tid].lugar = "dentro"
        PROVE  titular = u[j].tid
    <3>1. j # i
      BY <1>5b, <1>4, <1>5, <2>1 DEF Recien
    <3> QED
      BY <1>5, <2>1, <3>1 DEF IInv, Puerta
  <2> QED
    BY <1>6, <2>1 DEF IInv, Puerta, puerta
<1>12. Muertes'
  <2>1. matar' = matar /\ (matar # 0 => matar # next_tid /\ matar \notin caps)
    BY <1>4, <1>6 DEF IInv, Puerta, Muertes, Recien, puerta
  <2> QED
    BY <1>2, <2>1 DEF IInv, Muertes
<1>13. Pilas'
  <2>1. \A j \in Slots : u[j].state \notin {"Empty", "Exited"} => u[j].tid \in pilas'
    BY <1>2, <1>5b, <1>5 DEF IInv, Pilas
  <2>2. \A j \in Slots : hilo[YO].lugar = "enterrar" /\ u[j].tid = cadaver.tid
                           => u[j].state \in {"Empty", "Exited"}
    <3>1. cadaver.tid # next_tid
      BY <1>2 DEF IInv, Nacidas
    <3> QED
      BY <1>5b, <1>5, <3>1 DEF IInv, Pilas
  <2> QED
    BY <1>2, <1>6, <2>1, <2>2 DEF IInv, Pilas
<1>14. BienMuere
  BY <1>5, <1>5b, <1>6, NadieFuera DEF NadieMuere
<1> QED
  BY <1>9, <1>10, <1>11, <1>12, <1>13, <1>14 DEF IInv

(* What the body of a thread says of the CPU. *)
LEMMA EnHiloDe ==
  ASSUME IInv, EnHilo
  PROVE  /\ Base /\ hilo[cpu].hondo = 0 /\ current # IDLE /\ ~tasks[current].is_user
         /\ tasks[current].state = "Running" /\ tasks[current].tid = cpu
         /\ current \in Slots /\ BuenaTabla(tasks)
         /\ trap_rsp \in Frame \cup {NoFrame}
  BY DEF IInv, Base, Sano, EnHilo

(* park_until, aparcar_en *)
LEMMA AparcaIInv ==
  ASSUME IInv, NEW key \in {Nada, Disco}, NEW plazo \in {0, MaxPlazo}, Aparca(key, plazo)
  PROVE  IInv' /\ BienMuere
<1>1. EnHilo /\ tasks' = MarkWait(tasks, key, plazo)
  BY DEF Aparca
<1>2. plazo \in 0 .. MaxPlazo /\ key \in Llaves \cup {Nada, Latido, Disco, Muertos}
  BY Tamanos
<1>3. /\ BuenaTabla(tasks') /\ Marcada(tasks, tasks') /\ NadieMuere(tasks, tasks')
      /\ \A i \in Slots : tasks'[i].state = "Running" => i = current
      /\ tasks'[current].state # "Ready"
  BY <1>1, <1>2, EnHiloDe, MarkWaitBuena
<1>4. Corre(tasks', current, cpu)
  BY <1>1, <1>3, EnHiloDe DEF Corre, Marcada, Misma
<1>5. UNCHANGED <<current, next_tid, resto, rampa, puerta, cadaver, cpu, hilo, roto,
                  pilas, caps, trap_rsp>>
  BY DEF Aparca
<1> QED
  BY <1>1, <1>3, <1>4, <1>5, EnHiloDe, NadieNinguno, NadieFuera, MarcasIInv

(* mark_exit: current dies, unless it is the shell, the idle thread or the *)
(* undertaker, which never call it.                                        *)
LEMMA MarkExitBuena ==
  ASSUME BuenaTabla(tasks), current \in Slots \ {SHELL, IDLE, 2},
         NEW t, BuenaTabla(t)
  PROVE  /\ BuenaTabla(MarkExit(t)) /\ Marcada(t, MarkExit(t))
         /\ \A i \in Slots \ {current} : MarkExit(t)[i] = t[i]
         /\ MarkExit(t)[current].state = IF t[current].state = "Running" THEN "Exited"
                                         ELSE t[current].state
<1> DEFINE u == MarkExit(t)
           x == [t[current] EXCEPT !.state = "Exited"]
<1>1. t \in [Slots -> Task] /\ t[current] \in Task
  BY DEF BuenaTabla
<1>2. /\ x \in Task /\ x.tid = t[current].tid /\ x.is_user = t[current].is_user
      /\ x.quantum = t[current].quantum /\ x.priority = t[current].priority
      /\ x.context_rsp = t[current].context_rsp /\ x.state = "Exited"
  BY <1>1, TareaMarcada DEF Task
<1>3. u = IF t[current].state = "Running" THEN [t EXCEPT ![current] = x] ELSE t
  BY DEF MarkExit
<1> HIDE DEF u, x
<1>4. /\ u \in [Slots -> Task] /\ \A i \in Slots \ {current} : u[i] = t[i]
      /\ u[current] = IF t[current].state = "Running" THEN x ELSE t[current]
  BY <1>1, <1>2, <1>3
<1>5. Marcada(t, u)
  BY <1>1, <1>2, <1>4 DEF Marcada, Misma
<1>6. BuenaTabla(u)
  <2>1. u[SHELL].state # "Exited" /\ u[IDLE].state \in {"Ready", "Running"}
        /\ u[2].state # "Exited"
    BY <1>4, Tamanos DEF BuenaTabla
  <2> QED
    BY <1>4, <1>5, <2>1, MismaBuena DEF Marcada
<1> QED
  BY <1>2, <1>4, <1>5, <1>6 DEF u

(* exit_and_park *)
LEMMA ExitAndParkIInv ==
  ASSUME IInv, ExitAndPark
  PROVE  IInv' /\ BienMuere
<1>1. EnHilo /\ cpu # YO /\ current # SHELL /\ tasks' = MarkExit(tasks)
  BY DEF ExitAndPark
<1>2. /\ Base /\ hilo[cpu].hondo = 0 /\ current # IDLE /\ ~tasks[current].is_user
      /\ tasks[current].state = "Running" /\ tasks[current].tid = cpu
      /\ current \in Slots /\ BuenaTabla(tasks)
      /\ trap_rsp \in Frame \cup {NoFrame}
      /\ Corre(tasks, current, cpu)
  BY <1>1, EnHiloDe DEF Base, Sano
<1>3. current \in Slots \ {SHELL, IDLE, 2}
  BY <1>1, <1>2 DEF BuenaTabla
<1>4. /\ BuenaTabla(tasks') /\ Marcada(tasks, tasks')
      /\ \A i \in Slots \ {current} : tasks'[i] = tasks[i]
      /\ tasks'[current].state = "Exited"
  BY <1>1, <1>2, <1>3, MarkExitBuena
<1>5. NingunPrograma(tasks, tasks')
  BY <1>2, <1>4 DEF NingunPrograma, Marcada, Misma
<1>6. Corre(tasks', current, cpu)
  BY <1>2, <1>4 DEF Corre, Marcada, Misma
<1>7. UNCHANGED <<current, next_tid, resto, rampa, puerta, cadaver, cpu, hilo, roto,
                  pilas, caps, trap_rsp>>
  BY DEF ExitAndPark
<1>8. BienMuere
  <2>1. hilo[cpu].lugar # "dentro"
    BY <1>2, FueraDeLaPuerta
  <2> QED
    BY <1>2, <1>4, <2>1 DEF BienMuere, MuereFuera, MuereSinCaps, Mueren
<1> QED
  BY <1>2, <1>4, <1>5, <1>6, <1>7, <1>8, MarcasIInv

----------------------------------------------------------------------------
(* The undertaker. *)

(* A section of its loop moves nobody else. *)
LEMMA SeccionDe ==
  ASSUME IInv, NEW lugar, Entierra(lugar),
         NEW sigue \in {"tomar", "enterrar", "liberar", "aparcar"},
         hilo' = [hilo EXCEPT ![YO].lugar = sigue],
         BuenaTabla(tasks'), Corre(tasks', current, cpu),
         \A i \in Slots \ {current} : tasks'[i].state \in {"Ready", "Blocked"} =>
            /\ tasks[i].state \in {"Ready", "Blocked"}
            /\ tasks[i].tid = tasks'[i].tid
            /\ tasks[i].context_rsp = tasks'[i].context_rsp,
         UNCHANGED <<current, resto, rampa, cpu, roto, trap_rsp>>
  PROVE  /\ Base' /\ cpu = YO /\ rampa = YO /\ hilo'[YO].lugar = sigue
         /\ \A x \in Tids \ {YO} : hilo'[x] = hilo[x]
<1>1. /\ Base /\ hilo[cpu].hondo = 0 /\ tasks[current].tid = cpu /\ cpu = YO
      /\ current \in Slots /\ BuenaTabla(tasks)
      /\ trap_rsp \in Frame \cup {NoFrame}
  BY EnHiloDe DEF Entierra
<1>2. hilo \in [Tids -> Hilo] /\ hilo[YO] \in Hilo /\ YO \in Tids
  BY <1>1, Tamanos DEF Base, Sano
<1>3. /\ hilo' \in [Tids -> Hilo] /\ hilo'[YO].hondo = 0 /\ hilo'[YO].lugar = sigue
      /\ \A x \in Tids \ {YO} : hilo'[x] = hilo[x]
  BY <1>1, <1>2 DEF Hilo
<1>4. rampa = YO
  BY <1>1, Tamanos DEF Base, Sano, BuenaTabla, SHELL, YO
<1>5. Guardadas(tasks', current, hilo')
  BY <1>1, <1>3, GuardadasDe DEF Corre
<1>6. Base'
  BY <1>1, <1>3, <1>5, Quieto
<1> QED
  BY <1>1, <1>3, <1>4, <1>6

(* The undertaker was born long ago. *)
LEMMA YoNacio == IInv => YO < next_tid
  BY DEF IInv, Nacidas, YO

(* The same table is as good as it was. *)
LEMMA IgualDe ==
  ASSUME IInv, tasks' = tasks
  PROVE  /\ BuenaTabla(tasks') /\ Corre(tasks', current, cpu)
         /\ \A i \in Slots \ {current} : tasks'[i].state \in {"Ready", "Blocked"} =>
               /\ tasks[i].state \in {"Ready", "Blocked"}
               /\ tasks[i].tid = tasks'[i].tid
               /\ tasks[i].context_rsp = tasks'[i].context_rsp
  BY DEF IInv, Base, Sano

(* The undertaker is not in the door, and leaves whoever is there. *)
LEMMA SigueDentro ==
  ASSUME IInv, hilo[YO].lugar # "dentro", \A x \in Tids \ {YO} : hilo'[x] = hilo[x]
  PROVE  titular # 0 => hilo'[titular].lugar = "dentro"
  BY Tamanos DEF IInv, Puerta, Tids

(* tomar_muerto *)
LEMMA TomarIInv ==
  ASSUME IInv, Tomar
  PROVE  IInv' /\ BienMuere
<1>1. /\ Entierra("tomar") /\ tasks' = tasks /\ pilas' = pilas
      /\ UNCHANGED <<current, resto, rampa, cpu, roto, trap_rsp>>
      /\ UNCHANGED <<next_tid, caps, titular, intocable, matar>>
  BY DEF Tomar, puerta
<1>2. PICK sigue \in {"enterrar", "aparcar"} :
        /\ hilo' = [hilo EXCEPT ![YO].lugar = sigue]
        /\ \/ sigue = "aparcar" /\ cadaver' = cadaver
           \/ /\ sigue = "enterrar"
              /\ \E i \in Slots : /\ tasks[i].state = "Exited" /\ tasks[i].tid # YO
                                  /\ cadaver' = [slot |-> i, tid |-> tasks[i].tid]
  BY DEF Tomar
<1>3. /\ Base' /\ cpu = YO /\ rampa = YO /\ hilo'[YO].lugar = sigue
      /\ \A x \in Tids \ {YO} : hilo'[x] = hilo[x]
  BY <1>1, <1>2, IgualDe, SeccionDe
<1>4. BuenaTabla(tasks) /\ \A i \in Slots : tasks[i] \in Task
  BY DEF IInv, Base, Sano, BuenaTabla
<1>5. /\ cadaver' \in [slot : Slots, tid : 0 .. MaxTid] /\ cadaver'.tid < next_tid
      /\ sigue = "enterrar" =>
           /\ cadaver'.tid # YO
           /\ \A i \in Slots : tasks[i].tid = cadaver'.tid
                                 => tasks[i].state \in {"Empty", "Exited"}
  <2>1. CASE cadaver' = cadaver /\ sigue = "aparcar"
    BY <2>1 DEF IInv, Nacidas
  <2>2. ASSUME NEW i \in Slots, tasks[i].state = "Exited", tasks[i].tid # YO,
               cadaver' = [slot |-> i, tid |-> tasks[i].tid]
        PROVE  /\ cadaver' \in [slot : Slots, tid : 0 .. MaxTid]
               /\ cadaver'.tid < next_tid /\ cadaver'.tid # YO
               /\ \A j \in Slots : tasks[j].tid = cadaver'.tid
                                     => tasks[j].state \in {"Empty", "Exited"}
    <3>1. tasks[i].tid \in 0 .. MaxTid /\ tasks[i].tid < next_tid
      BY <1>4 DEF Task, IInv, Nacidas
    <3>2. \A j \in Slots : tasks[j].tid = tasks[i].tid => j = i
      BY <1>4, <2>2, DeSuTid
    <3> QED
      BY <2>2, <3>1, <3>2
  <2> QED
    BY <1>2, <2>1, <2>2
<1>6. Nacidas'
  <2>1. \A x \in Tids : x >= next_tid => hilo'[x] = Recien
    BY <1>3, YoNacio, Tamanos DEF IInv, Nacidas, YO
  <2> QED
    BY <1>1, <1>5, <2>1 DEF IInv, Nacidas
<1>7. Puerta'
  <2>1. ASSUME NEW i \in Slots, tasks[i].tid # 0, hilo'[tasks[i].tid].lugar = "dentro"
        PROVE  titular = tasks[i].tid
    <3>1. tasks[i].tid \in Tids /\ tasks[i].tid # YO
      BY <1>2, <1>3, <1>4, <2>1, DeSuTid DEF BuenaTabla
    <3> QED
      BY <1>3, <2>1, <3>1 DEF IInv, Puerta
  <2>2. titular # 0 => hilo'[titular].lugar = "dentro"
    BY <1>1, <1>3, SigueDentro DEF Entierra
  <2> QED
    BY <1>1, <2>1, <2>2 DEF IInv, Puerta
<1>8. Muertes' /\ Pilas'
  BY <1>1, <1>2, <1>3, <1>5 DEF IInv, Muertes, Pilas
<1> QED
  BY <1>3, <1>6, <1>7, <1>8, <1>1, IgualFuera DEF IInv

(* What the other three leave as it was. *)
LEMMA SeccionResto ==
  ASSUME IInv, NEW sigue \in {"tomar", "liberar"}, hilo'[YO].lugar = sigue,
         hilo[YO].lugar # "dentro",
         \A x \in Tids \ {YO} : hilo'[x] = hilo[x],
         \A i \in Slots : \/ tasks'[i].tid = tasks[i].tid
                          \/ tasks'[i].tid = 0,
         UNCHANGED <<next_tid, cadaver, titular, intocable, matar>>
  PROVE  Nacidas' /\ Puerta'
<1>1. \A x \in Tids : x >= next_tid => hilo'[x] = Recien
  BY YoNacio, Tamanos DEF IInv, Nacidas, YO
<1>2. \A i \in Slots : tasks'[i].tid < next_tid
  BY DEF IInv, Nacidas
<1>3. ASSUME NEW i \in Slots, tasks'[i].tid # 0, hilo'[tasks'[i].tid].lugar = "dentro"
      PROVE  titular = tasks'[i].tid
  <2>1. BuenaTabla(tasks) /\ tasks'[i].tid = tasks[i].tid
    BY <1>3 DEF IInv, Base, Sano
  <2>2. tasks[i].tid \in Tids /\ tasks[i].tid # YO
    BY <1>3, <2>1, DeSuTid DEF BuenaTabla
  <2> QED
    BY <1>3, <2>1, <2>2 DEF IInv, Puerta
<1>4. titular # 0 => hilo'[titular].lugar = "dentro"
  BY SigueDentro
<1> QED
  BY <1>1, <1>2, <1>3, <1>4 DEF IInv, Nacidas, Puerta

(* enterrar: the stack is nobody's, for the undertaker stands on its own.  *)
LEMMA EnterrarIInv ==
  ASSUME IInv, Enterrar
  PROVE  IInv' /\ BienMuere
<1>1. /\ Entierra("enterrar") /\ tasks' = tasks /\ pilas' = pilas \ {cadaver.tid}
      /\ hilo' = [hilo EXCEPT ![YO].lugar = "liberar"]
      /\ UNCHANGED <<current, resto, rampa, cpu, roto, trap_rsp>>
      /\ UNCHANGED <<next_tid, cadaver, caps, titular, intocable, matar>>
  BY DEF Enterrar, puerta
<1>2. /\ Base' /\ cpu = YO /\ rampa = YO /\ hilo'[YO].lugar = "liberar"
      /\ \A x \in Tids \ {YO} : hilo'[x] = hilo[x]
  BY <1>1, IgualDe, SeccionDe
<1>3. Nacidas' /\ Puerta'
  BY <1>1, <1>2, SeccionResto DEF Entierra
<1>4. Muertes'
  BY <1>1 DEF IInv, Muertes
<1>5. Pilas'
  <2>1. /\ cadaver.tid # YO
        /\ \A i \in Slots : tasks[i].tid = cadaver.tid
                              => tasks[i].state \in {"Empty", "Exited"}
    BY <1>1 DEF Entierra, IInv, Pilas
  <2> QED
    BY <1>1, <1>2, <2>1 DEF IInv, Pilas
<1> QED
  BY <1>2, <1>3, <1>4, <1>5, <1>1, IgualFuera DEF IInv

(* liberar_ranura *)
LEMMA LiberarIInv ==
  ASSUME IInv, Liberar
  PROVE  IInv' /\ BienMuere
<1>1. /\ Entierra("liberar") /\ pilas' = pilas
      /\ hilo' = [hilo EXCEPT ![YO].lugar = "tomar"]
      /\ UNCHANGED <<current, resto, rampa, cpu, roto, trap_rsp>>
      /\ UNCHANGED <<next_tid, cadaver, caps, titular, intocable, matar>>
  BY DEF Liberar, puerta
<1>2. /\ BuenaTabla(tasks) /\ tasks \in [Slots -> Task] /\ Corre(tasks, current, cpu)
      /\ cadaver.slot \in Slots /\ current \in Slots /\ tasks[current].state = "Running"
  BY <1>1 DEF IInv, Base, Sano, BuenaTabla, Nacidas, Entierra, EnHilo
<1>3. EMPTY \in Task /\ EMPTY.tid = 0 /\ EMPTY.state = "Empty" /\ EMPTY.quantum = Quantum
      /\ ~EMPTY.is_user
  <2>1. 0 \in 0 .. MaxTid /\ 0 \in 0 .. 31 /\ 0 \in 0 .. MaxPlazo /\ 0 \in 0 .. MaxAparte
    BY Tamanos
  <2> QED
    BY <2>1 DEF EMPTY, Task
<1>4. /\ BuenaTabla(tasks') /\ tasks'[current] = tasks[current]
      /\ \A i \in Slots : \/ tasks'[i] = tasks[i]
                          \/ tasks'[i] = EMPTY
  <2>1. CASE tasks' = tasks
    BY <1>2, <2>1
  <2>2. CASE /\ tasks' = [tasks EXCEPT ![cadaver.slot] = EMPTY]
             /\ tasks[cadaver.slot].state = "Exited"
    <3>1. /\ tasks' \in [Slots -> Task] /\ tasks'[cadaver.slot] = EMPTY
          /\ \A i \in Slots \ {cadaver.slot} : tasks'[i] = tasks[i]
      BY <1>2, <1>3, <2>2
    <3>2. cadaver.slot \notin {SHELL, IDLE, 2, current}
      BY <1>2, <2>2 DEF BuenaTabla
    <3>3. \A i, j \in Slots :
            tasks'[i].quantum = QuantumDelante /\ tasks'[j].quantum = QuantumDelante
              => i = j
      BY <1>2, <1>3, <3>1, Tamanos DEF BuenaTabla
    <3>4. \A i, j \in Slots : tasks'[i].tid = tasks'[j].tid /\ tasks'[i].tid # 0 => i = j
      BY <1>2, <1>3, <3>1 DEF BuenaTabla
    <3>5. \A i \in Slots : /\ (tasks'[i].state = "Empty") <=> (tasks'[i].tid = 0)
                           /\ tasks'[i].state = "Empty" => ~tasks'[i].is_user
                           /\ ~tasks'[i].is_user => tasks'[i].quantum = Quantum
      BY <1>2, <1>3, <3>1 DEF BuenaTabla
    <3>6. BuenaTabla(tasks')
      BY <1>2, <3>1, <3>2, <3>3, <3>4, <3>5, Tamanos DEF BuenaTabla
    <3> QED
      BY <1>2, <3>1, <3>2, <3>6
  <2> QED
    BY <2>1, <2>2 DEF Liberar
<1>5. Corre(tasks', current, cpu)
  BY <1>2, <1>3, <1>4 DEF Corre
<1>6. \A i \in Slots \ {current} : tasks'[i].state \in {"Ready", "Blocked"} =>
            /\ tasks[i].state \in {"Ready", "Blocked"}
            /\ tasks[i].tid = tasks'[i].tid
            /\ tasks[i].context_rsp = tasks'[i].context_rsp
  BY <1>3, <1>4
<1>7. /\ Base' /\ cpu = YO /\ rampa = YO /\ hilo'[YO].lugar = "tomar"
      /\ \A x \in Tids \ {YO} : hilo'[x] = hilo[x]
  BY <1>1, <1>4, <1>5, <1>6, SeccionDe
<1>8. Nacidas' /\ Puerta'
  BY <1>1, <1>3, <1>4, <1>7, SeccionResto DEF Entierra
<1>9. Muertes' /\ Pilas'
  BY <1>1, <1>3, <1>4, <1>7 DEF IInv, Muertes, Pilas
<1>10. BienMuere
  BY <1>3, <1>4, NadieFuera DEF NadieMuere
<1> QED
  BY <1>7, <1>8, <1>9, <1>10 DEF IInv

(* aparcar_hasta_un_muerto *)
LEMMA AparcarIInv ==
  ASSUME IInv, AparcarHastaUnMuerto
  PROVE  IInv' /\ BienMuere
<1>1. /\ Entierra("aparcar") /\ pilas' = pilas
      /\ hilo' = [hilo EXCEPT ![YO].lugar = "tomar"]
      /\ UNCHANGED <<current, resto, rampa, cpu, roto, trap_rsp>>
      /\ UNCHANGED <<next_tid, cadaver, caps, titular, intocable, matar>>
      /\ tasks' = tasks \/ tasks' = MarkWait(tasks, Muertos, 0)
      /\ EnHilo
  BY DEF AparcarHastaUnMuerto, puerta, Entierra
<1>2. 0 \in 0 .. MaxPlazo /\ Muertos \in Llaves \cup {Nada, Latido, Disco, Muertos}
  BY Tamanos
<1>3. /\ BuenaTabla(tasks') /\ Marcada(tasks, tasks') /\ NadieMuere(tasks, tasks')
      /\ Corre(tasks', current, cpu)
  <2>1. CASE tasks' = tasks
    BY <2>1, IgualDe DEF Marcada, Misma, NadieMuere
  <2>2. CASE tasks' = MarkWait(tasks, Muertos, 0)
    <3>1. /\ BuenaTabla(tasks') /\ Marcada(tasks, tasks') /\ NadieMuere(tasks, tasks')
          /\ \A i \in Slots : tasks'[i].state = "Running" => i = current
          /\ tasks'[current].state # "Ready"
      BY <1>1, <1>2, <2>2, EnHiloDe, MarkWaitBuena
    <3> QED
      BY <1>1, <3>1, EnHiloDe DEF Corre, Marcada, Misma
  <2> QED
    BY <1>1, <2>1, <2>2
<1>4. \A i \in Slots \ {current} : tasks'[i].state \in {"Ready", "Blocked"} =>
            /\ tasks[i].state \in {"Ready", "Blocked"}
            /\ tasks[i].tid = tasks'[i].tid
            /\ tasks[i].context_rsp = tasks'[i].context_rsp
  BY <1>3, EsperabaYa DEF BuenaTabla, IInv
<1>5. /\ Base' /\ cpu = YO /\ rampa = YO /\ hilo'[YO].lugar = "tomar"
      /\ \A x \in Tids \ {YO} : hilo'[x] = hilo[x]
  BY <1>1, <1>3, <1>4, SeccionDe
<1>6. Nacidas' /\ Puerta'
  BY <1>1, <1>3, <1>5, SeccionResto DEF Entierra, Marcada, Misma
<1>7. Muertes' /\ Pilas'
  BY <1>1, <1>3, <1>5 DEF IInv, Muertes, Pilas, Marcada, Misma,
                          NadieMuere
<1> QED
  BY <1>3, <1>5, <1>6, <1>7, NadieFuera DEF IInv

----------------------------------------------------------------------------
(* The calls that pass the door. *)

(* The task that is in a system call is a program, and a live stack. *)
LEMMA ProgramaDe ==
  ASSUME IInv, tasks[current].is_user
  PROVE  /\ BuenaTabla(tasks) /\ current \in Slots \ {SHELL, IDLE, 2}
         /\ tasks[current].state \in {"Running", "Exited"}
         /\ tasks[current].tid = cpu /\ cpu \in Tids /\ cpu # YO
         /\ rampa = cpu /\ hilo \in [Tids -> Hilo]
<1>1. /\ BuenaTabla(tasks) /\ current \in Slots /\ tasks[current].tid = cpu
      /\ cpu \in Tids /\ hilo \in [Tids -> Hilo]
      /\ tasks[current].state \notin {"Empty", "Ready", "Blocked"}
      /\ current # SHELL => rampa = cpu
  BY DEF IInv, Base, Sano, Corre
<1>2. current \notin {SHELL, IDLE, 2}
  BY <1>1 DEF BuenaTabla
<1>3. tasks[current].state \in {"Running", "Exited"}
  BY <1>1 DEF BuenaTabla, Task
<1>4. cpu # YO
  BY <1>1, <1>2, Tamanos DEF BuenaTabla
<1> QED
  BY <1>1, <1>2, <1>3, <1>4

(* terminar marks one program, that may not be the protected one. *)
LEMMA TerminarBuena ==
  ASSUME NEW t, BuenaTabla(t), NEW tid, NEW protegido
  PROVE  LET u == Terminar(t, tid, protegido) IN
         /\ BuenaTabla(u) /\ Marcada(t, u)
         /\ \A i \in Slots : \/ u[i].state = t[i].state
                             \/ /\ u[i].state = "Exited" /\ t[i].is_user
                                /\ t[i].tid = tid /\ tid # protegido /\ t[i].tid # 0
<1> DEFINE u == Terminar(t, tid, protegido)
<1>1. t \in [Slots -> Task] /\ \A i \in Slots : t[i] \in Task
  BY DEF BuenaTabla
<1>2. \A i \in Slots : LET x == [t[i] EXCEPT !.state = "Exited"] IN
        /\ x \in Task /\ x.tid = t[i].tid /\ x.is_user = t[i].is_user
        /\ x.quantum = t[i].quantum /\ x.priority = t[i].priority
        /\ x.context_rsp = t[i].context_rsp /\ x.state = "Exited"
  <2> SUFFICES ASSUME NEW y \in Task
               PROVE  LET x == [y EXCEPT !.state = "Exited"] IN
                      /\ x \in Task /\ x.tid = y.tid /\ x.is_user = y.is_user
                      /\ x.quantum = y.quantum /\ x.priority = y.priority
                      /\ x.context_rsp = y.context_rsp /\ x.state = "Exited"
    BY <1>1
  <2>1. [y EXCEPT !.state = "Exited"] \in Task
    BY TareaMarcada
  <2> QED
    BY <2>1 DEF Task
<1>3. \A i \in Slots : \/ u[i] = t[i]
                       \/ /\ u[i] = [t[i] EXCEPT !.state = "Exited"]
                          /\ t[i].is_user /\ t[i].tid = tid /\ tid # protegido
                          /\ t[i].state # "Empty"
  BY DEF Terminar, Terminables
<1>4. u \in [Slots -> Task]
  <2>1. u = t \/ u = [i \in Slots |-> IF i \in Terminables(t, tid)
                                      THEN [t[i] EXCEPT !.state = "Exited"] ELSE t[i]]
    BY DEF Terminar
  <2> QED
    BY <1>1, <1>2, <2>1
<1> HIDE DEF u
<1>5. Marcada(t, u)
  <2>1. ASSUME NEW i \in Slots
        PROVE  /\ u[i].tid = t[i].tid /\ u[i].is_user = t[i].is_user
               /\ u[i].quantum = t[i].quantum /\ u[i].priority = t[i].priority
               /\ (u[i].state = "Empty") <=> (t[i].state = "Empty")
               /\ t[i].state = "Exited" => u[i].state = "Exited"
               /\ u[i].context_rsp = t[i].context_rsp
    <3>1. CASE u[i] = t[i]
      BY <3>1
    <3>2. CASE u[i] = [t[i] EXCEPT !.state = "Exited"] /\ t[i].state # "Empty"
      BY <1>2, <3>2
    <3> QED
      BY <1>3, <3>1, <3>2
  <2> QED
    BY <2>1 DEF Marcada, Misma
<1>6. \A i \in Slots : \/ u[i].state = t[i].state
                       \/ /\ u[i].state = "Exited" /\ t[i].is_user
                          /\ t[i].tid = tid /\ tid # protegido /\ t[i].tid # 0
  BY <1>2, <1>3, ZenonT(60) DEF BuenaTabla
<1>7. BuenaTabla(u)
  <2>1. u[SHELL].state # "Exited" /\ u[IDLE].state \in {"Ready", "Running"}
        /\ u[2].state # "Exited"
    BY <1>6, Tamanos DEF BuenaTabla
  <2> QED
    BY <1>4, <1>5, <2>1, MismaBuena DEF Marcada
<1> QED
  BY <1>5, <1>6, <1>7 DEF u

(* What the end of a call may have brought to the table and the threads:   *)
(* the caller is out of the door, the others are where they were, and who  *)
(* died is the caller, its child, or was dead in t.                        *)
Acabada(t, fin, victima, protegido) ==
  /\ Misma(tasks, tasks')
  /\ hilo'[cpu].lugar = "fuera"
  /\ \A x \in Tids \ {cpu} : /\ hilo'[x].lugar = hilo[x].lugar
                             /\ (\A i \in Slots : tasks[i].tid # x) => hilo'[x] = hilo[x]
  /\ \A i \in Slots : tasks'[i].state = "Exited" =>
       \/ t[i].state = "Exited"
       \/ fin \in {"morir", "fallo"} /\ tasks[i].tid = cpu
       \/ /\ fin = "cerrar" /\ tasks[i].tid = victima /\ victima # protegido
          /\ victima # 0

(* The thread of the caller, as the end of the call finds it. *)
AlFinal == [hilo EXCEPT ![cpu] = Recien]

(* It is out of the door, with the frame of the call on its stack. *)
LEMMA AlFinalDe ==
  ASSUME Base
  PROVE  /\ AlFinal \in [Tids -> Hilo] /\ AlFinal[cpu] = Recien
         /\ AlFinal[cpu].hondo = 1 /\ Dentro(AlFinal, cpu) = 0
         /\ \A x \in Tids \ {cpu} : AlFinal[x] = hilo[x]
<1>1. Recien \in Hilo /\ Recien.hondo = 1 /\ Recien.lugar = "fuera"
  <2>1. 0 \in 0 .. MaxTid /\ 1 \in 0 .. 2
    BY Tamanos
  <2> QED
    BY <2>1 DEF Recien, Hilo
<1>2. hilo \in [Tids -> Hilo] /\ cpu \in Tids
  BY DEF Base, Sano
<1>3. AlFinal \in [Tids -> Hilo] /\ AlFinal[cpu] = Recien
      /\ \A x \in Tids \ {cpu} : AlFinal[x] = hilo[x]
  BY <1>1, <1>2 DEF AlFinal
<1> QED
  BY <1>1, <1>3 DEF Dentro

(* The rest of a call: death, the closing of a child, or nothing. *)
LEMMA AcabaDe ==
  ASSUME IInv, tasks[current].is_user, NEW t, BuenaTabla(t), Marcada(tasks, t),
         \A i \in Slots : t[i].state = "Running" => i = current,
         t[current].state \in {"Running", "Exited"},
         NEW fin, NEW victima, NEW protegido, NEW apuntada,
         Acaba(t, fin, victima, protegido, apuntada)
  PROVE  /\ Base' /\ cpu' \in pilas /\ rampa' \in pilas
         /\ Acabada(t, fin, victima, protegido)
<1> DEFINE muere == fin \in {"morir", "fallo"}
           h == AlFinal
           t1 == CASE muere -> MarkExit(t)
                   [] fin = "cerrar" -> Terminar(t, victima, protegido)
                   [] OTHER -> t
           m == IF fin = "fallo" THEN trap_rsp ELSE [de |-> cpu, n |-> 1]
           S == Estado(t1, resto, m)
<1>1. Epilogo(IF muere THEN ScheduleLocked(S, fin # "fallo", 0) ELSE S, h)
  BY DEF Acaba, AlFinal, Recien
<1>2. /\ BuenaTabla(tasks) /\ current \in Slots \ {SHELL, IDLE, 2}
      /\ tasks[current].tid = cpu /\ cpu \in Tids /\ Base
      /\ resto \in 1 .. QuantumDelante /\ trap_rsp \in Frame \cup {NoFrame}
      /\ rampa = cpu /\ rampa \in pilas
  BY ProgramaDe DEF IInv, Base, Sano, Pilas
<1>3. /\ h \in [Tids -> Hilo] /\ h[cpu].hondo = Dentro(h, cpu) + 1
      /\ h[cpu].hondo = 1 /\ h[cpu] = Recien
      /\ \A x \in Tids \ {cpu} : h[x] = hilo[x]
  BY <1>2, AlFinalDe
<1>4. /\ m \in Frame \cup {NoFrame}
      /\ fin # "fallo" => m = [de |-> cpu, n |-> h[cpu].hondo]
  BY <1>2, <1>3 DEF Frame
<1> HIDE DEF h, m
<1>5. /\ BuenaTabla(t1) /\ Marcada(t, t1)
      /\ \A i \in Slots : t1[i].state = "Running" => i = current
      /\ t1[current].state \in {"Running", "Exited"}
      /\ muere => t1[current].state = "Exited"
      /\ \A i \in Slots : t1[i].state = "Exited" =>
           \/ t[i].state = "Exited"
           \/ muere /\ i = current
           \/ fin = "cerrar" /\ t[i].tid = victima /\ victima # protegido /\ victima # 0
  <2>1. CASE muere
    <3>1. t1 = MarkExit(t)
      BY <2>1
    <3> HIDE DEF t1
    <3>2. /\ BuenaTabla(t1) /\ Marcada(t, t1)
          /\ \A i \in Slots \ {current} : t1[i] = t[i]
          /\ t1[current].state = IF t[current].state = "Running" THEN "Exited"
                                 ELSE t[current].state
      BY <1>2, <3>1, MarkExitBuena
    <3> QED
      BY <2>1, <3>2
  <2>2. CASE fin = "cerrar"
    <3>1. t1 = Terminar(t, victima, protegido) /\ ~muere
      BY <2>2
    <3> HIDE DEF t1
    <3>2. /\ BuenaTabla(t1) /\ Marcada(t, t1)
          /\ \A i \in Slots : \/ t1[i].state = t[i].state
                              \/ /\ t1[i].state = "Exited" /\ t[i].is_user
                                 /\ t[i].tid = victima /\ victima # protegido
                                 /\ t[i].tid # 0
      BY <3>1, TerminarBuena
    <3> QED
      BY <1>2, <2>2, <3>1, <3>2
  <2>3. CASE ~muere /\ fin # "cerrar"
    <3>1. t1 = t
      BY <2>3
    <3> QED
      BY <2>3, <3>1 DEF Marcada, Misma
  <2> QED
    BY <2>1, <2>2, <2>3
<1> HIDE DEF t1
<1>6. Marcada(tasks, t1) /\ Misma(tasks, t1)
  BY <1>5 DEF Marcada, Misma
<1>7. Antes(t1, h)
  BY <1>2, <1>3, <1>5, <1>6, AntesDe
<1>8. /\ Base' /\ Misma(tasks, tasks') /\ NadieMuere(t1, tasks')
      /\ MismosHilos(h, hilo') /\ cpu' \in pilas /\ rampa' \in pilas
  <2>1. CASE muere
    <3> DEFINE T == ScheduleLocked(S, fin # "fallo", 0)
    <3>1. Entrega(T, t1, h)
      <4>1. 0 \in 0 .. MaxAparte
        BY Tamanos
      <4> QED
        BY <1>2, <1>4, <1>5, <1>7, <2>1, <4>1, TurnoDa
    <3>2. Epilogo(T, h)
      BY <1>1, <2>1
    <3> HIDE DEF T, S, muere
    <3> QED
      BY <1>6, <3>1, <3>2, TurnoEntero
  <2>2. CASE ~muere
    <3>1. Epilogo(S, h)
      BY <1>1, <2>2
    <3>2. m = [de |-> cpu, n |-> h[cpu].hondo]
      BY <1>4, <2>2
    <3>3. Epilogo(Estado(t1, resto, [de |-> cpu, n |-> h[cpu].hondo]), h)
      BY <3>1, <3>2
    <3>4. Corre(t1, current, cpu)
      BY <1>2, <1>5, <1>6 DEF Corre, Misma
    <3>5. /\ Base' /\ tasks' = t1 /\ cpu' = cpu /\ rampa' = rampa
          /\ MismosHilos(h, hilo')
      BY <1>2, <1>6, <1>7, <3>3, <3>4, QuedaEntero
    <3> QED
      BY <1>2, <1>6, <3>5 DEF NadieMuere
  <2> QED
    BY <2>1, <2>2
<1>9. hilo'[cpu].lugar = "fuera"
  BY <1>2, <1>3, <1>8 DEF MismosHilos, Recien
<1>10. \A x \in Tids \ {cpu} :
         /\ hilo'[x].lugar = hilo[x].lugar
         /\ (\A i \in Slots : tasks[i].tid # x) => hilo'[x] = hilo[x]
  BY <1>3, <1>8 DEF MismosHilos
<1>11. \A i \in Slots : tasks'[i].state = "Exited" =>
       \/ t[i].state = "Exited"
       \/ fin \in {"morir", "fallo"} /\ tasks[i].tid = cpu
       \/ fin = "cerrar" /\ tasks[i].tid = victima /\ victima # protegido /\ victima # 0
  BY <1>2, <1>5, <1>8 DEF NadieMuere, Marcada, Misma
<1> QED
  BY <1>8, <1>9, <1>10, <1>11 DEF Acabada

(* What the end of a call leaves of the invariant, but for the door.       *)
LEMMA AcabaResto ==
  ASSUME IInv, tasks[current].is_user, NEW t, Marcada(tasks, t),
         \A i \in Slots : t[i].state = "Exited" =>
            tasks[i].state = "Exited" \/ tasks[i].tid \notin caps,
         NEW fin, NEW victima \in 0 .. MaxTid, NEW protegido, NEW apuntada \in {0, matar},
         Acabada(t, fin, victima, protegido),
         Acaba(t, fin, victima, protegido, apuntada),
         cpu' \in pilas, rampa' \in pilas, UNCHANGED <<next_tid, cadaver, pilas>>
  PROVE  /\ Nacidas' /\ Muertes' /\ Pilas' /\ MuereSinCaps
         /\ \/ matar' = apuntada
            \/ matar' = protegido /\ protegido # 0
<1>1. /\ BuenaTabla(tasks) /\ tasks[current].tid = cpu /\ cpu \in Tids /\ cpu # YO
      /\ current \in Slots /\ \A i \in Slots : tasks[i] \in Task
      /\ next_tid \in Nat
  BY ProgramaDe DEF BuenaTabla, IInv, Nacidas
<1>2. /\ Misma(tasks, tasks')
      /\ hilo'[cpu].lugar = "fuera"
      /\ \A x \in Tids \ {cpu} : /\ hilo'[x].lugar = hilo[x].lugar
                                 /\ (\A i \in Slots : tasks[i].tid # x) => hilo'[x] = hilo[x]
      /\ \A i \in Slots : tasks'[i].state = "Exited" =>
           \/ t[i].state = "Exited"
           \/ fin \in {"morir", "fallo"} /\ tasks[i].tid = cpu
           \/ /\ fin = "cerrar" /\ tasks[i].tid = victima /\ victima # protegido
              /\ victima # 0
  BY DEF Acabada
<1>3. /\ matar' = IF fin = "cerrar" THEN Apuntada(t, victima, protegido, apuntada)
                  ELSE apuntada
      /\ caps' = caps \ Revocada(fin, victima)
  BY DEF Acaba
<1>4. Nacidas'
  <2>1. ASSUME NEW x \in Tids, x >= next_tid PROVE hilo'[x] = Recien
    <3>1. \A i \in Slots : tasks[i].tid # x
      <4>1. x \in Nat /\ \A i \in Slots : tasks[i].tid \in Nat
        BY <1>1, Tamanos DEF Task
      <4> QED
        BY <1>1, <2>1, <4>1 DEF IInv, Nacidas
    <3>2. x # cpu
      BY <1>1, <3>1
    <3> QED
      BY <1>2, <2>1, <3>1, <3>2 DEF IInv, Nacidas
  <2> QED
    BY <1>2, <2>1 DEF IInv, Nacidas, Misma
<1>5. /\ fin \in {"morir", "fallo"} => cpu \in Revocada(fin, victima)
      /\ fin = "cerrar" /\ victima # 0 => victima \in Revocada(fin, victima)
  BY DEF Revocada
<1>6. \/ matar' = apuntada
      \/ /\ matar' = victima /\ victima = protegido /\ victima # 0
         /\ fin = "cerrar"
  <2>1. CASE fin = "cerrar" /\ victima = protegido /\ Terminables(t, victima) # {}
    <3>1. PICK i \in Slots : t[i].tid = victima /\ t[i].state # "Empty"
      BY <2>1 DEF Terminables
    <3>2. tasks[i].tid = victima /\ tasks[i].state # "Empty"
      BY <3>1 DEF Marcada, Misma
    <3>3. victima # 0
      BY <1>1, <3>2 DEF BuenaTabla
    <3> QED
      BY <1>3, <2>1, <3>3 DEF Apuntada
  <2>2. CASE ~(fin = "cerrar" /\ victima = protegido /\ Terminables(t, victima) # {})
    BY <1>3, <2>2 DEF Apuntada
  <2> QED
    BY <2>1, <2>2
<1>7. Muertes'
  <2>1. caps' \subseteq Tids
    BY <1>3 DEF IInv, Muertes
  <2>2. matar' # 0 => matar' \notin caps'
    BY <1>3, <1>5, <1>6 DEF IInv, Muertes
  <2> QED
    BY <2>1, <2>2 DEF Muertes
<1>9. MuereSinCaps
  BY <1>2, <1>3, <1>5 DEF MuereSinCaps, Mueren
<1>8. Pilas'
  <2>1. hilo'[YO].lugar = hilo[YO].lugar
    BY <1>1, <1>2, Tamanos
  <2>2. \A i \in Slots : tasks'[i].state \notin {"Empty", "Exited"} => tasks'[i].tid \in pilas
    BY <1>2 DEF IInv, Pilas, Misma
  <2>3. \A i \in Slots : tasks[i].state \in {"Empty", "Exited"}
                           => tasks'[i].state \in {"Empty", "Exited"}
    BY <1>2 DEF Misma
  <2> QED
    BY <1>2, <2>1, <2>2, <2>3 DEF IInv, Pilas, Misma
<1> QED
  BY <1>4, <1>6, <1>7, <1>8, <1>9

(* Whoever is inside after the end of a call was inside before, and is not *)
(* the caller; and the holder stays there if it is not the caller.         *)
LEMMA AcabaPuerta ==
  ASSUME IInv, tasks[current].is_user, NEW t, NEW fin, NEW victima, NEW protegido,
         Acabada(t, fin, victima, protegido)
  PROVE  /\ \A i \in Slots :
              tasks'[i].tid # 0 /\ hilo'[tasks'[i].tid].lugar = "dentro" =>
                tasks'[i].tid # cpu /\ titular = tasks'[i].tid
         /\ titular \notin {0, cpu} => hilo'[titular].lugar = "dentro"
<1>1. titular \notin {0, cpu} => hilo'[titular].lugar = "dentro"
  BY Tamanos DEF Acabada, IInv, Puerta, Tids
<1> SUFFICES ASSUME NEW i \in Slots, tasks'[i].tid # 0,
                    hilo'[tasks'[i].tid].lugar = "dentro"
             PROVE  tasks'[i].tid # cpu /\ titular = tasks'[i].tid
  BY <1>1
<1>2. tasks'[i].tid = tasks[i].tid
  BY DEF Acabada, Misma
<1>3. BuenaTabla(tasks)
  BY ProgramaDe
<1>4. tasks[i].tid \in Tids
  BY <1>2, <1>3, DeSuTid DEF BuenaTabla
<1>5. tasks[i].tid # cpu
  BY <1>2 DEF Acabada
<1> QED
  BY <1>2, <1>4, <1>5 DEF Acabada, IInv, Puerta

(* A step of the caller at the door. *)
LEMMA AlaPuerta ==
  ASSUME IInv, tasks[current].is_user, NEW x \in Hilo, x.hondo = 1,
         x.lugar \in {"espera", "dentro"}, hilo' = [hilo EXCEPT ![cpu] = x],
         trap_rsp' \in Frame \cup {NoFrame},
         x.fin # "fallo" => trap_rsp' = [de |-> cpu, n |-> 1],
         UNCHANGED <<tasks, current, next_tid, resto, rampa, cadaver, cpu, pilas, roto,
                     caps>>
  PROVE  /\ Base' /\ Nacidas' /\ Pilas'
         /\ hilo'[cpu] = x /\ \A y \in Tids \ {cpu} : hilo'[y] = hilo[y]
<1>1. /\ BuenaTabla(tasks) /\ current \in Slots
      /\ tasks[current].tid = cpu /\ cpu \in Tids /\ cpu # YO
      /\ hilo \in [Tids -> Hilo] /\ Base
      /\ tasks[current].state \in {"Running", "Exited"}
  BY ProgramaDe DEF IInv
<1>2. /\ hilo' \in [Tids -> Hilo] /\ hilo'[cpu] = x
      /\ \A y \in Tids \ {cpu} : hilo'[y] = hilo[y]
  BY <1>1
<1>3. Dentro(hilo', cpu) = 1
  BY <1>2 DEF Dentro
<1>4. Guardadas(tasks, current, hilo')
  BY <1>1, <1>2, GuardadasDe
<1>5. Sano(tasks, current, cpu, hilo', rampa, trap_rsp')
  BY <1>1, <1>2, <1>3, <1>4 DEF Base, Sano
<1>6. Base'
  BY <1>1, <1>5 DEF Base
<1>7. Nacidas'
  <2>1. cpu < next_tid /\ next_tid \in Nat /\ cpu \in Nat
    BY <1>1, Tamanos DEF IInv, Nacidas
  <2>2. \A y \in Tids : y >= next_tid => y # cpu
    BY <2>1, Tamanos
  <2> QED
    BY <1>2, <2>2 DEF IInv, Nacidas
<1>8. Pilas'
  <2>1. hilo'[YO] = hilo[YO]
    BY <1>1, <1>2, Tamanos
  <2> QED
    BY <2>1 DEF IInv, Pilas
<1> QED
  BY <1>2, <1>6, <1>7, <1>8

(* The first conditions of AcabaDe, for the table as it is. *)
LEMMA IgualMarcada ==
  IInv => /\ Marcada(tasks, tasks)
          /\ \A i \in Slots : tasks[i].state = "Running" => i = current
  BY DEF Marcada, Misma, IInv, Base, Sano, Corre

(* The death of anybody but the caller, in a call that does not hold the   *)
(* door, spares its holder.                                                *)
LEMMA FueraDeElla ==
  ASSUME IInv, tasks[current].is_user, NEW fin, NEW victima,
         Acabada(tasks, fin, victima, intocable)
  PROVE  MuereFuera
<1> SUFFICES ASSUME NEW i \in Slots, tasks[i].state \notin {"Empty", "Exited"},
                    tasks'[i].state = "Exited", hilo[tasks[i].tid].lugar = "dentro"
             PROVE  hilo'[tasks[i].tid].lugar = "fuera"
  BY DEF MuereFuera
<1>1. tasks[i].tid # 0 /\ BuenaTabla(tasks)
  BY DeSuTid DEF IInv, Base, Sano
<1>2. titular = tasks[i].tid /\ intocable = titular
  BY <1>1 DEF IInv, Puerta
<1>3. tasks[i].tid = cpu
  BY <1>2 DEF Acabada
<1> QED
  BY <1>3 DEF Acabada

(* A call that ends without the door. *)
LEMMA AcabaFuera ==
  ASSUME IInv, tasks[current].is_user, NEW fin, NEW victima \in 0 .. MaxTid,
         hilo[cpu].lugar # "dentro",
         Acaba(tasks, fin, victima, intocable, matar),
         UNCHANGED <<next_tid, intocable, titular, cadaver, pilas>>
  PROVE  IInv' /\ BienMuere
<1>1. /\ BuenaTabla(tasks) /\ tasks[current].state \in {"Running", "Exited"}
  BY ProgramaDe
<1>2. /\ Base' /\ cpu' \in pilas /\ rampa' \in pilas
      /\ Acabada(tasks, fin, victima, intocable)
  BY <1>1, IgualMarcada, AcabaDe
<1>3. /\ Nacidas' /\ Muertes' /\ Pilas' /\ MuereSinCaps
      /\ \/ matar' = matar
         \/ matar' = intocable /\ intocable # 0
  BY <1>1, <1>2, IgualMarcada, AcabaResto
<1>4. Puerta'
  <2>1. titular # cpu \/ titular = 0
    BY DEF IInv, Puerta
  <2> QED
    BY <1>2, <1>3, <2>1, AcabaPuerta DEF IInv, Puerta
<1> QED
  BY <1>2, <1>3, <1>4, FueraDeElla DEF IInv, BienMuere

(* Entra *)
LEMMA EntraIInv ==
  ASSUME IInv, NEW fin \in {"orden", "soltar", "morir", "fallo", "cerrar"},
         NEW victima \in 0 .. MaxTid, Entra(fin, victima)
  PROVE  IInv' /\ BienMuere
<1>1. tasks[current].is_user /\ hilo[cpu].hondo = 0 /\ hilo[cpu].lugar # "dentro"
  BY FueraDeLaPuerta DEF Entra, EnRing3, IInv
<1>2. CASE /\ Acaba(tasks, fin, victima, intocable, matar)
           /\ UNCHANGED <<intocable, titular>>
           /\ UNCHANGED <<next_tid, cadaver, pilas>>
  BY <1>1, <1>2, AcabaFuera
<1>3. CASE /\ hilo' = [hilo EXCEPT ![cpu] =
                [hondo |-> 1, lugar |-> IF titular = 0 THEN "dentro" ELSE "espera",
                 fin |-> fin, victima |-> victima]]
           /\ trap_rsp' = IF fin = "fallo" THEN trap_rsp ELSE Marco
           /\ IF titular = 0 THEN Coge ELSE UNCHANGED <<titular, intocable>>
           /\ UNCHANGED <<tasks, current, resto, rampa, matar, cpu, roto, caps>>
           /\ UNCHANGED <<next_tid, cadaver, pilas>>
  <2> DEFINE x == [hondo |-> 1, lugar |-> IF titular = 0 THEN "dentro" ELSE "espera",
                   fin |-> fin, victima |-> victima]
  <2>1. /\ x \in Hilo /\ x.hondo = 1 /\ x.fin = fin
        /\ x.lugar = IF titular = 0 THEN "dentro" ELSE "espera"
    BY DEF Hilo
  <2>2. hilo' = [hilo EXCEPT ![cpu] = x]
    BY <1>3
  <2> HIDE DEF x
  <2>3. Marco = [de |-> cpu, n |-> 1] /\ Marco \in Frame
    BY <1>1, AtrapadoDe DEF IInv, Marco
  <2>4. /\ trap_rsp' \in Frame \cup {NoFrame}
        /\ fin # "fallo" => trap_rsp' = [de |-> cpu, n |-> 1]
    BY <1>3, <2>3 DEF IInv, Base, Sano
  <2>5. /\ Base' /\ Nacidas' /\ Pilas'
        /\ hilo'[cpu] = x /\ \A y \in Tids \ {cpu} : hilo'[y] = hilo[y]
    BY <1>1, <1>3, <2>1, <2>2, <2>4, AlaPuerta
  <2>6. Muertes'
    BY <1>3 DEF IInv, Muertes
  <2>7. Puerta'
    <3>1. BuenaTabla(tasks) /\ cpu \in Tids
      BY <1>1, ProgramaDe
    <3>2. \A i \in Slots : tasks[i].tid # 0 => tasks[i].tid \in Tids
      BY <3>1, DeSuTid DEF BuenaTabla
    <3>3. CASE titular = 0
      <4>1. /\ titular' = cpu /\ intocable' = cpu /\ matar' = matar /\ matar = 0
            /\ tasks' = tasks
        BY <1>3, <3>3 DEF Coge, IInv, Puerta
      <4>2. \A i \in Slots : tasks[i].tid # 0 /\ hilo'[tasks[i].tid].lugar = "dentro"
                               => cpu = tasks[i].tid
        BY <2>5, <3>2, <3>3 DEF IInv, Puerta
      <4> QED
        BY <2>1, <2>5, <3>1, <3>3, <4>1, <4>2, Tamanos DEF Puerta, Tids
    <3>4. CASE titular # 0
      <4>1. /\ titular' = titular /\ intocable' = intocable /\ matar' = matar
            /\ tasks' = tasks /\ x.lugar = "espera"
        BY <1>3, <2>1, <3>4
      <4>2. \A i \in Slots : tasks[i].tid # 0 /\ hilo'[tasks[i].tid].lugar = "dentro"
                               => titular = tasks[i].tid
        BY <2>5, <3>2, <4>1 DEF IInv, Puerta
      <4>3. hilo'[titular].lugar = "dentro"
        BY <1>1, <2>5, <3>4, Tamanos DEF IInv, Puerta, Tids
      <4> QED
        BY <4>1, <4>2, <4>3 DEF IInv, Puerta
    <3> QED
      BY <3>3, <3>4
  <2> QED
    BY <1>3, <2>5, <2>6, <2>7, IgualFuera DEF IInv
<1> QED
  BY <1>2, <1>3 DEF Entra

(* Toma *)
LEMMA TomaIInv ==
  ASSUME IInv, Toma
  PROVE  IInv' /\ BienMuere
<1>1. /\ tasks[current].is_user /\ hilo[cpu].lugar = "espera" /\ Coge
      /\ hilo' = [hilo EXCEPT ![cpu].lugar = "dentro"]
      /\ UNCHANGED <<tasks, current, next_tid, resto, trap_rsp, rampa, matar, cadaver,
                     cpu, pilas, roto, caps>>
  BY DEF Toma, EnPuerta
<1>2. /\ BuenaTabla(tasks) /\ cpu \in Tids /\ hilo \in [Tids -> Hilo]
      /\ hilo[cpu] \in Hilo /\ Base
  BY <1>1, ProgramaDe DEF IInv
<1> DEFINE x == [hilo[cpu] EXCEPT !.lugar = "dentro"]
<1>3. /\ x \in Hilo /\ x.lugar = "dentro" /\ x.fin = hilo[cpu].fin
      /\ x.hondo = hilo[cpu].hondo
  BY <1>2 DEF Hilo
<1>4. hilo' = [hilo EXCEPT ![cpu] = x]
  BY <1>1
<1> HIDE DEF x
<1>5. /\ x.hondo = 1 /\ trap_rsp' \in Frame \cup {NoFrame}
      /\ x.fin # "fallo" => trap_rsp' = [de |-> cpu, n |-> 1]
  BY <1>1, <1>2, <1>3 DEF Base, Sano, Dentro
<1>6. /\ Base' /\ Nacidas' /\ Pilas'
      /\ hilo'[cpu] = x /\ \A y \in Tids \ {cpu} : hilo'[y] = hilo[y]
  BY <1>1, <1>3, <1>4, <1>5, AlaPuerta
<1>7. Muertes'
  BY <1>1 DEF IInv, Muertes
<1>8. Puerta'
  <2>1. /\ titular = 0 /\ titular' = cpu /\ intocable' = cpu /\ matar' = matar /\ matar = 0
        /\ tasks' = tasks
    BY <1>1 DEF Coge, IInv, Puerta
  <2>2. \A i \in Slots : tasks[i].tid # 0 => tasks[i].tid \in Tids
    BY <1>2, DeSuTid DEF BuenaTabla
  <2>3. \A i \in Slots : tasks[i].tid # 0 /\ hilo'[tasks[i].tid].lugar = "dentro"
                           => cpu = tasks[i].tid
    BY <1>6, <2>1, <2>2 DEF IInv, Puerta
  <2> QED
    BY <1>2, <1>3, <1>6, <2>1, <2>3, Tamanos DEF Puerta, Tids
<1> QED
  BY <1>1, <1>6, <1>7, <1>8, IgualFuera DEF IInv

(* Desiste *)
LEMMA DesisteIInv ==
  ASSUME IInv, Desiste
  PROVE  IInv' /\ BienMuere
<1>1. /\ tasks[current].is_user /\ hilo[cpu].lugar = "espera"
      /\ Acaba(tasks, hilo[cpu].fin, hilo[cpu].victima, intocable, matar)
      /\ UNCHANGED <<next_tid, intocable, titular, cadaver, pilas>>
  BY DEF Desiste, EnPuerta
<1>2. hilo[cpu].victima \in 0 .. MaxTid
  <2>1. hilo[cpu] \in Hilo
    BY <1>1, ProgramaDe
  <2> QED
    BY <2>1 DEF Hilo
<1> QED
  BY <1>1, <1>2, AcabaFuera

(* The table that salir leaves: the caller, if its death was noted and it  *)
(* is no order, is dead in it.                                             *)
AlSalir ==
  IF Tocable /\ hilo[cpu].fin # "orden" THEN Terminar(tasks, cpu, 0) ELSE tasks

(* It is a table with a mark on the caller at most, whose capabilities are *)
(* gone.                                                                   *)
LEMMA AlSalirDe ==
  ASSUME IInv, tasks[current].is_user
  PROVE  /\ BuenaTabla(AlSalir) /\ Marcada(tasks, AlSalir)
         /\ \A i \in Slots : AlSalir[i].state = "Running" => i = current
         /\ AlSalir[current].state \in {"Running", "Exited"}
         /\ \A i \in Slots : AlSalir[i].state = "Exited" =>
               tasks[i].state = "Exited" \/ tasks[i].tid \notin caps
<1>1. /\ BuenaTabla(tasks) /\ current \in Slots
      /\ tasks[current].state \in {"Running", "Exited"}
      /\ tasks[current].tid = cpu /\ cpu \in Tids
  BY ProgramaDe
<1>2. CASE AlSalir = tasks
  BY <1>1, <1>2, IgualMarcada
<1>3. CASE AlSalir = Terminar(tasks, cpu, 0) /\ Tocable
  <2>1. /\ BuenaTabla(AlSalir) /\ Marcada(tasks, AlSalir)
        /\ \A i \in Slots : \/ AlSalir[i].state = tasks[i].state
                            \/ /\ AlSalir[i].state = "Exited" /\ tasks[i].is_user
                               /\ tasks[i].tid = cpu
    BY <1>1, <1>3, TerminarBuena
  <2>2. cpu \notin caps
    BY <1>1, <1>3, Tamanos DEF Tocable, IInv, Muertes
  <2> QED
    BY <1>1, <2>1, <2>2, IgualMarcada
<1> QED
  BY <1>2, <1>3 DEF AlSalir

(* salir, when its caller goes on to the end of the call. *)
LEMMA SalDelTodo ==
  ASSUME IInv, EnPuerta("dentro"), NEW fin, NEW victima \in 0 .. MaxTid,
         titular' = 0, intocable' = 0,
         Acaba(AlSalir, fin, victima, 0, IF Tocable THEN 0 ELSE matar),
         UNCHANGED <<next_tid, cadaver, pilas>>
  PROVE  IInv' /\ BienMuere
<1>1. /\ tasks[current].is_user /\ tasks[current].tid = cpu /\ cpu \in Tids
      /\ current \in Slots /\ hilo[cpu].lugar = "dentro"
  BY ProgramaDe DEF EnPuerta
<1>2. titular = cpu
  BY <1>1, Tamanos DEF IInv, Puerta
<1>3. (IF Tocable THEN 0 ELSE matar) = 0
  BY <1>2 DEF Tocable, IInv, Puerta
<1>4. /\ BuenaTabla(AlSalir) /\ Marcada(tasks, AlSalir)
      /\ \A i \in Slots : AlSalir[i].state = "Running" => i = current
      /\ AlSalir[current].state \in {"Running", "Exited"}
      /\ \A i \in Slots : AlSalir[i].state = "Exited" =>
            tasks[i].state = "Exited" \/ tasks[i].tid \notin caps
  BY <1>1, AlSalirDe
<1>5. Acaba(AlSalir, fin, victima, 0, 0)
  BY <1>3
<1>6. /\ Base' /\ cpu' \in pilas /\ rampa' \in pilas
      /\ Acabada(AlSalir, fin, victima, 0)
  BY <1>1, <1>4, <1>5, AcabaDe
<1>7. /\ Nacidas' /\ Muertes' /\ Pilas' /\ MuereSinCaps
      /\ matar' = 0
  BY <1>1, <1>4, <1>5, <1>6, AcabaResto
<1>8. Puerta'
  <2>1. \A i \in Slots : tasks'[i].tid # 0 /\ hilo'[tasks'[i].tid].lugar = "dentro" => FALSE
    BY <1>1, <1>2, <1>6, AcabaPuerta
  <2> QED
    BY <1>7, <2>1, Tamanos DEF Puerta
<1>9. MuereFuera
  <2> SUFFICES ASSUME NEW i \in Slots, tasks[i].state \notin {"Empty", "Exited"},
                      hilo[tasks[i].tid].lugar = "dentro"
               PROVE  hilo'[tasks[i].tid].lugar = "fuera"
    BY DEF MuereFuera
  <2>1. tasks[i].tid # 0
    BY DeSuTid DEF IInv, Base, Sano
  <2>2. tasks[i].tid = cpu
    BY <1>2, <2>1 DEF IInv, Puerta
  <2> QED
    BY <1>6, <2>2 DEF Acabada
<1> QED
  BY <1>6, <1>7, <1>8, <1>9 DEF IInv, BienMuere

(* The two ways of Sal. *)
LEMMA SalDe ==
  ASSUME IInv, Sal
  PROVE  \/ /\ titular' = 0 /\ intocable' = 0
            /\ \E fin : /\ fin = "cerrar" => hilo[cpu].fin = "cerrar"
                        /\ Acaba(AlSalir, fin, hilo[cpu].victima, 0,
                                 IF Tocable THEN 0 ELSE matar)
         \/ /\ Tocable /\ hilo[cpu].fin = "orden" /\ matar' = 0
            /\ hilo' = [hilo EXCEPT ![cpu].fin = "morir"]
            /\ UNCHANGED <<tasks, current, resto, trap_rsp, rampa, intocable, titular,
                           cpu, roto, caps>>
<1> DEFINE fin == IF Tocable /\ hilo[cpu].fin = "orden" THEN "morir" ELSE hilo[cpu].fin
<1>1. CASE /\ titular' = 0 /\ intocable' = 0
           /\ Acaba(AlSalir, fin, hilo[cpu].victima, 0, IF Tocable THEN 0 ELSE matar)
  <2>1. fin = "cerrar" => hilo[cpu].fin = "cerrar"
    OBVIOUS
  <2> HIDE DEF fin
  <2> QED
    BY <1>1, <2>1
<1> QED
  BY <1>1 DEF Sal, AlSalir

(* Sal *)
LEMMA SalIInv ==
  ASSUME IInv, Sal
  PROVE  IInv' /\ BienMuere
<1>1. EnPuerta("dentro") /\ UNCHANGED <<next_tid, cadaver, pilas>>
  BY DEF Sal
<1>2. /\ tasks[current].is_user /\ tasks[current].tid = cpu /\ cpu \in Tids
      /\ hilo \in [Tids -> Hilo] /\ hilo[cpu] \in Hilo /\ hilo[cpu].lugar = "dentro"
      /\ Base
  BY <1>1, ProgramaDe DEF EnPuerta, IInv
<1>3. ASSUME titular' = 0, intocable' = 0,
             NEW fin, Acaba(AlSalir, fin, hilo[cpu].victima, 0,
                            IF Tocable THEN 0 ELSE matar)
      PROVE  IInv' /\ BienMuere
  <2>1. hilo[cpu].victima \in 0 .. MaxTid
    BY <1>2 DEF Hilo
  <2> QED
    BY <1>1, <1>3, <2>1, SalDelTodo
<1>4. CASE /\ hilo[cpu].fin = "orden" /\ matar' = 0
           /\ hilo' = [hilo EXCEPT ![cpu].fin = "morir"]
           /\ UNCHANGED <<tasks, current, resto, trap_rsp, rampa, intocable, titular,
                          cpu, roto, caps>>
  <2> DEFINE x == [hilo[cpu] EXCEPT !.fin = "morir"]
  <2>1. /\ x \in Hilo /\ x.lugar = "dentro" /\ x.hondo = hilo[cpu].hondo
    BY <1>2 DEF Hilo
  <2>2. hilo' = [hilo EXCEPT ![cpu] = x]
    BY <1>4
  <2> HIDE DEF x
  <2>3. x.hondo = 1 /\ trap_rsp' \in Frame \cup {NoFrame}
        /\ trap_rsp' = [de |-> cpu, n |-> 1]
    BY <1>2, <1>4, <2>1 DEF Base, Sano, Dentro
  <2>4. /\ Base' /\ Nacidas' /\ Pilas'
        /\ hilo'[cpu] = x /\ \A y \in Tids \ {cpu} : hilo'[y] = hilo[y]
    BY <1>1, <1>2, <1>4, <2>1, <2>2, <2>3, AlaPuerta
  <2>5. Muertes'
    BY <1>4 DEF IInv, Muertes
  <2>6. Puerta'
    <3>1. BuenaTabla(tasks)
      BY <1>2 DEF Base, Sano
    <3>2. \A i \in Slots : tasks[i].tid # 0 => tasks[i].tid \in Tids
      BY <3>1, DeSuTid DEF BuenaTabla
    <3>3. \A i \in Slots : tasks[i].tid # 0 =>
             hilo'[tasks[i].tid].lugar = hilo[tasks[i].tid].lugar
      BY <1>2, <2>1, <2>4, <3>2
    <3>4. titular = cpu
      BY <1>2, <3>2, ProgramaDe, Tamanos DEF IInv, Puerta, Tids
    <3> QED
      BY <1>4, <2>1, <2>4, <3>3, <3>4 DEF IInv, Puerta
  <2> QED
    BY <1>4, <2>4, <2>5, <2>6, IgualFuera DEF IInv
<1> QED
  BY <1>3, <1>4, SalDe

----------------------------------------------------------------------------
(* The theorems. *)

(* The first state. *)
LEMMA InitIInv == Init => IInv
<1> SUFFICES ASSUME Init PROVE IInv
  OBVIOUS
<1> DEFINE shell == [EMPTY EXCEPT !.state = "Running", !.tid = 1]
<1>1. /\ EsNueva(Nueva(2, 0, FALSE, FALSE), 2) /\ EsNueva(Nueva(YO, 1, FALSE, FALSE), YO)
  <2>1. 0 \in 0 .. 31 /\ 1 \in 0 .. 31 /\ FALSE \in BOOLEAN
    OBVIOUS
  <2>2. EsNueva(Nueva(2, 0, FALSE, FALSE), 2)
    BY <2>1, Tamanos, NuevaDe
  <2>3. EsNueva(Nueva(YO, 1, FALSE, FALSE), YO)
    BY <2>1, Tamanos, NuevaDe
  <2> QED
    BY <2>2, <2>3
<1>2. /\ ~Nueva(2, 0, FALSE, FALSE).is_user /\ ~Nueva(YO, 1, FALSE, FALSE).is_user
  BY DEF Nueva, EMPTY
<1>3. EMPTY \in Task /\ EMPTY.tid = 0 /\ EMPTY.state = "Empty" /\ EMPTY.quantum = Quantum
      /\ ~EMPTY.is_user
  <2>1. 0 \in 0 .. MaxTid /\ 0 \in 0 .. 31 /\ 0 \in 0 .. MaxPlazo /\ 0 \in 0 .. MaxAparte
    BY Tamanos
  <2> QED
    BY <2>1 DEF EMPTY, Task
<1>4. /\ shell \in Task /\ shell.tid = 1 /\ shell.state = "Running"
      /\ shell.quantum = Quantum /\ ~shell.is_user
  <2>1. 1 \in 0 .. MaxTid
    BY Tamanos
  <2> QED
    BY <1>3, <2>1 DEF Task
<1> DEFINE ocio == Nueva(2, 0, FALSE, FALSE)
           yo == Nueva(YO, 1, FALSE, FALSE)
<1>5. /\ tasks = [i \in Slots |-> IF i = SHELL THEN shell
                                  ELSE IF i = IDLE THEN ocio
                                  ELSE IF i = 2 THEN yo ELSE EMPTY]
  BY Tamanos DEF Init
<1>6. /\ ocio \in Task /\ ocio.tid = 2 /\ ocio.state = "Ready" /\ ocio.quantum = Quantum
      /\ ~ocio.is_user /\ ocio.context_rsp = [de |-> 2, n |-> 1]
      /\ yo \in Task /\ yo.tid = YO /\ yo.state = "Ready" /\ yo.quantum = Quantum
      /\ ~yo.is_user /\ yo.context_rsp = [de |-> YO, n |-> 1]
  BY <1>1, <1>2 DEF EsNueva
<1> HIDE DEF shell, ocio, yo
<1>7. /\ tasks \in [Slots -> Task]
      /\ tasks[SHELL] = shell /\ tasks[IDLE] = ocio /\ tasks[2] = yo
      /\ \A i \in Slots \ {SHELL, IDLE, 2} : tasks[i] = EMPTY
  BY <1>3, <1>4, <1>5, <1>6, Tamanos
<1>8. BuenaTabla(tasks)
  <2>1. \A i, j \in Slots : tasks[i].tid = tasks[j].tid /\ tasks[i].tid # 0 => i = j
    BY <1>3, <1>4, <1>6, <1>7 DEF YO
  <2>2. \A i \in Slots : tasks[i].quantum = Quantum /\ ~tasks[i].is_user
    BY <1>3, <1>4, <1>6, <1>7
  <2>3. \A i \in Slots : (tasks[i].state = "Empty") <=> (tasks[i].tid = 0)
    BY <1>3, <1>4, <1>6, <1>7 DEF YO
  <2> QED
    BY <1>4, <1>6, <1>7, <2>1, <2>2, <2>3, Tamanos DEF BuenaTabla
<1> DEFINE x(t) == [hondo |-> IF t = 1 THEN 0 ELSE 1,
                    lugar |-> IF t = YO THEN "tomar" ELSE "fuera",
                    fin |-> "nada", victima |-> 0]
<1>9. /\ hilo \in [Tids -> Hilo]
      /\ \A t \in Tids : /\ hilo[t].hondo = IF t = 1 THEN 0 ELSE 1
                         /\ hilo[t].lugar = IF t = YO THEN "tomar" ELSE "fuera"
                         /\ t > YO => hilo[t] = Recien
                         /\ Dentro(hilo, t) = 0
  <2>1. hilo = [t \in Tids |-> x(t)]
    BY DEF Init
  <2>2. \A t \in Tids : x(t) \in Hilo
    BY Tamanos DEF Hilo
  <2>3. \A t \in Tids : t > YO => x(t) = Recien
    BY Tamanos DEF Recien, YO
  <2>4. \A t \in Tids : hilo[t] = x(t)
    BY <2>1
  <2>5. hilo \in [Tids -> Hilo]
    BY <2>1, <2>2
  <2>9. \A t \in Tids : /\ x(t).hondo = IF t = 1 THEN 0 ELSE 1
                        /\ x(t).lugar = IF t = YO THEN "tomar" ELSE "fuera"
    OBVIOUS
  <2> HIDE DEF x
  <2>6. \A t \in Tids : /\ hilo[t].hondo = IF t = 1 THEN 0 ELSE 1
                        /\ hilo[t].lugar = IF t = YO THEN "tomar" ELSE "fuera"
    BY <2>4, <2>9
  <2>7. \A t \in Tids : t > YO => hilo[t] = Recien
    BY <2>3, <2>4
  <2>8. \A t \in Tids : Dentro(hilo, t) = 0
    BY <2>6 DEF Dentro
  <2> QED
    BY <2>5, <2>6, <2>7, <2>8
<1>10. /\ current = SHELL /\ next_tid = 4 /\ resto = Quantum
       /\ trap_rsp = NoFrame /\ rampa = 1
       /\ intocable = 0 /\ matar = 0 /\ titular = 0
       /\ cadaver = [slot |-> 0, tid |-> 0]
       /\ cpu = 1 /\ pilas = {1, 2, YO} /\ roto = FALSE /\ caps = {}
  BY DEF Init
<1>11. Guardadas(tasks, current, hilo)
  <2> SUFFICES ASSUME NEW i \in Slots \ {current}, tasks[i].state \in {"Ready", "Blocked"}
               PROVE  /\ tasks[i].context_rsp =
                           [de |-> tasks[i].tid, n |-> hilo[tasks[i].tid].hondo]
                      /\ hilo[tasks[i].tid].hondo = Dentro(hilo, tasks[i].tid) + 1
    BY DEF Guardadas
  <2>1. i = IDLE \/ i = 2
    BY <1>3, <1>7, <1>10
  <2>2. /\ hilo[2].hondo = 1 /\ Dentro(hilo, 2) = 0
        /\ hilo[YO].hondo = 1 /\ Dentro(hilo, YO) = 0
    BY <1>9, Tamanos DEF YO
  <2> QED
    BY <1>6, <1>7, <2>1, <2>2
<1>12. Base
  <2>1. Corre(tasks, current, cpu)
    BY <1>3, <1>4, <1>6, <1>7, <1>10, Tamanos DEF Corre
  <2>2. hilo[cpu].hondo = 0 /\ Dentro(hilo, cpu) = 0
    BY <1>9, <1>10, Tamanos
  <2> QED
    BY <1>8, <1>9, <1>10, <1>11, <2>1, <2>2, Tamanos DEF Base, Sano
<1>13. Nacidas
  <2>1. \A i \in Slots : tasks[i].tid < 4
    BY <1>3, <1>4, <1>6, <1>7 DEF YO
  <2>2. cadaver \in [slot : Slots, tid : 0 .. MaxTid] /\ cadaver.tid < 4
    BY <1>10, Tamanos DEF SHELL
  <2>3. \A t \in Tids : t >= 4 => hilo[t] = Recien
    BY <1>9, Tamanos DEF YO, Tids
  <2> QED
    <3>1. 4 \in 4 .. MaxTid + 1
      BY Tamanos
    <3> QED
      BY <1>10, <2>1, <2>2, <2>3, <3>1 DEF Nacidas
<1>14. Puerta
  <2>1. \A i \in Slots : tasks[i].tid # 0 => tasks[i].tid \in Tids
    BY <1>8, DeSuTid DEF BuenaTabla
  <2> QED
    <3>1. 0 \in 0 .. MaxTid
      BY Tamanos
    <3>2. \A i \in Slots : tasks[i].tid # 0 => hilo[tasks[i].tid].lugar # "dentro"
      BY <1>9, <2>1
    <3> QED
      BY <1>10, <3>1, <3>2 DEF Puerta
<1>15. Muertes
  BY <1>10 DEF Muertes
<1>16. Pilas
  <2>1. \A i \in Slots : tasks[i].state # "Empty" => tasks[i].tid \in {1, 2, YO}
    BY <1>3, <1>4, <1>6, <1>7
  <2>2. hilo[YO].lugar = "tomar"
    BY <1>9, Tamanos
  <2> QED
    BY <1>10, <2>1, <2>2, Tamanos DEF Pilas
<1> QED
  BY <1>12, <1>13, <1>14, <1>15, <1>16 DEF IInv

(* Every step keeps the invariant. *)
LEMMA NextIInv == IInv /\ [Next]_vars => IInv' /\ BienMuere
<1> SUFFICES ASSUME IInv, [Next]_vars PROVE IInv' /\ BienMuere
  OBVIOUS
<1>1. CASE Reloj
  BY <1>1, TickIInv DEF Reloj
<1>2. CASE IrqDisco
  BY <1>2, IrqDiscoIInv
<1>3. CASE Programas
  <2>1. CASE Yield
    BY <2>1, YieldIInv
  <2>2. ASSUME NEW key \in Llaves \cup {Nada, Latido}, NEW plazo \in 0 .. MaxPlazo,
               Wait(key, plazo)
        PROVE  IInv' /\ BienMuere
    BY <2>2, WaitIInv
  <2>3. ASSUME NEW key \in Llaves, NEW n \in {1, NSlots}, Wake(key, n)
        PROVE  IInv' /\ BienMuere
    BY <2>3, WakeIInv
  <2>4. ASSUME NEW tid \in 0 .. MaxTid, DelanteOp(tid)
        PROVE  IInv' /\ BienMuere
    BY <2>4, DelanteOpIInv
  <2>5. CASE SpawnUser
    <3>1. Spawn(0, TRUE, FALSE)
      BY <2>5 DEF SpawnUser
    <3>2. 0 \in 0 .. 31
      OBVIOUS
    <3>3. TRUE \in BOOLEAN /\ FALSE \in BOOLEAN
      OBVIOUS
    <3> QED
      BY <3>1, <3>2, <3>3, SpawnIInv
  <2>6. CASE SpawnKernel
    <3>1. PICK h \in Hilos : Spawn(h[1], FALSE, h[2])
      BY <2>6 DEF SpawnKernel
    <3>2. h[1] \in 0 .. 31 /\ h[2] \in BOOLEAN
      BY Tamanos
    <3> QED
      BY <3>1, <3>2, SpawnIInv
  <2>7. ASSUME NEW key \in {Nada, Disco}, NEW plazo \in {0, MaxPlazo}, Aparca(key, plazo)
        PROVE  IInv' /\ BienMuere
    BY <2>7, AparcaIInv
  <2>8. CASE ExitAndPark
    BY <2>8, ExitAndParkIInv
  <2>9. ASSUME NEW fin \in {"orden", "soltar", "morir", "fallo"}, Entra(fin, 0)
        PROVE  IInv' /\ BienMuere
    <3>1. 0 \in 0 .. MaxTid
      BY Tamanos
    <3> QED
      BY <2>9, <3>1, EntraIInv
  <2>10. ASSUME NEW i \in Slots, Entra("cerrar", tasks[i].tid)
         PROVE  IInv' /\ BienMuere
    <3>1. tasks[i].tid \in 0 .. MaxTid
      BY DEF IInv, Base, Sano, BuenaTabla, Task
    <3> QED
      BY <2>10, <3>1, EntraIInv
  <2>11. CASE Toma
    BY <2>11, TomaIInv
  <2>12. CASE Desiste
    BY <2>12, DesisteIInv
  <2>13. CASE Sal
    BY <2>13, SalIInv
  <2>14. CASE Concede
    BY <2>14, ConcedeIInv
  <2> QED
    BY <1>3, <2>1, <2>2, <2>3, <2>4, <2>5, <2>6, <2>7, <2>8, <2>9, <2>10, <2>11, <2>12,
       <2>13, <2>14 DEF Programas
<1>4. CASE Enterrador
  BY <1>4, TomarIInv, EnterrarIInv, LiberarIInv, AparcarIInv DEF Enterrador
<1>5. CASE UNCHANGED vars
  BY <1>5, IgualFuera DEF vars, IInv, Base, Nacidas, Puerta, Muertes, Pilas
<1> QED
  BY <1>1, <1>2, <1>3, <1>4, <1>5 DEF Next

(* What the theorems below follow from. *)
THEOREM Inductive == Spec => []IInv
<1> QED
  BY InitIInv, NextIInv, PTL DEF Spec

(* Every variable holds what its type says. *)
THEOREM TypeCorrect == Spec => []TypeOK
<1>1. IInv => TypeOK
  <2> SUFFICES ASSUME IInv PROVE TypeOK
    OBVIOUS
  <2>1. /\ tasks \in [Slots -> Task] /\ current \in Slots /\ rampa \in Tids
        /\ trap_rsp \in Frame \cup {NoFrame} /\ cpu \in Tids /\ hilo \in [Tids -> Hilo]
    BY DEF IInv, Base, Sano, BuenaTabla
  <2>2. roto \in BOOLEAN /\ resto \in 1 .. QuantumDelante
    BY DEF IInv, Base
  <2>3. next_tid \in 1 .. MaxTid + 1
    BY Tamanos DEF IInv, Nacidas
  <2>4. /\ intocable \in 0 .. MaxTid /\ titular \in 0 .. MaxTid
        /\ matar \in 0 .. MaxTid
    BY Tamanos DEF IInv, Puerta
  <2>5. cadaver \in [slot : Slots, tid : 0 .. MaxTid]
    BY DEF IInv, Nacidas
  <2>6. pilas \subseteq Tids /\ caps \subseteq Tids
    BY DEF IInv, Pilas, Muertes
  <2> QED
    BY <2>1, <2>2, <2>3, <2>4, <2>5, <2>6 DEF TypeOK
<1> QED
  BY <1>1, Inductive, PTL

(* The table and the CPU agree after every step, and no frame was ever     *)
(* restored twice (schedule_locked, the stubs).                            *)
THEOREM TableAndCpuAgree == Spec => []CpuIsCurrent
<1>1. IInv => CpuIsCurrent
  BY DEF IInv, Base, Sano, Corre, CpuIsCurrent
<1> QED
  BY <1>1, Inductive, PTL

(* Whoever waits for a turn is saved whole (schedule_locked). *)
THEOREM ContextsAreWhole == Spec => []SavedContextIsWhole
<1>1. IInv => SavedContextIsWhole
  BY DEF IInv, Base, Sano, Guardadas, SavedContextIsWhole
<1> QED
  BY <1>1, Inductive, PTL

(* A trap from Ring 3 lands on the stack of its own task, and the door is  *)
(* left by the frame of the call that came in (RSP0, abrir_un_instante).   *)
THEOREM RampsAreOwn == Spec => []OwnRamp
<1>1. IInv => OwnRamp
  <2> SUFFICES ASSUME IInv PROVE OwnRamp
    OBVIOUS
  <2>1. tasks[current].is_user => rampa = cpu
    BY ProgramaDe
  <2>2. ASSUME EnPuerta("dentro"), hilo[cpu].fin # "fallo"
        PROVE  trap_rsp = [de |-> cpu, n |-> 1]
    BY <2>2 DEF EnPuerta, IInv, Base, Sano, Dentro
  <2> QED
    BY <2>1, <2>2 DEF OwnRamp
<1> QED
  BY <1>1, Inductive, PTL

(* The undertaker frees no stack in use (enterrar, liberar_ranura). *)
THEOREM StacksInUseStay == Spec => []NothingDangles
<1>1. IInv => NothingDangles
  BY DEF IInv, Pilas, NothingDangles
<1> QED
  BY <1>1, Inductive, PTL

(* One task at a time is in the door, and a noted death is its own         *)
(* (respiro.rs).                                                           *)
THEOREM DoorHolds == Spec => []DoorIsOneTasks
<1>1. IInv => DoorIsOneTasks
  BY DEF IInv, Puerta, DoorIsOneTasks
<1> QED
  BY <1>1, Inductive, PTL

(* The step that kills a program leaves it without capabilities (EXIT,     *)
(* faults, OP_CERRAR, MATAR_AL_SALIR): they were revoked by that step or   *)
(* before, and none was granted in between.                                *)
THEOREM CapabilitiesGoFirst == Spec => CapabilitiesDieFirst
<1>1. IInv /\ [Next]_vars => [MuereSinCaps]_vars
  BY NextIInv DEF BienMuere
<1>2. [MuereSinCaps]_vars => [\A i \in Mueren : tasks[i].tid \notin caps']_vars
  BY DEF MuereSinCaps
<1> QED
  BY <1>1, <1>2, Inductive, PTL DEF Spec, CapabilitiesDieFirst

(* One task at most has the long turn (delante). *)
THEOREM OneHasTheLongTurn == Spec => []OneInFront
<1>1. IInv => OneInFront
  <2> SUFFICES ASSUME IInv PROVE OneInFront
    OBVIOUS
  <2> DEFINE S == {i \in Slots : tasks[i].state # "Empty"
                                 /\ tasks[i].quantum = QuantumDelante}
  <2>1. \A i, j \in S : i = j
    BY DEF IInv, Base, Sano, BuenaTabla
  <2> HIDE DEF S
  <2>2. Cardinality(S) <= 1
    <3>1. CASE S = {}
      <4>1. Cardinality(S) = 0
        BY <3>1, FS_EmptySet
      <4> QED
        BY <4>1
    <3>2. CASE S # {}
      <4>1. PICK i : S = {i}
        BY <2>1, <3>2
      <4>2. Cardinality(S) = 1
        BY <4>1, FS_Singleton
      <4> QED
        BY <4>2
    <3> QED
      BY <3>1, <3>2
  <2> QED
    BY <2>2 DEF OneInFront, S
<1> QED
  BY <1>1, Inductive, PTL

(* Nobody is killed with the GPU at work on its memory (terminar,          *)
(* MATAR_AL_SALIR): the step in which it dies takes it out of the door.    *)
THEOREM DeathsWait == Spec => DeathWaitsForTheGpu
<1>1. IInv /\ [Next]_vars => [MuereFuera]_vars
  BY NextIInv DEF BienMuere
<1>2. [MuereFuera]_vars =>
        [\A i \in Slots :
           /\ tasks[i].state \notin {"Empty", "Exited"} /\ tasks'[i].state = "Exited"
           /\ hilo[tasks[i].tid].lugar = "dentro"
           => hilo'[tasks[i].tid].lugar = "fuera"]_vars
  BY DEF MuereFuera
<1> QED
  BY <1>1, <1>2, Inductive, PTL DEF Spec, DeathWaitsForTheGpu

(* A tick leaves nobody waiting for a task of lower rank.                  *)
LEMMA TickMayor ==
  ASSUME IInv, NEW servidas, Tick(servidas), NEW i \in Elegibles(tasks')
  PROVE  \/ /\ tasks'[i].priority <= tasks'[current'].priority
            /\ current' = IDLE => current = IDLE /\ resto' = resto - 1
         \/ tasks[i].tid = YO /\ tasks[i].state = "Blocked"
<1> DEFINE t == Barrido(servidas).tasks
           sigue == /\ t[current].state = "Running" /\ resto > 1
                    /\ ~Expropiar(t, resto, Barrido(servidas).vencidas)
<1>1. PICK castigo \in Castigos :
        Epilogo(IF sigue THEN Estado(t, resto - 1, Marco)
                ELSE ScheduleLocked(Estado(t, t[current].quantum, Marco), TRUE, castigo),
                Atrapado)
  BY DEF Tick
<1>2. BuenaTabla(tasks) /\ current \in Slots
  BY DEF IInv, Base, Sano
<1>3. /\ BuenaTabla(t) /\ Marcada(tasks, t)
      /\ \A j \in Slots : t[j].state \in {"Running", "Blocked"}
                            => t[j].state = tasks[j].state
  BY <1>2, BarridoBueno
<1>4. i \in Slots /\ (t[i].tid = YO /\ t[i].state = "Blocked"
                        => tasks[i].tid = YO /\ tasks[i].state = "Blocked")
  BY <1>3 DEF Elegibles, Marcada, Misma
<1> HIDE DEF t, sigue
<1>5. CASE sigue
  <2>1. tasks' = t /\ current' = current /\ resto' = resto - 1
    BY <1>1, <1>5 DEF Epilogo, Estado
  <2>2. ~ (t[i].priority > t[current].priority)
    BY <1>5, <2>1 DEF sigue, Expropiar
  <2>3. t[i].priority \in 0 .. 31 /\ t[current].priority \in 0 .. 31
    BY <1>2, <1>3, <1>4 DEF BuenaTabla, Task
  <2> QED
    BY <2>1, <2>2, <2>3
<1>6. CASE ~sigue
  <2> DEFINE S == ScheduleLocked(Estado(t, t[current].quantum, Marco), TRUE, castigo)
  <2>1. tasks' = S.tasks /\ current' = S.current
    BY <1>1, <1>6 DEF Epilogo
  <2>2. Antes(t, Atrapado) /\ Marco \in Frame
    <3>1. /\ Atrapado \in [Tids -> Hilo]
          /\ Atrapado[cpu].hondo = Dentro(Atrapado, cpu) + 1
          /\ \A x \in Tids \ {cpu} : Atrapado[x] = hilo[x]
          /\ Marco \in Frame
      BY AtrapadoDe DEF IInv
    <3>2. \A j \in Slots : t[j].state = "Running" => j = current
      BY <1>3 DEF IInv, Base, Sano, Corre
    <3> QED
      BY <1>3, <3>1, <3>2, AntesDe DEF IInv
  <2>3. castigo \in 0 .. MaxAparte
    BY CastigosDe
  <2>4. Postergados(S, t)
    BY <2>2, <2>3, TurnoDelMayor
  <2> HIDE DEF S
  <2> QED
    BY <1>4, <2>1, <2>4 DEF Postergados
<1> QED
  BY <1>5, <1>6

(* Ranks are honoured at every tick (choose_next, expropiar); the idle     *)
(* thread keeps the CPU from one of its own rank for a quantum at most.    *)
THEOREM RanksAreHonoured == Spec => RankHonoured
<1> DEFINE A == Reloj =>
                  \A i \in Elegibles(tasks') :
                    \/ /\ tasks'[i].priority <= tasks'[current'].priority
                       /\ current' = IDLE => current = IDLE /\ resto' = resto - 1
                    \/ tasks[i].tid = YO /\ tasks[i].state = "Blocked"
<1>1. IInv /\ [Next]_vars => [A]_vars
  BY TickMayor DEF Reloj
<1>2. [A]_vars => [Reloj =>
                     \A i \in Elegibles(tasks)' :
                       \/ /\ tasks'[i].priority <= tasks'[current'].priority
                          /\ current' = IDLE => current = IDLE /\ resto' = resto - 1
                       \/ tasks[i].tid = YO /\ tasks[i].state = "Blocked"]_vars
  BY DEF Elegibles
<1> QED
  BY <1>1, <1>2, Inductive, PTL DEF Spec, RankHonoured

=============================================================================
