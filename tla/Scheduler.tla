----------------------------- MODULE Scheduler -----------------------------
(***************************************************************************)
(* The scheduler of Ring 0 on its one scheduling CPU                       *)
(* (kernel/src/ring0/task/scheduler/roja.rs), with the thread that buries  *)
(* the dead (task/enterrador.rs) and the door of the GPU, the only system  *)
(* call that lets interrupts in before it ends (dev/respiro.rs).           *)
(*                                                                         *)
(* The table says who runs; the CPU runs whoever the epilogue of the last  *)
(* trap restored.  schedule_locked only moves the table and names, in      *)
(* gs:[0x10] (trap_rsp), the frame that the epilogue is to restore, so the *)
(* two agree only if every switch happens inside a trap that published its *)
(* own frame.  A frame is restored once: the stub checks its seal and      *)
(* clears it.                                                              *)
(*                                                                         *)
(* A trap handler runs with interrupts closed: each is one step, from the  *)
(* frame it pushes to the frame it restores.  The exceptions are the       *)
(* bodies of kernel threads, that any tick may interrupt, and the door,    *)
(* where a task waits "breathing" on its system call's stack.              *)
(***************************************************************************)
EXTENDS Naturals, FiniteSets

CONSTANTS
  NSlots,         (* MAX_TASKS                                              *)
  MaxTid,         (* bound of the model: tids handed out                    *)
  Quantum,        (* DEFAULT_QUANTUM_TICKS                                  *)
  QuantumDelante, (* QUANTUM_DELANTE                                        *)
  MaxPlazo,       (* bound of the model: ticks that a deadline lies ahead   *)
  MaxAparte,      (* bound of the model: ticks that a compas sets aside     *)
  Llaves,         (* keys that tasks wait on and channels and calls wake    *)
  Hilos,          (* <<rango, compas>> of the kernel threads spawned        *)
  ConGpu          (* whether there is a GPU, and so a door                  *)

ASSUME SizesAssumption ==
  /\ NSlots \in Nat /\ NSlots > 3
  /\ MaxTid \in Nat /\ MaxTid > 3
  /\ Quantum \in Nat \ {0} /\ QuantumDelante \in Nat /\ QuantumDelante > Quantum
  /\ MaxPlazo \in Nat /\ MaxAparte \in Nat
  /\ Hilos \subseteq (0 .. 31) \X BOOLEAN
  /\ ConGpu \in BOOLEAN

Slots == 0 .. NSlots - 1
Tids  == 1 .. MaxTid

(* The three tasks that exist when interrupts open (core/phase.rs): the    *)
(* shell, the idle thread and the undertaker.                              *)
SHELL == 0
IDLE == 1
YO == 3                (* the tid of the undertaker, in ENTERRADOR          *)

Nada == "nada"         (* wait_key 0                                        *)
Latido == "latido"     (* latido::LLAVE, served by every tick               *)
Disco == "disco"       (* the key of the disk thread, served by an IRQ      *)
Muertos == "muertos"   (* LLAVE_ENTERRADOR                                  *)

(* A frame: the n-th that lies on the kernel stack of a task. *)
Frame == [de : Tids, n : 1 .. 2]
NoFrame == [de |-> 0, n |-> 0]

Task == [state : {"Empty", "Ready", "Running", "Blocked", "Exited"},
         tid : 0 .. MaxTid, priority : 0 .. 31, is_user : BOOLEAN,
         quantum : {Quantum, QuantumDelante}, context_rsp : Frame \cup {NoFrame},
         wait_key : Llaves \cup {Nada, Latido, Disco, Muertos},
         wait_deadline : 0 .. MaxPlazo, compas : BOOLEAN, apartada : 0 .. MaxAparte]

EMPTY == [state |-> "Empty", tid |-> 0, priority |-> 0, is_user |-> FALSE,
          quantum |-> Quantum, context_rsp |-> NoFrame, wait_key |-> Nada,
          wait_deadline |-> 0, compas |-> FALSE, apartada |-> 0]

VARIABLES
  tasks,      (* SCHEDULER.tasks; deadlines and apartada count ticks down   *)
  current,    (* SCHEDULER.current                                          *)
  next_tid,   (* SCHEDULER.next_tid                                         *)
  resto,      (* remaining_ticks of the current task: others' are rewritten *)
              (* before they are read                                       *)
  trap_rsp,   (* gs:[0x10], the frame that the next epilogue restores       *)
  rampa,      (* whose kernel stack TSS.RSP0 and the SYSCALL entry publish  *)
  intocable,  (* INTOCABLE, 0 for none                                      *)
  matar,      (* MATAR_AL_SALIR, 0 for none                                 *)
  titular,    (* respiro::TITULAR, 0 for none                               *)
  cadaver,    (* the undertaker's Cadaver: a slot and its tid               *)
  cpu,        (* the task whose code the CPU executes                       *)
  hilo,       (* per tid: frames on its stack, and where its code stands    *)
  pilas,      (* tids whose kernel stack is allocated                       *)
  roto,       (* history: some epilogue restored a frame without its seal   *)
  caps        (* tids whose process has live capabilities                   *)

vars == <<tasks, current, next_tid, resto, trap_rsp, rampa, intocable, matar,
          titular, cadaver, cpu, hilo, pilas, roto, caps>>

(* The door, as a variable of its own where it does not move. *)
puerta == <<intocable, matar, titular>>

(* Where the code of a task stands.  fin says why it is in a system call   *)
(* (or a fault) that passes the door: an order to the GPU, giving back     *)
(* memory or the screen, its own death, or closing a child.                *)
Hilo == [hondo : 0 .. 2,
         lugar : {"fuera", "espera", "dentro", "tomar", "enterrar", "liberar",
                  "aparcar"},
         fin : {"nada", "orden", "soltar", "morir", "fallo", "cerrar"},
         victima : 0 .. MaxTid]

Nueva(tid, priority, is_user, compas) ==
  [EMPTY EXCEPT !.state = "Ready", !.tid = tid, !.priority = priority,
                !.is_user = is_user, !.compas = compas,
                !.context_rsp = [de |-> tid, n |-> 1]]

TypeOK ==
  /\ tasks \in [Slots -> Task]
  /\ current \in Slots
  /\ next_tid \in 1 .. MaxTid + 1
  /\ resto \in 1 .. QuantumDelante
  /\ trap_rsp \in Frame \cup {NoFrame}
  /\ rampa \in Tids
  /\ intocable \in 0 .. MaxTid /\ matar \in 0 .. MaxTid /\ titular \in 0 .. MaxTid
  /\ cadaver \in [slot : Slots, tid : 0 .. MaxTid]
  /\ cpu \in Tids
  /\ hilo \in [Tids -> Hilo]
  /\ pilas \subseteq Tids
  /\ roto \in BOOLEAN
  /\ caps \subseteq Tids

(* init, init_idle, enterrador::arrancar: all before interrupts open.  The  *)
(* ramp published is the boot stack, that the shell lives on.               *)
Init ==
  /\ tasks = [i \in Slots |->
       CASE i = SHELL -> [EMPTY EXCEPT !.state = "Running", !.tid = 1]
         [] i = IDLE  -> Nueva(2, 0, FALSE, FALSE)
         [] i = 2     -> Nueva(YO, 1, FALSE, FALSE)
         [] OTHER     -> EMPTY]
  /\ current = SHELL /\ next_tid = 4 /\ resto = Quantum
  /\ trap_rsp = NoFrame /\ rampa = 1
  /\ intocable = 0 /\ matar = 0 /\ titular = 0
  /\ cadaver = [slot |-> 0, tid |-> 0]
  /\ cpu = 1
  /\ hilo = [t \in Tids |-> [hondo |-> IF t = 1 THEN 0 ELSE 1,
                             lugar |-> IF t = YO THEN "tomar" ELSE "fuera",
                             fin |-> "nada", victima |-> 0]]
  /\ pilas = {1, 2, YO}
  /\ roto = FALSE /\ caps = {}

----------------------------------------------------------------------------
(* Waking, in every wake_*: the task is ready and waits on nothing. *)
Despierta(t) == [t EXCEPT !.state = "Ready", !.wait_key = Nada, !.wait_deadline = 0]

Esperan(t, key) == {i \in Slots : t[i].state = "Blocked" /\ t[i].wait_key = key}

DespiertaA(t, quienes) ==
  [i \in Slots |-> IF i \in quienes THEN Despierta(t[i]) ELSE t[i]]

HayMuerto(t) == \E i \in Slots : t[i].state = "Exited" /\ t[i].tid # YO

(* despues_del_cambio: with a dead task about, the undertaker wakes. *)
DespuesDelCambioCallado(t) == t                                    (* mutant *)
DespuesDelCambio(t) ==
  IF HayMuerto(t)
  THEN DespiertaA(t, {i \in Esperan(t, Muertos) : t[i].tid = YO})
  ELSE t

(* Who may be chosen, and how far ahead of the current slot it lies. *)
Elegibles(t) == {i \in Slots \ {IDLE} : t[i].state = "Ready" /\ t[i].apartada = 0}
DistanciaDesdeCero(desde, i) == i                                  (* mutant *)
Distancia(desde, i) == (i + NSlots - desde - 1) % NSlots

(* choose_next: strict priority, then the first one after the current slot. *)
ChooseNext(t, desde) ==
  IF Elegibles(t) # {}
  THEN CHOOSE i \in Elegibles(t) : \A j \in Elegibles(t) :
         \/ t[i].priority > t[j].priority
         \/ /\ t[i].priority = t[j].priority
            /\ Distancia(desde, i) <= Distancia(desde, j)
  ELSE IF t[IDLE].state = "Ready" THEN IDLE ELSE desde

(* The stack published with a switch: the shell has none of its own. *)
RampaSoloDeUsuario(t, next, antes) ==                              (* mutant *)
  IF t[next].is_user THEN t[next].tid ELSE antes
RampaDe(t, next, antes) == IF next = SHELL THEN antes ELSE t[next].tid

(* What schedule_locked reads and writes, after the trap at hand. *)
Estado(t, resto1, marco) ==
  [tasks |-> t, current |-> current, resto |-> resto1, trap |-> marco,
   rampa |-> rampa]

(* schedule_locked.  publicado: the trap published its frame (Saliente);   *)
(* castigo: the ticks cobrar_compas sets the outgoing task aside for.      *)
ScheduleLocked(S, publicado, castigo) ==
  LET sale == S.current
      t == IF S.tasks[sale].state = "Running"
           THEN [S.tasks EXCEPT ![sale].state = "Ready"] ELSE S.tasks
      next == ChooseNext(t, sale)
  IN
  IF next = sale
  THEN [S EXCEPT !.tasks = DespuesDelCambio(
          IF t[next].state = "Ready" THEN [t EXCEPT ![next].state = "Running"] ELSE t)]
  ELSE IF t[next].context_rsp = NoFrame
  THEN [S EXCEPT !.tasks = [t EXCEPT ![sale].state = "Running"]]
  ELSE [tasks |-> DespuesDelCambio(
          [t EXCEPT ![sale].context_rsp = IF publicado THEN S.trap ELSE @,
                    ![sale].apartada = IF t[sale].compas /\ @ = 0 THEN castigo ELSE @,
                    ![next].state = "Running"]),
        current |-> next, resto |-> t[next].quantum,
        trap |-> t[next].context_rsp,
        rampa |-> RampaDe(t, next, S.rampa)]

(* What cobrar_compas may do to the task that is current. *)
Castigos == IF tasks[current].compas THEN 0 .. MaxAparte ELSE {0}

(* The frame that a trap pushes now, and the stacks with it pushed. *)
MarcoDelSyscall == [de |-> cpu, n |-> 1]                           (* mutant *)
Marco == [de |-> cpu, n |-> hilo[cpu].hondo + 1]
Atrapado == [hilo EXCEPT ![cpu].hondo = @ + 1]

(* abrir_un_instante: back from its instant, a task in the door publishes  *)
(* the frame of its system call again.                                     *)
SinRepublicar(f) == f                                              (* mutant *)
Republica(f) == IF f.n = 2 THEN [f EXCEPT !.n = 1] ELSE f

(* The epilogue of a stub: it checks and clears the seal of the frame that *)
(* trap_rsp names and pops it.                                             *)
Epilogo(cambio, h) == \E S \in {cambio} :
  LET f == S.trap IN
  /\ roto' = (roto \/ h[f.de].hondo # f.n)
  /\ cpu' = f.de
  /\ hilo' = [h EXCEPT ![f.de].hondo = f.n - 1]
  /\ trap_rsp' = Republica(f)
  /\ tasks' = S.tasks /\ current' = S.current
  /\ resto' = S.resto /\ rampa' = S.rampa

----------------------------------------------------------------------------
(* bmo-orquesta expropiar: is the CPU taken from the task that runs? *)
ExpropiarSoloDespiertas(t, resto1, despertadas) ==                 (* mutant *)
  \E i \in Elegibles(t) \cap despertadas :
    t[i].priority > t[current].priority \/ resto1 < t[current].quantum
Expropiar(t, resto1, despertadas) ==
  \E i \in Elegibles(t) :
    \/ t[i].priority > t[current].priority
    \/ /\ t[i].priority = t[current].priority
       /\ i \in despertadas /\ resto1 < t[current].quantum

(* A tick passes over the counters: deadlines and punishments come nearer. *)
PasaUnTicSinSuelo(x) == [x EXCEPT !.wait_deadline = @ - 1]         (* mutant *)
PasaUnTic(x) ==
  [x EXCEPT !.wait_deadline = IF @ > 0 THEN @ - 1 ELSE 0,
            !.apartada = IF @ > 0 THEN @ - 1 ELSE 0]

(* channel::service_all wakes the waiters of the channels it served; then  *)
(* the sweep of on_timer, and whom it woke.                                *)
Barrido(servidas) ==
  LET t == DespiertaA(tasks, UNION {Esperan(tasks, k) : k \in servidas})
      vencidas == {i \in Slots : t[i].state = "Blocked"
                     /\ (t[i].wait_deadline = 1 \/ t[i].wait_key = Latido)}
  IN [tasks |-> [i \in Slots |-> PasaUnTic(IF i \in vencidas THEN Despierta(t[i])
                                                            ELSE t[i])],
      vencidas |-> vencidas]

(* The timer interrupt: the sweep, then the turn of the task that runs.    *)
Tick(servidas) ==
  /\ \E b \in {Barrido(servidas)}, castigo \in Castigos :
       LET t == b.tasks
           sigue == /\ t[current].state = "Running" /\ resto > 1
                    /\ ~Expropiar(t, resto, b.vencidas)
       IN Epilogo(IF sigue THEN Estado(t, resto - 1, Marco)
                  ELSE ScheduleLocked(Estado(t, t[current].quantum, Marco), TRUE,
                                      castigo),
                  Atrapado)
  /\ UNCHANGED <<next_tid, puerta, cadaver, pilas, caps>>

(* despertar_desde_irq, from the interrupt of the disk. *)
IrqDisco ==
  /\ Esperan(tasks, Disco) # {}
  /\ \E castigo \in Castigos :
       Epilogo(ScheduleLocked(
                 Estado(DespiertaA(tasks, Esperan(tasks, Disco)), resto, Marco),
                 TRUE, castigo), Atrapado)
  /\ UNCHANGED <<next_tid, puerta, cadaver, pilas, caps>>

----------------------------------------------------------------------------
(* The current task executes user code, or the body of its kernel thread.  *)
(* A thread that marked itself blocked or dead only halts until it is      *)
(* chosen again.                                                           *)
EnRing3 == /\ tasks[current].is_user /\ cpu = tasks[current].tid
           /\ hilo[cpu].hondo = 0
EnHilo == /\ ~tasks[current].is_user /\ current # IDLE
          /\ cpu = tasks[current].tid /\ hilo[cpu].hondo = 0
          /\ tasks[current].state = "Running"

(* A system call that switches: what it does to the table, then            *)
(* schedule_locked, then its epilogue.                                     *)
Llamada(t) ==
  /\ EnRing3
  /\ Epilogo(ScheduleLocked(Estado(t, resto, Marco), TRUE, 0), Atrapado)
  /\ UNCHANGED <<next_tid, puerta, cadaver, pilas, caps>>

(* yield_current, as a system call. *)
Yield == Llamada(tasks)

(* mark_wait, then the rest of wait_current and wait_current_checked (whose *)
(* comparison with the observed sequence has found nothing new).            *)
MarkWait(t, key, plazo) ==
  IF t[current].state = "Running"
  THEN [t EXCEPT ![current].state = "Blocked", ![current].wait_key = key,
                 ![current].wait_deadline = plazo]
  ELSE t

Wait(key, plazo) ==
  /\ key # Nada \/ plazo # 0
  /\ Llamada(MarkWait(tasks, key, plazo))

(* A step that only touches the table and the CPU stays where it is: in a  *)
(* system call the frame it pushed is popped, and stays named by trap_rsp. *)
SinCambio(t) ==
  /\ EnRing3 \/ EnHilo
  /\ tasks' = t
  /\ trap_rsp' = IF EnRing3 THEN Marco ELSE trap_rsp
  /\ UNCHANGED <<current, resto, rampa, puerta, cadaver, cpu, hilo, roto>>

(* wake_n_by_key; wake_by_key wakes as many as there are. *)
Wake(key, n) ==
  LET quienes == {i \in Esperan(tasks, key) :
                    Cardinality({j \in Esperan(tasks, key) : j < i}) < n}
  IN /\ quienes # {}
     /\ cpu # YO
     /\ SinCambio(DespiertaA(tasks, quienes))
     /\ UNCHANGED <<next_tid, pilas, caps>>

(* delante: the quantum of the user task in front, and of every other. *)
PonDelante(t, tid) ==
  [i \in Slots |->
     IF ~t[i].is_user \/ t[i].state = "Empty" THEN t[i]
     ELSE [t[i] EXCEPT !.quantum = IF t[i].tid = tid THEN QuantumDelante ELSE Quantum]]

DelanteOp(tid) ==
  /\ cpu # YO
  /\ SinCambio(PonDelante(tasks, tid))
  /\ UNCHANGED <<next_tid, pilas, caps>>

(* Any system call that ends in a cap::grant to its caller: files, memory,  *)
(* a loan taken, an endpoint, a child... also that of a task that was      *)
(* closed and runs on.                                                     *)
Concede ==
  /\ EnRing3 /\ SinCambio(tasks)
  /\ caps' = caps \cup {cpu}
  /\ UNCHANGED <<next_tid, pilas>>

(* spawn_kernel, and spawn_user with its seed_init: the first empty slot;  *)
(* refused without one.                                                    *)
Spawn(priority, is_user, compas) ==
  /\ next_tid <= MaxTid
  /\ cpu # YO
  /\ \E i \in Slots :
       /\ tasks[i].state = "Empty" /\ \A j \in Slots : j < i => tasks[j].state # "Empty"
       /\ SinCambio([tasks EXCEPT ![i] = Nueva(next_tid, priority, is_user, compas)])
  /\ pilas' = pilas \cup {next_tid}
  /\ caps' = IF is_user THEN caps \cup {next_tid} ELSE caps
  /\ next_tid' = next_tid + 1

SpawnUser == Spawn(0, TRUE, FALSE)

(* The threads the shell starts, each once (in the model, one of a rank     *)
(* beside the undertaker).                                                 *)
SpawnKernel ==
  /\ current = SHELL
  /\ \E h \in Hilos :
       /\ \A i \in Slots \ {2} : tasks[i].priority # h[1]
       /\ Spawn(h[1], FALSE, h[2])

(* park_until and aparcar_en, in the body of a thread: they mark and halt. *)
(* Only the thread of the disk waits for the disk; the others sleep until  *)
(* their next beat (the bound on deadlines is also the period of a beat).  *)
AparcaCediendo(key, plazo) ==                                      (* mutant *)
  /\ EnHilo /\ cpu # YO
  /\ LET S == ScheduleLocked(Estado(MarkWait(tasks, key, plazo), resto, trap_rsp),
                             TRUE, 0) IN
     /\ tasks' = S.tasks /\ current' = S.current /\ resto' = S.resto
     /\ trap_rsp' = S.trap /\ rampa' = S.rampa
  /\ UNCHANGED <<next_tid, puerta, cadaver, cpu, hilo, pilas, roto, caps>>
Aparca(key, plazo) ==
  /\ EnHilo /\ cpu # YO
  /\ IF key = Disco THEN tasks[current].priority = 1 ELSE plazo # 0
  /\ tasks' = MarkWait(tasks, key, plazo)
  /\ UNCHANGED <<current, next_tid, resto, trap_rsp, rampa, puerta, cadaver,
                 cpu, hilo, pilas, roto, caps>>

(* mark_exit: the shell is never marked. *)
MarkExit(t) ==
  IF current # SHELL /\ t[current].state = "Running"
  THEN [t EXCEPT ![current].state = "Exited"] ELSE t

(* exit_and_park *)
ExitAndPark ==
  /\ EnHilo /\ cpu # YO /\ current # SHELL
  /\ tasks' = MarkExit(tasks)
  /\ UNCHANGED <<current, next_tid, resto, trap_rsp, rampa, puerta, cadaver,
                 cpu, hilo, pilas, roto, caps>>

----------------------------------------------------------------------------
(* terminar: the task of this tid, if it is a live user task, and what     *)
(* closing it does: a task in the door only has its death noted.           *)
Terminables(t, tid) ==
  {i \in Slots \ {SHELL} : /\ t[i].tid = tid /\ t[i].is_user
                           /\ t[i].state \notin {"Empty", "Exited"}}

TerminarSinMirar(t, tid, protegido) ==                             (* mutant *)
  [i \in Slots |-> IF i \in Terminables(t, tid)
                   THEN [t[i] EXCEPT !.state = "Exited"] ELSE t[i]]
Terminar(t, tid, protegido) ==
  IF tid = protegido THEN t
  ELSE [i \in Slots |-> IF i \in Terminables(t, tid)
                        THEN [t[i] EXCEPT !.state = "Exited"] ELSE t[i]]

Apuntada(t, tid, protegido, antes) ==
  IF tid = protegido /\ Terminables(t, tid) # {} THEN tid ELSE antes

(* Whose revoke_all a call goes through: its own at EXIT and at a fault,   *)
(* the child's at OP_CERRAR.                                               *)
RevocadaSinFallos(fin, victima) ==                                 (* mutant *)
  IF fin = "morir" THEN {cpu} ELSE {victima} \ {0}
Revocada(fin, victima) ==
  IF fin \in {"morir", "fallo"} THEN {cpu} ELSE {victima} \ {0}

(* What is left of a system call (or fault) past the door, with table t and *)
(* deaths noted: nothing; or revoke_all goes on to its end and then        *)
(* OP_CERRAR closes the child, exit_current marks the caller, or           *)
(* kill_current_and_pick does, whose stub published no frame.              *)
Acaba(t, fin, victima, protegido, apuntada) ==
  LET muere == fin \in {"morir", "fallo"}
      h == [hilo EXCEPT ![cpu] = [hondo |-> 1, lugar |-> "fuera", fin |-> "nada",
                                  victima |-> 0]]
      t1 == CASE muere -> MarkExit(t)
              [] fin = "cerrar" -> Terminar(t, victima, protegido)
              [] OTHER -> t
      S == Estado(t1, resto, IF fin = "fallo" THEN trap_rsp ELSE [de |-> cpu, n |-> 1])
  IN
  /\ Epilogo(IF muere THEN ScheduleLocked(S, fin # "fallo", 0) ELSE S, h)
  /\ matar' = IF fin = "cerrar" THEN Apuntada(t, victima, protegido, apuntada)
              ELSE apuntada
  /\ caps' = caps \ Revocada(fin, victima)

(* respiro::entrar, its compare_exchange on TITULAR won: intocable. *)
Coge == titular = 0 /\ titular' = cpu /\ intocable' = cpu

(* A user task calls (or faults).  Orders and giving back pass the door;    *)
(* exiting, faulting and closing a child only when revoke_all finds the    *)
(* GPU looking at the canvas of the dead.  A task that was closed and      *)
(* still runs may call as well.                                            *)
Entra(fin, victima) ==
  /\ EnRing3
  /\ \/ /\ fin \notin {"orden", "soltar"}
        /\ Acaba(tasks, fin, victima, intocable, matar)
        /\ UNCHANGED <<intocable, titular>>
     \/ /\ ConGpu
        /\ hilo' = [hilo EXCEPT ![cpu] =
             [hondo |-> 1, lugar |-> IF titular = 0 THEN "dentro" ELSE "espera",
              fin |-> fin, victima |-> victima]]
        /\ trap_rsp' = IF fin = "fallo" THEN trap_rsp ELSE Marco
        /\ IF titular = 0 THEN Coge ELSE UNCHANGED <<titular, intocable>>
        /\ UNCHANGED <<tasks, current, resto, rampa, matar, cpu, roto, caps>>
  /\ UNCHANGED <<next_tid, cadaver, pilas>>

EnPuerta(lugar) == /\ tasks[current].is_user /\ cpu = tasks[current].tid
                   /\ hilo[cpu].lugar = lugar

(* entrar, a turn of its loop later: the door is free. *)
Toma ==
  /\ EnPuerta("espera") /\ Coge
  /\ hilo' = [hilo EXCEPT ![cpu].lugar = "dentro"]
  /\ UNCHANGED <<tasks, current, next_tid, resto, trap_rsp, rampa, matar, cadaver,
                 cpu, pilas, roto, caps>>

(* entrar, two seconds later: NoSePudo, and it goes on without the door;   *)
(* an order to the GPU is refused.                                         *)
Desiste ==
  /\ EnPuerta("espera") /\ titular # 0
  /\ Acaba(tasks, hilo[cpu].fin, hilo[cpu].victima, intocable, matar)
  /\ UNCHANGED <<next_tid, intocable, titular, cadaver, pilas>>

(* tocable: was the death of the task that leaves noted? *)
SoloEnOrdenes == matar = cpu /\ hilo[cpu].fin = "orden"            (* mutant *)
Tocable == matar = cpu

(* salir, and what its caller does next.  If its death was noted, an order *)
(* ends as EXIT does, revoking first (through the door once more, or not); *)
(* con_la_gpu and fuera_de_la_gpu terminate the caller and go on.          *)
Sal ==
  /\ EnPuerta("dentro")
  /\ LET yo == hilo[cpu]
         muere == Tocable
         t == IF muere /\ yo.fin # "orden" THEN Terminar(tasks, cpu, 0) ELSE tasks
     IN
     \/ /\ titular' = 0 /\ intocable' = 0
        /\ Acaba(t, IF muere /\ yo.fin = "orden" THEN "morir" ELSE yo.fin,
                 yo.victima, 0, IF muere THEN 0 ELSE matar)
     \/ /\ muere /\ yo.fin = "orden"
        /\ matar' = 0
        /\ hilo' = [hilo EXCEPT ![cpu].fin = "morir"]
        /\ UNCHANGED <<tasks, current, resto, trap_rsp, rampa, intocable, titular,
                       cpu, roto, caps>>
  /\ UNCHANGED <<next_tid, cadaver, pilas>>

----------------------------------------------------------------------------
(* The undertaker (enterrador::hilo), a step per section of its loop. *)
Entierra(lugar) == EnHilo /\ cpu = YO /\ hilo[YO].lugar = lugar

(* tomar_muerto: the first dead task, or none. *)
Tomar ==
  /\ Entierra("tomar")
  /\ IF HayMuerto(tasks)
     THEN \E i \in Slots :
            /\ tasks[i].state = "Exited" /\ tasks[i].tid # YO
            /\ \A j \in Slots : j < i => tasks[j].state # "Exited" \/ tasks[j].tid = YO
            /\ cadaver' = [slot |-> i, tid |-> tasks[i].tid]
            /\ hilo' = [hilo EXCEPT ![YO].lugar = "enterrar"]
     ELSE hilo' = [hilo EXCEPT ![YO].lugar = "aparcar"] /\ UNCHANGED cadaver
  /\ UNCHANGED <<tasks, current, next_tid, resto, trap_rsp, rampa, puerta, cpu,
                 pilas, roto, caps>>

(* enterrar: the stack goes back to the allocator, outside the lock. *)
Enterrar ==
  /\ Entierra("enterrar")
  /\ pilas' = pilas \ {cadaver.tid}
  /\ hilo' = [hilo EXCEPT ![YO].lugar = "liberar"]
  /\ UNCHANGED <<tasks, current, next_tid, resto, trap_rsp, rampa, puerta, cadaver,
                 cpu, roto, caps>>

(* liberar_ranura *)
Liberar ==
  /\ Entierra("liberar")
  /\ tasks' = IF /\ tasks[cadaver.slot].tid = cadaver.tid
                 /\ tasks[cadaver.slot].state = "Exited"
              THEN [tasks EXCEPT ![cadaver.slot] = EMPTY] ELSE tasks
  /\ hilo' = [hilo EXCEPT ![YO].lugar = "tomar"]
  /\ UNCHANGED <<current, next_tid, resto, trap_rsp, rampa, puerta, cadaver, cpu,
                 pilas, roto, caps>>

(* aparcar_hasta_un_muerto: it looks for the dead again, under the lock.    *)
AparcarHastaUnMuerto ==
  /\ Entierra("aparcar")
  /\ tasks' = IF HayMuerto(tasks) THEN tasks ELSE MarkWait(tasks, Muertos, 0)
  /\ hilo' = [hilo EXCEPT ![YO].lugar = "tomar"]
  /\ UNCHANGED <<current, next_tid, resto, trap_rsp, rampa, puerta, cadaver, cpu,
                 pilas, roto, caps>>

Enterrador == Tomar \/ Enterrar \/ Liberar \/ AparcarHastaUnMuerto

----------------------------------------------------------------------------
Reloj == \E servidas \in SUBSET Llaves : Tick(servidas)

(* What programs and the bodies of kernel threads do. *)
Programas ==
  \/ Yield
  \/ \E key \in Llaves \cup {Nada, Latido}, plazo \in 0 .. MaxPlazo : Wait(key, plazo)
  \/ \E key \in Llaves, n \in {1, NSlots} : Wake(key, n)
  \/ \E tid \in 0 .. MaxTid : DelanteOp(tid)
  \/ SpawnUser \/ SpawnKernel \/ Concede
  \/ \E key \in {Nada, Disco}, plazo \in {0, MaxPlazo} : Aparca(key, plazo)
  \/ ExitAndPark
  \/ \E fin \in {"orden", "soltar", "morir", "fallo"} : Entra(fin, 0)
  \/ \E i \in Slots : tasks[i].is_user /\ tasks[i].tid > cpu /\ Entra("cerrar", tasks[i].tid)
  \/ Toma \/ Desiste \/ Sal

Next == Reloj \/ IrqDisco \/ Programas \/ Enterrador

Spec == Init /\ [][Next]_vars

----------------------------------------------------------------------------
(* schedule_locked, the stubs: whoever the table calls current is whoever  *)
(* the CPU executes, and no epilogue ever restored a frame twice or one    *)
(* below the top of its stack (timer.rs, the check of the seal).           *)
CpuIsCurrent == tasks[current].tid = cpu /\ ~roto

(* A task that waits for its turn is saved whole: its context is the top   *)
(* frame of its own stack, or it could not come back where it left.        *)
SavedContextIsWhole ==
  \A i \in Slots \ {current} :
    tasks[i].state \in {"Ready", "Blocked"} =>
      tasks[i].context_rsp = [de |-> tasks[i].tid, n |-> hilo[tasks[i].tid].hondo]

(* The next trap from Ring 3 lands on the stack of the task it interrupts, *)
(* and a task interrupted inside the door leaves by its own system call's  *)
(* frame.                                                                  *)
OwnRamp ==
  /\ tasks[current].is_user => rampa = cpu
  /\ EnPuerta("dentro") /\ hilo[cpu].fin # "fallo" => trap_rsp = [de |-> cpu, n |-> 1]

(* The undertaker never gives back a stack that is in use: the one the CPU *)
(* stands on, the one published for the next trap, that of a live task.    *)
NothingDangles ==
  /\ {cpu, rampa} \subseteq pilas
  /\ \A i \in Slots : tasks[i].state \notin {"Empty", "Exited"} => tasks[i].tid \in pilas

(* The door is one task's: it has TITULAR and INTOCABLE while it is inside, *)
(* and a death noted for later is its death (respiro.rs, roja.rs).         *)
DoorIsOneTasks ==
  /\ \A t \in {tasks[i].tid : i \in Slots} \ {0} :
       hilo[t].lugar = "dentro" => titular = t /\ intocable = t
  /\ matar # 0 => matar = intocable

(* terminar: a live task that has the GPU at work on its memory is not     *)
(* killed before it leaves the door.                                       *)
DeathWaitsForTheGpu ==
  [][\A i \in Slots :
       /\ tasks[i].state \notin {"Empty", "Exited"} /\ tasks'[i].state = "Exited"
       /\ hilo[tasks[i].tid].lugar = "dentro"
       => hilo'[tasks[i].tid].lugar = "fuera"]_vars

(* EXIT, faults, OP_CERRAR, a death noted in the door: capabilities die    *)
(* with the process.  The step that kills it leaves it without one: they   *)
(* were revoked before, and none was granted in between.                   *)
Mueren == {i \in Slots : /\ tasks[i].is_user
                         /\ tasks[i].state \notin {"Empty", "Exited"}
                         /\ tasks'[i].state = "Exited"}
CapabilitiesDieFirst == [][\A i \in Mueren : tasks[i].tid \notin caps']_vars

(* What is not so, and in no run: that a dead task has none.  con_la_gpu   *)
(* and fuera_de_la_gpu terminate their caller and go on; until the trap    *)
(* that switches it away it runs, and may be granted new ones.             *)
DeadHoldNothing ==
  \A i \in Slots : tasks[i].state = "Exited" /\ tasks[i].is_user
                     => tasks[i].tid \notin caps

(* delante: one task at most has the long turn. *)
OneInFront ==
  Cardinality({i \in Slots : tasks[i].state # "Empty"
                             /\ tasks[i].quantum = QuantumDelante}) <= 1

(* on_timer: after a tick nobody of higher rank is left waiting for the    *)
(* task that runs, but for the undertaker that this very switch woke; and  *)
(* the idle thread runs before one of its own rank only to the end of the  *)
(* quantum it had.                                                         *)
RankHonoured ==
  [][Reloj =>
       \A i \in Elegibles(tasks)' :
         \/ /\ tasks'[i].priority <= tasks'[current'].priority
            /\ current' = IDLE => current = IDLE /\ resto' = resto - 1
         \/ tasks[i].tid = YO /\ tasks[i].state = "Blocked"]_vars
=============================================================================
