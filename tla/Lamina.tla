------------------------------- MODULE Lamina -------------------------------
(***************************************************************************)
(* A lamina: memory that an app lends to the desktop, with two slots for a *)
(* frame (platform/shared/bmo-lamina/src/trato.rs and                      *)
(* platform/shared/verrano/src/lamina.rs).  The app writes the slot that   *)
(* is not published, between two changes of its seal, and then publishes;  *)
(* the desktop copies the published slot (leer_si_nueva) or reserves it    *)
(* for the GPU, that reads it where it lies (reservar, soltar), and sleeps *)
(* in a shared futex while there is nothing new.  Neither ever waits for   *)
(* the other.                                                              *)
(*                                                                         *)
(* The memory is that of x86-64 (TSO): a store waits in the buffer of its  *)
(* CPU, the CPU itself sees it, the others and the GPU see it when it      *)
(* drains; a SeqCst fence and a lock of the kernel wait for the buffer.    *)
(***************************************************************************)
EXTENDS Naturals, Sequences, SequencesExt

CONSTANTS
  MaxFotogramas,   (* bound of TLC: frames of a run *)
  Vacios           (* those published without vertices: the app may, and *)
                   (* VERRANO's check refuses to draw them               *)

ASSUME FotogramasAssumption == MaxFotogramas \in Nat
ASSUME VaciosAssumption == Vacios \subseteq Nat

VARIABLES
  mem,        (* the words of the lamina *)
  buf,        (* the stores of each that nobody else sees yet *)
  app,        (* where the app is, and its local variables *)
  esc,        (* the same of the desktop *)
  dibujado    (* the last frame drawn, and the words it was drawn from *)

vars == <<mem, buf, app, esc, dibujado>>

Lados == {"app", "esc"}
Ranuras == {0, 1}

(* CAMPO_SECUENCIA, CAMPO_VUELTA, CAMPO_DUERME; CAMPO_SELLO and two of the *)
(* words of a frame, of each slot.                                         *)
secuencia == <<"secuencia", 0>>
vuelta == <<"vuelta", 0>>
duerme == <<"duerme", 0>>
sello(k) == <<"sello", k>>
dato(i, k) == <<i, k>>
Campos == {secuencia, vuelta, duerme} \cup ({"sello", "a", "b"} \X Ranuras)

(* timbre: ESTADO_TIMBRE, the app rings when it publishes. *)
App == [pc : {"libre", "vuelta", "rellena", "acaba", "publica", "timbre",
              "despierta", "muerta"}, timbre : BOOLEAN]

(* s: the sequence of the frame in hand.  e1: its seal before the copy.    *)
(* vista: the sequence of the last one taken.  cpu: this copy is for the   *)
(* CPU to draw (cpu_window).  imposible: from now on, all of them.         *)
Esc == [pc : {"libre", "valla", "confirma", "presta1", "presta2", "lee",
              "copia", "copia1", "copia2", "intacto", "vigente",
              "dibuja", "me_duermo", "espera", "dormido", "despierto"},
        s : Nat, e1 : Nat, a : Nat, b : Nat, vista : Nat, prestada : BOOLEAN,
        cpu : BOOLEAN, sin_prestar : BOOLEAN, imposible : BOOLEAN]

Init ==
  /\ mem = [c \in Campos |-> 0]
  /\ buf = [p \in Lados |-> <<>>]
  /\ app \in [pc : {"libre"}, timbre : BOOLEAN]
  /\ esc = [pc |-> "libre", s |-> 0, e1 |-> 0, a |-> 0, b |-> 0, vista |-> 0,
            prestada |-> FALSE, cpu |-> FALSE, sin_prestar |-> FALSE,
            imposible |-> FALSE]
  /\ dibujado = [s |-> 0, a |-> 0, b |-> 0]

----------------------------------------------------------------------------
(* Memory. *)

(* What a load of p gives: its own latest store, or the memory. *)
Lee(p, c) ==
  LET suyos == {i \in 1 .. Len(buf[p]) : buf[p][i].campo = c}
  IN IF suyos = {} THEN mem[c] ELSE buf[p][Max(suyos)].valor

Guarda(p, c, v) == buf' = [buf EXCEPT ![p] = Append(@, [campo |-> c, valor |-> v])]

Valla(p) == buf[p] = <<>>

Drena(p) ==
  /\ buf[p] # <<>>
  /\ mem' = [mem EXCEPT ![Head(buf[p]).campo] = Head(buf[p]).valor]
  /\ buf' = [buf EXCEPT ![p] = Tail(@)]
  /\ UNCHANGED <<app, esc, dibujado>>

----------------------------------------------------------------------------
(* The app: publica_con_hora, and its copy in the code that TITAN++ emits. *)
ranura_para_escribir(s) == (s + 1) % 2
ranura_publicada(s) == s % 2

Propia == Lee("app", secuencia)
Ranura == ranura_para_escribir(Propia)

App_(desde, hasta) == app.pc = desde /\ app' = [app EXCEPT !.pc = hasta]

(* empezar_si_libre: the seal goes odd... *)
Empieza ==
  /\ App_("libre", "vuelta") /\ Propia < MaxFotogramas
  /\ Guarda("app", sello(Ranura), Lee("app", sello(Ranura)) + 1)
  /\ UNCHANGED <<mem, esc, dibujado>>

(* ...the fence, and VUELTA: if the slot is lent, the seal as it was and   *)
(* nothing else (Ocupada); this frame is not written.                      *)
Prestada(k) == Lee("app", vuelta) = k + 1
MiraVuelta ==
  /\ Valla("app")
  /\ IF Prestada(Ranura)
     THEN /\ App_("vuelta", "libre")
          /\ Guarda("app", sello(Ranura), Lee("app", sello(Ranura)) - 1)
     ELSE App_("vuelta", "rellena") /\ UNCHANGED buf
  /\ UNCHANGED <<mem, esc, dibujado>>

(* The words of the frame, one after the other: the frame that will be     *)
(* published with the next sequence.                                       *)
Rellena ==
  /\ App_("rellena", "acaba")
  /\ LET escribe(i) == [campo |-> dato(i, Ranura), valor |-> Propia + 1]
     IN buf' = [buf EXCEPT !["app"] = @ \o <<escribe("a"), escribe("b")>>]
  /\ UNCHANGED <<mem, esc, dibujado>>

(* acabar: the seal, even again. *)
Acaba ==
  /\ App_("acaba", "publica")
  /\ Guarda("app", sello(Ranura), Lee("app", sello(Ranura)) + 1)
  /\ UNCHANGED <<mem, esc, dibujado>>

(* publicar: the sequence, the last of all. *)
Publica ==
  /\ App_("publica", IF app.timbre THEN "timbre" ELSE "libre")
  /\ Guarda("app", secuencia, Propia + 1)
  /\ UNCHANGED <<mem, esc, dibujado>>

(* hay_quien_duerme: the fence, and DUERME. *)
HayQuienDuermeSinValla ==                                          (* mutant *)
  /\ App_("timbre", IF Lee("app", duerme) # 0 THEN "despierta" ELSE "libre")
  /\ UNCHANGED <<mem, buf, esc, dibujado>>
HayQuienDuerme ==
  /\ Valla("app")
  /\ App_("timbre", IF Lee("app", duerme) # 0 THEN "despierta" ELSE "libre")
  /\ UNCHANGED <<mem, buf, esc, dibujado>>

(* FUTEX_DESPERTAR_COMPARTIDO on the word of the sequence. *)
Despierta ==
  /\ Valla("app") /\ App_("despierta", "libre")
  /\ esc' = IF esc.pc = "dormido" THEN [esc EXCEPT !.pc = "despierto"] ELSE esc
  /\ UNCHANGED <<mem, buf, dibujado>>

(* The app dies wherever it is: of the stores that are in its buffer, the  *)
(* last ones may be those that it did not get to make.                     *)
Muere ==
  /\ app.pc # "muerta" /\ app' = [app EXCEPT !.pc = "muerta"]
  /\ \E n \in 0 .. Len(buf["app"]) :
       buf' = [buf EXCEPT !["app"] = SubSeq(@, 1, n)]
  /\ UNCHANGED <<mem, esc, dibujado>>

----------------------------------------------------------------------------
(* The desktop. *)
Olvida(e) == [e EXCEPT !.pc = "libre", !.s = 0, !.e1 = 0, !.a = 0, !.b = 0,
                       !.prestada = FALSE, !.cpu = FALSE]

Pasa(desde, hasta) ==
  /\ esc.pc = desde
  /\ esc' = IF hasta \in {"libre", "lee"} THEN [Olvida(esc) EXCEPT !.pc = hasta]
            ELSE [esc EXCEPT !.pc = hasta]

ranura == ranura_publicada(esc.s)

(* Nothing new: one word is read, and that is all. *)
Nueva == mem[secuencia] \notin {0, esc.vista}

Reservable == esc.pc = "libre" /\ Nueva /\ ~esc.sin_prestar /\ ~esc.imposible

(* reservar: VUELTA says that the slot is lent... *)
ReservaDeMas ==                                                    (* mutant *)
  /\ Reservable
  /\ esc' = [esc EXCEPT !.pc = "valla", !.s = mem[secuencia]]
  /\ Guarda("esc", vuelta, mem[secuencia] + 1)
  /\ UNCHANGED <<mem, app, dibujado>>
Reserva ==
  /\ Reservable
  /\ esc' = [esc EXCEPT !.pc = "valla", !.s = mem[secuencia]]
  /\ Guarda("esc", vuelta, ranura_publicada(mem[secuencia]) + 1)
  /\ UNCHANGED <<mem, app, dibujado>>

(* ...the fence, and the seal... *)
Suelta == Guarda("esc", vuelta, 0)
MiraSelloSinValla ==                                               (* mutant *)
  /\ IF mem[sello(ranura)] % 2 = 0
     THEN Pasa("valla", "confirma") /\ UNCHANGED buf
     ELSE Pasa("valla", "lee") /\ Suelta
  /\ UNCHANGED <<mem, app, dibujado>>
MiraSello ==
  /\ Valla("esc")
  /\ IF mem[sello(ranura)] % 2 = 0
     THEN Pasa("valla", "confirma") /\ UNCHANGED buf
     ELSE Pasa("valla", "lee") /\ Suelta
  /\ UNCHANGED <<mem, app, dibujado>>

(* ...and the sequence again; a frame of no vertices is not lent either. A *)
(* slot that was refused is let go, and the same turn tries a copy.        *)
Confirma ==
  /\ IF mem[secuencia] = esc.s /\ mem[dato("a", ranura)] \notin Vacios
     THEN Pasa("confirma", "presta1") /\ UNCHANGED buf
     ELSE Pasa("confirma", "lee") /\ Suelta
  /\ UNCHANGED <<mem, app, dibujado>>

(* The GPU reads the slot where it lies. *)
Presta1 ==
  /\ esc.pc = "presta1"
  /\ esc' = [esc EXCEPT !.pc = "presta2", !.a = mem[dato("a", ranura)]]
  /\ UNCHANGED <<mem, buf, app, dibujado>>
Presta2 ==
  /\ esc.pc = "presta2"
  /\ esc' = [esc EXCEPT !.pc = "dibuja", !.b = mem[dato("b", ranura)],
                        !.prestada = TRUE]
  /\ UNCHANGED <<mem, buf, app, dibujado>>

(* leer_si_nueva, leer_ranura: a copy, between two looks at the seal.  A   *)
(* turn is of cpu_window when the GPU is not there or the window does not  *)
(* fit it (neither is watched here), and always once it is `imposible'.    *)
Copia ==
  /\ esc.pc \in {"libre", "lee"} /\ Nueva
  /\ \E cpu \in BOOLEAN :
       /\ esc.imposible => cpu
       /\ esc.pc = "lee" => ~cpu
       /\ esc' = [esc EXCEPT !.pc = "copia", !.s = mem[secuencia], !.cpu = cpu]
  /\ UNCHANGED <<mem, buf, app, dibujado>>

Mira ==
  /\ esc.pc = "copia"
  /\ LET e1 == mem[sello(ranura)]
     IN esc' = IF e1 % 2 = 0 THEN [esc EXCEPT !.pc = "copia1", !.e1 = e1]
               ELSE Olvida(esc)
  /\ UNCHANGED <<mem, buf, app, dibujado>>

Copia1 ==
  /\ esc.pc = "copia1"
  /\ esc' = [esc EXCEPT !.pc = "copia2", !.a = mem[dato("a", ranura)]]
  /\ UNCHANGED <<mem, buf, app, dibujado>>
Copia2 ==
  /\ esc.pc = "copia2"
  /\ esc' = [esc EXCEPT !.pc = "intacto", !.b = mem[dato("b", ranura)]]
  /\ UNCHANGED <<mem, buf, app, dibujado>>

Intacto ==
  /\ Pasa("intacto", IF mem[sello(ranura)] = esc.e1 THEN "vigente" ELSE "libre")
  /\ UNCHANGED <<mem, buf, app, dibujado>>

SinMirarVigente ==                                                 (* mutant *)
  Pasa("vigente", "dibuja") /\ UNCHANGED <<mem, buf, app, dibujado>>
Vigente ==
  /\ Pasa("vigente", IF mem[secuencia] = esc.s THEN "dibuja" ELSE "libre")
  /\ UNCHANGED <<mem, buf, app, dibujado>>

(* The frame is in the window; a slot that was lent is let go. *)
Dibuja ==
  /\ esc.pc = "dibuja" /\ esc.a \notin Vacios
  /\ dibujado' = [s |-> esc.s, a |-> esc.a, b |-> esc.b]
  /\ esc' = [Olvida(esc) EXCEPT !.vista = esc.s]
  /\ IF esc.prestada THEN Suelta ELSE UNCHANGED buf
  /\ UNCHANGED <<mem, app>>

(* The drawing of a slot that was lent failed: from now on, copies. *)
FallaSinSoltar ==                                                  (* mutant *)
  /\ esc.pc = "dibuja" /\ esc.prestada
  /\ esc' = [Olvida(esc) EXCEPT !.vista = 0, !.sin_prestar = TRUE]
  /\ UNCHANGED <<mem, buf, app, dibujado>>
FallaPrestada ==
  /\ esc.pc = "dibuja" /\ esc.prestada
  /\ esc' = [Olvida(esc) EXCEPT !.vista = 0, !.sin_prestar = TRUE]
  /\ Suelta
  /\ UNCHANGED <<mem, app, dibujado>>

(* decir: the GPU is given up, and the CPU has to draw that frame too.     *)
Decir(e) == [Olvida(e) EXCEPT !.vista = 0, !.imposible = TRUE]

(* The GPU failed to draw a copy, of whatever frame. *)
FallaYDaPorVista ==                                                (* mutant *)
  /\ esc.pc = "dibuja" /\ ~esc.prestada /\ ~esc.cpu
  /\ esc' = [Decir(esc) EXCEPT !.vista = esc.s]
  /\ UNCHANGED <<mem, buf, app, dibujado>>
FallaCopia ==
  /\ esc.pc = "dibuja" /\ ~esc.prestada /\ ~esc.cpu
  /\ esc' = Decir(esc)
  /\ UNCHANGED <<mem, buf, app, dibujado>>

(* There is no memory for the GPU's image or packet, or its door does not  *)
(* open: it is given up before anything is read.                           *)
Desiste ==
  /\ esc.pc = "libre" /\ Nueva /\ ~esc.imposible
  /\ esc' = Decir(esc)
  /\ UNCHANGED <<mem, buf, app, dibujado>>

(* The CPU refuses a frame of no vertices: it counts as seen, and the      *)
(* window keeps what it had.                                               *)
Rechaza ==
  /\ esc.pc = "dibuja" /\ esc.cpu /\ esc.a \in Vacios
  /\ esc' = [Olvida(esc) EXCEPT !.vista = esc.s]
  /\ UNCHANGED <<mem, buf, app, dibujado>>

(* There is nothing new, and the app rings.  me_duermo: DUERME, the fence, *)
(* and the sequence.                                                       *)
MeDuermo ==
  /\ app.timbre /\ ~Nueva /\ Pasa("libre", "me_duermo")
  /\ Guarda("esc", duerme, 1)
  /\ UNCHANGED <<mem, app, dibujado>>

Despierto == Guarda("esc", duerme, 0)
Repasa ==
  /\ Valla("esc")
  /\ IF mem[secuencia] = esc.vista
     THEN Pasa("me_duermo", "espera") /\ UNCHANGED buf
     ELSE Pasa("me_duermo", "libre") /\ Despierto
  /\ UNCHANGED <<mem, app, dibujado>>

(* FUTEX_ESPERAR_COMPARTIDO: the kernel compares the word under its lock. *)
Espera ==
  /\ Valla("esc")
  /\ Pasa("espera", IF mem[secuencia] = esc.vista THEN "dormido" ELSE "despierto")
  /\ UNCHANGED <<mem, buf, app, dibujado>>

(* SIESTA_MS *)
Siesta ==
  /\ Pasa("dormido", "despierto")
  /\ UNCHANGED <<mem, buf, app, dibujado>>

Vuelve ==
  /\ Pasa("despierto", "libre") /\ Despierto
  /\ UNCHANGED <<mem, app, dibujado>>

----------------------------------------------------------------------------
Escritorio ==
  \/ Reserva \/ MiraSello \/ Confirma \/ Presta1 \/ Presta2
  \/ Copia \/ Mira \/ Copia1 \/ Copia2 \/ Intacto \/ Vigente
  \/ Dibuja \/ FallaCopia \/ Rechaza \/ Repasa \/ Espera \/ Siesta \/ Vuelve

Next ==
  \/ \E p \in Lados : Drena(p)
  \/ Empieza \/ MiraVuelta \/ Rellena \/ Acaba \/ Publica
  \/ HayQuienDuerme \/ Despierta \/ Muere
  \/ Escritorio \/ FallaPrestada \/ Desiste \/ MeDuermo

Spec == Init /\ [][Next]_vars

(* Stores drain, and the desktop goes on with its turns.  Nothing is asked *)
(* of the app.                                                             *)
FairSpec ==
  /\ Spec
  /\ \A p \in Lados : WF_vars(Drena(p))
  /\ WF_vars(Escritorio)

----------------------------------------------------------------------------
(* Types: a word of the lamina, and what each one remembers of it. *)
TypeOK ==
  /\ mem \in [Campos -> Nat]
  /\ mem[vuelta] \in 0 .. 2 /\ mem[duerme] \in 0 .. 1
  /\ \A p \in Lados : \A g \in Range(buf[p]) : g.campo \in Campos /\ g.valor \in Nat
  /\ app \in App /\ esc \in Esc
  /\ dibujado \in [s : Nat, a : Nat, b : Nat]

(* reservar and empezar_si_libre (Dekker): while the GPU reads a slot the  *)
(* app is not inside of it, and no store to its words is on its way.       *)
EnPrestamo == esc.pc \in {"presta1", "presta2"} \/ esc.prestada
LentSlotUntouched ==
  EnPrestamo =>
    /\ ~(app.pc \in {"rellena", "acaba"} /\ Ranura = ranura)
    /\ \A g \in Range(buf["app"]) :
         g.campo \notin {dato("a", ranura), dato("b", ranura)}

(* leer_ranura, reservar: what is drawn as frame s is frame s, every word  *)
(* of it; never half of one, nor a later one that was not published yet.   *)
FrameIsWhole ==
  esc.pc = "dibuja" => esc.a = esc.s /\ esc.b = esc.s

(* hay_quien_duerme, me_duermo (Dekker again): when the desktop sleeps     *)
(* over a frame that it did not see, the app is on its way to wake it, or  *)
(* died on its way.                                                        *)
NoWakeLost ==
  (esc.pc = "dormido" /\ mem[secuencia] # esc.vista) =>
    app.pc \in {"timbre", "despierta", "muerta"}

(* The window goes from one published frame to a later one, whatever is    *)
(* torn, refused, or fails on the way.                                     *)
Cortado == MaxFotogramas + 1
Contenido(d) == IF d.a = d.b THEN d.a ELSE Cortado
Tomado == IF EnPrestamo \/ esc.pc = "dibuja" THEN esc.s ELSE Contenido(dibujado)
W == INSTANCE Escaparate WITH publicado <- mem[secuencia], tomado <- Tomado,
                              mostrado <- Contenido(dibujado)
ShowsThePublished == W!Spec

(* Every frame that has something to draw gets to the window or is         *)
(* overtaken by a later one, whatever failed on the way (its own drawing   *)
(* on the GPU, lent and copied) and whatever came before it (a frame that  *)
(* is refused everywhere): also the last frame of an app that stopped, or  *)
(* that died while it wrote the next or before it could ring.              *)
PublishedIsShown ==
  \A n \in (1 .. MaxFotogramas) \ Vacios :
    mem[secuencia] = n ~> (dibujado.s >= n \/ mem[secuencia] > n)

(* soltar, on every path: the app is not kept out of a slot for ever. *)
LentIsReturned == mem[vuelta] # 0 ~> mem[vuelta] = 0
=============================================================================
