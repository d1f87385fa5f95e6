------------------------------- MODULE Disco -------------------------------
(***************************************************************************)
(* Files that arrive while their reader sleeps: the order that the thread  *)
(* of the disk leaves in the device (dev/disk/vuelo.rs), the thread        *)
(* (dev/disk/hilo.rs) and the loads it moves (obj/cargando.rs, obj/file.rs)*)
(*                                                                         *)
(* System calls run with interrupts closed: each is one step.  Whoever     *)
(* takes the disk with an order of the thread in it finishes that order    *)
(* (cosechar), so the thread may find it done, failed or given up.  A file *)
(* is NTrozos orders long and every slot here is one the thread carries.   *)
(***************************************************************************)
EXTENDS Naturals, FiniteSets, FiniteSetsExt

CONSTANTS NRanuras,      (* MAX_ABIERTOS                                      *)
          NTrozos,       (* orders that a file takes                          *)
          MaxAbiertas,   (* bound: files opened                               *)
          MaxVaciados,   (* bound: written files closed                       *)
          NZonas         (* pages of the FAT that the chains of files lie in  *)

ASSUME DiscoAssumption ==
  /\ {NRanuras, NTrozos, NZonas} \subseteq Nat \ {0}
  /\ {MaxAbiertas, MaxVaciados} \subseteq Nat

Ranuras == 1..NRanuras

VARIABLES
  aparato,    (* the port: its order, in what it is, whether it was given up  *)
  vuelo,      (* VUELO: the kind of order in the device while nobody has it   *)
  cosecha,    (* COSECHA: the result of a read that another finished          *)
  memoria,    (* per buffer and place, the piece of its file that is there    *)
  fichero,    (* per slot: its file, owned or not, LOAD_CLUSTER and LARGO     *)
  ventana,    (* VENTANA: the page of the FAT that is in memory               *)
  pedida,     (* VENTANA_PEDIDA                                               *)
  duermen,    (* slots whose owner sleeps on llave(i)                         *)
  en_vuelo,   (* EN_VUELO: what the thread does when its order lands          *)
  ultima,     (* ULTIMA: the slot served last                                 *)
  hilo,       (* where the thread is, whether TOQUES or AVISOS moved since it *)
              (* read them, whether it sleeps with a deadline                 *)
  vaciados    (* written files closed so far                                  *)

puerto == <<aparato, vuelo, cosecha, memoria>>
cargas == <<fichero, ventana, pedida, duermen>>
vars == <<puerto, cargas, en_vuelo, ultima, hilo, vaciados>>

NoHay == 0
Despierto == [pc |-> "lee", movido |-> FALSE, plazo |-> FALSE]
Vacio == [k \in 1..NTrozos |-> 0]
Ninguna == [que |-> "nada", i |-> 0, ver |-> 0, lugar |-> 0, trozo |-> 0]
Ocioso == [estado |-> "libre", orden |-> Ninguna, dejada |-> FALSE]
SinVuelo == [clase |-> "nada", i |-> 0, sig |-> 0]
Libre(ver) == [ver |-> ver, zona |-> 1, abierto |-> FALSE, cluster |-> 0, largo |-> 0]

Init ==
  /\ aparato = Ocioso /\ vuelo = "nada" /\ cosecha = "nada"
  /\ memoria = [i \in Ranuras |-> Vacio]
  /\ fichero = [i \in Ranuras |-> Libre(0)]
  /\ ventana = NoHay /\ pedida = NoHay /\ duermen = {}
  /\ en_vuelo = SinVuelo /\ ultima = NRanuras
  /\ hilo = Despierto
  /\ vaciados = 0

Puerto == [aparato |-> aparato, vuelo |-> vuelo, cosecha |-> cosecha,
           memoria |-> memoria]
Cargas == [fichero |-> fichero, ventana |-> ventana, pedida |-> pedida,
           duermen |-> duermen]

QuedaPuerto(P) == /\ aparato' = P.aparato /\ vuelo' = P.vuelo
                  /\ cosecha' = P.cosecha /\ memoria' = P.memoria
QuedaCargas(F) == /\ fichero' = F.fichero /\ ventana' = F.ventana
                  /\ pedida' = F.pedida /\ duermen' = F.duermen

-----------------------------------------------------------------------------
(* The device and who asks it *)

Ocupado(P) == P.aparato.estado = "curso"

(* The DMA lands in the buffer of the order, if it is still that buffer. *)
Acaba(P, fin) ==
  LET o == P.aparato.orden IN
  [P EXCEPT !.aparato = [estado |-> fin, orden |-> Ninguna, dejada |-> FALSE],
            !.memoria = IF /\ fin = "hecho" /\ o.que = "datos"
                           /\ fichero[o.i].abierto /\ fichero[o.i].ver = o.ver
                        THEN [@ EXCEPT ![o.i][o.lugar] = o.trozo] ELSE @]
Finales(P) == IF Ocupado(P) THEN {Acaba(P, fin) : fin \in {"hecho", "fallo"}} ELSE {P}

(* sondear saw the end, and with it took its interrupt (consumir_aviso).    *)
Aterrizada(P) == [P EXCEPT !.aparato = Ocioso, !.vuelo = "nada"]
Resultado(P) == IF P.aparato.estado = "hecho" THEN "bien" ELSE "mal"

(* Nobody waits any longer for the order, and the device goes on with it.   *)
Dejada(o) == [estado |-> "curso", dejada |-> TRUE,
              orden |-> IF o.que = "datos" THEN o ELSE Ninguna]

(* cosechar: it spins until the end, or two seconds.  A FLUSH is nobody's. *)
CosechaDeTodos(P, r) == r                                          (* mutant *)
DeQuienEs(P, r) == IF P.vuelo = "lectura" THEN r ELSE P.cosecha
Cosechados(P) ==
  IF P.vuelo = "nada" THEN {P}
  ELSE {[Aterrizada(Q) EXCEPT !.cosecha = DeQuienEs(P, Resultado(Q))] : Q \in Finales(P)}
       \cup IF Ocupado(P)
            THEN {[P EXCEPT !.vuelo = "nada", !.aparato = Dejada(P.aparato.orden),
                            !.cosecha = DeQuienEs(P, "mal")]}
            ELSE {}

(* esperar; the "Libre" it may answer is a failure for who asks. *)
Esperados(P) ==
  IF P.vuelo # "lectura" /\ P.cosecha = "nada" THEN {[puerto |-> P, r |-> "mal"]}
  ELSE {[puerto |-> [Q EXCEPT !.cosecha = "nada"], r |-> Q.cosecha] : Q \in Cosechados(P)}

EnMarcha(o) == [estado |-> "curso", orden |-> o, dejada |-> FALSE]

(* run_command: an order of who has the disk, waited for by spinning.  The *)
(* port is busy while an order that was given up goes on.                  *)
Ordenes(P, o) ==
  LET Q == [P EXCEPT !.aparato = EnMarcha(o)] IN
  IF Ocupado(P) THEN {[puerto |-> P, ok |-> FALSE]}
  ELSE {[puerto |-> [Acaba(Q, fin) EXCEPT !.aparato = Ocioso],
         ok |-> fin = "hecho"] : fin \in {"hecho", "fallo"}}
       \cup {[puerto |-> [P EXCEPT !.aparato = Dejada(o)], ok |-> FALSE]}

(* A notice wakes the thread, or moves what it read before its step.        *)
Avisado == CASE hilo.pc = "duerme"           -> Despierto
             [] hilo.pc \in {"paso", "aparca"} -> [hilo EXCEPT !.movido = TRUE]
             [] OTHER                        -> hilo

(* An order ends on its own and its interrupt comes (irq::atender), or is   *)
(* lost.  Nobody looks at the end of one that was given up.                 *)
Contesta ==
  /\ Ocupado(Puerto)
  /\ \E fin \in {"hecho", "fallo"} :
       LET Q == Acaba(Puerto, fin) IN
       QuedaPuerto(IF aparato.dejada THEN [Q EXCEPT !.aparato = Ocioso] ELSE Q)
  /\ hilo' \in {Avisado, hilo}
  /\ UNCHANGED <<cargas, en_vuelo, ultima, vaciados>>

-----------------------------------------------------------------------------
(* What a landed order does to its file *)

(* aplicar: the bytes are counted or the file is cut, and its reader wakes. *)
Aplicada(f, r, sig) ==
  IF r = "bien"
  THEN [f EXCEPT !.largo = @ + 1, !.cluster = IF f.largo + 1 >= NTrozos THEN 0 ELSE sig]
  ELSE [f EXCEPT !.cluster = 0]
AplicaCallada(F, i, r, sig) == [F EXCEPT !.fichero[i] = Aplicada(@, r, sig)]   (* mutant *)
Aplica(F, i, r, sig) ==
  [F EXCEPT !.fichero[i] = Aplicada(@, r, sig), !.duermen = @ \ {i}]

(* aterrizar, of data or of the page of the FAT (ventana_llego). *)
Llega(F, v, r) ==
  CASE v.clase = "nada"  -> F
    [] v.clase = "datos" -> Aplica(F, v.i, r, v.sig)
    [] v.clase = "fat"   ->
         LET G == [F EXCEPT !.ventana = IF r = "bien" THEN F.pedida ELSE NoHay,
                            !.pedida = NoHay] IN
         IF r = "bien" THEN G ELSE Aplica(G, v.i, r, 0)

(* cerrar_vuelo: <<port, loads>> after it. *)
SinCerrar(v) == {[puerto |-> Puerto, cargas |-> Cargas]}           (* mutant *)
CerrarVuelo(v) ==
  IF v.clase = "nada" THEN {[puerto |-> Puerto, cargas |-> Cargas]}
  ELSE {[puerto |-> e.puerto, cargas |-> Llega(Cargas, v, e.r)] : e \in Esperados(Puerto)}

SiguienteDeMas(trozo) == IF trozo <= NTrozos THEN trozo + 1 ELSE 0  (* mutant *)
Siguiente(trozo) == IF trozo < NTrozos THEN trozo + 1 ELSE 0

Datos(F, i) ==
  [que |-> "datos", i |-> i, ver |-> F.fichero[i].ver,
   lugar |-> F.fichero[i].largo + 1, trozo |-> F.fichero[i].cluster]
OrdenDe(que) == [Ninguna EXCEPT !.que = que]

-----------------------------------------------------------------------------
(* System calls *)

Abiertas == FoldSet(LAMBDA i, n : n + fichero[i].ver, 0, Ranuras)

(* The pages of the FAT are numbered as files first fall in them. *)
Zonas == {z \in 1..NZonas : z <= Abiertas + 1}

PrimeraLibre(i) == /\ ~fichero[i].abierto
                   /\ \A j \in Ranuras : j < i => fichero[j].abierto

(* abrir_asinc: the path is resolved on the disk, the first free slot gets  *)
(* a buffer and the thread is told (avisar).                                *)
Abrir ==
  /\ Abiertas < MaxAbiertas
  /\ \E i \in Ranuras, P \in Cosechados(Puerto), z \in Zonas :
       /\ PrimeraLibre(i)
       /\ \E e \in Ordenes(P, OrdenDe("otra")) : e.ok /\ QuedaPuerto(e.puerto)
       /\ fichero' = [fichero EXCEPT ![i] = [ver |-> @.ver + 1, zona |-> z,
                        abierto |-> TRUE, cluster |-> 1, largo |-> 0]]
  /\ hilo' = Avisado
  /\ UNCHANGED <<ventana, pedida, duermen, en_vuelo, ultima, vaciados>>

Avanzada(f, leido) ==
  IF leido THEN [f EXCEPT !.largo = @ + 1, !.cluster = Siguiente(@)]
           ELSE [f EXCEPT !.cluster = 0]

(* operation (but for CERRAR and LISTO): avanzar brings a piece itself,     *)
(* after closing the flight.                                                *)
Leer(i) ==
  /\ fichero[i].abierto /\ fichero[i].cluster # 0 /\ i \notin duermen
  /\ \E c \in CerrarVuelo(en_vuelo) :
       IF c.cargas.fichero[i].cluster = 0
       THEN QuedaPuerto(c.puerto) /\ QuedaCargas(c.cargas)
       ELSE \E P \in Cosechados(c.puerto) : \E e \in Ordenes(P, Datos(c.cargas, i)) :
              /\ QuedaPuerto(e.puerto)
              /\ QuedaCargas([c.cargas EXCEPT !.fichero[i] = Avanzada(@, e.ok)])
  /\ en_vuelo' = SinVuelo
  /\ UNCHANGED <<ultima, hilo, vaciados>>

(* WAIT on a file whose sequence is the one the program saw. *)
Esperar(i) ==
  /\ fichero[i].abierto /\ fichero[i].cluster # 0
  /\ duermen' = duermen \cup {i}
  /\ UNCHANGED <<puerto, fichero, ventana, pedida, en_vuelo, ultima, hilo,
                 vaciados>>

(* cargando::soltar: the flight is closed if it is of this slot. *)
Soltados(i) ==
  {[puerto |-> c.puerto, cargas |-> [c.cargas EXCEPT !.fichero[i].cluster = 0]] :
      c \in IF en_vuelo.i = i THEN CerrarVuelo(en_vuelo)
            ELSE {[puerto |-> Puerto, cargas |-> Cargas]}}
VueloTrasSoltar(i) == IF en_vuelo.i = i THEN SinVuelo ELSE en_vuelo

(* release: of who closes its file, or dies or is closed with it open. *)
Cerrar(i) ==
  /\ fichero[i].abierto
  /\ \E c \in Soltados(i) :
       /\ QuedaPuerto([c.puerto EXCEPT !.memoria[i] = Vacio])
       /\ QuedaCargas([c.cargas EXCEPT !.duermen = @ \ {i}, !.fichero[i] = Libre(@.ver)])
  /\ en_vuelo' = VueloTrasSoltar(i)
  /\ UNCHANGED <<ultima, hilo, vaciados>>

(* Any other read of any program. *)
OtraOrden ==
  /\ \E P \in Cosechados(Puerto) : \E e \in Ordenes(P, OrdenDe("otra")) :
       QuedaPuerto(e.puerto)
  /\ UNCHANGED <<cargas, en_vuelo, ultima, hilo, vaciados>>

(* A written file is closed: its sectors are written, which makes the page  *)
(* of the FAT old, and the FLUSH is left in the device (emitir_vaciado).    *)
CerrarEscrito ==
  /\ vaciados < MaxVaciados
  /\ \E P \in Cosechados(Puerto) : \E e \in Ordenes(P, OrdenDe("otra")) :
       /\ e.ok
       /\ QuedaPuerto([e.puerto EXCEPT !.aparato = EnMarcha(OrdenDe("vaciar")),
                                         !.vuelo = "vaciar"])
  /\ ventana' = NoHay /\ pedida' = NoHay
  /\ hilo' = Avisado /\ vaciados' = vaciados + 1
  /\ UNCHANGED <<fichero, duermen, en_vuelo, ultima>>

-----------------------------------------------------------------------------
(* The thread of the disk.  Its step (paso) runs with interrupts closed and *)
(* the lock taken; between its steps anybody runs.                          *)

Lee ==
  /\ hilo.pc = "lee"
  /\ hilo' = [hilo EXCEPT !.pc = "paso"]
  /\ UNCHANGED <<puerto, cargas, en_vuelo, ultima, vaciados>>

Duerma(plazo) == hilo' = [hilo EXCEPT !.pc = "aparca", !.plazo = plazo]
OtraVuelta == hilo' = Despierto

(* A FLUSH in the device, or its own read: it waits for the interrupt, with *)
(* RED_MS as a net.                                                         *)
EnCurso == \/ vuelo = "vaciar" /\ Ocupado(Puerto)
           \/ en_vuelo.clase # "nada" /\ cosecha = "nada" /\ vuelo = "lectura"
              /\ Ocupado(Puerto)

SigueEsperando ==
  /\ hilo.pc = "paso" /\ EnCurso
  /\ Duerma(TRUE)
  /\ UNCHANGED <<puerto, cargas, en_vuelo, ultima, vaciados>>

(* The rest of its steps begin by landing what is over: a FLUSH             *)
(* (vaciado_en_vuelo), then its own order (mirar), by whoever finished it.  *)
TrasVaciado == IF vuelo = "vaciar" THEN Aterrizada(Puerto) ELSE Puerto
Mirado ==
  LET P == TrasVaciado IN
  CASE en_vuelo.clase = "nada" -> [puerto |-> P, r |-> "nada"]
    [] P.cosecha # "nada"      -> [puerto |-> [P EXCEPT !.cosecha = "nada"], r |-> P.cosecha]
    [] P.vuelo = "lectura"     -> [puerto |-> Aterrizada(P), r |-> Resultado(P)]
    [] OTHER                   -> [puerto |-> P, r |-> "mal"]
Tras == [puerto |-> Mirado.puerto, cargas |-> Llega(Cargas, en_vuelo, Mirado.r)]

Pendientes(F) == {i \in Ranuras : F.fichero[i].cluster # 0}
Lejos(i) == (i + NRanuras - ultima - 1) % NRanuras
Turno(F, i) == \A j \in Pendientes(F) : Lejos(i) <= Lejos(j)

(* emitir_lectura leaves the order in the device. *)
Emite(P, o) == [P EXCEPT !.aparato = EnMarcha(o), !.vuelo = "lectura"]

PideDatos(P, F, i) ==
  /\ ~Ocupado(P) /\ F.ventana = F.fichero[i].zona
  /\ QuedaPuerto(Emite(P, Datos(F, i))) /\ QuedaCargas(F)
  /\ en_vuelo' = [clase |-> "datos", i |-> i, sig |-> Siguiente(F.fichero[i].cluster)]
  /\ Duerma(TRUE)

(* planear_trozo lacks the page of the FAT: it is asked for first. *)
PideFat(P, F, i) ==
  /\ ~Ocupado(P) /\ F.ventana # F.fichero[i].zona
  /\ QuedaPuerto(Emite(P, OrdenDe("fat")))
  /\ QuedaCargas([F EXCEPT !.ventana = NoHay, !.pedida = F.fichero[i].zona])
  /\ en_vuelo' = [clase |-> "fat", i |-> i, sig |-> 0]
  /\ Duerma(TRUE)

(* The port did not take the order: the file is cut. *)
NoSePudo(P, F, i) ==
  /\ Ocupado(P)
  /\ QuedaPuerto(P)
  /\ QuedaCargas(Aplica(IF F.ventana = F.fichero[i].zona THEN F
                        ELSE [F EXCEPT !.ventana = NoHay, !.pedida = NoHay], i, "mal", 0))
  /\ en_vuelo' = SinVuelo
  /\ OtraVuelta

Trabaja ==
  /\ hilo.pc = "paso" /\ ~EnCurso
  /\ LET P == Tras.puerto
         F == Tras.cargas
     IN \E i \in Pendientes(F) :
          /\ Turno(F, i)
          /\ PideDatos(P, F, i) \/ PideFat(P, F, i) \/ NoSePudo(P, F, i)
          /\ ultima' = i
  /\ UNCHANGED vaciados

SinTrabajo ==
  /\ hilo.pc = "paso" /\ ~EnCurso /\ Pendientes(Tras.cargas) = {}
  /\ QuedaPuerto(Tras.puerto) /\ QuedaCargas(Tras.cargas)
  /\ en_vuelo' = SinVuelo
  /\ Duerma(FALSE)
  /\ UNCHANGED <<ultima, vaciados>>

(* aparcar_en: it does not sleep over a notice that it did not read. *)
AparcaSinMirar ==                                                  (* mutant *)
  /\ hilo.pc = "aparca"
  /\ hilo' = [hilo EXCEPT !.pc = "duerme", !.movido = FALSE]
  /\ UNCHANGED <<puerto, cargas, en_vuelo, ultima, vaciados>>
Aparca ==
  /\ hilo.pc = "aparca"
  /\ hilo' = IF hilo.movido THEN Despierto ELSE [hilo EXCEPT !.pc = "duerme"]
  /\ UNCHANGED <<puerto, cargas, en_vuelo, ultima, vaciados>>

Vence ==
  /\ hilo.pc = "duerme" /\ hilo.plazo
  /\ hilo' = Despierto
  /\ UNCHANGED <<puerto, cargas, en_vuelo, ultima, vaciados>>

-----------------------------------------------------------------------------
Hilo == Lee \/ SigueEsperando \/ Trabaja \/ SinTrabajo \/ Aparca \/ Vence
Programas == Abrir \/ OtraOrden \/ CerrarEscrito
             \/ \E i \in Ranuras : Leer(i) \/ Esperar(i) \/ Cerrar(i)

Next == Contesta \/ Hilo \/ Programas

(* The device answers in the end; the thread, of a rank above the programs, *)
(* runs; the clock wakes it at its deadline.  Nobody has to call.           *)
Spec == Init /\ [][Next]_vars /\ WF_vars(Contesta) /\ WF_vars(Hilo)

-----------------------------------------------------------------------------
(* Properties *)

(* Every variable stays in its range: in particular no file counts more     *)
(* pieces than it has (LARGO, cargando.rs) and one order at most is behind  *)
(* each of VUELO, COSECHA and EN_VUELO.                                     *)
Orden == [que : {"nada", "datos", "fat", "vaciar", "otra"}, i : 0..NRanuras,
          ver : Nat, lugar : 0..NTrozos, trozo : 0..NTrozos]
TypeOK ==
  /\ aparato \in [estado : {"libre", "curso", "hecho", "fallo"}, orden : Orden,
                  dejada : BOOLEAN]
  /\ vuelo \in {"nada", "lectura", "vaciar"} /\ cosecha \in {"nada", "bien", "mal"}
  /\ memoria \in [Ranuras -> [1..NTrozos -> 0..NTrozos]]
  /\ fichero \in [Ranuras -> [ver : Nat, zona : 1..NZonas, abierto : BOOLEAN,
                              cluster : 0..NTrozos, largo : 0..NTrozos]]
  /\ {ventana, pedida} \subseteq 0..NZonas
  /\ duermen \subseteq Ranuras
  /\ en_vuelo \in [clase : {"nada", "datos", "fat"}, i : 0..NRanuras, sig : 0..NTrozos]
  /\ ultima \in Ranuras
  /\ hilo \in [pc : {"lee", "paso", "aparca", "duerme"}, movido : BOOLEAN, plazo : BOOLEAN]
  /\ vaciados \in 0..MaxVaciados
  /\ (en_vuelo.clase # "nada") <=> (vuelo = "lectura" \/ cosecha # "nada")

(* Whatever a program may read of its file (up to LARGO) is that file: each *)
(* piece came from the disk, once and to its place, whoever landed it - the *)
(* thread, a system call that took the disk, or the program that read       *)
(* (cargando.rs, "los dos caminos no pueden contar el mismo trozo").        *)
BytesAreTheFiles ==
  \A i \in Ranuras : fichero[i].abierto =>
    \A k \in 1..fichero[i].largo : memoria[i][k] = k

(* The device writes only in the buffer of a file that is still open: the   *)
(* buffer is not given back before the order is over (cargando::soltar,     *)
(* R-DMA-3), unless the kernel gave the order up.                           *)
BufferOutlivesFlight ==
  LET o == aparato.orden IN
  (aparato.estado = "curso" /\ ~aparato.dejada /\ o.que = "datos")
     => fichero[o.i].abierto /\ fichero[o.i].ver = o.ver

(* Who sleeps on a file wakes: with bytes or with the news that no more     *)
(* come, though the interrupt is lost, another finishes the order, the      *)
(* device fails or stays silent beyond the patience of a system call        *)
(* (aplicar and hilo, "un aviso que llegue durante el paso").               *)
EveryReaderWakes == \A i \in Ranuras : (i \in duermen) ~> (i \notin duermen)

(* The same, unless another load has its chain in another page of the FAT.  *)
ReaderWakes ==
  \A i \in Ranuras : (i \in duermen) ~>
     \/ i \notin duermen
     \/ \E j \in Ranuras : fichero[j].cluster # 0 /\ fichero[j].zona # fichero[i].zona

(* What each slot shows: whether it is held, the pieces that may be read,  *)
(* whether hay says that more may come.                                    *)
EnUso == [i \in Ranuras |-> fichero[i].abierto]
Leible == [i \in Ranuras |-> [k \in 1..fichero[i].largo |-> memoria[i][k]]]
Viene == [i \in Ranuras |-> fichero[i].cluster # 0]
Lectores == INSTANCE Carga WITH Trozos <- NTrozos, abierto <- EnUso,
                                leible <- Leible, viene <- Viene

(* Every program sees its file come as Carga says, whoever brings it: the  *)
(* pieces it may read never change and follow one another, a load that     *)
(* ended stays ended, and no step brings a piece or the end of the load    *)
(* without waking who sleeps on it (aplicar, aterrizar, avanzar, soltar).  *)
ReadersSeeTheLoad == Lectores!Spec
=============================================================================
