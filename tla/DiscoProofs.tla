---------------------------- MODULE DiscoProofs -----------------------------
(***************************************************************************)
(* Proofs about Disco, for any number of slots, of orders a file, of pages *)
(* of the FAT and of files opened.                                         *)
(*                                                                         *)
(* The three invariants rest on one account of who holds the order: while  *)
(* it is in the device it is the one EN_VUELO tells of, of a file that is  *)
(* still there; once over, its bytes are in their place before anybody     *)
(* counts them.  The port and the loads are handed about as records, so    *)
(* the invariant is stated of a port P, of loads F and of a flight v.      *)
(***************************************************************************)
EXTENDS Disco, TLAPS

Memorias == [Ranuras -> [1..NTrozos -> 0..NTrozos]]
Aparatos == [estado : {"libre", "curso", "hecho", "fallo"}, orden : Orden,
             dejada : BOOLEAN]
Puertos == [aparato : Aparatos, vuelo : {"nada", "lectura", "vaciar"},
            cosecha : {"nada", "bien", "mal"}, memoria : Memorias]
Ficheros == [ver : Nat, zona : 1..NZonas, abierto : BOOLEAN,
             cluster : 0..NTrozos, largo : 0..NTrozos]
LasCargas == [fichero : [Ranuras -> Ficheros], ventana : 0..NZonas,
              pedida : 0..NZonas, duermen : SUBSET Ranuras]
Vuelos == [clase : {"nada", "datos", "fat"}, i : 0..NRanuras, sig : 0..NTrozos]

(* An order of data names a slot, and puts a piece in the place of that    *)
(* piece (aplicar counts by place, the FAT names the piece).               *)
Ordenada(o) ==
  /\ o \in Orden
  /\ o.que = "datos" => o.i \in Ranuras /\ o.lugar \in 1..NTrozos /\ o.trozo = o.lugar

(* The port between two holders of the disk: with no kind in VUELO it is   *)
(* free or goes on with an order that was given up (cosechar).             *)
PuertoSano(P) ==
  /\ P \in Puertos
  /\ Ordenada(P.aparato.orden)
  /\ P.vuelo = "nada" => P.aparato.estado = "libre" \/ P.aparato.dejada
  /\ P.aparato.dejada => P.vuelo = "nada" /\ P.aparato.estado = "curso"
  /\ P.vuelo = "lectura" => P.cosecha = "nada"
  /\ (P.vuelo = "vaciar" /\ P.aparato.estado = "curso") => P.aparato.orden.que # "datos"

(* A load under way is of an open file and its cluster is the piece that   *)
(* follows what it counts; a closed slot has none.                         *)
CargaSana(F) ==
  /\ F \in LasCargas
  /\ \A i \in Ranuras :
       /\ F.fichero[i].cluster # 0 =>
            F.fichero[i].abierto /\ F.fichero[i].cluster = F.fichero[i].largo + 1
       /\ ~F.fichero[i].abierto => F.fichero[i].cluster = 0 /\ F.fichero[i].largo = 0

(* What F counts is in memory. *)
Contado(P, F) ==
  \A i \in Ranuras : \A k \in 1..F.fichero[i].largo : P.memoria[i][k] = k

(* The piece that comes next in the file of slot i is in memory. *)
Traido(P, F, i) == P.memoria[i][F.fichero[i].cluster] = F.fichero[i].cluster

(* What EN_VUELO tells of the order that is, or was, in the device. *)
VueloSano(P, F, v) ==
  /\ v \in Vuelos
  /\ (v.clase # "nada") <=> (P.vuelo = "lectura" \/ P.cosecha # "nada")
  /\ v.clase # "nada" => v.i \in Ranuras
  /\ v.clase = "datos" =>
       /\ F.fichero[v.i].cluster # 0 /\ v.sig = Siguiente(F.fichero[v.i].cluster)
       /\ (P.vuelo = "lectura" /\ Ocupado(P)) => P.aparato.orden = Datos(F, v.i)
       /\ (P.vuelo = "lectura" /\ P.aparato.estado = "hecho") => Traido(P, F, v.i)
       /\ P.cosecha = "bien" => Traido(P, F, v.i)
  /\ v.clase = "fat" => ((P.vuelo = "lectura" /\ Ocupado(P)) => P.aparato.orden.que = "fat")

Sano(P, F, v) == PuertoSano(P) /\ CargaSana(F) /\ Contado(P, F) /\ VueloSano(P, F, v)

Hilos == [pc : {"lee", "paso", "aparca", "duerme"}, movido : BOOLEAN, plazo : BOOLEAN]

HiloSano ==
  /\ hilo \in Hilos
  /\ ultima \in Ranuras /\ vaciados \in 0..MaxVaciados

IInv == Sano(Puerto, Cargas, en_vuelo) /\ HiloSano

(* F has the files of the state: who opens and closes them, nobody else.   *)
Mismos(F) == \A i \in Ranuras : /\ F.fichero[i].abierto = fichero[i].abierto
                               /\ F.fichero[i].ver = fichero[i].ver

(* No piece that was in its place is lost. *)
Crece(P, Q) == \A i \in Ranuras : \A k \in 1..NTrozos :
                 P.memoria[i][k] = k => Q.memoria[i][k] = k

(* o is of the file that the slot still holds. *)
Vigente(o) == /\ o.que = "datos"
              /\ fichero[o.i].abierto /\ fichero[o.i].ver = o.ver

-----------------------------------------------------------------------------
(* The port *)

LEMMA OrdenesSinDatos ==
  /\ Ordenada(Ninguna)
  /\ \A que \in {"fat", "vaciar", "otra"} : Ordenada(OrdenDe(que)) /\ OrdenDe(que).que = que
  BY DiscoAssumption DEF Ordenada, Ninguna, OrdenDe, Orden

(* Acaba ends the order and touches the memory only as Ordenada allows.    *)
LEMMA AcabaSana ==
  ASSUME NEW P \in Puertos, Ordenada(P.aparato.orden), NEW fin \in {"hecho", "fallo"}
  PROVE  /\ Acaba(P, fin) \in Puertos
         /\ Acaba(P, fin).vuelo = P.vuelo /\ Acaba(P, fin).cosecha = P.cosecha
         /\ Acaba(P, fin).aparato = [estado |-> fin, orden |-> Ninguna, dejada |-> FALSE]
         /\ Crece(P, Acaba(P, fin))
         /\ P.aparato.orden.que # "datos" => Acaba(P, fin).memoria = P.memoria
         /\ (fin = "hecho" /\ Vigente(P.aparato.orden)) =>
              Acaba(P, fin).memoria[P.aparato.orden.i][P.aparato.orden.trozo]
                 = P.aparato.orden.trozo
<1> DEFINE o == P.aparato.orden
           M == [P.memoria EXCEPT ![o.i][o.lugar] = o.trozo]
<1>1. o.que = "datos" => M \in Memorias
  BY DEF Puertos, Memorias, Ordenada, Orden
<1>2. Ninguna \in Orden
  BY OrdenesSinDatos DEF Ordenada
<1>3. o.que = "datos" => /\ M[o.i][o.trozo] = o.trozo
                         /\ \A i \in Ranuras : \A k \in 1..NTrozos :
                              P.memoria[i][k] = k => M[i][k] = k
  BY DEF Puertos, Memorias, Ordenada
<1>4. Acaba(P, fin).memoria = IF fin = "hecho" /\ Vigente(o) THEN M ELSE P.memoria
  BY DEF Acaba, Vigente, Puertos
<1> DEFINE a == [estado |-> fin, orden |-> Ninguna, dejada |-> FALSE]
           m == IF fin = "hecho" /\ Vigente(o) THEN M ELSE P.memoria
<1>5. Acaba(P, fin) = [P EXCEPT !.aparato = a, !.memoria = m]
  BY DEF Acaba, Vigente
<1>6. m \in Memorias
  BY <1>1 DEF Vigente, Puertos
<1>7. a \in Aparatos
  BY <1>2 DEF Aparatos
<1> HIDE DEF a, m
<1>8. /\ Acaba(P, fin) \in Puertos
      /\ Acaba(P, fin).vuelo = P.vuelo /\ Acaba(P, fin).cosecha = P.cosecha
      /\ Acaba(P, fin).aparato = a
  BY <1>5, <1>6, <1>7 DEF Puertos
<1> QED
  BY <1>3, <1>4, <1>8 DEF Crece, Vigente, a

LEMMA CreceContado ==
  ASSUME NEW P \in Puertos, NEW Q \in Puertos, Crece(P, Q), NEW F, CargaSana(F)
  PROVE  /\ Contado(P, F) => Contado(Q, F)
         /\ \A i \in Ranuras : (F.fichero[i].cluster # 0 /\ Traido(P, F, i)) => Traido(Q, F, i)
<1>1. \A i \in Ranuras : F.fichero[i] \in Ficheros
  BY DEF CargaSana, LasCargas
<1>2. \A i \in Ranuras : /\ F.fichero[i].largo \in 0..NTrozos
                         /\ F.fichero[i].cluster \in 0..NTrozos
  BY <1>1 DEF Ficheros
<1>3. Contado(P, F) => Contado(Q, F)
  BY <1>2, DiscoAssumption DEF Contado, Crece
<1>4. \A i \in Ranuras : (F.fichero[i].cluster # 0 /\ Traido(P, F, i)) => Traido(Q, F, i)
  BY <1>2, DiscoAssumption DEF Traido, Crece
<1> QED
  BY <1>3, <1>4

LEMMA AterrizadaSana ==
  ASSUME NEW P \in Puertos
  PROVE  /\ Aterrizada(P) \in Puertos
         /\ Aterrizada(P).aparato = Ocioso /\ Aterrizada(P).vuelo = "nada"
         /\ Aterrizada(P).cosecha = P.cosecha /\ Aterrizada(P).memoria = P.memoria
<1>1. Ocioso \in Aparatos
  BY OrdenesSinDatos DEF Ocioso, Aparatos, Ordenada
<1> QED
  BY <1>1 DEF Aterrizada, Puertos, Aparatos

LEMMA ConCosecha ==
  ASSUME NEW P \in Puertos, NEW c \in {"nada", "bien", "mal"}
  PROVE  /\ [P EXCEPT !.cosecha = c] \in Puertos
         /\ [P EXCEPT !.cosecha = c].aparato = P.aparato
         /\ [P EXCEPT !.cosecha = c].vuelo = P.vuelo
         /\ [P EXCEPT !.cosecha = c].cosecha = c
         /\ [P EXCEPT !.cosecha = c].memoria = P.memoria
  BY DEF Puertos

LEMMA DejadaSana ==
  ASSUME NEW o, Ordenada(o)
  PROVE  /\ Dejada(o) \in Aparatos /\ Ordenada(Dejada(o).orden)
         /\ Dejada(o).dejada /\ Dejada(o).estado = "curso"
  BY OrdenesSinDatos DEF Dejada, Aparatos, Ordenada

(* How the order of the device ends, seen from its flight. *)
LEMMA FinalSano ==
  ASSUME NEW P, NEW F, NEW v, Sano(P, F, v), Mismos(F), P.vuelo # "nada",
         NEW R \in Finales(P)
  PROVE  /\ R \in Puertos /\ R.vuelo = P.vuelo /\ R.cosecha = P.cosecha /\ Crece(P, R)
         /\ Contado(R, F)
         /\ (v.clase = "datos" /\ P.vuelo = "lectura" /\ Resultado(R) = "bien") =>
              Traido(R, F, v.i)
         /\ (v.clase = "datos" /\ P.cosecha = "bien") => Traido(R, F, v.i)
<1> USE DEF Sano
<1>1. P \in Puertos /\ Ordenada(P.aparato.orden) /\ CargaSana(F) /\ Contado(P, F)
  BY DEF PuertoSano
<1>2. CASE ~Ocupado(P)
  <2>1. R = P
    BY <1>2 DEF Finales
  <2> QED
    BY <1>1, <1>2, <2>1 DEF Crece, Resultado, VueloSano
<1>3. CASE Ocupado(P)
  <2>1. PICK fin \in {"hecho", "fallo"} : R = Acaba(P, fin)
    BY <1>3 DEF Finales
  <2>2. /\ R \in Puertos /\ R.vuelo = P.vuelo /\ R.cosecha = P.cosecha /\ Crece(P, R)
        /\ Resultado(R) = "bien" => fin = "hecho"
    BY <1>1, <2>1, AcabaSana DEF Resultado
  <2>3. Contado(R, F)
    BY <1>1, <2>2, CreceContado
  <2>4. ASSUME v.clase = "datos"
        PROVE  /\ v.i \in Ranuras /\ F.fichero[v.i].cluster # 0
               /\ P.vuelo = "lectura" => P.aparato.orden = Datos(F, v.i)
               /\ P.cosecha = "bien" => Traido(P, F, v.i)
    BY <1>3, <2>4 DEF VueloSano
  <2>5. ASSUME v.clase = "datos", P.cosecha = "bien"
        PROVE  Traido(R, F, v.i)
    BY <1>1, <2>2, <2>4, <2>5, CreceContado
  <2>6. ASSUME v.clase = "datos", P.vuelo = "lectura", Resultado(R) = "bien"
        PROVE  Traido(R, F, v.i)
    <3>1. F.fichero[v.i].abierto
      BY <2>4, <2>6 DEF CargaSana
    <3>2. /\ P.aparato.orden = Datos(F, v.i) /\ Vigente(P.aparato.orden)
          /\ P.aparato.orden.i = v.i /\ P.aparato.orden.trozo = F.fichero[v.i].cluster
      BY <2>4, <2>6, <3>1 DEF Datos, Vigente, Mismos
    <3> QED
      BY <1>1, <2>1, <2>2, <2>6, <3>2, AcabaSana DEF Traido
  <2> QED
    BY <2>2, <2>3, <2>5, <2>6
<1> QED
  BY <1>2, <1>3

(* cosechar: whoever takes the disk finds what EN_VUELO tells of over and, *)
(* if it went well, its bytes in their place.                              *)
LEMMA CosechaSana ==
  ASSUME NEW P, NEW F, NEW v, Sano(P, F, v), Mismos(F), NEW Q \in Cosechados(P)
  PROVE  Sano(Q, F, v) /\ Q.vuelo = "nada"
<1>1. P \in Puertos /\ Ordenada(P.aparato.orden) /\ CargaSana(F) /\ Contado(P, F)
  BY DEF Sano, PuertoSano
<1>2. CASE P.vuelo = "nada"
  BY <1>2 DEF Cosechados
<1>3. ASSUME P.vuelo # "nada", NEW R \in Finales(P),
             Q = [Aterrizada(R) EXCEPT !.cosecha = DeQuienEs(P, Resultado(R))]
      PROVE  Sano(Q, F, v) /\ Q.vuelo = "nada"
  <2>1. /\ R \in Puertos /\ R.vuelo = P.vuelo /\ R.cosecha = P.cosecha /\ Crece(P, R)
        /\ Contado(R, F)
        /\ (v.clase = "datos" /\ P.vuelo = "lectura" /\ Resultado(R) = "bien") =>
             Traido(R, F, v.i)
        /\ (v.clase = "datos" /\ P.cosecha = "bien") => Traido(R, F, v.i)
    BY <1>3, FinalSano
  <2> DEFINE c == DeQuienEs(P, Resultado(R))
  <2>2. /\ c \in {"nada", "bien", "mal"}
        /\ P.vuelo = "lectura" => c = Resultado(R) /\ c # "nada"
        /\ P.vuelo # "lectura" => c = P.cosecha
    BY <1>1 DEF DeQuienEs, Resultado, Puertos
  <2> HIDE DEF c
  <2>3. /\ Q \in Puertos /\ Q.aparato = Ocioso /\ Q.vuelo = "nada"
        /\ Q.cosecha = c /\ Q.memoria = R.memoria
    <3> DEFINE S == Aterrizada(R)
    <3>1. /\ S \in Puertos /\ S.aparato = Ocioso /\ S.vuelo = "nada" /\ S.memoria = R.memoria
      BY <2>1, AterrizadaSana
    <3>2. Q = [S EXCEPT !.cosecha = c]
      BY <1>3 DEF c
    <3> HIDE DEF S
    <3> QED
      BY <2>2, <3>1, <3>2 DEF Puertos
  <2>4. PuertoSano(Q) /\ Contado(Q, F)
    BY <2>1, <2>3, OrdenesSinDatos DEF PuertoSano, Ocioso, Contado
  <2>5. VueloSano(Q, F, v)
    <3>1. VueloSano(P, F, v)
      BY DEF Sano
    <3> QED
      BY <3>1, <2>1, <2>2, <2>3 DEF VueloSano, Traido
  <2> QED
    BY <1>1, <2>3, <2>4, <2>5 DEF Sano
<1>4. ASSUME P.vuelo # "nada", Ocupado(P),
             Q = [P EXCEPT !.vuelo = "nada", !.aparato = Dejada(P.aparato.orden),
                           !.cosecha = DeQuienEs(P, "mal")]
      PROVE  Sano(Q, F, v) /\ Q.vuelo = "nada"
  <2> DEFINE c == DeQuienEs(P, "mal")
             a == Dejada(P.aparato.orden)
  <2>1. /\ c \in {"nada", "bien", "mal"}
        /\ P.vuelo = "lectura" => c = "mal"
        /\ P.vuelo # "lectura" => c = P.cosecha
    BY <1>1 DEF DeQuienEs, Puertos
  <2>2. a \in Aparatos /\ Ordenada(a.orden) /\ a.dejada /\ a.estado = "curso"
    BY <1>1, DejadaSana
  <2>3. Q = [P EXCEPT !.vuelo = "nada", !.aparato = a, !.cosecha = c]
    BY <1>4
  <2> HIDE DEF a, c
  <2>4. /\ Q.aparato = a /\ Q.vuelo = "nada" /\ Q.cosecha = c /\ Q.memoria = P.memoria
        /\ Q \in Puertos
    <3>1. Q = [aparato |-> a, vuelo |-> "nada", cosecha |-> c, memoria |-> P.memoria]
      BY <1>1, <2>3 DEF Puertos
    <3> QED
      BY <1>1, <2>1, <2>2, <3>1 DEF Puertos
  <2>5. PuertoSano(Q) /\ Contado(Q, F)
    BY <1>1, <2>2, <2>4 DEF PuertoSano, Contado
  <2>6. VueloSano(Q, F, v)
    <3>1. VueloSano(P, F, v)
      BY DEF Sano
    <3> QED
      BY <3>1, <2>1, <2>4 DEF VueloSano, Traido
  <2> QED
    BY <1>1, <2>4, <2>5, <2>6 DEF Sano
<1> QED
  BY <1>2, <1>3, <1>4 DEF Cosechados

(* esperar, of who has a flight: the port is left without it. *)
LEMMA EsperaSana ==
  ASSUME NEW P, NEW F, NEW v, Sano(P, F, v), Mismos(F), v.clase # "nada",
         NEW e \in Esperados(P)
  PROVE  /\ PuertoSano(e.puerto) /\ Contado(e.puerto, F)
         /\ e.puerto.vuelo = "nada" /\ e.puerto.cosecha = "nada"
         /\ e.r \in {"bien", "mal"}
         /\ (e.r = "bien" /\ v.clase = "datos") => Traido(e.puerto, F, v.i)
<1>1. ~(P.vuelo # "lectura" /\ P.cosecha = "nada")
  BY DEF Sano, VueloSano
<1>2. PICK Q \in Cosechados(P) : e = [puerto |-> [Q EXCEPT !.cosecha = "nada"], r |-> Q.cosecha]
  BY <1>1 DEF Esperados
<1>3. Sano(Q, F, v) /\ Q.vuelo = "nada"
  BY CosechaSana
<1>4. Q \in Puertos
  BY <1>3 DEF Sano, PuertoSano
<1>5. /\ e.r = Q.cosecha
      /\ e.puerto \in Puertos /\ e.puerto.aparato = Q.aparato /\ e.puerto.vuelo = Q.vuelo
      /\ e.puerto.cosecha = "nada" /\ e.puerto.memoria = Q.memoria
  BY <1>2, <1>4, ConCosecha
<1>6. /\ Q.cosecha \in {"bien", "mal"}
      /\ (Q.cosecha = "bien" /\ v.clase = "datos") => Traido(Q, F, v.i)
  BY <1>3, <1>4 DEF Sano, VueloSano, Puertos
<1> QED
  BY <1>3, <1>5, <1>6 DEF Sano, PuertoSano, Contado, Traido

(* run_command: an order of who has the disk. *)
LEMMA OrdenSana ==
  ASSUME NEW P, NEW F, NEW v, Sano(P, F, v), Mismos(F), P.vuelo = "nada",
         NEW o, Ordenada(o), NEW e \in Ordenes(P, o)
  PROVE  /\ Sano(e.puerto, F, v) /\ e.puerto.vuelo = "nada"
         /\ e.puerto.cosecha = P.cosecha /\ Crece(P, e.puerto)
         /\ e.ok => e.puerto.aparato = Ocioso
         /\ (e.ok /\ Vigente(o)) => e.puerto.memoria[o.i][o.trozo] = o.trozo
<1>1. P \in Puertos /\ CargaSana(F) /\ Contado(P, F) /\ VueloSano(P, F, v)
  BY DEF Sano, PuertoSano
<1>2. ASSUME NEW a \in Aparatos, Ordenada(a.orden), a = Ocioso \/ (a.dejada /\ a.estado = "curso"),
             e.puerto \in Puertos, e.puerto.aparato = a, e.puerto.vuelo = "nada",
             e.puerto.cosecha = P.cosecha, Crece(P, e.puerto)
      PROVE  Sano(e.puerto, F, v)
  <2>1. PuertoSano(e.puerto)
    BY <1>2 DEF PuertoSano, Ocioso
  <2>2. Contado(e.puerto, F)
    BY <1>1, <1>2, CreceContado
  <2>3. VueloSano(e.puerto, F, v)
    BY <1>1, <1>2, CreceContado DEF VueloSano
  <2> QED
    BY <1>1, <2>1, <2>2, <2>3 DEF Sano
<1>3. CASE e = [puerto |-> P, ok |-> FALSE]
  BY <1>3 DEF Crece
<1>4. ASSUME NEW fin \in {"hecho", "fallo"},
             e = [puerto |-> [Acaba([P EXCEPT !.aparato = EnMarcha(o)], fin)
                                EXCEPT !.aparato = Ocioso],
                  ok |-> fin = "hecho"]
      PROVE  /\ Sano(e.puerto, F, v) /\ e.puerto.vuelo = "nada"
             /\ e.puerto.cosecha = P.cosecha /\ Crece(P, e.puerto)
             /\ e.puerto.aparato = Ocioso
             /\ (e.ok /\ Vigente(o)) => e.puerto.memoria[o.i][o.trozo] = o.trozo
  <2> DEFINE Q == [P EXCEPT !.aparato = EnMarcha(o)]
             R == Acaba(Q, fin)
  <2>1. EnMarcha(o) \in Aparatos /\ EnMarcha(o).orden = o
    BY DEF EnMarcha, Aparatos, Ordenada
  <2>2. /\ Q \in Puertos /\ Q.aparato.orden = o /\ Q.vuelo = "nada"
        /\ Q.cosecha = P.cosecha /\ Q.memoria = P.memoria
    BY <1>1, <2>1 DEF Puertos
  <2> HIDE DEF Q
  <2>3. /\ R \in Puertos /\ R.vuelo = "nada" /\ R.cosecha = P.cosecha /\ Crece(P, R)
        /\ (fin = "hecho" /\ Vigente(o)) => R.memoria[o.i][o.trozo] = o.trozo
    BY <2>2, AcabaSana DEF Crece
  <2>4. e = [puerto |-> [R EXCEPT !.aparato = Ocioso], ok |-> fin = "hecho"]
    BY <1>4 DEF Q
  <2> HIDE DEF R
  <2>5. Ocioso \in Aparatos /\ Ordenada(Ocioso.orden)
    BY OrdenesSinDatos DEF Ocioso, Aparatos, Ordenada
  <2>6. /\ e.puerto \in Puertos /\ e.puerto.aparato = Ocioso /\ e.puerto.vuelo = "nada"
        /\ e.puerto.cosecha = P.cosecha /\ e.puerto.memoria = R.memoria
        /\ e.ok <=> fin = "hecho"
    BY <2>3, <2>4, <2>5 DEF Puertos
  <2>7. Crece(P, e.puerto)
    BY <2>3, <2>6 DEF Crece
  <2> QED
    BY <1>2, <2>3, <2>5, <2>6, <2>7
<1>5. ASSUME e = [puerto |-> [P EXCEPT !.aparato = Dejada(o)], ok |-> FALSE]
      PROVE  /\ Sano(e.puerto, F, v) /\ e.puerto.vuelo = "nada"
             /\ e.puerto.cosecha = P.cosecha /\ Crece(P, e.puerto) /\ ~e.ok
  <2> DEFINE a == Dejada(o)
  <2>1. a \in Aparatos /\ Ordenada(a.orden) /\ a.dejada /\ a.estado = "curso"
    BY DejadaSana
  <2>2. e = [puerto |-> [P EXCEPT !.aparato = a], ok |-> FALSE]
    BY <1>5
  <2> HIDE DEF a
  <2>3. /\ e.puerto \in Puertos /\ e.puerto.aparato = a /\ e.puerto.vuelo = "nada"
        /\ e.puerto.cosecha = P.cosecha /\ e.puerto.memoria = P.memoria /\ ~e.ok
    BY <1>1, <2>1, <2>2 DEF Puertos
  <2>4. Crece(P, e.puerto)
    BY <2>3 DEF Crece
  <2> QED
    BY <1>2, <2>1, <2>3, <2>4
<1> QED
  BY <1>3, <1>4, <1>5 DEF Ordenes

-----------------------------------------------------------------------------
(* The loads *)

(* A record of a slot that a load may be in. *)
FichaSana(f) ==
  /\ f \in Ficheros
  /\ f.cluster # 0 => f.abierto /\ f.cluster = f.largo + 1
  /\ ~f.abierto => f.cluster = 0 /\ f.largo = 0

LEMMA CambiaFicha ==
  ASSUME NEW F, CargaSana(F), NEW i \in Ranuras, NEW f, FichaSana(f),
         NEW G \in LasCargas, G.fichero = [F.fichero EXCEPT ![i] = f]
  PROVE  /\ CargaSana(G)
         /\ \A j \in Ranuras \ {i} : G.fichero[j] = F.fichero[j]
         /\ G.fichero[i] = f
         /\ \A P : (Contado(P, F) /\ \A k \in 1..f.largo : P.memoria[i][k] = k) => Contado(P, G)
<1>1. F.fichero \in [Ranuras -> Ficheros]
  BY DEF CargaSana, LasCargas
<1>2. /\ \A j \in Ranuras \ {i} : G.fichero[j] = F.fichero[j]
      /\ G.fichero[i] = f
  BY <1>1
<1>3. CargaSana(G)
  BY <1>2 DEF CargaSana, FichaSana
<1>4. \A P : (Contado(P, F) /\ \A k \in 1..f.largo : P.memoria[i][k] = k) => Contado(P, G)
  BY <1>2 DEF Contado
<1> QED
  BY <1>2, <1>3, <1>4

(* aplicar counts a piece that is in memory, or cuts the file. *)
LEMMA AplicaSana ==
  ASSUME NEW F, CargaSana(F), NEW P, Contado(P, F), NEW i \in Ranuras, NEW r, NEW sig,
         r = "bien" => /\ F.fichero[i].cluster # 0 /\ Traido(P, F, i)
                       /\ sig = Siguiente(F.fichero[i].cluster)
  PROVE  /\ CargaSana(Aplica(F, i, r, sig)) /\ Contado(P, Aplica(F, i, r, sig))
         /\ Mismos(F) => Mismos(Aplica(F, i, r, sig))
<1> DEFINE g == F.fichero[i]
           f == Aplicada(g, r, sig)
           G == Aplica(F, i, r, sig)
<1>1. /\ F \in LasCargas /\ g \in Ficheros
      /\ g.cluster # 0 => g.abierto /\ g.cluster = g.largo + 1
      /\ ~g.abierto => g.cluster = 0 /\ g.largo = 0
  BY DEF CargaSana, LasCargas
<1>2. /\ r = "bien" => f = [g EXCEPT !.largo = @ + 1,
                             !.cluster = IF g.largo + 1 >= NTrozos THEN 0 ELSE sig]
      /\ r # "bien" => f = [g EXCEPT !.cluster = 0]
  BY DEF Aplicada
<1>3. G = [F EXCEPT !.fichero[i] = f, !.duermen = @ \ {i}]
  BY DEF Aplica
<1> HIDE DEF f, G
<1>4. ASSUME r = "bien"
      PROVE  /\ FichaSana(f) /\ f.abierto = g.abierto /\ f.ver = g.ver
             /\ \A k \in 1..f.largo : P.memoria[i][k] = k
  <2> DEFINE c == IF g.largo + 1 >= NTrozos THEN 0 ELSE sig
  <2>1. g.cluster # 0 /\ sig = Siguiente(g.cluster)
    BY <1>4
  <2>2. /\ g.largo \in 0..NTrozos /\ g.cluster \in 0..NTrozos /\ NTrozos \in Nat
        /\ g.cluster = g.largo + 1
    BY <1>1, <2>1, DiscoAssumption DEF Ficheros
  <2>3. g.largo + 1 \in 0..NTrozos /\ c \in 0..NTrozos /\ (c # 0 => c = g.largo + 1 + 1)
    BY <2>1, <2>2 DEF Siguiente
  <2>4. f = [g EXCEPT !.largo = g.largo + 1, !.cluster = c]
    BY <1>4, <1>2
  <2> HIDE DEF c
  <2>5. /\ f \in Ficheros /\ f.largo = g.largo + 1 /\ f.cluster = c
        /\ f.abierto = g.abierto /\ f.ver = g.ver
    BY <1>1, <2>3, <2>4 DEF Ficheros
  <2>6. FichaSana(f)
    BY <1>1, <2>1, <2>3, <2>5 DEF FichaSana
  <2>7. \A k \in 1..f.largo : P.memoria[i][k] = k
    <3>1. P.memoria[i][g.largo + 1] = g.largo + 1
      BY <1>4, <2>2 DEF Traido
    <3>2. \A k \in 1..g.largo : P.memoria[i][k] = k
      BY DEF Contado
    <3> QED
      BY <2>2, <2>5, <3>1, <3>2
  <2> QED
    BY <2>5, <2>6, <2>7
<1>5. ASSUME r # "bien"
      PROVE  /\ FichaSana(f) /\ f.abierto = g.abierto /\ f.ver = g.ver
             /\ \A k \in 1..f.largo : P.memoria[i][k] = k
  <2>1. f = [g EXCEPT !.cluster = 0]
    BY <1>5, <1>2
  <2>2. /\ f \in Ficheros /\ f.largo = g.largo /\ f.cluster = 0
        /\ f.abierto = g.abierto /\ f.ver = g.ver
    BY <1>1, <2>1, DiscoAssumption DEF Ficheros
  <2> QED
    BY <1>1, <2>2 DEF FichaSana, Contado
<1>6. FichaSana(f) /\ f.abierto = g.abierto /\ f.ver = g.ver
      /\ \A k \in 1..f.largo : P.memoria[i][k] = k
  BY <1>4, <1>5
<1>7. /\ G \in LasCargas /\ G.fichero = [F.fichero EXCEPT ![i] = f]
  BY <1>1, <1>6, <1>3 DEF LasCargas, FichaSana
<1>8. CargaSana(G) /\ Contado(P, G) /\ G.fichero[i] = f
      /\ \A j \in Ranuras \ {i} : G.fichero[j] = F.fichero[j]
  BY <1>6, <1>7, CambiaFicha, ZenonT(60)
<1>9. Mismos(F) => Mismos(G)
  BY <1>6, <1>8 DEF Mismos
<1> QED
  BY <1>8, <1>9 DEF G

(* aterrizar: what a flight that is over does to the loads. *)
LEMMA LlegaSana ==
  ASSUME NEW P, NEW Q, NEW F, NEW v, CargaSana(F), Mismos(F), Contado(Q, F), VueloSano(P, F, v),
         NEW r, (r = "bien" /\ v.clase = "datos") => Traido(Q, F, v.i)
  PROVE  CargaSana(Llega(F, v, r)) /\ Contado(Q, Llega(F, v, r)) /\ Mismos(Llega(F, v, r))
<1>1. v.clase \in {"nada", "datos", "fat"}
  BY DEF VueloSano, Vuelos
<1>2. CASE v.clase = "nada"
  BY <1>2 DEF Llega
<1>3. CASE v.clase = "datos"
  <2>1. Llega(F, v, r) = Aplica(F, v.i, r, v.sig)
    BY <1>3 DEF Llega
  <2>2. v.i \in Ranuras /\ F.fichero[v.i].cluster # 0 /\ v.sig = Siguiente(F.fichero[v.i].cluster)
    BY <1>3 DEF VueloSano
  <2> QED
    BY <1>3, <2>1, <2>2, AplicaSana
<1>4. CASE v.clase = "fat"
  <2> DEFINE w == IF r = "bien" THEN F.pedida ELSE NoHay
             G == [F EXCEPT !.ventana = w, !.pedida = NoHay]
  <2>1. v.i \in Ranuras
    BY <1>4 DEF VueloSano
  <2>2. F \in LasCargas /\ w \in 0..NZonas /\ NoHay \in 0..NZonas
    BY DiscoAssumption DEF CargaSana, LasCargas, NoHay
  <2> HIDE DEF w
  <2>3. G \in LasCargas /\ G.fichero = F.fichero
    BY <2>2 DEF LasCargas
  <2>4. Llega(F, v, r) = IF r = "bien" THEN G ELSE Aplica(G, v.i, r, 0)
    BY <1>4 DEF Llega, w
  <2> HIDE DEF G
  <2>5. CargaSana(G) /\ Contado(Q, G) /\ Mismos(G)
    BY <2>3 DEF CargaSana, Contado, Mismos
  <2> QED
    BY <2>1, <2>4, <2>5, AplicaSana
<1> QED
  BY <1>1, <1>2, <1>3, <1>4

-----------------------------------------------------------------------------
(* The flight is closed, by a system call or by the thread *)

LEMMA Campos ==
  /\ Puerto.aparato = aparato /\ Puerto.vuelo = vuelo
  /\ Puerto.cosecha = cosecha /\ Puerto.memoria = memoria
  /\ Cargas.fichero = fichero /\ Cargas.ventana = ventana
  /\ Cargas.pedida = pedida /\ Cargas.duermen = duermen
  /\ Mismos(Cargas)
  BY DEF Puerto, Cargas, Mismos

LEMMA SinVueloSano ==
  ASSUME NEW P, PuertoSano(P), NEW F, CargaSana(F), Contado(P, F),
         P.vuelo # "lectura", P.cosecha = "nada"
  PROVE  Sano(P, F, SinVuelo)
<1>1. SinVuelo \in Vuelos
  BY DiscoAssumption DEF SinVuelo, Vuelos
<1> QED
  BY <1>1 DEF Sano, VueloSano, SinVuelo

(* cerrar_vuelo leaves no flight, whoever finished it. *)
LEMMA CierraSano ==
  ASSUME IInv, NEW c \in CerrarVuelo(en_vuelo)
  PROVE  Sano(c.puerto, c.cargas, SinVuelo) /\ Mismos(c.cargas)
<1>1. Sano(Puerto, Cargas, en_vuelo) /\ Mismos(Cargas)
  BY Campos DEF IInv
<1>2. CASE en_vuelo.clase = "nada"
  <2>1. c.puerto = Puerto /\ c.cargas = Cargas
    BY <1>2 DEF CerrarVuelo
  <2>2. Puerto.vuelo # "lectura" /\ Puerto.cosecha = "nada"
    BY <1>1, <1>2 DEF Sano, VueloSano
  <2> QED
    BY <1>1, <2>1, <2>2, SinVueloSano DEF Sano
<1>3. CASE en_vuelo.clase # "nada"
  <2>1. PICK e \in Esperados(Puerto) :
          c = [puerto |-> e.puerto, cargas |-> Llega(Cargas, en_vuelo, e.r)]
    BY <1>3 DEF CerrarVuelo
  <2>2. /\ PuertoSano(e.puerto) /\ Contado(e.puerto, Cargas)
        /\ e.puerto.vuelo = "nada" /\ e.puerto.cosecha = "nada"
        /\ (e.r = "bien" /\ en_vuelo.clase = "datos") => Traido(e.puerto, Cargas, en_vuelo.i)
    BY <1>1, <1>3, EsperaSana
  <2>3. CargaSana(c.cargas) /\ Contado(e.puerto, c.cargas) /\ Mismos(c.cargas)
    BY <1>1, <2>1, <2>2, LlegaSana DEF Sano
  <2> QED
    BY <2>1, <2>2, <2>3, SinVueloSano
<1> QED
  BY <1>2, <1>3

(* mirar, after vaciado_en_vuelo: the thread goes on only when its order   *)
(* is over, by whoever finished it.                                        *)
LEMMA MiradoSano ==
  ASSUME IInv, ~EnCurso
  PROVE  /\ PuertoSano(Mirado.puerto) /\ Contado(Mirado.puerto, Cargas)
         /\ Mirado.puerto.vuelo = "nada" /\ Mirado.puerto.cosecha = "nada"
         /\ (Mirado.r = "bien" /\ en_vuelo.clase = "datos") =>
              Traido(Mirado.puerto, Cargas, en_vuelo.i)
<1> DEFINE P == TrasVaciado
<1>1. Sano(Puerto, Cargas, en_vuelo) /\ Puerto \in Puertos
  BY DEF IInv, Sano, PuertoSano
<1>2. /\ P \in Puertos /\ P.cosecha = cosecha /\ P.memoria = memoria
      /\ P = Puerto \/ (P.aparato = Ocioso /\ P.vuelo = "nada" /\ vuelo = "vaciar")
      /\ P.vuelo # "vaciar"
  BY <1>1, Campos, AterrizadaSana DEF TrasVaciado, Puertos
<1>3. PuertoSano(P)
  BY <1>1, <1>2, OrdenesSinDatos DEF Sano, PuertoSano, Ocioso
<1>4. Contado(P, Cargas)
  BY <1>1, <1>2, Campos DEF Sano, Contado
<1>5. CASE en_vuelo.clase = "nada"
  <2>1. vuelo # "lectura" /\ cosecha = "nada"
    BY <1>1, <1>5, Campos DEF Sano, VueloSano
  <2>2. Mirado = [puerto |-> P, r |-> "nada"]
    BY <1>2, <1>5, <2>1, Campos DEF Mirado
  <2>3. P.vuelo = "nada" /\ P.cosecha = "nada"
    BY <1>2, <2>1, Campos DEF Puertos
  <2>4. Mirado.puerto = P /\ Mirado.r = "nada"
    BY <2>2
  <2> QED
    BY <1>3, <1>4, <2>3, <2>4
<1>6. CASE en_vuelo.clase # "nada" /\ cosecha # "nada"
  <2> DEFINE Q == [P EXCEPT !.cosecha = "nada"]
  <2>1. P.vuelo = "nada"
    BY <1>2, <1>3, <1>6 DEF PuertoSano, Puertos
  <2>2. Mirado = [puerto |-> Q, r |-> cosecha]
    BY <1>2, <1>6, <2>1 DEF Mirado
  <2>3. /\ Q \in Puertos /\ Q.aparato = P.aparato /\ Q.vuelo = P.vuelo
        /\ Q.cosecha = "nada" /\ Q.memoria = P.memoria
    BY <1>2, ConCosecha
  <2>4. PuertoSano(Q) /\ Contado(Q, Cargas)
    BY <1>3, <1>4, <2>1, <2>3 DEF PuertoSano, Contado
  <2>5. (cosecha = "bien" /\ en_vuelo.clase = "datos") => Traido(Q, Cargas, en_vuelo.i)
    BY <1>1, <1>2, <2>3, Campos DEF Sano, VueloSano, Traido
  <2> HIDE DEF Q
  <2>6. Mirado.puerto = Q /\ Mirado.r = cosecha
    BY <2>2
  <2> QED
    BY <2>1, <2>3, <2>4, <2>5, <2>6
<1>7. CASE en_vuelo.clase # "nada" /\ cosecha = "nada"
  <2>1. vuelo = "lectura" /\ P = Puerto
    BY <1>1, <1>2, <1>7, Campos DEF Sano, VueloSano
  <2>2. Mirado = [puerto |-> Aterrizada(Puerto), r |-> Resultado(Puerto)]
    BY <1>7, <2>1, Campos DEF Mirado
  <2>3. ~Ocupado(Puerto)
    BY <1>7, <2>1 DEF EnCurso
  <2>4. /\ Mirado.puerto \in Puertos
        /\ Mirado.puerto.aparato = Ocioso /\ Mirado.puerto.vuelo = "nada"
        /\ Mirado.puerto.cosecha = "nada" /\ Mirado.puerto.memoria = memoria
    BY <1>1, <1>7, <2>2, AterrizadaSana, Campos
  <2>5. PuertoSano(Mirado.puerto) /\ Contado(Mirado.puerto, Cargas)
    BY <1>2, <1>4, <2>4, OrdenesSinDatos DEF PuertoSano, Ocioso, Contado
  <2>6. (Mirado.r = "bien" /\ en_vuelo.clase = "datos") =>
          Traido(Mirado.puerto, Cargas, en_vuelo.i)
    BY <1>1, <2>1, <2>2, <2>4, Campos DEF Sano, VueloSano, Traido, Resultado
  <2> QED
    BY <2>4, <2>5, <2>6
<1> QED
  BY <1>5, <1>6, <1>7

LEMMA TrasSano ==
  ASSUME IInv, ~EnCurso
  PROVE  Sano(Tras.puerto, Tras.cargas, SinVuelo) /\ Tras.puerto.vuelo = "nada"
<1>1. /\ PuertoSano(Mirado.puerto) /\ Contado(Mirado.puerto, Cargas)
      /\ Mirado.puerto.vuelo = "nada" /\ Mirado.puerto.cosecha = "nada"
      /\ (Mirado.r = "bien" /\ en_vuelo.clase = "datos") =>
           Traido(Mirado.puerto, Cargas, en_vuelo.i)
  BY MiradoSano
<1>2. /\ Tras.puerto = Mirado.puerto
      /\ Tras.cargas = Llega(Cargas, en_vuelo, Mirado.r)
  BY DEF Tras
<1>3. CargaSana(Tras.cargas) /\ Contado(Tras.puerto, Tras.cargas)
  BY <1>1, <1>2, LlegaSana, Campos DEF IInv, Sano
<1> QED
  BY <1>1, <1>2, <1>3, SinVueloSano

-----------------------------------------------------------------------------
(* The steps *)

LEMMA QuedaEs ==
  /\ \A P \in Puertos : QuedaPuerto(P) => Puerto' = P
  /\ \A F \in LasCargas : QuedaCargas(F) => Cargas' = F
  /\ UNCHANGED puerto => Puerto' = Puerto
  /\ UNCHANGED cargas => Cargas' = Cargas
  BY DEF QuedaPuerto, QuedaCargas, Puertos, LasCargas, Puerto, Cargas, puerto, cargas

LEMMA Sigue ==
  ASSUME NEW P, NEW F, NEW v, Sano(P, F, v),
         Puerto' = P, Cargas' = F, en_vuelo' = v, HiloSano'
  PROVE  IInv'
  BY DEF IInv, Sano, PuertoSano, CargaSana, Contado, VueloSano, Traido, Ocupado, Datos,
         Siguiente, Ordenada

(* A flight does not feel what is done to other slots. *)
LEMMA VueloQueda ==
  ASSUME NEW P, NEW F, NEW v, VueloSano(P, F, v), NEW Q, NEW G,
         Q.aparato = P.aparato, Q.vuelo = P.vuelo, Q.cosecha = P.cosecha,
         v.clase = "datos" => /\ G.fichero[v.i] = F.fichero[v.i]
                              /\ Q.memoria[v.i] = P.memoria[v.i]
  PROVE  VueloSano(Q, G, v)
  BY DEF VueloSano, Traido, Datos, Ocupado

LEMMA AvisadoSano ==
  ASSUME HiloSano
  PROVE  /\ Avisado \in Hilos
         /\ Despierto \in Hilos
  BY DEF HiloSano, Hilos, Avisado, Despierto

LEMMA InitIInv == Init => IInv
<1> SUFFICES ASSUME Init PROVE IInv
  OBVIOUS
<1>1. /\ Ocioso \in Aparatos /\ Ordenada(Ocioso.orden)
      /\ Ocioso.estado = "libre" /\ ~Ocioso.dejada
  BY OrdenesSinDatos DEF Ocioso, Aparatos, Ordenada
<1>2. Vacio \in [1..NTrozos -> 0..NTrozos]
  BY DiscoAssumption DEF Vacio
<1>3. Puerto \in Puertos
  BY <1>1, <1>2 DEF Init, Puerto, Puertos, Memorias
<1>4. PuertoSano(Puerto)
  BY <1>1, <1>3, Campos DEF Init, PuertoSano
<1>5. Cargas \in LasCargas
  BY DiscoAssumption DEF Init, Cargas, LasCargas, Ficheros, NoHay, Libre
<1>6. CargaSana(Cargas) /\ Contado(Puerto, Cargas)
  BY <1>5, Campos DEF Init, CargaSana, Contado, Libre
<1>7. en_vuelo = SinVuelo
  BY DEF Init
<1>8. Sano(Puerto, Cargas, SinVuelo)
  BY <1>4, <1>6, Campos, SinVueloSano DEF Init
<1>9. HiloSano
  BY DiscoAssumption DEF Init, HiloSano, Hilos, Despierto, Ranuras
<1> QED
  BY <1>7, <1>8, <1>9 DEF IInv

(* What moves the thread alone. *)
LEMMA SoloHilo ==
  ASSUME IInv, UNCHANGED <<puerto, cargas, en_vuelo, ultima, vaciados>>, HiloSano'
  PROVE  IInv'
  BY QuedaEs, Sigue DEF IInv

LEMMA HiloIInv ==
  ASSUME IInv, Lee \/ SigueEsperando \/ Aparca \/ Vence
  PROVE  IInv'
<1>1. UNCHANGED <<puerto, cargas, en_vuelo, ultima, vaciados>>
  BY DEF Lee, SigueEsperando, Aparca, Vence
<1>2. hilo' \in Hilos
  <2> USE DEF IInv, HiloSano, Hilos
  <2>1. CASE Lee
    BY <2>1 DEF Lee
  <2>2. CASE SigueEsperando
    BY <2>2 DEF SigueEsperando, Duerma
  <2>3. CASE Aparca
    BY <2>3 DEF Aparca, Despierto
  <2>4. CASE Vence
    BY <2>4 DEF Vence, Despierto
  <2> QED
    BY <2>1, <2>2, <2>3, <2>4
<1>3. HiloSano'
  BY <1>1, <1>2 DEF IInv, HiloSano
<1> QED
  BY <1>1, <1>3, SoloHilo

LEMMA ContestaIInv ==
  ASSUME IInv, Contesta
  PROVE  IInv'
<1>1. /\ Sano(Puerto, Cargas, en_vuelo) /\ PuertoSano(Puerto) /\ Puerto \in Puertos
      /\ CargaSana(Cargas) /\ Contado(Puerto, Cargas) /\ VueloSano(Puerto, Cargas, en_vuelo)
  BY DEF IInv, Sano, PuertoSano
<1>2. Ocupado(Puerto) /\ UNCHANGED <<cargas, en_vuelo, ultima, vaciados>>
  BY DEF Contesta
<1>3. Cargas' = Cargas /\ en_vuelo' = en_vuelo
  BY <1>2, QuedaEs
<1>4. HiloSano'
  BY <1>2, AvisadoSano DEF IInv, HiloSano, Contesta
<1>5. PICK fin \in {"hecho", "fallo"} :
        QuedaPuerto(IF aparato.dejada THEN [Acaba(Puerto, fin) EXCEPT !.aparato = Ocioso]
                    ELSE Acaba(Puerto, fin))
  BY DEF Contesta
<1> DEFINE R == Acaba(Puerto, fin)
<1>6. /\ R \in Puertos /\ R.vuelo = vuelo /\ R.cosecha = cosecha /\ Crece(Puerto, R)
      /\ R.aparato = [estado |-> fin, orden |-> Ninguna, dejada |-> FALSE]
  BY <1>1, AcabaSana, Campos DEF PuertoSano
<1>7. Contado(R, Cargas)
  BY <1>1, <1>6, CreceContado
<1>8. CASE aparato.dejada
  <2> DEFINE Q == [R EXCEPT !.aparato = Ocioso]
  <2> HIDE DEF R
  <2>1. Ocioso \in Aparatos /\ Ordenada(Ocioso.orden)
    BY OrdenesSinDatos DEF Ocioso, Aparatos, Ordenada
  <2>2. /\ Q \in Puertos /\ Q.vuelo = vuelo /\ Q.cosecha = cosecha
        /\ Q.memoria = R.memoria /\ Q.aparato = Ocioso
    BY <1>6, <2>1 DEF Puertos
  <2>3. vuelo = "nada"
    BY <1>1, <1>8, Campos DEF PuertoSano
  <2>4. PuertoSano(Q)
    BY <2>1, <2>2, <2>3 DEF PuertoSano, Ocioso
  <2>5. Crece(Puerto, Q) /\ Contado(Q, Cargas)
    BY <1>6, <1>7, <2>2 DEF Crece, Contado
  <2>6. VueloSano(Q, Cargas, en_vuelo)
    BY <1>1, <2>2, <2>3, <2>5, CreceContado, Campos DEF VueloSano
  <2>7. QuedaPuerto(Q)
    BY <1>5, <1>8 DEF R
  <2>8. Sano(Q, Cargas, en_vuelo) /\ Puerto' = Q
    BY <1>1, <2>2, <2>4, <2>5, <2>6, <2>7, QuedaEs DEF Sano
  <2> QED
    BY <1>3, <1>4, <2>8, Sigue
<1>9. CASE ~aparato.dejada
  <2>1. vuelo # "nada"
    BY <1>1, <1>2, <1>9, Campos DEF PuertoSano, Ocupado
  <2>2. R \in Finales(Puerto)
    BY <1>2 DEF Finales
  <2>3. /\ (en_vuelo.clase = "datos" /\ vuelo = "lectura" /\ Resultado(R) = "bien") =>
             Traido(R, Cargas, en_vuelo.i)
        /\ (en_vuelo.clase = "datos" /\ cosecha = "bien") => Traido(R, Cargas, en_vuelo.i)
    BY <1>1, <2>1, <2>2, FinalSano, Campos
  <2> HIDE DEF R
  <2>4. PuertoSano(R)
    BY <1>1, <1>6, <2>1, OrdenesSinDatos, Campos DEF PuertoSano, Ninguna
  <2>5. VueloSano(R, Cargas, en_vuelo)
    BY <1>1, <1>6, <2>3, Campos DEF VueloSano, Resultado, Ocupado
  <2>6. QuedaPuerto(R)
    BY <1>5, <1>9 DEF R
  <2>7. Sano(R, Cargas, en_vuelo) /\ Puerto' = R
    BY <1>1, <1>6, <1>7, <2>4, <2>5, <2>6, QuedaEs DEF Sano
  <2> QED
    BY <1>3, <1>4, <2>7, Sigue
<1> QED
  BY <1>8, <1>9

LEMMA OtraOrdenIInv ==
  ASSUME IInv, OtraOrden
  PROVE  IInv'
<1>1. Sano(Puerto, Cargas, en_vuelo) /\ Mismos(Cargas)
  BY Campos DEF IInv
<1>2. PICK P \in Cosechados(Puerto) : \E e \in Ordenes(P, OrdenDe("otra")) : QuedaPuerto(e.puerto)
  BY DEF OtraOrden
<1>3. PICK e \in Ordenes(P, OrdenDe("otra")) : QuedaPuerto(e.puerto)
  BY <1>2
<1>4. Sano(e.puerto, Cargas, en_vuelo)
  <2>1. Sano(P, Cargas, en_vuelo) /\ P.vuelo = "nada"
    BY <1>1, CosechaSana
  <2> QED
    BY <1>1, <2>1, OrdenSana, OrdenesSinDatos
<1>5. Puerto' = e.puerto /\ Cargas' = Cargas /\ en_vuelo' = en_vuelo
  BY <1>3, <1>4, QuedaEs DEF OtraOrden, Sano, PuertoSano
<1>6. HiloSano'
  BY DEF OtraOrden, HiloSano, IInv
<1> QED
  BY <1>4, <1>5, <1>6, Sigue

LEMMA EsperarIInv ==
  ASSUME IInv, NEW i \in Ranuras, Esperar(i)
  PROVE  IInv'
<1>1. /\ PuertoSano(Puerto) /\ CargaSana(Cargas) /\ Contado(Puerto, Cargas)
      /\ VueloSano(Puerto, Cargas, en_vuelo)
  BY DEF IInv, Sano
<1>2. /\ Puerto' = Puerto /\ en_vuelo' = en_vuelo /\ fichero' = fichero
      /\ ventana' = ventana /\ pedida' = pedida /\ duermen' = duermen \cup {i}
  BY QuedaEs DEF Esperar
<1>3. Cargas' \in LasCargas /\ Cargas'.fichero = Cargas.fichero
  BY <1>1, <1>2 DEF Cargas, CargaSana, LasCargas
<1>4. CargaSana(Cargas') /\ Contado(Puerto, Cargas')
  BY <1>1, <1>3 DEF CargaSana, Contado
<1>5. VueloSano(Puerto, Cargas', en_vuelo)
  BY <1>1, <1>3, VueloQueda
<1>6. HiloSano'
  BY DEF Esperar, HiloSano, IInv
<1> QED
  BY <1>1, <1>2, <1>4, <1>5, <1>6, Sigue DEF Sano

LEMMA AbrirIInv ==
  ASSUME IInv, Abrir
  PROVE  IInv'
<1>1. PICK i \in Ranuras, P \in Cosechados(Puerto), z \in Zonas :
        /\ PrimeraLibre(i)
        /\ \E e \in Ordenes(P, OrdenDe("otra")) : e.ok /\ QuedaPuerto(e.puerto)
        /\ fichero' = [fichero EXCEPT ![i] = [ver |-> @.ver + 1, zona |-> z,
                         abierto |-> TRUE, cluster |-> 1, largo |-> 0]]
  BY DEF Abrir
<1>2. PICK e \in Ordenes(P, OrdenDe("otra")) : QuedaPuerto(e.puerto)
  BY <1>1
<1>3. Sano(Puerto, Cargas, en_vuelo) /\ Mismos(Cargas)
  BY Campos DEF IInv
<1>4. Sano(e.puerto, Cargas, en_vuelo)
  <2>1. Sano(P, Cargas, en_vuelo) /\ P.vuelo = "nada"
    BY <1>3, CosechaSana
  <2> QED
    BY <1>3, <2>1, OrdenSana, OrdenesSinDatos
<1>5. Puerto' = e.puerto /\ en_vuelo' = en_vuelo
  BY <1>2, <1>4, QuedaEs DEF Abrir, Sano, PuertoSano
<1> DEFINE f == [ver |-> fichero[i].ver + 1, zona |-> z, abierto |-> TRUE,
                 cluster |-> 1, largo |-> 0]
<1>6. /\ fichero \in [Ranuras -> Ficheros] /\ ~fichero[i].abierto
      /\ fichero[i].cluster = 0 /\ Cargas \in LasCargas
  BY <1>1, <1>3, Campos DEF Sano, CargaSana, LasCargas, PrimeraLibre
<1>7. FichaSana(f)
  <2>1. z \in 1..NZonas /\ fichero[i].ver \in Nat
    BY <1>6 DEF Zonas, Ficheros
  <2> QED
    BY <2>1, DiscoAssumption DEF FichaSana, Ficheros
<1>8. /\ Cargas'.fichero = [Cargas.fichero EXCEPT ![i] = f]
      /\ Cargas' \in LasCargas
  <2>1. /\ fichero' = [fichero EXCEPT ![i] = f] /\ f \in Ficheros
        /\ ventana' = ventana /\ pedida' = pedida /\ duermen' = duermen
    BY <1>1, <1>7 DEF Abrir, FichaSana
  <2> HIDE DEF f
  <2> QED
    BY <1>6, <2>1 DEF Cargas, LasCargas
<1>9. /\ CargaSana(Cargas') /\ Contado(e.puerto, Cargas')
      /\ \A j \in Ranuras \ {i} : Cargas'.fichero[j] = Cargas.fichero[j]
  <2>1. CargaSana(Cargas) /\ Contado(e.puerto, Cargas) /\ f.largo = 0
    BY <1>4 DEF Sano
  <2> HIDE DEF f
  <2> QED
    BY <1>7, <1>8, <2>1, CambiaFicha
<1>10. VueloSano(e.puerto, Cargas', en_vuelo)
  <2>1. en_vuelo.clase = "datos" => en_vuelo.i \in Ranuras \ {i}
    BY <1>4, <1>6, Campos DEF Sano, VueloSano
  <2> QED
    BY <1>4, <1>9, <2>1, VueloQueda DEF Sano
<1>11. HiloSano'
  BY AvisadoSano DEF Abrir, HiloSano, IInv
<1> QED
  BY <1>4, <1>5, <1>9, <1>10, <1>11, Sigue DEF Sano

LEMMA LeerIInv ==
  ASSUME IInv, NEW i \in Ranuras, Leer(i)
  PROVE  IInv'
<1>1. PICK c \in CerrarVuelo(en_vuelo) :
       IF c.cargas.fichero[i].cluster = 0
       THEN QuedaPuerto(c.puerto) /\ QuedaCargas(c.cargas)
       ELSE \E P \in Cosechados(c.puerto) : \E e \in Ordenes(P, Datos(c.cargas, i)) :
              /\ QuedaPuerto(e.puerto)
              /\ QuedaCargas([c.cargas EXCEPT !.fichero[i] = Avanzada(@, e.ok)])
  BY DEF Leer
<1>2. Sano(c.puerto, c.cargas, SinVuelo) /\ Mismos(c.cargas)
  BY CierraSano
<1>3. en_vuelo' = SinVuelo /\ HiloSano'
  BY DEF Leer, HiloSano, IInv
<1>4. CASE c.cargas.fichero[i].cluster = 0
  <2>1. Puerto' = c.puerto /\ Cargas' = c.cargas
    BY <1>1, <1>2, <1>4, QuedaEs DEF Sano, PuertoSano, CargaSana
  <2> QED
    BY <1>2, <1>3, <2>1, Sigue
<1>5. CASE c.cargas.fichero[i].cluster # 0
  <2> DEFINE F == c.cargas
             g == F.fichero[i]
             o == Datos(F, i)
  <2>1. PICK P \in Cosechados(c.puerto) : \E e \in Ordenes(P, o) :
              /\ QuedaPuerto(e.puerto)
              /\ QuedaCargas([F EXCEPT !.fichero[i] = Avanzada(@, e.ok)])
    BY <1>1, <1>5
  <2>2. PICK e \in Ordenes(P, o) :
              /\ QuedaPuerto(e.puerto)
              /\ QuedaCargas([F EXCEPT !.fichero[i] = Avanzada(@, e.ok)])
    BY <2>1
  <2>3. /\ F \in LasCargas /\ CargaSana(F) /\ g \in Ficheros
        /\ g.abierto /\ g.cluster = g.largo + 1
        /\ g.ver \in Nat /\ g.cluster \in 1..NTrozos /\ g.largo \in 0..NTrozos
    BY <1>2, <1>5 DEF Sano, CargaSana, LasCargas, Ficheros
  <2>4. Ordenada(o) /\ Vigente(o) /\ o.i = i /\ o.trozo = g.cluster
    BY <1>2, <2>3, DiscoAssumption DEF Datos, Ordenada, Orden, Vigente, Mismos, Ranuras
  <2>5. Sano(P, F, SinVuelo) /\ P.vuelo = "nada"
    BY <1>2, CosechaSana
  <2>6. /\ Sano(e.puerto, F, SinVuelo) /\ e.puerto.vuelo = "nada"
        /\ e.ok => e.puerto.memoria[i][g.cluster] = g.cluster
    BY <1>2, <2>4, <2>5, OrdenSana
  <2> DEFINE f == Avanzada(g, e.ok)
             G == [F EXCEPT !.fichero[i] = f]
  <2>7. FichaSana(f) /\ \A k \in 1..f.largo : e.puerto.memoria[i][k] = k
    <3>1. \A k \in 1..g.largo : e.puerto.memoria[i][k] = k
      BY <2>6 DEF Sano, Contado
    <3>2. CASE e.ok
      <4>1. Siguiente(g.cluster) \in 0..NTrozos /\ g.largo + 1 \in 0..NTrozos
            /\ (Siguiente(g.cluster) # 0 => Siguiente(g.cluster) = g.largo + 1 + 1)
        BY <2>3, DiscoAssumption DEF Siguiente
      <4>2. /\ f \in Ficheros /\ f.largo = g.largo + 1 /\ f.abierto
            /\ f.cluster = Siguiente(g.cluster)
        BY <2>3, <3>2, <4>1 DEF Ficheros, Avanzada
      <4> HIDE DEF f
      <4>3. \A k \in 1..f.largo : e.puerto.memoria[i][k] = k
        BY <2>3, <2>6, <3>1, <3>2, <4>2
      <4> QED
        BY <4>1, <4>2, <4>3 DEF FichaSana
    <3>3. CASE ~e.ok
      <4>1. f \in Ficheros /\ f.largo = g.largo /\ f.abierto /\ f.cluster = 0
        BY <2>3, <3>3, DiscoAssumption DEF Ficheros, Avanzada
      <4> HIDE DEF f
      <4> QED
        BY <3>1, <4>1 DEF FichaSana
    <3> QED
      BY <3>2, <3>3
  <2>8. QuedaCargas(G)
    BY <2>2
  <2> HIDE DEF f
  <2>9. G \in LasCargas /\ G.fichero = [F.fichero EXCEPT ![i] = f]
    BY <2>3, <2>7 DEF LasCargas, FichaSana
  <2> HIDE DEF G
  <2>10. CargaSana(G) /\ Contado(e.puerto, G)
    BY <2>3, <2>6, <2>7, <2>9, CambiaFicha DEF Sano
  <2>11. Sano(e.puerto, G, SinVuelo)
    <3>1. /\ PuertoSano(e.puerto) /\ e.puerto.vuelo # "lectura" /\ e.puerto.cosecha = "nada"
      BY <2>6 DEF Sano, VueloSano, SinVuelo
    <3> QED
      BY <2>10, <3>1, SinVueloSano
  <2>12. Puerto' = e.puerto /\ Cargas' = G
    BY <2>2, <2>6, <2>8, <2>9, QuedaEs DEF Sano, PuertoSano
  <2> QED
    BY <1>3, <2>11, <2>12, Sigue
<1> QED
  BY <1>4, <1>5

LEMMA CerrarIInv ==
  ASSUME IInv, NEW i \in Ranuras, Cerrar(i)
  PROVE  IInv'
<1>1. PICK c \in Soltados(i) :
        /\ QuedaPuerto([c.puerto EXCEPT !.memoria[i] = Vacio])
        /\ QuedaCargas([c.cargas EXCEPT !.duermen = @ \ {i}, !.fichero[i] = Libre(@.ver)])
  BY DEF Cerrar
<1> DEFINE v == VueloTrasSoltar(i)
<1>2. PICK d \in (IF en_vuelo.i = i THEN CerrarVuelo(en_vuelo)
                  ELSE {[puerto |-> Puerto, cargas |-> Cargas]}) :
        c = [puerto |-> d.puerto, cargas |-> [d.cargas EXCEPT !.fichero[i].cluster = 0]]
  BY DEF Soltados
<1>3. Sano(d.puerto, d.cargas, v) /\ (v.clase = "datos" => v.i \in Ranuras \ {i})
  <2>1. CASE en_vuelo.i = i
    <3>1. Sano(d.puerto, d.cargas, SinVuelo)
      BY <1>2, <2>1, CierraSano
    <3> QED
      BY <2>1, <3>1 DEF VueloTrasSoltar, SinVuelo
  <2>2. CASE en_vuelo.i # i
    BY <1>2, <2>2 DEF VueloTrasSoltar, IInv, Sano, VueloSano
  <2> QED
    BY <2>1, <2>2
<1> HIDE DEF v
<1>4. /\ d.puerto \in Puertos /\ PuertoSano(d.puerto)
      /\ d.cargas \in LasCargas /\ CargaSana(d.cargas)
      /\ Contado(d.puerto, d.cargas) /\ VueloSano(d.puerto, d.cargas, v)
  BY <1>3 DEF Sano, PuertoSano, CargaSana
<1> DEFINE F == d.cargas
           g == F.fichero[i]
           h == [g EXCEPT !.cluster = 0]
           f == Libre(h.ver)
           F2 == [F EXCEPT !.fichero[i].cluster = 0]
           G == [F2 EXCEPT !.duermen = @ \ {i}, !.fichero[i] = Libre(@.ver)]
           Q == [d.puerto EXCEPT !.memoria[i] = Vacio]
<1>5. QuedaPuerto(Q) /\ QuedaCargas(G)
  BY <1>1, <1>2
<1>6. FichaSana(f) /\ f.largo = 0 /\ f \in Ficheros /\ h \in Ficheros
  <2>1. g \in Ficheros
    BY <1>4 DEF LasCargas
  <2>2. h \in Ficheros
    BY <2>1, DiscoAssumption DEF Ficheros
  <2> HIDE DEF h
  <2>3. /\ f \in Ficheros /\ ~f.abierto /\ f.largo = 0 /\ f.cluster = 0
    BY <2>2, DiscoAssumption DEF Ficheros, Libre
  <2> HIDE DEF f
  <2> QED
    BY <2>2, <2>3 DEF FichaSana
<1>7. G \in LasCargas /\ G.fichero = [F.fichero EXCEPT ![i] = f]
  <2>1. F2 = [F EXCEPT !.fichero[i] = h]
    OBVIOUS
  <2> HIDE DEF h
  <2>2. F2 \in LasCargas /\ F2.fichero = [F.fichero EXCEPT ![i] = h] /\ F2.fichero[i] = h
    BY <1>4, <1>6, <2>1 DEF LasCargas
  <2> HIDE DEF F2
  <2>3. G = [F2 EXCEPT !.duermen = @ \ {i}, !.fichero[i] = f]
    BY <2>2
  <2> HIDE DEF f, G
  <2>4. G \in LasCargas /\ G.fichero = [F2.fichero EXCEPT ![i] = f]
    BY <1>6, <2>2, <2>3 DEF LasCargas
  <2>5. [F2.fichero EXCEPT ![i] = f] = [F.fichero EXCEPT ![i] = f]
    BY <1>4, <1>6, <2>2 DEF LasCargas
  <2> QED
    BY <2>4, <2>5
<1> HIDE DEF f, F2, G
<1>8. /\ CargaSana(G) /\ Contado(d.puerto, G) /\ G.fichero[i] = f
      /\ \A j \in Ranuras \ {i} : G.fichero[j] = F.fichero[j]
  <2>1. \A k \in 1..f.largo : d.puerto.memoria[i][k] = k
    BY <1>6
  <2> HIDE DEF F, g, Q
  <2>2. CargaSana(F) /\ Contado(d.puerto, F) /\ FichaSana(f)
    BY <1>4, <1>6 DEF F
  <2>3. CargaSana(G) /\ \A j \in Ranuras \ {i} : G.fichero[j] = F.fichero[j]
    BY <1>7, <2>2, CambiaFicha
  <2>4. G.fichero[i] = f
    BY <1>7, <2>2 DEF CargaSana, LasCargas
  <2>5. \A P : (Contado(P, F) /\ \A k \in 1..f.largo : P.memoria[i][k] = k) => Contado(P, G)
    BY <1>7, <2>2, CambiaFicha
  <2>6. Contado(d.puerto, G)
    BY <2>1, <2>2, <2>5
  <2> QED
    BY <2>3, <2>4, <2>6 DEF F
<1>9. /\ Q \in Puertos /\ Q.aparato = d.puerto.aparato /\ Q.vuelo = d.puerto.vuelo
      /\ Q.cosecha = d.puerto.cosecha
      /\ \A j \in Ranuras \ {i} : Q.memoria[j] = d.puerto.memoria[j]
  <2>1. Vacio \in [1..NTrozos -> 0..NTrozos]
    BY DiscoAssumption DEF Vacio
  <2> QED
    BY <1>4, <2>1 DEF Puertos, Memorias
<1> HIDE DEF Q
<1>10. PuertoSano(Q)
  BY <1>4, <1>9 DEF PuertoSano
<1>11. Contado(Q, G)
  BY <1>6, <1>8, <1>9 DEF Contado
<1>12. VueloSano(Q, G, v)
  BY <1>3, <1>4, <1>8, <1>9, VueloQueda
<1>13. Puerto' = Q /\ Cargas' = G /\ en_vuelo' = v
  BY <1>5, <1>7, <1>9, QuedaEs DEF Cerrar, v
<1>14. HiloSano'
  BY DEF Cerrar, HiloSano, IInv
<1> QED
  BY <1>8, <1>10, <1>11, <1>12, <1>13, <1>14, Sigue DEF Sano

LEMMA CerrarEscritoIInv ==
  ASSUME IInv, CerrarEscrito
  PROVE  IInv'
<1>1. PICK P \in Cosechados(Puerto) : \E e \in Ordenes(P, OrdenDe("otra")) :
        /\ e.ok
        /\ QuedaPuerto([e.puerto EXCEPT !.aparato = EnMarcha(OrdenDe("vaciar")),
                                        !.vuelo = "vaciar"])
  BY DEF CerrarEscrito
<1>2. PICK e \in Ordenes(P, OrdenDe("otra")) :
        QuedaPuerto([e.puerto EXCEPT !.aparato = EnMarcha(OrdenDe("vaciar")),
                                    !.vuelo = "vaciar"])
  BY <1>1
<1>3. Sano(e.puerto, Cargas, en_vuelo) /\ e.puerto.vuelo = "nada"
  <2>1. Sano(Puerto, Cargas, en_vuelo) /\ Mismos(Cargas)
    BY Campos DEF IInv
  <2>2. Sano(P, Cargas, en_vuelo) /\ P.vuelo = "nada"
    BY <2>1, CosechaSana
  <2> QED
    BY <2>1, <2>2, OrdenSana, OrdenesSinDatos
<1> DEFINE a == EnMarcha(OrdenDe("vaciar"))
           Q == [e.puerto EXCEPT !.aparato = a, !.vuelo = "vaciar"]
<1>4. /\ a \in Aparatos /\ Ordenada(a.orden) /\ a.orden.que = "vaciar" /\ ~a.dejada
  BY OrdenesSinDatos DEF EnMarcha, Aparatos, Ordenada
<1>5. /\ PuertoSano(e.puerto) /\ e.puerto \in Puertos
      /\ CargaSana(Cargas) /\ Contado(e.puerto, Cargas)
      /\ VueloSano(e.puerto, Cargas, en_vuelo) /\ Cargas \in LasCargas
  BY <1>3 DEF Sano, PuertoSano, CargaSana
<1>6. QuedaPuerto(Q)
  BY <1>2
<1> HIDE DEF a
<1>7. /\ Q \in Puertos /\ Q.aparato = a /\ Q.vuelo = "vaciar"
      /\ Q.cosecha = e.puerto.cosecha /\ Q.memoria = e.puerto.memoria
  BY <1>4, <1>5 DEF Puertos
<1> HIDE DEF Q
<1>8. PuertoSano(Q) /\ Contado(Q, Cargas)
  BY <1>4, <1>5, <1>7 DEF PuertoSano, Contado
<1>9. VueloSano(Q, Cargas, en_vuelo)
  BY <1>3, <1>5, <1>7 DEF VueloSano, Traido
<1>10. /\ Cargas' \in LasCargas /\ Cargas'.fichero = Cargas.fichero
  <2>1. fichero' = fichero /\ duermen' = duermen /\ ventana' = NoHay /\ pedida' = NoHay
    BY DEF CerrarEscrito
  <2> QED
    BY <1>5, <2>1, DiscoAssumption DEF Cargas, LasCargas, NoHay
<1>11. CargaSana(Cargas') /\ Contado(Q, Cargas') /\ VueloSano(Q, Cargas', en_vuelo)
  BY <1>5, <1>8, <1>9, <1>10, VueloQueda DEF CargaSana, Contado
<1>12. Puerto' = Q /\ en_vuelo' = en_vuelo
  BY <1>6, <1>7, QuedaEs DEF CerrarEscrito
<1>13. HiloSano'
  BY AvisadoSano, DiscoAssumption DEF CerrarEscrito, HiloSano, IInv
<1> QED
  BY <1>8, <1>11, <1>12, <1>13, Sigue DEF Sano

LEMMA SinTrabajoIInv ==
  ASSUME IInv, SinTrabajo
  PROVE  IInv'
<1>1. Sano(Tras.puerto, Tras.cargas, SinVuelo)
  BY TrasSano DEF SinTrabajo
<1>2. Puerto' = Tras.puerto /\ Cargas' = Tras.cargas /\ en_vuelo' = SinVuelo
  BY <1>1, QuedaEs DEF SinTrabajo, Sano, PuertoSano, CargaSana
<1>3. HiloSano'
  BY DEF SinTrabajo, Duerma, HiloSano, Hilos, IInv
<1> QED
  BY <1>1, <1>2, <1>3, Sigue

(* The thread leaves its next order, or finds the port busy with one that  *)
(* was given up and cuts the file.                                         *)
LEMMA TrabajaIInv ==
  ASSUME IInv, Trabaja
  PROVE  IInv'
<1> DEFINE P == Tras.puerto
           F == Tras.cargas
<1>1. PICK i \in Pendientes(F) :
        /\ PideDatos(P, F, i) \/ PideFat(P, F, i) \/ NoSePudo(P, F, i)
        /\ ultima' = i
  BY DEF Trabaja
<1>2. Sano(P, F, SinVuelo) /\ P.vuelo = "nada"
  BY TrasSano DEF Trabaja
<1> HIDE DEF P, F
<1>3. /\ P \in Puertos /\ PuertoSano(P) /\ F \in LasCargas /\ CargaSana(F) /\ Contado(P, F)
      /\ P.cosecha = "nada"
  BY <1>2 DEF Sano, PuertoSano, CargaSana, VueloSano, SinVuelo
<1>4. /\ i \in Ranuras /\ F.fichero[i] \in Ficheros /\ F.fichero[i].cluster # 0
      /\ F.fichero[i].cluster = F.fichero[i].largo + 1
      /\ F.fichero[i].cluster \in 1..NTrozos /\ F.fichero[i].zona \in 1..NZonas
      /\ F.fichero[i].ver \in Nat
  BY <1>1, <1>3, DiscoAssumption DEF Pendientes, CargaSana, LasCargas, Ficheros
<1>5. HiloSano'
  <2>1. hilo' \in Hilos
    <3>1. hilo' = [hilo EXCEPT !.pc = "aparca", !.plazo = TRUE] \/ hilo' = Despierto
      BY <1>1 DEF PideDatos, PideFat, NoSePudo, Duerma, OtraVuelta
    <3>2. Despierto \in Hilos
      BY AvisadoSano DEF IInv
    <3>3. [hilo EXCEPT !.pc = "aparca", !.plazo = TRUE] \in Hilos
      BY DEF HiloSano, Hilos, IInv
    <3> QED
      BY <3>1, <3>2, <3>3
  <2> QED
    BY <1>1, <1>4, <2>1 DEF Trabaja, HiloSano, IInv
<1>6. ASSUME NEW o, Ordenada(o), ~Ocupado(P)
      PROVE  /\ Emite(P, o) \in Puertos /\ PuertoSano(Emite(P, o)) /\ Contado(Emite(P, o), F)
             /\ Emite(P, o).aparato.estado = "curso" /\ Emite(P, o).aparato.orden = o
             /\ Emite(P, o).vuelo = "lectura"
             /\ Emite(P, o).cosecha = "nada"
  <2> DEFINE a == EnMarcha(o)
  <2>1. a \in Aparatos /\ a.orden = o /\ ~a.dejada /\ a.estado = "curso"
    BY <1>6 DEF EnMarcha, Aparatos, Ordenada
  <2> HIDE DEF a
  <2>2. /\ Emite(P, o) \in Puertos /\ Emite(P, o).aparato = a /\ Emite(P, o).vuelo = "lectura"
        /\ Emite(P, o).cosecha = "nada" /\ Emite(P, o).memoria = P.memoria
    <3>1. Emite(P, o) = [P EXCEPT !.aparato = a, !.vuelo = "lectura"]
      BY DEF Emite, a
    <3> QED
      BY <1>3, <2>1, <3>1 DEF Puertos
  <2> QED
    BY <1>3, <1>6, <2>1, <2>2 DEF PuertoSano, Contado
<1>7. CASE PideDatos(P, F, i)
  <2> DEFINE o == Datos(F, i)
             v == [clase |-> "datos", i |-> i, sig |-> Siguiente(F.fichero[i].cluster)]
  <2>1. Ordenada(o)
    BY <1>4, DiscoAssumption DEF Datos, Ordenada, Orden, Ranuras
  <2>2. v \in Vuelos
    BY <1>4, DiscoAssumption DEF Vuelos, Siguiente, Ranuras
  <2>3. /\ ~Ocupado(P) /\ QuedaPuerto(Emite(P, o)) /\ QuedaCargas(F) /\ en_vuelo' = v
    BY <1>7 DEF PideDatos
  <2>4. VueloSano(Emite(P, o), F, v)
    <3>1. /\ v.clase = "datos" /\ v.i = i /\ v.sig = Siguiente(F.fichero[i].cluster)
      OBVIOUS
    <3>2. o = Datos(F, i)
      OBVIOUS
    <3> HIDE DEF v, o
    <3>3. /\ Emite(P, o).aparato.estado = "curso" /\ Emite(P, o).aparato.orden = o
          /\ Emite(P, o).vuelo = "lectura" /\ Emite(P, o).cosecha = "nada"
      BY <1>6, <2>1, <2>3
    <3> QED
      BY <1>4, <2>2, <3>1, <3>2, <3>3 DEF VueloSano
  <2> HIDE DEF v, o
  <2>5. Sano(Emite(P, o), F, v) /\ Puerto' = Emite(P, o) /\ Cargas' = F
    BY <1>3, <1>6, <2>1, <2>3, <2>4, QuedaEs DEF Sano
  <2> QED
    BY <1>5, <2>3, <2>5, Sigue
<1>8. CASE PideFat(P, F, i)
  <2> DEFINE o == OrdenDe("fat")
             v == [clase |-> "fat", i |-> i, sig |-> 0]
             w == F.fichero[i].zona
             G == [F EXCEPT !.ventana = NoHay, !.pedida = w]
  <2>1. Ordenada(o) /\ o.que = "fat"
    BY OrdenesSinDatos
  <2>2. v \in Vuelos
    BY <1>4, DiscoAssumption DEF Vuelos, Ranuras
  <2>3. /\ ~Ocupado(P) /\ QuedaPuerto(Emite(P, o)) /\ QuedaCargas(G) /\ en_vuelo' = v
    BY <1>8 DEF PideFat
  <2>4. G \in LasCargas /\ G.fichero = F.fichero
    <3>1. w \in 0..NZonas /\ NoHay \in 0..NZonas
      BY <1>4, DiscoAssumption DEF NoHay
    <3> HIDE DEF w
    <3> QED
      BY <1>3, <3>1 DEF LasCargas
  <2> HIDE DEF o, G
  <2>5. VueloSano(Emite(P, o), G, v)
    <3>1. v.clase = "fat" /\ v.i = i
      OBVIOUS
    <3> HIDE DEF v
    <3>2. /\ Emite(P, o).aparato.estado = "curso" /\ Emite(P, o).aparato.orden = o
          /\ Emite(P, o).vuelo = "lectura"
      BY <1>6, <2>1, <2>3
    <3> QED
      BY <1>4, <2>1, <2>2, <3>1, <3>2 DEF VueloSano
  <2>6. CargaSana(G) /\ Contado(Emite(P, o), G)
    BY <1>3, <1>6, <2>1, <2>3, <2>4 DEF CargaSana, Contado
  <2> HIDE DEF v
  <2>7. Sano(Emite(P, o), G, v) /\ Puerto' = Emite(P, o) /\ Cargas' = G
    BY <1>6, <2>1, <2>3, <2>4, <2>5, <2>6, QuedaEs DEF Sano
  <2> QED
    BY <1>5, <2>3, <2>7, Sigue
<1>9. CASE NoSePudo(P, F, i)
  <2> DEFINE H == IF F.ventana = F.fichero[i].zona THEN F
                  ELSE [F EXCEPT !.ventana = NoHay, !.pedida = NoHay]
             G == Aplica(H, i, "mal", 0)
  <2>1. QuedaPuerto(P) /\ QuedaCargas(G) /\ en_vuelo' = SinVuelo
    BY <1>9 DEF NoSePudo
  <2>2. H \in LasCargas /\ H.fichero = F.fichero
    <3> DEFINE K == [F EXCEPT !.ventana = NoHay, !.pedida = NoHay]
    <3>1. NoHay \in 0..NZonas
      BY DiscoAssumption DEF NoHay
    <3>2. K \in LasCargas /\ K.fichero = F.fichero
      BY <1>3, <3>1 DEF LasCargas
    <3> HIDE DEF K
    <3>3. H = F \/ H = K
      BY DEF K
    <3> QED
      BY <1>3, <3>2, <3>3
  <2> HIDE DEF H
  <2>3. CargaSana(H) /\ Contado(P, H)
    BY <1>3, <2>2 DEF CargaSana, Contado
  <2>4. CargaSana(G) /\ Contado(P, G)
    BY <1>4, <2>3, AplicaSana
  <2> HIDE DEF G
  <2>5. Sano(P, G, SinVuelo)
    BY <1>2, <1>3, <2>4, SinVueloSano
  <2>6. Puerto' = P /\ Cargas' = G
    BY <1>3, <2>1, <2>4, QuedaEs DEF CargaSana
  <2> QED
    BY <1>5, <2>1, <2>5, <2>6, Sigue
<1> QED
  BY <1>1, <1>7, <1>8, <1>9

LEMMA NextIInv ==
  ASSUME IInv, [Next]_vars
  PROVE  IInv'
<1>1. CASE UNCHANGED vars
  BY <1>1, SoloHilo DEF vars, HiloSano, IInv
<1>2. CASE Next
  BY <1>2, ContestaIInv, HiloIInv, TrabajaIInv, SinTrabajoIInv, AbrirIInv, OtraOrdenIInv,
     CerrarEscritoIInv, LeerIInv, EsperarIInv, CerrarIInv DEF Next, Hilo, Programas
<1> QED
  BY <1>1, <1>2

-----------------------------------------------------------------------------
LEMMA IInvGives == IInv => TypeOK /\ BytesAreTheFiles /\ BufferOutlivesFlight
<1> SUFFICES ASSUME IInv PROVE TypeOK /\ BytesAreTheFiles /\ BufferOutlivesFlight
  OBVIOUS
<1>1. /\ PuertoSano(Puerto) /\ CargaSana(Cargas) /\ Contado(Puerto, Cargas)
      /\ VueloSano(Puerto, Cargas, en_vuelo) /\ HiloSano
      /\ Puerto \in Puertos /\ Cargas \in LasCargas
  BY DEF IInv, Sano, PuertoSano, CargaSana
<1>2. TypeOK
  <2>1. /\ aparato \in Aparatos /\ vuelo \in {"nada", "lectura", "vaciar"}
        /\ cosecha \in {"nada", "bien", "mal"} /\ memoria \in Memorias
    BY <1>1, Campos DEF Puertos
  <2>2. /\ fichero \in [Ranuras -> Ficheros] /\ ventana \in 0..NZonas /\ pedida \in 0..NZonas
        /\ duermen \subseteq Ranuras
    BY <1>1, Campos DEF LasCargas
  <2>3. /\ en_vuelo \in Vuelos
        /\ (en_vuelo.clase # "nada") <=> (vuelo = "lectura" \/ cosecha # "nada")
    BY <1>1, Campos DEF VueloSano
  <2> QED
    BY <1>1, <2>1, <2>2, <2>3 DEF TypeOK, Aparatos, Memorias, Ficheros, Vuelos, Hilos,
       HiloSano
<1>3. BytesAreTheFiles
  BY <1>1, Campos DEF Contado, BytesAreTheFiles
<1>4. BufferOutlivesFlight
  <2> SUFFICES ASSUME aparato.estado = "curso", ~aparato.dejada, aparato.orden.que = "datos"
               PROVE  /\ fichero[aparato.orden.i].abierto
                      /\ fichero[aparato.orden.i].ver = aparato.orden.ver
    BY DEF BufferOutlivesFlight
  <2>1. vuelo = "lectura"
    BY <1>1, Campos DEF PuertoSano, Puertos
  <2>2. en_vuelo.clase = "datos"
    BY <1>1, <2>1, Campos DEF VueloSano, Vuelos, Ocupado
  <2>3. /\ en_vuelo.i \in Ranuras /\ fichero[en_vuelo.i].cluster # 0
        /\ aparato.orden = Datos(Cargas, en_vuelo.i)
    BY <1>1, <2>1, <2>2, Campos DEF VueloSano, Ocupado
  <2> QED
    BY <1>1, <2>3, Campos DEF CargaSana, Datos
<1> QED
  BY <1>2, <1>3, <1>4

(* Every variable stays in its range: no file counts more pieces than it   *)
(* has, and an order of the thread is in VUELO, in COSECHA or nowhere.     *)
THEOREM Typing == Spec => []TypeOK
<1>1. IInv /\ [Next]_vars => IInv'
  BY NextIInv
<1> QED
  BY InitIInv, <1>1, IInvGives, PTL DEF Spec

(* What a program may read of its file is its file, whoever landed the     *)
(* pieces (aplicar, avanzar).                                              *)
THEOREM WhatIsReadIsTheFile == Spec => []BytesAreTheFiles
<1>1. IInv /\ [Next]_vars => IInv'
  BY NextIInv
<1> QED
  BY InitIInv, <1>1, IInvGives, PTL DEF Spec

(* No buffer is given back under an order that is still expected (soltar). *)
THEOREM NoBufferUnderFlight == Spec => []BufferOutlivesFlight
<1>1. IInv /\ [Next]_vars => IInv'
  BY NextIInv
<1> QED
  BY InitIInv, <1>1, IInvGives, PTL DEF Spec

-----------------------------------------------------------------------------
(* The refinement of Carga *)

(* What a step of the loads, from F to G, brings to slot j: nothing, or    *)
(* news, and then nobody sleeps on it.                                     *)
Igual(F, G, j) ==
  /\ G.fichero[j].abierto = F.fichero[j].abierto
  /\ G.fichero[j].largo = F.fichero[j].largo
  /\ G.fichero[j].cluster # 0 <=> F.fichero[j].cluster # 0
  /\ j \in G.duermen <=> j \in F.duermen
Noticia(F, G, j) ==
  /\ F.fichero[j].cluster # 0
  /\ G.fichero[j].abierto = F.fichero[j].abierto
  /\ \/ G.fichero[j].largo > F.fichero[j].largo
     \/ G.fichero[j].largo = F.fichero[j].largo /\ G.fichero[j].cluster = 0
  /\ j \notin G.duermen
Avance(F, G, j) == Igual(F, G, j) \/ Noticia(F, G, j)

(* Nobody sleeps on a load that ended. *)
NadieEnVano == \A i \in duermen : fichero[i].cluster # 0

LEMMA AvanceSigue ==
  ASSUME NEW F \in LasCargas, NEW G \in LasCargas, NEW H \in LasCargas, NEW j \in Ranuras,
         Avance(F, G, j), Avance(G, H, j)
  PROVE  Avance(F, H, j)
<1>1. /\ F.fichero[j].largo \in Nat /\ G.fichero[j].largo \in Nat /\ H.fichero[j].largo \in Nat
  <2>1. F.fichero[j] \in Ficheros /\ G.fichero[j] \in Ficheros /\ H.fichero[j] \in Ficheros
    BY DEF LasCargas
  <2> QED
    BY <2>1 DEF Ficheros
<1>2. CASE Igual(F, G, j)
  BY <1>1, <1>2 DEF Avance, Igual, Noticia
<1>3. CASE Noticia(F, G, j)
  BY <1>1, <1>3 DEF Avance, Igual, Noticia
<1> QED
  BY <1>2, <1>3 DEF Avance

(* aplicar is news to its slot and nothing to the others. *)
LEMMA AplicaAvance ==
  ASSUME NEW F \in LasCargas, NEW i \in Ranuras, NEW j \in Ranuras, NEW r, NEW sig,
         F.fichero[i].cluster # 0 \/ (r # "bien" /\ i \notin F.duermen)
  PROVE  Avance(F, Aplica(F, i, r, sig), j)
<1> DEFINE g == F.fichero[i]
           f == Aplicada(g, r, sig)
           G == Aplica(F, i, r, sig)
<1>1. g \in Ficheros /\ F.duermen \subseteq Ranuras
  BY DEF LasCargas
<1>2. G = [F EXCEPT !.fichero[i] = f, !.duermen = @ \ {i}]
  BY DEF Aplica
<1>3. /\ f.abierto = g.abierto
      /\ r = "bien" => f.largo = g.largo + 1
      /\ r # "bien" => f.largo = g.largo /\ f.cluster = 0
  BY <1>1 DEF Aplicada, Ficheros
<1> HIDE DEF f, G
<1>4. G.fichero = [F.fichero EXCEPT ![i] = f] /\ G.duermen = F.duermen \ {i}
  BY <1>2 DEF LasCargas
<1>5. CASE j # i
  BY <1>4, <1>5 DEF LasCargas, Avance, Igual, G
<1>6. CASE j = i
  <2>1. G.fichero[j] = f /\ j \notin G.duermen
    BY <1>4, <1>6 DEF LasCargas
  <2>2. g.largo \in Nat
    BY <1>1 DEF Ficheros
  <2>3. CASE r = "bien"
    <3>1. Noticia(F, G, j)
      BY <1>3, <1>6, <2>1, <2>2, <2>3 DEF Noticia
    <3> QED
      BY <3>1 DEF Avance, G
  <2>4. CASE r # "bien" /\ g.cluster # 0
    <3>1. Noticia(F, G, j)
      BY <1>3, <1>6, <2>1, <2>2, <2>4 DEF Noticia
    <3> QED
      BY <3>1 DEF Avance, G
  <2>5. CASE r # "bien" /\ g.cluster = 0
    <3>1. Igual(F, G, j)
      BY <1>3, <1>6, <2>1, <2>2, <2>5 DEF Igual
    <3> QED
      BY <3>1 DEF Avance, G
  <2> QED
    BY <2>3, <2>4, <2>5
<1> QED
  BY <1>5, <1>6

(* Records with the same files and the same sleepers show the same. *)
LEMMA MismaVista ==
  ASSUME NEW F, NEW G, G.fichero = F.fichero, G.duermen = F.duermen, NEW j
  PROVE  Avance(F, G, j) /\ \A H : Avance(G, H, j) <=> Avance(F, H, j)
  BY DEF Avance, Igual, Noticia

LEMMA LlegaAvance ==
  ASSUME NEW P, NEW F, NEW v, CargaSana(F), VueloSano(P, F, v), NEW r,
         \A i \in F.duermen : F.fichero[i].cluster # 0, NEW j \in Ranuras
  PROVE  Avance(F, Llega(F, v, r), j)
<1>1. F \in LasCargas /\ v.clase \in {"nada", "datos", "fat"}
      /\ (v.clase # "nada" => v.i \in Ranuras)
      /\ (v.clase = "datos" => F.fichero[v.i].cluster # 0)
  BY DEF VueloSano, Vuelos, CargaSana
<1>2. CASE v.clase = "nada"
  BY <1>2 DEF Llega, Avance, Igual
<1>3. CASE v.clase = "datos"
  <2>1. Llega(F, v, r) = Aplica(F, v.i, r, v.sig)
    BY <1>3 DEF Llega
  <2> QED
    BY <1>1, <1>3, <2>1, AplicaAvance
<1>4. CASE v.clase = "fat"
  <2> DEFINE w == IF r = "bien" THEN F.pedida ELSE NoHay
             G == [F EXCEPT !.ventana = w, !.pedida = NoHay]
  <2>2. w \in 0..NZonas /\ NoHay \in 0..NZonas
    BY <1>1, DiscoAssumption DEF LasCargas, NoHay
  <2> HIDE DEF w
  <2>3. G \in LasCargas /\ G.fichero = F.fichero /\ G.duermen = F.duermen
    BY <1>1, <2>2 DEF LasCargas
  <2>4. Llega(F, v, r) = IF r = "bien" THEN G ELSE Aplica(G, v.i, r, 0)
    BY <1>4 DEF Llega, w
  <2> HIDE DEF G
  <2>5. Avance(F, G, j) /\ \A H : Avance(G, H, j) <=> Avance(F, H, j)
    BY <2>3, MismaVista
  <2>6. r # "bien" => Avance(G, Aplica(G, v.i, r, 0), j)
    <3>1. G.fichero[v.i].cluster # 0 \/ v.i \notin G.duermen
      BY <2>3
    <3> QED
      BY <1>1, <1>4, <2>3, <3>1, AplicaAvance
  <2> QED
    BY <2>4, <2>5, <2>6
<1> QED
  BY <1>1, <1>2, <1>3, <1>4

-----------------------------------------------------------------------------
(* The steps of Carga, from what the state says of each slot. *)

(* What slot j shows, which is the beginning of its file. *)
Visto(j) ==
  /\ EnUso[j] = fichero[j].abierto
  /\ Viene[j] = (fichero[j].cluster # 0)
  /\ Leible[j] = Lectores!Primeros(fichero[j].largo)
  /\ fichero[j].largo \in 0..NTrozos
  /\ fichero[j].cluster # 0 => fichero[j].abierto /\ fichero[j].largo < NTrozos
  /\ ~fichero[j].abierto => fichero[j].cluster = 0 /\ fichero[j].largo = 0

LEMMA LoQueSeVe == IInv => \A j \in Ranuras : Visto(j)
<1> SUFFICES ASSUME IInv, NEW j \in Ranuras PROVE Visto(j)
  OBVIOUS
<1>1. CargaSana(Cargas) /\ Contado(Puerto, Cargas) /\ Cargas \in LasCargas
  BY DEF IInv, Sano, CargaSana
<1>2. fichero \in [Ranuras -> Ficheros]
  BY <1>1, Campos DEF LasCargas
<1>3. fichero[j] \in Ficheros
  BY <1>2
<1>4. /\ fichero[j].largo \in 0..NTrozos /\ fichero[j].cluster \in 0..NTrozos
  BY <1>3 DEF Ficheros
<1>5. /\ fichero[j].cluster # 0 => fichero[j].abierto /\ fichero[j].cluster = fichero[j].largo + 1
      /\ ~fichero[j].abierto => fichero[j].cluster = 0 /\ fichero[j].largo = 0
  BY <1>1, Campos DEF CargaSana
<1>6. fichero[j].cluster # 0 => fichero[j].largo < NTrozos
  BY <1>4, <1>5, DiscoAssumption
<1>7. \A k \in 1..fichero[j].largo : memoria[j][k] = k
  BY <1>1, Campos DEF Contado
<1>8. Leible[j] = Lectores!Primeros(fichero[j].largo)
  BY <1>7 DEF Leible, Lectores!Primeros
<1>9. EnUso[j] = fichero[j].abierto /\ Viene[j] = (fichero[j].cluster # 0)
  BY DEF EnUso, Viene
<1> QED
  BY <1>4, <1>5, <1>6, <1>8, <1>9 DEF Visto

LEMMA LoQueSeVera == IInv' => (\A j \in Ranuras : Visto(j))'
  BY LoQueSeVe, PTL

(* The step of one slot. *)
Paso(j) == \/ Lectores!Abre(j) \/ Lectores!Llega(j) \/ Lectores!Corta(j)
           \/ Lectores!Espera(j) \/ Lectores!Cierra(j) \/ Lectores!Queda(j)

LEMMA AvancePaso ==
  ASSUME IInv, IInv', NEW j \in Ranuras, Avance(Cargas, Cargas', j)
  PROVE  Paso(j)
<1>1. Visto(j)
  BY LoQueSeVe
<1>2. Visto(j)'
  BY LoQueSeVera
<1>3. /\ Cargas.fichero = fichero /\ Cargas.duermen = duermen
      /\ Cargas'.fichero = fichero' /\ Cargas'.duermen = duermen'
  BY DEF Cargas
<1>4. CASE Igual(Cargas, Cargas', j)
  BY <1>1, <1>2, <1>3, <1>4 DEF Paso, Igual, Visto, Lectores!Queda
<1>5. CASE Noticia(Cargas, Cargas', j)
  <2>1. /\ Viene[j] /\ EnUso'[j] = EnUso[j] /\ j \notin duermen'
    BY <1>1, <1>2, <1>3, <1>5 DEF Noticia, Visto
  <2>2. CASE fichero'[j].largo > fichero[j].largo
    <3> DEFINE n == fichero'[j].largo
    <3>1. /\ n \in 1..NTrozos /\ Leible'[j] = Lectores!Primeros(n)
          /\ Viene'[j] => n < NTrozos
      <4>1. n \in 0..NTrozos /\ fichero[j].largo \in 0..NTrozos
        BY <1>1, <1>2 DEF Visto
      <4>2. n \in 1..NTrozos
        BY <4>1, <2>2, DiscoAssumption
      <4>3. Leible'[j] = Lectores!Primeros(n) /\ (Viene'[j] => n < NTrozos)
        BY <1>2 DEF Visto
      <4> QED
        BY <4>2, <4>3
    <3>2. n \notin DOMAIN Leible[j]
      <4>1. DOMAIN Leible[j] = 1..fichero[j].largo
        BY <1>1 DEF Visto, Lectores!Primeros
      <4> QED
        <5>1. fichero[j].largo \in Nat /\ n \in Nat
          BY <1>1, <1>2, DiscoAssumption DEF Visto
        <5> QED
          BY <4>1, <2>2, <5>1
    <3> HIDE DEF n
    <3>3. Lectores!Llega(j)
      BY <2>1, <3>1, <3>2 DEF Lectores!Llega
    <3> QED
      BY <3>3 DEF Paso
  <2>3. CASE fichero'[j].largo = fichero[j].largo /\ fichero'[j].cluster = 0
    BY <1>1, <1>2, <2>1, <2>3 DEF Paso, Visto, Lectores!Corta
  <2> QED
    BY <1>3, <1>5, <2>2, <2>3 DEF Noticia
<1> QED
  BY <1>4, <1>5 DEF Avance

-----------------------------------------------------------------------------
(* What each step of Disco brings to slot j. *)

LEMMA CierraAvance ==
  ASSUME IInv, NadieEnVano, NEW c \in CerrarVuelo(en_vuelo), NEW j \in Ranuras
  PROVE  Avance(Cargas, c.cargas, j)
<1>1. CargaSana(Cargas) /\ VueloSano(Puerto, Cargas, en_vuelo)
  BY DEF IInv, Sano
<1>2. \A i \in Cargas.duermen : Cargas.fichero[i].cluster # 0
  BY Campos DEF NadieEnVano
<1>3. \A r : Avance(Cargas, Llega(Cargas, en_vuelo, r), j)
  BY <1>1, <1>2, LlegaAvance
<1>4. Avance(Cargas, Cargas, j)
  BY DEF Avance, Igual
<1> QED
  BY <1>3, <1>4 DEF CerrarVuelo

LEMMA TrasAvance ==
  ASSUME IInv, NadieEnVano, NEW j \in Ranuras
  PROVE  Avance(Cargas, Tras.cargas, j)
<1>1. CargaSana(Cargas) /\ VueloSano(Puerto, Cargas, en_vuelo)
  BY DEF IInv, Sano
<1>2. \A i \in Cargas.duermen : Cargas.fichero[i].cluster # 0
  BY Campos DEF NadieEnVano
<1> QED
  BY <1>1, <1>2, LlegaAvance DEF Tras

(* With the files and the sleepers as they were. *)
LEMMA QuietaAvance ==
  ASSUME UNCHANGED <<fichero, duermen>>, NEW j \in Ranuras
  PROVE  Avance(Cargas, Cargas', j)
<1>1. Cargas'.fichero = Cargas.fichero /\ Cargas'.duermen = Cargas.duermen
  BY DEF Cargas
<1> QED
  BY <1>1 DEF Avance, Igual

LEMMA LeerAvance ==
  ASSUME IInv, NadieEnVano, NEW i \in Ranuras, Leer(i), NEW j \in Ranuras
  PROVE  Avance(Cargas, Cargas', j)
<1>1. PICK c \in CerrarVuelo(en_vuelo) :
       IF c.cargas.fichero[i].cluster = 0
       THEN QuedaPuerto(c.puerto) /\ QuedaCargas(c.cargas)
       ELSE \E P \in Cosechados(c.puerto) : \E e \in Ordenes(P, Datos(c.cargas, i)) :
              /\ QuedaPuerto(e.puerto)
              /\ QuedaCargas([c.cargas EXCEPT !.fichero[i] = Avanzada(@, e.ok)])
  BY DEF Leer
<1>2. c.cargas \in LasCargas /\ CargaSana(c.cargas)
  BY CierraSano DEF Sano, CargaSana
<1>3. Avance(Cargas, c.cargas, j) /\ Avance(Cargas, c.cargas, i)
  BY CierraAvance
<1>4. CASE c.cargas.fichero[i].cluster = 0
  <2>1. Cargas' = c.cargas
    BY <1>1, <1>2, <1>4, QuedaEs
  <2> QED
    BY <1>3, <2>1
<1>5. CASE c.cargas.fichero[i].cluster # 0
  <2> DEFINE F == c.cargas
             g == F.fichero[i]
  <2>1. PICK P \in Cosechados(c.puerto) : \E e \in Ordenes(P, Datos(F, i)) :
              QuedaCargas([F EXCEPT !.fichero[i] = Avanzada(@, e.ok)])
    BY <1>1, <1>5
  <2>2. PICK e \in Ordenes(P, Datos(F, i)) :
              QuedaCargas([F EXCEPT !.fichero[i] = Avanzada(@, e.ok)])
    BY <2>1
  <2> DEFINE f == Avanzada(g, e.ok)
             G == [F EXCEPT !.fichero[i] = f]
  <2>3. /\ F \in LasCargas /\ g \in Ficheros /\ g.largo \in Nat
        /\ g.cluster # 0 /\ g.abierto
    BY <1>2, <1>5 DEF CargaSana, LasCargas, Ficheros
  <2>4. /\ f.abierto = g.abierto
        /\ f.largo = g.largo + 1 \/ (f.largo = g.largo /\ f.cluster = 0)
    <3>1. CASE e.ok
      BY <2>3, <3>1 DEF Avanzada, Ficheros
    <3>2. CASE ~e.ok
      BY <2>3, <3>2 DEF Avanzada, Ficheros
    <3> QED
      BY <3>1, <3>2
  <2>5. QuedaCargas(G)
    BY <2>2
  <2>6. i \notin F.duermen
    <3>1. i \notin Cargas.duermen
      BY Campos DEF Leer
    <3> QED
      BY <1>3, <3>1 DEF Avance, Igual, Noticia
  <2> HIDE DEF f, F, g
  <2>7. /\ G.fichero = [F.fichero EXCEPT ![i] = f] /\ G.duermen = F.duermen
    BY <2>3 DEF LasCargas
  <2>8. Cargas'.fichero = G.fichero /\ Cargas'.duermen = G.duermen
    BY <2>5 DEF QuedaCargas, Cargas
  <2> HIDE DEF G
  <2>9. Avance(F, Cargas', j)
    <3>1. CASE j # i
      BY <2>3, <2>7, <2>8, <3>1 DEF LasCargas, Avance, Igual
    <3>2. CASE j = i
      <4>1. Cargas'.fichero[j] = f /\ F.fichero[j] = g
        BY <2>3, <2>7, <2>8, <3>2 DEF LasCargas, g
      <4>2. j \notin Cargas'.duermen
        BY <2>6, <2>7, <2>8, <3>2
      <4>3. f.largo > g.largo \/ (f.largo = g.largo /\ f.cluster = 0)
        BY <2>3, <2>4
      <4>4. Noticia(F, Cargas', j)
        BY <2>3, <2>4, <4>1, <4>2, <4>3 DEF Noticia
      <4> QED
        BY <4>4 DEF Avance
    <3> QED
      BY <3>1, <3>2
  <2>10. Cargas' \in LasCargas /\ Cargas \in LasCargas
    <3>1. IInv'
      BY LeerIInv
    <3> QED
      BY <3>1 DEF IInv, Sano, CargaSana, LasCargas, Ficheros
  <2> QED
    BY <1>3, <2>3, <2>9, <2>10, AvanceSigue DEF F
<1> QED
  BY <1>4, <1>5

LEMMA TrabajaAvance ==
  ASSUME IInv, NadieEnVano, Trabaja, NEW j \in Ranuras
  PROVE  Avance(Cargas, Cargas', j)
<1> DEFINE P == Tras.puerto
           F == Tras.cargas
<1>1. PICK i \in Pendientes(F) : PideDatos(P, F, i) \/ PideFat(P, F, i) \/ NoSePudo(P, F, i)
  BY DEF Trabaja
<1>2. CargaSana(F) /\ F \in LasCargas
  BY TrasSano DEF Trabaja, Sano, CargaSana
<1>3. Avance(Cargas, F, j)
  BY TrasAvance
<1> HIDE DEF F, P
<1>4. i \in Ranuras /\ F.fichero[i].cluster # 0
  BY <1>1 DEF Pendientes
<1>5. Cargas' \in LasCargas /\ Cargas \in LasCargas
  <2>1. IInv'
    BY TrabajaIInv
  <2> QED
    BY <2>1 DEF IInv, Sano, CargaSana, LasCargas, Ficheros
<1>6. Avance(F, Cargas', j)
  <2>1. CASE PideDatos(P, F, i)
    <3>1. Cargas'.fichero = F.fichero /\ Cargas'.duermen = F.duermen
      BY <2>1 DEF PideDatos, QuedaCargas, Cargas
    <3> QED
      BY <3>1, MismaVista
  <2>2. CASE PideFat(P, F, i)
    <3> DEFINE w == F.fichero[i].zona
               G == [F EXCEPT !.ventana = NoHay, !.pedida = w]
    <3>1. QuedaCargas(G)
      BY <2>2 DEF PideFat
    <3> HIDE DEF w
    <3>2. G.fichero = F.fichero /\ G.duermen = F.duermen
      BY <1>2 DEF LasCargas
    <3> HIDE DEF G
    <3>3. Cargas'.fichero = F.fichero /\ Cargas'.duermen = F.duermen
      BY <3>1, <3>2 DEF QuedaCargas, Cargas
    <3> QED
      BY <3>3, MismaVista
  <2>3. CASE NoSePudo(P, F, i)
    <3> DEFINE K == [F EXCEPT !.ventana = NoHay, !.pedida = NoHay]
               H == IF F.ventana = F.fichero[i].zona THEN F ELSE K
               G == Aplica(H, i, "mal", 0)
    <3>1. QuedaCargas(G)
      BY <2>3 DEF NoSePudo
    <3>2. K \in LasCargas /\ K.fichero = F.fichero /\ K.duermen = F.duermen
      <4>1. NoHay \in 0..NZonas
        BY DiscoAssumption DEF NoHay
      <4> QED
        BY <1>2, <4>1 DEF LasCargas
    <3> HIDE DEF K
    <3>3. H \in LasCargas /\ H.fichero = F.fichero /\ H.duermen = F.duermen
      BY <1>2, <3>2
    <3> HIDE DEF H
    <3>4. Avance(H, G, j)
      BY <1>4, <3>3, AplicaAvance
    <3> HIDE DEF G
    <3>5. Avance(F, G, j)
      BY <3>3, <3>4, MismaVista
    <3>6. Cargas'.fichero = G.fichero /\ Cargas'.duermen = G.duermen
      BY <3>1 DEF QuedaCargas, Cargas
    <3> QED
      BY <3>5, <3>6 DEF Avance, Igual, Noticia
  <2> QED
    BY <1>1, <2>1, <2>2, <2>3
<1> QED
  BY <1>2, <1>3, <1>5, <1>6, AvanceSigue

LEMMA SinTrabajoAvance ==
  ASSUME IInv, NadieEnVano, SinTrabajo, NEW j \in Ranuras
  PROVE  Avance(Cargas, Cargas', j)
<1>1. Tras.cargas \in LasCargas
  BY TrasSano DEF SinTrabajo, Sano, CargaSana
<1>2. Cargas' = Tras.cargas
  BY <1>1, QuedaEs DEF SinTrabajo
<1> QED
  BY <1>2, TrasAvance

(* abrir_asinc begins a load; WAIT sleeps on one that is under way.        *)
LEMMA AbrirPaso ==
  ASSUME IInv, NadieEnVano, Abrir, NEW j \in Ranuras
  PROVE  Paso(j)
<1>1. PICK i \in Ranuras, z \in Zonas :
        /\ PrimeraLibre(i)
        /\ fichero' = [fichero EXCEPT ![i] = [ver |-> @.ver + 1, zona |-> z,
                         abierto |-> TRUE, cluster |-> 1, largo |-> 0]]
  BY DEF Abrir
<1>2. IInv' /\ Visto(j) /\ Visto(j)'
  BY AbrirIInv, LoQueSeVe, LoQueSeVera
<1>3. fichero \in [Ranuras -> Ficheros] /\ duermen' = duermen
  BY Campos DEF IInv, Sano, CargaSana, LasCargas, Abrir
<1>4. CASE j # i
  <2>1. fichero'[j] = fichero[j]
    BY <1>1, <1>3, <1>4
  <2>2. Avance(Cargas, Cargas', j)
    BY <1>3, <2>1 DEF Avance, Igual, Cargas
  <2> QED
    BY <1>2, <2>2, AvancePaso
<1>5. CASE j = i
  <2>1. fichero'[j].abierto /\ fichero'[j].cluster = 1 /\ fichero'[j].largo = 0
    BY <1>1, <1>3, <1>5
  <2>2. ~fichero[j].abierto /\ j \notin duermen
    BY <1>1, <1>2, <1>5 DEF PrimeraLibre, Visto, NadieEnVano
  <2>3. ~EnUso[j] /\ EnUso'[j] /\ Viene'[j]
    <3>1. EnUso[j] = fichero[j].abierto /\ EnUso'[j] = fichero'[j].abierto
      BY <1>2 DEF Visto
    <3>2. Viene'[j] = (fichero'[j].cluster # 0)
      BY <1>2 DEF Visto
    <3>3. fichero'[j].cluster # 0
      BY <2>1
    <3> QED
      BY <2>1, <2>2, <3>1, <3>2, <3>3, Zenon
  <2>4. Leible'[j] = Lectores!Primeros(0) /\ j \notin duermen'
    BY <1>2, <1>3, <2>1, <2>2 DEF Visto
  <2>5. Lectores!Abre(j)
    BY <2>3, <2>4 DEF Lectores!Abre, Lectores!Nuevo
  <2> QED
    BY <2>5 DEF Paso
<1> QED
  BY <1>4, <1>5

LEMMA EsperarPaso ==
  ASSUME IInv, NEW i \in Ranuras, Esperar(i), NEW j \in Ranuras
  PROVE  Paso(j)
<1>1. IInv' /\ Visto(j) /\ Visto(j)'
  BY EsperarIInv, LoQueSeVe, LoQueSeVera
<1>2. fichero' = fichero /\ duermen' = duermen \cup {i} /\ fichero[i].cluster # 0
  BY DEF Esperar
<1>3. CASE j # i
  <2>1. Avance(Cargas, Cargas', j)
    BY <1>2, <1>3 DEF Avance, Igual, Cargas
  <2> QED
    BY <1>1, <2>1, AvancePaso
<1>4. CASE j = i
  BY <1>1, <1>2, <1>4 DEF Paso, Visto, Lectores!Espera
<1> QED
  BY <1>3, <1>4

(* release ends the load of its slot; what its flight brought to another   *)
(* is news there.                                                          *)
LEMMA CerrarPaso ==
  ASSUME IInv, NadieEnVano, NEW i \in Ranuras, Cerrar(i), NEW j \in Ranuras
  PROVE  Paso(j)
<1>1. IInv' /\ Visto(j) /\ Visto(j)'
  BY CerrarIInv, LoQueSeVe, LoQueSeVera
<1>2. PICK c \in Soltados(i) :
        QuedaCargas([c.cargas EXCEPT !.duermen = @ \ {i}, !.fichero[i] = Libre(@.ver)])
  BY DEF Cerrar
<1>3. PICK d \in (IF en_vuelo.i = i THEN CerrarVuelo(en_vuelo)
                  ELSE {[puerto |-> Puerto, cargas |-> Cargas]}) :
        c = [puerto |-> d.puerto, cargas |-> [d.cargas EXCEPT !.fichero[i].cluster = 0]]
  BY DEF Soltados
<1> DEFINE F == d.cargas
           h == [F.fichero[i] EXCEPT !.cluster = 0]
           F2 == [F EXCEPT !.fichero[i] = h]
           f == Libre(F2.fichero[i].ver)
           G == [F2 EXCEPT !.duermen = @ \ {i}, !.fichero[i] = f]
<1>4. F \in LasCargas /\ Avance(Cargas, F, j)
  <2>1. CASE en_vuelo.i = i
    BY <1>3, <2>1, CierraSano, CierraAvance DEF Sano, CargaSana
  <2>2. CASE en_vuelo.i # i
    BY <1>3, <2>2 DEF IInv, Sano, CargaSana, Avance, Igual
  <2> QED
    BY <2>1, <2>2
<1>5. QuedaCargas(G)
  <2>1. c.cargas = F2
    BY <1>3
  <2> QED
    BY <1>2, <2>1
<1> HIDE DEF F, h
<1>6. /\ F2.fichero = [F.fichero EXCEPT ![i] = h] /\ F2.duermen = F.duermen
      /\ DOMAIN F.fichero = Ranuras
  BY <1>4 DEF LasCargas
<1>7. ~f.abierto /\ f.cluster = 0 /\ f.largo = 0
  BY DEF Libre
<1>8. /\ G.fichero = [F2.fichero EXCEPT ![i] = f] /\ G.duermen = F2.duermen \ {i}
  <2> HIDE DEF f
  <2>1. \E a, b, v : F = [fichero |-> a, ventana |-> b, pedida |-> v, duermen |-> F.duermen]
    BY <1>4 DEF LasCargas
  <2> QED
    BY <1>4 DEF LasCargas
<1> HIDE DEF f, F2
<1>9. fichero' = G.fichero /\ duermen' = G.duermen
  BY <1>5 DEF QuedaCargas
<1> HIDE DEF G
<1>10. CASE j # i
  <2>1. fichero'[j] = F.fichero[j] /\ (j \in duermen' <=> j \in F.duermen)
    BY <1>6, <1>8, <1>9, <1>10
  <2>2. Avance(Cargas, Cargas', j)
    <3>1. Cargas'.fichero = fichero' /\ Cargas'.duermen = duermen'
      BY DEF Cargas
    <3> QED
      BY <1>4, <2>1, <3>1 DEF Avance, Igual, Noticia
  <2> QED
    BY <1>1, <2>2, AvancePaso
<1>11. CASE j = i
  <2>1. fichero'[j] = f /\ j \notin duermen'
    BY <1>6, <1>8, <1>9, <1>11
  <2>2. fichero[j].abierto
    BY <1>11 DEF Cerrar
  <2>3. Lectores!Cierra(j)
    BY <1>1, <1>7, <2>1, <2>2 DEF Visto, Lectores!Cierra, Lectores!Nuevo
  <2> QED
    BY <2>3 DEF Paso
<1> QED
  BY <1>10, <1>11

(* The sleepers that nobody wakes are those of a load under way, because   *)
(* each step that ends one is news to its slot.                            *)
LEMMA PasoNadieEnVano ==
  ASSUME IInv, IInv', NadieEnVano, \A j \in Ranuras : Paso(j)
  PROVE  NadieEnVano'
<1> SUFFICES ASSUME NEW j \in duermen' PROVE fichero'[j].cluster # 0
  BY DEF NadieEnVano
<1>1. j \in Ranuras
  BY DEF IInv, Sano, CargaSana, LasCargas, Cargas
<1>2. Visto(j) /\ Visto(j)' /\ Paso(j)
  BY <1>1, LoQueSeVe, LoQueSeVera
<1>3. Viene'[j]
  <2>1. CASE Lectores!Espera(j)
    BY <2>1 DEF Lectores!Espera
  <2>2. CASE Lectores!Queda(j)
    <3>1. Viene'[j] = Viene[j] /\ j \in duermen
      BY <2>2 DEF Lectores!Queda
    <3>2. fichero[j].cluster # 0 /\ Viene[j] = (fichero[j].cluster # 0)
      BY <1>2, <3>1 DEF NadieEnVano, Visto
    <3> QED
      BY <3>1, <3>2, Zenon
  <2> QED
    BY <1>2, <2>1, <2>2 DEF Paso, Lectores!Abre, Lectores!Llega, Lectores!Corta,
       Lectores!Cierra, Lectores!Nuevo
<1>4. Viene'[j] = (fichero'[j].cluster # 0)
  BY <1>2 DEF Visto
<1> QED
  BY <1>3, <1>4, Zenon

LEMMA NextPaso ==
  ASSUME IInv, NadieEnVano, Next, NEW j \in Ranuras
  PROVE  Paso(j)
<1>1. IInv'
  BY NextIInv
<1>2. ASSUME UNCHANGED <<fichero, duermen>> PROVE Paso(j)
  BY <1>1, <1>2, QuietaAvance, AvancePaso
<1>3. CASE Contesta \/ OtraOrden \/ CerrarEscrito \/ Lee \/ SigueEsperando \/ Aparca \/ Vence
  BY <1>2, <1>3 DEF Contesta, OtraOrden, CerrarEscrito, Lee, SigueEsperando, Aparca, Vence,
     cargas
<1>4. CASE Trabaja
  BY <1>1, <1>4, TrabajaAvance, AvancePaso
<1>5. CASE SinTrabajo
  BY <1>1, <1>5, SinTrabajoAvance, AvancePaso
<1>6. CASE Abrir
  BY <1>6, AbrirPaso
<1>7. ASSUME NEW i \in Ranuras, Leer(i) PROVE Paso(j)
  BY <1>1, <1>7, LeerAvance, AvancePaso
<1>8. ASSUME NEW i \in Ranuras, Esperar(i) PROVE Paso(j)
  BY <1>8, EsperarPaso
<1>9. ASSUME NEW i \in Ranuras, Cerrar(i) PROVE Paso(j)
  BY <1>9, CerrarPaso
<1> QED
  BY <1>3, <1>4, <1>5, <1>6, <1>7, <1>8, <1>9 DEF Next, Hilo, Programas

(* Each program sees its file come, as Carga says: whatever the device,    *)
(* the thread, who takes the disk and the other programs do, a step brings *)
(* a slot its next pieces, the end of its load or nothing, and who slept   *)
(* on it is awake after any news.                                          *)
THEOREM ReadersSeeTheirLoads == Spec => ReadersSeeTheLoad
<1> DEFINE Todo == IInv /\ NadieEnVano
<1>1. Init => Todo /\ Lectores!Init
  <2> SUFFICES ASSUME Init PROVE Todo /\ Lectores!Init
    OBVIOUS
  <2>1. IInv /\ NadieEnVano
    BY InitIInv DEF Init, NadieEnVano
  <2>2. \A j \in Ranuras : fichero[j] = Libre(0)
    BY DEF Init
  <2>3. /\ EnUso = [j \in Ranuras |-> FALSE] /\ Viene = [j \in Ranuras |-> FALSE]
    <3>1. \A j \in Ranuras : /\ fichero[j].abierto = FALSE
                             /\ fichero[j].cluster = 0
      BY <2>2 DEF Libre
    <3>2. \A j \in Ranuras : (fichero[j].cluster # 0) = FALSE
      BY <3>1
    <3>3. EnUso = [j \in Ranuras |-> FALSE]
      BY <3>1 DEF EnUso
    <3>4. Viene = [j \in Ranuras |-> FALSE]
      BY <3>2, Zenon DEF Viene
    <3> QED
      BY <3>3, <3>4
  <2>4. Leible = [j \in Ranuras |-> Lectores!Primeros(0)]
    BY <2>2 DEF Leible, Lectores!Primeros, Libre
  <2> QED
    BY <2>1, <2>3, <2>4 DEF Init, Lectores!Init
<1>2. Todo /\ [Next]_vars => Todo' /\ [Lectores!Next]_(Lectores!vars)
  <2> SUFFICES ASSUME IInv, NadieEnVano, [Next]_vars
               PROVE  Todo' /\ [Lectores!Next]_(Lectores!vars)
    OBVIOUS
  <2>1. IInv'
    BY NextIInv
  <2>2. CASE Next
    <3>1. \A j \in Ranuras : Paso(j)
      BY <2>2, NextPaso
    <3>2. NadieEnVano'
      BY <2>1, <3>1, PasoNadieEnVano
    <3>3. Lectores!Next
      BY <3>1 DEF Paso, Lectores!Next
    <3> QED
      BY <2>1, <3>2, <3>3
  <2>3. CASE UNCHANGED vars
    <3>1. NadieEnVano'
      BY <2>3 DEF vars, cargas, NadieEnVano
    <3>2. UNCHANGED Lectores!vars
      BY <2>3 DEF vars, puerto, cargas, Lectores!vars, EnUso, Leible, Viene
    <3> QED
      BY <2>1, <3>1, <3>2
  <2> QED
    BY <2>2, <2>3
<1> HIDE DEF Todo
<1> QED
  BY <1>1, <1>2, PTL DEF Spec, ReadersSeeTheLoad, Lectores!Spec
=============================================================================
