--------------------------- MODULE PrestamoProofs ---------------------------
(***************************************************************************)
(* Proofs about Prestamo, for any number of processes, frames, addresses   *)
(* and offers.                                                             *)
(***************************************************************************)
EXTENDS Prestamo, TLAPS

(* The table of offers: which one may be taken, and who is left of it. *)
OfertasEnOrden ==
  \A i \in Ranuras :
    LET o == oferta[i]
    IN /\ o.viva => o.owner \in Procesos /\ o.destino \in Procesos
                    /\ o.owner # o.destino /\ o.largo > 0
       /\ o.viva /\ ~o.tomada => o.owner \in vivos
       /\ o.tomada => o.viva /\ o.destino \in vivos
       /\ o.huerfana => o.tomada
       /\ o.viva /\ ~SePasan => o.largo = 1

(* The accounts: what a process has, sees, and holds a handle of. *)
CuentasEnOrden ==
  \A p \in Procesos :
    /\ propio[p] = Bloques(p)
    /\ \A v \in Sitios :
         /\ bloque[p][v] # SinMarco => p \in vivos /\ v < cursor[p]
         /\ p \in vivos /\ pagina[p][v] # SinMarco => bloque[p][v] = pagina[p][v]

(* Frames: of one block, retained once, or free. *)
UnSoloDueno ==
  /\ \A p, q \in Procesos : \A v, w \in Sitios :
       bloque[p][v] # SinMarco /\ bloque[p][v] = bloque[q][w] => p = q /\ v = w
  /\ \A p \in Procesos : \A v \in Sitios : bloque[p][v] \notin libres
  /\ \A r \in retenidos :
       /\ r.owner \notin vivos /\ r.marco \notin libres
       /\ \A p \in Procesos : \A v \in Sitios : bloque[p][v] # r.marco
       /\ \A s \in retenidos : s.marco = r.marco => s = r

(* Windows: what is in one is lent, and its owner or what was retained of  *)
(* it still answers for every frame.                                       *)
Responde(B, R, q, v, m) ==
  B[q][v] = m \/ [owner |-> q, base |-> v, marco |-> m] \in R

VentanasEnOrden ==
  /\ \A p \in Procesos : \A i \in Ranuras :
       ventana[p][i] # {} => oferta[i].tomada /\ oferta[i].destino = p
  /\ \A i \in Ranuras :
       oferta[i].tomada =>
         /\ ventana[oferta[i].destino][i] # {}
         /\ \A m \in ventana[oferta[i].destino][i] :
              \E v \in Sitios :
                /\ v \in Tramo(oferta[i])
                /\ Responde(bloque, retenidos, oferta[i].owner, v, m)

PrestadosEnOrden ==
  \A p \in vivos \ {muere} : \A i \in prestado[p] :
    oferta[i].tomada /\ oferta[i].destino = p

IInv ==
  /\ TypeOK /\ OfertasEnOrden /\ CuentasEnOrden /\ UnSoloDueno
  /\ VentanasEnOrden /\ PrestadosEnOrden

----------------------------------------------------------------------------
USE PrestamoAssumption

LEMMA TiposDeOfertas ==
  ASSUME TypeOK, NEW i \in Ranuras
  PROVE  /\ oferta[i] \in Oferta
         /\ oferta[i].viva \in BOOLEAN /\ oferta[i].tomada \in BOOLEAN
         /\ oferta[i].huerfana \in BOOLEAN
         /\ oferta[i].origen \in Nat /\ oferta[i].largo \in Nat
BY DEF TypeOK, Oferta

LEMMA TiposDeCampos ==
  ASSUME NEW o \in Oferta
  PROVE  /\ [o EXCEPT !.tomada = TRUE] \in Oferta
         /\ [o EXCEPT !.huerfana = TRUE] \in Oferta
         /\ \A n, k \in Nat : [o EXCEPT !.origen = n, !.largo = k] \in Oferta
         /\ NoOferta \in Oferta
BY DEF Oferta, NoOferta

Esperas == [base : 0 .. Tope, dormida : BOOLEAN]

LEMMA TiposDeEspera ==
  ASSUME NEW e \in Esperas
  PROVE  /\ \A b \in BOOLEAN : [e EXCEPT !.dormida = b] \in Esperas
         /\ NoEspera \in Esperas
BY DEF Esperas, NoEspera

(* What the return of a loan does to the types. *)
LEMMA TiposAlVolver ==
  ASSUME TypeOK, NEW p \in Procesos, NEW i \in Ranuras, Vuelve(p, i)
  PROVE  /\ libres' \subseteq Marcos
         /\ retenidos' \subseteq [owner : Procesos, base : Sitios, marco : Marcos]
         /\ oferta' \in [Ranuras -> Oferta]
         /\ ventana' \in [Procesos -> [Ranuras -> SUBSET Marcos]]
         /\ espera' \in [Procesos -> [base : 0 .. Tope, dormida : BOOLEAN]]
<1>1. oferta' \in [Ranuras -> Oferta]
  BY DEF TypeOK, Vuelve, NoOferta, Oferta
<1>2. ventana' \in [Procesos -> [Ranuras -> SUBSET Marcos]]
  BY DEF TypeOK, Vuelve
<1>3. espera' \in [Procesos -> [base : 0 .. Tope, dormida : BOOLEAN]]
  <2>1. espera \in [Procesos -> Esperas] /\ NoEspera \in Esperas
    BY DEF TypeOK, Esperas, NoEspera
  <2>2. espera' = espera \/ espera' = [espera EXCEPT ![oferta[i].owner] = NoEspera]
    BY DEF Vuelve, devuelto
  <2>3. espera' \in [Procesos -> Esperas]
    BY <2>1, <2>2
  <2> QED BY <2>3 DEF Esperas
<1>4. /\ libres' \subseteq Marcos
      /\ retenidos' \subseteq [owner : Procesos, base : Sitios, marco : Marcos]
  BY DEF TypeOK, Vuelve, devuelto
<1> QED BY <1>1, <1>2, <1>3, <1>4

LEMMA TypeStep == TypeOK /\ OfertasEnOrden /\ [Next]_vars => TypeOK'
<1> SUFFICES ASSUME TypeOK, OfertasEnOrden, [Next]_vars PROVE TypeOK'
  OBVIOUS
<1>1. ASSUME NEW p \in Procesos, Pide(p) PROVE TypeOK'
  BY <1>1 DEF TypeOK, Pide, Corre, HaySitio, Sitios
<1>2. ASSUME NEW p \in Procesos, PideEnVano(p) PROVE TypeOK'
  BY <1>2 DEF TypeOK, PideEnVano, cuentas, mapas, handles
<1>3. ASSUME NEW p \in Procesos, NEW q \in Procesos, NEW v \in Sitios,
             NEW desde \in 0 .. Tope, NEW largo \in 1 .. Tope,
             Ofrece(p, q, v, desde, largo)
      PROVE  TypeOK'
  <2>1. v + desde \in Nat /\ largo \in Nat
    BY DEF Sitios
  <2>2. oferta' \in [Ranuras -> Oferta]
    <3>1. PICK i \in Ranuras :
            \/ oferta' = [oferta EXCEPT ![i].origen = v + desde, ![i].largo = largo]
            \/ oferta' = [oferta EXCEPT ![i] =
                 [viva |-> TRUE, owner |-> p, destino |-> q, origen |-> v + desde,
                  largo |-> largo, tomada |-> FALSE, huerfana |-> FALSE]]
      BY <1>3 DEF Ofrece
    <3>2. [viva |-> TRUE, owner |-> p, destino |-> q, origen |-> v + desde,
           largo |-> largo, tomada |-> FALSE, huerfana |-> FALSE] \in Oferta
      BY <2>1 DEF Oferta
    <3>3. [oferta[i] EXCEPT !.origen = v + desde, !.largo = largo] \in Oferta
      BY <2>1, TiposDeOfertas, TiposDeCampos
    <3>4. oferta \in [Ranuras -> Oferta]
      BY DEF TypeOK
    <3> QED BY <3>1, <3>2, <3>3, <3>4
  <2> QED BY <1>3, <2>2 DEF TypeOK, Ofrece, cuentas, mapas, handles
<1>4. ASSUME NEW p \in Procesos, Toma(p) PROVE TypeOK'
  <2>1. PICK i \in Ranuras :
          /\ Tramo(oferta[i]) \subseteq {v \in Sitios : pagina[oferta[i].owner][v] # SinMarco}
          /\ ventana' = [ventana EXCEPT ![p][i] =
                           {pagina[oferta[i].owner][v] : v \in Tramo(oferta[i])}]
          /\ oferta' = [oferta EXCEPT ![i].tomada = TRUE]
          /\ prestado' = [prestado EXCEPT ![p] = @ \cup {i}]
          /\ i \in ParaMi(p)
    BY <1>4 DEF Toma, Primera
  <2>2. oferta' \in [Ranuras -> Oferta]
    BY <2>1, TiposDeOfertas, TiposDeCampos DEF TypeOK
  <2>3. {pagina[oferta[i].owner][v] : v \in Tramo(oferta[i])} \subseteq Marcos
    <3>1. oferta[i].owner \in Procesos
      BY <2>1 DEF OfertasEnOrden, ParaMi
    <3> QED BY <2>1, <3>1 DEF TypeOK
  <2>4. ventana' \in [Procesos -> [Ranuras -> SUBSET Marcos]]
    BY <2>1, <2>3 DEF TypeOK
  <2>5. prestado' \in [Procesos -> SUBSET Ranuras]
    BY <2>1 DEF TypeOK
  <2> QED BY <1>4, <2>2, <2>4, <2>5 DEF TypeOK, Toma, cuentas
<1>5. ASSUME NEW p \in Procesos, NEW i \in Ranuras, Devuelve(p, i) PROVE TypeOK'
  BY <1>5, TiposAlVolver DEF TypeOK, Devuelve, Revoca, cuentas
<1>6. ASSUME NEW p \in Procesos, NEW v \in Sitios, NoSuelta(p, v) PROVE TypeOK'
  BY <1>6 DEF TypeOK, NoSuelta, Sitios, cuentas, mapas, handles
<1>7. ASSUME NEW p \in Procesos, NEW v \in Sitios, Suelta(p, v) PROVE TypeOK'
  BY <1>7 DEF TypeOK, Suelta, Bloques
<1>8. ASSUME NEW p \in Procesos, NEW v \in Sitios, Sella(p, v) PROVE TypeOK'
  BY <1>8 DEF TypeOK, Sella, Bloques, handles
<1>9. ASSUME NEW p \in Procesos, Espera(p) \/ Vence(p) PROVE TypeOK'
  <2>1. espera \in [Procesos -> Esperas]
    BY DEF TypeOK, Esperas
  <2>2. PICK b \in BOOLEAN : espera' = [espera EXCEPT ![p].dormida = b]
    BY <1>9 DEF Espera, Vence
  <2>3. espera' \in [Procesos -> Esperas]
    BY <2>1, <2>2, TiposDeEspera
  <2> QED BY <1>9, <2>3 DEF TypeOK, Esperas, Espera, Vence, cuentas, mapas, handles
<1>10. ASSUME NEW p \in Procesos, Muere(p) PROVE TypeOK'
  BY <1>10 DEF TypeOK, Muere, cuentas, mapas, handles
<1>11. CASE MuerePrestamo
  <2>1. PICK i \in Ranuras :
          IF oferta[i].destino = muere /\ oferta[i].tomada
          THEN Vuelve(muere, i)
          ELSE /\ oferta' = IF oferta[i].tomada
                            THEN [oferta EXCEPT ![i].huerfana = TRUE]
                            ELSE [oferta EXCEPT ![i] = NoOferta]
               /\ UNCHANGED <<libres, retenidos, ventana, espera>>
    BY <1>11 DEF MuerePrestamo
  <2>2. muere \in Procesos
    BY <1>11 DEF MuerePrestamo, TypeOK
  <2>3. CASE oferta[i].destino = muere /\ oferta[i].tomada
    BY <1>11, <2>1, <2>2, <2>3, TiposAlVolver DEF TypeOK, MuerePrestamo, cuentas, handles
  <2>4. CASE ~(oferta[i].destino = muere /\ oferta[i].tomada)
    <3>1. oferta' \in [Ranuras -> Oferta]
      <4>1. /\ oferta[i] \in Oferta /\ NoOferta \in Oferta
            /\ [oferta[i] EXCEPT !.huerfana = TRUE] \in Oferta
        BY TiposDeOfertas, TiposDeCampos
      <4>2. oferta \in [Ranuras -> Oferta]
        BY DEF TypeOK
      <4> QED BY <2>1, <2>4, <4>1, <4>2
    <3> QED BY <1>11, <2>1, <2>4, <3>1 DEF TypeOK, MuerePrestamo, cuentas, handles
  <2> QED BY <2>3, <2>4
<1>12. CASE MuereMemoria
  <2>1. muere \in Procesos
    BY <1>12 DEF MuereMemoria, TypeOK
  <2>2. libres' \subseteq Marcos
    BY <1>12, <2>1 DEF MuereMemoria, TypeOK, Bloques
  <2>3. retenidos' \subseteq [owner : Procesos, base : Sitios, marco : Marcos]
    BY <1>12, <2>1 DEF MuereMemoria, TypeOK, Bloques, Retiene
  <2> QED BY <1>12, <2>1, <2>2, <2>3 DEF MuereMemoria, TypeOK, NoEspera, mapas, Sitios
<1>13. CASE UNCHANGED vars
  BY <1>13 DEF TypeOK, vars, cuentas, mapas, handles
<1> QED
  BY <1>1, <1>2, <1>3, <1>4, <1>5, <1>6, <1>7, <1>8, <1>9, <1>10, <1>11, <1>12, <1>13 DEF Next

----------------------------------------------------------------------------
(* The table of offers. *)
LEMMA OfertasStep ==
  TypeOK /\ OfertasEnOrden /\ [Next]_vars => OfertasEnOrden'
<1> SUFFICES ASSUME TypeOK, OfertasEnOrden, [Next]_vars PROVE OfertasEnOrden'
  OBVIOUS
<1> DEFINE Bien(o, V) == /\ o.viva => o.owner \in Procesos /\ o.destino \in Procesos
                                      /\ o.owner # o.destino /\ o.largo > 0
                         /\ o.viva /\ ~o.tomada => o.owner \in V
                         /\ o.tomada => o.viva /\ o.destino \in V
                         /\ o.huerfana => o.tomada
                         /\ o.viva /\ ~SePasan => o.largo = 1
<1>a. \A i \in Ranuras : Bien(oferta[i], vivos)
  BY DEF OfertasEnOrden
<1>b. ASSUME \A i \in Ranuras : Bien(oferta'[i], vivos') PROVE OfertasEnOrden'
  BY <1>b DEF OfertasEnOrden
<1>c. Bien(NoOferta, vivos)
  BY DEF NoOferta
<1>d. oferta \in [Ranuras -> Oferta]
  BY DEF TypeOK
<1>1. ASSUME NEW p \in Procesos, NEW q \in Procesos, NEW v \in Sitios,
             NEW desde \in 0 .. Tope, NEW largo \in 1 .. Tope,
             Ofrece(p, q, v, desde, largo)
      PROVE  OfertasEnOrden'
  <2>1. p \in vivos /\ q # p /\ vivos' = vivos
    BY <1>1 DEF Ofrece, Corre
  <2>2. largo > 0 /\ (~SePasan => largo = 1)
    BY <1>1 DEF Ofrece
  <2>3. PICK i \in Ranuras :
          \/ oferta' = [oferta EXCEPT ![i].origen = v + desde, ![i].largo = largo]
          \/ oferta' = [oferta EXCEPT ![i] =
               [viva |-> TRUE, owner |-> p, destino |-> q, origen |-> v + desde,
                largo |-> largo, tomada |-> FALSE, huerfana |-> FALSE]]
    BY <1>1 DEF Ofrece
  <2>4. Bien([viva |-> TRUE, owner |-> p, destino |-> q, origen |-> v + desde,
              largo |-> largo, tomada |-> FALSE, huerfana |-> FALSE], vivos)
    BY <2>1, <2>2
  <2>5. Bien([oferta[i] EXCEPT !.origen = v + desde, !.largo = largo], vivos)
    <3>1. oferta[i] \in Oferta /\ Bien(oferta[i], vivos)
      BY <1>a, TiposDeOfertas
    <3> QED BY <2>2, <3>1 DEF Oferta
  <2>6. \A j \in Ranuras : Bien(oferta'[j], vivos)
    <3> HIDE DEF Bien
    <3> QED BY <1>a, <1>d, <2>3, <2>4, <2>5
  <2> QED BY <2>1, <2>6, <1>b
<1>2. ASSUME NEW p \in Procesos, Toma(p) PROVE OfertasEnOrden'
  <2>1. PICK i \in Ranuras : i \in ParaMi(p) /\ oferta' = [oferta EXCEPT ![i].tomada = TRUE]
    BY <1>2 DEF Toma, Primera
  <2>2. p \in vivos /\ vivos' = vivos
    BY <1>2 DEF Toma, Corre
  <2>3. Bien([oferta[i] EXCEPT !.tomada = TRUE], vivos)
    <3>1. oferta[i] \in Oferta /\ Bien(oferta[i], vivos)
      BY <1>a, TiposDeOfertas
    <3>2. oferta[i].viva /\ oferta[i].destino = p
      BY <2>1 DEF ParaMi
    <3> QED BY <2>2, <3>1, <3>2 DEF Oferta
  <2>4. \A j \in Ranuras : Bien(oferta'[j], vivos)
    <3> HIDE DEF Bien
    <3> QED BY <1>a, <1>d, <2>1, <2>3
  <2> QED BY <2>2, <2>4, <1>b
<1>3. ASSUME NEW p \in Procesos, NEW i \in Ranuras, Vuelve(p, i), vivos' = vivos
      PROVE  OfertasEnOrden'
  <2>1. \A j \in Ranuras : Bien(oferta'[j], vivos)
    <3> HIDE DEF Bien
    <3> QED BY <1>a, <1>c, <1>d, <1>3 DEF Vuelve
  <2> QED BY <1>3, <2>1, <1>b
<1>4. CASE MuerePrestamo
  <2>1. PICK i \in Ranuras :
          IF oferta[i].destino = muere /\ oferta[i].tomada
          THEN Vuelve(muere, i)
          ELSE oferta' = IF oferta[i].tomada
                         THEN [oferta EXCEPT ![i].huerfana = TRUE]
                         ELSE [oferta EXCEPT ![i] = NoOferta]
    BY <1>4 DEF MuerePrestamo
  <2>2. vivos' = vivos /\ muere \in Procesos
    BY <1>4 DEF MuerePrestamo, TypeOK
  <2>3. CASE Vuelve(muere, i)
    BY <1>3, <2>2, <2>3
  <2>4. CASE oferta[i].tomada /\ oferta' = [oferta EXCEPT ![i].huerfana = TRUE]
    <3>1. Bien([oferta[i] EXCEPT !.huerfana = TRUE], vivos)
      <4>1. oferta[i] \in Oferta /\ Bien(oferta[i], vivos)
        BY <1>a, TiposDeOfertas
      <4> QED BY <2>4, <4>1 DEF Oferta
    <3>2. \A j \in Ranuras : Bien(oferta'[j], vivos)
      <4> HIDE DEF Bien
      <4> QED BY <1>a, <1>d, <2>4, <3>1
    <3> QED BY <2>2, <3>2, <1>b
  <2>5. CASE oferta' = [oferta EXCEPT ![i] = NoOferta]
    <3>1. \A j \in Ranuras : Bien(oferta'[j], vivos)
      <4> HIDE DEF Bien
      <4> QED BY <1>a, <1>c, <1>d, <2>5
    <3> QED BY <2>2, <3>1, <1>b
  <2> QED BY <2>1, <2>3, <2>4, <2>5
<1>5. CASE MuereMemoria
  <2>1. ASSUME NEW i \in Ranuras PROVE Bien(oferta[i], vivos \ {muere})
    <3>1. Bien(oferta[i], vivos)
      BY <1>a
    <3>2. /\ ~(oferta[i].viva /\ oferta[i].destino = muere /\ oferta[i].tomada)
          /\ oferta[i].viva /\ oferta[i].owner = muere => oferta[i].huerfana
      BY <1>5 DEF MuereMemoria, Pendientes
    <3> QED BY <3>1, <3>2
  <2> QED BY <1>5, <2>1, <1>b DEF MuereMemoria
<1>6. ASSUME UNCHANGED <<oferta, vivos>> PROVE OfertasEnOrden'
  BY <1>6 DEF OfertasEnOrden
<1> QED
  <2>1. ASSUME NEW p \in Procesos, NEW i \in Ranuras, Devuelve(p, i) PROVE OfertasEnOrden'
    BY <2>1, <1>3 DEF Devuelve
  <2>2. ASSUME NEW p \in Procesos,
               \/ Pide(p) \/ PideEnVano(p) \/ Espera(p) \/ Vence(p) \/ Muere(p)
               \/ \E v \in Sitios : NoSuelta(p, v) \/ Suelta(p, v) \/ Sella(p, v)
        PROVE  OfertasEnOrden'
    BY <2>2, <1>6 DEF Pide, PideEnVano, Espera, Vence, Muere, NoSuelta, Suelta, Sella
  <2>3. CASE UNCHANGED vars
    BY <2>3, <1>6 DEF vars
  <2> QED BY <1>1, <1>2, <1>4, <1>5, <2>1, <2>2, <2>3 DEF Next

----------------------------------------------------------------------------
(* The accounts. *)
LEMMA CuentasStep ==
  TypeOK /\ CuentasEnOrden /\ [Next]_vars => CuentasEnOrden'
<1> SUFFICES ASSUME TypeOK, CuentasEnOrden, [Next]_vars PROVE CuentasEnOrden'
  OBVIOUS
<1>1. ASSUME NEW p \in Procesos, Pide(p) PROVE CuentasEnOrden'
  <2>1. cursor[p] \in Sitios /\ bloque[p][cursor[p]] = SinMarco
    BY <1>1 DEF Pide, HaySitio, TypeOK, CuentasEnOrden, Sitios
  <2>2. PICK m \in Marcos : /\ bloque' = [bloque EXCEPT ![p][cursor[p]] = m]
                            /\ pagina' = [pagina EXCEPT ![p][cursor[p]] = m]
    BY <1>1 DEF Pide, TypeOK
  <2>3. ASSUME NEW q \in Procesos PROVE propio'[q] = Bloques(q)'
    BY <1>1, <2>1, <2>2 DEF Pide, TypeOK, CuentasEnOrden, Bloques
  <2>4. ASSUME NEW q \in Procesos, NEW v \in Sitios
        PROVE  /\ bloque'[q][v] # SinMarco => q \in vivos /\ v < cursor'[q]
               /\ q \in vivos /\ pagina'[q][v] # SinMarco => bloque'[q][v] = pagina'[q][v]
    BY <1>1, <2>1, <2>2 DEF Pide, Corre, TypeOK, CuentasEnOrden, Sitios
  <2> QED BY <1>1, <2>3, <2>4 DEF Pide, CuentasEnOrden
<1>2. ASSUME NEW p \in Procesos, NEW v \in Sitios, Suelta(p, v) PROVE CuentasEnOrden'
  <2>1. ASSUME NEW q \in Procesos PROVE propio'[q] = Bloques(q)'
    BY <1>2 DEF Suelta, TypeOK, CuentasEnOrden, Bloques
  <2>2. ASSUME NEW q \in Procesos, NEW w \in Sitios
        PROVE  /\ bloque'[q][w] # SinMarco => q \in vivos /\ w < cursor[q]
               /\ q \in vivos /\ pagina'[q][w] # SinMarco => bloque'[q][w] = pagina'[q][w]
    BY <1>2 DEF Suelta, TypeOK, CuentasEnOrden
  <2> QED BY <1>2, <2>1, <2>2 DEF Suelta, CuentasEnOrden
<1>3. ASSUME NEW p \in Procesos, NEW v \in Sitios, Sella(p, v) PROVE CuentasEnOrden'
  <2>1. ASSUME NEW q \in Procesos, NEW w \in Sitios
        PROVE  q \in vivos /\ pagina'[q][w] # SinMarco => bloque[q][w] = pagina'[q][w]
    BY <1>3 DEF Sella, TypeOK, CuentasEnOrden
  <2> QED BY <1>3, <2>1 DEF Sella, CuentasEnOrden, Bloques, handles
<1>4. CASE MuereMemoria
  <2>1. muere \in Procesos
    BY <1>4 DEF MuereMemoria, TypeOK
  <2>2. ASSUME NEW q \in Procesos PROVE propio'[q] = Bloques(q)'
    BY <1>4, <2>1 DEF MuereMemoria, TypeOK, CuentasEnOrden, Bloques
  <2>3. ASSUME NEW q \in Procesos, NEW w \in Sitios
        PROVE  /\ bloque'[q][w] # SinMarco => q \in vivos' /\ w < cursor'[q]
               /\ q \in vivos' /\ pagina[q][w] # SinMarco => bloque'[q][w] = pagina[q][w]
    BY <1>4, <2>1 DEF MuereMemoria, TypeOK, CuentasEnOrden
  <2> QED BY <1>4, <2>2, <2>3 DEF MuereMemoria, CuentasEnOrden, mapas
<1>5. ASSUME UNCHANGED <<propio, bloque, cursor, pagina, vivos>> PROVE CuentasEnOrden'
  BY <1>5 DEF CuentasEnOrden, Bloques
<1> QED
  <2>1. ASSUME NEW p \in Procesos,
               \/ PideEnVano(p) \/ Toma(p) \/ Espera(p) \/ Vence(p) \/ Muere(p)
               \/ \E v \in Sitios : NoSuelta(p, v)
               \/ \E i \in Ranuras : Devuelve(p, i)
               \/ \E q \in Procesos, v \in Sitios, desde \in 0 .. Tope,
                     largo \in 1 .. Tope : Ofrece(p, q, v, desde, largo)
        PROVE  CuentasEnOrden'
    BY <2>1, <1>5 DEF PideEnVano, Toma, Espera, Vence, Muere, NoSuelta, Devuelve, Ofrece,
                      cuentas, mapas, handles
  <2>2. CASE MuerePrestamo
    BY <2>2, <1>5 DEF MuerePrestamo, cuentas, handles
  <2>3. CASE UNCHANGED vars
    BY <2>3, <1>5 DEF vars, cuentas, mapas, handles
  <2> QED BY <1>1, <1>2, <1>3, <1>4, <2>1, <2>2, <2>3 DEF Next

----------------------------------------------------------------------------
(* The frames. *)
LEMMA DuenoAlVolver ==
  ASSUME TypeOK, UnSoloDueno, NEW p \in Procesos, NEW i \in Ranuras, Vuelve(p, i),
         UNCHANGED <<bloque, vivos>>
  PROVE  UnSoloDueno'
<1>1. PICK libera \in SUBSET retenidos :
        /\ retenidos' = retenidos \ libera
        /\ libres' = libres \cup {r.marco : r \in libera}
  <2> DEFINE L == {r \in retenidos : r.owner = oferta[i].owner /\ r.base = oferta[i].origen
                                     /\ ~hay_prestado_en(oferta', r.owner, r.base)}
  <2>1. retenidos' = retenidos \ L /\ libres' = libres \cup {r.marco : r \in L}
    BY DEF Vuelve, devuelto
  <2>2. L \in SUBSET retenidos
    OBVIOUS
  <2> HIDE DEF L
  <2> QED BY <2>1, <2>2
<1>2. ASSUME NEW q \in Procesos, NEW v \in Sitios PROVE bloque[q][v] \notin libres'
  BY <1>1 DEF UnSoloDueno
<1>3. ASSUME NEW r \in retenidos'
      PROVE  /\ r.owner \notin vivos /\ r.marco \notin libres'
             /\ \A q \in Procesos : \A v \in Sitios : bloque[q][v] # r.marco
             /\ \A s \in retenidos' : s.marco = r.marco => s = r
  BY <1>1, <1>3 DEF UnSoloDueno
<1> QED BY <1>2, <1>3 DEF UnSoloDueno

LEMMA DuenoStep ==
  TypeOK /\ CuentasEnOrden /\ UnSoloDueno /\ [Next]_vars => UnSoloDueno'
<1> SUFFICES ASSUME TypeOK, CuentasEnOrden, UnSoloDueno, [Next]_vars PROVE UnSoloDueno'
  OBVIOUS
<1>1. ASSUME NEW p \in Procesos, Pide(p) PROVE UnSoloDueno'
  <2>1. cursor[p] \in Sitios
    BY <1>1 DEF Pide, HaySitio, TypeOK, Sitios
  <2>2. PICK m \in libres : /\ libres' = libres \ {m}
                            /\ bloque' = [bloque EXCEPT ![p][cursor[p]] = m]
    BY <1>1 DEF Pide
  <2>3. ASSUME NEW q \in Procesos, NEW v \in Sitios
        PROVE  bloque'[q][v] = IF q = p /\ v = cursor[p] THEN m ELSE bloque[q][v]
    BY <2>1, <2>2 DEF TypeOK
  <2>4. m # SinMarco
    BY DEF TypeOK
  <2>5. retenidos' = retenidos /\ vivos' = vivos
    BY <1>1 DEF Pide
  <2>6. ASSUME NEW q \in Procesos, NEW s \in Procesos, NEW v \in Sitios, NEW w \in Sitios,
               bloque'[q][v] # SinMarco, bloque'[q][v] = bloque'[s][w]
        PROVE  q = s /\ v = w
    BY <2>3, <2>6 DEF UnSoloDueno
  <2>7. ASSUME NEW q \in Procesos, NEW v \in Sitios PROVE bloque'[q][v] \notin libres'
    BY <2>2, <2>3 DEF UnSoloDueno
  <2>8. ASSUME NEW r \in retenidos
        PROVE  /\ r.owner \notin vivos /\ r.marco \notin libres'
               /\ \A q \in Procesos : \A v \in Sitios : bloque'[q][v] # r.marco
               /\ \A s \in retenidos : s.marco = r.marco => s = r
    BY <2>2, <2>3 DEF UnSoloDueno
  <2> QED BY <2>5, <2>6, <2>7, <2>8 DEF UnSoloDueno
<1>2. ASSUME NEW p \in Procesos, PideEnVano(p) PROVE UnSoloDueno'
  BY <1>2 DEF PideEnVano, UnSoloDueno, cuentas
<1>3. ASSUME NEW p \in Procesos, NEW v \in Sitios, Suelta(p, v) PROVE UnSoloDueno'
  <2>1. ASSUME NEW q \in Procesos, NEW w \in Sitios
        PROVE  bloque'[q][w] = IF q = p /\ w = v THEN SinMarco ELSE bloque[q][w]
    BY <1>3 DEF Suelta, TypeOK
  <2>2. /\ libres' = libres \cup {bloque[p][v]} /\ retenidos' = retenidos /\ vivos' = vivos
        /\ bloque[p][v] # SinMarco
    BY <1>3 DEF Suelta, Bloques
  <2>3. ASSUME NEW q \in Procesos, NEW s \in Procesos, NEW w \in Sitios, NEW x \in Sitios,
               bloque'[q][w] # SinMarco, bloque'[q][w] = bloque'[s][x]
        PROVE  q = s /\ w = x
    BY <2>1, <2>3 DEF UnSoloDueno
  <2>4. ASSUME NEW q \in Procesos, NEW w \in Sitios PROVE bloque'[q][w] \notin libres'
    <3>1. SinMarco \notin libres'
      BY <2>2 DEF TypeOK
    <3> QED BY <2>1, <2>2, <3>1 DEF UnSoloDueno
  <2>5. ASSUME NEW r \in retenidos
        PROVE  /\ r.owner \notin vivos /\ r.marco \notin libres'
               /\ \A q \in Procesos : \A w \in Sitios : bloque'[q][w] # r.marco
               /\ \A s \in retenidos : s.marco = r.marco => s = r
    <3>1. r.marco # SinMarco
      BY DEF TypeOK
    <3> QED BY <2>1, <2>2, <3>1 DEF UnSoloDueno
  <2> QED BY <2>2, <2>3, <2>4, <2>5 DEF UnSoloDueno
<1>4. CASE MuereMemoria
  <2>1. muere \in Procesos /\ vivos' = vivos \ {muere}
    BY <1>4 DEF MuereMemoria, TypeOK
  <2>2. ASSUME NEW q \in Procesos, NEW w \in Sitios
        PROVE  bloque'[q][w] = IF q = muere THEN SinMarco ELSE bloque[q][w]
    BY <1>4 DEF MuereMemoria, TypeOK
  <2> DEFINE R == Retiene(muere)
             nuevo(v) == [owner |-> muere, base |-> v, marco |-> bloque[muere][v]]
  <2>3. R \subseteq Bloques(muere)
    BY DEF Retiene
  <2>4. /\ retenidos' = retenidos \cup {nuevo(v) : v \in R}
        /\ libres' = libres \cup {bloque[muere][v] : v \in Bloques(muere) \ R}
    BY <1>4 DEF MuereMemoria
  <2> HIDE DEF R
  <2>5. \A v \in Bloques(muere) : v \in Sitios /\ bloque[muere][v] # SinMarco
    BY DEF Bloques
  <2>6. ASSUME NEW q \in Procesos, NEW s \in Procesos, NEW w \in Sitios, NEW x \in Sitios,
               bloque'[q][w] # SinMarco, bloque'[q][w] = bloque'[s][x]
        PROVE  q = s /\ w = x
    BY <2>2, <2>6 DEF UnSoloDueno
  <2>7. ASSUME NEW q \in Procesos, NEW w \in Sitios PROVE bloque'[q][w] \notin libres'
    <3>1. SinMarco \notin libres'
      BY <2>4, <2>5 DEF TypeOK
    <3> QED BY <2>1, <2>2, <2>4, <2>5, <3>1 DEF UnSoloDueno
  <2>8. ASSUME NEW r \in retenidos
        PROVE  /\ r.owner \notin vivos' /\ r.marco \notin libres'
               /\ \A q \in Procesos : \A w \in Sitios : bloque'[q][w] # r.marco
               /\ \A s \in retenidos' : s.marco = r.marco => s = r
    <3>1. r.marco # SinMarco
      BY DEF TypeOK
    <3>2. \A v \in R : bloque[muere][v] # r.marco
      BY <2>1, <2>3, <2>5 DEF UnSoloDueno
    <3> QED BY <2>1, <2>2, <2>4, <2>5, <3>1, <3>2 DEF UnSoloDueno
  <2>9. ASSUME NEW v \in R
        PROVE  /\ muere \notin vivos' /\ bloque[muere][v] \notin libres'
               /\ \A q \in Procesos : \A w \in Sitios : bloque'[q][w] # bloque[muere][v]
               /\ \A s \in retenidos' : s.marco = bloque[muere][v] => s = nuevo(v)
    <3>1. v \in Sitios /\ bloque[muere][v] # SinMarco
      BY <2>3, <2>5
    <3>2. bloque[muere][v] \notin libres'
      BY <2>1, <2>4, <2>5, <3>1 DEF UnSoloDueno
    <3>3. \A q \in Procesos : \A w \in Sitios : bloque'[q][w] # bloque[muere][v]
      BY <2>1, <2>2, <3>1 DEF UnSoloDueno
    <3>4. \A w \in R : bloque[muere][w] = bloque[muere][v] => w = v
      BY <2>1, <2>3, <2>5, <3>1 DEF UnSoloDueno
    <3>5. \A s \in retenidos : s.marco # bloque[muere][v]
      BY <2>1, <3>1 DEF UnSoloDueno
    <3> QED BY <2>1, <2>4, <3>2, <3>3, <3>4, <3>5
  <2>10. ASSUME NEW r \in retenidos'
         PROVE  /\ r.owner \notin vivos' /\ r.marco \notin libres'
                /\ \A q \in Procesos : \A w \in Sitios : bloque'[q][w] # r.marco
                /\ \A s \in retenidos' : s.marco = r.marco => s = r
    <3>1. CASE r \in retenidos
      BY <2>8, <3>1
    <3>2. CASE r \notin retenidos
      <4>1. PICK v \in R : r = nuevo(v)
        BY <2>4, <3>2
      <4>2. r.owner = muere /\ r.marco = bloque[muere][v]
        BY <4>1
      <4> QED BY <2>9, <4>1, <4>2
    <3> QED BY <3>1, <3>2
  <2> QED BY <2>6, <2>7, <2>10 DEF UnSoloDueno
<1>5. ASSUME UNCHANGED <<bloque, libres, retenidos, vivos>> PROVE UnSoloDueno'
  BY <1>5 DEF UnSoloDueno
<1>6. CASE MuerePrestamo
  <2>1. PICK i \in Ranuras : \/ Vuelve(muere, i)
                             \/ UNCHANGED <<libres, retenidos>>
    BY <1>6 DEF MuerePrestamo
  <2>2. muere \in Procesos /\ UNCHANGED <<bloque, vivos>>
    BY <1>6 DEF MuerePrestamo, TypeOK, cuentas
  <2> QED BY <2>1, <2>2, <1>5, DuenoAlVolver
<1> QED
  <2>1. ASSUME NEW p \in Procesos, NEW i \in Ranuras, Devuelve(p, i) PROVE UnSoloDueno'
    BY <2>1, DuenoAlVolver DEF Devuelve, cuentas
  <2>2. ASSUME NEW p \in Procesos,
               \/ Toma(p) \/ Espera(p) \/ Vence(p) \/ Muere(p)
               \/ \E v \in Sitios : NoSuelta(p, v) \/ Sella(p, v)
               \/ \E q \in Procesos, v \in Sitios, desde \in 0 .. Tope,
                     largo \in 1 .. Tope : Ofrece(p, q, v, desde, largo)
        PROVE  UnSoloDueno'
    BY <2>2, <1>5 DEF Toma, Espera, Vence, Muere, NoSuelta, Sella, Ofrece, cuentas
  <2>3. CASE UNCHANGED vars
    BY <2>3, <1>5 DEF vars, cuentas
  <2> QED BY <1>1, <1>2, <1>3, <1>4, <1>6, <2>1, <2>2, <2>3 DEF Next

----------------------------------------------------------------------------
(* The windows. *)
LEMMA SiguenPrestados ==
  ASSUME NEW p, NEW v \in Sitios, NEW i \in Ranuras, NEW O,
         O[i].tomada, O[i].owner = p, v \in Tramo(O[i])
  PROVE  hay_prestado_en(O, p, v)
BY DEF hay_prestado_en, Sujetan

LEMMA VentanasAlVolver ==
  ASSUME TypeOK, OfertasEnOrden, VentanasEnOrden, NEW p \in Procesos, NEW i \in Ranuras,
         Vuelve(p, i), oferta[i].tomada, oferta[i].destino = p, bloque' = bloque
  PROVE  VentanasEnOrden'
<1>1. ASSUME NEW j \in Ranuras
      PROVE  oferta'[j] = IF j = i THEN NoOferta ELSE oferta[j]
  BY DEF Vuelve, TypeOK
<1>2. ASSUME NEW q \in Procesos, NEW j \in Ranuras
      PROVE  ventana'[q][j] = IF q = p /\ j = i THEN {} ELSE ventana[q][j]
  BY DEF Vuelve, TypeOK
<1>3. ASSUME NEW j \in Ranuras, j # i, oferta[j].tomada, NEW v \in Sitios,
             v \in Tramo(oferta[j]), NEW m, Responde(bloque, retenidos, oferta[j].owner, v, m)
      PROVE  Responde(bloque', retenidos', oferta[j].owner, v, m)
  <2>1. hay_prestado_en(oferta', oferta[j].owner, v)
    BY <1>1, <1>3, SiguenPrestados
  <2>2. ASSUME NEW r \in retenidos, r.owner = oferta[j].owner, r.base = v
        PROVE  r \in retenidos'
    BY <2>1, <2>2 DEF Vuelve, devuelto
  <2> QED BY <1>1, <1>3, <2>2 DEF Responde
<1>4. ASSUME NEW q \in Procesos, NEW j \in Ranuras, ventana'[q][j] # {}
      PROVE  oferta'[j].tomada /\ oferta'[j].destino = q
  BY <1>1, <1>2, <1>4 DEF VentanasEnOrden
<1>5. ASSUME NEW j \in Ranuras, oferta'[j].tomada
      PROVE  /\ ventana'[oferta'[j].destino][j] # {}
             /\ \A m \in ventana'[oferta'[j].destino][j] :
                  \E v \in Sitios : v \in Tramo(oferta'[j])
                                    /\ Responde(bloque', retenidos', oferta'[j].owner, v, m)
  <2>1. j # i /\ oferta'[j] = oferta[j] /\ oferta[j].tomada
    BY <1>1, <1>5 DEF NoOferta
  <2>2. oferta[j].destino \in Procesos
    BY <2>1 DEF OfertasEnOrden
  <2>3. ventana'[oferta[j].destino][j] = ventana[oferta[j].destino][j]
    BY <1>2, <2>1, <2>2
  <2> QED BY <2>1, <2>3, <1>3 DEF VentanasEnOrden
<1> QED BY <1>4, <1>5 DEF VentanasEnOrden, Responde

LEMMA VentanasStep ==
  TypeOK /\ OfertasEnOrden /\ CuentasEnOrden /\ VentanasEnOrden /\ [Next]_vars
    => VentanasEnOrden'
<1> SUFFICES ASSUME TypeOK, OfertasEnOrden, CuentasEnOrden, VentanasEnOrden, [Next]_vars
             PROVE  VentanasEnOrden'
  OBVIOUS
<1>a. \A p \in Procesos : \A i \in Ranuras : ventana[p][i] \subseteq Marcos
  BY DEF TypeOK
(* The windows are as they were and so are the loans; every block or       *)
(* retained frame that a loan covers is still there.                       *)
<1>b. ASSUME ventana' = ventana,
             \A i \in Ranuras :
               /\ oferta'[i].tomada <=> oferta[i].tomada
               /\ oferta[i].tomada =>
                    /\ oferta'[i].destino = oferta[i].destino
                    /\ oferta'[i].owner = oferta[i].owner
                    /\ Tramo(oferta'[i]) = Tramo(oferta[i])
                    /\ \A v \in Sitios, m \in Marcos :
                         v \in Tramo(oferta[i]) /\ Responde(bloque, retenidos, oferta[i].owner, v, m)
                           => Responde(bloque', retenidos', oferta[i].owner, v, m)
      PROVE  VentanasEnOrden'
  <2>1. ASSUME NEW i \in Ranuras, oferta'[i].tomada
        PROVE  /\ ventana'[oferta'[i].destino][i] # {}
               /\ \A m \in ventana'[oferta'[i].destino][i] :
                    \E v \in Sitios : v \in Tramo(oferta'[i])
                                      /\ Responde(bloque', retenidos', oferta'[i].owner, v, m)
    <3>1. /\ oferta[i].tomada /\ oferta'[i].destino = oferta[i].destino
          /\ oferta'[i].owner = oferta[i].owner /\ Tramo(oferta'[i]) = Tramo(oferta[i])
      BY <1>b, <2>1
    <3>2. oferta[i].destino \in Procesos
      BY <3>1 DEF OfertasEnOrden
    <3>3. ASSUME NEW m \in ventana[oferta[i].destino][i]
          PROVE  \E v \in Sitios :
                   /\ v \in Tramo(oferta[i])
                   /\ Responde(bloque', retenidos', oferta[i].owner, v, m)
      <4>1. m \in Marcos
        BY <1>a, <3>2
      <4>2. PICK v \in Sitios : v \in Tramo(oferta[i]) /\ Responde(bloque, retenidos, oferta[i].owner, v, m)
        BY <3>1 DEF VentanasEnOrden
      <4> QED BY <1>b, <3>1, <4>1, <4>2
    <3>4. ventana[oferta[i].destino][i] # {}
      BY <3>1 DEF VentanasEnOrden
    <3> QED BY <1>b, <3>1, <3>3, <3>4
  <2>2. ASSUME NEW p \in Procesos, NEW i \in Ranuras, ventana'[p][i] # {}
        PROVE  oferta'[i].tomada /\ oferta'[i].destino = p
    BY <1>b, <2>2 DEF VentanasEnOrden
  <2> QED BY <2>1, <2>2 DEF VentanasEnOrden, Responde
<1>1. ASSUME NEW p \in Procesos, Pide(p) PROVE VentanasEnOrden'
  <2>1. cursor[p] \in Sitios /\ bloque[p][cursor[p]] = SinMarco
    BY <1>1 DEF Pide, HaySitio, TypeOK, CuentasEnOrden, Sitios
  <2>2. ASSUME NEW q, NEW v \in Sitios, NEW m \in Marcos, q \in Procesos, Responde(bloque, retenidos, q, v, m)
        PROVE  Responde(bloque', retenidos', q, v, m)
    <3>1. m # SinMarco
      OBVIOUS
    <3> QED BY <1>1, <2>1, <2>2, <3>1 DEF Pide, Responde, TypeOK
  <2>3. \A i \in Ranuras : oferta[i].tomada => oferta[i].owner \in Procesos
    BY DEF OfertasEnOrden
  <2> QED BY <1>1, <1>b, <2>2, <2>3 DEF Pide
<1>2. ASSUME NEW p \in Procesos, NEW v \in Sitios, Suelta(p, v) PROVE VentanasEnOrden'
  <2>1. ASSUME NEW i \in Ranuras, oferta[i].tomada, NEW w \in Sitios,
               w \in Tramo(oferta[i]), NEW m \in Marcos, Responde(bloque, retenidos, oferta[i].owner, w, m)
        PROVE  Responde(bloque', retenidos', oferta[i].owner, w, m)
    <3>1. ~(oferta[i].owner = p /\ w = v)
      BY <1>2, <2>1, SiguenPrestados DEF Suelta
    <3>2. oferta[i].owner \in Procesos
      BY <2>1 DEF OfertasEnOrden
    <3> QED BY <1>2, <2>1, <3>1, <3>2 DEF Suelta, Responde, TypeOK
  <2> QED BY <1>2, <1>b, <2>1 DEF Suelta
<1>3. CASE MuereMemoria
  <2>1. muere \in Procesos
    BY <1>3 DEF MuereMemoria, TypeOK
  <2>2. ASSUME NEW i \in Ranuras, oferta[i].tomada, NEW w \in Sitios,
               w \in Tramo(oferta[i]), NEW m \in Marcos, Responde(bloque, retenidos, oferta[i].owner, w, m)
        PROVE  Responde(bloque', retenidos', oferta[i].owner, w, m)
    <3>1. oferta[i].owner \in Procesos
      BY <2>2 DEF OfertasEnOrden
    <3>2. retenidos \subseteq retenidos'
      BY <1>3 DEF MuereMemoria
    <3>3. CASE oferta[i].owner = muere /\ bloque[muere][w] = m
      <4>1. w \in Bloques(muere)
        BY <3>3 DEF Bloques
      <4>2. w \in Retiene(muere)
        BY <2>2, <3>3, <4>1, SiguenPrestados DEF Retiene
      <4>3. [owner |-> muere, base |-> w, marco |-> bloque[muere][w]] \in retenidos'
        BY <1>3, <4>2 DEF MuereMemoria
      <4> QED BY <3>3, <4>3 DEF Responde
    <3>4. CASE oferta[i].owner # muere /\ bloque[oferta[i].owner][w] = m
      BY <1>3, <2>1, <3>1, <3>4 DEF MuereMemoria, Responde, TypeOK
    <3>5. CASE bloque[oferta[i].owner][w] # m
      BY <2>2, <3>2, <3>5 DEF Responde
    <3> QED BY <3>3, <3>4, <3>5
  <2> QED BY <1>3, <1>b, <2>2 DEF MuereMemoria, mapas
<1>4. ASSUME NEW p \in Procesos, Toma(p) PROVE VentanasEnOrden'
  <2>1. PICK i \in Ranuras :
          /\ i \in ParaMi(p)
          /\ Tramo(oferta[i]) \subseteq {v \in Sitios : pagina[oferta[i].owner][v] # SinMarco}
          /\ ventana' = [ventana EXCEPT ![p][i] =
                           {pagina[oferta[i].owner][v] : v \in Tramo(oferta[i])}]
          /\ oferta' = [oferta EXCEPT ![i].tomada = TRUE]
    BY <1>4 DEF Toma, Primera
  <2>2. bloque' = bloque /\ retenidos' = retenidos
    BY <1>4 DEF Toma, cuentas
  <2>3. /\ oferta[i] \in Oferta /\ ~oferta[i].tomada /\ oferta[i].destino = p
        /\ oferta[i].owner \in Procesos /\ oferta[i].owner \in vivos /\ oferta[i].largo > 0
    BY <2>1, TiposDeOfertas DEF ParaMi, OfertasEnOrden
  <2>4. ASSUME NEW j \in Ranuras
        PROVE  /\ j # i => oferta'[j] = oferta[j]
               /\ oferta'[i].tomada /\ oferta'[i].destino = p
               /\ oferta'[i].owner = oferta[i].owner
               /\ oferta'[i].origen = oferta[i].origen /\ oferta'[i].largo = oferta[i].largo
    BY <2>1, <2>3 DEF TypeOK, Oferta
  <2>5. ASSUME NEW q \in Procesos, NEW j \in Ranuras
        PROVE  ventana'[q][j] = IF q = p /\ j = i
                                THEN {pagina[oferta[i].owner][v] : v \in Tramo(oferta[i])}
                                ELSE ventana[q][j]
    BY <2>1 DEF TypeOK
  <2>6. ASSUME NEW q \in Procesos, NEW j \in Ranuras, ventana'[q][j] # {}
        PROVE  oferta'[j].tomada /\ oferta'[j].destino = q
    <3>1. CASE j = i
      BY <2>3, <2>4, <2>5, <2>6, <3>1 DEF VentanasEnOrden
    <3>2. CASE j # i
      <4>1. ventana'[q][j] = ventana[q][j] /\ oferta'[j] = oferta[j]
        BY <2>4, <2>5, <3>2
      <4> QED BY <2>6, <4>1 DEF VentanasEnOrden
    <3> QED BY <3>1, <3>2
  <2>7. Tramo(oferta'[i]) = Tramo(oferta[i])
    BY <2>4 DEF Tramo
  <2>8. /\ ventana'[p][i] # {}
        /\ \A m \in ventana'[p][i] :
             \E v \in Sitios :
               /\ v \in Tramo(oferta[i])
               /\ Responde(bloque, retenidos, oferta[i].owner, v, m)
    <3>1. oferta[i].origen \in Tramo(oferta[i])
      BY <2>3, TiposDeOfertas DEF Tramo
    <3>2. ASSUME NEW v \in Tramo(oferta[i])
          PROVE  v \in Sitios /\ bloque[oferta[i].owner][v] = pagina[oferta[i].owner][v]
      BY <2>1, <2>3 DEF CuentasEnOrden
    <3>3. ventana'[p][i] = {pagina[oferta[i].owner][v] : v \in Tramo(oferta[i])}
      BY <2>5
    <3>4. \A v \in Tramo(oferta[i]) :
            v \in Sitios /\ Responde(bloque, retenidos, oferta[i].owner, v,
                                     pagina[oferta[i].owner][v])
      BY <3>2 DEF Responde
    <3> QED BY <3>1, <3>3, <3>4
  <2>9. ASSUME NEW j \in Ranuras, j # i, oferta[j].tomada
        PROVE  ventana'[oferta[j].destino][j] = ventana[oferta[j].destino][j]
    BY <2>5, <2>9 DEF OfertasEnOrden
  <2>10. ASSUME NEW j \in Ranuras, oferta'[j].tomada
         PROVE  /\ ventana'[oferta'[j].destino][j] # {}
                /\ \A m \in ventana'[oferta'[j].destino][j] :
                     \E v \in Sitios : v \in Tramo(oferta'[j])
                                       /\ Responde(bloque, retenidos, oferta'[j].owner, v, m)
    <3>1. CASE j = i
      BY <2>4, <2>7, <2>8, <3>1
    <3>2. CASE j # i
      BY <2>4, <2>9, <2>10, <3>2 DEF VentanasEnOrden
    <3> QED BY <3>1, <3>2
  <2> QED BY <2>2, <2>6, <2>10 DEF VentanasEnOrden
<1>5. ASSUME NEW p \in Procesos, NEW q \in Procesos, NEW v \in Sitios,
             NEW desde \in 0 .. Tope, NEW largo \in 1 .. Tope,
             Ofrece(p, q, v, desde, largo)
      PROVE  VentanasEnOrden'
  <2>1. PICK i \in Ranuras :
          /\ ~oferta[i].tomada
          /\ \/ oferta' = [oferta EXCEPT ![i].origen = v + desde, ![i].largo = largo]
             \/ oferta' = [oferta EXCEPT ![i] =
                  [viva |-> TRUE, owner |-> p, destino |-> q, origen |-> v + desde,
                   largo |-> largo, tomada |-> FALSE, huerfana |-> FALSE]]
    BY <1>5 DEF Ofrece, Primera, Ofertas, OfertasEnOrden
  <2>2. oferta \in [Ranuras -> Oferta] /\ oferta[i] \in Oferta
    BY TiposDeOfertas DEF TypeOK
  <2>3. ~oferta'[i].tomada
    BY <2>1, <2>2 DEF Oferta
  <2>4. \A j \in Ranuras : j # i => oferta'[j] = oferta[j]
    BY <2>1, <2>2
  <2>5. UNCHANGED <<ventana, bloque, retenidos>>
    BY <1>5 DEF Ofrece, cuentas, mapas
  <2>6. \A q_1, w, m : Responde(bloque', retenidos', q_1, w, m) <=> Responde(bloque, retenidos, q_1, w, m)
    BY <2>5 DEF Responde
  <2> QED BY <1>b, <2>1, <2>3, <2>4, <2>5, <2>6
<1>6. CASE MuerePrestamo
  <2>1. muere \in Procesos /\ bloque' = bloque
    BY <1>6 DEF MuerePrestamo, TypeOK, cuentas
  <2>2. PICK i \in Ranuras :
          IF oferta[i].destino = muere /\ oferta[i].tomada
          THEN Vuelve(muere, i)
          ELSE /\ oferta' = IF oferta[i].tomada
                            THEN [oferta EXCEPT ![i].huerfana = TRUE]
                            ELSE [oferta EXCEPT ![i] = NoOferta]
               /\ UNCHANGED <<libres, retenidos, ventana, espera>>
    BY <1>6 DEF MuerePrestamo
  <2>3. CASE oferta[i].destino = muere /\ oferta[i].tomada
    BY <2>1, <2>2, <2>3, VentanasAlVolver
  <2>4. CASE ~(oferta[i].destino = muere /\ oferta[i].tomada)
    <3>1. oferta \in [Ranuras -> Oferta] /\ oferta[i] \in Oferta /\ ~NoOferta.tomada
      BY TiposDeOfertas DEF TypeOK, NoOferta
    <3>2. \A j \in Ranuras : j # i => oferta'[j] = oferta[j]
      BY <2>2, <2>4, <3>1
    <3>3. /\ oferta'[i].tomada <=> oferta[i].tomada
          /\ oferta[i].tomada => /\ oferta'[i].destino = oferta[i].destino
                                 /\ oferta'[i].owner = oferta[i].owner
                                 /\ oferta'[i].origen = oferta[i].origen
                                 /\ oferta'[i].largo = oferta[i].largo
      BY <2>2, <2>4, <3>1 DEF Oferta
    <3>4. oferta[i].tomada => Tramo(oferta'[i]) = Tramo(oferta[i])
      BY <3>3 DEF Tramo
    <3>5. UNCHANGED <<ventana, bloque, retenidos>>
      BY <2>1, <2>2, <2>4
    <3>6. \A q, w, m : Responde(bloque', retenidos', q, w, m) <=> Responde(bloque, retenidos, q, w, m)
      BY <3>5 DEF Responde
    <3> QED BY <1>b, <3>2, <3>3, <3>4, <3>5, <3>6
  <2> QED BY <2>3, <2>4
<1>7. ASSUME UNCHANGED <<ventana, oferta, bloque, retenidos>> PROVE VentanasEnOrden'
  BY <1>7 DEF VentanasEnOrden
<1> QED
  <2>1. ASSUME NEW p \in Procesos, NEW i \in Ranuras, Devuelve(p, i) PROVE VentanasEnOrden'
    BY <2>1, VentanasAlVolver DEF Devuelve, cuentas
  <2>2. ASSUME NEW p \in Procesos,
               \/ PideEnVano(p) \/ Espera(p) \/ Vence(p) \/ Muere(p)
               \/ \E v \in Sitios : NoSuelta(p, v) \/ Sella(p, v)
        PROVE  VentanasEnOrden'
    BY <2>2, <1>7 DEF PideEnVano, Espera, Vence, Muere, NoSuelta, Sella, cuentas, mapas
  <2>3. CASE UNCHANGED vars
    BY <2>3, <1>7 DEF vars, cuentas, mapas
  <2> QED BY <1>1, <1>2, <1>3, <1>4, <1>5, <1>6, <2>1, <2>2, <2>3 DEF Next

----------------------------------------------------------------------------
(* The handles of what was taken. *)
LEMMA PrestadosStep ==
  TypeOK /\ OfertasEnOrden /\ PrestadosEnOrden /\ [Next]_vars => PrestadosEnOrden'
<1> SUFFICES ASSUME TypeOK, OfertasEnOrden, PrestadosEnOrden, [Next]_vars
             PROVE  PrestadosEnOrden'
  OBVIOUS
<1>a. ASSUME prestado' = prestado, vivos' \ {muere'} \subseteq vivos \ {muere},
             \A i \in Ranuras : oferta[i].tomada => /\ oferta'[i].tomada
                                                    /\ oferta'[i].destino = oferta[i].destino
      PROVE  PrestadosEnOrden'
  <2>1. \A p \in vivos : prestado[p] \subseteq Ranuras
    BY DEF TypeOK
  <2> QED BY <1>a, <2>1 DEF PrestadosEnOrden
<1>1. ASSUME NEW p \in Procesos, Toma(p) PROVE PrestadosEnOrden'
  <2>1. PICK i \in Ranuras :
          /\ i \in ParaMi(p)
          /\ oferta' = [oferta EXCEPT ![i].tomada = TRUE]
          /\ prestado' = [prestado EXCEPT ![p] = @ \cup {i}]
    BY <1>1 DEF Toma, Primera
  <2>2. vivos' = vivos /\ muere' = muere
    BY <1>1 DEF Toma
  <2>3. oferta[i] \in Oferta /\ oferta[i].destino = p
    BY <2>1, TiposDeOfertas DEF ParaMi
  <2>4. /\ oferta'[i].tomada /\ oferta'[i].destino = p
        /\ \A j \in Ranuras : j # i => oferta'[j] = oferta[j]
    BY <2>1, <2>3 DEF TypeOK, Oferta
  <2>5. ASSUME NEW q \in vivos \ {muere}, NEW j \in prestado'[q]
        PROVE  oferta'[j].tomada /\ oferta'[j].destino = q
    <3>1. q \in Procesos /\ prestado[q] \subseteq Ranuras
      BY DEF TypeOK
    <3>2. j \in prestado[q] \/ (q = p /\ j = i)
      BY <2>1, <2>5, <3>1 DEF TypeOK
    <3>3. CASE j \in prestado[q]
      <4>1. oferta[j].tomada /\ oferta[j].destino = q
        BY <3>3 DEF PrestadosEnOrden
      <4>2. CASE j = i
        BY <2>3, <2>4, <4>1, <4>2
      <4>3. CASE j # i
        BY <2>4, <3>1, <3>3, <4>1, <4>3
      <4> QED BY <4>2, <4>3
    <3> QED BY <2>4, <3>2, <3>3
  <2> QED BY <2>2, <2>5 DEF PrestadosEnOrden
<1>2. ASSUME NEW p \in Procesos, NEW i \in Ranuras, Devuelve(p, i) PROVE PrestadosEnOrden'
  <2>1. /\ oferta' = [oferta EXCEPT ![i] = NoOferta]
        /\ prestado' = [prestado EXCEPT ![p] = @ \ {i}]
        /\ vivos' = vivos /\ muere' = muere /\ oferta[i].destino = p
    BY <1>2 DEF Devuelve, Vuelve, Revoca
  <2>2. ASSUME NEW q \in vivos \ {muere}, NEW j \in prestado'[q]
        PROVE  oferta'[j].tomada /\ oferta'[j].destino = q
    <3>1. q \in Procesos /\ prestado[q] \subseteq Ranuras
      BY DEF TypeOK
    <3>2. j \in prestado[q] /\ ~(q = p /\ j = i)
      BY <2>1, <2>2, <3>1 DEF TypeOK
    <3>3. oferta[j].tomada /\ oferta[j].destino = q
      BY <3>2 DEF PrestadosEnOrden
    <3>4. oferta'[j] = oferta[j]
      BY <2>1, <3>1, <3>2, <3>3 DEF TypeOK
    <3> QED BY <3>3, <3>4
  <2> QED BY <2>1, <2>2 DEF PrestadosEnOrden
<1>3. ASSUME NEW p \in Procesos, NEW q \in Procesos, NEW v \in Sitios,
             NEW desde \in 0 .. Tope, NEW largo \in 1 .. Tope,
             Ofrece(p, q, v, desde, largo)
      PROVE  PrestadosEnOrden'
  <2>1. PICK i \in Ranuras :
          /\ ~oferta[i].tomada
          /\ \A j \in Ranuras : j # i => oferta'[j] = oferta[j]
    BY <1>3 DEF Ofrece, Primera, Ofertas, OfertasEnOrden, TypeOK
  <2> QED BY <1>3, <1>a, <2>1 DEF Ofrece, handles
<1>4. CASE MuerePrestamo
  <2>1. /\ muere \in Procesos /\ vivos' = vivos /\ muere' = muere
        /\ prestado' = prestado
    BY <1>4 DEF MuerePrestamo, TypeOK, handles
  <2>2. PICK i \in Ranuras :
          IF oferta[i].destino = muere /\ oferta[i].tomada
          THEN oferta' = [oferta EXCEPT ![i] = NoOferta]
          ELSE oferta' = IF oferta[i].tomada
                         THEN [oferta EXCEPT ![i].huerfana = TRUE]
                         ELSE [oferta EXCEPT ![i] = NoOferta]
    BY <1>4 DEF MuerePrestamo, Vuelve
  <2>3. CASE oferta[i].destino = muere /\ oferta[i].tomada
    <3>1. ASSUME NEW q \in vivos \ {muere}, NEW j \in prestado[q]
          PROVE  oferta'[j].tomada /\ oferta'[j].destino = q
      <4>1. j \in Ranuras
        BY DEF TypeOK
      <4>2. oferta[j].tomada /\ oferta[j].destino = q
        BY DEF PrestadosEnOrden
      <4>3. j # i
        BY <2>3, <4>2
      <4>4. oferta'[j] = oferta[j]
        BY <2>2, <2>3, <4>1, <4>3 DEF TypeOK
      <4> QED BY <4>2, <4>4
    <3> QED BY <2>1, <3>1 DEF PrestadosEnOrden
  <2>4. CASE ~(oferta[i].destino = muere /\ oferta[i].tomada)
    <3>1. oferta \in [Ranuras -> Oferta] /\ oferta[i] \in Oferta
      BY TiposDeOfertas DEF TypeOK
    <3>2. \A j \in Ranuras : j # i => oferta'[j] = oferta[j]
      BY <2>2, <2>4, <3>1
    <3>3. oferta[i].tomada => oferta'[i].tomada /\ oferta'[i].destino = oferta[i].destino
      BY <2>2, <2>4, <3>1 DEF Oferta
    <3> QED BY <1>a, <2>1, <3>2, <3>3
  <2> QED BY <2>3, <2>4
<1>5. CASE MuereMemoria
  <2>1. /\ muere \in Procesos /\ vivos' = vivos \ {muere} /\ muere' = Nadie
        /\ prestado' = [prestado EXCEPT ![muere] = {}] /\ oferta' = oferta
    BY <1>5 DEF MuereMemoria, TypeOK
  <2>2. ASSUME NEW q \in vivos' PROVE q \in vivos \ {muere} /\ prestado'[q] = prestado[q]
    BY <2>1, <2>2 DEF TypeOK
  <2> QED BY <2>1, <2>2 DEF PrestadosEnOrden
<1>6. ASSUME NEW p \in Procesos, Muere(p) PROVE PrestadosEnOrden'
  <2>1. vivos' \ {muere'} \subseteq vivos \ {muere}
    BY <1>6 DEF Muere, TypeOK
  <2> QED BY <1>6, <1>a, <2>1 DEF Muere, handles
<1>7. ASSUME UNCHANGED <<prestado, vivos, muere, oferta>> PROVE PrestadosEnOrden'
  BY <1>7 DEF PrestadosEnOrden
<1> QED
  <2>1. ASSUME NEW p \in Procesos,
               \/ Pide(p) \/ PideEnVano(p) \/ Espera(p) \/ Vence(p)
               \/ \E v \in Sitios : NoSuelta(p, v) \/ Suelta(p, v) \/ Sella(p, v)
        PROVE  PrestadosEnOrden'
    BY <2>1, <1>7 DEF Pide, PideEnVano, Espera, Vence, NoSuelta, Suelta, Sella, handles
  <2>2. CASE UNCHANGED vars
    BY <2>2, <1>7 DEF vars, handles
  <2> QED BY <1>1, <1>2, <1>3, <1>4, <1>5, <1>6, <2>1, <2>2 DEF Next

----------------------------------------------------------------------------
LEMMA IInvInit == Init => IInv
<1> SUFFICES ASSUME Init PROVE IInv
  OBVIOUS
<1>1. TypeOK
  BY DEF Init, TypeOK, Oferta, NoOferta, NoEspera, Sitios
<1>2. OfertasEnOrden /\ CuentasEnOrden
  BY DEF Init, OfertasEnOrden, CuentasEnOrden, NoOferta, Bloques
<1>3. UnSoloDueno
  BY DEF Init, UnSoloDueno
<1>4. VentanasEnOrden /\ PrestadosEnOrden
  BY DEF Init, VentanasEnOrden, PrestadosEnOrden, NoOferta
<1> QED BY <1>1, <1>2, <1>3, <1>4 DEF IInv

LEMMA IInvStep == IInv /\ [Next]_vars => IInv'
BY TypeStep, OfertasStep, CuentasStep, DuenoStep, VentanasStep, PrestadosStep DEF IInv

LEMMA Invariante == Spec => []IInv
BY IInvInit, IInvStep, PTL DEF Spec

(* memory.rs, loan.rs: the accounts, the offers and the maps keep their    *)
(* types; in particular no block is past MEMORIA_VA_TOPE.                  *)
THEOREM TypeCorrect == Spec => []TypeOK
BY Invariante, PTL DEF IInv

(* soltar, process_died, liberar_retenido: whatever is lent, given back,   *)
(* refused or left by a dead process, a frame that somebody sees or        *)
(* answers for is not in the hands of the allocator, nor of a third one.   *)
THEOREM FramesHaveOneOwner == Spec => []FrameHasOneOwner
<1>1. IInv => FrameHasOneOwner
  <2> SUFFICES ASSUME IInv, NEW m \in Marcos
               PROVE  /\ \A t, u \in Titulares(m) : t = u
                      /\ m \in libres => Titulares(m) = {}
                      /\ \A p \in vivos :
                           /\ \A v \in Sitios : pagina[p][v] = m => <<p, v>> \in Titulares(m)
                           /\ \A i \in Ranuras :
                                m \in ventana[p][i] =>
                                  \E t \in Titulares(m) : t[1] = oferta[i].owner
    BY DEF FrameHasOneOwner
  <2>1. TypeOK /\ CuentasEnOrden /\ UnSoloDueno /\ VentanasEnOrden /\ OfertasEnOrden
    BY DEF IInv
  <2>2. m # SinMarco
    OBVIOUS
  <2>3. ASSUME NEW t
        PROVE  t \in Titulares(m) <=>
                 \/ t \in Procesos \X Sitios /\ bloque[t[1]][t[2]] = m
                 \/ \E r \in retenidos : r.marco = m /\ t = <<r.owner, r.base>>
    BY DEF Titulares
  <2>4. ASSUME NEW t \in Titulares(m), NEW u \in Titulares(m) PROVE t = u
    <3>1. CASE /\ t \in Procesos \X Sitios /\ bloque[t[1]][t[2]] = m
               /\ u \in Procesos \X Sitios /\ bloque[u[1]][u[2]] = m
      BY <2>1, <2>2, <3>1 DEF UnSoloDueno
    <3>2. CASE \E r \in retenidos : r.marco = m
      <4>1. PICK r \in retenidos : r.marco = m
        BY <3>2
      <4>2. /\ \A p \in Procesos : \A v \in Sitios : bloque[p][v] # m
            /\ \A s \in retenidos : s.marco = m => s = r
        BY <2>1, <4>1 DEF UnSoloDueno
      <4>3. t = <<r.owner, r.base>> /\ u = <<r.owner, r.base>>
        BY <2>3, <4>2
      <4> QED BY <4>3
    <3> QED BY <2>3, <3>1, <3>2
  <2>5. ASSUME m \in libres PROVE Titulares(m) = {}
    BY <2>1, <2>3, <2>5 DEF UnSoloDueno
  <2>6. ASSUME NEW p \in vivos, NEW v \in Sitios, pagina[p][v] = m
        PROVE  <<p, v>> \in Titulares(m)
    BY <2>1, <2>2, <2>3, <2>6 DEF CuentasEnOrden, TypeOK
  <2>7. ASSUME NEW p \in vivos, NEW i \in Ranuras, m \in ventana[p][i]
        PROVE  \E t \in Titulares(m) : t[1] = oferta[i].owner
    <3>1. p \in Procesos
      BY <2>1 DEF TypeOK
    <3>2. oferta[i].tomada /\ oferta[i].destino = p
      BY <2>1, <2>7, <3>1 DEF VentanasEnOrden
    <3>3. PICK v \in Sitios : Responde(bloque, retenidos, oferta[i].owner, v, m)
      BY <2>1, <2>7, <3>2 DEF VentanasEnOrden
    <3>4. oferta[i].owner \in Procesos
      BY <2>1, <3>2 DEF OfertasEnOrden
    <3>5. <<oferta[i].owner, v>> \in Titulares(m)
      <4>1. CASE bloque[oferta[i].owner][v] = m
        BY <2>3, <3>4, <4>1
      <4>2. CASE [owner |-> oferta[i].owner, base |-> v, marco |-> m] \in retenidos
        <5> DEFINE r == [owner |-> oferta[i].owner, base |-> v, marco |-> m]
        <5>1. r \in retenidos /\ r.marco = m /\ r.owner = oferta[i].owner /\ r.base = v
          BY <4>2
        <5> HIDE DEF r
        <5> QED BY <2>3, <5>1
      <4> QED BY <3>3, <4>1, <4>2 DEF Responde
    <3> QED BY <3>5
  <2> QED BY <2>4, <2>5, <2>6, <2>7
<1> QED BY <1>1, Invariante, PTL

(* OP_SOLTAR and soltar revoke the handle: no handle answers for what is   *)
(* gone, nor for the one that came to its window later.                    *)
THEOREM HandlesAreTheirLoans == Spec => []HandleIsItsLoan
<1>1. IInv => HandleIsItsLoan
  <2> SUFFICES ASSUME IInv, NEW p \in vivos \ {muere}
               PROVE  /\ propio[p] \subseteq Bloques(p)
                      /\ \A i \in prestado[p] :
                           /\ oferta[i].tomada /\ oferta[i].destino = p
                           /\ ventana[p][i] # {}
    BY DEF HandleIsItsLoan
  <2>1. p \in Procesos /\ prestado[p] \subseteq Ranuras
    BY DEF IInv, TypeOK
  <2>2. propio[p] = Bloques(p)
    BY <2>1 DEF IInv, CuentasEnOrden
  <2>3. ASSUME NEW i \in prestado[p]
        PROVE  oferta[i].tomada /\ oferta[i].destino = p /\ ventana[p][i] # {}
    <3>1. oferta[i].tomada /\ oferta[i].destino = p
      BY DEF IInv, PrestadosEnOrden
    <3> QED BY <2>1, <3>1 DEF IInv, VentanasEnOrden
  <2> QED BY <2>2, <2>3
<1> QED BY <1>1, Invariante, PTL

----------------------------------------------------------------------------
(* A loan that came back takes with it every wait that was for it: with    *)
(* pieces of one block, what it covered is where it began.                 *)
LEMMA AvisoAlVolver ==
  ASSUME TypeOK, OfertasEnOrden, ReturnIsNoticed, ~SePasan,
         NEW p \in Procesos, NEW i \in Ranuras, Vuelve(p, i), oferta[i].tomada,
         vivos' = vivos
  PROVE  ReturnIsNoticed'
<1>1. ASSUME NEW j \in Ranuras, j # i PROVE oferta'[j] = oferta[j]
  BY <1>1 DEF Vuelve, TypeOK
<1>2. oferta[i].largo = 1 /\ oferta[i].owner \in Procesos /\ oferta[i].origen \in Nat
  BY TiposDeOfertas DEF OfertasEnOrden
<1>3. ASSUME NEW q, NEW v \in Sitios, hay_prestado_en(oferta, q, v),
             ~hay_prestado_en(oferta', q, v)
      PROVE  q = oferta[i].owner /\ v = oferta[i].origen
  <2>1. PICK j \in Ranuras : oferta[j].tomada /\ oferta[j].owner = q /\ v \in Tramo(oferta[j])
    BY <1>3 DEF hay_prestado_en, Sujetan
  <2>2. j = i
    BY <1>1, <1>3, <2>1, SiguenPrestados
  <2> QED BY <1>2, <2>1, <2>2 DEF Tramo, Sitios
<1>4. ASSUME NEW r \in retenidos' PROVE hay_prestado_en(oferta', r.owner, r.base)
  <2>1. r \in retenidos /\ r.base \in Sitios
    BY <1>4 DEF Vuelve, devuelto, TypeOK
  <2>2. hay_prestado_en(oferta, r.owner, r.base)
    BY <2>1 DEF ReturnIsNoticed, RetainedIsHeld
  <2>3. CASE r.owner = oferta[i].owner /\ r.base = oferta[i].origen
    BY <1>4, <2>1, <2>3 DEF Vuelve, devuelto
  <2> QED BY <1>3, <2>1, <2>2, <2>3
<1>5. ASSUME NEW q \in vivos, espera'[q].base # 0
      PROVE  hay_prestado_en(oferta', q, espera'[q].base)
  <2>1. q \in Procesos /\ espera \in [Procesos -> [base : 0 .. Tope, dormida : BOOLEAN]]
    BY DEF TypeOK
  <2>2. espera'[q] = espera[q]
        /\ ~(q = oferta[i].owner /\ espera[q].base = oferta[i].origen)
    BY <1>2, <1>5, <2>1 DEF Vuelve, devuelto, NoEspera
  <2>3. espera[q].base \in Sitios /\ hay_prestado_en(oferta, q, espera[q].base)
    BY <1>5, <2>1, <2>2 DEF ReturnIsNoticed, Sitios
  <2> QED BY <1>3, <2>2, <2>3
<1>6. \A r \in retenidos' : hay_prestado_en(oferta', r.owner, r.base)
  BY <1>4
<1>7. \A q \in vivos' : espera'[q].base # 0 => hay_prestado_en(oferta', q, espera'[q].base)
  BY <1>5
<1> QED BY <1>6, <1>7 DEF ReturnIsNoticed, RetainedIsHeld

LEMMA AvisoStep ==
  ASSUME ~SePasan
  PROVE  TypeOK /\ OfertasEnOrden /\ ReturnIsNoticed /\ [Next]_vars => ReturnIsNoticed'
<1> SUFFICES ASSUME TypeOK, OfertasEnOrden, ReturnIsNoticed, [Next]_vars
             PROVE  ReturnIsNoticed'
  OBVIOUS
<1>a. ASSUME retenidos' \subseteq retenidos, vivos' \subseteq vivos,
             \A q \in vivos' : espera'[q].base # 0 => espera'[q].base = espera[q].base,
             \A i \in Ranuras : oferta[i].tomada => /\ oferta'[i].tomada
                                                    /\ oferta'[i].owner = oferta[i].owner
                                                    /\ Tramo(oferta'[i]) = Tramo(oferta[i])
      PROVE  ReturnIsNoticed'
  <2>1. ASSUME NEW q, NEW v, hay_prestado_en(oferta, q, v)
        PROVE  hay_prestado_en(oferta', q, v)
    BY <1>a, <2>1 DEF hay_prestado_en, Sujetan
  <2>2. \A r \in retenidos' : hay_prestado_en(oferta', r.owner, r.base)
    BY <1>a, <2>1 DEF ReturnIsNoticed, RetainedIsHeld
  <2>3. \A q \in vivos' : espera'[q].base # 0 => hay_prestado_en(oferta', q, espera'[q].base)
    BY <1>a, <2>1 DEF ReturnIsNoticed
  <2> QED BY <2>2, <2>3 DEF ReturnIsNoticed, RetainedIsHeld
<1>1. ASSUME NEW p \in Procesos, Toma(p) PROVE ReturnIsNoticed'
  <2>1. PICK i \in Ranuras : i \in ParaMi(p) /\ oferta' = [oferta EXCEPT ![i].tomada = TRUE]
    BY <1>1 DEF Toma, Primera
  <2>2. \A j \in Ranuras : oferta[j].tomada => oferta'[j] = oferta[j]
    BY <2>1 DEF TypeOK, ParaMi
  <2> QED BY <1>1, <1>a, <2>2 DEF Toma
<1>2. ASSUME NEW p \in Procesos, NEW q \in Procesos, NEW v \in Sitios,
             NEW desde \in 0 .. Tope, NEW largo \in 1 .. Tope,
             Ofrece(p, q, v, desde, largo)
      PROVE  ReturnIsNoticed'
  <2>1. PICK i \in Ranuras :
          /\ ~oferta[i].tomada
          /\ \A j \in Ranuras : j # i => oferta'[j] = oferta[j]
    BY <1>2 DEF Ofrece, Primera, Ofertas, OfertasEnOrden, TypeOK
  <2>2. \A j \in Ranuras : oferta[j].tomada => oferta'[j] = oferta[j]
    BY <2>1
  <2> QED BY <1>2, <1>a, <2>2 DEF Ofrece
<1>3. ASSUME NEW p \in Procesos, NEW v \in Sitios, NoSuelta(p, v) PROVE ReturnIsNoticed'
  <2>1. /\ espera' = [espera EXCEPT ![p] = [base |-> v, dormida |-> FALSE]]
        /\ hay_prestado_en(oferta, p, v) /\ UNCHANGED <<oferta, retenidos, vivos>>
    BY <1>3 DEF NoSuelta
  <2>2. ASSUME NEW q \in vivos, espera'[q].base # 0
        PROVE  hay_prestado_en(oferta, q, espera'[q].base)
    <3>1. CASE q = p
      BY <2>1, <3>1 DEF TypeOK
    <3>2. CASE q # p
      <4>1. espera'[q] = espera[q]
        BY <2>1, <3>2 DEF TypeOK
      <4> QED BY <2>2, <4>1 DEF ReturnIsNoticed
    <3> QED BY <3>1, <3>2
  <2>3. \A q \in vivos' : espera'[q].base # 0 => hay_prestado_en(oferta', q, espera'[q].base)
    BY <2>1, <2>2
  <2>4. \A r \in retenidos' : hay_prestado_en(oferta', r.owner, r.base)
    BY <2>1 DEF ReturnIsNoticed, RetainedIsHeld
  <2> QED BY <2>3, <2>4 DEF ReturnIsNoticed, RetainedIsHeld
<1>4. ASSUME NEW p \in Procesos, Espera(p) \/ Vence(p) PROVE ReturnIsNoticed'
  <2>1. PICK b \in BOOLEAN : espera' = [espera EXCEPT ![p].dormida = b]
    BY <1>4 DEF Espera, Vence
  <2>2. \A q \in Procesos : espera'[q].base = espera[q].base
    BY <2>1 DEF TypeOK
  <2> QED BY <1>4, <1>a, <2>2 DEF Espera, Vence, TypeOK
<1>5. CASE MuerePrestamo
  <2>1. muere \in Procesos /\ vivos' = vivos
    BY <1>5 DEF MuerePrestamo, TypeOK
  <2>2. PICK i \in Ranuras :
          IF oferta[i].destino = muere /\ oferta[i].tomada
          THEN Vuelve(muere, i)
          ELSE /\ oferta' = IF oferta[i].tomada
                            THEN [oferta EXCEPT ![i].huerfana = TRUE]
                            ELSE [oferta EXCEPT ![i] = NoOferta]
               /\ UNCHANGED <<libres, retenidos, ventana, espera>>
    BY <1>5 DEF MuerePrestamo
  <2>3. CASE oferta[i].destino = muere /\ oferta[i].tomada
    BY <2>1, <2>2, <2>3, AvisoAlVolver
  <2>4. CASE ~(oferta[i].destino = muere /\ oferta[i].tomada)
    <3>1. oferta \in [Ranuras -> Oferta] /\ oferta[i] \in Oferta
      BY TiposDeOfertas DEF TypeOK
    <3>2. \A j \in Ranuras : j # i => oferta'[j] = oferta[j]
      BY <2>2, <2>4, <3>1
    <3>3. oferta[i].tomada => /\ oferta'[i].tomada /\ oferta'[i].owner = oferta[i].owner
                              /\ oferta'[i].origen = oferta[i].origen
                              /\ oferta'[i].largo = oferta[i].largo
      BY <2>2, <2>4, <3>1 DEF Oferta
    <3>4. oferta[i].tomada => Tramo(oferta'[i]) = Tramo(oferta[i])
      BY <3>3 DEF Tramo
    <3>5. retenidos' = retenidos /\ espera' = espera
      BY <2>2, <2>4
    <3> QED BY <1>a, <2>1, <3>2, <3>3, <3>4, <3>5
  <2> QED BY <2>3, <2>4
<1>6. CASE MuereMemoria
  <2>1. /\ vivos' = vivos \ {muere} /\ oferta' = oferta
        /\ retenidos' = retenidos \cup
             {[owner |-> muere, base |-> v, marco |-> bloque[muere][v]] : v \in Retiene(muere)}
        /\ espera' = [espera EXCEPT ![muere] = NoEspera]
    BY <1>6 DEF MuereMemoria
  <2>2. ASSUME NEW r \in retenidos' PROVE hay_prestado_en(oferta, r.owner, r.base)
    <3>1. CASE r \in retenidos
      BY <3>1 DEF ReturnIsNoticed, RetainedIsHeld
    <3>2. CASE r \notin retenidos
      <4>1. PICK v \in Retiene(muere) :
              r = [owner |-> muere, base |-> v, marco |-> bloque[muere][v]]
        BY <2>1, <2>2, <3>2
      <4>2. r.owner = muere /\ r.base = v
        BY <4>1
      <4> QED BY <4>1, <4>2 DEF Retiene
    <3> QED BY <3>1, <3>2
  <2>3. ASSUME NEW q \in vivos' PROVE q \in vivos /\ espera'[q] = espera[q]
    BY <2>1, <2>3 DEF TypeOK
  <2>4. \A r \in retenidos' : hay_prestado_en(oferta', r.owner, r.base)
    BY <2>1, <2>2
  <2>5. \A q \in vivos' : espera'[q].base # 0 => hay_prestado_en(oferta', q, espera'[q].base)
    BY <2>1, <2>3 DEF ReturnIsNoticed
  <2> QED BY <2>4, <2>5 DEF ReturnIsNoticed, RetainedIsHeld
<1> QED
  <2>1. ASSUME NEW p \in Procesos, NEW i \in Ranuras, Devuelve(p, i) PROVE ReturnIsNoticed'
    BY <2>1, AvisoAlVolver DEF Devuelve
  <2>2. ASSUME UNCHANGED <<oferta, retenidos, espera, vivos>> PROVE ReturnIsNoticed'
    BY <1>a, <2>2
  <2>3. ASSUME NEW p \in Procesos,
               \/ Pide(p) \/ PideEnVano(p) \/ Muere(p)
               \/ \E v \in Sitios : Suelta(p, v) \/ Sella(p, v)
        PROVE  ReturnIsNoticed'
    BY <2>2, <2>3 DEF Pide, PideEnVano, Muere, Suelta, Sella
  <2>4. CASE UNCHANGED vars
    BY <2>2, <2>4 DEF vars
  <2> QED
    BY <1>1, <1>2, <1>3, <1>4, <1>5, <1>6, <2>1, <2>3, <2>4 DEF Next

(* devuelto, wait_current_checked: if every piece that is offered lies in  *)
(* its block, whoever was told that a block is lent is told when it comes  *)
(* back, awake, asleep or dead: nobody sleeps and no frame stays retained  *)
(* for a loan that is over.                                                *)
THEOREM ReturnsAreNoticed == ~SePasan => (Spec => []ReturnIsNoticed)
<1> SUFFICES ASSUME ~SePasan PROVE Spec => []ReturnIsNoticed
  OBVIOUS
<1>1. Init => ReturnIsNoticed
  BY DEF Init, ReturnIsNoticed, RetainedIsHeld, NoEspera, TypeOK
<1>2. TypeOK /\ OfertasEnOrden /\ ReturnIsNoticed /\ [Next]_vars => ReturnIsNoticed'
  BY AvisoStep
<1>3. IInv => TypeOK /\ OfertasEnOrden
  BY DEF IInv
<1> QED BY <1>1, <1>2, <1>3, Invariante, PTL DEF Spec
=============================================================================
