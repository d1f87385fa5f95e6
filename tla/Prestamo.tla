------------------------------ MODULE Prestamo ------------------------------
(***************************************************************************)
(* The memory that a process asks for (ring0/obj/memory.rs) and what it    *)
(* lends of it (ring0/obj/loan.rs): blocks of frames mapped at addresses   *)
(* that never come back, offers that another process takes, loans that     *)
(* outlive the lender, and the stations of the teardown that decide which  *)
(* frames go back to the allocator.                                        *)
(*                                                                         *)
(* A block is one unit long; an address is the number of a unit, 0 none.   *)
(* Every operation is a system call (interrupts off): a step.  A process   *)
(* dies inside a system call or a trap, its own or that of its parent, and *)
(* until its last station nobody else runs (muere).                        *)
(***************************************************************************)
EXTENDS Integers, FiniteSets

CONSTANTS
  Procesos,        (* pids: next_pid only goes up, none is used twice *)
  Marcos,          (* frames *)
  Nadie,           (* no process *)
  SinMarco,        (* no frame *)
  Tope,            (* units of address below MEMORIA_VA_TOPE *)
  MaxPeticiones,   (* MAX_PETICIONES, blocks of a process *)
  MaxOfertas,      (* MAX, offers of the system *)
  SePasan          (* programs offer pieces that leave their block *)

ASSUME PrestamoAssumption ==
  /\ IsFiniteSet(Procesos) /\ IsFiniteSet(Marcos)
  /\ Nadie \notin Procesos /\ SinMarco \notin Marcos
  /\ Tope \in Nat /\ MaxPeticiones \in Nat /\ MaxOfertas \in Nat
  /\ SePasan \in BOOLEAN

VARIABLES
  vivos,      (* the processes that did not die *)
  muere,      (* the process that is being dismantled *)
  libres,     (* the frames of the allocator *)
  cursor,     (* CUENTAS: where the next block of each goes, *)
  bloque,     (* its blocks by their address, *)
  sellado,    (* and which of them are code *)
  retenidos,  (* RETENIDOS: blocks of the dead that somebody still reads *)
  oferta,     (* OFERTAS *)
  pagina,     (* what each sees at the addresses of its blocks, *)
  ventana,    (* and in the window of each loan (the slot decides where) *)
  propio,     (* its handles: of its blocks, *)
  prestado,   (* and of what it took *)
  espera      (* the block it was told is lent; base 0: its sequence moved *)

cuentas == <<cursor, bloque, sellado>>
mapas == <<pagina, ventana>>
handles == <<propio, prestado>>
vars == <<vivos, muere, libres, cuentas, retenidos, oferta, mapas, handles, espera>>

Sitios == 1 .. Tope
Ranuras == 1 .. MaxOfertas

NoOferta == [viva |-> FALSE, owner |-> Nadie, destino |-> Nadie, origen |-> 0,
             largo |-> 0, tomada |-> FALSE, huerfana |-> FALSE]
NoEspera == [base |-> 0, dormida |-> FALSE]

Init ==
  /\ vivos = Procesos /\ muere = Nadie
  /\ libres = Marcos /\ retenidos = {}
  /\ cursor = [p \in Procesos |-> 1]
  /\ bloque = [p \in Procesos |-> [v \in Sitios |-> SinMarco]]
  /\ sellado = [p \in Procesos |-> {}]
  /\ oferta = [i \in Ranuras |-> NoOferta]
  /\ pagina = [p \in Procesos |-> [v \in Sitios |-> SinMarco]]
  /\ ventana = [p \in Procesos |-> [i \in Ranuras |-> {}]]
  /\ propio = [p \in Procesos |-> {}]
  /\ prestado = [p \in Procesos |-> {}]
  /\ espera = [p \in Procesos |-> NoEspera]

----------------------------------------------------------------------------
Bloques(p) == {v \in Sitios : bloque[p][v] # SinMarco}

(* The addresses of the owner that are lent. *)
Tramo(o) == o.origen .. (o.origen + o.largo - 1)

(* Taken loans of p that hold its address v. *)
Sujetan(ofertas, p, v) ==
  {i \in Ranuras : ofertas[i].tomada /\ ofertas[i].owner = p /\ v \in Tramo(ofertas[i])}
hay_prestado_en(ofertas, p, v) == Sujetan(ofertas, p, v) # {}

Primera(i, S) == i \in S /\ \A j \in S : i <= j

Corre(p) == p \in vivos /\ muere = Nadie /\ ~espera[p].dormida

(* The cursor does not come back, not even when a block is given back. *)
HaySitioSiempre(p) == TRUE                                        (* mutant *)
HaySitio(p) == cursor[p] <= Tope

----------------------------------------------------------------------------
(* memory::request *)
Pide(p) ==
  /\ Corre(p)
  /\ Cardinality(Bloques(p)) < MaxPeticiones /\ HaySitio(p)
  /\ \E m \in libres :
       /\ libres' = libres \ {m}
       /\ bloque' = [bloque EXCEPT ![p][cursor[p]] = m]
       /\ pagina' = [pagina EXCEPT ![p][cursor[p]] = m]
  /\ propio' = [propio EXCEPT ![p] = @ \cup {cursor[p]}]
  /\ cursor' = [cursor EXCEPT ![p] = @ + 1]
  /\ UNCHANGED <<vivos, muere, sellado, retenidos, oferta, ventana, prestado, espera>>

(* No address left, no memory for the tables, no handle: the pages are     *)
(* undone, the frames are given back to nobody.                            *)
PideEnVano(p) ==
  /\ Corre(p)
  /\ Cardinality(Bloques(p)) < MaxPeticiones
  /\ \E m \in libres : libres' = libres \ {m}
  /\ UNCHANGED <<vivos, muere, cuentas, retenidos, oferta, mapas, handles, espera>>

(* MEM_OP_OFRECER, loan::offer: a second offer to the same process takes   *)
(* the place of the first while nobody took it.  The piece is compared     *)
(* with the sum of the blocks (handed_over_by).  The tid of the other may  *)
(* be that of a dead task, until it is buried (pid_de).                    *)
Ofertas(p, q) ==
  {i \in Ranuras : oferta[i].viva /\ oferta[i].owner = p
                   /\ oferta[i].destino = q /\ ~oferta[i].tomada}

Ofrece(p, q, v, desde, largo) ==
  /\ Corre(p) /\ v \in propio[p] /\ v \notin sellado[p]
  /\ q # p
  /\ desde + largo <= IF SePasan THEN Cardinality(Bloques(p)) ELSE 1
  /\ \E i \in Ranuras :
       \/ /\ Primera(i, Ofertas(p, q))
          /\ oferta' = [oferta EXCEPT ![i].origen = v + desde, ![i].largo = largo]
       \/ /\ Ofertas(p, q) = {} /\ Primera(i, {j \in Ranuras : ~oferta[j].viva})
          /\ oferta' = [oferta EXCEPT ![i] =
               [viva |-> TRUE, owner |-> p, destino |-> q, origen |-> v + desde,
                largo |-> largo, tomada |-> FALSE, huerfana |-> FALSE]]
  /\ UNCHANGED <<vivos, muere, libres, cuentas, retenidos, mapas, handles, espera>>

(* loan::take: the first offer there is for p, page by page; if one of     *)
(* them is not there, or there is no handle, all of it is undone.          *)
ParaMi(p) == {i \in Ranuras : oferta[i].viva /\ oferta[i].destino = p /\ ~oferta[i].tomada}

Toma(p) ==
  /\ Corre(p)
  /\ \E i \in Ranuras :
       /\ Primera(i, ParaMi(p))
       /\ LET o == oferta[i]
          IN /\ Tramo(o) \subseteq {v \in Sitios : pagina[o.owner][v] # SinMarco}
             /\ ventana' = [ventana EXCEPT ![p][i] = {pagina[o.owner][v] : v \in Tramo(o)}]
       /\ oferta' = [oferta EXCEPT ![i].tomada = TRUE]
       /\ prestado' = [prestado EXCEPT ![p] = @ \cup {i}]
  /\ UNCHANGED <<vivos, muere, libres, cuentas, retenidos, pagina, propio, espera>>

----------------------------------------------------------------------------
(* memory::devuelto, liberar_retenido: the loan of o came back, and the    *)
(* offers are the ones that are left.                                      *)
devuelto(o, ofertas) ==
  LET libera == {r \in retenidos : r.owner = o.owner /\ r.base = o.origen
                                   /\ ~hay_prestado_en(ofertas, r.owner, r.base)}
  IN /\ retenidos' = retenidos \ libera
     /\ libres' = libres \cup {r.marco : r \in libera}
     /\ espera' = IF espera[o.owner].base = o.origen
                  THEN [espera EXCEPT ![o.owner] = NoEspera] ELSE espera

(* Its window is unmapped, the slot is free, and then the owner is told.   *)
VuelveYLuegoBorra(p, i) ==                                         (* mutant *)
  /\ ventana' = [ventana EXCEPT ![p][i] = {}]
  /\ oferta' = [oferta EXCEPT ![i] = NoOferta]
  /\ devuelto(oferta[i], oferta)
Vuelve(p, i) ==
  /\ ventana' = [ventana EXCEPT ![p][i] = {}]
  /\ oferta' = [oferta EXCEPT ![i] = NoOferta]
  /\ devuelto(oferta[i], oferta')

NoRevoca(p, i) == UNCHANGED prestado                               (* mutant *)
Revoca(p, i) == prestado' = [prestado EXCEPT ![p] = @ \ {i}]

(* loan::OP_SOLTAR *)
Devuelve(p, i) ==
  /\ Corre(p) /\ i \in prestado[p]
  /\ oferta[i].tomada /\ oferta[i].destino = p
  /\ Vuelve(p, i) /\ Revoca(p, i)
  /\ UNCHANGED <<vivos, muere, cuentas, pagina, propio>>

(* MEM_OP_SOLTAR: no, while it is lent, with the sequence of now... *)
NoSuelta(p, v) ==
  /\ Corre(p) /\ v \in propio[p] \cap Bloques(p)
  /\ hay_prestado_en(oferta, p, v)
  /\ espera' = [espera EXCEPT ![p] = [base |-> v, dormida |-> FALSE]]
  /\ UNCHANGED <<vivos, muere, libres, cuentas, retenidos, oferta, mapas, handles>>

(* ...or the page, the frames, the slot and the handle, in this order. *)
Suelta(p, v) ==
  /\ Corre(p) /\ v \in propio[p] \cap Bloques(p)
  /\ ~hay_prestado_en(oferta, p, v)
  /\ pagina' = [pagina EXCEPT ![p][v] = SinMarco]
  /\ libres' = libres \cup {bloque[p][v]}
  /\ bloque' = [bloque EXCEPT ![p][v] = SinMarco]
  /\ sellado' = [sellado EXCEPT ![p] = @ \ {v}]
  /\ propio' = [propio EXCEPT ![p] = @ \ {v}]
  /\ UNCHANGED <<vivos, muere, cursor, retenidos, oferta, ventana, prestado, espera>>

(* WAIT on a block, with the sequence that soltar gave: asleep, unless it  *)
(* moved; until it moves or the deadline comes.                            *)
Espera(p) ==
  /\ Corre(p) /\ espera[p].base \in propio[p]
  /\ espera' = [espera EXCEPT ![p].dormida = TRUE]
  /\ UNCHANGED <<vivos, muere, libres, cuentas, retenidos, oferta, mapas, handles>>

Vence(p) ==
  /\ muere = Nadie /\ espera[p].dormida
  /\ espera' = [espera EXCEPT ![p].dormida = FALSE]
  /\ UNCHANGED <<vivos, muere, libres, cuentas, retenidos, oferta, mapas, handles>>

(* memory::sellar: the block is code from now on; if a page cannot be      *)
(* mapped again, it is seen no more.                                       *)
Sella(p, v) ==
  /\ Corre(p) /\ v \in propio[p] \cap Bloques(p) /\ v \notin sellado[p]
  /\ ~hay_prestado_en(oferta, p, v)
  /\ sellado' = [sellado EXCEPT ![p] = @ \cup {v}]
  /\ \E m \in {bloque[p][v], SinMarco} : pagina' = [pagina EXCEPT ![p][v] = m]
  /\ UNCHANGED <<vivos, muere, libres, cursor, bloque, retenidos, oferta, ventana,
                 handles, espera>>

----------------------------------------------------------------------------
(* EXIT, a fault, or its parent closes it: cap::revoke_all. *)
Muere(p) ==
  /\ p \in vivos /\ muere = Nadie
  /\ muere' = p
  /\ UNCHANGED <<vivos, libres, cuentas, retenidos, oferta, mapas, handles, espera>>

(* Station 9, loan::process_died, slot by slot: what it took comes back,   *)
(* what nobody took is withdrawn, what somebody took is an orphan.         *)
Pendientes ==
  {i \in Ranuras : /\ oferta[i].viva
                   /\ \/ oferta[i].destino = muere /\ oferta[i].tomada
                      \/ oferta[i].owner = muere /\ ~oferta[i].huerfana}

MuerePrestamo ==
  /\ muere # Nadie
  /\ \E i \in Ranuras :
       /\ Primera(i, Pendientes)
       /\ IF oferta[i].destino = muere /\ oferta[i].tomada
          THEN Vuelve(muere, i)
          ELSE /\ oferta' = IF oferta[i].tomada
                            THEN [oferta EXCEPT ![i].huerfana = TRUE]
                            ELSE [oferta EXCEPT ![i] = NoOferta]
               /\ UNCHANGED <<libres, retenidos, ventana, espera>>
  /\ UNCHANGED <<vivos, muere, cuentas, pagina, handles>>

RetieneNada(p) == {}                                               (* mutant *)
Retiene(p) == {v \in Bloques(p) : hay_prestado_en(oferta, p, v)}

(* Station 10, memory::process_died: what is lent stays, the rest is freed *)
(* under the page tables of the dead, which nobody uses again; station 16, *)
(* the handles; and the task is marked.                                    *)
MuereMemoria ==
  /\ muere # Nadie /\ Pendientes = {}
  /\ retenidos' = retenidos \cup
       {[owner |-> muere, base |-> v, marco |-> bloque[muere][v]] : v \in Retiene(muere)}
  /\ libres' = libres \cup
       {bloque[muere][v] : v \in Bloques(muere) \ Retiene(muere)}
  /\ bloque' = [bloque EXCEPT ![muere] = [v \in Sitios |-> SinMarco]]
  /\ sellado' = [sellado EXCEPT ![muere] = {}]
  /\ cursor' = [cursor EXCEPT ![muere] = 1]
  /\ propio' = [propio EXCEPT ![muere] = {}]
  /\ prestado' = [prestado EXCEPT ![muere] = {}]
  /\ espera' = [espera EXCEPT ![muere] = NoEspera]
  /\ vivos' = vivos \ {muere} /\ muere' = Nadie
  /\ UNCHANGED <<oferta, mapas>>

----------------------------------------------------------------------------
Next ==
  \/ \E p \in Procesos :
       \/ Pide(p) \/ PideEnVano(p) \/ Toma(p) \/ Espera(p) \/ Vence(p) \/ Muere(p)
       \/ \E q \in Procesos, v \in Sitios, desde \in 0 .. Tope, largo \in 1 .. Tope :
            Ofrece(p, q, v, desde, largo)
       \/ \E v \in Sitios : NoSuelta(p, v) \/ Suelta(p, v) \/ Sella(p, v)
       \/ \E i \in Ranuras : Devuelve(p, i)
  \/ MuerePrestamo \/ MuereMemoria

Spec == Init /\ [][Next]_vars

----------------------------------------------------------------------------
(* Types: the accounts, the offers and the maps. *)
Oferta == [viva : BOOLEAN, owner : Procesos \cup {Nadie},
           destino : Procesos \cup {Nadie}, origen : Nat, largo : Nat,
           tomada : BOOLEAN, huerfana : BOOLEAN]

TypeOK ==
  /\ vivos \subseteq Procesos /\ muere \in vivos \cup {Nadie}
  /\ libres \subseteq Marcos
  /\ cursor \in [Procesos -> 1 .. Tope + 1]
  /\ bloque \in [Procesos -> [Sitios -> Marcos \cup {SinMarco}]]
  /\ sellado \in [Procesos -> SUBSET Sitios]
  /\ retenidos \subseteq [owner : Procesos, base : Sitios, marco : Marcos]
  /\ oferta \in [Ranuras -> Oferta]
  /\ pagina \in [Procesos -> [Sitios -> Marcos \cup {SinMarco}]]
  /\ ventana \in [Procesos -> [Ranuras -> SUBSET Marcos]]
  /\ propio \in [Procesos -> SUBSET Sitios]
  /\ prestado \in [Procesos -> SUBSET Ranuras]
  /\ espera \in [Procesos -> [base : 0 .. Tope, dormida : BOOLEAN]]

(* Who answers for a frame: the account of a process or what was retained  *)
(* of a dead one, and at which address.                                    *)
Titulares(m) ==
  {t \in Procesos \X Sitios : bloque[t[1]][t[2]] = m}
  \cup {<<r.owner, r.base>> : r \in {s \in retenidos : s.marco = m}}

(* soltar, process_died, liberar_retenido ("devolverlos al asignador seria *)
(* entregarselos al siguiente programa mientras el compositor los esta     *)
(* leyendo"): a frame has one owner at most and none when it is free, and  *)
(* whoever lives sees only frames of its own, or of who lent them to it.   *)
FrameHasOneOwner ==
  \A m \in Marcos :
    /\ \A t, u \in Titulares(m) : t = u
    /\ m \in libres => Titulares(m) = {}
    /\ \A p \in vivos :
         /\ \A v \in Sitios : pagina[p][v] = m => <<p, v>> \in Titulares(m)
         /\ \A i \in Ranuras :
              m \in ventana[p][i] => \E t \in Titulares(m) : t[1] = oferta[i].owner

(* Retenido: "[devuelto] lo libera cuando el ultimo prestamo que lo        *)
(* sujetaba se suelta": a block of a dead process is kept only while a     *)
(* loan that somebody took holds it.                                       *)
RetainedIsHeld == \A r \in retenidos : hay_prestado_en(oferta, r.owner, r.base)

(* devuelto, wait_current_checked: who was told that a block is lent, with *)
(* a sequence that did not move, still has it lent; nobody sleeps over a   *)
(* loan that came back, and nothing stays retained by one.                 *)
ReturnIsNoticed ==
  /\ RetainedIsHeld
  /\ \A p \in vivos : espera[p].base # 0 => hay_prestado_en(oferta, p, espera[p].base)

(* OP_SOLTAR and soltar revoke the handle: no handle of a process that     *)
(* runs is left of a loan or a block that is gone, nor answers for the one *)
(* that came to the same window later.                                     *)
HandleIsItsLoan ==
  \A p \in vivos \ {muere} :
    /\ propio[p] \subseteq Bloques(p)
    /\ \A i \in prestado[p] :
         /\ oferta[i].tomada /\ oferta[i].destino = p
         /\ ventana[p][i] # {}

(* MEM_OP_SELLAR ("Los cuatro se niegan con un bloque sellado"): nobody    *)
(* has a loan, which is always written, of a block that is code.           *)
SealedIsNotLent ==
  \A p \in vivos : \A v \in sellado[p] : ~hay_prestado_en(oferta, p, v)
=============================================================================
