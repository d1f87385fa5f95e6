--------------------------- MODULE EndpointProofs ---------------------------
(***************************************************************************)
(* Proofs about Endpoint, for any processes, endpoints, queues, tables of  *)
(* capabilities and widths of the generations.  What says that an answer   *)
(* is to the right call holds while no process made as many calls as its   *)
(* generation tells apart: SinVuelta.                                      *)
(***************************************************************************)
EXTENDS Endpoint, FiniteSetTheorems, TLAPS

SinVuelta == MaxCalls < GenWrap

Finitas == \A p \in Procs : IsFiniteSet(caps[p])

Tipos == TypeOK /\ Finitas

(* Kinds tell the capabilities apart. *)
LEMMA CapKinds ==
  ASSUME NEW cap \in Cap
  PROVE  /\ cap.kind \in {"servir", "llamar"} => cap.i \in Eps
         /\ cap.kind = "responder" =>
              /\ cap.i \in Eps /\ cap.caller_tid \in Procs
              /\ cap.de \in Gens /\ cap.gen = cap.de % GenReply
  BY DEF Cap, Servir, Llamar, Responder

(* Sizes and keys are natural numbers, and the keys differ. *)
LEMMA Constantes ==
  /\ NEps \in Nat /\ Queue \in Nat /\ Queue > 0 /\ GenWrap \in Nat /\ GenWrap > 0
  /\ GenReply \in Nat /\ GenReply > 0 /\ RingSize \in Nat /\ SlotsPerProc \in Nat
  /\ Eps \subseteq Nat /\ ReplyKey \in Nat /\ ReplyKey \notin Eps /\ NoKey \notin Eps
  /\ NoKey # ReplyKey /\ Eps \subseteq 0 .. ReplyKey /\ 0 \in Gens
  BY SizesAssumption DEF Eps, ReplyKey, NoKey, Gens

(* wake_by_key and mark_wait leave tasks tasks. *)
Tareas == [Procs -> [state : {"Ready", "Blocked", "Exited"}, wait_key : 0 .. ReplyKey]]

LEMMA DespiertaTipo ==
  ASSUME NEW t \in Tareas, NEW key
  PROVE  Despierta(t, key) \in Tareas
  BY Constantes DEF Despierta, Tareas, NoKey

LEMMA DuermeTipo ==
  ASSUME NEW t \in Tareas, NEW p \in Procs, NEW key \in 0 .. ReplyKey
  PROVE  Duerme(t, p, key) \in Tareas
  BY DEF Duerme, Tareas

(* complete, with the outcome of whoever it completes. *)
LEMMA CompleteTipo ==
  ASSUME Tipos, NEW cs \in SUBSET Procs, NEW out, \A c \in cs : out[c] \in Outcome,
         Complete(cs, out)
  PROVE  resp' \in [Procs -> Reply] /\ frame' \in [Procs -> Outcome] /\ tarea' \in Tareas
<1>1. Despierta(tarea, ReplyKey) \in Tareas
  BY DespiertaTipo DEF Tipos, TypeOK, Tareas
<1>2. resp' \in [Procs -> Reply]
  BY ZenonT(60) DEF Complete, Tipos, TypeOK, Reply
<1>3. frame' \in [Procs -> Outcome]
  BY DEF Complete, Tipos, TypeOK
<1>4. tarea' \in Tareas
  BY <1>1 DEF Complete, Tipos, TypeOK, Tareas
<1> QED
  BY <1>2, <1>3, <1>4

(* A slot that is free takes one capability more. *)
LEMMA CabeUna ==
  ASSUME Tipos, NEW p \in Procs, Cabe(p), NEW cap \in Cap,
         caps' = [caps EXCEPT ![p] = @ \cup {cap}]
  PROVE  /\ caps' \in [Procs -> SUBSET Cap]
         /\ \A q \in Procs : IsFiniteSet(caps'[q]) /\ Cardinality(caps'[q]) <= SlotsPerProc
<1>1. IsFiniteSet(caps[p]) /\ Cardinality(caps[p]) \in Nat
  BY FS_CardinalityType DEF Tipos, Finitas
<1>2. IsFiniteSet(caps[p] \cup {cap})
      /\ Cardinality(caps[p] \cup {cap}) <= Cardinality(caps[p]) + 1
  <2>1. IsFiniteSet(caps[p] \cup {cap})
        /\ Cardinality(caps[p] \cup {cap})
             \in {Cardinality(caps[p]), Cardinality(caps[p]) + 1}
    BY <1>1, FS_AddElement
  <2> QED
    BY <1>1, <2>1
<1>3. Cardinality(caps[p] \cup {cap}) <= SlotsPerProc
  <2>1. Cardinality(caps[p] \cup {cap}) \in Nat
    BY <1>2, FS_CardinalityType
  <2> QED
    BY <1>1, <1>2, <2>1, Constantes DEF Cabe
<1> QED
  BY <1>2, <1>3 DEF Tipos, TypeOK, Finitas

(* And one that is spent leaves fewer. *)
LEMMA QuedanMenos ==
  ASSUME Tipos, NEW p \in Procs, NEW S \in SUBSET caps[p],
         caps' = [caps EXCEPT ![p] = S]
  PROVE  /\ caps' \in [Procs -> SUBSET Cap]
         /\ \A q \in Procs : IsFiniteSet(caps'[q]) /\ Cardinality(caps'[q]) <= SlotsPerProc
<1>1. IsFiniteSet(caps[p]) /\ Cardinality(caps[p]) \in Nat
      /\ Cardinality(caps[p]) <= SlotsPerProc
  BY FS_CardinalityType DEF Tipos, TypeOK, Finitas
<1>2. IsFiniteSet(S) /\ Cardinality(S) <= Cardinality(caps[p])
  BY <1>1, FS_Subset
<1>3. Cardinality(S) <= SlotsPerProc
  <2>1. Cardinality(S) \in Nat
    BY <1>2, FS_CardinalityType
  <2> QED
    BY <1>1, <1>2, <2>1, Constantes
<1> QED
  BY <1>2, <1>3 DEF Tipos, TypeOK, Finitas

----------------------------------------------------------------------------
(* The circular queue. *)

(* Small indices of a queue of N go round at most once. *)
LEMMA Vuelta ==
  ASSUME NEW N \in Nat, N > 0, NEW i \in Nat, i < 2 * N
  PROVE  i % N = IF i < N THEN i ELSE i - N
<1>1. CASE i < N
  BY <1>1
<1>2. CASE i >= N
  BY <1>2
<1> QED
  BY <1>1, <1>2

LEMMA Hueco ==
  /\ \A i \in 0 .. 2 * Queue - 1 : i % Queue = IF i < Queue THEN i ELSE i - Queue
  /\ \A i \in 0 .. 2 * Queue - 1 : i % Queue \in 0 .. Queue - 1
<1>1. Queue \in Nat /\ Queue > 0
  BY Constantes
<1>2. ASSUME NEW i \in 0 .. 2 * Queue - 1
      PROVE  i % Queue = IF i < Queue THEN i ELSE i - Queue
  <2>1. i \in Nat /\ i < 2 * Queue
    BY <1>1
  <2> QED
    BY <1>1, <2>1, Vuelta
<1>3. ASSUME NEW i \in 0 .. 2 * Queue - 1
      PROVE  i % Queue \in 0 .. Queue - 1
  BY <1>1, <1>2
<1> QED
  BY <1>2, <1>3

(* Two places of the queue less than a turn apart are different. *)
LEMMA OtroHueco ==
  ASSUME NEW i \in 0 .. 2 * Queue - 1, NEW j \in 0 .. 2 * Queue - 1,
         i < j, j < i + Queue
  PROVE  i % Queue # j % Queue
<1>1. i % Queue = IF i < Queue THEN i ELSE i - Queue
  BY Hueco
<1>2. j % Queue = IF j < Queue THEN j ELSE j - Queue
  BY Hueco
<1>3. Queue \in Nat /\ Queue > 0
  BY Constantes
<1> QED
  BY <1>1, <1>2, <1>3

(* Encolada and Desencolada are Append and Tail of what waits. *)
LEMMA EncoladaTipo ==
  ASSUME NEW e \in EndpointState, NEW c \in Procs, e.n < Queue
  PROVE  /\ Encolada(e, c) \in EndpointState
         /\ Encolada(e, c).vivo = e.vivo /\ Encolada(e, c).servidor_pid = e.servidor_pid
         /\ Encolada(e, c).n = e.n + 1
         /\ EnCola(Encolada(e, c))[e.n + 1] = c
         /\ \A k \in 1 .. e.n : EnCola(Encolada(e, c))[k] = EnCola(e)[k]
<1> DEFINE h == (e.cabeza + e.n) % Queue
           f == Encolada(e, c)
<1>1. e.cabeza \in 0 .. Queue - 1 /\ e.n \in 0 .. Queue
      /\ e.cola \in [0 .. Queue - 1 -> Call]
  BY DEF EndpointState
<1>2. h \in 0 .. Queue - 1 /\ e.cabeza + e.n \in 0 .. 2 * Queue - 1
  <2>1. e.cabeza + e.n \in 0 .. 2 * Queue - 1
    BY <1>1, Constantes
  <2> QED
    BY <2>1, Hueco
<1>3. f = [e EXCEPT !.cola = [e.cola EXCEPT ![h] = c], !.n = e.n + 1]
  BY DEF Encolada
<1>4. [e.cola EXCEPT ![h] = c] \in [0 .. Queue - 1 -> Call] /\ e.n + 1 \in 0 .. Queue
  BY <1>1, <1>2, Constantes, SMTT(30) DEF Call
<1>5. f \in EndpointState
  BY <1>3, <1>4 DEF EndpointState
<1>6. f.vivo = e.vivo /\ f.servidor_pid = e.servidor_pid /\ f.n = e.n + 1
      /\ f.cabeza = e.cabeza /\ f.cola = [e.cola EXCEPT ![h] = c]
  BY <1>3 DEF EndpointState
<1>7. ASSUME NEW k \in 1 .. e.n + 1
      PROVE  EnCola(f)[k] = [e.cola EXCEPT ![h] = c][(e.cabeza + k - 1) % Queue]
  BY <1>1, <1>6 DEF EnCola
<1>8. EnCola(f)[e.n + 1] = c
  <2>1. e.n + 1 \in 1 .. e.n + 1 /\ e.cabeza + (e.n + 1) - 1 = e.cabeza + e.n
    BY <1>1
  <2> QED
    BY <1>1, <1>2, <1>7, <2>1
<1>9. ASSUME NEW k \in 1 .. e.n
      PROVE  EnCola(f)[k] = EnCola(e)[k]
  <2> DEFINE j == (e.cabeza + k - 1) % Queue
  <2>1. j \in 0 .. Queue - 1 /\ j # h
    <3>1. /\ e.cabeza + k - 1 \in 0 .. 2 * Queue - 1
          /\ e.cabeza + k - 1 < e.cabeza + e.n
          /\ e.cabeza + e.n < (e.cabeza + k - 1) + Queue
      BY <1>1, Constantes
    <3> QED
      BY <1>2, <3>1, Hueco, OtroHueco
  <2>2. EnCola(f)[k] = [e.cola EXCEPT ![h] = c][j]
    BY <1>1, <1>7
  <2>3. EnCola(e)[k] = e.cola[j]
    BY <1>1 DEF EnCola
  <2> QED
    BY <1>1, <2>1, <2>2, <2>3
<1> QED
  BY <1>5, <1>6, <1>8, <1>9

LEMMA DesencoladaTipo ==
  ASSUME NEW e \in EndpointState, e.n > 0
  PROVE  /\ Desencolada(e) \in EndpointState
         /\ Desencolada(e).vivo = e.vivo
         /\ Desencolada(e).servidor_pid = e.servidor_pid
         /\ Desencolada(e).n = e.n - 1
         /\ Primera(e) = EnCola(e)[1]
         /\ \A k \in 1 .. e.n - 1 : EnCola(Desencolada(e))[k] = EnCola(e)[k + 1]
<1> DEFINE h == e.cabeza
           f == Desencolada(e)
<1>1. e.cabeza \in 0 .. Queue - 1 /\ e.n \in 1 .. Queue
      /\ e.cola \in [0 .. Queue - 1 -> Call]
  BY DEF EndpointState
<1>2. f = [e EXCEPT !.cola = [e.cola EXCEPT ![h] = NoProc],
                    !.cabeza = (e.cabeza + 1) % Queue, !.n = e.n - 1]
  BY DEF Desencolada
<1>3. [e.cola EXCEPT ![h] = NoProc] \in [0 .. Queue - 1 -> Call] /\ e.n - 1 \in 0 .. Queue
      /\ (e.cabeza + 1) % Queue \in 0 .. Queue - 1
  <2>1. e.cabeza + 1 \in 0 .. 2 * Queue - 1 /\ e.n - 1 \in 0 .. Queue
    BY <1>1, Constantes
  <2> QED
    BY <1>1, <2>1, Hueco DEF Call
<1>4. f \in EndpointState
  BY <1>2, <1>3 DEF EndpointState
<1>5. f.vivo = e.vivo /\ f.servidor_pid = e.servidor_pid /\ f.n = e.n - 1
      /\ f.cabeza = (e.cabeza + 1) % Queue /\ f.cola = [e.cola EXCEPT ![h] = NoProc]
  BY <1>2 DEF EndpointState
<1>6. Primera(e) = EnCola(e)[1]
  <2>1. 1 \in 1 .. e.n /\ e.cabeza + 1 - 1 = e.cabeza /\ e.cabeza < Queue
        /\ e.cabeza \in 0 .. 2 * Queue - 1
    BY <1>1, Constantes
  <2>2. (e.cabeza + 1 - 1) % Queue = e.cabeza
    BY <2>1, Hueco
  <2> QED
    BY <2>1, <2>2 DEF Primera, EnCola
<1>7. ASSUME NEW k \in 1 .. e.n - 1
      PROVE  EnCola(f)[k] = EnCola(e)[k + 1]
  <2> DEFINE j == (e.cabeza + (k + 1) - 1) % Queue
             m == (((e.cabeza + 1) % Queue) + k - 1) % Queue
  <2>1. j \in 0 .. Queue - 1 /\ j # h
    <3>1. /\ e.cabeza \in 0 .. 2 * Queue - 1
          /\ e.cabeza + (k + 1) - 1 \in 0 .. 2 * Queue - 1
          /\ e.cabeza < e.cabeza + (k + 1) - 1
          /\ e.cabeza + (k + 1) - 1 < e.cabeza + Queue
          /\ e.cabeza < Queue
      BY <1>1, Constantes, SMTT(30)
    <3>2. e.cabeza % Queue = e.cabeza
      BY <3>1, Hueco
    <3> QED
      BY <3>1, <3>2, Hueco, OtroHueco
  <2>2. m = j
    <3>1. Queue \in Nat /\ Queue > 0 /\ e.cabeza \in Nat /\ e.cabeza < Queue
          /\ k \in Nat /\ k >= 1 /\ k < Queue
      BY <1>1, Constantes
    <3>2. (e.cabeza + 1) % Queue = IF e.cabeza + 1 < Queue THEN e.cabeza + 1 ELSE 0
      <4>1. e.cabeza + 1 \in 0 .. 2 * Queue - 1
        BY <3>1
      <4>2. ASSUME NEW i \in 0 .. 2 * Queue - 1, i = e.cabeza + 1
            PROVE  i % Queue = IF i < Queue THEN i ELSE 0
        BY <3>1, <4>2, Hueco
      <4> QED
        BY <4>1, <4>2
    <3>3. CASE e.cabeza + 1 < Queue
      <4>1. ((e.cabeza + 1) % Queue) + k - 1 = e.cabeza + (k + 1) - 1
        BY <3>1, <3>2, <3>3
      <4> QED
        BY <4>1
    <3>4. CASE ~(e.cabeza + 1 < Queue)
      <4>0. (e.cabeza + 1) % Queue = 0 /\ e.cabeza = Queue - 1
        BY <3>1, <3>2, <3>4
      <4>1. ((e.cabeza + 1) % Queue) + k - 1 = k - 1
            /\ e.cabeza + (k + 1) - 1 = Queue + k - 1
        BY <3>1, <4>0
      <4>2. k - 1 \in 0 .. 2 * Queue - 1 /\ k - 1 < Queue
            /\ Queue + k - 1 \in 0 .. 2 * Queue - 1 /\ ~(Queue + k - 1 < Queue)
            /\ (Queue + k - 1) - Queue = k - 1
        BY <3>1
      <4>3. (k - 1) % Queue = k - 1 /\ (Queue + k - 1) % Queue = k - 1
        BY <4>2, Hueco
      <4> QED
        BY <4>1, <4>3
    <3> QED
      BY <3>3, <3>4
  <2>3. EnCola(f)[k] = [e.cola EXCEPT ![h] = NoProc][m]
    BY <1>1, <1>5 DEF EnCola
  <2>4. EnCola(e)[k + 1] = e.cola[j]
    <3>1. k + 1 \in 1 .. e.n
      BY <1>1
    <3> QED
      BY <3>1 DEF EnCola
  <2> QED
    BY <1>1, <2>1, <2>2, <2>3, <2>4
<1> QED
  BY <1>4, <1>5, <1>6, <1>7

----------------------------------------------------------------------------
(* Types, who is in a queue, and nobody asleep over one. *)
EncolaLlamantes ==
  \A i \in Eps : \A k \in 1 .. eps[i].n : EnCola(eps[i])[k] \in Procs

Base == Tipos /\ EncolaLlamantes /\ NoCallSleptOn

LEMMA InitBase == Init => Base
<1> SUFFICES ASSUME Init PROVE Base
  OBVIOUS
<1>1. EmptyEndpoint \in EndpointState /\ EmptyEndpoint.n = 0
  BY Constantes DEF EmptyEndpoint, EndpointState, Call
<1>2. \A p \in Procs : IsFiniteSet(caps[p]) /\ Cardinality(caps[p]) <= SlotsPerProc
  BY FS_EmptySet, Constantes DEF Init
<1>3. TypeOK
  <2>1. Provisional \in Outcome
    BY Constantes DEF Provisional, Outcome
  <2>2. resp \in [Procs -> Reply]
    BY <2>1, Constantes DEF Init, Reply
  <2>3. tarea \in [Procs -> [state : {"Ready", "Blocked", "Exited"}, wait_key : 0 .. ReplyKey]]
    BY Constantes DEF Init, NoKey
  <2>4. frame \in [Procs -> Outcome]
    BY Constantes DEF Init, Outcome
  <2>5. eps \in [Eps -> EndpointState] /\ caps \in [Procs -> SUBSET Cap]
    BY <1>1 DEF Init
  <2>6. anillo \in [Procs -> 0 .. RingSize] /\ cierra \in [Procs -> Procs \cup {NoProc}]
    BY Constantes DEF Init
  <2> QED
    BY <1>2, <2>2, <2>3, <2>4, <2>5, <2>6 DEF TypeOK
<1>4. EncolaLlamantes /\ NoCallSleptOn
  BY <1>1 DEF Init, EncolaLlamantes, NoCallSleptOn
<1> QED
  BY <1>2, <1>3, <1>4 DEF Base, Tipos, Finitas

(* Steps on capabilities alone. *)
LEMMA GrantClientBase ==
  ASSUME Base, NEW p \in Procs, NEW i \in Eps, GrantClient(p, i)
  PROVE  Base'
<1>1. Llamar(i) \in Cap
  BY DEF Cap
<1>2. /\ caps' \in [Procs -> SUBSET Cap]
      /\ \A q \in Procs : IsFiniteSet(caps'[q]) /\ Cardinality(caps'[q]) <= SlotsPerProc
  BY <1>1, CabeUna DEF GrantClient, Base
<1> QED
  BY <1>2 DEF GrantClient, Base, Tipos, Finitas, TypeOK, EncolaLlamantes, NoCallSleptOn

LEMMA CreateBase ==
  ASSUME Base, NEW p \in Procs, Create(p)
  PROVE  Base'
<1>1. PICK i \in Eps :
        /\ eps' = [eps EXCEPT ![i] = [EmptyEndpoint EXCEPT !.vivo = TRUE, !.servidor_pid = p]]
        /\ caps' = IF Cabe(p) THEN [caps EXCEPT ![p] = @ \cup {Servir(i)}] ELSE caps
  BY DEF Create
<1> DEFINE e == [EmptyEndpoint EXCEPT !.vivo = TRUE, !.servidor_pid = p]
<1>2. e \in EndpointState /\ e.n = 0
  <2>1. EmptyEndpoint \in EndpointState /\ EmptyEndpoint.n = 0
    BY Constantes DEF EmptyEndpoint, EndpointState, Call
  <2> QED
    BY <2>1 DEF EndpointState
<1>3. eps' \in [Eps -> EndpointState] /\ eps'[i].n = 0
      /\ \A j \in Eps : j # i => eps'[j] = eps[j]
  BY <1>1, <1>2 DEF Base, Tipos, TypeOK
<1>4. Servir(i) \in Cap
  BY DEF Cap
<1>5. /\ caps' \in [Procs -> SUBSET Cap]
      /\ \A q \in Procs : IsFiniteSet(caps'[q]) /\ Cardinality(caps'[q]) <= SlotsPerProc
  <2>1. CASE Cabe(p)
    BY <1>1, <1>4, <2>1, CabeUna DEF Base
  <2>2. CASE ~Cabe(p)
    BY <1>1, <2>2 DEF Base, Tipos, TypeOK, Finitas
  <2> QED
    BY <2>1, <2>2
<1>6. UNCHANGED <<resp, tarea, frame, anillo, cierra>>
  BY DEF Create
<1>7. EncolaLlamantes'
  <2>1. ASSUME NEW j \in Eps, NEW k \in 1 .. eps'[j].n
        PROVE  EnCola(eps'[j])[k] \in Procs
    BY <1>3, <2>1 DEF Base, EncolaLlamantes
  <2> QED
    BY <2>1 DEF EncolaLlamantes
<1>8. NoCallSleptOn'
  BY <1>3, <1>6 DEF Base, NoCallSleptOn
<1> QED
  BY <1>3, <1>5, <1>6, <1>7, <1>8 DEF Base, Tipos, Finitas, TypeOK

(* What call prepares, and where its caller sleeps. *)
LEMMA CallOpHace ==
  ASSUME Base, NEW p \in Procs, NEW cap \in De(p, "llamar"), CallOp(p, cap)
  PROVE  /\ cap.i \in Eps /\ eps[cap.i].n < Queue
         /\ eps' = [eps EXCEPT ![cap.i] = Encolada(eps[cap.i], p)]
         /\ resp' = [resp EXCEPT ![p] = Preparada(resp[p])]
         /\ frame' = [frame EXCEPT ![p] = Provisional]
         /\ tarea' = Duerme(Despierta(tarea, cap.i), p, ReplyKey)
         /\ UNCHANGED <<caps, anillo, cierra>>
<1>1. cap \in Cap /\ cap.kind = "llamar"
  BY DEF De, Base, Tipos, TypeOK
<1>2. cap.i \in Eps
  BY <1>1, CapKinds
<1>3. Preparada(resp[p]).lista = FALSE
  BY DEF Preparada
<1> QED
  BY <1>2, <1>3 DEF CallOp, Avisa

LEMMA CallOpBase ==
  ASSUME Base, NEW p \in Procs, NEW cap \in De(p, "llamar"), CallOp(p, cap)
  PROVE  Base'
<1> DEFINE i == cap.i
<1>1. /\ i \in Eps /\ eps[i].n < Queue
      /\ eps' = [eps EXCEPT ![i] = Encolada(eps[i], p)]
      /\ resp' = [resp EXCEPT ![p] = Preparada(resp[p])]
      /\ frame' = [frame EXCEPT ![p] = Provisional]
      /\ tarea' = Duerme(Despierta(tarea, i), p, ReplyKey)
      /\ UNCHANGED <<caps, anillo, cierra>>
  BY CallOpHace
<1> HIDE DEF i
<1>2. eps[i] \in EndpointState
  BY <1>1 DEF Base, Tipos, TypeOK
<1>3. /\ Encolada(eps[i], p) \in EndpointState
      /\ Encolada(eps[i], p).n = eps[i].n + 1
      /\ EnCola(Encolada(eps[i], p))[eps[i].n + 1] = p
      /\ \A k \in 1 .. eps[i].n : EnCola(Encolada(eps[i], p))[k] = EnCola(eps[i])[k]
  BY <1>1, <1>2, EncoladaTipo
<1>4. /\ eps' \in [Eps -> EndpointState]
      /\ eps'[i] = Encolada(eps[i], p)
      /\ \A j \in Eps : j # i => eps'[j] = eps[j]
  BY <1>1, <1>3 DEF Base, Tipos, TypeOK
<1>5. resp' \in [Procs -> Reply]
  <2>1. resp[p].gen \in Nat
    BY Constantes DEF Base, Tipos, TypeOK, Reply, Gens
  <2>2. (resp[p].gen + 1) % GenWrap \in Gens
    BY <2>1, Constantes DEF Gens
  <2>3. Preparada(resp[p]) \in Reply
    BY <2>2, Constantes DEF Preparada, Reply, Provisional, Outcome
  <2> QED
    BY <1>1, <2>3 DEF Base, Tipos, TypeOK
<1>6. frame' \in [Procs -> Outcome]
  BY <1>1, Constantes DEF Base, Tipos, TypeOK, Provisional, Outcome
<1>7. Despierta(tarea, i) \in Tareas
  BY DespiertaTipo DEF Base, Tipos, TypeOK, Tareas
<1>8. tarea' \in Tareas
  BY <1>1, <1>7, DuermeTipo, Constantes
<1>9. EncolaLlamantes'
  <2>1. ASSUME NEW j \in Eps, NEW k \in 1 .. eps'[j].n
        PROVE  EnCola(eps'[j])[k] \in Procs
    <3>1. CASE j # i
      BY <1>4, <2>1, <3>1 DEF Base, EncolaLlamantes
    <3>2. CASE j = i /\ k = eps[i].n + 1
      BY <1>3, <1>4, <3>2
    <3>3. CASE j = i /\ k # eps[i].n + 1
      <4>1. k \in 1 .. eps[i].n
        BY <1>2, <1>3, <1>4, <2>1, <3>3 DEF EndpointState
      <4> QED
        BY <1>1, <1>3, <1>4, <3>3, <4>1 DEF Base, EncolaLlamantes
    <3> QED
      BY <3>1, <3>2, <3>3
  <2> QED
    BY <2>1 DEF EncolaLlamantes
<1>10. NoCallSleptOn'
  <2>1. ASSUME NEW q \in Procs, tarea'[q].state = "Blocked", tarea'[q].wait_key \in Eps
        PROVE  eps'[tarea'[q].wait_key].n = 0
    <3>1. q # p
      BY <1>1, <1>7, <2>1, Constantes DEF Duerme, Tareas
    <3>2. tarea'[q] = Despierta(tarea, i)[q]
      BY <1>1, <1>7, <3>1 DEF Duerme, Tareas
    <3>3. tarea'[q] = tarea[q] /\ tarea[q].wait_key # i
      BY <2>1, <3>2 DEF Despierta
    <3> QED
      BY <1>4, <2>1, <3>3 DEF Base, NoCallSleptOn
  <2> QED
    BY <2>1 DEF NoCallSleptOn
<1> QED
  BY <1>1, <1>4, <1>5, <1>6, <1>8, <1>9, <1>10
  DEF Base, Tipos, Finitas, TypeOK, Tareas

(* complete puts nobody to sleep. *)
LEMMA CompleteDuerme ==
  ASSUME Base, NEW cs, NEW out, Complete(cs, out), NEW q \in Procs
  PROVE  tarea'[q] = tarea[q] \/ tarea'[q].state = "Ready"
<1>1. tarea'[q] = IF q \in cs THEN Despierta(tarea, ReplyKey)[q] ELSE tarea[q]
  BY DEF Complete
<1>2. Despierta(tarea, ReplyKey)[q] = tarea[q]
      \/ Despierta(tarea, ReplyKey)[q].state = "Ready"
  BY DEF Despierta
<1> QED
  BY <1>1, <1>2

(* Steps that touch no queue. *)
LEMMA QuietBase ==
  ASSUME Base, UNCHANGED eps,
         Tipos',
         \A q \in Procs : tarea'[q] = tarea[q] \/ tarea'[q].state # "Blocked"
                          \/ tarea'[q].wait_key \notin Eps
                          \/ eps[tarea'[q].wait_key].n = 0
  PROVE  Base'
  BY DEF Base, EncolaLlamantes, NoCallSleptOn

LEMMA WaitForNothingBase ==
  ASSUME Base, NEW p \in Procs, NEW cap \in De(p, "servir"), WaitForNothing(p, cap)
  PROVE  Base'
<1>1. cap.i \in Eps
  BY CapKinds DEF De, Base, Tipos, TypeOK
<1>2. tarea' \in Tareas
  BY <1>1, DuermeTipo, Constantes DEF WaitForNothing, Base, Tipos, TypeOK, Tareas
<1>3. Tipos'
  BY <1>2 DEF WaitForNothing, Base, Tipos, Finitas, TypeOK, Tareas
<1>4. ASSUME NEW q \in Procs
      PROVE  tarea'[q] = tarea[q] \/ (tarea'[q].wait_key = cap.i /\ eps[cap.i].n = 0)
  BY DEF WaitForNothing, Duerme, Base, Tipos, TypeOK
<1>5. UNCHANGED eps
  BY DEF WaitForNothing
<1> QED
  BY <1>3, <1>4, <1>5, QuietBase

LEMMA TimeoutBase ==
  ASSUME Base, NEW p \in Procs, Timeout(p)
  PROVE  Base'
<1>0. tarea' \in Tareas
  BY Constantes DEF Timeout, Base, Tipos, TypeOK, Tareas, NoKey
<1>1. Tipos'
  BY <1>0 DEF Timeout, Base, Tipos, Finitas, TypeOK, Tareas
<1>2. ASSUME NEW q \in Procs
      PROVE  tarea'[q] = tarea[q] \/ tarea'[q].state = "Ready"
  BY DEF Timeout, Base, Tipos, TypeOK
<1>3. UNCHANGED eps
  BY DEF Timeout
<1> QED
  BY <1>1, <1>2, <1>3, QuietBase

LEMMA PollBase ==
  ASSUME Base, NEW p \in Procs, Poll(p)
  PROVE  Base'
<1>1. anillo' \in [Procs -> 0 .. RingSize]
  BY Constantes DEF Poll, Base, Tipos, TypeOK
<1>2. Tipos'
  BY <1>1 DEF Poll, Base, Tipos, Finitas, TypeOK
<1>3. UNCHANGED <<eps, tarea>>
  BY DEF Poll
<1> QED
  BY <1>2, <1>3, QuietBase

LEMMA TerminaBase ==
  ASSUME Base, NEW p \in Procs, Termina(p)
  PROVE  Base'
<1>1. /\ caps' \in [Procs -> SUBSET Cap]
      /\ \A q \in Procs : IsFiniteSet(caps'[q]) /\ Cardinality(caps'[q]) <= SlotsPerProc
  BY QuedanMenos DEF Termina, Base
<1>0. tarea' \in Tareas
  BY Constantes DEF Termina, Base, Tipos, TypeOK, Tareas, NoKey
<1>5. cierra' \in [Procs -> Procs \cup {NoProc}]
  BY DEF Termina, Base, Tipos, TypeOK
<1>2. Tipos'
  BY <1>0, <1>1, <1>5 DEF Termina, Base, Tipos, Finitas, TypeOK, Tareas
<1>3. ASSUME NEW q \in Procs
      PROVE  tarea'[q] = tarea[q] \/ tarea'[q].state = "Exited"
  BY DEF Termina, Base, Tipos, TypeOK
<1>4. UNCHANGED eps
  BY DEF Termina
<1> QED
  BY <1>2, <1>3, <1>4, QuietBase

LEMMA ReplyToBase ==
  ASSUME Base, NEW p \in Procs, NEW cap \in De(p, "responder"), ReplyTo(p, cap)
  PROVE  Base'
<1>1. cap \in Cap /\ cap.kind = "responder" /\ cap.caller_tid \in Procs /\ cap.de \in Gens
  BY CapKinds DEF De, Base, Tipos, TypeOK
<1> DEFINE cs == {c \in {cap.caller_tid} : Acepta(c, cap.gen)}
           out == [c \in {cap.caller_tid} |-> [code |-> "ok", de |-> cap.de]]
<1>2. Complete(cs, out)
  BY DEF ReplyTo
<1>3. cs \in SUBSET Procs /\ \A c \in cs : out[c] \in Outcome
  BY <1>1 DEF Outcome
<1> HIDE DEF cs, out
<1>4. resp' \in [Procs -> Reply] /\ frame' \in [Procs -> Outcome] /\ tarea' \in Tareas
  BY <1>2, <1>3, CompleteTipo DEF Base
<1>5. /\ caps' \in [Procs -> SUBSET Cap]
      /\ \A q \in Procs : IsFiniteSet(caps'[q]) /\ Cardinality(caps'[q]) <= SlotsPerProc
  BY QuedanMenos DEF ReplyTo, Gastada, Base
<1>6. UNCHANGED <<eps, anillo, cierra>>
  BY DEF ReplyTo
<1>7. Tipos'
  BY <1>4, <1>5, <1>6 DEF Base, Tipos, Finitas, TypeOK, Tareas
<1>8. \A q \in Procs : tarea'[q] = tarea[q] \/ tarea'[q].state = "Ready"
  BY <1>2, CompleteDuerme
<1> QED
  BY <1>6, <1>7, <1>8, QuietBase

(* wait_for with a call: the first one leaves the queue, to the server's   *)
(* hands or with a refusal.                                                *)
LEMMA WaitForHace ==
  ASSUME Base, NEW p \in Procs, NEW cap \in De(p, "servir"), WaitFor(p, cap)
  PROVE  \E i \in Eps, c \in Procs :
           /\ i = cap.i /\ eps[i].n > 0 /\ c = EnCola(eps[i])[1]
           /\ eps' = [eps EXCEPT ![i] = Desencolada(eps[i])]
           /\ eps' \in [Eps -> EndpointState]
           /\ eps'[i].n = eps[i].n - 1
           /\ \A k \in 1 .. eps'[i].n : EnCola(eps'[i])[k] = EnCola(eps[i])[k + 1]
           /\ \A j \in Eps : j # i => eps'[j] = eps[j]
           /\ \/ /\ Cabe(p)
                 /\ caps' = [caps EXCEPT ![p] = @ \cup {Responder(i, c, resp[c].gen)}]
                 /\ UNCHANGED <<resp, frame, tarea>>
              \/ /\ Complete({x \in {c} : Acepta(x, resp[c].gen)},
                             [x \in {c} |-> [code |-> "busy", de |-> resp[c].gen]])
                 /\ UNCHANGED caps
           /\ Publish(p) /\ UNCHANGED cierra
<1>1. cap.i \in Eps
  BY CapKinds DEF De, Base, Tipos, TypeOK
<1> DEFINE i == cap.i
           c == Primera(eps[i])
<1>2. eps[i] \in EndpointState /\ eps[i].n > 0 /\ eps[i].n \in Nat
  <2>1. eps[i] \in EndpointState
    BY <1>1 DEF Base, Tipos, TypeOK
  <2>2. eps[i].n > 0
    BY DEF WaitFor
  <2>3. eps[i].n \in Nat
    BY <2>1, Constantes DEF EndpointState
  <2> QED
    BY <2>1, <2>2, <2>3
<1>3. /\ Desencolada(eps[i]) \in EndpointState
      /\ Desencolada(eps[i]).n = eps[i].n - 1
      /\ c = EnCola(eps[i])[1]
      /\ \A k \in 1 .. eps[i].n - 1 :
           EnCola(Desencolada(eps[i]))[k] = EnCola(eps[i])[k + 1]
  BY <1>2, DesencoladaTipo
<1>4. c \in Procs
  <2>1. 1 \in 1 .. eps[i].n
    BY <1>2
  <2> QED
    BY <1>1, <1>3, <2>1 DEF Base, EncolaLlamantes
<1>5. /\ eps' = [eps EXCEPT ![i] = Desencolada(eps[i])]
      /\ \/ /\ Cabe(p)
            /\ caps' = [caps EXCEPT ![p] = @ \cup {Responder(i, c, resp[c].gen)}]
            /\ UNCHANGED <<resp, frame, tarea>>
         \/ /\ Complete({x \in {c} : Acepta(x, resp[c].gen)},
                        [x \in {c} |-> [code |-> "busy", de |-> resp[c].gen]])
            /\ UNCHANGED caps
      /\ Publish(p) /\ UNCHANGED cierra
  BY DEF WaitFor
<1> HIDE DEF i, c
<1>6. /\ eps' \in [Eps -> EndpointState]
      /\ eps'[i] = Desencolada(eps[i])
      /\ \A j \in Eps : j # i => eps'[j] = eps[j]
  BY <1>1, <1>3, <1>5 DEF Base, Tipos, TypeOK, i
<1>7. i \in Eps /\ i = cap.i
  BY <1>1 DEF i
<1>8. eps'[i].n = eps[i].n - 1
      /\ \A k \in 1 .. eps'[i].n : EnCola(eps'[i])[k] = EnCola(eps[i])[k + 1]
  BY <1>3, <1>6
<1> QED
  BY <1>2, <1>3, <1>4, <1>5, <1>6, <1>7, <1>8, ZenonT(60)

LEMMA WaitForBase ==
  ASSUME Base, NEW p \in Procs, NEW cap \in De(p, "servir"), WaitFor(p, cap)
  PROVE  Base'
<1>1. PICK i \in Eps, c \in Procs :
           /\ i = cap.i /\ eps[i].n > 0 /\ c = EnCola(eps[i])[1]
           /\ eps' = [eps EXCEPT ![i] = Desencolada(eps[i])]
           /\ eps' \in [Eps -> EndpointState]
           /\ eps'[i].n = eps[i].n - 1
           /\ \A k \in 1 .. eps'[i].n : EnCola(eps'[i])[k] = EnCola(eps[i])[k + 1]
           /\ \A j \in Eps : j # i => eps'[j] = eps[j]
           /\ \/ /\ Cabe(p)
                 /\ caps' = [caps EXCEPT ![p] = @ \cup {Responder(i, c, resp[c].gen)}]
                 /\ UNCHANGED <<resp, frame, tarea>>
              \/ /\ Complete({x \in {c} : Acepta(x, resp[c].gen)},
                             [x \in {c} |-> [code |-> "busy", de |-> resp[c].gen]])
                 /\ UNCHANGED caps
           /\ Publish(p) /\ UNCHANGED cierra
  BY WaitForHace
<1>2. anillo' \in [Procs -> 0 .. RingSize]
  BY <1>1, Constantes, SMTT(60) DEF Publish, Base, Tipos, TypeOK
<1>3. resp[c].gen \in Gens
  BY DEF Base, Tipos, TypeOK, Reply
<1>4. /\ Tipos'
      /\ \A q \in Procs : tarea'[q] = tarea[q] \/ tarea'[q].state = "Ready"
  <2>1. CASE /\ Cabe(p)
             /\ caps' = [caps EXCEPT ![p] = @ \cup {Responder(i, c, resp[c].gen)}]
             /\ UNCHANGED <<resp, frame, tarea>>
    <3>1. Responder(i, c, resp[c].gen) \in Cap
      BY <1>3 DEF Cap
    <3>2. /\ caps' \in [Procs -> SUBSET Cap]
          /\ \A q \in Procs : IsFiniteSet(caps'[q]) /\ Cardinality(caps'[q]) <= SlotsPerProc
      BY <2>1, <3>1, CabeUna DEF Base
    <3> QED
      BY <1>1, <1>2, <2>1, <3>2 DEF Base, Tipos, Finitas, TypeOK
  <2>2. CASE /\ Complete({x \in {c} : Acepta(x, resp[c].gen)},
                         [x \in {c} |-> [code |-> "busy", de |-> resp[c].gen]])
             /\ UNCHANGED caps
    <3> DEFINE cs == {x \in {c} : Acepta(x, resp[c].gen)}
               out == [x \in {c} |-> [code |-> "busy", de |-> resp[c].gen]]
    <3>1. cs \in SUBSET Procs /\ \A x \in cs : out[x] \in Outcome
      BY <1>3 DEF Outcome
    <3>2. Complete(cs, out)
      BY <2>2
    <3> HIDE DEF cs, out
    <3>3. resp' \in [Procs -> Reply] /\ frame' \in [Procs -> Outcome] /\ tarea' \in Tareas
      BY <3>1, <3>2, CompleteTipo DEF Base
    <3>4. \A q \in Procs : tarea'[q] = tarea[q] \/ tarea'[q].state = "Ready"
      BY <3>2, CompleteDuerme
    <3> QED
      BY <1>1, <1>2, <2>2, <3>3, <3>4 DEF Base, Tipos, Finitas, TypeOK, Tareas
  <2> QED
    BY <1>1, <2>1, <2>2
<1>5. EncolaLlamantes'
  <2>1. ASSUME NEW j \in Eps, NEW k \in 1 .. eps'[j].n
        PROVE  EnCola(eps'[j])[k] \in Procs
    <3>1. CASE j # i
      BY <1>1, <2>1, <3>1 DEF Base, EncolaLlamantes
    <3>2. CASE j = i
      <4>1. eps[i].n \in Nat
        BY Constantes DEF Base, Tipos, TypeOK, EndpointState
      <4>2. k + 1 \in 1 .. eps[i].n /\ k \in 1 .. eps'[i].n
        BY <1>1, <3>2, <4>1, SMTT(30)
      <4> QED
        BY <1>1, <3>2, <4>2, ZenonT(60) DEF Base, EncolaLlamantes
    <3> QED
      BY <3>1, <3>2
  <2> QED
    BY <2>1 DEF EncolaLlamantes
<1>6. NoCallSleptOn'
  <2>1. ASSUME NEW q \in Procs, tarea'[q].state = "Blocked", tarea'[q].wait_key \in Eps
        PROVE  eps'[tarea'[q].wait_key].n = 0
    <3>1. tarea'[q] = tarea[q]
      BY <1>4, <2>1
    <3>2. eps[tarea[q].wait_key].n = 0
      BY <2>1, <3>1 DEF Base, NoCallSleptOn
    <3>3. tarea[q].wait_key # i
      BY <1>1, <3>2, SMTT(60)
    <3> QED
      BY <1>1, <2>1, <3>1, <3>2, <3>3
  <2> QED
    BY <2>1 DEF NoCallSleptOn
<1> QED
  BY <1>4, <1>5, <1>6 DEF Base

(* process_died: what is left of each endpoint. *)
LEMMA MuereHace ==
  ASSUME Base, NEW p \in Procs, NEW q \in Procs, Muere(p, q)
  PROVE  /\ eps' \in [Eps -> EndpointState]
         /\ \A i \in Eps : IF i \in Atiende(p) THEN eps'[i].n = 0 ELSE eps'[i] = eps[i]
         /\ Drenados(p) \subseteq Procs
         /\ Complete({c \in Drenados(p) : Acepta(c, resp[c].gen)},
                     [c \in Procs |-> [code |-> "dead", de |-> resp[c].gen]])
         /\ cierra' = [cierra EXCEPT ![p] = q] /\ UNCHANGED <<caps, anillo>>
<1>1. ASSUME NEW i \in Eps
      PROVE  /\ eps'[i] \in EndpointState
             /\ IF i \in Atiende(p) THEN eps'[i].n = 0 ELSE eps'[i] = eps[i]
  <2>1. eps[i] \in EndpointState
    BY DEF Base, Tipos, TypeOK
  <2>2. CASE i \notin Atiende(p)
    BY <2>1, <2>2 DEF Muere, ProcessDied
  <2>3. CASE i \in Atiende(p)
    <3>1. eps'[i] = [eps[i] EXCEPT !.vivo = FALSE, !.n = 0,
                           !.cola = [k \in 0 .. Queue - 1 |-> NoProc],
                           !.cabeza = (eps[i].cabeza + eps[i].n) % Queue]
      BY <2>3 DEF Muere, ProcessDied
    <3>2. [k \in 0 .. Queue - 1 |-> NoProc] \in [0 .. Queue - 1 -> Call]
          /\ 0 \in 0 .. Queue
      BY Constantes DEF Call
    <3>3. (eps[i].cabeza + eps[i].n) % Queue \in 0 .. Queue - 1
      <4>1. eps[i].cabeza \in 0 .. Queue - 1 /\ eps[i].n \in 0 .. Queue
        BY <2>1 DEF EndpointState
      <4>2. eps[i].cabeza + eps[i].n \in 0 .. 2 * Queue - 1
        BY <4>1, Constantes
      <4> QED
        BY <4>2, Hueco
    <3> QED
      BY <2>1, <2>3, <3>1, <3>2, <3>3 DEF EndpointState
  <2> QED
    BY <2>2, <2>3
<1>2. DOMAIN eps' = Eps /\ eps' = [i \in Eps |-> eps'[i]]
  BY DEF Muere, ProcessDied
<1>3. eps' \in [Eps -> EndpointState]
  BY <1>1, <1>2
<1>4. /\ Complete({c \in Drenados(p) : Acepta(c, resp[c].gen)},
                  [c \in Procs |-> [code |-> "dead", de |-> resp[c].gen]])
      /\ cierra' = [cierra EXCEPT ![p] = q] /\ UNCHANGED <<caps, anillo>>
  BY DEF Muere, ProcessDied
<1> QED
  BY <1>1, <1>3, <1>4 DEF Drenados

LEMMA MuereBase ==
  ASSUME Base, NEW p \in Procs, NEW q \in Procs, Muere(p, q)
  PROVE  Base'
<1> DEFINE cs == {c \in Drenados(p) : Acepta(c, resp[c].gen)}
           out == [c \in Procs |-> [code |-> "dead", de |-> resp[c].gen]]
<1>1. /\ eps' \in [Eps -> EndpointState]
      /\ \A i \in Eps : IF i \in Atiende(p) THEN eps'[i].n = 0 ELSE eps'[i] = eps[i]
      /\ Drenados(p) \subseteq Procs
      /\ Complete(cs, out)
      /\ cierra' = [cierra EXCEPT ![p] = q] /\ UNCHANGED <<caps, anillo>>
  BY MuereHace
<1>2. \A c \in Procs : resp[c].gen \in Gens
  BY DEF Base, Tipos, TypeOK, Reply
<1>3. cs \in SUBSET Procs /\ \A c \in cs : out[c] \in Outcome
  BY <1>1, <1>2 DEF Outcome
<1> HIDE DEF cs, out
<1>4. resp' \in [Procs -> Reply] /\ frame' \in [Procs -> Outcome] /\ tarea' \in Tareas
  BY <1>1, <1>3, CompleteTipo DEF Base
<1>5. cierra' \in [Procs -> Procs \cup {NoProc}]
  BY <1>1 DEF Base, Tipos, TypeOK
<1>6. Tipos'
  BY <1>1, <1>4, <1>5 DEF Base, Tipos, Finitas, TypeOK, Tareas
<1>7. EncolaLlamantes'
  <2>1. ASSUME NEW i \in Eps, NEW k \in 1 .. eps'[i].n
        PROVE  EnCola(eps'[i])[k] \in Procs
    BY <1>1, <2>1 DEF Base, EncolaLlamantes
  <2> QED
    BY <2>1 DEF EncolaLlamantes
<1>8. NoCallSleptOn'
  <2>1. ASSUME NEW r \in Procs, tarea'[r].state = "Blocked", tarea'[r].wait_key \in Eps
        PROVE  eps'[tarea'[r].wait_key].n = 0
    <3>1. tarea'[r] = tarea[r]
      BY <1>1, <2>1, CompleteDuerme
    <3> QED
      BY <1>1, <2>1, <3>1 DEF Base, NoCallSleptOn
  <2> QED
    BY <2>1 DEF NoCallSleptOn
<1> QED
  BY <1>6, <1>7, <1>8 DEF Base

LEMMA NextBase == Base /\ [Next]_vars => Base'
<1> SUFFICES ASSUME Base, [Next]_vars PROVE Base'
  OBVIOUS
<1>1. ASSUME NEW p \in Procs, Client(p) PROVE Base'
  BY <1>1, GrantClientBase, CallOpBase DEF Client
<1>2. ASSUME NEW p \in Procs, Server(p) PROVE Base'
  BY <1>2, CreateBase, WaitForNothingBase, WaitForBase, ReplyToBase, TimeoutBase,
     PollBase DEF Server
<1>3. ASSUME NEW p \in Procs, Termina(p) PROVE Base'
  BY <1>3, TerminaBase
<1>4. ASSUME NEW p \in Procs, NEW q \in Procs, Muere(p, q) PROVE Base'
  BY <1>4, MuereBase
<1>5. CASE UNCHANGED vars
  BY <1>5 DEF vars, Base, Tipos, Finitas, TypeOK, EncolaLlamantes, NoCallSleptOn
<1> QED
  BY <1>1, <1>2, <1>3, <1>4, <1>5 DEF Next

(* What these lemmas say together. *)
THEOREM BaseHolds == Spec => []Base
<1> QED
  BY InitBase, NextBase, PTL DEF Spec

(* Tables, queues and rings never take more than fits in them, whatever    *)
(* their sizes.                                                            *)
THEOREM TypeCorrect == Spec => []TypeOK
<1>1. Base => TypeOK
  BY DEF Base, Tipos
<1> QED
  BY <1>1, BaseHolds, PTL

(* wait_for, call: no server sleeps while a call waits for it. *)
THEOREM NobodySleepsOverACall == Spec => []NoCallSleptOn
<1>1. Base => NoCallSleptOn
  BY DEF Base
<1> QED
  BY <1>1, BaseHolds, PTL

----------------------------------------------------------------------------
(* Where each call is, and what its caller sees. *)

(* Whoever is not asleep on a call has the answer to its last one. *)
Despachadas ==
  \A c \in Procs :
    (tarea[c].state = "Ready" \/ (tarea[c].state = "Blocked" /\ tarea[c].wait_key \in Eps))
      => frame[c].code # "provisional" /\ frame[c].de = resp[c].gen

(* A call that waits has its caller asleep on it, or dead. *)
EsperaDormida ==
  \A c \in Procs :
    Espera(c) => \/ tarea[c].state = "Exited"
                 \/ tarea[c].state = "Blocked" /\ tarea[c].wait_key = ReplyKey

(* A call that can be answered is not newer than its caller's last. *)
DeAntes ==
  \A p \in Procs : \A cap \in caps[p] :
    cap.kind = "responder" => cap.de <= resp[cap.caller_tid].gen

(* What is in a queue waits, and is in one place of one queue. *)
EnColaEspera ==
  \A i \in Eps : \A k \in 1 .. eps[i].n : Espera(EnCola(eps[i])[k])
UnaCola ==
  \A i, j \in Eps : \A k \in 1 .. eps[i].n, l \in 1 .. eps[j].n :
    EnCola(eps[i])[k] = EnCola(eps[j])[l] => i = j /\ k = l

(* What is in a server's hands waits, and is in no queue and in no other   *)
(* hands.                                                                  *)
Viva(cap) == cap.kind = "responder" /\ cap.de = resp[cap.caller_tid].gen
EnMano ==
  \A p \in Procs : \A cap \in caps[p] :
    Viva(cap) => /\ Espera(cap.caller_tid)
                 /\ \A i \in Eps : \A k \in 1 .. eps[i].n :
                      EnCola(eps[i])[k] # cap.caller_tid
UnaMano ==
  \A p, q \in Procs : \A a \in caps[p], b \in caps[q] :
    Viva(a) /\ Viva(b) /\ a.caller_tid = b.caller_tid => p = q /\ a = b

Llamadas == /\ Despachadas /\ EsperaDormida /\ DeAntes
            /\ EnColaEspera /\ UnaCola /\ EnMano /\ UnaMano

LEMMA InitLlamadas == Init => Llamadas
<1> SUFFICES ASSUME Init PROVE Llamadas
  OBVIOUS
<1>1. \A i \in Eps : eps[i].n = 0
  BY DEF Init, EmptyEndpoint
<1>2. \A p \in Procs : caps[p] = {}
  BY DEF Init
<1>3. \A c \in Procs : ~Espera(c) /\ frame[c].code = "ok" /\ frame[c].de = 0
                       /\ resp[c].gen = 0
  BY DEF Init, Espera
<1> QED
  BY <1>1, <1>2, <1>3 DEF Llamadas, Despachadas, EsperaDormida, DeAntes, EnColaEspera,
                          UnaCola, EnMano, UnaMano

(* complete ends the wait of those it completes, and of nobody else. *)
LEMMA CompleteEspera ==
  ASSUME Base, NEW cs \in SUBSET Procs, NEW out, Complete(cs, out)
  PROVE  \A c \in Procs : /\ resp'[c].gen = resp[c].gen
                          /\ Espera(c)' <=> Espera(c) /\ c \notin cs
<1> SUFFICES ASSUME NEW c \in Procs
             PROVE  /\ resp'[c].gen = resp[c].gen
                    /\ Espera(c)' <=> Espera(c) /\ c \notin cs
  OBVIOUS
<1>1. resp[c] \in Reply
  BY DEF Base, Tipos, TypeOK
<1>2. CASE c \in cs
  <2>1. resp'[c] = [resp[c] EXCEPT !.lista = TRUE, !.out = out[c]]
    BY <1>2 DEF Complete
  <2>2. resp'[c].lista /\ resp'[c].gen = resp[c].gen
    BY <1>1, <2>1 DEF Reply
  <2> QED
    BY <1>2, <2>2 DEF Espera
<1>3. CASE c \notin cs
  <2>1. resp'[c] = resp[c]
    BY <1>3 DEF Complete
  <2> QED
    BY <1>3, <2>1 DEF Espera
<1> QED
  BY <1>2, <1>3

(* And it leaves its answer in the frame of those it wakes. *)
LEMMA CompleteDespacha ==
  ASSUME Base, Despachadas, EsperaDormida, NEW cs \in SUBSET Procs, NEW out,
         \A c \in cs : out[c].code # "provisional" /\ out[c].de = resp[c].gen,
         Complete(cs, out)
  PROVE  Despachadas' /\ EsperaDormida'
<1>1. ASSUME NEW c \in Procs, c \in cs
      PROVE  /\ frame'[c] = IF tarea[c].state = "Blocked" THEN out[c] ELSE frame[c]
             /\ tarea'[c] = Despierta(tarea, ReplyKey)[c]
  BY <1>1 DEF Complete
<1>2. ASSUME NEW c \in Procs, c \notin cs
      PROVE  frame'[c] = frame[c] /\ tarea'[c] = tarea[c]
  BY <1>2 DEF Complete
<1>3. ASSUME NEW c \in Procs,
             tarea'[c].state = "Ready"
               \/ (tarea'[c].state = "Blocked" /\ tarea'[c].wait_key \in Eps)
      PROVE  frame'[c].code # "provisional" /\ frame'[c].de = resp'[c].gen
  <2>1. resp'[c].gen = resp[c].gen
    BY CompleteEspera
  <2>2. CASE c \notin cs
    BY <1>2, <1>3, <2>1, <2>2 DEF Despachadas
  <2>3. CASE c \in cs /\ tarea[c].state = "Blocked"
    BY <1>1, <2>1, <2>3
  <2>4. CASE c \in cs /\ tarea[c].state # "Blocked"
    <3>1. tarea'[c] = tarea[c] /\ frame'[c] = frame[c]
      BY <1>1, <2>4 DEF Despierta
    <3> QED
      BY <1>3, <2>1, <2>4, <3>1 DEF Despachadas
  <2> QED
    BY <2>2, <2>3, <2>4
<1>4. ASSUME NEW c \in Procs, Espera(c)'
      PROVE  \/ tarea'[c].state = "Exited"
             \/ tarea'[c].state = "Blocked" /\ tarea'[c].wait_key = ReplyKey
  <2>1. Espera(c) /\ c \notin cs
    BY <1>4, CompleteEspera
  <2> QED
    BY <1>2, <2>1 DEF EsperaDormida
<1> QED
  BY <1>3, <1>4 DEF Despachadas, EsperaDormida

(* Steps that leave calls where they are. *)
LEMMA QuietLlamadas ==
  ASSUME Llamadas, UNCHANGED resp,
         \A i \in Eps : eps'[i].n = 0 \/ eps'[i] = eps[i],
         \A p \in Procs : \A cap \in caps'[p] : cap \in caps[p] \/ cap.kind # "responder",
         Despachadas', EsperaDormida'
  PROVE  Llamadas'
<1>1. \A c : Espera(c)' <=> Espera(c)
  BY DEF Espera
<1>2. \A cap : Viva(cap)' <=> Viva(cap)
  BY DEF Viva
<1>3. \A i \in Eps : \A k \in 1 .. eps'[i].n :
        EnCola(eps'[i])[k] = EnCola(eps[i])[k] /\ k \in 1 .. eps[i].n
  OBVIOUS
<1>4. DeAntes'
  BY DEF Llamadas, DeAntes
<1>5. EnColaEspera'
  BY <1>1, <1>3 DEF Llamadas, EnColaEspera
<1>6. UnaCola'
  BY <1>3 DEF Llamadas, UnaCola
<1>7. EnMano'
  <2>1. ASSUME NEW p \in Procs, NEW cap \in caps'[p], Viva(cap)
        PROVE  /\ Espera(cap.caller_tid)
               /\ \A i \in Eps : \A k \in 1 .. eps'[i].n :
                    EnCola(eps'[i])[k] # cap.caller_tid
    <3>1. cap \in caps[p]
      BY <2>1 DEF Viva
    <3> QED
      BY <1>3, <2>1, <3>1 DEF Llamadas, EnMano
  <2> QED
    BY <1>1, <1>2, <2>1 DEF EnMano
<1>8. UnaMano'
  <2>1. \A p \in Procs : \A cap \in caps'[p] : Viva(cap) => cap \in caps[p]
    BY DEF Viva
  <2> QED
    BY <1>2, <2>1 DEF Llamadas, UnaMano
<1> QED
  BY <1>4, <1>5, <1>6, <1>7, <1>8 DEF Llamadas

LEMMA GrantClientLlamadas ==
  ASSUME Base, Llamadas, NEW p \in Procs, NEW i \in Eps, GrantClient(p, i)
  PROVE  Llamadas'
<1>1. UNCHANGED <<resp, eps, tarea, frame>>
  BY DEF GrantClient
<1>2. \A q \in Procs : \A cap \in caps'[q] : cap \in caps[q] \/ cap.kind # "responder"
  BY DEF GrantClient, Llamar, Base, Tipos, TypeOK
<1>3. Despachadas' /\ EsperaDormida'
  BY <1>1 DEF Llamadas, Despachadas, EsperaDormida, Espera
<1> QED
  BY <1>1, <1>2, <1>3, QuietLlamadas

LEMMA CreateLlamadas ==
  ASSUME Base, Llamadas, NEW p \in Procs, Create(p)
  PROVE  Llamadas'
<1>1. UNCHANGED <<resp, tarea, frame>>
  BY DEF Create
<1>2. PICK i \in Eps :
        /\ eps' = [eps EXCEPT ![i] = [EmptyEndpoint EXCEPT !.vivo = TRUE, !.servidor_pid = p]]
        /\ caps' = IF Cabe(p) THEN [caps EXCEPT ![p] = @ \cup {Servir(i)}] ELSE caps
  BY DEF Create
<1>3. \A q \in Procs : \A cap \in caps'[q] : cap \in caps[q] \/ cap.kind # "responder"
  <2>1. Servir(i).kind # "responder"
    BY DEF Servir
  <2> QED
    BY <1>2, <2>1 DEF Base, Tipos, TypeOK
<1>4. \A j \in Eps : eps'[j].n = 0 \/ eps'[j] = eps[j]
  <2>1. [EmptyEndpoint EXCEPT !.vivo = TRUE, !.servidor_pid = p].n = 0
    BY DEF EmptyEndpoint
  <2> QED
    BY <1>2, <2>1 DEF Base, Tipos, TypeOK
<1>5. Despachadas' /\ EsperaDormida'
  BY <1>1 DEF Llamadas, Despachadas, EsperaDormida, Espera
<1> QED
  BY <1>1, <1>3, <1>4, <1>5, QuietLlamadas

LEMMA WaitForNothingLlamadas ==
  ASSUME Base, Llamadas, NEW p \in Procs, NEW cap \in De(p, "servir"), WaitForNothing(p, cap)
  PROVE  Llamadas'
<1>1. UNCHANGED <<eps, resp, caps, frame>> /\ tarea[p].state = "Ready"
      /\ tarea' = [tarea EXCEPT ![p] = [state |-> "Blocked", wait_key |-> cap.i]]
  BY DEF WaitForNothing, Corre, Duerme
<1>2. Despachadas' /\ EsperaDormida'
  BY <1>1 DEF Base, Tipos, TypeOK, Llamadas, Despachadas, EsperaDormida, Espera
<1> QED
  BY <1>1, <1>2, QuietLlamadas

LEMMA TimeoutLlamadas ==
  ASSUME Base, Llamadas, NEW p \in Procs, Timeout(p)
  PROVE  Llamadas'
<1>1. UNCHANGED <<eps, resp, caps, frame>> /\ tarea[p].state = "Blocked"
      /\ tarea[p].wait_key \in Eps
      /\ tarea' = [tarea EXCEPT ![p] = [state |-> "Ready", wait_key |-> NoKey]]
  BY DEF Timeout
<1>2. tarea[p].wait_key # ReplyKey
  BY <1>1, Constantes
<1>3. Despachadas' /\ EsperaDormida'
  BY <1>1, <1>2 DEF Base, Tipos, TypeOK, Llamadas, Despachadas, EsperaDormida, Espera
<1> QED
  BY <1>1, <1>3, QuietLlamadas

LEMMA PollLlamadas ==
  ASSUME Base, Llamadas, NEW p \in Procs, Poll(p)
  PROVE  Llamadas'
<1>1. UNCHANGED <<eps, resp, caps, tarea, frame>>
  BY DEF Poll
<1>2. Despachadas' /\ EsperaDormida'
  BY <1>1 DEF Llamadas, Despachadas, EsperaDormida, Espera
<1> QED
  BY <1>1, <1>2, QuietLlamadas

LEMMA TerminaLlamadas ==
  ASSUME Base, Llamadas, NEW p \in Procs, Termina(p)
  PROVE  Llamadas'
<1>1. UNCHANGED <<eps, resp, frame>> /\ caps' = [caps EXCEPT ![p] = {}]
      /\ tarea' = [tarea EXCEPT ![p] = [state |-> "Exited", wait_key |-> NoKey]]
  BY DEF Termina
<1>2. \A q \in Procs : \A cap \in caps'[q] : cap \in caps[q]
  BY <1>1 DEF Base, Tipos, TypeOK
<1>3. Despachadas' /\ EsperaDormida'
  BY <1>1 DEF Base, Tipos, TypeOK, Llamadas, Despachadas, EsperaDormida, Espera
<1> QED
  BY <1>1, <1>2, <1>3, QuietLlamadas

(* call: a new generation, one more place in one queue. *)
LEMMA CallOpLlamadas ==
  ASSUME SinVuelta, Base, Llamadas, NEW p \in Procs, NEW cap \in De(p, "llamar"),
         CallOp(p, cap)
  PROVE  Llamadas'
<1> DEFINE i == cap.i
<1>1. /\ i \in Eps /\ eps[i].n < Queue
      /\ eps' = [eps EXCEPT ![i] = Encolada(eps[i], p)]
      /\ resp' = [resp EXCEPT ![p] = Preparada(resp[p])]
      /\ frame' = [frame EXCEPT ![p] = Provisional]
      /\ tarea' = Duerme(Despierta(tarea, i), p, ReplyKey)
      /\ UNCHANGED <<caps, anillo, cierra>>
  BY CallOpHace
<1>2. tarea[p].state = "Ready" /\ resp[p].gen < MaxCalls
  BY DEF CallOp, Corre
<1> HIDE DEF i
<1>3. ~Espera(p)
  BY <1>2 DEF Llamadas, EsperaDormida
<1>4. resp'[p].gen = resp[p].gen + 1 /\ Espera(p)' /\ resp[p].gen \in Nat
  <2>1. resp[p].gen \in Nat /\ MaxCalls \in Nat /\ GenWrap \in Nat
    BY Constantes, SizesAssumption DEF Base, Tipos, TypeOK, Reply, Gens
  <2>2. (resp[p].gen + 1) % GenWrap = resp[p].gen + 1
    BY <1>2, <2>1 DEF SinVuelta
  <2>3. resp'[p] = Preparada(resp[p])
    BY <1>1 DEF Base, Tipos, TypeOK
  <2> QED
    BY <2>1, <2>2, <2>3 DEF Preparada, Espera
<1>5. \A c \in Procs \ {p} : resp'[c] = resp[c] /\ (Espera(c)' <=> Espera(c))
  BY <1>1 DEF Base, Tipos, TypeOK, Espera
<1>6. /\ \A j \in Eps : j # i => eps'[j] = eps[j]
      /\ eps'[i].n = eps[i].n + 1 /\ eps[i].n \in Nat
      /\ EnCola(eps'[i])[eps[i].n + 1] = p
      /\ \A k \in 1 .. eps[i].n : EnCola(eps'[i])[k] = EnCola(eps[i])[k]
  <2>1. eps[i] \in EndpointState
    BY <1>1 DEF Base, Tipos, TypeOK
  <2>2. eps'[i] = Encolada(eps[i], p) /\ \A j \in Eps : j # i => eps'[j] = eps[j]
    BY <1>1 DEF Base, Tipos, TypeOK
  <2>3. eps[i].n \in Nat
    BY <2>1, Constantes DEF EndpointState
  <2> QED
    BY <1>1, <2>1, <2>2, <2>3, EncoladaTipo
<1>7. \A j \in Eps : \A k \in 1 .. eps[j].n :
        EnCola(eps[j])[k] \in Procs /\ EnCola(eps[j])[k] # p
  BY <1>3 DEF Llamadas, EnColaEspera, Base, EncolaLlamantes
<1>8. ASSUME NEW j \in Eps, NEW k \in 1 .. eps'[j].n
      PROVE  \/ k \in 1 .. eps[j].n /\ EnCola(eps'[j])[k] = EnCola(eps[j])[k]
                /\ EnCola(eps'[j])[k] \in Procs \ {p}
             \/ j = i /\ k = eps[i].n + 1 /\ EnCola(eps'[j])[k] = p
  <2>1. CASE j # i
    BY <1>6, <1>7, <1>8, <2>1
  <2>2. CASE j = i /\ k = eps[i].n + 1
    BY <1>6, <2>2
  <2>3. CASE j = i /\ k # eps[i].n + 1
    <3>1. k \in 1 .. eps[i].n
      BY <1>6, <1>8, <2>3
    <3> QED
      BY <1>6, <1>7, <2>3, <3>1
  <2> QED
    BY <2>1, <2>2, <2>3
<1>9. Despachadas'
  <2>1. ASSUME NEW c \in Procs,
               tarea'[c].state = "Ready"
                 \/ (tarea'[c].state = "Blocked" /\ tarea'[c].wait_key \in Eps)
        PROVE  frame'[c].code # "provisional" /\ frame'[c].de = resp'[c].gen
    <3>1. c # p
      BY <1>1, <2>1, Constantes DEF Duerme, Despierta
    <3>2. tarea'[c] = Despierta(tarea, i)[c] /\ frame'[c] = frame[c]
      BY <1>1, <3>1 DEF Duerme, Despierta, Base, Tipos, TypeOK
    <3>3. \/ tarea[c].state = "Ready"
          \/ tarea[c].state = "Blocked" /\ tarea[c].wait_key \in Eps
      BY <1>1, <2>1, <3>2 DEF Despierta
    <3> QED
      BY <1>5, <3>1, <3>2, <3>3 DEF Llamadas, Despachadas
  <2> QED
    BY <2>1 DEF Despachadas
<1>10. EsperaDormida'
  <2>1. ASSUME NEW c \in Procs, Espera(c)'
        PROVE  \/ tarea'[c].state = "Exited"
               \/ tarea'[c].state = "Blocked" /\ tarea'[c].wait_key = ReplyKey
    <3>1. CASE c = p
      BY <1>1, <3>1 DEF Duerme, Despierta
    <3>2. CASE c # p
      <4>1. \/ tarea[c].state = "Exited"
            \/ tarea[c].state = "Blocked" /\ tarea[c].wait_key = ReplyKey
        BY <1>5, <2>1, <3>2 DEF Llamadas, EsperaDormida
      <4>2. tarea'[c] = Despierta(tarea, i)[c]
        BY <1>1, <3>2 DEF Duerme, Despierta
      <4>3. Despierta(tarea, i)[c] = tarea[c]
        <5>1. ~(tarea[c].state = "Blocked" /\ tarea[c].wait_key = i)
          BY <1>1, <4>1, Constantes
        <5> QED
          BY <5>1 DEF Despierta
      <4> QED
        BY <4>1, <4>2, <4>3
    <3> QED
      BY <3>1, <3>2
  <2> QED
    BY <2>1 DEF EsperaDormida
<1>11. \A q \in Procs : \A b \in caps[q] : b \in Cap
  BY DEF Base, Tipos, TypeOK
<1>12. \A q \in Procs : \A b \in caps[q] :
         b.kind = "responder" => b.caller_tid \in Procs /\ b.de \in Nat
                                 /\ b.de <= resp[b.caller_tid].gen
  BY <1>11, CapKinds, Constantes DEF Llamadas, DeAntes, Gens
<1>13. DeAntes'
  <2>1. ASSUME NEW q \in Procs, NEW b \in caps'[q], b.kind = "responder"
        PROVE  b.de <= resp'[b.caller_tid].gen
    <3>1. b \in caps[q]
      BY <1>1, <2>1
    <3>2. CASE b.caller_tid = p
      BY <1>4, <1>12, <2>1, <3>1, <3>2
    <3>3. CASE b.caller_tid # p
      BY <1>5, <1>12, <2>1, <3>1, <3>3
    <3> QED
      BY <3>2, <3>3
  <2> QED
    BY <2>1 DEF DeAntes
<1>14. ASSUME NEW q \in Procs, NEW b \in caps'[q], Viva(b)'
       PROVE  b \in caps[q] /\ Viva(b) /\ b.caller_tid \in Procs \ {p}
  <2>1. b \in caps[q] /\ b.kind = "responder" /\ b.de = resp'[b.caller_tid].gen
    BY <1>1, <1>14 DEF Viva
  <2>2. b.caller_tid # p
    BY <1>4, <1>12, <2>1
  <2> QED
    BY <1>5, <1>12, <2>1, <2>2 DEF Viva
<1>15. EnColaEspera'
  BY <1>4, <1>5, <1>8 DEF Llamadas, EnColaEspera
<1>16. UnaCola'
  <2>1. ASSUME NEW j \in Eps, NEW m \in Eps, NEW k \in 1 .. eps'[j].n,
               NEW l \in 1 .. eps'[m].n, EnCola(eps'[j])[k] = EnCola(eps'[m])[l]
        PROVE  j = m /\ k = l
    <3>1. CASE EnCola(eps'[j])[k] = p
      BY <1>8, <2>1, <3>1
    <3>2. CASE EnCola(eps'[j])[k] # p
      <4>1. k \in 1 .. eps[j].n /\ EnCola(eps'[j])[k] = EnCola(eps[j])[k]
        BY <1>8, <3>2
      <4>2. l \in 1 .. eps[m].n /\ EnCola(eps'[m])[l] = EnCola(eps[m])[l]
        BY <1>8, <2>1, <3>2
      <4>3. EnCola(eps[j])[k] = EnCola(eps[m])[l]
        BY <2>1, <4>1, <4>2
      <4>4. UnaCola
        BY DEF Llamadas
      <4>5. \A x \in 1 .. eps[j].n, y \in 1 .. eps[m].n :
              EnCola(eps[j])[x] = EnCola(eps[m])[y] => j = m /\ x = y
        BY <4>4 DEF UnaCola
      <4> QED
        BY <4>1, <4>2, <4>3, <4>5
    <3> QED
      BY <3>1, <3>2
  <2> QED
    BY <2>1 DEF UnaCola
<1>17. EnMano'
  <2>1. ASSUME NEW q \in Procs, NEW b \in caps'[q], Viva(b)'
        PROVE  /\ Espera(b.caller_tid)'
               /\ \A j \in Eps : \A k \in 1 .. eps'[j].n :
                    EnCola(eps'[j])[k] # b.caller_tid
    <3>1. b \in caps[q] /\ Viva(b) /\ b.caller_tid \in Procs \ {p}
      BY <1>14, <2>1
    <3>2. Espera(b.caller_tid)
          /\ \A j \in Eps : \A k \in 1 .. eps[j].n : EnCola(eps[j])[k] # b.caller_tid
      BY <3>1 DEF Llamadas, EnMano
    <3> QED
      BY <1>5, <1>8, <3>1, <3>2
  <2> QED
    BY <2>1 DEF EnMano
<1>18. UnaMano'
  BY <1>14 DEF Llamadas, UnaMano
<1> QED
  BY <1>9, <1>10, <1>13, <1>15, <1>16, <1>17, <1>18 DEF Llamadas

(* What is left in the queues was there, in another place perhaps, and is  *)
(* none of cs.                                                             *)
Quedan(cs) ==
  \E f : \A i \in Eps : \A k \in 1 .. eps'[i].n :
    /\ f[i][k] \in 1 .. eps[i].n
    /\ EnCola(eps'[i])[k] = EnCola(eps[i])[f[i][k]]
    /\ EnCola(eps'[i])[k] \notin cs
    /\ \A l \in 1 .. eps'[i].n : f[i][k] = f[i][l] => k = l

(* When an answer ends the wait of cs, and queues and hands only lose      *)
(* calls, each call is still in one place.                                 *)
LEMMA AcabanLlamadas ==
  ASSUME Base, Llamadas, NEW cs \in SUBSET Procs, Quedan(cs),
         \A c \in Procs : resp'[c].gen = resp[c].gen /\ (Espera(c)' <=> Espera(c) /\ c \notin cs),
         Despachadas', EsperaDormida',
         \A p \in Procs : \A cap \in caps'[p] : cap \in caps[p],
         \A p \in Procs : \A cap \in caps'[p] : Viva(cap) => cap.caller_tid \notin cs
  PROVE  Llamadas'
<1> PICK f :
      \A i \in Eps : \A k \in 1 .. eps'[i].n :
        /\ f[i][k] \in 1 .. eps[i].n
        /\ EnCola(eps'[i])[k] = EnCola(eps[i])[f[i][k]]
        /\ EnCola(eps'[i])[k] \notin cs
        /\ \A l \in 1 .. eps'[i].n : f[i][k] = f[i][l] => k = l
  BY DEF Quedan
<1>1. \A p \in Procs : \A cap \in caps[p] : cap.kind = "responder" => cap.caller_tid \in Procs
  BY CapKinds DEF Base, Tipos, TypeOK
<1>2. \A p \in Procs : \A cap \in caps'[p] : Viva(cap)' <=> Viva(cap)
  BY <1>1 DEF Viva
<1>3. DeAntes'
  BY <1>1 DEF Llamadas, DeAntes
<1>4. EnColaEspera'
  <2>1. ASSUME NEW i \in Eps, NEW k \in 1 .. eps'[i].n
        PROVE  Espera(EnCola(eps[i])[k])'
    <3>1. /\ f[i][k] \in 1 .. eps[i].n
          /\ EnCola(eps'[i])[k] = EnCola(eps[i])[f[i][k]]
          /\ EnCola(eps'[i])[k] \notin cs
      BY <2>1
    <3>2. EnCola(eps[i])[f[i][k]] \in Procs /\ Espera(EnCola(eps[i])[f[i][k]])
      BY <3>1 DEF Base, EncolaLlamantes, Llamadas, EnColaEspera
    <3> QED
      BY <3>1, <3>2
  <2> QED
    BY <2>1 DEF EnColaEspera
<1>5. UnaCola'
  <2>1. ASSUME NEW i \in Eps, NEW j \in Eps, NEW k \in 1 .. eps'[i].n,
               NEW l \in 1 .. eps'[j].n, EnCola(eps'[i])[k] = EnCola(eps'[j])[l]
        PROVE  i = j /\ k = l
    <3>1. f[i][k] \in 1 .. eps[i].n /\ EnCola(eps'[i])[k] = EnCola(eps[i])[f[i][k]]
      BY <2>1
    <3>2. f[j][l] \in 1 .. eps[j].n /\ EnCola(eps'[j])[l] = EnCola(eps[j])[f[j][l]]
      BY <2>1
    <3>3. \A x \in 1 .. eps[i].n, y \in 1 .. eps[j].n :
            EnCola(eps[i])[x] = EnCola(eps[j])[y] => i = j /\ x = y
      BY DEF Llamadas, UnaCola
    <3>4. EnCola(eps[i])[f[i][k]] = EnCola(eps[j])[f[j][l]]
      BY <2>1, <3>1, <3>2
    <3>5. i = j /\ f[i][k] = f[j][l]
      BY <3>1, <3>2, <3>3, <3>4
    <3> QED
      BY <2>1, <3>5
  <2> QED
    BY <2>1 DEF UnaCola
<1>6. EnMano'
  <2>1. ASSUME NEW p \in Procs, NEW cap \in caps'[p], Viva(cap)'
        PROVE  /\ Espera(cap.caller_tid)'
               /\ \A i \in Eps : \A k \in 1 .. eps'[i].n :
                    EnCola(eps'[i])[k] # cap.caller_tid
    <3>1. cap \in caps[p] /\ Viva(cap) /\ cap.caller_tid \in Procs \ cs
      BY <1>1, <1>2, <2>1 DEF Viva
    <3>2. Espera(cap.caller_tid)
          /\ \A i \in Eps : \A k \in 1 .. eps[i].n : EnCola(eps[i])[k] # cap.caller_tid
      BY <3>1 DEF Llamadas, EnMano
    <3>3. ASSUME NEW i \in Eps, NEW k \in 1 .. eps'[i].n
          PROVE  EnCola(eps'[i])[k] # cap.caller_tid
      <4>1. f[i][k] \in 1 .. eps[i].n /\ EnCola(eps'[i])[k] = EnCola(eps[i])[f[i][k]]
        BY <3>3
      <4> QED
        BY <3>2, <4>1
    <3> QED
      BY <3>1, <3>2, <3>3
  <2> QED
    BY <2>1 DEF EnMano
<1>7. UnaMano'
  BY <1>2 DEF Llamadas, UnaMano
<1> QED
  BY <1>3, <1>4, <1>5, <1>6, <1>7 DEF Llamadas

(* The answer to a call is to its caller's last one only when the object   *)
(* of the capability, which keeps less of the generation, tells so.        *)
LEMMA AceptaEsViva ==
  ASSUME Base, Llamadas, NEW p \in Procs, NEW cap \in De(p, "responder"),
         Acepta(cap.caller_tid, cap.gen)
  PROVE  Viva(cap)
<1>1. cap \in caps[p] /\ cap \in Cap /\ cap.kind = "responder"
  BY DEF De, Base, Tipos, TypeOK
<1>2. cap.caller_tid \in Procs /\ cap.de \in Nat /\ cap.gen = cap.de % GenReply
  BY <1>1, CapKinds, Constantes DEF Gens
<1>3. resp[cap.caller_tid].gen = cap.gen /\ cap.de <= resp[cap.caller_tid].gen
      /\ resp[cap.caller_tid].gen \in Nat
  BY <1>1, <1>2, Constantes DEF Acepta, Llamadas, DeAntes, Base, Tipos, TypeOK, Reply, Gens
<1>4. cap.de % GenReply <= cap.de
  BY <1>2, Constantes
<1>5. cap.de = resp[cap.caller_tid].gen
  BY <1>2, <1>3, <1>4
<1> QED
  BY <1>1, <1>5 DEF Viva

(* reply_to: the call leaves the server's hands. *)
LEMMA ReplyToLlamadas ==
  ASSUME Base, Llamadas, NEW p \in Procs, NEW cap \in De(p, "responder"), ReplyTo(p, cap)
  PROVE  Llamadas'
<1> DEFINE d == cap.caller_tid
           cs == {c \in {d} : Acepta(c, cap.gen)}
           out == [c \in {d} |-> [code |-> "ok", de |-> cap.de]]
           f == [i \in Eps |-> [k \in Nat |-> k]]
<1>1. d \in Procs /\ cap \in caps[p]
  BY CapKinds DEF De, Base, Tipos, TypeOK
<1>2. Complete(cs, out) /\ UNCHANGED eps /\ caps' = [caps EXCEPT ![p] = @ \ {cap}]
  BY DEF ReplyTo, Gastada
<1>3. cs \in SUBSET Procs
  BY <1>1
<1>4. d \in cs => Viva(cap)
  BY AceptaEsViva
<1>5. \A c \in cs : out[c].code # "provisional" /\ out[c].de = resp[c].gen
  BY <1>4 DEF Viva
<1>6. \A c \in cs : c = d
  OBVIOUS
<1> HIDE DEF cs, out, d
<1>7. Despachadas' /\ EsperaDormida'
  BY <1>2, <1>3, <1>5, CompleteDespacha DEF Llamadas
<1>8. \A c \in Procs : resp'[c].gen = resp[c].gen /\ (Espera(c)' <=> Espera(c) /\ c \notin cs)
  BY <1>2, <1>3, CompleteEspera
<1>9. ASSUME NEW i \in Eps, NEW k \in 1 .. eps'[i].n
      PROVE  /\ f[i][k] \in 1 .. eps[i].n
             /\ EnCola(eps'[i])[k] = EnCola(eps[i])[f[i][k]]
             /\ EnCola(eps'[i])[k] \notin cs
             /\ \A l \in 1 .. eps'[i].n : f[i][k] = f[i][l] => k = l
  <2>1. eps'[i] = eps[i] /\ eps[i].n \in Nat
    BY <1>2, Constantes DEF Base, Tipos, TypeOK, EndpointState
  <2>2. \A l \in 1 .. eps'[i].n : f[i][l] = l
    BY <2>1
  <2>3. EnCola(eps[i])[k] \notin cs
    <3>1. d \in cs => EnCola(eps[i])[k] # d
      BY <1>1, <1>4, <1>9, <2>1 DEF Llamadas, EnMano, d
    <3> QED
      BY <1>6, <3>1
  <2> QED
    BY <2>1, <2>2, <2>3
<1>10. \A q \in Procs : \A b \in caps'[q] : b \in caps[q]
  BY <1>2 DEF Base, Tipos, TypeOK
<1>11. ASSUME NEW q \in Procs, NEW b \in caps'[q], Viva(b)
       PROVE  b.caller_tid \notin cs
  <2>1. SUFFICES ASSUME b.caller_tid \in cs PROVE FALSE
    OBVIOUS
  <2>2. b.caller_tid = d /\ Viva(cap) /\ b \in caps[q]
    BY <1>4, <1>6, <1>10, <1>11, <2>1
  <2>3. q = p /\ b = cap
    BY <1>1, <1>11, <2>2 DEF Llamadas, UnaMano, d
  <2> QED
    BY <1>2, <1>11, <2>3 DEF Base, Tipos, TypeOK
<1> HIDE DEF f
<1>12. Quedan(cs)
  <2>1. \A i \in Eps : \A k \in 1 .. eps'[i].n :
          /\ f[i][k] \in 1 .. eps[i].n
          /\ EnCola(eps'[i])[k] = EnCola(eps[i])[f[i][k]]
          /\ EnCola(eps'[i])[k] \notin cs
          /\ \A l \in 1 .. eps'[i].n : f[i][k] = f[i][l] => k = l
    BY <1>9
  <2> QED
    BY <2>1 DEF Quedan
<1> QED
  BY <1>3, <1>7, <1>8, <1>10, <1>11, <1>12, AcabanLlamadas

(* process_died: the calls leave the queues of the dead. *)
LEMMA MuereLlamadas ==
  ASSUME Base, Llamadas, NEW p \in Procs, NEW q \in Procs, Muere(p, q)
  PROVE  Llamadas'
<1> DEFINE cs == {c \in Drenados(p) : Acepta(c, resp[c].gen)}
           out == [c \in Procs |-> [code |-> "dead", de |-> resp[c].gen]]
           f == [i \in Eps |-> [k \in Nat |-> k]]
<1>1. /\ eps' \in [Eps -> EndpointState]
      /\ \A i \in Eps : IF i \in Atiende(p) THEN eps'[i].n = 0 ELSE eps'[i] = eps[i]
      /\ Drenados(p) \subseteq Procs
      /\ Complete(cs, out)
      /\ cierra' = [cierra EXCEPT ![p] = q] /\ UNCHANGED <<caps, anillo>>
  BY MuereHace
<1>2. cs \in SUBSET Procs /\ cs \subseteq Drenados(p)
  BY <1>1
<1>3. \A c \in cs : out[c].code # "provisional" /\ out[c].de = resp[c].gen
  BY <1>1
<1> HIDE DEF cs, out
<1>4. Despachadas' /\ EsperaDormida'
  BY <1>1, <1>2, <1>3, CompleteDespacha DEF Llamadas
<1>5. \A c \in Procs : resp'[c].gen = resp[c].gen /\ (Espera(c)' <=> Espera(c) /\ c \notin cs)
  BY <1>1, <1>2, CompleteEspera
<1>6. ASSUME NEW c \in cs
      PROVE  \E j \in Atiende(p) : \E l \in 1 .. eps[j].n : EnCola(eps[j])[l] = c
  <2>1. PICK j \in Atiende(p), l \in 1 .. Queue : l <= eps[j].n /\ EnCola(eps[j])[l] = c
    BY <1>2 DEF Drenados
  <2>2. l \in 1 .. eps[j].n
    BY <2>1, Constantes DEF Atiende, Base, Tipos, TypeOK, EndpointState
  <2> QED
    BY <2>1, <2>2
<1>7. ASSUME NEW i \in Eps, NEW k \in 1 .. eps'[i].n
      PROVE  /\ f[i][k] \in 1 .. eps[i].n
             /\ EnCola(eps'[i])[k] = EnCola(eps[i])[f[i][k]]
             /\ EnCola(eps'[i])[k] \notin cs
             /\ \A l \in 1 .. eps'[i].n : f[i][k] = f[i][l] => k = l
  <2>1. eps'[i] = eps[i] /\ eps[i].n \in Nat /\ i \notin Atiende(p)
    BY <1>1, <1>7, Constantes DEF Base, Tipos, TypeOK, EndpointState
  <2>2. \A l \in 1 .. eps'[i].n : f[i][l] = l
    BY <2>1
  <2>3. EnCola(eps[i])[k] \notin cs
    <3>1. SUFFICES ASSUME EnCola(eps[i])[k] \in cs PROVE FALSE
      OBVIOUS
    <3>2. PICK j \in Atiende(p) : \E l \in 1 .. eps[j].n : EnCola(eps[j])[l] = EnCola(eps[i])[k]
      BY <1>6, <3>1
    <3>3. j \in Eps
      BY DEF Atiende
    <3>6. PICK l \in 1 .. eps[j].n : EnCola(eps[j])[l] = EnCola(eps[i])[k]
      BY <3>2
    <3>4. \A x \in 1 .. eps[j].n, y \in 1 .. eps[i].n :
            EnCola(eps[j])[x] = EnCola(eps[i])[y] => j = i /\ x = y
      BY <3>3 DEF Llamadas, UnaCola
    <3>5. j = i
      BY <1>7, <2>1, <3>6, <3>4
    <3> QED
      BY <2>1, <3>5
  <2> QED
    BY <2>1, <2>2, <2>3
<1>8. \A r \in Procs : \A b \in caps'[r] : b \in caps[r]
  BY <1>1
<1>9. ASSUME NEW r \in Procs, NEW b \in caps'[r], Viva(b)
      PROVE  b.caller_tid \notin cs
  <2>1. \A i \in Eps : \A k \in 1 .. eps[i].n : EnCola(eps[i])[k] # b.caller_tid
    BY <1>8, <1>9 DEF Llamadas, EnMano
  <2> QED
    BY <1>6, <2>1 DEF Atiende
<1> HIDE DEF f
<1>10. Quedan(cs)
  <2>1. \A i \in Eps : \A k \in 1 .. eps'[i].n :
          /\ f[i][k] \in 1 .. eps[i].n
          /\ EnCola(eps'[i])[k] = EnCola(eps[i])[f[i][k]]
          /\ EnCola(eps'[i])[k] \notin cs
          /\ \A l \in 1 .. eps'[i].n : f[i][k] = f[i][l] => k = l
    BY <1>7
  <2> QED
    BY ONLY <2>1, SMTT(60) DEF Quedan
<1> QED
  BY <1>2, <1>4, <1>5, <1>8, <1>9, <1>10, AcabanLlamadas

(* The first call of an endpoint, c, leaves its queue. *)
Sale(i, c) ==
  /\ eps[i].n > 0 /\ c = EnCola(eps[i])[1]
  /\ eps'[i].n = eps[i].n - 1
  /\ \A k \in 1 .. eps'[i].n : EnCola(eps'[i])[k] = EnCola(eps[i])[k + 1]
  /\ \A j \in Eps : j # i => eps'[j] = eps[j]

(* wait_for with room: the call goes from the queue to the server's hands. *)
LEMMA CogeLlamadas ==
  ASSUME Base, Llamadas, NEW p \in Procs, NEW i \in Eps, NEW c \in Procs,
         Sale(i, c),
         caps' = [caps EXCEPT ![p] = @ \cup {Responder(i, c, resp[c].gen)}],
         UNCHANGED <<resp, frame, tarea>>
  PROVE  Llamadas'
<1> USE DEF Sale
<1> DEFINE nueva == Responder(i, c, resp[c].gen)
<1>1. /\ nueva.kind = "responder" /\ nueva.caller_tid = c /\ nueva.de = resp[c].gen
      /\ resp[c].gen \in Nat
  BY Constantes DEF Responder, Base, Tipos, TypeOK, Reply, Gens
<1>2. \A q \in Procs : caps'[q] = IF q = p THEN caps[q] \cup {nueva} ELSE caps[q]
  BY DEF Base, Tipos, TypeOK
<1> HIDE DEF nueva
<1>3. \A x : (Espera(x)' <=> Espera(x)) /\ (Viva(x)' <=> Viva(x))
  BY DEF Espera, Viva
<1>4. eps[i].n \in Nat /\ 1 \in 1 .. eps[i].n
  <2>1. eps[i].n \in Nat
    BY Constantes DEF Base, Tipos, TypeOK, EndpointState
  <2> QED
    BY <2>1
<1>5. \A j \in Eps : \A x \in 1 .. eps[j].n : EnCola(eps[j])[x] = c => j = i /\ x = 1
  BY <1>4 DEF Llamadas, UnaCola
<1>6. ASSUME NEW j \in Eps, NEW k \in 1 .. eps'[j].n
      PROVE  \E x \in 1 .. eps[j].n : /\ EnCola(eps'[j])[k] = EnCola(eps[j])[x]
                                      /\ x = (IF j = i THEN k + 1 ELSE k)
  <2>1. CASE j = i
    <3>1. k + 1 \in 1 .. eps[i].n /\ k \in 1 .. eps'[i].n
      BY <1>4, <1>6, <2>1
    <3> QED
      BY <2>1, <3>1
  <2>2. CASE j # i
    BY <1>6, <2>2
  <2> QED
    BY <2>1, <2>2
<1>7. \A j \in Eps : \A k \in 1 .. eps'[j].n : EnCola(eps'[j])[k] # c
  <2>1. ASSUME NEW j \in Eps, NEW k \in 1 .. eps'[j].n, EnCola(eps'[j])[k] = c
        PROVE  FALSE
    <3>1. PICK x \in 1 .. eps[j].n : /\ EnCola(eps'[j])[k] = EnCola(eps[j])[x]
                                     /\ x = (IF j = i THEN k + 1 ELSE k)
      BY <1>6, <2>1
    <3>2. j = i /\ x = 1
      BY <1>5, <2>1, <3>1
    <3>3. k + 1 = 1 /\ k \in 1 .. eps'[j].n
      BY <2>1, <3>1, <3>2
    <3> QED
      BY <3>3
  <2> QED
    BY <2>1
<1>8. Espera(c)
  BY <1>4 DEF Llamadas, EnColaEspera
<1>9. Despachadas' /\ EsperaDormida'
  <2>1. EsperaDormida'
    BY <1>3 DEF Llamadas, EsperaDormida
  <2> QED
    BY <2>1 DEF Llamadas, Despachadas
<1>10. DeAntes'
  <2>1. ASSUME NEW q \in Procs, NEW b \in caps'[q], b.kind = "responder"
        PROVE  b.de <= resp[b.caller_tid].gen
    <3>1. b \in (IF q = p THEN caps[q] \cup {nueva} ELSE caps[q])
      BY <1>2, <2>1
    <3>2. CASE b \in caps[q]
      BY <2>1, <3>2 DEF Llamadas, DeAntes
    <3>3. CASE b = nueva
      BY <1>1, <3>3
    <3>4. b \in caps[q] \/ b = nueva
      BY <3>1
    <3> QED
      BY <3>2, <3>3, <3>4
  <2> QED
    BY <2>1 DEF DeAntes
<1>11. EnColaEspera'
  BY <1>3, <1>6 DEF Llamadas, EnColaEspera
<1>12. UnaCola'
  <2>1. ASSUME NEW j \in Eps, NEW m \in Eps, NEW k \in 1 .. eps'[j].n,
               NEW l \in 1 .. eps'[m].n, EnCola(eps'[j])[k] = EnCola(eps'[m])[l]
        PROVE  j = m /\ k = l
    <3>1. PICK x \in 1 .. eps[j].n : /\ EnCola(eps'[j])[k] = EnCola(eps[j])[x]
                                     /\ x = (IF j = i THEN k + 1 ELSE k)
      BY <1>6, <2>1
    <3>2. PICK y \in 1 .. eps[m].n : /\ EnCola(eps'[m])[l] = EnCola(eps[m])[y]
                                     /\ y = (IF m = i THEN l + 1 ELSE l)
      BY <1>6, <2>1
    <3>3. \A u \in 1 .. eps[j].n, v \in 1 .. eps[m].n :
            EnCola(eps[j])[u] = EnCola(eps[m])[v] => j = m /\ u = v
      BY DEF Llamadas, UnaCola
    <3>4. j = m /\ x = y
      BY <2>1, <3>1, <3>2, <3>3
    <3> QED
      BY <2>1, <3>1, <3>2, <3>4
  <2> QED
    BY <2>1 DEF UnaCola
<1>13. ASSUME NEW q \in Procs, NEW b \in caps'[q], Viva(b)
       PROVE  \/ b \in caps[q] /\ b.caller_tid # c
              \/ q = p /\ b = nueva /\ b.caller_tid = c
  <2>1. CASE b \in caps[q]
    <3>1. \A j \in Eps : \A k \in 1 .. eps[j].n : EnCola(eps[j])[k] # b.caller_tid
      BY <1>13, <2>1 DEF Llamadas, EnMano
    <3> QED
      BY <1>4, <2>1, <3>1
  <2>2. CASE b \notin caps[q]
    <3>1. q = p /\ b \in caps[q] \cup {nueva}
      BY <1>2, <1>13, <2>2
    <3> QED
      BY <1>1, <2>2, <3>1
  <2> QED
    BY <2>1, <2>2
<1>14. EnMano'
  <2>1. ASSUME NEW q \in Procs, NEW b \in caps'[q], Viva(b)
        PROVE  /\ Espera(b.caller_tid)
               /\ \A j \in Eps : \A k \in 1 .. eps'[j].n :
                    EnCola(eps'[j])[k] # b.caller_tid
    <3>1. CASE b \in caps[q] /\ b.caller_tid # c
      <4>1. Espera(b.caller_tid)
            /\ \A j \in Eps : \A k \in 1 .. eps[j].n : EnCola(eps[j])[k] # b.caller_tid
        BY <2>1, <3>1 DEF Llamadas, EnMano
      <4> QED
        BY <1>6, <4>1
    <3>2. CASE b.caller_tid = c
      BY <1>7, <1>8, <3>2
    <3> QED
      BY <1>13, <2>1, <3>1, <3>2
  <2> QED
    BY <1>3, <2>1 DEF EnMano
<1>15. UnaMano'
  <2>1. ASSUME NEW q \in Procs, NEW r \in Procs, NEW a \in caps'[q], NEW b \in caps'[r],
               Viva(a), Viva(b), a.caller_tid = b.caller_tid
        PROVE  q = r /\ a = b
    <3>1. CASE a.caller_tid = c
      BY <1>13, <2>1, <3>1
    <3>2. CASE a.caller_tid # c
      <4>1. a \in caps[q] /\ b \in caps[r]
        BY <1>13, <2>1, <3>2
      <4> QED
        BY <2>1, <4>1 DEF Llamadas, UnaMano
    <3> QED
      BY <3>1, <3>2
  <2> QED
    BY <1>3, <2>1 DEF UnaMano
<1> QED
  BY <1>9, <1>10, <1>11, <1>12, <1>14, <1>15 DEF Llamadas

(* wait_for with no room: the call leaves with its refusal. *)
LEMMA RechazaLlamadas ==
  ASSUME Base, Llamadas, NEW i \in Eps, NEW c \in Procs,
         Sale(i, c),
         Complete({x \in {c} : Acepta(x, resp[c].gen)},
                  [x \in {c} |-> [code |-> "busy", de |-> resp[c].gen]]),
         UNCHANGED caps
  PROVE  Llamadas'
<1> USE DEF Sale
<1> DEFINE cs == {x \in {c} : Acepta(x, resp[c].gen)}
           out == [x \in {c} |-> [code |-> "busy", de |-> resp[c].gen]]
           f == [j \in Eps |-> [k \in Nat |-> IF j = i THEN k + 1 ELSE k]]
<1>1. cs \in SUBSET Procs /\ Complete(cs, out)
      /\ \A x \in cs : x = c /\ out[x].code # "provisional" /\ out[x].de = resp[x].gen
  OBVIOUS
<1> HIDE DEF cs, out
<1>2. Despachadas' /\ EsperaDormida'
  BY <1>1, CompleteDespacha DEF Llamadas
<1>3. \A x \in Procs : resp'[x].gen = resp[x].gen /\ (Espera(x)' <=> Espera(x) /\ x \notin cs)
  BY <1>1, CompleteEspera
<1>4. eps[i].n \in Nat /\ 1 \in 1 .. eps[i].n
  <2>1. eps[i].n \in Nat
    BY Constantes DEF Base, Tipos, TypeOK, EndpointState
  <2> QED
    BY <2>1
<1>5. \A j \in Eps : \A x \in 1 .. eps[j].n : EnCola(eps[j])[x] = c => j = i /\ x = 1
  BY <1>4 DEF Llamadas, UnaCola
<1>6. ASSUME NEW j \in Eps, NEW k \in 1 .. eps'[j].n
      PROVE  /\ f[j][k] \in 1 .. eps[j].n
             /\ EnCola(eps'[j])[k] = EnCola(eps[j])[f[j][k]]
             /\ EnCola(eps'[j])[k] \notin cs
             /\ \A l \in 1 .. eps'[j].n : f[j][k] = f[j][l] => k = l
  <2>1. CASE j = i
    <3>1. \A l \in 1 .. eps'[j].n : f[j][l] = l + 1 /\ l + 1 \in 1 .. eps[i].n /\ l + 1 # 1
      BY <1>4, <2>1
    <3>2. EnCola(eps'[j])[k] = EnCola(eps[i])[k + 1] /\ EnCola(eps[i])[k + 1] # c
      BY <1>5, <1>6, <2>1, <3>1
    <3>3. \A l \in 1 .. eps'[j].n : k + 1 = l + 1 => k = l
      OBVIOUS
    <3> QED
      BY <1>1, <2>1, <3>1, <3>2, <3>3
  <2>2. CASE j # i
    <3>1. \A l \in 1 .. eps'[j].n : f[j][l] = l
      BY <2>2
    <3>2. eps'[j] = eps[j] /\ EnCola(eps[j])[k] # c
      BY <1>5, <1>6, <2>2
    <3> QED
      BY <1>1, <3>1, <3>2, ZenonT(60)
  <2> QED
    BY <2>1, <2>2
<1> HIDE DEF f
<1>7. Quedan(cs)
  <2>1. \A j \in Eps : \A k \in 1 .. eps'[j].n :
          /\ f[j][k] \in 1 .. eps[j].n
          /\ EnCola(eps'[j])[k] = EnCola(eps[j])[f[j][k]]
          /\ EnCola(eps'[j])[k] \notin cs
          /\ \A l \in 1 .. eps'[j].n : f[j][k] = f[j][l] => k = l
    BY <1>6
  <2> QED
    BY ONLY <2>1, SMTT(60) DEF Quedan
<1>8. ASSUME NEW r \in Procs, NEW b \in caps'[r], Viva(b)
      PROVE  b.caller_tid \notin cs
  <2>1. \A k \in 1 .. eps[i].n : EnCola(eps[i])[k] # b.caller_tid
    BY <1>8 DEF Llamadas, EnMano
  <2> QED
    BY <1>1, <1>4, <2>1
<1>9. \A r \in Procs : \A b \in caps'[r] : b \in caps[r]
  OBVIOUS
<1> QED
  BY <1>1, <1>2, <1>3, <1>7, <1>8, <1>9, AcabanLlamadas

(* wait_for with a call keeps the calls in place. *)
LEMMA WaitForLlamadas ==
  ASSUME Base, Llamadas, NEW p \in Procs, NEW cap \in De(p, "servir"), WaitFor(p, cap)
  PROVE  Llamadas'
<1>1. PICK i \in Eps, c \in Procs :
           /\ i = cap.i /\ eps[i].n > 0 /\ c = EnCola(eps[i])[1]
           /\ eps' = [eps EXCEPT ![i] = Desencolada(eps[i])]
           /\ eps' \in [Eps -> EndpointState]
           /\ eps'[i].n = eps[i].n - 1
           /\ \A k \in 1 .. eps'[i].n : EnCola(eps'[i])[k] = EnCola(eps[i])[k + 1]
           /\ \A j \in Eps : j # i => eps'[j] = eps[j]
           /\ \/ /\ Cabe(p)
                 /\ caps' = [caps EXCEPT ![p] = @ \cup {Responder(i, c, resp[c].gen)}]
                 /\ UNCHANGED <<resp, frame, tarea>>
              \/ /\ Complete({x \in {c} : Acepta(x, resp[c].gen)},
                             [x \in {c} |-> [code |-> "busy", de |-> resp[c].gen]])
                 /\ UNCHANGED caps
           /\ Publish(p) /\ UNCHANGED cierra
  BY WaitForHace
<1>4. Sale(i, c)
  BY <1>1 DEF Sale
<1>2. CASE /\ caps' = [caps EXCEPT ![p] = @ \cup {Responder(i, c, resp[c].gen)}]
           /\ UNCHANGED <<resp, frame, tarea>>
  BY <1>2, <1>4, CogeLlamadas
<1>3. CASE /\ Complete({x \in {c} : Acepta(x, resp[c].gen)},
                       [x \in {c} |-> [code |-> "busy", de |-> resp[c].gen]])
           /\ UNCHANGED caps
  BY <1>3, <1>4, RechazaLlamadas
<1> QED
  BY <1>1, <1>2, <1>3

----------------------------------------------------------------------------
(* What the calls promise. *)

LEMMA NextLlamadas == SinVuelta /\ Base /\ Llamadas /\ [Next]_vars => Llamadas'
<1> SUFFICES ASSUME SinVuelta, Base, Llamadas, [Next]_vars PROVE Llamadas'
  OBVIOUS
<1>1. ASSUME NEW p \in Procs, Client(p) PROVE Llamadas'
  BY <1>1, GrantClientLlamadas, CallOpLlamadas DEF Client
<1>2. ASSUME NEW p \in Procs, Server(p) PROVE Llamadas'
  BY <1>2, CreateLlamadas, WaitForNothingLlamadas, WaitForLlamadas, ReplyToLlamadas,
     TimeoutLlamadas, PollLlamadas DEF Server
<1>3. ASSUME NEW p \in Procs, Termina(p) PROVE Llamadas'
  BY <1>3, TerminaLlamadas
<1>4. ASSUME NEW p \in Procs, NEW q \in Procs, Muere(p, q) PROVE Llamadas'
  BY <1>4, MuereLlamadas
<1>5. CASE UNCHANGED vars
  <2>1. UNCHANGED <<eps, resp, caps, tarea, frame>>
    BY <1>5 DEF vars
  <2>2. Despachadas' /\ EsperaDormida'
    BY <2>1 DEF Llamadas, Despachadas, EsperaDormida, Espera
  <2>3. \A i \in Eps : eps'[i].n = 0 \/ eps'[i] = eps[i]
    BY <2>1
  <2>4. \A q \in Procs : \A cap \in caps'[q] : cap \in caps[q] \/ cap.kind # "responder"
    BY <2>1
  <2> QED
    BY <2>1, <2>2, <2>3, <2>4, QuietLlamadas
<1> QED
  BY <1>1, <1>2, <1>3, <1>4, <1>5 DEF Next

(* Each call is where it should be, as long as no generation comes back.   *)
THEOREM LlamadasHold ==
  ASSUME SinVuelta PROVE Spec => [](Base /\ Llamadas)
<1>1. Init => Base /\ Llamadas
  BY InitBase, InitLlamadas
<1>2. Base /\ Llamadas /\ [Next]_vars => (Base /\ Llamadas)'
  BY NextBase, NextLlamadas
<1> QED
  BY <1>1, <1>2, PTL DEF Spec

(* call, complete, write_into_frame: whoever is back from a call has the   *)
(* answer to that call, however many processes call one another and die,   *)
(* while the generations of a process have not gone round.                 *)
THEOREM AnswersAreToTheCall ==
  ASSUME SinVuelta PROVE Spec => []AnswerIsToThisCall
<1>1. Base /\ Llamadas => AnswerIsToThisCall
  BY DEF Llamadas, Despachadas, AnswerIsToThisCall
<1> QED
  BY <1>1, LlamadasHold, PTL

(* The queues and the hands where a call is, in the terms of the lemmas.   *)
LEMMA ColasDe ==
  ASSUME Base, NEW c \in Procs
  PROVE  Colas(c) = {i \in Eps : \E k \in 1 .. eps[i].n : EnCola(eps[i])[k] = c}
<1>1. ASSUME NEW i \in Eps
      PROVE  \A k : k \in 1 .. eps[i].n <=> k \in 1 .. Queue /\ k <= eps[i].n
  <2>1. eps[i].n \in 0 .. Queue /\ Queue \in Nat
    BY Constantes DEF Base, Tipos, TypeOK, EndpointState
  <2> QED
    BY <2>1
<1> QED
  BY <1>1 DEF Colas

LEMMA ManosDe ==
  ASSUME NEW c \in Procs
  PROVE  /\ Manos(c) \subseteq Procs
         /\ \A p \in Manos(c) : \E cap \in caps[p] : Viva(cap) /\ cap.caller_tid = c
  BY DEF Manos, De, Viva

(* A set whose elements are all the same one has at most one.              *)
LEMMA ALoSumoUno ==
  ASSUME NEW S, \A x, y \in S : x = y
  PROVE  Cardinality(S) \in {0, 1}
<1>1. CASE S = {}
  BY <1>1, FS_EmptySet
<1>2. CASE S # {}
  <2>1. PICK x \in S : TRUE
    BY <1>2
  <2>2. S = {x}
    BY <2>1
  <2>3. Cardinality({x}) = 1
    BY FS_Singleton
  <2> QED
    BY <2>2, <2>3
<1> QED
  BY <1>1, <1>2

(* call, wait_for, reply_to, process_died: nobody can answer a call twice, *)
(* while the generations of a process have not gone round.                 *)
THEOREM NobodyAnswersTwice ==
  ASSUME SinVuelta PROVE Spec => []OneAnswer
<1>1. ASSUME Base, Llamadas, NEW c \in Procs
      PROVE  /\ Cardinality(Colas(c)) + Cardinality(Manos(c)) <= 1
             /\ ~Espera(c) => Colas(c) = {} /\ Manos(c) = {}
  <2>1. Colas(c) = {i \in Eps : \E k \in 1 .. eps[i].n : EnCola(eps[i])[k] = c}
    BY <1>1, ColasDe
  <2>2. /\ Manos(c) \subseteq Procs
        /\ \A p \in Manos(c) : \E cap \in caps[p] : Viva(cap) /\ cap.caller_tid = c
    BY ManosDe
  <2>3. \A i, j \in Colas(c) : i = j
    BY <1>1, <2>1 DEF Llamadas, UnaCola
  <2>4. \A p, q \in Manos(c) : p = q
    BY <1>1, <2>2 DEF Llamadas, UnaMano
  <2>5. Manos(c) # {} => Colas(c) = {}
    BY <1>1, <2>1, <2>2 DEF Llamadas, EnMano
  <2>6. ~Espera(c) => Colas(c) = {} /\ Manos(c) = {}
    BY <1>1, <2>1, <2>2 DEF Llamadas, EnColaEspera, EnMano
  <2>7. Cardinality(Colas(c)) \in {0, 1} /\ Cardinality(Manos(c)) \in {0, 1}
    BY <2>3, <2>4, ALoSumoUno
  <2>8. Cardinality({}) = 0
    BY FS_EmptySet
  <2>9. Cardinality(Colas(c)) = 0 \/ Cardinality(Manos(c)) = 0
    BY <2>5, <2>8
  <2> HIDE DEF Colas, Manos
  <2>10. Cardinality(Colas(c)) + Cardinality(Manos(c)) <= 1
    BY <2>7, <2>9
  <2> QED
    BY <2>6, <2>10
<1>2. Base /\ Llamadas => OneAnswer
  BY <1>1 DEF OneAnswer
<1> QED
  BY <1>2, LlamadasHold, PTL

=============================================================================
