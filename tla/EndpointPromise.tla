--------------------------- MODULE EndpointPromise ---------------------------
(***************************************************************************)
(* Endpoint implements Rpc: every step of the code is one step of the      *)
(* promise or none, while no process made more calls than the object of a  *)
(* reply tells apart.                                                      *)
(***************************************************************************)
EXTENDS EndpointProofs, SequenceTheorems

SinRepetir == MaxCalls < GenReply

(* What else the promise needs: nothing waits in an endpoint that is not   *)
(* alive, and the generations in use are those of the calls made.          *)
Cerradas == \A i \in Eps : ~eps[i].vivo => eps[i].n = 0
Contadas == \A c \in Procs : resp[c].gen <= MaxCalls
Entera == Base /\ Llamadas /\ Cerradas /\ Contadas

(* The promise's variables. *)
ColaDe == [i \in Eps |-> EnCola(eps[i])]
FaseDe == [c \in Procs |->
             CASE ~Espera(c) -> "libre"
               [] Espera(c) /\ Colas(c) # {} -> "pedida"
               [] Espera(c) /\ Colas(c) = {} /\ Manos(c) # {} -> "cogida"
               [] OTHER -> "huerfana"]
QuienDe == [c \in Procs |-> IF Espera(c) /\ Manos(c) # {}
                            THEN CHOOSE p \in Procs : p \in Manos(c) ELSE c]
Promete == <<ColaDe, FaseDe, QuienDe>>

(* The same, call by call. *)
Fase(c) == CASE ~Espera(c) -> "libre"
             [] Espera(c) /\ Colas(c) # {} -> "pedida"
             [] Espera(c) /\ Colas(c) = {} /\ Manos(c) # {} -> "cogida"
             [] OTHER -> "huerfana"
Quien(c) == IF Espera(c) /\ Manos(c) # {}
            THEN CHOOSE p \in Procs : p \in Manos(c) ELSE c

LEMMA Funciones ==
  /\ FaseDe = [c \in Procs |-> Fase(c)] /\ QuienDe = [c \in Procs |-> Quien(c)]
  /\ FaseDe' = [c \in Procs |-> Fase(c)'] /\ QuienDe' = [c \in Procs |-> Quien(c)']
  BY DEF FaseDe, Fase, QuienDe, Quien

LEMMA SinVueltaNinguna == SinRepetir => SinVuelta
  BY SizesAssumption DEF SinRepetir, SinVuelta

----------------------------------------------------------------------------
(* Where a call is. *)

LEMMA EnCualCola ==
  ASSUME Base, NEW c \in Procs, NEW i \in Eps
  PROVE  i \in Colas(c) <=> \E k \in 1 .. eps[i].n : EnCola(eps[i])[k] = c
  BY ColasDe

LEMMA EnCualMano ==
  ASSUME NEW c \in Procs, NEW p \in Procs
  PROVE  p \in Manos(c) <=> \E cap \in caps[p] : Viva(cap) /\ cap.caller_tid = c
  BY DEF Manos, De, Viva

(* What the invariant says of a call, in those terms. *)
Sitio(c) ==
  /\ Colas(c) # {} => Espera(c) /\ Manos(c) = {}
  /\ Manos(c) # {} => Espera(c)
  /\ \A p, q \in Manos(c) : p = q
  /\ Manos(c) \subseteq Procs

LEMMA EnUnSitio ==
  Base /\ Llamadas => \A c \in Procs : Sitio(c)
<1> SUFFICES ASSUME Base, Llamadas, NEW c \in Procs PROVE Sitio(c)
  OBVIOUS
<1>1. Colas(c) = {i \in Eps : \E k \in 1 .. eps[i].n : EnCola(eps[i])[k] = c}
  BY ColasDe
<1>2. /\ Manos(c) \subseteq Procs
      /\ \A p \in Manos(c) : \E cap \in caps[p] : Viva(cap) /\ cap.caller_tid = c
  BY ManosDe
<1>3. Colas(c) # {} => Espera(c)
  BY <1>1 DEF Llamadas, EnColaEspera
<1>4. Manos(c) # {} => Espera(c) /\ Colas(c) = {}
  BY <1>1, <1>2 DEF Llamadas, EnMano
<1>5. \A p, q \in Manos(c) : p = q
  BY <1>2 DEF Llamadas, UnaMano
<1> QED
  BY <1>2, <1>3, <1>4, <1>5 DEF Sitio

(* And so its phase and who has it. *)
LEMMA FaseYQuien ==
  ASSUME NEW c \in Procs, Sitio(c)
  PROVE  /\ ~Espera(c) => Fase(c) = "libre" /\ Quien(c) = c
         /\ Colas(c) # {} => Fase(c) = "pedida" /\ Quien(c) = c
         /\ \A p \in Manos(c) : Fase(c) = "cogida" /\ Quien(c) = p
         /\ (Espera(c) /\ Colas(c) = {} /\ Manos(c) = {}) =>
              Fase(c) = "huerfana" /\ Quien(c) = c
<1>1. ASSUME NEW p \in Manos(c) PROVE Fase(c) = "cogida" /\ Quien(c) = p
  <2>1. Espera(c) /\ Colas(c) = {} /\ Manos(c) # {} /\ Manos(c) = {p}
    BY <1>1 DEF Sitio
  <2>2. p \in Procs
    BY DEF Sitio
  <2>3. (CHOOSE q \in Procs : q \in Manos(c)) = p
    BY <2>1, <2>2
  <2> QED
    BY <2>1, <2>3 DEF Fase, Quien
<1> QED
  BY <1>1 DEF Sitio, Fase, Quien

LEMMA FaseYQuienPrima ==
  ASSUME NEW c \in Procs, Sitio(c)'
  PROVE  /\ ~Espera(c)' => Fase(c)' = "libre" /\ Quien(c)' = c
         /\ Colas(c)' # {} => Fase(c)' = "pedida" /\ Quien(c)' = c
         /\ \A p \in Manos(c)' : Fase(c)' = "cogida" /\ Quien(c)' = p
         /\ (Espera(c)' /\ Colas(c)' = {} /\ Manos(c)' = {}) =>
              Fase(c)' = "huerfana" /\ Quien(c)' = c
<1>1. ASSUME NEW p \in Manos(c)' PROVE Fase(c)' = "cogida" /\ Quien(c)' = p
  <2>1. Espera(c)' /\ Colas(c)' = {} /\ Manos(c)' # {} /\ Manos(c)' = {p}
    BY <1>1 DEF Sitio
  <2>2. p \in Procs
    BY DEF Sitio
  <2>3. (CHOOSE q \in Procs : q \in Manos(c)') = p
    BY <2>1, <2>2
  <2> QED
    BY <2>1, <2>3 DEF Fase, Quien
<1> QED
  BY <1>1 DEF Sitio, Fase, Quien

(* A call that nothing happens to stays in its phase. *)
LEMMA Quieta ==
  ASSUME NEW c, Espera(c)' <=> Espera(c), Colas(c)' = Colas(c), Manos(c)' = Manos(c)
  PROVE  Fase(c)' = Fase(c) /\ Quien(c)' = Quien(c)
  BY DEF Fase, Quien

LEMMA ManosQuietas ==
  ASSUME NEW c \in Procs, resp'[c].gen = resp[c].gen,
         \A p \in Procs : De(p, "responder")' = De(p, "responder")
  PROVE  Manos(c)' = Manos(c)
  BY DEF Manos

LEMMA ColasQuietas ==
  ASSUME NEW c \in Procs,
         \A i \in Eps : eps'[i].n = eps[i].n /\ EnCola(eps'[i]) = EnCola(eps[i])
  PROVE  Colas(c)' = Colas(c)
  BY DEF Colas

LEMMA EnUnSitioPrima ==
  (Base /\ Llamadas)' => (\A c \in Procs : Sitio(c))'
  BY EnUnSitio, PTL

----------------------------------------------------------------------------
(* A queue is a sequence of calls; Encolada and Desencolada are Append and *)
(* Tail of it.                                                             *)
LEMMA EnColaSeq ==
  ASSUME NEW e \in EndpointState
  PROVE  /\ EnCola(e) \in Seq(Call) /\ Len(EnCola(e)) = e.n /\ e.n \in Nat
         /\ e.n = 0 => EnCola(e) = <<>>
<1>1. /\ e.cola \in [0 .. Queue - 1 -> Call] /\ e.cabeza \in 0 .. Queue - 1
      /\ e.n \in 0 .. Queue /\ Queue \in Nat /\ Queue > 0
  BY Constantes DEF EndpointState
<1>2. ASSUME NEW k \in 1 .. e.n PROVE e.cola[(e.cabeza + k - 1) % Queue] \in Call
  <2>1. e.cabeza + k - 1 \in 0 .. 2 * Queue - 1
    BY <1>1
  <2>2. (e.cabeza + k - 1) % Queue \in 0 .. Queue - 1
    BY <2>1, Hueco
  <2> QED
    BY <1>1, <2>2
<1>3. e.n \in Nat
  BY <1>1
<1>4. EnCola(e) \in [1 .. e.n -> Call]
  BY <1>2 DEF EnCola
<1>5. EnCola(e) \in Seq(Call) /\ Len(EnCola(e)) = e.n
  BY <1>3, <1>4
<1>6. e.n = 0 => EnCola(e) = <<>>
  BY <1>5
<1> QED
  BY <1>3, <1>5, <1>6

LEMMA EncoladaAppend ==
  ASSUME NEW e \in EndpointState, NEW c \in Procs, e.n < Queue
  PROVE  EnCola(Encolada(e, c)) = Append(EnCola(e), c)
<1> DEFINE f == Encolada(e, c)
           s == EnCola(e)
<1>1. f \in EndpointState /\ f.n = e.n + 1 /\ EnCola(f)[e.n + 1] = c
      /\ \A k \in 1 .. e.n : EnCola(f)[k] = s[k]
  BY EncoladaTipo
<1>2. s \in Seq(Call) /\ Len(s) = e.n /\ e.n \in Nat
  BY EnColaSeq
<1>3. EnCola(f) \in Seq(Call) /\ Len(EnCola(f)) = e.n + 1
  BY <1>1, EnColaSeq
<1>4. c \in Call
  BY DEF Call
<1> HIDE DEF f, s
<1>5. /\ Append(s, c) \in Seq(Call) /\ Len(Append(s, c)) = e.n + 1
      /\ \A k \in 1 .. e.n : Append(s, c)[k] = s[k]
      /\ Append(s, c)[e.n + 1] = c
  BY <1>2, <1>4, AppendProperties
<1>6. \A k \in 1 .. e.n + 1 : EnCola(f)[k] = Append(s, c)[k]
  BY <1>1, <1>2, <1>5
<1>7. EnCola(f) = Append(s, c)
  BY <1>2, <1>3, <1>5, <1>6, SeqEqual
<1> QED
  BY <1>7 DEF f, s

LEMMA DesencoladaTail ==
  ASSUME NEW e \in EndpointState, e.n > 0
  PROVE  /\ EnCola(e) # <<>> /\ Head(EnCola(e)) = EnCola(e)[1]
         /\ EnCola(Desencolada(e)) = Tail(EnCola(e))
<1> DEFINE f == Desencolada(e)
           s == EnCola(e)
<1>1. f \in EndpointState /\ f.n = e.n - 1
      /\ \A k \in 1 .. e.n - 1 : EnCola(f)[k] = s[k + 1]
  BY DesencoladaTipo
<1>2. s \in Seq(Call) /\ Len(s) = e.n /\ e.n \in Nat
  BY EnColaSeq
<1>3. EnCola(f) \in Seq(Call) /\ Len(EnCola(f)) = e.n - 1
  BY <1>1, EnColaSeq
<1> HIDE DEF f, s
<1>4. s # <<>>
  BY <1>2
<1>5. Head(s) = s[1]
  BY <1>2, <1>4
<1>6. /\ Tail(s) \in Seq(Call) /\ Len(Tail(s)) = e.n - 1
      /\ \A k \in 1 .. e.n - 1 : Tail(s)[k] = s[k + 1]
  BY <1>2, <1>4, HeadTailProperties
<1>7. EnCola(f) = Tail(s)
  BY <1>1, <1>3, <1>6, SeqEqual
<1> QED
  BY <1>4, <1>5, <1>7 DEF f, s

----------------------------------------------------------------------------
(* A step in which no call moves is no step of the promise. *)
LEMMA NadaSeMueve ==
  ASSUME \A i \in Eps : eps'[i].n = eps[i].n /\ EnCola(eps'[i]) = EnCola(eps[i]),
         \A c \in Procs : Espera(c)' <=> Espera(c),
         \A c \in Procs : Manos(c)' = Manos(c)
  PROVE  UNCHANGED Promete
<1>1. \A c \in Procs : Colas(c)' = Colas(c)
  BY ColasQuietas
<1>2. \A c \in Procs : Fase(c)' = Fase(c) /\ Quien(c)' = Quien(c)
  BY <1>1, Quieta
<1>3. FaseDe' = FaseDe
  BY <1>2, Funciones
<1>4. QuienDe' = QuienDe
  BY <1>2, Funciones
<1>5. ColaDe' = ColaDe
  BY DEF ColaDe
<1> QED
  BY <1>3, <1>4, <1>5 DEF Promete

(* call. *)
LEMMA CallOpPide ==
  ASSUME SinVuelta, Entera, \A c \in Procs : Sitio(c), \A c \in Procs : Sitio(c)',
         NEW p \in Procs, NEW cap \in De(p, "llamar"), CallOp(p, cap)
  PROVE  cap.i \in Eps /\ Promesa!Pide(p, cap.i)
<1> DEFINE i == cap.i
<1>1. /\ i \in Eps /\ eps[i].n < Queue
      /\ eps' = [eps EXCEPT ![i] = Encolada(eps[i], p)]
      /\ resp' = [resp EXCEPT ![p] = Preparada(resp[p])]
      /\ UNCHANGED caps
  BY CallOpHace DEF Entera
<1> HIDE DEF i
<1>2. eps[i] \in EndpointState /\ eps'[i] = Encolada(eps[i], p)
      /\ \A j \in Eps \ {i} : eps'[j] = eps[j]
  BY <1>1 DEF Entera, Base, Tipos, TypeOK
<1>3. EnCola(eps'[i]) = Append(EnCola(eps[i]), p) /\ eps'[i].n = eps[i].n + 1
  BY <1>1, <1>2, EncoladaAppend, EncoladaTipo
<1>4. ColaDe' = [ColaDe EXCEPT ![i] = Append(ColaDe[i], p)]
  <2>1. \A j \in Eps : EnCola(eps'[j]) = IF j = i THEN Append(EnCola(eps[i]), p)
                                            ELSE EnCola(eps[j])
    BY <1>2, <1>3
  <2>2. ColaDe[i] = EnCola(eps[i])
    BY <1>1 DEF ColaDe
  <2>3. ColaDe' = [j \in Eps |-> IF j = i THEN Append(EnCola(eps[i]), p)
                                 ELSE EnCola(eps[j])]
    BY <2>1 DEF ColaDe
  <2> HIDE DEF EnCola
  <2> QED
    BY <2>2, <2>3 DEF ColaDe
<1>5. tarea[p].state = "Ready"
  BY DEF CallOp, Corre
<1>6. ~Espera(p)
  BY <1>5 DEF Entera, Llamadas, EsperaDormida
<1>7. Fase(p) = "libre" /\ Quien(p) = p
  BY <1>6, FaseYQuien
<1>8. i \in Colas(p)'
  <2>1. eps[i].n \in 0 .. Queue /\ Queue \in Nat
    BY <1>2, Constantes DEF EndpointState
  <2>2. EnCola(eps'[i])[eps[i].n + 1] = p
    BY <1>1, <1>2, EncoladaTipo
  <2>3. eps[i].n + 1 \in 1 .. Queue /\ eps[i].n + 1 <= eps'[i].n
    BY <1>1, <1>3, <2>1
  <2> QED
    BY <1>1, <2>2, <2>3 DEF Colas
<1>9. Fase(p)' = "pedida" /\ Quien(p)' = p
  BY <1>8, FaseYQuienPrima
<1>10. ASSUME NEW c \in Procs \ {p} PROVE Fase(c)' = Fase(c) /\ Quien(c)' = Quien(c)
  <2>1. resp'[c] = resp[c]
    BY <1>1 DEF Entera, Base, Tipos, TypeOK
  <2>2. Manos(c)' = Manos(c)
    BY <1>1, <2>1, ManosQuietas DEF De
  <2>3. Espera(c)' <=> Espera(c)
    BY <2>1 DEF Espera
  <2>4. ASSUME NEW j \in Eps PROVE j \in Colas(c)' <=> j \in Colas(c)
    <3>1. CASE j # i
      BY <1>2, <3>1 DEF Colas
    <3>2. CASE j = i
      <4>1. eps[i].n \in 0 .. Queue /\ Queue \in Nat
        BY <1>2, Constantes DEF EndpointState
      <4>2. EnCola(eps'[i])[eps[i].n + 1] = p
            /\ \A k \in 1 .. eps[i].n : EnCola(eps'[i])[k] = EnCola(eps[i])[k]
        BY <1>1, <1>2, EncoladaTipo
      <4>3. (\E k \in 1 .. Queue : k <= eps'[i].n /\ EnCola(eps'[i])[k] = c)
              <=> \E k \in 1 .. Queue : k <= eps[i].n /\ EnCola(eps[i])[k] = c
        <5>1. ASSUME NEW k \in 1 .. Queue, k <= eps'[i].n, EnCola(eps'[i])[k] = c
              PROVE  k <= eps[i].n /\ EnCola(eps[i])[k] = c
          <6>1. k # eps[i].n + 1
            BY <4>2, <5>1
          <6>2. k \in 1 .. eps[i].n
            BY <1>3, <4>1, <5>1, <6>1
          <6> QED
            BY <4>1, <4>2, <5>1, <6>2
        <5>2. ASSUME NEW k \in 1 .. Queue, k <= eps[i].n, EnCola(eps[i])[k] = c
              PROVE  k <= eps'[i].n /\ EnCola(eps'[i])[k] = c
          <6>1. k \in 1 .. eps[i].n /\ k <= eps'[i].n
            BY <1>3, <4>1, <5>2
          <6> QED
            BY <4>2, <5>2, <6>1
        <5> QED
          BY <5>1, <5>2
      <4> QED
        BY <3>2, <4>3 DEF Colas
    <3> QED
      BY <3>1, <3>2
  <2>5. Colas(c)' = Colas(c)
    BY <2>4 DEF Colas
  <2> QED
    BY <2>2, <2>3, <2>5, Quieta
<1>11. FaseDe[p] = "libre" /\ FaseDe' = [FaseDe EXCEPT ![p] = "pedida"]
  BY <1>7, <1>9, <1>10, Funciones
<1>12. QuienDe' = QuienDe
  <2>1. \A c \in Procs : Quien(c)' = Quien(c)
    BY <1>7, <1>9, <1>10
  <2> QED
    BY <2>1, Funciones
<1>13. Promesa!Pide(p, i)
  BY <1>4, <1>11, <1>12 DEF Promesa!Pide, ColaDe, FaseDe, QuienDe
<1> QED
  BY <1>1, <1>13 DEF i

(* The first call of i, c, leaves its queue: nobody else's place changes.  *)
LEMMA SaleLaPrimera ==
  ASSUME Base, NEW i \in Eps, NEW c \in Procs, eps[i].n > 0, c = EnCola(eps[i])[1],
         eps' = [eps EXCEPT ![i] = Desencolada(eps[i])], Base'
  PROVE  /\ ColaDe[i] # <<>> /\ Head(ColaDe[i]) = c
         /\ ColaDe' = [ColaDe EXCEPT ![i] = Tail(ColaDe[i])]
         /\ i \in Colas(c)
         /\ \A d \in Procs \ {c} : Colas(d)' = Colas(d)
<1>1. eps[i] \in EndpointState /\ eps'[i] = Desencolada(eps[i])
      /\ \A j \in Eps \ {i} : eps'[j] = eps[j]
  BY DEF Base, Tipos, TypeOK
<1>2. /\ EnCola(eps[i]) # <<>> /\ Head(EnCola(eps[i])) = c
      /\ EnCola(eps'[i]) = Tail(EnCola(eps[i]))
  BY <1>1, DesencoladaTail
<1>3. eps'[i].n = eps[i].n - 1
      /\ \A k \in 1 .. eps[i].n - 1 : EnCola(eps'[i])[k] = EnCola(eps[i])[k + 1]
  BY <1>1, DesencoladaTipo
<1>4. eps[i].n \in 1 .. Queue /\ Queue \in Nat
  BY <1>1, Constantes DEF EndpointState
<1>5. ColaDe[i] = EnCola(eps[i])
  BY DEF ColaDe
<1>6. ColaDe' = [ColaDe EXCEPT ![i] = Tail(ColaDe[i])]
  <2>1. \A j \in Eps : EnCola(eps'[j]) = IF j = i THEN Tail(EnCola(eps[i]))
                                            ELSE EnCola(eps[j])
    <3>1. ASSUME NEW j \in Eps, j = i PROVE EnCola(eps'[j]) = Tail(EnCola(eps[i]))
      BY <1>2, <3>1, Zenon
    <3>2. ASSUME NEW j \in Eps, j # i PROVE EnCola(eps'[j]) = EnCola(eps[j])
      BY <1>1, <3>2, Zenon
    <3> QED
      BY <3>1, <3>2, Zenon
  <2>2. ColaDe' = [j \in Eps |-> IF j = i THEN Tail(EnCola(eps[i])) ELSE EnCola(eps[j])]
    BY <2>1 DEF ColaDe
  <2> QED
    BY <1>5, <2>2 DEF ColaDe
<1>7. i \in Colas(c)
  BY <1>4 DEF Colas
<1>8. ASSUME NEW d \in Procs \ {c} PROVE Colas(d)' = Colas(d)
  <2>1. ASSUME NEW k \in 1 .. Queue, k <= eps'[i].n, EnCola(eps'[i])[k] = d
        PROVE  k + 1 \in 1 .. Queue /\ k + 1 <= eps[i].n /\ EnCola(eps[i])[k + 1] = d
    <3>1. k \in 1 .. eps[i].n - 1
      BY <1>3, <1>4, <2>1
    <3> QED
      BY <1>3, <1>4, <2>1, <3>1
  <2>2. ASSUME NEW k \in 1 .. Queue, k <= eps[i].n, EnCola(eps[i])[k] = d
        PROVE  k - 1 \in 1 .. Queue /\ k - 1 <= eps'[i].n /\ EnCola(eps'[i])[k - 1] = d
    <3>1. k # 1
      BY <2>2
    <3>2. k - 1 \in 1 .. eps[i].n - 1 /\ (k - 1) + 1 = k
      BY <1>4, <2>2, <3>1
    <3> QED
      BY <1>3, <1>4, <2>2, <3>2
  <2>3. i \in Colas(d)' <=> i \in Colas(d)
    BY <2>1, <2>2 DEF Colas
  <2>4. \A j \in Eps \ {i} : j \in Colas(d)' <=> j \in Colas(d)
    BY <1>1 DEF Colas
  <2> QED
    BY <2>3, <2>4 DEF Colas
<1> QED
  BY <1>2, <1>5, <1>6, <1>7, <1>8

(* wait_for, with a call: taken, or refused. *)
LEMMA WaitForCoge ==
  ASSUME Entera, Base', \A c \in Procs : Sitio(c), \A c \in Procs : Sitio(c)',
         NEW p \in Procs, NEW cap \in De(p, "servir"), WaitFor(p, cap)
  PROVE  cap.i \in Eps /\ Promesa!Coge(p, cap.i)
<1>1. PICK i \in Eps, c \in Procs :
           /\ i = cap.i /\ eps[i].n > 0 /\ c = EnCola(eps[i])[1]
           /\ eps' = [eps EXCEPT ![i] = Desencolada(eps[i])]
           /\ eps' \in [Eps -> EndpointState]
           /\ eps'[i].n = eps[i].n - 1
           /\ \A k \in 1 .. eps'[i].n : EnCola(eps'[i])[k] = EnCola(eps[i])[k + 1]
           /\ \A j \in Eps : j # i => eps'[j] = eps[j]
           /\ \/ /\ Cabe(p)
                 /\ caps' = [caps EXCEPT ![p] = @ \cup {Responder(i, c, resp[c].gen)}]
                 /\ UNCHANGED <<resp, frame, tarea>>
              \/ /\ Complete({x \in {c} : Acepta(x, resp[c].gen)},
                             [x \in {c} |-> [code |-> "busy", de |-> resp[c].gen]])
                 /\ UNCHANGED caps
           /\ Publish(p) /\ UNCHANGED cierra
  BY WaitForHace DEF Entera
<1>2. /\ ColaDe[i] # <<>> /\ Head(ColaDe[i]) = c
      /\ ColaDe' = [ColaDe EXCEPT ![i] = Tail(ColaDe[i])]
      /\ i \in Colas(c)
      /\ \A d \in Procs \ {c} : Colas(d)' = Colas(d)
  BY <1>1, SaleLaPrimera DEF Entera
<1>3. Espera(c) /\ Fase(c) = "pedida" /\ Quien(c) = c
  BY <1>2, FaseYQuien DEF Sitio
<1>4. CASE /\ caps' = [caps EXCEPT ![p] = @ \cup {Responder(i, c, resp[c].gen)}]
           /\ UNCHANGED <<resp, frame, tarea>>
  <2> DEFINE nueva == Responder(i, c, resp[c].gen)
  <2>1. nueva.kind = "responder" /\ nueva.caller_tid = c /\ nueva.de = resp[c].gen
    BY DEF Responder
  <2>2. \A q \in Procs : caps'[q] = IF q = p THEN caps[q] \cup {nueva} ELSE caps[q]
    BY <1>4 DEF Entera, Base, Tipos, TypeOK
  <2> HIDE DEF nueva
  <2>9. resp' = resp
    BY <1>4
  <2>11. nueva \in caps'[p]
    BY <2>2, Zenon
  <2>10. nueva \in De(p, "responder")'
    BY <2>1, <2>11 DEF De
  <2>3. p \in Manos(c)'
    BY <2>1, <2>9, <2>10 DEF Manos
  <2>4. Fase(c)' = "cogida" /\ Quien(c)' = p
    BY <2>3, FaseYQuienPrima
  <2>5. ASSUME NEW d \in Procs \ {c} PROVE Fase(d)' = Fase(d) /\ Quien(d)' = Quien(d)
    <3>1. ASSUME NEW q \in Procs PROVE q \in Manos(d)' <=> q \in Manos(d)
      <4>1. caps[q] \subseteq caps'[q]
            /\ \A x \in caps'[q] : x.caller_tid = d => x \in caps[q]
        <5>1. CASE q # p
          BY <2>2, <5>1
        <5>2. CASE q = p
          BY <2>1, <2>2, <5>2
        <5> QED
          BY <5>1, <5>2
      <4> QED
        BY <2>9, <4>1 DEF Manos, De
    <3>2. Manos(d)' = Manos(d)
      BY <3>1 DEF Manos
    <3>3. Espera(d)' <=> Espera(d)
      BY <1>4 DEF Espera
    <3> QED
      BY <1>2, <3>2, <3>3, Quieta
  <2>6. \A d \in Procs : /\ Fase(d)' = (IF d = c THEN "cogida" ELSE Fase(d))
                         /\ Quien(d)' = (IF d = c THEN p ELSE Quien(d))
    BY <2>4, <2>5
  <2>7. FaseDe' = [FaseDe EXCEPT ![c] = "cogida"]
    BY <2>6, Funciones
  <2>8. QuienDe' = [QuienDe EXCEPT ![c] = p]
    BY <2>6, Funciones
  <2> QED
    BY <1>1, <1>2, <2>7, <2>8 DEF Promesa!Coge, ColaDe, FaseDe, QuienDe
<1>5. CASE /\ Complete({x \in {c} : Acepta(x, resp[c].gen)},
                       [x \in {c} |-> [code |-> "busy", de |-> resp[c].gen]])
           /\ UNCHANGED caps
  <2> DEFINE cs == {x \in {c} : Acepta(x, resp[c].gen)}
             out == [x \in {c} |-> [code |-> "busy", de |-> resp[c].gen]]
  <2>1. cs = {c}
    BY <1>3 DEF Acepta, Espera
  <2>2. Complete(cs, out)
    BY <1>5
  <2> HIDE DEF cs, out
  <2>3. \A d \in Procs : resp'[d].gen = resp[d].gen
                         /\ (Espera(d)' <=> Espera(d) /\ d # c)
    BY <2>1, <2>2, CompleteEspera DEF Entera
  <2>4. Fase(c)' = "libre" /\ Quien(c)' = c
    BY <2>3, FaseYQuienPrima
  <2>5. ASSUME NEW d \in Procs \ {c} PROVE Fase(d)' = Fase(d) /\ Quien(d)' = Quien(d)
    <3>1. Manos(d)' = Manos(d)
      BY <1>5, <2>3, ManosQuietas DEF De
    <3> QED
      BY <1>2, <2>3, <3>1, Quieta
  <2>6. \A d \in Procs : /\ Fase(d)' = (IF d = c THEN "libre" ELSE Fase(d))
                         /\ Quien(d)' = Quien(d)
    BY <1>3, <2>4, <2>5
  <2>7. FaseDe' = [FaseDe EXCEPT ![c] = "libre"]
    BY <2>6, Funciones
  <2>8. QuienDe' = QuienDe
    BY <2>6, Funciones
  <2> QED
    BY <1>1, <1>2, <2>7, <2>8 DEF Promesa!Coge, ColaDe, FaseDe, QuienDe
<1> QED
  BY <1>1, <1>4, <1>5

(* reply_to, of a capability that still speaks for its call: the answer is *)
(* taken, since the object of the capability tells that generation.        *)
LEMMA VivaSeAcepta ==
  ASSUME SinRepetir, Entera, \A c \in Procs : Sitio(c), NEW p \in Procs,
         NEW cap \in De(p, "responder"), Viva(cap)
  PROVE  p \in Manos(cap.caller_tid) /\ Acepta(cap.caller_tid, cap.gen)
<1>1. cap \in caps[p] /\ cap \in Cap /\ cap.kind = "responder"
  BY DEF De, Entera, Base, Tipos, TypeOK
<1>2. cap.caller_tid \in Procs /\ cap.de \in Nat /\ cap.gen = cap.de % GenReply
  BY <1>1, CapKinds, Constantes DEF Gens
<1>3. p \in Manos(cap.caller_tid)
  BY <1>1, <1>2, EnCualMano
<1>4. Espera(cap.caller_tid)
  BY <1>2, <1>3 DEF Sitio
<1>5. cap.de = resp[cap.caller_tid].gen /\ cap.de < GenReply
  BY <1>2, SizesAssumption DEF Viva, Entera, Contadas, SinRepetir
<1>6. cap.de % GenReply = cap.de
  BY <1>2, <1>5, Constantes
<1> QED
  BY <1>2, <1>3, <1>4, <1>5, <1>6 DEF Acepta, Espera

LEMMA ReplyToContesta ==
  ASSUME SinRepetir, Entera, \A c \in Procs : Sitio(c), \A c \in Procs : Sitio(c)',
         NEW p \in Procs, NEW cap \in De(p, "responder"), ReplyTo(p, cap)
  PROVE  \/ UNCHANGED Promete
         \/ cap.caller_tid \in Procs /\ Promesa!Contesta(p, cap.caller_tid)
<1> DEFINE c == cap.caller_tid
           cs == {d \in {c} : Acepta(d, cap.gen)}
           out == [d \in {c} |-> [code |-> "ok", de |-> cap.de]]
<1>1. c \in Procs /\ cap \in caps[p] /\ cap.kind = "responder"
  BY CapKinds DEF De, Entera, Base, Tipos, TypeOK
<1>2. Complete(cs, out) /\ UNCHANGED eps /\ caps' = [caps EXCEPT ![p] = @ \ {cap}]
  BY DEF ReplyTo, Gastada
<1>3. cs \in SUBSET Procs
  BY <1>1
<1>4. ColaDe' = ColaDe /\ \A d \in Procs : Colas(d)' = Colas(d)
  BY <1>2 DEF ColaDe, Colas
<1>5. \A q \in Procs : caps'[q] = IF q = p THEN caps[q] \ {cap} ELSE caps[q]
  BY <1>2 DEF Entera, Base, Tipos, TypeOK
<1>6. cs = {} \/ cs = {c}
  OBVIOUS
<1>7. c \in cs <=> Acepta(c, cap.gen)
  OBVIOUS
<1> HIDE DEF cs, out
<1>8. \A d \in Procs : resp'[d].gen = resp[d].gen /\ (Espera(d)' <=> Espera(d) /\ d \notin cs)
  BY <1>2, <1>3, CompleteEspera DEF Entera
<1>9. ASSUME NEW d \in Procs, d # c \/ ~Viva(cap) PROVE Manos(d)' = Manos(d)
  <2>1. ASSUME NEW q \in Procs PROVE q \in Manos(d)' <=> q \in Manos(d)
    <3>1. \A x \in caps[q] : (x.kind = "responder" /\ x.caller_tid = d
                               /\ x.de = resp[d].gen) => x \in caps'[q]
      BY <1>5, <1>9 DEF Viva
    <3>2. caps'[q] \subseteq caps[q]
      BY <1>5
    <3> QED
      BY <1>8, <3>1, <3>2 DEF Manos, De
  <2> QED
    BY <2>1 DEF Manos
<1>10. CASE ~Viva(cap)
  <2>1. cs = {}
    BY <1>6, <1>7, <1>10, AceptaEsViva DEF Entera
  <2> QED
    BY <1>2, <1>8, <1>9, <1>10, <2>1, NadaSeMueve
<1>11. CASE Viva(cap)
  <2>1. p \in Manos(c) /\ Acepta(c, cap.gen)
    BY <1>11, VivaSeAcepta
  <2>2. cs = {c}
    BY <1>6, <1>7, <2>1
  <2>3. Fase(c) = "cogida" /\ Quien(c) = p
    BY <1>1, <2>1, FaseYQuien
  <2>4. Fase(c)' = "libre" /\ Quien(c)' = c
    BY <1>1, <1>8, <2>2, FaseYQuienPrima
  <2>5. \A d \in Procs \ {c} : Fase(d)' = Fase(d) /\ Quien(d)' = Quien(d)
    BY <1>4, <1>8, <1>9, <2>2, Quieta
  <2>6. \A d \in Procs : /\ Fase(d)' = (IF d = c THEN "libre" ELSE Fase(d))
                         /\ Quien(d)' = (IF d = c THEN c ELSE Quien(d))
    BY <2>4, <2>5
  <2> HIDE DEF c
  <2>7. FaseDe[c] = "cogida" /\ FaseDe' = [FaseDe EXCEPT ![c] = "libre"]
    BY <1>1, <2>3, <2>6, Funciones
  <2>8. QuienDe[c] = p /\ QuienDe' = [QuienDe EXCEPT ![c] = c]
    BY <1>1, <2>3, <2>6, Funciones
  <2>9. Promesa!Contesta(p, c)
    BY <1>4, <2>7, <2>8 DEF Promesa!Contesta, ColaDe, FaseDe, QuienDe
  <2> QED
    BY <1>1, <2>9 DEF c
<1> QED
  BY <1>10, <1>11

(* process_died: those that waited in the endpoints of p hear it. *)
LEMMA MuereCierra ==
  ASSUME Entera, Base', \A c \in Procs : Sitio(c), \A c \in Procs : Sitio(c)',
         NEW p \in Procs, NEW q \in Procs, Muere(p, q)
  PROVE  Promesa!Cierra(Atiende(p))
<1> DEFINE es == Atiende(p)
           cs == {c \in Drenados(p) : Acepta(c, resp[c].gen)}
<1>1. /\ \A i \in Eps : IF i \in es THEN eps'[i].n = 0 ELSE eps'[i] = eps[i]
      /\ Drenados(p) \subseteq Procs
      /\ Complete(cs, [c \in Procs |-> [code |-> "dead", de |-> resp[c].gen]])
      /\ UNCHANGED caps
  BY MuereHace DEF Entera
<1>2. \A c \in Procs : c \in Drenados(p) <=> \E i \in es : i \in Colas(c)
  BY DEF Drenados, Colas, Atiende
<1>3. \A c \in Drenados(p) : Espera(c) /\ Colas(c) # {}
  BY <1>1, <1>2 DEF Sitio
<1>4. cs = Drenados(p)
  BY <1>3 DEF Acepta, Espera
<1>5. es \subseteq Eps
  BY DEF Atiende
<1> HIDE DEF cs, es
<1>6. \A c \in Procs : resp'[c].gen = resp[c].gen
                       /\ (Espera(c)' <=> Espera(c) /\ c \notin Drenados(p))
  BY <1>1, <1>4, CompleteEspera DEF Entera
<1>7. \A c \in Procs : Manos(c)' = Manos(c)
  BY <1>1, <1>6, ManosQuietas DEF De
<1>8. ASSUME NEW c \in Procs
      PROVE  /\ Fase(c)' = (IF c \in Drenados(p) THEN "libre" ELSE Fase(c))
             /\ Quien(c)' = Quien(c)
  <2>1. CASE c \in Drenados(p)
    BY <1>3, <1>6, <2>1, FaseYQuien, FaseYQuienPrima
  <2>2. CASE c \notin Drenados(p)
    <3>1. ASSUME NEW i \in Eps PROVE i \in Colas(c)' <=> i \in Colas(c)
      <4>1. CASE i \in es
        <5>1. i \notin Colas(c)
          BY <1>2, <2>2, <4>1
        <5>2. eps'[i].n = 0 /\ \A k \in 1 .. Queue : ~(k <= 0)
          BY <1>1, <4>1, Constantes
        <5> QED
          BY <5>1, <5>2 DEF Colas
      <4>2. CASE i \notin es
        <5>1. eps'[i] = eps[i]
          BY <1>1, <4>2
        <5> QED
          BY <5>1 DEF Colas
      <4> QED
        BY <4>1, <4>2
    <3>2. Colas(c)' = Colas(c)
      BY <3>1 DEF Colas
    <3> QED
      BY <1>6, <1>7, <2>2, <3>2, Quieta
  <2> QED
    BY <2>1, <2>2
<1>9. ColaDe' = [i \in Eps |-> IF i \in es THEN <<>> ELSE ColaDe[i]]
  <2>1. ASSUME NEW i \in Eps, i \in es PROVE EnCola(eps'[i]) = <<>>
    <3>1. eps'[i] \in EndpointState
      BY DEF Base, Tipos, TypeOK
    <3> QED
      BY <1>1, <2>1, <3>1, EnColaSeq
  <2>2. ASSUME NEW i \in Eps, i \notin es PROVE EnCola(eps'[i]) = EnCola(eps[i])
    BY <1>1, <2>2
  <2>3. ColaDe' = [i \in Eps |-> IF i \in es THEN <<>> ELSE EnCola(eps[i])]
    BY <2>1, <2>2 DEF ColaDe
  <2> QED
    BY <2>3 DEF ColaDe
<1>10. \A c \in Procs : c \in Drenados(p) <=>
         \E i \in es : c \in Promesa!Llamantes(ColaDe[i])
  <2>1. ASSUME NEW i \in Eps, NEW c \in Procs
        PROVE  i \in Colas(c) <=> c \in Promesa!Llamantes(ColaDe[i])
    <3>1. eps[i] \in EndpointState
      BY DEF Entera, Base, Tipos, TypeOK
    <3>2. Len(EnCola(eps[i])) = eps[i].n /\ ColaDe[i] = EnCola(eps[i])
      BY <3>1, EnColaSeq DEF ColaDe
    <3>3. i \in Colas(c) <=> \E k \in 1 .. eps[i].n : EnCola(eps[i])[k] = c
      BY EnCualCola DEF Entera
    <3> QED
      BY <3>2, <3>3 DEF Promesa!Llamantes
  <2> QED
    BY <1>2, <1>5, <2>1
<1>11. FaseDe' = [c \in Procs |-> IF \E i \in es : c \in Promesa!Llamantes(ColaDe[i])
                                  THEN "libre" ELSE FaseDe[c]]
  BY <1>8, <1>10, Funciones
<1>12. QuienDe' = QuienDe
  BY <1>8, Funciones
<1>13. Promesa!Cierra(es)
  BY <1>9, <1>11, <1>12 DEF Promesa!Cierra, ColaDe, FaseDe, QuienDe
<1> QED
  BY <1>13 DEF es

(* revoke_all_slots: the calls in the hands of p are left. *)
LEMMA TerminaAbandona ==
  ASSUME Entera, \A c \in Procs : Sitio(c), \A c \in Procs : Sitio(c)',
         NEW p \in Procs, Termina(p)
  PROVE  Promesa!Abandona(p)
<1>1. UNCHANGED <<eps, resp>> /\ caps' = [caps EXCEPT ![p] = {}]
  BY DEF Termina
<1>2. \A q \in Procs : caps'[q] = IF q = p THEN {} ELSE caps[q]
  BY <1>1 DEF Entera, Base, Tipos, TypeOK
<1>3. ColaDe' = ColaDe /\ \A c \in Procs : Colas(c)' = Colas(c) /\ (Espera(c)' <=> Espera(c))
  BY <1>1 DEF ColaDe, Colas, Espera
<1>4. ASSUME NEW c \in Procs PROVE Manos(c)' = Manos(c) \ {p}
  <2>1. ASSUME NEW q \in Procs PROVE q \in Manos(c)' <=> q \in Manos(c) /\ q # p
    <3>1. resp' = resp
      BY <1>1
    <3>2. CASE q = p
      BY <1>2, <3>2 DEF Manos, De
    <3>3. CASE q # p
      BY <1>2, <3>1, <3>3 DEF Manos, De
    <3> QED
      BY <3>2, <3>3
  <2> QED
    BY <2>1 DEF Manos
<1>5. ASSUME NEW c \in Procs
      PROVE  /\ Fase(c)' = (IF Fase(c) = "cogida" /\ Quien(c) = p THEN "huerfana"
                            ELSE Fase(c))
             /\ Quien(c)' = (IF Quien(c) = p THEN c ELSE Quien(c))
  <2>1. CASE p \in Manos(c)
    <3>1. Espera(c) /\ Colas(c) = {} /\ Manos(c) = {p}
      BY <2>1 DEF Sitio
    <3>2. Espera(c)' /\ Colas(c)' = {} /\ Manos(c)' = {}
      BY <1>3, <1>4, <3>1
    <3>3. Fase(c) = "cogida" /\ Quien(c) = p
      BY <2>1, FaseYQuien
    <3>4. Fase(c)' = "huerfana" /\ Quien(c)' = c
      BY <3>2, FaseYQuienPrima
    <3> QED
      BY <3>3, <3>4
  <2>2. CASE p \notin Manos(c)
    <3>1. Manos(c)' = Manos(c)
      BY <1>4, <2>2
    <3>2. Fase(c)' = Fase(c) /\ Quien(c)' = Quien(c)
      BY <1>3, <3>1, Quieta
    <3>3. Fase(c) = "cogida" => Quien(c) # p
      <4>1. Espera(c) /\ Colas(c) = {} /\ Manos(c) = {} => Fase(c) = "huerfana"
        BY FaseYQuien
      <4>2. ~Espera(c) => Fase(c) = "libre"
        BY FaseYQuien
      <4>3. Colas(c) # {} => Fase(c) = "pedida"
        BY FaseYQuien
      <4>4. \A q \in Manos(c) : Quien(c) = q
        BY FaseYQuien
      <4> QED
        BY <2>2, <4>1, <4>2, <4>3, <4>4
    <3>4. Quien(c) = p => p = c
      <4>1. Manos(c) = {} => Quien(c) = c
        BY FaseYQuien
      <4>2. \A q \in Manos(c) : Quien(c) = q
        BY FaseYQuien
      <4> QED
        BY <2>2, <4>1, <4>2
    <3> QED
      BY <3>2, <3>3, <3>4
  <2> QED
    BY <2>1, <2>2
<1>6. FaseDe' = [c \in Procs |-> IF FaseDe[c] = "cogida" /\ QuienDe[c] = p
                                 THEN "huerfana" ELSE FaseDe[c]]
  BY <1>5, Funciones
<1>7. QuienDe' = [c \in Procs |-> IF QuienDe[c] = p THEN c ELSE QuienDe[c]]
  BY <1>5, Funciones
<1> QED
  BY <1>3, <1>6, <1>7 DEF Promesa!Abandona, ColaDe, FaseDe, QuienDe

(* Steps that move no call. *)
LEMMA CreateNada ==
  ASSUME Entera, NEW p \in Procs, Create(p)
  PROVE  UNCHANGED Promete
<1>1. UNCHANGED resp
  BY DEF Create
<1>2. PICK i \in Eps :
        /\ ~eps[i].vivo
        /\ eps' = [eps EXCEPT ![i] = [EmptyEndpoint EXCEPT !.vivo = TRUE, !.servidor_pid = p]]
        /\ caps' = IF Cabe(p) THEN [caps EXCEPT ![p] = @ \cup {Servir(i)}] ELSE caps
  BY DEF Create
<1>3. \A j \in Eps \ {i} : eps'[j] = eps[j]
  BY <1>2 DEF Entera, Base, Tipos, TypeOK
<1>4. eps[i].n = 0 /\ eps[i] \in EndpointState
  BY <1>2 DEF Entera, Cerradas, Base, Tipos, TypeOK
<1>5. eps'[i].n = 0 /\ eps'[i] \in EndpointState
  <2>1. eps'[i].n = 0
    BY <1>2 DEF Entera, Base, Tipos, TypeOK, EmptyEndpoint
  <2>2. Base'
    BY CreateBase DEF Entera
  <2> QED
    BY <2>1, <2>2 DEF Base, Tipos, TypeOK
<1>6. EnCola(eps'[i]) = <<>> /\ EnCola(eps[i]) = <<>>
  BY <1>4, <1>5, EnColaSeq
<1>7. \A j \in Eps : eps'[j].n = eps[j].n /\ EnCola(eps'[j]) = EnCola(eps[j])
  BY <1>3, <1>4, <1>5, <1>6
<1>8. ASSUME NEW q \in Procs PROVE De(q, "responder")' = De(q, "responder")
  <2>1. Servir(i).kind # "responder"
    BY DEF Servir
  <2> QED
    BY <1>2, <2>1 DEF De, Entera, Base, Tipos, TypeOK
<1>9. \A c \in Procs : Manos(c)' = Manos(c) /\ (Espera(c)' <=> Espera(c))
  BY <1>1, <1>8, ManosQuietas DEF Espera
<1> QED
  BY <1>7, <1>9, NadaSeMueve

LEMMA QuietosNada ==
  ASSUME Entera, NEW p \in Procs,
         \/ \E i \in Eps : GrantClient(p, i)
         \/ \E cap \in De(p, "servir") : WaitForNothing(p, cap)
         \/ Timeout(p) \/ Poll(p)
  PROVE  UNCHANGED Promete
<1>1. UNCHANGED <<eps, resp>>
  BY DEF GrantClient, WaitForNothing, Timeout, Poll
<1>2. caps' = caps \/ \E i \in Eps : caps' = [caps EXCEPT ![p] = @ \cup {Llamar(i)}]
  BY DEF GrantClient, WaitForNothing, Timeout, Poll
<1>3. ASSUME NEW q \in Procs PROVE De(q, "responder")' = De(q, "responder")
  <2>1. \A i : Llamar(i).kind # "responder"
    BY DEF Llamar
  <2> QED
    BY <1>2, <2>1 DEF De, Entera, Base, Tipos, TypeOK
<1>4. \A c \in Procs : Manos(c)' = Manos(c) /\ (Espera(c)' <=> Espera(c))
  BY <1>1, <1>3, ManosQuietas DEF Espera
<1> QED
  BY <1>1, <1>4, NadaSeMueve

----------------------------------------------------------------------------
(* The rest of the invariant. *)

LEMMA CerradasNext == Base /\ Cerradas /\ [Next]_vars => Cerradas'
<1> SUFFICES ASSUME Base, Cerradas, [Next]_vars PROVE Cerradas'
  OBVIOUS
<1>0. eps \in [Eps -> EndpointState]
  BY DEF Base, Tipos, TypeOK
<1>1. ASSUME UNCHANGED eps PROVE Cerradas'
  BY <1>1 DEF Cerradas
<1>2. ASSUME NEW p \in Procs, NEW cap \in De(p, "llamar"), CallOp(p, cap) PROVE Cerradas'
  <2>1. cap.i \in Eps /\ eps[cap.i].n < Queue
        /\ eps' = [eps EXCEPT ![cap.i] = Encolada(eps[cap.i], p)]
    BY <1>2, CallOpHace
  <2>2. eps[cap.i].vivo
    BY <1>2 DEF CallOp
  <2>3. eps[cap.i] \in EndpointState
    BY <1>0, <2>1
  <2>4. Encolada(eps[cap.i], p).vivo = eps[cap.i].vivo
    BY <2>1, <2>3, EncoladaTipo
  <2> QED
    BY <1>0, <2>1, <2>2, <2>4 DEF Cerradas
<1>3. ASSUME NEW p \in Procs, NEW cap \in De(p, "servir"), WaitFor(p, cap) PROVE Cerradas'
  <2>1. cap.i \in Eps
    BY CapKinds DEF De, Base, Tipos, TypeOK
  <2>2. eps[cap.i].vivo /\ eps[cap.i].n > 0
        /\ eps' = [eps EXCEPT ![cap.i] = Desencolada(eps[cap.i])]
    BY <1>3 DEF WaitFor
  <2>3. eps'[cap.i].vivo = eps[cap.i].vivo
    BY <1>0, <2>1, <2>2, DesencoladaTipo
  <2> QED
    BY <1>0, <2>1, <2>2, <2>3 DEF Cerradas
<1>4. ASSUME NEW p \in Procs, Create(p) PROVE Cerradas'
  BY <1>0, <1>4 DEF Create, Cerradas, EmptyEndpoint
<1>5. ASSUME NEW p \in Procs, NEW q \in Procs, Muere(p, q) PROVE Cerradas'
  <2>1. \A i \in Eps : IF i \in Atiende(p) THEN eps'[i].n = 0 ELSE eps'[i] = eps[i]
    BY <1>5, MuereHace
  <2> QED
    BY <2>1 DEF Cerradas
<1>6. ASSUME NEW p \in Procs,
             \/ \E i \in Eps : GrantClient(p, i)
             \/ \E cap \in De(p, "servir") : WaitForNothing(p, cap)
             \/ \E cap \in De(p, "responder") : ReplyTo(p, cap)
             \/ Timeout(p) \/ Poll(p) \/ Termina(p)
      PROVE  Cerradas'
  BY <1>1, <1>6 DEF GrantClient, WaitForNothing, ReplyTo, Timeout, Poll, Termina
<1>7. CASE UNCHANGED vars
  BY <1>1, <1>7 DEF vars
<1> QED
  BY <1>2, <1>3, <1>4, <1>5, <1>6, <1>7 DEF Next, Client, Server

LEMMA ContadasNext ==
  SinVuelta /\ Base /\ Contadas /\ [Next]_vars => Contadas'
<1> SUFFICES ASSUME SinVuelta, Base, Contadas, [Next]_vars PROVE Contadas'
  OBVIOUS
<1>1. ASSUME \A c \in Procs : resp'[c].gen = resp[c].gen PROVE Contadas'
  BY <1>1 DEF Contadas
<1>2. ASSUME NEW p \in Procs, NEW cap \in De(p, "llamar"), CallOp(p, cap) PROVE Contadas'
  <2>1. resp' = [resp EXCEPT ![p] = Preparada(resp[p])]
    BY <1>2, CallOpHace
  <2>2. resp[p].gen < MaxCalls
    BY <1>2 DEF CallOp
  <2>3. resp[p].gen \in Nat /\ MaxCalls \in Nat /\ GenWrap \in Nat
    BY Constantes, SizesAssumption DEF Base, Tipos, TypeOK, Reply, Gens
  <2>4. (resp[p].gen + 1) % GenWrap = resp[p].gen + 1
    BY <2>2, <2>3 DEF SinVuelta
  <2>5. resp'[p].gen <= MaxCalls
    BY <2>1, <2>2, <2>3, <2>4 DEF Preparada, Base, Tipos, TypeOK
  <2>6. \A c \in Procs \ {p} : resp'[c] = resp[c]
    BY <2>1 DEF Base, Tipos, TypeOK
  <2> QED
    BY <2>5, <2>6 DEF Contadas
<1>3. ASSUME NEW cs \in SUBSET Procs, NEW out, Complete(cs, out) PROVE Contadas'
  BY <1>1, <1>3, CompleteEspera
<1>4. ASSUME NEW p \in Procs, NEW cap \in De(p, "servir"), WaitFor(p, cap) PROVE Contadas'
  <2>1. PICK c \in Procs :
          \/ UNCHANGED <<resp, frame, tarea>>
          \/ Complete({x \in {c} : Acepta(x, resp[c].gen)},
                      [x \in {c} |-> [code |-> "busy", de |-> resp[c].gen]])
    BY <1>4, WaitForHace
  <2>2. {x \in {c} : Acepta(x, resp[c].gen)} \in SUBSET Procs
    OBVIOUS
  <2>3. CASE UNCHANGED <<resp, frame, tarea>>
    BY <1>1, <2>3
  <2>4. CASE Complete({x \in {c} : Acepta(x, resp[c].gen)},
                      [x \in {c} |-> [code |-> "busy", de |-> resp[c].gen]])
    BY <1>3, <2>2, <2>4
  <2> QED
    BY <2>1, <2>3, <2>4
<1>5. ASSUME NEW p \in Procs, NEW cap \in De(p, "responder"), ReplyTo(p, cap)
      PROVE  Contadas'
  <2>1. cap.caller_tid \in Procs
    BY CapKinds DEF De, Base, Tipos, TypeOK
  <2>2. {c \in {cap.caller_tid} : Acepta(c, cap.gen)} \in SUBSET Procs
    BY <2>1
  <2> QED
    BY <1>3, <1>5, <2>2 DEF ReplyTo
<1>6. ASSUME NEW p \in Procs, NEW q \in Procs, Muere(p, q) PROVE Contadas'
  <2>1. {c \in Drenados(p) : Acepta(c, resp[c].gen)} \in SUBSET Procs
    BY DEF Drenados
  <2> QED
    BY <1>3, <1>6, <2>1 DEF Muere, ProcessDied
<1>7. ASSUME NEW p \in Procs,
             \/ \E i \in Eps : GrantClient(p, i)
             \/ \E cap \in De(p, "servir") : WaitForNothing(p, cap)
             \/ Create(p) \/ Timeout(p) \/ Poll(p) \/ Termina(p)
      PROVE  Contadas'
  <2>1. UNCHANGED resp
    BY <1>7 DEF GrantClient, WaitForNothing, Create, Timeout, Poll, Termina
  <2> QED
    BY <1>1, <2>1
<1>8. CASE UNCHANGED vars
  BY <1>1, <1>8 DEF vars
<1> QED
  BY <1>2, <1>4, <1>5, <1>6, <1>7, <1>8 DEF Next, Client, Server

LEMMA InitEntera == Init => Entera
<1>1. Init => Cerradas
  BY DEF Init, Cerradas, EmptyEndpoint
<1>2. Init => Contadas
  BY SizesAssumption DEF Init, Contadas
<1> QED
  BY <1>1, <1>2, InitBase, InitLlamadas DEF Entera

LEMMA NextEntera == SinVuelta /\ Entera /\ [Next]_vars => Entera'
  BY NextBase, NextLlamadas, CerradasNext, ContadasNext DEF Entera

----------------------------------------------------------------------------
(* The promise. *)

LEMMA InitPromesa == Init => Promesa!Init
<1> SUFFICES ASSUME Init PROVE Promesa!Init
  OBVIOUS
<1>1. Base
  BY InitBase
<1>2. ASSUME NEW i \in Eps PROVE EnCola(eps[i]) = <<>>
  <2>1. eps[i].n = 0 /\ eps[i] \in EndpointState
    BY <1>1 DEF Init, EmptyEndpoint, Base, Tipos, TypeOK
  <2> QED
    BY <2>1, EnColaSeq
<1>3. \A c \in Procs : ~Espera(c)
  BY DEF Init, Espera
<1>4. \A c \in Procs : Fase(c) = "libre" /\ Quien(c) = c
  BY <1>3 DEF Fase, Quien
<1>5. ColaDe = [i \in Eps |-> <<>>]
  BY <1>2 DEF ColaDe
<1>6. FaseDe = [c \in Procs |-> "libre"] /\ QuienDe = [c \in Procs |-> c]
  BY <1>4, Funciones
<1> QED
  BY <1>5, <1>6 DEF Promesa!Init, ColaDe, FaseDe, QuienDe

LEMMA StepPromesa ==
  SinRepetir /\ Entera /\ [Next]_vars => [Promesa!Next]_(Promesa!vars)
<1> SUFFICES ASSUME SinRepetir, Entera, [Next]_vars
             PROVE  [Promesa!Next]_(Promesa!vars)
  OBVIOUS
<1>1. SinVuelta
  BY SinVueltaNinguna
<1>2. Base' /\ (Base /\ Llamadas)'
  BY <1>1, NextEntera DEF Entera
<1>3. \A c \in Procs : Sitio(c)
  BY EnUnSitio DEF Entera
<1>4. \A c \in Procs : Sitio(c)'
  BY <1>2, EnUnSitioPrima
<1>5. ASSUME UNCHANGED Promete PROVE UNCHANGED Promesa!vars
  BY <1>5 DEF Promete, Promesa!vars, ColaDe, FaseDe, QuienDe
<1>6. ASSUME NEW p \in Procs, NEW cap \in De(p, "llamar"), CallOp(p, cap)
      PROVE  Promesa!Next
  BY <1>1, <1>3, <1>4, <1>6, CallOpPide DEF Promesa!Next
<1>7. ASSUME NEW p \in Procs, NEW cap \in De(p, "servir"), WaitFor(p, cap)
      PROVE  Promesa!Next
  BY <1>2, <1>3, <1>4, <1>7, WaitForCoge DEF Promesa!Next
<1>8. ASSUME NEW p \in Procs, NEW cap \in De(p, "responder"), ReplyTo(p, cap)
      PROVE  [Promesa!Next]_(Promesa!vars)
  BY <1>3, <1>4, <1>5, <1>8, ReplyToContesta DEF Promesa!Next
<1>9. ASSUME NEW p \in Procs, NEW q \in Procs, Muere(p, q) PROVE Promesa!Next
  <2>1. Promesa!Cierra(Atiende(p))
    BY <1>2, <1>3, <1>4, <1>9, MuereCierra
  <2>2. Atiende(p) \in SUBSET Eps
    BY DEF Atiende
  <2> QED
    BY <2>1, <2>2 DEF Promesa!Next
<1>10. ASSUME NEW p \in Procs, Termina(p) PROVE Promesa!Next
  BY <1>3, <1>4, <1>10, TerminaAbandona DEF Promesa!Next
<1>11. ASSUME NEW p \in Procs, Create(p) PROVE UNCHANGED Promesa!vars
  BY <1>5, <1>11, CreateNada
<1>12. ASSUME NEW p \in Procs,
              \/ \E i \in Eps : GrantClient(p, i)
              \/ \E cap \in De(p, "servir") : WaitForNothing(p, cap)
              \/ Timeout(p) \/ Poll(p)
       PROVE  UNCHANGED Promesa!vars
  BY <1>5, <1>12, QuietosNada
<1>13. CASE UNCHANGED vars
  <2>1. UNCHANGED <<eps, resp, caps>>
    BY <1>13 DEF vars
  <2>2. \A c \in Procs : Manos(c)' = Manos(c) /\ (Espera(c)' <=> Espera(c))
    BY <2>1 DEF Manos, De, Espera
  <2>3. UNCHANGED Promete
    BY <2>1, <2>2, NadaSeMueve
  <2> QED
    BY <1>5, <2>3
<1> QED
  BY <1>6, <1>7, <1>8, <1>9, <1>10, <1>11, <1>12, <1>13 DEF Next, Client, Server

(* endpoint.rs: calls are taken one by one in the order in which they were *)
(* made, and each is answered at most once, by whoever took it or by the   *)
(* kernel, however many processes serve, call one another and die, while   *)
(* the object of a reply tells their calls apart.                          *)
THEOREM ThePromiseIsKept ==
  ASSUME SinRepetir PROVE Spec => KeepsThePromise
<1>1. SinVuelta
  BY SinVueltaNinguna
<1>2. Entera /\ [Next]_vars => Entera'
  BY <1>1, NextEntera
<1>3. Entera /\ [Next]_vars => [Promesa!Next]_(Promesa!vars)
  BY StepPromesa
<1> QED
  BY <1>2, <1>3, InitEntera, InitPromesa, PTL DEF Spec, KeepsThePromise, Promesa!Spec

=============================================================================
