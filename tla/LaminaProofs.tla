---------------------------- MODULE LaminaProofs ----------------------------
(***************************************************************************)
(* Proofs about Lamina, for runs without end: what the memory of x86-64    *)
(* gives to a load while the stores of each side drain, the invariant of   *)
(* the two seals, and that what is shown is what was published.            *)
(***************************************************************************)
EXTENDS Lamina, SequenceTheorems, WellFoundedInduction, TLAPS

(* A store on its way, and those of each side. *)
Almacen == [campo : Campos, valor : Nat]
Suyos == buf["app"]
Vueltas == buf["esc"]
Publicada == mem[secuencia]

Datos(k) == {dato("a", k), dato("b", k)}

(* The places in a buffer b of the stores to the word c. *)
LasDe(b, c) == {i \in 1 .. Len(b) : b[i].campo = c}

EnCamino == buf \in [Lados -> Seq(Almacen)]

(* Each word has one writer. *)
UnEscritor ==
  /\ \A c \in {vuelta, duerme} : LasDe(Suyos, c) = {}
  /\ \A c \in Campos \ {vuelta, duerme} : LasDe(Vueltas, c) = {}
  /\ \A i \in LasDe(Vueltas, vuelta) : Vueltas[i].valor \in 0 .. 2
  /\ \A i \in LasDe(Vueltas, duerme) : Vueltas[i].valor \in 0 .. 1

(* publicar: one sequence is on its way at most, the next one; an app that *)
(* rings waits for it before it goes on.                                   *)
UnaSecuencia ==
  /\ \A i \in LasDe(Suyos, secuencia) : Suyos[i].valor = Publicada + 1
  /\ \A i, j \in LasDe(Suyos, secuencia) : i = j
  /\ app.pc \in {"rellena", "acaba", "publica"} => LasDe(Suyos, secuencia) = {}
  /\ app.timbre /\ app.pc \in {"libre", "vuelta", "despierta"} =>
       LasDe(Suyos, secuencia) = {}

(* The words on their way are those of the frame that comes after the one  *)
(* that is published; the seal of its slot is odd until they are in, and   *)
(* the sequence comes after them.                                          *)
DatosDeLaSiguiente ==
  \A k \in Ranuras : \A c \in Datos(k) : \A i \in LasDe(Suyos, c) :
    /\ Suyos[i].valor = Publicada + 1 /\ k = ranura_publicada(Publicada + 1)
    /\ mem[sello(k)] % 2 = 1
    /\ \A j \in LasDe(Suyos, secuencia) \cup LasDe(Suyos, sello(k)) : i < j

(* A frame that is going to be published is in its slot or on its way... *)
SiguienteEntera ==
  app.pc \in {"acaba", "publica"} \/ LasDe(Suyos, secuencia) # {} =>
    \A c \in Datos(ranura_publicada(Publicada + 1)) :
      mem[c] = Publicada + 1 \/ LasDe(Suyos, c) # {}

(* ...and the one that is published is in its slot, whole. *)
PublicadaEntera ==
  \A c \in Datos(ranura_publicada(Publicada)) : mem[c] = Publicada

(* The app sees a seal odd while it is inside of the slot, and only then;  *)
(* while it writes there is no seal on its way.                            *)
Dentro(k) == app.pc \in {"vuelta", "rellena", "acaba"} /\ k = Ranura
SellosAlDia ==
  /\ app.pc # "muerta" =>
       \A k \in Ranuras : (Lee("app", sello(k)) % 2 = 1) <=> Dentro(k)
  /\ app.pc \in {"rellena", "acaba"} =>
       \A k \in Ranuras : LasDe(Suyos, sello(k)) = {}

(* reservar: VUELTA says so from before the seal is looked at until the    *)
(* slot is let go, and the app is out of it.                               *)
Reservada == esc.pc = "confirma" \/ EnPrestamo
PrestamoFirme ==
  /\ esc.prestada => esc.pc = "dibuja"
  /\ esc.pc = "valla" => Lee("esc", vuelta) = ranura + 1
  /\ Reservada =>
       /\ Vueltas = <<>> /\ mem[vuelta] = ranura + 1
       /\ ~(app.pc \in {"rellena", "acaba"} /\ Ranura = ranura)
       /\ \A c \in Datos(ranura) : LasDe(Suyos, c) = {}
  /\ EnPrestamo => \A c \in Datos(ranura) : mem[c] = esc.s

(* What the desktop has copied is the frame that it is after, if that one  *)
(* is still the one that is published.                                     *)
CopiaFirme ==
  /\ esc.pc = "presta2" => esc.a = esc.s
  /\ esc.pc \in {"copia", "copia1", "copia2", "intacto", "vigente"} =>
       esc.s <= Publicada
  /\ esc.pc \in {"copia2", "intacto", "vigente"} /\ esc.s = Publicada =>
       esc.a = Publicada
  /\ esc.pc \in {"intacto", "vigente"} /\ esc.s = Publicada =>
       esc.b = Publicada

(* me_duermo: DUERME is up from before the last look at the sequence. *)
SuenoFirme ==
  /\ esc.pc \in {"me_duermo", "espera", "dormido"} => app.timbre
  /\ esc.pc = "me_duermo" => Lee("esc", duerme) = 1
  /\ esc.pc \in {"espera", "dormido"} => Vueltas = <<>> /\ mem[duerme] = 1

Tipos == TypeOK /\ EnCamino /\ UnEscritor
LaApp ==
  /\ UnaSecuencia /\ DatosDeLaSiguiente /\ SiguienteEntera /\ PublicadaEntera
  /\ SellosAlDia
ElEscritorio ==
  PrestamoFirme /\ CopiaFirme /\ FrameIsWhole /\ SuenoFirme /\ NoWakeLost

IInv == Tipos /\ LaApp /\ ElEscritorio

----------------------------------------------------------------------------
(* The words of a lamina are different words, and two frames that follow   *)
(* each other go to different slots.                                       *)
LEMMA Palabras ==
  /\ {secuencia, vuelta, duerme} \subseteq Campos
  /\ secuencia # vuelta /\ secuencia # duerme /\ vuelta # duerme
  /\ \A k \in Ranuras :
       /\ sello(k) \in Campos /\ sello(k) \notin {secuencia, vuelta, duerme}
       /\ Datos(k) \subseteq Campos
       /\ Datos(k) \cap {secuencia, vuelta, duerme} = {}
  /\ \A j, k \in Ranuras :
       /\ sello(j) \notin Datos(k)
       /\ j # k => sello(j) # sello(k) /\ Datos(j) \cap Datos(k) = {}
  /\ \A c \in Campos : \/ c \in {secuencia, vuelta, duerme}
                       \/ \E k \in Ranuras : c = sello(k) \/ c \in Datos(k)
  BY DEF secuencia, vuelta, duerme, sello, dato, Datos, Ranuras, Campos

LEMMA DosRanuras ==
  ASSUME NEW s \in Nat
  PROVE  /\ ranura_publicada(s) \in Ranuras
         /\ ranura_para_escribir(s) \in Ranuras
         /\ ranura_para_escribir(s) = ranura_publicada(s + 1)
         /\ ranura_publicada(s) # ranura_publicada(s + 1)
  BY DEF ranura_publicada, ranura_para_escribir, Ranuras

----------------------------------------------------------------------------
(* What a load gives, of any memory m and any buffer b. *)
Ultima(m, b, c) == IF LasDe(b, c) = {} THEN m[c] ELSE b[Max(LasDe(b, c))].valor

LEMMA LeeUltima ==
  \A p, c : /\ Lee(p, c) = Ultima(mem, buf[p], c)
            /\ Lee(p, c)' = Ultima(mem', buf'[p], c)
  BY DEF Lee, Ultima, LasDe

LEMMA Largo ==
  ASSUME NEW b \in Seq(Almacen)
  PROVE  /\ Len(b) \in Nat /\ DOMAIN b = 1 .. Len(b)
         /\ \A i \in 1 .. Len(b) : b[i] \in Almacen /\ b[i].campo \in Campos /\ b[i].valor \in Nat
<1>1. Len(b) \in Nat /\ DOMAIN b = 1 .. Len(b)
  BY LenProperties
<1>2. \A i \in 1 .. Len(b) : b[i] \in Almacen
  BY <1>1, ElementOfSeq
<1> QED
  BY <1>1, <1>2 DEF Almacen

LEMMA LasDeEn ==
  ASSUME NEW b \in Seq(Almacen), NEW c
  PROVE  /\ LasDe(b, c) \subseteq 1 .. Len(b) /\ LasDe(b, c) \subseteq Nat
         /\ \A i \in LasDe(b, c) : i >= 1 /\ i <= Len(b) /\ b[i].campo = c
                                /\ b[i].valor \in Nat
  BY Largo DEF LasDe

(* Some of the numbers from 1 to n have a greatest one. *)
LEMMA ElMayor ==
  ASSUME NEW n \in Nat, NEW T, T \subseteq 1 .. n, T # {}
  PROVE  \E x \in T : \A y \in T : y <= x
<1> DEFINE R == {ss \in Nat \X Nat : ss[1] < ss[2]}
           D == {n - y : y \in T}
<1>1. IsWellFoundedOn(R, Nat)
  BY NatLessThanWellFounded, Zenon DEF OpToRel
<1>2. D \subseteq Nat /\ D # {}
  <2>1. ASSUME NEW y \in T PROVE n - y \in Nat /\ n - y \in D
    OBVIOUS
  <2> QED
    BY <2>1
<1>3. PICK d \in D : \A e \in D : ~ (<<e, d>> \in R)
  <2> HIDE DEF R, D
  <2> QED
    BY <1>1, <1>2, WFMin
<1>4. PICK x \in T : d = n - x
  OBVIOUS
<1>5. ASSUME NEW y \in T PROVE y <= x
  <2>1. n - y \in D /\ n - y \in Nat /\ d \in Nat
    BY <1>2
  <2>2. ~ (n - y < d)
    BY <1>3, <2>1
  <2> QED
    BY <1>4, <2>1, <2>2
<1> QED
  BY <1>5

(* The latest store to a word is the one with no other after it... *)
LEMMA UltimaEs ==
  ASSUME NEW m, NEW b, NEW c, NEW i \in LasDe(b, c), \A j \in LasDe(b, c) : j <= i
  PROVE  Ultima(m, b, c) = b[i].valor
<1>1. LasDe(b, c) \subseteq Nat
  BY DEF LasDe
<1>2. \A j \in LasDe(b, c) : i >= j
  BY <1>1
<1>3. Max(LasDe(b, c)) \in LasDe(b, c) /\ \A j \in LasDe(b, c) : Max(LasDe(b, c)) >= j
  BY <1>2 DEF Max
<1>4. Max(LasDe(b, c)) = i
  BY <1>1, <1>2, <1>3
<1> QED
  BY <1>4 DEF Ultima

(* ...and there is one, if there are any. *)
LEMMA UltimaDe ==
  ASSUME NEW m, NEW b \in Seq(Almacen), NEW c, LasDe(b, c) # {}
  PROVE  \E i \in LasDe(b, c) :
           (\A j \in LasDe(b, c) : j <= i) /\ Ultima(m, b, c) = b[i].valor
<1>1. LasDe(b, c) \subseteq 1 .. Len(b) /\ Len(b) \in Nat
  BY DEF LasDe
<1>2. PICK i \in LasDe(b, c) : \A j \in LasDe(b, c) : j <= i
  BY <1>1, ElMayor
<1>3. Ultima(m, b, c) = b[i].valor
  BY <1>2, UltimaEs
<1> QED
  BY <1>2, <1>3

LEMMA UltimaNinguna ==
  ASSUME NEW m, NEW b, NEW c, LasDe(b, c) = {}
  PROVE  Ultima(m, b, c) = m[c]
  BY DEF Ultima

LEMMA UltimaNat ==
  ASSUME NEW m \in [Campos -> Nat], NEW b \in Seq(Almacen), NEW c \in Campos
  PROVE  Ultima(m, b, c) \in Nat
<1>1. CASE LasDe(b, c) = {}
  BY <1>1 DEF Ultima
<1>2. CASE LasDe(b, c) # {}
  <2>1. PICK i \in LasDe(b, c) : Ultima(m, b, c) = b[i].valor
    BY <1>2, UltimaDe
  <2> QED
    BY <2>1, LasDeEn
<1> QED
  BY <1>1, <1>2

(* What happens to a buffer b: store g is put at the end; store g, the     *)
(* oldest one, leaves, and gets to the memory; the last ones are lost.     *)
Pone(b, g, b2) == b2 = Append(b, g)
Saca(b, g, b2) == b # <<>> /\ g = Head(b) /\ b2 = Tail(b)
Llega(m, g, m2) == m2 = [m EXCEPT ![g.campo] = g.valor]
Corta(b, b2) == \E n \in 0 .. Len(b) : b2 = SubSeq(b, 1, n)

(* A store goes to the end of the buffer, and its side sees it. *)
LEMMA AlFinal ==
  ASSUME NEW b \in Seq(Almacen), NEW g \in Almacen, NEW b2, Pone(b, g, b2)
  PROVE  /\ b2 \in Seq(Almacen)
         /\ b2[Len(b) + 1] = g
         /\ LasDe(b2, g.campo) = LasDe(b, g.campo) \cup {Len(b) + 1}
         /\ \A c : c # g.campo => LasDe(b2, c) = LasDe(b, c)
         /\ \A c : \A i \in LasDe(b, c) : b2[i] = b[i] /\ i < Len(b) + 1
<1>1. b2 \in Seq(Almacen) /\ Len(b2) = Len(b) + 1
  BY AppendProperties DEF Pone
<1>2. (\A i \in 1 .. Len(b) : b2[i] = b[i]) /\ b2[Len(b) + 1] = g
  BY AppendProperties DEF Pone
<1>3. Len(b) \in Nat
  BY Largo
<1>4. \A c : \A i \in LasDe(b, c) : b2[i] = b[i] /\ i < Len(b) + 1
  BY <1>2, <1>3 DEF LasDe
<1>5. \A c : c # g.campo => LasDe(b2, c) = LasDe(b, c)
  BY <1>1, <1>2, <1>3 DEF LasDe
<1>6. LasDe(b2, g.campo) = LasDe(b, g.campo) \cup {Len(b) + 1}
  BY <1>1, <1>2, <1>3 DEF LasDe
<1> QED
  BY <1>1, <1>2, <1>4, <1>5, <1>6

LEMMA UltimaAlFinal ==
  ASSUME NEW m, NEW b \in Seq(Almacen), NEW g \in Almacen, NEW b2, Pone(b, g, b2)
  PROVE  /\ Ultima(m, b2, g.campo) = g.valor
         /\ \A c : c # g.campo => Ultima(m, b2, c) = Ultima(m, b, c)
<1>0. b2 \in Seq(Almacen) /\ Len(b) \in Nat
  BY AlFinal, Largo
<1>1. Ultima(m, b2, g.campo) = g.valor
  <2>1. Len(b) + 1 \in LasDe(b2, g.campo) /\ b2[Len(b) + 1] = g
    BY AlFinal
  <2>2. \A j \in LasDe(b2, g.campo) : j <= Len(b) + 1
    <3>1. LasDe(b2, g.campo) = LasDe(b, g.campo) \cup {Len(b) + 1}
      BY AlFinal
    <3>2. \A j \in LasDe(b, g.campo) : j \in Nat /\ j <= Len(b)
      BY LasDeEn
    <3> QED
      BY <1>0, <3>1, <3>2
  <2> QED
    BY <2>1, <2>2, UltimaEs
<1>2. ASSUME NEW c, c # g.campo PROVE Ultima(m, b2, c) = Ultima(m, b, c)
  <2>1. LasDe(b2, c) = LasDe(b, c)
    BY <1>2, AlFinal
  <2>2. CASE LasDe(b, c) = {}
    BY <2>1, <2>2 DEF Ultima
  <2>3. CASE LasDe(b, c) # {}
    <3>1. PICK i \in LasDe(b, c) :
            (\A j \in LasDe(b, c) : j <= i) /\ Ultima(m, b, c) = b[i].valor
      BY <2>3, UltimaDe
    <3>2. Ultima(m, b2, c) = b2[i].valor
      BY <2>1, <3>1, UltimaEs
    <3>3. b2[i] = b[i]
      BY <3>1, AlFinal
    <3> QED
      BY <3>1, <3>2, <3>3
  <2> QED
    BY <2>2, <2>3
<1> QED
  BY <1>1, <1>2

(* The oldest store gets to the memory: its side sees what it saw. *)
LEMMA AlFrente ==
  ASSUME NEW b \in Seq(Almacen), NEW g, NEW b2, Saca(b, g, b2)
  PROVE  /\ b2 \in Seq(Almacen)
         /\ g \in Almacen /\ g = b[1] /\ 1 \in LasDe(b, g.campo)
         /\ \A c : \A i \in LasDe(b2, c) : i + 1 \in LasDe(b, c) /\ b2[i] = b[i + 1]
         /\ \A c : \A i \in LasDe(b, c) : i # 1 => i - 1 \in LasDe(b2, c)
         /\ \A c : 1 \in LasDe(b, c) => c = g.campo
<1>1. Len(b) \in Nat /\ Len(b) # 0 /\ b[1] \in Almacen
  <2>1. Len(b) # 0
    BY Largo, EmptySeq DEF Saca
  <2> QED
    BY <2>1, Largo
<1>2. /\ b2 \in Seq(Almacen) /\ Len(b2) = Len(b) - 1
      /\ \A i \in 1 .. Len(b) - 1 : b2[i] = b[i + 1]
  BY HeadTailProperties DEF Saca
<1>3. g = b[1]
  BY DEF Saca
<1>4. 1 \in LasDe(b, g.campo) /\ \A c : 1 \in LasDe(b, c) => c = g.campo
  BY <1>1, <1>3 DEF LasDe
<1>5. \A c : \A i \in LasDe(b2, c) : i + 1 \in LasDe(b, c) /\ b2[i] = b[i + 1]
  BY <1>1, <1>2 DEF LasDe
<1>6. \A c : \A i \in LasDe(b, c) : i # 1 => i - 1 \in LasDe(b2, c)
  BY <1>1, <1>2 DEF LasDe
<1> QED
  BY <1>1, <1>2, <1>3, <1>4, <1>5, <1>6

LEMMA UltimaAlFrente ==
  ASSUME NEW m \in [Campos -> Nat], NEW b \in Seq(Almacen),
         NEW g, NEW b2, Saca(b, g, b2),
         NEW m2, Llega(m, g, m2), NEW c \in Campos
  PROVE  Ultima(m2, b2, c) = Ultima(m, b, c)
<1>1. b2 \in Seq(Almacen) /\ g \in Almacen /\ g = b[1] /\ 1 \in LasDe(b, g.campo)
  BY AlFrente
<1>2. g.campo \in Campos
  BY <1>1 DEF Almacen
<1>3. \A d : \A i \in LasDe(b2, d) : i + 1 \in LasDe(b, d) /\ b2[i] = b[i + 1]
  BY AlFrente
<1>4. \A d : \A i \in LasDe(b, d) : i # 1 => i - 1 \in LasDe(b2, d)
  BY AlFrente
<1>5. \A d : 1 \in LasDe(b, d) => d = g.campo
  BY AlFrente
<1>6. CASE LasDe(b2, c) # {}
  <2>1. PICK i \in LasDe(b2, c) :
          (\A j \in LasDe(b2, c) : j <= i) /\ Ultima(m2, b2, c) = b2[i].valor
    BY <1>1, <1>6, UltimaDe
  <2>2. i + 1 \in LasDe(b, c) /\ b2[i] = b[i + 1] /\ i \in Nat
    BY <1>1, <1>3, LasDeEn
  <2>3. \A j \in LasDe(b, c) : j <= i + 1
    <3>1. \A j \in LasDe(b, c) : j \in Nat /\ (j # 1 => j - 1 <= i)
      BY <1>4, <2>1, LasDeEn
    <3> QED
      BY <2>2, <3>1
  <2>4. Ultima(m, b, c) = b[i + 1].valor
    BY <2>2, <2>3, UltimaEs
  <2> QED
    BY <2>1, <2>2, <2>4
<1>7. CASE LasDe(b2, c) = {}
  <2>1. Ultima(m2, b2, c) = m2[c]
    BY <1>7, UltimaNinguna
  <2>2. \A j \in LasDe(b, c) : j = 1
    BY <1>4, <1>7
  <2>3. CASE c = g.campo
    <3>1. Ultima(m, b, c) = b[1].valor
      BY <1>1, <2>2, <2>3, UltimaEs
    <3> QED
      BY <1>1, <1>2, <2>1, <2>3, <3>1 DEF Llega
  <2>4. CASE c # g.campo
    <3>1. LasDe(b, c) = {}
      BY <1>5, <2>2, <2>4
    <3>2. Ultima(m, b, c) = m[c]
      BY <3>1, UltimaNinguna
    <3> QED
      BY <1>2, <2>1, <2>4, <3>2 DEF Llega
  <2> QED
    BY <2>3, <2>4
<1> QED
  BY <1>6, <1>7

(* The last stores are lost: the others stay where they were. *)
LEMMA AlCortar ==
  ASSUME NEW b \in Seq(Almacen), NEW b2, Corta(b, b2)
  PROVE  /\ b2 \in Seq(Almacen)
         /\ \A c : \A i \in LasDe(b2, c) : i \in LasDe(b, c) /\ b2[i] = b[i]
         /\ \A c, d : \A i \in LasDe(b, c), j \in LasDe(b2, d) :
              i < j => i \in LasDe(b2, c)
<1>0. PICK n \in 0 .. Len(b) : b2 = SubSeq(b, 1, n)
  BY DEF Corta
<1>1. Len(b) \in Nat /\ \A i \in 1 .. n : b[i] \in Almacen
  BY Largo
<1>2. /\ b2 \in Seq(Almacen) /\ Len(b2) = n
      /\ \A i \in 1 .. n : b2[i] = b[i]
  BY <1>0, <1>1, SubSeqProperties
<1>3. \A c : \A i \in LasDe(b2, c) : i \in LasDe(b, c) /\ b2[i] = b[i]
  BY <1>1, <1>2 DEF LasDe
<1>4. \A c, d : \A i \in LasDe(b, c), j \in LasDe(b2, d) :
              i < j => i \in LasDe(b2, c)
  BY <1>1, <1>2 DEF LasDe
<1> QED
  BY <1>2, <1>3, <1>4

(* The rest of the memory is nobody's business. *)
LEMMA UltimaAjena ==
  ASSUME NEW m, NEW m2, NEW b, NEW c, m2[c] = m[c]
  PROVE  Ultima(m2, b, c) = Ultima(m, b, c)
  BY DEF Ultima

----------------------------------------------------------------------------
(* The state. *)
LEMMA Hechos ==
  ASSUME Tipos
  PROVE  /\ Suyos \in Seq(Almacen) /\ Vueltas \in Seq(Almacen)
         /\ mem \in [Campos -> Nat] /\ Publicada \in Nat
         /\ app \in App /\ esc \in Esc /\ esc.s \in Nat /\ ranura \in Ranuras
<1>1. Suyos \in Seq(Almacen) /\ Vueltas \in Seq(Almacen)
  BY DEF Tipos, EnCamino, Lados, Suyos, Vueltas
<1>2. mem \in [Campos -> Nat] /\ Publicada \in Nat
  BY Palabras DEF Tipos, TypeOK, Publicada
<1>3. app \in App /\ esc \in Esc /\ esc.s \in Nat
  BY DEF Tipos, TypeOK, Esc
<1>4. ranura \in Ranuras
  BY <1>3, DosRanuras DEF ranura
<1> QED
  BY <1>1, <1>2, <1>3, <1>4

(* What the app believes that it has published. *)
LEMMA LaPropia ==
  ASSUME Tipos, UnaSecuencia
  PROVE  /\ Propia \in Nat /\ Ranura \in Ranuras /\ Ranura = ranura_publicada(Propia + 1)
         /\ LasDe(Suyos, secuencia) = {} => Propia = Publicada
<1>1. Propia = Ultima(mem, Suyos, secuencia)
  BY LeeUltima DEF Propia, Suyos
<1>2. Propia \in Nat
  BY <1>1, Hechos, Palabras, UltimaNat
<1>3. Ranura \in Ranuras /\ Ranura = ranura_publicada(Propia + 1)
  BY <1>2, DosRanuras DEF Ranura
<1>4. LasDe(Suyos, secuencia) = {} => Propia = Publicada
  BY <1>1, UltimaNinguna DEF Publicada
<1> QED
  BY <1>2, <1>3, <1>4

LEMMA TiposDe ==
  ASSUME NEW b \in Seq(Almacen), NEW g \in Range(b)
  PROVE  g.campo \in Campos /\ g.valor \in Nat
<1>1. PICK i \in 1 .. Len(b) : g = b[i]
  BY Largo DEF Range
<1> QED
  BY <1>1, Largo

(* A store of the app, and one of the desktop. *)
LEMMA GuardaApp ==
  ASSUME Tipos, NEW c \in Campos \ {vuelta, duerme}, NEW v \in Nat,
         Guarda("app", c, v), UNCHANGED mem
  PROVE  /\ EnCamino' /\ UnEscritor' /\ Vueltas' = Vueltas
         /\ LasDe(Suyos', c) = LasDe(Suyos, c) \cup {Len(Suyos) + 1}
         /\ Suyos'[Len(Suyos) + 1].valor = v
         /\ \A d : d # c => LasDe(Suyos', d) = LasDe(Suyos, d)
         /\ \A d : \A i \in LasDe(Suyos, d) : Suyos'[i] = Suyos[i] /\ i < Len(Suyos) + 1
         /\ Ultima(mem', Suyos', c) = v
         /\ \A d : d # c => Ultima(mem', Suyos', d) = Ultima(mem, Suyos, d)
<1> DEFINE g == [campo |-> c, valor |-> v]
<1>1. g \in Almacen /\ g.campo = c /\ g.valor = v
  BY DEF Almacen
<1>2. Pone(Suyos, g, Suyos') /\ Vueltas' = Vueltas
  BY DEF Guarda, Pone, Suyos, Vueltas, Tipos, EnCamino, Lados
<1> HIDE DEF g
<1>3. Suyos \in Seq(Almacen) /\ Vueltas \in Seq(Almacen) /\ Len(Suyos) \in Nat
  BY Hechos, Largo
<1>4. /\ Suyos' \in Seq(Almacen) /\ Suyos'[Len(Suyos) + 1] = g
      /\ LasDe(Suyos', c) = LasDe(Suyos, c) \cup {Len(Suyos) + 1}
      /\ \A d : d # c => LasDe(Suyos', d) = LasDe(Suyos, d)
      /\ \A d : \A i \in LasDe(Suyos, d) : Suyos'[i] = Suyos[i] /\ i < Len(Suyos) + 1
  <2>1. Suyos' \in Seq(Almacen)
    BY <1>1, <1>2, <1>3, AlFinal
  <2>2. Suyos'[Len(Suyos) + 1] = g
    BY <1>1, <1>2, <1>3, AlFinal
  <2>3. LasDe(Suyos', g.campo) = LasDe(Suyos, g.campo) \cup {Len(Suyos) + 1}
    BY <1>1, <1>2, <1>3, AlFinal
  <2>4. \A d : d # g.campo => LasDe(Suyos', d) = LasDe(Suyos, d)
    BY <1>1, <1>2, <1>3, AlFinal
  <2>5. \A d : \A i \in LasDe(Suyos, d) : Suyos'[i] = Suyos[i] /\ i < Len(Suyos) + 1
    BY <1>1, <1>2, <1>3, AlFinal
  <2> QED
    BY <1>1, <2>1, <2>2, <2>3, <2>4, <2>5
<1>5. EnCamino'
  <2>1. buf' = [buf EXCEPT !["app"] = Suyos']
    BY DEF Guarda, Suyos, Tipos, EnCamino, Lados
  <2> QED
    BY <1>4, <2>1 DEF Tipos, EnCamino, Lados
<1>6. UnEscritor'
  BY <1>2, <1>4 DEF Tipos, UnEscritor
<1>7. /\ Ultima(mem, Suyos', c) = v
      /\ \A d : d # c => Ultima(mem, Suyos', d) = Ultima(mem, Suyos, d)
  BY <1>1, <1>2, <1>3, UltimaAlFinal
<1> QED
  BY <1>1, <1>2, <1>4, <1>5, <1>6, <1>7

LEMMA GuardaEsc ==
  ASSUME Tipos, NEW c \in {vuelta, duerme}, NEW v \in 0 .. 2, c = duerme => v \in 0 .. 1,
         Guarda("esc", c, v), UNCHANGED mem
  PROVE  EnCamino' /\ UnEscritor' /\ Suyos' = Suyos /\ Lee("esc", c)' = v
<1> DEFINE g == [campo |-> c, valor |-> v]
<1>1. g \in Almacen /\ g.campo = c /\ g.valor = v
  BY Palabras DEF Almacen
<1>2. Pone(Vueltas, g, Vueltas') /\ Suyos' = Suyos
  BY DEF Guarda, Pone, Suyos, Vueltas, Tipos, EnCamino, Lados
<1> HIDE DEF g
<1>3. Suyos \in Seq(Almacen) /\ Vueltas \in Seq(Almacen) /\ Len(Vueltas) \in Nat
  BY Hechos, Largo
<1>4. /\ Vueltas' \in Seq(Almacen) /\ Vueltas'[Len(Vueltas) + 1] = g
      /\ LasDe(Vueltas', c) = LasDe(Vueltas, c) \cup {Len(Vueltas) + 1}
      /\ \A d : d # c => LasDe(Vueltas', d) = LasDe(Vueltas, d)
      /\ \A d : \A i \in LasDe(Vueltas, d) : Vueltas'[i] = Vueltas[i]
  <2>1. Vueltas' \in Seq(Almacen)
    BY <1>1, <1>2, <1>3, AlFinal
  <2>2. Vueltas'[Len(Vueltas) + 1] = g
    BY <1>1, <1>2, <1>3, AlFinal
  <2>3. LasDe(Vueltas', g.campo) = LasDe(Vueltas, g.campo) \cup {Len(Vueltas) + 1}
    BY <1>1, <1>2, <1>3, AlFinal
  <2>4. \A d : d # g.campo => LasDe(Vueltas', d) = LasDe(Vueltas, d)
    BY <1>1, <1>2, <1>3, AlFinal
  <2>5. \A d : \A i \in LasDe(Vueltas, d) : Vueltas'[i] = Vueltas[i] /\ i < Len(Vueltas) + 1
    BY <1>1, <1>2, <1>3, AlFinal
  <2> QED
    BY <1>1, <2>1, <2>2, <2>3, <2>4, <2>5
<1>5. EnCamino'
  <2>1. buf' = [buf EXCEPT !["esc"] = Vueltas']
    BY DEF Guarda, Vueltas, Tipos, EnCamino, Lados
  <2> QED
    BY <1>4, <2>1 DEF Tipos, EnCamino, Lados
<1>6. UnEscritor'
  <2>1. \A i \in LasDe(Vueltas', vuelta) : Vueltas'[i].valor \in 0 .. 2
    BY <1>1, <1>4 DEF Tipos, UnEscritor
  <2>2. \A i \in LasDe(Vueltas', duerme) : Vueltas'[i].valor \in 0 .. 1
    BY <1>1, <1>4 DEF Tipos, UnEscritor
  <2> QED
    BY <1>2, <1>4, <2>1, <2>2 DEF Tipos, UnEscritor
<1>7. Lee("esc", c)' = v
  <2>1. Ultima(mem, Vueltas', c) = v
    BY <1>1, <1>2, <1>3, UltimaAlFinal
  <2> QED
    BY <2>1, LeeUltima DEF Vueltas
<1> QED
  BY <1>2, <1>5, <1>6, <1>7

(* A side whose stores are in memory sees the memory. *)
LEMMA Vacio ==
  ASSUME NEW p, Valla(p)
  PROVE  \A c : LasDe(buf[p], c) = {} /\ Lee(p, c) = mem[c]
<1>1. \A c : LasDe(buf[p], c) = {}
  BY DEF Valla, LasDe
<1> QED
  BY <1>1, LeeUltima, UltimaNinguna

(* What the desktop does does not reach the app. *)
LEMMA AppQuieta ==
  ASSUME Tipos, LaApp, UNCHANGED app, Suyos' = Suyos,
         \A c \in Campos \ {vuelta, duerme} : mem'[c] = mem[c]
  PROVE  LaApp' /\ Propia' = Propia /\ Ranura' = Ranura /\ Publicada' = Publicada
<1>1. Publicada' = Publicada
  BY Palabras DEF Publicada
<1>2. \A c \in Campos \ {vuelta, duerme} : Lee("app", c)' = Lee("app", c)
  BY LeeUltima, UltimaAjena DEF Suyos
<1>3. Propia' = Propia /\ Ranura' = Ranura
  BY <1>2, Palabras DEF Propia, Ranura
<1>4. UnaSecuencia'
  BY <1>1 DEF LaApp, UnaSecuencia
<1>5. DatosDeLaSiguiente'
  BY <1>1, Palabras DEF LaApp, DatosDeLaSiguiente
<1>6. SiguienteEntera' /\ PublicadaEntera'
  BY <1>1, Hechos, DosRanuras, Palabras DEF LaApp, SiguienteEntera, PublicadaEntera
<1>7. SellosAlDia'
  BY <1>2, <1>3, Palabras DEF LaApp, SellosAlDia, Dentro
<1> QED
  BY <1>1, <1>3, <1>4, <1>5, <1>6, <1>7 DEF LaApp

----------------------------------------------------------------------------
(* The parts of a step that every action has. *)
LEMMA LeeApp ==
  /\ \A c : Lee("app", c) = Ultima(mem, Suyos, c)
  /\ \A c : Lee("app", c)' = Ultima(mem', Suyos', c)
  /\ Propia = Ultima(mem, Suyos, secuencia)
  /\ Propia' = Ultima(mem', Suyos', secuencia)
<1>1. \A c : Lee("app", c) = Ultima(mem, Suyos, c)
  BY LeeUltima DEF Suyos
<1>2. \A c : Lee("app", c)' = Ultima(mem', Suyos', c)
  BY LeeUltima DEF Suyos
<1> QED
  BY <1>1, <1>2 DEF Propia

LEMMA LeeEsc ==
  \A c : /\ Lee("esc", c) = Ultima(mem, Vueltas, c)
         /\ Lee("esc", c)' = Ultima(mem', Vueltas', c)
  BY LeeUltima DEF Vueltas

LEMMA TiposSiguen ==
  ASSUME Tipos, EnCamino', UnEscritor', app' \in App, esc' \in Esc,
         mem' \in [Campos -> Nat], mem'[vuelta] \in 0 .. 2, mem'[duerme] \in 0 .. 1,
         dibujado' \in [s : Nat, a : Nat, b : Nat]
  PROVE  Tipos'
<1>1. \A p \in Lados : \A g \in Range(buf'[p]) : g.campo \in Campos /\ g.valor \in Nat
  BY TiposDe DEF EnCamino
<1> QED
  BY <1>1 DEF Tipos, TypeOK

LEMMA AppPaso ==
  ASSUME Tipos, NEW desde, NEW hasta, App_(desde, hasta),
         hasta \in {"libre", "vuelta", "rellena", "acaba", "publica", "timbre",
                    "despierta", "muerta"}
  PROVE  app' \in App /\ app.pc = desde /\ app'.pc = hasta /\ app'.timbre = app.timbre
  BY DEF Tipos, TypeOK, App, App_

(* A step of the app disturbs the desktop only if it gets into the slot    *)
(* that is lent.                                                           *)
LEMMA EscQuieto ==
  ASSUME Tipos, ElEscritorio, UNCHANGED <<mem, esc>>, Vueltas' = Vueltas,
         app'.timbre = app.timbre, NoWakeLost',
         Reservada => /\ ~(app'.pc \in {"rellena", "acaba"} /\ Ranura' = ranura)
                      /\ \A c \in Datos(ranura) : LasDe(Suyos', c) = {}
  PROVE  ElEscritorio'
<1>1. \A c : Lee("esc", c)' = Lee("esc", c)
  BY LeeUltima DEF Vueltas
<1>2. PrestamoFirme'
  BY <1>1 DEF ElEscritorio, PrestamoFirme, Reservada, EnPrestamo, ranura
<1>3. CopiaFirme' /\ FrameIsWhole'
  BY DEF ElEscritorio, CopiaFirme, FrameIsWhole, Publicada
<1>4. SuenoFirme'
  BY <1>1 DEF ElEscritorio, SuenoFirme
<1> QED
  BY <1>2, <1>3, <1>4 DEF ElEscritorio

(* The app changes a seal, and is not (or no more) writing words. *)
LEMMA SelloNuevo ==
  ASSUME Tipos, LaApp, NEW k0 \in Ranuras, NEW v \in Nat,
         Guarda("app", sello(k0), v), UNCHANGED mem
  PROVE  /\ EnCamino' /\ UnEscritor' /\ Vueltas' = Vueltas
         /\ Publicada' = Publicada /\ Propia' = Propia /\ Ranura' = Ranura
         /\ DatosDeLaSiguiente' /\ PublicadaEntera'
         /\ LasDe(Suyos', secuencia) = LasDe(Suyos, secuencia)
         /\ \A i \in LasDe(Suyos, secuencia) : Suyos'[i] = Suyos[i]
         /\ \A k \in Ranuras : \A c \in Datos(k) : LasDe(Suyos', c) = LasDe(Suyos, c)
         /\ Lee("app", sello(k0))' = v
         /\ \A k \in Ranuras \ {k0} : Lee("app", sello(k))' = Lee("app", sello(k))
<1>1. sello(k0) \in Campos \ {vuelta, duerme}
  BY Palabras
<1>2. /\ EnCamino' /\ UnEscritor' /\ Vueltas' = Vueltas
      /\ LasDe(Suyos', sello(k0)) = LasDe(Suyos, sello(k0)) \cup {Len(Suyos) + 1}
      /\ \A d : d # sello(k0) => LasDe(Suyos', d) = LasDe(Suyos, d)
      /\ \A d : \A i \in LasDe(Suyos, d) : Suyos'[i] = Suyos[i] /\ i < Len(Suyos) + 1
      /\ Ultima(mem', Suyos', sello(k0)) = v
      /\ \A d : d # sello(k0) => Ultima(mem', Suyos', d) = Ultima(mem, Suyos, d)
  BY <1>1, GuardaApp
<1>3. Publicada' = Publicada /\ Propia' = Propia /\ Ranura' = Ranura
  BY <1>2, LeeApp, Palabras DEF Publicada, Ranura
<1>4. LasDe(Suyos', secuencia) = LasDe(Suyos, secuencia)
  BY <1>2, Palabras
<1>5. \A k \in Ranuras : \A c \in Datos(k) : LasDe(Suyos', c) = LasDe(Suyos, c)
  BY <1>2, Palabras
<1>6. DatosDeLaSiguiente'
  <2> SUFFICES ASSUME NEW k \in Ranuras, NEW c \in Datos(k), NEW i \in LasDe(Suyos, c)
               PROVE  /\ Suyos'[i].valor = Publicada + 1 /\ k = ranura_publicada(Publicada + 1)
                      /\ mem[sello(k)] % 2 = 1
                      /\ \A j \in LasDe(Suyos', secuencia) \cup LasDe(Suyos', sello(k)) : i < j
    BY <1>3, <1>5 DEF DatosDeLaSiguiente
  <2>1. /\ Suyos[i].valor = Publicada + 1 /\ k = ranura_publicada(Publicada + 1)
        /\ mem[sello(k)] % 2 = 1
        /\ \A j \in LasDe(Suyos, secuencia) \cup LasDe(Suyos, sello(k)) : i < j
    BY DEF LaApp, DatosDeLaSiguiente
  <2>2. Suyos'[i] = Suyos[i] /\ i < Len(Suyos) + 1
    BY <1>2
  <2>3. LasDe(Suyos', sello(k)) \subseteq LasDe(Suyos, sello(k)) \cup {Len(Suyos) + 1}
    BY <1>2
  <2> QED
    BY <1>4, <2>1, <2>2, <2>3
<1>7. PublicadaEntera'
  BY <1>3 DEF LaApp, PublicadaEntera
<1>8. /\ Lee("app", sello(k0))' = v
      /\ \A k \in Ranuras \ {k0} : Lee("app", sello(k))' = Lee("app", sello(k))
  BY <1>2, LeeApp, Palabras
<1> QED
  BY <1>2, <1>3, <1>4, <1>5, <1>6, <1>7, <1>8

----------------------------------------------------------------------------
(* The app. *)
LEMMA EmpiezaIInv ==
  ASSUME IInv, Empieza
  PROVE  IInv'
<1>1. Tipos /\ LaApp /\ ElEscritorio
  BY DEF IInv
<1>2. /\ app' \in App /\ app.pc = "libre" /\ app'.pc = "vuelta"
      /\ app'.timbre = app.timbre
  BY <1>1, AppPaso DEF Empieza
<1>3. Ranura \in Ranuras /\ Lee("app", sello(Ranura)) \in Nat
  BY <1>1, LaPropia, LeeApp, Hechos, Palabras, UltimaNat DEF LaApp
<1>4. Lee("app", sello(Ranura)) % 2 = 0
      /\ \A k \in Ranuras : Lee("app", sello(k)) % 2 # 1
  <2>1. \A k \in Ranuras : Lee("app", sello(k)) % 2 # 1
    BY <1>1, <1>2 DEF LaApp, SellosAlDia, Dentro
  <2> QED
    BY <1>3, <2>1
<1> DEFINE v == Lee("app", sello(Ranura)) + 1
<1>5. v \in Nat /\ v % 2 = 1 /\ Guarda("app", sello(Ranura), v) /\ UNCHANGED <<mem, esc, dibujado>>
  BY <1>3, <1>4 DEF Empieza
<1> HIDE DEF v
<1>6. /\ EnCamino' /\ UnEscritor' /\ Vueltas' = Vueltas
      /\ Publicada' = Publicada /\ Propia' = Propia /\ Ranura' = Ranura
      /\ DatosDeLaSiguiente' /\ PublicadaEntera'
      /\ LasDe(Suyos', secuencia) = LasDe(Suyos, secuencia)
      /\ \A i \in LasDe(Suyos, secuencia) : Suyos'[i] = Suyos[i]
      /\ \A k \in Ranuras : \A c \in Datos(k) : LasDe(Suyos', c) = LasDe(Suyos, c)
      /\ Lee("app", sello(Ranura))' = v
      /\ \A k \in Ranuras \ {Ranura} : Lee("app", sello(k))' = Lee("app", sello(k))
  BY <1>1, <1>3, <1>5, SelloNuevo
<1>7. Tipos'
  BY <1>1, <1>2, <1>5, <1>6, TiposSiguen DEF Tipos, TypeOK
<1>8. UnaSecuencia' /\ SiguienteEntera'
  BY <1>1, <1>2, <1>5, <1>6, Hechos, DosRanuras DEF LaApp, UnaSecuencia, SiguienteEntera
<1>9. SellosAlDia'
  BY <1>2, <1>4, <1>5, <1>6 DEF SellosAlDia, Dentro
<1>10. ElEscritorio'
  <2>1. NoWakeLost'
    BY <1>1, <1>2, <1>5 DEF ElEscritorio, NoWakeLost
  <2>2. Reservada => \A c \in Datos(ranura) : LasDe(Suyos', c) = {}
    BY <1>1, <1>6, Hechos DEF ElEscritorio, PrestamoFirme
  <2> QED
    BY <1>1, <1>2, <1>5, <1>6, <2>1, <2>2, EscQuieto
<1> QED
  BY <1>6, <1>7, <1>8, <1>9, <1>10 DEF IInv, LaApp

LEMMA MiraVueltaIInv ==
  ASSUME IInv, MiraVuelta
  PROVE  IInv'
<1>1. Tipos /\ LaApp /\ ElEscritorio /\ UNCHANGED <<mem, esc, dibujado>>
  BY DEF IInv, MiraVuelta
<1>2. Ranura \in Ranuras /\ Lee("app", sello(Ranura)) \in Nat
  BY <1>1, LaPropia, LeeApp, Hechos, Palabras, UltimaNat DEF LaApp
<1>3. \A c : LasDe(Suyos, c) = {} /\ Lee("app", c) = mem[c]
  BY Vacio DEF MiraVuelta, Suyos
<1>4. CASE Prestada(Ranura)
  <2> DEFINE v == Lee("app", sello(Ranura)) - 1
  <2>1. /\ app' \in App /\ app.pc = "vuelta" /\ app'.pc = "libre"
        /\ app'.timbre = app.timbre
    BY <1>1, <1>4, AppPaso DEF MiraVuelta
  <2>2. Lee("app", sello(Ranura)) % 2 = 1
        /\ \A k \in Ranuras \ {Ranura} : Lee("app", sello(k)) % 2 # 1
    BY <1>1, <1>2, <2>1 DEF LaApp, SellosAlDia, Dentro
  <2>3. v \in Nat /\ v % 2 # 1 /\ Guarda("app", sello(Ranura), v)
    BY <1>2, <1>4, <2>2 DEF MiraVuelta
  <2> HIDE DEF v
  <2>4. /\ EnCamino' /\ UnEscritor' /\ Vueltas' = Vueltas
        /\ Publicada' = Publicada /\ Propia' = Propia /\ Ranura' = Ranura
        /\ DatosDeLaSiguiente' /\ PublicadaEntera'
        /\ LasDe(Suyos', secuencia) = LasDe(Suyos, secuencia)
        /\ \A k \in Ranuras : \A c \in Datos(k) : LasDe(Suyos', c) = LasDe(Suyos, c)
        /\ Lee("app", sello(Ranura))' = v
        /\ \A k \in Ranuras \ {Ranura} : Lee("app", sello(k))' = Lee("app", sello(k))
    BY <1>1, <1>2, <2>3, SelloNuevo
  <2>5. Tipos'
    BY <1>1, <2>1, <2>4, TiposSiguen DEF Tipos, TypeOK
  <2>6. UnaSecuencia' /\ SiguienteEntera'
    BY <1>3, <2>1, <2>4 DEF UnaSecuencia, SiguienteEntera
  <2>7. SellosAlDia'
    BY <2>1, <2>2, <2>3, <2>4 DEF SellosAlDia, Dentro
  <2>8. ElEscritorio'
    <3>1. NoWakeLost'
      BY <1>1, <2>1 DEF ElEscritorio, NoWakeLost
    <3>2. Reservada => \A c \in Datos(ranura) : LasDe(Suyos', c) = {}
      BY <1>1, <1>3, <2>4, Hechos
    <3> QED
      BY <1>1, <2>1, <2>4, <3>1, <3>2, EscQuieto
  <2> QED
    BY <2>4, <2>5, <2>6, <2>7, <2>8 DEF IInv, LaApp
<1>5. CASE ~Prestada(Ranura)
  <2>1. /\ app' \in App /\ app.pc = "vuelta" /\ app'.pc = "rellena"
        /\ app'.timbre = app.timbre
    BY <1>1, <1>5, AppPaso DEF MiraVuelta
  <2>2. UNCHANGED buf /\ Suyos' = Suyos /\ Vueltas' = Vueltas
    BY <1>5 DEF MiraVuelta, Suyos, Vueltas
  <2>3. /\ Publicada' = Publicada /\ Propia' = Propia /\ Ranura' = Ranura
        /\ \A c : Lee("app", c)' = Lee("app", c)
    BY <1>1, <2>2, LeeApp DEF Publicada, Ranura
  <2>4. EnCamino' /\ UnEscritor'
    BY <1>1, <2>2 DEF Tipos, EnCamino, UnEscritor
  <2>5. Tipos'
    BY <1>1, <2>1, <2>4, TiposSiguen DEF Tipos, TypeOK
  <2>6. UnaSecuencia' /\ SiguienteEntera' /\ DatosDeLaSiguiente' /\ PublicadaEntera'
    BY <1>1, <1>3, <2>1, <2>2, <2>3, Palabras
       DEF LaApp, UnaSecuencia, SiguienteEntera, DatosDeLaSiguiente, PublicadaEntera
  <2>7. SellosAlDia'
    BY <1>1, <1>3, <2>1, <2>2, <2>3 DEF LaApp, SellosAlDia, Dentro
  <2>8. ElEscritorio'
    <3>1. NoWakeLost'
      BY <1>1, <2>1 DEF ElEscritorio, NoWakeLost
    <3>2. Reservada => Ranura' # ranura
      BY <1>1, <1>3, <1>5, <2>3 DEF ElEscritorio, PrestamoFirme, Prestada
    <3>3. Reservada => \A c \in Datos(ranura) : LasDe(Suyos', c) = {}
      BY <1>3, <2>2
    <3> QED
      BY <1>1, <2>1, <2>2, <3>1, <3>2, <3>3, EscQuieto
  <2> QED
    BY <2>5, <2>6, <2>7, <2>8 DEF IInv, LaApp
<1> QED
  BY <1>4, <1>5

(* The two words of a frame, one after the other. *)
LEMMA DosPone ==
  ASSUME NEW b \in Seq(Almacen), NEW g1 \in Almacen, NEW g2 \in Almacen,
         NEW b2, b2 = b \o <<g1, g2>>
  PROVE  \E b1 : Pone(b, g1, b1) /\ Pone(b1, g2, b2)
<1>0. <<g1>> \in Seq(Almacen) /\ <<g2>> \in Seq(Almacen)
  OBVIOUS
<1>1. <<g1, g2>> = <<g1>> \o <<g2>>
  <2> DEFINE t == <<g1>> \o <<g2>>
             u == <<g1, g2>>
  <2>1. Len(<<g1>>) = 1 /\ Len(<<g2>>) = 1 /\ <<g1>>[1] = g1 /\ <<g2>>[1] = g2
    OBVIOUS
  <2>2. /\ t \in Seq(Almacen) /\ Len(t) = Len(<<g1>>) + Len(<<g2>>)
        /\ \A i \in 1 .. Len(<<g1>>) + Len(<<g2>>) :
             t[i] = IF i <= Len(<<g1>>) THEN <<g1>>[i] ELSE <<g2>>[i - Len(<<g1>>)]
    BY <1>0, ConcatProperties
  <2>3. u \in Seq(Almacen) /\ Len(u) = 2 /\ u[1] = g1 /\ u[2] = g2
    OBVIOUS
  <2> HIDE DEF t, u
  <2>4. Len(t) = 2 /\ t[1] = g1 /\ t[2] = g2
    BY <2>1, <2>2
  <2>5. t = u
    <3>1. \A i \in 1 .. Len(t) : t[i] = u[i]
      BY <2>3, <2>4
    <3>2. Len(t) = Len(u)
      BY <2>3, <2>4
    <3> QED
      BY <2>2, <2>3, <3>1, <3>2, SeqEqual
  <2> QED
    BY <2>5 DEF t, u
<1>2. Append(b, g1) \in Seq(Almacen) /\ Append(b, g1) = b \o <<g1>>
  BY AppendProperties, AppendIsConcat
<1>3. Append(Append(b, g1), g2) = Append(b, g1) \o <<g2>>
  BY <1>2, AppendIsConcat, Zenon
<1>4. (b \o <<g1>>) \o <<g2>> = b \o (<<g1>> \o <<g2>>)
  BY <1>0, ConcatAssociative
<1>5. b2 = Append(Append(b, g1), g2)
  BY <1>1, <1>2, <1>3, <1>4, Zenon
<1> QED
  BY <1>5, Zenon DEF Pone

LEMMA DosAlFinal ==
  ASSUME NEW b \in Seq(Almacen), NEW g1 \in Almacen, NEW g2 \in Almacen,
         g1.campo # g2.campo, NEW b1, NEW b2, Pone(b, g1, b1), Pone(b1, g2, b2)
  PROVE  /\ b2 \in Seq(Almacen)
         /\ LasDe(b2, g1.campo) = LasDe(b, g1.campo) \cup {Len(b) + 1}
         /\ LasDe(b2, g2.campo) = LasDe(b, g2.campo) \cup {Len(b) + 2}
         /\ b2[Len(b) + 1] = g1 /\ b2[Len(b) + 2] = g2
         /\ \A c : c \notin {g1.campo, g2.campo} => LasDe(b2, c) = LasDe(b, c)
         /\ \A c : \A i \in LasDe(b, c) : b2[i] = b[i]
         /\ \A m, c : c \notin {g1.campo, g2.campo} => Ultima(m, b2, c) = Ultima(m, b, c)
<1>2. Len(b1) = Len(b) + 1 /\ Len(b) \in Nat
  BY AppendProperties, Largo DEF Pone
<1>3. /\ b1 \in Seq(Almacen) /\ b1[Len(b) + 1] = g1
      /\ LasDe(b1, g1.campo) = LasDe(b, g1.campo) \cup {Len(b) + 1}
      /\ \A c : c # g1.campo => LasDe(b1, c) = LasDe(b, c)
      /\ \A c : \A i \in LasDe(b, c) : b1[i] = b[i]
  <2>1. \A c : \A i \in LasDe(b, c) : b1[i] = b[i]
    BY AlFinal
  <2>2. b1 \in Seq(Almacen) /\ b1[Len(b) + 1] = g1
    BY AlFinal
  <2>3. LasDe(b1, g1.campo) = LasDe(b, g1.campo) \cup {Len(b) + 1}
    BY AlFinal
  <2>4. \A c : c # g1.campo => LasDe(b1, c) = LasDe(b, c)
    BY AlFinal
  <2> QED
    BY <2>1, <2>2, <2>3, <2>4
<1>4. /\ b2 \in Seq(Almacen) /\ b2[Len(b) + 2] = g2
      /\ LasDe(b2, g2.campo) = LasDe(b1, g2.campo) \cup {Len(b) + 2}
      /\ \A c : c # g2.campo => LasDe(b2, c) = LasDe(b1, c)
      /\ \A c : \A i \in LasDe(b1, c) : b2[i] = b1[i]
  <2>1. Len(b1) + 1 = Len(b) + 2
    BY <1>2
  <2>2. b2 \in Seq(Almacen) /\ b2[Len(b1) + 1] = g2
    BY <1>3, AlFinal
  <2>3. LasDe(b2, g2.campo) = LasDe(b1, g2.campo) \cup {Len(b1) + 1}
    BY <1>3, AlFinal
  <2>4. \A c : c # g2.campo => LasDe(b2, c) = LasDe(b1, c)
    BY <1>3, AlFinal
  <2>5. \A c : \A i \in LasDe(b1, c) : b2[i] = b1[i]
    BY <1>3, AlFinal
  <2> QED
    BY <2>1, <2>2, <2>3, <2>4, <2>5
<1>5. b2[Len(b) + 1] = g1
  BY <1>3, <1>4
<1>6. \A c : \A i \in LasDe(b, c) : b2[i] = b[i]
  <2> SUFFICES ASSUME NEW c, NEW i \in LasDe(b, c) PROVE b2[i] = b[i]
    OBVIOUS
  <2>1. i \in LasDe(b1, c)
    BY <1>3
  <2> QED
    BY <1>3, <1>4, <2>1
<1>7. \A m, c : c \notin {g1.campo, g2.campo} => Ultima(m, b2, c) = Ultima(m, b, c)
  <2> SUFFICES ASSUME NEW m, NEW c, c \notin {g1.campo, g2.campo}
               PROVE  Ultima(m, b2, c) = Ultima(m, b, c)
    OBVIOUS
  <2>1. Ultima(m, b1, c) = Ultima(m, b, c)
    BY UltimaAlFinal
  <2>2. Ultima(m, b2, c) = Ultima(m, b1, c)
    BY <1>3, UltimaAlFinal
  <2> QED
    BY <2>1, <2>2
<1> QED
  BY <1>3, <1>4, <1>5, <1>6, <1>7

LEMMA RellenaIInv ==
  ASSUME IInv, Rellena
  PROVE  IInv'
<1>1. Tipos /\ LaApp /\ ElEscritorio /\ UNCHANGED <<mem, esc, dibujado>>
  BY DEF IInv, Rellena
<1>2. /\ app' \in App /\ app.pc = "rellena" /\ app'.pc = "acaba"
      /\ app'.timbre = app.timbre
  BY <1>1, AppPaso DEF Rellena
<1>3. /\ LasDe(Suyos, secuencia) = {}
      /\ \A k \in Ranuras : LasDe(Suyos, sello(k)) = {}
  BY <1>1, <1>2 DEF LaApp, UnaSecuencia, SellosAlDia
<1>4. /\ Propia = Publicada /\ Publicada \in Nat
      /\ Ranura \in Ranuras /\ Ranura = ranura_publicada(Publicada + 1)
  BY <1>1, <1>3, LaPropia, Hechos DEF LaApp
<1> DEFINE g(i) == [campo |-> dato(i, Ranura), valor |-> Propia + 1]
           g1 == g("a")
           g2 == g("b")
<1>5. /\ g1 \in Almacen /\ g2 \in Almacen /\ g1.campo # g2.campo
      /\ Datos(Ranura) = {g1.campo, g2.campo}
      /\ g1.valor = Publicada + 1 /\ g2.valor = Publicada + 1
  <2>1. dato("a", Ranura) # dato("b", Ranura)
    BY DEF dato
  <2>2. dato("a", Ranura) \in Campos /\ dato("b", Ranura) \in Campos
    BY <1>4, Palabras DEF Datos
  <2> QED
    BY <1>4, <2>1, <2>2 DEF Almacen, Datos
<1>6. Suyos' = Suyos \o <<g1, g2>> /\ Vueltas' = Vueltas
  BY <1>1 DEF Rellena, Suyos, Vueltas, Tipos, EnCamino, Lados
<1> HIDE DEF g, g1, g2
<1>7. /\ Suyos' \in Seq(Almacen)
      /\ LasDe(Suyos', g1.campo) = LasDe(Suyos, g1.campo) \cup {Len(Suyos) + 1}
      /\ LasDe(Suyos', g2.campo) = LasDe(Suyos, g2.campo) \cup {Len(Suyos) + 2}
      /\ Suyos'[Len(Suyos) + 1] = g1 /\ Suyos'[Len(Suyos) + 2] = g2
      /\ \A c : c \notin Datos(Ranura) => LasDe(Suyos', c) = LasDe(Suyos, c)
      /\ \A c : \A i \in LasDe(Suyos, c) : Suyos'[i] = Suyos[i]
      /\ \A m, c : c \notin Datos(Ranura) => Ultima(m, Suyos', c) = Ultima(m, Suyos, c)
  <2>1. PICK b1 : Pone(Suyos, g1, b1) /\ Pone(b1, g2, Suyos')
    BY <1>1, <1>5, <1>6, Hechos, DosPone
  <2>0. Suyos \in Seq(Almacen) /\ g1 \in Almacen /\ g2 \in Almacen /\ g1.campo # g2.campo
    BY <1>1, <1>5, Hechos
  <2>2. Suyos' \in Seq(Almacen)
    BY <2>0, <2>1, DosAlFinal
  <2>6. LasDe(Suyos', g1.campo) = LasDe(Suyos, g1.campo) \cup {Len(Suyos) + 1}
    BY <2>0, <2>1, DosAlFinal
  <2>8. LasDe(Suyos', g2.campo) = LasDe(Suyos, g2.campo) \cup {Len(Suyos) + 2}
    BY <2>0, <2>1, DosAlFinal
  <2>7. Suyos'[Len(Suyos) + 1] = g1 /\ Suyos'[Len(Suyos) + 2] = g2
    BY <2>0, <2>1, DosAlFinal
  <2>3. \A c : c \notin {g1.campo, g2.campo} => LasDe(Suyos', c) = LasDe(Suyos, c)
    BY <2>0, <2>1, DosAlFinal
  <2>4. \A c : \A i \in LasDe(Suyos, c) : Suyos'[i] = Suyos[i]
    BY <2>0, <2>1, DosAlFinal
  <2>5. \A m, c : c \notin {g1.campo, g2.campo} =>
             Ultima(m, Suyos', c) = Ultima(m, Suyos, c)
    BY <2>0, <2>1, DosAlFinal
  <2> QED
    BY <1>5, <2>2, <2>3, <2>4, <2>5, <2>6, <2>7, <2>8
<1>8. \A c : c \notin Datos(Ranura) => Lee("app", c)' = Lee("app", c)
  BY <1>1, <1>7, LeeApp
<1>9. Publicada' = Publicada /\ Propia' = Propia /\ Ranura' = Ranura
  BY <1>1, <1>4, <1>8, Palabras DEF Publicada, Propia, Ranura
<1>10. Tipos'
  <2>1. EnCamino'
    <3>1. buf' = [buf EXCEPT !["app"] = Suyos']
      BY <1>1 DEF Rellena, Suyos, Tipos, EnCamino, Lados
    <3> QED
      BY <1>1, <1>7, <3>1 DEF Tipos, EnCamino, Lados
  <2>2. UnEscritor'
    BY <1>1, <1>4, <1>6, <1>7, Palabras DEF Tipos, UnEscritor
  <2> QED
    BY <1>1, <1>2, <2>1, <2>2, TiposSiguen DEF Tipos, TypeOK
<1>11. UnaSecuencia'
  BY <1>3, <1>4, <1>7, Palabras DEF UnaSecuencia
<1>12. DatosDeLaSiguiente'
  <2> SUFFICES ASSUME NEW k \in Ranuras, NEW c \in Datos(k), NEW i \in LasDe(Suyos', c)
               PROVE  /\ Suyos'[i].valor = Publicada + 1 /\ k = ranura_publicada(Publicada + 1)
                      /\ mem[sello(k)] % 2 = 1
                      /\ \A j \in LasDe(Suyos', secuencia) \cup LasDe(Suyos', sello(k)) : i < j
    BY <1>1, <1>9 DEF DatosDeLaSiguiente
  <2>1. LasDe(Suyos', secuencia) = {} /\ LasDe(Suyos', sello(k)) = {}
    BY <1>3, <1>4, <1>7, Palabras
  <2>2. CASE i \in LasDe(Suyos, c)
    <3>1. /\ Suyos[i].valor = Publicada + 1 /\ k = ranura_publicada(Publicada + 1)
          /\ mem[sello(k)] % 2 = 1
      BY <1>1, <2>2 DEF LaApp, DatosDeLaSiguiente
    <3> QED
      BY <1>7, <2>1, <2>2, <3>1
  <2>3. CASE i \notin LasDe(Suyos, c)
    <3>1. c \in Datos(Ranura)
      BY <1>7, <2>3
    <3>2. k = Ranura
      BY <1>4, <3>1, Palabras
    <3>3. Suyos'[i].valor = Publicada + 1
      BY <1>5, <1>7, <2>3, <3>1
    <3>4. mem[sello(k)] % 2 = 1
      <4>1. Lee("app", sello(k)) % 2 = 1
        BY <1>1, <1>2, <3>2 DEF LaApp, SellosAlDia, Dentro
      <4>2. Lee("app", sello(k)) = mem[sello(k)]
        BY <1>3, LeeApp, UltimaNinguna
      <4> QED
        BY <4>1, <4>2
    <3> QED
      BY <1>4, <2>1, <3>2, <3>3, <3>4
  <2> QED
    BY <2>2, <2>3
<1>13. SiguienteEntera'
  BY <1>4, <1>5, <1>7, <1>9 DEF SiguienteEntera
<1>14. PublicadaEntera'
  BY <1>1, <1>9 DEF LaApp, PublicadaEntera
<1>15. SellosAlDia'
  <2>1. \A k \in Ranuras : sello(k) \notin Datos(Ranura)
    BY <1>4, Palabras
  <2> QED
    BY <1>1, <1>2, <1>3, <1>7, <1>8, <1>9, <2>1 DEF LaApp, SellosAlDia, Dentro
<1>16. ElEscritorio'
  <2>1. NoWakeLost'
    BY <1>1, <1>2 DEF ElEscritorio, NoWakeLost
  <2>2. Reservada => Ranura # ranura
    BY <1>1, <1>2 DEF ElEscritorio, PrestamoFirme
  <2>3. Reservada => \A c \in Datos(ranura) : LasDe(Suyos', c) = {}
    <3>1. Reservada => \A c \in Datos(ranura) : c \notin Datos(Ranura)
      BY <1>1, <1>4, <2>2, Hechos, Palabras
    <3> QED
      BY <1>1, <1>7, <3>1 DEF ElEscritorio, PrestamoFirme
  <2> QED
    BY <1>1, <1>2, <1>6, <1>9, <2>1, <2>2, <2>3, EscQuieto
<1> QED
  BY <1>10, <1>11, <1>12, <1>13, <1>14, <1>15, <1>16 DEF IInv, LaApp

LEMMA AcabaIInv ==
  ASSUME IInv, Acaba
  PROVE  IInv'
<1>1. Tipos /\ LaApp /\ ElEscritorio
  BY DEF IInv
<1>2. /\ app' \in App /\ app.pc = "acaba" /\ app'.pc = "publica"
      /\ app'.timbre = app.timbre
  BY <1>1, AppPaso DEF Acaba
<1>3. Ranura \in Ranuras /\ Lee("app", sello(Ranura)) \in Nat
  BY <1>1, LaPropia, LeeApp, Hechos, Palabras, UltimaNat DEF LaApp
<1>4. Lee("app", sello(Ranura)) % 2 = 1
      /\ \A k \in Ranuras \ {Ranura} : Lee("app", sello(k)) % 2 # 1
  BY <1>1, <1>2, <1>3 DEF LaApp, SellosAlDia, Dentro
<1> DEFINE v == Lee("app", sello(Ranura)) + 1
<1>5. v \in Nat /\ v % 2 # 1 /\ Guarda("app", sello(Ranura), v) /\ UNCHANGED <<mem, esc, dibujado>>
  BY <1>3, <1>4 DEF Acaba
<1> HIDE DEF v
<1>6. /\ EnCamino' /\ UnEscritor' /\ Vueltas' = Vueltas
      /\ Publicada' = Publicada /\ Propia' = Propia /\ Ranura' = Ranura
      /\ DatosDeLaSiguiente' /\ PublicadaEntera'
      /\ LasDe(Suyos', secuencia) = LasDe(Suyos, secuencia)
      /\ \A i \in LasDe(Suyos, secuencia) : Suyos'[i] = Suyos[i]
      /\ \A k \in Ranuras : \A c \in Datos(k) : LasDe(Suyos', c) = LasDe(Suyos, c)
      /\ Lee("app", sello(Ranura))' = v
      /\ \A k \in Ranuras \ {Ranura} : Lee("app", sello(k))' = Lee("app", sello(k))
  BY <1>1, <1>3, <1>5, SelloNuevo
<1>7. Tipos'
  BY <1>1, <1>2, <1>5, <1>6, TiposSiguen DEF Tipos, TypeOK
<1>8. UnaSecuencia' /\ SiguienteEntera'
  BY <1>1, <1>2, <1>5, <1>6, Hechos, DosRanuras DEF LaApp, UnaSecuencia, SiguienteEntera
<1>9. SellosAlDia'
  BY <1>2, <1>4, <1>5, <1>6 DEF SellosAlDia, Dentro
<1>10. ElEscritorio'
  <2>1. NoWakeLost'
    BY <1>1, <1>2, <1>5 DEF ElEscritorio, NoWakeLost
  <2>2. Reservada => \A c \in Datos(ranura) : LasDe(Suyos', c) = {}
    BY <1>1, <1>6, Hechos DEF ElEscritorio, PrestamoFirme
  <2> QED
    BY <1>1, <1>2, <1>5, <1>6, <2>1, <2>2, EscQuieto
<1> QED
  BY <1>6, <1>7, <1>8, <1>9, <1>10 DEF IInv, LaApp

LEMMA PublicaIInv ==
  ASSUME IInv, Publica
  PROVE  IInv'
<1>1. Tipos /\ LaApp /\ ElEscritorio /\ UNCHANGED <<mem, esc, dibujado>>
  BY DEF IInv, Publica
<1>2. /\ app' \in App /\ app.pc = "publica" /\ app'.timbre = app.timbre
      /\ app'.pc = IF app.timbre THEN "timbre" ELSE "libre"
  BY <1>1, AppPaso DEF Publica
<1>3. LasDe(Suyos, secuencia) = {}
  BY <1>1, <1>2 DEF LaApp, UnaSecuencia
<1>4. Propia = Publicada /\ Propia + 1 \in Nat
  BY <1>1, <1>3, LaPropia DEF LaApp
<1>5. /\ EnCamino' /\ UnEscritor' /\ Vueltas' = Vueltas
      /\ LasDe(Suyos', secuencia) = LasDe(Suyos, secuencia) \cup {Len(Suyos) + 1}
      /\ Suyos'[Len(Suyos) + 1].valor = Propia + 1
      /\ \A d : d # secuencia => LasDe(Suyos', d) = LasDe(Suyos, d)
      /\ \A d : \A i \in LasDe(Suyos, d) : Suyos'[i] = Suyos[i] /\ i < Len(Suyos) + 1
      /\ \A d : d # secuencia => Ultima(mem', Suyos', d) = Ultima(mem, Suyos, d)
  <2>1. Guarda("app", secuencia, Propia + 1)
    BY DEF Publica
  <2>2. secuencia \in Campos \ {vuelta, duerme}
    BY Palabras
  <2> QED
    BY <1>1, <1>4, <2>1, <2>2, GuardaApp
<1>6. Publicada' = Publicada /\ UNCHANGED mem
  BY <1>1 DEF Publicada
<1>7. Tipos'
  BY <1>1, <1>2, <1>5, TiposSiguen DEF Tipos, TypeOK
<1>8. UnaSecuencia'
  BY <1>2, <1>3, <1>4, <1>5, <1>6 DEF UnaSecuencia
<1>9. DatosDeLaSiguiente'
  <2> SUFFICES ASSUME NEW k \in Ranuras, NEW c \in Datos(k), NEW i \in LasDe(Suyos', c)
               PROVE  /\ Suyos'[i].valor = Publicada + 1 /\ k = ranura_publicada(Publicada + 1)
                      /\ mem[sello(k)] % 2 = 1
                      /\ \A j \in LasDe(Suyos', secuencia) \cup LasDe(Suyos', sello(k)) : i < j
    BY <1>6 DEF DatosDeLaSiguiente
  <2>1. i \in LasDe(Suyos, c)
    BY <1>5, Palabras
  <2>2. /\ Suyos[i].valor = Publicada + 1 /\ k = ranura_publicada(Publicada + 1)
        /\ mem[sello(k)] % 2 = 1
        /\ \A j \in LasDe(Suyos, secuencia) \cup LasDe(Suyos, sello(k)) : i < j
    BY <1>1, <2>1 DEF LaApp, DatosDeLaSiguiente
  <2>3. LasDe(Suyos', sello(k)) = LasDe(Suyos, sello(k))
    BY <1>5, Palabras
  <2>4. Suyos'[i] = Suyos[i] /\ i < Len(Suyos) + 1
    BY <1>5, <2>1
  <2> QED
    BY <1>3, <1>5, <2>2, <2>3, <2>4
<1>10. SiguienteEntera' /\ PublicadaEntera'
  <2>1. \A c \in Datos(ranura_publicada(Publicada + 1)) : LasDe(Suyos', c) = LasDe(Suyos, c)
    BY <1>4, <1>5, Palabras, DosRanuras
  <2> QED
    BY <1>1, <1>2, <1>6, <2>1 DEF LaApp, SiguienteEntera, PublicadaEntera
<1>11. SellosAlDia'
  <2>1. \A k \in Ranuras : Lee("app", sello(k))' = Lee("app", sello(k))
    BY <1>5, LeeApp, Palabras
  <2> QED
    BY <1>1, <1>2, <2>1 DEF LaApp, SellosAlDia, Dentro
<1>12. ElEscritorio'
  <2>1. NoWakeLost'
    BY <1>1, <1>2 DEF ElEscritorio, NoWakeLost
  <2>2. Reservada => \A c \in Datos(ranura) : LasDe(Suyos', c) = {}
    BY <1>1, <1>5, Hechos, Palabras DEF ElEscritorio, PrestamoFirme
  <2> QED
    BY <1>1, <1>2, <1>5, <2>1, <2>2, EscQuieto
<1> QED
  BY <1>7, <1>8, <1>9, <1>10, <1>11, <1>12 DEF IInv, LaApp

LEMMA HayQuienDuermeIInv ==
  ASSUME IInv, HayQuienDuerme
  PROVE  IInv'
<1>1. Tipos /\ LaApp /\ ElEscritorio /\ UNCHANGED <<mem, buf, esc, dibujado>>
  BY DEF IInv, HayQuienDuerme
<1>2. /\ app' \in App /\ app.pc = "timbre" /\ app'.timbre = app.timbre
      /\ app'.pc = IF Lee("app", duerme) # 0 THEN "despierta" ELSE "libre"
  BY <1>1, AppPaso DEF HayQuienDuerme
<1>3. \A c : LasDe(Suyos, c) = {} /\ Lee("app", c) = mem[c]
  BY Vacio DEF HayQuienDuerme, Suyos
<1>4. Suyos' = Suyos /\ Vueltas' = Vueltas /\ Publicada' = Publicada
      /\ \A c : Lee("app", c)' = Lee("app", c)
  BY <1>1, LeeApp DEF Suyos, Vueltas, Publicada
<1>5. Tipos'
  <2>1. EnCamino' /\ UnEscritor'
    BY <1>1, <1>4 DEF Tipos, EnCamino, UnEscritor
  <2> QED
    BY <1>1, <1>2, <2>1, TiposSiguen DEF Tipos, TypeOK
<1>6. UnaSecuencia' /\ SiguienteEntera' /\ DatosDeLaSiguiente' /\ PublicadaEntera'
  BY <1>1, <1>2, <1>3, <1>4
     DEF LaApp, UnaSecuencia, SiguienteEntera, DatosDeLaSiguiente, PublicadaEntera
<1>7. SellosAlDia'
  BY <1>1, <1>2, <1>4 DEF LaApp, SellosAlDia, Dentro
<1>8. ElEscritorio'
  <2>1. NoWakeLost'
    BY <1>1, <1>2, <1>3 DEF ElEscritorio, SuenoFirme, NoWakeLost
  <2>2. Reservada => \A c \in Datos(ranura) : LasDe(Suyos', c) = {}
    BY <1>3, <1>4
  <2> QED
    BY <1>1, <1>2, <1>4, <2>1, <2>2, EscQuieto
<1> QED
  BY <1>5, <1>6, <1>7, <1>8 DEF IInv, LaApp

LEMMA DespiertaIInv ==
  ASSUME IInv, Despierta
  PROVE  IInv'
<1>1. Tipos /\ LaApp /\ ElEscritorio /\ UNCHANGED <<mem, buf, dibujado>>
  BY DEF IInv, Despierta
<1>2. /\ app' \in App /\ app.pc = "despierta" /\ app'.timbre = app.timbre
      /\ app'.pc = "libre"
  BY <1>1, AppPaso DEF Despierta
<1>3. \A c : LasDe(Suyos, c) = {} /\ Lee("app", c) = mem[c]
  BY Vacio DEF Despierta, Suyos
<1>4. Suyos' = Suyos /\ Vueltas' = Vueltas /\ Publicada' = Publicada
      /\ \A c : Lee("app", c)' = Lee("app", c)
  BY <1>1, LeeApp DEF Suyos, Vueltas, Publicada
<1>5. esc' \in Esc /\ (esc' = esc \/ (esc.pc = "dormido" /\ esc' = [esc EXCEPT !.pc = "despierto"]))
  BY <1>1, Hechos DEF Despierta, Esc
<1>6. Tipos'
  <2>1. EnCamino' /\ UnEscritor'
    BY <1>1, <1>4 DEF Tipos, EnCamino, UnEscritor
  <2> QED
    BY <1>1, <1>2, <1>5, <2>1, TiposSiguen DEF Tipos, TypeOK
<1>7. UnaSecuencia' /\ SiguienteEntera' /\ DatosDeLaSiguiente' /\ PublicadaEntera'
  BY <1>1, <1>2, <1>3, <1>4
     DEF LaApp, UnaSecuencia, SiguienteEntera, DatosDeLaSiguiente, PublicadaEntera
<1>8. SellosAlDia'
  BY <1>1, <1>2, <1>4 DEF LaApp, SellosAlDia, Dentro
<1>9. ElEscritorio'
  <2>1. CASE esc.pc = "dormido"
    <3>1. esc'.pc = "despierto" /\ esc'.prestada = FALSE
      BY <1>1, <1>5, <2>1, Hechos DEF Despierta, Esc, ElEscritorio, PrestamoFirme
    <3> QED
      BY <3>1 DEF ElEscritorio, PrestamoFirme, CopiaFirme, FrameIsWhole, SuenoFirme,
                  NoWakeLost, Reservada, EnPrestamo
  <2>2. CASE esc.pc # "dormido"
    <3>1. esc' = esc /\ NoWakeLost'
      BY <1>5, <2>2 DEF NoWakeLost
    <3>2. Reservada => \A c \in Datos(ranura) : LasDe(Suyos', c) = {}
      BY <1>3, <1>4
    <3> QED
      BY <1>1, <1>2, <1>4, <3>1, <3>2, EscQuieto
  <2> QED
    BY <2>1, <2>2
<1> QED
  BY <1>6, <1>7, <1>8, <1>9 DEF IInv, LaApp

LEMMA MuereIInv ==
  ASSUME IInv, Muere
  PROVE  IInv'
<1>1. Tipos /\ LaApp /\ ElEscritorio /\ UNCHANGED <<mem, esc, dibujado>>
  BY DEF IInv, Muere
<1>2. app' \in App /\ app'.pc = "muerta" /\ app'.timbre = app.timbre
  BY <1>1, Hechos DEF Muere, App
<1>3. Corta(Suyos, Suyos') /\ Vueltas' = Vueltas /\ buf' = [buf EXCEPT !["app"] = Suyos']
  BY <1>1 DEF Muere, Corta, Suyos, Vueltas, Tipos, EnCamino, Lados
<1>4. Suyos' \in Seq(Almacen)
  BY <1>1, <1>3, Hechos, AlCortar
<1>5. \A c : \A i \in LasDe(Suyos', c) : i \in LasDe(Suyos, c) /\ Suyos'[i] = Suyos[i]
  BY <1>1, <1>3, Hechos, AlCortar
<1>6. \A c, d : \A i \in LasDe(Suyos, c), j \in LasDe(Suyos', d) :
         i < j => i \in LasDe(Suyos', c)
  BY <1>1, <1>3, Hechos, AlCortar
<1>7. Publicada' = Publicada
  BY <1>1 DEF Publicada
<1>8. Tipos'
  <2>1. EnCamino'
    BY <1>1, <1>3, <1>4 DEF Tipos, EnCamino, Lados
  <2>2. UnEscritor'
    BY <1>1, <1>3, <1>5 DEF Tipos, UnEscritor
  <2> QED
    BY <1>1, <1>2, <2>1, <2>2, TiposSiguen DEF Tipos, TypeOK
<1>9. UnaSecuencia'
  BY <1>1, <1>2, <1>5, <1>7 DEF LaApp, UnaSecuencia
<1>10. DatosDeLaSiguiente'
  <2> SUFFICES ASSUME NEW k \in Ranuras, NEW c \in Datos(k), NEW i \in LasDe(Suyos', c)
               PROVE  /\ Suyos'[i].valor = Publicada + 1 /\ k = ranura_publicada(Publicada + 1)
                      /\ mem[sello(k)] % 2 = 1
                      /\ \A j \in LasDe(Suyos', secuencia) \cup LasDe(Suyos', sello(k)) : i < j
    BY <1>1, <1>7 DEF DatosDeLaSiguiente
  <2>1. i \in LasDe(Suyos, c) /\ Suyos'[i] = Suyos[i]
    BY <1>5
  <2>2. \A j \in LasDe(Suyos', secuencia) \cup LasDe(Suyos', sello(k)) :
          j \in LasDe(Suyos, secuencia) \cup LasDe(Suyos, sello(k))
    BY <1>5
  <2> QED
    BY <1>1, <2>1, <2>2 DEF LaApp, DatosDeLaSiguiente
<1>11. SiguienteEntera' /\ PublicadaEntera'
  <2>1. PublicadaEntera'
    BY <1>1, <1>7 DEF LaApp, PublicadaEntera
  <2>2. ASSUME NEW j \in LasDe(Suyos', secuencia),
               NEW c \in Datos(ranura_publicada(Publicada + 1)), mem[c] # Publicada + 1
        PROVE  LasDe(Suyos', c) # {}
    <3>1. j \in LasDe(Suyos, secuencia)
      BY <1>5
    <3>2. PICK i \in LasDe(Suyos, c) : TRUE
      BY <1>1, <2>2, <3>1 DEF LaApp, SiguienteEntera
    <3>3. ranura_publicada(Publicada + 1) \in Ranuras
      BY <1>1, Hechos, DosRanuras
    <3>4. i < j
      BY <1>1, <3>1, <3>3 DEF LaApp, DatosDeLaSiguiente
    <3> QED
      BY <1>6, <3>4
  <2> QED
    BY <1>1, <1>2, <1>7, <2>1, <2>2 DEF SiguienteEntera
<1>12. SellosAlDia'
  BY <1>2 DEF SellosAlDia
<1>13. ElEscritorio'
  <2>1. NoWakeLost'
    BY <1>2 DEF NoWakeLost
  <2>2. Reservada => \A c \in Datos(ranura) : LasDe(Suyos', c) = {}
    BY <1>1, <1>5 DEF ElEscritorio, PrestamoFirme
  <2> QED
    BY <1>1, <1>2, <1>3, <2>1, <2>2, EscQuieto
<1> QED
  BY <1>8, <1>9, <1>10, <1>11, <1>12, <1>13 DEF IInv, LaApp

----------------------------------------------------------------------------
(* A store gets to the memory. *)
LEMMA DrenaAppIInv ==
  ASSUME IInv, Drena("app")
  PROVE  IInv'
<1>1. Tipos /\ LaApp /\ ElEscritorio /\ UNCHANGED <<app, esc, dibujado>>
  BY DEF IInv, Drena
<1>2. Suyos \in Seq(Almacen) /\ mem \in [Campos -> Nat] /\ Publicada \in Nat
  BY <1>1, Hechos
<1> DEFINE g == Head(Suyos)
<1>3. /\ Saca(Suyos, g, Suyos') /\ Vueltas' = Vueltas
      /\ buf' = [buf EXCEPT !["app"] = Suyos']
      /\ mem' = [mem EXCEPT ![g.campo] = g.valor]
  BY <1>1 DEF Drena, Saca, Suyos, Vueltas, Tipos, EnCamino, Lados
<1> HIDE DEF g
<1>4. /\ Suyos' \in Seq(Almacen) /\ g \in Almacen /\ g = Suyos[1]
      /\ 1 \in LasDe(Suyos, g.campo)
  BY <1>2, <1>3, AlFrente
<1>5. \A c : \A i \in LasDe(Suyos', c) : i + 1 \in LasDe(Suyos, c) /\ Suyos'[i] = Suyos[i + 1]
  BY <1>2, <1>3, AlFrente
<1>6. \A c : \A i \in LasDe(Suyos, c) : i # 1 => i - 1 \in LasDe(Suyos', c)
  BY <1>2, <1>3, AlFrente
<1>7. g.campo \in Campos \ {vuelta, duerme} /\ g.valor \in Nat
  BY <1>1, <1>4 DEF Tipos, UnEscritor, Almacen
<1>8. \A c : c # g.campo => mem'[c] = mem[c]
  BY <1>2, <1>3
<1>9. \A c \in Campos : Lee("app", c)' = Lee("app", c)
  <2>1. Llega(mem, g, mem') /\ Saca(Suyos, g, Suyos')
    BY <1>3 DEF Llega
  <2>2. \A c \in Campos : Ultima(mem', Suyos', c) = Ultima(mem, Suyos, c)
    BY <1>2, <2>1, UltimaAlFrente
  <2> QED
    BY <2>2, LeeApp
<1>10. Propia' = Propia /\ Ranura' = Ranura
  BY <1>9, Palabras DEF Propia, Ranura
<1>11. \A c : \A i \in LasDe(Suyos, c) : i \in Nat /\ i >= 1
  BY <1>2, LasDeEn
<1>12. \A c : \A i \in LasDe(Suyos', c) : i \in Nat /\ i >= 1
  BY <1>4, LasDeEn
<1>13. Tipos'
  <2>1. EnCamino'
    BY <1>1, <1>3, <1>4 DEF Tipos, EnCamino, Lados
  <2>2. UnEscritor'
    <3>1. \A c \in {vuelta, duerme} : LasDe(Suyos', c) = {}
      BY <1>1, <1>5 DEF Tipos, UnEscritor
    <3> QED
      BY <1>1, <1>3, <3>1 DEF Tipos, UnEscritor
  <2>3. mem' \in [Campos -> Nat]
    BY <1>2, <1>3, <1>7
  <2>4. mem'[vuelta] = mem[vuelta] /\ mem'[duerme] = mem[duerme]
    BY <1>7, <1>8
  <2> QED
    BY <1>1, <2>1, <2>2, <2>3, <2>4, TiposSiguen DEF Tipos, TypeOK
<1>14. SellosAlDia'
  <2>1. \A k \in Ranuras : LasDe(Suyos, sello(k)) = {} => LasDe(Suyos', sello(k)) = {}
    BY <1>5
  <2> QED
    BY <1>1, <1>9, <1>10, <2>1, Palabras DEF LaApp, SellosAlDia, Dentro
<1>15. ASSUME g.campo = secuencia
       PROVE  /\ LaApp' /\ Publicada' = Publicada + 1
              /\ \A k \in Ranuras : \A c \in Datos(k) : LasDe(Suyos', c) = {}
              /\ app.pc \notin {"rellena", "acaba", "publica"}
              /\ app.timbre => app.pc \notin {"libre", "vuelta", "despierta"}
  <2>1. Publicada' = Publicada + 1
    <3>1. g.valor = Publicada + 1
      BY <1>1, <1>4, <1>15 DEF LaApp, UnaSecuencia
    <3> QED
      BY <1>2, <1>3, <1>7, <1>15, <3>1 DEF Publicada
  <2>2. \A i \in LasDe(Suyos, secuencia) : i = 1
    BY <1>1, <1>4, <1>15 DEF LaApp, UnaSecuencia
  <2>3. LasDe(Suyos', secuencia) = {}
    <3> SUFFICES ASSUME NEW i \in LasDe(Suyos', secuencia) PROVE FALSE
      OBVIOUS
    <3>1. i + 1 \in LasDe(Suyos, secuencia) /\ i \in Nat /\ i >= 1
      BY <1>5, <1>12
    <3>2. i + 1 = 1
      BY <2>2, <3>1
    <3> QED
      BY <3>1, <3>2
  <2>4. \A k \in Ranuras : \A c \in Datos(k) : LasDe(Suyos, c) = {}
    <3> SUFFICES ASSUME NEW k \in Ranuras, NEW c \in Datos(k), NEW i \in LasDe(Suyos, c)
                 PROVE FALSE
      OBVIOUS
    <3>1. i < 1
      BY <1>1, <1>4, <1>15 DEF LaApp, DatosDeLaSiguiente
    <3> QED
      BY <1>11, <3>1
  <2>5. \A k \in Ranuras : \A c \in Datos(k) : LasDe(Suyos', c) = {}
    BY <1>5, <2>4
  <2>6. app.pc \notin {"rellena", "acaba", "publica"}
        /\ (app.timbre => app.pc \notin {"libre", "vuelta", "despierta"})
    BY <1>1, <1>4, <1>15 DEF LaApp, UnaSecuencia
  <2>7. UnaSecuencia' /\ DatosDeLaSiguiente'
    BY <2>3, <2>5 DEF UnaSecuencia, DatosDeLaSiguiente
  <2>8. SiguienteEntera'
    BY <1>1, <2>3, <2>6 DEF SiguienteEntera
  <2>9. PublicadaEntera'
    <3> SUFFICES ASSUME NEW c \in Datos(ranura_publicada(Publicada + 1))
                 PROVE  mem'[c] = Publicada + 1
      BY <2>1 DEF PublicadaEntera
    <3>1. ranura_publicada(Publicada + 1) \in Ranuras
      BY <1>2, DosRanuras
    <3>2. mem[c] = Publicada + 1
      BY <1>1, <1>4, <1>15, <2>4, <3>1 DEF LaApp, SiguienteEntera
    <3>3. c # g.campo
      BY <1>15, <3>1, Palabras
    <3> QED
      BY <1>8, <3>2, <3>3
  <2> QED
    BY <1>14, <2>1, <2>5, <2>6, <2>7, <2>8, <2>9 DEF LaApp
<1>16. ASSUME g.campo # secuencia
       PROVE  LaApp' /\ Publicada' = Publicada
  <2>1. Publicada' = Publicada
    BY <1>8, <1>16 DEF Publicada
  <2>2. \A i \in LasDe(Suyos, secuencia) : i - 1 \in LasDe(Suyos', secuencia)
    <3>1. 1 \notin LasDe(Suyos, secuencia)
      BY <1>2, <1>3, <1>16, AlFrente
    <3> QED
      BY <1>6, <3>1
  <2>3. UnaSecuencia'
    <3>1. \A i \in LasDe(Suyos', secuencia) : Suyos'[i].valor = Publicada + 1
      BY <1>1, <1>5 DEF LaApp, UnaSecuencia
    <3>2. ASSUME NEW i \in LasDe(Suyos', secuencia), NEW j \in LasDe(Suyos', secuencia)
          PROVE  i = j
      <4>1. i + 1 = j + 1
        BY <1>1, <1>5 DEF LaApp, UnaSecuencia
      <4> QED
        BY <1>12, <4>1
    <3>3. LasDe(Suyos, secuencia) = {} => LasDe(Suyos', secuencia) = {}
      BY <1>5
    <3> QED
      BY <1>1, <2>1, <3>1, <3>2, <3>3 DEF LaApp, UnaSecuencia
  <2>4. DatosDeLaSiguiente'
    <3> SUFFICES ASSUME NEW k \in Ranuras, NEW c \in Datos(k), NEW i \in LasDe(Suyos', c)
                 PROVE  /\ Suyos'[i].valor = Publicada + 1
                        /\ k = ranura_publicada(Publicada + 1)
                        /\ mem'[sello(k)] % 2 = 1
                        /\ \A j \in LasDe(Suyos', secuencia) \cup LasDe(Suyos', sello(k)) :
                             i < j
      BY <2>1 DEF DatosDeLaSiguiente
    <3>1. i + 1 \in LasDe(Suyos, c) /\ Suyos'[i] = Suyos[i + 1] /\ i \in Nat /\ i >= 1
      BY <1>5, <1>12
    <3>2. /\ Suyos[i + 1].valor = Publicada + 1 /\ k = ranura_publicada(Publicada + 1)
          /\ mem[sello(k)] % 2 = 1
          /\ \A j \in LasDe(Suyos, secuencia) \cup LasDe(Suyos, sello(k)) : i + 1 < j
      BY <1>1, <3>1 DEF LaApp, DatosDeLaSiguiente
    <3>3. g.campo # sello(k)
      <4>1. ~ (i + 1 < 1)
        BY <3>1
      <4> QED
        BY <1>4, <3>2, <4>1
    <3>4. ASSUME NEW j \in LasDe(Suyos', secuencia) \cup LasDe(Suyos', sello(k))
          PROVE  i < j
      <4>1. j \in Nat /\ j + 1 \in LasDe(Suyos, secuencia) \cup LasDe(Suyos, sello(k))
        BY <1>5, <1>12
      <4>2. i + 1 < j + 1
        BY <3>2, <4>1
      <4> QED
        BY <3>1, <4>1, <4>2
    <3> QED
      BY <1>8, <3>1, <3>2, <3>3, <3>4
  <2>5. SiguienteEntera'
    <3> SUFFICES ASSUME app.pc \in {"acaba", "publica"} \/ LasDe(Suyos', secuencia) # {},
                        NEW c \in Datos(ranura_publicada(Publicada + 1)),
                        LasDe(Suyos', c) = {}
                 PROVE  mem'[c] = Publicada + 1
      BY <1>1, <2>1 DEF SiguienteEntera
    <3>1. mem[c] = Publicada + 1 \/ LasDe(Suyos, c) # {}
      <4>1. LasDe(Suyos', secuencia) # {} => LasDe(Suyos, secuencia) # {}
        BY <1>5
      <4> QED
        BY <1>1, <4>1 DEF LaApp, SiguienteEntera
    <3>2. ranura_publicada(Publicada + 1) \in Ranuras
      BY <1>2, DosRanuras
    <3>3. CASE LasDe(Suyos, c) = {}
      BY <1>4, <1>8, <3>1, <3>3
    <3>4. ASSUME NEW i \in LasDe(Suyos, c) PROVE mem'[c] = Publicada + 1
      <4>1. i = 1
        BY <1>6
      <4>2. c = g.campo
        BY <1>2, <1>3, <4>1, AlFrente
      <4>3. g.valor = Publicada + 1
        BY <1>1, <1>4, <3>2, <4>1 DEF LaApp, DatosDeLaSiguiente
      <4> QED
        BY <1>2, <1>3, <1>7, <4>2, <4>3
    <3> QED
      BY <3>3, <3>4
  <2>6. PublicadaEntera'
    <3> SUFFICES ASSUME NEW c \in Datos(ranura_publicada(Publicada))
                 PROVE  mem'[c] = Publicada
      BY <2>1 DEF PublicadaEntera
    <3>1. ranura_publicada(Publicada) \in Ranuras
      BY <1>2, DosRanuras
    <3>2. LasDe(Suyos, c) = {}
      BY <1>1, <1>2, <3>1, DosRanuras DEF LaApp, DatosDeLaSiguiente
    <3> QED
      BY <1>1, <1>4, <1>8, <3>2 DEF LaApp, PublicadaEntera
  <2> QED
    BY <1>14, <2>1, <2>3, <2>4, <2>5, <2>6 DEF LaApp
<1>17. LaApp' /\ Publicada' \in Nat /\ Publicada' >= Publicada
  BY <1>2, <1>15, <1>16
<1>18. \A c \in {vuelta, duerme} : Lee("esc", c)' = Lee("esc", c) /\ mem'[c] = mem[c]
  <2>1. \A c \in {vuelta, duerme} : mem'[c] = mem[c]
    BY <1>7, <1>8
  <2>2. \A c \in {vuelta, duerme} : Ultima(mem', Vueltas, c) = Ultima(mem, Vueltas, c)
    BY <2>1, UltimaAjena
  <2> QED
    BY <1>3, <2>1, <2>2, LeeEsc
<1>19. PrestamoFirme'
  <2>1. ranura' = ranura /\ Reservada' = Reservada /\ EnPrestamo' = EnPrestamo
    BY <1>1 DEF ranura, Reservada, EnPrestamo
  <2>2. ASSUME NEW c, LasDe(Suyos, c) = {} PROVE LasDe(Suyos', c) = {} /\ mem'[c] = mem[c]
    BY <1>4, <1>5, <1>8, <2>2
  <2>3. EnPrestamo => Reservada
    BY DEF Reservada
  <2>4. EnPrestamo => \A c \in Datos(ranura) : mem'[c] = esc.s
    BY <1>1, <2>2, <2>3 DEF ElEscritorio, PrestamoFirme
  <2>5. Reservada => \A c \in Datos(ranura) : LasDe(Suyos', c) = {}
    BY <1>1, <2>2 DEF ElEscritorio, PrestamoFirme
  <2> QED
    BY <1>1, <1>3, <1>10, <1>18, <2>1, <2>4, <2>5 DEF ElEscritorio, PrestamoFirme
<1>20. CopiaFirme'
  <2>1. esc.s \in Nat
    BY <1>1, Hechos
  <2>2. esc.s <= Publicada =>
          esc.s <= Publicada' /\ (esc.s = Publicada' => Publicada' = Publicada)
    BY <1>2, <1>17, <2>1
  <2> QED
    BY <1>1, <2>2 DEF ElEscritorio, CopiaFirme
<1>21. FrameIsWhole' /\ SuenoFirme'
  BY <1>1, <1>3, <1>18 DEF ElEscritorio, FrameIsWhole, SuenoFirme
<1>22. NoWakeLost'
  <2>1. CASE g.campo = secuencia
    BY <1>1, <1>15, <2>1, Hechos DEF ElEscritorio, NoWakeLost, SuenoFirme, App
  <2>2. CASE g.campo # secuencia
    BY <1>1, <1>16, <2>2 DEF ElEscritorio, NoWakeLost, Publicada
  <2> QED
    BY <2>1, <2>2
<1> QED
  BY <1>13, <1>17, <1>19, <1>20, <1>21, <1>22 DEF IInv, ElEscritorio
LEMMA DrenaEscIInv ==
  ASSUME IInv, Drena("esc")
  PROVE  IInv'
<1>1. Tipos /\ LaApp /\ ElEscritorio /\ UNCHANGED <<app, esc, dibujado>>
  BY DEF IInv, Drena
<1>2. Vueltas \in Seq(Almacen) /\ mem \in [Campos -> Nat]
  BY <1>1, Hechos
<1> DEFINE g == Head(Vueltas)
<1>3. /\ Saca(Vueltas, g, Vueltas') /\ Suyos' = Suyos
      /\ buf' = [buf EXCEPT !["esc"] = Vueltas']
      /\ mem' = [mem EXCEPT ![g.campo] = g.valor]
  BY <1>1 DEF Drena, Saca, Suyos, Vueltas, Tipos, EnCamino, Lados
<1> HIDE DEF g
<1>4. /\ Vueltas' \in Seq(Almacen) /\ g \in Almacen /\ g = Vueltas[1]
      /\ 1 \in LasDe(Vueltas, g.campo)
  BY <1>2, <1>3, AlFrente
<1>5. \A c : \A i \in LasDe(Vueltas', c) :
         i + 1 \in LasDe(Vueltas, c) /\ Vueltas'[i] = Vueltas[i + 1]
  BY <1>2, <1>3, AlFrente
<1>6. g.campo \in {vuelta, duerme} /\ g.valor \in Nat
  BY <1>1, <1>4 DEF Tipos, UnEscritor, Almacen
<1>7. /\ \A c : c # g.campo => mem'[c] = mem[c]
      /\ mem'[g.campo] = g.valor
      /\ mem' \in [Campos -> Nat]
  BY <1>2, <1>3, <1>6, Palabras
<1>8. \A c \in Campos \ {vuelta, duerme} : mem'[c] = mem[c]
  BY <1>6, <1>7
<1>9. \A c \in {vuelta, duerme} : Lee("esc", c)' = Lee("esc", c)
  <2>1. Llega(mem, g, mem') /\ Saca(Vueltas, g, Vueltas')
    BY <1>3 DEF Llega
  <2>2. \A c \in {vuelta, duerme} : Ultima(mem', Vueltas', c) = Ultima(mem, Vueltas, c)
    BY <1>2, <2>1, Palabras, UltimaAlFrente
  <2> QED
    BY <2>2, LeeEsc
<1>10. Tipos'
  <2>1. EnCamino'
    BY <1>1, <1>3, <1>4 DEF Tipos, EnCamino, Lados
  <2>2. UnEscritor'
    <3>1. \A c \in Campos \ {vuelta, duerme} : LasDe(Vueltas', c) = {}
      BY <1>1, <1>5 DEF Tipos, UnEscritor
    <3>2. \A i \in LasDe(Vueltas', vuelta) : Vueltas'[i].valor \in 0 .. 2
      BY <1>1, <1>5 DEF Tipos, UnEscritor
    <3>3. \A i \in LasDe(Vueltas', duerme) : Vueltas'[i].valor \in 0 .. 1
      BY <1>1, <1>5 DEF Tipos, UnEscritor
    <3> QED
      BY <1>1, <1>3, <3>1, <3>2, <3>3 DEF Tipos, UnEscritor
  <2>3. mem'[vuelta] \in 0 .. 2 /\ mem'[duerme] \in 0 .. 1
    <3>1. g.campo = vuelta => g.valor \in 0 .. 2
      BY <1>1, <1>4 DEF Tipos, UnEscritor
    <3>2. g.campo = duerme => g.valor \in 0 .. 1
      BY <1>1, <1>4 DEF Tipos, UnEscritor
    <3>3. mem[vuelta] \in 0 .. 2 /\ mem[duerme] \in 0 .. 1
      BY <1>1 DEF Tipos, TypeOK
    <3> QED
      BY <1>7, <3>1, <3>2, <3>3
  <2> QED
    BY <1>1, <1>7, <2>1, <2>2, <2>3, TiposSiguen DEF Tipos, TypeOK
<1>11. LaApp' /\ Publicada' = Publicada
  BY <1>1, <1>3, <1>8, AppQuieta
<1>12. Vueltas # <<>>
  BY <1>3 DEF Saca
<1>13. ElEscritorio'
  <2>1. PrestamoFirme'
    BY <1>1, <1>9, <1>12 DEF ElEscritorio, PrestamoFirme, Reservada, EnPrestamo, ranura
  <2>2. CopiaFirme' /\ FrameIsWhole'
    BY <1>1, <1>11 DEF ElEscritorio, CopiaFirme, FrameIsWhole
  <2>3. SuenoFirme'
    BY <1>1, <1>9, <1>12 DEF ElEscritorio, SuenoFirme
  <2>4. NoWakeLost'
    BY <1>1, <1>11 DEF ElEscritorio, NoWakeLost, Publicada
  <2> QED
    BY <2>1, <2>2, <2>3, <2>4 DEF ElEscritorio
<1> QED
  BY <1>10, <1>11, <1>13 DEF IInv

----------------------------------------------------------------------------
(* The desktop. *)
LEMMA EscPaso ==
  ASSUME IInv, UNCHANGED <<mem, app>>, Suyos' = Suyos, EnCamino', UnEscritor',
         esc' \in Esc, dibujado' \in [s : Nat, a : Nat, b : Nat], ElEscritorio'
  PROVE  IInv'
<1>1. LaApp'
  BY AppQuieta DEF IInv
<1>2. Tipos'
  BY TiposSiguen DEF IInv, Tipos, TypeOK
<1> QED
  BY <1>1, <1>2 DEF IInv

(* Nothing is in hand. *)
LEMMA EscLibre ==
  ASSUME esc'.pc \in {"libre", "lee", "despierto"}, esc'.prestada = FALSE
  PROVE  ElEscritorio'
  BY DEF ElEscritorio, PrestamoFirme, CopiaFirme, FrameIsWhole, SuenoFirme, NoWakeLost,
         Reservada, EnPrestamo

LEMMA OlvidaTipo ==
  ASSUME esc \in Esc
  PROVE  Olvida(esc) \in Esc /\ Olvida(esc).pc = "libre" /\ Olvida(esc).prestada = FALSE
  BY DEF Esc, Olvida

(* reservar refused the slot. *)
LEMMA LeeTipo ==
  ASSUME esc \in Esc, NEW desde, Pasa(desde, "lee")
  PROVE  esc' \in Esc /\ esc'.pc = "lee" /\ esc'.prestada = FALSE
<1> DEFINE e == Olvida(esc)
<1>1. e \in Esc /\ e.prestada = FALSE
  BY OlvidaTipo
<1>2. esc' = [e EXCEPT !.pc = "lee"]
  BY DEF Pasa
<1> HIDE DEF e
<1> QED
  BY <1>1, <1>2 DEF Esc

(* The drawings that fail, each in its way, and the GPU given up. *)
Falla == FallaPrestada \/ FallaCopia \/ Desiste \/ Rechaza

LEMMA AcabadaTipo ==
  ASSUME esc \in Esc, Dibuja \/ Falla
  PROVE  esc' \in Esc /\ esc'.pc = "libre" /\ esc'.prestada = FALSE
<1> DEFINE e == Olvida(esc)
<1>1. e \in Esc /\ e.pc = "libre" /\ e.prestada = FALSE /\ esc.s \in Nat
  BY OlvidaTipo DEF Esc
<1>2. \/ esc' = [e EXCEPT !.vista = esc.s]
      \/ esc' = [e EXCEPT !.vista = 0, !.sin_prestar = TRUE]
      \/ esc' = [e EXCEPT !.vista = 0, !.imposible = TRUE]
  BY DEF Dibuja, Falla, FallaPrestada, FallaCopia, Desiste, Rechaza, Decir
<1> HIDE DEF e
<1>3. CASE esc' = [e EXCEPT !.vista = esc.s]
  BY <1>1, <1>3 DEF Esc
<1>4. CASE esc' = [e EXCEPT !.vista = 0, !.sin_prestar = TRUE]
  BY <1>1, <1>4 DEF Esc
<1>5. CASE esc' = [e EXCEPT !.vista = 0, !.imposible = TRUE]
  BY <1>1, <1>5 DEF Esc
<1> QED
  BY <1>2, <1>3, <1>4, <1>5

LEMMA BufQuieto ==
  ASSUME Tipos, UNCHANGED buf
  PROVE  Suyos' = Suyos /\ Vueltas' = Vueltas /\ EnCamino' /\ UnEscritor'
<1>1. Suyos' = Suyos /\ Vueltas' = Vueltas
  BY DEF Suyos, Vueltas
<1> QED
  BY <1>1 DEF Tipos, EnCamino, UnEscritor

LEMMA SueltaBien ==
  ASSUME Tipos, Suelta, UNCHANGED mem
  PROVE  Suyos' = Suyos /\ EnCamino' /\ UnEscritor'
  BY Palabras, GuardaEsc DEF Suelta

LEMMA DespiertoBien ==
  ASSUME Tipos, Despierto, UNCHANGED mem
  PROVE  Suyos' = Suyos /\ EnCamino' /\ UnEscritor'
  BY Palabras, GuardaEsc DEF Despierto

LEMMA ReservaIInv ==
  ASSUME IInv, Reserva
  PROVE  IInv'
<1>1. Tipos /\ LaApp /\ ElEscritorio /\ UNCHANGED <<mem, app, dibujado>>
  BY DEF IInv, Reserva
<1>2. esc \in Esc /\ Publicada \in Nat /\ esc.pc = "libre" /\ esc.prestada = FALSE
  BY <1>1, Hechos DEF Reserva, Reservable, Esc, ElEscritorio, PrestamoFirme
<1>3. /\ esc' \in Esc /\ esc'.pc = "valla" /\ esc'.s = Publicada /\ esc'.prestada = FALSE
  BY <1>2 DEF Reserva, Esc, Publicada
<1> DEFINE v == ranura_publicada(Publicada) + 1
<1>4. v \in 0 .. 2 /\ Guarda("esc", vuelta, v)
  BY <1>2, DosRanuras DEF Reserva, Ranuras, Publicada
<1>5. ranura' + 1 = v
  BY <1>3 DEF ranura
<1> HIDE DEF v
<1>6. EnCamino' /\ UnEscritor' /\ Suyos' = Suyos /\ Lee("esc", vuelta)' = v
  BY <1>1, <1>4, Palabras, GuardaEsc
<1>7. ElEscritorio'
  BY <1>3, <1>5, <1>6 DEF ElEscritorio, PrestamoFirme, CopiaFirme, FrameIsWhole, SuenoFirme,
     NoWakeLost, Reservada, EnPrestamo
<1> QED
  BY <1>1, <1>3, <1>6, <1>7, EscPaso DEF Tipos, TypeOK

(* The seal is even: nobody writes that slot, nor has a store on its way.  *)
LEMMA MiraSelloIInv ==
  ASSUME IInv, MiraSello
  PROVE  IInv'
<1>1. Tipos /\ LaApp /\ ElEscritorio /\ UNCHANGED <<mem, app, dibujado>>
  BY DEF IInv, MiraSello
<1>2. esc \in Esc /\ esc.s \in Nat /\ ranura \in Ranuras
  BY <1>1, Hechos
<1>3. Vueltas = <<>> /\ \A c : Lee("esc", c) = mem[c]
  BY Vacio DEF MiraSello, Valla, Vueltas
<1>4. CASE mem[sello(ranura)] % 2 = 0
  <2>1. /\ esc.pc = "valla" /\ esc.prestada = FALSE /\ UNCHANGED buf
        /\ esc' \in Esc /\ esc'.pc = "confirma" /\ esc'.prestada = FALSE /\ esc'.s = esc.s
    BY <1>1, <1>2, <1>4 DEF MiraSello, Pasa, Esc, ElEscritorio, PrestamoFirme
  <2>2. Suyos' = Suyos /\ Vueltas' = Vueltas /\ EnCamino' /\ UnEscritor'
    BY <1>1, <2>1, BufQuieto
  <2>3. Ranura' = Ranura /\ ranura' = ranura
    BY <1>1, <2>1, <2>2, AppQuieta DEF ranura
  <2>4. mem[vuelta] = ranura + 1
    BY <1>1, <1>3, <2>1 DEF ElEscritorio, PrestamoFirme
  <2>5. mem[sello(ranura)] % 2 # 1
    BY <1>4
  <2>6. ~(app.pc \in {"rellena", "acaba"} /\ Ranura = ranura)
    <3> SUFFICES ASSUME app.pc \in {"rellena", "acaba"}, Ranura = ranura
                 PROVE  mem[sello(ranura)] % 2 = 1
      BY <2>5
    <3>1. Lee("app", sello(ranura)) % 2 = 1 /\ LasDe(Suyos, sello(ranura)) = {}
      BY <1>1, <1>2 DEF LaApp, SellosAlDia, Dentro
    <3>2. Lee("app", sello(ranura)) = mem[sello(ranura)]
      BY <3>1, LeeApp, UltimaNinguna
    <3> QED
      BY <3>1, <3>2
  <2>7. \A c \in Datos(ranura) : LasDe(Suyos, c) = {}
    BY <1>1, <1>2, <2>5 DEF LaApp, DatosDeLaSiguiente
  <2>8. ElEscritorio'
    BY <1>1, <1>3, <2>1, <2>2, <2>3, <2>4, <2>6, <2>7
       DEF ElEscritorio, PrestamoFirme, CopiaFirme, FrameIsWhole, SuenoFirme,
           NoWakeLost, Reservada, EnPrestamo
  <2> QED
    BY <1>1, <2>1, <2>2, <2>8, EscPaso DEF Tipos, TypeOK
<1>5. CASE mem[sello(ranura)] % 2 # 0
  <2>1. Suelta /\ esc' \in Esc /\ esc'.pc = "lee" /\ esc'.prestada = FALSE
    BY <1>2, <1>5, LeeTipo DEF MiraSello
  <2>2. Suyos' = Suyos /\ EnCamino' /\ UnEscritor'
    BY <1>1, <2>1, SueltaBien
  <2> QED
    BY <1>1, <2>1, <2>2, EscLibre, EscPaso DEF Tipos, TypeOK
<1> QED
  BY <1>4, <1>5

LEMMA ConfirmaIInv ==
  ASSUME IInv, Confirma
  PROVE  IInv'
<1>1. Tipos /\ LaApp /\ ElEscritorio /\ UNCHANGED <<mem, app, dibujado>>
  BY DEF IInv, Confirma
<1>2. esc \in Esc /\ esc.pc = "confirma"
  BY <1>1, Hechos DEF Confirma, Pasa
<1>3. CASE Publicada = esc.s /\ mem[dato("a", ranura)] \notin Vacios
  <2>1. /\ UNCHANGED buf /\ esc' \in Esc /\ esc'.pc = "presta1"
        /\ esc'.prestada = esc.prestada /\ esc'.s = esc.s
    BY <1>2, <1>3 DEF Confirma, Pasa, Esc, Publicada
  <2>2. Suyos' = Suyos /\ Vueltas' = Vueltas /\ EnCamino' /\ UnEscritor'
    BY <1>1, <2>1, BufQuieto
  <2>3. Ranura' = Ranura /\ ranura' = ranura
    BY <1>1, <2>1, <2>2, AppQuieta DEF ranura
  <2>4. \A c \in Datos(ranura) : mem[c] = esc.s
    BY <1>1, <1>3 DEF LaApp, PublicadaEntera, ranura
  <2>5. ElEscritorio'
    BY <1>1, <1>2, <2>1, <2>2, <2>3, <2>4
       DEF ElEscritorio, PrestamoFirme, CopiaFirme, FrameIsWhole, SuenoFirme,
           NoWakeLost, Reservada, EnPrestamo
  <2> QED
    BY <1>1, <2>1, <2>2, <2>5, EscPaso DEF Tipos, TypeOK
<1>4. CASE ~(Publicada = esc.s /\ mem[dato("a", ranura)] \notin Vacios)
  <2>1. Suelta /\ esc' \in Esc /\ esc'.pc = "lee" /\ esc'.prestada = FALSE
    BY <1>2, <1>4, LeeTipo DEF Confirma, Publicada
  <2>2. Suyos' = Suyos /\ EnCamino' /\ UnEscritor'
    BY <1>1, <2>1, SueltaBien
  <2> QED
    BY <1>1, <2>1, <2>2, EscLibre, EscPaso DEF Tipos, TypeOK
<1> QED
  BY <1>3, <1>4

(* The GPU reads: the slot keeps the frame that was published in it. *)
LEMMA PrestaIInv ==
  ASSUME IInv, Presta1 \/ Presta2
  PROVE  IInv'
<1>1. Tipos /\ LaApp /\ ElEscritorio /\ UNCHANGED <<mem, buf, app, dibujado>>
  BY DEF IInv, Presta1, Presta2
<1>2. esc \in Esc /\ mem \in [Campos -> Nat] /\ ranura \in Ranuras
  BY <1>1, Hechos
<1>3. Suyos' = Suyos /\ Vueltas' = Vueltas /\ EnCamino' /\ UnEscritor'
  BY <1>1, BufQuieto
<1>4. Ranura' = Ranura
  BY <1>1, <1>3, AppQuieta
<1>5. dato("a", ranura) \in Datos(ranura) /\ dato("b", ranura) \in Datos(ranura)
      /\ mem[dato("a", ranura)] \in Nat /\ mem[dato("b", ranura)] \in Nat
  BY <1>2, Palabras DEF Datos
<1>6. EnPrestamo /\ EnPrestamo' /\ Reservada
  BY <1>2 DEF Presta1, Presta2, EnPrestamo, Reservada, Esc
<1>7. mem[dato("a", ranura)] = esc.s /\ mem[dato("b", ranura)] = esc.s
  BY <1>1, <1>5, <1>6 DEF ElEscritorio, PrestamoFirme
<1>8. /\ esc' \in Esc /\ esc'.s = esc.s /\ esc'.a = esc.s
      /\ esc'.pc = "presta2" \/ (esc'.pc = "dibuja" /\ esc'.b = esc.s)
      /\ esc'.prestada => esc'.pc = "dibuja"
  <2>1. CASE Presta1
    BY <1>1, <1>2, <1>5, <1>7, <2>1 DEF Presta1, Esc, ElEscritorio, PrestamoFirme
  <2>2. CASE Presta2
    BY <1>1, <1>2, <1>5, <1>7, <2>2 DEF Presta2, Esc, ElEscritorio, CopiaFirme
  <2> QED
    BY <2>1, <2>2
<1>9. ranura' = ranura
  BY <1>8 DEF ranura
<1>10. ElEscritorio'
  BY <1>1, <1>3, <1>4, <1>6, <1>8, <1>9
     DEF ElEscritorio, PrestamoFirme, CopiaFirme, FrameIsWhole, SuenoFirme,
         NoWakeLost, Reservada
<1> QED
  BY <1>1, <1>3, <1>8, <1>10, EscPaso DEF Tipos, TypeOK

(* The copy: as long as its frame is the one that is published, each word  *)
(* is of that frame; the last look at the sequence says that it is.        *)
LEMMA CopiaIInv ==
  ASSUME IInv, Copia \/ Mira \/ Copia1 \/ Copia2 \/ Intacto \/ Vigente
  PROVE  IInv'
<1>1. Tipos /\ LaApp /\ ElEscritorio /\ UNCHANGED <<mem, buf, app, dibujado>>
  BY DEF IInv, Copia, Mira, Copia1, Copia2, Intacto, Vigente
<1>2. /\ esc \in Esc /\ mem \in [Campos -> Nat] /\ ranura \in Ranuras
      /\ esc.s \in Nat /\ Publicada \in Nat /\ Publicada' = Publicada
  BY <1>1, Hechos DEF Publicada
<1>3. Suyos' = Suyos /\ Vueltas' = Vueltas /\ EnCamino' /\ UnEscritor'
  BY <1>1, BufQuieto
<1>4. esc.prestada = FALSE
  BY <1>1, <1>2 DEF Copia, Mira, Copia1, Copia2, Intacto, Vigente, Pasa,
                    Esc, ElEscritorio, PrestamoFirme
<1>5. dato("a", ranura) \in Datos(ranura) /\ dato("b", ranura) \in Datos(ranura)
      /\ mem[dato("a", ranura)] \in Nat /\ mem[dato("b", ranura)] \in Nat
  BY <1>2, Palabras DEF Datos
<1>6. esc.s = Publicada => /\ mem[dato("a", ranura)] = Publicada
                           /\ mem[dato("b", ranura)] = Publicada
  BY <1>1, <1>5 DEF LaApp, PublicadaEntera, ranura
<1>7. /\ esc' \in Esc /\ esc'.prestada = FALSE
      /\ esc'.pc \in {"copia", "copia1", "copia2", "intacto", "vigente", "dibuja", "libre"}
      /\ CopiaFirme' /\ FrameIsWhole'
  <2>1. CASE Copia
    <3>1. mem[secuencia] = Publicada
      BY DEF Publicada
    <3>2. PICK cpu \in BOOLEAN :
            esc' = [esc EXCEPT !.pc = "copia", !.s = Publicada, !.cpu = cpu]
      BY <2>1, <3>1 DEF Copia
    <3>3. /\ esc' \in Esc /\ esc'.prestada = FALSE /\ esc'.pc = "copia"
          /\ esc'.s = Publicada
      BY <1>2, <1>4, <3>2 DEF Esc
    <3> QED
      BY <1>2, <3>3 DEF CopiaFirme, FrameIsWhole
  <2>2. CASE Mira
    <3>1. mem[sello(ranura)] \in Nat
      BY <1>2, Palabras
    <3>2. /\ esc' \in Esc /\ esc'.prestada = FALSE
          /\ esc'.pc = "libre" \/ (esc'.pc = "copia1" /\ esc'.s = esc.s)
      BY <1>2, <1>4, <2>2, <3>1, OlvidaTipo DEF Mira, Esc
    <3> QED
      BY <1>1, <1>2, <2>2, <3>2 DEF Mira, ElEscritorio, CopiaFirme, FrameIsWhole
  <2>3. CASE Copia1
    <3>1. /\ esc' \in Esc /\ esc'.prestada = FALSE /\ esc'.pc = "copia2" /\ esc'.s = esc.s
          /\ esc'.a = mem[dato("a", ranura)]
      BY <1>2, <1>4, <1>5, <2>3 DEF Copia1, Esc
    <3> QED
      BY <1>1, <1>2, <1>6, <2>3, <3>1 DEF Copia1, ElEscritorio, CopiaFirme, FrameIsWhole
  <2>4. CASE Copia2
    <3>1. /\ esc' \in Esc /\ esc'.prestada = FALSE /\ esc'.pc = "intacto" /\ esc'.s = esc.s
          /\ esc'.a = esc.a /\ esc'.b = mem[dato("b", ranura)]
      BY <1>2, <1>4, <1>5, <2>4 DEF Copia2, Esc
    <3> QED
      BY <1>1, <1>2, <1>6, <2>4, <3>1 DEF Copia2, ElEscritorio, CopiaFirme, FrameIsWhole
  <2>5. CASE Intacto
    <3>1. /\ esc' \in Esc /\ esc'.prestada = FALSE
          /\ \/ esc'.pc = "libre"
             \/ esc'.pc = "vigente" /\ esc'.s = esc.s /\ esc'.a = esc.a /\ esc'.b = esc.b
      BY <1>2, <1>4, <2>5, OlvidaTipo DEF Intacto, Pasa, Esc
    <3> QED
      BY <1>1, <1>2, <2>5, <3>1 DEF Intacto, Pasa, ElEscritorio, CopiaFirme, FrameIsWhole
  <2>6. CASE Vigente
    <3>1. /\ esc' \in Esc /\ esc'.prestada = FALSE
          /\ \/ esc'.pc = "libre"
             \/ /\ esc'.pc = "dibuja" /\ Publicada = esc.s
                /\ esc'.s = esc.s /\ esc'.a = esc.a /\ esc'.b = esc.b
      BY <1>2, <1>4, <2>6, OlvidaTipo DEF Vigente, Pasa, Esc, Publicada
    <3> QED
      BY <1>1, <1>2, <2>6, <3>1 DEF Vigente, Pasa, ElEscritorio, CopiaFirme, FrameIsWhole
  <2> QED
    BY <2>1, <2>2, <2>3, <2>4, <2>5, <2>6
<1>8. ElEscritorio'
  BY <1>7 DEF ElEscritorio, PrestamoFirme, SuenoFirme, NoWakeLost, Reservada, EnPrestamo
<1> QED
  BY <1>1, <1>3, <1>7, <1>8, EscPaso DEF Tipos, TypeOK

LEMMA DibujaIInv ==
  ASSUME IInv, Dibuja \/ Falla
  PROVE  IInv'
<1>1. Tipos /\ LaApp /\ ElEscritorio /\ UNCHANGED <<mem, app>>
  BY DEF IInv, Dibuja, Falla, FallaPrestada, FallaCopia, Desiste, Rechaza
<1>2. esc \in Esc
  BY <1>1, Hechos
<1>3. esc' \in Esc /\ esc'.pc = "libre" /\ esc'.prestada = FALSE
  BY <1>2, AcabadaTipo
<1>4. dibujado' \in [s : Nat, a : Nat, b : Nat]
  BY <1>1, <1>2 DEF Dibuja, Falla, FallaPrestada, FallaCopia, Desiste, Rechaza, Esc,
                    Tipos, TypeOK
<1>5. Suyos' = Suyos /\ EnCamino' /\ UnEscritor'
  BY <1>1, SueltaBien, BufQuieto DEF Dibuja, Falla, FallaPrestada, FallaCopia, Desiste,
                                     Rechaza
<1> QED
  BY <1>1, <1>3, <1>4, <1>5, EscLibre, EscPaso

LEMMA MeDuermoIInv ==
  ASSUME IInv, MeDuermo
  PROVE  IInv'
<1>1. Tipos /\ LaApp /\ ElEscritorio /\ UNCHANGED <<mem, app, dibujado>>
  BY DEF IInv, MeDuermo
<1>2. esc \in Esc
  BY <1>1, Hechos
<1>3. esc' \in Esc /\ esc'.pc = "me_duermo" /\ esc'.prestada = FALSE /\ app.timbre
  BY <1>1, <1>2 DEF MeDuermo, Pasa, Esc, ElEscritorio, PrestamoFirme
<1>4. Suyos' = Suyos /\ EnCamino' /\ UnEscritor' /\ Lee("esc", duerme)' = 1
  BY <1>1, Palabras, GuardaEsc DEF MeDuermo
<1>5. ElEscritorio'
  BY <1>1, <1>3, <1>4 DEF ElEscritorio, PrestamoFirme, CopiaFirme, FrameIsWhole, SuenoFirme,
     NoWakeLost, Reservada, EnPrestamo
<1> QED
  BY <1>1, <1>3, <1>4, <1>5, EscPaso DEF Tipos, TypeOK

(* DUERME is in memory, and then the sequence is looked at, twice. *)
LEMMA DuermeIInv ==
  ASSUME IInv, Repasa \/ Espera
  PROVE  IInv'
<1>1. Tipos /\ LaApp /\ ElEscritorio /\ UNCHANGED <<mem, app, dibujado>>
  BY DEF IInv, Repasa, Espera
<1>2. esc \in Esc /\ esc.prestada = FALSE
  BY <1>1, Hechos DEF Repasa, Espera, Pasa, Esc, ElEscritorio, PrestamoFirme
<1>3. Vueltas = <<>> /\ \A c : Lee("esc", c) = mem[c]
  BY Vacio DEF Repasa, Espera, Valla, Vueltas
<1>4. mem[duerme] = 1 /\ app.timbre
  BY <1>1, <1>3 DEF Repasa, Espera, Pasa, ElEscritorio, SuenoFirme
<1>5. \/ Despierto \/ UNCHANGED buf
  BY DEF Repasa, Espera
<1>6. Suyos' = Suyos /\ EnCamino' /\ UnEscritor'
  BY <1>1, <1>5, DespiertoBien, BufQuieto
<1>7. /\ esc' \in Esc /\ esc'.prestada = FALSE
      /\ \/ esc'.pc \in {"libre", "despierto"}
         \/ /\ esc'.pc \in {"espera", "dormido"} /\ UNCHANGED buf
            /\ mem[secuencia] = esc'.vista
  <2>1. CASE Repasa
    BY <1>2, <2>1, OlvidaTipo DEF Repasa, Pasa, Esc
  <2>2. CASE Espera
    BY <1>2, <2>2 DEF Espera, Pasa, Esc
  <2> QED
    BY <2>1, <2>2
<1>8. ElEscritorio'
  <2>1. CASE esc'.pc \in {"libre", "despierto"}
    BY <1>7, <2>1, EscLibre
  <2>2. CASE esc'.pc \notin {"libre", "despierto"}
    <3>1. Vueltas' = <<>>
      BY <1>1, <1>3, <1>7, <2>2, BufQuieto
    <3> QED
      BY <1>1, <1>4, <1>7, <2>2, <3>1
         DEF ElEscritorio, PrestamoFirme, CopiaFirme, FrameIsWhole, SuenoFirme,
             NoWakeLost, Reservada, EnPrestamo
  <2> QED
    BY <2>1, <2>2
<1> QED
  BY <1>1, <1>6, <1>7, <1>8, EscPaso DEF Tipos, TypeOK

LEMMA VuelveIInv ==
  ASSUME IInv, Siesta \/ Vuelve
  PROVE  IInv'
<1>1. Tipos /\ LaApp /\ ElEscritorio /\ UNCHANGED <<mem, app, dibujado>>
  BY DEF IInv, Siesta, Vuelve
<1>2. esc \in Esc
  BY <1>1, Hechos
<1>3. esc' \in Esc /\ esc'.pc \in {"libre", "despierto"} /\ esc'.prestada = FALSE
  <2>1. CASE Siesta
    BY <1>1, <1>2, <2>1 DEF Siesta, Pasa, Esc, ElEscritorio, PrestamoFirme
  <2>2. CASE Vuelve
    <3> DEFINE e == Olvida(esc)
    <3>1. e \in Esc /\ e.prestada = FALSE
      BY <1>2, OlvidaTipo
    <3>2. esc' = [e EXCEPT !.pc = "libre"]
      BY <2>2 DEF Vuelve, Pasa
    <3> HIDE DEF e
    <3> QED
      BY <3>1, <3>2 DEF Esc
  <2> QED
    BY <2>1, <2>2
<1>4. Suyos' = Suyos /\ EnCamino' /\ UnEscritor'
  BY <1>1, DespiertoBien, BufQuieto DEF Siesta, Vuelve
<1> QED
  BY <1>1, <1>3, <1>4, EscLibre, EscPaso DEF Tipos, TypeOK

----------------------------------------------------------------------------
(* The first state, every step. *)
LEMMA InitIInv == Init => IInv
<1> SUFFICES ASSUME Init PROVE IInv
  OBVIOUS
<1>1. Suyos = <<>> /\ Vueltas = <<>> /\ buf \in [Lados -> Seq(Almacen)]
  BY DEF Init, Suyos, Vueltas, Lados
<1>2. \A c : LasDe(Suyos, c) = {} /\ LasDe(Vueltas, c) = {}
  BY <1>1 DEF LasDe
<1>3. \A c \in Campos : mem[c] = 0 /\ Lee("app", c) = 0
  BY <1>2, LeeApp, UltimaNinguna DEF Init
<1>4. app \in App /\ app.pc = "libre" /\ esc \in Esc /\ esc.pc = "libre" /\ esc.prestada = FALSE
  BY DEF Init, App, Esc
<1>5. Tipos
  <2>1. \A p \in Lados : Range(buf[p]) = {}
    BY DEF Init, Range
  <2>2. mem \in [Campos -> Nat] /\ mem[vuelta] = 0 /\ mem[duerme] = 0
    BY <1>3, Palabras DEF Init
  <2>3. dibujado \in [s : Nat, a : Nat, b : Nat]
    BY DEF Init
  <2> QED
    BY <1>1, <1>2, <1>4, <2>1, <2>2, <2>3 DEF Tipos, TypeOK, EnCamino, UnEscritor
<1>6. Publicada = 0 /\ \A c \in Datos(ranura_publicada(0)) : mem[c] = 0
  BY <1>3, Palabras, DosRanuras DEF Publicada
<1>7. LaApp
  <2>1. \A k \in Ranuras : Lee("app", sello(k)) = 0
    BY <1>3, Palabras
  <2>2. SellosAlDia
    BY <1>4, <2>1 DEF SellosAlDia, Dentro
  <2> QED
    BY <1>2, <1>4, <1>6, <2>2
       DEF LaApp, UnaSecuencia, DatosDeLaSiguiente, SiguienteEntera, PublicadaEntera
<1>8. ElEscritorio
  BY <1>4 DEF ElEscritorio, PrestamoFirme, CopiaFirme, FrameIsWhole, SuenoFirme, NoWakeLost,
              Reservada, EnPrestamo
<1> QED
  BY <1>5, <1>7, <1>8 DEF IInv

LEMMA NextIInv == IInv /\ [Next]_vars => IInv'
<1> SUFFICES ASSUME IInv, [Next]_vars PROVE IInv'
  OBVIOUS
<1>1. CASE Next
  <2>1. CASE \E p \in Lados : Drena(p)
    BY <2>1, DrenaAppIInv, DrenaEscIInv DEF Lados
  <2>2. CASE \/ Empieza \/ MiraVuelta \/ Rellena \/ Acaba \/ Publica
             \/ HayQuienDuerme \/ Despierta \/ Muere
    BY <2>2, EmpiezaIInv, MiraVueltaIInv, RellenaIInv, AcabaIInv, PublicaIInv,
       HayQuienDuermeIInv, DespiertaIInv, MuereIInv
  <2>3. CASE Escritorio \/ FallaPrestada \/ Desiste \/ MeDuermo
    BY <2>3, ReservaIInv, MiraSelloIInv, ConfirmaIInv, PrestaIInv, CopiaIInv, DibujaIInv,
       MeDuermoIInv, DuermeIInv, VuelveIInv DEF Escritorio, Falla
  <2> QED
    BY <1>1, <2>1, <2>2, <2>3 DEF Next
<1>2. CASE UNCHANGED vars
  <2>1. UNCHANGED <<mem, buf, app, esc, dibujado>>
    BY <1>2 DEF vars
  <2>2. Suyos' = Suyos /\ Vueltas' = Vueltas /\ EnCamino' /\ UnEscritor'
    BY <2>1, BufQuieto DEF IInv
  <2>3. ElEscritorio'
    <3>1. NoWakeLost'
      BY <2>1 DEF IInv, ElEscritorio, NoWakeLost
    <3>2. Ranura' = Ranura
      BY <2>1, <2>2, AppQuieta DEF IInv
    <3>3. Reservada => /\ ~(app.pc \in {"rellena", "acaba"} /\ Ranura = ranura)
                       /\ \A c \in Datos(ranura) : LasDe(Suyos, c) = {}
      BY DEF IInv, ElEscritorio, PrestamoFirme
    <3> QED
      BY <2>1, <2>2, <3>1, <3>2, <3>3, EscQuieto DEF IInv
  <2> QED
    BY <2>1, <2>2, <2>3, EscPaso DEF IInv, Tipos, TypeOK
<1> QED
  BY <1>1, <1>2

(* What holds in every state of a lamina. *)
THEOREM Inductive == Spec => []IInv
BY InitIInv, NextIInv, PTL DEF Spec

(* Every word, store and local variable is of its type; VUELTA names a     *)
(* slot or none.                                                           *)
THEOREM TypeCorrect == Spec => []TypeOK
<1>1. IInv => TypeOK
  BY DEF IInv, Tipos
<1> QED
  BY Inductive, <1>1, PTL

(* While the GPU reads a slot where it lies, the app does not write it, nor *)
(* has a store to it that may still arrive (reservar, empezar_si_libre).    *)
THEOREM LentSlotIsUntouched == Spec => []LentSlotUntouched
<1>1. IInv => LentSlotUntouched
  <2> SUFFICES ASSUME IInv, EnPrestamo PROVE LentSlotUntouched
    BY DEF LentSlotUntouched
  <2>1. /\ ~(app.pc \in {"rellena", "acaba"} /\ Ranura = ranura)
        /\ \A c \in Datos(ranura) : LasDe(Suyos, c) = {}
    BY DEF IInv, ElEscritorio, PrestamoFirme, Reservada
  <2>2. ASSUME NEW x \in Range(buf["app"]) PROVE x.campo \notin Datos(ranura)
    <3>1. PICK i \in 1 .. Len(Suyos) : x = Suyos[i]
      BY Hechos, Largo DEF IInv, Range, Suyos
    <3> QED
      BY <2>1, <3>1 DEF LasDe
  <2> QED
    BY <2>1, <2>2 DEF LentSlotUntouched, Datos
<1> QED
  BY Inductive, <1>1, PTL

(* What is drawn as frame s is frame s, each word of it (leer_ranura). *)
THEOREM DrawnFrameIsWhole == Spec => []FrameIsWhole
<1>1. IInv => FrameIsWhole
  BY DEF IInv, ElEscritorio
<1> QED
  BY Inductive, <1>1, PTL

(* The desktop does not sleep over a frame that nobody will wake it for    *)
(* (me_duermo, hay_quien_duerme).                                          *)
THEOREM WakeIsNotLost == Spec => []NoWakeLost
<1>1. IInv => NoWakeLost
  BY DEF IInv, ElEscritorio
<1> QED
  BY Inductive, <1>1, PTL

----------------------------------------------------------------------------
(* The lamina does what Escaparate promises. *)
EnMano == EnPrestamo \/ esc.pc = "dibuja"
Mostrado == Contenido(dibujado)
Paso == [W!Next]_<<Publicada, Tomado, Mostrado>>

LEMMA PasoDrena ==
  ASSUME IInv, NEW p \in Lados, Drena(p)
  PROVE  Paso
<1>1. Tipos /\ LaApp /\ UNCHANGED <<app, esc, dibujado>>
  BY DEF IInv, Drena
<1>2. Tomado' = Tomado /\ Mostrado' = Mostrado
  BY <1>1 DEF Tomado, Mostrado, EnPrestamo
<1>3. Publicada' \in {Publicada, Publicada + 1}
  <2> DEFINE b == buf[p]
             g == Head(b)
  <2>1. b \in Seq(Almacen) /\ mem \in [Campos -> Nat]
    BY <1>1, Hechos DEF Tipos, EnCamino
  <2>2. Saca(b, g, Tail(b)) /\ mem' = [mem EXCEPT ![g.campo] = g.valor]
    BY DEF Drena, Saca
  <2> HIDE DEF g
  <2>3. 1 \in LasDe(b, g.campo) /\ g = b[1] /\ g \in Almacen
    BY <2>1, <2>2, AlFrente
  <2>4. g.campo = secuencia => g.valor = Publicada + 1
    <3>1. CASE p = "app"
      BY <1>1, <2>3, <3>1 DEF LaApp, UnaSecuencia, Suyos
    <3>2. CASE p = "esc"
      BY <1>1, <2>3, <3>2, Palabras DEF Tipos, UnEscritor, Vueltas
    <3> QED
      BY <3>1, <3>2 DEF Lados
  <2> QED
    BY <2>1, <2>2, <2>4, Palabras DEF Publicada
<1> QED
  BY <1>2, <1>3 DEF Paso, W!Next, W!Publica, Publicada, Mostrado

LEMMA PasoApp ==
  ASSUME IInv, \/ Empieza \/ MiraVuelta \/ Rellena \/ Acaba \/ Publica
               \/ HayQuienDuerme \/ Despierta \/ Muere
  PROVE  Paso
<1>1. UNCHANGED <<mem, dibujado>>
  BY DEF Empieza, MiraVuelta, Rellena, Acaba, Publica, HayQuienDuerme, Despierta, Muere
<1>2. esc \in Esc
  BY Hechos DEF IInv
<1>3. \/ esc' = esc
      \/ /\ esc.pc = "dormido" /\ esc'.pc = "despierto"
         /\ esc'.prestada = esc.prestada /\ esc'.s = esc.s
  BY <1>2 DEF Empieza, MiraVuelta, Rellena, Acaba, Publica, HayQuienDuerme, Despierta, Muere,
              Esc
<1>4. Publicada' = Publicada /\ Tomado' = Tomado /\ Mostrado' = Mostrado
  BY <1>1, <1>3 DEF Publicada, Tomado, Mostrado, EnPrestamo
<1> QED
  BY <1>4 DEF Paso

(* The frame is taken in the last look at the sequence, and no other step  *)
(* of the desktop is seen in the window but the drawing of it.             *)
LEMMA PasoEsc ==
  ASSUME IInv, Escritorio \/ FallaPrestada \/ Desiste \/ MeDuermo
  PROVE  Paso
<1>1. UNCHANGED mem /\ Publicada' = Publicada
  BY DEF Escritorio, Reserva, MiraSello, Confirma, Presta1, Presta2, Copia, Mira, Copia1,
         Copia2, Intacto, Vigente, Dibuja, Repasa, Espera, Siesta, Vuelve, FallaPrestada,
         FallaCopia, Desiste, Rechaza, MeDuermo, Publicada
<1>2. /\ esc \in Esc /\ (esc.prestada => esc.pc = "dibuja")
      /\ esc.pc = "dibuja" => esc.a = esc.s /\ esc.b = esc.s
  BY Hechos DEF IInv, ElEscritorio, PrestamoFirme, FrameIsWhole
<1>3. EnMano <=> esc.pc \in {"presta1", "presta2", "dibuja"}
  BY <1>2 DEF EnMano, EnPrestamo
<1>4. /\ Tomado = IF EnMano THEN esc.s ELSE Mostrado
      /\ Tomado' = IF EnMano' THEN esc'.s ELSE Mostrado'
  BY DEF Tomado, EnMano, Mostrado, EnPrestamo
<1>5. CASE \/ Reserva \/ MiraSello \/ Copia \/ Mira \/ Copia1 \/ Copia2 \/ Intacto
           \/ Repasa \/ Espera \/ Siesta \/ Vuelve \/ MeDuermo
  <2>1. UNCHANGED dibujado /\ ~EnMano
    BY <1>3, <1>5 DEF Reserva, Reservable, MiraSello, Copia, Mira, Copia1, Copia2, Intacto, Repasa,
       Espera, Siesta, Vuelve, MeDuermo, Pasa
  <2>2. /\ esc'.prestada = FALSE
        /\ esc'.pc \notin {"presta1", "presta2", "dibuja"}
    <3>0. esc.prestada = FALSE
      BY <1>2, <1>3, <2>1 DEF Esc
    <3>1. CASE Reserva \/ Copia
      <4>1. CASE Reserva
        BY <1>2, <3>0, <4>1 DEF Reserva, Esc
      <4>2. CASE Copia
        <5>1. PICK cpu \in BOOLEAN :
                esc' = [esc EXCEPT !.pc = "copia", !.s = mem[secuencia], !.cpu = cpu]
          BY <4>2 DEF Copia
        <5> QED
          BY <1>2, <3>0, <5>1 DEF Esc
      <4> QED
        BY <3>1, <4>1, <4>2
    <3>2. CASE Mira \/ Copia1 \/ Copia2 \/ Intacto
      BY <1>2, <3>0, <3>2, OlvidaTipo DEF Mira, Copia1, Copia2, Intacto, Pasa, Esc
    <3>3. CASE MiraSello \/ Repasa \/ Espera
      BY <1>2, <3>0, <3>3, OlvidaTipo, LeeTipo DEF MiraSello, Repasa, Espera, Pasa, Esc
    <3>4. CASE Siesta \/ Vuelve \/ MeDuermo
      BY <1>2, <3>0, <3>4, OlvidaTipo DEF Siesta, Vuelve, MeDuermo, Pasa, Esc
    <3> QED
      BY <1>5, <3>1, <3>2, <3>3, <3>4
  <2>3. ~EnMano' /\ Mostrado' = Mostrado
    BY <2>1, <2>2 DEF EnMano, EnPrestamo, Mostrado
  <2> QED
    BY <1>1, <1>4, <2>1, <2>3 DEF Paso
<1>6. CASE Confirma \/ Vigente
  <2>1. UNCHANGED dibujado /\ ~EnMano /\ esc.prestada = FALSE
    BY <1>2, <1>3, <1>6 DEF Confirma, Vigente, Pasa, Esc
  <2>2. \/ esc'.pc \in {"libre", "lee"} /\ esc'.prestada = FALSE
        \/ esc'.pc \in {"presta1", "dibuja"} /\ esc'.s = Publicada
    BY <1>2, <1>6, <2>1, OlvidaTipo, LeeTipo DEF Confirma, Vigente, Pasa, Esc, Publicada
  <2>3. Mostrado' = Mostrado
    BY <2>1 DEF Mostrado
  <2>4. \/ ~EnMano'
        \/ EnMano' /\ esc'.s = Publicada
    BY <2>2 DEF EnMano, EnPrestamo
  <2>5. Tomado' \in {Tomado, Publicada}
    BY <1>4, <2>1, <2>3, <2>4
  <2> QED
    BY <1>1, <2>3, <2>5 DEF Paso, W!Next, W!Toma, Publicada, Mostrado
<1>7. CASE Presta1 \/ Presta2
  <2>1. /\ UNCHANGED dibujado /\ EnMano
        /\ esc'.pc \in {"presta2", "dibuja"} /\ esc'.s = esc.s
    BY <1>2, <1>3, <1>7 DEF Presta1, Presta2, Esc
  <2>2. EnMano' /\ Mostrado' = Mostrado
    BY <2>1 DEF EnMano, EnPrestamo, Mostrado
  <2> QED
    BY <1>1, <1>4, <2>1, <2>2 DEF Paso
<1>8. CASE Dibuja \/ Falla
  <2>1. esc'.pc = "libre" /\ esc'.prestada = FALSE
    BY <1>2, <1>8, AcabadaTipo
  <2>2. ~EnMano' /\ Tomado' = Mostrado'
    BY <1>4, <2>1 DEF EnMano, EnPrestamo
  <2>3. CASE Dibuja
    <3>1. dibujado' = [s |-> esc.s, a |-> esc.a, b |-> esc.b] /\ esc.a = esc.b
          /\ esc.a = esc.s
      BY <1>2, <2>3 DEF Dibuja
    <3>2. Mostrado' = esc.s /\ Tomado = esc.s
      BY <1>3, <1>4, <2>3, <3>1 DEF Mostrado, Contenido, Dibuja
    <3> QED
      BY <1>1, <2>2, <3>2 DEF Paso, W!Next, W!Muestra, Publicada, Mostrado
  <2>4. CASE Falla
    <3>1. Mostrado' = Mostrado
      BY <2>4 DEF Falla, FallaPrestada, FallaCopia, Desiste, Rechaza, Mostrado
    <3> QED
      BY <1>1, <2>2, <3>1 DEF Paso, W!Next, W!Pierde, Publicada, Mostrado
  <2> QED
    BY <1>8, <2>3, <2>4
<1> QED
  BY <1>5, <1>6, <1>7, <1>8 DEF Escritorio, Falla

(* The window goes from a published frame to a later one: whatever the two *)
(* sides and the memory do, it is a step of Escaparate or none.            *)
THEOREM LaminaShowsThePublished == Spec => ShowsThePublished
<1>1. Init => W!Init
  <2> SUFFICES ASSUME Init PROVE W!Init
    OBVIOUS
  <2>1. mem[secuencia] = 0
    BY Palabras DEF Init
  <2>2. Contenido(dibujado) = 0 /\ Tomado = 0
    BY DEF Init, Contenido, Tomado, EnPrestamo
  <2> QED
    BY <2>1, <2>2 DEF W!Init
<1>2. IInv /\ [Next]_vars => Paso
  <2> SUFFICES ASSUME IInv, [Next]_vars PROVE Paso
    OBVIOUS
  <2>1. CASE UNCHANGED vars
    BY <2>1 DEF vars, Paso, Publicada, Tomado, Mostrado, EnPrestamo
  <2>2. CASE Next
    BY <2>2, PasoDrena, PasoApp, PasoEsc DEF Next
  <2> QED
    BY <2>1, <2>2
<1>3. IInv /\ [Next]_vars => [W!Next]_<<mem[secuencia], Tomado, Contenido(dibujado)>>
  BY <1>2 DEF Paso, Publicada, Mostrado
<1> QED
  BY Inductive, <1>1, <1>3, PTL DEF Spec, ShowsThePublished, W!Spec
=============================================================================
