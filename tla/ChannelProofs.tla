--------------------------- MODULE ChannelProofs ----------------------------
(***************************************************************************)
(* Proofs about Channel, for every size of the rings and every budget, and *)
(* for runs without end (the bound on messages plays no part).             *)
(***************************************************************************)
EXTENDS Channel, Integers, SequenceTheorems, TLAPS

(* ring3_submit found room, and only ring0_process_n moves submit_tail,    *)
(* upwards: until the head is published there is room for one more.        *)
RoomForOne ==
  cliente.pc \in {"opcode", "args", "head"} => submit_head - submit_tail < RingSize

(* ring3_poll_n copies what lies between the tail and the head it read,    *)
(* and only the kernel moves the head, upwards.                            *)
PollWithin ==
  cliente.pc = "poll" =>
    /\ complete_tail <= cliente.tail /\ cliente.tail <= cliente.head
    /\ cliente.head <= complete_head

(* Ring 3 stands still while ring0_process_n runs, so the head it read is  *)
(* the head still, and the bell it answered to is still up.                *)
ServingWithin ==
  nucleo.sirve =>
    /\ submit_tail <= nucleo.tail /\ nucleo.tail <= nucleo.head
    /\ nucleo.head = submit_head
    /\ doorbell = 1

(* A completion that a sleeper does not know of was made by this service,  *)
(* which counted its request and will wake it.                             *)
ServiceWillWake ==
  (nucleo.sirve /\ cliente.pc = "duerme" /\ complete_head # cliente.visto)
    => nucleo.count > 0

IInv == /\ TypeOK /\ RoomForOne /\ PollWithin /\ ServingWithin /\ ServiceWillWake
        /\ BellTellsOfWork /\ NoCompletionSleptOn

(* The remainder that picks the slot of an index is a slot. *)
LEMMA HuecoIndex == \A i \in Nat : Hueco(i) \in Index
  BY RingAssumption DEF Hueco, Index

(* Init of the page and of both sides. *)
LEMMA InitIInv == Init => IInv
  BY RingAssumption, OpsAssumption
  DEF Init, IInv, TypeOK, RoomForOne, PollWithin, ServingWithin, ServiceWillWake,
      BellTellsOfWork, NoCompletionSleptOn, Entry, Codigos, Cliente, Nucleo, Index

(* ring3_submit and ring3_doorbell write the head, the bell and a slot;    *)
(* none of them runs while the kernel serves.                              *)
LEMMA SubmitIInv ==
  ASSUME IInv, NEW op \in Codigos, Submit(op)
  PROVE  IInv'
  BY DEF Submit, Cliente, IInv, TypeOK, RoomForOne, PollWithin, ServingWithin, ServiceWillWake,
      BellTellsOfWork, NoCompletionSleptOn, pagina, En

LEMMA EscribeOpcodeIInv ==
  ASSUME IInv, EscribeOpcode
  PROVE  IInv'
<1>1. Hueco(submit_head) \in Index
  BY HuecoIndex DEF IInv, TypeOK
<1>2. submit_ring' \in [Index -> Entry]
  BY <1>1 DEF EscribeOpcode, Entry, Cliente, IInv, TypeOK
<1> QED
  BY <1>2 DEF EscribeOpcode, Cliente, IInv, TypeOK, RoomForOne, PollWithin, ServingWithin, ServiceWillWake,
      BellTellsOfWork, NoCompletionSleptOn, pagina, En

LEMMA EscribeArgsIInv ==
  ASSUME IInv, EscribeArgs
  PROVE  IInv'
<1>1. Hueco(submit_head) \in Index
  BY HuecoIndex DEF IInv, TypeOK
<1>2. submit_ring' \in [Index -> Entry]
  BY <1>1 DEF EscribeArgs, Entry, IInv, TypeOK
<1> QED
  BY <1>2 DEF EscribeArgs, Cliente, IInv, TypeOK, RoomForOne, PollWithin, ServingWithin, ServiceWillWake,
      BellTellsOfWork, NoCompletionSleptOn, pagina, En

LEMMA PublicaHeadIInv ==
  ASSUME IInv, PublicaHead
  PROVE  IInv'
<1>1. cliente' \in Cliente /\ cliente'.pc = "libre" /\ cliente'.debe
  BY DEF PublicaHead, Cliente, Codigos, IInv, TypeOK
<1>2. submit_head' \in submit_tail .. submit_tail + RingSize /\ ~nucleo.sirve
  BY RingAssumption DEF PublicaHead, En, IInv, TypeOK, RoomForOne
<1>3. TypeOK'
  BY <1>1, <1>2 DEF PublicaHead, IInv, TypeOK
<1> QED
  BY <1>1, <1>2, <1>3 DEF PublicaHead, IInv, RoomForOne, PollWithin, ServingWithin, ServiceWillWake,
              BellTellsOfWork, NoCompletionSleptOn

LEMMA DoorbellIInv ==
  ASSUME IInv, Doorbell
  PROVE  IInv'
  BY DEF Doorbell, Cliente, IInv, TypeOK, RoomForOne, PollWithin, ServingWithin, ServiceWillWake,
      BellTellsOfWork, NoCompletionSleptOn, pagina, En

(* ring3_poll_n only moves its own copies, and at the end the tail. *)
LEMMA PollIInv ==
  ASSUME IInv, NEW limit \in Nat, Poll(limit)
  PROVE  IInv'
<1>1. cliente' \in Cliente /\ cliente'.pc = "poll" /\ cliente'.debe = cliente.debe
      /\ cliente'.tail = complete_tail /\ cliente'.head = complete_head
  <2>1. complete_head \in Nat /\ complete_tail \in Nat /\ cliente \in Cliente
    BY RingAssumption DEF IInv, TypeOK
  <2> QED
    BY <2>1 DEF Poll, Cliente
<1>2. TypeOK'
  BY <1>1 DEF Poll, pagina, IInv, TypeOK
<1> QED
  BY <1>1, <1>2 DEF Poll, pagina, IInv, TypeOK, RoomForOne, PollWithin, ServingWithin, ServiceWillWake,
              BellTellsOfWork, NoCompletionSleptOn

LEMMA LeeUnaIInv ==
  ASSUME IInv, LeeUna
  PROVE  IInv'
<1>1. Hueco(cliente.tail) \in Index
  BY HuecoIndex DEF IInv, TypeOK, Cliente
<1>2. ultima' \in Entry \cup {Nada}
  BY <1>1 DEF LeeUna, IInv, TypeOK
<1>3. cliente' \in Cliente /\ cliente'.pc = "poll" /\ cliente'.debe = cliente.debe
      /\ cliente'.tail = cliente.tail + 1 /\ cliente'.head = cliente.head
      /\ cliente.tail < cliente.head /\ cliente.tail \in Nat /\ cliente.head \in Nat
  <2>1. cliente' = [cliente EXCEPT !.tail = @ + 1, !.queda = @ - 1]
        /\ cliente.pc = "poll" /\ cliente.tail < cliente.head /\ cliente \in Cliente
        /\ cliente.queda > 0
    BY DEF LeeUna, En, IInv, TypeOK
  <2>2. cliente.tail + 1 \in Nat /\ cliente.queda - 1 \in Nat
    BY <2>1 DEF Cliente
  <2> QED
    BY <2>1, <2>2 DEF Cliente
<1>4. TypeOK'
  BY <1>2, <1>3 DEF LeeUna, pagina, IInv, TypeOK
<1>5. PollWithin'
  BY <1>3 DEF LeeUna, En, pagina, IInv, TypeOK, PollWithin
<1> QED
  BY <1>3, <1>4, <1>5 DEF LeeUna, pagina, IInv, RoomForOne, PollWithin, ServingWithin, ServiceWillWake,
              BellTellsOfWork, NoCompletionSleptOn

LEMMA PollAcabaIInv ==
  ASSUME IInv, PollAcaba
  PROVE  IInv'
<1>1. cliente' \in Cliente /\ cliente'.pc = "libre" /\ cliente'.debe = cliente.debe
  BY DEF PollAcaba, Cliente, IInv, TypeOK
<1>2. complete_tail' \in complete_tail .. complete_head /\ cliente.tail \in Nat
  BY DEF PollAcaba, En, Cliente, IInv, TypeOK, PollWithin
<1>3. TypeOK'
  BY <1>1, <1>2, RingAssumption DEF PollAcaba, IInv, TypeOK
<1> QED
  BY <1>1, <1>3 DEF PollAcaba, IInv, RoomForOne, PollWithin, ServingWithin, ServiceWillWake,
              BellTellsOfWork, NoCompletionSleptOn

(* WAIT, what comes before it and its deadline move no index. *)
LEMMA MiraIInv ==
  ASSUME IInv, Mira
  PROVE  IInv'
  BY DEF Mira, Cliente, IInv, TypeOK, RoomForOne, PollWithin, ServingWithin, ServiceWillWake,
      BellTellsOfWork, NoCompletionSleptOn, pagina, En

LEMMA WaitIInv ==
  ASSUME IInv, Wait
  PROVE  IInv'
  BY DEF Wait, Cliente, IInv, TypeOK, RoomForOne, PollWithin, ServingWithin, ServiceWillWake,
      BellTellsOfWork, NoCompletionSleptOn, pagina, En

LEMMA VenceIInv ==
  ASSUME IInv, Vence
  PROVE  IInv'
  BY DEF Vence, Cliente, IInv, TypeOK, RoomForOne, PollWithin, ServingWithin, ServiceWillWake,
      BellTellsOfWork, NoCompletionSleptOn, pagina, En

(* The kernel's side. *)
LEMMA ServiceIInv ==
  ASSUME IInv, Service
  PROVE  IInv'
  BY DEF Service, Nucleo, Cliente, IInv, TypeOK, RoomForOne, PollWithin, ServingWithin, ServiceWillWake,
      BellTellsOfWork, NoCompletionSleptOn, pagina, En

LEMMA ProcessIInv ==
  ASSUME IInv, Process
  PROVE  IInv'
<1> DEFINE i == Hueco(nucleo.tail)
<1>1. i \in Index /\ Hueco(complete_head) \in Index
  BY HuecoIndex DEF IInv, TypeOK, Nucleo
<1>2. submit_ring[i] \in Entry
  BY <1>1 DEF IInv, TypeOK
<1>3. submit_ring' \in [Index -> Entry]
  BY <1>1 DEF Process, Entry, Codigos, IInv, TypeOK
<1>4. complete_ring' \in [Index -> Entry]
  BY <1>1, <1>2 DEF Process, IInv, TypeOK
<1>5. nucleo' \in Nucleo /\ nucleo'.sirve /\ nucleo'.head = nucleo.head
      /\ nucleo'.tail = nucleo.tail + 1 /\ nucleo'.count > 0
      /\ nucleo.tail < nucleo.head
  <2>1. nucleo' = [nucleo EXCEPT !.tail = @ + 1, !.count = @ + 1]
        /\ nucleo.sirve /\ nucleo.tail < nucleo.head /\ nucleo \in Nucleo
    BY DEF Process, SigueYCabe, Sigue, IInv, TypeOK
  <2>2. nucleo.tail + 1 \in Nat /\ nucleo.count + 1 \in Nat
    BY <2>1 DEF Nucleo
  <2>3. nucleo' \in Nucleo
    BY <2>1, <2>2 DEF Nucleo
  <2>4. nucleo'.sirve = nucleo.sirve /\ nucleo'.head = nucleo.head
        /\ nucleo'.tail = nucleo.tail + 1 /\ nucleo'.count = nucleo.count + 1
    BY <2>1 DEF Nucleo
  <2>5. nucleo.count \in Nat
    BY <2>1 DEF Nucleo
  <2> QED
    BY <2>1, <2>3, <2>4, <2>5
<1>6. complete_head' \in {complete_head, complete_head + 1}
      /\ complete_head < complete_tail + RingSize
  BY RingAssumption DEF Process, SigueYCabe, CompletionFull, IInv, TypeOK
<1>7. TypeOK'
  BY <1>3, <1>4, <1>5, <1>6, RingAssumption DEF Process, IInv, TypeOK
<1>8. RoomForOne' /\ PollWithin'
  BY <1>6 DEF Process, Cliente, IInv, TypeOK, RoomForOne, PollWithin
<1>9. ServingWithin' /\ ServiceWillWake' /\ BellTellsOfWork' /\ NoCompletionSleptOn'
  BY <1>5 DEF Process, Nucleo, IInv, TypeOK, ServingWithin, ServiceWillWake,
              BellTellsOfWork, NoCompletionSleptOn
<1> QED
  BY <1>7, <1>8, <1>9 DEF IInv

LEMMA ServiceEndsIInv ==
  ASSUME IInv, ServiceEnds
  PROVE  IInv'
<1>1. cliente' \in Cliente /\ cliente'.debe = cliente.debe
      /\ cliente'.visto = cliente.visto /\ cliente'.head = cliente.head
      /\ cliente'.tail = cliente.tail
      /\ cliente'.pc = IF nucleo.count > 0 /\ cliente.pc = "duerme"
                       THEN "libre" ELSE cliente.pc
  BY DEF ServiceEnds, Cliente, IInv, TypeOK
<1>2. nucleo.tail \in submit_tail .. submit_head /\ nucleo.head = submit_head
      /\ nucleo' \in Nucleo /\ ~nucleo'.sirve
  BY DEF ServiceEnds, Nucleo, IInv, TypeOK, ServingWithin
<1>3. TypeOK'
  BY <1>1, <1>2, RingAssumption DEF ServiceEnds, IInv, TypeOK
<1>4. RoomForOne' /\ PollWithin'
  BY <1>1, <1>2, RingAssumption
  DEF ServiceEnds, IInv, TypeOK, RoomForOne, PollWithin
<1>5. NoCompletionSleptOn'
  BY <1>1 DEF ServiceEnds, IInv, ServiceWillWake, NoCompletionSleptOn
<1>6. BellTellsOfWork' /\ ServingWithin' /\ ServiceWillWake'
  BY <1>2 DEF ServiceEnds, BellTellsOfWork, ServingWithin, ServiceWillWake
<1> QED
  BY <1>3, <1>4, <1>5, <1>6 DEF IInv

LEMMA CompleteIInv ==
  ASSUME IInv, NEW op \in Codigos, Complete(op)
  PROVE  IInv'
<1>1. Hueco(complete_head) \in Index
  BY HuecoIndex DEF IInv, TypeOK
<1>2. complete_ring' \in [Index -> Entry]
  BY <1>1 DEF Complete, Entry, IInv, TypeOK
<1> QED
  BY <1>2, RingAssumption DEF Complete, CompletionFull, Cliente, IInv, TypeOK, RoomForOne, PollWithin, ServingWithin, ServiceWillWake,
      BellTellsOfWork, NoCompletionSleptOn, pagina, En

(* Every step, and the step that changes nothing. *)
LEMMA NextIInv == IInv /\ [Next]_vars => IInv'
<1> SUFFICES ASSUME IInv, [Next]_vars PROVE IInv'
  OBVIOUS
<1>1. ASSUME NEW op \in Codigos, Submit(op) \/ Complete(op) PROVE IInv'
  BY <1>1, SubmitIInv, CompleteIInv
<1>2. CASE EscribeOpcode \/ EscribeArgs \/ PublicaHead \/ Doorbell
  BY <1>2, EscribeOpcodeIInv, EscribeArgsIInv, PublicaHeadIInv, DoorbellIInv
<1>3. ASSUME NEW limit \in 1 .. RingSize, Poll(limit) PROVE IInv'
  BY <1>3, PollIInv, RingAssumption
<1>4. CASE LeeUna \/ PollAcaba
  BY <1>4, LeeUnaIInv, PollAcabaIInv
<1>5. CASE Mira \/ Wait \/ Vence
  BY <1>5, MiraIInv, WaitIInv, VenceIInv
<1>6. CASE Service \/ Process \/ ServiceEnds
  BY <1>6, ServiceIInv, ProcessIInv, ServiceEndsIInv
<1>7. CASE UNCHANGED vars
  BY <1>7 DEF vars, CompletionFull, IInv, TypeOK, RoomForOne, PollWithin, ServingWithin, ServiceWillWake,
      BellTellsOfWork, NoCompletionSleptOn, pagina, En
<1> QED
  BY <1>1, <1>2, <1>3, <1>4, <1>5, <1>6, <1>7 DEF Next

(* The inductive invariant of the rings, the bell and the sleep. *)
THEOREM Inductive == Spec => []IInv
<1> QED
  BY InitIInv, NextIInv, PTL DEF Spec

(* channel.rs, bmo-channel: the page stays well typed, and what is in      *)
(* flight never exceeds a ring, whatever its size.                         *)
THEOREM TypeCorrect == Spec => []TypeOK
<1>1. IInv => TypeOK
  BY DEF IInv
<1> QED
  BY <1>1, Inductive, PTL

(* ring0_process_n, ring3_doorbell: no request is left behind with the     *)
(* bell down.                                                              *)
THEOREM BellIsUp == Spec => []BellTellsOfWork
<1>1. IInv => BellTellsOfWork
  BY DEF IInv
<1> QED
  BY <1>1, Inductive, PTL

(* service, wait_current_checked: no completion is slept on. *)
THEOREM SleepersAreTold == Spec => []NoCompletionSleptOn
<1>1. IInv => NoCompletionSleptOn
  BY DEF IInv
<1> QED
  BY <1>1, Inductive, PTL

----------------------------------------------------------------------------
(* The rings implement the queues.  First, the rings as sequences. *)
(* A multiple of N is at least N, or no more than zero. *)
LEMMA Crece ==
  ASSUME NEW N \in Nat \ {0}, NEW q \in Int
  PROVE  (q >= 1 => N * q >= N) /\ (q <= 0 => N * q <= 0)
<1>1. ASSUME q >= 1 PROVE N * q >= N
  BY <1>1
<1>2. ASSUME q <= 0 PROVE N * q <= 0
  BY <1>2
<1> QED
  BY <1>1, <1>2

(* Two indices less than a ring apart are two slots. *)
LEMMA HuecoDistinct ==
  ASSUME NEW i \in Nat, NEW j \in Nat, i < j, j < i + RingSize
  PROVE  Hueco(i) # Hueco(j)
<1> SUFFICES ASSUME i % RingSize = j % RingSize PROVE FALSE
  BY DEF Hueco
<1> DEFINE N == RingSize
           q == (j \div N) - (i \div N)
<1>1. \A n \in Nat : n = N * (n \div N) + (n % N) /\ n \div N \in Int
  BY RingAssumption
<1>2. q \in Int
  BY <1>1
<1>3. \A a, b \in Int : N * a - N * b = N * (a - b)
  BY RingAssumption
<1>4. j - i = N * q
  <2>1. i = N * (i \div N) + (i % N) /\ j = N * (j \div N) + (i % N)
    BY <1>1
  <2>2. N * (i \div N) \in Int /\ N * (j \div N) \in Int /\ (i % N) \in Int
    BY <1>1, RingAssumption
  <2>3. j - i = N * (j \div N) - N * (i \div N)
    BY <2>1, <2>2
  <2> QED
    BY <2>3, <1>1, <1>3
<1>5. q >= 1 => N * q >= N
  BY <1>2, RingAssumption, Crece
<1>6. q <= 0 => N * q <= 0
  BY <1>2, RingAssumption, Crece
<1>7. q >= 1 \/ q <= 0
  BY <1>2
<1> HIDE DEF q
<1> QED
  BY <1>2, <1>4, <1>5, <1>6, <1>7, RingAssumption

(* What lies between two indices is a sequence as long as their distance. *)
LEMMA EntreSeq ==
  ASSUME NEW S, NEW ring \in [Index -> S], NEW a \in Nat, NEW b \in Nat, a <= b
  PROVE  Entre(ring, a, b) \in Seq(S) /\ Len(Entre(ring, a, b)) = b - a
<1>1. \A k \in 1 .. b - a : Hueco(a + k - 1) \in Index
  BY HuecoIndex
<1> QED
  BY <1>1 DEF Entre

(* Between an index and itself there is nothing. *)
LEMMA EntreVacio == \A ring : \A a \in Nat : Entre(ring, a, a) = <<>>
  BY DEF Entre

(* A store in the slot past the last one disturbs none of those before.   *)
LEMMA EntreAparte ==
  ASSUME NEW S, NEW r \in [Index -> S], NEW r2 \in [Index -> S],
         NEW a \in Nat, NEW b \in Nat, a <= b, b < a + RingSize,
         \A i \in Index : i # Hueco(b) => r2[i] = r[i]
  PROVE  Entre(r2, a, b) = Entre(r, a, b)
<1>1. ASSUME NEW k \in 1 .. b - a
      PROVE  r2[Hueco(a + k - 1)] = r[Hueco(a + k - 1)]
  <2>1. a + k - 1 \in Nat /\ a + k - 1 < b /\ b < (a + k - 1) + RingSize
    BY RingAssumption
  <2> QED
    BY <2>1, HuecoDistinct, HuecoIndex
<1> QED
  BY <1>1 DEF Entre

(* Filling that slot and moving the head up appends what was stored.       *)
LEMMA EntreAppend ==
  ASSUME NEW S, NEW r \in [Index -> S], NEW r2 \in [Index -> S],
         NEW a \in Nat, NEW b \in Nat, a <= b, b < a + RingSize,
         \A i \in Index : i # Hueco(b) => r2[i] = r[i]
  PROVE  Entre(r2, a, b + 1) = Append(Entre(r, a, b), r2[Hueco(b)])
<1>1. Entre(r, a, b) = Entre(r2, a, b)
  BY EntreAparte
<1>2. Entre(r2, a, b) \in Seq(S) /\ Len(Entre(r2, a, b)) = b - a
  BY EntreSeq
<1>3. \A k \in 1 .. b - a : Entre(r2, a, b + 1)[k] = Entre(r2, a, b)[k]
  BY DEF Entre
<1>4. Entre(r2, a, b + 1)[b + 1 - a] = r2[Hueco(b)]
  BY DEF Entre
<1>5. Entre(r2, a, b + 1) \in Seq(S) /\ Len(Entre(r2, a, b + 1)) = b + 1 - a
  <2>1. b + 1 \in Nat /\ a <= b + 1
    OBVIOUS
  <2>2. \A c \in Nat : a <= c =>
          Entre(r2, a, c) \in Seq(S) /\ Len(Entre(r2, a, c)) = c - a
    BY EntreSeq
  <2> QED
    BY <2>1, <2>2
<1>6. r2[Hueco(b)] \in S
  BY HuecoIndex
<1>7. Append(Entre(r2, a, b), r2[Hueco(b)]) \in Seq(S)
      /\ Len(Append(Entre(r2, a, b), r2[Hueco(b)])) = b + 1 - a
      /\ \A k \in 1 .. b - a :
           Append(Entre(r2, a, b), r2[Hueco(b)])[k] = Entre(r2, a, b)[k]
      /\ Append(Entre(r2, a, b), r2[Hueco(b)])[b + 1 - a] = r2[Hueco(b)]
  BY <1>2, <1>6, AppendProperties
<1>8. \A k \in 1 .. b + 1 - a :
        Entre(r2, a, b + 1)[k] = Append(Entre(r2, a, b), r2[Hueco(b)])[k]
  BY <1>3, <1>4, <1>7
<1>9. Entre(r2, a, b + 1) = Append(Entre(r2, a, b), r2[Hueco(b)])
  BY <1>5, <1>7, <1>8, SeqEqual
<1> QED
  BY <1>1, <1>9

(* Taking the first entry, and whatever is then stored in its slot, leaves *)
(* the tail.                                                               *)
LEMMA EntreTail ==
  ASSUME NEW S, NEW r \in [Index -> S], NEW r2 \in [Index -> S],
         NEW a \in Nat, NEW b \in Nat, a < b, b <= a + RingSize,
         \A i \in Index : i # Hueco(a) => r2[i] = r[i]
  PROVE  /\ Entre(r, a, b) # <<>>
         /\ Head(Entre(r, a, b)) = r[Hueco(a)]
         /\ Entre(r2, a + 1, b) = Tail(Entre(r, a, b))
<1>0. a <= b /\ a + 1 <= b /\ a + 1 \in Nat
  OBVIOUS
<1>1. Entre(r, a, b) \in Seq(S) /\ Len(Entre(r, a, b)) = b - a
  BY <1>0, EntreSeq
<1>2. Entre(r, a, b) # <<>> /\ Head(Entre(r, a, b)) = r[Hueco(a)]
  <2>1. Entre(r, a, b)[1] = r[Hueco(a + 1 - 1)] /\ a + 1 - 1 = a
    BY DEF Entre
  <2>2. Entre(r, a, b) # <<>>
    BY <1>1
  <2> QED
    BY <1>1, <2>1, <2>2
<1>3. Entre(r2, a + 1, b) \in Seq(S) /\ Len(Entre(r2, a + 1, b)) = b - (a + 1)
  BY <1>0, EntreSeq, ZenonT(60)
<1>4. ASSUME NEW k \in 1 .. b - (a + 1)
      PROVE  Entre(r2, a + 1, b)[k] = Entre(r, a, b)[k + 1]
  <2>1. a \in Nat /\ a + k \in Nat /\ a < a + k /\ a + k < a + RingSize
    BY RingAssumption
  <2>2. r2[Hueco(a + k)] = r[Hueco(a + k)]
    BY <2>1, HuecoDistinct, HuecoIndex
  <2>3. (a + 1) + k - 1 = a + k /\ a + (k + 1) - 1 = a + k /\ k + 1 \in 1 .. b - a
    OBVIOUS
  <2> QED
    BY <2>2, <2>3 DEF Entre
<1>5. Tail(Entre(r, a, b)) \in Seq(S) /\ Len(Tail(Entre(r, a, b))) = b - (a + 1)
      /\ \A k \in 1 .. b - (a + 1) : Tail(Entre(r, a, b))[k] = Entre(r, a, b)[k + 1]
  BY <1>1, <1>2, HeadTailProperties
<1>6. Entre(r2, a + 1, b) = Tail(Entre(r, a, b))
  BY <1>3, <1>4, <1>5, SeqEqual
<1> QED
  BY <1>2, <1>6

(* The slot that ring3_submit is filling holds what it stored so far: the  *)
(* kernel empties other slots only.                                        *)
SlotInHand ==
  /\ cliente.pc \in {"args", "head"} =>
       submit_ring[Hueco(submit_head)].op = cliente.op
  /\ cliente.pc = "head" => submit_ring[Hueco(submit_head)].arg = cuenta + 1

(* Ring 3 fills the slot word by word; ring0_process_n clears the opcode   *)
(* of slots before the head.                                               *)
LEMMA SlotInHandNext ==
  ASSUME IInv, SlotInHand, [Next]_vars
  PROVE  SlotInHand'
<1> DEFINE h == Hueco(submit_head)
<1>0. h \in Index /\ submit_ring \in [Index -> Entry]
  BY HuecoIndex DEF IInv, TypeOK
<1>1. CASE EscribeOpcode
  <2>1. cliente'.pc = "args" /\ cliente'.op = cliente.op
    BY <1>1 DEF EscribeOpcode, Cliente, IInv, TypeOK
  <2>2. submit_ring'[h].op = cliente.op /\ submit_head' = submit_head
    BY <1>0, <1>1 DEF EscribeOpcode, Entry
  <2> QED
    BY <2>1, <2>2 DEF SlotInHand
<1>2. CASE EscribeArgs
  <2>1. cliente'.pc = "head" /\ cliente'.op = cliente.op /\ cliente.pc = "args"
    BY <1>2 DEF EscribeArgs, En, Cliente, IInv, TypeOK
  <2>2. submit_ring'[h].op = submit_ring[h].op /\ submit_ring'[h].arg = cuenta + 1
        /\ submit_head' = submit_head /\ cuenta' = cuenta
    BY <1>0, <1>2 DEF EscribeArgs, Entry
  <2> QED
    BY <2>1, <2>2 DEF SlotInHand
<1>3. CASE Process
  <2> DEFINE i == Hueco(nucleo.tail)
  <2>1. CASE cliente.pc \in {"args", "head"}
    <3>1. nucleo.tail \in Nat /\ submit_head \in Nat /\ nucleo.tail < submit_head
          /\ submit_head < nucleo.tail + RingSize
      BY <1>3, <2>1, RingAssumption
      DEF Process, SigueYCabe, Sigue, Nucleo, IInv, TypeOK, ServingWithin, RoomForOne
    <3>2. i # h
      BY <3>1, HuecoDistinct
    <3>3. submit_ring'[h] = submit_ring[h]
      BY <1>0, <1>3, <3>2 DEF Process
    <3> QED
      BY <1>3, <3>3 DEF Process, SlotInHand
  <2>2. CASE cliente.pc \notin {"args", "head"}
    BY <1>3, <2>2 DEF Process, SlotInHand
  <2> QED
    BY <2>1, <2>2
<1>4. CASE ServiceEnds
  <2>1. cliente' = cliente \/ cliente'.pc = "libre"
    BY <1>4 DEF ServiceEnds, Cliente, IInv, TypeOK
  <2> QED
    BY <1>4, <2>1 DEF ServiceEnds, SlotInHand
<1>5. ASSUME NEW op \in Codigos, Submit(op) PROVE SlotInHand'
  <2>1. cliente'.pc = "opcode"
    BY <1>5 DEF Submit, Cliente, IInv, TypeOK
  <2> QED
    BY <2>1 DEF SlotInHand
<1>6. ASSUME NEW limit \in 1 .. RingSize, Poll(limit) PROVE SlotInHand'
  <2>1. cliente'.pc = "poll"
    BY <1>6 DEF Poll, Cliente, IInv, TypeOK
  <2> QED
    BY <2>1 DEF SlotInHand
<1>7. CASE PublicaHead \/ PollAcaba \/ Vence
  <2>1. cliente'.pc = "libre"
    BY <1>7 DEF PublicaHead, PollAcaba, Vence, Cliente, IInv, TypeOK
  <2> QED
    BY <2>1 DEF SlotInHand
<1>8. CASE Doorbell \/ Mira \/ LeeUna \/ Wait
  <2>1. cliente'.pc \notin {"args", "head"}
    BY <1>8 DEF Doorbell, Mira, LeeUna, Wait, En, Cliente, IInv, TypeOK
  <2> QED
    BY <2>1 DEF SlotInHand
<1>9. ASSUME NEW op \in Codigos, Complete(op) PROVE SlotInHand'
  BY <1>9 DEF Complete, En, SlotInHand
<1>10. CASE Service \/ UNCHANGED vars
  BY <1>10 DEF Service, vars, pagina, SlotInHand
<1> QED
  BY <1>1, <1>2, <1>3, <1>4, <1>5, <1>6, <1>7, <1>8, <1>9, <1>10 DEF Next

(* The two queues of the mapping. *)
Pet == Entre(submit_ring, Abiertas, submit_head)
Res == Entre(complete_ring, SinLeer, complete_head)

(* How far the indices of both queues lie apart. *)
LEMMA Indices ==
  ASSUME IInv
  PROVE  /\ Abiertas \in Nat /\ submit_head \in Nat
         /\ Abiertas <= submit_head /\ submit_head <= Abiertas + RingSize
         /\ SinLeer \in Nat /\ complete_head \in Nat
         /\ SinLeer <= complete_head /\ complete_head <= SinLeer + RingSize
         /\ complete_tail <= SinLeer /\ complete_tail \in Nat
         /\ submit_ring \in [Index -> Entry] /\ complete_ring \in [Index -> Entry]
<1>1. Abiertas \in Nat /\ submit_head \in Nat
      /\ Abiertas <= submit_head /\ submit_head <= Abiertas + RingSize
  BY RingAssumption DEF Abiertas, IInv, TypeOK, ServingWithin, Nucleo
<1>2. SinLeer \in Nat /\ complete_head \in Nat
      /\ SinLeer <= complete_head /\ complete_head <= SinLeer + RingSize
      /\ complete_tail <= SinLeer /\ complete_tail \in Nat
  BY RingAssumption DEF SinLeer, IInv, TypeOK, PollWithin, Cliente
<1> QED
  BY <1>1, <1>2 DEF IInv, TypeOK

(* Both rings are empty at first. *)
LEMMA InitQueues == Init => E!Init
<1> SUFFICES ASSUME Init PROVE E!Init
  OBVIOUS
<1>1. Abiertas = 0 /\ SinLeer = 0
  BY DEF Init, Abiertas, SinLeer
<1>2. Entre(submit_ring, Abiertas, submit_head) = <<>>
      /\ Entre(complete_ring, SinLeer, complete_head) = <<>>
  BY <1>1, EntreVacio DEF Init
<1> QED
  BY <1>2 DEF Init, E!Init

(* Steps that move nothing between the queues. *)
LEMMA QuietSteps ==
  ASSUME IInv,
         \/ \E op \in Codigos : Submit(op)
         \/ \E limit \in 1 .. RingSize : Poll(limit)
         \/ PollAcaba \/ Doorbell \/ Mira \/ Wait \/ Vence \/ Service \/ ServiceEnds
         \/ UNCHANGED vars
  PROVE  UNCHANGED <<Pet, Res, cuenta, ultima>>
<1>1. /\ UNCHANGED <<submit_ring, submit_head, complete_ring, complete_head>>
      /\ UNCHANGED <<cuenta, ultima>>
  BY DEF Submit, Poll, PollAcaba, Doorbell, Mira, Wait, Vence, Service,
         ServiceEnds, vars, pagina
<1>2. Abiertas' = Abiertas
  <2>1. CASE Service
    BY <2>1 DEF Service, Abiertas, pagina
  <2>2. CASE ServiceEnds
    BY <2>2 DEF ServiceEnds, Abiertas
  <2>3. CASE UNCHANGED <<submit_tail, nucleo>>
    BY <2>3 DEF Abiertas
  <2> QED
    BY <2>1, <2>2, <2>3 DEF Submit, Poll, PollAcaba, Doorbell, Mira, Wait, Vence,
                            vars, pagina
<1>3. SinLeer' = SinLeer
  <2>1. ASSUME NEW limit \in 1 .. RingSize, Poll(limit) PROVE SinLeer' = SinLeer
    <3>1. cliente'.pc = "poll" /\ cliente'.tail = complete_tail /\ cliente.pc = "libre"
      BY <2>1 DEF Poll, En, Cliente, IInv, TypeOK
    <3> QED
      BY <3>1 DEF SinLeer
  <2>2. CASE PollAcaba
    <3>1. cliente'.pc = "libre" /\ complete_tail' = cliente.tail /\ cliente.pc = "poll"
      BY <2>2 DEF PollAcaba, En, Cliente, IInv, TypeOK
    <3> QED
      BY <3>1 DEF SinLeer
  <2>3. CASE (\E op \in Codigos : Submit(op)) \/ Doorbell \/ Mira \/ Wait \/ Vence
    <3>1. cliente'.pc # "poll" /\ cliente.pc # "poll" /\ complete_tail' = complete_tail
      BY <2>3 DEF Submit, Doorbell, Mira, Wait, Vence, En, Cliente, pagina, IInv, TypeOK
    <3> QED
      BY <3>1 DEF SinLeer
  <2>4. CASE Service \/ UNCHANGED vars
    BY <2>4 DEF Service, vars, pagina, SinLeer
  <2>5. CASE ServiceEnds
    <3>1. cliente' = cliente \/ (cliente'.pc = "libre" /\ cliente.pc = "duerme")
      BY <2>5 DEF ServiceEnds, Cliente, IInv, TypeOK
    <3> QED
      BY <2>5, <3>1 DEF ServiceEnds, SinLeer
  <2> QED
    BY <2>1, <2>2, <2>3, <2>4, <2>5
<1> QED
  BY <1>1, <1>2, <1>3 DEF Pet, Res

(* Filling the slot past the head is no step of the queues either. *)
LEMMA FillingSteps ==
  ASSUME IInv, EscribeOpcode \/ EscribeArgs
  PROVE  UNCHANGED <<Pet, Res, cuenta, ultima>>
<1>1. UNCHANGED <<submit_head, complete_ring, complete_head, cuenta, ultima,
                  submit_tail, nucleo, complete_tail>>
  BY DEF EscribeOpcode, EscribeArgs
<1>2. cliente.pc \in {"opcode", "args"} /\ cliente'.pc \in {"args", "head"} /\ ~nucleo.sirve
  BY DEF EscribeOpcode, EscribeArgs, En, Cliente, IInv, TypeOK
<1>3. Abiertas' = Abiertas /\ SinLeer' = SinLeer /\ Abiertas = submit_tail
  BY <1>1, <1>2 DEF Abiertas, SinLeer
<1>4. submit_ring' \in [Index -> Entry]
  BY EscribeOpcodeIInv, EscribeArgsIInv DEF IInv, TypeOK
<1>5. \A i \in Index : i # Hueco(submit_head) => submit_ring'[i] = submit_ring[i]
  BY DEF EscribeOpcode, EscribeArgs, IInv, TypeOK
<1>6. submit_head < Abiertas + RingSize
  BY <1>2, <1>3, Indices, RingAssumption DEF IInv, RoomForOne
<1>7. Entre(submit_ring', Abiertas, submit_head) = Pet
  BY <1>4, <1>5, <1>6, Indices, EntreAparte, SMTT(30) DEF Pet
<1> QED
  BY <1>1, <1>3, <1>7 DEF Pet, Res

(* submit_head.store(Release) makes the request. *)
LEMMA PublicaHeadPide ==
  ASSUME IInv, SlotInHand, PublicaHead
  PROVE  E!Pide(cliente.op)
<1>1. submit_head' = submit_head + 1 /\ cuenta' = cuenta + 1
      /\ UNCHANGED <<submit_tail, complete_tail, submit_ring, complete_ring,
                     complete_head, nucleo, ultima>>
  BY DEF PublicaHead
<1>2. cliente.pc = "head" /\ ~nucleo.sirve /\ cliente'.pc = "libre"
  BY DEF PublicaHead, En, Cliente, IInv, TypeOK
<1>3. Abiertas' = Abiertas /\ SinLeer' = SinLeer /\ Abiertas = submit_tail
  BY <1>1, <1>2 DEF Abiertas, SinLeer
<1>4. submit_ring[Hueco(submit_head)] = [op |-> cliente.op, arg |-> cuenta + 1]
  BY <1>2, HuecoIndex, Indices DEF SlotInHand, Entry
<1>5. submit_head < Abiertas + RingSize
  BY <1>2, <1>3, Indices, RingAssumption DEF IInv, RoomForOne
<1>6. Pet' = Append(Pet, submit_ring[Hueco(submit_head)])
  BY <1>1, <1>3, <1>5, Indices, EntreAppend, ZenonT(60) DEF Pet
<1> QED
  BY <1>1, <1>3, <1>4, <1>6 DEF Pet, Res, E!Pide, E!Mensaje

(* ring3_poll_n hands over what the oldest answer says. *)
LEMMA LeeUnaEntrega ==
  ASSUME IInv, LeeUna
  PROVE  E!Entrega
<1>1. UNCHANGED <<submit_head, submit_tail, submit_ring, complete_ring,
                  complete_head, complete_tail, nucleo, cuenta>>
  BY DEF LeeUna, pagina
<1>2. cliente.pc = "poll" /\ cliente'.pc = "poll" /\ cliente'.tail = cliente.tail + 1
      /\ cliente.tail < cliente.head
  BY DEF LeeUna, En, Cliente, IInv, TypeOK
<1>3. SinLeer = cliente.tail /\ SinLeer' = SinLeer + 1 /\ Abiertas' = Abiertas
  BY <1>1, <1>2 DEF SinLeer, Abiertas
<1>4. SinLeer < complete_head
  BY <1>2, <1>3, Indices DEF IInv, TypeOK, PollWithin, Cliente
<1>5. /\ Res # <<>> /\ Head(Res) = complete_ring[Hueco(SinLeer)]
      /\ Res' = Tail(Res)
  <2>1. /\ SinLeer \in Nat /\ complete_head \in Nat /\ SinLeer < complete_head
        /\ complete_head <= SinLeer + RingSize
        /\ complete_ring \in [Index -> Entry]
    BY <1>4, Indices
  <2>2. /\ Entre(complete_ring, SinLeer, complete_head) # <<>>
        /\ Head(Entre(complete_ring, SinLeer, complete_head))
             = complete_ring[Hueco(SinLeer)]
        /\ Entre(complete_ring, SinLeer + 1, complete_head)
             = Tail(Entre(complete_ring, SinLeer, complete_head))
    BY <2>1, EntreTail
  <2> QED
    BY <1>1, <1>3, <2>2 DEF Res
<1>6. ultima' = IF complete_ring[Hueco(SinLeer)].op = Vacio
                THEN ultima ELSE complete_ring[Hueco(SinLeer)]
  BY <1>3 DEF LeeUna
<1> QED
  BY <1>1, <1>3, <1>5, <1>6 DEF Pet, Res, E!Entrega

(* What goes past the head of the completions goes to the end of the       *)
(* answers.                                                                *)
LEMMA CompletionAppends ==
  ASSUME IInv, NEW e \in Entry, ~CompletionFull, SinLeer' = SinLeer,
         complete_ring' = [complete_ring EXCEPT ![Hueco(complete_head)] = e],
         complete_head' = complete_head + 1
  PROVE  Res' = Append(Res, e)
<1>1. Hueco(complete_head) \in Index
  BY Indices, HuecoIndex
<1>2. /\ complete_ring' \in [Index -> Entry]
      /\ complete_ring'[Hueco(complete_head)] = e
      /\ \A i \in Index : i # Hueco(complete_head) => complete_ring'[i] = complete_ring[i]
  BY <1>1, Indices
<1>3. complete_head < SinLeer + RingSize
  BY Indices, RingAssumption DEF CompletionFull
<1>4. Entre(complete_ring', SinLeer, complete_head + 1)
        = Append(Entre(complete_ring, SinLeer, complete_head),
                 complete_ring'[Hueco(complete_head)])
  <2>1. /\ SinLeer \in Nat /\ complete_head \in Nat /\ SinLeer <= complete_head
        /\ complete_ring \in [Index -> Entry]
    BY Indices
  <2>2. \A r2 \in [Index -> Entry] :
          (\A i \in Index : i # Hueco(complete_head) => r2[i] = complete_ring[i])
            => Entre(r2, SinLeer, complete_head + 1)
                 = Append(Entre(complete_ring, SinLeer, complete_head),
                          r2[Hueco(complete_head)])
    BY <1>3, <2>1, EntreAppend
  <2> QED
    BY <1>2, <2>2
<1> QED
  BY <1>2, <1>4 DEF Res

(* endpoint.rs publish. *)
LEMMA CompletePublica ==
  ASSUME IInv, NEW op \in Codigos, Complete(op)
  PROVE  E!Publica(op)
<1>1. UNCHANGED <<submit_head, submit_tail, submit_ring, complete_tail, nucleo,
                  cliente, ultima>> /\ cuenta' = cuenta + 1
  BY DEF Complete
<1>2. Abiertas' = Abiertas /\ SinLeer' = SinLeer
  BY <1>1 DEF Abiertas, SinLeer
<1>3. [op |-> op, arg |-> cuenta + 1] \in Entry
  BY DEF Entry, IInv, TypeOK
<1>4. Res' = Append(Res, [op |-> op, arg |-> cuenta + 1])
  BY <1>2, <1>3, CompletionAppends DEF Complete
<1> QED
  BY <1>1, <1>2, <1>4 DEF Pet, Res, E!Publica, E!Mensaje

(* One turn of ring0_process_n answers the oldest request, or consumes it. *)
LEMMA ProcessContesta ==
  ASSUME IInv, Process
  PROVE  E!Contesta \/ E!Consume
<1> DEFINE i == Hueco(nucleo.tail)
           entry == submit_ring[i]
<1>1. UNCHANGED <<submit_head, complete_tail, cliente, cuenta, ultima>>
      /\ ~CompletionFull /\ nucleo.tail < submit_head
  BY DEF Process, SigueYCabe, Sigue, IInv, ServingWithin
<1>2. nucleo \in Nucleo /\ nucleo.sirve
      /\ nucleo' = [nucleo EXCEPT !.tail = @ + 1, !.count = @ + 1]
  BY DEF Process, IInv, TypeOK
<1>3. nucleo'.sirve = nucleo.sirve /\ nucleo'.tail = nucleo.tail + 1
  BY <1>2 DEF Nucleo
<1>4. Abiertas = nucleo.tail /\ Abiertas' = Abiertas + 1 /\ SinLeer' = SinLeer
  BY <1>1, <1>2, <1>3 DEF Abiertas, SinLeer
<1>5. i \in Index
  BY <1>4, Indices, HuecoIndex
<1>6. entry \in Entry
  BY <1>5, Indices
<1>7. submit_ring' = [submit_ring EXCEPT ![i].op = Vacio]
  BY DEF Process
<1>8. submit_ring' \in [Index -> Entry]
      /\ \A j \in Index : j # i => submit_ring'[j] = submit_ring[j]
  BY <1>5, <1>7, Indices DEF Entry, Codigos
<1>9. Pet # <<>> /\ Head(Pet) = entry /\ Pet' = Tail(Pet)
  <2> HIDE DEF i, entry
  <2>1. /\ Abiertas \in Nat /\ submit_head \in Nat /\ Abiertas < submit_head
        /\ submit_head <= Abiertas + RingSize
        /\ submit_ring \in [Index -> Entry] /\ i = Hueco(Abiertas)
        /\ entry = submit_ring[i]
    BY <1>1, <1>4, Indices DEF i, entry
  <2>2. /\ Entre(submit_ring, Abiertas, submit_head) # <<>>
        /\ Head(Entre(submit_ring, Abiertas, submit_head)) = submit_ring[i]
        /\ Entre(submit_ring', Abiertas + 1, submit_head)
             = Tail(Entre(submit_ring, Abiertas, submit_head))
    BY <1>8, <2>1, EntreTail
  <2> QED
    BY <1>1, <1>4, <2>1, <2>2 DEF Pet
<1>10. CASE entry.op \in Mudas
  <2>1. Res' = Res
    BY <1>4, <1>10 DEF Process, Res
  <2> QED
    BY <1>1, <1>9, <2>1 DEF Pet, Res, E!Consume
<1>11. CASE entry.op \notin Mudas
  <2>1. complete_ring' = [complete_ring EXCEPT ![Hueco(complete_head)] = entry]
        /\ complete_head' = complete_head + 1
    BY <1>11 DEF Process
  <2>2. Res' = Append(Res, entry)
    BY <1>1, <1>4, <1>6, <2>1, CompletionAppends
  <2> QED
    BY <1>1, <1>9, <2>2 DEF Pet, Res, E!Contesta
<1> QED
  BY <1>10, <1>11

(* Every step of the rings is a step of the queues, or none. *)
LEMMA StepQueues == IInv /\ SlotInHand /\ [Next]_vars => [E!Next]_(E!vars)
<1> SUFFICES ASSUME IInv, SlotInHand, [Next]_vars PROVE [E!Next]_(E!vars)
  OBVIOUS
<1>1. ASSUME UNCHANGED <<Pet, Res, cuenta, ultima>> PROVE UNCHANGED E!vars
  BY <1>1 DEF Pet, Res, E!vars
<1>2. ASSUME NEW op \in Codigos, Complete(op) PROVE E!Next
  BY <1>2, CompletePublica DEF E!Next
<1>3. CASE PublicaHead
  <2>1. cliente.op \in Codigos
    BY DEF IInv, TypeOK, Cliente
  <2> QED
    BY <1>3, <2>1, PublicaHeadPide DEF E!Next
<1>4. CASE LeeUna
  BY <1>4, LeeUnaEntrega DEF E!Next
<1>5. CASE Process
  BY <1>5, ProcessContesta DEF E!Next
<1>6. CASE EscribeOpcode \/ EscribeArgs
  BY <1>1, <1>6, FillingSteps
<1>7. CASE \/ \E op \in Codigos : Submit(op)
           \/ \E limit \in 1 .. RingSize : Poll(limit)
           \/ PollAcaba \/ Doorbell \/ Mira \/ Wait \/ Vence \/ Service \/ ServiceEnds
           \/ UNCHANGED vars
  BY <1>1, <1>7, QuietSteps
<1> QED
  BY <1>2, <1>3, <1>4, <1>5, <1>6, <1>7 DEF Next

(* bmo-channel: whatever the size of the rings and the budget of a beat,   *)
(* and wherever between two stores of Ring 3 the kernel begins, requests   *)
(* are answered in order and once, and an answer is handed over whole.     *)
THEOREM RingsAreQueues == Spec => KeepsTheQueues
<1>1. Init => SlotInHand
  BY DEF Init, SlotInHand
<1>2. IInv /\ SlotInHand /\ [Next]_vars => SlotInHand'
  BY SlotInHandNext
<1> QED
  BY <1>1, <1>2, Inductive, InitQueues, StepQueues, PTL DEF Spec, KeepsTheQueues, E!Spec

=============================================================================
