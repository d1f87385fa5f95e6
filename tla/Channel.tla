------------------------------ MODULE Channel -------------------------------
(***************************************************************************)
(* A channel ("estuario"): a page that Ring 3 and the kernel both write,   *)
(* with a ring for submissions and one for completions                     *)
(* (platform/shared/bmo-channel/src/lib.rs), and the kernel's side of it   *)
(* (obj/channel.rs).  Ring 3 is one thread and loads and stores one word   *)
(* at a time; the kernel serves with interrupts closed, so Ring 3 stands   *)
(* still while it does, but it may begin between any two stores of Ring 3. *)
(***************************************************************************)
EXTENDS Naturals, Sequences

CONSTANTS
  RingSize,     (* RING_SIZE *)
  Budget,       (* REQUEST_BUDGET_PER_CHANNEL *)
  Ops,          (* operation codes other than 0 *)
  Vacio,        (* opcode 0: an empty entry *)
  Mudas,        (* operations whose service returns None *)
  Nada,         (* nothing was handed over yet *)
  MaxMensajes   (* bound of TLC: messages in a run *)

ASSUME RingAssumption == /\ RingSize \in Nat \ {0} /\ Budget \in Nat \ {0}
                         /\ MaxMensajes \in Nat

ASSUME OpsAssumption == /\ Vacio \notin Ops /\ Mudas \subseteq Ops

VARIABLES
  submit_head, submit_tail, complete_head, complete_tail, doorbell,
  submit_ring, complete_ring,
  cliente,      (* where the thread of Ring 3 is, and its local variables *)
  nucleo,       (* the same of the kernel *)
  cuenta,       (* messages so far *)
  ultima        (* the last completion the callback got *)

pagina == <<submit_head, submit_tail, complete_head, complete_tail, doorbell,
            submit_ring, complete_ring>>
vars == <<pagina, cliente, nucleo, cuenta, ultima>>

Index == 0 .. RingSize - 1
Codigos == Ops \cup {Vacio}
Entry == [op : Codigos, arg : Nat]
Hueco(i) == i % RingSize

(* pc: "libre", between two calls; "opcode", "args", "head", inside        *)
(* ring3_submit; "poll", inside ring3_poll_n; "duerme", in WAIT.  debe:    *)
(* what was submitted has not been signalled yet.  visto: the sequence     *)
(* that it will tell WAIT.                                                 *)
Cliente == [pc : {"libre", "opcode", "args", "head", "poll", "duerme"},
            op : Codigos, debe : BOOLEAN, visto : Nat,
            head : Nat, tail : Nat, queda : Nat]

(* In service or not; head, tail and count of ring0_process_n. *)
Nucleo == [sirve : BOOLEAN, head : Nat, tail : Nat, count : Nat]

Init ==
  /\ submit_head = 0 /\ submit_tail = 0
  /\ complete_head = 0 /\ complete_tail = 0
  /\ doorbell = 0
  /\ submit_ring = [i \in Index |-> [op |-> Vacio, arg |-> 0]]
  /\ complete_ring = [i \in Index |-> [op |-> Vacio, arg |-> 0]]
  /\ cliente = [pc |-> "libre", op |-> Vacio, debe |-> FALSE, visto |-> 0,
                head |-> 0, tail |-> 0, queda |-> 0]
  /\ nucleo = [sirve |-> FALSE, head |-> 0, tail |-> 0, count |-> 0]
  /\ cuenta = 0
  /\ ultima = Nada

----------------------------------------------------------------------------
(* Ring 3. *)
En(pc) == cliente.pc = pc /\ ~nucleo.sirve

(* ring3_submit: head and tail are read, and a full ring is refused. *)
SubmitSinMirar(op) ==                                              (* mutant *)
  /\ En("libre") /\ cuenta < MaxMensajes
  /\ cliente' = [cliente EXCEPT !.pc = "opcode", !.op = op]
  /\ UNCHANGED <<pagina, nucleo, cuenta, ultima>>
Submit(op) ==
  /\ En("libre") /\ cuenta < MaxMensajes
  /\ submit_head - submit_tail < RingSize
  /\ cliente' = [cliente EXCEPT !.pc = "opcode", !.op = op]
  /\ UNCHANGED <<pagina, nucleo, cuenta, ultima>>

EscribeOpcode ==
  /\ En("opcode")
  /\ submit_ring' = [submit_ring EXCEPT ![Hueco(submit_head)].op = cliente.op]
  /\ cliente' = [cliente EXCEPT !.pc = "args"]
  /\ UNCHANGED <<submit_head, submit_tail, complete_head, complete_tail, doorbell,
                 complete_ring, nucleo, cuenta, ultima>>

EscribeArgs ==
  /\ En("args")
  /\ submit_ring' = [submit_ring EXCEPT ![Hueco(submit_head)].arg = cuenta + 1]
  /\ cliente' = [cliente EXCEPT !.pc = "head"]
  /\ UNCHANGED <<submit_head, submit_tail, complete_head, complete_tail, doorbell,
                 complete_ring, nucleo, cuenta, ultima>>

(* submit_head.store(Release) *)
PublicaSinArgs ==                                                  (* mutant *)
  /\ cliente.pc \in {"args", "head"} /\ ~nucleo.sirve
  /\ submit_head' = submit_head + 1
  /\ cuenta' = cuenta + 1
  /\ cliente' = [cliente EXCEPT !.pc = "libre", !.op = Vacio, !.debe = TRUE]
  /\ UNCHANGED <<submit_tail, complete_head, complete_tail, doorbell,
                 submit_ring, complete_ring, nucleo, ultima>>
PublicaHead ==
  /\ En("head")
  /\ submit_head' = submit_head + 1
  /\ cuenta' = cuenta + 1
  /\ cliente' = [cliente EXCEPT !.pc = "libre", !.op = Vacio, !.debe = TRUE]
  /\ UNCHANGED <<submit_tail, complete_head, complete_tail, doorbell,
                 submit_ring, complete_ring, nucleo, ultima>>

(* ring3_doorbell: after each submission (ring3_send) or after several. *)
Doorbell ==
  /\ En("libre") /\ cliente.debe
  /\ doorbell' = 1
  /\ cliente' = [cliente EXCEPT !.debe = FALSE]
  /\ UNCHANGED <<submit_head, submit_tail, complete_head, complete_tail,
                 submit_ring, complete_ring, nucleo, cuenta, ultima>>

(* ring3_poll_n: head is read once, entries one after the other, and tail  *)
(* is stored at the end.                                                   *)
Poll(limit) ==
  /\ En("libre") /\ complete_tail < complete_head
  /\ cliente' = [cliente EXCEPT !.pc = "poll", !.head = complete_head,
                                !.tail = complete_tail, !.queda = limit]
  /\ UNCHANGED <<pagina, nucleo, cuenta, ultima>>

LeeUna ==
  /\ En("poll") /\ cliente.tail < cliente.head /\ cliente.queda > 0
  /\ LET entry == complete_ring[Hueco(cliente.tail)] IN
       ultima' = IF entry.op = Vacio THEN ultima ELSE entry
  /\ cliente' = [cliente EXCEPT !.tail = @ + 1, !.queda = @ - 1]
  /\ UNCHANGED <<pagina, nucleo, cuenta>>

PollAcaba ==
  /\ En("poll") /\ (cliente.tail = cliente.head \/ cliente.queda = 0)
  /\ complete_tail' = cliente.tail
  /\ cliente' = [cliente EXCEPT !.pc = "libre", !.head = 0, !.tail = 0,
                                !.queda = 0]
  /\ UNCHANGED <<submit_head, submit_tail, complete_head, doorbell, submit_ring,
                 complete_ring, nucleo, cuenta, ultima>>

(* What WAIT will be told: GET_SEQ, or complete_head read from the page. *)
Mira ==
  /\ En("libre") /\ cliente.visto # complete_head
  /\ cliente' = [cliente EXCEPT !.visto = complete_head]
  /\ UNCHANGED <<pagina, nucleo, cuenta, ultima>>

(* WAIT on the channel: wait_current_checked compares under the lock; when *)
(* the sequence moved it returns, and nothing changes.                     *)
WaitSinMirar ==                                                    (* mutant *)
  /\ En("libre")
  /\ cliente' = [cliente EXCEPT !.pc = "duerme"]
  /\ UNCHANGED <<pagina, nucleo, cuenta, ultima>>
Wait ==
  /\ En("libre") /\ complete_head = cliente.visto
  /\ cliente' = [cliente EXCEPT !.pc = "duerme"]
  /\ UNCHANGED <<pagina, nucleo, cuenta, ultima>>

(* The deadline of a WAIT, when it has one. *)
Vence ==
  /\ En("duerme")
  /\ cliente' = [cliente EXCEPT !.pc = "libre"]
  /\ UNCHANGED <<pagina, nucleo, cuenta, ultima>>

----------------------------------------------------------------------------
(* The kernel.  A beat of the timer (service_all) at any time, or          *)
(* CHANNEL_OP_KICK in a system call of the client.                         *)
Service ==
  /\ ~nucleo.sirve /\ doorbell # 0
  /\ nucleo' = [sirve |-> TRUE, head |-> submit_head, tail |-> submit_tail,
                count |-> 0]
  /\ UNCHANGED <<pagina, cliente, cuenta, ultima>>

CompletionFull == complete_head - complete_tail >= RingSize

(* One turn of the loop of ring0_process_n. *)
Sigue == /\ nucleo.tail < nucleo.head
         /\ nucleo.count < Budget /\ nucleo.count < RingSize

SigueYCabe == Sigue /\ ~CompletionFull

Process ==
  /\ nucleo.sirve /\ SigueYCabe
  /\ LET i == Hueco(nucleo.tail)
         entry == submit_ring[i]
     IN /\ submit_ring' = [submit_ring EXCEPT ![i].op = Vacio]
        /\ IF entry.op \in Mudas
           THEN UNCHANGED <<complete_ring, complete_head>>
           ELSE /\ complete_ring' = [complete_ring EXCEPT ![Hueco(complete_head)] = entry]
                /\ complete_head' = complete_head + 1
  /\ nucleo' = [nucleo EXCEPT !.tail = @ + 1, !.count = @ + 1]
  /\ UNCHANGED <<submit_head, submit_tail, complete_tail, doorbell, cliente,
                 cuenta, ultima>>

(* The end of it, and the wake of service when anything was processed. *)
ServiceEndsCallado ==                                              (* mutant *)
  /\ nucleo.sirve /\ ~SigueYCabe
  /\ submit_tail' = nucleo.tail
  /\ doorbell' = 0
  /\ nucleo' = [sirve |-> FALSE, head |-> 0, tail |-> 0, count |-> 0]
  /\ cliente' = IF nucleo.count > 0 /\ cliente.pc = "duerme"
                THEN [cliente EXCEPT !.pc = "libre"] ELSE cliente
  /\ UNCHANGED <<submit_head, complete_head, complete_tail, submit_ring,
                 complete_ring, cuenta, ultima>>
ServiceEnds ==
  /\ nucleo.sirve /\ ~SigueYCabe
  /\ submit_tail' = nucleo.tail
  /\ doorbell' = IF nucleo.tail < nucleo.head THEN 1 ELSE 0
  /\ nucleo' = [sirve |-> FALSE, head |-> 0, tail |-> 0, count |-> 0]
  /\ cliente' = IF nucleo.count > 0 /\ cliente.pc = "duerme"
                THEN [cliente EXCEPT !.pc = "libre"] ELSE cliente
  /\ UNCHANGED <<submit_head, complete_head, complete_tail, submit_ring,
                 complete_ring, cuenta, ultima>>

(* endpoint.rs publish: a call of another process, handed over in a system *)
(* call of this one; with the ring full it is lost.                        *)
Complete(op) ==
  /\ En("libre") /\ cuenta < MaxMensajes
  /\ ~CompletionFull
  /\ complete_ring' = [complete_ring EXCEPT ![Hueco(complete_head)] =
                         [op |-> op, arg |-> cuenta + 1]]
  /\ complete_head' = complete_head + 1
  /\ cuenta' = cuenta + 1
  /\ UNCHANGED <<submit_head, submit_tail, complete_tail, doorbell, submit_ring,
                 cliente, nucleo, ultima>>

Next ==
  \/ \E op \in Codigos : Submit(op) \/ Complete(op)
  \/ EscribeOpcode \/ EscribeArgs \/ PublicaHead \/ Doorbell
  \/ \E limit \in 1 .. RingSize : Poll(limit)
  \/ LeeUna \/ PollAcaba
  \/ Mira \/ Wait \/ Vence
  \/ Service \/ Process \/ ServiceEnds

Spec == Init /\ [][Next]_vars

(* The timer beats, and service ends within the beat.  Nothing is asked of *)
(* the client, that may stop for good between any two stores.              *)
FairSpec == Spec /\ WF_vars(Service) /\ WF_vars(Process) /\ WF_vars(ServiceEnds)

----------------------------------------------------------------------------
(* Types, and what is in flight fits in each ring. *)
TypeOK ==
  /\ submit_tail \in Nat /\ submit_head \in submit_tail .. submit_tail + RingSize
  /\ complete_tail \in Nat
  /\ complete_head \in complete_tail .. complete_tail + RingSize
  /\ doorbell \in {0, 1}
  /\ submit_ring \in [Index -> Entry] /\ complete_ring \in [Index -> Entry]
  /\ cliente \in Cliente /\ nucleo \in Nucleo
  /\ cuenta \in Nat /\ ultima \in Entry \cup {Nada}

(* ring0_process_n, ring3_doorbell: a request that was published has the   *)
(* bell up, or its client is about to ring it; neither the budget nor a    *)
(* full ring of completions leaves one behind with the bell down.          *)
BellTellsOfWork ==
  (submit_tail < submit_head /\ ~nucleo.sirve) => doorbell = 1 \/ cliente.debe

(* service, wait_current_checked: nobody sleeps in WAIT over a completion  *)
(* that it has not been told of.                                           *)
NoCompletionSleptOn ==
  (cliente.pc = "duerme" /\ ~nucleo.sirve) => complete_head = cliente.visto

(* ring0_process_n: a request that was published and rung for is served,   *)
(* or there is no room for its answer: the budget of a beat delays it and  *)
(* never forgets it, whatever the client does or leaves undone.            *)
EveryRequestServed ==
  \A k \in 1 .. MaxMensajes :
    (submit_head >= k /\ doorbell = 1) ~> (submit_tail >= k \/ CompletionFull)

(* The rings implement the two queues of Estuario: in order, once, whole.  *)
(* Entre: what a ring holds from the index a to before the index b.        *)
Entre(ring, a, b) == [k \in 1 .. b - a |-> ring[Hueco(a + k - 1)]]
Abiertas == IF nucleo.sirve THEN nucleo.tail ELSE submit_tail
SinLeer == IF cliente.pc = "poll" THEN cliente.tail ELSE complete_tail
E == INSTANCE Estuario WITH
       Ops <- Codigos,
       peticiones <- Entre(submit_ring, Abiertas, submit_head),
       respuestas <- Entre(complete_ring, SinLeer, complete_head)
KeepsTheQueues == E!Spec
=============================================================================
