------------------------------ MODULE Endpoint ------------------------------
(***************************************************************************)
(* Endpoint RPC (kernel/src/ring0/obj/endpoint.rs): a process of Ring 3    *)
(* serves the calls of others.  A call is queued in the endpoint and its   *)
(* caller sleeps; the server's WAIT takes the first call, publishes its    *)
(* words in the ring of its channel and returns a capability of one use;   *)
(* INVOKE on that capability writes the answer into the saved frame of the *)
(* caller and wakes it.                                                    *)
(*                                                                         *)
(* Every system call runs with interrupts closed and is one step.  Only    *)
(* the death of a process takes two: its endpoints close at station 2 of   *)
(* revoke_all and its capabilities go at station 16, and between them the  *)
(* door of the GPU lets the others run, the dying child of an OP_CERRAR    *)
(* included.  For the same reason the sequence number that                 *)
(* wait_current_checked compares never moves under it, and is left out.    *)
(***************************************************************************)
EXTENDS Naturals, Sequences, FiniteSets

CONSTANTS
  Procs,        (* processes, each its one thread                          *)
  NoProc,
  NEps,         (* MAX_ENDPOINTS                                           *)
  Queue,        (* QUEUE: calls that wait in an endpoint                   *)
  SlotsPerProc, (* SLOTS_PER_PROC: capabilities of a process               *)
  RingSize,     (* RING_SIZE: completions in a channel that nobody read    *)
  GenWrap,      (* generations of a Reply: 2^32                            *)
  GenReply,     (* generations that the object of a reply can tell: 2^16   *)
  ConGpu,       (* whether there is a GPU, and so a door where a death waits *)
  MaxCalls      (* bound of the model: generations a process may reach     *)

ASSUME SizesAssumption ==
  /\ NoProc \notin Procs
  /\ NEps \in Nat /\ Queue \in Nat \ {0} /\ SlotsPerProc \in Nat /\ RingSize \in Nat
  /\ GenReply \in Nat \ {0} /\ GenWrap \in Nat /\ GenReply <= GenWrap
  /\ ConGpu \in BOOLEAN /\ MaxCalls \in Nat

Eps == 1 .. NEps
Gens == 0 .. GenWrap - 1

(* Wait keys: none, endpoint_key(i) for i in Eps, and one's own reply_key. *)
NoKey == 0
ReplyKey == NEps + 1

(* An entry of the queue, by its caller_tid; NoProc is Call::EMPTY. *)
Call == Procs \cup {NoProc}

EndpointState == [vivo : BOOLEAN, servidor_pid : Procs \cup {NoProc},
                  cola : [0 .. Queue - 1 -> Call], cabeza : 0 .. Queue - 1,
                  n : 0 .. Queue]
EmptyEndpoint == [vivo |-> FALSE, servidor_pid |-> NoProc,
                  cola |-> [k \in 0 .. Queue - 1 |-> NoProc],
                  cabeza |-> 0, n |-> 0]

(* What a call returns: its status, and the call it answers (history). *)
Outcome == [code : {"ok", "dead", "busy", "provisional"}, de : Gens]
Provisional == [code |-> "provisional", de |-> 0]

Reply == [esperando : BOOLEAN, lista : BOOLEAN, gen : Gens, out : Outcome]

(* Capabilities: of the server on its endpoint, of a client on it, of one  *)
(* use on a call (and the call it was granted for: history).               *)
Servir(i) == [kind |-> "servir", i |-> i]
Llamar(i) == [kind |-> "llamar", i |-> i]
Responder(i, c, g) ==
  [kind |-> "responder", i |-> i, caller_tid |-> c, gen |-> g % GenReply, de |-> g]
Cap == {Servir(i) : i \in Eps} \cup {Llamar(i) : i \in Eps}
       \cup {Responder(i, c, g) : i \in Eps, c \in Procs, g \in Gens}

VARIABLES
  eps,     (* ENDPOINTS                                                    *)
  resp,    (* RESPUESTAS                                                   *)
  caps,    (* the capabilities of each process on endpoints and calls      *)
  tarea,   (* the state of each process's thread and the key it waits on   *)
  frame,   (* rax and rdx of the last call of each process                 *)
  anillo,  (* completions in the channel of each process it has not read   *)
  cierra   (* who is closing the process, itself or its parent: between    *)
           (* stations 2 and 16 of revoke_all                              *)

vars == <<eps, resp, caps, tarea, frame, anillo, cierra>>

TypeOK ==
  /\ eps \in [Eps -> EndpointState]
  /\ resp \in [Procs -> Reply]
  /\ caps \in [Procs -> SUBSET Cap]
  /\ \A p \in Procs : Cardinality(caps[p]) <= SlotsPerProc
  /\ tarea \in [Procs -> [state : {"Ready", "Blocked", "Exited"}, wait_key : 0 .. ReplyKey]]
  /\ frame \in [Procs -> Outcome]
  /\ anillo \in [Procs -> 0 .. RingSize]
  /\ cierra \in [Procs -> Procs \cup {NoProc}]

Init ==
  /\ eps = [i \in Eps |-> EmptyEndpoint]
  /\ resp = [p \in Procs |-> [esperando |-> FALSE, lista |-> FALSE, gen |-> 0,
                              out |-> Provisional]]
  /\ caps = [p \in Procs |-> {}]
  /\ tarea = [p \in Procs |-> [state |-> "Ready", wait_key |-> NoKey]]
  /\ frame = [p \in Procs |-> [code |-> "ok", de |-> 0]]
  /\ anillo = [p \in Procs |-> 0]
  /\ cierra = [p \in Procs |-> NoProc]

----------------------------------------------------------------------------
Cierran(p) == {q \in Procs \ {p} : cierra[q] = p}

(* The process p runs its program: it is not asleep, nor inside the system *)
(* call that ends it or that closes a child; and while a process is being   *)
(* closed the others run only if it waits in the door.                     *)
Corre(p) ==
  /\ tarea[p].state = "Ready" /\ cierra[p] # p /\ Cierran(p) = {}
  /\ ConGpu \/ \A q \in Procs : cierra[q] = NoProc

Cabe(p) == Cardinality(caps[p]) < SlotsPerProc

(* wake_by_key *)
Despierta(t, key) ==
  [p \in Procs |-> IF t[p].state = "Blocked" /\ t[p].wait_key = key
                   THEN [state |-> "Ready", wait_key |-> NoKey] ELSE t[p]]

(* mark_wait *)
Duerme(t, p, key) == [t EXCEPT ![p] = [state |-> "Blocked", wait_key |-> key]]

(* The calls that wait in an endpoint, the first one first. *)
EnCola(e) == [k \in 1 .. e.n |-> e.cola[(e.cabeza + k - 1) % Queue]]

EncoladaDelante(e, call) ==                                        (* mutant *)
  [e EXCEPT !.cabeza = (@ + Queue - 1) % Queue,
            !.cola[(e.cabeza + Queue - 1) % Queue] = call, !.n = @ + 1]
Encolada(e, call) ==
  [e EXCEPT !.cola[(e.cabeza + e.n) % Queue] = call, !.n = @ + 1]
Primera(e) == e.cola[e.cabeza]
Desencolada(e) ==
  [e EXCEPT !.cola[e.cabeza] = NoProc, !.cabeza = (@ + 1) % Queue, !.n = @ - 1]

(* complete takes an answer to the call gen of c: c waits for that one. *)
Acepta(c, gen) == resp[c].esperando /\ resp[c].gen = gen /\ ~resp[c].lista

(* complete, of the calls of cs: the answer goes to the saved frame of a   *)
(* caller that sleeps (write_into_frame), and the caller wakes.            *)
Complete(cs, out) ==
  /\ resp' = [c \in Procs |-> IF c \in cs
                 THEN [resp[c] EXCEPT !.lista = TRUE, !.out = out[c]] ELSE resp[c]]
  /\ frame' = [c \in Procs |-> IF c \in cs /\ tarea[c].state = "Blocked"
                               THEN out[c] ELSE frame[c]]
  /\ tarea' = [c \in Procs |-> IF c \in cs THEN Despierta(tarea, ReplyKey)[c] ELSE tarea[c]]

----------------------------------------------------------------------------
(* create: the first endpoint that is not alive.  It stays alive if there  *)
(* was no room for its capability.                                         *)
Create(p) ==
  /\ Corre(p)
  /\ \E i \in Eps :
       /\ ~eps[i].vivo /\ \A j \in Eps : j < i => eps[j].vivo
       /\ eps' = [eps EXCEPT ![i] = [EmptyEndpoint EXCEPT !.vivo = TRUE, !.servidor_pid = p]]
       /\ caps' = IF Cabe(p) THEN [caps EXCEPT ![p] = @ \cup {Servir(i)}] ELSE caps
  /\ UNCHANGED <<resp, tarea, frame, anillo, cierra>>

(* grant_client.  In the model a client asks once for each endpoint. *)
GrantClient(p, i) ==
  /\ Corre(p)
  /\ eps[i].vivo /\ Cabe(p)
  /\ Llamar(i) \notin caps[p]
  /\ caps' = [caps EXCEPT ![p] = @ \cup {Llamar(i)}]
  /\ UNCHANGED <<eps, resp, tarea, frame, anillo, cierra>>

(* call, the reply it prepares before it wakes anybody. *)
PreparadaConResto(r) ==                                            (* mutant *)
  [r EXCEPT !.gen = (@ + 1) % GenWrap, !.esperando = TRUE]
Preparada(r) == [esperando |-> TRUE, lista |-> FALSE, gen |-> (r.gen + 1) % GenWrap,
                 out |-> Provisional]

Avisa(i) == Despierta(tarea, i)

(* call: refused if the endpoint is dead or full; then the caller wakes    *)
(* the server and sleeps, unless its answer is there already.              *)
CallOp(p, cap) ==
  /\ Corre(p)
  /\ resp[p].gen < MaxCalls
  /\ eps[cap.i].vivo /\ eps[cap.i].n < Queue
  /\ eps' = [eps EXCEPT ![cap.i] = Encolada(@, p)]
  /\ LET r == Preparada(resp[p])
         t == Avisa(cap.i)
     IN IF r.lista
        THEN /\ resp' = [resp EXCEPT ![p] = [r EXCEPT !.esperando = FALSE, !.lista = FALSE]]
             /\ frame' = [frame EXCEPT ![p] = r.out]
             /\ tarea' = t
        ELSE /\ resp' = [resp EXCEPT ![p] = r]
             /\ frame' = [frame EXCEPT ![p] = Provisional]
             /\ tarea' = Duerme(t, p, ReplyKey)
  /\ UNCHANGED <<caps, anillo, cierra>>

(* wait_for, with nothing to do: the server sleeps until a call or its     *)
(* deadline, and will ask again.                                           *)
WaitForNothing(p, cap) ==
  /\ Corre(p)
  /\ eps[cap.i].vivo /\ eps[cap.i].n = 0
  /\ tarea' = Duerme(tarea, p, cap.i)
  /\ UNCHANGED <<eps, resp, caps, frame, anillo, cierra>>

(* The deadline of a WAIT, at a tick. *)
Timeout(p) ==
  /\ tarea[p].state = "Blocked" /\ tarea[p].wait_key \in Eps
  /\ tarea' = [tarea EXCEPT ![p] = [state |-> "Ready", wait_key |-> NoKey]]
  /\ UNCHANGED <<eps, resp, caps, frame, anillo, cierra>>

(* publish: a full ring takes nothing, and nobody hears of it. *)
PublishSinMirar(p) == anillo' = [anillo EXCEPT ![p] = @ + 1]       (* mutant *)
Publish(p) ==
  anillo' = [anillo EXCEPT ![p] = IF @ >= RingSize THEN @ ELSE @ + 1]

(* wait_for, with a call: the server takes it, or the caller hears that    *)
(* there was no room for the capability to answer.                         *)
WaitFor(p, cap) ==
  /\ Corre(p)
  /\ eps[cap.i].vivo /\ eps[cap.i].n > 0
  /\ LET c == Primera(eps[cap.i])
         g == resp[c].gen
     IN /\ eps' = [eps EXCEPT ![cap.i] = Desencolada(@)]
        /\ IF Cabe(p)
           THEN /\ caps' = [caps EXCEPT ![p] = @ \cup {Responder(cap.i, c, g)}]
                /\ UNCHANGED <<resp, frame, tarea>>
           ELSE /\ Complete({x \in {c} : Acepta(x, g)}, [x \in {c} |-> [code |-> "busy", de |-> g]])
                /\ UNCHANGED caps
  /\ Publish(p)
  /\ UNCHANGED cierra

(* reply_to: the capability goes whether or not its answer was taken. *)
SinGastar(p, cap) == caps                                          (* mutant *)
Gastada(p, cap) == [caps EXCEPT ![p] = @ \ {cap}]

ReplyTo(p, cap) ==
  /\ Corre(p)
  /\ Complete({c \in {cap.caller_tid} : Acepta(c, cap.gen)},
              [c \in {cap.caller_tid} |-> [code |-> "ok", de |-> cap.de]])
  /\ caps' = Gastada(p, cap)
  /\ UNCHANGED <<eps, anillo, cierra>>

(* ring3_poll_n: the server reads its channel. *)
Poll(p) ==
  /\ Corre(p) /\ anillo[p] > 0
  /\ anillo' = [anillo EXCEPT ![p] = @ - 1]
  /\ UNCHANGED <<eps, resp, caps, tarea, frame, cierra>>

----------------------------------------------------------------------------
Atiende(p) == {i \in Eps : eps[i].vivo /\ eps[i].servidor_pid = p}

(* process_died: the endpoints of p close, and those whose calls wait in   *)
(* them wake.                                                              *)
SoloLaPrimera(p) ==                                                (* mutant *)
  {c \in Procs : \E i \in Atiende(p) : eps[i].n > 0 /\ Primera(eps[i]) = c}
Drenados(p) ==
  {c \in Procs : \E i \in Atiende(p), k \in 1 .. Queue :
     k <= eps[i].n /\ EnCola(eps[i])[k] = c}

ProcessDied(p) ==
  /\ Complete({c \in Drenados(p) : Acepta(c, resp[c].gen)},
              [c \in Procs |-> [code |-> "dead", de |-> resp[c].gen]])
  /\ eps' = [i \in Eps |-> IF i \in Atiende(p)
       THEN [eps[i] EXCEPT !.vivo = FALSE, !.n = 0,
                           !.cola = [k \in 0 .. Queue - 1 |-> NoProc],
                           !.cabeza = (@ + eps[i].n) % Queue]
       ELSE eps[i]]

(* revoke_all begins: p exits or fails, or its parent q closes it, which   *)
(* waits for p to be done with closing a child of its own.                 *)
Muere(p, q) ==
  /\ Corre(q) /\ tarea[p].state # "Exited"
  /\ cierra[p] = NoProc /\ Cierran(p) = {}
  /\ ProcessDied(p)
  /\ cierra' = [cierra EXCEPT ![p] = q]
  /\ UNCHANGED <<caps, anillo>>

(* revoke_all_slots, and p is marked Exited. *)
Termina(p) ==
  /\ cierra[p] # NoProc
  /\ caps' = [caps EXCEPT ![p] = {}]
  /\ tarea' = [tarea EXCEPT ![p] = [state |-> "Exited", wait_key |-> NoKey]]
  /\ cierra' = [cierra EXCEPT ![p] = NoProc]
  /\ UNCHANGED <<eps, resp, frame, anillo>>

----------------------------------------------------------------------------
De(p, kind) == {cap \in caps[p] : cap.kind = kind}

Client(p) ==
  \/ \E i \in Eps : GrantClient(p, i)
  \/ \E cap \in De(p, "llamar") : CallOp(p, cap)

Server(p) ==
  \/ Create(p)
  \/ \E cap \in De(p, "servir") : WaitForNothing(p, cap) \/ WaitFor(p, cap)
  \/ \E cap \in De(p, "responder") : ReplyTo(p, cap)
  \/ Timeout(p)
  \/ Poll(p)

Next ==
  \/ \E p \in Procs : Client(p) \/ Server(p) \/ Termina(p)
  \/ \E p, q \in Procs : Muere(p, q)

Spec == Init /\ [][Next]_vars

----------------------------------------------------------------------------
(* The call that c sleeps on, and where it is. *)
Espera(c) == resp[c].esperando /\ ~resp[c].lista
Colas(c) == {i \in Eps : \E k \in 1 .. Queue :
               k <= eps[i].n /\ EnCola(eps[i])[k] = c}
Manos(c) == {p \in Procs : \E cap \in De(p, "responder") :
               cap.caller_tid = c /\ cap.de = resp[c].gen}

(* call, wait_for, reply_to, process_died: a call is in one place while it *)
(* waits, in the queue of one endpoint or in the hands of one server, and  *)
(* nowhere once it was answered: nobody can answer it twice.               *)
OneAnswer ==
  \A c \in Procs :
    /\ Cardinality(Colas(c)) + Cardinality(Manos(c)) <= 1
    /\ ~Espera(c) => Colas(c) = {} /\ Manos(c) = {}

(* call, complete, write_into_frame: whoever is back from a call has the   *)
(* answer to that call and not to an earlier one, and not the provisional  *)
(* value that the code leaves in the frame before it sleeps.               *)
AnswerIsToThisCall ==
  \A c \in Procs :
    tarea[c].state = "Ready" =>
      frame[c].code # "provisional" /\ frame[c].de = resp[c].gen

(* wait_for, call: no server sleeps while a call waits for it. *)
NoCallSleptOn ==
  \A p \in Procs :
    tarea[p].state = "Blocked" /\ tarea[p].wait_key \in Eps =>
      eps[tarea[p].wait_key].n = 0

(* process_died: "todo el que estuviera esperando respuesta despierta con   *)
(* ERROR_ENDPOINT_DEAD": a process that sleeps on a call has someone alive  *)
(* left to answer it.                                                      *)
NobodyWaitsForTheDead ==
  \A c \in Procs :
    tarea[c].state = "Blocked" /\ Espera(c) => Colas(c) # {} \/ Manos(c) # {}

----------------------------------------------------------------------------
(* The endpoints implement the promise of module Rpc. *)
Promesa == INSTANCE Rpc WITH
  Endpoints <- Eps,
  cola <- [i \in Eps |-> EnCola(eps[i])],
  fase <- [c \in Procs |->
             CASE ~Espera(c) -> "libre"
               [] Espera(c) /\ Colas(c) # {} -> "pedida"
               [] Espera(c) /\ Colas(c) = {} /\ Manos(c) # {} -> "cogida"
               [] OTHER -> "huerfana"],
  quien <- [c \in Procs |-> IF Espera(c) /\ Manos(c) # {}
                            THEN CHOOSE p \in Procs : p \in Manos(c) ELSE c]

KeepsThePromise == Promesa!Spec
=============================================================================
