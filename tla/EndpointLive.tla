---------------------------- MODULE EndpointLive ----------------------------
(***************************************************************************)
(* Endpoint RPC at work: the server and the client of the demonstration    *)
(* (toolchain/tools/rpc-demo), with a client that calls again and again.   *)
(* The server answers each call before it asks for the next, waits without *)
(* a deadline and does not read its channel.                               *)
(***************************************************************************)
EXTENDS Endpoint

CONSTANT Servers

ASSUME ServersAssumption == Servers \subseteq Procs

Servidor(p) ==
  \/ De(p, "servir") = {} /\ Create(p)
  \/ /\ De(p, "responder") = {}
     /\ \E cap \in De(p, "servir") : WaitForNothing(p, cap) \/ WaitFor(p, cap)
  \/ \E cap \in De(p, "responder") : ReplyTo(p, cap)

Cliente(p) == Client(p)

LiveNext ==
  \/ \E p \in Servers : Servidor(p)
  \/ \E p \in Procs \ Servers : Cliente(p)

(* The scheduler gives the server its turns; nothing makes a client call.  *)
Fairness == \A p \in Servers : WF_vars(Servidor(p))

LiveSpec == Init /\ [][LiveNext]_vars /\ Fairness

----------------------------------------------------------------------------
(* call, wait_for, reply_to: whoever is let into the queue comes back from *)
(* its call, however often the others call.                                *)
EveryCallComesBack ==
  \A c \in Procs : tarea[c].wait_key = ReplyKey ~> tarea[c].state = "Ready"
=============================================================================
