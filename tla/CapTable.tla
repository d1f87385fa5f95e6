----------------------------- MODULE CapTable ------------------------------
(***************************************************************************)
(* The capability table of Ring 0 (kernel/src/ring0/obj/cap.rs).           *)
(*                                                                         *)
(* A process names a kernel object by a handle: a copyable number that     *)
(* packs a kind, the generation of a slot and the index of the slot.  The  *)
(* table never tracks the copies; it only bumps the generation of a slot   *)
(* each time the slot is granted again.  Everything a handle promises      *)
(* (that it dies with the grant it came from, that it never opens anything *)
(* else) rests on that counter, which is 16 bits wide in the code.         *)
(*                                                                         *)
(* Every operation holds CAP_LOCK from its first access of the table to    *)
(* its return, so each is one step.  The tag bit of a handle is a function *)
(* of its kind and is left out.                                            *)
(***************************************************************************)
EXTENDS Naturals

CONSTANTS
  Callers,      (* every pid that may ask: pids are handed out without reuse *)
  MaxProcs,     (* MAX_PROCS: the pids below it have a table                 *)
  SlotsPerProc, (* SLOTS_PER_PROC                                            *)
  GenMax,       (* the largest generation: 2^16 - 1 in the code              *)
  Kinds,        (* kinds of capability                                       *)
  Objects,      (* kernel objects                                            *)
  Rights,       (* rights bits                                               *)
  NoKind,       (* the kind 0 of a freed slot                                *)
  NoObject,     (* the object 0 of a freed slot                              *)
  MaxGrants     (* bound of the model: grants a single slot sees             *)

ASSUME SizesAssumption ==
  /\ Callers \subseteq Nat
  /\ MaxProcs \in Nat
  /\ SlotsPerProc \in Nat
  /\ GenMax \in Nat \ {0}
  /\ MaxGrants \in Nat
  /\ NoKind \notin Kinds
  /\ NoObject \notin Objects

Procs == {p \in Callers : p < MaxProcs}
Index == 0 .. SlotsPerProc - 1

(* The fields of a CapSlot and of an opaque handle. *)
CapSlot == [live : BOOLEAN, generation : 0 .. GenMax,
            kind : Kinds \cup {NoKind}, rights : SUBSET Rights,
            object : Objects \cup {NoObject}]
Handle == [kind : Kinds, generation : 0 .. GenMax, index : Index]

(* CapSlot::FREE *)
Free == [live |-> FALSE, generation |-> 0, kind |-> NoKind,
         rights |-> {}, object |-> NoObject]

VARIABLES
  slots,   (* slots[pid][i]: TABLES.slots                                   *)
  grants,  (* history: how many times each slot was granted                 *)
  issued   (* history: every handle handed out, with what it was granted    *)
           (* for, the number of its grant and whether it was revoked since *)

vars == <<slots, grants, issued>>

Issue == [pid : Procs, handle : Handle, serial : Nat, kind : Kinds,
          rights : SUBSET Rights, object : Objects, revoked : BOOLEAN]

TypeOK ==
  /\ slots \in [Procs -> [Index -> CapSlot]]
  /\ grants \in [Procs -> [Index -> Nat]]
  /\ issued \subseteq Issue

Init ==
  /\ slots = [p \in Procs |-> [i \in Index |-> Free]]
  /\ grants = [p \in Procs |-> [i \in Index |-> 0]]
  /\ issued = {}

----------------------------------------------------------------------------
(* encode *)
Encode(kind, generation, index) ==
  [kind |-> kind, generation |-> generation, index |-> index]

(* Mutant of NextGeneration: the slot keeps its first generation. *)
NextGenerationStuck(g) == IF g = 0 THEN 1 ELSE g

(* Mutant of NextGeneration: the counter is wider than its handle. *)
NextGenerationUnwrapped(g) == g + 1

(* The generation after g: wrapping_add(1), with 0 skipped. *)
NextGeneration(g) == IF g = GenMax THEN 1 ELSE g + 1

(* The slot a grant takes: the first one that is not live. *)
IsFirstFree(table, i) ==
  /\ ~table[i].live
  /\ \A j \in Index : j < i => table[j].live

(* Mutant of Opens: the generation is not compared. *)
OpensAnyGeneration(slot, h, required) ==
  slot.live /\ slot.kind = h.kind /\ required \subseteq slot.rights

(* resolve, past its lookup: whether the slot h indexes opens with h. *)
Opens(slot, h, required) ==
  /\ h.generation # 0
  /\ slot.live
  /\ slot.generation = h.generation
  /\ slot.kind = h.kind
  /\ required \subseteq slot.rights

(* resolve: whether handle h opens anything for pid with these rights. *)
Resolves(pid, h, required) ==
  pid \in Procs /\ Opens(slots[pid][h.index], h, required)

(* Mutant of Matches: two capabilities on one object are confused. *)
MatchesObject(slot, kind, object) == slot.live /\ slot.object = object

Matches(slot, kind, object) ==
  slot.live /\ slot.kind = kind /\ slot.object = object

(* find: the handle of the pid's first capability on (kind, object). *)
Finds(pid, kind, object, h) ==
  /\ pid \in Procs
  /\ \E i \in Index :
       /\ Matches(slots[pid][i], kind, object)
       /\ \A j \in Index : j < i => ~Matches(slots[pid][j], kind, object)
       /\ h = Encode(slots[pid][i].kind, slots[pid][i].generation, i)

(* A slot whose rights are dropped; the generation stays. *)
Dropped(slot) ==
  [slot EXCEPT !.live = FALSE, !.rights = {}, !.kind = NoKind,
               !.object = NoObject]

----------------------------------------------------------------------------
(* grant: refused (no step) out of range or when the table is full. *)
Grant(pid, kind, rights, object) ==
  /\ pid \in Procs
  /\ \E i \in Index :
       /\ IsFirstFree(slots[pid], i)
       /\ grants[pid][i] < MaxGrants
       /\ LET g == NextGeneration(slots[pid][i].generation)
              n == grants[pid][i] + 1
          IN
            /\ slots' = [slots EXCEPT ![pid][i] =
                  [live |-> TRUE, generation |-> g, kind |-> kind,
                   rights |-> rights, object |-> object]]
            /\ grants' = [grants EXCEPT ![pid][i] = n]
            /\ issued' = issued \cup
                 {[pid |-> pid, handle |-> Encode(kind, g, i), serial |-> n,
                   kind |-> kind, rights |-> rights, object |-> object,
                   revoked |-> FALSE]}

(* The grant x was named by handle h when pid gave h to revoke, which      *)
(* compares the index and the generation of h but not its kind.            *)
IsNamed(x, pid, h) ==
  /\ x.pid = pid
  /\ x.handle.index = h.index
  /\ x.handle.generation = h.generation

(* Mutant of Revoke: any handle on a live slot will do. *)
RevokeAnyGeneration(pid, h) ==
  /\ pid \in Procs
  /\ slots[pid][h.index].live
  /\ slots' = [slots EXCEPT ![pid][h.index] = Dropped(@)]
  /\ issued' = {[x EXCEPT !.revoked = @ \/ IsNamed(x, pid, h)] : x \in issued}
  /\ UNCHANGED grants

(* revoke: h is whatever the caller passed, its own copy or a forgery. *)
Revoke(pid, h) ==
  /\ pid \in Procs
  /\ h.generation # 0
  /\ slots[pid][h.index].live
  /\ slots[pid][h.index].generation = h.generation
  /\ slots' = [slots EXCEPT ![pid][h.index] = Dropped(@)]
  /\ issued' = {[x EXCEPT !.revoked = @ \/ IsNamed(x, pid, h)] : x \in issued}
  /\ UNCHANGED grants

(* revoke_all_slots: the last station of the death of pid. *)
RevokeAll(pid) ==
  /\ pid \in Procs
  /\ slots' = [slots EXCEPT ![pid] = [i \in Index |-> Dropped(@[i])]]
  /\ issued' = {[x EXCEPT !.revoked = @ \/ x.pid = pid] : x \in issued}
  /\ UNCHANGED grants

Next ==
  \E pid \in Callers :
    \/ \E kind \in Kinds, rights \in SUBSET Rights, object \in Objects :
         Grant(pid, kind, rights, object)
    \/ \E h \in Handle : Revoke(pid, h)
    \/ RevokeAll(pid)

Spec == Init /\ [][Next]_vars

----------------------------------------------------------------------------
(* Since grant x its slot was granted again fewer than GenMax times: the   *)
(* 16-bit counter has not come round to the generation of x yet.           *)
NotRoundYet(x) == grants[x.pid][x.handle.index] < x.serial + GenMax

(* grant, revoke, revoke_all: a handle whose grant ended opens nothing,    *)
(* whoever kept a copy of it and whatever the slot has been granted for    *)
(* since, until the counter comes round.                                   *)
StaleHandleIsDead ==
  \A x \in issued :
    x.revoked /\ NotRoundYet(x) => ~Resolves(x.pid, x.handle, {})

(* grant, resolve: what a handle opens is what it was granted for, the     *)
(* kind, the object and the rights of its own grant, never those of a      *)
(* later tenant of the slot.                                               *)
HandleOpensItsOwnGrant ==
  \A x \in issued, k \in Kinds :
    LET h == [x.handle EXCEPT !.kind = k]
        slot == slots[x.pid][x.handle.index] IN
    NotRoundYet(x) /\ Resolves(x.pid, h, {}) =>
      k = x.kind /\ slot.object = x.object /\ slot.rights = x.rights

(* A capability whose handle nobody gave to revoke still opens its object: *)
(* revoking stale handles, granting others, and the death of another       *)
(* process never disturb it.                                               *)
LiveHandleStillOpens ==
  \A x \in issued : ~x.revoked => Resolves(x.pid, x.handle, x.rights)

(* find (TASK_OP_CHANNEL_OPEN) answers a handle exactly to the process     *)
(* that holds an unrevoked capability of that kind on that object, and     *)
(* what it answers is a handle of that capability.                         *)
FindIsWhatIsHeld ==
  \A pid \in Procs, kind \in Kinds, object \in Objects :
    LET held == {x \in issued : /\ x.pid = pid /\ x.kind = kind
                                /\ x.object = object /\ ~x.revoked}
        found == {h \in Handle : Finds(pid, kind, object, h)}
    IN /\ found \subseteq {x.handle : x \in held}
       /\ (held # {}) => (found # {})
=============================================================================
