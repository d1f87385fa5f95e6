-------------------------- MODULE CapTableProofs ---------------------------
(* Proofs about the capability table, for any number of processes, slots   *)
(* and generations.  The history variables say how many grants lie between *)
(* a handle and the present of its slot; the inductive invariant below     *)
(* relates that distance to the two generations, which is what makes the   *)
(* comparison in resolve decide whether the handle is stale.               *)
EXTENDS CapTable, WellFoundedInduction, TLAPS

(* The slot that x was granted in, and the grants it has seen so far. *)
SlotOf(x) == slots[x.pid][x.handle.index]
GrantsOf(x) == grants[x.pid][x.handle.index]

(* Generations start at 1 with the first grant of a slot. *)
GenerationsStarted ==
  \A p \in Procs, i \in Index : grants[p][i] > 0 => slots[p][i].generation > 0

(* A handle carries a generation of its slot and the number of its grant. *)
HandleWellFormed(x) ==
  /\ x.handle.kind = x.kind
  /\ x.handle.generation > 0
  /\ x.serial > 0
  /\ x.serial <= GrantsOf(x)

(* The generation of the slot is as far from the one of x as the grants    *)
(* since x say, or a whole round less.                                     *)
Distance(x) ==
  NotRoundYet(x) =>
    \/ SlotOf(x).generation = x.handle.generation + (GrantsOf(x) - x.serial)
    \/ SlotOf(x).generation + GenMax =
         x.handle.generation + (GrantsOf(x) - x.serial)

(* The latest grant of a slot is in force exactly while it is not revoked, *)
(* and then the slot says what it was granted for.                         *)
LatestGrant(x) ==
  /\ ~x.revoked => x.serial = GrantsOf(x) /\ SlotOf(x).live
  /\ x.revoked /\ x.serial = GrantsOf(x) => ~SlotOf(x).live
  /\ x.serial = GrantsOf(x) =>
       /\ SlotOf(x).generation = x.handle.generation
       /\ SlotOf(x).live => /\ SlotOf(x).kind = x.kind
                            /\ SlotOf(x).rights = x.rights
                            /\ SlotOf(x).object = x.object

(* A slot that is in use was granted, and nobody named that grant to revoke. *)
LiveSlotsAreHeld ==
  \A p \in Procs, i \in Index : slots[p][i].live =>
    \E x \in issued : x.pid = p /\ x.handle.index = i /\ ~x.revoked

IInv ==
  /\ TypeOK
  /\ GenerationsStarted
  /\ LiveSlotsAreHeld
  /\ \A x \in issued : HandleWellFormed(x) /\ Distance(x) /\ LatestGrant(x)

----------------------------------------------------------------------------
(* An issued record: the types of what the proofs compute with. *)
LEMMA IssueType ==
  ASSUME TypeOK, NEW x \in issued
  PROVE  /\ x.pid \in Procs
         /\ x.handle.index \in Index
         /\ x.handle.generation \in Nat
         /\ x.handle.generation <= GenMax
         /\ x.serial \in Nat
         /\ x.revoked \in BOOLEAN
         /\ x.kind \in Kinds
         /\ x.handle \in Handle
         /\ SlotOf(x) \in CapSlot
         /\ GrantsOf(x) \in Nat
  <1>1. x \in Issue
    BY DEF TypeOK
  <1>2. /\ x.pid \in Procs /\ x.handle \in Handle /\ x.serial \in Nat
        /\ x.revoked \in BOOLEAN /\ x.kind \in Kinds
    BY <1>1 DEF Issue
  <1>3. /\ x.handle.index \in Index
        /\ x.handle.generation \in 0 .. GenMax
    BY <1>2 DEF Handle
  <1>4. SlotOf(x) \in CapSlot /\ GrantsOf(x) \in Nat
    BY <1>2, <1>3 DEF TypeOK, SlotOf, GrantsOf
  <1> QED
    BY <1>2, <1>3, <1>4, SizesAssumption

(* A dropped slot is a slot, dead, with its generation. *)
LEMMA DroppedType ==
  ASSUME NEW s \in CapSlot
  PROVE  /\ Dropped(s) \in CapSlot
         /\ ~Dropped(s).live
         /\ Dropped(s).generation = s.generation
  BY DEF Dropped, CapSlot

LEMMA NextGenerationType ==
  ASSUME NEW g \in 0 .. GenMax
  PROVE  /\ NextGeneration(g) \in 1 .. GenMax
         /\ NextGeneration(g) = g + 1 \/ (g = GenMax /\ NextGeneration(g) = 1)
  BY SizesAssumption DEF NextGeneration

(* The initial table satisfies the invariant: nothing was issued. *)
LEMMA InitIInv == Init => IInv
  <1> SUFFICES ASSUME Init PROVE IInv
    OBVIOUS
  <1>1. Free \in CapSlot
    BY SizesAssumption DEF Free, CapSlot
  <1>2. TypeOK
    BY <1>1 DEF Init, TypeOK
  <1>3. GenerationsStarted
    BY DEF Init, GenerationsStarted
  <1>4. LiveSlotsAreHeld
    BY DEF Init, Free, LiveSlotsAreHeld
  <1> QED
    BY <1>2, <1>3, <1>4 DEF Init, IInv

(* grant takes a slot that is not live, so it disturbs no grant in force,  *)
(* and puts one more grant between the slot and each of its old handles.   *)
LEMMA GrantIInv ==
  ASSUME IInv,
         NEW pid \in Callers, NEW kind \in Kinds,
         NEW rights \in SUBSET Rights, NEW object \in Objects,
         Grant(pid, kind, rights, object)
  PROVE  IInv'
  <1> USE SizesAssumption
  <1>1. PICK i \in Index :
          /\ pid \in Procs
          /\ ~slots[pid][i].live
          /\ slots' = [slots EXCEPT ![pid][i] =
               [live |-> TRUE, generation |-> NextGeneration(slots[pid][i].generation),
                kind |-> kind, rights |-> rights, object |-> object]]
          /\ grants' = [grants EXCEPT ![pid][i] = grants[pid][i] + 1]
          /\ issued' = issued \cup
               {[pid |-> pid,
                 handle |-> Encode(kind, NextGeneration(slots[pid][i].generation), i),
                 serial |-> grants[pid][i] + 1, kind |-> kind,
                 rights |-> rights, object |-> object, revoked |-> FALSE]}
    BY DEF Grant, IsFirstFree
  <1> DEFINE g == NextGeneration(slots[pid][i].generation)
             n == grants[pid][i] + 1
             slot == [live |-> TRUE, generation |-> g, kind |-> kind,
                      rights |-> rights, object |-> object]
             new == [pid |-> pid, handle |-> Encode(kind, g, i), serial |-> n,
                     kind |-> kind, rights |-> rights, object |-> object,
                     revoked |-> FALSE]
  <1>2. TypeOK
    BY DEF IInv
  <1>3. slots[pid][i] \in CapSlot /\ grants[pid][i] \in Nat
    BY <1>1, <1>2 DEF TypeOK
  <1>4. /\ slots[pid][i].generation \in 0 .. GenMax
        /\ g \in 1 .. GenMax
        /\ n \in Nat /\ n > 0
    BY <1>3, NextGenerationType DEF CapSlot
  <1>5. slot \in CapSlot /\ slot.generation = g
    BY <1>4 DEF CapSlot
  <1>6. /\ new \in Issue
        /\ new.pid = pid /\ new.handle.index = i /\ new.handle.generation = g
        /\ new.handle.kind = kind
    BY <1>1, <1>4 DEF Issue, Handle, Encode
  <1>7. TypeOK'
    <2>1. slots' \in [Procs -> [Index -> CapSlot]]
      BY <1>1, <1>2, <1>5 DEF TypeOK
    <2>2. grants' \in [Procs -> [Index -> Nat]]
      BY <1>1, <1>2, <1>4 DEF TypeOK
    <2>3. issued' \subseteq Issue
      BY <1>1, <1>2, <1>6 DEF TypeOK
    <2> QED
      BY <2>1, <2>2, <2>3 DEF TypeOK
  <1>8. \A p \in Procs, j \in Index :
          /\ (p = pid /\ j = i) => slots'[p][j] = slot /\ grants'[p][j] = n
          /\ ~(p = pid /\ j = i) => /\ slots'[p][j] = slots[p][j]
                                   /\ grants'[p][j] = grants[p][j]
    BY <1>1, <1>2 DEF TypeOK
  <1>9. GenerationsStarted'
    <2> SUFFICES ASSUME NEW p \in Procs, NEW j \in Index, grants'[p][j] > 0
                 PROVE  slots'[p][j].generation > 0
      BY DEF GenerationsStarted
    <2>1. CASE p = pid /\ j = i
      BY <2>1, <1>4, <1>5, <1>8
    <2>2. CASE ~(p = pid /\ j = i)
      BY <2>2, <1>8 DEF IInv, GenerationsStarted
    <2> QED
      BY <2>1, <2>2
  <1>10. ASSUME NEW x \in issued'
         PROVE  (HandleWellFormed(x) /\ Distance(x) /\ LatestGrant(x))'
    <2>1. CASE x = new
      <3>1. SlotOf(x)' = slot /\ GrantsOf(x)' = n
        <4>1. x.pid = pid /\ x.handle.index = i
          BY <2>1, <1>6
        <4>2. slots'[pid][i] = slot /\ grants'[pid][i] = n
          BY <1>1, <1>8
        <4> HIDE DEF slot, n, new
        <4> QED
          BY <4>1, <4>2 DEF SlotOf, GrantsOf
      <3>2. /\ x.handle.kind = x.kind /\ x.handle.generation = g /\ x.serial = n
            /\ ~x.revoked /\ x.rights = rights /\ x.object = object /\ x.kind = kind
        BY <2>1, <1>6
      <3>3. /\ slot.live /\ slot.generation = g /\ slot.kind = kind
            /\ slot.rights = rights /\ slot.object = object
        OBVIOUS
      <3> HIDE DEF slot, n, new, g
      <3>4. HandleWellFormed(x)'
        BY <3>1, <3>2, <1>4 DEF HandleWellFormed
      <3>5. Distance(x)'
        BY <3>1, <3>2, <3>3, <1>4 DEF Distance
      <3>6. LatestGrant(x)'
        BY <3>1, <3>2, <3>3, <1>4 DEF LatestGrant
      <3> QED
        BY <3>4, <3>5, <3>6
    <2>2. CASE x \in issued
      <3>1. HandleWellFormed(x) /\ Distance(x) /\ LatestGrant(x)
        BY <2>2 DEF IInv
      <3>2. /\ x.pid \in Procs /\ x.handle.index \in Index
            /\ x.handle.generation \in Nat /\ x.handle.generation <= GenMax
            /\ x.serial \in Nat /\ x.revoked \in BOOLEAN
        BY <2>2, <1>2, IssueType
      <3>3. slot.generation = g
        OBVIOUS
      <3>4. grants[pid][i] = n - 1
        BY <1>3
      <3> HIDE DEF slot, n, new, g
      <3>5. CASE ~(x.pid = pid /\ x.handle.index = i)
        <4>1. SlotOf(x)' = SlotOf(x) /\ GrantsOf(x)' = GrantsOf(x)
          BY <3>2, <3>5, <1>8 DEF SlotOf, GrantsOf
        <4>2. NotRoundYet(x)' <=> NotRoundYet(x)
          BY <4>1 DEF NotRoundYet, GrantsOf
        <4> QED
          BY <3>1, <4>1, <4>2 DEF HandleWellFormed, Distance, LatestGrant
      <3>6. CASE x.pid = pid /\ x.handle.index = i
        <4>1. /\ SlotOf(x) = slots[pid][i] /\ GrantsOf(x) = n - 1
              /\ SlotOf(x)' = slot /\ GrantsOf(x)' = n
          BY <3>2, <3>4, <3>6, <1>8 DEF SlotOf, GrantsOf
        <4>2. x.revoked /\ x.serial < n
          BY <3>1, <3>2, <4>1, <1>1, <1>4 DEF LatestGrant, HandleWellFormed
        <4>3. HandleWellFormed(x)'
          BY <3>1, <3>2, <4>1, <4>2, <1>4 DEF HandleWellFormed
        <4>4. LatestGrant(x)'
          BY <3>2, <4>1, <4>2, <1>4 DEF LatestGrant
        <4>5. Distance(x)'
          <5> SUFFICES ASSUME n < x.serial + GenMax
                       PROVE  \/ g = x.handle.generation + (n - x.serial)
                              \/ g + GenMax = x.handle.generation + (n - x.serial)
            BY <3>3, <4>1 DEF Distance, NotRoundYet, GrantsOf
          <5> DEFINE old == slots[pid][i].generation
          <5>1. old \in 0 .. GenMax /\ (g = old + 1 \/ (old = GenMax /\ g = 1))
            BY <1>4, NextGenerationType DEF g
          <5>2. x.handle.generation \in 1 .. GenMax
            BY <3>1, <3>2 DEF HandleWellFormed
          <5>3. \/ old = x.handle.generation + (n - 1 - x.serial)
                \/ old + GenMax = x.handle.generation + (n - 1 - x.serial)
            BY <3>1, <3>2, <4>1, <1>4 DEF Distance, NotRoundYet, GrantsOf
          <5> HIDE DEF old
          <5> QED
            BY <3>2, <4>2, <5>1, <5>2, <5>3, <1>4
        <4> QED
          BY <4>3, <4>4, <4>5
      <3> QED
        BY <3>5, <3>6
    <2> QED
      BY <2>1, <2>2, <1>1
  <1>11. LiveSlotsAreHeld'
    <2> SUFFICES ASSUME NEW p \in Procs, NEW j \in Index, slots'[p][j].live
                 PROVE  \E x \in issued' : x.pid = p /\ x.handle.index = j /\ ~x.revoked
      BY DEF LiveSlotsAreHeld
    <2>1. CASE p = pid /\ j = i
      <3>1. new \in issued' /\ new.pid = p /\ new.handle.index = j /\ ~new.revoked
        BY <1>1, <1>6, <2>1
      <3> QED
        BY <3>1
    <2>2. CASE ~(p = pid /\ j = i)
      BY <2>2, <1>1, <1>8 DEF IInv, LiveSlotsAreHeld
    <2> QED
      BY <2>1, <2>2
  <1> QED
    BY <1>7, <1>9, <1>10, <1>11 DEF IInv

(* revoke and revoke_all only kill.  D is the set of slots that die and M  *)
(* the set of the handed-out capabilities that are marked revoked; all is  *)
(* well when the slots that die are those whose capability is marked.      *)
LEMMA KillIInv ==
  ASSUME IInv, NEW D, NEW M,
         slots' = [p \in Procs |-> [j \in Index |->
                     IF <<p, j>> \in D THEN Dropped(slots[p][j])
                                       ELSE slots[p][j]]],
         grants' = grants,
         issued' = {[x EXCEPT !.revoked = @ \/ x \in M] : x \in issued},
         \A x \in issued :
           /\ x \in M => <<x.pid, x.handle.index>> \in D \/ x.serial # GrantsOf(x)
           /\ ~x.revoked /\ x \notin M => <<x.pid, x.handle.index>> \notin D
  PROVE  IInv'
  <1>1. TypeOK
    BY DEF IInv
  <1>2. \A p \in Procs, j \in Index :
          /\ slots[p][j] \in CapSlot
          /\ slots'[p][j] \in CapSlot
          /\ slots'[p][j].generation = slots[p][j].generation
          /\ <<p, j>> \in D => ~slots'[p][j].live
          /\ <<p, j>> \notin D => slots'[p][j] = slots[p][j]
    BY <1>1, DroppedType DEF TypeOK
  <1>3. ASSUME NEW y \in issued'
        PROVE  \E x \in issued :
                 /\ y \in Issue
                 /\ y.pid = x.pid /\ y.handle = x.handle /\ y.serial = x.serial
                 /\ y.kind = x.kind /\ y.rights = x.rights /\ y.object = x.object
                 /\ y.revoked = (x.revoked \/ x \in M)
    <2>1. PICK x \in issued : y = [x EXCEPT !.revoked = @ \/ x \in M]
      OBVIOUS
    <2>2. x \in Issue
      BY <1>1 DEF TypeOK
    <2> QED
      BY <2>1, <2>2 DEF Issue
  <1>4. TypeOK'
    <2>1. slots' \in [Procs -> [Index -> CapSlot]]
      BY <1>2
    <2>2. issued' \subseteq Issue
      BY <1>3
    <2> QED
      BY <1>1, <2>1, <2>2 DEF TypeOK
  <1>5. GenerationsStarted'
    BY <1>2 DEF IInv, GenerationsStarted
  <1>6. ASSUME NEW y \in issued'
        PROVE  (HandleWellFormed(y) /\ Distance(y) /\ LatestGrant(y))'
    <2>1. PICK x \in issued :
            /\ y.pid = x.pid /\ y.handle = x.handle /\ y.serial = x.serial
            /\ y.kind = x.kind /\ y.rights = x.rights /\ y.object = x.object
            /\ y.revoked = (x.revoked \/ x \in M)
      BY <1>3
    <2>2. HandleWellFormed(x) /\ Distance(x) /\ LatestGrant(x)
      BY DEF IInv
    <2>3. x.pid \in Procs /\ x.handle.index \in Index
      BY <1>1, IssueType
    <2>4. /\ GrantsOf(y)' = GrantsOf(x)
          /\ SlotOf(y)'.generation = SlotOf(x).generation
          /\ <<x.pid, x.handle.index>> \in D => ~SlotOf(y)'.live
          /\ <<x.pid, x.handle.index>> \notin D => SlotOf(y)' = SlotOf(x)
      BY <2>1, <2>3, <1>2 DEF GrantsOf, SlotOf
    <2>5. HandleWellFormed(y)'
      BY <2>1, <2>2, <2>4 DEF HandleWellFormed
    <2>6. Distance(y)'
      BY <2>1, <2>2, <2>4 DEF Distance, NotRoundYet, GrantsOf
    <2>7. LatestGrant(y)'
      BY <2>1, <2>2, <2>4 DEF LatestGrant
    <2> QED
      BY <2>5, <2>6, <2>7
  <1>7. LiveSlotsAreHeld'
    <2> SUFFICES ASSUME NEW p \in Procs, NEW j \in Index, slots'[p][j].live
                 PROVE  \E y \in issued' : y.pid = p /\ y.handle.index = j /\ ~y.revoked
      BY DEF LiveSlotsAreHeld
    <2>1. <<p, j>> \notin D /\ slots[p][j].live
      BY <1>2
    <2>2. PICK x \in issued : x.pid = p /\ x.handle.index = j /\ ~x.revoked
      BY <2>1 DEF IInv, LiveSlotsAreHeld
    <2>3. x \notin M
      BY <2>1, <2>2 DEF IInv, LatestGrant
    <2>4. [x EXCEPT !.revoked = @ \/ x \in M] \in issued'
      OBVIOUS
    <2>5. x \in Issue
      BY <1>1 DEF TypeOK
    <2> DEFINE y == [x EXCEPT !.revoked = @ \/ x \in M]
    <2>6. y.pid = p /\ y.handle.index = j /\ ~y.revoked
      BY <2>2, <2>3, <2>5 DEF Issue
    <2> QED
      BY <2>4, <2>6
  <1> QED
    BY <1>4, <1>5, <1>6, <1>7 DEF IInv

LEMMA RevokeIInv ==
  ASSUME IInv, NEW pid \in Callers, NEW h \in Handle, Revoke(pid, h)
  PROVE  IInv'
  <1> DEFINE D == {<<pid, h.index>>}
             M == {x \in issued : IsNamed(x, pid, h)}
  <1>1. TypeOK /\ pid \in Procs /\ h.index \in Index
    BY DEF IInv, Revoke, Handle
  <1>2. slots' = [p \in Procs |-> [j \in Index |->
                    IF <<p, j>> \in D THEN Dropped(slots[p][j])
                                      ELSE slots[p][j]]]
    BY <1>1 DEF Revoke, TypeOK
  <1>3. issued' = {[x EXCEPT !.revoked = @ \/ x \in M] : x \in issued}
    BY DEF Revoke
  <1>4. ASSUME NEW x \in issued
        PROVE  /\ x \in M => <<x.pid, x.handle.index>> \in D
               /\ ~x.revoked /\ x \notin M => <<x.pid, x.handle.index>> \notin D
    <2>1. LatestGrant(x)
      BY DEF IInv
    <2>2. CASE x.revoked \/ ~(x.pid = pid /\ x.handle.index = h.index)
      BY <2>2 DEF IsNamed
    <2>3. CASE ~x.revoked /\ x.pid = pid /\ x.handle.index = h.index
      BY <2>1, <2>3 DEF LatestGrant, SlotOf, IsNamed, Revoke
    <2> QED
      BY <2>2, <2>3
  <1>5. grants' = grants
    BY DEF Revoke
  <1> HIDE DEF D, M
  <1> QED
    BY <1>2, <1>3, <1>4, <1>5, KillIInv

LEMMA RevokeAllIInv ==
  ASSUME IInv, NEW pid \in Callers, RevokeAll(pid)
  PROVE  IInv'
  <1> DEFINE D == {pid} \X Index
             M == {x \in issued : x.pid = pid}
  <1>1. TypeOK /\ pid \in Procs
    BY DEF IInv, RevokeAll
  <1>2. slots' = [p \in Procs |-> [j \in Index |->
                    IF <<p, j>> \in D THEN Dropped(slots[p][j])
                                      ELSE slots[p][j]]]
    BY <1>1 DEF RevokeAll, TypeOK
  <1>3. issued' = {[x EXCEPT !.revoked = @ \/ x \in M] : x \in issued}
    BY DEF RevokeAll
  <1>4. ASSUME NEW x \in issued
        PROVE  /\ x \in M => <<x.pid, x.handle.index>> \in D
               /\ x \notin M => <<x.pid, x.handle.index>> \notin D
    BY <1>1, IssueType
  <1>5. grants' = grants
    BY DEF RevokeAll
  <1> HIDE DEF D, M
  <1> QED
    BY <1>2, <1>3, <1>4, <1>5, KillIInv

LEMMA NextIInv == IInv /\ [Next]_vars => IInv'
  <1> SUFFICES ASSUME IInv, [Next]_vars PROVE IInv'
    OBVIOUS
  <1>1. CASE Next
    <2>1. PICK pid \in Callers :
            \/ \E kind \in Kinds, rights \in SUBSET Rights, object \in Objects :
                 Grant(pid, kind, rights, object)
            \/ \E h \in Handle : Revoke(pid, h)
            \/ RevokeAll(pid)
      BY <1>1 DEF Next
    <2> QED
      BY <2>1, GrantIInv, RevokeIInv, RevokeAllIInv
  <1>2. CASE UNCHANGED vars
    BY <1>2, SMTT(30) DEF vars, IInv, TypeOK, GenerationsStarted, LiveSlotsAreHeld, HandleWellFormed,
                Distance, LatestGrant, NotRoundYet, SlotOf, GrantsOf
  <1> QED
    BY <1>1, <1>2

THEOREM Inductive == Spec => []IInv
  BY InitIInv, NextIInv, PTL DEF Spec

----------------------------------------------------------------------------
(* Within one round of the counter, a handle whose generation its slot     *)
(* shows is the handle of the latest grant of the slot.                    *)
LEMMA GenerationTells ==
  ASSUME IInv, NEW x \in issued, NotRoundYet(x),
         SlotOf(x).generation = x.handle.generation
  PROVE  x.serial = GrantsOf(x)
  <1>1. HandleWellFormed(x) /\ Distance(x) /\ TypeOK
    BY DEF IInv
  <1>2. /\ x.serial \in Nat /\ GrantsOf(x) \in Nat /\ x.handle.generation \in Nat
        /\ GenMax \in Nat
    BY <1>1, IssueType, SizesAssumption
  <1> QED
    BY <1>1, <1>2 DEF HandleWellFormed, Distance, NotRoundYet, GrantsOf

(* Every field of the table and of a handle keeps its type. *)
THEOREM TypeCorrect == Spec => []TypeOK
  BY Inductive, PTL DEF IInv

(* A handle whose grant ended opens nothing, for one round of the counter. *)
THEOREM StaleHandles == Spec => []StaleHandleIsDead
  <1>1. ASSUME IInv, NEW x \in issued, x.revoked, NotRoundYet(x)
        PROVE  ~Resolves(x.pid, x.handle, {})
    <2> SUFFICES ASSUME SlotOf(x).live,
                        SlotOf(x).generation = x.handle.generation
                 PROVE  FALSE
      BY DEF Resolves, Opens, SlotOf
    <2>1. x.serial = GrantsOf(x)
      BY <1>1, GenerationTells
    <2> QED
      BY <1>1, <2>1 DEF IInv, LatestGrant
  <1>2. IInv => StaleHandleIsDead
    BY <1>1 DEF StaleHandleIsDead
  <1> QED
    BY <1>2, Inductive, PTL

(* A handle opens what its own grant said, not what a later tenant of the  *)
(* slot was granted.                                                       *)
THEOREM OwnGrant == Spec => []HandleOpensItsOwnGrant
  <1>1. ASSUME IInv, NEW x \in issued, NEW k \in Kinds, NotRoundYet(x),
               Resolves(x.pid, [x.handle EXCEPT !.kind = k], {})
        PROVE  /\ k = x.kind
               /\ SlotOf(x).object = x.object /\ SlotOf(x).rights = x.rights
    <2> DEFINE h == [x.handle EXCEPT !.kind = k]
    <2>1. x.handle \in Handle
      BY <1>1, IssueType DEF IInv
    <2>2. h.index = x.handle.index /\ h.generation = x.handle.generation /\ h.kind = k
      BY <2>1 DEF Handle
    <2>3. /\ SlotOf(x).live /\ SlotOf(x).generation = x.handle.generation
          /\ SlotOf(x).kind = k
      BY <1>1, <2>2 DEF Resolves, Opens, SlotOf
    <2>4. x.serial = GrantsOf(x)
      BY <1>1, <2>3, GenerationTells
    <2> QED
      BY <2>3, <2>4, <1>1 DEF IInv, LatestGrant
  <1>2. IInv => HandleOpensItsOwnGrant
    BY <1>1 DEF HandleOpensItsOwnGrant, SlotOf
  <1> QED
    BY <1>2, Inductive, PTL

(* A capability that nobody named to revoke keeps opening its object. *)
THEOREM LiveHandles == Spec => []LiveHandleStillOpens
  <1>1. ASSUME IInv, NEW x \in issued, ~x.revoked
        PROVE  Resolves(x.pid, x.handle, x.rights)
    <2>1. HandleWellFormed(x) /\ LatestGrant(x) /\ x.pid \in Procs
      BY <1>1, IssueType DEF IInv
    <2>2. x.handle.generation \in Nat
      BY <1>1, IssueType DEF IInv
    <2> QED
      BY <1>1, <2>1, <2>2
         DEF HandleWellFormed, LatestGrant, Resolves, Opens, SlotOf
  <1>2. IInv => LiveHandleStillOpens
    BY <1>1 DEF LiveHandleStillOpens
  <1> QED
    BY <1>2, Inductive, PTL

(* A set of natural numbers that is not empty has a least one. *)
LEMMA LeastIndex ==
  ASSUME NEW T, T \subseteq Nat, T # {}
  PROVE  \E i \in T : \A j \in T : ~(j < i)
  <1> DEFINE R == {ss \in Nat \X Nat : ss[1] < ss[2]}
  <1>1. IsWellFoundedOn(R, Nat)
    BY NatLessThanWellFounded, Zenon DEF OpToRel
  <1>2. PICK i \in T : \A j \in T : ~ (<<j, i>> \in R)
    <2> HIDE DEF R
    <2> QED
      BY <1>1, WFMin
  <1>3. ASSUME NEW j \in T PROVE ~(j < i)
    BY <1>2
  <1> QED
    BY <1>3

(* What find answers is a handle of a capability that the process holds.   *)
LEMMA FoundIsHeld ==
  ASSUME IInv, NEW pid \in Procs, NEW kind \in Kinds, NEW object \in Objects,
         NEW h \in Handle, Finds(pid, kind, object, h)
  PROVE  \E x \in issued : /\ x.pid = pid /\ x.kind = kind /\ x.object = object
                           /\ ~x.revoked /\ x.handle = h
  <1>1. PICK i \in Index :
          /\ slots[pid][i].live /\ slots[pid][i].kind = kind /\ slots[pid][i].object = object
          /\ h = Encode(kind, slots[pid][i].generation, i)
    BY DEF Finds, Matches
  <1>2. PICK x \in issued : x.pid = pid /\ x.handle.index = i /\ ~x.revoked
    BY <1>1 DEF IInv, LiveSlotsAreHeld
  <1>3. SlotOf(x) = slots[pid][i]
    BY <1>2 DEF SlotOf
  <1>4. /\ x.kind = kind /\ x.object = object
        /\ x.handle.kind = kind /\ x.handle.generation = slots[pid][i].generation
    BY <1>1, <1>2, <1>3 DEF IInv, HandleWellFormed, LatestGrant
  <1>5. x.handle = h
    <2>1. x.handle \in Handle
      BY IssueType DEF IInv
    <2> QED
      BY <1>1, <1>2, <1>4, <2>1 DEF Handle, Encode
  <1> QED
    BY <1>2, <1>4, <1>5

(* A process that holds a capability is answered. *)
LEMMA HeldIsFound ==
  ASSUME IInv, NEW x \in issued, ~x.revoked, NEW pid, NEW kind, NEW object,
         x.pid = pid, x.kind = kind, x.object = object
  PROVE  \E h \in Handle : Finds(pid, kind, object, h)
  <1> DEFINE T == {i \in Index : Matches(slots[pid][i], kind, object)}
  <1>1. /\ x.pid \in Procs /\ x.handle.index \in Index /\ x.kind \in Kinds
        /\ SlotOf(x) = slots[pid][x.handle.index] /\ TypeOK
    BY IssueType DEF IInv, SlotOf
  <1>2. x.handle.index \in T
    BY <1>1 DEF IInv, LatestGrant, Matches
  <1>3. T \subseteq Nat
    BY DEF Index
  <1>4. PICK i \in T : \A j \in T : ~(j < i)
    <2> HIDE DEF T
    <2> QED
      BY <1>2, <1>3, LeastIndex
  <1>5. \A j \in Index : j < i => ~Matches(slots[pid][j], kind, object)
    BY <1>4
  <1> DEFINE h == Encode(slots[pid][i].kind, slots[pid][i].generation, i)
  <1>6. slots[pid][i] \in CapSlot /\ slots[pid][i].kind = kind
    BY <1>1 DEF TypeOK, Matches
  <1>7. h \in Handle
    BY <1>1, <1>6 DEF Encode, Handle, CapSlot
  <1>8. Finds(pid, kind, object, h)
    BY <1>1, <1>5 DEF Finds
  <1> QED
    BY <1>7, <1>8

(* find answers a handle of that kind and object to the process that holds *)
(* one, of a capability of its own, and to nobody else.                    *)
THEOREM FindAnswersTheHolder == Spec => []FindIsWhatIsHeld
  <1>1. ASSUME IInv, NEW pid \in Procs, NEW kind \in Kinds, NEW object \in Objects
        PROVE  LET held == {x \in issued : /\ x.pid = pid /\ x.kind = kind
                                           /\ x.object = object /\ ~x.revoked}
                   found == {h \in Handle : Finds(pid, kind, object, h)}
               IN /\ found \subseteq {x.handle : x \in held}
                  /\ (held # {}) => (found # {})
    <2> DEFINE held == {x \in issued : /\ x.pid = pid /\ x.kind = kind
                                       /\ x.object = object /\ ~x.revoked}
               found == {h \in Handle : Finds(pid, kind, object, h)}
    <2>1. ASSUME NEW h \in found PROVE h \in {x.handle : x \in held}
      <3>1. h \in Handle /\ Finds(pid, kind, object, h)
        OBVIOUS
      <3>2. PICK x \in issued : /\ x.pid = pid /\ x.kind = kind /\ x.object = object
                                /\ ~x.revoked /\ x.handle = h
        BY <1>1, <3>1, FoundIsHeld
      <3> QED
        BY <3>2
    <2>2. ASSUME NEW x \in held PROVE found # {}
      <3>1. x \in issued /\ x.pid = pid /\ x.kind = kind /\ x.object = object /\ ~x.revoked
        OBVIOUS
      <3>2. \E h \in Handle : Finds(pid, kind, object, h)
        BY <1>1, <3>1, HeldIsFound
      <3> QED
        BY <3>2
    <2> QED
      BY <2>1, <2>2
  <1>2. IInv => FindIsWhatIsHeld
    BY <1>1 DEF FindIsWhatIsHeld
  <1> QED
    BY <1>2, Inductive, PTL
=============================================================================
