------------------------------ MODULE RefObject -----------------------------
(***************************************************************************)
(* Reference counting (src/src/core/smart-pointer.h:55-170) of an object   *)
(* that its parent holds and that holds its parent: a command queue and    *)
(* its device, a default view and its texture.  One reference, the         *)
(* parent's, is internal (setInternalReferenceCount(1) when the parent is  *)
(* created); the object's reference to its parent is strong only while     *)
(* somebody else refers to the object (makeExternal(), makeInternal(),     *)
(* reference.h).                                                           *)
(*                                                                         *)
(* Clients on several threads get handles from the parent, copy them and   *)
(* release them.  The count is atomic; whether the object has become       *)
(* external or internal is decided from the value the count had, and acted *)
(* on, in a later step.                                                    *)
(***************************************************************************)
EXTENDS Integers, FiniteSets, TLAPS, FiniteSetTheorems

CONSTANTS Clients,
          MaxHandles   \* bound: handles to the object a client holds

ASSUME RefObjectAssumption ==
    /\ IsFiniteSet(Clients)
    /\ MaxHandles \in Nat \ {0}

VARIABLES count,          \* referenceCount
          strong,         \* the object's reference to its parent is strong
          handles,        \* client references to the object
          parentHandles,  \* client references to the parent
          pc,             \* "idle", "added" or "released"
          seen,           \* what fetch_add() or fetch_sub() returned
          parentAlive,
          deleted         \* deleteThis() ran

vars == <<count, strong, handles, parentHandles, pc, seen, parentAlive, deleted>>

Internal == 1  \* internalReferenceCount

Init ==
    /\ count = Internal
    /\ strong = FALSE
    /\ handles = [c \in Clients |-> 0]
    /\ parentHandles = [c \in Clients |-> 1]
    /\ pc = [c \in Clients |-> "idle"]
    /\ seen = [c \in Clients |-> 0]
    /\ parentAlive = TRUE
    /\ deleted = FALSE

-----------------------------------------------------------------------------
(* addReference(), up to the load of internalReferenceCount: getQueue(),   *)
(* getDefaultView(), or a copy of a handle.                                *)
Add(c) ==
    /\ pc[c] = "idle"
    /\ parentHandles[c] > 0 \/ handles[c] > 0
    /\ handles[c] < MaxHandles
    /\ count' = count + 1
    /\ seen' = [seen EXCEPT ![c] = count]
    /\ pc' = [pc EXCEPT ![c] = "added"]
    /\ UNCHANGED <<strong, handles, parentHandles, parentAlive, deleted>>

NowExternal(old) == old = Internal

FinishAdd(c) ==
    /\ pc[c] = "added"
    /\ strong' = (strong \/ NowExternal(seen[c]))
    /\ handles' = [handles EXCEPT ![c] = @ + 1]
    /\ pc' = [pc EXCEPT ![c] = "idle"]
    /\ seen' = [seen EXCEPT ![c] = 0]
    /\ UNCHANGED <<count, parentHandles, parentAlive, deleted>>

(* releaseReference(), likewise.                                           *)
Release(c) ==
    /\ pc[c] = "idle"
    /\ handles[c] > 0
    /\ handles' = [handles EXCEPT ![c] = @ - 1]
    /\ count' = count - 1
    /\ seen' = [seen EXCEPT ![c] = count]
    /\ pc' = [pc EXCEPT ![c] = "released"]
    /\ UNCHANGED <<strong, parentHandles, parentAlive, deleted>>

(* Mutant: compares the count before the subtraction.                      *)
NowInternalLate(old) == old = Internal

NowInternal(old) == old = Internal + 1

(* Mutant: deleted when only internal references are left.                 *)
LastButInternal(old) == old <= Internal + 1

LastReference(old) == old = 1

FinishRelease(c) ==
    /\ pc[c] = "released"
    /\ strong' = (strong /\ ~NowInternal(seen[c]))
    /\ deleted' = (deleted \/ LastReference(seen[c]))
    /\ pc' = [pc EXCEPT ![c] = "idle"]
    /\ seen' = [seen EXCEPT ![c] = 0]
    /\ UNCHANGED <<count, handles, parentHandles, parentAlive>>

ReleaseParent(c) ==
    /\ pc[c] = "idle"
    /\ parentHandles[c] > 0
    /\ parentHandles' = [parentHandles EXCEPT ![c] = @ - 1]
    /\ UNCHANGED <<count, strong, handles, pc, seen, parentAlive, deleted>>

UnreferencedParent ==
    parentAlive /\ ~strong /\ \A c \in Clients : parentHandles[c] = 0

(* The parent's last reference goes, and with it the internal reference.   *)
DestroyParent ==
    /\ UnreferencedParent
    /\ parentAlive' = FALSE
    /\ count' = count - 1
    /\ deleted' = (count = 1)
    /\ UNCHANGED <<strong, handles, parentHandles, pc, seen>>

Client(c) == Add(c) \/ Release(c) \/ ReleaseParent(c)
InCall(c) == FinishAdd(c) \/ FinishRelease(c)

(* Everything was dropped.                                                 *)
Done == deleted /\ (\A c \in Clients : pc[c] = "idle") /\ UNCHANGED vars

Next == (\E c \in Clients : Client(c) \/ InCall(c)) \/ DestroyParent \/ Done

Spec == Init /\ [][Next]_vars

(* A call that was begun goes on; so does the destruction of the parent.   *)
FairSpec == Spec /\ (\A c \in Clients : WF_vars(InCall(c))) /\ WF_vars(DestroyParent)

-----------------------------------------------------------------------------
(* The types of the variables.                                             *)
TypeOK ==
    /\ count \in Nat
    /\ strong \in BOOLEAN
    /\ handles \in [Clients -> 0..MaxHandles]
    /\ parentHandles \in [Clients -> 0..1]
    /\ pc \in [Clients -> {"idle", "added", "released"}]
    /\ seen \in [Clients -> Nat]
    /\ parentAlive \in BOOLEAN
    /\ deleted \in BOOLEAN

(* "This setup is robust to any destruction ordering" (reference.h:36):    *)
(* while a client holds the object, its parent has not been destroyed.     *)
ParentOutlives == (\E c \in Clients : handles[c] > 0) => parentAlive

(* The object is deleted only when nobody holds it.                        *)
DeletedUnheld == deleted => \A c \in Clients : handles[c] = 0

(* Once the clients dropped both, both go.                                 *)
Collected ==
    (\A c \in Clients : handles[c] = 0 /\ parentHandles[c] = 0 /\ pc[c] # "added")
        ~> deleted /\ ~parentAlive

-----------------------------------------------------------------------------
(* Safety of the reference count, for any number of clients and handles.   *)

One(holds) == IF holds THEN 1 ELSE 0

(* The references of a client: its handles, and the one it is adding.      *)
RefsOf(c) == handles[c] + One(pc[c] = "added")

(* All the clients' references, numbered.                                  *)
Refs == {r \in Clients \X (1..MaxHandles) : r[2] <= RefsOf(r[1])}

(* Nobody has more handles than allowed, even after the addition it is in. *)
RefsTyped == TypeOK /\ \A c \in Clients : RefsOf(c) <= MaxHandles

(* The count is that of the clients' references and the internal one.      *)
(* A parent that is gone had no handles left, so a count that was zero     *)
(* once stays zero: nobody has anything to add a reference from.           *)
CountInv ==
    /\ count = Cardinality(Refs) + One(parentAlive)
    /\ ~parentAlive => \A c \in Clients : parentHandles[c] = 0
    /\ deleted => count = 0
    /\ \A c \in Clients : pc[c] = "released" /\ seen[c] = 1 => count = 0

RefInv == RefsTyped /\ CountInv

LEMMA RefsFinite ==
    ASSUME NEW S \in SUBSET (Clients \X (1..MaxHandles))
    PROVE  IsFiniteSet(S) /\ Cardinality(S) \in Nat
<1>1. IsFiniteSet(1..MaxHandles)
  BY RefObjectAssumption, FS_Interval
<1>2. IsFiniteSet(Clients \X (1..MaxHandles))
  BY <1>1, RefObjectAssumption, FS_Product
<1>3. IsFiniteSet(S)
  BY <1>2, FS_Subset
<1>4. QED
  BY <1>3, FS_CardinalityType

(* With a count of zero there is no reference and no parent to add from.   *)
LEMMA ZeroStays ==
    ASSUME RefInv, count = 0
    PROVE  /\ ~parentAlive
           /\ \A c \in Clients : handles[c] = 0 /\ pc[c] # "added" /\ parentHandles[c] = 0
<1>1. IsFiniteSet(Refs) /\ Cardinality(Refs) \in Nat
  BY RefsFinite DEF Refs
<1>2. ~parentAlive /\ Cardinality(Refs) = 0
  BY <1>1 DEF RefInv, CountInv, One
<1>3. Refs = {}
  BY <1>1, <1>2, FS_EmptySet
<1>4. ASSUME NEW c \in Clients PROVE handles[c] = 0 /\ pc[c] # "added"
  <2>1. handles[c] \in Nat /\ RefsOf(c) \in Nat
    BY DEF RefInv, RefsTyped, TypeOK, RefsOf, One
  <2>2. RefsOf(c) = 0
    <3>1. RefsOf(c) >= 1 => <<c, 1>> \in Refs
      BY RefObjectAssumption DEF Refs
    <3>2. QED
      BY <1>3, <2>1, <3>1
  <2>3. QED
    BY <2>1, <2>2 DEF RefsOf, One
<1>5. QED
  BY <1>2, <1>4 DEF RefInv, CountInv

LEMMA RefInit == Init => RefInv
<1> SUFFICES ASSUME Init PROVE RefInv
  OBVIOUS
<1> USE RefObjectAssumption DEF Init
<1>1. RefsTyped
  <2>1. TypeOK
    <3>1. /\ handles \in [Clients -> 0..MaxHandles] /\ parentHandles \in [Clients -> 0..1]
          /\ seen \in [Clients -> Nat] /\ count \in Nat
      BY DEF Internal
    <3>2. /\ pc \in [Clients -> {"idle", "added", "released"}]
          /\ strong \in BOOLEAN /\ parentAlive \in BOOLEAN /\ deleted \in BOOLEAN
      OBVIOUS
    <3>3. QED
      BY <3>1, <3>2 DEF TypeOK
  <2>2. \A c \in Clients : RefsOf(c) = 0
    BY DEF RefsOf, One
  <2>3. QED
    BY <2>1, <2>2 DEF RefsTyped
<1>2. Refs = {}
  <2>1. \A c \in Clients : RefsOf(c) = 0
    BY DEF RefsOf, One
  <2>2. QED
    BY <2>1 DEF Refs
<1>3. CountInv
  BY <1>2, FS_EmptySet DEF CountInv, One, Internal
<1>4. QED
  BY <1>1, <1>3 DEF RefInv

(* A client with one reference more.                                       *)
LEMMA RefsAdded ==
    ASSUME RefsTyped, NEW c \in Clients, RefsOf(c)' = RefsOf(c) + 1,
           RefsOf(c) + 1 <= MaxHandles,
           \A d \in Clients \ {c} : RefsOf(d)' = RefsOf(d)
    PROVE  Cardinality(Refs') = Cardinality(Refs) + 1
<1> DEFINE n == RefsOf(c) + 1
<1>1. n \in 1..MaxHandles
  BY RefObjectAssumption DEF RefsTyped, TypeOK, RefsOf, One
<1>2. \A d \in Clients : RefsOf(d) \in Nat
  BY DEF RefsTyped, TypeOK, RefsOf, One
<1>3. Refs' = Refs \cup {<<c, n>>}
  BY <1>1, <1>2 DEF Refs
<1>4. <<c, n>> \notin Refs
  BY <1>2 DEF Refs
<1>5. IsFiniteSet(Refs)
  BY RefsFinite DEF Refs
<1>6. QED
  BY <1>3, <1>4, <1>5, FS_AddElement

(* A client with one reference less.                                       *)
LEMMA RefsRemoved ==
    ASSUME RefsTyped, NEW c \in Clients, RefsOf(c) >= 1, RefsOf(c)' = RefsOf(c) - 1,
           \A d \in Clients \ {c} : RefsOf(d)' = RefsOf(d)
    PROVE  Cardinality(Refs') = Cardinality(Refs) - 1 /\ Cardinality(Refs) >= 1
<1> DEFINE n == RefsOf(c)
<1>1. n \in 1..MaxHandles
  BY RefObjectAssumption DEF RefsTyped, TypeOK, RefsOf, One
<1>2. \A d \in Clients : RefsOf(d) \in Nat
  BY DEF RefsTyped, TypeOK, RefsOf, One
<1>3. Refs' = Refs \ {<<c, n>>}
  BY <1>1, <1>2 DEF Refs
<1>4. <<c, n>> \in Refs
  BY <1>1 DEF Refs
<1>5. IsFiniteSet(Refs) /\ Cardinality(Refs) \in Nat
  BY RefsFinite DEF Refs
<1>6. Cardinality(Refs') = Cardinality(Refs) - 1
  BY <1>3, <1>4, <1>5, FS_RemoveElement
<1>7. Cardinality(Refs) # 0
  BY <1>4, <1>5, FS_EmptySet
<1>8. QED
  BY <1>5, <1>6, <1>7

LEMMA RefNext == RefInv /\ [Next]_vars => RefInv'
<1> SUFFICES ASSUME RefInv, [Next]_vars PROVE RefInv'
  OBVIOUS
<1> USE RefObjectAssumption DEF RefInv, RefsTyped, TypeOK
<1>0. Cardinality(Refs) \in Nat
  BY RefsFinite DEF Refs
<1>1. ASSUME NEW c \in Clients, Add(c) PROVE RefInv'
  <2>1. /\ pc[c] = "idle" /\ pc' = [pc EXCEPT ![c] = "added"] /\ handles' = handles
        /\ count' = count + 1 /\ seen' = [seen EXCEPT ![c] = count]
        /\ handles[c] < MaxHandles /\ UNCHANGED <<parentHandles, parentAlive, deleted, strong>>
    BY <1>1 DEF Add
  <2>2. RefsOf(c)' = RefsOf(c) + 1 /\ \A d \in Clients \ {c} : RefsOf(d)' = RefsOf(d)
    BY <2>1 DEF RefsOf, One
  <2>3. RefsOf(c) + 1 <= MaxHandles
    BY <2>1 DEF RefsOf, One
  <2>4. RefsTyped'
    BY <2>1, <2>2, <2>3 DEF RefsOf, One
  <2>5. Cardinality(Refs') = Cardinality(Refs) + 1
    BY <2>2, <2>3, RefsAdded
  <2>6. count # 0
    BY <1>1, ZeroStays DEF Add
  <2>7. CountInv'
    BY <1>0, <2>1, <2>5, <2>6 DEF CountInv, One
  <2>8. QED
    BY <2>4, <2>7
<1>2. ASSUME NEW c \in Clients, FinishAdd(c) PROVE RefInv'
  <2>1. /\ pc[c] = "added" /\ pc' = [pc EXCEPT ![c] = "idle"]
        /\ handles' = [handles EXCEPT ![c] = handles[c] + 1]
        /\ strong' \in BOOLEAN /\ seen' = [seen EXCEPT ![c] = 0]
        /\ UNCHANGED <<count, parentHandles, parentAlive, deleted>>
    BY <1>2 DEF FinishAdd
  <2>2. \A d \in Clients : RefsOf(d)' = RefsOf(d)
    BY <2>1 DEF RefsOf, One
  <2>3. handles[c] + 1 <= MaxHandles
    BY <2>1 DEF RefsOf, One
  <2>4. RefsTyped'
    BY <2>1, <2>2, <2>3
  <2>5. Refs' = Refs
    BY <2>2 DEF Refs
  <2>6. CountInv'
    BY <2>1, <2>5 DEF CountInv
  <2>7. QED
    BY <2>4, <2>6
<1>3. ASSUME NEW c \in Clients, Release(c) PROVE RefInv'
  <2>1. /\ pc[c] = "idle" /\ pc' = [pc EXCEPT ![c] = "released"]
        /\ handles[c] > 0 /\ handles' = [handles EXCEPT ![c] = handles[c] - 1]
        /\ count' = count - 1 /\ seen' = [seen EXCEPT ![c] = count]
        /\ UNCHANGED <<parentHandles, parentAlive, deleted, strong>>
    BY <1>3 DEF Release
  <2>2. /\ RefsOf(c) >= 1 /\ RefsOf(c)' = RefsOf(c) - 1
        /\ \A d \in Clients \ {c} : RefsOf(d)' = RefsOf(d)
    BY <2>1 DEF RefsOf, One
  <2>3. Cardinality(Refs') = Cardinality(Refs) - 1 /\ Cardinality(Refs) >= 1
    BY <2>2, RefsRemoved
  <2>4. count >= 1
    BY <1>0, <2>3 DEF CountInv, One
  <2>5. RefsTyped'
    BY <2>1, <2>2, <2>4 DEF RefsOf, One
  <2>6. CountInv'
    BY <1>0, <2>1, <2>3, <2>4 DEF CountInv, One
  <2>7. QED
    BY <2>5, <2>6
<1>4. ASSUME NEW c \in Clients, FinishRelease(c) PROVE RefInv'
  <2>1. /\ pc[c] = "released" /\ pc' = [pc EXCEPT ![c] = "idle"] /\ strong' \in BOOLEAN
        /\ deleted' = (deleted \/ seen[c] = 1) /\ seen' = [seen EXCEPT ![c] = 0]
        /\ UNCHANGED <<count, handles, parentHandles, parentAlive>>
    BY <1>4 DEF FinishRelease, LastReference
  <2>2. \A d \in Clients : RefsOf(d)' = RefsOf(d)
    BY <2>1 DEF RefsOf, One
  <2>3. RefsTyped'
    BY <2>1, <2>2
  <2>4. Refs' = Refs
    BY <2>2 DEF Refs
  <2>5. CountInv'
    BY <2>1, <2>4 DEF CountInv
  <2>6. QED
    BY <2>3, <2>5
<1>5. ASSUME NEW c \in Clients, ReleaseParent(c) PROVE RefInv'
  <2>1. /\ parentHandles[c] > 0 /\ parentHandles' = [parentHandles EXCEPT ![c] = parentHandles[c] - 1]
        /\ UNCHANGED <<count, strong, handles, pc, seen, parentAlive, deleted>>
    BY <1>5 DEF ReleaseParent
  <2>2. \A d \in Clients : RefsOf(d)' = RefsOf(d)
    BY <2>1 DEF RefsOf
  <2>3. RefsTyped'
    <3>1. parentHandles[c] - 1 \in 0..1
      BY <2>1
    <3>2. parentHandles' \in [Clients -> 0..1]
      BY <2>1, <3>1
    <3>3. QED
      BY <2>1, <2>2, <3>2
  <2>4. Refs' = Refs
    BY <2>2 DEF Refs
  <2>5. CountInv'
    BY <2>1, <2>4 DEF CountInv
  <2>6. QED
    BY <2>3, <2>5
<1>6. ASSUME DestroyParent PROVE RefInv'
  <2>1. /\ parentAlive /\ parentAlive' = FALSE /\ \A c \in Clients : parentHandles[c] = 0
        /\ count' = count - 1 /\ deleted' = (count = 1)
        /\ UNCHANGED <<strong, handles, parentHandles, pc, seen>>
    BY <1>6 DEF DestroyParent, UnreferencedParent
  <2>2. \A d \in Clients : RefsOf(d)' = RefsOf(d)
    BY <2>1 DEF RefsOf
  <2>3. count >= 1
    BY <1>0, <2>1 DEF CountInv, One
  <2>4. RefsTyped'
    <3>1. count' \in Nat
      BY <2>1, <2>3
    <3>2. deleted' \in BOOLEAN /\ parentAlive' \in BOOLEAN
      BY <2>1
    <3>3. QED
      BY <2>1, <2>2, <3>1, <3>2
  <2>5. Refs' = Refs
    BY <2>2 DEF Refs
  <2>6. CountInv'
    BY <1>0, <2>1, <2>3, <2>5 DEF CountInv, One
  <2>7. QED
    BY <2>4, <2>6
<1>7. CASE UNCHANGED vars
  <2>1. \A d \in Clients : RefsOf(d)' = RefsOf(d)
    BY <1>7 DEF vars, RefsOf
  <2>2. Refs' = Refs
    BY <2>1 DEF Refs
  <2>3. QED
    BY <1>7, <2>1, <2>2 DEF vars, CountInv
<1>8. QED
  BY <1>1, <1>2, <1>3, <1>4, <1>5, <1>6, <1>7 DEF Next, Client, InCall, Done

LEMMA RefInvariant == Spec => []RefInv
BY RefInit, RefNext, PTL DEF Spec

(* The count never goes below zero, and nobody has more handles than the   *)
(* model allows.                                                           *)
THEOREM TypeCorrect == Spec => []TypeOK
<1>1. RefInv => TypeOK
  BY DEF RefInv, RefsTyped
<1>2. QED
  BY <1>1, RefInvariant, PTL

(* The object is deleted only when nobody holds it: decrementing and then  *)
(* acting on the value that fetch_sub() returned is enough, whatever the   *)
(* others do in between (smart-pointer.h:95-117).                          *)
THEOREM NobodyHoldsDeleted == Spec => []DeletedUnheld
<1>1. RefInv => DeletedUnheld
  BY ZeroStays DEF RefInv, CountInv, DeletedUnheld
<1>2. QED
  BY <1>1, RefInvariant, PTL
=============================================================================
