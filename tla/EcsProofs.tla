------------------------------ MODULE EcsProofs ------------------------------
(* Ecs for every number of component types, of slots and of masks, and every   *)
(* content of the memory: references are unique, and seen from the next update. *)
EXTENDS Ecs, NatFacts

TypeInv ==
  /\ count \in Nat
  /\ sequences \in [Types -> Int]
  /\ entity_states \in [Slots -> Int]
  /\ components_mask \in [Types -> SUBSET Types]
  /\ given \subseteq [entity : Slots, sequence : Nat, mask : SUBSET Types]
  /\ settled \subseteq given

\* What OneEntity does not say: sequences given out are below count, and no slot
\* is given out again, for none that was becomes INACTIVE; and what
\* SeenAfterUpdate says.
GivenInv ==
  InBounds =>
    \A r \in given :
      /\ r.sequence < count /\ sequences[r.entity] = r.sequence
      /\ entity_states[r.entity] >= ADD /\ components_mask[r.entity] = r.mask
      /\ \A s \in given : s # r => s.sequence # r.sequence /\ s.entity # r.entity
      /\ entity_states[r.entity] >= ACTIVE <=>
           r \in settled \/ entity_states[r.entity] = REMOVE

IInv == TypeInv /\ GivenInv

LEMMA StatesDiffer == INACTIVE = 0 /\ ADD = 1 /\ ACTIVE = 2 /\ REMOVE = 3
BY DEF INACTIVE, ADD, ACTIVE, REMOVE

LEMMA SlotsFit ==
  /\ T \in Nat \ {0} /\ MAX_ENTITIES_ALLOWED \in Nat /\ MAX_ENTITIES_ALLOWED >= T
  /\ Types \subseteq Slots /\ Slots \subseteq Nat
BY EcsAssumption DEF Types, Slots

\* ecsEntityAdd stops at the first free slot, so there is one.
LEMMA FirstFreeIsFree == ASSUME Free # {} PROVE FirstFree \in Free
<1>1. Free \in SUBSET Nat
  BY SlotsFit DEF Free
<1>2. \E x \in Free : \A y \in Free : x <= y
  BY <1>1, LeastElement
<1> QED
  BY <1>2 DEF FirstFree

LEMMA InitIInv == Init => IInv
<1> SUFFICES ASSUME Init PROVE IInv
  OBVIOUS
<1>1. LeftInts \subseteq Int /\ LeftMasks \subseteq SUBSET Types
  BY EcsAssumption DEF Types
<1> QED
  BY <1>1 DEF Init, IInv, TypeInv, GivenInv

\* A slot that is taken, its neighbours and the rest of the structure.
LEMMA AddStep ==
  ASSUME IInv, NEW mask \in Masks, ecsEntityAdd(mask)
  PROVE  IInv'
<1> DEFINE x == FirstFree
           ref == [entity |-> x, sequence |-> count, mask |-> mask]
<1>1. x \in Slots /\ entity_states[x] = 0
  BY FirstFreeIsFree, StatesDiffer DEF ecsEntityAdd, Free
<1>2. mask \in SUBSET Types
  BY EcsAssumption DEF Types
<1>3. /\ entity_states' = Taken(x) /\ count' = count + 1 /\ given' = given \cup {ref}
      /\ x < T => /\ sequences' = [sequences EXCEPT ![x] = count]
                  /\ components_mask' = [components_mask EXCEPT ![x] = mask]
      /\ ~(x < T) => UNCHANGED <<sequences, components_mask>>
      /\ settled' = settled
  BY DEF ecsEntityAdd, NextCount
<1> HIDE DEF x
<1>4. TypeInv'
  <2>1. count' \in Nat
    BY <1>3 DEF IInv, TypeInv
  <2>2. entity_states' \in [Slots -> Int]
    <3>1. count \in Int /\ ADD \in Int /\ entity_states \in [Slots -> Int]
      BY StatesDiffer DEF IInv, TypeInv
    <3>2. CASE x < T
      BY <1>3, <3>1, <3>2 DEF Taken
    <3>3. CASE ~(x < T)
      <4> DEFINE one == [entity_states EXCEPT ![x] = ADD]
      <4>1. one \in [Slots -> Int]
        BY <3>1
      <4>2. entity_states' = [one EXCEPT ![x - T] = count]
        BY <1>3, <3>3 DEF Taken
      <4> HIDE DEF one
      <4> QED
        BY <3>1, <4>1, <4>2
    <3> QED
      BY <3>2, <3>3
  <2>3. sequences' \in [Types -> Int] /\ components_mask' \in [Types -> SUBSET Types]
    BY <1>2, <1>3 DEF IInv, TypeInv
  <2>4. ref \in [entity : Slots, sequence : Nat, mask : SUBSET Types]
    BY <1>1, <1>2 DEF IInv, TypeInv
  <2>5. given' \subseteq [entity : Slots, sequence : Nat, mask : SUBSET Types]
    BY <1>3, <2>4 DEF IInv, TypeInv
  <2>6. settled' \subseteq given'
    BY <1>3 DEF IInv, TypeInv
  <2> QED
    BY <2>1, <2>2, <2>3, <2>5, <2>6 DEF TypeInv
<1>5. GivenInv'
  <2> SUFFICES ASSUME InBounds' PROVE (\A r \in given :
      /\ r.sequence < count /\ sequences[r.entity] = r.sequence
      /\ entity_states[r.entity] >= ADD /\ components_mask[r.entity] = r.mask
      /\ \A s \in given : s # r => s.sequence # r.sequence /\ s.entity # r.entity
      /\ entity_states[r.entity] >= ACTIVE <=>
           r \in settled \/ entity_states[r.entity] = REMOVE)'
    BY DEF GivenInv
  <2>1. InBounds /\ x < T
    <3>1. ref \in given' /\ ref.entity = x /\ given \subseteq given'
      BY <1>3
    <3> HIDE DEF ref
    <3> QED
      BY <3>1 DEF InBounds
  <2>2. \A r \in given :
      /\ r.sequence < count /\ sequences[r.entity] = r.sequence
      /\ entity_states[r.entity] >= ADD /\ components_mask[r.entity] = r.mask
      /\ \A s \in given : s # r => s.sequence # r.sequence /\ s.entity # r.entity
      /\ entity_states[r.entity] >= ACTIVE <=>
           r \in settled \/ entity_states[r.entity] = REMOVE
    BY <2>1 DEF IInv, GivenInv
  <2>3. \A r \in given : r.entity \in Types /\ r.entity # x /\ r.sequence \in Nat
    BY <2>1, <2>2, <1>1, SlotsFit, StatesDiffer DEF IInv, TypeInv, InBounds, Types, Slots
  <2>4. x \in Types
    BY <2>1, <1>1, SlotsFit DEF Types, Slots
  <2>5. entity_states' = [entity_states EXCEPT ![x] = ADD]
    BY <2>1, <1>3 DEF Taken
  <2>6. ASSUME NEW r \in given
        PROVE  /\ r.sequence < count' /\ sequences'[r.entity] = r.sequence
               /\ entity_states'[r.entity] >= ADD
               /\ components_mask'[r.entity] = r.mask
               /\ r.sequence # count
               /\ entity_states'[r.entity] >= ACTIVE <=>
                    r \in settled' \/ entity_states'[r.entity] = REMOVE
    <3>1. sequences'[r.entity] = sequences[r.entity]
      BY <2>1, <2>3, <1>3 DEF IInv, TypeInv
    <3>2. components_mask'[r.entity] = components_mask[r.entity]
      BY <2>1, <2>3, <1>3 DEF IInv, TypeInv
    <3>3. entity_states'[r.entity] = entity_states[r.entity]
      BY <2>3, <2>5, SlotsFit DEF IInv, TypeInv
    <3>4. r.sequence < count' /\ r.sequence # count
      BY <2>2, <2>3, <1>3 DEF IInv, TypeInv
    <3> QED
      BY <2>2, <3>1, <3>2, <3>3, <3>4, <1>3
  <2>7. /\ ref.sequence < count' /\ sequences'[x] = count
        /\ entity_states'[x] = ADD /\ components_mask'[x] = mask
    BY <2>1, <2>4, <2>5, <1>3, SlotsFit, StatesDiffer DEF IInv, TypeInv
  <2>8. ref.entity = x /\ ref.sequence = count /\ ref.mask = mask
    OBVIOUS
  <2>10. ref \notin settled' /\ ~(ADD >= ACTIVE) /\ ADD # REMOVE /\ ADD >= ADD
    BY <2>3, <2>8, <1>3, StatesDiffer DEF IInv, TypeInv
  <2> HIDE DEF ref
  <2>9. \A r, s \in given' : s # r => s.sequence # r.sequence /\ s.entity # r.entity
    BY <2>2, <2>3, <2>6, <2>8, <1>3
  <2> QED
    BY <2>6, <2>7, <2>8, <2>9, <2>10, <1>3
<1> QED
  BY <1>4, <1>5 DEF IInv

LEMMA RemoveStep ==
  ASSUME IInv, NEW ref \in given, NEW pending \in BOOLEAN, ecsEntityRemove(ref, pending)
  PROVE  IInv'
<1>1. ref.entity \in Slots
  BY DEF IInv, TypeInv
<1>2. /\ entity_states' = [entity_states EXCEPT ![ref.entity] = REMOVE]
      /\ UNCHANGED <<count, sequences, components_mask, given, settled>>
  BY DEF ecsEntityRemove
<1>3. TypeInv'
  BY <1>1, <1>2, StatesDiffer DEF IInv, TypeInv
<1>4. ASSUME NEW r \in given
      PROVE  \/ entity_states'[r.entity] = entity_states[r.entity]
             \/ entity_states'[r.entity] = REMOVE
  BY <1>1, <1>2 DEF IInv, TypeInv
<1>5. REMOVE >= ADD /\ REMOVE >= ACTIVE
  BY StatesDiffer
<1> QED
  BY <1>2, <1>3, <1>4, <1>5 DEF IInv, GivenInv, InBounds

LEMMA UpdateStep == ASSUME IInv, ecsUpdate PROVE IInv'
<1>1. /\ entity_states' = [x \in Slots |-> Updated(entity_states[x])] /\ settled' = given
      /\ UNCHANGED <<count, sequences, components_mask, given>>
  BY DEF ecsUpdate
<1>2. \A n \in Int : Updated(n) \in Int /\ (n >= ADD => Updated(n) >= ADD /\ Updated(n) >= ACTIVE)
  BY StatesDiffer DEF Updated
<1>3. TypeInv'
  BY <1>1, <1>2 DEF IInv, TypeInv
<1>4. ASSUME NEW r \in given, entity_states[r.entity] >= ADD
      PROVE  entity_states'[r.entity] >= ADD /\ entity_states'[r.entity] >= ACTIVE
  BY <1>1, <1>2, <1>4 DEF IInv, TypeInv
<1> QED
  BY <1>1, <1>3, <1>4 DEF IInv, GivenInv, InBounds

\* The component types and the query touch nothing of an entity.
LEMMA OtherSteps ==
  ASSUME IInv, UNCHANGED <<count, sequences, entity_states, components_mask, given, settled>>
  PROVE  IInv'
BY DEF IInv, TypeInv, GivenInv, InBounds

LEMMA NextIInv == IInv /\ [Next]_vars => IInv'
<1> SUFFICES ASSUME IInv, [Next]_vars PROVE IInv'
  OBVIOUS
<1>1. ASSUME NEW mask \in Masks, ecsEntityAdd(mask) PROVE IInv'
  BY <1>1, AddStep
<1>2. ASSUME NEW mask \in Masks, ecsQueryCreate(mask) PROVE IInv'
  BY <1>2, OtherSteps DEF ecsQueryCreate
<1>3. ASSUME NEW ref \in given, NEW pending \in BOOLEAN, ecsEntityRemove(ref, pending)
      PROVE  IInv'
  BY <1>3, RemoveStep
<1>4. CASE ecsUpdate
  BY <1>4, UpdateStep
<1>5. CASE ecsComponentRegister
  BY <1>5, OtherSteps DEF ecsComponentRegister
<1>6. CASE ecsDestroy
  BY <1>6, OtherSteps DEF ecsDestroy
<1>7. CASE ecsQueryNext
  BY <1>7, OtherSteps DEF ecsQueryNext
<1>8. CASE UNCHANGED vars
  BY <1>8, OtherSteps DEF vars
<1> QED
  BY <1>1, <1>2, <1>3, <1>4, <1>5, <1>6, <1>7, <1>8 DEF Next

LEMMA Invariant == Spec => []IInv
BY InitIInv, NextIInv, PTL DEF Spec

(* ecs.c 73-100: as long as the short arrays are not left, whatever the memory *)
(* held before, a reference names one entity, which keeps its mask.            *)
THEOREM Uniqueness == Spec => []OneEntity
<1>1. ASSUME IInv PROVE OneEntity
  <2> SUFFICES ASSUME InBounds, NEW r \in given
               PROVE  /\ \A s \in given : s # r => s.sequence # r.sequence /\ s.entity # r.entity
                      /\ ecsEntityValid(r, TRUE) /\ components_mask[r.entity] = r.mask
    BY DEF OneEntity
  <2>1. r.entity < T /\ r.entity >= 0
    BY <1>1, SlotsFit DEF InBounds, IInv, TypeInv, Slots
  <2>2. /\ sequences[r.entity] = r.sequence
        /\ entity_states[r.entity] >= ADD /\ components_mask[r.entity] = r.mask
        /\ \A s \in given : s # r => s.sequence # r.sequence /\ s.entity # r.entity
    BY <1>1 DEF IInv, GivenInv
  <2> QED
    BY <2>1, <2>2 DEF ecsEntityValid, Sequence
<1> QED
  BY Invariant, <1>1, PTL

(* ecs.c 42-50, 73-100: whatever the memory held before, an entity that was    *)
(* added is valid without allow_pending_add from the next ecsUpdate on, for     *)
(* good, and before that only if it was removed.                                *)
THEOREM Visibility == Spec => []SeenAfterUpdate
<1>1. ASSUME IInv PROVE SeenAfterUpdate
  <2> SUFFICES ASSUME InBounds, NEW r \in given
               PROVE  ecsEntityValid(r, FALSE) <=>
                        r \in settled \/ entity_states[r.entity] = REMOVE
    BY DEF SeenAfterUpdate
  <2>1. r.entity < T /\ r.entity >= 0
    BY <1>1, SlotsFit DEF InBounds, IInv, TypeInv, Slots
  <2>2. /\ sequences[r.entity] = r.sequence
        /\ entity_states[r.entity] >= ACTIVE <=>
             r \in settled \/ entity_states[r.entity] = REMOVE
    BY <1>1 DEF IInv, GivenInv
  <2> QED
    BY <2>1, <2>2 DEF ecsEntityValid, Sequence
<1> QED
  BY Invariant, <1>1, PTL
=============================================================================
