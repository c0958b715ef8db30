--------------------------------- MODULE Ecs ---------------------------------
(***************************************************************************)
(* ecs.c: entity slots, component types and queries, used by one thread.   *)
(*                                                                         *)
(* ecs_t has MAX_ENTITIES_ALLOWED entity states, but only                  *)
(* MAX_COMPONENT_TYPES sequences and masks.  The arrays follow each other  *)
(* in the structure: sequences, entity_states, components_mask,            *)
(* components.  So the sequence of a slot past the end is the state of     *)
(* another slot, and its mask a word of a component.                       *)
(*                                                                         *)
(* ecsCreate clears the first bytes of the structure only: what the memory *)
(* held before is in the constants that begin with Left.                   *)
(***************************************************************************)
EXTENDS Integers, FiniteSets

CONSTANTS
  MAX_COMPONENT_TYPES,   \* 128
  MAX_ENTITIES_ALLOWED,  \* 1024
  Words,                 \* the 64-bit words of an ecs_component_t: 6, the first is data
  Masks,                 \* the component masks in use, sets of types
  LeftInts,              \* what a sequence or a state, a mask and the data of a component
  LeftMasks,             \* may hold before they are written: 0, {} and "NULL" in fresh
  LeftData               \* memory

T == MAX_COMPONENT_TYPES

ASSUME EcsAssumption ==
  /\ T \in Nat \ {0} /\ Words \in Nat \ {0}
  /\ MAX_ENTITIES_ALLOWED \in Nat /\ MAX_ENTITIES_ALLOWED >= T
  \* all masks written past the end fall into components
  /\ MAX_ENTITIES_ALLOWED - T <= T * Words
  /\ Masks \cup LeftMasks \subseteq SUBSET (0 .. T - 1)
  /\ LeftInts \subseteq Int /\ LeftData \subseteq {"NULL", "wild"}

Slots == 0 .. MAX_ENTITIES_ALLOWED - 1
Types == 0 .. T - 1

\* ecs_entity_state_t, compared as integers.
INACTIVE == 0
ADD      == 1
ACTIVE   == 2
REMOVE   == 3

VARIABLES
  count, sequences, entity_states, components_mask,
  components,  \* what data holds: "NULL", a "block", or a "wild" pointer
  query,       \* the query being worked through
  given,       \* history: the entities given out, with their masks
  settled,     \* history: those that were given out before the last ecsUpdate
  running      \* between ecsCreate and ecsDestroy

vars == <<count, sequences, entity_states, components_mask, components, query, given, settled, running>>

None == [component_mask |-> {}, entity |-> -1]

Init ==
  /\ count = 1 /\ running = TRUE
  /\ sequences \in [Types -> LeftInts]
  /\ entity_states \in [Slots -> LeftInts]
  /\ components_mask \in [Types -> LeftMasks]
  /\ components \in [Types -> LeftData]
  /\ query = None /\ given = {} /\ settled = {}

-----------------------------------------------------------------------------
(* Entities. *)

\* sequences[x], wherever that is.
Sequence(x) == IF x < T THEN sequences[x] ELSE entity_states[x - T]

ecsEntityValid(ref, allow_pending_add) ==
  /\ ref.entity >= 0
  /\ Sequence(ref.entity) = ref.sequence
  /\ entity_states[ref.entity] >= (IF allow_pending_add THEN ADD ELSE ACTIVE)

Free == {x \in Slots : entity_states[x] = INACTIVE}
FirstFree == CHOOSE x \in Free : \A y \in Free : x <= y

\* Bug: the sequence is not advanced.
SameCount(x) == count

\* ecs->count++
NextCount(x) == count + 1

\* The states after slot x was taken and its sequence written.
Taken(x) ==
  IF x < T THEN [entity_states EXCEPT ![x] = ADD]
  ELSE [entity_states EXCEPT ![x] = ADD, ![x - T] = count]

ecsEntityAdd(mask) ==
  /\ running /\ Free # {}
  /\ LET x == FirstFree IN
     /\ entity_states' = Taken(x)
     /\ count' = NextCount(x)
     /\ IF x < T
        THEN /\ sequences' = [sequences EXCEPT ![x] = count]
             /\ components_mask' = [components_mask EXCEPT ![x] = mask]
             /\ UNCHANGED components
        ELSE /\ components' = IF (x - T) % Words # 0 THEN components
                              ELSE [components EXCEPT ![(x - T) \div Words] =
                                      IF mask = {} THEN "NULL" ELSE "wild"]
             /\ UNCHANGED <<sequences, components_mask>>
     /\ given' = given \cup {[entity |-> x, sequence |-> count, mask |-> mask]}
  /\ UNCHANGED <<query, settled, running>>

\* With a reference that is not valid nothing happens.
ecsEntityRemove(ref, allow_pending_add) ==
  /\ running /\ ecsEntityValid(ref, allow_pending_add)
  /\ entity_states' = [entity_states EXCEPT ![ref.entity] = REMOVE]
  /\ UNCHANGED <<count, sequences, components_mask, components, query, given, settled, running>>

\* Bug: a pending entity stays pending.
StillPending(state) == state

\* A removed entity stays as it is.
Updated(state) == IF state = ADD THEN ACTIVE ELSE state

ecsUpdate ==
  /\ running
  /\ entity_states' = [x \in Slots |-> Updated(entity_states[x])]
  /\ settled' = given
  /\ UNCHANGED <<count, sequences, components_mask, components, query, given, running>>

-----------------------------------------------------------------------------
(* Component types. *)

ecsComponentRegister ==
  /\ running
  /\ \E x \in Types :
       /\ components[x] = "NULL" /\ \A y \in Types : y < x => components[y] # "NULL"
       /\ components' = [components EXCEPT ![x] = "block"]
  /\ UNCHANGED <<count, sequences, entity_states, components_mask, query, given, settled, running>>

\* Frees every data that is not NULL, then the structure.
ecsDestroy ==
  /\ running /\ running' = FALSE
  /\ components' = [x \in Types |-> "NULL"]
  /\ query' = None
  /\ UNCHANGED <<count, sequences, entity_states, components_mask, given, settled>>

-----------------------------------------------------------------------------
(* Queries. *)

\* Lines 121-122 compare the common bits with a truth value, 0 or 1; the bit of
\* type 0 alone is 1.
Matches(x, mask) ==
  LET common == components_mask[x] \cap mask IN
  IF mask # {} /\ entity_states[x] >= ACTIVE THEN common = {0} ELSE common = {}

\* Bug: the search starts at the slot the query is at.
FromHere(q) == {x \in Types : x >= q.entity /\ Matches(x, q.component_mask)}

\* What ecsQueryNext looks at, past the slot the query is at.
Ahead(q) == {x \in Types : x > q.entity /\ Matches(x, q.component_mask)}

Advanced(q) ==
  [q EXCEPT !.entity = IF Ahead(q) = {} THEN -1
                       ELSE CHOOSE x \in Ahead(q) : \A y \in Ahead(q) : x <= y]

ecsQueryCreate(mask) ==
  /\ running /\ query.entity = -1
  /\ query' = Advanced([component_mask |-> mask, entity |-> -1])
  /\ UNCHANGED <<count, sequences, entity_states, components_mask, components, given, settled, running>>

ecsQueryNext ==
  /\ running /\ query.entity # -1
  /\ query' = Advanced(query)
  /\ UNCHANGED <<count, sequences, entity_states, components_mask, components, given, settled, running>>

Next ==
  \/ \E mask \in Masks : ecsEntityAdd(mask) \/ ecsQueryCreate(mask)
  \/ \E ref \in given, pending \in BOOLEAN : ecsEntityRemove(ref, pending)
  \/ ecsUpdate \/ ecsComponentRegister \/ ecsDestroy \/ ecsQueryNext

\* The for loops of drawModels (scene.c 145-173) go on to the end.
Spec == Init /\ [][Next]_vars /\ WF_vars(ecsQueryNext)

-----------------------------------------------------------------------------
(* Properties. *)

\* No sequence or mask was written past the end of its array.
InBounds == \A ref \in given : ref.entity < T

\* A reference names one entity, whatever the memory held before: no other was
\* given its sequence or its slot, it is valid, and the slot has the mask it was
\* added with.
OneEntity ==
  InBounds =>
    \A r \in given :
      /\ \A s \in given : s # r => s.sequence # r.sequence /\ s.entity # r.entity
      /\ ecsEntityValid(r, TRUE) /\ components_mask[r.entity] = r.mask

\* Without allow_pending_add, an entity that was added is valid from the next
\* ecsUpdate on and stays so; before that it is only if it was removed.
SeenAfterUpdate ==
  InBounds =>
    \A r \in given :
      ecsEntityValid(r, FALSE) <=> r \in settled \/ entity_states[r.entity] = REMOVE

\* A loop over a query ends, also when entities come and go in its body.
QueriesEnd == query.entity # -1 ~> query.entity = -1

\* A valid query points at an entity that has the components asked for.  ecs.h:
\* "Advances the query to the next matching entity, if any".
QueryMatches ==
  query.entity # -1 =>
    /\ entity_states[query.entity] >= ACTIVE
    /\ query.component_mask \subseteq components_mask[query.entity]
=============================================================================
