---------------------------- MODULE DequeProofs ----------------------------
(***************************************************************************)
(* What Deque promises for every set of threads, every capacity and every  *)
(* number of calls; where its window lies, as long as no index wraps; and  *)
(* what it promises one producer that pushes at the back and one consumer  *)
(* that pops at the front: the queue is FIFO, for every capacity and every *)
(* number of pushes that does not wrap an index.                           *)
(***************************************************************************)
EXTENDS Deque, NatFacts, FiniteSetTheorems

(* C's remainder is an integer, whatever the sign of the index. *)
LEMMA CModType == ASSUME NEW n \in Int PROVE CMod(n) \in Int
BY NumbersAssumption DEF CMod

(* A wrapped index is an integer. *)
LEMMA WrapType == ASSUME NEW n \in Int PROVE Wrap(n) \in Int
BY NumbersAssumption DEF Wrap

(* A semaphore never exceeds its maximum. *)
LEMMA ReleasedType == ASSUME NEW n \in 0 .. Length PROVE Released(n) \in 0 .. Length
BY NumbersAssumption DEF Released

(* A thread inside a push is a producer with an item, one inside a pop a
   consumer: what a step says of op decides which. *)
LEMMA PushersPush ==
  ASSUME ThreadsType, CallsType, NEW t \in Threads, pc[t] # "idle", IsPush(t)
  PROVE  t \in Producers /\ t \notin Consumers /\ val[t] \in Items
BY ThreadsAssumption, OpsAssumption DEF ThreadsType, CallsType, IsPush, Threads

LEMMA PoppersPop ==
  ASSUME ThreadsType, CallsType, NEW t \in Threads, pc[t] # "idle", ~IsPush(t)
  PROVE  t \in Consumers /\ t \notin Producers
BY ThreadsAssumption, OpsAssumption DEF ThreadsType, CallsType, IsPush, Threads

(* dequeCreate leaves every variable in its type. *)
LEMMA InitTypeOK == Init => TypeOK
<1> SUFFICES ASSUME Init PROVE TypeOK
  OBVIOUS
<1>1. SharedType
  BY NumbersAssumption DEF Init, SharedType
<1>2. ThreadsType
  BY DEF Init, ThreadsType, Steps
<1>3. CallsType
  BY DEF Init, CallsType, Threads
<1>4. HistoryType
  BY DEF Init, HistoryType
<1> QED BY <1>1, <1>2, <1>3, <1>4 DEF TypeOK

(* No step of any operation takes a variable out of its type. *)
LEMMA NextTypeOK == TypeOK /\ [Next]_vars => TypeOK'
<1> SUFFICES ASSUME TypeOK, [Next]_vars PROVE TypeOK'
  OBVIOUS
<1> USE DEF TypeOK, Goto
<1>1. CASE UNCHANGED vars
  BY <1>1 DEF vars, shared, local, SharedType, ThreadsType, CallsType, HistoryType
<1>2. CASE Next
  <2> PICK t \in Threads : Push(t) \/ Pop(t) \/ Continue(t)
    BY <1>2 DEF Next
  <2>1. ASSUME NEW o \in PushOps, NEW i \in Items, PushGet(t, o, i) PROVE TypeOK'
    <3>1. SharedType'
      BY <2>1, NumbersAssumption DEF PushGet, CanGet, SharedType
    <3>2. ThreadsType'
      BY <2>1 DEF PushGet, ThreadsType, Steps
    <3>3. CallsType'
      BY <2>1, ThreadsAssumption, OpsAssumption
         DEF PushGet, ThreadsType, CallsType, Threads
    <3>4. HistoryType'
      BY <2>1 DEF PushGet, HistoryType
    <3> QED BY <3>1, <3>2, <3>3, <3>4
  <2>2. ASSUME NEW o \in PopOps, PopGet(t, o) PROVE TypeOK'
    <3>1. SharedType'
      BY <2>2, NumbersAssumption DEF PopGet, CanGet, SharedType
    <3>2. ThreadsType'
      BY <2>2 DEF PopGet, ThreadsType, Steps
    <3>3. CallsType'
      BY <2>2, ThreadsAssumption, OpsAssumption
         DEF PopGet, ThreadsType, CallsType, Threads
    <3>4. HistoryType'
      BY <2>2 DEF PopGet, HistoryType
    <3> QED BY <3>1, <3>2, <3>3, <3>4
  <2>3. CASE ClaimPushFront(t)
    <3>a. CMod(head_idx) \in Int /\ Wrap(head_idx - 1) \in Int
      BY CModType, WrapType DEF SharedType
    <3>b. val[t] \in Items
      BY <2>3, PushersPush DEF ClaimPushFront, Claim, IsPush
    <3>1. SharedType'
      BY <2>3, <3>a, NumbersAssumption DEF ClaimPushFront, Claim, SharedType
    <3>2. ThreadsType'
      BY <2>3, <3>a DEF ClaimPushFront, Claim, ThreadsType, Steps
    <3>3. CallsType'
      BY <2>3, ThreadsAssumption, OpsAssumption
         DEF ClaimPushFront, Claim, ThreadsType, CallsType, Threads
    <3>4. HistoryType'
      BY <2>3, <3>b DEF ClaimPushFront, Claim, HistoryType
    <3> QED BY <3>1, <3>2, <3>3, <3>4
  <2>4. CASE ClaimPopFront(t)
    <3>a. CMod(head_idx) \in Int /\ Wrap(head_idx + 1) \in Int
      BY CModType, WrapType DEF SharedType
    <3>1. SharedType'
      BY <2>4, <3>a, NumbersAssumption DEF ClaimPopFront, Claim, SharedType
    <3>2. ThreadsType'
      BY <2>4, <3>a DEF ClaimPopFront, Claim, ThreadsType, Steps
    <3>3. CallsType'
      BY <2>4, ThreadsAssumption, OpsAssumption
         DEF ClaimPopFront, Claim, ThreadsType, CallsType, Threads
    <3>4. HistoryType'
      BY <2>4 DEF ClaimPopFront, Claim, HistoryType
    <3> QED BY <3>1, <3>2, <3>3, <3>4
  <2>5. CASE ClaimPushBack(t)
    <3>a. CMod(tail_idx) \in Int /\ Wrap(tail_idx + 1) \in Int
      BY CModType, WrapType DEF SharedType
    <3>b. val[t] \in Items
      BY <2>5, PushersPush DEF ClaimPushBack, Claim, IsPush
    <3>1. SharedType'
      BY <2>5, <3>a, NumbersAssumption DEF ClaimPushBack, Claim, SharedType
    <3>2. ThreadsType'
      BY <2>5, <3>a DEF ClaimPushBack, Claim, ThreadsType, Steps
    <3>3. CallsType'
      BY <2>5, ThreadsAssumption, OpsAssumption
         DEF ClaimPushBack, Claim, ThreadsType, CallsType, Threads
    <3>4. HistoryType'
      BY <2>5, <3>b DEF ClaimPushBack, Claim, HistoryType
    <3> QED BY <3>1, <3>2, <3>3, <3>4
  <2>6. CASE ClaimPopBack(t)
    <3>a. CMod(tail_idx) \in Int /\ Wrap(tail_idx - 1) \in Int
      BY CModType, WrapType DEF SharedType
    <3>1. SharedType'
      BY <2>6, <3>a, NumbersAssumption DEF ClaimPopBack, Claim, SharedType
    <3>2. ThreadsType'
      BY <2>6, <3>a DEF ClaimPopBack, Claim, ThreadsType, Steps
    <3>3. CallsType'
      BY <2>6, ThreadsAssumption, OpsAssumption
         DEF ClaimPopBack, Claim, ThreadsType, CallsType, Threads
    <3>4. HistoryType'
      BY <2>6 DEF ClaimPopBack, Claim, HistoryType
    <3> QED BY <3>1, <3>2, <3>3, <3>4
  <2>7. CASE Write(t)
    <3>1. SharedType'
      BY <2>7, NumbersAssumption DEF Write, local, SharedType, ThreadsType
    <3>2. ThreadsType'
      BY <2>7 DEF Write, local, ThreadsType, Steps
    <3>3. CallsType'
      BY <2>7, ThreadsAssumption, OpsAssumption
         DEF Write, local, ThreadsType, CallsType, Threads
    <3>4. HistoryType'
      BY <2>7 DEF Write, local, HistoryType
    <3> QED BY <3>1, <3>2, <3>3, <3>4
  <2>8. CASE Read(t)
    <3>a. (IF idx[t] \in Slots THEN items[idx[t]] ELSE Garbage) \in Items \cup {Garbage}
      BY DEF SharedType
    <3>b. t \in Consumers /\ t \notin Producers
      BY <2>8, PoppersPop DEF Read
    <3>1. SharedType'
      BY <2>8, NumbersAssumption DEF Read, shared, SharedType
    <3>2. ThreadsType'
      BY <2>8, <3>a DEF Read, shared, ThreadsType, Steps
    <3>3. CallsType'
      BY <2>8, <3>b, ThreadsAssumption, OpsAssumption
         DEF Read, shared, ThreadsType, CallsType, Threads
    <3>4. HistoryType'
      BY <2>8 DEF Read, shared, HistoryType
    <3> QED BY <3>1, <3>2, <3>3, <3>4
  <2>9. CASE LoadSize(t)
    <3>1. SharedType'
      BY <2>9, NumbersAssumption DEF LoadSize, shared, SharedType
    <3>2. ThreadsType'
      BY <2>9 DEF LoadSize, shared, ThreadsType, Steps, SharedType
    <3>3. CallsType'
      BY <2>9, ThreadsAssumption, OpsAssumption
         DEF LoadSize, shared, ThreadsType, CallsType, Threads
    <3>4. HistoryType'
      BY <2>9 DEF LoadSize, shared, HistoryType
    <3> QED BY <3>1, <3>2, <3>3, <3>4
  <2>10. CASE StoreSize(t)
    <3>1. SharedType'
      BY <2>10, NumbersAssumption DEF StoreSize, local, SharedType, ThreadsType
    <3>2. ThreadsType'
      BY <2>10 DEF StoreSize, local, ThreadsType, Steps
    <3>3. CallsType'
      BY <2>10, ThreadsAssumption, OpsAssumption
         DEF StoreSize, local, ThreadsType, CallsType, Threads
    <3>4. HistoryType'
      BY <2>10 DEF StoreSize, local, HistoryType
    <3> QED BY <3>1, <3>2, <3>3, <3>4
  <2>11. CASE PushRelease(t)
    <3>1. SharedType'
      BY <2>11, ReleasedType, NumbersAssumption DEF PushRelease, local, SharedType
    <3>2. ThreadsType'
      BY <2>11 DEF PushRelease, local, ThreadsType, Steps
    <3>3. CallsType'
      BY <2>11, ThreadsAssumption, OpsAssumption
         DEF PushRelease, local, ThreadsType, CallsType, Threads
    <3>4. HistoryType'
      BY <2>11 DEF PushRelease, local, HistoryType
    <3> QED BY <3>1, <3>2, <3>3, <3>4
  <2>12. CASE PopRelease(t)
    <3>1. SharedType'
      BY <2>12, ReleasedType, NumbersAssumption DEF PopRelease, local, SharedType
    <3>2. ThreadsType'
      BY <2>12 DEF PopRelease, local, ThreadsType, Steps
    <3>3. CallsType'
      BY <2>12, ThreadsAssumption, OpsAssumption
         DEF PopRelease, local, ThreadsType, CallsType, Threads
    <3>4. HistoryType'
      BY <2>12 DEF PopRelease, local, HistoryType, ThreadsType
    <3> QED BY <3>1, <3>2, <3>3, <3>4
  <2> QED
    BY <2>1, <2>2, <2>3, <2>4, <2>5, <2>6, <2>7, <2>8, <2>9, <2>10, <2>11, <2>12
       DEF Push, Pop, Continue
<1> QED BY <1>1, <1>2

(* Every variable has its type, for every capacity and every set of threads. *)
THEOREM Typing == Spec => []TypeOK
BY InitTypeOK, NextTypeOK, PTL DEF Spec
-----------------------------------------------------------------------------
(* The tokens.  A call takes one when it begins and gives one when it ends,
   so only the calls that begin or end move a count. *)

(* Only finitely many calls are in progress. *)
LEMMA InFlightFinite == IsFiniteSet(InFlight) /\ Cardinality(InFlight) \in Nat
<1>1. IsFiniteSet(Threads)
  BY ThreadsAssumption, FS_Union DEF Threads
<1>2. InFlight \subseteq Threads
  BY DEF InFlight
<1> QED BY <1>1, <1>2, FS_Subset, FS_CardinalityType

(* A call that begins adds one to the calls in progress. *)
LEMMA Enters ==
  ASSUME ThreadsType, NEW t \in Threads, pc[t] = "idle", Goto(t, "claim")
  PROVE  Cardinality(InFlight') = Cardinality(InFlight) + 1
<1>1. InFlight' = InFlight \cup {t} /\ t \notin InFlight
  BY DEF InFlight, Goto, ThreadsType
<1> QED BY <1>1, InFlightFinite, FS_AddElement

(* A step inside a call leaves the calls in progress alone. *)
LEMMA Continues ==
  ASSUME ThreadsType, NEW t \in Threads, pc[t] # "idle",
         NEW step \in Steps \ {"idle"}, Goto(t, step)
  PROVE  InFlight' = InFlight
BY DEF InFlight, Goto, ThreadsType

(* A call that ends takes one off the calls in progress. *)
LEMMA Leaves ==
  ASSUME ThreadsType, NEW t \in Threads, pc[t] # "idle", Goto(t, "idle")
  PROVE  /\ Cardinality(InFlight') = Cardinality(InFlight) - 1
         /\ Cardinality(InFlight) > 0
<1>1. InFlight' = InFlight \ {t} /\ t \in InFlight
  BY DEF InFlight, Goto, ThreadsType
<1>2. Cardinality(InFlight) > 0
  BY <1>1, InFlightFinite, FS_EmptySet
<1> QED BY <1>1, <1>2, InFlightFinite, FS_RemoveElement

(* At first the semaphore free holds every token. *)
LEMMA InitSemConservation == Init => SemConservation
<1> SUFFICES ASSUME Init PROVE SemConservation
  OBVIOUS
<1>1. InFlight = {}
  BY DEF Init, InFlight
<1> QED BY <1>1, FS_EmptySet, NumbersAssumption DEF Init, SemConservation

(* Every step moves tokens and calls together. *)
LEMMA NextSemConservation ==
  TypeOK /\ SemConservation /\ [Next]_vars => SemConservation'
<1> SUFFICES ASSUME TypeOK, SemConservation, [Next]_vars PROVE SemConservation'
  OBVIOUS
<1> USE NumbersAssumption, InFlightFinite DEF TypeOK, SharedType, SemConservation
<1>1. CASE UNCHANGED vars
  BY <1>1 DEF vars, shared, InFlight
<1>2. CASE Next
  <2> PICK t \in Threads : Push(t) \/ Pop(t) \/ Continue(t)
    BY <1>2 DEF Next
  <2>1. ASSUME NEW o \in PushOps, NEW i \in Items, PushGet(t, o, i) PROVE SemConservation'
    BY <2>1, Enters DEF PushGet
  <2>2. ASSUME NEW o \in PopOps, PopGet(t, o) PROVE SemConservation'
    BY <2>2, Enters DEF PopGet
  <2>3. ASSUME ClaimPushFront(t) \/ ClaimPopFront(t) \/ ClaimPushBack(t) \/ ClaimPopBack(t)
        PROVE  SemConservation'
    BY <2>3, Continues
       DEF ClaimPushFront, ClaimPopFront, ClaimPushBack, ClaimPopBack, Claim, Steps
  <2>4. ASSUME Write(t) \/ Read(t) \/ LoadSize(t) \/ StoreSize(t)
        PROVE  SemConservation'
    BY <2>4, Continues DEF Write, Read, LoadSize, StoreSize, shared, Steps
  <2>5. CASE PushRelease(t)
    BY <2>5, Leaves DEF PushRelease, Released
  <2>6. CASE PopRelease(t)
    BY <2>6, Leaves DEF PopRelease, Released
  <2> QED
    BY <2>1, <2>2, <2>3, <2>4, <2>5, <2>6 DEF Push, Pop, Continue
<1> QED BY <1>1, <1>2

(* Whatever the threads and the functions they call, each call in progress
   holds exactly one token: no release is lost on a full semaphore. *)
THEOREM Conservation == Spec => []SemConservation
BY InitTypeOK, NextTypeOK, InitSemConservation, NextSemConservation, PTL DEF Spec

-----------------------------------------------------------------------------
(* The indices, whatever the mix of operations.  Every claim of a push moves
   the ends of the window apart by one and every claim of a pop brings them
   together by one, at whichever end: what lies between them is what the
   semaphore used counts, and the calls that are about to claim it or have
   just added it. *)

\* The pops that have a token and no index, and the pushes that have an index
\* and have not given their token.
Entered == {t \in InFlight : IF pc[t] = "claim" THEN t \in Consumers ELSE t \in Producers}
Claiming == {t \in Producers : pc[t] = "claim"}

\* No index wraps: each producer may begin one push that the bound does not count.
NoWrap == MaxPushes + Cardinality(Producers) <= IntMax + 1

Balance == tail_idx - head_idx = used + Cardinality(Entered)
EndsInt == -Len(sent) <= head_idx /\ tail_idx <= Len(sent) /\ Len(sent) <= IntMax
ClaimsBounded ==
  Claiming # {} => Len(sent) + Cardinality(Claiming) < MaxPushes + Cardinality(Producers)

WindowInv == Balance /\ EndsInt /\ ClaimsBounded

LEMMA WindowSets ==
  /\ Entered \subseteq InFlight /\ IsFiniteSet(Entered) /\ Cardinality(Entered) \in Nat
  /\ Cardinality(Entered) <= Cardinality(InFlight)
  /\ Claiming \subseteq Producers /\ IsFiniteSet(Claiming) /\ Cardinality(Claiming) \in Nat
  /\ Cardinality(Claiming) <= Cardinality(Producers) /\ Cardinality(Producers) \in Nat
<1>1. Entered \subseteq InFlight /\ Claiming \subseteq Producers
  BY DEF Entered, Claiming
<1>2. IsFiniteSet(Producers) /\ IsFiniteSet(InFlight)
  BY ThreadsAssumption, InFlightFinite
<1>3. IsFiniteSet(Entered) /\ Cardinality(Entered) <= Cardinality(InFlight)
  BY <1>1, <1>2, FS_Subset
<1>4. IsFiniteSet(Claiming) /\ Cardinality(Claiming) <= Cardinality(Producers)
  BY <1>1, <1>2, FS_Subset
<1> QED BY <1>1, <1>2, <1>3, <1>4, FS_CardinalityType

(* A set that gains or loses one member. *)
LEMMA OneMore ==
  ASSUME NEW S, NEW T, NEW t, IsFiniteSet(S), t \notin S, T = S \cup {t}
  PROVE  Cardinality(T) = Cardinality(S) + 1
BY FS_AddElement

LEMMA OneLess ==
  ASSUME NEW S, NEW T, NEW t, IsFiniteSet(S), t \in S, T = S \ {t}
  PROVE  Cardinality(T) = Cardinality(S) - 1 /\ Cardinality(S) > 0
<1>1. Cardinality(S) \in Nat /\ Cardinality(S) # 0
  BY FS_CardinalityType, FS_EmptySet
<1>2. Cardinality(T) = Cardinality(S) - 1
  BY FS_RemoveElement
<1> QED BY <1>1, <1>2

(* A step of a thread moves no other thread in or out of the sets. *)
LEMMA PushBegins ==
  ASSUME ThreadsType, NEW t \in Producers, pc[t] = "idle", Goto(t, "claim")
  PROVE  Entered' = Entered /\ Claiming' = Claiming \cup {t}
BY ThreadsAssumption DEF Entered, Claiming, InFlight, Goto, ThreadsType, Threads

LEMMA PopBegins ==
  ASSUME ThreadsType, NEW t \in Consumers, pc[t] = "idle", Goto(t, "claim")
  PROVE  /\ Claiming' = Claiming
         /\ Entered' = Entered \cup {t} /\ t \notin Entered
BY ThreadsAssumption DEF Entered, Claiming, InFlight, Goto, ThreadsType, Threads

LEMMA PushClaims ==
  ASSUME ThreadsType, NEW t \in Producers, pc[t] = "claim", Goto(t, "access")
  PROVE  /\ Claiming' = Claiming \ {t} /\ t \in Claiming
         /\ Entered' = Entered \cup {t} /\ t \notin Entered
BY ThreadsAssumption DEF Entered, Claiming, InFlight, Goto, ThreadsType, Threads

LEMMA PopClaims ==
  ASSUME ThreadsType, NEW t \in Consumers, pc[t] = "claim", Goto(t, "access")
  PROVE  /\ Claiming' = Claiming
         /\ Entered' = Entered \ {t} /\ t \in Entered
BY ThreadsAssumption DEF Entered, Claiming, InFlight, Goto, ThreadsType, Threads

LEMMA GoesOn ==
  ASSUME ThreadsType, NEW t \in Threads, pc[t] \notin {"idle", "claim"},
         NEW step \in {"load", "store", "release"}, Goto(t, step)
  PROVE  Claiming' = Claiming /\ Entered' = Entered
<1>1. InFlight' = InFlight
  BY DEF InFlight, Goto, ThreadsType
<1> QED BY <1>1 DEF Entered, Claiming, Goto, ThreadsType, Threads

LEMMA PushEnds ==
  ASSUME ThreadsType, NEW t \in Producers, pc[t] = "release", Goto(t, "idle")
  PROVE  /\ Claiming' = Claiming
         /\ Entered' = Entered \ {t} /\ t \in Entered
BY ThreadsAssumption DEF Entered, Claiming, InFlight, Goto, ThreadsType, Threads

LEMMA PopEnds ==
  ASSUME ThreadsType, NEW t \in Consumers, pc[t] = "release", Goto(t, "idle")
  PROVE  Claiming' = Claiming /\ Entered' = Entered
BY ThreadsAssumption DEF Entered, Claiming, InFlight, Goto, ThreadsType, Threads

(* At first the window is empty. *)
LEMMA InitWindowInv == Init => WindowInv
<1> SUFFICES ASSUME Init PROVE WindowInv
  OBVIOUS
<1>1. Entered = {} /\ Claiming = {}
  BY DEF Init, Entered, InFlight, Claiming, Threads
<1> QED BY <1>1, FS_EmptySet, NumbersAssumption DEF Init, WindowInv, Balance, EndsInt, ClaimsBounded

(* The tokens keep the window within the capacity. *)
LEMMA BalanceWindow ==
  ASSUME TypeOK, SemConservation, Balance
  PROVE  IndexWindow
BY WindowSets, InFlightFinite, NumbersAssumption
   DEF TypeOK, SharedType, SemConservation, Balance, IndexWindow

(* A call that begins changes neither an index nor what is between them. *)
LEMMA BeginWindow ==
  ASSUME TypeOK, WindowInv, NEW t \in Threads, Push(t) \/ Pop(t)
  PROVE  WindowInv'
<1>1. ThreadsType /\ used \in Nat /\ Len(sent) \in Nat /\ MaxPushes \in Nat
  BY NumbersAssumption DEF TypeOK, SharedType, HistoryType
<1>2. ASSUME NEW o \in PushOps, NEW i \in Items, PushGet(t, o, i) PROVE WindowInv'
  <2>1. Entered' = Entered /\ Claiming' = Claiming \cup {t}
    BY <1>1, <1>2, PushBegins DEF PushGet
  <2>2. Claiming' \subseteq Producers
    BY <1>2, <2>1 DEF PushGet, Claiming
  <2>3. Cardinality(Claiming') <= Cardinality(Producers) /\ Cardinality(Claiming') \in Nat
    BY <2>2, ThreadsAssumption, FS_Subset, FS_CardinalityType
  <2> QED BY <1>1, <1>2, <2>1, <2>3, WindowSets
          DEF PushGet, WindowInv, Balance, EndsInt, ClaimsBounded
<1>3. ASSUME NEW o \in PopOps, PopGet(t, o) PROVE WindowInv'
  <2>1. Claiming' = Claiming /\ Entered' = Entered \cup {t} /\ t \notin Entered
    BY <1>1, <1>3, PopBegins DEF PopGet
  <2>2. Cardinality(Entered') = Cardinality(Entered) + 1
    BY <2>1, WindowSets, OneMore
  <2> QED BY <1>1, <1>3, <2>1, <2>2, WindowSets
          DEF PopGet, CanGet, WindowInv, Balance, EndsInt, ClaimsBounded
<1> QED BY <1>2, <1>3 DEF Push, Pop

(* A claim moves one index by one, and neither wraps. *)
LEMMA PushClaimWindow ==
  ASSUME NoWrap, TypeOK, SemConservation, WindowInv, NEW t \in Threads,
         ClaimPushFront(t) \/ ClaimPushBack(t)
  PROVE  WindowInv'
<1>1. ThreadsType /\ CallsType /\ used \in Nat /\ sent \in Seq(Items)
      /\ head_idx \in Int /\ tail_idx \in Int /\ MaxPushes \in Nat /\ IntMax \in Nat
  BY NumbersAssumption DEF TypeOK, SharedType, HistoryType
<1>2. t \in Producers /\ pc[t] = "claim" /\ Goto(t, "access") /\ val[t] \in Items
  BY <1>1, PushersPush DEF ClaimPushFront, ClaimPushBack, Claim, IsPush
<1>3. /\ Claiming' = Claiming \ {t} /\ t \in Claiming
      /\ Entered' = Entered \cup {t} /\ t \notin Entered
  BY <1>1, <1>2, PushClaims
<1>4. Cardinality(Claiming') = Cardinality(Claiming) - 1 /\ Cardinality(Claiming) > 0
  BY <1>3, WindowSets, OneLess
<1>5. Cardinality(Entered') = Cardinality(Entered) + 1
  BY <1>3, WindowSets, OneMore
<1>6. Len(sent) + Cardinality(Claiming) < MaxPushes + Cardinality(Producers)
  BY <1>3 DEF WindowInv, ClaimsBounded
<1>7. sent' = Append(sent, val[t]) /\ Len(sent') = Len(sent) + 1 /\ Len(sent) \in Nat
  BY <1>1, <1>2 DEF ClaimPushFront, ClaimPushBack
<1>8. ClaimsBounded'
  BY <1>1, <1>4, <1>6, <1>7, WindowSets DEF ClaimsBounded
<1>9. Len(sent) < IntMax
  BY <1>1, <1>4, <1>6, <1>7, WindowSets DEF NoWrap
<1>10. head_idx <= tail_idx
  BY BalanceWindow, <1>1 DEF WindowInv, IndexWindow
<1>11. \/ head_idx' = head_idx - 1 /\ tail_idx' = tail_idx
       \/ head_idx' = head_idx /\ tail_idx' = tail_idx + 1
  BY <1>1, <1>7, <1>9, <1>10
     DEF ClaimPushFront, ClaimPushBack, Wrap, WindowInv, EndsInt
<1>12. used' = used
  BY DEF ClaimPushFront, ClaimPushBack, Claim
<1>13. Balance'
  BY <1>1, <1>5, <1>11, <1>12, WindowSets DEF Balance, WindowInv
<1>14. EndsInt'
  BY <1>1, <1>7, <1>9, <1>11 DEF EndsInt, WindowInv
<1> QED BY <1>8, <1>13, <1>14 DEF WindowInv

LEMMA PopClaimWindow ==
  ASSUME NoWrap, TypeOK, SemConservation, WindowInv, NEW t \in Threads,
         ClaimPopFront(t) \/ ClaimPopBack(t)
  PROVE  WindowInv'
<1>1. ThreadsType /\ CallsType /\ used \in Nat /\ Len(sent) \in Nat
      /\ head_idx \in Int /\ tail_idx \in Int /\ MaxPushes \in Nat /\ IntMax \in Nat
  BY NumbersAssumption DEF TypeOK, SharedType, HistoryType
<1>2. t \in Consumers /\ pc[t] = "claim" /\ Goto(t, "access")
  BY <1>1, PoppersPop DEF ClaimPopFront, ClaimPopBack, Claim, IsPush
<1>3. Claiming' = Claiming /\ Entered' = Entered \ {t} /\ t \in Entered
  BY <1>1, <1>2, PopClaims
<1>4. Cardinality(Entered') = Cardinality(Entered) - 1 /\ Cardinality(Entered) > 0
  BY <1>3, WindowSets, OneLess
<1>5. sent' = sent /\ used' = used
  BY DEF ClaimPopFront, ClaimPopBack, Claim
<1>6. head_idx < tail_idx
  BY <1>1, <1>4, WindowSets DEF WindowInv, Balance
<1>7. \/ head_idx' = head_idx + 1 /\ tail_idx' = tail_idx
      \/ head_idx' = head_idx /\ tail_idx' = tail_idx - 1
  BY <1>1, <1>6 DEF ClaimPopFront, ClaimPopBack, Wrap, WindowInv, EndsInt
<1>8. Balance'
  BY <1>1, <1>4, <1>5, <1>7, WindowSets DEF Balance, WindowInv
<1>9. EndsInt'
  BY <1>1, <1>5, <1>6, <1>7 DEF EndsInt, WindowInv
<1>10. ClaimsBounded'
  BY <1>3, <1>5 DEF ClaimsBounded, WindowInv
<1> QED BY <1>8, <1>9, <1>10 DEF WindowInv

(* The other steps inside a call, and its end. *)
LEMMA ContinueWindow ==
  ASSUME TypeOK, SemConservation, WindowInv, NEW t \in Threads,
         \/ Write(t) \/ Read(t) \/ LoadSize(t) \/ StoreSize(t)
         \/ PushRelease(t) \/ PopRelease(t)
  PROVE  WindowInv'
<1>1. ThreadsType /\ CallsType /\ used \in Nat /\ head_idx \in Int /\ tail_idx \in Int
  BY DEF TypeOK, SharedType
<1>2. head_idx' = head_idx /\ tail_idx' = tail_idx /\ sent' = sent
  BY DEF Write, Read, LoadSize, StoreSize, PushRelease, PopRelease, shared
<1>3. ASSUME Claiming' = Claiming, used' = used, Entered' = Entered PROVE WindowInv'
  BY <1>2, <1>3 DEF WindowInv, Balance, EndsInt, ClaimsBounded
<1>4. CASE Write(t) \/ Read(t) \/ LoadSize(t) \/ StoreSize(t)
  <2>1. used' = used
    BY <1>4 DEF Write, Read, LoadSize, StoreSize, shared
  <2>2. Claiming' = Claiming /\ Entered' = Entered
    BY <1>1, <1>4, GoesOn DEF Write, Read, LoadSize, StoreSize
  <2> QED BY <1>3, <2>1, <2>2
<1>5. CASE PushRelease(t)
  <2>1. Claiming' = Claiming /\ Entered' = Entered \ {t} /\ t \in Entered
    BY <1>1, <1>5, PushersPush, PushEnds DEF PushRelease
  <2>2. Cardinality(Entered') = Cardinality(Entered) - 1 /\ Cardinality(Entered) > 0
    BY <2>1, WindowSets, OneLess
  <2>3. used' = used + 1
    BY <1>1, <1>5, <2>2, WindowSets, InFlightFinite, NumbersAssumption
       DEF PushRelease, Released, SemConservation, TypeOK, SharedType
  <2>4. Balance'
    BY <1>1, <1>2, <2>2, <2>3, WindowSets DEF WindowInv, Balance
  <2> QED BY <1>2, <2>1, <2>4 DEF WindowInv, EndsInt, ClaimsBounded
<1>6. CASE PopRelease(t)
  <2>1. Claiming' = Claiming /\ Entered' = Entered
    BY <1>1, <1>6, PoppersPop, PopEnds DEF PopRelease
  <2> QED BY <1>3, <1>6, <2>1 DEF PopRelease
<1> QED BY <1>4, <1>5, <1>6

LEMMA NextWindowInv ==
  ASSUME NoWrap
  PROVE  TypeOK /\ SemConservation /\ WindowInv /\ [Next]_vars => WindowInv'
<1> SUFFICES ASSUME TypeOK, SemConservation, WindowInv, [Next]_vars PROVE WindowInv'
  OBVIOUS
<1>1. CASE UNCHANGED vars
  BY <1>1 DEF vars, shared, WindowInv, Balance, EndsInt, ClaimsBounded, Entered, Claiming, InFlight
<1>2. CASE Next
  <2> PICK t \in Threads : Push(t) \/ Pop(t) \/ Continue(t)
    BY <1>2 DEF Next
  <2> QED
    BY BeginWindow, PushClaimWindow, PopClaimWindow, ContinueWindow DEF Continue
<1> QED BY <1>1, <1>2

(* Whatever the threads and the functions they call, the claimed pushes stay
   within one lap of the claimed pops, until an index wraps: so the positions
   between head and tail name different slots. *)
THEOREM Window ==
  ASSUME NoWrap
  PROVE  Spec => []IndexWindow
<1>1. TypeOK /\ SemConservation /\ WindowInv => IndexWindow
  BY BalanceWindow DEF WindowInv
<1> QED BY <1>1, InitWindowInv, NextWindowInv, Typing, Conservation, PTL DEF Spec

-----------------------------------------------------------------------------
(* One producer and one consumer. *)

\* The one use of the queue that is safe.
Spsc(p, c) ==
  /\ Producers = {p} /\ Consumers = {c}
  /\ PushOps = {"PushBack"} /\ PopOps = {"PopFront"}
  /\ MaxPushes <= IntMax

-----------------------------------------------------------------------------
(* The invariant holds of the queue dequeCreate returns. *)
LEMMA InitFifoInv == ASSUME NEW p, NEW c, Spsc(p, c), Init PROVE FifoInv
<1>1. Len(sent) = 0 /\ Len(received) = 0
  BY DEF Init
<1>2. p \in Threads /\ c \in Threads /\ pc[p] = "idle" /\ pc[c] = "idle"
  BY DEF Init, Spsc, Threads
<1>3. FIFO
  BY <1>1 DEF FIFO
<1>4. Counts(p, c)
  <2>1. Claimed(p) = 0 /\ Claimed(c) = 0 /\ At(p, "claim") = 0 /\ At(c, "claim") = 0
    BY <1>2 DEF Claimed, At
  <2>2. used = 0 /\ free = Length /\ head_idx = 0 /\ tail_idx = 0
    BY DEF Init
  <2> QED BY <1>1, <2>1, <2>2, NumbersAssumption DEF Counts
<1>5. Kept(p)
  BY <1>1, <1>2 DEF Kept, At
<1>6. Carried(p, c)
  BY <1>2 DEF Carried
<1> QED BY <1>3, <1>4, <1>5, <1>6 DEF FifoInv, Spsc

(* What TypeOK and FifoInv say in this setting, with the quantifiers gone. *)
LEMMA SpscFacts ==
  ASSUME NEW p, NEW c, Spsc(p, c), TypeOK, FifoInv
  PROVE  /\ p # c /\ Threads = {p, c}
         /\ pc[p] # "idle" => op[p] = "PushBack" /\ IsPush(p)
         /\ pc[c] # "idle" => op[c] = "PopFront" /\ ~IsPush(c)
         /\ Counts(p, c) /\ Kept(p) /\ Carried(p, c)
         /\ Len(sent) \in Nat /\ Len(received) \in Nat
<1>1. p # c /\ Threads = {p, c} /\ p \in Producers /\ c \in Consumers
  BY ThreadsAssumption DEF Spsc, Threads
<1>2. pc[p] # "idle" => op[p] = "PushBack" /\ IsPush(p)
  BY <1>1 DEF TypeOK, CallsType, Spsc, IsPush
<1>3. pc[c] # "idle" => op[c] = "PopFront" /\ ~IsPush(c)
  BY <1>1 DEF TypeOK, CallsType, Spsc, IsPush
<1>4. Counts(p, c) /\ Kept(p) /\ Carried(p, c)
  BY <1>1 DEF FifoInv
<1>5. Len(sent) \in Nat /\ Len(received) \in Nat
  BY DEF TypeOK, HistoryType
<1> QED BY <1>1, <1>2, <1>3, <1>4, <1>5

(* No index wraps: tail_idx is the number of pushes, head_idx is behind it. *)
LEMMA SpscWindow ==
  ASSUME NEW p, NEW c, Spsc(p, c), TypeOK, FifoInv
  PROVE  /\ 0 <= head_idx /\ head_idx <= tail_idx /\ tail_idx - head_idx <= Length
         /\ tail_idx - Len(received) <= Length
         /\ tail_idx <= MaxPushes /\ MaxPushes <= IntMax
         /\ head_idx + At(c, "claim") <= tail_idx - Claimed(p)
<1>1. Counts(p, c) /\ Len(sent) \in Nat /\ Len(received) \in Nat
  BY SpscFacts
<1>2. used >= 0 /\ free >= 0 /\ used \in Int /\ free \in Int
      /\ head_idx \in Int /\ tail_idx \in Int
  BY NumbersAssumption DEF TypeOK, SharedType
<1>3. At(c, "claim") \in {0, 1} /\ At(p, "claim") \in {0, 1}
  BY DEF At
<1>4. Claimed(p) \in {0, 1} /\ Claimed(c) \in {0, 1}
  BY DEF Claimed
<1>5. MaxPushes <= IntMax
  BY DEF Spsc
<1> USE <1>1, <1>2, <1>3, <1>4, <1>5, NumbersAssumption DEF Counts
<1>6. 0 <= head_idx /\ head_idx <= tail_idx
  OBVIOUS
<1>7. tail_idx - head_idx <= Length /\ tail_idx - Len(received) <= Length
  OBVIOUS
<1>8. tail_idx <= MaxPushes /\ head_idx + At(c, "claim") <= tail_idx - Claimed(p)
  OBVIOUS
<1> QED BY <1>6, <1>7, <1>8

-----------------------------------------------------------------------------
(* What a step does to pc, in the terms of the invariant. *)

(* A thread that goes to a step changes its own place only. *)
LEMMA Moves ==
  ASSUME ThreadsType, NEW t \in Threads, NEW u \in Threads, t # u,
         NEW step \in Steps, Goto(t, step)
  PROVE  /\ pc'[t] = step /\ pc'[u] = pc[u]
         /\ Claimed(u)' = Claimed(u)
         /\ Claimed(t)' = IF step \in {"access", "load", "store", "release"} THEN 1 ELSE 0
         /\ \A s \in Steps : /\ At(u, s)' = At(u, s)
                             /\ At(t, s)' = IF step = s THEN 1 ELSE 0
<1>1. pc'[t] = step /\ pc'[u] = pc[u]
  BY DEF ThreadsType, Goto
<1> QED BY <1>1 DEF Claimed, At

(* The counters of a thread are 0 or 1, and one in its slot has claimed it. *)
LEMMA Bits ==
  ASSUME NEW t
  PROVE  /\ Claimed(t) \in {0, 1}
         /\ At(t, "claim") \in {0, 1} /\ At(t, "access") \in {0, 1}
         /\ At(t, "access") <= Claimed(t)
BY DEF Claimed, At

(* The counters of a thread that is at a given step. *)
LEMMA PcValues ==
  ASSUME NEW t, NEW step \in Steps, pc[t] = step
  PROVE  /\ Claimed(t) = IF step \in {"access", "load", "store", "release"} THEN 1 ELSE 0
         /\ \A s \in Steps : At(t, s) = IF step = s THEN 1 ELSE 0
BY DEF Claimed, At

(* The remainder of an index is a slot. *)
LEMMA SlotOf == ASSUME NEW n \in Nat PROVE n % Length \in Slots
BY DivMod, NumbersAssumption DEF Slots

(* Two items less than a lap apart are in different slots. *)
LEMMA SlotsDiffer ==
  ASSUME NEW a \in Nat, NEW b \in Nat, 1 <= a, a < b, b - a < Length
  PROVE  (a - 1) % Length # (b - 1) % Length
<1>1. a - 1 \in Nat /\ b - 1 \in Nat /\ a - 1 < b - 1 /\ (b - 1) - (a - 1) < Length
  OBVIOUS
<1> QED BY <1>1, DistinctSlots, NumbersAssumption

(* The four conjuncts of the invariant, primed, are what each step must show. *)
FifoParts(p, c) == FIFO /\ Counts(p, c) /\ Kept(p) /\ Carried(p, c)

(* A producer that gets a token of free keeps the invariant. *)
LEMMA PushGetStep ==
  ASSUME NEW p, NEW c, Spsc(p, c), TypeOK, FifoInv, NEW i \in Items, PushGet(p, "PushBack", i)
  PROVE  FifoParts(p, c)'
<1> USE SpscFacts
<1>1. ThreadsType /\ p \in Threads /\ c \in Threads /\ pc[p] = "idle" /\ Goto(p, "claim")
  BY DEF TypeOK, PushGet
<1>2. /\ pc'[p] = "claim" /\ pc'[c] = pc[c]
      /\ Claimed(c)' = Claimed(c) /\ At(c, "claim")' = At(c, "claim")
      /\ At(c, "access")' = At(c, "access")
      /\ Claimed(p)' = 0 /\ Claimed(p) = 0
      /\ At(p, "claim")' = 1 /\ At(p, "claim") = 0
      /\ At(p, "access")' = 0 /\ At(p, "access") = 0
  BY <1>1, Moves, PcValues DEF Steps
<1>3. FIFO'
  BY DEF FifoInv, FIFO, PushGet
<1>4. Counts(p, c)'
  BY <1>2, Bits, NumbersAssumption DEF Counts, PushGet
<1>5. Kept(p)'
  BY <1>2 DEF Kept, PushGet
<1>6. Carried(p, c)'
  BY <1>1, <1>2 DEF Carried, PushGet, ThreadsType
<1> QED BY <1>3, <1>4, <1>5, <1>6 DEF FifoParts

(* A consumer that gets a token of used keeps the invariant. *)
LEMMA PopGetStep ==
  ASSUME NEW p, NEW c, Spsc(p, c), TypeOK, FifoInv, PopGet(c, "PopFront")
  PROVE  FifoParts(p, c)'
<1> USE SpscFacts
<1>1. ThreadsType /\ p \in Threads /\ c \in Threads /\ pc[c] = "idle" /\ Goto(c, "claim")
  BY DEF TypeOK, PopGet
<1>2. /\ pc'[c] = "claim" /\ pc'[p] = pc[p]
      /\ Claimed(p)' = Claimed(p) /\ At(p, "claim")' = At(p, "claim")
      /\ At(p, "access")' = At(p, "access")
      /\ Claimed(c)' = 0 /\ Claimed(c) = 0
      /\ At(c, "claim")' = 1 /\ At(c, "claim") = 0
      /\ At(c, "access")' = 0 /\ At(c, "access") = 0
  BY <1>1, Moves, PcValues DEF Steps
<1>3. FIFO'
  BY DEF FifoInv, FIFO, PopGet
<1>4. Counts(p, c)'
  BY <1>2, Bits, NumbersAssumption DEF Counts, PopGet
<1>5. Kept(p)'
  BY <1>2 DEF Kept, PopGet
<1>6. Carried(p, c)'
  BY <1>1, <1>2 DEF Carried, PopGet, ThreadsType
<1> QED BY <1>3, <1>4, <1>5, <1>6 DEF FifoParts

(* Claiming a slot at the back keeps the invariant. *)
LEMMA ClaimPushBackStep ==
  ASSUME NEW p, NEW c, Spsc(p, c), TypeOK, FifoInv, ClaimPushBack(p)
  PROVE  FifoParts(p, c)'
<1> USE SpscFacts
<1>1. ThreadsType /\ p \in Threads /\ c \in Threads /\ pc[p] = "claim" /\ Goto(p, "access")
  BY DEF TypeOK, ClaimPushBack, Claim
<1>2. /\ pc'[p] = "access" /\ pc'[c] = pc[c]
      /\ Claimed(c)' = Claimed(c) /\ At(c, "claim")' = At(c, "claim")
      /\ At(c, "access")' = At(c, "access")
      /\ Claimed(p)' = 1 /\ Claimed(p) = 0
      /\ At(p, "claim")' = 0 /\ At(p, "claim") = 1
      /\ At(p, "access")' = 1 /\ At(p, "access") = 0
  BY <1>1, Moves, PcValues DEF Steps
<1>a. /\ tail_idx = Len(sent) /\ tail_idx + 1 <= IntMax
      /\ 0 <= head_idx /\ head_idx <= tail_idx /\ tail_idx \in Int /\ head_idx \in Int
      /\ tail_idx' = tail_idx + 1 /\ CMod(tail_idx) = tail_idx % Length
  <2>1. tail_idx = Len(sent) /\ tail_idx + 1 <= IntMax /\ tail_idx \in Nat
    BY <1>2, SpscWindow, NumbersAssumption DEF Counts
  <2>2. tail_idx' = tail_idx + 1 /\ CMod(tail_idx) = tail_idx % Length
    BY <2>1, NumbersAssumption DEF ClaimPushBack, Wrap, CMod
  <2> QED BY <2>1, <2>2, SpscWindow DEF TypeOK, SharedType
<1>b. /\ sent' = Append(sent, val[p]) /\ Len(sent') = Len(sent) + 1
      /\ \A k \in 1 .. Len(sent) : sent'[k] = sent[k]
      /\ sent'[Len(sent) + 1] = val[p]
      /\ received' = received
  BY DEF ClaimPushBack, Claim, TypeOK, HistoryType
<1>3. FIFO'
  BY <1>b DEF FifoInv, FIFO
<1>4. Counts(p, c)'
  BY <1>2, <1>a, <1>b, Bits, NumbersAssumption DEF Counts, ClaimPushBack, Claim
<1>5. Kept(p)'
  <2>1. Len(sent') - At(p, "access")' = Len(sent) - At(p, "access")
    BY <1>2, <1>b
  <2>2. items' = items /\ received' = received
    BY DEF ClaimPushBack, Claim
  <2> QED BY <1>2, <1>b, <2>1, <2>2 DEF Kept
<1>6. Carried(p, c)'
  <2>1. idx'[p] = (tail_idx' - 1) % Length /\ val'[p] = sent'[tail_idx']
    BY <1>1, <1>a, <1>b DEF ClaimPushBack, Claim, ThreadsType
  <2>2. head_idx' = head_idx /\ idx'[c] = idx[c] /\ val'[c] = val[c]
    BY <1>1 DEF ClaimPushBack, Claim, ThreadsType
  <2>3. pc[c] \in {"load", "store", "release"} => head_idx \in 1 .. Len(sent)
    BY <1>a DEF Counts, Claimed
  <2> QED BY <1>2, <1>b, <2>1, <2>2, <2>3 DEF Carried
<1> QED BY <1>3, <1>4, <1>5, <1>6 DEF FifoParts

(* Writing the claimed slot keeps it: no unread item is overwritten. *)
LEMMA WriteStep ==
  ASSUME NEW p, NEW c, Spsc(p, c), TypeOK, FifoInv, Write(p)
  PROVE  FifoParts(p, c)'
<1> USE SpscFacts
<1>1. ThreadsType /\ p \in Threads /\ c \in Threads /\ pc[p] = "access" /\ Goto(p, "load")
  BY DEF TypeOK, Write
<1>2. /\ pc'[p] = "load" /\ pc'[c] = pc[c]
      /\ Claimed(c)' = Claimed(c) /\ At(c, "claim")' = At(c, "claim")
      /\ At(c, "access")' = At(c, "access")
      /\ Claimed(p)' = 1 /\ Claimed(p) = 1
      /\ At(p, "claim")' = 0 /\ At(p, "claim") = 0
      /\ At(p, "access")' = 0 /\ At(p, "access") = 1
  BY <1>1, Moves, PcValues DEF Steps
<1>3. FIFO'
  BY DEF FifoInv, FIFO, Write
<1>4. Counts(p, c)'
  BY <1>2, Bits, NumbersAssumption DEF Counts, Write
<1>5. Kept(p)'
  <2> SUFFICES ASSUME NEW k \in Len(received) + 1 .. Len(sent)
               PROVE  items'[(k - 1) % Length] = sent[k]
    BY <1>2 DEF Kept, Write
  <2>1. /\ k \in Nat /\ 1 <= k /\ k <= tail_idx /\ tail_idx \in Nat
        /\ tail_idx - k < Length
    BY SpscWindow, NumbersAssumption DEF Counts
  <2>2. idx[p] = (tail_idx - 1) % Length /\ val[p] = sent[tail_idx]
    BY <1>1 DEF Carried
  <2>3. (k - 1) % Length \in Slots
    <3>1. k - 1 \in Nat
      BY <2>1
    <3> QED BY <3>1, SlotOf
  <2>4. items'[(k - 1) % Length] =
          IF (k - 1) % Length = idx[p] THEN val[p] ELSE items[(k - 1) % Length]
    BY <2>3 DEF Write
  <2>5. CASE k = tail_idx
    BY <2>2, <2>4, <2>5
  <2>6. CASE k < tail_idx
    <3>1. (k - 1) % Length # (tail_idx - 1) % Length
      BY <2>1, <2>6, SlotsDiffer
    <3>2. k \in Len(received) + 1 .. Len(sent) - 1
      BY <2>1, <2>6 DEF Counts
    <3> QED BY <1>2, <2>2, <2>4, <3>1, <3>2 DEF Kept
  <2> QED BY <2>1, <2>5, <2>6
<1>6. Carried(p, c)'
  BY <1>1, <1>2 DEF Carried, Write, local
<1> QED BY <1>3, <1>4, <1>5, <1>6 DEF FifoParts

(* The producer loads cur_size, which the invariant does not mention. *)
LEMMA LoadSizeStep_p ==
  ASSUME NEW p, NEW c, Spsc(p, c), TypeOK, FifoInv, LoadSize(p)
  PROVE  FifoParts(p, c)'
<1> USE SpscFacts
<1>1. ThreadsType /\ p \in Threads /\ c \in Threads /\ pc[p] = "load" /\ Goto(p, "store")
  BY DEF TypeOK, LoadSize, shared
<1>2. /\ pc'[p] = "store" /\ pc'[c] = pc[c]
      /\ Claimed(c)' = Claimed(c) /\ At(c, "claim")' = At(c, "claim")
      /\ At(c, "access")' = At(c, "access")
      /\ Claimed(p)' = 1 /\ Claimed(p) = 1
      /\ At(p, "claim")' = 0 /\ At(p, "claim") = 0
      /\ At(p, "access")' = 0 /\ At(p, "access") = 0
  BY <1>1, Moves, PcValues DEF Steps
<1>3. FIFO'
  BY DEF FifoInv, FIFO, LoadSize, shared
<1>4. Counts(p, c)'
  BY <1>2 DEF Counts, LoadSize, shared
<1>5. Kept(p)'
  BY <1>2 DEF Kept, LoadSize, shared
<1>6. Carried(p, c)'
  BY <1>1, <1>2 DEF Carried, LoadSize, shared
<1> QED BY <1>3, <1>4, <1>5, <1>6 DEF FifoParts

(* The consumer loads cur_size, which the invariant does not mention. *)
LEMMA LoadSizeStep_c ==
  ASSUME NEW p, NEW c, Spsc(p, c), TypeOK, FifoInv, LoadSize(c)
  PROVE  FifoParts(p, c)'
<1> USE SpscFacts
<1>1. ThreadsType /\ p \in Threads /\ c \in Threads /\ pc[c] = "load" /\ Goto(c, "store")
  BY DEF TypeOK, LoadSize, shared
<1>2. /\ pc'[c] = "store" /\ pc'[p] = pc[p]
      /\ Claimed(p)' = Claimed(p) /\ At(p, "claim")' = At(p, "claim")
      /\ At(p, "access")' = At(p, "access")
      /\ Claimed(c)' = 1 /\ Claimed(c) = 1
      /\ At(c, "claim")' = 0 /\ At(c, "claim") = 0
      /\ At(c, "access")' = 0 /\ At(c, "access") = 0
  BY <1>1, Moves, PcValues DEF Steps
<1>3. FIFO'
  BY DEF FifoInv, FIFO, LoadSize, shared
<1>4. Counts(p, c)'
  BY <1>2 DEF Counts, LoadSize, shared
<1>5. Kept(p)'
  BY <1>2 DEF Kept, LoadSize, shared
<1>6. Carried(p, c)'
  BY <1>1, <1>2 DEF Carried, LoadSize, shared
<1> QED BY <1>3, <1>4, <1>5, <1>6 DEF FifoParts

(* The producer stores cur_size, which the invariant does not mention. *)
LEMMA StoreSizeStep_p ==
  ASSUME NEW p, NEW c, Spsc(p, c), TypeOK, FifoInv, StoreSize(p)
  PROVE  FifoParts(p, c)'
<1> USE SpscFacts
<1>1. ThreadsType /\ p \in Threads /\ c \in Threads /\ pc[p] = "store" /\ Goto(p, "release")
  BY DEF TypeOK, StoreSize, local
<1>2. /\ pc'[p] = "release" /\ pc'[c] = pc[c]
      /\ Claimed(c)' = Claimed(c) /\ At(c, "claim")' = At(c, "claim")
      /\ At(c, "access")' = At(c, "access")
      /\ Claimed(p)' = 1 /\ Claimed(p) = 1
      /\ At(p, "claim")' = 0 /\ At(p, "claim") = 0
      /\ At(p, "access")' = 0 /\ At(p, "access") = 0
  BY <1>1, Moves, PcValues DEF Steps
<1>3. FIFO'
  BY DEF FifoInv, FIFO, StoreSize, local
<1>4. Counts(p, c)'
  BY <1>2 DEF Counts, StoreSize, local
<1>5. Kept(p)'
  BY <1>2 DEF Kept, StoreSize, local
<1>6. Carried(p, c)'
  BY <1>1, <1>2 DEF Carried, StoreSize, local
<1> QED BY <1>3, <1>4, <1>5, <1>6 DEF FifoParts

(* The consumer stores cur_size, which the invariant does not mention. *)
LEMMA StoreSizeStep_c ==
  ASSUME NEW p, NEW c, Spsc(p, c), TypeOK, FifoInv, StoreSize(c)
  PROVE  FifoParts(p, c)'
<1> USE SpscFacts
<1>1. ThreadsType /\ p \in Threads /\ c \in Threads /\ pc[c] = "store" /\ Goto(c, "release")
  BY DEF TypeOK, StoreSize, local
<1>2. /\ pc'[c] = "release" /\ pc'[p] = pc[p]
      /\ Claimed(p)' = Claimed(p) /\ At(p, "claim")' = At(p, "claim")
      /\ At(p, "access")' = At(p, "access")
      /\ Claimed(c)' = 1 /\ Claimed(c) = 1
      /\ At(c, "claim")' = 0 /\ At(c, "claim") = 0
      /\ At(c, "access")' = 0 /\ At(c, "access") = 0
  BY <1>1, Moves, PcValues DEF Steps
<1>3. FIFO'
  BY DEF FifoInv, FIFO, StoreSize, local
<1>4. Counts(p, c)'
  BY <1>2 DEF Counts, StoreSize, local
<1>5. Kept(p)'
  BY <1>2 DEF Kept, StoreSize, local
<1>6. Carried(p, c)'
  BY <1>1, <1>2 DEF Carried, StoreSize, local
<1> QED BY <1>3, <1>4, <1>5, <1>6 DEF FifoParts

(* Releasing a token of used keeps the invariant: the item is in its slot. *)
LEMMA PushReleaseStep ==
  ASSUME NEW p, NEW c, Spsc(p, c), TypeOK, FifoInv, PushRelease(p)
  PROVE  FifoParts(p, c)'
<1> USE SpscFacts
<1>1. ThreadsType /\ p \in Threads /\ c \in Threads /\ pc[p] = "release" /\ Goto(p, "idle")
  BY DEF TypeOK, PushRelease
<1>2. /\ pc'[p] = "idle" /\ pc'[c] = pc[c]
      /\ Claimed(c)' = Claimed(c) /\ At(c, "claim")' = At(c, "claim")
      /\ At(c, "access")' = At(c, "access")
      /\ Claimed(p)' = 0 /\ Claimed(p) = 1
      /\ At(p, "claim")' = 0 /\ At(p, "claim") = 0
      /\ At(p, "access")' = 0 /\ At(p, "access") = 0
  BY <1>1, Moves, PcValues DEF Steps
<1>3. FIFO'
  BY DEF FifoInv, FIFO, PushRelease
<1>4. Counts(p, c)'
  <2>1. used < Length /\ used \in Int /\ head_idx \in Int /\ tail_idx \in Int
    <3>1. head_idx \in Int /\ tail_idx \in Int /\ used \in Int
      BY DEF TypeOK, SharedType
    <3>2. tail_idx - head_idx <= Length /\ used = (tail_idx - 1) - (head_idx + At(c, "claim"))
      BY <1>2, SpscWindow DEF Counts
    <3> QED BY <3>1, <3>2, Bits, NumbersAssumption
  <2>2. used' = used + 1
    BY <2>1 DEF PushRelease, Released
  <2>3. used = (tail_idx - 1) - (head_idx + At(c, "claim"))
    BY <1>2 DEF Counts
  <2>4. used' = (tail_idx - 0) - (head_idx + At(c, "claim"))
    BY <2>1, <2>2, <2>3, Bits
  <2> QED BY <1>2, <2>4 DEF Counts, PushRelease
<1>5. Kept(p)'
  BY <1>2 DEF Kept, PushRelease
<1>6. Carried(p, c)'
  BY <1>1, <1>2 DEF Carried, PushRelease, local
<1> QED BY <1>3, <1>4, <1>5, <1>6 DEF FifoParts

(* Claiming the slot at the front keeps the invariant. *)
LEMMA ClaimPopFrontStep ==
  ASSUME NEW p, NEW c, Spsc(p, c), TypeOK, FifoInv, ClaimPopFront(c)
  PROVE  FifoParts(p, c)'
<1> USE SpscFacts
<1>1. ThreadsType /\ p \in Threads /\ c \in Threads /\ pc[c] = "claim" /\ Goto(c, "access")
  BY DEF TypeOK, ClaimPopFront, Claim
<1>2. /\ pc'[c] = "access" /\ pc'[p] = pc[p]
      /\ Claimed(p)' = Claimed(p) /\ At(p, "claim")' = At(p, "claim")
      /\ At(p, "access")' = At(p, "access")
      /\ Claimed(c)' = 1 /\ Claimed(c) = 0
      /\ At(c, "claim")' = 0 /\ At(c, "claim") = 1
      /\ At(c, "access")' = 1 /\ At(c, "access") = 0
  BY <1>1, Moves, PcValues DEF Steps
<1>a. /\ head_idx \in Nat /\ head_idx' = head_idx + 1
      /\ CMod(head_idx) = head_idx % Length
  <2>1. head_idx \in Nat /\ head_idx + 1 <= IntMax /\ tail_idx \in Int
    <3>1. head_idx \in Int /\ tail_idx \in Int
      BY DEF TypeOK, SharedType
    <3>2. /\ 0 <= head_idx /\ head_idx + 1 <= tail_idx - Claimed(p)
          /\ tail_idx <= MaxPushes /\ MaxPushes <= IntMax
      BY <1>2, SpscWindow
    <3> QED BY <3>1, <3>2, Bits, NumbersAssumption
  <2> QED BY <2>1, NumbersAssumption DEF ClaimPopFront, Wrap, CMod
<1>3. FIFO'
  BY DEF FifoInv, FIFO, ClaimPopFront, Claim
<1>4. Counts(p, c)'
  <2>1. used = (tail_idx - Claimed(p)) - (head_idx + 1) /\ head_idx = Len(received)
    BY <1>2, <1>a DEF Counts
  <2>2. used' = (tail_idx' - Claimed(p)') - (head_idx' + At(c, "claim")')
    BY <1>2, <1>a, <2>1, Bits DEF ClaimPopFront, Claim
  <2> QED BY <1>2, <1>a, <2>1, <2>2 DEF Counts, ClaimPopFront, Claim
<1>5. Kept(p)'
  BY <1>2 DEF Kept, ClaimPopFront, Claim
<1>6. Carried(p, c)'
  <2>1. idx'[c] = (head_idx' - 1) % Length
    <3>1. idx'[c] = head_idx % Length /\ head_idx' - 1 = head_idx
      BY <1>1, <1>a DEF ClaimPopFront, Claim, ThreadsType
    <3> QED BY <3>1
  <2>2. /\ tail_idx' = tail_idx /\ sent' = sent
        /\ idx'[p] = idx[p] /\ val'[p] = val[p]
    BY <1>1 DEF ClaimPopFront, Claim, ThreadsType
  <2> QED BY <1>2, <2>1, <2>2 DEF Carried
<1> QED BY <1>3, <1>4, <1>5, <1>6 DEF FifoParts

(* Reading the claimed slot keeps it: the item read is the next one sent. *)
LEMMA ReadStep ==
  ASSUME NEW p, NEW c, Spsc(p, c), TypeOK, FifoInv, Read(c)
  PROVE  FifoParts(p, c)'
<1> USE SpscFacts
<1>1. ThreadsType /\ p \in Threads /\ c \in Threads /\ pc[c] = "access" /\ Goto(c, "load")
  BY DEF TypeOK, Read
<1>2. /\ pc'[c] = "load" /\ pc'[p] = pc[p]
      /\ Claimed(p)' = Claimed(p) /\ At(p, "claim")' = At(p, "claim")
      /\ At(p, "access")' = At(p, "access")
      /\ Claimed(c)' = 1 /\ Claimed(c) = 1
      /\ At(c, "claim")' = 0 /\ At(c, "claim") = 0
      /\ At(c, "access")' = 0 /\ At(c, "access") = 1
  BY <1>1, Moves, PcValues DEF Steps
<1>3. FIFO'
  BY DEF FifoInv, FIFO, Read, shared
<1>4. Counts(p, c)'
  BY <1>2 DEF Counts, Read, shared
<1>5. Kept(p)'
  BY <1>2 DEF Kept, Read, shared
<1>6. Carried(p, c)'
  <2>1. /\ head_idx = Len(received) + 1
        /\ head_idx \in Len(received) + 1 .. Len(sent) - At(p, "access")
    <3>1. head_idx \in Int /\ tail_idx \in Int
      BY DEF TypeOK, SharedType
    <3>2. head_idx = Len(received) + 1 /\ tail_idx = Len(sent)
      BY <1>2 DEF Counts
    <3>3. head_idx <= tail_idx - Claimed(p)
      BY <1>2, <3>1, SpscWindow
    <3> QED BY <3>1, <3>2, <3>3, Bits
  <2>2. idx[c] = (head_idx - 1) % Length /\ idx[c] \in Slots
    <3>1. head_idx - 1 \in Nat
      BY <2>1
    <3> QED BY <1>1, <3>1, SlotOf DEF Carried
  <2>3. items[idx[c]] = sent[head_idx]
    BY <2>1, <2>2 DEF Kept
  <2>4. val'[c] = sent[head_idx] /\ val'[p] = val[p]
    BY <1>1, <2>2, <2>3 DEF Read, ThreadsType
  <2> QED BY <1>1, <1>2, <2>4 DEF Carried, Read, shared
<1> QED BY <1>3, <1>4, <1>5, <1>6 DEF FifoParts

(* Returning the item and its token keeps the invariant. *)
LEMMA PopReleaseStep ==
  ASSUME NEW p, NEW c, Spsc(p, c), TypeOK, FifoInv, PopRelease(c)
  PROVE  FifoParts(p, c)'
<1> USE SpscFacts
<1>1. ThreadsType /\ p \in Threads /\ c \in Threads /\ pc[c] = "release" /\ Goto(c, "idle")
  BY DEF TypeOK, PopRelease
<1>2. /\ pc'[c] = "idle" /\ pc'[p] = pc[p]
      /\ Claimed(p)' = Claimed(p) /\ At(p, "claim")' = At(p, "claim")
      /\ At(p, "access")' = At(p, "access")
      /\ Claimed(c)' = 0 /\ Claimed(c) = 1
      /\ At(c, "claim")' = 0 /\ At(c, "claim") = 0
      /\ At(c, "access")' = 0 /\ At(c, "access") = 0
  BY <1>1, Moves, PcValues DEF Steps
<1>a. /\ head_idx = Len(received) + 1 /\ head_idx <= Len(sent)
      /\ val[c] = sent[head_idx]
  BY <1>1, <1>2, Bits, SpscWindow DEF Counts, Carried, Steps
<1>b. /\ Len(received') = Len(received) + 1
      /\ \A k \in 1 .. Len(received) : received'[k] = received[k]
      /\ received'[Len(received) + 1] = val[c]
      /\ sent' = sent
  BY <1>1 DEF PopRelease, local, TypeOK, HistoryType, ThreadsType
<1>3. FIFO'
  <2> SUFFICES ASSUME NEW k \in 1 .. Len(received')
               PROVE  received'[k] = sent[k]
    BY <1>a, <1>b DEF FIFO, PopRelease
  <2> QED BY <1>a, <1>b DEF FifoInv, FIFO
<1>4. Counts(p, c)'
  <2>1. free < Length /\ free \in Int /\ tail_idx \in Int
    BY <1>2, <1>a, Bits, NumbersAssumption DEF Counts, Steps, TypeOK, SharedType
  <2>2. free' = free + 1
    BY <2>1 DEF PopRelease, Released
  <2> QED BY <1>2, <1>a, <1>b, <2>1, <2>2, Bits, NumbersAssumption DEF Counts, PopRelease, Steps
<1>5. Kept(p)'
  BY <1>2, <1>b DEF Kept, PopRelease, local
<1>6. Carried(p, c)'
  BY <1>1, <1>2 DEF Carried, PopRelease, local
<1> QED BY <1>3, <1>4, <1>5, <1>6 DEF FifoParts

(* Every step keeps the invariant. *)
LEMMA NextFifoInv ==
  ASSUME NEW p, NEW c, Spsc(p, c), TypeOK, FifoInv, [Next]_vars
  PROVE  FifoInv'
<1> USE SpscFacts
<1>1. SUFFICES FifoParts(p, c)'
  BY DEF FifoInv, FifoParts, Spsc
<1>2. CASE UNCHANGED vars
  BY <1>2 DEF vars, shared, local, FifoParts, FifoInv, FIFO, Counts, Kept, Carried,
              Claimed, At
<1>3. CASE Next
  <2> PICK t \in {p, c} : Push(t) \/ Pop(t) \/ Continue(t)
    BY <1>3 DEF Next
  <2>1. CASE Push(t)
    <3>1. PICK o \in PushOps, i \in Items : PushGet(t, o, i)
      BY <2>1 DEF Push
    <3>2. o = "PushBack" /\ t = p
      BY <3>1 DEF PushGet, Spsc
    <3> QED BY <3>1, <3>2, PushGetStep
  <2>2. CASE Pop(t)
    <3>1. t = c /\ PopGet(c, "PopFront")
      BY <2>2 DEF Pop, PopGet, Spsc
    <3> QED BY <3>1, PopGetStep
  <2>3. CASE Continue(t) /\ t = p
    <3>1. \/ ClaimPushBack(p) \/ Write(p) \/ LoadSize(p) \/ StoreSize(p)
          \/ PushRelease(p)
      BY <2>3 DEF Continue, ClaimPushFront, ClaimPopFront, ClaimPopBack, Claim, Read,
                  PopRelease
    <3> QED BY <3>1, ClaimPushBackStep, WriteStep, LoadSizeStep_p, StoreSizeStep_p,
               PushReleaseStep
  <2>4. CASE Continue(t) /\ t = c
    <3>1. \/ ClaimPopFront(c) \/ Read(c) \/ LoadSize(c) \/ StoreSize(c)
          \/ PopRelease(c)
      BY <2>4 DEF Continue, ClaimPushFront, ClaimPushBack, ClaimPopBack, Claim, Write,
                  PushRelease
    <3> QED BY <3>1, ClaimPopFrontStep, ReadStep, LoadSizeStep_c, StoreSizeStep_c,
               PopReleaseStep
  <2> QED BY <2>1, <2>2, <2>3, <2>4
<1> QED BY <1>2, <1>3

(* One producer at the back, one consumer at the front (the file queue of plain
   requests in fs.c): the invariant holds, for every capacity. *)
THEOREM FifoInvariant ==
  ASSUME NEW p, NEW c, Spsc(p, c)
  PROVE  Spec => []FifoInv
<1>1. Init => FifoInv
  BY InitFifoInv
<1>2. TypeOK /\ FifoInv /\ [Next]_vars => FifoInv'
  BY NextFifoInv
<1> QED BY <1>1, <1>2, Typing, PTL DEF Spec

(* The items come out in the order they went in, none lost, none repeated. *)
THEOREM FifoOrder ==
  ASSUME NEW p, NEW c, Spsc(p, c)
  PROVE  Spec => []FIFO
<1>1. FifoInv => FIFO
  BY DEF FifoInv
<1> QED BY <1>1, FifoInvariant, PTL

(* The producer never writes the slot the consumer is reading. *)
THEOREM NoRace ==
  ASSUME NEW p, NEW c, Spsc(p, c)
  PROVE  Spec => []NoSlotRace
<1>1. TypeOK /\ FifoInv => NoSlotRace
  <2> SUFFICES ASSUME TypeOK, FifoInv PROVE NoSlotRace
    OBVIOUS
  <2> USE SpscFacts
  <2>1. ASSUME pc[p] = "access", pc[c] = "access" PROVE idx[p] # idx[c]
    <3>1. /\ head_idx \in Nat /\ tail_idx \in Nat /\ 1 <= head_idx
          /\ head_idx < tail_idx /\ tail_idx - head_idx < Length
      BY <2>1, SpscWindow, NumbersAssumption DEF Counts, Claimed, At
    <3>2. (head_idx - 1) % Length # (tail_idx - 1) % Length
      BY <3>1, SlotsDiffer
    <3> QED BY <2>1, <3>2 DEF Carried
  <2> QED BY <2>1 DEF NoSlotRace
<1> QED BY <1>1, FifoInvariant, Typing, PTL
-----------------------------------------------------------------------------
(* The abstract queue. *)

(* What is left of a sequence after an append. *)
LEMMA SubSeqAppend ==
  ASSUME NEW S, NEW s \in Seq(S), NEW x \in S, NEW m \in 1 .. Len(s) + 1
  PROVE  SubSeq(Append(s, x), m, Len(s) + 1) = Append(SubSeq(s, m, Len(s)), x)
OBVIOUS

(* The rest of a sequence, its head and its tail. *)
LEMMA SubSeqTake ==
  ASSUME NEW S, NEW s \in Seq(S), NEW m \in 1 .. Len(s)
  PROVE  /\ SubSeq(s, m, Len(s)) # << >>
         /\ Head(SubSeq(s, m, Len(s))) = s[m]
         /\ Tail(SubSeq(s, m, Len(s))) = SubSeq(s, m + 1, Len(s))
<1> DEFINE q == SubSeq(s, m, Len(s))
           r == SubSeq(s, m + 1, Len(s))
<1>1. /\ q \in Seq(S) /\ Len(q) = Len(s) - m + 1
      /\ \A k \in 1 .. Len(q) : q[k] = s[m + k - 1]
  OBVIOUS
<1>2. /\ r \in Seq(S) /\ Len(r) = Len(s) - m
      /\ \A k \in 1 .. Len(r) : r[k] = s[m + k]
  OBVIOUS
<1> HIDE DEF q, r
<1>3. q # << >> /\ Head(q) = s[m]
  BY <1>1
<1>4. /\ Tail(q) \in Seq(S) /\ Len(Tail(q)) = Len(q) - 1
      /\ \A k \in 1 .. Len(q) - 1 : Tail(q)[k] = q[k + 1]
  BY <1>1
<1>5. \A k \in 1 .. Len(r) : Tail(q)[k] = r[k]
  <2> TAKE k \in 1 .. Len(r)
  <2>1. k \in 1 .. Len(q) - 1 /\ k + 1 \in 1 .. Len(q) /\ m + (k + 1) - 1 = m + k
    BY <1>1, <1>2
  <2> QED BY <1>1, <1>2, <1>4, <2>1
<1>6. Tail(q) = r
  BY <1>1, <1>2, <1>4, <1>5
<1> QED BY <1>3, <1>6 DEF q, r

(* A claimed push is a Put of the abstract queue. *)
LEMMA ClaimIsPut ==
  ASSUME NEW p, NEW c, Spsc(p, c), TypeOK, FifoInv, ClaimPushBack(p)
  PROVE  BQ!Put(val[p])
<1> DEFINE m == Len(received) + 1
<1>1. pc[p] = "claim" /\ p \in Threads /\ Len(sent) \in Nat /\ Len(received) \in Nat
  BY SpscFacts DEF ClaimPushBack, Claim
<1>2. val[p] \in Items
  BY <1>1, SpscFacts, PushersPush DEF TypeOK
<1>3. sent \in Seq(Items) /\ m \in 1 .. Len(sent) + 1
  BY <1>1 DEF TypeOK, HistoryType, FifoInv, FIFO
<1>4. SubSeq(sent, m, Len(sent))' = Append(SubSeq(sent, m, Len(sent)), val[p])
  <2>1. sent' = Append(sent, val[p]) /\ received' = received
    BY DEF ClaimPushBack, Claim
  <2>2. Len(sent') = Len(sent) + 1
    BY <1>2, <1>3, <2>1
  <2>3. SubSeq(sent, m, Len(sent))' = SubSeq(Append(sent, val[p]), m, Len(sent) + 1)
    BY <2>1, <2>2
  <2> QED BY <1>2, <1>3, <2>3, SubSeqAppend
<1>5. Len(SubSeq(sent, m, Len(sent))) < Length
  <2>1. free = Length - (Len(sent) + 1) + Len(received) /\ free >= 0
    BY <1>1, SpscFacts, PcValues, NumbersAssumption
       DEF Counts, Steps, TypeOK, SharedType
  <2>2. Len(SubSeq(sent, m, Len(sent))) = Len(sent) - Len(received)
    BY <1>1, <1>3
  <2> QED BY <1>1, <2>1, <2>2, NumbersAssumption
<1>6. received' = received
  BY DEF ClaimPushBack, Claim
<1> QED BY <1>4, <1>5, <1>6 DEF BQ!Put

(* A pop that returns is a Take of the abstract queue. *)
LEMMA ReturnIsTake ==
  ASSUME NEW p, NEW c, Spsc(p, c), TypeOK, FifoInv, PopRelease(c)
  PROVE  BQ!Take
<1> DEFINE m == Len(received) + 1
<1>1. pc[c] = "release" /\ Len(sent) \in Nat /\ Len(received) \in Nat
  BY SpscFacts DEF PopRelease
<1>2. m = head_idx /\ val[c] = sent[m] /\ m \in 1 .. Len(sent)
  <2>1. m = head_idx /\ val[c] = sent[head_idx] /\ tail_idx = Len(sent)
    BY <1>1, SpscFacts, PcValues DEF Counts, Carried, Steps
  <2> QED BY <1>1, <2>1, SpscWindow
<1>3. sent \in Seq(Items)
  BY DEF TypeOK, HistoryType
<1>4. /\ sent' = sent /\ received' = Append(received, val[c])
      /\ Len(received') = Len(received) + 1
  BY <1>2, <1>3 DEF PopRelease, local, TypeOK, HistoryType
<1>5. SubSeq(sent, m, Len(sent))' = SubSeq(sent, m + 1, Len(sent))
  BY <1>4
<1> QED BY <1>2, <1>3, <1>4, <1>5, SubSeqTake DEF BQ!Take

(* PushBack and PopFront, called by one thread each, implement the abstract
   FIFO queue of the same capacity. *)
THEOREM Refinement ==
  ASSUME NEW p, NEW c, Spsc(p, c)
  PROVE  Spec => ImplementsBoundedQueue
<1>1. Init => BQ!Init
  BY DEF Init, BQ!Init
<1>2. TypeOK /\ FifoInv /\ [Next]_vars => [BQ!Next]_(BQ!qvars)
  <2> SUFFICES ASSUME TypeOK, FifoInv, [Next]_vars
               PROVE  BQ!Next \/ UNCHANGED <<sent, received>>
    BY DEF BQ!qvars
  <2>1. CASE UNCHANGED vars
    BY <2>1 DEF vars
  <2>2. CASE Next
    <3> PICK t \in Threads : Push(t) \/ Pop(t) \/ Continue(t)
      BY <2>2 DEF Next
    <3>1. CASE ClaimPushBack(t)
      <4>1. t = p
        BY <3>1, SpscFacts DEF ClaimPushBack, Claim
      <4>2. val[p] \in Items
        BY <3>1, <4>1, SpscFacts, PushersPush DEF TypeOK, ClaimPushBack, Claim
      <4> QED BY <3>1, <4>1, <4>2, ClaimIsPut DEF BQ!Next
    <3>2. CASE PopRelease(t)
      <4>1. t = c
        BY <3>2, SpscFacts DEF PopRelease
      <4> QED BY <3>2, <4>1, ReturnIsTake DEF BQ!Next
    <3>3. CASE ClaimPushFront(t)
      BY <3>3, SpscFacts DEF ClaimPushFront, Claim
    <3> QED
      BY <3>1, <3>2, <3>3
         DEF Push, PushGet, Pop, PopGet, Continue, ClaimPopFront, ClaimPopBack, Claim,
             Write, Read, LoadSize, StoreSize, PushRelease
  <2> QED BY <2>1, <2>2
<1> QED BY <1>1, <1>2, FifoInvariant, Typing, PTL DEF Spec, ImplementsBoundedQueue, BQ!Spec
=============================================================================
