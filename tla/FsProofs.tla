------------------------------ MODULE FsProofs ------------------------------
(***************************************************************************)
(* The theorems about Fs, for any requests, any capacity of the queues and *)
(* any failures.  What is proved of the lines at the two queues and of the *)
(* order in them needs that each queue has one producer at a time.         *)
(***************************************************************************)
EXTENDS Fs, FsCodec, NatFacts, FiniteSetTheorems

-----------------------------------------------------------------------------
(* What the operations on a deque return. *)

LEMMA Lengths == QueueLength \in Nat /\ QueueLength >= 1
BY QueueLengthAssumption

LEMMA NextIndexType == ASSUME NEW n \in Nat PROVE NextIndex(n) \in 0 .. QueueLength - 1
BY Lengths, DivMod DEF NextIndex

LEMMA NewDequeType == ASSUME NEW C, Garbage \in C PROVE NewDeque \in Deques(C)
BY Lengths DEF NewDeque, Deques

(* A deque is the record of its fields. *)
LEMMA DequeFields ==
  ASSUME NEW C, NEW d \in Deques(C)
  PROVE  /\ d.used \in 0 .. QueueLength /\ d.free \in 0 .. QueueLength
         /\ d.head \in 0 .. QueueLength - 1 /\ d.tail \in 0 .. QueueLength - 1
         /\ d.slots \in [0 .. QueueLength - 1 -> C]
BY DEF Deques

LEMMA SetUsed ==
  ASSUME NEW C, NEW d \in Deques(C), NEW n \in 0 .. QueueLength
  PROVE  [d EXCEPT !.used = n] \in Deques(C)
BY DEF Deques

LEMMA SetFree ==
  ASSUME NEW C, NEW d \in Deques(C), NEW n \in 0 .. QueueLength
  PROVE  [d EXCEPT !.free = n] \in Deques(C)
BY DEF Deques

LEMMA SetHead ==
  ASSUME NEW C, NEW d \in Deques(C), NEW i \in 0 .. QueueLength - 1
  PROVE  [d EXCEPT !.head = i] \in Deques(C)
BY DEF Deques

LEMMA SetTail ==
  ASSUME NEW C, NEW d \in Deques(C), NEW i \in 0 .. QueueLength - 1
  PROVE  [d EXCEPT !.tail = i] \in Deques(C)
BY DEF Deques

LEMMA PushClaimFields ==
  ASSUME NEW C, NEW d \in Deques(C)
  PROVE  /\ PushClaim(d).used = d.used /\ PushClaim(d).free = d.free - 1
         /\ PushClaim(d).head = d.head /\ PushClaim(d).tail = NextIndex(d.tail)
         /\ PushClaim(d).slots = d.slots
BY DEF PushClaim, Deques

LEMMA PushClaimSteps ==
  ASSUME NEW C, NEW d \in Deques(C)
  PROVE  PushClaim(d) = [[d EXCEPT !.free = @ - 1] EXCEPT !.tail = NextIndex(@)]
BY DEF PushClaim, Deques

LEMMA PushWriteFields ==
  ASSUME NEW C, NEW d \in Deques(C), NEW s, NEW item
  PROVE  /\ PushWrite(d, s, item).used = d.used + 1 /\ PushWrite(d, s, item).free = d.free
         /\ PushWrite(d, s, item).head = d.head /\ PushWrite(d, s, item).tail = d.tail
BY DEF PushWrite, Deques

LEMMA PushWriteSlots ==
  ASSUME NEW C, NEW d \in Deques(C), NEW s \in 0 .. QueueLength - 1, NEW item
  PROVE  /\ PushWrite(d, s, item).slots[s] = item
         /\ \A p \in (0 .. QueueLength - 1) \ {s} : PushWrite(d, s, item).slots[p] = d.slots[p]
BY DEF PushWrite, Deques

LEMMA PopClaimFields ==
  ASSUME NEW C, NEW d \in Deques(C)
  PROVE  /\ PopClaim(d).used = d.used - 1 /\ PopClaim(d).free = d.free
         /\ PopClaim(d).head = NextIndex(d.head) /\ PopClaim(d).tail = d.tail
         /\ PopClaim(d).slots = d.slots
BY DEF PopClaim, Deques

LEMMA PopClaimSteps ==
  ASSUME NEW C, NEW d \in Deques(C)
  PROVE  PopClaim(d) = [[d EXCEPT !.used = @ - 1] EXCEPT !.head = NextIndex(@)]
BY DEF PopClaim, Deques

LEMMA PopReadFields ==
  ASSUME NEW C, NEW d \in Deques(C)
  PROVE  /\ PopRead(d).used = d.used /\ PopRead(d).free = d.free + 1
         /\ PopRead(d).head = d.head /\ PopRead(d).tail = d.tail
         /\ PopRead(d).slots = d.slots
BY DEF PopRead, Deques

LEMMA PushClaimType ==
  ASSUME NEW C, NEW d \in Deques(C), CanPush(d)
  PROVE  PushClaim(d) \in Deques(C)
<1> DEFINE e == [d EXCEPT !.free = @ - 1]
<1>1. e \in Deques(C)
  BY SetFree, DequeFields, Lengths DEF CanPush
<1> HIDE DEF e
<1>2. [e EXCEPT !.tail = NextIndex(@)] \in Deques(C)
  BY <1>1, SetTail, DequeFields, NextIndexType
<1> QED
  BY <1>2, PushClaimSteps DEF e

LEMMA PushWriteTypeIf ==
  ASSUME NEW C, NEW d \in Deques(C), NEW s \in 0 .. QueueLength - 1, NEW item \in C,
         d.used + 1 \in 0 .. QueueLength
  PROVE  PushWrite(d, s, item) \in Deques(C)
BY DEF PushWrite, Deques

LEMMA PushWriteType ==
  ASSUME NEW C, NEW d \in Deques(C), NEW s \in 0 .. QueueLength - 1, NEW item \in C,
         d.used < QueueLength
  PROVE  PushWrite(d, s, item) \in Deques(C)
<1>1. d.used + 1 \in 0 .. QueueLength
  BY DequeFields, Lengths
<1> QED
  BY <1>1, PushWriteTypeIf

LEMMA PopClaimType ==
  ASSUME NEW C, NEW d \in Deques(C), CanPop(d)
  PROVE  PopClaim(d) \in Deques(C)
<1> DEFINE e == [d EXCEPT !.used = @ - 1]
<1>1. e \in Deques(C)
  BY SetUsed, DequeFields, Lengths DEF CanPop
<1> HIDE DEF e
<1>2. [e EXCEPT !.head = NextIndex(@)] \in Deques(C)
  BY <1>1, SetHead, DequeFields, NextIndexType
<1> QED
  BY <1>2, PopClaimSteps DEF e

LEMMA PopReadType ==
  ASSUME NEW C, NEW d \in Deques(C), d.free < QueueLength
  PROVE  PopRead(d) \in Deques(C)
<1>1. d.free + 1 \in 0 .. QueueLength
  BY DequeFields, Lengths
<1> QED
  BY <1>1, SetFree DEF PopRead

-----------------------------------------------------------------------------
(* Typing.  The tokens of a queue that are not in its semaphores are with the *)
(* threads inside an operation.                                               *)

ClientPushes(q) ==
  \/ pc["client"] = "submit" /\ q = FirstQueue(cur["client"])
  \/ pc["client"] = "stopCompress" /\ q = "compress"
  \/ pc["client"] = "stopFile" /\ q = "file"

WorkerPushes(q) == pc[Other(q)] = "handover"

Bit(b) == IF b THEN 1 ELSE 0

Away(q) == Bit(pc[q] = "fetch") + Bit(ClientPushes(q)) + Bit(WorkerPushes(q))

Tokens == \A q \in Queues : queue[q].used + queue[q].free + Away(q) = QueueLength

TypeInv == TypeOK /\ Tokens

LEMMA Names ==
  /\ Queues = {"file", "compress"} /\ Workers = Queues
  /\ \A t \in Workers : Other(t) \in Workers /\ Other(t) # t /\ Other(Other(t)) = t
  /\ \A t \in Workers : t \in Threads /\ t # "client"
  /\ "client" \in Threads
  /\ \A t \in Threads : t \in Workers \/ t = "client"
  /\ \A r : FirstQueue(r) \in Queues
BY DEF Queues, Workers, Threads, Other, FirstQueue

LEMMA BitType == \A b : Bit(b) \in {0, 1}
BY DEF Bit

LEMMA AwayType == \A q : Away(q) \in 0 .. 3
BY DEF Away, Bit

LEMMA AwayTypeNext == \A q : Away(q)' \in 0 .. 3
BY DEF Away, Bit

LEMMA FetchAway == ASSUME NEW q, pc[q] = "fetch" PROVE Away(q) > 0
<1>1. Bit(pc[q] = "fetch") = 1
  BY DEF Bit
<1> QED
  BY <1>1, BitType DEF Away

LEMMA PushAway == ASSUME NEW q, ClientPushes(q) \/ WorkerPushes(q) PROVE Away(q) > 0
<1>1. Bit(ClientPushes(q)) = 1 \/ Bit(WorkerPushes(q)) = 1
  BY DEF Bit
<1> QED
  BY <1>1, BitType DEF Away

LEMMA ItemFacts ==
  /\ NULL \in Items /\ Garbage \in Items /\ Requests \subseteq Items
  /\ NULL \notin Requests /\ Garbage \notin Requests /\ NULL # Garbage
BY RequestsAssumption DEF Items

LEMMA QueueType ==
  ASSUME TypeInv, NEW q \in Queues
  PROVE  /\ queue[q] \in Deques(Items)
         /\ queue[q].used \in 0 .. QueueLength /\ queue[q].free \in 0 .. QueueLength
         /\ queue[q].head \in 0 .. QueueLength - 1 /\ queue[q].tail \in 0 .. QueueLength - 1
         /\ queue[q].slots \in [0 .. QueueLength - 1 -> Items]
<1>1. queue[q] \in Deques(Items)
  BY DEF TypeInv, TypeOK
<1> QED
  BY <1>1, DequeFields

(* The deques after a thread has claimed a slot. *)
LEMMA StartPushQueue ==
  ASSUME TypeInv, NEW t \in Threads, NEW q \in Queues, NEW item \in Items,
         StartPush(t, q, item)
  PROVE  /\ queue' = [queue EXCEPT ![q] = PushClaim(queue[q])]
         /\ queue' \in [Queues -> Deques(Items)]
         /\ slot' \in [Threads -> 0 .. QueueLength - 1]
         /\ cur' \in [Threads -> Items]
<1>1. PushClaim(queue[q]) \in Deques(Items)
  BY QueueType, PushClaimType DEF StartPush
<1> QED
  BY <1>1, QueueType DEF StartPush, TypeInv, TypeOK

LEMMA EndPushQueue ==
  ASSUME TypeInv, NEW t \in Threads, NEW q \in Queues, EndPush(t, q),
         Away(q) > 0
  PROVE  /\ queue' = [queue EXCEPT ![q] = PushWrite(queue[q], slot[t], cur[t])]
         /\ queue' \in [Queues -> Deques(Items)]
<1>1. queue[q].used < QueueLength
  BY QueueType, Lengths, AwayType DEF TypeInv, Tokens
<1>2. PushWrite(queue[q], slot[t], cur[t]) \in Deques(Items)
  BY <1>1, QueueType, PushWriteType DEF TypeInv, TypeOK
<1> QED
  BY <1>2 DEF EndPush, TypeInv, TypeOK

LEMMA PopQueue ==
  ASSUME TypeInv, NEW t \in Workers, Pop(t)
  PROVE  /\ queue' = [queue EXCEPT ![t] = PopClaim(queue[t])]
         /\ queue' \in [Queues -> Deques(Items)]
         /\ slot' \in [Threads -> 0 .. QueueLength - 1]
<1>1. PopClaim(queue[t]) \in Deques(Items)
  BY Names, QueueType, PopClaimType DEF Pop
<1> QED
  BY <1>1, Names, QueueType DEF Pop, TypeInv, TypeOK

LEMMA FetchQueue ==
  ASSUME TypeInv, NEW t \in Workers, Fetch(t)
  PROVE  /\ queue' = [queue EXCEPT ![t] = PopRead(queue[t])]
         /\ queue' \in [Queues -> Deques(Items)]
         /\ cur' \in [Threads -> Items]
<1>1. queue[t].free < QueueLength
  <2>1. Away(t) > 0 /\ t \in Queues
    BY FetchAway, Names DEF Fetch
  <2> QED
    BY <2>1, QueueType, Lengths, AwayType DEF TypeInv, Tokens
<1>2. PopRead(queue[t]) \in Deques(Items)
  BY <1>1, Names, QueueType, PopReadType
<1>3. queue[t].slots[slot[t]] \in Items
  BY Names, QueueType DEF TypeInv, TypeOK
<1> QED
  BY <1>2, <1>3, Names DEF Fetch, TypeInv, TypeOK

(* How the number of threads inside an operation of a queue changes. *)
LEMMA AwaySame ==
  ASSUME NEW q, pc'[q] = "fetch" <=> pc[q] = "fetch",
         ClientPushes(q)' <=> ClientPushes(q), WorkerPushes(q)' <=> WorkerPushes(q)
  PROVE  Away(q)' = Away(q)
BY DEF Away, Bit

LEMMA AwayFetch ==
  ASSUME NEW q, ClientPushes(q)' <=> ClientPushes(q), WorkerPushes(q)' <=> WorkerPushes(q),
         pc[q] # "fetch", pc'[q] = "fetch"
  PROVE  Away(q)' = Away(q) + 1
BY DEF Away, Bit

LEMMA AwayFetched ==
  ASSUME NEW q, ClientPushes(q)' <=> ClientPushes(q), WorkerPushes(q)' <=> WorkerPushes(q),
         pc[q] = "fetch", pc'[q] # "fetch"
  PROVE  Away(q)' + 1 = Away(q)
BY DEF Away, Bit

LEMMA AwayClient ==
  ASSUME NEW q, pc'[q] = "fetch" <=> pc[q] = "fetch", WorkerPushes(q)' <=> WorkerPushes(q),
         ~ClientPushes(q), ClientPushes(q)'
  PROVE  Away(q)' = Away(q) + 1
BY DEF Away, Bit

LEMMA AwayClientDone ==
  ASSUME NEW q, pc'[q] = "fetch" <=> pc[q] = "fetch", WorkerPushes(q)' <=> WorkerPushes(q),
         ClientPushes(q), ~ClientPushes(q)'
  PROVE  Away(q)' + 1 = Away(q)
BY DEF Away, Bit

LEMMA AwayWorker ==
  ASSUME NEW q, pc'[q] = "fetch" <=> pc[q] = "fetch", ClientPushes(q)' <=> ClientPushes(q),
         ~WorkerPushes(q), WorkerPushes(q)'
  PROVE  Away(q)' = Away(q) + 1
BY DEF Away, Bit

LEMMA AwayWorkerDone ==
  ASSUME NEW q, pc'[q] = "fetch" <=> pc[q] = "fetch", ClientPushes(q)' <=> ClientPushes(q),
         WorkerPushes(q), ~WorkerPushes(q)'
  PROVE  Away(q)' + 1 = Away(q)
BY DEF Away, Bit

LEMMA CountType ==
  ASSUME TypeInv, NEW q \in Queues
  PROVE  queue[q].used \in Int /\ queue[q].free \in Int /\ Away(q) \in Int
BY QueueType, AwayType, Lengths

(* The tokens of one queue after an operation on it. *)
LEMMA TokensClaimed ==
  ASSUME TypeInv, NEW q \in Queues, CanPush(queue[q]),
         queue'[q] = PushClaim(queue[q]), Away(q)' = Away(q) + 1
  PROVE  queue'[q].used + queue'[q].free + Away(q)' = QueueLength
<1>1. queue'[q].used = queue[q].used /\ queue'[q].free = queue[q].free - 1
  <2>1. queue[q] \in Deques(Items)
    BY QueueType
  <2> QED
    BY <2>1, PushClaimFields
<1>2. queue[q].used + queue[q].free + Away(q) = QueueLength
  BY DEF TypeInv, Tokens
<1> QED
  BY <1>1, <1>2, CountType

LEMMA TokensPopped ==
  ASSUME TypeInv, NEW q \in Queues, CanPop(queue[q]),
         queue'[q] = PopClaim(queue[q]), Away(q)' = Away(q) + 1
  PROVE  queue'[q].used + queue'[q].free + Away(q)' = QueueLength
<1>1. queue'[q].used = queue[q].used - 1 /\ queue'[q].free = queue[q].free
  <2>1. queue[q] \in Deques(Items)
    BY QueueType
  <2> QED
    BY <2>1, PopClaimFields
<1>2. queue[q].used + queue[q].free + Away(q) = QueueLength
  BY DEF TypeInv, Tokens
<1> QED
  BY <1>1, <1>2, CountType

LEMMA TokensWritten ==
  ASSUME TypeInv, NEW q \in Queues, NEW s, NEW item, Away(q)' \in 0 .. 3,
         queue'[q] = PushWrite(queue[q], s, item), Away(q)' + 1 = Away(q)
  PROVE  queue'[q].used + queue'[q].free + Away(q)' = QueueLength
<1>1. queue'[q].used = queue[q].used + 1 /\ queue'[q].free = queue[q].free
  <2>1. queue[q] \in Deques(Items)
    BY QueueType
  <2> QED
    BY <2>1, PushWriteFields
<1>2. queue[q].used + queue[q].free + Away(q) = QueueLength
  BY DEF TypeInv, Tokens
<1> QED
  BY <1>1, <1>2, CountType

LEMMA TokensRead ==
  ASSUME TypeInv, NEW q \in Queues, Away(q)' \in 0 .. 3,
         queue'[q] = PopRead(queue[q]), Away(q)' + 1 = Away(q)
  PROVE  queue'[q].used + queue'[q].free + Away(q)' = QueueLength
<1>1. queue'[q].used = queue[q].used /\ queue'[q].free = queue[q].free + 1
  <2>1. queue[q] \in Deques(Items)
    BY QueueType
  <2> QED
    BY <2>1, PopReadFields
<1>2. queue[q].used + queue[q].free + Away(q) = QueueLength
  BY DEF TypeInv, Tokens
<1> QED
  BY <1>1, <1>2, CountType

LEMMA TokensSame ==
  ASSUME TypeInv, NEW q \in Queues, queue'[q] = queue[q], Away(q)' = Away(q)
  PROVE  queue'[q].used + queue'[q].free + Away(q)' = QueueLength
BY DEF TypeInv, Tokens

DataOK ==
  /\ work \in [Requests -> WorkFields]
  /\ mem \in [Requests -> [Blocks -> {"none", "fs", "app", "freed", "corrupt"}]]
  /\ order \in Seq(Requests)

(* A thread goes on to a step of its own. *)
LEMMA GotoType ==
  ASSUME TypeInv, NEW t \in Threads, NEW step \in ClientSteps \cup WorkerSteps, Goto(t, step),
         t = "client" => step \in ClientSteps, t \in Workers => step \in WorkerSteps
  PROVE  /\ pc' \in [Threads -> ClientSteps \cup WorkerSteps]
         /\ pc'["client"] \in ClientSteps /\ \A w \in Workers : pc'[w] \in WorkerSteps
         /\ pc'[t] = step /\ \A o \in Threads \ {t} : pc'[o] = pc[o]
<1>1. pc \in [Threads -> ClientSteps \cup WorkerSteps]
  BY DEF TypeInv, TypeOK
<1>2. pc' = [pc EXCEPT ![t] = step]
  BY DEF Goto
<1>3. pc'[t] = step /\ \A o \in Threads \ {t} : pc'[o] = pc[o]
  BY <1>1, <1>2
<1>4. pc' \in [Threads -> ClientSteps \cup WorkerSteps]
  BY <1>1, <1>2
<1>5. pc'["client"] \in ClientSteps
  BY <1>3, Names DEF TypeInv, TypeOK
<1>6. \A w \in Workers : pc'[w] \in WorkerSteps
  BY <1>3, Names DEF TypeInv, TypeOK
<1> QED
  BY <1>3, <1>4, <1>5, <1>6

(* What the client's step leaves alone in the bookkeeping of a queue. *)
LEMMA WorkersStay ==
  ASSUME NEW step, NEW q \in Queues, TypeInv, Goto("client", step)
  PROVE  /\ pc'[q] = pc[q] /\ pc'[Other(q)] = pc[Other(q)] /\ pc'["client"] = step
         /\ pc'[q] = "fetch" <=> pc[q] = "fetch"
         /\ WorkerPushes(q)' <=> WorkerPushes(q)
<1>1. q \in Threads /\ Other(q) \in Threads /\ q # "client" /\ Other(q) # "client"
  BY Names
<1>2. pc' = [pc EXCEPT !["client"] = step] /\ DOMAIN pc = Threads
  BY DEF Goto, TypeInv, TypeOK
<1>3. pc'[q] = pc[q] /\ pc'[Other(q)] = pc[Other(q)] /\ pc'["client"] = step
  BY <1>1, <1>2, Names
<1> QED
  BY <1>3 DEF WorkerPushes

(* The client claims a slot. *)
LEMMA ClientStartType ==
  ASSUME TypeInv, NEW q \in Queues, NEW item \in Items, NEW step \in ClientSteps,
         StartPush("client", q, item), Goto("client", step), alive' = alive, DataOK',
         \A p \in Queues : ~ClientPushes(p),
         \A p \in Queues : ClientPushes(p)' <=> p = q
  PROVE  TypeInv'
<1>1. /\ queue' = [queue EXCEPT ![q] = PushClaim(queue[q])]
      /\ queue' \in [Queues -> Deques(Items)]
      /\ slot' \in [Threads -> 0 .. QueueLength - 1] /\ cur' \in [Threads -> Items]
  BY StartPushQueue, Names
<1>2. /\ pc' \in [Threads -> ClientSteps \cup WorkerSteps]
      /\ pc'["client"] \in ClientSteps /\ \A w \in Workers : pc'[w] \in WorkerSteps
  BY GotoType, Names
<1>3. ASSUME NEW p \in Queues
      PROVE  queue'[p].used + queue'[p].free + Away(p)' = QueueLength
  <2>1. CASE p = q
    <3>1. queue'[p] = PushClaim(queue[p])
      BY <1>1, <2>1 DEF TypeInv, TypeOK
    <3>2. Away(p)' = Away(p) + 1
      BY <2>1, WorkersStay, AwayClient
    <3> QED
      BY <3>1, <3>2, <2>1, TokensClaimed DEF StartPush
  <2>2. CASE p # q
    <3>1. queue'[p] = queue[p]
      BY <1>1, <2>2 DEF TypeInv, TypeOK
    <3>2. Away(p)' = Away(p)
      BY <2>2, WorkersStay, AwaySame
    <3> QED
      BY <3>1, <3>2, TokensSame
  <2> QED
    BY <2>1, <2>2
<1> QED
  BY <1>1, <1>2, <1>3 DEF TypeInv, TypeOK, Tokens, DataOK

(* The client writes the slot it has claimed. *)
LEMMA ClientEndType ==
  ASSUME TypeInv, NEW q \in Queues, NEW step \in ClientSteps,
         EndPush("client", q), Goto("client", step),
         \A p \in Queues : ClientPushes(p) <=> p = q,
         \A p \in Queues : ~ClientPushes(p)'
  PROVE  TypeInv'
<1>1. /\ queue' = [queue EXCEPT ![q] = PushWrite(queue[q], slot["client"], cur["client"])]
      /\ queue' \in [Queues -> Deques(Items)]
  BY EndPushQueue, PushAway, Names
<1>2. /\ pc' \in [Threads -> ClientSteps \cup WorkerSteps]
      /\ pc'["client"] \in ClientSteps /\ \A w \in Workers : pc'[w] \in WorkerSteps
  BY GotoType, Names
<1>3. ASSUME NEW p \in Queues
      PROVE  queue'[p].used + queue'[p].free + Away(p)' = QueueLength
  <2>1. CASE p = q
    <3>1. queue'[p] = PushWrite(queue[p], slot["client"], cur["client"])
      BY <1>1, <2>1 DEF TypeInv, TypeOK
    <3>2. Away(p)' + 1 = Away(p) /\ Away(p)' \in 0 .. 3
      BY <2>1, WorkersStay, AwayClientDone, AwayTypeNext
    <3> QED
      BY <3>1, <3>2, <2>1, TokensWritten
  <2>2. CASE p # q
    <3>1. queue'[p] = queue[p]
      BY <1>1, <2>2 DEF TypeInv, TypeOK
    <3>2. Away(p)' = Away(p)
      BY <2>2, WorkersStay, AwaySame
    <3> QED
      BY <3>1, <3>2, TokensSame
  <2> QED
    BY <2>1, <2>2
<1> QED
  BY <1>1, <1>2, <1>3 DEF TypeInv, TypeOK, Tokens, EndPush

(* What a worker's step leaves alone in the bookkeeping of the queues. *)
LEMMA OthersStay ==
  ASSUME NEW t \in Workers, NEW step \in WorkerSteps, TypeInv, Goto(t, step),
         cur'["client"] = cur["client"]
  PROVE  /\ pc'[t] = step /\ pc'[Other(t)] = pc[Other(t)] /\ pc'["client"] = pc["client"]
         /\ \A q \in Queues : ClientPushes(q)' <=> ClientPushes(q)
<1>1. t \in Threads /\ Other(t) \in Threads /\ t # "client" /\ Other(t) # t
  BY Names
<1>2. pc' = [pc EXCEPT ![t] = step] /\ DOMAIN pc = Threads
  BY DEF Goto, TypeInv, TypeOK
<1>3. pc'[t] = step /\ pc'[Other(t)] = pc[Other(t)] /\ pc'["client"] = pc["client"]
  BY <1>1, <1>2, Names
<1> QED
  BY <1>3 DEF ClientPushes

LEMMA TwoWorkers ==
  ASSUME NEW t \in Workers
  PROVE  /\ \A q \in Queues : q # t => q = Other(t)
         /\ \A q \in Queues : q # Other(t) => q = t
         /\ t \in Queues /\ Other(t) \in Queues /\ Other(t) # t /\ Other(Other(t)) = t
         /\ t \in Threads /\ Other(t) \in Threads /\ t # "client"
BY DEF Workers, Queues, Other, Threads

LEMMA PopType ==
  ASSUME TypeInv, NEW t \in Workers, Pop(t)
  PROVE  TypeInv'
<1>1. /\ queue' = [queue EXCEPT ![t] = PopClaim(queue[t])]
      /\ queue' \in [Queues -> Deques(Items)]
      /\ slot' \in [Threads -> 0 .. QueueLength - 1]
  BY PopQueue
<1>2. Goto(t, "fetch") /\ "fetch" \in WorkerSteps /\ cur' = cur /\ pc[t] = "pop"
  BY DEF Pop, WorkerSteps
<1>3. /\ pc' \in [Threads -> ClientSteps \cup WorkerSteps]
      /\ pc'["client"] \in ClientSteps /\ \A w \in Workers : pc'[w] \in WorkerSteps
  BY <1>2, GotoType, TwoWorkers
<1>4. /\ pc'[t] = "fetch" /\ pc'[Other(t)] = pc[Other(t)]
      /\ \A q \in Queues : ClientPushes(q)' <=> ClientPushes(q)
  BY <1>2, OthersStay
<1>5. \A q \in Queues : WorkerPushes(q)' <=> WorkerPushes(q)
  BY <1>2, <1>4, TwoWorkers DEF WorkerPushes
<1>6. queue'[t].used + queue'[t].free + Away(t)' = QueueLength
  <2>1. queue'[t] = PopClaim(queue[t]) /\ CanPop(queue[t])
    BY <1>1, TwoWorkers DEF TypeInv, TypeOK, Pop
  <2>2. Away(t)' = Away(t) + 1
    BY <1>2, <1>4, <1>5, AwayFetch, TwoWorkers
  <2> QED
    BY <2>1, <2>2, TwoWorkers, TokensPopped
<1>7. queue'[Other(t)].used + queue'[Other(t)].free + Away(Other(t))' = QueueLength
  <2>1. queue'[Other(t)] = queue[Other(t)]
    BY <1>1, TwoWorkers DEF TypeInv, TypeOK
  <2>2. Away(Other(t))' = Away(Other(t))
    BY <1>4, <1>5, AwaySame, TwoWorkers
  <2> QED
    BY <2>1, <2>2, TwoWorkers, TokensSame
<1>8. Tokens'
  BY <1>6, <1>7, TwoWorkers DEF Tokens
<1>9. alive' \in [Queues -> BOOLEAN] /\ cur' \in [Threads -> Items] /\ DataOK'
  BY DEF Pop, TypeInv, TypeOK, DataOK
<1> QED
  BY <1>1, <1>3, <1>8, <1>9 DEF TypeInv, TypeOK, DataOK

LEMMA FetchType ==
  ASSUME TypeInv, NEW t \in Workers, Fetch(t)
  PROVE  TypeInv'
<1>1. /\ queue' = [queue EXCEPT ![t] = PopRead(queue[t])]
      /\ queue' \in [Queues -> Deques(Items)]
      /\ cur' \in [Threads -> Items]
  BY FetchQueue
<1>2. PICK step \in {"exited", "run"} : Goto(t, step)
  BY DEF Fetch
<1>3. pc[t] = "fetch" /\ cur'["client"] = cur["client"] /\ step \in WorkerSteps /\ step # "fetch"
  BY TwoWorkers DEF Fetch, TypeInv, TypeOK, WorkerSteps
<1>4. /\ pc' \in [Threads -> ClientSteps \cup WorkerSteps]
      /\ pc'["client"] \in ClientSteps /\ \A w \in Workers : pc'[w] \in WorkerSteps
  BY <1>2, <1>3, GotoType, TwoWorkers
<1>5. /\ pc'[t] = step /\ pc'[Other(t)] = pc[Other(t)]
      /\ \A q \in Queues : ClientPushes(q)' <=> ClientPushes(q)
  BY <1>2, <1>3, OthersStay
<1>6. \A q \in Queues : WorkerPushes(q)' <=> WorkerPushes(q)
  BY <1>2, <1>3, <1>5, TwoWorkers DEF WorkerPushes
<1>7. queue'[t].used + queue'[t].free + Away(t)' = QueueLength
  <2>1. queue'[t] = PopRead(queue[t])
    BY <1>1, TwoWorkers DEF TypeInv, TypeOK
  <2>2. Away(t)' + 1 = Away(t) /\ Away(t)' \in 0 .. 3
    BY <1>3, <1>5, <1>6, AwayFetched, AwayTypeNext, TwoWorkers
  <2> QED
    BY <2>1, <2>2, TwoWorkers, TokensRead
<1>8. queue'[Other(t)].used + queue'[Other(t)].free + Away(Other(t))' = QueueLength
  <2>1. queue'[Other(t)] = queue[Other(t)]
    BY <1>1, TwoWorkers DEF TypeInv, TypeOK
  <2>2. Away(Other(t))' = Away(Other(t))
    BY <1>5, <1>6, AwaySame, TwoWorkers
  <2> QED
    BY <2>1, <2>2, TwoWorkers, TokensSame
<1>9. Tokens'
  BY <1>7, <1>8, TwoWorkers DEF Tokens
<1>10. /\ alive' \in [Queues -> BOOLEAN] /\ slot' \in [Threads -> 0 .. QueueLength - 1]
       /\ DataOK'
  BY DEF Fetch, TypeInv, TypeOK, DataOK
<1> QED
  BY <1>1, <1>4, <1>9, <1>10 DEF TypeInv, TypeOK, DataOK

LEMMA HandOverType ==
  ASSUME TypeInv, NEW t \in Workers, HandOver(t)
  PROVE  TypeInv'
<1> DEFINE q == Other(t)
<1>1. StartPush(t, q, cur[t]) /\ Goto(t, "handover") /\ pc[t] = "push"
  BY DEF HandOver
<1>2. cur[t] \in Items /\ "handover" \in WorkerSteps
  BY TwoWorkers DEF TypeInv, TypeOK, WorkerSteps
<1>3. /\ queue' = [queue EXCEPT ![q] = PushClaim(queue[q])]
      /\ queue' \in [Queues -> Deques(Items)]
      /\ slot' \in [Threads -> 0 .. QueueLength - 1] /\ cur' \in [Threads -> Items]
  BY <1>1, <1>2, TwoWorkers, StartPushQueue
<1>4. cur'["client"] = cur["client"]
  BY <1>1, TwoWorkers DEF StartPush, TypeInv, TypeOK
<1>5. /\ pc' \in [Threads -> ClientSteps \cup WorkerSteps]
      /\ pc'["client"] \in ClientSteps /\ \A w \in Workers : pc'[w] \in WorkerSteps
  BY <1>1, <1>2, GotoType, TwoWorkers
<1>6. /\ pc'[t] = "handover" /\ pc'[q] = pc[q]
      /\ \A p \in Queues : ClientPushes(p)' <=> ClientPushes(p)
  BY <1>1, <1>2, <1>4, OthersStay
<1>7. ~WorkerPushes(q) /\ WorkerPushes(q)' /\ (WorkerPushes(t)' <=> WorkerPushes(t))
  BY <1>1, <1>6, TwoWorkers DEF WorkerPushes
<1>8. queue'[q].used + queue'[q].free + Away(q)' = QueueLength
  <2>1. queue'[q] = PushClaim(queue[q]) /\ CanPush(queue[q])
    BY <1>1, <1>3, TwoWorkers DEF TypeInv, TypeOK, StartPush
  <2>2. Away(q)' = Away(q) + 1
    BY <1>6, <1>7, AwayWorker, TwoWorkers
  <2> QED
    BY <2>1, <2>2, TwoWorkers, TokensClaimed
<1>9. queue'[t].used + queue'[t].free + Away(t)' = QueueLength
  <2>1. queue'[t] = queue[t]
    BY <1>3, TwoWorkers DEF TypeInv, TypeOK
  <2>2. Away(t)' = Away(t)
    BY <1>1, <1>6, <1>7, AwaySame, TwoWorkers
  <2> QED
    BY <2>1, <2>2, TwoWorkers, TokensSame
<1>10. Tokens'
  BY <1>8, <1>9, TwoWorkers DEF Tokens
<1>11. alive' \in [Queues -> BOOLEAN] /\ DataOK'
  BY DEF HandOver, TypeInv, TypeOK, DataOK
<1> QED
  BY <1>3, <1>5, <1>10, <1>11 DEF TypeInv, TypeOK, DataOK

LEMMA HandOverWriteType ==
  ASSUME TypeInv, NEW t \in Workers, HandOverWrite(t)
  PROVE  TypeInv'
<1> DEFINE q == Other(t)
<1>1. EndPush(t, q) /\ Goto(t, "pop") /\ pc[t] = "handover"
  BY DEF HandOverWrite
<1>2. "pop" \in WorkerSteps /\ cur' = cur
  BY <1>1 DEF EndPush, WorkerSteps
<1>3. Away(q) > 0
  BY <1>1, PushAway, TwoWorkers DEF WorkerPushes
<1>4. /\ queue' = [queue EXCEPT ![q] = PushWrite(queue[q], slot[t], cur[t])]
      /\ queue' \in [Queues -> Deques(Items)]
  BY <1>1, <1>3, TwoWorkers, EndPushQueue
<1>5. /\ pc' \in [Threads -> ClientSteps \cup WorkerSteps]
      /\ pc'["client"] \in ClientSteps /\ \A w \in Workers : pc'[w] \in WorkerSteps
  BY <1>1, <1>2, GotoType, TwoWorkers
<1>6. /\ pc'[t] = "pop" /\ pc'[q] = pc[q]
      /\ \A p \in Queues : ClientPushes(p)' <=> ClientPushes(p)
  BY <1>1, <1>2, OthersStay
<1>7. WorkerPushes(q) /\ ~WorkerPushes(q)' /\ (WorkerPushes(t)' <=> WorkerPushes(t))
  BY <1>1, <1>6, TwoWorkers DEF WorkerPushes
<1>8. queue'[q].used + queue'[q].free + Away(q)' = QueueLength
  <2>1. queue'[q] = PushWrite(queue[q], slot[t], cur[t])
    BY <1>1, <1>4, TwoWorkers DEF TypeInv, TypeOK
  <2>2. Away(q)' + 1 = Away(q) /\ Away(q)' \in 0 .. 3
    BY <1>6, <1>7, AwayWorkerDone, AwayTypeNext, TwoWorkers
  <2> QED
    BY <2>1, <2>2, TwoWorkers, TokensWritten
<1>9. queue'[t].used + queue'[t].free + Away(t)' = QueueLength
  <2>1. queue'[t] = queue[t]
    BY <1>4, TwoWorkers DEF TypeInv, TypeOK
  <2>2. Away(t)' = Away(t)
    BY <1>1, <1>6, <1>7, AwaySame, TwoWorkers
  <2> QED
    BY <2>1, <2>2, TwoWorkers, TokensSame
<1>10. Tokens'
  BY <1>8, <1>9, TwoWorkers DEF Tokens
<1>11. alive' \in [Queues -> BOOLEAN] /\ DataOK' /\ cur' \in [Threads -> Items]
       /\ slot' \in [Threads -> 0 .. QueueLength - 1]
  BY <1>1 DEF EndPush, TypeInv, TypeOK, DataOK
<1> QED
  BY <1>4, <1>5, <1>10, <1>11 DEF TypeInv, TypeOK, DataOK

(* The client between two operations on a queue; a handler of a worker. *)
LEMMA NoQueueType ==
  ASSUME TypeInv, queue' = queue, cur' = cur, slot' = slot, alive' \in [Queues -> BOOLEAN],
         DataOK', pc' \in [Threads -> ClientSteps \cup WorkerSteps],
         pc'["client"] \in ClientSteps, \A w \in Workers : pc'[w] \in WorkerSteps,
         \A q \in Queues : pc'[q] = "fetch" <=> pc[q] = "fetch",
         \A q \in Queues : ClientPushes(q)' <=> ClientPushes(q),
         \A q \in Queues : WorkerPushes(q)' <=> WorkerPushes(q)
  PROVE  TypeInv'
<1>1. ASSUME NEW q \in Queues
      PROVE  queue'[q].used + queue'[q].free + Away(q)' = QueueLength
  BY AwaySame, TokensSame
<1> QED
  BY <1>1 DEF TypeInv, TypeOK, DataOK, Tokens

LEMMA HandlerType ==
  ASSUME TypeInv, NEW t \in Workers, NEW step \in {"pop", "push"}, pc[t] = "run",
         Goto(t, step), HandlerFrame, DataOK'
  PROVE  TypeInv'
<1>1. step \in WorkerSteps /\ cur' = cur /\ queue' = queue /\ slot' = slot /\ alive' = alive
  BY DEF WorkerSteps, HandlerFrame
<1>2. /\ pc' \in [Threads -> ClientSteps \cup WorkerSteps]
      /\ pc'["client"] \in ClientSteps /\ \A w \in Workers : pc'[w] \in WorkerSteps
  BY <1>1, GotoType, TwoWorkers
<1>3. /\ pc'[t] = step /\ pc'[Other(t)] = pc[Other(t)]
      /\ \A q \in Queues : ClientPushes(q)' <=> ClientPushes(q)
  BY <1>1, OthersStay
<1>4. \A q \in Queues : pc'[q] = "fetch" <=> pc[q] = "fetch"
  BY <1>3, TwoWorkers
<1>5. \A q \in Queues : WorkerPushes(q)' <=> WorkerPushes(q)
  BY <1>3, TwoWorkers DEF WorkerPushes
<1> QED
  BY <1>1, <1>2, <1>3, <1>4, <1>5, NoQueueType DEF TypeInv, TypeOK

LEMMA JoinType ==
  ASSUME TypeInv, NEW step \in ClientSteps, Goto("client", step), alive' \in [Queues -> BOOLEAN],
         UNCHANGED <<queue, cur, slot, work, mem, order>>,
         \A q \in Queues : ~ClientPushes(q), \A q \in Queues : ~ClientPushes(q)'
  PROVE  TypeInv'
<1>1. /\ pc' \in [Threads -> ClientSteps \cup WorkerSteps]
      /\ pc'["client"] \in ClientSteps /\ \A w \in Workers : pc'[w] \in WorkerSteps
  BY GotoType, Names
<1>2. \A q \in Queues : pc'[q] = "fetch" <=> pc[q] = "fetch"
  BY WorkersStay
<1>3. \A q \in Queues : WorkerPushes(q)' <=> WorkerPushes(q)
  BY WorkersStay
<1>4. DataOK'
  BY DEF DataOK, TypeInv, TypeOK
<1> QED
  BY <1>1, <1>2, <1>3, <1>4, NoQueueType

(* Only work objects and blocks change. *)
LEMMA DataStepType ==
  ASSUME TypeInv, UNCHANGED <<queue, alive, pc, cur, slot>>, DataOK'
  PROVE  TypeInv'
<1>1. \A q \in Queues : ClientPushes(q)' <=> ClientPushes(q)
  BY DEF ClientPushes
<1>2. \A q \in Queues : WorkerPushes(q)' <=> WorkerPushes(q)
  BY DEF WorkerPushes
<1> QED
  BY <1>1, <1>2, NoQueueType DEF TypeInv, TypeOK

-----------------------------------------------------------------------------
(* The fields of work objects, and the blocks. *)

Memory == [Requests -> [Blocks -> {"none", "fs", "app", "freed", "corrupt"}]]

LEMMA AllocType ==
  ASSUME NEW m \in Memory, NEW r \in Requests, NEW block \in Blocks, NEW heap \in {"fs", "app"}
  PROVE  Alloc(m, r, block, heap) \in Memory
BY DEF Memory, Alloc

LEMMA FreeInType ==
  ASSUME NEW m \in Memory, NEW r \in Requests, NEW block \in Blocks \cup {"none"}, NEW heap
  PROVE  FreeIn(m, r, block, heap) \in Memory
BY DEF Memory, FreeIn

LEMMA HeapType == CallerHeap \in {"fs", "app"} /\ \A r : HeapOf(r) \in {"fs", "app"}
BY EnvironmentAssumption DEF HeapOf

LEMMA BlockNames ==
  "work" \in Blocks /\ "user" \in Blocks /\ "file" \in Blocks /\ "packed" \in Blocks
  /\ "plain" \in Blocks /\ "none" \notin Blocks
BY DEF Blocks

LEMMA WorkType ==
  ASSUME TypeInv, NEW r \in Requests
  PROVE  /\ work[r] \in WorkFields
         /\ work[r].op \in {"none", "READ", "WRITE"}
         /\ work[r].buffer \in Blocks \cup {"none"}
         /\ work[r].allocated \in BOOLEAN /\ work[r].done \in BOOLEAN
         /\ work[r].result \in {0, 1} /\ work[r].abandoned \in BOOLEAN
         /\ work[r].dropped \in BOOLEAN
<1>1. work[r] \in WorkFields
  BY DEF TypeInv, TypeOK
<1> QED
  BY <1>1 DEF WorkFields

LEMMA NoWorkType == NoWork \in WorkFields
BY DEF NoWork, WorkFields

LEMMA NewWorkType == \A r : NewWork(r) \in WorkFields
BY BlockNames DEF NewWork, NoWork, WorkFields

LEMMA ReadWorkType == ASSUME TypeInv, NEW r \in Requests PROVE ReadWork(r) \in WorkFields
BY WorkType, BlockNames DEF ReadWork, WorkFields

LEMMA WrittenWorkType == ASSUME TypeInv, NEW r \in Requests PROVE WrittenWork(r) \in WorkFields
BY WorkType DEF WrittenWork, WorkFields

LEMMA DecompressedWorkType ==
  ASSUME TypeInv, NEW r \in Requests PROVE DecompressedWork(r) \in WorkFields
BY WorkType, BlockNames DEF DecompressedWork, WorkFields

LEMMA WorkExceptType ==
  ASSUME TypeInv, NEW r \in Requests, NEW w \in WorkFields, work' = [work EXCEPT ![r] = w]
  PROVE  work' \in [Requests -> WorkFields]
BY DEF TypeInv, TypeOK

LEMMA FailedWorkType ==
  ASSUME TypeInv, NEW r \in Requests, NEW error \in {0, 1}
  PROVE  /\ [work[r] EXCEPT !.result = error, !.abandoned = TRUE] \in WorkFields
         /\ [work[r] EXCEPT !.result = error, !.abandoned = TRUE, !.buffer = "file"] \in WorkFields
         /\ [work[r] EXCEPT !.result = error, !.done = TRUE] \in WorkFields
         /\ [work[r] EXCEPT !.buffer = "packed", !.op = "WRITE"] \in WorkFields
         /\ [work[r] EXCEPT !.dropped = TRUE] \in WorkFields
<1>1. [work[r] EXCEPT !.result = error, !.abandoned = TRUE] \in WorkFields
  BY WorkType DEF WorkFields
<1>2. [work[r] EXCEPT !.result = error, !.abandoned = TRUE, !.buffer = "file"] \in WorkFields
  BY WorkType, BlockNames DEF WorkFields
<1>3. [work[r] EXCEPT !.result = error, !.done = TRUE] \in WorkFields
  BY WorkType DEF WorkFields
<1>4. [work[r] EXCEPT !.buffer = "packed", !.op = "WRITE"] \in WorkFields
  BY WorkType, BlockNames DEF WorkFields
<1>5. [work[r] EXCEPT !.dropped = TRUE] \in WorkFields
  BY WorkType DEF WorkFields
<1> QED
  BY <1>1, <1>2, <1>3, <1>4, <1>5

LEMMA MemoryType == ASSUME TypeInv PROVE mem \in Memory
BY DEF TypeInv, TypeOK, Memory

LEMMA FileReadFailsType ==
  ASSUME TypeInv, NEW r \in Requests, NEW call, FileReadFails(r, call)
  PROVE  TypeInv'
<1>1. pc["file"] = "run" /\ Goto("file", "pop") /\ HandlerFrame
  BY DEF FileReadFails, Handles, AfterFailure
<1>2. work' \in [Requests -> WorkFields]
  <2>1. PICK error \in {0, 1} :
          work' = [work EXCEPT ![r].result = error, ![r].abandoned = TRUE,
                               ![r].buffer = IF call = "read" THEN "file" ELSE @]
    BY DEF FileReadFails
  <2>2. CASE call = "read"
    <3>1. work' = [work EXCEPT ![r] = [work[r] EXCEPT !.result = error, !.abandoned = TRUE,
                                                      !.buffer = "file"]]
      BY <2>1, <2>2 DEF TypeInv, TypeOK, WorkFields
    <3> QED
      BY <3>1, FailedWorkType, WorkExceptType
  <2>3. CASE call # "read"
    <3>1. work' = [work EXCEPT ![r] = [work[r] EXCEPT !.result = error, !.abandoned = TRUE]]
      BY <2>1, <2>3 DEF TypeInv, TypeOK, WorkFields
    <3> QED
      BY <3>1, FailedWorkType, WorkExceptType
  <2> QED
    BY <2>2, <2>3
<1>3. mem' \in Memory
  BY AllocType, MemoryType, HeapType, BlockNames DEF FileReadFails
<1>4. DataOK'
  BY <1>2, <1>3 DEF DataOK, Memory, HandlerFrame, FileReadFails, TypeInv, TypeOK
<1> QED
  BY <1>1, <1>4, HandlerType DEF Workers

LEMMA FileReadType == ASSUME TypeInv, NEW r \in Requests, FileRead(r) PROVE TypeInv'
<1>1. pc["file"] = "run" /\ Goto("file", AfterRead(r)) /\ HandlerFrame
      /\ AfterRead(r) \in {"pop", "push"}
  BY DEF FileRead, Handles, AfterRead
<1>2. work' \in [Requests -> WorkFields]
  BY ReadWorkType, WorkExceptType DEF FileRead
<1>3. mem' \in Memory
  BY AllocType, MemoryType, HeapType, BlockNames DEF FileRead
<1>4. DataOK'
  BY <1>2, <1>3 DEF DataOK, Memory, HandlerFrame, FileRead, TypeInv, TypeOK
<1> QED
  BY <1>1, <1>4, HandlerType DEF Workers

LEMMA FileWriteFailsType ==
  ASSUME TypeInv, NEW r \in Requests, NEW call, FileWriteFails(r, call) PROVE TypeInv'
<1>1. pc["file"] = "run" /\ Goto("file", "pop") /\ HandlerFrame
  BY DEF FileWriteFails, Handles, AfterFailure
<1>2. work' \in [Requests -> WorkFields]
  <2>1. work' = [work EXCEPT ![r] = [work[r] EXCEPT !.result = 1, !.abandoned = TRUE]]
    BY DEF FileWriteFails, TypeInv, TypeOK, WorkFields
  <2> QED
    BY <2>1, FailedWorkType, WorkExceptType
<1>3. DataOK'
  BY <1>2 DEF DataOK, HandlerFrame, FileWriteFails, TypeInv, TypeOK
<1> QED
  BY <1>1, <1>3, HandlerType DEF Workers

LEMMA FileWriteType == ASSUME TypeInv, NEW r \in Requests, FileWrite(r) PROVE TypeInv'
<1>1. pc["file"] = "run" /\ Goto("file", "pop") /\ HandlerFrame
  BY DEF FileWrite, Handles
<1>2. work' \in [Requests -> WorkFields]
  BY WrittenWorkType, WorkExceptType DEF FileWrite
<1>3. mem' \in Memory
  BY FreeInType, MemoryType, WorkType DEF FileWrite
<1>4. DataOK'
  BY <1>2, <1>3 DEF DataOK, Memory, HandlerFrame, FileWrite, TypeInv, TypeOK
<1> QED
  BY <1>1, <1>4, HandlerType DEF Workers

LEMMA FileDecompressFailsType ==
  ASSUME TypeInv, NEW r \in Requests, FileDecompressFails(r) PROVE TypeInv'
<1>1. pc["compress"] = "run" /\ Goto("compress", "pop") /\ HandlerFrame
  BY DEF FileDecompressFails, Handles
<1>2. work' \in [Requests -> WorkFields]
  <2>1. PICK error \in {0, 1} :
          work' = [work EXCEPT ![r].result = error, ![r].done = TRUE]
    BY DEF FileDecompressFails
  <2>2. work' = [work EXCEPT ![r] = [work[r] EXCEPT !.result = error, !.done = TRUE]]
    BY <2>1 DEF TypeInv, TypeOK, WorkFields
  <2> QED
    BY <2>2, FailedWorkType, WorkExceptType
<1>3. mem' \in Memory
  <2>1. Alloc(mem, r, "plain", HeapOf(r)) \in Memory
    BY AllocType, MemoryType, HeapType, BlockNames
  <2> QED
    BY <2>1, FreeInType, BlockNames DEF FileDecompressFails
<1>4. DataOK'
  BY <1>2, <1>3 DEF DataOK, Memory, HandlerFrame, FileDecompressFails, TypeInv, TypeOK
<1> QED
  BY <1>1, <1>4, HandlerType DEF Workers

LEMMA FileDecompressType ==
  ASSUME TypeInv, NEW r \in Requests, FileDecompress(r) PROVE TypeInv'
<1>1. pc["compress"] = "run" /\ Goto("compress", "pop") /\ HandlerFrame
  BY DEF FileDecompress, Handles
<1>2. work' \in [Requests -> WorkFields]
  BY DecompressedWorkType, WorkExceptType DEF FileDecompress
<1>3. mem' \in Memory
  <2>1. Alloc(mem, r, "plain", HeapOf(r)) \in Memory
    BY AllocType, MemoryType, HeapType, BlockNames
  <2> QED
    BY <2>1, FreeInType, WorkType DEF FileDecompress
<1>4. DataOK'
  BY <1>2, <1>3 DEF DataOK, Memory, HandlerFrame, FileDecompress, TypeInv, TypeOK
<1> QED
  BY <1>1, <1>4, HandlerType DEF Workers

LEMMA FileCompressType == ASSUME TypeInv, NEW r \in Requests, FileCompress(r) PROVE TypeInv'
<1>1. pc["compress"] = "run" /\ Goto("compress", "push") /\ HandlerFrame
  BY DEF FileCompress, Handles
<1>2. work' \in [Requests -> WorkFields]
  <2>1. work' = [work EXCEPT ![r] = [work[r] EXCEPT !.buffer = "packed", !.op = "WRITE"]]
    BY DEF FileCompress, TypeInv, TypeOK, WorkFields
  <2> QED
    BY <2>1, FailedWorkType, WorkExceptType
<1>3. mem' \in Memory
  BY AllocType, MemoryType, HeapType, BlockNames DEF FileCompress
<1>4. DataOK'
  BY <1>2, <1>3 DEF DataOK, Memory, HandlerFrame, FileCompress, TypeInv, TypeOK
<1> QED
  BY <1>1, <1>4, HandlerType DEF Workers

LEMMA SubmitType == ASSUME TypeInv, NEW r \in Requests, Submit(r) PROVE TypeInv'
<1>1. /\ StartPush("client", FirstQueue(r), r) /\ Goto("client", "submit") /\ alive' = alive
      /\ pc["client"] = "ready" /\ "submit" \in ClientSteps
      /\ FirstQueue(r) \in Queues /\ r \in Items
  BY Names, ItemFacts DEF Submit, ClientSteps
<1>2. work' \in [Requests -> WorkFields]
  BY NewWorkType, WorkExceptType DEF Submit
<1>3. mem' \in Memory
  <2>1. Alloc(mem, r, "work", "fs") \in Memory
    BY AllocType, MemoryType, BlockNames
  <2> QED
    BY <2>1, AllocType, HeapType, BlockNames DEF Submit
<1>4. order' \in Seq(Requests)
  BY DEF Submit, TypeInv, TypeOK
<1>5. DataOK'
  BY <1>2, <1>3, <1>4 DEF DataOK, Memory
<1>6. cur'["client"] = r /\ pc'["client"] = "submit"
  BY <1>1, Names DEF StartPush, Goto, TypeInv, TypeOK
<1>7. \A p \in Queues : ~ClientPushes(p)
  BY <1>1 DEF ClientPushes
<1>8. \A p \in Queues : ClientPushes(p)' <=> p = FirstQueue(r)
  BY <1>6 DEF ClientPushes
<1> QED
  BY <1>1, <1>5, <1>7, <1>8, ClientStartType

LEMMA ClientStopType ==
  ASSUME TypeInv, FsDestroy \/ NullFile
  PROVE  TypeInv'
<1> DEFINE q == IF pc["client"] = "ready" THEN "compress" ELSE "file"
           step == IF pc["client"] = "ready" THEN "stopCompress" ELSE "stopFile"
<1>1. /\ StartPush("client", q, NULL) /\ Goto("client", step) /\ alive' = alive
      /\ pc["client"] \in {"ready", "nullFile"} /\ step \in ClientSteps /\ q \in Queues
  BY DEF FsDestroy, NullFile, ClientSteps, Queues
<1>2. DataOK'
  BY DEF FsDestroy, NullFile, DataOK, TypeInv, TypeOK
<1>3. pc'["client"] = step
  BY <1>1, Names DEF Goto, TypeInv, TypeOK
<1>4. \A p \in Queues : ~ClientPushes(p)
  BY <1>1 DEF ClientPushes
<1>5. \A p \in Queues : ClientPushes(p)' <=> p = q
  BY <1>3, <1>1 DEF ClientPushes
<1> HIDE DEF q, step
<1> QED
  BY <1>1, <1>2, <1>4, <1>5, ItemFacts, ClientStartType

LEMMA ClientEndsType ==
  ASSUME TypeInv, SubmitWrite \/ StopCompress \/ StopFile
  PROVE  TypeInv'
<1>1. PICK q \in Queues, step \in {"ready", "joinCompress", "joinFile"} :
        /\ EndPush("client", q) /\ Goto("client", step)
        /\ \A p \in Queues : ClientPushes(p) <=> p = q
  <2>1. CASE SubmitWrite
    BY <2>1, Names DEF SubmitWrite, ClientPushes
  <2>2. CASE StopCompress
    BY <2>2, Names DEF StopCompress, ClientPushes
  <2>3. CASE StopFile
    BY <2>3, Names DEF StopFile, ClientPushes
  <2> QED
    BY <2>1, <2>2, <2>3
<1>2. step \in ClientSteps
  BY DEF ClientSteps
<1>3. pc'["client"] = step
  BY <1>1, Names DEF Goto, TypeInv, TypeOK
<1>4. \A p \in Queues : ~ClientPushes(p)'
  BY <1>3 DEF ClientPushes
<1> QED
  BY <1>1, <1>2, <1>4, ClientEndType

LEMMA JoinsType ==
  ASSUME TypeInv, JoinCompress \/ JoinFile
  PROVE  TypeInv'
<1>1. PICK q \in Queues, step \in {"nullFile", "gone"} :
        /\ Goto("client", step) /\ alive' = [alive EXCEPT ![q] = FALSE]
        /\ pc["client"] \in {"joinCompress", "joinFile"}
        /\ UNCHANGED <<queue, cur, slot, work, mem, order>>
  BY Names DEF JoinCompress, JoinFile
<1>2. step \in ClientSteps /\ alive' \in [Queues -> BOOLEAN]
  BY <1>1 DEF ClientSteps, TypeInv, TypeOK
<1>3. pc'["client"] = step
  BY <1>1, Names DEF Goto, TypeInv, TypeOK
<1>4. \A p \in Queues : ~ClientPushes(p) /\ ~ClientPushes(p)'
  BY <1>1, <1>3 DEF ClientPushes
<1> QED
  BY <1>1, <1>2, <1>4, JoinType

LEMMA CallerType ==
  ASSUME TypeInv, NEW r \in Requests, CallerFreeBuffer(r) \/ WorkDestroy(r)
  PROVE  TypeInv'
<1>1. UNCHANGED <<queue, alive, pc, cur, slot, order>>
  BY DEF CallerFreeBuffer, WorkDestroy
<1>2. work' \in [Requests -> WorkFields]
  <2>1. CASE CallerFreeBuffer(r)
    <3>1. work' = [work EXCEPT ![r] = [work[r] EXCEPT !.dropped = TRUE]]
      BY <2>1 DEF CallerFreeBuffer, TypeInv, TypeOK, WorkFields
    <3> QED
      BY <3>1, FailedWorkType, WorkExceptType
  <2>2. CASE WorkDestroy(r)
    BY <2>2 DEF WorkDestroy, TypeInv, TypeOK
  <2> QED
    BY <2>1, <2>2
<1>3. mem' \in Memory
  <2>1. CASE CallerFreeBuffer(r)
    BY <2>1, FreeInType, MemoryType, WorkType DEF CallerFreeBuffer
  <2>2. CASE WorkDestroy(r)
    <3>1. FreeIn(mem, r, work[r].buffer, HeapOf(r)) \in Memory
      BY FreeInType, MemoryType, WorkType
    <3> QED
      BY <2>2, <3>1, FreeInType, MemoryType, BlockNames DEF WorkDestroy
  <2> QED
    BY <2>1, <2>2
<1>4. DataOK'
  BY <1>1, <1>2, <1>3 DEF DataOK, Memory, TypeInv, TypeOK
<1> QED
  BY <1>1, <1>4, DataStepType

LEMMA InitType == Init => TypeInv
<1> SUFFICES ASSUME Init PROVE TypeInv
  OBVIOUS
<1>1. NewDeque \in Deques(Items)
  BY NewDequeType, ItemFacts
<1>2. queue \in [Queues -> Deques(Items)]
  BY <1>1 DEF Init
<1>3. /\ pc["client"] = "ready" /\ \A t \in Workers : pc[t] = "pop"
      /\ pc \in [Threads -> {"ready", "pop"}]
  BY Names DEF Init
<1>4. TypeOK
  BY <1>2, <1>3, Lengths, ItemFacts, NoWorkType
     DEF Init, TypeOK, ClientSteps, WorkerSteps, Queues, Workers, Blocks
<1>5. ASSUME NEW q \in Queues
      PROVE  queue[q].used + queue[q].free + Away(q) = QueueLength
  <2>1. queue[q].used = 0 /\ queue[q].free = QueueLength
    BY DEF Init, NewDeque
  <2>2. pc[q] # "fetch" /\ ~ClientPushes(q) /\ ~WorkerPushes(q)
    BY <1>3, Names DEF ClientPushes, WorkerPushes
  <2>3. Away(q) = 0
    BY <2>2 DEF Away, Bit
  <2> QED
    BY <2>1, <2>3, Lengths
<1> QED
  BY <1>4, <1>5 DEF TypeInv, Tokens

LEMMA NextType == TypeInv /\ [Next]_vars => TypeInv'
<1> SUFFICES ASSUME TypeInv, [Next]_vars PROVE TypeInv'
  OBVIOUS
<1>1. CASE Client
  BY <1>1, SubmitType, CallerType, ClientStopType, ClientEndsType, JoinsType
     DEF Client, ClientInCall
<1>2. ASSUME NEW t \in Workers, Worker(t)
      PROVE  TypeInv'
  <2>1. CASE Pop(t) \/ Fetch(t) \/ HandOver(t) \/ HandOverWrite(t)
    BY <2>1, PopType, FetchType, HandOverType, HandOverWriteType
  <2>2. ASSUME NEW r \in Requests, FileHandler(r)
        PROVE  TypeInv'
    BY <2>2, FileReadType, FileWriteType, FileReadFailsType, FileWriteFailsType DEF FileHandler
  <2>3. ASSUME NEW r \in Requests, CompressHandler(r)
        PROVE  TypeInv'
    BY <2>3, FileDecompressType, FileDecompressFailsType, FileCompressType DEF CompressHandler
  <2> QED
    BY <1>2, <2>1, <2>2, <2>3 DEF Worker
<1>3. CASE UNCHANGED vars
  <2>1. UNCHANGED <<queue, alive, pc, cur, slot>> /\ DataOK'
    BY <1>3 DEF vars, DataOK, TypeInv, TypeOK
  <2> QED
    BY <2>1, DataStepType
<1> QED
  BY <1>1, <1>2, <1>3 DEF Next

LEMMA TypingInv == Spec => []TypeInv
BY InitType, NextType, PTL DEF Spec

(* The types of the state, and with them that no semaphore of a deque is given *)
(* back more tokens than it has (deque.c 45-69).                               *)
THEOREM Typing == Spec => []TypeOK
<1>1. TypeInv => TypeOK
  BY DEF TypeInv
<1> QED
  BY <1>1, TypingInv, PTL

-----------------------------------------------------------------------------
(* A queue as a line of items, the oldest first: the item its worker is just  *)
(* fetching, and those released and not yet claimed.  While nobody else       *)
(* pushes, the slot a thread has claimed is the one behind the line.          *)

First(q) == IF pc[q] = "fetch" THEN slot[q] ELSE queue[q].head
Size(q) == queue[q].used + Bit(pc[q] = "fetch")
Place(q, k) == (First(q) + (k - 1)) % QueueLength
Entry(q, k) == queue[q].slots[Place(q, k)]
Pushing(q) == Bit(ClientPushes(q)) + Bit(WorkerPushes(q))

Ring(q) ==
  /\ pc[q] = "fetch" => queue[q].head = NextIndex(slot[q])
  /\ queue[q].tail = (First(q) + (Size(q) + Pushing(q))) % QueueLength
  /\ ClientPushes(q) => slot["client"] = Place(q, Size(q) + 1)
  /\ WorkerPushes(q) => slot[Other(q)] = Place(q, Size(q) + 1)

LineSame(q) ==
  /\ Size(q)' = Size(q)
  /\ \A k \in 1 .. Size(q) : Entry(q, k)' = Entry(q, k)

LineGrows(q, item) ==
  /\ Size(q)' = Size(q) + 1
  /\ \A k \in {Size(q) + 1} : Entry(q, k)' = item
  /\ \A k \in 1 .. Size(q) : Entry(q, k)' = Entry(q, k)

LineShrinks(q) ==
  /\ Size(q) > 0 /\ Size(q)' = Size(q) - 1
  /\ \A k \in 1 .. Size(q)' : Entry(q, k)' = Entry(q, k + 1)

LEMMA PushingType == \A q : Pushing(q) \in 0 .. 2 /\ Pushing(q)' \in 0 .. 2
BY DEF Pushing, Bit

LEMMA SizeType ==
  ASSUME TypeInv, NEW q \in Queues
  PROVE  /\ First(q) \in 0 .. QueueLength - 1 /\ Size(q) \in 0 .. QueueLength
         /\ Size(q) + Pushing(q) <= QueueLength
<1>1. First(q) \in 0 .. QueueLength - 1
  BY QueueType, Names DEF First, TypeInv, TypeOK
<1>2. queue[q].used + queue[q].free + Away(q) = QueueLength
  BY DEF TypeInv, Tokens
<1>3. Away(q) = Bit(pc[q] = "fetch") + Pushing(q)
  BY BitType DEF Away, Pushing
<1>4. Bit(pc[q] = "fetch") \in {0, 1} /\ Pushing(q) \in 0 .. 2
  BY BitType, PushingType
<1> DEFINE b == Bit(pc[q] = "fetch")
<1>5. queue[q].used \in 0 .. QueueLength /\ queue[q].free \in 0 .. QueueLength
  BY QueueType
<1>6. Size(q) = queue[q].used + b
  BY DEF Size
<1> HIDE DEF b
<1> QED
  BY <1>1, <1>2, <1>3, <1>4, <1>5, <1>6, Lengths DEF b

LEMMA PlaceType ==
  ASSUME TypeInv, NEW q \in Queues, NEW k \in Nat \ {0}
  PROVE  Place(q, k) \in 0 .. QueueLength - 1 /\ Entry(q, k) \in Items
<1>1. First(q) + (k - 1) \in Nat
  BY SizeType, Lengths
<1>2. Place(q, k) \in 0 .. QueueLength - 1
  BY <1>1, Lengths, DivMod DEF Place
<1> QED
  BY <1>2, QueueType DEF Entry

LEMMA FirstPlace ==
  ASSUME TypeInv, NEW q \in Queues PROVE Place(q, 1) = First(q)
<1>1. First(q) \in 0 .. QueueLength - 1 /\ First(q) + (1 - 1) = First(q)
  BY SizeType, Lengths
<1> QED
  BY <1>1, ModSmall, Lengths DEF Place

LEMMA EndPlace ==
  ASSUME TypeInv, NEW q \in Queues
  PROVE  Place(q, Size(q) + 1) = (First(q) + Size(q)) % QueueLength
<1>1. Size(q) \in Int
  BY SizeType, Lengths
<1>2. (Size(q) + 1) - 1 = Size(q)
  BY <1>1
<1> QED
  BY <1>2 DEF Place

(* The places of a line are different slots. *)
LEMMA PlacesDiffer ==
  ASSUME TypeInv, NEW q \in Queues,
         NEW j \in 1 .. QueueLength, NEW k \in 1 .. QueueLength, j < k
  PROVE  Place(q, j) # Place(q, k)
<1> DEFINE a == First(q) + (j - 1)
           b == First(q) + (k - 1)
<1>1. First(q) \in Nat
  BY SizeType, Lengths
<1>2. a \in Nat /\ b \in Nat /\ a < b /\ b - a < QueueLength
  BY <1>1, Lengths
<1> HIDE DEF a, b
<1>3. a % QueueLength # b % QueueLength
  BY <1>2, DistinctSlots, QueueLengthAssumption
<1> QED
  BY <1>3 DEF a, b, Place

LEMMA RingSame ==
  ASSUME TypeInv, NEW q \in Queues, Ring(q), queue'[q] = queue[q],
         pc'[q] = "fetch" <=> pc[q] = "fetch", pc[q] = "fetch" => slot'[q] = slot[q],
         ClientPushes(q)' <=> ClientPushes(q), WorkerPushes(q)' <=> WorkerPushes(q),
         ClientPushes(q) => slot'["client"] = slot["client"],
         WorkerPushes(q) => slot'[Other(q)] = slot[Other(q)]
  PROVE  Ring(q)' /\ LineSame(q)
<1>1. First(q)' = First(q)
  BY DEF First
<1>2. Size(q)' = Size(q)
  BY DEF Size, Bit
<1>3. Pushing(q)' = Pushing(q)
  BY DEF Pushing, Bit
<1>4. \A k : Place(q, k)' = Place(q, k)
  BY <1>1 DEF Place
<1>5. \A k : Entry(q, k)' = Entry(q, k)
  BY <1>4 DEF Entry
<1>6. LineSame(q)
  BY <1>2, <1>5 DEF LineSame
<1>7. Ring(q)'
  BY <1>1, <1>2, <1>3, <1>4 DEF Ring
<1> QED
  BY <1>6, <1>7

LEMMA ModNext ==
  ASSUME NEW a \in 0 .. QueueLength - 1, NEW k \in Nat
  PROVE  (NextIndex(a) + k) % QueueLength = (a + (k + 1)) % QueueLength
<1>1. a + 1 \in Nat /\ (a + 1) + k = a + (k + 1) /\ QueueLength \in Nat \ {0}
  BY Lengths
<1>2. (((a + 1) % QueueLength) + k) % QueueLength = ((a + 1) + k) % QueueLength
  BY <1>1, ModAdd
<1> QED
  BY <1>1, <1>2 DEF NextIndex

LEMMA NextOfMod ==
  ASSUME NEW a \in Nat
  PROVE  NextIndex(a % QueueLength) = (a + 1) % QueueLength
BY ModAdd, QueueLengthAssumption DEF NextIndex

(* A worker claims the first item: the line stays. *)
LEMMA RingPop ==
  ASSUME TypeInv, NEW t \in Workers, Ring(t), Pop(t),
         ClientPushes(t)' <=> ClientPushes(t), WorkerPushes(t)' <=> WorkerPushes(t)
  PROVE  Ring(t)' /\ LineSame(t)
<1>1. /\ queue'[t] = PopClaim(queue[t]) /\ pc[t] = "pop" /\ pc'[t] = "fetch"
      /\ slot'[t] = queue[t].head
      /\ \A o \in Threads \ {t} : slot'[o] = slot[o]
  BY TwoWorkers DEF Pop, Goto, TypeInv, TypeOK
<1>2. /\ queue'[t].used = queue[t].used - 1 /\ queue'[t].head = NextIndex(queue[t].head)
      /\ queue'[t].tail = queue[t].tail /\ queue'[t].slots = queue[t].slots
  <2>1. queue[t] \in Deques(Items)
    BY TwoWorkers, QueueType
  <2> QED
    BY <1>1, <2>1, PopClaimFields
<1>3. First(t)' = First(t)
  BY <1>1 DEF First
<1>4. Size(t)' = Size(t)
  <2>1. Bit(pc[t] = "fetch") = 0 /\ Bit(pc'[t] = "fetch") = 1
    BY <1>1 DEF Bit
  <2>2. queue[t].used \in Int
    BY TwoWorkers, CountType
  <2> QED
    BY <1>2, <2>1, <2>2 DEF Size
<1>5. Pushing(t)' = Pushing(t)
  BY DEF Pushing, Bit
<1>6. \A k : Place(t, k)' = Place(t, k)
  BY <1>3 DEF Place
<1>7. \A k : Entry(t, k)' = Entry(t, k)
  BY <1>2, <1>6 DEF Entry
<1>8. LineSame(t)
  BY <1>4, <1>7 DEF LineSame
<1>9. slot'["client"] = slot["client"] /\ slot'[Other(t)] = slot[Other(t)]
  BY <1>1, TwoWorkers, Names
<1>10. Ring(t)'
  <2>1. queue'[t].head = NextIndex(slot'[t])
    BY <1>1, <1>2
  <2>2. queue'[t].tail = (First(t)' + (Size(t)' + Pushing(t)')) % QueueLength
    BY <1>2, <1>3, <1>4, <1>5 DEF Ring
  <2>3. ClientPushes(t)' => slot'["client"] = Place(t, Size(t) + 1)'
    BY <1>4, <1>6, <1>9 DEF Ring
  <2>4. WorkerPushes(t)' => slot'[Other(t)] = Place(t, Size(t) + 1)'
    BY <1>4, <1>6, <1>9 DEF Ring
  <2> QED
    BY <2>1, <2>2, <2>3, <2>4 DEF Ring
<1> QED
  BY <1>8, <1>10

(* A worker reads the item it claimed: the line loses its first. *)
LEMMA RingFetch ==
  ASSUME TypeInv, NEW t \in Workers, Ring(t), Fetch(t),
         ClientPushes(t)' <=> ClientPushes(t), WorkerPushes(t)' <=> WorkerPushes(t)
  PROVE  Ring(t)' /\ LineShrinks(t) /\ cur'[t] = Entry(t, 1)
<1>1. /\ queue'[t] = PopRead(queue[t]) /\ pc[t] = "fetch" /\ pc'[t] # "fetch"
      /\ cur'[t] = queue[t].slots[slot[t]] /\ slot' = slot
  BY TwoWorkers DEF Fetch, Goto, TypeInv, TypeOK
<1>2. /\ queue'[t].used = queue[t].used /\ queue'[t].head = queue[t].head
      /\ queue'[t].tail = queue[t].tail /\ queue'[t].slots = queue[t].slots
  <2>1. queue[t] \in Deques(Items)
    BY TwoWorkers, QueueType
  <2> QED
    BY <1>1, <2>1, PopReadFields
<1>3. First(t) = slot[t] /\ First(t)' = NextIndex(First(t)) /\ First(t) \in 0 .. QueueLength - 1
  BY <1>1, <1>2, SizeType, TwoWorkers DEF First, Ring
<1>4. Size(t)' + 1 = Size(t) /\ Size(t)' \in Nat /\ Size(t) \in Nat
  <2>1. Bit(pc[t] = "fetch") = 1 /\ Bit(pc'[t] = "fetch") = 0
    BY <1>1 DEF Bit
  <2>2. queue[t].used \in Nat
    BY TwoWorkers, QueueType, Lengths
  <2> QED
    BY <1>2, <2>1, <2>2 DEF Size
<1>5. Pushing(t)' = Pushing(t)
  BY DEF Pushing, Bit
<1>6. ASSUME NEW k \in Nat \ {0} PROVE Place(t, k)' = Place(t, k + 1)
  <2>1. k - 1 \in Nat /\ (k - 1) + 1 = (k + 1) - 1
    OBVIOUS
  <2>2. (NextIndex(First(t)) + (k - 1)) % QueueLength
        = (First(t) + ((k - 1) + 1)) % QueueLength
    BY <1>3, <2>1, ModNext
  <2> QED
    BY <1>3, <2>1, <2>2 DEF Place
<1>7. ASSUME NEW k \in Nat \ {0} PROVE Entry(t, k)' = Entry(t, k + 1)
  BY <1>2, <1>6 DEF Entry
<1>8. LineShrinks(t)
  <2>1. \A k \in 1 .. Size(t)' : Entry(t, k)' = Entry(t, k + 1)
    BY <1>4, <1>7
  <2> QED
    BY <1>4, <2>1 DEF LineShrinks
<1>9. Ring(t)'
  <2>1. Place(t, Size(t) + 1)' = Place(t, Size(t) + 1)
    <3>1. Size(t)' + 1 \in Nat \ {0} /\ Size(t)' + 1 + 1 = Size(t) + 1
      BY <1>4
    <3> QED
      BY <1>6, <3>1
  <2>2. queue'[t].tail = (First(t)' + (Size(t)' + Pushing(t)')) % QueueLength
    <3>1. Size(t)' + Pushing(t) \in Nat /\ (Size(t)' + Pushing(t)) + 1 = Size(t) + Pushing(t)
      BY <1>4, PushingType
    <3>2. (NextIndex(First(t)) + (Size(t)' + Pushing(t))) % QueueLength
          = (First(t) + (Size(t) + Pushing(t))) % QueueLength
      BY <1>3, <3>1, ModNext
    <3> QED
      BY <1>2, <1>3, <1>5, <3>2 DEF Ring
  <2>3. ClientPushes(t)' => slot'["client"] = Place(t, Size(t) + 1)'
    BY <1>1, <2>1 DEF Ring
  <2>4. WorkerPushes(t)' => slot'[Other(t)] = Place(t, Size(t) + 1)'
    BY <1>1, <2>1 DEF Ring
  <2> QED
    BY <1>1, <2>2, <2>3, <2>4 DEF Ring
<1>10. cur'[t] = Entry(t, 1)
  BY <1>1, <1>3, FirstPlace, TwoWorkers DEF Entry
<1> QED
  BY <1>8, <1>9, <1>10

(* A thread claims the slot behind the line. *)
LEMMA RingStart ==
  ASSUME TypeInv, NEW q \in Queues, NEW t \in Threads, Ring(q),
         queue'[q] = PushClaim(queue[q]), slot'[t] = queue[q].tail,
         pc'[q] = "fetch" <=> pc[q] = "fetch", pc[q] = "fetch" => slot'[q] = slot[q],
         ~ClientPushes(q), ~WorkerPushes(q),
         \/ t = "client" /\ ClientPushes(q)' /\ ~WorkerPushes(q)'
         \/ t = Other(q) /\ WorkerPushes(q)' /\ ~ClientPushes(q)'
  PROVE  Ring(q)' /\ LineSame(q)
<1>1. /\ queue'[q].used = queue[q].used /\ queue'[q].head = queue[q].head
      /\ queue'[q].tail = NextIndex(queue[q].tail) /\ queue'[q].slots = queue[q].slots
  <2>1. queue[q] \in Deques(Items)
    BY QueueType
  <2> QED
    BY <2>1, PushClaimFields
<1>2. First(q)' = First(q) /\ First(q) \in Nat /\ Size(q) \in Nat
  BY <1>1, SizeType, Lengths DEF First
<1>3. Size(q)' = Size(q)
  BY <1>1 DEF Size, Bit
<1>4. Pushing(q) = 0 /\ Pushing(q)' = 1
  BY DEF Pushing, Bit
<1>5. \A k : Place(q, k)' = Place(q, k)
  BY <1>2 DEF Place
<1>6. \A k : Entry(q, k)' = Entry(q, k)
  BY <1>1, <1>5 DEF Entry
<1>7. LineSame(q)
  BY <1>3, <1>6 DEF LineSame
<1>8. Ring(q)'
  <2>1. pc'[q] = "fetch" => queue'[q].head = NextIndex(slot'[q])
    BY <1>1 DEF Ring
  <2>2. queue[q].tail = (First(q) + Size(q)) % QueueLength
    BY <1>2, <1>4 DEF Ring
  <2>3. queue[q].tail = Place(q, Size(q) + 1)
    BY <2>2, EndPlace
  <2>4. queue'[q].tail = (First(q)' + (Size(q)' + Pushing(q)')) % QueueLength
    <3>1. First(q) + Size(q) \in Nat
          /\ First(q) + Size(q) + 1 = First(q) + (Size(q) + 1)
      BY <1>2
    <3> QED
      BY <1>1, <1>2, <1>3, <1>4, <2>2, <3>1, NextOfMod
  <2> QED
    BY <1>3, <1>5, <2>1, <2>3, <2>4 DEF Ring
<1> QED
  BY <1>7, <1>8

(* The thread writes its item there: the line grows. *)
LEMMA RingEnd ==
  ASSUME TypeInv, NEW q \in Queues, NEW t \in Threads, Ring(q),
         queue'[q] = PushWrite(queue[q], slot[t], cur[t]), slot' = slot,
         pc'[q] = "fetch" <=> pc[q] = "fetch",
         ~ClientPushes(q)', ~WorkerPushes(q)',
         \/ t = "client" /\ ClientPushes(q) /\ ~WorkerPushes(q)
         \/ t = Other(q) /\ WorkerPushes(q) /\ ~ClientPushes(q)
  PROVE  Ring(q)' /\ LineGrows(q, cur[t])
<1> DEFINE s == slot[t]
<1>1. /\ queue'[q].used = queue[q].used + 1 /\ queue'[q].head = queue[q].head
      /\ queue'[q].tail = queue[q].tail
      /\ queue'[q].slots[s] = cur[t]
      /\ \A p \in (0 .. QueueLength - 1) \ {s} : queue'[q].slots[p] = queue[q].slots[p]
  <2>1. queue[q] \in Deques(Items)
    BY QueueType
  <2>2. /\ queue'[q].used = queue[q].used + 1 /\ queue'[q].head = queue[q].head
        /\ queue'[q].tail = queue[q].tail
    BY <2>1, PushWriteFields
  <2>3. s \in 0 .. QueueLength - 1
    BY DEF TypeInv, TypeOK
  <2>4. /\ queue'[q].slots[s] = cur[t]
        /\ \A p \in (0 .. QueueLength - 1) \ {s} : queue'[q].slots[p] = queue[q].slots[p]
    BY <2>1, <2>3, PushWriteSlots
  <2> QED
    BY <2>2, <2>4
<1>2. First(q)' = First(q) /\ Size(q) \in Nat
  BY <1>1, SizeType, Lengths DEF First
<1>3. Pushing(q) = 1 /\ Pushing(q)' = 0
  BY DEF Pushing, Bit
<1>4. Size(q)' = Size(q) + 1 /\ Size(q) + 1 <= QueueLength
  <2>1. Bit(pc'[q] = "fetch") = Bit(pc[q] = "fetch") /\ Bit(pc[q] = "fetch") \in {0, 1}
    BY DEF Bit
  <2>2. queue[q].used \in Int
    BY CountType
  <2>3. Size(q)' = Size(q) + 1
    BY <1>1, <2>1, <2>2 DEF Size
  <2> QED
    BY <1>3, <2>3, SizeType
<1>5. s = Place(q, Size(q) + 1)
  BY DEF Ring
<1>6. \A k : Place(q, k)' = Place(q, k)
  BY <1>2 DEF Place
<1> HIDE DEF s
<1>7. ASSUME NEW k \in 1 .. Size(q) PROVE Entry(q, k)' = Entry(q, k)
  <2>1. k \in 1 .. QueueLength /\ Size(q) + 1 \in 1 .. QueueLength /\ k < Size(q) + 1
    BY <1>2, <1>4, Lengths
  <2>2. Place(q, k) # s
    BY <1>5, <2>1, PlacesDiffer
  <2> QED
    BY <1>1, <1>6, <2>1, <2>2, PlaceType DEF Entry
<1>8. ASSUME NEW k \in {Size(q) + 1} PROVE Entry(q, k)' = cur[t]
  BY <1>1, <1>5, <1>6 DEF Entry
<1>9. LineGrows(q, cur[t])
  BY <1>4, <1>7, <1>8 DEF LineGrows
<1>10. Ring(q)'
  <2>1. pc'[q] = "fetch" => queue'[q].head = NextIndex(slot'[q])
    BY <1>1 DEF Ring
  <2>2. queue'[q].tail = (First(q)' + (Size(q)' + Pushing(q)')) % QueueLength
    <3>1. Size(q)' + Pushing(q)' = Size(q) + Pushing(q)
      BY <1>2, <1>3, <1>4
    <3> QED
      BY <1>1, <1>2, <3>1 DEF Ring
  <2> QED
    BY <2>1, <2>2 DEF Ring
<1> QED
  BY <1>9, <1>10

-----------------------------------------------------------------------------
(* One producer for each queue.  Either no write is compressed: then requests *)
(* enter at the file queue, and only the file worker hands work over, and none *)
(* once fsDestroy is called.  Or all requests are compressed writes: then they *)
(* enter at the compression queue, whose worker is gone before fsDestroy      *)
(* pushes to the file queue.                                                  *)

Direct == Writes \cap Compressed = {} /\ (DestroyEarly => Reads \cap Compressed = {})
PackedOnly == Requests \subseteq Writes \cap Compressed
OneProducer == Direct \/ PackedOnly

\* The worker whose queue the requests enter at, and the one it hands work over to.
EntryWorker == IF Direct THEN "file" ELSE "compress"
ExitWorker  == IF Direct THEN "compress" ELSE "file"

\* Request a was submitted before request b.
Before(a, b) == \E j, k \in 1 .. Len(order) : j < k /\ order[j] = a /\ order[k] = b

\* The work in the hands of a worker and of the client, and in a queue.
Hand(t) == {x \in {cur[t]} : Holds(t)}
ClientHand == {x \in {cur["client"]} : pc["client"] = "submit"}
Queued(q) == {Entry(q, k) : k \in 1 .. Size(q)} \ {NULL}
Zone(q) == Hand(q) \cup Queued(q)

\* fsDestroy has pushed the NULL that ends the worker of the queue.
Sent(q) ==
  pc["client"] \in IF q = "compress"
                   THEN {"joinCompress", "nullFile", "stopFile", "joinFile", "gone"}
                   ELSE {"joinFile", "gone"}

\* What the queues and the hands hold: requests, past the entry compressed ones.
Contents ==
  /\ \A q \in Queues : Zone(q) \subseteq Requests
  /\ ClientHand \subseteq Requests
  /\ Zone(ExitWorker) \subseteq Compressed
  /\ \A t \in Workers : pc[t] \in {"push", "handover"} => t = EntryWorker /\ cur[t] \in Compressed
  /\ pc["client"] \in {"stopCompress", "stopFile"} => cur["client"] = NULL

\* A request is submitted once, and before that there is nothing of it.
History ==
  /\ \A j, k \in 1 .. Len(order) : order[j] = order[k] => j = k
  /\ \A r \in Submitted : work[r].op = IF r \in Reads THEN "READ" ELSE "WRITE"
  /\ \A r \in Requests \ Submitted : work[r] = NoWork /\ \A b \in Blocks : mem[r][b] = "none"

\* The pending work is what the queues and the hands hold, and is not freed.
Whereabouts ==
  /\ Pending = Zone("file") \cup Zone("compress") \cup ClientHand
  /\ \A r \in Pending : mem[r]["work"] = "fs"

\* A queue is in order of submission; the work in hand is older than all queued
\* behind it, what was handed over older than what was not.
LineSorted(q) ==
  \A j, k \in 1 .. Size(q) :
    j < k /\ Entry(q, j) # NULL /\ Entry(q, k) # NULL => Before(Entry(q, j), Entry(q, k))

HandFirst(q) ==
  Holds(q) => \A k \in 1 .. Size(q) : Entry(q, k) # NULL => Before(cur[q], Entry(q, k))

Sorted ==
  /\ \A q \in Queues : LineSorted(q) /\ HandFirst(q)
  /\ \A a \in Zone(ExitWorker), b \in Zone(EntryWorker) : Before(a, b)
  /\ \A a \in Zone(EntryWorker) \cup Zone(ExitWorker), b \in ClientHand : Before(a, b)

\* Nothing is behind the NULL, and an exited worker has left nothing.
NullLast(q) == \A k \in 1 .. Size(q) : Entry(q, k) = NULL => Sent(q) /\ k = Size(q)

Stopping ==
  /\ \A q \in Queues : NullLast(q)
  /\ \A q \in Queues : pc[q] = "exited" => Sent(q) /\ Size(q) = 0
  /\ pc["client"] \in {"nullFile", "stopFile", "joinFile", "gone"} => pc["compress"] = "exited"
  /\ pc["client"] = "gone" => pc["file"] = "exited"
  /\ ~alive["compress"] => pc["client"] \in {"nullFile", "stopFile", "joinFile", "gone"}
  /\ ~alive["file"] => pc["client"] = "gone"
  /\ ~DestroyEarly /\ pc["client"] \notin {"ready", "submit"} => Pending = {}

\* The inductive invariant of the two queues.
PipeInv ==
  /\ \A q \in Queues : Ring(q)
  /\ Contents /\ History /\ Whereabouts /\ Sorted /\ Stopping

\* The blocks of a request that no handler has seen, and of one handed over.
Fresh(r) ==
  /\ work[r].buffer = IF r \in Reads THEN "none" ELSE "user"
  /\ work[r].allocated <=> r \in Writes

Moved(r) ==
  /\ work[r].buffer = IF r \in Reads THEN "file" ELSE "packed"
  /\ work[r].allocated

\* Which blocks exist follows from the buffer the work object points to and from
\* whether the request is done, dropped by its caller or freed.
BlockInv(r) ==
  LET w == work[r]
      m == mem[r]
  IN /\ w.buffer # "work"
     /\ \A b \in Blocks : m[b] \in {"none", "fs", "freed"}
     /\ \A b \in {"file", "packed", "plain"} \ {w.buffer} : m[b] \in {"none", "freed"}
     /\ w.buffer # "none" => m[w.buffer] \in {"fs", "freed"}
     /\ w.buffer # "none" /\ m[w.buffer] = "freed"
          => w.done /\ (~w.allocated \/ w.dropped \/ m["work"] = "freed")
     /\ m["work"] = "freed" => w.done /\ w.buffer # "none" /\ m[w.buffer] = "freed"
     /\ w.dropped => w.done /\ CallerFrees # "never"
     /\ w.allocated => w.buffer # "none"
     /\ w.done /\ ~w.allocated => w.buffer # "none" /\ m[w.buffer] = "freed"
     /\ w.done /\ r \in Reads =>
          /\ w.allocated
          /\ \/ r \notin Compressed /\ w.buffer = "file"
             \/ r \in Compressed /\ w.buffer = "plain"
             \/ r \in Compressed /\ "decompress" \in Failures

\* What no handler has seen yet, and what the first worker is done with.
Untouched == Queued(EntryWorker) \cup ClientHand
             \cup {x \in Hand(EntryWorker) : pc[EntryWorker] = "run"}
Handed == Zone(ExitWorker) \cup {x \in Hand(EntryWorker) : pc[EntryWorker] # "run"}

\* A step that no handler takes moves work on, and changes none.
Onward == Untouched' \subseteq Untouched /\ Handed' \subseteq Handed

\* The inductive invariant of the memory.
MemInv ==
  /\ \A r \in Requests : BlockInv(r)
  /\ \A r \in Untouched : Fresh(r)
  /\ \A r \in Handed : Moved(r)

\* The work objects and the buffers of the caller are in the same heap, and the
\* caller does not free a buffer ahead of fsWorkDestroy.
OneHeap == CallerHeap = "fs" /\ CallerFrees # "before"

-----------------------------------------------------------------------------
(* What the definitions say. *)

LEMMA Roles ==
  ASSUME OneProducer
  PROVE  /\ EntryWorker \in Workers /\ ExitWorker \in Workers /\ EntryWorker # ExitWorker
         /\ ExitWorker = Other(EntryWorker) /\ EntryWorker = Other(ExitWorker)
         /\ EntryWorker = "file" => Direct
         /\ EntryWorker = "compress" => PackedOnly
         /\ \A t \in Workers : t = EntryWorker \/ t = ExitWorker
         /\ \A r \in Requests : FirstQueue(r) = EntryWorker
BY DEF OneProducer, Direct, PackedOnly, EntryWorker, ExitWorker, Workers, Other, FirstQueue, Requests

LEMMA PendingIs ==
  Pending = {r \in Submitted : ~work[r].done /\ ~work[r].abandoned}
BY DEF Pending, Done, Failed

LEMMA PendingNext ==
  Pending' = {r \in Submitted' : ~work'[r].done /\ ~work'[r].abandoned}
BY DEF Pending, Done, Failed

LEMMA SubmittedType == ASSUME TypeInv PROVE Submitted \subseteq Requests
BY DEF TypeInv, TypeOK, Submitted

LEMMA SubmittedSame == ASSUME order' = order PROVE Submitted' = Submitted
BY DEF Submitted

LEMMA PendingType == ASSUME TypeInv PROVE Pending \subseteq Requests
BY SubmittedType, PendingIs

LEMMA QueuedSame == ASSUME NEW q, LineSame(q) PROVE Queued(q)' = Queued(q)
BY DEF Queued, LineSame

LEMMA QueuedGrows ==
  ASSUME TypeInv, NEW q \in Queues, NEW item, LineGrows(q, item)
  PROVE  Queued(q)' = Queued(q) \cup ({item} \ {NULL})
<1>1. Size(q) \in Nat
  BY SizeType, Lengths
<1>2. 1 .. Size(q)' = (1 .. Size(q)) \cup {Size(q) + 1}
  BY <1>1 DEF LineGrows
<1>3. {Entry(q, k)' : k \in 1 .. Size(q)'} = {Entry(q, k) : k \in 1 .. Size(q)} \cup {item}
  BY <1>2 DEF LineGrows
<1> QED
  BY <1>3 DEF Queued

LEMMA QueuedShrinks ==
  ASSUME TypeInv, NEW q \in Queues, LineShrinks(q)
  PROVE  Queued(q) = Queued(q)' \cup ({Entry(q, 1)} \ {NULL})
<1>1. Size(q) \in Nat /\ Size(q) > 0 /\ Size(q)' = Size(q) - 1
  BY SizeType, Lengths DEF LineShrinks
<1>2. ASSUME NEW x \in {Entry(q, k) : k \in 1 .. Size(q)}
      PROVE  x \in {Entry(q, k)' : k \in 1 .. Size(q)'} \cup {Entry(q, 1)}
  <2>1. PICK k \in 1 .. Size(q) : x = Entry(q, k)
    BY <1>2
  <2>2. CASE k = 1
    BY <2>1, <2>2
  <2>3. CASE k # 1
    <3>1. k - 1 \in 1 .. Size(q)' /\ (k - 1) + 1 = k
      BY <1>1, <2>1, <2>3
    <3> QED
      BY <2>1, <3>1 DEF LineShrinks
  <2> QED
    BY <2>2, <2>3
<1>3. ASSUME NEW x \in {Entry(q, k)' : k \in 1 .. Size(q)'} \cup {Entry(q, 1)}
      PROVE  x \in {Entry(q, k) : k \in 1 .. Size(q)}
  <2>1. CASE x = Entry(q, 1)
    BY <1>1, <2>1 DEF LineShrinks
  <2>2. CASE x # Entry(q, 1)
    <3>1. PICK k \in 1 .. Size(q)' : x = Entry(q, k)'
      BY <1>3, <2>2
    <3>2. k + 1 \in 1 .. Size(q)
      BY <1>1
    <3> QED
      BY <3>1, <3>2 DEF LineShrinks
  <2> QED
    BY <2>1, <2>2
<1> QED
  BY <1>2, <1>3 DEF Queued

(* The order of submission. *)
LEMMA BeforeOnce ==
  ASSUME History, NEW a, NEW b, Before(a, b)
  PROVE  a # b /\ ~Before(b, a) /\ a \in Submitted /\ b \in Submitted
<1>1. PICK j, k \in 1 .. Len(order) : j < k /\ order[j] = a /\ order[k] = b
  BY DEF Before
<1>2. a # b
  BY <1>1 DEF History
<1>3. ~Before(b, a)
  <2> SUFFICES ASSUME NEW i \in 1 .. Len(order), NEW l \in 1 .. Len(order),
                      i < l, order[i] = b, order[l] = a
               PROVE  FALSE
    BY DEF Before
  <2>1. i = k /\ l = j
    BY <1>1 DEF History
  <2> QED
    BY <1>1, <2>1
<1> QED
  BY <1>1, <1>2, <1>3 DEF Submitted

LEMMA BeforeSame == ASSUME order' = order PROVE \A a, b : Before(a, b)' <=> Before(a, b)
BY DEF Before

(* The zones and the hand of the client are disjoint, and so are the hand and *)
(* the queue of a worker.                                                     *)
LEMMA Apart ==
  ASSUME OneProducer, TypeInv, PipeInv
  PROVE  /\ Zone(EntryWorker) \cap Zone(ExitWorker) = {}
         /\ \A q \in Queues : Zone(q) \cap ClientHand = {} /\ Hand(q) \cap Queued(q) = {}
<1>1. \A a : ~Before(a, a)
  BY BeforeOnce DEF PipeInv
<1>2. Zone(EntryWorker) \cap Zone(ExitWorker) = {}
  BY <1>1 DEF PipeInv, Sorted
<1>3. \A q \in Queues : Zone(q) \cap ClientHand = {}
  BY <1>1, Roles, Names DEF PipeInv, Sorted
<1>4. \A q \in Queues : Hand(q) \cap Queued(q) = {}
  BY <1>1 DEF PipeInv, Sorted, HandFirst, Hand, Queued
<1> QED
  BY <1>2, <1>3, <1>4

LEMMA Carrying ==
  ASSUME OneProducer, TypeInv, PipeInv, NEW t \in Workers, pc[t] \in {"push", "handover"}
  PROVE  /\ t = EntryWorker /\ cur[t] \in Requests \cap Compressed /\ cur[t] \in Pending
         /\ EntryWorker = "file" => ~DestroyEarly /\ pc["client"] \in {"ready", "submit"}
         /\ EntryWorker = "compress" =>
              pc["client"] \notin {"nullFile", "stopFile", "joinFile", "gone"}
<1>1. t = EntryWorker /\ cur[t] \in Compressed
  BY DEF PipeInv, Contents
<1>2. cur[t] \in Zone(t)
  BY DEF Zone, Hand, Holds
<1>3. cur[t] \in Requests /\ cur[t] \in Pending
  BY <1>2, Names DEF PipeInv, Contents, Whereabouts, Workers
<1>4. ASSUME EntryWorker = "file"
      PROVE  ~DestroyEarly /\ pc["client"] \in {"ready", "submit"}
  <2>1. ~DestroyEarly
    BY <1>1, <1>3, <1>4, Roles DEF Direct, Requests
  <2> QED
    BY <1>3, <2>1 DEF PipeInv, Stopping
<1>5. ASSUME EntryWorker = "compress"
      PROVE  pc["client"] \notin {"nullFile", "stopFile", "joinFile", "gone"}
  BY <1>1, <1>5 DEF PipeInv, Stopping
<1> QED
  BY <1>1, <1>3, <1>4, <1>5

LEMMA WorkerPusher ==
  ASSUME OneProducer, TypeInv, PipeInv, NEW q \in Queues, WorkerPushes(q)
  PROVE  /\ q = ExitWorker /\ ~ClientPushes(q) /\ ~Sent(q) /\ pc[EntryWorker] = "handover"
         /\ EntryWorker = "file" => ~DestroyEarly /\ pc["client"] \in {"ready", "submit"}
         /\ EntryWorker = "compress" =>
              pc["client"] \notin {"nullFile", "stopFile", "joinFile", "gone"}
<1>1. Other(q) \in Workers /\ pc[Other(q)] = "handover" /\ Other(Other(q)) = q
  BY Names DEF WorkerPushes
<1>2. /\ Other(q) = EntryWorker
      /\ EntryWorker = "file" => ~DestroyEarly /\ pc["client"] \in {"ready", "submit"}
      /\ EntryWorker = "compress" =>
           pc["client"] \notin {"nullFile", "stopFile", "joinFile", "gone"}
  BY <1>1, Carrying
<1>3. q = ExitWorker
  BY <1>1, <1>2, Roles
<1>4. (EntryWorker = "file" /\ q = "compress") \/ (EntryWorker = "compress" /\ q = "file")
  BY <1>2, <1>3, Roles DEF Workers
<1>5. ~(pc["client"] = "submit" /\ q = FirstQueue(cur["client"]))
  <2>1. pc["client"] = "submit" => cur["client"] \in Requests
    BY DEF PipeInv, Contents, ClientHand
  <2> QED
    BY <1>3, <2>1, Roles
<1>6. ~ClientPushes(q)
  BY <1>2, <1>4, <1>5 DEF ClientPushes
<1>7. ~Sent(q)
  BY <1>2, <1>4 DEF Sent
<1> QED
  BY <1>1, <1>2, <1>3, <1>6, <1>7

(* A step that moves no item: every line and every hand stays. *)
StillStep ==
  /\ \A q \in Queues : LineSame(q)
  /\ \A t \in Workers : (Holds(t)' <=> Holds(t)) /\ (Holds(t) => cur'[t] = cur[t])
  /\ ClientHand' = ClientHand
  /\ order' = order

LEMMA StillZones ==
  ASSUME TypeInv, StillStep
  PROVE  /\ \A q \in Queues : Zone(q)' = Zone(q) /\ Queued(q)' = Queued(q) /\ Hand(q)' = Hand(q)
         /\ Submitted' = Submitted
<1>1. \A q \in Queues : Queued(q)' = Queued(q)
  BY QueuedSame DEF StillStep
<1>2. \A q \in Queues : Hand(q)' = Hand(q)
  BY DEF StillStep, Hand, Queues, Workers
<1> QED
  BY <1>1, <1>2, SubmittedSame DEF Zone, StillStep

LEMMA StillOnward ==
  ASSUME OneProducer, TypeInv, StillStep, pc'[EntryWorker] = "run" <=> pc[EntryWorker] = "run"
  PROVE  Onward
<1>1. EntryWorker \in Queues /\ ExitWorker \in Queues
  BY Roles, Names
<1> QED
  BY <1>1, StillZones DEF Onward, Untouched, Handed, StillStep

LEMMA StillSorted ==
  ASSUME OneProducer, TypeInv, PipeInv, StillStep
  PROVE  Sorted'
<1>1. \A a, b : Before(a, b)' <=> Before(a, b)
  BY BeforeSame DEF StillStep
<1>2. ASSUME NEW q \in Queues, NEW k \in 1 .. Size(q)'
      PROVE  k \in 1 .. Size(q) /\ Entry(q, k)' = Entry(q, k)
  BY DEF StillStep, LineSame
<1>3. \A q \in Queues : LineSorted(q)'
  BY <1>1, <1>2 DEF PipeInv, Sorted, LineSorted
<1>4. \A q \in Queues : HandFirst(q)'
  BY <1>1, <1>2 DEF PipeInv, Sorted, HandFirst, StillStep, Queues, Workers
<1>5. ExitWorker \in Queues /\ EntryWorker \in Queues
  BY Roles, Names
<1>6. \A a \in Zone(ExitWorker)', b \in Zone(EntryWorker)' : Before(a, b)'
  BY <1>1, <1>5, StillZones DEF PipeInv, Sorted
<1>7. \A a \in Zone(EntryWorker)' \cup Zone(ExitWorker)', b \in ClientHand' : Before(a, b)'
  BY <1>1, <1>5, StillZones DEF PipeInv, Sorted, StillStep
<1> QED
  BY <1>3, <1>4, <1>6, <1>7 DEF Sorted

(* What a step leaves as it was in the work objects and their blocks. *)
WorkKept ==
  \A r \in Requests : /\ work'[r].op = work[r].op /\ work'[r].done = work[r].done
                      /\ work'[r].abandoned = work[r].abandoned
UnsubmittedKept == \A r \in Requests \ Submitted : work'[r] = work[r] /\ mem'[r] = mem[r]
BlocksKept == \A r \in Pending : mem'[r]["work"] = mem[r]["work"]

LEMMA HistoryKept ==
  ASSUME TypeInv, History, order' = order, UnsubmittedKept,
         \A r \in Submitted : work'[r].op = work[r].op
  PROVE  History'
<1>1. Submitted' = Submitted /\ Submitted \subseteq Requests
  BY SubmittedSame, SubmittedType
<1>2. \A j, k \in 1 .. Len(order') : order'[j] = order'[k] => j = k
  BY DEF History
<1>3. \A r \in Submitted' : work'[r].op = IF r \in Reads THEN "READ" ELSE "WRITE"
  BY <1>1 DEF History
<1>4. \A r \in Requests \ Submitted' : work'[r] = NoWork /\ \A b \in Blocks : mem'[r][b] = "none"
  BY <1>1 DEF History, UnsubmittedKept
<1> QED
  BY <1>2, <1>3, <1>4 DEF History

LEMMA StillWhereabouts ==
  ASSUME TypeInv, PipeInv, StillStep, WorkKept, BlocksKept
  PROVE  Pending' = Pending /\ Whereabouts'
<1>1. Pending' = Pending
  BY StillZones, PendingIs, PendingNext, SubmittedType DEF WorkKept
<1>2. Zone("file")' = Zone("file") /\ Zone("compress")' = Zone("compress")
  BY StillZones, Names
<1>3. ClientHand' = ClientHand
  BY DEF StillStep
<1>4. \A r \in Pending' : mem'[r]["work"] = "fs"
  BY <1>1 DEF BlocksKept, PipeInv, Whereabouts
<1>5. Pending' = Zone("file")' \cup Zone("compress")' \cup ClientHand'
  BY <1>1, <1>2, <1>3 DEF PipeInv, Whereabouts
<1> QED
  BY <1>1, <1>4, <1>5 DEF Whereabouts

LEMMA StillContents ==
  ASSUME OneProducer, TypeInv, PipeInv, StillStep,
         \A t \in Workers : pc'[t] \in {"push", "handover"} =>
                              t = EntryWorker /\ cur'[t] \in Compressed,
         pc'["client"] \in {"stopCompress", "stopFile"} => cur'["client"] = NULL
  PROVE  Contents'
<1>1. ExitWorker \in Queues
  BY Roles, Names
<1>2. \A q \in Queues : Zone(q)' \subseteq Requests
  BY StillZones DEF PipeInv, Contents
<1>3. ClientHand' \subseteq Requests
  BY DEF PipeInv, Contents, StillStep
<1>4. Zone(ExitWorker)' \subseteq Compressed
  BY <1>1, StillZones DEF PipeInv, Contents
<1> QED
  BY <1>2, <1>3, <1>4 DEF Contents

LEMMA StillStopping ==
  ASSUME TypeInv, PipeInv, StillStep, pc'["client"] = pc["client"], alive' = alive,
         Pending' = Pending, \A t \in Workers : pc'[t] = "exited" <=> pc[t] = "exited"
  PROVE  Stopping'
<1>1. \A q \in Queues : Sent(q)' <=> Sent(q)
  BY DEF Sent
<1>2. ASSUME NEW q \in Queues, NEW k \in 1 .. Size(q)', Entry(q, k)' = NULL
      PROVE  Sent(q)' /\ k = Size(q)'
  <2>1. Size(q)' = Size(q) /\ k \in 1 .. Size(q) /\ Entry(q, k) = NULL
    BY <1>2 DEF StillStep, LineSame
  <2> QED
    BY <1>1, <2>1 DEF PipeInv, Stopping, NullLast
<1>3. ASSUME NEW q \in Queues, pc'[q] = "exited"
      PROVE  Sent(q)' /\ Size(q)' = 0
  <2>1. pc[q] = "exited" /\ Size(q)' = Size(q)
    BY <1>3, Names DEF StillStep, LineSame
  <2> QED
    BY <1>1, <2>1 DEF PipeInv, Stopping
<1>4. pc'["compress"] = "exited" <=> pc["compress"] = "exited"
  BY DEF Workers
<1>5. pc'["file"] = "exited" <=> pc["file"] = "exited"
  BY DEF Workers
<1> QED
  BY <1>2, <1>3, <1>4, <1>5 DEF PipeInv, Stopping, NullLast

-----------------------------------------------------------------------------
(* The steps that move no item. *)

LEMMA PopPipe ==
  ASSUME OneProducer, TypeInv, PipeInv, NEW t \in Workers, Pop(t)
  PROVE  PipeInv' /\ Onward
<1>1. /\ pc[t] = "pop" /\ pc'[t] = "fetch" /\ \A o \in Threads \ {t} : pc'[o] = pc[o]
      /\ \A o \in Threads \ {t} : slot'[o] = slot[o]
      /\ \A q \in Queues \ {t} : queue'[q] = queue[q]
      /\ UNCHANGED <<alive, cur, work, mem, order>>
  BY TwoWorkers DEF Pop, Goto, TypeInv, TypeOK
<1>2. pc'["client"] = pc["client"] /\ pc'[Other(t)] = pc[Other(t)]
      /\ slot'["client"] = slot["client"] /\ slot'[Other(t)] = slot[Other(t)]
  BY <1>1, TwoWorkers, Names
<1>3. \A q \in Queues : ClientPushes(q)' <=> ClientPushes(q)
  BY <1>1, <1>2 DEF ClientPushes
<1>4. \A q \in Queues : WorkerPushes(q)' <=> WorkerPushes(q)
  BY <1>1, <1>2, TwoWorkers DEF WorkerPushes
<1>5. Ring(t)' /\ LineSame(t)
  BY <1>3, <1>4, TwoWorkers, RingPop DEF PipeInv
<1>6. Ring(Other(t))' /\ LineSame(Other(t))
  <2> DEFINE q == Other(t)
  <2>1. q \in Queues /\ queue'[q] = queue[q] /\ Other(q) = t /\ pc'[q] = pc[q]
        /\ slot'[q] = slot[q] /\ Ring(q)
    BY <1>1, <1>2, TwoWorkers DEF PipeInv
  <2>2. ~WorkerPushes(q)
    BY <1>1, <2>1 DEF WorkerPushes
  <2> HIDE DEF q
  <2>3. Ring(q)' /\ LineSame(q)
    BY <1>2, <1>3, <1>4, <2>1, <2>2, RingSame
  <2> QED
    BY <2>3 DEF q
<1>7. StillStep
  <2>1. \A w \in Workers : Holds(w)' <=> Holds(w)
    BY <1>1, Names DEF Holds
  <2>2. ClientHand' = ClientHand
    BY <1>1, <1>2 DEF ClientHand
  <2> QED
    BY <1>1, <1>5, <1>6, <2>1, <2>2, TwoWorkers DEF StillStep
<1>8. WorkKept /\ UnsubmittedKept /\ BlocksKept
  BY <1>1 DEF WorkKept, UnsubmittedKept, BlocksKept
<1>9. Contents'
  <2>1. \A w \in Workers : pc'[w] \in {"push", "handover"} => pc[w] \in {"push", "handover"}
    BY <1>1, Names
  <2> QED
    BY <1>1, <1>2, <1>7, <2>1, StillContents DEF PipeInv, Contents
<1>10. Pending' = Pending /\ Whereabouts'
  BY <1>7, <1>8, StillWhereabouts
<1>11. History'
  BY <1>1, <1>8, HistoryKept DEF PipeInv
<1>12. Stopping'
  <2>1. \A w \in Workers : pc'[w] = "exited" <=> pc[w] = "exited"
    BY <1>1, Names
  <2> QED
    BY <1>1, <1>2, <1>7, <1>10, <2>1, StillStopping
<1>13. Onward
  <2>1. pc'[EntryWorker] = "run" <=> pc[EntryWorker] = "run"
    BY <1>1, Roles, Names
  <2> QED
    BY <1>7, <2>1, StillOnward
<1> QED
  BY <1>13, <1>5, <1>6, <1>7, <1>9, <1>10, <1>11, <1>12, StillSorted, TwoWorkers DEF PipeInv

LEMMA HandlerRings ==
  ASSUME TypeInv, PipeInv, NEW t \in Workers, NEW step \in {"pop", "push"}, pc[t] = "run",
         Goto(t, step), HandlerFrame
  PROVE  /\ pc'[t] = step /\ \A o \in Threads \ {t} : pc'[o] = pc[o]
         /\ pc'["client"] = pc["client"] /\ pc'[Other(t)] = pc[Other(t)]
         /\ \A q \in Queues : Ring(q)' /\ LineSame(q)
<1>1. /\ pc'[t] = step /\ \A o \in Threads \ {t} : pc'[o] = pc[o]
      /\ UNCHANGED <<queue, alive, cur, slot, order>>
  BY TwoWorkers DEF Goto, HandlerFrame, TypeInv, TypeOK
<1>2. pc'["client"] = pc["client"] /\ pc'[Other(t)] = pc[Other(t)]
  BY <1>1, TwoWorkers, Names
<1>3. \A q \in Queues : ClientPushes(q)' <=> ClientPushes(q)
  BY <1>1, <1>2 DEF ClientPushes
<1>4. \A q \in Queues : WorkerPushes(q)' <=> WorkerPushes(q)
  BY <1>1, <1>2, TwoWorkers DEF WorkerPushes
<1>5. \A q \in Queues : pc'[q] = "fetch" <=> pc[q] = "fetch"
  BY <1>1, <1>2, TwoWorkers
<1>6. ASSUME NEW q \in Queues PROVE Ring(q)' /\ LineSame(q)
  BY <1>1, <1>3, <1>4, <1>5, RingSame DEF PipeInv
<1> QED
  BY <1>1, <1>2, <1>6

(* A handler that goes on to the other worker. *)
LEMMA CarryPipe ==
  ASSUME OneProducer, TypeInv, PipeInv, NEW t \in Workers, pc[t] = "run",
         Goto(t, "push"), HandlerFrame, t = EntryWorker, cur[t] \in Compressed,
         WorkKept, UnsubmittedKept, BlocksKept
  PROVE  /\ PipeInv'
         /\ Untouched' \subseteq Untouched \ {cur[t]} /\ Handed' \subseteq Handed \cup {cur[t]}
<1>1. /\ pc'[t] = "push" /\ \A o \in Threads \ {t} : pc'[o] = pc[o]
      /\ pc'["client"] = pc["client"]
      /\ \A q \in Queues : Ring(q)' /\ LineSame(q)
      /\ UNCHANGED <<queue, alive, cur, slot, order>>
  BY HandlerRings DEF HandlerFrame
<1>2. StillStep
  <2>1. \A w \in Workers : Holds(w)' <=> Holds(w)
    BY <1>1, Names DEF Holds
  <2>2. ClientHand' = ClientHand
    BY <1>1 DEF ClientHand
  <2> QED
    BY <1>1, <2>1, <2>2 DEF StillStep
<1>3. Contents'
  <2>1. \A w \in Workers : pc'[w] \in {"push", "handover"} =>
                             w = t \/ pc[w] \in {"push", "handover"}
    BY <1>1, Names
  <2> QED
    BY <1>1, <1>2, <2>1, StillContents DEF PipeInv, Contents
<1>4. Pending' = Pending /\ Whereabouts'
  BY <1>2, StillWhereabouts
<1>5. History'
  BY <1>1, HistoryKept, SubmittedType DEF PipeInv, WorkKept
<1>6. Stopping'
  <2>1. \A w \in Workers : pc'[w] = "exited" <=> pc[w] = "exited"
    BY <1>1, Names
  <2> QED
    BY <1>1, <1>2, <1>4, <2>1, StillStopping
<1>7. cur[t] \notin Queued(t) /\ cur[t] \notin ClientHand
  <2>1. Hand(t) = {cur[t]} /\ t \in Queues
    BY Names DEF Hand, Holds
  <2> QED
    BY <2>1, Apart DEF Zone
<1>8. Untouched' \subseteq Untouched \ {cur[t]} /\ Handed' \subseteq Handed \cup {cur[t]}
  <2>1. Zone(ExitWorker)' = Zone(ExitWorker) /\ Queued(t)' = Queued(t) /\ ClientHand' = ClientHand
    BY <1>2, StillZones, Roles, Names DEF StillStep
  <2>2. pc'[t] # "run" /\ Hand(t)' \subseteq {cur[t]}
    BY <1>1 DEF Hand
  <2> QED
    BY <1>7, <2>1, <2>2 DEF Untouched, Handed
<1> QED
  BY <1>1, <1>2, <1>3, <1>4, <1>5, <1>6, <1>8, StillSorted DEF PipeInv

(* The caller frees a buffer or a work object; a step that changes nothing. *)
LEMMA DataStepPipe ==
  ASSUME OneProducer, TypeInv, PipeInv, UNCHANGED <<queue, alive, pc, cur, slot, order>>,
         WorkKept, UnsubmittedKept, BlocksKept
  PROVE  PipeInv' /\ Onward
<1>1. \A q \in Queues : ClientPushes(q)' <=> ClientPushes(q)
  BY DEF ClientPushes
<1>2. \A q \in Queues : WorkerPushes(q)' <=> WorkerPushes(q)
  BY DEF WorkerPushes
<1>3. \A q \in Queues : Ring(q)' /\ LineSame(q)
  BY <1>1, <1>2, RingSame DEF PipeInv
<1>4. StillStep
  BY <1>3 DEF StillStep, Holds, ClientHand
<1>5. Contents'
  BY <1>4, StillContents DEF PipeInv, Contents
<1>6. Pending' = Pending /\ Whereabouts'
  BY <1>4, StillWhereabouts
<1>7. History'
  BY HistoryKept, SubmittedType DEF PipeInv, WorkKept
<1>8. Stopping'
  BY <1>4, <1>6, StillStopping
<1>9. Onward
  BY <1>4, StillOnward
<1> QED
  BY <1>9, <1>3, <1>4, <1>5, <1>6, <1>7, <1>8, StillSorted DEF PipeInv

LEMMA HandOverPipe ==
  ASSUME OneProducer, TypeInv, PipeInv, NEW t \in Workers, HandOver(t)
  PROVE  PipeInv' /\ Onward
<1> DEFINE q == Other(t)
<1>1. /\ pc[t] = "push" /\ pc'[t] = "handover" /\ \A o \in Threads \ {t} : pc'[o] = pc[o]
      /\ queue'[q] = PushClaim(queue[q]) /\ queue'[t] = queue[t]
      /\ slot'[t] = queue[q].tail /\ \A o \in Threads \ {t} : slot'[o] = slot[o]
      /\ cur' = cur
      /\ UNCHANGED <<alive, work, mem, order>>
  BY TwoWorkers DEF HandOver, StartPush, Goto, TypeInv, TypeOK
<1>2. /\ pc'["client"] = pc["client"] /\ pc'[q] = pc[q]
      /\ slot'["client"] = slot["client"] /\ slot'[q] = slot[q]
      /\ q \in Queues /\ Other(q) = t /\ t \in Queues /\ t \in Threads
  BY <1>1, TwoWorkers, Names
<1>3. \A p \in Queues : ClientPushes(p)' <=> ClientPushes(p)
  BY <1>1, <1>2 DEF ClientPushes
<1>4. ~WorkerPushes(q) /\ WorkerPushes(q)' /\ (WorkerPushes(t)' <=> WorkerPushes(t))
  BY <1>1, <1>2 DEF WorkerPushes
<1>5. ~ClientPushes(q)
  <2>1. q = ExitWorker /\ t = EntryWorker
    BY <1>1, Carrying, Roles
  <2>2. /\ EntryWorker = "file" => pc["client"] \in {"ready", "submit"}
        /\ EntryWorker = "compress" =>
             pc["client"] \notin {"nullFile", "stopFile", "joinFile", "gone"}
    BY <1>1, Carrying
  <2>3. (t = "file" /\ q = "compress") \/ (t = "compress" /\ q = "file")
    BY DEF Workers, Other
  <2>4. ~(pc["client"] = "submit" /\ q = FirstQueue(cur["client"]))
    <3>1. pc["client"] = "submit" => cur["client"] \in Requests
      BY DEF PipeInv, Contents, ClientHand
    <3> QED
      BY <2>1, <3>1, Roles
  <2> QED
    BY <2>1, <2>2, <2>3, <2>4 DEF ClientPushes
<1> HIDE DEF q
<1>6. Ring(q)' /\ LineSame(q)
  BY <1>1, <1>2, <1>3, <1>4, <1>5, RingStart DEF PipeInv
<1>7. Ring(t)' /\ LineSame(t)
  <2>1. slot'[Other(t)] = slot[Other(t)] /\ pc'[t] # "fetch" /\ pc[t] # "fetch"
    BY <1>1, <1>2 DEF q
  <2> QED
    BY <1>1, <1>2, <1>3, <1>4, <2>1, RingSame DEF PipeInv
<1>8. \A p \in Queues : Ring(p)' /\ LineSame(p)
  BY <1>6, <1>7, TwoWorkers DEF q
<1>9. StillStep
  <2>1. \A w \in Workers : Holds(w)' <=> Holds(w)
    BY <1>1, Names DEF Holds
  <2>2. ClientHand' = ClientHand
    BY <1>1, <1>2 DEF ClientHand
  <2> QED
    BY <1>1, <1>8, <2>1, <2>2 DEF StillStep
<1>10. Contents'
  <2>1. \A w \in Workers : pc'[w] \in {"push", "handover"} => pc[w] \in {"push", "handover"}
    BY <1>1, Names
  <2> QED
    BY <1>1, <1>2, <1>9, <2>1, StillContents DEF PipeInv, Contents
<1>11. WorkKept /\ UnsubmittedKept /\ BlocksKept
  BY <1>1 DEF WorkKept, UnsubmittedKept, BlocksKept
<1>12. Pending' = Pending /\ Whereabouts'
  BY <1>9, <1>11, StillWhereabouts
<1>13. History'
  BY <1>1, <1>11, HistoryKept DEF PipeInv
<1>14. Stopping'
  <2>1. \A w \in Workers : pc'[w] = "exited" <=> pc[w] = "exited"
    BY <1>1, Names
  <2> QED
    BY <1>1, <1>2, <1>9, <1>12, <2>1, StillStopping
<1>15. Onward
  <2>1. pc'[EntryWorker] = "run" <=> pc[EntryWorker] = "run"
    BY <1>1, Roles, Names
  <2> QED
    BY <1>9, <2>1, StillOnward
<1> QED
  BY <1>15, <1>8, <1>9, <1>10, <1>12, <1>13, <1>14, StillSorted DEF PipeInv

-----------------------------------------------------------------------------
(* The client's steps. *)

LEMMA ClientStartRings ==
  ASSUME OneProducer, TypeInv, PipeInv, NEW q \in Queues, NEW item, NEW step,
         StartPush("client", q, item), Goto("client", step), ~WorkerPushes(q),
         \A p \in Queues : ~ClientPushes(p), \A p \in Queues : ClientPushes(p)' <=> p = q
  PROVE  /\ pc'["client"] = step /\ \A t \in Workers : pc'[t] = pc[t]
         /\ cur'["client"] = item /\ \A t \in Workers : cur'[t] = cur[t]
         /\ \A p \in Queues : Ring(p)' /\ LineSame(p)
<1>1. /\ pc'["client"] = step /\ \A o \in Threads \ {"client"} : pc'[o] = pc[o]
      /\ cur'["client"] = item /\ \A o \in Threads \ {"client"} : cur'[o] = cur[o]
      /\ slot'["client"] = queue[q].tail /\ \A o \in Threads \ {"client"} : slot'[o] = slot[o]
      /\ queue'[q] = PushClaim(queue[q]) /\ \A p \in Queues \ {q} : queue'[p] = queue[p]
  BY Names DEF StartPush, Goto, TypeInv, TypeOK
<1>2. \A t \in Workers : pc'[t] = pc[t] /\ cur'[t] = cur[t] /\ slot'[t] = slot[t]
  BY <1>1, Names
<1>3. ASSUME NEW p \in Queues
      PROVE  /\ pc'[p] = pc[p] /\ slot'[p] = slot[p] /\ slot'[Other(p)] = slot[Other(p)]
             /\ WorkerPushes(p)' <=> WorkerPushes(p)
  BY <1>2, Names DEF WorkerPushes
<1>4. Ring(q)' /\ LineSame(q)
  BY <1>1, <1>3, Names, RingStart DEF PipeInv
<1>5. ASSUME NEW p \in Queues \ {q} PROVE Ring(p)' /\ LineSame(p)
  BY <1>1, <1>3, RingSame DEF PipeInv
<1> QED
  BY <1>1, <1>2, <1>4, <1>5

LEMMA ClientEndRings ==
  ASSUME OneProducer, TypeInv, PipeInv, NEW q \in Queues, NEW step,
         EndPush("client", q), Goto("client", step),
         \A p \in Queues : ClientPushes(p) <=> p = q, \A p \in Queues : ~ClientPushes(p)'
  PROVE  /\ pc'["client"] = step /\ \A t \in Workers : pc'[t] = pc[t]
         /\ \A p \in Queues : Ring(p)'
         /\ LineGrows(q, cur["client"]) /\ \A p \in Queues \ {q} : LineSame(p)
<1>1. /\ pc'["client"] = step /\ \A o \in Threads \ {"client"} : pc'[o] = pc[o]
      /\ queue'[q] = PushWrite(queue[q], slot["client"], cur["client"])
      /\ \A p \in Queues \ {q} : queue'[p] = queue[p]
      /\ slot' = slot
  BY Names DEF EndPush, Goto, TypeInv, TypeOK
<1>2. \A t \in Workers : pc'[t] = pc[t]
  BY <1>1, Names
<1>3. ASSUME NEW p \in Queues
      PROVE  pc'[p] = pc[p] /\ (WorkerPushes(p)' <=> WorkerPushes(p))
  BY <1>2, Names DEF WorkerPushes
<1>4. ~WorkerPushes(q)
  BY WorkerPusher
<1>5. Ring(q)' /\ LineGrows(q, cur["client"])
  BY <1>1, <1>3, <1>4, Names, RingEnd DEF PipeInv
<1>6. ASSUME NEW p \in Queues \ {q} PROVE Ring(p)' /\ LineSame(p)
  BY <1>1, <1>3, RingSame DEF PipeInv
<1> QED
  BY <1>1, <1>2, <1>5, <1>6

(* fsDestroy begins to push NULL. *)
LEMMA ClientStopPipe ==
  ASSUME OneProducer, TypeInv, PipeInv, FsDestroy \/ NullFile
  PROVE  PipeInv' /\ Onward
<1>1. PICK q \in Queues, step \in {"stopCompress", "stopFile"} :
        /\ StartPush("client", q, NULL) /\ Goto("client", step)
        /\ UNCHANGED <<alive, work, mem, order>>
        /\ \/ /\ pc["client"] = "ready" /\ step = "stopCompress" /\ q = "compress"
              /\ DestroyEarly \/ Pending = {}
           \/ pc["client"] = "nullFile" /\ step = "stopFile" /\ q = "file"
  BY DEF FsDestroy, NullFile, Queues
<1>2. pc'["client"] = step
  BY <1>1, Names DEF Goto, TypeInv, TypeOK
<1>3. \A p \in Queues : ~ClientPushes(p)
  BY <1>1 DEF ClientPushes
<1>4. \A p \in Queues : ClientPushes(p)' <=> p = q
  BY <1>1, <1>2 DEF ClientPushes
<1>5. ~WorkerPushes(q)
  <2> SUFFICES ASSUME WorkerPushes(q) PROVE FALSE
    OBVIOUS
  <2>1. pc[EntryWorker] = "handover" /\ EntryWorker \in Workers /\ q = ExitWorker
    BY WorkerPusher, Roles
  <2>2. CASE pc["client"] = "ready"
    <3>1. EntryWorker = "file"
      BY <1>1, <2>1, <2>2, Roles DEF Workers
    <3>2. ~DestroyEarly
      BY <3>1, WorkerPusher
    <3>3. cur[EntryWorker] \in Pending
      BY <2>1, Carrying
    <3> QED
      BY <1>1, <2>2, <3>2, <3>3
  <2>3. CASE pc["client"] = "nullFile"
    <3>1. EntryWorker = "compress"
      BY <1>1, <2>1, <2>3, Roles DEF Workers
    <3> QED
      BY <2>3, <3>1, WorkerPusher
  <2> QED
    BY <1>1, <2>2, <2>3
<1>6. /\ \A t \in Workers : pc'[t] = pc[t]
      /\ cur'["client"] = NULL /\ \A t \in Workers : cur'[t] = cur[t]
      /\ \A p \in Queues : Ring(p)' /\ LineSame(p)
  BY <1>1, <1>3, <1>4, <1>5, ClientStartRings
<1>7. StillStep
  <2>1. \A w \in Workers : Holds(w)' <=> Holds(w)
    BY <1>6 DEF Holds
  <2>2. ClientHand' = ClientHand
    BY <1>1, <1>2 DEF ClientHand
  <2> QED
    BY <1>1, <1>6, <2>1, <2>2 DEF StillStep
<1>8. Contents'
  BY <1>6, <1>7, StillContents DEF PipeInv, Contents
<1>9. WorkKept /\ UnsubmittedKept /\ BlocksKept
  BY <1>1 DEF WorkKept, UnsubmittedKept, BlocksKept
<1>10. Pending' = Pending /\ Whereabouts'
  BY <1>7, <1>9, StillWhereabouts
<1>11. History'
  BY <1>1, <1>9, HistoryKept DEF PipeInv
<1>12. Stopping'
  <2>1. \A p \in Queues : Sent(p)' <=> Sent(p)
    BY <1>1, <1>2 DEF Sent, Queues
  <2>2. \A p \in Queues : Size(p)' = Size(p) /\ (pc'[p] = "exited" <=> pc[p] = "exited")
    BY <1>6, Names DEF LineSame
  <2>3. \A p \in Queues : NullLast(p)'
    BY <1>6, <2>1, <2>2 DEF LineSame, PipeInv, Stopping, NullLast
  <2>4. \A p \in Queues : pc'[p] = "exited" => Sent(p)' /\ Size(p)' = 0
    BY <2>1, <2>2 DEF PipeInv, Stopping
  <2>5. pc'["client"] \in {"nullFile", "stopFile", "joinFile", "gone"} => pc'["compress"] = "exited"
    BY <1>1, <1>2, <2>2 DEF PipeInv, Stopping, Queues
  <2>6. pc'["client"] # "gone" /\ alive' = alive /\ alive["file"]
    BY <1>1, <1>2 DEF PipeInv, Stopping
  <2>7. ~alive'["compress"] => pc'["client"] \in {"nullFile", "stopFile", "joinFile", "gone"}
    BY <1>1, <1>2 DEF PipeInv, Stopping
  <2>8. ~DestroyEarly => Pending' = {}
    BY <1>1, <1>10 DEF PipeInv, Stopping
  <2> QED
    BY <2>3, <2>4, <2>5, <2>6, <2>7, <2>8 DEF Stopping
<1>13. Onward
  BY <1>6, <1>7, Roles, StillOnward
<1> QED
  BY <1>13, <1>6, <1>7, <1>8, <1>10, <1>11, <1>12, StillSorted DEF PipeInv

LEMMA JoinsPipe ==
  ASSUME OneProducer, TypeInv, PipeInv, JoinCompress \/ JoinFile
  PROVE  PipeInv' /\ Onward
<1>1. PICK q \in Queues, step \in {"nullFile", "gone"} :
        /\ Goto("client", step) /\ alive' = [alive EXCEPT ![q] = FALSE] /\ pc[q] = "exited"
        /\ UNCHANGED <<queue, cur, slot, work, mem, order>>
        /\ \/ pc["client"] = "joinCompress" /\ step = "nullFile" /\ q = "compress"
           \/ pc["client"] = "joinFile" /\ step = "gone" /\ q = "file"
  BY Names DEF JoinCompress, JoinFile, Joined
<1>2. pc'["client"] = step /\ \A t \in Workers : pc'[t] = pc[t]
  BY <1>1, Names DEF Goto, TypeInv, TypeOK
<1>3. \A p \in Queues : ClientPushes(p)' <=> ClientPushes(p)
  BY <1>1, <1>2 DEF ClientPushes
<1>4. \A p \in Queues : (WorkerPushes(p)' <=> WorkerPushes(p)) /\ pc'[p] = pc[p]
  BY <1>2, Names DEF WorkerPushes
<1>5. \A p \in Queues : Ring(p)' /\ LineSame(p)
  BY <1>1, <1>3, <1>4, RingSame DEF PipeInv
<1>6. StillStep
  <2>1. \A w \in Workers : Holds(w)' <=> Holds(w)
    BY <1>2 DEF Holds
  <2>2. ClientHand' = ClientHand
    BY <1>1, <1>2 DEF ClientHand
  <2> QED
    BY <1>1, <1>5, <2>1, <2>2 DEF StillStep
<1>7. Contents'
  BY <1>1, <1>2, <1>6, StillContents DEF PipeInv, Contents
<1>8. WorkKept /\ UnsubmittedKept /\ BlocksKept
  BY <1>1 DEF WorkKept, UnsubmittedKept, BlocksKept
<1>9. Pending' = Pending /\ Whereabouts'
  BY <1>6, <1>8, StillWhereabouts
<1>10. History'
  BY <1>1, <1>8, HistoryKept DEF PipeInv
<1>11. Stopping'
  <2>1. \A p \in Queues : Sent(p) => Sent(p)'
    BY <1>1, <1>2 DEF Sent, Queues
  <2>2. \A p \in Queues : Size(p)' = Size(p) /\ (pc'[p] = "exited" <=> pc[p] = "exited")
    BY <1>4, <1>5 DEF LineSame
  <2>3. \A p \in Queues : NullLast(p)'
    BY <1>5, <2>1, <2>2 DEF LineSame, PipeInv, Stopping, NullLast
  <2>4. \A p \in Queues : pc'[p] = "exited" => Sent(p)' /\ Size(p)' = 0
    BY <2>1, <2>2 DEF PipeInv, Stopping
  <2>5. pc'["client"] \in {"nullFile", "stopFile", "joinFile", "gone"} => pc'["compress"] = "exited"
    BY <1>1, <1>2, <2>2, Names DEF PipeInv, Stopping
  <2>6. pc'["client"] = "gone" => pc'["file"] = "exited"
    BY <1>1, <1>2, <2>2, Names
  <2>7. ~alive'["compress"] => pc'["client"] \in {"nullFile", "stopFile", "joinFile", "gone"}
    BY <1>1, <1>2
  <2>8. ~alive'["file"] => pc'["client"] = "gone"
    BY <1>1, <1>2, Names DEF PipeInv, Stopping, TypeInv, TypeOK
  <2>9. ~DestroyEarly => Pending' = {}
    BY <1>1, <1>9 DEF PipeInv, Stopping
  <2> QED
    BY <2>3, <2>4, <2>5, <2>6, <2>7, <2>8, <2>9 DEF Stopping
<1>12. Onward
  BY <1>2, <1>6, Roles, StillOnward
<1> QED
  BY <1>12, <1>5, <1>6, <1>7, <1>9, <1>10, <1>11, StillSorted DEF PipeInv

(* fsRead, fsWrite: a new work object, in the client's hand. *)
LEMMA SubmitEffect ==
  ASSUME TypeInv, History, NEW r \in Requests, Submit(r)
  PROVE  /\ r \notin Submitted /\ Submitted' = Submitted \cup {r}
         /\ Pending' = Pending \cup {r} /\ Done' = Done
         /\ work'[r] = NewWork(r) /\ \A x \in Requests \ {r} : work'[x] = work[x]
         /\ mem'[r]["work"] = "fs" /\ \A x \in Requests \ {r} : mem'[x] = mem[x]
         /\ Len(order) \in Nat /\ Len(order') = Len(order) + 1
         /\ \A k \in 1 .. Len(order) : order'[k] = order[k]
         /\ order'[Len(order) + 1] = r
         /\ \A a, b : Before(a, b) => Before(a, b)'
         /\ \A a, b : Before(a, b)' /\ b # r => a # r /\ Before(a, b)
         /\ \A a \in Submitted : Before(a, r)'
<1>1. /\ r \notin Submitted
      /\ work' = [work EXCEPT ![r] = NewWork(r)] /\ order' = Append(order, r)
  BY DEF Submit
<1>2. /\ \A x \in Requests \ {r} : work'[x] = work[x] /\ mem'[x] = mem[x]
      /\ work'[r] = NewWork(r) /\ mem'[r]["work"] = "fs"
  <2>1. \A x \in Requests \ {r} : work'[x] = work[x]
    BY <1>1 DEF TypeInv, TypeOK
  <2>2. \A x \in Requests \ {r} : mem'[x] = mem[x]
    BY DEF Submit, Alloc, TypeInv, TypeOK
  <2>3. mem'[r]["work"] = "fs"
    BY DEF Submit, Alloc, TypeInv, TypeOK, Blocks
  <2>4. work'[r] = NewWork(r)
    BY <1>1 DEF TypeInv, TypeOK
  <2> QED
    BY <2>1, <2>2, <2>3, <2>4
<1>3. ~NewWork(r).done /\ ~NewWork(r).abandoned
  BY DEF NewWork, NoWork
<1>4. /\ Len(order) \in Nat /\ Len(order') = Len(order) + 1
      /\ \A k \in 1 .. Len(order) : order'[k] = order[k]
      /\ order'[Len(order) + 1] = r
  BY <1>1 DEF TypeInv, TypeOK
<1>5. Submitted' = Submitted \cup {r}
  <2>1. 1 .. Len(order') = (1 .. Len(order)) \cup {Len(order) + 1}
    BY <1>4
  <2> QED
    BY <1>4, <2>1 DEF Submitted
<1>6. Pending' = Pending \cup {r}
  BY <1>1, <1>2, <1>3, <1>5, PendingIs, PendingNext, SubmittedType
<1>7. Done' = Done
  BY <1>1, <1>2, <1>3, <1>5, SubmittedType DEF Done
<1>8. ASSUME NEW a, NEW b, Before(a, b) PROVE Before(a, b)'
  BY <1>4, <1>8 DEF Before
<1>9. ASSUME NEW a \in Submitted PROVE Before(a, r)'
  <2>1. PICK k \in 1 .. Len(order) : order[k] = a
    BY DEF Submitted
  <2>2. k \in 1 .. Len(order') /\ Len(order) + 1 \in 1 .. Len(order') /\ k < Len(order) + 1
    BY <1>4
  <2> QED
    BY <1>4, <2>1, <2>2 DEF Before
<1>10. ASSUME NEW a, NEW b, Before(a, b)', b # r PROVE a # r /\ Before(a, b)
  <2>1. PICK j, k \in 1 .. Len(order') : j < k /\ order'[j] = a /\ order'[k] = b
    BY <1>10 DEF Before
  <2>2. k \in 1 .. Len(order) /\ j \in 1 .. Len(order)
    BY <1>4, <1>10, <2>1
  <2> QED
    BY <1>1, <1>4, <2>1, <2>2 DEF Before, Submitted
<1> QED
  BY <1>1, <1>2, <1>4, <1>5, <1>6, <1>7, <1>8, <1>9, <1>10

LEMMA SubmitPipe ==
  ASSUME OneProducer, TypeInv, PipeInv, NEW r \in Requests, Submit(r)
  PROVE  PipeInv' /\ Untouched' \subseteq Untouched \cup {r} /\ Handed' \subseteq Handed
<1> DEFINE q == EntryWorker
<1>1. /\ pc["client"] = "ready" /\ r \notin Submitted
      /\ StartPush("client", q, r) /\ Goto("client", "submit")
      /\ work' = [work EXCEPT ![r] = NewWork(r)] /\ order' = Append(order, r)
      /\ alive' = alive /\ q \in Queues
  BY Roles, Names DEF Submit
<1>2. pc'["client"] = "submit" /\ cur'["client"] = r
  BY <1>1, Names DEF Goto, StartPush, TypeInv, TypeOK
<1>3. \A p \in Queues : ~ClientPushes(p)
  BY <1>1 DEF ClientPushes
<1>4. \A p \in Queues : ClientPushes(p)' <=> p = q
  BY <1>2, Roles DEF ClientPushes
<1>5. ~WorkerPushes(q)
  BY <1>1, WorkerPusher, Roles
<1>6. /\ \A t \in Workers : pc'[t] = pc[t] /\ cur'[t] = cur[t]
      /\ \A p \in Queues : Ring(p)' /\ LineSame(p)
  BY <1>1, <1>3, <1>4, <1>5, ClientStartRings
<1>7. /\ \A x \in Requests \ {r} : work'[x] = work[x] /\ mem'[x] = mem[x]
      /\ work'[r] = NewWork(r) /\ mem'[r]["work"] = "fs"
      /\ Submitted' = Submitted \cup {r} /\ Pending' = Pending \cup {r}
  BY SubmitEffect DEF PipeInv
<1>8. NewWork(r).op = IF r \in Reads THEN "READ" ELSE "WRITE"
  BY DEF NewWork, NoWork
<1>9. /\ Len(order) \in Nat /\ Len(order') = Len(order) + 1
      /\ \A k \in 1 .. Len(order) : order'[k] = order[k]
      /\ order'[Len(order) + 1] = r
  BY SubmitEffect DEF PipeInv
<1>10. ASSUME NEW a, NEW b, Before(a, b) PROVE Before(a, b)'
  BY <1>10, SubmitEffect DEF PipeInv
<1>11. ASSUME NEW a \in Submitted PROVE Before(a, r)'
  BY SubmitEffect DEF PipeInv
<1>12. /\ ClientHand' = {r} /\ ClientHand = {}
       /\ \A p \in Queues : Queued(p)' = Queued(p) /\ Hand(p)' = Hand(p)
       /\ \A p \in Queues : Zone(p)' = Zone(p) /\ Zone(p) \subseteq Pending
  <2>1. ClientHand' = {r} /\ ClientHand = {}
    BY <1>1, <1>2 DEF ClientHand
  <2>2. ASSUME NEW p \in Queues
        PROVE  Queued(p)' = Queued(p) /\ Hand(p)' = Hand(p) /\ Zone(p)' = Zone(p)
    <3>1. Queued(p)' = Queued(p)
      BY <1>6, QueuedSame
    <3>2. Hand(p)' = Hand(p)
      BY <1>6, Names DEF Hand, Holds
    <3> QED
      BY <3>1, <3>2 DEF Zone
  <2> QED
    BY <2>1, <2>2 DEF PipeInv, Whereabouts, Queues
<1>13. Contents'
  BY <1>2, <1>6, <1>12, Roles, Names DEF PipeInv, Contents
<1>14. History'
  <2>1. \A j, k \in 1 .. Len(order') : order'[j] = order'[k] => j = k
    BY <1>1, <1>9 DEF PipeInv, History, Submitted
  <2>2. \A x \in Submitted' : work'[x].op = IF x \in Reads THEN "READ" ELSE "WRITE"
    BY <1>7, <1>8, SubmittedType DEF PipeInv, History
  <2>3. \A x \in Requests \ Submitted' :
          work'[x] = NoWork /\ \A b \in Blocks : mem'[x][b] = "none"
    BY <1>7 DEF PipeInv, History
  <2> QED
    BY <2>1, <2>2, <2>3 DEF History
<1>15. Whereabouts'
  <2>1. Pending' = Zone("file")' \cup Zone("compress")' \cup ClientHand'
    BY <1>7, <1>12, Names DEF PipeInv, Whereabouts
  <2>2. \A x \in Pending' : mem'[x]["work"] = "fs"
    BY <1>7, PendingType DEF PipeInv, Whereabouts
  <2> QED
    BY <2>1, <2>2 DEF Whereabouts
<1>16. Sorted'
  <2>1. \A p \in Queues : LineSorted(p)'
    BY <1>6, <1>10 DEF PipeInv, Sorted, LineSorted, LineSame
  <2>2. \A p \in Queues : HandFirst(p)'
    BY <1>6, <1>10, Names DEF PipeInv, Sorted, HandFirst, LineSame, Holds
  <2>3. ExitWorker \in Queues /\ EntryWorker \in Queues
    BY Roles, Names
  <2>4. \A a \in Zone(ExitWorker)', b \in Zone(EntryWorker)' : Before(a, b)'
    BY <1>10, <1>12, <2>3 DEF PipeInv, Sorted
  <2>5. \A a \in Zone(EntryWorker)' \cup Zone(ExitWorker)', b \in ClientHand' : Before(a, b)'
    BY <1>11, <1>12, <2>3, PendingIs
  <2> QED
    BY <2>1, <2>2, <2>4, <2>5 DEF Sorted
<1>17. Stopping'
  <2>1. \A p \in Queues : Sent(p)' <=> Sent(p)
    BY <1>1, <1>2 DEF Sent, Queues
  <2>2. \A p \in Queues : Size(p)' = Size(p) /\ (pc'[p] = "exited" <=> pc[p] = "exited")
    BY <1>6, Names DEF LineSame
  <2>3. \A p \in Queues : NullLast(p)'
    BY <1>6, <2>1, <2>2 DEF LineSame, PipeInv, Stopping, NullLast
  <2>4. \A p \in Queues : pc'[p] = "exited" => Sent(p)' /\ Size(p)' = 0
    BY <2>1, <2>2 DEF PipeInv, Stopping
  <2> QED
    BY <1>1, <1>2, <2>3, <2>4 DEF PipeInv, Stopping
<1>18. Untouched' \subseteq Untouched \cup {r} /\ Handed' \subseteq Handed
  <2>1. EntryWorker \in Queues /\ ExitWorker \in Queues /\ pc'[EntryWorker] = pc[EntryWorker]
    BY <1>6, Roles, Names
  <2> QED
    BY <1>12, <2>1 DEF Untouched, Handed
<1> QED
  BY <1>18, <1>6, <1>13, <1>14, <1>15, <1>16, <1>17 DEF PipeInv

-----------------------------------------------------------------------------
(* The steps that move an item into a queue or out of it. *)

LEMMA GrowSorted ==
  ASSUME TypeInv, NEW q \in Queues, NEW item, LineGrows(q, item), LineSorted(q),
         order' = order, item # NULL => \A x \in Queued(q) : Before(x, item)
  PROVE  LineSorted(q)'
<1> SUFFICES ASSUME NEW j \in 1 .. Size(q)', NEW k \in 1 .. Size(q)', j < k,
                    Entry(q, j)' # NULL, Entry(q, k)' # NULL
             PROVE  Before(Entry(q, j), Entry(q, k))'
  BY DEF LineSorted
<1>1. Size(q) \in Nat /\ Size(q)' = Size(q) + 1
  BY SizeType, Lengths DEF LineGrows
<1>2. j \in 1 .. Size(q) /\ Entry(q, j)' = Entry(q, j) /\ Entry(q, j) \in Queued(q)
  <2>1. j \in 1 .. Size(q)
    BY <1>1
  <2>2. Entry(q, j)' = Entry(q, j)
    BY <2>1 DEF LineGrows
  <2> QED
    BY <2>1, <2>2 DEF Queued
<1>3. CASE k = Size(q) + 1
  <2>1. Entry(q, k)' = item
    BY <1>3 DEF LineGrows
  <2>2. Before(Entry(q, j), item)
    BY <1>2, <2>1
  <2> QED
    BY <1>2, <2>1, <2>2, BeforeSame
<1>4. CASE k # Size(q) + 1
  <2>1. k \in 1 .. Size(q)
    BY <1>1, <1>4
  <2>2. Entry(q, k)' = Entry(q, k)
    BY <2>1 DEF LineGrows
  <2>3. Before(Entry(q, j), Entry(q, k))
    BY <1>2, <2>1, <2>2 DEF LineSorted
  <2> QED
    BY <1>2, <2>2, <2>3, BeforeSame
<1> QED
  BY <1>3, <1>4

LEMMA GrowHandFirst ==
  ASSUME TypeInv, NEW q \in Queues, NEW item, LineGrows(q, item), HandFirst(q),
         order' = order, Holds(q)' <=> Holds(q), Holds(q) => cur'[q] = cur[q],
         item # NULL /\ Holds(q) => Before(cur[q], item)
  PROVE  HandFirst(q)'
<1> SUFFICES ASSUME Holds(q), NEW k \in 1 .. Size(q)', Entry(q, k)' # NULL
             PROVE  Before(cur[q], Entry(q, k))'
  BY DEF HandFirst
<1>1. Size(q) \in Nat /\ Size(q)' = Size(q) + 1
  BY SizeType, Lengths DEF LineGrows
<1>2. CASE k = Size(q) + 1
  <2>1. Entry(q, k)' = item
    BY <1>2 DEF LineGrows
  <2>2. Before(cur[q], item)
    BY <2>1
  <2> QED
    BY <2>1, <2>2, BeforeSame
<1>3. CASE k # Size(q) + 1
  <2>1. k \in 1 .. Size(q)
    BY <1>1, <1>3
  <2>2. Entry(q, k)' = Entry(q, k)
    BY <2>1 DEF LineGrows
  <2>3. Before(cur[q], Entry(q, k))
    BY <2>1, <2>2 DEF HandFirst
  <2> QED
    BY <2>2, <2>3, BeforeSame
<1> QED
  BY <1>2, <1>3

LEMMA GrowNullLast ==
  ASSUME TypeInv, NEW q \in Queues, NEW item, LineGrows(q, item), NullLast(q), ~Sent(q),
         item = NULL => Sent(q)'
  PROVE  NullLast(q)'
<1> SUFFICES ASSUME NEW k \in 1 .. Size(q)', Entry(q, k)' = NULL
             PROVE  Sent(q)' /\ k = Size(q)'
  BY DEF NullLast
<1>1. Size(q) \in Nat /\ Size(q)' = Size(q) + 1
  BY SizeType, Lengths DEF LineGrows
<1>2. CASE k = Size(q) + 1
  BY <1>1, <1>2 DEF LineGrows
<1>3. CASE k # Size(q) + 1
  <2>1. k \in 1 .. Size(q)
    BY <1>1, <1>3
  <2>2. Entry(q, k) = NULL
    BY <2>1 DEF LineGrows
  <2> QED
    BY <2>1, <2>2 DEF NullLast
<1> QED
  BY <1>2, <1>3

LEMMA SameSorted ==
  ASSUME NEW q, LineSame(q), order' = order, LineSorted(q)
  PROVE  LineSorted(q)'
BY BeforeSame DEF LineSorted, LineSame

LEMMA SameHandFirst ==
  ASSUME NEW q, LineSame(q), order' = order, HandFirst(q),
         Holds(q)' => Holds(q) /\ cur'[q] = cur[q]
  PROVE  HandFirst(q)'
BY BeforeSame DEF HandFirst, LineSame

LEMMA SameNullLast ==
  ASSUME NEW q, LineSame(q), NullLast(q), Sent(q) => Sent(q)'
  PROVE  NullLast(q)'
BY DEF NullLast, LineSame

LEMMA SubmitWritePipe ==
  ASSUME OneProducer, TypeInv, PipeInv, SubmitWrite
  PROVE  PipeInv' /\ Onward
<1> DEFINE q == EntryWorker
           e == ExitWorker
           r == cur["client"]
<1>1. /\ pc["client"] = "submit" /\ r \in ClientHand /\ r \in Requests
      /\ q \in Queues /\ e \in Queues /\ q # e /\ \A p \in Queues : p = q \/ p = e
      /\ r # NULL
  BY Roles, Names, ItemFacts DEF SubmitWrite, ClientHand, PipeInv, Contents
<1>2. EndPush("client", q) /\ Goto("client", "ready")
  BY <1>1, Roles DEF SubmitWrite
<1>3. pc'["client"] = "ready"
  BY <1>2, Names DEF Goto, TypeInv, TypeOK
<1>4. /\ \A p \in Queues : ClientPushes(p) <=> p = q
      /\ \A p \in Queues : ~ClientPushes(p)'
  BY <1>1, <1>3, Roles DEF ClientPushes
<1> HIDE DEF q, e, r
<1>5. /\ \A t \in Workers : pc'[t] = pc[t]
      /\ \A p \in Queues : Ring(p)'
      /\ LineGrows(q, r) /\ LineSame(e)
      /\ UNCHANGED <<alive, cur, slot, work, mem, order>>
  BY <1>1, <1>2, <1>4, ClientEndRings DEF EndPush, r
<1>6. Queued(q)' = Queued(q) \cup {r} /\ Queued(e)' = Queued(e)
  BY <1>1, <1>5, QueuedGrows, QueuedSame
<1>7. \A p \in Queues : Hand(p)' = Hand(p) /\ (Holds(p)' <=> Holds(p))
  BY <1>5, Names DEF Hand, Holds
<1>8. Zone(q)' = Zone(q) \cup {r} /\ Zone(e)' = Zone(e)
  BY <1>1, <1>6, <1>7 DEF Zone
<1>9. ClientHand' = {} /\ ClientHand = {r}
  BY <1>1, <1>3 DEF ClientHand, r
<1>10. \A x \in Zone(q) \cup Zone(e) : Before(x, r)
  BY <1>9 DEF PipeInv, Sorted, q, e
<1>11. Contents'
  <2>1. \A p \in Queues : Zone(p)' \subseteq Requests
    BY <1>1, <1>8 DEF PipeInv, Contents
  <2>2. Zone(ExitWorker)' \subseteq Compressed
    BY <1>8 DEF PipeInv, Contents, e
  <2> QED
    BY <1>3, <1>5, <1>9, <2>1, <2>2 DEF PipeInv, Contents
<1>12. History'
  BY <1>5, HistoryKept, SubmittedType DEF PipeInv, UnsubmittedKept
<1>13. Pending' = Pending
  BY <1>5 DEF Pending, Done, Failed, Submitted
<1>14. Whereabouts'
  <2>1. Zone("file")' \cup Zone("compress")' \cup ClientHand'
        = Zone("file") \cup Zone("compress") \cup ClientHand
    BY <1>1, <1>8, <1>9, Names
  <2> QED
    BY <1>5, <1>13, <2>1 DEF PipeInv, Whereabouts
<1>15. Sorted'
  <2>1. \A x \in Queued(q) : Before(x, r)
    BY <1>10 DEF Zone
  <2>2. LineSorted(q)' /\ LineSorted(e)'
    BY <1>1, <1>5, <2>1, GrowSorted, SameSorted DEF PipeInv, Sorted
  <2>3. Holds(q) => Before(cur[q], r)
    BY <1>10 DEF Zone, Hand
  <2>4. HandFirst(q)'
    BY <1>1, <1>5, <1>7, <2>3, GrowHandFirst DEF PipeInv, Sorted
  <2>5. HandFirst(e)'
    BY <1>1, <1>5, <1>7, SameHandFirst DEF PipeInv, Sorted
  <2>6. \A a \in Zone(e)', b \in Zone(q)' : Before(a, b)'
    BY <1>5, <1>8, <1>10, BeforeSame DEF PipeInv, Sorted, q, e
  <2> QED
    BY <1>1, <1>9, <2>2, <2>4, <2>5, <2>6 DEF Sorted, q, e
<1>16. Stopping'
  <2>1. \A p \in Queues : ~Sent(p) /\ ~Sent(p)'
    BY <1>1, <1>3 DEF Sent
  <2>2. NullLast(q)' /\ NullLast(e)'
    BY <1>1, <1>5, <2>1, GrowNullLast, SameNullLast DEF PipeInv, Stopping
  <2>3. \A p \in Queues : pc'[p] # "exited"
    BY <1>5, <2>1, Names DEF PipeInv, Stopping
  <2> QED
    BY <1>1, <1>3, <1>5, <2>2, <2>3 DEF PipeInv, Stopping
<1>17. Onward
  <2>1. Hand(q)' = Hand(q) /\ Zone(e)' = Zone(e) /\ pc'[q] = pc[q]
    BY <1>1, <1>5, <1>7, <1>8, Names
  <2> QED
    BY <1>6, <1>9, <2>1 DEF Onward, Untouched, Handed, q, e
<1> QED
  BY <1>17, <1>5, <1>11, <1>12, <1>14, <1>15, <1>16 DEF PipeInv

(* The NULL that stops a worker is in its queue. *)
LEMMA StopWritePipe ==
  ASSUME OneProducer, TypeInv, PipeInv, StopCompress \/ StopFile
  PROVE  PipeInv' /\ Onward
<1>1. PICK q \in Queues, step \in {"joinCompress", "joinFile"} :
        /\ EndPush("client", q) /\ Goto("client", step)
        /\ \/ pc["client"] = "stopCompress" /\ step = "joinCompress" /\ q = "compress"
           \/ pc["client"] = "stopFile" /\ step = "joinFile" /\ q = "file"
  BY Names DEF StopCompress, StopFile
<1>2. pc'["client"] = step
  BY <1>1, Names DEF Goto, TypeInv, TypeOK
<1>3. /\ \A p \in Queues : ClientPushes(p) <=> p = q
      /\ \A p \in Queues : ~ClientPushes(p)'
  BY <1>1, <1>2 DEF ClientPushes
<1>4. cur["client"] = NULL
  BY <1>1 DEF PipeInv, Contents
<1>5. /\ \A t \in Workers : pc'[t] = pc[t]
      /\ \A p \in Queues : Ring(p)'
      /\ LineGrows(q, NULL) /\ \A p \in Queues \ {q} : LineSame(p)
      /\ UNCHANGED <<alive, cur, slot, work, mem, order>>
  BY <1>1, <1>3, <1>4, ClientEndRings DEF EndPush
<1>6. \A p \in Queues : Queued(p)' = Queued(p)
  <2>1. Queued(q)' = Queued(q)
    <3>1. Queued(q)' = Queued(q) \cup ({NULL} \ {NULL})
      BY <1>5, QueuedGrows
    <3> QED
      BY <3>1
  <2> QED
    BY <1>5, <2>1, QueuedSame
<1>7. \A p \in Queues : Hand(p)' = Hand(p) /\ (Holds(p)' <=> Holds(p))
  BY <1>5, Names DEF Hand, Holds
<1>8. \A p \in Queues : Zone(p)' = Zone(p)
  BY <1>6, <1>7 DEF Zone
<1>9. ClientHand' = {} /\ ClientHand = {}
  BY <1>1, <1>2 DEF ClientHand
<1>10. EntryWorker \in Queues /\ ExitWorker \in Queues
  BY Roles, Names
<1>11. Contents'
  BY <1>1, <1>2, <1>5, <1>8, <1>9, <1>10 DEF PipeInv, Contents
<1>12. History'
  BY <1>5, HistoryKept, SubmittedType DEF PipeInv, UnsubmittedKept
<1>13. Pending' = Pending
  BY <1>5 DEF Pending, Done, Failed, Submitted
<1>14. Whereabouts'
  BY <1>5, <1>8, <1>9, <1>13, Names DEF PipeInv, Whereabouts
<1>15. Sorted'
  <2>1. LineSorted(q)' /\ HandFirst(q)'
    BY <1>5, <1>7, GrowSorted, GrowHandFirst DEF PipeInv, Sorted
  <2>2. \A p \in Queues \ {q} : LineSorted(p)' /\ HandFirst(p)'
    BY <1>5, <1>7, SameSorted, SameHandFirst DEF PipeInv, Sorted
  <2>3. \A a \in Zone(ExitWorker)', b \in Zone(EntryWorker)' : Before(a, b)'
    BY <1>5, <1>8, <1>10, BeforeSame DEF PipeInv, Sorted
  <2> QED
    BY <1>9, <2>1, <2>2, <2>3 DEF Sorted
<1>16. Stopping'
  <2>1. /\ ~Sent(q) /\ Sent(q)' /\ \A p \in Queues \ {q} : Sent(p) => Sent(p)'
    BY <1>1, <1>2 DEF Sent, Queues
  <2>2. NullLast(q)' /\ pc'[q] # "exited"
    BY <1>5, <2>1, Names, GrowNullLast DEF PipeInv, Stopping
  <2>3. ASSUME NEW p \in Queues \ {q}
        PROVE  NullLast(p)' /\ (pc'[p] = "exited" => Sent(p)' /\ Size(p)' = 0)
    <3>1. NullLast(p)'
      BY <1>5, <2>1, SameNullLast DEF PipeInv, Stopping
    <3>2. pc'[p] = pc[p] /\ Size(p)' = Size(p)
      BY <1>5, Names DEF LineSame
    <3> QED
      BY <2>1, <3>1, <3>2 DEF PipeInv, Stopping
  <2>4. pc'["client"] \in {"nullFile", "stopFile", "joinFile", "gone"} => pc'["compress"] = "exited"
    BY <1>1, <1>2, <1>5, Names DEF PipeInv, Stopping
  <2>5. ~alive'["compress"] => pc'["client"] \in {"nullFile", "stopFile", "joinFile", "gone"}
    BY <1>1, <1>2, <1>5 DEF PipeInv, Stopping
  <2>6. pc'["client"] # "gone" /\ alive'["file"]
    BY <1>1, <1>2, <1>5 DEF PipeInv, Stopping
  <2>7. ~DestroyEarly => Pending' = {}
    BY <1>1, <1>13 DEF PipeInv, Stopping
  <2> QED
    BY <2>2, <2>3, <2>4, <2>5, <2>6, <2>7 DEF Stopping
<1>17. Onward
  <2>1. pc'[EntryWorker] = pc[EntryWorker]
    BY <1>5, Roles
  <2> QED
    BY <1>6, <1>7, <1>8, <1>9, <1>10, <2>1 DEF Onward, Untouched, Handed
<1> QED
  BY <1>17, <1>5, <1>11, <1>12, <1>14, <1>15, <1>16 DEF PipeInv

(* A worker takes the first item of its line in hand, or stops. *)
LEMMA FetchPipe ==
  ASSUME OneProducer, TypeInv, PipeInv, NEW t \in Workers, Fetch(t)
  PROVE  PipeInv' /\ Onward
<1> DEFINE o == Other(t)
           item == Entry(t, 1)
<1>1. /\ pc[t] = "fetch" /\ \A w \in Threads \ {t} : pc'[w] = pc[w] /\ cur'[w] = cur[w]
      /\ \A q \in Queues \ {t} : queue'[q] = queue[q]
      /\ pc'[t] = IF cur'[t] = NULL THEN "exited" ELSE "run"
      /\ UNCHANGED <<alive, slot, work, mem, order>>
  BY TwoWorkers DEF Fetch, Goto, Stops, TypeInv, TypeOK
<1>2. /\ pc'["client"] = pc["client"] /\ cur'["client"] = cur["client"]
      /\ pc'[o] = pc[o] /\ cur'[o] = cur[o]
      /\ t \in Queues /\ o \in Queues /\ o # t /\ Other(o) = t
      /\ \A q \in Queues : q = t \/ q = o
  BY <1>1, TwoWorkers, Names
<1>3. \A q \in Queues : ClientPushes(q)' <=> ClientPushes(q)
  BY <1>1, <1>2 DEF ClientPushes
<1>4. \A q \in Queues : WorkerPushes(q)' <=> WorkerPushes(q)
  BY <1>1, <1>2 DEF WorkerPushes
<1>5. Ring(t)' /\ LineShrinks(t) /\ cur'[t] = item
  BY <1>2, <1>3, <1>4, RingFetch DEF PipeInv
<1> HIDE DEF o
<1>6. Ring(o)' /\ LineSame(o)
  BY <1>1, <1>2, <1>3, <1>4, RingSame DEF PipeInv
<1>7. /\ Size(t) \in Nat /\ 1 \in 1 .. Size(t) /\ Size(t)' = Size(t) - 1
      /\ \A k \in 1 .. Size(t)' : k + 1 \in 1 .. Size(t) /\ Entry(t, k)' = Entry(t, k + 1)
  BY <1>2, <1>5, SizeType, Lengths DEF LineShrinks
<1>8. Queued(t) = Queued(t)' \cup ({item} \ {NULL}) /\ Queued(o)' = Queued(o)
  BY <1>2, <1>5, <1>6, QueuedShrinks, QueuedSame
<1> HIDE DEF item
<1>9. /\ Hand(o)' = Hand(o) /\ (Holds(o)' <=> Holds(o))
      /\ ~Holds(t) /\ Hand(t) = {} /\ Hand(t)' = {item} \ {NULL}
      /\ Holds(t)' <=> item # NULL
  BY <1>1, <1>2, <1>5 DEF Hand, Holds
<1>10. Zone(t)' = Zone(t) /\ Zone(o)' = Zone(o)
  BY <1>8, <1>9 DEF Zone
<1>11. ClientHand' = ClientHand
  BY <1>2 DEF ClientHand
<1>12. EntryWorker \in Queues /\ ExitWorker \in Queues
  BY Roles, Names
<1>13. Contents'
  <2>1. \A w \in Workers : pc'[w] \in {"push", "handover"} =>
                             pc[w] \in {"push", "handover"} /\ cur'[w] = cur[w]
    BY <1>1, Names
  <2> QED
    BY <1>2, <1>10, <1>11, <1>12, <2>1 DEF PipeInv, Contents
<1>14. History'
  BY <1>1, HistoryKept, SubmittedType DEF PipeInv, UnsubmittedKept
<1>15. Pending' = Pending
  BY <1>1 DEF Pending, Done, Failed, Submitted
<1>16. Whereabouts'
  <2>1. Zone("file")' = Zone("file") /\ Zone("compress")' = Zone("compress")
    BY <1>2, <1>10, Names
  <2> QED
    BY <1>1, <1>11, <1>15, <2>1 DEF PipeInv, Whereabouts
<1>17. Sorted'
  <2>1. LineSorted(o)' /\ HandFirst(o)'
    BY <1>1, <1>2, <1>6, <1>9, SameSorted, SameHandFirst DEF PipeInv, Sorted
  <2>2. LineSorted(t)'
    <3> SUFFICES ASSUME NEW j \in 1 .. Size(t)', NEW k \in 1 .. Size(t)', j < k,
                        Entry(t, j)' # NULL, Entry(t, k)' # NULL
                 PROVE  Before(Entry(t, j), Entry(t, k))'
      BY DEF LineSorted
    <3>1. /\ j + 1 \in 1 .. Size(t) /\ k + 1 \in 1 .. Size(t) /\ j + 1 < k + 1
          /\ Entry(t, j)' = Entry(t, j + 1) /\ Entry(t, k)' = Entry(t, k + 1)
      BY <1>7
    <3>2. Before(Entry(t, j + 1), Entry(t, k + 1))
      BY <1>2, <3>1 DEF PipeInv, Sorted, LineSorted
    <3> QED
      BY <1>1, <3>1, <3>2, BeforeSame
  <2>3. HandFirst(t)'
    <3> SUFFICES ASSUME item # NULL, NEW k \in 1 .. Size(t)', Entry(t, k)' # NULL
                 PROVE  Before(cur[t], Entry(t, k))'
      BY <1>9 DEF HandFirst
    <3>1. k + 1 \in 1 .. Size(t) /\ 1 < k + 1 /\ Entry(t, k)' = Entry(t, k + 1)
      BY <1>7
    <3>2. Before(item, Entry(t, k + 1))
      BY <1>2, <1>7, <3>1 DEF PipeInv, Sorted, LineSorted, item
    <3> QED
      BY <1>1, <1>5, <3>1, <3>2, BeforeSame
  <2>4. \A a \in Zone(ExitWorker)', b \in Zone(EntryWorker)' : Before(a, b)'
    BY <1>1, <1>2, <1>10, <1>12, BeforeSame DEF PipeInv, Sorted
  <2>5. \A a \in Zone(EntryWorker)' \cup Zone(ExitWorker)', b \in ClientHand' : Before(a, b)'
    BY <1>1, <1>2, <1>10, <1>11, <1>12, BeforeSame DEF PipeInv, Sorted
  <2> QED
    BY <1>2, <2>1, <2>2, <2>3, <2>4, <2>5 DEF Sorted
<1>18. Stopping'
  <2>1. \A p \in Queues : Sent(p)' <=> Sent(p)
    BY <1>2 DEF Sent
  <2>2. NullLast(o)' /\ (pc'[o] = "exited" => Sent(o)' /\ Size(o)' = 0)
    BY <1>2, <1>6, <2>1, SameNullLast DEF PipeInv, Stopping, LineSame
  <2>3. NullLast(t)'
    <3> SUFFICES ASSUME NEW k \in 1 .. Size(t)', Entry(t, k)' = NULL
                 PROVE  Sent(t)' /\ k = Size(t)'
      BY DEF NullLast
    <3>1. k + 1 \in 1 .. Size(t) /\ Entry(t, k + 1) = NULL
      BY <1>7
    <3>2. Sent(t) /\ k + 1 = Size(t)
      BY <1>2, <3>1 DEF PipeInv, Stopping, NullLast
    <3> QED
      BY <1>2, <1>7, <2>1, <3>2
  <2>4. pc'[t] = "exited" => Sent(t)' /\ Size(t)' = 0
    <3> SUFFICES ASSUME item = NULL PROVE Sent(t)' /\ Size(t)' = 0
      BY <1>1, <1>5
    <3>1. Sent(t) /\ 1 = Size(t)
      BY <1>2, <1>7 DEF PipeInv, Stopping, NullLast, item
    <3> QED
      BY <1>2, <1>7, <2>1, <3>1
  <2>5. \A w \in Workers : pc[w] = "exited" => pc'[w] = "exited"
    BY <1>1, Names
  <2>6. (pc["compress"] = "exited" => pc'["compress"] = "exited")
        /\ (pc["file"] = "exited" => pc'["file"] = "exited")
    BY <2>5 DEF Workers
  <2> QED
    BY <1>1, <1>2, <1>15, <2>2, <2>3, <2>4, <2>6 DEF PipeInv, Stopping
<1>19. Onward
  <2>1. CASE t = EntryWorker /\ o = ExitWorker
    <3>1. pc[t] # "run" /\ (item # NULL => pc'[t] = "run")
      BY <1>1, <1>5
    <3> QED
      BY <1>8, <1>9, <1>10, <1>11, <2>1, <3>1 DEF Onward, Untouched, Handed
  <2>2. CASE t = ExitWorker /\ o = EntryWorker
    BY <1>2, <1>8, <1>9, <1>10, <1>11, <2>2 DEF Onward, Untouched, Handed
  <2> QED
    BY <1>2, <2>1, <2>2, Roles, Names
<1> QED
  BY <1>19, <1>2, <1>5, <1>6, <1>13, <1>14, <1>16, <1>17, <1>18 DEF PipeInv

(* A worker is done with the work object it holds, in one way or another. *)
LEMMA FinishPipe ==
  ASSUME OneProducer, TypeInv, PipeInv, NEW t \in Workers, NEW r \in Requests,
         pc[t] = "run", cur[t] = r, Goto(t, "pop"), HandlerFrame,
         \A x \in Requests \ {r} : work'[x] = work[x] /\ mem'[x] = mem[x],
         work'[r].op = work[r].op, work'[r].done \/ work'[r].abandoned
  PROVE  PipeInv' /\ Pending' = Pending \ {r} /\ Onward
<1> DEFINE o == Other(t)
<1>1. /\ pc'[t] = "pop" /\ \A w \in Threads \ {t} : pc'[w] = pc[w]
      /\ pc'["client"] = pc["client"] /\ pc'[o] = pc[o]
      /\ \A q \in Queues : Ring(q)' /\ LineSame(q)
      /\ UNCHANGED <<queue, alive, cur, slot, order>>
  BY HandlerRings DEF HandlerFrame
<1>2. /\ t \in Queues /\ o \in Queues /\ o # t /\ \A q \in Queues : q = t \/ q = o
      /\ EntryWorker \in Queues /\ ExitWorker \in Queues /\ EntryWorker # ExitWorker
      /\ o \in Workers
  BY TwoWorkers, Roles, Names
<1> HIDE DEF o
<1>3. Holds(t) /\ Hand(t) = {r} /\ r \in Zone(t) /\ ~Holds(t)' /\ Hand(t)' = {}
  BY <1>1 DEF Hand, Holds, Zone
<1>4. Hand(o)' = Hand(o) /\ (Holds(o)' <=> Holds(o))
  BY <1>1 DEF Hand, Holds
<1>5. \A q \in Queues : Queued(q)' = Queued(q)
  BY <1>1, QueuedSame
<1>6. r \notin Queued(t) /\ r \notin Zone(o) /\ r \notin ClientHand
  BY <1>2, <1>3, Apart, Roles, Names DEF Zone
<1>7. Zone(t)' = Zone(t) \ {r} /\ Zone(o)' = Zone(o)
  BY <1>2, <1>3, <1>4, <1>5, <1>6 DEF Zone
<1>8. ClientHand' = ClientHand
  BY <1>1 DEF ClientHand
<1>9. Pending' = Pending \ {r}
  <2>1. Submitted' = Submitted /\ Submitted \subseteq Requests
    BY <1>1, SubmittedSame, SubmittedType
  <2>2. \A x \in Submitted : x = r \/ work'[x] = work[x]
    BY <2>1
  <2> QED
    BY <2>1, <2>2, PendingIs, PendingNext
<1>10. Contents'
  <2>1. \A w \in Workers : pc'[w] \in {"push", "handover"} => pc[w] \in {"push", "handover"}
    BY <1>1, Names
  <2>2. \A q \in Queues : Zone(q)' \subseteq Zone(q)
    BY <1>2, <1>7
  <2> QED
    BY <1>1, <1>2, <1>8, <2>1, <2>2 DEF PipeInv, Contents
<1>11. History'
  <2>1. r \in Submitted
    BY <1>3, Names, PendingIs DEF PipeInv, Whereabouts, Workers
  <2>2. \A x \in Submitted : work'[x].op = work[x].op
    BY SubmittedType
  <2> QED
    BY <1>1, <2>1, <2>2, HistoryKept, SubmittedType DEF PipeInv, UnsubmittedKept
<1>12. Whereabouts'
  <2>1. Zone("file")' \cup Zone("compress")' \cup ClientHand'
        = (Zone("file") \cup Zone("compress") \cup ClientHand) \ {r}
    BY <1>2, <1>6, <1>7, <1>8, Names
  <2>2. \A x \in Pending' : mem'[x]["work"] = "fs"
    BY <1>9, PendingType DEF PipeInv, Whereabouts
  <2> QED
    BY <1>9, <2>1, <2>2 DEF PipeInv, Whereabouts
<1>13. Sorted'
  <2>1. \A q \in Queues : LineSorted(q)'
    BY <1>1, SameSorted DEF PipeInv, Sorted
  <2>2. HandFirst(t)'
    BY <1>3 DEF HandFirst
  <2>3. HandFirst(o)'
    BY <1>1, <1>2, <1>4, SameHandFirst DEF PipeInv, Sorted
  <2>4. \A q \in Queues : Zone(q)' \subseteq Zone(q)
    BY <1>2, <1>7
  <2>5. \A a \in Zone(ExitWorker)', b \in Zone(EntryWorker)' : Before(a, b)'
    BY <1>1, <1>2, <2>4, BeforeSame DEF PipeInv, Sorted
  <2>6. \A a \in Zone(EntryWorker)' \cup Zone(ExitWorker)', b \in ClientHand' : Before(a, b)'
    BY <1>1, <1>2, <1>8, <2>4, BeforeSame DEF PipeInv, Sorted
  <2> QED
    BY <1>2, <2>1, <2>2, <2>3, <2>5, <2>6 DEF Sorted
<1>14. Stopping'
  <2>1. \A p \in Queues : Sent(p)' <=> Sent(p)
    BY <1>1 DEF Sent
  <2>2. \A p \in Queues : NullLast(p)'
    BY <1>1, <2>1, SameNullLast DEF PipeInv, Stopping
  <2>3. \A p \in Queues : pc'[p] = "exited" <=> pc[p] = "exited"
    BY <1>1, <1>2
  <2>4. \A p \in Queues : pc'[p] = "exited" => Sent(p)' /\ Size(p)' = 0
    BY <1>1, <2>1, <2>3 DEF PipeInv, Stopping, LineSame
  <2>5. (pc["compress"] = "exited" => pc'["compress"] = "exited")
        /\ (pc["file"] = "exited" => pc'["file"] = "exited")
    BY <2>3 DEF Queues
  <2> QED
    BY <1>1, <1>9, <2>2, <2>4, <2>5 DEF PipeInv, Stopping
<1>15. Onward
  <2>1. CASE t = EntryWorker /\ o = ExitWorker
    BY <1>2, <1>3, <1>5, <1>7, <1>8, <2>1 DEF Onward, Untouched, Handed
  <2>2. CASE t = ExitWorker /\ o = EntryWorker
    BY <1>1, <1>2, <1>4, <1>5, <1>7, <1>8, <2>2 DEF Onward, Untouched, Handed
  <2> QED
    BY <1>2, <2>1, <2>2
<1> QED
  BY <1>1, <1>9, <1>10, <1>11, <1>12, <1>13, <1>14, <1>15 DEF PipeInv

(* The work object arrives in the line of the other worker. *)
LEMMA HandOverWritePipe ==
  ASSUME OneProducer, TypeInv, PipeInv, NEW t \in Workers, HandOverWrite(t)
  PROVE  PipeInv' /\ Onward
<1> DEFINE e == Other(t)
           r == cur[t]
<1>1. /\ pc[t] = "handover" /\ pc'[t] = "pop" /\ \A w \in Threads \ {t} : pc'[w] = pc[w]
      /\ queue'[e] = PushWrite(queue[e], slot[t], r) /\ queue'[t] = queue[t]
      /\ UNCHANGED <<alive, cur, slot, work, mem, order>>
  BY TwoWorkers DEF HandOverWrite, EndPush, Goto, TypeInv, TypeOK
<1>2. /\ pc'["client"] = pc["client"] /\ pc'[e] = pc[e]
      /\ t \in Queues /\ e \in Queues /\ e \in Workers /\ e # t /\ Other(e) = t /\ t \in Threads
      /\ \A q \in Queues : q = t \/ q = e
  BY <1>1, TwoWorkers, Names
<1>3. /\ t = EntryWorker /\ e = ExitWorker /\ r \in Requests \cap Compressed
      /\ ~ClientPushes(e) /\ ~Sent(e) /\ WorkerPushes(e)
      /\ EntryWorker = "file" => pc["client"] \in {"ready", "submit"}
      /\ EntryWorker = "compress" =>
           pc["client"] \notin {"nullFile", "stopFile", "joinFile", "gone"}
  <2>1. WorkerPushes(e)
    BY <1>1, <1>2 DEF WorkerPushes
  <2>2. t = EntryWorker /\ r \in Requests \cap Compressed
    BY <1>1, Carrying
  <2> HIDE DEF e, r
  <2> QED
    BY <1>2, <2>1, <2>2, WorkerPusher
<1>4. \A p \in Queues : ClientPushes(p)' <=> ClientPushes(p)
  BY <1>1, <1>2 DEF ClientPushes
<1>5. ~WorkerPushes(e)' /\ (WorkerPushes(t)' <=> WorkerPushes(t))
  BY <1>1, <1>2 DEF WorkerPushes
<1>6. Other(t) = e /\ cur[t] = r
  OBVIOUS
<1> HIDE DEF e, r
<1>7. Ring(e)' /\ LineGrows(e, r)
  BY <1>1, <1>2, <1>3, <1>4, <1>5, <1>6, RingEnd DEF PipeInv
<1>8. Ring(t)' /\ LineSame(t)
  <2>1. pc[t] # "fetch" /\ pc'[t] # "fetch" /\ slot' = slot
    BY <1>1
  <2> QED
    BY <1>1, <1>2, <1>4, <1>5, <2>1, RingSame DEF PipeInv
<1>9. /\ Hand(e)' = Hand(e) /\ (Holds(e)' <=> Holds(e))
      /\ Holds(t) /\ Hand(t) = {r} /\ ~Holds(t)' /\ Hand(t)' = {}
  BY <1>1, <1>2, <1>6 DEF Hand, Holds
<1>10. Queued(e)' = Queued(e) \cup {r} /\ Queued(t)' = Queued(t)
  <2>1. r # NULL
    BY <1>3, ItemFacts
  <2> QED
    BY <1>2, <1>7, <1>8, <2>1, QueuedGrows, QueuedSame
<1>11. r \in Zone(t) /\ r \notin Queued(t)
  <2>1. r \in Zone(t)
    BY <1>9 DEF Zone
  <2>2. ASSUME NEW k \in 1 .. Size(t), Entry(t, k) = r PROVE FALSE
    <3>1. Entry(t, k) # NULL
      BY <1>3, <2>2, ItemFacts
    <3>2. Before(r, r)
      BY <1>2, <1>6, <1>9, <2>2, <3>1 DEF PipeInv, Sorted, HandFirst
    <3> QED
      BY <3>2, BeforeOnce DEF PipeInv
  <2> QED
    BY <2>1, <2>2 DEF Queued
<1>12. Zone(t)' = Queued(t) /\ Queued(t) \subseteq Zone(t) /\ Zone(t) = Queued(t) \cup {r}
       /\ Zone(e)' = Zone(e) \cup {r}
  BY <1>9, <1>10 DEF Zone
<1>13. ClientHand' = ClientHand
  BY <1>1, <1>2 DEF ClientHand
<1>14. Contents'
  <2>1. \A w \in Workers : pc'[w] \in {"push", "handover"} => pc[w] \in {"push", "handover"}
    BY <1>1, Names
  <2>2. \A p \in Queues : Zone(p)' \subseteq Requests
    BY <1>2, <1>3, <1>12 DEF PipeInv, Contents
  <2>3. Zone(ExitWorker)' \subseteq Compressed
    BY <1>3, <1>12 DEF PipeInv, Contents
  <2> QED
    BY <1>1, <1>2, <1>13, <2>1, <2>2, <2>3 DEF PipeInv, Contents
<1>15. History'
  BY <1>1, HistoryKept, SubmittedType DEF PipeInv, UnsubmittedKept
<1>16. Pending' = Pending
  BY <1>1 DEF Pending, Done, Failed, Submitted
<1>17. Whereabouts'
  <2>1. Zone("file")' \cup Zone("compress")' \cup ClientHand'
        = Zone("file") \cup Zone("compress") \cup ClientHand
    BY <1>2, <1>12, <1>13, Names
  <2> QED
    BY <1>1, <1>16, <2>1 DEF PipeInv, Whereabouts
<1>18. \A x \in Zone(e) : Before(x, r)
  BY <1>3, <1>11 DEF PipeInv, Sorted
<1>19. \A y \in Queued(t) : Before(r, y)
  BY <1>2, <1>6, <1>9 DEF PipeInv, Sorted, HandFirst, Queued
<1>20. Sorted'
  <2>1. \A x \in Queued(e) : Before(x, r)
    BY <1>18 DEF Zone
  <2>2. LineSorted(e)' /\ LineSorted(t)'
    BY <1>1, <1>2, <1>7, <1>8, <2>1, GrowSorted, SameSorted DEF PipeInv, Sorted
  <2>3. Holds(e) => Before(cur[e], r)
    BY <1>18 DEF Zone, Hand
  <2>4. HandFirst(e)'
    BY <1>1, <1>2, <1>7, <1>9, <2>3, GrowHandFirst DEF PipeInv, Sorted
  <2>5. HandFirst(t)'
    BY <1>9 DEF HandFirst
  <2>6. \A a \in Zone(e)', b \in Zone(t)' : Before(a, b)'
    BY <1>1, <1>3, <1>12, <1>19, BeforeSame DEF PipeInv, Sorted
  <2>7. \A a \in Zone(EntryWorker)' \cup Zone(ExitWorker)', b \in ClientHand' : Before(a, b)'
    BY <1>1, <1>3, <1>11, <1>12, <1>13, BeforeSame DEF PipeInv, Sorted
  <2> QED
    BY <1>2, <1>3, <2>2, <2>4, <2>5, <2>6, <2>7 DEF Sorted
<1>21. Stopping'
  <2>1. \A p \in Queues : Sent(p)' <=> Sent(p)
    BY <1>2 DEF Sent
  <2>2. NullLast(e)' /\ NullLast(t)'
    BY <1>2, <1>3, <1>7, <1>8, <2>1, ItemFacts, GrowNullLast, SameNullLast DEF PipeInv, Stopping
  <2>3. pc'[t] # "exited" /\ pc[t] # "exited" /\ pc[e] # "exited"
    BY <1>1, <1>2, <1>3 DEF PipeInv, Stopping
  <2>4. \A p \in Queues : pc'[p] # "exited"
    BY <1>2, <2>3
  <2>5. pc["compress"] # "exited" /\ pc["file"] # "exited"
    BY <1>2, <2>3, Names
  <2> QED
    BY <1>1, <1>2, <1>16, <2>2, <2>4, <2>5 DEF PipeInv, Stopping
<1>22. Onward
  <2>1. pc[t] # "run"
    BY <1>1
  <2> QED
    BY <1>3, <1>9, <1>10, <1>12, <1>13, <2>1 DEF Onward, Untouched, Handed
<1> QED
  BY <1>22, <1>2, <1>7, <1>8, <1>14, <1>15, <1>17, <1>20, <1>21 DEF PipeInv

-----------------------------------------------------------------------------
(* The handlers. *)

(* The block of another work object is another block. *)
LEMMA OtherBlocks ==
  ASSUME NEW m \in Memory, NEW r \in Requests, NEW block, NEW heap
  PROVE  /\ \A x \in Requests \ {r} : Alloc(m, r, block, heap)[x] = m[x]
         /\ \A x \in Requests \ {r} : FreeIn(m, r, block, heap)[x] = m[x]
BY DEF Memory, Alloc, FreeIn

LEMMA AllocBlocks ==
  ASSUME NEW m \in Memory, NEW r \in Requests, NEW block \in Blocks, NEW heap
  PROVE  /\ Alloc(m, r, block, heap)[r][block] = heap
         /\ \A b \in Blocks \ {block} : Alloc(m, r, block, heap)[r][b] = m[r][b]
BY DEF Memory, Alloc

LEMMA FreeBlocks ==
  ASSUME NEW m \in Memory, NEW r \in Requests, NEW block \in Blocks, NEW heap
  PROVE  /\ FreeIn(m, r, block, heap)[r][block] = IF m[r][block] = heap THEN "freed" ELSE "corrupt"
         /\ \A b \in Blocks \ {block} : FreeIn(m, r, block, heap)[r][b] = m[r][b]
BY BlockNames DEF Memory, FreeIn

(* The handlers of the two workers, by how they end. *)
Finishes(t, r) ==
  /\ pc[t] = "run" /\ cur[t] = r /\ Goto(t, "pop") /\ HandlerFrame
  /\ \A x \in Requests \ {r} : work'[x] = work[x] /\ mem'[x] = mem[x]
  /\ work'[r].op = work[r].op /\ (work'[r].done \/ work'[r].abandoned)

Carries(t, r) ==
  /\ pc[t] = "run" /\ cur[t] = r /\ Goto(t, "push") /\ HandlerFrame
  /\ t = EntryWorker /\ r \in Compressed
  /\ \A x \in Requests \ {r} : work'[x] = work[x] /\ mem'[x] = mem[x]
  /\ work'[r].op = work[r].op /\ work'[r].done = work[r].done
  /\ work'[r].abandoned = work[r].abandoned
  /\ mem'[r]["work"] = mem[r]["work"]

LEMMA NotCarried ==
  ASSUME TypeInv, NEW t \in Workers, NEW r, Goto(t, "pop")
  PROVE  ~Carries(t, r)
<1>1. DOMAIN pc = Threads /\ t \in Threads
  BY Names DEF TypeInv, TypeOK
<1>2. pc'[t] = "pop"
  BY <1>1 DEF Goto
<1>3. ASSUME Goto(t, "push") PROVE pc'[t] = "push"
  BY <1>1, <1>3 DEF Goto
<1> QED
  BY <1>2, <1>3 DEF Carries

LEMMA Held ==
  ASSUME OneProducer, TypeInv, PipeInv, NEW t \in Workers, NEW r \in Requests,
         pc[t] = "run", cur[t] = r
  PROVE  /\ r \in Zone(t) /\ r \in Pending /\ r \in Submitted
         /\ ~work[r].done /\ ~work[r].abandoned /\ mem[r]["work"] = "fs"
         /\ work[r].op = IF r \in Reads THEN "READ" ELSE "WRITE"
         /\ t = ExitWorker => r \in Compressed
<1>1. r \in Zone(t)
  BY DEF Zone, Hand, Holds
<1>2. r \in Pending
  BY <1>1, Names DEF PipeInv, Whereabouts, Workers
<1> QED
  BY <1>1, <1>2, PendingIs DEF PipeInv, Whereabouts, History, Contents

LEMMA WorkAfter ==
  ASSUME TypeInv, NEW r \in Requests, NEW w, work' = [work EXCEPT ![r] = w]
  PROVE  work'[r] = w /\ \A x \in Requests \ {r} : work'[x] = work[x]
BY DEF TypeInv, TypeOK

LEMMA FileReadEnds ==
  ASSUME OneProducer, TypeInv, PipeInv, NEW r \in Requests, FileRead(r)
  PROVE  Finishes("file", r) \/ Carries("file", r)
<1>1. /\ pc["file"] = "run" /\ cur["file"] = r /\ work[r].op = "READ"
      /\ Goto("file", AfterRead(r)) /\ HandlerFrame
      /\ mem' = Alloc(mem, r, "file", HeapOf(r))
  BY DEF FileRead, Handles
<1>2. work'[r] = ReadWork(r) /\ \A x \in Requests \ {r} : work'[x] = work[x]
  BY WorkAfter DEF FileRead
<1>3. /\ work'[r].op = work[r].op /\ work'[r].abandoned = work[r].abandoned
      /\ work'[r].done = (work[r].done \/ r \notin Compressed)
  BY <1>2, WorkType DEF ReadWork, WorkFields
<1>4. /\ \A x \in Requests \ {r} : mem'[x] = mem[x]
      /\ mem'[r]["work"] = mem[r]["work"]
  BY <1>1, OtherBlocks, AllocBlocks, MemoryType, BlockNames
<1>5. r \in Reads
  BY <1>1, Held DEF Workers
<1>6. CASE r \in Compressed
  <2>1. EntryWorker = "file"
    BY <1>5, Roles, RequestsAssumption DEF PackedOnly, Workers, Requests
  <2>2. work'[r].done = work[r].done
    BY <1>3, <1>6, WorkType
  <2>3. Goto("file", "push")
    BY <1>1, <1>6 DEF AfterRead
  <2> QED
    BY <1>1, <1>2, <1>3, <1>4, <1>6, <2>1, <2>2, <2>3 DEF Carries
<1>7. CASE r \notin Compressed
  BY <1>1, <1>2, <1>3, <1>4, <1>7 DEF Finishes, AfterRead
<1> QED
  BY <1>6, <1>7

LEMMA FileReadFailsEnds ==
  ASSUME TypeInv, NEW r \in Requests, NEW call, FileReadFails(r, call)
  PROVE  Finishes("file", r)
<1>1. pc["file"] = "run" /\ cur["file"] = r /\ Goto("file", "pop") /\ HandlerFrame
  BY DEF FileReadFails, Handles, AfterFailure
<1>2. \A x \in Requests \ {r} : mem'[x] = mem[x]
  BY OtherBlocks, MemoryType DEF FileReadFails
<1>3. PICK error \in {0, 1} :
        work' = [work EXCEPT ![r].result = error, ![r].abandoned = TRUE,
                             ![r].buffer = IF call = "read" THEN "file" ELSE @]
  BY DEF FileReadFails
<1>4. \A x \in Requests \ {r} : work'[x] = work[x]
  BY <1>3 DEF TypeInv, TypeOK
<1>5. work'[r].op = work[r].op /\ work'[r].abandoned
  BY <1>3 DEF TypeInv, TypeOK, WorkFields
<1> QED
  BY <1>1, <1>2, <1>4, <1>5 DEF Finishes

LEMMA FileWriteFailsEnds ==
  ASSUME TypeInv, NEW r \in Requests, NEW call, FileWriteFails(r, call)
  PROVE  Finishes("file", r)
<1>1. pc["file"] = "run" /\ cur["file"] = r /\ Goto("file", "pop") /\ HandlerFrame /\ mem' = mem
  BY DEF FileWriteFails, Handles, AfterFailure
<1>2. work' = [work EXCEPT ![r].result = 1, ![r].abandoned = TRUE]
  BY DEF FileWriteFails
<1>3. \A x \in Requests \ {r} : work'[x] = work[x]
  BY <1>2 DEF TypeInv, TypeOK
<1>4. work'[r].op = work[r].op /\ work'[r].abandoned
  BY <1>2 DEF TypeInv, TypeOK, WorkFields
<1> QED
  BY <1>1, <1>3, <1>4 DEF Finishes

LEMMA FileWriteEnds ==
  ASSUME TypeInv, NEW r \in Requests, FileWrite(r)
  PROVE  Finishes("file", r)
<1>1. pc["file"] = "run" /\ cur["file"] = r /\ Goto("file", "pop") /\ HandlerFrame
  BY DEF FileWrite, Handles
<1>2. \A x \in Requests \ {r} : mem'[x] = mem[x]
  BY OtherBlocks, MemoryType DEF FileWrite
<1>3. work'[r] = WrittenWork(r) /\ \A x \in Requests \ {r} : work'[x] = work[x]
  BY WorkAfter DEF FileWrite
<1>4. work'[r].op = work[r].op /\ work'[r].done
  BY <1>3, WorkType DEF WrittenWork, WorkFields
<1> QED
  BY <1>1, <1>2, <1>3, <1>4 DEF Finishes

LEMMA FileDecompressFailsEnds ==
  ASSUME TypeInv, NEW r \in Requests, FileDecompressFails(r)
  PROVE  Finishes("compress", r)
<1>1. pc["compress"] = "run" /\ cur["compress"] = r /\ Goto("compress", "pop") /\ HandlerFrame
  BY DEF FileDecompressFails, Handles
<1>2. \A x \in Requests \ {r} : mem'[x] = mem[x]
  <2>1. Alloc(mem, r, "plain", HeapOf(r)) \in Memory
    BY AllocType, MemoryType, HeapType, BlockNames
  <2> QED
    BY <2>1, OtherBlocks, MemoryType DEF FileDecompressFails
<1>3. PICK error \in {0, 1} : work' = [work EXCEPT ![r].result = error, ![r].done = TRUE]
  BY DEF FileDecompressFails
<1>4. \A x \in Requests \ {r} : work'[x] = work[x]
  BY <1>3 DEF TypeInv, TypeOK
<1>5. work'[r].op = work[r].op /\ work'[r].done
  BY <1>3 DEF TypeInv, TypeOK, WorkFields
<1> QED
  BY <1>1, <1>2, <1>4, <1>5 DEF Finishes

LEMMA FileDecompressEnds ==
  ASSUME TypeInv, NEW r \in Requests, FileDecompress(r)
  PROVE  Finishes("compress", r)
<1>1. pc["compress"] = "run" /\ cur["compress"] = r /\ Goto("compress", "pop") /\ HandlerFrame
  BY DEF FileDecompress, Handles
<1>2. \A x \in Requests \ {r} : mem'[x] = mem[x]
  <2>1. Alloc(mem, r, "plain", HeapOf(r)) \in Memory
    BY AllocType, MemoryType, HeapType, BlockNames
  <2> QED
    BY <2>1, OtherBlocks, MemoryType DEF FileDecompress
<1>3. work'[r] = DecompressedWork(r) /\ \A x \in Requests \ {r} : work'[x] = work[x]
  BY WorkAfter DEF FileDecompress
<1>4. work'[r].op = work[r].op /\ work'[r].done
  BY <1>3, WorkType DEF DecompressedWork, WorkFields
<1> QED
  BY <1>1, <1>2, <1>3, <1>4 DEF Finishes

LEMMA FileCompressEnds ==
  ASSUME OneProducer, TypeInv, PipeInv, NEW r \in Requests, FileCompress(r)
  PROVE  Carries("compress", r)
<1>1. /\ pc["compress"] = "run" /\ cur["compress"] = r /\ work[r].op = "WRITE"
      /\ Goto("compress", "push") /\ HandlerFrame
      /\ mem' = Alloc(mem, r, "packed", HeapOf(r))
      /\ work' = [work EXCEPT ![r].buffer = "packed", ![r].op = "WRITE"]
  BY DEF FileCompress, Handles
<1>2. \A x \in Requests \ {r} : work'[x] = work[x]
  BY <1>1 DEF TypeInv, TypeOK
<1>3. /\ work'[r].op = work[r].op /\ work'[r].done = work[r].done
      /\ work'[r].abandoned = work[r].abandoned
  BY <1>1 DEF TypeInv, TypeOK, WorkFields
<1>4. /\ \A x \in Requests \ {r} : mem'[x] = mem[x]
      /\ mem'[r]["work"] = mem[r]["work"]
  BY <1>1, OtherBlocks, AllocBlocks, MemoryType, BlockNames
<1>5. r \in Writes /\ (ExitWorker = "compress" => r \in Compressed)
  BY <1>1, Held DEF Workers, Requests
<1>6. EntryWorker = "compress"
  <2> SUFFICES ASSUME EntryWorker = "file" PROVE FALSE
    BY Roles DEF Workers
  <2>1. ExitWorker = "compress" /\ Direct
    BY Roles DEF Workers
  <2> QED
    BY <1>5, <2>1 DEF Direct
<1>7. r \in Compressed
  BY <1>6, Roles DEF PackedOnly
<1> QED
  BY <1>1, <1>2, <1>3, <1>4, <1>6, <1>7 DEF Carries

LEMMA HandlersEnd ==
  ASSUME OneProducer, TypeInv, PipeInv, NEW r \in Requests
  PROVE  /\ FileHandler(r) => Finishes("file", r) \/ Carries("file", r)
         /\ CompressHandler(r) => Finishes("compress", r) \/ Carries("compress", r)
BY FileReadEnds, FileReadFailsEnds, FileWriteEnds, FileWriteFailsEnds, FileDecompressEnds,
   FileDecompressFailsEnds, FileCompressEnds DEF FileHandler, CompressHandler

LEMMA EndsPipe ==
  ASSUME OneProducer, TypeInv, PipeInv, NEW t \in Workers, NEW r \in Requests,
         Finishes(t, r) \/ Carries(t, r)
  PROVE  /\ PipeInv'
         /\ Finishes(t, r) => Pending' = Pending \ {r} /\ Onward
         /\ Carries(t, r) => Untouched' \subseteq Untouched \ {r} /\ Handed' \subseteq Handed \cup {r}
<1>1. CASE Finishes(t, r)
  <2>1. PipeInv' /\ Pending' = Pending \ {r} /\ Onward
    BY <1>1, FinishPipe DEF Finishes
  <2>2. ~Carries(t, r)
    <3>1. t \in Threads
      BY TwoWorkers
    <3> QED
      BY <1>1, <3>1 DEF Finishes, Carries, Goto, TypeInv, TypeOK
  <2> QED
    BY <2>1, <2>2
<1>2. CASE Carries(t, r)
  <2>1. r \in Submitted /\ r \in Pending
    BY <1>2, Held DEF Carries
  <2>2. WorkKept /\ UnsubmittedKept
    BY <1>2, <2>1 DEF Carries, WorkKept, UnsubmittedKept
  <2>3. BlocksKept
    BY <1>2, PendingType DEF Carries, BlocksKept
  <2>4. PipeInv' /\ Untouched' \subseteq Untouched \ {r} /\ Handed' \subseteq Handed \cup {r}
    BY <1>2, <2>2, <2>3, CarryPipe DEF Carries
  <2>5. ~Finishes(t, r)
    <3>1. t \in Threads
      BY TwoWorkers
    <3> QED
      BY <1>2, <3>1 DEF Finishes, Carries, Goto, TypeInv, TypeOK
  <2> QED
    BY <2>4, <2>5
<1> QED
  BY <1>1, <1>2

LEMMA CallerOthers ==
  ASSUME TypeInv, NEW r \in Requests, CallerFreeBuffer(r) \/ WorkDestroy(r)
  PROVE  \A x \in Requests \ {r} : work'[x] = work[x] /\ mem'[x] = mem[x]
<1>1. CASE CallerFreeBuffer(r)
  <2>1. \A x \in Requests \ {r} : mem'[x] = mem[x]
    BY <1>1, OtherBlocks, MemoryType DEF CallerFreeBuffer
  <2>2. \A x \in Requests \ {r} : work'[x] = work[x]
    BY <1>1 DEF CallerFreeBuffer, TypeInv, TypeOK
  <2> QED
    BY <2>1, <2>2
<1>2. CASE WorkDestroy(r)
  <2>1. FreeIn(mem, r, work[r].buffer, HeapOf(r)) \in Memory
    BY FreeInType, MemoryType, WorkType
  <2> QED
    BY <1>2, <2>1, OtherBlocks, MemoryType DEF WorkDestroy
<1> QED
  BY <1>1, <1>2

LEMMA CallerPipe ==
  ASSUME OneProducer, TypeInv, PipeInv, NEW r \in Requests,
         CallerFreeBuffer(r) \/ WorkDestroy(r)
  PROVE  PipeInv' /\ Onward
<1>1. UNCHANGED <<queue, alive, pc, cur, slot, order>> /\ r \in Submitted /\ r \notin Pending
  BY PendingIs DEF CallerFreeBuffer, WorkDestroy, Signaled, Done
<1>2. \A x \in Requests \ {r} : work'[x] = work[x] /\ mem'[x] = mem[x]
  BY CallerOthers
<1>3. WorkKept
  <2>1. CASE CallerFreeBuffer(r)
    BY <2>1 DEF CallerFreeBuffer, WorkKept, TypeInv, TypeOK, WorkFields
  <2>2. CASE WorkDestroy(r)
    BY <2>2 DEF WorkDestroy, WorkKept
  <2> QED
    BY <2>1, <2>2
<1>4. UnsubmittedKept /\ BlocksKept
  BY <1>1, <1>2, <1>3, PendingType DEF UnsubmittedKept, BlocksKept
<1> QED
  BY <1>1, <1>3, <1>4, DataStepPipe

LEMMA InitPipe == ASSUME OneProducer, Init PROVE PipeInv
<1>1. TypeInv
  BY InitType
<1>2. /\ pc["client"] = "ready" /\ \A t \in Workers : pc[t] = "pop"
      /\ order = << >> /\ \A q \in Queues : alive[q]
      /\ \A r \in Requests : work[r] = NoWork /\ \A b \in Blocks : mem[r][b] = "none"
  BY Names DEF Init
<1>3. \A q \in Queues : pc[q] = "pop" /\ queue[q].used = 0 /\ queue[q].head = 0
                        /\ queue[q].tail = 0
  BY <1>2, Names DEF Init, NewDeque
<1>4. \A q \in Queues : ~ClientPushes(q) /\ ~WorkerPushes(q)
  BY <1>2, Names DEF ClientPushes, WorkerPushes
<1>5. \A q \in Queues : First(q) = 0 /\ Size(q) = 0 /\ Pushing(q) = 0
  BY <1>3, <1>4 DEF First, Size, Pushing, Bit
<1>6. 0 % QueueLength = 0
  BY ModSmall, Lengths
<1>7. \A q \in Queues : Ring(q)
  BY <1>3, <1>4, <1>5, <1>6 DEF Ring
<1>8. \A q \in Queues : Queued(q) = {} /\ Hand(q) = {} /\ ~Holds(q) /\ Zone(q) = {}
  <2>1. \A q \in Queues : Queued(q) = {}
    BY <1>5 DEF Queued
  <2>2. \A q \in Queues : Hand(q) = {} /\ ~Holds(q)
    BY <1>3 DEF Hand, Holds
  <2> QED
    BY <2>1, <2>2 DEF Zone
<1>9. ClientHand = {} /\ Submitted = {} /\ Len(order) = 0
  BY <1>2 DEF ClientHand, Submitted
<1>10. Pending = {}
  BY <1>9, PendingIs
<1>11. ExitWorker \in Queues /\ EntryWorker \in Queues
  BY Roles, Names
<1>12. Contents
  BY <1>2, <1>8, <1>9, <1>11 DEF Contents
<1>13. History
  BY <1>2, <1>9 DEF History
<1>14. Whereabouts
  BY <1>8, <1>9, <1>10, Names DEF Whereabouts
<1>15. Sorted
  BY <1>5, <1>8, <1>9, <1>11 DEF Sorted, LineSorted, HandFirst
<1>16. Stopping
  BY <1>2, <1>3, <1>5, <1>10, Names DEF Stopping, NullLast
<1> QED
  BY <1>7, <1>12, <1>13, <1>14, <1>15, <1>16 DEF PipeInv

LEMMA NextPipe == ASSUME OneProducer, TypeInv, PipeInv, [Next]_vars PROVE PipeInv'
<1>1. CASE Client
  BY <1>1, SubmitPipe, CallerPipe, ClientStopPipe, SubmitWritePipe, StopWritePipe, JoinsPipe
     DEF Client, ClientInCall
<1>2. ASSUME NEW t \in Workers, Worker(t)
      PROVE  PipeInv'
  <2>1. CASE Pop(t) \/ Fetch(t) \/ HandOver(t) \/ HandOverWrite(t)
    BY <2>1, PopPipe, FetchPipe, HandOverPipe, HandOverWritePipe
  <2>2. ASSUME NEW r \in Requests, FileHandler(r)
        PROVE  PipeInv'
    BY <2>2, HandlersEnd, EndsPipe DEF Workers
  <2>3. ASSUME NEW r \in Requests, CompressHandler(r)
        PROVE  PipeInv'
    BY <2>3, HandlersEnd, EndsPipe DEF Workers
  <2> QED
    BY <1>2, <2>1, <2>2, <2>3 DEF Worker
<1>3. CASE UNCHANGED vars
  <2>1. UNCHANGED <<queue, alive, pc, cur, slot, order>>
    BY <1>3 DEF vars
  <2>2. WorkKept /\ UnsubmittedKept /\ BlocksKept
    BY <1>3 DEF vars, WorkKept, UnsubmittedKept, BlocksKept
  <2> QED
    BY <2>1, <2>2, DataStepPipe
<1> QED
  BY <1>1, <1>2, <1>3 DEF Next

(* fs.c 149-193, 229-313, deque.c 45-69: with one producer for each queue, a   *)
(* queue is a ring of work objects in order of submission, no two of its slots *)
(* written at once, and each worker has one object of its kind in hand.        *)
THEOREM Pipeline == ASSUME OneProducer PROVE Spec => []PipeInv
<1>1. Init => PipeInv
  BY InitPipe
<1>2. PipeInv /\ TypeInv /\ [Next]_vars => PipeInv'
  BY NextPipe
<1> QED
  BY <1>1, <1>2, TypingInv, PTL DEF Spec

-----------------------------------------------------------------------------
(* What follows for the workers, the queues and fsDestroy. *)

LEMMA Invariants == ASSUME OneProducer PROVE Spec => [](TypeInv /\ PipeInv)
BY TypingInv, Pipeline, PTL

LEMMA HeldPending ==
  ASSUME TypeInv, PipeInv, NEW t \in Workers, Holds(t)
  PROVE  cur[t] \in Zone(t) /\ cur[t] \in Pending
<1>1. cur[t] \in Zone(t)
  BY DEF Zone, Hand
<1> QED
  BY <1>1, Names DEF PipeInv, Whereabouts

(* fs.c 269-313: a worker only ever works on an object that was queued, is    *)
(* not complete and is not freed.                                             *)
THEOREM LiveWork == ASSUME OneProducer PROVE Spec => []WorkersHoldLiveWork
<1>1. TypeInv /\ PipeInv => WorkersHoldLiveWork
  BY HeldPending DEF PipeInv, Whereabouts, WorkersHoldLiveWork
<1> QED
  BY <1>1, Invariants, PTL

(* fs.c 57-67, 188, 266: the deques are destroyed only when no thread is     *)
(* inside one of their operations.                                           *)
THEOREM LiveQueues == ASSUME OneProducer PROVE Spec => []QueuesAlive
<1>1. ASSUME TypeInv, PipeInv PROVE QueuesAlive
  <2>1. ASSUME NEW t \in Workers, pc[t] \in {"pop", "fetch"} PROVE alive[t]
    <3>1. pc[t] # "exited"
      BY <2>1
    <3>2. ~alive[t] => pc[t] = "exited"
      BY <1>1 DEF PipeInv, Stopping, Workers
    <3> QED
      BY <3>1, <3>2
  <2>2. ASSUME NEW t \in Workers, pc[t] \in {"push", "handover"} PROVE alive[Other(t)]
    <3>1. t = EntryWorker
      BY <1>1, <2>2, Carrying
    <3>2. CASE t = "file"
      <4>1. Other(t) = "compress" /\ pc["client"] \in {"ready", "submit"}
        BY <1>1, <2>2, <3>1, <3>2, Carrying DEF Other
      <4> QED
        BY <1>1, <4>1 DEF PipeInv, Stopping
    <3>3. CASE t = "compress"
      <4>1. Other(t) = "file" /\ pc["client"] # "gone"
        BY <1>1, <2>2, <3>1, <3>3, Carrying DEF Other
      <4> QED
        BY <1>1, <4>1 DEF PipeInv, Stopping
    <3> QED
      BY <2>2, <3>2, <3>3 DEF Workers
  <2> QED
    BY <2>1, <2>2 DEF QueuesAlive
<1> QED
  BY <1>1, Invariants, PTL

(* fs.c 57-67: fsDestroy returns with both queues empty and no work in hand. *)
THEOREM Drained == ASSUME OneProducer PROVE Spec => []DestroyDrains
<1>1. ASSUME TypeInv, PipeInv, pc["client"] = "gone" PROVE Pending = {}
  <2>1. \A q \in Queues : pc[q] = "exited" /\ Size(q) = 0
    BY <1>1, Names DEF PipeInv, Stopping
  <2>2. \A q \in Queues : Queued(q) = {} /\ Hand(q) = {}
    BY <2>1 DEF Queued, Hand, Holds
  <2>3. ClientHand = {}
    BY <1>1 DEF ClientHand
  <2> QED
    BY <1>1, <2>2, <2>3, Names DEF PipeInv, Whereabouts, Zone
<1> QED
  BY <1>1, Invariants, PTL DEF DestroyDrains

-----------------------------------------------------------------------------
(* Who takes up the room in the queues.  Nothing here needs one producer: it  *)
(* counts slots and hands, whatever they hold.                                *)

\* The slots of queue q that are taken, and the hands of its worker, as long as
\* what they hold has no slot yet in the queue it goes on to.
Units(q) == QueueLength - queue[q].free + Bit(pc[q] \in {"run", "push"})
Load == Units("file") + Units("compress")

\* The NULLs that fsDestroy has pushed or is pushing.
Nulls ==
  IF pc["client"] \in {"ready", "submit"} THEN 0
  ELSE IF pc["client"] \in {"stopCompress", "joinCompress", "nullFile"} THEN 1 ELSE 2

\* Every slot that is taken, and every hand, is there for one incomplete work
\* object or for one NULL.
LoadInv ==
  /\ Load <= Cardinality(Pending) + Nulls
  /\ Cardinality(Pending) <= MaxInFlight
  /\ ~DestroyEarly /\ pc["client"] \notin {"ready", "submit"} => Pending = {}
  /\ pc["client"] \in {"nullFile", "stopFile", "joinFile", "gone"} => pc["compress"] = "exited"

\* Two full queues and two full hands are more than the client leaves incomplete.
FewInFlight == MaxInFlight <= 2 * QueueLength + (IF DestroyEarly THEN 0 ELSE 1)

LEMMA UnitsType ==
  ASSUME TypeInv, NEW q \in Queues
  PROVE  Units(q) \in Nat
BY QueueType, Lengths DEF Units, Bit

LEMMA LoadType == ASSUME TypeInv PROVE Load \in Nat
BY UnitsType DEF Load, Queues

LEMMA NullsType == Nulls \in 0 .. 2
BY DEF Nulls

LEMMA PendingCount ==
  ASSUME TypeInv
  PROVE  IsFiniteSet(Pending) /\ Cardinality(Pending) \in Nat
BY PendingType, RequestsAssumption, FS_Subset, FS_CardinalityType

LEMMA PcAfter ==
  ASSUME TypeInv, NEW t \in Threads, NEW step, Goto(t, step)
  PROVE  pc'[t] = step /\ \A o \in Threads \ {t} : pc'[o] = pc[o]
BY DEF Goto, TypeInv, TypeOK

LEMMA QueueAfter ==
  ASSUME TypeInv, NEW q \in Queues, NEW d, queue' = [queue EXCEPT ![q] = d]
  PROVE  queue'[q] = d /\ \A o \in Queues \ {q} : queue'[o] = queue[o]
BY DEF TypeInv, TypeOK

(* What the four operations on a queue do to its free slots. *)
LEMMA FreeAfter ==
  ASSUME TypeInv, NEW q \in Queues, NEW s, NEW item
  PROVE  /\ PushClaim(queue[q]).free = queue[q].free - 1
         /\ PushWrite(queue[q], s, item).free = queue[q].free
         /\ PopClaim(queue[q]).free = queue[q].free
         /\ PopRead(queue[q]).free = queue[q].free + 1
BY QueueType, PushClaimFields, PushWriteFields, PopClaimFields, PopReadFields

LEMMA UnitsSame ==
  ASSUME NEW q, queue'[q].free = queue[q].free,
         pc'[q] \in {"run", "push"} <=> pc[q] \in {"run", "push"}
  PROVE  Units(q)' = Units(q)
BY DEF Units, Bit

(* The client claims a slot. *)
LEMMA ClientClaims ==
  ASSUME TypeInv, NEW q \in Queues, NEW item, NEW step,
         StartPush("client", q, item), Goto("client", step)
  PROVE  Load' = Load + 1 /\ pc'["client"] = step /\ \A t \in Workers : pc'[t] = pc[t]
<1>1. pc'["client"] = step /\ \A t \in Workers : pc'[t] = pc[t]
  BY PcAfter, Names
<1>2. queue'[q].free = queue[q].free - 1 /\ \A o \in Queues \ {q} : queue'[o] = queue[o]
  <2>1. queue'[q] = PushClaim(queue[q]) /\ \A o \in Queues \ {q} : queue'[o] = queue[o]
    BY QueueAfter DEF StartPush
  <2> QED
    BY <2>1, FreeAfter
<1>3. Units(q)' = Units(q) + 1
  BY <1>1, <1>2, Names, QueueType, Lengths DEF Units, Bit
<1>4. \A o \in Queues \ {q} : Units(o)' = Units(o)
  BY <1>1, <1>2, Names, UnitsSame
<1>5. Load' = Load + 1
  BY <1>3, <1>4, UnitsType DEF Load, Queues
<1> QED
  BY <1>1, <1>5

(* A step of the client that claims nothing. *)
LEMMA ClientClaimsNothing ==
  ASSUME TypeInv, NEW step, Goto("client", step),
         \A q \in Queues : queue'[q].free = queue[q].free
  PROVE  Load' = Load /\ pc'["client"] = step /\ \A t \in Workers : pc'[t] = pc[t]
<1>1. pc'["client"] = step /\ \A t \in Workers : pc'[t] = pc[t]
  BY PcAfter, Names
<1>2. \A q \in Queues : Units(q)' = Units(q)
  BY <1>1, Names, UnitsSame
<1> QED
  BY <1>1, <1>2 DEF Load, Queues

LEMMA EndPushFree ==
  ASSUME TypeInv, NEW t, NEW q \in Queues, EndPush(t, q)
  PROVE  \A o \in Queues : queue'[o].free = queue[o].free
BY QueueAfter, FreeAfter DEF EndPush

(* A step of worker t leaves the load alone or lightens it. *)
LEMMA LoadOf ==
  ASSUME TypeInv, TypeInv', NEW t \in Workers,
         Units(t)' + Units(Other(t))' <= Units(t) + Units(Other(t))
  PROVE  Load' <= Load
<1>1. Load = Units(t) + Units(Other(t)) /\ Load' = Units(t)' + Units(Other(t))'
  <2>1. \A q \in Queues : Units(q) \in Nat /\ Units(q)' \in Nat
    <3>1. \A q \in Queues : Units(q) \in Nat
      BY UnitsType
    <3>2. ASSUME NEW q \in Queues PROVE Units(q)' \in Nat
      <4>1. queue'[q].free \in 0 .. QueueLength
        BY DequeFields DEF TypeInv, TypeOK
      <4> QED
        BY <4>1, Lengths DEF Units, Bit
    <3> QED
      BY <3>1, <3>2
  <2> QED
    BY <2>1 DEF Load, Workers, Queues, Other
<1> QED
  BY <1>1

(* A worker's operations on the queues: popping an item gives a slot back and   *)
(* fills a hand, handing over takes a slot and empties the hand.                *)
LEMMA WorkerLoad ==
  ASSUME TypeInv, TypeInv', NEW t \in Workers,
         Pop(t) \/ Fetch(t) \/ HandOver(t) \/ HandOverWrite(t)
  PROVE  /\ Load' <= Load /\ pc'["client"] = pc["client"] /\ pc[t] # "exited"
         /\ \A o \in Workers \ {t} : pc'[o] = pc[o]
<1> DEFINE u == Other(t)
<1>1. t \in Threads /\ t \in Queues /\ u \in Queues \ {t}
  BY TwoWorkers
<1> HIDE DEF u
<1>2. PICK step : Goto(t, step) /\ pc[t] # "exited"
  BY DEF Pop, Fetch, HandOver, HandOverWrite
<1>3. pc'[t] = step /\ \A o \in Threads \ {t} : pc'[o] = pc[o]
  BY <1>1, <1>2, PcAfter
<1>4. /\ pc'["client"] = pc["client"] /\ pc'[u] = pc[u]
      /\ \A o \in Workers \ {t} : pc'[o] = pc[o]
  BY <1>1, <1>3, TwoWorkers, Names
<1>5. queue[t].free \in Nat /\ queue[u].free \in Nat /\ Units(t) \in Nat /\ Units(u) \in Nat
  BY <1>1, QueueType, Lengths, UnitsType
<1>6. ASSUME Pop(t) PROVE Units(t)' + Units(u)' <= Units(t) + Units(u)
  <2>1. queue'[t].free = queue[t].free /\ queue'[u].free = queue[u].free
    <3>1. queue'[t] = PopClaim(queue[t]) /\ queue'[u] = queue[u]
      BY <1>1, <1>6, QueueAfter DEF Pop
    <3> QED
      BY <1>1, <3>1, FreeAfter
  <2>2. pc[t] = "pop" /\ pc'[t] = "fetch"
    BY <1>1, <1>6, PcAfter DEF Pop
  <2> QED
    BY <1>4, <1>5, <2>1, <2>2, UnitsSame
<1>7. ASSUME Fetch(t) PROVE Units(t)' + Units(u)' <= Units(t) + Units(u)
  <2>1. queue'[t].free = queue[t].free + 1 /\ queue'[u].free = queue[u].free
    <3>1. queue'[t] = PopRead(queue[t]) /\ queue'[u] = queue[u]
      BY <1>1, <1>7, QueueAfter DEF Fetch
    <3> QED
      BY <1>1, <3>1, FreeAfter
  <2>2. pc[t] = "fetch"
    BY <1>7 DEF Fetch
  <2>3. Units(t)' <= Units(t)
    BY <1>5, <2>1, <2>2, Lengths DEF Units, Bit
  <2>4. Units(u)' = Units(u)
    BY <1>4, <2>1, UnitsSame
  <2>5. Units(t)' \in Int
    BY <1>1, <1>5, <2>1, Lengths DEF Units, Bit
  <2> QED
    BY <1>5, <2>3, <2>4, <2>5
<1>8. ASSUME HandOver(t) PROVE Units(t)' + Units(u)' <= Units(t) + Units(u)
  <2>1. queue'[u].free = queue[u].free - 1 /\ queue'[t].free = queue[t].free
    <3>1. t \in Queues \ {u}
      BY <1>1
    <3>2. queue'[u] = PushClaim(queue[u]) /\ queue'[t] = queue[t]
      BY <1>1, <1>8, <3>1, QueueAfter DEF HandOver, StartPush, u
    <3> QED
      BY <1>1, <3>2, FreeAfter
  <2>2. pc[t] = "push" /\ pc'[t] = "handover"
    BY <1>1, <1>8, PcAfter DEF HandOver
  <2>3. Units(t)' = Units(t) - 1
    BY <1>5, <2>1, <2>2, Lengths DEF Units, Bit
  <2>4. Units(u)' = Units(u) + 1
    BY <1>4, <1>5, <2>1, Lengths DEF Units, Bit
  <2> QED
    BY <1>5, <2>3, <2>4
<1>9. ASSUME HandOverWrite(t) PROVE Units(t)' + Units(u)' <= Units(t) + Units(u)
  <2>1. queue'[u].free = queue[u].free /\ queue'[t].free = queue[t].free
    BY <1>1, <1>9, EndPushFree DEF HandOverWrite, u
  <2>2. pc[t] = "handover" /\ pc'[t] = "pop"
    BY <1>1, <1>9, PcAfter DEF HandOverWrite
  <2> QED
    BY <1>4, <1>5, <2>1, <2>2, UnitsSame
<1>10. Units(t)' + Units(u)' <= Units(t) + Units(u)
  BY <1>6, <1>7, <1>8, <1>9
<1> QED
  BY <1>2, <1>4, <1>10, LoadOf DEF u

(* A handler that ends with work r, and one that goes on with it. *)
Ends(t, r) ==
  /\ pc[t] = "run" /\ Goto(t, "pop") /\ HandlerFrame
  /\ \A x \in Requests \ {r} : work'[x] = work[x]
  /\ work'[r].done \/ work'[r].abandoned

Passes(t) ==
  /\ pc[t] = "run" /\ Goto(t, "push") /\ HandlerFrame
  /\ \A x \in Requests : work'[x].done = work[x].done /\ work'[x].abandoned = work[x].abandoned

LEMMA FileReadPasses ==
  ASSUME TypeInv, NEW r \in Requests, FileRead(r)
  PROVE  Ends("file", r) \/ Passes("file")
<1>1. pc["file"] = "run" /\ Goto("file", AfterRead(r)) /\ HandlerFrame
  BY DEF FileRead, Handles
<1>2. work'[r] = ReadWork(r) /\ \A x \in Requests \ {r} : work'[x] = work[x]
  BY WorkAfter DEF FileRead
<1>3. /\ work'[r].abandoned = work[r].abandoned
      /\ work'[r].done = (work[r].done \/ r \notin Compressed)
  BY <1>2, WorkType DEF ReadWork, WorkFields
<1>4. CASE r \in Compressed
  <2>1. work'[r].done = work[r].done
    BY <1>3, <1>4, WorkType
  <2> QED
    BY <1>1, <1>2, <1>3, <1>4, <2>1 DEF Passes, AfterRead
<1>5. CASE r \notin Compressed
  BY <1>1, <1>2, <1>3, <1>5 DEF Ends, AfterRead
<1> QED
  BY <1>4, <1>5

LEMMA FileCompressPasses ==
  ASSUME TypeInv, NEW r \in Requests, FileCompress(r)
  PROVE  Passes("compress")
<1>1. /\ pc["compress"] = "run" /\ Goto("compress", "push") /\ HandlerFrame
      /\ work' = [work EXCEPT ![r].buffer = "packed", ![r].op = "WRITE"]
  BY DEF FileCompress, Handles
<1>2. \A x \in Requests \ {r} : work'[x] = work[x]
  BY <1>1 DEF TypeInv, TypeOK
<1>3. work'[r].done = work[r].done /\ work'[r].abandoned = work[r].abandoned
  BY <1>1 DEF TypeInv, TypeOK, WorkFields
<1> QED
  BY <1>1, <1>2, <1>3 DEF Passes

LEMMA HandlersPass ==
  ASSUME TypeInv, NEW r \in Requests
  PROVE  /\ FileHandler(r) => Ends("file", r) \/ Passes("file")
         /\ CompressHandler(r) => Ends("compress", r) \/ Passes("compress")
<1>1. \A t \in Workers : Finishes(t, r) => Ends(t, r)
  BY DEF Finishes, Ends
<1>2. FileHandler(r) => Ends("file", r) \/ Passes("file")
  BY <1>1, FileReadPasses, FileReadFailsEnds, FileWriteEnds, FileWriteFailsEnds
     DEF FileHandler, Workers
<1>3. CompressHandler(r) => Ends("compress", r) \/ Passes("compress")
  BY <1>1, FileCompressPasses, FileDecompressEnds, FileDecompressFailsEnds
     DEF CompressHandler, Workers
<1> QED
  BY <1>2, <1>3

(* A step that leaves the load alone or lightens it, completes nothing and       *)
(* moves the client no closer to the end of fsDestroy.                           *)
LEMMA LoadKept ==
  ASSUME TypeInv, TypeInv', LoadInv, Load' <= Load, Pending' = Pending, Nulls' = Nulls,
         pc'["client"] \in {"ready", "submit"} <=> pc["client"] \in {"ready", "submit"},
         pc'["client"] \in {"nullFile", "stopFile", "joinFile", "gone"} => pc'["compress"] = "exited"
  PROVE  LoadInv'
<1>1. Load \in Nat /\ Load' \in Int
  <2>1. \A q \in Queues : queue'[q].free \in 0 .. QueueLength
    BY DequeFields DEF TypeInv, TypeOK
  <2>2. \A q \in Queues : Units(q)' \in Int
    BY <2>1, Lengths DEF Units, Bit
  <2> QED
    BY <2>2, LoadType DEF Load, Queues
<1>2. Cardinality(Pending) \in Nat /\ Nulls \in Nat
  BY PendingCount, NullsType
<1> QED
  BY <1>1, <1>2 DEF LoadInv

(* A handler ends: one hand is empty, and at most that one work is complete. *)
LEMMA EndsLoad ==
  ASSUME TypeInv, TypeInv', LoadInv, NEW t \in Workers, NEW r \in Requests, Ends(t, r)
  PROVE  LoadInv'
<1>1. /\ pc[t] = "run" /\ pc'[t] = "pop" /\ \A o \in Threads \ {t} : pc'[o] = pc[o]
      /\ queue' = queue /\ order' = order
  BY PcAfter, TwoWorkers DEF Ends, HandlerFrame
<1>2. pc'["client"] = pc["client"] /\ pc'[Other(t)] = pc[Other(t)]
      /\ \A o \in Workers : pc[o] = "exited" => pc'[o] = "exited"
  BY <1>1, TwoWorkers, Names
<1>3. Units(t)' = Units(t) - 1 /\ Units(Other(t))' = Units(Other(t))
  <2>1. queue[t].free \in Nat
    BY QueueType, Lengths, TwoWorkers
  <2>2. Units(t)' = Units(t) - 1
    BY <1>1, <2>1, Lengths DEF Units, Bit
  <2> QED
    BY <1>1, <1>2, <2>2, UnitsSame
<1>4. Load' = Load - 1
  BY <1>3, UnitsType DEF Load, Queues, Workers, Other
<1>5. Pending' = Pending \ {r}
  <2>1. Submitted' = Submitted /\ Submitted \subseteq Requests
    BY <1>1, SubmittedSame, SubmittedType
  <2> QED
    BY <2>1, PendingIs, PendingNext DEF Ends
<1>6. /\ IsFiniteSet(Pending) /\ Cardinality(Pending) \in Nat /\ Cardinality(Pending') \in Nat
      /\ Cardinality(Pending') <= Cardinality(Pending)
      /\ Cardinality(Pending) <= Cardinality(Pending') + 1
  BY <1>5, PendingCount, FS_RemoveElement, FS_CardinalityType, FS_Subset
<1>7. Nulls' = Nulls /\ Nulls \in Nat
  BY <1>2, NullsType DEF Nulls
<1>8. Load' <= Cardinality(Pending') + Nulls'
  BY <1>4, <1>6, <1>7, LoadType DEF LoadInv
<1>9. Cardinality(Pending') <= MaxInFlight
  BY <1>6, EnvironmentAssumption DEF LoadInv
<1>10. pc'["client"] \in {"nullFile", "stopFile", "joinFile", "gone"} => pc'["compress"] = "exited"
  BY <1>2 DEF LoadInv, Workers
<1> QED
  BY <1>2, <1>5, <1>8, <1>9, <1>10 DEF LoadInv

(* A handler hands its work on: the hand stays full. *)
LEMMA PassesLoad ==
  ASSUME TypeInv, TypeInv', LoadInv, NEW t \in Workers, Passes(t)
  PROVE  LoadInv'
<1>1. /\ pc[t] = "run" /\ pc'[t] = "push" /\ \A o \in Threads \ {t} : pc'[o] = pc[o]
      /\ queue' = queue /\ order' = order
  BY PcAfter, TwoWorkers DEF Passes, HandlerFrame
<1>2. /\ pc'["client"] = pc["client"] /\ pc'[Other(t)] = pc[Other(t)]
      /\ \A o \in Workers : pc[o] = "exited" => pc'[o] = "exited"
  BY <1>1, TwoWorkers, Names
<1>3. \A q \in Queues : Units(q)' = Units(q)
  BY <1>1, <1>2, TwoWorkers, UnitsSame
<1>4. Load' = Load
  BY <1>3 DEF Load, Queues
<1>5. Pending' = Pending
  <2>1. Submitted' = Submitted /\ Submitted \subseteq Requests
    BY <1>1, SubmittedSame, SubmittedType
  <2> QED
    BY <2>1, PendingIs, PendingNext DEF Passes
<1>6. Nulls' = Nulls
  BY <1>2 DEF Nulls
<1>7. pc'["client"] \in {"nullFile", "stopFile", "joinFile", "gone"} => pc'["compress"] = "exited"
  BY <1>2 DEF LoadInv, Workers
<1> QED
  BY <1>2, <1>4, <1>5, <1>6, <1>7, LoadKept, LoadType

LEMMA SubmitLoad ==
  ASSUME TypeInv, LoadInv, NEW r \in Requests, Submit(r)
  PROVE  LoadInv'
<1>1. /\ pc["client"] = "ready" /\ r \notin Submitted /\ Cardinality(Pending) < MaxInFlight
      /\ StartPush("client", FirstQueue(r), r) /\ Goto("client", "submit")
      /\ work' = [work EXCEPT ![r] = NewWork(r)] /\ order' = Append(order, r)
  BY DEF Submit
<1>2. Load' = Load + 1 /\ pc'["client"] = "submit"
  BY <1>1, Names, ClientClaims
<1>3. Pending' = Pending \cup {r} /\ r \notin Pending
  <2>1. Submitted' = Submitted \cup {r}
    <3>1. /\ Len(order) \in Nat /\ Len(order') = Len(order) + 1
          /\ \A k \in 1 .. Len(order) : order'[k] = order[k]
          /\ order'[Len(order) + 1] = r
      BY <1>1 DEF TypeInv, TypeOK
    <3>2. 1 .. Len(order') = (1 .. Len(order)) \cup {Len(order) + 1}
      BY <3>1
    <3> QED
      BY <3>1, <3>2 DEF Submitted
  <2>2. work'[r] = NewWork(r) /\ \A x \in Requests \ {r} : work'[x] = work[x]
    BY <1>1, WorkAfter
  <2>3. ~NewWork(r).done /\ ~NewWork(r).abandoned
    BY DEF NewWork, NoWork
  <2> QED
    BY <1>1, <2>1, <2>2, <2>3, PendingIs, PendingNext, SubmittedType
<1>4. Cardinality(Pending') = Cardinality(Pending) + 1
  BY <1>3, PendingCount, FS_AddElement
<1>5. Nulls = 0 /\ Nulls' = 0
  BY <1>1, <1>2 DEF Nulls
<1> QED
  BY <1>1, <1>2, <1>4, <1>5, LoadType, PendingCount, EnvironmentAssumption DEF LoadInv

(* fsDestroy pushes NULL, to the second queue when the first worker is gone. *)
LEMMA StopLoad ==
  ASSUME TypeInv, LoadInv, FsDestroy \/ NullFile
  PROVE  LoadInv'
<1>1. PICK q \in Queues, step \in {"stopCompress", "stopFile"} :
        /\ StartPush("client", q, NULL) /\ Goto("client", step)
        /\ UNCHANGED <<alive, work, mem, order>>
        /\ \/ pc["client"] = "ready" /\ step = "stopCompress" /\ (DestroyEarly \/ Pending = {})
           \/ pc["client"] = "nullFile" /\ step = "stopFile"
  BY DEF FsDestroy, NullFile, Queues
<1>2. Load' = Load + 1 /\ pc'["client"] = step /\ \A t \in Workers : pc'[t] = pc[t]
  BY <1>1, ClientClaims
<1>3. Pending' = Pending
  BY <1>1, PendingIs, PendingNext, SubmittedSame
<1>4. Nulls' = Nulls + 1
  BY <1>1, <1>2 DEF Nulls
<1>5. DestroyEarly \in BOOLEAN
  BY EnvironmentAssumption
<1>6. Load' <= Cardinality(Pending') + Nulls'
  BY <1>2, <1>3, <1>4, LoadType, PendingCount, NullsType DEF LoadInv
<1>7. ~DestroyEarly => Pending = {}
  BY <1>1 DEF LoadInv
<1>8. pc'["client"] \in {"nullFile", "stopFile", "joinFile", "gone"} => pc'["compress"] = "exited"
  BY <1>1, <1>2 DEF LoadInv, Workers
<1> QED
  BY <1>3, <1>6, <1>7, <1>8 DEF LoadInv

(* The other steps of fsDestroy, and the end of a push of the client. *)
LEMMA ClientCallLoad ==
  ASSUME TypeInv, TypeInv', LoadInv,
         SubmitWrite \/ StopCompress \/ JoinCompress \/ StopFile \/ JoinFile
  PROVE  LoadInv'
<1>1. \A q \in Queues : queue'[q].free = queue[q].free
  BY EndPushFree, Names
     DEF SubmitWrite, StopCompress, JoinCompress, StopFile, JoinFile
<1>2. PICK step :
        /\ Goto("client", step) /\ UNCHANGED <<work, order>>
        /\ \/ pc["client"] = "submit" /\ step = "ready"
           \/ pc["client"] = "stopCompress" /\ step = "joinCompress"
           \/ pc["client"] = "joinCompress" /\ step = "nullFile" /\ pc["compress"] = "exited"
           \/ pc["client"] = "stopFile" /\ step = "joinFile"
           \/ pc["client"] = "joinFile" /\ step = "gone"
  BY DEF SubmitWrite, StopCompress, JoinCompress, StopFile, JoinFile, EndPush, Joined
<1>3. Load' = Load /\ pc'["client"] = step /\ \A t \in Workers : pc'[t] = pc[t]
  BY <1>1, <1>2, ClientClaimsNothing
<1>4. Pending' = Pending
  BY <1>2, PendingIs, PendingNext, SubmittedSame
<1>5. Nulls' = Nulls
  BY <1>2, <1>3 DEF Nulls
<1>6. pc'["client"] \in {"ready", "submit"} <=> pc["client"] \in {"ready", "submit"}
  BY <1>2, <1>3
<1>7. pc'["client"] \in {"nullFile", "stopFile", "joinFile", "gone"} => pc'["compress"] = "exited"
  BY <1>2, <1>3 DEF LoadInv, Workers
<1> QED
  BY <1>3, <1>4, <1>5, <1>6, <1>7, LoadKept, LoadType

(* The queues and the threads stay as they are, and no work completes. *)
LEMMA QuietLoad ==
  ASSUME LoadInv, UNCHANGED <<queue, pc, order>>,
         \A x \in Requests : work'[x].done = work[x].done /\ work'[x].abandoned = work[x].abandoned,
         TypeInv
  PROVE  LoadInv'
<1>1. Pending' = Pending
  BY PendingIs, PendingNext, SubmittedSame, SubmittedType
<1> QED
  BY <1>1 DEF LoadInv, Load, Units, Nulls, Bit

LEMMA CallerLoad ==
  ASSUME TypeInv, LoadInv, NEW r \in Requests, CallerFreeBuffer(r) \/ WorkDestroy(r)
  PROVE  LoadInv'
<1>1. UNCHANGED <<queue, pc, order>>
  BY DEF CallerFreeBuffer, WorkDestroy
<1>2. ASSUME NEW x \in Requests
      PROVE  work'[x].done = work[x].done /\ work'[x].abandoned = work[x].abandoned
  <2>1. CASE CallerFreeBuffer(r)
    BY <2>1 DEF CallerFreeBuffer, TypeInv, TypeOK, WorkFields
  <2>2. CASE WorkDestroy(r)
    BY <2>2 DEF WorkDestroy
  <2> QED
    BY <2>1, <2>2
<1> QED
  BY <1>1, <1>2, QuietLoad

LEMMA WorkerQueueLoad ==
  ASSUME TypeInv, TypeInv', LoadInv, NEW t \in Workers,
         Pop(t) \/ Fetch(t) \/ HandOver(t) \/ HandOverWrite(t)
  PROVE  LoadInv'
<1>1. /\ Load' <= Load /\ pc'["client"] = pc["client"] /\ pc[t] # "exited"
      /\ \A o \in Workers \ {t} : pc'[o] = pc[o]
  BY WorkerLoad
<1>2. work' = work /\ order' = order
  BY DEF Pop, Fetch, HandOver, HandOverWrite, EndPush
<1>3. Pending' = Pending
  BY <1>2, PendingIs, PendingNext, SubmittedSame
<1>4. Nulls' = Nulls
  BY <1>1 DEF Nulls
<1>5. pc'["client"] \in {"nullFile", "stopFile", "joinFile", "gone"} => pc'["compress"] = "exited"
  BY <1>1 DEF LoadInv, Workers
<1> QED
  BY <1>1, <1>3, <1>4, <1>5, LoadKept

LEMMA NextLoad == TypeInv /\ TypeInv' /\ LoadInv /\ [Next]_vars => LoadInv'
<1> SUFFICES ASSUME TypeInv, TypeInv', LoadInv, [Next]_vars PROVE LoadInv'
  OBVIOUS
<1>1. CASE Client
  BY <1>1, SubmitLoad, CallerLoad, StopLoad, ClientCallLoad DEF Client, ClientInCall
<1>2. ASSUME NEW t \in Workers, Worker(t)
      PROVE  LoadInv'
  <2>1. CASE Pop(t) \/ Fetch(t) \/ HandOver(t) \/ HandOverWrite(t)
    BY <2>1, WorkerQueueLoad
  <2>2. ASSUME NEW r \in Requests, FileHandler(r) \/ CompressHandler(r)
        PROVE  LoadInv'
    BY <2>2, HandlersPass, EndsLoad, PassesLoad DEF Workers
  <2> QED
    BY <1>2, <2>1, <2>2 DEF Worker
<1>3. CASE UNCHANGED vars
  BY <1>3, QuietLoad DEF vars
<1> QED
  BY <1>1, <1>2, <1>3 DEF Next

LEMMA InitLoad == Init => LoadInv
<1> SUFFICES ASSUME Init PROVE LoadInv
  OBVIOUS
<1>1. Pending = {}
  BY PendingIs DEF Init, Submitted
<1>2. pc["client"] = "ready" /\ \A q \in Queues : pc[q] = "pop" /\ queue[q].free = QueueLength
  BY Names DEF Init, NewDeque
<1>3. \A q \in Queues : Units(q) = 0
  BY <1>2, Lengths DEF Units, Bit
<1>4. Load = 0 /\ Nulls = 0
  BY <1>2, <1>3 DEF Load, Nulls, Queues
<1> QED
  BY <1>1, <1>2, <1>4, FS_EmptySet, EnvironmentAssumption DEF LoadInv

(* fs.c 188, 266: whatever is queued, whatever fails and however the pushes of   *)
(* two threads cross, the two workers do not wait for each other's queue as long *)
(* as the client leaves no more than FewInFlight works incomplete: both queues   *)
(* full and both hands full is one work more than there are.  One more than that *)
(* and they can wait for ever.                                                    *)
THEOREM NoMutualWait == ASSUME FewInFlight PROVE Spec => []NoCircularWait
<1>1. ASSUME TypeInv, LoadInv PROVE NoCircularWait
  <2> SUFFICES ASSUME \A t \in Workers : pc[t] = "push" /\ ~CanPush(queue[Other(t)])
               PROVE  FALSE
    BY DEF NoCircularWait
  <2>1. ASSUME NEW q \in Queues PROVE Units(q) = QueueLength + 1
    <3>1. q \in Workers /\ Other(q) \in Workers /\ Other(Other(q)) = q
      BY Names
    <3>2. pc[q] = "push" /\ ~CanPush(queue[q])
      BY <3>1
    <3> QED
      <4>1. queue[q].free \in Nat /\ QueueLength \in Nat
        BY <1>1, QueueType, Lengths
      <4>2. queue[q].free = 0 /\ pc[q] \in {"run", "push"}
        BY <3>2, <4>1 DEF CanPush
      <4> QED
        BY <4>1, <4>2 DEF Units, Bit
  <2>2. Load = 2 * QueueLength + 2
    BY <2>1, Lengths DEF Load, Queues
  <2>3. pc["compress"] # "exited"
    BY DEF Workers
  <2>4. Nulls <= 1 /\ Nulls \in Nat
    BY <1>1, <2>3 DEF LoadInv, Nulls, TypeInv, TypeOK, ClientSteps
  <2>5. DestroyEarly \in BOOLEAN /\ MaxInFlight \in Nat
    BY EnvironmentAssumption
  <2>6. CASE DestroyEarly
    BY <1>1, <2>2, <2>4, <2>5, <2>6, Lengths, PendingCount DEF LoadInv, FewInFlight
  <2>7. CASE ~DestroyEarly /\ Nulls = 0
    BY <1>1, <2>2, <2>5, <2>7, Lengths, PendingCount DEF LoadInv, FewInFlight
  <2>8. CASE ~DestroyEarly /\ Nulls # 0
    <3>1. Pending = {}
      BY <1>1, <2>8 DEF LoadInv, Nulls
    <3> QED
      BY <1>1, <2>2, <2>4, <3>1, Lengths, FS_EmptySet DEF LoadInv
  <2> QED
    BY <2>4, <2>5, <2>6, <2>7, <2>8
<1> QED
  BY <1>1, InitLoad, NextLoad, TypingInv, PTL DEF Spec

-----------------------------------------------------------------------------
(* Each work object is in one place. *)

(* The slots still to be read are the places of the line. *)
LEMMA UnreadPlaces ==
  ASSUME TypeInv, NEW q \in Queues, Ring(q)
  PROVE  Unread(q) = {Place(q, k) : k \in 1 .. Size(q)}
<1>1. /\ queue[q].used \in Nat /\ queue[q].head \in 0 .. QueueLength - 1
      /\ slot[q] \in 0 .. QueueLength - 1
  BY QueueType, Lengths, Names DEF TypeInv, TypeOK
<1>2. CASE pc[q] # "fetch"
  <2>1. Size(q) = queue[q].used /\ First(q) = queue[q].head
    BY <1>1, <1>2 DEF Size, First, Bit
  <2>2. Unread(q) = Waiting(queue[q])
    BY <1>2 DEF Unread
  <2>3. ASSUME NEW k \in 0 .. queue[q].used - 1
        PROVE  /\ k + 1 \in 1 .. Size(q)
               /\ (queue[q].head + k) % QueueLength = Place(q, k + 1)
    <3>1. k + 1 \in 1 .. Size(q) /\ (k + 1) - 1 = k
      BY <1>1, <2>1
    <3> QED
      BY <2>1, <3>1 DEF Place
  <2>4. ASSUME NEW k \in 1 .. Size(q)
        PROVE  /\ k - 1 \in 0 .. queue[q].used - 1
               /\ Place(q, k) = (queue[q].head + (k - 1)) % QueueLength
    BY <1>1, <2>1 DEF Place
  <2> QED
    BY <2>2, <2>3, <2>4 DEF Waiting
<1>3. CASE pc[q] = "fetch"
  <2>1. /\ Size(q) = queue[q].used + 1 /\ First(q) = slot[q]
        /\ queue[q].head = NextIndex(slot[q])
    BY <1>1, <1>3 DEF Size, First, Bit, Ring
  <2>2. Unread(q) = Waiting(queue[q]) \cup {slot[q]}
    BY <1>3 DEF Unread
  <2>3. Place(q, 1) = slot[q] /\ 1 \in 1 .. Size(q)
    BY <1>1, <2>1, FirstPlace
  <2>4. ASSUME NEW k \in Nat
        PROVE  (queue[q].head + k) % QueueLength = Place(q, k + 2)
    <3>1. (k + 2) - 1 = k + 1
      OBVIOUS
    <3> QED
      BY <1>1, <2>1, <3>1, ModNext DEF Place
  <2>5. ASSUME NEW k \in 0 .. queue[q].used - 1
        PROVE  /\ k + 2 \in 1 .. Size(q)
               /\ (queue[q].head + k) % QueueLength = Place(q, k + 2)
    BY <1>1, <2>1, <2>4
  <2>6. ASSUME NEW k \in 1 .. Size(q), k # 1
        PROVE  /\ k - 2 \in 0 .. queue[q].used - 1
               /\ Place(q, k) = (queue[q].head + (k - 2)) % QueueLength
    <3>1. k - 2 \in 0 .. queue[q].used - 1 /\ k - 2 \in Nat /\ (k - 2) + 2 = k
      BY <1>1, <2>1, <2>6
    <3> QED
      BY <2>4, <3>1
  <2>7. Unread(q) \subseteq {Place(q, k) : k \in 1 .. Size(q)}
    BY <2>2, <2>3, <2>5 DEF Waiting
  <2>8. ASSUME NEW k \in 1 .. Size(q) PROVE Place(q, k) \in Unread(q)
    BY <2>2, <2>3, <2>6 DEF Waiting
  <2> QED
    BY <2>7, <2>8
<1> QED
  BY <1>2, <1>3

Slots(r) ==
  {p \in Queues \X (0 .. QueueLength - 1) :
     p[2] \in Unread(p[1]) /\ queue[p[1]].slots[p[2]] = r}

(* A request waits in a slot where an entry of a line names it. *)
LEMMA SlotsOf ==
  ASSUME TypeInv, PipeInv, NEW r
  PROVE  \A p : p \in Slots(r) <=>
           \E q \in Queues : \E k \in 1 .. Size(q) : p = <<q, Place(q, k)>> /\ Entry(q, k) = r
<1>1. ASSUME NEW p \in Slots(r)
      PROVE  \E q \in Queues : \E k \in 1 .. Size(q) : p = <<q, Place(q, k)>> /\ Entry(q, k) = r
  <2>1. /\ p[1] \in Queues /\ p = <<p[1], p[2]>> /\ p[2] \in Unread(p[1])
        /\ queue[p[1]].slots[p[2]] = r
    BY DEF Slots
  <2>2. PICK k \in 1 .. Size(p[1]) : p[2] = Place(p[1], k)
    BY <2>1, UnreadPlaces DEF PipeInv
  <2>3. Entry(p[1], k) = r
    BY <2>1, <2>2 DEF Entry
  <2> QED
    BY <2>1, <2>2, <2>3
<1>2. ASSUME NEW q \in Queues, NEW k \in 1 .. Size(q), Entry(q, k) = r
      PROVE  <<q, Place(q, k)>> \in Slots(r)
  <2>1. Place(q, k) \in Unread(q)
    BY UnreadPlaces DEF PipeInv
  <2>2. Place(q, k) \in 0 .. QueueLength - 1
    BY PlaceType, SizeType, Lengths
  <2>3. queue[q].slots[Place(q, k)] = r
    BY <1>2 DEF Entry
  <2> DEFINE s == Place(q, k)
  <2> HIDE DEF s
  <2>4. s \in Unread(q) /\ s \in 0 .. QueueLength - 1 /\ queue[q].slots[s] = r
    BY <2>1, <2>2, <2>3 DEF s
  <2>5. <<q, s>> \in Slots(r)
    BY <2>4 DEF Slots
  <2> QED
    BY <2>5 DEF s
<1> QED
  BY <1>1, <1>2

(* Entries of one line differ. *)
LEMMA EntriesDiffer ==
  ASSUME TypeInv, PipeInv, NEW q \in Queues, NEW j \in 1 .. Size(q), NEW k \in 1 .. Size(q),
         Entry(q, j) = Entry(q, k), Entry(q, j) # NULL
  PROVE  j = k
<1>1. \A a : ~Before(a, a)
  BY BeforeOnce DEF PipeInv
<1>2. Size(q) \in Nat
  BY SizeType, Lengths
<1>3. ~(j < k) /\ ~(k < j)
  BY <1>1 DEF PipeInv, Sorted, LineSorted
<1> QED
  BY <1>2, <1>3

LEMMA CarriersOf ==
  ASSUME NEW r
  PROVE  \A t : t \in Carriers(r) <=> \/ t \in Workers /\ r \in Hand(t)
                                      \/ t = "client" /\ r \in ClientHand
BY DEF Carriers, Hand, ClientHand

LEMMA OneSpot ==
  ASSUME OneProducer, TypeInv, PipeInv, NEW r \in Requests
  PROVE  Cardinality(Carriers(r)) + Cardinality(Slots(r)) = IF r \in Pending THEN 1 ELSE 0
<1>1. \A p : p \in Slots(r) <=>
        \E q \in Queues : \E k \in 1 .. Size(q) : p = <<q, Place(q, k)>> /\ Entry(q, k) = r
  BY SlotsOf
<1>2. r # NULL
  BY ItemFacts
<1>3. \A q : r \in Queued(q) <=> \E k \in 1 .. Size(q) : Entry(q, k) = r
  BY <1>2 DEF Queued
<1>4. \A q : r \in Zone(q) <=> r \in Hand(q) \/ r \in Queued(q)
  BY DEF Zone
<1>5. r \in Pending <=> r \in ClientHand \/ \E q \in Queues : r \in Zone(q)
  BY DEF PipeInv, Whereabouts, Queues
<1>6. Workers = Queues /\ "client" \notin Workers
  BY DEF Workers, Queues
<1>7. \A q, o \in Queues : r \in Zone(q) /\ r \in Zone(o) => q = o
  BY Apart, Roles, <1>6
<1>8. Cardinality({}) = 0
  BY FS_EmptySet
<1>9. \A x : Cardinality({x}) = 1
  BY FS_Singleton
<1>10. CASE r \notin Pending
  <2>1. Carriers(r) = {}
    BY <1>4, <1>5, <1>6, <1>10, CarriersOf
  <2>2. Slots(r) = {}
    BY <1>1, <1>3, <1>4, <1>5, <1>10
  <2> QED
    BY <1>8, <1>10, <2>1, <2>2
<1>11. CASE r \in ClientHand
  <2>1. \A q \in Queues : r \notin Zone(q)
    BY <1>11, Apart
  <2>2. Carriers(r) = {"client"}
    BY <1>4, <1>6, <1>11, <2>1, CarriersOf
  <2>3. Slots(r) = {}
    BY <1>1, <1>3, <1>4, <2>1
  <2>4. Cardinality(Carriers(r)) = 1 /\ Cardinality(Slots(r)) = 0
    BY <1>8, <1>9, <2>2, <2>3
  <2> QED
    BY <1>5, <1>11, <2>4
<1>12. ASSUME NEW q \in Queues, r \in Hand(q)
       PROVE  Cardinality(Carriers(r)) + Cardinality(Slots(r)) = IF r \in Pending THEN 1 ELSE 0
  <2>1. r \notin ClientHand /\ r \notin Queued(q) /\ \A o \in Queues : r \in Zone(o) => o = q
    BY <1>4, <1>7, <1>12, Apart
  <2>2. Carriers(r) = {q}
    BY <1>4, <1>6, <1>12, <2>1, CarriersOf
  <2>3. Slots(r) = {}
    BY <1>1, <1>3, <1>4, <2>1
  <2>4. r \in Pending
    BY <1>4, <1>5, <1>12
  <2>5. Cardinality(Carriers(r)) = 1 /\ Cardinality(Slots(r)) = 0
    BY <1>8, <1>9, <2>2, <2>3
  <2> QED
    BY <2>4, <2>5
<1>13. ASSUME NEW q \in Queues, r \in Queued(q)
       PROVE  Cardinality(Carriers(r)) + Cardinality(Slots(r)) = IF r \in Pending THEN 1 ELSE 0
  <2>1. r \notin ClientHand /\ r \notin Hand(q) /\ \A o \in Queues : r \in Zone(o) => o = q
    BY <1>4, <1>7, <1>13, Apart
  <2>2. Carriers(r) = {}
    BY <1>4, <1>6, <2>1, CarriersOf
  <2>3. PICK k \in 1 .. Size(q) : Entry(q, k) = r
    BY <1>3, <1>13
  <2>4. \A j \in 1 .. Size(q) : Entry(q, j) = r => j = k
    BY <1>2, <2>3, EntriesDiffer
  <2>5. \A o \in Queues : \A j \in 1 .. Size(o) : Entry(o, j) = r => o = q /\ j = k
    BY <1>3, <1>4, <2>1, <2>4
  <2> DEFINE here == <<q, Place(q, k)>>
  <2>6. here \in Slots(r)
    BY <1>1, <2>3
  <2>7. \A p \in Slots(r) : p = here
    BY <1>1, <2>5
  <2> HIDE DEF here
  <2>8. Slots(r) = {here}
    BY <2>6, <2>7
  <2>9. r \in Pending
    BY <1>4, <1>5, <1>13
  <2> QED
    BY <1>8, <1>9, <2>2, <2>8, <2>9
<1> QED
  BY <1>4, <1>5, <1>10, <1>11, <1>12, <1>13

(* fs.c 102, 129, 188, 266, 269-313: a work object that is not complete is in *)
(* the hands of one thread or in one slot of one queue, and one that is       *)
(* complete or abandoned is in none.                                          *)
THEOREM InOnePlace == ASSUME OneProducer PROVE Spec => []OnePlace
<1>1. TypeInv /\ PipeInv => OnePlace
  BY OneSpot DEF OnePlace, Slots
<1> QED
  BY <1>1, Invariants, PTL

-----------------------------------------------------------------------------
(* Work of one kind completes in order. *)

(* A step submits a request, is a call of its owner or a handler, or leaves    *)
(* all work objects alone.                                                    *)
LEMMA StepKinds ==
  ASSUME OneProducer, TypeInv, PipeInv, [Next]_vars
  PROVE  \/ \E r \in Requests : Submit(r) \/ CallerFreeBuffer(r) \/ WorkDestroy(r)
         \/ \E r \in Requests : FileHandler(r) /\ (Finishes("file", r) \/ Carries("file", r))
         \/ \E r \in Requests :
              CompressHandler(r) /\ (Finishes("compress", r) \/ Carries("compress", r))
         \/ UNCHANGED <<work, mem, order>> /\ Onward
<1>1. CASE Client
  <2>1. ClientInCall \/ FsDestroy => UNCHANGED <<work, mem, order>>
    BY DEF ClientInCall, FsDestroy, SubmitWrite, StopCompress, JoinCompress, NullFile, StopFile,
           JoinFile, EndPush
  <2>2. ClientInCall \/ FsDestroy => Onward
    BY ClientStopPipe, SubmitWritePipe, StopWritePipe, JoinsPipe DEF ClientInCall
  <2> QED
    BY <1>1, <2>1, <2>2 DEF Client
<1>2. ASSUME NEW t \in Workers, Worker(t)
      PROVE  \/ \E r \in Requests : FileHandler(r) \/ CompressHandler(r)
             \/ UNCHANGED <<work, mem, order>> /\ Onward
  <2>1. Pop(t) \/ Fetch(t) \/ HandOver(t) \/ HandOverWrite(t) => UNCHANGED <<work, mem, order>>
    BY DEF Pop, Fetch, HandOver, HandOverWrite, EndPush
  <2>2. Pop(t) \/ Fetch(t) \/ HandOver(t) \/ HandOverWrite(t) => Onward
    BY PopPipe, FetchPipe, HandOverPipe, HandOverWritePipe
  <2> QED
    BY <1>2, <2>1, <2>2 DEF Worker
<1>3. CASE UNCHANGED vars
  <2>1. UNCHANGED <<queue, alive, pc, cur, slot, order>> /\ UNCHANGED <<work, mem, order>>
    BY <1>3 DEF vars
  <2>2. WorkKept /\ UnsubmittedKept /\ BlocksKept
    BY <2>1 DEF WorkKept, UnsubmittedKept, BlocksKept
  <2> QED
    BY <2>1, <2>2, DataStepPipe
<1> QED
  BY <1>1, <1>2, <1>3, HandlersEnd DEF Next

(* What the first worker completes is not compressed: it hands that over. *)
LEMMA DoneAtEntry ==
  ASSUME OneProducer, TypeInv, PipeInv, NEW r \in Requests, work'[r].done,
         \/ EntryWorker = "file" /\ FileHandler(r)
         \/ EntryWorker = "compress" /\ CompressHandler(r)
  PROVE  r \notin Compressed
<1>1. CASE FileRead(r)
  <2>1. ~work[r].done
    BY <1>1, Held DEF FileRead, Handles, Workers
  <2>2. work'[r] = ReadWork(r)
    BY <1>1, WorkAfter DEF FileRead
  <2> QED
    BY <2>1, <2>2, WorkType DEF ReadWork, WorkFields
<1>2. CASE EntryWorker = "file" /\ FileWrite(r)
  <2>1. r \in Writes
    BY <1>2, Held DEF FileWrite, Handles, Workers, Requests
  <2>2. Direct
    BY <1>2, Roles
  <2> QED
    BY <2>1, <2>2 DEF Direct
<1>3. ASSUME NEW call, FileReadFails(r, call) \/ FileWriteFails(r, call)
      PROVE  FALSE
  <2>1. ~work[r].done
    BY <1>3, Held DEF FileReadFails, FileWriteFails, Handles, Workers
  <2>2. CASE FileReadFails(r, call)
    <3>1. PICK error \in {0, 1} :
            work' = [work EXCEPT ![r].result = error, ![r].abandoned = TRUE,
                                 ![r].buffer = IF call = "read" THEN "file" ELSE @]
      BY <2>2 DEF FileReadFails
    <3>2. work'[r] = [work[r] EXCEPT !.result = error, !.abandoned = TRUE,
                                     !.buffer = IF call = "read" THEN "file" ELSE @]
      BY <3>1 DEF TypeInv, TypeOK
    <3>3. work'[r].done = work[r].done
      BY <3>2, WorkType DEF WorkFields
    <3> QED
      BY <2>1, <3>3
  <2>3. CASE FileWriteFails(r, call)
    <3>1. work' = [work EXCEPT ![r].result = 1, ![r].abandoned = TRUE]
      BY <2>3 DEF FileWriteFails
    <3>2. work'[r] = [work[r] EXCEPT !.result = 1, !.abandoned = TRUE]
      BY <3>1 DEF TypeInv, TypeOK
    <3>3. work'[r].done = work[r].done
      BY <3>2, WorkType DEF WorkFields
    <3> QED
      BY <2>1, <3>3
  <2> QED
    BY <1>3, <2>2, <2>3
<1>4. CASE EntryWorker = "compress" /\ (FileDecompress(r) \/ FileDecompressFails(r))
  <2>1. r \in Reads
    BY <1>4, Held DEF FileDecompress, FileDecompressFails, Handles, Workers
  <2>2. r \in Writes
    BY <1>4, Roles DEF PackedOnly
  <2> QED
    BY <2>1, <2>2, RequestsAssumption
<1>5. CASE FileCompress(r)
  <2>1. ~work[r].done
    BY <1>5, Held DEF FileCompress, Handles, Workers
  <2>2. work'[r].done = work[r].done
    BY <1>5, WorkType DEF FileCompress, TypeInv, TypeOK, WorkFields
  <2> QED
    BY <2>1, <2>2
<1> QED
  BY <1>1, <1>2, <1>3, <1>4, <1>5 DEF FileHandler, CompressHandler

SameKind(a, b) == a \in Compressed <=> b \in Compressed

\* KindOrder, said of the requests and not of their indices.
KindInv == \A a, b : Before(a, b) /\ b \in Done /\ SameKind(a, b) => a \notin Pending

LEMMA KindOrderIs == ASSUME KindInv PROVE KindOrder
<1> SUFFICES ASSUME NEW j \in 1 .. Len(order), NEW k \in 1 .. Len(order),
                    j < k, order[k] \in Done, SameKind(order[j], order[k])
             PROVE  order[j] \in Done \cup Failed
  BY DEF KindOrder, SameKind
<1>1. Before(order[j], order[k]) /\ order[j] \in Submitted
  BY DEF Before, Submitted
<1> QED
  BY <1>1 DEF KindInv, Pending

(* Whatever a worker has in hand is the oldest work of its kind. *)
LEMMA HandOldest ==
  ASSUME OneProducer, TypeInv, PipeInv, NEW t \in Workers, Holds(t),
         t = EntryWorker => cur[t] \notin Compressed,
         NEW a \in Pending, Before(a, cur[t])
  PROVE  ~SameKind(a, cur[t])
<1>1. cur[t] \in Zone(t) /\ ~Before(cur[t], a)
  BY HeldPending, BeforeOnce DEF PipeInv
<1>2. a \notin ClientHand
  BY <1>1, Roles DEF PipeInv, Sorted
<1>3. a \notin Zone(t)
  <2>1. \A k \in 1 .. Size(t) : Entry(t, k) # NULL => Before(cur[t], Entry(t, k))
    BY Names DEF PipeInv, Sorted, HandFirst
  <2>2. a \notin Queued(t)
    BY <1>1, <2>1 DEF Queued
  <2>3. a # cur[t]
    BY BeforeOnce DEF PipeInv
  <2> QED
    BY <2>2, <2>3 DEF Zone, Hand
<1>4. a \in Zone(EntryWorker) \cup Zone(ExitWorker)
  BY <1>2, Roles, Names DEF PipeInv, Whereabouts, Workers
<1>5. CASE t = EntryWorker
  <2>1. a \in Compressed
    BY <1>3, <1>4, <1>5 DEF PipeInv, Contents
  <2> QED
    BY <1>5, <2>1 DEF SameKind
<1>6. CASE t = ExitWorker
  BY <1>1, <1>3, <1>4, <1>6 DEF PipeInv, Sorted
<1> QED
  BY <1>5, <1>6, Roles

LEMMA FinishKind ==
  ASSUME OneProducer, TypeInv, PipeInv, KindInv, NEW t \in Workers, NEW r \in Requests,
         Finishes(t, r), work'[r].done /\ t = EntryWorker => r \notin Compressed
  PROVE  KindInv'
<1>1. Pending' = Pending \ {r} /\ order' = order
  BY FinishPipe DEF Finishes, HandlerFrame
<1>2. Submitted' = Submitted /\ \A a, b : Before(a, b)' <=> Before(a, b)
  BY <1>1, SubmittedSame, BeforeSame
<1>3. Done' \subseteq Done \cup {r} /\ (r \in Done' => work'[r].done)
  BY <1>2, SubmittedType DEF Finishes, Done
<1>4. ASSUME NEW a \in Pending, Before(a, r), work'[r].done
      PROVE  ~SameKind(a, r)
  <2>1. Holds(t) /\ cur[t] = r
    BY DEF Finishes, Holds
  <2> QED
    BY <1>4, <2>1, HandOldest
<1> QED
  BY <1>1, <1>2, <1>3, <1>4 DEF KindInv, SameKind

LEMMA QuietKind ==
  ASSUME KindInv, order' = order, Done' = Done, Pending' = Pending
  PROVE  KindInv'
BY BeforeSame DEF KindInv, SameKind

LEMMA KeptKind ==
  ASSUME TypeInv, KindInv, order' = order, WorkKept
  PROVE  KindInv'
<1>1. Submitted' = Submitted /\ Submitted \subseteq Requests
  BY SubmittedSame, SubmittedType
<1>2. Done' = Done /\ Failed' = Failed
  BY <1>1 DEF WorkKept, Done, Failed
<1>3. Pending' = Pending
  BY <1>1, <1>2 DEF Pending
<1> QED
  BY <1>2, <1>3, QuietKind

LEMMA NextKind ==
  ASSUME OneProducer, TypeInv, PipeInv, KindInv, [Next]_vars
  PROVE  KindInv'
<1>1. ASSUME NEW r \in Requests, Submit(r) PROVE KindInv'
  <2>1. \A a, b : Before(a, b)' /\ b # r => a # r /\ Before(a, b)
    BY <1>1, SubmitEffect DEF PipeInv
  <2>2. Pending' = Pending \cup {r} /\ Done' = Done /\ r \notin Done
    BY <1>1, SubmitEffect DEF PipeInv, Done
  <2> QED
    BY <2>1, <2>2 DEF KindInv, SameKind
<1>2. ASSUME NEW r \in Requests, CallerFreeBuffer(r) \/ WorkDestroy(r) PROVE KindInv'
  <2>1. order' = order /\ (work' = work \/ work' = [work EXCEPT ![r].dropped = TRUE])
    BY <1>2 DEF CallerFreeBuffer, WorkDestroy
  <2>2. CASE work' = work
    BY <2>1, <2>2, KeptKind DEF WorkKept
  <2>3. CASE work' = [work EXCEPT ![r].dropped = TRUE]
    <3>1. work'[r] = [work[r] EXCEPT !.dropped = TRUE] /\ \A x \in Requests \ {r} : work'[x] = work[x]
      BY <2>3 DEF TypeInv, TypeOK
    <3>2. work'[r].op = work[r].op /\ work'[r].done = work[r].done
          /\ work'[r].abandoned = work[r].abandoned
      BY <3>1, WorkType DEF WorkFields
    <3>3. WorkKept
      BY <3>1, <3>2 DEF WorkKept
    <3> QED
      BY <2>1, <3>3, KeptKind
  <2> QED
    BY <2>1, <2>2, <2>3
<1>3. ASSUME NEW r \in Requests, NEW t \in Workers, Carries(t, r) PROVE KindInv'
  <2>1. WorkKept /\ order' = order
    BY <1>3 DEF Carries, WorkKept, HandlerFrame
  <2> QED
    BY <2>1, KeptKind
<1>4. ASSUME NEW r \in Requests, FileHandler(r), Finishes("file", r) PROVE KindInv'
  <2>1. "file" \in Workers /\ (work'[r].done /\ "file" = EntryWorker => r \notin Compressed)
    BY <1>4, DoneAtEntry DEF Workers
  <2> QED
    BY <1>4, <2>1, FinishKind
<1>5. ASSUME NEW r \in Requests, CompressHandler(r), Finishes("compress", r) PROVE KindInv'
  <2>1. "compress" \in Workers /\ (work'[r].done /\ "compress" = EntryWorker => r \notin Compressed)
    BY <1>5, DoneAtEntry DEF Workers
  <2> QED
    BY <1>5, <2>1, FinishKind
<1>6. ASSUME UNCHANGED <<work, mem, order>> PROVE KindInv'
  BY <1>6, KeptKind DEF WorkKept
<1> QED
  BY <1>1, <1>2, <1>3, <1>4, <1>5, <1>6, StepKinds DEF Workers

(* fs.c 188, 266, 269-313: a worker takes the oldest item, and all that was   *)
(* submitted before and is of the same kind has left its queue and the one    *)
(* before it: work of one kind completes in the order of submission.          *)
THEOREM InKindOrder == ASSUME OneProducer PROVE Spec => []KindOrder
<1>1. Init => KindInv
  BY DEF Init, KindInv, Before
<1>2. KindInv /\ TypeInv /\ PipeInv /\ [Next]_vars => KindInv'
  BY NextKind
<1>3. KindInv => KindOrder
  BY KindOrderIs
<1> QED
  BY <1>1, <1>2, <1>3, Invariants, PTL DEF Spec

-----------------------------------------------------------------------------
(* The blocks of memory. *)

LEMMA FsHeap == ASSUME OneHeap PROVE CallerHeap = "fs" /\ \A r : HeapOf(r) = "fs"
BY DEF OneHeap, HeapOf

(* Only the step on a work object can disturb what is said of it. *)
LEMMA BlockSame ==
  ASSUME NEW r, work'[r] = work[r], mem'[r] = mem[r]
  PROVE  /\ BlockInv(r) => BlockInv(r)'
         /\ Fresh(r) => Fresh(r)'
         /\ Moved(r) => Moved(r)'
BY DEF BlockInv, Fresh, Moved

(* Before it is complete a work object has all its blocks. *)
LEMMA LiveBlocks ==
  ASSUME NEW r \in Requests, BlockInv(r), ~work[r].done
  PROVE  /\ mem[r]["work"] # "freed" /\ ~work[r].dropped
         /\ work[r].buffer # "none" => mem[r][work[r].buffer] = "fs"
BY DEF BlockInv

LEMMA FileReadBlocks ==
  ASSUME OneHeap, TypeInv, NEW r \in Requests, BlockInv(r), Fresh(r),
         ~work[r].done, r \in Reads, FileRead(r)
  PROVE  BlockInv(r)' /\ Moved(r)'
<1>1. /\ work'[r].buffer = "file" /\ work'[r].allocated
      /\ work'[r].done = (r \notin Compressed) /\ ~work'[r].dropped
  <2>1. work'[r] = ReadWork(r)
    BY WorkAfter DEF FileRead
  <2> QED
    BY <2>1, WorkType, LiveBlocks DEF ReadWork, WorkFields
<1>2. mem'[r]["file"] = "fs" /\ \A b \in Blocks \ {"file"} : mem'[r][b] = mem[r][b]
  BY AllocBlocks, MemoryType, BlockNames, FsHeap DEF FileRead
<1>3. work[r].buffer = "none"
  BY DEF Fresh
<1>4. BlockInv(r)'
  BY <1>1, <1>2, <1>3, LiveBlocks, BlockNames DEF BlockInv
<1> QED
  BY <1>1, <1>4 DEF Moved

LEMMA FileReadFailsBlocks ==
  ASSUME OneHeap, TypeInv, NEW r \in Requests, BlockInv(r), Fresh(r),
         ~work[r].done, r \in Reads, NEW call, FileReadFails(r, call)
  PROVE  BlockInv(r)'
<1>1. PICK error \in {0, 1} :
        work' = [work EXCEPT ![r].result = error, ![r].abandoned = TRUE,
                             ![r].buffer = IF call = "read" THEN "file" ELSE @]
  BY DEF FileReadFails
<1>2. work'[r] = [work[r] EXCEPT !.result = error, !.abandoned = TRUE,
                                 !.buffer = IF call = "read" THEN "file" ELSE @]
  BY <1>1 DEF TypeInv, TypeOK
<1>3. /\ work'[r].buffer = IF call = "read" THEN "file" ELSE work[r].buffer
      /\ work'[r].allocated = work[r].allocated
      /\ work'[r].done = work[r].done /\ work'[r].dropped = work[r].dropped
  BY <1>2, WorkType DEF WorkFields
<1>4. CASE call = "read"
  <2>1. mem'[r]["file"] = "fs" /\ \A b \in Blocks \ {"file"} : mem'[r][b] = mem[r][b]
    BY <1>4, AllocBlocks, MemoryType, BlockNames, FsHeap DEF FileReadFails
  <2>2. work[r].buffer = "none"
    BY DEF Fresh
  <2> QED
    BY <1>3, <1>4, <2>1, <2>2, LiveBlocks, BlockNames DEF BlockInv
<1>5. CASE call # "read"
  <2>1. mem' = mem
    BY <1>5 DEF FileReadFails
  <2> QED
    BY <1>3, <1>5, <2>1 DEF BlockInv
<1> QED
  BY <1>4, <1>5

LEMMA FileWriteFailsBlocks ==
  ASSUME TypeInv, NEW r \in Requests, BlockInv(r), NEW call, FileWriteFails(r, call)
  PROVE  BlockInv(r)'
<1>1. work' = [work EXCEPT ![r].result = 1, ![r].abandoned = TRUE] /\ mem' = mem
  BY DEF FileWriteFails
<1>2. work'[r] = [work[r] EXCEPT !.result = 1, !.abandoned = TRUE]
  BY <1>1 DEF TypeInv, TypeOK
<1>3. /\ work'[r].buffer = work[r].buffer /\ work'[r].allocated = work[r].allocated
      /\ work'[r].done = work[r].done /\ work'[r].dropped = work[r].dropped
  BY <1>2, WorkType DEF WorkFields
<1> QED
  BY <1>1, <1>3 DEF BlockInv

LEMMA FileWriteBlocks ==
  ASSUME OneHeap, TypeInv, NEW r \in Requests, BlockInv(r), ~work[r].done, r \in Writes \ Reads,
         r \in Compressed => Moved(r), r \notin Compressed => Fresh(r), FileWrite(r)
  PROVE  BlockInv(r)'
<1>1. /\ work'[r].buffer = work[r].buffer /\ work'[r].done
      /\ work'[r].allocated = (work[r].allocated /\ r \notin Compressed)
      /\ ~work'[r].dropped
  <2>1. work'[r] = WrittenWork(r)
    BY WorkAfter DEF FileWrite
  <2> QED
    BY <2>1, WorkType, LiveBlocks DEF WrittenWork, WorkFields
<1>2. CASE r \in Compressed
  <2>1. work[r].buffer = "packed" /\ mem[r]["packed"] = "fs"
    BY <1>2, LiveBlocks DEF Moved
  <2>2. mem'[r]["packed"] = "freed" /\ \A b \in Blocks \ {"packed"} : mem'[r][b] = mem[r][b]
    <3>1. mem' = FreeIn(mem, r, "packed", "fs")
      BY <1>2, <2>1, FsHeap DEF FileWrite
    <3> QED
      BY <2>1, <3>1, FreeBlocks, MemoryType, BlockNames
  <2> QED
    BY <1>1, <1>2, <2>1, <2>2, LiveBlocks, BlockNames DEF BlockInv
<1>3. CASE r \notin Compressed
  <2>1. mem' = mem
    BY <1>3 DEF FileWrite
  <2>2. work[r].buffer = "user" /\ work[r].allocated
    BY <1>3 DEF Fresh
  <2> QED
    BY <1>1, <1>3, <2>1, <2>2 DEF BlockInv
<1> QED
  BY <1>2, <1>3

LEMMA FileDecompressFailsBlocks ==
  ASSUME OneHeap, TypeInv, NEW r \in Requests, BlockInv(r), Moved(r), ~work[r].done,
         r \in Reads \cap Compressed, FileDecompressFails(r)
  PROVE  BlockInv(r)'
<1>1. PICK error \in {0, 1} : work' = [work EXCEPT ![r].result = error, ![r].done = TRUE]
  BY DEF FileDecompressFails
<1>2. work'[r] = [work[r] EXCEPT !.result = error, !.done = TRUE]
  BY <1>1 DEF TypeInv, TypeOK
<1>3. /\ work'[r].buffer = "file" /\ work'[r].allocated /\ work'[r].done /\ ~work'[r].dropped
  BY <1>2, WorkType, LiveBlocks DEF WorkFields, Moved
<1>4. "decompress" \in Failures
  BY DEF FileDecompressFails
<1>5. mem'[r]["plain"] = "freed" /\ \A b \in Blocks \ {"plain"} : mem'[r][b] = mem[r][b]
  <2> DEFINE m == Alloc(mem, r, "plain", "fs")
  <2>1. m \in Memory /\ m[r]["plain"] = "fs" /\ \A b \in Blocks \ {"plain"} : m[r][b] = mem[r][b]
    BY AllocType, AllocBlocks, MemoryType, BlockNames
  <2>2. mem' = FreeIn(m, r, "plain", "fs")
    BY FsHeap DEF FileDecompressFails
  <2> HIDE DEF m
  <2> QED
    BY <2>1, <2>2, FreeBlocks, BlockNames
<1>6. mem[r]["file"] = "fs"
  BY LiveBlocks DEF Moved
<1> QED
  BY <1>3, <1>4, <1>5, <1>6, LiveBlocks, BlockNames DEF BlockInv, Moved

LEMMA FileDecompressBlocks ==
  ASSUME OneHeap, TypeInv, NEW r \in Requests, BlockInv(r), Moved(r), ~work[r].done,
         r \in Reads \cap Compressed, FileDecompress(r)
  PROVE  BlockInv(r)'
<1>1. /\ work'[r].buffer = "plain" /\ work'[r].allocated /\ work'[r].done /\ ~work'[r].dropped
  <2>1. work'[r] = DecompressedWork(r)
    BY WorkAfter DEF FileDecompress
  <2> QED
    BY <2>1, WorkType, LiveBlocks DEF DecompressedWork, WorkFields, Moved
<1>2. work[r].buffer = "file" /\ mem[r]["file"] = "fs"
  BY LiveBlocks DEF Moved
<1>3. /\ mem'[r]["plain"] = "fs" /\ mem'[r]["file"] = "freed"
      /\ \A b \in Blocks \ {"plain", "file"} : mem'[r][b] = mem[r][b]
  <2> DEFINE m == Alloc(mem, r, "plain", "fs")
  <2>1. m \in Memory /\ m[r]["plain"] = "fs" /\ \A b \in Blocks \ {"plain"} : m[r][b] = mem[r][b]
    BY AllocType, AllocBlocks, MemoryType, BlockNames
  <2>2. mem' = FreeIn(m, r, "file", "fs")
    BY <1>2, FsHeap DEF FileDecompress
  <2> HIDE DEF m
  <2>3. m[r]["file"] = "fs"
    BY <1>2, <2>1, BlockNames
  <2>4. mem'[r]["file"] = "freed" /\ \A b \in Blocks \ {"file"} : mem'[r][b] = m[r][b]
    BY <2>1, <2>2, <2>3, FreeBlocks, BlockNames
  <2> QED
    BY <2>1, <2>4, BlockNames
<1> QED
  BY <1>1, <1>2, <1>3, LiveBlocks, BlockNames DEF BlockInv

LEMMA FileCompressBlocks ==
  ASSUME OneHeap, TypeInv, NEW r \in Requests, BlockInv(r), Fresh(r), ~work[r].done,
         r \in Writes \ Reads, FileCompress(r)
  PROVE  BlockInv(r)' /\ Moved(r)'
<1>1. work' = [work EXCEPT ![r].buffer = "packed", ![r].op = "WRITE"]
  BY DEF FileCompress
<1>2. work'[r] = [work[r] EXCEPT !.buffer = "packed", !.op = "WRITE"]
  BY <1>1 DEF TypeInv, TypeOK
<1>3. /\ work'[r].buffer = "packed" /\ work'[r].allocated /\ ~work'[r].done /\ ~work'[r].dropped
  BY <1>2, WorkType, LiveBlocks DEF WorkFields, Fresh
<1>4. mem'[r]["packed"] = "fs" /\ \A b \in Blocks \ {"packed"} : mem'[r][b] = mem[r][b]
  BY AllocBlocks, MemoryType, BlockNames, FsHeap DEF FileCompress
<1>5. work[r].buffer = "user"
  BY DEF Fresh
<1>6. BlockInv(r)'
  BY <1>3, <1>4, <1>5, LiveBlocks, BlockNames DEF BlockInv
<1> QED
  BY <1>3, <1>6 DEF Moved

(* A new work object is as its first handler expects it. *)
LEMMA SubmitBlocks ==
  ASSUME OneHeap, TypeInv, PipeInv, NEW r \in Requests, Submit(r)
  PROVE  BlockInv(r)' /\ Fresh(r)'
<1>1. \A b \in Blocks : mem[r][b] = "none"
  <2>1. r \notin Submitted
    BY SubmitEffect DEF PipeInv
  <2> QED
    BY <2>1 DEF PipeInv, History
<1>2. work'[r] = NewWork(r)
  BY SubmitEffect DEF PipeInv
<1>3. CASE r \in Reads
  <2>1. ~(r \in Writes)
    BY <1>3, RequestsAssumption
  <2>2. mem'[r]["work"] = "fs" /\ \A b \in Blocks \ {"work"} : mem'[r][b] = "none"
    BY <1>1, <2>1, AllocBlocks, MemoryType, BlockNames DEF Submit
  <2>3. /\ work'[r].buffer = "none" /\ work'[r].allocated = FALSE /\ ~work'[r].done
        /\ ~work'[r].dropped
    BY <1>2, <1>3 DEF NewWork, NoWork
  <2>4. Fresh(r)'
    BY <1>3, <2>1, <2>3 DEF Fresh
  <2>5. BlockInv(r)'
    BY <2>2, <2>3, BlockNames DEF BlockInv
  <2> QED
    BY <2>4, <2>5
<1>4. CASE r \notin Reads
  <2> DEFINE m == Alloc(mem, r, "work", "fs")
  <2>1. r \in Writes
    BY <1>4 DEF Requests
  <2>2. m \in Memory /\ m[r]["work"] = "fs" /\ \A b \in Blocks \ {"work"} : m[r][b] = "none"
    <3>1. m \in Memory
      BY AllocType, MemoryType, BlockNames
    <3>2. m[r]["work"] = "fs" /\ \A b \in Blocks \ {"work"} : m[r][b] = mem[r][b]
      BY AllocBlocks, MemoryType, BlockNames
    <3> HIDE DEF m
    <3> QED
      BY <1>1, <3>1, <3>2
  <2>3. mem' = Alloc(m, r, "user", "fs")
    <3>1. mem' = Alloc(m, r, "user", CallerHeap)
      BY <2>1 DEF Submit
    <3>2. CallerHeap = "fs"
      BY DEF OneHeap
    <3> HIDE DEF m
    <3> QED
      BY <3>1, <3>2
  <2> HIDE DEF m
  <2>4. /\ mem'[r]["user"] = "fs" /\ mem'[r]["work"] = "fs"
        /\ \A b \in Blocks \ {"work", "user"} : mem'[r][b] = "none"
    BY <2>2, <2>3, AllocBlocks, BlockNames
  <2>5. /\ work'[r].buffer = "user" /\ work'[r].allocated = TRUE /\ ~work'[r].done
        /\ ~work'[r].dropped
    BY <1>2, <1>4 DEF NewWork, NoWork
  <2> QED
    BY <1>4, <2>1, <2>4, <2>5, BlockNames DEF BlockInv, Fresh
<1> QED
  BY <1>3, <1>4

LEMMA CallerFreeBlocks ==
  ASSUME OneHeap, TypeInv, NEW r \in Requests, BlockInv(r), CallerFreeBuffer(r)
  PROVE  BlockInv(r)'
<1> DEFINE b == work[r].buffer
<1>1. /\ r \in Reads /\ work[r].done /\ mem[r]["work"] = "fs" /\ ~work[r].dropped
      /\ work' = [work EXCEPT ![r].dropped = TRUE] /\ mem' = FreeIn(mem, r, b, "fs")
      /\ CallerFrees # "never"
  BY FsHeap DEF CallerFreeBuffer, Signaled, Done
<1>2. work[r].allocated /\ b # "none" /\ b # "work" /\ mem[r][b] = "fs"
  BY <1>1 DEF BlockInv
<1>3. b \in Blocks
  BY <1>2, WorkType
<1>4. work'[r] = [work[r] EXCEPT !.dropped = TRUE]
  BY <1>1 DEF TypeInv, TypeOK
<1>5. /\ work'[r].buffer = work[r].buffer /\ work'[r].allocated /\ work'[r].done
      /\ work'[r].dropped
  BY <1>1, <1>2, <1>4, WorkType DEF WorkFields
<1> HIDE DEF b
<1>6. mem'[r][b] = "freed" /\ \A c \in Blocks \ {b} : mem'[r][c] = mem[r][c]
  BY <1>1, <1>2, <1>3, FreeBlocks, MemoryType
<1> QED
  BY <1>1, <1>2, <1>3, <1>5, <1>6, BlockNames DEF BlockInv, b

(* fsWorkDestroy frees the last buffer with the work object. *)
LEMMA WorkDestroyBlocks ==
  ASSUME OneHeap, TypeInv, NEW r \in Requests, BlockInv(r), WorkDestroy(r)
  PROVE  BlockInv(r)'
<1> DEFINE b == work[r].buffer
           m == IF work[r].allocated THEN FreeIn(mem, r, b, "fs") ELSE mem
<1>1. /\ work[r].done /\ mem[r]["work"] = "fs" /\ work' = work
      /\ mem' = FreeIn(m, r, "work", "fs")
      /\ ~work[r].dropped
  BY FsHeap, EnvironmentAssumption DEF WorkDestroy, Signaled, Done, OneHeap, BlockInv
<1>2. b # "none" /\ b # "work" /\ b \in Blocks
  BY <1>1, WorkType DEF BlockInv
<1>3. m \in Memory /\ m[r][b] = "freed" /\ \A c \in Blocks \ {b} : m[r][c] = mem[r][c]
  <2>1. CASE work[r].allocated
    <3>1. mem[r][b] = "fs"
      BY <1>1, <1>2, <2>1 DEF BlockInv
    <3> HIDE DEF b
    <3>2. FreeIn(mem, r, b, "fs") \in Memory
      BY <1>2, FreeInType, MemoryType
    <3> QED
      BY <1>2, <2>1, <3>1, <3>2, FreeBlocks, MemoryType
  <2>2. CASE ~work[r].allocated
    BY <1>1, <1>2, <2>2, MemoryType DEF BlockInv
  <2> QED
    BY <2>1, <2>2
<1> HIDE DEF b, m
<1>4. /\ mem'[r]["work"] = "freed" /\ mem'[r][b] = "freed"
      /\ \A c \in Blocks \ {b, "work"} : mem'[r][c] = mem[r][c]
  <2>1. m[r]["work"] = "fs"
    BY <1>1, <1>2, <1>3, BlockNames
  <2>2. mem'[r]["work"] = "freed" /\ \A c \in Blocks \ {"work"} : mem'[r][c] = m[r][c]
    BY <1>1, <1>3, <2>1, FreeBlocks, BlockNames
  <2> QED
    BY <1>2, <1>3, <2>2
<1> QED
  BY <1>1, <1>2, <1>4, BlockNames DEF BlockInv, b

(* A worker in its handler holds what that handler expects. *)
LEMMA Expected ==
  ASSUME OneProducer, TypeInv, PipeInv, MemInv, NEW t \in Workers, NEW r \in Requests,
         pc[t] = "run", cur[t] = r
  PROVE  /\ t = EntryWorker => Fresh(r)
         /\ t = ExitWorker => Moved(r)
         /\ t = EntryWorker \/ t = ExitWorker
<1>1. r \in Hand(t) /\ r \in Zone(t)
  BY DEF Hand, Holds, Zone
<1>2. t = EntryWorker => r \in Untouched
  BY <1>1 DEF Untouched
<1>3. t = ExitWorker => r \in Handed
  BY <1>1 DEF Handed
<1> QED
  BY <1>2, <1>3, Roles DEF MemInv

LEMMA FileHandlerBlocks ==
  ASSUME OneProducer, OneHeap, TypeInv, PipeInv, MemInv, NEW r \in Requests, FileHandler(r)
  PROVE  BlockInv(r)' /\ (Carries("file", r) => Moved(r)')
<1>1. pc["file"] = "run" /\ cur["file"] = r /\ "file" \in Workers /\ BlockInv(r)
  BY DEF FileHandler, FileRead, FileWrite, FileReadFails, FileWriteFails, Handles, Workers, MemInv
<1>2. /\ ~work[r].done /\ work[r].op = IF r \in Reads THEN "READ" ELSE "WRITE"
      /\ "file" = ExitWorker => r \in Compressed
  BY <1>1, Held
<1>3. "file" = EntryWorker => Direct
  BY Roles
<1>4. ASSUME r \in Reads PROVE Fresh(r)
  <2>1. ExitWorker # "file"
    <3> SUFFICES ASSUME ExitWorker = "file" PROVE FALSE
      OBVIOUS
    <3>1. PackedOnly
      BY Roles DEF Workers
    <3> QED
      BY <1>4, <3>1, RequestsAssumption DEF PackedOnly
  <2> QED
    BY <1>1, <2>1, Expected
<1>5. ASSUME r \notin Reads
      PROVE  /\ r \in Writes \ Reads
             /\ r \in Compressed => Moved(r)
             /\ r \notin Compressed => Fresh(r)
  <2>1. r \in Writes
    BY <1>5 DEF Requests
  <2>2. "file" = EntryWorker => r \notin Compressed
    BY <1>3, <2>1 DEF Direct
  <2> QED
    BY <1>1, <1>2, <1>5, <2>1, <2>2, Expected
<1>6. CASE FileRead(r)
  <2>1. r \in Reads
    BY <1>2, <1>6 DEF FileRead, Handles
  <2> QED
    BY <1>1, <1>2, <1>4, <1>6, <2>1, FileReadBlocks
<1>7. CASE FileWrite(r)
  <2>1. r \notin Reads
    BY <1>2, <1>7 DEF FileWrite, Handles
  <2>2. ~Carries("file", r)
    BY <1>1, <1>7, NotCarried DEF FileWrite
  <2> QED
    BY <1>1, <1>2, <1>5, <1>7, <2>1, <2>2, FileWriteBlocks
<1>8. ASSUME NEW call, FileReadFails(r, call)
      PROVE  BlockInv(r)' /\ ~Carries("file", r)
  <2>1. r \in Reads
    BY <1>2, <1>8 DEF FileReadFails, Handles
  <2>2. ~Carries("file", r)
    BY <1>1, <1>8, NotCarried DEF FileReadFails, AfterFailure
  <2> QED
    BY <1>1, <1>2, <1>4, <1>8, <2>1, <2>2, FileReadFailsBlocks
<1>9. ASSUME NEW call, FileWriteFails(r, call)
      PROVE  BlockInv(r)' /\ ~Carries("file", r)
  <2>1. ~Carries("file", r)
    BY <1>1, <1>9, NotCarried DEF FileWriteFails, AfterFailure
  <2> QED
    BY <1>1, <1>9, <2>1, FileWriteFailsBlocks
<1> QED
  BY <1>6, <1>7, <1>8, <1>9 DEF FileHandler

LEMMA CompressHandlerBlocks ==
  ASSUME OneProducer, OneHeap, TypeInv, PipeInv, MemInv, NEW r \in Requests, CompressHandler(r)
  PROVE  BlockInv(r)' /\ (Carries("compress", r) => Moved(r)')
<1>1. pc["compress"] = "run" /\ cur["compress"] = r /\ "compress" \in Workers /\ BlockInv(r)
  BY DEF CompressHandler, FileDecompress, FileDecompressFails, FileCompress, Handles, Workers,
         MemInv
<1>2. /\ ~work[r].done /\ work[r].op = IF r \in Reads THEN "READ" ELSE "WRITE"
      /\ "compress" = ExitWorker => r \in Compressed
  BY <1>1, Held
<1>3. ASSUME r \in Reads PROVE Moved(r) /\ r \in Reads \cap Compressed
  <2>1. EntryWorker # "compress"
    <3> SUFFICES ASSUME EntryWorker = "compress" PROVE FALSE
      OBVIOUS
    <3>1. PackedOnly
      BY Roles
    <3> QED
      BY <1>3, <3>1, RequestsAssumption DEF PackedOnly
  <2> QED
    BY <1>1, <1>2, <1>3, <2>1, Expected
<1>4. CASE FileDecompress(r)
  <2>1. r \in Reads
    BY <1>2, <1>4 DEF FileDecompress, Handles
  <2>2. ~Carries("compress", r)
    BY <1>1, <1>4, NotCarried DEF FileDecompress
  <2> QED
    BY <1>1, <1>2, <1>3, <1>4, <2>1, <2>2, FileDecompressBlocks
<1>5. CASE FileDecompressFails(r)
  <2>1. r \in Reads
    BY <1>2, <1>5 DEF FileDecompressFails, Handles
  <2>2. ~Carries("compress", r)
    BY <1>1, <1>5, NotCarried DEF FileDecompressFails
  <2> QED
    BY <1>1, <1>2, <1>3, <1>5, <2>1, <2>2, FileDecompressFailsBlocks
<1>6. CASE FileCompress(r)
  <2>1. r \in Writes \ Reads
    BY <1>2, <1>6 DEF FileCompress, Handles, Requests
  <2>2. Carries("compress", r)
    BY <1>6, FileCompressEnds
  <2>3. Fresh(r)
    BY <1>1, <2>2, Expected DEF Carries
  <2> QED
    BY <1>1, <1>2, <1>6, <2>1, <2>3, FileCompressBlocks
<1> QED
  BY <1>4, <1>5, <1>6 DEF CompressHandler

(* It is enough to look at the work object of the step. *)
LEMMA OneBlockStep ==
  ASSUME MemInv, NEW r \in Requests, BlockInv(r)',
         \A x \in Requests \ {r} : work'[x] = work[x] /\ mem'[x] = mem[x],
         \A x \in Untouched' : x \in Requests /\ (IF x = r THEN Fresh(r)' ELSE x \in Untouched),
         \A x \in Handed' : x \in Requests /\ (IF x = r THEN Moved(r)' ELSE x \in Handed)
  PROVE  MemInv'
<1>1. \A x \in Requests : BlockInv(x)'
  BY BlockSame DEF MemInv
<1>2. \A x \in Untouched' : Fresh(x)'
  BY BlockSame DEF MemInv
<1>3. \A x \in Handed' : Moved(x)'
  BY BlockSame DEF MemInv
<1> QED
  BY <1>1, <1>2, <1>3 DEF MemInv

LEMMA InPending ==
  ASSUME OneProducer, TypeInv, PipeInv
  PROVE  Untouched \cup Handed \subseteq Pending
<1>1. EntryWorker \in Queues /\ ExitWorker \in Queues
  BY Roles, Names
<1> QED
  BY <1>1 DEF PipeInv, Whereabouts, Untouched, Handed, Zone, Queues

LEMMA InPendingNext ==
  ASSUME OneProducer, PipeInv'
  PROVE  Untouched' \cup Handed' \subseteq Pending' /\ Untouched' \cup Handed' \subseteq Requests
<1>1. EntryWorker \in Queues /\ ExitWorker \in Queues
  BY Roles, Names
<1>2. Untouched' \cup Handed' \subseteq Pending'
  BY <1>1 DEF PipeInv, Whereabouts, Untouched, Handed, Zone, Queues
<1>3. Untouched' \cup Handed' \subseteq Requests
  BY <1>1 DEF PipeInv, Contents, Untouched, Handed, Zone, Queues
<1> QED
  BY <1>2, <1>3

LEMMA NextMem ==
  ASSUME OneProducer, OneHeap, TypeInv, PipeInv, MemInv, [Next]_vars
  PROVE  MemInv'
<1>1. PipeInv' /\ Untouched' \cup Handed' \subseteq Pending'
      /\ Untouched' \cup Handed' \subseteq Requests
  BY NextPipe, InPendingNext
<1>2. Untouched \cup Handed \subseteq Pending
  BY InPending
<1>3. ASSUME NEW r \in Requests, Submit(r) PROVE MemInv'
  <2>1. /\ \A x \in Requests \ {r} : work'[x] = work[x] /\ mem'[x] = mem[x]
        /\ r \notin Pending
    BY <1>3, SubmitEffect DEF PipeInv, Pending
  <2>2. Untouched' \subseteq Untouched \cup {r} /\ Handed' \subseteq Handed
    BY <1>3, SubmitPipe
  <2>3. BlockInv(r)' /\ Fresh(r)'
    BY <1>3, SubmitBlocks
  <2> QED
    BY <1>1, <1>2, <2>1, <2>2, <2>3, OneBlockStep
<1>4. ASSUME NEW r \in Requests, CallerFreeBuffer(r) \/ WorkDestroy(r) PROVE MemInv'
  <2>1. r \notin Pending /\ Onward
    BY <1>4, CallerPipe DEF CallerFreeBuffer, WorkDestroy, Signaled, Pending
  <2>2. \A x \in Requests \ {r} : work'[x] = work[x] /\ mem'[x] = mem[x]
    BY <1>4, CallerOthers
  <2>3. BlockInv(r)'
    BY <1>4, CallerFreeBlocks, WorkDestroyBlocks DEF MemInv
  <2> QED
    BY <1>1, <1>2, <2>1, <2>2, <2>3, OneBlockStep DEF Onward
<1>5. ASSUME NEW t \in Workers, NEW r \in Requests, BlockInv(r)', Carries(t, r) => Moved(r)',
             Finishes(t, r) \/ Carries(t, r)
      PROVE  MemInv'
  <2>1. \A x \in Requests \ {r} : work'[x] = work[x] /\ mem'[x] = mem[x]
    BY <1>5 DEF Finishes, Carries
  <2>2. CASE Finishes(t, r)
    <3>1. r \notin Pending' /\ Onward
      BY <2>2, EndsPipe
    <3> QED
      BY <1>1, <1>5, <2>1, <3>1, OneBlockStep DEF Onward
  <2>3. CASE Carries(t, r)
    <3>1. Untouched' \subseteq Untouched \ {r} /\ Handed' \subseteq Handed \cup {r}
      BY <2>3, EndsPipe
    <3> QED
      BY <1>1, <1>5, <2>1, <2>3, <3>1, OneBlockStep
  <2> QED
    BY <1>5, <2>2, <2>3
<1>6. ASSUME NEW r \in Requests, FileHandler(r), Finishes("file", r) \/ Carries("file", r)
      PROVE  MemInv'
  BY <1>5, <1>6, FileHandlerBlocks DEF Workers
<1>7. ASSUME NEW r \in Requests, CompressHandler(r),
             Finishes("compress", r) \/ Carries("compress", r)
      PROVE  MemInv'
  BY <1>5, <1>7, CompressHandlerBlocks DEF Workers
<1>8. ASSUME UNCHANGED <<work, mem, order>>, Onward PROVE MemInv'
  BY <1>8, BlockSame DEF MemInv, Onward
<1> QED
  BY <1>3, <1>4, <1>6, <1>7, <1>8, StepKinds

LEMMA InitMem == ASSUME OneProducer, Init PROVE MemInv
<1>1. Untouched \cup Handed \subseteq Pending
  BY InitType, InitPipe, InPending
<1>2. Pending = {}
  BY DEF Init, Pending, Submitted
<1>3. \A r \in Requests : work[r] = NoWork /\ \A b \in Blocks : mem[r][b] = "none"
  BY DEF Init
<1>4. \A r \in Requests : BlockInv(r)
  BY <1>3, BlockNames DEF BlockInv, NoWork
<1> QED
  BY <1>1, <1>2, <1>4 DEF MemInv

LEMMA Memories ==
  ASSUME OneProducer, OneHeap PROVE Spec => [](TypeInv /\ PipeInv /\ MemInv)
<1>1. Init => MemInv
  BY InitMem
<1>2. MemInv /\ TypeInv /\ PipeInv /\ [Next]_vars => MemInv'
  BY NextMem
<1> QED
  BY <1>1, <1>2, Invariants, PTL DEF Spec

(* fs.c 137-147, 221-222, 240, 247: no block is freed twice or into a heap it *)
(* is not from, whatever calls fail.                                          *)
THEOREM FreedOnce == ASSUME OneProducer, OneHeap PROVE Spec => []NoBadFree
<1>1. MemInv => NoBadFree
  BY DEF MemInv, BlockInv, NoBadFree
<1> QED
  BY <1>1, Memories, PTL

(* fs.c 137-147: with the work object go all the buffers of the workers.      *)
THEOREM NothingLeaks == ASSUME OneProducer, OneHeap PROVE Spec => []NoLeak
<1>1. MemInv => NoLeak
  BY DEF MemInv, BlockInv, NoLeak
<1> QED
  BY <1>1, Memories, PTL

(* fs.c 149-193, 229-254: a read that completed and is not destroyed has its  *)
(* buffer, with the bytes of the file in it, when lz4 does not fail and the   *)
(* caller leaves the buffer to fsWorkDestroy.                                 *)
THEOREM Delivered ==
  ASSUME OneProducer, CallerHeap = "fs", CallerFrees = "never", "decompress" \notin Failures
  PROVE  Spec => []ReadDelivers
<1>1. OneHeap
  BY DEF OneHeap
<1>2. ASSUME TypeInv, MemInv PROVE ReadDelivers
  <2> SUFFICES ASSUME NEW r \in Reads \cap Done, mem[r]["work"] = "fs"
               PROVE  /\ work[r].buffer = IF r \in Compressed THEN "plain" ELSE "file"
                      /\ mem[r][work[r].buffer] = CallerHeap
    BY DEF ReadDelivers
  <2>1. r \in Requests /\ work[r].done /\ BlockInv(r)
    BY <1>2 DEF Requests, Done, MemInv
  <2>2. work[r].allocated
        /\ work[r].buffer = IF r \in Compressed THEN "plain" ELSE "file"
    BY <2>1 DEF BlockInv
  <2>3. ~work[r].dropped
    BY <2>1 DEF BlockInv
  <2>4. work[r].buffer # "none"
    BY <2>2
  <2> QED
    BY <2>1, <2>2, <2>3, <2>4 DEF BlockInv
<1> QED
  BY <1>1, <1>2, Memories, PTL

-----------------------------------------------------------------------------
(* The promise of fs.h. *)

\* No work object takes itself for its buffer.
OwnBlocks == \A r \in Requests : work[r].buffer # "work"

LEMMA FreeKeepsWork ==
  ASSUME NEW m \in Memory, NEW r \in Requests, NEW block, block # "work", NEW heap
  PROVE  FreeIn(m, r, block, heap)[r]["work"] = m[r]["work"]
BY BlockNames DEF Memory, FreeIn

LEMMA AllocKeepsWork ==
  ASSUME NEW m \in Memory, NEW r \in Requests, NEW block \in Blocks, block # "work", NEW heap
  PROVE  Alloc(m, r, block, heap)[r]["work"] = m[r]["work"]
BY BlockNames DEF Memory, Alloc

(* No handler frees the work object, and every one leaves it with a buffer   *)
(* that is another block.                                                    *)
LEMMA FileHandlerKeeps ==
  ASSUME TypeInv, OwnBlocks, NEW r \in Requests, FileHandler(r)
  PROVE  mem'[r]["work"] = mem[r]["work"] /\ work'[r].buffer # "work"
<1>1. work[r].buffer # "work" /\ mem \in Memory
  BY MemoryType DEF OwnBlocks
<1>2. CASE FileRead(r)
  <2>1. work'[r] = ReadWork(r)
    BY <1>2 DEF FileRead, TypeInv, TypeOK
  <2>2. work'[r].buffer = "file"
    BY <2>1, WorkType DEF ReadWork, WorkFields
  <2>3. mem'[r]["work"] = mem[r]["work"]
    BY <1>1, <1>2, AllocKeepsWork, BlockNames DEF FileRead
  <2> QED
    BY <2>2, <2>3
<1>3. CASE FileWrite(r)
  <2>1. work'[r] = WrittenWork(r)
    BY <1>3 DEF FileWrite, TypeInv, TypeOK
  <2>2. work'[r].buffer = work[r].buffer
    BY <2>1, WorkType DEF WrittenWork, WorkFields
  <2>3. mem'[r]["work"] = mem[r]["work"]
    BY <1>1, <1>3, FreeKeepsWork DEF FileWrite
  <2> QED
    BY <1>1, <2>2, <2>3
<1>4. CASE \E call \in Failures : FileReadFails(r, call)
  <2> PICK call \in Failures : FileReadFails(r, call)
    BY <1>4
  <2>1. PICK error \in {0, 1} :
          work' = [work EXCEPT ![r].result = error, ![r].abandoned = TRUE,
                               ![r].buffer = IF call = "read" THEN "file" ELSE @]
    BY DEF FileReadFails
  <2>2. work'[r] = [work[r] EXCEPT !.result = error, !.abandoned = TRUE,
                                   !.buffer = IF call = "read" THEN "file" ELSE @]
    BY <2>1 DEF TypeInv, TypeOK
  <2>3. work'[r].buffer = IF call = "read" THEN "file" ELSE work[r].buffer
    BY <2>2, WorkType DEF WorkFields
  <2>4. mem'[r]["work"] = mem[r]["work"]
    BY <1>1, AllocKeepsWork, BlockNames DEF FileReadFails
  <2> QED
    BY <1>1, <2>3, <2>4
<1>5. CASE \E call \in Failures : FileWriteFails(r, call)
  <2>1. mem' = mem /\ work' = [work EXCEPT ![r].result = 1, ![r].abandoned = TRUE]
    BY <1>5 DEF FileWriteFails
  <2>2. work'[r] = [work[r] EXCEPT !.result = 1, !.abandoned = TRUE]
    BY <2>1 DEF TypeInv, TypeOK
  <2>3. work'[r].buffer = work[r].buffer
    BY <2>2, WorkType DEF WorkFields
  <2> QED
    BY <1>1, <2>1, <2>3
<1> QED
  BY <1>2, <1>3, <1>4, <1>5 DEF FileHandler

LEMMA CompressHandlerKeeps ==
  ASSUME TypeInv, OwnBlocks, NEW r \in Requests, CompressHandler(r)
  PROVE  mem'[r]["work"] = mem[r]["work"] /\ work'[r].buffer # "work"
<1>1. work[r].buffer # "work" /\ mem \in Memory
  BY MemoryType DEF OwnBlocks
<1> DEFINE m == Alloc(mem, r, "plain", HeapOf(r))
<1>2. m \in Memory /\ m[r]["work"] = mem[r]["work"]
  BY <1>1, AllocType, AllocKeepsWork, HeapType, BlockNames
<1> HIDE DEF m
<1>3. CASE FileDecompress(r)
  <2>1. work'[r] = DecompressedWork(r) /\ mem' = FreeIn(m, r, work[r].buffer, HeapOf(r))
    BY <1>3 DEF FileDecompress, TypeInv, TypeOK, m
  <2>2. work'[r].buffer = "plain"
    BY <2>1, WorkType DEF DecompressedWork, WorkFields
  <2> QED
    BY <1>1, <1>2, <2>1, <2>2, FreeKeepsWork
<1>4. CASE FileDecompressFails(r)
  <2>1. PICK error \in {0, 1} : work' = [work EXCEPT ![r].result = error, ![r].done = TRUE]
    BY <1>4 DEF FileDecompressFails
  <2>2. work'[r] = [work[r] EXCEPT !.result = error, !.done = TRUE]
    BY <2>1 DEF TypeInv, TypeOK
  <2>3. work'[r].buffer = work[r].buffer
    BY <2>2, WorkType DEF WorkFields
  <2>4. mem' = FreeIn(m, r, "plain", HeapOf(r))
    BY <1>4 DEF FileDecompressFails, m
  <2> QED
    BY <1>1, <1>2, <2>3, <2>4, FreeKeepsWork
<1>5. CASE FileCompress(r)
  <2>1. work' = [work EXCEPT ![r].buffer = "packed", ![r].op = "WRITE"]
    BY <1>5 DEF FileCompress
  <2>2. work'[r] = [work[r] EXCEPT !.buffer = "packed", !.op = "WRITE"]
    BY <2>1 DEF TypeInv, TypeOK
  <2>3. work'[r].buffer = "packed"
    BY <2>2, WorkType DEF WorkFields
  <2>4. mem'[r]["work"] = mem[r]["work"]
    BY <1>1, <1>5, AllocKeepsWork, BlockNames DEF FileCompress
  <2> QED
    BY <2>3, <2>4
<1> QED
  BY <1>3, <1>4, <1>5 DEF CompressHandler

(* A free of the buffer leaves the work object, which only the worker writes. *)
LEMMA CallerFreeKeeps ==
  ASSUME TypeInv, OwnBlocks, NEW r \in Requests, CallerFreeBuffer(r)
  PROVE  /\ mem'[r]["work"] = mem[r]["work"]
         /\ work'[r].buffer = work[r].buffer /\ work'[r].done = work[r].done
         /\ work'[r].result = work[r].result
<1>1. work[r].buffer # "work" /\ mem \in Memory
  BY MemoryType DEF OwnBlocks
<1>2. mem'[r]["work"] = mem[r]["work"]
  BY <1>1, FreeKeepsWork DEF CallerFreeBuffer
<1>3. work' = [work EXCEPT ![r].dropped = TRUE]
  BY DEF CallerFreeBuffer
<1>4. work'[r] = [work[r] EXCEPT !.dropped = TRUE]
  BY <1>3 DEF TypeInv, TypeOK
<1>5. /\ work'[r].buffer = work[r].buffer /\ work'[r].done = work[r].done
      /\ work'[r].result = work[r].result
  BY <1>4, WorkType DEF WorkFields
<1> QED
  BY <1>2, <1>5

(* fsWorkDestroy frees the work object. *)
LEMMA WorkDestroyFrees ==
  ASSUME TypeInv, NEW r \in Requests, WorkDestroy(r)
  PROVE  mem'[r]["work"] # "fs" /\ work' = work
<1> DEFINE m == IF work[r].allocated THEN FreeIn(mem, r, work[r].buffer, HeapOf(r)) ELSE mem
<1>1. m \in Memory
  BY MemoryType, FreeInType, WorkType
<1>2. mem' = FreeIn(m, r, "work", HeapOf(r)) /\ work' = work
  BY DEF WorkDestroy
<1> HIDE DEF m
<1>3. mem'[r]["work"] \in {"freed", "corrupt"}
  BY <1>1, <1>2, FreeBlocks, BlockNames
<1> QED
  BY <1>2, <1>3

LEMMA NextOwnBlocks ==
  ASSUME OneProducer, TypeInv, PipeInv, OwnBlocks, [Next]_vars
  PROVE  OwnBlocks'
<1>1. ASSUME NEW r \in Requests, work'[r].buffer # "work",
             \A x \in Requests \ {r} : work'[x] = work[x]
      PROVE  OwnBlocks'
  BY <1>1 DEF OwnBlocks
<1>2. ASSUME NEW r \in Requests, Submit(r) PROVE OwnBlocks'
  <2>1. work'[r] = NewWork(r) /\ \A x \in Requests \ {r} : work'[x] = work[x]
    BY <1>2, SubmitEffect DEF PipeInv
  <2>2. NewWork(r).buffer \in {"none", "user"}
    BY DEF NewWork, NoWork
  <2> QED
    BY <1>1, <2>1, <2>2
<1>3. ASSUME NEW r \in Requests, CallerFreeBuffer(r) PROVE OwnBlocks'
  <2>1. \A x \in Requests \ {r} : work'[x] = work[x]
    BY <1>3, CallerOthers
  <2>2. work'[r].buffer # "work"
    BY <1>3, CallerFreeKeeps DEF OwnBlocks
  <2> QED
    BY <1>1, <2>1, <2>2
<1>4. ASSUME NEW r \in Requests, WorkDestroy(r) PROVE OwnBlocks'
  BY <1>4, WorkDestroyFrees DEF OwnBlocks
<1>5. ASSUME NEW t \in Workers, NEW r \in Requests, FileHandler(r) \/ CompressHandler(r),
             Finishes(t, r) \/ Carries(t, r)
      PROVE  OwnBlocks'
  <2>1. \A x \in Requests \ {r} : work'[x] = work[x]
    BY <1>5 DEF Finishes, Carries
  <2>2. work'[r].buffer # "work"
    BY <1>5, FileHandlerKeeps, CompressHandlerKeeps
  <2> QED
    BY <1>1, <2>1, <2>2
<1>6. ASSUME UNCHANGED <<work, mem, order>> PROVE OwnBlocks'
  BY <1>6 DEF OwnBlocks
<1>7. "file" \in Workers /\ "compress" \in Workers
  BY DEF Workers
<1> QED
  BY <1>2, <1>3, <1>4, <1>5, <1>6, <1>7, StepKinds

(* How the fields of a work object show. *)
LEMMA StateIs ==
  ASSUME NEW r \in Requests
  PROVE  /\ r \notin Submitted => WorkState[r] = "new"
         /\ r \in Submitted /\ mem[r]["work"] # "fs" => WorkState[r] = "freed"
         /\ r \in Submitted /\ mem[r]["work"] = "fs" /\ work[r].done => WorkState[r] = "complete"
         /\ r \in Submitted /\ mem[r]["work"] = "fs" /\ ~work[r].done => WorkState[r] = "pending"
         /\ ~work[r].done => WorkOutcome[r] = "none"
         /\ work[r].done => WorkOutcome[r] \in {"ok", "error"}
BY DEF WorkState, WorkOutcome

LEMMA StateIsNext ==
  ASSUME NEW r \in Requests
  PROVE  /\ r \notin Submitted' => WorkState'[r] = "new"
         /\ r \in Submitted' /\ mem'[r]["work"] # "fs" => WorkState'[r] = "freed"
         /\ r \in Submitted' /\ mem'[r]["work"] = "fs" /\ work'[r].done
              => WorkState'[r] = "complete"
         /\ r \in Submitted' /\ mem'[r]["work"] = "fs" /\ ~work'[r].done
              => WorkState'[r] = "pending"
         /\ ~work'[r].done => WorkOutcome'[r] = "none"
         /\ work'[r].done => WorkOutcome'[r] \in {"ok", "error"}
BY DEF WorkState, WorkOutcome

LEMMA StateSame ==
  ASSUME NEW r \in Requests, work'[r].done = work[r].done, work'[r].result = work[r].result,
         mem'[r]["work"] = mem[r]["work"], r \in Submitted' <=> r \in Submitted
  PROVE  WorkState'[r] = WorkState[r] /\ WorkOutcome'[r] = WorkOutcome[r]
BY DEF WorkState, WorkOutcome

LEMMA OneState ==
  ASSUME NEW r \in Requests,
         \A x \in Requests \ {r} : WorkState'[x] = WorkState[x] /\ WorkOutcome'[x] = WorkOutcome[x]
  PROVE  /\ WorkState' = [WorkState EXCEPT ![r] = WorkState'[r]]
         /\ WorkOutcome' = [WorkOutcome EXCEPT ![r] = WorkOutcome'[r]]
         /\ WorkState'[r] = WorkState[r] => WorkState' = WorkState
         /\ WorkOutcome'[r] = WorkOutcome[r] => WorkOutcome' = WorkOutcome
<1>1. /\ WorkState = [x \in Requests |-> WorkState[x]]
      /\ WorkState' = [x \in Requests |-> WorkState'[x]]
  BY DEF WorkState
<1>2. /\ WorkOutcome = [x \in Requests |-> WorkOutcome[x]]
      /\ WorkOutcome' = [x \in Requests |-> WorkOutcome'[x]]
  BY DEF WorkOutcome
<1>3. /\ WorkState' = [WorkState EXCEPT ![r] = WorkState'[r]]
      /\ WorkState'[r] = WorkState[r] => WorkState' = WorkState
  BY <1>1
<1>4. /\ WorkOutcome' = [WorkOutcome EXCEPT ![r] = WorkOutcome'[r]]
      /\ WorkOutcome'[r] = WorkOutcome[r] => WorkOutcome' = WorkOutcome
  BY <1>2
<1> QED
  BY <1>3, <1>4

(* A step on one work object, of those it may take at fs.h's interface. *)
LEMMA StepQueue ==
  ASSUME TypeInv, PipeInv, NEW r \in Requests, Submit(r)
  PROVE  AW!Queue(r)
<1>1. /\ r \notin Submitted /\ Submitted' = Submitted \cup {r}
      /\ work'[r] = NewWork(r) /\ mem'[r]["work"] = "fs"
      /\ \A x \in Requests \ {r} : work'[x] = work[x] /\ mem'[x] = mem[x]
  BY SubmitEffect DEF PipeInv
<1>2. ~work[r].done
  BY <1>1 DEF PipeInv, History, NoWork
<1>3. ~work'[r].done
  BY <1>1 DEF NewWork, NoWork
<1>4. WorkState[r] = "new" /\ WorkOutcome[r] = "none"
  BY <1>1, <1>2, StateIs
<1>5. WorkState'[r] = "pending" /\ WorkOutcome'[r] = "none"
  BY <1>1, <1>3, StateIsNext
<1>6. \A x \in Requests \ {r} : WorkState'[x] = WorkState[x] /\ WorkOutcome'[x] = WorkOutcome[x]
  BY <1>1, StateSame
<1>7. WorkState' = [WorkState EXCEPT ![r] = "pending"] /\ WorkOutcome' = WorkOutcome
  BY <1>4, <1>5, <1>6, OneState
<1> QED
  BY <1>4, <1>7 DEF AW!Queue

LEMMA StepFree ==
  ASSUME TypeInv, NEW r \in Requests, WorkDestroy(r)
  PROVE  AW!Free(r)
<1>1. r \in Submitted /\ work[r].done /\ mem[r]["work"] = "fs" /\ order' = order
  BY DEF WorkDestroy, Signaled, Done
<1>2. mem'[r]["work"] # "fs" /\ work' = work
  BY WorkDestroyFrees
<1>3. Submitted' = Submitted
  BY <1>1 DEF Submitted
<1>4. WorkState[r] = "complete"
  BY <1>1, StateIs
<1>5. WorkState'[r] = "freed"
  BY <1>1, <1>2, <1>3, StateIsNext
<1>6. WorkOutcome' = WorkOutcome
  BY <1>2 DEF WorkOutcome
<1>7. \A x \in Requests \ {r} : mem'[x] = mem[x]
  BY CallerOthers
<1>8. \A x \in Requests \ {r} : WorkState'[x] = WorkState[x] /\ WorkOutcome'[x] = WorkOutcome[x]
  BY <1>2, <1>3, <1>7, StateSame
<1>9. WorkState' = [WorkState EXCEPT ![r] = "freed"]
  BY <1>5, <1>8, OneState
<1> QED
  BY <1>4, <1>6, <1>9 DEF AW!Free

(* A handler completes the work object, or abandons it or hands it over.      *)
LEMMA StepHandler ==
  ASSUME OneProducer, TypeInv, PipeInv, OwnBlocks, TypeInv', NEW t \in Workers, NEW r \in Requests,
         FileHandler(r) \/ CompressHandler(r), Finishes(t, r) \/ Carries(t, r)
  PROVE  AW!Complete(r) \/ UNCHANGED AW!avars
<1>1. /\ pc[t] = "run" /\ cur[t] = r /\ order' = order
      /\ \A x \in Requests \ {r} : work'[x] = work[x] /\ mem'[x] = mem[x]
  BY DEF Finishes, Carries, HandlerFrame
<1>2. r \in Submitted /\ ~work[r].done /\ mem[r]["work"] = "fs"
  BY <1>1, Held
<1>3. Submitted' = Submitted
  BY <1>1 DEF Submitted
<1>4. mem'[r]["work"] = "fs"
  BY <1>2, FileHandlerKeeps, CompressHandlerKeeps
<1>5. WorkState[r] = "pending" /\ WorkOutcome[r] = "none"
  BY <1>2, StateIs
<1>6. \A x \in Requests \ {r} : WorkState'[x] = WorkState[x] /\ WorkOutcome'[x] = WorkOutcome[x]
  BY <1>1, <1>3, StateSame
<1>7. CASE work'[r].done
  <2>1. WorkState'[r] = "complete" /\ WorkOutcome'[r] \in {"ok", "error"}
    BY <1>2, <1>3, <1>4, <1>7, StateIsNext
  <2>2. /\ WorkState' = [WorkState EXCEPT ![r] = "complete"]
        /\ WorkOutcome' = [WorkOutcome EXCEPT ![r] = WorkOutcome'[r]]
    BY <1>6, <2>1, OneState
  <2>3. AW!Complete(r)
    BY <1>5, <2>1, <2>2 DEF AW!Complete
  <2> QED
    BY <2>3
<1>8. CASE ~work'[r].done
  <2>1. WorkState'[r] = "pending" /\ WorkOutcome'[r] = "none"
    BY <1>2, <1>3, <1>4, <1>8, StateIsNext
  <2>2. WorkState' = WorkState /\ WorkOutcome' = WorkOutcome
    BY <1>5, <1>6, <2>1, OneState
  <2> QED
    BY <2>2 DEF AW!avars
<1> QED
  BY <1>7, <1>8

LEMMA StepCallerFree ==
  ASSUME TypeInv, OwnBlocks, NEW r \in Requests, CallerFreeBuffer(r)
  PROVE  UNCHANGED AW!avars
<1>1. order' = order /\ \A x \in Requests \ {r} : work'[x] = work[x] /\ mem'[x] = mem[x]
  BY CallerOthers DEF CallerFreeBuffer
<1>2. Submitted' = Submitted
  BY <1>1 DEF Submitted
<1>3. /\ mem'[r]["work"] = mem[r]["work"] /\ work'[r].done = work[r].done
      /\ work'[r].result = work[r].result
  BY CallerFreeKeeps
<1>4. \A x \in Requests : WorkState'[x] = WorkState[x] /\ WorkOutcome'[x] = WorkOutcome[x]
  BY <1>1, <1>2, <1>3, StateSame
<1>5. WorkState' = WorkState /\ WorkOutcome' = WorkOutcome
  BY <1>4, OneState
<1> QED
  BY <1>5 DEF AW!avars

LEMMA NextAsyncWork ==
  ASSUME OneProducer, TypeInv, PipeInv, OwnBlocks, TypeInv', [Next]_vars
  PROVE  [AW!Next]_(AW!avars)
<1>1. ASSUME NEW r \in Requests, Submit(r) PROVE AW!Next
  BY <1>1, StepQueue DEF AW!Next
<1>2. ASSUME NEW r \in Requests, WorkDestroy(r) PROVE AW!Next
  BY <1>2, StepFree DEF AW!Next
<1>3. ASSUME NEW r \in Requests, CallerFreeBuffer(r) PROVE UNCHANGED AW!avars
  BY <1>3, StepCallerFree
<1>4. ASSUME NEW t \in Workers, NEW r \in Requests, FileHandler(r) \/ CompressHandler(r),
             Finishes(t, r) \/ Carries(t, r)
      PROVE  AW!Next \/ UNCHANGED AW!avars
  BY <1>4, StepHandler DEF AW!Next
<1>5. ASSUME UNCHANGED <<work, mem, order>> PROVE UNCHANGED AW!avars
  BY <1>5 DEF AW!avars, WorkState, WorkOutcome, Submitted
<1>6. "file" \in Workers /\ "compress" \in Workers
  BY DEF Workers
<1> QED
  BY <1>1, <1>2, <1>3, <1>4, <1>5, <1>6, StepKinds

(* fs.h: whatever the workers do, a work object is queued, completes once     *)
(* with an outcome that stays, and is freed only after it completed.          *)
THEOREM KeepsPromise == ASSUME OneProducer PROVE Spec => ImplementsAsyncWork
<1>1. Init => OwnBlocks
  BY DEF Init, OwnBlocks, NoWork
<1>2. OwnBlocks /\ TypeInv /\ PipeInv /\ [Next]_vars => OwnBlocks'
  BY NextOwnBlocks
<1>3. Init => AW!Init
  <2> SUFFICES ASSUME Init PROVE AW!Init
    OBVIOUS
  <2>1. \A r \in Requests : r \notin Submitted /\ ~work[r].done
    BY DEF Init, Submitted, NoWork
  <2>2. \A r \in Requests : WorkState[r] = "new" /\ WorkOutcome[r] = "none"
    BY <2>1, StateIs
  <2>3. /\ WorkState = [r \in Requests |-> "new"]
        /\ WorkOutcome = [r \in Requests |-> "none"]
    BY <2>2 DEF WorkState, WorkOutcome
  <2> QED
    BY <2>3 DEF AW!Init
<1>4. TypeInv /\ TypeInv' /\ PipeInv /\ OwnBlocks /\ [Next]_vars => [AW!Next]_(AW!avars)
  BY NextAsyncWork
<1> QED
  BY <1>1, <1>2, <1>3, <1>4, Invariants, PTL DEF Spec, ImplementsAsyncWork, AW!Spec

-----------------------------------------------------------------------------
(* The sizes of FsCodec, for every size. *)

(* The size a write keeps is an int that is the caller's size modulo the range  *)
(* of a DWORD.                                                                    *)
LEMMA SizeKept ==
  ASSUME NEW n \in Nat
  PROVE  /\ DwordRange \in Nat /\ DwordRange = HalfRange + HalfRange /\ HalfRange > 24
         /\ n % DwordRange \in 0 .. DwordRange - 1
         /\ n < DwordRange => n % DwordRange = n
         /\ ToInt(n) = IF n % DwordRange < HalfRange THEN n % DwordRange ELSE (n % DwordRange) - DwordRange
         /\ Written(n) = n % DwordRange
         /\ ToInt(n) >= 0 => ToInt(n) = n % DwordRange
<1>1. /\ HalfRange \in Nat /\ LZ4_MAX_INPUT_SIZE \in Nat
      /\ LZ4_MAX_INPUT_SIZE > 4 /\ LZ4_MAX_INPUT_SIZE \div 255 \in Nat
      /\ LZ4_MAX_INPUT_SIZE + LZ4_MAX_INPUT_SIZE \div 255 + 16 + 4 < HalfRange
  BY WidthAssumption DEF sizeof_int
<1>2. DwordRange \in Nat \ {0} /\ DwordRange = HalfRange + HalfRange /\ HalfRange > 24
  BY <1>1 DEF DwordRange
<1>3. n % DwordRange \in 0 .. DwordRange - 1
  BY <1>2, DivMod
<1>4. n < DwordRange => n % DwordRange = n
  BY <1>2, ModSmall
<1>5. ToInt(n) = IF n % DwordRange < HalfRange THEN n % DwordRange ELSE (n % DwordRange) - DwordRange
  BY DEF ToInt
<1> DEFINE low == n % DwordRange
<1> HIDE DEF low
<1>6. low \in 0 .. DwordRange - 1 /\ ToInt(n) = IF low < HalfRange THEN low ELSE low - DwordRange
  BY <1>3, <1>5 DEF low
<1>7. Written(n) = low
  BY <1>1, <1>2, <1>6 DEF Written, WorkSize, Dword
<1>8. ToInt(n) >= 0 => ToInt(n) = low
  BY <1>1, <1>2, <1>6
<1> QED
  BY <1>2, <1>3, <1>4, <1>5, <1>7, <1>8 DEF low

(* lz4 takes what fsWrite kept of the size if that is small enough as a DWORD. *)
LEMMA BoundOf ==
  ASSUME NEW n \in Nat
  PROVE  LZ4_compressBound(WorkSize(n)) =
           IF n % DwordRange > LZ4_MAX_INPUT_SIZE THEN 0
           ELSE (n % DwordRange) + (n % DwordRange) \div 255 + 16
<1>1. Dword(WorkSize(n)) = n % DwordRange
  BY SizeKept DEF Written
<1>2. n % DwordRange <= LZ4_MAX_INPUT_SIZE => n % DwordRange < HalfRange
  <2>1. LZ4_MAX_INPUT_SIZE \div 255 \in Nat
    BY WidthAssumption
  <2> QED
    BY <2>1, SizeKept, WidthAssumption DEF sizeof_int
<1>3. n % DwordRange <= LZ4_MAX_INPUT_SIZE => WorkSize(n) = n % DwordRange
  BY <1>2, SizeKept DEF WorkSize
<1>4. LZ4_MAX_INPUT_SIZE \in Nat /\ n % DwordRange \in Nat
  BY SizeKept, WidthAssumption
<1> QED
  BY <1>1, <1>3, <1>4 DEF LZ4_compressBound

(* fs.c 97, 149-193, 210, 229-266: whatever the size of the data, it comes back *)
(* whole from a compressed file if and only if lz4 takes so many bytes at once  *)
(* and saves at least the size of the header.  Data that shrinks less is cut     *)
(* off in the file, and a size that an int does not hold is never written whole. *)
THEOREM RoundTrip ==
  ASSUME NEW n \in Nat, NEW c \in Nat, c >= 1
  PROVE  Survives(n, c) <=> n <= LZ4_MAX_INPUT_SIZE /\ sizeof_int + c <= n
<1> DEFINE low == n % DwordRange
<1>1. /\ low \in Nat /\ DwordRange \in Nat /\ HalfRange \in Nat /\ LZ4_MAX_INPUT_SIZE \in Nat
      /\ low < DwordRange /\ (n < DwordRange => low = n) /\ Written(n) = low
      /\ LZ4_MAX_INPUT_SIZE < HalfRange /\ HalfRange < DwordRange
  <2>1. LZ4_MAX_INPUT_SIZE \div 255 \in Nat
    BY WidthAssumption
  <2> QED
    BY <2>1, SizeKept, WidthAssumption DEF sizeof_int
<1>2. WorkSize(n) = IF low < HalfRange THEN low ELSE low - DwordRange
  BY SizeKept DEF WorkSize
<1>3. CompressedSize(n, c) = IF low > LZ4_MAX_INPUT_SIZE THEN 0 ELSE c
  <2>1. low \div 255 \in Nat
    BY <1>1
  <2>2. low + low \div 255 + 16 # 0
    BY <1>1, <2>1
  <2> QED
    BY <1>1, <2>2, BoundOf DEF CompressedSize
<1>4. low < HalfRange => ToInt(Written(n)) = low
  BY <1>1, SizeKept
<1> HIDE DEF low
<1>5. ASSUME n <= LZ4_MAX_INPUT_SIZE, sizeof_int + c <= n PROVE Survives(n, c)
  <2>1. low = n /\ WorkSize(n) = n /\ CompressedSize(n, c) = c /\ ToInt(Written(n)) = n
    BY <1>1, <1>2, <1>3, <1>4, <1>5
  <2> QED
    BY <1>1, <1>5, <2>1 DEF Survives, Bytes, sizeof_int
<1>6. ASSUME Survives(n, c) PROVE n <= LZ4_MAX_INPUT_SIZE /\ sizeof_int + c <= n
  <2>1. WorkSize(n) = n /\ CompressedSize(n, c) > 0
    BY <1>6 DEF Survives
  <2>2. low = n /\ low <= LZ4_MAX_INPUT_SIZE /\ CompressedSize(n, c) = c
    BY <1>1, <1>2, <1>3, <2>1
  <2>3. sizeof_int + c - 1 \in Bytes(sizeof_int + c)
    BY DEF Bytes, sizeof_int
  <2>4. sizeof_int + c - 1 \in Bytes(n)
    BY <1>1, <1>6, <2>2, <2>3 DEF Survives
  <2> QED
    BY <2>2, <2>4 DEF Bytes, sizeof_int
<1> QED
  BY <1>5, <1>6

(* fs.c 97, 210, 257-258: fileWrite, which writes as many bytes as there were   *)
(* before compression, stays inside the buffer of the compressed data if and     *)
(* only if lz4 takes what fsWrite kept of the size.  Otherwise the buffer has    *)
(* room for the header alone, and the write goes past its end.                   *)
THEOREM WriteInside ==
  ASSUME NEW n \in Nat
  PROVE  Bytes(Written(n)) \subseteq Bytes(Allocated(n))
           <=> n % DwordRange <= LZ4_MAX_INPUT_SIZE
<1> DEFINE low == n % DwordRange
<1>1. low \in Nat /\ Written(n) = low /\ LZ4_MAX_INPUT_SIZE \in Nat /\ LZ4_MAX_INPUT_SIZE > 4
  BY SizeKept, WidthAssumption DEF sizeof_int
<1>2. Allocated(n) = IF low > LZ4_MAX_INPUT_SIZE THEN 4 ELSE low + low \div 255 + 20
  BY <1>1, BoundOf DEF Allocated, sizeof_int
<1> HIDE DEF low
<1>3. CASE low <= LZ4_MAX_INPUT_SIZE
  <2>1. low \div 255 \in Nat
    BY <1>1
  <2> QED
    BY <1>1, <1>2, <1>3, <2>1 DEF Bytes, low
<1>4. CASE low > LZ4_MAX_INPUT_SIZE
  <2>1. Allocated(n) = 4 /\ low > 4
    BY <1>1, <1>2, <1>4
  <2>2. 4 \in Bytes(Written(n)) /\ 4 \notin Bytes(Allocated(n))
    BY <1>1, <2>1 DEF Bytes
  <2>3. ~(low <= LZ4_MAX_INPUT_SIZE)
    BY <1>1, <1>4
  <2> QED
    BY <2>2, <2>3 DEF low
<1> QED
  BY <1>1, <1>3, <1>4
=============================================================================
