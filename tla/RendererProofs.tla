--------------------------- MODULE RendererProofs ---------------------------
(***************************************************************************)
(* The safety properties of Renderer, for any models, any number of frames *)
(* in flight, any length of the queue and any failures, whatever the       *)
(* memory held that was never written.                                     *)
(*                                                                         *)
(* CacheOK says that an entry in use holds the object made for its key, at *)
(* most one for a key.  It survives rendererDestroyStaleData, whose loop   *)
(* goes down and fills a freed slot from above, with an entry it has kept  *)
(* already.  UsesKept ties the submissions in flight to the ages of the    *)
(* cache entries, BuffersKept to the contents of the buffers.              *)
(***************************************************************************)
EXTENDS Renderer, NatFacts, FiniteSetTheorems

Commands ==
  [type : {"draw", "complete", "NULL"}, model : Models \cup {None}, id : Nat, spent : BOOLEAN]
GoodCommands == {c \in Commands : c.type = "draw" => c.model \in Models}
Contents == GoodCommands \cup {None, Garbage}
Indices == 0 .. QueueLength - 1

Queues == [used : Int, free : Int, head : Int, tail : Indices, slots : [Indices -> Contents]]

QueueOK ==
  /\ queue \in Queues
  /\ pushed \in Nat /\ mcmd \in Contents /\ mslot \in Indices
  /\ rcmd \in Contents /\ rslot \in Indices
  /\ rpc = "handle" => rcmd \in GoodCommands

Slots(kind, keys) ==
  [0 .. MaxDraw -> [info : keys \cup {None}, obj : Things(kind, keys) \cup {None, Garbage}, seen : Nat]]

\* A cache: an entry for a key, with the object made for it, not seen later than now.
CacheOK(c, kind, keys, now) ==
  /\ c \in [count : 0 .. MaxDraw, slot : Slots(kind, keys)]
  /\ \A x \in Used(c) :
       /\ c.slot[x].info \in keys /\ c.slot[x].obj \in Things(kind, keys)
       /\ c.slot[x].obj[2] = c.slot[x].info /\ c.slot[x].seen <= now
  /\ \A x, y \in Used(c) : c.slot[x].info = c.slot[y].info => x = y

CachesOK ==
  /\ CacheOK(instances, "instance", Keys("entity"), frame_counter)
  /\ CacheOK(meshes, "mesh", Keys("mesh"), frame_counter)
  /\ CacheOK(shaders, "shader", Keys("shader"), frame_counter)
  /\ live = Objects(instances) \cup Objects(meshes) \cup Objects(shaders)
  /\ DOMAIN data = Objects(instances)
  /\ \A o \in DOMAIN data : data[o] \in [Frames -> Int]
  /\ rpc = "create" => live = {}
  /\ rpc = "gone" => live = {}

\* What is recorded: what is bound is what the thread believes, and what a draw uses.
RecordingOK ==
  /\ recording # None =>
       /\ recording \in Recordings
       /\ recording.pipeline = p_pipeline /\ recording.mesh = p_mesh
       /\ \A d \in recording.draws : d.used = d.wanted
  /\ recording = None => p_pipeline = None /\ p_mesh = None

\* An entry of a cache has object o and was seen at frame f or later.
HasSeen(c, o, f) == \E x \in Used(c) : c.slot[x].obj = o /\ c.slot[x].seen >= f
SeenSince(o, f) == HasSeen(instances, o, f) \/ HasSeen(meshes, o, f) \/ HasSeen(shaders, o, f)

\* The submissions in flight are of the last frames, one each.
InFlight ==
  /\ pending \in Seq([frame : Nat, uses : SUBSET Pointers]) /\ Len(pending) <= F
  /\ frame_counter \in Nat /\ cmd_buff \in [Frames -> Int]
  /\ \A n \in 1 .. Len(pending) : pending[n].frame = frame_counter - Len(pending) + (n - 1)

\* What they use, and what is being recorded, has not been reclaimed.
UsesKept ==
  /\ \A n \in 1 .. Len(pending) : \A o \in pending[n].uses : SeenSince(o, pending[n].frame)
  /\ rpc # "gone" => \A o \in Uses(Begun) : SeenSince(o, frame_counter)

\* The buffers of the last frames hold nothing later.
BuffersKept ==
  /\ \A n \in 1 .. Len(pending) :
       pending[n].frame # frame_counter - F =>
         /\ cmd_buff[pending[n].frame % F] = pending[n].frame
         /\ \A o \in pending[n].uses \cap DOMAIN data :
              data[o][pending[n].frame % F] <= pending[n].frame
  /\ \A o \in DOMAIN data : \A f \in Frames : data[o][f] <= frame_counter

Healthy == QueueOK /\ CachesOK /\ RecordingOK /\ InFlight /\ UsesKept /\ BuffersKept

\* The inductive invariant.
RenderInv == BoundAsWanted /\ (fault = "none" => Healthy)

-----------------------------------------------------------------------------
(* The caches: what a lookup finds, and the entry it makes. *)

(* The parts of a cache have their types. *)
LEMMA CacheTypes ==
  ASSUME NEW c, NEW kind, NEW keys, NEW now, CacheOK(c, kind, keys, now)
  PROVE  /\ c.count \in Nat /\ c.count <= MaxDraw /\ Used(c) \subseteq 0 .. MaxDraw
         /\ c = [count |-> c.count, slot |-> c.slot]
         /\ c.slot \in Slots(kind, keys)
         /\ \A x \in 0 .. MaxDraw :
              c.slot[x] \in [info : keys \cup {None}, obj : Things(kind, keys) \cup {None, Garbage}, seen : Nat]
<1>0. MaxDraw \in Nat
  BY RoomAssumption
<1>1. c \in [count : 0 .. MaxDraw, slot : Slots(kind, keys)]
  BY DEF CacheOK
<1>2. c.count \in 0 .. MaxDraw /\ c.slot \in Slots(kind, keys)
      /\ c = [count |-> c.count, slot |-> c.slot]
  BY <1>1
<1>3. Used(c) \subseteq 0 .. MaxDraw
  BY <1>0, <1>2 DEF Used
<1>4. \A x \in 0 .. MaxDraw :
        c.slot[x] \in [info : keys \cup {None}, obj : Things(kind, keys) \cup {None, Garbage}, seen : Nat]
  BY <1>2 DEF Slots
<1> QED
  BY <1>0, <1>2, <1>3, <1>4

(* SlotOf gives the entry of the key, or the first slot not in use. *)
LEMMA Lookup ==
  ASSUME NEW c, NEW key
  PROVE  /\ Hits(c, key) = {} => SlotOf(c, key) = c.count
         /\ Hits(c, key) # {} => SlotOf(c, key) \in Hits(c, key)
BY DEF SlotOf

(* There is room for a key that has no entry: the entries have different keys. *)
LEMMA Room ==
  ASSUME NEW c, NEW kind, NEW keys, NEW now, CacheOK(c, kind, keys, now),
         IsFiniteSet(keys), Cardinality(keys) <= MaxDraw,
         NEW key \in keys, Hits(c, key) = {}
  PROVE  c.count < MaxDraw
<1> DEFINE S == 0 .. c.count - 1
           T == keys \ {key}
           f == [x \in S |-> c.slot[x].info]
<1>1. c.count \in Nat /\ MaxDraw \in Nat
  BY CacheTypes, RoomAssumption
<1>2. IsFiniteSet(S) /\ Cardinality(S) = c.count
  <2>1. 0 \in Int /\ c.count - 1 \in Int
    BY <1>1
  <2>2. IsFiniteSet(S) /\ Cardinality(S) = IF 0 > c.count - 1 THEN 0 ELSE c.count - 1 - 0 + 1
    BY <2>1, FS_Interval
  <2> QED
    BY <1>1, <2>2
<1>3. IsFiniteSet(T) /\ Cardinality(T) = Cardinality(keys) - 1
  BY FS_RemoveElement
<1>4. Cardinality(keys) \in Nat
  BY FS_CardinalityType
<1>5. f \in [S -> T]
  BY DEF CacheOK, Hits, Used
<1>6. \A x, y \in S : x # y => f[x] # f[y]
  BY DEF CacheOK, Used
<1> HIDE DEF S, T, f
<1>7. ~(Cardinality(T) < Cardinality(S))
  BY <1>2, <1>3, <1>5, <1>6, FS_PigeonHole
<1> QED
  BY <1>1, <1>2, <1>3, <1>4, <1>7

(* What Touched does to a cache, in full: an entry that was there, or one more. *)
LEMMA TouchedParts ==
  ASSUME NEW c, NEW kind, NEW keys, CacheOK(c, kind, keys, frame_counter),
         frame_counter \in Nat, IsFiniteSet(keys), Cardinality(keys) <= MaxDraw,
         None \notin Things(kind, keys), Garbage \notin Things(kind, keys), NEW key \in keys
  PROVE  LET at == SlotOf(c, key)
             o == Object(c, kind, key)
             d == Touched(c, kind, key) IN
         /\ at \in 0 .. MaxDraw /\ o \in Things(kind, keys)
         /\ (kind = "instance" \/ ~TakesOver(c, key)) => o[2] = key
         /\ d = [count |-> d.count, slot |-> d.slot] /\ d.slot \in Slots(kind, keys)
         /\ d.count \in 0 .. MaxDraw /\ at \in Used(d)
         /\ Used(d) = Used(c) \cup {at}
         /\ d.slot[at] = [info |-> key, obj |-> o, seen |-> frame_counter]
         /\ \A x \in Used(d) : x # at => x \in Used(c) /\ d.slot[x] = c.slot[x]
         /\ at \in Used(c) => c.slot[at].info = key /\ c.slot[at].obj = o
         /\ at \notin Used(c) => Hits(c, key) = {}
<1> DEFINE at == SlotOf(c, key)
           o == Object(c, kind, key)
           d == Touched(c, kind, key)
           there == c.slot[at].obj
           entry == [info |-> key, obj |-> o, seen |-> frame_counter]
<1>0. c.count \in Nat /\ c.count <= MaxDraw /\ MaxDraw \in Nat /\ Used(c) \subseteq 0 .. MaxDraw
      /\ c.slot \in Slots(kind, keys)
  BY CacheTypes, RoomAssumption
<1>1. Hits(c, key) = {} => at = c.count /\ c.count < MaxDraw
  BY Lookup, Room
<1>2. Hits(c, key) # {} => at \in Used(c) /\ c.slot[at].info = key
  BY Lookup DEF Hits
<1>3. at \in 0 .. MaxDraw
  BY <1>0, <1>1, <1>2
<1>4. there \in Things(kind, keys) \cup {None, Garbage}
  BY <1>3, CacheTypes
<1>5. o = IF there \in {None, Garbage} \/ (kind = "instance" /\ Hits(c, key) = {})
          THEN <<kind, key, frame_counter>> ELSE there
  BY DEF Object, Made
<1>6. <<kind, key, frame_counter>> \in Things(kind, keys)
  BY DEF Things
<1>7. o \in Things(kind, keys)
  BY <1>4, <1>5, <1>6
<1>8. Hits(c, key) # {} => there \in Things(kind, keys) /\ there[2] = key /\ o = there
  <2> SUFFICES ASSUME Hits(c, key) # {} PROVE there \in Things(kind, keys) /\ there[2] = key /\ o = there
    OBVIOUS
  <2>1. there \in Things(kind, keys) /\ there[2] = key
    BY <1>2 DEF CacheOK
  <2> QED
    BY <1>5, <2>1
<1>9. (kind = "instance" \/ ~TakesOver(c, key)) => o[2] = key
  <2>1. CASE Hits(c, key) # {}
    BY <1>8, <2>1
  <2>2. CASE Hits(c, key) = {}
    <3>1. (kind = "instance" \/ ~TakesOver(c, key)) => o = <<kind, key, frame_counter>>
      BY <1>1, <1>5, <2>2 DEF TakesOver
    <3> QED
      BY <3>1
  <2> QED
    BY <2>1, <2>2
<1>10. d = [count |-> IF Hits(c, key) = {} THEN c.count + 1 ELSE c.count,
            slot |-> [c.slot EXCEPT ![at] = entry]]
  BY DEF Touched
<1>11. entry \in [info : keys \cup {None}, obj : Things(kind, keys) \cup {None, Garbage}, seen : Nat]
  BY <1>7
<1>12. d.slot = [c.slot EXCEPT ![at] = entry]
       /\ d.count = IF Hits(c, key) = {} THEN c.count + 1 ELSE c.count
  BY <1>10
<1> HIDE DEF at, o, d, entry, there
<1>13. d.slot \in Slots(kind, keys)
  BY <1>0, <1>11, <1>12 DEF Slots
<1>14. d.slot[at] = entry /\ \A x \in 0 .. MaxDraw : x # at => d.slot[x] = c.slot[x]
  BY <1>0, <1>3, <1>12 DEF Slots
<1>15. d.count \in 0 .. MaxDraw
  BY <1>0, <1>1, <1>12
<1>16. Used(d) = Used(c) \cup {at}
  <2>1. CASE Hits(c, key) = {}
    BY <1>0, <1>1, <1>12, <2>1 DEF Used
  <2>2. CASE Hits(c, key) # {}
    BY <1>0, <1>2, <1>12, <2>2 DEF Used
  <2> QED
    BY <2>1, <2>2
<1>17. \A x \in Used(d) : x # at => x \in Used(c) /\ d.slot[x] = c.slot[x]
  BY <1>0, <1>14, <1>16
<1>18. at \in Used(c) => Hits(c, key) # {}
  BY <1>0, <1>1 DEF Used
<1>19. at \in Used(c) => c.slot[at].info = key /\ c.slot[at].obj = o
  BY <1>2, <1>8, <1>18 DEF there
<1>20. at \notin Used(c) => Hits(c, key) = {}
  BY <1>2
<1>21. d = [count |-> d.count, slot |-> d.slot]
  BY <1>10, <1>12
<1> QED
  BY <1>3, <1>7, <1>9, <1>13, <1>14, <1>15, <1>16, <1>17, <1>19, <1>20, <1>21 DEF at, o, d, entry

(* Touched finds or makes the entry of its key, seen now, and leaves the others. *)
LEMMA TouchedSees ==
  ASSUME NEW c, NEW kind, NEW keys, CacheOK(c, kind, keys, frame_counter),
         frame_counter \in Nat, IsFiniteSet(keys), Cardinality(keys) <= MaxDraw,
         None \notin Things(kind, keys), Garbage \notin Things(kind, keys), NEW key \in keys
  PROVE  LET o == Object(c, kind, key)
             d == Touched(c, kind, key) IN
         /\ o \in Things(kind, keys)
         /\ HasSeen(d, o, frame_counter)
         /\ \A p, f : HasSeen(c, p, f) /\ (f \in Nat) /\ (f <= frame_counter) => HasSeen(d, p, f)
         /\ Objects(d) = Objects(c) \cup {o}
<1> DEFINE at == SlotOf(c, key)
           o == Object(c, kind, key)
           d == Touched(c, kind, key)
           entry == [info |-> key, obj |-> o, seen |-> frame_counter]
<1>1. /\ o \in Things(kind, keys)
      /\ at \in Used(d) /\ Used(d) = Used(c) \cup {at}
      /\ d.slot[at] = entry
      /\ \A x \in Used(d) : x # at => x \in Used(c) /\ d.slot[x] = c.slot[x]
      /\ at \in Used(c) => c.slot[at].obj = o
  BY TouchedParts
<1>2. entry.obj = o /\ entry.seen = frame_counter
  OBVIOUS
<1> HIDE DEF at, o, d, entry
<1>3. HasSeen(d, o, frame_counter)
  BY <1>1, <1>2 DEF HasSeen
<1>4. ASSUME NEW p, NEW f, HasSeen(c, p, f), f \in Nat, f <= frame_counter PROVE HasSeen(d, p, f)
  <2>1. PICK x \in Used(c) : c.slot[x].obj = p /\ c.slot[x].seen >= f
    BY <1>4 DEF HasSeen
  <2>2. CASE x = at
    BY <1>1, <1>2, <1>4, <2>1, <2>2 DEF HasSeen
  <2>3. CASE x # at
    BY <1>1, <2>1, <2>3 DEF HasSeen
  <2> QED
    BY <2>2, <2>3
<1>5. Objects(d) \subseteq Objects(c) \cup {o}
  BY <1>1, <1>2 DEF Objects
<1>6. o \in Objects(d)
  BY <1>1, <1>2 DEF Objects
<1>7. ASSUME NEW x \in Used(c) PROVE c.slot[x].obj \in Objects(d)
  <2>1. CASE x = at
    BY <1>1, <1>6, <2>1
  <2>2. CASE x # at
    BY <1>1, <2>2 DEF Objects
  <2> QED
    BY <2>1, <2>2
<1>8. Objects(c) \subseteq Objects(d)
  BY <1>7 DEF Objects
<1> QED
  BY <1>1, <1>3, <1>4, <1>5, <1>6, <1>8 DEF o, d

(* ... and the cache is as it should be, unless a pointer was taken over. *)
LEMMA TouchedOK ==
  ASSUME NEW c, NEW kind, NEW keys, CacheOK(c, kind, keys, frame_counter),
         frame_counter \in Nat, IsFiniteSet(keys), Cardinality(keys) <= MaxDraw,
         None \notin Things(kind, keys), Garbage \notin Things(kind, keys), NEW key \in keys,
         kind = "instance" \/ ~TakesOver(c, key)
  PROVE  CacheOK(Touched(c, kind, key), kind, keys, frame_counter)
<1> DEFINE at == SlotOf(c, key)
           o == Object(c, kind, key)
           d == Touched(c, kind, key)
           entry == [info |-> key, obj |-> o, seen |-> frame_counter]
<1>1. /\ o \in Things(kind, keys) /\ o[2] = key
      /\ d = [count |-> d.count, slot |-> d.slot] /\ d.slot \in Slots(kind, keys)
      /\ d.count \in 0 .. MaxDraw
      /\ at \in Used(d) /\ Used(d) = Used(c) \cup {at}
      /\ d.slot[at] = entry
      /\ \A x \in Used(d) : x # at => x \in Used(c) /\ d.slot[x] = c.slot[x]
      /\ at \in Used(c) => c.slot[at].info = key
      /\ at \notin Used(c) => Hits(c, key) = {}
  BY TouchedParts
<1>2. entry.obj = o /\ entry.seen = frame_counter /\ entry.info = key
  OBVIOUS
<1> HIDE DEF at, o, d, entry
<1>3. d \in [count : 0 .. MaxDraw, slot : Slots(kind, keys)]
  BY <1>1
<1>4. ASSUME NEW x \in Used(d)
      PROVE  /\ d.slot[x].info \in keys /\ d.slot[x].obj \in Things(kind, keys)
             /\ d.slot[x].obj[2] = d.slot[x].info /\ d.slot[x].seen <= frame_counter
  <2>1. CASE x = at
    BY <1>1, <1>2, <2>1
  <2>2. CASE x # at
    <3>1. x \in Used(c) /\ d.slot[x] = c.slot[x]
      BY <1>1, <1>4, <2>2
    <3> QED
      BY <3>1 DEF CacheOK
  <2> QED
    BY <2>1, <2>2
<1>5. ASSUME NEW x \in Used(c), x # at PROVE c.slot[x].info # key
  <2>1. CASE at \in Used(c)
    BY <1>1, <1>5, <2>1 DEF CacheOK
  <2>2. CASE at \notin Used(c)
    BY <1>1, <2>2 DEF Hits
  <2> QED
    BY <2>1, <2>2
<1>6. ASSUME NEW x \in Used(d), NEW y \in Used(d), d.slot[x].info = d.slot[y].info PROVE x = y
  <2>1. CASE x = at /\ y # at
    BY <1>1, <1>2, <1>5, <1>6, <2>1
  <2>2. CASE x # at /\ y = at
    BY <1>1, <1>2, <1>5, <1>6, <2>2
  <2>3. CASE x # at /\ y # at
    <3>1. x \in Used(c) /\ y \in Used(c) /\ c.slot[x].info = c.slot[y].info
      BY <1>1, <1>6, <2>3
    <3> QED
      BY <3>1 DEF CacheOK
  <2> QED
    BY <2>1, <2>2, <2>3
<1>7. CacheOK(d, kind, keys, frame_counter)
  BY <1>3, <1>4, <1>6 DEF CacheOK
<1> QED
  BY <1>7 DEF d

(* Two entries of a cache have different objects. *)
LEMMA OneEntry ==
  ASSUME NEW c, NEW kind, NEW keys, NEW now, CacheOK(c, kind, keys, now)
  PROVE  \A x, y \in Used(c) : c.slot[x].obj = c.slot[y].obj => x = y
<1> SUFFICES ASSUME NEW x \in Used(c), NEW y \in Used(c), c.slot[x].obj = c.slot[y].obj
             PROVE  x = y
  OBVIOUS
<1>1. c.slot[x].obj[2] = c.slot[x].info /\ c.slot[y].obj[2] = c.slot[y].info
  BY DEF CacheOK
<1> QED
  BY <1>1 DEF CacheOK

(* Frames only add to the age that is allowed. *)
LEMMA CacheLater ==
  ASSUME NEW c, NEW kind, NEW keys, NEW now \in Nat, NEW later \in Nat, now <= later,
         CacheOK(c, kind, keys, now)
  PROVE  CacheOK(c, kind, keys, later)
<1>1. \A x \in Used(c) : c.slot[x].seen \in Nat
  BY CacheTypes
<1> QED
  BY <1>1 DEF CacheOK

-----------------------------------------------------------------------------
(* rendererDestroyStaleData. *)

(* Removed gives up one entry of a cache, and keeps the others. *)
LEMMA RemovedOK ==
  ASSUME NEW c, NEW kind, NEW keys, NEW now, CacheOK(c, kind, keys, now), NEW at \in Used(c)
  PROVE  LET d == Removed(c, at) IN
         /\ CacheOK(d, kind, keys, now) /\ d.count = c.count - 1
         /\ \A x \in Used(d) : d.slot[x] = IF x = at THEN c.slot[c.count - 1] ELSE c.slot[x]
         /\ \A x \in Used(d) : \E y \in Used(c) : y # at /\ d.slot[x] = c.slot[y]
         /\ \A y \in Used(c) : y # at => \E x \in Used(d) : d.slot[x] = c.slot[y]
<1> DEFINE d == Removed(c, at)
           last == c.count - 1
           from(x) == IF x = at THEN last ELSE x
<1>0. /\ c.count \in Nat /\ c.count <= MaxDraw /\ MaxDraw \in Nat /\ Used(c) \subseteq 0 .. MaxDraw
      /\ c.slot \in Slots(kind, keys) /\ c = [count |-> c.count, slot |-> c.slot]
  BY CacheTypes, RoomAssumption
<1>1. at \in 0 .. last /\ last \in Used(c) /\ last \in Nat
  BY <1>0 DEF Used
<1>2. d = [count |-> last, slot |-> [c.slot EXCEPT ![at] = c.slot[last]]]
  <2>1. PICK m, f : c = [count |-> m, slot |-> f]
    BY <1>0
  <2>2. c.count = m /\ c.slot = f
    BY <2>1
  <2>3. d = [[count |-> m, slot |-> f] EXCEPT !.slot[at] = f[m - 1], !.count = m - 1]
    BY <2>1, <2>2 DEF Removed
  <2> HIDE DEF d
  <2> QED
    BY <2>2, <2>3
<1>3. d.count = last /\ d.slot = [c.slot EXCEPT ![at] = c.slot[last]]
  BY <1>2
<1> HIDE DEF d
<1>4. d.slot \in Slots(kind, keys)
  BY <1>0, <1>1, <1>3 DEF Slots
<1>5. Used(d) = 0 .. last - 1
  BY <1>3 DEF Used
<1>6. \A x \in Used(d) : x \in Used(c) /\ x # last
  <2>1. Used(c) = 0 .. last
    BY DEF Used
  <2> HIDE DEF last
  <2> QED
    BY <1>1, <1>5, <2>1
<1>7. \A x \in Used(d) : d.slot[x] = IF x = at THEN c.slot[last] ELSE c.slot[x]
  BY <1>0, <1>1, <1>3, <1>6 DEF Slots
<1>8. \A x \in Used(d) : from(x) \in Used(c) /\ from(x) # at /\ d.slot[x] = c.slot[from(x)]
  BY <1>1, <1>6, <1>7
<1>9. \A x, y \in Used(d) : from(x) = from(y) => x = y
  BY <1>6
<1> HIDE DEF from
<1>10. d \in [count : 0 .. MaxDraw, slot : Slots(kind, keys)]
  BY <1>0, <1>1, <1>2, <1>3, <1>4
<1>11. \A x \in Used(d) :
         /\ d.slot[x].info \in keys /\ d.slot[x].obj \in Things(kind, keys)
         /\ d.slot[x].obj[2] = d.slot[x].info /\ d.slot[x].seen <= now
  BY <1>8 DEF CacheOK
<1>12. \A x, y \in Used(d) : d.slot[x].info = d.slot[y].info => x = y
  BY <1>8, <1>9 DEF CacheOK
<1>13. CacheOK(d, kind, keys, now)
  BY <1>10, <1>11, <1>12 DEF CacheOK
<1>14. ASSUME NEW y \in Used(c), y # at PROVE \E x \in Used(d) : d.slot[x] = c.slot[y]
  <2>1. CASE y = last
    <3>1. at \in Used(d)
      BY <1>1, <1>5, <1>14, <2>1
    <3> QED
      BY <1>7, <2>1, <3>1
  <2>2. CASE y # last
    <3>1. y \in 0 .. last
      BY DEF Used
    <3> HIDE DEF last
    <3>2. y \in Used(d)
      BY <1>1, <1>5, <2>2, <3>1
    <3> QED
      BY <1>7, <1>14, <3>2
  <2> QED
    BY <2>1, <2>2
<1> QED
  BY <1>3, <1>7, <1>8, <1>13, <1>14 DEF d

\* What the loop has done to cache c so far: an entry is kept, or was stale and is gone.
SweepOK(c, kind, keys, seen, now, s) ==
  /\ CacheOK(s.cache, kind, keys, seen)
  /\ s.past \in BOOLEAN
  /\ \A x \in Used(s.cache) : \E y \in Used(c) : s.cache.slot[x] = c.slot[y]
  /\ \A o \in s.gone : \E y \in Used(c) : c.slot[y].obj = o /\ Stale(c.slot[y].seen, now)
  /\ \A y \in Used(c) : c.slot[y].obj \notin s.gone =>
                          \E x \in Used(s.cache) : s.cache.slot[x] = c.slot[y]
  /\ \A x \in Used(s.cache) : s.cache.slot[x].obj \notin s.gone

\* After n rounds there is no stale entry above, where the loop has been.
SweptAbove(c, now, s, n) ==
  \/ s.past
  \/ n = 0 /\ s.cache = c
  \/ /\ s.cache.count >= c.count + 1 - n
     /\ \A x \in Used(s.cache) : x >= c.count + 1 - n => ~Stale(s.cache.slot[x].seen, now)

(* A round of the loop: from the slot past the entries down to the first. *)
LEMMA SweepRound ==
  ASSUME NEW c, NEW kind, NEW keys, NEW seen, NEW now \in Nat, CacheOK(c, kind, keys, seen),
         NEW s, s = [cache |-> s.cache, past |-> s.past, gone |-> s.gone],
         NEW n \in 1 .. c.count + 1, Garbage \notin Things(kind, keys),
         SweepOK(c, kind, keys, seen, now, s), SweptAbove(c, now, s, n - 1)
  PROVE  LET t == Sweep(s, c.count + 1 - n, now) IN
         /\ t = [cache |-> t.cache, past |-> t.past, gone |-> t.gone]
         /\ SweepOK(c, kind, keys, seen, now, t) /\ SweptAbove(c, now, t, n)
<1> DEFINE x == c.count + 1 - n
           t == Sweep(s, x, now)
           d == s.cache
           e == Removed(d, x)
           old == d.slot[x].obj
<1>0. c.count \in Nat /\ d.count \in Nat /\ x \in Nat /\ x <= c.count /\ n \in Nat /\ n - 1 \in Nat
  <2>1. CacheOK(d, kind, keys, seen)
    BY DEF SweepOK
  <2>2. c.count \in Nat /\ d.count \in Nat
    BY <2>1, CacheTypes
  <2> QED
    BY <2>2
<1>a. \A y \in Used(d) : LooksStale(d.slot[y], now) <=> Stale(d.slot[y].seen, now)
  <2>1. \A y \in Used(d) : d.slot[y].obj \in Things(kind, keys)
    BY DEF SweepOK, CacheOK
  <2> QED
    BY <2>1 DEF LooksStale
<1>1. CASE s.past \/ ~LooksStale(d.slot[x], now)
  <2>1. t = s
    BY <1>1 DEF Sweep
  <2>2. SweptAbove(c, now, s, n)
    <3>1. CASE s.past
      BY <3>1 DEF SweptAbove
    <3>2. CASE n = 1 /\ d = c
      BY <1>0, <3>2 DEF SweptAbove, Used
    <3>3. CASE /\ ~s.past /\ d.count >= c.count + 1 - (n - 1)
               /\ \A y \in Used(d) : y >= c.count + 1 - (n - 1) => ~Stale(d.slot[y].seen, now)
      <4>1. x \in Used(d) => ~Stale(d.slot[x].seen, now)
        BY <1>1, <1>a, <3>3
      <4>2. \A y \in Used(d) : y >= x => y = x \/ y >= c.count + 1 - (n - 1)
        BY <1>0 DEF Used
      <4>3. d.count >= x
        BY <1>0, <3>3
      <4> QED
        BY <3>3, <4>1, <4>2, <4>3 DEF SweptAbove
    <3> QED
      BY <3>1, <3>2, <3>3 DEF SweptAbove
  <2> QED
    BY <2>1, <2>2
<1>2. CASE ~s.past /\ LooksStale(d.slot[x], now) /\ x \notin Used(d)
  <2>0. t = [s EXCEPT !.past = TRUE]
    BY <1>2 DEF Sweep
  <2>1. t = [cache |-> s.cache, past |-> TRUE, gone |-> s.gone]
    <3> HIDE DEF t
    <3> QED
      BY <2>0
  <2>2. t.cache = s.cache /\ t.gone = s.gone /\ t.past /\ t.past \in BOOLEAN
        /\ t = [cache |-> t.cache, past |-> t.past, gone |-> t.gone]
    <3> HIDE DEF t
    <3>1. t.cache = s.cache /\ t.gone = s.gone /\ t.past = TRUE
      BY <2>1
    <3>2. t = [cache |-> t.cache, past |-> t.past, gone |-> t.gone]
      BY <2>1, <3>1
    <3> QED
      BY <3>1, <3>2
  <2> HIDE DEF t
  <2>3. SweepOK(c, kind, keys, seen, now, t)
    BY <2>2 DEF SweepOK
  <2>4. SweptAbove(c, now, t, n)
    BY <2>2 DEF SweptAbove
  <2> QED
    BY <2>2, <2>3, <2>4 DEF t
<1>3. CASE ~s.past /\ LooksStale(d.slot[x], now) /\ x \in Used(d)
  <2>0. Stale(d.slot[x].seen, now)
    BY <1>3, <1>a
  <2>1. t = [cache |-> e, past |-> FALSE, gone |-> s.gone \cup {old}]
    BY <1>3 DEF Sweep
  <2>2. t.cache = e /\ ~t.past /\ t.past \in BOOLEAN /\ t.gone = s.gone \cup {old}
        /\ t = [cache |-> t.cache, past |-> t.past, gone |-> t.gone]
    <3> HIDE DEF t, e, old
    <3>1. t.cache = e /\ t.gone = s.gone \cup {old} /\ t.past = FALSE
      BY <2>1
    <3>2. t = [cache |-> t.cache, past |-> t.past, gone |-> t.gone]
      BY <2>1, <3>1
    <3> QED
      BY <3>1, <3>2
  <2>3. CacheOK(d, kind, keys, seen)
    BY DEF SweepOK
  <2>4. /\ CacheOK(e, kind, keys, seen) /\ e.count = d.count - 1
        /\ \A y \in Used(e) : e.slot[y] = IF y = x THEN d.slot[d.count - 1] ELSE d.slot[y]
        /\ \A y \in Used(e) : \E z \in Used(d) : z # x /\ e.slot[y] = d.slot[z]
        /\ \A z \in Used(d) : z # x => \E y \in Used(e) : e.slot[y] = d.slot[z]
    BY <1>3, <2>3, RemovedOK
  <2>5. \A y, z \in Used(d) : d.slot[y].obj = d.slot[z].obj => y = z
    BY <2>3, OneEntry
  <2> HIDE DEF x, t, d, e, old
  <2>6. \A y \in Used(e) : \E z \in Used(c) : e.slot[y] = c.slot[z]
    BY <2>4 DEF SweepOK, d
  <2>7. \E y \in Used(c) : c.slot[y].obj = old /\ Stale(c.slot[y].seen, now)
    BY <1>3, <2>0 DEF SweepOK, d, old
  <2>8. \A o \in t.gone : \E y \in Used(c) : c.slot[y].obj = o /\ Stale(c.slot[y].seen, now)
    BY <2>2, <2>7 DEF SweepOK
  <2>9. ASSUME NEW y \in Used(c), c.slot[y].obj \notin t.gone
        PROVE  \E z \in Used(e) : e.slot[z] = c.slot[y]
    <3>1. PICK z \in Used(d) : d.slot[z] = c.slot[y]
      BY <2>2, <2>9 DEF SweepOK, d
    <3>2. z # x
      BY <2>2, <2>9, <3>1 DEF old
    <3> QED
      BY <2>4, <3>1, <3>2
  <2>10. ASSUME NEW y \in Used(e) PROVE e.slot[y].obj \notin t.gone
    <3>1. PICK z \in Used(d) : z # x /\ e.slot[y] = d.slot[z]
      BY <2>4
    <3>2. d.slot[z].obj # old
      BY <1>3, <2>5, <3>1 DEF old
    <3>3. d.slot[z].obj \notin s.gone
      BY DEF SweepOK, d
    <3> QED
      BY <2>2, <3>1, <3>2, <3>3
  <2>11. SweepOK(c, kind, keys, seen, now, t)
    BY <2>2, <2>4, <2>6, <2>8, <2>9, <2>10 DEF SweepOK
  <2>12. SweptAbove(c, now, t, n)
    <3>1. ~(n - 1 = 0 /\ s.cache = c)
      BY <1>0, <1>3 DEF Used, x, d
    <3>2. /\ d.count >= x + 1
          /\ \A y \in Used(d) : y >= x + 1 => ~Stale(d.slot[y].seen, now)
      BY <1>0, <1>3, <3>1 DEF SweptAbove, x, d
    <3>3. e.count >= x
      BY <1>0, <2>4, <3>2
    <3>4. ASSUME NEW y \in Used(e), y >= x PROVE ~Stale(e.slot[y].seen, now)
      <4>1. y \in Used(d) /\ d.count - 1 \in Used(d) /\ y < d.count - 1 /\ y \in Nat
        BY <1>0, <2>4, <3>2 DEF Used
      <4>2. CASE y = x
        BY <1>0, <2>4, <3>2, <4>1, <4>2
      <4>3. CASE y # x
        BY <1>0, <2>4, <3>2, <3>4, <4>1, <4>3
      <4> QED
        BY <4>2, <4>3
    <3> QED
      BY <2>2, <3>3, <3>4 DEF SweptAbove, x
  <2> QED
    BY <2>2, <2>11, <2>12 DEF t, x
<1> QED
  BY <1>1, <1>2, <1>3

(* The rounds of the loop are a function: it can be built one round at a time. *)
LEMMA RoundsExist ==
  ASSUME NEW c, NEW now, c.count \in Nat
  PROVE  \E f : f = [n \in 0 .. c.count + 1 |->
                       IF n = 0 THEN [cache |-> c, past |-> FALSE, gone |-> {}]
                       ELSE Sweep(f[n - 1], c.count + 1 - n, now)]
<1> DEFINE k == c.count + 1
           start == [cache |-> c, past |-> FALSE, gone |-> {}]
           Upto(f, m) == f = [n \in 0 .. m |-> IF n = 0 THEN start ELSE Sweep(f[n - 1], k - n, now)]
           S == {m \in Nat : \E f : Upto(f, m)}
<1>0. k \in Nat
  OBVIOUS
<1> HIDE DEF start, k
<1>1. 0 \in S
  <2>1. Upto([n \in 0 .. 0 |-> start], 0)
    OBVIOUS
  <2> QED
    BY <2>1
<1>2. ASSUME NEW m \in Nat, m \in S PROVE m + 1 \in S
  <2>1. PICK f : Upto(f, m)
    BY <1>2
  <2> DEFINE g == [n \in 0 .. m + 1 |-> IF n = m + 1 THEN Sweep(f[m], k - n, now) ELSE f[n]]
  <2>2. ASSUME NEW n \in 0 .. m + 1 PROVE g[n] = IF n = 0 THEN start ELSE Sweep(g[n - 1], k - n, now)
    <3>1. CASE n = m + 1
      <4>1. n - 1 \in 0 .. m + 1 /\ n - 1 = m /\ n - 1 # m + 1 /\ n # 0
        BY <3>1
      <4>2. g[n - 1] = f[m] /\ g[n] = Sweep(f[m], k - n, now)
        BY <3>1, <4>1
      <4> HIDE DEF g
      <4> QED
        BY <4>1, <4>2
    <3>2. CASE n = 0
      <4>1. f[0] = start
        BY <2>1
      <4> QED
        BY <3>2, <4>1
    <3>3. CASE n # m + 1 /\ n # 0
      <4>1. n \in 0 .. m /\ n - 1 \in 0 .. m + 1 /\ n - 1 # m + 1
        BY <3>3
      <4>2. f[n] = Sweep(f[n - 1], k - n, now)
        BY <2>1, <3>3, <4>1
      <4>3. g[n - 1] = f[n - 1] /\ g[n] = f[n]
        BY <3>3, <4>1
      <4> HIDE DEF g
      <4> QED
        BY <3>3, <4>2, <4>3
    <3> QED
      BY <3>1, <3>2, <3>3
  <2>3. g = [n \in 0 .. m + 1 |-> g[n]]
    OBVIOUS
  <2> HIDE DEF g
  <2>4. Upto(g, m + 1)
    BY <2>2, <2>3
  <2> QED
    BY <2>4
<1>3. k \in S
  <2> HIDE DEF S
  <2> QED
    BY <1>0, <1>1, <1>2, InductionOverSet
<1>4. \E f : Upto(f, k)
  BY <1>3
<1> QED
  BY <1>4 DEF start, k

(* The loop of rendererDestroyStaleData, round by round. *)
LEMMA SweptRounds ==
  ASSUME NEW c, NEW now, c.count \in Nat
  PROVE  \E f : /\ f[0] = [cache |-> c, past |-> FALSE, gone |-> {}]
                /\ \A n \in 1 .. c.count + 1 : f[n] = Sweep(f[n - 1], c.count + 1 - n, now)
                /\ Swept(c, now) = f[c.count + 1]
<1> DEFINE f == CHOOSE g : g = [n \in 0 .. c.count + 1 |->
                  IF n = 0 THEN [cache |-> c, past |-> FALSE, gone |-> {}]
                  ELSE Sweep(g[n - 1], c.count + 1 - n, now)]
<1>1. c.count + 1 \in Nat
  OBVIOUS
<1>2. Swept(c, now) = f[c.count + 1]
  BY DEF Swept
<1>3. \E g : g = [n \in 0 .. c.count + 1 |->
                   IF n = 0 THEN [cache |-> c, past |-> FALSE, gone |-> {}]
                   ELSE Sweep(g[n - 1], c.count + 1 - n, now)]
  BY RoundsExist
<1>4. f = [n \in 0 .. c.count + 1 |->
             IF n = 0 THEN [cache |-> c, past |-> FALSE, gone |-> {}]
             ELSE Sweep(f[n - 1], c.count + 1 - n, now)]
  BY <1>3, Zenon
<1> HIDE DEF f
<1>5. f[0] = [cache |-> c, past |-> FALSE, gone |-> {}]
  BY <1>1, <1>4
<1>6. ASSUME NEW n \in 1 .. c.count + 1 PROVE f[n] = Sweep(f[n - 1], c.count + 1 - n, now)
  <2>1. n \in 0 .. c.count + 1 /\ n # 0
    OBVIOUS
  <2> QED
    BY <1>4, <2>1
<1> QED
  BY <1>2, <1>5, <1>6

(* What rendererDestroyStaleData leaves of a cache: the entries that are not stale. *)
LEMMA SweptOK ==
  ASSUME NEW c, NEW kind, NEW keys, NEW seen, NEW now \in Nat, CacheOK(c, kind, keys, seen),
         Garbage \notin Things(kind, keys)
  PROVE  LET t == Swept(c, now) IN
         /\ SweepOK(c, kind, keys, seen, now, t)
         /\ ~t.past => \A x \in Used(t.cache) : ~Stale(t.cache.slot[x].seen, now)
<1>1. c.count \in Nat
  BY CacheTypes
<1>2. PICK f : /\ f[0] = [cache |-> c, past |-> FALSE, gone |-> {}]
               /\ \A n \in 1 .. c.count + 1 : f[n] = Sweep(f[n - 1], c.count + 1 - n, now)
               /\ Swept(c, now) = f[c.count + 1]
  BY <1>1, SweptRounds, Zenon
<1> DEFINE k == c.count + 1
           t == Swept(c, now)
           Good(s, n) == /\ s = [cache |-> s.cache, past |-> s.past, gone |-> s.gone]
                         /\ SweepOK(c, kind, keys, seen, now, s) /\ SweptAbove(c, now, s, n)
<1>3. Good(f[0], 0)
  <2>1. f[0].cache = c /\ ~f[0].past /\ f[0].past \in BOOLEAN /\ f[0].gone = {}
        /\ f[0] = [cache |-> f[0].cache, past |-> f[0].past, gone |-> f[0].gone]
    BY <1>2
  <2> QED
    BY <2>1 DEF SweepOK, SweptAbove
<1>4. ASSUME NEW n \in 1 .. k, Good(f[n - 1], n - 1) PROVE Good(f[n], n)
  <2> DEFINE s == f[n - 1]
             r == f[n]
  <2>1. r = Sweep(s, c.count + 1 - n, now)
    BY <1>2
  <2>2. Good(s, n - 1)
    BY <1>4
  <2> HIDE DEF s, r
  <2>3. Good(r, n)
    BY <2>1, <2>2, SweepRound
  <2> QED
    BY <2>3 DEF r
<1> HIDE DEF Good
<1> DEFINE S == {n \in Nat : n <= k => Good(f[n], n)}
<1>5. 0 \in S
  BY <1>3
<1>6. ASSUME NEW n \in Nat, n \in S PROVE n + 1 \in S
  <2>1. CASE n + 1 <= k
    <3>1. n + 1 \in 1 .. k /\ n <= k /\ (n + 1) - 1 = n
      BY <1>1, <2>1
    <3>2. Good(f[n], n)
      BY <1>6, <3>1
    <3>3. Good(f[n + 1], n + 1)
      BY <1>4, <3>1, <3>2
    <3> QED
      BY <3>3
  <2>2. CASE ~(n + 1 <= k)
    BY <2>2
  <2> QED
    BY <2>1, <2>2
<1>7. Good(t, k)
  <2>1. k \in Nat /\ k <= k
    BY <1>1
  <2>2. k \in S
    <3> HIDE DEF S, k
    <3> QED
      BY <1>5, <1>6, <2>1, InductionOverSet
  <2> QED
    BY <1>2, <2>1, <2>2
<1> HIDE DEF t
<1>8. SweepOK(c, kind, keys, seen, now, t) /\ SweptAbove(c, now, t, k)
  BY <1>7 DEF Good
<1>9. ASSUME ~t.past, NEW x \in Used(t.cache) PROVE ~Stale(t.cache.slot[x].seen, now)
  <2>1. \A y \in Used(t.cache) : y >= c.count + 1 - k => ~Stale(t.cache.slot[y].seen, now)
    BY <1>1, <1>8, <1>9 DEF SweptAbove
  <2>2. x >= c.count + 1 - k
    BY <1>1 DEF Used
  <2> QED
    BY <2>1, <2>2
<1> QED
  BY <1>8, <1>9 DEF t

(* The objects that are left are those that were not reclaimed, which were stale. *)
LEMMA SweptObjects ==
  ASSUME NEW c, NEW kind, NEW keys, NEW seen, NEW now \in Nat, CacheOK(c, kind, keys, seen),
         Garbage \notin Things(kind, keys)
  PROVE  LET t == Swept(c, now) IN
         /\ t.past \in BOOLEAN
         /\ t.gone \subseteq Objects(c) /\ Objects(t.cache) = Objects(c) \ t.gone
         /\ \A o \in t.gone : \A f \in Nat : f + F > now => ~HasSeen(c, o, f)
         /\ \A o, f : f \in Nat /\ f + F > now /\ HasSeen(c, o, f) => HasSeen(t.cache, o, f)
<1> DEFINE t == Swept(c, now)
<1>1. SweepOK(c, kind, keys, seen, now, t)
  BY SweptOK
<1> HIDE DEF t
<1>2. t.gone \subseteq Objects(c)
  BY <1>1 DEF SweepOK, Objects
<1>3. Objects(t.cache) \subseteq Objects(c) \ t.gone
  <2>1. ASSUME NEW x \in Used(t.cache)
        PROVE  t.cache.slot[x].obj \in Objects(c) /\ t.cache.slot[x].obj \notin t.gone
    <3>1. PICK y \in Used(c) : t.cache.slot[x] = c.slot[y]
      BY <1>1 DEF SweepOK
    <3>2. t.cache.slot[x].obj \in Objects(c)
      BY <3>1 DEF Objects
    <3> QED
      BY <1>1, <3>2 DEF SweepOK
  <2> QED
    BY <2>1 DEF Objects
<1>4. ASSUME NEW y \in Used(c), c.slot[y].obj \notin t.gone PROVE c.slot[y].obj \in Objects(t.cache)
  <2>1. PICK x \in Used(t.cache) : t.cache.slot[x] = c.slot[y]
    BY <1>1, <1>4 DEF SweepOK
  <2> QED
    BY <2>1 DEF Objects
<1>5. Objects(c) \ t.gone \subseteq Objects(t.cache)
  BY <1>4 DEF Objects
<1>6. ASSUME NEW y \in Used(c), NEW f \in Nat, f + F > now, c.slot[y].seen >= f
      PROVE  ~Stale(c.slot[y].seen, now)
  <2>1. c.slot[y].seen \in Nat /\ F \in Nat
    BY CacheTypes, FramesAssumption
  <2> QED
    BY <1>6, <2>1 DEF Stale
<1>7. ASSUME NEW o \in t.gone, NEW f \in Nat, f + F > now, HasSeen(c, o, f) PROVE FALSE
  <2>1. PICK y \in Used(c) : c.slot[y].obj = o /\ Stale(c.slot[y].seen, now)
    BY <1>1 DEF SweepOK
  <2>2. PICK z \in Used(c) : c.slot[z].obj = o /\ c.slot[z].seen >= f
    BY <1>7 DEF HasSeen
  <2>3. y = z
    BY <2>1, <2>2, OneEntry
  <2> QED
    BY <1>6, <1>7, <2>1, <2>2, <2>3
<1>8. ASSUME NEW o, NEW f \in Nat, f + F > now, HasSeen(c, o, f) PROVE HasSeen(t.cache, o, f)
  <2>1. PICK y \in Used(c) : c.slot[y].obj = o /\ c.slot[y].seen >= f
    BY <1>8 DEF HasSeen
  <2>2. o \notin t.gone
    BY <1>7, <1>8
  <2>3. PICK x \in Used(t.cache) : t.cache.slot[x] = c.slot[y]
    BY <1>1, <2>1, <2>2 DEF SweepOK
  <2> QED
    BY <2>1, <2>3 DEF HasSeen
<1>9. t.past \in BOOLEAN
  BY <1>1 DEF SweepOK
<1> QED
  BY <1>2, <1>3, <1>5, <1>7, <1>8, <1>9 DEF t

-----------------------------------------------------------------------------
(* Steps that leave the caches and the frames alone. *)

(* There is room in a cache for every key. *)
LEMMA KeysFit ==
  /\ IsFiniteSet(Keys("entity")) /\ Cardinality(Keys("entity")) <= MaxDraw
  /\ IsFiniteSet(Keys("mesh")) /\ Cardinality(Keys("mesh")) <= MaxDraw
  /\ IsFiniteSet(Keys("shader")) /\ Cardinality(Keys("shader")) <= MaxDraw
BY RoomAssumption

(* Objects are made for one kind of cache, and are neither NULL nor garbage. *)
LEMMA ThingsApart ==
  /\ \A nothing \in {None, Garbage} :
       /\ nothing \notin Things("instance", Keys("entity"))
       /\ nothing \notin Things("mesh", Keys("mesh"))
       /\ nothing \notin Things("shader", Keys("shader"))
  /\ \A o \in Things("instance", Keys("entity")) :
       o \notin Things("mesh", Keys("mesh")) /\ o \notin Things("shader", Keys("shader"))
  /\ \A o \in Things("mesh", Keys("mesh")) : o \notin Things("shader", Keys("shader"))
<1>1. None \notin AllThings /\ Garbage \notin AllThings
  BY NullAssumption
<1>2. \A k, l, X, Y, o : k # l /\ o \in Things(k, X) => o \notin Things(l, Y)
  <2> SUFFICES ASSUME NEW k, NEW l, NEW X, NEW Y, NEW o, o \in Things(k, X), o \in Things(l, Y)
               PROVE  k = l
    OBVIOUS
  <2>1. o[1] = k /\ o[1] = l
    BY DEF Things
  <2> QED
    BY <2>1
<1>3. "instance" # "mesh" /\ "instance" # "shader" /\ "mesh" # "shader"
  OBVIOUS
<1> QED
  BY <1>1, <1>2, <1>3 DEF AllThings

(* The objects of a cache are of its kind. *)
LEMMA ObjectsKind ==
  ASSUME NEW c, NEW kind, NEW keys, NEW now, CacheOK(c, kind, keys, now)
  PROVE  /\ Objects(c) \subseteq Things(kind, keys)
         /\ \A o, f : HasSeen(c, o, f) => o \in Objects(c)
BY DEF CacheOK, Objects, HasSeen

(* The steps of a push and of a pop keep the queue a queue. *)
LEMMA QueueSteps ==
  ASSUME NEW d \in Queues, NEW item \in Contents, NEW s \in Indices
  PROVE  /\ PushClaim(d) \in Queues /\ PushWrite(d, s, item) \in Queues
         /\ PopBackClaim(d) \in Queues /\ PopRead(d) \in Queues
<1>1. NextIndex(d.tail) \in Indices /\ (d.tail + QueueLength - 1) % QueueLength \in Indices
  <2>1. d.tail \in Indices /\ d.tail \in Nat
    BY DEF Queues, Indices
  <2>2. QueueLength \in Nat \ {0}
    BY QueueLengthAssumption
  <2>3. d.tail + 1 \in Nat /\ d.tail + QueueLength - 1 \in Nat
    BY <2>1, <2>2
  <2> QED
    BY <2>2, <2>3, DivMod DEF NextIndex, Indices
<1>2. d.used \in Int /\ d.free \in Int
  BY DEF Queues
<1>3. ASSUME NEW e \in Queues, NEW v \in Int PROVE [e EXCEPT !.used = v] \in Queues
  BY DEF Queues
<1>4. ASSUME NEW e \in Queues, NEW v \in Int PROVE [e EXCEPT !.free = v] \in Queues
  BY DEF Queues
<1>5. ASSUME NEW e \in Queues, NEW v \in Indices PROVE [e EXCEPT !.tail = v] \in Queues
  BY DEF Queues
<1>6. ASSUME NEW e \in Queues PROVE [e EXCEPT !.slots[s] = item] \in Queues
  BY DEF Queues
<1>7. PushClaim(d) = [[d EXCEPT !.free = d.free - 1] EXCEPT !.tail = NextIndex(d.tail)]
  BY DEF PushClaim, Queues
<1>8. PushWrite(d, s, item) = [[d EXCEPT !.used = d.used + 1] EXCEPT !.slots[s] = item]
  BY DEF PushWrite, Queues
<1>9. PopBackClaim(d) =
        [[d EXCEPT !.used = d.used - 1] EXCEPT !.tail = (d.tail + QueueLength - 1) % QueueLength]
  BY DEF PopBackClaim, Queues
<1>10. PopRead(d) = [d EXCEPT !.free = d.free + 1]
  BY DEF PopRead
<1>11. [d EXCEPT !.used = d.used + 1] \in Queues /\ [d EXCEPT !.used = d.used - 1] \in Queues
  BY <1>2, <1>3
<1>12. [d EXCEPT !.free = d.free + 1] \in Queues /\ [d EXCEPT !.free = d.free - 1] \in Queues
  BY <1>2, <1>4
<1>13. PushClaim(d) \in Queues
  BY <1>1, <1>5, <1>7, <1>12
<1>14. PushWrite(d, s, item) \in Queues
  BY <1>6, <1>8, <1>11
<1>15. PopBackClaim(d) \in Queues
  BY <1>1, <1>5, <1>9, <1>11
<1> QED
  BY <1>10, <1>12, <1>13, <1>14, <1>15

(* Initially the caches are empty, and nothing is recorded or in flight. *)
LEMMA RenderInit == Init => RenderInv
<1> SUFFICES ASSUME Init PROVE RenderInv
  OBVIOUS
<1>0. QueueLength \in Nat \ {0} /\ MaxDraw \in Nat /\ F \in Nat \ {0}
  BY QueueLengthAssumption, RoomAssumption, FramesAssumption
<1>1. QueueOK
  <2>1. 0 \in Indices
    BY <1>0 DEF Indices
  <2>2. [s \in 0 .. QueueLength - 1 |-> Garbage] \in [Indices -> Contents]
    BY DEF Indices, Contents
  <2>3. queue \in Queues
    BY <1>0, <2>1, <2>2 DEF Init, NewDeque, Queues
  <2>4. pushed \in Nat /\ mcmd \in Contents /\ mslot \in Indices /\ rcmd \in Contents /\ rslot \in Indices
    BY <2>1 DEF Init, Contents
  <2>5. rpc = "handle" => rcmd \in GoodCommands
    BY DEF Init
  <2> QED
    BY <2>3, <2>4, <2>5 DEF QueueOK
<1>2. CachesOK
  <2>1. instances = Empty /\ meshes = Empty /\ shaders = Empty
    BY DEF Init
  <2>3. ASSUME NEW kind, NEW keys PROVE CacheOK(Empty, kind, keys, 0) /\ Objects(Empty) = {}
    <3>1. [x \in 0 .. MaxDraw |-> Unwritten] \in Slots(kind, keys)
      BY DEF Slots, Unwritten
    <3>2. Empty \in [count : 0 .. MaxDraw, slot : Slots(kind, keys)] /\ Empty.count = 0
      BY <1>0, <3>1 DEF Empty
    <3>3. Used(Empty) = {}
      BY <3>2 DEF Used
    <3> QED
      BY <3>2, <3>3 DEF CacheOK, Objects
  <2>4. frame_counter = 0 /\ live = {} /\ data = << >>
    BY DEF Init
  <2>5. DOMAIN data = {}
    BY <2>4
  <2> QED
    BY <2>1, <2>3, <2>4, <2>5 DEF CachesOK
<1>3. RecordingOK /\ BoundAsWanted
  BY DEF Init, RecordingOK, BoundAsWanted
<1>4. InFlight
  <2>1. pending = << >> /\ frame_counter = 0 /\ cmd_buff = [i \in Frames |-> -1]
    BY DEF Init
  <2>2. Len(pending) = 0 /\ pending \in Seq([frame : Nat, uses : SUBSET Pointers])
    BY <2>1
  <2>3. cmd_buff \in [Frames -> Int]
    BY <2>1
  <2>4. frame_counter \in Nat /\ Len(pending) <= F /\ 1 .. Len(pending) = {}
    BY <1>0, <2>1, <2>2
  <2> QED
    BY <2>2, <2>3, <2>4 DEF InFlight
<1>5. Len(pending) = 0 /\ Uses(Begun) = {}
  BY DEF Init, Uses, Begun
<1>6. UsesKept /\ BuffersKept
  BY <1>5 DEF UsesKept, BuffersKept, Init
<1> QED
  BY <1>1, <1>2, <1>3, <1>4, <1>6 DEF RenderInv, Healthy

(* The submissions in flight are of frames before this one, none older than F frames. *)
LEMMA Submitted ==
  ASSUME InFlight
  PROVE  /\ frame_counter \in Nat /\ F \in Nat \ {0}
         /\ Len(pending) \in Nat /\ Len(pending) <= F
         /\ \A n \in 1 .. Len(pending) :
              /\ pending[n] \in [frame : Nat, uses : SUBSET Pointers]
              /\ pending[n].frame \in Nat /\ pending[n].frame < frame_counter
              /\ frame_counter - pending[n].frame <= Len(pending)
              /\ frame_counter - pending[n].frame <= F
<1> DEFINE R == [frame : Nat, uses : SUBSET Pointers]
<1>1. /\ pending \in Seq(R) /\ Len(pending) <= F /\ frame_counter \in Nat
      /\ \A n \in 1 .. Len(pending) : pending[n].frame = frame_counter - Len(pending) + (n - 1)
  BY DEF InFlight
<1>2. \A r \in R : r.frame \in Nat
  OBVIOUS
<1>3. F \in Nat \ {0}
  BY FramesAssumption
<1> HIDE DEF R
<1>4. Len(pending) \in Nat /\ \A n \in 1 .. Len(pending) : pending[n] \in R
  BY <1>1
<1>5. ASSUME NEW n \in 1 .. Len(pending)
      PROVE  /\ pending[n].frame \in Nat /\ pending[n].frame < frame_counter
             /\ frame_counter - pending[n].frame <= Len(pending)
             /\ frame_counter - pending[n].frame <= F
  <2>1. pending[n].frame \in Nat /\ pending[n].frame = frame_counter - Len(pending) + (n - 1)
    BY <1>1, <1>2, <1>4
  <2> QED
    BY <1>1, <1>3, <1>4, <2>1
<1> QED
  BY <1>1, <1>3, <1>4, <1>5 DEF R

(* A step that touches neither caches nor frames nor submissions. *)
LEMMA CachesAlone ==
  ASSUME Healthy, UNCHANGED <<caches, frames, pending>>,
         rpc' # "create" \/ rpc = "create", rpc' = "gone" <=> rpc = "gone"
  PROVE  (CachesOK /\ RecordingOK /\ InFlight /\ UsesKept /\ BuffersKept)'
<1>1. /\ instances' = instances /\ meshes' = meshes /\ shaders' = shaders
      /\ live' = live /\ data' = data
      /\ recording' = recording /\ p_pipeline' = p_pipeline /\ p_mesh' = p_mesh
      /\ cmd_buff' = cmd_buff /\ frame_counter' = frame_counter /\ pending' = pending
  BY DEF caches, frames
<1>2. CachesOK'
  BY <1>1 DEF Healthy, CachesOK
<1>3. RecordingOK'
  BY <1>1 DEF Healthy, RecordingOK
<1>4. InFlight'
  BY <1>1 DEF Healthy, InFlight
<1>5. Begun' = Begun /\ index' = index
  BY <1>1 DEF Begun, index
<1>6. \A o, f : SeenSince(o, f)' <=> SeenSince(o, f)
  BY <1>1 DEF SeenSince
<1>7. UsesKept'
  BY <1>1, <1>5, <1>6 DEF Healthy, UsesKept
<1>8. BuffersKept'
  BY <1>1, <1>5 DEF Healthy, BuffersKept
<1> QED
  BY <1>2, <1>3, <1>4, <1>7, <1>8

(* The main thread only puts commands on the queue. *)
LEMMA MainStep ==
  ASSUME Healthy, rendererModelAdd \/ rendererFrameDone \/ rendererDestroy \/ EndPush \/ Join
  PROVE  Healthy' /\ recording' = recording /\ live' = live
<1> USE DEF Healthy
<1>1. UNCHANGED <<rpc, rcmd, rslot, caches, frames, pending, fault>>
  BY DEF rendererModelAdd, rendererFrameDone, rendererDestroy, StartPush, EndPush, Join
<1>2. rpc' = rpc /\ rcmd' = rcmd /\ rslot' = rslot
  BY <1>1
<1>3. (CachesOK /\ RecordingOK /\ InFlight /\ UsesKept /\ BuffersKept)'
  BY <1>1, <1>2, CachesAlone
<1>4. ASSUME NEW command \in GoodCommands, NEW next, StartPush(command, next) PROVE QueueOK'
  <2>1. queue' = PushClaim(queue) /\ mslot' = queue.tail /\ mcmd' = command /\ pushed' = pushed + 1
    BY <1>4 DEF StartPush
  <2>2. queue' \in Queues
    BY <2>1, QueueSteps DEF QueueOK
  <2>3. mslot' \in Indices
    BY <2>1 DEF QueueOK, Queues
  <2> QED
    BY <1>2, <2>1, <2>2, <2>3 DEF QueueOK, Contents
<1>5. CASE rendererModelAdd
  <2>1. PICK m \in Models : StartPush(Draw(m), "write")
    BY <1>5 DEF rendererModelAdd
  <2>2. Draw(m) \in GoodCommands
    BY DEF Draw, GoodCommands, Commands, QueueOK
  <2> QED
    BY <1>1, <1>3, <1>4, <2>1, <2>2 DEF frames, caches
<1>6. CASE rendererFrameDone
  <2>1. Complete \in GoodCommands
    BY DEF Complete, GoodCommands, Commands, QueueOK
  <2> QED
    BY <1>1, <1>3, <1>4, <1>6, <2>1 DEF rendererFrameDone, frames, caches
<1>7. CASE rendererDestroy
  <2>1. Stop \in GoodCommands
    BY DEF Stop, GoodCommands, Commands, QueueOK
  <2> QED
    BY <1>1, <1>3, <1>4, <1>7, <2>1 DEF rendererDestroy, frames, caches
<1>8. CASE EndPush
  <2>1. queue' = PushWrite(queue, mslot, mcmd) /\ mcmd' = None /\ mslot' = 0 /\ pushed' = pushed
    BY <1>8 DEF EndPush
  <2>2. queue' \in Queues
    BY <2>1, QueueSteps DEF QueueOK
  <2>3. 0 \in Indices /\ None \in Contents
    BY QueueLengthAssumption DEF Indices, Contents
  <2>4. QueueOK'
    BY <1>2, <2>1, <2>2, <2>3 DEF QueueOK
  <2> QED
    BY <1>1, <1>3, <2>4 DEF frames, caches
<1>9. CASE Join
  <2>1. UNCHANGED <<queue, pushed, mcmd, mslot>>
    BY <1>9 DEF Join
  <2>2. QueueOK'
    BY <1>2, <2>1 DEF QueueOK
  <2> QED
    BY <1>1, <1>3, <2>2 DEF frames, caches
<1> QED
  BY <1>5, <1>6, <1>7, <1>8, <1>9

(* The render thread starts, and takes a command off the queue. *)
LEMMA TakeStep ==
  ASSUME Healthy, Create \/ Pop \/ Fetch, fault' = "none"
  PROVE  Healthy' /\ recording' = recording /\ live' = live
<1> USE DEF Healthy
<1>1. UNCHANGED <<main, caches, frames, pending>>
  BY DEF Create, Pop, Fetch
<1>2. UNCHANGED <<mcmd, mslot, pushed>>
  BY <1>1 DEF main
<1>3. rpc' \in {"pop", "fetch", "drain", "handle"} /\ rpc \in {"create", "pop", "fetch"}
  BY DEF Create, Pop, Fetch
<1>4. (CachesOK /\ RecordingOK /\ InFlight /\ UsesKept /\ BuffersKept)'
  BY <1>1, <1>3, CachesAlone
<1>5. CASE Create
  <2>1. UNCHANGED <<queue, rcmd, rslot>> /\ rpc' = "pop"
    BY <1>5 DEF Create
  <2>2. QueueOK'
    BY <1>2, <2>1 DEF QueueOK
  <2> QED
    BY <1>1, <1>4, <2>2 DEF frames, caches
<1>6. CASE Pop
  <2>1. queue' = PopBackClaim(queue) /\ rslot' = queue.tail /\ rcmd' = rcmd /\ rpc' = "fetch"
    BY <1>6 DEF Pop
  <2>2. queue' \in Queues
    BY <2>1, QueueSteps DEF QueueOK
  <2>3. rslot' \in Indices
    BY <2>1 DEF QueueOK, Queues
  <2>4. QueueOK'
    BY <1>2, <2>1, <2>2, <2>3 DEF QueueOK
  <2> QED
    BY <1>1, <1>4, <2>4 DEF frames, caches
<1>7. CASE Fetch
  <2>1. /\ queue' = PopRead(queue) /\ rslot' = 0
        /\ rcmd' = IF queue.slots[rslot] = Garbage THEN None ELSE queue.slots[rslot]
        /\ rpc' = IF rcmd' = None \/ rcmd'.type = "NULL" THEN "drain" ELSE "handle"
    BY <1>7 DEF Fetch
  <2>2. queue' \in Queues
    BY <2>1, QueueSteps DEF QueueOK
  <2>3. 0 \in Indices
    BY QueueLengthAssumption DEF Indices
  <2>4. queue.slots[rslot] \in GoodCommands \cup {None, Garbage}
    BY DEF QueueOK, Queues, Contents
  <2>5. rcmd' \in Contents /\ (rpc' = "handle" => rcmd' \in GoodCommands)
    BY <2>1, <2>4 DEF Contents
  <2>6. QueueOK'
    BY <1>2, <2>1, <2>2, <2>3, <2>5 DEF QueueOK
  <2> QED
    BY <1>1, <1>4, <2>6 DEF frames, caches
<1> QED
  BY <1>5, <1>6, <1>7

-----------------------------------------------------------------------------
(* A draw command. *)

(* The objects of a draw, the caches that hold them, and what is recorded. *)
LEMMA DrawObjects ==
  ASSUME Healthy, DrawModel
  PROVE  \E m \in Models, p \in Things("shader", Keys("shader")), q \in Things("mesh", Keys("mesh")),
            i \in Things("instance", Keys("entity")) :
         /\ /\ HasSeen(shaders', p, frame_counter) /\ Objects(shaders') = Objects(shaders) \cup {p}
            /\ \A o, f : HasSeen(shaders, o, f) /\ f \in Nat /\ f <= frame_counter => HasSeen(shaders', o, f)
         /\ /\ HasSeen(meshes', q, frame_counter) /\ Objects(meshes') = Objects(meshes) \cup {q}
            /\ \A o, f : HasSeen(meshes, o, f) /\ f \in Nat /\ f <= frame_counter => HasSeen(meshes', o, f)
         /\ /\ HasSeen(instances', i, frame_counter) /\ Objects(instances') = Objects(instances) \cup {i}
            /\ \A o, f : HasSeen(instances, o, f) /\ f \in Nat /\ f <= frame_counter => HasSeen(instances', o, f)
         /\ fault' = "none" =>
              /\ CacheOK(shaders', "shader", Keys("shader"), frame_counter)
              /\ CacheOK(meshes', "mesh", Keys("mesh"), frame_counter)
              /\ CacheOK(instances', "instance", Keys("entity"), frame_counter)
         /\ live' = live \cup {p, q, i}
         /\ \E filled \in SUBSET IF i \in live THEN {index} ELSE Frames :
              data' = [o \in DOMAIN data \cup {i} |->
                         IF o = i
                         THEN [f \in Frames |-> IF f \in filled THEN frame_counter
                                                ELSE IF i \in live THEN data[i][f] ELSE -1]
                         ELSE data[o]]
         /\ p_pipeline' = p /\ p_mesh' = q
         /\ recording' = [pipeline |-> p, mesh |-> q,
                          draws |-> Begun.draws \cup {[model |-> m, wanted |-> {p, q, i}, used |-> {p, q, i}]}]
<1> DEFINE m == rcmd.model
           p == Object(shaders, "shader", m.shader)
           q == Object(meshes, "mesh", m.mesh)
           i == Object(instances, "instance", m.entity)
           there == i \in live
           old == IF there THEN data[i] ELSE [f \in Frames |-> -1]
           bound == [Begun EXCEPT !.pipeline = IF p_pipeline # p THEN p ELSE @,
                                  !.mesh = IF p_mesh # q THEN q ELSE @]
<1>1. /\ shaders' = Touched(shaders, "shader", m.shader)
      /\ meshes' = Touched(meshes, "mesh", m.mesh)
      /\ instances' = Touched(instances, "instance", m.entity)
      /\ live' = live \cup {p, q, i}
      /\ \E filled \in Filled(IF there THEN {index} ELSE Frames) :
           data' = [o \in DOMAIN data \cup {i} |->
                      IF o = i
                      THEN [f \in Frames |-> IF f \in filled THEN frame_counter ELSE old[f]]
                      ELSE data[o]]
      /\ fault' = IF TakesOver(shaders, m.shader) \/ TakesOver(meshes, m.mesh) THEN "leftover" ELSE fault
      /\ p_pipeline' = p /\ p_mesh' = q
  BY DEF DrawModel
<1>2. recording' = [bound EXCEPT !.draws = @ \cup {[model |-> m, wanted |-> {p, q, i},
                                                    used |-> {bound.pipeline, bound.mesh, i}]}]
  BY DEF DrawModel
<1>3. m \in Models
  BY DEF DrawModel, Draws, Healthy, QueueOK, GoodCommands
<1>4. m.shader \in Keys("shader") /\ m.mesh \in Keys("mesh") /\ m.entity \in Keys("entity")
  BY <1>3 DEF Keys
<1>5. /\ CacheOK(shaders, "shader", Keys("shader"), frame_counter)
      /\ CacheOK(meshes, "mesh", Keys("mesh"), frame_counter)
      /\ CacheOK(instances, "instance", Keys("entity"), frame_counter)
      /\ frame_counter \in Nat
  BY DEF Healthy, CachesOK, InFlight
<1>6. /\ p \in Things("shader", Keys("shader"))
      /\ HasSeen(shaders', p, frame_counter) /\ Objects(shaders') = Objects(shaders) \cup {p}
      /\ \A o, f : HasSeen(shaders, o, f) /\ f \in Nat /\ f <= frame_counter => HasSeen(shaders', o, f)
  BY <1>1, <1>4, <1>5, KeysFit, ThingsApart, TouchedSees
<1>7. /\ q \in Things("mesh", Keys("mesh"))
      /\ HasSeen(meshes', q, frame_counter) /\ Objects(meshes') = Objects(meshes) \cup {q}
      /\ \A o, f : HasSeen(meshes, o, f) /\ f \in Nat /\ f <= frame_counter => HasSeen(meshes', o, f)
  BY <1>1, <1>4, <1>5, KeysFit, ThingsApart, TouchedSees
<1>8. /\ i \in Things("instance", Keys("entity"))
      /\ HasSeen(instances', i, frame_counter) /\ Objects(instances') = Objects(instances) \cup {i}
      /\ \A o, f : HasSeen(instances, o, f) /\ f \in Nat /\ f <= frame_counter => HasSeen(instances', o, f)
  BY <1>1, <1>4, <1>5, KeysFit, ThingsApart, TouchedSees
<1>9. CacheOK(instances', "instance", Keys("entity"), frame_counter)
  BY <1>1, <1>4, <1>5, KeysFit, ThingsApart, TouchedOK
<1>10. ASSUME fault' = "none"
       PROVE  /\ CacheOK(shaders', "shader", Keys("shader"), frame_counter)
              /\ CacheOK(meshes', "mesh", Keys("mesh"), frame_counter)
  <2>1. ~TakesOver(shaders, m.shader) /\ ~TakesOver(meshes, m.mesh)
    BY <1>1, <1>10
  <2>2. CacheOK(shaders', "shader", Keys("shader"), frame_counter)
    BY <1>1, <1>4, <1>5, <2>1, KeysFit, ThingsApart, TouchedOK
  <2>3. CacheOK(meshes', "mesh", Keys("mesh"), frame_counter)
    BY <1>1, <1>4, <1>5, <2>1, KeysFit, ThingsApart, TouchedOK
  <2> QED
    BY <2>2, <2>3
<1>16. \E filled \in SUBSET IF i \in live THEN {index} ELSE Frames :
         data' = [o \in DOMAIN data \cup {i} |->
                    IF o = i
                    THEN [f \in Frames |-> IF f \in filled THEN frame_counter
                                           ELSE IF i \in live THEN data[i][f] ELSE -1]
                    ELSE data[o]]
  <2> DEFINE buffers == IF there THEN {index} ELSE Frames
  <2>1. PICK filled \in Filled(buffers) :
           data' = [o \in DOMAIN data \cup {i} |->
                      IF o = i
                      THEN [f \in Frames |-> IF f \in filled THEN frame_counter ELSE old[f]]
                      ELSE data[o]]
    BY <1>1
  <2>2. filled \in SUBSET buffers
    BY DEF Filled
  <2>3. \A f \in Frames : old[f] = IF there THEN data[i][f] ELSE -1
    OBVIOUS
  <2> HIDE DEF old, i
  <2>4. [f \in Frames |-> IF f \in filled THEN frame_counter ELSE old[f]]
        = [f \in Frames |-> IF f \in filled THEN frame_counter
                            ELSE IF there THEN data[i][f] ELSE -1]
    BY <2>3
  <2> QED
    BY <2>1, <2>2, <2>4
<1>11. p # None /\ q # None
  BY <1>6, <1>7, ThingsApart
<1> HIDE DEF m, p, q, i, old, there
<1>12. Begun.pipeline = p_pipeline /\ Begun.mesh = p_mesh
       /\ Begun = [pipeline |-> Begun.pipeline, mesh |-> Begun.mesh, draws |-> Begun.draws]
  BY DEF Healthy, RecordingOK, Begun, Recordings
<1>13. bound = [pipeline |-> p, mesh |-> q, draws |-> Begun.draws]
  <2> DEFINE new == IF p_pipeline # p THEN p ELSE Begun.pipeline
             other == IF p_mesh # q THEN q ELSE Begun.mesh
  <2>1. new = p /\ other = q
    BY <1>12
  <2>2. bound = [Begun EXCEPT !.pipeline = new, !.mesh = other]
    OBVIOUS
  <2> HIDE DEF new, other, bound
  <2> QED
    BY <1>12, <2>1, <2>2
<1> HIDE DEF bound
<1>14. bound.pipeline = p /\ bound.mesh = q /\ bound.draws = Begun.draws
  BY <1>13
<1>15. recording' = [pipeline |-> p, mesh |-> q,
                     draws |-> Begun.draws \cup {[model |-> m, wanted |-> {p, q, i}, used |-> {p, q, i}]}]
  <2> DEFINE d == Begun.draws \cup {[model |-> m, wanted |-> {p, q, i}, used |-> {p, q, i}]}
  <2>1. recording' = [bound EXCEPT !.draws = d]
    BY <1>2, <1>14
  <2> HIDE DEF d
  <2>2. recording' = [pipeline |-> p, mesh |-> q, draws |-> d]
    BY <1>13, <2>1
  <2> QED
    BY <2>2 DEF d
<1> QED
  BY <1>1, <1>3, <1>6, <1>7, <1>8, <1>9, <1>10, <1>15, <1>16

(* A draw binds what it wants, and what it uses was seen and written in this frame. *)
LEMMA DrawStep ==
  ASSUME Healthy, DrawModel
  PROVE  RecordingOK' /\ live \subseteq live' /\ (fault' = "none" => Healthy')
<1>1. PICK m \in Models, p \in Things("shader", Keys("shader")), q \in Things("mesh", Keys("mesh")),
           i \in Things("instance", Keys("entity")) :
         /\ /\ HasSeen(shaders', p, frame_counter) /\ Objects(shaders') = Objects(shaders) \cup {p}
            /\ \A o, f : HasSeen(shaders, o, f) /\ f \in Nat /\ f <= frame_counter => HasSeen(shaders', o, f)
         /\ /\ HasSeen(meshes', q, frame_counter) /\ Objects(meshes') = Objects(meshes) \cup {q}
            /\ \A o, f : HasSeen(meshes, o, f) /\ f \in Nat /\ f <= frame_counter => HasSeen(meshes', o, f)
         /\ /\ HasSeen(instances', i, frame_counter) /\ Objects(instances') = Objects(instances) \cup {i}
            /\ \A o, f : HasSeen(instances, o, f) /\ f \in Nat /\ f <= frame_counter => HasSeen(instances', o, f)
         /\ fault' = "none" =>
              /\ CacheOK(shaders', "shader", Keys("shader"), frame_counter)
              /\ CacheOK(meshes', "mesh", Keys("mesh"), frame_counter)
              /\ CacheOK(instances', "instance", Keys("entity"), frame_counter)
         /\ live' = live \cup {p, q, i}
         /\ \E filled \in SUBSET IF i \in live THEN {index} ELSE Frames :
              data' = [o \in DOMAIN data \cup {i} |->
                         IF o = i
                         THEN [f \in Frames |-> IF f \in filled THEN frame_counter
                                                ELSE IF i \in live THEN data[i][f] ELSE -1]
                         ELSE data[o]]
         /\ p_pipeline' = p /\ p_mesh' = q
         /\ recording' = [pipeline |-> p, mesh |-> q,
                          draws |-> Begun.draws \cup {[model |-> m, wanted |-> {p, q, i}, used |-> {p, q, i}]}]
  BY DrawObjects
<1> DEFINE drawn == [model |-> m, wanted |-> {p, q, i}, used |-> {p, q, i}]
<1>2. /\ cmd_buff' = [cmd_buff EXCEPT ![index] = frame_counter]
      /\ queue' = [queue EXCEPT !.slots = [s \in DOMAIN @ |->
                     IF @[s] = rcmd THEN [rcmd EXCEPT !.spent = TRUE] ELSE @[s]]]
      /\ rcmd' = None /\ rpc' = "pop" /\ rpc = "handle"
      /\ UNCHANGED <<mpc, mcmd, mslot, pushed, rslot, frame_counter, pending>>
  BY DEF DrawModel, Draws, main
<1>3. frame_counter \in Nat /\ F \in Nat \ {0} /\ index \in Frames
  <2>1. frame_counter \in Nat /\ F \in Nat \ {0}
    BY FramesAssumption DEF Healthy, InFlight
  <2> QED
    BY <2>1, DivMod DEF index, Frames
<1>4. index' = index
  BY <1>2 DEF index
<1>5. p \in Pointers /\ q \in Pointers /\ i \in Pointers
  BY DEF Pointers, AllThings
<1>6. drawn.used = {p, q, i} /\ drawn.wanted = {p, q, i}
      /\ drawn \in [model : Models, wanted : SUBSET Pointers, used : SUBSET Pointers]
  BY <1>5
<1> HIDE DEF drawn
<1>7. recording'.draws = Begun.draws \cup {drawn} /\ recording'.pipeline = p /\ recording'.mesh = q
  BY <1>1 DEF drawn
<1>8. /\ Begun.draws \subseteq [model : Models, wanted : SUBSET Pointers, used : SUBSET Pointers]
      /\ \A d \in Begun.draws : d.used = d.wanted
  BY DEF Healthy, RecordingOK, Begun, Recordings
<1>9. recording' \in Recordings /\ recording' # None
  <2> DEFINE all == Begun.draws \cup {drawn}
  <2>1. all \in SUBSET [model : Models, wanted : SUBSET Pointers, used : SUBSET Pointers]
    BY <1>6, <1>8
  <2>2. recording' = [pipeline |-> p, mesh |-> q, draws |-> all]
    BY <1>1 DEF drawn
  <2> HIDE DEF all
  <2>3. recording' \in Recordings
    BY <1>5, <2>1, <2>2 DEF Recordings
  <2> QED
    BY <2>3, NullAssumption
<1>10. RecordingOK'
  <2>1. p_pipeline' = p /\ p_mesh' = q
    BY <1>1
  <2>2. \A d \in recording'.draws : d.used = d.wanted
    BY <1>6, <1>7, <1>8
  <2> QED
    BY <1>7, <1>9, <2>1, <2>2 DEF RecordingOK
<1>11. live \subseteq live'
  BY <1>1
<1>12. ASSUME fault' = "none" PROVE Healthy'
  <2>1. QueueOK'
    <3>1. rcmd \in GoodCommands
      BY <1>2 DEF Healthy, QueueOK
    <3>2. [rcmd EXCEPT !.spent = TRUE] \in GoodCommands
      BY <3>1 DEF GoodCommands, Commands
    <3> DEFINE slots == [s \in DOMAIN queue.slots |->
                 IF queue.slots[s] = rcmd THEN [rcmd EXCEPT !.spent = TRUE] ELSE queue.slots[s]]
    <3>3. slots \in [Indices -> Contents]
      <4>1. queue.slots \in [Indices -> Contents]
        BY DEF Healthy, QueueOK, Queues
      <4>2. [rcmd EXCEPT !.spent = TRUE] \in Contents
        BY <3>2 DEF Contents
      <4> QED
        BY <4>1, <4>2
    <3>4. queue' = [queue EXCEPT !.slots = slots]
      BY <1>2
    <3> HIDE DEF slots
    <3>5. queue' \in Queues
      BY <3>3, <3>4 DEF Healthy, QueueOK, Queues
    <3>6. None \in Contents
      BY DEF Contents
    <3> QED
      BY <1>2, <3>5, <3>6 DEF Healthy, QueueOK
  <2>2. DOMAIN data = Objects(instances) /\ DOMAIN data' = Objects(instances')
    BY <1>1 DEF Healthy, CachesOK
  <2>3. /\ Objects(instances) \subseteq Things("instance", Keys("entity"))
        /\ Objects(meshes) \subseteq Things("mesh", Keys("mesh"))
        /\ Objects(shaders) \subseteq Things("shader", Keys("shader"))
    BY ObjectsKind DEF Healthy, CachesOK
  <2>4. live = Objects(instances) \cup Objects(meshes) \cup Objects(shaders)
    BY DEF Healthy, CachesOK
  <2>5. i \in live => i \in DOMAIN data
    BY <2>2, <2>3, <2>4, ThingsApart
  <2>6. \A o \in DOMAIN data : /\ data[o] \in [Frames -> Int]
                              /\ \A f \in Frames : data[o][f] <= frame_counter
    BY DEF Healthy, CachesOK, BuffersKept
  <2>7. i \in DOMAIN data => i \in live
    BY <2>2, <2>4
  <2>8. PICK filled \in SUBSET IF i \in live THEN {index} ELSE Frames :
          data' = [o \in DOMAIN data \cup {i} |->
                     IF o = i
                     THEN [f \in Frames |-> IF f \in filled THEN frame_counter
                                            ELSE IF i \in live THEN data[i][f] ELSE -1]
                     ELSE data[o]]
    BY <1>1
  <2>a. data'[i] = [f \in Frames |-> IF f \in filled THEN frame_counter
                                     ELSE IF i \in live THEN data[i][f] ELSE -1]
    BY <2>8
  <2>b. \A f \in Frames :
          /\ data'[i][f] = IF f \in filled THEN frame_counter
                           ELSE IF i \in live THEN data[i][f] ELSE -1
          /\ i \in live => data[i][f] \in Int /\ data[i][f] <= frame_counter
    BY <2>5, <2>6, <2>a
  <2>9. /\ data'[i] \in [Frames -> Int]
        /\ \A f \in Frames : data'[i][f] <= frame_counter
        /\ i \in live => \A f \in Frames : f # index => data'[i][f] = data[i][f]
    <3>1. \A f \in Frames : data'[i][f] \in Int /\ data'[i][f] <= frame_counter
      BY <1>3, <2>b
    <3>2. i \in live => \A f \in Frames : f # index => data'[i][f] = data[i][f]
      BY <2>b, <2>8
    <3> QED
      BY <2>a, <3>1, <3>2
  <2>10. \A o \in DOMAIN data : o # i => data'[o] = data[o]
    BY <2>8
  <2>11. DOMAIN data' = DOMAIN data \cup {i}
    BY <2>8
  <2>12. CachesOK'
    <3>1. live' = Objects(instances') \cup Objects(meshes') \cup Objects(shaders')
      BY <1>1, <2>4
    <3>2. \A o \in DOMAIN data' : data'[o] \in [Frames -> Int]
      BY <2>6, <2>9, <2>10, <2>11
    <3>3. /\ CacheOK(shaders', "shader", Keys("shader"), frame_counter')
          /\ CacheOK(meshes', "mesh", Keys("mesh"), frame_counter')
          /\ CacheOK(instances', "instance", Keys("entity"), frame_counter')
      BY <1>1, <1>2, <1>12
    <3> QED
      BY <1>2, <2>2, <3>1, <3>2, <3>3 DEF CachesOK
  <2>13. InFlight'
    <3>1. cmd_buff' \in [Frames -> Int]
      BY <1>2, <1>3 DEF Healthy, InFlight
    <3> QED
      BY <1>2, <3>1 DEF Healthy, InFlight
  <2>14. ASSUME NEW o, NEW f \in Nat, f <= frame_counter, SeenSince(o, f) PROVE SeenSince(o, f)'
    BY <1>1, <2>14 DEF SeenSince
  <2>15. Begun' = recording' /\ Uses(Begun)' = Uses(Begun) \cup {p, q, i}
    <3>1. Begun' = recording'
      BY <1>9 DEF Begun
    <3> QED
      BY <1>6, <1>7, <3>1 DEF Uses
  <2>16. \A n \in 1 .. Len(pending) : pending[n].frame \in Nat /\ pending[n].frame < frame_counter
                                      /\ frame_counter - pending[n].frame <= F
    BY Submitted DEF Healthy
  <2>17. UsesKept'
    <3>1. ASSUME NEW n \in 1 .. Len(pending'), NEW o \in pending'[n].uses
          PROVE  SeenSince(o, pending[n].frame)'
      <4>1. SeenSince(o, pending[n].frame) /\ pending[n].frame \in Nat /\ pending[n].frame <= frame_counter
        BY <1>2, <1>3, <2>16, <3>1 DEF Healthy, UsesKept
      <4> DEFINE f == pending[n].frame
      <4>3. f \in Nat /\ f <= frame_counter /\ pending'[n].frame = f
        BY <1>2, <4>1
      <4> QED
        BY <1>1, <1>2, <4>1, <4>3 DEF SeenSince
    <3>2. ASSUME NEW o \in Uses(Begun)' PROVE SeenSince(o, frame_counter)'
      <4>1. CASE o \in {p, q, i}
        BY <1>1, <1>2, <4>1 DEF SeenSince
      <4>2. CASE o \in Uses(Begun)
        <5>1. SeenSince(o, frame_counter)
          BY <1>2, <4>2 DEF Healthy, UsesKept
        <5> QED
          BY <1>1, <1>2, <1>3, <5>1 DEF SeenSince
      <4> QED
        BY <2>15, <4>1, <4>2
    <3> QED
      BY <1>2, <3>1, <3>2 DEF UsesKept
  <2>18. BuffersKept'
    <3>1. ASSUME NEW n \in 1 .. Len(pending), pending[n].frame # frame_counter - F
          PROVE  /\ cmd_buff'[pending[n].frame % F] = pending[n].frame
                 /\ \A o \in pending[n].uses \cap DOMAIN data' :
                      data'[o][pending[n].frame % F] <= pending[n].frame
      <4> DEFINE f == pending[n].frame
      <4>1. f \in Nat /\ f < frame_counter /\ frame_counter - f < F
        BY <1>3, <2>16, <3>1
      <4>2. f % F \in Frames /\ f % F # index
        BY <1>3, <4>1, DivMod, DistinctSlots DEF index, Frames
      <4>3. cmd_buff[f % F] = f /\ \A o \in pending[n].uses \cap DOMAIN data : data[o][f % F] <= f
        BY <3>1 DEF Healthy, BuffersKept
      <4>4. cmd_buff'[f % F] = f
        BY <1>2, <4>2, <4>3 DEF Healthy, InFlight
      <4>5. ASSUME NEW o \in pending[n].uses, o \in DOMAIN data' PROVE data'[o][f % F] <= f
        <5>1. SeenSince(o, f)
          BY DEF Healthy, UsesKept
        <5>2. o \in live
          BY <2>4, <5>1, ObjectsKind DEF SeenSince, Healthy, CachesOK
        <5>3. o \in DOMAIN data
          BY <2>5, <2>11, <4>5, <5>2
        <5>4. CASE o = i
          BY <2>7, <2>9, <4>2, <4>3, <5>3, <5>4
        <5>5. CASE o # i
          BY <2>10, <4>3, <5>3, <5>5
        <5> QED
          BY <5>4, <5>5
      <4> QED
        BY <4>4, <4>5
    <3>2. \A o \in DOMAIN data' : \A f \in Frames : data'[o][f] <= frame_counter
      BY <2>6, <2>9, <2>10, <2>11
    <3> QED
      BY <1>2, <1>4, <3>1, <3>2 DEF BuffersKept
  <2> QED
    BY <1>10, <2>1, <2>12, <2>13, <2>17, <2>18 DEF Healthy
<1> QED
  BY <1>10, <1>11, <1>12

-----------------------------------------------------------------------------
(* The end of a frame, and of the thread. *)

(* rendererDestroyStaleData destroys the objects of the stale entries, and nothing else. *)
LEMMA Destroyed ==
  ASSUME Healthy, NEW now \in Nat, DestroyStaleData(now)
  PROVE  /\ CacheOK(instances', "instance", Keys("entity"), frame_counter)
         /\ CacheOK(meshes', "mesh", Keys("mesh"), frame_counter)
         /\ CacheOK(shaders', "shader", Keys("shader"), frame_counter)
         /\ live' = Objects(instances') \cup Objects(meshes') \cup Objects(shaders')
         /\ DOMAIN data' = Objects(instances')
         /\ \A o \in DOMAIN data' : o \in DOMAIN data /\ data'[o] = data[o]
         /\ \A o, f : f \in Nat /\ f + F > now /\ SeenSince(o, f) =>
              HasSeen(instances', o, f) \/ HasSeen(meshes', o, f) \/ HasSeen(shaders', o, f)
         /\ \A o \in live \ live' : \A f \in Nat : f + F > now => ~SeenSince(o, f)
         /\ fault' = "none" =>
              \A c \in {instances', meshes', shaders'} : \A x \in Used(c) : ~Stale(c.slot[x].seen, now)
<1> DEFINE i == Swept(instances, now)
           m == Swept(meshes, now)
           s == Swept(shaders, now)
           gone == i.gone \cup m.gone \cup s.gone
<1>1. /\ instances' = i.cache /\ meshes' = m.cache /\ shaders' = s.cache
      /\ live' = live \ gone
      /\ data' = [o \in DOMAIN data \ gone |-> data[o]]
      /\ fault' = IF i.past \/ m.past \/ s.past THEN "past" ELSE fault
  BY DEF DestroyStaleData
<1>2. /\ CacheOK(instances, "instance", Keys("entity"), frame_counter)
      /\ CacheOK(meshes, "mesh", Keys("mesh"), frame_counter)
      /\ CacheOK(shaders, "shader", Keys("shader"), frame_counter)
      /\ live = Objects(instances) \cup Objects(meshes) \cup Objects(shaders)
      /\ DOMAIN data = Objects(instances)
  BY DEF Healthy, CachesOK
<1>3. /\ CacheOK(i.cache, "instance", Keys("entity"), frame_counter)
      /\ ~i.past => \A x \in Used(i.cache) : ~Stale(i.cache.slot[x].seen, now)
  BY <1>2, ThingsApart, SweptOK DEF SweepOK
<1>4. /\ CacheOK(m.cache, "mesh", Keys("mesh"), frame_counter)
      /\ ~m.past => \A x \in Used(m.cache) : ~Stale(m.cache.slot[x].seen, now)
  BY <1>2, ThingsApart, SweptOK DEF SweepOK
<1>5. /\ CacheOK(s.cache, "shader", Keys("shader"), frame_counter)
      /\ ~s.past => \A x \in Used(s.cache) : ~Stale(s.cache.slot[x].seen, now)
  BY <1>2, ThingsApart, SweptOK DEF SweepOK
<1>6. /\ i.gone \subseteq Objects(instances) /\ Objects(i.cache) = Objects(instances) \ i.gone
      /\ \A o \in i.gone : \A f \in Nat : f + F > now => ~HasSeen(instances, o, f)
      /\ \A o, f : f \in Nat /\ f + F > now /\ HasSeen(instances, o, f) => HasSeen(i.cache, o, f)
  BY <1>2, ThingsApart, SweptObjects
<1>7. /\ m.gone \subseteq Objects(meshes) /\ Objects(m.cache) = Objects(meshes) \ m.gone
      /\ \A o \in m.gone : \A f \in Nat : f + F > now => ~HasSeen(meshes, o, f)
      /\ \A o, f : f \in Nat /\ f + F > now /\ HasSeen(meshes, o, f) => HasSeen(m.cache, o, f)
  BY <1>2, ThingsApart, SweptObjects
<1>8. /\ s.gone \subseteq Objects(shaders) /\ Objects(s.cache) = Objects(shaders) \ s.gone
      /\ \A o \in s.gone : \A f \in Nat : f + F > now => ~HasSeen(shaders, o, f)
      /\ \A o, f : f \in Nat /\ f + F > now /\ HasSeen(shaders, o, f) => HasSeen(s.cache, o, f)
  BY <1>2, ThingsApart, SweptObjects
<1> HIDE DEF i, m, s
<1>9. /\ \A o \in Objects(instances) : o \notin Objects(meshes) /\ o \notin Objects(shaders)
      /\ \A o \in Objects(meshes) : o \notin Objects(shaders)
  <2>1. /\ Objects(instances) \subseteq Things("instance", Keys("entity"))
        /\ Objects(meshes) \subseteq Things("mesh", Keys("mesh"))
        /\ Objects(shaders) \subseteq Things("shader", Keys("shader"))
    BY <1>2, ObjectsKind
  <2> QED
    BY <2>1, ThingsApart
<1>10. Objects(instances') = Objects(instances) \ gone
  BY <1>1, <1>6, <1>7, <1>8, <1>9
<1>11. Objects(meshes') = Objects(meshes) \ gone /\ Objects(shaders') = Objects(shaders) \ gone
  BY <1>1, <1>6, <1>7, <1>8, <1>9
<1>12. live' = Objects(instances') \cup Objects(meshes') \cup Objects(shaders')
  BY <1>1, <1>2, <1>10, <1>11
<1>13. DOMAIN data' = Objects(instances')
       /\ \A o \in DOMAIN data' : o \in DOMAIN data /\ data'[o] = data[o]
  <2>1. DOMAIN data' = DOMAIN data \ gone /\ \A o \in DOMAIN data \ gone : data'[o] = data[o]
    BY <1>1
  <2> QED
    BY <1>2, <1>10, <2>1
<1>14. \A o, f : f \in Nat /\ f + F > now /\ SeenSince(o, f) =>
              HasSeen(instances', o, f) \/ HasSeen(meshes', o, f) \/ HasSeen(shaders', o, f)
  BY <1>1, <1>6, <1>7, <1>8 DEF SeenSince
<1>15. ASSUME NEW o \in live \ live', NEW f \in Nat, f + F > now PROVE ~SeenSince(o, f)
  <2>1. o \in gone
    BY <1>1
  <2>2. /\ HasSeen(instances, o, f) => o \in Objects(instances)
        /\ HasSeen(meshes, o, f) => o \in Objects(meshes)
        /\ HasSeen(shaders, o, f) => o \in Objects(shaders)
    BY <1>2, ObjectsKind
  <2>3. CASE o \in i.gone
    BY <1>6, <1>9, <1>15, <2>2, <2>3 DEF SeenSince
  <2>4. CASE o \in m.gone
    BY <1>7, <1>9, <1>15, <2>2, <2>4 DEF SeenSince
  <2>5. CASE o \in s.gone
    BY <1>8, <1>9, <1>15, <2>2, <2>5 DEF SeenSince
  <2> QED
    BY <2>1, <2>3, <2>4, <2>5
<1>16. ASSUME fault' = "none"
       PROVE  \A c \in {instances', meshes', shaders'} : \A x \in Used(c) : ~Stale(c.slot[x].seen, now)
  <2>1. ~i.past /\ ~m.past /\ ~s.past
    BY <1>1, <1>16
  <2> QED
    BY <1>1, <1>3, <1>4, <1>5, <2>1
<1> QED
  BY <1>1, <1>3, <1>4, <1>5, <1>12, <1>13, <1>14, <1>15, <1>16

(* The fence bounds the submissions in flight: the slot of the oldest is needed again. *)
LEMMA FenceBounds ==
  ASSUME InFlight, Signaled(index)
  PROVE  Len(pending) < F
<1> SUFFICES ASSUME Len(pending) = F PROVE FALSE
  BY Submitted
<1>1. 1 \in 1 .. Len(pending) /\ pending[1].frame = frame_counter - F /\ pending[1].frame \in Nat
      /\ F \in Nat \ {0} /\ frame_counter \in Nat
  BY Submitted DEF InFlight
<1> DEFINE f == pending[1].frame
<1>2. f \in Nat /\ F * 1 + f = frame_counter
  BY <1>1
<1>3. (F * 1 + f) % F = f % F
  BY <1>1, <1>2, ModMultiple
<1>4. f % F = index
  BY <1>2, <1>3 DEF index
<1> QED
  BY <1>1, <1>4 DEF Signaled

(* The end of a frame destroys nothing that a submission still uses. *)
LEMMA CompleteStep ==
  ASSUME Healthy, FrameComplete
  PROVE  /\ recording' = None /\ RecordingOK'
         /\ fault' = "none" => Healthy'
         /\ \A o \in live \ live' : \A n \in 1 .. Len(pending') : o \notin pending'[n].uses
<1> DEFINE now == frame_counter
           sub == [frame |-> now, uses |-> Uses(Begun)]
<1>1. /\ cmd_buff' = [cmd_buff EXCEPT ![index] = now]
      /\ pending' = Append(pending, sub)
      /\ recording' = None /\ p_pipeline' = None /\ p_mesh' = None
      /\ DestroyStaleData(now) /\ frame_counter' = now + 1
      /\ rcmd' = None /\ rpc' = "pop" /\ rpc = "handle"
      /\ UNCHANGED <<queue, mpc, mcmd, mslot, pushed, rslot>>
      /\ Signaled(index)
  BY DEF FrameComplete, Unbound, main
<1>2. InFlight
  BY DEF Healthy
<1>3. /\ now \in Nat /\ F \in Nat \ {0} /\ Len(pending) \in Nat /\ Len(pending) < F
      /\ \A n \in 1 .. Len(pending) :
           /\ pending[n].frame \in Nat /\ pending[n].frame < now
           /\ now - pending[n].frame <= Len(pending)
  BY <1>1, <1>2, Submitted, FenceBounds
<1>4. index \in Frames
  BY <1>3, DivMod DEF index, Frames
<1>5. Uses(Begun) \subseteq Pointers
  <2> DEFINE D == [model : Models, wanted : SUBSET Pointers, used : SUBSET Pointers]
  <2>1. Begun.draws \subseteq D
    BY DEF Healthy, RecordingOK, Recordings, Begun
  <2>2. \A d \in D : d.used \subseteq Pointers
    OBVIOUS
  <2> HIDE DEF D
  <2> QED
    BY <2>1, <2>2 DEF Uses
<1> DEFINE R == [frame : Nat, uses : SUBSET Pointers]
<1>6. sub \in R /\ sub.frame = now /\ sub.uses = Uses(Begun)
  BY <1>3, <1>5
<1>7. pending \in Seq(R)
  BY <1>2 DEF InFlight
<1> HIDE DEF sub, R, now
<1>8. /\ pending' \in Seq(R) /\ Len(pending') = Len(pending) + 1
      /\ pending'[Len(pending')] = sub
      /\ \A n \in 1 .. Len(pending) : pending'[n] = pending[n]
  BY <1>1, <1>6, <1>7
<1>9. \A n \in 1 .. Len(pending') : n = Len(pending') \/ n \in 1 .. Len(pending)
  BY <1>3, <1>8
<1>10. /\ CacheOK(instances', "instance", Keys("entity"), now)
       /\ CacheOK(meshes', "mesh", Keys("mesh"), now)
       /\ CacheOK(shaders', "shader", Keys("shader"), now)
       /\ live' = Objects(instances') \cup Objects(meshes') \cup Objects(shaders')
       /\ DOMAIN data' = Objects(instances')
       /\ \A o \in DOMAIN data' : o \in DOMAIN data /\ data'[o] = data[o]
       /\ \A o, f : f \in Nat /\ f + F > now /\ SeenSince(o, f) =>
            HasSeen(instances', o, f) \/ HasSeen(meshes', o, f) \/ HasSeen(shaders', o, f)
       /\ \A o \in live \ live' : \A f \in Nat : f + F > now => ~SeenSince(o, f)
  BY <1>1, <1>3, Destroyed DEF now
<1>11. ASSUME NEW n \in 1 .. Len(pending'), NEW o \in pending'[n].uses
       PROVE  /\ pending'[n].frame \in Nat /\ pending'[n].frame + F > now
              /\ SeenSince(o, pending'[n].frame)
  <2>1. CASE n = Len(pending')
    <3>1. SeenSince(o, now)
      BY <1>1, <1>6, <1>8, <1>11, <2>1 DEF Healthy, UsesKept, now
    <3> QED
      BY <1>3, <1>6, <1>8, <2>1, <3>1
  <2>2. CASE n \in 1 .. Len(pending)
    <3>1. SeenSince(o, pending[n].frame)
      BY <1>8, <1>11, <2>2 DEF Healthy, UsesKept
    <3> QED
      BY <1>3, <1>8, <2>2, <3>1
  <2> QED
    BY <1>9, <2>1, <2>2
<1>12. \A o \in live \ live' : \A n \in 1 .. Len(pending') : o \notin pending'[n].uses
  BY <1>10, <1>11
<1>13. RecordingOK'
  BY <1>1 DEF RecordingOK
<1>14. ASSUME fault' = "none" PROVE Healthy'
  <2>1. QueueOK'
    BY <1>1 DEF Healthy, QueueOK, Contents
  <2>2. CachesOK'
    <3>1. now + 1 \in Nat /\ now <= now + 1
      BY <1>3
    <3>2. /\ CacheOK(instances', "instance", Keys("entity"), now + 1)
          /\ CacheOK(meshes', "mesh", Keys("mesh"), now + 1)
          /\ CacheOK(shaders', "shader", Keys("shader"), now + 1)
      BY <1>3, <1>10, <3>1, CacheLater
    <3>3. \A o \in DOMAIN data' : data'[o] \in [Frames -> Int]
      BY <1>10 DEF Healthy, CachesOK
    <3> QED
      BY <1>1, <1>10, <3>2, <3>3 DEF CachesOK
  <2>3. InFlight'
    <3>1. ASSUME NEW n \in 1 .. Len(pending')
          PROVE  pending'[n].frame = frame_counter' - Len(pending') + (n - 1)
      <4>1. CASE n = Len(pending')
        BY <1>1, <1>3, <1>6, <1>8, <4>1
      <4>2. CASE n \in 1 .. Len(pending)
        <5>1. pending[n].frame = now - Len(pending) + (n - 1)
          BY <1>2, <4>2 DEF InFlight, now
        <5> QED
          BY <1>1, <1>3, <1>8, <4>2, <5>1
      <4> QED
        BY <1>9, <4>1, <4>2
    <3>2. cmd_buff' \in [Frames -> Int]
      BY <1>1, <1>2, <1>3, <1>4 DEF InFlight
    <3>3. Len(pending') <= F /\ frame_counter' \in Nat
      BY <1>1, <1>3, <1>8
    <3> QED
      BY <1>8, <3>1, <3>2, <3>3 DEF InFlight, R
  <2>4. Uses(Begun)' = {}
    BY <1>1 DEF Uses, Begun
  <2>5. UsesKept'
    <3>1. ASSUME NEW n \in 1 .. Len(pending'), NEW o \in pending'[n].uses
          PROVE  \/ HasSeen(instances', o, pending'[n].frame) \/ HasSeen(meshes', o, pending'[n].frame)
                 \/ HasSeen(shaders', o, pending'[n].frame)
      BY <1>10, <1>11
    <3> QED
      BY <2>4, <3>1 DEF UsesKept, SeenSince
  <2>6. BuffersKept'
    <3>1. ASSUME NEW n \in 1 .. Len(pending')
          PROVE  /\ cmd_buff'[pending'[n].frame % F] = pending'[n].frame
                 /\ \A o \in pending'[n].uses \cap DOMAIN data' :
                      data'[o][pending'[n].frame % F] <= pending'[n].frame
      <4>1. CASE n = Len(pending')
        <5>1. cmd_buff'[index] = now
          BY <1>1, <1>2, <1>4 DEF InFlight
        <5>2. \A o \in DOMAIN data' : data'[o][index] <= now
          BY <1>4, <1>10 DEF Healthy, BuffersKept, now
        <5>3. pending'[n].frame = now /\ pending'[n].uses = Uses(Begun) /\ now % F = index
          BY <1>6, <1>8, <4>1 DEF index, now
        <5> QED
          BY <5>1, <5>2, <5>3
      <4>2. CASE n \in 1 .. Len(pending)
        <5> DEFINE f == pending[n].frame
        <5>1. f \in Nat /\ f < now /\ now - f < F /\ f # now - F
          BY <1>3, <4>2
        <5>2. f % F \in Frames /\ f % F # index
          BY <1>3, <5>1, DivMod, DistinctSlots DEF index, Frames, now
        <5>3. cmd_buff[f % F] = f /\ \A o \in pending[n].uses \cap DOMAIN data : data[o][f % F] <= f
          BY <4>2, <5>1 DEF Healthy, BuffersKept, now
        <5>4. cmd_buff'[f % F] = f
          BY <1>1, <1>2, <5>2, <5>3 DEF InFlight
        <5>5. \A o \in pending[n].uses \cap DOMAIN data' : data'[o][f % F] <= f
          BY <1>10, <5>3
        <5> QED
          BY <1>8, <4>2, <5>4, <5>5
      <4> QED
        BY <1>9, <4>1, <4>2
    <3>2. ASSUME NEW o \in DOMAIN data', NEW f \in Frames PROVE data'[o][f] <= frame_counter'
      <4>1. data'[o] = data[o] /\ data[o][f] <= now /\ data[o][f] \in Int
        BY <1>10 DEF Healthy, BuffersKept, CachesOK, now
      <4> QED
        BY <1>1, <1>3, <4>1
    <3> QED
      BY <3>1, <3>2 DEF BuffersKept
  <2> QED
    BY <1>13, <2>1, <2>2, <2>3, <2>5, <2>6 DEF Healthy
<1> QED
  BY <1>1, <1>12, <1>13, <1>14

(* At the end everything is stale: the caches are left empty. *)
LEMMA DrainStep ==
  ASSUME Healthy, Drain
  PROVE  /\ recording' = recording /\ RecordingOK' /\ pending' = << >>
         /\ fault' = "none" => Healthy'
<1> DEFINE now == frame_counter + F + 1
<1>1. /\ pending = << >> /\ pending' = << >>
      /\ frame_counter' = now /\ DestroyStaleData(now)
      /\ rpc' = "gone"
      /\ UNCHANGED <<queue, mpc, mcmd, mslot, pushed, rcmd, rslot, recording, p_pipeline, p_mesh, cmd_buff>>
  BY DEF Drain, main
<1>2. frame_counter \in Nat /\ F \in Nat \ {0} /\ now \in Nat /\ frame_counter <= now
  <2>1. frame_counter \in Nat /\ F \in Nat \ {0}
    BY FramesAssumption DEF Healthy, InFlight
  <2> QED
    BY <2>1
<1> HIDE DEF now
<1>3. /\ CacheOK(instances', "instance", Keys("entity"), frame_counter)
      /\ CacheOK(meshes', "mesh", Keys("mesh"), frame_counter)
      /\ CacheOK(shaders', "shader", Keys("shader"), frame_counter)
      /\ live' = Objects(instances') \cup Objects(meshes') \cup Objects(shaders')
      /\ DOMAIN data' = Objects(instances')
      /\ fault' = "none" =>
           \A c \in {instances', meshes', shaders'} : \A x \in Used(c) : ~Stale(c.slot[x].seen, now)
  BY <1>1, <1>2, Destroyed
<1>4. RecordingOK'
  BY <1>1 DEF Healthy, RecordingOK
<1>5. ASSUME fault' = "none" PROVE Healthy'
  <2>1. ASSUME NEW c, NEW kind, NEW keys, CacheOK(c, kind, keys, frame_counter),
               \A x \in Used(c) : ~Stale(c.slot[x].seen, now)
        PROVE  Objects(c) = {}
    <3>1. ASSUME NEW x \in Used(c) PROVE FALSE
      <4>1. c.slot[x].seen \in Nat /\ c.slot[x].seen <= frame_counter
        BY <2>1, CacheTypes DEF CacheOK
      <4>2. Stale(c.slot[x].seen, now)
        BY <1>2, <4>1 DEF Stale, now
      <4> QED
        BY <2>1, <4>2
    <3> QED
      BY <3>1 DEF Objects
  <2>2. Objects(instances') = {} /\ Objects(meshes') = {} /\ Objects(shaders') = {}
    BY <1>3, <1>5, <2>1
  <2>3. live' = {} /\ DOMAIN data' = {}
    BY <1>3, <2>2
  <2>4. QueueOK'
    BY <1>1 DEF Healthy, QueueOK
  <2>5. CachesOK'
    <3>1. /\ CacheOK(instances', "instance", Keys("entity"), now)
          /\ CacheOK(meshes', "mesh", Keys("mesh"), now)
          /\ CacheOK(shaders', "shader", Keys("shader"), now)
      BY <1>2, <1>3, CacheLater
    <3> QED
      BY <1>1, <1>3, <2>3, <3>1 DEF CachesOK
  <2>6. Len(pending') = 0 /\ 1 .. Len(pending') = {}
    BY <1>1
  <2>7. InFlight'
    <3>1. pending' \in Seq([frame : Nat, uses : SUBSET Pointers])
      BY <1>1
    <3>2. cmd_buff' \in [Frames -> Int] /\ Len(pending') <= F
      BY <1>1, <1>2, <2>6 DEF Healthy, InFlight
    <3> QED
      BY <1>1, <1>2, <2>6, <3>1, <3>2 DEF InFlight
  <2>8. UsesKept' /\ BuffersKept'
    BY <1>1, <2>3, <2>6 DEF UsesKept, BuffersKept
  <2> QED
    BY <1>4, <2>4, <2>5, <2>7, <2>8 DEF Healthy
<1> QED
  BY <1>1, <1>4, <1>5

(* The GPU works off the oldest submission. *)
LEMMA GpuStep ==
  ASSUME Healthy, GpuCompletes
  PROVE  Healthy' /\ recording' = recording /\ live' = live
<1> DEFINE R == [frame : Nat, uses : SUBSET Pointers]
<1>1. /\ pending # << >> /\ pending' = Tail(pending)
      /\ UNCHANGED <<queue, mpc, mcmd, mslot, pushed, rpc, rcmd, rslot>>
      /\ UNCHANGED <<instances, meshes, shaders, live, data>>
      /\ UNCHANGED <<recording, p_pipeline, p_mesh, cmd_buff, frame_counter>>
  BY DEF GpuCompletes, main, caches, frames
<1>2. InFlight /\ pending \in Seq(R)
  BY DEF Healthy, InFlight
<1>3. Len(pending) \in Nat /\ Len(pending) <= F /\ F \in Nat /\ frame_counter \in Nat
  BY <1>2, Submitted
<1> HIDE DEF R
<1>4. /\ pending' \in Seq(R) /\ Len(pending') = Len(pending) - 1
      /\ \A n \in 1 .. Len(pending') : pending'[n] = pending[n + 1] /\ n + 1 \in 1 .. Len(pending)
  BY <1>1, <1>2
<1>5. QueueOK' /\ CachesOK' /\ RecordingOK'
  <2>1. QueueOK'
    BY <1>1 DEF Healthy, QueueOK
  <2>2. CachesOK'
    BY <1>1 DEF Healthy, CachesOK
  <2>3. RecordingOK'
    BY <1>1 DEF Healthy, RecordingOK
  <2> QED
    BY <2>1, <2>2, <2>3
<1>6. InFlight'
  <2>1. ASSUME NEW n \in 1 .. Len(pending')
        PROVE  pending'[n].frame = frame_counter' - Len(pending') + (n - 1)
    <3>1. pending[n + 1].frame = frame_counter - Len(pending) + ((n + 1) - 1)
      BY <1>2, <1>4 DEF InFlight
    <3> QED
      BY <1>1, <1>3, <1>4, <3>1
  <2>2. Len(pending') <= F
    BY <1>3, <1>4
  <2>3. cmd_buff' \in [Frames -> Int] /\ frame_counter' \in Nat
    BY <1>1, <1>2 DEF InFlight
  <2> QED
    BY <1>4, <2>1, <2>2, <2>3 DEF InFlight, R
<1>7. Uses(Begun)' = Uses(Begun) /\ index' = index
  BY <1>1 DEF Uses, Begun, index
<1>8. UsesKept'
  <2>1. ASSUME NEW n \in 1 .. Len(pending'), NEW o \in pending'[n].uses
        PROVE  SeenSince(o, pending'[n].frame)
    <3>1. n + 1 \in 1 .. Len(pending) /\ o \in pending[n + 1].uses /\ pending'[n] = pending[n + 1]
      BY <1>4, <2>1
    <3> QED
      BY <3>1 DEF Healthy, UsesKept
  <2>2. rpc # "gone" => \A o \in Uses(Begun) : SeenSince(o, frame_counter)
    BY DEF Healthy, UsesKept
  <2> QED
    BY <1>1, <1>7, <2>1, <2>2 DEF UsesKept, SeenSince
<1>9. BuffersKept'
  <2>1. ASSUME NEW n \in 1 .. Len(pending'), pending'[n].frame # frame_counter - F
        PROVE  /\ cmd_buff[pending'[n].frame % F] = pending'[n].frame
               /\ \A o \in pending'[n].uses \cap DOMAIN data :
                    data[o][pending'[n].frame % F] <= pending'[n].frame
    <3>1. n + 1 \in 1 .. Len(pending) /\ pending'[n] = pending[n + 1]
      BY <1>4, <2>1
    <3> QED
      BY <2>1, <3>1 DEF Healthy, BuffersKept
  <2>2. \A o \in DOMAIN data : \A f \in Frames : data[o][f] <= frame_counter
    BY DEF Healthy, BuffersKept
  <2> QED
    BY <1>1, <1>7, <2>1, <2>2 DEF BuffersKept
<1> QED
  BY <1>1, <1>5, <1>6, <1>8, <1>9 DEF Healthy

-----------------------------------------------------------------------------
(* The theorems. *)

(* What a step does to what is recorded and to the objects that are in use. *)
LEMMA RenderStep ==
  ASSUME RenderInv, [Next]_vars
  PROVE  /\ RenderInv'
         /\ \A o \in live \ live' : \A n \in 1 .. Len(pending') : o \notin pending'[n].uses
<1>1. RecordingOK => BoundAsWanted
  BY DEF RecordingOK, BoundAsWanted
<1>2. recording' = recording => BoundAsWanted'
  BY DEF RenderInv, BoundAsWanted
<1>3. RecordingOK' => BoundAsWanted'
  BY DEF RecordingOK, BoundAsWanted
<1>4. CASE UNCHANGED vars
  <2>1. /\ UNCHANGED <<queue, pushed, mpc, mcmd, mslot, rpc, rcmd, rslot, fault>>
        /\ UNCHANGED <<caches, frames, pending>>
        /\ recording' = recording /\ live' = live
    BY <1>4 DEF vars, main, caches, frames
  <2>2. ASSUME fault = "none" PROVE Healthy'
    <3>1. Healthy
      BY <2>2 DEF RenderInv
    <3>2. (CachesOK /\ RecordingOK /\ InFlight /\ UsesKept /\ BuffersKept)'
      BY <2>1, <3>1, CachesAlone
    <3>3. QueueOK'
      BY <2>1, <3>1 DEF Healthy, QueueOK
    <3> QED
      BY <3>2, <3>3 DEF Healthy
  <2> QED
    BY <1>2, <2>1, <2>2 DEF RenderInv
<1>5. CASE Next
  <2>1. fault = "none" /\ Healthy
    BY <1>5 DEF Next, RenderInv
  <2>2. CASE rendererModelAdd \/ rendererFrameDone \/ rendererDestroy \/ EndPush \/ Join
    BY <1>2, <2>1, <2>2, MainStep DEF RenderInv
  <2>3. CASE Create \/ Pop \/ Fetch
    <3>1. recording' = recording /\ live' = live
      BY <2>3 DEF Create, Pop, Fetch, caches, frames
    <3>2. fault' = "none" => Healthy'
      BY <2>1, <2>3, TakeStep
    <3> QED
      BY <1>2, <3>1, <3>2 DEF RenderInv
  <2>4. CASE DrawModel
    BY <1>3, <2>1, <2>4, DrawStep DEF RenderInv
  <2>5. CASE FetchWild \/ DrawWild \/ DrawFails \/ DrawAgain \/ FrameFails \/ ReadsPast
    <3>1. recording' = recording /\ live' = live /\ fault' # "none"
      BY <2>5 DEF FetchWild, DrawWild, DrawFails, DrawAgain, FrameFails, ReadsPast, caches, frames
    <3> QED
      BY <1>2, <3>1 DEF RenderInv
  <2>6. CASE FrameComplete
    BY <1>3, <2>1, <2>6, CompleteStep DEF RenderInv
  <2>7. CASE Drain
    <3>1. recording' = recording /\ pending' = << >> /\ (fault' = "none" => Healthy')
      BY <2>1, <2>7, DrainStep
    <3>2. 1 .. Len(pending') = {}
      BY <3>1
    <3> QED
      BY <1>2, <3>1, <3>2 DEF RenderInv
  <2>8. CASE GpuCompletes
    BY <1>2, <2>1, <2>8, GpuStep DEF RenderInv
  <2> QED
    BY <1>5, <2>2, <2>3, <2>4, <2>5, <2>6, <2>7, <2>8 DEF Next, Render
<1> QED
  BY <1>4, <1>5

(* The invariant holds in every state. *)
THEOREM Inductive == Spec => []RenderInv
<1>1. RenderInv /\ [Next]_vars => RenderInv'
  BY RenderStep
<1> QED
  BY <1>1, RenderInit, PTL DEF Spec

(* A draw uses the pipeline, mesh and instance of its own model, whatever was bound *)
(* before it (renderer.c 150-157: binding is skipped when it seems done already).    *)
THEOREM BoundWanted == Spec => []BoundAsWanted
<1>1. RenderInv => BoundAsWanted
  BY DEF RenderInv
<1> QED
  BY <1>1, Inductive, PTL

(* The three caches hold exactly the GPU objects that exist, each in one entry of   *)
(* one key, and the thread leaves none (rendererDestroyStaleData, renderer.c 264).   *)
THEOREM CachesOwn == Spec => []CachesOwnLive
<1>1. RenderInv => CachesOwnLive
  <2> SUFFICES ASSUME RenderInv, fault = "none"
               PROVE  /\ live = Objects(instances) \cup Objects(meshes) \cup Objects(shaders)
                      /\ \A c \in {instances, meshes, shaders} : \A x, y \in Used(c) : x # y =>
                           c.slot[x].info # c.slot[y].info /\ c.slot[x].obj # c.slot[y].obj
                      /\ rpc = "gone" => live = {}
    BY DEF CachesOwnLive
  <2>1. CachesOK
    BY DEF RenderInv, Healthy
  <2>2. ASSUME NEW c, NEW kind, NEW keys, CacheOK(c, kind, keys, frame_counter)
        PROVE  \A x, y \in Used(c) : x # y =>
                 c.slot[x].info # c.slot[y].info /\ c.slot[x].obj # c.slot[y].obj
    <3>1. \A x, y \in Used(c) : c.slot[x].info = c.slot[y].info => x = y
      BY <2>2 DEF CacheOK
    <3> QED
      BY <2>2, <3>1, OneEntry
  <2> QED
    BY <2>1, <2>2 DEF CachesOK
<1> QED
  BY <1>1, Inductive, PTL

(* Until the GPU is done with a submission, its command buffer is not begun anew and     *)
(* nothing later gets into its uniform buffers, except for that of gpu_frame_count       *)
(* frames ago (gpu.c 638-734).                                                           *)
THEOREM Intact == Spec => []PendingIntact
<1>1. RenderInv => PendingIntact
  BY DEF RenderInv, Healthy, BuffersKept, PendingIntact
<1> QED
  BY <1>1, Inductive, PTL

(* No step destroys an object that a submission in flight uses: the age test of  *)
(* renderer.c 266 and the fence of gpuEndFrameUpdate together are enough.        *)
THEOREM Idle == Spec => ReclaimedIdle
<1>1. RenderInv /\ [Next]_vars =>
        [\A o \in live \ live' : \A n \in 1 .. Len(pending') : o \notin pending'[n].uses]_vars
  BY RenderStep
<1> QED
  BY <1>1, Inductive, PTL DEF Spec, ReclaimedIdle
=============================================================================
