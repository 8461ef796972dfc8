-------------------------- MODULE StructureProofs --------------------------
(***************************************************************************)
(* The data structures: the lock-free ring and the timer heap of expire.c, *)
(* the array, the hash table and the skip list, each for every size, the   *)
(* tables of the chat commands, and the memory pool.                       *)
(*                                                                         *)
(* Ring: a full or empty test that passed stays valid until the index is   *)
(* stored, since the other thread only moves in the favourable direction.  *)
(*                                                                         *)
(* Heap: HeapSound does not say that no timer is in two places, which is   *)
(* why taking out the root takes out its timer; HeapInv adds this.         *)
(*                                                                         *)
(* Array: ArrayLookup does not say that no key is in two cells, and a      *)
(* second cell with the same key would be found when the first is deleted. *)
(* ArrayInv adds this.                                                     *)
(*                                                                         *)
(* Hash table: HashLookup does not say in which chain a key is, or that    *)
(* the number of slots is INIT_HASH_SLOTS doubled some times.  The first   *)
(* is what a resize must re-establish, the second why halving joins        *)
(* exactly the two chains that doubling had split.  HashInv adds both.     *)
(*                                                                         *)
(* Skip list: ListOf gives each level's pointers for the keys stored.      *)
(* A walk goes up along them, so it stops at the last node before the key  *)
(* (WalkStops), also when it starts where the level above stopped.         *)
(*                                                                         *)
(* Chat tables: the entries of the vector index are those of the questions *)
(* indexed, and the pieces of a keyword's list are those of the ids put    *)
(* under it.  What a loop computes is proved by induction over a set of    *)
(* numbers (AllNat), from the equation its recursive function satisfies.   *)
(*                                                                         *)
(* Memory pool: the properties do not say that a pool carves from a block  *)
(* of its own, and none once that is used up.  PoolInv adds this, and says *)
(* chunk by chunk what ChunksAccounted says of sets (Accounted).           *)
(***************************************************************************)
EXTENDS Mempool, RingQueue, TimerHeap, ArrayTable, HashTable, Records, SkipList,
        NaturalsInduction, FiniteSetTheorems, SequenceTheorems, TLAPS

-----------------------------------------------------------------------------
(* The ring *)

\* Advancing an index modulo the ring loses no information.
LEMMA AfterInjective ==
  \A i, j \in Slots : After(i) \in Slots /\ (After(i) = After(j) => i = j)
BY RingAssumption DEF After, Slots

\* The empty ring satisfies the invariant.
LEMMA InitTypes == RingInit => RingTypeOK /\ TestsStayValid
BY RingAssumption DEF RingInit, RingTypeOK, TestsStayValid, Slots

\* Neither queue_push nor queue_pop invalidates the other's test.
LEMMA StepTypes == RingTypeOK /\ TestsStayValid /\ [RingNext]_ringVars => RingTypeOK' /\ TestsStayValid'
<1> SUFFICES ASSUME RingTypeOK, TestsStayValid, [RingNext]_ringVars
             PROVE  RingTypeOK' /\ TestsStayValid'
  OBVIOUS
<1> USE RingAssumption DEF RingTypeOK, TestsStayValid, producer, consumer
<1>1. ASSUME NEW x \in Items, PushStart(x) PROVE RingTypeOK' /\ TestsStayValid'
  BY <1>1 DEF PushStart, RingFull, After
<1>2. CASE PushWrite
  BY <1>2 DEF PushWrite, After
<1>3. CASE PushPublish
  <2>1. head' \in Slots /\ head' # tail
    BY <1>3, AfterInjective DEF PushPublish
  <2> QED BY <1>3, <2>1 DEF PushPublish
<1>4. CASE PopStart
  BY <1>4 DEF PopStart, After
<1>5. CASE PopRead
  BY <1>5 DEF PopRead, After
<1>6. CASE PopAdvance
  <2>1. tail' \in Slots /\ After(head) # tail'
    BY <1>6, AfterInjective DEF PopAdvance, TailAfterPop
  <2> QED BY <1>6, <2>1 DEF PopAdvance, After
<1>7. CASE UNCHANGED ringVars
  BY <1>7 DEF ringVars, After
<1> QED BY <1>1, <1>2, <1>3, <1>4, <1>5, <1>6, <1>7 DEF RingNext

\* The indices stay inside the ring, and a full or empty test that passed is
\* not invalidated by the other thread.
THEOREM RingInvariant == RingSpec => [](RingTypeOK /\ TestsStayValid)
BY InitTypes, StepTypes, PTL DEF RingSpec

\* The two threads never access one slot at the same time.
THEOREM RaceFree == RingSpec => []NoSlotRace
<1>1. TestsStayValid => NoSlotRace
  BY DEF TestsStayValid, NoSlotRace
<1> QED BY RingInvariant, <1>1, PTL

-----------------------------------------------------------------------------
(* It implements the queue *)

\* How the abstract queue sits in the ring.
ContentsInRing ==
  /\ Count \in 0..(N - 1)
  /\ (Count = 0) <=> (head = tail)
  /\ \A i \in 1..Count : SlotOf(i) \in Slots /\ SlotOf(i) # head
  /\ SlotOf(Count + 1) = head
  /\ Contents \in Seq(Items)
  /\ Len(Contents) = Count
  /\ \A i \in 1..Count : Contents[i] = items[SlotOf(i)]

\* The contents of the ring are a sequence of at most N - 1 items.
LEMMA CountFacts == RingTypeOK => ContentsInRing
<1> SUFFICES ASSUME RingTypeOK PROVE ContentsInRing
  OBVIOUS
<1> USE RingAssumption DEF RingTypeOK, Slots
<1>1. Count \in 0..(N - 1) /\ ((Count = 0) <=> (head = tail))
  BY DEF Count
<1>2. /\ \A i \in 1..Count : SlotOf(i) \in Slots /\ SlotOf(i) # head
      /\ SlotOf(Count + 1) = head
  BY <1>1 DEF Count, SlotOf
<1>3. Contents \in [1..Count -> Items]
  BY <1>2 DEF Contents
<1>4. Contents \in Seq(Items) /\ Len(Contents) = Count
  BY <1>1, <1>3
<1> QED BY <1>1, <1>2, <1>4 DEF Contents, ContentsInRing

\* The empty ring is the empty queue.
LEMMA InitFifo == RingInit => Fifo!Init
<1> SUFFICES ASSUME RingInit PROVE Contents = << >> /\ ret \in Items
  BY DEF Fifo!Init
<1>1. RingTypeOK /\ Len(Contents) = 0 /\ Contents \in Seq(Items)
  <2>1. RingTypeOK
    BY InitTypes
  <2> QED BY <2>1, CountFacts DEF RingInit, ContentsInRing
<1> QED BY <1>1 DEF RingInit

\* Each step of the ring is a push, a pop or no step of the queue.
LEMMA StepFifo ==
  RingTypeOK /\ TestsStayValid /\ [RingNext]_ringVars => [Fifo!Next]_<<Contents, ret>>
<1> SUFFICES ASSUME RingTypeOK, TestsStayValid, [RingNext]_ringVars
             PROVE  [Fifo!Next]_<<Contents, ret>>
  OBVIOUS
<1>0. RingTypeOK'
  BY StepTypes
<1> DEFINE C == Contents
           n == Count
<1>a. /\ n \in 0..(N - 1) /\ C \in Seq(Items) /\ Len(C) = n
      /\ \A i \in 1..n : C[i] = items[SlotOf(i)] /\ SlotOf(i) \in Slots /\ SlotOf(i) # head
      /\ SlotOf(n + 1) = head
  BY CountFacts DEF ContentsInRing
<1>b. /\ C' \in Seq(Items) /\ Len(C') = n' /\ n' \in 0..(N - 1)
      /\ \A i \in 1..n' : C'[i] = items'[SlotOf(i)']
  <2>1. ContentsInRing'
    BY <1>0, CountFacts, PTL
  <2> QED BY <2>1 DEF ContentsInRing
<1>1. CASE (\E x \in Items : PushStart(x)) \/ PopStart \/ PopRead \/ UNCHANGED ringVars
  <2>1. UNCHANGED <<items, head, tail, ret>>
    BY <1>1 DEF PushStart, PopStart, PopRead, ringVars, consumer
  <2> QED BY <2>1 DEF Contents, Count, SlotOf
<1>2. CASE PushWrite
  <2>1. UNCHANGED <<head, tail, ret>> /\ items' = [items EXCEPT ![head] = pval]
    BY <1>2 DEF PushWrite, consumer
  <2>2. n' = n /\ \A i \in 1..n : SlotOf(i)' = SlotOf(i)
    BY <2>1 DEF Count, SlotOf
  <2>3. \A i \in 1..n : items'[SlotOf(i)] = items[SlotOf(i)]
    BY <2>1, <1>a DEF RingTypeOK
  <2>4. Len(C') = Len(C) /\ \A i \in 1..n : C'[i] = C[i]
    BY <1>a, <1>b, <2>2, <2>3
  <2>5. C' = C
    BY <1>a, <1>b, <2>4
  <2> QED BY <2>1, <2>5
<1>3. CASE PushPublish
  <2>1. UNCHANGED <<items, tail, ret>> /\ head' = After(head) /\ head' # tail /\ items[head] = pval
    BY <1>3 DEF PushPublish, consumer, TestsStayValid
  <2>2. n' = n + 1 /\ n < N - 1
    BY <2>1, RingAssumption DEF Count, After, RingTypeOK, Slots
  <2>3. \A i \in 1..(n + 1) : SlotOf(i)' = SlotOf(i)
    BY <2>1 DEF SlotOf
  <2>4. pval \in Items
    BY DEF RingTypeOK
  <2>5. /\ Append(C, pval) \in Seq(Items) /\ Len(Append(C, pval)) = n + 1
        /\ \A i \in 1..n : Append(C, pval)[i] = C[i]
        /\ Append(C, pval)[n + 1] = pval
    BY <1>a, <2>4
  <2>6. \A i \in 1..(n + 1) : C'[i] = Append(C, pval)[i]
    <3> SUFFICES ASSUME NEW i \in 1..(n + 1) PROVE C'[i] = Append(C, pval)[i]
      OBVIOUS
    <3>1. C'[i] = items[SlotOf(i)]
      BY <1>b, <2>1, <2>2, <2>3
    <3>2. CASE i = n + 1
      BY <3>1, <3>2, <1>a, <2>1, <2>5
    <3>3. CASE i \in 1..n
      BY <3>1, <3>3, <1>a, <2>5
    <3> QED BY <3>2, <3>3, <1>a
  <2>7. C' = Append(C, pval)
    BY <1>b, <2>2, <2>5, <2>6
  <2>8. Fifo!Push(pval)
    BY <1>a, <2>1, <2>2, <2>7 DEF Fifo!Push
  <2> QED BY <2>4, <2>8 DEF Fifo!Next
<1>4. CASE PopAdvance
  <2>1. /\ UNCHANGED <<items, head>> /\ tail' = After(tail) /\ ret' = items[tail] /\ head # tail
    BY <1>4 DEF PopAdvance, TailAfterPop, TestsStayValid
  <2>2. n > 0 /\ n' = n - 1
    BY <2>1, <1>a, RingAssumption DEF Count, After, RingTypeOK, Slots
  <2>3. \A i \in 1..(n - 1) : SlotOf(i)' = SlotOf(i + 1)
    BY <2>1, <1>a, RingAssumption DEF SlotOf, After, RingTypeOK, Slots
  <2>4. C # << >> /\ Head(C) = C[1] /\ C[1] = items[tail]
    <3>1. SlotOf(1) = tail
      BY RingAssumption DEF SlotOf, RingTypeOK, Slots
    <3> QED BY <1>a, <2>2, <3>1
  <2>5. Tail(C) \in Seq(Items) /\ Len(Tail(C)) = n - 1 /\ \A i \in 1..(n - 1) : Tail(C)[i] = C[i + 1]
    BY <1>a, <2>2
  <2>6. \A i \in 1..(n - 1) : C'[i] = Tail(C)[i]
    <3> SUFFICES ASSUME NEW i \in 1..(n - 1) PROVE C'[i] = Tail(C)[i]
      OBVIOUS
    <3>1. C'[i] = items[SlotOf(i + 1)]
      BY <1>b, <2>1, <2>2, <2>3
    <3>2. i + 1 \in 1..n
      BY <1>a
    <3>3. C[i + 1] = items[SlotOf(i + 1)]
      BY <1>a, <3>2
    <3> QED BY <3>1, <3>3, <2>5
  <2>7. C' = Tail(C)
    BY <1>b, <2>2, <2>5, <2>6
  <2> QED BY <2>1, <2>4, <2>7 DEF Fifo!Next, Fifo!Pop
<1> QED BY <1>1, <1>2, <1>3, <1>4 DEF RingNext

\* The lock-free ring implements the bounded queue: no interleaving of one
\* producer and one consumer loses, duplicates or reorders an item.
THEOREM RingImplementsFifo == RingSpec => ImplementsFifo
BY InitFifo, StepFifo, RingInvariant, PTL DEF RingSpec, ImplementsFifo, Fifo!Spec

-----------------------------------------------------------------------------
(* The timer heap *)

Places == 0..(size - 1)

HeapTypeOK ==
  /\ size \in Nat /\ data \in [Places -> Timer] /\ nextId \in Nat
  /\ pc \in {"idle", "up", "down"} /\ curr \in Nat
  /\ pc = "up" => curr < size
  /\ pc = "down" => curr = 0 \/ curr < size
  /\ members \subseteq Timer /\ popped \subseteq Timer

\* No timer is in two places, and the next one is new.
OncePerTimer ==
  /\ \A i, j \in Places : data[i] = data[j] => i = j
  /\ \A t \in members : t.id < nextId
  /\ IsFiniteSet(members)

HeapInv == HeapTypeOK /\ OncePerTimer /\ HeapSound

\* A set of naturals that is not empty has a least element.
LEMMA Least ==
  ASSUME NEW S, S \subseteq Nat, S # {}
  PROVE  \E x \in S : \A y \in S : x =< y
<1> DEFINE R == OpToRel(<, Nat)
<1>1. IsWellFoundedOn(R, Nat)  BY NatLessThanWellFounded
<1>2. PICK x \in S : \A y \in S : ~(<<y, x>> \in R)  BY <1>1, WFMin
<1>3. ASSUME NEW y \in S PROVE x =< y
  <2>1. <<y, x>> \in Nat \X Nat  OBVIOUS
  <2>2. ~(y < x)  BY <1>2, <2>1 DEF OpToRel
  <2> QED  BY <2>2
<1> QED  BY <1>3

\* A place is one of the two children of its parent.
LEMMA ParentFacts ==
  ASSUME NEW i \in Nat, i > 0
  PROVE  Parent(i) \in Nat /\ Parent(i) < i /\ (i = 2 * Parent(i) + 1 \/ i = 2 * Parent(i) + 2)
BY DEF Parent

\* The root of a heap is an earliest timer: the first place with an earlier
\* one would have a parent before it.
LEMMA RootEarliest ==
  ASSUME HeapTypeOK, HeapOrdered, pc = "idle", NEW i \in Places
  PROVE  data[0].et <= data[i].et
<1> DEFINE S == {j \in Places : ~(data[0].et <= data[j].et)}
<1>0. ASSUME NEW j \in Places PROVE j \in Nat /\ data[j].et \in Int /\ 0 \in Places
  <2>1. j \in Nat /\ 0 \in Places  BY DEF HeapTypeOK, Places
  <2>2. data[j].et \in Int  BY HeapAssumption DEF HeapTypeOK, Timer
  <2> QED  BY <2>1, <2>2
<1>1. SUFFICES ASSUME S # {} PROVE FALSE  OBVIOUS
<1>2. S \subseteq Nat  BY <1>0
<1>3. PICK j \in S : \A k \in S : j =< k  BY <1>1, <1>2, Least
<1>4. j \in Places /\ j \in Nat /\ ~(data[0].et <= data[j].et)  BY <1>0, <1>3
<1>5. j > 0  BY <1>0, <1>4
<1>6. Parent(j) \in Nat /\ Parent(j) < j  BY <1>4, <1>5, ParentFacts
<1>7. Parent(j) \in Places /\ j \in 1..(size - 1)  BY <1>4, <1>5, <1>6 DEF Places, HeapTypeOK
<1>8. data[Parent(j)].et <= data[j].et  BY <1>7 DEF HeapOrdered
<1>9. Parent(j) \in S
  <2>1. data[0].et \in Int /\ data[j].et \in Int /\ data[Parent(j)].et \in Int  BY <1>0, <1>4, <1>7
  <2>2. ~(data[0].et <= data[Parent(j)].et)  BY <1>4, <1>8, <2>1
  <2> QED  BY <1>7, <2>2
<1> QED  BY <1>3, <1>4, <1>6, <1>9

\* A swap of two places keeps the timers, each once.
LEMMA SwapKeeps ==
  ASSUME HeapTypeOK, OncePerTimer, NoTimerLost, NEW i \in Places, NEW j \in Places, i # j,
         data' = Swapped(i, j), size' = size, members' = members, nextId' = nextId
  PROVE  /\ data' \in [Places -> Timer] /\ OncePerTimer' /\ NoTimerLost'
         /\ data'[i] = data[j] /\ data'[j] = data[i]
         /\ \A k \in Places : k # i /\ k # j => data'[k] = data[k]
<1>1. /\ data' \in [Places -> Timer] /\ data'[i] = data[j] /\ data'[j] = data[i]
      /\ \A k \in Places : k # i /\ k # j => data'[k] = data[k]
  BY DEF HeapTypeOK, Swapped
<1>2. Places' = Places  BY DEF Places
<1>3. OncePerTimer'
  <2>1. \A a, b \in Places : data'[a] = data'[b] => a = b
    <3> TAKE a, b \in Places
    <3> QED  BY <1>1 DEF OncePerTimer
  <2> QED  BY <1>2, <2>1 DEF OncePerTimer
<1>4. NoTimerLost'
  <2>1. {data'[k] : k \in Places} = {data[k] : k \in Places}
    <3>1. ASSUME NEW k \in Places PROVE data'[k] \in {data[a] : a \in Places}
      BY <1>1
    <3>2. ASSUME NEW k \in Places PROVE data[k] \in {data'[a] : a \in Places}
      <4>1. CASE k = i  BY <1>1, <4>1
      <4>2. CASE k = j  BY <1>1, <4>2
      <4>3. CASE k # i /\ k # j  BY <1>1, <4>3
      <4> QED  BY <4>1, <4>2, <4>3
    <3> QED  BY <3>1, <3>2
  <2> QED  BY <1>2, <2>1 DEF NoTimerLost, Places
<1> QED  BY <1>1, <1>3, <1>4

\* heap_push puts the timer at the end, where it may be before its parent.
LEMMA HeapPushStep ==
  ASSUME HeapInv, NEW et \in Expiries, HeapPush(et)
  PROVE  HeapInv'
<1> DEFINE t == [id |-> nextId, et |-> et]
<1>1. /\ HeapTypeOK /\ OncePerTimer /\ HeapOrdered /\ NoTimerLost /\ PopsEarliest
      /\ pc = "idle" /\ size' = size + 1 /\ pc' = "up" /\ curr' = size
      /\ members' = members \cup {t} /\ popped' = {} /\ nextId' = nextId + 1
      /\ data' = [i \in 0..size |-> IF i = size THEN t ELSE data[i]]
  BY DEF HeapPush, HeapInv, HeapSound
<1>2. t \in Timer /\ size \in Nat /\ nextId \in Nat  BY <1>1 DEF Timer, HeapTypeOK
<1>3. Places' = Places \cup {size} /\ size \notin Places /\ Places' = 0..size
  BY <1>1, <1>2 DEF Places
<1>4. data'[size] = t /\ \A i \in Places : data'[i] = data[i] /\ data[i] \in Timer /\ data[i] \in members
  BY <1>1, <1>2, <1>3 DEF HeapTypeOK, NoTimerLost, Places
<1>5. t \notin members
  <2>1. t.id = nextId  OBVIOUS
  <2> QED  BY <1>1, <1>2, <2>1 DEF OncePerTimer
<1> HIDE DEF t
<1>6. HeapTypeOK'
  <2>1. data' \in [Places' -> Timer]  BY <1>1, <1>2, <1>3, <1>4
  <2> QED  BY <1>1, <1>2, <2>1 DEF HeapTypeOK
<1>7. OncePerTimer'
  <2>1. \A i, j \in Places' : data'[i] = data'[j] => i = j  BY <1>1, <1>3, <1>4, <1>5 DEF OncePerTimer
  <2>2. \A m \in members' : m.id < nextId'
    <3>1. t.id = nextId  BY DEF t
    <3>2. \A m \in members : m.id \in Nat /\ m.id < nextId  BY <1>1 DEF OncePerTimer, HeapTypeOK, Timer
    <3> QED  BY <1>1, <1>2, <3>1, <3>2
  <2>3. IsFiniteSet(members')  BY <1>1, FS_AddElement DEF OncePerTimer
  <2> QED  BY <2>1, <2>2, <2>3 DEF OncePerTimer
<1>8. NoTimerLost'
  <2>1. {data'[i] : i \in Places'} = members'
    <3>1. {data[i] : i \in Places} = members  BY <1>1 DEF NoTimerLost, Places
    <3> QED  BY <1>1, <1>3, <1>4, <3>1
  <2>2. Cardinality(members') = Cardinality(members) + 1
    BY <1>1, <1>5, FS_AddElement DEF OncePerTimer
  <2> QED  BY <1>1, <2>1, <2>2 DEF NoTimerLost, Places
<1>9. HeapOrdered'
  <2>1. ASSUME NEW i \in 1..size
        PROVE  /\ i # size => data'[Parent(i)].et <= data'[i].et
               /\ Parent(i) # size
    <3>1. i \in Nat /\ i > 0  BY <1>2
    <3>2. Parent(i) \in Nat /\ Parent(i) < i  BY <3>1, ParentFacts
    <3>3. Parent(i) # size  BY <1>2, <3>2
    <3>4. ASSUME i # size PROVE data'[Parent(i)].et <= data'[i].et
      <4>1. i \in 1..(size - 1) /\ i \in Places /\ Parent(i) \in Places
        BY <1>2, <3>1, <3>2, <3>4 DEF Places
      <4>2. data[Parent(i)].et <= data[i].et  BY <1>1, <4>1 DEF HeapOrdered
      <4> QED  BY <1>4, <4>1, <4>2
    <3> QED  BY <3>3, <3>4
  <2>2. size' - 1 = size  BY <1>1, <1>2
  <2> QED  BY <1>1, <2>1, <2>2 DEF HeapOrdered, Parent
<1>10. PopsEarliest'  BY <1>1 DEF PopsEarliest
<1> QED  BY <1>6, <1>7, <1>8, <1>9, <1>10 DEF HeapInv, HeapSound

\* heap_pop moves the last timer to the root, where it may be after its children.
LEMMA HeapPopStep ==
  ASSUME HeapInv, HeapPop
  PROVE  HeapInv'
<1>1. /\ HeapTypeOK /\ OncePerTimer /\ HeapOrdered /\ NoTimerLost /\ PopsEarliest
      /\ pc = "idle" /\ size > 0 /\ size' = size - 1 /\ pc' = "down" /\ curr' = 0
      /\ members' = members \ {data[0]} /\ popped' = {data[0]} /\ nextId' = nextId
      /\ data' = [i \in 0..(size - 2) |-> IF i = 0 THEN data[size - 1] ELSE data[i]]
  BY DEF HeapPop, HeapInv, HeapSound
<1>2. size \in Nat /\ size' \in Nat  BY <1>1 DEF HeapTypeOK
<1>3. Places' = 0..(size - 2) /\ 0 \in Places /\ size - 1 \in Places /\ Places' \subseteq Places
      /\ size - 1 \notin Places'
  BY <1>1, <1>2 DEF Places
<1> DEFINE From(i) == IF i = 0 THEN size - 1 ELSE i
<1>4. ASSUME NEW i \in Places'
      PROVE  From(i) \in Places /\ From(i) # 0 /\ data'[i] = data[From(i)]
  BY <1>1, <1>2, <1>3
<1>5. /\ \A i \in Places : data[i] \in Timer
      /\ \A i \in Places' : i # 0 => data'[i] = data[i]
  BY <1>1, <1>4 DEF HeapTypeOK
<1>6. {data[i] : i \in Places} = members  BY <1>1 DEF NoTimerLost, Places
<1>7. HeapTypeOK'
  <2>1. data' \in [Places' -> Timer]  BY <1>1, <1>3, <1>4, <1>5
  <2>2. members' \subseteq Timer /\ popped' \subseteq Timer  BY <1>1, <1>3, <1>5 DEF HeapTypeOK
  <2>3. nextId' \in Nat  BY <1>1 DEF HeapTypeOK
  <2> QED  BY <1>1, <1>2, <2>1, <2>2, <2>3 DEF HeapTypeOK
<1>8. \A i, j \in Places' : From(i) = From(j) => i = j  BY <1>3
<1>9. OncePerTimer'
  <2>1. \A i, j \in Places' : data'[i] = data'[j] => i = j
    <3> HIDE DEF From
    <3> QED  BY <1>1, <1>4, <1>8 DEF OncePerTimer
  <2>2. IsFiniteSet(members')  BY <1>1, FS_RemoveElement DEF OncePerTimer
  <2> QED  BY <1>1, <2>1, <2>2 DEF OncePerTimer
<1>10. NoTimerLost'
  <2>1. ASSUME NEW i \in Places' PROVE data'[i] \in members'
    <3> HIDE DEF From
    <3>1. data[From(i)] # data[0]  BY <1>1, <1>3, <1>4 DEF OncePerTimer
    <3> QED  BY <1>1, <1>4, <1>6, <3>1
  <2>2. ASSUME NEW m \in members' PROVE m \in {data'[i] : i \in Places'}
    <3>1. PICK i \in Places : data[i] = m  BY <1>1, <1>6
    <3>2. i # 0  BY <1>1, <3>1
    <3>3. CASE i = size - 1
      <4>1. i \in 0..(size - 1)  BY <3>1 DEF Places
      <4>2. 0 \in Places' /\ From(0) = size - 1  BY <1>2, <1>3, <3>2, <3>3, <4>1
      <4> HIDE DEF From
      <4>3. data'[0] = m  BY <1>4, <3>1, <3>3, <4>2
      <4> QED  BY <4>2, <4>3
    <3>4. CASE i # size - 1
      <4>1. i \in 0..(size - 1)  BY <3>1 DEF Places
      <4>2. i \in Places' /\ From(i) = i  BY <1>2, <1>3, <3>2, <3>4, <4>1
      <4> HIDE DEF From
      <4>3. data'[i] = m  BY <1>4, <3>1, <4>2
      <4> QED  BY <4>2, <4>3
    <3> QED  BY <3>3, <3>4
  <2>3. {data'[i] : i \in Places'} = members'  BY <2>1, <2>2
  <2>4. data[0] \in members  BY <1>3, <1>6
  <2>5. Cardinality(members') = Cardinality(members) - 1
    BY <1>1, <2>4, FS_RemoveElement DEF OncePerTimer
  <2> QED  BY <1>1, <2>3, <2>5 DEF NoTimerLost, Places
<1>11. HeapOrdered'
  <2>1. ASSUME NEW i \in 1..(size' - 1), Parent(i) # 0 PROVE data'[Parent(i)].et <= data'[i].et
    <3>1. i \in Nat /\ i > 0  BY <1>2
    <3>2. Parent(i) \in Nat /\ Parent(i) < i  BY <3>1, ParentFacts
    <3>3. i \in 1..(size - 1) /\ i \in Places' /\ Parent(i) \in Places'
      BY <1>1, <1>2, <1>3, <3>1, <3>2
    <3>4. data[Parent(i)].et <= data[i].et  BY <1>1, <3>3 DEF HeapOrdered
    <3>5. data'[i] = data[i] /\ data'[Parent(i)] = data[Parent(i)]
      <4>1. i # 0  BY <3>1
      <4> QED  BY <1>5, <2>1, <3>3, <4>1
    <3> QED  BY <3>4, <3>5
  <2> QED  BY <1>1, <2>1 DEF HeapOrdered, Parent
<1>12. PopsEarliest'
  <2>1. \A i \in Places : data[0].et <= data[i].et  BY <1>1, RootEarliest
  <2> QED  BY <1>1, <1>6, <2>1 DEF PopsEarliest
<1> QED  BY <1>7, <1>9, <1>10, <1>11, <1>12 DEF HeapInv, HeapSound

\* One iteration of the loop of heap_push.
LEMMA SiftUpStep ==
  ASSUME HeapInv, SiftUp
  PROVE  HeapInv'
<1>1. /\ HeapTypeOK /\ OncePerTimer /\ HeapOrdered /\ NoTimerLost /\ PopsEarliest
      /\ pc = "up" /\ size' = size /\ members' = members /\ popped' = popped /\ nextId' = nextId
  BY DEF SiftUp, HeapInv, HeapSound
<1>2. size \in Nat /\ curr \in Places /\ curr \in Nat  BY <1>1 DEF HeapTypeOK, Places
<1>3. Places' = Places  BY <1>1 DEF Places
<1>4. PopsEarliest'  BY <1>1 DEF PopsEarliest
<1>5. ASSUME NEW i \in Places PROVE data[i].et \in Int
  BY <1>1, HeapAssumption DEF HeapTypeOK, Timer
<1>6. CASE SiftUpDone
  <2>1. pc' = "idle" /\ curr' = 0 /\ data' = data  BY <1>6 DEF SiftUp
  <2>2. HeapTypeOK' /\ OncePerTimer' /\ NoTimerLost'
    BY <1>1, <1>3, <2>1 DEF HeapTypeOK, OncePerTimer, NoTimerLost
  <2>3. ASSUME NEW i \in 1..(size - 1) PROVE data[Parent(i)].et <= data[i].et
    <3>1. CASE i # curr  BY <1>1, <3>1 DEF HeapOrdered
    <3>2. CASE i = curr
      <4>1. Parent(i) \in Nat /\ Parent(i) < i  BY <1>2, <3>2, ParentFacts
      <4>2. i \in Places /\ Parent(i) \in Places  BY <1>2, <4>1 DEF Places
      <4> QED  BY <1>5, <1>6, <3>2, <4>2 DEF SiftUpDone
    <3> QED  BY <3>1, <3>2
  <2>4. HeapOrdered'  BY <1>1, <2>1, <2>3 DEF HeapOrdered, Parent
  <2> QED  BY <1>4, <2>2, <2>4 DEF HeapInv, HeapSound
<1>7. CASE ~SiftUpDone
  <2> DEFINE p == Parent(curr)
  <2>1. /\ data' = Swapped(curr, p) /\ curr' = p /\ pc' = "up" /\ curr > 0
        /\ ~(data[curr].et >= data[p].et)
    BY <1>1, <1>2, <1>7 DEF SiftUp, SiftUpDone
  <2>2. p \in Nat /\ p < curr  BY <1>2, <2>1, ParentFacts
  <2>3. p \in Places  BY <1>2, <2>2 DEF Places
  <2>4. /\ data' \in [Places -> Timer] /\ OncePerTimer' /\ NoTimerLost'
        /\ data'[curr] = data[p] /\ data'[p] = data[curr]
        /\ \A k \in Places : k # curr /\ k # p => data'[k] = data[k]
    BY <1>1, <1>2, <2>1, <2>2, <2>3, SwapKeeps
  <2>5. data[curr].et < data[p].et /\ data[curr].et \in Int /\ data[p].et \in Int
    <3> HIDE DEF p
    <3>1. data[curr].et \in Int /\ data[p].et \in Int  BY <1>2, <1>5, <2>3
    <3> QED  BY <2>1, <3>1
  <2>6. HeapTypeOK'  BY <1>1, <1>2, <1>3, <2>1, <2>2, <2>4 DEF HeapTypeOK
  <2>7. ASSUME NEW i \in 1..(size - 1)
        PROVE  /\ i \in Nat /\ i \in Places /\ Parent(i) \in Nat /\ Parent(i) \in Places /\ Parent(i) < i
               /\ i # curr => data[Parent(i)].et <= data[i].et
               /\ Parent(i) = curr => data[p].et <= data[i].et
    <3>1. i \in Nat /\ i > 0  OBVIOUS
    <3>2. Parent(i) \in Nat /\ Parent(i) < i  BY <3>1, ParentFacts
    <3>3. i \in Places /\ Parent(i) \in Places  BY <1>2, <3>1, <3>2 DEF Places
    <3> QED  BY <1>1, <2>1, <3>1, <3>2, <3>3 DEF HeapOrdered
  <2>8. curr \in 1..(size - 1)  BY <1>2, <2>1 DEF Places
  <2>9. p > 0 => p \in 1..(size - 1) /\ Parent(p) \in Places /\ Parent(p) # p /\ Parent(p) # curr
                 /\ data[Parent(p)].et <= data[p].et
    <3>1. SUFFICES ASSUME p > 0 PROVE p \in 1..(size - 1)  BY <2>2, <2>7
    <3> QED  BY <1>2, <2>2, <2>3, <3>1 DEF Places
  <2>10. HeapOrdered'
    <3>1. ASSUME NEW i \in 1..(size - 1), i # p PROVE data'[Parent(i)].et <= data'[i].et
      <4> HIDE DEF p
      <4>0. data[i].et \in Int /\ data[Parent(i)].et \in Int  BY <1>5, <2>7
      <4>1. CASE i = curr  BY <2>4, <2>5, <4>1 DEF p
      <4>2. CASE i # curr /\ Parent(i) = p
        <5>1. data'[i] = data[i] /\ data[p].et <= data[i].et  BY <2>4, <2>7, <3>1, <4>2
        <5> QED  BY <2>4, <2>5, <4>0, <4>2, <5>1
      <4>3. CASE i # curr /\ Parent(i) = curr
        <5>1. data'[i] = data[i] /\ data[p].et <= data[i].et  BY <2>4, <2>7, <3>1, <4>3
        <5> QED  BY <2>4, <4>3, <5>1
      <4>4. CASE i # curr /\ Parent(i) # p /\ Parent(i) # curr
        BY <2>4, <2>7, <3>1, <4>4
      <4> QED  BY <4>1, <4>2, <4>3, <4>4
    <3>2. ASSUME NEW i \in 1..(size - 1), p > 0, Parent(i) = p PROVE data'[Parent(p)].et <= data'[i].et
      <4>1. data'[Parent(p)] = data[Parent(p)] /\ data[Parent(p)].et \in Int  BY <1>5, <2>4, <2>9, <3>2
      <4>2. CASE i = curr  BY <2>4, <2>9, <3>2, <4>1, <4>2
      <4>3. CASE i # curr
        <5>1. data'[i] = data[i] /\ data[p].et <= data[i].et /\ data[i].et \in Int
          BY <1>5, <2>4, <2>7, <3>2, <4>3
        <5> QED  BY <2>5, <2>9, <3>2, <4>1, <5>1
      <4> QED  BY <4>2, <4>3
    <3> QED  BY <1>1, <2>1, <3>1, <3>2 DEF HeapOrdered, Parent
  <2> QED  BY <1>4, <2>4, <2>6, <2>10 DEF HeapInv, HeapSound
<1> QED  BY <1>6, <1>7

\* What Smallest returns: an earliest of a node and its children.
LEMMA SmallestFacts ==
  ASSUME HeapTypeOK, NEW c \in Places, NEW s, s = Smallest(c)
  PROVE  /\ s \in Places /\ (s # c => s \in 1..(size - 1) /\ Parent(s) = c)
         /\ \A i \in 1..(size - 1) : Parent(i) = c => data[s].et <= data[i].et
         /\ data[s].et <= data[c].et
         /\ s # c => data[s].et < data[c].et
<1> DEFINE l == 2 * c + 1
           r == 2 * c + 2
           m == IF l < size /\ data[l].et < data[c].et THEN l ELSE c
<1>1. size \in Nat /\ c \in Nat /\ c < size /\ l \in Nat /\ r \in Nat  BY DEF HeapTypeOK, Places
<1>2. ASSUME NEW i \in Places PROVE data[i].et \in Int
  BY HeapAssumption DEF HeapTypeOK, Timer
<1>3. s = IF r < size /\ data[r].et < data[m].et THEN r ELSE m  BY DEF Smallest
<1>4. (l < size => l \in Places) /\ (r < size => r \in Places)  BY <1>1 DEF Places
<1>5. Parent(l) = c /\ Parent(r) = c  BY <1>1 DEF Parent
<1>6. ASSUME NEW i \in 1..(size - 1), Parent(i) = c PROVE i \in Places /\ (i = l \/ i = r)
  <2>1. i \in Nat /\ i > 0  OBVIOUS
  <2> QED  BY <1>1, <1>6, <2>1, ParentFacts DEF Places
<1>7. (l < size => l \in 1..(size - 1)) /\ (r < size => r \in 1..(size - 1)) /\ l # c /\ r # c  BY <1>1
<1> HIDE DEF l, r
<1>8. m \in Places /\ data[m].et <= data[c].et /\ (m # c => data[m].et < data[c].et)
      /\ (l < size => data[m].et <= data[l].et) /\ (m = c \/ (m = l /\ l < size))
  BY <1>1, <1>2, <1>4, <1>7
<1> HIDE DEF m
<1>9. s \in Places /\ data[s].et <= data[c].et /\ (s # c => data[s].et < data[c].et)
      /\ (l < size => data[s].et <= data[l].et) /\ (r < size => data[s].et <= data[r].et)
      /\ (s = c \/ (s = l /\ l < size) \/ (s = r /\ r < size))
  <2>1. CASE r < size /\ data[r].et < data[m].et
    <3>1. s = r /\ r \in Places  BY <1>3, <1>4, <2>1
    <3>2. data[r].et \in Int /\ data[m].et \in Int /\ data[c].et \in Int  BY <1>2, <1>8, <3>1
    <3>3. l < size => data[l].et \in Int  BY <1>2, <1>4
    <3> QED  BY <1>8, <2>1, <3>1, <3>2, <3>3
  <2>2. CASE ~(r < size /\ data[r].et < data[m].et)
    <3>1. s = m  BY <1>3, <2>2
    <3>2. r < size => data[r].et \in Int  BY <1>2, <1>4
    <3>3. data[m].et \in Int  BY <1>2, <1>8
    <3> QED  BY <1>8, <2>2, <3>1, <3>2, <3>3
  <2> QED  BY <2>1, <2>2
<1>10. ASSUME NEW i \in 1..(size - 1), Parent(i) = c PROVE data[s].et <= data[i].et
  <2>1. i < size /\ (i = l \/ i = r)  BY <1>1, <1>6, <1>10
  <2> QED  BY <1>9, <2>1
<1> QED  BY <1>5, <1>7, <1>9, <1>10

\* One iteration of the loop of heap_pop.
LEMMA SiftDownStep ==
  ASSUME HeapInv, SiftDown
  PROVE  HeapInv'
<1> DEFINE s == Smallest(curr)
<1>1. /\ HeapTypeOK /\ OncePerTimer /\ HeapOrdered /\ NoTimerLost /\ PopsEarliest
      /\ pc = "down" /\ size' = size /\ members' = members /\ popped' = popped /\ nextId' = nextId
  BY DEF SiftDown, HeapInv, HeapSound
<1>2. size \in Nat /\ curr \in Nat /\ (curr \in Places \/ size = 0)  BY <1>1 DEF HeapTypeOK, Places
<1>3. Places' = Places  BY <1>1 DEF Places
<1>4. PopsEarliest'  BY <1>1 DEF PopsEarliest
<1>5. ASSUME NEW i \in Places PROVE data[i].et \in Int
  BY <1>1, HeapAssumption DEF HeapTypeOK, Timer
<1>6. CASE s = curr
  <2>1. pc' = "idle" /\ curr' = 0 /\ data' = data  BY <1>6 DEF SiftDown
  <2>2. HeapTypeOK' /\ OncePerTimer' /\ NoTimerLost'
    BY <1>1, <1>3, <2>1 DEF HeapTypeOK, OncePerTimer, NoTimerLost
  <2>3. ASSUME NEW i \in 1..(size - 1) PROVE data[Parent(i)].et <= data[i].et
    <3>1. CASE Parent(i) # curr  BY <1>1, <3>1 DEF HeapOrdered
    <3>2. CASE Parent(i) = curr
      <4>1. curr \in Places  BY <1>2
      <4> HIDE DEF s
      <4> QED  BY <1>1, <1>6, <3>2, <4>1, SmallestFacts DEF s
    <3> QED  BY <3>1, <3>2
  <2>4. HeapOrdered'  BY <1>1, <2>1, <2>3 DEF HeapOrdered, Parent
  <2> QED  BY <1>4, <2>2, <2>4 DEF HeapInv, HeapSound
<1>7. CASE s # curr
  <2>1. data' = Swapped(curr, s) /\ curr' = s /\ pc' = "down"  BY <1>1, <1>7 DEF SiftDown
  <2>2. curr \in Places
    <3>1. size = 0 => s = curr  BY <1>2 DEF Smallest
    <3> QED  BY <1>2, <1>7, <3>1
  <2>3. /\ s \in Places /\ s \in 1..(size - 1) /\ Parent(s) = curr
        /\ \A i \in 1..(size - 1) : Parent(i) = curr => data[s].et <= data[i].et
        /\ data[s].et < data[curr].et
    BY <1>1, <1>7, <2>2, SmallestFacts
  <2> HIDE DEF s
  <2>4. /\ data' \in [Places -> Timer] /\ OncePerTimer' /\ NoTimerLost'
        /\ data'[curr] = data[s] /\ data'[s] = data[curr]
        /\ \A k \in Places : k # curr /\ k # s => data'[k] = data[k]
    BY <1>1, <1>7, <2>1, <2>2, <2>3, SwapKeeps
  <2>5. s \in Nat /\ s > 0 /\ s < size /\ curr < s
    <3>1. s \in Nat /\ s > 0 /\ s < size  BY <1>2, <2>3
    <3> QED  BY <2>3, <3>1, ParentFacts
  <2>6. HeapTypeOK'  BY <1>1, <1>2, <1>3, <2>1, <2>4, <2>5 DEF HeapTypeOK
  <2>7. ASSUME NEW i \in 1..(size - 1)
        PROVE  /\ i \in Nat /\ i \in Places /\ Parent(i) \in Nat /\ Parent(i) \in Places /\ Parent(i) < i
               /\ Parent(i) # curr => data[Parent(i)].et <= data[i].et
               /\ (curr > 0 /\ Parent(i) = curr) => data[Parent(curr)].et <= data[i].et
    <3>1. i \in Nat /\ i > 0  OBVIOUS
    <3>2. Parent(i) \in Nat /\ Parent(i) < i  BY <3>1, ParentFacts
    <3>3. i \in Places /\ Parent(i) \in Places  BY <1>2, <3>1, <3>2 DEF Places
    <3> QED  BY <1>1, <3>1, <3>2, <3>3 DEF HeapOrdered
  <2>8. HeapOrdered'
    <3>1. ASSUME NEW i \in 1..(size - 1), Parent(i) # s PROVE data'[Parent(i)].et <= data'[i].et
      <4>0. data[i].et \in Int /\ data[s].et \in Int /\ data[curr].et \in Int
        BY <1>5, <2>2, <2>3, <2>7
      <4>1. CASE i = s  BY <2>3, <2>4, <4>0, <4>1
      <4>2. CASE i # s /\ Parent(i) = curr
        <5>1. data'[i] = data[i]  BY <2>4, <2>7, <4>2
        <5> QED  BY <2>3, <2>4, <4>2, <5>1
      <4>3. CASE i = curr
        <5>1. Parent(curr) # curr /\ Parent(curr) # s /\ curr > 0 /\ Parent(curr) \in Places
          BY <1>2, <2>5, <2>7, <4>3
        <5>2. data'[Parent(curr)] = data[Parent(curr)]  BY <2>4, <5>1
        <5>3. data[Parent(curr)].et <= data[s].et  BY <2>3, <2>7, <5>1
        <5> QED  BY <2>4, <4>3, <5>2, <5>3
      <4>4. CASE i # s /\ i # curr /\ Parent(i) # curr  BY <2>4, <2>7, <3>1, <4>4
      <4> QED  BY <4>1, <4>2, <4>3, <4>4
    <3>2. ASSUME NEW i \in 1..(size - 1), Parent(i) = s PROVE data'[Parent(s)].et <= data'[i].et
      <4>1. i # s /\ i # curr /\ Parent(i) # curr  BY <1>7, <2>5, <2>7, <3>2
      <4>2. data'[i] = data[i] /\ data[s].et <= data[i].et  BY <2>4, <2>7, <3>2, <4>1
      <4> QED  BY <2>3, <2>4, <4>2
    <3> QED  BY <1>1, <2>1, <3>1, <3>2 DEF HeapOrdered, Parent
  <2> QED  BY <1>4, <2>4, <2>6, <2>8 DEF HeapInv, HeapSound
<1> QED  BY <1>6, <1>7

\* An empty heap is in order.
LEMMA HeapInvInit == HeapInit => HeapInv
<1> SUFFICES ASSUME HeapInit PROVE HeapInv  OBVIOUS
<1>1. /\ data = [i \in {} |-> 0] /\ size = 0 /\ pc = "idle" /\ curr = 0 /\ members = {} /\ popped = {}
      /\ nextId = 1
  BY DEF HeapInit
<1>2. Places = {} /\ 1..(size - 1) = {}  BY <1>1 DEF Places
<1>3. HeapTypeOK  BY <1>1, <1>2 DEF HeapTypeOK
<1>4. IsFiniteSet(members) /\ Cardinality(members) = 0  BY <1>1, FS_EmptySet
<1>5. OncePerTimer  BY <1>1, <1>2, <1>4 DEF OncePerTimer
<1>6. HeapSound
  <2>1. {data[i] : i \in Places} = {}  BY <1>2
  <2>2. NoTimerLost  BY <1>1, <1>4, <2>1 DEF NoTimerLost, Places
  <2> QED  BY <1>1, <1>2, <2>2 DEF HeapSound, HeapOrdered, PopsEarliest
<1> QED  BY <1>3, <1>5, <1>6 DEF HeapInv

\* Every step keeps the heap sound.
LEMMA HeapInvStep == HeapInv /\ [HeapNext]_heapVars => HeapInv'
<1> SUFFICES ASSUME HeapInv, [HeapNext]_heapVars PROVE HeapInv'  OBVIOUS
<1>1. CASE HeapNext  BY <1>1, HeapPushStep, HeapPopStep, SiftUpStep, SiftDownStep DEF HeapNext
<1>2. CASE UNCHANGED heapVars
  BY <1>2 DEF heapVars, HeapInv, HeapTypeOK, OncePerTimer, HeapSound, HeapOrdered, NoTimerLost,
              PopsEarliest, Places, Parent
<1> QED  BY <1>1, <1>2

\* At every step of heap_push and heap_pop the array holds the timers pushed
\* and not popped, each once, only the timer being sifted is out of order, and
\* what heap_pop returns is no later than what stays, for heaps of every size.
THEOREM HeapCorrect == HeapSpec => []HeapSound
<1>1. HeapInv => HeapSound  BY DEF HeapInv
<1> QED  BY HeapInvInit, HeapInvStep, <1>1, PTL DEF HeapSpec

-----------------------------------------------------------------------------
(* The array *)

Cell == [key : Nat, value : Nat]
Indices == 0..(ArraySize - 1)
Used == 0..(len - 1)

ArrayTypeOK ==
  /\ cells \in [Indices -> Cell] /\ len \in 0..ArraySize
  /\ arrayDict \in [CellKeys -> Nat \cup {Absent}]

\* The cells in use have keys, no two the same.
KeysDistinct ==
  \A i \in Used : /\ cells[i].key \in CellKeys
                  /\ \A j \in Used : cells[i].key = cells[j].key => i = j

PastClear == \A i \in len..(ArraySize - 1) : cells[i] = Clear

\* Every cell in use is of a stored key, and every stored key has a cell.
DictOK ==
  /\ \A i \in Used : arrayDict[cells[i].key] = cells[i].value
  /\ \A k \in CellKeys : arrayDict[k] # Absent => \E i \in Used : cells[i].key = k

StoredCells == {k \in CellKeys : arrayDict[k] # Absent}
CountOK == IsFiniteSet(StoredCells) /\ len = Cardinality(StoredCells)

ArrayInv == ArrayTypeOK /\ KeysDistinct /\ PastClear /\ DictOK /\ CountOK

\* The types of keys, values and cells.
LEMMA ArrayTypes ==
  /\ NoKey \in Nat /\ NoValue \in Nat /\ Absent \notin Nat /\ Clear \in Cell /\ ArraySize \in Nat
  /\ CellKeys \subseteq Nat /\ CellValues \subseteq Nat
BY ArrayAssumption DEF NoKey, NoValue, Absent, Clear, Cell

\* The search finds the one cell of a key.
LEMMA FindsCell ==
  ASSUME KeysDistinct, NEW i \in Used
  PROVE  Matches(cells[i].key) = {i} /\ FindKeyIndex(cells[i].key) = i
<1>1. Matches(cells[i].key) = {i}  BY DEF KeysDistinct, Matches, Used
<1>2. FindKeyIndex(cells[i].key) = i
  <2>1. i \in Int  BY DEF Used
  <2> QED  BY <1>1, <2>1 DEF FindKeyIndex
<1> QED  BY <1>1, <1>2

\* A search that finds a key finds its cell.
LEMMA FoundCell ==
  ASSUME KeysDistinct, NEW k, Matches(k) # {}
  PROVE  FindKeyIndex(k) \in Used /\ cells[FindKeyIndex(k)].key = k
<1>1. PICK i \in Used : cells[i].key = k  BY DEF Matches, Used
<1>2. FindKeyIndex(k) = i  BY <1>1, FindsCell
<1> QED  BY <1>1, <1>2

\* The value of the key in cell i changes.
LEMMA ValueChanges ==
  ASSUME ArrayInv, NEW i \in Used, NEW v \in Nat,
         cells' = [cells EXCEPT ![i].value = v],
         arrayDict' = [arrayDict EXCEPT ![cells[i].key] = v], len' = len
  PROVE  ArrayInv'
<1> USE DEF ArrayInv
<1>1. Used' = Used /\ i \in Indices /\ Used \subseteq Indices
  BY ArrayTypes DEF Used, Indices, ArrayTypeOK
<1>2. cells[i] \in Cell /\ cells[i].key \in CellKeys  BY <1>1 DEF ArrayTypeOK, KeysDistinct
<1>3. /\ cells'[i].key = cells[i].key /\ cells'[i].value = v /\ cells'[i] \in Cell
      /\ \A j \in Indices : j # i => cells'[j] = cells[j]
  BY <1>1, <1>2 DEF ArrayTypeOK, Cell
<1>4. \A j \in Indices : cells'[j].key = cells[j].key /\ cells'[j] \in Cell
  BY <1>3 DEF ArrayTypeOK
<1>5. arrayDict'[cells[i].key] = v /\ \A k \in CellKeys : k # cells[i].key => arrayDict'[k] = arrayDict[k]
  BY <1>2 DEF ArrayTypeOK
<1>6. ArrayTypeOK'  BY <1>4 DEF ArrayTypeOK
<1>7. KeysDistinct'  BY <1>1, <1>4 DEF KeysDistinct
<1>8. PastClear'
  <2>1. ASSUME NEW j \in len..(ArraySize - 1) PROVE cells'[j] = Clear
    <3>1. j \in Indices /\ j # i  BY ArrayTypes DEF Used, Indices, ArrayTypeOK
    <3> QED  BY <1>3, <3>1 DEF PastClear
  <2> QED  BY <2>1 DEF PastClear
<1>9. DictOK'
  <2>1. ASSUME NEW j \in Used PROVE arrayDict'[cells'[j].key] = cells'[j].value
    <3>1. CASE j = i  BY <1>3, <1>5, <3>1
    <3>2. CASE j # i
      <4>1. cells'[j] = cells[j] /\ cells[j].key # cells[i].key /\ cells[j].key \in CellKeys
        BY <1>1, <1>3, <3>2 DEF KeysDistinct
      <4> QED  BY <1>5, <4>1 DEF DictOK
    <3> QED  BY <3>1, <3>2
  <2>2. ASSUME NEW k \in CellKeys, arrayDict'[k] # Absent PROVE \E j \in Used : cells'[j].key = k
    <3>1. CASE k = cells[i].key  BY <1>3, <3>1
    <3>2. CASE k # cells[i].key  BY <1>1, <1>4, <1>5, <2>2, <3>2 DEF DictOK
    <3> QED  BY <3>1, <3>2
  <2> QED  BY <1>1, <2>1, <2>2 DEF DictOK
<1>10. CountOK'
  <2>1. arrayDict[cells[i].key] # Absent /\ arrayDict'[cells[i].key] # Absent
    BY <1>1, <1>2, <1>5, ArrayTypes DEF DictOK, Cell
  <2>2. StoredCells' = StoredCells  BY <1>5, <2>1 DEF StoredCells
  <2> QED  BY <2>2 DEF CountOK
<1> QED  BY <1>6, <1>7, <1>8, <1>9, <1>10

\* kvs_array_set of a new key uses the first cell past the end.
LEMMA ArrayAddStep ==
  ASSUME ArrayInv, NEW k \in CellKeys, NEW v \in CellValues, ArrayAdd(k, v)
  PROVE  ArrayInv'
<1> USE DEF ArrayInv
<1>1. /\ Matches(k) = {} /\ len < ArraySize /\ len' = len + 1 /\ len \in Nat
      /\ cells' = [cells EXCEPT ![len] = [key |-> k, value |-> v]]
      /\ arrayDict' = [arrayDict EXCEPT ![k] = v]
  BY ArrayTypes DEF ArrayAdd, ArrayFull, ArrayTypeOK
<1>2. Used' = Used \cup {len} /\ len \notin Used /\ len \in Indices /\ Used \subseteq Indices
  BY <1>1, ArrayTypes DEF Used, Indices
<1>3. /\ cells'[len].key = k /\ cells'[len].value = v /\ cells'[len] \in Cell
      /\ \A j \in Indices : j # len => cells'[j] = cells[j]
  BY <1>1, <1>2, ArrayTypes DEF ArrayTypeOK, Cell
<1>4. \A i \in Used : cells'[i] = cells[i] /\ cells[i].key # k /\ cells[i].key \in CellKeys
  BY <1>1, <1>2, <1>3 DEF Matches, Used, KeysDistinct
<1>5. arrayDict'[k] = v /\ \A j \in CellKeys : j # k => arrayDict'[j] = arrayDict[j]
  BY <1>1 DEF ArrayTypeOK
<1>6. arrayDict[k] = Absent  BY <1>4 DEF DictOK
<1>7. ArrayTypeOK'
  <2>1. len' \in 0..ArraySize  BY <1>1, ArrayTypes
  <2>2. cells' \in [Indices -> Cell]  BY <1>1, <1>3 DEF ArrayTypeOK
  <2>3. arrayDict' \in [CellKeys -> Nat \cup {Absent}]  BY <1>1, ArrayTypes DEF ArrayTypeOK
  <2> QED  BY <2>1, <2>2, <2>3 DEF ArrayTypeOK
<1>8. KeysDistinct'  BY <1>2, <1>3, <1>4 DEF KeysDistinct
<1>9. PastClear'
  <2>1. ASSUME NEW j \in len'..(ArraySize - 1) PROVE cells'[j] = Clear
    <3>1. j \in Indices /\ j # len /\ j \in len..(ArraySize - 1)  BY <1>1, ArrayTypes DEF Indices
    <3> QED  BY <1>3, <3>1 DEF PastClear
  <2> QED  BY <2>1 DEF PastClear
<1>10. DictOK'  BY <1>2, <1>3, <1>4, <1>5 DEF DictOK
<1>11. CountOK'
  <2>1. v # Absent  BY ArrayTypes
  <2>2. StoredCells' = StoredCells \cup {k} /\ k \notin StoredCells
    BY <1>5, <1>6, <2>1 DEF StoredCells
  <2>3. IsFiniteSet(StoredCells') /\ Cardinality(StoredCells') = Cardinality(StoredCells) + 1
    BY <2>2, FS_AddElement DEF CountOK
  <2> QED  BY <1>1, <2>3 DEF CountOK
<1> QED  BY <1>7, <1>8, <1>9, <1>10, <1>11

\* The last cell moves into the hole: every other key is still there, once.
LEMMA ArrayDelStep ==
  ASSUME ArrayInv, NEW k \in CellKeys, ArrayDel(k)
  PROVE  ArrayInv'
<1> USE DEF ArrayInv
<1> DEFINE i == FindKeyIndex(k)
           last == len - 1
<1>1. i \in Used /\ cells[i].key = k  BY FoundCell DEF ArrayDel
<1> HIDE DEF i
<1>2. /\ cells' = [cells EXCEPT ![i] = cells[last], ![last] = Clear]
      /\ len' = last /\ arrayDict' = [arrayDict EXCEPT ![k] = Absent]
  BY DEF ArrayDel, HoleFilled, i
<1>3. /\ len \in Nat /\ last \in Nat /\ last \in Used /\ last \in Indices /\ i \in Indices
      /\ Used' = Used \ {last} /\ Used \subseteq Indices /\ last < ArraySize
  BY <1>1, <1>2, ArrayTypes DEF ArrayTypeOK, Used, Indices
<1> HIDE DEF last
<1>4. /\ cells'[last] = Clear
      /\ i # last => cells'[i] = cells[last]
      /\ \A j \in Indices : j # i /\ j # last => cells'[j] = cells[j]
  BY <1>2, <1>3 DEF ArrayTypeOK
<1>5. arrayDict'[k] = Absent /\ \A j \in CellKeys : j # k => arrayDict'[j] = arrayDict[j]
  BY <1>2 DEF ArrayTypeOK
<1>6. arrayDict[k] # Absent  BY <1>1, <1>3, ArrayTypes DEF DictOK, ArrayTypeOK, Cell
\* Where the contents of a cell that stays in use come from.
<1>7. ASSUME NEW j \in Used'
      PROVE  \E m \in Used : /\ cells'[j] = cells[m] /\ m # i
                              /\ (j = i => m = last) /\ (j # i => m = j)
  BY <1>3, <1>4
<1>8. ArrayTypeOK'
  <2>1. cells' \in [Indices -> Cell]  BY <1>2, <1>3, ArrayTypes DEF ArrayTypeOK
  <2>2. arrayDict' \in [CellKeys -> Nat \cup {Absent}]  BY <1>2 DEF ArrayTypeOK
  <2>3. len' \in 0..ArraySize  BY <1>2, <1>3, ArrayTypes
  <2> QED  BY <2>1, <2>2, <2>3 DEF ArrayTypeOK
<1>9. KeysDistinct'
  <2>1. ASSUME NEW j \in Used', NEW n \in Used'
        PROVE  cells'[j].key \in CellKeys /\ (cells'[j].key = cells'[n].key => j = n)
    <3>1. PICK m \in Used : cells'[j] = cells[m] /\ (j = i => m = last) /\ (j # i => m = j)  BY <1>7
    <3>2. PICK o \in Used : cells'[n] = cells[o] /\ (n = i => o = last) /\ (n # i => o = n)  BY <1>7
    <3>3. m = o => j = n  BY <1>3, <3>1, <3>2
    <3> QED  BY <3>1, <3>2, <3>3 DEF KeysDistinct
  <2> QED  BY <2>1 DEF KeysDistinct
<1>10. PastClear'
  <2>1. ASSUME NEW j \in len'..(ArraySize - 1) PROVE cells'[j] = Clear
    <3>1. CASE j = last  BY <1>4, <3>1
    <3>2. CASE j # last
      <4>1. j \in len..(ArraySize - 1) /\ j \in Indices  BY <1>2, <1>3, <3>2, ArrayTypes DEF Indices, last
      <4>2. j \notin Used  BY <1>3, <4>1 DEF Used
      <4>3. j # i  BY <1>1, <4>2
      <4> QED  BY <1>4, <3>2, <4>1, <4>3 DEF PastClear
    <3> QED  BY <3>1, <3>2
  <2> QED  BY <2>1 DEF PastClear
<1>11. DictOK'
  <2>1. ASSUME NEW j \in Used' PROVE arrayDict'[cells'[j].key] = cells'[j].value
    <3>1. PICK m \in Used : cells'[j] = cells[m] /\ m # i  BY <1>7
    <3>2. cells[m].key \in CellKeys /\ cells[m].key # k  BY <1>1, <3>1 DEF KeysDistinct
    <3> QED  BY <1>5, <3>1, <3>2 DEF DictOK
  <2>2. ASSUME NEW j \in CellKeys, arrayDict'[j] # Absent PROVE \E n \in Used' : cells'[n].key = j
    <3>1. j # k /\ arrayDict[j] # Absent  BY <1>5, <2>2
    <3>2. PICK m \in Used : cells[m].key = j  BY <3>1 DEF DictOK
    <3>3. m # i  BY <1>1, <3>1, <3>2
    <3>4. CASE m = last
      <4>1. i \in Used' /\ cells'[i] = cells[last]  BY <1>1, <1>3, <1>4, <3>3, <3>4
      <4> QED  BY <3>2, <3>4, <4>1
    <3>5. CASE m # last
      <4>1. m \in Used' /\ cells'[m] = cells[m]  BY <1>3, <1>4, <3>3, <3>5
      <4> QED  BY <3>2, <4>1
    <3> QED  BY <3>4, <3>5
  <2> QED  BY <2>1, <2>2 DEF DictOK
<1>12. CountOK'
  <2>1. StoredCells' = StoredCells \ {k} /\ k \in StoredCells  BY <1>5, <1>6 DEF StoredCells
  <2>2. IsFiniteSet(StoredCells') /\ Cardinality(StoredCells') = Cardinality(StoredCells) - 1
    BY <2>1, FS_RemoveElement DEF CountOK
  <2> QED  BY <1>2, <2>2 DEF CountOK, last
<1> QED  BY <1>8, <1>9, <1>10, <1>11, <1>12

\* An array without items is in order.
LEMMA ArrayInvInit ==
  ASSUME ArrayInit
  PROVE  ArrayInv
<1>1. Used = {} /\ len = 0 /\ len \in 0..ArraySize  BY ArrayTypes DEF ArrayInit, Used
<1>2. ArrayTypeOK  BY <1>1, ArrayTypes DEF ArrayInit, ArrayTypeOK, Indices
<1>3. KeysDistinct  BY <1>1 DEF KeysDistinct
<1>4. PastClear  BY DEF ArrayInit, PastClear
<1>5. DictOK  BY <1>1 DEF DictOK, ArrayInit
<1>6. StoredCells = {}  BY DEF StoredCells, ArrayInit
<1>7. CountOK  BY <1>1, <1>6, FS_EmptySet DEF CountOK
<1> QED  BY <1>2, <1>3, <1>4, <1>5, <1>7 DEF ArrayInv

\* Every operation keeps the array in order.
LEMMA ArrayInvStep ==
  ASSUME ArrayInv, [ArrayNext]_arrayVars
  PROVE  ArrayInv'
<1>1. ASSUME NEW k \in CellKeys, NEW v \in CellValues, ArrayMod(k, v) PROVE ArrayInv'
  <2>1. FindKeyIndex(k) \in Used /\ cells[FindKeyIndex(k)].key = k
    BY <1>1, FoundCell DEF ArrayMod, ArrayInv
  <2>2. v \in Nat  BY ArrayTypes
  <2> QED  BY <1>1, <2>1, <2>2, ValueChanges DEF ArrayMod
<1>2. ASSUME NEW k \in CellKeys, ArraySetFails(k) PROVE ArrayInv'
  <2>1. CASE Matches(k) # {}
    <3>1. FindKeyIndex(k) \in Used /\ cells[FindKeyIndex(k)].key = k
      BY <2>1, FoundCell DEF ArrayInv
    <3>2. NoValue \in Nat  BY ArrayTypes
    <3> QED  BY <1>2, <2>1, <3>1, <3>2, ValueChanges DEF ArraySetFails
  <2>2. CASE Matches(k) = {}
    <3>1. UNCHANGED arrayVars  BY <1>2, <2>2 DEF ArraySetFails, arrayVars
    <3> QED  BY <3>1 DEF arrayVars, ArrayInv, ArrayTypeOK, KeysDistinct, PastClear, DictOK, CountOK,
                       StoredCells, Used
  <2> QED  BY <2>1, <2>2
<1>3. CASE UNCHANGED arrayVars
  BY <1>3 DEF arrayVars, ArrayInv, ArrayTypeOK, KeysDistinct, PastClear, DictOK, CountOK,
              StoredCells, Used
<1> QED  BY <1>1, <1>2, <1>3, ArrayAddStep, ArrayDelStep DEF ArrayNext

\* The array engine's cells in use have different keys, and hold exactly what
\* was stored (kvs_array_set, kvs_array_del).
THEOREM ArrayInvariant == ArraySpec => []ArrayInv
<1>1. ArrayInit => ArrayInv  BY ArrayInvInit
<1>2. ArrayInv /\ [ArrayNext]_arrayVars => ArrayInv'  BY ArrayInvStep
<1> QED  BY <1>1, <1>2, PTL DEF ArraySpec

\* find_key_index finds exactly the stored keys with the value last written,
\* inst->total is their number, and nothing is left past the end.
THEOREM ArrayFinds == ArraySpec => []ArrayLookup
<1>1. ArrayInv => ArrayLookup
  <2> SUFFICES ASSUME ArrayInv PROVE ArrayLookup  OBVIOUS
  <2> USE DEF ArrayInv
  <2>1. ASSUME NEW k \in CellKeys
        PROVE  arrayDict[k] = IF Matches(k) # {} THEN cells[FindKeyIndex(k)].value ELSE Absent
    <3>1. CASE Matches(k) # {}
      <4>1. FindKeyIndex(k) \in Used /\ cells[FindKeyIndex(k)].key = k  BY <3>1, FoundCell
      <4> QED  BY <3>1, <4>1 DEF DictOK
    <3>2. CASE Matches(k) = {}  BY <3>2 DEF DictOK, Matches, Used
    <3> QED  BY <3>1, <3>2
  <2> QED  BY <2>1 DEF ArrayLookup, PastClear, CountOK, StoredCells
<1> QED  BY <1>1, ArrayInvariant, PTL

-----------------------------------------------------------------------------
(* Remainders *)

\* What \div and % are.
LEMMA DivMod ==
  ASSUME NEW h \in Nat, NEW n \in Nat, n > 0
  PROVE  /\ h \div n \in Nat /\ h % n \in Nat /\ h % n < n
         /\ h = n * (h \div n) + (h % n)
OBVIOUS

\* Different multiples of n are at least n apart.
LEMMA Apart ==
  ASSUME NEW n \in Nat, n > 0, NEW p \in Nat, NEW q \in Nat, p < q
  PROVE  n * p + n <= n * q
<1>1. PICK d \in Nat : q = p + 1 + d
  <2> WITNESS q - p - 1 \in Nat
  <2> QED  OBVIOUS
<1>2. n * q = n * p + n + n * d  BY <1>1
<1>3. n * d \in Nat /\ n * p \in Nat  OBVIOUS
<1> QED  BY <1>2, <1>3

\* There is only one remainder.
LEMMA Remainder ==
  ASSUME NEW n \in Nat, n > 0, NEW h \in Nat, NEW q \in Nat, NEW r \in Nat, r < n, h = n * q + r
  PROVE  h % n = r
<1> DEFINE p == h \div n
           s == h % n
<1>1. p \in Nat /\ s \in Nat /\ s < n /\ h = n * p + s  BY DivMod
<1> HIDE DEF p, s
<1>2. n * p \in Nat /\ n * q \in Nat  BY <1>1
<1>3. CASE p < q
  <2>1. n * p + n <= n * q  BY <1>1, <1>3, Apart
  <2> QED  BY <1>1, <1>2, <2>1
<1>4. CASE q < p
  <2>1. n * q + n <= n * p  BY <1>1, <1>4, Apart
  <2> QED  BY <1>1, <1>2, <2>1
<1>5. CASE p = q  BY <1>1, <1>2, <1>5 DEF s
<1>6. s = r  BY <1>1, <1>3, <1>4, <1>5
<1> QED  BY <1>6 DEF s

\* The slot of a key when the slots are doubled: the same, or n further.
LEMMA Doubled ==
  ASSUME NEW h \in Nat, NEW n \in Nat, n > 0
  PROVE  h % (2 * n) \in {h % n, (h % n) + n}
<1> DEFINE q == h \div n
           r == h % n
<1>1. q \in Nat /\ r \in Nat /\ r < n /\ h = n * q + r  BY DivMod
<1> HIDE DEF q, r
<1>2. PICK s \in Nat : q = 2 * s \/ q = 2 * s + 1
  <2>1. q = 2 * (q \div 2) \/ q = 2 * (q \div 2) + 1  BY <1>1
  <2>2. q \div 2 \in Nat  BY <1>1
  <2> QED  BY <2>1, <2>2
<1> DEFINE m == 2 * n
<1>3. m \in Nat /\ m > 0 /\ r < m /\ r + n \in Nat /\ r + n < m  BY <1>1
<1>4. CASE q = 2 * s
  <2>1. n * (2 * s) = (2 * n) * s  OBVIOUS
  <2>2. h = m * s + r  BY <1>1, <1>4, <2>1
  <2> HIDE DEF m
  <2>3. h % m = r  BY <1>1, <1>3, <2>2, Remainder
  <2> QED  BY <2>3 DEF r, m
<1>5. CASE q = 2 * s + 1
  <2>1. n * (2 * s + 1) = (2 * n) * s + n  OBVIOUS
  <2>2. h = m * s + (r + n)
    <3>1. (2 * n) * s \in Nat  OBVIOUS
    <3> QED  BY <1>1, <1>5, <2>1, <3>1
  <2> HIDE DEF m
  <2>3. h % m = r + n  BY <1>1, <1>3, <2>2, Remainder
  <2> QED  BY <2>3 DEF r, m
<1> QED  BY <1>2, <1>4, <1>5

-----------------------------------------------------------------------------
(* The numbers of slots: InitSlots doubled any number of times *)

Doubling(S) == InitSlots \in S /\ \A m \in S : 2 * m \in S
Sizes == {n \in Nat : \A S \in SUBSET Nat : Doubling(S) => n \in S}

\* The sizes a table can have are closed under doubling.
LEMMA SizesDoubling == Doubling(Sizes)
<1>1. InitSlots \in Sizes  BY HashAssumption DEF Sizes, Doubling
<1>2. ASSUME NEW m \in Sizes PROVE 2 * m \in Sizes
  <2>1. m \in Nat /\ 2 * m \in Nat  BY DEF Sizes
  <2>2. ASSUME NEW S \in SUBSET Nat, Doubling(S) PROVE 2 * m \in S
    <3>1. m \in S  BY <2>2 DEF Sizes
    <3> QED  BY <2>2, <3>1 DEF Doubling
  <2> QED  BY <2>1, <2>2 DEF Sizes
<1> QED  BY <1>1, <1>2 DEF Doubling

\* A table has at least its initial slots.
LEMMA SizesBound ==
  ASSUME NEW n \in Sizes
  PROVE  n \in Nat /\ n >= InitSlots /\ n > 1
<1> DEFINE S == {m \in Nat : m >= InitSlots}
<1>1. Doubling(S)  BY HashAssumption DEF Doubling
<1>2. n \in S  BY <1>1 DEF Sizes
<1> QED  BY <1>2, HashAssumption

\* A size that is not the first is twice another.
LEMMA SizesHalf ==
  ASSUME NEW n \in Sizes, n # InitSlots
  PROVE  n \div 2 \in Sizes /\ n = 2 * (n \div 2)
<1> DEFINE S == {InitSlots} \cup {2 * m : m \in Sizes}
<1>1. S \subseteq Sizes /\ S \subseteq Nat  BY SizesDoubling DEF Doubling, Sizes
<1>2. Doubling(S)  BY <1>1 DEF Doubling
<1>3. n \in S  BY <1>1, <1>2 DEF Sizes
<1>4. PICK m \in Sizes : n = 2 * m  BY <1>3
<1>5. m \in Nat  BY <1>4 DEF Sizes
<1>6. n \div 2 = m  BY <1>4, <1>5
<1> QED  BY <1>4, <1>6

-----------------------------------------------------------------------------
(* The hash table *)

Buckets(n) == [0..(n - 1) -> SUBSET HashKeys]
Tables == [buckets : UNION {Buckets(n) : n \in Nat}, slots : Nat, count : Nat,
           val : [HashKeys -> Seq(Ids)]]

Nodes(T) == {k \in HashKeys : Present(T, k)}

\* Every node is in the chain of its slot, and is counted; the keys with a
\* node are those with a value.
WellFormed(T) ==
  /\ T \in Tables /\ T.slots \in Sizes /\ T.buckets \in Buckets(T.slots)
  /\ \A b \in 0..(T.slots - 1) : \A k \in T.buckets[b] : Slot(k, T.slots) = b
  /\ IsFiniteSet(Nodes(T)) /\ T.count = Cardinality(Nodes(T))
  /\ \A k \in HashKeys : Present(T, k) <=> T.val[k] # << >>

HashInv == WellFormed(table) /\ hashDict = table.val

\* kv_data_hash names a slot of the table.
LEMMA SlotType ==
  ASSUME NEW k \in HashKeys, NEW n \in Sizes
  PROVE  Slot(k, n) \in 0..(n - 1) /\ HashOf[k] \in Nat /\ n \in Nat /\ n > 0
<1>1. HashOf[k] \in Nat /\ n \in Nat /\ n > 0  BY SizesBound, HashAssumption
<1> QED  BY <1>1, DivMod DEF Slot

\* A table with the same nodes, values and count, in the chains of its own
\* size, is as good.
LEMMA SameNodes ==
  ASSUME NEW T, WellFormed(T), NEW U, U \in Tables, U.slots \in Sizes,
         U.buckets \in Buckets(U.slots),
         \A b \in 0..(U.slots - 1) : \A k \in U.buckets[b] : Slot(k, U.slots) = b,
         U.count = T.count, U.val = T.val,
         \A k \in HashKeys : Present(U, k) <=> Present(T, k)
  PROVE  WellFormed(U)
<1>1. Nodes(U) = Nodes(T)  BY DEF Nodes
<1> QED  BY <1>1 DEF WellFormed

\* kvs_hash_resize to twice the slots keeps every node.
LEMMA GrownKeeps ==
  ASSUME NEW T, WellFormed(T)
  PROVE  /\ WellFormed(Grown(T)) /\ Grown(T).slots = 2 * T.slots
         /\ Grown(T).count = T.count /\ Grown(T).val = T.val
         /\ \A k \in HashKeys : Present(Grown(T), k) <=> Present(T, k)
<1> DEFINE n == T.slots
           U == Grown(T)
<1>1. n \in Sizes /\ n \in Nat /\ n > 0 /\ 2 * n \in Sizes /\ 2 * n \in Nat
  BY SizesBound, SizesDoubling DEF WellFormed, Doubling
<1>2. /\ U.slots = 2 * n /\ U.count = T.count /\ U.val = T.val
      /\ U.buckets = [b \in 0..(2 * n - 1) |-> {k \in T.buckets[b % n] : Slot(k, 2 * n) = b}]
  BY DEF Grown, WellFormed, Tables
<1>3. T.buckets \in Buckets(n) /\ T \in Tables  BY DEF WellFormed
<1> HIDE DEF U
<1>4. ASSUME NEW b \in 0..(2 * n - 1) PROVE b % n \in 0..(n - 1)  BY <1>1, DivMod
<1>5. U.buckets \in Buckets(2 * n)
  <2>1. \A b \in 0..(2 * n - 1) : T.buckets[b % n] \in SUBSET HashKeys  BY <1>3, <1>4 DEF Buckets
  <2> HIDE DEF n
  <2> QED  BY <1>2, <2>1 DEF Buckets
<1>6. U \in Tables
  <2>1. U.buckets \in UNION {Buckets(m) : m \in Nat}  BY <1>1, <1>5
  <2>2. U = [T EXCEPT !.slots = 2 * n, !.buckets = U.buckets]  BY <1>2 DEF Grown, U
  <2> HIDE DEF n
  <2> QED  BY <1>1, <1>3, <2>1, <2>2 DEF Tables
<1>7. ASSUME NEW k \in HashKeys PROVE Present(U, k) <=> Present(T, k)
  <2> DEFINE h == HashOf[k]
             s == Slot(k, 2 * n)
  <2>1. h \in Nat /\ s \in 0..(2 * n - 1) /\ Slot(k, n) \in 0..(n - 1)  BY <1>1, SlotType
  <2>2. s \in {Slot(k, n), Slot(k, n) + n}  BY <1>1, <2>1, Doubled DEF Slot
  <2>3. s % n = Slot(k, n)
    <3>1. n * 0 = 0 /\ n * 1 = n  BY <1>1
    <3>2. s = n * 0 + Slot(k, n) \/ s = n * 1 + Slot(k, n)  BY <1>1, <2>1, <2>2, <3>1
    <3>3. s \in Nat /\ Slot(k, n) \in Nat /\ Slot(k, n) < n /\ 0 \in Nat /\ 1 \in Nat  BY <1>1, <2>1
    <3> HIDE DEF s, n
    <3> QED  BY <1>1, <3>2, <3>3, Remainder
  <2>4. U.buckets[s] = {j \in T.buckets[Slot(k, n)] : Slot(j, 2 * n) = s}  BY <1>2, <2>1, <2>3
  <2> QED  BY <1>2, <2>4 DEF Present
<1>8. \A b \in 0..(U.slots - 1) : \A k \in U.buckets[b] : Slot(k, U.slots) = b  BY <1>2
<1>9. WellFormed(U)
  <2> HIDE DEF n
  <2> QED  BY <1>1, <1>2, <1>5, <1>6, <1>7, <1>8, SameNodes
<1> QED  BY <1>2, <1>7, <1>9 DEF U

\* kvs_hash_resize to half the slots keeps every node: the two chains that
\* are joined are those of one slot.
LEMMA ShrunkKeeps ==
  ASSUME NEW T, WellFormed(T), T.slots > InitSlots
  PROVE  /\ WellFormed(Shrunk(T)) /\ Shrunk(T).slots = T.slots \div 2
         /\ Shrunk(T).count = T.count /\ Shrunk(T).val = T.val
<1> DEFINE n == T.slots \div 2
           U == Shrunk(T)
<1>1. n \in Sizes /\ T.slots = 2 * n /\ n \in Nat /\ n > 0
  BY HashAssumption, SizesHalf, SizesBound DEF WellFormed
<1>2. /\ U.slots = n /\ U.count = T.count /\ U.val = T.val
      /\ U.buckets = [b \in 0..(n - 1) |-> T.buckets[b] \cup T.buckets[b + n]]
      /\ U = [T EXCEPT !.slots = n, !.buckets = [b \in 0..(n - 1) |-> T.buckets[b] \cup T.buckets[b + n]]]
  BY DEF Shrunk, WellFormed, Tables
<1>3. T.buckets \in Buckets(2 * n) /\ T \in Tables  BY <1>1 DEF WellFormed
<1> HIDE DEF n, U
<1>4. \A b \in 0..(n - 1) : b \in 0..(2 * n - 1) /\ b + n \in 0..(2 * n - 1)  BY <1>1
<1>5. U.buckets \in Buckets(n)
  <2>1. \A b \in 0..(n - 1) : T.buckets[b] \cup T.buckets[b + n] \in SUBSET HashKeys
    BY <1>3, <1>4 DEF Buckets
  <2> QED  BY <1>2, <2>1 DEF Buckets
<1>6. U \in Tables
  <2>1. U.buckets \in UNION {Buckets(m) : m \in Nat}  BY <1>1, <1>5
  <2>2. U = [T EXCEPT !.slots = n, !.buckets = U.buckets]  BY <1>2
  <2> QED  BY <1>1, <1>3, <2>1, <2>2 DEF Tables
<1>7. \A b \in 0..(2 * n - 1) : \A k \in T.buckets[b] : k \in HashKeys /\ Slot(k, 2 * n) = b
  BY <1>1, <1>3 DEF WellFormed, Buckets
<1>8. ASSUME NEW k \in HashKeys
      PROVE  /\ Slot(k, n) \in 0..(n - 1) /\ Slot(k, 2 * n) \in 0..(2 * n - 1)
             /\ Slot(k, 2 * n) \in {Slot(k, n), Slot(k, n) + n}
  <2>1. 2 * n \in Sizes  BY <1>1 DEF WellFormed
  <2>2. Slot(k, n) \in 0..(n - 1) /\ HashOf[k] \in Nat  BY <1>1, SlotType
  <2>3. Slot(k, 2 * n) \in 0..(2 * n - 1)  BY <2>1, SlotType
  <2> QED  BY <1>1, <2>2, <2>3, Doubled DEF Slot
<1>9. ASSUME NEW b \in 0..(U.slots - 1), NEW k \in U.buckets[b] PROVE Slot(k, U.slots) = b
  <2>1. b \in 0..(n - 1) /\ k \in T.buckets[b] \cup T.buckets[b + n]  BY <1>2
  <2>2. k \in HashKeys /\ Slot(k, 2 * n) \in {b, b + n}  BY <1>4, <1>7, <2>1
  <2>3. Slot(k, n) = b  BY <1>1, <1>8, <2>1, <2>2
  <2> QED  BY <1>2, <2>3
<1>10. ASSUME NEW k \in HashKeys PROVE Present(U, k) <=> Present(T, k)
  <2> DEFINE s == Slot(k, n)
  <2>1. U.buckets[s] = T.buckets[s] \cup T.buckets[s + n] /\ s \in 0..(n - 1)  BY <1>2, <1>8
  <2>2. Present(U, k) <=> k \in T.buckets[s] \cup T.buckets[s + n]  BY <1>2, <2>1 DEF Present
  <2>3. k \in T.buckets[s] => Slot(k, 2 * n) = s  BY <1>4, <1>7, <2>1
  <2>4. k \in T.buckets[s + n] => Slot(k, 2 * n) = s + n  BY <1>4, <1>7, <2>1
  <2>5. Slot(k, 2 * n) \in {s, s + n}  BY <1>8
  <2> HIDE DEF s
  <2>6. Present(T, k) <=> k \in T.buckets[Slot(k, 2 * n)]  BY <1>1 DEF Present
  <2> QED  BY <2>2, <2>3, <2>4, <2>5, <2>6
<1>11. WellFormed(U)  BY <1>1, <1>2, <1>5, <1>6, <1>9, <1>10, SameNodes
<1> QED  BY <1>2, <1>11 DEF U, n

\* The node of k is taken out: nothing else changes.
LEMMA UnchainedKeeps ==
  ASSUME NEW T, WellFormed(T), NEW k \in HashKeys, Present(T, k)
  PROVE  /\ WellFormed(Unchained(T, k)) /\ Unchained(T, k).slots = T.slots
         /\ Unchained(T, k).count = T.count - 1
         /\ Unchained(T, k).val = [T.val EXCEPT ![k] = << >>]
         /\ ~Present(Unchained(T, k), k)
<1> DEFINE n == T.slots
           s == Slot(k, n)
           U == Unchained(T, k)
<1>1. n \in Sizes /\ s \in 0..(n - 1) /\ T.buckets \in Buckets(n) /\ T \in Tables
  BY SlotType DEF WellFormed
<1>2. /\ U.slots = n /\ U.count = T.count - 1 /\ U.val = [T.val EXCEPT ![k] = << >>]
      /\ U.buckets = [T.buckets EXCEPT ![s] = @ \ {k}]
      /\ U = [T EXCEPT !.buckets = [T.buckets EXCEPT ![s] = @ \ {k}],
                       !.val = [T.val EXCEPT ![k] = << >>], !.count = T.count - 1]
  BY <1>1 DEF Unchained, Tables
<1>3. /\ U.buckets[s] = T.buckets[s] \ {k}
      /\ \A b \in 0..(n - 1) : b # s => U.buckets[b] = T.buckets[b]
  BY <1>1, <1>2 DEF Buckets
<1>4. \A j \in HashKeys : U.val[j] = IF j = k THEN << >> ELSE T.val[j]
  BY <1>1, <1>2 DEF Tables
<1>5. \A j \in HashKeys : Slot(j, n) \in 0..(n - 1)  BY <1>1, SlotType
<1> HIDE DEF U
<1>6. ASSUME NEW j \in HashKeys PROVE Present(U, j) <=> j # k /\ Present(T, j)
  <2>1. Present(U, j) <=> j \in U.buckets[Slot(j, n)]  BY <1>2 DEF Present
  <2>2. CASE Slot(j, n) = s  BY <1>3, <2>1, <2>2 DEF Present
  <2>3. CASE Slot(j, n) # s  BY <1>3, <1>5, <2>1, <2>3 DEF Present
  <2> QED  BY <2>2, <2>3
<1>7. Nodes(U) = Nodes(T) \ {k} /\ k \in Nodes(T)  BY <1>6 DEF Nodes
<1>8. IsFiniteSet(Nodes(U)) /\ Cardinality(Nodes(U)) = Cardinality(Nodes(T)) - 1
  BY <1>7, FS_RemoveElement DEF WellFormed
<1>9. Cardinality(Nodes(U)) \in Nat  BY <1>8, FS_CardinalityType
<1>10. U.buckets \in Buckets(n)
  <2>1. T.buckets[s] \ {k} \in SUBSET HashKeys  BY <1>1 DEF Buckets
  <2> HIDE DEF s
  <2> QED  BY <1>1, <1>2, <2>1 DEF Buckets
<1>11. U \in Tables
  <2>1. U.buckets \in UNION {Buckets(m) : m \in Nat}  BY <1>1, <1>10 DEF Tables
  <2>2. U.val \in [HashKeys -> Seq(Ids)] /\ T.count - 1 \in Nat
    BY <1>1, <1>2, <1>8, <1>9 DEF Tables, WellFormed
  <2>3. U = [T EXCEPT !.buckets = U.buckets, !.val = U.val, !.count = T.count - 1]  BY <1>2
  <2> QED  BY <1>1, <2>1, <2>2, <2>3 DEF Tables
<1>12. \A b \in 0..(n - 1) : \A j \in U.buckets[b] : Slot(j, n) = b
  BY <1>3 DEF WellFormed
<1>13. \A j \in HashKeys : Present(U, j) <=> U.val[j] # << >>  BY <1>4, <1>6 DEF WellFormed
<1>14. WellFormed(U)
  <2>1. T.count = Cardinality(Nodes(T))  BY DEF WellFormed
  <2> QED  BY <1>1, <1>2, <1>8, <1>10, <1>11, <1>12, <1>13, <2>1 DEF WellFormed
<1> QED  BY <1>2, <1>6, <1>14 DEF U

\* A node for a key that has none.
LEMMA ChainedKeeps ==
  ASSUME NEW T, WellFormed(T), NEW k \in HashKeys, ~Present(T, k),
         NEW v \in Seq(Ids), v # << >>
  PROVE  /\ WellFormed(Chained(T, k, v)) /\ Chained(T, k, v).slots = T.slots
         /\ Chained(T, k, v).count = T.count + 1
         /\ Chained(T, k, v).val = [T.val EXCEPT ![k] = v]
<1> DEFINE n == T.slots
           s == Slot(k, n)
           U == Chained(T, k, v)
<1>1. n \in Sizes /\ s \in 0..(n - 1) /\ T.buckets \in Buckets(n) /\ T \in Tables
  BY SlotType DEF WellFormed
<1>2. /\ U.slots = n /\ U.count = T.count + 1 /\ U.val = [T.val EXCEPT ![k] = v]
      /\ U.buckets = [T.buckets EXCEPT ![s] = @ \cup {k}]
      /\ U = [T EXCEPT !.buckets = [T.buckets EXCEPT ![s] = @ \cup {k}],
                       !.val = [T.val EXCEPT ![k] = v], !.count = T.count + 1]
  BY <1>1 DEF Chained, Tables
<1>3. /\ U.buckets[s] = T.buckets[s] \cup {k}
      /\ \A b \in 0..(n - 1) : b # s => U.buckets[b] = T.buckets[b]
  BY <1>1, <1>2 DEF Buckets
<1>4. \A j \in HashKeys : U.val[j] = IF j = k THEN v ELSE T.val[j]
  BY <1>1, <1>2 DEF Tables
<1>5. \A j \in HashKeys : Slot(j, n) \in 0..(n - 1)  BY <1>1, SlotType
<1> HIDE DEF U
<1>6. ASSUME NEW j \in HashKeys PROVE Present(U, j) <=> j = k \/ Present(T, j)
  <2>1. Present(U, j) <=> j \in U.buckets[Slot(j, n)]  BY <1>2 DEF Present
  <2>2. CASE Slot(j, n) = s  BY <1>3, <2>1, <2>2 DEF Present
  <2>3. CASE Slot(j, n) # s  BY <1>3, <1>5, <2>1, <2>3 DEF Present
  <2> QED  BY <2>2, <2>3
<1>7. Nodes(U) = Nodes(T) \cup {k} /\ k \notin Nodes(T)  BY <1>6 DEF Nodes
<1>8. IsFiniteSet(Nodes(U)) /\ Cardinality(Nodes(U)) = Cardinality(Nodes(T)) + 1
  BY <1>7, FS_AddElement DEF WellFormed
<1>9. U.buckets \in Buckets(n)
  <2>1. T.buckets[s] \cup {k} \in SUBSET HashKeys  BY <1>1 DEF Buckets
  <2> HIDE DEF s
  <2> QED  BY <1>1, <1>2, <2>1 DEF Buckets
<1>10. U \in Tables
  <2>1. U.buckets \in UNION {Buckets(m) : m \in Nat}  BY <1>1, <1>9 DEF Tables
  <2>2. U.val \in [HashKeys -> Seq(Ids)] /\ T.count + 1 \in Nat  BY <1>1, <1>2 DEF Tables
  <2>3. U = [T EXCEPT !.buckets = U.buckets, !.val = U.val, !.count = T.count + 1]  BY <1>2
  <2> QED  BY <1>1, <2>1, <2>2, <2>3 DEF Tables
<1>11. \A b \in 0..(n - 1) : \A j \in U.buckets[b] : Slot(j, n) = b
  BY <1>3 DEF WellFormed
<1>12. \A j \in HashKeys : Present(U, j) <=> U.val[j] # << >>  BY <1>4, <1>6 DEF WellFormed
<1>13. WellFormed(U)
  <2>1. T.count = Cardinality(Nodes(T))  BY DEF WellFormed
  <2> QED  BY <1>1, <1>2, <1>8, <1>9, <1>10, <1>11, <1>12, <2>1 DEF WellFormed
<1> QED  BY <1>2, <1>13 DEF U

\* A value is written over one that is there.
LEMMA RewrittenKeeps ==
  ASSUME NEW T, WellFormed(T), NEW k \in HashKeys, Present(T, k),
         NEW v \in Seq(Ids), v # << >>
  PROVE  LET U == [T EXCEPT !.val[k] = v]
         IN  /\ WellFormed(U) /\ U.slots = T.slots /\ U.count = T.count
             /\ U.val = [T.val EXCEPT ![k] = v]
<1> DEFINE U == [T EXCEPT !.val[k] = v]
<1>1. T \in Tables  BY DEF WellFormed
<1>2. /\ U.slots = T.slots /\ U.count = T.count /\ U.val = [T.val EXCEPT ![k] = v]
      /\ U.buckets = T.buckets /\ U \in Tables
  BY <1>1 DEF Tables
<1>3. \A j \in HashKeys : U.val[j] = IF j = k THEN v ELSE T.val[j]  BY <1>1, <1>2 DEF Tables
<1> HIDE DEF U
<1>4. \A j : Present(U, j) <=> Present(T, j)  BY <1>2 DEF Present
<1>5. Nodes(U) = Nodes(T)  BY <1>4 DEF Nodes
<1>6. WellFormed(U)  BY <1>2, <1>3, <1>4, <1>5 DEF WellFormed
<1> QED  BY <1>2, <1>6 DEF U

\* What kvs_hash_set does before it looks for the key.
LEMMA RoomyKeeps ==
  ASSUME NEW T, WellFormed(T)
  PROVE  /\ WellFormed(Roomy(T)) /\ Roomy(T).count = T.count /\ Roomy(T).val = T.val
         /\ Roomy(T).slots = IF T.count >= T.slots THEN 2 * T.slots ELSE T.slots
BY GrownKeeps DEF Roomy, Crowded

\* Taking a node out of its chain keeps the table well formed.
LEMMA RemovedKeeps ==
  ASSUME NEW T, WellFormed(T), NEW k \in HashKeys
  PROVE  /\ WellFormed(Removed(T, k)) /\ Removed(T, k).slots = T.slots
         /\ Removed(T, k).count \in {T.count, T.count - 1}
         /\ Removed(T, k).count = T.count - 1 <=> Present(T, k)
         /\ Removed(T, k).val = [T.val EXCEPT ![k] = << >>]
         /\ ~Present(Removed(T, k), k)
<1>0. T.count \in Nat /\ T.val \in [HashKeys -> Seq(Ids)]  BY DEF WellFormed, Tables
<1>1. CASE Present(T, k)
  <2>1. Removed(T, k) = Unchained(T, k)  BY <1>1 DEF Removed
  <2> QED  BY <1>0, <1>1, <2>1, UnchainedKeeps
<1>2. CASE ~Present(T, k)
  <2>1. Removed(T, k) = T  BY <1>2 DEF Removed
  <2>2. T.val[k] = << >>  BY <1>2 DEF WellFormed
  <2>3. T.val = [T.val EXCEPT ![k] = << >>]  BY <1>0, <2>2
  <2>4. T.count # T.count - 1  BY <1>0
  <2> QED  BY <1>2, <2>1, <2>3, <2>4
<1> QED  BY <1>1, <1>2

\* The table after a successful kvs_hash_set: k has the value v, every other
\* key what it had, whichever of the two ways the value was written.
LEMMA HashWrittenKeeps ==
  ASSUME NEW T, WellFormed(T), NEW k \in HashKeys, NEW v \in Seq(Ids), v # << >>
  PROVE  LET U == HashWritten(T, k, v)
         IN  /\ WellFormed(U) /\ U.val = [T.val EXCEPT ![k] = v] /\ U.count >= T.count
             /\ U.slots = IF T.count >= T.slots THEN 2 * T.slots ELSE T.slots
<1> DEFINE R == Roomy(T)
           U == HashWritten(T, k, v)
           n == IF T.count >= T.slots THEN 2 * T.slots ELSE T.slots
<1>1. /\ WellFormed(R) /\ R.count = T.count /\ R.val = T.val /\ R.slots = n
      /\ T.count \in Nat /\ T.val \in [HashKeys -> Seq(Ids)]
  BY RoomyKeeps DEF WellFormed, Tables
<1> HIDE DEF R, n
<1>2. CASE Present(R, k) /\ Len(v) <= Len(R.val[k])
  <2>1. U = [R EXCEPT !.val[k] = v]  BY <1>2 DEF HashWritten, R
  <2> HIDE DEF U
  <2>2. /\ WellFormed(U) /\ U.slots = R.slots /\ U.count = R.count
        /\ U.val = [R.val EXCEPT ![k] = v]
    BY <1>1, <1>2, <2>1, RewrittenKeeps
  <2>3. WellFormed(U) /\ U.val = [T.val EXCEPT ![k] = v] /\ U.count >= T.count /\ U.slots = n
    BY <1>1, <2>2
  <2> QED  BY <2>3 DEF U, n
<1>3. CASE ~(Present(R, k) /\ Len(v) <= Len(R.val[k]))
  <2> DEFINE M == Removed(R, k)
  <2>1. U = Chained(M, k, v)  BY <1>3 DEF HashWritten, R
  <2>2. /\ WellFormed(M) /\ M.slots = R.slots /\ M.count \in {R.count, R.count - 1}
        /\ M.val = [R.val EXCEPT ![k] = << >>] /\ ~Present(M, k)
    BY <1>1, RemovedKeeps
  <2> HIDE DEF M, U
  <2>3. /\ WellFormed(U) /\ U.slots = M.slots /\ U.count = M.count + 1
        /\ U.val = [M.val EXCEPT ![k] = v]
    BY <2>1, <2>2, ChainedKeeps
  <2>4. U.count >= T.count  BY <1>1, <2>2, <2>3
  <2>5. U.val = [T.val EXCEPT ![k] = v]  BY <1>1, <2>2, <2>3
  <2> QED  BY <1>1, <2>2, <2>3, <2>4, <2>5 DEF U, n
<1> QED  BY <1>2, <1>3

\* kvs_hash_del, whether or not the table shrinks after it.
LEMMA HashDelKeeps ==
  ASSUME NEW T, WellFormed(T), NEW k \in HashKeys, Present(T, k)
  PROVE  LET D == Unchained(T, k)
         IN  /\ WellFormed(D) /\ D.val = [T.val EXCEPT ![k] = << >>]
             /\ D.slots = T.slots
             /\ Sparse(D) => /\ WellFormed(Shrunk(D)) /\ Shrunk(D).val = D.val
                             /\ 2 * Shrunk(D).count < Shrunk(D).slots
<1> DEFINE D == Unchained(T, k)
<1>1. WellFormed(D) /\ D.val = [T.val EXCEPT ![k] = << >>] /\ D.slots = T.slots
  BY UnchainedKeeps
<1> HIDE DEF D
<1>2. ASSUME Sparse(D)
      PROVE  WellFormed(Shrunk(D)) /\ Shrunk(D).val = D.val /\ 2 * Shrunk(D).count < Shrunk(D).slots
  <2>1. D.slots > InitSlots /\ D.count < D.slots \div 4  BY <1>2 DEF Sparse
  <2>2. /\ WellFormed(Shrunk(D)) /\ Shrunk(D).slots = D.slots \div 2
        /\ Shrunk(D).count = D.count /\ Shrunk(D).val = D.val
    BY <1>1, <2>1, ShrunkKeeps
  <2>3. D.slots \in Nat /\ D.count \in Nat  BY <1>1 DEF WellFormed, Tables
  <2>4. 2 * D.count < D.slots \div 2  BY <2>1, <2>3
  <2> QED  BY <2>2, <2>4
<1> QED  BY <1>1, <1>2 DEF D

-----------------------------------------------------------------------------
(* The actions *)

\* What a resize within a step leaves: the body of ResizeHasSlack.
Slack ==
  /\ table'.slots > table.slots => 4 * table'.count >= table'.slots
  /\ table'.slots < table.slots => 2 * table'.count < table'.slots

\* A write that succeeds: HashSet and HashAppend.
LEMMA WriteStep ==
  ASSUME HashInv, NEW k \in HashKeys, NEW v \in Seq(Ids), v # << >>,
         table' = HashWritten(table, k, v), hashDict' = [hashDict EXCEPT ![k] = v]
  PROVE  HashInv' /\ Slack
<1>1. /\ WellFormed(table') /\ table'.val = [table.val EXCEPT ![k] = v]
      /\ table'.count >= table.count
      /\ table'.slots = IF table.count >= table.slots THEN 2 * table.slots ELSE table.slots
  BY HashWrittenKeeps DEF HashInv
<1>2. /\ table.count \in Nat /\ table.slots \in Nat /\ table.slots > 1 /\ table'.count \in Nat
  BY <1>1, SizesBound DEF HashInv, WellFormed, Tables
<1>3. HashInv'  BY <1>1 DEF HashInv
<1>4. Slack  BY <1>1, <1>2 DEF Slack
<1> QED  BY <1>3, <1>4

\* kvs_hash_set, growing first if it must.
LEMMA HashSetStep ==
  ASSUME HashInv, NEW k \in HashKeys, NEW v \in HashValues, HashSet(k, v)
  PROVE  HashInv' /\ Slack
<1>1. v \in Seq(Ids) /\ v # << >>  BY HashAssumption
<1> QED  BY <1>1, WriteStep DEF HashSet

\* kvs_hash_append.
LEMMA HashAppendStep ==
  ASSUME HashInv, NEW k \in HashKeys, NEW id \in Ids, HashAppend(k, id)
  PROVE  HashInv' /\ Slack
<1> DEFINE old == IF Present(table, k) THEN table.val[k] ELSE << >>
<1>1. hashDict[k] = old /\ old \in Seq(Ids) /\ hashDict \in [HashKeys -> Seq(Ids)]
  BY DEF HashInv, WellFormed, Tables
<1>2. table' = HashWritten(table, k, Append(old, id))
  BY DEF HashAppend
<1>3. hashDict' = [hashDict EXCEPT ![k] = Append(hashDict[k], id)]  BY <1>1 DEF HashAppend
<1> HIDE DEF old
<1>4. Append(old, id) \in Seq(Ids) /\ Append(old, id) # << >>  BY <1>1
<1> QED  BY <1>1, <1>2, <1>3, <1>4, WriteStep

\* The node cannot be made: the shorter old value, if any, is gone.
LEMMA HashSetFailsStep ==
  ASSUME HashInv, NEW k \in HashKeys, NEW v \in HashValues, HashSetFails(k, v)
  PROVE  HashInv' /\ Slack
<1> DEFINE R == Roomy(table)
<1>1. WellFormed(table) /\ hashDict = table.val  BY DEF HashInv
<1>2. /\ WellFormed(R) /\ R.count = table.count /\ R.val = table.val
      /\ R.slots = IF table.count >= table.slots THEN 2 * table.slots ELSE table.slots
  BY <1>1, RoomyKeeps
<1>3. table' = Removed(R, k) /\ hashDict' = [hashDict EXCEPT ![k] = << >>]  BY DEF HashSetFails
<1> HIDE DEF R
<1>4. /\ WellFormed(table') /\ table'.slots = R.slots
      /\ table'.count \in {R.count, R.count - 1} /\ table'.val = [R.val EXCEPT ![k] = << >>]
  BY <1>2, <1>3, RemovedKeeps
<1>5. table.count \in Nat /\ table.slots \in Nat /\ table.slots > 1
  BY <1>1, SizesBound DEF WellFormed, Tables
<1>6. HashInv'  BY <1>1, <1>2, <1>3, <1>4 DEF HashInv
<1>7. Slack  BY <1>2, <1>4, <1>5 DEF Slack
<1> QED  BY <1>6, <1>7

\* kvs_hash_del, shrinking or not.
LEMMA HashDelStep ==
  ASSUME HashInv, NEW k \in HashKeys, HashDel(k) \/ DelNoShrink(k)
  PROVE  HashInv' /\ Slack
<1> DEFINE D == Unchained(table, k)
<1>1. /\ Present(table, k) /\ hashDict' = [hashDict EXCEPT ![k] = << >>]
      /\ table' = D \/ (Sparse(D) /\ table' = Shrunk(D))
  BY DEF HashDel, DelNoShrink
<1>2. WellFormed(table) /\ hashDict = table.val  BY DEF HashInv
<1>3. /\ WellFormed(D) /\ D.val = [table.val EXCEPT ![k] = << >>] /\ D.slots = table.slots
      /\ Sparse(D) => /\ WellFormed(Shrunk(D)) /\ Shrunk(D).val = D.val
                      /\ 2 * Shrunk(D).count < Shrunk(D).slots
                      /\ Shrunk(D).slots <= table.slots
  <2>1. /\ WellFormed(D) /\ D.val = [table.val EXCEPT ![k] = << >>] /\ D.slots = table.slots
        /\ Sparse(D) => /\ WellFormed(Shrunk(D)) /\ Shrunk(D).val = D.val
                        /\ 2 * Shrunk(D).count < Shrunk(D).slots
    BY <1>1, <1>2, HashDelKeeps
  <2> HIDE DEF D
  <2>2. D.slots \in Nat  BY <2>1 DEF WellFormed, Tables
  <2>3. Sparse(D) => D.slots > InitSlots  BY DEF Sparse
  <2>4. Sparse(D) => Shrunk(D).slots = D.slots \div 2  BY <2>1, <2>3, ShrunkKeeps
  <2>5. D.slots \div 2 <= D.slots  BY <2>2
  <2> QED  BY <2>1, <2>4, <2>5
<1> HIDE DEF D
<1>4. table.slots \in Nat  BY <1>2 DEF WellFormed, Tables
<1>5. CASE table' = D  BY <1>1, <1>2, <1>3, <1>4, <1>5 DEF HashInv, Slack
<1>6. CASE Sparse(D) /\ table' = Shrunk(D)
  <2>1. table'.slots \in Nat  BY <1>3, <1>6 DEF WellFormed, Tables
  <2> QED  BY <1>1, <1>2, <1>3, <1>4, <1>6, <2>1 DEF HashInv, Slack
<1> QED  BY <1>1, <1>5, <1>6

\* An empty table is well formed.
LEMMA HashInvInit == HashInit => HashInv
<1> SUFFICES ASSUME HashInit PROVE HashInv  OBVIOUS
<1>1. /\ table.buckets = [b \in 0..(InitSlots - 1) |-> {}] /\ table.slots = InitSlots
      /\ table.count = 0 /\ table.val = [k \in HashKeys |-> << >>] /\ hashDict = table.val
  BY DEF HashInit
<1>2. InitSlots \in Sizes /\ InitSlots \in Nat  BY SizesDoubling, HashAssumption DEF Doubling
<1>3. table.buckets \in Buckets(InitSlots)  BY <1>1 DEF Buckets
<1>4. table \in Tables
  <2>1. table.buckets \in UNION {Buckets(m) : m \in Nat}  BY <1>2, <1>3
  <2>2. table.val \in [HashKeys -> Seq(Ids)]  BY <1>1
  <2>3. table = [buckets |-> table.buckets, slots |-> InitSlots, count |-> 0, val |-> table.val]
    BY DEF HashInit
  <2> QED  BY <1>2, <2>1, <2>2, <2>3 DEF Tables
<1>5. \A k \in HashKeys : ~Present(table, k)  BY <1>1, <1>2, SlotType DEF Present
<1>6. Nodes(table) = {}  BY <1>5 DEF Nodes
<1>7. IsFiniteSet(Nodes(table)) /\ Cardinality(Nodes(table)) = 0  BY <1>6, FS_EmptySet
<1> QED  BY <1>1, <1>2, <1>3, <1>4, <1>5, <1>7 DEF HashInv, WellFormed

\* Every operation keeps the table well formed, and a resize leaves slack.
LEMMA HashInvStep == HashInv /\ [HashNext]_hashVars => HashInv' /\ (HashNext => Slack)
<1> SUFFICES ASSUME HashInv, [HashNext]_hashVars PROVE HashInv' /\ (HashNext => Slack)  OBVIOUS
<1>1. ASSUME HashNext PROVE HashInv' /\ Slack
  <2>1. PICK k \in HashKeys :
          \/ \E v \in HashValues : HashSet(k, v) \/ HashSetFails(k, v)
          \/ HashDel(k) \/ DelNoShrink(k)
          \/ \E id \in Ids : HashAppend(k, id)
    BY <1>1 DEF HashNext
  <2> QED  BY <2>1, HashSetStep, HashSetFailsStep, HashDelStep, HashAppendStep
<1>2. CASE UNCHANGED hashVars
  <2>1. table' = table /\ hashDict' = hashDict  BY <1>2 DEF hashVars
  <2>2. HashInv'  BY <2>1 DEF HashInv
  <2> QED  BY <1>1, <2>2
<1> QED  BY <1>1, <1>2

\* A lookup in a well-formed table finds what was stored.
LEMMA HashInvLookup == HashInv => HashLookup
<1> SUFFICES ASSUME HashInv PROVE HashLookup  OBVIOUS
<1>1. WellFormed(table) /\ hashDict = table.val  BY DEF HashInv
<1>2. \A k \in HashKeys : hashDict[k] = IF Present(table, k) THEN table.val[k] ELSE << >>
  BY <1>1 DEF WellFormed
<1>3. table.count = Cardinality({k \in HashKeys : hashDict[k] # << >>})
  <2>1. Nodes(table) = {k \in HashKeys : hashDict[k] # << >>}  BY <1>1 DEF Nodes, WellFormed
  <2> QED  BY <1>1, <2>1 DEF WellFormed
<1>4. \A b, c \in DOMAIN table.buckets : b # c => table.buckets[b] \cap table.buckets[c] = {}
  <2>1. DOMAIN table.buckets = 0..(table.slots - 1)  BY <1>1 DEF WellFormed, Buckets
  <2> QED  BY <1>1, <2>1 DEF WellFormed
<1> QED  BY <1>2, <1>3, <1>4 DEF HashLookup

\* In every reachable state every node is in the chain of its key's slot, the
\* number of slots is INIT_HASH_SLOTS doubled some times, and the nodes are
\* the keys that kvs_hash_set has stored and nothing has deleted.
THEOREM HashInvariant == HashSpec => []HashInv
<1>1. HashInv /\ [HashNext]_hashVars => HashInv'  BY HashInvStep
<1> QED  BY HashInvInit, <1>1, PTL DEF HashSpec

\* A lookup of kvs_hash.c finds exactly what was stored, however often the
\* table has grown and shrunk, for every hash function.
THEOREM HashFinds == HashSpec => []HashLookup
<1>1. HashInv /\ [HashNext]_hashVars => HashInv'  BY HashInvStep
<1> QED  BY HashInvInit, <1>1, HashInvLookup, PTL DEF HashSpec

\* After a resize the table is far from resizing back: kvs_hash_set grows it
\* to at least a quarter full, kvs_hash_del shrinks it to less than half full.
THEOREM ResizesRarely == HashSpec => ResizeHasSlack
<1>1. HashInv /\ [HashNext]_hashVars => HashInv'  BY HashInvStep
<1>2. HashInv /\ [HashNext]_hashVars
        => [/\ table'.slots > table.slots => 4 * table'.count >= table'.slots
            /\ table'.slots < table.slots => 2 * table'.count < table'.slots]_hashVars
  BY HashInvStep DEF Slack
<1> QED  BY HashInvInit, <1>1, <1>2, PTL DEF HashSpec, ResizeHasSlack

-----------------------------------------------------------------------------
(* The tables of the chat commands *)

\* The index has an entry for each question that was indexed, and no other.
ChatTypeOK ==
  /\ vecs \in Seq([key : {Cut[k] : k \in Questions}, text : Questions])
  /\ indexed \subseteq Questions
  /\ DOMAIN idx = Words /\ DOMAIN put = Words
  /\ \A w \in Words : idx[w] \in Seq(STRING) /\ put[w] \in Seq(RecIds)

IndexExact ==
  /\ indexed = {vecs[i].text : i \in 1..Len(vecs)}
  /\ \A i \in 1..Len(vecs) : vecs[i].key = Cut[vecs[i].text]

\* A plain id that was put is among the pieces; if all are plain, the pieces
\* are the ids.
PiecesMatch ==
  \A w \in Words :
    /\ \A i \in 1..Len(put[w]) : Len(put[w][i]) = 1 => \E j \in 1..Len(idx[w]) : put[w][i] = <<idx[w][j]>>
    /\ Plain(w) => /\ Len(idx[w]) = Len(put[w])
                   /\ \A i \in 1..Len(put[w]) : put[w][i] = <<idx[w][i]>>

ChatInv == ChatTypeOK /\ IndexExact /\ PiecesMatch

-----------------------------------------------------------------------------
(* The search *)

\* Induction, for a set of numbers instead of an operator.
LEMMA AllNat ==
  ASSUME NEW S, 0 \in S, \A m \in Nat : m \in S => m + 1 \in S
  PROVE  \A m \in Nat : m \in S
<1> DEFINE T == {m \in Nat : m \notin S}
<1>1. SUFFICES ASSUME T # {} PROVE FALSE  OBVIOUS
<1>2. PICK x \in T : \A y \in T : x =< y
  <2>1. T \subseteq Nat  OBVIOUS
  <2> HIDE DEF T
  <2> QED  BY <1>1, <2>1, Least
<1>3. x \in Nat /\ x # 0  BY <1>2
<1>4. x - 1 \in Nat /\ x - 1 \notin T  BY <1>2, <1>3
<1>5. x - 1 \in S /\ (x - 1) + 1 = x  BY <1>3, <1>4
<1> QED  BY <1>2, <1>4, <1>5

\* A set of numbers that is not empty has an earliest one.
LEMMA EarliestIn ==
  ASSUME NEW S, S \subseteq Nat, S # {}
  PROVE  Earliest(S) \in S /\ \A j \in S : Earliest(S) <= j
BY Least DEF Earliest

\* Among entries 1 .. n some have the highest score.
LEMMA HighestExists ==
  ASSUME NEW f, NEW n \in Nat, NEW S, S \subseteq 1..n, S # {}, \A i \in S : f[i] \in Int
  PROVE  \E i \in S : \A j \in S : f[j] <= f[i]
<1> DEFINE P == {m \in Nat : \A T \in SUBSET S : T \subseteq 1..m /\ T # {} => \E i \in T : \A j \in T : f[j] <= f[i]}
<1>1. 0 \in P
  <2>1. \A T : T \subseteq 1..0 => T = {}  OBVIOUS
  <2> QED  BY <2>1
<1>2. ASSUME NEW m \in Nat, m \in P PROVE m + 1 \in P
  <2>1. SUFFICES ASSUME NEW T \in SUBSET S, T \subseteq 1..(m + 1), T # {}
                 PROVE  \E i \in T : \A j \in T : f[j] <= f[i]
    OBVIOUS
  <2> DEFINE U == T \ {m + 1}
  <2>2. U \in SUBSET S /\ U \subseteq 1..m  BY <2>1
  <2>3. CASE U = {}
    <3>1. T = {m + 1} /\ f[m + 1] \in Int  BY <2>1, <2>3
    <3> QED  BY <3>1
  <2>4. CASE U # {}
    <3>1. PICK i \in U : \A j \in U : f[j] <= f[i]  BY <1>2, <2>2, <2>4
    <3>2. CASE m + 1 \notin T  BY <3>1, <3>2
    <3>3. CASE m + 1 \in T /\ f[m + 1] <= f[i]  BY <3>1, <3>3
    <3>4. CASE m + 1 \in T /\ ~(f[m + 1] <= f[i])
      <4>1. ASSUME NEW j \in T PROVE f[j] <= f[m + 1]
        <5>1. f[j] \in Int /\ f[i] \in Int /\ f[m + 1] \in Int  BY <3>4
        <5>2. CASE j = m + 1  BY <5>1, <5>2
        <5>3. CASE j # m + 1
          <6>1. f[j] <= f[i]  BY <3>1, <5>3
          <6> QED  BY <3>4, <5>1, <6>1
        <5> QED  BY <5>2, <5>3
      <4> QED  BY <3>4, <4>1
    <3> QED  BY <3>2, <3>3, <3>4
  <2> QED  BY <2>3, <2>4
<1>3. n \in P
  <2> HIDE DEF P
  <2> QED  BY <1>1, <1>2, AllNat
<1> QED  BY <1>3

\* Similarities are numbers, and those of the table Sim.
LEMMA ScoreType ==
  ASSUME ChatTypeOK, NEW q \in Questions, NEW i \in 1..Len(vecs)
  PROVE  Score(q, i) \in Int /\ vecs[i].text \in Questions /\ Score(q, i) = Sim[<<q, vecs[i].text>>]
<1>1. vecs[i].text \in Questions
  <2> DEFINE C == {Cut[k] : k \in Questions}
  <2> DEFINE E == [key : C, text : Questions]
  <2>1. vecs \in Seq(E)  BY DEF ChatTypeOK
  <2> HIDE DEF E
  <2>2. vecs[i] \in E  BY <2>1
  <2> HIDE DEF C
  <2> QED  BY <2>2 DEF E
<1>2. <<q, vecs[i].text>> \in Questions \X Questions  BY <1>1
<1> QED  BY <1>1, <1>2, ChatAssumption DEF Score

\* If any entry has a score, match_find_best_key has a best one; if one is as
\* good as identical, so is the best; if none is, the best is so among all.
LEMMA BestFound ==
  ASSUME ChatTypeOK, NEW q \in Questions, Scored(q) # {}
  PROVE  /\ Scanned(q) # {} /\ Best(q) \in Scored(q) /\ Best(q) \in 1..Len(vecs)
         /\ \/ Score(q, Best(q)) >= Exact
            \/ \A i \in Scored(q) : Score(q, i) <= Score(q, Best(q))
<1> DEFINE exact == {i \in Scored(q) : Score(q, i) >= Exact}
           S == Scanned(q)
           f == [i \in 1..Len(vecs) |-> Score(q, i)]
           top == {i \in S : \A j \in S : Score(q, j) <= Score(q, i)}
<1>1. DOMAIN vecs = 1..Len(vecs) /\ Len(vecs) \in Nat  BY DEF ChatTypeOK
<1>2. Scored(q) \subseteq 1..Len(vecs) /\ Scored(q) \subseteq Nat  BY <1>1 DEF Scored
<1>3. S = IF exact = {} THEN Scored(q) ELSE {i \in Scored(q) : i <= Earliest(exact)}  BY DEF Scanned
<1>4. exact # {} => Earliest(exact) \in exact /\ Earliest(exact) \in S
  <2>1. SUFFICES ASSUME exact # {} PROVE Earliest(exact) \in exact /\ Earliest(exact) \in S  OBVIOUS
  <2>2. exact \subseteq Nat  BY <1>2
  <2>3. Earliest(exact) \in exact /\ Earliest(exact) \in Nat
    <3> HIDE DEF exact
    <3> QED  BY <2>1, <2>2, EarliestIn
  <2>4. Earliest(exact) \in Scored(q)  BY <2>3
  <2> HIDE DEF S, exact
  <2>5. Earliest(exact) <= Earliest(exact)  BY <2>3
  <2> QED  BY <1>3, <2>1, <2>3, <2>4, <2>5
<1> HIDE DEF S
<1>5. S # {} /\ S \subseteq Scored(q)  BY <1>3, <1>4
<1>6. \A i \in S : f[i] = Score(q, i) /\ f[i] \in Int  BY <1>2, <1>5, ScoreType
<1> HIDE DEF f
<1>7. \E i \in S : \A j \in S : f[j] <= f[i]  BY <1>1, <1>2, <1>5, <1>6, HighestExists
<1>8. top # {} /\ top \subseteq Nat  BY <1>2, <1>5, <1>6, <1>7
<1>9. Best(q) = Earliest(top)  BY DEF Best, S
<1>10. Best(q) \in top
  <2> HIDE DEF top
  <2> QED  BY <1>8, <1>9, EarliestIn
<1>11. Best(q) \in S /\ \A j \in S : Score(q, j) <= Score(q, Best(q))  BY <1>10
<1>12. CASE exact = {}  BY <1>2, <1>3, <1>5, <1>11, <1>12 DEF S
<1>13. CASE exact # {}
  <2> DEFINE x == Earliest(exact)
  <2>1. x \in exact /\ x \in S  BY <1>4, <1>13
  <2>2. Score(q, x) >= Exact /\ Score(q, x) <= Score(q, Best(q))  BY <1>11, <2>1
  <2>3. Score(q, x) \in Int /\ Score(q, Best(q)) \in Int /\ Exact \in Int
    <3>1. x \in 1..Len(vecs) /\ Best(q) \in 1..Len(vecs)  BY <1>2, <1>5, <1>11, <2>1
    <3> HIDE DEF x
    <3>2. Score(q, x) \in Int /\ Score(q, Best(q)) \in Int  BY <3>1, ScoreType
    <3>3. Exact \in Int  BY ChatAssumption
    <3> QED  BY <3>2, <3>3
  <2> HIDE DEF x
  <2>4. Score(q, Best(q)) >= Exact  BY <2>2, <2>3
  <2> QED  BY <1>2, <1>5, <1>11, <2>4 DEF S
<1> QED  BY <1>12, <1>13

\* The loop of MATCH finds the most similar question of an exact index.
LEMMA SearchAnswers ==
  ASSUME ChatTypeOK, IndexExact
  PROVE  MatchAnswersBest
<1> SUFFICES ASSUME NEW q \in Questions
             PROVE  LET near == {k \in indexed : Sim[<<q, k>>] >= Threshold}
                        best == {k \in near : Sim[<<q, k>>] >= Exact \/ \A j \in near : Sim[<<q, j>>] <= Sim[<<q, k>>]}
                    IN  (\A k \in best : Cut[k] = k) =>
                          IF near = {} THEN Answer(q) = 0 ELSE \E k \in best : Answer(q) = cache[k]
  BY DEF MatchAnswersBest
<1> DEFINE near == {k \in indexed : Sim[<<q, k>>] >= Threshold}
           best == {k \in near : Sim[<<q, k>>] >= Exact \/ \A j \in near : Sim[<<q, j>>] <= Sim[<<q, k>>]}
<1>1. /\ Threshold \in Nat /\ Exact \in Nat /\ Threshold <= Exact
      /\ \A k \in Questions : Sim[<<q, k>>] \in Int
  BY ChatAssumption
<1>2. ASSUME NEW i \in 1..Len(vecs)
      PROVE  vecs[i].text \in indexed /\ Score(q, i) \in Int /\ Score(q, i) = Sim[<<q, vecs[i].text>>]
  BY ScoreType DEF IndexExact
<1>3. DOMAIN vecs = 1..Len(vecs)  BY DEF ChatTypeOK
<1>4. CASE near = {}
  <2>1. SUFFICES ASSUME Matched(q) PROVE FALSE  BY <1>4 DEF Answer
  <2>2. Scored(q) # {}  BY <2>1 DEF Matched, Scanned
  <2>3. Best(q) \in 1..Len(vecs)  BY <2>2, BestFound
  <2>4. vecs[Best(q)].text \in near  BY <1>2, <2>1, <2>3 DEF Matched
  <2> QED  BY <1>4, <2>4
<1>5. CASE near # {}
  <2>1. PICK k \in near : TRUE  BY <1>5
  <2>2. ASSUME NEW j \in near
        PROVE  \E i \in 1..Len(vecs) : vecs[i].text = j /\ i \in Scored(q) /\ Score(q, i) = Sim[<<q, j>>]
    <3>1. PICK i \in 1..Len(vecs) : vecs[i].text = j  BY DEF IndexExact
    <3>2. Score(q, i) = Sim[<<q, j>>] /\ Score(q, i) \in Int  BY <1>2, <3>1
    <3>3. Score(q, i) >= 0  BY <1>1, <3>2
    <3> QED  BY <1>3, <3>1, <3>2, <3>3 DEF Scored
  <2>3. Scored(q) # {}  BY <2>1, <2>2
  <2> DEFINE b == Best(q)
             t == vecs[b].text
  <2>4. /\ Scanned(q) # {} /\ b \in Scored(q) /\ b \in 1..Len(vecs)
        /\ \/ Score(q, b) >= Exact
           \/ \A i \in Scored(q) : Score(q, i) <= Score(q, b)
    BY <2>3, BestFound
  <2>5. t \in indexed /\ Score(q, b) = Sim[<<q, t>>] /\ Score(q, b) \in Int  BY <1>2, <2>4
  <2> HIDE DEF b, t
  <2>6. Sim[<<q, t>>] >= Exact \/ \A j \in near : Sim[<<q, j>>] <= Sim[<<q, t>>]  BY <2>2, <2>4, <2>5
  <2>7. Sim[<<q, t>>] >= Threshold
    <3>1. CASE Sim[<<q, t>>] >= Exact  BY <1>1, <2>5, <3>1
    <3>2. CASE \A j \in near : Sim[<<q, j>>] <= Sim[<<q, t>>]
      <4>1. Sim[<<q, k>>] <= Sim[<<q, t>>] /\ Sim[<<q, k>>] >= Threshold  BY <2>1, <3>2
      <4>2. Sim[<<q, k>>] \in Int  BY <1>1, <2>1 DEF ChatTypeOK
      <4> QED  BY <1>1, <2>5, <4>1, <4>2
    <3> QED  BY <2>6, <3>1, <3>2
  <2>8. t \in best  BY <2>5, <2>6, <2>7
  <2>9. Matched(q)  BY <2>4, <2>5, <2>7 DEF Matched, b
  <2>10. Answer(q) = cache[Cut[t]]  BY <2>4, <2>9 DEF Answer, b, t, IndexExact
  <2> QED  BY <1>5, <2>8, <2>10
<1> QED  BY <1>4, <1>5

-----------------------------------------------------------------------------
(* The list of a keyword *)

\* build_records_newline has done the first n ids.
Building(F, ids, r) ==
  F = [n \in 0..Len(ids) |->
         IF n = 0 THEN << >>
         ELSE IF ids[n] \in RecIds /\ r[ids[n]] # 0
           THEN Append(F[n - 1], [id |-> ids[n], content |-> r[ids[n]]])
           ELSE F[n - 1]]

\* The loop over the ids under a keyword has a function of its results.
LEMMA BuildingExists ==
  ASSUME NEW ids, Len(ids) \in Nat, NEW r
  PROVE  \E F : Building(F, ids, r)
<1> DEFINE Step(F, n) ==
             IF n = 0 THEN << >>
             ELSE IF ids[n] \in RecIds /\ r[ids[n]] # 0
               THEN Append(F[n - 1], [id |-> ids[n], content |-> r[ids[n]]])
               ELSE F[n - 1]
           Upto(F, m) == \A n \in 0..m : F[n] = Step(F, n)
           P == {m \in Nat : \E F : Upto(F, m)}
<1>1. 0 \in P
  <2> DEFINE F == [n \in Nat |-> << >>]
  <2>1. Upto(F, 0)  OBVIOUS
  <2> QED  BY <2>1
<1>2. ASSUME NEW m \in Nat, m \in P PROVE m + 1 \in P
  <2>1. PICK F : Upto(F, m)  BY <1>2
  <2> DEFINE G == [n \in Nat |-> IF n = m + 1 THEN Step(F, m + 1) ELSE F[n]]
  <2>2. ASSUME NEW n \in 0..(m + 1) PROVE G[n] = Step(G, n)
    <3>1. CASE n = m + 1
      <4>1. G[n] = Step(F, n) /\ G[n - 1] = F[n - 1]  BY <3>1
      <4> HIDE DEF G
      <4> QED  BY <4>1
    <3>2. CASE n # m + 1
      <4>1. n \in 0..m /\ G[n] = F[n] /\ (n # 0 => G[n - 1] = F[n - 1])  BY <3>2
      <4>2. F[n] = Step(F, n)  BY <2>1, <4>1
      <4> HIDE DEF G
      <4> QED  BY <4>1, <4>2
    <3> QED  BY <3>1, <3>2
  <2> HIDE DEF G, Step
  <2>3. Upto(G, m + 1)  BY <2>2
  <2> QED  BY <2>3
<1>3. Len(ids) \in P
  <2> HIDE DEF P
  <2> QED  BY <1>1, <1>2, AllNat
<1>4. PICK F : Upto(F, Len(ids))  BY <1>3
<1> DEFINE G == [n \in 0..Len(ids) |-> F[n]]
<1>5. ASSUME NEW n \in 0..Len(ids) PROVE G[n] = Step(G, n)
  <2>1. F[n] = Step(F, n)  BY <1>4
  <2>2. G[n] = F[n] /\ (n # 0 => G[n - 1] = F[n - 1])  OBVIOUS
  <2> HIDE DEF G
  <2> QED  BY <2>1, <2>2
<1>6. G = [n \in 0..Len(ids) |-> G[n]]  OBVIOUS
<1> HIDE DEF G
<1>7. G = [n \in 0..Len(ids) |-> Step(G, n)]
  <2> HIDE DEF Step
  <2> QED  BY <1>5, <1>6
<1> QED  BY <1>7 DEF Building

\* Every id with a record is in the answer.
LEMMA RecordsBuilt ==
  ASSUME NEW ids, Len(ids) \in Nat, NEW i \in 1..Len(ids), ids[i] \in RecIds, rec[ids[i]] # 0
  PROVE  Record(ids[i]) \in ToSet(BuildRecords(ids))
<1> DEFINE F == CHOOSE G : Building(G, ids, rec)
<1>1. BuildRecords(ids) = F[Len(ids)]  BY DEF BuildRecords, Building, Record
<1>2. Building(F, ids, rec)  BY BuildingExists
<1> HIDE DEF F
<1>3. \A n \in 0..Len(ids) :
        F[n] = IF n = 0 THEN << >>
               ELSE IF ids[n] \in RecIds /\ rec[ids[n]] # 0
                 THEN Append(F[n - 1], [id |-> ids[n], content |-> rec[ids[n]]])
                 ELSE F[n - 1]
  BY <1>2 DEF Building
<1> DEFINE All == {[id |-> id, content |-> rec[id]] : id \in RecIds}
           x == [id |-> ids[i], content |-> rec[ids[i]]]
           P == {m \in Nat : m <= Len(ids) => F[m] \in Seq(All) /\ (m >= i => \E k \in 1..Len(F[m]) : F[m][k] = x)}
<1>4. 0 \in P
  <2>0. 0 \in 0..Len(ids) /\ ~(0 >= i)  OBVIOUS
  <2>1. F[0] = << >> /\ ~(0 >= i)  BY <1>3, <2>0
  <2> HIDE DEF All
  <2>2. F[0] \in Seq(All)  BY <2>1
  <2> QED  BY <2>1, <2>2
<1>5. ASSUME NEW m \in Nat, m \in P PROVE m + 1 \in P
  <2>1. SUFFICES ASSUME m + 1 <= Len(ids)
                 PROVE  F[m + 1] \in Seq(All) /\ (m + 1 >= i => \E k \in 1..Len(F[m + 1]) : F[m + 1][k] = x)
    OBVIOUS
  <2>2. F[m] \in Seq(All) /\ (m >= i => \E k \in 1..Len(F[m]) : F[m][k] = x)  BY <1>5, <2>1
  <2>3. m + 1 \in 0..Len(ids) /\ m + 1 # 0 /\ (m + 1) - 1 = m  BY <2>1
  <2> DEFINE y == [id |-> ids[m + 1], content |-> rec[ids[m + 1]]]
  <2>4. F[m + 1] = IF ids[m + 1] \in RecIds /\ rec[ids[m + 1]] # 0 THEN Append(F[m], y) ELSE F[m]
    BY <1>3, <2>3
  <2>5. m + 1 >= i => m >= i \/ m + 1 = i  OBVIOUS
  <2>6. CASE ids[m + 1] \in RecIds /\ rec[ids[m + 1]] # 0
    <3>1. y \in All  BY <2>6
    <3>2. F[m + 1] = Append(F[m], y)  BY <2>4, <2>6
    <3>3. m + 1 = i => y = x  OBVIOUS
    <3> HIDE DEF All, x, y
    <3>4. F[m + 1] \in Seq(All) /\ Len(F[m + 1]) = Len(F[m]) + 1 /\ F[m + 1][Len(F[m]) + 1] = y
          /\ \A k \in 1..Len(F[m]) : F[m + 1][k] = F[m][k]
      BY <2>2, <3>1, <3>2
    <3>5. Len(F[m]) \in Nat  BY <2>2
    <3>6. Len(F[m]) + 1 \in 1..Len(F[m + 1]) /\ 1..Len(F[m]) \subseteq 1..Len(F[m + 1])  BY <3>4, <3>5
    <3> QED  BY <2>2, <2>5, <3>3, <3>4, <3>6
  <2>7. CASE ~(ids[m + 1] \in RecIds /\ rec[ids[m + 1]] # 0)
    <3>1. F[m + 1] = F[m]  BY <2>4, <2>7
    <3>2. m + 1 # i  BY <2>7
    <3> HIDE DEF All, x
    <3> QED  BY <2>2, <2>5, <3>1, <3>2
  <2> QED  BY <2>6, <2>7
<1>6. Len(ids) \in P
  <2> HIDE DEF P
  <2> QED  BY <1>4, <1>5, AllNat
<1>7. F[Len(ids)] \in Seq(All) /\ \E k \in 1..Len(F[Len(ids)]) : F[Len(ids)][k] = x
  <2>1. Len(ids) <= Len(ids) /\ Len(ids) >= i  OBVIOUS
  <2> QED  BY <1>6, <2>1
<1> HIDE DEF All, x
<1>8. x \in ToSet(F[Len(ids)])  BY <1>7 DEF ToSet
<1> QED  BY <1>1, <1>8 DEF Record, x

\* GETIDXREC lists what the pieces under a keyword name.
LEMMA ListAnswers ==
  ASSUME ChatTypeOK, PiecesMatch
  PROVE  IndexedRecords
<1> SUFFICES ASSUME NEW w \in Words
             PROVE  /\ \A id \in ToSet(put[w]) : Len(id) = 1 /\ rec[id] # 0 => Record(id) \in ToSet(GetIdxRec(w))
                    /\ Plain(w) => GetIdxRec(w) = BuildRecords(put[w])
  BY DEF IndexedRecords
<1> DEFINE ids == [i \in DOMAIN idx[w] |-> <<idx[w][i]>>]
<1>1. idx[w] \in Seq(STRING) /\ put[w] \in Seq(RecIds)  BY DEF ChatTypeOK
<1>2. GetIdxRec(w) = BuildRecords(ids)  BY DEF GetIdxRec
<1>3. Len(ids) = Len(idx[w]) /\ Len(ids) \in Nat /\ DOMAIN ids = 1..Len(idx[w]) /\ \A i \in 1..Len(idx[w]) : ids[i] = <<idx[w][i]>>
  BY <1>1
<1>4. ASSUME NEW id \in ToSet(put[w]), Len(id) = 1, rec[id] # 0 PROVE Record(id) \in ToSet(GetIdxRec(w))
  <2>1. PICK i \in 1..Len(put[w]) : put[w][i] = id  BY <1>1 DEF ToSet
  <2>2. id \in RecIds  BY <1>1, <2>1
  <2>3. PICK j \in 1..Len(idx[w]) : id = <<idx[w][j]>>  BY <1>4, <2>1 DEF PiecesMatch
  <2>4. ids[j] = id /\ j \in 1..Len(ids)  BY <1>3, <2>3
  <2> HIDE DEF ids
  <2> QED  BY <1>2, <1>3, <1>4, <2>2, <2>4, RecordsBuilt
<1>5. ASSUME Plain(w) PROVE GetIdxRec(w) = BuildRecords(put[w])
  <2>1. Len(idx[w]) = Len(put[w]) /\ \A i \in 1..Len(put[w]) : put[w][i] = <<idx[w][i]>>  BY <1>5 DEF PiecesMatch
  <2>2. ids = put[w]
    <3>1. put[w] = [i \in 1..Len(put[w]) |-> put[w][i]]  BY <1>1
    <3>2. DOMAIN idx[w] = 1..Len(put[w])  BY <1>1, <2>1
    <3> QED  BY <2>1, <3>1, <3>2
  <2> QED  BY <1>2, <2>2
<1> QED  BY <1>4, <1>5

-----------------------------------------------------------------------------
(* The commands *)

\* Empty tables agree with an empty index.
LEMMA ChatInvInit == ChatInit => ChatInv
<1> SUFFICES ASSUME ChatInit PROVE ChatInv  OBVIOUS
<1>1. /\ vecs = << >> /\ indexed = {} /\ DOMAIN idx = Words /\ DOMAIN put = Words
      /\ \A w \in Words : idx[w] = << >> /\ put[w] = << >>
  BY DEF ChatInit
<1>2. ChatTypeOK
  <2> DEFINE E == [key : {Cut[k] : k \in Questions}, text : Questions]
  <2> HIDE DEF E
  <2>1. vecs \in Seq(E)  BY <1>1
  <2>2. \A w \in Words : idx[w] \in Seq(STRING) /\ put[w] \in Seq(RecIds)
    <3>1. << >> \in Seq(STRING) /\ << >> \in Seq(RecIds)  OBVIOUS
    <3> QED  BY <1>1, <3>1
  <2>3. vecs \in Seq([key : {Cut[k] : k \in Questions}, text : Questions])  BY <2>1 DEF E
  <2> QED  BY <1>1, <2>2, <2>3 DEF ChatTypeOK
<1>3. IndexExact  BY <1>1 DEF IndexExact
<1>4. PiecesMatch  BY <1>1 DEF PiecesMatch
<1> QED  BY <1>2, <1>3, <1>4 DEF ChatInv

\* KEEP, the table first and the index second.
LEMMA KeepKeeps ==
  ASSUME ChatInv, NEW k \in Questions, NEW v, CmdKeep(k, v)
  PROVE  ChatInv'
<1> DEFINE C == {Cut[q] : q \in Questions}
           E == [key : C, text : Questions]
           e == Entry(k)
<1>1. ChatTypeOK /\ IndexExact /\ PiecesMatch  BY DEF ChatInv
<1>2. vecs \in Seq(E)  BY <1>1 DEF ChatTypeOK
<1>3. e \in E /\ e.text = k /\ e.key = Cut[k]  BY DEF Entry
<1>4. vecs' = Append(vecs, e) /\ indexed' = indexed \cup {k} /\ idx' = idx /\ put' = put  BY DEF CmdKeep
<1> HIDE DEF E, e
<1>5. /\ vecs' \in Seq(E) /\ Len(vecs') = Len(vecs) + 1 /\ vecs'[Len(vecs) + 1] = e /\ Len(vecs) \in Nat
      /\ \A i \in 1..Len(vecs) : vecs'[i] = vecs[i]
  BY <1>2, <1>3, <1>4
<1>6. ChatTypeOK'  BY <1>1, <1>4, <1>5 DEF ChatTypeOK, E
<1>7. \A i \in 1..Len(vecs') : i \in 1..Len(vecs) \/ i = Len(vecs) + 1  BY <1>5
<1>8. Len(vecs) + 1 \in 1..Len(vecs') /\ 1..Len(vecs) \subseteq 1..Len(vecs')  BY <1>5
<1>9. IndexExact'
  <2>1. indexed' \subseteq {vecs'[i].text : i \in 1..Len(vecs')}
    <3>1. ASSUME NEW q \in indexed PROVE \E i \in 1..Len(vecs') : q = vecs'[i].text
      <4>1. PICK i \in 1..Len(vecs) : q = vecs[i].text  BY <1>1 DEF IndexExact
      <4> QED  BY <1>5, <1>8, <4>1
    <3>2. k = vecs'[Len(vecs) + 1].text  BY <1>3, <1>5
    <3> QED  BY <1>4, <1>8, <3>1, <3>2
  <2>2. ASSUME NEW i \in 1..Len(vecs') PROVE vecs'[i].text \in indexed' /\ vecs'[i].key = Cut[vecs'[i].text]
    <3>1. CASE i \in 1..Len(vecs)  BY <1>1, <1>4, <1>5, <3>1 DEF IndexExact
    <3>2. CASE i = Len(vecs) + 1  BY <1>3, <1>4, <1>5, <3>2
    <3> QED  BY <1>7, <3>1, <3>2
  <2> QED  BY <2>1, <2>2 DEF IndexExact
<1>10. PiecesMatch'  BY <1>1, <1>4 DEF PiecesMatch, Plain
<1> QED  BY <1>6, <1>9, <1>10 DEF ChatInv

\* SETIDX adds the pieces of one id.
LEMMA SetidxKeeps ==
  ASSUME ChatInv, NEW w \in Words, NEW id \in RecIds, Setidx(w, id)
  PROVE  PiecesMatch' /\ ChatTypeOK'
<1> DEFINE a == idx[w]
           p == put[w]
           listed == Listed(w, id)
           had == id \in ToSet(p)
           a1 == IF listed THEN a ELSE a \o id
           p1 == IF had THEN p ELSE Append(p, id)
<1>1. ChatTypeOK /\ PiecesMatch  BY DEF ChatInv
<1>2. DOMAIN idx = Words /\ DOMAIN put = Words /\ a \in Seq(STRING) /\ p \in Seq(RecIds)
  BY <1>1 DEF ChatTypeOK
<1>3. idx' = [idx EXCEPT ![w] = a1] /\ put' = [put EXCEPT ![w] = p1] /\ vecs' = vecs /\ indexed' = indexed
  BY DEF Setidx
<1>4. id \in Seq(STRING) /\ id # << >>  BY ChatAssumption
<1>5. listed <=> \E j \in 1..Len(a) : id = <<a[j]>>  BY <1>2 DEF Listed
<1>6. had <=> \E j \in 1..Len(p) : id = p[j]  BY <1>2 DEF ToSet
<1>7. /\ \A i \in 1..Len(p) : Len(p[i]) = 1 => \E j \in 1..Len(a) : p[i] = <<a[j]>>
      /\ Plain(w) => Len(a) = Len(p) /\ \A i \in 1..Len(p) : p[i] = <<a[i]>>
  BY <1>1 DEF PiecesMatch
<1>8. Plain(w) <=> \A i \in 1..Len(p) : Len(p[i]) = 1  BY <1>2 DEF Plain
<1>9. /\ idx'[w] = a1 /\ put'[w] = p1
      /\ \A u \in Words : u # w => idx'[u] = idx[u] /\ put'[u] = put[u]
      /\ DOMAIN idx' = Words /\ DOMAIN put' = Words
  BY <1>2, <1>3
<1> HIDE DEF a, p, listed, had
<1>10. /\ a1 \in Seq(STRING) /\ Len(a) \in Nat /\ Len(a) <= Len(a1) /\ Len(id) \in Nat
       /\ \A j \in 1..Len(a) : a1[j] = a[j]
  <2> DEFINE c == a \o id
  <2>1. a \in Seq(STRING) /\ id \in Seq(STRING)  BY <1>2, <1>4
  <2>2. c \in Seq(STRING) /\ Len(c) = Len(a) + Len(id) /\ Len(a) \in Nat /\ Len(id) \in Nat  BY ONLY <2>1
  <2>3. \A j \in 1..Len(a) : c[j] = a[j]  BY ONLY <2>1
  <2> HIDE DEF c
  <2>4. a1 = IF listed THEN a ELSE c  BY DEF c
  <2>5. Len(a) <= Len(a1)  BY <2>2, <2>4
  <2> HIDE DEF a1
  <2> QED  BY <2>1, <2>2, <2>3, <2>4, <2>5
<1>11. /\ p1 \in Seq(RecIds) /\ Len(p) \in Nat /\ Len(p) <= Len(p1)
       /\ \A i \in 1..Len(p) : p1[i] = p[i]
       /\ \A i \in 1..Len(p1) : i \in 1..Len(p) \/ (~had /\ i = Len(p) + 1 /\ p1[i] = id)
       /\ (~had => Len(p1) = Len(p) + 1)
  BY <1>2
<1>12. ~listed => Len(a1) = Len(a) + Len(id) /\ \A j \in 1..Len(id) : a1[Len(a) + j] = id[j]
  BY <1>2, <1>4
<1>13. Len(id) = 1 => id = <<id[1]>>  BY <1>4
<1> HIDE DEF a1, p1
<1>14. ASSUME NEW i \in 1..Len(p1), Len(p1[i]) = 1 PROVE \E j \in 1..Len(a1) : p1[i] = <<a1[j]>>
  <2>1. CASE i \in 1..Len(p)
    <3>1. PICK j \in 1..Len(a) : p[i] = <<a[j]>>  BY <1>7, <1>11, <1>14, <2>1
    <3>2. j \in 1..Len(a1) /\ a1[j] = a[j]  BY <1>10
    <3> QED  BY <1>11, <2>1, <3>1, <3>2
  <2>2. CASE i = Len(p) + 1 /\ p1[i] = id
    <3>1. Len(id) = 1 /\ id = <<id[1]>>  BY <1>13, <1>14, <2>2
    <3>2. CASE listed
      <4>1. PICK j \in 1..Len(a) : id = <<a[j]>>  BY <1>5, <3>2
      <4>2. j \in 1..Len(a1) /\ a1[j] = a[j]  BY <1>10
      <4> QED  BY <2>2, <4>1, <4>2
    <3>3. CASE ~listed
      <4>1. Len(a1) = Len(a) + 1 /\ a1[Len(a) + 1] = id[1]  BY <1>12, <3>1, <3>3
      <4>2. Len(a) + 1 \in 1..Len(a1)  BY <1>10, <4>1
      <4> QED  BY <2>2, <3>1, <4>1, <4>2
    <3> QED  BY <3>2, <3>3
  <2> QED  BY <1>11, <2>1, <2>2
<1>15. ASSUME \A i \in 1..Len(p1) : Len(p1[i]) = 1
       PROVE  Len(a1) = Len(p1) /\ \A i \in 1..Len(p1) : p1[i] = <<a1[i]>>
  <2>1. \A i \in 1..Len(p) : i \in 1..Len(p1)  BY <1>11
  <2>2. Plain(w)  BY <1>8, <1>11, <1>15, <2>1
  <2>3. Len(a) = Len(p) /\ \A i \in 1..Len(p) : p[i] = <<a[i]>>  BY <1>7, <2>2
  <2>4. listed <=> had  BY <1>5, <1>6, <2>3
  <2>5. CASE had  BY <2>3, <2>4, <2>5 DEF a1, p1
  <2>6. CASE ~had
    <3>1. Len(p1) = Len(p) + 1 /\ Len(p) + 1 \in 1..Len(p1)  BY <1>11, <2>6
    <3>2. p1[Len(p) + 1] = id
      <4>1. ~(Len(p) + 1 \in 1..Len(p))  BY <1>11
      <4> QED  BY <1>11, <3>1, <4>1
    <3>3. Len(id) = 1 /\ id = <<id[1]>>  BY <1>13, <1>15, <3>1, <3>2
    <3>4. Len(a1) = Len(a) + 1 /\ a1[Len(a) + 1] = id[1]  BY <1>12, <2>4, <2>6, <3>3
    <3>5. ASSUME NEW i \in 1..Len(p1) PROVE p1[i] = <<a1[i]>>
      <4>1. CASE i \in 1..Len(p)
        <5>1. p1[i] = p[i] /\ a1[i] = a[i]  BY <1>10, <1>11, <2>3, <4>1
        <5> QED  BY <2>3, <4>1, <5>1
      <4>2. CASE i = Len(p) + 1
        <5>1. a1[i] = id[1]  BY <2>3, <3>4, <4>2
        <5> QED  BY <3>2, <3>3, <4>2, <5>1
      <4> QED  BY <1>11, <4>1, <4>2
    <3> QED  BY <2>3, <3>1, <3>4, <3>5
  <2> QED  BY <2>5, <2>6
<1>16. DOMAIN p1 = 1..Len(p1)  BY <1>11
<1>17. ASSUME NEW u \in Words
       PROVE  /\ \A i \in 1..Len(put'[u]) : Len(put'[u][i]) = 1 => \E j \in 1..Len(idx'[u]) : put'[u][i] = <<idx'[u][j]>>
              /\ Plain(u)' => /\ Len(idx'[u]) = Len(put'[u])
                              /\ \A i \in 1..Len(put'[u]) : put'[u][i] = <<idx'[u][i]>>
  <2>1. CASE u = w
    <3>1. Plain(w)' => \A i \in 1..Len(p1) : Len(p1[i]) = 1  BY <1>9, <1>16 DEF Plain
    <3> QED  BY <1>9, <1>14, <1>15, <2>1, <3>1
  <2>2. CASE u # w
    <3>1. idx'[u] = idx[u] /\ put'[u] = put[u]  BY <1>9, <2>2
    <3>2. Plain(u)' => Plain(u)  BY <3>1 DEF Plain
    <3> QED  BY <1>1, <3>1, <3>2 DEF PiecesMatch
  <2> QED  BY <2>1, <2>2
<1>18. PiecesMatch'  BY <1>17 DEF PiecesMatch
<1>19. ASSUME NEW u \in Words PROVE idx'[u] \in Seq(STRING) /\ put'[u] \in Seq(RecIds)
  <2>1. CASE u = w  BY <1>9, <1>10, <1>11, <2>1
  <2>2. CASE u # w  BY <1>1, <1>9, <2>2 DEF ChatTypeOK
  <2> QED  BY <2>1, <2>2
<1>20. ChatTypeOK'  BY <1>1, <1>3, <1>9, <1>19 DEF ChatTypeOK
<1> QED  BY <1>18, <1>20

\* SETIDX that fails adds none.
LEMMA SetidxFailsKeeps ==
  ASSUME ChatInv, NEW w \in Words, NEW id \in RecIds, SetidxFails(w, id)
  PROVE  PiecesMatch' /\ ChatTypeOK'
<1>1. ChatTypeOK /\ PiecesMatch  BY DEF ChatInv
<1>2. DOMAIN idx = Words /\ DOMAIN put = Words  BY <1>1 DEF ChatTypeOK
<1>3. idx' = [idx EXCEPT ![w] = << >>] /\ put' = [put EXCEPT ![w] = << >>] /\ vecs' = vecs /\ indexed' = indexed
  BY DEF SetidxFails
<1>4. /\ idx'[w] = << >> /\ put'[w] = << >>
      /\ \A u \in Words : u # w => idx'[u] = idx[u] /\ put'[u] = put[u]
      /\ DOMAIN idx' = Words /\ DOMAIN put' = Words
  BY <1>2, <1>3
<1>5. ASSUME NEW u \in Words
      PROVE  /\ \A i \in 1..Len(put'[u]) : Len(put'[u][i]) = 1 => \E j \in 1..Len(idx'[u]) : put'[u][i] = <<idx'[u][j]>>
             /\ Plain(u)' => /\ Len(idx'[u]) = Len(put'[u])
                             /\ \A i \in 1..Len(put'[u]) : put'[u][i] = <<idx'[u][i]>>
             /\ idx'[u] \in Seq(STRING) /\ put'[u] \in Seq(RecIds)
  <2>1. CASE u = w
    <3>1. idx'[u] = << >> /\ put'[u] = << >>  BY <1>4, <2>1
    <3>2. << >> \in Seq(STRING) /\ << >> \in Seq(RecIds) /\ Len(<< >>) = 0 /\ 1..0 = {}  OBVIOUS
    <3> QED  BY <3>1, <3>2
  <2>2. CASE u # w
    <3>1. idx'[u] = idx[u] /\ put'[u] = put[u]  BY <1>4, <2>2
    <3>2. Plain(u)' => Plain(u)  BY <3>1 DEF Plain
    <3>3. idx'[u] \in Seq(STRING) /\ put'[u] \in Seq(RecIds)  BY <1>1, <3>1 DEF ChatTypeOK
    <3>4. /\ \A i \in 1..Len(put[u]) : Len(put[u][i]) = 1 => \E j \in 1..Len(idx[u]) : put[u][i] = <<idx[u][j]>>
          /\ Plain(u) => /\ Len(idx[u]) = Len(put[u])
                         /\ \A i \in 1..Len(put[u]) : put[u][i] = <<idx[u][i]>>
      BY <1>1 DEF PiecesMatch
    <3> QED  BY ONLY <3>1, <3>2, <3>3, <3>4
  <2> QED  BY <2>1, <2>2
<1>6. PiecesMatch'  BY <1>5 DEF PiecesMatch
<1>7. ChatTypeOK'  BY <1>1, <1>3, <1>4, <1>5 DEF ChatTypeOK
<1> QED  BY <1>6, <1>7

\* Every command keeps tables and index in agreement.
LEMMA ChatInvNext == ChatInv /\ [ChatNext]_chatVars => ChatInv'
<1> SUFFICES ASSUME ChatInv, [ChatNext]_chatVars PROVE ChatInv'  OBVIOUS
<1>1. ASSUME UNCHANGED <<vecs, idx, indexed, put>> PROVE ChatInv'
  BY <1>1 DEF ChatInv, ChatTypeOK, IndexExact, PiecesMatch, Plain
<1>2. CASE Keeping
  <2>1. PICK k \in Questions, v \in Versions : CmdKeep(k, v) \/ KeepUnindexed(k, v) \/ KeepFails(k)
    BY <1>2 DEF Keeping
  <2>2. CASE CmdKeep(k, v)  BY <2>2, KeepKeeps
  <2>3. CASE KeepUnindexed(k, v) \/ KeepFails(k)  BY <1>1, <2>3 DEF KeepUnindexed, KeepFails
  <2> QED  BY <2>1, <2>2, <2>3
<1>3. CASE Indexing
  <2>1. PICK id \in RecIds :
          \/ SetrecFails(id) \/ \E v \in Versions : Setrec(id, v)
          \/ \E w \in Words : Setidx(w, id) \/ SetidxFails(w, id)
    BY <1>3 DEF Indexing
  <2>2. CASE SetrecFails(id) \/ \E v \in Versions : Setrec(id, v)  BY <1>1, <2>2 DEF SetrecFails, Setrec
  <2>3. ASSUME NEW w \in Words, Setidx(w, id) \/ SetidxFails(w, id) PROVE ChatInv'
    <3>1. PiecesMatch' /\ ChatTypeOK'  BY <2>3, SetidxKeeps, SetidxFailsKeeps
    <3>2. vecs' = vecs /\ indexed' = indexed  BY <2>3 DEF Setidx, SetidxFails
    <3>3. IndexExact'  BY <3>2 DEF ChatInv, IndexExact
    <3> QED  BY <3>1, <3>3 DEF ChatInv
  <2> QED  BY <2>1, <2>2, <2>3
<1>4. CASE UNCHANGED chatVars  BY <1>1, <1>4 DEF chatVars
<1> QED  BY <1>2, <1>3, <1>4 DEF ChatNext

\* The index of KEEP has an entry for exactly the questions indexed, and the
\* pieces of a keyword are those of the ids put under it (ChatInv).
THEOREM ChatInvariant == ChatSpec => []ChatInv
<1> QED  BY ChatInvInit, ChatInvNext, PTL DEF ChatSpec

\* MATCH answers with the value of the most similar indexed question, or of
\* one as good as identical (MatchAnswersBest).
THEOREM MatchIsBest == ChatSpec => []MatchAnswersBest
<1>1. ChatInv => MatchAnswersBest  BY SearchAnswers DEF ChatInv
<1> QED  BY <1>1, ChatInvariant, PTL

\* GETIDXREC returns the present records of the ids put under the keyword
\* (IndexedRecords).
THEOREM RecordsFound == ChatSpec => []IndexedRecords
<1>1. ChatInv => IndexedRecords  BY ListAnswers DEF ChatInv
<1> QED  BY <1>1, ChatInvariant, PTL

-----------------------------------------------------------------------------
(* The skip list *)

\* next holds the pointers of a level whose nodes are A: each node and the
\* header point to the next of A, the last one to the end, any other nowhere.
IsLevel(next, A) ==
  /\ next \in [SkipNodes -> SkipNodes]
  /\ \A n \in SkipNodes : n \notin A /\ n # 0 => next[n] = 0
  /\ \A n \in A \cup {0} : next[n] = 0 \/ (next[n] \in A /\ n < next[n])
  /\ \A n \in A \cup {0}, m \in A : n < m => next[n] # 0 /\ next[n] <= m

\* The nodes of B that reach level i.
High(S, B, i) == {k \in B : S.lvl[k] >= i}

SkipLists ==
  [fwd : [Levels -> [SkipNodes -> SkipNodes]], lvl : [SkipKeys -> Levels],
   len : [SkipKeys -> Nat], level : Levels, count : Nat]

\* S is a skip list of the keys B.
ListOf(S, B) ==
  /\ S \in SkipLists
  /\ B \subseteq SkipKeys
  /\ \A i \in Levels : IsLevel(S.fwd[i], High(S, B, i))
  /\ \A k \in B : S.lvl[k] <= S.level
  /\ S.count = Cardinality(B)

SkipStored == {k \in SkipKeys : skipDict[k] >= 0}

\* The list holds the keys that have a value, each with its length.
SkipInv ==
  /\ skipDict \in [SkipKeys -> Nat \cup {-1}]
  /\ ListOf(list, SkipStored)
  /\ \A k \in SkipStored : list.len[k] = skipDict[k]

\* The last node of A before k, the header if there is none.
Prior(A, k) == CHOOSE p \in A \cup {0} : p < k /\ \A m \in A : m < k => m <= p

\* A set of nodes that is not empty has a last one.
LEMMA Greatest ==
  ASSUME NEW S, S \subseteq SkipNodes, S # {}
  PROVE  \E m \in S : \A n \in S : n <= m
<1> DEFINE T == {j \in Nat : LastKey - j \in S}
<1>1. LastKey \in Nat  BY SkipAssumption
<1>2. PICK s \in S : TRUE  OBVIOUS
<1>3. LastKey - s \in T  BY <1>1, <1>2 DEF SkipNodes
<1>4. T \subseteq Nat /\ T # {}  BY <1>3
<1>5. PICK j \in T : \A i \in T : j <= i
  <2> HIDE DEF T
  <2> QED  BY <1>4, Least
<1>6. \A n \in S : LastKey - n \in T  BY <1>1 DEF SkipNodes
<1> QED  BY <1>1, <1>5, <1>6 DEF SkipNodes

\* The node before k on a level with the nodes A.
LEMMA PriorIs ==
  ASSUME NEW A, A \subseteq SkipKeys, NEW k \in SkipKeys
  PROVE  /\ Prior(A, k) \in A \cup {0}
         /\ Prior(A, k) < k
         /\ \A m \in A : m < k => m <= Prior(A, k)
<1> DEFINE S == {p \in A \cup {0} : p < k}
<1>0. LastKey \in Nat /\ \A m \in A : m \in 1..LastKey  BY SkipAssumption DEF SkipKeys
<1>1. S \subseteq SkipNodes /\ 0 \in S
  <2>1. 0 \in SkipNodes /\ 0 \in S  BY <1>0 DEF SkipNodes, SkipKeys
  <2>2. \A m \in A : m \in SkipNodes  BY <1>0 DEF SkipNodes
  <2> QED  BY <2>1, <2>2
<1>2. PICK m \in S : \A n \in S : n <= m
  <2> HIDE DEF S
  <2> QED  BY <1>1, Greatest
<1> QED  BY <1>2 DEF Prior

\* The walk along a level stops at the last node before k, wherever before k
\* it starts.
LEMMA WalkStops ==
  ASSUME NEW A, A \subseteq SkipKeys, NEW next, IsLevel(next, A),
         NEW k \in SkipKeys, NEW n \in A \cup {0}, n < k
  PROVE  Walk(next, k)[n] = Prior(A, k)
<1> DEFINE W(g) == g = [i \in SkipNodes |->
                          IF next[i] # Header /\ next[i] < k THEN g[next[i]] ELSE i]
           p == Prior(A, k)
           stop == [i \in SkipNodes |-> IF i \in A \cup {0} /\ i < k THEN p ELSE i]
<1>1. Walk(next, k) = CHOOSE g : W(g)  BY DEF Walk
<1>p. /\ p \in A \cup {0} /\ p < k
      /\ \A m \in A : m < k => m <= p
  BY PriorIs
<1>k. /\ k \in Nat /\ Header = 0
      /\ \A i \in SkipNodes : i \in Nat
      /\ \A i \in A : i \in SkipNodes /\ i \in Nat
      /\ 0 \in SkipNodes /\ A \cup {0} \subseteq SkipNodes
  BY SkipAssumption DEF SkipNodes, SkipKeys, Header
<1>l. /\ next \in [SkipNodes -> SkipNodes]
      /\ \A i \in SkipNodes : i \notin A /\ i # 0 => next[i] = 0
      /\ \A i \in A \cup {0} : next[i] = 0 \/ (next[i] \in A /\ i < next[i])
      /\ \A i \in A \cup {0}, m \in A : i < m => next[i] # 0 /\ next[i] <= m
  BY DEF IsLevel
<1> HIDE DEF p
<1>2. W(stop)
  <2>1. ASSUME NEW i \in SkipNodes
        PROVE  stop[i] = IF next[i] # Header /\ next[i] < k THEN stop[next[i]] ELSE i
    <3>1. CASE i \notin A \cup {0} \/ i >= k
      <4>1. next[i] = 0 \/ next[i] >= k  BY <3>1, <1>k, <1>l
      <4> QED  BY <3>1, <4>1, <1>k, <1>l
    <3>2. CASE i \in A \cup {0} /\ i < k /\ next[i] # 0 /\ next[i] < k
      BY <3>2, <1>k, <1>l
    <3>3. CASE i \in A \cup {0} /\ i < k /\ ~(next[i] # 0 /\ next[i] < k)
      <4>1. ASSUME NEW m \in A, m < k PROVE m <= i
        <5>1. m \in Nat /\ i \in Nat /\ next[i] \in Nat  BY <1>k, <1>l
        <5>2. i < m => next[i] # 0 /\ next[i] <= m  BY <3>3, <1>l
        <5> QED  BY <3>3, <4>1, <5>1, <5>2, <1>k
      <4>2. p = i  BY <4>1, <3>3, <1>p, <1>k
      <4> QED  BY <3>3, <4>2, <1>k, <1>l
    <3> QED  BY <3>1, <3>2, <3>3, <1>k
  <2> QED  BY <2>1, <1>k, <1>l
<1>3. \E g : W(g)  BY <1>2
<1>4. W(Walk(next, k))
  <2> HIDE DEF W
  <2> QED  BY <1>1, <1>3
<1> DEFINE w == Walk(next, k)
<1>5. \A i \in SkipNodes : w[i] = IF next[i] # 0 /\ next[i] < k THEN w[next[i]] ELSE i
  BY <1>4, <1>k
<1> HIDE DEF w, W
<1> DEFINE Off == {i \in A \cup {0} : i < k /\ w[i] # p}
<1>6. Off = {}
  <2> SUFFICES ASSUME Off # {} PROVE FALSE  OBVIOUS
  <2>1. PICK i \in Off : \A j \in Off : j <= i
    <3>1. Off \subseteq SkipNodes  BY <1>k
    <3> HIDE DEF Off
    <3> QED  BY <3>1, Greatest
  <2>2. CASE next[i] # 0 /\ next[i] < k
    <3>1. next[i] \in A /\ i < next[i] /\ next[i] \notin Off
      BY <2>1, <2>2, <1>k, <1>l
    <3> QED  BY <3>1, <2>1, <2>2, <1>5, <1>k
  <2>3. CASE ~(next[i] # 0 /\ next[i] < k)
    <3>1. \A m \in A : m < k => m <= i  BY <2>1, <2>3, <1>k, <1>l
    <3>2. p = i  BY <3>1, <2>1, <1>p, <1>k
    <3> QED  BY <3>2, <2>1, <2>3, <1>5, <1>k
  <2> QED  BY <2>2, <2>3
<1> QED  BY <1>6 DEF w, p

\* A list's pieces, each with its type.
LEMMA ListParts ==
  ASSUME NEW S, NEW B, ListOf(S, B)
  PROVE  /\ S.fwd \in [Levels -> [SkipNodes -> SkipNodes]]
         /\ S.lvl \in [SkipKeys -> Levels] /\ S.len \in [SkipKeys -> Nat]
         /\ S.level \in Levels /\ S.count \in Nat
         /\ Levels \subseteq Nat /\ 0 \in Levels /\ \A i \in 0..S.level : i \in Levels
         /\ SkipKeys \subseteq Nat /\ SkipKeys \subseteq SkipNodes /\ 0 \in SkipNodes
         /\ 0 \notin SkipKeys /\ Header = 0
         /\ \A i \in Levels : High(S, B, i) \subseteq SkipKeys
<1>1. S \in SkipLists /\ B \subseteq SkipKeys  BY DEF ListOf
<1>2. /\ S.fwd \in [Levels -> [SkipNodes -> SkipNodes]]
      /\ S.lvl \in [SkipKeys -> Levels] /\ S.len \in [SkipKeys -> Nat]
      /\ S.level \in Levels /\ S.count \in Nat
  BY <1>1 DEF SkipLists
<1>3. /\ Levels \subseteq Nat /\ 0 \in Levels /\ \A i \in 0..S.level : i \in Levels
      /\ SkipKeys \subseteq Nat /\ SkipKeys \subseteq SkipNodes /\ 0 \in SkipNodes
      /\ 0 \notin SkipKeys /\ Header = 0
  <2>1. S.level \in 0..Top  BY <1>2 DEF Levels
  <2> QED  BY <2>1, SkipAssumption DEF Levels, SkipKeys, SkipNodes, Header
<1>4. \A i \in Levels : High(S, B, i) \subseteq SkipKeys  BY <1>1 DEF High
<1> QED  BY <1>2, <1>3, <1>4

\* skip_find_update leaves in update the last node before k of each level,
\* although each level's walk starts where the walk above it stopped.
LEMMA UpdateIs ==
  ASSUME NEW S, NEW B, ListOf(S, B), NEW k \in SkipKeys, NEW i \in 0..S.level
  PROVE  FindUpdate(S, k)[i] = Prior(High(S, B, i), k)
<1> DEFINE U(g) == g = [j \in 0..S.level |->
                          Walk(S.fwd[j], k)[IF j = S.level THEN Header ELSE g[j + 1]]]
           best == [j \in 0..S.level |-> Prior(High(S, B, j), k)]
<1>1. FindUpdate(S, k) = CHOOSE g : U(g)  BY DEF FindUpdate
<1>2. ASSUME NEW j \in 0..S.level
      PROVE  /\ j \in Levels /\ High(S, B, j) \subseteq SkipKeys /\ IsLevel(S.fwd[j], High(S, B, j))
             /\ Walk(S.fwd[j], k)[0] = Prior(High(S, B, j), k)
             /\ j # S.level =>
                  Walk(S.fwd[j], k)[Prior(High(S, B, j + 1), k)] = Prior(High(S, B, j), k)
  <2>1. j \in Levels /\ High(S, B, j) \subseteq SkipKeys /\ IsLevel(S.fwd[j], High(S, B, j))
    BY ListParts DEF ListOf
  <2>2. Walk(S.fwd[j], k)[0] = Prior(High(S, B, j), k)
    <3>1. 0 < k  BY DEF SkipKeys
    <3> QED  BY <2>1, <3>1, WalkStops
  <2>3. ASSUME j # S.level
        PROVE  Walk(S.fwd[j], k)[Prior(High(S, B, j + 1), k)] = Prior(High(S, B, j), k)
    <3>1. j \in Nat /\ S.level \in Nat /\ j + 1 \in 0..S.level  BY <2>3, ListParts
    <3>2. j + 1 \in Levels /\ High(S, B, j + 1) \subseteq SkipKeys  BY <3>1, ListParts
    <3>3. High(S, B, j + 1) \subseteq High(S, B, j)
      <4>1. \A b \in B : S.lvl[b] \in Nat  BY ListParts DEF ListOf
      <4> QED  BY <3>1, <4>1 DEF High
    <3>4. /\ Prior(High(S, B, j + 1), k) \in High(S, B, j) \cup {0}
          /\ Prior(High(S, B, j + 1), k) < k
      BY <3>2, <3>3, PriorIs
    <3> QED  BY <2>1, <3>4, WalkStops
  <2> QED  BY <2>1, <2>2, <2>3
<1>n. S.level \in Nat /\ Header = 0  BY ListParts
<1>3. U(best)
  <2>1. ASSUME NEW j \in 0..S.level
        PROVE  best[j] = Walk(S.fwd[j], k)[IF j = S.level THEN Header ELSE best[j + 1]]
    <3>1. CASE j = S.level  BY <3>1, <1>2, <1>n
    <3>2. CASE j # S.level
      <4>1. j + 1 \in 0..S.level  BY <3>2, <1>n
      <4>2. best[j + 1] = Prior(High(S, B, j + 1), k)  BY <4>1
      <4> QED  BY <3>2, <4>2, <1>2
    <3> QED  BY <3>1, <3>2
  <2> HIDE DEF best
  <2>2. DOMAIN best = 0..S.level /\ best = [j \in 0..S.level |-> best[j]]  BY DEF best
  <2> QED  BY <2>1, <2>2
<1>4. \E g : U(g)  BY <1>3
<1>5. U(FindUpdate(S, k))
  <2> HIDE DEF U
  <2> QED  BY <1>1, <1>4
<1> DEFINE u == FindUpdate(S, k)
<1>6. \A j \in 0..S.level : u[j] = Walk(S.fwd[j], k)[IF j = S.level THEN Header ELSE u[j + 1]]
  BY <1>5
<1> HIDE DEF u, U, best
<1> DEFINE Q == {c \in Nat : c <= S.level /\ u[S.level - c] # Prior(High(S, B, S.level - c), k)}
<1>7. Q = {}
  <2> SUFFICES ASSUME Q # {} PROVE FALSE  OBVIOUS
  <2>1. PICK c \in Q : \A d \in Q : c <= d
    <3>1. Q \subseteq Nat  OBVIOUS
    <3> HIDE DEF Q
    <3> QED  BY <3>1, Least
  <2> DEFINE j == S.level - c
  <2>2. j \in 0..S.level /\ u[j] # Prior(High(S, B, j), k)  BY <2>1, <1>n
  <2>3. CASE c = 0
    <3>1. j = S.level  BY <2>3, <1>n
    <3> QED  BY <3>1, <2>2, <1>2, <1>6, <1>n
  <2>4. CASE c # 0
    <3>1. c - 1 \in Nat /\ c - 1 <= S.level /\ c - 1 \notin Q
      <4>1. c \in Nat /\ c <= S.level  BY <2>1
      <4>2. c - 1 \in Nat /\ c - 1 <= S.level /\ ~(c <= c - 1)  BY <4>1, <2>4, <1>n
      <4> HIDE DEF Q
      <4> QED  BY <4>2, <2>1
    <3>2. S.level - (c - 1) = j + 1 /\ j # S.level  BY <2>1, <2>4, <1>n
    <3>3. u[j + 1] = Prior(High(S, B, j + 1), k)  BY <3>1, <3>2
    <3> HIDE DEF j
    <3> QED  BY <3>2, <3>3, <2>2, <1>2, <1>6
  <2> QED  BY <2>3, <2>4
<1>8. S.level - i \in Nat /\ S.level - i <= S.level /\ S.level - (S.level - i) = i  BY <1>n
<1> QED  BY <1>7, <1>8 DEF u

\* On a level, the node after the last one before k is k exactly if k is there.
LEMMA PriorLeads ==
  ASSUME NEW A, A \subseteq SkipKeys, NEW next, IsLevel(next, A), NEW k \in SkipKeys
  PROVE  /\ Prior(A, k) \in SkipNodes /\ Prior(A, k) # k
         /\ next[Prior(A, k)] = k <=> k \in A
<1> DEFINE p == Prior(A, k)
<1>1. p \in A \cup {0} /\ p < k /\ \A m \in A : m < k => m <= p  BY PriorIs
<1> HIDE DEF p
<1>2. /\ k \in Nat /\ k # 0 /\ p \in SkipNodes /\ p \in Nat
      /\ \A m \in A : m \in Nat
      /\ \A m \in SkipNodes : m \in Nat
  <2>1. LastKey \in Nat /\ k \in 1..LastKey /\ \A m \in A : m \in 1..LastKey
    BY SkipAssumption DEF SkipKeys
  <2>2. p \in 0..LastKey  BY <1>1, <2>1
  <2> QED  BY <2>1, <2>2 DEF SkipNodes
<1>3. next[p] \in SkipNodes /\ (next[p] = 0 \/ (next[p] \in A /\ p < next[p]))
  BY <1>1, <1>2 DEF IsLevel
<1>4. k \in A => next[p] # 0 /\ next[p] <= k  BY <1>1 DEF IsLevel
<1>5. ASSUME k \in A PROVE next[p] = k
  <2>1. next[p] \in A /\ p < next[p] /\ next[p] <= k  BY <1>3, <1>4, <1>5
  <2>2. next[p] < k => next[p] <= p  BY <1>1, <2>1
  <2>3. next[p] \in Nat  BY <2>1, <1>2
  <2> QED  BY <2>1, <2>2, <2>3, <1>2
<1> QED  BY <1>1, <1>2, <1>3, <1>5 DEF p

\* Taking k out of a level, and putting it in after the last node before it.
LEMMA LevelWithout ==
  ASSUME NEW A, A \subseteq SkipKeys, NEW next, IsLevel(next, A), NEW k \in A
  PROVE  IsLevel([next EXCEPT ![Prior(A, k)] = next[k], ![k] = 0], A \ {k})
<1> DEFINE p == Prior(A, k)
           new == [next EXCEPT ![p] = next[k], ![k] = 0]
<1>k. k \in SkipKeys  OBVIOUS
<1>1. p \in A \cup {0} /\ p < k /\ \A m \in A : m < k => m <= p  BY <1>k, PriorIs
<1>2. p \in SkipNodes /\ p # k /\ next[p] = k  BY <1>k, PriorLeads
<1>3. /\ \A m \in A : m \in Nat /\ m # 0 /\ m \in SkipNodes
      /\ \A m \in SkipNodes : m \in Nat
      /\ 0 \in SkipNodes
  BY SkipAssumption DEF SkipKeys, SkipNodes
<1>l. /\ next \in [SkipNodes -> SkipNodes]
      /\ \A n \in SkipNodes : n \notin A /\ n # 0 => next[n] = 0
      /\ \A n \in A \cup {0} : next[n] = 0 \/ (next[n] \in A /\ n < next[n])
      /\ \A n \in A \cup {0}, m \in A : n < m => next[n] # 0 /\ next[n] <= m
  BY DEF IsLevel
<1> HIDE DEF p
<1>4. /\ new \in [SkipNodes -> SkipNodes]
      /\ \A n \in SkipNodes : new[n] = IF n = k THEN 0 ELSE IF n = p THEN next[k] ELSE next[n]
  BY <1>2, <1>3, <1>l
<1> HIDE DEF new
<1>5. \A n \in SkipNodes : n \notin A \ {k} /\ n # 0 => new[n] = 0
  BY <1>1, <1>3, <1>4, <1>l
<1>6. ASSUME NEW n \in (A \ {k}) \cup {0}
      PROVE  new[n] = 0 \/ (new[n] \in A \ {k} /\ n < new[n])
  <2>1. n \in SkipNodes /\ n # k /\ n \in A \cup {0}  BY <1>3
  <2>2. CASE n = p
    <3>1. new[n] = next[k]  BY <2>1, <2>2, <1>4
    <3>2. next[k] = 0 \/ (next[k] \in A /\ k < next[k])  BY <1>l
    <3> QED  BY <3>1, <3>2, <2>2, <1>1, <1>3
  <2>3. CASE n # p
    <3>1. new[n] = next[n] /\ (next[n] = 0 \/ (next[n] \in A /\ n < next[n]))
      BY <2>1, <2>3, <1>4, <1>l
    <3>2. ASSUME next[n] = k PROVE FALSE
      <4>1. n < k  BY <3>1, <3>2, <1>3
      <4>2. n <= p  BY <4>1, <2>1, <1>1, <1>3
      <4>3. n < p /\ p \in A  BY <4>2, <2>1, <2>3, <1>1, <1>3
      <4>4. next[n] <= p  BY <4>3, <2>1, <1>l
      <4> QED  BY <4>4, <3>2, <1>1, <1>3
    <3> QED  BY <3>1, <3>2
  <2> QED  BY <2>2, <2>3
<1>7. ASSUME NEW n \in (A \ {k}) \cup {0}, NEW m \in A \ {k}, n < m
      PROVE  new[n] # 0 /\ new[n] <= m
  <2>1. n \in SkipNodes /\ n # k /\ n \in A \cup {0} /\ m \in A  BY <1>3
  <2>2. CASE n = p
    <3>1. new[n] = next[k]  BY <2>1, <2>2, <1>4
    <3>2. k < m  BY <1>1, <1>3, <1>7, <2>2, <2>1
    <3>3. next[k] # 0 /\ next[k] <= m  BY <3>2, <2>1, <1>l
    <3> QED  BY <3>1, <3>3
  <2>3. CASE n # p
    BY <2>1, <2>3, <1>4, <1>l, <1>7
  <2> QED  BY <2>2, <2>3
<1> QED  BY <1>4, <1>5, <1>6, <1>7 DEF IsLevel, new, p

\* Linking k after the node before it adds it to the level.
LEMMA LevelWith ==
  ASSUME NEW A, A \subseteq SkipKeys, NEW next, IsLevel(next, A), NEW k \in SkipKeys, k \notin A
  PROVE  IsLevel([next EXCEPT ![k] = next[Prior(A, k)], ![Prior(A, k)] = k], A \cup {k})
<1> DEFINE p == Prior(A, k)
           new == [next EXCEPT ![k] = next[p], ![p] = k]
<1>1. p \in A \cup {0} /\ p < k /\ \A m \in A : m < k => m <= p  BY PriorIs
<1>2. p \in SkipNodes /\ p # k  BY PriorLeads
<1>3. /\ \A m \in A : m \in Nat /\ m # 0 /\ m \in SkipNodes
      /\ \A m \in SkipNodes : m \in Nat
      /\ 0 \in SkipNodes /\ k \in Nat /\ k # 0 /\ k \in SkipNodes
  BY SkipAssumption DEF SkipKeys, SkipNodes
<1>l. /\ next \in [SkipNodes -> SkipNodes]
      /\ \A n \in SkipNodes : n \notin A /\ n # 0 => next[n] = 0
      /\ \A n \in A \cup {0} : next[n] = 0 \/ (next[n] \in A /\ n < next[n])
      /\ \A n \in A \cup {0}, m \in A : n < m => next[n] # 0 /\ next[n] <= m
  BY DEF IsLevel
<1> HIDE DEF p
<1>4. /\ new \in [SkipNodes -> SkipNodes]
      /\ \A n \in SkipNodes : new[n] = IF n = p THEN k ELSE IF n = k THEN next[p] ELSE next[n]
  BY <1>2, <1>3, <1>l
<1> HIDE DEF new
<1>5. \A n \in SkipNodes : n \notin A \cup {k} /\ n # 0 => new[n] = 0
  BY <1>1, <1>3, <1>4, <1>l
<1>0. /\ next[p] = 0 \/ (next[p] \in A /\ k < next[p])
      /\ \A m \in A : k < m => next[p] # 0 /\ next[p] <= m
  <2>1. next[p] = 0 \/ (next[p] \in A /\ p < next[p])  BY <1>1, <1>l
  <2>2. ASSUME next[p] \in A, p < next[p] PROVE k < next[p]
    <3>1. next[p] < k => next[p] <= p  BY <2>2, <1>1
    <3>2. next[p] # k /\ next[p] \in Nat /\ p \in Nat  BY <2>2, <1>2, <1>3
    <3> QED  BY <3>1, <3>2, <2>2, <1>3
  <2>3. ASSUME NEW m \in A, k < m PROVE next[p] # 0 /\ next[p] <= m
    <3>1. p < m  BY <2>3, <1>1, <1>2, <1>3
    <3> QED  BY <3>1, <1>1, <1>l
  <2> QED  BY <2>1, <2>2, <2>3
<1>6. ASSUME NEW n \in (A \cup {k}) \cup {0}
      PROVE  new[n] = 0 \/ (new[n] \in A \cup {k} /\ n < new[n])
  <2>1. n \in SkipNodes  BY <1>3
  <2>2. CASE n = p
    BY <2>1, <2>2, <1>1, <1>4
  <2>3. CASE n = k
    <3>1. new[n] = next[p]  BY <2>1, <2>3, <1>2, <1>4
    <3> QED  BY <3>1, <2>3, <1>0
  <2>4. CASE n # p /\ n # k
    <3>1. new[n] = next[n] /\ n \in A \cup {0}  BY <2>1, <2>4, <1>4
    <3> QED  BY <3>1, <1>l
  <2> QED  BY <2>2, <2>3, <2>4
<1>7. ASSUME NEW n \in (A \cup {k}) \cup {0}, NEW m \in A \cup {k}, n < m
      PROVE  new[n] # 0 /\ new[n] <= m
  <2>1. n \in SkipNodes /\ m \in SkipNodes  BY <1>3
  <2>2. CASE n = p
    <3>1. new[n] = k  BY <2>1, <2>2, <1>4
    <3>2. k <= m
      <4>1. m \in A /\ m < k => m <= p  BY <1>1
      <4> QED  BY <4>1, <2>1, <2>2, <1>2, <1>3, <1>7
    <3> QED  BY <3>1, <3>2, <1>3
  <2>3. CASE n = k
    <3>1. new[n] = next[p]  BY <2>1, <2>3, <1>2, <1>4
    <3>2. m \in A  BY <2>1, <2>3, <1>3, <1>7
    <3> QED  BY <3>1, <3>2, <2>3, <1>0, <1>7
  <2>4. CASE n # p /\ n # k
    <3>1. new[n] = next[n] /\ n \in A \cup {0}  BY <2>1, <2>4, <1>4
    <3>2. CASE m \in A
      BY <3>1, <3>2, <1>7, <1>l
    <3>3. CASE m = k
      <4>1. n <= p  BY <3>1, <3>3, <1>1, <1>3, <1>7, <2>1
      <4>2. n < p /\ p \in A  BY <4>1, <2>1, <2>4, <1>1, <1>2, <1>3
      <4>3. next[n] # 0 /\ next[n] <= p  BY <3>1, <4>2, <1>l
      <4>4. next[n] \in Nat /\ p \in Nat  BY <2>1, <1>2, <1>3, <1>l
      <4> QED  BY <3>1, <3>3, <4>3, <4>4, <1>1, <1>3
    <3> QED  BY <3>2, <3>3
  <2> QED  BY <2>2, <2>3, <2>4
<1> QED  BY <1>4, <1>5, <1>6, <1>7 DEF IsLevel, new, p

\* Without k no level changes but those k was on; with k, those up to its own.
LEMMA HighWithout ==
  ASSUME NEW S, NEW B, ListOf(S, B), NEW k \in B, NEW T, T.lvl = [S.lvl EXCEPT ![k] = 0],
         NEW i \in Levels
  PROVE  High(T, B \ {k}, i) = High(S, B, i) \ {k}
<1>1. \A b \in B \ {k} : T.lvl[b] = S.lvl[b]  BY ListParts DEF ListOf
<1> QED  BY <1>1 DEF High

\* A new node is on the levels up to its own.
LEMMA HighWith ==
  ASSUME NEW S, NEW B, ListOf(S, B), NEW k \in SkipKeys, k \notin B, NEW l \in Levels,
         NEW T, T.lvl = [S.lvl EXCEPT ![k] = l], NEW i \in Levels
  PROVE  High(T, B \cup {k}, i) = IF i <= l THEN High(S, B, i) \cup {k} ELSE High(S, B, i)
<1>1. \A b \in B : T.lvl[b] = S.lvl[b]  BY ListParts DEF ListOf
<1>2. T.lvl[k] = l /\ l \in Nat /\ i \in Nat  BY ListParts
<1> QED  BY <1>1, <1>2 DEF High

\* A search finds the keys of the list and no other.
LEMMA FoundIs ==
  ASSUME NEW S, NEW B, ListOf(S, B), NEW k \in SkipKeys
  PROVE  SkipFound(S, k) <=> k \in B
<1>1. 0 \in 0..S.level /\ 0 \in Levels  BY ListParts
<1>2. High(S, B, 0) = B
  <2>1. \A b \in B : S.lvl[b] \in Nat  BY ListParts DEF ListOf
  <2> QED  BY <2>1 DEF High
<1>3. FindUpdate(S, k)[0] = Prior(B, k)  BY <1>1, <1>2, UpdateIs
<1>4. B \subseteq SkipKeys /\ IsLevel(S.fwd[0], B)  BY <1>1, <1>2 DEF ListOf
<1> QED  BY <1>3, <1>4, PriorLeads DEF SkipFound

\* The largest of two, and of the levels in use.
LEMMA MaxOfTwo ==
  ASSUME NEW a \in Nat, NEW b \in Nat
  PROVE  Max({a, b}) \in {a, b} /\ a <= Max({a, b}) /\ b <= Max({a, b})
<1>1. \E x \in {a, b} : \A y \in {a, b} : x >= y  OBVIOUS
<1> DEFINE P(x) == x \in {a, b} /\ \A y \in {a, b} : x >= y
<1>2. Max({a, b}) = CHOOSE x : P(x)  BY DEF Max
<1>3. P(Max({a, b}))
  <2>1. \E x : P(x)  BY <1>1
  <2> HIDE DEF P
  <2> QED  BY <2>1, <1>2
<1> QED  BY <1>3

\* kvs_skip_del lowers the list to its highest level that has a node.
LEMMA MaxInUse ==
  ASSUME NEW fwd, NEW level \in Nat
  PROVE  /\ Max(LevelsInUse(fwd, level)) \in 0..level
         /\ \A i \in 0..level : i > Max(LevelsInUse(fwd, level)) => fwd[i][Header] = Header
<1> DEFINE L == LevelsInUse(fwd, level)
           U == {j \in Nat : level - j \in L}
           P(x) == x \in L /\ \A y \in L : x >= y
<1>1. L \subseteq 0..level /\ 0 \in L  BY DEF LevelsInUse
<1>2. U \subseteq Nat /\ level \in U  BY <1>1
<1>3. PICK j \in U : \A i \in U : j <= i
  <2> HIDE DEF U
  <2> QED  BY <1>2, Least
<1>4. P(level - j)
  <2> HIDE DEF L
  <2>1. ASSUME NEW y \in L PROVE level - j >= y
    <3>1. y \in 0..level  BY <1>1
    <3>2. level - y \in Nat /\ level - (level - y) = y  BY <3>1
    <3>3. level - y \in U  BY <3>2
    <3>4. j <= level - y  BY <3>3, <1>3
    <3> QED  BY <3>1, <3>4, <1>3
  <2> QED  BY <1>3, <2>1
<1>5. Max(L) = CHOOSE x : P(x)  BY DEF Max
<1>6. P(Max(L))
  <2>1. \E x : P(x)  BY <1>4
  <2> HIDE DEF P
  <2> QED  BY <2>1, <1>5
<1>7. ASSUME NEW i \in 0..level, i > Max(L) PROVE fwd[i][Header] = Header
  <2>1. i \notin L  BY <1>1, <1>6, <1>7
  <2> QED  BY <2>1 DEF LevelsInUse
<1> QED  BY <1>1, <1>6, <1>7

\* kvs_skip_del takes the node off every level it is on.
LEMMA UnlinkedList ==
  ASSUME NEW S, NEW B, ListOf(S, B), NEW k \in B
  PROVE  /\ ListOf(Unlinked(S, k), B \ {k})
         /\ Unlinked(S, k).len = [S.len EXCEPT ![k] = 0]
<1> DEFINE update == FindUpdate(S, k)
           fwd == [i \in Levels |->
                     IF i <= S.level /\ S.fwd[i][update[i]] = k
                       THEN [S.fwd[i] EXCEPT ![update[i]] = S.fwd[i][k], ![k] = Header]
                       ELSE S.fwd[i]]
           T == Unlinked(S, k)
<1>k. k \in SkipKeys  BY DEF ListOf
<1>1. /\ T.fwd = fwd /\ T.lvl = [S.lvl EXCEPT ![k] = 0] /\ T.len = [S.len EXCEPT ![k] = 0]
      /\ T.level = Max(LevelsInUse(fwd, S.level)) /\ T.count = S.count - 1
      /\ T = [fwd |-> T.fwd, lvl |-> T.lvl, len |-> T.len, level |-> T.level, count |-> T.count]
  BY DEF Unlinked
<1> HIDE DEF T
<1>2. ASSUME NEW i \in Levels
      PROVE  IsLevel(fwd[i], High(S, B, i) \ {k})
  <2> DEFINE A == High(S, B, i)
             p == Prior(A, k)
  <2>1. A \subseteq SkipKeys /\ IsLevel(S.fwd[i], A)  BY ListParts DEF ListOf
  <2>2. S.fwd[i][p] = k <=> k \in A
    <3> HIDE DEF A
    <3> QED  BY <1>k, <2>1, PriorLeads
  <2>3. i <= S.level => update[i] = p
    <3>1. i \in Nat /\ S.level \in Nat  BY ListParts
    <3> QED  BY <3>1, <1>k, UpdateIs
  <2>4. i > S.level => k \notin A
    <3>1. S.lvl[k] <= S.level /\ S.lvl[k] \in Nat /\ i \in Nat /\ S.level \in Nat
      BY <1>k, ListParts DEF ListOf
    <3> QED  BY <3>1 DEF High
  <2>5. i \in Nat /\ S.level \in Nat /\ Header = 0  BY ListParts
  <2> HIDE DEF A, p, update
  <2>6. CASE k \in A
    <3>1. i <= S.level  BY <2>4, <2>5, <2>6
    <3>2. fwd[i] = [S.fwd[i] EXCEPT ![p] = S.fwd[i][k], ![k] = 0]
      BY <3>1, <2>2, <2>3, <2>5, <2>6
    <3> HIDE DEF fwd
    <3>3. IsLevel([S.fwd[i] EXCEPT ![p] = S.fwd[i][k], ![k] = 0], A \ {k})
      BY <2>1, <2>6, LevelWithout DEF p
    <3> QED  BY <3>2, <3>3 DEF A
  <2>7. CASE k \notin A
    <3>1. fwd[i] = S.fwd[i]  BY <2>2, <2>3, <2>7
    <3>2. A \ {k} = A  BY <2>7
    <3> QED  BY <3>1, <3>2, <2>1 DEF A
  <2> QED  BY <2>6, <2>7
<1>3. fwd \in [Levels -> [SkipNodes -> SkipNodes]]
  <2>1. \A i \in Levels : fwd[i] \in [SkipNodes -> SkipNodes]
    <3> HIDE DEF fwd
    <3> QED  BY <1>2 DEF IsLevel
  <2> DEFINE F == [i \in Levels |-> fwd[i]]
  <2>2. fwd = F  OBVIOUS
  <2> HIDE DEF fwd
  <2>3. F \in [Levels -> [SkipNodes -> SkipNodes]]  BY <2>1
  <2> QED  BY <2>2, <2>3
<1> HIDE DEF fwd, update
<1>4. ASSUME NEW i \in Levels PROVE IsLevel(T.fwd[i], High(T, B \ {k}, i))
  <2>1. T.lvl = [S.lvl EXCEPT ![k] = 0]  BY ONLY <1>1
  <2>2. High(T, B \ {k}, i) = High(S, B, i) \ {k}  BY <2>1, HighWithout
  <2>3. T.fwd[i] = fwd[i]  BY ONLY <1>1
  <2> QED  BY <2>2, <2>3, <1>2
<1>5. /\ T.level \in 0..S.level /\ T.level \in Levels
      /\ \A i \in 0..S.level : i > T.level => fwd[i][0] = 0
  <2>1. S.level \in Nat /\ Header = 0  BY ListParts
  <2>2. T.level \in 0..S.level /\ \A i \in 0..S.level : i > T.level => fwd[i][0] = 0
    BY <2>1, <1>1, MaxInUse
  <2> QED  BY <2>2, ListParts
<1>6. ASSUME NEW b \in B \ {k} PROVE T.lvl[b] <= T.level
  <2>1. b \in SkipKeys /\ T.lvl[b] = S.lvl[b]  BY <1>1, ListParts DEF ListOf
  <2> DEFINE i == S.lvl[b]
  <2>2. i \in Levels /\ i \in Nat /\ S.level \in Nat /\ T.level \in Nat /\ i <= S.level
    BY <2>1, <1>5, ListParts DEF ListOf
  <2>3. b \in High(S, B, i) \ {k}  BY <2>2 DEF High
  <2>4. IsLevel(fwd[i], High(S, B, i) \ {k})  BY <1>2, <2>2
  <2>5. 0 < b  BY <2>1 DEF SkipKeys
  <2>6. fwd[i][0] # 0  BY <2>3, <2>4, <2>5 DEF IsLevel
  <2> QED  BY <2>1, <2>2, <2>6, <1>5
<1>7. T.count \in Nat /\ T.count = Cardinality(B \ {k})
  <2>1. IsFiniteSet(B)
    <3>1. IsFiniteSet(1..LastKey)  BY SkipAssumption, FS_Interval
    <3> QED  BY <3>1, FS_Subset DEF ListOf, SkipKeys
  <2>2. Cardinality(B \ {k}) = Cardinality(B) - 1 /\ IsFiniteSet(B \ {k})
    BY <2>1, FS_RemoveElement
  <2>3. Cardinality(B \ {k}) \in Nat  BY <2>2, FS_CardinalityType
  <2> QED  BY <2>2, <2>3, <1>1 DEF ListOf
<1>8. T.lvl \in [SkipKeys -> Levels] /\ T.len \in [SkipKeys -> Nat]
  <2>1. S.lvl \in [SkipKeys -> Levels] /\ S.len \in [SkipKeys -> Nat] /\ 0 \in Levels
    BY ListParts
  <2>2. /\ [S.lvl EXCEPT ![k] = 0] \in [SkipKeys -> Levels]
        /\ [S.len EXCEPT ![k] = 0] \in [SkipKeys -> Nat]
    BY <2>1
  <2> QED  BY <1>1, <2>2
<1>9. T \in SkipLists  BY <1>1, <1>3, <1>5, <1>7, <1>8 DEF SkipLists
<1> QED  BY <1>1, <1>4, <1>6, <1>7, <1>9 DEF ListOf, T

\* kvs_skip_set puts the new node on every level up to its own.
LEMMA LinkedList ==
  ASSUME NEW S, NEW B, ListOf(S, B), NEW k \in SkipKeys, k \notin B,
         NEW length \in Nat, NEW l \in Levels
  PROVE  /\ ListOf(Linked(S, k, length, l), B \cup {k})
         /\ Linked(S, k, length, l).len = [S.len EXCEPT ![k] = length]
<1> DEFINE update == FindUpdate(S, k)
           before(i) == IF i <= S.level THEN update[i] ELSE Header
           fwd == [i \in Levels |->
                     IF i <= l
                       THEN [S.fwd[i] EXCEPT ![k] = S.fwd[i][before(i)], ![before(i)] = k]
                       ELSE S.fwd[i]]
           T == Linked(S, k, length, l)
<1>1. /\ T.fwd = fwd /\ T.lvl = [S.lvl EXCEPT ![k] = l] /\ T.len = [S.len EXCEPT ![k] = length]
      /\ T.level = Max({S.level, l}) /\ T.count = S.count + 1
      /\ T = [fwd |-> T.fwd, lvl |-> T.lvl, len |-> T.len, level |-> T.level, count |-> T.count]
  BY DEF Linked
<1> HIDE DEF T
<1>2. ASSUME NEW i \in Levels
      PROVE  IsLevel(fwd[i], IF i <= l THEN High(S, B, i) \cup {k} ELSE High(S, B, i))
  <2> DEFINE A == High(S, B, i)
             p == Prior(A, k)
  <2>1. A \subseteq SkipKeys /\ A \subseteq B /\ IsLevel(S.fwd[i], A)
    BY ListParts DEF ListOf, High
  <2>2. before(i) = p
    <3>1. i \in Nat /\ S.level \in Nat /\ Header = 0  BY ListParts
    <3>2. CASE i <= S.level
      BY <3>1, <3>2, UpdateIs
    <3>3. CASE i > S.level
      <4>1. \A b \in B : S.lvl[b] <= S.level /\ S.lvl[b] \in Nat  BY ListParts DEF ListOf
      <4>2. A = {}  BY <4>1, <3>1, <3>3 DEF High
      <4> HIDE DEF A
      <4>3. p \in A \cup {0}  BY <2>1, PriorIs
      <4> HIDE DEF p
      <4> QED  BY <4>2, <4>3, <3>1, <3>3
    <3> QED  BY <3>1, <3>2, <3>3
  <2> HIDE DEF A, p, before
  <2>3. CASE i <= l
    <3>1. fwd[i] = [S.fwd[i] EXCEPT ![k] = S.fwd[i][p], ![p] = k]  BY <2>2, <2>3
    <3> HIDE DEF fwd
    <3>2. k \notin A  BY <2>1
    <3>3. IsLevel([S.fwd[i] EXCEPT ![k] = S.fwd[i][p], ![p] = k], A \cup {k})
      BY <2>1, <3>2, LevelWith DEF p
    <3> QED  BY <3>1, <3>3, <2>3 DEF A
  <2>4. CASE ~(i <= l)
    <3>1. fwd[i] = S.fwd[i]  BY <2>4
    <3> QED  BY <3>1, <2>1, <2>4 DEF A
  <2> QED  BY <2>3, <2>4
<1>3. fwd \in [Levels -> [SkipNodes -> SkipNodes]]
  <2>1. \A i \in Levels : fwd[i] \in [SkipNodes -> SkipNodes]
    <3> HIDE DEF fwd
    <3> QED  BY <1>2 DEF IsLevel
  <2> DEFINE F == [i \in Levels |-> fwd[i]]
  <2>2. fwd = F  OBVIOUS
  <2> HIDE DEF fwd
  <2>3. F \in [Levels -> [SkipNodes -> SkipNodes]]  BY <2>1
  <2> QED  BY <2>2, <2>3
<1> HIDE DEF fwd, before, update
<1>4. ASSUME NEW i \in Levels PROVE IsLevel(T.fwd[i], High(T, B \cup {k}, i))
  <2>1. T.lvl = [S.lvl EXCEPT ![k] = l]  BY ONLY <1>1
  <2>2. High(T, B \cup {k}, i) = IF i <= l THEN High(S, B, i) \cup {k} ELSE High(S, B, i)
    BY <2>1, HighWith
  <2>3. T.fwd[i] = fwd[i]  BY ONLY <1>1
  <2> QED  BY <2>2, <2>3, <1>2
<1>5. T.level \in Levels /\ S.level <= T.level /\ l <= T.level
  <2>1. S.level \in Nat /\ l \in Nat /\ S.level \in Levels  BY ListParts
  <2> QED  BY <2>1, <1>1, MaxOfTwo
<1>6. ASSUME NEW b \in B \cup {k} PROVE T.lvl[b] <= T.level
  <2>1. b = k => T.lvl[b] = l  BY <1>1, ListParts
  <2>2. b # k => b \in B /\ T.lvl[b] = S.lvl[b] /\ S.lvl[b] <= S.level /\ S.lvl[b] \in Nat
    BY <1>1, ListParts DEF ListOf
  <2>3. S.level \in Nat /\ T.level \in Nat  BY <1>5, ListParts
  <2> QED  BY <2>1, <2>2, <2>3, <1>5
<1>7. T.count \in Nat /\ T.count = Cardinality(B \cup {k})
  <2>1. IsFiniteSet(B)
    <3>1. IsFiniteSet(1..LastKey)  BY SkipAssumption, FS_Interval
    <3> QED  BY <3>1, FS_Subset DEF ListOf, SkipKeys
  <2>2. Cardinality(B \cup {k}) = Cardinality(B) + 1  BY <2>1, FS_AddElement
  <2>3. Cardinality(B) \in Nat  BY <2>1, FS_CardinalityType
  <2> QED  BY <2>2, <2>3, <1>1 DEF ListOf
<1>8. T.lvl \in [SkipKeys -> Levels] /\ T.len \in [SkipKeys -> Nat]
  BY <1>1, ListParts
<1>9. T \in SkipLists  BY <1>1, <1>3, <1>5, <1>7, <1>8 DEF SkipLists
<1>10. B \cup {k} \subseteq SkipKeys  BY DEF ListOf
<1> QED  BY <1>1, <1>4, <1>6, <1>7, <1>9, <1>10 DEF ListOf, T

\* Raising the level, and a shorter value in place, change no pointer.
LEMMA RaisedList ==
  ASSUME NEW S, NEW B, ListOf(S, B), NEW l \in Levels
  PROVE  ListOf(Raised(S, l), B) /\ Raised(S, l).len = S.len
<1> DEFINE T == Raised(S, l)
<1>1. /\ S.level \in Nat /\ l \in Nat /\ S.level \in Levels /\ S \in SkipLists
      /\ \A b \in B : S.lvl[b] \in Nat
  BY ListParts DEF ListOf
<1>2. Max({S.level, l}) \in Levels /\ S.level <= Max({S.level, l})  BY <1>1, MaxOfTwo
<1>3. /\ T \in SkipLists /\ T.fwd = S.fwd /\ T.lvl = S.lvl /\ T.len = S.len
      /\ T.level = Max({S.level, l}) /\ T.count = S.count
  BY <1>1, <1>2 DEF Raised, SkipLists
<1> HIDE DEF T
<1>4. \A i \in Levels : High(T, B, i) = High(S, B, i)  BY <1>3 DEF High
<1>5. ASSUME NEW b \in B PROVE T.lvl[b] <= T.level
  <2>1. S.lvl[b] <= S.level  BY DEF ListOf
  <2>2. Max({S.level, l}) \in Nat  BY <1>2, ListParts
  <2> QED  BY <2>1, <2>2, <1>1, <1>2, <1>3
<1> QED  BY <1>3, <1>4, <1>5 DEF ListOf, T

\* A value written in place leaves the links alone.
LEMMA ShortenedList ==
  ASSUME NEW S, NEW B, ListOf(S, B), NEW k \in SkipKeys, NEW length \in Nat
  PROVE  /\ ListOf([S EXCEPT !.len[k] = length], B)
         /\ [S EXCEPT !.len[k] = length].len = [S.len EXCEPT ![k] = length]
<1> DEFINE T == [S EXCEPT !.len[k] = length]
<1>1. S \in SkipLists  BY DEF ListOf
<1>2. /\ T \in SkipLists /\ T.fwd = S.fwd /\ T.lvl = S.lvl /\ T.len = [S.len EXCEPT ![k] = length]
      /\ T.level = S.level /\ T.count = S.count
  BY <1>1 DEF SkipLists
<1> HIDE DEF T
<1>3. \A i \in Levels : High(T, B, i) = High(S, B, i)  BY <1>2 DEF High
<1> QED  BY <1>2, <1>3 DEF ListOf, T

\* The deletion before a longer value is written.
LEMMA EmptiedList ==
  ASSUME NEW S, NEW B, ListOf(S, B), NEW k \in SkipKeys
  PROVE  /\ ListOf(Emptied(S, k), B \ {k})
         /\ \A b \in SkipKeys \ {k} : Emptied(S, k).len[b] = S.len[b]
<1>1. CASE k \in B
  <2>1. Emptied(S, k) = Unlinked(S, k)  BY <1>1, FoundIs DEF Emptied
  <2>2. Unlinked(S, k).len = [S.len EXCEPT ![k] = 0]  BY <1>1, UnlinkedList
  <2>3. ListOf(Unlinked(S, k), B \ {k})  BY <1>1, UnlinkedList
  <2>4. S.len \in [SkipKeys -> Nat]  BY ListParts
  <2> QED  BY <2>1, <2>2, <2>3, <2>4
<1>2. CASE k \notin B
  <2>1. Emptied(S, k) = S /\ B \ {k} = B  BY <1>2, FoundIs DEF Emptied
  <2> QED  BY <2>1
<1> QED  BY <1>1, <1>2

-----------------------------------------------------------------------------
(* Every step keeps the list *)

\* An empty list links nothing.
LEMMA SkipInvInit == SkipInit => SkipInv
<1> SUFFICES ASSUME SkipInit PROVE SkipInv  OBVIOUS
<1>1. /\ LastKey \in Nat /\ 0 \in Levels /\ 0 \in SkipNodes /\ Header = 0
  BY SkipAssumption DEF Levels, SkipNodes, Header
<1>2. SkipStored = {}  BY DEF SkipStored, SkipInit
<1>3. list \in SkipLists  BY <1>1 DEF SkipInit, SkipLists
<1>4. ASSUME NEW i \in Levels PROVE IsLevel(list.fwd[i], High(list, {}, i))
  <2>1. High(list, {}, i) = {}  BY DEF High
  <2>2. list.fwd[i] = [n \in SkipNodes |-> 0]  BY <1>1 DEF SkipInit
  <2> QED  BY <2>1, <2>2, <1>1 DEF IsLevel
<1>5. list.count = Cardinality({})  BY FS_EmptySet DEF SkipInit
<1>6. ListOf(list, {})  BY <1>3, <1>4, <1>5 DEF ListOf
<1>7. skipDict \in [SkipKeys -> Nat \cup {-1}]  BY DEF SkipInit
<1> QED  BY <1>2, <1>6, <1>7 DEF SkipInv

\* Lengths of values are numbers.
LEMMA LensAreNat == \A k \in SkipKeys : LensOf(k) \subseteq Nat
BY SkipAssumption DEF LensOf

\* kvs_skip_set of a value that fits.
LEMMA SetInPlaceStep ==
  ASSUME SkipInv, NEW k \in SkipKeys, NEW length \in Nat, SetInPlace(k, length)
  PROVE  SkipInv'
<1>1. k \in SkipStored  BY FoundIs DEF SkipInv, SetInPlace
<1>2. skipDict' = [skipDict EXCEPT ![k] = length] /\ skipDict \in [SkipKeys -> Nat \cup {-1}]
  BY DEF SkipInv, SetInPlace
<1>3. SkipStored' = SkipStored  BY <1>1, <1>2 DEF SkipStored
<1>4. list' = [list EXCEPT !.len[k] = length]  BY DEF SetInPlace
<1>5. ListOf(list', SkipStored) /\ list'.len = [list.len EXCEPT ![k] = length]
  BY <1>4, ShortenedList DEF SkipInv
<1>6. \A b \in SkipStored : list'.len[b] = skipDict'[b]
  BY <1>2, <1>5, ListParts DEF SkipInv, SkipStored
<1> QED  BY <1>2, <1>3, <1>5, <1>6 DEF SkipInv

\* kvs_skip_set with a new node, on any level.
LEMMA SetNodeStep ==
  ASSUME SkipInv, NEW k \in SkipKeys, NEW length \in Nat, NEW l \in Levels, SetNode(k, length, l)
  PROVE  SkipInv'
<1> DEFINE E == Emptied(list, k)
<1>1. ListOf(E, SkipStored \ {k}) /\ \A b \in SkipKeys \ {k} : E.len[b] = list.len[b]
  BY EmptiedList DEF SkipInv
<1>2. skipDict' = [skipDict EXCEPT ![k] = length] /\ skipDict \in [SkipKeys -> Nat \cup {-1}]
  BY DEF SkipInv, SetNode
<1>3. SkipStored' = (SkipStored \ {k}) \cup {k}  BY <1>2 DEF SkipStored
<1>4. list' = Linked(E, k, length, l)  BY DEF SetNode
<1> HIDE DEF E
<1>5. /\ ListOf(list', (SkipStored \ {k}) \cup {k})
      /\ list'.len = [E.len EXCEPT ![k] = length]
  <2> DEFINE B == SkipStored \ {k}
  <2>1. k \notin B /\ ListOf(E, B)  BY <1>1
  <2> HIDE DEF B
  <2>2. /\ ListOf(Linked(E, k, length, l), B \cup {k})
        /\ Linked(E, k, length, l).len = [E.len EXCEPT ![k] = length]
    BY <2>1, LinkedList
  <2> QED  BY <2>2, <1>4 DEF B
<1>6. ASSUME NEW b \in SkipStored' PROVE list'.len[b] = skipDict'[b]
  <2>1. b \in SkipKeys /\ E.len \in [SkipKeys -> Nat]  BY <1>1, ListParts DEF SkipStored
  <2>2. b # k => b \in SkipStored /\ list.len[b] = skipDict[b]  BY <1>3 DEF SkipInv
  <2> QED  BY <2>1, <2>2, <1>1, <1>2, <1>5
<1> QED  BY <1>2, <1>3, <1>5, <1>6 DEF SkipInv

\* kvs_skip_set whose node cannot be allocated: a longer value is then lost.
LEMMA SetFailsStep ==
  ASSUME SkipInv, NEW k \in SkipKeys, NEW length \in Nat, NEW l \in Levels, SetFails(k, length, l)
  PROVE  SkipInv'
<1> DEFINE E == Emptied(list, k)
<1>1. ListOf(E, SkipStored \ {k}) /\ \A b \in SkipKeys \ {k} : E.len[b] = list.len[b]
  BY EmptiedList DEF SkipInv
<1>2. skipDict' = [skipDict EXCEPT ![k] = -1] /\ skipDict \in [SkipKeys -> Nat \cup {-1}]
  BY DEF SkipInv, SetFails
<1>3. SkipStored' = SkipStored \ {k}  BY <1>2 DEF SkipStored
<1>4. list' = Raised(E, l)  BY DEF SetFails
<1> HIDE DEF E
<1>5. ListOf(list', SkipStored \ {k}) /\ list'.len = E.len  BY <1>1, <1>4, RaisedList
<1>6. ASSUME NEW b \in SkipStored' PROVE list'.len[b] = skipDict'[b]
  <2>1. b \in SkipKeys \ {k} /\ b \in SkipStored  BY <1>3 DEF SkipStored
  <2>2. list.len[b] = skipDict[b]  BY <2>1 DEF SkipInv
  <2> QED  BY <2>1, <2>2, <1>1, <1>2, <1>5
<1> QED  BY <1>2, <1>3, <1>5, <1>6 DEF SkipInv

\* kvs_skip_del.
LEMMA SkipDelStep ==
  ASSUME SkipInv, NEW k \in SkipKeys, SkipDel(k)
  PROVE  SkipInv'
<1>1. k \in SkipStored  BY FoundIs DEF SkipInv, SkipDel
<1>2. skipDict' = [skipDict EXCEPT ![k] = -1] /\ skipDict \in [SkipKeys -> Nat \cup {-1}]
  BY DEF SkipInv, SkipDel
<1>3. SkipStored' = SkipStored \ {k}  BY <1>2 DEF SkipStored
<1>4. list' = Unlinked(list, k)  BY DEF SkipDel
<1>5. ListOf(list', SkipStored \ {k}) /\ list'.len = [list.len EXCEPT ![k] = 0]
  BY <1>1, <1>4, UnlinkedList DEF SkipInv
<1>6. ASSUME NEW b \in SkipStored' PROVE list'.len[b] = skipDict'[b]
  <2>1. b \in SkipKeys \ {k} /\ b \in SkipStored /\ list.len \in [SkipKeys -> Nat]
    BY <1>3, ListParts DEF SkipInv, SkipStored
  <2>2. list.len[b] = skipDict[b]  BY <2>1 DEF SkipInv
  <2> QED  BY <2>1, <2>2, <1>2, <1>5
<1> QED  BY <1>2, <1>3, <1>5, <1>6 DEF SkipInv

\* Every operation keeps the list in order.
LEMMA SkipInvNext == SkipInv /\ [SkipNext]_skipVars => SkipInv'
<1> SUFFICES ASSUME SkipInv, [SkipNext]_skipVars PROVE SkipInv'  OBVIOUS
<1>1. ASSUME NEW k \in SkipKeys, NEW length \in LensOf(k), SetInPlace(k, length)
      PROVE  SkipInv'
  BY <1>1, LensAreNat, SetInPlaceStep
<1>2. ASSUME NEW k \in SkipKeys, NEW length \in LensOf(k), NEW l \in Levels, SetNode(k, length, l)
      PROVE  SkipInv'
  BY <1>2, LensAreNat, SetNodeStep
<1>3. ASSUME NEW k \in SkipKeys, NEW length \in LensOf(k), NEW l \in Levels, SetFails(k, length, l)
      PROVE  SkipInv'
  BY <1>3, LensAreNat, SetFailsStep
<1>4. ASSUME NEW k \in SkipKeys, SkipDel(k) PROVE SkipInv'
  BY <1>4, SkipDelStep
<1>5. CASE UNCHANGED skipVars
  BY <1>5 DEF skipVars, SkipInv, SkipStored
<1> QED  BY <1>1, <1>2, <1>3, <1>4, <1>5 DEF SkipNext

-----------------------------------------------------------------------------
(* The chain of a level *)

Ascending(s) == \A a, b \in DOMAIN s : a < b => s[a] < s[b]

\* A smaller key before an ascending sequence.
LEMMA AheadOf ==
  ASSUME NEW x \in SkipKeys, NEW s \in Seq(SkipKeys), Ascending(s), \A m \in ToSet(s) : x < m
  PROVE  /\ <<x>> \o s \in Seq(SkipKeys)
         /\ ToSet(<<x>> \o s) = {x} \cup ToSet(s)
         /\ Ascending(<<x>> \o s)
<1> DEFINE t == <<x>> \o s
<1>1. /\ t \in Seq(SkipKeys) /\ Len(t) = Len(s) + 1 /\ Len(s) \in Nat
      /\ DOMAIN t = 1..(Len(s) + 1) /\ DOMAIN s = 1..Len(s)
      /\ t[1] = x
      /\ \A a \in 2..(Len(s) + 1) : t[a] = s[a - 1]
  OBVIOUS
<1> HIDE DEF t
<1>2. ToSet(t) = {x} \cup ToSet(s)
  <2>1. ASSUME NEW m \in ToSet(t) PROVE m \in {x} \cup ToSet(s)
    <3>1. PICK a \in DOMAIN t : m = t[a]  BY DEF ToSet
    <3>2. CASE a = 1
      BY <3>1, <3>2, <1>1
    <3>3. CASE a # 1
      <4>1. a \in 2..(Len(s) + 1) /\ a - 1 \in DOMAIN s  BY <3>1, <3>3, <1>1
      <4>2. m = s[a - 1]  BY <4>1, <3>1, <1>1
      <4> QED  BY <4>1, <4>2 DEF ToSet
    <3> QED  BY <3>2, <3>3
  <2>2. x \in ToSet(t)
    <3>1. 1 \in DOMAIN t  BY <1>1
    <3> QED  BY <3>1, <1>1 DEF ToSet
  <2>3. ASSUME NEW m \in ToSet(s) PROVE m \in ToSet(t)
    <3>1. PICK a \in DOMAIN s : m = s[a]  BY DEF ToSet
    <3>2. a + 1 \in 2..(Len(s) + 1) /\ a + 1 \in DOMAIN t /\ (a + 1) - 1 = a  BY <3>1, <1>1
    <3>3. t[a + 1] = m  BY <3>1, <3>2, <1>1
    <3> QED  BY <3>2, <3>3 DEF ToSet
  <2> QED  BY <2>1, <2>2, <2>3
<1>3. ASSUME NEW a \in DOMAIN t, NEW b \in DOMAIN t, a < b PROVE t[a] < t[b]
  <2>1. b \in 2..(Len(s) + 1) /\ b - 1 \in DOMAIN s  BY <1>1, <1>3
  <2>2. t[b] = s[b - 1] /\ s[b - 1] \in ToSet(s)  BY <2>1, <1>1 DEF ToSet
  <2>3. CASE a = 1
    BY <2>2, <2>3, <1>1
  <2>4. CASE a # 1
    <3>1. a \in 2..(Len(s) + 1) /\ a - 1 \in DOMAIN s /\ a - 1 < b - 1  BY <1>1, <1>3, <2>4
    <3>2. t[a] = s[a - 1]  BY <3>1, <1>1
    <3>3. s[a - 1] < s[b - 1]  BY <2>1, <3>1 DEF Ascending
    <3> QED  BY <3>2, <3>3, <2>2
  <2> QED  BY <2>3, <2>4
<1> QED  BY <1>1, <1>2, <1>3 DEF Ascending, t

\* What the chain from each node satisfies.
Chaining(next, g) ==
  g = [n \in SkipNodes |-> IF next[n] = Header THEN << >> ELSE <<next[n]>> \o g[next[n]]]

\* Since pointers go up, the chains are found from the last node down.
LEMMA ChainingExists ==
  ASSUME NEW A, A \subseteq SkipKeys, NEW next, IsLevel(next, A)
  PROVE  \E g : Chaining(next, g)
<1> DEFINE Eq(g, n) == g[n] = IF next[n] = 0 THEN << >> ELSE <<next[n]>> \o g[next[n]]
           P(j) == \E g \in [SkipNodes -> Seq(SkipKeys)] :
                     \A n \in SkipNodes : n + j > LastKey => Eq(g, n)
           J == {j \in Nat : P(j)}
<1>1. /\ LastKey \in Nat /\ Header = 0
      /\ \A n \in SkipNodes : n \in Nat /\ n <= LastKey
      /\ \A n \in Nat : n <= LastKey => n \in SkipNodes
  BY SkipAssumption DEF SkipNodes, Header
<1>2. /\ next \in [SkipNodes -> SkipNodes]
      /\ \A n \in SkipNodes : next[n] = 0 \/ (next[n] \in SkipKeys /\ n < next[n])
  <2>1. ASSUME NEW n \in SkipNodes PROVE next[n] = 0 \/ (next[n] \in A /\ n < next[n])
    BY DEF IsLevel
  <2> QED  BY <2>1 DEF IsLevel
<1>3. P(0)
  <2> DEFINE g == [n \in SkipNodes |-> << >>]
  <2>1. << >> \in Seq(SkipKeys)  OBVIOUS
  <2>2. g \in [SkipNodes -> Seq(SkipKeys)]  BY <2>1
  <2> HIDE DEF g
  <2>3. \A n \in SkipNodes : n + 0 > LastKey => Eq(g, n)  BY <1>1
  <2> QED  BY <2>2, <2>3
<1>4. ASSUME NEW j \in Nat, P(j) PROVE P(j + 1)
  <2>1. PICK g \in [SkipNodes -> Seq(SkipKeys)] :
               \A n \in SkipNodes : n + j > LastKey => Eq(g, n)
    BY <1>4
  <2>2. CASE j > LastKey
    <3>1. \A n \in SkipNodes : n + j > LastKey  BY <2>2, <1>1
    <3>2. \A n \in SkipNodes : Eq(g, n)  BY <2>1, <3>1
    <3> HIDE DEF Eq
    <3> QED  BY <3>2
  <2>3. CASE j <= LastKey
    <3> DEFINE m == LastKey - j
               s == IF next[m] = 0 THEN << >> ELSE <<next[m]>> \o g[next[m]]
               h == [g EXCEPT ![m] = s]
    <3>1. m \in SkipNodes /\ m \in Nat /\ m + j = LastKey  BY <2>3, <1>1
    <3> HIDE DEF m
    <3>2. s \in Seq(SkipKeys)
      <4>1. CASE next[m] = 0  BY <4>1
      <4>2. CASE next[m] # 0
        <5>1. next[m] \in SkipKeys /\ next[m] \in SkipNodes  BY <4>2, <3>1, <1>2
        <5>2. g[next[m]] \in Seq(SkipKeys)  BY <5>1
        <5>3. <<next[m]>> \in Seq(SkipKeys)  BY <5>1
        <5>4. <<next[m]>> \o g[next[m]] \in Seq(SkipKeys)  BY <5>2, <5>3
        <5> QED  BY <5>4, <4>2
      <4> QED  BY <4>1, <4>2
    <3> HIDE DEF s
    <3>3. /\ h \in [SkipNodes -> Seq(SkipKeys)] /\ h[m] = s
          /\ \A n \in SkipNodes : n # m => h[n] = g[n]
      BY <3>1, <3>2
    <3> HIDE DEF h
    <3>4. ASSUME NEW n \in SkipNodes, n + (j + 1) > LastKey PROVE Eq(h, n)
      <4>1. n \in Nat /\ next[n] \in SkipNodes /\ next[n] \in Nat  BY <1>1, <1>2
      <4>2. n >= m  BY <3>1, <3>4, <4>1
      <4>3. next[n] # 0 => h[next[n]] = g[next[n]]
        <5>1. next[n] # 0 => next[n] # m  BY <4>1, <4>2, <1>2, <3>1
        <5> QED  BY <5>1, <4>1, <3>3
      <4>4. CASE n = m
        BY <4>3, <4>4, <3>3 DEF s
      <4>5. CASE n # m
        <5>1. n + j > LastKey  BY <4>1, <4>2, <4>5, <3>1
        <5>2. Eq(g, n)  BY <5>1, <2>1
        <5> QED  BY <5>2, <4>3, <4>5, <3>3
      <4> QED  BY <4>4, <4>5
    <3> HIDE DEF Eq
    <3> QED  BY <3>3, <3>4
  <2>4. j > LastKey \/ j <= LastKey  BY <1>1
  <2> HIDE DEF P
  <2> QED  BY <2>2, <2>3, <2>4
<1>5. \A j \in Nat : P(j)
  <2> HIDE DEF P
  <2>1. 0 \in J /\ \A j \in Nat : j \in J => j + 1 \in J  BY <1>3, <1>4
  <2> HIDE DEF J
  <2>2. \A j \in Nat : j \in J  BY <2>1, AllNat
  <2> QED  BY <2>2 DEF J
<1>6. LastKey + 1 \in Nat  BY <1>1
<1>7. PICK g \in [SkipNodes -> Seq(SkipKeys)] :
             \A n \in SkipNodes : n + (LastKey + 1) > LastKey => Eq(g, n)
  BY <1>5, <1>6
<1>8. \A n \in SkipNodes : Eq(g, n)
  <2>1. \A n \in SkipNodes : n + (LastKey + 1) > LastKey  BY <1>1
  <2> HIDE DEF Eq
  <2> QED  BY <2>1, <1>7
<1>9. Chaining(next, g)  BY <1>1, <1>7, <1>8 DEF Chaining
<1> QED  BY <1>9

\* The chain of a level lists its nodes in order.
LEMMA ChainIs ==
  ASSUME NEW S, NEW i, NEW A, A \subseteq SkipKeys, IsLevel(S.fwd[i], A)
  PROVE  /\ ToSet(Chain(S, i)) = A
         /\ Ascending(Chain(S, i))
         /\ A = {} => Chain(S, i) = << >>
<1> DEFINE next == S.fwd[i]
           from == CHOOSE g : Chaining(next, g)
           Above(n) == {m \in A : m > n}
           Good(n) == from[n] \in Seq(SkipKeys) /\ ToSet(from[n]) = Above(n) /\ Ascending(from[n])
           Bad == {n \in A \cup {0} : ~Good(n)}
<1>1. Chain(S, i) = from[0]  BY DEF Chain, Chaining, Header
<1>2. Chaining(next, from)
  <2>1. \E g : Chaining(next, g)  BY ChainingExists
  <2> HIDE DEF next
  <2> QED  BY <2>1
<1>3. /\ Header = 0 /\ 0 \in SkipNodes /\ A \cup {0} \subseteq SkipNodes
      /\ \A m \in A : m \in Nat /\ m \in SkipKeys /\ m > 0
  BY SkipAssumption DEF SkipNodes, SkipKeys, Header
<1> HIDE DEF from, next
<1>4. \A n \in SkipNodes : from[n] = IF next[n] = 0 THEN << >> ELSE <<next[n]>> \o from[next[n]]
  BY <1>2, <1>3 DEF Chaining
<1>5. Bad = {}
  <2> SUFFICES ASSUME Bad # {} PROVE FALSE  OBVIOUS
  <2>1. PICK n \in Bad : \A m \in Bad : m <= n
    <3>1. Bad \subseteq SkipNodes  BY <1>3
    <3> HIDE DEF Bad
    <3> QED  BY <3>1, Greatest
  <2>2. n \in A \cup {0} /\ n \in SkipNodes /\ n \in Nat  BY <2>1, <1>3
  <2>3. /\ next[n] = 0 \/ (next[n] \in A /\ n < next[n])
        /\ \A m \in A : n < m => next[n] # 0 /\ next[n] <= m
    BY <2>2 DEF IsLevel, next
  <2>4. CASE next[n] = 0
    <3>1. from[n] = << >>  BY <2>2, <2>4, <1>4
    <3>2. Above(n) = {}  BY <2>2, <2>3, <2>4, <1>3
    <3>3. << >> \in Seq(SkipKeys) /\ ToSet(<< >>) = {} /\ Ascending(<< >>)
      BY DEF ToSet, Ascending
    <3> QED  BY <3>1, <3>2, <3>3, <2>1
  <2>5. CASE next[n] # 0
    <3> DEFINE x == next[n]
    <3>1. x \in A /\ x \in SkipKeys /\ x \in Nat /\ n < x  BY <2>3, <2>5, <1>3
    <3> HIDE DEF x
    <3>2. Good(x)
      <4>1. x \notin Bad
        <5> HIDE DEF Bad
        <5> QED  BY <3>1, <2>1, <2>2
      <4> QED  BY <4>1, <3>1
    <3>3. from[n] = <<x>> \o from[x]  BY <2>2, <2>5, <1>4 DEF x
    <3>4. \A m \in ToSet(from[x]) : x < m  BY <3>1, <3>2, <1>3
    <3>5. Above(n) = {x} \cup Above(x)
      <4>1. \A m \in A : m > n => x <= m  BY <2>3, <2>2, <1>3 DEF x
      <4>2. ASSUME NEW m \in A PROVE m > n <=> (m = x \/ m > x)
        <5>1. m \in Nat /\ (m > n => x <= m)  BY <4>1, <1>3
        <5> QED  BY <5>1, <3>1, <2>2
      <4> QED  BY <4>2, <3>1
    <3>6. /\ <<x>> \o from[x] \in Seq(SkipKeys)
          /\ ToSet(<<x>> \o from[x]) = {x} \cup ToSet(from[x])
          /\ Ascending(<<x>> \o from[x])
      BY <3>1, <3>2, <3>4, AheadOf
    <3>7. Good(n)
      <4> HIDE DEF Above
      <4> QED  BY <3>2, <3>3, <3>5, <3>6
    <3> QED  BY <3>7, <2>1
  <2> QED  BY <2>4, <2>5
<1>6. Good(0)  BY <1>5
<1>7. Above(0) = A  BY <1>3
<1>8. ASSUME A = {} PROVE from[0] = << >>
  <2>1. next[0] = 0  BY <1>8 DEF IsLevel, next
  <2> QED  BY <2>1, <1>3, <1>4
<1> QED  BY <1>1, <1>6, <1>7, <1>8

\* A search, and a walk along the lowest level, find what was stored.
LEMMA SkipInvLookup == SkipInv => SkipLookup
<1> SUFFICES ASSUME SkipInv PROVE SkipLookup  OBVIOUS
<1> DEFINE B == SkipStored
<1>1. ListOf(list, B) /\ skipDict \in [SkipKeys -> Nat \cup {-1}]  BY DEF SkipInv
<1>2. SearchFinds
  <2>1. ASSUME NEW k \in SkipKeys
        PROVE  skipDict[k] = IF SkipFound(list, k) THEN list.len[k] ELSE -1
    <3>1. SkipFound(list, k) <=> k \in B  BY <1>1, FoundIs
    <3>2. k \in B => list.len[k] = skipDict[k]  BY DEF SkipInv
    <3>3. k \notin B => skipDict[k] = -1  BY <1>1 DEF SkipStored
    <3> QED  BY <3>1, <3>2, <3>3
  <2> QED  BY <2>1 DEF SearchFinds
<1>3. ASSUME NEW i \in Levels
      PROVE  /\ ToSet(Chain(list, i)) = {k \in B : list.lvl[k] >= i}
             /\ \A a, b \in DOMAIN Chain(list, i) : a < b => Chain(list, i)[a] < Chain(list, i)[b]
             /\ i > list.level => Chain(list, i) = << >>
  <2> DEFINE A == High(list, B, i)
  <2>1. A \subseteq SkipKeys /\ IsLevel(list.fwd[i], A)  BY <1>1, ListParts DEF ListOf
  <2>2. i > list.level => A = {}
    <3>1. \A b \in B : list.lvl[b] <= list.level /\ list.lvl[b] \in Nat
      BY <1>1, ListParts DEF ListOf
    <3>2. i \in Nat /\ list.level \in Nat  BY <1>1, ListParts
    <3> QED  BY <3>1, <3>2 DEF High
  <2>3. A = {k \in B : list.lvl[k] >= i}  BY DEF High
  <2> HIDE DEF A
  <2>4. /\ ToSet(Chain(list, i)) = A /\ Ascending(Chain(list, i))
        /\ A = {} => Chain(list, i) = << >>
    BY <2>1, ChainIs
  <2> QED  BY <2>2, <2>3, <2>4 DEF Ascending
<1>4. list.count = Cardinality(B)  BY <1>1 DEF ListOf
<1>5. LevelsNested
  <2>1. B = {k \in SkipKeys : skipDict[k] >= 0}  BY DEF SkipStored
  <2> HIDE DEF B
  <2> QED  BY <2>1, <1>3, <1>4 DEF LevelsNested
<1> QED  BY <1>2, <1>5 DEF SkipLookup

\* The skip list is at every step the list of the keys that have a value: each
\* level links, in order, the nodes that high (skip_find_update, kvs_skip_set,
\* kvs_skip_del).
THEOREM SkipInvariant == SkipSpec => []SkipInv
BY SkipInvInit, SkipInvNext, PTL DEF SkipSpec

\* A search of the skip list finds exactly what was stored, whatever levels the
\* nodes were given and whichever allocation failed, and each level is sorted.
THEOREM SkipFinds == SkipSpec => []SkipLookup
BY SkipInvariant, SkipInvLookup, PTL

-----------------------------------------------------------------------------
(* The memory pool *)

TypeCore ==
  /\ owner \in [Blocks -> Pools \cup {NoBlock}] /\ count \in [Blocks -> Nat]
  /\ free \in [Pools -> SUBSET Chunks] /\ live \in [Pools -> SUBSET Chunks]
  /\ current \in [Pools -> Blocks \cup {NoBlock}]
  /\ remaining \in [Pools -> Nat]

MovingLive == moving \subseteq UNION {live[p] : p \in Pools}

\* How many chunks of block b were carved for pool p.
Upto(p, b) == IF current[p] = b THEN Cap[p] - remaining[p] ELSE Cap[p]

\* ChunksAccounted, chunk by chunk.
Accounted ==
  \A p \in Pools :
    /\ live[p] \cap free[p] = {}
    /\ \A c \in Chunks :
         (c \in live[p] \/ c \in free[p])
           <=> (owner[c.blk] = p /\ c.idx >= 1 /\ c.idx <= Upto(p, c.blk))

\* A pool carves from a block of its own, and from no block once it is used up.
CurrentOwned ==
  \A p \in Pools :
    /\ current[p] = NoBlock => remaining[p] = 0
    /\ current[p] # NoBlock => owner[current[p]] = p /\ remaining[p] < Cap[p]

Core == TypeCore /\ Accounted /\ CurrentOwned /\ CountsExact /\ NoIdleBlock

PoolInv == Core /\ MovingLive

-----------------------------------------------------------------------------
(* Counting chunks *)

\* The chunks carved from a block are finitely many, at most its capacity.
LEMMA CarvedFinite ==
  ASSUME NEW b, NEW n \in Nat
  PROVE  LET S == {Chunk(b, i) : i \in 1..n}
         IN  IsFiniteSet(S) /\ Cardinality(S) <= n
<1> DEFINE S == {Chunk(b, i) : i \in 1..n}
           f == [i \in 1..n |-> Chunk(b, i)]
<1>1. f \in Surjection(1..n, S)
  BY DEF Surjection
<1>2. IsFiniteSet(1..n) /\ Cardinality(1..n) = n
  BY FS_Interval
<1> QED BY <1>1, <1>2, FS_Surjection

\* A block's free chunks are finitely many, and all carved.
LEMMA FreeFinite ==
  ASSUME TypeCore, Accounted, CurrentOwned, NEW p \in Pools, NEW b \in Blocks, owner[b] = p
  PROVE  /\ Upto(p, b) \in Nat /\ Upto(p, b) <= Cap[p]
         /\ In(live[p], b) \cup In(free[p], b) \subseteq {Chunk(b, i) : i \in 1..Upto(p, b)}
         /\ IsFiniteSet(In(free[p], b))
<1>1. Upto(p, b) \in Nat /\ Upto(p, b) <= Cap[p]
  BY PoolAssumption DEF TypeCore, CurrentOwned, Upto
<1>2. ASSUME NEW c \in In(live[p], b) \cup In(free[p], b)
      PROVE  c \in {Chunk(b, i) : i \in 1..Upto(p, b)}
  <2>1. c \in Chunks /\ c.blk = b /\ (c \in live[p] \/ c \in free[p])
    BY DEF In, TypeCore
  <2>2. c = Chunk(b, c.idx) /\ c.idx \in Nat
    BY <2>1 DEF Chunk, Chunks
  <2>3. c.idx >= 1 /\ c.idx <= Upto(p, b)
    BY <2>1 DEF Accounted
  <2>4. c.idx \in 1..Upto(p, b)
    BY <2>2, <2>3, <1>1
  <2> QED BY <2>2, <2>4
<1>3. IsFiniteSet({Chunk(b, i) : i \in 1..Upto(p, b)})
  BY <1>1, CarvedFinite
<1>4. In(free[p], b) \in SUBSET {Chunk(b, i) : i \in 1..Upto(p, b)}
  BY <1>2
<1>5. IsFiniteSet(In(free[p], b))
  BY <1>3, <1>4, FS_Subset
<1> QED BY <1>1, <1>2, <1>5

\* The free that completes a block frees the last chunk in use: what the
\* decision to return a block rests on.
LEMMA LastInUse ==
  ASSUME Core, NEW p \in Pools, NEW c \in live[p], owner[c.blk] = p,
         count[c.blk] + 1 = Cap[p], NEW d \in live[p], d.blk = c.blk
  PROVE  d = c
<1> DEFINE b == c.blk
           S == {Chunk(b, i) : i \in 1..Upto(p, b)}
           F == In(free[p], b)
<1>1. c \in Chunks /\ b \in Blocks
  BY DEF Core, TypeCore, Chunks
<1>2. /\ Upto(p, b) \in Nat /\ Upto(p, b) <= Cap[p] /\ IsFiniteSet(F)
      /\ In(live[p], b) \cup F \subseteq S
  BY <1>1, FreeFinite DEF Core
<1>3. IsFiniteSet(S) /\ Cardinality(S) <= Upto(p, b) /\ Cardinality(S) \in Nat
  BY <1>2, CarvedFinite, FS_CardinalityType
<1>4. c \notin F /\ d \notin F /\ c \in In(live[p], b) /\ d \in In(live[p], b)
  BY DEF Core, Accounted, In
<1>5. IsFiniteSet(F \cup {c}) /\ Cardinality(F \cup {c}) = Cardinality(F) + 1
  BY <1>2, <1>4, FS_AddElement
<1>6. Cardinality(F) + 1 = Cap[p] /\ Cap[p] \in Nat
  BY <1>1, PoolAssumption DEF Core, CountsExact
<1>7. F \cup {c} \in SUBSET S
  BY <1>2, <1>4
<1>8. Cardinality(F \cup {c}) <= Cardinality(S)
  BY <1>3, <1>7, FS_Subset
<1>9. Cardinality(F \cup {c}) = Cardinality(S)
  BY <1>2, <1>3, <1>5, <1>6, <1>8
<1>10. F \cup {c} = S
  BY <1>3, <1>7, <1>9, FS_Subset
<1> QED BY <1>2, <1>4, <1>10

-----------------------------------------------------------------------------
(* The steps *)

\* Reusing a free chunk.
LEMMA ReuseCore == ASSUME Core, NEW p \in Pools, AllocReuse(p) PROVE Core'
<1>1. PICK c \in free[p] :
        /\ free' = [free EXCEPT ![p] = @ \ {c}]
        /\ count' = [count EXCEPT ![c.blk] = @ - 1]
        /\ live' = [live EXCEPT ![p] = @ \cup {c}]
        /\ owner' = owner /\ current' = current /\ remaining' = remaining
  BY DEF AllocReuse
<1>2. c \in Chunks /\ c.blk \in Blocks /\ owner[c.blk] = p
  BY <1>1 DEF Core, TypeCore, Accounted, Chunks
<1>3. c \in In(free[p], c.blk)
  BY <1>1 DEF In
<1>4. IsFiniteSet(In(free[p], c.blk)) /\ count[c.blk] = Cardinality(In(free[p], c.blk))
  BY <1>2, FreeFinite DEF Core, CountsExact
<1>5. Cardinality(In(free[p], c.blk) \ {c}) = Cardinality(In(free[p], c.blk)) - 1
  BY <1>3, <1>4, FS_RemoveElement
<1>6. count[c.blk] - 1 \in Nat /\ count'[c.blk] = count[c.blk] - 1
  <2>1. IsFiniteSet(In(free[p], c.blk) \ {c})
    BY <1>4, FS_RemoveElement
  <2>2. Cardinality(In(free[p], c.blk) \ {c}) \in Nat
    BY <2>1, FS_CardinalityType
  <2>3. count[c.blk] - 1 \in Nat
    BY <2>2, <1>5, <1>4
  <2> QED BY <2>3, <1>1, <1>2 DEF Core, TypeCore
<1>7. TypeCore'
  BY <1>1, <1>2, <1>6 DEF Core, TypeCore
<1>8. Accounted'
  BY <1>1, <1>2 DEF Core, TypeCore, Accounted, Upto
<1>9. CurrentOwned'
  BY <1>1 DEF Core, CurrentOwned
<1>10. CountsExact'
  <2> SUFFICES ASSUME NEW q \in Pools, NEW b \in Blocks, owner[b] = q
               PROVE  count'[b] = Cardinality(In(free'[q], b))
    BY <1>1 DEF CountsExact
  <2>1. CASE b = c.blk
    <3>1. q = p
      BY <2>1, <1>2
    <3>2. In(free'[p], b) = In(free[p], c.blk) \ {c}
      BY <2>1, <1>1, <1>2 DEF In, Core, TypeCore
    <3> QED BY <3>1, <3>2, <2>1, <1>4, <1>5, <1>6
  <2>2. CASE b # c.blk
    <3>1. In(free'[q], b) = In(free[q], b)
      BY <2>2, <1>1, <1>2 DEF In, Core, TypeCore
    <3>2. count'[b] = count[b]
      BY <2>2, <1>1, <1>2 DEF Core, TypeCore
    <3> QED BY <3>1, <3>2 DEF Core, CountsExact
  <2> QED BY <2>1, <2>2
<1>11. NoIdleBlock'
  <2> SUFFICES ASSUME NEW q \in Pools, NEW b \in Blocks, owner[b] = q
               PROVE  count'[b] < Cap[q]
    BY <1>1 DEF NoIdleBlock
  <2>1. count[b] < Cap[q] /\ count[b] \in Nat /\ Cap[q] \in Nat
    BY PoolAssumption DEF Core, TypeCore, NoIdleBlock
  <2>2. count'[b] = count[b] \/ (b = c.blk /\ count'[b] = count[b] - 1)
    BY <1>1, <1>2 DEF Core, TypeCore
  <2> QED BY <2>1, <2>2
<1> QED BY <1>7, <1>8, <1>9, <1>10, <1>11 DEF Core

\* Carving the next chunk of the current block.
LEMMA CarveCore == ASSUME Core, NEW p \in Pools, AllocCarve(p) PROVE Core'
<1> DEFINE b == current[p]
           n == Cap[p] - remaining[p] + 1
           c == Chunk(b, n)
<1>1. /\ free[p] = {} /\ remaining[p] > 0
      /\ live' = [live EXCEPT ![p] = @ \cup {c}]
      /\ remaining' = [remaining EXCEPT ![p] = @ - 1]
      /\ owner' = owner /\ count' = count /\ free' = free /\ current' = current
  BY DEF AllocCarve
<1>2. Cap[p] \in Nat /\ remaining[p] \in Nat /\ remaining[p] < Cap[p]
      /\ b \in Blocks /\ owner[b] = p
  <2>1. Cap[p] \in Nat /\ remaining[p] \in Nat /\ b \in Blocks \cup {NoBlock}
    BY PoolAssumption DEF Core, TypeCore
  <2>2. b # NoBlock
    BY <1>1, <2>1 DEF Core, CurrentOwned
  <2> QED BY <2>1, <2>2 DEF Core, CurrentOwned
<1>3. n \in Nat /\ n >= 1 /\ c \in Chunks /\ c.blk = b /\ c.idx = n
  BY <1>2 DEF Chunk, Chunks
<1>4. TypeCore'
  BY <1>1, <1>2, <1>3 DEF Core, TypeCore
<1>5. Accounted'
  <2> SUFFICES ASSUME NEW q \in Pools
               PROVE  /\ live'[q] \cap free[q] = {}
                      /\ \A d \in Chunks :
                           (d \in live'[q] \/ d \in free[q])
                             <=> (owner[d.blk] = q /\ d.idx >= 1 /\ d.idx <= Upto(q, d.blk)')
    BY <1>1 DEF Accounted
  <2>1. CASE q # p
    <3>1. live'[q] = live[q] /\ \A d \in Chunks : Upto(q, d.blk)' = Upto(q, d.blk)
      BY <2>1, <1>1 DEF Core, TypeCore, Upto
    <3> QED BY <3>1 DEF Core, Accounted
  <2>2. CASE q = p
    <3>1. live'[p] = live[p] \cup {c}
      BY <1>1 DEF Core, TypeCore
    <3>2. ASSUME NEW d \in Chunks
          PROVE  d \in live'[p] <=> (owner[d.blk] = p /\ d.idx >= 1 /\ d.idx <= Upto(p, d.blk)')
      <4>1. d \in live[p] <=> (owner[d.blk] = p /\ d.idx >= 1 /\ d.idx <= Upto(p, d.blk))
        BY <1>1 DEF Core, Accounted
      <4>2. CASE d.blk # b
        <5>1. Upto(p, d.blk)' = Upto(p, d.blk) /\ d # c
          BY <4>2, <1>1, <1>3 DEF Upto
        <5> QED BY <5>1, <4>1, <3>1
      <4>3. CASE d.blk = b
        <5>1. Upto(p, d.blk) = n - 1 /\ Upto(p, d.blk)' = n
          BY <4>3, <1>1, <1>2 DEF Upto, Core, TypeCore
        <5>2. d = c <=> d.idx = n
          BY <4>3, <1>3 DEF Chunk, Chunks
        <5>3. d.idx \in Nat
          BY DEF Chunks
        <5>4. d.idx <= n <=> (d.idx <= n - 1 \/ d.idx = n)
          BY <5>3, <1>3
        <5> QED BY <5>1, <5>2, <5>4, <4>1, <4>3, <3>1, <1>2, <1>3
      <4> QED BY <4>2, <4>3
    <3> QED BY <2>2, <3>2, <1>1
  <2> QED BY <2>1, <2>2
<1>6. CurrentOwned'
  BY <1>1, <1>2 DEF Core, TypeCore, CurrentOwned
<1>7. CountsExact' /\ NoIdleBlock'
  BY <1>1 DEF Core, CountsExact, NoIdleBlock
<1> QED BY <1>4, <1>5, <1>6, <1>7 DEF Core

\* Adding a block and carving its first chunk.
LEMMA NewBlockCore ==
  ASSUME Core, NEW p \in Pools, NEW b \in Blocks, AllocNewBlock(p, b) PROVE Core'
<1> DEFINE c == Chunk(b, 1)
<1>1. /\ free[p] = {} /\ remaining[p] = 0 /\ owner[b] = NoBlock
      /\ owner' = [owner EXCEPT ![b] = p]
      /\ count' = [count EXCEPT ![b] = 0]
      /\ current' = [current EXCEPT ![p] = b]
      /\ remaining' = [remaining EXCEPT ![p] = Cap[p] - 1]
      /\ live' = [live EXCEPT ![p] = @ \cup {c}]
      /\ free' = free
  BY DEF AllocNewBlock
<1>2. Cap[p] \in Nat /\ Cap[p] >= 1 /\ NoBlock \notin Pools /\ NoBlock # b
  BY PoolAssumption
<1>3. c \in Chunks /\ c.blk = b /\ c.idx = 1
  BY DEF Chunk, Chunks
<1>4. \A q \in Pools : \A d \in live[q] \cup free[q] : d.blk # b
  BY <1>1, <1>2 DEF Core, TypeCore, Accounted
<1>5. \A q \in Pools : current[q] # b
  BY <1>1, <1>2 DEF Core, CurrentOwned
<1>6. TypeCore'
  BY <1>1, <1>2, <1>3 DEF Core, TypeCore
<1>7. Accounted'
  <2> SUFFICES ASSUME NEW q \in Pools
               PROVE  /\ live'[q] \cap free[q] = {}
                      /\ \A d \in Chunks :
                           (d \in live'[q] \/ d \in free[q])
                             <=> (owner'[d.blk] = q /\ d.idx >= 1 /\ d.idx <= Upto(q, d.blk)')
    BY <1>1 DEF Accounted
  <2>1. live'[q] \cap free[q] = {}
    BY <1>1 DEF Core, TypeCore, Accounted
  <2>2. ASSUME NEW d \in Chunks
        PROVE  (d \in live'[q] \/ d \in free[q])
                 <=> (owner'[d.blk] = q /\ d.idx >= 1 /\ d.idx <= Upto(q, d.blk)')
    <3>0. d.blk \in Blocks /\ d.idx \in Nat
      BY DEF Chunks
    <3>1. CASE d.blk = b
      <4>1. d \notin live[q] /\ d \notin free[q]
        BY <3>1, <1>4
      <4>2. owner'[b] = p
        BY <1>1 DEF Core, TypeCore
      <4>3. CASE q # p
        BY <4>1, <4>2, <4>3, <3>1, <1>1 DEF Core, TypeCore
      <4>4. CASE q = p
        <5>1. Upto(p, b)' = 1
          BY <1>1, <1>2 DEF Core, TypeCore, Upto
        <5>2. d = c <=> d.idx = 1
          BY <3>1, <1>3 DEF Chunk, Chunks
        <5>3. d \in live'[p] <=> d = c
          BY <4>1, <4>4, <1>1 DEF Core, TypeCore
        <5>4. (d.idx >= 1 /\ d.idx <= 1) <=> d.idx = 1
          BY <3>0
        <5> QED BY <5>1, <5>2, <5>3, <5>4, <4>1, <4>2, <4>4, <3>1
      <4> QED BY <4>3, <4>4
    <3>2. CASE d.blk # b
      <4>1. owner'[d.blk] = owner[d.blk]
        BY <3>2, <3>0, <1>1 DEF Core, TypeCore
      <4>2. d \in live'[q] <=> d \in live[q]
        BY <3>2, <1>1, <1>3 DEF Core, TypeCore
      <4>3. Upto(q, d.blk)' = Upto(q, d.blk)
        BY <3>2, <1>1, <1>2 DEF Core, TypeCore, Upto
      <4> QED BY <4>1, <4>2, <4>3 DEF Core, Accounted
    <3> QED BY <3>1, <3>2
  <2> QED BY <2>1, <2>2
<1>8. CurrentOwned'
  <2> SUFFICES ASSUME NEW q \in Pools
               PROVE  /\ current'[q] = NoBlock => remaining'[q] = 0
                      /\ current'[q] # NoBlock =>
                           owner'[current'[q]] = q /\ remaining'[q] < Cap[q]
    BY DEF CurrentOwned
  <2>1. CASE q = p
    BY <2>1, <1>1, <1>2 DEF Core, TypeCore
  <2>2. CASE q # p
    <3>1. current'[q] = current[q] /\ remaining'[q] = remaining[q]
      BY <2>2, <1>1 DEF Core, TypeCore
    <3>2. current[q] # NoBlock => owner'[current[q]] = owner[current[q]]
      BY <1>1, <1>5 DEF Core, TypeCore
    <3> QED BY <3>1, <3>2 DEF Core, CurrentOwned
  <2> QED BY <2>1, <2>2
<1>9. \A e \in Blocks : e # b => owner'[e] = owner[e] /\ count'[e] = count[e]
  BY <1>1 DEF Core, TypeCore
<1>10. owner'[b] = p /\ count'[b] = 0
  BY <1>1 DEF Core, TypeCore
<1>11. CountsExact'
  <2> SUFFICES ASSUME NEW q \in Pools, NEW e \in Blocks, owner'[e] = q
               PROVE  count'[e] = Cardinality(In(free[q], e))
    BY <1>1 DEF CountsExact
  <2>1. CASE e = b
    <3>1. In(free[q], e) = {}
      BY <2>1, <1>4 DEF In
    <3> QED BY <3>1, <2>1, <1>10, FS_EmptySet
  <2>2. CASE e # b
    BY <2>2, <1>9 DEF Core, CountsExact
  <2> QED BY <2>1, <2>2
<1>12. NoIdleBlock'
  BY <1>2, <1>9, <1>10 DEF Core, NoIdleBlock
<1> QED BY <1>6, <1>7, <1>8, <1>11, <1>12 DEF Core

\* Freeing a chunk whose block stays.
LEMMA FreeKeepCore ==
  ASSUME Core, NEW p \in Pools, NEW c \in live[p], owner[c.blk] = p,
         ~LastOfBlock(c.blk, p),
         live' = [live EXCEPT ![p] = @ \ {c}],
         free' = [free EXCEPT ![p] = @ \cup {c}],
         count' = CountAfterFree(c.blk),
         owner' = owner, current' = current, remaining' = remaining
  PROVE  Core'
<1>1. c \in Chunks /\ c.blk \in Blocks
  BY DEF Core, TypeCore, Chunks
<1>2. count' = [count EXCEPT ![c.blk] = @ + 1] /\ count[c.blk] + 1 # Cap[p]
  BY DEF CountAfterFree, LastOfBlock
<1>3. TypeCore'
  BY <1>1, <1>2 DEF Core, TypeCore
<1>4. Accounted'
  BY <1>1 DEF Core, TypeCore, Accounted, Upto
<1>5. CurrentOwned'
  BY DEF Core, CurrentOwned
<1>6. CountsExact'
  <2> SUFFICES ASSUME NEW q \in Pools, NEW b \in Blocks, owner[b] = q
               PROVE  count'[b] = Cardinality(In(free'[q], b))
    BY DEF CountsExact
  <2>1. CASE b = c.blk
    <3>1. q = p
      BY <2>1
    <3>2. In(free'[p], b) = In(free[p], b) \cup {c}
      BY <2>1, <1>1 DEF In, Core, TypeCore
    <3>3. c \notin In(free[p], b) /\ IsFiniteSet(In(free[p], b))
      BY <2>1, <1>1, FreeFinite DEF In, Core, Accounted
    <3>4. Cardinality(In(free[p], b) \cup {c}) = Cardinality(In(free[p], b)) + 1
      BY <3>3, FS_AddElement
    <3>5. count'[b] = count[b] + 1 /\ count[b] = Cardinality(In(free[p], b))
      BY <2>1, <1>1, <1>2 DEF Core, TypeCore, CountsExact
    <3> QED BY <3>1, <3>2, <3>4, <3>5
  <2>2. CASE b # c.blk
    <3>1. In(free'[q], b) = In(free[q], b)
      BY <2>2, <1>1 DEF In, Core, TypeCore
    <3>2. count'[b] = count[b]
      BY <2>2, <1>2 DEF Core, TypeCore
    <3> QED BY <3>1, <3>2 DEF Core, CountsExact
  <2> QED BY <2>1, <2>2
<1>7. NoIdleBlock'
  <2> SUFFICES ASSUME NEW q \in Pools, NEW b \in Blocks, owner[b] = q
               PROVE  count'[b] < Cap[q]
    BY DEF NoIdleBlock
  <2>1. count[b] < Cap[q] /\ count[b] \in Nat /\ Cap[q] \in Nat
    BY PoolAssumption DEF Core, TypeCore, NoIdleBlock
  <2>2. \/ b # c.blk /\ count'[b] = count[b]
        \/ b = c.blk /\ q = p /\ count'[b] = count[b] + 1
    BY <1>1, <1>2 DEF Core, TypeCore
  <2> QED BY <2>1, <2>2, <1>2
<1> QED BY <1>3, <1>4, <1>5, <1>6, <1>7 DEF Core

\* Freeing the last chunk in use of a block, which is then returned.
LEMMA FreeReclaimCore ==
  ASSUME Core, NEW p \in Pools, NEW c \in live[p], owner[c.blk] = p,
         LastOfBlock(c.blk, p), Reclaim(c.blk, p),
         live' = [live EXCEPT ![p] = @ \ {c}]
  PROVE  Core'
<1> DEFINE b == c.blk
<1>1. c \in Chunks /\ b \in Blocks /\ b # NoBlock /\ NoBlock \notin Pools
  BY PoolAssumption DEF Core, TypeCore, Chunks
<1>2. /\ owner' = [owner EXCEPT ![b] = NoBlock]
      /\ count' = [count EXCEPT ![b] = 0]
      /\ free' = [free EXCEPT ![p] = {d \in @ : d.blk # b}]
      /\ current' = [current EXCEPT ![p] = IF @ = b THEN NoBlock ELSE @]
      /\ remaining' = [remaining EXCEPT ![p] = IF current[p] = b THEN 0 ELSE @]
  BY DEF Reclaim, WithoutBlock
<1>3. \A d \in live[p] : d.blk = b => d = c
  BY LastInUse DEF LastOfBlock
<1>4. \A q \in Pools : q # p => /\ current'[q] = current[q] /\ remaining'[q] = remaining[q]
                               /\ free'[q] = free[q] /\ live'[q] = live[q]
                               /\ current[q] # b
  BY <1>1, <1>2 DEF Core, TypeCore, CurrentOwned
<1>5. /\ live'[p] = live[p] \ {c} /\ free'[p] = {d \in free[p] : d.blk # b}
      /\ current'[p] = (IF current[p] = b THEN NoBlock ELSE current[p])
      /\ remaining'[p] = (IF current[p] = b THEN 0 ELSE remaining[p])
  BY <1>2 DEF Core, TypeCore
<1>6. /\ owner'[b] = NoBlock
      /\ \A e \in Blocks : e # b => owner'[e] = owner[e] /\ count'[e] = count[e]
  BY <1>1, <1>2 DEF Core, TypeCore
<1>7. TypeCore'
  BY <1>1, <1>2 DEF Core, TypeCore
<1>8. Accounted'
  <2> SUFFICES ASSUME NEW q \in Pools
               PROVE  /\ live'[q] \cap free'[q] = {}
                      /\ \A d \in Chunks :
                           (d \in live'[q] \/ d \in free'[q])
                             <=> (owner'[d.blk] = q /\ d.idx >= 1 /\ d.idx <= Upto(q, d.blk)')
    BY DEF Accounted
  <2>1. live'[q] \cap free'[q] = {}
    BY <1>4, <1>5 DEF Core, Accounted
  <2>2. ASSUME NEW d \in Chunks
        PROVE  (d \in live'[q] \/ d \in free'[q])
                 <=> (owner'[d.blk] = q /\ d.idx >= 1 /\ d.idx <= Upto(q, d.blk)')
    <3>0. d.blk \in Blocks
      BY DEF Chunks
    <3>1. CASE d.blk = b
      <4>1. q # p => d \notin live[q] /\ d \notin free[q]
        BY <3>1 DEF Core, Accounted
      <4>2. d \notin live'[q] /\ d \notin free'[q]
        BY <4>1, <3>1, <1>3, <1>4, <1>5
      <4> QED BY <4>2, <3>1, <1>1, <1>6
    <3>2. CASE d.blk # b
      <4>1. owner'[d.blk] = owner[d.blk]
        BY <3>0, <3>2, <1>6
      <4>2. (d \in live'[q] <=> d \in live[q]) /\ (d \in free'[q] <=> d \in free[q])
        BY <3>2, <1>4, <1>5
      <4>3. Upto(q, d.blk)' = Upto(q, d.blk)
        BY <3>0, <3>2, <1>1, <1>4, <1>5, PoolAssumption DEF Upto
      <4> QED BY <4>1, <4>2, <4>3 DEF Core, Accounted
    <3> QED BY <3>1, <3>2
  <2> QED BY <2>1, <2>2
<1>9. CurrentOwned'
  <2> SUFFICES ASSUME NEW q \in Pools
               PROVE  /\ current'[q] = NoBlock => remaining'[q] = 0
                      /\ current'[q] # NoBlock =>
                           owner'[current'[q]] = q /\ remaining'[q] < Cap[q]
    BY DEF CurrentOwned
  <2>1. current[q] \in Blocks \cup {NoBlock}
    BY DEF Core, TypeCore
  <2>2. /\ current[q] = NoBlock => remaining[q] = 0
        /\ current[q] # NoBlock => owner[current[q]] = q /\ remaining[q] < Cap[q]
    BY DEF Core, CurrentOwned
  <2>3. current[q] = b \/ (current'[q] = current[q] /\ remaining'[q] = remaining[q])
    BY <1>4, <1>5
  <2>4. CASE current[q] = b
    <3>1. q = p
      BY <2>4, <1>4
    <3> QED BY <3>1, <2>4, <1>5
  <2>5. CASE current[q] # b
    BY <2>1, <2>2, <2>3, <2>5, <1>6
  <2> QED BY <2>4, <2>5
<1>10. CountsExact'
  <2> SUFFICES ASSUME NEW q \in Pools, NEW e \in Blocks, owner'[e] = q
               PROVE  count'[e] = Cardinality(In(free'[q], e))
    BY DEF CountsExact
  <2>1. e # b
    BY <1>1, <1>6
  <2>2. In(free'[q], e) = In(free[q], e)
    BY <2>1, <1>4, <1>5 DEF In
  <2> QED BY <2>1, <2>2, <1>6 DEF Core, CountsExact
<1>11. NoIdleBlock'
  BY <1>1, <1>6 DEF Core, NoIdleBlock
<1> QED BY <1>7, <1>8, <1>9, <1>10, <1>11 DEF Core

\* kvs_free of any chunk in use.
LEMMA FreeCore ==
  ASSUME Core, NEW p \in Pools, NEW c \in live[p], Free(c)
  PROVE  Core'
<1>1. owner[c.blk] = p
  BY DEF Core, TypeCore, Accounted
<1> QED BY <1>1, FreeKeepCore, FreeReclaimCore DEF Free

\* mem_pool_alloc, from wherever it takes the chunk; no chunk in use is lost.
LEMMA AllocCore ==
  ASSUME Core, NEW p \in Pools, Alloc(p)
  PROVE  Core' /\ \A q \in Pools : live[q] \subseteq live'[q]
<1>1. Core'
  BY ReuseCore, CarveCore, NewBlockCore DEF Alloc
<1>2. \E c : live' = [live EXCEPT ![p] = @ \cup {c}]
  BY DEF Alloc, AllocReuse, AllocCarve, AllocNewBlock
<1>3. \A q \in Pools : live[q] \subseteq live'[q]
  BY <1>2 DEF Core, TypeCore
<1> QED BY <1>1, <1>3

\* MEMTRIM finds no block to return.
LEMMA MemtrimCore == ASSUME Core, Memtrim PROVE Core' /\ live' = live
<1>1. \A p \in Pools : Idle(p) = {}
  <2> SUFFICES ASSUME NEW p \in Pools, NEW b \in Blocks, owner[b] = p, count[b] = Cap[p]
               PROVE  FALSE
    BY DEF Idle
  <2>1. count[b] < Cap[p] /\ count[b] \in Nat
    BY DEF Core, TypeCore, NoIdleBlock
  <2> QED BY <2>1
<1>2. owner' = owner /\ free' = free /\ remaining' = remaining /\ current' = current
  <2>1. owner' = [b \in Blocks |-> owner[b]]
    BY <1>1 DEF Memtrim
  <2>2. free' = [p \in Pools |-> free[p]]
    BY <1>1 DEF Memtrim
  <2>3. remaining' = [p \in Pools |-> remaining[p]] /\ current' = [p \in Pools |-> current[p]]
    BY <1>1 DEF Memtrim
  <2> QED BY <2>1, <2>2, <2>3 DEF Core, TypeCore
<1>3. count' = [b \in Blocks |-> IF owner[b] = NoBlock THEN 0 ELSE count[b]]
  BY <1>2 DEF Memtrim
<1>4. \A b \in Blocks : owner[b] \in Pools => count'[b] = count[b]
  BY <1>3, PoolAssumption
<1>5. live' = live
  BY DEF Memtrim
<1>6. TypeCore'
  BY <1>2, <1>3, <1>5 DEF Core, TypeCore
<1>7. Accounted' /\ CurrentOwned'
  BY <1>2, <1>5 DEF Core, Accounted, CurrentOwned, Upto
<1>8. CountsExact' /\ NoIdleBlock'
  BY <1>2, <1>4 DEF Core, CountsExact, NoIdleBlock
<1> QED BY <1>5, <1>6, <1>7, <1>8 DEF Core

\* The empty pools.
LEMMA InitPoolInv == Init => PoolInv
<1> SUFFICES ASSUME Init PROVE PoolInv
  OBVIOUS
<1>1. TypeCore /\ CurrentOwned /\ MovingLive
  BY PoolAssumption DEF Init, TypeCore, CurrentOwned, MovingLive
<1>2. Accounted
  BY PoolAssumption DEF Init, Accounted, Chunks
<1>3. CountsExact /\ NoIdleBlock
  BY PoolAssumption DEF Init, CountsExact, NoIdleBlock
<1> QED BY <1>1, <1>2, <1>3 DEF PoolInv, Core

\* Every call of the allocator keeps the invariant.
LEMMA StepPoolInv == PoolInv /\ [Next]_vars => PoolInv'
<1> SUFFICES ASSUME PoolInv, [Next]_vars PROVE PoolInv'
  OBVIOUS
<1> USE DEF PoolInv
<1>1. ASSUME NEW p \in Pools, KvsMalloc(p) PROVE PoolInv'
  BY <1>1, AllocCore DEF KvsMalloc, MovingLive
<1>2. ASSUME NEW p \in Pools, KvsFree(p) PROVE PoolInv'
  BY <1>2, FreeCore DEF KvsFree, MovingLive
<1>3. ASSUME NEW p \in Pools, NEW q \in Pools, KvsReallocSlab(p, q) PROVE PoolInv'
  <2>1. PICK c \in live[p] : moving' = {c}
    BY <1>3 DEF KvsReallocSlab
  <2>2. Core' /\ live[p] \subseteq live'[p]
    BY <1>3, AllocCore DEF KvsReallocSlab
  <2> QED BY <2>1, <2>2 DEF MovingLive
<1>4. ASSUME NEW p \in Pools, KvsReallocBig(p) PROVE PoolInv'
  <2>1. /\ owner' = owner /\ count' = count /\ free' = free /\ current' = current
        /\ remaining' = remaining /\ live' = live
    BY <1>4 DEF KvsReallocBig, blockVars
  <2>2. Core'
    BY <2>1 DEF Core, TypeCore, Accounted, CurrentOwned, CountsExact, NoIdleBlock, Upto
  <2> QED BY <1>4, <2>1, <2>2 DEF KvsReallocBig, MovingLive
<1>5. ASSUME KvsReallocFree PROVE PoolInv'
  <2>1. PICK c \in moving : Free(c)
    BY <1>5 DEF KvsReallocFree
  <2>2. PICK p \in Pools : c \in live[p]
    BY <2>1 DEF MovingLive
  <2>3. Core'
    BY <2>1, <2>2, FreeCore
  <2> QED BY <1>5, <2>3 DEF KvsReallocFree, MovingLive
<1>6. ASSUME Memtrim PROVE PoolInv'
  BY <1>6, MemtrimCore DEF Memtrim, MovingLive
<1>7. CASE UNCHANGED vars
  BY <1>7 DEF vars, Core, TypeCore, Accounted, CurrentOwned, CountsExact, NoIdleBlock,
              MovingLive, Upto
<1> QED BY <1>1, <1>2, <1>3, <1>4, <1>5, <1>6, <1>7 DEF Next

\* The inductive invariant holds throughout.
LEMMA PoolInvariant == Spec => []PoolInv
BY InitPoolInv, StepPoolInv, PTL DEF Spec

\* Chunk by chunk accounting is ChunksAccounted.
LEMMA AccountedImplies == PoolInv => ChunksAccounted
<1> SUFFICES ASSUME PoolInv PROVE ChunksAccounted
  OBVIOUS
<1>1. \A p \in Pools : live[p] \cap free[p] = {}
  BY DEF PoolInv, Core, Accounted
<1>2. ASSUME NEW p \in Pools, NEW b \in Blocks, owner[b] # p
      PROVE  In(live[p], b) \cup In(free[p], b) = {}
  BY <1>2 DEF PoolInv, Core, TypeCore, Accounted, In
<1>3. ASSUME NEW p \in Pools, NEW b \in Blocks, owner[b] = p
      PROVE  In(live[p], b) \cup In(free[p], b) = Carved(p, b)
  <2>1. Carved(p, b) = {Chunk(b, i) : i \in 1..Upto(p, b)}
    BY DEF Carved, Upto
  <2>2. Upto(p, b) \in Nat
    BY <1>3, FreeFinite DEF PoolInv, Core
  <2>3. ASSUME NEW i \in 1..Upto(p, b)
        PROVE  Chunk(b, i) \in In(live[p], b) \cup In(free[p], b)
    <3>1. Chunk(b, i) \in Chunks /\ Chunk(b, i).blk = b /\ Chunk(b, i).idx = i
      BY <2>2 DEF Chunk, Chunks
    <3>2. i >= 1 /\ i <= Upto(p, b)
      BY <2>2
    <3> QED BY <3>1, <3>2, <1>3 DEF PoolInv, Core, Accounted, In
  <2>4. ASSUME NEW c \in In(live[p], b) \cup In(free[p], b)
        PROVE  c \in {Chunk(b, i) : i \in 1..Upto(p, b)}
    <3>1. c \in Chunks /\ c.blk = b /\ c \in live[p] \cup free[p]
      BY DEF PoolInv, Core, TypeCore, In
    <3>2. c.idx \in 1..Upto(p, b)
      BY <3>1, <2>2, <1>3 DEF PoolInv, Core, Accounted, Chunks
    <3>3. c = Chunk(b, c.idx)
      BY <3>1 DEF Chunk, Chunks
    <3> QED BY <3>2, <3>3
  <2> QED BY <2>1, <2>3, <2>4
<1> QED BY <1>1, <1>2, <1>3 DEF ChunksAccounted

\* The allocator's variables keep their types; free_count is never negative.
THEOREM PoolTypeCorrect == Spec => []TypeOK
<1>1. PoolInv => TypeOK
  BY DEF PoolInv, Core, TypeCore, MovingLive, TypeOK
<1> QED BY <1>1, PoolInvariant, PTL

\* No chunk is in use and free at once, and no pointer leads into a block that
\* was returned to the system.
THEOREM ChunksSafe == Spec => []ChunksAccounted
BY PoolInvariant, AccountedImplies, PTL

\* free_count is exact, and a block with no chunk in use does not stay.
THEOREM BlocksReturned == Spec => [](CountsExact /\ NoIdleBlock)
<1>1. PoolInv => CountsExact /\ NoIdleBlock
  BY DEF PoolInv, Core
<1> QED BY <1>1, PoolInvariant, PTL
=============================================================================
