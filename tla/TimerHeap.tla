------------------------------ MODULE TimerHeap ------------------------------
(***************************************************************************)
(* The binary min-heap of the expire thread (heap_push, heap_pop).  One    *)
(* action per iteration of the sift loops.  data[i] of the C array is      *)
(* data[i] here too: a function on 0..size-1.  Growing the array by        *)
(* realloc changes no element and is left out.                             *)
(***************************************************************************)
EXTENDS Integers, FiniteSets

CONSTANTS Expiries,  \* expiry times
          MaxSize,   \* bound: timers in the heap
          MaxPushes  \* bound: timers ever pushed

ASSUME HeapAssumption == Expiries \subseteq Int

VARIABLES
  data, size,   \* g_heap
  pc, curr,     \* "idle", "up" or "down", and the index being sifted
  members,      \* the timers pushed and not popped (not in the code)
  popped,       \* the timers popped, in the last pop
  nextId        \* distinguishes timers of equal expiry (not in the code)

heapVars == <<data, size, pc, curr, members, popped, nextId>>

Timer == [id : Nat, et : Expiries]

HeapInit ==
  /\ data = [i \in {} |-> 0] /\ size = 0
  /\ pc = "idle" /\ curr = 0
  /\ members = {} /\ popped = {} /\ nextId = 1

\* heap_swap
Swapped(i, j) == [data EXCEPT ![i] = data[j], ![j] = data[i]]

Parent(i) == (i - 1) \div 2

HeapPush(et) ==
  LET timer == [id |-> nextId, et |-> et]
  IN  /\ pc = "idle" /\ size < MaxSize /\ nextId <= MaxPushes
      /\ data' = [i \in 0..size |-> IF i = size THEN timer ELSE data[i]]
      /\ size' = size + 1
      /\ pc' = "up" /\ curr' = size
      /\ members' = members \cup {timer}
      /\ popped' = {}
      /\ nextId' = nextId + 1

SiftUpDone == curr = 0 \/ data[curr].et >= data[Parent(curr)].et

SiftUp ==
  /\ pc = "up"
  /\ IF SiftUpDone
       THEN pc' = "idle" /\ curr' = 0 /\ UNCHANGED data
       ELSE data' = Swapped(curr, Parent(curr)) /\ curr' = Parent(curr) /\ UNCHANGED pc
  /\ UNCHANGED <<size, members, popped, nextId>>

\* The root is returned and the last element takes its place.
HeapPop ==
  /\ pc = "idle" /\ size > 0
  /\ popped' = {data[0]}
  /\ members' = members \ {data[0]}
  /\ data' = [i \in 0..(size - 2) |-> IF i = 0 THEN data[size - 1] ELSE data[i]]
  /\ size' = size - 1
  /\ pc' = "down" /\ curr' = 0
  /\ UNCHANGED nextId

\* Mutant: the right child is compared with the parent, not with the smaller.
SmallestOfParent(i) ==
  LET left == 2 * i + 1  right == 2 * i + 2
  IN  IF right < size /\ data[right].et < data[i].et THEN right
      ELSE IF left < size /\ data[left].et < data[i].et THEN left ELSE i

\* The index of the smallest of a node and its children.
Smallest(i) ==
  LET left == 2 * i + 1  right == 2 * i + 2
      small == IF left < size /\ data[left].et < data[i].et THEN left ELSE i
  IN  IF right < size /\ data[right].et < data[small].et THEN right ELSE small

SiftDown ==
  /\ pc = "down"
  /\ IF Smallest(curr) = curr
       THEN pc' = "idle" /\ curr' = 0 /\ UNCHANGED data
       ELSE data' = Swapped(curr, Smallest(curr)) /\ curr' = Smallest(curr) /\ UNCHANGED pc
  /\ UNCHANGED <<size, members, popped, nextId>>

HeapNext == (\E et \in Expiries : HeapPush(et)) \/ SiftUp \/ HeapPop \/ SiftDown

HeapSpec == HeapInit /\ [][HeapNext]_heapVars

-----------------------------------------------------------------------------
(* Properties *)

\* While an element sifts only it can be out of order, and its children are in
\* order with its parent.
HeapOrdered ==
  \A i \in 1..(size - 1) :
    /\ (pc = "idle" \/ (pc = "up" /\ i # curr) \/ (pc = "down" /\ Parent(i) # curr))
         => data[Parent(i)].et <= data[i].et
    /\ (pc # "idle" /\ curr > 0 /\ Parent(i) = curr)
         => data[Parent(curr)].et <= data[i].et

NoTimerLost ==
  /\ {data[i] : i \in 0..(size - 1)} = members
  /\ Cardinality(members) = size

PopsEarliest == \A timer \in popped : \A u \in members : timer.et <= u.et

\* Between calls the array is a heap, so data[0] is what the firing loop of
\* expire_thread_routine must look at; while an element sifts, only it is out
\* of order; the array holds exactly the timers pushed and not popped; and
\* heap_pop returns a timer no later than any that stays.
HeapSound == HeapOrdered /\ NoTimerLost /\ PopsEarliest
=============================================================================
