------------------------------ MODULE RingQueue ------------------------------
(***************************************************************************)
(* expire_queue_t: the lock-free single-producer single-consumer ring that  *)
(* joins the main thread and the expire thread.  Each atomic access is one  *)
(* step; the release stores of head and tail keep their order with respect  *)
(* to the slot accesses before them, so a step sees every earlier one.      *)
(***************************************************************************)
EXTENDS Integers, Sequences

CONSTANTS N,      \* EXPIRE_QUEUE_SIZE
          Items

ASSUME RingAssumption == N \in Nat /\ N >= 2 /\ Items # {}

VARIABLES
  items, head, tail,  \* the shared ring
  ppc, pval,          \* producer: "idle", "write", "publish"; the item it pushes
  cpc, cval,          \* consumer: "idle", "read", "advance"; its copy of a slot
  ret                 \* the item the last successful queue_pop returned

producer == <<ppc, pval>>
consumer == <<cpc, cval, ret>>
ringVars == <<items, head, tail, producer, consumer>>

Slots == 0..(N - 1)

\* (i + 1) & EXPIRE_QUEUE_MASK
After(i) == IF i = N - 1 THEN 0 ELSE i + 1

RingInit ==
  /\ items \in [Slots -> Items]
  /\ head = 0 /\ tail = 0
  /\ ppc = "idle" /\ pval \in Items
  /\ cpc = "idle" /\ cval \in Items /\ ret \in Items

\* Mutant: the ring is taken to be full one slot later.
RingFullLate == FALSE

\* One slot stays free so that head = tail means empty.
RingFull == After(head) = tail

\* queue_push: the loads and the full test; a full ring is left alone.
PushStart(x) ==
  /\ ppc = "idle"
  /\ ~RingFull
  /\ ppc' = "write" /\ pval' = x
  /\ UNCHANGED <<items, head, tail, consumer>>

PushWrite ==
  /\ ppc = "write"
  /\ items' = [items EXCEPT ![head] = pval]
  /\ ppc' = "publish"
  /\ UNCHANGED <<head, tail, pval, consumer>>

PushPublish ==
  /\ ppc = "publish"
  /\ head' = After(head)
  /\ ppc' = "idle"
  /\ UNCHANGED <<items, tail, pval, consumer>>

\* queue_pop: the loads and the empty test.
PopStart ==
  /\ cpc = "idle"
  /\ tail # head
  /\ cpc' = "read"
  /\ UNCHANGED <<items, head, tail, producer, cval, ret>>

PopRead ==
  /\ cpc = "read"
  /\ cval' = items[tail]
  /\ cpc' = "advance"
  /\ UNCHANGED <<items, head, tail, producer, ret>>

\* Mutant: the slot is given up twice.
TailAfterTwo == After(After(tail))

TailAfterPop == After(tail)

PopAdvance ==
  /\ cpc = "advance"
  /\ tail' = TailAfterPop
  /\ ret' = cval
  /\ cpc' = "idle"
  /\ UNCHANGED <<items, head, producer, cval>>

RingNext ==
  \/ (\E x \in Items : PushStart(x)) \/ PushWrite \/ PushPublish
  \/ PopStart \/ PopRead \/ PopAdvance

RingSpec == RingInit /\ [][RingNext]_ringVars

-----------------------------------------------------------------------------
(* Properties *)

\* Types; head and tail stay inside the ring.
RingTypeOK ==
  /\ items \in [Slots -> Items]
  /\ head \in Slots /\ tail \in Slots
  /\ ppc \in {"idle", "write", "publish"} /\ pval \in Items
  /\ cpc \in {"idle", "read", "advance"} /\ cval \in Items /\ ret \in Items

\* The plain (non-atomic) accesses to the slots never race: while the
\* producer may be writing items[head] and the consumer reading items[tail],
\* the two slots differ.
NoSlotRace == ~(ppc = "write" /\ cpc = "read" /\ head = tail)

\* Between its test and its store, the producer's room cannot be taken away
\* and the consumer's item cannot be: a test that passed stays true, and the
\* item copied is still the one in the slot when the slot is given up.
TestsStayValid ==
  /\ ppc # "idle" => After(head) # tail
  /\ cpc # "idle" => head # tail
  /\ cpc = "advance" => cval = items[tail]
  /\ ppc = "publish" => pval = items[head]

\* The items between tail and head, oldest first.
Count == IF head >= tail THEN head - tail ELSE head - tail + N
SlotOf(i) == IF tail + i - 1 < N THEN tail + i - 1 ELSE tail + i - 1 - N
Contents == [i \in 1..Count |-> items[SlotOf(i)]]

Fifo == INSTANCE BoundedFifo WITH q <- Contents, out <- ret, Cap <- N - 1

\* The ring is a bounded first-in first-out queue of N - 1 items: queue_push
\* takes effect at its store to head, queue_pop at its store to tail, and
\* nothing is lost, duplicated or reordered in between.
ImplementsFifo == Fifo!Spec
=============================================================================
