----------------------------- MODULE HashTable -----------------------------
(***************************************************************************)
(* The chained hash table (kvs_hash.c) that holds the hash engine, the     *)
(* KEEP and context tables and the keyword index: growing before a write,  *)
(* shrinking after a deletion, replacing a node whose value is too short,  *)
(* appending to an index.  One action per call: calls do not yield.        *)
(*                                                                         *)
(* A chain is the set of its keys: where a node is in its chain decides     *)
(* nothing.  A value is a list of ids (an index entry joins them with       *)
(* commas); its length is the length of the list.                          *)
(***************************************************************************)
EXTENDS Integers, Sequences, FiniteSets, SequencesExt

CONSTANTS HashKeys, Ids,
          HashValues,  \* the values written by SET: lists of ids
          HashOf,      \* key |-> kv_hash_short of it (node->key.hash_cache)
          InitSlots    \* INIT_HASH_SLOTS

ASSUME HashAssumption ==
  /\ HashValues \subseteq Seq(Ids) \ {<< >>}
  /\ HashOf \in [HashKeys -> Nat]
  /\ InitSlots \in Nat /\ InitSlots > 1

VARIABLES
  table,    \* buckets, slots, count of kvs_hash_t, and val[key] of the nodes
  hashDict  \* the value last stored under a key, << >> if none (not in the code)

hashVars == <<table, hashDict>>

\* kvs_hash_create
HashInit ==
  /\ table = [buckets |-> [b \in 0..(InitSlots - 1) |-> {}], slots |-> InitSlots,
              count |-> 0, val |-> [k \in HashKeys |-> << >>]]
  /\ hashDict = [k \in HashKeys |-> << >>]

-----------------------------------------------------------------------------
\* kv_data_hash: slots is a power of two, so the mask is the remainder.
Slot(k, slots) == HashOf[k] % slots

\* Mutant: the chain keeps the keys of the old slot.
GrownWhole(T) ==
  [T EXCEPT !.slots = 2 * T.slots,
            !.buckets = [b \in 0..(2 * T.slots - 1) |->
                           IF b < T.slots THEN T.buckets[b] ELSE {}]]

\* kvs_hash_resize to twice the slots: a chain is split.
Grown(T) ==
  [T EXCEPT !.slots = 2 * T.slots,
            !.buckets = [b \in 0..(2 * T.slots - 1) |->
                           {k \in T.buckets[b % T.slots] : Slot(k, 2 * T.slots) = b}]]

\* kvs_hash_resize to half the slots: two chains are joined.
Shrunk(T) ==
  LET n == T.slots \div 2
  IN  [T EXCEPT !.slots = n,
                !.buckets = [b \in 0..(n - 1) |-> T.buckets[b] \cup T.buckets[b + n]]]

\* A lookup walks the chain of the key's slot.
Present(T, k) == k \in T.buckets[Slot(k, T.slots)]

\* kvs_hash_set grows the table first, also for an overwrite.
Crowded(T) == T.count >= T.slots
Roomy(T) == IF Crowded(T) THEN Grown(T) ELSE T

\* The node is taken out of its chain and freed.
Unchained(T, k) ==
  [T EXCEPT !.buckets[Slot(k, T.slots)] = @ \ {k}, !.val[k] = << >>, !.count = @ - 1]

\* A new node joins the chain of its slot.
Chained(T, k, v) ==
  [T EXCEPT !.buckets[Slot(k, T.slots)] = @ \cup {k}, !.val[k] = v, !.count = @ + 1]

\* A node whose value is too short is removed before the new one is made.
Removed(T, k) == IF Present(T, k) THEN Unchained(T, k) ELSE T

\* The table after kvs_hash_set(k, v) succeeds.
HashWritten(T, k, v) ==
  LET R == Roomy(T)
  IN  IF Present(R, k) /\ Len(v) <= Len(R.val[k])
        THEN [R EXCEPT !.val[k] = v]
        ELSE Chained(Removed(R, k), k, v)

HashSet(k, v) ==
  /\ table' = HashWritten(table, k, v)
  /\ hashDict' = [hashDict EXCEPT ![k] = v]

\* hash_create_node fails: a shorter old value is already gone.
HashSetFails(k, v) ==
  /\ ~(Present(table, k) /\ Len(v) <= Len(table.val[k]))
  /\ table' = Removed(Roomy(table), k)
  /\ hashDict' = [hashDict EXCEPT ![k] = << >>]

\* Mutant: the table shrinks as soon as half of it is free.
SparseLate(T) == T.count <= T.slots \div 2 /\ T.slots > InitSlots

\* kvs_hash_del shrinks a table that is less than a quarter full.
Sparse(T) == T.count < T.slots \div 4 /\ T.slots > InitSlots

\* kvs_hash_del; kvs_hash_get, _exist and _del_if_expired of an expired value.
HashDel(k) ==
  LET D == Unchained(table, k)
  IN  /\ Present(table, k)
      /\ table' = IF Sparse(D) THEN Shrunk(D) ELSE D
      /\ hashDict' = [hashDict EXCEPT ![k] = << >>]

\* The smaller bucket array cannot be allocated: the deletion stands.
DelNoShrink(k) ==
  LET D == Unchained(table, k)
  IN  /\ Present(table, k) /\ Sparse(D)
      /\ table' = D
      /\ hashDict' = [hashDict EXCEPT ![k] = << >>]

\* kvs_hash_append: an id already in the list is not added again.
HashAppend(k, id) ==
  LET old == IF Present(table, k) THEN table.val[k] ELSE << >>
  IN  /\ id \notin ToSet(old)
      /\ table' = HashWritten(table, k, Append(old, id))
      /\ hashDict' = [hashDict EXCEPT ![k] = Append(@, id)]

HashNext ==
  \E k \in HashKeys :
    \/ \E v \in HashValues : HashSet(k, v) \/ HashSetFails(k, v)
    \/ HashDel(k) \/ DelNoShrink(k)
    \/ \E id \in Ids : HashAppend(k, id)

HashSpec == HashInit /\ [][HashNext]_hashVars

-----------------------------------------------------------------------------
(* Properties *)

\* A lookup in the slot of the current size finds exactly the stored keys,
\* with the value last written, however the table was resized; the count, on
\* which resizing and the snapshot depend, is the number of nodes; and no key
\* is in two chains.
HashLookup ==
  /\ \A k \in HashKeys : hashDict[k] = IF Present(table, k) THEN table.val[k] ELSE << >>
  /\ table.count = Cardinality({k \in HashKeys : hashDict[k] # << >>})
  /\ \A b, c \in DOMAIN table.buckets :
       b # c => table.buckets[b] \cap table.buckets[c] = {}

\* A resize leaves the table far from the opposite resize: a key set and
\* deleted in turn does not make it resize each time.
ResizeHasSlack ==
  [][/\ table'.slots > table.slots => 4 * table'.count >= table'.slots
     /\ table'.slots < table.slots => 2 * table'.count < table'.slots]_hashVars
=============================================================================
