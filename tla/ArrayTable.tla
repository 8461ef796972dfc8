----------------------------- MODULE ArrayTable -----------------------------
(***************************************************************************)
(* The array engine (kvs_array.c): a table of items searched from its       *)
(* start, filled at its end; a deletion moves the last item into the hole.  *)
(* The cells past total are kept as well: what is left in them must never   *)
(* be found.  Expiry is in module Expire.                                   *)
(***************************************************************************)
EXTENDS Integers, FiniteSets

CONSTANTS CellKeys, CellValues,
          ArraySize   \* KVS_ARRAY_SIZE

\* Keys and values are numbers; 0 stands for none.
ASSUME ArrayAssumption ==
  ArraySize \in Nat /\ CellKeys \subseteq Nat \ {0} /\ CellValues \subseteq Nat \ {0}

VARIABLES
  cells,     \* inst->table: [key, value] per index
  len,       \* inst->total
  arrayDict  \* key -> what a client should find (not in the code)

arrayVars == <<cells, len, arrayDict>>

NoKey == 0        \* key.data = NULL
NoValue == 0      \* value.data = NULL
Absent == -1
Clear == [key |-> NoKey, value |-> NoValue]

ArrayInit ==
  /\ cells = [i \in 0..(ArraySize - 1) |-> Clear] /\ len = 0
  /\ arrayDict = [k \in CellKeys |-> Absent]

\* find_key_index: the first match.
Matches(k) == {i \in 0..(len - 1) : cells[i].key = k}
FindKeyIndex(k) == CHOOSE i \in Matches(k) : \A j \in Matches(k) : i <= j

\* kvs_array_set (and kvs_array_mod) of a key that is there.
ArrayMod(k, v) ==
  /\ Matches(k) # {}
  /\ cells' = [cells EXCEPT ![FindKeyIndex(k)].value = v]
  /\ arrayDict' = [arrayDict EXCEPT ![k] = v]
  /\ UNCHANGED len

\* A new key is refused when the table is full.
ArrayFull == len >= ArraySize

ArrayAdd(k, v) ==
  /\ Matches(k) = {} /\ ~ArrayFull
  /\ cells' = [cells EXCEPT ![len] = [key |-> k, value |-> v]]
  /\ len' = len + 1
  /\ arrayDict' = [arrayDict EXCEPT ![k] = v]

\* The value cannot be copied: the old one is gone and its key stays, with no
\* value.  For a new key the copy of the key is freed again.
ArraySetFails(k) ==
  /\ Matches(k) # {} \/ ~ArrayFull
  /\ IF Matches(k) # {}
       THEN /\ cells' = [cells EXCEPT ![FindKeyIndex(k)].value = NoValue]
            /\ arrayDict' = [arrayDict EXCEPT ![k] = NoValue]
       ELSE UNCHANGED <<cells, arrayDict>>
  /\ UNCHANGED len

\* Mutant: the hole is left where it is.
HoleFilledNot(c, i) == [c EXCEPT ![i] = Clear]

\* The last item moves to where the deleted one was, and its own cell is cleared.
HoleFilled(c, i) == [c EXCEPT ![i] = c[len - 1], ![len - 1] = Clear]

\* kvs_array_del; kvs_array_get and kvs_array_del_if_expired of an expired value.
ArrayDel(k) ==
  /\ Matches(k) # {}
  /\ cells' = HoleFilled(cells, FindKeyIndex(k))
  /\ len' = len - 1
  /\ arrayDict' = [arrayDict EXCEPT ![k] = Absent]

ArrayNext ==
  \E k \in CellKeys :
    \/ \E v \in CellValues : ArrayMod(k, v) \/ ArrayAdd(k, v)
    \/ ArraySetFails(k) \/ ArrayDel(k)

ArraySpec == ArrayInit /\ [][ArrayNext]_arrayVars

-----------------------------------------------------------------------------
(* Properties *)

\* The search finds exactly the stored keys with the value last written, no
\* key is there twice (the second would come back when the first is deleted),
\* and nothing is left past the end.
ArrayLookup ==
  /\ \A k \in CellKeys :
       arrayDict[k] = IF Matches(k) # {} THEN cells[FindKeyIndex(k)].value ELSE Absent
  /\ len = Cardinality({k \in CellKeys : arrayDict[k] # Absent})
  /\ \A i \in len..(ArraySize - 1) : cells[i] = Clear
=============================================================================
