------------------------------ MODULE SkipList ------------------------------
(***************************************************************************)
(* The skip list engine (kvs_skiptable.c) and the sorted set kept in the   *)
(* same list.  One action per call: calls do not yield.  A node is named   *)
(* by its key; 0 is the header, and the end of every chain.                *)
(*                                                                         *)
(* Keys are numbered in the order of kv_data_compare_safe.  The keys in    *)
(* Entries are sorted-set entries "timestamp:id", those not in Entries are *)
(* SSET keys of less than 16 bytes.                                        *)
(***************************************************************************)
EXTENDS Integers, Sequences, FiniteSets, SequencesExt

CONSTANTS LastKey,  \* the keys are 1..LastKey
          Entries,  \* the sorted-set entries
          Top,      \* MAX_LEVEL
          Lens      \* lengths of values

ASSUME SkipAssumption ==
  /\ LastKey \in Nat
  /\ Top \in Nat
  /\ Lens \subseteq Nat

SkipKeys  == 1..LastKey
Header    == 0
SkipNodes == 0..LastKey
Levels    == 0..Top

VARIABLES
  list,     \* fwd[level][node], lvl[node], len[node], and level and count of kvs_skip_t
  skipDict  \* the length last stored under a key, -1 if none (not in the code)

skipVars == <<list, skipDict>>

\* kvs_skip_create
SkipInit ==
  /\ list = [fwd |-> [i \in Levels |-> [n \in SkipNodes |-> Header]],
             lvl |-> [k \in SkipKeys |-> 0], len |-> [k \in SkipKeys |-> 0],
             level |-> 0, count |-> 0]
  /\ skipDict = [k \in SkipKeys |-> -1]

-----------------------------------------------------------------------------
\* Mutant: the walk goes on to a node equal to k.
WalkLate(next, k) ==
  LET walk[n \in SkipNodes] ==
        IF next[n] # Header /\ next[n] <= k THEN walk[next[n]] ELSE n
  IN  walk

\* The inner loop of skip_find_update, on the level whose pointers are next:
\* where it stops, by the node it starts from.
Walk(next, k) ==
  LET walk[n \in SkipNodes] ==
        IF next[n] # Header /\ next[n] < k THEN walk[next[n]] ELSE n
  IN  walk

\* skip_find_update: on each level in use the last node before k.
FindUpdate(S, k) ==
  LET update[i \in 0..S.level] ==
        Walk(S.fwd[i], k)[IF i = S.level THEN Header ELSE update[i + 1]]
  IN  update

SkipFound(S, k) == S.fwd[0][FindUpdate(S, k)[0]] = k

\* The while loop that lowers skip->level stops at the highest of these.
LevelsInUse(fwd, level) == {0} \cup {i \in 0..level : fwd[i][Header] # Header}

\* kvs_skip_del of a key that is there; handle_expired_node does the same.
Unlinked(S, k) ==
  LET update == FindUpdate(S, k)
      fwd == [i \in Levels |->
                IF i <= S.level /\ S.fwd[i][update[i]] = k
                  THEN [S.fwd[i] EXCEPT ![update[i]] = S.fwd[i][k], ![k] = Header]
                  ELSE S.fwd[i]]
  IN  [fwd |-> fwd, lvl |-> [S.lvl EXCEPT ![k] = 0], len |-> [S.len EXCEPT ![k] = 0],
       level |-> Max(LevelsInUse(fwd, S.level)), count |-> S.count - 1]

\* kvs_skip_set raises skip->level before it makes the node.
Raised(S, l) == [S EXCEPT !.level = Max({S.level, l})]

\* The new node of l + 1 levels, after the nodes of update; the header above.
Linked(S, k, len, l) ==
  LET update == FindUpdate(S, k)
      before(i) == IF i <= S.level THEN update[i] ELSE Header
      fwd == [i \in Levels |->
                IF i <= l
                  THEN [S.fwd[i] EXCEPT ![k] = S.fwd[i][before(i)], ![before(i)] = k]
                  ELSE S.fwd[i]]
  IN  [fwd |-> fwd, lvl |-> [S.lvl EXCEPT ![k] = l], len |-> [S.len EXCEPT ![k] = len],
       level |-> Max({S.level, l}), count |-> S.count + 1]

\* The list once a node whose value is too short is gone.
Emptied(S, k) == IF SkipFound(S, k) THEN Unlinked(S, k) ELSE S

\* kvs_skip_set, kvs_zset_add (length 0)
SetInPlace(k, len) ==
  /\ SkipFound(list, k) /\ len <= list.len[k]
  /\ list' = [list EXCEPT !.len[k] = len]
  /\ skipDict' = [skipDict EXCEPT ![k] = len]

SetNode(k, len, l) ==
  /\ SkipFound(list, k) => len > list.len[k]
  /\ list' = Linked(Emptied(list, k), k, len, l)
  /\ skipDict' = [skipDict EXCEPT ![k] = len]

\* skipnode_create fails: the old node is gone, the level stays raised.
SetFails(k, len, l) ==
  /\ SkipFound(list, k) => len > list.len[k]
  /\ list' = Raised(Emptied(list, k), l)
  /\ skipDict' = [skipDict EXCEPT ![k] = -1]

\* kvs_skip_del; kvs_skip_get and kvs_skip_del_if_expired of an expired value.
SkipDel(k) ==
  /\ SkipFound(list, k)
  /\ list' = Unlinked(list, k)
  /\ skipDict' = [skipDict EXCEPT ![k] = -1]

\* Entries have empty values; SSET values may have any length.
LensOf(k) == IF k \in Entries THEN {0} ELSE Lens

SkipNext ==
  \E k \in SkipKeys :
    \/ \E len \in LensOf(k) : SetInPlace(k, len)
    \/ \E len \in LensOf(k), l \in Levels : SetNode(k, len, l) \/ SetFails(k, len, l)
    \/ SkipDel(k)

SkipSpec == SkipInit /\ [][SkipNext]_skipVars

-----------------------------------------------------------------------------
(* Reading *)

\* The chain of level i (kvs_skip_foreach walks level 0).
Chain(S, i) ==
  LET from[n \in SkipNodes] ==
        IF S.fwd[i][n] = Header THEN << >> ELSE <<S.fwd[i][n]>> \o from[S.fwd[i][n]]
  IN  from[Header]

\* kvs_zset_recent: the last n nodes of the list, the ones too short for an
\* entry left out.
ZsetRecent(S, n) ==
  LET all == Chain(S, 0)
      start == IF Len(all) > n THEN Len(all) - n ELSE 0
  IN  SelectSeq(SubSeq(all, start + 1, Len(all)), LAMBDA k : k \in Entries)

-----------------------------------------------------------------------------
(* Properties *)

\* A search that starts on the highest level finds exactly the stored keys,
\* with the value last written, after any history of levels.
SearchFinds ==
  \A k \in SkipKeys : skipDict[k] = IF SkipFound(list, k) THEN list.len[k] ELSE -1

\* Every level holds, in order, the stored keys whose node is that high; no
\* level above skip->level is in use, and the count is right.
LevelsNested ==
  LET stored == {k \in SkipKeys : skipDict[k] >= 0}
  IN  /\ \A i \in Levels :
           LET chain == Chain(list, i)
           IN  /\ ToSet(chain) = {k \in stored : list.lvl[k] >= i}
               /\ \A a, b \in DOMAIN chain : a < b => chain[a] < chain[b]
               /\ i > list.level => chain = << >>
      /\ list.count = Cardinality(stored)

\* A skip list search finds exactly what was stored, and each level is the
\* sorted list of the nodes that high (skip_find_update, kvs_skip_del).
SkipLookup == SearchFinds /\ LevelsNested

\* ZRANGE 0 n-1 returns the n entries of highest timestamp.
RecentIsLatest ==
  LET entries == SelectSeq(Chain(list, 0), LAMBDA k : k \in Entries)
  IN  \A n \in 1..LastKey :
        ZsetRecent(list, n) =
          SubSeq(entries, (IF Len(entries) > n THEN Len(entries) - n ELSE 0) + 1, Len(entries))
=============================================================================
