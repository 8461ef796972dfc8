------------------------------- MODULE RbTree -------------------------------
(***************************************************************************)
(* The red-black tree engine (kvs_rbtree.c): search, insertion, deletion,  *)
(* rotations and the two fix-up loops, one step per loop iteration.        *)
(*                                                                         *)
(* A node is named by its key, 0 is the sentinel T->nil.  The two halves   *)
(* of every mirrored function are one operator with a side.  A lookup that *)
(* finds an expired value, and the expiry coroutine, delete like DEL.      *)
(***************************************************************************)
EXTENDS Integers, Sequences, FiniteSets, SequencesExt

CONSTANT TreeSize      \* the keys are 1..TreeSize

ASSUME TreeAssumption == TreeSize \in Nat

RbKeys  == 1..TreeSize
Nil     == 0
RbNodes == 0..TreeSize
Sides   == {"l", "r"}
Other(d) == IF d = "l" THEN "r" ELSE "l"

VARIABLES
  tree,     \* root, ch[side][node], par[node], red[node] (T->root and the nodes)
  cursor,   \* z of rbtree_insert_fixup, x of rbtree_delete_fixup
  rbpc,     \* "idle", "inserting", "deleting"
  again,    \* the key kvs_rbtree_set inserts after its deletion, or Nil
  stored    \* the keys stored, as the callers see them (not in the code)

rbVars == <<tree, cursor, rbpc, again, stored>>

\* kvs_rbtree_create
RbInit ==
  /\ tree = [root |-> Nil, ch |-> [d \in Sides |-> [n \in RbNodes |-> Nil]],
             par |-> [n \in RbNodes |-> Nil], red |-> [n \in RbNodes |-> FALSE]]
  /\ cursor = Nil /\ rbpc = "idle" /\ again = Nil /\ stored = {}

-----------------------------------------------------------------------------
(* Links *)

\* The side of its parent a node is on, as the code tests it: left first.
SideOf(T, n) == IF T.ch["l"][T.par[n]] = n THEN "l" ELSE "r"

\* v takes the place of u below u's parent.
Replaced(T, u, v) ==
  IF T.par[u] = Nil THEN [T EXCEPT !.root = v]
  ELSE [T EXCEPT !.ch[SideOf(T, u)][T.par[u]] = v]

\* rbtree_left_rotate (d = "l"), rbtree_right_rotate (d = "r")
Rotate(T, x, d) ==
  LET o == Other(d)
      y == T.ch[o][x]
      b == T.ch[d][y]
      R == Replaced(T, x, y)
  IN  [root |-> R.root,
       ch   |-> [c \in Sides |-> IF c = d THEN [R.ch[d] EXCEPT ![y] = x]
                                ELSE [R.ch[o] EXCEPT ![x] = b]],
       par  |-> [T.par EXCEPT ![b] = IF b # Nil THEN x ELSE T.par[b],
                              ![y] = T.par[x], ![x] = y],
       red  |-> T.red]

\* rbtree_transplant: sets v's parent even when v is the sentinel.
Transplant(T, u, v) == [Replaced(T, u, v) EXCEPT !.par[v] = T.par[u]]

\* rbtree_search, rbtree_find_parent: where the search for k ends, and the
\* node above.  No path is longer than there are nodes.
Search(T, k) ==
  LET at[i \in 0..(TreeSize + 1)] ==
        IF i = 0 THEN [node |-> T.root, above |-> Nil]
        ELSE LET s == at[i - 1]
                 n == s.node
             IN  IF n \in {Nil, k} THEN s
                 ELSE [node |-> T.ch[IF k < n THEN "l" ELSE "r"][n], above |-> n]
  IN  at[TreeSize + 1]

RbFound(T, k) == Search(T, k).node = k

\* Mutant: the successor is taken to be the right child.
MiniNot(T, n) == n

\* rbtree_mini
Mini(T, n) ==
  LET down[i \in 0..TreeSize] ==
        IF i = 0 THEN n
        ELSE LET m == down[i - 1] IN IF T.ch["l"][m] = Nil THEN m ELSE T.ch["l"][m]
  IN  down[TreeSize]

-----------------------------------------------------------------------------
(* Insertion *)

\* A new red node below the node where the search ended.
RbLinked(T, k) ==
  LET p == Search(T, k).above
      F == [T EXCEPT !.ch["l"][k] = Nil, !.ch["r"][k] = Nil,
                     !.par[k] = p, !.red[k] = TRUE]
  IN  IF p = Nil THEN [F EXCEPT !.root = k]
      ELSE [F EXCEPT !.ch[IF k < p THEN "l" ELSE "r"][p] = k]

\* The uncle is red.
Recolored(T, p, y, g) == [T EXCEPT !.red[p] = FALSE, !.red[y] = FALSE, !.red[g] = TRUE]

\* One iteration of rbtree_insert_fixup: [T, z].
InsertFixup(T, z) ==
  LET p == T.par[z]
      g == T.par[p]
      d == SideOf(T, p)
      y == T.ch[Other(d)][g]
      inner == z = T.ch[Other(d)][p]
      z1 == IF inner THEN p ELSE z
      T1 == IF inner THEN Rotate(T, p, d) ELSE T
      p1 == T1.par[z1]
      g1 == T1.par[p1]
      T2 == [T1 EXCEPT !.red[p1] = FALSE, !.red[g1] = TRUE]
  IN  IF T.red[y]
        THEN [T |-> Recolored(T, p, y, g), z |-> g]
        ELSE [T |-> Rotate(T2, g1, Other(d)), z |-> z1]

\* kvs_rbtree_set of a new key.
SetNew(k) ==
  /\ rbpc = "idle" /\ ~RbFound(tree, k)
  /\ tree' = RbLinked(tree, k) /\ cursor' = k /\ rbpc' = "inserting"
  /\ stored' = stored \cup {k}
  /\ UNCHANGED again

\* The value fits in the node: nothing moves.
RbSetInPlace(k) ==
  /\ rbpc = "idle" /\ RbFound(tree, k)
  /\ UNCHANGED rbVars

InsertStep ==
  /\ rbpc = "inserting" /\ tree.red[tree.par[cursor]]
  /\ LET s == InsertFixup(tree, cursor) IN tree' = s.T /\ cursor' = s.z
  /\ UNCHANGED <<rbpc, again, stored>>

InsertDone ==
  /\ rbpc = "inserting" /\ ~tree.red[tree.par[cursor]]
  /\ tree' = [tree EXCEPT !.red[tree.root] = FALSE]
  /\ rbpc' = "idle" /\ cursor' = Nil
  /\ UNCHANGED <<again, stored>>

-----------------------------------------------------------------------------
(* Deletion *)

\* rbtree_delete up to the fix-up: [T, x, black], where black is whether the
\* node that left its place was black.
RbUnlinked(T, z) ==
  LET l == T.ch["l"][z]
      r == T.ch["r"][z]
      y == Mini(T, r)
      x == T.ch["r"][y]
      T1 == IF T.par[y] = z THEN [T EXCEPT !.par[x] = y]
            ELSE [Transplant(T, y, x) EXCEPT !.ch["r"][y] = r, !.par[r] = y]
      T2 == Transplant(T1, z, y)
  IN  IF l = Nil THEN [T |-> Transplant(T, z, r), x |-> r, black |-> ~T.red[z]]
      ELSE IF r = Nil THEN [T |-> Transplant(T, z, l), x |-> l, black |-> ~T.red[z]]
      ELSE [T |-> [T2 EXCEPT !.ch["l"][y] = l, !.par[l] = y, !.red[y] = T.red[z]],
            x |-> x, black |-> ~T.red[y]]

\* Mutant: the sibling keeps its colour.
LastCaseKeep(T, x, w, d) ==
  Rotate([T EXCEPT !.red[T.par[x]] = FALSE, !.red[T.ch[Other(d)][w]] = FALSE], T.par[x], d)

\* The far child of the sibling w is red: the loop ends after this.
LastCase(T, x, w, d) ==
  Rotate([T EXCEPT !.red[w] = T.red[T.par[x]], !.red[T.par[x]] = FALSE,
                   !.red[T.ch[Other(d)][w]] = FALSE], T.par[x], d)

\* One iteration of rbtree_delete_fixup: [T, x].
DeleteFixup(T, x) ==
  LET d == SideOf(T, x)
      o == Other(d)
      p == T.par[x]
      w0 == T.ch[o][p]
      T1 == IF T.red[w0]
              THEN Rotate([T EXCEPT !.red[w0] = FALSE, !.red[p] = TRUE], p, d)
              ELSE T
      w1 == T1.ch[o][T1.par[x]]
      near == T1.ch[d][w1]
      far  == T1.ch[o][w1]
      T2 == IF ~T1.red[far]
              THEN Rotate([T1 EXCEPT !.red[near] = FALSE, !.red[w1] = TRUE], w1, o)
              ELSE T1
      w2 == T2.ch[o][T2.par[x]]
      T3 == LastCase(T2, x, w2, d)
  IN  IF ~T1.red[near] /\ ~T1.red[far]
        THEN [T |-> [T1 EXCEPT !.red[w1] = TRUE], x |-> T1.par[x]]
        ELSE [T |-> T3, x |-> T3.root]

\* The node is freed; nothing points to it any more.
Freed(T, z) ==
  [T EXCEPT !.ch["l"][z] = Nil, !.ch["r"][z] = Nil, !.par[z] = Nil, !.red[z] = FALSE]

\* rbtree_delete of key k; next is what follows once the tree is repaired.
Delete(k, next) ==
  LET s == RbUnlinked(tree, k)
  IN  /\ rbpc = "idle" /\ RbFound(tree, k)
      /\ tree' = Freed(s.T, k)
      /\ cursor' = IF s.black THEN s.x ELSE Nil
      /\ rbpc' = IF s.black THEN "deleting" ELSE IF next = Nil THEN "idle" ELSE "relink"
      /\ again' = next
      /\ stored' = stored \ {k}

\* kvs_rbtree_del; also of an expired value.
RbDel(k) == Delete(k, Nil)

\* kvs_rbtree_set of a longer value: delete the node, insert a new one.
SetLonger(k) == Delete(k, k)

DeleteStep ==
  /\ rbpc = "deleting" /\ cursor # tree.root /\ ~tree.red[cursor]
  /\ LET s == DeleteFixup(tree, cursor) IN tree' = s.T /\ cursor' = s.x
  /\ UNCHANGED <<rbpc, again, stored>>

DeleteDone ==
  /\ rbpc = "deleting" /\ (cursor = tree.root \/ tree.red[cursor])
  /\ tree' = [tree EXCEPT !.red[cursor] = FALSE]
  /\ cursor' = Nil /\ rbpc' = IF again = Nil THEN "idle" ELSE "relink"
  /\ UNCHANGED <<again, stored>>

Relink ==
  /\ rbpc = "relink"
  /\ tree' = RbLinked(tree, again) /\ cursor' = again /\ rbpc' = "inserting"
  /\ stored' = stored \cup {again} /\ again' = Nil

\* rbtree_node_create of the longer value fails after the old node is gone.
RelinkFails ==
  /\ rbpc = "relink"
  /\ rbpc' = "idle" /\ again' = Nil
  /\ UNCHANGED <<tree, cursor, stored>>

RbNext ==
  \/ \E k \in RbKeys : SetNew(k) \/ RbSetInPlace(k) \/ SetLonger(k) \/ RbDel(k)
  \/ InsertStep \/ InsertDone \/ DeleteStep \/ DeleteDone \/ Relink \/ RelinkFails

RbSpec == RbInit /\ [][RbNext]_rbVars

-----------------------------------------------------------------------------
(* Properties *)

\* kvs_rbtree_foreach: an inorder walk.
Foreach(T) ==
  LET walk[f \in 0..(TreeSize + 1)] ==
        [n \in RbNodes |->
           IF f = 0 \/ n = Nil THEN << >>
           ELSE walk[f - 1][T.ch["l"][n]] \o <<n>> \o walk[f - 1][T.ch["r"][n]]]
  IN  walk[TreeSize + 1][T.root]

\* At every step of every fix-up the tree holds exactly the stored keys, in
\* order: a rotation loses no subtree, a deletion removes only its key.
WalkSorted ==
  LET walk == Foreach(tree)
  IN  /\ ToSet(walk) = stored
      /\ \A i, j \in DOMAIN walk : i < j => walk[i] < walk[j]

\* Parent pointers agree with child pointers, and the sentinel stays a black
\* leaf although deletions write its parent.
ParentsAgree ==
  /\ tree.root # Nil => tree.par[tree.root] = Nil
  /\ \A n \in stored : \A d \in Sides :
       tree.ch[d][n] # Nil => tree.par[tree.ch[d][n]] = n
  /\ ~tree.red[Nil] /\ \A d \in Sides : tree.ch[d][Nil] = Nil

\* The red-black tree holds the stored keys in order, and its parent pointers
\* agree with its child pointers, at every step of every fix-up
\* (rbtree_insert_fixup, rbtree_delete_fixup).
TreeSorted == WalkSorted /\ ParentsAgree

\* The node that counts as one black more: the cursor of a deletion.
Extra(n) == IF rbpc = "deleting" /\ cursor = n THEN 1 ELSE 0

\* The numbers of black nodes on the paths down from the root.  A sentinel
\* counts when it is the cursor and the one of that parent.
BlackHeights ==
  LET heights[f \in 0..(TreeSize + 1)] ==
        [n \in RbKeys |->
           LET below(d) ==
                 IF tree.ch[d][n] # Nil THEN heights[f - 1][tree.ch[d][n]]
                 ELSE {IF tree.par[Nil] = n THEN Extra(Nil) ELSE 0}
               own == (IF tree.red[n] THEN 0 ELSE 1) + Extra(n)
           IN  IF f = 0 THEN {-1} ELSE {h + own : h \in below("l") \cup below("r")}]
  IN  IF tree.root = Nil THEN {0} ELSE heights[TreeSize + 1][tree.root]

\* While a fix-up runs, the cursor is the only place where the red-black
\* rules are broken: an inserted cursor may be red below a red parent, or a
\* red root; a deletion's cursor lacks one black, and when it is red (the loop
\* then ends and blackens it) its children may be too.  Everything else is
\* balanced, and when no fix-up runs everything is.
BrokenOnlyAtCursor ==
  /\ Cardinality(BlackHeights) = 1
  /\ \A n \in stored :
       (tree.red[n] /\ (n = tree.root \/ tree.red[tree.par[n]])) =>
          \/ rbpc # "idle" /\ n = cursor
          \/ rbpc = "deleting" /\ tree.par[n] = cursor
=============================================================================
