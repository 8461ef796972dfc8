---------------------------- MODULE RbTreeProofs ----------------------------
(***************************************************************************)
(* The red-black tree of kvs_rbtree.c, for every number of keys.           *)
(*                                                                         *)
(* Order: each node has an open interval of keys, the whole range at the   *)
(* root and the part on its side of the parent below (Placed).  No keys    *)
(* but those in the intervals of the subtrees lie between a node and its   *)
(* bounds, so a search goes where the key is, and an interval gets         *)
(* narrower at every step down, which bounds every path.                   *)
(*                                                                         *)
(* Balance: each node weighs 1 if black, 0 if red, and one more if it is   *)
(* the cursor of a deletion; a missing child weighs 1 if the cursor is the *)
(* sentinel there.  Even says that there are heights H with H[n] the       *)
(* weight of n plus that of either side.  Three moves keep it: turning     *)
(* about a weightless node, shifting weight between a node and its         *)
(* children, and any weight at the root.  Every case of the two fix-up     *)
(* loops is made of these.                                                 *)
(*                                                                         *)
(* Deletion: taking out a node with at most one child (Spliced), then, if  *)
(* it was the successor of the key deleted, putting it in that node's      *)
(* place (Renamed), which keeps the order since no key is between them.    *)
(*                                                                         *)
(* Neither property is inductive: TreeSorted says nothing of the search    *)
(* paths, BrokenOnlyAtCursor nothing of the subtrees.  RbInv is.           *)
(***************************************************************************)
EXTENDS RbTree, NaturalsInduction, WellFoundedInduction, FiniteSetTheorems, SequenceTheorems, TLAPS

\* A set of naturals that is not empty has a least element.
LEMMA Least ==
  ASSUME NEW S, S \subseteq Nat, S # {}
  PROVE  \E x \in S : \A y \in S : x =< y
<1> DEFINE R == OpToRel(<, Nat)
<1>1. IsWellFoundedOn(R, Nat)  BY NatLessThanWellFounded
<1>2. PICK x \in S : \A y \in S : ~(<<y, x>> \in R)  BY <1>1, WFMin
<1>3. ASSUME NEW y \in S PROVE x =< y
  <2>1. <<y, x>> \in Nat \X Nat  OBVIOUS
  <2>2. ~(y < x)  BY <1>2, <2>1 DEF OpToRel
  <2> QED  BY <2>2
<1> QED  BY <1>3

\* Induction, for a set of numbers instead of an operator.
LEMMA AllNat ==
  ASSUME NEW S, 0 \in S, \A m \in Nat : m \in S => m + 1 \in S
  PROVE  \A m \in Nat : m \in S
<1> DEFINE T == {m \in Nat : m \notin S}
<1>1. SUFFICES ASSUME T # {} PROVE FALSE  OBVIOUS
<1>2. PICK x \in T : \A y \in T : x =< y
  <2>1. T \subseteq Nat  OBVIOUS
  <2> HIDE DEF T
  <2> QED  BY <1>1, <2>1, Least
<1>3. x \in Nat /\ x # 0  BY <1>2
<1>4. x - 1 \in Nat /\ x - 1 \notin T  BY <1>2, <1>3
<1>5. x - 1 \in S /\ (x - 1) + 1 = x  BY <1>3, <1>4
<1> QED  BY <1>2, <1>4, <1>5

-----------------------------------------------------------------------------
(* The red-black tree *)

Trees ==
  [root : RbNodes, ch : [Sides -> [RbNodes -> RbNodes]],
   par : [RbNodes -> RbNodes], red : [RbNodes -> BOOLEAN]]

\* The pointers of T join the nodes B, and the parents agree with the children.
Joined(T, B) ==
  /\ T \in Trees
  /\ B \subseteq RbKeys
  /\ T.root \in B \cup {0}
  /\ T.root = 0 => B = {}
  /\ T.root # 0 => T.par[T.root] = 0
  /\ \A d \in Sides : T.ch[d][0] = 0
  /\ \A n \in B, d \in Sides :
       /\ T.ch[d][n] \in B \cup {0}
       /\ T.ch[d][n] # 0 => T.par[T.ch[d][n]] = n /\ T.ch[d][n] # T.ch[Other(d)][n]
       /\ T.ch[d][n] # T.root \/ T.ch[d][n] = 0
  /\ \A n \in B : n # T.root => T.par[n] \in B /\ \E d \in Sides : T.ch[d][T.par[n]] = n

\* Each node has an open interval of keys, lo to hi: all of them at the root,
\* the part on its side of the parent at a child.  A side without a child
\* has no keys.
Bounds == 0..(TreeSize + 1)

Placed(T, B, lo, hi) ==
  /\ lo \in [RbNodes -> Bounds] /\ hi \in [RbNodes -> Bounds]
  /\ \A n \in B : lo[n] < n /\ n < hi[n]
  /\ T.root # 0 => lo[T.root] = 0 /\ hi[T.root] = TreeSize + 1
  /\ \A n \in B :
       /\ T.ch["l"][n] # 0 => lo[T.ch["l"][n]] = lo[n] /\ hi[T.ch["l"][n]] = n
       /\ T.ch["r"][n] # 0 => lo[T.ch["r"][n]] = n /\ hi[T.ch["r"][n]] = hi[n]
       /\ T.ch["l"][n] = 0 => \A m \in B : ~(lo[n] < m /\ m < n)
       /\ T.ch["r"][n] = 0 => \A m \in B : ~(n < m /\ m < hi[n])

\* The ends of the intervals are numbers, and no interval is wider than the
\* whole range.
LEMMA BoundFacts ==
  ASSUME NEW T, NEW B, NEW lo, NEW hi, Placed(T, B, lo, hi)
  PROVE  /\ lo \in [RbNodes -> Bounds] /\ hi \in [RbNodes -> Bounds]
         /\ \A n \in RbNodes : lo[n] \in Bounds /\ lo[n] \in Int /\ hi[n] \in Bounds /\ hi[n] \in Int
         /\ \A n \in RbNodes : hi[n] - lo[n] <= TreeSize + 1
         /\ RbNodes \subseteq Bounds /\ 0 \in Bounds /\ TreeSize + 1 \in Bounds /\ Bounds \subseteq Int
BY TreeAssumption DEF Placed, Bounds, RbNodes

\* There are two sides, each the other of the other.
LEMMA SideFacts ==
  /\ "l" \in Sides /\ "r" \in Sides /\ "l" # "r"
  /\ Other("l") = "r" /\ Other("r") = "l"
  /\ \A d \in Sides : Other(d) \in Sides /\ Other(d) # d /\ Other(Other(d)) = d
  /\ \A d \in Sides, c \in Sides : c # d => c = Other(d)
BY DEF Sides, Other

\* Nodes and keys are numbers, and 0 is the one node that is no key.
LEMMA NodeFacts ==
  /\ TreeSize \in Nat /\ Nil = 0 /\ 0 \in RbNodes /\ 0 \notin RbKeys
  /\ RbKeys \subseteq RbNodes /\ RbNodes \subseteq Nat /\ RbKeys \subseteq Nat
  /\ \A n \in RbNodes : n # 0 => n \in RbKeys
  /\ \A n \in RbNodes : n \in Nat /\ n <= TreeSize
BY TreeAssumption DEF RbNodes, RbKeys, Nil

\* What the parts of a tree are.
LEMMA TreeParts ==
  ASSUME NEW T \in Trees
  PROVE  /\ T.root \in RbNodes
         /\ T.ch \in [Sides -> [RbNodes -> RbNodes]]
         /\ T.par \in [RbNodes -> RbNodes]
         /\ T.red \in [RbNodes -> BOOLEAN]
         /\ \A d \in Sides : T.ch[d] \in [RbNodes -> RbNodes]
         /\ \A d \in Sides, n \in RbNodes : T.ch[d][n] \in RbNodes
         /\ \A n \in RbNodes : T.par[n] \in RbNodes
BY DEF Trees

\* The test of the code finds the side a node is on.
LEMMA SideIs ==
  ASSUME NEW T, NEW B, Joined(T, B), NEW n \in B, NEW d \in Sides, T.par[n] \in B,
         T.ch[d][T.par[n]] = n
  PROVE  SideOf(T, n) = d
<1>1. n # 0  BY NodeFacts DEF Joined
<1>2. T.ch[Other(d)][T.par[n]] # n  BY <1>1 DEF Joined
<1> QED  BY <1>2, SideFacts DEF SideOf, Sides

\* What a rotation leaves of each pointer.
LEMMA RotateIs ==
  ASSUME NEW T, NEW B, Joined(T, B), NEW x \in B, NEW d \in Sides,
         NEW y, y = T.ch[Other(d)][x], y # 0, NEW b, b = T.ch[d][y], T.par[x] # y,
         NEW Q, Q = Rotate(T, x, d)
  PROVE  /\ Q \in Trees /\ Q.red = T.red
         /\ Q.root = IF x = T.root THEN y ELSE T.root
         /\ \A c \in Sides, n \in RbNodes :
              Q.ch[c][n] = IF n = x /\ c = Other(d) THEN b
                           ELSE IF n = y /\ c = d THEN x
                           ELSE IF n \in B /\ T.ch[c][n] = x THEN y ELSE T.ch[c][n]
         /\ \A n \in RbNodes :
              Q.par[n] = IF n = x THEN y ELSE IF n = y THEN T.par[x]
                         ELSE IF n = b /\ b # 0 THEN x ELSE T.par[n]
<1> DEFINE o == Other(d)
           R == Replaced(T, x, y)
           s == SideOf(T, x)
           p == T.par[x]
<1>0. T \in Trees /\ B \subseteq RbKeys  BY DEF Joined
<1>1. /\ o \in Sides /\ o # d
      /\ x \in RbNodes /\ x # 0 /\ y \in B /\ y \in RbNodes /\ b \in RbNodes /\ p \in RbNodes
      /\ x # y /\ Nil = 0 /\ 0 \in RbNodes
  <2>1. o \in Sides /\ o # d  BY SideFacts
  <2>2. x \in RbNodes /\ x # 0 /\ Nil = 0 /\ 0 \in RbNodes  BY <1>0, NodeFacts
  <2>3. y \in B /\ T.par[y] = x  BY <2>1 DEF Joined
  <2>4. y \in RbNodes /\ b \in RbNodes /\ p \in RbNodes  BY <1>0, <2>2, <2>3, TreeParts, NodeFacts
  <2>5. x # y  BY <2>3
  <2> QED  BY <2>1, <2>2, <2>3, <2>4, <2>5
<1>2. /\ p = 0 <=> x = T.root
      /\ p # 0 => p \in B /\ s \in Sides /\ T.ch[s][p] = x
      /\ \A c \in Sides, n \in B : T.ch[c][n] = x => n = p /\ c = s /\ p # 0
  <2>1. x = T.root => p = 0  BY <1>1 DEF Joined
  <2>2. ASSUME x # T.root
        PROVE  p \in B /\ p # 0 /\ s \in Sides /\ T.ch[s][p] = x
    <3>1. PICK c \in Sides : T.ch[c][p] = x  BY <2>2 DEF Joined
    <3>2. p \in B /\ p # 0  BY <2>2, <1>0, NodeFacts DEF Joined
    <3>3. s = c  BY <3>1, <3>2, SideIs
    <3> QED  BY <3>1, <3>2, <3>3
  <2>3. ASSUME NEW c \in Sides, NEW n \in B, T.ch[c][n] = x
        PROVE  n = p /\ c = s /\ p # 0
    <3>1. n = p /\ n # 0  BY <2>3, <1>0, <1>1, NodeFacts DEF Joined
    <3>2. c = s  BY <2>3, <3>1, SideIs
    <3> QED  BY <3>1, <3>2
  <2> QED  BY <2>1, <2>2, <2>3
<1>3. /\ R \in Trees /\ R.par = T.par /\ R.red = T.red
      /\ R.root = IF p = 0 THEN y ELSE T.root
      /\ \A c \in Sides, n \in RbNodes :
           R.ch[c][n] = IF n = p /\ c = s /\ p # 0 THEN y ELSE T.ch[c][n]
  <2> HIDE DEF s, p
  <2>1. CASE p = 0
    <3>1. R = [T EXCEPT !.root = y]  BY <2>1, <1>1 DEF Replaced, p
    <3> HIDE DEF R
    <3> QED  BY <3>1, <2>1, <1>0, <1>1 DEF Trees
  <2>2. CASE p # 0
    <3>1. R = [T EXCEPT !.ch[s][p] = y]  BY <2>2, <1>1 DEF Replaced, p, s
    <3> HIDE DEF R
    <3>2. s \in Sides  BY <1>2, <2>2
    <3>3. /\ R.root = T.root /\ R.par = T.par /\ R.red = T.red
          /\ R.ch = [T.ch EXCEPT ![s][p] = y]
      BY <3>1, <1>0 DEF Trees
    <3>4. T.ch \in [Sides -> [RbNodes -> RbNodes]]  BY <1>0 DEF Trees
    <3>5. R.ch \in [Sides -> [RbNodes -> RbNodes]]  BY <3>2, <3>3, <3>4, <1>1
    <3>6. R \in Trees  BY <3>1, <3>3, <3>5, <1>0 DEF Trees
    <3>7. \A c \in Sides, n \in RbNodes :
            R.ch[c][n] = IF n = p /\ c = s THEN y ELSE T.ch[c][n]
      BY <3>2, <3>3, <3>4, <1>1
    <3> QED  BY <2>2, <3>3, <3>6, <3>7
  <2> QED  BY <2>1, <2>2
<1>4. Rotate(T, x, d) =
        [root |-> Replaced(T, x, T.ch[o][x]).root,
         ch   |-> [c \in Sides |->
                     IF c = d THEN [Replaced(T, x, T.ch[o][x]).ch[d] EXCEPT ![T.ch[o][x]] = x]
                     ELSE [Replaced(T, x, T.ch[o][x]).ch[o] EXCEPT ![x] = T.ch[d][T.ch[o][x]]]],
         par  |-> [T.par EXCEPT ![T.ch[d][T.ch[o][x]]] =
                                   IF T.ch[d][T.ch[o][x]] # Nil THEN x
                                   ELSE T.par[T.ch[d][T.ch[o][x]]],
                                ![T.ch[o][x]] = p, ![x] = T.ch[o][x]],
         red  |-> T.red]
  BY ONLY ZenonT(60) DEF Rotate
<1> HIDE DEF R, s, p, o
<1>5. /\ Q.root = R.root /\ Q.red = T.red
      /\ Q.ch = [c \in Sides |-> IF c = d THEN [R.ch[d] EXCEPT ![y] = x]
                                    ELSE [R.ch[o] EXCEPT ![x] = b]]
      /\ Q.par = [T.par EXCEPT ![b] = IF b # 0 THEN x ELSE T.par[b], ![y] = p, ![x] = y]
      /\ Q = [root |-> Q.root, ch |-> Q.ch, par |-> Q.par, red |-> Q.red]
  <2>1. T.ch[o][x] = y /\ T.ch[d][T.ch[o][x]] = b /\ Replaced(T, x, T.ch[o][x]) = R /\ Nil = 0
    BY <1>1 DEF o, R
  <2> QED  BY ONLY <2>1, <1>4, Q = Rotate(T, x, d)
<1>6. /\ R.ch[d] \in [RbNodes -> RbNodes] /\ R.ch[o] \in [RbNodes -> RbNodes]
      /\ T.par \in [RbNodes -> RbNodes] /\ T.red \in [RbNodes -> BOOLEAN]
      /\ R.root \in RbNodes
  BY <1>0, <1>1, <1>3 DEF Trees
<1>7. /\ Q.ch \in [Sides -> [RbNodes -> RbNodes]]
      /\ \A c \in Sides, n \in RbNodes :
              Q.ch[c][n] = IF n = x /\ c = o THEN b
                           ELSE IF n = y /\ c = d THEN x ELSE R.ch[c][n]
  <2>1. Q.ch[d] = [R.ch[d] EXCEPT ![y] = x] /\ Q.ch[o] = [R.ch[o] EXCEPT ![x] = b]
    BY <1>1, <1>5
  <2>2. Q.ch[d] \in [RbNodes -> RbNodes] /\ Q.ch[o] \in [RbNodes -> RbNodes]
    BY <2>1, <1>1, <1>6
  <2>3. \A c \in Sides : c = d \/ c = o  BY SideFacts DEF o
  <2>4. Q.ch = [c \in Sides |-> Q.ch[c]]  BY <1>5
  <2>5. \A c \in Sides : Q.ch[c] \in [RbNodes -> RbNodes]  BY <2>2, <2>3
  <2>6. Q.ch \in [Sides -> [RbNodes -> RbNodes]]  BY ONLY <2>4, <2>5
  <2>7. \A n \in RbNodes : /\ Q.ch[d][n] = IF n = y THEN x ELSE R.ch[d][n]
                           /\ Q.ch[o][n] = IF n = x THEN b ELSE R.ch[o][n]
    BY <2>1, <1>1, <1>6
  <2> QED  BY <2>3, <2>6, <2>7, <1>1
<1>8. /\ Q.par \in [RbNodes -> RbNodes]
      /\ \A n \in RbNodes :
              Q.par[n] = IF n = x THEN y ELSE IF n = y THEN p
                         ELSE IF n = b /\ b # 0 THEN x ELSE T.par[n]
  <2> DEFINE v == IF b # 0 THEN x ELSE T.par[b]
             f == [T.par EXCEPT ![b] = v]
             g == [f EXCEPT ![y] = p]
             h == [g EXCEPT ![x] = y]
  <2>1. v \in RbNodes  BY <1>1, <1>6
  <2>2. Q.par = h  BY <1>5
  <2> HIDE DEF v
  <2>3. f \in [RbNodes -> RbNodes] /\ \A n \in RbNodes : f[n] = IF n = b THEN v ELSE T.par[n]
    BY <2>1, <1>1, <1>6
  <2> HIDE DEF f
  <2>4. g \in [RbNodes -> RbNodes] /\ \A n \in RbNodes : g[n] = IF n = y THEN p ELSE f[n]
    BY <2>3, <1>1
  <2> HIDE DEF g
  <2>5. h \in [RbNodes -> RbNodes] /\ \A n \in RbNodes : h[n] = IF n = x THEN y ELSE g[n]
    BY <2>4, <1>1
  <2> HIDE DEF h
  <2> QED  BY <2>2, <2>3, <2>4, <2>5, <1>1 DEF v
<1>9. Q \in Trees  BY <1>5, <1>6, <1>7, <1>8 DEF Trees
<1>10. ASSUME NEW c \in Sides, NEW n \in RbNodes
       PROVE  Q.ch[c][n] = IF n = x /\ c = o THEN b
                           ELSE IF n = y /\ c = d THEN x
                           ELSE IF n \in B /\ T.ch[c][n] = x THEN y ELSE T.ch[c][n]
  <2>1. (n = p /\ c = s /\ p # 0) <=> (n \in B /\ T.ch[c][n] = x)  BY <1>2
  <2>2. R.ch[c][n] = IF n \in B /\ T.ch[c][n] = x THEN y ELSE T.ch[c][n]  BY <2>1, <1>3
  <2> QED  BY <2>2, <1>7
<1>11. Q.root = IF x = T.root THEN y ELSE T.root  BY <1>2, <1>3, <1>5
<1>12. Q.red = T.red  BY <1>3, <1>5
<1> QED  BY <1>8, <1>9, <1>10, <1>11, <1>12 DEF o, p

\* A child's interval is narrower than its parent's.
LEMMA Narrower ==
  ASSUME NEW T, NEW B, Joined(T, B), NEW lo, NEW hi, Placed(T, B, lo, hi),
         NEW n \in B, NEW c \in Sides, T.ch[c][n] # 0
  PROVE  /\ T.ch[c][n] \in B
         /\ hi[T.ch[c][n]] - lo[T.ch[c][n]] < hi[n] - lo[n]
         /\ lo[n] <= lo[T.ch[c][n]] /\ hi[T.ch[c][n]] <= hi[n]
<1>1. T.ch[c][n] \in B  BY DEF Joined
<1>2. n \in Nat /\ lo[n] \in Int /\ hi[n] \in Int /\ lo[n] < n /\ n < hi[n]
  <2>1. n \in Nat /\ n \in RbNodes  BY NodeFacts DEF Joined
  <2>2. lo[n] < n /\ n < hi[n]  BY DEF Placed
  <2>3. lo[n] \in Int /\ hi[n] \in Int  BY <2>1, BoundFacts
  <2> QED  BY <2>1, <2>2, <2>3
<1>3. CASE c = "l"
  BY <1>1, <1>2, <1>3 DEF Placed
<1>4. CASE c = "r"
  BY <1>1, <1>2, <1>4 DEF Placed
<1> QED  BY <1>3, <1>4 DEF Sides

\* A rotation keeps the tree joined.
LEMMA RotateJoined ==
  ASSUME NEW T, NEW B, Joined(T, B), NEW lo, NEW hi, Placed(T, B, lo, hi),
         NEW x \in B, NEW d \in Sides,
         NEW y, y = T.ch[Other(d)][x], y # 0, NEW Q, Q = Rotate(T, x, d)
  PROVE  Joined(Q, B) /\ T.par[x] # y
<1> DEFINE o == Other(d)
           b == T.ch[d][y]
           W(n) == hi[n] - lo[n]
<1>1. /\ o \in Sides /\ o # d /\ Other(o) = d /\ Other(d) = o
      /\ \A c \in Sides : c = d \/ c = o
      /\ B \subseteq RbKeys /\ \A n \in B : n # 0 /\ n \in RbNodes
      /\ 0 \in RbNodes /\ 0 \notin B
  BY SideFacts, NodeFacts DEF Joined
<1>2. y \in B /\ T.par[y] = x /\ y # T.root  BY <1>1 DEF Joined
<1>3. \A n \in B : W(n) \in Int
  BY <1>1, BoundFacts
<1>4. W(y) < W(x)  BY <1>1, Narrower
<1>5. \A n \in B, c \in Sides : T.ch[c][n] # 0 => T.ch[c][n] \in B /\ W(T.ch[c][n]) < W(n)
  BY Narrower
<1> HIDE DEF W
<1>6. \A n \in B : n # T.root => T.par[n] \in B /\ W(n) < W(T.par[n])
  <2> SUFFICES ASSUME NEW n \in B, n # T.root PROVE T.par[n] \in B /\ W(n) < W(T.par[n])
    OBVIOUS
  <2>1. T.par[n] \in B  BY DEF Joined
  <2>2. PICK c \in Sides : T.ch[c][T.par[n]] = n  BY DEF Joined
  <2> QED  BY <2>1, <2>2, <1>1, <1>5
<1>7. T.par[x] # y
  <2>1. SUFFICES ASSUME T.par[x] = y PROVE FALSE  OBVIOUS
  <2>2. x # T.root  BY <2>1, <1>1, <1>2 DEF Joined
  <2>3. W(x) < W(y) /\ W(x) \in Int /\ W(y) \in Int  BY <2>1, <2>2, <1>2, <1>3, <1>6
  <2> QED  BY <2>3, <1>4
<1>8. /\ b \in B \cup {0}
      /\ b # 0 => T.par[b] = y /\ b # x /\ b # y /\ b # T.root
  <2>1. b \in B \cup {0} /\ (b # 0 => T.par[b] = y /\ b # T.root)  BY <1>2 DEF Joined
  <2>2. b # 0 => b # x /\ b # y  BY <2>1, <1>2, <1>7, <1>3, <1>5
  <2> QED  BY <2>1, <2>2
<1> HIDE DEF b
<1>9. T.par[x] # x
  <2>1. x = T.root => T.par[x] = 0  BY <1>1 DEF Joined
  <2>2. x # T.root => W(x) < W(T.par[x])  BY <1>6
  <2> QED  BY <2>1, <2>2, <1>1, <1>3
<1>10. x # y  BY <1>3, <1>4, <1>2
<1>r. /\ Q \in Trees /\ Q.red = T.red
      /\ Q.root = IF x = T.root THEN y ELSE T.root
      /\ \A c \in Sides, n \in RbNodes :
           Q.ch[c][n] = IF n = x /\ c = o THEN b
                        ELSE IF n = y /\ c = d THEN x
                        ELSE IF n \in B /\ T.ch[c][n] = x THEN y ELSE T.ch[c][n]
      /\ \A n \in RbNodes :
           Q.par[n] = IF n = x THEN y ELSE IF n = y THEN T.par[x]
                      ELSE IF n = b /\ b # 0 THEN x ELSE T.par[n]
  BY <1>7, RotateIs DEF b
<1>j. /\ T.root \in B
      /\ T.par[T.root] = 0
      /\ \A c \in Sides : T.ch[c][0] = 0
      /\ \A n \in B, c \in Sides :
           /\ T.ch[c][n] \in B \cup {0}
           /\ T.ch[c][n] # 0 => T.par[T.ch[c][n]] = n /\ T.ch[c][n] # T.ch[Other(c)][n]
           /\ T.ch[c][n] # T.root
      /\ \A n \in B : n # T.root => T.par[n] \in B /\ \E c \in Sides : T.ch[c][T.par[n]] = n
  BY <1>1 DEF Joined
<1>e. T.ch[o][x] = y /\ T.ch[d][y] = b  BY DEF b
<1> HIDE DEF o
<1>11. Q.root \in B /\ Q.par[Q.root] = 0
  <2>1. CASE x = T.root
    BY <2>1, <1>r, <1>2, <1>1, <1>j, <1>10
  <2>2. CASE x # T.root
    BY <2>2, <1>r, <1>2, <1>1, <1>j, <1>8
  <2> QED  BY <2>1, <2>2
<1>12. \A c \in Sides : Q.ch[c][0] = 0  BY <1>1, <1>2, <1>r, <1>j
<1>13. ASSUME NEW n \in B, NEW c \in Sides
       PROVE  /\ Q.ch[c][n] \in B \cup {0}
              /\ Q.ch[c][n] # 0 => Q.par[Q.ch[c][n]] = n /\ Q.ch[c][n] # Q.ch[Other(c)][n]
              /\ Q.ch[c][n] # Q.root
  <2>1. CASE n = x /\ c = o
    <3>1. Q.ch[c][n] = b /\ Q.ch[Other(c)][n] = T.ch[d][x]
      <4>1. T.ch[d][x] # x  BY <1>j, <1>1, <1>9
      <4> QED  BY <2>1, <1>r, <1>1, <1>10, <4>1
    <3>2. b # 0 => b # T.ch[d][x]  BY <1>8, <1>j, <1>10
    <3>3. b # 0 => Q.par[b] = x  BY <1>8, <1>r, <1>1
    <3>4. b # Q.root
      <4>1. b = 0 => b # Q.root  BY <1>11, <1>1
      <4> QED  BY <4>1, <1>8, <1>r
    <3> QED  BY <3>1, <3>2, <3>3, <3>4, <2>1, <1>8
  <2>2. CASE n = y /\ c = d
    <3>1. Q.ch[c][n] = x /\ Q.ch[Other(c)][n] = T.ch[o][y]
      <4>1. T.ch[o][y] # x  BY <1>j, <1>1, <1>7, <1>2
      <4> QED  BY <2>2, <1>r, <1>1, <1>2, <1>10, <4>1
    <3>2. x # T.ch[o][y]  BY <1>j, <1>1, <1>2, <1>7
    <3> QED  BY <3>1, <3>2, <2>2, <1>r, <1>1, <1>10
  <2>3. CASE ~(n = x /\ c = o) /\ ~(n = y /\ c = d) /\ T.ch[c][n] = x
    <3>1. n = T.par[x] /\ n # x /\ n # y /\ x # T.root  BY <2>3, <1>1, <1>j, <1>7, <1>9
    <3>2. Q.ch[c][n] = y /\ Q.ch[Other(c)][n] = T.ch[Other(c)][n]
      <4>1. T.ch[Other(c)][n] # x /\ Other(c) \in Sides  BY <2>3, <1>1, <1>j, SideFacts
      <4> QED  BY <3>1, <4>1, <2>3, <1>r, <1>1
    <3>3. y # T.ch[Other(c)][n]  BY <3>1, <1>1, <1>2, <1>j, SideFacts
    <3>4. Q.par[y] = n /\ Q.root = T.root  BY <3>1, <1>1, <1>2, <1>10, <1>r
    <3> QED  BY <3>2, <3>3, <3>4, <1>2
  <2>4. CASE ~(n = x /\ c = o) /\ ~(n = y /\ c = d) /\ T.ch[c][n] # x
    <3> DEFINE m == T.ch[c][n]
    <3>1. Q.ch[c][n] = m  BY <2>4, <1>r, <1>1
    <3>2. m \in B \cup {0} /\ m # x /\ m # T.root /\ (m # 0 => T.par[m] = n)  BY <2>4, <1>j
    <3>3. m # 0 => m # y
      <4>1. m = y => n = x  BY <3>2, <1>1, <1>2
      <4>2. n = x => c = d  BY <2>4, <1>1
      <4>3. n = x => T.ch[d][x] # y  BY <1>j, <1>e, <1>1, <1>2
      <4> QED  BY <4>1, <4>2, <4>3
    <3>4. m # 0 => m # b
      <4>1. m # 0 /\ m = b => n = y  BY <3>2, <1>8
      <4>2. n = y => c = o  BY <2>4, <1>1
      <4>3. n = y /\ m # 0 /\ m = b => T.ch[o][y] # b  BY <1>j, <1>e, <1>1, <1>2
      <4> QED  BY <4>1, <4>2, <4>3
    <3>5. m # 0 => m # Q.ch[Other(c)][n]
      <4>1. Other(c) \in Sides  BY SideFacts
      <4>2. m # 0 => m # T.ch[Other(c)][n]  BY <1>j
      <4> HIDE DEF m
      <4>3. Q.ch[Other(c)][n] \in {b, x, y, T.ch[Other(c)][n]}  BY <4>1, <1>r, <1>1
      <4> QED  BY <4>2, <4>3, <3>2, <3>3, <3>4
    <3>6. m # 0 => Q.par[m] = n
      <4> HIDE DEF m
      <4> QED  BY <3>2, <3>3, <3>4, <1>r, <1>1
    <3>7. m # Q.root
      <4>1. m = 0 => m # Q.root  BY <1>11, <1>1
      <4> HIDE DEF m
      <4> QED  BY <4>1, <3>2, <3>3, <1>r
    <3> HIDE DEF m
    <3> QED  BY <3>1, <3>2, <3>5, <3>6, <3>7
  <2> QED  BY <2>1, <2>2, <2>3, <2>4
<1>14. ASSUME NEW n \in B, n # Q.root
       PROVE  Q.par[n] \in B /\ \E c \in Sides : Q.ch[c][Q.par[n]] = n
  <2>1. CASE n = x
    BY <2>1, <1>r, <1>1, <1>2, <1>10
  <2>2. CASE n = y
    <3>1. x # T.root  BY <2>2, <1>14, <1>r
    <3>2. T.par[x] \in B /\ \E c \in Sides : T.ch[c][T.par[x]] = x  BY <3>1, <1>j
    <3>3. PICK c \in Sides : T.ch[c][T.par[x]] = x  BY <3>2
    <3>4. Q.ch[c][T.par[x]] = y  BY <3>2, <3>3, <1>7, <1>9, <1>r, <1>1
    <3>5. Q.par[n] = T.par[x]  BY <2>2, <1>r, <1>1, <1>2, <1>10
    <3> QED  BY <2>2, <3>2, <3>4, <3>5
  <2>3. CASE n # x /\ n # y /\ n = b
    BY <2>3, <1>r, <1>1, <1>10
  <2>4. CASE n # x /\ n # y /\ n # b
    <3>1. n # T.root  BY <2>4, <1>14, <1>r
    <3>2. T.par[n] \in B /\ \E c \in Sides : T.ch[c][T.par[n]] = n  BY <3>1, <1>j
    <3>3. PICK c \in Sides : T.ch[c][T.par[n]] = n  BY <3>2
    <3>4. Q.par[n] = T.par[n]  BY <2>4, <1>r, <1>1
    <3>5. Q.ch[c][T.par[n]] = n
      <4>1. ~(T.par[n] = x /\ c = o) /\ ~(T.par[n] = y /\ c = d)  BY <3>3, <2>4, <1>e
      <4> QED  BY <3>2, <3>3, <2>4, <4>1, <1>r, <1>1
    <3> QED  BY <3>2, <3>4, <3>5
  <2> QED  BY <2>1, <2>2, <2>3, <2>4
<1>15. Joined(Q, B)
  BY <1>1, <1>r, <1>11, <1>12, <1>13, <1>14 DEF Joined
<1> QED  BY <1>7, <1>15

\* A rotation keeps the keys in place: the upper node hands its interval over.
LEMMA RotatePlaced ==
  ASSUME NEW T, NEW B, Joined(T, B), NEW lo, NEW hi, Placed(T, B, lo, hi),
         NEW x \in B, NEW d \in Sides,
         NEW y, y = T.ch[Other(d)][x], y # 0, NEW Q, Q = Rotate(T, x, d)
  PROVE  \E lo1, hi1 : Placed(Q, B, lo1, hi1)
<1> DEFINE b == T.ch[d][y]
<1>1. /\ B \subseteq RbKeys /\ \A n \in B : n # 0 /\ n \in RbNodes /\ n \in Nat
      /\ y \in B /\ T.par[y] = x /\ b \in B \cup {0} /\ y # T.root /\ x # y
  <2>1. B \subseteq RbKeys /\ \A n \in B : n # 0 /\ n \in RbNodes /\ n \in Nat
    BY NodeFacts DEF Joined
  <2>2. y \in B /\ T.par[y] = x /\ y # T.root  BY SideFacts DEF Joined
  <2>3. b \in B \cup {0}  BY <2>2 DEF Joined
  <2>4. hi[y] - lo[y] < hi[x] - lo[x] /\ lo[x] \in Int /\ hi[x] \in Int
    BY <2>1, Narrower, SideFacts, BoundFacts
  <2> QED  BY <2>1, <2>2, <2>3, <2>4
<1>2. /\ Q.root = IF x = T.root THEN y ELSE T.root
      /\ \A c \in Sides, n \in RbNodes :
           Q.ch[c][n] = IF n = x /\ c = Other(d) THEN b
                        ELSE IF n = y /\ c = d THEN x
                        ELSE IF n \in B /\ T.ch[c][n] = x THEN y ELSE T.ch[c][n]
  <2>1. T.par[x] # y  BY RotateJoined
  <2> QED  BY <2>1, RotateIs
<1>3. /\ lo \in [RbNodes -> Bounds] /\ hi \in [RbNodes -> Bounds] /\ RbNodes \subseteq Bounds
      /\ \A n \in B : lo[n] < n /\ n < hi[n] /\ lo[n] \in Int /\ hi[n] \in Int
      /\ T.root # 0 => lo[T.root] = 0 /\ hi[T.root] = TreeSize + 1
      /\ \A n \in B :
           /\ T.ch["l"][n] # 0 => lo[T.ch["l"][n]] = lo[n] /\ hi[T.ch["l"][n]] = n
           /\ T.ch["r"][n] # 0 => lo[T.ch["r"][n]] = n /\ hi[T.ch["r"][n]] = hi[n]
           /\ T.ch["l"][n] = 0 => \A m \in B : ~(lo[n] < m /\ m < n)
           /\ T.ch["r"][n] = 0 => \A m \in B : ~(n < m /\ m < hi[n])
  <2>1. \A n \in RbNodes : lo[n] \in Int /\ hi[n] \in Int  BY BoundFacts
  <2>2. RbNodes \subseteq Bounds  BY BoundFacts
  <2> QED  BY <2>1, <2>2, <1>1 DEF Placed
<1>4. \A n \in B, c \in Sides : T.ch[c][n] \in B \cup {0} /\ (T.ch[c][n] # 0 => T.par[T.ch[c][n]] = n)
  BY DEF Joined
<1>s. "l" \in Sides /\ "r" \in Sides /\ Other("l") = "r" /\ Other("r") = "l"  BY SideFacts
<1>5. CASE d = "l"
  <2> DEFINE lo1 == [lo EXCEPT ![y] = lo[x]]
             hi1 == [hi EXCEPT ![x] = y]
  <2>1. /\ lo1 \in [RbNodes -> Bounds] /\ hi1 \in [RbNodes -> Bounds]
        /\ \A n \in RbNodes : lo1[n] = IF n = y THEN lo[x] ELSE lo[n]
        /\ \A n \in RbNodes : hi1[n] = IF n = x THEN y ELSE hi[n]
    BY <1>1, <1>3
  <2> HIDE DEF lo1, hi1
  <2>2. /\ y = T.ch["r"][x] /\ b = T.ch["l"][y] /\ lo[y] = x /\ hi[y] = hi[x] /\ x < y
        /\ b # 0 => lo[b] = x /\ hi[b] = y
        /\ b = 0 => \A m \in B : ~(x < m /\ m < y)
    BY <1>5, <1>s, <1>1, <1>3
  <2>3. /\ \A n \in RbNodes : Q.ch["l"][n] = IF n = y THEN x
                                            ELSE IF n \in B /\ T.ch["l"][n] = x THEN y ELSE T.ch["l"][n]
        /\ \A n \in RbNodes : Q.ch["r"][n] = IF n = x THEN b
                                            ELSE IF n \in B /\ T.ch["r"][n] = x THEN y ELSE T.ch["r"][n]
    BY <1>2, <1>5, <1>s
  <2> HIDE DEF b
  <2>4. ASSUME NEW n \in B PROVE lo1[n] < n /\ n < hi1[n]
    BY <2>1, <2>2, <1>1, <1>3
  <2>5. Q.root # 0 => lo1[Q.root] = 0 /\ hi1[Q.root] = TreeSize + 1
    <3>1. T.root \in B  BY <1>1 DEF Joined
    <3> QED  BY <3>1, <2>1, <2>2, <1>1, <1>2, <1>3
  <2>6. ASSUME NEW n \in B
        PROVE  /\ Q.ch["l"][n] # 0 => lo1[Q.ch["l"][n]] = lo1[n] /\ hi1[Q.ch["l"][n]] = n
               /\ Q.ch["l"][n] = 0 => \A m \in B : ~(lo1[n] < m /\ m < n)
    <3>1. CASE n = y
      BY <3>1, <2>1, <2>3, <1>1
    <3>2. CASE n # y /\ T.ch["l"][n] = x
      BY <3>2, <2>1, <2>2, <2>3, <1>1, <1>3
    <3>3. CASE n # y /\ T.ch["l"][n] # x
      <4>1. T.ch["l"][n] = y => n = x  BY <1>1, <1>4, <1>s
      <4>2. T.ch["l"][x] # y  BY <2>2, <1>1, <1>3
      <4> QED  BY <3>3, <4>1, <4>2, <2>1, <2>3, <1>1, <1>3, <1>4, <1>s
    <3> QED  BY <3>1, <3>2, <3>3
  <2>7. ASSUME NEW n \in B
        PROVE  /\ Q.ch["r"][n] # 0 => lo1[Q.ch["r"][n]] = n /\ hi1[Q.ch["r"][n]] = hi1[n]
               /\ Q.ch["r"][n] = 0 => \A m \in B : ~(n < m /\ m < hi1[n])
    <3>1. CASE n = x
      <4>1. b # y /\ b # x  BY <2>2, <1>1, <1>3
      <4> QED  BY <3>1, <4>1, <2>1, <2>2, <2>3, <1>1
    <3>2. CASE n # x /\ T.ch["r"][n] = x
      BY <3>2, <2>1, <2>2, <2>3, <1>1, <1>3
    <3>3. CASE n # x /\ T.ch["r"][n] # x
      <4>1. T.ch["r"][n] # y  BY <3>3, <1>1, <1>4, <1>s
      <4> QED  BY <3>3, <4>1, <2>1, <2>3, <1>1, <1>3, <1>4, <1>s
    <3> QED  BY <3>1, <3>2, <3>3
  <2>8. Placed(Q, B, lo1, hi1)  BY <2>1, <2>4, <2>5, <2>6, <2>7 DEF Placed
  <2> QED  BY <2>8
<1>6. CASE d = "r"
  <2> DEFINE hi1 == [hi EXCEPT ![y] = hi[x]]
             lo1 == [lo EXCEPT ![x] = y]
  <2>1. /\ lo1 \in [RbNodes -> Bounds] /\ hi1 \in [RbNodes -> Bounds]
        /\ \A n \in RbNodes : hi1[n] = IF n = y THEN hi[x] ELSE hi[n]
        /\ \A n \in RbNodes : lo1[n] = IF n = x THEN y ELSE lo[n]
    BY <1>1, <1>3
  <2> HIDE DEF lo1, hi1
  <2>2. /\ y = T.ch["l"][x] /\ b = T.ch["r"][y] /\ hi[y] = x /\ lo[y] = lo[x] /\ y < x
        /\ b # 0 => hi[b] = x /\ lo[b] = y
        /\ b = 0 => \A m \in B : ~(y < m /\ m < x)
    BY <1>6, <1>s, <1>1, <1>3
  <2>3. /\ \A n \in RbNodes : Q.ch["r"][n] = IF n = y THEN x
                                            ELSE IF n \in B /\ T.ch["r"][n] = x THEN y ELSE T.ch["r"][n]
        /\ \A n \in RbNodes : Q.ch["l"][n] = IF n = x THEN b
                                            ELSE IF n \in B /\ T.ch["l"][n] = x THEN y ELSE T.ch["l"][n]
    BY <1>2, <1>6, <1>s
  <2> HIDE DEF b
  <2>4. ASSUME NEW n \in B PROVE lo1[n] < n /\ n < hi1[n]
    BY <2>1, <2>2, <1>1, <1>3
  <2>5. Q.root # 0 => lo1[Q.root] = 0 /\ hi1[Q.root] = TreeSize + 1
    <3>1. T.root \in B  BY <1>1 DEF Joined
    <3> QED  BY <3>1, <2>1, <2>2, <1>1, <1>2, <1>3
  <2>6. ASSUME NEW n \in B
        PROVE  /\ Q.ch["r"][n] # 0 => lo1[Q.ch["r"][n]] = n /\ hi1[Q.ch["r"][n]] = hi1[n]
               /\ Q.ch["r"][n] = 0 => \A m \in B : ~(n < m /\ m < hi1[n])
    <3>1. CASE n = y
      BY <3>1, <2>1, <2>3, <1>1
    <3>2. CASE n # y /\ T.ch["r"][n] = x
      BY <3>2, <2>1, <2>2, <2>3, <1>1, <1>3
    <3>3. CASE n # y /\ T.ch["r"][n] # x
      <4>1. T.ch["r"][n] = y => n = x  BY <1>1, <1>4, <1>s
      <4>2. T.ch["r"][x] # y  BY <2>2, <1>1, <1>3
      <4> QED  BY <3>3, <4>1, <4>2, <2>1, <2>3, <1>1, <1>3, <1>4, <1>s
    <3> QED  BY <3>1, <3>2, <3>3
  <2>7. ASSUME NEW n \in B
        PROVE  /\ Q.ch["l"][n] # 0 => lo1[Q.ch["l"][n]] = lo1[n] /\ hi1[Q.ch["l"][n]] = n
               /\ Q.ch["l"][n] = 0 => \A m \in B : ~(lo1[n] < m /\ m < n)
    <3>1. CASE n = x
      <4>1. b # y /\ b # x  BY <2>2, <1>1, <1>3
      <4> QED  BY <3>1, <4>1, <2>1, <2>2, <2>3, <1>1
    <3>2. CASE n # x /\ T.ch["l"][n] = x
      BY <3>2, <2>1, <2>2, <2>3, <1>1, <1>3
    <3>3. CASE n # x /\ T.ch["l"][n] # x
      <4>1. T.ch["l"][n] # y  BY <3>3, <1>1, <1>4, <1>s
      <4> QED  BY <3>3, <4>1, <2>1, <2>3, <1>1, <1>3, <1>4, <1>s
    <3> QED  BY <3>1, <3>2, <3>3
  <2>8. Placed(Q, B, lo1, hi1)  BY <2>1, <2>4, <2>5, <2>6, <2>7 DEF Placed
  <2> QED  BY <2>8
<1> QED  BY <1>5, <1>6 DEF Sides

\* The nodes of T are B, and a walk in order meets them in order.
InOrder(T, B) == Joined(T, B) /\ \E lo, hi : Placed(T, B, lo, hi)

\* A rotation (rbtree_left_rotate, rbtree_right_rotate) keeps the order.
LEMMA RotateKeeps ==
  ASSUME NEW T, NEW B, InOrder(T, B), NEW x \in B, NEW d \in Sides, T.ch[Other(d)][x] # 0
  PROVE  InOrder(Rotate(T, x, d), B) /\ T.par[x] # T.ch[Other(d)][x]
<1>1. PICK lo, hi : Placed(T, B, lo, hi)  BY DEF InOrder
<1>2. Joined(T, B)  BY DEF InOrder
<1>3. Joined(Rotate(T, x, d), B) /\ T.par[x] # T.ch[Other(d)][x]  BY <1>1, <1>2, RotateJoined
<1>4. \E lo1, hi1 : Placed(Rotate(T, x, d), B, lo1, hi1)  BY <1>1, <1>2, RotatePlaced
<1> QED  BY <1>3, <1>4 DEF InOrder

\* Colours, and the sentinel's parent, do not matter to the order.
LEMMA PaintKeeps ==
  ASSUME NEW T, NEW B, InOrder(T, B), NEW R \in Trees, R.root = T.root, R.ch = T.ch,
         \A n \in B : R.par[n] = T.par[n]
  PROVE  InOrder(R, B)
<1>1. Joined(R, B)
  <2>1. \A n \in B, d \in Sides : T.ch[d][n] # 0 => T.ch[d][n] \in B  BY DEF InOrder, Joined
  <2>2. T.root # 0 => T.root \in B  BY DEF InOrder, Joined
  <2> QED  BY <2>1, <2>2 DEF InOrder, Joined
<1>2. PICK lo, hi : Placed(T, B, lo, hi)  BY DEF InOrder
<1>3. Placed(R, B, lo, hi)  BY <1>2 DEF Placed
<1> QED  BY <1>1, <1>3 DEF InOrder

\* H[n] is what every path down from n weighs: W[n] at each node, and L[c][n]
\* where n has no child on side c.
Hung(T, L, H, c, n) == IF T.ch[c][n] # 0 THEN H[T.ch[c][n]] ELSE L[c][n]

Even(T, B, W, L, H) ==
  /\ W \in [RbNodes -> Nat] /\ H \in [RbNodes -> Nat]
  /\ L \in [Sides -> [RbNodes -> Nat]]
  /\ \A n \in B, c \in Sides : H[n] = W[n] + Hung(T, L, H, c, n)

\* The facts about neighbours that the steps below use.
LEMMA Neighbours ==
  ASSUME NEW T, NEW B, InOrder(T, B)
  PROVE  /\ T \in Trees /\ B \subseteq RbKeys /\ 0 \in RbNodes /\ 0 \notin B
         /\ \A n \in B : n # 0 /\ n \in RbNodes
         /\ T.root \in B \cup {0} /\ (T.root = 0 <=> B = {})
         /\ T.root # 0 => T.par[T.root] = 0
         /\ \A n \in B, c \in Sides :
              /\ T.ch[c][n] \in B \cup {0} /\ T.ch[c][n] # n
              /\ T.ch[c][n] # 0 =>
                   /\ T.ch[c][n] \in B /\ T.par[T.ch[c][n]] = n
                   /\ T.ch[c][n] # T.ch[Other(c)][n] /\ T.ch[c][n] # T.root
                   /\ T.par[n] # T.ch[c][n]
         /\ \A n \in B : n # T.root =>
              T.par[n] \in B /\ T.par[n] # n /\ \E c \in Sides : T.ch[c][T.par[n]] = n
<1>1. PICK lo, hi : Placed(T, B, lo, hi)  BY DEF InOrder
<1>2. Joined(T, B)  BY DEF InOrder
<1> DEFINE W(n) == hi[n] - lo[n]
<1>3. /\ B \subseteq RbKeys /\ 0 \in RbNodes /\ 0 \notin B /\ \A n \in B : n # 0 /\ n \in RbNodes
  BY <1>2, NodeFacts DEF Joined
<1>4. \A n \in B : W(n) \in Int  BY <1>1, <1>3, BoundFacts
<1>5. \A n \in B, c \in Sides : T.ch[c][n] # 0 => T.ch[c][n] \in B /\ W(T.ch[c][n]) < W(n)
  BY <1>1, <1>2, Narrower
<1> HIDE DEF W
<1>6. T.root # 0 => T.root \in B /\ T.par[T.root] = 0  BY <1>2 DEF Joined
<1>7. \A n \in B : n # T.root => T.par[n] \in B /\ \E c \in Sides : T.ch[c][T.par[n]] = n
  BY <1>2 DEF Joined
<1>8. \A n \in B : n # T.root => T.par[n] # 0 /\ W(n) < W(T.par[n])
  BY <1>3, <1>5, <1>7
<1>9. ASSUME NEW n \in B, NEW c \in Sides, T.ch[c][n] # 0
      PROVE  /\ T.ch[c][n] \in B /\ T.par[T.ch[c][n]] = n /\ T.ch[c][n] # n
             /\ T.ch[c][n] # T.ch[Other(c)][n] /\ T.ch[c][n] # T.root
             /\ T.par[n] # T.ch[c][n]
  <2>1. /\ T.ch[c][n] \in B /\ T.par[T.ch[c][n]] = n
        /\ T.ch[c][n] # T.ch[Other(c)][n] /\ T.ch[c][n] # T.root
    BY <1>9, <1>2, <1>5 DEF Joined
  <2>2. W(T.ch[c][n]) < W(n) /\ W(n) \in Int /\ W(T.ch[c][n]) \in Int  BY <1>9, <1>4, <1>5
  <2>3. T.ch[c][n] # n  BY <2>2
  <2>4. T.par[n] # T.ch[c][n]
    <3>1. n = T.root => T.par[n] = 0  BY <1>3, <1>6
    <3>2. n # T.root => W(n) < W(T.par[n])  BY <1>8
    <3> QED  BY <3>1, <3>2, <2>2, <1>9
  <2> QED  BY <2>1, <2>3, <2>4
<1>10. \A n \in B, c \in Sides : T.ch[c][n] \in B \cup {0}  BY <1>2 DEF Joined
<1>11. T \in Trees /\ T.root \in B \cup {0} /\ (T.root = 0 => B = {})  BY <1>2 DEF Joined
<1>12. \A n \in B : n # T.root => T.par[n] # n  BY <1>4, <1>8
<1> QED  BY <1>3, <1>6, <1>7, <1>9, <1>10, <1>11, <1>12

\* A rotation about a node without weight keeps every path's weight.
Turned(T, B, x, d, o, y, W, L, Q, W1, L1) ==
  /\ x \in B /\ d \in Sides /\ o = Other(d) /\ y = T.ch[o][x] /\ y # 0 /\ W[y] = 0
  /\ \A c \in Sides, n \in RbNodes :
       Q.ch[c][n] = IF n = x /\ c = o THEN T.ch[d][y]
                    ELSE IF n = y /\ c = d THEN x
                    ELSE IF n \in B /\ T.ch[c][n] = x THEN y ELSE T.ch[c][n]
  /\ W1 \in [RbNodes -> Nat] /\ L1 \in [Sides -> [RbNodes -> Nat]]
  /\ \A n \in B : W1[n] = IF n = x THEN 0 ELSE IF n = y THEN W[x] ELSE W[n]
  /\ \A n \in B, c \in Sides :
       Q.ch[c][n] = 0 => L1[c][n] = IF n = x /\ c = o THEN L[d][y] ELSE L[c][n]

\* Turning about a node without weight leaves the tree even.
LEMMA TurnEven ==
  ASSUME NEW T, NEW B, InOrder(T, B), NEW W, NEW L, NEW H, Even(T, B, W, L, H),
         NEW x, NEW d, NEW o, NEW y, NEW Q, NEW W1, NEW L1, Turned(T, B, x, d, o, y, W, L, Q, W1, L1)
  PROVE  \E H1 : Even(Q, B, W1, L1, H1)
<1> SUFFICES
      ASSUME x \in B, d \in Sides, o = Other(d), y = T.ch[o][x], y # 0, W[y] = 0,
             \A c \in Sides, n \in RbNodes :
               Q.ch[c][n] = IF n = x /\ c = o THEN T.ch[d][y]
                            ELSE IF n = y /\ c = d THEN x
                            ELSE IF n \in B /\ T.ch[c][n] = x THEN y ELSE T.ch[c][n],
             W1 \in [RbNodes -> Nat], L1 \in [Sides -> [RbNodes -> Nat]],
             \A n \in B : W1[n] = IF n = x THEN 0 ELSE IF n = y THEN W[x] ELSE W[n],
             \A n \in B, c \in Sides :
               Q.ch[c][n] = 0 => L1[c][n] = IF n = x /\ c = o THEN L[d][y] ELSE L[c][n]
      PROVE  \E H1 : Even(Q, B, W1, L1, H1)
  BY DEF Turned
<1> DEFINE b == T.ch[d][y]
           H1 == [H EXCEPT ![y] = H[x], ![x] = H[y]]
<1>1. /\ o \in Sides /\ o # d /\ \A c \in Sides : c = d \/ c = o
      /\ Other(d) = o /\ Other(o) = d
      /\ \A n \in B : n # 0 /\ n \in RbNodes
      /\ 0 \in RbNodes /\ 0 \notin B
  BY SideFacts, Neighbours
<1>j. \A n \in B, c \in Sides :
           /\ T.ch[c][n] \in B \cup {0} /\ T.ch[c][n] # n
           /\ T.ch[c][n] # 0 => T.par[T.ch[c][n]] = n /\ T.ch[c][n] # T.ch[Other(c)][n]
                                /\ T.par[n] # T.ch[c][n]
  BY Neighbours
<1>2. y \in B /\ T.par[y] = x /\ x # y /\ T.par[x] # y  BY <1>1, <1>j
<1>h. /\ H \in [RbNodes -> Nat] /\ W \in [RbNodes -> Nat] /\ L \in [Sides -> [RbNodes -> Nat]]
      /\ \A n \in B, c \in Sides : H[n] = W[n] + Hung(T, L, H, c, n)
  BY DEF Even
<1>i. /\ \A n \in RbNodes : H[n] \in Nat /\ W[n] \in Nat
      /\ \A n \in RbNodes, c \in Sides : L[c][n] \in Nat
  BY <1>h
<1>n. \A n \in B, c \in Sides : Hung(T, L, H, c, n) \in Nat
  BY <1>i, <1>j, <1>1 DEF Hung
<1>3. /\ H1 \in [RbNodes -> Nat]
      /\ \A n \in RbNodes : H1[n] = IF n = x THEN H[y] ELSE IF n = y THEN H[x] ELSE H[n]
  BY <1>h, <1>1, <1>2
<1> HIDE DEF H1
<1>b. b \in B \cup {0} /\ b # x /\ b # y  BY <1>j, <1>1, <1>2
<1>6. H[x] = W[x] + H[y]
  <2>1. H[x] = W[x] + Hung(T, L, H, o, x)  BY <1>h, <1>1
  <2> QED  BY <2>1 DEF Hung
<1>7. \A c \in Sides : Hung(T, L, H, c, y) = H[y]
  <2>1. \A c \in Sides : H[y] = 0 + Hung(T, L, H, c, y)  BY <1>h, <1>2
  <2> QED  BY <2>1, <1>n, <1>2
<1>8. Hung(T, L, H, d, x) = H[y]
  <2>1. H[x] = W[x] + Hung(T, L, H, d, x)  BY <1>h
  <2>2. Hung(T, L, H, d, x) \in Nat /\ W[x] \in Nat /\ H[y] \in Nat  BY <1>n, <1>i, <1>1, <1>2
  <2>3. PICK u, v, w : u = W[x] /\ v = Hung(T, L, H, d, x) /\ w = H[y]  OBVIOUS
  <2>4. u + v = u + w  BY <2>1, <2>3, <1>6
  <2>5. v = w  BY ONLY <2>2, <2>3, <2>4
  <2> QED  BY <2>3, <2>5
<1>9. ASSUME NEW n \in B, NEW c \in Sides
      PROVE  H1[n] = W1[n] + Hung(Q, L1, H1, c, n)
  <2>0. H[y] \in Nat /\ H[x] \in Nat /\ n \in RbNodes /\ x \in RbNodes /\ y \in RbNodes
    BY <1>i, <1>1, <1>2
  <2>1. CASE n = x /\ c = o
    <3>1. Q.ch[c][n] = b  BY <2>1, <2>0
    <3>2. Hung(Q, L1, H1, c, n) = Hung(T, L, H, d, y)
      <4>1. CASE b # 0
        <5>1. H1[b] = H[b]  BY <4>1, <1>b, <1>3, <1>1
        <5> QED  BY <3>1, <4>1, <5>1 DEF Hung
      <4>2. CASE b = 0
        <5>1. L1[c][n] = L[d][y]  BY <2>1, <3>1, <4>2
        <5> QED  BY <3>1, <4>2, <5>1 DEF Hung
      <4> QED  BY <4>1, <4>2
    <3>3. H1[n] = H[y] /\ W1[n] = 0  BY <2>0, <2>1, <1>3
    <3> QED  BY <3>2, <3>3, <1>7, <2>0
  <2>2. CASE n = x /\ c = d
    <3>1. T.ch[d][x] # x /\ T.ch[d][x] # y  BY <1>j, <1>1
    <3>2. Q.ch[c][n] = T.ch[d][x]  BY <2>0, <2>2, <3>1, <1>1, <1>2
    <3>3. Hung(Q, L1, H1, c, n) = Hung(T, L, H, d, x)
      <4>1. CASE T.ch[d][x] # 0
        <5>1. H1[T.ch[d][x]] = H[T.ch[d][x]]  BY <4>1, <3>1, <1>3, <1>j, <1>1
        <5> QED  BY <3>2, <4>1, <5>1 DEF Hung
      <4>2. CASE T.ch[d][x] = 0
        <5>1. L1[c][n] = L[d][x]  BY <2>2, <3>2, <4>2, <1>1
        <5> QED  BY <3>2, <4>2, <5>1 DEF Hung
      <4> QED  BY <4>1, <4>2
    <3>4. H1[n] = H[y] /\ W1[n] = 0  BY <2>0, <2>2, <1>3
    <3> QED  BY <3>3, <3>4, <1>8, <2>0
  <2>3. CASE n = y /\ c = d
    <3>1. Q.ch[c][n] = x  BY <2>0, <2>3, <1>1, <1>2
    <3>2. Hung(Q, L1, H1, c, n) = H[y]  BY <2>0, <3>1, <1>3, <1>1 DEF Hung
    <3>3. H1[n] = H[x] /\ W1[n] = W[x]  BY <2>0, <2>3, <1>3, <1>2
    <3> QED  BY <3>2, <3>3, <1>6
  <2>4. CASE n = y /\ c = o
    <3>1. T.ch[o][y] # x /\ T.ch[o][y] # y  BY <1>j, <1>1, <1>2
    <3>2. Q.ch[c][n] = T.ch[o][y]  BY <2>0, <2>4, <3>1, <1>1, <1>2
    <3>3. Hung(Q, L1, H1, c, n) = Hung(T, L, H, o, y)
      <4>1. CASE T.ch[o][y] # 0
        <5>1. H1[T.ch[o][y]] = H[T.ch[o][y]]  BY <4>1, <3>1, <1>3, <1>j, <1>1, <1>2
        <5> QED  BY <3>2, <4>1, <5>1 DEF Hung
      <4>2. CASE T.ch[o][y] = 0
        <5>1. L1[c][n] = L[o][y]  BY <2>4, <3>2, <4>2, <1>1, <1>2
        <5> QED  BY <3>2, <4>2, <5>1 DEF Hung
      <4> QED  BY <4>1, <4>2
    <3>4. Hung(T, L, H, o, y) = H[y]  BY <1>7, <1>1
    <3>5. H1[n] = H[x] /\ W1[n] = W[x]  BY <2>0, <2>4, <1>3, <1>2
    <3> QED  BY <3>3, <3>4, <3>5, <1>6
  <2>5. CASE n # x /\ n # y
    <3>1. H1[n] = H[n] /\ W1[n] = W[n]  BY <2>0, <2>5, <1>3
    <3>2. Hung(Q, L1, H1, c, n) = Hung(T, L, H, c, n)
      <4>1. CASE T.ch[c][n] = x
        <5>1. Q.ch[c][n] = y  BY <2>0, <4>1, <2>5
        <5> QED  BY <2>0, <4>1, <5>1, <1>3, <1>1, <1>2 DEF Hung
      <4>2. CASE T.ch[c][n] # x /\ T.ch[c][n] # 0
        <5>1. Q.ch[c][n] = T.ch[c][n]  BY <2>0, <4>2, <2>5
        <5>2. T.ch[c][n] # y  BY <2>5, <1>j, <1>2
        <5>3. H1[T.ch[c][n]] = H[T.ch[c][n]]  BY <4>2, <5>2, <1>3, <1>1, <1>j
        <5> QED  BY <4>2, <5>1, <5>3 DEF Hung
      <4>3. CASE T.ch[c][n] # x /\ T.ch[c][n] = 0
        <5>1. Q.ch[c][n] = 0  BY <2>0, <4>3, <2>5
        <5>2. L1[c][n] = L[c][n]  BY <2>5, <5>1
        <5> QED  BY <4>3, <5>1, <5>2 DEF Hung
      <4> QED  BY <4>1, <4>2, <4>3
    <3> QED  BY <3>1, <3>2, <1>h
  <2> QED  BY <2>1, <2>2, <2>3, <2>4, <2>5, <1>1
<1>10. Even(Q, B, W1, L1, H1)  BY <1>9, <1>3 DEF Even
<1> QED  BY <1>10

\* Weight may move between a node and both its children.
Shifted(T, B, q, t, W, L, W1, L1) ==
  /\ W1 \in [RbNodes -> Nat] /\ L1 \in [Sides -> [RbNodes -> Nat]]
  /\ q \in B /\ t \in {1, -1}
  /\ \A n \in B : W1[n] = IF n = q THEN W[n] + t
                          ELSE IF n # T.root /\ T.par[n] = q THEN W[n] - t ELSE W[n]
  /\ \A n \in B, c \in Sides :
       T.ch[c][n] = 0 => L1[c][n] = IF n = q THEN L[c][n] - t ELSE L[c][n]

\* So does moving weight from a node to both of its children, or back.
LEMMA ShiftEven ==
  ASSUME NEW T, NEW B, InOrder(T, B), NEW W, NEW L, NEW H, Even(T, B, W, L, H),
         NEW q, NEW t, NEW W1, NEW L1, Shifted(T, B, q, t, W, L, W1, L1)
  PROVE  \E H1 : Even(T, B, W1, L1, H1)
<1>s. /\ W1 \in [RbNodes -> Nat] /\ L1 \in [Sides -> [RbNodes -> Nat]] /\ q \in B /\ t \in {1, -1}
      /\ \A n \in B : W1[n] = IF n = q THEN W[n] + t
                              ELSE IF n # T.root /\ T.par[n] = q THEN W[n] - t ELSE W[n]
      /\ \A n \in B, c \in Sides :
           T.ch[c][n] = 0 => L1[c][n] = IF n = q THEN L[c][n] - t ELSE L[c][n]
  BY DEF Shifted
<1>t. t \in Int  BY <1>s
<1> DEFINE H1 == [n \in RbNodes |-> IF n \in B /\ n # T.root /\ T.par[n] = q THEN H[n] - t ELSE H[n]]
<1>1. /\ \A n \in B : n # 0 /\ n \in RbNodes
      /\ 0 \in RbNodes /\ 0 \notin B
  BY Neighbours
<1>j. \A n \in B, c \in Sides :
           /\ T.ch[c][n] \in B \cup {0} /\ T.ch[c][n] # n
           /\ T.ch[c][n] # 0 => T.par[T.ch[c][n]] = n /\ T.ch[c][n] # T.root
  BY Neighbours
<1>q. q = T.root \/ T.par[q] # q  BY <1>s, Neighbours
<1>h. /\ H \in [RbNodes -> Nat] /\ W \in [RbNodes -> Nat] /\ L \in [Sides -> [RbNodes -> Nat]]
      /\ \A n \in B, c \in Sides : H[n] = W[n] + Hung(T, L, H, c, n)
  BY DEF Even
<1>i. /\ \A n \in RbNodes : H[n] \in Nat /\ W[n] \in Nat /\ W1[n] \in Nat
      /\ \A n \in RbNodes, c \in Sides : L[c][n] \in Nat /\ L1[c][n] \in Nat
  BY <1>h, <1>s
<1>n. \A n \in B, c \in Sides : Hung(T, L, H, c, n) \in Nat
  BY <1>i, <1>j, <1>1 DEF Hung
<1>3. /\ H1 \in [RbNodes -> Nat]
      /\ \A n \in B : H1[n] = IF n # T.root /\ T.par[n] = q THEN H[n] - t ELSE H[n]
  <2>1. ASSUME NEW n \in B, n # T.root, T.par[n] = q PROVE H[n] - t \in Nat
    <3>1. W1[n] = W[n] - t  BY <2>1, <1>q, <1>s
    <3>2. H[n] = W[n] + Hung(T, L, H, "l", n)  BY <1>h, SideFacts
    <3>3. W[n] \in Nat /\ W1[n] \in Nat /\ Hung(T, L, H, "l", n) \in Nat  BY <1>i, <1>n, <1>1, SideFacts
    <3> QED  BY <3>1, <3>2, <3>3, <1>s
  <2> QED  BY <2>1, <1>h, <1>1, <1>s
<1> HIDE DEF H1
<1>9. ASSUME NEW n \in B, NEW c \in Sides
      PROVE  H1[n] = W1[n] + Hung(T, L1, H1, c, n)
  <2>0. /\ H[n] = W[n] + Hung(T, L, H, c, n) /\ H[n] \in Nat /\ W[n] \in Nat
        /\ Hung(T, L, H, c, n) \in Nat
    BY <1>h, <1>i, <1>n, <1>1
  <2>1. CASE n = q
    <3>1. H1[n] = H[n] /\ W1[n] = W[n] + t  BY <2>1, <1>3, <1>q, <1>s
    <3>2. Hung(T, L1, H1, c, n) = Hung(T, L, H, c, n) - t
      <4>1. CASE T.ch[c][n] # 0
        <5>1. H1[T.ch[c][n]] = H[T.ch[c][n]] - t  BY <4>1, <2>1, <1>3, <1>j
        <5> QED  BY <4>1, <5>1 DEF Hung
      <4>2. CASE T.ch[c][n] = 0
        <5>1. L1[c][n] = L[c][n] - t  BY <4>2, <2>1, <1>s
        <5> QED  BY <4>2, <5>1 DEF Hung
      <4> QED  BY <4>1, <4>2
    <3> QED  BY <3>1, <3>2, <2>0, <1>t
  <2>2. CASE n # q
    <3>2. Hung(T, L1, H1, c, n) = Hung(T, L, H, c, n)
      <4>1. CASE T.ch[c][n] # 0
        <5>1. H1[T.ch[c][n]] = H[T.ch[c][n]]  BY <4>1, <2>2, <1>3, <1>j
        <5> QED  BY <4>1, <5>1 DEF Hung
      <4>2. CASE T.ch[c][n] = 0
        <5>1. L1[c][n] = L[c][n]  BY <4>2, <2>2, <1>s
        <5> QED  BY <4>2, <5>1 DEF Hung
      <4> QED  BY <4>1, <4>2
    <3>3. CASE n # T.root /\ T.par[n] = q
      <4>1. H1[n] = H[n] - t /\ W1[n] = W[n] - t  BY <3>3, <2>2, <1>3, <1>s
      <4> QED  BY <4>1, <3>2, <2>0, <1>t
    <3>4. CASE ~(n # T.root /\ T.par[n] = q)
      <4>1. H1[n] = H[n] /\ W1[n] = W[n]  BY <3>4, <2>2, <1>3, <1>s
      <4> QED  BY <4>1, <3>2, <2>0, <1>t
    <3> QED  BY <3>3, <3>4
  <2> QED  BY <2>1, <2>2
<1>10. Even(T, B, W1, L1, H1)  BY <1>9, <1>3, <1>s DEF Even
<1> QED  BY <1>10

\* The root's weight is free: every path has it.
LEMMA RootEven ==
  ASSUME NEW T, NEW B, InOrder(T, B), NEW W, NEW L, NEW H, Even(T, B, W, L, H),
         NEW W1 \in [RbNodes -> Nat], NEW L1 \in [Sides -> [RbNodes -> Nat]],
         \A n \in B : n # T.root => W1[n] = W[n],
         \A n \in B, c \in Sides : T.ch[c][n] = 0 => L1[c][n] = L[c][n]
  PROVE  \E H1 : Even(T, B, W1, L1, H1)
<1> DEFINE H1 == [H EXCEPT ![T.root] = W1[T.root] + (H[T.root] - W[T.root])]
<1>1. /\ \A n \in B : n # 0 /\ n \in RbNodes
      /\ 0 \in RbNodes /\ 0 \notin B
      /\ T.root \in B \cup {0} /\ (T.root = 0 => B = {})
  BY Neighbours
<1>j. \A n \in B, c \in Sides :
           /\ T.ch[c][n] \in B \cup {0}
           /\ T.ch[c][n] # 0 => T.ch[c][n] # T.root
  BY Neighbours
<1>h. /\ H \in [RbNodes -> Nat] /\ W \in [RbNodes -> Nat] /\ L \in [Sides -> [RbNodes -> Nat]]
      /\ \A n \in B, c \in Sides : H[n] = W[n] + Hung(T, L, H, c, n)
  BY DEF Even
<1>2. CASE T.root = 0
  BY <1>2, <1>1, <1>h DEF Even
<1>3. CASE T.root # 0
  <2>i. /\ \A n \in RbNodes : H[n] \in Nat /\ W[n] \in Nat /\ W1[n] \in Nat
        /\ \A n \in RbNodes, c \in Sides : L[c][n] \in Nat /\ L1[c][n] \in Nat
    BY <1>h
  <2>n. \A n \in B, c \in Sides : Hung(T, L, H, c, n) \in Nat
    BY <2>i, <1>j, <1>1 DEF Hung
  <2>1. H[T.root] - W[T.root] \in Nat
    <3>1. T.root \in B  BY <1>3, <1>1
    <3>2. H[T.root] = W[T.root] + Hung(T, L, H, "l", T.root)  BY <3>1, <1>h, SideFacts
    <3>3. W[T.root] \in Nat /\ Hung(T, L, H, "l", T.root) \in Nat  BY <3>1, <2>i, <2>n, <1>1, SideFacts
    <3> QED  BY <3>2, <3>3
  <2>2. /\ H1 \in [RbNodes -> Nat]
        /\ \A n \in RbNodes : H1[n] = IF n = T.root THEN W1[n] + (H[n] - W[n]) ELSE H[n]
    <3>1. T.root \in RbNodes /\ W1[T.root] \in Nat  BY <1>1, <1>3, <2>i
    <3> QED  BY <3>1, <2>1, <1>h
  <2> HIDE DEF H1
  <2>3. ASSUME NEW n \in B, NEW c \in Sides
        PROVE  H1[n] = W1[n] + Hung(T, L1, H1, c, n)
    <3>0. /\ H[n] = W[n] + Hung(T, L, H, c, n) /\ H[n] \in Nat /\ W[n] \in Nat /\ W1[n] \in Nat
          /\ Hung(T, L, H, c, n) \in Nat /\ n \in RbNodes
      BY <1>h, <2>i, <2>n, <1>1
    <3>1. Hung(T, L1, H1, c, n) = Hung(T, L, H, c, n)
      <4>1. CASE T.ch[c][n] # 0
        <5>1. H1[T.ch[c][n]] = H[T.ch[c][n]]  BY <4>1, <2>2, <1>j, <1>1
        <5> QED  BY <4>1, <5>1 DEF Hung
      <4>2. CASE T.ch[c][n] = 0
        BY <4>2 DEF Hung
      <4> QED  BY <4>1, <4>2
    <3>2. H1[n] = W1[n] + (H[n] - W[n])
      <4>1. CASE n = T.root  BY <4>1, <2>2, <3>0
      <4>2. CASE n # T.root
        <5>1. H1[n] = H[n] /\ W1[n] = W[n]  BY <4>2, <2>2, <3>0
        <5> QED  BY <5>1, <3>0
      <4> QED  BY <4>1, <4>2
    <3> QED  BY <3>0, <3>1, <3>2
  <2>4. Even(T, B, W1, L1, H1)  BY <2>2, <2>3 DEF Even
  <2> QED  BY <2>4
<1> QED  BY <1>2, <1>3

\* T with the colours f.
Painted(T, f) == [T EXCEPT !.red = f]

\* Painting changes only the colours.
LEMMA PaintIs ==
  ASSUME NEW T \in Trees, NEW f \in [RbNodes -> BOOLEAN]
  PROVE  /\ Painted(T, f) \in Trees /\ Painted(T, f).red = f
         /\ Painted(T, f).root = T.root /\ Painted(T, f).ch = T.ch /\ Painted(T, f).par = T.par
BY DEF Painted, Trees

\* A rotation of T once it is painted.
LEMMA TurnIs ==
  ASSUME NEW T, NEW B, InOrder(T, B), NEW C \in Trees,
         C.root = T.root, C.ch = T.ch, C.par = T.par,
         NEW x \in B, NEW d \in Sides, NEW o, o = Other(d), NEW y, y = T.ch[o][x], y # 0,
         NEW Q, Q = Rotate(C, x, d)
  PROVE  /\ InOrder(Q, B) /\ Q.red = C.red
         /\ Q.root = IF x = T.root THEN y ELSE T.root
         /\ \A c \in Sides, n \in RbNodes :
              Q.ch[c][n] = IF n = x /\ c = o THEN T.ch[d][y]
                           ELSE IF n = y /\ c = d THEN x
                           ELSE IF n \in B /\ T.ch[c][n] = x THEN y ELSE T.ch[c][n]
         /\ \A n \in RbNodes :
              Q.par[n] = IF n = x THEN y ELSE IF n = y THEN T.par[x]
                         ELSE IF n = T.ch[d][y] /\ T.ch[d][y] # 0 THEN x ELSE T.par[n]
<1>1. InOrder(C, B)  BY PaintKeeps
<1>2. InOrder(Q, B) /\ C.par[x] # C.ch[o][x]  BY <1>1, RotateKeeps
<1>3. Joined(C, B)  BY <1>1 DEF InOrder
<1>4. y = C.ch[Other(d)][x] /\ T.ch[d][y] = C.ch[d][y]  OBVIOUS
<1>5. /\ Q.red = C.red
      /\ Q.root = IF x = C.root THEN y ELSE C.root
      /\ \A c \in Sides, n \in RbNodes :
           Q.ch[c][n] = IF n = x /\ c = Other(d) THEN C.ch[d][y]
                        ELSE IF n = y /\ c = d THEN x
                        ELSE IF n \in B /\ C.ch[c][n] = x THEN y ELSE C.ch[c][n]
      /\ \A n \in RbNodes :
           Q.par[n] = IF n = x THEN y ELSE IF n = y THEN C.par[x]
                      ELSE IF n = C.ch[d][y] /\ C.ch[d][y] # 0 THEN x ELSE C.par[n]
  BY <1>2, <1>3, <1>4, RotateIs
<1> QED  BY <1>2, <1>5

-----------------------------------------------------------------------------

\* A black node weighs one, the node e one more: also when e is the sentinel
\* on side d of p.  No node is NoNode.
NoNode == -1
Wt(T, e) == [n \in RbNodes |-> (IF T.red[n] THEN 0 ELSE 1) + (IF e = n THEN 1 ELSE 0)]
Lf(e, p, d) == [c \in Sides |-> [n \in RbNodes |-> IF e = 0 /\ n = p /\ c = d THEN 1 ELSE 0]]

Balanced(T, B, e, p, d) == \E H : Even(T, B, Wt(T, e), Lf(e, p, d), H)

\* A red root, or a red node below a red one.
Bad(T, n) == T.red[n] /\ (n = T.root \/ T.red[T.par[n]])

\* The weight of a node, case by case.
LEMMA WtIs ==
  ASSUME NEW T \in Trees, NEW e
  PROVE  /\ Wt(T, e) \in [RbNodes -> Nat]
         /\ \A n \in RbNodes :
              Wt(T, e)[n] = IF T.red[n] THEN IF e = n THEN 1 ELSE 0 ELSE IF e = n THEN 2 ELSE 1
BY DEF Wt

\* The weight of a missing child, case by case.
LEMMA LfIs ==
  ASSUME NEW e, NEW p, NEW d
  PROVE  /\ Lf(e, p, d) \in [Sides -> [RbNodes -> Nat]]
         /\ \A c \in Sides, n \in RbNodes :
              Lf(e, p, d)[c][n] = IF e = 0 /\ n = p /\ c = d THEN 1 ELSE 0
BY DEF Lf

\* What is below g: only its two children.
LEMMA TwoChildren ==
  ASSUME NEW T, NEW B, InOrder(T, B), NEW g \in B, NEW d \in Sides, NEW n \in B,
         n # T.root, T.par[n] = g
  PROVE  n = T.ch[d][g] \/ n = T.ch[Other(d)][g]
<1>1. PICK c \in Sides : T.ch[c][g] = n  BY Neighbours
<1> QED  BY <1>1, SideFacts

\* No node is both red and the root, or red below red, but for z.
BadOnly(T, B, z) == \A n \in B : Bad(T, n) => n = z

\* Between two steps of an insertion.
Inserting(T, B, z) ==
  /\ InOrder(T, B) /\ Balanced(T, B, NoNode, 0, "l") /\ BadOnly(T, B, z)
  /\ z \in B /\ T.red[z] /\ ~T.red[0]

\* The red z is below the red p, which is on side d of g.
RedPair(T, B, z, p, g, d) ==
  /\ Inserting(T, B, z)
  /\ d \in Sides /\ p \in B /\ g \in B
  /\ T.par[z] = p /\ T.par[p] = g /\ T.ch[d][g] = p
  /\ T.red[p] /\ ~T.red[g] /\ p # z /\ p # T.root /\ z # T.root

\* The first case of rbtree_insert_fixup: the black of g goes to its children.
LEMMA RecolorKeeps ==
  ASSUME NEW T, NEW B, NEW z, NEW p, NEW g, NEW d, RedPair(T, B, z, p, g, d),
         T.red[T.ch[Other(d)][g]]
  PROVE  Inserting(Recolored(T, p, T.ch[Other(d)][g], g), B, g)
<1> DEFINE o == Other(d)
           y == T.ch[o][g]
           Q == Recolored(T, p, y, g)
           W == Wt(T, NoNode)
           W1 == Wt(Q, NoNode)
           L == Lf(NoNode, 0, "l")
<1>a. InOrder(T, B) /\ Balanced(T, B, NoNode, 0, "l") /\ BadOnly(T, B, z)
  BY DEF RedPair, Inserting
<1>b. /\ z \in B /\ p \in B /\ g \in B /\ T.ch[d][g] = p /\ T.par[z] = p /\ T.par[p] = g
      /\ T.red[p] /\ T.red[y] /\ ~T.red[g] /\ ~T.red[0] /\ p # T.root /\ z # T.root
  BY DEF RedPair, Inserting
<1>s. d \in Sides /\ o \in Sides /\ o # d /\ Other(d) = o /\ Other(o) = d /\ \A c \in Sides : c = d \/ c = o
  BY SideFacts DEF RedPair
<1>0. T \in Trees /\ 0 \in RbNodes /\ \A n \in B : n # 0 /\ n \in RbNodes  BY <1>a, Neighbours
<1> HIDE DEF o
<1>1. y \in B /\ T.par[y] = g /\ p # y /\ y # T.root /\ y # g /\ p # g
  <2>1. y # 0  BY <1>b
  <2>2. T.ch[o][g] # 0 => /\ T.ch[o][g] \in B /\ T.par[T.ch[o][g]] = g
                          /\ T.ch[o][g] # T.ch[Other(o)][g] /\ T.ch[o][g] # T.root
    BY <1>a, <1>b, <1>s, Neighbours
  <2> QED  BY <2>1, <2>2, <1>b, <1>s
<1>5. \A n \in B : n # T.root /\ T.par[n] = g => n = p \/ n = y
  BY <1>a, <1>b, <1>s, TwoChildren
<1>10. \A c \in Sides : T.ch[c][g] # 0  BY <1>0, <1>1, <1>b, <1>s
<1> HIDE DEF y
<1>2. /\ Q \in Trees /\ Q.root = T.root /\ Q.ch = T.ch /\ Q.par = T.par
      /\ \A n \in RbNodes : Q.red[n] <=> (n = g \/ (n # p /\ n # y /\ T.red[n]))
  <2> DEFINE f == [T.red EXCEPT ![p] = FALSE, ![y] = FALSE, ![g] = TRUE]
  <2>1. T.red \in [RbNodes -> BOOLEAN]  BY <1>0 DEF Trees
  <2>2. Q = Painted(T, f)  BY <1>0 DEF Recolored, Painted, Trees
  <2>3. f \in [RbNodes -> BOOLEAN]  BY <2>1
  <2>4. \A n \in RbNodes : f[n] <=> (n = g \/ (n # p /\ n # y /\ T.red[n]))
    BY <2>1, <1>0, <1>1, <1>b
  <2> HIDE DEF f, Q
  <2>5. Q.red = f /\ Q \in Trees /\ Q.root = T.root /\ Q.ch = T.ch /\ Q.par = T.par
    BY <2>2, <2>3, <1>0, PaintIs
  <2> QED  BY <2>4, <2>5
<1> HIDE DEF Q
<1>3. InOrder(Q, B)  BY <1>a, <1>2, PaintKeeps
<1>6. \A n \in RbNodes : n # NoNode  BY NodeFacts DEF NoNode
<1>7. /\ W1 \in [RbNodes -> Nat] /\ L \in [Sides -> [RbNodes -> Nat]]
      /\ \A n \in RbNodes : W1[n] = IF Q.red[n] THEN 0 ELSE 1
      /\ \A n \in RbNodes : W[n] = IF T.red[n] THEN 0 ELSE 1
  <2>1. L \in [Sides -> [RbNodes -> Nat]]  BY LfIs
  <2>2. W1 \in [RbNodes -> Nat] /\ \A n \in RbNodes : W1[n] = IF Q.red[n] THEN 0 ELSE 1
    BY <1>2, <1>6, WtIs
  <2>3. \A n \in RbNodes : W[n] = IF T.red[n] THEN 0 ELSE 1
    BY <1>0, <1>6, WtIs
  <2> QED  BY <2>1, <2>2, <2>3
<1>4. PICK H : Even(T, B, W, L, H)  BY <1>a DEF Balanced
<1> HIDE DEF W, W1, L
<1>9. ASSUME NEW n \in B
      PROVE  W1[n] = IF n = g THEN W[n] + (-1)
                     ELSE IF n # T.root /\ T.par[n] = g THEN W[n] - (-1) ELSE W[n]
  <2>1. CASE n = g
    <3>1. W1[n] = 0 /\ W[n] = 1  BY <2>1, <1>0, <1>2, <1>7, <1>b
    <3> QED  BY <2>1, <3>1
  <2>2. CASE n \in {p, y}
    <3>1. W1[n] = 1 /\ W[n] = 0  BY <2>2, <1>0, <1>1, <1>2, <1>7, <1>b
    <3>2. n # g /\ n # T.root /\ T.par[n] = g  BY <2>2, <1>1, <1>b
    <3> QED  BY <3>1, <3>2
  <2>3. CASE n \notin {g, p, y}
    <3>1. W1[n] = W[n]  BY <2>3, <1>0, <1>2, <1>7
    <3> QED  BY <2>3, <3>1, <1>5
  <2> QED  BY <2>1, <2>2, <2>3
<1>11. \E H1 : Even(T, B, W1, L, H1)
  <2>2. \A n \in B, c \in Sides : T.ch[c][n] = 0 => L[c][n] = IF n = g THEN L[c][n] - (-1) ELSE L[c][n]
    BY <1>10
  <2>3. Shifted(T, B, g, -1, W, L, W1, L)  BY <2>2, <1>b, <1>7, <1>9 DEF Shifted
  <2> QED  BY <2>3, <1>a, <1>4, ShiftEven
<1>12. Balanced(Q, B, NoNode, 0, "l")
  <2>1. PICK H1 : Even(T, B, W1, L, H1)  BY <1>11
  <2>2. Even(Q, B, W1, L, H1)  BY <2>1, <1>2 DEF Even, Hung
  <2> QED  BY <2>2 DEF Balanced, W1, L
<1>13. BadOnly(Q, B, g)
  <2> SUFFICES ASSUME NEW n \in B, Bad(Q, n), n # g PROVE FALSE  BY DEF BadOnly
  <2>1. n \in RbNodes /\ n # y /\ n # p /\ T.red[n] /\ (n = T.root \/ Q.red[T.par[n]])
    BY <1>0, <1>1, <1>2 DEF Bad
  <2>2. Bad(T, n) => n = z  BY <1>a DEF BadOnly
  <2>3. CASE n = T.root  BY <2>1, <2>2, <2>3, <1>b DEF Bad
  <2>4. CASE n # T.root
    <3>1. T.par[n] \in B /\ T.par[n] # g  BY <2>1, <2>4, <1>a, <1>5, Neighbours
    <3>2. T.red[T.par[n]] /\ T.par[n] # p  BY <2>1, <2>4, <3>1, <1>0, <1>2
    <3> QED  BY <2>1, <2>2, <3>2, <1>b DEF Bad
  <2> QED  BY <2>3, <2>4
<1>14. ~Q.red[0] /\ Q.red[g]  BY <1>0, <1>1, <1>2, <1>b
<1>15. Inserting(Q, B, g)  BY <1>3, <1>12, <1>13, <1>14, <1>b DEF Inserting
<1> QED  BY <1>15 DEF Q, y, o

\* Without an extra black, every node weighs its colour and a leaf nothing.
LEMMA Plain ==
  ASSUME NEW T \in Trees
  PROVE  /\ Wt(T, NoNode) \in [RbNodes -> Nat] /\ Lf(NoNode, 0, "l") \in [Sides -> [RbNodes -> Nat]]
         /\ \A n \in RbNodes : Wt(T, NoNode)[n] = IF T.red[n] THEN 0 ELSE 1
         /\ \A c \in Sides, n \in RbNodes : Lf(NoNode, 0, "l")[c][n] = 0
<1>1. NoNode # 0 /\ \A n \in RbNodes : n # NoNode  BY NodeFacts DEF NoNode
<1>2. Wt(T, NoNode) \in [RbNodes -> Nat] /\ \A n \in RbNodes : Wt(T, NoNode)[n] = IF T.red[n] THEN 0 ELSE 1
  BY <1>1, WtIs
<1>3. /\ Lf(NoNode, 0, "l") \in [Sides -> [RbNodes -> Nat]]
      /\ \A c \in Sides, n \in RbNodes : Lf(NoNode, 0, "l")[c][n] = 0
  BY <1>1, LfIs
<1> QED  BY <1>2, <1>3

\* The second case: z is rotated above p.
LEMMA InnerTurn ==
  ASSUME NEW T, NEW B, NEW z, NEW p, NEW g, NEW d, RedPair(T, B, z, p, g, d),
         z = T.ch[Other(d)][p]
  PROVE  LET T1 == Rotate(T, p, d)
         IN  /\ RedPair(T1, B, p, z, g, d) /\ T1.ch[d][z] = p /\ T1.red = T.red
             /\ T1.ch[Other(d)][g] = T.ch[Other(d)][g]
<1> DEFINE o == Other(d)
           Q == Rotate(T, p, d)
           b == T.ch[d][z]
           W == Wt(T, NoNode)
           W1 == Wt(Q, NoNode)
           L == Lf(NoNode, 0, "l")
<1>a. InOrder(T, B) /\ Balanced(T, B, NoNode, 0, "l") /\ BadOnly(T, B, z)
  BY DEF RedPair, Inserting
<1>b. /\ z \in B /\ p \in B /\ g \in B /\ T.ch[d][g] = p /\ T.par[z] = p /\ T.par[p] = g
      /\ T.red[z] /\ T.red[p] /\ ~T.red[g] /\ ~T.red[0] /\ p # T.root /\ z # T.root /\ z = T.ch[o][p]
      /\ p # z
  BY DEF RedPair, Inserting
<1>s. d \in Sides /\ o \in Sides /\ o # d /\ Other(d) = o /\ Other(o) = d /\ \A c \in Sides : c = d \/ c = o
  BY SideFacts DEF RedPair
<1>0. T \in Trees /\ 0 \in RbNodes /\ \A n \in B : n # 0 /\ n \in RbNodes  BY <1>a, Neighbours
<1>1. g # p /\ g # z /\ T.ch[o][g] # p /\ T.par[g] # p
  <2>1. T.ch[d][g] # 0 => T.ch[d][g] # T.ch[Other(d)][g] /\ T.par[g] # T.ch[d][g]
    BY <1>a, <1>b, <1>s, Neighbours
  <2> QED  BY <2>1, <1>b, <1>s, <1>0
<1> HIDE DEF o
<1>2. /\ InOrder(Q, B) /\ Q.red = T.red
      /\ Q.root = IF p = T.root THEN z ELSE T.root
      /\ \A c \in Sides, n \in RbNodes :
           Q.ch[c][n] = IF n = p /\ c = o THEN T.ch[d][z]
                        ELSE IF n = z /\ c = d THEN p
                        ELSE IF n \in B /\ T.ch[c][n] = p THEN z ELSE T.ch[c][n]
      /\ \A n \in RbNodes :
           Q.par[n] = IF n = p THEN z ELSE IF n = z THEN T.par[p]
                      ELSE IF n = T.ch[d][z] /\ T.ch[d][z] # 0 THEN p ELSE T.par[n]
  BY <1>a, <1>b, <1>s, <1>0, TurnIs
<1>q. Q \in Trees  BY <1>2, Neighbours
<1> HIDE DEF Q
<1>3. Q.root = T.root /\ Q.ch[d][z] = p /\ Q.ch[d][g] = z /\ Q.ch[o][g] = T.ch[o][g]
  BY <1>2, <1>0, <1>1, <1>b, <1>s
<1>4. Q.par[p] = z /\ Q.par[z] = g  BY <1>2, <1>0, <1>b
<1>5. Balanced(Q, B, NoNode, 0, "l")
  <2>1. PICK H : Even(T, B, W, L, H)  BY <1>a DEF Balanced
  <2>2. /\ W1 \in [RbNodes -> Nat] /\ L \in [Sides -> [RbNodes -> Nat]]
        /\ \A n \in RbNodes : W1[n] = IF Q.red[n] THEN 0 ELSE 1
        /\ \A n \in RbNodes : W[n] = IF T.red[n] THEN 0 ELSE 1
        /\ \A c \in Sides, n \in RbNodes : L[c][n] = 0
    BY <1>q, <1>0, Plain
  <2> HIDE DEF W, W1, L
  <2>3. W[z] = 0 /\ \A n \in B : W1[n] = IF n = p THEN 0 ELSE IF n = z THEN W[p] ELSE W[n]
    BY <2>2, <1>2, <1>0, <1>b
  <2>4. \A n \in B, c \in Sides :
          Q.ch[c][n] = 0 => L[c][n] = IF n = p /\ c = o THEN L[d][z] ELSE L[c][n]
    BY <2>2, <1>0, <1>b, <1>s
  <2>5. Turned(T, B, p, d, o, z, W, L, Q, W1, L)
    BY <2>2, <2>3, <2>4, <1>2, <1>0, <1>b, <1>s DEF Turned
  <2>6. \E H1 : Even(Q, B, W1, L, H1)  BY <2>1, <2>5, <1>a, TurnEven
  <2> QED  BY <2>6 DEF Balanced, W1, L
<1>6. BadOnly(Q, B, p)
  <2> SUFFICES ASSUME NEW n \in B, Bad(Q, n), n # p PROVE FALSE  BY DEF BadOnly
  <2>1. n \in RbNodes /\ T.red[n] /\ (n = T.root \/ T.red[Q.par[n]])
    BY <1>0, <1>2, <1>3 DEF Bad
  <2>2. Bad(T, n) => n = z  BY <1>a DEF BadOnly
  <2>3. n # T.root  BY <2>1, <2>2, <1>b DEF Bad
  <2>4. n # z  BY <2>1, <2>3, <1>4, <1>b
  <2>5. CASE n = T.ch[d][z]
    <3>1. T.par[n] = z  BY <2>5, <1>a, <1>b, <1>s, <1>0, Neighbours
    <3> QED  BY <3>1, <2>1, <2>2, <2>4, <1>b DEF Bad
  <2>6. CASE n # T.ch[d][z]
    <3>1. Q.par[n] = T.par[n]  BY <2>1, <2>4, <2>6, <1>2
    <3> QED  BY <3>1, <2>1, <2>2, <2>4 DEF Bad
  <2> QED  BY <2>5, <2>6
<1>7. Inserting(Q, B, p)  BY <1>2, <1>5, <1>6, <1>b DEF Inserting
<1>8. RedPair(Q, B, p, z, g, d)  BY <1>7, <1>2, <1>3, <1>4, <1>b, <1>s DEF RedPair
<1> QED  BY <1>2, <1>3, <1>8 DEF Q, o

\* The third case: p is rotated above g, and takes its colour.
Raised(T, p, g, d) == Rotate([T EXCEPT !.red[p] = FALSE, !.red[g] = TRUE], g, Other(d))

\* It ends the repair of an insertion.
LEMMA OuterTurn ==
  ASSUME NEW T, NEW B, NEW z, NEW p, NEW g, NEW d, RedPair(T, B, z, p, g, d),
         T.ch[d][p] = z, ~T.red[T.ch[Other(d)][g]]
  PROVE  Inserting(Raised(T, p, g, d), B, z)
<1> DEFINE o == Other(d)
           y == T.ch[o][g]
           b == T.ch[o][p]
           C == [T EXCEPT !.red[p] = FALSE, !.red[g] = TRUE]
           Q == Rotate(C, g, o)
           W == Wt(T, NoNode)
           W1 == Wt(Q, NoNode)
           L == Lf(NoNode, 0, "l")
<1>a. InOrder(T, B) /\ Balanced(T, B, NoNode, 0, "l") /\ BadOnly(T, B, z)
  BY DEF RedPair, Inserting
<1>b. /\ z \in B /\ p \in B /\ g \in B /\ T.ch[d][g] = p /\ T.par[z] = p /\ T.par[p] = g
      /\ T.red[z] /\ T.red[p] /\ ~T.red[g] /\ ~T.red[0] /\ p # T.root /\ z # T.root
      /\ p # z /\ T.ch[d][p] = z /\ ~T.red[y]
  BY DEF RedPair, Inserting
<1>s. d \in Sides /\ o \in Sides /\ o # d /\ Other(d) = o /\ Other(o) = d /\ \A c \in Sides : c = d \/ c = o
  BY SideFacts DEF RedPair
<1>0. T \in Trees /\ 0 \in RbNodes /\ \A n \in B : n # 0 /\ n \in RbNodes  BY <1>a, Neighbours
<1> HIDE DEF o
<1>1. /\ g # p /\ z # g
      /\ b # 0 => T.par[b] = p /\ b # z /\ b # p /\ b # g
  <2>1. b # 0 => T.par[b] = p /\ b # T.ch[Other(o)][p] /\ T.par[p] # b /\ b # p
    BY <1>a, <1>b, <1>s, Neighbours
  <2> QED  BY <2>1, <1>b, <1>s, <1>0
<1>5. \A n \in B : n # T.root /\ T.par[n] = g => n = p \/ n = y
  BY <1>a, <1>b, <1>s, TwoChildren
<1>c. /\ C \in Trees /\ C.root = T.root /\ C.ch = T.ch /\ C.par = T.par
      /\ \A n \in RbNodes : C.red[n] <=> (n = g \/ (n # p /\ T.red[n]))
  <2> DEFINE f == [T.red EXCEPT ![p] = FALSE, ![g] = TRUE]
  <2>1. T.red \in [RbNodes -> BOOLEAN]  BY <1>0 DEF Trees
  <2>2. C = Painted(T, f)  BY <1>0 DEF Painted, Trees
  <2>3. f \in [RbNodes -> BOOLEAN]  BY <2>1
  <2>4. \A n \in RbNodes : f[n] <=> (n = g \/ (n # p /\ T.red[n]))
    BY <2>1, <1>0, <1>1, <1>b
  <2> HIDE DEF f, C
  <2>5. C.red = f /\ C \in Trees /\ C.root = T.root /\ C.ch = T.ch /\ C.par = T.par
    BY <2>2, <2>3, <1>0, PaintIs
  <2> QED  BY <2>4, <2>5
<1> HIDE DEF C, y, b
<1>2. /\ InOrder(Q, B) /\ Q.red = C.red
      /\ Q.root = IF g = T.root THEN p ELSE T.root
      /\ \A c \in Sides, n \in RbNodes :
           Q.ch[c][n] = IF n = g /\ c = d THEN T.ch[o][p]
                        ELSE IF n = p /\ c = o THEN g
                        ELSE IF n \in B /\ T.ch[c][n] = g THEN p ELSE T.ch[c][n]
      /\ \A n \in RbNodes :
           Q.par[n] = IF n = g THEN p ELSE IF n = p THEN T.par[g]
                      ELSE IF n = T.ch[o][p] /\ T.ch[o][p] # 0 THEN g ELSE T.par[n]
  BY <1>a, <1>b, <1>c, <1>s, <1>0, TurnIs
<1>q. Q \in Trees  BY <1>2, Neighbours
<1> HIDE DEF Q
<1>3. Balanced(Q, B, NoNode, 0, "l")
  <2>1. PICK H : Even(T, B, W, L, H)  BY <1>a DEF Balanced
  <2>2. /\ W1 \in [RbNodes -> Nat] /\ L \in [Sides -> [RbNodes -> Nat]]
        /\ \A n \in RbNodes : W1[n] = IF Q.red[n] THEN 0 ELSE 1
        /\ \A n \in RbNodes : W[n] = IF T.red[n] THEN 0 ELSE 1
        /\ \A c \in Sides, n \in RbNodes : L[c][n] = 0
    BY <1>q, <1>0, Plain
  <2> HIDE DEF W, W1, L
  <2>3. W[p] = 0 /\ \A n \in B : W1[n] = IF n = g THEN 0 ELSE IF n = p THEN W[g] ELSE W[n]
    BY <2>2, <1>2, <1>c, <1>0, <1>b
  <2>4. \A n \in B, c \in Sides :
          Q.ch[c][n] = 0 => L[c][n] = IF n = g /\ c = d THEN L[o][p] ELSE L[c][n]
    BY <2>2, <1>0, <1>b, <1>s
  <2>5. Turned(T, B, g, o, d, p, W, L, Q, W1, L)
    BY <2>2, <2>3, <2>4, <1>2, <1>0, <1>b, <1>s DEF Turned
  <2>6. \E H1 : Even(Q, B, W1, L, H1)  BY <2>1, <2>5, <1>a, TurnEven
  <2> QED  BY <2>6 DEF Balanced, W1, L
<1>4. BadOnly(Q, B, z)
  <2> SUFFICES ASSUME NEW n \in B, Bad(Q, n), n # z PROVE FALSE  BY DEF BadOnly
  <2>1. n \in RbNodes /\ C.red[n] /\ (n = Q.root \/ C.red[Q.par[n]]) /\ n # p
    BY <1>0, <1>1, <1>2, <1>c, <1>b DEF Bad
  <2>2. ~Bad(T, n)  BY <1>a DEF BadOnly
  <2>3. CASE n = g
    <3>1. Q.par[n] = p /\ n # Q.root  BY <2>3, <1>2, <1>0, <1>1, <1>b
    <3> QED  BY <3>1, <2>1, <1>c, <1>b, <1>0, <1>1
  <2>4. CASE n # g
    <3>1. T.red[n] /\ n # T.root /\ ~T.red[T.par[n]]  BY <2>1, <2>2, <2>4, <1>c DEF Bad
    <3>2. n # Q.root  BY <3>1, <2>1, <1>2
    <3>3. n # b  BY <3>1, <1>1, <1>b, <1>0
    <3>4. Q.par[n] = T.par[n] /\ T.par[n] \in RbNodes
      BY <3>1, <3>3, <2>1, <2>4, <1>2, <1>0, <1>a, Neighbours DEF b
    <3>5. T.par[n] = g  BY <2>1, <3>1, <3>2, <3>4, <1>c
    <3>6. n = y  BY <3>1, <3>5, <2>1, <1>5
    <3> QED  BY <3>1, <3>6, <1>b
  <2> QED  BY <2>3, <2>4
<1>6. Q.red[z] /\ ~Q.red[0]  BY <1>2, <1>c, <1>b, <1>0
<1>7. Inserting(Q, B, z)  BY <1>2, <1>3, <1>4, <1>6, <1>b DEF Inserting
<1> QED  BY <1>7 DEF Raised, Q, C, o

\* One iteration of rbtree_insert_fixup.
LEMMA InsertFixupKeeps ==
  ASSUME NEW T, NEW B, NEW z, Inserting(T, B, z), T.red[T.par[z]]
  PROVE  Inserting(InsertFixup(T, z).T, B, InsertFixup(T, z).z)
<1> DEFINE p == T.par[z]
           g == T.par[p]
           d == SideOf(T, p)
           o == Other(d)
           y == T.ch[o][g]
           inner == z = T.ch[o][p]
           z1 == IF inner THEN p ELSE z
           T1 == IF inner THEN Rotate(T, p, d) ELSE T
           p1 == T1.par[z1]
           g1 == T1.par[p1]
           T2 == [T1 EXCEPT !.red[p1] = FALSE, !.red[g1] = TRUE]
<1>1. InsertFixup(T, z) = IF T.red[y] THEN [T |-> Recolored(T, p, y, g), z |-> g]
                          ELSE [T |-> Rotate(T2, g1, o), z |-> z1]
  BY Zenon DEF InsertFixup
<1>2. RedPair(T, B, z, p, g, d) /\ (~inner => T.ch[d][p] = z) /\ d \in Sides
  <2>1. InOrder(T, B) /\ Joined(T, B) /\ BadOnly(T, B, z) /\ z \in B /\ T.red[z] /\ ~T.red[0]
    BY DEF Inserting, InOrder
  <2>2. z # T.root /\ p \in B /\ p # z /\ \E c \in Sides : T.ch[c][p] = z
    <3>1. T.root # 0 => T.par[T.root] = 0  BY <2>1, Neighbours
    <3>2. z # 0  BY <2>1, Neighbours
    <3>3. z # T.root  BY <2>1, <3>1, <3>2
    <3> QED  BY <2>1, <3>3, Neighbours
  <2>3. p # T.root /\ ~T.red[g]
    <3>1. Bad(T, p) => p = z  BY <2>1, <2>2 DEF BadOnly
    <3> QED  BY <3>1, <2>2 DEF Bad
  <2> HIDE DEF p
  <2>4. g \in B /\ \E c \in Sides : T.ch[c][g] = p  BY <2>1, <2>2, <2>3, Neighbours
  <2>5. d \in Sides /\ T.ch[d][g] = p
    <3>1. PICK c \in Sides : T.ch[c][g] = p  BY <2>4
    <3>2. d = c  BY <3>1, <2>1, <2>2, <2>4, SideIs
    <3> QED  BY <3>1, <3>2
  <2> HIDE DEF g, d
  <2>6. T.par[z] = p /\ T.par[p] = g /\ T.red[p]  BY DEF p, g
  <2>7. RedPair(T, B, z, p, g, d)  BY <2>1, <2>2, <2>3, <2>4, <2>5, <2>6 DEF RedPair
  <2>8. ~inner => T.ch[d][p] = z  BY <2>2, <2>5, SideFacts
  <2> QED  BY <2>5, <2>7, <2>8
<1> HIDE DEF p, g, d
<1>3. CASE T.red[y]
  <2>1. Inserting(Recolored(T, p, y, g), B, g)  BY <1>2, <1>3, RecolorKeeps
  <2>2. InsertFixup(T, z).T = Recolored(T, p, y, g) /\ InsertFixup(T, z).z = g  BY <1>1, <1>3
  <2> QED  BY <2>1, <2>2
<1>4. CASE ~T.red[y]
  <2>1. RedPair(T1, B, z1, p1, g1, d) /\ T1.ch[d][p1] = z1 /\ ~T1.red[T1.ch[o][g1]]
    <3>1. CASE inner
      <4> DEFINE R == Rotate(T, p, d)
      <4>1. RedPair(R, B, p, z, g, d) /\ R.ch[d][z] = p /\ R.red = T.red /\ R.ch[o][g] = y
        BY <1>2, <3>1, InnerTurn
      <4>2. z1 = p /\ T1 = R  BY <3>1
      <4> HIDE DEF R
      <4>3. R.par[p] = z /\ R.par[z] = g  BY <4>1 DEF RedPair
      <4>4. p1 = z /\ g1 = g  BY <4>2, <4>3
      <4> HIDE DEF T1, z1, p1, g1
      <4> QED  BY <4>1, <4>2, <4>4, <1>4
    <3>2. CASE ~inner
      <4>2. z1 = z /\ T1 = T  BY <3>2
      <4>3. T.par[z] = p /\ T.par[p] = g  BY DEF p, g
      <4>4. p1 = p /\ g1 = g  BY <4>2, <4>3
      <4> HIDE DEF T1, z1, p1, g1
      <4> QED  BY <4>2, <4>4, <1>2, <1>4, <3>2
    <3> QED  BY <3>1, <3>2
  <2> HIDE DEF T1, z1, p1, g1
  <2>4. Inserting(Raised(T1, p1, g1, d), B, z1)  BY <2>1, OuterTurn
  <2>5. Raised(T1, p1, g1, d) = Rotate(T2, g1, o)  BY DEF Raised
  <2>2. Inserting(Rotate(T2, g1, o), B, z1)  BY <2>4, <2>5
  <2> HIDE DEF T2
  <2>3. InsertFixup(T, z).T = Rotate(T2, g1, o) /\ InsertFixup(T, z).z = z1  BY <1>1, <1>4
  <2> QED  BY <2>2, <2>3
<1> QED  BY <1>3, <1>4

-----------------------------------------------------------------------------

Clean(T, B) == \A n \in B : ~Bad(T, n)

\* x, on side d of p, is black and lacks one black below.
Lacking(T, B, x, p, d) ==
  /\ InOrder(T, B) /\ Balanced(T, B, x, p, d) /\ Clean(T, B)
  /\ d \in Sides /\ p \in B /\ T.ch[d][p] = x /\ T.par[x] = p
  /\ ~T.red[x] /\ ~T.red[0]

\* Unless the sentinel is the cursor, no missing child weighs anything.
LEMMA LfNone ==
  ASSUME NEW e, e # 0, NEW p, NEW d, NEW q, NEW c
  PROVE  Lf(e, p, d) = Lf(e, q, c)
BY DEF Lf

IsSibling(T, p, d, w) == w = T.ch[Other(d)][p]

\* The other child of p is there: every path through it has a black to spare.
LEMMA Sibling ==
  ASSUME NEW T, NEW B, NEW x, NEW p, NEW d, Lacking(T, B, x, p, d), NEW w, w = T.ch[Other(d)][p]
  PROVE  /\ w \in B /\ w # 0 /\ w # x /\ w # p /\ x # p /\ T.par[w] = p /\ w # T.root
         /\ x \in B \cup {0} /\ (x # 0 => x # T.root)
         /\ (T.ch[d][w] \in B /\ T.ch[d][w] # x /\ T.ch[d][w] # p) \/ T.ch[d][w] = 0
         /\ (T.ch[Other(d)][w] # x /\ T.ch[Other(d)][w] # p) \/ T.ch[Other(d)][w] = 0
<1> DEFINE W == Wt(T, x)
           L == Lf(x, p, d)
<1>a. InOrder(T, B) /\ Balanced(T, B, x, p, d)  BY DEF Lacking
<1>b. p \in B /\ T.ch[d][p] = x /\ T.par[x] = p /\ ~T.red[x]  BY DEF Lacking
<1>s. d \in Sides /\ Other(d) \in Sides /\ Other(d) # d /\ Other(Other(d)) = d
  BY SideFacts DEF Lacking
<1>0. T \in Trees /\ 0 \in RbNodes /\ \A n \in B : n # 0 /\ n \in RbNodes  BY <1>a, Neighbours
<1>1. /\ x \in B \cup {0} /\ x # p /\ (x # 0 => x # T.root)
      /\ w \in B \cup {0} /\ w # p
      /\ w # 0 => w # x /\ T.par[w] = p /\ w # T.root
  BY <1>a, <1>b, <1>s, Neighbours
<1>2. w # 0
  <2> SUFFICES ASSUME w = 0 PROVE FALSE  OBVIOUS
  <2>1. PICK H : Even(T, B, W, L, H)  BY <1>a DEF Balanced
  <2>2. /\ W \in [RbNodes -> Nat]
        /\ \A n \in RbNodes :
             W[n] = IF T.red[n] THEN IF x = n THEN 1 ELSE 0 ELSE IF x = n THEN 2 ELSE 1
    BY <1>0, WtIs
  <2>3. /\ L \in [Sides -> [RbNodes -> Nat]]
        /\ \A c \in Sides, n \in RbNodes : L[c][n] = IF x = 0 /\ n = p /\ c = d THEN 1 ELSE 0
    BY LfIs
  <2> HIDE DEF W, L
  <2>4. /\ H \in [RbNodes -> Nat]
        /\ \A n \in B, c \in Sides : H[n] = W[n] + Hung(T, L, H, c, n)
    BY <2>1 DEF Even
  <2>5. H[p] = W[p] + 0
    <3>1. Hung(T, L, H, Other(d), p) = 0  BY <2>3, <1>b, <1>s, <1>0 DEF Hung
    <3> QED  BY <3>1, <2>4, <1>b, <1>s
  <2>6. Hung(T, L, H, d, p) \in Nat /\ Hung(T, L, H, d, p) > 0
    <3>1. CASE x = 0
      <4>1. Hung(T, L, H, d, p) = 1  BY <3>1, <2>3, <1>b, <1>s, <1>0 DEF Hung
      <4> QED  BY <4>1
    <3>2. CASE x # 0
      <4>1. Hung(T, L, H, d, p) = H[x]  BY <3>2, <1>b DEF Hung
      <4>2. x \in B /\ W[x] = 2  BY <3>2, <2>2, <1>0, <1>1, <1>b
      <4>3. H[x] = 2 + Hung(T, L, H, d, x)  BY <4>2, <2>4, <1>s
      <4>4. T.ch[d][x] \in B \cup {0}  BY <4>2, <1>a, <1>s, Neighbours
      <4>5. Hung(T, L, H, d, x) \in Nat  BY <4>2, <4>4, <2>3, <2>4, <1>0, <1>s DEF Hung
      <4> QED  BY <4>1, <4>3, <4>5
    <3> QED  BY <3>1, <3>2
  <2>7. H[p] = W[p] + Hung(T, L, H, d, p)  BY <2>4, <1>b, <1>s
  <2>8. W[p] \in Nat  BY <2>2, <1>0, <1>b
  <2> QED  BY <2>5, <2>6, <2>7, <2>8
<1>3. \A c \in Sides : T.ch[c][w] # 0 => T.par[T.ch[c][w]] = w /\ T.par[w] # T.ch[c][w] /\ T.ch[c][w] \in B
  BY <1>a, <1>1, <1>2, Neighbours
<1> QED  BY <1>1, <1>2, <1>3, <1>b, <1>s

\* A red sibling is rotated above p: the new one is black.
SiblingRaised(T, p, w, d) == Rotate([T EXCEPT !.red[w] = FALSE, !.red[p] = TRUE], p, d)

\* The first case of rbtree_delete_fixup: x still lacks a black, and its
\* sibling is black now.
LEMMA RedSibling ==
  ASSUME NEW T, NEW B, NEW x, NEW p, NEW d, Lacking(T, B, x, p, d), T.red[T.ch[Other(d)][p]]
  PROVE  LET Q == SiblingRaised(T, p, T.ch[Other(d)][p], d)
         IN  Lacking(Q, B, x, p, d) /\ ~Q.red[Q.ch[Other(d)][p]]
<1> DEFINE o == Other(d)
           w == T.ch[o][p]
           b == T.ch[d][w]
           C == [T EXCEPT !.red[w] = FALSE, !.red[p] = TRUE]
           Q == Rotate(C, p, d)
           W == Wt(T, x)
           W1 == Wt(Q, x)
           L == Lf(x, p, d)
<1>a. InOrder(T, B) /\ Balanced(T, B, x, p, d) /\ Clean(T, B)  BY DEF Lacking
<1>b. p \in B /\ T.ch[d][p] = x /\ T.par[x] = p /\ ~T.red[x] /\ ~T.red[0] /\ T.red[w]  BY DEF Lacking
<1>s. d \in Sides /\ o \in Sides /\ o # d /\ Other(d) = o /\ Other(o) = d /\ \A c \in Sides : c = d \/ c = o
  BY SideFacts DEF Lacking
<1>0. T \in Trees /\ 0 \in RbNodes /\ \A n \in B : n # 0 /\ n \in RbNodes  BY <1>a, Neighbours
<1>1. /\ w \in B /\ w # 0 /\ w # x /\ w # p /\ x # p /\ T.par[w] = p /\ w # T.root
      /\ x \in B \cup {0} /\ (x # 0 => x # T.root)
      /\ b # 0 => b # x /\ b # p
  BY Sibling
<1>e. w = T.ch[o][p] /\ b = T.ch[d][w]  OBVIOUS
<1> HIDE DEF o, w, b
<1>3. b \in B \cup {0} /\ b # w /\ (b # 0 => T.par[b] = w)
  BY <1>a, <1>e, <1>1, <1>s, <1>0, Neighbours
<1>4. ~T.red[p] /\ ~T.red[b]
  <2>1. ~T.red[p]  BY <1>a, <1>b, <1>1 DEF Clean, Bad
  <2>2. b \in B => ~T.red[b]  BY <1>a, <1>b, <1>3, <1>0 DEF Clean, Bad
  <2> QED  BY <2>1, <2>2, <1>3, <1>b
<1>5. \A n \in B : n # T.root /\ T.par[n] = p => n = x \/ n = w
  BY <1>a, <1>b, <1>s, <1>e, TwoChildren
<1>c. /\ C \in Trees /\ C.root = T.root /\ C.ch = T.ch /\ C.par = T.par
      /\ \A n \in RbNodes : C.red[n] <=> (n = p \/ (n # w /\ T.red[n]))
  <2> DEFINE f == [T.red EXCEPT ![w] = FALSE, ![p] = TRUE]
  <2>1. T.red \in [RbNodes -> BOOLEAN]  BY <1>0 DEF Trees
  <2>2. C = Painted(T, f)  BY <1>0 DEF Painted, Trees
  <2>3. f \in [RbNodes -> BOOLEAN]  BY <2>1
  <2>4. \A n \in RbNodes : f[n] <=> (n = p \/ (n # w /\ T.red[n]))
    BY <2>1, <1>0, <1>1, <1>b
  <2> HIDE DEF f, C
  <2>5. C.red = f /\ C \in Trees /\ C.root = T.root /\ C.ch = T.ch /\ C.par = T.par
    BY <2>2, <2>3, <1>0, PaintIs
  <2> QED  BY <2>4, <2>5
<1> HIDE DEF C
<1>2. /\ InOrder(Q, B) /\ Q.red = C.red
      /\ Q.root = IF p = T.root THEN w ELSE T.root
      /\ \A c \in Sides, n \in RbNodes :
           Q.ch[c][n] = IF n = p /\ c = o THEN T.ch[d][w]
                        ELSE IF n = w /\ c = d THEN p
                        ELSE IF n \in B /\ T.ch[c][n] = p THEN w ELSE T.ch[c][n]
      /\ \A n \in RbNodes :
           Q.par[n] = IF n = p THEN w ELSE IF n = w THEN T.par[p]
                      ELSE IF n = T.ch[d][w] /\ T.ch[d][w] # 0 THEN p ELSE T.par[n]
  BY <1>a, <1>b, <1>c, <1>s, <1>0, <1>1, <1>e, TurnIs
<1>q. Q \in Trees  BY <1>2, Neighbours
<1> HIDE DEF Q
<1>6. Q.ch[d][p] = x /\ Q.par[x] = p /\ Q.ch[o][p] = b /\ ~Q.red[b] /\ ~Q.red[x] /\ ~Q.red[0]
  <2>1. x \in RbNodes /\ b \in RbNodes  BY <1>0, <1>1, <1>3
  <2>2. b # p  BY <1>0, <1>1, <1>b
  <2>3. Q.ch[d][p] = x  BY <1>2, <1>0, <1>1, <1>b, <1>s
  <2>4. Q.ch[o][p] = b  BY <1>2, <1>0, <1>b, <1>s, <1>e
  <2>5. Q.par[x] = p  BY <2>1, <1>2, <1>1, <1>b, <1>e
  <2>6. ~Q.red[b] /\ ~Q.red[x] /\ ~Q.red[0]  BY <2>1, <2>2, <1>2, <1>c, <1>0, <1>1, <1>4, <1>b
  <2> QED  BY <2>3, <2>4, <2>5, <2>6
<1>7. Balanced(Q, B, x, p, d)
  <2>1. PICK H : Even(T, B, W, L, H)  BY <1>a DEF Balanced
  <2>2. /\ W1 \in [RbNodes -> Nat]
        /\ \A n \in RbNodes :
             W1[n] = IF Q.red[n] THEN IF x = n THEN 1 ELSE 0 ELSE IF x = n THEN 2 ELSE 1
    BY <1>q, WtIs
  <2>3. \A n \in RbNodes :
             W[n] = IF T.red[n] THEN IF x = n THEN 1 ELSE 0 ELSE IF x = n THEN 2 ELSE 1
    BY <1>0, WtIs
  <2>4. /\ L \in [Sides -> [RbNodes -> Nat]]
        /\ \A c \in Sides, n \in RbNodes : L[c][n] = IF x = 0 /\ n = p /\ c = d THEN 1 ELSE 0
    BY LfIs
  <2> HIDE DEF W, W1, L
  <2>5. W[w] = 0 /\ \A n \in B : W1[n] = IF n = p THEN 0 ELSE IF n = w THEN W[p] ELSE W[n]
    BY <2>2, <2>3, <1>2, <1>c, <1>0, <1>1, <1>4, <1>b
  <2>6. \A n \in B, c \in Sides :
          Q.ch[c][n] = 0 => L[c][n] = IF n = p /\ c = o THEN L[d][w] ELSE L[c][n]
    BY <2>4, <1>0, <1>1, <1>b, <1>s
  <2>7. Turned(T, B, p, d, o, w, W, L, Q, W1, L)
    BY <2>2, <2>4, <2>5, <2>6, <1>2, <1>0, <1>1, <1>b, <1>s, <1>e DEF Turned
  <2>8. \E H1 : Even(Q, B, W1, L, H1)  BY <2>1, <2>7, <1>a, TurnEven
  <2> QED  BY <2>8 DEF Balanced, W1, L
<1>8. Clean(Q, B)
  <2> SUFFICES ASSUME NEW n \in B, Bad(Q, n) PROVE FALSE  BY DEF Clean
  <2>1. n \in RbNodes /\ C.red[n] /\ (n = Q.root \/ C.red[Q.par[n]]) /\ n # w
    BY <1>0, <1>1, <1>2, <1>c, <1>b DEF Bad
  <2>2. CASE n = p
    <3>1. Q.par[n] = w /\ n # Q.root  BY <2>2, <1>2, <1>0, <1>1, <1>b
    <3> QED  BY <3>1, <2>1, <1>c, <1>0, <1>1
  <2>3. CASE n # p
    <3>1. T.red[n] /\ n # T.root /\ ~T.red[T.par[n]]  BY <2>1, <2>3, <1>a, <1>c DEF Bad, Clean
    <3>2. n # Q.root  BY <3>1, <2>1, <1>2
    <3>3. n # b  BY <3>1, <1>4
    <3>4. Q.par[n] = T.par[n] /\ T.par[n] \in RbNodes
      BY <3>1, <3>3, <2>1, <2>3, <1>2, <1>0, <1>a, <1>e, Neighbours
    <3>5. T.par[n] = p  BY <2>1, <3>1, <3>2, <3>4, <1>c
    <3>6. n = x  BY <3>1, <3>5, <2>1, <1>5
    <3> QED  BY <3>1, <3>6, <1>b
  <2> QED  BY <2>2, <2>3
<1>9. Lacking(Q, B, x, p, d)  BY <1>2, <1>6, <1>7, <1>8, <1>b, <1>s DEF Lacking
<1> QED  BY <1>6, <1>9 DEF SiblingRaised, Q, C, w, o

\* A red child of the sibling on p's side is rotated above it: the sibling's
\* other child is then red.
NearRaised(T, w, near, o) == Rotate([T EXCEPT !.red[near] = FALSE, !.red[w] = TRUE], w, o)

\* The third case: x still lacks a black, and the far child of its sibling is
\* red now.
LEMMA NearRed ==
  ASSUME NEW T, NEW B, NEW x, NEW p, NEW d, Lacking(T, B, x, p, d), NEW w, IsSibling(T, p, d, w),
         ~T.red[w], T.red[T.ch[d][w]], ~T.red[T.ch[Other(d)][w]]
  PROVE  LET Q == NearRaised(T, w, T.ch[d][w], Other(d))
         IN  /\ Lacking(Q, B, x, p, d) /\ ~Q.red[Q.ch[Other(d)][p]]
             /\ Q.red[Q.ch[Other(d)][Q.ch[Other(d)][p]]]
<1> DEFINE o == Other(d)
           y == T.ch[d][w]
           b == T.ch[o][y]
           far == T.ch[o][w]
           C == [T EXCEPT !.red[y] = FALSE, !.red[w] = TRUE]
           Q == Rotate(C, w, o)
           W == Wt(T, x)
           W1 == Wt(Q, x)
           L == Lf(x, p, d)
<1>a. InOrder(T, B) /\ Balanced(T, B, x, p, d) /\ Clean(T, B)  BY DEF Lacking
<1>b. /\ p \in B /\ T.ch[d][p] = x /\ T.par[x] = p /\ ~T.red[x] /\ ~T.red[0]
      /\ ~T.red[w] /\ T.red[y] /\ ~T.red[far] /\ w = T.ch[o][p]
  BY DEF Lacking, IsSibling
<1>s. d \in Sides /\ o \in Sides /\ o # d /\ Other(d) = o /\ Other(o) = d /\ \A c \in Sides : c = d \/ c = o
  BY SideFacts DEF Lacking
<1>0. T \in Trees /\ 0 \in RbNodes /\ \A n \in B : n # 0 /\ n \in RbNodes  BY <1>a, Neighbours
<1>1. /\ w \in B /\ w # 0 /\ w # x /\ w # p /\ x # p /\ T.par[w] = p /\ w # T.root
      /\ x \in B \cup {0} /\ (x # 0 => x # T.root)
      /\ y # 0 => y # x /\ y # p
  BY Sibling DEF IsSibling
<1>e. y = T.ch[d][w] /\ b = T.ch[o][y] /\ far = T.ch[o][w]  OBVIOUS
<1> HIDE DEF o, y, b, far
<1>3. y \in B /\ y # 0 /\ y # x /\ y # p /\ y # w /\ T.par[y] = w /\ y # T.root /\ y # T.par[w]
  <2>1. y # 0  BY <1>b
  <2> QED  BY <2>1, <1>a, <1>e, <1>1, <1>s, Neighbours
<1>4. b \in B \cup {0} /\ b # y /\ b # w /\ (b # 0 => T.par[b] = y /\ b # x)
  <2>1. b \in B \cup {0} /\ (b # 0 => T.par[b] = y /\ T.par[y] # b) /\ b # y
    BY <1>a, <1>e, <1>3, <1>s, Neighbours
  <2> QED  BY <2>1, <1>1, <1>3, <1>b
<1>6. ~T.red[b]
  <2>1. b \in B => ~T.red[b]  BY <1>a, <1>b, <1>3, <1>4, <1>0 DEF Clean, Bad
  <2> QED  BY <2>1, <1>4, <1>b
<1>5. \A n \in B : n # T.root /\ T.par[n] = w => n = y \/ n = far
  BY <1>a, <1>1, <1>s, <1>e, TwoChildren
<1>c. /\ C \in Trees /\ C.root = T.root /\ C.ch = T.ch /\ C.par = T.par
      /\ \A n \in RbNodes : C.red[n] <=> (n = w \/ (n # y /\ T.red[n]))
  <2> DEFINE f == [T.red EXCEPT ![y] = FALSE, ![w] = TRUE]
  <2>1. T.red \in [RbNodes -> BOOLEAN]  BY <1>0 DEF Trees
  <2>2. C = Painted(T, f)  BY <1>0 DEF Painted, Trees
  <2>3. f \in [RbNodes -> BOOLEAN]  BY <2>1
  <2>4. \A n \in RbNodes : f[n] <=> (n = w \/ (n # y /\ T.red[n]))
    BY <2>1, <1>0, <1>1, <1>3
  <2> HIDE DEF f, C
  <2>5. C.red = f /\ C \in Trees /\ C.root = T.root /\ C.ch = T.ch /\ C.par = T.par
    BY <2>2, <2>3, <1>0, PaintIs
  <2> QED  BY <2>4, <2>5
<1> HIDE DEF C
<1>2. /\ InOrder(Q, B) /\ Q.red = C.red
      /\ Q.root = IF w = T.root THEN y ELSE T.root
      /\ \A c \in Sides, n \in RbNodes :
           Q.ch[c][n] = IF n = w /\ c = d THEN T.ch[o][y]
                        ELSE IF n = y /\ c = o THEN w
                        ELSE IF n \in B /\ T.ch[c][n] = w THEN y ELSE T.ch[c][n]
      /\ \A n \in RbNodes :
           Q.par[n] = IF n = w THEN y ELSE IF n = y THEN T.par[w]
                      ELSE IF n = T.ch[o][y] /\ T.ch[o][y] # 0 THEN w ELSE T.par[n]
  BY <1>a, <1>c, <1>s, <1>0, <1>1, <1>3, <1>e, TurnIs
<1>q. Q \in Trees  BY <1>2, Neighbours
<1> HIDE DEF Q
<1>7. /\ Q.ch[d][p] = x /\ Q.par[x] = p /\ Q.ch[o][p] = y /\ Q.ch[o][y] = w
      /\ ~Q.red[y] /\ Q.red[w] /\ ~Q.red[x] /\ ~Q.red[0]
  <2>1. x \in RbNodes  BY <1>0, <1>1
  <2>3. Q.ch[d][p] = x /\ Q.ch[o][p] = y /\ Q.ch[o][y] = w  BY <1>2, <1>0, <1>1, <1>3, <1>b, <1>s
  <2>5. Q.par[x] = p
    <3>1. ~(x = b /\ b # 0)  BY <1>4
    <3> QED  BY <3>1, <2>1, <1>2, <1>1, <1>3, <1>b, <1>e
  <2>6. ~Q.red[y] /\ Q.red[w] /\ ~Q.red[x] /\ ~Q.red[0]
    BY <2>1, <1>2, <1>c, <1>0, <1>1, <1>3, <1>b
  <2> QED  BY <2>3, <2>5, <2>6
<1>8. Balanced(Q, B, x, p, d)
  <2>1. PICK H : Even(T, B, W, L, H)  BY <1>a DEF Balanced
  <2>2. /\ W1 \in [RbNodes -> Nat]
        /\ \A n \in RbNodes :
             W1[n] = IF Q.red[n] THEN IF x = n THEN 1 ELSE 0 ELSE IF x = n THEN 2 ELSE 1
    BY <1>q, WtIs
  <2>3. \A n \in RbNodes :
             W[n] = IF T.red[n] THEN IF x = n THEN 1 ELSE 0 ELSE IF x = n THEN 2 ELSE 1
    BY <1>0, WtIs
  <2>4. /\ L \in [Sides -> [RbNodes -> Nat]]
        /\ \A c \in Sides, n \in RbNodes : L[c][n] = IF x = 0 /\ n = p /\ c = d THEN 1 ELSE 0
    BY LfIs
  <2> HIDE DEF W, W1, L
  <2>5. W[y] = 0 /\ \A n \in B : W1[n] = IF n = w THEN 0 ELSE IF n = y THEN W[w] ELSE W[n]
    BY <2>2, <2>3, <1>2, <1>c, <1>0, <1>1, <1>3, <1>b
  <2>6. \A n \in B, c \in Sides :
          Q.ch[c][n] = 0 => L[c][n] = IF n = w /\ c = d THEN L[o][y] ELSE L[c][n]
    BY <2>4, <1>0, <1>1, <1>3, <1>b, <1>s
  <2>7. Turned(T, B, w, o, d, y, W, L, Q, W1, L)
    BY <2>2, <2>4, <2>5, <2>6, <1>2, <1>0, <1>1, <1>3, <1>s, <1>e DEF Turned
  <2>8. \E H1 : Even(Q, B, W1, L, H1)  BY <2>1, <2>7, <1>a, TurnEven
  <2> QED  BY <2>8 DEF Balanced, W1, L
<1>9. Clean(Q, B)
  <2> SUFFICES ASSUME NEW n \in B, Bad(Q, n) PROVE FALSE  BY DEF Clean
  <2>1. n \in RbNodes /\ C.red[n] /\ (n = Q.root \/ C.red[Q.par[n]]) /\ n # y
    BY <1>0, <1>1, <1>2, <1>3, <1>c, <1>b DEF Bad
  <2>2. CASE n = w
    <3>1. Q.par[n] = y /\ n # Q.root  BY <2>2, <1>2, <1>0, <1>1, <1>3
    <3> QED  BY <3>1, <2>1, <1>c, <1>0, <1>3
  <2>3. CASE n # w
    <3>1. T.red[n] /\ n # T.root /\ ~T.red[T.par[n]]  BY <2>1, <2>3, <1>a, <1>c DEF Bad, Clean
    <3>2. n # Q.root  BY <3>1, <2>1, <1>1, <1>2
    <3>3. n # b  BY <3>1, <1>6
    <3>4. Q.par[n] = T.par[n] /\ T.par[n] \in RbNodes
      BY <3>1, <3>3, <2>1, <2>3, <1>2, <1>0, <1>a, <1>e, Neighbours
    <3>5. T.par[n] = w  BY <2>1, <3>1, <3>2, <3>4, <1>c
    <3>6. n = far  BY <3>1, <3>5, <2>1, <1>5
    <3> QED  BY <3>1, <3>6, <1>b
  <2> QED  BY <2>2, <2>3
<1>10. Lacking(Q, B, x, p, d)  BY <1>2, <1>7, <1>8, <1>9, <1>b, <1>s DEF Lacking
<1> QED  BY <1>7, <1>10 DEF NearRaised, Q, C, y, o

\* Between two steps of a deletion: the cursor x stands for one black more,
\* and only x, or a child of it, may be red against the rules.
Repairing(T, B, x) ==
  /\ InOrder(T, B) /\ x \in B \cup {0} /\ ~T.red[0]
  /\ Balanced(T, B, x, T.par[0], SideOf(T, 0))
  /\ x = 0 /\ B # {} => T.par[0] \in B /\ T.ch[SideOf(T, 0)][T.par[0]] = 0
  /\ \A n \in B : Bad(T, n) => n = x \/ (x # 0 /\ n # T.root /\ T.par[n] = x)

\* Both children of the sibling are black: it is painted, p lacks the black.
LEMMA BothBlack ==
  ASSUME NEW T, NEW B, NEW x, NEW p, NEW d, Lacking(T, B, x, p, d), NEW w, IsSibling(T, p, d, w),
         ~T.red[w], ~T.red[T.ch[d][w]], ~T.red[T.ch[Other(d)][w]]
  PROVE  Repairing([T EXCEPT !.red[w] = TRUE], B, p)
<1> DEFINE o == Other(d)
           Q == [T EXCEPT !.red[w] = TRUE]
           W == Wt(T, x)
           W1 == Wt(Q, p)
           L == Lf(x, p, d)
           L1 == Lf(p, Q.par[0], SideOf(Q, 0))
<1>a. InOrder(T, B) /\ Balanced(T, B, x, p, d) /\ Clean(T, B)  BY DEF Lacking
<1>b. /\ p \in B /\ T.ch[d][p] = x /\ T.par[x] = p /\ ~T.red[x] /\ ~T.red[0]
      /\ ~T.red[w] /\ ~T.red[T.ch[d][w]] /\ ~T.red[T.ch[o][w]] /\ w = T.ch[o][p]
  BY DEF Lacking, IsSibling
<1>s. d \in Sides /\ o \in Sides /\ o # d /\ Other(d) = o /\ Other(o) = d /\ \A c \in Sides : c = d \/ c = o
  BY SideFacts DEF Lacking
<1>0. T \in Trees /\ 0 \in RbNodes /\ \A n \in B : n # 0 /\ n \in RbNodes  BY <1>a, Neighbours
<1>1. /\ w \in B /\ w # 0 /\ w # x /\ w # p /\ x # p /\ T.par[w] = p /\ w # T.root
      /\ x \in B \cup {0} /\ (x # 0 => x # T.root)
  BY Sibling DEF IsSibling
<1> HIDE DEF o
<1>5. \A n \in B : n # T.root /\ T.par[n] = p => n = x \/ n = w
  BY <1>a, <1>b, <1>s, TwoChildren
<1>6. \A n \in B : n # T.root /\ T.par[n] = w => n = T.ch[d][w] \/ n = T.ch[o][w]
  BY <1>a, <1>1, <1>s, TwoChildren
<1>2. /\ Q \in Trees /\ Q.root = T.root /\ Q.ch = T.ch /\ Q.par = T.par
      /\ \A n \in RbNodes : Q.red[n] <=> (n = w \/ T.red[n])
  <2> DEFINE f == [T.red EXCEPT ![w] = TRUE]
  <2>1. T.red \in [RbNodes -> BOOLEAN]  BY <1>0 DEF Trees
  <2>2. Q = Painted(T, f)  BY <1>0 DEF Painted, Trees
  <2>3. f \in [RbNodes -> BOOLEAN]  BY <2>1
  <2>4. \A n \in RbNodes : f[n] <=> (n = w \/ T.red[n])  BY <2>1, <1>0, <1>1
  <2> HIDE DEF f, Q
  <2>5. Q.red = f /\ Q \in Trees /\ Q.root = T.root /\ Q.ch = T.ch /\ Q.par = T.par
    BY <2>2, <2>3, <1>0, PaintIs
  <2> QED  BY <2>4, <2>5
<1> HIDE DEF Q
<1>3. InOrder(Q, B)  BY <1>a, <1>2, PaintKeeps
<1>7. Balanced(Q, B, p, Q.par[0], SideOf(Q, 0))
  <2>1. PICK H : Even(T, B, W, L, H)  BY <1>a DEF Balanced
  <2>2. /\ W1 \in [RbNodes -> Nat]
        /\ \A n \in RbNodes :
             W1[n] = IF Q.red[n] THEN IF p = n THEN 1 ELSE 0 ELSE IF p = n THEN 2 ELSE 1
    BY <1>2, WtIs
  <2>3. \A n \in RbNodes :
             W[n] = IF T.red[n] THEN IF x = n THEN 1 ELSE 0 ELSE IF x = n THEN 2 ELSE 1
    BY <1>0, WtIs
  <2>4. \A c \in Sides, n \in RbNodes : L[c][n] = IF x = 0 /\ n = p /\ c = d THEN 1 ELSE 0
    BY LfIs
  <2>5. /\ L1 \in [Sides -> [RbNodes -> Nat]]
        /\ \A c \in Sides, n \in RbNodes : L1[c][n] = 0
    <3>1. p # 0  BY <1>0, <1>b
    <3> QED  BY <3>1, LfIs
  <2> HIDE DEF W, W1, L, L1
  <2>6. ASSUME NEW n \in B
        PROVE  W1[n] = IF n = p THEN W[n] + 1
                       ELSE IF n # T.root /\ T.par[n] = p THEN W[n] - 1 ELSE W[n]
    <3>0. n \in RbNodes /\ n # 0  BY <1>0
    <3>1. CASE n = p
      <4>1. T.red[n] => W1[n] = 1 /\ W[n] = 0  BY <3>0, <3>1, <2>2, <2>3, <1>1, <1>2
      <4>2. ~T.red[n] => W1[n] = 2 /\ W[n] = 1  BY <3>0, <3>1, <2>2, <2>3, <1>1, <1>2
      <4> QED  BY <3>1, <4>1, <4>2
    <3>2. CASE n = x
      <4>1. W1[n] = 1 /\ W[n] = 2  BY <3>0, <3>2, <2>2, <2>3, <1>1, <1>2, <1>b
      <4>2. n # p /\ n # T.root /\ T.par[n] = p  BY <3>0, <3>2, <1>1, <1>b
      <4> QED  BY <4>1, <4>2
    <3>3. CASE n = w
      <4>1. W1[n] = 0 /\ W[n] = 1  BY <3>0, <3>3, <2>2, <2>3, <1>1, <1>2, <1>b
      <4>2. n # p /\ n # T.root /\ T.par[n] = p  BY <3>3, <1>1
      <4> QED  BY <4>1, <4>2
    <3>4. CASE n \notin {p, x, w}
      <4>1. W1[n] = W[n]  BY <3>0, <3>4, <2>2, <2>3, <1>2
      <4> QED  BY <4>1, <3>4, <1>5
    <3> QED  BY <3>1, <3>2, <3>3, <3>4
  <2>7. ASSUME NEW n \in B, NEW c \in Sides, T.ch[c][n] = 0
        PROVE  L1[c][n] = IF n = p THEN L[c][n] - 1 ELSE L[c][n]
    <3>1. CASE n = p
      <4>1. c = d /\ x = 0  BY <2>7, <3>1, <1>b, <1>1, <1>s
      <4>2. L[c][n] = 1 /\ L1[c][n] = 0  BY <3>1, <4>1, <2>4, <2>5, <1>0, <1>s, <1>b
      <4> QED  BY <3>1, <4>2
    <3>2. CASE n # p
      BY <3>2, <2>4, <2>5, <1>0
    <3> QED  BY <3>1, <3>2
  <2>8. Shifted(T, B, p, 1, W, L, W1, L1)  BY <2>2, <2>5, <2>6, <2>7, <1>b DEF Shifted
  <2>9. PICK H1 : Even(T, B, W1, L1, H1)  BY <2>1, <2>8, <1>a, ShiftEven
  <2>10. Even(Q, B, W1, L1, H1)  BY <2>9, <1>2 DEF Even, Hung
  <2> QED  BY <2>10 DEF Balanced, W1, L1
<1>8. ASSUME NEW n \in B, Bad(Q, n), n # p PROVE n # Q.root /\ Q.par[n] = p
  <2>1. n \in RbNodes /\ Q.red[n] /\ (n = T.root \/ Q.red[T.par[n]])
    BY <1>8, <1>0, <1>2 DEF Bad
  <2>2. CASE n = w
    BY <2>2, <1>1, <1>2
  <2>3. CASE n # w
    <3>1. T.red[n] /\ n # T.root /\ ~T.red[T.par[n]]  BY <2>1, <2>3, <1>a, <1>2 DEF Bad, Clean
    <3>2. T.par[n] \in RbNodes  BY <3>1, <1>a, <1>0, Neighbours
    <3>3. T.par[n] = w  BY <3>1, <3>2, <2>1, <1>2
    <3> QED  BY <3>1, <3>3, <1>6, <1>b
  <2> QED  BY <2>2, <2>3
<1>9. p # 0 /\ ~Q.red[0]  BY <1>0, <1>1, <1>2, <1>b
<1>10. Repairing(Q, B, p)  BY <1>3, <1>7, <1>8, <1>9, <1>b DEF Repairing
<1> QED  BY <1>10 DEF Q

\* The sibling's far child is red: one rotation makes up for the black.
LEMMA FarRed ==
  ASSUME NEW T, NEW B, NEW x, NEW p, NEW d, Lacking(T, B, x, p, d), NEW w, IsSibling(T, p, d, w),
         ~T.red[w], T.red[T.ch[Other(d)][w]]
  PROVE  Repairing(LastCase(T, x, w, d), B, LastCase(T, x, w, d).root)
<1> DEFINE o == Other(d)
           b == T.ch[d][w]
           far == T.ch[o][w]
           C == [T EXCEPT !.red[w] = T.red[T.par[x]], !.red[T.par[x]] = FALSE, !.red[far] = FALSE]
           Q == Rotate(C, p, d)
           W == Wt(T, x)
           L == Lf(x, p, d)
<1>a. InOrder(T, B) /\ Balanced(T, B, x, p, d) /\ Clean(T, B)  BY DEF Lacking
<1>b. /\ p \in B /\ T.ch[d][p] = x /\ T.par[x] = p /\ ~T.red[x] /\ ~T.red[0]
      /\ ~T.red[w] /\ T.red[far] /\ w = T.ch[o][p]
  BY DEF Lacking, IsSibling
<1>s. d \in Sides /\ o \in Sides /\ o # d /\ Other(d) = o /\ Other(o) = d /\ \A c \in Sides : c = d \/ c = o
  BY SideFacts DEF Lacking
<1>0. T \in Trees /\ 0 \in RbNodes /\ \A n \in B : n # 0 /\ n \in RbNodes  BY <1>a, Neighbours
<1>1. /\ w \in B /\ w # 0 /\ w # x /\ w # p /\ x # p /\ T.par[w] = p /\ w # T.root
      /\ x \in B \cup {0} /\ (x # 0 => x # T.root)
      /\ b # 0 => b # x /\ b # p
      /\ far # 0 => far # x /\ far # p
  BY Sibling DEF IsSibling
<1>l. LastCase(T, x, w, d) = Q  BY <1>b DEF LastCase
<1>e. b = T.ch[d][w] /\ far = T.ch[o][w]  OBVIOUS
<1> HIDE DEF o, b, far
<1>3. far \in B /\ far # 0 /\ far # x /\ far # p /\ far # w /\ T.par[far] = w /\ far # T.root /\ far # b
  <2>1. far # 0  BY <1>b
  <2> QED  BY <2>1, <1>a, <1>e, <1>1, <1>s, Neighbours
<1>4. b \in B \cup {0} /\ b # w /\ (b # 0 => T.par[b] = w /\ b # x)
  BY <1>a, <1>e, <1>1, <1>s, <1>0, Neighbours
<1>5. \A n \in B : n # T.root /\ T.par[n] = p => n = x \/ n = w
  BY <1>a, <1>b, <1>s, <1>e, TwoChildren
<1>c. /\ C \in Trees /\ C.root = T.root /\ C.ch = T.ch /\ C.par = T.par
      /\ \A n \in RbNodes : C.red[n] <=> (n # p /\ n # far /\ (IF n = w THEN T.red[p] ELSE T.red[n]))
  <2> DEFINE f == [T.red EXCEPT ![w] = T.red[p], ![p] = FALSE, ![far] = FALSE]
  <2>1. T.red \in [RbNodes -> BOOLEAN]  BY <1>0 DEF Trees
  <2>p. T.par[x] = p  BY <1>b
  <2>2. C = Painted(T, f)  BY <1>0, <2>p DEF Painted, Trees
  <2>6. T.red[p] \in BOOLEAN  BY <2>1, <1>0, <1>b
  <2>3. f \in [RbNodes -> BOOLEAN]  BY <2>1, <2>6
  <2>4. \A n \in RbNodes : f[n] <=> (n # p /\ n # far /\ (IF n = w THEN T.red[p] ELSE T.red[n]))
    BY <2>1, <1>0, <1>1, <1>3, <1>b
  <2> HIDE DEF f, C
  <2>5. C.red = f /\ C \in Trees /\ C.root = T.root /\ C.ch = T.ch /\ C.par = T.par
    BY <2>2, <2>3, <1>0, PaintIs
  <2> QED  BY <2>4, <2>5
<1> HIDE DEF C
<1>2. /\ InOrder(Q, B) /\ Q.red = C.red
      /\ Q.root = IF p = T.root THEN w ELSE T.root
      /\ \A c \in Sides, n \in RbNodes :
           Q.ch[c][n] = IF n = p /\ c = o THEN T.ch[d][w]
                        ELSE IF n = w /\ c = d THEN p
                        ELSE IF n \in B /\ T.ch[c][n] = p THEN w ELSE T.ch[c][n]
      /\ \A n \in RbNodes :
           Q.par[n] = IF n = p THEN w ELSE IF n = w THEN T.par[p]
                      ELSE IF n = T.ch[d][w] /\ T.ch[d][w] # 0 THEN p ELSE T.par[n]
  BY <1>a, <1>b, <1>c, <1>s, <1>0, <1>1, <1>e, TurnIs
<1>q. Q \in Trees  BY <1>2, Neighbours
<1> HIDE DEF Q
<1>6. /\ Q.ch[d][w] = p /\ Q.ch[o][w] = far /\ Q.par[p] = w /\ Q.par[far] = w
      /\ p # Q.root /\ far # Q.root /\ ~Q.red[p] /\ ~Q.red[far] /\ ~Q.red[0] /\ Q.root # 0 /\ Q.root \in B
  <2>1. Q.ch[d][w] = p /\ Q.ch[o][w] = far  BY <1>2, <1>0, <1>1, <1>3, <1>b, <1>s, <1>e
  <2>p. Q.par[p] = w  BY <1>2, <1>0, <1>1, <1>3, <1>b, <1>e
  <2>f. Q.par[far] = w  BY <1>2, <1>0, <1>1, <1>3, <1>b, <1>e
  <2>2. Q.par[p] = w /\ Q.par[far] = w  BY <2>p, <2>f
  <2>3. ~Q.red[p] /\ ~Q.red[far] /\ ~Q.red[0]  BY <1>2, <1>c, <1>0, <1>1, <1>3, <1>b
  <2>4. p # Q.root /\ far # Q.root  BY <1>2, <1>1, <1>3
  <2>5. Q.root # 0 /\ Q.root \in B
    <3>1. T.root \in B \cup {0} /\ (T.root = 0 => B = {})  BY <1>a, Neighbours
    <3> QED  BY <3>1, <1>2, <1>0, <1>1
  <2> QED  BY <2>1, <2>2, <2>3, <2>4, <2>5
<1>7. \A n \in B : n # Q.root /\ Q.par[n] = w => n = p \/ n = far
  BY <1>2, <1>1, <1>6, <1>s, TwoChildren
<1>8. Balanced(Q, B, Q.root, Q.par[0], SideOf(Q, 0))
  <2> DEFINE V == [n \in RbNodes |-> IF n = p THEN W[n] + 1 ELSE IF n = x \/ n = w THEN W[n] - 1 ELSE W[n]]
             V1 == [n \in RbNodes |-> IF n = p THEN 0 ELSE IF n = w THEN V[p] ELSE V[n]]
             W1 == Wt(Q, NoNode)
             W2 == Wt(Q, Q.root)
             L0 == Lf(NoNode, 0, "l")
             L2 == Lf(Q.root, Q.par[0], SideOf(Q, 0))
  <2>1. PICK H : Even(T, B, W, L, H)  BY <1>a DEF Balanced
  <2>2. /\ W \in [RbNodes -> Nat]
        /\ \A n \in RbNodes :
             W[n] = IF T.red[n] THEN IF x = n THEN 1 ELSE 0 ELSE IF x = n THEN 2 ELSE 1
    BY <1>0, WtIs
  <2>3. \A c \in Sides, n \in RbNodes : L[c][n] = IF x = 0 /\ n = p /\ c = d THEN 1 ELSE 0
    BY LfIs
  <2>4. /\ W1 \in [RbNodes -> Nat] /\ L0 \in [Sides -> [RbNodes -> Nat]]
        /\ \A n \in RbNodes : W1[n] = IF Q.red[n] THEN 0 ELSE 1
        /\ \A c \in Sides, n \in RbNodes : L0[c][n] = 0
    BY <1>q, Plain
  <2>5. /\ W2 \in [RbNodes -> Nat]
        /\ \A n \in RbNodes :
             W2[n] = IF Q.red[n] THEN IF Q.root = n THEN 1 ELSE 0 ELSE IF Q.root = n THEN 2 ELSE 1
    BY <1>q, WtIs
  <2>6. /\ L2 \in [Sides -> [RbNodes -> Nat]]
        /\ \A c \in Sides, n \in RbNodes : L2[c][n] = 0
    BY <1>6, LfIs
  <2>x. x \in RbNodes /\ p \in RbNodes /\ w \in RbNodes  BY <1>0, <1>1, <1>b
  <2> HIDE DEF W, W1, W2, L, L0, L2
  <2>7. W[x] = 2 /\ W[w] = 1 /\ W[p] = IF T.red[p] THEN 0 ELSE 1
    BY <2>2, <2>x, <1>1, <1>b
  <2>8. /\ V \in [RbNodes -> Nat] /\ V[p] = W[p] + 1 /\ V[x] = 1 /\ V[w] = 0
        /\ \A n \in RbNodes : n \notin {p, x, w} => V[n] = W[n]
    BY <2>2, <2>7, <2>x, <1>1
  <2> HIDE DEF V
  <2>9. ASSUME NEW n \in B
        PROVE  V[n] = IF n = p THEN W[n] + 1
                       ELSE IF n # T.root /\ T.par[n] = p THEN W[n] - 1 ELSE W[n]
    <3>0. n \in RbNodes /\ n # 0  BY <1>0
    <3>1. CASE n = p  BY <3>1, <2>8
    <3>2. CASE n = x
      <4>1. n # p /\ n # T.root /\ T.par[n] = p  BY <3>0, <3>2, <1>1, <1>b
      <4> QED  BY <4>1, <3>2, <2>7, <2>8
    <3>3. CASE n = w
      <4>1. n # p /\ n # T.root /\ T.par[n] = p  BY <3>3, <1>1
      <4> QED  BY <4>1, <3>3, <2>7, <2>8
    <3>4. CASE n \notin {p, x, w}
      <4>1. V[n] = W[n]  BY <3>0, <3>4, <2>8
      <4> QED  BY <4>1, <3>4, <1>5
    <3> QED  BY <3>1, <3>2, <3>3, <3>4
  <2>10. ASSUME NEW n \in B, NEW c \in Sides, T.ch[c][n] = 0
        PROVE  L0[c][n] = IF n = p THEN L[c][n] - 1 ELSE L[c][n]
    <3>1. CASE n = p
      <4>1. c = d /\ x = 0  BY <2>10, <3>1, <1>b, <1>1, <1>s
      <4>2. L[c][n] = 1 /\ L0[c][n] = 0  BY <3>1, <4>1, <2>3, <2>4, <1>0, <1>s, <1>b
      <4> QED  BY <3>1, <4>2
    <3>2. CASE n # p
      BY <3>2, <2>3, <2>4, <1>0
    <3> QED  BY <3>1, <3>2
  <2>11. Shifted(T, B, p, 1, W, L, V, L0)  BY <2>4, <2>8, <2>9, <2>10, <1>b DEF Shifted
  <2>12. PICK H1 : Even(T, B, V, L0, H1)  BY <2>1, <2>11, <1>a, ShiftEven
  <2>13. /\ V1 \in [RbNodes -> Nat] /\ V1[p] = 0 /\ V1[w] = W[p] + 1
         /\ \A n \in RbNodes : n \notin {p, w} => V1[n] = V[n]
         /\ \A n \in B : V1[n] = IF n = p THEN 0 ELSE IF n = w THEN V[p] ELSE V[n]
    <3>1. W[p] + 1 \in Nat /\ \A n \in RbNodes : V[n] \in Nat  BY <2>2, <2>8, <2>x
    <3> QED  BY <3>1, <2>8, <2>x, <1>0, <1>1
  <2> HIDE DEF V1
  <2>14. \A n \in B, c \in Sides :
          Q.ch[c][n] = 0 => L0[c][n] = IF n = p /\ c = o THEN L0[d][w] ELSE L0[c][n]
    BY <2>4, <1>0, <1>1, <1>b, <1>s
  <2>15. Turned(T, B, p, d, o, w, V, L0, Q, V1, L0)
    BY <2>4, <2>8, <2>13, <2>14, <1>2, <1>1, <1>b, <1>s DEF Turned
  <2>16. PICK H2 : Even(Q, B, V1, L0, H2)  BY <2>12, <2>15, <1>a, TurnEven
  <2>17. ASSUME NEW n \in B
         PROVE  W1[n] = IF n = w THEN V1[n] + (-1)
                        ELSE IF n # Q.root /\ Q.par[n] = w THEN V1[n] - (-1) ELSE V1[n]
    <3>0. n \in RbNodes /\ n # 0  BY <1>0
    <3>1. CASE n = w
      <4>1. W1[n] = IF T.red[p] THEN 0 ELSE 1
        BY <3>0, <3>1, <2>4, <1>2, <1>c, <1>1, <1>3
      <4> QED  BY <3>1, <4>1, <2>7, <2>13
    <3>2. CASE n = p
      <4>1. W1[n] = 1 /\ V1[n] = 0  BY <3>0, <3>2, <2>4, <2>13, <1>6
      <4> QED  BY <3>2, <4>1, <1>1, <1>6
    <3>3. CASE n = far
      <4>1. W1[n] = 1  BY <3>0, <3>3, <2>4, <1>6
      <4>2. V1[n] = V[n] /\ V[n] = W[n] /\ W[n] = 0
        BY <3>0, <3>3, <2>2, <2>8, <2>13, <1>3, <1>b
      <4> QED  BY <3>3, <4>1, <4>2, <1>3, <1>6
    <3>4. CASE n \notin {p, w, far}
      <4>1. V1[n] = V[n]  BY <3>0, <3>4, <2>13
      <4>2. W1[n] = IF T.red[n] THEN 0 ELSE 1  BY <3>0, <3>4, <2>4, <1>2, <1>c
      <4>3. V[n] = IF T.red[n] THEN 0 ELSE 1
        <5>1. CASE n = x  BY <5>1, <2>8, <1>b
        <5>2. CASE n # x  BY <5>2, <3>0, <3>4, <2>2, <2>8
        <5> QED  BY <5>1, <5>2
      <4>4. W1[n] = V1[n]  BY <4>1, <4>2, <4>3
      <4> QED  BY <4>4, <3>4, <1>7
    <3> QED  BY <3>1, <3>2, <3>3, <3>4
  <2>18. ASSUME NEW n \in B, NEW c \in Sides, Q.ch[c][n] = 0
         PROVE  L0[c][n] = IF n = w THEN L0[c][n] - (-1) ELSE L0[c][n]
    <3>1. n # w  BY <2>18, <1>6, <1>3, <1>0, <1>b, <1>s
    <3> QED  BY <3>1
  <2>19. Shifted(Q, B, w, -1, V1, L0, W1, L0)  BY <2>4, <2>17, <2>18, <1>1 DEF Shifted
  <2>20. PICK H3 : Even(Q, B, W1, L0, H3)  BY <2>16, <2>19, <1>2, ShiftEven
  <2>21. \A n \in B : n # Q.root => W2[n] = W1[n]  BY <2>4, <2>5, <1>0
  <2>22. \A n \in B, c \in Sides : Q.ch[c][n] = 0 => L2[c][n] = L0[c][n]  BY <2>4, <2>6, <1>0
  <2>23. \E H4 : Even(Q, B, W2, L2, H4)
    BY <2>20, <2>21, <2>22, <2>5, <2>6, <1>2, RootEven
  <2> QED  BY <2>23 DEF Balanced, W2, L2
<1>9. Clean(Q, B)
  <2> SUFFICES ASSUME NEW n \in B, Bad(Q, n) PROVE FALSE  BY DEF Clean
  <2>1. n \in RbNodes /\ C.red[n] /\ (n = Q.root \/ C.red[Q.par[n]]) /\ n # p /\ n # far
    BY <1>0, <1>2, <1>6, <1>c DEF Bad
  <2>2. CASE n = w
    <3>1. T.red[p]  BY <2>1, <2>2, <1>c
    <3>2. p # T.root /\ ~T.red[T.par[p]]  BY <3>1, <1>a, <1>b DEF Bad, Clean
    <3>3. T.par[p] \in B /\ T.par[p] # p /\ T.par[p] # w
      BY <3>2, <1>a, <1>b, <1>s, <1>1, Neighbours
    <3>4. Q.par[n] = T.par[p] /\ n # Q.root  BY <2>2, <3>2, <1>2, <1>0, <1>1
    <3> QED  BY <2>1, <3>2, <3>3, <3>4, <1>c, <1>0
  <2>3. CASE n # w
    <3>1. T.red[n] /\ n # T.root /\ ~T.red[T.par[n]]  BY <2>1, <2>3, <1>a, <1>c DEF Bad, Clean
    <3>2. n # Q.root  BY <3>1, <2>3, <1>2
    <3>3. CASE n = b
      <4>1. Q.par[n] = p  BY <3>3, <2>1, <2>3, <1>2, <1>0, <1>e
      <4> QED  BY <4>1, <2>1, <3>2, <1>c, <1>0, <1>b
    <3>4. CASE n # b
      <4>1. Q.par[n] = T.par[n] /\ T.par[n] \in RbNodes
        BY <3>1, <3>4, <2>1, <2>3, <1>2, <1>0, <1>a, <1>e, Neighbours
      <4>2. T.par[n] = w  BY <2>1, <3>1, <3>2, <4>1, <1>c
      <4>3. n = T.ch[d][w] \/ n = T.ch[Other(d)][w]  BY <3>1, <4>2, <1>a, <1>1, <1>s, TwoChildren
      <4> QED  BY <4>3, <3>4, <2>1, <1>e, <1>s
    <3> QED  BY <3>3, <3>4
  <2> QED  BY <2>2, <2>3
<1>10. Repairing(Q, B, Q.root)
  BY <1>2, <1>6, <1>8, <1>9 DEF Repairing, Clean
<1> QED  BY <1>10, <1>l

\* One iteration of rbtree_delete_fixup.
LEMMA DeleteFixupKeeps ==
  ASSUME NEW T, NEW B, NEW x, Repairing(T, B, x), x # T.root, ~T.red[x]
  PROVE  Repairing(DeleteFixup(T, x).T, B, DeleteFixup(T, x).x)
<1> DEFINE d == SideOf(T, x)
           o == Other(d)
           p == T.par[x]
           w0 == T.ch[o][p]
           T1 == IF T.red[w0]
                   THEN Rotate([T EXCEPT !.red[w0] = FALSE, !.red[p] = TRUE], p, d)
                   ELSE T
           w1 == T1.ch[o][T1.par[x]]
           near == T1.ch[d][w1]
           far  == T1.ch[o][w1]
           T2 == IF ~T1.red[far]
                   THEN Rotate([T1 EXCEPT !.red[near] = FALSE, !.red[w1] = TRUE], w1, o)
                   ELSE T1
           w2 == T2.ch[o][T2.par[x]]
           T3 == LastCase(T2, x, w2, d)
<1>1. DeleteFixup(T, x) = IF ~T1.red[near] /\ ~T1.red[far]
                            THEN [T |-> [T1 EXCEPT !.red[w1] = TRUE], x |-> T1.par[x]]
                            ELSE [T |-> T3, x |-> T3.root]
  BY Zenon DEF DeleteFixup
<1>2. Lacking(T, B, x, p, d)
  <2>1. /\ InOrder(T, B) /\ x \in B \cup {0} /\ ~T.red[0] /\ Joined(T, B)
        /\ Balanced(T, B, x, T.par[0], SideOf(T, 0))
        /\ x = 0 /\ B # {} => T.par[0] \in B /\ T.ch[SideOf(T, 0)][T.par[0]] = 0
        /\ \A n \in B : Bad(T, n) => n = x \/ (x # 0 /\ n # T.root /\ T.par[n] = x)
    BY DEF Repairing, InOrder
  <2>2. Clean(T, B)
    <3> SUFFICES ASSUME NEW n \in B, Bad(T, n) PROVE FALSE  BY DEF Clean
    <3>1. n = x \/ (n # T.root /\ T.par[n] = x)  BY <2>1
    <3> QED  BY <3>1 DEF Bad
  <2>3. CASE x = 0
    <3>1. B # {} /\ 0 \notin B  BY <2>1, <2>3, Neighbours
    <3>2. p \in B /\ T.ch[d][p] = 0 /\ Balanced(T, B, x, p, d)  BY <3>1, <2>1, <2>3
    <3>3. d \in Sides  BY DEF SideOf, Sides
    <3> HIDE DEF d
    <3>4. T.par[x] = p  OBVIOUS
    <3> HIDE DEF p
    <3> QED  BY <3>2, <3>3, <3>4, <2>1, <2>2, <2>3 DEF Lacking
  <2>4. CASE x # 0
    <3>1. x \in B  BY <2>1, <2>4
    <3>2. p \in B /\ \E c \in Sides : T.ch[c][p] = x  BY <3>1, <2>1, Neighbours
    <3>3. PICK c \in Sides : T.ch[c][p] = x  BY <3>2
    <3>4. d = c  BY <3>1, <3>2, <3>3, <2>1, SideIs
    <3>5. Lf(x, p, d) = Lf(x, T.par[0], SideOf(T, 0))  BY <2>4, LfNone
    <3>6. T.par[x] = p  OBVIOUS
    <3> HIDE DEF p, d
    <3>7. Balanced(T, B, x, p, d)  BY <3>5, <2>1 DEF Balanced
    <3> QED  BY <3>2, <3>3, <3>4, <3>6, <3>7, <2>1, <2>2 DEF Lacking
  <2> QED  BY <2>3, <2>4
<1> HIDE DEF d, p
<1>3. Lacking(T1, B, x, p, d) /\ ~T1.red[w1] /\ T1.par[x] = p /\ w1 = T1.ch[o][p]
  <2>1. CASE T.red[w0]
    <3>1. T1 = SiblingRaised(T, p, w0, d)  BY <2>1 DEF SiblingRaised
    <3> DEFINE R == SiblingRaised(T, p, w0, d)
    <3>2. Lacking(R, B, x, p, d) /\ ~R.red[R.ch[o][p]]  BY <2>1, <1>2, RedSibling
    <3>3. R.par[x] = p  BY <3>2 DEF Lacking
    <3> HIDE DEF R
    <3>4. T1 = R  BY <3>1 DEF R
    <3> HIDE DEF T1
    <3> QED  BY <3>2, <3>3, <3>4
  <2>2. CASE ~T.red[w0]
    <3>1. T1 = T  BY <2>2
    <3>2. T.par[x] = p  BY <1>2 DEF Lacking
    <3> HIDE DEF T1
    <3> QED  BY <3>1, <3>2, <2>2, <1>2
  <2> QED  BY <2>1, <2>2
<1> HIDE DEF T1
<1>4. IsSibling(T1, p, d, w1)  BY <1>3 DEF IsSibling
<1> HIDE DEF w1
<1>5. CASE ~T1.red[near] /\ ~T1.red[far]
  <2>1. Repairing([T1 EXCEPT !.red[w1] = TRUE], B, p)  BY <1>3, <1>4, <1>5, BothBlack
  <2>2. DeleteFixup(T, x).T = [T1 EXCEPT !.red[w1] = TRUE] /\ DeleteFixup(T, x).x = p
    BY <1>1, <1>3, <1>5
  <2> QED  BY <2>1, <2>2
<1>6. CASE ~(~T1.red[near] /\ ~T1.red[far])
  <2>1. Lacking(T2, B, x, p, d) /\ ~T2.red[w2] /\ T2.red[T2.ch[o][w2]] /\ w2 = T2.ch[o][p]
    <3>1. CASE ~T1.red[far]
      <4> DEFINE R == NearRaised(T1, w1, near, o)
      <4>1. T2 = R  BY <3>1 DEF NearRaised
      <4>2. Lacking(R, B, x, p, d) /\ ~R.red[R.ch[o][p]] /\ R.red[R.ch[o][R.ch[o][p]]]
        BY <3>1, <1>3, <1>4, <1>6, NearRed
      <4>3. R.par[x] = p  BY <4>2 DEF Lacking
      <4> HIDE DEF R, T2
      <4> QED  BY <4>1, <4>2, <4>3
    <3>2. CASE T1.red[far]
      <4>1. T2 = T1  BY <3>2
      <4> HIDE DEF T2
      <4> QED  BY <4>1, <3>2, <1>3
    <3> QED  BY <3>1, <3>2
  <2> HIDE DEF T2
  <2>2. IsSibling(T2, p, d, w2)  BY <2>1 DEF IsSibling
  <2> HIDE DEF w2
  <2>3. Repairing(T3, B, T3.root)  BY <2>1, <2>2, FarRed
  <2> HIDE DEF T3
  <2>4. DeleteFixup(T, x).T = T3 /\ DeleteFixup(T, x).x = T3.root  BY <1>1, <1>6
  <2> QED  BY <2>3, <2>4
<1> QED  BY <1>5, <1>6

\* Nothing is wrong: between operations.
Sound(T, B) ==
  InOrder(T, B) /\ Balanced(T, B, NoNode, 0, "l") /\ Clean(T, B) /\ ~T.red[0]

\* The end of rbtree_insert_fixup: the root is black.
LEMMA InsertEnds ==
  ASSUME NEW T, NEW B, NEW z, Inserting(T, B, z), ~T.red[T.par[z]]
  PROVE  Sound([T EXCEPT !.red[T.root] = FALSE], B)
<1> DEFINE Q == [T EXCEPT !.red[T.root] = FALSE]
           W == Wt(T, NoNode)
           W1 == Wt(Q, NoNode)
           L == Lf(NoNode, 0, "l")
<1>a. InOrder(T, B) /\ Balanced(T, B, NoNode, 0, "l") /\ BadOnly(T, B, z) /\ z \in B /\ ~T.red[0]
  BY DEF Inserting
<1>0. T \in Trees /\ T.root \in RbNodes /\ 0 \in RbNodes /\ \A n \in B : n # 0 /\ n \in RbNodes
  BY <1>a, Neighbours
<1>2. /\ Q \in Trees /\ Q.root = T.root /\ Q.ch = T.ch /\ Q.par = T.par
      /\ \A n \in RbNodes : Q.red[n] <=> (n # T.root /\ T.red[n])
  <2> DEFINE f == [T.red EXCEPT ![T.root] = FALSE]
  <2>1. T.red \in [RbNodes -> BOOLEAN]  BY <1>0 DEF Trees
  <2>2. Q = Painted(T, f)  BY <1>0 DEF Painted, Trees
  <2>3. f \in [RbNodes -> BOOLEAN]  BY <2>1
  <2>4. \A n \in RbNodes : f[n] <=> (n # T.root /\ T.red[n])  BY <2>1, <1>0
  <2> HIDE DEF f, Q
  <2>5. Q.red = f /\ Q \in Trees /\ Q.root = T.root /\ Q.ch = T.ch /\ Q.par = T.par
    BY <2>2, <2>3, <1>0, PaintIs
  <2> QED  BY <2>4, <2>5
<1> HIDE DEF Q
<1>3. InOrder(Q, B)  BY <1>a, <1>2, PaintKeeps
<1>4. Balanced(Q, B, NoNode, 0, "l")
  <2>1. PICK H : Even(T, B, W, L, H)  BY <1>a DEF Balanced
  <2>2. /\ W1 \in [RbNodes -> Nat] /\ L \in [Sides -> [RbNodes -> Nat]]
        /\ \A n \in RbNodes : W1[n] = IF Q.red[n] THEN 0 ELSE 1
    BY <1>2, Plain
  <2>3. \A n \in RbNodes : W[n] = IF T.red[n] THEN 0 ELSE 1
    BY <1>0, Plain
  <2> HIDE DEF W, W1, L
  <2>4. \A n \in B : n # T.root => W1[n] = W[n]  BY <2>2, <2>3, <1>2, <1>0
  <2>5. PICK H1 : Even(T, B, W1, L, H1)  BY <2>1, <2>2, <2>4, <1>a, RootEven
  <2>6. Even(Q, B, W1, L, H1)  BY <2>5, <1>2 DEF Even, Hung
  <2> QED  BY <2>6 DEF Balanced, W1, L
<1>5. Clean(Q, B)
  <2> SUFFICES ASSUME NEW n \in B, Bad(Q, n) PROVE FALSE  BY DEF Clean
  <2>1. n # T.root /\ T.red[n] /\ Q.red[T.par[n]]  BY <1>2, <1>0 DEF Bad
  <2>2. T.par[n] \in RbNodes  BY <2>1, <1>a, <1>0, Neighbours
  <2>3. T.red[T.par[n]]  BY <2>1, <2>2, <1>2
  <2>4. n = z  BY <2>1, <2>3, <1>a DEF BadOnly, Bad
  <2> QED  BY <2>3, <2>4
<1>6. ~Q.red[0]  BY <1>2, <1>0, <1>a
<1>7. Sound(Q, B)  BY <1>3, <1>4, <1>5, <1>6 DEF Sound
<1> QED  BY <1>7 DEF Q

\* The end of rbtree_delete_fixup: the cursor is painted black.
LEMMA DeleteEnds ==
  ASSUME NEW T, NEW B, NEW x, Repairing(T, B, x), x = T.root \/ T.red[x]
  PROVE  Sound([T EXCEPT !.red[x] = FALSE], B)
<1> DEFINE Q == [T EXCEPT !.red[x] = FALSE]
           W == Wt(T, x)
           W1 == Wt(Q, NoNode)
           L == Lf(x, T.par[0], SideOf(T, 0))
           L1 == Lf(NoNode, 0, "l")
<1>a. /\ InOrder(T, B) /\ x \in B \cup {0} /\ ~T.red[0]
      /\ Balanced(T, B, x, T.par[0], SideOf(T, 0))
      /\ \A n \in B : Bad(T, n) => n = x \/ (x # 0 /\ n # T.root /\ T.par[n] = x)
  BY DEF Repairing
<1>0. /\ T \in Trees /\ T.root \in RbNodes /\ 0 \in RbNodes /\ \A n \in B : n # 0 /\ n \in RbNodes
      /\ T.root = 0 => B = {}
  BY <1>a, Neighbours
<1>1. x \in RbNodes /\ (x = 0 => B = {})  BY <1>a, <1>0
<1>2. /\ Q \in Trees /\ Q.root = T.root /\ Q.ch = T.ch /\ Q.par = T.par
      /\ \A n \in RbNodes : Q.red[n] <=> (n # x /\ T.red[n])
  <2> DEFINE f == [T.red EXCEPT ![x] = FALSE]
  <2>1. T.red \in [RbNodes -> BOOLEAN]  BY <1>0 DEF Trees
  <2>2. Q = Painted(T, f)  BY <1>0 DEF Painted, Trees
  <2>3. f \in [RbNodes -> BOOLEAN]  BY <2>1
  <2>4. \A n \in RbNodes : f[n] <=> (n # x /\ T.red[n])  BY <2>1, <1>1
  <2> HIDE DEF f, Q
  <2>5. Q.red = f /\ Q \in Trees /\ Q.root = T.root /\ Q.ch = T.ch /\ Q.par = T.par
    BY <2>2, <2>3, <1>0, PaintIs
  <2> QED  BY <2>4, <2>5
<1> HIDE DEF Q
<1>3. InOrder(Q, B)  BY <1>a, <1>2, PaintKeeps
<1>4. Balanced(Q, B, NoNode, 0, "l")
  <2>1. PICK H : Even(T, B, W, L, H)  BY <1>a DEF Balanced
  <2>2. /\ W1 \in [RbNodes -> Nat] /\ L1 \in [Sides -> [RbNodes -> Nat]]
        /\ \A n \in RbNodes : W1[n] = IF Q.red[n] THEN 0 ELSE 1
        /\ \A c \in Sides, n \in RbNodes : L1[c][n] = 0
    BY <1>2, Plain
  <2>3. \A n \in RbNodes :
             W[n] = IF T.red[n] THEN IF x = n THEN 1 ELSE 0 ELSE IF x = n THEN 2 ELSE 1
    BY <1>0, WtIs
  <2>4. \A c \in Sides, n \in B : L[c][n] = 0
    <3>1. CASE x = 0  BY <3>1, <1>1
    <3>2. CASE x # 0  BY <3>2, <1>0, LfIs
    <3> QED  BY <3>1, <3>2
  <2> HIDE DEF W, W1, L, L1
  <2>5. \A n \in B : n # T.root => W1[n] = W[n]
    <3> SUFFICES ASSUME NEW n \in B, n # T.root PROVE W1[n] = W[n]  OBVIOUS
    <3>1. CASE n = x  BY <3>1, <2>2, <2>3, <1>2, <1>0
    <3>2. CASE n # x  BY <3>2, <2>2, <2>3, <1>2, <1>0
    <3> QED  BY <3>1, <3>2
  <2>6. \A n \in B, c \in Sides : T.ch[c][n] = 0 => L1[c][n] = L[c][n]  BY <2>2, <2>4, <1>0
  <2>7. PICK H1 : Even(T, B, W1, L1, H1)  BY <2>1, <2>2, <2>5, <2>6, <1>a, RootEven
  <2>8. Even(Q, B, W1, L1, H1)  BY <2>7, <1>2 DEF Even, Hung
  <2> QED  BY <2>8 DEF Balanced, W1, L1
<1>5. Clean(Q, B)
  <2> SUFFICES ASSUME NEW n \in B, Bad(Q, n) PROVE FALSE  BY DEF Clean
  <2>1. n # x /\ T.red[n] /\ (n = T.root \/ Q.red[T.par[n]])  BY <1>2, <1>0 DEF Bad
  <2>2. CASE n = T.root  BY <2>1, <2>2, <1>a DEF Bad
  <2>3. CASE n # T.root
    <3>1. T.par[n] \in RbNodes  BY <2>3, <1>a, <1>0, Neighbours
    <3>2. T.red[T.par[n]] /\ T.par[n] # x  BY <2>1, <2>3, <3>1, <1>2
    <3> QED  BY <2>1, <3>2, <1>a DEF Bad
  <2> QED  BY <2>2, <2>3
<1>6. ~Q.red[0]  BY <1>2, <1>0, <1>a
<1>7. Sound(Q, B)  BY <1>3, <1>4, <1>5, <1>6 DEF Sound
<1> QED  BY <1>7 DEF Q

-----------------------------------------------------------------------------

\* f is a loop that starts at s and applies F at each of N turns.
Turns(f, S, s, F, N) ==
  f \in [0..N -> S] /\ f[0] = s /\ \A i \in 0..N : i # 0 => f[i] = F[f[i - 1]]

\* A loop of a fixed number of turns has a function of its states.
LEMMA LoopExists ==
  ASSUME NEW S, NEW s \in S, NEW F \in [S -> S], NEW N \in Nat
  PROVE  \E f : Turns(f, S, s, F, N)
<1> DEFINE Upto(m) == \E f \in [0..m -> S] : f[0] = s /\ \A i \in 0..m : i # 0 => f[i] = F[f[i - 1]]
           P == {m \in Nat : Upto(m)}
<1>1. 0 \in P
  <2> DEFINE f == [i \in 0..0 |-> s]
  <2>1. f \in [0..0 -> S] /\ f[0] = s /\ \A i \in 0..0 : i # 0 => f[i] = F[f[i - 1]]  OBVIOUS
  <2> HIDE DEF f
  <2> QED  BY <2>1
<1>2. ASSUME NEW m \in Nat, m \in P PROVE m + 1 \in P
  <2>1. PICK f \in [0..m -> S] : f[0] = s /\ \A i \in 0..m : i # 0 => f[i] = F[f[i - 1]]  BY <1>2
  <2> DEFINE g == [i \in 0..(m + 1) |-> IF i = m + 1 THEN F[f[m]] ELSE f[i]]
  <2>2. F[f[m]] \in S  BY <2>1
  <2>3. g \in [0..(m + 1) -> S]  BY <2>1, <2>2
  <2>4. g[0] = s /\ \A i \in 0..(m + 1) : g[i] = IF i = m + 1 THEN F[f[m]] ELSE f[i]  BY <2>1
  <2> HIDE DEF g
  <2>5. ASSUME NEW i \in 0..(m + 1), i # 0 PROVE g[i] = F[g[i - 1]]
    <3>1. CASE i = m + 1
      <4>1. i - 1 = m /\ m \in 0..(m + 1) /\ m # m + 1  BY <3>1
      <4> QED  BY <3>1, <4>1, <2>4
    <3>2. CASE i # m + 1
      <4>1. i \in 0..m /\ i - 1 \in 0..(m + 1) /\ i - 1 # m + 1  BY <2>5, <3>2
      <4> QED  BY <2>1, <2>4, <2>5, <3>2, <4>1
    <3> QED  BY <3>1, <3>2
  <2>6. Upto(m + 1)  BY <2>3, <2>4, <2>5
  <2> HIDE DEF Upto
  <2> QED  BY <2>6
<1>3. N \in P
  <2> HIDE DEF P
  <2> QED  BY <1>1, <1>2, AllNat
<1> QED  BY <1>3 DEF Turns

\* rbtree_search and rbtree_find_parent end at k, or below the node where k belongs.
LEMMA SearchIs ==
  ASSUME NEW T, NEW B, InOrder(T, B), NEW lo, NEW hi, Placed(T, B, lo, hi), NEW k \in RbKeys,
         NEW node, NEW above, node = Search(T, k).node, above = Search(T, k).above
  PROVE  /\ k \in B => node = k
         /\ k \notin B =>
              /\ node = 0 /\ above \in B \cup {0} /\ (above = 0 <=> B = {})
              /\ above # 0 =>
                   /\ T.ch[IF k < above THEN "l" ELSE "r"][above] = 0
                   /\ lo[above] < k /\ k < hi[above] /\ k # above
<1> DEFINE N == TreeSize + 1
           Spot == [node : B \cup {0}, above : B \cup {0}]
           Down(s) == IF s.node \in {Nil, k} THEN s
                      ELSE [node |-> T.ch[IF k < s.node THEN "l" ELSE "r"][s.node], above |-> s.node]
           Walk(f) == f = [i \in 0..(TreeSize + 1) |->
                             IF i = 0 THEN [node |-> T.root, above |-> Nil]
                             ELSE LET s == f[i - 1]
                                      n == s.node
                                  IN  IF n \in {Nil, k} THEN s
                                      ELSE [node |-> T.ch[IF k < n THEN "l" ELSE "r"][n], above |-> n]]
           at == CHOOSE f : Walk(f)
<1>1. Search(T, k) = at[TreeSize + 1]  BY DEF Search
<1>0. /\ Nil = 0 /\ TreeSize \in Nat /\ N \in Nat /\ k \in Nat /\ k # 0
      /\ k <= TreeSize
      /\ \A n \in B : n # 0 /\ n \in Nat /\ n \in RbNodes
      /\ 0 \notin B /\ T.root \in B \cup {0} /\ (T.root = 0 <=> B = {})
      /\ "l" \in Sides /\ "r" \in Sides
  <2>1. Nil = 0 /\ TreeSize \in Nat /\ k \in Nat /\ k # 0 /\ k <= TreeSize
    BY TreeAssumption DEF Nil, RbKeys
  <2>2. \A n \in B : n # 0 /\ n \in Nat /\ n \in RbNodes  BY Neighbours, NodeFacts
  <2>3. 0 \notin B /\ T.root \in B \cup {0} /\ (T.root = 0 <=> B = {})  BY Neighbours
  <2> QED  BY <2>1, <2>2, <2>3, SideFacts
<1>c. \A n \in B, c \in Sides : T.ch[c][n] \in B \cup {0}  BY Neighbours
<1>2. \A s \in Spot : Down(s) \in Spot
  <2> SUFFICES ASSUME NEW s \in Spot PROVE Down(s) \in Spot  OBVIOUS
  <2>1. CASE s.node \in {Nil, k}  BY <2>1
  <2>2. CASE s.node \notin {Nil, k}
    <3> DEFINE c == IF k < s.node THEN "l" ELSE "r"
    <3>1. s.node \in B /\ c \in Sides  BY <2>2, <1>0
    <3>2. T.ch[c][s.node] \in B \cup {0}  BY <3>1, <1>c
    <3> QED  BY <2>2, <3>1, <3>2
  <2> QED  BY <2>1, <2>2
<1>3. \E f : Walk(f)
  <2> DEFINE F == [s \in Spot |-> Down(s)]
             s0 == [node |-> T.root, above |-> 0]
  <2>1. F \in [Spot -> Spot] /\ s0 \in Spot  BY <1>0, <1>2
  <2>2. \A s \in Spot : F[s] = Down(s)  OBVIOUS
  <2>n. N \in Nat  BY <1>0
  <2> HIDE DEF F, Spot, N, s0
  <2>f. PICK f : Turns(f, Spot, s0, F, N)  BY <2>1, <2>n, LoopExists
  <2>3. f \in [0..N -> Spot] /\ f[0] = s0 /\ \A i \in 0..N : i # 0 => f[i] = F[f[i - 1]]
    BY <2>f DEF Turns
  <2>4. \A i \in 0..N : i # 0 => f[i - 1] \in Spot  BY <2>n, <2>3
  <2>5. \A i \in 0..N : f[i] = IF i = 0 THEN s0 ELSE Down(f[i - 1])  BY <2>2, <2>3, <2>4
  <2>6. f = [i \in 0..N |-> IF i = 0 THEN s0 ELSE Down(f[i - 1])]
    <3> HIDE DEF Down, s0
    <3> QED  BY <2>3, <2>5
  <2>7. Walk(f)  BY <2>6, <1>0 DEF N, s0
  <2> QED  BY <2>7
<1>4. Walk(at)
  <2> HIDE DEF Walk
  <2> QED  BY <1>3
<1>5. /\ at[0] = [node |-> T.root, above |-> 0]
      /\ \A i \in 0..N : i # 0 => at[i] = Down(at[i - 1])
  <2> HIDE DEF at
  <2>1. at = [i \in 0..N |-> IF i = 0 THEN [node |-> T.root, above |-> 0] ELSE Down(at[i - 1])]
    BY <1>4, <1>0
  <2>2. 0 \in 0..N  BY <1>0
  <2> HIDE DEF N, Walk, Down
  <2> QED  BY <2>1, <2>2
<1> HIDE DEF at, Walk
<1>p. /\ \A n \in B : lo[n] < n /\ n < hi[n] /\ lo[n] \in Int /\ hi[n] \in Int
      /\ T.root # 0 => lo[T.root] = 0 /\ hi[T.root] = TreeSize + 1
      /\ \A n \in B :
           /\ T.ch["l"][n] # 0 => lo[T.ch["l"][n]] = lo[n] /\ hi[T.ch["l"][n]] = n
           /\ T.ch["r"][n] # 0 => lo[T.ch["r"][n]] = n /\ hi[T.ch["r"][n]] = hi[n]
           /\ T.ch["l"][n] = 0 => \A m \in B : ~(lo[n] < m /\ m < n)
           /\ T.ch["r"][n] = 0 => \A m \in B : ~(n < m /\ m < hi[n])
  <2>1. \A n \in B : lo[n] \in Int /\ hi[n] \in Int  BY <1>0, BoundFacts
  <2> QED  BY <2>1 DEF Placed
<1> DEFINE Ends(a) == /\ k \notin B
                      /\ a = 0 <=> B = {}
                      /\ a # 0 => /\ T.ch[IF k < a THEN "l" ELSE "r"][a] = 0
                                  /\ lo[a] < k /\ k < hi[a] /\ k # a
           Good(i) == /\ at[i] \in Spot
                      /\ at[i].node # 0 => /\ lo[at[i].node] < k /\ k < hi[at[i].node]
                                           /\ at[i].node = k \/ hi[at[i].node] - lo[at[i].node] + i <= N
                      /\ at[i].node = 0 => Ends(at[i].above)
           P == {i \in Nat : i <= N => Good(i)}
<1>6. 0 \in P
  <2>1. at[0] \in Spot /\ at[0].node = T.root /\ at[0].above = 0  BY <1>5, <1>0
  <2>2. CASE T.root = 0  BY <2>1, <2>2, <1>0
  <2>3. CASE T.root # 0  BY <2>1, <2>3, <1>0, <1>p
  <2> QED  BY <2>2, <2>3
<1>7. ASSUME NEW i \in Nat, i \in P PROVE i + 1 \in P
  <2> SUFFICES ASSUME i + 1 <= N PROVE Good(i + 1)  OBVIOUS
  <2>1. i <= N /\ i + 1 \in 0..N /\ i + 1 # 0 /\ (i + 1) - 1 = i  BY <1>0
  <2>2. Good(i)  BY <1>7, <2>1
  <2>3. at[i + 1] = Down(at[i])  BY <2>1, <1>5
  <2> DEFINE n == at[i].node
             m == at[i + 1].node
             a == at[i + 1].above
  <2>4. at[i + 1] \in Spot
    <3> HIDE DEF Down, Spot
    <3> QED  BY <2>2, <2>3, <1>2
  <2>5. CASE n \in {Nil, k}
    <3>1. at[i + 1] = at[i]  BY <2>3, <2>5
    <3> QED  BY <3>1, <2>2, <2>5, <1>0
  <2>6. CASE n \notin {Nil, k} /\ k < n
    <3>1. n \in B /\ n \in Nat  BY <2>2, <2>6, <1>0
    <3>2. m = T.ch["l"][n] /\ a = n  BY <2>3, <2>6
    <3>3. lo[n] < k /\ k < hi[n] /\ hi[n] - lo[n] + i <= N  BY <2>2, <2>6, <1>0
    <3>4. lo[n] \in Int /\ hi[n] \in Int /\ n < hi[n]  BY <3>1, <1>p
    <3> HIDE DEF n, m, a
    <3>5. CASE m # 0
      <4>1. lo[m] = lo[n] /\ hi[m] = n  BY <3>1, <3>2, <3>5, <1>p
      <4>2. lo[m] < k /\ k < hi[m] /\ hi[m] - lo[m] + (i + 1) <= N
        BY <4>1, <3>1, <3>3, <3>4, <2>6, <1>0
      <4> QED  BY <4>2, <2>4, <3>5 DEF m
    <3>6. CASE m = 0
      <4>1. k \notin B  BY <3>1, <3>2, <3>3, <3>6, <2>6, <1>p
      <4>2. Ends(a)  BY <4>1, <3>1, <3>2, <3>3, <3>6, <2>6, <1>0
      <4> HIDE DEF Ends
      <4> QED  BY <4>2, <2>4, <3>6 DEF m, a
    <3> QED  BY <3>5, <3>6
  <2>7. CASE n \notin {Nil, k} /\ ~(k < n)
    <3>1. n \in B /\ n \in Nat /\ n < k  BY <2>2, <2>7, <1>0
    <3>2. m = T.ch["r"][n] /\ a = n  BY <2>3, <2>7
    <3>3. lo[n] < k /\ k < hi[n] /\ hi[n] - lo[n] + i <= N  BY <2>2, <2>7, <1>0
    <3>4. lo[n] \in Int /\ hi[n] \in Int /\ lo[n] < n  BY <3>1, <1>p
    <3> HIDE DEF n, m, a
    <3>5. CASE m # 0
      <4>1. lo[m] = n /\ hi[m] = hi[n]  BY <3>1, <3>2, <3>5, <1>p
      <4>2. lo[m] < k /\ k < hi[m] /\ hi[m] - lo[m] + (i + 1) <= N
        BY <4>1, <3>1, <3>3, <3>4, <1>0
      <4> QED  BY <4>2, <2>4, <3>5 DEF m
    <3>6. CASE m = 0
      <4>1. k \notin B  BY <3>1, <3>2, <3>3, <3>6, <1>p
      <4>2. Ends(a)  BY <4>1, <3>1, <3>2, <3>3, <3>6, <2>7, <1>0
      <4> HIDE DEF Ends
      <4> QED  BY <4>2, <2>4, <3>6 DEF m, a
    <3> QED  BY <3>5, <3>6
  <2> QED  BY <2>5, <2>6, <2>7
<1>8. N \in P
  <2> HIDE DEF P
  <2> QED  BY <1>6, <1>7, <1>0, AllNat
<1>9. Good(N)  BY <1>8, <1>0
<1>10. node = at[N].node /\ above = at[N].above /\ node \in B \cup {0} /\ above \in B \cup {0}
  BY <1>1, <1>9
<1>11. CASE node = 0
  BY <1>11, <1>9, <1>10
<1>12. CASE node # 0
  <2>1. lo[node] < k /\ k < hi[node] /\ (node = k \/ hi[node] - lo[node] + N <= N)
    BY <1>12, <1>9, <1>10
  <2>2. node \in B /\ lo[node] \in Int /\ hi[node] \in Int  BY <1>10, <1>12, <1>p
  <2>3. node = k  BY <2>1, <2>2, <1>0
  <2> QED  BY <2>2, <2>3
<1> QED  BY <1>11, <1>12

\* rbtree_mini finds the leftmost node, which has its parent's lower bound.
LEMMA MiniIs ==
  ASSUME NEW T, NEW B, InOrder(T, B), NEW lo, NEW hi, Placed(T, B, lo, hi), NEW n \in B,
         NEW y, y = Mini(T, n)
  PROVE  y \in B /\ T.ch["l"][y] = 0 /\ lo[y] = lo[n] /\ hi[y] <= hi[n]
<1> DEFINE Down(m) == IF T.ch["l"][m] = Nil THEN m ELSE T.ch["l"][m]
           Walk(f) == f = [i \in 0..TreeSize |->
                             IF i = 0 THEN n
                             ELSE LET m == f[i - 1] IN IF T.ch["l"][m] = Nil THEN m ELSE T.ch["l"][m]]
           down == CHOOSE f : Walk(f)
<1>1. Mini(T, n) = down[TreeSize]  BY DEF Mini
<1>0. /\ Nil = 0 /\ TreeSize \in Nat
      /\ \A m \in B : m # 0 /\ m \in Nat /\ m \in RbNodes
      /\ \A m \in B : T.ch["l"][m] \in B \cup {0}
      /\ \A m \in B : lo[m] < m /\ m < hi[m] /\ lo[m] \in Int /\ hi[m] \in Int
      /\ \A m \in B : T.ch["l"][m] # 0 => lo[T.ch["l"][m]] = lo[m] /\ hi[T.ch["l"][m]] = m
      /\ hi[n] - lo[n] <= TreeSize + 1
  <2>1. Nil = 0 /\ TreeSize \in Nat  BY TreeAssumption DEF Nil
  <2>2. \A m \in B : m # 0 /\ m \in Nat /\ m \in RbNodes  BY Neighbours, NodeFacts
  <2>3. \A m \in B : T.ch["l"][m] \in B \cup {0}  BY Neighbours, SideFacts
  <2>4. /\ \A m \in B : lo[m] < m /\ m < hi[m] /\ lo[m] \in Int /\ hi[m] \in Int
        /\ \A m \in B : T.ch["l"][m] # 0 => lo[T.ch["l"][m]] = lo[m] /\ hi[T.ch["l"][m]] = m
    <3>1. \A m \in B : lo[m] \in Int /\ hi[m] \in Int  BY <2>2, BoundFacts
    <3> QED  BY <3>1 DEF Placed
  <2>5. hi[n] - lo[n] <= TreeSize + 1  BY <2>2, BoundFacts
  <2> QED  BY <2>1, <2>2, <2>3, <2>4, <2>5
<1>2. \A m \in B : Down(m) \in B  BY <1>0
<1>3. \E f : Walk(f)
  <2> DEFINE F == [m \in B |-> Down(m)]
             N == TreeSize
             a == n
  <2>n. N \in Nat /\ a \in B  BY <1>0
  <2>1. F \in [B -> B]  BY <1>2
  <2>2. \A m \in B : F[m] = Down(m)  OBVIOUS
  <2> HIDE DEF F, N, a
  <2>f. PICK f : Turns(f, B, a, F, N)  BY <2>1, <2>n, LoopExists
  <2>3. f \in [0..N -> B] /\ f[0] = a /\ \A i \in 0..N : i # 0 => f[i] = F[f[i - 1]]
    BY <2>f DEF Turns
  <2>4. \A i \in 0..N : i # 0 => f[i - 1] \in B  BY <2>n, <2>3
  <2>5. \A i \in 0..N : f[i] = IF i = 0 THEN a ELSE Down(f[i - 1])  BY <2>2, <2>3, <2>4
  <2>6. f = [i \in 0..N |-> IF i = 0 THEN a ELSE Down(f[i - 1])]
    <3> HIDE DEF Down
    <3> QED  BY <2>3, <2>5
  <2>7. Walk(f)  BY <2>6 DEF N, a
  <2> QED  BY <2>7
<1>4. Walk(down)
  <2> HIDE DEF Walk
  <2> QED  BY <1>3
<1>5. down[0] = n /\ \A i \in 0..TreeSize : i # 0 => down[i] = Down(down[i - 1])
  <2> HIDE DEF down
  <2> QED  BY <1>4, <1>0
<1> HIDE DEF down, Walk
<1> DEFINE Good(i) == LET m == down[i]
                      IN  /\ m \in B /\ lo[m] = lo[n] /\ hi[m] <= hi[n]
                          /\ T.ch["l"][m] = 0 \/ hi[m] - lo[m] + i <= TreeSize + 1
           P == {i \in Nat : i <= TreeSize => Good(i)}
<1>6. 0 \in P  BY <1>5, <1>0
<1>7. ASSUME NEW i \in Nat, i \in P PROVE i + 1 \in P
  <2> SUFFICES ASSUME i + 1 <= TreeSize PROVE Good(i + 1)  OBVIOUS
  <2>1. i <= TreeSize /\ i + 1 \in 0..TreeSize /\ i + 1 # 0 /\ (i + 1) - 1 = i  BY <1>0
  <2> DEFINE m == down[i]
             q == down[i + 1]
  <2>2. q = Down(m)  BY <2>1, <1>5
  <2>3. m \in B /\ lo[m] = lo[n] /\ hi[m] <= hi[n] /\ (T.ch["l"][m] = 0 \/ hi[m] - lo[m] + i <= TreeSize + 1)
    BY <1>7, <2>1
  <2> HIDE DEF m, q
  <2>4. CASE T.ch["l"][m] = 0
    <3>1. q = m  BY <2>2, <2>4, <1>0
    <3> QED  BY <3>1, <2>3, <2>4 DEF q
  <2>5. CASE T.ch["l"][m] # 0
    <3>1. q = T.ch["l"][m] /\ q \in B /\ lo[q] = lo[m] /\ hi[q] = m  BY <2>2, <2>3, <2>5, <1>0
    <3>2. m \in Nat /\ m < hi[m] /\ hi[m] \in Int /\ lo[m] \in Int /\ hi[n] \in Int  BY <2>3, <1>0
    <3>3. hi[q] <= hi[n] /\ hi[q] - lo[q] + (i + 1) <= TreeSize + 1
      BY <3>1, <3>2, <2>3, <2>5, <1>0
    <3> QED  BY <3>1, <3>3, <2>3 DEF q
  <2> QED  BY <2>4, <2>5
<1>8. TreeSize \in P
  <2> HIDE DEF P
  <2> QED  BY <1>6, <1>7, <1>0, AllNat
<1>9. Good(TreeSize)  BY <1>8, <1>0
<1>10. y = down[TreeSize]  BY <1>1
<1>11. y \in B /\ lo[y] = lo[n] /\ hi[y] <= hi[n] /\ (T.ch["l"][y] = 0 \/ hi[y] - lo[y] + TreeSize <= TreeSize + 1)
  BY <1>9, <1>10
<1>12. lo[y] < y /\ y < hi[y] /\ lo[y] \in Int /\ hi[y] \in Int /\ y \in Nat  BY <1>11, <1>0
<1> QED  BY <1>11, <1>12, <1>0

-----------------------------------------------------------------------------

\* One pointer or colour changed.
WithChild(T, c, m, v) == [T EXCEPT !.ch[c][m] = v]
WithParent(T, m, v) == [T EXCEPT !.par[m] = v]
WithRoot(T, v) == [T EXCEPT !.root = v]

\* Q is T with v for the child of m on side c.
ChildIs(Q, T, c, m, v) ==
  /\ Q \in Trees /\ Q.root = T.root /\ Q.par = T.par /\ Q.red = T.red
  /\ \A a \in Sides, n \in RbNodes : Q.ch[a][n] = IF a = c /\ n = m THEN v ELSE T.ch[a][n]

\* Writing one child pointer.
LEMMA ChildSet ==
  ASSUME NEW T \in Trees, NEW c \in Sides, NEW m \in RbNodes, NEW v \in RbNodes,
         NEW Q, Q = WithChild(T, c, m, v)
  PROVE  ChildIs(Q, T, c, m, v)
<1>1. T.ch \in [Sides -> [RbNodes -> RbNodes]]  BY TreeParts
<1>2. Q.root = T.root /\ Q.par = T.par /\ Q.red = T.red /\ Q.ch = [T.ch EXCEPT ![c][m] = v]
  BY DEF Trees, WithChild
<1>3. Q.ch \in [Sides -> [RbNodes -> RbNodes]]  BY <1>1, <1>2
<1>4. Q \in Trees  BY <1>2, <1>3 DEF Trees, WithChild
<1>5. \A a \in Sides, n \in RbNodes : Q.ch[a][n] = IF a = c /\ n = m THEN v ELSE T.ch[a][n]
  BY <1>1, <1>2
<1> QED  BY <1>2, <1>4, <1>5 DEF ChildIs

\* Q is T with v for the parent of m.
ParentIs(Q, T, m, v) ==
  /\ Q \in Trees /\ Q.root = T.root /\ Q.ch = T.ch /\ Q.red = T.red
  /\ \A n \in RbNodes : Q.par[n] = IF n = m THEN v ELSE T.par[n]

\* Writing one parent pointer.
LEMMA ParentSet ==
  ASSUME NEW T \in Trees, NEW m \in RbNodes, NEW v \in RbNodes, NEW Q, Q = WithParent(T, m, v)
  PROVE  ParentIs(Q, T, m, v)
BY DEF Trees, WithParent, ParentIs

\* Writing the root.
LEMMA RootSet ==
  ASSUME NEW T \in Trees, NEW v \in RbNodes, NEW Q, Q = WithRoot(T, v)
  PROVE  /\ Q \in Trees /\ Q.root = v /\ Q.ch = T.ch /\ Q.par = T.par /\ Q.red = T.red
BY DEF Trees, WithRoot

\* The tree after kvs_rbtree_set has linked a new node, pointer by pointer.
LEMMA LinkedIs ==
  ASSUME NEW T \in Trees, NEW k \in RbKeys, NEW p \in RbNodes, p = Search(T, k).above, p # k,
         NEW Q, Q = RbLinked(T, k)
  PROVE  /\ Q \in Trees /\ Q.root = IF p = 0 THEN k ELSE T.root
         /\ \A n \in RbNodes : Q.par[n] = IF n = k THEN p ELSE T.par[n]
         /\ \A n \in RbNodes : Q.red[n] <=> (n = k \/ T.red[n])
         /\ \A c \in Sides, n \in RbNodes :
              Q.ch[c][n] = IF n = k THEN 0
                           ELSE IF n = p /\ p # 0 /\ c = (IF k < p THEN "l" ELSE "r") THEN k
                           ELSE T.ch[c][n]
<1> DEFINE A1 == WithChild(T, "l", k, 0)
           A2 == WithChild(A1, "r", k, 0)
           A3 == WithParent(A2, k, p)
           F  == [A3 EXCEPT !.red[k] = TRUE]
           s == IF k < p THEN "l" ELSE "r"
           R == IF p = Nil THEN WithRoot(F, k) ELSE WithChild(F, s, p, k)
<1>1. Q = R
  <2>1. F = [T EXCEPT !.ch["l"][k] = Nil, !.ch["r"][k] = Nil, !.par[k] = p, !.red[k] = TRUE]
    BY DEF WithChild, WithParent, Nil
  <2> DEFINE G == [T EXCEPT !.ch["l"][k] = Nil, !.ch["r"][k] = Nil,
                            !.par[k] = Search(T, k).above, !.red[k] = TRUE]
             q == Search(T, k).above
  <2>2. RbLinked(T, k) = IF q = Nil THEN [G EXCEPT !.root = k]
                         ELSE [G EXCEPT !.ch[IF k < q THEN "l" ELSE "r"][q] = k]
    BY Zenon DEF RbLinked
  <2>3. G = F /\ q = p  BY <2>1
  <2> HIDE DEF G, F, q
  <2> QED  BY <2>2, <2>3 DEF WithRoot, WithChild
<1>2. Nil = 0 /\ 0 \in RbNodes /\ k \in RbNodes /\ k # 0 /\ "l" \in Sides /\ "r" \in Sides
  BY NodeFacts, SideFacts
<1>3. /\ A1 \in Trees /\ A1.root = T.root /\ A1.par = T.par /\ A1.red = T.red
      /\ \A a \in Sides, n \in RbNodes : A1.ch[a][n] = IF a = "l" /\ n = k THEN 0 ELSE T.ch[a][n]
  <2>1. ChildIs(A1, T, "l", k, 0)  BY <1>2, ChildSet
  <2> QED  BY <2>1 DEF ChildIs
<1> HIDE DEF A1
<1>4. /\ A2 \in Trees /\ A2.root = T.root /\ A2.par = T.par /\ A2.red = T.red
      /\ \A a \in Sides, n \in RbNodes : A2.ch[a][n] = IF a = "r" /\ n = k THEN 0 ELSE A1.ch[a][n]
  BY <1>2, <1>3, ChildSet DEF ChildIs
<1> HIDE DEF A2
<1>5. /\ A3 \in Trees /\ A3.root = T.root /\ A3.ch = A2.ch /\ A3.red = T.red
      /\ \A n \in RbNodes : A3.par[n] = IF n = k THEN p ELSE T.par[n]
  <2>1. A2 \in Trees /\ k \in RbNodes /\ p \in RbNodes  BY <1>2, <1>4
  <2>2. /\ A3 \in Trees /\ A3.root = A2.root /\ A3.ch = A2.ch /\ A3.red = A2.red
        /\ \A n \in RbNodes : A3.par[n] = IF n = k THEN p ELSE A2.par[n]
    <3>1. ParentIs(A3, A2, k, p)  BY ONLY <2>1, ParentSet
    <3> QED  BY <3>1 DEF ParentIs
  <2> QED  BY <2>2, <1>4
<1> HIDE DEF A3
<1>6. /\ F \in Trees /\ F.root = T.root /\ F.ch = A2.ch /\ F.par = A3.par
      /\ F.red[k] /\ \A n \in RbNodes : n # k => F.red[n] = A3.red[n]
  <2> DEFINE f == [A3.red EXCEPT ![k] = TRUE]
  <2>1. A3.red \in [RbNodes -> BOOLEAN]  BY <1>5 DEF Trees
  <2>2. f \in [RbNodes -> BOOLEAN] /\ f[k] = TRUE /\ \A n \in RbNodes : n # k => f[n] = A3.red[n]
    BY <2>1, <1>2
  <2>3. F = Painted(A3, f)  BY <1>5 DEF Painted, Trees
  <2> HIDE DEF f, F
  <2>4. F.red = f /\ F \in Trees /\ F.root = A3.root /\ F.ch = A3.ch /\ F.par = A3.par
    BY <2>2, <2>3, <1>5, PaintIs
  <2> QED  BY <2>2, <2>4, <1>5
<1> HIDE DEF F
<1>7. \A c \in Sides, n \in RbNodes : F.ch[c][n] = IF n = k THEN 0 ELSE T.ch[c][n]
  BY <1>3, <1>4, <1>6 DEF Sides
<1>8. \A n \in RbNodes : F.red[n] <=> (n = k \/ T.red[n])  BY <1>5, <1>6
<1>9. CASE p = 0
  <2>1. R = WithRoot(F, k)  BY <1>9, <1>2
  <2> HIDE DEF R
  <2>2. R \in Trees /\ R.root = k /\ R.ch = F.ch /\ R.par = F.par /\ R.red = F.red
    <3>1. F \in Trees /\ k \in RbNodes  BY <1>2, <1>6
    <3> QED  BY ONLY <2>1, <3>1, RootSet
  <2> QED  BY <2>2, <1>1, <1>5, <1>6, <1>7, <1>8, <1>9
<1>10. CASE p # 0
  <2>0. PICK t \in Sides : t = s  BY <1>2
  <2>1. R = WithChild(F, t, p, k)  BY <2>0, <1>10, <1>2
  <2> HIDE DEF R, s
  <2>2. /\ R \in Trees /\ R.root = F.root /\ R.par = F.par /\ R.red = F.red
        /\ \A a \in Sides, n \in RbNodes : R.ch[a][n] = IF a = t /\ n = p THEN k ELSE F.ch[a][n]
    <3>1. F \in Trees /\ k \in RbNodes /\ p \in RbNodes  BY <1>2, <1>6
    <3>2. ChildIs(R, F, t, p, k)  BY ONLY <2>1, <3>1, ChildSet
    <3> QED  BY <3>2 DEF ChildIs
  <2>3. \A c \in Sides, n \in RbNodes :
              Q.ch[c][n] = IF n = k THEN 0
                           ELSE IF n = p /\ p # 0 /\ c = t THEN k ELSE T.ch[c][n]
    BY <2>2, <1>1, <1>7, <1>10
  <2> QED  BY <2>0, <2>2, <2>3, <1>1, <1>5, <1>6, <1>8, <1>10 DEF s
<1> QED  BY <1>9, <1>10

\* An end of a node's interval is the end of all keys, or an ancestor that has
\* a child on that side.
LEMMA Edges ==
  ASSUME NEW T, NEW B, InOrder(T, B), NEW lo, NEW hi, Placed(T, B, lo, hi)
  PROVE  \A n \in B : /\ lo[n] = 0 \/ (lo[n] \in B /\ T.ch["r"][lo[n]] # 0)
                      /\ hi[n] = TreeSize + 1 \/ (hi[n] \in B /\ T.ch["l"][hi[n]] # 0)
<1> DEFINE W(n) == hi[n] - lo[n]
           Ok(n) == /\ lo[n] = 0 \/ (lo[n] \in B /\ T.ch["r"][lo[n]] # 0)
                    /\ hi[n] = TreeSize + 1 \/ (hi[n] \in B /\ T.ch["l"][hi[n]] # 0)
           N == TreeSize + 1
           P == {m \in Nat : \A n \in B : W(n) + m >= N => Ok(n)}
<1>0. /\ TreeSize \in Nat /\ N \in Nat
      /\ \A n \in B : n # 0 /\ n \in RbNodes /\ W(n) \in Int /\ W(n) <= N /\ lo[n] < hi[n]
      /\ T.root \in B \cup {0}
  <2>1. \A n \in B : n # 0 /\ n \in RbNodes /\ n \in Nat  BY Neighbours, NodeFacts
  <2>2. \A n \in B : lo[n] \in Int /\ hi[n] \in Int /\ W(n) <= N  BY <2>1, BoundFacts
  <2>3. \A n \in B : lo[n] < n /\ n < hi[n]  BY DEF Placed
  <2> QED  BY <2>1, <2>2, <2>3, Neighbours, TreeAssumption
<1>1. T.root # 0 => Ok(T.root)  BY DEF Placed
<1>2. ASSUME NEW n \in B, n # T.root
      PROVE  T.par[n] \in B /\ W(n) < W(T.par[n]) /\ (Ok(T.par[n]) => Ok(n))
  <2> DEFINE q == T.par[n]
  <2>1. q \in B /\ n # 0  BY <1>0, <1>2, Neighbours
  <2>2. PICK c \in Sides : T.ch[c][q] = n  BY <1>2, Neighbours
  <2>3. Joined(T, B)  BY DEF InOrder
  <2> HIDE DEF q
  <2>4. W(n) < W(q)  BY <2>1, <2>2, <2>3, Narrower
  <2>5. \/ lo[n] = lo[q] /\ hi[n] = q /\ T.ch["l"][q] # 0
        \/ lo[n] = q /\ hi[n] = hi[q] /\ T.ch["r"][q] # 0
    BY <2>1, <2>2 DEF Placed, Sides
  <2>6. Ok(q) => Ok(n)  BY <2>1, <2>5
  <2> QED  BY <2>1, <2>4, <2>6 DEF q
<1> HIDE DEF Ok, W
<1>3. 0 \in P
  <2> SUFFICES ASSUME NEW n \in B, W(n) + 0 >= N PROVE Ok(n)  OBVIOUS
  <2>1. n = T.root
    <3> SUFFICES ASSUME n # T.root PROVE FALSE  OBVIOUS
    <3>1. W(n) < W(T.par[n]) /\ W(T.par[n]) <= N /\ W(n) \in Int /\ W(T.par[n]) \in Int
      BY <1>0, <1>2
    <3> QED  BY <3>1, <1>0
  <2> QED  BY <2>1, <1>0, <1>1
<1>4. ASSUME NEW m \in Nat, m \in P PROVE m + 1 \in P
  <2> SUFFICES ASSUME NEW n \in B, W(n) + (m + 1) >= N PROVE Ok(n)  OBVIOUS
  <2>1. CASE n = T.root  BY <2>1, <1>0, <1>1
  <2>2. CASE n # T.root
    <3>1. T.par[n] \in B /\ W(n) < W(T.par[n]) /\ (Ok(T.par[n]) => Ok(n))  BY <2>2, <1>2
    <3>2. W(n) \in Int /\ W(T.par[n]) \in Int  BY <3>1, <1>0
    <3>3. W(T.par[n]) + m >= N  BY <3>1, <3>2, <1>0
    <3> QED  BY <3>1, <3>3, <1>4
  <2> QED  BY <2>1, <2>2
<1>5. \A m \in Nat : m \in P
  <2> HIDE DEF P
  <2> QED  BY <1>3, <1>4, AllNat
<1>6. ASSUME NEW n \in B PROVE Ok(n)
  <2>1. N + 1 \in P  BY <1>5, <1>0
  <2>2. W(n) \in Nat  BY <1>0 DEF W, Bounds, Placed
  <2>3. W(n) + (N + 1) >= N  BY <2>2, <1>0
  <2> QED  BY <2>1, <2>3
<1> QED  BY <1>6 DEF Ok

\* k belongs where n has no child on side c.
Gap(T, lo, hi, n, c, k) ==
  T.ch[c][n] = 0 /\ IF c = "l" THEN lo[n] < k /\ k < n ELSE n < k /\ k < hi[n]

\* There is one such place.
LEMMA OneGap ==
  ASSUME NEW T, NEW B, InOrder(T, B), NEW lo, NEW hi, Placed(T, B, lo, hi), NEW k \in RbKeys, k \notin B,
         NEW n \in B, NEW c \in Sides, Gap(T, lo, hi, n, c, k),
         NEW p \in B, NEW s \in Sides, Gap(T, lo, hi, p, s, k)
  PROVE  n = p /\ c = s
<1>0. /\ \A m \in B : m # 0 /\ m \in Nat /\ m \in RbNodes
      /\ k \in Nat /\ k # 0 /\ k <= TreeSize /\ TreeSize \in Nat
      /\ \A m \in B : lo[m] \in Int /\ hi[m] \in Int
  <2>1. \A m \in B : m # 0 /\ m \in Nat /\ m \in RbNodes  BY Neighbours, NodeFacts
  <2> QED  BY <2>1, BoundFacts, NodeFacts
<1>1. /\ \A m \in B : /\ T.ch["l"][m] = 0 => \A q \in B : ~(lo[m] < q /\ q < m)
                      /\ T.ch["r"][m] = 0 => \A q \in B : ~(m < q /\ q < hi[m])
  BY DEF Placed
<1>2. \A m \in B : lo[m] = 0 \/ (lo[m] \in B /\ T.ch["r"][lo[m]] # 0)
  BY Edges
<1>3. ASSUME NEW a \in B, NEW b \in B, Gap(T, lo, hi, a, "l", k), Gap(T, lo, hi, b, "r", k)
      PROVE  FALSE
  <2>1. T.ch["l"][a] = 0 /\ lo[a] < k /\ k < a /\ T.ch["r"][b] = 0 /\ b < k /\ k < hi[b]
    BY <1>3 DEF Gap
  <2>2. ~(lo[a] < b /\ b < a)  BY <2>1, <1>1
  <2>3. b < a  BY <2>1, <1>0
  <2>4. lo[a] # 0  BY <2>2, <2>3, <1>0
  <2>5. lo[a] \in B /\ lo[a] # b  BY <2>1, <2>4, <1>2
  <2>6. b < lo[a] /\ lo[a] < hi[b]  BY <2>1, <2>2, <2>3, <2>5, <1>0
  <2> QED  BY <2>1, <2>5, <2>6, <1>1
<1>4. ASSUME NEW a \in B, NEW b \in B, Gap(T, lo, hi, a, "l", k), Gap(T, lo, hi, b, "l", k)
      PROVE  a = b
  <2>1. T.ch["l"][a] = 0 /\ lo[a] < k /\ k < a /\ T.ch["l"][b] = 0 /\ lo[b] < k /\ k < b
    BY <1>4 DEF Gap
  <2>2. ~(lo[a] < b /\ b < a) /\ ~(lo[b] < a /\ a < b)  BY <2>1, <1>1
  <2> QED  BY <2>1, <2>2, <1>0
<1>5. ASSUME NEW a \in B, NEW b \in B, Gap(T, lo, hi, a, "r", k), Gap(T, lo, hi, b, "r", k)
      PROVE  a = b
  <2>1. T.ch["r"][a] = 0 /\ a < k /\ k < hi[a] /\ T.ch["r"][b] = 0 /\ b < k /\ k < hi[b]
    BY <1>5 DEF Gap
  <2>2. ~(a < b /\ b < hi[a]) /\ ~(b < a /\ a < hi[b])  BY <2>1, <1>1
  <2> QED  BY <2>1, <2>2, <1>0
<1> QED  BY <1>3, <1>4, <1>5 DEF Sides

\* A new red node hangs where its key belongs.
LEMMA LinkKeeps ==
  ASSUME NEW T, NEW B, Sound(T, B), NEW k \in RbKeys, k \notin B
  PROVE  Inserting(RbLinked(T, k), B \cup {k}, k)
<1> DEFINE Q == RbLinked(T, k)
           A == B \cup {k}
<1>a. InOrder(T, B) /\ Balanced(T, B, NoNode, 0, "l") /\ Clean(T, B) /\ ~T.red[0]  BY DEF Sound
<1>b. PICK lo, hi : Placed(T, B, lo, hi)  BY <1>a DEF InOrder
<1>c. PICK p : p = Search(T, k).above  OBVIOUS
<1>d. PICK s \in Sides : s = IF k < p THEN "l" ELSE "r"  BY SideFacts
<1>e. /\ p \in B \cup {0} /\ (p = 0 <=> B = {})
      /\ p # 0 => T.ch[s][p] = 0 /\ lo[p] < k /\ k < hi[p] /\ k # p
  BY <1>a, <1>b, <1>c, <1>d, SearchIs
<1>0. /\ T \in Trees /\ B \subseteq RbKeys /\ 0 \in RbNodes /\ 0 \notin B /\ k \in RbNodes /\ k # 0
      /\ \A n \in B : n # 0 /\ n \in RbNodes /\ n # k /\ n \in Nat
      /\ p \in RbNodes /\ p # k
      /\ T.root \in B \cup {0} /\ (T.root = 0 <=> B = {})
      /\ k \in Nat /\ k <= TreeSize /\ TreeSize \in Nat
  <2>1. k \in RbNodes /\ k # 0 /\ k \in Nat /\ k <= TreeSize /\ TreeSize \in Nat  BY NodeFacts
  <2>2. /\ T \in Trees /\ B \subseteq RbKeys /\ 0 \in RbNodes /\ 0 \notin B
        /\ \A n \in B : n # 0 /\ n \in RbNodes
        /\ T.root \in B \cup {0} /\ (T.root = 0 <=> B = {})
    BY <1>a, Neighbours
  <2>3. \A n \in B : n \in Nat  BY <2>2, NodeFacts
  <2> QED  BY <2>1, <2>2, <2>3, <1>e
<1>1. /\ Q \in Trees /\ Q.root = IF p = 0 THEN k ELSE T.root
      /\ \A n \in RbNodes : Q.par[n] = IF n = k THEN p ELSE T.par[n]
      /\ \A n \in RbNodes : Q.red[n] <=> (n = k \/ T.red[n])
      /\ \A c \in Sides, n \in RbNodes :
           Q.ch[c][n] = IF n = k THEN 0
                        ELSE IF n = p /\ p # 0 /\ c = s THEN k ELSE T.ch[c][n]
  BY <1>0, <1>c, <1>d, LinkedIs
<1> HIDE DEF Q
<1>n. /\ T.root # 0 => T.par[T.root] = 0
      /\ \A n \in B, c \in Sides :
              /\ T.ch[c][n] \in B \cup {0}
              /\ T.ch[c][n] # 0 =>
                   /\ T.ch[c][n] \in B /\ T.par[T.ch[c][n]] = n
                   /\ T.ch[c][n] # T.ch[Other(c)][n] /\ T.ch[c][n] # T.root
      /\ \A n \in B : n # T.root => T.par[n] \in B /\ \E c \in Sides : T.ch[c][T.par[n]] = n
      /\ \A c \in Sides : T.ch[c][0] = 0
  BY <1>a, Neighbours DEF InOrder, Joined
<1>s. \A c \in Sides : Other(c) \in Sides /\ Other(c) # c  BY SideFacts
<1>2. Joined(Q, A)
  <2>1. A \subseteq RbKeys /\ Q.root \in A /\ Q.root # 0 /\ Q.par[Q.root] = 0
    <3>1. CASE p = 0
      <4>1. Q.root = k /\ Q.par[k] = 0  BY <3>1, <1>0, <1>1
      <4> QED  BY <4>1, <1>0
    <3>2. CASE p # 0
      <4>1. T.root \in B /\ Q.root = T.root /\ T.root # 0  BY <3>2, <1>0, <1>1, <1>e
      <4>2. Q.par[T.root] = T.par[T.root] /\ T.par[T.root] = 0  BY <4>1, <1>0, <1>1, <1>n
      <4> QED  BY <4>1, <4>2, <1>0
    <3> QED  BY <3>1, <3>2
  <2>2. \A c \in Sides : Q.ch[c][0] = 0  BY <1>0, <1>1, <1>n
  <2>3. ASSUME NEW n \in A, NEW c \in Sides
        PROVE  /\ Q.ch[c][n] \in A \cup {0}
               /\ Q.ch[c][n] # 0 => Q.par[Q.ch[c][n]] = n /\ Q.ch[c][n] # Q.ch[Other(c)][n]
               /\ Q.ch[c][n] # Q.root \/ Q.ch[c][n] = 0
    <3>1. CASE n = k  BY <3>1, <1>0, <1>1
    <3>2. CASE n # k /\ n = p /\ c = s
      <4>1. p # 0 /\ p \in B  BY <3>2, <1>0
      <4>2. Q.ch[c][n] = k /\ Q.par[k] = p /\ Q.root = T.root  BY <3>2, <4>1, <1>0, <1>1
      <4>3. Q.ch[Other(c)][n] = T.ch[Other(c)][n]  BY <3>2, <1>0, <1>1, <1>s
      <4>4. T.ch[Other(c)][n] \in B \cup {0}  BY <3>2, <4>1, <1>n, <1>s
      <4> QED  BY <3>2, <4>1, <4>2, <4>3, <4>4, <1>0
    <3>3. CASE n # k /\ ~(n = p /\ c = s)
      <4>0. n \in B /\ n \in RbNodes  BY <3>3, <1>0
      <4>1. Q.ch[c][n] = T.ch[c][n] /\ T.ch[c][n] \in B \cup {0}  BY <3>3, <4>0, <1>1, <1>n
      <4>2. CASE T.ch[c][n] = 0  BY <4>1, <4>2
      <4>3. CASE T.ch[c][n] # 0
        <5>1. T.ch[c][n] \in B /\ T.par[T.ch[c][n]] = n /\ T.ch[c][n] # T.ch[Other(c)][n] /\ T.ch[c][n] # T.root
          BY <4>0, <4>3, <1>n
        <5>2. Q.par[T.ch[c][n]] = n  BY <5>1, <1>0, <1>1
        <5>3. Q.ch[Other(c)][n] \in {k, T.ch[Other(c)][n]}  BY <3>3, <4>0, <1>1, <1>s
        <5>4. Q.root \in {k, T.root}  BY <1>1
        <5> QED  BY <4>1, <5>1, <5>2, <5>3, <5>4, <1>0
      <4> QED  BY <4>2, <4>3
    <3> QED  BY <3>1, <3>2, <3>3
  <2>4. ASSUME NEW n \in A, n # Q.root
        PROVE  Q.par[n] \in A /\ \E c \in Sides : Q.ch[c][Q.par[n]] = n
    <3>1. CASE n = k
      <4>1. p # 0 /\ p \in B  BY <2>4, <3>1, <1>1, <1>e
      <4>2. Q.par[n] = p /\ Q.ch[s][p] = k  BY <3>1, <4>1, <1>0, <1>1
      <4> QED  BY <3>1, <4>1, <4>2
    <3>2. CASE n # k
      <4>1. n \in B /\ n # 0 /\ p # 0 /\ n # T.root  BY <2>4, <3>2, <1>0, <1>1, <1>e
      <4>2. T.par[n] \in B /\ Q.par[n] = T.par[n]  BY <4>1, <3>2, <1>0, <1>1, <1>n
      <4>3. PICK c \in Sides : T.ch[c][T.par[n]] = n  BY <4>1, <1>n
      <4>4. Q.ch[c][T.par[n]] = n  BY <4>1, <4>2, <4>3, <1>0, <1>1, <1>e
      <4> QED  BY <4>2, <4>4
    <3> QED  BY <3>1, <3>2
  <2> QED  BY <2>1, <2>2, <2>3, <2>4, <1>1 DEF Joined
<1>3. \E lo1, hi1 : Placed(Q, A, lo1, hi1)
  <2> DEFINE a == IF p = 0 THEN 0 ELSE IF k < p THEN lo[p] ELSE p
             b == IF p = 0 THEN TreeSize + 1 ELSE IF k < p THEN p ELSE hi[p]
             lo1 == [lo EXCEPT ![k] = a]
             hi1 == [hi EXCEPT ![k] = b]
  <2>b. /\ lo \in [RbNodes -> Bounds] /\ hi \in [RbNodes -> Bounds]
        /\ RbNodes \subseteq Bounds /\ 0 \in Bounds /\ TreeSize + 1 \in Bounds
        /\ \A n \in RbNodes : lo[n] \in Bounds /\ hi[n] \in Bounds /\ lo[n] \in Int /\ hi[n] \in Int
    BY <1>b, BoundFacts
  <2>p. /\ \A n \in B : lo[n] < n /\ n < hi[n]
        /\ T.root # 0 => lo[T.root] = 0 /\ hi[T.root] = TreeSize + 1
        /\ \A n \in B :
             /\ T.ch["l"][n] # 0 => lo[T.ch["l"][n]] = lo[n] /\ hi[T.ch["l"][n]] = n
             /\ T.ch["r"][n] # 0 => lo[T.ch["r"][n]] = n /\ hi[T.ch["r"][n]] = hi[n]
             /\ T.ch["l"][n] = 0 => \A m \in B : ~(lo[n] < m /\ m < n)
             /\ T.ch["r"][n] = 0 => \A m \in B : ~(n < m /\ m < hi[n])
    BY <1>b DEF Placed
  <2>1. a \in Bounds /\ b \in Bounds /\ a < k /\ k < b
    BY <2>b, <1>0, <1>e
  <2>2. p # 0 => /\ s = "l" => a = lo[p] /\ b = p /\ k < p
                 /\ s = "r" => a = p /\ b = hi[p] /\ p < k
    <3>1. CASE k < p
      <4>1. s = "l" /\ "l" # "r"  BY <3>1, <1>d, SideFacts
      <4> QED  BY <3>1, <4>1
    <3>2. CASE ~(k < p)
      <4>1. s = "r" /\ "l" # "r"  BY <3>2, <1>d, SideFacts
      <4>2. p # 0 => p < k  BY <3>2, <1>e, <1>0
      <4> QED  BY <3>2, <4>1, <4>2
    <3> QED  BY <3>1, <3>2
  <2>3. p = 0 => a = 0 /\ b = TreeSize + 1  OBVIOUS
  <2> HIDE DEF a, b
  <2>4. /\ lo1 \in [RbNodes -> Bounds] /\ hi1 \in [RbNodes -> Bounds]
        /\ \A n \in RbNodes : lo1[n] = IF n = k THEN a ELSE lo[n]
        /\ \A n \in RbNodes : hi1[n] = IF n = k THEN b ELSE hi[n]
    BY <2>1, <2>b, <1>0
  <2> HIDE DEF lo1, hi1
  <2>5. \A n \in A : lo1[n] < n /\ n < hi1[n]  BY <2>1, <2>4, <2>p, <1>0
  <2>6. Q.root # 0 => lo1[Q.root] = 0 /\ hi1[Q.root] = TreeSize + 1
    <3>1. CASE p = 0
      <4>1. Q.root = k  BY <3>1, <1>1
      <4> QED  BY <3>1, <4>1, <2>3, <2>4, <1>0
    <3>2. CASE p # 0
      <4>1. T.root \in B /\ Q.root = T.root /\ T.root # 0  BY <3>2, <1>0, <1>1, <1>e
      <4>2. lo1[T.root] = lo[T.root] /\ hi1[T.root] = hi[T.root]  BY <4>1, <2>4, <1>0
      <4>3. lo[T.root] = 0 /\ hi[T.root] = TreeSize + 1  BY <4>1, <2>p
      <4> QED  BY <4>1, <4>2, <4>3
    <3> QED  BY <3>1, <3>2
  <2>g. p # 0 => p \in B /\ Gap(T, lo, hi, p, s, k)
    <3> SUFFICES ASSUME p # 0 PROVE Gap(T, lo, hi, p, s, k)  BY <1>e
    <3>1. s = "l" \/ s = "r"  BY DEF Sides
    <3> QED  BY <3>1, <2>2, <1>e DEF Gap
  <2>7. ASSUME NEW n \in B, NEW c \in Sides, ~(n = p /\ c = s) PROVE ~Gap(T, lo, hi, n, c, k)
    <3>1. p # 0 /\ p \in B  BY <1>e
    <3> QED  BY <3>1, <2>g, <2>7, <1>a, <1>b, OneGap
  <2>8. ASSUME NEW n \in A
        PROVE  /\ Q.ch["l"][n] # 0 => lo1[Q.ch["l"][n]] = lo1[n] /\ hi1[Q.ch["l"][n]] = n
               /\ Q.ch["l"][n] = 0 => \A m \in A : ~(lo1[n] < m /\ m < n)
    <3>0. "l" \in Sides  BY SideFacts
    <3>1. CASE n = k
      <4>1. Q.ch["l"][n] = 0 /\ lo1[n] = a  BY <3>0, <3>1, <2>4, <1>0, <1>1
      <4>2. \A m \in B : ~(a < m /\ m < k)
        <5>1. CASE p = 0  BY <5>1, <1>e
        <5>2. CASE p # 0 /\ s = "l"
          <6>1. a = lo[p] /\ p \in B /\ k < p  BY <5>2, <2>2, <1>e
          <6>2. \A m \in B : ~(lo[p] < m /\ m < p)  BY <5>2, <6>1, <2>p, <1>e
          <6> QED  BY <6>1, <6>2, <1>0
        <5>3. CASE p # 0 /\ s = "r"
          <6>1. a = p /\ p \in B /\ k < hi[p] /\ hi[p] \in Int  BY <5>3, <2>2, <2>b, <1>e, <1>0
          <6>2. \A m \in B : ~(p < m /\ m < hi[p])  BY <5>3, <6>1, <2>p, <1>e
          <6> QED  BY <6>1, <6>2, <1>0
        <5> QED  BY <5>1, <5>2, <5>3 DEF Sides
      <4>3. \A m \in A : ~(a < m /\ m < k)
        <5>1. ~(k < k)  BY <1>0
        <5> QED  BY <4>2, <5>1
      <4> QED  BY <3>1, <4>1, <4>3
    <3>2. CASE n # k /\ n = p /\ s = "l"
      <4>1. p # 0 /\ Q.ch["l"][n] = k  BY <3>0, <3>2, <1>0, <1>1
      <4> QED  BY <3>2, <4>1, <2>2, <2>4, <1>0
    <3>3. CASE n # k /\ ~(n = p /\ s = "l")
      <4>1. n \in B /\ Q.ch["l"][n] = T.ch["l"][n] /\ lo1[n] = lo[n]
        BY <3>0, <3>3, <2>4, <1>0, <1>1
      <4>2. T.ch["l"][n] # 0 => lo1[T.ch["l"][n]] = lo[n] /\ hi1[T.ch["l"][n]] = n
        BY <4>1, <3>0, <2>4, <2>p, <1>0, <1>n
      <4>3. T.ch["l"][n] = 0 => ~(lo[n] < k /\ k < n)  BY <3>0, <3>3, <4>1, <2>7 DEF Gap
      <4>4. T.ch["l"][n] = 0 => \A m \in B : ~(lo[n] < m /\ m < n)  BY <4>1, <2>p
      <4> QED  BY <4>1, <4>2, <4>3, <4>4
    <3> QED  BY <3>1, <3>2, <3>3
  <2>9. ASSUME NEW n \in A
        PROVE  /\ Q.ch["r"][n] # 0 => lo1[Q.ch["r"][n]] = n /\ hi1[Q.ch["r"][n]] = hi1[n]
               /\ Q.ch["r"][n] = 0 => \A m \in A : ~(n < m /\ m < hi1[n])
    <3>0. "r" \in Sides /\ "r" # "l"  BY SideFacts
    <3>1. CASE n = k
      <4>1. Q.ch["r"][n] = 0 /\ hi1[n] = b  BY <3>0, <3>1, <2>4, <1>0, <1>1
      <4>2. \A m \in B : ~(k < m /\ m < b)
        <5>1. CASE p = 0  BY <5>1, <1>e
        <5>2. CASE p # 0 /\ s = "l"
          <6>1. b = p /\ p \in B /\ lo[p] < k /\ lo[p] \in Int  BY <5>2, <2>2, <2>b, <1>e, <1>0
          <6>2. \A m \in B : ~(lo[p] < m /\ m < p)  BY <5>2, <6>1, <2>p, <1>e
          <6> QED  BY <6>1, <6>2, <1>0
        <5>3. CASE p # 0 /\ s = "r"
          <6>1. b = hi[p] /\ p \in B /\ p < k  BY <5>3, <2>2, <1>e
          <6>2. \A m \in B : ~(p < m /\ m < hi[p])  BY <5>3, <6>1, <2>p, <1>e
          <6> QED  BY <6>1, <6>2, <1>0
        <5> QED  BY <5>1, <5>2, <5>3 DEF Sides
      <4>3. \A m \in A : ~(k < m /\ m < b)
        <5>1. ~(k < k)  BY <1>0
        <5> QED  BY <4>2, <5>1
      <4> QED  BY <3>1, <4>1, <4>3
    <3>2. CASE n # k /\ n = p /\ s = "r"
      <4>1. p # 0 /\ Q.ch["r"][n] = k  BY <3>0, <3>2, <1>0, <1>1
      <4> QED  BY <3>2, <4>1, <2>2, <2>4, <1>0
    <3>3. CASE n # k /\ ~(n = p /\ s = "r")
      <4>1. n \in B /\ Q.ch["r"][n] = T.ch["r"][n] /\ hi1[n] = hi[n]
        BY <3>0, <3>3, <2>4, <1>0, <1>1
      <4>2. T.ch["r"][n] # 0 => lo1[T.ch["r"][n]] = n /\ hi1[T.ch["r"][n]] = hi[n]
        <5>1. T.ch["r"][n] # 0 => T.ch["r"][n] \in B  BY <4>1, <3>0, <1>n
        <5>2. \A m \in B : lo1[m] = lo[m] /\ hi1[m] = hi[m]  BY <2>4, <1>0
        <5> QED  BY <4>1, <5>1, <5>2, <2>p
      <4>3. T.ch["r"][n] = 0 => ~(n < k /\ k < hi[n])  BY <3>0, <3>3, <4>1, <2>7 DEF Gap
      <4>4. T.ch["r"][n] = 0 => \A m \in B : ~(n < m /\ m < hi[n])  BY <4>1, <2>p
      <4> QED  BY <4>1, <4>2, <4>3, <4>4
    <3> QED  BY <3>1, <3>2, <3>3
  <2>10. Placed(Q, A, lo1, hi1)  BY <2>4, <2>5, <2>6, <2>8, <2>9 DEF Placed
  <2> QED  BY <2>10
<1>4. InOrder(Q, A)  BY <1>2, <1>3 DEF InOrder
<1>5. Balanced(Q, A, NoNode, 0, "l")
  <2> DEFINE W == Wt(T, NoNode)
             W1 == Wt(Q, NoNode)
             L == Lf(NoNode, 0, "l")
  <2>1. PICK H : Even(T, B, W, L, H)  BY <1>a DEF Balanced
  <2>2. /\ W1 \in [RbNodes -> Nat] /\ L \in [Sides -> [RbNodes -> Nat]]
        /\ \A n \in RbNodes : W1[n] = IF Q.red[n] THEN 0 ELSE 1
        /\ \A c \in Sides, n \in RbNodes : L[c][n] = 0
    BY <1>1, Plain
  <2>3. \A n \in RbNodes : W[n] = IF T.red[n] THEN 0 ELSE 1  BY <1>0, Plain
  <2> HIDE DEF W, W1, L
  <2> DEFINE H1 == [H EXCEPT ![k] = 0]
  <2>4. H \in [RbNodes -> Nat] /\ \A n \in B, c \in Sides : H[n] = W[n] + Hung(T, L, H, c, n)
    BY <2>1 DEF Even
  <2>5. H1 \in [RbNodes -> Nat] /\ H1[k] = 0 /\ \A n \in B : H1[n] = H[n]  BY <2>4, <1>0
  <2> HIDE DEF H1
  <2>6. ASSUME NEW n \in A, NEW c \in Sides PROVE H1[n] = W1[n] + Hung(Q, L, H1, c, n)
    <3>1. CASE n = k
      <4>1. W1[n] = 0 /\ Q.ch[c][n] = 0 /\ L[c][n] = 0  BY <3>1, <2>2, <1>0, <1>1
      <4> QED  BY <3>1, <4>1, <2>5 DEF Hung
    <3>2. CASE n # k
      <4>1. n \in B /\ n \in RbNodes /\ H1[n] = H[n] /\ W1[n] = W[n]  BY <3>2, <2>2, <2>3, <2>5, <1>0, <1>1
      <4>2. Hung(Q, L, H1, c, n) = Hung(T, L, H, c, n)
        <5>1. CASE n = p /\ c = s
          <6>1. Q.ch[c][n] = k /\ T.ch[c][n] = 0  BY <5>1, <4>1, <3>2, <1>0, <1>1, <1>e
          <6>2. L[c][n] = 0  BY <4>1, <2>2
          <6> QED  BY <6>1, <6>2, <2>5, <1>0 DEF Hung
        <5>2. CASE ~(n = p /\ c = s)
          <6>1. Q.ch[c][n] = T.ch[c][n] /\ T.ch[c][n] \in B \cup {0}  BY <5>2, <4>1, <3>2, <1>1, <1>n
          <6> QED  BY <6>1, <2>5 DEF Hung
        <5> QED  BY <5>1, <5>2
      <4> QED  BY <4>1, <4>2, <2>4
    <3> QED  BY <3>1, <3>2
  <2>7. Even(Q, A, W1, L, H1)  BY <2>2, <2>5, <2>6 DEF Even
  <2> QED  BY <2>7 DEF Balanced, W1, L
<1>6. BadOnly(Q, A, k)
  <2> SUFFICES ASSUME NEW n \in A, Bad(Q, n), n # k PROVE FALSE  BY DEF BadOnly
  <2>1. n \in B /\ n \in RbNodes /\ T.red[n] /\ (n = Q.root \/ Q.red[Q.par[n]])
    BY <1>0, <1>1 DEF Bad
  <2>2. Q.root = T.root /\ Q.par[n] = T.par[n]  BY <2>1, <1>1, <1>e
  <2>3. n # T.root /\ ~T.red[T.par[n]]  BY <2>1, <1>a DEF Clean, Bad
  <2>4. T.par[n] \in B  BY <2>1, <2>3, <1>n
  <2> QED  BY <2>1, <2>2, <2>3, <2>4, <1>0, <1>1
<1>7. k \in A /\ Q.red[k] /\ ~Q.red[0]  BY <1>0, <1>1, <1>a
<1>8. Inserting(Q, A, k)  BY <1>4, <1>5, <1>6, <1>7 DEF Inserting
<1> QED  BY <1>8 DEF Q

-----------------------------------------------------------------------------

\* Q is T after rbtree_transplant of v for u.
MovedTo(Q, T, u, v) ==
  /\ Q \in Trees /\ Q.root = IF T.par[u] = 0 THEN v ELSE T.root
  /\ Q.red = T.red
  /\ \A n \in RbNodes : Q.par[n] = IF n = v THEN T.par[u] ELSE T.par[n]
  /\ \A c \in Sides, n \in RbNodes :
       Q.ch[c][n] = IF T.par[u] # 0 /\ n = T.par[u] /\ c = SideOf(T, u) THEN v ELSE T.ch[c][n]

\* rbtree_transplant, pointer by pointer.
LEMMA TransplantIs ==
  ASSUME NEW T \in Trees, NEW u \in RbNodes, NEW v \in RbNodes
  PROVE  MovedTo(Transplant(T, u, v), T, u, v)
<1> DEFINE R == Replaced(T, u, v)
           Q == WithParent(R, v, T.par[u])
<1>1. PICK p \in RbNodes : p = T.par[u]  BY TreeParts
<1>2. PICK d \in Sides : d = SideOf(T, u)  BY DEF SideOf, Sides
<1>3. Transplant(T, u, v) = Q  BY DEF Transplant, WithParent
<1>4. /\ R \in Trees /\ R.root = IF p = 0 THEN v ELSE T.root
      /\ R.par = T.par /\ R.red = T.red
      /\ \A c \in Sides, n \in RbNodes :
           R.ch[c][n] = IF p # 0 /\ n = p /\ c = d THEN v ELSE T.ch[c][n]
  <2>1. CASE p = 0
    <3>1. R = WithRoot(T, v)  BY <2>1, <1>1 DEF Replaced, WithRoot, Nil
    <3> HIDE DEF R
    <3>2. R \in Trees /\ R.root = v /\ R.ch = T.ch /\ R.par = T.par /\ R.red = T.red
      BY <3>1, RootSet
    <3> QED  BY <3>2, <2>1
  <2>2. CASE p # 0
    <3>1. R = WithChild(T, d, p, v)  BY <2>2, <1>1, <1>2 DEF Replaced, WithChild, Nil
    <3> HIDE DEF R
    <3>2. ChildIs(R, T, d, p, v)  BY <3>1, ChildSet
    <3> QED  BY <3>2, <2>2 DEF ChildIs
  <2> QED  BY <2>1, <2>2
<1> HIDE DEF R
<1>5. /\ Q \in Trees /\ Q.root = R.root /\ Q.ch = R.ch /\ Q.red = R.red
      /\ \A n \in RbNodes : Q.par[n] = IF n = v THEN p ELSE R.par[n]
  <2>1. Q = WithParent(R, v, p)  BY <1>1
  <2> HIDE DEF Q
  <2>2. R \in Trees  BY <1>4
  <2>3. ParentIs(Q, R, v, p)  BY <2>1, <2>2, ParentSet
  <2> QED  BY <2>3 DEF ParentIs
<1> HIDE DEF Q
<1>6. MovedTo(Q, T, u, v)  BY <1>1, <1>2, <1>4, <1>5 DEF MovedTo
<1> QED  BY <1>3, <1>6

\* The freed node's fields are of no interest, the others are kept.
KeptBut(Q, T, z) ==
  /\ Q \in Trees /\ Q.root = T.root
  /\ \A n \in RbNodes : n # z => /\ Q.par[n] = T.par[n]
                                 /\ Q.red[n] <=> T.red[n]
                                 /\ \A c \in Sides : Q.ch[c][n] = T.ch[c][n]

\* Freeing a node touches no other.
LEMMA FreedIs ==
  ASSUME NEW T \in Trees, NEW z \in RbNodes
  PROVE  KeptBut(Freed(T, z), T, z)
<1> DEFINE A1 == WithChild(T, "l", z, 0)
           A2 == WithChild(A1, "r", z, 0)
           A3 == WithParent(A2, z, 0)
           f == [A3.red EXCEPT ![z] = FALSE]
           Q == Painted(A3, f)
<1>0. 0 \in RbNodes /\ "l" \in Sides /\ "r" \in Sides  BY NodeFacts, SideFacts
<1>1. ChildIs(A1, T, "l", z, 0)  BY <1>0, ChildSet
<1>2. A1 \in Trees  BY <1>1 DEF ChildIs
<1>3. ChildIs(A2, A1, "r", z, 0)
  <2> HIDE DEF A1
  <2> QED  BY <1>0, <1>2, ChildSet
<1>4. A2 \in Trees  BY <1>3 DEF ChildIs
<1>5. /\ A3 \in Trees /\ A3.root = A2.root /\ A3.ch = A2.ch /\ A3.red = A2.red
      /\ \A n \in RbNodes : A3.par[n] = IF n = z THEN 0 ELSE A2.par[n]
  <2> HIDE DEF A2
  <2>1. ParentIs(A3, A2, z, 0)  BY <1>0, <1>4, ParentSet
  <2> QED  BY <2>1 DEF ParentIs
<1>6. Freed(T, z) = Q
  <2>1. Freed(T, z) = [A3 EXCEPT !.red[z] = FALSE]  BY DEF Freed, WithChild, WithParent, Nil
  <2> HIDE DEF A3
  <2>2. [A3 EXCEPT !.red[z] = FALSE] = Painted(A3, f)  BY <1>5 DEF Painted, Trees
  <2> QED  BY <2>1, <2>2
<1> HIDE DEF A1, A2, A3
<1>7. f \in [RbNodes -> BOOLEAN] /\ \A n \in RbNodes : n # z => f[n] = A3.red[n]
  BY <1>5 DEF Trees
<1> HIDE DEF f
<1>8. Q \in Trees /\ Q.red = f /\ Q.root = A3.root /\ Q.ch = A3.ch /\ Q.par = A3.par
  BY <1>5, <1>7, PaintIs
<1> HIDE DEF Q
<1>9. \A n \in RbNodes : n # z => \A c \in Sides : Q.ch[c][n] = T.ch[c][n]
  BY <1>1, <1>3, <1>5, <1>8 DEF ChildIs
<1>10. Q.root = T.root /\ (\A n \in RbNodes : n # z => Q.par[n] = T.par[n] /\ Q.red[n] = T.red[n])
  BY <1>1, <1>3, <1>5, <1>7, <1>8 DEF ChildIs
<1>11. KeptBut(Q, T, z)  BY <1>8, <1>9, <1>10 DEF KeptBut
<1> QED  BY <1>6, <1>11

\* The one place where u hangs: the side the code finds.
LEMMA HangsAt ==
  ASSUME NEW T, NEW B, InOrder(T, B), NEW u \in B
  PROVE  /\ T.par[u] = 0 <=> u = T.root
         /\ \A n \in B, c \in Sides : T.ch[c][n] = u <=> (T.par[u] # 0 /\ n = T.par[u] /\ c = SideOf(T, u))
<1>0. /\ 0 \notin B /\ u # 0 /\ \A n \in B : n # 0
  BY Neighbours
<1>1. Joined(T, B)  BY DEF InOrder
<1>2. T.par[u] = 0 <=> u = T.root  BY <1>0, Neighbours
<1>3. ASSUME NEW n \in B, NEW c \in Sides, T.ch[c][n] = u
      PROVE  T.par[u] # 0 /\ n = T.par[u] /\ c = SideOf(T, u)
  <2>1. n = T.par[u] /\ n # 0  BY <1>3, <1>0, Neighbours
  <2>2. c = SideOf(T, u)  BY <1>1, <1>3, <2>1, SideIs
  <2> QED  BY <2>1, <2>2
<1>4. ASSUME T.par[u] # 0 PROVE T.ch[SideOf(T, u)][T.par[u]] = u
  <2>1. u # T.root  BY <1>2, <1>4
  <2>2. T.par[u] \in B  BY <2>1, Neighbours
  <2>3. PICK c \in Sides : T.ch[c][T.par[u]] = u  BY <2>1, Neighbours
  <2>4. c = SideOf(T, u)  BY <1>1, <2>2, <2>3, SideIs
  <2> QED  BY <2>3, <2>4
<1> QED  BY <1>2, <1>3, <1>4

\* S is T without u, whose only child v (or no child) takes its place.
Spliced(T, B, u, v, S) ==
  /\ u \in B
  /\ \E c \in Sides : T.ch[c][u] = v /\ T.ch[Other(c)][u] = 0
  /\ S \in Trees /\ S.root = IF u = T.root THEN v ELSE T.root
  /\ \A c \in Sides : S.ch[c][0] = 0
  /\ \A n \in B \ {u} :
       /\ S.par[n] = IF n = v THEN T.par[u] ELSE T.par[n]
       /\ \A c \in Sides : S.ch[c][n] = IF T.ch[c][n] = u THEN v ELSE T.ch[c][n]
  /\ \A n \in RbNodes : n # u => (S.red[n] <=> T.red[n])
  /\ v = 0 => S.par[0] = T.par[u]

\* rbtree_transplant of a node with at most one child takes it out.
LEMMA SpliceIs ==
  ASSUME NEW T, NEW B, InOrder(T, B), NEW u \in B, NEW v,
         \E c \in Sides : T.ch[c][u] = v /\ T.ch[Other(c)][u] = 0
  PROVE  /\ Spliced(T, B, u, v, Transplant(T, u, v))
         /\ Spliced(T, B, u, v, Freed(Transplant(T, u, v), u))
<1> DEFINE Q == Transplant(T, u, v)
           F == Freed(Q, u)
<1>0. /\ T \in Trees /\ 0 \in RbNodes /\ 0 \notin B /\ u # 0 /\ u \in RbNodes
      /\ \A n \in B : n # 0 /\ n \in RbNodes
      /\ \A n \in B, c \in Sides : T.ch[c][n] \in B \cup {0}
      /\ \A c \in Sides : T.ch[c][0] = 0
  BY Neighbours DEF InOrder, Joined
<1>1. v \in RbNodes /\ v # u  BY <1>0, Neighbours
<1>2. MovedTo(Q, T, u, v)  BY <1>0, <1>1, TransplantIs
<1> HIDE DEF Q
<1>3. /\ Q \in Trees /\ Q.root = IF T.par[u] = 0 THEN v ELSE T.root
      /\ Q.red = T.red
      /\ \A n \in RbNodes : Q.par[n] = IF n = v THEN T.par[u] ELSE T.par[n]
      /\ \A c \in Sides, n \in RbNodes :
           Q.ch[c][n] = IF T.par[u] # 0 /\ n = T.par[u] /\ c = SideOf(T, u) THEN v ELSE T.ch[c][n]
  BY <1>2 DEF MovedTo
<1>4. KeptBut(F, Q, u)  BY <1>0, <1>3, FreedIs
<1> HIDE DEF F
<1>5. /\ T.par[u] = 0 <=> u = T.root
      /\ \A n \in B, c \in Sides : T.ch[c][n] = u <=> (T.par[u] # 0 /\ n = T.par[u] /\ c = SideOf(T, u))
  BY HangsAt
<1>6. Spliced(T, B, u, v, Q)
  <2>1. \A c \in Sides : Q.ch[c][0] = 0  BY <1>0, <1>3
  <2>2. \A n \in B \ {u} :
          /\ Q.par[n] = IF n = v THEN T.par[u] ELSE T.par[n]
          /\ \A c \in Sides : Q.ch[c][n] = IF T.ch[c][n] = u THEN v ELSE T.ch[c][n]
    BY <1>0, <1>3, <1>5
  <2>3. Q.root = IF u = T.root THEN v ELSE T.root  BY <1>3, <1>5
  <2>4. \A n \in RbNodes : n # u => (Q.red[n] <=> T.red[n])  BY <1>3
  <2>5. v = 0 => Q.par[0] = T.par[u]  BY <1>0, <1>3
  <2> QED  BY <2>1, <2>2, <2>3, <2>4, <2>5, <1>3 DEF Spliced
<1>7. Spliced(T, B, u, v, F)
  <2>1. /\ F \in Trees /\ F.root = Q.root
        /\ \A n \in RbNodes : n # u => /\ F.par[n] = Q.par[n] /\ (F.red[n] <=> Q.red[n])
                                       /\ \A c \in Sides : F.ch[c][n] = Q.ch[c][n]
    BY <1>4 DEF KeptBut
  <2>2. /\ Q.root = IF u = T.root THEN v ELSE T.root
        /\ \A c \in Sides : Q.ch[c][0] = 0
        /\ \A n \in B \ {u} :
             /\ Q.par[n] = IF n = v THEN T.par[u] ELSE T.par[n]
             /\ \A c \in Sides : Q.ch[c][n] = IF T.ch[c][n] = u THEN v ELSE T.ch[c][n]
        /\ \A n \in RbNodes : n # u => (Q.red[n] <=> T.red[n])
        /\ v = 0 => Q.par[0] = T.par[u]
    BY <1>6 DEF Spliced
  <2>3. \A c \in Sides : F.ch[c][0] = 0  BY <2>1, <2>2, <1>0
  <2>4. \A n \in B \ {u} :
             /\ F.par[n] = IF n = v THEN T.par[u] ELSE T.par[n]
             /\ \A c \in Sides : F.ch[c][n] = IF T.ch[c][n] = u THEN v ELSE T.ch[c][n]
    BY <2>1, <2>2, <1>0
  <2>5. F.root = IF u = T.root THEN v ELSE T.root  BY <2>1, <2>2
  <2>6. \A n \in RbNodes : n # u => (F.red[n] <=> T.red[n])  BY <2>1, <2>2
  <2>7. v = 0 => F.par[0] = T.par[u]  BY <2>1, <2>2, <1>0
  <2> QED  BY <2>1, <2>3, <2>4, <2>5, <2>6, <2>7 DEF Spliced
<1> QED  BY <1>6, <1>7 DEF Q, F

\* Who the neighbours of the spliced node are.
LEMMA SpliceFacts ==
  ASSUME NEW T, NEW B, InOrder(T, B), NEW u, NEW v, NEW S, Spliced(T, B, u, v, S)
  PROVE  /\ u \in B /\ v \in B \cup {0} /\ v # u
         /\ v # 0 => v \in B \ {u} /\ T.par[v] = u /\ v # T.root
         /\ \A n \in B \ {u}, c \in Sides : T.ch[c][n] \in B \cup {0} /\ (T.ch[c][n] = v => v = 0)
         /\ \A n \in B : n # v /\ n # T.root => T.par[n] # u
         /\ (T.par[u] # u /\ T.par[u] # v) \/ T.par[u] = 0
         /\ \A n \in B, c \in Sides : T.ch[c][n] = u => n = T.par[u] /\ u # T.root /\ n # u
<1>1. u \in B  BY DEF Spliced
<1>2. PICK c \in Sides : T.ch[c][u] = v /\ T.ch[Other(c)][u] = 0  BY DEF Spliced
<1>3. v \in B \cup {0} /\ v # u /\ (v # 0 => v \in B \ {u} /\ T.par[v] = u /\ v # T.root)
  BY <1>1, <1>2, Neighbours
<1>4. \A n \in B \ {u}, a \in Sides : T.ch[a][n] \in B \cup {0} /\ (T.ch[a][n] = v => v = 0)
  BY <1>3, Neighbours
<1>5. ASSUME NEW n \in B, n # v, n # T.root, T.par[n] = u PROVE FALSE
  <2>1. n = T.ch[c][u] \/ n = T.ch[Other(c)][u]  BY <1>1, <1>5, TwoChildren
  <2>2. n # 0  BY Neighbours
  <2> QED  BY <1>2, <1>5, <2>1, <2>2
<1>6. (T.par[u] # u /\ T.par[u] # v) \/ T.par[u] = 0
  <2>1. CASE u = T.root
    <3>1. T.par[u] = 0  BY <1>1, <2>1, Neighbours
    <3> QED  BY <3>1
  <2>2. CASE u # T.root
    <3>1. T.par[u] # u /\ T.par[u] \in B /\ T.par[u] # 0  BY <1>1, <2>2, Neighbours
    <3>2. T.par[u] # v  BY <1>1, <1>2, <3>1, Neighbours
    <3> QED  BY <3>1, <3>2
  <2> QED  BY <2>1, <2>2
<1>7. \A n \in B, a \in Sides : T.ch[a][n] = u => n = T.par[u] /\ u # T.root /\ n # u
  BY <1>1, Neighbours
<1> QED  BY <1>1, <1>3, <1>4, <1>5, <1>6, <1>7

\* The other nodes stay in order.
LEMMA SpliceOrder ==
  ASSUME NEW T, NEW B, InOrder(T, B), NEW u, NEW v, NEW S, Spliced(T, B, u, v, S)
  PROVE  InOrder(S, B \ {u})
<1> DEFINE A == B \ {u}
<1>0. /\ T \in Trees /\ B \subseteq RbKeys /\ 0 \in RbNodes /\ 0 \notin B
      /\ \A n \in B : n # 0 /\ n \in RbNodes /\ n \in Nat
      /\ T.root \in B \cup {0} /\ (T.root = 0 <=> B = {})
      /\ TreeSize \in Nat
  <2>1. \A n \in B : n # 0 /\ n \in RbNodes  BY Neighbours
  <2> QED  BY <2>1, NodeFacts, Neighbours
<1>n. /\ T.root # 0 => T.par[T.root] = 0
      /\ \A n \in B, c \in Sides :
              /\ T.ch[c][n] \in B \cup {0}
              /\ T.ch[c][n] # 0 =>
                   /\ T.ch[c][n] \in B /\ T.par[T.ch[c][n]] = n
                   /\ T.ch[c][n] # T.ch[Other(c)][n] /\ T.ch[c][n] # T.root
      /\ \A n \in B : n # T.root => T.par[n] \in B /\ \E c \in Sides : T.ch[c][T.par[n]] = n
  BY Neighbours
<1>f. /\ u \in B /\ v \in B \cup {0} /\ v # u
      /\ v # 0 => v \in A /\ T.par[v] = u /\ v # T.root
      /\ \A n \in A, c \in Sides : T.ch[c][n] \in B \cup {0} /\ (T.ch[c][n] = v => v = 0)
      /\ \A n \in B : n # v /\ n # T.root => T.par[n] # u
      /\ (T.par[u] # u /\ T.par[u] # v) \/ T.par[u] = 0
      /\ \A n \in B, c \in Sides : T.ch[c][n] = u => n = T.par[u] /\ u # T.root /\ n # u
  <2>1. /\ u \in B /\ v \in B \cup {0} /\ v # u
        /\ v # 0 => v \in A /\ T.par[v] = u /\ v # T.root
        /\ \A n \in A, c \in Sides : T.ch[c][n] \in B \cup {0} /\ (T.ch[c][n] = v => v = 0)
    BY SpliceFacts
  <2>2. \A n \in B : n # v /\ n # T.root => T.par[n] # u  BY SpliceFacts
  <2>3. (T.par[u] # u /\ T.par[u] # v) \/ T.par[u] = 0  BY SpliceFacts
  <2>4. \A n \in B, c \in Sides : T.ch[c][n] = u => n = T.par[u] /\ u # T.root /\ n # u
    BY SpliceFacts
  <2> QED  BY <2>1, <2>2, <2>3, <2>4
<1>s. /\ S \in Trees /\ S.root = IF u = T.root THEN v ELSE T.root
      /\ \A c \in Sides : S.ch[c][0] = 0
      /\ \A n \in A : S.par[n] = IF n = v THEN T.par[u] ELSE T.par[n]
      /\ \A n \in A, c \in Sides : S.ch[c][n] = IF T.ch[c][n] = u THEN v ELSE T.ch[c][n]
  BY DEF Spliced
<1>c. PICK e \in Sides : T.ch[e][u] = v /\ T.ch[Other(e)][u] = 0  BY DEF Spliced
<1>o. \A c \in Sides : Other(c) \in Sides /\ Other(c) # c  BY SideFacts
<1>1. Joined(S, A)
  <2>1. A \subseteq RbKeys /\ S.root \in A \cup {0}  BY <1>0, <1>f, <1>s
  <2>2. S.root = 0 => A = {}
    <3> SUFFICES ASSUME S.root = 0, NEW m \in A PROVE FALSE  OBVIOUS
    <3>1. u = T.root /\ v = 0  BY <1>0, <1>f, <1>s
    <3>2. \A c \in Sides : T.ch[c][u] = 0  BY <3>1, <1>c, SideFacts
    <3>3. PICK lo, hi : Placed(T, B, lo, hi)  BY DEF InOrder
    <3>4. lo[u] = 0 /\ hi[u] = TreeSize + 1 /\ u # 0  BY <3>1, <3>3, <1>0, <1>f DEF Placed
    <3>5. ~(lo[u] < m /\ m < u) /\ ~(u < m /\ m < hi[u])  BY <3>2, <3>3, <1>f, SideFacts DEF Placed
    <3>6. m \in Nat /\ u \in Nat /\ m # 0 /\ m <= TreeSize /\ m # u  BY <1>0, <1>f, NodeFacts
    <3> QED  BY <3>4, <3>5, <3>6, <1>0
  <2>3. S.root # 0 => S.par[S.root] = 0
    <3>1. CASE u = T.root  BY <3>1, <1>0, <1>f, <1>s, <1>n
    <3>2. CASE u # T.root
      <4>1. S.root = T.root /\ T.root \in A /\ T.root # v  BY <3>2, <1>0, <1>f, <1>s
      <4> QED  BY <4>1, <1>s, <1>n, <1>0
    <3> QED  BY <3>1, <3>2
  <2>4. ASSUME NEW n \in A, NEW c \in Sides
        PROVE  /\ S.ch[c][n] \in A \cup {0}
               /\ S.ch[c][n] # 0 => S.par[S.ch[c][n]] = n /\ S.ch[c][n] # S.ch[Other(c)][n]
               /\ S.ch[c][n] # S.root \/ S.ch[c][n] = 0
    <3>1. CASE T.ch[c][n] = u
      <4>1. S.ch[c][n] = v /\ n = T.par[u] /\ u # T.root  BY <3>1, <1>f, <1>s
      <4>2. CASE v = 0  BY <4>1, <4>2
      <4>3. CASE v # 0
        <5>1. S.par[v] = n /\ v \in A /\ v # T.root /\ S.root = T.root  BY <4>1, <4>3, <1>f, <1>s
        <5>2. T.ch[Other(c)][n] # u /\ T.ch[Other(c)][n] # v  BY <3>1, <4>3, <1>n, <1>f, <1>0, <1>o
        <5>3. S.ch[Other(c)][n] # v  BY <5>2, <1>s, <1>o
        <5> QED  BY <4>1, <5>1, <5>3
      <4> QED  BY <4>2, <4>3
    <3>2. CASE T.ch[c][n] # u
      <4>1. S.ch[c][n] = T.ch[c][n] /\ T.ch[c][n] \in B \cup {0}  BY <3>2, <1>s, <1>n
      <4>2. CASE T.ch[c][n] = 0  BY <4>1, <4>2
      <4>3. CASE T.ch[c][n] # 0
        <5>1. /\ T.ch[c][n] \in A /\ T.par[T.ch[c][n]] = n /\ T.ch[c][n] # T.ch[Other(c)][n]
              /\ T.ch[c][n] # T.root /\ T.ch[c][n] # v
          BY <3>2, <4>3, <1>n, <1>f
        <5>2. S.par[T.ch[c][n]] = n  BY <5>1, <1>s
        <5>3. S.ch[Other(c)][n] \in {v, T.ch[Other(c)][n]}  BY <1>s, <1>o
        <5>4. S.root \in {v, T.root}  BY <1>s
        <5> QED  BY <4>1, <5>1, <5>2, <5>3, <5>4
      <4> QED  BY <4>2, <4>3
    <3> QED  BY <3>1, <3>2
  <2>5. ASSUME NEW n \in A, n # S.root
        PROVE  S.par[n] \in A /\ \E c \in Sides : S.ch[c][S.par[n]] = n
    <3>1. CASE n = v
      <4>1. u # T.root /\ S.par[n] = T.par[u]  BY <3>1, <2>5, <1>s
      <4>2. T.par[u] \in A  BY <4>1, <1>n, <1>f, <1>0
      <4>3. PICK c \in Sides : T.ch[c][T.par[u]] = u  BY <4>1, <1>f, <1>n
      <4>4. S.ch[c][T.par[u]] = n  BY <4>2, <4>3, <3>1, <1>s
      <4> QED  BY <4>1, <4>2, <4>4
    <3>2. CASE n # v
      <4>1. n # T.root
        <5>1. SUFFICES ASSUME n = T.root PROVE FALSE  OBVIOUS
        <5>2. S.root = T.root  BY <5>1, <1>s
        <5> QED  BY <5>1, <5>2, <2>5
      <4>2. T.par[n] \in A /\ S.par[n] = T.par[n]  BY <4>1, <3>2, <1>n, <1>f, <1>s
      <4>3. PICK c \in Sides : T.ch[c][T.par[n]] = n  BY <4>1, <1>n
      <4>4. S.ch[c][T.par[n]] = n  BY <4>2, <4>3, <1>s
      <4> QED  BY <4>2, <4>4
    <3> QED  BY <3>1, <3>2
  <2> QED  BY <2>1, <2>2, <2>3, <2>4, <2>5, <1>s DEF Joined
<1>2. \E lo1, hi1 : Placed(S, A, lo1, hi1)
  <2>1. PICK lo, hi : Placed(T, B, lo, hi)  BY DEF InOrder
  <2> DEFINE lo1 == [n \in RbNodes |-> IF lo[n] = u THEN lo[u] ELSE lo[n]]
             hi1 == [n \in RbNodes |-> IF hi[n] = u THEN hi[u] ELSE hi[n]]
  <2>b. /\ \A n \in RbNodes : lo[n] \in Bounds /\ hi[n] \in Bounds
        /\ \A n \in RbNodes : lo[n] \in Int /\ hi[n] \in Int
    BY <2>1, BoundFacts
  <2>p. /\ \A n \in B : lo[n] < n /\ n < hi[n]
        /\ T.root # 0 => lo[T.root] = 0 /\ hi[T.root] = TreeSize + 1
        /\ \A n \in B :
             /\ T.ch["l"][n] # 0 => lo[T.ch["l"][n]] = lo[n] /\ hi[T.ch["l"][n]] = n
             /\ T.ch["r"][n] # 0 => lo[T.ch["r"][n]] = n /\ hi[T.ch["r"][n]] = hi[n]
             /\ T.ch["l"][n] = 0 => \A m \in B : ~(lo[n] < m /\ m < n)
             /\ T.ch["r"][n] = 0 => \A m \in B : ~(n < m /\ m < hi[n])
    BY <2>1 DEF Placed
  <2>e. \A n \in B : /\ lo[n] = u => T.ch["r"][u] # 0
                     /\ hi[n] = u => T.ch["l"][u] # 0
    <3>1. \A n \in B : /\ lo[n] = 0 \/ (lo[n] \in B /\ T.ch["r"][lo[n]] # 0)
                       /\ hi[n] = TreeSize + 1 \/ (hi[n] \in B /\ T.ch["l"][hi[n]] # 0)
      BY <2>1, Edges
    <3>2. u # 0 /\ u # TreeSize + 1  BY <1>0, <1>f, NodeFacts
    <3> QED  BY <3>1, <3>2
  <2>u. /\ u \in RbNodes /\ u \in Nat /\ lo[u] < u /\ u < hi[u] /\ lo[u] \in Int /\ hi[u] \in Int
        /\ T.ch["l"][u] = 0 \/ T.ch["r"][u] = 0
        /\ T.ch["l"][u] # 0 => v = T.ch["l"][u] /\ v # 0 /\ lo[v] = lo[u] /\ hi[v] = u
        /\ T.ch["r"][u] # 0 => v = T.ch["r"][u] /\ v # 0 /\ lo[v] = u /\ hi[v] = hi[u]
        /\ v = 0 => T.ch["l"][u] = 0 /\ T.ch["r"][u] = 0
    <3>1. u \in RbNodes /\ u \in Nat /\ lo[u] < u /\ u < hi[u] /\ lo[u] \in Int /\ hi[u] \in Int
      BY <1>0, <1>f, <2>b, <2>p
    <3>2. \/ T.ch["l"][u] = v /\ T.ch["r"][u] = 0
          \/ T.ch["r"][u] = v /\ T.ch["l"][u] = 0
      BY <1>c, SideFacts DEF Sides
    <3> QED  BY <3>1, <3>2, <2>p, <1>f
  <2>2. /\ lo1 \in [RbNodes -> Bounds] /\ hi1 \in [RbNodes -> Bounds]
        /\ \A n \in RbNodes : lo1[n] = IF lo[n] = u THEN lo[u] ELSE lo[n]
        /\ \A n \in RbNodes : hi1[n] = IF hi[n] = u THEN hi[u] ELSE hi[n]
    BY <2>b, <2>u
  <2> HIDE DEF lo1, hi1
  <2>3. ASSUME NEW n \in A PROVE lo1[n] < n /\ n < hi1[n]
    <3>1. n \in RbNodes /\ n \in Nat /\ lo[n] < n /\ n < hi[n] /\ lo[n] \in Int /\ hi[n] \in Int
      BY <1>0, <2>b, <2>p
    <3> QED  BY <3>1, <2>2, <2>u
  <2>4. S.root # 0 => lo1[S.root] = 0 /\ hi1[S.root] = TreeSize + 1
    <3>1. CASE u = T.root
      <4>1. S.root = v /\ lo[u] = 0 /\ hi[u] = TreeSize + 1  BY <3>1, <1>s, <1>0, <1>f, <2>p
      <4>2. v # 0 => v \in RbNodes /\ (lo[v] = lo[u] \/ lo[v] = u) /\ (hi[v] = hi[u] \/ hi[v] = u)
        BY <1>c, <1>0, <1>f, <2>u DEF Sides
      <4> QED  BY <4>1, <4>2, <2>2
    <3>2. CASE u # T.root
      <4>1. S.root = T.root  BY <3>2, <1>s
      <4>2. T.root # 0 => T.root \in RbNodes /\ lo[T.root] = 0 /\ hi[T.root] = TreeSize + 1
        BY <1>0, <2>p
      <4>3. u # 0 /\ u # TreeSize + 1  BY <1>0, <1>f, NodeFacts
      <4> QED  BY <4>1, <4>2, <4>3, <2>2
    <3> QED  BY <3>1, <3>2
  <2>5. ASSUME NEW n \in A
        PROVE  /\ S.ch["l"][n] # 0 => lo1[S.ch["l"][n]] = lo1[n] /\ hi1[S.ch["l"][n]] = n
               /\ S.ch["l"][n] = 0 => \A m \in A : ~(lo1[n] < m /\ m < n)
    <3>0. /\ n \in B /\ n # u /\ n \in RbNodes /\ n \in Nat /\ lo[n] \in Int /\ hi[n] \in Int
          /\ "l" \in Sides
          /\ S.ch["l"][n] = IF T.ch["l"][n] = u THEN v ELSE T.ch["l"][n]
          /\ T.ch["l"][n] \in B \cup {0}
      BY <1>0, <1>s, <1>n, <2>b, SideFacts
    <3>1. CASE T.ch["l"][n] = u
      <4>1. lo[u] = lo[n] /\ hi[u] = n /\ S.ch["l"][n] = v  BY <3>0, <3>1, <2>p, <1>0, <1>f
      <4>2. lo1[n] = lo[u]  BY <4>1, <3>0, <2>2
      <4>3. CASE v # 0
        <5>1. v \in RbNodes /\ (lo[v] = lo[u] \/ lo[v] = u) /\ (hi[v] = hi[u] \/ hi[v] = u)
          BY <4>3, <1>c, <1>0, <1>f, <2>u DEF Sides
        <5> QED  BY <4>1, <4>2, <4>3, <5>1, <2>2
      <4>4. CASE v = 0
        <5>1. \A m \in B : ~(lo[u] < m /\ m < u) /\ ~(u < m /\ m < n)  BY <4>1, <4>4, <2>u, <2>p, <1>f
        <5> QED  BY <4>1, <4>2, <4>4, <5>1, <3>0, <2>u, <1>0
      <4> QED  BY <4>3, <4>4
    <3>2. CASE T.ch["l"][n] # u /\ T.ch["l"][n] # 0
      <4>1. T.ch["l"][n] \in RbNodes /\ lo[T.ch["l"][n]] = lo[n] /\ hi[T.ch["l"][n]] = n
        BY <3>0, <3>2, <2>p, <1>0
      <4> QED  BY <4>1, <3>0, <3>2, <2>2
    <3>3. CASE T.ch["l"][n] = 0
      <4>1. S.ch["l"][n] = 0  BY <3>0, <3>3, <1>0, <1>f
      <4>2. \A m \in B : ~(lo[n] < m /\ m < n)  BY <3>0, <3>3, <2>p
      <4>3. CASE lo[n] = u
        <5>1. T.ch["l"][u] = 0  BY <3>0, <4>3, <2>e, <2>u
        <5>2. \A m \in B : ~(lo[u] < m /\ m < u)  BY <5>1, <2>p, <1>f
        <5>3. lo1[n] = lo[u]  BY <3>0, <4>3, <2>2
        <5> QED  BY <4>1, <4>2, <4>3, <5>2, <5>3, <3>0, <2>u, <1>0
      <4>4. CASE lo[n] # u  BY <3>0, <4>1, <4>2, <4>4, <2>2
      <4> QED  BY <4>3, <4>4
    <3> QED  BY <3>1, <3>2, <3>3
  <2>6. ASSUME NEW n \in A
        PROVE  /\ S.ch["r"][n] # 0 => lo1[S.ch["r"][n]] = n /\ hi1[S.ch["r"][n]] = hi1[n]
               /\ S.ch["r"][n] = 0 => \A m \in A : ~(n < m /\ m < hi1[n])
    <3>0. /\ n \in B /\ n # u /\ n \in RbNodes /\ n \in Nat /\ lo[n] \in Int /\ hi[n] \in Int
          /\ "r" \in Sides
          /\ S.ch["r"][n] = IF T.ch["r"][n] = u THEN v ELSE T.ch["r"][n]
          /\ T.ch["r"][n] \in B \cup {0}
      BY <1>0, <1>s, <1>n, <2>b, SideFacts
    <3>1. CASE T.ch["r"][n] = u
      <4>1. hi[u] = hi[n] /\ lo[u] = n /\ S.ch["r"][n] = v  BY <3>0, <3>1, <2>p, <1>0, <1>f
      <4>2. hi1[n] = hi[u]  BY <4>1, <3>0, <2>2
      <4>3. CASE v # 0
        <5>1. v \in RbNodes /\ (lo[v] = lo[u] \/ lo[v] = u) /\ (hi[v] = hi[u] \/ hi[v] = u)
          BY <4>3, <1>c, <1>0, <1>f, <2>u DEF Sides
        <5> QED  BY <4>1, <4>2, <4>3, <5>1, <2>2
      <4>4. CASE v = 0
        <5>1. \A m \in B : ~(n < m /\ m < u) /\ ~(u < m /\ m < hi[u])  BY <4>1, <4>4, <2>u, <2>p, <1>f
        <5> QED  BY <4>1, <4>2, <4>4, <5>1, <3>0, <2>u, <1>0
      <4> QED  BY <4>3, <4>4
    <3>2. CASE T.ch["r"][n] # u /\ T.ch["r"][n] # 0
      <4>1. T.ch["r"][n] \in RbNodes /\ lo[T.ch["r"][n]] = n /\ hi[T.ch["r"][n]] = hi[n]
        BY <3>0, <3>2, <2>p, <1>0
      <4> QED  BY <4>1, <3>0, <3>2, <2>2
    <3>3. CASE T.ch["r"][n] = 0
      <4>1. S.ch["r"][n] = 0  BY <3>0, <3>3, <1>0, <1>f
      <4>2. \A m \in B : ~(n < m /\ m < hi[n])  BY <3>0, <3>3, <2>p
      <4>3. CASE hi[n] = u
        <5>1. T.ch["r"][u] = 0  BY <3>0, <4>3, <2>e, <2>u
        <5>2. \A m \in B : ~(u < m /\ m < hi[u])  BY <5>1, <2>p, <1>f
        <5>3. hi1[n] = hi[u]  BY <3>0, <4>3, <2>2
        <5> QED  BY <4>1, <4>2, <4>3, <5>2, <5>3, <3>0, <2>u, <1>0
      <4>4. CASE hi[n] # u  BY <3>0, <4>1, <4>2, <4>4, <2>2
      <4> QED  BY <4>3, <4>4
    <3> QED  BY <3>1, <3>2, <3>3
  <2>7. Placed(S, A, lo1, hi1)  BY <2>2, <2>3, <2>4, <2>5, <2>6 DEF Placed
  <2> QED  BY <2>7
<1> QED  BY <1>1, <1>2 DEF InOrder

\* Without a red node nothing is wrong, without a black one its child lacks a black.
LEMMA SpliceKeeps ==
  ASSUME NEW T, NEW B, Sound(T, B), NEW u, NEW v, NEW S, Spliced(T, B, u, v, S)
  PROVE  /\ T.red[u] => Sound(S, B \ {u})
         /\ ~T.red[u] => Repairing(S, B \ {u}, v)
<1> DEFINE A == B \ {u}
           W == Wt(T, NoNode)
           L == Lf(NoNode, 0, "l")
<1>a. InOrder(T, B) /\ Balanced(T, B, NoNode, 0, "l") /\ Clean(T, B) /\ ~T.red[0]  BY DEF Sound
<1>0. /\ T \in Trees /\ 0 \in RbNodes /\ 0 \notin B
      /\ \A n \in B : n # 0 /\ n \in RbNodes
  BY <1>a, Neighbours
<1>f. /\ u \in B /\ v \in B \cup {0} /\ v # u
      /\ v # 0 => v \in A /\ T.par[v] = u /\ v # T.root
      /\ \A n \in A, c \in Sides : T.ch[c][n] \in B \cup {0} /\ (T.ch[c][n] = v => v = 0)
      /\ \A n \in B : n # v /\ n # T.root => T.par[n] # u
      /\ \A n \in B, c \in Sides : T.ch[c][n] = u => n = T.par[u] /\ u # T.root /\ n # u
  <2>1. /\ u \in B /\ v \in B \cup {0} /\ v # u
        /\ v # 0 => v \in A /\ T.par[v] = u /\ v # T.root
        /\ \A n \in A, c \in Sides : T.ch[c][n] \in B \cup {0} /\ (T.ch[c][n] = v => v = 0)
    BY <1>a, SpliceFacts
  <2>2. \A n \in B : n # v /\ n # T.root => T.par[n] # u  BY <1>a, SpliceFacts
  <2>3. \A n \in B, c \in Sides : T.ch[c][n] = u => n = T.par[u] /\ u # T.root /\ n # u
    BY <1>a, SpliceFacts
  <2> QED  BY <2>1, <2>2, <2>3
<1>s. /\ S \in Trees /\ S.root = IF u = T.root THEN v ELSE T.root
      /\ \A n \in A : S.par[n] = IF n = v THEN T.par[u] ELSE T.par[n]
      /\ \A n \in A, c \in Sides : S.ch[c][n] = IF T.ch[c][n] = u THEN v ELSE T.ch[c][n]
      /\ \A n \in RbNodes : n # u => (S.red[n] <=> T.red[n])
      /\ v = 0 => S.par[0] = T.par[u]
  BY DEF Spliced
<1>e. PICK e \in Sides : T.ch[e][u] = v /\ T.ch[Other(e)][u] = 0  BY DEF Spliced
<1>o. \A c \in Sides : Other(c) \in Sides /\ Other(c) # c  BY SideFacts
<1>1. InOrder(S, A)  BY <1>a, SpliceOrder
<1>2. ~S.red[0]  BY <1>a, <1>0, <1>f, <1>s
<1>3. ASSUME NEW n \in A, n # v, Bad(S, n) PROVE FALSE
  <2>1. n \in B /\ n \in RbNodes /\ T.red[n] /\ (n = S.root \/ S.red[S.par[n]])  BY <1>3, <1>0, <1>s DEF Bad
  <2>2. n # T.root /\ ~T.red[T.par[n]]  BY <2>1, <1>a DEF Clean, Bad
  <2>3. n # S.root  BY <2>2, <1>3, <1>s
  <2>4. T.par[n] \in B /\ T.par[n] # u /\ S.par[n] = T.par[n]
    BY <2>1, <2>2, <1>3, <1>a, <1>f, <1>s, Neighbours
  <2> QED  BY <2>1, <2>2, <2>3, <2>4, <1>0, <1>s
<1>4. PICK H : Even(T, B, W, L, H)  BY <1>a DEF Balanced
<1>5. /\ W \in [RbNodes -> Nat] /\ L \in [Sides -> [RbNodes -> Nat]]
      /\ \A n \in RbNodes : W[n] = IF T.red[n] THEN 0 ELSE 1
      /\ \A c \in Sides, n \in RbNodes : L[c][n] = 0
  BY <1>0, Plain
<1> HIDE DEF W, L
<1>6. /\ H \in [RbNodes -> Nat] /\ \A n \in B, c \in Sides : H[n] = W[n] + Hung(T, L, H, c, n)
  BY <1>4 DEF Even
<1>7. H[u] = W[u] /\ W[u] \in Nat /\ (v # 0 => H[u] = W[u] + H[v] /\ H[v] \in Nat)
  <2>1. Hung(T, L, H, Other(e), u) = 0  BY <1>e, <1>5, <1>0, <1>f, <1>o DEF Hung
  <2>2. v # 0 => Hung(T, L, H, e, u) = H[v]  BY <1>e DEF Hung
  <2>3. W[u] \in Nat /\ (v # 0 => H[v] \in Nat)  BY <1>0, <1>5, <1>6, <1>f
  <2>4. H[u] = W[u] + 0  BY <2>1, <1>6, <1>f, <1>o
  <2>5. v # 0 => H[u] = W[u] + H[v]  BY <2>2, <1>6, <1>f
  <2> QED  BY <2>3, <2>4, <2>5
<1>8. ASSUME T.red[u] PROVE Sound(S, A)
  <2> DEFINE W1 == Wt(S, NoNode)
  <2>1. W1 \in [RbNodes -> Nat] /\ \A n \in RbNodes : W1[n] = IF S.red[n] THEN 0 ELSE 1
    BY <1>s, Plain
  <2> HIDE DEF W1
  <2>2. W[u] = 0 /\ H[u] = 0 /\ (v # 0 => H[v] = 0)  BY <1>8, <1>0, <1>5, <1>7, <1>f
  <2>3. ASSUME NEW n \in A, NEW c \in Sides PROVE H[n] = W1[n] + Hung(S, L, H, c, n)
    <3>1. W1[n] = W[n]  BY <2>1, <1>0, <1>5, <1>s
    <3>2. Hung(S, L, H, c, n) = Hung(T, L, H, c, n)
      <4>1. CASE T.ch[c][n] = u
        <5>1. S.ch[c][n] = v /\ u # 0  BY <4>1, <1>0, <1>f, <1>s
        <5>2. L[c][n] = 0  BY <1>0, <1>5
        <5> QED  BY <4>1, <5>1, <5>2, <2>2 DEF Hung
      <4>2. CASE T.ch[c][n] # u
        <5>1. S.ch[c][n] = T.ch[c][n]  BY <4>2, <1>s
        <5> QED  BY <5>1 DEF Hung
      <4> QED  BY <4>1, <4>2
    <3> QED  BY <3>1, <3>2, <1>6
  <2>4. Even(S, A, W1, L, H)  BY <2>1, <2>3, <1>5, <1>6 DEF Even
  <2>5. Balanced(S, A, NoNode, 0, "l")  BY <2>4 DEF Balanced, W1, L
  <2>6. Clean(S, A)
    <3> SUFFICES ASSUME NEW n \in A, Bad(S, n) PROVE FALSE  BY DEF Clean
    <3>1. n = v  BY <1>3
    <3>2. v # 0 /\ v \in B /\ v # T.root /\ T.par[v] = u /\ v \in RbNodes  BY <3>1, <1>0, <1>f
    <3>3. T.red[v]  BY <3>1, <3>2, <1>f, <1>s DEF Bad
    <3> QED  BY <3>2, <3>3, <1>8, <1>a DEF Clean, Bad
  <2> QED  BY <2>5, <2>6, <1>1, <1>2 DEF Sound
<1>9. ASSUME ~T.red[u] PROVE Repairing(S, A, v)
  <2>1. W[u] = 1 /\ H[u] = 1  BY <1>9, <1>0, <1>5, <1>7, <1>f
  <2>2. \A n \in A : Bad(S, n) => n = v  BY <1>3
  <2>3. v \in A \cup {0}  BY <1>f
  <2>4. CASE v # 0
    <3> DEFINE q == S.par[0]
               d == SideOf(S, 0)
               W1 == Wt(S, v)
               L1 == Lf(v, q, d)
               H1 == [H EXCEPT ![v] = H[u]]
    <3>1. /\ W1 \in [RbNodes -> Nat]
          /\ \A n \in RbNodes :
               W1[n] = IF S.red[n] THEN IF v = n THEN 1 ELSE 0 ELSE IF v = n THEN 2 ELSE 1
      BY <1>s, WtIs
    <3>2. /\ L1 \in [Sides -> [RbNodes -> Nat]]
          /\ \A c \in Sides, n \in RbNodes : L1[c][n] = 0
      BY <2>4, LfIs
    <3>3. H1 \in [RbNodes -> Nat] /\ \A n \in RbNodes : H1[n] = IF n = v THEN 1 ELSE H[n]
      BY <2>1, <1>6, <1>0, <1>f
    <3> HIDE DEF W1, L1, H1
    <3>4. ASSUME NEW n \in A, NEW c \in Sides PROVE H1[n] = W1[n] + Hung(S, L1, H1, c, n)
      <4>0. n \in B /\ n \in RbNodes /\ n # u /\ H[n] = W[n] + Hung(T, L, H, c, n)  BY <1>0, <1>6
      <4>1. Hung(S, L1, H1, c, n) = Hung(T, L, H, c, n)
        <5>1. CASE T.ch[c][n] = u
          <6>1. S.ch[c][n] = v /\ u # 0 /\ v \in RbNodes  BY <5>1, <2>4, <1>0, <1>f, <1>s
          <6>2. H1[v] = 1  BY <6>1, <3>3
          <6> QED  BY <5>1, <6>1, <6>2, <2>1, <2>4 DEF Hung
        <5>2. CASE T.ch[c][n] # u
          <6>1. S.ch[c][n] = T.ch[c][n] /\ T.ch[c][n] \in B \cup {0} /\ T.ch[c][n] # v
            BY <5>2, <2>4, <1>s, <1>f
          <6>2. L1[c][n] = L[c][n]  BY <4>0, <3>2, <1>5
          <6>3. T.ch[c][n] # 0 => H1[T.ch[c][n]] = H[T.ch[c][n]]  BY <6>1, <3>3, <1>0
          <6> QED  BY <6>1, <6>2, <6>3 DEF Hung
        <5> QED  BY <5>1, <5>2
      <4>2. CASE n = v
        <5>1. H[v] = 0 /\ H[n] \in Nat /\ W[n] \in Nat  BY <2>1, <2>4, <1>7, <4>0, <1>5, <4>2
        <5>2. Hung(T, L, H, c, n) \in Nat
          <6>1. T.ch[c][n] \in B \cup {0}  BY <1>f
          <6> QED  BY <6>1, <4>0, <1>0, <1>5, <1>6 DEF Hung
        <5>3. W[n] = 0 /\ Hung(T, L, H, c, n) = 0  BY <4>0, <4>2, <5>1, <5>2
        <5>4. W1[n] = 1  BY <4>0, <4>2, <5>3, <3>1, <1>5, <1>s
        <5> QED  BY <4>0, <4>1, <4>2, <5>3, <5>4, <3>3
      <4>3. CASE n # v
        <5>1. H1[n] = H[n] /\ W1[n] = W[n]  BY <4>0, <4>3, <3>1, <3>3, <1>5, <1>s
        <5> QED  BY <4>0, <4>1, <5>1
      <4> QED  BY <4>2, <4>3
    <3>5. Even(S, A, W1, L1, H1)  BY <3>1, <3>2, <3>3, <3>4 DEF Even
    <3>6. Balanced(S, A, v, S.par[0], SideOf(S, 0))  BY <3>5 DEF Balanced, W1, L1
    <3> QED  BY <3>6, <2>2, <2>3, <2>4, <1>1, <1>2 DEF Repairing
  <2>5. CASE v = 0 /\ A = {}
    <3> DEFINE W1 == Wt(S, 0)
               L1 == Lf(0, S.par[0], SideOf(S, 0))
    <3>1. W1 \in [RbNodes -> Nat]  BY <1>s, WtIs
    <3>2. L1 \in [Sides -> [RbNodes -> Nat]]  BY LfIs
    <3>3. Even(S, A, W1, L1, H)  BY <3>1, <3>2, <1>6, <2>5 DEF Even
    <3>4. Balanced(S, A, v, S.par[0], SideOf(S, 0))  BY <3>3, <2>5 DEF Balanced
    <3> QED  BY <3>4, <2>2, <2>3, <2>5, <1>1, <1>2 DEF Repairing
  <2>6. CASE v = 0 /\ A # {}
    <3>1. u # T.root
      <4>1. S.root # 0  BY <2>6, <1>1 DEF InOrder, Joined
      <4> QED  BY <4>1, <2>6, <1>s
    <3>2. PICK p \in B : p = T.par[u]  BY <3>1, <1>a, <1>f, Neighbours
    <3>3. PICK s \in Sides : T.ch[s][p] = u  BY <3>1, <3>2, <1>a, <1>f, Neighbours
    <3>4. p \in A /\ p \in RbNodes /\ p # 0 /\ S.ch[s][p] = 0 /\ S.par[0] = p
      BY <3>2, <3>3, <2>6, <1>0, <1>f, <1>s
    <3>5. S.ch[Other(s)][p] # 0
      <4>1. T.ch[Other(s)][p] # u  BY <3>2, <3>3, <1>a, <1>f, <1>0, Neighbours
      <4>2. S.ch[Other(s)][p] = T.ch[Other(s)][p]  BY <4>1, <3>4, <1>s, <1>o
      <4>3. Hung(T, L, H, s, p) = 1  BY <3>3, <2>1, <1>f, <1>0 DEF Hung
      <4>4. H[p] = W[p] + 1 /\ H[p] = W[p] + Hung(T, L, H, Other(s), p) /\ W[p] \in Nat
        BY <4>3, <3>4, <1>6, <1>5, <1>o
      <4>5. T.ch[Other(s)][p] = 0 => Hung(T, L, H, Other(s), p) = 0
        BY <3>4, <1>5, <1>o DEF Hung
      <4> QED  BY <4>2, <4>4, <4>5
    <3>6. SideOf(S, 0) = s
      <4>1. s = "l" \/ (s = "r" /\ Other(s) = "l")  BY SideFacts DEF Sides
      <4> QED  BY <4>1, <3>4, <3>5 DEF SideOf
    <3> DEFINE W1 == Wt(S, 0)
               L1 == Lf(0, p, s)
    <3>7. /\ W1 \in [RbNodes -> Nat]
          /\ \A n \in RbNodes :
               W1[n] = IF S.red[n] THEN IF 0 = n THEN 1 ELSE 0 ELSE IF 0 = n THEN 2 ELSE 1
      BY <1>s, WtIs
    <3>8. /\ L1 \in [Sides -> [RbNodes -> Nat]]
          /\ \A c \in Sides, n \in RbNodes : L1[c][n] = IF n = p /\ c = s THEN 1 ELSE 0
      BY LfIs
    <3> HIDE DEF W1, L1
    <3>9. ASSUME NEW n \in A, NEW c \in Sides PROVE H[n] = W1[n] + Hung(S, L1, H, c, n)
      <4>0. n \in B /\ n \in RbNodes /\ n # u /\ n # 0 /\ H[n] = W[n] + Hung(T, L, H, c, n)  BY <1>0, <1>6
      <4>1. W1[n] = W[n]  BY <4>0, <3>7, <1>5, <1>s
      <4>2. Hung(S, L1, H, c, n) = Hung(T, L, H, c, n)
        <5>1. CASE T.ch[c][n] = u
          <6>1. n = p  BY <5>1, <3>2, <1>f
          <6>2. c = s  BY <5>1, <6>1, <3>5, <2>6, <1>s, SideFacts
          <6>3. S.ch[c][n] = 0 /\ L1[c][n] = 1  BY <6>1, <6>2, <3>4, <3>8
          <6> QED  BY <5>1, <6>3, <2>1, <1>f, <1>0 DEF Hung
        <5>2. CASE T.ch[c][n] # u
          <6>1. S.ch[c][n] = T.ch[c][n]  BY <5>2, <1>s
          <6>2. L1[c][n] = 0 /\ L[c][n] = 0  BY <4>0, <5>2, <3>3, <3>8, <1>5
          <6> QED  BY <6>1, <6>2 DEF Hung
        <5> QED  BY <5>1, <5>2
      <4> QED  BY <4>0, <4>1, <4>2
    <3>10. Even(S, A, W1, L1, H)  BY <3>7, <3>8, <3>9, <1>6 DEF Even
    <3>11. Balanced(S, A, 0, p, s)  BY <3>10 DEF Balanced, W1, L1
    <3>12. Balanced(S, A, v, S.par[0], SideOf(S, 0))  BY <3>11, <3>4, <3>6, <2>6
    <3>13. S.par[0] \in A /\ S.ch[SideOf(S, 0)][S.par[0]] = 0  BY <3>4, <3>6
    <3> QED  BY <3>12, <3>13, <2>2, <2>3, <1>1, <1>2 DEF Repairing
  <2> QED  BY <2>4, <2>5, <2>6
<1> QED  BY <1>8, <1>9

\* y in the place of z.
As(z, y, n) == IF n = z THEN y ELSE n

\* Q is S with its next key y in the place of the node z.
Renamed(S, A, z, y, Q) ==
  /\ z \in A /\ y \in RbKeys /\ y \notin A /\ z < y
  /\ \A m \in A : ~(z < m /\ m < y)
  /\ Q \in Trees /\ Q.root = As(z, y, S.root)
  /\ \A c \in Sides : Q.ch[c][0] = 0
  /\ \A n \in A : /\ Q.par[As(z, y, n)] = As(z, y, S.par[n])
                  /\ Q.red[As(z, y, n)] <=> S.red[n]
                  /\ \A c \in Sides : Q.ch[c][As(z, y, n)] = As(z, y, S.ch[c][n])
  /\ Q.red[0] <=> S.red[0]

\* Giving z the name of its successor y keeps nodes apart and in order.
LEMMA AsFacts ==
  ASSUME NEW A, A \subseteq RbKeys, NEW z \in A, NEW y \in RbKeys, y \notin A, z < y,
         \A m \in A : ~(z < m /\ m < y)
  PROVE  /\ As(z, y, 0) = 0 /\ As(z, y, TreeSize + 1) = TreeSize + 1
         /\ \A n \in A : As(z, y, n) \in (A \ {z}) \cup {y} /\ As(z, y, n) # 0 /\ As(z, y, n) \in RbKeys
         /\ \A m \in (A \ {z}) \cup {y} : \E n \in A : m = As(z, y, n)
         /\ \A m, n \in A \cup {0} : As(z, y, m) = As(z, y, n) => m = n
         /\ \A m, n \in A \cup {0, TreeSize + 1} : As(z, y, m) < As(z, y, n) <=> m < n
<1>1. /\ \A n \in A : n \in Nat /\ n # 0 /\ n <= TreeSize /\ n # y /\ n \in RbKeys
      /\ y \in Nat /\ y # 0 /\ y <= TreeSize /\ TreeSize \in Nat /\ z \in Nat /\ z # 0 /\ z <= TreeSize
  BY TreeAssumption DEF RbKeys
<1>2. As(z, y, 0) = 0 /\ As(z, y, TreeSize + 1) = TreeSize + 1  BY <1>1 DEF As
<1>3. \A n \in A : As(z, y, n) \in (A \ {z}) \cup {y} /\ As(z, y, n) # 0 /\ As(z, y, n) \in RbKeys
  BY <1>1 DEF As
<1>4. ASSUME NEW m \in (A \ {z}) \cup {y} PROVE \E n \in A : m = As(z, y, n)
  <2>1. CASE m = y
    <3>1. m = As(z, y, z)  BY <2>1 DEF As
    <3> QED  BY <3>1
  <2>2. CASE m # y
    <3>1. m \in A /\ m = As(z, y, m)  BY <2>2 DEF As
    <3> QED  BY <3>1
  <2> QED  BY <2>1, <2>2
<1>5. \A m, n \in A \cup {0} : As(z, y, m) = As(z, y, n) => m = n  BY <1>1 DEF As
<1>6. ASSUME NEW m \in A \cup {0, TreeSize + 1}, NEW n \in A \cup {0, TreeSize + 1}
      PROVE  As(z, y, m) < As(z, y, n) <=> m < n
  <2>1. m \in Nat /\ n \in Nat /\ m # y /\ n # y /\ ~(z < m /\ m < y) /\ ~(z < n /\ n < y)
    BY <1>1
  <2> QED  BY <2>1, <1>1 DEF As
<1> QED  BY <1>2, <1>3, <1>4, <1>5, <1>6

\* So the tree with z renamed is in order.
LEMMA RenameOrder ==
  ASSUME NEW S, NEW A, InOrder(S, A), NEW z, NEW y, NEW Q, Renamed(S, A, z, y, Q)
  PROVE  InOrder(Q, (A \ {z}) \cup {y})
<1> DEFINE A1 == (A \ {z}) \cup {y}
           Z(n) == As(z, y, n)
<1>0. /\ A \subseteq RbKeys /\ 0 \in RbNodes /\ 0 \notin A
      /\ \A n \in A : n # 0 /\ n \in RbNodes
      /\ S.root \in A \cup {0} /\ (S.root = 0 <=> A = {})
  BY Neighbours
<1>n. /\ S.root # 0 => S.par[S.root] = 0
      /\ \A n \in A, c \in Sides :
              /\ S.ch[c][n] \in A \cup {0}
              /\ S.ch[c][n] # 0 =>
                   /\ S.ch[c][n] \in A /\ S.par[S.ch[c][n]] = n
                   /\ S.ch[c][n] # S.ch[Other(c)][n] /\ S.ch[c][n] # S.root
      /\ \A n \in A : n # S.root => S.par[n] \in A /\ \E c \in Sides : S.ch[c][S.par[n]] = n
  BY Neighbours
<1>r. /\ z \in A /\ y \in RbKeys /\ y \notin A /\ z < y /\ \A m \in A : ~(z < m /\ m < y)
      /\ Q \in Trees /\ Q.root = Z(S.root)
      /\ \A c \in Sides : Q.ch[c][0] = 0
      /\ \A n \in A : Q.par[Z(n)] = Z(S.par[n])
      /\ \A n \in A, c \in Sides : Q.ch[c][Z(n)] = Z(S.ch[c][n])
  BY DEF Renamed
<1>z. /\ Z(0) = 0 /\ Z(TreeSize + 1) = TreeSize + 1
      /\ \A n \in A : Z(n) \in A1 /\ Z(n) # 0 /\ Z(n) \in RbKeys
      /\ \A m \in A1 : \E n \in A : m = Z(n)
      /\ \A m, n \in A \cup {0} : Z(m) = Z(n) => m = n
      /\ \A m, n \in A \cup {0, TreeSize + 1} : Z(m) < Z(n) <=> m < n
  <2>1. z \in A /\ y \in RbKeys /\ y \notin A /\ z < y /\ \A m \in A : ~(z < m /\ m < y)  BY <1>r
  <2> QED  BY <2>1, <1>0, AsFacts
<1>o. \A c \in Sides : Other(c) \in Sides  BY SideFacts
<1>c. \A n \in A, c \in Sides : Q.ch[c][Z(n)] = 0 <=> S.ch[c][n] = 0
  <2> SUFFICES ASSUME NEW n \in A, NEW c \in Sides PROVE Q.ch[c][Z(n)] = 0 <=> S.ch[c][n] = 0
    OBVIOUS
  <2>1. Q.ch[c][Z(n)] = Z(S.ch[c][n]) /\ S.ch[c][n] \in A \cup {0}  BY <1>r, <1>n
  <2> HIDE DEF Z
  <2> QED  BY <2>1, <1>z
<1>k. A1 \subseteq RbKeys  BY <1>0, <1>r
<1> HIDE DEF A1, Z
<1>1. Joined(Q, A1)
  <2>1. Q.root \in A1 /\ Q.root # 0 /\ Q.par[Q.root] = 0
    <3>1. S.root \in A /\ S.root # 0  BY <1>0, <1>r
    <3> QED  BY <3>1, <1>r, <1>z, <1>n
  <2>2. ASSUME NEW m \in A1, NEW c \in Sides
        PROVE  /\ Q.ch[c][m] \in A1 \cup {0}
               /\ Q.ch[c][m] # 0 => Q.par[Q.ch[c][m]] = m /\ Q.ch[c][m] # Q.ch[Other(c)][m]
               /\ Q.ch[c][m] # Q.root \/ Q.ch[c][m] = 0
    <3>1. PICK n \in A : m = Z(n)  BY <1>z
    <3>2. Q.ch[c][m] = Z(S.ch[c][n]) /\ S.ch[c][n] \in A \cup {0}  BY <3>1, <1>r, <1>n
    <3>3. CASE S.ch[c][n] = 0  BY <3>2, <3>3, <1>z
    <3>4. CASE S.ch[c][n] # 0
      <4>1. /\ S.ch[c][n] \in A /\ S.par[S.ch[c][n]] = n /\ S.ch[c][n] # S.root
            /\ S.ch[c][n] # S.ch[Other(c)][n]
        BY <3>4, <1>n
      <4>2. Q.par[Z(S.ch[c][n])] = m  BY <4>1, <3>1, <1>r
      <4>3. Q.ch[Other(c)][m] = Z(S.ch[Other(c)][n]) /\ S.ch[Other(c)][n] \in A \cup {0}
        BY <3>1, <1>r, <1>n, <1>o
      <4>4. Z(S.ch[c][n]) # Z(S.ch[Other(c)][n])  BY <4>1, <4>3, <1>z
      <4>5. Z(S.ch[c][n]) # Z(S.root)  BY <4>1, <1>z, <1>0
      <4>6. Z(S.ch[c][n]) \in A1  BY <4>1, <1>z
      <4> QED  BY <3>2, <4>2, <4>3, <4>4, <4>5, <4>6, <1>r
    <3> QED  BY <3>3, <3>4
  <2>3. ASSUME NEW m \in A1, m # Q.root
        PROVE  Q.par[m] \in A1 /\ \E c \in Sides : Q.ch[c][Q.par[m]] = m
    <3>1. PICK n \in A : m = Z(n)  BY <1>z
    <3>2. n # S.root  BY <3>1, <2>3, <1>r
    <3>3. S.par[n] \in A  BY <3>2, <1>n
    <3>4. PICK c \in Sides : S.ch[c][S.par[n]] = n  BY <3>2, <1>n
    <3>5. Q.par[m] = Z(S.par[n])  BY <3>1, <1>r
    <3>6. Q.ch[c][Z(S.par[n])] = m  BY <3>1, <3>3, <3>4, <1>r
    <3> QED  BY <3>3, <3>5, <3>6, <1>z
  <2> QED  BY <2>1, <2>2, <2>3, <1>r, <1>k DEF Joined
<1>2. \E lo1, hi1 : Placed(Q, A1, lo1, hi1)
  <2>1. PICK lo, hi : Placed(S, A, lo, hi)  BY DEF InOrder
  <2> DEFINE Back(m) == IF m = y THEN z ELSE m
             lo1 == [m \in RbNodes |-> Z(lo[Back(m)])]
             hi1 == [m \in RbNodes |-> Z(hi[Back(m)])]
  <2>b. /\ \A n \in RbNodes : lo[n] \in Bounds /\ hi[n] \in Bounds
        /\ RbNodes \subseteq Bounds
    BY <2>1, BoundFacts
  <2>2. lo1 \in [RbNodes -> Bounds] /\ hi1 \in [RbNodes -> Bounds]
    <3>1. \A m \in RbNodes : Back(m) \in RbNodes  BY <1>r, <1>0
    <3>2. \A b \in Bounds : Z(b) \in Bounds  BY <2>b, <1>r, NodeFacts DEF Z, As
    <3> HIDE DEF Back
    <3> QED  BY <2>b, <3>1, <3>2
  <2>3. \A n \in A : lo1[Z(n)] = Z(lo[n]) /\ hi1[Z(n)] = Z(hi[n])
    <3> SUFFICES ASSUME NEW n \in A PROVE lo1[Z(n)] = Z(lo[n]) /\ hi1[Z(n)] = Z(hi[n])  OBVIOUS
    <3>1. Z(n) \in RbNodes  BY <1>z, NodeFacts
    <3>2. Back(Z(n)) = n  BY <1>r DEF Z, As
    <3> HIDE DEF Back
    <3> QED  BY <3>1, <3>2
  <2> HIDE DEF lo1, hi1, Back
  <2>p. /\ \A n \in A : lo[n] < n /\ n < hi[n]
        /\ S.root # 0 => lo[S.root] = 0 /\ hi[S.root] = TreeSize + 1
        /\ \A n \in A :
             /\ S.ch["l"][n] # 0 => lo[S.ch["l"][n]] = lo[n] /\ hi[S.ch["l"][n]] = n
             /\ S.ch["r"][n] # 0 => lo[S.ch["r"][n]] = n /\ hi[S.ch["r"][n]] = hi[n]
             /\ S.ch["l"][n] = 0 => \A m \in A : ~(lo[n] < m /\ m < n)
             /\ S.ch["r"][n] = 0 => \A m \in A : ~(n < m /\ m < hi[n])
    BY <2>1 DEF Placed
  <2>e. \A n \in A : lo[n] \in A \cup {0, TreeSize + 1} /\ hi[n] \in A \cup {0, TreeSize + 1}
    BY <2>1, Edges
  <2>4. \A n \in A, m \in A : /\ Z(lo[n]) < Z(m) <=> lo[n] < m
                              /\ Z(m) < Z(hi[n]) <=> m < hi[n]
                              /\ Z(m) < Z(n) <=> m < n
    BY <2>e, <1>z
  <2>5. ASSUME NEW m \in A1 PROVE lo1[m] < m /\ m < hi1[m]
    <3>1. PICK n \in A : m = Z(n)  BY <1>z
    <3> QED  BY <3>1, <2>3, <2>4, <2>p
  <2>6. Q.root # 0 => lo1[Q.root] = 0 /\ hi1[Q.root] = TreeSize + 1
    <3>1. S.root \in A /\ S.root # 0  BY <1>0, <1>r
    <3>2. Q.root = Z(S.root)  BY <1>r
    <3>3. lo[S.root] = 0 /\ hi[S.root] = TreeSize + 1  BY <3>1, <2>p
    <3> QED  BY <3>1, <3>2, <3>3, <2>3, <1>z
  <2>7. ASSUME NEW m \in A1
        PROVE  /\ Q.ch["l"][m] # 0 => lo1[Q.ch["l"][m]] = lo1[m] /\ hi1[Q.ch["l"][m]] = m
               /\ Q.ch["r"][m] # 0 => lo1[Q.ch["r"][m]] = m /\ hi1[Q.ch["r"][m]] = hi1[m]
               /\ Q.ch["l"][m] = 0 => \A k \in A1 : ~(lo1[m] < k /\ k < m)
               /\ Q.ch["r"][m] = 0 => \A k \in A1 : ~(m < k /\ k < hi1[m])
    <3>0. "l" \in Sides /\ "r" \in Sides  BY SideFacts
    <3>1. PICK n \in A : m = Z(n)  BY <1>z
    <3>2. /\ Q.ch["l"][m] = Z(S.ch["l"][n]) /\ (Q.ch["l"][m] = 0 <=> S.ch["l"][n] = 0)
          /\ Q.ch["r"][m] = Z(S.ch["r"][n]) /\ (Q.ch["r"][m] = 0 <=> S.ch["r"][n] = 0)
      BY <3>0, <3>1, <1>r, <1>c
    <3>3. lo1[m] = Z(lo[n]) /\ hi1[m] = Z(hi[n])  BY <3>1, <2>3
    <3>4. ASSUME Q.ch["l"][m] # 0 PROVE lo1[Q.ch["l"][m]] = lo1[m] /\ hi1[Q.ch["l"][m]] = m
      <4>1. S.ch["l"][n] \in A /\ S.ch["l"][n] # 0  BY <3>4, <3>2, <3>0, <1>n
      <4>2. lo[S.ch["l"][n]] = lo[n] /\ hi[S.ch["l"][n]] = n  BY <4>1, <2>p
      <4>3. lo1[Z(S.ch["l"][n])] = Z(lo[S.ch["l"][n]]) /\ hi1[Z(S.ch["l"][n])] = Z(hi[S.ch["l"][n]])
        BY <4>1, <2>3
      <4> QED  BY <4>2, <4>3, <3>1, <3>2, <3>3
    <3>5. ASSUME Q.ch["r"][m] # 0 PROVE lo1[Q.ch["r"][m]] = m /\ hi1[Q.ch["r"][m]] = hi1[m]
      <4>1. S.ch["r"][n] \in A /\ S.ch["r"][n] # 0  BY <3>5, <3>2, <3>0, <1>n
      <4>2. lo[S.ch["r"][n]] = n /\ hi[S.ch["r"][n]] = hi[n]  BY <4>1, <2>p
      <4>3. lo1[Z(S.ch["r"][n])] = Z(lo[S.ch["r"][n]]) /\ hi1[Z(S.ch["r"][n])] = Z(hi[S.ch["r"][n]])
        BY <4>1, <2>3
      <4> QED  BY <4>2, <4>3, <3>1, <3>2, <3>3
    <3>6. ASSUME Q.ch["l"][m] = 0, NEW k \in A1 PROVE ~(lo1[m] < k /\ k < m)
      <4>1. PICK j \in A : k = Z(j)  BY <1>z
      <4>2. ~(lo[n] < j /\ j < n)  BY <3>6, <3>2, <2>p
      <4> QED  BY <4>1, <4>2, <3>1, <3>3, <2>4
    <3>7. ASSUME Q.ch["r"][m] = 0, NEW k \in A1 PROVE ~(m < k /\ k < hi1[m])
      <4>1. PICK j \in A : k = Z(j)  BY <1>z
      <4>2. ~(n < j /\ j < hi[n])  BY <3>7, <3>2, <2>p
      <4> QED  BY <4>1, <4>2, <3>1, <3>3, <2>4
    <3> QED  BY <3>4, <3>5, <3>6, <3>7
  <2>8. Placed(Q, A1, lo1, hi1)  BY <2>2, <2>5, <2>6, <2>7 DEF Placed
  <2> QED  BY <2>8
<1>3. InOrder(Q, A1)  BY <1>1, <1>2 DEF InOrder
<1> QED  BY <1>3 DEF A1

\* Taking y for z keeps the nodes apart and in order.
Mapped(A, z, y) ==
  /\ As(z, y, 0) = 0
  /\ \A n \in A : As(z, y, n) \in (A \ {z}) \cup {y} /\ As(z, y, n) # 0 /\ As(z, y, n) \in RbKeys
  /\ \A m \in (A \ {z}) \cup {y} : \E n \in A : m = As(z, y, n)
  /\ \A m, n \in A \cup {0} : As(z, y, m) = As(z, y, n) => m = n

\* The renaming is one to one, and leaves the sentinel alone.
LEMMA RenameMaps ==
  ASSUME NEW S, NEW A, InOrder(S, A), NEW z, NEW y, NEW Q, Renamed(S, A, z, y, Q)
  PROVE  Mapped(A, z, y)
<1>1. z \in A /\ y \in RbKeys /\ y \notin A /\ z < y /\ \A m \in A : ~(z < m /\ m < y)
  BY DEF Renamed
<1>2. A \subseteq RbKeys  BY Neighbours
<1>3. /\ As(z, y, 0) = 0 /\ As(z, y, TreeSize + 1) = TreeSize + 1
      /\ \A n \in A : As(z, y, n) \in (A \ {z}) \cup {y} /\ As(z, y, n) # 0 /\ As(z, y, n) \in RbKeys
      /\ \A m \in (A \ {z}) \cup {y} : \E n \in A : m = As(z, y, n)
      /\ \A m, n \in A \cup {0} : As(z, y, m) = As(z, y, n) => m = n
      /\ \A m, n \in A \cup {0, TreeSize + 1} : As(z, y, m) < As(z, y, n) <=> m < n
  BY <1>1, <1>2, AsFacts
<1> QED  BY <1>3 DEF Mapped

\* The weights of the nodes, carried over.
Carried(A, z, y, W, L, W1, L1) ==
  /\ W1 \in [RbNodes -> Nat] /\ L1 \in [Sides -> [RbNodes -> Nat]]
  /\ \A n \in A : W1[As(z, y, n)] = W[n]
  /\ \A n \in A, c \in Sides : L1[c][As(z, y, n)] = L[c][n]

\* The new node has the weight of the old one.
LEMMA RenameEven ==
  ASSUME NEW S, NEW A, InOrder(S, A), NEW z, NEW y, NEW Q, Renamed(S, A, z, y, Q),
         NEW W, NEW L, NEW H, Even(S, A, W, L, H),
         NEW W1, NEW L1, Carried(A, z, y, W, L, W1, L1)
  PROVE  \E H1 : Even(Q, (A \ {z}) \cup {y}, W1, L1, H1)
<1> DEFINE A1 == (A \ {z}) \cup {y}
           Z(n) == As(z, y, n)
           H1 == [H EXCEPT ![y] = H[z]]
<1>0. A \subseteq RbKeys /\ \A n \in A : n # 0 /\ n \in RbNodes  BY Neighbours
<1>r. /\ z \in A /\ y \in RbKeys /\ y \notin A /\ z < y /\ \A m \in A : ~(z < m /\ m < y)
      /\ \A n \in A, c \in Sides : Q.ch[c][Z(n)] = Z(S.ch[c][n])
  BY DEF Renamed
<1>z. /\ Z(0) = 0
      /\ \A n \in A : Z(n) # 0
      /\ \A m \in A1 : \E n \in A : m = Z(n)
  BY RenameMaps DEF Mapped
<1>h. H \in [RbNodes -> Nat] /\ \A n \in A, c \in Sides : H[n] = W[n] + Hung(S, L, H, c, n)
  BY DEF Even
<1>1. H1 \in [RbNodes -> Nat] /\ \A n \in A : H1[Z(n)] = H[n]
  BY <1>0, <1>h, <1>r, NodeFacts DEF As
<1>w. (\A n \in A : W1[Z(n)] = W[n]) /\ \A n \in A, c \in Sides : L1[c][Z(n)] = L[c][n]
  BY DEF Carried
<1> HIDE DEF A1, Z, H1
<1>2. ASSUME NEW m \in A1, NEW c \in Sides PROVE H1[m] = W1[m] + Hung(Q, L1, H1, c, m)
  <2>1. PICK n \in A : m = Z(n)  BY <1>z
  <2>2. Q.ch[c][m] = Z(S.ch[c][n]) /\ S.ch[c][n] \in A \cup {0}  BY <2>1, <1>r, Neighbours
  <2>3. Hung(Q, L1, H1, c, m) = Hung(S, L, H, c, n)
    <3>1. CASE S.ch[c][n] = 0
      <4>1. Q.ch[c][m] = 0 /\ L1[c][m] = L[c][n]  BY <2>1, <2>2, <3>1, <1>z, <1>w
      <4> QED  BY <3>1, <4>1 DEF Hung
    <3>2. CASE S.ch[c][n] # 0
      <4>1. Q.ch[c][m] # 0 /\ H1[Q.ch[c][m]] = H[S.ch[c][n]]  BY <2>2, <3>2, <1>1, <1>z
      <4> QED  BY <3>2, <4>1 DEF Hung
    <3> QED  BY <3>1, <3>2
  <2>4. H1[m] = H[n] /\ W1[m] = W[n]  BY <2>1, <1>1, <1>w
  <2> QED  BY <2>3, <2>4, <1>h
<1>c. W1 \in [RbNodes -> Nat] /\ L1 \in [Sides -> [RbNodes -> Nat]]  BY DEF Carried
<1>3. Even(Q, A1, W1, L1, H1)  BY <1>1, <1>2, <1>c DEF Even
<1> QED  BY <1>3 DEF A1

\* Renaming keeps the colours right, and a lacking black where it was.
LEMMA RenameKeeps ==
  ASSUME NEW S, NEW A, NEW z, NEW y, NEW Q, Renamed(S, A, z, y, Q)
  PROVE  /\ Sound(S, A) => Sound(Q, (A \ {z}) \cup {y})
         /\ \A x : Repairing(S, A, x) /\ x # z /\ (x = 0 => Q.par[0] = As(z, y, S.par[0])) =>
                    Repairing(Q, (A \ {z}) \cup {y}, x)
<1> DEFINE A1 == (A \ {z}) \cup {y}
           Z(n) == As(z, y, n)
<1>r. /\ z \in A /\ y \in RbKeys /\ y \notin A /\ z < y /\ \A m \in A : ~(z < m /\ m < y)
      /\ Q \in Trees /\ Q.root = Z(S.root)
      /\ \A n \in A : Q.par[Z(n)] = Z(S.par[n]) /\ (Q.red[Z(n)] <=> S.red[n])
      /\ \A n \in A, c \in Sides : Q.ch[c][Z(n)] = Z(S.ch[c][n])
      /\ Q.red[0] <=> S.red[0]
  BY DEF Renamed
<1>z. ASSUME InOrder(S, A)
      PROVE  /\ Z(0) = 0
             /\ \A n \in A : Z(n) \in A1 /\ Z(n) # 0 /\ Z(n) \in RbNodes
             /\ \A m \in A1 : \E n \in A : m = Z(n)
             /\ \A m, n \in A \cup {0} : Z(m) = Z(n) => m = n
             /\ A \subseteq RbKeys /\ 0 \notin A /\ 0 \in RbNodes
             /\ \A n \in A : n \in RbNodes
             /\ S \in Trees /\ S.root \in A
  <2>2. A \subseteq RbKeys /\ 0 \notin A /\ 0 \in RbNodes /\ S \in Trees /\ S.root \in A /\ (\A n \in A : n \in RbNodes)
    BY <1>z, <1>r, Neighbours
  <2>3. /\ Z(0) = 0
        /\ \A n \in A : Z(n) \in A1 /\ Z(n) # 0 /\ Z(n) \in RbKeys
        /\ \A m \in A1 : \E n \in A : m = Z(n)
        /\ \A m, n \in A \cup {0} : Z(m) = Z(n) => m = n
    <3>1. Mapped(A, z, y)  BY <1>z, RenameMaps
    <3> QED  BY <3>1 DEF Mapped
  <2> QED  BY <2>2, <2>3, NodeFacts
<1>b. ASSUME InOrder(S, A), NEW n \in A, Bad(Q, Z(n)) PROVE Bad(S, n)
  <2>0. Z(0) = 0 /\ (\A m, k \in A \cup {0} : Z(m) = Z(k) => m = k) /\ S.root \in A  BY <1>b, <1>z
  <2>1. S.red[n] /\ (Z(n) = Q.root \/ Q.red[Q.par[Z(n)]])  BY <1>b, <1>r DEF Bad
  <2> HIDE DEF Z
  <2>2. CASE n = S.root  BY <2>1, <2>2 DEF Bad
  <2>3. CASE n # S.root
    <3>1. Z(n) # Q.root  BY <2>0, <2>3, <1>r
    <3>2. S.par[n] \in A  BY <1>b, <2>3, Neighbours
    <3>3. S.red[S.par[n]]  BY <2>1, <3>1, <3>2, <1>r
    <3> QED  BY <2>1, <3>3 DEF Bad
  <2> QED  BY <2>2, <2>3
<1>1. ASSUME Sound(S, A) PROVE Sound(Q, A1)
  <2>1. InOrder(S, A) /\ Balanced(S, A, NoNode, 0, "l") /\ Clean(S, A) /\ ~S.red[0]  BY <1>1 DEF Sound
  <2>2. InOrder(Q, A1)  BY <2>1, RenameOrder
  <2>z. /\ \A n \in A : Z(n) \in RbNodes /\ n \in RbNodes
        /\ \A m \in A1 : \E n \in A : m = Z(n)
        /\ S \in Trees
    BY <2>1, <1>z
  <2>3. Balanced(Q, A1, NoNode, 0, "l")
    <3> DEFINE W == Wt(S, NoNode)
               W1 == Wt(Q, NoNode)
               L == Lf(NoNode, 0, "l")
    <3>1. PICK H : Even(S, A, W, L, H)  BY <2>1 DEF Balanced
    <3>2. /\ W1 \in [RbNodes -> Nat] /\ L \in [Sides -> [RbNodes -> Nat]]
          /\ \A n \in RbNodes : W1[n] = IF Q.red[n] THEN 0 ELSE 1
          /\ \A c \in Sides, n \in RbNodes : L[c][n] = 0
      BY <1>r, Plain
    <3>3. \A n \in RbNodes : W[n] = IF S.red[n] THEN 0 ELSE 1  BY <2>z, Plain
    <3> HIDE DEF W, W1, L
    <3>4. \A n \in A : W1[Z(n)] = W[n]  
      <4> HIDE DEF Z
      <4> QED  BY <3>2, <3>3, <2>z, <1>r
    <3>5. \A n \in A, c \in Sides : L[c][Z(n)] = L[c][n]  BY <3>2, <2>z
    <3>c. Carried(A, z, y, W, L, W1, L)  BY <3>2, <3>4, <3>5 DEF Carried
    <3>6. \E H1 : Even(Q, (A \ {z}) \cup {y}, W1, L, H1)  BY <3>1, <3>c, <2>1, RenameEven
    <3> QED  BY <3>6 DEF Balanced, W1, L
  <2>4. Clean(Q, A1)
    <3> SUFFICES ASSUME NEW m \in A1, Bad(Q, m) PROVE FALSE  BY DEF Clean
    <3>1. PICK n \in A : m = Z(n)  BY <2>z
    <3>2. Bad(S, n)  BY <3>1, <2>1, <1>b
    <3> QED  BY <3>2, <2>1 DEF Clean
  <2> QED  BY <2>1, <2>2, <2>3, <2>4, <1>r DEF Sound
<1>2. ASSUME NEW x, Repairing(S, A, x), x # z, x = 0 => Q.par[0] = Z(S.par[0])
      PROVE  Repairing(Q, A1, x)
  <2>1. /\ InOrder(S, A) /\ x \in A \cup {0} /\ ~S.red[0]
        /\ Balanced(S, A, x, S.par[0], SideOf(S, 0))
        /\ x = 0 => S.par[0] \in A /\ S.ch[SideOf(S, 0)][S.par[0]] = 0
        /\ \A n \in A : Bad(S, n) => n = x \/ (x # 0 /\ n # S.root /\ S.par[n] = x)
    BY <1>2, <1>r DEF Repairing
  <2>2. InOrder(Q, A1)  BY <2>1, RenameOrder
  <2>z. /\ \A n \in A : Z(n) \in RbNodes /\ n \in RbNodes /\ Z(n) # 0 /\ Z(n) \in A1
        /\ \A m \in A1 : \E n \in A : m = Z(n)
        /\ \A m, n \in A \cup {0} : Z(m) = Z(n) => m = n
        /\ S \in Trees /\ Z(0) = 0 /\ 0 \in RbNodes /\ 0 \notin A /\ S.root \in A
    BY <2>1, <1>z
  <2>x. Z(x) = x  BY <1>2 DEF As
  <2>a. x \in A1 \cup {0}  BY <1>2, <2>1
  <2> DEFINE q == S.par[0]
             d == SideOf(S, 0)
             q1 == Q.par[0]
             d1 == SideOf(Q, 0)
  <2>s. d \in Sides /\ d1 \in Sides  BY DEF SideOf, Sides
  <2>d. x = 0 => q \in A /\ q1 = Z(q) /\ d1 = d /\ Q.ch[d1][q1] = 0
    <3> SUFFICES ASSUME x = 0 PROVE q \in A /\ q1 = Z(q) /\ d1 = d /\ Q.ch[d1][q1] = 0  OBVIOUS
    <3>1. q \in A /\ q1 = Z(q) /\ S.ch[d][q] = 0  BY <1>2, <2>1
    <3>2. \A c \in Sides : Q.ch[c][q1] = 0 <=> S.ch[c][q] = 0
      <4>1. \A c \in Sides : S.ch[c][q] \in A \cup {0}  BY <3>1, <2>1, Neighbours
      <4>2. \A c \in Sides : Q.ch[c][q1] = Z(S.ch[c][q])  BY <3>1, <1>r
      <4> HIDE DEF Z, q, q1
      <4> QED  BY <4>1, <4>2, <2>z
    <3>3. Q.ch["l"][q1] = 0 <=> S.ch["l"][q] = 0  BY <3>2, SideFacts
    <3>4. d1 = d  BY <3>3 DEF SideOf
    <3> QED  BY <3>1, <3>2, <3>4, <2>s
  <2>3. Balanced(Q, A1, x, q1, d1)
    <3> HIDE DEF q, d, q1, d1
    <3> DEFINE W == Wt(S, x)
               W1 == Wt(Q, x)
               L == Lf(x, q, d)
               L1 == Lf(x, q1, d1)
    <3>1. PICK H : Even(S, A, W, L, H)  BY <2>1 DEF Balanced, q, d
    <3>2. /\ W1 \in [RbNodes -> Nat]
          /\ \A n \in RbNodes :
               W1[n] = IF Q.red[n] THEN IF x = n THEN 1 ELSE 0 ELSE IF x = n THEN 2 ELSE 1
      BY <1>r, WtIs
    <3>3. \A n \in RbNodes :
               W[n] = IF S.red[n] THEN IF x = n THEN 1 ELSE 0 ELSE IF x = n THEN 2 ELSE 1
      BY <2>z, WtIs
    <3>4. \A c \in Sides, n \in RbNodes : L[c][n] = IF x = 0 /\ n = q /\ c = d THEN 1 ELSE 0
      BY LfIs
    <3>5. /\ L1 \in [Sides -> [RbNodes -> Nat]]
          /\ \A c \in Sides, n \in RbNodes : L1[c][n] = IF x = 0 /\ n = q1 /\ c = d1 THEN 1 ELSE 0
      BY LfIs
    <3> HIDE DEF W, W1, L, L1
    <3>6. \A n \in A : W1[Z(n)] = W[n]
      <4> SUFFICES ASSUME NEW n \in A PROVE W1[Z(n)] = W[n]  OBVIOUS
      <4> HIDE DEF Z
      <4>1. x = Z(n) <=> x = n  BY <2>x, <2>z, <2>1
      <4> QED  BY <4>1, <3>2, <3>3, <2>z, <1>r
    <3>7. \A n \in A, c \in Sides : L1[c][Z(n)] = L[c][n]
      <4> SUFFICES ASSUME NEW n \in A, NEW c \in Sides PROVE L1[c][Z(n)] = L[c][n]  OBVIOUS
      <4> HIDE DEF Z
      <4>1. x = 0 => (Z(n) = q1 <=> n = q) /\ d1 = d  BY <2>d, <2>z
      <4> QED  BY <4>1, <3>4, <3>5, <2>z
    <3>c. Carried(A, z, y, W, L, W1, L1)  BY <3>2, <3>5, <3>6, <3>7 DEF Carried
    <3>8. \E H1 : Even(Q, (A \ {z}) \cup {y}, W1, L1, H1)  BY <3>1, <3>c, <2>1, RenameEven
    <3> QED  BY <3>8 DEF Balanced, W1, L1
  <2>4. ASSUME NEW m \in A1, Bad(Q, m) PROVE m = x \/ (x # 0 /\ m # Q.root /\ Q.par[m] = x)
    <3>1. PICK n \in A : m = Z(n)  BY <2>z
    <3>2. Bad(S, n)  BY <3>1, <2>1, <2>4, <1>b
    <3> HIDE DEF Z
    <3>3. n = x \/ (x # 0 /\ n # S.root /\ S.par[n] = x)  BY <3>2, <2>1
    <3>4. n # S.root => m # Q.root  BY <3>1, <2>z, <1>r
    <3>5. S.par[n] = x => Q.par[m] = x  BY <3>1, <2>x, <1>r
    <3> QED  BY <3>1, <3>3, <3>4, <3>5, <2>x
  <2>5. x = 0 => q1 \in A1 /\ Q.ch[d1][q1] = 0  BY <2>d, <2>z
  <2> QED  BY <2>1, <2>2, <2>3, <2>4, <2>5, <2>a, <1>r DEF Repairing
<1> QED  BY <1>1, <1>2

\* T1 is S after y has taken over the right child of z, below which x is.
Lifted(T1, S, A, z, y, x) ==
  /\ z \in A /\ y \in RbKeys /\ y \notin A /\ z < y
  /\ \A m \in A : ~(z < m /\ m < y)
  /\ T1 \in Trees /\ T1.root = S.root
  /\ \A n \in RbNodes : n # y => (T1.red[n] <=> S.red[n])
  /\ \A c \in Sides : T1.ch[c][0] = 0
  /\ \A n \in A, c \in Sides : n # z => T1.ch[c][n] = S.ch[c][n]
  /\ T1.ch["r"][y] = S.ch["r"][z]
  /\ \A n \in A : n # S.ch["r"][z] => T1.par[n] = S.par[n]
  /\ S.ch["r"][z] # 0 => T1.par[S.ch["r"][z]] = y
  /\ x = 0 => T1.par[0] = As(z, y, S.par[0])

\* y takes the place of z, its left child l and its colour r, and z is freed.
Relieved(T1, z, y, l, r) ==
  Freed([Transplant(T1, z, y) EXCEPT !.ch["l"][y] = l, !.par[l] = y, !.red[y] = r], z)

\* Q is T2 with y above l and of colour r.
Topped(Q, T2, y, l, r) ==
  /\ Q \in Trees /\ Q.root = T2.root
  /\ \A n \in RbNodes : Q.red[n] <=> IF n = y THEN r ELSE T2.red[n]
  /\ \A n \in RbNodes : Q.par[n] = IF n = l THEN y ELSE T2.par[n]
  /\ \A c \in Sides, n \in RbNodes : Q.ch[c][n] = IF c = "l" /\ n = y THEN l ELSE T2.ch[c][n]

\* The last writes of rbtree_delete, pointer by pointer.
LEMMA ToppedIs ==
  ASSUME NEW T2 \in Trees, NEW y \in RbNodes, NEW l \in RbNodes, NEW r \in BOOLEAN
  PROVE  Topped([T2 EXCEPT !.ch["l"][y] = l, !.par[l] = y, !.red[y] = r], T2, y, l, r)
<1> DEFINE C1 == WithChild(T2, "l", y, l)
           C2 == WithParent(C1, l, y)
           f == [C2.red EXCEPT ![y] = r]
           Q == Painted(C2, f)
<1>0. "l" \in Sides  BY SideFacts
<1>1. ChildIs(C1, T2, "l", y, l)  BY <1>0, ChildSet
<1>2. C1 \in Trees  BY <1>1 DEF ChildIs
<1>3. ParentIs(C2, C1, l, y)
  <2> HIDE DEF C1
  <2> QED  BY <1>2, ParentSet
<1>4. C2 \in Trees  BY <1>3 DEF ParentIs
<1>5. [T2 EXCEPT !.ch["l"][y] = l, !.par[l] = y, !.red[y] = r] = Q
  <2>1. [T2 EXCEPT !.ch["l"][y] = l, !.par[l] = y, !.red[y] = r] = [C2 EXCEPT !.red[y] = r]
    BY DEF WithChild, WithParent
  <2> HIDE DEF C2
  <2>2. [C2 EXCEPT !.red[y] = r] = Q  BY <1>4 DEF Painted, Trees
  <2> QED  BY <2>1, <2>2
<1> HIDE DEF C1, C2
<1>6. f \in [RbNodes -> BOOLEAN] /\ \A n \in RbNodes : f[n] = IF n = y THEN r ELSE C2.red[n]
  BY <1>4 DEF Trees
<1> HIDE DEF f
<1>7. Q \in Trees /\ Q.red = f /\ Q.root = C2.root /\ Q.ch = C2.ch /\ Q.par = C2.par
  BY <1>4, <1>6, PaintIs
<1> HIDE DEF Q
<1>8. /\ C2.root = T2.root /\ C2.red = T2.red /\ C2.ch = C1.ch /\ C1.par = T2.par
      /\ \A n \in RbNodes : C2.par[n] = IF n = l THEN y ELSE C1.par[n]
      /\ \A c \in Sides, n \in RbNodes : C1.ch[c][n] = IF c = "l" /\ n = y THEN l ELSE T2.ch[c][n]
  BY <1>1, <1>3 DEF ChildIs, ParentIs
<1>9. Topped(Q, T2, y, l, r)
  <2>1. Q.root = T2.root /\ \A n \in RbNodes : Q.red[n] <=> IF n = y THEN r ELSE T2.red[n]
    BY <1>6, <1>7, <1>8
  <2>2. \A n \in RbNodes : Q.par[n] = IF n = l THEN y ELSE T2.par[n]  BY <1>7, <1>8
  <2>3. \A c \in Sides, n \in RbNodes : Q.ch[c][n] = IF c = "l" /\ n = y THEN l ELSE T2.ch[c][n]
    BY <1>7, <1>8
  <2> QED  BY <2>1, <2>2, <2>3, <1>7 DEF Topped
<1> QED  BY <1>5, <1>9

\* Putting the successor in the place of the key deleted is a renaming of the
\* tree from which the successor was taken out.
LEMMA LiftRenames ==
  ASSUME NEW S, NEW A, InOrder(S, A), NEW z, NEW y, NEW x, NEW T1, Lifted(T1, S, A, z, y, x),
         S.ch["l"][z] # 0, NEW r \in BOOLEAN, r <=> S.red[z],
         NEW Q, Q = Relieved(T1, z, y, S.ch["l"][z], r)
  PROVE  Renamed(S, A, z, y, Q) /\ (x = 0 => Q.par[0] = As(z, y, S.par[0]))
<1>l. PICK l : l = S.ch["l"][z]  OBVIOUS
<1>p. PICK p : p = S.par[z]  OBVIOUS
<1>a. /\ z \in A /\ y \in RbKeys /\ y \notin A /\ z < y
      /\ \A m \in A : ~(z < m /\ m < y)
      /\ T1 \in Trees /\ T1.root = S.root
      /\ \A n \in RbNodes : n # y => (T1.red[n] <=> S.red[n])
      /\ \A c \in Sides : T1.ch[c][0] = 0
      /\ \A n \in A, c \in Sides : n # z => T1.ch[c][n] = S.ch[c][n]
      /\ T1.ch["r"][y] = S.ch["r"][z]
      /\ \A n \in A : n # S.ch["r"][z] => T1.par[n] = S.par[n]
      /\ S.ch["r"][z] # 0 => T1.par[S.ch["r"][z]] = y
      /\ x = 0 => T1.par[0] = As(z, y, S.par[0])
  BY DEF Lifted
<1>s. "l" \in Sides /\ "r" \in Sides /\ (\A c \in Sides : c = "l" \/ c = "r") /\ "l" # "r"
  BY DEF Sides
<1>0. /\ 0 \in RbNodes /\ 0 \notin A /\ y \in RbNodes /\ y # 0 /\ z # 0 /\ z \in RbNodes /\ y # z
      /\ \A n \in A : n # 0 /\ n \in RbNodes /\ n # y
  BY <1>a, Neighbours, NodeFacts
<1>n. /\ l \in A /\ l # z /\ l # 0 /\ S.par[l] = z /\ l # S.root /\ l # y
      /\ S.ch["r"][z] # z /\ S.ch["r"][z] # l /\ S.ch["r"][z] \in A \cup {0}
      /\ S.ch["r"][z] # 0 => S.par[S.ch["r"][z]] = z
  BY <1>a, <1>s, <1>l, <1>0, Neighbours, SideFacts
<1>h. /\ p = 0 <=> z = S.root
      /\ p # 0 => p \in A /\ p # z
      /\ \A n \in A, c \in Sides : S.ch[c][n] = z <=> (p # 0 /\ n = p /\ c = SideOf(S, z))
  BY <1>a, <1>p, <1>0, HangsAt, Neighbours
<1>t. T1.par[z] = p  BY <1>a, <1>n, <1>p
<1>d. p # 0 => SideOf(T1, z) = SideOf(S, z)  BY <1>a, <1>h, <1>s, <1>t, <1>p DEF SideOf
<1> DEFINE T2 == Transplant(T1, z, y)
           Q1 == [T2 EXCEPT !.ch["l"][y] = l, !.par[l] = y, !.red[y] = r]
<1>1. MovedTo(T2, T1, z, y)  BY <1>0, <1>a, TransplantIs
<1>2. Q = Freed(Q1, z)  BY <1>l DEF Relieved
<1> HIDE DEF T2
<1>3. /\ T2 \in Trees /\ T2.root = IF p = 0 THEN y ELSE S.root
      /\ \A n \in RbNodes : n # y => (T2.red[n] <=> S.red[n])
      /\ \A n \in RbNodes : T2.par[n] = IF n = y THEN p ELSE T1.par[n]
      /\ \A c \in Sides, n \in RbNodes :
           T2.ch[c][n] = IF p # 0 /\ n = p /\ c = SideOf(T1, z) THEN y ELSE T1.ch[c][n]
  BY <1>1, <1>t, <1>a DEF MovedTo
<1>4. Topped(Q1, T2, y, l, r)
  <2>1. l \in RbNodes /\ y \in RbNodes /\ T2 \in Trees  BY <1>0, <1>n, <1>3
  <2> QED  BY <2>1, ToppedIs
<1> HIDE DEF Q1
<1>5. /\ Q1 \in Trees /\ Q1.root = T2.root
      /\ \A n \in RbNodes : Q1.red[n] <=> IF n = y THEN r ELSE T2.red[n]
      /\ \A n \in RbNodes : Q1.par[n] = IF n = l THEN y ELSE T2.par[n]
      /\ \A c \in Sides, n \in RbNodes : Q1.ch[c][n] = IF c = "l" /\ n = y THEN l ELSE T2.ch[c][n]
  BY <1>4 DEF Topped
<1>6. KeptBut(Q, Q1, z)  BY <1>2, <1>5, <1>0, FreedIs
<1>7. /\ Q \in Trees /\ Q.root = Q1.root
      /\ \A n \in RbNodes : n # z => /\ Q.par[n] = Q1.par[n] /\ (Q.red[n] <=> Q1.red[n])
                                     /\ \A c \in Sides : Q.ch[c][n] = Q1.ch[c][n]
  BY <1>6 DEF KeptBut
<1>8. Q.root = As(z, y, S.root)  BY <1>3, <1>5, <1>7, <1>h DEF As
<1>9. \A c \in Sides : Q.ch[c][0] = 0  BY <1>0, <1>3, <1>5, <1>7, <1>a
<1>10. ASSUME NEW n \in A PROVE Q.par[As(z, y, n)] = As(z, y, S.par[n])
  <2>1. CASE n = z
    <3>1. As(z, y, n) = y /\ As(z, y, S.par[n]) = p  BY <2>1, <1>h, <1>p, <1>0 DEF As
    <3>2. Q.par[y] = p  BY <1>7, <1>5, <1>3, <1>0, <1>n
    <3> QED  BY <3>1, <3>2
  <2>2. CASE n # z
    <3>1. As(z, y, n) = n  BY <2>2 DEF As
    <3>2. Q.par[n] = IF n = l THEN y ELSE T1.par[n]  BY <2>2, <1>7, <1>5, <1>3, <1>0
    <3>3. CASE n = l  BY <3>1, <3>2, <3>3, <1>n DEF As
    <3>4. CASE n = S.ch["r"][z]
      <4>1. n # l /\ T1.par[n] = y /\ S.par[n] = z  BY <3>4, <1>n, <1>0, <1>a
      <4> QED  BY <3>1, <3>2, <4>1 DEF As
    <3>5. CASE n # l /\ n # S.ch["r"][z]
      <4>1. S.par[n] # z
        <5>1. CASE n = S.root
          <6>1. S.par[n] = 0  BY <5>1, <1>0, Neighbours
          <6> QED  BY <6>1, <1>0
        <5>2. CASE n # S.root
          <6>1. \E c \in Sides : S.ch[c][S.par[n]] = n  BY <5>2, Neighbours
          <6> QED  BY <6>1, <3>5, <1>l, <1>s
        <5> QED  BY <5>1, <5>2
      <4>2. T1.par[n] = S.par[n]  BY <3>5, <1>a
      <4> QED  BY <3>1, <3>2, <3>5, <4>1, <4>2 DEF As
    <3> QED  BY <3>3, <3>4, <3>5
  <2> QED  BY <2>1, <2>2
<1>11. ASSUME NEW n \in A PROVE Q.red[As(z, y, n)] <=> S.red[n]
  <2>1. CASE n = z
    <3>1. As(z, y, n) = y  BY <2>1 DEF As
    <3>2. Q.red[y] <=> r  BY <1>7, <1>5, <1>0
    <3> QED  BY <2>1, <3>1, <3>2
  <2>2. CASE n # z
    <3>1. As(z, y, n) = n  BY <2>2 DEF As
    <3>2. Q.red[n] <=> S.red[n]  BY <2>2, <1>7, <1>5, <1>3, <1>0
    <3> QED  BY <3>1, <3>2
  <2> QED  BY <2>1, <2>2
<1>12. ASSUME NEW n \in A, NEW c \in Sides PROVE Q.ch[c][As(z, y, n)] = As(z, y, S.ch[c][n])
  <2>1. CASE n = z
    <3>1. As(z, y, n) = y  BY <2>1 DEF As
    <3>2. Q.ch[c][y] = IF c = "l" THEN l ELSE T2.ch[c][y]  BY <1>7, <1>5, <1>0
    <3>3. T2.ch[c][y] = T1.ch[c][y]  BY <1>3, <1>0, <1>h
    <3>4. Q.ch[c][y] = S.ch[c][z]  BY <3>2, <3>3, <1>s, <1>a, <1>l
    <3>5. S.ch[c][z] # z  BY <1>a, Neighbours
    <3> QED  BY <2>1, <3>1, <3>4, <3>5 DEF As
  <2>2. CASE n # z
    <3>1. As(z, y, n) = n  BY <2>2 DEF As
    <3>2. Q.ch[c][n] = IF p # 0 /\ n = p /\ c = SideOf(T1, z) THEN y ELSE S.ch[c][n]
      BY <2>2, <1>7, <1>5, <1>3, <1>0, <1>a
    <3>3. S.ch[c][n] = z <=> (p # 0 /\ n = p /\ c = SideOf(T1, z))  BY <1>h, <1>d
    <3> QED  BY <3>1, <3>2, <3>3 DEF As
  <2> QED  BY <2>1, <2>2
<1>13. Q.red[0] <=> S.red[0]  BY <1>7, <1>5, <1>3, <1>0
<1>14. x = 0 => Q.par[0] = As(z, y, S.par[0])  BY <1>7, <1>5, <1>3, <1>0, <1>n, <1>a
<1>15. Renamed(S, A, z, y, Q)
  BY <1>a, <1>7, <1>8, <1>9, <1>10, <1>11, <1>12, <1>13 DEF Renamed
<1> QED  BY <1>14, <1>15

\* y is the next key after z, which has two children; S is T without y.
Successor(T, B, z, y, x, S) ==
  /\ z \in B /\ y \in B /\ z < y /\ z # y /\ x # z
  /\ \A m \in B : ~(z < m /\ m < y)
  /\ y # T.root /\ T.ch["l"][z] # 0 /\ T.ch["l"][z] # y /\ T.ch["r"][z] # 0
  /\ T.ch["l"][y] = 0 /\ T.ch["r"][y] = x
  /\ Spliced(T, B, y, x, S)

\* rbtree_mini of the right side finds the next key, which has no left child.
LEMMA SuccessorIs ==
  ASSUME NEW T, NEW B, InOrder(T, B), NEW z \in B, T.ch["l"][z] # 0, T.ch["r"][z] # 0,
         NEW y, y = Mini(T, T.ch["r"][z]), NEW x, x = T.ch["r"][y]
  PROVE  Successor(T, B, z, y, x, Transplant(T, y, x))
<1>s. "l" \in Sides /\ "r" \in Sides /\ Other("r") = "l"  BY SideFacts
<1>1. PICK lo, hi : Placed(T, B, lo, hi)  BY DEF InOrder
<1>p. /\ \A n \in B : lo[n] < n /\ n < hi[n]
      /\ T.root # 0 => lo[T.root] = 0 /\ hi[T.root] = TreeSize + 1
      /\ \A n \in B :
           /\ T.ch["l"][n] # 0 => lo[T.ch["l"][n]] = lo[n] /\ hi[T.ch["l"][n]] = n
           /\ T.ch["r"][n] # 0 => lo[T.ch["r"][n]] = n /\ hi[T.ch["r"][n]] = hi[n]
           /\ T.ch["l"][n] = 0 => \A m \in B : ~(lo[n] < m /\ m < n)
  BY <1>1 DEF Placed
<1>0. /\ \A n \in B : n # 0 /\ n \in Nat
      /\ \A n \in B, c \in Sides : T.ch[c][n] \in B \cup {0}
  <2>1. \A n \in B : n # 0 /\ n \in RbNodes  BY Neighbours
  <2>2. \A n \in B, c \in Sides : T.ch[c][n] \in B \cup {0}  BY Neighbours
  <2> QED  BY <2>1, <2>2, NodeFacts
<1>2. PICK r : r = T.ch["r"][z]  OBVIOUS
<1>3. r \in B /\ lo[r] = z  BY <1>0, <1>2, <1>p, <1>s
<1>4. y \in B /\ T.ch["l"][y] = 0 /\ lo[y] = lo[r] /\ hi[y] <= hi[r]
  <2>1. y = Mini(T, r)  BY <1>2
  <2> QED  BY <2>1, <1>1, <1>3, MiniIs
<1>5. lo[y] = z /\ z < y  BY <1>3, <1>4, <1>p
<1>6. z # y  BY <1>5, <1>0
<1>7. \A m \in B : ~(z < m /\ m < y)  BY <1>4, <1>5, <1>p
<1>8. y # T.root  BY <1>5, <1>4, <1>p, <1>0
<1>9. T.ch["l"][z] # y
  <2>1. T.ch["l"][z] \in B /\ hi[T.ch["l"][z]] = z  BY <1>0, <1>s, <1>p
  <2>2. T.ch["l"][z] < z  BY <2>1, <1>p
  <2> QED  BY <2>1, <2>2, <1>5, <1>0
<1>10. x # z
  <2> SUFFICES ASSUME x = z PROVE FALSE  OBVIOUS
  <2>0. T.ch["r"][y] = z /\ z # 0  BY <1>0
  <2>1. lo[z] = y  BY <2>0, <1>4, <1>p
  <2>2. lo[z] < z  BY <1>p
  <2> QED  BY <2>1, <2>2, <1>5, <1>0, <1>4
<1>11. \E c \in Sides : T.ch[c][y] = x /\ T.ch[Other(c)][y] = 0  BY <1>4, <1>s
<1>12. Spliced(T, B, y, x, Transplant(T, y, x))  BY <1>4, <1>11, SpliceIs
<1> QED  BY <1>4, <1>5, <1>6, <1>7, <1>8, <1>9, <1>10, <1>12 DEF Successor

\* The successor is the child of the key deleted: it keeps its right side.
LEMMA LiftBelow ==
  ASSUME NEW T, NEW B, InOrder(T, B), NEW z, NEW y, NEW x, NEW S, Successor(T, B, z, y, x, S),
         T.par[y] = z
  PROVE  Lifted(WithParent(T, x, y), S, B \ {y}, z, y, x)
<1> DEFINE T1 == WithParent(T, x, y)
           A == B \ {y}
<1>s. "l" \in Sides /\ "r" \in Sides /\ (\A c \in Sides : c = "l" \/ c = "r") /\ "l" # "r"
  BY DEF Sides
<1>a. /\ z \in B /\ y \in B /\ z < y /\ z # y /\ x # z
      /\ \A m \in B : ~(z < m /\ m < y)
      /\ y # T.root /\ T.ch["l"][z] # 0 /\ T.ch["l"][z] # y /\ T.ch["r"][z] # 0
      /\ T.ch["l"][y] = 0 /\ T.ch["r"][y] = x
  BY DEF Successor
<1>b. /\ S \in Trees /\ S.root = T.root
      /\ \A c \in Sides : S.ch[c][0] = 0
      /\ \A n \in A :
           /\ S.par[n] = IF n = x THEN T.par[y] ELSE T.par[n]
           /\ \A c \in Sides : S.ch[c][n] = IF T.ch[c][n] = y THEN x ELSE T.ch[c][n]
      /\ \A n \in RbNodes : n # y => (S.red[n] <=> T.red[n])
      /\ x = 0 => S.par[0] = T.par[y]
  <2>1. Spliced(T, B, y, x, S)  BY DEF Successor
  <2> QED  BY <2>1, <1>a DEF Spliced
<1>0. /\ T \in Trees /\ 0 \in RbNodes /\ 0 \notin B /\ y \in RbKeys
      /\ \A n \in B : n # 0 /\ n \in RbNodes
      /\ \A n \in B, c \in Sides : T.ch[c][n] \in B \cup {0}
      /\ \A c \in Sides : T.ch[c][0] = 0
  BY <1>a, Neighbours DEF InOrder, Joined
<1>x. x \in RbNodes /\ x # y /\ x \in A \cup {0}  BY <1>0, <1>a, <1>s, Neighbours
<1>1. ParentIs(T1, T, x, y)  BY <1>0, <1>x, <1>a, ParentSet
<1> HIDE DEF T1
<1>2. /\ T1 \in Trees /\ T1.root = T.root /\ T1.ch = T.ch /\ T1.red = T.red
      /\ \A n \in RbNodes : T1.par[n] = IF n = x THEN y ELSE T.par[n]
  BY <1>1 DEF ParentIs
<1>3. T.ch["r"][z] = y
  <2>1. \E c \in Sides : T.ch[c][z] = y  BY <1>a, Neighbours
  <2> QED  BY <2>1, <1>a, <1>s
<1>4. S.ch["r"][z] = x  BY <1>3, <1>a, <1>b, <1>s
<1>5. \A n \in A, c \in Sides : n # z => T1.ch[c][n] = S.ch[c][n]
  <2>1. \A n \in A, c \in Sides : n # z => T.ch[c][n] # y  BY <1>a, <1>0, Neighbours
  <2> QED  BY <2>1, <1>b, <1>2
<1>6. T1.ch["r"][y] = S.ch["r"][z]  BY <1>2, <1>4, <1>a
<1>7. \A n \in A : n # S.ch["r"][z] => T1.par[n] = S.par[n]  BY <1>2, <1>4, <1>b, <1>0
<1>8. T1.par[S.ch["r"][z]] = y  BY <1>2, <1>4, <1>x
<1>9. x = 0 => T1.par[0] = As(z, y, S.par[0])  BY <1>2, <1>b, <1>0 DEF As
<1>10. \A n \in RbNodes : n # y => (T1.red[n] <=> S.red[n])  BY <1>2, <1>b
<1>11. \A c \in Sides : T1.ch[c][0] = 0  BY <1>0, <1>2
<1>12. z \in A /\ y \notin A /\ \A m \in A : ~(z < m /\ m < y)  BY <1>a
<1>13. Lifted(T1, S, A, z, y, x)
  BY <1>a, <1>0, <1>b, <1>2, <1>5, <1>6, <1>7, <1>8, <1>9, <1>10, <1>11, <1>12 DEF Lifted
<1> QED  BY <1>13 DEF T1

\* The successor is further down: it is taken out and given the right side.
LEMMA LiftFar ==
  ASSUME NEW T, NEW B, InOrder(T, B), NEW z, NEW y, NEW x, NEW S, Successor(T, B, z, y, x, S),
         T.par[y] # z, NEW r, r = T.ch["r"][z]
  PROVE  Lifted(WithParent(WithChild(S, "r", y, r), r, y), S, B \ {y}, z, y, x)
<1> DEFINE C == WithChild(S, "r", y, r)
           T1 == WithParent(C, r, y)
           A == B \ {y}
<1>s. "l" \in Sides /\ "r" \in Sides /\ "l" # "r"  BY SideFacts
<1>a. /\ z \in B /\ y \in B /\ z < y /\ z # y /\ x # z
      /\ \A m \in B : ~(z < m /\ m < y)
      /\ y # T.root /\ T.ch["r"][z] # 0
  BY DEF Successor
<1>b. /\ S \in Trees /\ S.root = T.root
      /\ \A c \in Sides : S.ch[c][0] = 0
      /\ \A n \in A :
           /\ S.par[n] = IF n = x THEN T.par[y] ELSE T.par[n]
           /\ \A c \in Sides : S.ch[c][n] = IF T.ch[c][n] = y THEN x ELSE T.ch[c][n]
      /\ x = 0 => S.par[0] = T.par[y]
  <2>1. Spliced(T, B, y, x, S)  BY DEF Successor
  <2> QED  BY <2>1, <1>a DEF Spliced
<1>0. /\ T \in Trees /\ 0 \in RbNodes /\ 0 \notin B /\ y \in RbKeys
      /\ \A n \in B : n # 0 /\ n \in RbNodes
  BY <1>a, Neighbours
<1>r. r \in B /\ r \in RbNodes /\ r # 0 /\ r # y  BY <1>a, <1>s, <1>0, Neighbours
<1>1. ChildIs(C, S, "r", y, r)
  <2>1. S \in Trees /\ "r" \in Sides /\ y \in RbNodes /\ r \in RbNodes  BY <1>a, <1>b, <1>s, <1>0, <1>r
  <2> QED  BY <2>1, ChildSet
<1>2. /\ C \in Trees /\ C.root = S.root /\ C.par = S.par /\ C.red = S.red
      /\ \A a \in Sides, n \in RbNodes : C.ch[a][n] = IF a = "r" /\ n = y THEN r ELSE S.ch[a][n]
  BY <1>1 DEF ChildIs
<1>3. ParentIs(T1, C, r, y)
  <2> HIDE DEF C
  <2>1. C \in Trees /\ r \in RbNodes /\ y \in RbNodes  BY <1>2, <1>r, <1>0, <1>a
  <2> QED  BY <2>1, ParentSet
<1> HIDE DEF C, T1
<1>4. /\ T1 \in Trees /\ T1.root = C.root /\ T1.ch = C.ch /\ T1.red = C.red
      /\ \A n \in RbNodes : T1.par[n] = IF n = r THEN y ELSE C.par[n]
  BY <1>3 DEF ParentIs
<1>5. S.ch["r"][z] = r  BY <1>a, <1>b, <1>r, <1>s
<1>6. \A n \in A, c \in Sides : n # z => T1.ch[c][n] = S.ch[c][n]  BY <1>2, <1>4, <1>0
<1>7. T1.ch["r"][y] = S.ch["r"][z]  BY <1>2, <1>4, <1>5, <1>a, <1>0, <1>s
<1>8. \A n \in A : n # S.ch["r"][z] => T1.par[n] = S.par[n]  BY <1>2, <1>4, <1>5, <1>0
<1>9. T1.par[S.ch["r"][z]] = y  BY <1>4, <1>5, <1>r
<1>10. x = 0 => T1.par[0] = As(z, y, S.par[0])  BY <1>2, <1>4, <1>b, <1>r, <1>0 DEF As
<1>11. \A n \in RbNodes : n # y => (T1.red[n] <=> S.red[n])  BY <1>2, <1>4
<1>12. \A c \in Sides : T1.ch[c][0] = 0  BY <1>0, <1>2, <1>4, <1>b, <1>a
<1>13. z \in A /\ y \notin A /\ \A m \in A : ~(z < m /\ m < y)  BY <1>a
<1>14. Lifted(T1, S, A, z, y, x)
  BY <1>a, <1>0, <1>b, <1>2, <1>4, <1>6, <1>7, <1>8, <1>9, <1>10, <1>11, <1>12, <1>13 DEF Lifted
<1> QED  BY <1>14 DEF T1, C

\* s is what rbtree_delete leaves for its fix-up.
Removed(s, B, z) ==
  /\ s.black => Repairing(Freed(s.T, z), B \ {z}, s.x)
  /\ ~s.black => Sound(Freed(s.T, z), B \ {z})

\* rbtree_delete up to the fix-up: the key is gone, the others are in order,
\* and a black is lacking where a black node was taken out.
LEMMA UnlinkKeeps ==
  ASSUME NEW T, NEW B, Sound(T, B), NEW z \in B
  PROVE  Removed(RbUnlinked(T, z), B, z)
<1> DEFINE l == T.ch["l"][z]
           r == T.ch["r"][z]
           y == Mini(T, r)
           x == T.ch["r"][y]
           S == Transplant(T, y, x)
           T1 == IF T.par[y] = z THEN WithParent(T, x, y) ELSE WithParent(WithChild(S, "r", y, r), r, y)
           T2 == Transplant(T1, z, y)
           T3 == [T2 EXCEPT !.ch["l"][y] = l, !.par[l] = y, !.red[y] = T.red[z]]
           s == RbUnlinked(T, z)
<1>1. s = IF l = 0 THEN [T |-> Transplant(T, z, r), x |-> r, black |-> ~T.red[z]]
          ELSE IF r = 0 THEN [T |-> Transplant(T, z, l), x |-> l, black |-> ~T.red[z]]
          ELSE [T |-> T3, x |-> x, black |-> ~T.red[y]]
  BY DEF RbUnlinked, WithParent, WithChild, Nil
<1>2. InOrder(T, B)  BY DEF Sound
<1>s. "l" \in Sides /\ "r" \in Sides /\ Other("l") = "r" /\ Other("r") = "l"  BY SideFacts
<1> HIDE DEF s, T3
<1>3. CASE l = 0
  <2> DEFINE F == Freed(Transplant(T, z, r), z)
  <2>1. s.T = Transplant(T, z, r) /\ s.x = r /\ (s.black <=> ~T.red[z])  BY <1>1, <1>3
  <2>2. \E c \in Sides : T.ch[c][z] = r /\ T.ch[Other(c)][z] = 0  BY <1>3, <1>s
  <2>3. Spliced(T, B, z, r, F)  BY <1>2, <2>2, SpliceIs
  <2> HIDE DEF F
  <2>4. (T.red[z] => Sound(F, B \ {z})) /\ (~T.red[z] => Repairing(F, B \ {z}, r))
    BY <2>3, SpliceKeeps
  <2>5. Removed(s, B, z)  BY <2>1, <2>4 DEF Removed, F
  <2> QED  BY <2>5 DEF s
<1>4. CASE l # 0 /\ r = 0
  <2> DEFINE F == Freed(Transplant(T, z, l), z)
  <2>1. s.T = Transplant(T, z, l) /\ s.x = l /\ (s.black <=> ~T.red[z])  BY <1>1, <1>4
  <2>2. \E c \in Sides : T.ch[c][z] = l /\ T.ch[Other(c)][z] = 0  BY <1>4, <1>s
  <2>3. Spliced(T, B, z, l, F)  BY <1>2, <2>2, SpliceIs
  <2> HIDE DEF F
  <2>4. (T.red[z] => Sound(F, B \ {z})) /\ (~T.red[z] => Repairing(F, B \ {z}, l))
    BY <2>3, SpliceKeeps
  <2>5. Removed(s, B, z)  BY <2>1, <2>4 DEF Removed, F
  <2> QED  BY <2>5 DEF s
<1>5. CASE l # 0 /\ r # 0
  <2>1. s.T = T3 /\ s.x = x /\ (s.black <=> ~T.red[y])  BY <1>1, <1>5
  <2>2. Successor(T, B, z, y, x, S)
    <3> HIDE DEF S
    <3>1. Successor(T, B, z, y, x, Transplant(T, y, x))
      <4> HIDE DEF y, x
      <4> QED  BY <1>2, <1>5, SuccessorIs DEF y, x
    <3> QED  BY <3>1 DEF S
  <2> HIDE DEF y, x, S
  <2>3. Lifted(T1, S, B \ {y}, z, y, x)
    <3>1. CASE T.par[y] = z
      <4>1. Lifted(WithParent(T, x, y), S, B \ {y}, z, y, x)  BY <1>2, <2>2, <3>1, LiftBelow
      <4> QED  BY <3>1, <4>1
    <3>2. CASE T.par[y] # z
      <4>1. Lifted(WithParent(WithChild(S, "r", y, r), r, y), S, B \ {y}, z, y, x)
        BY <1>2, <2>2, <3>2, LiftFar
      <4> QED  BY <3>2, <4>1
    <3> QED  BY <3>1, <3>2
  <2> DEFINE Q == Freed(T3, z)
             A == B \ {y}
  <2>4. /\ Spliced(T, B, y, x, S) /\ x # z /\ z # y /\ z \in B /\ y \in B /\ l # y
    BY <2>2 DEF Successor
  <2>5. InOrder(S, A)  BY <1>2, <2>4, SpliceOrder
  <2>6. S.ch["l"][z] = l /\ (S.red[z] <=> T.red[z]) /\ T.red[z] \in BOOLEAN
    <3>1. z \in RbNodes /\ T \in Trees  BY <1>2, Neighbours
    <3>2. T.red[z] \in BOOLEAN  BY <3>1 DEF Trees
    <3> QED  BY <3>1, <3>2, <2>4, <1>s DEF Spliced
  <2>7. Q = Relieved(T1, z, y, l, T.red[z])  BY DEF Relieved, T3
  <2> HIDE DEF T1, Q
  <2>8. Renamed(S, A, z, y, Q) /\ (x = 0 => Q.par[0] = As(z, y, S.par[0]))
    <3>1. Q = Relieved(T1, z, y, S.ch["l"][z], T.red[z]) /\ S.ch["l"][z] # 0  BY <2>6, <2>7, <1>5
    <3> HIDE DEF A, l
    <3> QED  BY <2>5, <2>3, <2>6, <3>1, LiftRenames DEF A
  <2>9. (A \ {z}) \cup {y} = B \ {z}  BY <2>4
  <2>10. (T.red[y] => Sound(S, A)) /\ (~T.red[y] => Repairing(S, A, x))  BY <2>4, SpliceKeeps
  <2> HIDE DEF A
  <2>11. /\ Sound(S, A) => Sound(Q, (A \ {z}) \cup {y})
         /\ Repairing(S, A, x) => Repairing(Q, (A \ {z}) \cup {y}, x)
    BY <2>4, <2>8, RenameKeeps
  <2>12. (T.red[y] => Sound(Q, B \ {z})) /\ (~T.red[y] => Repairing(Q, B \ {z}, x))
    BY <2>9, <2>10, <2>11
  <2>13. Removed(s, B, z)  BY <2>1, <2>12 DEF Removed, Q
  <2> QED  BY <2>13 DEF s
<1> QED  BY <1>3, <1>4, <1>5

\* rbtree_search finds the nodes of the tree and no others.
LEMMA FoundIs ==
  ASSUME NEW T, NEW B, InOrder(T, B), NEW k \in RbKeys
  PROVE  RbFound(T, k) <=> k \in B
<1>1. PICK lo, hi : Placed(T, B, lo, hi)  BY DEF InOrder
<1>2. PICK node, above : node = Search(T, k).node /\ above = Search(T, k).above  OBVIOUS
<1>3. (k \in B => node = k) /\ (k \notin B => node = 0)  BY <1>1, <1>2, SearchIs
<1>4. k # 0  BY NodeFacts
<1> QED  BY <1>2, <1>3, <1>4 DEF RbFound

-----------------------------------------------------------------------------

\* The inductive invariant: a tree in order in every state, sound when no
\* fix-up runs, and otherwise wrong at the cursor only.
RbInv ==
  /\ rbpc \in {"idle", "inserting", "deleting", "relink"}
  /\ rbpc = "idle" => Sound(tree, stored) /\ again = 0
  /\ rbpc = "inserting" => Inserting(tree, stored, cursor) /\ again = 0
  /\ rbpc = "deleting" => Repairing(tree, stored, cursor) /\ again \in (RbKeys \ stored) \cup {0}
  /\ rbpc = "relink" => Sound(tree, stored) /\ again \in RbKeys \ stored

\* The empty tree.
LEMMA EmptySound ==
  ASSUME NEW T \in Trees, T.root = 0, \A d \in Sides : T.ch[d][0] = 0, ~T.red[0]
  PROVE  Sound(T, {})
<1> DEFINE z == [n \in RbNodes |-> 0]
<1>1. Joined(T, {})  BY DEF Joined
<1>2. z \in [RbNodes -> Bounds]  BY TreeAssumption DEF Bounds
<1>3. z \in [RbNodes -> Nat]  OBVIOUS
<1> HIDE DEF z
<1>4. Placed(T, {}, z, z)  BY <1>2 DEF Placed
<1>5. InOrder(T, {})  BY <1>1, <1>4 DEF InOrder
<1>6. Wt(T, NoNode) \in [RbNodes -> Nat] /\ Lf(NoNode, 0, "l") \in [Sides -> [RbNodes -> Nat]]
  BY Plain
<1>7. Even(T, {}, Wt(T, NoNode), Lf(NoNode, 0, "l"), z)  BY <1>3, <1>6 DEF Even
<1>8. Balanced(T, {}, NoNode, 0, "l")  BY <1>7 DEF Balanced
<1> QED  BY <1>5, <1>8 DEF Sound, Clean

\* kvs_rbtree_create makes an empty tree.
LEMMA RbInitInv == RbInit => RbInv
<1> SUFFICES ASSUME RbInit PROVE RbInv  OBVIOUS
<1>1. /\ tree = [root |-> 0, ch |-> [d \in Sides |-> [n \in RbNodes |-> 0]],
                 par |-> [n \in RbNodes |-> 0], red |-> [n \in RbNodes |-> FALSE]]
      /\ rbpc = "idle" /\ again = 0 /\ stored = {}
  BY DEF RbInit, Nil
<1>2. 0 \in RbNodes  BY NodeFacts
<1>3. tree \in Trees  BY <1>1, <1>2 DEF Trees
<1>4. tree.root = 0 /\ (\A d \in Sides : tree.ch[d][0] = 0) /\ ~tree.red[0]  BY <1>1, <1>2
<1>5. Sound(tree, {})  BY <1>3, <1>4, EmptySound
<1> QED  BY <1>1, <1>5 DEF RbInv

\* A node is deleted: it was there, and what is left is sound or one black short.
LEMMA DeleteInv ==
  ASSUME RbInv, NEW k \in RbKeys, NEW next \in {0, k}, Delete(k, next)
  PROVE  RbInv'
<1>1. Sound(tree, stored)  BY DEF Delete, RbInv
<1>2. InOrder(tree, stored)  BY <1>1 DEF Sound
<1>3. k \in stored  BY <1>2, FoundIs DEF Delete
<1> DEFINE s == RbUnlinked(tree, k)
<1>4. Removed(s, stored, k)  BY <1>1, <1>3, UnlinkKeeps
<1>5. /\ tree' = Freed(s.T, k)
      /\ cursor' = IF s.black THEN s.x ELSE 0
      /\ rbpc' = IF s.black THEN "deleting" ELSE IF next = 0 THEN "idle" ELSE "relink"
      /\ again' = next
      /\ stored' = stored \ {k}
  BY DEF Delete, Nil
<1> HIDE DEF s
<1>6. k \in RbKeys \ stored' /\ (next # 0 => next = k)  BY <1>5
<1>7. CASE s.black
  <2>1. Repairing(tree', stored', cursor')  BY <1>4, <1>5, <1>7 DEF Removed
  <2> QED  BY <2>1, <1>5, <1>6, <1>7 DEF RbInv
<1>8. CASE ~s.black
  <2>1. Sound(tree', stored')  BY <1>4, <1>5, <1>8 DEF Removed
  <2> QED  BY <2>1, <1>5, <1>6, <1>8 DEF RbInv
<1> QED  BY <1>7, <1>8

\* Every operation and every iteration of the fix-ups keeps the invariant.
LEMMA RbStep == RbInv /\ [RbNext]_rbVars => RbInv'
<1> SUFFICES ASSUME RbInv, [RbNext]_rbVars PROVE RbInv'  OBVIOUS
<1>1. ASSUME NEW k \in RbKeys, SetNew(k) PROVE RbInv'
  <2>1. Sound(tree, stored) /\ again = 0  BY <1>1 DEF SetNew, RbInv
  <2>2. k \notin stored
    <3>1. InOrder(tree, stored)  BY <2>1 DEF Sound
    <3> QED  BY <3>1, <1>1, FoundIs DEF SetNew
  <2>3. Inserting(RbLinked(tree, k), stored \cup {k}, k)  BY <2>1, <2>2, LinkKeeps
  <2>4. /\ tree' = RbLinked(tree, k) /\ cursor' = k /\ rbpc' = "inserting"
        /\ stored' = stored \cup {k} /\ again' = again
    BY <1>1 DEF SetNew
  <2> QED  BY <2>1, <2>3, <2>4 DEF RbInv
<1>2. ASSUME NEW k \in RbKeys, SetLonger(k) PROVE RbInv'
  <2>1. Delete(k, k)  BY <1>2 DEF SetLonger
  <2> QED  BY <2>1, DeleteInv
<1>3. ASSUME NEW k \in RbKeys, RbDel(k) PROVE RbInv'
  <2>1. Delete(k, 0)  BY <1>3 DEF RbDel, Nil
  <2> QED  BY <2>1, DeleteInv
<1>4. CASE InsertStep
  <2>1. Inserting(tree, stored, cursor) /\ tree.red[tree.par[cursor]]  BY <1>4 DEF InsertStep, RbInv
  <2>2. Inserting(InsertFixup(tree, cursor).T, stored, InsertFixup(tree, cursor).z)
    BY <2>1, InsertFixupKeeps
  <2>3. /\ tree' = InsertFixup(tree, cursor).T /\ cursor' = InsertFixup(tree, cursor).z
        /\ rbpc' = rbpc /\ again' = again /\ stored' = stored /\ rbpc = "inserting"
    BY <1>4 DEF InsertStep
  <2>4. Inserting(tree', stored', cursor')  BY <2>2, <2>3
  <2> QED  BY <2>3, <2>4 DEF RbInv
<1>5. CASE InsertDone
  <2>1. Inserting(tree, stored, cursor) /\ ~tree.red[tree.par[cursor]]  BY <1>5 DEF InsertDone, RbInv
  <2>2. Sound([tree EXCEPT !.red[tree.root] = FALSE], stored)  BY <2>1, InsertEnds
  <2>3. /\ tree' = [tree EXCEPT !.red[tree.root] = FALSE] /\ rbpc' = "idle" /\ rbpc = "inserting"
        /\ again' = again /\ stored' = stored
    BY <1>5 DEF InsertDone
  <2>4. Sound(tree', stored')  BY <2>2, <2>3
  <2> QED  BY <2>3, <2>4 DEF RbInv
<1>6. CASE DeleteStep
  <2>1. Repairing(tree, stored, cursor) /\ cursor # tree.root /\ ~tree.red[cursor]
    BY <1>6 DEF DeleteStep, RbInv
  <2>2. Repairing(DeleteFixup(tree, cursor).T, stored, DeleteFixup(tree, cursor).x)
    BY <2>1, DeleteFixupKeeps
  <2>3. /\ tree' = DeleteFixup(tree, cursor).T /\ cursor' = DeleteFixup(tree, cursor).x
        /\ rbpc' = rbpc /\ again' = again /\ stored' = stored /\ rbpc = "deleting"
    BY <1>6 DEF DeleteStep
  <2>4. Repairing(tree', stored', cursor')  BY <2>2, <2>3
  <2> QED  BY <2>3, <2>4 DEF RbInv
<1>7. CASE DeleteDone
  <2>1. Repairing(tree, stored, cursor) /\ (cursor = tree.root \/ tree.red[cursor])
    BY <1>7 DEF DeleteDone, RbInv
  <2>2. Sound([tree EXCEPT !.red[cursor] = FALSE], stored)  BY <2>1, DeleteEnds
  <2>3. /\ tree' = [tree EXCEPT !.red[cursor] = FALSE] /\ rbpc = "deleting"
        /\ rbpc' = IF again = 0 THEN "idle" ELSE "relink"
        /\ again' = again /\ stored' = stored
    BY <1>7 DEF DeleteDone, Nil
  <2>4. Sound(tree', stored')  BY <2>2, <2>3
  <2> QED  BY <2>3, <2>4 DEF RbInv
<1>8. CASE Relink
  <2>1. Sound(tree, stored) /\ again \in RbKeys /\ again \notin stored  BY <1>8 DEF Relink, RbInv
  <2>2. Inserting(RbLinked(tree, again), stored \cup {again}, again)  BY <2>1, LinkKeeps
  <2>3. /\ tree' = RbLinked(tree, again) /\ cursor' = again /\ rbpc' = "inserting"
        /\ stored' = stored \cup {again} /\ again' = 0
    BY <1>8 DEF Relink, Nil
  <2> QED  BY <2>2, <2>3 DEF RbInv
<1>9. CASE RelinkFails
  <2>1. Sound(tree, stored)  BY <1>9 DEF RelinkFails, RbInv
  <2>2. tree' = tree /\ rbpc' = "idle" /\ again' = 0 /\ stored' = stored  BY <1>9 DEF RelinkFails, Nil
  <2> QED  BY <2>1, <2>2 DEF RbInv
<1>10. CASE UNCHANGED rbVars
  <2>1. tree' = tree /\ cursor' = cursor /\ rbpc' = rbpc /\ again' = again /\ stored' = stored
    BY <1>10 DEF rbVars
  <2> QED  BY <2>1 DEF RbInv
<1>11. ASSUME NEW k \in RbKeys, RbSetInPlace(k) PROVE RbInv'  BY <1>10, <1>11 DEF RbSetInPlace
<1> QED  BY <1>1, <1>2, <1>3, <1>4, <1>5, <1>6, <1>7, <1>8, <1>9, <1>10, <1>11 DEF RbNext

\* In every state the tree is in order and joined up; when no fix-up runs it
\* is a red-black tree of the stored keys, and while rbtree_insert_fixup or
\* rbtree_delete_fixup runs it is one but for the cursor.
THEOREM RbInvariant == RbSpec => []RbInv
<1>1. RbInit => RbInv  BY RbInitInv
<1>2. RbInv /\ [RbNext]_rbVars => RbInv'  BY RbStep
<1> QED  BY <1>1, <1>2, PTL DEF RbSpec

-----------------------------------------------------------------------------

\* s is the keys K in ascending order.
SortedKeys(s, K) ==
  /\ s \in Seq(Nat) /\ ToSet(s) = K
  /\ \A i, j \in DOMAIN s : i < j => s[i] < s[j]

\* What a sorted walk says of places and keys.
LEMMA SortedParts ==
  ASSUME NEW s, NEW K, SortedKeys(s, K)
  PROVE  /\ \A i \in 1..Len(s) : s[i] \in K /\ s[i] \in Nat
         /\ \A k \in K : \E i \in 1..Len(s) : s[i] = k
         /\ \A i, j \in 1..Len(s) : i < j => s[i] < s[j]
<1>1. s \in Seq(Nat) /\ ToSet(s) = K  BY DEF SortedKeys
<1>2. DOMAIN s = 1..Len(s)  BY <1>1
<1>3. K = {s[i] : i \in DOMAIN s}  BY <1>1 DEF ToSet
<1>4. \A i \in 1..Len(s) : s[i] \in K  BY <1>2, <1>3
<1>5. \A i \in 1..Len(s) : s[i] \in Nat  BY <1>1
<1>6. \A k \in K : \E i \in 1..Len(s) : s[i] = k  BY <1>2, <1>3
<1> QED  BY <1>2, <1>4, <1>5, <1>6 DEF SortedKeys

\* Two sorted walks with a key between them.
LEMMA JoinSorted ==
  ASSUME NEW s, NEW K, SortedKeys(s, K), NEW t, NEW M, SortedKeys(t, M), NEW n \in Nat,
         \A k \in K : k < n, \A m \in M : n < m
  PROVE  SortedKeys(s \o <<n>> \o t, K \cup {n} \cup M)
<1> DEFINE u == s \o <<n>> \o t
           a == Len(s)
           b == Len(t)
<1>1. s \in Seq(Nat) /\ t \in Seq(Nat) /\ a \in Nat /\ b \in Nat  BY DEF SortedKeys
<1>2. /\ u \in Seq(Nat) /\ DOMAIN u = 1..(a + 1 + b)
      /\ \A i \in 1..a : u[i] = s[i]
      /\ u[a + 1] = n
      /\ \A i \in 1..b : u[a + 1 + i] = t[i]
  BY <1>1
<1>3. DOMAIN s = 1..a /\ DOMAIN t = 1..b  BY <1>1
<1>4. /\ \A i \in 1..a : s[i] \in K /\ s[i] \in Nat
      /\ \A i \in 1..b : t[i] \in M /\ t[i] \in Nat
      /\ \A k \in K : \E i \in 1..a : s[i] = k
      /\ \A m \in M : \E i \in 1..b : t[i] = m
      /\ \A i, j \in 1..a : i < j => s[i] < s[j]
      /\ \A i, j \in 1..b : i < j => t[i] < t[j]
  BY SortedParts
<1> HIDE DEF u, a, b
<1>5. ASSUME NEW i \in 1..(a + 1 + b)
      PROVE  \/ i \in 1..a /\ u[i] = s[i]
             \/ i = a + 1 /\ u[i] = n
             \/ \E j \in 1..b : i = a + 1 + j /\ u[i] = t[j]
  <2>1. CASE i <= a  BY <2>1, <1>1, <1>2
  <2>2. CASE i = a + 1  BY <2>2, <1>1, <1>2
  <2>3. CASE i > a + 1
    <3>1. i - (a + 1) \in 1..b /\ i = a + 1 + (i - (a + 1))  BY <2>3, <1>1
    <3> QED  BY <3>1, <1>2
  <2> QED  BY <2>1, <2>2, <2>3, <1>1
<1>6. ASSUME NEW i \in 1..(a + 1 + b), NEW j \in 1..(a + 1 + b), i < j PROVE u[i] < u[j]
  <2>1. CASE j \in 1..a
    <3>1. i \in 1..a  BY <1>6, <2>1, <1>1
    <3> QED  BY <3>1, <1>6, <2>1, <1>2, <1>4
  <2>2. CASE j = a + 1
    <3>1. i \in 1..a  BY <1>6, <2>2, <1>1
    <3> QED  BY <3>1, <2>2, <1>2, <1>4
  <2>3. ASSUME NEW m \in 1..b, j = a + 1 + m PROVE u[i] < u[j]
    <3>0. u[j] = t[m] /\ n < t[m] /\ t[m] \in Nat  BY <2>3, <1>2, <1>4
    <3>1. CASE i \in 1..a
      <4>1. u[i] = s[i] /\ s[i] < n /\ s[i] \in Nat  BY <3>1, <1>2, <1>4
      <4> QED  BY <3>0, <4>1
    <3>2. CASE i = a + 1  BY <3>0, <3>2, <1>2
    <3>3. ASSUME NEW k \in 1..b, i = a + 1 + k PROVE u[i] < u[j]
      <4>1. k < m  BY <1>6, <2>3, <3>3, <1>1
      <4> QED  BY <3>0, <3>3, <4>1, <1>2, <1>4
    <3> QED  BY <3>1, <3>2, <3>3, <1>5
  <2> QED  BY <2>1, <2>2, <2>3, <1>5
<1>7. ToSet(u) = K \cup {n} \cup M
  <2>1. ToSet(u) = {u[i] : i \in 1..(a + 1 + b)}  BY <1>2 DEF ToSet
  <2>2. \A i \in 1..(a + 1 + b) : u[i] \in K \cup {n} \cup M  BY <1>4, <1>5
  <2>3. \A k \in K : \E i \in 1..(a + 1 + b) : u[i] = k
    <3> SUFFICES ASSUME NEW k \in K PROVE \E i \in 1..(a + 1 + b) : u[i] = k  OBVIOUS
    <3>1. PICK i \in 1..a : s[i] = k  BY <1>4
    <3>2. i \in 1..(a + 1 + b)  BY <1>1
    <3> QED  BY <3>1, <3>2, <1>2
  <2>4. \E i \in 1..(a + 1 + b) : u[i] = n
    <3>1. a + 1 \in 1..(a + 1 + b)  BY <1>1
    <3> QED  BY <3>1, <1>2
  <2>5. \A m \in M : \E i \in 1..(a + 1 + b) : u[i] = m
    <3> SUFFICES ASSUME NEW m \in M PROVE \E i \in 1..(a + 1 + b) : u[i] = m  OBVIOUS
    <3>1. PICK i \in 1..b : t[i] = m  BY <1>4
    <3>2. a + 1 + i \in 1..(a + 1 + b)  BY <1>1
    <3> QED  BY <3>1, <3>2, <1>2
  <2> QED  BY <2>1, <2>2, <2>3, <2>4, <2>5
<1>8. SortedKeys(u, K \cup {n} \cup M)  BY <1>2, <1>6, <1>7 DEF SortedKeys
<1> QED  BY <1>8 DEF u

\* w is kvs_rbtree_foreach on the subtrees, as deep as each number says.
Walks(w, T) ==
  /\ w[0] = [n \in RbNodes |-> << >>]
  /\ \A f \in 0..TreeSize :
       w[f + 1] = [n \in RbNodes |->
                     IF n = 0 THEN << >> ELSE w[f][T.ch["l"][n]] \o <<n>> \o w[f][T.ch["r"][n]]]

\* The walk of kvs_rbtree_foreach is the last of walks that go one level
\* deeper each.
LEMMA ForeachWalks ==
  ASSUME NEW T \in Trees
  PROVE  \E w : Walks(w, T) /\ Foreach(T) = w[TreeSize + 1][T.root]
<1> DEFINE N == TreeSize + 1
           Walk(w) == w = [f \in 0..(TreeSize + 1) |->
                             [n \in RbNodes |->
                                IF f = 0 \/ n = Nil THEN << >>
                                ELSE w[f - 1][T.ch["l"][n]] \o <<n>> \o w[f - 1][T.ch["r"][n]]]]
           walk == CHOOSE w : Walk(w)
           Seqs == [RbNodes -> Seq(RbNodes)]
           none == [n \in RbNodes |-> << >>]
           Deeper(v) == [n \in RbNodes |->
                           IF n = 0 THEN << >> ELSE v[T.ch["l"][n]] \o <<n>> \o v[T.ch["r"][n]]]
<1>1. Foreach(T) = walk[TreeSize + 1][T.root]  BY DEF Foreach
<1>0. /\ Nil = 0 /\ N \in Nat /\ N = TreeSize + 1 /\ TreeSize \in Nat
      /\ \A n \in RbNodes : T.ch["l"][n] \in RbNodes /\ T.ch["r"][n] \in RbNodes
  BY NodeFacts, SideFacts, TreeParts
<1>2. none \in Seqs  OBVIOUS
<1>3. ASSUME NEW v \in Seqs PROVE Deeper(v) \in Seqs
  <2>1. \A n \in RbNodes : v[T.ch["l"][n]] \o <<n>> \o v[T.ch["r"][n]] \in Seq(RbNodes)
    BY <1>0
  <2> QED  BY <2>1
<1>4. \E w : Walk(w)
  <2> DEFINE F == [v \in Seqs |-> Deeper(v)]
  <2>1. F \in [Seqs -> Seqs]
    <3> HIDE DEF Deeper, Seqs
    <3> QED  BY <1>3
  <2>2. \A v \in Seqs : F[v] = Deeper(v)
    <3> HIDE DEF Deeper, Seqs
    <3> QED  OBVIOUS
  <2> HIDE DEF F, N, Seqs, none
  <2>3. PICK w : Turns(w, Seqs, none, F, N)  BY <2>1, <1>0, <1>2, LoopExists
  <2>4. w \in [0..N -> Seqs] /\ w[0] = none /\ \A i \in 0..N : i # 0 => w[i] = F[w[i - 1]]
    BY <2>3 DEF Turns
  <2>5. \A i \in 0..N : i # 0 => w[i - 1] \in Seqs  BY <2>4, <1>0
  <2>6. \A i \in 0..N : w[i] = IF i = 0 THEN none ELSE Deeper(w[i - 1])
    <3> HIDE DEF Deeper
    <3> QED  BY <2>2, <2>4, <2>5
  <2> DEFINE G(i) == [n \in RbNodes |->
                                IF i = 0 \/ n = Nil THEN << >>
                                ELSE w[i - 1][T.ch["l"][n]] \o <<n>> \o w[i - 1][T.ch["r"][n]]]
  <2>7. ASSUME NEW i \in 0..N PROVE w[i] = G(i)
    <3>1. CASE i = 0
      <4>1. w[i] = none  BY <2>6, <3>1
      <4>2. none = G(i)  BY <3>1 DEF none
      <4> QED  BY <4>1, <4>2
    <3>2. CASE i # 0
      <4>1. w[i] = Deeper(w[i - 1])
        <5> HIDE DEF Deeper
        <5> QED  BY <2>6, <3>2
      <4>2. Deeper(w[i - 1]) = G(i)  BY <3>2, <1>0
      <4> QED  BY <4>1, <4>2
    <3> QED  BY <3>1, <3>2
  <2>8. w = [i \in 0..N |-> G(i)]
    <3> HIDE DEF G
    <3> QED  BY <2>4, <2>7
  <2>9. Walk(w)  BY <2>8 DEF N
  <2> QED  BY <2>9
<1>5. Walk(walk)
  <2> HIDE DEF Walk
  <2> QED  BY <1>4
<1> HIDE DEF walk
<1>6. walk[0] = [n \in RbNodes |-> << >>]
  <2>1. 0 \in 0..(TreeSize + 1)  BY <1>0
  <2>2. walk[0] = [n \in RbNodes |->
                                IF 0 = 0 \/ n = Nil THEN << >>
                                ELSE walk[0 - 1][T.ch["l"][n]] \o <<n>> \o walk[0 - 1][T.ch["r"][n]]]
    BY <2>1, <1>5
  <2> QED  BY <2>2
<1>7. ASSUME NEW f \in 0..TreeSize
      PROVE  walk[f + 1] = [n \in RbNodes |->
                     IF n = 0 THEN << >> ELSE walk[f][T.ch["l"][n]] \o <<n>> \o walk[f][T.ch["r"][n]]]
  <2>1. f + 1 \in 0..(TreeSize + 1) /\ f + 1 # 0 /\ (f + 1) - 1 = f  BY <1>0
  <2>2. walk[f + 1] = [n \in RbNodes |->
                                IF f + 1 = 0 \/ n = Nil THEN << >>
                                ELSE walk[(f + 1) - 1][T.ch["l"][n]] \o <<n>> \o walk[(f + 1) - 1][T.ch["r"][n]]]
    BY <2>1, <1>5
  <2> QED  BY <2>1, <2>2, <1>0
<1>8. Walks(walk, T)  BY <1>6, <1>7 DEF Walks
<1> QED  BY <1>1, <1>8

\* The keys of B between lo and hi.
Within(B, a, b) == {m \in B : a < m /\ m < b}

\* It visits the nodes of the tree, each once and in order.
LEMMA ForeachIs ==
  ASSUME NEW T, NEW B, InOrder(T, B)
  PROVE  SortedKeys(Foreach(T), B)
<1>1. PICK lo, hi : Placed(T, B, lo, hi)  BY DEF InOrder
<1>t. T \in Trees /\ B \subseteq RbKeys /\ T.root \in B \cup {0} /\ (T.root = 0 <=> B = {})
  BY Neighbours
<1>2. PICK w : Walks(w, T) /\ Foreach(T) = w[TreeSize + 1][T.root]  BY <1>t, ForeachWalks
<1>0. /\ TreeSize \in Nat /\ 0 \in RbNodes
      /\ \A n \in B : n \in RbNodes /\ n \in Nat /\ n # 0 /\ n <= TreeSize /\ 0 < n
      /\ \A n \in B : lo[n] \in Int /\ hi[n] \in Int /\ hi[n] - lo[n] <= TreeSize + 1
  <2>1. \A n \in B : n \in RbNodes /\ n # 0  BY Neighbours
  <2>2. \A n \in B : lo[n] \in Int /\ hi[n] \in Int /\ hi[n] - lo[n] <= TreeSize + 1
    BY <2>1, <1>1, BoundFacts
  <2>3. \A n \in B : n \in Nat /\ n <= TreeSize  BY <2>1, NodeFacts
  <2>4. \A n \in B : 0 < n  BY <2>1, <2>3
  <2> QED  BY <2>1, <2>2, <2>3, <2>4, NodeFacts
<1>s. "l" \in Sides /\ "r" \in Sides  BY SideFacts
<1>p. /\ \A n \in B : lo[n] < n /\ n < hi[n]
      /\ T.root # 0 => lo[T.root] = 0 /\ hi[T.root] = TreeSize + 1
      /\ \A n \in B :
           /\ T.ch["l"][n] # 0 => lo[T.ch["l"][n]] = lo[n] /\ hi[T.ch["l"][n]] = n
           /\ T.ch["r"][n] # 0 => lo[T.ch["r"][n]] = n /\ hi[T.ch["r"][n]] = hi[n]
           /\ T.ch["l"][n] = 0 => \A m \in B : ~(lo[n] < m /\ m < n)
           /\ T.ch["r"][n] = 0 => \A m \in B : ~(n < m /\ m < hi[n])
  BY <1>1 DEF Placed
<1>c. \A n \in B : T.ch["l"][n] \in B \cup {0} /\ T.ch["r"][n] \in B \cup {0}
  BY <1>s, Neighbours
<1> DEFINE Done(f) == \A n \in B : hi[n] - lo[n] <= f + 1 => SortedKeys(w[f][n], Within(B, lo[n], hi[n]))
           P == {f \in Nat : f <= TreeSize + 1 => Done(f)}
<1>e. SortedKeys(<< >>, {})  BY DEF SortedKeys, ToSet
<1>3. 0 \in P
  <2>1. \A n \in B : ~(hi[n] - lo[n] <= 0 + 1)  BY <1>0, <1>p
  <2> QED  BY <2>1
<1>4. ASSUME NEW f \in Nat, f \in P PROVE f + 1 \in P
  <2> SUFFICES ASSUME f + 1 <= TreeSize + 1, NEW n \in B, hi[n] - lo[n] <= (f + 1) + 1
               PROVE  SortedKeys(w[f + 1][n], Within(B, lo[n], hi[n]))
    OBVIOUS
  <2>1. f \in 0..TreeSize /\ Done(f)  BY <1>4, <1>0
  <2> DEFINE a == T.ch["l"][n]
             b == T.ch["r"][n]
             K == Within(B, lo[n], n)
             M == Within(B, n, hi[n])
  <2>2. w[f + 1][n] = w[f][a] \o <<n>> \o w[f][b]
    <3> QED  BY <1>2, <2>1, <1>0 DEF Walks
  <2>3. w[f][0] = << >>
    <3>1. CASE f = 0  BY <3>1, <1>2, <1>0 DEF Walks
    <3>2. CASE f # 0
      <4>1. f - 1 \in 0..TreeSize /\ (f - 1) + 1 = f  BY <2>1, <3>2, <1>0
      <4>2. w[(f - 1) + 1][0] = << >>  BY <4>1, <1>2, <1>0 DEF Walks
      <4> QED  BY <4>1, <4>2
    <3> QED  BY <3>1, <3>2
  <2>4. SortedKeys(w[f][a], K)
    <3>1. CASE a = 0
      <4>1. K = {}  BY <3>1, <1>p DEF Within
      <4> QED  BY <3>1, <4>1, <2>3, <1>e
    <3>2. CASE a # 0
      <4>1. a \in B /\ lo[a] = lo[n] /\ hi[a] = n  BY <3>2, <1>p, <1>c
      <4>2. hi[a] - lo[a] <= f + 1  BY <4>1, <1>0, <1>p
      <4>3. SortedKeys(w[f][a], Within(B, lo[a], hi[a]))
        <5> HIDE DEF a
        <5> QED  BY <4>1, <4>2, <2>1
      <4> QED  BY <4>1, <4>3
    <3> QED  BY <3>1, <3>2
  <2>5. SortedKeys(w[f][b], M)
    <3>1. CASE b = 0
      <4>1. M = {}  BY <3>1, <1>p DEF Within
      <4> QED  BY <3>1, <4>1, <2>3, <1>e
    <3>2. CASE b # 0
      <4>1. b \in B /\ lo[b] = n /\ hi[b] = hi[n]  BY <3>2, <1>p, <1>c
      <4>2. hi[b] - lo[b] <= f + 1  BY <4>1, <1>0, <1>p
      <4>3. SortedKeys(w[f][b], Within(B, lo[b], hi[b]))
        <5> HIDE DEF b
        <5> QED  BY <4>1, <4>2, <2>1
      <4> QED  BY <4>1, <4>3
    <3> QED  BY <3>1, <3>2
  <2>6. (\A k \in K : k < n) /\ (\A m \in M : n < m) /\ n \in Nat  BY <1>0 DEF Within
  <2> HIDE DEF K, M, a, b
  <2>7. SortedKeys(w[f][a] \o <<n>> \o w[f][b], K \cup {n} \cup M)
    BY <2>4, <2>5, <2>6, JoinSorted
  <2>8. K \cup {n} \cup M = Within(B, lo[n], hi[n])  BY <1>0, <1>p DEF Within, K, M
  <2> QED  BY <2>2, <2>7, <2>8
<1>5. TreeSize + 1 \in P
  <2> HIDE DEF P
  <2>1. TreeSize + 1 \in Nat  BY <1>0
  <2> QED  BY <1>3, <1>4, <2>1, AllNat
<1>6. CASE T.root = 0
  <2>1. w[TreeSize + 1][0] = << >>
    <3>1. TreeSize \in 0..TreeSize  BY <1>0
    <3> QED  BY <3>1, <1>2, <1>0 DEF Walks
  <2> QED  BY <2>1, <1>2, <1>6, <1>t, <1>e
<1>7. CASE T.root # 0
  <2>1. T.root \in B /\ lo[T.root] = 0 /\ hi[T.root] = TreeSize + 1  BY <1>7, <1>t, <1>p
  <2>2. SortedKeys(w[TreeSize + 1][T.root], Within(B, lo[T.root], hi[T.root]))
    <3>1. Done(TreeSize + 1)  BY <1>5
    <3> QED  BY <3>1, <2>1, <1>0
  <2>3. Within(B, lo[T.root], hi[T.root]) = B  BY <2>1, <1>0 DEF Within
  <2> QED  BY <2>2, <2>3, <1>2
<1> QED  BY <1>6, <1>7

\* What BlackHeights counts at a node, below it, and at every node once its
\* children are counted.
Own(n) == (IF tree.red[n] THEN 0 ELSE 1) + Extra(n)
Below(v, d, n) == IF tree.ch[d][n] # 0 THEN v[tree.ch[d][n]]
                  ELSE {IF tree.par[0] = n THEN Extra(0) ELSE 0}
Counted(v) == [n \in RbKeys |-> {k + Own(n) : k \in Below(v, "l", n) \cup Below(v, "r", n)}]

\* g is BlackHeights on the subtrees, as deep as each number says.
Heights(g) == \A f \in 0..TreeSize : g[f + 1] = Counted(g[f])

\* The counts of black nodes are the last of counts that go one level deeper
\* each.
LEMMA CountHeights ==
  ASSUME tree \in Trees, tree.root # 0
  PROVE  \E g : Heights(g) /\ BlackHeights = g[TreeSize + 1][tree.root]
<1> DEFINE N == TreeSize + 1
           Height(g) == g = [f \in 0..(TreeSize + 1) |->
             [n \in RbKeys |->
                LET below(d) ==
                      IF tree.ch[d][n] # Nil THEN g[f - 1][tree.ch[d][n]]
                      ELSE {IF tree.par[Nil] = n THEN Extra(Nil) ELSE 0}
                    own == (IF tree.red[n] THEN 0 ELSE 1) + Extra(n)
                IN  IF f = 0 THEN {-1} ELSE {h + own : h \in below("l") \cup below("r")}]]
           heights == CHOOSE g : Height(g)
           Sets == [RbKeys -> SUBSET Int]
           none == [n \in RbKeys |-> {-1}]
<1>1. BlackHeights = heights[TreeSize + 1][tree.root]
  <2>1. BlackHeights = IF tree.root = Nil THEN {0} ELSE heights[TreeSize + 1][tree.root]
    BY Zenon DEF BlackHeights
  <2> HIDE DEF heights
  <2> QED  BY <2>1 DEF Nil
<1>h. \A g : Height(g) <=>
        g = [f \in 0..(TreeSize + 1) |->
               [n \in RbKeys |-> IF f = 0 THEN {-1}
                                 ELSE {k + Own(n) : k \in Below(g[f - 1], "l", n) \cup Below(g[f - 1], "r", n)}]]
  BY DEF Own, Below, Nil
<1> HIDE DEF Height
<1>0. /\ N \in Nat /\ N = TreeSize + 1 /\ TreeSize \in Nat
      /\ \A n \in RbKeys, d \in {"l", "r"} : tree.ch[d][n] # 0 => tree.ch[d][n] \in RbKeys
      /\ \A n \in RbNodes : Extra(n) \in Nat
      /\ \A n \in RbKeys : Own(n) \in Nat
      /\ 0 \in RbNodes
  <2>1. \A n : Extra(n) \in Nat  BY DEF Extra
  <2>2. \A n : Own(n) \in Nat  BY <2>1 DEF Own
  <2>3. \A n \in RbKeys, d \in Sides : tree.ch[d][n] \in RbNodes  BY NodeFacts, TreeParts
  <2>4. \A n \in RbKeys, d \in {"l", "r"} : tree.ch[d][n] # 0 => tree.ch[d][n] \in RbKeys
    BY <2>3, NodeFacts DEF Sides
  <2>5. N \in Nat /\ N = TreeSize + 1 /\ TreeSize \in Nat /\ 0 \in RbNodes  BY NodeFacts
  <2> QED  BY <2>1, <2>2, <2>4, <2>5
<1>2. none \in Sets  OBVIOUS
<1>3. ASSUME NEW v \in Sets PROVE Counted(v) \in Sets
  <2>1. ASSUME NEW n \in RbKeys, NEW d \in {"l", "r"} PROVE Below(v, d, n) \subseteq Int
    <3>1. CASE tree.ch[d][n] # 0  BY <3>1, <1>0 DEF Below
    <3>2. CASE tree.ch[d][n] = 0  BY <3>2, <1>0 DEF Below
    <3> QED  BY <3>1, <3>2
  <2>2. \A n \in RbKeys : {k + Own(n) : k \in Below(v, "l", n) \cup Below(v, "r", n)} \subseteq Int
    BY <2>1, <1>0
  <2> QED  BY <2>2 DEF Counted
<1>4. \E g : Height(g)
  <2> DEFINE F == [v \in Sets |-> Counted(v)]
  <2>1. F \in [Sets -> Sets]
    <3> HIDE DEF Sets
    <3> QED  BY <1>3
  <2>2. \A v \in Sets : F[v] = Counted(v)
    <3> HIDE DEF Sets
    <3> QED  OBVIOUS
  <2> HIDE DEF F, N, Sets, none
  <2>3. PICK g : Turns(g, Sets, none, F, N)  BY <2>1, <1>0, <1>2, LoopExists
  <2>4. g \in [0..N -> Sets] /\ g[0] = none /\ \A i \in 0..N : i # 0 => g[i] = F[g[i - 1]]
    BY <2>3 DEF Turns
  <2>5. \A i \in 0..N : i # 0 => g[i - 1] \in Sets  BY <2>4, <1>0
  <2> DEFINE G(i) == [n \in RbKeys |-> IF i = 0 THEN {-1}
                                       ELSE {k + Own(n) : k \in Below(g[i - 1], "l", n) \cup Below(g[i - 1], "r", n)}]
  <2>6. ASSUME NEW i \in 0..N PROVE g[i] = G(i)
    <3>1. CASE i = 0
      <4>1. none = G(i)  BY <3>1 DEF none
      <4> QED  BY <2>4, <3>1, <4>1
    <3>2. CASE i # 0
      <4>1. g[i] = Counted(g[i - 1])  BY <2>2, <2>4, <2>5, <3>2
      <4>2. Counted(g[i - 1]) = G(i)  BY <3>2 DEF Counted
      <4> QED  BY <4>1, <4>2
    <3> QED  BY <3>1, <3>2
  <2>7. g = [i \in 0..N |-> G(i)]
    <3> HIDE DEF G
    <3> QED  BY <2>4, <2>6
  <2>8. Height(g)  BY <2>7, <1>h DEF N
  <2> QED  BY <2>8
<1>5. Height(heights)  BY <1>4
<1> HIDE DEF heights
<1>6. ASSUME NEW f \in 0..TreeSize PROVE heights[f + 1] = Counted(heights[f])
  <2>1. f + 1 \in 0..(TreeSize + 1) /\ f + 1 # 0 /\ (f + 1) - 1 = f  BY <1>0
  <2>2. heights[f + 1] =
          [n \in RbKeys |-> IF f + 1 = 0 THEN {-1}
                            ELSE {k + Own(n) : k \in Below(heights[(f + 1) - 1], "l", n)
                                                     \cup Below(heights[(f + 1) - 1], "r", n)}]
    BY <2>1, <1>5, <1>h
  <2> QED  BY <2>1, <2>2 DEF Counted
<1>7. Heights(heights)  BY <1>6 DEF Heights
<1> QED  BY <1>1, <1>7

\* The node whose weight is one more, and the side a sentinel that lacks a
\* black is on.
Lack == IF rbpc = "deleting" THEN cursor ELSE NoNode

\* In an even tree there is one black height.
LEMMA HeightsEven ==
  ASSUME InOrder(tree, stored), Balanced(tree, stored, Lack, tree.par[0], SideOf(tree, 0)),
         Lack = 0 /\ stored # {} => tree.par[0] \in stored /\ tree.ch[SideOf(tree, 0)][tree.par[0]] = 0
  PROVE  \E k : BlackHeights = {k}
<1>t. tree \in Trees /\ stored \subseteq RbKeys /\ tree.root \in stored \cup {0}
  BY Neighbours
<1>1. CASE tree.root = 0
  <2>1. BlackHeights = {0}  BY <1>1 DEF BlackHeights, Nil
  <2> QED  BY <2>1
<1>2. CASE tree.root # 0
  <2> DEFINE e == Lack
             q == tree.par[0]
             d == SideOf(tree, 0)
             W == Wt(tree, e)
             L == Lf(e, q, d)
  <2>1. PICK g : Heights(g) /\ BlackHeights = g[TreeSize + 1][tree.root]  BY <1>t, <1>2, CountHeights
  <2>2. PICK lo, hi : Placed(tree, stored, lo, hi)  BY DEF InOrder
  <2>3. PICK H : Even(tree, stored, W, L, H)  BY DEF Balanced
  <2>s. "l" \in Sides /\ "r" \in Sides /\ Sides = {"l", "r"} /\ d \in Sides  BY DEF Sides, SideOf
  <2>0. /\ TreeSize \in Nat /\ 0 \in RbNodes
        /\ \A n \in stored : n \in RbNodes /\ n \in RbKeys /\ n # 0 /\ n \in Nat
        /\ \A n \in stored : lo[n] \in Int /\ hi[n] \in Int /\ hi[n] - lo[n] <= TreeSize + 1
        /\ \A n \in stored, c \in Sides : tree.ch[c][n] \in stored \cup {0}
    <3>1. \A n \in stored : n \in RbNodes /\ n # 0 /\ n \in RbKeys  BY <1>t, Neighbours
    <3>2. \A n \in stored : lo[n] \in Int /\ hi[n] \in Int /\ hi[n] - lo[n] <= TreeSize + 1
      BY <3>1, <2>2, BoundFacts
    <3>3. \A n \in stored, c \in Sides : tree.ch[c][n] \in stored \cup {0}  BY Neighbours
    <3>4. \A n \in stored : n \in Nat  BY <3>1, NodeFacts
    <3> QED  BY <3>1, <3>2, <3>3, <3>4, NodeFacts
  <2>p. /\ \A n \in stored : lo[n] < n /\ n < hi[n]
        /\ \A n \in stored :
             /\ tree.ch["l"][n] # 0 => lo[tree.ch["l"][n]] = lo[n] /\ hi[tree.ch["l"][n]] = n
             /\ tree.ch["r"][n] # 0 => lo[tree.ch["r"][n]] = n /\ hi[tree.ch["r"][n]] = hi[n]
    BY <2>2 DEF Placed
  <2>n. \A n \in RbNodes : e = n <=> (rbpc = "deleting" /\ cursor = n)
    <3>1. \A n \in RbNodes : n # NoNode  BY NodeFacts DEF NoNode
    <3> QED  BY <3>1 DEF Lack
  <2>w. \A n \in stored : W[n] = Own(n)
    <3>1. \A n \in RbNodes : W[n] = IF tree.red[n] THEN IF e = n THEN 1 ELSE 0 ELSE IF e = n THEN 2 ELSE 1
      BY <1>t, WtIs
    <3> HIDE DEF e, W
    <3> QED  BY <3>1, <2>0, <2>n DEF Own, Extra
  <2>f. \A c \in Sides, n \in RbNodes : L[c][n] = IF e = 0 /\ n = q /\ c = d THEN 1 ELSE 0
    BY LfIs
  <2>x. Extra(0) = IF e = 0 THEN 1 ELSE 0
    <3> HIDE DEF e
    <3> QED  BY <2>0, <2>n DEF Extra
  <2>q. e = 0 => q \in stored /\ tree.ch[d][q] = 0
    <3>1. stored # {}  BY <1>t, <1>2
    <3> QED  BY <3>1
  <2>e. /\ H \in [RbNodes -> Nat] /\ W \in [RbNodes -> Nat] /\ L \in [Sides -> [RbNodes -> Nat]]
        /\ \A n \in stored, c \in Sides : H[n] = W[n] + Hung(tree, L, H, c, n)
    BY <2>3 DEF Even
  <2> HIDE DEF e, q, d, W, L
  <2>4. ASSUME NEW n \in stored, NEW c \in Sides, tree.ch[c][n] = 0
        PROVE  L[c][n] = IF q = n THEN Extra(0) ELSE 0
    <3>0. n \in RbNodes  BY <2>0
    <3>1. CASE e # 0 \/ q # n \/ c = d  BY <3>0, <3>1, <2>f, <2>x
    <3>2. CASE e = 0 /\ q = n /\ c # d
      <4>1. tree.ch[d][n] = 0  BY <3>2, <2>q
      <4>2. L[c][n] = 0 /\ L[d][n] = 1  BY <3>0, <3>2, <2>f, <2>s
      <4>3. Hung(tree, L, H, c, n) = 0 /\ Hung(tree, L, H, d, n) = 1  BY <2>4, <4>1, <4>2 DEF Hung
      <4>4. H[n] = W[n] + 0 /\ H[n] = W[n] + 1 /\ W[n] \in Nat
        BY <3>0, <4>3, <2>e, <2>s
      <4> QED  BY <4>4
    <3> QED  BY <3>1, <3>2
  <2> DEFINE Done(f) == \A n \in stored : hi[n] - lo[n] <= f + 1 => g[f][n] = {H[n]}
             P == {f \in Nat : f <= TreeSize + 1 => Done(f)}
  <2>5. 0 \in P
    <3>1. \A n \in stored : ~(hi[n] - lo[n] <= 0 + 1)  BY <2>0, <2>p
    <3> QED  BY <3>1
  <2>6. ASSUME NEW f \in Nat, f \in P PROVE f + 1 \in P
    <3> SUFFICES ASSUME f + 1 <= TreeSize + 1, NEW n \in stored, hi[n] - lo[n] <= (f + 1) + 1
                 PROVE  g[f + 1][n] = {H[n]}
      OBVIOUS
    <3>1. f \in 0..TreeSize /\ Done(f)  BY <2>6, <2>0
    <3>2. g[f + 1][n] = {k + Own(n) : k \in Below(g[f], "l", n) \cup Below(g[f], "r", n)}
      <4>1. PICK v : v = g[f]  OBVIOUS
      <4>2. g[f + 1] = Counted(v)  BY <3>1, <2>1, <4>1 DEF Heights
      <4>3. n \in RbKeys  BY <2>0
      <4>4. Counted(v)[n] = {k + Own(n) : k \in Below(v, "l", n) \cup Below(v, "r", n)}
        BY <4>3 DEF Counted
      <4> QED  BY <4>1, <4>2, <4>4
    <3>3. ASSUME NEW c \in Sides PROVE Below(g[f], c, n) = {Hung(tree, L, H, c, n)}
      <4>1. CASE tree.ch[c][n] = 0
        <5>1. Below(g[f], c, n) = {L[c][n]}  BY <4>1, <2>4 DEF Below, q
        <5> QED  BY <4>1, <5>1 DEF Hung
      <4>2. CASE tree.ch[c][n] # 0
        <5> DEFINE m == tree.ch[c][n]
        <5>1. m \in stored /\ hi[m] - lo[m] <= f + 1
          <6>1. m \in stored  BY <4>2, <2>0
          <6>2. CASE c = "l"
            <7>1. lo[m] = lo[n] /\ hi[m] = n  BY <4>2, <6>2, <2>p
            <7> QED  BY <6>1, <7>1, <2>0, <2>p
          <6>3. CASE c = "r"
            <7>1. lo[m] = n /\ hi[m] = hi[n]  BY <4>2, <6>3, <2>p
            <7> QED  BY <6>1, <7>1, <2>0, <2>p
          <6> QED  BY <6>2, <6>3, <2>s
        <5>2. Below(g[f], c, n) = g[f][m] /\ Hung(tree, L, H, c, n) = H[m]  BY <4>2 DEF Below, Hung
        <5> HIDE DEF m
        <5>3. g[f][m] = {H[m]}  BY <5>1, <3>1
        <5> QED  BY <5>2, <5>3
      <4> QED  BY <4>1, <4>2
    <3>4. Below(g[f], "l", n) = {Hung(tree, L, H, "l", n)} /\ Below(g[f], "r", n) = {Hung(tree, L, H, "r", n)}
      BY <3>3, <2>s
    <3>5. Hung(tree, L, H, "l", n) + Own(n) = H[n] /\ Hung(tree, L, H, "r", n) + Own(n) = H[n]
      <4>1. H[n] = W[n] + Hung(tree, L, H, "l", n) /\ H[n] = W[n] + Hung(tree, L, H, "r", n)
        BY <2>e, <2>s
      <4>2. Hung(tree, L, H, "l", n) \in Nat /\ Hung(tree, L, H, "r", n) \in Nat
        <5>1. \A c \in Sides : tree.ch[c][n] # 0 => tree.ch[c][n] \in RbNodes  BY <2>0
        <5>2. (\A m \in RbNodes : H[m] \in Nat) /\ \A c \in Sides : L[c][n] \in Nat
          BY <2>e, <2>0
        <5> QED  BY <5>1, <5>2, <2>s DEF Hung
      <4>3. W[n] = Own(n) /\ W[n] \in Nat  BY <2>w, <2>e, <2>0
      <4>4. PICK a, b, k, h : /\ a = Hung(tree, L, H, "l", n) /\ b = Hung(tree, L, H, "r", n)
                              /\ k = Own(n) /\ h = H[n]
        OBVIOUS
      <4>5. a + k = h /\ b + k = h  BY <4>1, <4>2, <4>3, <4>4
      <4> QED  BY <4>4, <4>5
    <3> QED  BY <3>2, <3>4, <3>5
  <2>7. TreeSize + 1 \in P
    <3> HIDE DEF P
    <3>1. TreeSize + 1 \in Nat  BY <2>0
    <3> QED  BY <2>5, <2>6, <3>1, AllNat
  <2>8. g[TreeSize + 1][tree.root] = {H[tree.root]}
    <3>1. Done(TreeSize + 1)  BY <2>7
    <3>2. tree.root \in stored  BY <1>t, <1>2
    <3>3. hi[tree.root] - lo[tree.root] <= (TreeSize + 1) + 1  BY <3>2, <2>0
    <3> QED  BY <3>1, <3>2, <3>3
  <2> QED  BY <2>1, <2>8
<1> QED  BY <1>1, <1>2

-----------------------------------------------------------------------------

\* In every state the tree is in order, and its sentinel black.
LEMMA RbOrdered == RbInv => InOrder(tree, stored) /\ ~tree.red[0]
BY DEF RbInv, Sound, Inserting, Repairing

\* The invariant implies the order.
LEMMA RbSorted == RbInv => TreeSorted
<1> SUFFICES ASSUME RbInv PROVE TreeSorted  OBVIOUS
<1>1. InOrder(tree, stored) /\ ~tree.red[0]  BY RbOrdered
<1>2. SortedKeys(Foreach(tree), stored)  BY <1>1, ForeachIs
<1>3. WalkSorted  BY <1>2 DEF SortedKeys, WalkSorted
<1>4. /\ tree.root # 0 => tree.par[tree.root] = 0
      /\ \A n \in stored, d \in Sides : tree.ch[d][n] # 0 => tree.par[tree.ch[d][n]] = n
      /\ \A d \in Sides : tree.ch[d][0] = 0
  BY <1>1 DEF InOrder, Joined
<1>5. ParentsAgree  BY <1>1, <1>4 DEF ParentsAgree, Nil
<1> QED  BY <1>3, <1>5 DEF TreeSorted

\* And the balance.
LEMMA RbBalanced == RbInv => BrokenOnlyAtCursor
<1> SUFFICES ASSUME RbInv PROVE BrokenOnlyAtCursor  OBVIOUS
<1>1. InOrder(tree, stored)  BY RbOrdered
<1>n. NoNode # 0  BY DEF NoNode
<1>2. /\ Balanced(tree, stored, Lack, tree.par[0], SideOf(tree, 0))
      /\ Lack = 0 /\ stored # {} => tree.par[0] \in stored /\ tree.ch[SideOf(tree, 0)][tree.par[0]] = 0
  <2>1. CASE rbpc = "deleting"
    <3>1. Lack = cursor /\ Repairing(tree, stored, cursor)  BY <2>1 DEF Lack, RbInv
    <3> QED  BY <3>1 DEF Repairing
  <2>2. CASE rbpc # "deleting"
    <3>1. Lack = NoNode /\ Balanced(tree, stored, NoNode, 0, "l")
      BY <2>2 DEF Lack, RbInv, Sound, Inserting
    <3>2. Lf(NoNode, 0, "l") = Lf(NoNode, tree.par[0], SideOf(tree, 0))  BY <1>n DEF Lf
    <3> QED  BY <3>1, <3>2, <1>n DEF Balanced
  <2> QED  BY <2>1, <2>2
<1>3. PICK k : BlackHeights = {k}  BY <1>1, <1>2, HeightsEven
<1>4. Cardinality(BlackHeights) = 1  BY <1>3, FS_Singleton
<1>5. ASSUME NEW n \in stored, tree.red[n], n = tree.root \/ tree.red[tree.par[n]]
      PROVE  (rbpc # "idle" /\ n = cursor) \/ (rbpc = "deleting" /\ tree.par[n] = cursor)
  <2>1. Bad(tree, n)  BY <1>5 DEF Bad
  <2>2. CASE rbpc = "idle" \/ rbpc = "relink"
    <3>1. Clean(tree, stored)  BY <2>2 DEF RbInv, Sound
    <3> QED  BY <2>1, <3>1 DEF Clean
  <2>3. CASE rbpc = "inserting"
    <3>1. BadOnly(tree, stored, cursor)  BY <2>3 DEF RbInv, Inserting
    <3> QED  BY <2>1, <2>3, <3>1 DEF BadOnly
  <2>4. CASE rbpc = "deleting"
    <3>1. Repairing(tree, stored, cursor)  BY <2>4 DEF RbInv
    <3> QED  BY <2>1, <2>4, <3>1 DEF Repairing
  <2> QED  BY <2>2, <2>3, <2>4 DEF RbInv
<1> QED  BY <1>4, <1>5 DEF BrokenOnlyAtCursor

\* kvs_rbtree_foreach yields exactly the stored keys in ascending order, and
\* parent pointers agree with child pointers, at every step of every set,
\* delete and fix-up, for every number of keys.
THEOREM TreeIsSorted == RbSpec => []TreeSorted
<1>1. RbInv => TreeSorted  BY RbSorted
<1> QED  BY <1>1, RbInvariant, PTL

\* All paths of the tree have the same number of black nodes, and no red node
\* is below a red one, but for the cursor of rbtree_insert_fixup or
\* rbtree_delete_fixup while one runs.
THEOREM TreeIsBalanced == RbSpec => []BrokenOnlyAtCursor
<1>1. RbInv => BrokenOnlyAtCursor  BY RbBalanced
<1> QED  BY <1>1, RbInvariant, PTL
=============================================================================
