----------------------------- MODULE BoundedFifo -----------------------------
(* What a queue of expire.c promises: a first-in first-out queue of at most *)
(* Cap items whose pop returns the oldest item.                             *)
EXTENDS Naturals, Sequences

CONSTANTS Items, Cap

VARIABLES q, out     \* the queue; the item the last successful pop returned

Init == q = << >> /\ out \in Items

Push(x) == /\ Len(q) < Cap
           /\ q' = Append(q, x)
           /\ UNCHANGED out

Pop == /\ q # << >>
       /\ q' = Tail(q) /\ out' = Head(q)

Next == Pop \/ \E x \in Items : Push(x)

Spec == Init /\ [][Next]_<<q, out>>
=============================================================================
