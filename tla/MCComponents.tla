---------------------------- MODULE MCComponents ----------------------------
(***************************************************************************)
(* The parts of the server that run on their own, each on its own          *)
(* instance: which says the one a behaviour exercises, the others stay in  *)
(* their initial state.                                                    *)
(*   pool  two size classes, three and two chunks to a block, three blocks  *)
(*   ring  four slots, three items                                         *)
(*   heap  six timers (three levels), ties between expiries                *)
(*   tree  eight keys: every case of both fix-ups                          *)
(*   skip  five keys on three levels, entries with plain keys around them  *)
(*   hash  five keys, so that the table grows twice and shrinks twice      *)
(*   array three cells for four keys                                       *)
(*   keep  four questions, one too long for the index, two near-identical  *)
(*   recs  three ids, one with a comma in it                               *)
(*   boot  two writes, two SAVEs and two restarts                          *)
(***************************************************************************)
EXTENDS Mempool, RingQueue, TimerHeap, ArrayTable, HashTable, RbTree, SkipList,
        Records, Restart, TLC

CONSTANTS Which, c1, c2, b1, b2, b3

VARIABLE which

MCCap == (c1 :> 3) @@ (c2 :> 2)
MCGrows == {<<c1, c2>>}

\* Keys 1 and 5 share a slot at every size, 2 and 4 only in a small table.
MCHash == 1 :> 1 @@ 2 :> 2 @@ 3 :> 3 @@ 4 :> 4 @@ 5 :> 9
MCHashValues == {v \in UNION {[1..n -> Ids] : n \in 1..2} : IsInjective(v)}

\* The long question is cut to what is the short one p.
MCQuestions == {"p", "q", "r", "long"}
MCCut == [k \in MCQuestions |-> IF k = "long" THEN "p" ELSE k]
MCSim ==
  [e \in MCQuestions \X MCQuestions |->
     LET pair == {e[1], e[2]}
     IN  IF e[1] = e[2] \/ pair = {"q", "r"} THEN 3
         ELSE IF pair \in {{"p", "q"}, {"long", "p"}} THEN 2
         ELSE IF pair = {"long", "r"} THEN -1 ELSE 1]
MCRecIds == {<<"a">>, <<"b">>, <<"a", "b">>}

poolVars == <<owner, count, free, current, remaining, live, moving>>
allVars == <<which, poolVars, ringVars, heapVars, rbVars, skipVars, hashVars, arrayVars, chatVars, bootVars>>

AllInit ==
  /\ which \in Which
  /\ Init /\ HeapInit /\ RbInit /\ SkipInit /\ HashInit /\ RestartInit
  /\ ArrayInit /\ ChatInit
  /\ RingInit
  /\ which # "ring" => \* one of the initial rings is enough for the others
       /\ \A i \in DOMAIN items : items[i] = ret
       /\ pval = ret /\ cval = ret /\ ret = CHOOSE x \in Items : TRUE

\* A step of one component leaves the others alone.
PoolNext == which = "pool" /\ Next
             /\ UNCHANGED <<which, ringVars, heapVars, rbVars, skipVars, hashVars, arrayVars, chatVars, bootVars>>
QueueNext == which = "ring" /\ RingNext
             /\ UNCHANGED <<which, poolVars, heapVars, rbVars, skipVars, hashVars, arrayVars, chatVars, bootVars>>
TimersNext == which = "heap" /\ HeapNext
             /\ UNCHANGED <<which, poolVars, ringVars, rbVars, skipVars, hashVars, arrayVars, chatVars, bootVars>>
TreeNext == which = "tree" /\ RbNext
             /\ UNCHANGED <<which, poolVars, ringVars, heapVars, skipVars, hashVars, arrayVars, chatVars, bootVars>>
ListNext == which = "skip" /\ SkipNext
             /\ UNCHANGED <<which, poolVars, ringVars, heapVars, rbVars, hashVars, arrayVars, chatVars, bootVars>>
ChainNext == which = "hash" /\ HashNext
             /\ UNCHANGED <<which, poolVars, ringVars, heapVars, rbVars, skipVars, arrayVars, chatVars, bootVars>>
CellNext == which = "array" /\ ArrayNext
             /\ UNCHANGED <<which, poolVars, ringVars, heapVars, rbVars, skipVars, hashVars, chatVars, bootVars>>
KeepNext == which = "keep" /\ Keeping
             /\ UNCHANGED <<which, poolVars, ringVars, heapVars, rbVars, skipVars, hashVars, arrayVars, bootVars>>
RecsNext == which = "recs" /\ Indexing
             /\ UNCHANGED <<which, poolVars, ringVars, heapVars, rbVars, skipVars, hashVars, arrayVars, bootVars>>
BootNext == which = "boot" /\ RestartNext
             /\ UNCHANGED <<which, poolVars, ringVars, heapVars, rbVars, skipVars, hashVars, arrayVars, chatVars>>

AllNext ==
  \/ PoolNext \/ QueueNext \/ TimersNext \/ TreeNext \/ ListNext \/ ChainNext
  \/ CellNext \/ KeepNext \/ RecsNext \/ BootNext

AllSpec == AllInit /\ [][AllNext]_allVars
=============================================================================
