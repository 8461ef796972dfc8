------------------------------ MODULE MCExpire ------------------------------
(* Small instance of Expire: keys of the array (a1, a2), of the rbtree or    *)
(* skip list (r1), of the hash table (h1) and of the context table (c1); a   *)
(* second is two ticks, bare numbers from 3 are absolute times.  A behaviour *)
(* uses the keys of one of the KeySets.                                      *)
EXTENDS Expire, TLC

CONSTANTS a1, a2, r1, h1, c1, KeySets

VARIABLE used

\* A bare 3 has passed once the clock is there; CmdMod writes values without a TTL.
MCTTLTimed == {[form |-> "PX", n |-> 1], [form |-> "bare", n |-> 3]}
MCTTLFew == {[form |-> "none", n |-> 0], [form |-> "PX", n |-> 1]}
MCTTLPlain == {[form |-> "none", n |-> 0], [form |-> "EX", n |-> 1], [form |-> "PX", n |-> 1]}

\* The two keys of the array are alike.
MCSymmetry == Permutations({a1, a2})

UsedInit == used \in KeySets /\ Init /\ \A k \in Keys \ used : store[k] = Absent
UsedNext ==
  /\ Next /\ UNCHANGED used
  /\ \A k \in Keys \ used : store'[k] = store[k] /\ aof'[k] = aof[k]

UsedSpec == UsedInit /\ [][UsedNext]_<<vars, used>>
FairUsedSpec == UsedSpec /\ Fairness
=============================================================================
