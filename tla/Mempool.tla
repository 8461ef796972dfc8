------------------------------- MODULE Mempool -------------------------------
(***************************************************************************)
(* The slab allocator (mempool.c): kvs_malloc, kvs_free, kvs_realloc and   *)
(* MEMTRIM over pools of equal chunks carved from 64 KB blocks.            *)
(*                                                                         *)
(* A chunk is a block and an index in it: masking its address gives the    *)
(* block, whose header gives the pool.  The free list is a set: which free *)
(* chunk is reused next does not matter.  Objects larger than a slab go to *)
(* malloc with a header of their own and only meet the pools in realloc.   *)
(* The code takes no lock: one thread uses the allocator.                  *)
(***************************************************************************)
EXTENDS Integers, FiniteSets

CONSTANTS
  Pools,     \* the size classes, one pool each
  Cap,       \* Cap[p]: chunks in a block of pool p
  Blocks,    \* block addresses posix_memalign can return
  NoBlock,   \* NULL
  Grows      \* pairs <<p, q>>: class q is larger than class p

ASSUME PoolAssumption ==
  /\ Cap \in [Pools -> Nat \ {0}]
  /\ NoBlock \notin Blocks /\ NoBlock \notin Pools
  /\ Grows \subseteq Pools \X Pools

VARIABLES
  owner,      \* pool_block_t.pool of each block in use, NoBlock for the others
  count,      \* pool_block_t.free_count
  free,       \* free_list of each pool
  current,    \* current_block of each pool
  remaining,  \* chunks of current_block not yet carved (next_free follows)
  live,       \* the chunks each pool has handed out (what the callers hold)
  moving      \* the chunk kvs_realloc has still to free: a set of at most one

blockVars == <<owner, count>>
vars == <<owner, count, free, current, remaining, live, moving>>

Chunks == [blk : Blocks, idx : Nat]
Chunk(b, i) == [blk |-> b, idx |-> i]
In(S, b) == {c \in S : c.blk = b}

\* kvs_mempool_init
Init ==
  /\ owner = [b \in Blocks |-> NoBlock] /\ count = [b \in Blocks |-> 0]
  /\ free = [p \in Pools |-> {}] /\ live = [p \in Pools |-> {}]
  /\ current = [p \in Pools |-> NoBlock] /\ remaining = [p \in Pools |-> 0]
  /\ moving = {}

-----------------------------------------------------------------------------
(* mem_pool_alloc; without a free block it fails and changes nothing *)

AllocReuse(p) ==
  \E c \in free[p] :
    /\ free' = [free EXCEPT ![p] = @ \ {c}]
    /\ count' = [count EXCEPT ![c.blk] = @ - 1]
    /\ live' = [live EXCEPT ![p] = @ \cup {c}]
    /\ UNCHANGED <<owner, current, remaining>>

AllocCarve(p) ==
  /\ free[p] = {} /\ remaining[p] > 0
  /\ live' = [live EXCEPT ![p] = @ \cup {Chunk(current[p], Cap[p] - remaining[p] + 1)}]
  /\ remaining' = [remaining EXCEPT ![p] = @ - 1]
  /\ UNCHANGED <<owner, count, free, current>>

\* add_new_block, then carve its first chunk.
AllocNewBlock(p, b) ==
  /\ free[p] = {} /\ remaining[p] = 0 /\ owner[b] = NoBlock
  /\ owner' = [owner EXCEPT ![b] = p]
  /\ count' = [count EXCEPT ![b] = 0]
  /\ current' = [current EXCEPT ![p] = b]
  /\ remaining' = [remaining EXCEPT ![p] = Cap[p] - 1]
  /\ live' = [live EXCEPT ![p] = @ \cup {Chunk(b, 1)}]
  /\ UNCHANGED free

Alloc(p) == AllocReuse(p) \/ AllocCarve(p) \/ \E b \in Blocks : AllocNewBlock(p, b)

-----------------------------------------------------------------------------
(* mem_pool_free_with_block *)

\* Mutant: the count is compared before it is incremented.
LastOfBlockLate(b, p) == count[b] = Cap[p]

\* This free makes the whole block free.
LastOfBlock(b, p) == count[b] + 1 = Cap[p]

\* Mutant: the chunks of a reclaimed block stay on the free list.
WithoutBlockNot(S, b) == S

\* remove_block_from_freelist
WithoutBlock(S, b) == {c \in S : c.blk # b}

\* Unlink the block, forget its free chunks, return it.
Reclaim(b, p) ==
  /\ owner' = [owner EXCEPT ![b] = NoBlock]
  /\ count' = [count EXCEPT ![b] = 0]
  /\ free' = [free EXCEPT ![p] = WithoutBlock(@, b)]
  /\ current' = [current EXCEPT ![p] = IF @ = b THEN NoBlock ELSE @]
  /\ remaining' = [remaining EXCEPT ![p] = IF current[p] = b THEN 0 ELSE @]

CountAfterFree(b) == [count EXCEPT ![b] = @ + 1]

\* kvs_free of a slab chunk: the pool comes from the block's header.
Free(c) ==
  LET b == c.blk
      p == owner[b]
  IN  /\ live' = [live EXCEPT ![p] = @ \ {c}]
      /\ \/ LastOfBlock(b, p) /\ Reclaim(b, p)
         \/ /\ ~LastOfBlock(b, p)
            /\ free' = [free EXCEPT ![p] = @ \cup {c}]
            /\ count' = CountAfterFree(b)
            /\ UNCHANGED <<owner, current, remaining>>

-----------------------------------------------------------------------------
(* The interface *)

KvsMalloc(p) == moving = {} /\ Alloc(p) /\ UNCHANGED moving

KvsFree(p) ==
  /\ moving = {}
  /\ \E c \in live[p] : Free(c)
  /\ UNCHANGED moving

\* kvs_realloc to a larger class: allocate, copy, and then free the old
\* chunk.  When the allocation fails the old chunk stays; a size that still
\* fits returns the same chunk.
KvsReallocSlab(p, q) ==
  /\ moving = {} /\ <<p, q>> \in Grows
  /\ \E c \in live[p] : moving' = {c}
  /\ Alloc(q)

\* The new size is larger than every slab: only the old chunk is freed here.
KvsReallocBig(p) ==
  /\ moving = {}
  /\ \E c \in live[p] : moving' = {c}
  /\ UNCHANGED <<blockVars, free, current, remaining, live>>

KvsReallocFree ==
  /\ \E c \in moving : Free(c)
  /\ moving' = {}

\* kvs_mempool_trim_all: the blocks that are wholly free go.
Idle(p) == {b \in Blocks : owner[b] = p /\ count[b] = Cap[p]}

Memtrim ==
  /\ moving = {}
  /\ owner' = [b \in Blocks |-> IF \E p \in Pools : b \in Idle(p) THEN NoBlock ELSE owner[b]]
  /\ count' = [b \in Blocks |-> IF owner'[b] = NoBlock THEN 0 ELSE count[b]]
  /\ free' = [p \in Pools |-> {c \in free[p] : c.blk \notin Idle(p)}]
  /\ remaining' = [p \in Pools |-> IF current[p] \in Idle(p) THEN 0 ELSE remaining[p]]
  /\ current' = [p \in Pools |-> IF current[p] \in Idle(p) THEN NoBlock ELSE current[p]]
  /\ UNCHANGED <<live, moving>>

Next ==
  \/ \E p \in Pools : \/ KvsMalloc(p) \/ KvsFree(p) \/ KvsReallocBig(p)
                      \/ \E q \in Pools : KvsReallocSlab(p, q)
  \/ KvsReallocFree
  \/ Memtrim

Spec == Init /\ [][Next]_vars

-----------------------------------------------------------------------------
(* Properties *)

\* Types.
TypeOK ==
  /\ owner \in [Blocks -> Pools \cup {NoBlock}] /\ count \in [Blocks -> Nat]
  /\ free \in [Pools -> SUBSET Chunks] /\ live \in [Pools -> SUBSET Chunks]
  /\ current \in [Pools -> Blocks \cup {NoBlock}]
  /\ remaining \in [Pools -> Nat]
  /\ moving \subseteq UNION {live[p] : p \in Pools}

\* The chunks of a block that were ever handed out.
Carved(p, b) ==
  {Chunk(b, i) : i \in 1..(IF current[p] = b THEN Cap[p] - remaining[p] ELSE Cap[p])}

\* Every chunk carved from a block is either in use or on the free list of
\* the block's pool, never both, and a block that was returned to the system
\* has neither: no caller and no free list can point into it.
ChunksAccounted ==
  \A p \in Pools :
    /\ live[p] \cap free[p] = {}
    /\ \A b \in Blocks :
         In(live[p], b) \cup In(free[p], b) = (IF owner[b] = p THEN Carved(p, b) ELSE {})

\* free_count is the number of the block's chunks on the free list, which the
\* decision to return the block rests on.
CountsExact ==
  \A p \in Pools : \A b \in Blocks :
    owner[b] = p => count[b] = Cardinality(In(free[p], b))

\* No block stays in a pool once all its chunks are free: kvs_free returns it
\* at once and MEMTRIM finds none.
NoIdleBlock == \A p \in Pools : \A b \in Blocks : owner[b] = p => count[b] < Cap[p]
=============================================================================
