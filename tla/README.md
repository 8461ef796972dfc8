# TLA+ models of kivo

kivo is a key-value server in C: five in-memory engines behind a RESP protocol,
key expiry with a thread of its own, an append-only file written through
io_uring, snapshots, a slab allocator, and replication to one slave over TCP or
RDMA. One thread runs all coroutines (NtyCo); the other threads are the expire
thread, the receiving threads of a slave, and the kernel, which completes
io_uring writes.

Paths in this document are relative to the repository. Line numbers of every
definition are in `PROJECT.json` under `map`.

## Inventory

| Component | State | Operations | Meets | Hard part |
|---|---|---|---|---|
| Engines (`kvs_array.c`, `kvs_hash.c`, `kvs_rbtree.c`, `kvs_skiptable.c`) | tables of key, value, expiry | set, get, mod, del, exist, del_if_expired, foreach | called by the command handlers, the expiry coroutine, the snapshot | expiry deletes in the middle of a read; restructuring of trees and lists |
| Key expiry (`expire.c`) | two rings, a heap, `g_expire_running` | push_cmd, thread routine, process_deletes, destroy | SET handlers push timers; the thread sends deletions back; deletions are logged | timers outlive their values; full rings; shutdown |
| Rings (`queue_push`, `queue_pop`) | head, tail, 65536 slots | push, pop | main thread and expire thread without a lock | data race, full and empty tests on stale indices |
| Timer heap (`heap_push`, `heap_pop`) | array, size | push, pop | expire thread only | sifting |
| Append-only file (`persistence.c`) | two buffers, busy flag, file, last flush time | write, flush_pending, force_flush, close, recover | every write command, the flush coroutine, SYNC | kernel reads one buffer while the other fills; crash; shutdown |
| Snapshot (`snapshot.c`, SAVE) | files, pid of the child | save in a child, load | loaded before the log is replayed | replaying a log over a newer snapshot |
| Replication (`repl.c`, `ntyco.c`, SYNC, SYNC_DONE) | `g_slave_fd`, flags, backlog ring | sync, sync_done, queueing, sender coroutine, slave's threads | log file, command loop | the hand-over from file to stream; reconnects; partial sends |
| Memory pool (`mempool.c`) | blocks, free lists, counts | malloc, free, realloc, MEMTRIM | everybody | returning a block that is still referenced |
| RESP and client loop (`resp.c`, `ntyco.c`) | read and write buffers per connection | receive, cut, execute, reply | all commands | half commands, several in one segment, a full buffer, errors in the middle of a batch |
| eBPF relay (`ebpf_relay.c`, `sync_filter.bpf.c`) | kernel ring buffer, `expected_seq`, pool of early segments, ring of bytes | capture, reorder, forward | a process of its own beside the master; sends to the slave | loss, reordering, retransmission, wrapping numbers, a ring that grows while it wraps |
| AI chat (`ai_chat.c`; KEEP, MATCH, SETREC, GETREC, SETIDX, GETIDXREC) | answers by question, vector index, records by id, ids by keyword | store, index, find the most similar, list | hash tables, an embedding service | a command that fails half-way; the index against the table |
| RDMA (`rdma.c`, `repl.c`) | per end a queue pair and a completion queue, the slave's buffer and file | handshake, header, chunks, SYNC_DONE | SYNC; the slave stores in a thread of its own | one buffer for all chunks, one event per arming, the master blocks |
| Reactor, proactor, configuration | | | compiled or read at start only | |
| Command table (`kvstore.c`) | none of its own | one handler per command | every engine | the order of logging, queueing and running |

What makes them correct, in one line each: a value with a TTL always goes and
nothing else does; the rings are FIFO queues without races; the heap pops an
earliest timer and loses none; the file is the log, in order, and a restart gives
a state the server was in; the slave sees the master's commands in order and
none is missing; no chunk is used twice and no pointer leads into a returned
block; a connection's requests run in order and are answered in order; a chunk is
overwritten only after it was stored; the relay forwards the client's stream
without a gap or a repetition; MATCH answers with the most similar question's
present value.

## Plan

Order, most important first. All of it is done.

1. `Expire` (with `RingQueue` refining `BoundedFifo`, and `TimerHeap`): threads.
2. `Aof` refining `AppendLog`: persistence and crashes.
3. `Replication`: the two-process protocol.
4. `Mempool`: memory safety.
5. Proofs for `RingQueue`, `Expire`, `Mempool`.
6. `RbTree`: rotations and fix-ups against the red-black conditions.
7. `SkipList`, `HashTable` and `ArrayTable` against the map they stand for.
8. `Restart`: SAVE in a child, restart with snapshot and log, the KEEP index.
9. `ClientLoop`: buffering, half commands, errors and replies of one connection.
10. `RdmaSync`: the handshake of the file transfer; `Relay`: capture and
    reordering.
11. `Records`: the tables behind the chat commands.
12. Proofs for `Aof`: both orders and the refinement.
13. Proofs for `Replication`, `RdmaSync`, `Restart`, `TimerHeap`, `ArrayTable`,
    `HashTable` and `ClientLoop`.
14. Proofs for `Relay`, `Records`, `SkipList` and `RbTree`, and for the restart of `Aof`.

## Modules

### Expire, MCExpire, ExpireProofs

Engines are one map from keys to expiry (`store`), since the expiry code looks
at nothing else. `aof` is the effect of the last logged write of each key;
`refused` marks writes that a full array refused after they were logged.
Main thread: `CmdSet`, `CmdSetRefused`, `CmdMod`, `CmdDel`, `CmdGetExpired`, the
expiry coroutine (`ProcessDeletesBegin`, `ProcessDelete`, `ProcessDeletesEnd`),
`ExpireSystemInit`, `ExpireSystemDestroy`, `Joined`. Expire thread: `ThreadHead`,
`ThreadDrain`, `ThreadReadClock`, `ThreadFire`, `ThreadPush`, `ThreadRoundDone`.
The rings appear as bounded sequences, which `RingQueue` justifies, and the heap
as a set from which an earliest timer is taken, which `TimerHeap` justifies.
`ParseTTL` follows `parse_ttl`: EX, PX, a bare number that is relative or, from
1000000000 on, absolute.

Keys of hash tables, the context table among them, are `HashKeys`. A timer carries
`hash_cache`, which `expire_push_cmd` never assigns: for these keys it is 0 or
whatever was on the stack (`Leftovers`), and since `kv_data_hash_calc` trusts a value
that is not 0, the search of such a timer finds its key or does not (`Searches`). The
other engines do not look at it. `untimed` is history: the keys whose last SET left no
timer that is sure to find the value, because the ring was full, the key could not be
copied or the timer got a hash from the stack, and those that came with a snapshot.

The log holds a SET's TTL argument as the client sent it. `aof` holds the expiry
that argument meant when it was logged; a replay computes relative ones anew from
its own clock, so a restart gives such keys a new lease. The boot phase is
modelled (a replay is a sequence of commands before the thread starts), the
difference between the two clocks is not.

### BoundedFifo, RingQueue

`queue_push` and `queue_pop`, each shared access one step: read the other side's
index, write or read the slot, store the own index. C11 acquire and release order
make the interleaving semantics adequate here; `NoSlotRace` shows that the plain
slot accesses never meet. `BoundedFifo` is the abstract queue of `N - 1` items.
The proofs of this module, of `TimerHeap`, `ArrayTable`, `HashTable`, `SkipList`,
`Records` and `Mempool` are in `StructureProofs`, which extends them all.

### TimerHeap

`heap_push` and `heap_pop` with one step per iteration of the sift loops. `members` is
history: the timers pushed and not popped.

### AppendLog, Aof, AofProofs

`a` is the double buffer with the state of the ring (`io`), `apc` where the main
thread is, `arg` what `kvs_persistence_write` waits to append, `due` the flush
timeout. The kernel's completion is its own action and may be whole, torn (crash
in the middle) or short. `Recover` replays whole commands from the front and stops
at the first incomplete one. `AppendLog` is an append-only log of bytes with a
durable prefix. Assumed: `io_uring_get_sqe` and `io_uring_submit` succeed (one
write is outstanding in a queue of depth 16), and `io_uring_wait_cqe` is not
interrupted by a signal. `intact` is history: it turns false with the first torn
or short write, from where on the file is no longer an append-only log of what was
written and only its order is claimed.

### Replication, ReplicationProofs

Master, slave, and one connection between them, TCP path. Commands are numbers in
the order the master executes them; the file holds the first `filed` of them. A
command crosses the wire in two parts so that `send` can be partial. `slaveFd` says
what the number in `g_slave_fd` denotes, including a closed or reused one. The
SYNC handler is one step since it blocks the master's only thread. `missed` and
`clean` are history: commands the session cannot get (in an AOF buffer at SYNC, or
refused by a full backlog, or in a part of the file the slave could not store), and
whether the ring was empty at SYNC. A slave that
restarts replays its own old log first; `got` counts from the SYNC. `SlaveStoreFails`
is the `splice` to the slave's file that fails: what it took off the connection is gone,
there is neither replay nor SYNC_DONE, and the client coroutine reads the rest as
commands, or finds none if it begins inside one.

### Mempool

A chunk is a block and an index. `Alloc` reuses, carves or takes a new block;
`Free` puts the chunk back or returns the whole block; `kvs_realloc` is two steps
(allocate, then free the old chunk) with the old chunk in `moving`; `Memtrim`
is MEMTRIM. One thread, as in the code's TCP configuration.

### RbTree, RbTreeProofs

The tree of `kvs_rbtree.c` as records of children, parent and colour, with the
sentinel as a node of its own, because `rbtree_delete` writes its parent. Keys are
numbers in the order of the code's comparison. A set or delete that restructures
links the node, then takes one step per iteration of `rbtree_insert_fixup` or
`rbtree_delete_fixup` (`rbpc`, `cursor`), so that the invariants speak of every
intermediate tree. `SetLonger` deletes and sets again, as the code does for a
longer value; `RelinkFails` is the allocation that fails in between. `Search` is both
`rbtree_search` and `rbtree_find_parent`; `Search`, `Mini` and `Foreach` are recursive
functions over a number of turns that no path exceeds. `stored` is history.

### SkipList

`kvs_skiptable.c`: the forward pointers of every level, `level` and `count`.
`FindUpdate` is `skip_find_update`, and `Walk` its loop on one level; the random height
is any. Sorted-set entries
and SSET keys are in one list, as in the code, and `ZsetRecent` is the query behind
ZRANGE. Timestamps have at most 15 digits, so that entries sort by number.

### HashTable

`kvs_hash.c`: a chain is the set of its nodes (keys are unique, so their order is never
seen), doubling when there are as many nodes as
slots, halving below a quarter,
in-place and rebuilding writes, `kvs_hash_append`, failing allocations. The hash
function is a parameter.

### Restart, RestartProofs

SAVE, the snapshot file and what a restart makes of snapshot and log. Children and
the closing server write one temporary name, so the model has inodes: a truncated
file may be open in another process, and a rename may find the file gone. A crash
loses what is not flushed and leaves children running (`orphans`). Each process that
saves has a place in `kvs_snapshot_save` (`spc`), the memory it saves (`copy`, which
fork makes) and the file it has open (`fd`), and may be killed at each place
(`SaverDies`), the closing server too. `LoadSnapshot`,
`ReplayLog`, `KeepIndexInit` are the start, in the order of `init_kvengine`. The loader
stops at a record over its limits; keys that may have one are `Oversize`, and what the
file holds before it depends on the engines' order, so any part of the records may be
loaded then. `before`, `saved`, `newest`, `orphans` and `cut` (records were not loaded)
are history. How the log gets to the
file is in `Aof`; here any prefix may be flushed, and `AofOn` says whether there is
a log at all.

### ArrayTable

`kvs_array.c`: the cells and `total`. `HoleFilled` is the deletion that moves the last
item into the hole. Cells past the end are part of the state, since a search must
not see what is left in them. An allocation may fail (`ArraySetFails`); expiry is in
`Expire`.

### Records

The tables of the chat commands. Similarity (`Sim`), its thresholds and the length at
which a key is cut for the index (`Cut`) are parameters; the vectors themselves are
not computed. `Keep` writes the table first and the index second, and each may fail
without the other; a MATCH whose own embedding fails reads and changes nothing and is
left out. The ids under a keyword are one string with commas in the code; an
id here is the sequence of its pieces, so that one with a comma in it comes apart as
it does in GETIDXREC. `indexed` and `put` are history.

### ClientLoop, StreamProofs

One connection: `ntyco_client_co` receives into a buffer that grows up to
`MAX_RBUFFER_SIZE`, `protocol_process_stream` cuts requests out of it, the replies
wait in the write buffer. A request is a kind and a length: `answered`, `failed` (ends
with `KVS_RESP_ERROR`) or `bad` (`has_complete_resp_command` never accepts it). TCP
hands over any number of bytes at a time. `Receive`, `ReceiveEnd`, `RunOne`, `Reply`
are the server, `Request` and `ClientEnds` the other end, `ReceiveFails` a failed
allocation, a failed send or a reset. A byte is its request and its place in it, and
`Stream` is the read buffer with what is on its way. `ran` and `faulty` are history.

### RdmaSync, RdmaSyncProofs

The synchronisation over RDMA: `hs` is the handshake over TCP, `mpc` and `spc` are the
SYNC handler and the slave's thread. `q` holds for each end the posted receives, the
completions, whether the queue is armed, and the events not yet taken: a write takes a
posted receive, and raises an event only if the queue is armed. The master writes the
header, then a chunk at a time into the one buffer of the slave, and waits for an empty
write back after each. The immediate value that carries the size is taken modulo
`ImmMod`. Setting up the queue pairs is one step, and there is one session. Every verb of
the transfer may fail. The master notices a write that failed and not a wait that did:
`MasterWaitFails` goes on as if the answer had come, with the next chunk over one that
may not be stored. The slave's thread ends at a failed wait and does not notice a failed
answer. `mishap` is history: the master cannot map its file, a verb fails, the slave
refuses the handshake's answer, cannot open or write its file, dies, or appends commands
of its own to the file.

### Relay

`Arrives` is `handle_tc_dual_write`: any segment of a connection's stream, cut to what
fits in an event, in any order and any number of times. A segment that was not
captured is one that does not arrive. `HandleEvent`, `Merge` and `MergeEnds` are
`process_tcp_payload` with `ooo_insert` and the loop of `ooo_flush`; `SendSome`,
`FlushEnds` and `Stops` are `flush_all` and the loop of `main`. The ring of bytes is an
array with two indices that is copied when it grows. A byte is its connection and
position, a sequence number is modulo `Mod`. `handled` and `sound` are history: there
was one connection, the pool was never reset and no allocation failed. The proofs are in
`StreamProofs`.

### MCComponents, MCStreams

The parts share little state, so that two models hold them all: `which` picks the part
a behaviour exercises, the others keep their initial state. The reachable states are
the disjoint union of those of the parts. `MCComponents` has the allocator, the ring,
the heap, the engines, the chat tables and the restart; `MCStreams` the five ways a
command travels: log, TCP, RDMA, relay and client connection, with their fairness.
The parts are extended, so that a run checks the very definitions the theorems name.

## Runs

| Run | Checks | Shows |
|---|---|---|
| `expire_safety` | `EveryTTLHasTimer`, `NeverEarly`, `TimerDeletesOnlyExpired`, `LogMatchesStore` | a tree key and a context key, or two keys for an array of one slot; rings of one item, three timers: stale timers, overwrites, refused writes, full rings, hashes from the stack in every order |
| `expire_live` | `ExpiredKeysAreDeleted`, `DestroyReturns` | an array key and a hash key; expiry without readers, and shutdown |
| `expire_permanent` | `PermanentKeysStay` (violated) | finding 1 |
| `expire_handed` | `HandedOverIsDeleted` (violated) | finding 8 |
| `streams` | log: `LogOrder`, `FileInOrder`, `ImplementsAppendLog`, `RestartRebuilds`, `LoggedReachesFile`, `WriteReturns`; TCP: `InOrderNoneSkipped`, `NoneForgotten`, `SlaveCatchesUp`; RDMA: `StoredBeforeAcked`, `SyncReturns`; relay: `ForwardsTheStream`, `NothingSeenIsLost`, `RingDrains`; connection: `RunsInOrder`, `RepliesMatch`, `ClosedByPeer`, `RequestsAnswered`, `EndedIsClosed` | whole, torn, short and missing writes with crash and restart; a backlog that overflows, partial sends, a file the slave cannot store and a second session; a verb or a slave that fails at every step of the transfer; segments reordered, repeated, cut and lost; requests cut and joined by TCP, faults, a full buffer |
| `aof_close` | `CloseReturns` (violated) | finding 2 |
| `repl_gap` | `NothingLeftOut` (violated) | finding 3 |
| `repl_resync` | `OnlyNewAfterFile` (violated) | finding 4 |
| `components` | allocator: `ChunksAccounted`, `NoIdleBlock`; ring: `TestsStayValid`, `ImplementsFifo`; heap: `HeapSound`; tree: `TreeSorted`, `BrokenOnlyAtCursor`; skip list: `SkipLookup`; hash: `HashLookup`, `ResizeHasSlack`; array: `ArrayLookup`; chat: `MatchAnswersBest`, `IndexedRecords`; restart: `SnapshotSound`, `CleanRestart` | every sequence of operations, interleaving, failed step and crash of one instance of each part |
| `zset_recent` | `RecentIsLatest` (violated) | finding 5 |
| `saved_survives` | `SavedSurvives` (violated) | finding 6 |
| `kept_indexed` | `KeptIsIndexed` (violated) | finding 7 |

`expire_safety` has about 2.1 million distinct states, the two keys of the array being
alike; `components` has about 1.8 million and `streams` about 300 thousand. Each takes two
to three minutes of TLC. A behaviour of `MCExpire` uses the keys of one of the `KeySets`
(`used`), so that one run covers keys of different engines without their product; in
`expire_safety` values without a TTL come from the MOD commands. `HeapSound`, `TreeSorted`, `SkipLookup` and `HashLookup`
are conjunctions: order and no timer lost, keys and parent links, lookups and nested
levels, lookups and node count.

Bounds. Rings and buffers are as small as they can be while they still fill,
wrap and refuse: one timer in each expiry ring, four slots in `RingQueue`, two
nodes in the backlog, log buffers of three bytes that flush at two, with commands
of one, two and four. `MaxTime`, `MaxTimers`, `MaxCmds`, `MaxPushes`, `MaxSyncs`,
`MaxWrites`, `MaxSaves` and `MaxBoots` stop the clock and the clients; deadlock is
not checked where such a bound, a shutdown or a closed connection ends the
behaviour. Three timers allow a timer, its successor for the same key and one in
flight; two sessions are what a resynchronisation needs. The allocator has classes
of three and two chunks to a block and three blocks, so that a class owns two
blocks while the other owns one. Seven pushes make a heap of three levels. Eight
keys make a red-black tree in which every case of both fix-ups occurs. The skip
list has five keys on three levels, three of them entries with plain keys before
and after. The hash table starts with two slots and five keys, so that it grows and
shrinks twice, and keys collide at one size and not at another. Two writes, two
SAVEs and two restarts give a snapshot older and one newer than the log, a child
that outlives its server, and a second child at work on the first one's file; one of
the two keys may have a record the loader refuses.
The array has three cells for four keys. Of four questions one is cut to another one
for the index and two are as good as identical; the index holds three entries. Three
ids, one of them with a comma, give a keyword lists of up to four pieces.

RDMA chunks are of two bytes, and files of 0, 1, 4, 5, 8 and 9 bytes end inside and at
the end of a chunk, and reach `ImmMod` = 8. The relay's stream has five bytes whose
sequence numbers wrap (`Mod` = 11, beginning at 9), in segments of one and three of
which two are captured; four segments, a pool of two and a ring of two bytes make the
pool overflow and the ring wrap and grow; a second connection of one byte disturbs it.
A read buffer starts at one byte and stops at four, and three requests of one, two or
five bytes fill it exactly, are cut by it or do not fit at all.

Fairness. `Expire`: the clock, the expire thread, and the expiry coroutine, which
NtyCo resumes after each sleep. `Aof`: the kernel completes writes, the flush
coroutine runs every interval, a blocked write or close goes on when its condition
holds. `Replication`: the main loops of both processes run, TCP delivers while the
connection lasts, and `send` does not stay partial for ever. `RdmaSync`: both threads
run, and the adapter delivers. `Relay`: its loop runs, and `send` to the slave is not
refused for ever (strong fairness, since the loop leaves the sending part in
between). `ClientLoop`: the scheduler runs the connection's coroutine when it can go on.
Clients, slaves' owners and the network's faults are never assumed to do anything, and no
failure of a call is ever owed.

## Findings

1. `SET k v` in the array engine without a TTL registers a timer for expiry 0, which
   is due at once and matches the value: the key is deleted (`src/kvstore.c:110`),
   against `src/README.md:115`.
2. `kvs_persistence_close` with a write in flight waits for a completion that was
   already consumed, because the loop never clears the busy flag
   (`src/persistence.c:261`).
3. Commands that are still in an AOF buffer when SYNC arrives are neither in the file
   that is sent nor in the backlog (`src/repl.c:429`).
4. SYNC resets the backlog's count but not its indices: after a broken session the
   next slave is sent old commands after its file (`src/kvstore.c:282`).
5. ZRANGE walks the list that also holds the keys of SSET, counts them and then
   leaves them out, so that it returns fewer than the latest n entries
   (`src/kvs_skiptable.c:371`, against `src/kvstore.c:494`).
6. With expiry off, `kvs_array_foreach` does nothing, so a snapshot holds no key of
   the array engine (`src/kvs_array.c:187`, against the test in `src/README.md:54`). The
   run has the log off, as a server that relies on snapshots; with expiry on the
   same instance satisfies the property. With the log on it fails for another
   reason: a log whose end was lost in a crash is replayed over a newer snapshot and
   brings an older value back.
7. `keep_index_init` runs after the replay whose KEEP commands filled the index, and
   empties it: MATCH finds nothing that was kept before (`src/server.c:97`, against
   `src/kvstore.c:314`).
8. `expire_push_cmd` leaves `item.key.hash_cache` as it was on the stack. A timer of a
   hash or context key with such a hash searches another slot and is consumed, and the
   expired value stays until somebody reads it (`src/expire.c:170`, against
   `src/expire.h:42` and `src/kvstore.h:62`).

A command that ends with `KVS_RESP_ERROR` gets no reply, because `resp_pack` has no branch
for it (`src/resp.c:157`; `src/resp.h:23` has `-ERR` beside that status). `ClientLoop`
models it as it is: such a request has no reply, and `RepliesMatch` is about the others.

Met on the way, and excluded by the hypotheses of the properties rather than listed
as findings, since no text promises otherwise: `rb_send` takes a ring of the relay that
is exactly full for empty; its pool is emptied when it is full and the stream starts
anew; two client connections are mixed; the SYNC handler over RDMA waits for ever for
a slave that died or gave up, and for a file of 2^32 bytes or more; a client buffer
full with an incomplete request sleeps for ever, even when the client has gone; an
ordinary client that gets the number in `g_slave_fd` gets the backlog; a shutdown waits
for ever for an expire thread that waits for room in the delete queue; a child that
outlives its server may tear the snapshot; the loader gives up at a large record; the
RDMA master takes a failed wait for an answer. `PROJECT.json` lists each as a hazard, with
no property or with the part a property does cover.

## Proofs

TLAPS proves these for every value of the constants.

`ExpireProofs`. The assumption is `ConstAssumption` (sizes are positive, key classes
disjoint). `IInv` is `TypeOK`, the three invariants, and two facts they need:
`HeldOnlyToPush` (the thread holds a timer exactly while it waits to push it; without
it a timer could be lost between heap and queue) and `TimersHaveExpiry` (timers
outside the array are for expiries above 0). `TTLCovered` follows the timer of the
current value through ring, heap, thread and second ring: every action moves it on
or, when it is consumed, deletes exactly the value it covers. The timer it follows is one
whose `hash_cache` is 0; of a timer with a hash from the stack nothing but
`OnlyExpiredDeleted` and `ForwardedAreDue` can be said, which is finding 8. `LogAgrees`,
`ForwardedAreDue`, `TypeCorrect` come from the same invariant, and
`OnlyExpiredDeleted` is an action property from it.

`AofProofs`. The assumption is `AofAssumption` (sizes are natural numbers, commands are
not empty). `Shape` has the types and what each phase of the main thread knows: a
submitted write keeps the busy flag set, so that no swap happens under it; the buffers
are empty after a crash; nothing is busy when `kvs_persistence_close` writes the rest.
`Pending` is what is in the two buffers and not yet written; swapping and reaping leave
it alone (`TriggerKeeps`, `ReapedKeeps`, `CheckCqeKeeps`), so only logging and the
kernel matter. From there `LogInOrder`, and with it `AofImplementsLog`: each kernel
write, the last write of a close and a crash in the middle persist a part of the log.
`FileOrdered` needs no whole writes: file, buffers and the command that waits for room are
one ordered stream (`InOrder`), to which commands are added at the end and from which a
damaged write drops a piece in the middle. `RestartsRebuild` needs more: `RestartInv` says
that the bytes kept are joined commands (`Joined`), that a command ends at each place where
a crash can cut them (`EndsAt`: the end of the file, of the write in flight, of the
active buffer), and that the places where commands end (`Ending`) list what was executed.
`ReplayedIs` then shows that the replay, which counts ends, gives that list back.

`StructureProofs`, the memory pool. `PoolInv` is `Accounted` (the chunk by chunk form of
`ChunksAccounted`), `CurrentOwned` (a pool carves from a block it owns, and has
nothing left to carve without one), `CountsExact`, `NoIdleBlock` and
`MovingLive` (what realloc has still to free is in use). The core of the argument:
when `free_count + 1` equals the capacity, the other `capacity - 1` chunks are on the
free list, so the freed chunk was the last in use and nothing can point into the
block any more. The cardinality facts are lemmas from `FiniteSetTheorems`.

`StructureProofs`, the ring. The assumption is `RingAssumption` (two slots at least).
`RingInvariant` says that indices stay in the ring and that a test that passed stays
valid until the index is stored, since the other side only moves in the favourable
direction; `RaceFree` follows. `RingImplementsFifo` maps the slots between tail and head
to the abstract queue: a push appears when it stores the head, a pop when it stores the
tail.

`StructureProofs`, the heap. The assumption is `HeapAssumption` (expiries are integers).
`HeapInv` is the types, `OncePerTimer` (no timer is at two places, and the next one is
new) and `HeapSound`, whose order excepts only the timer being sifted: on the way up
against its parent, on the way down against its children, and in both cases the
children are in order with the grandparent, which a swap needs. That the root is an
earliest timer (`RootEarliest`) is the argument of the least counterexample: the first
place that is earlier than the root would have a parent that is too.

`StructureProofs`, the array and the hash table. The assumptions are `ArrayAssumption`
and `HashAssumption` (a table starts with two slots at least: with one, halving would
reach none). `ArrayInv` says that the cells in use have different keys, hold what was
stored, and that those past the end are clear, so that a search cannot see what a
deletion left. `HashInv` is `WellFormed`: every node is in the chain of its key's slot,
the count is the number of nodes, and the number of slots is the initial one doubled
some times. The last is a set closed under doubling, the smallest one, so that no
induction over data is needed. It carries halving: a table larger than the initial one
is even. `HashFinds` then rests on `h % 2n` being `h % n` or that plus `n`, so growing
splits a chain in two and shrinking joins the same two. `ResizesRarely` is the action
property that a resize leaves slack in both directions.

`StructureProofs`, the skip list. The assumption is `SkipAssumption`. `SkipInv` is `ListOf`:
on each level the pointers link, in order, the nodes that are that high (`IsLevel`), no
node is higher than the list, and the count is that of the keys with a value. A walk on
a level stops at the last node before the key, also when it starts where the level above
stopped (`WalkStops`), so `FindUpdate` finds the node before on every level (`UpdateIs`)
and linking and unlinking give the levels of the new set. `SkipFinds` is a search, and the
walk along the lowest level (`ChainIs`), in such a list.

`StructureProofs`, the chat tables. The assumption is `ChatAssumption`; that the threshold
of MATCH is not above that for equal questions holds of the code's 0.90 and 0.9999.
`ChatInv` is `IndexExact` (the entries of the index are the questions indexed, each under
its cut key) and `PiecesMatch` (an id without a comma that was put under a keyword is
among its pieces, and if all are such, the pieces are the ids).
`MatchIsBest` and `RecordsFound` add what the two loops compute.

`RbTreeProofs`. The assumption is `TreeAssumption` (the keys are numbered). Neither property
is inductive: the order of a walk does not say where a search goes, and one black height
at the root says nothing of the subtrees. `Placed` gives each node an open interval, the whole
range at the root and below it the part on its side of the parent; a missing child
means that no stored key is in that part. So a search goes where the key is (`FoundIs`), and
since intervals narrow no path is longer than there are keys. `Even` gives each node
a height `H`, the weight `W` of the node (1 if black, one more if it is the cursor of
a deletion) added to either side below, where a missing child has a weight `L` of its own,
because the sentinel can be the cursor. Three moves keep a tree even: turning about a node
without weight (`TurnEven`), shifting weight between a node and its children
(`ShiftEven`), and any weight at the root. Each case of the two fix-ups is made of these.
A deletion takes out a node with at most one child (`Spliced`) and, if that was the
successor, renames the deleted key to it (`Renamed`), which keeps the order since no key is
between them. `RbInv` says, by `rbpc`, that the tree is `Sound`, `Inserting` (one red pair,
at the cursor) or `Repairing` (one black lacking, at the cursor). `TreeIsSorted` and
`TreeIsBalanced` follow for the walk and the counts of the whole tree.

`ReplicationProofs`. The assumption is `ReplAssumption` (the backlog has at least one
node). `IInv` has three parts. `Session` says what SYNC, the file and SYNC_DONE imply of
each other. `Live` is a session that began with an empty backlog, from its SYNC on
(finding 4 is what happens otherwise). `Stream` then orders what was replayed, what is
on the wire and what is in the ring, each before the next; `Cut` ties the first half of
a command at the end of the wire to its other half at the head of the ring, which is
what makes a partial `send` harmless; and `Covered` says that every command is replayed,
whole on the wire, in the ring, or in `missed`. A slave that could not store the file
starts the same order later, with the lost commands in `missed`. `NoGap` and `NothingForgotten` follow.

`RdmaSyncProofs`. The assumption is `RdmaAssumption`; `ImmMod > ChunkSize` holds of the
code's 2^32 and chunks of 32 MB. There is never more than one message between the
two threads, and `RdmaInv` says for each place it can be (the slave's completion queue,
the slave, the master's completion queue, nowhere) what is stored and what the buffer
holds. It is claimed while `Good` holds: the size fits the immediate value, no verb has
failed, the slave could open its file and nobody else appended to it. `NothingOverwritten` is then the
case in which the message is with the master.

`RestartProofs`. The assumption is `RestartAssumption` (finitely many keys).
`SnapshotAlwaysSound` needs to know who may touch the two files: while no child has
outlived its server at most one process saves (`OneSaver`), it alone has the temporary
file open, which is never the snapshot, and its place fixes the content (`SaverFile`).
`RestartRestores` needs to know where the value of a key is: memory agrees with the
log's last write of it (`InLog`), and for a key the log has not, with the snapshot and
with every copy being saved (`InSnapshot`), so that a rename between stop and start
changes nothing. The second is given up once the loader has left records out (`cut`) or
a child has outlived its server; the first remains.

`StreamProofs`, the connection. The assumption is `ClientAssumption`; the relations between
`InitBuf`, `LowRoom` and `MaxBuf` are not needed. All that is claimed of bytes is claimed
of `Stream` at the parsing index: receiving moves bytes from one part to the other
and leaves it alone, parsing moves the index over exactly one request, and `memmove`
drops what lies before it. `Sent` bounds the requests, `Buffers` says that between two
rounds nothing is parsed and no reply waits, without which a reply of one round could
be sent in another.

`StreamProofs`, the relay. The assumption is `RelayAssumption`: sizes are positive, and a
stream is shorter than half of the sequence numbers (2^31 bytes of the code's 2^32),
without which the signed difference that `process_tcp_payload` takes does not tell early
from late. `RelayInv` names a connection and two positions: the bytes sent and those in
the ring are the stream from the first byte captured to `front`, and `expected` is the
number of `front`; unless a retransmission was cut at another place (`Uncut`), every range
seen is before `front` or waits in the pool. The ring is a sequence whatever its indices are: writing appends (`RingPut`), growing
copies a wrapped content (`RingGrown`). `RelayForwards` and `RelayLosesNothing` follow while
`sound` holds.

Loops and walks are recursive functions over a number of turns. The library's induction
theorems take an operator as a parameter, which the provers cannot instantiate; the lemmas
`AllNat` and `Least` say the same of a set of numbers, and follow from the well-foundedness of
the numbers. `LoopExists` gives a loop its function, from which the equation of the
definition follows.

The 44 theorems are in `PROJECT.json` under `theorems`. Every invariant and every
action property of a passing run is among them, and both refinements (`ImplementsFifo`,
`ImplementsAppendLog`).

## Only model-checked

Liveness (`ExpiredKeysAreDeleted`, `DestroyReturns`, `LoggedReachesFile`,
`WriteReturns`, `SlaveCatchesUp`, `SyncReturns`, `RingDrains`, `RequestsAnswered`,
`EndedIsClosed`), since the prover does not reason about fairness. The violations
of the findings are runs of TLC and need no proof.

## Not modelled

- The reactor and proactor loops: compiled, never started (`NETWORK_SELECT` is NtyCo).
- Configuration parsing, and printing: no state that changes later.
- `hash.c` (not built) and `kvs_zset_range` (no caller).
- `vmlinux.h`: 132137 generated lines of kernel types, included by no file of the
  repository.
- The verbs that set up RDMA queue pairs, and a second RDMA session; NUMA binding and
  statistics of the relay; the loading of its kernel program.
- How embeddings and similarities are computed.
- Timestamps of 16 digits and more, which no longer sort by number.
- The magic word before a pointer by which `kvs_free` tells its chunks from those of
  `malloc`: a matter of memory contents, not of control.
- The RDMA slave's thread replays its file while the main thread uses the same engines
  and the same allocator without a lock. That is a data race on every structure, and its
  outcomes cannot be enumerated; the models are of one thread at a time there.
- Allocation failures outside the allocator, the engines, the client's buffers, the chat
  tables and the relay.
