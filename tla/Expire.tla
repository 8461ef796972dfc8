------------------------------- MODULE Expire -------------------------------
(***************************************************************************)
(* Key expiry (expire.c, the TTL paths of kvstore.c and of the engines).   *)
(*                                                                         *)
(* The main thread executes commands and, in a coroutine, the deletions    *)
(* the expire thread asks for.  The expire thread owns a min-heap of       *)
(* timers.  Two single-producer single-consumer queues join them:          *)
(*                                                                         *)
(*    main --cmdq--> expire thread (heap, held) --delq--> main             *)
(*                                                                         *)
(* The engines are one map from keys to expiry times; a key stands for an  *)
(* (engine, key) pair.  Keys of the array engine are ArrayKeys and keys of *)
(* the context table global_hash2 are CtxKeys: their SET commands differ   *)
(* from those of the rbtree, hash and skiplist engines.  HashKeys are the  *)
(* keys of hash tables, that one included: a timer of such a key searches  *)
(* by a hash value that expire_push_cmd leaves uninitialised.              *)
(***************************************************************************)
EXTENDS Integers, Sequences, FiniteSets

CONSTANTS
  Keys, ArrayKeys, HashKeys, CtxKeys,
  ArraySize,   \* KVS_ARRAY_SIZE
  TTLArgs,     \* the TTL arguments clients pass: records [form, n]
  Sec,         \* milliseconds in a second (1000)
  AbsMin,      \* a bare number from here on is an absolute time (1000000000)
  CmdCap,      \* EXPIRE_QUEUE_SIZE - 1, for g_cmd_queue
  DelCap,      \* EXPIRE_QUEUE_SIZE - 1, for g_delete_queue
  Batch,       \* deletions per call of expire_process_deletes (500)
  StartTime,   \* the clock when the process starts
  MaxTime,     \* bound: the clock stops here
  MaxTimers    \* bound: timers created

Forms == {"none", "EX", "PX", "bare"}

ASSUME ConstAssumption ==
  /\ ArrayKeys \subseteq Keys /\ HashKeys \subseteq Keys /\ CtxKeys \subseteq HashKeys
  /\ ArrayKeys \cap HashKeys = {}
  /\ TTLArgs \subseteq [form : Forms, n : Int]
  /\ Sec \in Nat \ {0} /\ AbsMin \in Nat \ {0}
  /\ CmdCap \in Nat \ {0} /\ DelCap \in Nat \ {0} /\ Batch \in Nat \ {0}
  /\ ArraySize \in Nat
  /\ StartTime \in Nat \ {0} /\ MaxTime \in Nat /\ MaxTimers \in Nat

Absent == -1     \* no such key; 0 is "never expires"

Times  == Nat

\* What item.key.hash_cache may hold: 0 (the hash is computed when it is
\* needed), or what was on the stack, which is trusted.
HashCaches == {"zero", "stack"}

Timers == [id : Nat, key : Keys, et : Times, hash_cache : HashCaches]

VARIABLES
  clock,    \* get_current_ms()
  store,    \* expire_time of each key in its engine, or Absent
  aof,      \* what the last logged write of each key did (encoded as `store')
  refused,  \* keys whose last logged write the engine refused (array full)
  cmdq,     \* g_cmd_queue
  heap,     \* g_heap, as the set of its timers
  held,     \* the timer popped from the heap and not yet in delq
  delq,     \* g_delete_queue
  tpc,      \* expire thread: "off", "head", "drain", "fire", "push", "exited"
  tnow,     \* its local `now'
  mpc,      \* main thread: "recovery", "serving", "deleting", "joining", "stopped"
  cnt,      \* deletions done by this call of expire_process_deletes
  untimed,  \* keys whose last SET left no timer that is sure to find the value;
            \* not in the code
  nextId    \* distinguishes timers; not in the code

storeVars  == <<store, aof, refused, untimed>>
threadVars == <<heap, held, tpc, tnow>>
vars == <<clock, storeVars, cmdq, threadVars, delq, mpc, cnt, nextId>>

-----------------------------------------------------------------------------
(* Expiry times *)

\* parse_ttl: the absolute expiry a SET's argument asks for; 0 is "never".
ParseTTL(arg, now) ==
  IF arg.form = "none" \/ arg.n <= 0 THEN 0
  ELSE IF arg.form = "PX" THEN now + arg.n
  ELSE IF arg.form = "bare" /\ arg.n >= AbsMin THEN arg.n
  ELSE now + arg.n * Sec

\* cmd_setctx: the base is time(NULL) * 1000, the clock rounded down.
CtxExpire(arg, now) ==
  IF arg.n > 0 THEN (now \div Sec) * Sec + arg.n * Sec ELSE 0

ExpiryOf(k, arg) ==
  IF k \in CtxKeys THEN CtxExpire(arg, clock) ELSE ParseTTL(arg, clock)

\* Mutant: the lazy check fires at the expiry instead of after it.
LazilyExpiredAtExpiry(k) == store[k] > 0 /\ clock >= store[k]

\* Engines: the lazy check of *_get and *_exist.
LazilyExpired(k) == store[k] > 0 /\ clock > store[k]

\* kvs_array_set of a new key when the table is full.
ArrayFull(k) ==
  /\ k \in ArrayKeys /\ store[k] = Absent
  /\ Cardinality({j \in ArrayKeys : store[j] # Absent}) >= ArraySize

\* Mutant: a SET whose expiry is not in the future registers no timer.
RegistersFutureOnly(k, et) == et > clock

\* Which SETs register a timer: cmd_array_set tests only ret == 0.
RegistersTimer(k, et) == k \in ArrayKeys \/ et > 0

-----------------------------------------------------------------------------
(* Boot: a snapshot may have been loaded (its keys get no timers), the AOF  *)
(* is replayed through the command handlers, then the thread is started.    *)

Init ==
  /\ clock = StartTime
  /\ store \in [Keys -> {Absent, 0} \cup StartTime..MaxTime]
  /\ Cardinality({k \in ArrayKeys : store[k] # Absent}) <= ArraySize
  /\ aof = store /\ refused = {}
  /\ untimed = {k \in Keys : store[k] > 0}
  /\ cmdq = << >> /\ delq = << >>
  /\ heap = {} /\ held = {} /\ tpc = "off" /\ tnow = 0
  /\ mpc = "recovery" /\ cnt = 0 /\ nextId = 1

ExpireSystemInit ==
  /\ mpc = "recovery"
  /\ mpc' = "serving" /\ tpc' = "head"
  /\ UNCHANGED <<clock, storeVars, cmdq, heap, held, tnow, delq, cnt, nextId>>

Tick ==
  /\ clock < MaxTime
  /\ clock' = clock + 1
  /\ UNCHANGED <<storeVars, cmdq, threadVars, delq, mpc, cnt, nextId>>

-----------------------------------------------------------------------------
(* Commands, executed by the main thread (in recovery: replayed). *)

Executing == mpc \in {"recovery", "serving"}

\* queue_push on g_cmd_queue: one slot of the ring stays empty.
CmdQueueFull == Len(cmdq) >= CmdCap

\* Only the hash tables look at hash_cache.
Leftovers(k) == IF k \in HashKeys THEN HashCaches ELSE {"zero"}

NewTimer(k, et, cache) == [id |-> nextId, key |-> k, et |-> et, hash_cache |-> cache]

\* expire_push_cmd: enqueue the timer; it is dropped when the queue is full or
\* the copy of the key cannot be allocated.  hash_cache is never assigned.
ExpirePushCmd(k, et) ==
  /\ nextId <= MaxTimers
  /\ nextId' = nextId + 1
  /\ \/ \E cache \in Leftovers(k) :
          /\ ~CmdQueueFull
          /\ cmdq' = Append(cmdq, NewTimer(k, et, cache))
          /\ untimed' = IF cache = "zero" THEN untimed \ {k} ELSE untimed \cup {k}
     \/ /\ cmdq' = cmdq
        /\ untimed' = untimed \cup {k}

\* SET / RSET / HSET / SSET / SETCTX: log, store, register a timer.
CmdSet(k, arg) ==
  LET et == ExpiryOf(k, arg)
  IN  /\ Executing
      /\ ~ArrayFull(k)
      /\ aof'   = [aof EXCEPT ![k] = et]
      /\ store' = [store EXCEPT ![k] = et]
      /\ refused' = refused \ {k}
      /\ IF RegistersTimer(k, et)
           THEN ExpirePushCmd(k, et)
           ELSE UNCHANGED <<cmdq, untimed, nextId>>
      /\ UNCHANGED <<clock, threadVars, delq, mpc, cnt>>

\* SET of a new key into a full array: logged, then refused.
CmdSetRefused(k, arg) ==
  /\ Executing
  /\ ArrayFull(k)
  /\ aof' = [aof EXCEPT ![k] = ExpiryOf(k, arg)]
  /\ refused' = refused \cup {k}
  /\ UNCHANGED <<clock, store, untimed, cmdq, threadVars, delq, mpc, cnt, nextId>>

\* MOD / RMOD / HMOD / SMOD: a SET that never expires and has no timer.
CmdMod(k) ==
  /\ Executing
  /\ k \notin CtxKeys
  /\ ~ArrayFull(k)
  /\ aof'   = [aof EXCEPT ![k] = 0]
  /\ store' = [store EXCEPT ![k] = 0]
  /\ refused' = refused \ {k}
  /\ UNCHANGED <<clock, untimed, cmdq, threadVars, delq, mpc, cnt, nextId>>

\* DEL / RDEL / HDEL / SDEL / DELCTX.
CmdDel(k) ==
  /\ Executing
  /\ aof'   = [aof EXCEPT ![k] = Absent]
  /\ store' = [store EXCEPT ![k] = Absent]
  /\ refused' = refused \ {k}
  /\ UNCHANGED <<clock, untimed, cmdq, threadVars, delq, mpc, cnt, nextId>>

\* GET / EXISTS of an expired key: deleted on the spot, and not logged.
CmdGetExpired(k) ==
  /\ mpc = "serving"
  /\ LazilyExpired(k)
  /\ store' = [store EXCEPT ![k] = Absent]
  /\ UNCHANGED <<clock, aof, refused, untimed, cmdq, threadVars, delq, mpc, cnt, nextId>>

-----------------------------------------------------------------------------
(* ntyco_expire_co: expire_process_deletes, then sleep.  No command runs    *)
(* between its steps; the expire thread does.                               *)

ProcessDeletesBegin ==
  /\ mpc = "serving"
  /\ mpc' = "deleting"
  /\ UNCHANGED <<clock, storeVars, cmdq, threadVars, delq, cnt, nextId>>

\* kv_data_hash_calc trusts a hash_cache that is not 0: the slot it selects is
\* that of the key or another one.
Searches(timer) == IF timer.hash_cache = "stack" THEN BOOLEAN ELSE {TRUE}

\* Mutant: any value of the key is deleted.
DelIfPresent(timer, found) == found /\ store[timer.key] # Absent

\* Mutant: the strict comparison of the lazy check is used here too.
DelIfPastExpiry(timer, found) == found /\ store[timer.key] = timer.et /\ clock > timer.et

\* engine_del_if_expired: delete only a value with the timer's expiry.
DelIfExpired(timer, found) == found /\ store[timer.key] = timer.et

\* One iteration; a deletion is logged by protocol_handle_internal_del.
ProcessDelete ==
  /\ mpc = "deleting"
  /\ cnt < Batch /\ delq # << >>
  /\ LET timer == Head(delq)
     IN  \E found \in Searches(timer) :
           IF DelIfExpired(timer, found)
             THEN /\ store' = [store EXCEPT ![timer.key] = Absent]
                  /\ aof'   = [aof EXCEPT ![timer.key] = Absent]
                  /\ refused' = refused \ {timer.key}
             ELSE UNCHANGED <<store, aof, refused>>
  /\ delq' = Tail(delq)
  /\ cnt' = cnt + 1
  /\ UNCHANGED <<clock, untimed, cmdq, threadVars, mpc, nextId>>

ProcessDeletesEnd ==
  /\ mpc = "deleting"
  /\ cnt >= Batch \/ delq = << >>
  /\ mpc' = "serving" /\ cnt' = 0      \* a local of the call
  /\ UNCHANGED <<clock, storeVars, cmdq, threadVars, delq, nextId>>

\* expire_system_destroy: clear g_expire_running and join the thread.
ExpireSystemDestroy ==
  /\ mpc = "serving"
  /\ mpc' = "joining"
  /\ UNCHANGED <<clock, storeVars, cmdq, threadVars, delq, cnt, nextId>>

Joined ==
  /\ mpc = "joining" /\ tpc = "exited"
  /\ mpc' = "stopped" /\ heap' = {}
  /\ UNCHANGED <<clock, storeVars, cmdq, held, tpc, tnow, delq, cnt, nextId>>

-----------------------------------------------------------------------------
(* expire_thread_routine *)

\* Mutant: the loop condition is dropped.
RunningForever == TRUE

Running == mpc # "joining"     \* g_expire_running, tested at the loop head only

ThreadHead ==
  /\ tpc = "head"
  /\ tpc' = IF Running THEN "drain" ELSE "exited"
  /\ UNCHANGED <<clock, storeVars, cmdq, heap, held, tnow, delq, mpc, cnt, nextId>>

ThreadDrain ==
  /\ tpc = "drain" /\ cmdq # << >>
  /\ heap' = heap \cup {Head(cmdq)}
  /\ cmdq' = Tail(cmdq)
  /\ UNCHANGED <<clock, storeVars, held, tpc, tnow, delq, mpc, cnt, nextId>>

\* The queue is empty: read the clock once for the whole firing round.
ThreadReadClock ==
  /\ tpc = "drain" /\ cmdq = << >>
  /\ tnow' = clock /\ tpc' = "fire"
  /\ UNCHANGED <<clock, storeVars, cmdq, heap, held, delq, mpc, cnt, nextId>>

\* heap_pop returns a timer with the least expiry (module TimerHeap).
IsTop(timer) == \A u \in heap : timer.et <= u.et

\* Mutant: timers fire one tick early.
DueEarly(timer) == timer.et <= tnow + 1

Due(timer) == timer.et <= tnow

ThreadFire ==
  /\ tpc = "fire"
  /\ \E timer \in heap :
       /\ IsTop(timer) /\ Due(timer)
       /\ heap' = heap \ {timer} /\ held' = {timer}
  /\ tpc' = "push"
  /\ UNCHANGED <<clock, storeVars, cmdq, tnow, delq, mpc, cnt, nextId>>

\* Spins (usleep(50)) while the queue is full.
ThreadPush ==
  /\ tpc = "push" /\ Len(delq) < DelCap
  /\ \E timer \in held : delq' = Append(delq, timer)
  /\ held' = {} /\ tpc' = "fire"
  /\ UNCHANGED <<clock, storeVars, cmdq, heap, tnow, mpc, cnt, nextId>>

ThreadRoundDone ==
  /\ tpc = "fire"
  /\ \A timer \in heap : ~Due(timer)
  /\ tpc' = "head" /\ tnow' = 0        \* a local of the loop body
  /\ UNCHANGED <<clock, storeVars, cmdq, heap, held, delq, mpc, cnt, nextId>>

-----------------------------------------------------------------------------

Thread == ThreadHead \/ ThreadDrain \/ ThreadReadClock \/ ThreadFire \/ ThreadPush \/ ThreadRoundDone

ExpireCo == ProcessDeletesBegin \/ ProcessDelete \/ ProcessDeletesEnd

Commands ==
  \E k \in Keys :
    \/ \E arg \in TTLArgs : CmdSet(k, arg) \/ CmdSetRefused(k, arg)
    \/ CmdMod(k)
    \/ CmdDel(k)
    \/ CmdGetExpired(k)

Next ==
  \/ ExpireSystemInit \/ Tick \/ Commands
  \/ ExpireCo \/ ExpireSystemDestroy \/ Joined
  \/ Thread

Spec == Init /\ [][Next]_vars

(***************************************************************************)
(* Fairness: the kernel schedules the thread, the NtyCo scheduler resumes  *)
(* the expiry coroutine each time its 1 ms sleep ends, boot finishes, time *)
(* passes and pthread_join returns once the thread has.  Clients owe       *)
(* nothing.                                                                *)
(***************************************************************************)
Fairness ==
  /\ WF_vars(Tick) /\ WF_vars(ExpireSystemInit) /\ WF_vars(Joined)
  /\ WF_vars(Thread)
  /\ WF_vars(ExpireCo)

FairSpec == Spec /\ Fairness

-----------------------------------------------------------------------------
(* Properties *)

Timed(q) == {q[i] : i \in 1..Len(q)}

\* Every timer the system holds, wherever it is.
Pending == Timed(cmdq) \cup heap \cup held \cup Timed(delq)

\* The types of the variables; the queues never exceed their rings.
TypeOK ==
  /\ clock \in Nat
  /\ store \in [Keys -> {Absent} \cup Times]
  /\ aof \in [Keys -> {Absent} \cup Times]
  /\ refused \subseteq Keys
  /\ cmdq \in Seq(Timers) /\ Len(cmdq) <= CmdCap
  /\ delq \in Seq(Timers) /\ Len(delq) <= DelCap
  /\ heap \subseteq Timers /\ held \subseteq Timers
  /\ tpc \in {"off", "head", "drain", "fire", "push", "exited"}
  /\ tnow \in Nat
  /\ mpc \in {"recovery", "serving", "deleting", "joining", "stopped"}
  /\ cnt \in Nat /\ nextId \in Nat
  /\ untimed \subseteq Keys

\* A stored value with a TTL always has a timer for exactly its expiry on
\* its way to it (queue, heap, thread or delete queue) that will search where
\* the value is.  Excepted are values whose timer was dropped (g_cmd_queue full,
\* no memory), those whose timer took its hash value from the stack, and those
\* of a snapshot.  No overwrite, MOD, DEL, stale or misled timer can consume the
\* timer the current value depends on.
EveryTTLHasTimer ==
  \A k \in Keys :
    (mpc # "stopped" /\ store[k] > 0 /\ k \notin untimed)
      => \E timer \in Pending :
           timer.key = k /\ timer.et = store[k] /\ timer.hash_cache = "zero"

\* The log and memory disagree only on values whose expiry has passed
\* (deleted by a GET or EXISTS, which does not log) and on writes a full
\* array refused after they were logged.
LogMatchesStore ==
  \A k \in Keys \ refused :
    store[k] # aof[k] => store[k] = Absent /\ aof[k] \in 1..(clock - 1)

\* No timer is ahead of its time: what the thread hands over for deletion
\* has expired by the clock.
NeverEarly ==
  /\ tnow <= clock
  /\ \A timer \in held \cup Timed(delq) : timer.et <= clock

\* The expiry coroutine deletes only values that have a TTL and whose TTL
\* has passed, whatever was overwritten since the timer was created
\* (engines other than the array, whose SET registers timers for 0).
TimerDeletesOnlyExpired ==
  [][\A k \in Keys \ ArrayKeys :
       (mpc = "deleting" /\ store[k] # Absent /\ store'[k] = Absent)
         => store[k] > 0 /\ store[k] <= clock]_vars

\* README.md:115, a key set without a timeout never times out: no step of
\* the expiry coroutine removes it.
PermanentKeysStay ==
  [][\A k \in Keys : (mpc = "deleting" /\ store[k] = 0) => store'[k] = 0]_vars

\* expire.h:42, expire_process_deletes "performs the real deletion": a timer
\* handed over for the value that is stored deletes it, in every engine.
HandedOverIsDeleted ==
  [][(delq # << >> /\ delq' = Tail(delq)) =>
       LET timer == Head(delq)
       IN  store[timer.key] = timer.et => store'[timer.key] = Absent]_vars

\* An expired value with a timer that can find it is deleted (or replaced),
\* even if no client reads it, as long as the server runs.
ExpiredKeysAreDeleted ==
  \A k \in Keys : \A e \in 1..MaxTime :
    (store[k] = e /\ k \notin untimed)
      ~> (store[k] # e \/ mpc \in {"joining", "stopped"})

\* expire_system_destroy returns, except when the thread is left waiting for
\* room in g_delete_queue, which nobody drains any more.
DestroyReturns ==
  (mpc = "joining") ~> (mpc = "stopped" \/ (tpc = "push" /\ Len(delq) = DelCap))
=============================================================================
