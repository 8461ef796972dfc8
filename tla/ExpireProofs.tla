---------------------------- MODULE ExpireProofs ----------------------------
(* Proofs about Expire, for any keys, queue sizes, TTL arguments and bounds. *)
EXTENDS Expire, TLAPS

\* Where the thread may hold a timer between heap_pop and queue_push.
HeldOnlyToPush ==
  /\ tpc = "push" => \E timer \in Timers : held = {timer}
  /\ tpc # "push" => held = {}
  /\ mpc = "recovery" => tpc = "off"

\* Outside the array engine a timer always carries a real expiry.
TimersHaveExpiry ==
  \A timer \in Pending : timer.key \notin ArrayKeys => timer.et > 0

\* The inductive invariant: the coverage of TTLs by timers needs to know that
\* the thread holds one timer at most, and that the timers it forwards are due.
IInv ==
  /\ TypeOK
  /\ HeldOnlyToPush
  /\ TimersHaveExpiry
  /\ NeverEarly
  /\ EveryTTLHasTimer
  /\ LogMatchesStore

-----------------------------------------------------------------------------
(* Queues *)

\* queue_push adds exactly the pushed timer to what the queue holds.
LEMMA TimedAppend ==
  ASSUME NEW q \in Seq(Timers), NEW timer \in Timers
  PROVE  /\ Append(q, timer) \in Seq(Timers)
         /\ Len(Append(q, timer)) = Len(q) + 1
         /\ Timed(Append(q, timer)) = Timed(q) \cup {timer}
<1>1. Len(Append(q, timer)) = Len(q) + 1 /\ Append(q, timer) \in Seq(Timers)
  OBVIOUS
<1>2. \A i \in 1..Len(q) : Append(q, timer)[i] = q[i]
  OBVIOUS
<1>3. Append(q, timer)[Len(q) + 1] = timer
  OBVIOUS
<1>4. ASSUME NEW u \in Timed(Append(q, timer)) PROVE u \in Timed(q) \cup {timer}
  <2>1. PICK i \in 1..(Len(q) + 1) : u = Append(q, timer)[i]
    BY <1>1, <1>4 DEF Timed
  <2>2. i = Len(q) + 1 \/ i \in 1..Len(q)
    BY <2>1
  <2> QED BY <2>1, <2>2, <1>2, <1>3 DEF Timed
<1>5. ASSUME NEW u \in Timed(q) \cup {timer} PROVE u \in Timed(Append(q, timer))
  <2>1. CASE u = timer
    <3>1. Len(q) + 1 \in 1..Len(Append(q, timer))
      BY <1>1
    <3> QED BY <2>1, <1>3, <3>1 DEF Timed
  <2>2. CASE u \in Timed(q)
    <3>1. PICK i \in 1..Len(q) : u = q[i]
      BY <2>2 DEF Timed
    <3>2. i \in 1..Len(Append(q, timer))
      BY <1>1
    <3> QED BY <3>1, <3>2, <1>2 DEF Timed
  <2> QED BY <1>5, <2>1, <2>2
<1> QED BY <1>1, <1>4, <1>5

\* queue_pop takes out the head and keeps all the others.
LEMMA TimedTail ==
  ASSUME NEW q \in Seq(Timers), q # << >>
  PROVE  /\ Head(q) \in Timers
         /\ Tail(q) \in Seq(Timers)
         /\ Len(Tail(q)) = Len(q) - 1
         /\ Timed(q) = {Head(q)} \cup Timed(Tail(q))
<1>1. Len(q) \in Nat /\ Len(q) > 0
  OBVIOUS
<1>2. Head(q) = q[1] /\ Head(q) \in Timers
  BY <1>1
<1>3. Tail(q) \in Seq(Timers) /\ Len(Tail(q)) = Len(q) - 1
  BY <1>1
<1>4. \A i \in 1..(Len(q) - 1) : Tail(q)[i] = q[i + 1]
  BY <1>1
<1>5. ASSUME NEW u \in Timed(q) PROVE u \in {Head(q)} \cup Timed(Tail(q))
  <2>1. PICK i \in 1..Len(q) : u = q[i]
    BY <1>5 DEF Timed
  <2>2. CASE i = 1
    BY <2>1, <2>2, <1>2
  <2>3. CASE i # 1
    <3>1. i - 1 \in 1..(Len(q) - 1) /\ (i - 1) + 1 = i
      BY <2>3, <1>1
    <3>2. Tail(q)[i - 1] = q[i]
      BY <3>1, <1>4
    <3> QED BY <2>1, <3>1, <3>2, <1>3 DEF Timed
  <2> QED BY <2>2, <2>3
<1>6. ASSUME NEW u \in {Head(q)} \cup Timed(Tail(q)) PROVE u \in Timed(q)
  <2>1. CASE u = Head(q)
    <3>1. 1 \in 1..Len(q)
      BY <1>1
    <3> QED BY <2>1, <1>2, <3>1 DEF Timed
  <2>2. CASE u \in Timed(Tail(q))
    <3>1. PICK i \in 1..(Len(q) - 1) : u = Tail(q)[i]
      BY <2>2, <1>3 DEF Timed
    <3>2. i + 1 \in 1..Len(q) /\ u = q[i + 1]
      BY <3>1, <1>1, <1>4
    <3> QED BY <3>2 DEF Timed
  <2> QED BY <1>6, <2>1, <2>2
<1> QED BY <1>2, <1>3, <1>5, <1>6

\* An empty queue holds no timer.
LEMMA TimedEmpty == Timed(<< >>) = {}
BY DEF Timed

\* The timers of a typed queue are timers.
LEMMA TimedType == ASSUME NEW q \in Seq(Timers) PROVE Timed(q) \subseteq Timers
BY DEF Timed

-----------------------------------------------------------------------------
(* Expiry times *)

\* parse_ttl and cmd_setctx never produce a negative expiry.
LEMMA ExpiryType ==
  ASSUME TypeOK, NEW k \in Keys, NEW arg \in TTLArgs
  PROVE  ExpiryOf(k, arg) \in Times
<1>0. arg \in [form : Forms, n : Int] /\ clock \in Nat /\ Sec \in Nat /\ Sec > 0 /\ AbsMin \in Nat
  BY ConstAssumption DEF TypeOK
<1>a. arg.n \in Int /\ arg.form \in Forms
  BY <1>0
<1>1. \A n \in Int : n > 0 => n * Sec \in Nat
  BY <1>0
<1>2. (clock \div Sec) \in Nat
  BY <1>0
<1>3. (clock \div Sec) * Sec \in Nat
  BY <1>0, <1>2
<1>4. CtxExpire(arg, clock) \in Nat
  BY <1>0, <1>a, <1>1, <1>3 DEF CtxExpire
<1>5. ParseTTL(arg, clock) \in Nat
  BY <1>0, <1>a, <1>1 DEF ParseTTL
<1> QED BY <1>4, <1>5 DEF ExpiryOf, Times

\* expire_push_cmd makes a timer, whatever it leaves in hash_cache.
LEMMA NewTimerType ==
  ASSUME TypeOK, NEW k \in Keys, NEW et \in Times, NEW cache \in HashCaches
  PROVE  /\ NewTimer(k, et, cache) \in Timers
         /\ NewTimer(k, et, cache).key = k
         /\ NewTimer(k, et, cache).et = et
         /\ NewTimer(k, et, cache).hash_cache = cache
BY DEF NewTimer, Timers, TypeOK

-----------------------------------------------------------------------------
(* Type correctness *)

\* The initial states are typed: snapshot keys, empty queues.
LEMMA InitTypeOK == Init => TypeOK
<1> SUFFICES ASSUME Init PROVE TypeOK
  OBVIOUS
<1>1. StartTime \in Nat /\ MaxTime \in Nat
  BY ConstAssumption
<1>2. {Absent, 0} \cup StartTime..MaxTime \subseteq {Absent} \cup Times
  BY <1>1 DEF Times
<1>3. store \in [Keys -> {Absent} \cup Times] /\ aof = store
  BY <1>2 DEF Init
<1>4. untimed \subseteq Keys
  BY DEF Init
<1>5. << >> \in Seq(Timers) /\ Len(<< >>) = 0 /\ CmdCap \in Nat /\ DelCap \in Nat
  BY ConstAssumption
<1> QED BY <1>1, <1>3, <1>4, <1>5 DEF Init, TypeOK

\* Every command and every step of the expire thread keeps the types and the
\* capacities of the two rings.
LEMMA StepTypeOK == TypeOK /\ [Next]_vars => TypeOK'
<1> SUFFICES ASSUME TypeOK, [Next]_vars PROVE TypeOK'
  OBVIOUS
<1>0. CmdCap \in Nat /\ DelCap \in Nat /\ 0 \in Times /\ Absent \in {Absent} \cup Times
  BY ConstAssumption DEF Times
<1>1. CASE ExpireSystemInit \/ Tick \/ ExpireSystemDestroy \/ Joined
  BY <1>1 DEF ExpireSystemInit, Tick, ExpireSystemDestroy, Joined, TypeOK, storeVars, threadVars
<1>2. ASSUME NEW k \in Keys, NEW arg \in TTLArgs, CmdSet(k, arg) PROVE TypeOK'
  <2> DEFINE et == ExpiryOf(k, arg)
  <2>1. et \in Times
    BY ExpiryType
  <2>2. store' \in [Keys -> {Absent} \cup Times] /\ aof' \in [Keys -> {Absent} \cup Times]
    BY <1>2, <2>1 DEF CmdSet, TypeOK
  <2>3. CASE RegistersTimer(k, et)
    <3>1. ExpirePushCmd(k, et)
      BY <1>2, <2>3 DEF CmdSet
    <3>2. untimed' \subseteq Keys /\ nextId' \in Nat
      BY <3>1 DEF ExpirePushCmd, TypeOK
    <3>3. cmdq' \in Seq(Timers) /\ Len(cmdq') <= CmdCap
      <4>1. CASE cmdq' = cmdq
        BY <4>1 DEF TypeOK
      <4>2. ASSUME NEW cache \in HashCaches, ~CmdQueueFull, cmdq' = Append(cmdq, NewTimer(k, et, cache))
            PROVE  cmdq' \in Seq(Timers) /\ Len(cmdq') <= CmdCap
        BY <4>2, <2>1, <1>0, NewTimerType, TimedAppend DEF CmdQueueFull, TypeOK
      <4> QED BY <3>1, <4>1, <4>2 DEF ExpirePushCmd, Leftovers, HashCaches
    <3> QED BY <1>2, <2>2, <3>2, <3>3 DEF CmdSet, TypeOK, threadVars
  <2>4. CASE ~RegistersTimer(k, et)
    BY <1>2, <2>2, <2>4 DEF CmdSet, TypeOK, threadVars
  <2> QED BY <2>3, <2>4
<1>3. ASSUME NEW k \in Keys, NEW arg \in TTLArgs, CmdSetRefused(k, arg) PROVE TypeOK'
  <2>1. ExpiryOf(k, arg) \in Times
    BY ExpiryType
  <2> QED BY <1>3, <2>1 DEF CmdSetRefused, TypeOK, threadVars
<1>4. ASSUME NEW k \in Keys, CmdMod(k) PROVE TypeOK'
  BY <1>4, <1>0 DEF CmdMod, TypeOK, threadVars
<1>5. ASSUME NEW k \in Keys, CmdDel(k) PROVE TypeOK'
  BY <1>5, <1>0 DEF CmdDel, TypeOK, threadVars
<1>6. ASSUME NEW k \in Keys, CmdGetExpired(k) PROVE TypeOK'
  BY <1>6, <1>0 DEF CmdGetExpired, TypeOK, threadVars
<1>7. CASE ProcessDeletesBegin \/ ProcessDeletesEnd
  BY <1>7 DEF ProcessDeletesBegin, ProcessDeletesEnd, TypeOK, storeVars, threadVars
<1>8. CASE ProcessDelete
  <2> DEFINE timer == Head(delq)
  <2>1. /\ timer \in Timers /\ Tail(delq) \in Seq(Timers) /\ Len(Tail(delq)) = Len(delq) - 1
    BY <1>8, TimedTail DEF ProcessDelete, TypeOK
  <2>2. timer.key \in Keys
    BY <2>1 DEF Timers
  <2>3. delq' \in Seq(Timers) /\ Len(delq') <= DelCap
    BY <1>8, <2>1, <1>0 DEF ProcessDelete, TypeOK
  <2>4. /\ store' \in [Keys -> {Absent} \cup Times] /\ aof' \in [Keys -> {Absent} \cup Times]
        /\ refused' \subseteq Keys
    BY <1>8, <1>0, <2>2 DEF ProcessDelete, TypeOK
  <2> QED BY <1>8, <2>3, <2>4 DEF ProcessDelete, TypeOK, threadVars
<1>9. CASE ThreadHead \/ ThreadReadClock \/ ThreadRoundDone \/ ThreadFire
  BY <1>9 DEF ThreadHead, ThreadReadClock, ThreadRoundDone, ThreadFire, TypeOK, storeVars
<1>10. CASE ThreadDrain
  <2>1. /\ Head(cmdq) \in Timers /\ Tail(cmdq) \in Seq(Timers) /\ Len(Tail(cmdq)) = Len(cmdq) - 1
    BY <1>10, TimedTail DEF ThreadDrain, TypeOK
  <2> QED BY <1>10, <2>1, <1>0 DEF ThreadDrain, TypeOK, storeVars
<1>11. CASE ThreadPush
  <2>1. PICK timer \in held : delq' = Append(delq, timer)
    BY <1>11 DEF ThreadPush
  <2>2. delq' \in Seq(Timers) /\ Len(delq') <= DelCap
    BY <1>11, <2>1, <1>0, TimedAppend DEF ThreadPush, TypeOK
  <2> QED BY <1>11, <2>2 DEF ThreadPush, TypeOK, storeVars
<1>12. CASE UNCHANGED vars
  BY <1>12 DEF vars, TypeOK, storeVars, threadVars
<1> QED
  BY <1>1, <1>2, <1>3, <1>4, <1>5, <1>6, <1>7, <1>8, <1>9, <1>10, <1>11, <1>12
  DEF Next, Commands, ExpireCo, Thread

\* The variables keep their types and neither ring of expire.c is ever
\* filled past its capacity.
THEOREM TypeCorrect == Spec => []TypeOK
BY InitTypeOK, StepTypeOK, PTL DEF Spec

-----------------------------------------------------------------------------
(* How a step changes the timers the system holds *)

\* expire_thread_routine holds a timer only between heap_pop and queue_push.
LEMMA StepHeld == TypeOK /\ HeldOnlyToPush /\ [Next]_vars => HeldOnlyToPush'
<1> SUFFICES ASSUME TypeOK, HeldOnlyToPush, [Next]_vars PROVE HeldOnlyToPush'
  OBVIOUS
<1>1. CASE UNCHANGED <<held, tpc>> /\ mpc' # "recovery"
  BY <1>1 DEF HeldOnlyToPush
<1>2. CASE UNCHANGED <<held, tpc, mpc>>
  BY <1>2 DEF HeldOnlyToPush
<1>3. CASE ThreadFire
  <2>1. PICK timer \in heap : held' = {timer}
    BY <1>3 DEF ThreadFire
  <2>2. timer \in Timers
    BY <2>1 DEF TypeOK
  <2> QED BY <1>3, <2>1, <2>2 DEF ThreadFire, HeldOnlyToPush
<1>4. CASE ThreadPush
  BY <1>4 DEF ThreadPush, HeldOnlyToPush
<1>5. CASE ThreadHead \/ ThreadReadClock \/ ThreadRoundDone
  BY <1>5 DEF ThreadHead, ThreadReadClock, ThreadRoundDone, HeldOnlyToPush
<1>6. CASE ExpireSystemInit
  BY <1>6 DEF ExpireSystemInit, HeldOnlyToPush
<1>7. CASE Commands \/ Tick \/ ProcessDelete \/ ThreadDrain \/ UNCHANGED vars
  BY <1>7, <1>2
  DEF Commands, vars, threadVars, Tick, ThreadDrain, ProcessDelete,
      CmdSet, CmdSetRefused, CmdMod, CmdDel, CmdGetExpired
<1>8. CASE ProcessDeletesBegin \/ ProcessDeletesEnd \/ ExpireSystemDestroy \/ Joined
  BY <1>8, <1>1 DEF threadVars, ProcessDeletesBegin, ProcessDeletesEnd, ExpireSystemDestroy, Joined
<1> QED
  BY <1>3, <1>4, <1>5, <1>6, <1>7, <1>8 DEF Next, ExpireCo, Thread

\* A step of the expire thread moves timers and neither loses nor invents one.
LEMMA ThreadKeepsPending ==
  ASSUME TypeOK, HeldOnlyToPush, Thread
  PROVE  Pending' = Pending
<1>1. CASE ThreadHead \/ ThreadReadClock \/ ThreadRoundDone
  BY <1>1 DEF ThreadHead, ThreadReadClock, ThreadRoundDone, Pending, Timed
<1>2. CASE ThreadDrain
  <2>1. Timed(cmdq) = {Head(cmdq)} \cup Timed(cmdq')
    BY <1>2, TimedTail DEF ThreadDrain, TypeOK
  <2>2. heap' = heap \cup {Head(cmdq)} /\ held' = held /\ Timed(delq)' = Timed(delq)
    BY <1>2 DEF ThreadDrain, Timed
  <2>3. Timed(cmdq)' = Timed(cmdq')
    BY DEF Timed
  <2> QED BY <2>1, <2>2, <2>3 DEF Pending
<1>3. CASE ThreadFire
  <2>1. PICK timer \in heap : heap' = heap \ {timer} /\ held' = {timer}
    BY <1>3 DEF ThreadFire
  <2>2. held = {}
    BY <1>3 DEF ThreadFire, HeldOnlyToPush
  <2>3. Timed(cmdq)' = Timed(cmdq) /\ Timed(delq)' = Timed(delq)
    BY <1>3 DEF ThreadFire, Timed
  <2> QED BY <2>1, <2>2, <2>3 DEF Pending
<1>4. CASE ThreadPush
  <2>1. PICK timer \in Timers : held = {timer}
    BY <1>4 DEF ThreadPush, HeldOnlyToPush
  <2>2. delq' = Append(delq, timer) /\ held' = {} /\ heap' = heap
    BY <1>4, <2>1 DEF ThreadPush
  <2>3. Timed(delq') = Timed(delq) \cup {timer}
    BY <2>2, TimedAppend DEF TypeOK
  <2>4. Timed(cmdq)' = Timed(cmdq) /\ Timed(delq)' = Timed(delq')
    BY <1>4 DEF ThreadPush, Timed
  <2> QED BY <2>1, <2>2, <2>3, <2>4 DEF Pending
<1> QED BY <1>1, <1>2, <1>3, <1>4 DEF Thread

\* A SET adds its own timer or none; nothing pending is lost.
LEMMA SetPending ==
  ASSUME TypeOK, NEW k \in Keys, NEW arg \in TTLArgs, CmdSet(k, arg)
  PROVE  LET et == ExpiryOf(k, arg)
         IN  \/ \E cache \in HashCaches :
                  /\ RegistersTimer(k, et)
                  /\ Pending' = Pending \cup {NewTimer(k, et, cache)}
                  /\ untimed' = IF cache = "zero" THEN untimed \ {k} ELSE untimed \cup {k}
             \/ RegistersTimer(k, et) /\ Pending' = Pending /\ untimed' = untimed \cup {k}
             \/ ~RegistersTimer(k, et) /\ Pending' = Pending /\ untimed' = untimed
<1> DEFINE et == ExpiryOf(k, arg)
<1>1. et \in Times
  BY ExpiryType
<1>2. heap' = heap /\ held' = held /\ Timed(delq)' = Timed(delq)
  BY DEF CmdSet, threadVars, Timed
<1>3. ASSUME NEW cache \in HashCaches, RegistersTimer(k, et),
             cmdq' = Append(cmdq, NewTimer(k, et, cache))
      PROVE  Pending' = Pending \cup {NewTimer(k, et, cache)}
  <2>1. Timed(cmdq') = Timed(cmdq) \cup {NewTimer(k, et, cache)}
    BY <1>1, <1>3, NewTimerType, TimedAppend DEF TypeOK
  <2>2. Timed(cmdq)' = Timed(cmdq')
    BY DEF Timed
  <2> QED BY <1>2, <2>1, <2>2 DEF Pending
<1>4. ASSUME cmdq' = cmdq PROVE Pending' = Pending
  BY <1>2, <1>4 DEF Pending, Timed
<1>5. CASE RegistersTimer(k, et)
  <2>1. ExpirePushCmd(k, et)
    BY <1>5 DEF CmdSet
  <2> QED BY <1>3, <1>4, <1>5, <2>1 DEF ExpirePushCmd, Leftovers, HashCaches
<1>6. CASE ~RegistersTimer(k, et)
  BY <1>4, <1>6 DEF CmdSet
<1> QED BY <1>5, <1>6

\* expire_process_deletes consumes the head of the delete queue only.
LEMMA DeletePending ==
  ASSUME TypeOK, ProcessDelete
  PROVE  /\ Head(delq) \in Timers
         /\ Pending = Pending' \cup {Head(delq)}
         /\ Head(delq) \in Timed(delq)
         /\ Timed(delq)' \subseteq Timed(delq)
<1>1. Head(delq) \in Timers /\ Timed(delq) = {Head(delq)} \cup Timed(delq')
  BY TimedTail DEF ProcessDelete, TypeOK
<1>2. Timed(delq)' = Timed(delq') /\ Timed(cmdq)' = Timed(cmdq) /\ heap' = heap /\ held' = held
  BY DEF ProcessDelete, threadVars, Timed
<1> QED BY <1>1, <1>2 DEF Pending

\* All other steps keep the pending timers, but for the join that frees them.
LEMMA OtherPending ==
  ASSUME TypeOK,
         \/ ExpireSystemInit \/ Tick \/ ExpireSystemDestroy
         \/ ProcessDeletesBegin \/ ProcessDeletesEnd
         \/ \E k \in Keys : CmdMod(k) \/ CmdDel(k) \/ CmdGetExpired(k)
         \/ \E k \in Keys, arg \in TTLArgs : CmdSetRefused(k, arg)
         \/ UNCHANGED vars
  PROVE  Pending' = Pending /\ Timed(delq)' = Timed(delq) /\ held' = held
                            /\ untimed' = untimed
BY DEF ExpireSystemInit, Tick, ExpireSystemDestroy, ProcessDeletesBegin, ProcessDeletesEnd,
       CmdMod, CmdDel, CmdGetExpired, CmdSetRefused, vars, storeVars, threadVars, Pending, Timed

-----------------------------------------------------------------------------
(* The inductive invariant *)

\* The inductive invariant holds when the process starts.
LEMMA InitIInv == Init => IInv
<1> SUFFICES ASSUME Init PROVE IInv
  OBVIOUS
<1>1. TypeOK
  BY InitTypeOK
<1>2. Timed(cmdq) = {} /\ Timed(delq) = {} /\ heap = {} /\ held = {}
  BY TimedEmpty DEF Init
<1>3. HeldOnlyToPush /\ TimersHaveExpiry
  BY <1>2 DEF Init, HeldOnlyToPush, TimersHaveExpiry, Pending
<1>4. NeverEarly
  BY <1>1, <1>2 DEF Init, NeverEarly, TypeOK
<1>5. EveryTTLHasTimer /\ LogMatchesStore
  BY DEF Init, EveryTTLHasTimer, LogMatchesStore
<1> QED BY <1>1, <1>3, <1>4, <1>5 DEF IInv

\* Outside the array, expire_push_cmd is called only with an expiry.
LEMMA StepTimersHaveExpiry == IInv /\ [Next]_vars => TimersHaveExpiry'
<1> SUFFICES ASSUME IInv, [Next]_vars PROVE TimersHaveExpiry'
  OBVIOUS
<1> USE DEF IInv
<1>1. CASE Pending' \subseteq Pending
  BY <1>1 DEF TimersHaveExpiry
<1>2. ASSUME NEW k \in Keys, NEW arg \in TTLArgs, CmdSet(k, arg) PROVE TimersHaveExpiry'
  <2> DEFINE et == ExpiryOf(k, arg)
  <2>1. CASE Pending' = Pending
    BY <2>1, <1>1
  <2>2. ASSUME NEW cache \in HashCaches, RegistersTimer(k, et),
               Pending' = Pending \cup {NewTimer(k, et, cache)}
        PROVE  TimersHaveExpiry'
    <3>1. NewTimer(k, et, cache).key = k /\ NewTimer(k, et, cache).et = et
      BY DEF NewTimer
    <3>2. k \notin ArrayKeys => et > 0
      BY <2>2 DEF RegistersTimer
    <3> QED BY <2>2, <3>1, <3>2 DEF TimersHaveExpiry
  <2> QED BY <1>2, <2>1, <2>2, SetPending
<1>3. CASE Thread
  BY <1>3, <1>1, ThreadKeepsPending
<1>4. CASE ProcessDelete
  BY <1>4, <1>1, DeletePending
<1>5. CASE Joined
  <2>1. Pending' \subseteq Pending
    BY <1>5 DEF Joined, Pending, Timed
  <2> QED BY <2>1, <1>1
<1> QED
  BY <1>1, <1>2, <1>3, <1>4, <1>5, OtherPending DEF Next, Commands, ExpireCo

\* The firing loop hands over only timers its reading of the clock has passed.
LEMMA StepNeverEarly == IInv /\ [Next]_vars => NeverEarly'
<1> SUFFICES ASSUME IInv, [Next]_vars PROVE NeverEarly'
  OBVIOUS
<1> USE DEF IInv
<1>0. clock \in Nat /\ tnow \in Nat /\ clock' \in Nat /\ tnow <= clock /\ heap \subseteq Timers
  BY StepTypeOK DEF NeverEarly, TypeOK
<1>a. \A timer \in held \cup Timed(delq) : timer.et \in Nat
  BY TimedType DEF TypeOK, Timers, Times
<1>1. CASE /\ tnow' = tnow /\ clock' >= clock
           /\ held' \cup Timed(delq)' \subseteq held \cup Timed(delq)
  BY <1>0, <1>a, <1>1 DEF NeverEarly
<1>2. CASE Tick
  <2>1. tnow' = tnow /\ clock' >= clock /\ held' = held
    BY <1>2, <1>0 DEF Tick, threadVars
  <2> QED BY <2>1, <1>1, <1>2, OtherPending
<1>3. CASE ThreadFire
  <2>1. PICK timer \in heap : timer.et <= tnow /\ held' = {timer}
    BY <1>3 DEF ThreadFire, Due
  <2>2. timer.et \in Nat
    BY <2>1, <1>0 DEF Timers, Times
  <2>3. timer.et <= clock
    BY <2>1, <2>2, <1>0
  <2>4. clock' = clock /\ tnow' = tnow /\ Timed(delq)' = Timed(delq)
    BY <1>3 DEF ThreadFire, Timed
  <2> QED BY <2>1, <2>3, <2>4 DEF NeverEarly
<1>4. CASE ThreadPush
  <2>1. PICK timer \in held : delq' = Append(delq, timer)
    BY <1>4 DEF ThreadPush
  <2>2. Timed(delq') = Timed(delq) \cup {timer}
    BY <2>1, TimedAppend DEF TypeOK
  <2>3. clock' = clock /\ tnow' = tnow /\ held' = {} /\ Timed(delq)' = Timed(delq')
    BY <1>4 DEF ThreadPush, Timed
  <2> QED BY <2>1, <2>2, <2>3, <1>0, <1>1
<1>5. CASE ThreadReadClock \/ ThreadRoundDone
  <2>1. tnow' <= clock /\ clock' = clock /\ held' = held /\ Timed(delq)' = Timed(delq)
    BY <1>5, <1>0 DEF ThreadReadClock, ThreadRoundDone, Timed
  <2> QED BY <2>1 DEF NeverEarly
<1>6. CASE ThreadHead \/ ThreadDrain \/ Joined
  <2>1. tnow' = tnow /\ clock' = clock /\ held' = held /\ Timed(delq)' = Timed(delq)
    BY <1>6 DEF ThreadHead, ThreadDrain, Joined, Timed
  <2> QED BY <2>1, <1>0, <1>1
<1>7. CASE ProcessDelete
  <2>1. tnow' = tnow /\ clock' = clock /\ held' = held
    BY <1>7 DEF ProcessDelete, threadVars
  <2> QED BY <2>1, <1>0, <1>1, <1>7, DeletePending
<1>8. ASSUME NEW k \in Keys, NEW arg \in TTLArgs, CmdSet(k, arg) PROVE NeverEarly'
  <2>1. tnow' = tnow /\ clock' = clock /\ held' = held /\ Timed(delq)' = Timed(delq)
    BY <1>8 DEF CmdSet, threadVars, Timed
  <2> QED BY <2>1, <1>0, <1>1
<1>9. CASE \/ ExpireSystemInit \/ ExpireSystemDestroy
           \/ ProcessDeletesBegin \/ ProcessDeletesEnd
           \/ \E k \in Keys : CmdMod(k) \/ CmdDel(k) \/ CmdGetExpired(k)
           \/ \E k \in Keys, arg \in TTLArgs : CmdSetRefused(k, arg)
           \/ UNCHANGED vars
  <2>1. tnow' = tnow /\ clock' = clock
    BY <1>9 DEF ExpireSystemInit, ExpireSystemDestroy, ProcessDeletesBegin, ProcessDeletesEnd,
       CmdMod, CmdDel, CmdGetExpired, CmdSetRefused, vars, threadVars
  <2> QED BY <2>1, <1>9, <1>0, <1>1, OtherPending
<1> QED
  BY <1>2, <1>3, <1>4, <1>5, <1>6, <1>7, <1>8, <1>9 DEF Next, Commands, ExpireCo, Thread

\* A step that changes no stored value and loses no timer keeps coverage.
LEMMA CoverStutter ==
  ASSUME IInv, store' = store, untimed' = untimed, Pending \subseteq Pending',
         mpc' # "stopped" => mpc # "stopped"
  PROVE  EveryTTLHasTimer'
BY DEF IInv, EveryTTLHasTimer

\* No step takes away the timer a stored value depends on.
LEMMA StepCover == IInv /\ [Next]_vars => EveryTTLHasTimer'
<1> SUFFICES ASSUME IInv, [Next]_vars PROVE EveryTTLHasTimer'
  OBVIOUS
<1>0. TypeOK /\ HeldOnlyToPush /\ EveryTTLHasTimer
  BY DEF IInv
<1>1. ASSUME NEW k \in Keys, NEW arg \in TTLArgs, CmdSet(k, arg) PROVE EveryTTLHasTimer'
  <2> DEFINE et == ExpiryOf(k, arg)
  <2>1. store' = [store EXCEPT ![k] = et] /\ mpc' = mpc /\ mpc # "stopped"
    BY <1>1 DEF CmdSet, Executing
  <2>2. Pending \subseteq Pending'
    BY <1>0, <1>1, SetPending
  <2> SUFFICES ASSUME NEW j \in Keys, store'[j] > 0, j \notin untimed'
               PROVE  \E u \in Pending' : u.key = j /\ u.et = store'[j] /\ u.hash_cache = "zero"
    BY DEF EveryTTLHasTimer
  <2>3. CASE j = k
    <3>1. store'[j] = et
      BY <2>1, <2>3, <1>0 DEF TypeOK
    <3>2. RegistersTimer(k, et)
      BY <3>1 DEF RegistersTimer
    <3>3. NewTimer(k, et, "zero") \in Pending'
      BY <1>0, <1>1, <2>3, <3>2, SetPending
    <3> QED BY <3>1, <3>3, <2>3 DEF NewTimer
  <2>4. CASE j # k
    <3>1. store'[j] = store[j]
      BY <2>1, <2>4, <1>0 DEF TypeOK
    <3>2. j \notin untimed
      BY <1>0, <1>1, <2>4, SetPending
    <3> QED BY <3>1, <3>2, <2>1, <2>2, <1>0 DEF EveryTTLHasTimer
  <2> QED BY <2>3, <2>4
<1>2. ASSUME NEW k \in Keys, CmdMod(k) \/ CmdDel(k) \/ CmdGetExpired(k) PROVE EveryTTLHasTimer'
  <2>1. /\ store' = [store EXCEPT ![k] = 0] \/ store' = [store EXCEPT ![k] = Absent]
        /\ mpc' = mpc
    BY <1>2 DEF CmdMod, CmdDel, CmdGetExpired
  <2>2. Pending' = Pending /\ untimed' = untimed
    BY <1>0, <1>2, OtherPending
  <2>3. \A j \in Keys : store'[j] > 0 => j # k /\ store'[j] = store[j]
    BY <2>1, <1>0 DEF TypeOK, Absent
  <2> QED BY <1>0, <2>1, <2>2, <2>3 DEF EveryTTLHasTimer
<1>3. CASE ProcessDelete
  <2> DEFINE timer == Head(delq)
  <2>1. timer \in Timers /\ Pending = Pending' \cup {timer}
    BY <1>0, <1>3, DeletePending
  <2>2. timer.key \in Keys
    BY <2>1 DEF Timers
  <2>3. untimed' = untimed /\ mpc' = mpc /\ mpc # "stopped"
    BY <1>3 DEF ProcessDelete
  <2> SUFFICES ASSUME NEW j \in Keys, store'[j] > 0, j \notin untimed'
               PROVE  \E u \in Pending' : u.key = j /\ u.et = store'[j] /\ u.hash_cache = "zero"
    BY DEF EveryTTLHasTimer
  <2>4. PICK found \in Searches(timer) :
          IF DelIfExpired(timer, found)
            THEN store' = [store EXCEPT ![timer.key] = Absent]
            ELSE store' = store
    BY <1>3 DEF ProcessDelete
  <2>5. CASE DelIfExpired(timer, found)
    <3>1. j # timer.key /\ store'[j] = store[j]
      BY <2>2, <2>4, <2>5, <1>0 DEF TypeOK, Absent
    <3>2. PICK u \in Pending : u.key = j /\ u.et = store[j] /\ u.hash_cache = "zero"
      BY <3>1, <2>3, <1>0 DEF EveryTTLHasTimer
    <3> QED BY <3>1, <3>2, <2>1
  <2>6. CASE ~DelIfExpired(timer, found)
    <3>1. store' = store
      BY <2>4, <2>6
    <3>2. PICK u \in Pending : u.key = j /\ u.et = store[j] /\ u.hash_cache = "zero"
      BY <3>1, <2>3, <1>0 DEF EveryTTLHasTimer
    <3>3. u # timer
      BY <3>2, <2>6 DEF DelIfExpired, Searches
    <3> QED BY <3>1, <3>2, <3>3, <2>1
  <2> QED BY <2>5, <2>6
<1>4. CASE Thread
  <2>1. Pending' = Pending
    BY <1>0, <1>4, ThreadKeepsPending
  <2>2. store' = store /\ untimed' = untimed /\ mpc' = mpc
    BY <1>4 DEF Thread, ThreadHead, ThreadDrain, ThreadReadClock, ThreadFire, ThreadPush,
                ThreadRoundDone, storeVars
  <2> QED BY <2>1, <2>2, CoverStutter
<1>5. CASE Joined
  BY <1>5 DEF Joined, EveryTTLHasTimer
<1>6. CASE \/ ExpireSystemInit \/ Tick \/ ExpireSystemDestroy
           \/ ProcessDeletesBegin \/ ProcessDeletesEnd
           \/ \E k \in Keys, arg \in TTLArgs : CmdSetRefused(k, arg)
           \/ UNCHANGED vars
  <2>1. Pending' = Pending /\ untimed' = untimed
    BY <1>0, <1>6, OtherPending
  <2>2. store' = store /\ (mpc' # "stopped" => mpc # "stopped")
    BY <1>6 DEF ExpireSystemInit, Tick, ExpireSystemDestroy, ProcessDeletesBegin,
                ProcessDeletesEnd, CmdSetRefused, vars, storeVars
  <2> QED BY <2>1, <2>2, CoverStutter
<1> QED
  BY <1>1, <1>2, <1>3, <1>4, <1>5, <1>6 DEF Next, Commands, ExpireCo

\* Every step writes the log and the engine alike, but for the lazy deletes.
LEMMA StepLog == IInv /\ [Next]_vars => LogMatchesStore'
<1> SUFFICES ASSUME IInv, [Next]_vars PROVE LogMatchesStore'
  OBVIOUS
<1>0. TypeOK /\ LogMatchesStore /\ clock \in Nat
  BY DEF IInv, TypeOK
<1>1. CASE UNCHANGED <<store, aof, refused, clock>>
  BY <1>0, <1>1 DEF LogMatchesStore
<1>2. CASE Tick
  BY <1>0, <1>2 DEF Tick, storeVars, LogMatchesStore
<1>3. ASSUME NEW k \in Keys, NEW v,
             store' = [store EXCEPT ![k] = v], aof' = [aof EXCEPT ![k] = v],
             refused' = refused \ {k}, clock' = clock
      PROVE  LogMatchesStore'
  <2>1. store'[k] = aof'[k]
    BY <1>0, <1>3 DEF TypeOK
  <2>2. \A j \in Keys : j # k => store'[j] = store[j] /\ aof'[j] = aof[j]
    BY <1>0, <1>3 DEF TypeOK
  <2> QED BY <1>0, <1>3, <2>1, <2>2 DEF LogMatchesStore
<1>4. ASSUME NEW k \in Keys, NEW arg \in TTLArgs, CmdSet(k, arg) PROVE LogMatchesStore'
  BY <1>3, <1>4 DEF CmdSet
<1>5. ASSUME NEW k \in Keys, CmdMod(k) \/ CmdDel(k) PROVE LogMatchesStore'
  BY <1>3, <1>5 DEF CmdMod, CmdDel
<1>6. ASSUME NEW k \in Keys, NEW arg \in TTLArgs, CmdSetRefused(k, arg) PROVE LogMatchesStore'
  BY <1>0, <1>6 DEF CmdSetRefused, LogMatchesStore, TypeOK
<1>7. ASSUME NEW k \in Keys, CmdGetExpired(k) PROVE LogMatchesStore'
  <2>1. store[k] > 0 /\ clock > store[k] /\ store[k] \in Nat
    BY <1>0, <1>7 DEF CmdGetExpired, LazilyExpired, TypeOK, Absent, Times
  <2>2. k \notin refused => aof[k] = store[k]
    BY <1>0, <2>1 DEF LogMatchesStore, Absent
  <2>3. store[k] \in 1..(clock - 1)
    BY <1>0, <2>1
  <2>4. store' = [store EXCEPT ![k] = Absent] /\ UNCHANGED <<aof, refused, clock>>
    BY <1>7 DEF CmdGetExpired
  <2>5. store'[k] = Absent /\ \A j \in Keys : j # k => store'[j] = store[j]
    BY <1>0, <2>4 DEF TypeOK
  <2> QED BY <1>0, <2>2, <2>3, <2>4, <2>5 DEF LogMatchesStore
<1>8. CASE ProcessDelete
  <2>1. Head(delq) \in Timers
    BY <1>0, <1>8, DeletePending
  <2>2. Head(delq).key \in Keys
    BY <2>1 DEF Timers
  <2>3. CASE /\ store' = [store EXCEPT ![Head(delq).key] = Absent]
             /\ aof'   = [aof EXCEPT ![Head(delq).key] = Absent]
             /\ refused' = refused \ {Head(delq).key}
    BY <1>3, <1>8, <2>2, <2>3 DEF ProcessDelete
  <2>4. CASE UNCHANGED <<store, aof, refused>>
    BY <1>1, <1>8, <2>4 DEF ProcessDelete
  <2> QED BY <1>8, <2>3, <2>4 DEF ProcessDelete
<1>9. CASE \/ Thread \/ ExpireSystemInit \/ ExpireSystemDestroy \/ Joined
           \/ ProcessDeletesBegin \/ ProcessDeletesEnd \/ UNCHANGED vars
  <2>1. UNCHANGED <<store, aof, refused, clock>>
    BY <1>9 DEF Thread, ThreadHead, ThreadDrain, ThreadReadClock, ThreadFire, ThreadPush,
                ThreadRoundDone, ExpireSystemInit, ExpireSystemDestroy, Joined,
                ProcessDeletesBegin, ProcessDeletesEnd, vars, storeVars
  <2> QED BY <1>1, <2>1
<1> QED
  BY <1>2, <1>4, <1>5, <1>6, <1>7, <1>8, <1>9 DEF Next, Commands, ExpireCo

\* The inductive invariant holds in every reachable state.
LEMMA Inductive == Spec => []IInv
<1>1. IInv /\ [Next]_vars => IInv'
  BY StepTypeOK, StepHeld, StepTimersHaveExpiry, StepNeverEarly, StepCover, StepLog DEF IInv
<1> QED BY InitIInv, <1>1, PTL DEF Spec

-----------------------------------------------------------------------------
(* The results *)

\* A value with a TTL never loses the timer that will find it, if its SET
\* registered one (room in g_cmd_queue, memory, a hash_cache that was 0 for a
\* key of a hash table): for any interleaving of clients and threads.
THEOREM TTLCovered == Spec => []EveryTTLHasTimer
<1>1. IInv => EveryTTLHasTimer
  BY DEF IInv
<1> QED BY Inductive, <1>1, PTL

\* The log differs from memory only by lazily deleted, expired values and by
\* writes a full array refused.
THEOREM LogAgrees == Spec => []LogMatchesStore
<1>1. IInv => LogMatchesStore
  BY DEF IInv
<1> QED BY Inductive, <1>1, PTL

\* What the thread forwards for deletion is due.
THEOREM ForwardedAreDue == Spec => []NeverEarly
<1>1. IInv => NeverEarly
  BY DEF IInv
<1> QED BY Inductive, <1>1, PTL

\* Outside the array engine the expiry coroutine never deletes a value that
\* has no TTL or whose TTL has not passed, however stale the timer is.
THEOREM OnlyExpiredDeleted == Spec => TimerDeletesOnlyExpired
<1>1. IInv /\ [Next]_vars
      => [\A k \in Keys \ ArrayKeys :
            (mpc = "deleting" /\ store[k] # Absent /\ store'[k] = Absent)
              => store[k] > 0 /\ store[k] <= clock]_vars
  <2> SUFFICES ASSUME IInv, [Next]_vars, NEW k \in Keys \ ArrayKeys,
                      mpc = "deleting", store[k] # Absent, store'[k] = Absent
               PROVE  store[k] > 0 /\ store[k] <= clock
    OBVIOUS
  <2> USE DEF IInv
  <2>1. ProcessDelete \/ store' = store
    BY DEF Next, Commands, Executing, CmdSet, CmdSetRefused, CmdMod, CmdDel, CmdGetExpired,
           ExpireCo, ProcessDeletesBegin, ProcessDeletesEnd, ExpireSystemInit, Tick,
           ExpireSystemDestroy, Joined, Thread, ThreadHead, ThreadDrain, ThreadReadClock,
           ThreadFire, ThreadPush, ThreadRoundDone, storeVars, vars
  <2>2. CASE ProcessDelete
    <3> DEFINE timer == Head(delq)
    <3>1. timer \in Timers /\ timer \in Timed(delq)
      BY <2>2, DeletePending
    <3>2. store[timer.key] = timer.et /\ store' = [store EXCEPT ![timer.key] = Absent]
      BY <2>2 DEF ProcessDelete, DelIfExpired
    <3>3. timer.key = k
      BY <3>2 DEF TypeOK
    <3>4. timer.et > 0
      BY <3>1, <3>3 DEF TimersHaveExpiry, Pending
    <3>5. timer.et <= clock
      BY <3>1 DEF NeverEarly
    <3> QED BY <3>2, <3>3, <3>4, <3>5
  <2> QED BY <2>1, <2>2
<1> QED BY Inductive, <1>1, PTL DEF Spec, TimerDeletesOnlyExpired
=============================================================================
