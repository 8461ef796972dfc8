------------------------------ MODULE AofProofs ------------------------------
(***************************************************************************)
(* Proofs about Aof, for buffers, thresholds and commands of every size.   *)
(*                                                                         *)
(* Bytes: swapping and reaping leave what waits to be written (Pending)    *)
(* alone, so only logging, the kernel and a crash matter for the order in  *)
(* the file and for the refinement of AppendLog.                           *)
(*                                                                         *)
(* Restart: while writes are whole, the parts between which a crash can    *)
(* cut the bytes are whole commands, and the commands that end in them are *)
(* the ones executed, at places that an increasing function names.  The    *)
(* replay counts the ends up to each place, which is that function.        *)
(***************************************************************************)
EXTENDS Aof, NaturalsInduction, WellFoundedInduction, FiniteSetTheorems, SequenceTheorems, TLAPS

Data == Seq(ByteSet)

BufSet == [active : Data, flush : Data, busy : BOOLEAN, io : {"none", "submitted", "complete"}]

\* A submitted write keeps the buffers from being swapped.
Held(b) == b.io = "submitted" => b.busy

\* What has still to be written, in this order.
Pending(b) == (IF b.io = "submitted" THEN b.flush ELSE << >>) \o b.active

Phases == {"idle", "check", "wait", "trigger", "close_wait", "close_final", "closed", "down"}
Waiting == apc \in {"check", "wait", "trigger"}

\* Types, and what each phase of the main thread knows of the buffers.
Shape ==
  /\ a \in BufSet /\ Held(a)
  /\ file \in Data /\ arg \in Data /\ log \in Data
  /\ apc \in Phases /\ next \in Nat /\ intact \in BOOLEAN
  /\ apc = "close_final" => ~a.busy
  /\ apc = "down" => a = Empty
  /\ ~Waiting => arg = << >>

-----------------------------------------------------------------------------
(* Sequences of bytes *)

\* Concatenation is associative and has an identity.
LEMMA Concat ==
  /\ \A s, t, u \in Data : (s \o t) \o u = s \o (t \o u)
  /\ \A s, t \in Data : s \o t \in Data
  /\ \A s \in Data : s \o << >> = s /\ << >> \o s = s
  /\ << >> \in Data
<1>1. \A s, t, u \in Data : (s \o t) \o u = s \o (t \o u)
  BY ConcatAssociative DEF Data
<1>2. \A s, t \in Data : s \o t \in Data
  BY ConcatProperties DEF Data
<1>3. \A s \in Data : s \o << >> = s /\ << >> \o s = s
  BY ConcatEmptySeq DEF Data
<1> QED BY <1>1, <1>2, <1>3 DEF Data

\* Associativity, for use with given sequences.
LEMMA Assoc ==
  ASSUME NEW s \in Data, NEW t \in Data, NEW u \in Data
  PROVE  (s \o t) \o u = s \o (t \o u)
BY ConcatAssociative DEF Data

\* A command is a sequence of bytes.
LEMMA CmdBytesType ==
  \A c \in Nat, sz \in Sizes : CmdBytes(c, sz) \in Data /\ Len(CmdBytes(c, sz)) = sz /\ sz \in Nat
<1> SUFFICES ASSUME NEW c \in Nat, NEW sz \in Sizes
             PROVE CmdBytes(c, sz) \in Data /\ Len(CmdBytes(c, sz)) = sz /\ sz \in Nat
  OBVIOUS
<1>1. sz \in Nat
  BY AofAssumption
<1>2. CmdBytes(c, sz) \in [1..sz -> ByteSet]
  BY <1>1 DEF CmdBytes, ByteSet
<1> QED BY <1>1, <1>2 DEF Data

-----------------------------------------------------------------------------
(* The buffers *)

\* aof_trigger_flush_nolock moves bytes from one buffer to the other and
\* loses none.
LEMMA TriggerKeeps ==
  \A b \in BufSet : Held(b) => /\ Trigger(b) \in BufSet /\ Held(Trigger(b))
                               /\ Pending(Trigger(b)) = Pending(b)
<1> SUFFICES ASSUME NEW b \in BufSet, Held(b)
             PROVE Trigger(b) \in BufSet /\ Held(Trigger(b)) /\ Pending(Trigger(b)) = Pending(b)
  OBVIOUS
<1>1. CASE b.active = << >> \/ b.busy
  BY <1>1 DEF Trigger
<1>2. CASE ~(b.active = << >> \/ b.busy)
  <2>1. Trigger(b) = [active |-> << >>, flush |-> b.active, busy |-> TRUE, io |-> "submitted"]
    BY <1>2 DEF Trigger
  <2>2. b.active \in Data /\ b.io # "submitted"
    BY <1>2 DEF BufSet, Held
  <2>3. Trigger(b) \in BufSet /\ Held(Trigger(b))
    BY <2>1, <2>2, Concat DEF BufSet, Held
  <2>4. Pending(Trigger(b)) = b.active \o << >> /\ Pending(b) = << >> \o b.active
    BY <2>1, <2>2 DEF Pending
  <2> QED BY <2>2, <2>3, <2>4, Concat
<1> QED BY <1>1, <1>2

\* Reaping a completion drops only what has been written.
LEMMA ReapedKeeps ==
  \A b \in BufSet : b.io = "complete" =>
    /\ Reaped(b) \in BufSet /\ Held(Reaped(b)) /\ ~Reaped(b).busy
    /\ Pending(Reaped(b)) = Pending(b)
<1> SUFFICES ASSUME NEW b \in BufSet, b.io = "complete"
             PROVE /\ Reaped(b) \in BufSet /\ Held(Reaped(b)) /\ ~Reaped(b).busy
                   /\ Pending(Reaped(b)) = Pending(b)
  OBVIOUS
<1>1. Reaped(b) \in BufSet
  BY Concat DEF Reaped, BufSet
<1>2. Reaped(b).active = b.active /\ ~Reaped(b).busy /\ Reaped(b).io = "none"
  BY DEF Reaped, BufSet
<1> QED BY <1>1, <1>2 DEF Held, Pending

\* So does aof_check_cqe_nonblock.
LEMMA CheckCqeKeeps ==
  \A b \in BufSet : Held(b) => /\ CheckCqe(b) \in BufSet /\ Held(CheckCqe(b))
                               /\ Pending(CheckCqe(b)) = Pending(b)
BY TriggerKeeps, ReapedKeeps DEF CheckCqe

-----------------------------------------------------------------------------
(* The effect of each action on the bytes *)

\* The buffers change, what waits to be written does not.
Quiet ==
  /\ a' \in BufSet /\ Held(a') /\ Pending(a') = Pending(a)
  /\ UNCHANGED <<file, arg, log, next, intact>>

\* Every step that only reaps and swaps is quiet.
LEMMA QuietSteps ==
  Shape /\ (WriteCheck \/ WriteWait \/ FlushPending \/ ForceFlush \/ Timeout \/ CloseBegin \/ CloseWait)
    => Quiet
<1> SUFFICES ASSUME Shape, WriteCheck \/ WriteWait \/ FlushPending \/ ForceFlush \/ Timeout
                             \/ CloseBegin \/ CloseWait
             PROVE  Quiet
  OBVIOUS
<1>a. a \in BufSet /\ Held(a)
  BY DEF Shape
<1>1. CASE WriteCheck
  BY <1>1, <1>a, CheckCqeKeeps DEF WriteCheck, Quiet
<1>2. CASE WriteWait
  BY <1>2, <1>a, ReapedKeeps DEF WriteWait, Quiet
<1>3. CASE FlushPending
  <2>1. a' = Trigger(CheckCqe(a)) \/ a' = CheckCqe(a)
    BY <1>3 DEF FlushPending
  <2> QED BY <1>3, <2>1, <1>a, CheckCqeKeeps, TriggerKeeps DEF FlushPending, Quiet
<1>4. CASE ForceFlush
  <2>1. a' = Trigger(CheckCqe(a)) \/ a' = CheckCqe(a)
    BY <1>4 DEF ForceFlush
  <2> QED BY <1>4, <2>1, <1>a, CheckCqeKeeps, TriggerKeeps DEF ForceFlush, Quiet
<1>5. CASE Timeout
  BY <1>5, <1>a DEF Timeout, Quiet
<1>6. CASE CloseBegin
  <2>1. a' = Trigger(CheckCqe(a)) \/ a' = CheckCqe(a)
    BY <1>6 DEF CloseBegin
  <2> QED BY <1>6, <2>1, <1>a, CheckCqeKeeps, TriggerKeeps DEF CloseBegin, Quiet
<1>7. CASE CloseWait
  <2>1. a' \in BufSet /\ a'.io = "none" /\ a'.active = a.active /\ a.io = "complete"
    BY <1>7, <1>a DEF CloseWait, BufSet
  <2>2. Held(a') /\ Pending(a') = Pending(a)
    BY <2>1 DEF Held, Pending
  <2> QED BY <1>7, <2>1, <2>2 DEF CloseWait, Quiet
<1> QED BY <1>1, <1>2, <1>3, <1>4, <1>5, <1>6, <1>7

\* Appending to the active buffer appends to what waits.
LEMMA ActiveGrows ==
  \A b \in BufSet, s \in Data : Held(b) =>
    /\ [b EXCEPT !.active = @ \o s] \in BufSet
    /\ Held([b EXCEPT !.active = @ \o s])
    /\ Pending([b EXCEPT !.active = @ \o s]) = Pending(b) \o s
<1> SUFFICES ASSUME NEW b \in BufSet, NEW s \in Data, Held(b)
             PROVE /\ [b EXCEPT !.active = @ \o s] \in BufSet
                   /\ Held([b EXCEPT !.active = @ \o s])
                   /\ Pending([b EXCEPT !.active = @ \o s]) = Pending(b) \o s
  OBVIOUS
<1> DEFINE c == [b EXCEPT !.active = @ \o s]
           sub == IF b.io = "submitted" THEN b.flush ELSE << >>
<1>1. b.active \in Data /\ b.flush \in Data /\ sub \in Data
  BY Concat DEF BufSet
<1>2. b.active \o s \in Data
  BY <1>1, Concat
<1>3. c \in BufSet
  BY <1>2 DEF BufSet
<1>4. c.active = b.active \o s /\ c.flush = b.flush /\ c.busy = b.busy /\ c.io = b.io
  BY DEF BufSet
<1>5. Pending(c) = sub \o (b.active \o s) /\ Pending(b) = sub \o b.active
  BY <1>4 DEF Pending
<1> HIDE DEF c, sub
<1>6. (sub \o b.active) \o s = sub \o (b.active \o s)
  <2>1. sub \in Data /\ b.active \in Data /\ s \in Data
    BY <1>1
  <2> QED BY <2>1, Assoc
<1>7. Pending(c) = Pending(b) \o s
  BY <1>5, <1>6
<1> QED BY <1>3, <1>4, <1>7 DEF Held, c

\* What a command adds, when it is logged.
Extends(s) ==
  /\ a' \in BufSet /\ Held(a') /\ Pending(a') = Pending(a) \o s
  /\ log' = log \o s
  /\ UNCHANGED <<file, intact>>

\* A command that fits goes to the end of what waits.
LEMMA WriteExtends ==
  ASSUME Shape, NEW sz \in Sizes, Write(sz)
  PROVE  Extends(CmdBytes(next, sz)) /\ arg' = << >> /\ next' = next + 1 /\ apc' = "idle"
<1>1. CmdBytes(next, sz) \in Data /\ a \in BufSet /\ Held(a) /\ arg = << >>
  BY CmdBytesType DEF Shape, Write, Waiting
<1>2. a' = [a EXCEPT !.active = @ \o CmdBytes(next, sz)] /\ log' = log \o CmdBytes(next, sz)
  BY DEF Write, Logged
<1> QED BY <1>1, <1>2, ActiveGrows DEF Write, Extends

\* So does one that had to wait, or the wait goes on.
LEMMA TriggerExtends ==
  ASSUME Shape, WriteTrigger
  PROVE  \/ Extends(arg) /\ arg' = << >> /\ apc' = "idle" /\ next' = next
         \/ Quiet /\ apc' = "check"
<1>1. a \in BufSet /\ Held(a) /\ arg \in Data
  BY DEF Shape
<1>2. Trigger(a) \in BufSet /\ Held(Trigger(a)) /\ Pending(Trigger(a)) = Pending(a)
  BY <1>1, TriggerKeeps
<1>3. CASE Fits(Trigger(a), arg)
  <2>1. a' = [Trigger(a) EXCEPT !.active = @ \o arg] /\ log' = log \o arg
    BY <1>3 DEF WriteTrigger, Logged
  <2>2. a' \in BufSet /\ Held(a') /\ Pending(a') = Pending(a) \o arg
    BY <1>1, <1>2, <2>1, ActiveGrows
  <2> QED BY <1>3, <2>1, <2>2 DEF WriteTrigger, Extends
<1>4. CASE ~Fits(Trigger(a), arg)
  BY <1>2, <1>4 DEF WriteTrigger, Quiet
<1> QED BY <1>3, <1>4

\* A whole write moves the flush buffer to the file.
LEMMA KernelMoves ==
  ASSUME Shape, KernelWrite
  PROVE  /\ a' \in BufSet /\ Held(a') /\ a'.busy = a.busy
         /\ file' = file \o a.flush /\ Pending(a) = a.flush \o a.active /\ Pending(a') = a.active
<1>1. a \in BufSet /\ a.io = "submitted" /\ a.active \in Data
  BY DEF Shape, KernelWrite, BufSet
<1>2. a' \in BufSet /\ a'.io = "complete" /\ a'.active = a.active /\ a'.busy = a.busy
  BY <1>1 DEF KernelWrite, BufSet
<1> QED BY <1>1, <1>2, Concat DEF KernelWrite, Held, Pending

\* A short one drops the rest of it.
LEMMA ShortDrops ==
  ASSUME Shape, KernelShort
  PROVE  /\ a' \in BufSet /\ Held(a') /\ a'.busy = a.busy /\ Pending(a) = a.flush \o a.active /\ Pending(a') = a.active
         /\ \E n \in 0..Len(a.flush) : file' = file \o SubSeq(a.flush, 1, n)
<1>1. a \in BufSet /\ a.io = "submitted" /\ a.active \in Data /\ a.flush \in Data
  BY DEF Shape, KernelShort, BufSet
<1>2. a' \in BufSet /\ a'.io = "complete" /\ a'.active = a.active /\ a'.busy = a.busy
  BY <1>1 DEF KernelShort, BufSet
<1>3. \E n \in 0..(Len(a.flush) - 1) : file' = file \o SubSeq(a.flush, 1, n)
  BY DEF KernelShort
<1>4. \E n \in 0..Len(a.flush) : file' = file \o SubSeq(a.flush, 1, n)
  <2>1. PICK n \in 0..(Len(a.flush) - 1) : file' = file \o SubSeq(a.flush, 1, n)
    BY <1>3
  <2>2. Len(a.flush) \in Nat
    BY <1>1 DEF Data
  <2>3. n \in 0..Len(a.flush)
    BY <2>2
  <2> QED BY <2>1, <2>3
<1> QED BY <1>1, <1>2, <1>4, Concat DEF Held, Pending

-----------------------------------------------------------------------------
(* The invariant *)

\* The server starts with an empty file and empty buffers.
LEMMA InitShape == AofInit => Shape
BY Concat DEF AofInit, Shape, Empty, BufSet, Held, Phases, Waiting

\* The empty double buffer.
LEMMA EmptyFacts == Empty \in BufSet /\ Held(Empty) /\ Pending(Empty) = << >> /\ ~Empty.busy
BY Concat DEF Empty, BufSet, Held, Pending

\* Every step keeps the shape.
LEMMA StepShape == Shape /\ [AofNext]_aofVars => Shape'
<1> SUFFICES ASSUME Shape, [AofNext]_aofVars PROVE Shape'
  OBVIOUS
<1>a. /\ a \in BufSet /\ Held(a) /\ file \in Data /\ arg \in Data /\ log \in Data
      /\ apc \in Phases /\ next \in Nat /\ intact \in BOOLEAN
      /\ a.flush \in Data /\ a.active \in Data
  BY DEF Shape, BufSet
<1>1. ASSUME NEW sz \in Sizes, Write(sz) PROVE Shape'
  <2>1. log \o CmdBytes(next, sz) \in Data
    BY <1>a, CmdBytesType, Concat
  <2>2. Extends(CmdBytes(next, sz)) /\ arg' = << >> /\ next' = next + 1 /\ apc' = "idle"
    BY <1>1, WriteExtends
  <2>3. next' \in Nat
    BY <2>2, <1>a
  <2> QED BY <2>1, <2>2, <2>3, <1>a, Concat DEF Extends, Shape, Phases, Waiting
<1>2. ASSUME NEW sz \in Sizes, WriteBlocks(sz) PROVE Shape'
  BY <1>2, <1>a, CmdBytesType DEF WriteBlocks, Shape, Phases, Waiting
<1>3. ASSUME NEW sz \in Sizes, WriteTooLarge(sz) PROVE Shape'
  <2>1. next' \in Nat
    BY <1>3, <1>a DEF WriteTooLarge
  <2> QED BY <1>3, <2>1 DEF WriteTooLarge, Shape, Waiting
<1>4. CASE WriteCheck
  <2>1. Quiet /\ apc' \in {"wait", "trigger"}
    BY <1>4, QuietSteps DEF WriteCheck
  <2> QED BY <2>1, <1>a DEF Quiet, Shape, Phases, Waiting
<1>5. CASE WriteWait
  <2>1. Quiet /\ apc' = "trigger"
    BY <1>5, QuietSteps DEF WriteWait
  <2> QED BY <2>1, <1>a DEF Quiet, Shape, Phases, Waiting
<1>6. CASE WriteTrigger
  <2>1. CASE Extends(arg) /\ arg' = << >> /\ apc' = "idle" /\ next' = next
    BY <2>1, <1>a, Concat DEF Extends, Shape, Phases, Waiting
  <2>2. CASE Quiet /\ apc' = "check"
    BY <2>2, <1>a DEF Quiet, Shape, Phases, Waiting
  <2> QED BY <1>6, <2>1, <2>2, TriggerExtends
<1>7. CASE FlushPending \/ ForceFlush
  <2>1. Quiet /\ apc = "idle" /\ apc' = "idle"
    BY <1>7, QuietSteps DEF FlushPending, ForceFlush
  <2> QED BY <2>1, <1>a DEF Quiet, Shape, Phases, Waiting
<1>8. CASE Timeout
  BY <1>8 DEF Timeout, Shape, Waiting
<1>9. CASE KernelWrite
  <2>1. file' \in Data /\ apc # "down"
    BY <1>9, <1>a, KernelMoves, Concat DEF KernelWrite, Shape, Empty
  <2> QED BY <1>9, <1>a, <2>1, KernelMoves DEF KernelWrite, Shape, Waiting
<1>10. CASE KernelShort
  <2>1. apc # "down"
    BY <1>10 DEF KernelShort, Shape, Empty
  <2>2. PICK n \in 0..Len(a.flush) : file' = file \o SubSeq(a.flush, 1, n)
    BY <1>10, ShortDrops
  <2>3. SubSeq(a.flush, 1, n) \in Data
    BY <1>a DEF Data
  <2>4. file' \in Data
    BY <1>a, <2>2, <2>3, Concat
  <2> QED BY <1>10, <1>a, <2>1, <2>4, ShortDrops DEF KernelShort, Shape, Waiting
<1>11. CASE CloseBegin
  <2>1. Quiet /\ apc = "idle" /\ apc' \in {"close_wait", "close_final"} /\ (apc' = "close_final" => ~a'.busy)
    BY <1>11, QuietSteps DEF CloseBegin
  <2> QED BY <2>1, <1>a DEF Quiet, Shape, Phases, Waiting
<1>12. CASE CloseWait
  <2>1. a'.busy = a.busy
    BY <1>12, <1>a DEF CloseWait, BufSet
  <2>2. Quiet /\ apc = "close_wait" /\ apc' \in {"close_wait", "close_final"} /\ (apc' = "close_final" => ~a'.busy)
    BY <1>12, <2>1, QuietSteps DEF CloseWait
  <2> QED BY <2>2, <1>a DEF Quiet, Shape, Phases, Waiting
<1>13. CASE CloseFinal
  BY <1>13, <1>a, Concat, EmptyFacts DEF CloseFinal, Shape, Phases, Waiting
<1>14. CASE Crash
  <2>1. file' \in Data /\ intact' \in BOOLEAN
    <3>1. CASE a.io = "submitted"
      <4>1. PICK n \in 0..Len(a.flush) :
              /\ file' = file \o SubSeq(a.flush, 1, n)
              /\ intact' = (intact /\ n \in {0, Len(a.flush)})
        BY <1>14, <3>1 DEF Crash
      <4>2. SubSeq(a.flush, 1, n) \in Data
        BY <1>a DEF Data
      <4> QED BY <1>a, <4>1, <4>2, Concat
    <3>2. CASE a.io # "submitted"
      BY <1>14, <3>2, <1>a DEF Crash
    <3> QED BY <3>1, <3>2
  <2>2. a' = Empty /\ arg' = << >> /\ apc' = "down" /\ UNCHANGED <<log, next>>
    BY <1>14 DEF Crash
  <2> QED BY <1>a, <2>1, <2>2, Concat, EmptyFacts DEF Shape, Phases, Waiting
<1>15. CASE Recover
  BY <1>15, <1>a DEF Recover, Shape, Phases, Waiting
<1>16. CASE UNCHANGED aofVars
  BY <1>16 DEF aofVars, Shape, Waiting
<1> QED BY <1>1, <1>2, <1>3, <1>4, <1>5, <1>6, <1>7, <1>8, <1>9, <1>10, <1>11, <1>12, <1>13, <1>14, <1>15, <1>16
        DEF AofNext, Writing, Closing

\* The types, and what the buffers hold in each phase.
LEMMA ShapeHolds == AofSpec => []Shape
BY InitShape, StepShape, PTL DEF AofSpec

-----------------------------------------------------------------------------
(* The log *)

\* LogOrder, with the bytes that wait taken together.
LogInv == (intact /\ apc # "down") => file \o Pending(a) = log

\* The two say the same.
LEMMA LogForms == Shape => (LogInv <=> LogOrder)
<1> SUFFICES ASSUME Shape PROVE LogInv <=> LogOrder
  OBVIOUS
<1>1. InFlight \in Data /\ a.active \in Data /\ file \in Data
  BY Concat DEF Shape, InFlight, BufSet
<1>2. (file \o InFlight) \o a.active = file \o (InFlight \o a.active)
  BY <1>1, Assoc
<1>3. Pending(a) = InFlight \o a.active
  BY DEF Pending, InFlight
<1> QED BY <1>2, <1>3 DEF LogInv, LogOrder

\* What waits is a sequence of bytes.
LEMMA PendingType == Shape => Pending(a) \in Data
<1> SUFFICES ASSUME Shape PROVE Pending(a) \in Data
  OBVIOUS
<1>1. a.flush \in Data /\ a.active \in Data /\ << >> \in Data
  BY Concat DEF Shape, BufSet
<1> QED BY <1>1, Concat DEF Pending

\* Logging a command keeps the two sides equal.
LEMMA ExtendsLog ==
  ASSUME Shape, LogInv, NEW s \in Data, Extends(s), apc # "down" PROVE LogInv'
<1> SUFFICES ASSUME intact' PROVE file' \o Pending(a') = log'
  BY DEF LogInv
<1>1. Pending(a) \in Data /\ file \in Data
  BY PendingType DEF Shape
<1>2. file \o (Pending(a) \o s) = (file \o Pending(a)) \o s
  BY <1>1, Assoc
<1>3. file \o Pending(a) = log
  BY DEF LogInv, Extends
<1> QED BY <1>2, <1>3 DEF Extends

\* Every step keeps the file and what waits equal to the log.
LEMMA StepLog == Shape /\ LogInv /\ [AofNext]_aofVars => LogInv'
<1> SUFFICES ASSUME Shape, LogInv, [AofNext]_aofVars PROVE LogInv'
  OBVIOUS
<1>a. /\ a \in BufSet /\ file \in Data /\ arg \in Data /\ log \in Data /\ next \in Nat
      /\ a.flush \in Data /\ a.active \in Data
  BY DEF Shape, BufSet
<1>1. ASSUME NEW sz \in Sizes, Write(sz) PROVE LogInv'
  BY <1>1, <1>a, WriteExtends, CmdBytesType, ExtendsLog DEF Write
<1>2. ASSUME NEW sz \in Sizes, WriteBlocks(sz) \/ WriteTooLarge(sz) PROVE LogInv'
  BY <1>2 DEF WriteBlocks, WriteTooLarge, LogInv
<1>3. CASE WriteCheck \/ WriteWait \/ FlushPending \/ ForceFlush \/ CloseBegin \/ CloseWait
  <2>1. Quiet /\ apc # "down"
    BY <1>3, QuietSteps DEF WriteCheck, WriteWait, FlushPending, ForceFlush, CloseBegin, CloseWait
  <2> QED BY <2>1 DEF Quiet, LogInv
<1>4. CASE WriteTrigger
  <2>1. apc # "down"
    BY <1>4 DEF WriteTrigger
  <2>2. CASE Extends(arg)
    BY <2>1, <2>2, <1>a, ExtendsLog
  <2>3. CASE Quiet
    BY <2>1, <2>3 DEF Quiet, LogInv
  <2> QED BY <1>4, <2>2, <2>3, TriggerExtends
<1>5. CASE Timeout
  BY <1>5 DEF Timeout, LogInv
<1>6. CASE KernelWrite
  <2>1. (file \o a.flush) \o a.active = file \o (a.flush \o a.active)
    <3>1. file \in Data /\ a.flush \in Data /\ a.active \in Data
      BY <1>a
    <3> QED BY ONLY <3>1, Assoc
  <2> QED BY <1>6, <2>1, KernelMoves DEF KernelWrite, LogInv
<1>7. CASE KernelShort
  BY <1>7 DEF KernelShort, LogInv
<1>8. CASE CloseFinal
  <2>1. a.io # "submitted" /\ apc # "down"
    BY <1>8 DEF CloseFinal, Shape, Held
  <2>2. Pending(a) = a.active
    BY <2>1, <1>a, Concat DEF Pending
  <2>3. file' \o Pending(a') = file \o a.active
    BY <1>8, <1>a, EmptyFacts, Concat DEF CloseFinal
  <2> QED BY <1>8, <2>1, <2>2, <2>3 DEF CloseFinal, LogInv
<1>9. CASE Crash
  BY <1>9 DEF Crash, LogInv
<1>10. CASE Recover
  BY <1>10, <1>a, EmptyFacts, Concat DEF Recover, LogInv, Shape
<1>11. CASE UNCHANGED aofVars
  BY <1>11 DEF aofVars, LogInv
<1> QED BY <1>1, <1>2, <1>3, <1>4, <1>5, <1>6, <1>7, <1>8, <1>9, <1>10, <1>11
        DEF AofNext, Writing, Closing

\* While all writes are whole, no byte is lost, repeated or moved on its way
\* through the two buffers of persistence.c, whatever their sizes.
THEOREM LogInOrder == AofSpec => []LogOrder
<1>1. AofInit => LogInv
  BY EmptyFacts, Concat DEF AofInit, LogInv
<1> QED BY <1>1, ShapeHolds, StepLog, LogForms, PTL DEF AofSpec

-----------------------------------------------------------------------------
(* The file is an append-only log *)

\* A sequence is a beginning of itself with something added.
LEMMA PrefixOfConcat ==
  ASSUME NEW s \in Data, NEW t \in Data PROVE Disk!IsPrefix(s, s \o t)
<1>1. Len(s) <= Len(s \o t)
  BY DEF Data
<1>2. SubSeq(s, 1, Len(s)) = SubSeq(s \o t, 1, Len(s))
  BY SubSeqOfConcat1, SubSeqFull DEF Data
<1> QED BY <1>1, <1>2 DEF Disk!IsPrefix

\* A step that only logs is an append of the abstract log.
LEMMA ExtendsIsAppend ==
  ASSUME Shape, NEW s \in Data, Extends(s) PROVE [Disk!Next]_<<log, file, intact>>
<1>1. Disk!IsPrefix(log, log')
  BY PrefixOfConcat DEF Shape, Extends
<1> QED BY <1>1 DEF Extends, Disk!Next, Disk!Append_

\* A step that adds to the file what waits first persists a part of the log.
LEMMA FileGrows ==
  ASSUME Shape, LogInv, intact, apc # "down",
         NEW s \in Data, NEW t \in Data, Pending(a) = s \o t, file' = file \o s, log' = log
  PROVE  Disk!Persist
<1>1. Disk!IsPrefix(file, file')
  BY PrefixOfConcat DEF Shape
<1>2. log = (file \o s) \o t
  <2>1. file \in Data
    BY DEF Shape
  <2>2. (file \o s) \o t = file \o (s \o t)
    BY <2>1, Assoc
  <2>3. log = file \o Pending(a)
    BY DEF LogInv
  <2> QED BY <2>2, <2>3
<1>3. file \o s \in Data
  BY Concat DEF Shape
<1>4. Disk!IsPrefix(file', log)
  BY <1>2, <1>3, PrefixOfConcat
<1> QED BY <1>1, <1>4 DEF Disk!Persist

\* Every step is a step of the abstract log or leaves it alone.
LEMMA StepLogRefines == Shape /\ LogInv /\ [AofNext]_aofVars => [Disk!Next]_<<log, file, intact>>
<1> SUFFICES ASSUME Shape, LogInv, [AofNext]_aofVars PROVE [Disk!Next]_<<log, file, intact>>
  OBVIOUS
<1>a. /\ a \in BufSet /\ file \in Data /\ arg \in Data /\ log \in Data /\ next \in Nat
      /\ a.flush \in Data /\ a.active \in Data /\ intact \in BOOLEAN
  BY DEF Shape, BufSet
<1>1. ASSUME NEW sz \in Sizes, Write(sz) PROVE [Disk!Next]_<<log, file, intact>>
  BY <1>1, <1>a, WriteExtends, CmdBytesType, ExtendsIsAppend
<1>2. ASSUME NEW sz \in Sizes, WriteBlocks(sz) \/ WriteTooLarge(sz)
      PROVE [Disk!Next]_<<log, file, intact>>
  BY <1>2 DEF WriteBlocks, WriteTooLarge, Disk!Next
<1>3. CASE WriteCheck \/ WriteWait \/ FlushPending \/ ForceFlush \/ CloseBegin \/ CloseWait \/ Timeout
  BY <1>3, QuietSteps DEF Quiet
<1>4. CASE WriteTrigger
  <2>1. CASE Extends(arg)
    BY <2>1, <1>a, ExtendsIsAppend
  <2>2. CASE Quiet
    BY <2>2 DEF Quiet
  <2> QED BY <1>4, <2>1, <2>2, TriggerExtends
<1>5. CASE KernelWrite
  <2>1. apc # "down" /\ log' = log /\ intact' = intact
    BY <1>5 DEF KernelWrite, Shape, Empty
  <2>2. ASSUME intact PROVE Disk!Persist
    BY <1>5, <2>1, <2>2, <1>a, KernelMoves, FileGrows
  <2> QED BY <2>1, <2>2 DEF Disk!Next
<1>6. CASE KernelShort
  BY <1>6 DEF KernelShort, Disk!Next
<1>7. CASE CloseFinal
  <2>1. a.io # "submitted" /\ apc # "down" /\ log' = log /\ intact' = intact
    BY <1>7 DEF CloseFinal, Shape, Held
  <2>2. Pending(a) = a.active \o << >> /\ << >> \in Data
    BY <2>1, <1>a, Concat DEF Pending
  <2>3. ASSUME intact PROVE Disk!Persist
    BY <1>7, <2>1, <2>2, <2>3, <1>a, FileGrows DEF CloseFinal
  <2> QED BY <2>1, <2>3 DEF Disk!Next
<1>8. CASE Crash
  <2>1. apc # "down" /\ log' = log
    BY <1>8 DEF Crash
  <2>2. CASE a.io = "submitted"
    <3>1. PICK n \in 0..Len(a.flush) :
            /\ file' = file \o SubSeq(a.flush, 1, n)
            /\ intact' = (intact /\ n \in {0, Len(a.flush)})
      BY <1>8, <2>2 DEF Crash
    <3>2. Pending(a) = a.flush \o a.active
      BY <2>2 DEF Pending
    <3>3. ASSUME intact' PROVE intact /\ (file' = file \/ Disk!Persist)
      <4>1. intact /\ (n = 0 \/ n = Len(a.flush))
        BY <3>1, <3>3
      <4>2. CASE n = 0
        <5>1. SubSeq(a.flush, 1, 0) = << >>
          BY <1>a DEF Data
        <5> QED BY <3>1, <4>1, <4>2, <5>1, <1>a, Concat
      <4>3. CASE n = Len(a.flush)
        <5>1. SubSeq(a.flush, 1, Len(a.flush)) = a.flush
          BY <1>a, SubSeqFull DEF Data
        <5>2. file' = file \o a.flush
          BY <3>1, <4>3, <5>1
        <5> QED BY <4>1, <5>2, <2>1, <3>2, <1>a, FileGrows
      <4> QED BY <4>1, <4>2, <4>3
    <3> QED
      <4>1. CASE intact' /\ file' = file
        BY <3>3, <4>1, <2>1
      <4>2. CASE intact' /\ Disk!Persist
        BY <3>3, <4>2 DEF Disk!Next
      <4>3. CASE ~intact'
        BY <4>3 DEF Disk!Next
      <4> QED BY <3>3, <4>1, <4>2, <4>3
  <2>3. CASE a.io # "submitted"
    BY <1>8, <2>3, <2>1 DEF Crash
  <2> QED BY <2>2, <2>3
<1>9. CASE Recover
  BY <1>9 DEF Recover, Disk!Next, Disk!Restart
<1>10. CASE UNCHANGED aofVars
  BY <1>10 DEF aofVars
<1> QED BY <1>1, <1>2, <1>3, <1>4, <1>5, <1>6, <1>7, <1>8, <1>9, <1>10
        DEF AofNext, Writing, Closing

\* The double-buffered writer of persistence.c implements an append-only log
\* with a durable prefix, through crashes and restarts, as long as the kernel's
\* writes are whole.
THEOREM AofImplementsLog == AofSpec => ImplementsAppendLog
<1>1. AofInit => Disk!Init
  BY DEF AofInit, Disk!Init
<1>2. AofInit => LogInv
  BY EmptyFacts, Concat DEF AofInit, LogInv
<1>3. AofSpec => []LogInv
  BY <1>2, ShapeHolds, StepLog, PTL DEF AofSpec
<1> QED BY <1>1, <1>3, ShapeHolds, StepLogRefines, PTL DEF AofSpec, ImplementsAppendLog, Disk!Spec

-----------------------------------------------------------------------------
(* The order in the file, failed writes included *)

Less(x, y) == x.cmd < y.cmd \/ (x.cmd = y.cmd /\ x.at < y.at)
Ordered(s) == \A i, j \in 1..Len(s) : i < j => Less(s[i], s[j])
Below(s, c) == \A i \in 1..Len(s) : s[i].cmd < c

\* The file and everything on its way there, in the order it will arrive.
Stream == file \o (Pending(a) \o arg)
InOrder == Ordered(Stream) /\ Below(Stream, next)

\* Length and elements of a concatenation.
LEMMA Elements ==
  ASSUME NEW s \in Data, NEW t \in Data
  PROVE  /\ Len(s) \in Nat /\ Len(t) \in Nat /\ Len(s \o t) = Len(s) + Len(t)
         /\ \A i \in 1..Len(s) : (s \o t)[i] = s[i]
         /\ \A i \in (Len(s) + 1)..(Len(s) + Len(t)) : (s \o t)[i] = t[i - Len(s)]
         /\ \A i \in 1..Len(s) : s[i] \in ByteSet
<1>1. Len(s) \in Nat /\ Len(t) \in Nat /\ \A i \in 1..Len(s) : s[i] \in ByteSet
  BY DEF Data
<1>2. Len(s \o t) = Len(s) + Len(t)
  BY DEF Data
<1>3. \A i \in 1..(Len(s) + Len(t)) : (s \o t)[i] = IF i <= Len(s) THEN s[i] ELSE t[i - Len(s)]
  BY ConcatProperties DEF Data
<1> QED BY <1>1, <1>2, <1>3

\* A new command goes after everything before it.
LEMMA AppendCmd ==
  ASSUME NEW s \in Data, NEW c \in Nat, NEW sz \in Sizes, Ordered(s), Below(s, c)
  PROVE  Ordered(s \o CmdBytes(c, sz)) /\ Below(s \o CmdBytes(c, sz), c + 1)
<1> DEFINE t == CmdBytes(c, sz)
           w == s \o t
<1>1. t \in Data /\ Len(t) = sz /\ sz \in Nat
  BY CmdBytesType
<1>2. \A i \in 1..sz : t[i].cmd = c /\ t[i].at = i
  BY <1>1 DEF CmdBytes
<1> HIDE DEF t
<1>3. /\ Len(s) \in Nat /\ Len(w) = Len(s) + sz
      /\ \A i \in 1..Len(s) : w[i] = s[i]
      /\ \A i \in (Len(s) + 1)..(Len(s) + sz) : w[i] = t[i - Len(s)]
      /\ \A i \in 1..Len(s) : s[i] \in ByteSet
  BY <1>1, Elements
<1> HIDE DEF w
<1>4. \A i \in (Len(s) + 1)..(Len(s) + sz) : w[i].cmd = c /\ w[i].at = i - Len(s)
  <2> SUFFICES ASSUME NEW i \in (Len(s) + 1)..(Len(s) + sz)
               PROVE w[i].cmd = c /\ w[i].at = i - Len(s)
    OBVIOUS
  <2>1. i - Len(s) \in 1..sz
    BY <1>1, <1>3
  <2> QED BY <2>1, <1>2, <1>3
<1>5. \A i \in 1..Len(s) : w[i].cmd < c
  BY <1>3 DEF Below
<1>6. ASSUME NEW i \in 1..Len(w), NEW j \in 1..Len(w), i < j PROVE Less(w[i], w[j])
  <2>1. CASE j <= Len(s)
    <3>1. i \in 1..Len(s) /\ j \in 1..Len(s)
      BY <2>1, <1>6, <1>3, <1>1
    <3> QED BY <3>1, <1>6, <1>3 DEF Ordered
  <2>2. CASE i <= Len(s) /\ j > Len(s)
    <3>1. i \in 1..Len(s) /\ j \in (Len(s) + 1)..(Len(s) + sz)
      BY <2>2, <1>3, <1>1
    <3> QED BY <3>1, <1>4, <1>5 DEF Less
  <2>3. CASE i > Len(s)
    <3>1. i \in (Len(s) + 1)..(Len(s) + sz) /\ j \in (Len(s) + 1)..(Len(s) + sz)
      BY <2>3, <1>6, <1>3, <1>1
    <3>2. i - Len(s) < j - Len(s)
      BY <1>6, <1>3, <1>1
    <3> QED BY <3>1, <3>2, <1>4 DEF Less
  <2> QED BY <2>1, <2>2, <2>3, <1>3, <1>1
<1>7. ASSUME NEW i \in 1..Len(w) PROVE w[i].cmd < c + 1
  <2>1. CASE i <= Len(s)
    <3>1. i \in 1..Len(s)
      BY <2>1, <1>3, <1>1
    <3>2. w[i].cmd \in Nat
      BY <3>1, <1>3 DEF ByteSet
    <3> QED BY <3>1, <3>2, <1>5
  <2>2. CASE i > Len(s)
    <3>1. i \in (Len(s) + 1)..(Len(s) + sz)
      BY <2>2, <1>3, <1>1
    <3> QED BY <3>1, <1>4
  <2> QED BY <2>1, <2>2, <1>3, <1>1
<1> QED BY <1>6, <1>7 DEF Ordered, Below, w, t

\* Leaving out the end of a part keeps the order.
LEMMA DropMiddle ==
  ASSUME NEW s \in Data, NEW x \in Data, NEW y \in Data, NEW n \in 0..Len(x), NEW c \in Nat,
         Ordered(s \o (x \o y)), Below(s \o (x \o y), c)
  PROVE  Ordered(s \o (SubSeq(x, 1, n) \o y)) /\ Below(s \o (SubSeq(x, 1, n) \o y), c)
<1> DEFINE z == SubSeq(x, 1, n)
           v == s \o (x \o y)
           w == s \o (z \o y)
           m(i) == IF i <= Len(s) + n THEN i ELSE i + (Len(x) - n)
<1>1. Len(s) \in Nat /\ Len(x) \in Nat /\ Len(y) \in Nat /\ n \in Nat /\ n <= Len(x)
  BY Elements
<1>2. z \in Data /\ Len(z) = n /\ \A i \in 1..n : z[i] = x[i]
  BY <1>1 DEF Data
<1>3. x \o y \in Data /\ z \o y \in Data
  BY <1>2, Concat
<1> HIDE DEF z
<1>4. /\ Len(x \o y) = Len(x) + Len(y)
      /\ \A i \in 1..Len(x) : (x \o y)[i] = x[i]
      /\ \A i \in (Len(x) + 1)..(Len(x) + Len(y)) : (x \o y)[i] = y[i - Len(x)]
  BY Elements
<1>5. /\ Len(z \o y) = n + Len(y)
      /\ \A i \in 1..n : (z \o y)[i] = z[i]
      /\ \A i \in (n + 1)..(n + Len(y)) : (z \o y)[i] = y[i - n]
  BY <1>2, Elements
<1>6. /\ Len(v) = Len(s) + Len(x) + Len(y)
      /\ \A i \in 1..Len(s) : v[i] = s[i]
      /\ \A i \in (Len(s) + 1)..(Len(s) + Len(x) + Len(y)) : v[i] = (x \o y)[i - Len(s)]
  <2>1. /\ Len(v) = Len(s) + Len(x \o y)
        /\ \A i \in 1..Len(s) : v[i] = s[i]
        /\ \A i \in (Len(s) + 1)..(Len(s) + Len(x \o y)) : v[i] = (x \o y)[i - Len(s)]
    BY <1>3, Elements
  <2>2. Len(s) + Len(x \o y) = Len(s) + Len(x) + Len(y)
    BY <1>1, <1>4
  <2> HIDE DEF v
  <2> QED BY <2>1, <2>2
<1>7. /\ Len(w) = Len(s) + n + Len(y)
      /\ \A i \in 1..Len(s) : w[i] = s[i]
      /\ \A i \in (Len(s) + 1)..(Len(s) + n + Len(y)) : w[i] = (z \o y)[i - Len(s)]
  <2>1. /\ Len(w) = Len(s) + Len(z \o y)
        /\ \A i \in 1..Len(s) : w[i] = s[i]
        /\ \A i \in (Len(s) + 1)..(Len(s) + Len(z \o y)) : w[i] = (z \o y)[i - Len(s)]
    BY <1>3, Elements
  <2>2. Len(s) + Len(z \o y) = Len(s) + n + Len(y)
    BY <1>1, <1>5
  <2> HIDE DEF w
  <2> QED BY <2>1, <2>2
<1> HIDE DEF v, w
<1>8. ASSUME NEW i \in 1..Len(w) PROVE m(i) \in 1..Len(v) /\ w[i] = v[m(i)]
  <2>1. CASE i <= Len(s)
    <3>1. i \in 1..Len(s) /\ m(i) = i
      BY <2>1, <1>1, <1>7
    <3>2. i \in 1..Len(v)
      BY <3>1, <1>1, <1>6
    <3> QED BY <3>1, <3>2, <1>6, <1>7
  <2>2. CASE i > Len(s) /\ i <= Len(s) + n
    <3>1. /\ m(i) = i /\ i - Len(s) \in 1..n /\ i - Len(s) \in 1..Len(x)
          /\ i \in (Len(s) + 1)..(Len(s) + n + Len(y)) /\ i \in (Len(s) + 1)..(Len(s) + Len(x) + Len(y))
      BY <2>2, <1>1, <1>7
    <3>2. w[i] = x[i - Len(s)]
      BY <3>1, <1>2, <1>5, <1>7
    <3>3. v[i] = x[i - Len(s)]
      BY <3>1, <1>4, <1>6
    <3>4. i \in 1..Len(v)
      BY <3>1, <1>1, <1>6
    <3> QED BY <3>1, <3>2, <3>3, <3>4
  <2>3. CASE i > Len(s) + n
    <3> DEFINE k == i + (Len(x) - n)
    <3>1. /\ m(i) = k /\ i - Len(s) \in (n + 1)..(n + Len(y))
          /\ k - Len(s) \in (Len(x) + 1)..(Len(x) + Len(y))
          /\ i \in (Len(s) + 1)..(Len(s) + n + Len(y)) /\ k \in (Len(s) + 1)..(Len(s) + Len(x) + Len(y))
          /\ (i - Len(s)) - n = (k - Len(s)) - Len(x)
      BY <2>3, <1>1, <1>7
    <3>2. w[i] = y[(i - Len(s)) - n]
      BY <3>1, <1>5, <1>7
    <3>3. v[k] = y[(k - Len(s)) - Len(x)]
      BY <3>1, <1>4, <1>6
    <3>4. k \in 1..Len(v)
      BY <3>1, <1>1, <1>6
    <3> QED BY <3>1, <3>2, <3>3, <3>4
  <2> QED BY <2>1, <2>2, <2>3, <1>1, <1>7
<1>9. ASSUME NEW i \in 1..Len(w), NEW j \in 1..Len(w), i < j PROVE m(i) < m(j)
  BY <1>1, <1>7, <1>9
<1> HIDE DEF m
<1>10. ASSUME NEW i \in 1..Len(w), NEW j \in 1..Len(w), i < j PROVE Less(w[i], w[j])
  BY <1>8, <1>9, <1>10 DEF Ordered, v
<1>11. ASSUME NEW i \in 1..Len(w) PROVE w[i].cmd < c
  BY <1>8, <1>11 DEF Below, v
<1> QED BY <1>10, <1>11 DEF Ordered, Below, w, z

\* A beginning of an ordered sequence is ordered.
LEMMA KeepFront ==
  ASSUME NEW s \in Data, NEW t \in Data, NEW c \in Nat, Ordered(s \o t), Below(s \o t, c)
  PROVE  Ordered(s) /\ Below(s, c)
<1>1. /\ Len(s) \in Nat /\ Len(t) \in Nat /\ Len(s \o t) = Len(s) + Len(t)
      /\ \A i \in 1..Len(s) : (s \o t)[i] = s[i]
  BY Elements
<1>2. \A i \in 1..Len(s) : i \in 1..Len(s \o t)
  BY <1>1
<1> QED BY <1>1, <1>2 DEF Ordered, Below

\* Every step keeps the stream ordered.
LEMMA StepOrder == Shape /\ InOrder /\ [AofNext]_aofVars => InOrder'
<1> SUFFICES ASSUME Shape, InOrder, [AofNext]_aofVars PROVE InOrder'
  OBVIOUS
<1>a. /\ a \in BufSet /\ file \in Data /\ arg \in Data /\ next \in Nat
      /\ a.flush \in Data /\ a.active \in Data /\ Pending(a) \in Data
      /\ Pending(a) \o arg \in Data /\ a.active \o arg \in Data /\ Stream \in Data
  BY PendingType, Concat DEF Shape, BufSet, Stream
<1>e. /\ a.flush \in Data /\ a.active \in Data /\ arg \in Data
      /\ (a.flush \o a.active) \o arg = a.flush \o (a.active \o arg)
  <2>1. a.flush \in Data /\ a.active \in Data /\ arg \in Data
    BY <1>a
  <2> QED BY <2>1, Assoc
<1>f. file \in Data /\ a.active \o arg \in Data /\ Pending(a) \in Data
  BY <1>a
<1>b. Ordered(Stream) /\ Below(Stream, next)
  BY DEF InOrder
<1>c. ASSUME Stream' = Stream, next' = next PROVE InOrder'
  BY <1>b, <1>c DEF InOrder
<1>d. ASSUME NEW sz \in Sizes, Stream' = Stream \o CmdBytes(next, sz), next' = next + 1 PROVE InOrder'
  BY <1>a, <1>b, <1>d, AppendCmd DEF InOrder
<1>1. ASSUME NEW sz \in Sizes, Write(sz) PROVE InOrder'
  <2> DEFINE s == CmdBytes(next, sz)
  <2>1. s \in Data /\ arg = << >>
    BY <1>1, <1>a, CmdBytesType DEF Write, Shape, Waiting
  <2>2. Extends(s) /\ arg' = << >> /\ next' = next + 1
    BY <1>1, WriteExtends
  <2> HIDE DEF s
  <2>3. Pending(a) \o s \in Data /\ (Pending(a) \o s) \o << >> = Pending(a) \o s /\ Pending(a) \o << >> = Pending(a)
    BY <1>a, <2>1, Concat
  <2>4. Stream = file \o Pending(a) /\ Stream' = file \o (Pending(a) \o s)
    BY <2>1, <2>2, <2>3 DEF Stream, Extends
  <2>5. file \o (Pending(a) \o s) = (file \o Pending(a)) \o s
    <3>1. file \in Data /\ Pending(a) \in Data /\ s \in Data  BY <1>f, <2>1
    <3> QED BY ONLY <3>1, Assoc
  <2>6. Stream' = Stream \o s
    BY <2>4, <2>5
  <2> QED BY <1>d, <2>2, <2>6 DEF s
<1>2. ASSUME NEW sz \in Sizes, WriteBlocks(sz) PROVE InOrder'
  <2> DEFINE s == CmdBytes(next, sz)
  <2>1. /\ s \in Data /\ arg = << >> /\ arg' = s /\ next' = next + 1
        /\ UNCHANGED <<a, file>>
    BY <1>2, <1>a, CmdBytesType DEF WriteBlocks, Shape, Waiting
  <2> HIDE DEF s
  <2>2. Stream = file \o Pending(a) /\ Stream' = file \o (Pending(a) \o s)
    BY <1>a, <2>1, Concat DEF Stream
  <2>3. file \o (Pending(a) \o s) = (file \o Pending(a)) \o s
    <3>1. file \in Data /\ Pending(a) \in Data /\ s \in Data  BY <1>f, <2>1
    <3> QED BY ONLY <3>1, Assoc
  <2>4. Stream' = Stream \o s
    BY <2>2, <2>3
  <2> QED BY <1>d, <2>1, <2>4 DEF s
<1>3. ASSUME NEW sz \in Sizes, WriteTooLarge(sz) PROVE InOrder'
  <2>1. Stream' = Stream /\ next' = next + 1
    BY <1>3 DEF WriteTooLarge, Stream
  <2>2. \A i \in 1..Len(Stream) : Stream[i].cmd \in Nat
    <3>1. Stream \in Seq(ByteSet)
      BY <1>a DEF Data
    <3>2. \A i \in 1..Len(Stream) : Stream[i] \in ByteSet
      BY <3>1
    <3> QED BY <3>2 DEF ByteSet
  <2>3. Below(Stream, next + 1)
    BY <1>a, <1>b, <2>2 DEF Below
  <2> QED BY <1>b, <2>1, <2>3 DEF InOrder
<1>4. CASE WriteCheck \/ WriteWait \/ FlushPending \/ ForceFlush \/ CloseBegin \/ CloseWait \/ Timeout
  BY <1>4, <1>c, QuietSteps DEF Quiet, Stream
<1>5. CASE WriteTrigger
  <2>1. CASE Extends(arg) /\ arg' = << >> /\ next' = next
    <3>1. (Pending(a) \o arg) \o << >> = Pending(a) \o arg
      BY <1>a, Concat
    <3> QED BY <2>1, <3>1, <1>c DEF Extends, Stream
  <2>2. CASE Quiet
    BY <2>2, <1>c DEF Quiet, Stream
  <2> QED BY <1>5, <2>1, <2>2, TriggerExtends
<1>6. CASE KernelWrite
  <2>1. Stream' = (file \o a.flush) \o (a.active \o arg) /\ next' = next
    BY <1>6, KernelMoves DEF KernelWrite, Stream
  <2>2. Stream = file \o ((a.flush \o a.active) \o arg)
    BY <1>6, KernelMoves DEF Stream
  <2>3. (file \o a.flush) \o (a.active \o arg) = file \o (a.flush \o (a.active \o arg))
    <3>1. file \in Data /\ a.flush \in Data /\ a.active \o arg \in Data  BY <1>e, <1>f
    <3> QED BY ONLY <3>1, Assoc
  <2> QED BY <1>c, <1>e, <2>1, <2>2, <2>3
<1>7. CASE KernelShort
  <2>1. PICK n \in 0..Len(a.flush) : file' = file \o SubSeq(a.flush, 1, n)
    BY <1>7, ShortDrops
  <2> DEFINE z == SubSeq(a.flush, 1, n)
  <2>2. z \in Data
    BY <1>a DEF Data
  <2>3. Stream = file \o (a.flush \o (a.active \o arg))
    <3>1. Stream = file \o ((a.flush \o a.active) \o arg)
      BY <1>7, ShortDrops DEF Stream
    <3> QED BY <3>1, <1>e
  <2>4. Stream' = file \o (z \o (a.active \o arg)) /\ next' = next
    <3>1. Stream' = (file \o z) \o (a.active \o arg) /\ next' = next
      BY <1>7, <2>1, ShortDrops DEF KernelShort, Stream
    <3> HIDE DEF z
    <3>2. (file \o z) \o (a.active \o arg) = file \o (z \o (a.active \o arg))
      BY <1>f, <2>2, Assoc
    <3> QED BY <3>1, <3>2
  <2>5. /\ Ordered(file \o (z \o (a.active \o arg)))
        /\ Below(file \o (z \o (a.active \o arg)), next)
    BY <1>a, <1>b, <2>3, DropMiddle
  <2> QED BY <2>4, <2>5 DEF InOrder
<1>8. CASE CloseFinal
  <2>1. a.io # "submitted" /\ a' = Empty /\ file' = file \o a.active /\ UNCHANGED <<arg, next>>
    BY <1>8 DEF CloseFinal, Shape, Held
  <2>2. Pending(a) = a.active /\ Pending(a') = << >>
    BY <2>1, <1>a, EmptyFacts, Concat DEF Pending
  <2>3. Stream' = (file \o a.active) \o arg /\ Stream = file \o (a.active \o arg)
    BY <2>1, <2>2, <1>a, Concat DEF Stream
  <2>4. (file \o a.active) \o arg = file \o (a.active \o arg)
    <3>1. file \in Data /\ a.active \in Data /\ arg \in Data  BY <1>e, <1>f
    <3> QED BY ONLY <3>1, Assoc
  <2> QED BY <1>c, <2>1, <2>3, <2>4
<1>9. CASE Crash
  <2>1. a' = Empty /\ arg' = << >> /\ next' = next
    BY <1>9 DEF Crash
  <2>2. ASSUME file' \in Data PROVE Stream' = file'
    BY <2>1, <2>2, EmptyFacts, Concat DEF Stream
  <2>3. CASE a.io = "submitted"
    <3>1. PICK n \in 0..Len(a.flush) : file' = file \o SubSeq(a.flush, 1, n)
      BY <1>9, <2>3 DEF Crash
    <3> DEFINE z == SubSeq(a.flush, 1, n)
               y == a.active \o arg
    <3>2. z \in Data /\ y \in Data
      BY <1>a DEF Data
    <3>3. Stream = file \o (a.flush \o y)
      <4>1. Stream = file \o ((a.flush \o a.active) \o arg)
        BY <2>3 DEF Pending, Stream
      <4> QED BY <4>1, <1>e
    <3>4. Ordered(file \o (z \o y)) /\ Below(file \o (z \o y), next)
      BY <1>a, <1>b, <3>3, DropMiddle
    <3> HIDE DEF z, y
    <3>5. file \o (z \o y) = (file \o z) \o y /\ file \o z \in Data
      <4>1. file \in Data
        BY <1>a
      <4>2. file \o (z \o y) = (file \o z) \o y
        BY <4>1, <3>2, Assoc
      <4> QED BY <4>1, <4>2, <3>2, Concat
    <3>6. Ordered(file \o z) /\ Below(file \o z, next)
      BY <1>a, <3>2, <3>4, <3>5, KeepFront
    <3>7. file' = file \o z
      BY <3>1 DEF z
    <3> QED BY <2>1, <2>2, <3>5, <3>6, <3>7 DEF InOrder
  <2>4. CASE a.io # "submitted"
    <3>1. file' = file
      BY <1>9, <2>4 DEF Crash
    <3>2. Ordered(file) /\ Below(file, next)
      BY <1>a, <1>b, KeepFront DEF Stream
    <3> QED BY <2>1, <2>2, <3>1, <3>2, <1>a DEF InOrder
  <2> QED BY <2>3, <2>4
<1>10. CASE Recover
  BY <1>10, <1>c DEF Recover, Stream
<1>11. CASE UNCHANGED aofVars
  BY <1>11, <1>c DEF aofVars, Stream
<1> QED BY <1>1, <1>2, <1>3, <1>4, <1>5, <1>6, <1>7, <1>8, <1>9, <1>10, <1>11
        DEF AofNext, Writing, Closing

\* Failed, short and torn writes, crashes and restarts leave holes in the file,
\* but what persistence.c has written is in the order of the commands.
THEOREM FileOrdered == AofSpec => []FileInOrder
<1>1. AofInit => InOrder
  <2> SUFFICES ASSUME AofInit PROVE InOrder
    OBVIOUS
  <2>1. Stream = << >>
    BY EmptyFacts, Concat DEF AofInit, Stream
  <2> QED BY <2>1 DEF InOrder, Ordered, Below
<1>2. Shape /\ InOrder => FileInOrder
  <2> SUFFICES ASSUME Shape, InOrder PROVE FileInOrder
    OBVIOUS
  <2>1. file \in Data /\ Pending(a) \o arg \in Data /\ next \in Nat
    BY PendingType, Concat DEF Shape
  <2>2. Ordered(file)
    BY <2>1, KeepFront DEF InOrder, Stream
  <2> QED BY <2>2 DEF Ordered, Less, FileInOrder
<1> QED BY <1>1, <1>2, ShapeHolds, StepOrder, PTL DEF AofSpec

-----------------------------------------------------------------------------
(* What a restart rebuilds *)

\* Every byte of s starts a command where one may start, or goes on with one.
Joined(s) ==
  \A i \in 1..Len(s) :
    IF i = 1 THEN s[i].at = 1
    ELSE \/ s[i].at = 1 /\ s[i - 1].at = s[i - 1].of
         \/ s[i].at = s[i - 1].at + 1 /\ s[i].cmd = s[i - 1].cmd

\* A command ends with byte k of s.
EndsAt(s, k) == k = 0 \/ s[k].at = s[k].of

\* e[1], ..., e[n] are the places where a command ends in s, in order.
Ending(s, e, n) ==
  /\ e \in [1..n -> 1..Len(s)]
  /\ \A i, j \in 1..n : i < j => e[i] < e[j]
  /\ \A k \in 1..Len(s) : s[k].at = s[k].of <=> \E i \in 1..n : e[i] = k

\* The first n commands of m are those that end in s.
Listed(m, s, n) == \E e : Ending(s, e, n) /\ \A i \in 1..n : m[i] = s[e[i]].cmd

\* The file and what waits to be written.
Kept == file \o Pending(a)

\* What is kept is made of whole commands, and so is each of its three parts,
\* the file, the write in flight and the active buffer.  Its commands are those
\* the server has executed; after a crash, the first of them.
KeptWhole ==
  /\ mem \in Seq(Nat)
  /\ Joined(Kept) /\ EndsAt(Kept, Len(Kept))
  /\ EndsAt(Kept, Len(file)) /\ EndsAt(Kept, Len(file) + Len(InFlight))
  /\ \E n \in 0..Len(mem) : Listed(mem, Kept, n) /\ (apc # "down" => n = Len(mem))

\* What kvs_persistence_write waits to append is one command.
ArgCommand == Waiting => \E c \in Nat, sz \in Sizes : arg = CmdBytes(c, sz)

RestartInv == ArgCommand /\ (intact => KeptWhole)

\* A set of naturals that is not empty has a least element.
LEMMA Least ==
  ASSUME NEW S, S \subseteq Nat, S # {}
  PROVE  \E x \in S : \A y \in S : x =< y
<1> DEFINE R == OpToRel(<, Nat)
<1>1. IsWellFoundedOn(R, Nat)  BY NatLessThanWellFounded
<1>2. PICK x \in S : \A y \in S : ~(<<y, x>> \in R)  BY <1>1, WFMin
<1>3. ASSUME NEW y \in S PROVE x =< y
  <2>1. <<y, x>> \in Nat \X Nat  OBVIOUS
  <2>2. ~(y < x)  BY <1>2, <2>1 DEF OpToRel
  <2> QED  BY <2>2
<1> QED  BY <1>3

\* The first m places of e.
Places(e, m) == {e[i] : i \in 1..m}

\* The first places of an increasing function are as many as its arguments.
LEMMA CountPlaces ==
  ASSUME NEW n \in Nat, NEW e, \A i \in 1..n : e[i] \in Nat,
         \A i, j \in 1..n : i < j => e[i] < e[j], NEW m \in 0..n
  PROVE  Cardinality(Places(e, m)) = m
<1> DEFINE S == Places(e, m)
           f == [i \in 1..m |-> e[i]]
<1>1. \A i \in 1..m : i \in 1..n  OBVIOUS
<1>2. f \in Surjection(1..m, S)  BY DEF Surjection, Places
<1>3. ASSUME NEW i \in 1..m, NEW j \in 1..m, f[i] = f[j] PROVE i = j
  <2>1. e[i] = e[j] /\ e[i] \in Nat /\ e[j] \in Nat  BY <1>3, <1>1
  <2>2. ~(i < j) /\ ~(j < i)  BY <1>1, <2>1
  <2> QED  BY <2>2
<1>4. f \in Injection(1..m, S)  BY <1>2, <1>3 DEF Surjection, Injection, IsInjective
<1>5. ExistsBijection(1..m, S)  BY <1>2, <1>4 DEF ExistsBijection, Bijection
<1>6. IsFiniteSet(1..m) /\ Cardinality(1..m) = m  BY FS_Interval
<1> QED  BY <1>5, <1>6, FS_Bijection

\* A replay of whole commands gets to the end.
LEMMA ReplaysAll ==
  ASSUME NEW s \in Data, Joined(s), EndsAt(s, Len(s))
  PROVE  ReplayEnd(s) = Len(s)
<1> DEFINE A == {k \in 1..Len(s) : WholeUpTo(s, k)} \cup {0}
<1>1. Len(s) \in Nat  BY DEF Data
<1>2. Len(s) \in A
  <2>1. CASE Len(s) = 0  BY <2>1
  <2>2. CASE Len(s) # 0
    <3>1. Len(s) \in 1..Len(s)  BY <1>1, <2>2
    <3>2. WholeUpTo(s, Len(s))  BY <2>2 DEF WholeUpTo, Joined, EndsAt
    <3> QED  BY <3>1, <3>2
  <2> QED  BY <2>1, <2>2
<1>3. \A k \in A : k \in Nat /\ k =< Len(s)  BY <1>1
<1>4. ReplayEnd(s) = Max(A)  BY DEF ReplayEnd
<1> HIDE DEF A
<1>5. \A k \in A : Len(s) >= k  BY <1>1, <1>3
<1>6. Max(A) \in A /\ \A k \in A : Max(A) >= k  BY <1>2, <1>5 DEF Max
<1> QED  BY <1>1, <1>2, <1>3, <1>4, <1>6

\* It executes the commands that end in it, in order.
LEMMA ReplayedIs ==
  ASSUME NEW s \in Data, Joined(s), EndsAt(s, Len(s)), NEW n \in Nat, NEW e, Ending(s, e, n)
  PROVE  Replayed(s) = [i \in 1..n |-> s[e[i]].cmd]
<1> DEFINE ends == EndsOf(s, ReplayEnd(s))
<1>0. Len(s) \in Nat  BY DEF Data
<1>1. ends = {k \in 1..Len(s) : s[k].at = s[k].of}  BY ReplaysAll DEF EndsOf
<1>2. /\ \A i \in 1..n : e[i] \in 1..Len(s) /\ e[i] \in Nat
      /\ \A i, j \in 1..n : i < j => e[i] < e[j]
      /\ \A k \in 1..Len(s) : s[k].at = s[k].of <=> \E i \in 1..n : e[i] = k
  BY <1>0 DEF Ending
<1>3. ends = Places(e, n)  BY <1>1, <1>2 DEF Places
<1> DEFINE rank(i) == Cardinality({j \in ends : j <= i})
<1>4. ASSUME NEW m \in 1..n PROVE {j \in ends : j <= e[m]} = Places(e, m)
  <2>1. ASSUME NEW i \in 1..n PROVE e[i] <= e[m] <=> i <= m
    <3>1. e[i] \in Nat /\ e[m] \in Nat  BY <1>2
    <3>2. i < m => e[i] < e[m]  BY <1>2
    <3>3. m < i => e[m] < e[i]  BY <1>2
    <3> QED  BY <3>1, <3>2, <3>3
  <2> QED  BY <1>3, <2>1 DEF Places
<1>5. ASSUME NEW m \in 1..n PROVE rank(e[m]) = m
  <2>1. m \in 0..n  OBVIOUS
  <2>2. Cardinality(Places(e, m)) = m  BY <1>2, <2>1, CountPlaces
  <2> QED  BY <1>4, <2>2
<1>6. Cardinality(ends) = n
  <2>1. n \in 0..n  OBVIOUS
  <2>2. Cardinality(Places(e, n)) = n  BY <1>2, <2>1, CountPlaces
  <2> QED  BY <1>3, <2>2
<1>7. Replayed(s) = [m \in 1..Cardinality(ends) |-> s[CHOOSE i \in ends : rank(i) = m].cmd]
  BY DEF Replayed
<1> HIDE DEF ends, rank
<1>8. ASSUME NEW m \in 1..n PROVE (CHOOSE i \in ends : rank(i) = m) = e[m]
  <2>1. e[m] \in ends /\ rank(e[m]) = m  BY <1>3, <1>5 DEF Places
  <2>2. ASSUME NEW i \in ends, rank(i) = m PROVE i = e[m]
    <3>1. PICK k \in 1..n : i = e[k]  BY <1>3 DEF Places
    <3> QED  BY <3>1, <2>2, <1>5
  <2>3. \E i \in ends : rank(i) = m  BY <2>1
  <2>4. (CHOOSE i \in ends : rank(i) = m) \in ends /\ rank(CHOOSE i \in ends : rank(i) = m) = m  BY <2>3
  <2> QED  BY <2>2, <2>4
<1> QED  BY <1>6, <1>7, <1>8

\* The bytes of a whole command: its last one, and only that, ends it.
LEMMA CmdBytesAre ==
  ASSUME NEW c \in Nat, NEW sz \in Sizes
  PROVE  /\ sz \in Nat /\ sz >= 1 /\ CmdBytes(c, sz) \in Data /\ Len(CmdBytes(c, sz)) = sz
         /\ \A i \in 1..sz : /\ CmdBytes(c, sz)[i].cmd = c
                             /\ CmdBytes(c, sz)[i].at = i
                             /\ CmdBytes(c, sz)[i].of = sz
<1>1. sz \in Nat /\ sz >= 1  BY AofAssumption
<1> QED  BY <1>1, CmdBytesType DEF CmdBytes

\* A command after whole commands.
LEMMA JoinedAppend ==
  ASSUME NEW s \in Data, NEW c \in Nat, NEW sz \in Sizes, Joined(s), EndsAt(s, Len(s))
  PROVE  /\ Joined(s \o CmdBytes(c, sz))
         /\ EndsAt(s \o CmdBytes(c, sz), Len(s \o CmdBytes(c, sz)))
<1> DEFINE t == CmdBytes(c, sz)
           w == s \o t
<1>1. /\ sz \in Nat /\ sz >= 1 /\ t \in Data /\ Len(t) = sz
      /\ \A i \in 1..sz : t[i].cmd = c /\ t[i].at = i /\ t[i].of = sz
  BY CmdBytesAre
<1> HIDE DEF t
<1>2. /\ Len(s) \in Nat /\ Len(w) = Len(s) + sz
      /\ \A i \in 1..Len(s) : w[i] = s[i]
      /\ \A i \in (Len(s) + 1)..(Len(s) + sz) : w[i] = t[i - Len(s)]
  BY <1>1, Elements
<1> HIDE DEF w
<1>3. \A i \in (Len(s) + 1)..(Len(s) + sz) : w[i].cmd = c /\ w[i].at = i - Len(s) /\ w[i].of = sz
  <2> SUFFICES ASSUME NEW i \in (Len(s) + 1)..(Len(s) + sz)
               PROVE w[i].cmd = c /\ w[i].at = i - Len(s) /\ w[i].of = sz
    OBVIOUS
  <2>1. i - Len(s) \in 1..sz  BY <1>1, <1>2
  <2> QED  BY <2>1, <1>1, <1>2
<1>4. ASSUME NEW i \in 1..Len(w)
      PROVE  IF i = 1 THEN w[i].at = 1
             ELSE \/ w[i].at = 1 /\ w[i - 1].at = w[i - 1].of
                  \/ w[i].at = w[i - 1].at + 1 /\ w[i].cmd = w[i - 1].cmd
  <2>1. CASE i <= Len(s)
    <3>1. i \in 1..Len(s) /\ (i # 1 => i - 1 \in 1..Len(s))  BY <2>1, <1>2
    <3>2. w[i] = s[i] /\ (i # 1 => w[i - 1] = s[i - 1])  BY <3>1, <1>2
    <3>3. IF i = 1 THEN s[i].at = 1
          ELSE \/ s[i].at = 1 /\ s[i - 1].at = s[i - 1].of
               \/ s[i].at = s[i - 1].at + 1 /\ s[i].cmd = s[i - 1].cmd
      BY <3>1 DEF Joined
    <3> QED  BY ONLY <3>2, <3>3
  <2>2. CASE i = Len(s) + 1
    <3>1. w[i].at = 1  BY <2>2, <1>1, <1>2, <1>3
    <3>2. CASE i = 1  BY <3>1, <3>2
    <3>3. CASE i # 1
      <4>1. i - 1 = Len(s) /\ Len(s) # 0 /\ Len(s) \in 1..Len(s)  BY <2>2, <3>3, <1>2
      <4>2. w[i - 1].at = w[i - 1].of  BY <4>1, <1>2 DEF EndsAt
      <4> QED  BY <3>1, <3>3, <4>2
    <3> QED  BY <3>2, <3>3
  <2>3. CASE i > Len(s) + 1
    <3>1. i \in (Len(s) + 1)..(Len(s) + sz) /\ i - 1 \in (Len(s) + 1)..(Len(s) + sz)  BY <2>3, <1>1, <1>2
    <3>2. w[i].cmd = c /\ w[i].at = i - Len(s) /\ w[i - 1].cmd = c /\ w[i - 1].at = (i - 1) - Len(s)
      BY <3>1, <1>3
    <3>3. i # 1 /\ w[i].at = w[i - 1].at + 1  BY <3>1, <3>2, <1>2
    <3> QED  BY <3>2, <3>3
  <2>4. i <= Len(s) \/ i = Len(s) + 1 \/ i > Len(s) + 1  BY <1>1, <1>2
  <2> QED  BY ONLY <2>1, <2>2, <2>3, <2>4
<1>5. EndsAt(w, Len(w))
  <2>1. Len(w) \in (Len(s) + 1)..(Len(s) + sz) /\ Len(w) - Len(s) = sz  BY <1>1, <1>2
  <2> QED  BY <2>1, <1>3 DEF EndsAt
<1> QED  BY <1>4, <1>5 DEF Joined, w, t

\* It is listed after the others.
LEMMA ListedAppend ==
  ASSUME NEW s \in Data, NEW c \in Nat, NEW sz \in Sizes, NEW m \in Seq(Nat), Listed(m, s, Len(m))
  PROVE  /\ Append(m, c) \in Seq(Nat) /\ Len(Append(m, c)) = Len(m) + 1
         /\ Listed(Append(m, c), s \o CmdBytes(c, sz), Len(m) + 1)
<1> DEFINE t == CmdBytes(c, sz)
           w == s \o t
           n == Len(m)
           q == Append(m, c)
<1>1. /\ sz \in Nat /\ sz >= 1 /\ t \in Data /\ Len(t) = sz
      /\ \A i \in 1..sz : t[i].cmd = c /\ t[i].at = i /\ t[i].of = sz
  BY CmdBytesAre
<1> HIDE DEF t
<1>2. /\ Len(s) \in Nat /\ Len(w) = Len(s) + sz
      /\ \A i \in 1..Len(s) : w[i] = s[i]
      /\ \A i \in (Len(s) + 1)..(Len(s) + sz) : w[i] = t[i - Len(s)]
  BY <1>1, Elements
<1>q. q \in Seq(Nat) /\ Len(q) = n + 1 /\ q[n + 1] = c /\ n \in Nat /\ \A i \in 1..n : q[i] = m[i]
  OBVIOUS
<1>3. PICK e : Ending(s, e, n) /\ \A i \in 1..n : m[i] = s[e[i]].cmd  BY DEF Listed
<1> HIDE DEF w, n, q
<1>4. /\ \A i \in 1..n : e[i] \in 1..Len(s)
      /\ \A i, j \in 1..n : i < j => e[i] < e[j]
      /\ \A k \in 1..Len(s) : s[k].at = s[k].of <=> \E i \in 1..n : e[i] = k
  BY <1>3 DEF Ending
<1> DEFINE g == [i \in 1..(n + 1) |-> IF i = n + 1 THEN Len(w) ELSE e[i]]
<1>5. /\ g[n + 1] = Len(w) /\ \A i \in 1..n : g[i] = e[i]
      /\ DOMAIN g = 1..(n + 1) /\ g = [i \in 1..(n + 1) |-> g[i]]
  BY <1>q
<1>l. Len(w) \in (Len(s) + 1)..(Len(s) + sz) /\ Len(w) - Len(s) = sz /\ Len(w) \in 1..Len(w)  BY <1>1, <1>2
<1> HIDE DEF g
<1>6. \A i \in 1..(n + 1) : g[i] \in 1..Len(w)
  <2> SUFFICES ASSUME NEW i \in 1..(n + 1) PROVE g[i] \in 1..Len(w)  OBVIOUS
  <2>1. CASE i = n + 1  BY <2>1, <1>5, <1>l
  <2>2. CASE i # n + 1
    <3>1. i \in 1..n  BY <2>2, <1>q
    <3>2. g[i] \in 1..Len(s)  BY <3>1, <1>4, <1>5
    <3> QED  BY <3>2, <1>1, <1>2
  <2> QED  BY <2>1, <2>2
<1>7. ASSUME NEW i \in 1..(n + 1), NEW j \in 1..(n + 1), i < j PROVE g[i] < g[j]
  <2>1. i \in 1..n  BY <1>7, <1>q
  <2>2. CASE j = n + 1
    <3>1. e[i] \in 1..Len(s) /\ g[i] = e[i] /\ g[j] = Len(w)  BY <2>1, <2>2, <1>4, <1>5
    <3> QED  BY <3>1, <1>l, <1>2
  <2>3. CASE j # n + 1
    <3>1. j \in 1..n  BY <2>3, <1>q
    <3> QED  BY <2>1, <3>1, <1>4, <1>5, <1>7
  <2> QED  BY <2>2, <2>3
<1>8. ASSUME NEW k \in 1..Len(w) PROVE w[k].at = w[k].of <=> \E i \in 1..(n + 1) : g[i] = k
  <2>1. CASE k <= Len(s)
    <3>1. k \in 1..Len(s) /\ k # Len(w)  BY <2>1, <1>1, <1>2
    <3>2. (\E i \in 1..(n + 1) : g[i] = k) <=> \E i \in 1..n : e[i] = k
      <4>1. ASSUME NEW i \in 1..(n + 1), g[i] = k PROVE \E j \in 1..n : e[j] = k
        <5>1. i # n + 1  BY <4>1, <3>1, <1>5
        <5>2. i \in 1..n  BY <5>1, <1>q
        <5> QED  BY <4>1, <5>2, <1>5
      <4>2. ASSUME NEW i \in 1..n, e[i] = k PROVE \E j \in 1..(n + 1) : g[j] = k
        <5>1. i \in 1..(n + 1)  BY <1>q
        <5> QED  BY <5>1, <4>2, <1>5
      <4> QED  BY <4>1, <4>2
    <3> QED  BY <3>1, <3>2, <1>2, <1>4
  <2>2. CASE k > Len(s)
    <3>1. k \in (Len(s) + 1)..(Len(s) + sz) /\ k - Len(s) \in 1..sz  BY <2>2, <1>1, <1>2
    <3>2. w[k].at = k - Len(s) /\ w[k].of = sz  BY <3>1, <1>1, <1>2
    <3>3. w[k].at = w[k].of <=> k = Len(w)  BY <3>1, <3>2, <1>1, <1>2
    <3>4. ASSUME NEW i \in 1..(n + 1), g[i] = k PROVE k = Len(w)
      <4>1. CASE i = n + 1  BY <4>1, <3>4, <1>5
      <4>2. CASE i # n + 1
        <5>1. i \in 1..n  BY <4>2, <1>q
        <5>2. k \in 1..Len(s)  BY <5>1, <3>4, <1>4, <1>5
        <5> QED  BY <5>2, <2>2, <1>2
      <4> QED  BY <4>1, <4>2
    <3>5. n + 1 \in 1..(n + 1)  BY <1>q
    <3> QED  BY <3>3, <3>4, <3>5, <1>5
  <2> QED  BY <2>1, <2>2, <1>1, <1>2
<1>9. \A i \in 1..(n + 1) : q[i] = w[g[i]].cmd
  <2> SUFFICES ASSUME NEW i \in 1..(n + 1) PROVE q[i] = w[g[i]].cmd  OBVIOUS
  <2>1. CASE i = n + 1
    <3>1. w[Len(w)].cmd = c
      <4>1. Len(w) - Len(s) \in 1..sz  BY <1>l, <1>1
      <4> QED  BY <4>1, <1>l, <1>1, <1>2
    <3> QED  BY <2>1, <3>1, <1>5, <1>q
  <2>2. CASE i # n + 1
    <3>1. i \in 1..n  BY <2>2, <1>q
    <3>2. e[i] \in 1..Len(s) /\ m[i] = s[e[i]].cmd  BY <3>1, <1>3, <1>4
    <3> QED  BY <3>1, <3>2, <1>2, <1>5, <1>q
  <2> QED  BY <2>1, <2>2
<1>10. g \in [1..(n + 1) -> 1..Len(w)]  BY <1>5, <1>6
<1>11. Ending(w, g, n + 1)  BY <1>7, <1>8, <1>10 DEF Ending
<1> QED  BY <1>9, <1>11, <1>q DEF Listed, w, t, n, q

\* A beginning of what is kept lists the first commands.
LEMMA ListedFront ==
  ASSUME NEW s \in Data, NEW t \in Data, NEW m, NEW n \in Nat, Listed(m, s \o t, n), Joined(s \o t)
  PROVE  Joined(s) /\ \E k \in 0..n : Listed(m, s, k)
<1> DEFINE w == s \o t
<1>1. /\ Len(s) \in Nat /\ Len(t) \in Nat /\ Len(w) = Len(s) + Len(t)
      /\ \A i \in 1..Len(s) : w[i] = s[i]
  BY Elements
<1>2. PICK e : Ending(w, e, n) /\ \A i \in 1..n : m[i] = w[e[i]].cmd  BY DEF Listed
<1>j. Joined(w)  OBVIOUS
<1> HIDE DEF w
<1>3. /\ \A i \in 1..n : e[i] \in 1..Len(w)
      /\ \A i, j \in 1..n : i < j => e[i] < e[j]
      /\ \A k \in 1..Len(w) : w[k].at = w[k].of <=> \E i \in 1..n : e[i] = k
  BY <1>2 DEF Ending
<1>4. Joined(s)
  <2> SUFFICES ASSUME NEW i \in 1..Len(s)
               PROVE  IF i = 1 THEN s[i].at = 1
                      ELSE \/ s[i].at = 1 /\ s[i - 1].at = s[i - 1].of
                           \/ s[i].at = s[i - 1].at + 1 /\ s[i].cmd = s[i - 1].cmd
    BY DEF Joined
  <2>1. i \in 1..Len(w) /\ (i # 1 => i - 1 \in 1..Len(s))  BY <1>1
  <2> QED  BY <2>1, <1>1, <1>j DEF Joined
<1>5. PICK k \in 0..n : \A i \in 1..n : i <= k <=> e[i] <= Len(s)
  <2> DEFINE S == {i \in 1..n : e[i] > Len(s)} \cup {n + 1}
  <2>1. S \subseteq Nat /\ S # {}  OBVIOUS
  <2>2. PICK x \in S : \A y \in S : x <= y
    <3> HIDE DEF S
    <3> QED  BY <2>1, Least
  <2>3. x \in 1..(n + 1) /\ x - 1 \in 0..n  OBVIOUS
  <2>4. ASSUME NEW i \in 1..n PROVE i <= x - 1 <=> e[i] <= Len(s)
    <3>1. e[i] \in Nat  BY <1>1, <1>3
    <3>2. CASE i < x
      <4>1. i \notin S  BY <2>2, <2>3, <3>2
      <4> QED  BY <4>1, <3>1, <3>2, <1>1, <2>3
    <3>3. CASE ~(i < x)
      <4>1. x \in 1..n /\ e[x] > Len(s)  BY <3>3, <2>2, <2>3
      <4>2. e[x] \in Nat /\ e[x] <= e[i]
        <5>1. e[x] \in Nat  BY <4>1, <1>1, <1>3
        <5>2. CASE x = i  BY <5>1, <5>2
        <5>3. CASE x < i  BY <5>1, <5>3, <4>1, <3>1, <1>3
        <5> QED  BY <5>2, <5>3, <3>3, <4>1
      <4> QED  BY <4>1, <4>2, <3>1, <3>3, <1>1
    <3> QED  BY <3>2, <3>3
  <2> QED  BY <2>3, <2>4
<1> DEFINE g == [i \in 1..k |-> e[i]]
<1>6. \A i \in 1..k : i \in 1..n /\ e[i] \in 1..Len(s) /\ g[i] = e[i]
  <2> SUFFICES ASSUME NEW i \in 1..k PROVE i \in 1..n /\ e[i] \in 1..Len(s) /\ g[i] = e[i]  OBVIOUS
  <2>1. i \in 1..n  OBVIOUS
  <2>2. e[i] <= Len(s) /\ e[i] \in 1..Len(w)  BY <2>1, <1>5, <1>3
  <2> QED  BY <2>1, <2>2, <1>1
<1>7. g \in [1..k -> 1..Len(s)]  BY <1>6
<1> HIDE DEF g
<1>8. \A i, j \in 1..k : i < j => g[i] < g[j]  BY <1>3, <1>6
<1>9. ASSUME NEW p \in 1..Len(s) PROVE s[p].at = s[p].of <=> \E i \in 1..k : g[i] = p
  <2>1. p \in 1..Len(w) /\ w[p] = s[p]  BY <1>1
  <2>2. ASSUME NEW i \in 1..n, e[i] = p PROVE \E j \in 1..k : g[j] = p
    <3>1. i \in 1..k  BY <2>2, <1>5, <1>1
    <3> QED  BY <3>1, <2>2, <1>6
  <2>3. ASSUME NEW i \in 1..k, g[i] = p PROVE \E j \in 1..n : e[j] = p
    BY <2>3, <1>6
  <2> QED  BY <2>1, <2>2, <2>3, <1>3
<1>10. \A i \in 1..k : m[i] = s[g[i]].cmd  BY <1>1, <1>2, <1>6
<1>11. Listed(m, s, k)  BY <1>7, <1>8, <1>9, <1>10 DEF Listed, Ending
<1> QED  BY <1>4, <1>11

\* Types that the steps below use.
LEMMA KeptType ==
  ASSUME Shape
  PROVE  /\ file \in Data /\ a.flush \in Data /\ a.active \in Data /\ arg \in Data
         /\ InFlight \in Data /\ Pending(a) \in Data /\ Kept \in Data
         /\ Len(file) \in Nat /\ Len(InFlight) \in Nat /\ Len(Pending(a)) \in Nat
         /\ Len(Kept) = Len(file) + Len(Pending(a))
<1>1. /\ file \in Data /\ a.flush \in Data /\ a.active \in Data /\ arg \in Data /\ Pending(a) \in Data
  BY PendingType DEF Shape, BufSet
<1>2. InFlight \in Data  BY <1>1, Concat DEF InFlight
<1>3. Kept \in Data  BY <1>1, Concat DEF Kept
<1> QED  BY <1>1, <1>2, <1>3, Elements DEF Kept

\* Steps that keep the bytes and the commands, and move the boundaries between
\* the parts only to where a command ends.
LEMMA SameKept ==
  ASSUME Shape, intact => KeptWhole, intact' => intact, Kept' = Kept, mem' = mem,
         apc # "down", apc' # "down",
         intact => EndsAt(Kept, Len(file')) /\ EndsAt(Kept, Len(file') + Len(InFlight'))
  PROVE  intact' => KeptWhole'
<1> SUFFICES ASSUME intact', intact PROVE KeptWhole'  OBVIOUS
<1>1. /\ mem \in Seq(Nat) /\ Joined(Kept) /\ EndsAt(Kept, Len(Kept))
      /\ \E n \in 0..Len(mem) : Listed(mem, Kept, n) /\ n = Len(mem)
  BY DEF KeptWhole
<1>2. /\ mem' \in Seq(Nat) /\ Joined(Kept') /\ EndsAt(Kept', Len(Kept'))
      /\ \E n \in 0..Len(mem') : Listed(mem', Kept', n) /\ n = Len(mem')
  BY <1>1
<1>3. EndsAt(Kept', Len(file')) /\ EndsAt(Kept', Len(file') + Len(InFlight'))  OBVIOUS
<1> QED  BY <1>2, <1>3 DEF KeptWhole

\* What is in flight: after a swap or a reaped completion it is what was before,
\* everything that waited, or nothing.
Sub(b) == IF b.io = "submitted" THEN b.flush ELSE << >>

\* After a swap.
LEMMA TriggerSub ==
  ASSUME NEW b \in BufSet, Held(b) PROVE Sub(Trigger(b)) \in {Sub(b), Pending(b)}
<1>1. CASE b.active = << >> \/ b.busy  BY <1>1 DEF Trigger
<1>2. CASE ~(b.active = << >> \/ b.busy)
  <2>1. Sub(Trigger(b)) = b.active  BY <1>2 DEF Trigger, Sub
  <2>2. b.active \in Data /\ b.io # "submitted"  BY <1>2 DEF BufSet, Held
  <2>3. Pending(b) = << >> \o b.active  BY <2>2 DEF Pending
  <2> QED  BY <2>1, <2>2, <2>3, Concat
<1> QED  BY <1>1, <1>2

\* After a reaped completion nothing is in flight.
LEMMA ReapedSub ==
  ASSUME NEW b \in BufSet PROVE Sub(Reaped(b)) = << >>
BY DEF Reaped, Sub, BufSet

\* After aof_check_cqe_nonblock.
LEMMA CheckSub ==
  ASSUME NEW b \in BufSet, Held(b) PROVE Sub(CheckCqe(b)) \in {Sub(b), Pending(b), << >>}
<1>1. CASE ~b.busy \/ b.io # "complete"  BY <1>1 DEF CheckCqe
<1>2. CASE b.busy /\ b.io = "complete"
  <2>1. /\ Reaped(b) \in BufSet /\ Held(Reaped(b)) /\ Pending(Reaped(b)) = Pending(b)
        /\ Sub(Reaped(b)) = << >>
    BY <1>2, ReapedKeeps, ReapedSub
  <2>2. Sub(Trigger(Reaped(b))) \in {Sub(Reaped(b)), Pending(Reaped(b))}  BY <2>1, TriggerSub
  <2> QED  BY <1>2, <2>1, <2>2 DEF CheckCqe
<1> QED  BY <1>1, <1>2

\* So for every step that only reaps and swaps.
LEMMA QuietFlight ==
  ASSUME Shape, WriteCheck \/ WriteWait \/ FlushPending \/ ForceFlush \/ Timeout \/ CloseBegin
                  \/ CloseWait \/ (WriteTrigger /\ a' = Trigger(a))
  PROVE  InFlight' \in {InFlight, Pending(a), << >>}
<1>a. a \in BufSet /\ Held(a) /\ InFlight = Sub(a) /\ InFlight' = Sub(a')
  BY DEF Shape, InFlight, Sub
<1>b. Sub(CheckCqe(a)) \in {Sub(a), Pending(a), << >>}  BY <1>a, CheckSub
<1>c. Sub(Trigger(CheckCqe(a))) \in {Sub(CheckCqe(a)), Pending(a)}
  <2>1. CheckCqe(a) \in BufSet /\ Held(CheckCqe(a)) /\ Pending(CheckCqe(a)) = Pending(a)
    BY <1>a, CheckCqeKeeps
  <2> QED  BY <2>1, TriggerSub
<1>d. Sub(Trigger(a)) \in {Sub(a), Pending(a)}  BY <1>a, TriggerSub
<1>1. CASE WriteCheck  BY <1>1, <1>a, <1>b DEF WriteCheck
<1>2. CASE WriteWait  BY <1>2, <1>a, ReapedSub DEF WriteWait
<1>3. CASE FlushPending
  <2>1. a' = Trigger(CheckCqe(a)) \/ a' = CheckCqe(a)  BY <1>3 DEF FlushPending
  <2> QED  BY <2>1, <1>a, <1>b, <1>c
<1>4. CASE ForceFlush
  <2>1. a' = Trigger(CheckCqe(a)) \/ a' = CheckCqe(a)  BY <1>4 DEF ForceFlush
  <2> QED  BY <2>1, <1>a, <1>b, <1>c
<1>5. CASE Timeout  BY <1>5 DEF Timeout, InFlight
<1>6. CASE CloseBegin
  <2>1. a' = Trigger(CheckCqe(a)) \/ a' = CheckCqe(a)  BY <1>6 DEF CloseBegin
  <2> QED  BY <2>1, <1>a, <1>b, <1>c
<1>7. CASE CloseWait
  <2>1. a'.io = "none"  BY <1>7, <1>a DEF CloseWait, BufSet
  <2> QED  BY <2>1 DEF InFlight
<1>8. CASE WriteTrigger /\ a' = Trigger(a)  BY <1>8, <1>a, <1>d
<1> QED  BY <1>1, <1>2, <1>3, <1>4, <1>5, <1>6, <1>7, <1>8

\* These steps keep whole commands whole.
LEMMA QuietWhole ==
  ASSUME Shape, intact => KeptWhole, Quiet, InFlight' \in {InFlight, Pending(a), << >>},
         mem' = mem, apc # "down", apc' # "down"
  PROVE  intact' => KeptWhole'
<1>1. Kept' = Kept /\ file' = file /\ (intact' => intact)  BY DEF Quiet, Kept
<1>2. Len(file) \in Nat /\ Len(Kept) = Len(file) + Len(Pending(a))  BY KeptType
<1>3. ASSUME intact PROVE EndsAt(Kept, Len(file)) /\ EndsAt(Kept, Len(file) + Len(InFlight'))
  <2>1. EndsAt(Kept, Len(file)) /\ EndsAt(Kept, Len(file) + Len(InFlight)) /\ EndsAt(Kept, Len(Kept))
    BY <1>3 DEF KeptWhole
  <2>2. CASE InFlight' = InFlight  BY <2>1, <2>2
  <2>3. CASE InFlight' = Pending(a)  BY <2>1, <2>3, <1>2
  <2>4. CASE InFlight' = << >>
    <3>1. Len(file) + Len(InFlight') = Len(file)  BY <2>4, <1>2
    <3> QED  BY <2>1, <3>1
  <2> QED  BY <2>2, <2>3, <2>4, <2>1
<1>4. intact => EndsAt(Kept, Len(file')) /\ EndsAt(Kept, Len(file') + Len(InFlight'))  BY <1>1, <1>3
<1> QED  BY <1>1, <1>4, SameKept

\* A command that is logged and executed.
LEMMA LoggedWhole ==
  ASSUME Shape, intact => KeptWhole, NEW c \in Nat, NEW sz \in Sizes, Extends(CmdBytes(c, sz)),
         mem' = Append(mem, c), InFlight' \in {InFlight, Pending(a)}, apc # "down", apc' # "down"
  PROVE  intact' => KeptWhole'
<1> SUFFICES ASSUME intact' PROVE KeptWhole'  OBVIOUS
<1> DEFINE t == CmdBytes(c, sz)
           w == Kept \o t
<1>1. /\ file \in Data /\ Pending(a) \in Data /\ Kept \in Data
      /\ Len(file) \in Nat /\ Len(InFlight) \in Nat /\ Len(Pending(a)) \in Nat
      /\ Len(Kept) = Len(file) + Len(Pending(a)) /\ Len(InFlight) <= Len(Pending(a))
  <2>1. Pending(a) = InFlight \o a.active  BY DEF Pending, InFlight
  <2>2. Len(Pending(a)) = Len(InFlight) + Len(a.active) /\ Len(a.active) \in Nat
    BY <2>1, KeptType, Elements
  <2> QED  BY <2>2, KeptType
<1>2. t \in Data  BY CmdBytesAre
<1>3. intact /\ file' = file /\ Pending(a') = Pending(a) \o t  BY DEF Extends
<1>4. Kept' = w
  <2>1. Kept' = file \o (Pending(a) \o t)  BY <1>3 DEF Kept
  <2> HIDE DEF t
  <2> QED  BY <2>1, <1>1, <1>2, Assoc DEF Kept
<1>5. /\ mem \in Seq(Nat) /\ Joined(Kept) /\ EndsAt(Kept, Len(Kept)) /\ Listed(mem, Kept, Len(mem))
      /\ EndsAt(Kept, Len(file)) /\ EndsAt(Kept, Len(file) + Len(InFlight))
  BY <1>3 DEF KeptWhole
<1>6. Joined(w) /\ EndsAt(w, Len(w))  BY <1>1, <1>5, JoinedAppend
<1>7. /\ mem' \in Seq(Nat) /\ Len(mem') = Len(mem) + 1 /\ Listed(mem', w, Len(mem'))
      /\ Len(mem') \in 0..Len(mem')
  <2>1. Append(mem, c) \in Seq(Nat) /\ Len(Append(mem, c)) = Len(mem) + 1 /\ Listed(Append(mem, c), w, Len(mem) + 1)
    BY <1>1, <1>5, ListedAppend
  <2>2. Len(mem) \in Nat  BY <1>5
  <2> QED  BY <2>1, <2>2
<1>8. \A k \in 0..Len(Kept) : EndsAt(Kept, k) => EndsAt(w, k)
  <2>1. \A k \in 1..Len(Kept) : w[k] = Kept[k]  BY <1>1, <1>2, Elements
  <2>2. ASSUME NEW k \in 0..Len(Kept), EndsAt(Kept, k) PROVE EndsAt(w, k)
    <3>1. CASE k = 0  BY <3>1 DEF EndsAt
    <3>2. CASE k # 0
      <4>1. k \in 1..Len(Kept)  BY <3>2, <1>1
      <4> HIDE DEF w
      <4> QED  BY <4>1, <2>1, <2>2, <3>2 DEF EndsAt
    <3> QED  BY <3>1, <3>2
  <2> QED  BY <2>2
<1> HIDE DEF w
<1>9. EndsAt(w, Len(file)) /\ EndsAt(w, Len(file) + Len(InFlight')) 
  <2>1. Len(file) \in 0..Len(Kept) /\ Len(file) + Len(InFlight) \in 0..Len(Kept) /\ Len(Kept) \in 0..Len(Kept)
    BY <1>1
  <2>2. EndsAt(w, Len(file)) /\ EndsAt(w, Len(file) + Len(InFlight)) /\ EndsAt(w, Len(file) + Len(Pending(a)))
    BY <2>1, <1>1, <1>5, <1>8
  <2> QED  BY <2>2
<1> QED  BY <1>3, <1>4, <1>6, <1>7, <1>9 DEF KeptWhole

\* A crash keeps a beginning of whole commands.
LEMMA CrashWhole ==
  ASSUME Shape, intact => KeptWhole, Crash PROVE intact' => KeptWhole'
<1> SUFFICES ASSUME intact' PROVE KeptWhole'  OBVIOUS
<1>1. /\ file \in Data /\ a.flush \in Data /\ a.active \in Data /\ Pending(a) \in Data
      /\ Len(file) \in Nat /\ Kept = file \o Pending(a)
  BY KeptType DEF Kept
<1>2. a' = Empty /\ mem' = mem /\ apc' = "down" /\ apc # "down"  BY DEF Crash
<1>3. PICK r \in Data : /\ intact /\ file' \in Data /\ Kept = file' \o r
                        /\ EndsAt(Kept, Len(file'))
  <2>1. CASE a.io = "submitted"
    <3>1. PICK n \in 0..Len(a.flush) :
            /\ file' = file \o SubSeq(a.flush, 1, n)
            /\ intact' = (intact /\ n \in {0, Len(a.flush)})
      BY <2>1 DEF Crash
    <3>2. intact /\ n \in {0, Len(a.flush)}  BY <3>1
    <3>3. InFlight = a.flush /\ Pending(a) = a.flush \o a.active  BY <2>1 DEF InFlight, Pending
    <3>4. EndsAt(Kept, Len(file)) /\ EndsAt(Kept, Len(file) + Len(a.flush))  BY <3>2, <3>3 DEF KeptWhole
    <3>5. CASE n = 0
      <4>1. SubSeq(a.flush, 1, n) = << >>  BY <3>5, <1>1 DEF Data
      <4>2. file' = file  BY <3>1, <4>1, <1>1, Concat
      <4> QED  BY <4>2, <3>2, <3>4, <1>1
    <3>6. CASE n = Len(a.flush)
      <4>1. SubSeq(a.flush, 1, n) = a.flush  BY <3>6, <1>1, SubSeqFull DEF Data
      <4>2. file' = file \o a.flush  BY <3>1, <4>1
      <4>3. file \o a.flush \in Data /\ Len(file \o a.flush) = Len(file) + Len(a.flush)
        BY <1>1, Concat, Elements
      <4>4. file \o (a.flush \o a.active) = (file \o a.flush) \o a.active
        <5>1. file \in Data /\ a.flush \in Data /\ a.active \in Data  BY <1>1
        <5> QED  BY ONLY <5>1, Assoc
      <4> QED  BY <4>2, <4>3, <4>4, <3>2, <3>3, <3>4, <1>1
    <3> QED  BY <3>2, <3>5, <3>6
  <2>2. CASE a.io # "submitted"
    <3>1. file' = file /\ intact  BY <2>2 DEF Crash
    <3>2. EndsAt(Kept, Len(file))  BY <3>1 DEF KeptWhole
    <3> QED  BY <3>1, <3>2, <1>1
  <2> QED  BY <2>1, <2>2
<1>4. Kept' = file' /\ InFlight' = << >>
  <2>1. Pending(a') = << >> /\ InFlight' = << >>  BY <1>2, EmptyFacts DEF InFlight, Empty
  <2> QED  BY <2>1, <1>3, Concat DEF Kept
<1> DEFINE f == file'
<1>5. f \in Data /\ Len(f) \in Nat  BY <1>3, Elements
<1>6. /\ mem \in Seq(Nat) /\ Joined(f \o r) /\ Len(mem) \in Nat /\ Listed(mem, f \o r, Len(mem))
  BY <1>2, <1>3 DEF KeptWhole
<1>g. EndsAt(f \o r, Len(f))  BY <1>3
<1>m. file' = f  OBVIOUS
<1> HIDE DEF f
<1>7. Joined(f) /\ \E k \in 0..Len(mem) : Listed(mem, f, k)  BY <1>5, <1>6, ListedFront
<1>8. EndsAt(f, Len(f))
  <2>1. \A i \in 1..Len(f) : (f \o r)[i] = f[i]  BY <1>5, Elements
  <2>2. CASE Len(f) = 0  BY <2>2 DEF EndsAt
  <2>3. CASE Len(f) # 0
    <3>1. Len(f) \in 1..Len(f)  BY <2>3, <1>5
    <3> QED  BY <3>1, <2>1, <1>g, <2>3 DEF EndsAt
  <2> QED  BY <2>2, <2>3
<1>9. Len(file') + Len(InFlight') = Len(f)  BY <1>4, <1>5, <1>m
<1>10. Kept' = f  BY <1>4, <1>m
<1>11. mem' = mem /\ apc' = "down"  BY <1>2
<1> QED  BY <1>m, <1>6, <1>7, <1>8, <1>9, <1>10, <1>11 DEF KeptWhole

\* The commands that end at the places e of the file are executed again, and
\* are the first n of those executed before.
Rebuilt(n, e) ==
  /\ Ending(file, e, n) /\ mem' = [i \in 1..n |-> file[e[i]].cmd]
  /\ \A i \in 1..n : mem[i] = file[e[i]].cmd

\* A restart executes what the file holds, which are the first commands the
\* server had executed, with none skipped.
LEMMA RecoverReplays ==
  ASSUME Shape, KeptWhole, Recover
  PROVE  \E n \in 0..Len(mem) : \E e : Rebuilt(n, e)
<1>1. file \in Data /\ Kept = file
  <2>1. file \in Data /\ a = Empty  BY DEF Shape, Recover
  <2> QED  BY <2>1, EmptyFacts, Concat DEF Kept
<1>2. Joined(file) /\ EndsAt(file, Len(file)) /\ mem \in Seq(Nat)  BY <1>1 DEF KeptWhole
<1>3. PICK n \in 0..Len(mem) : Listed(mem, file, n)  BY <1>1 DEF KeptWhole
<1>4. PICK e : Ending(file, e, n) /\ \A i \in 1..n : mem[i] = file[e[i]].cmd  BY <1>3 DEF Listed
<1>5. n \in Nat  BY <1>2
<1>6. mem' = [i \in 1..n |-> file[e[i]].cmd]
  <2>1. Replayed(file) = [i \in 1..n |-> file[e[i]].cmd]  BY <1>1, <1>2, <1>4, <1>5, ReplayedIs
  <2> QED  BY <2>1 DEF Recover
<1> QED  BY <1>4, <1>6 DEF Rebuilt

\* The server starts from whole commands again.
LEMMA RecoverWhole ==
  ASSUME Shape, intact => KeptWhole, Recover PROVE intact' => KeptWhole'
<1> SUFFICES ASSUME intact', KeptWhole PROVE KeptWhole'  BY DEF Recover
<1>n. PICK n \in 0..Len(mem) : \E e : Rebuilt(n, e)  BY RecoverReplays
<1>e. PICK e : Rebuilt(n, e)  BY <1>n
<1>1. /\ Ending(file, e, n) /\ mem' = [i \in 1..n |-> file[e[i]].cmd]
      /\ \A i \in 1..n : mem[i] = file[e[i]].cmd
  BY <1>e DEF Rebuilt
<1>2. /\ a' = a /\ file' = file /\ Kept' = Kept /\ InFlight' = InFlight
      /\ file \in Data /\ Kept = file
  <2>1. file \in Data /\ a = Empty /\ a' = a /\ file' = file  BY DEF Shape, Recover
  <2>2. Kept = file  BY <2>1, EmptyFacts, Concat DEF Kept
  <2> QED  BY <2>1, <2>2 DEF Kept, InFlight
<1>3. /\ Joined(Kept) /\ EndsAt(Kept, Len(Kept)) /\ EndsAt(Kept, Len(file))
      /\ EndsAt(Kept, Len(file) + Len(InFlight)) /\ mem \in Seq(Nat)
  BY DEF KeptWhole
<1>4. n \in Nat  BY <1>3
<1>5. ASSUME NEW i \in 1..n PROVE file[e[i]].cmd \in Nat
  <2>1. e[i] \in 1..Len(file)  BY <1>1 DEF Ending
  <2>2. file[e[i]] \in ByteSet  BY <2>1, <1>2, Elements
  <2> QED  BY <2>2 DEF ByteSet
<1>6. mem' \in Seq(Nat) /\ Len(mem') = n /\ n \in 0..n /\ \A i \in 1..n : mem'[i] = file[e[i]].cmd
  <2> DEFINE q == [i \in 1..n |-> file[e[i]].cmd]
  <2>1. q \in [1..n -> Nat]  BY <1>5
  <2>2. mem' = q /\ \A i \in 1..n : q[i] = file[e[i]].cmd  BY <1>1
  <2> HIDE DEF q
  <2>3. q \in Seq(Nat) /\ Len(q) = n  BY <2>1, <1>4
  <2> QED  BY <2>2, <2>3, <1>4
<1>7. Listed(mem', Kept', n)  BY <1>1, <1>2, <1>6 DEF Listed
<1>8. /\ Joined(Kept') /\ EndsAt(Kept', Len(Kept')) /\ EndsAt(Kept', Len(file'))
      /\ EndsAt(Kept', Len(file') + Len(InFlight'))
  BY <1>2, <1>3
<1> QED  BY <1>6, <1>7, <1>8 DEF KeptWhole

\* Every step keeps whole commands whole.
LEMMA StepRestart == Shape /\ RestartInv /\ [AofNext]_aofVars => RestartInv'
<1> SUFFICES ASSUME Shape, RestartInv, [AofNext]_aofVars PROVE RestartInv'  OBVIOUS
<1>a. (intact => KeptWhole) /\ ArgCommand  BY DEF RestartInv
<1>b. ASSUME apc' \notin {"check", "wait", "trigger"} \/ (Waiting /\ arg' = arg) PROVE ArgCommand'
  BY <1>a, <1>b DEF ArgCommand, Waiting
<1>c. ASSUME ArgCommand', intact' => KeptWhole' PROVE RestartInv'  BY <1>c DEF RestartInv
<1>1. ASSUME NEW sz \in Sizes, Write(sz) PROVE RestartInv'
  <2>1. Extends(CmdBytes(next, sz)) /\ apc' = "idle" /\ apc = "idle"  BY <1>1, WriteExtends DEF Write
  <2>2. next \in Nat /\ a \in BufSet  BY DEF Shape
  <2>3. mem' = Append(mem, next)
    <3>1. sz >= 1 /\ sz \in Nat /\ CmdBytes(next, sz)[1].cmd = next
      <4>1. sz \in Nat /\ sz >= 1 /\ \A i \in 1..sz : CmdBytes(next, sz)[i].cmd = next  BY <2>2, CmdBytesAre
      <4>2. 1 \in 1..sz  BY <4>1
      <4> QED  BY <4>1, <4>2
    <3> QED  BY <1>1, <3>1 DEF Write, Logged
  <2>4. InFlight' = InFlight
    <3>1. a'.io = a.io /\ a'.flush = a.flush  BY <1>1, <2>2 DEF Write, Logged, BufSet
    <3> QED  BY <3>1 DEF InFlight
  <2>5. intact' => KeptWhole'  BY <1>a, <2>1, <2>2, <2>3, <2>4, LoggedWhole
  <2> QED  BY <1>b, <1>c, <2>1, <2>5
<1>2. ASSUME NEW sz \in Sizes, WriteBlocks(sz) PROVE RestartInv'
  <2>1. arg' = CmdBytes(next, sz) /\ next \in Nat /\ UNCHANGED <<a, file, mem, intact>> /\ apc = "idle" /\ apc' = "check"
    BY <1>2 DEF WriteBlocks, Shape
  <2>2. ArgCommand'  BY <2>1 DEF ArgCommand
  <2>3. KeptWhole => KeptWhole'  BY <2>1 DEF KeptWhole, Kept, InFlight
  <2> QED  BY <1>a, <1>c, <2>1, <2>2, <2>3
<1>3. ASSUME NEW sz \in Sizes, WriteTooLarge(sz) PROVE RestartInv'
  BY <1>3, <1>b, <1>c DEF WriteTooLarge
<1>4. CASE WriteCheck \/ WriteWait \/ FlushPending \/ ForceFlush \/ Timeout \/ CloseBegin \/ CloseWait
  <2>1. Quiet /\ InFlight' \in {InFlight, Pending(a), << >>} /\ mem' = mem
    BY <1>4, QuietSteps, QuietFlight
      DEF WriteCheck, WriteWait, FlushPending, ForceFlush, Timeout, CloseBegin, CloseWait
  <2>2. arg' = arg  BY <2>1 DEF Quiet
  <2>3. CASE Timeout
    <3>1. UNCHANGED <<a, file, mem, intact, apc, arg>>  BY <2>3 DEF Timeout
    <3>2. KeptWhole => KeptWhole'  BY <3>1 DEF KeptWhole, Kept, InFlight
    <3>3. ArgCommand'  BY <3>1, <1>a DEF ArgCommand, Waiting
    <3> QED  BY <1>a, <1>c, <3>1, <3>2, <3>3
  <2>4. CASE ~Timeout
    <3>1. apc # "down" /\ apc' # "down"
      BY <1>4, <2>4 DEF WriteCheck, WriteWait, FlushPending, ForceFlush, CloseBegin, CloseWait
    <3>2. apc' \notin {"check", "wait", "trigger"} \/ Waiting
      BY <1>4, <2>4 DEF WriteCheck, WriteWait, FlushPending, ForceFlush, CloseBegin, CloseWait, Waiting
    <3>3. intact' => KeptWhole'  BY <1>a, <2>1, <3>1, QuietWhole
    <3> QED  BY <1>b, <1>c, <2>2, <3>2, <3>3
  <2> QED  BY <2>3, <2>4
<1>5. CASE WriteTrigger
  <2>0. apc = "trigger" /\ apc' \in {"idle", "check"} /\ Waiting  BY <1>5 DEF WriteTrigger, Waiting
  <2>1. CASE Fits(Trigger(a), arg)
    <3>1. PICK c \in Nat, sz \in Sizes : arg = CmdBytes(c, sz)  BY <1>a, <2>0 DEF ArgCommand
    <3>2. a' = [Trigger(a) EXCEPT !.active = @ \o arg] /\ mem' = Append(mem, arg[1].cmd) /\ apc' = "idle"
      BY <1>5, <2>1 DEF WriteTrigger, Logged
    <3>3. arg[1].cmd = c
      <4>1. sz \in Nat /\ sz >= 1 /\ \A i \in 1..sz : CmdBytes(c, sz)[i].cmd = c  BY CmdBytesAre
      <4>2. 1 \in 1..sz  BY <4>1
      <4> QED  BY <4>1, <4>2, <3>1
    <3>4. Trigger(a) \in BufSet /\ Held(a) /\ a \in BufSet  BY TriggerKeeps DEF Shape
    <3>5. InFlight' \in {InFlight, Pending(a)}
      <4>1. a'.io = Trigger(a).io /\ a'.flush = Trigger(a).flush  BY <3>2, <3>4 DEF BufSet
      <4>2. Sub(a') = Sub(Trigger(a)) /\ InFlight' = Sub(a') /\ InFlight = Sub(a)  BY <4>1 DEF Sub, InFlight
      <4> QED  BY <4>2, <3>4, TriggerSub
    <3>6. Extends(arg)  BY <1>5, <3>2, TriggerExtends
    <3>7. intact' => KeptWhole'  BY <1>a, <2>0, <3>1, <3>2, <3>3, <3>5, <3>6, LoggedWhole
    <3> QED  BY <1>b, <1>c, <3>2, <3>7
  <2>2. CASE ~Fits(Trigger(a), arg)
    <3>1. a' = Trigger(a) /\ mem' = mem /\ arg' = arg /\ apc' = "check"  BY <1>5, <2>2 DEF WriteTrigger
    <3>2. Quiet  BY <1>5, <3>1, TriggerExtends
    <3>3. InFlight' \in {InFlight, Pending(a), << >>}  BY <1>5, <3>1, QuietFlight
    <3>4. intact' => KeptWhole'  BY <1>a, <2>0, <3>1, <3>2, <3>3, QuietWhole
    <3> QED  BY <1>b, <1>c, <2>0, <3>1, <3>4
  <2> QED  BY <2>1, <2>2
<1>6. CASE KernelWrite
  <2>1. /\ file' = file \o a.flush /\ Pending(a) = a.flush \o a.active /\ Pending(a') = a.active
        /\ UNCHANGED <<apc, arg, mem, intact>> /\ InFlight = a.flush
    BY <1>6, KernelMoves DEF KernelWrite, InFlight
  <2>2. apc # "down" /\ InFlight' = << >>
    <3>1. a \in BufSet /\ apc # "down"  BY <1>6 DEF KernelWrite, Shape, Empty
    <3>2. a'.io = "complete"  BY <1>6, <3>1 DEF KernelWrite, BufSet
    <3> QED  BY <3>1, <3>2 DEF InFlight
  <2>3. file \in Data /\ a.flush \in Data /\ a.active \in Data /\ Len(file) \in Nat  BY KeptType
  <2>4. (file \o a.flush) \o a.active = file \o (a.flush \o a.active)
    <3>1. file \in Data /\ a.flush \in Data /\ a.active \in Data  BY <2>3
    <3> QED  BY ONLY <3>1, Assoc
  <2>5. Kept' = Kept  BY <2>1, <2>4 DEF Kept
  <2>6. Len(file') = Len(file) + Len(InFlight) /\ Len(file') + Len(InFlight') = Len(file')
    BY <2>1, <2>2, <2>3, Elements
  <2>7. intact => EndsAt(Kept, Len(file')) /\ EndsAt(Kept, Len(file') + Len(InFlight'))
    BY <1>a, <2>6 DEF KeptWhole
  <2>8. intact' => KeptWhole'  BY <1>a, <2>1, <2>2, <2>5, <2>7, SameKept
  <2>9. ArgCommand'  BY <1>a, <2>1 DEF ArgCommand, Waiting
  <2> QED  BY <1>c, <2>8, <2>9
<1>7. CASE KernelShort
  <2>1. ~intact' /\ ArgCommand'  BY <1>7, <1>a DEF KernelShort, ArgCommand, Waiting
  <2> QED  BY <1>c, <2>1
<1>8. CASE CloseFinal
  <2>1. /\ a.io # "submitted" /\ a' = Empty /\ file' = file \o a.active /\ UNCHANGED <<arg, mem, intact>>
        /\ apc = "close_final" /\ apc' = "closed"
    BY <1>8 DEF CloseFinal, Shape, Held
  <2>2. file \in Data /\ a.active \in Data /\ file \o a.active \in Data  BY KeptType, Concat
  <2>3. Pending(a) = a.active /\ Pending(a') = << >> /\ InFlight' = << >>
    <3>1. Pending(a') = << >> /\ InFlight' = << >>  BY <2>1, EmptyFacts DEF InFlight, Empty
    <3> QED  BY <2>1, <2>2, <3>1, Concat DEF Pending
  <2>4. Kept = file \o a.active /\ Kept' = (file \o a.active) \o << >>  BY <2>1, <2>3 DEF Kept
  <2>5. Kept' = Kept /\ file' = Kept  BY <2>1, <2>2, <2>4, Concat
  <2>6. Len(Kept) \in Nat /\ Len(file') + Len(InFlight') = Len(Kept)
    <3>1. Len(Kept) \in Nat  BY <2>2, <2>4, Elements
    <3> QED  BY <3>1, <2>3, <2>5
  <2>7. intact => EndsAt(Kept, Len(file')) /\ EndsAt(Kept, Len(file') + Len(InFlight'))
    BY <1>a, <2>5, <2>6 DEF KeptWhole
  <2>8. intact' => KeptWhole'  BY <1>a, <2>1, <2>5, <2>7, SameKept
  <2> QED  BY <1>b, <1>c, <2>1, <2>8
<1>9. CASE Crash
  <2>1. intact' => KeptWhole'  BY <1>9, <1>a, CrashWhole
  <2>2. apc' = "down"  BY <1>9 DEF Crash
  <2> QED  BY <1>b, <1>c, <2>1, <2>2
<1>10. CASE Recover
  <2>1. intact' => KeptWhole'  BY <1>10, <1>a, RecoverWhole
  <2>2. apc' = "idle"  BY <1>10 DEF Recover
  <2> QED  BY <1>b, <1>c, <2>1, <2>2
<1>11. CASE UNCHANGED aofVars
  <2>1. UNCHANGED <<a, file, mem, intact, apc, arg>>  BY <1>11 DEF aofVars
  <2>2. KeptWhole => KeptWhole'  BY <2>1 DEF KeptWhole, Kept, InFlight
  <2>3. ArgCommand'  BY <2>1, <1>a DEF ArgCommand, Waiting
  <2> QED  BY <1>a, <1>c, <2>1, <2>2, <2>3
<1> QED  BY <1>1, <1>2, <1>3, <1>4, <1>5, <1>6, <1>7, <1>8, <1>9, <1>10, <1>11
         DEF AofNext, Writing, Closing

\* An empty file holds whole commands.
LEMMA InitRestart == AofInit => RestartInv
<1> SUFFICES ASSUME AofInit PROVE RestartInv  OBVIOUS
<1>1. a = Empty /\ file = << >> /\ mem = << >> /\ apc = "idle"  BY DEF AofInit
<1>2. Kept = << >> /\ InFlight = << >>
  <2>1. Pending(a) = << >> /\ InFlight = << >>  BY <1>1, EmptyFacts DEF InFlight, Empty
  <2> QED  BY <2>1, <1>1, Concat DEF Kept
<1>3. Ending(<< >>, << >>, 0)  BY DEF Ending
<1>4. Listed(mem, Kept, 0) /\ 0 \in 0..Len(mem) /\ Len(mem) = 0 /\ mem \in Seq(Nat)
  BY <1>1, <1>2, <1>3 DEF Listed
<1>5. Joined(Kept) /\ EndsAt(Kept, Len(Kept)) /\ EndsAt(Kept, Len(file)) /\ EndsAt(Kept, Len(file) + Len(InFlight))
  BY <1>1, <1>2 DEF Joined, EndsAt
<1>6. ArgCommand  BY <1>1 DEF ArgCommand, Waiting
<1> QED  BY <1>4, <1>5, <1>6 DEF RestartInv, KeptWhole

\* While every write was whole, a restart (kvs_persistence_recover) rebuilds a
\* state the server was in: the first commands it had executed, none skipped,
\* and at least those that had reached the file.
THEOREM RestartsRebuild == AofSpec => RestartRebuilds
<1> DEFINE Rebuilds ==
      intact /\ apc = "down" /\ apc' = "idle" =>
        /\ Len(mem') <= Len(mem)
        /\ \A i \in 1..Len(mem') : mem'[i] = mem[i]
        /\ \A i \in 1..Len(file) :
             file[i].at = file[i].of => \E n \in 1..Len(mem') : mem'[n] = file[i].cmd
<1>1. Shape /\ RestartInv /\ [AofNext]_aofVars => [Rebuilds]_aofVars
  <2> SUFFICES ASSUME Shape, RestartInv, [AofNext]_aofVars, intact, apc = "down", apc' = "idle"
               PROVE  /\ Len(mem') <= Len(mem)
                      /\ \A i \in 1..Len(mem') : mem'[i] = mem[i]
                      /\ \A i \in 1..Len(file) :
                           file[i].at = file[i].of => \E n \in 1..Len(mem') : mem'[n] = file[i].cmd
    OBVIOUS
  <2>1. KeptWhole  BY DEF RestartInv
  <2>2. a = Empty  BY DEF Shape
  <2>3. Recover
    BY <2>2 DEF AofNext, aofVars, Write, WriteBlocks, WriteTooLarge, Writing, WriteCheck, WriteWait,
                WriteTrigger, FlushPending, ForceFlush, Timeout, KernelWrite, KernelShort, CloseBegin,
                Closing, CloseWait, CloseFinal, Crash, Empty
  <2>n. PICK n \in 0..Len(mem) : \E e : Rebuilt(n, e)  BY <2>1, <2>3, RecoverReplays
  <2>e. PICK e : Rebuilt(n, e)  BY <2>n
  <2>4. /\ Ending(file, e, n) /\ mem' = [i \in 1..n |-> file[e[i]].cmd]
        /\ \A i \in 1..n : mem[i] = file[e[i]].cmd
    BY <2>e DEF Rebuilt
  <2>5. mem \in Seq(Nat) /\ Len(mem) \in Nat /\ n \in Nat /\ n <= Len(mem)  BY <2>1 DEF KeptWhole
  <2>6. Len(mem') = n /\ \A i \in 1..n : mem'[i] = file[e[i]].cmd  BY <2>4, <2>5
  <2>7. ASSUME NEW i \in 1..Len(file), file[i].at = file[i].of
        PROVE  \E k \in 1..n : mem'[k] = file[i].cmd
    <3>1. PICK k \in 1..n : e[k] = i  BY <2>4, <2>7 DEF Ending
    <3> QED  BY <3>1, <2>6
  <2> QED  BY <2>4, <2>5, <2>6, <2>7
<1>2. RestartRebuilds <=> [][Rebuilds]_aofVars  BY DEF RestartRebuilds
<1> HIDE DEF Rebuilds
<1>3. AofSpec => []RestartInv  BY InitRestart, StepRestart, ShapeHolds, PTL DEF AofSpec
<1> QED  BY <1>1, <1>2, <1>3, ShapeHolds, PTL DEF AofSpec
=============================================================================
