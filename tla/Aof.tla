-------------------------------- MODULE Aof --------------------------------
(***************************************************************************)
(* The append-only file (persistence.c): two buffers, one io_uring write   *)
(* in flight at a time, recovery by replay.  All functions run on the main *)
(* thread; the kernel completes the write at any time.                     *)
(*                                                                         *)
(* A command is a number; its bytes are records [cmd, at, of].  The file   *)
(* is opened with O_APPEND, so a write lands at its end whatever           *)
(* aof_file_offset says.  io_uring_get_sqe and io_uring_submit are taken   *)
(* to succeed: one write is outstanding at a time in a queue of depth 16.  *)
(***************************************************************************)
EXTENDS Integers, Sequences, FiniteSets, FiniteSetsExt

CONSTANTS
  BufSize,    \* AOF_BUF_SIZE
  MinFlush,   \* AOF_MIN_FLUSH_SIZE
  Sizes,      \* the sizes of commands
  AofEvents,     \* which of "crash", "torn", "short", "close" may happen
  MaxLogged     \* bound: commands written

ASSUME AofAssumption ==
  /\ BufSize \in Nat /\ MinFlush \in Nat /\ MaxLogged \in Nat
  /\ Sizes \subseteq Nat \ {0}
  /\ AofEvents \subseteq {"crash", "torn", "short", "close"}

VARIABLES
  a,       \* the buffers and the ring: [active, flush, busy, io]
  file,    \* the bytes of the file
  apc,      \* where the main thread is
  arg,     \* the bytes kvs_persistence_write is waiting to append
  due,     \* AOF_FLUSH_TIMEOUT_MS have passed since g_last_flush_time_ms
  mem,     \* the commands executed, in order: what the clients saw
  log,     \* the bytes logged since the file was last recovered (not in the code)
  next,    \* the next command
  intact   \* every command was logged and every write was whole (not in the code)

aofVars == <<a, file, apc, arg, due, mem, log, next, intact>>

CmdBytes(c, sz) == [i \in 1..sz |-> [cmd |-> c, at |-> i, of |-> sz]]

\* io: "none", "submitted" to the kernel, or "complete" with a CQE to reap.
Empty == [active |-> << >>, flush |-> << >>, busy |-> FALSE, io |-> "none"]

AofInit ==
  /\ a = Empty /\ file = << >>
  /\ apc = "idle" /\ arg = << >> /\ due = FALSE
  /\ mem = << >> /\ log = << >> /\ next = 1 /\ intact = TRUE

-----------------------------------------------------------------------------
(* The functions that only change the buffers *)

\* Mutant: active_len is not reset by the swap.
TriggerKeepsActive(b) ==
  IF b.active = << >> \/ b.busy THEN b
  ELSE [b EXCEPT !.flush = b.active, !.busy = TRUE, !.io = "submitted"]

\* aof_trigger_flush_nolock: swap the buffers and submit.
Trigger(b) ==
  IF b.active = << >> \/ b.busy THEN b
  ELSE [active |-> << >>, flush |-> b.active, busy |-> TRUE, io |-> "submitted"]

\* Mutant: reaping forgets to clear is_io_uring_busy.
ReapedStillBusy(b) == [b EXCEPT !.flush = << >>, !.io = "none"]

\* A reaped completion, whatever its result: an error is only printed.
Reaped(b) == [b EXCEPT !.busy = FALSE, !.flush = << >>, !.io = "none"]

\* aof_check_cqe_nonblock
CheckCqe(b) ==
  IF ~b.busy \/ b.io # "complete" THEN b
  ELSE IF Len(b.active) >= MinFlush THEN Trigger(Reaped(b)) ELSE Reaped(b)

-----------------------------------------------------------------------------
(* kvs_persistence_write, then the command runs *)

Logged(b, bytes) ==
  /\ a' = [b EXCEPT !.active = @ \o bytes]
  /\ log' = log \o bytes
  /\ mem' = Append(mem, bytes[1].cmd)

\* A command that does not fit in an empty buffer is executed unlogged.
WriteTooLarge(sz) ==
  /\ apc = "idle" /\ next <= MaxLogged /\ sz > BufSize
  /\ mem' = Append(mem, next) /\ next' = next + 1
  /\ intact' = FALSE
  /\ UNCHANGED <<a, file, apc, arg, due, log>>

\* The buffer has room for the command.
Fits(b, bytes) == Len(b.active) + Len(bytes) <= BufSize

Write(sz) ==
  /\ apc = "idle" /\ next <= MaxLogged /\ sz <= BufSize
  /\ Fits(a, CmdBytes(next, sz))
  /\ Logged(a, CmdBytes(next, sz))
  /\ next' = next + 1
  /\ UNCHANGED <<file, apc, arg, due, intact>>

\* No room: the loop blocks the main thread until the buffers were swapped.
WriteBlocks(sz) ==
  /\ apc = "idle" /\ next <= MaxLogged /\ sz <= BufSize
  /\ ~Fits(a, CmdBytes(next, sz))
  /\ arg' = CmdBytes(next, sz) /\ apc' = "check" /\ next' = next + 1
  /\ UNCHANGED <<a, file, due, mem, log, intact>>

WriteCheck ==
  /\ apc = "check"
  /\ a' = CheckCqe(a)
  /\ apc' = IF CheckCqe(a).busy THEN "wait" ELSE "trigger"
  /\ UNCHANGED <<file, arg, due, mem, log, next, intact>>

\* io_uring_wait_cqe
WriteWait ==
  /\ apc = "wait" /\ a.io = "complete"
  /\ a' = Reaped(a)
  /\ apc' = "trigger"
  /\ UNCHANGED <<file, arg, due, mem, log, next, intact>>

\* Trigger; append when there is room now, go round again otherwise.
WriteTrigger ==
  /\ apc = "trigger"
  /\ IF Fits(Trigger(a), arg)
       THEN Logged(Trigger(a), arg) /\ arg' = << >> /\ apc' = "idle"
       ELSE a' = Trigger(a) /\ apc' = "check" /\ UNCHANGED <<log, mem, arg>>
  /\ UNCHANGED <<file, due, next, intact>>

-----------------------------------------------------------------------------
(* Flushing *)

\* The coroutine ntyco_persistence_co calls kvs_persistence_flush_pending.
FlushPending ==
  LET b == CheckCqe(a)
      needed == ~b.busy /\ (Len(b.active) >= MinFlush \/ (b.active # << >> /\ due))
  IN  /\ apc = "idle"
      /\ a' = IF needed THEN Trigger(b) ELSE b
      /\ due' = (due /\ ~needed)
      /\ UNCHANGED <<file, apc, arg, mem, log, next, intact>>

\* kvs_persistence_force_flush, when a client connection ends.
ForceFlush ==
  LET b == CheckCqe(a)
      needed == ~b.busy /\ b.active # << >>
  IN  /\ apc = "idle"
      /\ a' = IF needed THEN Trigger(b) ELSE b
      /\ due' = (due /\ ~needed)
      /\ UNCHANGED <<file, apc, arg, mem, log, next, intact>>

Timeout ==
  /\ ~due /\ due' = TRUE
  /\ UNCHANGED <<a, file, apc, arg, mem, log, next, intact>>

\* The kernel reads the flush buffer where it is and appends it.
KernelWrite ==
  /\ a.io = "submitted"
  /\ file' = file \o a.flush
  /\ a' = [a EXCEPT !.io = "complete"]
  /\ UNCHANGED <<apc, arg, due, mem, log, next, intact>>

\* An error or a short write: some bytes, or none, and a CQE all the same.
KernelShort ==
  /\ "short" \in AofEvents /\ a.io = "submitted"
  /\ \E n \in 0..(Len(a.flush) - 1) : file' = file \o SubSeq(a.flush, 1, n)
  /\ a' = [a EXCEPT !.io = "complete"]
  /\ intact' = FALSE
  /\ UNCHANGED <<apc, arg, due, mem, log, next>>

-----------------------------------------------------------------------------
(* kvs_persistence_close *)

\* Steps 1 and 2: reap, then flush if idle.
CloseBegin ==
  LET b == CheckCqe(a)
      c == IF ~b.busy THEN Trigger(b) ELSE b
  IN  /\ "close" \in AofEvents /\ apc = "idle"
      /\ a' = c
      /\ apc' = IF c.busy THEN "close_wait" ELSE "close_final"
      /\ UNCHANGED <<file, arg, due, mem, log, next, intact>>

\* Step 3: the loop consumes the CQE but nothing in it clears the busy flag.
CloseWait ==
  /\ apc = "close_wait" /\ a.io = "complete"
  /\ a' = [a EXCEPT !.io = "none"]
  /\ apc' = IF a.busy THEN "close_wait" ELSE "close_final"
  /\ UNCHANGED <<file, arg, due, mem, log, next, intact>>

\* Steps 4 to 6: write what is left, synchronise, release.
CloseFinal ==
  /\ apc = "close_final"
  /\ file' = file \o a.active
  /\ a' = Empty /\ apc' = "closed"
  /\ UNCHANGED <<arg, due, mem, log, next, intact>>

-----------------------------------------------------------------------------
(* Crash and recovery *)

\* Byte k of the file ends a command and everything up to there is whole.
WholeUpTo(f, k) ==
  /\ f[k].at = f[k].of
  /\ \A i \in 1..k :
       IF i = 1 THEN f[i].at = 1
       ELSE \/ f[i].at = 1 /\ f[i - 1].at = f[i - 1].of
            \/ f[i].at = f[i - 1].at + 1 /\ f[i].cmd = f[i - 1].cmd

\* Mutant: a command that ends at the last byte is taken to be incomplete.
ReplayEndEarly(f) == Max({k \in 1..(Len(f) - 1) : WholeUpTo(f, k)} \cup {0})

\* protocol_process_recover: how far it gets, and what it executes.
ReplayEnd(f) == Max({k \in 1..Len(f) : WholeUpTo(f, k)} \cup {0})
EndsOf(f, k) == {i \in 1..k : f[i].at = f[i].of}
Replayed(f) ==
  LET ends == EndsOf(f, ReplayEnd(f))
  IN  [n \in 1..Cardinality(ends) |->
         f[CHOOSE i \in ends : Cardinality({j \in ends : j <= i}) = n].cmd]

\* The process dies; a write in flight may have happened, or in part.
Crash ==
  /\ "crash" \in AofEvents /\ apc \notin {"down", "closed"}
  /\ IF a.io = "submitted"
       THEN \E n \in 0..Len(a.flush) :
              /\ n \in {0, Len(a.flush)} \/ "torn" \in AofEvents
              /\ file' = file \o SubSeq(a.flush, 1, n)
              /\ intact' = (intact /\ n \in {0, Len(a.flush)})
       ELSE UNCHANGED <<file, intact>>
  /\ a' = Empty /\ arg' = << >> /\ apc' = "down"
  /\ UNCHANGED <<due, mem, log, next>>

\* kvs_persistence_init and kvs_persistence_recover.  A torn end of the file
\* is left in place: later writes go after it.
Recover ==
  /\ apc = "down"
  /\ mem' = Replayed(file) /\ log' = file
  /\ apc' = "idle" /\ due' = FALSE
  /\ UNCHANGED <<a, file, arg, next, intact>>

-----------------------------------------------------------------------------

Writing == WriteCheck \/ WriteWait \/ WriteTrigger
Closing == CloseWait \/ CloseFinal

AofNext ==
  \/ \E sz \in Sizes : Write(sz) \/ WriteBlocks(sz) \/ WriteTooLarge(sz)
  \/ Writing
  \/ FlushPending \/ ForceFlush \/ Timeout
  \/ KernelWrite \/ KernelShort
  \/ CloseBegin \/ Closing
  \/ Crash \/ Recover

AofSpec == AofInit /\ [][AofNext]_aofVars

-----------------------------------------------------------------------------
(* Properties *)

ByteSet == [cmd : Nat, at : Nat, of : Nat]

\* Types; the active buffer never exceeds its allocation.
AofTypeOK ==
  /\ a.active \in Seq(ByteSet) /\ a.flush \in Seq(ByteSet)
  /\ a.busy \in BOOLEAN /\ a.io \in {"none", "submitted", "complete"}
  /\ Len(a.active) <= BufSize
  /\ file \in Seq(ByteSet) /\ arg \in Seq(ByteSet) /\ log \in Seq(ByteSet)
  /\ apc \in {"idle", "check", "wait", "trigger", "close_wait", "close_final", "closed", "down"}
  /\ due \in BOOLEAN /\ mem \in Seq(Nat) /\ next \in Nat /\ intact \in BOOLEAN

\* What the kernel has still to write.
InFlight == IF a.io = "submitted" THEN a.flush ELSE << >>

\* While all writes are whole, the file, the write in flight and the active buffer
\* are the log, in this order: no byte is lost, repeated or moved across the
\* two buffers, whichever path reaped the completion.
LogOrder == (intact /\ apc # "down") => file \o InFlight \o a.active = log

\* Write errors leave holes, but what is in the file is in log order.
FileInOrder ==
  \A i, j \in 1..Len(file) :
    i < j => \/ file[i].cmd < file[j].cmd
             \/ file[i].cmd = file[j].cmd /\ file[i].at < file[j].at

\* As long as writes were whole, a restart rebuilds a state the server was in:
\* a beginning of the commands it had executed, with none skipped, and at
\* least every command that had reached the file whole.
RestartRebuilds ==
  [][intact /\ apc = "down" /\ apc' = "idle" =>
       /\ Len(mem') <= Len(mem)
       /\ \A i \in 1..Len(mem') : mem'[i] = mem[i]
       /\ \A i \in 1..Len(file) :
            file[i].at = file[i].of => \E n \in 1..Len(mem') : mem'[n] = file[i].cmd]_aofVars

Disk == INSTANCE AppendLog WITH disk <- file

\* The double-buffered writer implements the append-only log.
ImplementsAppendLog == Disk!Spec

\* Everything logged reaches the file when the clients fall silent, even below
\* the batch threshold, unless a write fails or the process dies or is shut
\* down first.
LoggedReachesFile ==
  (Len(log) > Len(file)) ~> (file = log \/ apc \in {"down", "close_wait"} \/ ~intact)

\* A blocked kvs_persistence_write always gets its room.
WriteReturns == (apc \in {"check", "wait", "trigger"}) ~> (apc \in {"idle", "down"})

\* persistence.c:260: closing waits for the operations in progress, then goes on.
CloseReturns == (apc = "close_wait") ~> (apc = "closed")
=============================================================================
