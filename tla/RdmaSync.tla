------------------------------ MODULE RdmaSync ------------------------------
(***************************************************************************)
(* The full synchronisation over RDMA (rdma.c, repl.c, SYNC and SYNC_DONE   *)
(* in kvstore.c).  After a handshake over TCP the master writes its log     *)
(* file into the slave's buffer, a chunk at a time; the slave's thread      *)
(* stores each chunk and answers with an empty write.  Both ends learn of a *)
(* write by a completion that takes one posted receive and, if the          *)
(* completion queue is armed, raises an event.                              *)
(*                                                                          *)
(*   header (size) -> ack, { chunk -> ack }, then SYNC_DONE over TCP        *)
(*                                                                          *)
(* The master's main thread does all this inside its SYNC handler and runs  *)
(* nothing else meanwhile.  The slave's main thread goes on.                *)
(***************************************************************************)
EXTENDS Integers, Sequences

CONSTANTS
  FileSizes,    \* sizes the master's log file may have
  ChunkSize,    \* RDMA_CHUNK_SIZE
  ImmMod,       \* the immediate value has this many values (2^32), more than a chunk's size
  MaxRecv,      \* MAX_RECV_WR
  RdmaFaults    \* which of "ack", "map", "verb", "open", "write", "dies", "own" may happen

\* The length of a chunk fits in the immediate value; that of a file may not.
ASSUME RdmaAssumption ==
  /\ FileSizes \subseteq Nat /\ ChunkSize \in Nat \ {0} /\ MaxRecv \in Nat \ {0}
  /\ ImmMod \in Nat /\ ImmMod > ChunkSize
  /\ RdmaFaults \subseteq {"ack", "map", "verb", "open", "write", "dies", "own"}

VARIABLES
  hs,       \* the handshake: "none", "connect", "ack", "sync", "failed"
  mpc, spc, \* where the SYNC handler and the slave's thread are
  fsize,    \* master: file_size
  offset,   \* master: offset
  q,        \* per end, its queue pair: [posted, cq, armed, events]
  buf,      \* the slave's buffer, as far as it has been written
  sfile,    \* the slave's log file
  total,    \* slave: total_file_size
  received, \* slave: total_received
  imm,      \* per end, what rdma_slave_block_and_get_imm returned last
  replayed, \* slave: kvs_persistence_recover has run on this file
  mishap    \* the faults that happened (not in the code)

rdmaVars == <<hs, mpc, spc, fsize, offset, q, buf, sfile, total, received, imm, replayed, mishap>>

Ends == {"master", "slave"}

\* The master's file, byte by byte; a byte of the slave's own file is 0.
Bytes(from, to) == [i \in 1..(to - from) |-> from + i]
OwnByte == 0

\* Data written at position at of file or buffer f; a gap cannot arise.
Overwrite(f, at, data) ==
  [i \in 1..(IF Len(f) > at + Len(data) THEN Len(f) ELSE at + Len(data)) |->
     IF i \in (at + 1)..(at + Len(data)) THEN data[i - at] ELSE f[i]]

\* recv_cq is armed when it is created.
NewQueue == [posted |-> 0, cq |-> << >>, armed |-> TRUE, events |-> 0]

RdmaInit ==
  /\ hs = "none" /\ mpc = "idle" /\ spc = "off"
  /\ fsize = 0 /\ offset = 0 /\ q = [e \in Ends |-> NewQueue]
  /\ buf = << >> /\ sfile = <<OwnByte>> /\ total = 0 /\ received = 0
  /\ imm = [e \in Ends |-> 0] /\ replayed = FALSE /\ mishap = {}

-----------------------------------------------------------------------------
(* The handshake over TCP *)

\* ibv_post_recv fails when the queue is full; nobody looks at the result.
Post(x, n) == [x EXCEPT !.posted = IF @ + n > MaxRecv THEN MaxRecv ELSE @ + n]

\* repl_connect_to_master sends RDMA_CONNECT.
SlaveConnects ==
  /\ hs = "none" /\ hs' = "connect"
  /\ UNCHANGED <<mpc, spc, fsize, offset, q, buf, sfile, total, received, imm, replayed, mishap>>

\* handle_slave_rdma_connect: configure, answer.
MasterAnswers ==
  /\ hs = "connect" /\ hs' = "ack"
  /\ q' = [q EXCEPT !["master"] = Post(@, MaxRecv)]
  /\ UNCHANGED <<mpc, spc, fsize, offset, buf, sfile, total, received, imm, replayed, mishap>>

\* The answer is read, the queue pair configured, SYNC sent and the thread
\* started.
SlaveSyncs ==
  /\ hs = "ack" /\ hs' = "sync" /\ spc' = "event"
  /\ q' = [q EXCEPT !["slave"] = Post(@, MaxRecv + 9)]
  /\ UNCHANGED <<mpc, fsize, offset, buf, sfile, total, received, imm, replayed, mishap>>

\* Reading stops at the first line end: an answer that comes in two pieces is
\* not understood.  Configuring may fail as well.
SlaveRefuses ==
  /\ "ack" \in RdmaFaults /\ hs = "ack" /\ hs' = "failed"
  /\ mishap' = mishap \cup {"ack"}
  /\ UNCHANGED <<mpc, spc, fsize, offset, q, buf, sfile, total, received, imm, replayed>>

-----------------------------------------------------------------------------
(* rdma.c *)

\* A completion arrives: it takes a posted receive and raises an event if the
\* queue is armed.
Completed(x, val) ==
  [posted |-> x.posted - 1, cq |-> Append(x.cq, val), armed |-> FALSE,
   events |-> IF x.armed THEN x.events + 1 ELSE x.events]

\* rdma_master_write_log_imm, by either end, which posts n receives of its own
\* before.  Without a posted receive at the other end the adapter retries for
\* ever.
WriteImm(from, to, val, n) ==
  /\ q[to].posted > 0
  /\ q' = [q EXCEPT ![from] = Post(@, n), ![to] = Completed(@, val % ImmMod)]

\* rdma_slave_block_and_get_imm: wait for an event,
GetEvent(e) == q[e].events > 0 /\ q' = [q EXCEPT ![e].events = @ - 1]

\* Mutant: the queue is not armed again.
RearmedNot(x) == x

\* arm the queue again,
Rearmed(x) == [x EXCEPT !.armed = TRUE]

\* take one completion, and post a receive for it.
Taken(x) == Post([x EXCEPT !.cq = Tail(@)], 1)
Poll(e) ==
  /\ q[e].cq # << >>
  /\ imm' = [imm EXCEPT ![e] = Head(q[e].cq)]
  /\ q' = [q EXCEPT ![e] = Taken(@)]

\* The three steps at the master and at the slave's thread.
MasterGets ==
  /\ \/ mpc = "event" /\ GetEvent("master") /\ mpc' = "arm" /\ UNCHANGED imm
     \/ /\ mpc = "arm" /\ q' = [q EXCEPT !["master"] = Rearmed(@)]
        /\ mpc' = "poll" /\ UNCHANGED imm
     \/ mpc = "poll" /\ Poll("master") /\ mpc' = "acked"
  /\ UNCHANGED <<hs, spc, fsize, offset, buf, sfile, total, received, replayed, mishap>>

SlaveGets ==
  /\ \/ spc = "event" /\ GetEvent("slave") /\ spc' = "arm" /\ UNCHANGED imm
     \/ /\ spc = "arm" /\ q' = [q EXCEPT !["slave"] = Rearmed(@)]
        /\ spc' = "poll" /\ UNCHANGED imm
     \/ spc = "poll" /\ Poll("slave") /\ spc' = IF total = 0 THEN "size" ELSE "chunk"
  /\ UNCHANGED <<hs, mpc, fsize, offset, buf, sfile, total, received, replayed, mishap>>

\* A verb fails at the master: the wait returns at once, with or without the
\* event taken, and nobody looks at the result: the handler goes on as if the
\* answer had come.
MasterWaitFails ==
  /\ "verb" \in RdmaFaults /\ mpc \in {"event", "arm", "poll"}
  /\ mpc' = "acked" /\ mishap' = mishap \cup {"verb"}
  /\ UNCHANGED <<hs, spc, fsize, offset, q, buf, sfile, total, received, imm, replayed>>

-----------------------------------------------------------------------------
(* repl_sync_log_via_rdma *)

\* The file, if it is not empty, is opened and mapped first.
SyncBegins ==
  /\ hs = "sync" /\ mpc = "idle" /\ fsize' \in FileSizes
  /\ \/ mpc' = "header" /\ UNCHANGED mishap
     \/ /\ "map" \in RdmaFaults /\ fsize' > 0
        /\ mpc' = "failed" /\ mishap' = mishap \cup {"map"}
  /\ UNCHANGED <<hs, spc, offset, q, buf, sfile, total, received, imm, replayed>>

\* The header carries the size as 32 bits.
SendsHeader ==
  /\ mpc = "header" /\ spc # "dead"
  /\ WriteImm("master", "slave", fsize, 1) /\ mpc' = "event"
  /\ UNCHANGED <<hs, spc, fsize, offset, buf, sfile, total, received, imm, replayed, mishap>>

\* Mutant: every chunk is a full one.
ChunkFull == ChunkSize

\* chunk_size
Chunk == IF fsize - offset > ChunkSize THEN ChunkSize ELSE fsize - offset

\* The chunk lands in the slave's buffer, over the one before.
SendsChunk ==
  /\ mpc = "chunk" /\ spc # "dead"
  /\ WriteImm("master", "slave", Chunk, 1) /\ mpc' = "event"
  /\ buf' = Overwrite(buf, 0, Bytes(offset, offset + Chunk))
  /\ UNCHANGED <<hs, spc, fsize, offset, sfile, total, received, imm, replayed, mishap>>

\* The ack of the header (its length is 0) or of a chunk; its value is not used.
HeaderAcked == offset = 0 /\ buf = << >>
TakesAck ==
  /\ mpc = "acked"
  /\ offset' = IF HeaderAcked THEN 0 ELSE offset + Chunk
  /\ mpc' = IF offset' < fsize THEN "chunk" ELSE "synced"
  /\ UNCHANGED <<hs, spc, fsize, q, buf, sfile, total, received, imm, replayed, mishap>>

\* The adapter gives up on a dead peer, or refuses: the transfer is abandoned.
WriteFails ==
  /\ mpc \in {"header", "chunk"} /\ mpc' = "failed"
  /\ \/ spc = "dead" /\ UNCHANGED mishap
     \/ "verb" \in RdmaFaults /\ mishap' = mishap \cup {"verb"}
  /\ UNCHANGED <<hs, spc, fsize, offset, q, buf, sfile, total, received, imm, replayed>>

\* SYNC_DONE: repl_destroy frees the queue pair.
DestroyAtSyncDone ==
  /\ spc \in {"replay", "finished"} /\ mpc \in {"synced", "failed"}
  /\ mpc' = "destroyed" /\ q' = [q EXCEPT !["master"] = NewQueue]
  /\ UNCHANGED <<hs, spc, fsize, offset, buf, sfile, total, received, imm, replayed, mishap>>

-----------------------------------------------------------------------------
(* pure_rdma_repl_slave_thread *)

\* The empty write that answers; that it failed goes unnoticed.
Answers(n) ==
  \/ WriteImm("slave", "master", 1, n) /\ UNCHANGED mishap
  \/ /\ "verb" \in RdmaFaults /\ mishap' = mishap \cup {"verb"}
     /\ q' = [q EXCEPT !["slave"] = Post(@, n)]

\* Size 0: truncate (a failure goes unnoticed), answer, SYNC_DONE, no replay.
SlaveEmpty ==
  /\ spc = "size" /\ imm["slave"] = 0 /\ spc' = "finished"
  /\ \/ sfile' = << >> /\ Answers(1)
     \/ /\ "open" \in RdmaFaults /\ mishap' = mishap \cup {"open"}
        /\ UNCHANGED sfile /\ WriteImm("slave", "master", 1, 1)
  /\ UNCHANGED <<hs, mpc, fsize, offset, buf, total, received, imm, replayed>>

\* Truncate the file and answer.
SlaveOpens ==
  /\ spc = "size" /\ imm["slave"] > 0 /\ spc' = "event"
  /\ total' = imm["slave"] /\ sfile' = << >>
  /\ Answers(1)
  /\ UNCHANGED <<hs, mpc, fsize, offset, buf, received, imm, replayed>>

\* write(): at the thread's own position.
SlaveStores ==
  /\ spc = "chunk" /\ imm["slave"] > 0
  /\ sfile' = Overwrite(sfile, received, SubSeq(buf, 1, imm["slave"]))
  /\ received' = received + imm["slave"] /\ spc' = "ack"
  /\ UNCHANGED <<hs, mpc, fsize, offset, q, buf, total, imm, replayed, mishap>>

\* After the last answer: SYNC_DONE, and only then the replay.
SlaveAcks ==
  /\ spc = "ack" /\ spc' = IF received < total THEN "event" ELSE "replay"
  /\ Answers(IF received < total THEN 1 ELSE 0)
  /\ UNCHANGED <<hs, mpc, fsize, offset, buf, sfile, total, received, imm, replayed>>

SlaveReplays ==
  /\ spc = "replay" /\ replayed' = TRUE /\ spc' = "finished"
  /\ UNCHANGED <<hs, mpc, fsize, offset, q, buf, sfile, total, received, imm, mishap>>

\* A wait fails, or the file cannot be opened or written: the thread ends
\* without an answer.
SlaveGivesUp ==
  /\ \/ "open" \in RdmaFaults /\ spc = "size" /\ imm["slave"] > 0 /\ mishap' = mishap \cup {"open"}
     \/ "write" \in RdmaFaults /\ spc = "chunk" /\ mishap' = mishap \cup {"write"}
     \/ /\ "verb" \in RdmaFaults /\ spc \in {"event", "arm", "poll"}
        /\ mishap' = mishap \cup {"verb"}
     \/ spc = "chunk" /\ imm["slave"] = 0 /\ UNCHANGED mishap
  /\ spc' = "gone"
  /\ UNCHANGED <<hs, mpc, fsize, offset, q, buf, sfile, total, received, imm, replayed>>

SlaveDies ==
  /\ "dies" \in RdmaFaults /\ hs = "sync" /\ spc # "dead"
  /\ spc' = "dead" /\ mishap' = mishap \cup {"dies"}
  /\ UNCHANGED <<hs, mpc, fsize, offset, q, buf, sfile, total, received, imm, replayed>>

\* Meanwhile the slave's main thread logs a command of its own: O_APPEND.
SlaveLogs ==
  /\ "own" \in RdmaFaults /\ "own" \notin mishap /\ spc \notin {"off", "dead"}
  /\ sfile' = Append(sfile, OwnByte) /\ mishap' = mishap \cup {"own"}
  /\ UNCHANGED <<hs, mpc, spc, fsize, offset, q, buf, total, received, imm, replayed>>

-----------------------------------------------------------------------------

Handshake == SlaveConnects \/ MasterAnswers \/ SlaveSyncs
MasterStep == SyncBegins \/ SendsHeader \/ SendsChunk \/ MasterGets \/ TakesAck \/ WriteFails
              \/ DestroyAtSyncDone
SlaveStep == SlaveGets \/ SlaveEmpty \/ SlaveOpens \/ SlaveStores \/ SlaveAcks \/ SlaveReplays

RdmaNext == Handshake \/ MasterStep \/ SlaveStep
        \/ SlaveRefuses \/ MasterWaitFails \/ SlaveGivesUp \/ SlaveDies \/ SlaveLogs

RdmaSpec == RdmaInit /\ [][RdmaNext]_rdmaVars

-----------------------------------------------------------------------------
(* Properties *)

\* Types; what the slave's file may hold is the next property.
RdmaTypeOK ==
  /\ hs \in {"none", "connect", "ack", "sync", "failed"}
  /\ mpc \in {"idle", "header", "event", "arm", "poll", "acked", "chunk", "synced", "failed",
              "destroyed"}
  /\ spc \in {"off", "event", "arm", "poll", "size", "chunk", "ack", "replay", "finished", "gone",
              "dead"}
  /\ fsize \in Nat /\ offset \in 0..fsize /\ total \in Nat /\ received \in Nat
  /\ q \in [Ends -> [posted : Nat, cq : Seq(Nat), armed : BOOLEAN, events : Nat]]
  /\ buf \in Seq(Nat) /\ imm \in [Ends -> Nat]
  /\ replayed \in BOOLEAN /\ mishap \subseteq RdmaFaults

\* A chunk the master counts as acknowledged is in the slave's file, and when
\* SYNC_DONE is sent the file is the master's, byte for byte: the buffer is
\* never overwritten before its chunk is stored.  For files smaller than 2^32
\* bytes, while no verb fails (the master takes a failed wait for an answer) and
\* the slave logs nothing of its own and can open its file.
StoredBeforeAcked ==
  (fsize < ImmMod /\ mishap \cap {"verb", "own", "open"} = {}) =>
    /\ offset > 0 => SubSeq(sfile, 1, offset) = Bytes(0, offset)
    /\ spc \in {"replay", "finished"} => sfile = Bytes(0, fsize)

\* The SYNC handler returns: who waits for an event gets one, although each
\* call takes one completion only and a queue raises one event per arming.
\* Unless a verb fails, the slave dies or gives up, or the size does not fit in
\* the header: then the master serves nobody any more.
SyncReturns ==
  (mpc = "header") ~> (mpc \in {"synced", "failed", "destroyed"}
                       \/ spc \in {"gone", "dead"} \/ fsize >= ImmMod \/ "verb" \in mishap)
=============================================================================
