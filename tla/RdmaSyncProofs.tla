--------------------------- MODULE RdmaSyncProofs ---------------------------
(* Proofs about RdmaSync, for files, chunks and queues of every size. *)
EXTENDS RdmaSync, SequenceTheorems, TLAPS

Queues == [posted : Nat, cq : Seq(Nat), armed : BOOLEAN, events : Nat]

\* The two threads have one message between them: it is in the slave's
\* completion queue, at the slave, or in the master's completion queue.
Mcq == q["master"].cq
Scq == q["slave"].cq
Listening == {"event", "arm", "poll"}
MasterWaits == mpc \in Listening

\* The property's hypothesis; once false it stays false.
Good == fsize < ImmMod /\ mishap \cap {"verb", "own", "open"} = {}

\* Nothing is on its way.
Quiet == Mcq = << >> /\ Scq = << >>

\* The slave has answered the header, or the last chunk.
HeaderStored ==
  /\ total = fsize /\ received = 0 /\ sfile = << >>
  /\ spc \in IF fsize = 0 THEN {"finished", "dead"} ELSE Listening \cup {"dead"}
ChunkStored ==
  /\ received = offset + Chunk
  /\ spc \in IF received < fsize THEN Listening \cup {"dead"} ELSE {"replay", "finished", "dead"}

\* Before the header.
Before ==
  mpc \in {"idle", "header"} =>
    /\ Quiet /\ offset = 0 /\ buf = << >> /\ total = 0 /\ received = 0
    /\ spc \in {"off", "dead"} \cup Listening

\* The header is out.
HeaderOut ==
  (MasterWaits /\ buf = << >>) =>
    /\ offset = 0 /\ received = 0
    /\ \/ /\ Scq = <<fsize>> /\ Mcq = << >> /\ total = 0
          /\ spc \in Listening \cup {"dead"}
       \/ /\ Quiet /\ total = 0
          /\ (spc = "size" /\ imm["slave"] = fsize) \/ spc \in {"gone", "dead"}
       \/ Scq = << >> /\ Len(Mcq) = 1 /\ HeaderStored

\* The slave's buffer begins with the chunk.
Holds == SubSeq(buf, 1, Chunk) = Bytes(offset, offset + Chunk)

\* A chunk is out; the buffer holds it until the slave has stored it.
ChunkOut ==
  (MasterWaits /\ buf # << >>) =>
    /\ offset < fsize /\ total = fsize
    /\ \/ /\ Scq = <<Chunk>> /\ Mcq = << >> /\ received = offset
          /\ Holds
          /\ spc \in Listening \cup {"dead"}
       \/ /\ Quiet
          /\ \/ /\ spc = "chunk" /\ imm["slave"] = Chunk /\ received = offset
                /\ Holds
             \/ spc = "ack" /\ received = offset + Chunk
             \/ spc \in {"gone", "dead"} /\ received \in {offset, offset + Chunk}
       \/ Scq = << >> /\ Len(Mcq) = 1 /\ ChunkStored

\* The master has taken an answer, is about to send a chunk, or has stopped.
Between ==
  /\ mpc = "acked" =>
       /\ Quiet
       /\ IF buf = << >> THEN offset = 0 /\ HeaderStored
                         ELSE offset < fsize /\ total = fsize /\ ChunkStored
  /\ mpc = "chunk" =>
       /\ Quiet /\ offset < fsize /\ total = fsize /\ received = offset
       /\ spc \in Listening \cup {"dead"}
  /\ mpc \in {"synced", "destroyed"} =>
       /\ Quiet /\ offset = fsize /\ total = fsize /\ received = fsize
       /\ spc \in {"replay", "finished", "dead"}
  /\ mpc = "failed" =>
       /\ Quiet
       /\ \/ spc = "dead"
          \/ /\ spc \in Listening /\ offset = 0 /\ buf = << >> /\ total = 0 /\ received = 0

\* What the slave's file holds.
Stored ==
  /\ total \in {0, fsize} /\ offset <= received /\ received <= fsize
  /\ total = 0 => received = 0
  /\ total > 0 => sfile = Bytes(0, received)
  /\ spc \in {"replay", "finished"} =>
       received = fsize /\ total = fsize /\ (fsize = 0 => sfile = << >>)

Transfer == Before /\ HeaderOut /\ ChunkOut /\ Between /\ Stored

\* The transfer begins after the handshake.
Shape ==
  /\ RdmaTypeOK
  /\ mpc = "idle" => fsize = 0
  /\ hs # "sync" => mpc = "idle"
  /\ hs = "sync" => spc # "off"

RdmaInv == Shape /\ (Good => Transfer)

-----------------------------------------------------------------------------
(* The completion queues *)

\* A receive queue keeps its type when receives are posted.
LEMMA PostType ==
  ASSUME NEW x \in Queues, NEW n \in Nat
  PROVE  Post(x, n) \in Queues /\ Post(x, n).cq = x.cq
<1>1. (IF x.posted + n > MaxRecv THEN MaxRecv ELSE x.posted + n) \in Nat
  BY RdmaAssumption DEF Queues
<1> QED BY <1>1 DEF Post, Queues

\* A write with an immediate value appends one completion at the other end.
LEMMA WriteEffect ==
  ASSUME NEW from \in Ends, NEW to \in Ends, from # to, NEW val \in Nat, NEW n \in Nat,
         q \in [Ends -> Queues], WriteImm(from, to, val, n)
  PROVE  /\ q' \in [Ends -> Queues] /\ q'[to].cq = Append(q[to].cq, val % ImmMod)
         /\ q'[from].cq = q[from].cq
<1>0. ImmMod \in Nat \ {0} /\ val % ImmMod \in Nat
  BY RdmaAssumption
<1>1. q[to] \in Queues /\ q[to].posted > 0
  BY DEF WriteImm
<1>2. q[to].posted - 1 \in Nat /\ Append(q[to].cq, val % ImmMod) \in Seq(Nat)
      /\ (IF q[to].armed THEN q[to].events + 1 ELSE q[to].events) \in Nat
  BY <1>0, <1>1 DEF Queues
<1>3. Completed(q[to], val % ImmMod) \in Queues
      /\ Completed(q[to], val % ImmMod).cq = Append(q[to].cq, val % ImmMod)
  BY <1>2 DEF Completed, Queues
<1>4. Post(q[from], n) \in Queues /\ Post(q[from], n).cq = q[from].cq
  BY PostType
<1> DEFINE p == Post(q[from], n)
           c == Completed(q[to], val % ImmMod)
<1>5. q' = [q EXCEPT ![from] = p, ![to] = c]
  BY DEF WriteImm
<1> HIDE DEF p, c
<1>6. q'[to] = c /\ q'[from] = p /\ q' \in [Ends -> Queues]
  BY <1>3, <1>4, <1>5 DEF p, c
<1> QED BY <1>3, <1>4, <1>6 DEF p, c

\* A receive that is posted leaves the completions alone.
LEMMA PostEffect ==
  ASSUME NEW e \in Ends, NEW n \in Nat, q \in [Ends -> Queues], q' = [q EXCEPT ![e] = Post(@, n)]
  PROVE  q' \in [Ends -> Queues] /\ \A x \in Ends : q'[x].cq = q[x].cq
<1>1. Post(q[e], n) \in Queues /\ Post(q[e], n).cq = q[e].cq
  BY PostType
<1> QED BY <1>1

\* Waiting for an event and arming the queue leave the completions alone.
LEMMA EventEffect ==
  ASSUME NEW e \in Ends, q \in [Ends -> Queues],
         GetEvent(e) \/ q' = [q EXCEPT ![e] = Rearmed(@)]
  PROVE  q' \in [Ends -> Queues] /\ \A x \in Ends : q'[x].cq = q[x].cq
<1>0. q[e] \in Queues
  OBVIOUS
<1>1. CASE GetEvent(e)
  <2>1. q[e].events - 1 \in Nat
    BY <1>0, <1>1 DEF GetEvent, Queues
  <2>2. [q[e] EXCEPT !.events = q[e].events - 1] \in Queues
        /\ [q[e] EXCEPT !.events = q[e].events - 1].cq = q[e].cq
    BY <1>0, <2>1 DEF Queues
  <2>3. q' = [q EXCEPT ![e] = [q[e] EXCEPT !.events = q[e].events - 1]]
    BY <1>1 DEF GetEvent
  <2> QED BY <2>2, <2>3
<1>2. CASE q' = [q EXCEPT ![e] = Rearmed(@)]
  <2>1. Rearmed(q[e]) \in Queues /\ Rearmed(q[e]).cq = q[e].cq
    BY <1>0 DEF Rearmed, Queues
  <2> QED BY <1>2, <2>1
<1> QED BY <1>1, <1>2

\* Polling takes the first completion.
LEMMA PollEffect ==
  ASSUME NEW e \in Ends, q \in [Ends -> Queues], imm \in [Ends -> Nat], Poll(e)
  PROVE  /\ q' \in [Ends -> Queues] /\ q[e].cq # << >> /\ q'[e].cq = Tail(q[e].cq)
         /\ imm' \in [Ends -> Nat] /\ imm'[e] = Head(q[e].cq)
         /\ \A x \in Ends : x # e => q'[x] = q[x]
<1>1. q[e] \in Queues /\ q[e].cq \in Seq(Nat) /\ q[e].cq # << >>
  BY DEF Queues, Poll
<1>2. Tail(q[e].cq) \in Seq(Nat) /\ Head(q[e].cq) \in Nat
  BY <1>1
<1> DEFINE t == [q[e] EXCEPT !.cq = Tail(q[e].cq)]
<1>3. t \in Queues /\ t.cq = Tail(q[e].cq)
  BY <1>1, <1>2 DEF Queues
<1>4. q' = [q EXCEPT ![e] = Post(t, 1)] /\ imm' = [imm EXCEPT ![e] = Head(q[e].cq)]
  BY DEF Poll, Taken
<1> HIDE DEF t
<1>5. Post(t, 1) \in Queues /\ Post(t, 1).cq = Tail(q[e].cq)
  BY <1>3, PostType
<1> QED BY <1>1, <1>2, <1>4, <1>5

-----------------------------------------------------------------------------
(* Types *)

\* The bytes of a part of the master's file.
LEMMA BytesType ==
  ASSUME NEW m \in Nat, NEW n \in Nat
  PROVE  /\ Bytes(m, m + n) \in Seq(Nat) /\ Len(Bytes(m, m + n)) = n
         /\ \A i \in 1..n : Bytes(m, m + n)[i] = m + i
<1>1. m + n - m = n
  OBVIOUS
<1>2. Bytes(m, m + n) = [i \in 1..n |-> m + i]
  BY <1>1 DEF Bytes
<1>3. [i \in 1..n |-> m + i] \in [1..n -> Nat]
  OBVIOUS
<1> QED BY <1>2, <1>3

\* The bytes of a beginning of the file.
LEMMA BeginningType ==
  ASSUME NEW m \in Nat
  PROVE  /\ Bytes(0, m) \in Seq(Nat) /\ Len(Bytes(0, m)) = m
         /\ \A i \in 1..m : Bytes(0, m)[i] = i
<1>1. 0 + m = m /\ \A i \in 1..m : 0 + i = i
  OBVIOUS
<1> QED BY <1>1, BytesType

\* A chunk is no larger than what is left of the file.
LEMMA ChunkType ==
  ASSUME RdmaTypeOK
  PROVE  /\ Chunk \in Nat /\ Chunk < ImmMod /\ offset + Chunk <= fsize
         /\ offset < fsize => Chunk > 0
BY RdmaAssumption DEF RdmaTypeOK, Chunk

\* Overwriting a beginning of a buffer keeps its type.
LEMMA OverwriteType ==
  ASSUME NEW f \in Seq(Nat), NEW d \in Seq(Nat)
  PROVE  Overwrite(f, 0, d) \in Seq(Nat)
<1> DEFINE n == IF Len(f) > 0 + Len(d) THEN Len(f) ELSE 0 + Len(d)
<1>1. n \in Nat
  OBVIOUS
<1>2. \A i \in 1..n : (IF i \in (0 + 1)..(0 + Len(d)) THEN d[i - 0] ELSE f[i]) \in Nat
  OBVIOUS
<1>3. Overwrite(f, 0, d) \in [1..n -> Nat]
  BY <1>2 DEF Overwrite
<1> HIDE DEF n
<1>4. \A m \in Nat : \A g \in [1..m -> Nat] : g \in Seq(Nat)
  OBVIOUS
<1> QED BY <1>1, <1>3, <1>4

\* A buffer that is overwritten begins with what was written.
LEMMA OverwriteBegins ==
  ASSUME NEW f \in Seq(Nat), NEW d \in Seq(Nat), Len(d) > 0
  PROVE  Overwrite(f, 0, d) # << >> /\ SubSeq(Overwrite(f, 0, d), 1, Len(d)) = d
<1> DEFINE n == IF Len(f) > 0 + Len(d) THEN Len(f) ELSE 0 + Len(d)
           o == Overwrite(f, 0, d)
           k == Len(d)
<1>1. n \in Nat /\ n >= k /\ k \in Nat /\ k > 0
  OBVIOUS
<1>2. o \in Seq(Nat)
  BY OverwriteType
<1>3. o = [i \in 1..n |-> IF i \in (0 + 1)..(0 + Len(d)) THEN d[i - 0] ELSE f[i]]
  BY DEF Overwrite
<1>4. Len(o) = n /\ \A i \in 1..k : o[i] = d[i]
  BY <1>1, <1>2, <1>3
<1> HIDE DEF n, o
<1>5. \A i \in 1..k : o[i] \in Nat
  BY <1>4
<1>6. /\ SubSeq(o, 1, k) \in Seq(Nat)
      /\ Len(SubSeq(o, 1, k)) = IF 1 <= k THEN k - 1 + 1 ELSE 0
      /\ \A i \in 1..(k - 1 + 1) : SubSeq(o, 1, k)[i] = o[1 + i - 1]
  BY <1>1, <1>5, SubSeqProperties
<1>7. k - 1 + 1 = k /\ \A i \in 1..k : 1 + i - 1 = i
  BY <1>1
<1>8. Len(SubSeq(o, 1, k)) = k /\ \A i \in 1..k : SubSeq(o, 1, k)[i] = d[i]
  BY <1>1, <1>4, <1>6, <1>7
<1>9. SubSeq(o, 1, k) = d
  BY <1>6, <1>8, SeqEqual
<1> QED BY <1>1, <1>4, <1>9 DEF o

\* The initial states have their types.
LEMMA InitTypes == RdmaInit => Shape
<1> SUFFICES ASSUME RdmaInit PROVE Shape
  OBVIOUS
<1>1. NewQueue \in Queues
  BY DEF NewQueue, Queues
<1>2. q \in [Ends -> Queues] /\ imm \in [Ends -> Nat]
  BY <1>1 DEF RdmaInit
<1>3. buf \in Seq(Nat)
  BY DEF RdmaInit
<1>4. fsize \in Nat /\ offset \in 0..fsize /\ total \in Nat /\ received \in Nat
  BY DEF RdmaInit
<1> QED BY <1>2, <1>3, <1>4 DEF RdmaInit, RdmaTypeOK, Queues, Shape

\* Each action keeps the types.
LEMMA StepTypes == Shape /\ [RdmaNext]_rdmaVars => Shape'
<1> SUFFICES ASSUME Shape, [RdmaNext]_rdmaVars PROVE Shape'
  OBVIOUS
<1>q. q \in [Ends -> Queues] /\ imm \in [Ends -> Nat] /\ fsize \in Nat
      /\ "master" \in Ends /\ "slave" \in Ends /\ imm["slave"] \in Nat
  BY DEF RdmaTypeOK, Shape, Queues, Ends
<1>1. CASE SlaveConnects \/ SlaveRefuses
  BY <1>1 DEF SlaveConnects, SlaveRefuses, RdmaTypeOK, Shape
<1>2. CASE MasterAnswers \/ SlaveSyncs
  <2>1. MaxRecv \in Nat /\ MaxRecv + 9 \in Nat
    BY RdmaAssumption
  <2>2. \A e \in Ends : Post(q[e], MaxRecv) \in Queues /\ Post(q[e], MaxRecv + 9) \in Queues
    BY <1>q, <2>1, PostType
  <2>3. q' \in [Ends -> Queues]
    BY <1>2, <1>q, <2>2 DEF MasterAnswers, SlaveSyncs
  <2> QED BY <1>2, <2>3 DEF MasterAnswers, SlaveSyncs, RdmaTypeOK, Shape, Queues
<1>3. CASE SyncBegins
  <2>1. mishap' \subseteq RdmaFaults /\ mpc' \in {"header", "failed"} /\ fsize' \in Nat
    BY <1>3, RdmaAssumption DEF SyncBegins, RdmaTypeOK, Shape
  <2>2. offset' \in 0..fsize'
    BY <1>3, <2>1 DEF SyncBegins, RdmaTypeOK, Shape
  <2> QED BY <1>3, <2>1, <2>2 DEF SyncBegins, RdmaTypeOK, Shape
<1>4. CASE SendsHeader
  <2>1. q' \in [Ends -> Queues]
    BY <1>4, <1>q, WriteEffect DEF SendsHeader
  <2> QED BY <1>4, <2>1 DEF SendsHeader, RdmaTypeOK, Shape, Queues
<1>5. CASE MasterGets
  <2>1. q' \in [Ends -> Queues] /\ imm' \in [Ends -> Nat]
    BY <1>5, <1>q, EventEffect, PollEffect DEF MasterGets
  <2> QED BY <1>5, <2>1 DEF MasterGets, RdmaTypeOK, Shape, Queues
<1>6. CASE SlaveGets
  <2>1. q' \in [Ends -> Queues] /\ imm' \in [Ends -> Nat]
    BY <1>6, <1>q, EventEffect, PollEffect DEF SlaveGets
  <2> QED BY <1>6, <2>1 DEF SlaveGets, RdmaTypeOK, Shape, Queues
<1>7. CASE SendsChunk
  <2>1. Chunk \in Nat
    BY ChunkType DEF Shape
  <2>2. q' \in [Ends -> Queues]
    BY <1>7, <1>q, <2>1, WriteEffect DEF SendsChunk
  <2>3. buf' \in Seq(Nat)
    <3>1. offset \in Nat /\ buf \in Seq(Nat)
      BY DEF RdmaTypeOK, Shape
    <3>2. Bytes(offset, offset + Chunk) \in Seq(Nat)
      BY <2>1, <3>1, BytesType
    <3> QED BY <1>7, <3>1, <3>2, OverwriteType DEF SendsChunk
  <2> QED BY <1>7, <2>2, <2>3 DEF SendsChunk, RdmaTypeOK, Shape, Queues
<1>8. CASE TakesAck
  <2>1. offset \in Nat /\ fsize \in Nat /\ Chunk \in Nat /\ offset + Chunk <= fsize
    BY ChunkType DEF Shape, RdmaTypeOK
  <2>2. offset' \in 0..fsize
    BY <1>8, <2>1 DEF TakesAck
  <2> QED BY <1>8, <2>2 DEF TakesAck, RdmaTypeOK, Shape
<1>9. CASE WriteFails \/ MasterWaitFails \/ SlaveReplays \/ SlaveGivesUp \/ SlaveDies \/ SlaveLogs
  <2>1. mishap' \subseteq RdmaFaults
    BY <1>9 DEF WriteFails, MasterWaitFails, SlaveReplays, SlaveGivesUp, SlaveDies, SlaveLogs, RdmaTypeOK, Shape
  <2> QED BY <1>9, <2>1 DEF WriteFails, MasterWaitFails, SlaveReplays, SlaveGivesUp, SlaveDies, SlaveLogs, RdmaTypeOK, Shape
<1>10. CASE DestroyAtSyncDone
  <2>1. NewQueue \in Queues
    BY DEF NewQueue, Queues
  <2>2. q' \in [Ends -> Queues]
    BY <1>10, <1>q, <2>1 DEF DestroyAtSyncDone
  <2> QED BY <1>10, <2>2 DEF DestroyAtSyncDone, RdmaTypeOK, Shape, Queues
<1>11. CASE SlaveEmpty \/ SlaveOpens \/ SlaveAcks
  <2>1. mishap' \subseteq RdmaFaults
        /\ \E n \in {0, 1} : \/ WriteImm("slave", "master", 1, n)
                             \/ q' = [q EXCEPT !["slave"] = Post(@, n)]
    BY <1>11 DEF SlaveEmpty, SlaveOpens, SlaveAcks, Answers, RdmaTypeOK, Shape
  <2>2. q' \in [Ends -> Queues]
    BY <1>q, <2>1, WriteEffect, PostEffect
  <2>3. CASE SlaveEmpty
    BY <2>1, <2>2, <2>3 DEF SlaveEmpty, RdmaTypeOK, Shape, Queues
  <2>4. CASE SlaveOpens
    BY <2>1, <1>q, <2>2, <2>4 DEF SlaveOpens, RdmaTypeOK, Shape, Queues
  <2>5. CASE SlaveAcks
    BY <2>1, <2>2, <2>5 DEF SlaveAcks, RdmaTypeOK, Shape, Queues
  <2> QED BY <1>11, <2>3, <2>4, <2>5
<1>12. CASE SlaveStores
  <2>0. received \in Nat /\ imm["slave"] \in Nat /\ received' = received + imm["slave"] /\ spc' = "ack"
    BY <1>12 DEF SlaveStores, RdmaTypeOK, Shape, Ends
  <2>1. received' \in Nat /\ spc' = "ack"
    BY ONLY <2>0
  <2> QED BY <1>12, <1>q, <2>1 DEF SlaveStores, RdmaTypeOK, Shape
<1>13. CASE UNCHANGED rdmaVars
  BY <1>13 DEF rdmaVars, RdmaTypeOK, Shape
<1> QED BY <1>1, <1>2, <1>3, <1>4, <1>5, <1>6, <1>7, <1>8, <1>9, <1>10, <1>11, <1>12, <1>13
        DEF RdmaNext, Handshake, MasterStep, SlaveStep

-----------------------------------------------------------------------------
(* The transfer *)

\* The completions, in the words of the queues.
LEMMA CqTypes == ASSUME Shape PROVE Mcq \in Seq(Nat) /\ Scq \in Seq(Nat)
<1>1. q["master"] \in Queues /\ q["slave"] \in Queues
  BY DEF Shape, RdmaTypeOK, Queues, Ends
<1> QED BY <1>1 DEF Queues, Mcq, Scq

\* The header is with the slave.
LEMMA AtSize ==
  ASSUME Shape, Transfer, spc = "size"
  PROVE  /\ MasterWaits /\ buf = << >> /\ Quiet /\ total = 0 /\ imm["slave"] = fsize
         /\ offset = 0 /\ received = 0
BY DEF Shape, RdmaTypeOK, Transfer, Before, HeaderOut, ChunkOut, Between, MasterWaits, Listening,
       HeaderStored, ChunkStored

\* A chunk is with the slave.
LEMMA AtChunk ==
  ASSUME Shape, Transfer, spc = "chunk"
  PROVE  /\ MasterWaits /\ buf # << >> /\ Quiet /\ offset < fsize /\ total = fsize
         /\ imm["slave"] = Chunk /\ received = offset /\ Holds
BY DEF Shape, RdmaTypeOK, Transfer, Before, HeaderOut, ChunkOut, Between, MasterWaits, Listening,
       HeaderStored, ChunkStored

\* A chunk is stored and not yet acknowledged.
LEMMA AtAck ==
  ASSUME Shape, Transfer, spc = "ack"
  PROVE  /\ MasterWaits /\ buf # << >> /\ Quiet /\ offset < fsize /\ total = fsize
         /\ received = offset + Chunk
BY DEF Shape, RdmaTypeOK, Transfer, Before, HeaderOut, ChunkOut, Between, MasterWaits, Listening,
       HeaderStored, ChunkStored

\* A completion is at the slave, with the slave listening or dead.
LEMMA AtSlaveCq ==
  ASSUME Shape, Transfer, Scq # << >>
  PROVE  /\ MasterWaits /\ Mcq = << >> /\ spc \in Listening \cup {"dead"}
         /\ received = offset
         /\ buf = << >> => Scq = <<fsize>> /\ total = 0 /\ offset = 0
         /\ buf # << >> => /\ Scq = <<Chunk>> /\ total = fsize /\ offset < fsize
                          /\ Holds
BY DEF Shape, RdmaTypeOK, Transfer, Before, HeaderOut, ChunkOut, Between, MasterWaits, Listening,
       HeaderStored, ChunkStored, Quiet

\* A completion is at the master, and what it acknowledges is stored.
LEMMA AtMasterCq ==
  ASSUME Shape, Transfer, Mcq # << >>
  PROVE  /\ MasterWaits /\ Scq = << >> /\ Len(Mcq) = 1
         /\ buf = << >> => offset = 0 /\ HeaderStored
         /\ buf # << >> => offset < fsize /\ total = fsize /\ ChunkStored
BY DEF Shape, RdmaTypeOK, Transfer, Before, HeaderOut, ChunkOut, Between, MasterWaits, Listening,
       Quiet

\* While the master waits only these parts of the invariant speak.
LEMMA WhileWaiting ==
  ASSUME MasterWaits, HeaderOut, ChunkOut, Stored PROVE Transfer
BY DEF MasterWaits, Listening, Transfer, Before, Between

\* A value below the modulus crosses the wire unchanged.
LEMMA ModSmall == ASSUME NEW v \in Nat, v < ImmMod PROVE v % ImmMod = v
BY RdmaAssumption

\* Storing a chunk behind what is there makes a longer beginning of the file.
LEMMA StoreChunk ==
  ASSUME NEW m \in Nat, NEW n \in Nat
  PROVE  Overwrite(Bytes(0, m), m, Bytes(m, m + n)) = Bytes(0, m + n)
<1> DEFINE f == Bytes(0, m)
           d == Bytes(m, m + n)
<1>1. f \in Seq(Nat) /\ Len(f) = m /\ \A i \in 1..m : f[i] = i
  BY BeginningType
<1>4. Len(d) = n /\ \A i \in 1..n : d[i] = m + i
  BY BytesType
<1> HIDE DEF f, d
<1>5. (IF Len(f) > m + Len(d) THEN Len(f) ELSE m + Len(d)) = m + n
  BY <1>1, <1>4
<1>6. \A i \in 1..(m + n) : (IF i \in (m + 1)..(m + Len(d)) THEN d[i - m] ELSE f[i]) = i
  BY <1>1, <1>4
<1>7. Overwrite(f, m, d) = [i \in 1..(m + n) |-> i]
  BY <1>5, <1>6 DEF Overwrite
<1>8. Bytes(0, m + n) = [i \in 1..(m + n) |-> i]
  BY DEF Bytes
<1> QED BY <1>7, <1>8 DEF f, d

\* The hypothesis held before if it holds after a step.
LEMMA GoodBefore == ASSUME Shape, [RdmaNext]_rdmaVars, Good' PROVE Good
<1>1. mishap \subseteq mishap'
  BY DEF RdmaNext, Handshake, MasterStep, SlaveStep, SlaveConnects, MasterAnswers, SlaveSyncs,
         SyncBegins, SendsHeader, SendsChunk, MasterGets, TakesAck, WriteFails, MasterWaitFails,
         DestroyAtSyncDone, Answers, SlaveGets, SlaveEmpty, SlaveOpens, SlaveStores, SlaveAcks, SlaveReplays, SlaveRefuses,
         SlaveGivesUp, SlaveDies, SlaveLogs, rdmaVars
<1>2. fsize' = fsize \/ fsize = 0
  BY DEF RdmaNext, Handshake, MasterStep, SlaveStep, SlaveConnects, MasterAnswers, SlaveSyncs,
         SyncBegins, SendsHeader, SendsChunk, MasterGets, TakesAck, WriteFails, MasterWaitFails,
         DestroyAtSyncDone, Answers, SlaveGets, SlaveEmpty, SlaveOpens, SlaveStores, SlaveAcks, SlaveReplays, SlaveRefuses,
         SlaveGivesUp, SlaveDies, SlaveLogs, rdmaVars, Shape
<1> QED BY <1>1, <1>2, RdmaAssumption DEF Good

\* The handshake and the begin of the transfer.
LEMMA BeginTransfer ==
  ASSUME Shape, Transfer,
         SlaveConnects \/ MasterAnswers \/ SlaveSyncs \/ SlaveRefuses \/ SyncBegins, Shape'
  PROVE  Transfer'
<1>1. mpc = "idle" /\ fsize = 0
  BY DEF SlaveConnects, MasterAnswers, SlaveSyncs, SlaveRefuses, SyncBegins, Shape
<1>2. UNCHANGED <<offset, buf, sfile, total, received>>
  BY DEF SlaveConnects, MasterAnswers, SlaveSyncs, SlaveRefuses, SyncBegins
<1>3. Quiet /\ offset = 0 /\ buf = << >> /\ total = 0 /\ received = 0
      /\ spc \in {"off", "dead"} \cup Listening
  BY <1>1 DEF Transfer, Before
<1>4. Quiet'
  <2>1. q \in [Ends -> Queues] /\ "master" \in Ends /\ "slave" \in Ends
    BY DEF Shape, RdmaTypeOK, Queues, Ends
  <2>2. MaxRecv \in Nat /\ MaxRecv + 9 \in Nat
    BY RdmaAssumption
  <2>3. \A e \in Ends : Post(q[e], MaxRecv).cq = q[e].cq /\ Post(q[e], MaxRecv + 9).cq = q[e].cq
    BY <2>1, <2>2, PostType
  <2>4. q'["master"].cq = q["master"].cq /\ q'["slave"].cq = q["slave"].cq
    BY <2>1, <2>3 DEF SlaveConnects, MasterAnswers, SlaveSyncs, SlaveRefuses, SyncBegins
  <2> QED BY <1>3, <2>4 DEF Quiet, Mcq, Scq
<1>5. mpc' \in {"idle", "header", "failed"} /\ spc' \in {"off", "dead"} \cup Listening
      /\ (mpc' = "failed" => spc' # "off")
  BY <1>1, <1>3 DEF Shape, SlaveConnects, MasterAnswers, SlaveSyncs, SlaveRefuses, SyncBegins, Listening
<1>6. Before'
  BY <1>2, <1>3, <1>4, <1>5 DEF Before, Listening
<1>7. HeaderOut' /\ ChunkOut' /\ Between'
  BY <1>2, <1>3, <1>4, <1>5 DEF HeaderOut, ChunkOut, Between, MasterWaits, Listening
<1>8. Stored'
  <2>1. fsize' \in Nat
    BY DEF Shape, RdmaTypeOK
  <2> QED BY <1>2, <1>3, <1>5, <2>1 DEF Stored, Listening
<1> QED BY <1>6, <1>7, <1>8 DEF Transfer

\* The header goes out.
LEMMA HeaderTransfer ==
  ASSUME Shape, Good, Transfer, SendsHeader PROVE Transfer'
<1>1. /\ Quiet /\ offset = 0 /\ buf = << >> /\ total = 0 /\ received = 0
      /\ spc \in {"off", "dead"} \cup Listening /\ mpc = "header"
  BY DEF Transfer, Before, SendsHeader
<1>2. spc \in Listening
  BY <1>1 DEF Shape, SendsHeader
<1>3. UNCHANGED <<spc, fsize, offset, buf, sfile, total, received, imm>> /\ mpc' = "event"
  BY DEF SendsHeader
<1>4. Scq' = <<fsize>> /\ Mcq' = << >>
  <2>1. q \in [Ends -> Queues] /\ "master" \in Ends /\ "slave" \in Ends /\ fsize \in Nat
    BY DEF Shape, RdmaTypeOK, Queues, Ends
  <2>2. fsize % ImmMod = fsize
    BY <2>1, ModSmall DEF Good
  <2>3. q'["slave"].cq = Append(q["slave"].cq, fsize) /\ q'["master"].cq = q["master"].cq
    BY <2>1, <2>2, WriteEffect DEF SendsHeader
  <2> QED BY <1>1, <2>1, <2>3 DEF Scq, Mcq, Quiet
<1>5. MasterWaits' /\ HeaderOut' /\ ChunkOut'
  BY <1>1, <1>2, <1>3, <1>4 DEF MasterWaits, Listening, HeaderOut, ChunkOut
<1>6. Stored'
  BY <1>1, <1>2, <1>3 DEF Transfer, Stored, Listening
<1> QED BY <1>5, <1>6, WhileWaiting, PTL

\* A chunk goes out: the last one is stored, so its bytes may go.
LEMMA ChunkTransfer ==
  ASSUME Shape, Good, Transfer, SendsChunk PROVE Transfer'
<1>1. /\ Quiet /\ offset < fsize /\ total = fsize /\ received = offset
      /\ spc \in Listening
  BY DEF Transfer, Between, SendsChunk
<1>2. /\ UNCHANGED <<spc, fsize, offset, sfile, total, received, imm>> /\ mpc' = "event"
      /\ buf' = Overwrite(buf, 0, Bytes(offset, offset + Chunk)) /\ Chunk' = Chunk
  BY DEF SendsChunk, Chunk
<1>3. Chunk \in Nat /\ Chunk < ImmMod /\ Chunk > 0 /\ offset \in Nat
  BY <1>1, ChunkType DEF Shape, RdmaTypeOK
<1>4. buf' # << >> /\ Holds'
  <2>1. buf \in Seq(Nat) /\ Bytes(offset, offset + Chunk) \in Seq(Nat)
        /\ Len(Bytes(offset, offset + Chunk)) = Chunk
    BY <1>3, BytesType DEF Shape, RdmaTypeOK
  <2> QED BY <1>2, <1>3, <2>1, OverwriteBegins DEF Holds
<1>5. Scq' = <<Chunk>> /\ Mcq' = << >>
  <2>1. q \in [Ends -> Queues] /\ "master" \in Ends /\ "slave" \in Ends
    BY DEF Shape, RdmaTypeOK, Queues, Ends
  <2>2. Chunk % ImmMod = Chunk
    BY <1>3, ModSmall
  <2>3. q'["slave"].cq = Append(q["slave"].cq, Chunk) /\ q'["master"].cq = q["master"].cq
    BY <1>3, <2>1, <2>2, WriteEffect DEF SendsChunk
  <2> QED BY <1>1, <1>3, <2>3 DEF Scq, Mcq, Quiet
<1>6. MasterWaits' /\ HeaderOut' /\ ChunkOut'
  BY <1>1, <1>2, <1>4, <1>5 DEF MasterWaits, Listening, HeaderOut, ChunkOut
<1>7. Stored'
  BY <1>2 DEF Transfer, Stored
<1> QED BY <1>6, <1>7, WhileWaiting, PTL

\* The master gets its event, arms the queue, takes the answer.
LEMMA MasterGetsTransfer ==
  ASSUME Shape, Transfer, MasterGets PROVE Transfer'
<1>1. UNCHANGED <<spc, fsize, offset, buf, sfile, total, received>> /\ Chunk' = Chunk
  BY DEF MasterGets, Chunk
<1>a. Holds' = Holds
  BY <1>1 DEF Holds
<1>2. q \in [Ends -> Queues] /\ imm \in [Ends -> Nat] /\ "master" \in Ends /\ "slave" \in Ends
  BY DEF Shape, RdmaTypeOK, Queues, Ends
<1>3. Stored'
  BY <1>1 DEF Transfer, Stored
<1>4. CASE mpc # "poll"
  <2>1. MasterWaits /\ MasterWaits' /\ imm' = imm
        /\ (GetEvent("master") \/ q' = [q EXCEPT !["master"] = Rearmed(@)])
    BY <1>4 DEF MasterGets, MasterWaits, Listening
  <2>2. Scq' = Scq /\ Mcq' = Mcq
    BY <1>2, <2>1, EventEffect DEF Scq, Mcq
  <2>3. HeaderOut' /\ ChunkOut'
    BY <1>1, <1>a, <2>1, <2>2 DEF Transfer, HeaderOut, ChunkOut, HeaderStored, ChunkStored, Quiet
  <2> QED BY <1>3, <2>1, <2>3, WhileWaiting, PTL
<1>5. CASE mpc = "poll"
  <2>1. Poll("master") /\ mpc' = "acked"
    BY <1>5 DEF MasterGets
  <2>2. Mcq # << >> /\ Mcq' = Tail(Mcq) /\ Scq' = Scq
    BY <1>2, <2>1, PollEffect DEF Scq, Mcq
  <2>3. /\ Scq = << >> /\ Len(Mcq) = 1
        /\ buf = << >> => offset = 0 /\ HeaderStored
        /\ buf # << >> => offset < fsize /\ total = fsize /\ ChunkStored
    BY <2>2, AtMasterCq
  <2>4. Quiet'
    BY <2>2, <2>3, CqTypes DEF Quiet
  <2>5. Between'
    BY <1>1, <2>1, <2>3, <2>4 DEF Between, HeaderStored, ChunkStored
  <2> QED BY <1>3, <2>1, <2>5 DEF Transfer, Before, HeaderOut, ChunkOut, MasterWaits, Listening
<1> QED BY <1>4, <1>5

\* The master goes on to the next chunk, or has finished.
LEMMA AckTransfer ==
  ASSUME Shape, Transfer, TakesAck PROVE Transfer'
<1>1. /\ Quiet /\ mpc = "acked"
      /\ buf = << >> => offset = 0 /\ HeaderStored
      /\ buf # << >> => offset < fsize /\ total = fsize /\ ChunkStored
  BY DEF Transfer, Between, TakesAck
<1>2. UNCHANGED <<spc, fsize, q, buf, sfile, total, received>> /\ Quiet'
  BY <1>1 DEF TakesAck, Quiet, Mcq, Scq
<1>3. Chunk \in Nat /\ offset + Chunk <= fsize /\ offset \in Nat /\ fsize \in Nat
      /\ (offset < fsize => Chunk > 0)
  BY ChunkType DEF Shape, RdmaTypeOK
<1>4. offset' = received /\ total = fsize
  BY <1>1, <1>3 DEF TakesAck, HeaderAcked, HeaderStored, ChunkStored
<1>5. spc \in IF received < fsize THEN Listening \cup {"dead"} ELSE {"replay", "finished", "dead"}
  BY <1>1, <1>3 DEF HeaderStored, ChunkStored
<1>6. mpc' = IF received < fsize THEN "chunk" ELSE "synced"
  BY <1>4 DEF TakesAck
<1>7. received \in Nat /\ received <= fsize
  BY DEF Transfer, Stored, Shape, RdmaTypeOK
<1>8. Between'
  BY <1>2, <1>3, <1>4, <1>5, <1>6, <1>7 DEF Between
<1>9. Stored'
  BY <1>2, <1>4, <1>7 DEF Transfer, Stored
<1> QED BY <1>6, <1>8, <1>9 DEF Transfer, Before, HeaderOut, ChunkOut, MasterWaits, Listening

\* The transfer is given up, or its queue pair freed.
LEMMA EndTransfer ==
  ASSUME Shape, Good', Transfer, WriteFails \/ DestroyAtSyncDone PROVE Transfer'
<1>1. UNCHANGED <<spc, fsize, offset, buf, sfile, total, received>>
  BY DEF WriteFails, DestroyAtSyncDone
<1>2. Stored'
  BY <1>1 DEF Transfer, Stored
<1>3. CASE WriteFails
  <2>1. Quiet' /\ spc' = "dead" /\ mpc' = "failed"
    BY <1>3 DEF WriteFails, Good, Transfer, Before, Between, Quiet, Mcq, Scq
  <2> QED BY <1>2, <2>1 DEF Transfer, Before, HeaderOut, ChunkOut, Between, MasterWaits, Listening
<1>4. CASE DestroyAtSyncDone
  <2>1. q'["master"].cq = << >> /\ q'["slave"] = q["slave"]
    BY <1>4 DEF DestroyAtSyncDone, Shape, RdmaTypeOK, Ends, NewQueue
  <2>2. Quiet' /\ mpc = "synced" /\ mpc' = "destroyed"
    BY <1>4, <2>1 DEF DestroyAtSyncDone, Transfer, Between, Quiet, Mcq, Scq, Listening
  <2> QED BY <1>1, <1>2, <2>2 DEF Transfer, Before, HeaderOut, ChunkOut, Between, MasterWaits, Listening
<1> QED BY <1>3, <1>4

\* The slave gets its event, arms the queue, takes the message.
LEMMA SlaveGetsTransfer ==
  ASSUME Shape, Transfer, SlaveGets PROVE Transfer'
<1>1. UNCHANGED <<mpc, fsize, offset, buf, sfile, total, received>> /\ Chunk' = Chunk
      /\ spc \in Listening
  BY DEF SlaveGets, Chunk, Listening
<1>a. Holds' = Holds
  BY <1>1 DEF Holds
<1>2. q \in [Ends -> Queues] /\ imm \in [Ends -> Nat] /\ "master" \in Ends /\ "slave" \in Ends
  BY DEF Shape, RdmaTypeOK, Queues, Ends
<1>3. CASE spc # "poll"
  <2>1. spc' \in Listening /\ (GetEvent("slave") \/ q' = [q EXCEPT !["slave"] = Rearmed(@)])
    BY <1>3 DEF SlaveGets, Listening
  <2>2. Scq' = Scq /\ Mcq' = Mcq
    BY <1>2, <2>1, EventEffect DEF Scq, Mcq
  <2>3. Before' /\ Stored'
    BY <1>1, <2>1, <2>2 DEF Transfer, Before, Stored, Quiet, Listening
  <2>4. HeaderOut' /\ ChunkOut'
    BY <1>1, <1>a, <2>1, <2>2 DEF Transfer, HeaderOut, ChunkOut, HeaderStored, ChunkStored, Quiet,
                           MasterWaits, Listening
  <2>5. Between'
    BY <1>1, <2>1, <2>2 DEF Transfer, Between, HeaderStored, ChunkStored, Quiet, Listening
  <2> QED BY <2>3, <2>4, <2>5 DEF Transfer
<1>4. CASE spc = "poll"
  <2>1. Poll("slave") /\ spc' = IF total = 0 THEN "size" ELSE "chunk"
    BY <1>4 DEF SlaveGets
  <2>2. Scq # << >> /\ Scq' = Tail(Scq) /\ Mcq' = Mcq /\ imm'["slave"] = Head(Scq)
    BY <1>2, <2>1, PollEffect DEF Scq, Mcq
  <2>3. /\ MasterWaits /\ Mcq = << >> /\ received = offset
        /\ buf = << >> => Scq = <<fsize>> /\ total = 0 /\ offset = 0
        /\ buf # << >> => /\ Scq = <<Chunk>> /\ total = fsize /\ offset < fsize
                         /\ Holds
    BY <2>2, AtSlaveCq
  <2>4. Quiet' /\ imm'["slave"] = IF buf = << >> THEN fsize ELSE Chunk
    <3>1. \A x : Head(<<x>>) = x /\ Tail(<<x>>) = << >>
      OBVIOUS
    <3>2. Scq = <<IF buf = << >> THEN fsize ELSE Chunk>>
      BY <2>3
    <3> QED BY <2>2, <2>3, <3>1, <3>2 DEF Quiet
  <2>5. fsize \in Nat /\ offset \in Nat
    BY DEF Shape, RdmaTypeOK
  <2>6. MasterWaits' /\ HeaderOut' /\ ChunkOut'
    BY <1>1, <1>a, <2>1, <2>3, <2>4, <2>5 DEF HeaderOut, ChunkOut, MasterWaits
  <2>7. Stored'
    BY <1>1, <2>1 DEF Transfer, Stored
  <2> QED BY <2>6, <2>7, WhileWaiting, PTL
<1> QED BY <1>3, <1>4

\* The slave answers a header of size 0.
LEMMA EmptyTransfer ==
  ASSUME Shape, Good', Transfer, SlaveEmpty PROVE Transfer'
<1>1. /\ MasterWaits /\ buf = << >> /\ Quiet /\ total = 0 /\ fsize = 0
      /\ offset = 0 /\ received = 0
  BY AtSize DEF SlaveEmpty
<1>2. UNCHANGED <<mpc, fsize, offset, buf, total, received>> /\ spc' = "finished" /\ sfile' = << >>
  BY DEF SlaveEmpty, Good
<1>3. q \in [Ends -> Queues] /\ "master" \in Ends /\ "slave" \in Ends
  BY DEF Shape, RdmaTypeOK, Queues, Ends
<1>4. Mcq' = Append(Mcq, 1 % ImmMod) /\ Scq' = Scq
  <2>1. WriteImm("slave", "master", 1, 1)
    BY DEF SlaveEmpty, Answers, Good
  <2> QED BY <1>3, <2>1, WriteEffect DEF Mcq, Scq
<1>5. Len(Mcq') = 1 /\ Scq' = << >>
  BY <1>1, <1>4 DEF Quiet
<1>6. MasterWaits' /\ HeaderOut' /\ ChunkOut'
  BY <1>1, <1>2, <1>5 DEF MasterWaits, HeaderOut, ChunkOut, HeaderStored
<1>7. Stored'
  BY <1>1, <1>2 DEF Stored
<1> QED BY <1>6, <1>7, WhileWaiting, PTL

\* The slave answers a header.
LEMMA OpenTransfer ==
  ASSUME Shape, Good', Transfer, SlaveOpens PROVE Transfer'
<1>1. /\ MasterWaits /\ buf = << >> /\ Quiet /\ total = 0 /\ imm["slave"] = fsize /\ fsize > 0
      /\ offset = 0 /\ received = 0 /\ fsize \in Nat
  BY AtSize DEF SlaveOpens, Shape, RdmaTypeOK
<1>2. /\ UNCHANGED <<mpc, fsize, offset, buf, received>> /\ spc' = "event" /\ sfile' = << >>
      /\ total' = fsize
  BY <1>1 DEF SlaveOpens
<1>3. q \in [Ends -> Queues] /\ "master" \in Ends /\ "slave" \in Ends
  BY DEF Shape, RdmaTypeOK, Queues, Ends
<1>4. Mcq' = Append(Mcq, 1 % ImmMod) /\ Scq' = Scq
  <2>1. WriteImm("slave", "master", 1, 1)
    BY DEF SlaveOpens, Answers, Good
  <2> QED BY <1>3, <2>1, WriteEffect DEF Mcq, Scq
<1>5. Len(Mcq') = 1 /\ Scq' = << >>
  BY <1>1, <1>4 DEF Quiet
<1>6. MasterWaits' /\ HeaderOut' /\ ChunkOut'
  BY <1>1, <1>2, <1>5 DEF MasterWaits, HeaderOut, ChunkOut, HeaderStored, Listening
<1>7. Stored'
  <2>1. Bytes(0, 0) = << >>
    BY BeginningType
  <2> QED BY <1>1, <1>2, <2>1 DEF Stored
<1> QED BY <1>6, <1>7, WhileWaiting, PTL

\* The slave stores the chunk that is in the buffer.
LEMMA StoreTransfer ==
  ASSUME Shape, Transfer, SlaveStores PROVE Transfer'
<1>1. /\ MasterWaits /\ buf # << >> /\ Quiet /\ offset < fsize /\ total = fsize
      /\ imm["slave"] = Chunk /\ received = offset /\ Holds
  BY AtChunk DEF SlaveStores
<1>2. /\ UNCHANGED <<mpc, fsize, offset, q, buf, total>> /\ spc' = "ack" /\ Chunk' = Chunk
      /\ received' = received + Chunk
      /\ sfile' = Overwrite(sfile, received, SubSeq(buf, 1, Chunk))
  BY <1>1 DEF SlaveStores, Chunk
<1>3. Chunk \in Nat /\ offset + Chunk <= fsize /\ offset \in Nat /\ fsize \in Nat
  BY ChunkType DEF Shape, RdmaTypeOK
<1>4. sfile = Bytes(0, offset)
  BY <1>1, <1>3 DEF Transfer, Stored
<1>5. sfile' = Bytes(0, received')
  BY <1>1, <1>2, <1>3, <1>4, StoreChunk DEF Holds
<1>6. MasterWaits' /\ HeaderOut' /\ ChunkOut'
  BY <1>1, <1>2 DEF MasterWaits, HeaderOut, ChunkOut, Quiet, Mcq, Scq
<1>7. Stored'
  BY <1>1, <1>2, <1>3, <1>5 DEF Transfer, Stored
<1> QED BY <1>6, <1>7, WhileWaiting, PTL

\* The slave acknowledges the chunk it has stored.
LEMMA SlaveAckTransfer ==
  ASSUME Shape, Good', Transfer, SlaveAcks PROVE Transfer'
<1>1. /\ MasterWaits /\ buf # << >> /\ Quiet /\ offset < fsize /\ total = fsize
      /\ received = offset + Chunk
  BY AtAck DEF SlaveAcks
<1>2. /\ UNCHANGED <<mpc, fsize, offset, buf, sfile, total, received>> /\ Chunk' = Chunk
      /\ spc' = IF received < fsize THEN "event" ELSE "replay"
  BY <1>1 DEF SlaveAcks, Chunk
<1>3. q \in [Ends -> Queues] /\ "master" \in Ends /\ "slave" \in Ends
  BY DEF Shape, RdmaTypeOK, Queues, Ends
<1>4. Mcq' = Append(Mcq, 1 % ImmMod) /\ Scq' = Scq
  <2>1. \E n \in {0, 1} : WriteImm("slave", "master", 1, n)
    BY DEF SlaveAcks, Answers, Good
  <2> QED BY <1>3, <2>1, WriteEffect DEF Mcq, Scq
<1>5. Len(Mcq') = 1 /\ Scq' = << >>
  BY <1>1, <1>4 DEF Quiet
<1>6. MasterWaits' /\ HeaderOut' /\ ChunkOut'
  BY <1>1, <1>2, <1>5 DEF MasterWaits, HeaderOut, ChunkOut, ChunkStored, Listening
<1>7. Stored'
  <2>1. fsize \in Nat /\ offset \in Nat /\ received \in Nat
    BY DEF Shape, RdmaTypeOK
  <2> QED BY <1>1, <1>2, <2>1 DEF Transfer, Stored
<1> QED BY <1>6, <1>7, WhileWaiting, PTL

\* The slave replays, gives up or dies: what it has stored stays.
LEMMA SlaveEndTransfer ==
  ASSUME Shape, Good', Transfer, SlaveReplays \/ SlaveGivesUp \/ SlaveDies PROVE Transfer'
<1>1. /\ UNCHANGED <<mpc, fsize, offset, q, buf, sfile, total, received, imm>> /\ Chunk' = Chunk
      /\ Mcq' = Mcq /\ Scq' = Scq
  BY DEF SlaveReplays, SlaveGivesUp, SlaveDies, Chunk, Mcq, Scq
<1>a. Holds' = Holds
  BY <1>1 DEF Holds
<1>2. \/ spc = "replay" /\ spc' = "finished"
      \/ spc = "chunk" /\ spc' = "gone"
      \/ spc' = "dead"
  BY DEF SlaveReplays, SlaveGivesUp, SlaveDies, Good
<1>3. hs = "sync"
  BY <1>2 DEF SlaveReplays, SlaveGivesUp, SlaveDies, Shape, Transfer, Before, Listening
<1>4. Before' /\ Stored'
  BY <1>1, <1>2 DEF Transfer, Before, Stored, Quiet, Listening
<1>5. HeaderOut'
  BY <1>1, <1>2 DEF Transfer, HeaderOut, HeaderStored, Quiet, MasterWaits, Listening
<1>6. ChunkOut'
  BY <1>1, <1>a, <1>2 DEF Transfer, ChunkOut, ChunkStored, Quiet, MasterWaits, Listening
<1>7. Between'
  BY <1>1, <1>2 DEF Transfer, Between, HeaderStored, ChunkStored, Quiet, Listening
<1> QED BY <1>4, <1>5, <1>6, <1>7 DEF Transfer

-----------------------------------------------------------------------------
(* The invariant *)

\* The invariant holds before the handshake.
LEMMA InitInvariant == RdmaInit => RdmaInv
<1> SUFFICES ASSUME RdmaInit PROVE RdmaInv
  OBVIOUS
<1>1. Shape
  BY InitTypes
<1>2. Quiet
  BY DEF RdmaInit, Quiet, Mcq, Scq, NewQueue, Ends
<1>3. Before /\ HeaderOut /\ ChunkOut /\ Between /\ Stored
  BY <1>2 DEF RdmaInit, Before, HeaderOut, ChunkOut, Between, Stored, MasterWaits, Listening
<1> QED BY <1>1, <1>3 DEF RdmaInv, Transfer

\* Each step of either thread keeps the invariant.
LEMMA StepInvariant == RdmaInv /\ [RdmaNext]_rdmaVars => RdmaInv'
<1> SUFFICES ASSUME RdmaInv, [RdmaNext]_rdmaVars PROVE RdmaInv'
  OBVIOUS
<1>0. Shape /\ Shape'
  BY StepTypes DEF RdmaInv
<1> SUFFICES ASSUME Good' PROVE Transfer'
  BY <1>0 DEF RdmaInv
<1>a. Good /\ Transfer
  BY <1>0, GoodBefore DEF RdmaInv
<1>1. CASE SlaveConnects \/ MasterAnswers \/ SlaveSyncs \/ SlaveRefuses \/ SyncBegins
  BY <1>0, <1>a, <1>1, BeginTransfer
<1>2. CASE SendsHeader
  BY <1>0, <1>a, <1>2, HeaderTransfer
<1>3. CASE SendsChunk
  BY <1>0, <1>a, <1>3, ChunkTransfer
<1>4. CASE MasterGets
  BY <1>0, <1>a, <1>4, MasterGetsTransfer
<1>5. CASE TakesAck
  BY <1>0, <1>a, <1>5, AckTransfer
<1>6. CASE WriteFails \/ DestroyAtSyncDone
  BY <1>0, <1>a, <1>6, EndTransfer
<1>7. CASE SlaveGets
  BY <1>0, <1>a, <1>7, SlaveGetsTransfer
<1>8. CASE SlaveEmpty
  BY <1>0, <1>a, <1>8, EmptyTransfer
<1>9. CASE SlaveOpens
  BY <1>0, <1>a, <1>9, OpenTransfer
<1>10. CASE SlaveStores
  BY <1>0, <1>a, <1>10, StoreTransfer
<1>11. CASE SlaveAcks
  BY <1>0, <1>a, <1>11, SlaveAckTransfer
<1>12. CASE SlaveReplays \/ SlaveGivesUp \/ SlaveDies
  BY <1>0, <1>a, <1>12, SlaveEndTransfer
<1>13. CASE SlaveLogs \/ MasterWaitFails
  BY <1>13 DEF SlaveLogs, MasterWaitFails, Good
<1>14. CASE UNCHANGED rdmaVars
  BY <1>a, <1>14 DEF rdmaVars, Transfer, Before, HeaderOut, ChunkOut, Between, Stored, HeaderStored,
     ChunkStored, Quiet, Mcq, Scq, MasterWaits, Chunk, Holds
<1> QED BY <1>1, <1>2, <1>3, <1>4, <1>5, <1>6, <1>7, <1>8, <1>9, <1>10, <1>11, <1>12, <1>13, <1>14
        DEF RdmaNext, Handshake, MasterStep, SlaveStep

\* Types, and where the one message between the two threads is.
THEOREM OneMessage == RdmaSpec => []RdmaInv
BY InitInvariant, StepInvariant, PTL DEF RdmaSpec

\* The buffer is never overwritten before its chunk is stored, and SYNC_DONE
\* means that the slave has the whole file.
THEOREM NothingOverwritten == RdmaSpec => []StoredBeforeAcked
<1>1. ASSUME RdmaInv PROVE StoredBeforeAcked
  <2> SUFFICES ASSUME Good
               PROVE  /\ offset > 0 => SubSeq(sfile, 1, offset) = Bytes(0, offset)
                      /\ spc \in {"replay", "finished"} => sfile = Bytes(0, fsize)
    BY DEF StoredBeforeAcked, Good
  <2>1. Stored /\ offset \in Nat /\ received \in Nat /\ fsize \in Nat
    BY <1>1 DEF RdmaInv, Transfer, Shape, RdmaTypeOK
  <2>2. ASSUME offset > 0 PROVE SubSeq(sfile, 1, offset) = Bytes(0, offset)
    <3>1. sfile = Bytes(0, received) /\ offset <= received
      BY <2>1, <2>2 DEF Stored
    <3>3. /\ \A i \in 1..received : sfile[i] = i
          /\ Bytes(0, offset) \in Seq(Nat) /\ Len(Bytes(0, offset)) = offset
          /\ \A i \in 1..offset : Bytes(0, offset)[i] = i
      BY <2>1, <3>1, BeginningType
    <3>4. /\ SubSeq(sfile, 1, offset) \in Seq(Nat) /\ Len(SubSeq(sfile, 1, offset)) = offset
          /\ \A i \in 1..offset : SubSeq(sfile, 1, offset)[i] = sfile[i]
      <4>1. 1 \in Int /\ offset \in Int /\ \A i \in 1..offset : sfile[i] \in Nat
        BY <2>1, <3>1, <3>3
      <4>2. /\ SubSeq(sfile, 1, offset) \in Seq(Nat)
            /\ Len(SubSeq(sfile, 1, offset)) = IF 1 <= offset THEN offset - 1 + 1 ELSE 0
            /\ \A i \in 1..(offset - 1 + 1) : SubSeq(sfile, 1, offset)[i] = sfile[1 + i - 1]
        BY <4>1, SubSeqProperties
      <4>3. offset - 1 + 1 = offset /\ \A i \in 1..offset : 1 + i - 1 = i
        BY <2>1
      <4> QED BY <2>2, <4>2, <4>3
    <3> QED BY <2>1, <3>1, <3>3, <3>4, SeqEqual
  <2>3. ASSUME spc \in {"replay", "finished"} PROVE sfile = Bytes(0, fsize)
    <3>1. Bytes(0, 0) = << >>
      BY BeginningType
    <3> QED BY <2>1, <2>3, <3>1 DEF Stored
  <2> QED BY <2>2, <2>3
<1> QED BY <1>1, OneMessage, PTL
=============================================================================
