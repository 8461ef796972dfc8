-------------------------------- MODULE Relay --------------------------------
(***************************************************************************)
(* The eBPF relay (sync_filter.bpf.c, ebpf_relay.c).  A traffic-control     *)
(* program copies the payload of every TCP segment that arrives for the     *)
(* master's port into a kernel ring buffer; the relay process puts the      *)
(* segments back in order and sends the bytes to the slave.                 *)
(*                                                                          *)
(* A byte is <<connection, position>>.  Its sequence number is the          *)
(* connection's initial one plus the position, modulo Mod (2^32).  TCP may   *)
(* deliver any range of a stream at any time, more than once and cut at      *)
(* other places when it is retransmitted; an uncaptured segment is not seen  *)
(* again unless TCP repeats it for its own reasons.                          *)
(***************************************************************************)
EXTENDS Integers, Sequences, FiniteSets

CONSTANTS
  StreamLen,    \* connection -> bytes its client sends: below half of Mod, as TCP's window
  Isn,          \* connection -> initial sequence number
  Mod,          \* sequence numbers are modulo this
  SegLens,      \* lengths of segments
  MaxPayload,   \* MAX_PAYLOAD_SIZE
  KernelSlots,  \* events the kernel ring buffer holds
  PoolSize,     \* OOO_MAX
  RingSize,     \* RING_SIZE
  MaxSegs       \* bound: segments that arrive

Conns == DOMAIN StreamLen

ASSUME RelayAssumption ==
  /\ Mod \in Nat \ {0} /\ RingSize \in Nat \ {0} /\ PoolSize \in Nat
  /\ MaxPayload \in Nat \ {0} /\ SegLens \subseteq Nat \ {0}
  /\ \A c \in Conns : StreamLen[c] \in Nat /\ 2 * StreamLen[c] < Mod /\ Isn[c] \in Nat

VARIABLES
  kernel,    \* payload_ringbuf: events captured and not yet polled
  rpc,       \* the relay's loop: "poll", "merge" (in ooo_flush), "flush", "done"
  running,
  expected,  \* expected_seq
  started,   \* seq_initialized
  pool,      \* ooo_pool
  rb,        \* the ring of bytes to send: [buf, size, head, tail, bytes]
  sent,      \* the bytes the slave's socket took
  arrived,   \* bound: segments that have arrived
  handled,   \* the events handled, as ranges (not in the code)
  sound      \* one connection, no reset of the pool, no failed malloc (not in the code)

relayGhosts == <<arrived, handled, sound>>
relayVars == <<kernel, rpc, running, expected, started, pool, rb, sent, relayGhosts>>

NoSeg == [seq |-> 0, data |-> << >>]      \* used = 0
NoByte == <<0, 0>>

EmptyRing(sz) ==
  [buf |-> [i \in 0..(sz - 1) |-> NoByte], size |-> sz, head |-> 0, tail |-> 0, bytes |-> 0]

RelayInit ==
  /\ kernel = << >> /\ rpc = "poll" /\ running = TRUE
  /\ expected = 0 /\ started = FALSE
  /\ pool = [i \in 1..PoolSize |-> NoSeg]
  /\ rb = EmptyRing(RingSize) /\ sent = << >>
  /\ arrived = 0 /\ handled = {} /\ sound = TRUE

-----------------------------------------------------------------------------
(* The kernel program *)

\* Positions p .. p + n - 1 of connection c, with a length cut to the event's
\* payload.
Event(c, p, n) ==
  LET len == IF n > MaxPayload THEN MaxPayload ELSE n
  IN  [seq |-> (Isn[c] + p) % Mod, data |-> [i \in 1..len |-> <<c, p + i - 1>>]]

\* handle_tc_dual_write captures the segment.  One that finds the ring buffer
\* full, or carries FIN, leaves no trace here although the master receives it:
\* it is a segment that does not arrive.
Arrives(c, p, n) ==
  /\ arrived < MaxSegs /\ p + n <= StreamLen[c]
  /\ Len(kernel) < KernelSlots
  /\ kernel' = Append(kernel, Event(c, p, n))
  /\ arrived' = arrived + 1
  /\ UNCHANGED <<rpc, running, expected, started, pool, rb, sent, handled, sound>>

-----------------------------------------------------------------------------
(* rb_write *)

Contents(r) == [i \in 1..r.bytes |-> r.buf[(r.head + i - 1) % r.size]]

\* new_size: doubled, at least once, until it is enough.
Doubled(sz, need) ==
  LET enough[s \in Nat] == IF s >= need THEN s ELSE enough[2 * s]
  IN  enough[2 * sz]

\* The contents are copied to the start of a larger buffer.
Grown(r, need) ==
  LET sz == Doubled(r.size, need)
  IN  [buf |-> [i \in 0..(sz - 1) |->
                  IF i < r.bytes THEN r.buf[(r.head + i) % r.size] ELSE NoByte],
       size |-> sz, head |-> 0, tail |-> r.bytes, bytes |-> r.bytes]

Put(r, data) ==
  [r EXCEPT
     !.buf = [i \in 0..(r.size - 1) |->
                LET k == (i - r.tail) % r.size
                IN  IF k < Len(data) THEN data[k + 1] ELSE r.buf[i]],
     !.tail = (r.tail + Len(data)) % r.size,
     !.bytes = r.bytes + Len(data)]

NeedsGrowth(data) == rb.bytes + Len(data) > rb.size

\* The bytes are stored, or lost when the larger buffer cannot be allocated:
\* nobody looks at the result, and expected_seq moves past them.
Accept(exp, data) ==
  /\ expected' = (exp + Len(data)) % Mod
  /\ rb' \in IF NeedsGrowth(data)
               THEN {rb, Put(Grown(rb, rb.bytes + Len(data)), data)} ELSE {Put(rb, data)}

-----------------------------------------------------------------------------
(* process_tcp_payload *)

\* SEQ_GT
Gt(x, y) == (x - y) % Mod \in 1..((Mod - 1) \div 2)

Used(i) == pool[i].data # << >>
FreeSlots == {i \in 1..PoolSize : ~Used(i)}
FirstOf(S) == CHOOSE i \in S : \A j \in S : i <= j

Extent(e) == [c |-> e.data[1][1], from |-> e.data[1][2], to |-> e.data[Len(e.data)][2]]

\* Mutant: the bytes already forwarded are not cut off.
NewPartWhole(e, exp) == e.data

\* What a segment that begins at or before expected_seq adds to it.
NewPart(e, exp) == SubSeq(e.data, ((exp - e.seq) % Mod) + 1, Len(e.data))

\* ooo_insert: a second segment with the same sequence number is ignored; a
\* full pool is emptied, and the next segment starts the stream anew.
Insert(e) ==
  \/ /\ \E i \in 1..PoolSize : Used(i) /\ pool[i].seq = e.seq
     /\ UNCHANGED <<pool, started>>
  \/ /\ \A i \in 1..PoolSize : Used(i) => pool[i].seq # e.seq
     /\ IF FreeSlots # {}
          THEN pool' = [pool EXCEPT ![FirstOf(FreeSlots)] = e] /\ UNCHANGED started
          ELSE pool' = [i \in 1..PoolSize |-> NoSeg] /\ started' = FALSE

\* One event of ring_buffer__poll.  The first one sets where the stream starts.
HandleEvent ==
  /\ rpc = "poll" /\ kernel # << >>
  /\ LET e   == Head(kernel)
         exp == IF started THEN expected ELSE e.seq
         end == (e.seq + Len(e.data)) % Mod
     IN  /\ \/ /\ ~Gt(e.seq, exp) /\ Gt(end, exp)
               /\ Accept(exp, NewPart(e, exp))
               /\ started' = TRUE /\ rpc' = "merge" /\ UNCHANGED pool
            \/ /\ ~Gt(e.seq, exp) /\ ~Gt(end, exp)
               /\ UNCHANGED <<expected, rb, started, pool, rpc>>
            \/ /\ Gt(e.seq, exp)
               /\ Insert(e) /\ UNCHANGED <<expected, rb, rpc>>
         /\ handled' = handled \cup {Extent(e)}
         /\ sound' = (/\ sound /\ (started => started')
                      /\ (rpc' = "merge" => rb' # rb)
                      /\ \A h \in handled : h.c = Extent(e).c)
  /\ kernel' = Tail(kernel)
  /\ UNCHANGED <<running, sent, arrived>>

\* The slots ooo_flush can take next.
Matching == {i \in 1..PoolSize : Used(i) /\ pool[i].seq = expected}

\* A round of ooo_flush: the first segment that continues the stream.
Merge ==
  /\ rpc = "merge" /\ Matching # {}
  /\ LET i == FirstOf(Matching)
     IN  /\ Accept(expected, pool[i].data)
         /\ pool' = [pool EXCEPT ![i] = NoSeg]
  /\ sound' = (sound /\ rb' # rb)
  /\ UNCHANGED <<kernel, rpc, running, started, sent, arrived, handled>>

\* Mutant: one round only.
MergedOne == rpc = "merge"

\* The condition of its loop.
Merged == rpc = "merge" /\ Matching = {}

MergeEnds ==
  /\ Merged /\ rpc' = "poll"
  /\ UNCHANGED <<kernel, running, expected, started, pool, rb, sent, relayGhosts>>

-----------------------------------------------------------------------------
(* flush_all, and the loop of main *)

\* ring_buffer__poll returns when it has seen the kernel's buffer empty.
PollEnds ==
  /\ rpc = "poll" /\ kernel = << >> /\ rpc' = "flush"
  /\ UNCHANGED <<kernel, running, expected, started, pool, rb, sent, relayGhosts>>

\* Mutant: the part before the end of the buffer is not seen once the data
\* has wrapped.
AvailableNoWrap == IF rb.head < rb.tail THEN rb.tail - rb.head ELSE 0

\* avail of rb_send: up to the end of the data or of the buffer.  Equal
\* indices count as empty, even when the ring is exactly full.
Available ==
  IF rb.head < rb.tail THEN rb.tail - rb.head
  ELSE IF rb.head > rb.tail THEN rb.size - rb.head ELSE 0

\* send() takes some of it.
SendSome(n) ==
  /\ rpc = "flush" /\ running /\ n <= Available
  /\ sent' = sent \o SubSeq(Contents(rb), 1, n)
  /\ rb' = [rb EXCEPT !.head = (rb.head + n) % rb.size, !.bytes = rb.bytes - n]
  /\ UNCHANGED <<kernel, rpc, running, expected, started, pool, relayGhosts>>

\* send() fails, or a signal came: running is read in this part of the loop
\* only.
Stops ==
  /\ rpc = "flush" /\ running
  /\ running' = FALSE
  /\ UNCHANGED <<kernel, rpc, expected, started, pool, rb, sent, relayGhosts>>

\* Nothing to send, EAGAIN, or the limit on rounds.
FlushEnds ==
  /\ rpc = "flush" /\ rpc' = IF running THEN "poll" ELSE "done"
  /\ UNCHANGED <<kernel, running, expected, started, pool, rb, sent, relayGhosts>>

-----------------------------------------------------------------------------

Arrival == \E c \in Conns, n \in SegLens : \E p \in 0..(StreamLen[c] - n) : Arrives(c, p, n)
Sends == \E n \in 1..RingSize * 8 : SendSome(n)
RelayStep == HandleEvent \/ Merge \/ MergeEnds \/ PollEnds \/ FlushEnds

RelayNext == Arrival \/ RelayStep \/ Sends \/ Stops

RelaySpec == RelayInit /\ [][RelayNext]_relayVars

-----------------------------------------------------------------------------
(* Properties *)

Forwarded == sent \o Contents(rb)

\* What the slave got and what waits for it are consecutive bytes of the
\* client's stream, from the first segment captured up to expected_seq: none
\* repeated, skipped or moved, whatever the kernel dropped or cut, the network
\* reordered or repeated and the ring wrapped or grew (process_tcp_payload,
\* rb_write, rb_send).  It holds for one connection, until the pool overflows
\* or an allocation fails.
ForwardsTheStream ==
  (sound /\ started) =>
    LET c == Forwarded[1][1]  first == Forwarded[1][2]
    IN  /\ Forwarded = [i \in 1..Len(Forwarded) |-> <<c, first + i - 1>>]
        /\ expected = (Isn[c] + first + Len(Forwarded)) % Mod

\* No two captured ranges overlap but equal ones: TCP did not cut a
\* retransmission at another place.
Uncut ==
  \A g, h \in handled :
    g = h \/ g.c # h.c \/ g.to < h.from \/ h.to < g.from

\* Every byte the relay has seen from its first segment on is forwarded, or
\* in the pool ahead of expected_seq (ooo_insert, ooo_flush): nothing waits
\* for a segment that has already come.
NothingSeenIsLost ==
  (sound /\ started /\ rpc # "merge" /\ Uncut) =>
    \A h \in handled : \A p \in h.from..h.to :
      \/ p < Forwarded[1][2] + Len(Forwarded)
      \/ \E i \in 1..PoolSize :
           /\ Used(i) /\ Gt(pool[i].seq, expected)
           /\ \E k \in 1..Len(pool[i].data) : pool[i].data[k] = <<h.c, p>>

\* Bytes in the ring are sent, unless the relay stops or the ring is exactly
\* full: rb_send takes equal indices for an empty ring.
RingDrains ==
  (rb.bytes > 0) ~> (rb.bytes = 0 \/ ~running \/ rb.bytes = rb.size)
=============================================================================
