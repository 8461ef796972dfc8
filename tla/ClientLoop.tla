----------------------------- MODULE ClientLoop -----------------------------
(***************************************************************************)
(* One connection of the coroutine server: ntyco_client_co (ntyco.c) reads  *)
(* into a growing buffer, protocol_process_stream (resp.c) cuts commands    *)
(* out of it, kvs_execute_batch (kvstore.c) runs each, and the replies      *)
(* collected in the write buffer are sent.  Logging and replication of the  *)
(* writes are in modules Aof and Replication, expiry in Expire.             *)
(*                                                                          *)
(* A request is a kind and a length in bytes.  The kinds:                   *)
(*   "answered"  its status has a branch in resp_pack                       *)
(*   "failed"    it ends with KVS_RESP_ERROR                                *)
(*   "bad"       has_complete_resp_command never accepts it: no '*' in      *)
(*               front, or a length that does not match                     *)
(* Between two calls of recv and send the coroutine does not yield.         *)
(***************************************************************************)
EXTENDS Integers, Sequences, SequencesExt

CONSTANTS
  Roles,       \* "client", or "master": the connection of a slave to its master
  Requests,    \* what a client may send: records [kind, len]
  InitBuf,     \* INIT_BUFFER_SIZE: at most LowRoom
  LowRoom,     \* 65536: less free room than this makes the buffer grow
  MaxBuf,      \* MAX_RBUFFER_SIZE: at least LowRoom
  Faults,      \* which of "oom", "short", "reset" may happen
  MaxReqs      \* bound: requests sent

ASSUME ClientAssumption ==
  /\ Roles \subseteq {"client", "master"}
  /\ Requests \subseteq [kind : {"answered", "failed", "bad"}, len : Nat \ {0}]
  /\ InitBuf \in Nat \ {0} /\ LowRoom \in Nat \ {0} /\ MaxBuf \in Nat

VARIABLES
  role,      \* c->role
  reqs,      \* the requests the client has sent
  inbound,   \* bytes on their way to the server
  ended,     \* the client has closed its side
  cpc,       \* "recv", "parse", "closed"
  rbuf, rcap,  \* the read buffer's bytes, its capacity
  parsed,    \* total_parsed_bytes
  wbuf,      \* replies not sent yet
  replied,   \* replies sent
  ran,       \* requests executed (not in the code)
  faulty     \* the faults that happened to this connection (not in the code)

clientVars == <<role, reqs, inbound, ended, cpc, rbuf, rcap, parsed, wbuf, replied, ran, faulty>>

BytesOf(i, n) == [k \in 1..n |-> [req |-> i, at |-> k]]

ClientInit ==
  /\ role \in Roles /\ reqs = << >> /\ inbound = << >> /\ ended = FALSE
  /\ cpc = "recv" /\ rbuf = << >> /\ rcap = InitBuf /\ parsed = 0
  /\ wbuf = << >> /\ replied = << >> /\ ran = << >> /\ faulty = {}

-----------------------------------------------------------------------------
(* The other end *)

Request(r) ==
  /\ ~ended /\ Len(reqs) < MaxReqs
  /\ reqs' = Append(reqs, r)
  /\ inbound' = inbound \o BytesOf(Len(reqs) + 1, r.len)
  /\ UNCHANGED <<role, ended, cpc, rbuf, rcap, parsed, wbuf, replied, ran, faulty>>

ClientEnds ==
  /\ ~ended /\ ended' = TRUE
  /\ UNCHANGED <<role, reqs, inbound, cpc, rbuf, rcap, parsed, wbuf, replied, ran, faulty>>

-----------------------------------------------------------------------------
(* ntyco_client_co *)

\* Mutant: the loop tests for more than the maximum.
StalledLate == Len(rbuf) > MaxBuf

\* The buffer is full and holds no whole request: the coroutine sleeps for ever.
Stalled == Len(rbuf) >= MaxBuf

MustGrow == rcap - Len(rbuf) < LowRoom /\ rcap < MaxBuf
Capacity ==
  IF ~MustGrow THEN rcap ELSE IF rcap * 2 < LowRoom THEN LowRoom ELSE rcap * 2

Closed == cpc' = "closed" /\ rbuf' = << >> /\ wbuf' = << >> /\ parsed' = 0

\* Some of the bytes that have come, up to the room left.
Receive ==
  /\ cpc = "recv" /\ ~Stalled
  /\ \E n \in 1..Len(inbound) :
       /\ n <= Capacity - Len(rbuf)
       /\ rbuf' = rbuf \o SubSeq(inbound, 1, n)
       /\ inbound' = SubSeq(inbound, n + 1, Len(inbound))
  /\ rcap' = Capacity /\ cpc' = "parse" /\ parsed' = 0
  /\ UNCHANGED <<role, reqs, ended, wbuf, replied, ran, faulty>>

\* Mutant: the end is not seen while part of a request waits.
EndOfStreamWaits == inbound = << >> /\ ended /\ rbuf = << >>

\* recv returns 0: the peer has ended, or no room was asked for.
EndOfStream == (inbound = << >> /\ ended) \/ Capacity = Len(rbuf)

\* The log is flushed (Aof!ForceFlush) and the connection freed.
ReceiveEnd ==
  /\ cpc = "recv" /\ ~Stalled /\ EndOfStream
  /\ Closed
  /\ UNCHANGED <<role, reqs, inbound, ended, rcap, replied, ran, faulty>>

\* The connection is reset, or the buffer cannot grow.
ReceiveFails(f) ==
  /\ f \in Faults \cap {"reset", "oom"} /\ cpc = "recv" /\ ~Stalled
  /\ f = "oom" => MustGrow
  /\ faulty' = faulty \cup {f}
  /\ Closed
  /\ UNCHANGED <<role, reqs, inbound, ended, rcap, replied, ran>>

-----------------------------------------------------------------------------
(* protocol_process_stream *)

\* Mutant: a request that ends the buffer is taken to be incomplete.
HasCompleteLate ==
  /\ parsed < Len(rbuf)
  /\ LET r == reqs[rbuf[parsed + 1].req]
     IN  r.kind # "bad" /\ Len(rbuf) - parsed > r.len

\* has_complete_resp_command at the first byte not parsed yet.
HasComplete ==
  /\ parsed < Len(rbuf)
  /\ LET r == reqs[rbuf[parsed + 1].req]
     IN  r.kind # "bad" /\ Len(rbuf) - parsed >= r.len

\* Mutant: the reply to a pipelined request overwrites the one before it.
PackOverwrites(i) == <<i>>

\* resp_pack: the status of a failed command has no branch.
Pack(i) == IF reqs[i].kind = "failed" THEN wbuf ELSE Append(wbuf, i)

\* One round of its loop: execute and, unless this is the connection to the
\* master, pack the reply.  A write buffer that cannot grow loses the reply.
RunOne ==
  /\ cpc = "parse" /\ HasComplete
  /\ LET i == rbuf[parsed + 1].req
     IN  /\ ran' = Append(ran, i)
         /\ parsed' = parsed + reqs[i].len
         /\ \/ wbuf' = (IF role = "client" THEN Pack(i) ELSE wbuf) /\ UNCHANGED faulty
            \/ /\ "oom" \in Faults /\ role = "client"
               /\ faulty' = faulty \cup {"oom"} /\ UNCHANGED wbuf
  /\ UNCHANGED <<role, reqs, inbound, ended, cpc, rbuf, rcap, replied>>

\* Mutant: the whole buffer is dropped with the parsed part.
RemainingNone == IF parsed > 0 THEN << >> ELSE rbuf

\* What memmove keeps.
Remaining == SubSeq(rbuf, parsed + 1, Len(rbuf))

\* No whole request is left; a request without '*' in front ends the loop the
\* same way, since parsed_bytes == 0 is tested before status < 0.  Nobody
\* looks at the result of send.
Reply ==
  /\ cpc = "parse" /\ ~HasComplete
  /\ rbuf' = Remaining /\ parsed' = 0 /\ cpc' = "recv"
  /\ wbuf' = << >>
  /\ \/ replied' = replied \o wbuf /\ UNCHANGED faulty
     \/ /\ "short" \in Faults /\ wbuf # << >>
        /\ \E n \in 0..(Len(wbuf) - 1) : replied' = replied \o SubSeq(wbuf, 1, n)
        /\ faulty' = faulty \cup {"short"}
  /\ UNCHANGED <<role, reqs, inbound, ended, rcap, ran>>

-----------------------------------------------------------------------------

Peer == (\E r \in Requests : Request(r)) \/ ClientEnds
Server == Receive \/ ReceiveEnd \/ RunOne \/ Reply

ClientNext == Peer \/ Server \/ (\E f \in Faults : ReceiveFails(f))

ClientSpec == ClientInit /\ [][ClientNext]_clientVars

-----------------------------------------------------------------------------
(* Properties *)

\* All bytes the server has and will get, and the one after b in what the
\* client sent.
Stream == rbuf \o inbound
NextByte(b) ==
  IF b.at < reqs[b.req].len THEN [req |-> b.req, at |-> b.at + 1]
                            ELSE [req |-> b.req + 1, at |-> 1]

\* The bytes that are not parsed yet are those of the requests after the first
\* n: they begin with the next request, follow each other and end with the
\* last one.
Aligned(n) ==
  /\ parsed = Len(Stream) <=> n = Len(reqs)
  /\ parsed < Len(Stream) =>
       /\ Stream[parsed + 1] = [req |-> n + 1, at |-> 1]
       /\ Stream[Len(Stream)] = [req |-> Len(reqs), at |-> reqs[Len(reqs)].len]
  /\ \A k \in (parsed + 1)..(Len(Stream) - 1) : Stream[k + 1] = NextByte(Stream[k])

\* Requests run in the order sent, each once, however TCP cuts them and
\* however many come at once, and the bytes not consumed are exactly those of
\* the requests that follow (protocol_process_stream, ntyco_client_co: the
\* buffer is neither misaligned nor short).
RunsInOrder ==
  /\ \A i \in 1..Len(ran) : ran[i] = i
  /\ cpc # "closed" => Aligned(Len(ran))

\* The client gets the replies to what ran, in order, and none it did not ask
\* for, also when the connection is closed; a slave sends its master none
\* (resp_pack_with_realloc).
RepliesMatch ==
  LET out == replied \o wbuf
  IN  /\ (role = "client" /\ faulty = {}) =>
           /\ \A j, k \in 1..Len(out) : j < k => out[j] < out[k]
           /\ Range(out) = {i \in 1..Len(ran) : reqs[i].kind = "answered"}
      /\ role = "master" => replied = << >>

\* The server closes a connection only after its peer has, or a fault: a full
\* buffer never makes recv return 0 (MAX_RBUFFER_SIZE, the growth of rbuffer).
ClosedByPeer == cpc = "closed" => (ended /\ inbound = << >>) \/ faulty # {}

\* A request the server can never take: it is bad, or does not fit in the
\* largest buffer.
Blocks(i) == reqs[i].kind = "bad" \/ reqs[i].len > MaxBuf

\* The requests that wait for an answer: sent, and none before them blocks.
Unanswered ==
  {i \in 1..Len(reqs) :
     reqs[i].kind = "answered" /\ (\A j \in 1..i : ~Blocks(j)) /\ i \notin Range(replied)}

\* All requests are answered when the client waits, unless the connection ends,
\* the request fails or one before it blocks the connection.
RequestsAnswered ==
  (role = "client" /\ Unanswered # {}) ~> (Unanswered = {} \/ cpc = "closed" \/ faulty # {})

\* The connection of a client that has gone is freed, unless its buffer is
\* full: then the coroutine sleeps for ever and never calls recv again.
EndedIsClosed == ended ~> (cpc = "closed" \/ Stalled)
=============================================================================
