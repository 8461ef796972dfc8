---------------------------- MODULE StreamProofs ----------------------------
(***************************************************************************)
(* Two byte streams: what a client sends to the server, and what the       *)
(* relay forwards to the slave.                                            *)
(*                                                                         *)
(* A client's connection: requests run in order, once each, the replies    *)
(* match them, and the server never closes first, for buffers of every     *)
(* size, requests of every length and every way TCP cuts them.             *)
(*                                                                         *)
(* What is proved of the bytes is about one sequence, the read buffer with *)
(* what is still on its way: receiving changes where they are and not what *)
(* they are, parsing moves the index over one request, memmove drops what  *)
(* lies before the index.                                                  *)
(*                                                                         *)
(* The relay: what it has sent and what waits in its ring are consecutive  *)
(* bytes of the captured stream, and every range it has seen is among them *)
(* or in its pool, for every initial sequence number, size of the ring and *)
(* of the pool, and every order in which segments come.                    *)
(*                                                                         *)
(* The invariant names a connection c and two positions, f of the first    *)
(* byte captured and front, where the stream goes on: the bytes forwarded  *)
(* are f .. front - 1 and expected_seq is the number of front.  Sequence   *)
(* numbers compare as positions do because a stream is shorter than half   *)
(* of their range; the ring is a sequence, whatever its indices are.       *)
(***************************************************************************)
EXTENDS ClientLoop, Relay, NaturalsInduction, WellFoundedInduction, SequenceTheorems, TLAPS

ByteSet == [req : Nat, at : Nat]

ClientTypeOK ==
  /\ role \in Roles /\ reqs \in Seq(Requests)
  /\ inbound \in Seq(ByteSet) /\ rbuf \in Seq(ByteSet) /\ parsed \in 0..Len(rbuf)
  /\ cpc \in {"recv", "parse", "closed"} /\ rcap \in Nat \ {0}
  /\ wbuf \in Seq(Nat) /\ replied \in Seq(Nat) /\ ran \in Seq(Nat)

\* The buffer holds what it has room for; between two rounds nothing is
\* parsed and no reply waits.
Buffers ==
  /\ Len(rbuf) <= rcap
  /\ cpc # "parse" => parsed = 0 /\ wbuf = << >>

\* Only requests that were sent have bytes, and only those run.
Sent ==
  /\ \A k \in 1..Len(Stream) : Stream[k].req \in 1..Len(reqs)
  /\ Len(ran) <= Len(reqs)

Silent == role = "master" => wbuf = << >>

ClientInv ==
  /\ ClientTypeOK /\ Buffers /\ Sent /\ Silent
  /\ RunsInOrder /\ RepliesMatch /\ ClosedByPeer

-----------------------------------------------------------------------------
(* Alignment of a sequence of bytes s at p: Aligned, with its parameters *)

NextIn(b, rq) ==
  IF b.at < rq[b.req].len THEN [req |-> b.req, at |-> b.at + 1] ELSE [req |-> b.req + 1, at |-> 1]

Follow(s, p, rq, n) ==
  /\ p = Len(s) <=> n = Len(rq)
  /\ p < Len(s) =>
       /\ s[p + 1] = [req |-> n + 1, at |-> 1]
       /\ s[Len(s)] = [req |-> Len(rq), at |-> rq[Len(rq)].len]
  /\ \A k \in (p + 1)..(Len(s) - 1) : s[k + 1] = NextIn(s[k], rq)

\* Aligned, with the state as parameters.
LEMMA AlignedFollow == \A n : Aligned(n) <=> Follow(Stream, parsed, reqs, n)
BY DEF Aligned, Follow, NextByte, NextIn

\* A set of naturals that is not empty has a least element.
LEMMA Least ==
  ASSUME NEW S, S \subseteq Nat, S # {}
  PROVE  \E x \in S : \A y \in S : x =< y
<1> DEFINE R == OpToRel(<, Nat)
<1>1. IsWellFoundedOn(R, Nat)  BY NatLessThanWellFounded
<1>2. PICK x \in S : \A y \in S : ~(<<y, x>> \in R)  BY <1>1, WFMin
<1>3. ASSUME NEW y \in S PROVE x =< y
  <2>1. <<y, x>> \in Nat \X Nat  OBVIOUS
  <2>2. ~(y < x)  BY <1>2, <2>1 DEF OpToRel
  <2> QED  BY <2>2
<1> QED  BY <1>3

\* The next request begins at p: its bytes come one after the other.
LEMMA RequestBytes ==
  ASSUME NEW s \in Seq(ByteSet), NEW p \in Nat, p < Len(s), NEW rq, NEW n \in Nat,
         Follow(s, p, rq, n), NEW len \in Nat, len = rq[n + 1].len, p + len <= Len(s)
  PROVE  \A k \in 1..len : s[p + k] = [req |-> n + 1, at |-> k]
<1> DEFINE Bad == {k \in 1..len : s[p + k] # [req |-> n + 1, at |-> k]}
<1>1. SUFFICES ASSUME Bad # {} PROVE FALSE  OBVIOUS
<1>2. PICK k \in Bad : \A j \in Bad : k =< j
  <2>1. Bad \subseteq Nat  OBVIOUS
  <2> HIDE DEF Bad
  <2> QED  BY <1>1, <2>1, Least
<1>3. k \in 1..len /\ s[p + k] # [req |-> n + 1, at |-> k]  OBVIOUS
<1>4. k # 1  BY <1>3 DEF Follow
<1>5. k - 1 \in 1..len /\ k - 1 \notin Bad  BY <1>2, <1>3, <1>4
<1>6. s[p + (k - 1)] = [req |-> n + 1, at |-> k - 1]  BY <1>5
<1>7. /\ p + (k - 1) \in (p + 1)..(Len(s) - 1) /\ (p + (k - 1)) + 1 = p + k
      /\ (k - 1) + 1 = k /\ k - 1 < len
  <2>1. Len(s) \in Nat /\ p \in Nat /\ len \in Nat /\ p + len <= Len(s)  OBVIOUS
  <2>2. k \in 1..len  BY <1>3
  <2> HIDE DEF Bad
  <2> QED  BY ONLY <1>4, <2>1, <2>2
<1>8. s[p + k] = NextIn(s[p + (k - 1)], rq)
  <2>1. s[(p + (k - 1)) + 1] = NextIn(s[p + (k - 1)], rq)  BY <1>7 DEF Follow
  <2> QED  BY <1>7, <2>1
<1>9. s[p + k] = [req |-> n + 1, at |-> k]  BY <1>6, <1>7, <1>8 DEF NextIn
<1> QED  BY <1>3, <1>9

\* The index moves over the next request.
LEMMA FollowRun ==
  ASSUME NEW s \in Seq(ByteSet), NEW p \in Nat, p < Len(s), NEW rq, NEW n \in Nat,
         Len(rq) \in Nat, Follow(s, p, rq, n),
         NEW len \in Nat \ {0}, len = rq[n + 1].len, p + len <= Len(s),
         \A k \in 1..Len(s) : s[k].req \in 1..Len(rq)
  PROVE  Follow(s, p + len, rq, n + 1)
<1>0. Len(s) \in Nat /\ len \in Nat /\ len \in 1..len  OBVIOUS
<1>1. s[p + len] = [req |-> n + 1, at |-> len]
  <2>1. \A k \in 1..len : s[p + k] = [req |-> n + 1, at |-> k]  BY <1>0, RequestBytes
  <2> QED  BY ONLY <1>0, <2>1
<1>2. ASSUME p + len < Len(s) PROVE s[(p + len) + 1] = [req |-> (n + 1) + 1, at |-> 1]
  <2>0. p \in Nat /\ len >= 1  BY <1>0
  <2>1. p + len \in (p + 1)..(Len(s) - 1)  BY ONLY <1>0, <1>2, <2>0
  <2>2. s[(p + len) + 1] = NextIn(s[p + len], rq)  BY <2>1 DEF Follow
  <2> QED  BY <1>0, <1>1, <2>2 DEF NextIn
<1>3. s[Len(s)] = [req |-> Len(rq), at |-> rq[Len(rq)].len]  BY DEF Follow
<1>4. p + len = Len(s) => n + 1 = Len(rq)
  <2>1. SUFFICES ASSUME p + len = Len(s) PROVE n + 1 = Len(rq)  OBVIOUS
  <2>2. s[Len(s)].req = n + 1  BY ONLY <1>1, <2>1
  <2> QED  BY <1>3, <2>2
<1>5. p + len < Len(s) => n + 1 # Len(rq)
  <2>1. SUFFICES ASSUME p + len < Len(s) PROVE n + 1 # Len(rq)  OBVIOUS
  <2>2. s[(p + len) + 1].req = (n + 1) + 1  BY <1>2, <2>1
  <2>3. (p + len) + 1 \in 1..Len(s)  BY <1>0, <2>1
  <2>4. (n + 1) + 1 \in 1..Len(rq)  BY <2>2, <2>3
  <2> QED  BY <2>4
<1>6. \A k \in ((p + len) + 1)..(Len(s) - 1) : k \in (p + 1)..(Len(s) - 1)
  <2>1. p \in Nat  OBVIOUS
  <2> QED  BY ONLY <1>0, <2>1
<1>7. p + len = Len(s) \/ p + len < Len(s)  BY <1>0
<1> QED  BY <1>0, <1>2, <1>3, <1>4, <1>5, <1>6, <1>7 DEF Follow

\* What lies before the index is dropped.
LEMMA FollowCut ==
  ASSUME NEW s \in Seq(ByteSet), NEW p \in Nat, p <= Len(s), NEW rq, NEW n,
         Follow(s, p, rq, n),
         NEW t \in Seq(ByteSet), Len(t) = Len(s) - p, \A k \in 1..Len(t) : t[k] = s[p + k]
  PROVE  Follow(t, 0, rq, n)
<1>1. Len(s) \in Nat /\ Len(t) \in Nat  OBVIOUS
<1>2. 0 = Len(t) <=> p = Len(s)  BY <1>1
<1>3. ASSUME 0 < Len(t)
      PROVE  t[0 + 1] = [req |-> n + 1, at |-> 1] /\ t[Len(t)] = [req |-> Len(rq), at |-> rq[Len(rq)].len]
  <2>1. 1 \in 1..Len(t) /\ Len(t) \in 1..Len(t) /\ p < Len(s) /\ p + Len(t) = Len(s)  BY <1>1, <1>3
  <2>2. t[1] = s[p + 1] /\ t[Len(t)] = s[p + Len(t)]  BY <2>1
  <2> QED  BY <2>1, <2>2 DEF Follow
<1>4. ASSUME NEW k \in (0 + 1)..(Len(t) - 1) PROVE t[k + 1] = NextIn(t[k], rq)
  <2>1. k \in 1..Len(t) /\ k + 1 \in 1..Len(t) /\ p + (k + 1) = (p + k) + 1
        /\ p + k \in (p + 1)..(Len(s) - 1)
    BY <1>1
  <2>2. t[k] = s[p + k] /\ t[k + 1] = s[(p + k) + 1]  BY <2>1
  <2> QED  BY <2>1, <2>2 DEF Follow
<1> QED  BY <1>2, <1>3, <1>4 DEF Follow

\* One more request is sent.
LEMMA FollowMore ==
  ASSUME NEW s \in Seq(ByteSet), NEW p \in Nat, p <= Len(s), NEW rq \in Seq(Requests),
         NEW n \in Nat, n <= Len(rq), Follow(s, p, rq, n),
         \A k \in 1..Len(s) : s[k].req \in 1..Len(rq),
         NEW r \in Requests, NEW t \in Seq(ByteSet), Len(t) = Len(s) + r.len,
         \A k \in 1..Len(s) : t[k] = s[k],
         \A k \in 1..r.len : t[Len(s) + k] = [req |-> Len(rq) + 1, at |-> k]
  PROVE  Follow(t, p, Append(rq, r), n)
<1> DEFINE m == Len(rq)
           q == Append(rq, r)
<1>1. /\ Len(s) \in Nat /\ m \in Nat /\ r.len \in Nat /\ r.len > 0
      /\ Len(q) = m + 1 /\ q[m + 1] = r /\ \A i \in 1..m : q[i] = rq[i]
  BY ClientAssumption
<1> HIDE DEF q, m
<1>2. p < Len(t) /\ Len(t) \in Nat /\ n # m + 1  BY <1>1 DEF m
<1>3. t[p + 1] = [req |-> n + 1, at |-> 1]
  <2>1. CASE p < Len(s)
    <3>1. p + 1 \in 1..Len(s)  BY <1>1, <2>1
    <3> QED  BY <2>1, <3>1 DEF Follow
  <2>2. CASE p = Len(s)
    <3>1. 1 \in 1..r.len  BY <1>1
    <3>2. t[Len(s) + 1] = [req |-> m + 1, at |-> 1]  BY <3>1 DEF m
    <3>3. n = m  BY <2>2 DEF Follow, m
    <3> QED  BY <2>2, <3>2, <3>3
  <2> QED  BY <1>1, <2>1, <2>2
<1>4. t[Len(t)] = [req |-> Len(q), at |-> q[Len(q)].len]
  <2>1. r.len \in 1..r.len  BY <1>1
  <2>2. t[Len(s) + r.len] = [req |-> m + 1, at |-> r.len]  BY <2>1 DEF m
  <2> QED  BY <1>1, <2>2
<1>5. ASSUME NEW k \in (p + 1)..(Len(t) - 1) PROVE t[k + 1] = NextIn(t[k], q)
  <2>0. k \in Nat /\ k + 1 <= Len(t) /\ k >= 1  BY <1>2
  <2>1. CASE k < Len(s)
    <3>1. k \in 1..Len(s) /\ k + 1 \in 1..Len(s) /\ k \in (p + 1)..(Len(s) - 1)
      BY <1>1, <2>0, <2>1
    <3>2. t[k] = s[k] /\ t[k + 1] = s[k + 1] /\ s[k + 1] = NextIn(s[k], rq)  BY <3>1 DEF Follow
    <3>3. q[s[k].req] = rq[s[k].req]  BY <1>1, <3>1 DEF m
    <3> QED  BY <3>2, <3>3 DEF NextIn
  <2>2. CASE k = Len(s)
    <3>1. p < Len(s) /\ Len(s) \in 1..Len(s) /\ 1 \in 1..r.len  BY <1>1, <2>0, <2>2
    <3>2. t[k] = [req |-> m, at |-> rq[m].len]  BY <2>2, <3>1 DEF Follow, m
    <3>3. t[k + 1] = [req |-> m + 1, at |-> 1]  BY <2>2, <3>1 DEF m
    <3>4. m \in 1..m
      <4>1. s[Len(s)].req = m  BY <3>1 DEF Follow, m
      <4> QED  BY <3>1, <4>1 DEF m
    <3>5. q[m] = rq[m]  BY <1>1, <3>4
    <3>6. rq[m] \in Requests  BY <3>4 DEF m
    <3>7. ~(rq[m].len < rq[m].len)  BY <3>6, ClientAssumption
    <3> QED  BY <3>2, <3>3, <3>5, <3>7 DEF NextIn
  <2>3. CASE k > Len(s)
    <3>1. PICK j \in 1..r.len : k = Len(s) + j /\ j + 1 \in 1..r.len
      <4>1. k - Len(s) \in 1..r.len /\ k = Len(s) + (k - Len(s)) /\ (k - Len(s)) + 1 \in 1..r.len
        <5>1. Len(t) = Len(s) + r.len  OBVIOUS
        <5> QED  BY ONLY <1>1, <2>0, <2>3, <5>1
      <4> QED  BY <4>1
    <3>2. k + 1 = Len(s) + (j + 1)  BY <1>1, <3>1
    <3>3. t[k] = [req |-> m + 1, at |-> j] /\ t[k + 1] = [req |-> m + 1, at |-> j + 1]
      BY <3>1, <3>2 DEF m
    <3>4. q[m + 1].len = r.len /\ j < r.len  BY ONLY <1>1, <3>1
    <3> QED  BY <3>3, <3>4 DEF NextIn
  <2> QED  BY <1>1, <2>0, <2>1, <2>2, <2>3
<1>6. p # Len(t) /\ n # Len(q)  BY <1>1, <1>2
<1>7. Follow(t, p, q, n)  BY <1>3, <1>4, <1>5, <1>6 DEF Follow
<1> QED  BY <1>7 DEF q

-----------------------------------------------------------------------------
(* Replies out to the first n requests of rq: RepliesMatch, with its        *)
(* parameters                                                               *)

Answered(out, rq, n) ==
  /\ \A j, k \in 1..Len(out) : j < k => out[j] < out[k]
  /\ Range(out) = {i \in 1..n : rq[i].kind = "answered"}

Fine == role = "client" /\ faulty = {}

\* RepliesMatch, with the state as parameters.
LEMMA RepliesAnswered ==
  RepliesMatch <=> /\ Fine => Answered(replied \o wbuf, reqs, Len(ran))
                   /\ role = "master" => replied = << >>
BY DEF RepliesMatch, Answered, Fine

\* A further request does not disturb the replies.
LEMMA AnsweredMore ==
  ASSUME NEW out, NEW rq \in Seq(Requests), NEW n \in Nat, n <= Len(rq), NEW r \in Requests,
         Answered(out, rq, n)
  PROVE  Answered(out, Append(rq, r), n)
<1>1. \A i \in 1..n : Append(rq, r)[i] = rq[i]  OBVIOUS
<1> QED  BY <1>1 DEF Answered

\* A request that runs adds its reply, if it has one.
LEMMA AnsweredRun ==
  ASSUME NEW out \in Seq(Nat), NEW rq, NEW n \in Nat, Answered(out, rq, n)
  PROVE  /\ rq[n + 1].kind = "answered" => Answered(Append(out, n + 1), rq, n + 1)
         /\ rq[n + 1].kind # "answered" => Answered(out, rq, n + 1)
<1>1. 1..(n + 1) = (1..n) \cup {n + 1}  OBVIOUS
<1>2. rq[n + 1].kind # "answered" => Answered(out, rq, n + 1)  BY <1>1 DEF Answered
<1>3. ASSUME rq[n + 1].kind = "answered" PROVE Answered(Append(out, n + 1), rq, n + 1)
  <2> DEFINE new == Append(out, n + 1)
  <2>1. /\ new \in Seq(Nat) /\ Len(new) = Len(out) + 1 /\ Len(out) \in Nat /\ new[Len(out) + 1] = n + 1
        /\ \A k \in 1..Len(out) : new[k] = out[k]
        /\ DOMAIN new = 1..(Len(out) + 1) /\ DOMAIN out = 1..Len(out)
    OBVIOUS
  <2> HIDE DEF new
  <2>2. \A k \in 1..Len(out) : out[k] \in 1..n
    <3>1. \A k \in 1..Len(out) : out[k] \in Range(out)  BY <2>1 DEF Range
    <3> QED  BY <3>1 DEF Answered
  <2>3. Range(new) = Range(out) \cup {n + 1}
    <3>1. 1..(Len(out) + 1) = (1..Len(out)) \cup {Len(out) + 1}  BY <2>1
    <3> QED  BY <2>1, <3>1 DEF Range
  <2>4. \A j, k \in 1..Len(new) : j < k => new[j] < new[k]
    <3> SUFFICES ASSUME NEW j \in 1..Len(new), NEW k \in 1..Len(new), j < k PROVE new[j] < new[k]
      OBVIOUS
    <3>1. j \in 1..Len(out)  BY <2>1
    <3>2. CASE k \in 1..Len(out)  BY <2>1, <3>1, <3>2 DEF Answered
    <3>3. CASE k = Len(out) + 1
      <4>1. new[k] = n + 1 /\ new[j] = out[j] /\ out[j] \in 1..n  BY <2>1, <2>2, <3>1, <3>3
      <4> QED  BY <4>1
    <3>4. k \in 1..Len(out) \/ k = Len(out) + 1  BY <2>1
    <3> QED  BY <3>2, <3>3, <3>4
  <2>5. Range(new) = {i \in 1..(n + 1) : rq[i].kind = "answered"}
    BY <1>1, <1>3, <2>3 DEF Answered
  <2> QED  BY <2>4, <2>5 DEF Answered, new
<1> QED  BY <1>2, <1>3

-----------------------------------------------------------------------------
(* The actions *)

\* Concatenation of bytes is associative.
LEMMA BytesAssoc ==
  ASSUME NEW a \in Seq(ByteSet), NEW b \in Seq(ByteSet), NEW c \in Seq(ByteSet)
  PROVE  (a \o b) \o c = a \o (b \o c)
BY ConcatAssociative

\* Length and elements of a concatenation.
LEMMA BytesConcat ==
  ASSUME NEW a \in Seq(ByteSet), NEW b \in Seq(ByteSet)
  PROVE  /\ a \o b \in Seq(ByteSet) /\ Len(a \o b) = Len(a) + Len(b)
         /\ \A k \in 1..(Len(a) + Len(b)) : (a \o b)[k] = IF k <= Len(a) THEN a[k] ELSE b[k - Len(a)]
BY ConcatProperties

\* Appending to the second part appends to the whole.
LEMMA AppendLast ==
  ASSUME NEW s \in Seq(Nat), NEW t \in Seq(Nat), NEW x \in Nat
  PROVE  s \o Append(t, x) = Append(s \o t, x)
<1>1. <<x>> \in Seq(Nat) /\ s \o t \in Seq(Nat)  BY ConcatProperties
<1>2. Append(t, x) = t \o <<x>> /\ Append(s \o t, x) = (s \o t) \o <<x>>  BY <1>1, AppendIsConcat
<1>3. (s \o t) \o <<x>> = s \o (t \o <<x>>)  BY <1>1, ConcatAssociative
<1> QED  BY <1>2, <1>3

\* The stream is the read buffer and then what is on its way.
LEMMA StreamFacts ==
  ASSUME ClientTypeOK
  PROVE  /\ Stream \in Seq(ByteSet) /\ Len(Stream) = Len(rbuf) + Len(inbound)
         /\ Len(rbuf) \in Nat /\ Len(inbound) \in Nat /\ parsed \in Nat /\ parsed <= Len(rbuf)
         /\ \A k \in 1..Len(rbuf) : Stream[k] = rbuf[k]
         /\ \A k \in 1..Len(inbound) : Stream[Len(rbuf) + k] = inbound[k]
<1>1. rbuf \in Seq(ByteSet) /\ inbound \in Seq(ByteSet) /\ parsed \in 0..Len(rbuf)  BY DEF ClientTypeOK
<1>2. /\ Stream \in Seq(ByteSet) /\ Len(Stream) = Len(rbuf) + Len(inbound)
      /\ \A k \in 1..(Len(rbuf) + Len(inbound)) :
           Stream[k] = IF k <= Len(rbuf) THEN rbuf[k] ELSE inbound[k - Len(rbuf)]
  BY <1>1, ConcatProperties DEF Stream
<1>3. Len(rbuf) \in Nat /\ Len(inbound) \in Nat  BY <1>1
<1>4. ASSUME NEW k \in 1..Len(inbound) PROVE Stream[Len(rbuf) + k] = inbound[k]
  <2>1. /\ Len(rbuf) + k \in 1..(Len(rbuf) + Len(inbound)) /\ ~(Len(rbuf) + k <= Len(rbuf))
        /\ (Len(rbuf) + k) - Len(rbuf) = k
    BY <1>3
  <2> QED  BY <1>2, <2>1
<1>5. ASSUME NEW k \in 1..Len(rbuf) PROVE Stream[k] = rbuf[k]
  <2>1. k \in 1..(Len(rbuf) + Len(inbound)) /\ k <= Len(rbuf)  BY <1>3
  <2> QED  BY <1>2, <2>1
<1> QED  BY <1>1, <1>2, <1>3, <1>4, <1>5

\* As long as the bytes, the index and the requests are the same, so are
\* alignment and origin of the bytes.
LEMMA SameStream ==
  ASSUME Stream' = Stream, parsed' = parsed, reqs' = reqs, ran' = ran, cpc # "closed",
         RunsInOrder, Sent
  PROVE  RunsInOrder' /\ Sent'
<1>1. Follow(Stream, parsed, reqs, Len(ran))  BY AlignedFollow DEF RunsInOrder
<1>2. Follow(Stream, parsed, reqs, Len(ran))'  BY <1>1
<1>3. Aligned(Len(ran))'  BY <1>2, AlignedFollow DEF Aligned, Follow, NextByte, NextIn
<1>4. RunsInOrder'  BY <1>3 DEF RunsInOrder
<1> QED  BY <1>4 DEF Sent

\* The client sends a request.
LEMMA RequestStep ==
  ASSUME ClientInv, NEW r \in Requests, Request(r)
  PROVE  ClientInv'
<1> DEFINE m == Len(reqs)
           more == BytesOf(m + 1, r.len)
<1>1. /\ ClientTypeOK /\ Buffers /\ Sent /\ Silent /\ RunsInOrder /\ RepliesMatch /\ ClosedByPeer
      /\ reqs' = Append(reqs, r) /\ inbound' = inbound \o more /\ ~ended
      /\ role' = role /\ ended' = ended /\ cpc' = cpc /\ rbuf' = rbuf /\ rcap' = rcap
      /\ parsed' = parsed /\ wbuf' = wbuf /\ replied' = replied /\ ran' = ran /\ faulty' = faulty
  BY DEF ClientInv, Request
<1>2. m \in Nat /\ r.len \in Nat /\ r.len > 0 /\ Len(ran) \in Nat /\ reqs \in Seq(Requests)
  BY <1>1, ClientAssumption DEF ClientTypeOK
<1>3. /\ more \in Seq(ByteSet) /\ Len(more) = r.len
      /\ \A k \in 1..r.len : more[k] = [req |-> m + 1, at |-> k]
  <2>1. more = [k \in 1..r.len |-> [req |-> m + 1, at |-> k]]  BY DEF BytesOf
  <2>2. \A k \in 1..r.len : [req |-> m + 1, at |-> k] \in ByteSet  BY <1>2 DEF ByteSet
  <2>3. more \in [1..r.len -> ByteSet]  BY ONLY <2>1, <2>2
  <2>4. more \in Seq(ByteSet) /\ Len(more) = r.len  BY ONLY <1>2, <2>3
  <2> QED  BY ONLY <2>1, <2>4
<1> HIDE DEF more
<1>4. reqs' \in Seq(Requests) /\ Len(reqs') = m + 1  BY <1>1, <1>2
<1>5. ClientTypeOK'
  <2>1. inbound' \in Seq(ByteSet)  BY <1>1, <1>3, ConcatProperties DEF ClientTypeOK
  <2> QED  BY <1>1, <1>4, <2>1 DEF ClientTypeOK
<1>6. Stream' = Stream \o more
  <2>1. Stream' = rbuf \o (inbound \o more)  BY <1>1 DEF Stream
  <2>2. rbuf \in Seq(ByteSet) /\ inbound \in Seq(ByteSet)  BY <1>1 DEF ClientTypeOK
  <2>3. (rbuf \o inbound) \o more = rbuf \o (inbound \o more)  BY <1>3, <2>2, BytesAssoc
  <2> QED  BY <2>1, <2>3 DEF Stream
<1>7. Stream \in Seq(ByteSet) /\ Len(Stream) \in Nat /\ parsed \in Nat /\ parsed <= Len(Stream)
  BY <1>1, StreamFacts
<1>8. /\ Stream' \in Seq(ByteSet) /\ Len(Stream') = Len(Stream) + r.len
      /\ \A k \in 1..(Len(Stream) + r.len) :
           Stream'[k] = IF k <= Len(Stream) THEN Stream[k] ELSE more[k - Len(Stream)]
  <2>1. /\ Stream \o more \in Seq(ByteSet) /\ Len(Stream \o more) = Len(Stream) + Len(more)
        /\ \A k \in 1..(Len(Stream) + Len(more)) :
             (Stream \o more)[k] = IF k <= Len(Stream) THEN Stream[k] ELSE more[k - Len(Stream)]
    <3>1. Stream \in Seq(ByteSet) /\ more \in Seq(ByteSet)  BY <1>3, <1>7
    <3> QED  BY ONLY <3>1, BytesConcat
  <2>2. Len(more) = r.len  BY <1>3
  <2> QED  BY ONLY <1>6, <2>1, <2>2
<1>9. /\ \A k \in 1..Len(Stream) : Stream'[k] = Stream[k]
      /\ \A k \in 1..r.len : Stream'[Len(Stream) + k] = [req |-> m + 1, at |-> k]
  <2>1. ASSUME NEW k \in 1..r.len PROVE Stream'[Len(Stream) + k] = [req |-> m + 1, at |-> k]
    <3>1. /\ Len(Stream) + k \in 1..(Len(Stream) + r.len) /\ ~(Len(Stream) + k <= Len(Stream))
          /\ (Len(Stream) + k) - Len(Stream) = k
      BY <1>2, <1>7
    <3> QED  BY <1>3, <1>8, <3>1
  <2>2. ASSUME NEW k \in 1..Len(Stream) PROVE Stream'[k] = Stream[k]
    <3>1. k \in 1..(Len(Stream) + r.len) /\ k <= Len(Stream)  BY <1>2, <1>7
    <3> QED  BY <1>8, <3>1
  <2> QED  BY <2>1, <2>2
<1>10. Sent'
  <2>1. ASSUME NEW k \in 1..Len(Stream') PROVE Stream'[k].req \in 1..(m + 1)
    <3>1. CASE k \in 1..Len(Stream)
      <4>1. Stream[k].req \in 1..m  BY <1>1, <3>1 DEF Sent
      <4> QED  BY <1>2, <1>9, <3>1, <4>1
    <3>2. CASE k \notin 1..Len(Stream)
      <4>1. PICK j \in 1..r.len : k = Len(Stream) + j
        <5>1. k - Len(Stream) \in 1..r.len /\ k = Len(Stream) + (k - Len(Stream))
          BY <1>2, <1>7, <1>8, <3>2
        <5> QED  BY <5>1
      <4> HIDE DEF m
      <4>2. Stream'[k] = [req |-> m + 1, at |-> j]  BY <1>9, <4>1
      <4>3. Stream'[k].req = m + 1  BY <4>2
      <4> QED  BY <1>2, <4>3
    <3> QED  BY <3>1, <3>2
  <2>2. Len(ran) <= m + 1  BY <1>1, <1>2 DEF Sent
  <2> QED  BY <1>1, <1>4, <2>1, <2>2 DEF Sent
<1>11. RunsInOrder'
  <2>1. ASSUME cpc # "closed" PROVE Aligned(Len(ran))'
    <3>1. Follow(Stream, parsed, reqs, Len(ran))  BY <1>1, <2>1, AlignedFollow DEF RunsInOrder
    <3>2. \A k \in 1..Len(Stream) : Stream[k].req \in 1..Len(reqs)  BY <1>1 DEF Sent
    <3>3. Len(ran) <= Len(reqs)  BY <1>1 DEF Sent
    <3>4. Follow(Stream', parsed, Append(reqs, r), Len(ran))
      BY <1>2, <1>7, <1>8, <1>9, <3>1, <3>2, <3>3, FollowMore
    <3> QED  BY <1>1, <3>4 DEF Aligned, Follow, NextByte, NextIn
  <2> QED  BY <1>1, <2>1 DEF RunsInOrder
<1>12. RepliesMatch'
  <2>1. Len(ran) <= Len(reqs)  BY <1>1 DEF Sent
  <2>2. Fine => Answered(replied \o wbuf, reqs', Len(ran))
    BY <1>1, <1>2, <2>1, RepliesAnswered, AnsweredMore
  <2>3. role = "master" => replied = << >>  BY <1>1, RepliesAnswered
  <2> QED  BY <1>1, <2>2, <2>3 DEF RepliesMatch, Answered, Fine
<1>13. Buffers' /\ Silent' /\ ClosedByPeer'  BY <1>1 DEF Buffers, Silent, ClosedByPeer
<1> QED  BY <1>5, <1>10, <1>11, <1>12, <1>13 DEF ClientInv

\* The client ends the connection.
LEMMA ClientEndsStep ==
  ASSUME ClientInv, ClientEnds
  PROVE  ClientInv'
<1>1. /\ ended' = TRUE
      /\ role' = role /\ reqs' = reqs /\ inbound' = inbound /\ cpc' = cpc /\ rbuf' = rbuf /\ rcap' = rcap
      /\ parsed' = parsed /\ wbuf' = wbuf /\ replied' = replied /\ ran' = ran /\ faulty' = faulty
  BY DEF ClientEnds
<1>2. ClientTypeOK' /\ Buffers' /\ Silent' /\ ClosedByPeer'
  BY <1>1 DEF ClientInv, ClientTypeOK, Buffers, Silent, ClosedByPeer
<1>3. Stream' = Stream  BY <1>1 DEF Stream
<1>4. Sent' /\ RunsInOrder'  BY <1>1, <1>3 DEF ClientInv, Sent, RunsInOrder, Aligned, NextByte
<1>5. RepliesMatch'  BY <1>1 DEF ClientInv, RepliesMatch
<1> QED  BY <1>2, <1>4, <1>5 DEF ClientInv

\* The buffer is never so full that recv is asked for nothing.
LEMMA RoomLeft ==
  ASSUME ClientTypeOK, Buffers, ~Stalled
  PROVE  Capacity \in Nat \ {0} /\ Capacity > Len(rbuf)
<1>1. Len(rbuf) \in Nat /\ rcap \in Nat /\ rcap > 0 /\ Len(rbuf) <= rcap /\ Len(rbuf) < MaxBuf
      /\ LowRoom \in Nat /\ LowRoom > 0 /\ MaxBuf \in Nat
  BY ClientAssumption DEF ClientTypeOK, Buffers, Stalled
<1> QED  BY <1>1 DEF Capacity, MustGrow

\* Bytes move from the connection to the buffer.
LEMMA CutJoin ==
  ASSUME NEW a \in Seq(ByteSet), NEW b \in Seq(ByteSet), NEW n \in 1..Len(b)
  PROVE  /\ SubSeq(b, 1, n) \in Seq(ByteSet) /\ Len(SubSeq(b, 1, n)) = n
         /\ SubSeq(b, n + 1, Len(b)) \in Seq(ByteSet)
         /\ (a \o SubSeq(b, 1, n)) \o SubSeq(b, n + 1, Len(b)) = a \o b
<1> DEFINE x == SubSeq(b, 1, n)
           y == SubSeq(b, n + 1, Len(b))
<1>1. n \in Nat /\ Len(b) \in Nat /\ n + 1 \in Int /\ n <= Len(b) /\ n >= 1  OBVIOUS
<1>2. x \in Seq(ByteSet) /\ Len(x) = n /\ \A i \in 1..n : x[i] = b[i]
  BY <1>1
<1>3. /\ y \in Seq(ByteSet) /\ Len(y) = Len(b) - n
      /\ \A i \in 1..(Len(b) - n) : y[i] = b[n + i]
  BY <1>1
<1> HIDE DEF x, y
<1>4. x \o y = b
  <2>1. /\ x \o y \in Seq(ByteSet) /\ Len(x \o y) = Len(b)
        /\ \A i \in 1..Len(b) : (x \o y)[i] = IF i <= n THEN x[i] ELSE y[i - n]
    <3>1. /\ x \o y \in Seq(ByteSet) /\ Len(x \o y) = Len(x) + Len(y)
          /\ \A i \in 1..(Len(x) + Len(y)) : (x \o y)[i] = IF i <= Len(x) THEN x[i] ELSE y[i - Len(x)]
      BY <1>2, <1>3, ConcatProperties
    <3>2. Len(x) = n /\ Len(x) + Len(y) = Len(b)  BY <1>1, <1>2, <1>3
    <3> QED  BY <3>1, <3>2
  <2>2. ASSUME NEW i \in 1..Len(b) PROVE (x \o y)[i] = b[i]
    <3>1. CASE i <= n
      <4>1. i \in 1..n  BY <1>1, <3>1
      <4> QED  BY <1>2, <2>1, <3>1, <4>1
    <3>2. CASE ~(i <= n)
      <4>1. i - n \in 1..(Len(b) - n) /\ n + (i - n) = i  BY <1>1, <3>2
      <4>2. y[i - n] = b[i]  BY <1>3, <4>1
      <4> QED  BY <2>1, <3>2, <4>2
    <3> QED  BY <3>1, <3>2
  <2> QED  BY <2>1, <2>2, SeqEqual
<1>5. (a \o x) \o y = a \o b
  <2>1. (a \o x) \o y = a \o (x \o y)  BY <1>2, <1>3, BytesAssoc
  <2> QED  BY <1>4, <2>1
<1> QED  BY <1>2, <1>3, <1>5 DEF x, y

\* ntyco_client_co receives some bytes.
LEMMA ReceiveStep ==
  ASSUME ClientInv, Receive
  PROVE  ClientInv'
<1>1. /\ ClientTypeOK /\ Buffers /\ Sent /\ Silent /\ RunsInOrder /\ RepliesMatch /\ ClosedByPeer
      /\ cpc = "recv" /\ ~Stalled /\ rcap' = Capacity /\ cpc' = "parse" /\ parsed' = 0
      /\ role' = role /\ reqs' = reqs /\ ended' = ended /\ wbuf' = wbuf
      /\ replied' = replied /\ ran' = ran /\ faulty' = faulty
  BY DEF ClientInv, Receive
<1>2. PICK n \in 1..Len(inbound) :
        /\ n <= Capacity - Len(rbuf) /\ rbuf' = rbuf \o SubSeq(inbound, 1, n)
        /\ inbound' = SubSeq(inbound, n + 1, Len(inbound))
  BY DEF Receive
<1>3. rbuf \in Seq(ByteSet) /\ inbound \in Seq(ByteSet) /\ parsed = 0 /\ Len(rbuf) \in Nat
  BY <1>1 DEF ClientTypeOK, Buffers
<1>4. /\ SubSeq(inbound, 1, n) \in Seq(ByteSet) /\ Len(SubSeq(inbound, 1, n)) = n
      /\ inbound' \in Seq(ByteSet) /\ Stream' = Stream
  BY <1>2, <1>3, CutJoin DEF Stream
<1>5. rbuf' \in Seq(ByteSet) /\ Len(rbuf') = Len(rbuf) + n  BY <1>2, <1>3, <1>4, ConcatProperties
<1>6. Capacity \in Nat \ {0}  BY <1>1, RoomLeft
<1>7. ClientTypeOK'
  <2>1. parsed' \in 0..Len(rbuf')  BY <1>1, <1>3, <1>5
  <2> QED  BY <1>1, <1>4, <1>5, <1>6, <2>1 DEF ClientTypeOK
<1>8. Buffers' /\ Silent' /\ ClosedByPeer'
  BY <1>1, <1>2, <1>3, <1>5, <1>6 DEF Buffers, Silent, ClosedByPeer
<1>9. RunsInOrder' /\ Sent'  BY <1>1, <1>3, <1>4, SameStream
<1>10. RepliesMatch'  BY <1>1 DEF RepliesMatch
<1> QED  BY <1>7, <1>8, <1>9, <1>10 DEF ClientInv

\* The connection is closed while the coroutine would receive.
LEMMA CloseStep ==
  ASSUME ClientInv, cpc = "recv", Closed, ClosedByPeer', UNCHANGED <<role, reqs, inbound, rcap, replied, ran>>,
         faulty' = {} => faulty = {}
  PROVE  ClientInv'
<1>1. /\ ClientTypeOK /\ Buffers /\ Sent /\ Silent /\ RunsInOrder /\ RepliesMatch
      /\ cpc' = "closed" /\ rbuf' = << >> /\ wbuf' = << >> /\ parsed' = 0 /\ wbuf = << >>
      /\ role' = role /\ reqs' = reqs /\ inbound' = inbound /\ rcap' = rcap
      /\ replied' = replied /\ ran' = ran
  BY DEF ClientInv, Closed, Buffers
<1>2. rcap \in Nat \ {0} /\ inbound \in Seq(ByteSet)  BY <1>1 DEF ClientTypeOK
<1>3. ClientTypeOK' /\ Buffers' /\ Silent'
  BY <1>1, <1>2 DEF ClientTypeOK, Buffers, Silent
<1>4. Stream' = inbound  BY <1>1, <1>2, ConcatEmptySeq DEF Stream
<1>5. Sent'
  <2>1. ASSUME NEW k \in 1..Len(inbound) PROVE inbound[k].req \in 1..Len(reqs)
    <3>1. Len(rbuf) + k \in 1..Len(Stream) /\ Stream[Len(rbuf) + k] = inbound[k]
      BY <1>1, StreamFacts
    <3> QED  BY <1>1, <3>1 DEF Sent
  <2> QED  BY <1>1, <1>4, <2>1 DEF Sent
<1>6. RunsInOrder'  BY <1>1 DEF RunsInOrder
<1>7. RepliesMatch'  BY <1>1 DEF RepliesMatch
<1> QED  BY <1>3, <1>5, <1>6, <1>7 DEF ClientInv

\* It learns that the client has gone.
LEMMA ReceiveEndStep ==
  ASSUME ClientInv, ReceiveEnd
  PROVE  ClientInv'
<1>1. /\ cpc = "recv" /\ ~Stalled /\ EndOfStream /\ Closed
      /\ UNCHANGED <<role, reqs, inbound, ended, rcap, replied, ran, faulty>>
  BY DEF ReceiveEnd
<1>2. Len(rbuf) \in Nat /\ Capacity \in Nat /\ Capacity > Len(rbuf)
  BY <1>1, RoomLeft DEF ClientInv, ClientTypeOK
<1>3. inbound = << >> /\ ended  BY <1>1, <1>2 DEF EndOfStream
<1>4. ClosedByPeer'  BY <1>1, <1>3 DEF ClosedByPeer
<1> QED  BY <1>1, <1>4, CloseStep

\* An allocation, a send or the connection fails.
LEMMA ReceiveFailsStep ==
  ASSUME ClientInv, NEW f \in Faults, ReceiveFails(f)
  PROVE  ClientInv'
<1>1. /\ cpc = "recv" /\ Closed /\ faulty' = faulty \cup {f}
      /\ UNCHANGED <<role, reqs, inbound, ended, rcap, replied, ran>>
  BY DEF ReceiveFails
<1>2. faulty' # {}  BY <1>1
<1>3. ClosedByPeer'  BY <1>2 DEF ClosedByPeer
<1> QED  BY <1>1, <1>2, <1>3, CloseStep

\* protocol_process_stream cuts out a request and runs it.
LEMMA RunOneStep ==
  ASSUME ClientInv, RunOne
  PROVE  ClientInv'
<1> DEFINE n == Len(ran)
           len == reqs[n + 1].len
<1>1. /\ ClientTypeOK /\ Buffers /\ Sent /\ Silent /\ RunsInOrder /\ RepliesMatch /\ ClosedByPeer
      /\ cpc = "parse" /\ HasComplete
      /\ role' = role /\ reqs' = reqs /\ inbound' = inbound /\ ended' = ended /\ cpc' = cpc
      /\ rbuf' = rbuf /\ rcap' = rcap /\ replied' = replied
  BY DEF ClientInv, RunOne
<1>2. /\ Stream \in Seq(ByteSet) /\ Len(Stream) = Len(rbuf) + Len(inbound)
      /\ Len(rbuf) \in Nat /\ Len(inbound) \in Nat /\ parsed \in Nat /\ parsed < Len(rbuf)
      /\ parsed < Len(Stream) /\ n \in Nat /\ reqs \in Seq(Requests) /\ n <= Len(reqs)
      /\ Stream[parsed + 1] = rbuf[parsed + 1]
  <2>1. /\ Stream \in Seq(ByteSet) /\ Len(Stream) = Len(rbuf) + Len(inbound)
        /\ Len(rbuf) \in Nat /\ Len(inbound) \in Nat /\ parsed \in Nat
        /\ \A k \in 1..Len(rbuf) : Stream[k] = rbuf[k]
    BY <1>1, StreamFacts
  <2>2. parsed < Len(rbuf) /\ parsed < Len(Stream) /\ parsed + 1 \in 1..Len(rbuf)
    BY <1>1, <2>1 DEF HasComplete
  <2>3. n \in Nat /\ reqs \in Seq(Requests) /\ n <= Len(reqs)  BY <1>1 DEF ClientTypeOK, Sent
  <2> QED  BY <2>1, <2>2, <2>3
<1>3. Follow(Stream, parsed, reqs, n)  BY <1>1, AlignedFollow DEF RunsInOrder
<1>4. rbuf[parsed + 1].req = n + 1
  <2>1. Stream[parsed + 1] = [req |-> n + 1, at |-> 1]  BY <1>2, <1>3 DEF Follow
  <2> QED  BY <1>2, <2>1
<1>5. n + 1 \in 1..Len(reqs)
  <2>1. parsed + 1 \in 1..Len(Stream)  BY <1>2
  <2>2. Stream[parsed + 1].req \in 1..Len(reqs)  BY <1>1, <2>1 DEF Sent
  <2> QED  BY <1>2, <1>4, <2>2
<1>6. reqs[n + 1] \in Requests /\ len \in Nat \ {0}
  <2>1. reqs[n + 1] \in Requests  BY <1>2, <1>5
  <2> QED  BY <2>1, ClientAssumption
<1>7. reqs[n + 1].kind # "bad" /\ Len(rbuf) - parsed >= len  BY <1>1, <1>4 DEF HasComplete
<1>8. /\ ran' = Append(ran, n + 1) /\ parsed' = parsed + len
      /\ \/ wbuf' = (IF role = "client" THEN Pack(n + 1) ELSE wbuf) /\ faulty' = faulty
         \/ role = "client" /\ faulty' = faulty \cup {"oom"} /\ wbuf' = wbuf
  BY <1>4 DEF RunOne
<1>9. ran \in Seq(Nat) /\ wbuf \in Seq(Nat) /\ replied \in Seq(Nat)  BY <1>1 DEF ClientTypeOK
<1>10. /\ ran' \in Seq(Nat) /\ Len(ran') = n + 1 /\ ran'[n + 1] = n + 1
       /\ \A i \in 1..n : ran'[i] = ran[i]
  BY <1>2, <1>8, <1>9
<1>11. wbuf' \in Seq(Nat) /\ (wbuf' = wbuf \/ wbuf' = Append(wbuf, n + 1))
  <2>1. wbuf' = wbuf \/ wbuf' = Append(wbuf, n + 1)  BY <1>8 DEF Pack
  <2>2. n + 1 \in Nat  BY <1>2
  <2>3. Append(wbuf, n + 1) \in Seq(Nat)  BY <1>9, <2>2
  <2> QED  BY <1>9, <2>1, <2>3
<1> HIDE DEF n, len
<1>12. ClientTypeOK'
  <2>1. parsed' \in 0..Len(rbuf')  BY <1>1, <1>2, <1>6, <1>7, <1>8
  <2> QED  BY <1>1, <1>10, <1>11, <2>1 DEF ClientTypeOK
<1>13. Stream' = Stream  BY <1>1 DEF Stream
<1>14. Sent'
  <2>1. n + 1 <= Len(reqs)  BY <1>5
  <2> QED  BY <1>1, <1>10, <1>13, <2>1 DEF Sent
<1>15. Buffers' /\ ClosedByPeer'  BY <1>1 DEF Buffers, ClosedByPeer
<1>16. Silent'  BY <1>1, <1>8 DEF Silent
<1>17. RunsInOrder'
  <2>1. \A i \in 1..(n + 1) : ran'[i] = i
    <3>1. \A i \in 1..n : ran[i] = i  BY <1>1 DEF RunsInOrder, n
    <3>2. n \in Nat  BY <1>2
    <3> QED  BY ONLY <1>10, <3>1, <3>2
  <2>2. \A k \in 1..Len(Stream) : Stream[k].req \in 1..Len(reqs)  BY <1>1 DEF Sent
  <2>3. Len(reqs) \in Nat /\ parsed + len <= Len(Stream)  BY <1>2, <1>6, <1>7
  <2>4. Follow(Stream, parsed + len, reqs, n + 1)
    BY <1>2, <1>3, <1>6, <2>2, <2>3, FollowRun DEF len
  <2>5. Follow(Stream', parsed', reqs', Len(ran'))  BY <1>1, <1>8, <1>10, <1>13, <2>4
  <2>6. Aligned(Len(ran))'  BY <2>5 DEF Aligned, Follow, NextByte, NextIn
  <2> QED  BY <1>10, <2>1, <2>6 DEF RunsInOrder
<1>18. RepliesMatch'
  <2>1. role = "master" => replied = << >>  BY <1>1 DEF RepliesMatch
  <2>2. ASSUME role = "client", faulty' = {} PROVE Answered(replied \o wbuf', reqs, n + 1)
    <3>1. Answered(replied \o wbuf, reqs, n)
      <4>1. faulty = {}  BY <1>8, <2>2
      <4> QED  BY <1>1, <2>2, <4>1, RepliesAnswered DEF Fine, n
    <3>2. replied \o wbuf \in Seq(Nat)  BY <1>9, ConcatProperties
    <3>3. wbuf' = Pack(n + 1)  BY <1>8, <2>2
    <3>4. CASE reqs[n + 1].kind = "failed"
      <4>1. wbuf' = wbuf /\ reqs[n + 1].kind # "answered"  BY <3>3, <3>4 DEF Pack
      <4> QED  BY <1>2, <3>1, <3>2, <4>1, AnsweredRun
    <3>5. CASE reqs[n + 1].kind # "failed"
      <4>1. wbuf' = Append(wbuf, n + 1)  BY <3>3, <3>5 DEF Pack
      <4>2. reqs[n + 1].kind = "answered"  BY <1>6, <1>7, <3>5, ClientAssumption
      <4>3. replied \o Append(wbuf, n + 1) = Append(replied \o wbuf, n + 1)
        <5>1. n + 1 \in Nat  BY <1>2
        <5> QED  BY <1>9, <5>1, AppendLast
      <4> QED  BY <1>2, <3>1, <3>2, <4>1, <4>2, <4>3, AnsweredRun
    <3> QED  BY <3>4, <3>5
  <2> QED  BY <1>1, <1>10, <2>1, <2>2 DEF RepliesMatch, Answered
<1> QED  BY <1>12, <1>14, <1>15, <1>16, <1>17, <1>18 DEF ClientInv

\* The replies of a round are sent, and what was parsed is dropped.
LEMMA ReplyStep ==
  ASSUME ClientInv, Reply
  PROVE  ClientInv'
<1>1. /\ ClientTypeOK /\ Buffers /\ Sent /\ Silent /\ RunsInOrder /\ RepliesMatch /\ ClosedByPeer
      /\ cpc = "parse" /\ cpc' = "recv" /\ rbuf' = Remaining /\ parsed' = 0 /\ wbuf' = << >>
      /\ role' = role /\ reqs' = reqs /\ inbound' = inbound /\ ended' = ended
      /\ rcap' = rcap /\ ran' = ran
  BY DEF ClientInv, Reply
<1>2. \/ replied' = replied \o wbuf /\ faulty' = faulty
      \/ /\ wbuf # << >> /\ faulty' = faulty \cup {"short"}
         /\ \E n \in 0..(Len(wbuf) - 1) : replied' = replied \o SubSeq(wbuf, 1, n)
  BY DEF Reply
<1>3. /\ Stream \in Seq(ByteSet) /\ Len(Stream) = Len(rbuf) + Len(inbound)
      /\ Len(rbuf) \in Nat /\ Len(inbound) \in Nat /\ parsed \in Nat /\ parsed <= Len(rbuf)
      /\ \A k \in 1..Len(rbuf) : Stream[k] = rbuf[k]
      /\ \A k \in 1..Len(inbound) : Stream[Len(rbuf) + k] = inbound[k]
  BY <1>1, StreamFacts
<1>4. rbuf \in Seq(ByteSet) /\ inbound \in Seq(ByteSet) /\ wbuf \in Seq(Nat) /\ replied \in Seq(Nat)
  BY <1>1 DEF ClientTypeOK
<1>5. /\ rbuf' \in Seq(ByteSet) /\ Len(rbuf') = Len(rbuf) - parsed
      /\ \A k \in 1..(Len(rbuf) - parsed) : rbuf'[k] = rbuf[parsed + k]
  <2>1. rbuf' = SubSeq(rbuf, parsed + 1, Len(rbuf))  BY <1>1 DEF Remaining
  <2> QED  BY <1>3, <1>4, <2>1
<1>6. replied' \in Seq(Nat)
  <2>1. \A n \in 0..(Len(wbuf) - 1) : SubSeq(wbuf, 1, n) \in Seq(Nat)  BY <1>4
  <2> QED  BY <1>2, <1>4, <2>1, ConcatProperties
<1>7. ClientTypeOK'
  <2>1. parsed' \in 0..Len(rbuf')  BY <1>1, <1>3, <1>5
  <2> QED  BY <1>1, <1>4, <1>5, <1>6, <2>1 DEF ClientTypeOK
<1>8. Buffers' /\ Silent' /\ ClosedByPeer'
  <2>1. Len(rbuf') <= rcap  BY <1>1, <1>3, <1>5 DEF Buffers, ClientTypeOK
  <2> QED  BY <1>1, <2>1 DEF Buffers, Silent, ClosedByPeer
<1>9. /\ Stream' \in Seq(ByteSet) /\ Len(Stream') = Len(Stream) - parsed
      /\ \A k \in 1..Len(Stream') : Stream'[k] = Stream[parsed + k]
  <2>1. /\ Stream' = rbuf' \o inbound /\ Stream' \in Seq(ByteSet)
        /\ Len(Stream') = Len(rbuf') + Len(inbound)
        /\ \A k \in 1..(Len(rbuf') + Len(inbound)) :
             Stream'[k] = IF k <= Len(rbuf') THEN rbuf'[k] ELSE inbound[k - Len(rbuf')]
    <3>1. Stream' = rbuf' \o inbound  BY <1>1 DEF Stream
    <3> QED  BY <1>4, <1>5, <3>1, ConcatProperties
  <2>2. ASSUME NEW k \in 1..Len(Stream') PROVE Stream'[k] = Stream[parsed + k]
    <3>1. CASE k <= Len(rbuf')
      <4>1. k \in 1..(Len(rbuf) - parsed) /\ parsed + k \in 1..Len(rbuf)  BY <1>3, <1>5, <3>1
      <4>2. Stream'[k] = rbuf'[k]  BY <2>1, <3>1
      <4> QED  BY <1>3, <1>5, <4>1, <4>2
    <3>2. CASE ~(k <= Len(rbuf'))
      <4>1. k - Len(rbuf') \in 1..Len(inbound) /\ Len(rbuf) + (k - Len(rbuf')) = parsed + k
        BY <1>3, <1>5, <2>1, <3>2
      <4>2. Stream'[k] = inbound[k - Len(rbuf')]  BY <2>1, <3>2
      <4>3. Stream[Len(rbuf) + (k - Len(rbuf'))] = inbound[k - Len(rbuf')]  BY <1>3, <4>1
      <4> QED  BY <4>1, <4>2, <4>3
    <3> QED  BY <3>1, <3>2
  <2> QED  BY <1>3, <1>5, <2>1, <2>2
<1>10. Sent'
  <2>1. ASSUME NEW k \in 1..Len(Stream') PROVE Stream'[k].req \in 1..Len(reqs)
    <3>1. parsed + k \in 1..Len(Stream)  BY <1>3, <1>9
    <3> QED  BY <1>1, <1>9, <3>1 DEF Sent
  <2> QED  BY <1>1, <2>1 DEF Sent
<1>11. RunsInOrder'
  <2>1. Follow(Stream, parsed, reqs, Len(ran))  BY <1>1, AlignedFollow DEF RunsInOrder
  <2>2. parsed <= Len(Stream)  BY <1>3
  <2>3. Follow(Stream', 0, reqs, Len(ran))  BY <1>3, <1>9, <2>1, <2>2, FollowCut
  <2>4. Aligned(Len(ran))'  BY <1>1, <2>3 DEF Aligned, Follow, NextByte, NextIn
  <2> QED  BY <1>1, <2>4 DEF RunsInOrder
<1>12. RepliesMatch'
  <2>1. CASE replied' = replied \o wbuf /\ faulty' = faulty
    <3>1. replied' \o wbuf' = replied \o wbuf  BY <1>1, <1>6, <2>1, ConcatEmptySeq
    <3>2. role = "master" => replied' = << >>
      <4>1. role = "master" => replied = << >> /\ wbuf = << >>  BY <1>1 DEF RepliesMatch, Silent
      <4>2. << >> \o << >> = << >>  BY ConcatEmptySeq
      <4> QED  BY <2>1, <4>1, <4>2
    <3> QED  BY <1>1, <2>1, <3>1, <3>2 DEF RepliesMatch
  <2>2. CASE wbuf # << >> /\ faulty' = faulty \cup {"short"}
    <3>1. role # "master"  BY <1>1, <2>2 DEF Silent
    <3>2. faulty' # {}  BY <2>2
    <3> QED  BY <1>1, <3>1, <3>2 DEF RepliesMatch
  <2> QED  BY <1>2, <2>1, <2>2
<1> QED  BY <1>7, <1>8, <1>10, <1>11, <1>12 DEF ClientInv

\* A new connection has received nothing.
LEMMA ClientInvInit == ClientInit => ClientInv
<1> SUFFICES ASSUME ClientInit PROVE ClientInv  OBVIOUS
<1>1. /\ role \in Roles /\ reqs = << >> /\ inbound = << >> /\ rbuf = << >> /\ cpc = "recv"
      /\ rcap = InitBuf /\ parsed = 0 /\ wbuf = << >> /\ replied = << >> /\ ran = << >> /\ faulty = {}
  BY DEF ClientInit
<1>2. ClientTypeOK  BY <1>1, ClientAssumption DEF ClientTypeOK
<1>3. Buffers /\ Silent /\ ClosedByPeer  BY <1>1, ClientAssumption DEF Buffers, Silent, ClosedByPeer
<1>4. Stream = << >>  BY <1>1, ConcatEmptySeq DEF Stream
<1>5. Len(Stream) = 0 /\ Len(reqs) = 0 /\ Len(ran) = 0  BY <1>1, <1>4
<1>6. Sent  BY <1>5 DEF Sent
<1>7. RunsInOrder  BY <1>1, <1>5 DEF RunsInOrder, Aligned
<1>8. RepliesMatch
  <2>1. replied \o wbuf = << >>  BY <1>1, ConcatEmptySeq
  <2>2. Range(<< >>) = {}  BY DEF Range
  <2> QED  BY <1>1, <1>5, <2>1, <2>2 DEF RepliesMatch
<1> QED  BY <1>2, <1>3, <1>6, <1>7, <1>8 DEF ClientInv

\* Every step keeps the invariant.
LEMMA ClientInvStep == ClientInv /\ [ClientNext]_clientVars => ClientInv'
<1> SUFFICES ASSUME ClientInv, [ClientNext]_clientVars PROVE ClientInv'  OBVIOUS
<1>1. CASE ClientNext
  BY <1>1, RequestStep, ClientEndsStep, ReceiveStep, ReceiveEndStep, ReceiveFailsStep, RunOneStep,
     ReplyStep DEF ClientNext, Peer, Server
<1>2. CASE UNCHANGED clientVars
  BY <1>2 DEF clientVars, ClientInv, ClientTypeOK, Buffers, Sent, Silent, RunsInOrder, RepliesMatch,
              ClosedByPeer, Stream, Aligned, NextByte
<1> QED  BY <1>1, <1>2

\* The state of a connection keeps its shape: the read buffer never holds more
\* than its capacity, and between two rounds of ntyco_client_co no reply is
\* left in the write buffer.
THEOREM ConnectionInvariant == ClientSpec => []ClientInv
BY ClientInvInit, ClientInvStep, PTL DEF ClientSpec

\* Requests run in the order sent, each once, and protocol_process_stream is
\* always at the first byte of the next one.
THEOREM OrderKept == ClientSpec => []RunsInOrder
<1>1. ClientInv => RunsInOrder  BY DEF ClientInv
<1> QED  BY ConnectionInvariant, <1>1, PTL

\* The client gets exactly the replies to the requests that ran and have one,
\* in order.
THEOREM RepliesInOrder == ClientSpec => []RepliesMatch
<1>1. ClientInv => RepliesMatch  BY DEF ClientInv
<1> QED  BY ConnectionInvariant, <1>1, PTL

\* recv never returns 0 because of a full buffer: the server closes a
\* connection only after its peer or a fault.
THEOREM ServerClosesLast == ClientSpec => []ClosedByPeer
<1>1. ClientInv => ClosedByPeer  BY DEF ClientInv
<1> QED  BY ConnectionInvariant, <1>1, PTL

-----------------------------------------------------------------------------
(* The relay *)

SeqNo(c, p) == (Isn[c] + p) % Mod
Run(c, p, n) == [i \in 1..n |-> <<c, p + i - 1>>]
Seg(c, p, n) == [seq |-> SeqNo(c, p), data |-> Run(c, p, n)]
Span(c, p, n) == [c |-> c, from |-> p, to |-> p + n - 1]

\* Bytes p .. p + n - 1 are part of c's stream.
Within(c, p, n) == p \in 0..StreamLen[c] /\ n \in 1..StreamLen[c] /\ p + n <= StreamLen[c]

\* Any byte, and a cell that has none.
Cells == (Conns \X Nat) \cup {NoByte}
IsRing(r) ==
  /\ r.size \in Nat \ {0}
  /\ r = [buf |-> r.buf, size |-> r.size, head |-> r.head, tail |-> r.tail, bytes |-> r.bytes]
  /\ r.head \in 0..(r.size - 1) /\ r.tail \in 0..(r.size - 1) /\ r.bytes \in 0..r.size
  /\ r.tail = (r.head + r.bytes) % r.size
  /\ DOMAIN r.buf = 0..(r.size - 1) /\ \A i \in 0..(r.size - 1) : r.buf[i] \in Cells

IsSegment(e) ==
  \E c \in Conns : \E p, n \in 0..StreamLen[c] : Within(c, p, n) /\ e = Seg(c, p, n)

Segments == {e \in [seq : Nat, data : Seq(Cells)] : IsSegment(e)}

RelayTypeOK ==
  /\ kernel \in Seq(Segments)
  /\ rpc \in {"poll", "merge", "flush", "done"}
  /\ started \in BOOLEAN /\ sound \in BOOLEAN /\ expected \in Nat
  /\ DOMAIN pool = 1..PoolSize /\ \A i \in 1..PoolSize : Used(i) => IsSegment(pool[i])
  /\ IsRing(rb) /\ sent \in Seq(Cells)

\* Before the first event.
Fresh ==
  /\ handled = {} /\ sent = << >> /\ rb.bytes = 0 /\ rpc # "merge"
  /\ \A i \in 1..PoolSize : ~Used(i)

\* The stream goes on at position front of connection c.
At(c, f, front) ==
  /\ f < front /\ front <= StreamLen[c]
  /\ Forwarded = Run(c, f, front - f)
  /\ expected = SeqNo(c, front)

\* What was handled is of one connection.
OneConn(c) ==
  /\ handled # {}
  /\ \A h \in handled : \E p, n \in 0..StreamLen[c] : Within(c, p, n) /\ h = Span(c, p, n)
  /\ \A i \in 1..PoolSize : Used(i) =>
       \E p, n \in 0..StreamLen[c] :
         Within(c, p, n) /\ pool[i] = Seg(c, p, n) /\ Span(c, p, n) \in handled

\* Every range handled is forwarded, or waits in the pool.
Waits(c, h) == \E i \in 1..PoolSize : pool[i] = Seg(c, h.from, h.to - h.from + 1)
Kept(c, front) ==
  Uncut =>
    \A h \in handled :
      \/ h.to < front
      \/ h.from >= front /\ (rpc # "merge" => h.from > front) /\ Waits(c, h)

Flowing ==
  \E c \in Conns : \E f, front \in 0..StreamLen[c] : At(c, f, front) /\ OneConn(c) /\ Kept(c, front)

RelayInv == RelayTypeOK /\ (sound => IF started THEN Flowing ELSE Fresh)

-----------------------------------------------------------------------------
(* Remainders *)

\* Quotient and remainder, also of a negative number.
LEMMA IntDivMod ==
  ASSUME NEW h \in Int, NEW n \in Nat, n > 0
  PROVE  /\ h \div n \in Int /\ h % n \in Nat /\ h % n < n
         /\ h = n * (h \div n) + (h % n)
OBVIOUS

\* Different multiples of n are at least n apart.
LEMMA Apart ==
  ASSUME NEW n \in Nat, n > 0, NEW p \in Int, NEW q \in Int, p < q
  PROVE  n * p + n <= n * q
<1>1. PICK d \in Nat : q = p + 1 + d
  <2> WITNESS q - p - 1 \in Nat
  <2> QED  OBVIOUS
<1>2. n * q = n * p + n + n * d  BY <1>1
<1>3. n * d \in Nat /\ n * p \in Int  OBVIOUS
<1> QED  BY <1>2, <1>3

\* There is only one remainder.
LEMMA Remainder ==
  ASSUME NEW n \in Nat, n > 0, NEW h \in Int, NEW q \in Int, NEW r \in Nat, r < n, h = n * q + r
  PROVE  h % n = r
<1> DEFINE p == h \div n
           s == h % n
<1>1. p \in Int /\ s \in Nat /\ s < n /\ h = n * p + s  BY IntDivMod
<1> HIDE DEF p, s
<1>2. n * p \in Int /\ n * q \in Int  BY <1>1
<1>3. CASE p < q
  <2>1. n * p + n <= n * q  BY <1>1, <1>3, Apart
  <2> QED  BY <1>1, <1>2, <2>1
<1>4. CASE q < p
  <2>1. n * q + n <= n * p  BY <1>1, <1>4, Apart
  <2> QED  BY <1>1, <1>2, <2>1
<1>5. CASE p = q  BY <1>1, <1>2, <1>5 DEF s
<1>6. s = r  BY <1>1, <1>3, <1>4, <1>5
<1> QED  BY <1>6 DEF s

\* The remainder of a number between -n and n.
LEMMA ModSmall ==
  ASSUME NEW n \in Nat, n > 0, NEW h \in Int, -n <= h, h < n
  PROVE  h % n = IF h >= 0 THEN h ELSE h + n
<1>1. CASE h >= 0
  <2>1. h = n * 0 + h /\ h \in Nat  BY <1>1
  <2>2. h % n = h  BY <2>1, Remainder
  <2> QED  BY <1>1, <2>2
<1>2. CASE h < 0
  <2>1. h = n * (-1) + (h + n) /\ h + n \in Nat /\ h + n < n  BY <1>2
  <2>2. h % n = h + n  BY <2>1, Remainder
  <2> QED  BY <1>2, <2>2
<1> QED  BY <1>1, <1>2

\* A remainder may be taken at any time in a sum or difference.
LEMMA ModShift ==
  ASSUME NEW n \in Nat, n > 0, NEW h \in Int, NEW k \in Int
  PROVE  ((h % n) + k) % n = (h + k) % n
<1> DEFINE q == h \div n
           r == h % n
           q2 == (r + k) \div n
           r2 == (r + k) % n
<1>1. q \in Int /\ r \in Nat /\ h = n * q + r  BY IntDivMod
<1> HIDE DEF q, r
<1>2. r + k \in Int  BY <1>1
<1>3. q2 \in Int /\ r2 \in Nat /\ r2 < n /\ r + k = n * q2 + r2  BY <1>2, IntDivMod
<1> HIDE DEF q2, r2
<1>4. n * (q + q2) = n * q + n * q2 /\ n * q \in Int /\ n * q2 \in Int  BY <1>1, <1>3
<1>5. h + k = n * (q + q2) + r2 /\ h + k \in Int /\ q + q2 \in Int  BY <1>1, <1>3, <1>4
<1>6. (h + k) % n = r2  BY <1>3, <1>5, Remainder
<1> QED  BY <1>6 DEF r2, r

\* Differences may be taken before or after the remainder.
LEMMA ModDiff ==
  ASSUME NEW n \in Nat, n > 0, NEW h \in Int, NEW k \in Int
  PROVE  ((h % n) - (k % n)) % n = (h - k) % n
<1> DEFINE q == k \div n
           r == k % n
           q2 == (h - k) \div n
           r2 == (h - k) % n
<1>1. q \in Int /\ r \in Nat /\ k = n * q + r  BY IntDivMod
<1>2. q2 \in Int /\ r2 \in Nat /\ r2 < n /\ h - k = n * q2 + r2
  <2>1. h - k \in Int  OBVIOUS
  <2> QED  BY <2>1, IntDivMod
<1> HIDE DEF q, r, q2, r2
<1>3. n * (q + q2) = n * q + n * q2 /\ n * q \in Int /\ n * q2 \in Int  BY <1>1, <1>2
<1>4. h - r = n * (q + q2) + r2 /\ h - r \in Int /\ q + q2 \in Int  BY <1>1, <1>2, <1>3
<1>5. (h - r) % n = r2  BY <1>2, <1>4, Remainder
<1>6. ((h % n) + (-r)) % n = (h + (-r)) % n
  <2>1. -r \in Int  BY <1>1
  <2> QED  BY <2>1, ModShift
<1>7. (h % n) + (-r) = (h % n) - r /\ h + (-r) = h - r
  <2>1. h % n \in Int  BY IntDivMod
  <2> QED  BY <1>1, <2>1
<1>8. ((h % n) - r) % n = r2  BY <1>5, <1>6, <1>7
<1> QED  BY <1>8 DEF r, r2

-----------------------------------------------------------------------------
(* Sequence numbers *)

\* What is assumed of a connection.
LEMMA ConnFacts ==
  ASSUME NEW c \in Conns
  PROVE  /\ StreamLen[c] \in Nat /\ 2 * StreamLen[c] < Mod /\ Isn[c] \in Nat
         /\ Mod \in Nat /\ Mod > 0
BY RelayAssumption

\* A sequence number is below Mod.
LEMMA SeqType ==
  ASSUME NEW c \in Conns, NEW p \in Nat
  PROVE  SeqNo(c, p) \in Nat /\ SeqNo(c, p) < Mod
<1>1. Isn[c] + p \in Int /\ Mod \in Nat /\ Mod > 0  BY ConnFacts
<1> QED  BY <1>1, IntDivMod DEF SeqNo

\* Adding to a sequence number moves the position.
LEMMA SeqAdd ==
  ASSUME NEW c \in Conns, NEW p \in Nat, NEW k \in Nat
  PROVE  (SeqNo(c, p) + k) % Mod = SeqNo(c, p + k)
<1>1. Isn[c] + p \in Int /\ Mod \in Nat /\ Mod > 0 /\ k \in Int  BY ConnFacts
<1>2. (SeqNo(c, p) + k) % Mod = ((Isn[c] + p) + k) % Mod  BY <1>1, ModShift DEF SeqNo
<1>3. (Isn[c] + p) + k = Isn[c] + (p + k)  BY ConnFacts
<1> QED  BY <1>2, <1>3 DEF SeqNo

\* The signed difference of two sequence numbers of a connection is that of
\* the positions, since the stream is shorter than half of Mod.
LEMMA SeqDiff ==
  ASSUME NEW c \in Conns, NEW a \in 0..StreamLen[c], NEW b \in 0..StreamLen[c]
  PROVE  (SeqNo(c, a) - SeqNo(c, b)) % Mod = IF a >= b THEN a - b ELSE (a - b) + Mod
<1>1. /\ Isn[c] + a \in Int /\ Isn[c] + b \in Int /\ Mod \in Nat /\ Mod > 0
      /\ a \in Int /\ b \in Int /\ -Mod <= a - b /\ a - b < Mod
  BY ConnFacts
<1>2. (SeqNo(c, a) - SeqNo(c, b)) % Mod = ((Isn[c] + a) - (Isn[c] + b)) % Mod
  BY <1>1, ModDiff DEF SeqNo
<1>3. (Isn[c] + a) - (Isn[c] + b) = a - b /\ a - b \in Int  BY ConnFacts
<1>4. (a - b) % Mod = IF a - b >= 0 THEN a - b ELSE (a - b) + Mod  BY <1>1, <1>3, ModSmall
<1> QED  BY <1>1, <1>2, <1>3, <1>4

\* SEQ_GT orders the positions of a stream, wherever the numbers wrap.
LEMMA SeqGt ==
  ASSUME NEW c \in Conns, NEW a \in 0..StreamLen[c], NEW b \in 0..StreamLen[c]
  PROVE  Gt(SeqNo(c, a), SeqNo(c, b)) <=> a > b
<1> DEFINE half == (Mod - 1) \div 2
<1>1. /\ StreamLen[c] \in Nat /\ 2 * StreamLen[c] < Mod /\ Mod \in Nat /\ Mod > 0
      /\ a \in Nat /\ b \in Nat
  BY ConnFacts
<1>2. half \in Int /\ StreamLen[c] <= half /\ 2 * half <= Mod - 1
  BY <1>1
<1> HIDE DEF half
<1>3. Gt(SeqNo(c, a), SeqNo(c, b)) <=> (SeqNo(c, a) - SeqNo(c, b)) % Mod \in 1..half
  BY DEF Gt, half
<1>4. (IF a >= b THEN a - b ELSE (a - b) + Mod) \in 1..half <=> a > b
  BY <1>1, <1>2
<1> QED  BY <1>3, <1>4, SeqDiff

\* Equal sequence numbers are the same position.
LEMMA SeqSame ==
  ASSUME NEW c \in Conns, NEW a \in 0..StreamLen[c], NEW b \in 0..StreamLen[c],
         SeqNo(c, a) = SeqNo(c, b)
  PROVE  a = b
<1>1. SeqNo(c, a) - SeqNo(c, b) = SeqNo(c, a) - SeqNo(c, a)  OBVIOUS
<1>2. (IF a >= b THEN a - b ELSE (a - b) + Mod) = (IF a >= a THEN a - a ELSE (a - a) + Mod)
  BY <1>1, SeqDiff
<1>3. /\ StreamLen[c] \in Nat /\ 2 * StreamLen[c] < Mod /\ Mod \in Nat /\ a \in Nat /\ b \in Nat
  BY ConnFacts
<1> QED  BY <1>2, <1>3

-----------------------------------------------------------------------------
(* The ring of bytes *)

Enough(f, need) == f = [s \in Nat |-> IF s >= need THEN s ELSE f[2 * s]]
NewSize(need) == LET enough[s \in Nat] == IF s >= need THEN s ELSE enough[2 * s] IN enough

\* A set of naturals that has 0 and with each number the next has them all.
LEMMA AllNat ==
  ASSUME NEW S, 0 \in S, \A m \in Nat : m \in S => m + 1 \in S
  PROVE  \A m \in Nat : m \in S
<1> DEFINE T == {m \in Nat : m \notin S}
<1>1. SUFFICES ASSUME T # {} PROVE FALSE  OBVIOUS
<1>2. PICK x \in T : \A y \in T : x =< y
  <2>1. T \subseteq Nat  OBVIOUS
  <2> HIDE DEF T
  <2> QED  BY <1>1, <2>1, Least
<1>3. x \in Nat /\ x # 0  BY <1>2
<1>4. x - 1 \in Nat /\ x - 1 \notin T  BY <1>2, <1>3
<1>5. x - 1 \in S /\ (x - 1) + 1 = x  BY <1>3, <1>4
<1> QED  BY <1>2, <1>4, <1>5

\* The loop that doubles the size ends.
LEMMA SizesExist ==
  ASSUME NEW need \in Nat
  PROVE  \E f : Enough(f, need)
<1> DEFINE Upto(f, m) == \A s \in Nat : s + m >= need => f[s] = IF s >= need THEN s ELSE f[2 * s]
           S == {m \in Nat : \E f \in [Nat -> Nat] : Upto(f, m)}
<1>1. 0 \in S
  <2> DEFINE f == [s \in Nat |-> s]
  <2>1. f \in [Nat -> Nat] /\ Upto(f, 0)  OBVIOUS
  <2> QED  BY <2>1
<1>2. ASSUME NEW m \in Nat, m \in S PROVE m + 1 \in S
  <2>1. PICK f \in [Nat -> Nat] : Upto(f, m)  BY <1>2
  <2>2. CASE need >= m + 1 /\ need - (m + 1) > 0
    <3> DEFINE x == need - (m + 1)
               g == [f EXCEPT ![x] = f[2 * x]]
    <3>1. x \in Nat /\ x > 0 /\ x < need /\ 2 * x \in Nat /\ 2 * x # x /\ 2 * x >= x + 1  BY <2>2
    <3>2. g \in [Nat -> Nat]  BY <3>1
    <3>3. ASSUME NEW s \in Nat, s + (m + 1) >= need PROVE g[s] = IF s >= need THEN s ELSE g[2 * s]
      <4>1. CASE s = x  BY <3>1, <4>1
      <4>2. CASE s # x
        <5>1. s + m >= need /\ 2 * s \in Nat /\ 2 * s # x  BY <3>1, <3>3, <4>2
        <5>2. f[s] = IF s >= need THEN s ELSE f[2 * s]  BY <2>1, <5>1
        <5>3. g[s] = f[s] /\ g[2 * s] = f[2 * s]  BY <4>2, <5>1
        <5> QED  BY <5>2, <5>3
      <4> QED  BY <4>1, <4>2
    <3> HIDE DEF g
    <3>4. Upto(g, m + 1)  BY <3>3
    <3> QED  BY <3>2, <3>4
  <2>3. CASE ~(need >= m + 1 /\ need - (m + 1) > 0)
    <3>1. ASSUME NEW s \in Nat, s + (m + 1) >= need PROVE f[s] = IF s >= need THEN s ELSE f[2 * s]
      <4>1. CASE s = 0
        <5>1. 2 * s = s  BY <4>1
        <5> QED  BY <2>1, <4>1, <5>1
      <4>2. CASE s > 0  BY <2>1, <2>3, <3>1, <4>2
      <4> QED  BY <4>1, <4>2
    <3>2. Upto(f, m + 1)  BY <3>1
    <3> QED  BY <3>2
  <2> QED  BY <2>2, <2>3
<1>3. need \in S
  <2> HIDE DEF S
  <2> QED  BY <1>1, <1>2, AllNat
<1>4. PICK f \in [Nat -> Nat] : Upto(f, need)  BY <1>3
<1>5. \A s \in Nat : f[s] = IF s >= need THEN s ELSE f[2 * s]
  <2>1. \A s \in Nat : s + need >= need  OBVIOUS
  <2> QED  BY <1>4, <2>1
<1>6. f = [s \in Nat |-> IF s >= need THEN s ELSE f[2 * s]]  BY <1>5
<1> QED  BY <1>6 DEF Enough

\* The loop that doubles the ring, as an equation.
LEMMA SizeEquation ==
  ASSUME NEW need \in Nat, NEW s \in Nat
  PROVE  NewSize(need)[s] = IF s >= need THEN s ELSE NewSize(need)[2 * s]
<1>1. NewSize(need) = CHOOSE f : Enough(f, need)  BY DEF NewSize, Enough
<1>2. Enough(NewSize(need), need)  BY <1>1, SizesExist
<1> HIDE DEF NewSize
<1> QED  BY <1>2 DEF Enough

\* rb_write gets a buffer that is large enough.
LEMMA SizeEnough ==
  ASSUME NEW need \in Nat, NEW sz \in Nat, sz > 0
  PROVE  Doubled(sz, need) \in Nat /\ Doubled(sz, need) >= need /\ Doubled(sz, need) >= sz
<1> DEFINE f == NewSize(need)
           S == {m \in Nat : \A s \in Nat : s > 0 /\ s + m >= need => f[s] \in Nat /\ f[s] >= need /\ f[s] >= s}
<1>1. \A s \in Nat : f[s] = IF s >= need THEN s ELSE f[2 * s]  BY SizeEquation
<1> HIDE DEF f
<1>2. 0 \in S  BY <1>1
<1>3. ASSUME NEW m \in Nat, m \in S PROVE m + 1 \in S
  <2>1. ASSUME NEW s \in Nat, s > 0, s + (m + 1) >= need
        PROVE  f[s] \in Nat /\ f[s] >= need /\ f[s] >= s
    <3>1. CASE s >= need  BY <1>1, <3>1
    <3>2. CASE ~(s >= need)
      <4>1. f[s] = f[2 * s]  BY <1>1, <3>2
      <4>2. 2 * s \in Nat /\ 2 * s > 0 /\ (2 * s) + m >= need /\ 2 * s >= s  BY <2>1
      <4>3. f[2 * s] \in Nat /\ f[2 * s] >= need /\ f[2 * s] >= 2 * s  BY <1>3, <4>2
      <4> QED  BY <4>1, <4>2, <4>3
    <3> QED  BY <3>1, <3>2
  <2> QED  BY <2>1
<1>4. need \in S
  <2> HIDE DEF S
  <2> QED  BY <1>2, <1>3, AllNat
<1>5. 2 * sz \in Nat /\ 2 * sz > 0 /\ (2 * sz) + need >= need  OBVIOUS
<1>6. f[2 * sz] \in Nat /\ f[2 * sz] >= need /\ f[2 * sz] >= 2 * sz  BY <1>4, <1>5
<1>7. Doubled(sz, need) = f[2 * sz]  BY DEF Doubled, NewSize, f
<1> QED  BY <1>5, <1>6, <1>7

\* A function on 1..n is a sequence of length n.
LEMMA FunctionIsSeq ==
  ASSUME NEW S, NEW n \in Nat, NEW u \in [1..n -> S]
  PROVE  u \in Seq(S) /\ Len(u) = n
OBVIOUS

\* Sequences with the same elements are equal.
LEMMA SeqSameCells ==
  ASSUME NEW S, NEW u \in Seq(S), NEW v \in Seq(S), Len(u) = Len(v), \A i \in 1..Len(v) : u[i] = v[i]
  PROVE  u = v
OBVIOUS

\* A concatenation, recognised by its elements.
LEMMA CatIs ==
  ASSUME NEW S, NEW u \in Seq(S), NEW v \in Seq(S), NEW w \in Seq(S), Len(u) = Len(v) + Len(w),
         \A i \in 1..(Len(v) + Len(w)) : u[i] = IF i <= Len(v) THEN v[i] ELSE w[i - Len(v)]
  PROVE  u = v \o w
<1> DEFINE z == v \o w
<1>1. z \in Seq(S) /\ Len(z) = Len(v) + Len(w)  OBVIOUS
<1>2. \A i \in 1..Len(z) : z[i] = IF i <= Len(v) THEN v[i] ELSE w[i - Len(v)]  BY <1>1
<1> HIDE DEF z
<1>3. \A i \in 1..Len(z) : u[i] = z[i]  BY <1>1, <1>2
<1>4. u = z  BY <1>1, <1>3, SeqSameCells
<1> QED  BY <1>4 DEF z

\* The content of the ring, byte by byte.
LEMMA ContentsType ==
  ASSUME NEW r, IsRing(r)
  PROVE  /\ Contents(r) \in Seq(Cells) /\ Len(Contents(r)) = r.bytes
         /\ \A i \in 1..r.bytes : Contents(r)[i] = r.buf[(r.head + i - 1) % r.size]
<1>1. r.size \in Nat /\ r.size > 0 /\ r.head \in Nat /\ r.bytes \in Nat  BY DEF IsRing
<1>2. ASSUME NEW i \in 1..r.bytes PROVE r.buf[(r.head + i - 1) % r.size] \in Cells
  <2>1. r.head + i - 1 \in Int  BY <1>1
  <2>2. (r.head + i - 1) % r.size \in 0..(r.size - 1)  BY <1>1, <2>1, IntDivMod
  <2>3. \A j \in 0..(r.size - 1) : r.buf[j] \in Cells  BY DEF IsRing
  <2> QED  BY ONLY <2>2, <2>3
<1> DEFINE u == Contents(r)
<1>3. \A i \in 1..r.bytes : u[i] = r.buf[(r.head + i - 1) % r.size]  BY DEF Contents
<1>t. u = [i \in 1..r.bytes |-> u[i]]  BY DEF Contents
<1> HIDE DEF u
<1>4. \A i \in 1..r.bytes : u[i] \in Cells  BY <1>2, <1>3
<1>5. u \in Seq(Cells) /\ Len(u) = r.bytes  
  <2>1. u \in [1..r.bytes -> Cells]  BY <1>t, <1>4
  <2> QED  BY <1>1, <2>1, FunctionIsSeq
<1> QED  BY <1>3, <1>5 DEF u

\* Where rb_write finds the place of a cell: k places past the tail.
LEMMA Place ==
  ASSUME NEW n \in Nat, n > 0, NEW h \in Nat, NEW b \in 0..n, NEW j \in 0..(n - 1)
  PROVE  (((h + j) % n) - ((h + b) % n)) % n = IF j >= b THEN j - b ELSE (j - b) + n
<1>1. h + j \in Int /\ h + b \in Int /\ j - b \in Int /\ -n <= j - b /\ j - b < n
      /\ (h + j) - (h + b) = j - b
  OBVIOUS
<1>2. (((h + j) % n) - ((h + b) % n)) % n = ((h + j) - (h + b)) % n
  BY ONLY <1>1, n \in Nat, n > 0, ModDiff
<1>3. (j - b) % n = IF j - b >= 0 THEN j - b ELSE (j - b) + n  BY ONLY <1>1, n \in Nat, n > 0, ModSmall
<1>4. j - b >= 0 <=> j >= b  OBVIOUS
<1> QED  BY ONLY <1>1, <1>2, <1>3, <1>4

\* rb_write, part by part.
LEMMA PutParts ==
  ASSUME NEW r, IsRing(r), NEW data
  PROVE  /\ Put(r, data) = [buf |-> Put(r, data).buf, size |-> r.size, head |-> r.head,
                            tail |-> (r.tail + Len(data)) % r.size, bytes |-> r.bytes + Len(data)]
         /\ Put(r, data).buf = [i \in 0..(r.size - 1) |->
                IF (i - r.tail) % r.size < Len(data) THEN data[((i - r.tail) % r.size) + 1]
                ELSE r.buf[i]]
<1> DEFINE hd == r.head
           tl == r.tail
           bf == r.buf
           by == r.bytes
           sz == r.size
<1>1. r = [buf |-> bf, size |-> sz, head |-> hd, tail |-> tl, bytes |-> by]  BY DEF IsRing
<1> HIDE DEF hd, tl, bf, by, sz
<1> DEFINE nb == [i \in 0..(sz - 1) |-> LET k == (i - tl) % sz IN IF k < Len(data) THEN data[k + 1] ELSE bf[i]]
<1>2. r.buf = bf /\ r.size = sz /\ r.head = hd /\ r.tail = tl /\ r.bytes = by  BY <1>1
<1>3. Put(r, data) = [r EXCEPT !.buf = nb, !.tail = (tl + Len(data)) % sz, !.bytes = by + Len(data)]
  BY <1>2 DEF Put
<1> HIDE DEF nb
<1>4. Put(r, data) = [buf |-> nb, size |-> sz, head |-> hd, tail |-> (tl + Len(data)) % sz, bytes |-> by + Len(data)]
  BY ONLY <1>1, <1>3
<1>5. Put(r, data).buf = nb  BY ONLY <1>4
<1>6. nb = [i \in 0..(sz - 1) |-> IF (i - tl) % sz < Len(data) THEN data[((i - tl) % sz) + 1] ELSE bf[i]]
  BY DEF nb
<1> QED  BY <1>2, <1>4, <1>5, <1>6

\* rb_write appends to the content.
LEMMA RingPut ==
  ASSUME NEW r, IsRing(r), NEW data \in Seq(Cells), r.bytes + Len(data) <= r.size
  PROVE  /\ IsRing(Put(r, data))
         /\ Contents(Put(r, data)) = Contents(r) \o data
         /\ data # << >> => Put(r, data) # r
<1> DEFINE q == Put(r, data)
<1>1. /\ r.size \in Nat /\ r.size > 0 /\ r.head \in Nat /\ r.bytes \in Nat /\ Len(data) \in Nat
      /\ r.head \in 0..(r.size - 1) /\ r.tail \in Nat
  BY DEF IsRing
<1>t. r.tail = (r.head + r.bytes) % r.size  BY DEF IsRing
<1> DEFINE newtail == (r.tail + Len(data)) % r.size
           sum == r.bytes + Len(data)
<1>0. q = [buf |-> q.buf, size |-> r.size, head |-> r.head, tail |-> newtail, bytes |-> sum]
  BY PutParts
<1> HIDE DEF newtail, sum, q
<1>2. /\ q.size = r.size /\ q.head = r.head /\ q.tail = (r.tail + Len(data)) % r.size
      /\ q.bytes = r.bytes + Len(data)
      /\ q = [buf |-> q.buf, size |-> q.size, head |-> q.head, tail |-> q.tail, bytes |-> q.bytes]
  <2>1. /\ q.size = r.size /\ q.head = r.head /\ q.tail = newtail /\ q.bytes = sum
        /\ q = [buf |-> q.buf, size |-> q.size, head |-> q.head, tail |-> q.tail, bytes |-> q.bytes]
    BY ONLY <1>0
  <2> QED  BY <2>1 DEF newtail, sum
<1>3. /\ DOMAIN q.buf = 0..(r.size - 1)
      /\ \A i \in 0..(r.size - 1) :
           q.buf[i] = IF (i - r.tail) % r.size < Len(data) THEN data[((i - r.tail) % r.size) + 1]
                      ELSE r.buf[i]
  <2>1. q.buf = [i \in 0..(r.size - 1) |->
                  IF (i - r.tail) % r.size < Len(data) THEN data[((i - r.tail) % r.size) + 1]
                  ELSE r.buf[i]]
    BY PutParts DEF q
  <2> QED  BY ONLY <2>1
<1>4. IsRing(q)
  <2>1. q.tail = (q.head + q.bytes) % q.size /\ q.tail \in 0..(q.size - 1)
    <3>1. r.head + r.bytes \in Int /\ Len(data) \in Int /\ r.head + (r.bytes + Len(data)) \in Int
          /\ (r.head + r.bytes) + Len(data) = r.head + (r.bytes + Len(data))
      BY ONLY <1>1
    <3>2. (((r.head + r.bytes) % r.size) + Len(data)) % r.size
             = (r.head + (r.bytes + Len(data))) % r.size
      <4> DEFINE h == r.head + r.bytes
                 k == Len(data)
      <4>1. h \in Int /\ k \in Int /\ h + k = r.head + (r.bytes + Len(data)) /\ r.size \in Nat /\ r.size > 0
        BY ONLY <1>1, <3>1
      <4> HIDE DEF h, k
      <4>2. ((h % r.size) + k) % r.size = (h + k) % r.size  BY ONLY <4>1, ModShift
      <4> QED  BY <4>1, <4>2 DEF h, k
    <3>3. (r.head + (r.bytes + Len(data))) % r.size \in Nat
          /\ (r.head + (r.bytes + Len(data))) % r.size < r.size
      BY <1>1, <3>1, IntDivMod
    <3>4. q.tail = (r.head + (r.bytes + Len(data))) % r.size  BY <1>t, <1>2, <3>2
    <3>5. q.tail \in 0..(r.size - 1)  BY <1>1, <3>3, <3>4
    <3> QED  BY <1>2, <3>4, <3>5
  <2>2. ASSUME NEW i \in 0..(r.size - 1) PROVE q.buf[i] \in Cells
    <3>1. CASE (i - r.tail) % r.size < Len(data)
      <4>1. i - r.tail \in Int  BY <1>1
      <4>2. (i - r.tail) % r.size \in Nat  BY <1>1, <4>1, IntDivMod
      <4> DEFINE k == (i - r.tail) % r.size
      <4>k. k \in Nat /\ k < Len(data)  BY <3>1, <4>2
      <4> HIDE DEF k
      <4>l. k + 1 \in 1..Len(data)  BY ONLY <1>1, <4>k
      <4>3. ((i - r.tail) % r.size) + 1 \in 1..Len(data)  BY <4>l DEF k
      <4> QED  BY <1>3, <3>1, <4>3
    <3>2. CASE ~((i - r.tail) % r.size < Len(data))  BY <1>3, <3>2 DEF IsRing
    <3> QED  BY <3>1, <3>2
  <2>3. q.bytes \in 0..q.size /\ q.head \in 0..(q.size - 1) /\ q.size \in Nat \ {0}  BY <1>1, <1>2
  <2> QED  BY <1>2, <1>3, <2>1, <2>2, <2>3 DEF IsRing
<1>5. ASSUME NEW i \in 1..(r.bytes + Len(data))
      PROVE  Contents(q)[i] = IF i <= r.bytes THEN Contents(r)[i] ELSE data[i - r.bytes]
  <2> DEFINE a == (r.head + i - 1) % r.size
  <2>1. i \in 1..q.bytes /\ i - 1 \in 0..(r.size - 1) /\ r.bytes \in 0..r.size
        /\ r.head + i - 1 = r.head + (i - 1) /\ r.head + i - 1 \in Int
    <3>1. i \in 1..(r.bytes + Len(data)) /\ r.bytes + Len(data) <= r.size  OBVIOUS
    <3>2. q.bytes = r.bytes + Len(data)  BY <1>2
    <3> QED  BY ONLY <1>1, <3>1, <3>2
  <2>2. a \in 0..(r.size - 1)  BY <1>1, <2>1, IntDivMod
  <2>3. Contents(q)[i] = q.buf[a]  BY <1>2, <1>4, <2>1, ContentsType
  <2>4. (a - r.tail) % r.size = IF i - 1 >= r.bytes THEN (i - 1) - r.bytes ELSE ((i - 1) - r.bytes) + r.size
    <3>1. (((r.head + (i - 1)) % r.size) - ((r.head + r.bytes) % r.size)) % r.size
             = IF i - 1 >= r.bytes THEN (i - 1) - r.bytes ELSE ((i - 1) - r.bytes) + r.size
      BY ONLY <1>1, <2>1, Place
    <3> QED  BY <1>t, <2>1, <3>1
  <2> HIDE DEF a
  <2>5. CASE i <= r.bytes
    <3>1. (a - r.tail) % r.size = ((i - 1) - r.bytes) + r.size  BY <1>1, <2>4, <2>5
    <3>2. ~((a - r.tail) % r.size < Len(data))  BY <1>1, <3>1
    <3>3. q.buf[a] = r.buf[a]  BY <1>3, <2>2, <3>2
    <3>4. Contents(r)[i] = r.buf[a]  BY <1>1, <2>5, ContentsType DEF a
    <3> QED  BY <2>3, <2>5, <3>3, <3>4
  <2>6. CASE ~(i <= r.bytes)
    <3>1. (a - r.tail) % r.size = (i - 1) - r.bytes  BY <1>1, <2>4, <2>6
    <3>2. (a - r.tail) % r.size < Len(data) /\ ((a - r.tail) % r.size) + 1 = i - r.bytes  BY <1>1, <3>1
    <3>3. q.buf[a] = data[i - r.bytes]  BY <1>3, <2>2, <3>2
    <3> QED  BY <2>3, <2>6, <3>3
  <2> QED  BY <2>5, <2>6
<1>6. Contents(q) = Contents(r) \o data
  <2> DEFINE u == Contents(q)
             v == Contents(r)
  <2>1. u \in Seq(Cells) /\ Len(u) = r.bytes + Len(data) /\ v \in Seq(Cells) /\ Len(v) = r.bytes
    BY <1>2, <1>4, ContentsType
  <2>2. \A i \in 1..(r.bytes + Len(data)) : u[i] = IF i <= r.bytes THEN v[i] ELSE data[i - r.bytes]
    BY <1>5
  <2> HIDE DEF u, v
  <2>3. u = v \o data
    <3>1. data \in Seq(Cells) /\ r.bytes \in Nat /\ Len(data) \in Nat  BY <1>1
    <3>2. \A i \in 1..(Len(v) + Len(data)) : u[i] = IF i <= Len(v) THEN v[i] ELSE data[i - Len(v)]
      BY ONLY <2>1, <2>2
    <3>3. Len(u) = Len(v) + Len(data)  BY ONLY <2>1
    <3> QED  BY ONLY <2>1, <3>1, <3>2, <3>3, CatIs
  <2> QED  BY <2>3 DEF u, v
<1>7. data # << >> => q # r
  <2>1. data # << >> => Len(data) # 0  OBVIOUS
  <2> QED  BY <1>1, <1>2, <2>1
<1> QED  BY <1>4, <1>6, <1>7 DEF q

\* Growing copies the content, wrapped or not.
LEMMA RingGrown ==
  ASSUME NEW r, IsRing(r), NEW need \in Nat, need >= r.bytes, need > r.size
  PROVE  /\ IsRing(Grown(r, need)) /\ Grown(r, need).size >= need
         /\ Grown(r, need).bytes = r.bytes
         /\ Contents(Grown(r, need)) = Contents(r)
<1> DEFINE g == Grown(r, need)
           sz == Doubled(r.size, need)
<1>1. r.size \in Nat /\ r.size > 0 /\ r.head \in Nat /\ r.bytes \in 0..r.size  BY DEF IsRing
<1>2. sz \in Nat /\ sz >= need  BY <1>1, SizeEnough
<1> HIDE DEF sz
<1>3. /\ g = [buf |-> g.buf, size |-> sz, head |-> 0, tail |-> r.bytes, bytes |-> r.bytes]
      /\ g.buf = [i \in 0..(sz - 1) |-> IF i < r.bytes THEN r.buf[(r.head + i) % r.size] ELSE NoByte]
  BY DEF Grown, sz
<1> HIDE DEF g
<1>4. g.size = sz /\ g.head = 0 /\ g.tail = r.bytes /\ g.bytes = r.bytes  BY <1>3
<1>5. r.bytes \in Nat /\ r.bytes < sz /\ sz > 0  BY <1>1, <1>2
<1>6. IsRing(g)
  <2>1. (0 + r.bytes) % sz = r.bytes
    <3>1. r.bytes \in Int /\ -sz <= r.bytes /\ 0 + r.bytes = r.bytes  BY <1>2, <1>5
    <3> QED  BY <1>2, <1>5, <3>1, ModSmall
  <2>2. ASSUME NEW i \in 0..(sz - 1) PROVE g.buf[i] \in Cells
    <3>1. CASE i < r.bytes
      <4>1. r.head + i \in Int  BY <1>1
      <4>2. (r.head + i) % r.size \in 0..(r.size - 1)  BY <1>1, <4>1, IntDivMod
      <4>3. g.buf[i] = r.buf[(r.head + i) % r.size]  BY <1>3, <3>1
      <4> QED  BY <4>2, <4>3 DEF IsRing
    <3>2. CASE ~(i < r.bytes)
      <4>1. g.buf[i] = NoByte  BY <1>3, <3>2
      <4> QED  BY <4>1 DEF Cells
    <3> QED  BY <3>1, <3>2
  <2>3. DOMAIN g.buf = 0..(sz - 1)  BY <1>3
  <2>4. 0 \in 0..(sz - 1) /\ r.bytes \in 0..(sz - 1) /\ r.bytes \in 0..sz /\ sz \in Nat \ {0}  BY <1>2, <1>5
  <2>5. g = [buf |-> g.buf, size |-> g.size, head |-> g.head, tail |-> g.tail, bytes |-> g.bytes]
    BY <1>3, <1>4
  <2> QED  BY <1>4, <2>1, <2>2, <2>3, <2>4, <2>5 DEF IsRing
<1>7. Contents(g) = Contents(r)
  <2> DEFINE u == Contents(g)
             v == Contents(r)
  <2>1. u \in Seq(Cells) /\ Len(u) = r.bytes /\ v \in Seq(Cells) /\ Len(v) = r.bytes
    BY <1>4, <1>6, ContentsType
  <2>2. ASSUME NEW i \in 1..r.bytes PROVE u[i] = v[i]
    <3>1. u[i] = g.buf[(0 + i - 1) % sz]  BY <1>4, <1>6, ContentsType
    <3>2. v[i] = r.buf[(r.head + i - 1) % r.size]  BY ContentsType
    <3>3. (0 + i - 1) % sz = i - 1
      <4>1. i - 1 \in Int /\ -sz <= i - 1 /\ i - 1 < sz /\ 0 + i - 1 = i - 1 /\ i - 1 >= 0  BY <1>2, <1>5
      <4> QED  BY <1>2, <1>5, <4>1, ModSmall
    <3>4. i - 1 \in 0..(sz - 1) /\ i - 1 < r.bytes /\ r.head + (i - 1) = r.head + i - 1  BY <1>1, <1>2, <1>5
    <3>5. g.buf[i - 1] = r.buf[(r.head + (i - 1)) % r.size]  BY <1>3, <3>4
    <3> QED  BY <3>1, <3>2, <3>3, <3>4, <3>5
  <2> HIDE DEF u, v
  <2>3. u = v  BY <1>5, <2>1, <2>2
  <2> QED  BY <2>3 DEF u, v
<1> QED  BY <1>2, <1>4, <1>6, <1>7 DEF g

\* rb_write appends, or fails and leaves the ring as it was.
LEMMA AcceptStores ==
  ASSUME IsRing(rb), NEW data \in Seq(Cells), NEW exp, Accept(exp, data)
  PROVE  /\ IsRing(rb') /\ (rb' # rb => Contents(rb') = Contents(rb) \o data)
         /\ expected' = (exp + Len(data)) % Mod
<1>1. rb.bytes \in Nat /\ rb.size \in Nat /\ rb.bytes <= rb.size /\ Len(data) \in Nat  BY DEF IsRing
<1> DEFINE need == rb.bytes + Len(data)
<1>2. need \in Nat /\ need >= rb.bytes  BY <1>1
<1>3. expected' = (exp + Len(data)) % Mod  BY DEF Accept
<1>4. CASE need > rb.size
  <2> DEFINE g == Grown(rb, need)
  <2>1. IsRing(g) /\ g.size >= need /\ g.bytes = rb.bytes /\ Contents(g) = Contents(rb)
    BY <1>2, <1>4, RingGrown
  <2>2. rb' \in {rb, Put(g, data)}  BY <1>4 DEF Accept, NeedsGrowth
  <2> HIDE DEF g
  <2>3. g.bytes + Len(data) <= g.size  BY <2>1
  <2>4. IsRing(Put(g, data)) /\ Contents(Put(g, data)) = Contents(g) \o data  BY <2>1, <2>3, RingPut
  <2> QED  BY <1>3, <2>1, <2>2, <2>4
<1>5. CASE ~(need > rb.size)
  <2>1. rb' = Put(rb, data)  BY <1>5 DEF Accept, NeedsGrowth
  <2>2. rb.bytes + Len(data) <= rb.size  BY <1>1, <1>5
  <2>3. IsRing(Put(rb, data)) /\ Contents(Put(rb, data)) = Contents(rb) \o data  BY <2>2, RingPut
  <2> QED  BY <1>3, <2>1, <2>3
<1> QED  BY <1>4, <1>5

\* rb_send never takes more than there is.
LEMMA AvailableBytes ==
  ASSUME IsRing(rb)
  PROVE  Available \in Nat /\ Available <= rb.bytes
<1>1. rb.size \in Nat /\ rb.size > 0 /\ rb.head \in Nat /\ rb.head < rb.size /\ rb.bytes \in Nat
      /\ rb.bytes <= rb.size
  BY DEF IsRing
<1>2. rb.tail = (rb.head + rb.bytes) % rb.size  BY DEF IsRing
<1>3. CASE rb.head + rb.bytes < rb.size
  <2>1. rb.head + rb.bytes \in Int /\ -rb.size <= rb.head + rb.bytes /\ rb.head + rb.bytes >= 0  BY <1>1
  <2>2. (rb.head + rb.bytes) % rb.size = rb.head + rb.bytes  BY <1>1, <1>3, <2>1, ModSmall
  <2>3. rb.tail = rb.head + rb.bytes  BY <1>2, <2>2
  <2> QED  BY ONLY <1>1, <2>3 DEF Available
<1>4. CASE rb.head + rb.bytes >= rb.size
  <2> DEFINE x == rb.head + rb.bytes - rb.size
  <2>1. rb.head + rb.bytes \in Int /\ x \in Nat /\ x < rb.size /\ rb.head + rb.bytes = rb.size * 1 + x
    BY <1>1, <1>4
  <2>2. (rb.head + rb.bytes) % rb.size = x
    <3> HIDE DEF x
    <3> QED  BY <1>1, <2>1, Remainder
  <2>3. rb.tail = rb.head + rb.bytes - rb.size  BY <1>2, <2>2
  <2> QED  BY ONLY <1>1, <1>4, <2>3 DEF Available
<1> QED  BY <1>1, <1>3, <1>4

Without(r, n) == [r EXCEPT !.head = (r.head + n) % r.size, !.bytes = r.bytes - n]

\* Taking n bytes off the front leaves the others.
LEMMA RingSend ==
  ASSUME NEW r, IsRing(r), NEW n \in Nat, n <= r.bytes
  PROVE  /\ IsRing(Without(r, n))
         /\ Contents(r) = SubSeq(Contents(r), 1, n) \o Contents(Without(r, n))
<1> DEFINE q == Without(r, n)
           hd == (r.head + n) % r.size
           by == r.bytes - n
<1>1. r.size \in Nat /\ r.size > 0 /\ r.head \in Nat /\ r.bytes \in Nat /\ r.bytes <= r.size  BY DEF IsRing
<1>2. r.head + n \in Int /\ by \in Nat /\ by <= r.size /\ by \in Int  BY <1>1
<1>3. hd \in 0..(r.size - 1)  BY <1>1, <1>2, IntDivMod
<1>4. q = [r EXCEPT !.head = hd, !.bytes = by]  BY DEF Without
<1>5. r = [buf |-> r.buf, size |-> r.size, head |-> r.head, tail |-> r.tail, bytes |-> r.bytes]
      /\ r.tail \in 0..(r.size - 1) /\ DOMAIN r.buf = 0..(r.size - 1)
      /\ \A i \in 0..(r.size - 1) : r.buf[i] \in Cells
  BY DEF IsRing
<1>6. r.tail = (hd + by) % r.size
  <2>1. (hd + by) % r.size = ((r.head + n) + by) % r.size  BY <1>1, <1>2, ModShift
  <2>2. (r.head + n) + by = r.head + r.bytes  BY <1>1
  <2>3. r.tail = (r.head + r.bytes) % r.size  BY DEF IsRing
  <2> QED  BY <2>1, <2>2, <2>3
<1> HIDE DEF q, hd, by
<1>7. /\ q.buf = r.buf /\ q.size = r.size /\ q.head = hd /\ q.tail = r.tail /\ q.bytes = by
      /\ q = [buf |-> q.buf, size |-> q.size, head |-> q.head, tail |-> q.tail, bytes |-> q.bytes]
  BY ONLY <1>4, <1>5
<1>8. IsRing(q)
  <2>1. r.size \in Nat \ {0} /\ by \in 0..r.size  BY <1>1, <1>2
  <2> QED  BY <1>3, <1>5, <1>6, <1>7, <2>1 DEF IsRing
<1>9. ASSUME NEW i \in 1..by PROVE Contents(q)[i] = Contents(r)[n + i]
  <2>1. Contents(q)[i] = r.buf[(hd + i - 1) % r.size]  BY <1>7, <1>8, ContentsType
  <2>2. n + i \in 1..r.bytes  BY <1>1, <1>2 DEF by
  <2>3. Contents(r)[n + i] = r.buf[(r.head + (n + i) - 1) % r.size]  BY <2>2, ContentsType
  <2>4. i - 1 \in Int /\ (r.head + n) + (i - 1) = r.head + (n + i) - 1  BY <1>1, <1>2
  <2>5. (hd + (i - 1)) % r.size = ((r.head + n) + (i - 1)) % r.size
    BY <1>1, <1>2, <2>4, ModShift DEF hd
  <2>6. hd + (i - 1) = hd + i - 1  BY <1>3
  <2> QED  BY <2>1, <2>3, <2>4, <2>5, <2>6
<1>10. Contents(r) = SubSeq(Contents(r), 1, n) \o Contents(q)
  <2> DEFINE u == Contents(r)
             v == SubSeq(u, 1, n)
             w == Contents(q)
  <2>1. u \in Seq(Cells) /\ Len(u) = r.bytes /\ w \in Seq(Cells) /\ Len(w) = by  BY <1>7, <1>8, ContentsType
  <2>2. \A i \in 1..by : w[i] = u[n + i]  BY <1>9
  <2> HIDE DEF u, w
  <2>3. v \in Seq(Cells) /\ Len(v) = n /\ \A i \in 1..n : v[i] = u[i]  BY <1>1, <2>1
  <2> HIDE DEF v
  <2>4. Len(u) = Len(v) + Len(w)  BY <1>1, <2>1, <2>3 DEF by
  <2>5. ASSUME NEW i \in 1..(Len(v) + Len(w)) PROVE u[i] = IF i <= Len(v) THEN v[i] ELSE w[i - Len(v)]
    <3>1. CASE i <= n  BY <2>3, <3>1
    <3>2. CASE i > n
      <4>1. i - n \in 1..by /\ n + (i - n) = i  BY <1>2, <2>1, <2>3, <3>2
      <4> QED  BY <2>2, <2>3, <3>2, <4>1
    <3> QED  BY <1>2, <2>3, <3>1, <3>2
  <2>6. u = v \o w  BY <2>1, <2>3, <2>4, <2>5, CatIs
  <2> QED  BY <2>6 DEF u, v, w
<1> QED  BY <1>8, <1>10 DEF q

-----------------------------------------------------------------------------
(* Ranges of a stream *)

\* A part of a stream, byte by byte.
LEMMA RunType ==
  ASSUME NEW c \in Conns, NEW p \in Nat, NEW n \in Nat
  PROVE  /\ Run(c, p, n) \in Seq(Cells) /\ Len(Run(c, p, n)) = n
         /\ \A i \in 1..n : Run(c, p, n)[i] = <<c, p + i - 1>>
<1>1. ASSUME NEW i \in 1..n PROVE <<c, p + i - 1>> \in Cells
  <2>1. p + i - 1 \in Nat  OBVIOUS
  <2> QED  BY <2>1 DEF Cells
<1> QED  BY <1>1 DEF Run

\* Adjoining parts make one.
LEMMA RunCat ==
  ASSUME NEW c \in Conns, NEW p \in Nat, NEW n \in Nat, NEW m \in Nat
  PROVE  Run(c, p, n) \o Run(c, p + n, m) = Run(c, p, n + m)
<1> DEFINE u == Run(c, p, n + m)
           v == Run(c, p, n)
           w == Run(c, p + n, m)
<1>1. n + m \in Nat /\ p + n \in Nat  OBVIOUS
<1>2. u \in Seq(Cells) /\ Len(u) = n + m /\ \A i \in 1..(n + m) : u[i] = <<c, p + i - 1>>  BY <1>1, RunType
<1>3. v \in Seq(Cells) /\ Len(v) = n /\ \A i \in 1..n : v[i] = <<c, p + i - 1>>  BY RunType
<1>4. w \in Seq(Cells) /\ Len(w) = m /\ \A i \in 1..m : w[i] = <<c, p + n + i - 1>>  BY <1>1, RunType
<1> HIDE DEF u, v, w
<1>5. ASSUME NEW i \in 1..(Len(v) + Len(w)) PROVE u[i] = IF i <= Len(v) THEN v[i] ELSE w[i - Len(v)]
  <2>1. u[i] = <<c, p + i - 1>>  BY <1>2, <1>3, <1>4
  <2>2. CASE i <= n  BY <1>3, <2>1, <2>2
  <2>3. CASE i > n
    <3>1. i - n \in 1..m /\ p + n + (i - n) - 1 = p + i - 1  BY <1>3, <1>4, <2>3
    <3> QED  BY <1>3, <1>4, <2>1, <2>3, <3>1
  <2> QED  BY <1>3, <1>4, <2>2, <2>3
<1>6. u = v \o w  BY <1>2, <1>3, <1>4, <1>5, CatIs
<1> QED  BY <1>6 DEF u, v, w

\* What is left of a part.
LEMMA RunRest ==
  ASSUME NEW c \in Conns, NEW p \in Nat, NEW n \in Nat, NEW k \in 0..n
  PROVE  SubSeq(Run(c, p, n), k + 1, n) = Run(c, p + k, n - k)
<1> DEFINE u == Run(c, p, n)
           v == SubSeq(u, k + 1, n)
           w == Run(c, p + k, n - k)
<1>1. n - k \in Nat /\ p + k \in Nat  OBVIOUS
<1>2. u \in Seq(Cells) /\ Len(u) = n /\ \A i \in 1..n : u[i] = <<c, p + i - 1>>  BY RunType
<1>3. w \in Seq(Cells) /\ Len(w) = n - k /\ \A i \in 1..(n - k) : w[i] = <<c, p + k + i - 1>>  BY <1>1, RunType
<1> HIDE DEF u, w
<1>4. v \in Seq(Cells) /\ Len(v) = n - k /\ \A i \in 1..(n - k) : v[i] = u[k + i]
  <2>1. \A i \in (k + 1)..n : u[i] \in Cells  BY <1>2
  <2>2. v = [i \in 1..(n - k) |-> u[k + i]]  BY <1>2
  <2> HIDE DEF v
  <2>3. \A i \in 1..(n - k) : k + i \in (k + 1)..n  OBVIOUS
  <2> QED  BY <1>1, <2>1, <2>2, <2>3
<1> HIDE DEF v
<1>5. ASSUME NEW i \in 1..Len(w) PROVE v[i] = w[i]
  <2>1. k + i \in 1..n /\ i \in 1..(n - k) /\ p + (k + i) - 1 = p + k + i - 1  BY <1>3
  <2> QED  BY <1>2, <1>3, <1>4, <2>1
<1>6. v = w  BY <1>3, <1>4, <1>5, SeqSameCells
<1> QED  BY <1>6 DEF u, v, w

\* The positions of a part are numbers inside the stream.
LEMMA WithinNat ==
  ASSUME NEW c \in Conns, NEW p, NEW n, Within(c, p, n)
  PROVE  /\ p \in Nat /\ n \in Nat /\ n > 0 /\ p + n <= StreamLen[c]
         /\ p \in 0..StreamLen[c] /\ n \in 0..StreamLen[c] /\ p + n \in 0..StreamLen[c] /\ StreamLen[c] \in Nat
BY ConnFacts DEF Within

\* A segment is a part of the stream and its first sequence number.
LEMMA SegFacts ==
  ASSUME NEW c \in Conns, NEW p, NEW n, Within(c, p, n)
  PROVE  /\ Seg(c, p, n).seq = SeqNo(c, p) /\ Seg(c, p, n).data = Run(c, p, n)
         /\ Seg(c, p, n).data # << >> /\ Seg(c, p, n) \in Segments
         /\ Extent(Seg(c, p, n)) = Span(c, p, n)
<1> DEFINE e == Seg(c, p, n)
           d == Run(c, p, n)
<1>1. p \in Nat /\ n \in Nat /\ n > 0 /\ p \in 0..StreamLen[c] /\ n \in 0..StreamLen[c]  BY WithinNat
<1>2. d \in Seq(Cells) /\ Len(d) = n /\ \A i \in 1..n : d[i] = <<c, p + i - 1>>  BY <1>1, RunType
<1>3. SeqNo(c, p) \in Nat  BY <1>1, SeqType
<1>4. e.seq = SeqNo(c, p) /\ e.data = d  BY DEF Seg
<1>5. d # << >>  BY <1>1, <1>2
<1>6. e \in [seq : Nat, data : Seq(Cells)]  BY <1>2, <1>3 DEF Seg
<1>7. IsSegment(e)  BY <1>1 DEF IsSegment
<1>8. e \in Segments  BY <1>6, <1>7 DEF Segments
<1>9. Extent(e) = Span(c, p, n)
  <2>1. 1 \in 1..n /\ n \in 1..n /\ p + 1 - 1 = p  BY <1>1
  <2>2. d[1] = <<c, p>> /\ d[n] = <<c, p + n - 1>>  BY <1>2, <2>1
  <2>3. Extent(e) = [c |-> d[1][1], from |-> d[1][2], to |-> d[n][2]]  BY <1>2, <1>4 DEF Extent
  <2> QED  BY <2>2, <2>3 DEF Span
<1> QED  BY <1>4, <1>5, <1>8, <1>9

\* handle_tc_dual_write cuts an event to a part of the segment.
LEMMA EventSegment ==
  ASSUME NEW c \in Conns, NEW n \in SegLens, NEW p \in 0..(StreamLen[c] - n)
  PROVE  Event(c, p, n) \in Segments
<1> DEFINE len == IF n > MaxPayload THEN MaxPayload ELSE n
<1>1. n \in Nat /\ n > 0 /\ MaxPayload \in Nat /\ MaxPayload > 0 /\ StreamLen[c] \in Nat  BY RelayAssumption
<1>2. Within(c, p, len)  BY <1>1 DEF Within
<1>3. Event(c, p, n) = Seg(c, p, len)  BY DEF Event, Seg, Run, SeqNo
<1> QED  BY <1>2, <1>3, SegFacts

\* What process_tcp_payload takes of a segment that overlaps what it has.
LEMMA NewPartIs ==
  ASSUME NEW c \in Conns, NEW p, NEW n, Within(c, p, n), NEW x \in 0..StreamLen[c], p <= x, x <= p + n
  PROVE  NewPart(Seg(c, p, n), SeqNo(c, x)) = Run(c, x, (p + n) - x)
<1>1. p \in Nat /\ n \in Nat /\ p \in 0..StreamLen[c] /\ x \in Nat  BY WithinNat
<1>2. (SeqNo(c, x) - SeqNo(c, p)) % Mod = x - p
  <2>1. (SeqNo(c, x) - SeqNo(c, p)) % Mod = IF x >= p THEN x - p ELSE (x - p) + Mod  BY <1>1, SeqDiff
  <2> QED  BY <1>1, <2>1
<1>3. Len(Run(c, p, n)) = n  BY <1>1, RunType
<1>4. NewPart(Seg(c, p, n), SeqNo(c, x)) = SubSeq(Run(c, p, n), (x - p) + 1, n)
  BY <1>2, <1>3, SegFacts DEF NewPart
<1>5. x - p \in 0..n /\ p + (x - p) = x /\ n - (x - p) = (p + n) - x  BY <1>1
<1>6. SubSeq(Run(c, p, n), (x - p) + 1, n) = Run(c, p + (x - p), n - (x - p))  BY <1>1, <1>5, RunRest
<1> QED  BY <1>4, <1>5, <1>6

\* Every segment is a part of a stream.
LEMMA SegmentIs ==
  ASSUME NEW e \in Segments
  PROVE  /\ IsSegment(e) /\ e.seq \in Nat /\ e.data \in Seq(Cells)
         /\ \E c \in Conns : \E p, n \in 0..StreamLen[c] : Within(c, p, n) /\ e = Seg(c, p, n)
BY DEF Segments, IsSegment

\* What is taken are bytes.
LEMMA NewPartType ==
  ASSUME NEW e \in Segments, NEW exp \in Nat
  PROVE  NewPart(e, exp) \in Seq(Cells)
<1> DEFINE k == (exp - e.seq) % Mod
<1>1. e.seq \in Nat /\ e.data \in Seq(Cells)  BY SegmentIs
<1>2. exp - e.seq \in Int /\ Mod \in Nat /\ Mod > 0  BY <1>1, RelayAssumption
<1>3. k \in Nat  BY <1>2, IntDivMod
<1> HIDE DEF k
<1>4. SubSeq(e.data, k + 1, Len(e.data)) \in Seq(Cells)
  <2>1. k + 1 \in 1..(Len(e.data) + 1) \/ k + 1 > Len(e.data)  BY <1>1, <1>3
  <2> QED  BY <1>1, <1>3, <2>1
<1> QED  BY <1>4 DEF NewPart, k

\* A range of slots has a first one.
LEMMA FirstSlot ==
  ASSUME NEW S \in SUBSET (1..PoolSize), S # {}
  PROVE  FirstOf(S) \in S
<1>1. S \subseteq Nat
  <2>1. PoolSize \in Nat  BY RelayAssumption
  <2> QED  BY <2>1
<1>2. PICK x \in S : \A y \in S : x =< y  BY <1>1, Least
<1> QED  BY <1>2 DEF FirstOf

-----------------------------------------------------------------------------
(* Types *)

\* ooo_insert keeps the pool one of segments.
LEMMA InsertTypes ==
  ASSUME RelayTypeOK, NEW e \in Segments, Insert(e)
  PROVE  /\ DOMAIN pool' = 1..PoolSize /\ \A i \in 1..PoolSize : Used(i)' => IsSegment(pool[i]')
         /\ started' \in BOOLEAN
<1>1. IsSegment(e)  BY SegmentIs
<1>2. CASE UNCHANGED <<pool, started>>  BY <1>2 DEF RelayTypeOK, Used
<1>3. CASE FreeSlots # {} /\ pool' = [pool EXCEPT ![FirstOf(FreeSlots)] = e] /\ UNCHANGED started
  <2>1. DOMAIN pool' = 1..PoolSize  BY <1>3 DEF RelayTypeOK
  <2>2. \A i \in 1..PoolSize : pool'[i] = pool[i] \/ pool'[i] = e  BY <1>3 DEF RelayTypeOK
  <2> QED  BY <1>1, <1>3, <2>1, <2>2 DEF RelayTypeOK, Used
<1>4. CASE pool' = [i \in 1..PoolSize |-> NoSeg] /\ started' = FALSE
  BY <1>4 DEF Used, NoSeg
<1> QED  BY <1>2, <1>3, <1>4 DEF Insert

\* process_tcp_payload keeps the types.
LEMMA HandleTypes ==
  ASSUME RelayTypeOK, HandleEvent
  PROVE  RelayTypeOK'
<1> DEFINE e == Head(kernel)
           exp == IF started THEN expected ELSE e.seq
           end == (e.seq + Len(e.data)) % Mod
<1>1. e \in Segments /\ kernel' \in Seq(Segments)  BY DEF HandleEvent, RelayTypeOK
<1>2. exp \in Nat  BY <1>1, SegmentIs DEF RelayTypeOK
<1>3. sound' \in BOOLEAN /\ sent' = sent  BY DEF HandleEvent
<1>4. \/ /\ Accept(exp, NewPart(e, exp)) /\ started' = TRUE /\ rpc' = "merge" /\ UNCHANGED pool
      \/ UNCHANGED <<expected, rb, started, pool, rpc>>
      \/ Insert(e) /\ UNCHANGED <<expected, rb, rpc>>
  BY DEF HandleEvent
<1> HIDE DEF e, exp
<1>5. CASE /\ Accept(exp, NewPart(e, exp)) /\ started' = TRUE /\ rpc' = "merge" /\ UNCHANGED pool
  <2>1. NewPart(e, exp) \in Seq(Cells)  BY <1>1, <1>2, NewPartType
  <2>2. IsRing(rb') /\ expected' = (exp + Len(NewPart(e, exp))) % Mod  BY <1>5, <2>1, AcceptStores DEF RelayTypeOK
  <2>3. expected' \in Nat
    <3>1. exp + Len(NewPart(e, exp)) \in Int /\ Mod \in Nat /\ Mod > 0  BY <1>2, <2>1, RelayAssumption
    <3> QED  BY <2>2, <3>1, IntDivMod
  <2> QED  BY <1>1, <1>3, <1>5, <2>2, <2>3 DEF RelayTypeOK, Used
<1>6. CASE UNCHANGED <<expected, rb, started, pool, rpc>>  BY <1>1, <1>3, <1>6 DEF RelayTypeOK, Used
<1>7. CASE Insert(e) /\ UNCHANGED <<expected, rb, rpc>>
  <2>1. /\ DOMAIN pool' = 1..PoolSize /\ \A i \in 1..PoolSize : Used(i)' => IsSegment(pool[i]')
        /\ started' \in BOOLEAN
    BY <1>1, <1>7, InsertTypes
  <2> QED  BY <1>1, <1>3, <1>7, <2>1 DEF RelayTypeOK
<1> QED  BY <1>4, <1>5, <1>6, <1>7

\* ooo_flush finds the segment that is expected next.
LEMMA MatchingSlot ==
  ASSUME RelayTypeOK, Matching # {}
  PROVE  /\ FirstOf(Matching) \in 1..PoolSize /\ Used(FirstOf(Matching))
         /\ pool[FirstOf(Matching)].seq = expected
         /\ pool[FirstOf(Matching)].data \in Seq(Cells)
<1> DEFINE i == FirstOf(Matching)
<1>1. i \in Matching
  <2>1. Matching \in SUBSET (1..PoolSize)  BY DEF Matching
  <2> QED  BY <2>1, FirstSlot
<1>2. i \in 1..PoolSize /\ Used(i) /\ pool[i].seq = expected  BY <1>1 DEF Matching
<1> HIDE DEF i
<1>3. IsSegment(pool[i])  BY <1>2 DEF RelayTypeOK
<1>4. PICK c \in Conns : \E p, n \in 0..StreamLen[c] : Within(c, p, n) /\ pool[i] = Seg(c, p, n)
  BY <1>3 DEF IsSegment
<1>5. PICK p \in 0..StreamLen[c], n \in 0..StreamLen[c] : Within(c, p, n) /\ pool[i] = Seg(c, p, n)
  BY <1>4
<1>6. pool[i].data = Run(c, p, n) /\ p \in Nat /\ n \in Nat  BY <1>5, SegFacts, WithinNat
<1>7. pool[i].data \in Seq(Cells)  BY <1>6, RunType
<1> QED  BY <1>2, <1>7 DEF i

\* One iteration of ooo_flush keeps the types.
LEMMA MergeTypes ==
  ASSUME RelayTypeOK, Merge
  PROVE  RelayTypeOK'
<1> DEFINE i == FirstOf(Matching)
<1>1. i \in 1..PoolSize /\ pool[i].data \in Seq(Cells)  BY MatchingSlot DEF Merge
<1>2. Accept(expected, pool[i].data) /\ pool' = [pool EXCEPT ![i] = NoSeg]  BY DEF Merge
<1> HIDE DEF i
<1>3. IsRing(rb') /\ expected' = (expected + Len(pool[i].data)) % Mod
  BY <1>1, <1>2, AcceptStores DEF RelayTypeOK
<1>4. expected' \in Nat
  <2>1. expected + Len(pool[i].data) \in Int /\ Mod \in Nat /\ Mod > 0
    BY <1>1, RelayAssumption DEF RelayTypeOK
  <2> QED  BY <1>3, <2>1, IntDivMod
<1>5. DOMAIN pool' = 1..PoolSize /\ \A j \in 1..PoolSize : pool'[j] = pool[j] \/ pool'[j] = NoSeg
  BY <1>2 DEF RelayTypeOK
<1>6. \A j \in 1..PoolSize : Used(j)' => IsSegment(pool'[j])  BY <1>5 DEF Used, NoSeg, RelayTypeOK
<1>7. kernel' = kernel /\ rpc' = rpc /\ started' = started /\ sent' = sent /\ sound' \in BOOLEAN  BY DEF Merge
<1> QED  BY <1>3, <1>4, <1>5, <1>6, <1>7 DEF RelayTypeOK

-----------------------------------------------------------------------------
(* process_tcp_payload *)

\* The first and last position of a segment.
LEMMA SpanFacts ==
  ASSUME NEW c \in Conns, NEW p, NEW n, Within(c, p, n)
  PROVE  /\ Span(c, p, n).c = c /\ Span(c, p, n).from = p /\ Span(c, p, n).to = p + n - 1
         /\ Span(c, p, n).to - Span(c, p, n).from + 1 = n
<1>1. p \in Nat /\ n \in Nat  BY WithinNat
<1> QED  BY <1>1 DEF Span

\* Whatever was handled is a part of the stream.
LEMMA HandledFacts ==
  ASSUME NEW c \in Conns, OneConn(c), NEW h \in handled
  PROVE  /\ h.c = c /\ h.from \in Nat /\ h.to \in Nat /\ h.from <= h.to /\ h.to < StreamLen[c]
         /\ Within(c, h.from, h.to - h.from + 1) /\ h = Span(c, h.from, h.to - h.from + 1)
<1>1. PICK p \in 0..StreamLen[c], n \in 0..StreamLen[c] : Within(c, p, n) /\ h = Span(c, p, n)
  BY DEF OneConn
<1>2. h.c = c /\ h.from = p /\ h.to = p + n - 1 /\ h.to - h.from + 1 = n  BY <1>1, SpanFacts
<1>3. p \in Nat /\ n \in Nat /\ n > 0 /\ p + n <= StreamLen[c] /\ StreamLen[c] \in Nat  BY <1>1, WithinNat
<1> QED  BY <1>1, <1>2, <1>3

\* The event at the head of the kernel's buffer.
LEMMA HeadEvent ==
  ASSUME RelayTypeOK, kernel # << >>
  PROVE  \E c \in Conns : \E p, n \in 0..StreamLen[c] :
           /\ Within(c, p, n) /\ Head(kernel) = Seg(c, p, n)
           /\ Head(kernel).seq = SeqNo(c, p) /\ Extent(Head(kernel)) = Span(c, p, n)
           /\ (Head(kernel).seq + Len(Head(kernel).data)) % Mod = SeqNo(c, p + n)
<1> DEFINE e == Head(kernel)
<1>1. e \in Segments  BY DEF RelayTypeOK
<1> HIDE DEF e
<1>2. PICK c \in Conns : \E p, n \in 0..StreamLen[c] : Within(c, p, n) /\ e = Seg(c, p, n)  BY <1>1, SegmentIs
<1>3. PICK p \in 0..StreamLen[c], n \in 0..StreamLen[c] : Within(c, p, n) /\ e = Seg(c, p, n)  BY <1>2
<1>4. e.seq = SeqNo(c, p) /\ e.data = Run(c, p, n) /\ Extent(e) = Span(c, p, n) /\ p \in Nat /\ n \in Nat
  BY <1>3, SegFacts, WithinNat
<1>5. Len(e.data) = n  BY <1>4, RunType
<1>6. (e.seq + Len(e.data)) % Mod = SeqNo(c, p + n)  BY <1>4, <1>5, SeqAdd
<1> QED  BY <1>3, <1>4, <1>6 DEF e

\* The first event starts the stream.
LEMMA FirstEvent ==
  ASSUME RelayTypeOK, ~started, Fresh, HandleEvent, sound'
  PROVE  started' /\ Flowing'
<1> DEFINE e == Head(kernel)
           end == (e.seq + Len(e.data)) % Mod
<1>1. PICK c \in Conns : \E p, n \in 0..StreamLen[c] :
           /\ Within(c, p, n) /\ e = Seg(c, p, n)
           /\ e.seq = SeqNo(c, p) /\ Extent(e) = Span(c, p, n)
           /\ end = SeqNo(c, p + n)
  BY HeadEvent DEF HandleEvent
<1>2. PICK p \in 0..StreamLen[c], n \in 0..StreamLen[c] :
           /\ Within(c, p, n) /\ e = Seg(c, p, n)
           /\ e.seq = SeqNo(c, p) /\ Extent(e) = Span(c, p, n)
           /\ end = SeqNo(c, p + n)
  BY <1>1
<1>3. /\ \/ /\ ~Gt(e.seq, e.seq) /\ Gt(end, e.seq) /\ Accept(e.seq, NewPart(e, e.seq))
            /\ started' = TRUE /\ rpc' = "merge" /\ UNCHANGED pool
         \/ ~Gt(e.seq, e.seq) /\ ~Gt(end, e.seq)
         \/ Gt(e.seq, e.seq)
      /\ handled' = handled \cup {Extent(e)} /\ (rpc' = "merge" => rb' # rb) /\ sent' = sent
  BY DEF HandleEvent
<1> HIDE DEF e, end
<1>4. p \in Nat /\ n \in Nat /\ n > 0 /\ p \in 0..StreamLen[c] /\ p + n \in 0..StreamLen[c]
      /\ p + n \in Nat /\ p + n > p /\ ~(p > p)
  BY <1>2, WithinNat
<1>5. ~Gt(e.seq, e.seq) /\ Gt(end, e.seq)  BY <1>2, <1>4, SeqGt
<1>6. Accept(e.seq, NewPart(e, e.seq)) /\ started' = TRUE /\ rpc' = "merge" /\ pool' = pool /\ rb' # rb
  BY <1>3, <1>5
<1>7. NewPart(e, e.seq) = Run(c, p, n)
  <2>1. p <= p /\ p <= p + n /\ (p + n) - p = n  BY <1>4
  <2> QED  BY <1>2, <1>4, <2>1, NewPartIs
<1>8. Run(c, p, n) \in Seq(Cells) /\ Len(Run(c, p, n)) = n  BY <1>4, RunType
<1>9. Contents(rb') = Contents(rb) \o Run(c, p, n) /\ expected' = (e.seq + n) % Mod
  BY <1>6, <1>7, <1>8, AcceptStores DEF RelayTypeOK
<1>10. At(c, p, p + n)'
  <2>1. Contents(rb) = << >>
    <3>1. Contents(rb) \in Seq(Cells) /\ Len(Contents(rb)) = 0  BY ContentsType DEF RelayTypeOK, Fresh
    <3> QED  BY <3>1
  <2>2. Forwarded' = Run(c, p, n)
    <3>1. sent' = << >>  BY <1>3 DEF Fresh
    <3>2. Contents(rb') = Run(c, p, n)  BY <1>8, <1>9, <2>1
    <3>3. << >> \o Run(c, p, n) = Run(c, p, n)  BY <1>8
    <3> QED  BY <3>1, <3>2, <3>3 DEF Forwarded
  <2>3. expected' = SeqNo(c, p + n)  BY <1>2, <1>4, <1>9, SeqAdd
  <2>4. (p + n) - p = n /\ p + n <= StreamLen[c]  BY <1>4
  <2> QED  BY <1>4, <2>2, <2>3, <2>4 DEF At
<1>11. handled' = {Span(c, p, n)}  BY <1>2, <1>3 DEF Fresh
<1>12. OneConn(c)'
  <2>1. \A i \in 1..PoolSize : ~Used(i)'  BY <1>6 DEF Fresh, Used
  <2> QED  BY <1>2, <1>4, <1>11, <2>1 DEF OneConn
<1>13. Kept(c, p + n)'
  <2>1. Span(c, p, n).to < p + n  BY <1>2, <1>4, SpanFacts
  <2> QED  BY <1>11, <2>1 DEF Kept
<1> QED  BY <1>4, <1>6, <1>10, <1>12, <1>13 DEF Flowing

\* What was cut off at another place stays so.
LEMMA UncutBefore ==
  ASSUME NEW c \in Conns, NEW p, NEW n, handled' = handled \cup {Span(c, p, n)}, Uncut',
         Within(c, p, n), OneConn(c)
  PROVE  /\ Uncut
         /\ \A h \in handled : h = Span(c, p, n) \/ p + n - 1 < h.from \/ h.to < p
<1>1. Uncut  BY DEF Uncut
<1>2. ASSUME NEW h \in handled PROVE h = Span(c, p, n) \/ p + n - 1 < h.from \/ h.to < p
  <2>1. h \in handled' /\ Span(c, p, n) \in handled'  OBVIOUS
  <2>2. h.c = c  BY HandledFacts
  <2> QED  BY <2>1, <2>2, SpanFacts DEF Uncut
<1> QED  BY <1>1, <1>2

\* One more range handled is of the same connection.
LEMMA OneConnMore ==
  ASSUME NEW c \in Conns, NEW p, NEW n, Within(c, p, n), OneConn(c),
         handled' = handled \cup {Span(c, p, n)},
         \A i \in 1..PoolSize : pool'[i] = pool[i] \/ pool'[i].data = << >> \/ pool'[i] = Seg(c, p, n)
  PROVE  OneConn(c)'
<1>1. p \in 0..StreamLen[c] /\ n \in 0..StreamLen[c]  BY WithinNat
<1>2. handled' # {}  OBVIOUS
<1>3. \A h \in handled' : \E p2, n2 \in 0..StreamLen[c] : Within(c, p2, n2) /\ h = Span(c, p2, n2)
  BY <1>1 DEF OneConn
<1>4. ASSUME NEW i \in 1..PoolSize, Used(i)'
      PROVE  \E p2, n2 \in 0..StreamLen[c] :
               Within(c, p2, n2) /\ pool'[i] = Seg(c, p2, n2) /\ Span(c, p2, n2) \in handled'
  <2>1. CASE pool'[i] = pool[i]  BY <1>4, <2>1 DEF OneConn, Used
  <2>2. CASE pool'[i] = Seg(c, p, n)  BY <1>1, <2>2
  <2>3. pool'[i].data # << >>  BY <1>4 DEF Used
  <2> QED  BY <2>1, <2>2, <2>3
<1> QED  BY <1>2, <1>3, <1>4 DEF OneConn

\* The state of a stream under way, and the event that comes.
Coming(c, f, front, p, n) ==
  /\ c \in Conns /\ f \in 0..StreamLen[c] /\ front \in 0..StreamLen[c]
  /\ At(c, f, front) /\ OneConn(c) /\ Kept(c, front) /\ Within(c, p, n)
  /\ handled' = handled \cup {Span(c, p, n)}

\* The positions of a part that is new are numbers inside the stream.
LEMMA ComingNat ==
  ASSUME NEW c, NEW f, NEW front, NEW p, NEW n, Coming(c, f, front, p, n)
  PROVE  /\ c \in Conns /\ f \in Nat /\ front \in Nat /\ f < front /\ front \in 0..StreamLen[c] /\ f \in 0..StreamLen[c]
         /\ p \in Nat /\ n \in Nat /\ n > 0 /\ p + n \in 0..StreamLen[c] /\ p + n \in Nat /\ StreamLen[c] \in Nat
         /\ p \in 0..StreamLen[c]
<1>1. c \in Conns /\ f \in 0..StreamLen[c] /\ front \in 0..StreamLen[c] /\ Within(c, p, n) /\ f < front  BY DEF Coming, At
<1>2. p \in Nat /\ n \in Nat /\ n > 0 /\ p + n \in 0..StreamLen[c] /\ p + n \in Nat /\ StreamLen[c] \in Nat
      /\ p \in 0..StreamLen[c]
  BY <1>1, WithinNat
<1> QED  BY <1>1, <1>2

\* Its new bytes go to the ring.
LEMMA Accepted ==
  ASSUME RelayTypeOK, NEW c, NEW f, NEW front, NEW p, NEW n, Coming(c, f, front, p, n),
         p <= front, front < p + n, rpc' = "merge", pool' = pool, rb' # rb, sent' = sent,
         Accept(expected, NewPart(Seg(c, p, n), expected))
  PROVE  Flowing'
<1>1. /\ c \in Conns /\ f \in Nat /\ front \in Nat /\ f < front /\ front \in 0..StreamLen[c] /\ f \in 0..StreamLen[c]
      /\ p \in Nat /\ n \in Nat /\ n > 0 /\ p + n \in 0..StreamLen[c] /\ p + n \in Nat /\ StreamLen[c] \in Nat
  BY ComingNat
<1>2. At(c, f, front) /\ OneConn(c) /\ Kept(c, front) /\ Within(c, p, n)
      /\ handled' = handled \cup {Span(c, p, n)}
  BY DEF Coming
<1>3. expected = SeqNo(c, front) /\ Forwarded = Run(c, f, front - f)  BY <1>2 DEF At
<1> DEFINE new == Run(c, front, (p + n) - front)
<1>4. NewPart(Seg(c, p, n), expected) = new  BY <1>1, <1>2, <1>3, NewPartIs
<1>5. (p + n) - front \in Nat /\ front - f \in Nat /\ f + (front - f) = front
      /\ (front - f) + ((p + n) - front) = (p + n) - f /\ front + ((p + n) - front) = p + n /\ f < p + n
      /\ p + n <= StreamLen[c]
  BY <1>1
<1>6. new \in Seq(Cells) /\ Len(new) = (p + n) - front  BY <1>1, <1>5, RunType
<1> HIDE DEF new
<1>7. Contents(rb') = Contents(rb) \o new /\ expected' = (expected + ((p + n) - front)) % Mod
  BY <1>4, <1>6, AcceptStores DEF RelayTypeOK
<1>8. At(c, f, p + n)'
  <2>1. expected' = SeqNo(c, p + n)  BY <1>1, <1>3, <1>5, <1>7, SeqAdd
  <2>2. Forwarded' = Forwarded \o new
    <3> DEFINE v == Contents(rb)
    <3>1. sent \in Seq(Cells) /\ v \in Seq(Cells)  BY ContentsType DEF RelayTypeOK
    <3>2. Forwarded' = sent \o (v \o new) /\ Forwarded = sent \o v  BY <1>7 DEF Forwarded
    <3> HIDE DEF v
    <3>3. (sent \o v) \o new = sent \o (v \o new)  BY ONLY <1>6, <3>1
    <3> QED  BY <3>2, <3>3
  <2>3. Run(c, f, front - f) \o Run(c, f + (front - f), (p + n) - front)
          = Run(c, f, (front - f) + ((p + n) - front))
    <3> DEFINE a == front - f
               b == (p + n) - front
    <3>1. a \in Nat /\ b \in Nat  BY <1>5
    <3> HIDE DEF a, b
    <3>2. c \in Conns /\ f \in Nat  BY <1>1
    <3>3. Run(c, f, a) \o Run(c, f + a, b) = Run(c, f, a + b)  BY <3>1, <3>2, RunCat, Zenon
    <3> QED  BY <3>3 DEF a, b
  <2>4. Forwarded' = Run(c, f, (p + n) - f)  BY <1>3, <1>5, <2>2, <2>3 DEF new
  <2> QED  BY <1>5, <2>1, <2>4 DEF At
<1>9. OneConn(c)'  BY <1>1, <1>2, OneConnMore
<1>10. Kept(c, p + n)'
  <2>1. SUFFICES ASSUME Uncut', NEW h \in handled'
                 PROVE  h.to < p + n \/ (h.from >= p + n /\ Waits(c, h)')
    BY DEF Kept
  <2>2. CASE h = Span(c, p, n)
    <3>1. h.to = p + n - 1  BY <1>1, <1>2, <2>2, SpanFacts
    <3>2. h.to < p + n  BY ONLY <1>1, <3>1
    <3> QED  BY <1>1, <3>1, <3>2
  <2>3. CASE h # Span(c, p, n)
    <3>1. h \in handled  BY <1>2, <2>3
    <3>2. Uncut /\ (p + n - 1 < h.from \/ h.to < p)  BY <1>1, <1>2, <2>1, <2>3, <3>1, UncutBefore
    <3>3. h.from \in Nat /\ h.to \in Nat /\ h.from <= h.to  BY <1>1, <1>2, <3>1, HandledFacts
    <3>4. h.to < front \/ Waits(c, h)  BY <1>2, <3>1, <3>2 DEF Kept
    <3>5. Waits(c, h) => Waits(c, h)'  BY DEF Waits
    <3>6. h.to < p => h.to < p + n  BY ONLY <1>1, <3>3
    <3>7. h.to < front => h.to < p + n  BY ONLY <1>1, <3>3, front < p + n
    <3>8. p + n - 1 < h.from => h.from >= p + n  BY ONLY <1>1, <3>3
    <3> QED  BY ONLY <3>2, <3>4, <3>5, <3>6, <3>7, <3>8
  <2> QED  BY <2>2, <2>3
<1> QED  BY <1>1, <1>8, <1>9, <1>10 DEF Flowing

\* It brings nothing new.
LEMMA AlreadySent ==
  ASSUME NEW c, NEW f, NEW front, NEW p, NEW n, Coming(c, f, front, p, n),
         p + n <= front, UNCHANGED <<expected, rb, pool, rpc, sent>>
  PROVE  Flowing'
<1>1. /\ c \in Conns /\ f \in Nat /\ front \in Nat /\ f < front /\ front \in 0..StreamLen[c] /\ f \in 0..StreamLen[c]
      /\ p \in Nat /\ n \in Nat /\ n > 0 /\ p + n \in 0..StreamLen[c] /\ p + n \in Nat /\ StreamLen[c] \in Nat
  BY ComingNat
<1>2. At(c, f, front) /\ OneConn(c) /\ Kept(c, front) /\ Within(c, p, n)
      /\ handled' = handled \cup {Span(c, p, n)}
  BY DEF Coming
<1>3. At(c, f, front)'  BY <1>2 DEF At, Forwarded
<1>4. OneConn(c)'  BY <1>1, <1>2, OneConnMore
<1>5. Kept(c, front)'
  <2>1. SUFFICES ASSUME Uncut', NEW h \in handled'
                 PROVE  h.to < front \/ (h.from >= front /\ (rpc # "merge" => h.from > front) /\ Waits(c, h)')
    BY DEF Kept
  <2>2. CASE h = Span(c, p, n)
    <3>1. h.to = p + n - 1  BY <1>1, <1>2, <2>2, SpanFacts
    <3>2. h.to < p + n  BY ONLY <1>1, <3>1
    <3> QED  BY <1>1, <3>1, <3>2
  <2>3. CASE h # Span(c, p, n)
    <3>1. h \in handled  BY <1>2, <2>3
    <3>2. Uncut  BY <1>1, <1>2, <2>1, UncutBefore
    <3>3. h.to < front \/ (h.from >= front /\ (rpc # "merge" => h.from > front) /\ Waits(c, h))
      BY ONLY <1>2, <3>1, <3>2 DEF Kept
    <3>4. Waits(c, h) => Waits(c, h)'  BY DEF Waits
    <3> QED  BY <3>3, <3>4
  <2> QED  BY <2>2, <2>3
<1> QED  BY <1>1, <1>3, <1>4, <1>5 DEF Flowing

\* It is ahead of the stream and goes to the pool, or is there.
LEMMA Inserted ==
  ASSUME RelayTypeOK, NEW c, NEW f, NEW front, NEW p, NEW n, Coming(c, f, front, p, n),
         p > front, Insert(Seg(c, p, n)), started, started', UNCHANGED <<expected, rb, rpc, sent>>
  PROVE  Flowing'
<1>1. /\ c \in Conns /\ f \in Nat /\ front \in Nat /\ f < front /\ front \in 0..StreamLen[c] /\ f \in 0..StreamLen[c]
      /\ p \in Nat /\ n \in Nat /\ n > 0 /\ p + n \in 0..StreamLen[c] /\ p + n \in Nat /\ StreamLen[c] \in Nat
      /\ p \in 0..StreamLen[c]
  BY ComingNat
<1>2. At(c, f, front) /\ OneConn(c) /\ Kept(c, front) /\ Within(c, p, n)
      /\ handled' = handled \cup {Span(c, p, n)}
  BY DEF Coming
<1> DEFINE e == Seg(c, p, n)
<1>3. e.seq = SeqNo(c, p) /\ e.data # << >>  BY <1>1, <1>2, SegFacts
<1> HIDE DEF e
<1>4. \/ /\ \E i \in 1..PoolSize : Used(i) /\ pool[i].seq = e.seq
         /\ pool' = pool
      \/ /\ FreeSlots # {} /\ pool' = [pool EXCEPT ![FirstOf(FreeSlots)] = e]
  BY DEF Insert, e
<1>5. At(c, f, front)'  BY <1>2 DEF At, Forwarded
\* What waited still waits, and the new range does.
<1>6. /\ \A i \in 1..PoolSize : pool'[i] = pool[i] \/ pool'[i] = e
      /\ \A h \in handled : Waits(c, h) => Waits(c, h)'
      /\ Uncut' => \E i \in 1..PoolSize : pool'[i] = e
  <2>1. CASE /\ \E i \in 1..PoolSize : Used(i) /\ pool[i].seq = e.seq
             /\ pool' = pool
    <3>1. PICK i \in 1..PoolSize : Used(i) /\ pool[i].seq = e.seq  BY <2>1
    <3>2. PICK p2 \in 0..StreamLen[c], n2 \in 0..StreamLen[c] :
            Within(c, p2, n2) /\ pool[i] = Seg(c, p2, n2) /\ Span(c, p2, n2) \in handled
      BY <1>2, <3>1 DEF OneConn
    <3>3. SeqNo(c, p2) = SeqNo(c, p)  BY <1>1, <1>3, <3>1, <3>2, SegFacts
    <3>4. p2 = p  BY <1>1, <3>3, SeqSame
    <3>5. ASSUME Uncut' PROVE pool[i] = e
      <4>1. Span(c, p2, n2) = Span(c, p, n) \/ p + n - 1 < Span(c, p2, n2).from \/ Span(c, p2, n2).to < p
        BY <1>1, <1>2, <3>2, <3>5, UncutBefore
      <4>2. Span(c, p2, n2).from = p /\ Span(c, p2, n2).to = p + n2 - 1 /\ n2 \in Nat /\ n2 > 0
        BY <1>1, <3>2, <3>4, SpanFacts, WithinNat
      <4>3. Span(c, p2, n2) = Span(c, p, n)  BY <1>1, <4>1, <4>2
      <4>4. p + n2 - 1 = p + n - 1  BY <1>1, <1>2, <4>2, <4>3, SpanFacts
      <4>5. n2 = n  BY <1>1, <4>2, <4>4
      <4> QED  BY <3>2, <3>4, <4>5 DEF e
    <3> QED  BY <2>1, <3>5 DEF Waits
  <2>2. CASE FreeSlots # {} /\ pool' = [pool EXCEPT ![FirstOf(FreeSlots)] = e]
    <3> DEFINE j == FirstOf(FreeSlots)
    <3>1. j \in FreeSlots
      <4>1. FreeSlots \in SUBSET (1..PoolSize)  BY DEF FreeSlots
      <4> QED  BY <2>2, <4>1, FirstSlot
    <3>2. j \in 1..PoolSize /\ pool[j].data = << >>  BY <3>1 DEF FreeSlots, Used
    <3>3. DOMAIN pool = 1..PoolSize  BY DEF RelayTypeOK
    <3>4. pool'[j] = e /\ \A i \in 1..PoolSize : i # j => pool'[i] = pool[i]  BY <2>2, <3>2, <3>3
    <3> HIDE DEF j
    <3>5. ASSUME NEW h \in handled, Waits(c, h) PROVE Waits(c, h)'
      <4>1. PICK i \in 1..PoolSize : pool[i] = Seg(c, h.from, h.to - h.from + 1)  BY <3>5 DEF Waits
      <4>2. Within(c, h.from, h.to - h.from + 1)  BY <1>1, <1>2, HandledFacts
      <4>3. pool[i].data # << >>  BY <1>1, <4>1, <4>2, SegFacts
      <4>4. i # j  BY <3>2, <4>3
      <4> QED  BY <3>4, <4>1, <4>4 DEF Waits
    <3> QED  BY <3>2, <3>4, <3>5
  <2> QED  BY <1>4, <2>1, <2>2
<1>7. OneConn(c)'  BY <1>1, <1>2, <1>6, OneConnMore DEF e
<1>8. Kept(c, front)'
  <2>1. SUFFICES ASSUME Uncut', NEW h \in handled'
                 PROVE  h.to < front \/ (h.from >= front /\ (rpc # "merge" => h.from > front) /\ Waits(c, h)')
    BY DEF Kept
  <2>2. CASE h = Span(c, p, n)
    <3>1. h.from = p /\ h.to - h.from + 1 = n  BY <1>1, <1>2, <2>2, SpanFacts
    <3>2. Waits(c, h)'  BY <1>6, <2>1, <3>1 DEF Waits, e
    <3> QED  BY <1>1, <3>1, <3>2
  <2>3. CASE h # Span(c, p, n)
    <3>1. h \in handled  BY <1>2, <2>3
    <3>2. Uncut  BY <1>1, <1>2, <2>1, UncutBefore
    <3>3. h.to < front \/ (h.from >= front /\ (rpc # "merge" => h.from > front) /\ Waits(c, h))
      BY ONLY <1>2, <3>1, <3>2 DEF Kept
    <3> QED  BY ONLY <1>6, <3>1, <3>3
  <2> QED  BY <2>2, <2>3
<1> QED  BY <1>1, <1>5, <1>7, <1>8 DEF Flowing

\* An event after the first one.
LEMMA LaterEvent ==
  ASSUME RelayTypeOK, started, Flowing, HandleEvent, sound'
  PROVE  started' /\ Flowing'
<1> DEFINE e == Head(kernel)
           end == (e.seq + Len(e.data)) % Mod
<1>1. PICK c \in Conns : \E f, front \in 0..StreamLen[c] : At(c, f, front) /\ OneConn(c) /\ Kept(c, front)
  BY DEF Flowing
<1>2. PICK f \in 0..StreamLen[c], front \in 0..StreamLen[c] : At(c, f, front) /\ OneConn(c) /\ Kept(c, front)
  BY <1>1
<1>3. PICK d \in Conns : \E p, n \in 0..StreamLen[d] :
           /\ Within(d, p, n) /\ e = Seg(d, p, n)
           /\ e.seq = SeqNo(d, p) /\ Extent(e) = Span(d, p, n)
           /\ end = SeqNo(d, p + n)
  BY HeadEvent DEF HandleEvent
<1>4. PICK p \in 0..StreamLen[d], n \in 0..StreamLen[d] :
           /\ Within(d, p, n) /\ e = Seg(d, p, n)
           /\ e.seq = SeqNo(d, p) /\ Extent(e) = Span(d, p, n)
           /\ end = SeqNo(d, p + n)
  BY <1>3
<1>5. /\ \/ /\ ~Gt(e.seq, expected) /\ Gt(end, expected) /\ Accept(expected, NewPart(e, expected))
            /\ started' = TRUE /\ rpc' = "merge" /\ UNCHANGED pool
         \/ /\ ~Gt(e.seq, expected) /\ ~Gt(end, expected)
            /\ UNCHANGED <<expected, rb, started, pool, rpc>>
         \/ /\ Gt(e.seq, expected) /\ Insert(e) /\ UNCHANGED <<expected, rb, rpc>>
      /\ handled' = handled \cup {Extent(e)} /\ (rpc' = "merge" => rb' # rb) /\ sent' = sent
      /\ started' /\ \A h \in handled : h.c = Extent(e).c
  BY DEF HandleEvent
<1> HIDE DEF e, end
<1>6. d = c
  <2>1. PICK h \in handled : TRUE  BY <1>2 DEF OneConn
  <2>2. h.c = c  BY <1>2, HandledFacts
  <2>3. h.c = d  BY <1>4, <1>5, SpanFacts
  <2> QED  BY <2>2, <2>3
<1>7. Coming(c, f, front, p, n)  BY <1>2, <1>4, <1>5, <1>6 DEF Coming
<1>8. /\ f \in Nat /\ front \in Nat /\ front \in 0..StreamLen[c]
      /\ p \in Nat /\ n \in Nat /\ n > 0 /\ p + n \in 0..StreamLen[c] /\ p + n \in Nat /\ p \in 0..StreamLen[c]
  BY <1>7, ComingNat
<1>9. e = Seg(c, p, n) /\ e.seq = SeqNo(c, p) /\ end = SeqNo(c, p + n) /\ expected = SeqNo(c, front)
  BY <1>2, <1>4, <1>6 DEF At
<1>10. (Gt(e.seq, expected) <=> p > front) /\ (Gt(end, expected) <=> p + n > front)  BY <1>8, <1>9, SeqGt
<1>11. CASE /\ ~Gt(e.seq, expected) /\ Gt(end, expected) /\ Accept(expected, NewPart(e, expected))
            /\ rpc' = "merge" /\ UNCHANGED pool
  <2>1. p <= front /\ front < p + n  BY <1>8, <1>10, <1>11
  <2>2. rb' # rb /\ sent' = sent /\ Accept(expected, NewPart(Seg(c, p, n), expected))  BY <1>5, <1>9, <1>11
  <2> QED  BY <1>5, <1>7, <1>11, <2>1, <2>2, Accepted
<1>12. CASE /\ ~Gt(end, expected) /\ UNCHANGED <<expected, rb, pool, rpc>>
  <2>1. p + n <= front  BY <1>8, <1>10, <1>12
  <2> QED  BY <1>5, <1>7, <1>12, <2>1, AlreadySent
<1>13. CASE /\ Gt(e.seq, expected) /\ Insert(e) /\ UNCHANGED <<expected, rb, rpc>>
  <2>1. p > front /\ Insert(Seg(c, p, n))  BY <1>9, <1>10, <1>13
  <2> QED  BY <1>5, <1>7, <1>13, <2>1, Inserted
<1> QED  BY <1>5, <1>11, <1>12, <1>13

-----------------------------------------------------------------------------
(* ooo_flush *)

\* One iteration of ooo_flush forwards the next bytes.
LEMMA MergeFlows ==
  ASSUME RelayTypeOK, Flowing, Merge, sound'
  PROVE  Flowing'
<1> DEFINE i == FirstOf(Matching)
<1>1. PICK c \in Conns : \E f, front \in 0..StreamLen[c] : At(c, f, front) /\ OneConn(c) /\ Kept(c, front)
  BY DEF Flowing
<1>2. PICK f \in 0..StreamLen[c], front \in 0..StreamLen[c] : At(c, f, front) /\ OneConn(c) /\ Kept(c, front)
  BY <1>1
<1>3. i \in 1..PoolSize /\ Used(i) /\ pool[i].seq = expected  BY MatchingSlot DEF Merge
<1>4. /\ Accept(expected, pool[i].data) /\ pool' = [pool EXCEPT ![i] = NoSeg] /\ rb' # rb
      /\ rpc = "merge" /\ rpc' = rpc /\ sent' = sent /\ handled' = handled
  BY DEF Merge
<1> HIDE DEF i
<1>5. PICK p \in 0..StreamLen[c], n \in 0..StreamLen[c] :
        Within(c, p, n) /\ pool[i] = Seg(c, p, n) /\ Span(c, p, n) \in handled
  BY <1>2, <1>3 DEF OneConn
<1>6. expected = SeqNo(c, front) /\ Forwarded = Run(c, f, front - f) /\ f < front  BY <1>2 DEF At
<1>7. pool[i].seq = SeqNo(c, p) /\ pool[i].data = Run(c, p, n)  BY <1>5, SegFacts
<1>8. p = front
  <2>1. SeqNo(c, p) = SeqNo(c, front)  BY <1>3, <1>6, <1>7
  <2> QED  BY <1>5, <2>1, SeqSame
<1>9. /\ f \in Nat /\ front \in Nat /\ n \in Nat /\ n > 0 /\ front + n \in 0..StreamLen[c] /\ front + n \in Nat
      /\ StreamLen[c] \in Nat /\ front + n <= StreamLen[c]
  <2>1. StreamLen[c] \in Nat /\ p \in Nat /\ n \in Nat /\ n > 0 /\ p + n <= StreamLen[c] /\ p + n \in 0..StreamLen[c]
    BY <1>5, WithinNat
  <2> QED  BY <1>2, <1>8, <2>1
<1> DEFINE new == Run(c, front, n)
<1>10. new \in Seq(Cells) /\ Len(new) = n  BY <1>9, RunType
<1>11. pool[i].data = new  BY <1>7, <1>8
<1> HIDE DEF new
<1>12. Contents(rb') = Contents(rb) \o new /\ expected' = (expected + n) % Mod
  BY <1>4, <1>10, <1>11, AcceptStores DEF RelayTypeOK
<1>13. At(c, f, front + n)'
  <2>1. expected' = SeqNo(c, front + n)  BY <1>6, <1>9, <1>12, SeqAdd
  <2>2. Forwarded' = Forwarded \o new
    <3> DEFINE v == Contents(rb)
    <3>1. sent \in Seq(Cells) /\ v \in Seq(Cells)  BY ContentsType DEF RelayTypeOK
    <3>2. Forwarded' = sent \o (v \o new) /\ Forwarded = sent \o v  BY <1>4, <1>12 DEF Forwarded
    <3> HIDE DEF v
    <3>3. (sent \o v) \o new = sent \o (v \o new)  BY ONLY <1>10, <3>1
    <3> QED  BY <3>2, <3>3
  <2>3. Run(c, f, front - f) \o new = Run(c, f, (front + n) - f)
    <3> DEFINE a == front - f
    <3>1. a \in Nat /\ f + a = front /\ a + n = (front + n) - f  BY <1>6, <1>9
    <3> HIDE DEF a
    <3>2. f \in Nat /\ n \in Nat  BY <1>9
    <3>3. Run(c, f, a) \o Run(c, f + a, n) = Run(c, f, a + n)  BY <3>1, <3>2, RunCat, Zenon
    <3> QED  BY <3>1, <3>3 DEF a, new
  <2>4. f < front + n  BY <1>6, <1>9
  <2> QED  BY <1>6, <1>9, <2>1, <2>2, <2>3, <2>4 DEF At
<1>14. DOMAIN pool = 1..PoolSize  BY DEF RelayTypeOK
<1>15. pool'[i] = NoSeg /\ \A j \in 1..PoolSize : j # i => pool'[j] = pool[j]  BY <1>3, <1>4, <1>14
<1>16. OneConn(c)'
  <2>1. \A j \in 1..PoolSize : Used(j)' => Used(j) /\ pool'[j] = pool[j]  BY <1>15 DEF Used, NoSeg
  <2> QED  BY <1>2, <1>4, <2>1 DEF OneConn
<1>17. Kept(c, front + n)'
  <2>1. SUFFICES ASSUME Uncut', NEW h \in handled
                 PROVE  h.to < front + n \/ (h.from >= front + n /\ Waits(c, h)')
    BY <1>4 DEF Kept
  <2>2. Uncut  BY <1>4, <2>1 DEF Uncut
  <2>3. h.c = c /\ h.from \in Nat /\ h.to \in Nat /\ h.from <= h.to
        /\ Within(c, h.from, h.to - h.from + 1)
    BY <1>2, HandledFacts
  <2>4. Span(c, p, n).c = c /\ Span(c, p, n).from = front /\ Span(c, p, n).to = front + n - 1
    BY <1>5, <1>8, SpanFacts
  <2>5. h = Span(c, p, n) \/ h.to < front \/ front + n - 1 < h.from
    BY <1>5, <2>2, <2>3, <2>4 DEF Uncut
  <2>6. h.to < front \/ Waits(c, h)  BY <1>2, <2>2 DEF Kept
  <2>7. CASE front + n - 1 < h.from
    <3>1. h.from >= front + n /\ h.from # front /\ h.from > front  BY <1>9, <2>3, <2>7
    <3>2. ~(h.to < front)  BY <1>9, <2>3, <3>1
    <3>3. PICK j \in 1..PoolSize : pool[j] = Seg(c, h.from, h.to - h.from + 1)  BY <2>6, <3>2 DEF Waits
    <3>4. j # i
      <4>1. SUFFICES ASSUME j = i PROVE FALSE  OBVIOUS
      <4>2. pool[i].seq = SeqNo(c, h.from)  BY <2>3, <3>3, <4>1, SegFacts
      <4>3. SeqNo(c, h.from) = SeqNo(c, front)  BY <1>3, <1>6, <4>2
      <4>4. h.from \in 0..StreamLen[c]  BY <2>3, WithinNat
      <4>5. h.from = front  BY <1>2, <4>3, <4>4, SeqSame
      <4> QED  BY <3>1, <4>5
    <3>5. Waits(c, h)'  BY <1>15, <3>3, <3>4 DEF Waits
    <3> QED  BY <3>1, <3>5
  <2>8. CASE h = Span(c, p, n)
    <3>1. h.to = front + n - 1  BY <2>4, <2>8
    <3> QED  BY <1>9, <3>1
  <2>9. CASE h.to < front
    <3>1. h.to < front + n  BY <1>9, <2>3, <2>9
    <3> QED  BY <3>1
  <2> QED  BY <2>5, <2>7, <2>8, <2>9
<1> QED  BY <1>9, <1>13, <1>16, <1>17 DEF Flowing

\* When ooo_flush is through, nothing in the pool continues the stream.
LEMMA MergeEndsFlows ==
  ASSUME Flowing, MergeEnds
  PROVE  Flowing'
<1>1. PICK c \in Conns : \E f, front \in 0..StreamLen[c] : At(c, f, front) /\ OneConn(c) /\ Kept(c, front)
  BY DEF Flowing
<1>2. PICK f \in 0..StreamLen[c], front \in 0..StreamLen[c] : At(c, f, front) /\ OneConn(c) /\ Kept(c, front)
  BY <1>1
<1>3. Matching = {} /\ expected' = expected /\ pool' = pool /\ rb' = rb /\ sent' = sent /\ handled' = handled
  BY DEF MergeEnds, Merged, relayGhosts
<1>4. At(c, f, front)' /\ OneConn(c)'  BY <1>2, <1>3 DEF At, OneConn, Forwarded, Used
<1>5. Kept(c, front)'
  <2>1. SUFFICES ASSUME Uncut', NEW h \in handled
                 PROVE  h.to < front \/ (h.from >= front /\ h.from > front /\ Waits(c, h)')
    BY <1>3 DEF Kept
  <2>2. Uncut  BY <1>3, <2>1 DEF Uncut
  <2>3. h.to < front \/ (h.from >= front /\ Waits(c, h))  BY <1>2, <2>2 DEF Kept
  <2>4. CASE h.from >= front /\ Waits(c, h)
    <3>1. h.from \in Nat /\ Within(c, h.from, h.to - h.from + 1)  BY <1>2, HandledFacts
    <3>2. PICK i \in 1..PoolSize : pool[i] = Seg(c, h.from, h.to - h.from + 1)  BY <2>4 DEF Waits
    <3>3. pool[i].seq = SeqNo(c, h.from) /\ Used(i)  BY <3>1, <3>2, SegFacts DEF Used
    <3>4. h.from # front
      <4>1. SUFFICES ASSUME h.from = front PROVE FALSE  OBVIOUS
      <4>2. pool[i].seq = expected  BY <1>2, <3>3, <4>1 DEF At
      <4> QED  BY <1>3, <3>3, <4>2 DEF Matching
    <3>5. h.from > front
      <4>1. StreamLen[c] \in Nat  BY ConnFacts
      <4>2. front \in Nat  BY <1>2, <4>1
      <4> QED  BY <2>4, <3>1, <3>4, <4>2
    <3>6. Waits(c, h)'  BY <1>3, <2>4 DEF Waits
    <3> QED  BY <2>4, <3>5, <3>6
  <2> QED  BY <2>3, <2>4
<1> QED  BY <1>2, <1>4, <1>5 DEF Flowing

-----------------------------------------------------------------------------
(* flush_all, and the invariant *)

\* Steps that neither forward nor store.
LEMMA QuietFlows ==
  ASSUME Flowing, UNCHANGED <<expected, pool, handled>>, Forwarded' = Forwarded,
         rpc' # "merge" => rpc # "merge"
  PROVE  Flowing'
<1>1. \A c : OneConn(c) => OneConn(c)'  BY DEF OneConn, Used
<1>2. \A c, f, front : At(c, f, front) => At(c, f, front)'  BY DEF At
<1>3. \A c, front : Kept(c, front) => Kept(c, front)'  BY DEF Kept, Waits, Uncut
<1> QED  BY <1>1, <1>2, <1>3 DEF Flowing

\* Sending moves bytes from the ring to the slave.
LEMMA SendKeeps ==
  ASSUME RelayTypeOK, NEW n \in Nat, SendSome(n)
  PROVE  IsRing(rb') /\ sent' \in Seq(Cells) /\ Forwarded' = Forwarded /\ n <= rb.bytes
<1>1. IsRing(rb) /\ sent \in Seq(Cells) /\ rb.bytes \in Nat  BY DEF RelayTypeOK, IsRing
<1>2. Available \in Nat /\ Available <= rb.bytes  BY <1>1, AvailableBytes
<1>3. n <= rb.bytes  BY <1>1, <1>2 DEF SendSome
<1> DEFINE u == Contents(rb)
           q == Without(rb, n)
           v == SubSeq(u, 1, n)
           w == Contents(q)
<1>4. rb' = q  BY DEF SendSome, Without
<1>5. sent' = sent \o v  BY DEF SendSome
<1>6. IsRing(q) /\ u = v \o w  BY <1>1, <1>3, RingSend
<1>7. u \in Seq(Cells) /\ w \in Seq(Cells) /\ Len(u) = rb.bytes  BY <1>1, <1>6, ContentsType
<1>8. Forwarded = sent \o u /\ Forwarded' = sent' \o w  BY <1>4 DEF Forwarded
<1> HIDE DEF u, q, w
<1>9. v \in Seq(Cells)  BY <1>1, <1>3, <1>7
<1> HIDE DEF v
<1>10. sent \o v \in Seq(Cells)  BY <1>1, <1>9
<1>11. (sent \o v) \o w = sent \o (v \o w)
  <2>1. sent \in Seq(Cells) /\ v \in Seq(Cells) /\ w \in Seq(Cells)  BY <1>1, <1>7, <1>9
  <2> QED  BY ONLY <2>1
<1> QED  BY <1>3, <1>4, <1>5, <1>6, <1>8, <1>10, <1>11

\* A relay that has seen nothing.
LEMMA RelayInvInit ==
  ASSUME RelayInit
  PROVE  RelayInv
<1>1. RingSize \in Nat \ {0}  BY RelayAssumption
<1>2. IsRing(rb)
  <2> DEFINE bf == [i \in 0..(RingSize - 1) |-> NoByte]
  <2>1. rb = [buf |-> bf, size |-> RingSize, head |-> 0, tail |-> 0, bytes |-> 0]  BY DEF RelayInit, EmptyRing
  <2>2. DOMAIN bf = 0..(RingSize - 1) /\ \A i \in 0..(RingSize - 1) : bf[i] \in Cells  BY DEF Cells
  <2> HIDE DEF bf
  <2>3. rb.buf = bf /\ rb.size = RingSize /\ rb.head = 0 /\ rb.tail = 0 /\ rb.bytes = 0  BY <2>1
  <2>4. (0 + 0) % RingSize = 0
    <3>1. 0 + 0 = RingSize * 0 + 0 /\ 0 < RingSize /\ 0 + 0 \in Int  BY <1>1
    <3> QED  BY <1>1, <3>1, Remainder
  <2>5. 0 \in 0..(RingSize - 1) /\ 0 \in 0..RingSize  BY <1>1
  <2> QED  BY <1>1, <2>1, <2>2, <2>3, <2>4, <2>5 DEF IsRing
<1>3. rb.bytes = 0  BY DEF RelayInit, EmptyRing
<1>4. DOMAIN pool = 1..PoolSize /\ \A i \in 1..PoolSize : ~Used(i)  BY DEF RelayInit, Used, NoSeg
<1>5. kernel \in Seq(Segments) /\ sent \in Seq(Cells) /\ rpc = "poll" /\ started = FALSE /\ sound = TRUE
      /\ expected = 0 /\ handled = {} /\ sent = << >>
  BY DEF RelayInit
<1>6. RelayTypeOK  BY <1>2, <1>4, <1>5 DEF RelayTypeOK
<1>7. Fresh  BY <1>3, <1>4, <1>5 DEF Fresh
<1> QED  BY <1>5, <1>6, <1>7 DEF RelayInv

\* Every step keeps the invariant.
LEMMA RelayInvNext ==
  ASSUME RelayInv, [RelayNext]_relayVars
  PROVE  RelayInv'
<1>1. RelayTypeOK /\ (sound => IF started THEN Flowing ELSE Fresh)  BY DEF RelayInv
\* A step that moves no byte and takes no event.
<1>2. ASSUME UNCHANGED <<expected, started, pool, rb, sent, handled, sound>>,
             kernel' \in Seq(Segments), rpc' \in {"poll", "merge", "flush", "done"},
             rpc' # "merge" => rpc # "merge", rpc' = "merge" => rpc = "merge"
      PROVE  RelayInv'
  <2>1. RelayTypeOK'  BY <1>1, <1>2 DEF RelayTypeOK, Used
  <2>2. Forwarded' = Forwarded  BY <1>2 DEF Forwarded
  <2>3. Flowing => Flowing'  BY <1>2, <2>2, QuietFlows
  <2>4. Fresh => Fresh'  BY <1>2 DEF Fresh, Used
  <2> QED  BY <1>1, <1>2, <2>1, <2>3, <2>4 DEF RelayInv
<1>3. kernel \in Seq(Segments) /\ rpc \in {"poll", "merge", "flush", "done"}  BY <1>1 DEF RelayTypeOK
<1>4. CASE Arrival
  <2>1. PICK c \in Conns, n \in SegLens : \E p \in 0..(StreamLen[c] - n) : Arrives(c, p, n)  BY <1>4 DEF Arrival
  <2>2. PICK p \in 0..(StreamLen[c] - n) : Arrives(c, p, n)  BY <2>1
  <2>3. Event(c, p, n) \in Segments  BY EventSegment
  <2>4. kernel' = Append(kernel, Event(c, p, n)) /\ UNCHANGED <<rpc, expected, started, pool, rb, sent, handled, sound>>
    BY <2>2 DEF Arrives
  <2>5. kernel' \in Seq(Segments)  BY <1>3, <2>3, <2>4
  <2> QED  BY <1>2, <1>3, <2>4, <2>5
<1>5. CASE HandleEvent
  <2>1. RelayTypeOK'  BY <1>1, <1>5, HandleTypes
  <2>2. sound' => sound  BY <1>5 DEF HandleEvent
  <2>3. ASSUME sound' PROVE started' /\ Flowing'
    <3>1. CASE started  BY <1>1, <1>5, <2>2, <2>3, <3>1, LaterEvent
    <3>2. CASE ~started  BY <1>1, <1>5, <2>2, <2>3, <3>2, FirstEvent
    <3> QED  BY <3>1, <3>2
  <2> QED  BY <2>1, <2>3 DEF RelayInv
<1>6. CASE Merge
  <2>1. RelayTypeOK'  BY <1>1, <1>6, MergeTypes
  <2>2. (sound' => sound) /\ rpc = "merge" /\ started' = started  BY <1>6 DEF Merge
  <2>3. ASSUME sound' PROVE started' /\ Flowing'
    <3>1. started /\ Flowing  BY <1>1, <2>2, <2>3 DEF Fresh
    <3> QED  BY <1>1, <1>6, <2>2, <2>3, <3>1, MergeFlows
  <2> QED  BY <2>1, <2>3 DEF RelayInv
<1>7. CASE MergeEnds
  <2>1. rpc = "merge" /\ rpc' = "poll" /\ UNCHANGED <<kernel, expected, started, pool, rb, sent, handled, sound>>
    BY <1>7 DEF MergeEnds, Merged, relayGhosts
  <2>2. RelayTypeOK'  BY <1>1, <2>1 DEF RelayTypeOK, Used
  <2>3. ASSUME sound' PROVE started' /\ Flowing'
    <3>1. started /\ Flowing  BY <1>1, <2>1, <2>3 DEF Fresh
    <3> QED  BY <1>7, <2>1, <3>1, MergeEndsFlows
  <2> QED  BY <2>2, <2>3 DEF RelayInv
<1>8. CASE PollEnds
  <2>1. rpc = "poll" /\ rpc' = "flush" /\ UNCHANGED <<kernel, expected, started, pool, rb, sent, handled, sound>>
    BY <1>8 DEF PollEnds, relayGhosts
  <2> QED  BY <1>2, <1>3, <2>1
<1>9. CASE FlushEnds
  <2>1. rpc = "flush" /\ rpc' \in {"poll", "done"} /\ UNCHANGED <<kernel, expected, started, pool, rb, sent, handled, sound>>
    BY <1>9 DEF FlushEnds, relayGhosts
  <2> QED  BY <1>2, <1>3, <2>1
<1>10. CASE Stops
  <2>1. UNCHANGED <<rpc, kernel, expected, started, pool, rb, sent, handled, sound>>
    BY <1>10 DEF Stops, relayGhosts
  <2> QED  BY <1>2, <1>3, <2>1
<1>11. CASE Sends
  <2>1. PICK n \in 1..(RingSize * 8) : SendSome(n)  BY <1>11 DEF Sends
  <2>2. n \in Nat /\ n > 0
    <3>1. RingSize * 8 \in Nat  BY RelayAssumption
    <3> QED  BY <3>1
  <2>3. IsRing(rb') /\ sent' \in Seq(Cells) /\ Forwarded' = Forwarded /\ n <= rb.bytes
    BY <1>1, <2>1, <2>2, SendKeeps
  <2>4. UNCHANGED <<kernel, rpc, expected, started, pool, handled, sound>>
    BY <2>1 DEF SendSome, relayGhosts
  <2>5. RelayTypeOK'  BY <1>1, <2>3, <2>4 DEF RelayTypeOK, Used
  <2>6. Flowing => Flowing'  BY <2>3, <2>4, QuietFlows
  <2>7. ~Fresh  BY <2>2, <2>3 DEF Fresh
  <2> QED  BY <1>1, <2>4, <2>5, <2>6, <2>7 DEF RelayInv
<1>12. CASE UNCHANGED relayVars
  <2>1. UNCHANGED <<rpc, kernel, expected, started, pool, rb, sent, handled, sound>>
    BY <1>12 DEF relayVars, relayGhosts
  <2> QED  BY <1>2, <1>3, <2>1
<1> QED  BY <1>4, <1>5, <1>6, <1>7, <1>8, <1>9, <1>10, <1>11, <1>12 DEF RelayNext, RelayStep

\* RelayInv holds in every reachable state.
THEOREM RelayInvariant == RelaySpec => []RelayInv
<1>1. RelayInit => RelayInv  BY RelayInvInit
<1>2. RelayInv /\ [RelayNext]_relayVars => RelayInv'  BY RelayInvNext
<1> QED  BY <1>1, <1>2, PTL DEF RelaySpec

\* What is forwarded is then a part of the stream, without gap or repetition.
LEMMA FlowingForwards ==
  ASSUME Flowing
  PROVE  ForwardsTheStream
<1>1. PICK c \in Conns : \E f, front \in 0..StreamLen[c] : At(c, f, front) /\ OneConn(c) /\ Kept(c, front)
  BY DEF Flowing
<1>2. PICK f \in 0..StreamLen[c], front \in 0..StreamLen[c] : At(c, f, front)  BY <1>1
<1>3. f \in Nat /\ front \in Nat /\ f < front /\ Forwarded = Run(c, f, front - f) /\ expected = SeqNo(c, front)
  BY <1>2, ConnFacts DEF At
<1>4. front - f \in Nat /\ 1 \in 1..(front - f) /\ f + 1 - 1 = f /\ Isn[c] + f + (front - f) = Isn[c] + front
  BY <1>3, ConnFacts
<1>5. Len(Forwarded) = front - f /\ Forwarded[1] = <<c, f>>
  <2> DEFINE m == front - f
  <2>1. m \in Nat /\ 1 \in 1..m /\ Forwarded = Run(c, f, m)  BY <1>3, <1>4
  <2> HIDE DEF m, Forwarded
  <2>2. Len(Run(c, f, m)) = m /\ Run(c, f, m)[1] = <<c, f + 1 - 1>>  BY <1>3, <2>1, RunType
  <2> QED  BY <1>4, <2>1, <2>2 DEF m
<1>6. Forwarded[1][1] = c /\ Forwarded[1][2] = f  BY <1>5
<1>7. Forwarded = [i \in 1..Len(Forwarded) |-> <<c, f + i - 1>>]  BY <1>3, <1>5 DEF Run
<1>8. expected = (Isn[c] + f + Len(Forwarded)) % Mod  BY <1>3, <1>4, <1>5 DEF SeqNo
<1> HIDE DEF Forwarded
<1> QED  BY <1>6, <1>7, <1>8 DEF ForwardsTheStream

\* The bytes sent and waiting in the ring are consecutive bytes of the stream
\* up to expected_seq (ForwardsTheStream).
THEOREM RelayForwards == RelaySpec => []ForwardsTheStream
<1>1. RelayInv => ForwardsTheStream  BY FlowingForwards DEF RelayInv, ForwardsTheStream
<1> QED  BY <1>1, RelayInvariant, PTL

\* And whatever was seen is forwarded, or waits in the pool.
LEMMA FlowingKeeps ==
  ASSUME RelayTypeOK, Flowing
  PROVE  NothingSeenIsLost
<1>1. PICK c \in Conns : \E f, front \in 0..StreamLen[c] : At(c, f, front) /\ OneConn(c) /\ Kept(c, front)
  BY DEF Flowing
<1>2. PICK f \in 0..StreamLen[c], front \in 0..StreamLen[c] : At(c, f, front) /\ OneConn(c) /\ Kept(c, front)
  BY <1>1
<1>3. f \in Nat /\ front \in Nat /\ f < front /\ Forwarded = Run(c, f, front - f) /\ expected = SeqNo(c, front)
  BY <1>2, ConnFacts DEF At
<1>4. front - f \in Nat /\ 1 \in 1..(front - f) /\ f + 1 - 1 = f /\ f + (front - f) = front  BY <1>3
<1>5. Len(Forwarded) = front - f /\ Forwarded[1] = <<c, f>>
  <2> DEFINE m == front - f
  <2>1. m \in Nat /\ 1 \in 1..m /\ Forwarded = Run(c, f, m)  BY <1>3, <1>4
  <2> HIDE DEF m, Forwarded
  <2>2. Len(Run(c, f, m)) = m /\ Run(c, f, m)[1] = <<c, f + 1 - 1>>  BY <1>3, <2>1, RunType
  <2> QED  BY <1>4, <2>1, <2>2 DEF m
<1>6. Forwarded[1][2] + Len(Forwarded) = front  BY <1>4, <1>5
<1> HIDE DEF Forwarded
<1>7. SUFFICES ASSUME rpc # "merge", Uncut, NEW h \in handled, NEW p \in h.from..h.to, ~(p < front)
               PROVE  \E i \in 1..PoolSize :
                        /\ Used(i) /\ Gt(pool[i].seq, expected)
                        /\ \E k \in 1..Len(pool[i].data) : pool[i].data[k] = <<h.c, p>>
  BY <1>6 DEF NothingSeenIsLost
<1>8. h.c = c /\ h.from \in Nat /\ h.to \in Nat /\ h.from <= h.to /\ Within(c, h.from, h.to - h.from + 1)
  BY <1>2, HandledFacts
<1> DEFINE n == h.to - h.from + 1
<1>9. ~(h.to < front)  BY <1>3, <1>7, <1>8
<1>10. h.from > front /\ Waits(c, h)  BY <1>2, <1>7, <1>9 DEF Kept
<1>11. PICK i \in 1..PoolSize : pool[i] = Seg(c, h.from, n)  BY <1>10 DEF Waits
<1>12. pool[i].seq = SeqNo(c, h.from) /\ pool[i].data = Run(c, h.from, n) /\ Used(i) /\ n \in Nat
  BY <1>8, <1>11, SegFacts, WithinNat DEF Used
<1>13. Gt(pool[i].seq, expected)
  <2>1. h.from \in 0..StreamLen[c]  BY <1>8, WithinNat
  <2> QED  BY <1>3, <1>10, <1>12, <2>1, SeqGt
<1>14. p - h.from + 1 \in 1..n /\ h.from + (p - h.from + 1) - 1 = p  BY <1>7, <1>8
<1> HIDE DEF n
<1>15. Len(pool[i].data) = n /\ pool[i].data[p - h.from + 1] = <<c, p>>
  <2> DEFINE k == p - h.from + 1
  <2>1. k \in 1..n /\ h.from + k - 1 = p  BY <1>14
  <2> HIDE DEF k
  <2>2. Len(Run(c, h.from, n)) = n /\ Run(c, h.from, n)[k] = <<c, h.from + k - 1>>
    <3>1. h.from \in Nat /\ n \in Nat  BY <1>8, <1>12
    <3> QED  BY ONLY c \in Conns, <2>1, <3>1, RunType
  <2> QED  BY <1>12, <2>1, <2>2 DEF k
<1> QED  BY <1>8, <1>12, <1>13, <1>14, <1>15

\* What the relay has seen is forwarded or waits in the pool ahead of
\* expected_seq (NothingSeenIsLost).
THEOREM RelayLosesNothing == RelaySpec => []NothingSeenIsLost
<1>1. RelayInv => NothingSeenIsLost  BY FlowingKeeps DEF RelayInv, NothingSeenIsLost
<1> QED  BY <1>1, RelayInvariant, PTL
=============================================================================
