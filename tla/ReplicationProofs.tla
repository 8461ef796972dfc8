-------------------------- MODULE ReplicationProofs --------------------------
(* Proofs about Replication, for backlogs of every size. *)
EXTENDS Replication, SequenceTheorems, TLAPS

\* The master has handled this connection's SYNC.
Synced == up /\ toMaster # <<"SYNC">>

\* Where a session stands: what SYNC, the file and SYNC_DONE imply of each
\* other, and of the ring when the session began with an empty one.
Session ==
  /\ up => toMaster \in {<<"SYNC">>, << >>, <<"SYNC_DONE">>}
  /\ (slave = "off") <=> ~up
  /\ (up /\ ~Synced) =>
       /\ slave \in {"waiting", "broken"}
       /\ \A i \in 1..Len(toSlave) : toSlave[i].part # 0
  /\ Synced => slaveFd = "slave" /\ (fileDone \/ enabled)
  /\ (Synced /\ slave = "waiting") => toMaster = << >> /\ toSlave # << >>
  /\ clean => tail = SlotOf(count + 1)

\* A session that began with an empty backlog, from SYNC on.
Live ==
  /\ clean /\ Synced
  /\ \/ slave = "streaming"
     \/ slave = "waiting" /\ toSlave[1].part = 0

\* The positions on the wire behind the file.
First == IF slave = "waiting" THEN 2 ELSE 1
WireLen == Len(toSlave)
WireIdx == First..WireLen
P(i) == toSlave[i]

\* What the slave has replayed, or will when it has the file.
Done(c) ==
  IF slave = "waiting" THEN c \in 1..toSlave[1].cmd
                       ELSE \E i \in 1..Len(got) : got[i] = c

\* The slave replayed in the master's order.
GotOrder ==
  slave = "streaming" =>
    /\ \A i \in 1..Len(got) : got[i] \in 1..executed
    /\ \A i, j \in 1..Len(got) : i < j => got[i] < got[j]
FileSize == slave = "waiting" => toSlave[1].cmd \in 0..executed

\* The wire carries whole commands in order, the last one perhaps not whole.
WireShape ==
  /\ \A i \in WireIdx : P(i).part \in {1, 2} /\ P(i).cmd \in 1..executed
  /\ \A i \in WireIdx : P(i).part = 2 =>
       i - 1 \in WireIdx /\ P(i - 1).part = 1 /\ P(i - 1).cmd = P(i).cmd
  /\ \A i \in WireIdx : (P(i).part = 1 /\ i < WireLen) =>
       P(i + 1).part = 2 /\ P(i + 1).cmd = P(i).cmd
WireOrder ==
  \A i, j \in WireIdx : i < j =>
     P(i).cmd <= P(j).cmd /\ (P(i).part = 2 => P(i).cmd < P(j).cmd)
WireAfterDone ==
  \A c \in 1..executed, i \in WireIdx : Done(c) => c < P(i).cmd

\* The ring holds commands in order; only its first may be partly sent.
RingShape ==
  /\ \A k \in 1..count : Node(k).cmd \in 1..executed
  /\ \A k \in 1..count : Node(k).left = 2 \/ (k = 1 /\ Node(k).left = 1)
RingOrder == \A k, l \in 1..count : k < l => Node(k).cmd < Node(l).cmd
RingAfterDone ==
  \A c \in 1..executed, k \in 1..count : Done(c) => c < Node(k).cmd
RingAfterWire ==
  \A i \in WireIdx, k \in 1..count :
     P(i).cmd <= Node(k).cmd /\ (P(i).part = 2 => P(i).cmd < Node(k).cmd)

\* The command cut in two: its first half is the end of the wire, the second
\* half the head of the ring.
Cut ==
  /\ (First <= WireLen /\ P(WireLen).part = 1) =>
       count > 0 /\ Node(1).left = 1 /\ Node(1).cmd = P(WireLen).cmd
  /\ (count > 0 /\ Node(1).left = 1) => First <= WireLen /\ P(WireLen).part = 1

\* Every command is somewhere.
Somewhere(c) ==
  \/ Done(c) \/ c \in missed
  \/ \E i \in WireIdx : P(i).part = 2 /\ P(i).cmd = c
  \/ \E k \in 1..count : Node(k).cmd = c
Covered == \A c \in 1..executed : Somewhere(c)

Stream == /\ GotOrder /\ FileSize /\ WireShape /\ WireOrder /\ WireAfterDone
          /\ RingShape /\ RingOrder /\ RingAfterDone /\ RingAfterWire /\ Cut /\ Covered

IInv == TypeOK /\ Session /\ (Live => Stream)

-----------------------------------------------------------------------------
(* Helpers *)

\* The parts a node still has are the last ones of its command.
LEMMA PartsFacts ==
  ASSUME NEW n \in Nodes
  PROVE  /\ Parts(n) \in Seq(PartSet) /\ Len(Parts(n)) = n.left
         /\ \A i \in 1..n.left : Parts(n)[i].cmd = n.cmd /\ Parts(n)[i].part = i + 2 - n.left
<1>1. n.left \in 0..2 /\ n.cmd \in Nat
  BY DEF Nodes
<1>2. Parts(n) \in [1..n.left -> PartSet]
  BY <1>1 DEF Parts, PartSet
<1>3. Parts(n) \in Seq(PartSet) /\ Len(Parts(n)) = n.left
  BY <1>1, <1>2
<1>4. ASSUME NEW i \in 1..n.left
      PROVE  Parts(n)[i].cmd = n.cmd /\ Parts(n)[i].part = i + 2 - n.left
  <2>1. Parts(n)[i] = [cmd |-> n.cmd, part |-> i + 2 - n.left]
    BY DEF Parts
  <2> QED BY <2>1
<1> QED BY <1>3, <1>4

\* Slots of the backlog are slots of the ring, each node has its own, and the
\* one behind the last is free.
LEMMA SlotFacts ==
  ASSUME TypeOK
  PROVE  /\ \A k \in 1..(count + 1) : SlotOf(k) \in Slots
         /\ \A k, l \in 1..(count + 1) : (k < l /\ SlotOf(k) = SlotOf(l)) => k = 1 /\ l = B + 1
         /\ SlotOf(1) = head
BY ReplAssumption DEF TypeOK, Slots, SlotOf

-----------------------------------------------------------------------------
(* Types *)

\* The initial states have their types.
LEMMA InitTypes == Init => TypeOK
<1> SUFFICES ASSUME Init PROVE TypeOK
  OBVIOUS
<1>1. ring \in [Slots -> Nodes] /\ 0 \in Slots
  BY ReplAssumption DEF Init, Slots, Nodes, NoNode
<1>2. toMaster \in Seq({"SYNC", "SYNC_DONE"}) /\ toSlave \in Seq(PartSet) /\ got \in Seq(Nat)
  BY DEF Init
<1> QED BY <1>1, <1>2, ReplAssumption DEF Init, TypeOK, SlaveFds

\* Each action keeps the types; indices and count stay within the ring.
LEMMA StepTypes == TypeOK /\ [Next]_vars => TypeOK'
<1> SUFFICES ASSUME TypeOK, [Next]_vars PROVE TypeOK'
  OBVIOUS
<1> USE ReplAssumption
<1>a. \A i \in Slots : After(i) \in Slots
  BY DEF After, Slots
<1>1. CASE Execute
  <2>1. executed' \in Nat /\ filed' \in 0..executed'
    BY <1>1 DEF Execute, TypeOK
  <2>2. [cmd |-> executed + 1, left |-> 2] \in Nodes
    BY DEF TypeOK, Nodes
  <2>3. ring' \in [Slots -> Nodes] /\ tail' \in Slots
    BY <1>1, <1>a, <2>2 DEF Execute, TypeOK
  <2>4. count' \in 0..B
    BY <1>1 DEF Execute, TypeOK, BacklogFull
  <2>5. missed' \subseteq Nat
    BY <1>1 DEF Execute, TypeOK
  <2> QED BY <1>1, <2>1, <2>3, <2>4, <2>5 DEF Execute, TypeOK, linkVars
<1>2. CASE FileGrows
  BY <1>2 DEF FileGrows, TypeOK, ringVars, linkVars, ghosts
<1>3. CASE HandleSync
  <2>1. FileMsg(filed) \in PartSet
    BY DEF FileMsg, PartSet, TypeOK
  <2>2. toMaster' \in Seq({"SYNC", "SYNC_DONE"}) /\ toSlave' \in Seq(PartSet)
    BY <1>3, <2>1 DEF HandleSync, TypeOK
  <2>3. missed' \subseteq Nat /\ clean' \in BOOLEAN /\ slaveFd' \in SlaveFds
    BY <1>3 DEF HandleSync, TypeOK, SlaveFds
  <2> QED BY <1>3, <2>2, <2>3 DEF HandleSync, TypeOK
<1>4. CASE HandleSyncDone
  <2>1. toMaster' \in Seq({"SYNC", "SYNC_DONE"})
    BY <1>4 DEF HandleSyncDone, TypeOK
  <2> QED BY <1>4, <2>1 DEF HandleSyncDone, TypeOK, ringVars, ghosts
<1>5. CASE SendWhole
  <2>1. ring[head] \in Nodes
    BY DEF TypeOK
  <2>2. toSlave' \in Seq(PartSet)
    BY <1>5, <2>1, PartsFacts DEF SendWhole, TypeOK
  <2>3. head' \in Slots /\ count' \in 0..B
    BY <1>5, <1>a DEF SendWhole, Sending, HeadAfterSend, TypeOK
  <2> QED BY <1>5, <2>2, <2>3 DEF SendWhole, TypeOK, masterVars, ghosts
<1>6. CASE SendPart
  <2>1. ring[head] \in Nodes /\ ring[head].left = 2
    BY <1>6 DEF TypeOK, SendPart
  <2>2. Head(Parts(ring[head])) \in PartSet
    BY <2>1, PartsFacts
  <2>3. toSlave' \in Seq(PartSet)
    BY <1>6, <2>2 DEF SendPart, TypeOK
  <2>4. [ring[head] EXCEPT !.left = 1] \in Nodes
    BY <2>1 DEF Nodes
  <2>5. ring' \in [Slots -> Nodes]
    BY <1>6, <2>4 DEF SendPart, TypeOK
  <2> QED BY <1>6, <2>3, <2>5 DEF SendPart, TypeOK, masterVars, ghosts
<1>7. CASE SendFails \/ MasterCloses \/ NumberReused \/ ClientLeaves
  BY <1>7 DEF SendFails, MasterCloses, NumberReused, ClientLeaves, TypeOK, SlaveFds,
              ringVars, linkVars, ghosts
<1>8. CASE LinkBreaks
  <2>1. toMaster' \in Seq({"SYNC", "SYNC_DONE"}) /\ toSlave' \in Seq(PartSet)
    BY <1>8 DEF LinkBreaks
  <2>2. slaveFd' \in SlaveFds
    BY <1>8 DEF LinkBreaks, TypeOK, SlaveFds
  <2> QED BY <1>8, <2>1, <2>2 DEF LinkBreaks, TypeOK, ringVars, ghosts
<1>9. CASE SlaveStarts
  <2>1. slaveFd' \in SlaveFds
    BY <1>9 DEF SlaveStarts, TypeOK, SlaveFds
  <2> QED BY <1>9, <2>1 DEF SlaveStarts, TypeOK, ringVars
<1>10. CASE SlaveReceivesFile
  <2>1. Head(toSlave) \in PartSet
    BY <1>10 DEF SlaveReceivesFile, TypeOK
  <2>2. Head(toSlave).cmd \in Nat
    BY <2>1 DEF PartSet
  <2>3. toSlave' \in Seq(PartSet) /\ toMaster' \in Seq({"SYNC", "SYNC_DONE"})
    <3>1. toSlave \in Seq(PartSet) /\ toSlave # << >> /\ toMaster \in Seq({"SYNC", "SYNC_DONE"})
      BY <1>10 DEF SlaveReceivesFile, TypeOK
    <3>2. Tail(toSlave) \in Seq(PartSet) /\ Append(toMaster, "SYNC_DONE") \in Seq({"SYNC", "SYNC_DONE"})
      BY <3>1
    <3> QED BY <1>10, <3>1, <3>2 DEF SlaveReceivesFile
  <2>4. ASSUME NEW n \in Nat PROVE [i \in 1..n |-> i] \in Seq(Nat)
    <3>1. [i \in 1..n |-> i] \in [1..n -> Nat]
      OBVIOUS
    <3> QED BY <3>1
  <2>5. got' \in Seq(Nat)
    BY <1>10, <2>2, <2>4 DEF SlaveReceivesFile, TypeOK
  <2> QED BY <1>10, <2>3, <2>5 DEF SlaveReceivesFile, TypeOK, masterVars, ringVars, ghosts
<1>s. CASE SlaveStoreFails
  <2>1. /\ toSlave \in Seq(PartSet) /\ toSlave # << >> /\ Head(toSlave) \in PartSet
        /\ Tail(toSlave) \in Seq(PartSet)
    BY <1>s DEF SlaveStoreFails, TypeOK
  <2>2. Head(toSlave).cmd \in Nat
    BY <2>1 DEF PartSet
  <2>3. PICK lost \in 1..Head(toSlave).cmd :
          \/ /\ slave' = "streaming" /\ missed' = missed \cup 1..lost
             /\ got' = [i \in 1..(Head(toSlave).cmd - lost) |-> lost + i]
          \/ slave' = "broken" /\ UNCHANGED <<got, missed>>
    BY <1>s DEF SlaveStoreFails
  <2>4. ASSUME NEW n \in Nat PROVE [i \in 1..n |-> lost + i] \in Seq(Nat)
    <3>1. [i \in 1..n |-> lost + i] \in [1..n -> Nat]
      BY <2>2
    <3> QED BY <3>1
  <2>5. got' \in Seq(Nat) /\ missed' \subseteq Nat
    <3>1. Head(toSlave).cmd - lost \in Nat /\ 1..lost \subseteq Nat
      BY <2>2
    <3>2. got \in Seq(Nat) /\ missed \subseteq Nat
      BY DEF TypeOK
    <3> QED BY <2>3, <2>4, <3>1, <3>2
  <2>6. UNCHANGED <<masterVars, ringVars, up, toMaster, clean, syncs>> /\ toSlave' = Tail(toSlave)
        /\ slave' \in {"streaming", "broken"}
    BY <1>s, <2>3 DEF SlaveStoreFails
  <2> QED BY <2>1, <2>5, <2>6 DEF TypeOK, masterVars, ringVars
<1>11. CASE SlaveApplies
  <2>1. toSlave[1] \in PartSet
    BY <1>11 DEF SlaveApplies, TypeOK
  <2>2. toSlave[1].cmd \in Nat
    BY <2>1 DEF PartSet
  <2>3. toSlave' \in Seq(PartSet) /\ got' \in Seq(Nat)
    BY <1>11, <2>2 DEF SlaveApplies, TypeOK
  <2> QED BY <1>11, <2>3 DEF SlaveApplies, TypeOK, masterVars, ringVars, ghosts
<1>12. CASE UNCHANGED vars
  BY <1>12 DEF vars, TypeOK, masterVars, ringVars, linkVars, ghosts
<1> QED BY <1>1, <1>2, <1>3, <1>4, <1>5, <1>6, <1>7, <1>8, <1>9, <1>10, <1>s, <1>11, <1>12
        DEF Next, Master, Sender, Slave

-----------------------------------------------------------------------------
(* Sessions *)

\* The one request that may be on its way.
LEMMA Messages ==
  /\ Tail(<<"SYNC">>) = << >> /\ Tail(<<"SYNC_DONE">>) = << >>
  /\ Head(<<"SYNC">>) = "SYNC" /\ Head(<<"SYNC_DONE">>) = "SYNC_DONE"
  /\ <<"SYNC">> # << >> /\ <<"SYNC">> # <<"SYNC_DONE">>
  /\ Append(<< >>, "SYNC_DONE") = <<"SYNC_DONE">>
OBVIOUS

\* Taking a node off the ring, or putting one on it, keeps tail in step.
LEMMA TailInStep ==
  ASSUME TypeOK, tail = SlotOf(count + 1)
  PROVE  /\ count < B => After(tail) = SlotOf(count + 2)
         /\ (count > 0 /\ head' = After(head) /\ tail' = tail /\ count' = count - 1)
              => tail' = SlotOf(count + 1)'
<1>1. B \in Nat \ {0} /\ head \in 0..(B - 1) /\ tail \in 0..(B - 1) /\ count \in 0..B
  BY ReplAssumption DEF TypeOK, Slots
<1>2. count < B => After(tail) = SlotOf(count + 2)
  BY <1>1 DEF SlotOf, After
<1>3. ASSUME count > 0, head' = After(head), tail' = tail, count' = count - 1
      PROVE  tail' = SlotOf(count + 1)'
  <2>1. SlotOf(count + 1)' = IF head' + count - 1 < B THEN head' + count - 1 ELSE head' + count - 1 - B
    BY <1>1, <1>3 DEF SlotOf
  <2> QED BY <1>1, <1>3, <2>1 DEF SlotOf, After
<1> QED BY <1>2, <1>3

\* The phases of a session hold initially.
LEMMA InitSession == Init => Session
BY ReplAssumption DEF Init, Session, Synced, SlotOf

\* Each action keeps the phases of a session in step.
LEMMA StepSession == TypeOK /\ Session /\ [Next]_vars => Session'
<1> SUFFICES ASSUME TypeOK, Session, [Next]_vars PROVE Session'
  OBVIOUS
<1> USE ReplAssumption
<1>0. TypeOK'
  BY StepTypes
<1>1. CASE Execute
  <2>1. clean' => tail' = SlotOf(count + 1)'
    <3>1. SUFFICES ASSUME clean PROVE tail' = SlotOf(count + 1)'
      BY <1>1 DEF Execute
    <3>2. tail = SlotOf(count + 1) /\ head' = head
      BY <1>1, <3>1 DEF Execute, Session
    <3>3. CASE count' = count + 1 /\ tail' = After(tail) /\ count < B
      BY <3>2, <3>3, TailInStep DEF SlotOf, TypeOK
    <3>4. CASE count' = count /\ tail' = tail
      BY <3>2, <3>4 DEF SlotOf
    <3> QED BY <1>1, <3>3, <3>4 DEF Execute, BacklogFull, TypeOK
  <2> QED BY <1>1, <2>1 DEF Execute, Session, Synced, linkVars
<1>2. CASE FileGrows
  BY <1>2 DEF FileGrows, Session, Synced, SlotOf, ringVars, linkVars, ghosts
<1>3. CASE HandleSync
  <2>1. toMaster = <<"SYNC">> /\ toMaster' = << >> /\ up /\ up'
    BY <1>3, Messages DEF HandleSync, Session
  <2>2. toSlave' # << >>
    <3>1. FileMsg(filed) \in PartSet
      BY DEF FileMsg, PartSet, TypeOK
    <3>2. toSlave' = Append(toSlave, FileMsg(filed)) /\ toSlave \in Seq(PartSet)
      BY <1>3 DEF HandleSync, TypeOK
    <3> QED BY <3>1, <3>2
  <2>3. clean' => tail' = SlotOf(count + 1)'
    <3>1. (clean' => head = tail) /\ head' = head /\ tail' = tail /\ count' = 0
      BY <1>3 DEF HandleSync
    <3>2. SlotOf(count + 1)' = head
      BY <3>1 DEF SlotOf, TypeOK, Slots
    <3> QED BY <3>1, <3>2
  <2> QED BY <1>3, <2>1, <2>2, <2>3, Messages DEF HandleSync, Session, Synced
<1>4. CASE HandleSyncDone
  <2>1. toMaster = <<"SYNC_DONE">> /\ toMaster' = << >>
    BY <1>4, Messages DEF HandleSyncDone, Session
  <2> QED BY <1>4, <2>1, Messages DEF HandleSyncDone, Session, Synced, SlotOf, ringVars, ghosts
<1>5. CASE SendWhole
  <2>1. ring[head] \in Nodes /\ count > 0 /\ count' = count - 1
    BY <1>5 DEF SendWhole, Sending, TypeOK
  <2>2. clean' => tail' = SlotOf(count + 1)'
    BY <1>5, <2>1, TailInStep DEF SendWhole, HeadAfterSend, Session, ghosts
  <2>3. \A i \in 1..ring[head].left : Parts(ring[head])[i].part # 0
    <3>1. ring[head].left \in 0..2
      BY <2>1 DEF Nodes
    <3>2. ASSUME NEW i \in 1..ring[head].left PROVE Parts(ring[head])[i].part # 0
      <4>1. Parts(ring[head])[i].part = i + 2 - ring[head].left
        BY <2>1, PartsFacts
      <4> QED BY <3>1, <4>1
    <3> QED BY <3>2
  <2>4. toSlave \in Seq(PartSet) /\ Parts(ring[head]) \in Seq(PartSet)
        /\ Len(Parts(ring[head])) = ring[head].left
    BY <2>1, PartsFacts DEF TypeOK
  <2>5. (\A i \in 1..Len(toSlave) : toSlave[i].part # 0)
           => (\A i \in 1..Len(toSlave') : toSlave'[i].part # 0)
    <3>1. SUFFICES ASSUME \A i \in 1..Len(toSlave) : toSlave[i].part # 0,
                          slaveFd = "slave", NEW i \in 1..Len(toSlave')
                   PROVE  toSlave'[i].part # 0
      BY <1>5 DEF SendWhole
    <3>2. toSlave' = toSlave \o Parts(ring[head])
      BY <1>5, <3>1 DEF SendWhole
    <3>3. CASE i \in 1..Len(toSlave)
      BY <2>4, <3>1, <3>2, <3>3
    <3>4. CASE i \notin 1..Len(toSlave)
      <4>1. i - Len(toSlave) \in 1..ring[head].left
        BY <2>4, <3>1, <3>2, <3>4
      <4>2. toSlave'[i] = Parts(ring[head])[i - Len(toSlave)]
        BY <2>4, <3>1, <3>2, <3>4
      <4> QED BY <4>1, <4>2, <2>3
    <3> QED BY <3>3, <3>4
  <2>6. toSlave # << >> => toSlave' # << >>
    BY <1>5, <2>4 DEF SendWhole
  <2> QED BY <1>5, <2>2, <2>5, <2>6 DEF SendWhole, Session, Synced, masterVars, ghosts
<1>6. CASE SendPart
  <2>1. ring[head] \in Nodes /\ ring[head].left = 2
    BY <1>6 DEF SendPart, TypeOK
  <2>2. Head(Parts(ring[head])) = Parts(ring[head])[1] /\ Parts(ring[head])[1].part # 0
    BY <2>1, PartsFacts
  <2>3. toSlave' = Append(toSlave, Head(Parts(ring[head]))) /\ toSlave \in Seq(PartSet)
    BY <1>6 DEF SendPart, TypeOK
  <2>4. (\A i \in 1..Len(toSlave) : toSlave[i].part # 0)
           => (\A i \in 1..Len(toSlave') : toSlave'[i].part # 0)
    <3>1. /\ Len(toSlave) \in Nat /\ Len(toSlave') = Len(toSlave) + 1
          /\ \A i \in 1..Len(toSlave) : toSlave'[i] = toSlave[i]
          /\ toSlave'[Len(toSlave) + 1] = Head(Parts(ring[head]))
      BY ONLY <2>3
    <3> QED BY ONLY <2>2, <3>1
  <2>5. toSlave' # << >>
    BY ONLY <2>3
  <2> QED BY <1>6, <2>4, <2>5 DEF SendPart, Session, Synced, SlotOf, masterVars, ghosts
<1>7. CASE SendFails \/ MasterCloses \/ NumberReused \/ ClientLeaves
  BY <1>7 DEF SendFails, MasterCloses, NumberReused, ClientLeaves, Session, Synced, SlotOf,
              ringVars, linkVars, ghosts
<1>8. CASE LinkBreaks
  BY <1>8 DEF LinkBreaks, Session, Synced, SlotOf, ringVars, ghosts
<1>9. CASE SlaveStarts
  BY <1>9 DEF SlaveStarts, Session, Synced, SlotOf, ringVars
<1>10. CASE SlaveReceivesFile
  <2>1. up /\ toSlave # << >> /\ Len(toSlave) > 0 /\ Head(toSlave) = toSlave[1]
    BY <1>10 DEF SlaveReceivesFile, Session, TypeOK
  <2>2. CASE Head(toSlave).part = 0
    <3>1. Synced /\ toMaster = << >>
      BY <1>10, <2>1, <2>2 DEF SlaveReceivesFile, Session, TypeOK
    <3>2. slave' = "streaming" /\ toMaster' \in {<< >>, <<"SYNC_DONE">>}
      BY <1>10, <2>2, <3>1, Messages DEF SlaveReceivesFile
    <3> QED BY <1>10, <2>1, <3>1, <3>2, Messages
            DEF SlaveReceivesFile, Session, Synced, SlotOf, masterVars, ringVars, ghosts
  <2>3. CASE Head(toSlave).part # 0
    BY <1>10, <2>1, <2>3 DEF SlaveReceivesFile, Session, Synced, SlotOf, masterVars, ringVars, ghosts
  <2> QED BY <2>2, <2>3
<1>s. CASE SlaveStoreFails
  <2>1. up /\ toSlave # << >> /\ Len(toSlave) > 0 /\ Head(toSlave) = toSlave[1]
    BY <1>s DEF SlaveStoreFails, Session, TypeOK
  <2>2. Synced /\ toMaster = << >>
    BY <1>s, <2>1 DEF SlaveStoreFails, Session, TypeOK
  <2>3. slave' \in {"streaming", "broken"}
    BY <1>s DEF SlaveStoreFails
  <2>4. UNCHANGED <<slaveFd, fileDone, enabled, head, tail, count, up, toMaster, clean>>
    BY <1>s DEF SlaveStoreFails, masterVars, ringVars
  <2> QED BY <2>1, <2>2, <2>3, <2>4, Messages DEF Session, Synced, SlotOf
<1>11. CASE SlaveApplies
  BY <1>11 DEF SlaveApplies, Session, Synced, SlotOf, masterVars, ringVars, ghosts
<1>12. CASE UNCHANGED vars
  BY <1>12 DEF vars, Session, Synced, SlotOf, masterVars, ringVars, linkVars, ghosts
<1> QED BY <1>1, <1>2, <1>3, <1>4, <1>5, <1>6, <1>7, <1>8, <1>9, <1>10, <1>s, <1>11, <1>12
        DEF Next, Master, Sender, Slave

-----------------------------------------------------------------------------
(* What is on its way *)

\* The types behind the names used below.
LEMMA StreamTypes ==
  ASSUME TypeOK
  PROVE  /\ First \in {1, 2} /\ WireLen \in Nat /\ executed \in Nat /\ count \in Nat
         /\ \A i \in WireIdx : P(i).cmd \in Nat /\ P(i).part \in 0..2
         /\ \A k \in 1..count : Node(k) \in Nodes /\ Node(k).cmd \in Nat /\ Node(k).left \in 0..2
<1>1. First \in {1, 2} /\ WireLen \in Nat /\ executed \in Nat /\ count \in Nat
  BY DEF TypeOK, First, WireLen
<1>2. ASSUME NEW i \in WireIdx PROVE P(i).cmd \in Nat /\ P(i).part \in 0..2
  <2>1. P(i) \in PartSet
    BY <1>1 DEF TypeOK, WireIdx, WireLen, P
  <2> QED BY <2>1 DEF PartSet
<1>3. ASSUME NEW k \in 1..count
      PROVE  Node(k) \in Nodes /\ Node(k).cmd \in Nat /\ Node(k).left \in 0..2
  <2>1. SlotOf(k) \in Slots
    BY SlotFacts DEF TypeOK
  <2>2. Node(k) \in Nodes
    BY <2>1 DEF TypeOK, Node
  <2> QED BY <2>2 DEF Nodes
<1> QED BY <1>1, <1>2, <1>3

\* Nothing changes where none of these variables does.
LEMMA StreamKept ==
  ASSUME Stream, UNCHANGED <<executed, ring, head, count, toSlave, slave, got, missed>>
  PROVE  Stream'
<1>1. /\ First' = First /\ WireLen' = WireLen
      /\ \A i : P(i)' = P(i) /\ (Done(i)' <=> Done(i)) /\ Node(i)' = Node(i)
  BY DEF First, WireLen, P, Done, Node, SlotOf
<1>2. WireIdx' = WireIdx
  BY <1>1 DEF WireIdx
<1>3. GotOrder' /\ FileSize'
  BY DEF Stream, GotOrder, FileSize
<1>4. WireShape' /\ WireOrder' /\ WireAfterDone'
  BY <1>1, <1>2 DEF Stream, WireShape, WireOrder, WireAfterDone
<1>5. RingShape' /\ RingOrder' /\ RingAfterDone' /\ RingAfterWire'
  BY <1>1, <1>2 DEF Stream, RingShape, RingOrder, RingAfterDone, RingAfterWire
<1>6. Cut'
  BY <1>1 DEF Stream, Cut, P
<1>7. Covered'
  BY <1>1, <1>2 DEF Stream, Covered, Somewhere
<1> QED BY <1>3, <1>4, <1>5, <1>6, <1>7 DEF Stream

\* What is replayed is executed.
LEMMA DoneExecuted == ASSUME TypeOK, Live, Stream, NEW c, Done(c) PROVE c \in 1..executed
BY DEF TypeOK, Live, Stream, GotOrder, FileSize, Done

\* A command is queued at the end of the ring, or is missed.
LEMMA ExecuteStream ==
  ASSUME TypeOK, Session, Live => Stream, Execute, Live' PROVE Stream'
<1>1. Live /\ Stream
  BY DEF Execute, Live, Synced, linkVars
<1>2. Queueing
  BY <1>1 DEF Live, Session, Queueing
<1>t. executed \in Nat /\ count \in 0..B /\ B \in Nat /\ count \in Nat
  BY ReplAssumption DEF TypeOK
<1>3. /\ executed' = executed + 1 /\ WireIdx' = WireIdx /\ First' = First /\ WireLen' = WireLen
      /\ \A i : P(i)' = P(i) /\ (Done(i)' <=> Done(i))
      /\ UNCHANGED <<slave, got, toSlave, head>>
  BY DEF Execute, linkVars, WireIdx, First, WireLen, P, Done
<1>4. \A c : Done(c) => c \in 1..executed
  BY <1>1, DoneExecuted
<1>5. CASE count < B
  <2>1. /\ ring' = [ring EXCEPT ![tail] = [cmd |-> executed + 1, left |-> 2]]
        /\ count' = count + 1 /\ missed' = missed
    BY <1>2, <1>5, <1>t DEF Execute, BacklogFull
  <2>2. ASSUME NEW k \in 1..(count + 1)
        PROVE  Node(k)' = IF k = count + 1 THEN [cmd |-> executed + 1, left |-> 2] ELSE Node(k)
    <3>1. tail = SlotOf(count + 1) /\ SlotOf(k)' = SlotOf(k)
      BY <1>1, <1>3 DEF Live, Session, SlotOf
    <3>2. SlotOf(k) \in Slots /\ (k # count + 1 => SlotOf(k) # tail)
      BY <1>5, <1>t, <3>1, SlotFacts
    <3> QED BY <2>1, <3>1, <3>2 DEF Node, TypeOK
  <2>3. /\ \A k \in 1..count : Node(k)' = Node(k)
        /\ \A k \in 1..count' : k \in 1..count \/ k = count + 1
        /\ \A k \in 1..count' : k = count + 1 => Node(k)'.cmd = executed + 1 /\ Node(k)'.left = 2
    BY <1>t, <2>1, <2>2
  <2>4. GotOrder' /\ FileSize'
    BY <1>1, <1>t, <1>3 DEF Stream, GotOrder, FileSize
  <2>5. WireShape' /\ WireOrder' /\ WireAfterDone'
    BY <1>1, <1>t, <1>3, <1>4 DEF Stream, WireShape, WireOrder, WireAfterDone
  <2>6. RingShape' /\ RingOrder'
    BY <1>1, <1>t, <1>3, <2>1, <2>3, StreamTypes DEF Stream, RingShape, RingOrder
  <2>7. RingAfterDone'
    BY <1>1, <1>t, <1>3, <1>4, <2>1, <2>3 DEF Stream, RingAfterDone
  <2>8. RingAfterWire'
    BY <1>1, <1>t, <1>3, <2>1, <2>3, StreamTypes DEF Stream, RingAfterWire, WireShape
  <2>9. Cut'
    <3>1. P(WireLen)' = P(WireLen)
      BY <1>3 DEF P, WireLen
    <3>2. count > 0 => Node(1)' = Node(1)
      BY <1>t, <2>3
    <3>3. count = 0 => Node(1)'.left = 2
      BY <1>t, <2>1, <2>3
    <3> QED BY <1>1, <1>t, <1>3, <2>1, <3>1, <3>2, <3>3 DEF Stream, Cut
  <2>10. Covered'
    <3>1. ASSUME NEW c \in 1..executed PROVE Somewhere(c)'
      BY <1>1, <1>t, <1>3, <2>1, <2>3 DEF Stream, Covered, Somewhere
    <3>2. \E k \in 1..count' : Node(k)'.cmd = executed + 1
      BY <1>t, <2>1, <2>3
    <3> QED BY <1>t, <1>3, <3>1, <3>2 DEF Covered, Somewhere
  <2> QED BY <2>4, <2>5, <2>6, <2>7, <2>8, <2>9, <2>10 DEF Stream
<1>6. CASE count = B
  <2>1. UNCHANGED <<ring, head, count>> /\ missed' = missed \cup {executed + 1}
    BY <1>2, <1>6, <1>t DEF Execute, BacklogFull
  <2>2. \A k : Node(k)' = Node(k)
    BY <2>1 DEF Node, SlotOf
  <2>3. GotOrder' /\ FileSize'
    BY <1>1, <1>t, <1>3 DEF Stream, GotOrder, FileSize
  <2>4. WireShape' /\ WireOrder' /\ WireAfterDone'
    BY <1>1, <1>t, <1>3, <1>4 DEF Stream, WireShape, WireOrder, WireAfterDone
  <2>5. RingShape' /\ RingOrder' /\ RingAfterDone' /\ RingAfterWire'
    BY <1>1, <1>t, <1>3, <1>4, <2>1, <2>2
       DEF Stream, RingShape, RingOrder, RingAfterDone, RingAfterWire
  <2>6. Cut'
    BY <1>1, <1>3, <2>1, <2>2 DEF Stream, Cut, P
  <2>7. Covered'
    BY <1>1, <1>t, <1>3, <2>1, <2>2 DEF Stream, Covered, Somewhere
  <2> QED BY <2>3, <2>4, <2>5, <2>6, <2>7 DEF Stream
<1> QED BY <1>5, <1>6, <1>t

\* The first half of a command goes out; the second stays in the ring.
LEMMA SendPartStream ==
  ASSUME TypeOK, Session, Live => Stream, SendPart, Live' PROVE Stream'
<1>1. Live /\ Stream
  <2>1. (slave = "waiting" /\ Synced) => toSlave'[1] = toSlave[1]
    <3>1. ring[head] \in Nodes /\ ring[head].left = 2
      BY DEF SendPart, TypeOK
    <3>2. Head(Parts(ring[head])) \in PartSet
      BY <3>1, PartsFacts
    <3> QED BY <3>2 DEF SendPart, TypeOK, Session
  <2> QED BY <2>1 DEF SendPart, Live, Synced, masterVars, ghosts
<1>t. /\ executed \in Nat /\ count \in Nat /\ count > 0 /\ 1 \in 1..count
      /\ First \in {1, 2} /\ WireLen \in Nat
      /\ First <= WireLen + 1 /\ (slave = "waiting" => WireLen >= 1)
  BY <1>1, StreamTypes DEF SendPart, Sending, Live, Session, TypeOK, WireLen, First
<1>2. UNCHANGED <<executed, count, slave, got, missed, head>> /\ First' = First
  BY DEF SendPart, masterVars, ghosts, First
<1>3. Node(1) = ring[head] /\ Node(1).left = 2 /\ ring[head] \in Nodes /\ head \in Slots
  BY SlotFacts DEF Node, SendPart, TypeOK
<1>4. /\ WireLen' = WireLen + 1
      /\ \A i \in 1..WireLen : P(i)' = P(i)
      /\ \A i \in 1..(WireLen + 1) : i = WireLen + 1 => P(i)'.cmd = Node(1).cmd /\ P(i)'.part = 1
  <2> DEFINE h == Head(Parts(ring[head]))
  <2>1. h \in PartSet /\ h.cmd = Node(1).cmd /\ h.part = 1
    <3>1. Parts(ring[head]) \in Seq(PartSet) /\ Len(Parts(ring[head])) = 2
          /\ Parts(ring[head])[1].cmd = ring[head].cmd /\ Parts(ring[head])[1].part = 1
      <4>1. ring[head].left = 2 /\ 1 \in 1..2 /\ 1 + 2 - 2 = 1
        BY <1>3
      <4> QED BY <4>1, <1>3, PartsFacts
    <3> QED BY <3>1, <1>3
  <2>2. toSlave' = Append(toSlave, h) /\ toSlave \in Seq(PartSet)
    BY DEF SendPart, TypeOK
  <2> HIDE DEF h
  <2> QED BY <2>1, <2>2 DEF P, WireLen
<1>5. \A c : Done(c)' <=> Done(c)
  BY <1>t, <1>2, <1>4 DEF Done, P
<1>6. ASSUME NEW k \in 1..count
      PROVE  Node(k)'.cmd = Node(k).cmd /\ Node(k)'.left = IF k = 1 THEN 1 ELSE Node(k).left
  <2>1. SlotOf(k)' = SlotOf(k) /\ SlotOf(k) \in Slots /\ (k # 1 => SlotOf(k) # head)
        /\ (k = 1 => SlotOf(k) = head)
    <3>1. SlotOf(k)' = SlotOf(k)
      BY <1>2 DEF SlotOf
    <3>2. count \in 0..B /\ B \in Nat /\ k \in 1..(count + 1) /\ 1 \in 1..(count + 1)
      BY <1>t, ReplAssumption DEF TypeOK
    <3> QED BY <3>1, <3>2, SlotFacts
  <2>2. ring' = [ring EXCEPT ![head].left = 1]
    BY DEF SendPart
  <2>3. CASE k = 1
    BY <2>1, <2>2, <2>3, <1>3 DEF Node, TypeOK, Nodes
  <2>4. CASE k # 1
    BY <2>1, <2>2, <2>4 DEF Node, TypeOK
  <2> QED BY <2>3, <2>4
<1>7. First <= WireLen => P(WireLen).part = 2
  BY <1>1, <1>3, <1>t DEF Stream, Cut, WireShape, WireIdx
<1>8. GotOrder' /\ FileSize'
  BY <1>1, <1>2, <1>4, <1>t DEF Stream, GotOrder, FileSize, P
<1>9. WireShape'
  <2> QED BY <1>1, <1>2, <1>4, <1>7, <1>t DEF Stream, WireShape, RingShape, WireIdx
<1>10. WireOrder' /\ WireAfterDone'
  BY <1>1, <1>2, <1>4, <1>5, <1>t DEF Stream, WireOrder, WireAfterDone, RingAfterDone, RingAfterWire, WireIdx
<1>11. RingShape' /\ RingOrder' /\ RingAfterDone'
  BY <1>1, <1>2, <1>5, <1>6, <1>t DEF Stream, RingShape, RingOrder, RingAfterDone
<1>12. RingAfterWire'
  BY <1>1, <1>2, <1>4, <1>6, <1>t, StreamTypes DEF Stream, RingOrder, RingAfterWire, WireIdx
<1>13. Cut'
  <2>1. P(WireLen)'.cmd = Node(1).cmd /\ P(WireLen)'.part = 1
    BY <1>4, <1>t DEF P
  <2> QED BY <1>1, <1>2, <1>4, <1>6, <1>t, <2>1 DEF Cut
<1>14. Covered'
  BY <1>1, <1>2, <1>4, <1>5, <1>6, <1>t DEF Stream, Covered, Somewhere, WireIdx
<1> QED BY <1>8, <1>9, <1>10, <1>11, <1>12, <1>13, <1>14 DEF Stream

\* What is left of a command goes out and leaves the ring.
LEMMA SendWholeStream ==
  ASSUME TypeOK, Session, Live => Stream, SendWhole, Live' PROVE Stream'
<1>0. ring[head] \in Nodes /\ head \in Slots /\ Node(1) = ring[head]
  BY SlotFacts DEF TypeOK, Node
<1>1. Live /\ Stream
  <2>1. (slave = "waiting" /\ Synced) => toSlave'[1] = toSlave[1]
    <3>1. Parts(ring[head]) \in Seq(PartSet)
      BY <1>0, PartsFacts
    <3> QED BY <3>1 DEF SendWhole, TypeOK, Session
  <2> QED BY <2>1 DEF SendWhole, Live, Synced, masterVars, ghosts
<1>t. /\ executed \in Nat /\ count \in Nat /\ count > 0 /\ 1 \in 1..count
      /\ First \in {1, 2} /\ WireLen \in Nat
      /\ First <= WireLen + 1 /\ (slave = "waiting" => WireLen >= 1)
  BY <1>1, StreamTypes DEF SendWhole, Sending, Live, Session, TypeOK, WireLen, First
<1>2. /\ UNCHANGED <<executed, slave, got, missed>> /\ First' = First
      /\ count' = count - 1 /\ count' \in Nat
  BY <1>t DEF SendWhole, masterVars, ghosts, First
<1>l. Node(1).left \in {1, 2}
  BY <1>1, <1>t DEF Stream, RingShape
<1>4. /\ WireLen' = WireLen + Node(1).left
      /\ \A i \in 1..WireLen : P(i)' = P(i)
      /\ \A i \in 1..WireLen' : i > WireLen =>
            P(i)'.cmd = Node(1).cmd /\ P(i)'.part = i - WireLen + 2 - Node(1).left
  <2> DEFINE h == Parts(ring[head])
  <2>1. /\ h \in Seq(PartSet) /\ Len(h) = Node(1).left
        /\ \A i \in 1..Len(h) : h[i].cmd = Node(1).cmd /\ h[i].part = i + 2 - Node(1).left
    BY <1>0, PartsFacts
  <2>2. toSlave' = toSlave \o h /\ toSlave \in Seq(PartSet)
    BY <1>1 DEF SendWhole, TypeOK, Live, Session
  <2> HIDE DEF h
  <2>3. WireLen' = WireLen + Node(1).left /\ \A i \in 1..WireLen : P(i)' = P(i)
    BY <2>1, <2>2 DEF P, WireLen
  <2>4. ASSUME NEW i \in 1..WireLen', i > WireLen
        PROVE  P(i)'.cmd = Node(1).cmd /\ P(i)'.part = i - WireLen + 2 - Node(1).left
    <3>1. i - WireLen \in 1..Len(h)
      BY <2>1, <2>3, <2>4, <1>l, <1>t
    <3>2. P(i)' = h[i - WireLen]
      BY <2>1, <2>2, <2>4, <3>1 DEF P, WireLen
    <3> QED BY <2>1, <3>1, <3>2
  <2> QED BY <2>3, <2>4
<1>5. \A c : Done(c)' <=> Done(c)
  BY <1>t, <1>2, <1>4 DEF Done, P
<1>6. ASSUME NEW k \in 1..count'
      PROVE  Node(k)' = Node(k + 1) /\ k + 1 \in 1..count
  <2>1. k + 1 \in 1..count
    BY <1>2, <1>t
  <2>2. SlotOf(k)' = SlotOf(k + 1)
    <3>1. head' = After(head) /\ head \in 0..(B - 1) /\ B \in Nat \ {0} /\ count \in 0..B
      BY ReplAssumption DEF SendWhole, HeadAfterSend, TypeOK, Slots
    <3> QED BY <2>1, <3>1 DEF SlotOf, After
  <2> QED BY <2>1, <2>2 DEF Node, SendWhole
<1>d. \A i \in WireIdx' :
        \/ i \in WireIdx /\ P(i)' = P(i)
        \/ i = WireLen + 1 /\ P(i)'.cmd = Node(1).cmd /\ P(i)'.part = 3 - Node(1).left
        \/ i = WireLen + 2 /\ P(i)'.cmd = Node(1).cmd /\ P(i)'.part = 2 /\ Node(1).left = 2
  BY <1>2, <1>4, <1>l, <1>t DEF WireIdx
<1>7. (First <= WireLen /\ P(WireLen).part = 1)
         <=> Node(1).left = 1
  BY <1>1, <1>t DEF Stream, Cut
<1>c. (First <= WireLen /\ P(WireLen).part = 1) => P(WireLen).cmd = Node(1).cmd
  BY <1>1, <1>t DEF Stream, Cut
<1>8. GotOrder' /\ FileSize'
  BY <1>1, <1>2, <1>4, <1>t DEF Stream, GotOrder, FileSize, P
<1>9. WireShape'
  <2>1. \A i \in WireIdx' : i \in WireIdx \/ i = WireLen + 1 \/ (i = WireLen + 2 /\ Node(1).left = 2)
    BY <1>2, <1>4, <1>l, <1>t DEF WireIdx
  <2>2. \A i \in WireIdx' : P(i)'.part \in {1, 2} /\ P(i)'.cmd \in 1..executed
    BY <1>1, <1>d, <1>l, <1>t DEF Stream, WireShape, RingShape
  <2>3. ASSUME NEW i \in WireIdx', P(i)'.part = 2
        PROVE  i - 1 \in WireIdx' /\ P(i - 1)'.part = 1 /\ P(i - 1)'.cmd = P(i)'.cmd
    <3>1. CASE i \in WireIdx
      BY <1>1, <1>2, <1>4, <1>l, <1>t, <2>3, <3>1 DEF Stream, WireShape, WireIdx
    <3>2. CASE i = WireLen + 1
      BY <1>1, <1>2, <1>4, <1>l, <1>t, <1>7, <1>c, <2>3, <3>2 DEF WireIdx
    <3>3. CASE i = WireLen + 2 /\ Node(1).left = 2
      BY <1>2, <1>4, <1>t, <2>3, <3>3 DEF WireIdx
    <3> QED BY <2>1, <3>1, <3>2, <3>3
  <2>4. ASSUME NEW i \in WireIdx', P(i)'.part = 1, i < WireLen'
        PROVE  P(i + 1)'.part = 2 /\ P(i + 1)'.cmd = P(i)'.cmd
    <3>1. CASE i \in WireIdx /\ i < WireLen
      BY <1>1, <1>2, <1>4, <1>l, <1>t, <2>4, <3>1 DEF Stream, WireShape, WireIdx
    <3>2. CASE i \in WireIdx /\ i = WireLen
      BY <1>2, <1>4, <1>l, <1>t, <1>7, <1>c, <2>4, <3>2 DEF WireIdx
    <3>3. CASE i = WireLen + 1
      BY <1>2, <1>4, <1>l, <1>t, <2>4, <3>3 DEF WireIdx
    <3> QED BY <1>l, <1>t, <1>4, <2>1, <2>4, <3>1, <3>2, <3>3 DEF WireIdx
  <2> QED BY <1>2, <2>2, <2>3, <2>4 DEF WireShape
<1>10. WireOrder' /\ WireAfterDone'
  <2>1. ASSUME NEW i \in WireIdx', NEW j \in WireIdx', i < j
        PROVE  P(i)'.cmd <= P(j)'.cmd /\ (P(i)'.part = 2 => P(i)'.cmd < P(j)'.cmd)
    <3>1. CASE j \in WireIdx
      <4>1. i \in WireIdx
        BY <1>2, <1>t, <2>1, <3>1 DEF WireIdx
      <4> QED BY <1>1, <1>t, <1>4, <2>1, <3>1, <4>1 DEF Stream, WireOrder, WireIdx
    <3>2. CASE j \notin WireIdx /\ i \in WireIdx
      BY <1>1, <1>t, <1>d, <1>4, <2>1, <3>2 DEF Stream, RingAfterWire, WireIdx
    <3>3. CASE j \notin WireIdx /\ i \notin WireIdx
      BY <1>1, <1>t, <1>d, <1>l, <2>1, <3>3 DEF Stream, RingShape
    <3> QED BY <3>1, <3>2, <3>3
  <2>2. ASSUME NEW c \in 1..executed, NEW i \in WireIdx', Done(c) PROVE c < P(i)'.cmd
    BY <1>1, <1>t, <1>d, <2>2 DEF Stream, WireAfterDone, RingAfterDone
  <2> QED BY <1>2, <1>5, <2>1, <2>2 DEF WireOrder, WireAfterDone
<1>11. RingShape' /\ RingOrder' /\ RingAfterDone'
  BY <1>1, <1>2, <1>5, <1>6, <1>t DEF Stream, RingShape, RingOrder, RingAfterDone
<1>12. RingAfterWire'
  BY <1>1, <1>2, <1>4, <1>6, <1>l, <1>t, StreamTypes DEF Stream, RingOrder, RingAfterWire, WireIdx
<1>13. Cut'
  <2>1. P(WireLen)'.part = 2
    BY <1>4, <1>l, <1>t DEF P
  <2>2. count' > 0 => Node(1)'.left = 2
    BY <1>1, <1>2, <1>6, <1>t DEF Stream, RingShape
  <2> QED BY <2>1, <2>2 DEF Cut
<1>14. Covered'
  <2>1. ASSUME NEW c \in 1..executed, NEW k \in 1..count, Node(k).cmd = c PROVE Somewhere(c)'
    <3>1. CASE k = 1
      <4>1. WireLen' \in WireIdx' /\ P(WireLen)'.part = 2 /\ P(WireLen)'.cmd = c
        BY <1>2, <1>4, <1>l, <1>t, <2>1, <3>1 DEF P, WireIdx
      <4> QED BY <4>1 DEF Somewhere, P
    <3>2. CASE k # 1
      <4>1. k - 1 \in 1..count' /\ Node(k - 1)' = Node(k)
        BY <1>2, <1>6, <1>t, <3>2
      <4> QED BY <2>1, <4>1 DEF Somewhere
    <3> QED BY <3>1, <3>2
  <2>2. ASSUME NEW c \in 1..executed, NEW i \in WireIdx, P(i).part = 2, P(i).cmd = c
        PROVE  Somewhere(c)'
    <3>1. i \in WireIdx' /\ P(i)' = P(i)
      BY <1>2, <1>4, <1>l, <1>t DEF WireIdx
    <3> QED BY <2>2, <3>1 DEF Somewhere, P
  <2>3. ASSUME NEW c \in 1..executed, Done(c) \/ c \in missed PROVE Somewhere(c)'
    BY <1>2, <1>5, <2>3 DEF Somewhere
  <2> QED BY <1>1, <1>2, <2>1, <2>2, <2>3 DEF Stream, Covered, Somewhere
<1> QED BY <1>8, <1>9, <1>10, <1>11, <1>12, <1>13, <1>14 DEF Stream

\* SYNC begins a session: the file is all there is on the wire.
LEMMA HandleSyncStream ==
  ASSUME TypeOK, Session, HandleSync, Live' PROVE Stream'
<1>1. toMaster = <<"SYNC">> /\ up
  BY Messages DEF HandleSync, Session
<1>2. slave \in {"waiting", "broken"} /\ \A i \in 1..Len(toSlave) : toSlave[i].part # 0
  BY <1>1 DEF Session, Synced
<1>3. toSlave \in Seq(PartSet) /\ toSlave' = Append(toSlave, FileMsg(filed)) /\ FileMsg(filed) \in PartSet
  BY DEF HandleSync, TypeOK, FileMsg, PartSet
<1>4. slave = "waiting" /\ slave' = "waiting" /\ toSlave'[1].part = 0
  BY <1>2 DEF Live, HandleSync
<1>5. Len(toSlave) = 0
  <2>1. Len(toSlave) > 0 => toSlave'[1] = toSlave[1]
    BY <1>3
  <2> QED BY <1>2, <1>3, <1>4, <2>1
<1>6. Len(toSlave') = 1 /\ toSlave'[1].cmd = filed
  BY <1>3, <1>5 DEF FileMsg
<1>7. WireIdx' = {} /\ First' = 2 /\ WireLen' = 1 /\ count' = 0
  BY <1>4, <1>6 DEF WireIdx, First, WireLen, HandleSync
<1>8. \A c : Done(c)' <=> c \in 1..filed
  BY <1>4, <1>6 DEF Done
<1>9. executed' = executed /\ missed' = (filed + 1)..executed /\ executed \in Nat /\ filed \in 0..executed
  BY DEF HandleSync, TypeOK
<1>10. GotOrder' /\ FileSize'
  BY <1>4, <1>6, <1>9 DEF GotOrder, FileSize
<1>11. WireShape' /\ WireOrder' /\ WireAfterDone'
  BY <1>7 DEF WireShape, WireOrder, WireAfterDone
<1>12. RingShape' /\ RingOrder' /\ RingAfterDone' /\ RingAfterWire' /\ Cut'
  BY <1>7 DEF RingShape, RingOrder, RingAfterDone, RingAfterWire, Cut
<1>13. Covered'
  BY <1>8, <1>9 DEF Covered, Somewhere
<1> QED BY <1>10, <1>11, <1>12, <1>13 DEF Stream

\* The file is replayed; what is behind it on the wire comes to its front.
LEMMA ReceiveStream ==
  ASSUME TypeOK, Session, Live => Stream, SlaveReceivesFile \/ SlaveStoreFails, Live' PROVE Stream'
<1>0. toSlave # << >> /\ toSlave \in Seq(PartSet) /\ Head(toSlave) = toSlave[1] /\ slave = "waiting"
  BY DEF SlaveReceivesFile, SlaveStoreFails, TypeOK
<1>1. toSlave[1].part = 0 /\ slave' = "streaming"
  BY <1>0 DEF SlaveReceivesFile, SlaveStoreFails, Live
<1>2. Synced /\ toMaster = << >>
  BY <1>0, <1>1 DEF Session, TypeOK
<1>3. Live /\ Stream
  BY <1>0, <1>1, <1>2 DEF SlaveReceivesFile, SlaveStoreFails, Live, ghosts
<1>6. toSlave[1].cmd \in 0..executed /\ executed \in Nat /\ count \in Nat
  BY <1>0, <1>3 DEF Stream, FileSize, TypeOK
<1>4. /\ toSlave' = Tail(toSlave)
      /\ \E lost \in 0..toSlave[1].cmd :
           /\ got' = [i \in 1..(toSlave[1].cmd - lost) |-> lost + i]
           /\ missed' = missed \cup 1..lost
  <2>1. CASE SlaveReceivesFile
    <3>1. toSlave' = Tail(toSlave) /\ got' = [i \in 1..toSlave[1].cmd |-> i] /\ missed' = missed
      BY <1>0, <1>1, <2>1 DEF SlaveReceivesFile, ghosts
    <3>2. /\ 0 \in 0..toSlave[1].cmd /\ 1..0 = {}
          /\ [i \in 1..(toSlave[1].cmd - 0) |-> 0 + i] = [i \in 1..toSlave[1].cmd |-> i]
      BY <1>6
    <3> QED BY <3>1, <3>2
  <2>2. CASE SlaveStoreFails
    <3>1. /\ toSlave' = Tail(toSlave)
          /\ \E lost \in 1..toSlave[1].cmd :
               /\ got' = [i \in 1..(toSlave[1].cmd - lost) |-> lost + i]
               /\ missed' = missed \cup 1..lost
      BY <1>0, <1>1, <2>2 DEF SlaveStoreFails
    <3>2. 1..toSlave[1].cmd \subseteq 0..toSlave[1].cmd
      BY <1>6
    <3> QED BY <3>1, <3>2
  <2> QED BY <2>1, <2>2
<1>l. PICK lost \in 0..toSlave[1].cmd :
        /\ got' = [i \in 1..(toSlave[1].cmd - lost) |-> lost + i]
        /\ missed' = missed \cup 1..lost
  BY <1>4
<1>5. UNCHANGED <<executed, ring, head, count>>
  BY DEF SlaveReceivesFile, SlaveStoreFails, masterVars, ringVars, ghosts
<1>7. /\ First = 2 /\ First' = 1 /\ WireLen \in Nat /\ WireLen >= 1 /\ WireLen' = WireLen - 1
      /\ \A i \in 1..WireLen' : P(i)' = P(i + 1)
  BY <1>0, <1>1, <1>4 DEF First, WireLen, P
<1>8. \A k : Node(k)' = Node(k)
  BY <1>5 DEF Node, SlotOf
<1>9. Len(got') = toSlave[1].cmd - lost /\ \A i \in 1..Len(got') : got'[i] = lost + i
  BY <1>l, <1>6
<1>10. /\ \A c : Done(c)' => Done(c)
       /\ \A c : Done(c) => Done(c)' \/ c \in missed'
  <2>1. \A c : Done(c) <=> c \in 1..toSlave[1].cmd
    BY <1>0 DEF Done
  <2>2. \A c : Done(c)' <=> \E i \in 1..Len(got') : got'[i] = c
    BY <1>1 DEF Done
  <2>3. ASSUME NEW c, Done(c)' PROVE Done(c)
    <3>1. PICK i \in 1..Len(got') : got'[i] = c
      BY <2>2, <2>3
    <3>2. c = lost + i
      BY <1>9, <3>1
    <3>3. i \in 1..(toSlave[1].cmd - lost) /\ lost \in Nat /\ toSlave[1].cmd \in Nat
      BY <1>6, <1>9
    <3>4. c \in 1..toSlave[1].cmd
      BY ONLY <3>2, <3>3
    <3> QED BY <2>1, <3>4
  <2>4. ASSUME NEW c, Done(c), c \notin missed' PROVE Done(c)'
    <3>1. c \in 1..toSlave[1].cmd /\ c \notin 1..lost
      BY <1>l, <2>1, <2>4
    <3>2. c - lost \in 1..Len(got') /\ lost + (c - lost) = c
      BY <1>6, <1>9, <3>1
    <3> QED BY <1>9, <2>2, <3>2
  <2> QED BY <2>3, <2>4
<1>11. \A i \in WireIdx' : i + 1 \in WireIdx /\ P(i)' = P(i + 1)
  BY <1>7 DEF WireIdx
<1>12. GotOrder' /\ FileSize'
  BY <1>1, <1>5, <1>6, <1>9 DEF GotOrder, FileSize
<1>13. WireShape' /\ WireOrder' /\ WireAfterDone'
  <2>1. WireShape'
    BY <1>3, <1>5, <1>7, <1>11 DEF Stream, WireShape, WireIdx
  <2>2. WireOrder' /\ WireAfterDone'
    BY <1>3, <1>5, <1>7, <1>10, <1>11 DEF Stream, WireOrder, WireAfterDone, WireIdx
  <2> QED BY <2>1, <2>2
<1>14. RingShape' /\ RingOrder' /\ RingAfterDone' /\ RingAfterWire'
  BY <1>3, <1>5, <1>8, <1>10, <1>11 DEF Stream, RingShape, RingOrder, RingAfterDone, RingAfterWire
<1>15. Cut'
  <2>1. First' <= WireLen' => P(WireLen)' = P(WireLen)
    BY <1>7 DEF P
  <2> QED BY <1>3, <1>5, <1>7, <1>8, <2>1 DEF Stream, Cut
<1>16. Covered'
  <2>1. \A i \in WireIdx : i - 1 \in WireIdx' /\ P(i - 1)' = P(i)
    BY <1>7 DEF WireIdx
  <2> QED BY <1>3, <1>l, <1>5, <1>8, <1>10, <2>1 DEF Stream, Covered, Somewhere
<1> QED BY <1>12, <1>13, <1>14, <1>15, <1>16 DEF Stream

\* The first command on the wire is replayed.
LEMMA ApplyStream ==
  ASSUME TypeOK, Session, Live => Stream, SlaveApplies, Live' PROVE Stream'
<1>1. Live /\ Stream /\ slave = "streaming" /\ slave' = "streaming"
  BY DEF SlaveApplies, Live, Synced, ghosts
<1>2. UNCHANGED <<executed, ring, head, count, missed>>
  BY DEF SlaveApplies, masterVars, ringVars, ghosts
<1>3. /\ toSlave \in Seq(PartSet) /\ got \in Seq(Nat) /\ executed \in Nat /\ count \in Nat
      /\ Len(toSlave) >= 2
      /\ toSlave' = SubSeq(toSlave, 3, Len(toSlave)) /\ got' = Append(got, P(1).cmd)
  BY DEF SlaveApplies, TypeOK, P
<1>4. /\ First = 1 /\ First' = 1 /\ WireLen \in Nat /\ WireLen >= 2 /\ WireLen' = WireLen - 2
      /\ \A i \in 1..WireLen' : P(i)' = P(i + 2)
  <2>1. ASSUME NEW t \in Seq(PartSet), Len(t) >= 2
        PROVE  /\ Len(SubSeq(t, 3, Len(t))) = Len(t) - 2
               /\ \A i \in 1..(Len(t) - 2) : SubSeq(t, 3, Len(t))[i] = t[i + 2]
    <3>1. Len(t) \in Int /\ 3 \in Int /\ \A i \in 3..Len(t) : t[i] \in PartSet
      OBVIOUS
    <3>2. /\ Len(SubSeq(t, 3, Len(t))) = IF 3 <= Len(t) THEN Len(t) - 3 + 1 ELSE 0
          /\ \A i \in 1..(Len(t) - 3 + 1) : SubSeq(t, 3, Len(t))[i] = t[3 + i - 1]
      BY <3>1, SubSeqProperties
    <3>3. Len(SubSeq(t, 3, Len(t))) = Len(t) - 2
      BY <2>1, <3>1, <3>2
    <3>4. ASSUME NEW i \in 1..(Len(t) - 2) PROVE SubSeq(t, 3, Len(t))[i] = t[i + 2]
      <4>1. i \in 1..(Len(t) - 3 + 1) /\ 3 + i - 1 = i + 2
        BY <3>1
      <4> QED BY <3>2, <4>1
    <3> QED BY <3>3, <3>4
  <2> QED BY <1>1, <1>3, <2>1 DEF First, WireLen, P
<1>5. P(1).part = 1 /\ P(2).part = 2 /\ P(2).cmd = P(1).cmd /\ P(1).cmd \in 1..executed
  BY <1>1, <1>4 DEF SlaveApplies, Stream, WireShape, WireIdx, P
<1>6. /\ Len(got') = Len(got) + 1 /\ Len(got) \in Nat
      /\ \A i \in 1..Len(got) : got'[i] = got[i]
      /\ \A i \in 1..Len(got') : i = Len(got) + 1 => got'[i] = P(1).cmd
  BY <1>3, <1>5
<1>7. \A c : Done(c)' <=> (Done(c) \/ c = P(1).cmd)
  BY <1>1, <1>6 DEF Done
<1>8. \A k : Node(k)' = Node(k)
  BY <1>2 DEF Node, SlotOf
<1>9. \A i \in WireIdx' : i + 2 \in WireIdx /\ P(i)' = P(i + 2)
  BY <1>4 DEF WireIdx
<1>10. 1 \in WireIdx /\ 2 \in WireIdx
  BY <1>4 DEF WireIdx
<1>11. \A i \in 1..Len(got) : got[i] < P(1).cmd
  BY <1>1, <1>10 DEF Stream, GotOrder, WireAfterDone, Done
<1>12. GotOrder' /\ FileSize'
  <2>1. \A i \in 1..Len(got') : got'[i] \in 1..executed
    BY <1>1, <1>5, <1>6 DEF Stream, GotOrder
  <2>2. \A i, j \in 1..Len(got') : i < j => got'[i] < got'[j]
    BY <1>1, <1>6, <1>11 DEF Stream, GotOrder
  <2> QED BY <1>1, <1>2, <2>1, <2>2 DEF GotOrder, FileSize
<1>13. WireShape'
  <2>1. \A i \in WireIdx' : P(i)'.part = 2 => i # 1
    <3>1. ASSUME 1 \in WireIdx', P(1)'.part = 2 PROVE FALSE
      <4>1. 3 \in WireIdx /\ P(3).part = 2 /\ 3 - 1 = 2
        BY <1>9, <3>1
      <4> QED BY <1>1, <1>5, <4>1 DEF Stream, WireShape
    <3> QED BY <3>1
  <2> QED BY <1>1, <1>2, <1>4, <1>9, <2>1 DEF Stream, WireShape, WireIdx
<1>14. WireOrder' /\ WireAfterDone'
  <2>1. \A i \in WireIdx' : P(1).cmd < P(i)'.cmd
    <3>1. ASSUME NEW i \in WireIdx' PROVE P(1).cmd < P(i)'.cmd
      <4>1. i + 2 \in WireIdx /\ 2 < i + 2 /\ P(i)' = P(i + 2)
        BY <1>4, <1>9 DEF WireIdx
      <4> QED BY <1>1, <1>5, <1>10, <4>1 DEF Stream, WireOrder
    <3> QED BY <3>1
  <2>2. WireOrder'
    BY <1>1, <1>4, <1>9 DEF Stream, WireOrder, WireIdx
  <2>3. WireAfterDone'
    BY <1>1, <1>2, <1>7, <1>9, <2>1 DEF Stream, WireAfterDone
  <2> QED BY <2>2, <2>3
<1>15. RingShape' /\ RingOrder' /\ RingAfterWire'
  BY <1>1, <1>2, <1>8, <1>9 DEF Stream, RingShape, RingOrder, RingAfterWire
<1>16. RingAfterDone'
  BY <1>1, <1>2, <1>5, <1>7, <1>8, <1>10 DEF Stream, RingAfterDone, RingAfterWire
<1>17. Cut'
  <2>1. First' <= WireLen' => P(WireLen)' = P(WireLen)
    BY <1>4 DEF P
  <2>2. First' > WireLen' => P(WireLen).part = 2
    BY <1>4, <1>5
  <2> QED BY <1>1, <1>2, <1>4, <1>8, <2>1, <2>2 DEF Stream, Cut
<1>18. Covered'
  <2>1. \A i \in WireIdx : i > 2 => i - 2 \in WireIdx' /\ P(i - 2)' = P(i)
    BY <1>4 DEF WireIdx
  <2>2. \A i \in WireIdx : i <= 2 => P(i).cmd = P(1).cmd
    BY <1>4, <1>5 DEF WireIdx
  <2>3. ASSUME NEW c \in 1..executed, NEW i \in WireIdx, P(i).part = 2, P(i).cmd = c
        PROVE  Somewhere(c)'
    <3>1. CASE i > 2
      BY <2>1, <2>3, <3>1 DEF Somewhere
    <3>2. CASE ~(i > 2)
      BY <1>4, <1>7, <2>2, <2>3, <3>2 DEF Somewhere, WireIdx
    <3> QED BY <3>1, <3>2
  <2>4. ASSUME NEW c \in 1..executed, Done(c) \/ c \in missed \/ \E k \in 1..count : Node(k).cmd = c
        PROVE  Somewhere(c)'
    BY <1>2, <1>7, <1>8, <2>4 DEF Somewhere
  <2> QED BY <1>1, <1>2, <2>3, <2>4 DEF Stream, Covered, Somewhere
<1> QED BY <1>12, <1>13, <1>14, <1>15, <1>16, <1>17, <1>18 DEF Stream

-----------------------------------------------------------------------------
(* The invariant *)

\* The invariant holds initially: there is no session.
LEMMA InitInvariant == Init => IInv
BY InitTypes, InitSession DEF Init, IInv, Live, Synced

\* Each action keeps the invariant.
LEMMA StepInvariant == IInv /\ [Next]_vars => IInv'
<1> SUFFICES ASSUME IInv, [Next]_vars PROVE IInv'
  OBVIOUS
<1>0. TypeOK /\ Session /\ (Live => Stream) /\ TypeOK' /\ Session'
  BY StepTypes, StepSession DEF IInv
<1> SUFFICES ASSUME Live' PROVE Stream'
  BY <1>0 DEF IInv
<1>1. CASE Execute
  BY <1>0, <1>1, ExecuteStream
<1>2. CASE FileGrows \/ HandleSyncDone \/ SendFails \/ MasterCloses \/ NumberReused \/ ClientLeaves
           \/ UNCHANGED vars
  <2>1. UNCHANGED <<executed, ring, head, count, toSlave, slave, got, missed, clean, up>>
    BY <1>2 DEF FileGrows, HandleSyncDone, SendFails, MasterCloses, NumberReused, ClientLeaves,
                vars, masterVars, ringVars, linkVars, ghosts
  <2>2. Synced' => Synced
    <3>1. toMaster' = toMaster \/ toMaster # <<"SYNC">>
      BY <1>2, Messages DEF FileGrows, HandleSyncDone, SendFails, MasterCloses, NumberReused,
                ClientLeaves, vars, linkVars
    <3> QED BY <2>1, <3>1 DEF Synced
  <2>3. Live
    BY <2>1, <2>2 DEF Live
  <2> QED BY <1>0, <2>1, <2>3, StreamKept
<1>3. CASE HandleSync
  BY <1>0, <1>3, HandleSyncStream
<1>4. CASE SendWhole
  BY <1>0, <1>4, SendWholeStream
<1>5. CASE SendPart
  BY <1>0, <1>5, SendPartStream
<1>6. CASE LinkBreaks \/ SlaveStarts
  BY <1>6 DEF LinkBreaks, SlaveStarts, Live, Synced
<1>7. CASE SlaveReceivesFile \/ SlaveStoreFails
  BY <1>0, <1>7, ReceiveStream
<1>8. CASE SlaveApplies
  BY <1>0, <1>8, ApplyStream
<1> QED BY <1>1, <1>2, <1>3, <1>4, <1>5, <1>6, <1>7, <1>8 DEF Next, Master, Sender, Slave

\* Types, phases of the session, and where the commands are.
THEOREM SessionInvariant == Spec => []IInv
BY InitInvariant, StepInvariant, PTL DEF Spec

\* A streaming slave has had its SYNC handled.
LEMMA StreamingIsLive == ASSUME IInv, clean, slave = "streaming" PROVE Live /\ Stream
BY DEF IInv, Session, Synced, Live

\* The file, the time before SYNC_DONE and the time after it join without a
\* gap: the slave replays in order and skips only what is known to be missed.
THEOREM NoGap == Spec => []InOrderNoneSkipped
<1>1. ASSUME IInv PROVE InOrderNoneSkipped
  <2> SUFFICES ASSUME clean, slave = "streaming", NEW i \in 1..Len(got)
               PROVE  LET before == IF i = 1 THEN 0 ELSE got[i - 1]
                      IN  before < got[i] /\ (before + 1)..(got[i] - 1) \subseteq missed
    BY DEF InOrderNoneSkipped
  <2> DEFINE before == IF i = 1 THEN 0 ELSE got[i - 1]
  <2>1. Stream
    BY <1>1, StreamingIsLive
  <2>2. executed \in Nat /\ got \in Seq(Nat) /\ Len(got) \in Nat
    BY <1>1 DEF IInv, TypeOK
  <2>3. /\ \A j \in 1..Len(got) : got[j] \in 1..executed
        /\ \A j, k \in 1..Len(got) : j < k => got[j] < got[k]
    BY <2>1 DEF Stream, GotOrder
  <2>4. before \in 0..executed /\ before < got[i]
    BY <2>2, <2>3
  <2>b. i # 1 => before = got[i - 1]
    OBVIOUS
  <2>i. got[i] \in 1..executed
    BY <2>3
  <2> HIDE DEF before
  <2>5. ASSUME NEW c \in (before + 1)..(got[i] - 1) PROVE c \in missed
    <3>1. c \in 1..executed /\ c < got[i] /\ before < c
      BY <2>2, <2>i, <2>4
    <3>2. ~Done(c)
      <4>1. ASSUME NEW j \in 1..Len(got), got[j] = c PROVE FALSE
        <5>1. j < i
          <6>1. got[j] \in 1..executed /\ (i < j => got[i] < got[j])
            BY <2>3
          <6> QED BY <2>2, <2>i, <3>1, <4>1, <6>1
        <5>2. i # 1 /\ i - 1 \in 1..Len(got) /\ (j = i - 1 \/ j < i - 1)
          BY <2>2, <5>1
        <5>3. got[j] <= got[i - 1] /\ before = got[i - 1]
          BY <2>b, <2>3, <5>2
        <5> QED BY <2>2, <2>4, <3>1, <4>1, <5>3
      <4> QED BY <4>1 DEF Done
    <3>3. Done(got[i]) /\ got[i] \in 1..executed
      BY <2>3 DEF Done
    <3>4. ~ \E j \in WireIdx : P(j).cmd = c
      BY <2>1, <3>1, <3>3 DEF Stream, WireAfterDone
    <3>5. ~ \E k \in 1..count : Node(k).cmd = c
      BY <2>1, <3>1, <3>3 DEF Stream, RingAfterDone
    <3> QED BY <2>1, <3>1, <3>2, <3>4, <3>5 DEF Stream, Covered, Somewhere
  <2> QED BY <2>4, <2>5 DEF before
<1> QED BY <1>1, SessionInvariant, PTL

\* No command executed since SYNC is forgotten while the session lasts.
THEOREM NothingForgotten == Spec => []NoneForgotten
<1>1. ASSUME IInv PROVE NoneForgotten
  <2> SUFFICES ASSUME clean, slave = "streaming", NEW c \in 1..executed
               PROVE  c \in Range(got) \cup OnWire \cup Range(Queued) \cup missed
    BY DEF NoneForgotten
  <2>1. Somewhere(c)
    BY <1>1, StreamingIsLive DEF Stream, Covered
  <2>2. Done(c) => c \in Range(got)
    <3>1. DOMAIN got = 1..Len(got)
      BY <1>1 DEF IInv, TypeOK
    <3> QED BY <3>1 DEF Done, Range
  <2>3. ASSUME NEW i \in WireIdx, P(i).part = 2, P(i).cmd = c PROVE c \in OnWire
    BY <2>3 DEF OnWire, WireIdx, WireLen, First, P
  <2>4. ASSUME NEW k \in 1..count, Node(k).cmd = c PROVE c \in Range(Queued)
    BY <2>4 DEF Range, Queued
  <2> QED BY <2>1, <2>2, <2>3, <2>4 DEF Somewhere
<1> QED BY <1>1, SessionInvariant, PTL
=============================================================================
