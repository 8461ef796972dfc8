----------------------------- MODULE Replication -----------------------------
(***************************************************************************)
(* Master to slave replication over TCP (repl.c, ntyco.c, the backlog in   *)
(* resp.c, SYNC and SYNC_DONE in kvstore.c).                               *)
(*                                                                         *)
(*   slave --SYNC--> master --log file--> slave --SYNC_DONE--> master      *)
(*   master: backlog ring --sender coroutine--> slave                      *)
(*                                                                         *)
(* The master's write commands (its own expiry deletions too) are numbered *)
(* 1, 2, ... in the order they execute.  Its log file holds a beginning of *)
(* them (module Aof).  A command crosses the wire in two parts, so that    *)
(* send() can be partial.  Each send() is one step.                        *)
(***************************************************************************)
EXTENDS Integers, Sequences, FiniteSets, SequencesExt

CONSTANTS
  B,          \* REPL_BACKLOG_MAX
  Events,     \* which of "buffered", "partial", "drop", "nostore" may happen
  MaxCmds,    \* bound: commands executed
  MaxSyncs    \* bound: times the slave is started

ASSUME ReplAssumption ==
  /\ B \in Nat \ {0} /\ MaxCmds \in Nat /\ MaxSyncs \in Nat
  /\ Events \subseteq {"buffered", "partial", "drop", "nostore"}

VARIABLES
  executed, filed,     \* master: commands executed; the first `filed' are in the file
  slaveFd,             \* what g_slave_fd denotes: see SlaveFds
  enabled, fileDone,   \* g_repl_backlog_enabled, g_sync_file_done
  ring, head, tail, count,   \* g_repl_backlog
  up, toMaster, toSlave,     \* the slave's connection: is it there, and the bytes on it
  slave,               \* slave: "off", "waiting" for the file, "streaming" (reading
                       \* commands), "broken"
  got,                 \* slave: the commands it replayed, since it was started
  missed,              \* commands this session cannot get (not in the code): buffered
                       \* at SYNC, the backlog was full, the file not stored
  clean,               \* SYNC found the backlog ring empty (not in the code)
  syncs

masterVars == <<executed, filed, slaveFd, enabled, fileDone>>
ringVars   == <<ring, head, tail, count>>
linkVars   == <<up, toMaster, toSlave>>
ghosts     == <<missed, clean, syncs>>
vars == <<masterVars, ringVars, linkVars, slave, got, ghosts>>

\* "none": -1.  "slave": the slave's connection.  "dead": a connection whose
\* other end is gone, not yet noticed.  "closed": a number that was closed but
\* is still in g_slave_fd.  "client": that number, reused by accept.
SlaveFds == {"none", "slave", "dead", "closed", "client"}

Slots == 0..(B - 1)

\* A backlog node: a command and how many of its parts are left to send.
NoNode == [cmd |-> 0, left |-> 0]
Nodes == [cmd : Nat, left : 0..2]

\* What travels to the slave: the log file, or a part of a command.
FileMsg(n) == [cmd |-> n, part |-> 0]
PartSet == [cmd : Nat, part : 0..2]
Parts(node) ==      \* the parts still to be sent
  [i \in 1..node.left |-> [cmd |-> node.cmd, part |-> i + 2 - node.left]]

Init ==
  /\ executed = 0 /\ filed = 0 /\ slaveFd = "none"
  /\ enabled = FALSE /\ fileDone = FALSE
  /\ ring = [i \in Slots |-> NoNode] /\ head = 0 /\ tail = 0 /\ count = 0
  /\ up = FALSE /\ toMaster = << >> /\ toSlave = << >> /\ slave = "off" /\ got = << >>
  /\ missed = {} /\ clean = TRUE /\ syncs = 0

After(i) == IF i = B - 1 THEN 0 ELSE i + 1

-----------------------------------------------------------------------------
(* Master *)

\* Mutant: only the window after SYNC_DONE is covered.
QueueingLate == slaveFd # "none" /\ fileDone

\* The condition of protocol_process_stream and protocol_handle_internal_del.
Queueing == slaveFd # "none" /\ (fileDone \/ enabled)

BacklogFull == count >= B

\* A write command, or the deletion of an expired key: logged, queued, run.
\* A full backlog drops the command.
Execute ==
  /\ executed < MaxCmds
  /\ executed' = executed + 1
  /\ filed' \in IF "buffered" \in Events THEN {filed} ELSE {executed + 1}
  /\ IF Queueing /\ ~BacklogFull
       THEN /\ ring' = [ring EXCEPT ![tail] = [cmd |-> executed + 1, left |-> 2]]
            /\ tail' = After(tail) /\ count' = count + 1
       ELSE UNCHANGED <<ring, tail, count>>
  /\ missed' = IF Queueing /\ BacklogFull THEN missed \cup {executed + 1} ELSE missed
  /\ UNCHANGED <<slaveFd, enabled, fileDone, head, linkVars, slave, got, clean, syncs>>

\* The AOF writer catches up, in part or wholly.
FileGrows ==
  /\ \E n \in (filed + 1)..executed : filed' = n
  /\ UNCHANGED <<executed, slaveFd, enabled, fileDone, ringVars, linkVars, slave, got, ghosts>>

\* SYNC: remember the connection, open the backlog, send the file as it is.
\* count is reset, head and tail are not.  The handler blocks the master.
HandleSync ==
  /\ up /\ toMaster # << >> /\ Head(toMaster) = "SYNC"
  /\ slaveFd' = "slave" /\ enabled' = TRUE /\ count' = 0
  /\ toMaster' = Tail(toMaster) /\ toSlave' = Append(toSlave, FileMsg(filed))
  /\ missed' = (filed + 1)..executed
  /\ clean' = (head = tail /\ count = 0)
  /\ UNCHANGED <<executed, filed, fileDone, ring, head, tail, up, slave, got, syncs>>

HandleSyncDone ==
  /\ up /\ toMaster # << >> /\ Head(toMaster) = "SYNC_DONE"
  /\ fileDone' = TRUE /\ enabled' = FALSE
  /\ toMaster' = Tail(toMaster)
  /\ UNCHANGED <<executed, filed, slaveFd, ringVars, up, toSlave, slave, got, ghosts>>

-----------------------------------------------------------------------------
(* ntyco_master_repl_send_co *)

Sending == slaveFd # "none" /\ count > 0

\* Mutant: the node is sent again after a whole send.
HeadAfterSendSame == head

\* The head after a whole send.
HeadAfterSend == After(head)

\* The node is sent whole, freed and taken off the ring.  It goes to whoever
\* owns the descriptor; the first bytes to a dead peer are accepted and lost.
SendWhole ==
  /\ Sending /\ slaveFd # "closed"
  /\ toSlave' = IF slaveFd = "slave" THEN toSlave \o Parts(ring[head]) ELSE toSlave
  /\ head' = HeadAfterSend /\ count' = count - 1
  /\ UNCHANGED <<masterVars, ring, tail, up, toMaster, slave, got, ghosts>>

\* send() took only a part: the rest stays in the node.
SendPart ==
  /\ "partial" \in Events
  /\ Sending /\ slaveFd = "slave" /\ ring[head].left = 2
  /\ toSlave' = Append(toSlave, Head(Parts(ring[head])))
  /\ ring' = [ring EXCEPT ![head].left = 1]
  /\ UNCHANGED <<masterVars, head, tail, count, up, toMaster, slave, got, ghosts>>

\* send() fails: close the descriptor and forget it.
SendFails ==
  /\ Sending /\ slaveFd \in {"dead", "closed"}
  /\ slaveFd' = "none"
  /\ UNCHANGED <<executed, filed, enabled, fileDone, ringVars, linkVars, slave, got, ghosts>>

-----------------------------------------------------------------------------
(* The connection *)

\* The slave process ends, the connection breaks, the slave has waited ten
\* seconds for the size of the file, or cannot open its file or a pipe.
LinkBreaks ==
  /\ "drop" \in Events /\ up
  /\ up' = FALSE /\ toMaster' = << >> /\ toSlave' = << >> /\ slave' = "off"
  /\ slaveFd' = IF slaveFd = "slave" THEN "dead" ELSE slaveFd
  /\ UNCHANGED <<executed, filed, enabled, fileDone, ringVars, got, ghosts>>

\* The client coroutine of the slave's connection sees its end and closes the
\* descriptor; g_slave_fd keeps the number.
MasterCloses ==
  /\ slaveFd = "dead" /\ slaveFd' = "closed"
  /\ UNCHANGED <<executed, filed, enabled, fileDone, ringVars, linkVars, slave, got, ghosts>>

\* accept() gives the number to an ordinary client, which may leave again.
NumberReused ==
  /\ slaveFd = "closed" /\ slaveFd' = "client"
  /\ UNCHANGED <<executed, filed, enabled, fileDone, ringVars, linkVars, slave, got, ghosts>>

ClientLeaves ==
  /\ slaveFd = "client" /\ slaveFd' = "closed"
  /\ UNCHANGED <<executed, filed, enabled, fileDone, ringVars, linkVars, slave, got, ghosts>>

-----------------------------------------------------------------------------
(* Slave *)

\* ntyco_slave_init_co of a fresh process: connect and send SYNC.  The
\* master's end may get the number g_slave_fd still holds.
SlaveStarts ==
  /\ slave = "off" /\ ~up /\ syncs < MaxSyncs
  /\ slave' = "waiting" /\ got' = << >> /\ syncs' = syncs + 1
  /\ up' = TRUE /\ toMaster' = <<"SYNC">> /\ toSlave' = << >>
  /\ slaveFd' \in IF slaveFd = "closed" THEN {"closed", "slave"} ELSE {slaveFd}
  /\ UNCHANGED <<executed, filed, enabled, fileDone, ringVars, missed, clean>>

\* tcp_sendfile_recv_thread: receive the file, replay it, answer SYNC_DONE
\* (not for an empty file).  Anything else where the size should be breaks it.
SlaveReceivesFile ==
  /\ slave = "waiting" /\ toSlave # << >>
  /\ IF Head(toSlave).part = 0
       THEN LET n == Head(toSlave).cmd
            IN  /\ slave' = "streaming"
                /\ got' = [i \in 1..n |-> i]
                /\ toSlave' = Tail(toSlave)
                /\ toMaster' = IF n = 0 THEN toMaster ELSE Append(toMaster, "SYNC_DONE")
       ELSE slave' = "broken" /\ UNCHANGED <<got, toSlave, toMaster>>
  /\ UNCHANGED <<masterVars, ringVars, up, ghosts>>

\* Writing the file fails after at least a part of it was taken off the
\* connection: no replay and no SYNC_DONE.  The client coroutine reads the rest
\* of the file as commands; if it begins inside a command none is ever found.
SlaveStoreFails ==
  /\ "nostore" \in Events
  /\ slave = "waiting" /\ toSlave # << >> /\ Head(toSlave).part = 0
  /\ toSlave' = Tail(toSlave)
  /\ LET n == Head(toSlave).cmd
     IN  \E lost \in 1..n :
           \/ /\ slave' = "streaming"
              /\ got' = [i \in 1..(n - lost) |-> lost + i]
              /\ missed' = missed \cup 1..lost
           \/ slave' = "broken" /\ UNCHANGED <<got, missed>>
  /\ UNCHANGED <<masterVars, ringVars, up, toMaster, clean, syncs>>

\* Its client coroutine executes whole commands; half a command at the front
\* of its buffer stays there until its other half comes.
SlaveApplies ==
  /\ slave = "streaming" /\ Len(toSlave) >= 2
  /\ toSlave[1].part = 1 /\ toSlave[2].part = 2
  /\ got' = Append(got, toSlave[1].cmd)
  /\ toSlave' = SubSeq(toSlave, 3, Len(toSlave))
  /\ UNCHANGED <<masterVars, ringVars, up, toMaster, slave, ghosts>>

-----------------------------------------------------------------------------

Sender == SendWhole \/ SendPart \/ SendFails
Slave  == SlaveReceivesFile \/ SlaveApplies
Master == HandleSync \/ HandleSyncDone

Next ==
  \/ Execute \/ FileGrows \/ Master \/ Sender
  \/ LinkBreaks \/ MasterCloses \/ NumberReused \/ ClientLeaves
  \/ SlaveStarts \/ SlaveStoreFails \/ Slave

Spec == Init /\ [][Next]_vars

-----------------------------------------------------------------------------
(* Properties *)

\* Types; indices and count stay within the ring.
TypeOK ==
  /\ executed \in Nat /\ filed \in 0..executed /\ slaveFd \in SlaveFds
  /\ enabled \in BOOLEAN /\ fileDone \in BOOLEAN
  /\ ring \in [Slots -> Nodes] /\ head \in Slots /\ tail \in Slots /\ count \in 0..B
  /\ up \in BOOLEAN /\ toMaster \in Seq({"SYNC", "SYNC_DONE"}) /\ toSlave \in Seq(PartSet)
  /\ slave \in {"off", "waiting", "streaming", "broken"}
  /\ got \in Seq(Nat) /\ missed \subseteq Nat /\ clean \in BOOLEAN /\ syncs \in Nat

\* The i-th node of the backlog, counted from its head.
SlotOf(i) == IF head + i - 1 < B THEN head + i - 1 ELSE head + i - 1 - B
Node(i) == ring[SlotOf(i)]

Queued == [i \in 1..count |-> Node(i).cmd]
OnWire == {toSlave[i].cmd : i \in {j \in 1..Len(toSlave) : toSlave[j].part = 2}}

\* In a session that began with an empty backlog the slave replays commands
\* in the master's order, each once, and skips only those that were still
\* buffered at SYNC, that found the backlog full, or that were lost with a file
\* it could not store: nothing slips between the file, the time before
\* SYNC_DONE and the time after it.
InOrderNoneSkipped ==
  (clean /\ slave = "streaming") =>
     \A i \in 1..Len(got) :
       LET before == IF i = 1 THEN 0 ELSE got[i - 1]
       IN  /\ before < got[i]
           /\ (before + 1)..(got[i] - 1) \subseteq missed

\* While such a session lasts, every command executed since is replayed, on
\* its way, in the backlog, or known to be missed.
NoneForgotten ==
  (clean /\ slave = "streaming" /\ slaveFd = "slave") =>
     1..executed \subseteq Range(got) \cup OnWire \cup Range(Queued) \cup missed

\* What the slave still has to get.
Lacking == 1..executed \ (missed \cup Range(got))

\* When the clients fall silent, a slave that has taken a file gets
\* everything the backlog took, unless its connection breaks or its session
\* began with old nodes in the ring.
SlaveCatchesUp ==
  (slave = "streaming" /\ clean /\ Lacking # {}) ~> (slave # "streaming" \/ Lacking = {})

\* README.md:147-151: the slave gets the log file, and what is executed while
\* it is sent is kept and sent afterwards: no command is left out.
NothingLeftOut ==
  slave = "streaming" => \A i \in 1..Len(got) : got[i] = i

\* README.md:151: what is sent after the log file are the commands that came
\* since.
OnlyNewAfterFile ==
  [][(slave = "streaming" /\ got' # got /\ got' # << >>) =>
       \A i \in 1..Len(got) : got[i] < Last(got')]_vars
=============================================================================
