------------------------------ MODULE MCStreams ------------------------------
(***************************************************************************)
(* The ways a command travels, each on its own instance: which says the     *)
(* one a behaviour exercises, the others stay in their initial state.       *)
(*   aof     buffers of three bytes, flushed from two on; commands of one,   *)
(*           two and (larger than a buffer) four bytes                       *)
(*   tcp     a backlog of two nodes, so that it fills up                     *)
(*   rdma    chunks of two bytes, sizes below, at and above what the header  *)
(*           can carry                                                       *)
(*   relay   a stream whose sequence numbers wrap, a pool of two segments,   *)
(*           a ring that starts with two bytes; a second connection          *)
(*   client  a read buffer of up to four bytes, requests of one, two and     *)
(*           five                                                            *)
(***************************************************************************)
EXTENDS Replication, Aof, RdmaSync, Relay, ClientLoop, TLC

CONSTANT Which

VARIABLE which

MCStreamLen == 1 :> 5 @@ 2 :> 1
MCIsn == 1 :> 9 @@ 2 :> 3
MCRequests ==
  [kind : {"answered"}, len : {1, 2, 5}]
    \cup {[kind |-> "failed", len |-> 1], [kind |-> "bad", len |-> 2]}

allVars == <<which, vars, aofVars, rdmaVars, relayVars, clientVars>>

AllInit ==
  /\ which \in Which
  /\ Init /\ AofInit /\ RdmaInit /\ RelayInit /\ ClientInit
  /\ which # "client" => role = CHOOSE r \in Roles : TRUE

\* A step of one component leaves the others alone.
OnlyLog == which = "aof" /\ UNCHANGED <<which, vars, rdmaVars, relayVars, clientVars>>
OnlyTcp == which = "tcp" /\ UNCHANGED <<which, aofVars, rdmaVars, relayVars, clientVars>>
OnlyRdma == which = "rdma" /\ UNCHANGED <<which, vars, aofVars, relayVars, clientVars>>
OnlyRelay == which = "relay" /\ UNCHANGED <<which, vars, aofVars, rdmaVars, clientVars>>
OnlyClient == which = "client" /\ UNCHANGED <<which, vars, aofVars, rdmaVars, relayVars>>

AllNext ==
  \/ OnlyLog /\ AofNext
  \/ OnlyTcp /\ Next
  \/ OnlyRdma /\ RdmaNext
  \/ OnlyRelay /\ RelayNext
  \/ OnlyClient /\ ClientNext

\* The kernel completes writes, the flush coroutine runs every millisecond,
\* time passes, and the main thread goes on where it is.
LogFairness ==
  /\ WF_aofVars(which = "aof" /\ (KernelWrite \/ KernelShort))
  /\ WF_aofVars(which = "aof" /\ FlushPending) /\ WF_aofVars(which = "aof" /\ Timeout)
  /\ WF_aofVars(which = "aof" /\ Writing) /\ WF_aofVars(which = "aof" /\ Closing)

\* The schedulers of both processes run their coroutines, TCP delivers while
\* the connection lasts, and send() does not stay partial for ever.
TcpFairness ==
  /\ WF_vars(which = "tcp" /\ Master) /\ WF_vars(which = "tcp" /\ SendWhole)
  /\ WF_vars(which = "tcp" /\ Slave)

\* Both threads run, and the adapter delivers; no failure is owed.
RdmaFairness ==
  /\ WF_rdmaVars(which = "rdma" /\ MasterStep /\ UNCHANGED mishap)
  /\ WF_rdmaVars(which = "rdma" /\ SlaveStep /\ UNCHANGED mishap)

\* The relay's loop runs, and the slave reads: send() does not answer EAGAIN
\* for ever.
RelayFairness ==
  /\ WF_relayVars(which = "relay" /\ RelayStep)
  /\ SF_relayVars(which = "relay" /\ Sends)

\* The scheduler runs the connection's coroutine when there is something to
\* read.
ClientFairness == WF_clientVars(which = "client" /\ Server)

AllSpec ==
  /\ AllInit /\ [][AllNext]_allVars
  /\ LogFairness /\ TcpFairness /\ RdmaFairness /\ RelayFairness /\ ClientFairness
=============================================================================
