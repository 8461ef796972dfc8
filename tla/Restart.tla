------------------------------ MODULE Restart ------------------------------
(***************************************************************************)
(* Snapshots (snapshot.c, SAVE), the KEEP index (ai_chat.c) and what a     *)
(* restart makes of snapshot and log (init_kvengine, dest_kvengine).       *)
(*                                                                         *)
(* Values are numbers, a new one for every write; 0 is no value.  The log  *)
(* is the sequence of writes, of which the first flushed are in the file   *)
(* (Aof models how they get there).  SAVE forks a child that writes its    *)
(* copy of memory; a child outlives a server that dies.  Children and the  *)
(* closing server share one temporary file, so files have inodes.          *)
(* Allocations succeed and no TTL runs out.                                *)
(***************************************************************************)
EXTENDS Integers, Sequences, FiniteSets, SequencesExt

CONSTANTS ArrayKeys,  \* keys of the array engine
          TreeKeys,   \* keys of another engine
          KeepKeys,   \* keys of global_hash1, written by KEEP
          Oversize,   \* keys that may have a key over 1 MB or a value over 10 MB
          TtlOn,      \* g_enable_ttl
          AofOn,      \* g_enable_persistence
          MaxIndex,   \* MAX_VECTOR_INDEX
          Children,   \* bound: child processes at a time
          MaxWrites,  \* bound: writes
          MaxBoots,   \* bound: restarts
          MaxSaves    \* bound: SAVE commands

\* A snapshot is a finite file.
ASSUME RestartAssumption ==
  /\ IsFiniteSet(ArrayKeys \cup TreeKeys \cup KeepKeys)
  /\ Oversize \subseteq ArrayKeys \cup TreeKeys \cup KeepKeys
  /\ Children \in Nat /\ MaxIndex \in Nat /\ TtlOn \in BOOLEAN /\ AofOn \in BOOLEAN

AllKeys == ArrayKeys \cup TreeKeys \cup KeepKeys
Server == 0
Procs  == {Server} \cup (1..Children)
Inodes == 1..(Children + 2)
NoFile == 0
Nothing == [k \in AllKeys |-> 0]

VARIABLES
  state,     \* of the server: "up", "closing", "down", "loaded", "replayed"
  mem,       \* the engines
  log, flushed,
  index,     \* the keys of global_vector_index
  savePid,   \* g_save_pid
  spc, copy, fd, \* per process: where it is in kvs_snapshot_save, its copy of
                 \* memory, the inode it has open
  tmp, snap, \* the inodes of the two file names
  content,   \* per inode: the image in it, and whether it is whole
  writes, boots, saves,  \* counters of the bounds
  before,    \* memory when the server stopped, and whether the log was complete
  saved,     \* the copy of memory of the last SAVE that finished
  newest,    \* per key: the value last written by a client
  orphans,   \* a child outlived its server
  cut        \* records of a snapshot were not loaded (this and the above: history)

bootVars == <<state, mem, log, flushed, index, savePid, spc, copy, fd, tmp, snap, content,
              writes, boots, saves, before, saved, newest, orphans, cut>>

Unknown == [mem |-> Nothing, complete |-> FALSE]
Blank == [image |-> Nothing, whole |-> FALSE]

RestartInit ==
  /\ state = "up" /\ mem = Nothing /\ log = << >> /\ flushed = 0 /\ index = << >>
  /\ savePid = Server /\ spc = [p \in Procs |-> "none"]
  /\ copy = [p \in Procs |-> Nothing] /\ fd = [p \in Procs |-> NoFile]
  /\ tmp = NoFile /\ snap = NoFile /\ content = [i \in Inodes |-> Blank]
  /\ writes = 0 /\ boots = 0 /\ saves = 0
  /\ before = Unknown
  /\ saved = Nothing /\ newest = Nothing /\ orphans = FALSE /\ cut = FALSE

saverVars == <<spc, copy, fd>>
fileVars == <<savePid, tmp, snap, content>>
histVars == <<before, saved, newest, orphans, cut>>

-----------------------------------------------------------------------------
(* Commands *)

\* A write of value v (0: DEL): executed and, with persistence on, logged.
Write(k, v) ==
  /\ state = "up" /\ writes < MaxWrites
  /\ mem' = [mem EXCEPT ![k] = v]
  /\ log' = IF AofOn THEN Append(log, [key |-> k, val |-> v]) ELSE log
  /\ writes' = writes + 1
  /\ newest' = [newest EXCEPT ![k] = v]
  /\ UNCHANGED <<state, flushed, fileVars, saverVars, boots, saves, before, saved,
                 orphans, cut>>

SetKey(k) == k \notin KeepKeys /\ Write(k, writes + 1) /\ UNCHANGED index
DelKey(k) == k \notin KeepKeys /\ mem[k] # 0 /\ Write(k, 0) /\ UNCHANGED index

\* keep_add_vector_index: one entry more, also for a key that has one.
Indexed(idx, k) == IF Len(idx) < MaxIndex THEN Append(idx, k) ELSE idx

\* cmd_keep: the value first, then the index; a full index is an error.
Keep(k) ==
  /\ k \in KeepKeys /\ Write(k, writes + 1)
  /\ index' = Indexed(index, k)

Flush ==
  /\ state = "up"
  /\ \E n \in (flushed + 1)..Len(log) : flushed' = n
  /\ UNCHANGED <<state, mem, log, index, fileVars, saverVars, writes, boots, saves, histVars>>

-----------------------------------------------------------------------------
(* Saving *)

\* Mutant: SAVE does not look at the child it started before.
SaveAllowedAlways == TRUE

\* The last child is waited for without blocking.
SaveAllowed == savePid = Server \/ spc[savePid] = "none"

\* Process p starts kvs_snapshot_save with a copy of memory.
Starts(p) ==
  /\ spc' = [spc EXCEPT ![p] = "open"]
  /\ copy' = [copy EXCEPT ![p] = mem]
  /\ fd' = [fd EXCEPT ![p] = NoFile]

\* cmd_sys_save
Save ==
  /\ state = "up" /\ SaveAllowed /\ saves < MaxSaves
  /\ LET idle == {p \in Procs \ {Server} : spc[p] = "none"}
     IN  idle # {} /\ Starts(Min(idle)) /\ savePid' = Min(idle)
  /\ saves' = saves + 1
  /\ UNCHANGED <<state, mem, log, flushed, index, tmp, snap, content, writes, boots,
                 histVars>>

\* The engines' foreach: that of the array does nothing with TTL off.
Image(m) == [k \in AllKeys |-> IF k \in ArrayKeys /\ ~TtlOn THEN 0 ELSE m[k]]

\* open with O_CREAT and O_TRUNC: the file of that name is emptied, whoever
\* has it open.  With one file more than processes one is always unused.
SaverOpens(p) ==
  /\ spc[p] = "open"
  /\ LET unused == {i \in Inodes : i # snap /\ \A q \in Procs : fd[q] # i}
     IN  IF tmp # NoFile THEN UNCHANGED tmp ELSE unused # {} /\ tmp' = Min(unused)
  /\ content' = [content EXCEPT ![tmp'] = Blank]
  /\ spc' = [spc EXCEPT ![p] = "write"]
  /\ fd' = [fd EXCEPT ![p] = tmp']
  /\ UNCHANGED <<state, mem, log, flushed, index, savePid, copy, snap, writes, boots, saves, histVars>>

Records(image) == {k \in AllKeys : image[k] # 0}

\* One write at offset 0: whole unless a longer image was in the file.
SaverWrites(p) ==
  LET image == Image(copy[p])
      old == content[fd[p]]
      covers == Cardinality(Records(old.image)) <= Cardinality(Records(image))
  IN  /\ spc[p] = "write"
      /\ content' = [content EXCEPT ![fd[p]] =
                       IF covers THEN [image |-> image, whole |-> TRUE]
                                 ELSE [image |-> old.image, whole |-> FALSE]]
      /\ spc' = [spc EXCEPT ![p] = "rename"]
      /\ UNCHANGED <<state, mem, log, flushed, index, savePid, copy, fd, tmp, snap, writes, boots, saves, histVars>>

\* Done, or killed: a closing server is down afterwards.
SaverEnds(p) ==
  /\ spc' = [spc EXCEPT ![p] = "none"]
  /\ copy' = [copy EXCEPT ![p] = Nothing]
  /\ fd' = [fd EXCEPT ![p] = NoFile]
  /\ state' = IF p = Server THEN "down" ELSE state
  /\ mem' = IF p = Server THEN Nothing ELSE mem

\* A failed or short write: the temporary name is removed.
SaverWriteFails(p) ==
  /\ spc[p] = "write" /\ SaverEnds(p)
  /\ content' = [content EXCEPT ![fd[p]].whole = FALSE]
  /\ tmp' = NoFile
  /\ UNCHANGED <<log, flushed, index, savePid, snap, writes, boots, saves, histVars>>

\* A child, or the server in its closing save, is killed wherever it is.
SaverDies(p) ==
  /\ spc[p] # "none" /\ SaverEnds(p)
  /\ UNCHANGED <<log, flushed, index, fileVars, writes, boots, saves, histVars>>

\* rename fails when another process has renamed the file.
SaverRenames(p) ==
  /\ spc[p] = "rename" /\ SaverEnds(p)
  /\ tmp' = NoFile
  /\ IF tmp # NoFile
       THEN snap' = tmp /\ saved' = copy[p]
       ELSE UNCHANGED <<snap, saved>>
  /\ UNCHANGED <<log, flushed, index, savePid, content, writes, boots, saves,
                 before, newest, orphans, cut>>

-----------------------------------------------------------------------------
(* Stopping and starting *)

ChildAlive == \E p \in Procs \ {Server} : spc[p] # "none"

\* The server dies; what was not flushed is lost, its child goes on.
Crash ==
  /\ state = "up"
  /\ state' = "down" /\ mem' = Nothing /\ index' = << >> /\ savePid' = Server
  /\ log' = SubSeq(log, 1, flushed)
  /\ before' = [mem |-> mem, complete |-> AofOn /\ flushed = Len(log)]
  /\ orphans' = (orphans \/ ChildAlive)
  /\ UNCHANGED <<flushed, saverVars, tmp, snap, content, writes, boots, saves, saved, newest, cut>>

\* dest_kvengine: the index goes, the log is written out, then a snapshot is
\* saved by the server itself.
Shutdown ==
  /\ state = "up"
  /\ state' = "closing" /\ index' = << >> /\ savePid' = Server
  /\ flushed' = Len(log)
  /\ Starts(Server)
  /\ before' = [mem |-> mem, complete |-> AofOn]
  /\ orphans' = (orphans \/ ChildAlive)
  /\ UNCHANGED <<mem, log, tmp, snap, content, writes, boots, saves, saved, newest, cut>>

\* The image the loader reads: none when the checksum is wrong.
Loadable == IF snap # NoFile /\ content[snap].whole THEN content[snap].image ELSE Nothing

\* kvs_snapshot_load: at a record over a limit the loader stops, so that one
\* and those after it, in the engines' order, are not loaded.
LoadSnapshot ==
  /\ state = "down" /\ boots < MaxBoots
  /\ state' = "loaded" /\ boots' = boots + 1
  /\ \E kept \in SUBSET Records(Loadable) :
       /\ Records(Loadable) \cap Oversize \subseteq kept => kept = Records(Loadable)
       /\ mem' = [k \in AllKeys |-> IF k \in kept THEN Loadable[k] ELSE 0]
       /\ cut' = (cut \/ kept # Records(Loadable))
  /\ UNCHANGED <<log, flushed, index, fileVars, saverVars, writes, saves,
                 before, saved, newest, orphans>>

\* The last write of k in the log, 0 if there is none.
WritesOf(k) == {i \in 1..Len(log) : log[i].key = k}
LastWrite(k) == IF WritesOf(k) = {} THEN 0 ELSE Max(WritesOf(k))

\* Mutant: a value from the snapshot is kept.
ReplayedUnlessLoaded(k) ==
  IF mem[k] # 0 \/ LastWrite(k) = 0 THEN mem[k] ELSE log[LastWrite(k)].val

\* The value of k once the log is replayed.
Replayed(k) == IF LastWrite(k) = 0 THEN mem[k] ELSE log[LastWrite(k)].val

\* kvs_persistence_recover; the KEEP commands among the log index their keys.
ReplayLog ==
  /\ state = "loaded"
  /\ state' = "replayed"
  /\ mem' = [k \in AllKeys |-> Replayed(k)]
  /\ index' = FoldLeft(LAMBDA idx, w : IF w.key \in KeepKeys THEN Indexed(idx, w.key) ELSE idx,
                       << >>, log)
  /\ UNCHANGED <<log, flushed, fileVars, saverVars, writes, boots, saves, histVars>>

\* keep_index_init, the last step of init_kvengine.
KeepIndexInit ==
  /\ state = "replayed"
  /\ state' = "up" /\ index' = << >>
  /\ before' = Unknown
  /\ UNCHANGED <<mem, log, flushed, fileVars, saverVars, writes, boots, saves, saved, newest,
                 orphans, cut>>

RestartNext ==
  \/ \E k \in AllKeys : SetKey(k) \/ DelKey(k) \/ Keep(k)
  \/ Flush \/ Save
  \/ \E p \in Procs : SaverOpens(p) \/ SaverWrites(p) \/ SaverWriteFails(p)
                        \/ SaverRenames(p) \/ SaverDies(p)
  \/ Crash \/ Shutdown \/ LoadSnapshot \/ ReplayLog \/ KeepIndexInit

RestartSpec == RestartInit /\ [][RestartNext]_bootVars

-----------------------------------------------------------------------------
(* Properties *)

\* As long as no child outlives its server, kvstore.snap is whole and holds
\* the last SAVE that finished, whatever was killed or failed in between.
SnapshotSound ==
  ~orphans /\ snap # NoFile => content[snap] = [image |-> Image(saved), whole |-> TRUE]

\* If the log was complete when the server stopped, a restart brings memory
\* back as it was, over an older or a newer snapshot; even when a child
\* outlived its server or the loader stopped at a record over its limits, for
\* every key the log has.
CleanRestart ==
  state = "replayed" /\ before.complete =>
    \A k \in AllKeys : (~orphans /\ ~cut) \/ LastWrite(k) # 0 => mem[k] = before.mem[k]

\* A value that was saved and not written since is there, as long as no child
\* outlives its server and the loader takes every record (full persistence
\* test: insert, SAVE, restart, read back).
SavedSurvives ==
  state = "up" /\ ~orphans /\ ~cut =>
    \A k \in AllKeys : saved[k] # 0 /\ saved[k] = newest[k] => mem[k] = saved[k]

\* MATCH can find every key stored by KEEP, unless the index is full.
KeptIsIndexed ==
  state = "up" =>
    \A k \in KeepKeys : mem[k] # 0 => k \in ToSet(index) \/ Len(index) = MaxIndex
=============================================================================
