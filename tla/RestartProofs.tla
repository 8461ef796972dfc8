--------------------------- MODULE RestartProofs ---------------------------
(***************************************************************************)
(* Snapshots and restarts: SnapshotSound and CleanRestart for every set of *)
(* keys, any number of child processes, SAVEs, crashes and restarts.       *)
(*                                                                         *)
(* SnapshotSound needs to know who may touch the two files.  While no      *)
(* child has outlived its server, at most one process saves: the child     *)
(* g_save_pid names, or the closing server (OneSaver).  It alone has the   *)
(* temporary file open, which is never kvstore.snap, and what the file     *)
(* holds is fixed by where that process is (SaverFile).                    *)
(*                                                                         *)
(* CleanRestart needs to know where the value of a key is.  For a key the  *)
(* log has, memory is what the log's last write of it says (InLog).  For a *)
(* key it has not (its writes were lost in an earlier crash, after a       *)
(* SAVE), memory, the copies being saved and the snapshot all have the     *)
(* same value (InSnapshot), which is why a snapshot that is renamed        *)
(* between the two stops changes nothing.  A loader that stopped at a      *)
(* record over its limits (cut) ends that, and InLog alone remains.        *)
(***************************************************************************)
EXTENDS Restart, NaturalsInduction, WellFoundedInduction, SequenceTheorems, FiniteSetTheorems, TLAPS

Mems == [AllKeys -> Nat]
Files == Inodes \cup {NoFile}

RestartTypeOK ==
  /\ state \in {"up", "closing", "down", "loaded", "replayed"}
  /\ mem \in Mems /\ saved \in Mems
  /\ log \in Seq([key : AllKeys, val : Nat]) /\ flushed \in 0..Len(log)
  /\ savePid \in Procs
  /\ spc \in [Procs -> {"none", "open", "write", "rename"}]
  /\ copy \in [Procs -> Mems] /\ fd \in [Procs -> Files]
  /\ tmp \in Files /\ snap \in Files
  /\ content \in [Inodes -> [image : Mems, whole : BOOLEAN]]
  /\ writes \in Nat
  /\ before \in [mem : Mems, complete : BOOLEAN]
  /\ orphans \in BOOLEAN /\ cut \in BOOLEAN
  /\ \A p \in Procs : spc[p] \in {"write", "rename"} => fd[p] # NoFile

-----------------------------------------------------------------------------
(* The inductive invariant *)

\* The server saves only while it closes.
ServerSaves == spc[Server] # "none" => state = "closing"

\* The only child is the one g_save_pid names, and its server runs.
OneSaver == \A p \in Procs \ {Server} : spc[p] # "none" => state = "up" /\ savePid = p

\* The file being written.
SaverFile ==
  /\ tmp # NoFile => tmp # snap
  /\ \A p \in Procs :
       /\ spc[p] \in {"write", "rename"} => fd[p] = tmp
       /\ spc[p] = "write" => content[fd[p]] = Blank
       /\ spc[p] = "rename" => content[fd[p]] = [image |-> Image(copy[p]), whole |-> TRUE]

SnapInv == ~orphans => OneSaver /\ SaverFile /\ SnapshotSound

\* What kvstore.snap has for k.
Snapped(k) == IF snap = NoFile THEN 0 ELSE content[snap].image[k]

\* Memory m has for k what the log, or else the snapshot, has.
InLog(m, k) == LastWrite(k) # 0 => m[k] = log[LastWrite(k)].val
InSnapshot(m, k) == ~orphans /\ ~cut /\ LastWrite(k) = 0 => m[k] = Snapped(k)

MemInv ==
  AofOn =>
    /\ state = "up" => \A k \in AllKeys : InLog(mem, k) /\ InSnapshot(mem, k)
    /\ \A p \in Procs : spc[p] # "none" => \A k \in AllKeys : InSnapshot(copy[p], k)

StopInv ==
  /\ before.complete => AofOn
  /\ state \in {"closing", "down", "loaded"} /\ before.complete =>
       \A k \in AllKeys : InLog(before.mem, k) /\ InSnapshot(before.mem, k)

\* Memory while the server starts.
LoadInv ==
  /\ state = "loaded" /\ ~orphans /\ ~cut => \A k \in AllKeys : mem[k] = Snapped(k)
  /\ state = "replayed" => \A k \in AllKeys : InLog(mem, k) /\ InSnapshot(mem, k)

RestartInv ==
  RestartTypeOK /\ ServerSaves /\ SnapInv /\ MemInv /\ StopInv /\ LoadInv /\ CleanRestart

-----------------------------------------------------------------------------
(* Least and greatest numbers, and the last write *)

\* A set of naturals that is not empty has a least element.
LEMMA Least ==
  ASSUME NEW S, S \subseteq Nat, S # {}
  PROVE  \E x \in S : \A y \in S : x =< y
<1> DEFINE R == OpToRel(<, Nat)
<1>1. IsWellFoundedOn(R, Nat)  BY NatLessThanWellFounded
<1>2. PICK x \in S : \A y \in S : ~(<<y, x>> \in R)  BY <1>1, WFMin
<1>3. ASSUME NEW y \in S PROVE x =< y
  <2>1. <<y, x>> \in Nat \X Nat  OBVIOUS
  <2>2. ~(y < x)  BY <1>2, <2>1 DEF OpToRel
  <2> QED  BY <2>2
<1> QED  BY <1>3

\* The least element is an element.
LEMMA MinIn ==
  ASSUME NEW S, S \subseteq Nat, S # {}
  PROVE  Min(S) \in S
BY Least DEF Min

\* A set of naturals up to n that is not empty has a greatest element.
LEMMA MaxIn ==
  ASSUME NEW n \in Nat, NEW S, S \subseteq 1..n, S # {}
  PROVE  Max(S) \in S /\ \A y \in S : Max(S) >= y
<1> DEFINE T == {i \in 0..n : n - i \in S}
<1>1. T \subseteq Nat  OBVIOUS
<1>2. T # {}
  <2>1. PICK s \in S : TRUE  OBVIOUS
  <2>2. n - s \in 0..n /\ n - (n - s) = s  BY <2>1
  <2> QED  BY <2>1, <2>2
<1>3. PICK x \in T : \A y \in T : x =< y  BY <1>1, <1>2, Least
<1>4. n - x \in S  BY <1>3
<1>5. ASSUME NEW s \in S PROVE n - x >= s
  <2>1. n - s \in 0..n /\ n - (n - s) = s  OBVIOUS
  <2>2. n - s \in T  BY <2>1
  <2> QED  BY <1>3, <2>2, <2>1
<1> HIDE DEF T
<1>6. \E z \in S : \A y \in S : z >= y  BY <1>4, <1>5
<1> QED  BY <1>6 DEF Max

Entry == [key : AllKeys, val : Nat]

\* The last write of k is an entry of the log.
LEMMA LastWriteType ==
  ASSUME log \in Seq(Entry), NEW k
  PROVE  /\ LastWrite(k) \in 0..Len(log)
         /\ LastWrite(k) # 0 => LastWrite(k) \in 1..Len(log)
<1>1. Len(log) \in Nat /\ WritesOf(k) \subseteq 1..Len(log)  BY DEF WritesOf
<1>2. CASE WritesOf(k) = {}  BY <1>1, <1>2 DEF LastWrite
<1>3. CASE WritesOf(k) # {}
  <2>1. Max(WritesOf(k)) \in WritesOf(k)  BY <1>1, <1>3, MaxIn
  <2> QED  BY <1>1, <1>3, <2>1 DEF LastWrite
<1> QED  BY <1>2, <1>3

\* Appending a write of j changes the last write of j only.
LEMMA LastWriteAppend ==
  ASSUME log \in Seq(Entry), NEW j \in AllKeys, NEW v \in Nat,
         log' = Append(log, [key |-> j, val |-> v]), NEW k
  PROVE  /\ k # j => /\ LastWrite(k)' = LastWrite(k)
                     /\ LastWrite(k) # 0 => log'[LastWrite(k)] = log[LastWrite(k)]
         /\ k = j => LastWrite(k)' # 0 /\ log'[LastWrite(k)'].val = v
<1> DEFINE e == [key |-> j, val |-> v]
<1>1. e \in Entry /\ e.key = j /\ e.val = v  BY DEF Entry
<1>2. /\ Len(log') = Len(log) + 1 /\ Len(log) \in Nat
      /\ \A i \in 1..Len(log) : log'[i] = log[i]
      /\ log'[Len(log) + 1] = e
  BY <1>1, AppendProperties
<1> HIDE DEF e
<1>3. CASE k # j
  <2>1. WritesOf(k)' = WritesOf(k)  BY <1>1, <1>2, <1>3 DEF WritesOf
  <2>2. LastWrite(k)' = LastWrite(k)  BY <2>1 DEF LastWrite
  <2>3. LastWrite(k) # 0 => log'[LastWrite(k)] = log[LastWrite(k)]  BY <1>2, LastWriteType
  <2> QED  BY <1>3, <2>2, <2>3
<1>4. CASE k = j
  <2> DEFINE n == Len(log) + 1
  <2>1. n \in Nat /\ n \in 1..n /\ n # 0  BY <1>2
  <2>2. WritesOf(k)' \subseteq 1..n /\ n \in WritesOf(k)'  BY <1>1, <1>2, <1>4 DEF WritesOf
  <2>3. Max(WritesOf(k)') \in WritesOf(k)' /\ Max(WritesOf(k)') >= n
    <3>1. WritesOf(k)' # {}  BY <2>2
    <3> HIDE DEF n
    <3> QED  BY <2>1, <2>2, <3>1, MaxIn
  <2>4. Max(WritesOf(k)') = n  BY <2>1, <2>2, <2>3
  <2>5. LastWrite(k)' = n  BY <2>2, <2>4 DEF LastWrite
  <2> QED  BY <1>1, <1>2, <1>4, <2>1, <2>5
<1> QED  BY <1>3, <1>4

-----------------------------------------------------------------------------
(* Images *)

\* An empty memory is a memory.
LEMMA NothingType == Nothing \in Mems
BY DEF Nothing, Mems

\* An empty file is a file.
LEMMA BlankType == Blank \in [image : Mems, whole : BOOLEAN]
BY NothingType DEF Blank

\* What a snapshot holds is a memory.
LEMMA ImageType ==
  ASSUME NEW m \in Mems
  PROVE  Image(m) \in Mems
BY DEF Image, Mems

\* An image written into an empty file is whole.
LEMMA BlankCovered ==
  ASSUME NEW m
  PROVE  Cardinality(Records(Nothing)) <= Cardinality(Records(m))
<1>1. Records(Nothing) = {}  BY DEF Records, Nothing
<1>2. IsFiniteSet(AllKeys)  BY RestartAssumption DEF AllKeys
<1>3. Records(m) \in SUBSET AllKeys  BY DEF Records
<1>4. IsFiniteSet(Records(m))  BY <1>2, <1>3, FS_Subset
<1>5. Cardinality(Records(m)) \in Nat  BY <1>4, FS_CardinalityType
<1>6. Cardinality(Records(Nothing)) = 0  BY <1>1, FS_EmptySet
<1> QED  BY <1>5, <1>6

-----------------------------------------------------------------------------
(* What the operations do *)

\* The server is process 0.
LEMMA ProcsType == Server \in Procs /\ Procs \subseteq Nat /\ Server = 0
BY RestartAssumption DEF Procs, Server

\* Inodes are numbers, and no file is none of them.
LEMMA FilesType == Inodes \subseteq Nat /\ NoFile \notin Inodes /\ NoFile = 0
BY RestartAssumption DEF Inodes, NoFile

\* SAVE starts a child that did not run.
LEMMA SaveStarts ==
  ASSUME RestartTypeOK, Save
  PROVE  \E p \in Procs \ {Server} :
           /\ spc[p] = "none" /\ Starts(p) /\ savePid' = p
           /\ state = "up" /\ SaveAllowed
           /\ UNCHANGED <<state, mem, log, flushed, tmp, snap, content, writes,
                          before, saved, newest, orphans, cut>>
<1> DEFINE idle == {p \in Procs \ {Server} : spc[p] = "none"}
<1>1. idle # {} /\ Starts(Min(idle)) /\ savePid' = Min(idle)  BY DEF Save
<1>2. idle \subseteq Nat  BY ProcsType
<1>3. Min(idle) \in idle
  <2> HIDE DEF idle
  <2> QED  BY <1>1, <1>2, MinIn
<1> QED  BY <1>1, <1>3 DEF Save, histVars

\* The temporary file is the one of that name, or one nobody uses.
LEMMA OpensFile ==
  ASSUME RestartTypeOK, NEW p \in Procs, SaverOpens(p)
  PROVE  /\ tmp' \in Inodes
         /\ tmp # NoFile => tmp' = tmp
         /\ tmp = NoFile => tmp' # snap
<1> DEFINE unused == {i \in Inodes : i # snap /\ \A q \in Procs : fd[q] # i}
<1>1. CASE tmp # NoFile  BY <1>1 DEF SaverOpens, RestartTypeOK, Files
<1>2. CASE tmp = NoFile
  <2>1. unused # {} /\ tmp' = Min(unused)  BY <1>2 DEF SaverOpens
  <2>2. unused \subseteq Nat  BY FilesType
  <2>3. Min(unused) \in unused
    <3> HIDE DEF unused
    <3> QED  BY <2>1, <2>2, MinIn
  <2> QED  BY <1>2, <2>1, <2>3
<1> QED  BY <1>1, <1>2

-----------------------------------------------------------------------------
(* Types *)

\* What a write does, whichever command it comes from.
Wrote ==
  \E k \in AllKeys, v \in Nat :
    /\ state = "up"
    /\ mem' = [mem EXCEPT ![k] = v]
    /\ log' = IF AofOn THEN Append(log, [key |-> k, val |-> v]) ELSE log
    /\ writes' = writes + 1
    /\ UNCHANGED <<state, flushed, fileVars, saverVars, before, saved, orphans, cut>>

\* Every command writes memory and log together.
LEMMA CommandWrites ==
  ASSUME RestartTypeOK, NEW k \in AllKeys, SetKey(k) \/ DelKey(k) \/ Keep(k)
  PROVE  Wrote
<1>1. writes + 1 \in Nat /\ 0 \in Nat  BY DEF RestartTypeOK
<1>2. PICK v \in Nat : Write(k, v)  BY <1>1 DEF SetKey, DelKey, Keep
<1> QED  BY <1>2 DEF Write, Wrote

\* The initial state has its types.
LEMMA TypeInit ==
  ASSUME RestartInit
  PROVE  RestartTypeOK
<1>1. Len(log) = 0 /\ log \in Seq(Entry)  BY DEF RestartInit
<1>2. Unknown \in [mem : Mems, complete : BOOLEAN]  BY NothingType DEF Unknown
<1>3. /\ spc \in [Procs -> {"none", "open", "write", "rename"}]
      /\ \A p \in Procs : spc[p] \notin {"write", "rename"}
  BY DEF RestartInit
<1>4. copy \in [Procs -> Mems] /\ fd \in [Procs -> Files]  BY NothingType DEF RestartInit, Files
<1>5. content \in [Inodes -> [image : Mems, whole : BOOLEAN]]  BY BlankType DEF RestartInit
<1>6. mem \in Mems /\ saved \in Mems /\ before \in [mem : Mems, complete : BOOLEAN]
  BY <1>2, NothingType DEF RestartInit
<1>7. /\ state = "up" /\ flushed \in 0..Len(log) /\ savePid \in Procs /\ writes \in Nat
      /\ orphans \in BOOLEAN /\ cut \in BOOLEAN
  BY <1>1, ProcsType DEF RestartInit
<1>8. tmp \in Files /\ snap \in Files  BY DEF RestartInit, Files
<1> QED  BY <1>1, <1>3, <1>4, <1>5, <1>6, <1>7, <1>8 DEF RestartTypeOK, Entry

\* Commands keep the types.
LEMMA TypeWrote ==
  ASSUME RestartTypeOK, Wrote
  PROVE  RestartTypeOK'
<1> PICK k \in AllKeys, v \in Nat :
      /\ mem' = [mem EXCEPT ![k] = v]
      /\ log' = IF AofOn THEN Append(log, [key |-> k, val |-> v]) ELSE log
      /\ writes' = writes + 1
      /\ UNCHANGED <<state, flushed, fileVars, saverVars, before, saved, orphans, cut>>
  BY DEF Wrote
<1>1. mem' \in Mems  BY DEF RestartTypeOK, Mems
<1>2. log' \in Seq(Entry) /\ flushed' \in 0..Len(log')
  <2>1. CASE ~AofOn  BY <2>1 DEF RestartTypeOK, Entry
  <2>2. CASE AofOn
    <3>1. [key |-> k, val |-> v] \in Entry /\ log \in Seq(Entry)  BY DEF Entry, RestartTypeOK
    <3>2. log' \in Seq(Entry) /\ Len(log') = Len(log) + 1  BY <2>2, <3>1, AppendProperties
    <3> QED  BY <3>1, <3>2 DEF RestartTypeOK
  <2> QED  BY <2>1, <2>2
<1>3. writes' \in Nat  BY DEF RestartTypeOK
<1> QED  BY <1>1, <1>2, <1>3 DEF RestartTypeOK, fileVars, saverVars, Entry

\* A process that begins to save.
LEMMA TypeStarts ==
  ASSUME RestartTypeOK, NEW p \in Procs, Starts(p)
  PROVE  /\ spc' \in [Procs -> {"none", "open", "write", "rename"}]
         /\ copy' \in [Procs -> Mems] /\ fd' \in [Procs -> Files]
         /\ \A q \in Procs : spc'[q] \in {"write", "rename"} => fd'[q] # NoFile
BY DEF RestartTypeOK, Starts, Files

\* A process that ends saving.
LEMMA TypeEnds ==
  ASSUME RestartTypeOK, NEW p \in Procs, SaverEnds(p)
  PROVE  /\ state' \in {"up", "closing", "down", "loaded", "replayed"} /\ mem' \in Mems
         /\ spc' \in [Procs -> {"none", "open", "write", "rename"}]
         /\ copy' \in [Procs -> Mems] /\ fd' \in [Procs -> Files]
         /\ \A q \in Procs : spc'[q] \in {"write", "rename"} => fd'[q] # NoFile
BY NothingType DEF RestartTypeOK, SaverEnds, Files

\* The steps of kvs_snapshot_save keep the types.
LEMMA TypeSaver ==
  ASSUME RestartTypeOK, NEW p \in Procs,
         SaverOpens(p) \/ SaverWrites(p) \/ SaverWriteFails(p) \/ SaverRenames(p) \/ SaverDies(p)
  PROVE  RestartTypeOK'
<1>1. CASE SaverOpens(p)
  <2>1. tmp' \in Inodes  BY <1>1, OpensFile
  <2>2. content' \in [Inodes -> [image : Mems, whole : BOOLEAN]]
    BY <1>1, <2>1, BlankType DEF SaverOpens, RestartTypeOK
  <2>3. /\ spc' \in [Procs -> {"none", "open", "write", "rename"}]
        /\ fd' \in [Procs -> Files] /\ tmp' \in Files
        /\ \A q \in Procs : spc'[q] \in {"write", "rename"} => fd'[q] # NoFile
    BY <1>1, <2>1, FilesType DEF SaverOpens, RestartTypeOK, Files
  <2> QED  BY <1>1, <2>1, <2>2, <2>3 DEF SaverOpens, RestartTypeOK, histVars
<1>2. CASE SaverWrites(p)
  <2>1. fd[p] \in Inodes  BY <1>2 DEF SaverWrites, RestartTypeOK, Files
  <2>2. Image(copy[p]) \in Mems /\ content[fd[p]].image \in Mems
    BY <2>1, ImageType DEF RestartTypeOK
  <2>3. content' \in [Inodes -> [image : Mems, whole : BOOLEAN]]
    BY <1>2, <2>1, <2>2 DEF SaverWrites, RestartTypeOK
  <2>4. /\ spc' \in [Procs -> {"none", "open", "write", "rename"}]
        /\ \A q \in Procs : spc'[q] \in {"write", "rename"} => fd'[q] # NoFile
    BY <1>2 DEF SaverWrites, RestartTypeOK
  <2> QED  BY <1>2, <2>3, <2>4 DEF SaverWrites, RestartTypeOK, histVars
<1>3. CASE SaverWriteFails(p)
  <2>1. SaverEnds(p)  BY <1>3 DEF SaverWriteFails
  <2>2. content' \in [Inodes -> [image : Mems, whole : BOOLEAN]]
    BY <1>3 DEF SaverWriteFails, RestartTypeOK
  <2> QED  BY <1>3, <2>1, <2>2, TypeEnds DEF SaverWriteFails, RestartTypeOK, histVars, Files
<1>4. CASE SaverRenames(p)
  <2>1. SaverEnds(p)  BY <1>4 DEF SaverRenames
  <2>2. tmp' \in Files /\ snap' \in Files /\ saved' \in Mems
    BY <1>4 DEF SaverRenames, RestartTypeOK, Files
  <2> QED  BY <1>4, <2>1, <2>2, TypeEnds DEF SaverRenames, RestartTypeOK
<1>5. CASE SaverDies(p)
  <2>1. SaverEnds(p)  BY <1>5 DEF SaverDies
  <2> QED  BY <1>5, <2>1, TypeEnds DEF SaverDies, RestartTypeOK, histVars, fileVars
<1> QED  BY <1>1, <1>2, <1>3, <1>4, <1>5

\* Crash and shutdown keep the types.
LEMMA TypeStop ==
  ASSUME RestartTypeOK, Crash \/ Shutdown
  PROVE  RestartTypeOK'
<1>1. CASE Crash
  <2>1. log \in Seq(Entry) /\ flushed \in Nat /\ flushed <= Len(log) /\ Len(log) \in Nat
    BY DEF RestartTypeOK, Entry
  <2>2. \A i \in 1..flushed : log[i] \in Entry  BY <2>1
  <2>3. log' \in Seq(Entry) /\ Len(log') = flushed
    BY <1>1, <2>1, <2>2, SubSeqProperties DEF Crash
  <2>4. before' \in [mem : Mems, complete : BOOLEAN]
    BY <1>1, RestartAssumption DEF Crash, RestartTypeOK
  <2>5. orphans' \in BOOLEAN  BY <1>1 DEF Crash, RestartTypeOK, ChildAlive
  <2> QED  BY <1>1, <2>1, <2>3, <2>4, <2>5, ProcsType, NothingType
       DEF Crash, RestartTypeOK, Entry, saverVars
<1>2. CASE Shutdown
  <2>1. Starts(Server)  BY <1>2 DEF Shutdown
  <2>2. before' \in [mem : Mems, complete : BOOLEAN] /\ orphans' \in BOOLEAN
    BY <1>2, RestartAssumption DEF Shutdown, RestartTypeOK, ChildAlive
  <2>3. flushed' \in 0..Len(log')  BY <1>2 DEF Shutdown, RestartTypeOK
  <2> QED  BY <1>2, <2>1, <2>2, <2>3, ProcsType, TypeStarts DEF Shutdown, RestartTypeOK
<1> QED  BY <1>1, <1>2

\* The steps of init_kvengine keep the types.
LEMMA TypeStart ==
  ASSUME RestartTypeOK, LoadSnapshot \/ ReplayLog \/ KeepIndexInit
  PROVE  RestartTypeOK'
<1>1. CASE LoadSnapshot
  <2>1. Loadable \in Mems  BY NothingType DEF Loadable, RestartTypeOK, Files
  <2>2. mem' \in Mems /\ cut' \in BOOLEAN  BY <1>1, <2>1 DEF LoadSnapshot, RestartTypeOK, Mems
  <2> QED  BY <1>1, <2>2 DEF LoadSnapshot, RestartTypeOK, saverVars, fileVars
<1>2. CASE ReplayLog
  <2>1. ASSUME NEW k \in AllKeys PROVE Replayed(k) \in Nat
    <3>1. log \in Seq(Entry) /\ mem[k] \in Nat  BY DEF RestartTypeOK, Entry, Mems
    <3>2. LastWrite(k) # 0 => log[LastWrite(k)] \in Entry  BY <3>1, LastWriteType
    <3> QED  BY <3>1, <3>2 DEF Replayed, Entry
  <2>2. mem' \in Mems  BY <1>2, <2>1 DEF ReplayLog, Mems
  <2> QED  BY <1>2, <2>2 DEF ReplayLog, RestartTypeOK, saverVars, fileVars, histVars
<1>3. CASE KeepIndexInit
  <2>1. before' \in [mem : Mems, complete : BOOLEAN]
    BY <1>3, NothingType DEF KeepIndexInit, Unknown
  <2> QED  BY <1>3, <2>1 DEF KeepIndexInit, RestartTypeOK, saverVars, fileVars
<1> QED  BY <1>1, <1>2, <1>3

\* Every step keeps the types.
LEMMA TypeStep ==
  ASSUME RestartTypeOK, [RestartNext]_bootVars
  PROVE  RestartTypeOK'
<1>1. CASE \E k \in AllKeys : SetKey(k) \/ DelKey(k) \/ Keep(k)
  BY <1>1, CommandWrites, TypeWrote
<1>2. CASE Flush
  <2>1. flushed' \in 0..Len(log)  BY <1>2 DEF Flush, RestartTypeOK
  <2> QED  BY <1>2, <2>1 DEF Flush, RestartTypeOK, fileVars, saverVars, histVars
<1>3. CASE Save
  <2>1. PICK p \in Procs \ {Server} :
          /\ Starts(p) /\ savePid' = p
          /\ UNCHANGED <<state, mem, log, flushed, tmp, snap, content, writes,
                         before, saved, newest, orphans, cut>>
    BY <1>3, SaveStarts
  <2> QED  BY <2>1, TypeStarts DEF RestartTypeOK
<1>4. CASE \E p \in Procs : SaverOpens(p) \/ SaverWrites(p) \/ SaverWriteFails(p)
                             \/ SaverRenames(p) \/ SaverDies(p)
  BY <1>4, TypeSaver
<1>5. CASE Crash \/ Shutdown  BY <1>5, TypeStop
<1>6. CASE LoadSnapshot \/ ReplayLog \/ KeepIndexInit  BY <1>6, TypeStart
<1>7. CASE UNCHANGED bootVars  BY <1>7 DEF bootVars, RestartTypeOK
<1> QED  BY <1>1, <1>2, <1>3, <1>4, <1>5, <1>6, <1>7 DEF RestartNext

-----------------------------------------------------------------------------
(* SnapInv is inductive *)

\* Steps that leave savers and files alone, and do not stop the server.
LEMMA SnapQuiet ==
  ASSUME RestartTypeOK, ServerSaves, SnapInv,
         UNCHANGED <<spc, copy, fd, savePid, tmp, snap, content, saved, orphans>>,
         state' = state \/ state \in {"down", "loaded", "replayed"}
  PROVE  ServerSaves' /\ SnapInv'
<1>1. ServerSaves'  BY DEF ServerSaves
<1>2. ASSUME ~orphans' PROVE OneSaver' /\ SaverFile' /\ SnapshotSound'
  <2>1. OneSaver /\ SaverFile /\ SnapshotSound  BY <1>2 DEF SnapInv
  <2>2. OneSaver'  BY <2>1 DEF OneSaver
  <2>3. SaverFile'  BY <2>1 DEF SaverFile
  <2>4. SnapshotSound'  BY <2>1 DEF SnapshotSound
  <2> QED  BY <2>2, <2>3, <2>4
<1> QED  BY <1>1, <1>2 DEF SnapInv

\* While one process saves, no other does.
LEMMA Alone ==
  ASSUME ServerSaves, OneSaver, NEW p \in Procs, NEW r \in Procs,
         spc[p] # "none", spc[r] # "none"
  PROVE  p = r
BY DEF ServerSaves, OneSaver

\* SAVE forks a child only when none is saving.
LEMMA SnapSave ==
  ASSUME RestartTypeOK, ServerSaves, SnapInv, Save
  PROVE  ServerSaves' /\ SnapInv'
<1> PICK p \in Procs \ {Server} :
      /\ spc[p] = "none" /\ Starts(p) /\ savePid' = p
      /\ state = "up" /\ SaveAllowed
      /\ UNCHANGED <<state, mem, log, flushed, tmp, snap, content, writes,
                     before, saved, newest, orphans, cut>>
  BY SaveStarts
<1>1. /\ spc' = [spc EXCEPT ![p] = "open"] /\ spc \in [Procs -> {"none", "open", "write", "rename"}]
      /\ copy' = [copy EXCEPT ![p] = mem] /\ copy \in [Procs -> Mems]
      /\ fd' = [fd EXCEPT ![p] = NoFile] /\ fd \in [Procs -> Files]
  BY DEF Starts, RestartTypeOK
<1>2. ServerSaves'  BY <1>1, ProcsType DEF ServerSaves
<1>3. ASSUME ~orphans' PROVE OneSaver' /\ SaverFile' /\ SnapshotSound'
  <2>1. OneSaver /\ SaverFile /\ SnapshotSound  BY <1>3 DEF SnapInv
  <2>2. \A q \in Procs : spc[q] = "none"  BY <2>1 DEF OneSaver, ServerSaves, SaveAllowed
  <2>3. OneSaver'  BY <1>1, <2>2 DEF OneSaver
  <2>4. \A q \in Procs : spc'[q] \in {"none", "open"}  BY <1>1, <2>2
  <2>5. SaverFile'  BY <2>1, <2>4 DEF SaverFile
  <2>6. SnapshotSound'  BY <2>1 DEF SnapshotSound
  <2> QED  BY <2>3, <2>5, <2>6
<1> QED  BY <1>2, <1>3 DEF SnapInv

\* Opening truncates the temporary file, or makes a new one.
LEMMA SnapOpens ==
  ASSUME RestartTypeOK, ServerSaves, SnapInv, NEW p \in Procs, SaverOpens(p)
  PROVE  ServerSaves' /\ SnapInv'
<1>1. /\ spc[p] = "open"
      /\ spc' = [spc EXCEPT ![p] = "write"] /\ spc \in [Procs -> {"none", "open", "write", "rename"}]
      /\ fd' = [fd EXCEPT ![p] = tmp'] /\ fd \in [Procs -> Files]
      /\ content' = [content EXCEPT ![tmp'] = Blank]
      /\ content \in [Inodes -> [image : Mems, whole : BOOLEAN]]
      /\ UNCHANGED <<state, savePid, copy, snap, saved, orphans, cut>>
  BY DEF SaverOpens, RestartTypeOK, histVars
<1>2. ServerSaves'  BY <1>1, ProcsType DEF ServerSaves
<1>3. ASSUME ~orphans' PROVE OneSaver' /\ SaverFile' /\ SnapshotSound'
  <2>1. OneSaver /\ SaverFile /\ SnapshotSound  BY <1>1, <1>3 DEF SnapInv
  <2>2. tmp' \in Inodes /\ tmp' # snap  BY <2>1, OpensFile DEF SaverFile
  <2>3. OneSaver'  BY <1>1, <2>1 DEF OneSaver
  <2>4. ASSUME NEW q \in Procs, q # p PROVE spc'[q] = "none"
    BY <1>1, <2>1, <2>4, Alone
  <2>5. spc'[p] = "write" /\ fd'[p] = tmp' /\ content'[tmp'] = Blank  BY <1>1, <2>2
  <2>6. SaverFile'  BY <1>1, <2>2, <2>4, <2>5 DEF SaverFile
  <2>7. snap # NoFile => content'[snap] = content[snap]  BY <1>1, <2>2 DEF RestartTypeOK, Files
  <2>8. SnapshotSound'  BY <1>1, <2>1, <2>7 DEF SnapshotSound
  <2> QED  BY <2>3, <2>6, <2>8
<1> QED  BY <1>2, <1>3 DEF SnapInv

\* Writing completes the file that is open.
LEMMA SnapWrites ==
  ASSUME RestartTypeOK, ServerSaves, SnapInv, NEW p \in Procs, SaverWrites(p)
  PROVE  ServerSaves' /\ SnapInv'
<1>1. /\ spc[p] = "write"
      /\ spc' = [spc EXCEPT ![p] = "rename"] /\ spc \in [Procs -> {"none", "open", "write", "rename"}]
      /\ content \in [Inodes -> [image : Mems, whole : BOOLEAN]]
      /\ fd[p] \in Inodes
      /\ UNCHANGED <<state, savePid, copy, fd, tmp, snap, saved, orphans, cut>>
  BY DEF SaverWrites, RestartTypeOK, Files, histVars
<1>2. ServerSaves'  BY <1>1, ProcsType DEF ServerSaves
<1>3. ASSUME ~orphans' PROVE OneSaver' /\ SaverFile' /\ SnapshotSound'
  <2>1. OneSaver /\ SaverFile /\ SnapshotSound  BY <1>1, <1>3 DEF SnapInv
  <2>2. fd[p] = tmp /\ tmp # snap /\ content[fd[p]] = Blank
    BY <1>1, <2>1, FilesType DEF SaverFile
  <2>3. content' = [content EXCEPT ![fd[p]] = [image |-> Image(copy[p]), whole |-> TRUE]]
    <3>1. content[fd[p]].image = Nothing  BY <2>2 DEF Blank
    <3>2. Cardinality(Records(content[fd[p]].image)) <= Cardinality(Records(Image(copy[p])))
      BY <3>1, BlankCovered
    <3> QED  BY <3>2 DEF SaverWrites
  <2>4. OneSaver'  BY <1>1, <2>1 DEF OneSaver
  <2>5. ASSUME NEW q \in Procs, q # p PROVE spc'[q] = "none"
    BY <1>1, <2>1, <2>5, Alone
  <2>6. /\ spc'[p] = "rename" /\ fd'[p] = tmp' /\ tmp' # snap'
        /\ content'[fd'[p]] = [image |-> Image(copy'[p]), whole |-> TRUE]
    BY <1>1, <2>2, <2>3
  <2>7. Image(copy[p])' = Image(copy'[p])  BY DEF Image
  <2>8. SaverFile'  BY <2>5, <2>6, <2>7 DEF SaverFile
  <2>9. content'[snap] = content[snap]  BY <1>1, <2>2, <2>3
  <2>10. SnapshotSound'  BY <1>1, <2>1, <2>9 DEF SnapshotSound
  <2> QED  BY <2>4, <2>8, <2>10
<1> QED  BY <1>2, <1>3 DEF SnapInv

\* The end of kvs_snapshot_save.
LEMMA SnapEnds ==
  ASSUME RestartTypeOK, ServerSaves, OneSaver, NEW p \in Procs,
         spc[p] # "none", SaverEnds(p), savePid' = savePid
  PROVE  OneSaver' /\ \A q \in Procs : spc'[q] = "none"
<1>1. /\ spc' = [spc EXCEPT ![p] = "none"] /\ spc \in [Procs -> {"none", "open", "write", "rename"}]
  BY DEF SaverEnds, RestartTypeOK
<1>2. ASSUME NEW q \in Procs PROVE spc'[q] = "none"  BY <1>1, Alone
<1> QED  BY <1>2 DEF OneSaver

\* Renaming, failing and dying.
LEMMA SnapLast ==
  ASSUME RestartTypeOK, ServerSaves, SnapInv, NEW p \in Procs,
         SaverWriteFails(p) \/ SaverRenames(p) \/ SaverDies(p)
  PROVE  ServerSaves' /\ SnapInv'
<1>1. /\ spc[p] # "none" /\ SaverEnds(p) /\ UNCHANGED <<savePid, orphans, cut>>
      /\ spc' = [spc EXCEPT ![p] = "none"] /\ spc \in [Procs -> {"none", "open", "write", "rename"}]
      /\ state' = IF p = Server THEN "down" ELSE state
  BY DEF SaverWriteFails, SaverRenames, SaverDies, SaverEnds, RestartTypeOK, fileVars, histVars
<1>2. ServerSaves'  BY <1>1, ProcsType DEF ServerSaves
<1>3. ASSUME ~orphans' PROVE OneSaver' /\ SaverFile' /\ SnapshotSound'
  <2>1. OneSaver /\ SaverFile /\ SnapshotSound  BY <1>1, <1>3 DEF SnapInv
  <2>2. OneSaver' /\ \A q \in Procs : spc'[q] = "none"  BY <1>1, <2>1, SnapEnds
  <2>3. CASE SaverWriteFails(p)
    <3>1. /\ content' = [content EXCEPT ![fd[p]].whole = FALSE]
          /\ tmp' = NoFile /\ snap' = snap /\ saved' = saved
      BY <2>3 DEF SaverWriteFails, histVars
    <3>2. fd[p] = tmp /\ tmp # snap
      BY <2>1, <2>3, FilesType DEF SaverFile, SaverWriteFails, RestartTypeOK
    <3>3. SaverFile'  BY <2>2, <3>1 DEF SaverFile
    <3>4. snap # NoFile => content'[snap] = content[snap]
      BY <3>1, <3>2 DEF RestartTypeOK, Files
    <3>5. SnapshotSound'  BY <1>1, <2>1, <3>1, <3>4 DEF SnapshotSound
    <3> QED  BY <2>2, <3>3, <3>5
  <2>4. CASE SaverRenames(p)
    <3>1. fd[p] = tmp /\ tmp # NoFile /\ content[tmp] = [image |-> Image(copy[p]), whole |-> TRUE]
      BY <2>1, <2>4 DEF SaverFile, SaverRenames, RestartTypeOK
    <3>2. tmp' = NoFile /\ snap' = tmp /\ saved' = copy[p] /\ content' = content
      BY <2>4, <3>1 DEF SaverRenames
    <3>3. SaverFile'  BY <2>2, <3>2 DEF SaverFile
    <3>4. SnapshotSound'  BY <3>1, <3>2 DEF SnapshotSound
    <3> QED  BY <2>2, <3>3, <3>4
  <2>5. CASE SaverDies(p)
    <3>1. UNCHANGED <<tmp, snap, content, saved>>  BY <2>5 DEF SaverDies, fileVars, histVars
    <3>2. SaverFile'  BY <2>1, <2>2, <3>1 DEF SaverFile
    <3>3. SnapshotSound'  BY <1>1, <2>1, <3>1 DEF SnapshotSound
    <3> QED  BY <2>2, <3>2, <3>3
  <2> QED  BY <2>3, <2>4, <2>5
<1> QED  BY <1>2, <1>3 DEF SnapInv

\* A crash leaves children behind; a shutdown makes the server save.
LEMMA SnapStop ==
  ASSUME RestartTypeOK, ServerSaves, SnapInv, Crash \/ Shutdown
  PROVE  ServerSaves' /\ SnapInv'
<1>1. /\ state = "up" /\ UNCHANGED <<tmp, snap, content, saved>>
      /\ orphans' = (orphans \/ ChildAlive)
  BY DEF Crash, Shutdown
<1>2. spc[Server] = "none"  BY <1>1 DEF ServerSaves
<1>3. \/ state' = "down" /\ spc' = spc
      \/ state' = "closing" /\ spc' = [spc EXCEPT ![Server] = "open"]
  BY DEF Crash, Shutdown, saverVars, Starts
<1>4. ServerSaves'  BY <1>2, <1>3 DEF ServerSaves
<1>5. ASSUME ~orphans' PROVE OneSaver' /\ SaverFile' /\ SnapshotSound'
  <2>1. OneSaver /\ SaverFile /\ SnapshotSound  BY <1>1, <1>5 DEF SnapInv
  <2>2. \A q \in Procs \ {Server} : spc[q] = "none"  BY <1>1, <1>5 DEF ChildAlive
  <2>3. \A q \in Procs : spc'[q] \in {"none", "open"} /\ (q # Server => spc'[q] = "none")
    BY <1>2, <1>3, <2>2 DEF RestartTypeOK
  <2>4. OneSaver'  BY <2>3 DEF OneSaver
  <2>5. SaverFile'  BY <1>1, <2>1, <2>3 DEF SaverFile
  <2>6. SnapshotSound'  BY <1>1, <1>5, <2>1 DEF SnapshotSound
  <2> QED  BY <2>4, <2>5, <2>6
<1> QED  BY <1>4, <1>5 DEF SnapInv

\* Every step keeps the snapshot sound.
LEMMA SnapStep ==
  ASSUME RestartTypeOK, ServerSaves, SnapInv, [RestartNext]_bootVars
  PROVE  ServerSaves' /\ SnapInv'
<1>1. CASE \E k \in AllKeys : SetKey(k) \/ DelKey(k) \/ Keep(k)
  <2>1. Wrote  BY <1>1, CommandWrites
  <2> QED  BY <2>1, SnapQuiet DEF Wrote, fileVars, saverVars
<1>2. CASE Flush  BY <1>2, SnapQuiet DEF Flush, fileVars, saverVars, histVars
<1>3. CASE Save  BY <1>3, SnapSave
<1>4. CASE \E p \in Procs : SaverOpens(p) \/ SaverWrites(p) \/ SaverWriteFails(p)
                             \/ SaverRenames(p) \/ SaverDies(p)
  BY <1>4, SnapOpens, SnapWrites, SnapLast
<1>5. CASE Crash \/ Shutdown  BY <1>5, SnapStop
<1>6. CASE LoadSnapshot  BY <1>6, SnapQuiet DEF LoadSnapshot, fileVars, saverVars
<1>7. CASE ReplayLog  BY <1>7, SnapQuiet DEF ReplayLog, fileVars, saverVars, histVars
<1>8. CASE KeepIndexInit  BY <1>8, SnapQuiet DEF KeepIndexInit, fileVars, saverVars
<1>9. CASE UNCHANGED bootVars  BY <1>9, SnapQuiet DEF bootVars
<1> QED  BY <1>1, <1>2, <1>3, <1>4, <1>5, <1>6, <1>7, <1>8, <1>9 DEF RestartNext

-----------------------------------------------------------------------------
(* Where the values are *)

\* The part of the invariant about values.
ValueInv == MemInv /\ StopInv /\ LoadInv /\ CleanRestart

\* A snapshot has nothing of the array while TTL is off.
LEMMA SnappedImage ==
  ASSUME RestartTypeOK, SnapshotSound, ~orphans, NEW k \in AllKeys, k \in ArrayKeys, ~TtlOn
  PROVE  Snapped(k) = 0
BY DEF Snapped, SnapshotSound, Image

\* What a process that saves leaves alone.
LEMMA SaverKeeps ==
  ASSUME RestartTypeOK, ServerSaves, NEW p \in Procs,
         SaverOpens(p) \/ SaverWrites(p) \/ SaverWriteFails(p) \/ SaverRenames(p) \/ SaverDies(p)
  PROVE  /\ spc[p] # "none"
         /\ UNCHANGED <<log, before, orphans, cut>>
         /\ \/ state' = state /\ mem' = mem
            \/ state = "closing" /\ state' = "down"
         /\ \A q \in Procs : spc'[q] # "none" => spc[q] # "none" /\ copy'[q] = copy[q]
<1>1. CASE SaverOpens(p)  BY <1>1 DEF SaverOpens, RestartTypeOK, histVars
<1>2. CASE SaverWrites(p)  BY <1>2 DEF SaverWrites, RestartTypeOK, histVars
<1>3. CASE SaverWriteFails(p) \/ SaverRenames(p) \/ SaverDies(p)
  <2>1. spc[p] # "none" /\ SaverEnds(p) /\ UNCHANGED <<log, before, orphans, cut>>
    BY <1>3 DEF SaverWriteFails, SaverRenames, SaverDies, histVars
  <2> QED  BY <2>1 DEF SaverEnds, RestartTypeOK, ServerSaves
<1> QED  BY <1>1, <1>2, <1>3

\* A new snapshot says the same about the keys the log does not have.
LEMMA SaverSnapped ==
  ASSUME RestartTypeOK, ServerSaves, SnapInv, MemInv, AofOn, ~orphans, ~cut,
         NEW k \in AllKeys, LastWrite(k) = 0, NEW p \in Procs,
         SaverOpens(p) \/ SaverWrites(p) \/ SaverWriteFails(p) \/ SaverRenames(p) \/ SaverDies(p)
  PROVE  Snapped(k)' = Snapped(k)
<1>1. OneSaver /\ SaverFile /\ SnapshotSound  BY DEF SnapInv
<1>2. CASE SaverOpens(p)
  <2>1. tmp' \in Inodes /\ tmp' # snap  BY <1>1, <1>2, OpensFile DEF SaverFile
  <2>2. content' = [content EXCEPT ![tmp'] = Blank] /\ snap' = snap  BY <1>2 DEF SaverOpens
  <2>3. snap # NoFile => content'[snap] = content[snap]  BY <2>1, <2>2 DEF RestartTypeOK, Files
  <2> QED  BY <2>2, <2>3 DEF Snapped
<1>3. CASE SaverWrites(p) \/ SaverWriteFails(p)
  <2>1. fd[p] = tmp /\ tmp # snap /\ snap' = snap
    BY <1>1, <1>3 DEF SaverFile, SaverWrites, SaverWriteFails, RestartTypeOK
  <2>2. snap # NoFile => content'[snap] = content[snap]
    BY <1>3, <2>1 DEF SaverWrites, SaverWriteFails, RestartTypeOK, Files
  <2> QED  BY <2>1, <2>2 DEF Snapped
<1>4. CASE SaverRenames(p)
  <2>1. tmp # NoFile /\ content[tmp] = [image |-> Image(copy[p]), whole |-> TRUE]
    BY <1>1, <1>4 DEF SaverFile, SaverRenames, RestartTypeOK
  <2>2. snap' = tmp /\ content' = content  BY <1>4, <2>1 DEF SaverRenames
  <2>3. Snapped(k)' = Image(copy[p])[k]  BY <2>1, <2>2 DEF Snapped
  <2>4. copy[p][k] = Snapped(k)  BY <1>4 DEF MemInv, InSnapshot, SaverRenames
  <2>5. CASE k \in ArrayKeys /\ ~TtlOn
    <3>1. Snapped(k) = 0  BY <1>1, <2>5, SnappedImage
    <3> QED  BY <2>3, <2>5, <3>1 DEF Image
  <2>6. CASE ~(k \in ArrayKeys /\ ~TtlOn)  BY <2>3, <2>4, <2>6 DEF Image
  <2> QED  BY <2>5, <2>6
<1>5. CASE SaverDies(p)  BY <1>5 DEF SaverDies, Snapped, fileVars
<1> QED  BY <1>2, <1>3, <1>4, <1>5

\* The last write of a key depends on the log only.
LEMMA SameLog ==
  ASSUME UNCHANGED log, NEW k
  PROVE  LastWrite(k)' = LastWrite(k)
BY DEF LastWrite, WritesOf

\* The steps of kvs_snapshot_save.
LEMMA ValueSaver ==
  ASSUME RestartTypeOK, ServerSaves, SnapInv, ValueInv, NEW p \in Procs,
         SaverOpens(p) \/ SaverWrites(p) \/ SaverWriteFails(p) \/ SaverRenames(p) \/ SaverDies(p)
  PROVE  ValueInv'
<1>1. /\ spc[p] # "none" /\ UNCHANGED <<log, before, orphans, cut>>
      /\ \/ state' = state /\ mem' = mem
         \/ state = "closing" /\ state' = "down"
      /\ \A q \in Procs : spc'[q] # "none" => spc[q] # "none" /\ copy'[q] = copy[q]
  BY SaverKeeps
<1>2. \A k : LastWrite(k)' = LastWrite(k)  BY <1>1, SameLog
<1>3. MemInv /\ StopInv /\ LoadInv /\ CleanRestart  BY DEF ValueInv
<1>4. ~orphans => state \in {"up", "closing"}  BY <1>1 DEF SnapInv, OneSaver, ServerSaves
<1>5. \A k \in AllKeys : AofOn /\ ~orphans /\ ~cut /\ LastWrite(k) = 0 => Snapped(k)' = Snapped(k)
  BY <1>3, SaverSnapped
<1>6. MemInv'
  <2>1. ASSUME AofOn, state' = "up", NEW k \in AllKeys PROVE InLog(mem, k)' /\ InSnapshot(mem, k)'
    <3>1. mem' = mem /\ InLog(mem, k) /\ InSnapshot(mem, k)  BY <1>1, <1>3, <2>1 DEF MemInv
    <3> QED  BY <1>1, <1>2, <1>5, <2>1, <3>1 DEF InLog, InSnapshot
  <2>2. ASSUME AofOn, NEW q \in Procs, spc'[q] # "none", NEW k \in AllKeys
        PROVE  InSnapshot(copy[q], k)'
    <3>1. copy'[q] = copy[q] /\ InSnapshot(copy[q], k)  BY <1>1, <1>3, <2>2 DEF MemInv
    <3> QED  BY <1>1, <1>2, <1>5, <2>2, <3>1 DEF InSnapshot
  <2> QED  BY <2>1, <2>2 DEF MemInv
<1>7. StopInv'
  <2>1. before.complete => AofOn  BY <1>3 DEF StopInv
  <2>2. ASSUME state' \in {"closing", "down", "loaded"}, before.complete, NEW k \in AllKeys
        PROVE  InLog(before.mem, k)' /\ InSnapshot(before.mem, k)'
    <3>1. InLog(before.mem, k) /\ InSnapshot(before.mem, k)  BY <1>1, <1>3, <2>2 DEF StopInv
    <3> QED  BY <1>1, <1>2, <1>5, <2>1, <2>2, <3>1 DEF InLog, InSnapshot
  <2> QED  BY <1>1, <2>1, <2>2 DEF StopInv
<1>8. LoadInv'
  <2>1. ~(state' = "loaded" /\ ~orphans')  BY <1>1, <1>4
  <2>2. ASSUME state' = "replayed", NEW k \in AllKeys PROVE InLog(mem, k)' /\ InSnapshot(mem, k)'
    <3>1. mem' = mem /\ InLog(mem, k)  BY <1>1, <1>3, <2>2 DEF LoadInv
    <3>2. orphans'  BY <1>1, <1>4, <2>2
    <3> QED  BY <1>1, <1>2, <3>1, <3>2 DEF InLog, InSnapshot
  <2> QED  BY <2>1, <2>2 DEF LoadInv
<1>9. CleanRestart'  BY <1>1, <1>2, <1>3 DEF CleanRestart
<1> QED  BY <1>6, <1>7, <1>8, <1>9 DEF ValueInv

\* A command, in memory and in the log.
LEMMA ValueWrote ==
  ASSUME RestartTypeOK, ValueInv, Wrote
  PROVE  ValueInv'
<1>1. PICK j \in AllKeys, v \in Nat :
        /\ state = "up" /\ state' = "up"
        /\ mem' = [mem EXCEPT ![j] = v]
        /\ log' = IF AofOn THEN Append(log, [key |-> j, val |-> v]) ELSE log
        /\ UNCHANGED <<spc, copy, snap, content, before, orphans, cut>>
  BY DEF Wrote, fileVars, saverVars
<1>2. MemInv /\ StopInv  BY DEF ValueInv
<1>3. log \in Seq(Entry) /\ mem \in Mems  BY DEF RestartTypeOK, Entry
<1>4. \A k : Snapped(k)' = Snapped(k)  BY <1>1 DEF Snapped
<1>5. ASSUME AofOn PROVE MemInv'
  <2>1. log' = Append(log, [key |-> j, val |-> v])  BY <1>1, <1>5
  <2>2. \A k : /\ k # j => /\ LastWrite(k)' = LastWrite(k)
                           /\ LastWrite(k) # 0 => log'[LastWrite(k)] = log[LastWrite(k)]
               /\ k = j => LastWrite(k)' # 0 /\ log'[LastWrite(k)'].val = v
    BY <1>3, <2>1, LastWriteAppend
  <2>3. ASSUME NEW k \in AllKeys PROVE InLog(mem, k)' /\ InSnapshot(mem, k)'
    <3>1. CASE k = j  BY <1>1, <1>3, <2>2, <3>1 DEF InLog, InSnapshot, Mems
    <3>2. CASE k # j
      <4>1. mem'[k] = mem[k]  BY <1>1, <1>3, <3>2 DEF Mems
      <4>2. InLog(mem, k) /\ InSnapshot(mem, k)  BY <1>1, <1>2, <1>5 DEF MemInv
      <4> QED  BY <1>1, <1>4, <2>2, <3>2, <4>1, <4>2 DEF InLog, InSnapshot
    <3> QED  BY <3>1, <3>2
  <2>4. ASSUME NEW q \in Procs, spc'[q] # "none", NEW k \in AllKeys PROVE InSnapshot(copy[q], k)'
    <3>1. InSnapshot(copy[q], k)  BY <1>1, <1>2, <1>5, <2>4 DEF MemInv
    <3> QED  BY <1>1, <1>4, <2>2, <3>1 DEF InSnapshot
  <2> QED  BY <2>3, <2>4 DEF MemInv
<1>6. MemInv'  BY <1>5 DEF MemInv
<1>7. StopInv' /\ LoadInv' /\ CleanRestart'  BY <1>1, <1>2 DEF StopInv, LoadInv, CleanRestart
<1> QED  BY <1>6, <1>7 DEF ValueInv

\* Steps that change nothing the values depend on.
LEMMA ValueQuiet ==
  ASSUME ValueInv, UNCHANGED <<state, mem, log, spc, copy, snap, content, before, orphans, cut>>
  PROVE  ValueInv'
<1>1. \A k : LastWrite(k)' = LastWrite(k) /\ Snapped(k)' = Snapped(k)  BY SameLog DEF Snapped
<1>2. MemInv'  BY <1>1 DEF ValueInv, MemInv, InLog, InSnapshot
<1>3. StopInv'  BY <1>1 DEF ValueInv, StopInv, InLog, InSnapshot
<1>4. LoadInv'  BY <1>1 DEF ValueInv, LoadInv, InLog, InSnapshot
<1>5. CleanRestart'  BY <1>1 DEF ValueInv, CleanRestart
<1> QED  BY <1>2, <1>3, <1>4, <1>5 DEF ValueInv

\* A copy of memory is taken.
LEMMA CopyTaken ==
  ASSUME RestartTypeOK, MemInv, AofOn, state = "up", NEW p \in Procs, Starts(p),
         UNCHANGED <<log, snap, content, cut>>, orphans => orphans',
         NEW q \in Procs, spc'[q] # "none", NEW k \in AllKeys
  PROVE  InSnapshot(copy[q], k)'
<1>1. LastWrite(k)' = LastWrite(k) /\ Snapped(k)' = Snapped(k)  BY SameLog DEF Snapped
<1>2. CASE q = p
  <2>1. copy'[q] = mem  BY <1>2 DEF Starts, RestartTypeOK
  <2>2. InSnapshot(mem, k)  BY DEF MemInv
  <2> QED  BY <1>1, <2>1, <2>2 DEF InSnapshot
<1>3. CASE q # p
  <2>1. copy'[q] = copy[q] /\ spc[q] # "none"  BY <1>3 DEF Starts, RestartTypeOK
  <2>2. InSnapshot(copy[q], k)  BY <2>1 DEF MemInv
  <2> QED  BY <1>1, <2>1, <2>2 DEF InSnapshot
<1> QED  BY <1>2, <1>3

\* SAVE copies the memory.
LEMMA ValueSave ==
  ASSUME RestartTypeOK, ValueInv, Save
  PROVE  ValueInv'
<1>1. PICK p \in Procs : /\ Starts(p) /\ state = "up"
                         /\ UNCHANGED <<state, mem, log, snap, content, before, orphans, cut>>
  BY SaveStarts
<1>2. MemInv /\ StopInv  BY DEF ValueInv
<1>3. \A k : LastWrite(k)' = LastWrite(k) /\ Snapped(k)' = Snapped(k)
  BY <1>1, SameLog DEF Snapped
<1>4. ASSUME AofOn, NEW q \in Procs, spc'[q] # "none", NEW k \in AllKeys
      PROVE  InSnapshot(copy[q], k)'
  BY <1>1, <1>2, <1>4, CopyTaken
<1>5. ASSUME AofOn, NEW k \in AllKeys PROVE InLog(mem, k)' /\ InSnapshot(mem, k)'
  BY <1>1, <1>2, <1>3, <1>5 DEF MemInv, InLog, InSnapshot
<1>6. MemInv'  BY <1>4, <1>5 DEF MemInv
<1>7. StopInv' /\ LoadInv' /\ CleanRestart'  BY <1>1, <1>2 DEF StopInv, LoadInv, CleanRestart
<1> QED  BY <1>6, <1>7 DEF ValueInv

\* A crash.
LEMMA ValueCrash ==
  ASSUME RestartTypeOK, ServerSaves, ValueInv, Crash
  PROVE  ValueInv'
<1>1. /\ state = "up" /\ state' = "down"
      /\ log' = SubSeq(log, 1, flushed)
      /\ before' = [mem |-> mem, complete |-> AofOn /\ flushed = Len(log)]
      /\ orphans' = (orphans \/ ChildAlive)
      /\ UNCHANGED <<spc, copy, snap, content, cut>>
  BY DEF Crash, saverVars
<1>2. MemInv  BY DEF ValueInv
<1>3. ~orphans' => \A q \in Procs : spc'[q] = "none"
  BY <1>1 DEF ChildAlive, ServerSaves
<1>4. MemInv'  BY <1>1, <1>3 DEF MemInv, InSnapshot
<1>5. StopInv'
  <2>1. before'.complete => AofOn  BY <1>1
  <2>2. ASSUME before'.complete, NEW k \in AllKeys
        PROVE  InLog(before.mem, k)' /\ InSnapshot(before.mem, k)'
    <3>1. AofOn /\ flushed = Len(log) /\ before'.mem = mem  BY <1>1, <2>2
    <3>2. log \in Seq(Entry)  BY DEF RestartTypeOK, Entry
    <3>3. log' = log  BY <1>1, <3>1, <3>2, SubSeqFull
    <3>4. LastWrite(k)' = LastWrite(k) /\ Snapped(k)' = Snapped(k)
      BY <1>1, <3>3, SameLog DEF Snapped
    <3>5. InLog(mem, k) /\ InSnapshot(mem, k)  BY <1>1, <1>2, <3>1 DEF MemInv
    <3> QED  BY <1>1, <3>1, <3>3, <3>4, <3>5 DEF InLog, InSnapshot
  <2> QED  BY <2>1, <2>2 DEF StopInv
<1>6. LoadInv' /\ CleanRestart'  BY <1>1 DEF LoadInv, CleanRestart
<1> QED  BY <1>4, <1>5, <1>6 DEF ValueInv

\* A shutdown.
LEMMA ValueShutdown ==
  ASSUME RestartTypeOK, ValueInv, Shutdown
  PROVE  ValueInv'
<1>1. /\ state = "up" /\ state' = "closing"
      /\ before' = [mem |-> mem, complete |-> AofOn]
      /\ orphans' = (orphans \/ ChildAlive)
      /\ Starts(Server) /\ UNCHANGED <<mem, log, snap, content, cut>>
  BY DEF Shutdown
<1>2. MemInv  BY DEF ValueInv
<1>3. \A k : LastWrite(k)' = LastWrite(k) /\ Snapped(k)' = Snapped(k)
  BY <1>1, SameLog DEF Snapped
<1>4. ASSUME AofOn, NEW q \in Procs, spc'[q] # "none", NEW k \in AllKeys
      PROVE  InSnapshot(copy[q], k)'
  BY <1>1, <1>2, <1>4, ProcsType, CopyTaken
<1>5. MemInv'  BY <1>1, <1>4 DEF MemInv
<1>6. StopInv'
  <2>1. before'.complete = AofOn /\ before'.mem = mem  BY <1>1
  <2>2. ASSUME AofOn, NEW k \in AllKeys
        PROVE  InLog(before.mem, k)' /\ InSnapshot(before.mem, k)'
    <3>1. InLog(mem, k) /\ InSnapshot(mem, k)  BY <1>1, <1>2, <2>2 DEF MemInv
    <3> QED  BY <1>1, <1>3, <2>1, <3>1 DEF InLog, InSnapshot
  <2> QED  BY <2>1, <2>2 DEF StopInv
<1>7. LoadInv' /\ CleanRestart'  BY <1>1 DEF LoadInv, CleanRestart
<1> QED  BY <1>5, <1>6, <1>7 DEF ValueInv

\* Loading the snapshot.
LEMMA ValueLoad ==
  ASSUME RestartTypeOK, SnapInv, ValueInv, LoadSnapshot
  PROVE  ValueInv'
<1>1. /\ state = "down" /\ state' = "loaded"
      /\ \E kept \in SUBSET Records(Loadable) :
           /\ mem' = [k \in AllKeys |-> IF k \in kept THEN Loadable[k] ELSE 0]
           /\ cut' = (cut \/ kept # Records(Loadable))
      /\ UNCHANGED <<log, spc, copy, snap, content, before, orphans>>
  BY DEF LoadSnapshot, fileVars, saverVars
<1>2. \A k : LastWrite(k)' = LastWrite(k) /\ Snapped(k)' = Snapped(k)
  BY <1>1, SameLog DEF Snapped
<1>3. MemInv'  BY <1>1, <1>2 DEF ValueInv, MemInv, InSnapshot
<1>4. StopInv'  BY <1>1, <1>2 DEF ValueInv, StopInv, InLog, InSnapshot
<1>5. ASSUME ~orphans', ~cut', NEW k \in AllKeys PROVE mem'[k] = Snapped(k)'
  <2>1. snap # NoFile => content[snap].whole  BY <1>1, <1>5 DEF SnapInv, SnapshotSound
  <2>2. Loadable[k] = Snapped(k)  BY <2>1 DEF Loadable, Snapped, Nothing
  <2>3. mem'[k] = IF k \in Records(Loadable) THEN Loadable[k] ELSE 0  BY <1>1, <1>5
  <2>4. mem'[k] = Loadable[k]  BY <2>3 DEF Records
  <2> QED  BY <1>2, <2>2, <2>4
<1>6. LoadInv' /\ CleanRestart'  BY <1>1, <1>5 DEF LoadInv, CleanRestart
<1> QED  BY <1>3, <1>4, <1>6 DEF ValueInv

\* The heart of the matter: the log over the snapshot gives what was there.
LEMMA ValueReplay ==
  ASSUME RestartTypeOK, ValueInv, ReplayLog
  PROVE  ValueInv'
<1>1. /\ state = "loaded" /\ state' = "replayed"
      /\ mem' = [k \in AllKeys |-> Replayed(k)]
      /\ UNCHANGED <<log, spc, copy, snap, content, before, orphans, cut>>
  BY DEF ReplayLog, fileVars, saverVars, histVars
<1>2. \A k : LastWrite(k)' = LastWrite(k) /\ Snapped(k)' = Snapped(k)
  BY <1>1, SameLog DEF Snapped
<1>3. StopInv /\ LoadInv  BY DEF ValueInv
<1>4. MemInv'  BY <1>1, <1>2 DEF ValueInv, MemInv, InSnapshot
<1>5. StopInv'  BY <1>1, <1>3 DEF StopInv
<1>6. ASSUME NEW k \in AllKeys PROVE InLog(mem, k)' /\ InSnapshot(mem, k)'
  <2>1. CASE LastWrite(k) # 0
    <3>1. mem'[k] = log[LastWrite(k)].val  BY <1>1, <2>1 DEF Replayed
    <3> QED  BY <1>1, <1>2, <2>1, <3>1 DEF InLog, InSnapshot
  <2>2. CASE LastWrite(k) = 0
    <3>1. mem'[k] = mem[k]  BY <1>1, <2>2 DEF Replayed
    <3>2. ~orphans /\ ~cut => mem[k] = Snapped(k)  BY <1>1, <1>3 DEF LoadInv
    <3> QED  BY <1>1, <1>2, <2>2, <3>1, <3>2 DEF InLog, InSnapshot
  <2> QED  BY <2>1, <2>2
<1>7. LoadInv'  BY <1>1, <1>6 DEF LoadInv
<1>8. CleanRestart'
  <2>1. ASSUME before.complete, NEW k \in AllKeys, (~orphans /\ ~cut) \/ LastWrite(k) # 0
        PROVE  mem'[k] = before.mem[k]
    <3>1. InLog(before.mem, k) /\ InSnapshot(before.mem, k)  BY <1>1, <1>3, <2>1 DEF StopInv
    <3> QED  BY <1>1, <1>2, <1>6, <2>1, <3>1 DEF InLog, InSnapshot
  <2> QED  BY <1>1, <1>2, <2>1 DEF CleanRestart
<1> QED  BY <1>4, <1>5, <1>7, <1>8 DEF ValueInv

\* The server is up again.
LEMMA ValueUp ==
  ASSUME ValueInv, KeepIndexInit
  PROVE  ValueInv'
<1>1. /\ state = "replayed" /\ state' = "up" /\ before' = Unknown
      /\ UNCHANGED <<mem, log, spc, copy, snap, content, orphans, cut>>
  BY DEF KeepIndexInit, fileVars, saverVars
<1>2. \A k : LastWrite(k)' = LastWrite(k) /\ Snapped(k)' = Snapped(k)
  BY <1>1, SameLog DEF Snapped
<1>3. MemInv'  BY <1>1, <1>2 DEF ValueInv, MemInv, LoadInv, InLog, InSnapshot
<1>4. StopInv' /\ LoadInv' /\ CleanRestart'
  BY <1>1 DEF StopInv, LoadInv, CleanRestart, Unknown
<1> QED  BY <1>3, <1>4 DEF ValueInv

\* Every step keeps the values where they are claimed to be.
LEMMA ValueStep ==
  ASSUME RestartTypeOK, ServerSaves, SnapInv, ValueInv, [RestartNext]_bootVars
  PROVE  ValueInv'
<1>1. CASE \E k \in AllKeys : SetKey(k) \/ DelKey(k) \/ Keep(k)
  BY <1>1, CommandWrites, ValueWrote
<1>2. CASE Flush  BY <1>2, ValueQuiet DEF Flush, fileVars, saverVars, histVars
<1>3. CASE Save  BY <1>3, ValueSave
<1>4. CASE \E p \in Procs : SaverOpens(p) \/ SaverWrites(p) \/ SaverWriteFails(p)
                             \/ SaverRenames(p) \/ SaverDies(p)
  BY <1>4, ValueSaver
<1>5. CASE Crash  BY <1>5, ValueCrash
<1>6. CASE Shutdown  BY <1>6, ValueShutdown
<1>7. CASE LoadSnapshot  BY <1>7, ValueLoad
<1>8. CASE ReplayLog  BY <1>8, ValueReplay
<1>9. CASE KeepIndexInit  BY <1>9, ValueUp
<1>10. CASE UNCHANGED bootVars  BY <1>10, ValueQuiet DEF bootVars
<1> QED  BY <1>1, <1>2, <1>3, <1>4, <1>5, <1>6, <1>7, <1>8, <1>9, <1>10 DEF RestartNext

\* The first start, with no files.
LEMMA InvInit ==
  ASSUME RestartInit
  PROVE  RestartInv
<1>1. /\ state = "up" /\ mem = Nothing /\ log = << >> /\ tmp = NoFile /\ snap = NoFile
      /\ before = Unknown /\ \A p \in Procs : spc[p] = "none"
  BY DEF RestartInit
<1>2. \A k : LastWrite(k) = 0  BY <1>1 DEF LastWrite, WritesOf
<1>3. ServerSaves /\ SnapInv
  BY <1>1, ProcsType DEF ServerSaves, SnapInv, OneSaver, SaverFile, SnapshotSound
<1>4. MemInv  BY <1>1, <1>2 DEF MemInv, InLog, InSnapshot, Snapped, Nothing
<1>5. StopInv /\ LoadInv /\ CleanRestart
  BY <1>1 DEF StopInv, LoadInv, CleanRestart, Unknown
<1> QED  BY <1>3, <1>4, <1>5, TypeInit DEF RestartInv

-----------------------------------------------------------------------------
(* The theorems *)

\* Who saves, what is in the files, and where the value of each key is, in
\* every state: cmd_sys_save, kvs_snapshot_save, init_kvengine and
\* dest_kvengine keep RestartInv.
THEOREM RestartInvariant == RestartSpec => []RestartInv
<1>1. RestartInit => RestartInv  BY InvInit
<1>2. RestartInv /\ [RestartNext]_bootVars => RestartInv'
  <2> SUFFICES ASSUME RestartInv, [RestartNext]_bootVars PROVE RestartInv'
    OBVIOUS
  <2>1. RestartTypeOK /\ ServerSaves /\ SnapInv /\ ValueInv  BY DEF RestartInv, ValueInv
  <2>2. RestartTypeOK'  BY <2>1, TypeStep
  <2>3. ServerSaves' /\ SnapInv'  BY <2>1, SnapStep
  <2>4. ValueInv'  BY <2>1, ValueStep
  <2> QED  BY <2>2, <2>3, <2>4 DEF RestartInv, ValueInv
<1> QED  BY <1>1, <1>2, PTL DEF RestartSpec

\* As long as no child outlives its server, kvstore.snap is whole and is the
\* image of the last SAVE that finished, whichever children failed or were
\* killed in open, write or rename (kvs_snapshot_save).
THEOREM SnapshotAlwaysSound == RestartSpec => []SnapshotSound
<1>1. RestartInv => SnapshotSound  BY DEF RestartInv, SnapInv, SnapshotSound
<1> QED  BY <1>1, RestartInvariant, PTL

\* After a stop with a complete log, snapshot and log restore memory, over an
\* older or a newer snapshot and any earlier crashes (init_kvengine).
THEOREM RestartRestores == RestartSpec => []CleanRestart
<1>1. RestartInv => CleanRestart  BY DEF RestartInv
<1> QED  BY <1>1, RestartInvariant, PTL
=============================================================================
