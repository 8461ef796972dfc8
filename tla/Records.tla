------------------------------ MODULE Records -------------------------------
(***************************************************************************)
(* The tables of the chat commands (kvstore.c, ai_chat.c):                  *)
(*   KEEP, MATCH      answers by question, found by similarity               *)
(*   SETREC, GETREC   records by id                                          *)
(*   SETIDX, GETIDXREC  ids by keyword, as one string with commas            *)
(* The hash tables underneath are functions here (module HashTable has      *)
(* them); a write that fails for lack of memory loses the old value, since  *)
(* only a longer value allocates.  A restart of the index is in Restart.    *)
(*                                                                          *)
(* An id is the sequence of its comma-separated pieces, so <<a>> is a plain *)
(* id and <<a, b>> one with a comma in it.                                  *)
(***************************************************************************)
EXTENDS Integers, Sequences, SequencesExt

CONSTANTS
  Questions,    \* texts: keys of KEEP, questions of MATCH
  Cut,          \* question -> what of it fits in the key of an index entry
  Sim,          \* <<question, question>> -> cosine similarity, in steps
  Threshold,    \* g_match_threshold
  Exact,        \* 0.9999: the search stops here
  IndexSize,    \* MAX_VECTOR_INDEX
  Words,        \* keywords
  RecIds,       \* ids
  Versions,     \* contents of answers and records; 0 is none
  MaxPieces     \* bound: pieces in a keyword's list

\* The threshold is DEFAULT_MATCH_THRESHOLD, 0.90.
ASSUME ChatAssumption ==
  /\ Sim \in [Questions \X Questions -> Int]
  /\ Threshold \in Nat /\ Exact \in Nat /\ Threshold <= Exact
  /\ \A id \in RecIds : id \in Seq(STRING) /\ id # << >>

VARIABLES
  cache,    \* global_hash1
  vecs,     \* global_vector_index: [key, text] (the vector stands for its text)
  rec,      \* global_hash3
  idx,      \* global_hash4: keyword -> the pieces between its commas
  indexed,  \* questions whose KEEP succeeded (not in the code)
  put       \* keyword -> ids put under it, in order (not in the code)

chatVars == <<cache, vecs, rec, idx, indexed, put>>

ChatInit ==
  /\ cache = [q \in Questions |-> 0] /\ vecs = << >>
  /\ rec = [id \in RecIds |-> 0] /\ idx = [w \in Words |-> << >>]
  /\ indexed = {} /\ put = [w \in Words |-> << >>]

-----------------------------------------------------------------------------
(* KEEP *)

\* keep_add_vector_index: the vector of the whole text under the cut key.
Entry(k) == [key |-> Cut[k], text |-> k]

\* cmd_keep: the value first, then the index, one more entry even for a key
\* that has one.
CmdKeep(k, v) ==
  /\ Len(vecs) < IndexSize
  /\ cache' = [cache EXCEPT ![k] = v]
  /\ vecs' = Append(vecs, Entry(k))
  /\ indexed' = indexed \cup {k}
  /\ UNCHANGED <<rec, idx, put>>

\* The embedding service fails, or the index is full: an error, but the value
\* stays.
KeepUnindexed(k, v) ==
  /\ cache' = [cache EXCEPT ![k] = v]
  /\ UNCHANGED <<vecs, rec, idx, indexed, put>>

\* The value cannot be stored: the old one is gone, its index entry is not.
KeepFails(k) ==
  /\ cache' = [cache EXCEPT ![k] = 0]
  /\ UNCHANGED <<vecs, rec, idx, indexed, put>>

-----------------------------------------------------------------------------
(* MATCH *)

Earliest(S) == CHOOSE i \in S : \A j \in S : i <= j

\* ai_cosine_similarity with the vector of entry i; a negative one is skipped.
Score(q, i) == Sim[<<q, vecs[i].text>>]
Scored(q) == {i \in DOMAIN vecs : Score(q, i) >= 0}

\* Mutant: it stops at the first entry that is good enough.
ScannedToThreshold(q) ==
  LET good == {i \in Scored(q) : Score(q, i) >= Threshold}
  IN  IF good = {} THEN Scored(q) ELSE {i \in Scored(q) : i <= Earliest(good)}

\* The entries the search looks at before it stops.
Scanned(q) ==
  LET exact == {i \in Scored(q) : Score(q, i) >= Exact}
  IN  IF exact = {} THEN Scored(q) ELSE {i \in Scored(q) : i <= Earliest(exact)}

\* match_find_best_key: the first of the most similar entries seen.
Best(q) ==
  Earliest({i \in Scanned(q) : \A j \in Scanned(q) : Score(q, j) <= Score(q, i)})

Matched(q) == Scanned(q) # {} /\ Score(q, Best(q)) >= Threshold

\* match_find_answer: the value under the entry's key, or 0: an error when the
\* table has none under that key.  (When q itself cannot be embedded MATCH ends
\* with an error and reads nothing.)
Answer(q) ==
  IF Matched(q) THEN cache[vecs[Best(q)].key] ELSE 0

-----------------------------------------------------------------------------
(* Records by id and by keyword *)

\* SETREC, and its failure for lack of memory.
Setrec(id, v) == rec' = [rec EXCEPT ![id] = v] /\ UNCHANGED <<cache, vecs, idx, indexed, put>>
SetrecFails(id) == Setrec(id, 0)

\* Mutant: only the last piece is compared.
ListedLast(w, id) == idx[w] # << >> /\ id = <<Last(idx[w])>>

\* kvs_hash_append looks for the id among the pieces.
Listed(w, id) == \E i \in DOMAIN idx[w] : id = <<idx[w][i]>>

\* SETIDX
Setidx(w, id) ==
  /\ Len(idx[w]) + Len(id) <= MaxPieces
  /\ idx' = [idx EXCEPT ![w] = IF Listed(w, id) THEN idx[w] ELSE idx[w] \o id]
  /\ put' = [put EXCEPT ![w] = IF id \in ToSet(put[w]) THEN put[w] ELSE Append(put[w], id)]
  /\ UNCHANGED <<cache, vecs, rec, indexed>>

\* The longer list cannot be stored: the whole list is gone.
SetidxFails(w, id) ==
  /\ ~Listed(w, id)
  /\ idx' = [idx EXCEPT ![w] = << >>] /\ put' = [put EXCEPT ![w] = << >>]
  /\ UNCHANGED <<cache, vecs, rec, indexed>>

Record(id) == [id |-> id, content |-> rec[id]]

\* build_records_newline: one id after the other, those without a record left
\* out.
BuildRecords(ids) ==
  LET built[n \in 0..Len(ids)] ==
        IF n = 0 THEN << >>
        ELSE IF ids[n] \in RecIds /\ rec[ids[n]] # 0 THEN Append(built[n - 1], Record(ids[n]))
        ELSE built[n - 1]
  IN  built[Len(ids)]

\* GETIDXREC: the list is cut at its commas.
GetIdxRec(w) == BuildRecords([i \in DOMAIN idx[w] |-> <<idx[w][i]>>])

-----------------------------------------------------------------------------

Keeping ==
  \E k \in Questions : \E v \in Versions : CmdKeep(k, v) \/ KeepUnindexed(k, v) \/ KeepFails(k)
Indexing ==
  \E id \in RecIds :
    \/ SetrecFails(id) \/ \E v \in Versions : Setrec(id, v)
    \/ \E w \in Words : Setidx(w, id) \/ SetidxFails(w, id)

ChatNext == Keeping \/ Indexing

ChatSpec == ChatInit /\ [][ChatNext]_chatVars

-----------------------------------------------------------------------------
(* Properties *)

\* MATCH answers with the value last kept for a question that was indexed, is
\* similar enough, and is the most similar one or as good as identical; it
\* answers nothing only when no indexed question is similar enough or the
\* value was lost.  However often a question was kept, whichever KEEPs failed
\* half-way.  For questions short enough for the index.
MatchAnswersBest ==
  \A q \in Questions :
    LET near == {k \in indexed : Sim[<<q, k>>] >= Threshold}
        best == {k \in near : Sim[<<q, k>>] >= Exact \/ \A j \in near : Sim[<<q, j>>] <= Sim[<<q, k>>]}
    IN  (\A k \in best : Cut[k] = k) =>
          IF near = {} THEN Answer(q) = 0 ELSE \E k \in best : Answer(q) = cache[k]

Plain(w) == \A i \in DOMAIN put[w] : Len(put[w][i]) = 1

\* GETIDXREC returns the present record of every plain id that was put under
\* the keyword; and when no id has a comma, nothing else, each exactly once, in
\* the order the ids were first put.
IndexedRecords ==
  \A w \in Words :
    /\ \A id \in ToSet(put[w]) :
         Len(id) = 1 /\ rec[id] # 0 => Record(id) \in ToSet(GetIdxRec(w))
    /\ Plain(w) => GetIdxRec(w) = BuildRecords(put[w])
=============================================================================
