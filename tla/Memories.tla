------------------------------ MODULE Memories ------------------------------
(***************************************************************************)
(* MemoryService: each memory is a Markdown file, a row and an index of    *)
(* chunks.  File and row are written together, without an await but not in *)
(* a transaction; the index follows in a transaction of its own, once the  *)
(* chunks have been embedded, which is awaited.  Calls overlap, and        *)
(* nothing orders their transactions.                                      *)
(*                                                                         *)
(* A memory's content is named by the revision in its file.  The embedding *)
(* model is external: it answers or fails.  Calls that are refused (no     *)
(* such memory, no or a wrong token for a personal one) change nothing and *)
(* are left out, as are the reading calls (get, list, search), which find  *)
(* each transaction whole.                                                 *)
(***************************************************************************)
EXTENDS Naturals

CONSTANTS
  Mems,         \* the memories that may be created
  MemCalls,     \* the calls that may be underway
  MaxRevision   \* bound: revisions of a memory

ASSUME MemoryAssumption == MaxRevision \in Nat \ {0}

VARIABLES
  file,      \* the revision in each memory's file, or 0
  row,       \* the row of each memory: revision (0: none) and is_personal
  chunks,    \* the revision whose chunks are indexed, or 0
  deleted,   \* the memories that have been deleted
  memCalls,  \* what each call has still to index: memories with the revision read
  stale,     \* history: memories whose last indexing failed or met another call
  torn       \* history: memories whose file was written just before a crash

memoryVars == <<file, row, chunks, deleted, memCalls, stale, torn>>

NoRow == [rev |-> 0, personal |-> FALSE]
Live(m) == row[m].rev # 0
Indexing(m) == \E c \in MemCalls : \E d \in memCalls[c] : d.mem = m
Idle(c) == memCalls[c] = {}

\* A call on the memories in S begins: what is indexed last is what the file says
\* only for those no other call is about.
Race(S) == stale' = (stale \ {m \in S : ~Indexing(m)}) \cup {m \in S : Indexing(m)}

-----------------------------------------------------------------------------
(* The calls                                                               *)

\* Variant for mutation: a change of the row alone is not indexed.
WriteOnly(c, m, rev, personal) ==
  /\ file' = [file EXCEPT ![m] = rev]
  /\ row' = [row EXCEPT ![m] = [rev |-> rev, personal |-> personal]]
  /\ memCalls' = [memCalls EXCEPT ![c] = IF rev = 1 THEN {[mem |-> m, rev |-> 1]} ELSE {}]
  /\ Race({m})
  /\ torn' = torn \ {m}
  /\ UNCHANGED <<chunks, deleted>>

\* writeMemoryDocument, upsertMemoryRow, and the start of reindexDocument.
Write(c, m, rev, personal) ==
  /\ file' = [file EXCEPT ![m] = rev]
  /\ row' = [row EXCEPT ![m] = [rev |-> rev, personal |-> personal]]
  /\ memCalls' = [memCalls EXCEPT ![c] = {[mem |-> m, rev |-> rev]}]
  /\ Race({m})
  /\ torn' = torn \ {m}
  /\ UNCHANGED <<chunks, deleted>>

createMemory(c, m, personal) ==
  /\ Idle(c)
  /\ file[m] = 0 /\ ~Live(m) /\ m \notin deleted
  /\ Write(c, m, 1, personal)

\* appendMemory and updateMemory: the file is read, by way of the row.
updateMemory(c, m, personal) ==
  /\ Idle(c)
  /\ Live(m)
  /\ file[m] < MaxRevision
  /\ Write(c, m, file[m] + 1, personal)

\* The row goes with its chunks, the file unless it cannot be removed.
deleteMemory(m) ==
  /\ Live(m)
  /\ row' = [row EXCEPT ![m] = NoRow]
  /\ chunks' = [chunks EXCEPT ![m] = 0]
  /\ file' \in {file, [file EXCEPT ![m] = 0]}
  /\ deleted' = deleted \cup {m}
  /\ UNCHANGED <<memCalls, stale, torn>>

\* reindexMemory of the memories in S (one by its reference, or all, without the
\* personal ones if there is no token): all their files are read first.
Reindex(c, S) ==
  /\ Idle(c)
  /\ S # {}
  /\ \A m \in S : Live(m)
  /\ memCalls' = [memCalls EXCEPT ![c] = {[mem |-> m, rev |-> file[m]] : m \in S}]
  /\ Race(S)
  /\ UNCHANGED <<file, row, chunks, deleted, torn>>

reindexMemory(c) ==
  LET all == {m \in Mems : Live(m)} IN
  \/ \E m \in all : Reindex(c, {m})
  \/ Reindex(c, all)
  \/ Reindex(c, {m \in all : ~row[m].personal})

\* Variant for mutation: chunks are stored whether their memory exists or not.
EmbeddedUnchecked(c, d) ==
  /\ d \in memCalls[c]
  /\ chunks' = [chunks EXCEPT ![d.mem] = d.rev]
  /\ memCalls' = [memCalls EXCEPT ![c] = @ \ {d}]
  /\ UNCHANGED <<file, row, deleted, stale, torn>>

\* reindexDocument goes on: the transaction replaces the chunks, or fails as a
\* whole if the memory has been deleted.
Embedded(c, d) ==
  /\ d \in memCalls[c]
  /\ IF Live(d.mem)
       THEN /\ chunks' = [chunks EXCEPT ![d.mem] = d.rev]
            /\ memCalls' = [memCalls EXCEPT ![c] = @ \ {d}]
            /\ UNCHANGED stale
       ELSE /\ memCalls' = [memCalls EXCEPT ![c] = {}]
            /\ stale' = stale \cup {e.mem : e \in memCalls[c]}
            /\ UNCHANGED chunks
  /\ UNCHANGED <<file, row, deleted, torn>>

\* The model cannot be reached: the call fails, what it wrote stays.
EmbedFails(c) ==
  /\ ~Idle(c)
  /\ memCalls' = [memCalls EXCEPT ![c] = {}]
  /\ stale' = stale \cup {d.mem : d \in memCalls[c]}
  /\ UNCHANGED <<file, row, chunks, deleted, torn>>

-----------------------------------------------------------------------------
(* A crash                                                                 *)

\* Variant for mutation: the row is written before the file.
HalfRow(m) == row' = [row EXCEPT ![m].rev = file[m] + 1] /\ UNCHANGED file

\* The last thing done is the file of a call, whose row is not written.
HalfWritten(m) == file' = [file EXCEPT ![m] = @ + 1] /\ UNCHANGED row

MemoryCrash(half) ==
  /\ memCalls' = [c \in MemCalls |-> {}]
  /\ stale' = stale \cup {m \in Mems : Indexing(m)} \cup half
  /\ torn' = torn \cup half
  /\ IF half = {} THEN UNCHANGED <<file, row>>
       ELSE \E m \in half :
              /\ file[m] < MaxRevision
              /\ ~Live(m) => file[m] = 0 /\ m \notin deleted
              /\ HalfWritten(m)
  /\ UNCHANGED <<chunks, deleted>>

MemoryInit ==
  /\ file = [m \in Mems |-> 0]
  /\ row = [m \in Mems |-> NoRow]
  /\ chunks = [m \in Mems |-> 0]
  /\ deleted = {}
  /\ memCalls = [c \in MemCalls |-> {}]
  /\ stale = {}
  /\ torn = {}

MemoryNext ==
  \/ \E c \in MemCalls :
       \/ \E m \in Mems, p \in BOOLEAN : createMemory(c, m, p) \/ updateMemory(c, m, p)
       \/ reindexMemory(c)
       \/ \E d \in memCalls[c] : Embedded(c, d)
       \/ EmbedFails(c)
  \/ \E m \in Mems : deleteMemory(m)
  \/ \E half \in {{}} \cup {{m} : m \in Mems} : MemoryCrash(half)

-----------------------------------------------------------------------------
(* Properties                                                              *)

MemoryTypeOK ==
  /\ file \in [Mems -> 0..MaxRevision]
  /\ row \in [Mems -> [rev : 0..MaxRevision, personal : BOOLEAN]]
  /\ chunks \in [Mems -> 0..MaxRevision]
  /\ memCalls \in [MemCalls -> SUBSET [mem : Mems, rev : 1..MaxRevision]]
  /\ deleted \subseteq Mems /\ stale \subseteq Mems /\ torn \subseteq Mems

\* What is found is what the file says, once nothing is underway, unless the
\* last indexing failed or two calls on the memory overlapped: then a
\* reindexMemory that meets no other call makes it so again.
IndexIsFresh ==
  \A m \in Mems :
    Live(m) /\ ~Indexing(m) /\ m \notin stale => chunks[m] = file[m]

\* A memory that has been deleted is not found again, although a call that had
\* read it may still be embedding.
DeletedIsNotFound == \A m \in Mems : ~Live(m) => chunks[m] = 0

\* A crash may leave a row behind its file, never ahead of it, and never else.
RowFollowsFile ==
  \A m \in Mems :
    Live(m) =>
      IF m \in torn THEN row[m].rev < file[m] ELSE row[m].rev = file[m]

\* What is being indexed is what the file says, unless two calls overlapped.
IndexingFollowsFile ==
  \A m \in Mems : Live(m) /\ m \notin stale =>
    \A c \in MemCalls : \A d \in memCalls[c] : d.mem = m => d.rev = file[m]

\* File, row and chunks of a memory, together.
MemoriesAgree ==
  IndexIsFresh /\ IndexingFollowsFile /\ DeletedIsNotFound /\ RowFollowsFile
MemoriesCorrect == MemoryTypeOK /\ MemoriesAgree

MemoriesSpec == MemoryInit /\ [][MemoryNext]_memoryVars
=============================================================================
