------------------------------- MODULE Chunking -------------------------------
(***************************************************************************)
(* chunkText, by which memories (MemoryService) and mails with their       *)
(* attachments (ImapIndexService) are cut into overlapping chunks that are *)
(* embedded and searched.  A step is one turn of its loop.                 *)
(*                                                                         *)
(* A text is a function from its positions, from 0, to characters of which *)
(* only the kind matters: "w" is part of a word, " " a space, "n" a        *)
(* newline, "q" a newline before a quotation ("\n> ") and "f" the start of *)
(* the marker of a forwarded mail.  It has been trimmed.                   *)
(***************************************************************************)
EXTENDS Integers, FiniteSets, SequencesExt

CONSTANTS
  MaxLength,  \* bound: positions of a text
  Chars,      \* the kinds of characters in use
  Sizes,      \* chunkSize
  Overlaps    \* chunkOverlap

ASSUME ChunkAssumption ==
  /\ MaxLength \in Nat \ {0}
  /\ Sizes \subseteq Nat \ {0}
  /\ Overlaps \subseteq Nat

VARIABLES
  content,  \* the text
  settings, \* [of : the service, size, overlap]
  start,    \* where the next chunk begins
  chunks,   \* [from, to] of the chunks that are not blank, to excluded
  finished  \* the loop has ended

chunkVars == <<content, settings, start, chunks, finished>>

Blank == {" ", "n", "q"}
\* The texts of a length that trim() leaves alone.
TextsOf(n) == {t \in [0..n-1 -> Chars] : t[0] \notin Blank /\ t[n-1] \notin Blank}
Size == Cardinality(DOMAIN content)
Positions(kinds) == {i \in DOMAIN content : content[i] \in kinds}

\* Where a chunk may end, the best kind first: a quotation and a forwarded mail
\* (mails only), a paragraph, a line, a word.
Breaks ==
  LET lines == Positions({"n", "q"})
      always == <<{i \in lines : i + 1 \in lines}, lines, Positions({" "})>>
  IN IF settings.of = "mail" THEN <<Positions({"q"}), Positions({"f"})>> \o always ELSE always

\* Variant for mutation: the break may lie beyond the end.
BreakBeyond(at, end) == LET upto == {i \in at : i <= end + 1} IN
  IF upto = {} THEN -1 ELSE CHOOSE i \in upto : \A j \in upto : j <= i

\* lastIndexOf(kind, end): the last one that begins at the end or before; -1 without one.
LastBreak(at, end) == LET upto == {i \in at : i <= end} IN
  IF upto = {} THEN -1 ELSE CHOOSE i \in upto : \A j \in upto : j <= i

\* Variant for mutation: breaks of the first half will do.
EndAnywhere(from) ==
  LET end == from + settings.size
      good == {k \in 1..Len(Breaks) : LastBreak(Breaks[k], end) > from}
  IN IF end >= Size THEN Size
     ELSE IF good = {} THEN end
     ELSE LastBreak(Breaks[CHOOSE k \in good : \A l \in good : k <= l], end)

\* The end of the chunk that begins at "from": the best break in its second half.
End(from) ==
  LET end == from + settings.size
      good == {k \in 1..Len(Breaks) : LastBreak(Breaks[k], end) > from + settings.size \div 2}
  IN IF end >= Size THEN Size
     ELSE IF good = {} THEN end
     ELSE LastBreak(Breaks[CHOOSE k \in good : \A l \in good : k <= l], end)

\* Variant for mutation: the break itself is stepped over, and what overlaps too.
NextStartAfter(end) == IF end + 1 - settings.overlap > start THEN end + 1 - settings.overlap ELSE start + 1

NextStart(end) == IF end - settings.overlap > start THEN end - settings.overlap ELSE start + 1

\* A slice of nothing but blanks is no chunk.
Chunk(end) ==
  /\ ~finished
  /\ end = End(start)
  /\ chunks' = IF \A i \in start..end-1 : content[i] \in Blank THEN chunks
               ELSE Append(chunks, [from |-> start, to |-> end])
  /\ finished' = (end >= Size)
  /\ start' = IF end >= Size THEN start ELSE NextStart(end)
  /\ UNCHANGED <<content, settings>>

ChunkingInit ==
  /\ \E n \in 1..MaxLength : content \in TextsOf(n)
  /\ settings \in [of : {"memory", "mail"}, size : Sizes, overlap : Overlaps]
  /\ start = 0 /\ chunks = <<>> /\ finished = FALSE

ChunkingNext == Chunk(End(start))

ChunkingSpec == ChunkingInit /\ [][ChunkingNext]_chunkVars

-----------------------------------------------------------------------------
(* Properties                                                              *)

\* Every word of the text can be found: each position before the next chunk that
\* is not blank is in a chunk, and in the end each of the text is.
Covers(n) == \A i \in 0..n-1 : content[i] \notin Blank => \E k \in DOMAIN chunks :
                                  chunks[k].from <= i /\ i < chunks[k].to
NothingIsLost == Covers(IF finished THEN Size ELSE start)

\* With an overlap of at most half a chunk, each chunk ends beyond the one before
\* it: none only repeats a part of another, whatever breaks the text has.
EachChunkAdds ==
  settings.overlap <= settings.size \div 2 =>
    \A k \in 2..Len(chunks) : chunks[k-1].to < chunks[k].to

\* The chunks of a text are at most as large as the settings say, and overlap by
\* no more than the settings say.
ChunksAreInBounds ==
  \A k \in DOMAIN chunks :
    /\ chunks[k].to - chunks[k].from \in 1..settings.size
    /\ k > 1 => chunks[k-1].to - chunks[k].from <= settings.overlap

\* The chunks of a text: everything is in one, none is there for nothing, each is
\* in bounds.
ChunksCorrect == NothingIsLost /\ EachChunkAdds /\ ChunksAreInBounds
=============================================================================
