--------------------------- MODULE PersonalMemories ---------------------------
(***************************************************************************)
(* What MemoryService keeps of personal memories, and how it answers: the  *)
(* content of a personal memory is sealed with a token in its file, and    *)
(* indexed as it is.  Indexing is deferred here, so that each call runs to *)
(* its end (Memories has the calls that overlap).                          *)
(*                                                                         *)
(* A text is a sequence of pieces.  A sealed text is a piece itself: what  *)
(* is read as plain text is kept as plain text.  A search finds pieces,    *)
(* with the scores scoreChunk gives the chunks, a chunk for each piece.    *)
(***************************************************************************)
EXTENDS Integers, FiniteSets, SequencesExt

CONSTANTS
  Personal,    \* the memories
  Tokens,      \* the tokens in use
  MaxPieces,   \* bound: pieces of a text; what has been sealed is not sealed again
  MaxPerMemory,\* settings.maxChunksPerMemory
  TopK         \* the limit of a search

VARIABLES
  docs,     \* the content in each memory's file, or <<>> without one
  rows,     \* the row of each memory: "none", "plain" or "personal"
  found,    \* the chunks of each memory
  said,     \* history: what was last said of each memory, to be kept
  key,      \* history: the token it was last written with, or "none"
  halfway   \* history: the memories whose row a crash left behind their file

personalVars == <<docs, rows, found, said, key, halfway>>

NoToken == "none"
\* A piece that somebody wrote, by its number, and one that is a sealed text.
Piece(n) == [n |-> n, by |-> NoToken, text |-> <<>>]
Seal(text, token) == <<[n |-> 0, by |-> token, text |-> text]>>
Fewer(i, j) == IF i < j THEN i ELSE j
There(m) == rows[m] # "none"

-----------------------------------------------------------------------------
(* The document                                                            *)

\* isEncryptedPersonalContent and decryptPersonalContent: what the token makes of
\* the file, or <<>> for an error.  What has been appended to a sealed text spoils it.
Unsealed(text, token) ==
  IF text[1].n # 0 THEN text
  ELSE IF Len(text) = 1 /\ text[1].by = token THEN text[1].text
  ELSE <<>>

\* Variant for mutation: an update takes the content as it lies in the file.
ResolveRaw(m, token) ==
  IF rows[m] = "plain" THEN docs[m] ELSE IF token = NoToken THEN <<>> ELSE docs[m]

\* resolveMemoryDocument: whether it is personal is for the row to say.
Resolve(m, token) ==
  IF rows[m] = "plain" THEN docs[m]
  ELSE IF token = NoToken THEN <<>> ELSE Unsealed(docs[m], token)

\* writeMemoryDocument, upsertMemoryRow and reindexDocument; or a crash after the
\* first of them.  Without the token a personal memory needs nothing is written.
Written(m, text, personal, token) ==
  /\ personal => token # NoToken
  /\ Len(text) <= MaxPieces /\ (personal => \A k \in DOMAIN text : text[k].n # 0)
  /\ docs' = [docs EXCEPT ![m] = IF personal THEN Seal(text, token) ELSE text]
  /\ said' = [said EXCEPT ![m] = text]
  /\ key' = [key EXCEPT ![m] = IF personal THEN token ELSE NoToken]
  /\ \/ /\ rows' = [rows EXCEPT ![m] = IF personal THEN "personal" ELSE "plain"]
        /\ found' = [found EXCEPT ![m] = ToSet(text)]
        /\ halfway' = halfway \ {m}
     \/ There(m) /\ halfway \subseteq {m} /\ halfway' = {m} /\ UNCHANGED <<rows, found>>

CreateMemory(m, personal, token) ==
  /\ ~There(m) /\ docs[m] = <<>>
  /\ Written(m, <<Piece(1)>>, personal, token)

AppendMemory(m, token) ==
  /\ There(m) /\ Resolve(m, token) # <<>>
  /\ LET text == Resolve(m, token) IN
     Written(m, Append(text, Piece(Len(text) + 1)), rows[m] = "personal", token)

\* updateMemory: the content is replaced or stays, the memory becomes personal or plain.
UpdateMemory(m, anew, personal, token) ==
  /\ There(m) /\ Resolve(m, token) # <<>>
  /\ Written(m, IF anew THEN <<Piece(2)>> ELSE Resolve(m, token), personal, token)

\* deleteMemory: needs no token.
Forget(m) ==
  /\ There(m)
  /\ rows' = [rows EXCEPT ![m] = "none"]
  /\ docs' = [docs EXCEPT ![m] = <<>>]
  /\ found' = [found EXCEPT ![m] = {}]
  /\ said' = [said EXCEPT ![m] = <<>>] /\ key' = [key EXCEPT ![m] = NoToken]
  /\ halfway' = halfway \ {m}

\* reindexMemory of all of them, without a token without the personal ones: a
\* single one that cannot be read makes all of it fail.
ReindexAll(token) ==
  LET all == {m \in Personal : There(m) /\ (rows[m] = "personal" => token # NoToken)} IN
  /\ \A m \in all : Resolve(m, token) # <<>>
  /\ found' = [m \in Personal |-> IF m \in all THEN ToSet(Resolve(m, token)) ELSE found[m]]
  /\ UNCHANGED <<docs, rows, said, key, halfway>>

-----------------------------------------------------------------------------
(* searchMemories                                                          *)

ChunkRows == UNION {{[mem |-> m, piece |-> p] : p \in found[m]} : m \in Personal}
Points(row, terms) == IF row.piece.n \in terms THEN row.piece.n ELSE 0

\* The chunks that count, the best first.
Scored(terms) ==
  LET hits == {r \in ChunkRows : Points(r, terms) > 0} IN
  {s \in SetToSeqs(hits) : \A i, j \in 1..Len(s) : i < j => Points(s[i], terms) >= Points(s[j], terms)}

\* Variant for mutation: groups beyond the limit are not begun, and the last excerpt counts.
GroupedEarly(scored, terms, token) ==
  LET shows(m) == rows[m] = "plain" \/ token # NoToken
      add(groups, r) ==
        LET k == SelectInSeq(groups, LAMBDA g : g.mem = r.mem) IN
        IF k = 0 THEN IF Len(groups) >= TopK THEN groups
                      ELSE Append(groups, [mem |-> r.mem, score |-> Points(r, terms),
                              excerpts |-> IF shows(r.mem) THEN <<r.piece.n>> ELSE <<>>])
        ELSE [groups EXCEPT ![k].excerpts = <<r.piece.n>>]
  IN FoldLeft(add, <<>>, scored)

\* A memory's group begins with its best chunk and takes the excerpts that follow.
Grouped(scored, terms, token) ==
  LET shows(m) == rows[m] = "plain" \/ token # NoToken
      add(groups, r) ==
        LET k == SelectInSeq(groups, LAMBDA g : g.mem = r.mem) IN
        IF k = 0 THEN Append(groups, [mem |-> r.mem, score |-> Points(r, terms),
                                excerpts |-> IF shows(r.mem) THEN <<r.piece.n>> ELSE <<>>])
        ELSE IF Len(groups[k].excerpts) < MaxPerMemory /\ shows(r.mem)
          THEN [groups EXCEPT ![k].excerpts = Append(@, r.piece.n)]
        ELSE groups
  IN FoldLeft(add, <<>>, scored)

\* The answers to a query of these terms.  A search changes nothing.
searchMemories(terms, token) ==
  {SubSeq(groups, 1, Fewer(Len(groups), TopK)) :
     groups \in {Grouped(scored, terms, token) : scored \in Scored(terms)}}

PersonalInit ==
  /\ docs = [m \in Personal |-> <<>>] /\ rows = [m \in Personal |-> "none"]
  /\ found = [m \in Personal |-> {}]
  /\ said = [m \in Personal |-> <<>>] /\ key = [m \in Personal |-> NoToken]
  /\ halfway = {}

PersonalNext ==
  \/ \E token \in Tokens \cup {NoToken} :
       \/ \E m \in Personal, p \in BOOLEAN : CreateMemory(m, p, token)
       \/ \E m \in Personal : AppendMemory(m, token)
       \/ \E m \in Personal, p, anew \in BOOLEAN : UpdateMemory(m, anew, p, token)
       \/ ReindexAll(token)
  \/ \E m \in Personal : Forget(m)

PersonalSpec == PersonalInit /\ [][PersonalNext]_personalVars

-----------------------------------------------------------------------------
(* Properties                                                              *)

\* However often a memory is appended to, revised, made personal or plain again,
\* its last token (none for a plain one) and no other opens the whole of what was
\* said, unless a crash came between its file and its row.
TokenOpens ==
  \A m \in Personal : There(m) /\ m \notin halfway =>
    \A token \in Tokens \cup {NoToken} :
      Resolve(m, token) = IF key[m] = NoToken \/ token = key[m] THEN said[m] ELSE <<>>

\* No search misses a memory for one that matches less, and each it finds shows the
\* best of its chunks; a personal one shows none without a token.
BestAreShown ==
  \A terms \in SUBSET (1..MaxPieces), token \in Tokens \cup {NoToken} :
    \A results \in searchMemories(terms, token) : \A m \in Personal :
      LET best == {p.n : p \in found[m]} \cap terms
          mine == {k \in DOMAIN results : results[k].mem = m}
      IN /\ Cardinality(mine) <= 1
         /\ best # {} /\ mine = {} =>
              /\ Len(results) = TopK
              /\ \A k \in DOMAIN results, p \in best : results[k].score >= p
         /\ \A k \in mine :
              LET shown == ToSet(results[k].excerpts) IN
              IF rows[m] = "personal" /\ token = NoToken THEN shown = {}
              ELSE /\ Cardinality(shown) = Fewer(Cardinality(best), MaxPerMemory)
                   /\ \A p \in shown, q \in best \ shown : p >= q

=============================================================================
