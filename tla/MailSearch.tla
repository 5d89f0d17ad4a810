----------------------------- MODULE MailSearch -----------------------------
(***************************************************************************)
(* The reading calls of ImapIndexService: imap_search (rows are read, the  *)
(* query is embedded across an await, what is left of the mails is ranked),*)
(* imap_list_attachments page by page, and the source of a mail fetched    *)
(* from the server, where mails are moved and removed meanwhile.           *)
(*                                                                         *)
(* The filters on folder, sender, subject and date are conditions on the   *)
(* mail alone: together they are the member "fits" of a query.  A row      *)
(* has the scores scoreChunk and scoreVector give it; a date is a number,  *)
(* 0 for none.  Ranks that compare equal come in any order, and so do the  *)
(* rows of a SELECT ... LIMIT without ORDER BY.                            *)
(***************************************************************************)
EXTENDS Integers, FiniteSets, SequencesExt

CONSTANTS
  Mailbox,        \* the mails: [folder, uid, sent, file (its attachment's content hash, or "none")]
  WithId,         \* those with a Message-ID
  MailFolders,    \* settings.folders, with the mailbox
  Scores,         \* the scores a query may give the rows
  MaxCandidates,  \* SEARCH_MAX_CANDIDATE_ROWS
  PageSize,       \* the limit of a list call
  MaxMoves        \* bound: changes on the server and to the attachments

\* The mails are told apart by folder and uid, and their uids have been given out.
ASSUME MailSearchAssumption ==
  /\ IsFiniteSet(DOMAIN Mailbox) /\ DOMAIN Mailbox = 1..Cardinality(DOMAIN Mailbox)
  /\ \A m \in DOMAIN Mailbox : Mailbox[m].uid \in 1..Cardinality(DOMAIN Mailbox)
  /\ \A m, n \in DOMAIN Mailbox :
       Mailbox[m].folder = Mailbox[n].folder /\ Mailbox[m].uid = Mailbox[n].uid => m = n
  /\ PageSize \in Nat \ {0} /\ MaxMoves \in Nat

VARIABLES
  stored,  \* imap_emails
  scores,   \* what scoreChunk and scoreVector give each row for the query at hand
  touched,  \* updated_at of the attachments' rows
  server,   \* where each mail lies: folder and uid, or Nowhere
  moves,    \* how many changes there have been
  reading,  \* the call
  shifted   \* history: the index or the attachments changed under a list; a folder was renumbered

searchVars == <<stored, scores, touched, server, moves, reading, shifted>>

Ids == DOMAIN Mailbox
Nowhere == [folder |-> "none", uid |-> 0]
Rows == [mail : Ids, source : {"email", "attachment"}]
Attach == {m \in Ids : Mailbox[m].file # "none"}
Query == [wildcard : BOOLEAN, source : {"all", "email", "attachment"}, fits : {Ids, {m \in Ids : Mailbox[m].sent = 1}},
          attached : {"any", "with", "without"}, by : {"relevance", "date"}, asc : BOOLEAN, limit : {1, Cardinality(Ids)}]
Least(a, b) == IF a < b THEN a ELSE b
Resting == [kind |-> "none"]

-----------------------------------------------------------------------------
(* search                                                                  *)

HasWhatIsAsked(q, m) == q.attached = "any" \/ (q.attached = "with" <=> m \in Attach)

\* The rows each half of the UNION may take.
Candidates(q, source) ==
  {r \in Rows : /\ r.mail \in stored \cap q.fits /\ r.source = source
                /\ q.source \in {"all", source}
                /\ source = "attachment" => r.mail \in Attach
                /\ HasWhatIsAsked(q, r.mail)}

Taken(q, source) ==
  kSubset(Least(MaxCandidates, Cardinality(Candidates(q, source))), Candidates(q, source))

RowScore(points, r, embedded) == points[r].text + IF embedded THEN points[r].vector ELSE 0

\* The sum over the mail's rows, those that count nothing being passed over.
Score(points, m, rows, embedded) ==
  FoldSet(LAMBDA r, sum : sum + RowScore(points, r, embedded), 0, {r \in rows : r.mail = m})

\* compareSearchEntries: mails without a date come last, and compare equal (NaN).
Before(a, b, q, points) ==
  LET sent(m) == Mailbox[m].sent IN
  IF q.by = "relevance"
    THEN \/ IF q.asc THEN points[a] < points[b] ELSE points[a] > points[b]
         \/ points[a] = points[b] /\ sent(a) > sent(b)
    ELSE \/ IF q.asc THEN sent(a) < sent(b) ELSE sent(a) > sent(b)
         \/ sent(a) = sent(b) /\ sent(a) # 0 /\ points[a] > points[b]

\* Variant for mutation: cut before it is sorted.
RankedLate(found, q, points) ==
  {r \in UNION {SetToSeqs(s) : s \in kSubset(Least(q.limit, Cardinality(found)), found)} :
     \A i, j \in 1..Len(r) : i < j => ~Before(r[j], r[i], q, points)}

\* Sorted, and cut to the limit.
Ranked(found, q, points) ==
  {SubSeq(r, 1, Least(q.limit, Len(r))) :
     r \in {r \in SetToSeqs(found) : \A i, j \in 1..Len(r) : i < j => ~Before(r[j], r[i], q, points)}}

\* searchByMetadata: relevance is the date received, which is the order of the ids
\* here.  The conditions on the source must both hold, so that "attachment" finds
\* nothing, and "email" only mails with attachments.
ByMetadata(q) ==
  LET key(m) == IF q.by = "relevance" THEN m ELSE Mailbox[m].sent
      found == {m \in stored \cap q.fits :
                  /\ HasWhatIsAsked(q, m)
                  /\ q.source # "all" => m \in Attach
                  /\ q.source # "attachment"}
      first(a, b) == \/ IF q.asc THEN key(a) < key(b) ELSE key(a) > key(b)
                     \/ key(a) = key(b) /\ Mailbox[a].uid > Mailbox[b].uid
  IN SubSeq(SetToSortSeq(found, first), 1, Least(q.limit, Cardinality(found)))

Search(q) ==
  /\ reading = Resting /\ moves = 0
  /\ scores' \in IF q.wildcard THEN {scores} ELSE Scores
  /\ IF q.wildcard
       THEN reading' = [kind |-> "metadata", query |-> q, list |-> ByMetadata(q)]
       ELSE \E mine \in Taken(q, "email"), other \in Taken(q, "attachment") :
              reading' = [kind |-> "search", query |-> q, rows |-> mine \cup other]
  /\ UNCHANGED <<stored, touched, server, moves, shifted>>

\* Variant for mutation: the mails are not looked up again.
FoundThen(rows, embedded) == {m \in {r.mail : r \in rows} : Score(scores, m, rows, embedded) > 0}

\* The summary of a mail is read after the await.
Found(rows, embedded) ==
  {m \in {r.mail : r \in rows} \cap stored : Score(scores, m, rows, embedded) > 0}

\* getQueryEmbedding has answered, or it failed, took too long or had no vectors.
Ranking(embedded) ==
  LET found == Found(reading.rows, embedded)
      points == [m \in found |-> Score(scores, m, reading.rows, embedded)]
  IN /\ reading.kind = "search"
     /\ \E list \in Ranked(found, reading.query, points) :
          reading' = [kind |-> "found", query |-> reading.query, rows |-> reading.rows,
                      embedded |-> embedded, list |-> list, had |-> stored]
     /\ UNCHANGED <<stored, scores, touched, server, moves, shifted>>

-----------------------------------------------------------------------------
(* listAttachments, one page after the other                               *)

\* The latest row of each content, by the time it was touched, then by id.
Later(a, b) == touched[a] > touched[b] \/ (touched[a] = touched[b] /\ a > b)
Latest == {a \in Attach \cap stored :
             \A b \in Attach \cap stored : Mailbox[b].file = Mailbox[a].file => ~Later(b, a)}

\* Variant for mutation: the id does not break a tie.
PagesOfTime ==
  {r \in SetToSeqs(Latest) : \A i, j \in 1..Len(r) : i < j => touched[r[i]] >= touched[r[j]]}

Pages == {r \in SetToSeqs(Latest) : \A i, j \in 1..Len(r) : i < j => Later(r[i], r[j])}

Page(offset) ==
  \E all \in Pages : LET shown == SubSeq(all, offset + 1, Least(offset + PageSize, Len(all))) IN
     reading' = [kind |-> "list", offset |-> offset + PageSize,
                 shown |-> IF offset = 0 THEN shown ELSE reading.shown \o shown,
                 total |-> Cardinality({Mailbox[a].file : a \in Attach \cap stored})]

ListAttachments ==
  /\ \/ reading = Resting /\ Page(0)
     \/ reading.kind = "list" /\ reading.offset < reading.total /\ Page(reading.offset)
  /\ UNCHANGED <<stored, scores, touched, server, moves, shifted>>

-----------------------------------------------------------------------------
(* fetchIndexedEmailSource                                                 *)

At(place) == {m \in Ids : server[m] = place}

\* resolveEmail, and connect.
FetchSource(m) ==
  /\ reading = Resting
  /\ m \in stored
  /\ reading' = [kind |-> "fetch", mail |-> m, folder |-> Mailbox[m].folder, byId |-> FALSE,
                 rest |-> MailFolders \cup {Mailbox[m].folder}]
  /\ UNCHANGED <<stored, scores, touched, server, moves, shifted>>

\* Variant for mutation: the uid is looked up in every folder.
MatchByUid == At([folder |-> reading.folder, uid |-> Mailbox[reading.mail].uid])

\* By uid in the folder of the row, by Message-ID afterwards; the row's own is the
\* first folder again.
Match ==
  IF ~reading.byId THEN At([folder |-> reading.folder, uid |-> Mailbox[reading.mail].uid])
  ELSE {m \in {reading.mail} : server[m].folder = reading.folder}

\* A folder has been looked at: the mail is there; or it is not, or the folder
\* could not be opened, and the next one follows; or there is none, or an error.
Looked ==
  /\ reading.kind = "fetch"
  /\ \/ \E m \in Match : reading' = [kind |-> "source", mail |-> reading.mail, got |-> m]
     \/ /\ reading.rest # {} /\ reading.mail \in WithId
        /\ \E f \in reading.rest :
             /\ Mailbox[reading.mail].folder \in reading.rest => f = Mailbox[reading.mail].folder
             /\ reading' = [reading EXCEPT !.folder = f, !.byId = TRUE, !.rest = @ \ {f}]
     \/ reading' = [kind |-> "failed"]
  /\ UNCHANGED <<stored, scores, touched, server, moves, shifted>>

-----------------------------------------------------------------------------
(* Meanwhile                                                               *)

\* Once a call has answered, what changes is of no consequence to it.
Moves ==
  /\ moves < MaxMoves /\ moves' = moves + 1
  /\ reading.kind \in {"none", "search", "list", "fetch"}

\* A mail is moved to a folder, where it gets a uid of its own, or removed.
MailMoves(m, f) ==
  /\ Moves /\ reading.kind \notin {"search", "list"}
  /\ server' = [server EXCEPT ![m] = IF f = "none" THEN Nowhere
                  ELSE [folder |-> f, uid |-> Cardinality(Ids) + moves + 1]]
  /\ UNCHANGED <<stored, scores, touched, reading, shifted>>

\* The server renumbers a folder (UIDVALIDITY), which nothing here notices.
Renumbers(f) ==
  /\ Moves /\ reading.kind \notin {"search", "list"}
  /\ \E m, n \in {m \in Ids : server[m].folder = f} :
       /\ m # n
       /\ server' = [server EXCEPT ![m] = server[n], ![n] = server[m]]
  /\ shifted' = TRUE
  /\ UNCHANGED <<stored, scores, touched, reading>>

ClearsIndex ==
  /\ Moves
  /\ stored' = {}
  /\ shifted' = TRUE
  /\ UNCHANGED <<scores, touched, server, reading>>

\* markAttachmentStatus writes updated_at.
Touches(a) ==
  /\ Moves /\ reading.kind \in {"none", "list"}
  /\ touched' = [touched EXCEPT ![a] = 2]
  /\ shifted' = TRUE
  /\ UNCHANGED <<stored, scores, server, reading>>

SearchInit ==
  /\ stored = Ids
  /\ scores = [r \in Rows |-> [text |-> 0, vector |-> 0]]
  /\ touched = [a \in Attach |-> 1]
  /\ server = [m \in Ids |-> [folder |-> Mailbox[m].folder, uid |-> Mailbox[m].uid]]
  /\ moves = 0
  /\ reading = Resting
  /\ shifted = FALSE

SearchNext ==
  \/ \E q \in Query : Search(q)
  \/ \E embedded \in BOOLEAN : Ranking(embedded)
  \/ ListAttachments
  \/ \E m \in Ids : FetchSource(m)
  \/ Looked
  \/ \E m \in Ids, f \in MailFolders \cup {"none"} : MailMoves(m, f)
  \/ (\E f \in MailFolders : Renumbers(f)) \/ ClearsIndex \/ \E a \in Attach : Touches(a)

SearchSpec == SearchInit /\ [][SearchNext]_searchVars

-----------------------------------------------------------------------------
(* Properties                                                              *)

\* A search never answers with a mail that has been cleared while its query was
\* embedded, although it had read the rows before.
AnswersAreThere == reading.kind = "found" => Range(reading.list) \subseteq reading.had

\* No mail is left out for one that ranks lower: whatever matched, and is not in
\* the answer, has lost to as many as were asked for, unless there were more rows
\* than are looked at.
NothingBetterIsLeftOut ==
  reading.kind = "found" =>
    LET q == reading.query
        points == [m \in Ids |-> Score(scores, m, reading.rows, reading.embedded)]
    IN \A m \in {r.mail : r \in reading.rows} \cap reading.had :
         points[m] > 0 /\ m \notin Range(reading.list) =>
           /\ Len(reading.list) = q.limit
           /\ \A n \in Range(reading.list) : ~Before(m, n, q, points)

\* Page after page, every content is shown once, as long as nothing changes.
PagesShowEachOnce ==
  reading.kind = "list" /\ reading.offset >= reading.total /\ ~shifted =>
    /\ Len(reading.shown) = reading.total
    /\ {Mailbox[a].file : a \in Range(reading.shown)} = {Mailbox[a].file : a \in Attach}

\* The files of a mail are those of that mail, wherever it has been moved, unless
\* the server has renumbered a folder.
SourceIsTheMail == reading.kind = "source" /\ ~shifted => reading.got = reading.mail

\* The answers of a search, the pages of a list and the source of a mail, together.
SearchCorrect ==
  AnswersAreThere /\ NothingBetterIsLeftOut /\ PagesShowEachOnce /\ SourceIsTheMail
=============================================================================
