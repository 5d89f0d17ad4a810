--------------------------- MODULE ImapCrawlProofs ---------------------------
(***************************************************************************)
(* Proofs about ImapCrawl, for any folders, crawls and bounds: types,      *)
(* that no checkpoint passes a mail without a row, and that every row      *)
(* without chunks is accounted for; about the attachments (MailAttachments)*)
(* and the chunks (Chunking) that come of the mails, about what is read of *)
(* them (MailSearch), and about what a token opens (PersonalMemories).     *)
(***************************************************************************)
EXTENDS ImapCrawl, MailSearch, PersonalMemories, MailAttachments, Chunking, SequenceTheorems, FiniteSetTheorems, WellFoundedInduction, TLAPS

\* What the step of a crawl that ends or opens a folder leaves: a crawl of the
\* right type that reads no folder, and the other crawls as they were.
Moved(k) ==
  /\ crawl' \in [Crawls -> CrawlState]
  /\ \A j \in Crawls : j # k => crawl'[j] = crawl[j]
  /\ crawl'[k].pc \in {"idle", "connecting", "opening", "logout"}

LEMMA StateSplit ==
  ASSUME TypeOK, NEW k \in Crawls
  PROVE  /\ crawl[k] \in CrawlState
         /\ crawl[k].pc = "idle" => crawl[k] = Idle
         /\ crawl[k].pc \in {"connecting", "logout"} => crawl[k] \in Between
         /\ crawl[k].pc \in {"opening", "status", "fetching", "embedding"} =>
              crawl[k] \in Inside
  BY DEF TypeOK, CrawlState, Idle, Between, Inside

LEMMA NextFolderMoves ==
  ASSUME TypeOK, NEW k \in Crawls, NEW c, c.full \in BOOLEAN, c.since \in BOOLEAN,
         c.todo \in SUBSET Folders, NextFolder(k, c)
  PROVE  Moved(k)
<1>. DEFINE out == [pc |-> "logout", full |-> c.full, since |-> c.since, todo |-> {}]
            in(f) == [pc |-> "opening", full |-> c.full, since |-> c.since,
                      todo |-> c.todo \ {f}, at |-> f, next |-> 1, upto |-> 0,
                      newest |-> 0, count |-> 0]
<1>1. CASE abort \/ c.todo = {}
  <2>1. crawl' = [crawl EXCEPT ![k] = out]
    BY <1>1 DEF NextFolder
  <2>2. out \in Between
    BY DEF Between
  <2>. QED
    BY <2>1, <2>2 DEF Moved, TypeOK, CrawlState
<1>2. CASE ~(abort \/ c.todo = {})
  <2>1. PICK f \in c.todo : crawl' = [crawl EXCEPT ![k] = in(f)]
    BY <1>2 DEF NextFolder
  <2>2. in(f) \in Inside
    BY CrawlAssumption DEF Inside
  <2>. QED
    BY <2>1, <2>2 DEF Moved, TypeOK, CrawlState
<1>. QED
  BY <1>1, <1>2

LEMMA FolderDoneMoves ==
  ASSUME TypeOK, NEW k \in Crawls, crawl[k] \in Inside, NEW n \in 0..MaxUid,
         FolderDone(k, n)
  PROVE  /\ Moved(k)
         /\ cursor' = [cursor EXCEPT ![crawl[k].at] = n]
         /\ cursor' \in [Folders -> 0..MaxUid]
<1>1. Moved(k)
  BY NextFolderMoves DEF FolderDone, Inside
<1>2. crawl[k].at \in Folders
  BY DEF Inside
<1>. QED
  BY <1>1, <1>2 DEF FolderDone, TypeOK

LEMMA FolderFailsMoves ==
  ASSUME TypeOK, NEW k \in Crawls, crawl[k] \in Inside, FolderFails(k)
  PROVE  Moved(k) /\ cursor' = cursor
  BY NextFolderMoves DEF FolderFails, Inside

\* Advance either ends the folder or goes on to the next message.
Counted(k) ==
  [crawl[k] EXCEPT !.pc = "fetching", !.count = @ + 1, !.next = @ + 1,
                   !.newest = Larger(crawl[k].newest, crawl[k].next)]

LEMMA AdvanceMoves ==
  ASSUME TypeOK, NEW k \in Crawls, crawl[k] \in Inside,
         crawl[k].next <= crawl[k].upto, Advance(k)
  PROVE  /\ Larger(crawl[k].newest, crawl[k].next) \in 0..MaxUid
         /\ \/ /\ Moved(k)
               /\ cursor' = [cursor EXCEPT ![crawl[k].at] =
                                Larger(crawl[k].newest, crawl[k].next)]
            \/ /\ crawl' = [crawl EXCEPT ![k] = Counted(k)]
               /\ Counted(k) \in Inside
               /\ cursor' = cursor
         /\ crawl' \in [Crawls -> CrawlState]
         /\ cursor' \in [Folders -> 0..MaxUid]
<1>. DEFINE n == Larger(crawl[k].newest, crawl[k].next)
<1>1. n \in 0..MaxUid
  BY CrawlAssumption DEF Inside, Larger
<1>2. CASE abort \/ crawl[k].count + 1 >= BatchSize
  <2>1. FolderDone(k, n)
    BY <1>2 DEF Advance
  <2>. QED
    BY <1>1, <2>1, FolderDoneMoves DEF Moved
<1>3. CASE ~(abort \/ crawl[k].count + 1 >= BatchSize)
  <2>1. crawl' = [crawl EXCEPT ![k] = Counted(k)] /\ cursor' = cursor
    BY <1>3 DEF Advance, Counted
  <2>2. crawl[k].count + 1 \in 0..BatchSize
    BY <1>3, CrawlAssumption DEF Inside
  <2>3. crawl[k].next + 1 \in 1..(MaxUid + 1)
    BY CrawlAssumption DEF Inside
  <2>4. Counted(k) \in Inside
    BY <1>1, <2>2, <2>3 DEF Counted, Inside
  <2>. QED
    BY <1>1, <2>1, <2>4 DEF TypeOK, CrawlState
<1>. QED
  BY <1>2, <1>3

\* What is covered stays so while rows and exceptions are only added.
LEMMA CoveredGrows ==
  ASSUME NEW f, NEW n, Covered(f, n), emails \cup excused \subseteq emails' \cup excused'
  PROVE  \A u \in Uids : u <= n => <<f, u>> \in emails' \cup excused'
  BY DEF Covered

\* An action of one crawl that only adds rows need only answer for that crawl.
LEMMA OneCrawlMoves ==
  ASSUME IndexInv, TypeOK', NothingSkipped', NEW k \in Crawls, ReadsInOrder(k)',
         \A j \in Crawls : j # k => crawl'[j] = crawl[j],
         emails \cup excused \subseteq emails' \cup excused'
  PROVE  IndexInv'
<1>1. ASSUME NEW j \in Crawls
      PROVE  ReadsInOrder(j)'
  <2>1. CASE j # k
    <3>1. crawl'[j] = crawl[j]
      BY <2>1
    <3>2. ReadsInOrder(j)
      BY DEF IndexInv
    <3>. QED
      BY <3>1, <3>2, CoveredGrows DEF ReadsInOrder, Reading, Covered
  <2>. QED
    BY <2>1
<1>. QED
  BY <1>1 DEF IndexInv

LEMMA CursorKept ==
  ASSUME NothingSkipped, cursor' = cursor,
         emails \cup excused \subseteq emails' \cup excused'
  PROVE  NothingSkipped'
  BY CoveredGrows DEF NothingSkipped, Covered

LEMMA CursorMoved ==
  ASSUME TypeOK, NothingSkipped, NEW f \in Folders, NEW n,
         cursor' = [cursor EXCEPT ![f] = n],
         \A u \in Uids : u <= n => <<f, u>> \in emails' \cup excused',
         emails \cup excused \subseteq emails' \cup excused'
  PROVE  NothingSkipped'
<1>1. ASSUME NEW g \in Folders
      PROVE  Covered(g, cursor[g])'
  <2>1. CASE g = f
    BY <2>1 DEF TypeOK, Covered
  <2>2. CASE g # f
    BY <2>2, CoveredGrows DEF TypeOK, NothingSkipped, Covered
  <2>. QED
    BY <2>1, <2>2
<1>. QED
  BY <1>1 DEF NothingSkipped

\* After an action that ends the work on a folder, whatever its checkpoint.
LEMMA MovedReads ==
  ASSUME NEW k \in Crawls, Moved(k)
  PROVE  ReadsInOrder(k)'
  BY DEF Moved, ReadsInOrder, Reading

LEMMA InsideFacts ==
  ASSUME IndexInv, NEW k \in Crawls, Reading(k)
  PROVE  /\ crawl[k] \in Inside
         /\ crawl[k].at \in Folders
         /\ crawl[k].next \in 1..(MaxUid + 1)
         /\ crawl[k].newest \in 0..MaxUid
         /\ crawl[k].upto \in 0..MaxUid
         /\ crawl[k].next <= crawl[k].newest + 1
         /\ Covered(crawl[k].at, crawl[k].newest)
         /\ crawl[k].pc = "embedding" => crawl[k].next <= crawl[k].upto
<1>1. crawl[k] \in Inside
  BY StateSplit DEF IndexInv, Reading
<1>2. ReadsInOrder(k)
  BY DEF IndexInv
<1>. QED
  BY <1>1, <1>2 DEF Inside, ReadsInOrder

\* Advance, once the row of the current mail is there.
LEMMA AdvanceKeeps ==
  ASSUME IndexInv, NEW k \in Crawls, crawl[k].pc \in {"fetching", "embedding"},
         crawl[k].next <= crawl[k].upto, Advance(k),
         Current(k) \in emails',
         emails' \subseteq Mail, chunked' \subseteq emails', missed' \subseteq Mail,
         emails \cup excused \subseteq emails' \cup excused',
         UNCHANGED <<arrived, flagVars, reindexing, upsets, excused>>
  PROVE  IndexInv'
<1>. DEFINE n == Larger(crawl[k].newest, crawl[k].next)
<1>1. Reading(k)
  BY DEF Reading
<1>2. /\ crawl[k] \in Inside
      /\ crawl[k].at \in Folders
      /\ crawl[k].next \in 1..(MaxUid + 1)
      /\ crawl[k].newest \in 0..MaxUid
      /\ crawl[k].next <= crawl[k].newest + 1
      /\ Covered(crawl[k].at, crawl[k].newest)
  BY <1>1, InsideFacts
<1>3. TypeOK
  BY DEF IndexInv
<1>4. /\ n \in 0..MaxUid
      /\ \/ Moved(k) /\ cursor' = [cursor EXCEPT ![crawl[k].at] = n]
         \/ /\ crawl' = [crawl EXCEPT ![k] = Counted(k)]
            /\ Counted(k) \in Inside
            /\ cursor' = cursor
      /\ crawl' \in [Crawls -> CrawlState]
      /\ cursor' \in [Folders -> 0..MaxUid]
  BY <1>2, <1>3, AdvanceMoves
<1>5. TypeOK'
  BY <1>3, <1>4 DEF TypeOK, flagVars
<1>6. \A u \in Uids : u <= n => <<crawl[k].at, u>> \in emails' \cup excused'
  <2>1. \A u \in Uids : u <= crawl[k].newest => <<crawl[k].at, u>> \in emails' \cup excused'
    BY <1>2, CoveredGrows
  <2>2. ASSUME NEW u \in Uids, u <= n, ~(u <= crawl[k].newest)
        PROVE  u = crawl[k].next
    BY <1>2, <2>2, CrawlAssumption DEF Larger, Uids
  <2>. QED
    BY <2>1, <2>2 DEF Current
<1>7. CASE Moved(k) /\ cursor' = [cursor EXCEPT ![crawl[k].at] = n]
  <2>1. NothingSkipped'
    BY <1>2, <1>3, <1>6, <1>7, CursorMoved DEF IndexInv
  <2>. QED
    BY <1>5, <1>7, <2>1, MovedReads, OneCrawlMoves DEF Moved
<1>8. CASE /\ crawl' = [crawl EXCEPT ![k] = Counted(k)]
           /\ Counted(k) \in Inside
           /\ cursor' = cursor
  <2>1. NothingSkipped'
    BY <1>8, CursorKept DEF IndexInv
  <2>2. /\ crawl'[k] = Counted(k)
        /\ \A j \in Crawls : j # k => crawl'[j] = crawl[j]
    BY <1>3, <1>8 DEF TypeOK
  <2>3. /\ Counted(k).at = crawl[k].at
        /\ Counted(k).pc = "fetching"
        /\ Counted(k).newest = n
        /\ Counted(k).next = crawl[k].next + 1
    BY <1>2 DEF Counted, Inside
  <2>4. crawl[k].next + 1 <= n + 1
    BY <1>2, CrawlAssumption DEF Larger
  <2>5. ReadsInOrder(k)'
    BY <1>6, <2>2, <2>3, <2>4 DEF ReadsInOrder, Reading, Covered
  <2>. QED
    BY <1>5, <2>1, <2>2, <2>5, OneCrawlMoves
<1>. QED
  BY <1>4, <1>7, <1>8

\* An action of a crawl after which it reads no folder and the checkpoints
\* are the old ones.
LEMMA MovedKeeps ==
  ASSUME IndexInv, NEW k \in Crawls, Moved(k), cursor' = cursor, TypeOK',
         emails \cup excused \subseteq emails' \cup excused'
  PROVE  IndexInv'
<1>1. NothingSkipped'
  BY CursorKept DEF IndexInv
<1>. QED
  BY <1>1, MovedReads, OneCrawlMoves DEF Moved

\* FolderDone, with a checkpoint that is covered.
LEMMA DoneKeeps ==
  ASSUME IndexInv, NEW k \in Crawls, Reading(k), NEW n \in 0..MaxUid, FolderDone(k, n),
         n <= crawl[k].newest,
         UNCHANGED <<arrived, emails, chunked, flagVars, reindexing, upsets, histVars>>
  PROVE  IndexInv'
<1>1. /\ crawl[k] \in Inside
      /\ crawl[k].at \in Folders
      /\ crawl[k].newest \in 0..MaxUid
      /\ Covered(crawl[k].at, crawl[k].newest)
  BY InsideFacts
<1>2. TypeOK /\ NothingSkipped
  BY DEF IndexInv
<1>3. /\ Moved(k)
      /\ cursor' = [cursor EXCEPT ![crawl[k].at] = n]
      /\ cursor' \in [Folders -> 0..MaxUid]
  BY <1>1, <1>2, FolderDoneMoves
<1>4. TypeOK'
  BY <1>2, <1>3 DEF TypeOK, Moved, flagVars, histVars
<1>5. emails \cup excused \subseteq emails' \cup excused'
  BY DEF histVars
<1>6. \A u \in Uids : u <= n => <<crawl[k].at, u>> \in emails' \cup excused'
  <2>1. \A u \in Uids : u <= crawl[k].newest => <<crawl[k].at, u>> \in emails' \cup excused'
    BY <1>1, <1>5, CoveredGrows
  <2>. QED
    BY <1>1, <2>1, CrawlAssumption DEF Uids
<1>7. NothingSkipped'
  BY <1>1, <1>2, <1>3, <1>5, <1>6, CursorMoved
<1>. QED
  BY <1>3, <1>4, <1>5, <1>7, MovedReads, OneCrawlMoves DEF Moved

LEMMA FailureTypes ==
  ASSUME TypeOK, RecordFailure
  PROVE  /\ active' \in BOOLEAN /\ abort' \in BOOLEAN /\ stopped' \in BOOLEAN
         /\ failures' \in 0..(Limit + 1) /\ startup' = startup
<1>0. startup' = startup
  BY DEF RecordFailure
<1>1. failures' \in 0..(Limit + 1)
  BY CrawlAssumption DEF RecordFailure, TypeOK, Smaller
<1>2. CASE failures + 1 > Limit /\ ~stopped
  <2>1. stopped' = TRUE /\ abort' = TRUE /\ active' = FALSE
    BY <1>2 DEF RecordFailure
  <2>. QED
    BY <1>0, <1>1, <2>1
<1>3. CASE ~(failures + 1 > Limit /\ ~stopped)
  <2>1. UNCHANGED <<stopped, abort, active>>
    BY <1>3 DEF RecordFailure
  <2>. QED
    BY <1>0, <1>1, <2>1 DEF TypeOK
<1>. QED
  BY <1>2, <1>3

\* Where start() is: due, at a crawl, polling or over.
StartTypes == {"due", "polling", "over"} \cup Crawls

LEMMA TimerType == Timer \in StartTypes
  BY DEF Timer, StartTypes

\* Every step of a crawl keeps the invariant.
LEMMA CrawlSteps ==
  ASSUME IndexInv, NEW k \in Crawls, Step(k)
  PROVE  IndexInv'
<1>. USE DEF indexVars, flagVars, histVars
<1>0. TypeOK
  BY DEF IndexInv
<1>1. CASE Connected(k)
  <2>1. Moved(k)
    BY <1>0, <1>1, StateSplit, NextFolderMoves DEF Connected, Between
  <2>2. TypeOK'
    BY <1>0, <1>1, <2>1 DEF Connected, TypeOK, Moved
  <2>. QED
    BY <1>1, <2>1, <2>2, MovedKeeps DEF Connected
<1>2. CASE ConnectFails(k)
  <2>1. Moved(k)
    <3>1. crawl[k] \in Between
      BY <1>0, <1>2, StateSplit DEF ConnectFails
    <3>2. [crawl[k] EXCEPT !.pc = "logout", !.todo = {}] \in Between
      BY <3>1 DEF Between
    <3>3. crawl' = [crawl EXCEPT ![k] = [crawl[k] EXCEPT !.pc = "logout", !.todo = {}]]
      BY <1>2 DEF ConnectFails
    <3>4. [crawl[k] EXCEPT !.pc = "logout", !.todo = {}].pc = "logout"
      BY <3>1 DEF Between
    <3>. QED
      BY <1>0, <3>2, <3>3, <3>4 DEF Moved, TypeOK, CrawlState
  <2>2. /\ active' \in BOOLEAN /\ abort' \in BOOLEAN /\ stopped' \in BOOLEAN
        /\ failures' \in 0..(Limit + 1) /\ startup' \in StartTypes
    <3>1. CASE RecordFailure
      BY <1>0, <3>1, FailureTypes DEF StartTypes, TypeOK
    <3>2. CASE UNCHANGED flagVars
      BY <1>0, <3>2 DEF TypeOK, StartTypes
    <3>3. CASE NotRecoverable(k)
      <4>1. startup' \in StartTypes
        BY <1>0, <3>3 DEF NotRecoverable, TypeOK, StartTypes
      <4>. QED
        BY <1>0, <3>3, <4>1 DEF NotRecoverable, TypeOK
    <3>. QED
      BY <1>2, <3>1, <3>2, <3>3 DEF ConnectFails
  <2>3. TypeOK'
    BY <1>0, <1>2, <2>1, <2>2, CrawlAssumption DEF ConnectFails, Upset, TypeOK, Moved, StartTypes
  <2>. QED
    BY <1>2, <2>1, <2>3, MovedKeeps DEF ConnectFails
<1>3. CASE Opened(k)
  <2>1. crawl[k] \in Inside /\ crawl[k].at \in Folders
    BY <1>0, <1>3, StateSplit DEF Opened, Inside
  <2>. DEFINE c == [crawl[k] EXCEPT !.pc = "status", !.next = LowerBoundUid(k),
                                    !.newest = cursor[crawl[k].at]]
  <2>2. cursor[crawl[k].at] \in 0..MaxUid
    BY <1>0, <2>1 DEF TypeOK
  <2>3. /\ LowerBoundUid(k) \in 1..(MaxUid + 1)
        /\ LowerBoundUid(k) <= cursor[crawl[k].at] + 1
    BY <2>2, CrawlAssumption DEF LowerBoundUid
  <2>4. c \in Inside /\ c.pc = "status" /\ c.at = crawl[k].at
        /\ c.newest = cursor[crawl[k].at] /\ c.next = LowerBoundUid(k)
    BY <2>1, <2>2, <2>3 DEF Inside
  <2>5. crawl' = [crawl EXCEPT ![k] = c]
    BY <1>3 DEF Opened
  <2>6. TypeOK'
    BY <1>0, <1>3, <2>4, <2>5 DEF Opened, TypeOK, CrawlState
  <2>7. NothingSkipped'
    BY <1>3, CursorKept DEF Opened, IndexInv
  <2>8. crawl'[k] = c /\ \A j \in Crawls : j # k => crawl'[j] = crawl[j]
    BY <1>0, <2>5 DEF TypeOK
  <2>9. Covered(crawl[k].at, cursor[crawl[k].at])
    BY <2>1 DEF IndexInv, NothingSkipped
  <2>10. ReadsInOrder(k)'
    BY <1>3, <2>3, <2>4, <2>8, <2>9 DEF Opened, ReadsInOrder, Reading, Covered
  <2>. QED
    BY <1>3, <2>6, <2>7, <2>8, <2>10, OneCrawlMoves DEF Opened
<1>4. CASE StatusReturns(k)
  <2>1. Reading(k)
    BY <1>4 DEF StatusReturns, Reading
  <2>2. crawl[k] \in Inside /\ crawl[k].at \in Folders /\ crawl[k].next \in 1..(MaxUid + 1)
        /\ crawl[k].newest \in 0..MaxUid /\ crawl[k].next <= crawl[k].newest + 1
        /\ Covered(crawl[k].at, crawl[k].newest)
    BY <2>1, InsideFacts
  <2>. DEFINE m == arrived[crawl[k].at]
  <2>3. m \in 0..MaxUid
    BY <1>0, <2>2 DEF TypeOK
  <2>4. CASE m < crawl[k].next
    <3>1. FolderDone(k, m)
      BY <1>4, <2>4 DEF StatusReturns
    <3>2. m <= crawl[k].newest
      BY <2>2, <2>3, <2>4, CrawlAssumption
    <3>. QED
      BY <1>4, <2>1, <2>3, <3>1, <3>2, DoneKeeps DEF StatusReturns
  <2>5. CASE ~(m < crawl[k].next)
    <3>. DEFINE c == [crawl[k] EXCEPT !.pc = "fetching", !.upto = m]
    <3>1. crawl' = [crawl EXCEPT ![k] = c] /\ cursor' = cursor
      BY <1>4, <2>5 DEF StatusReturns
    <3>2. c \in Inside /\ c.pc = "fetching" /\ c.at = crawl[k].at
          /\ c.newest = crawl[k].newest /\ c.next = crawl[k].next
      BY <2>2, <2>3 DEF Inside
    <3>3. TypeOK'
      BY <1>0, <1>4, <3>1, <3>2 DEF StatusReturns, TypeOK, CrawlState
    <3>4. crawl'[k] = c /\ \A j \in Crawls : j # k => crawl'[j] = crawl[j]
      BY <1>0, <3>1 DEF TypeOK
    <3>5. NothingSkipped'
      BY <1>4, <3>1, CursorKept DEF StatusReturns, IndexInv
    <3>6. ReadsInOrder(k)'
      BY <1>4, <2>2, <3>2, <3>4 DEF StatusReturns, ReadsInOrder, Reading, Covered
    <3>. QED
      BY <1>4, <3>3, <3>4, <3>5, <3>6, OneCrawlMoves DEF StatusReturns
  <2>. QED
    BY <2>4, <2>5
<1>5. CASE StatusFails(k)
  <2>1. Reading(k)
    BY <1>5 DEF StatusFails, Reading
  <2>2. crawl[k] \in Inside /\ crawl[k].at \in Folders /\ crawl[k].next \in 1..(MaxUid + 1)
        /\ crawl[k].newest \in 0..MaxUid /\ crawl[k].next <= crawl[k].newest + 1
        /\ Covered(crawl[k].at, crawl[k].newest)
    BY <2>1, InsideFacts
  <2>. DEFINE m == arrived[crawl[k].at]
              n == Larger(1, Smaller(crawl[k].next, m))
              c == [crawl[k] EXCEPT !.pc = "fetching", !.upto = m, !.next = n]
  <2>3. m \in 0..MaxUid
    BY <1>0, <2>2 DEF TypeOK
  <2>4. n \in 1..(MaxUid + 1) /\ n <= crawl[k].newest + 1
    BY <2>2, <2>3, CrawlAssumption DEF Larger, Smaller
  <2>5. crawl' = [crawl EXCEPT ![k] = c]
    BY <1>5 DEF StatusFails
  <2>6. c \in Inside /\ c.pc = "fetching" /\ c.at = crawl[k].at
        /\ c.newest = crawl[k].newest /\ c.next = n
    BY <2>2, <2>3, <2>4 DEF Inside
  <2>7. TypeOK'
    BY <1>0, <1>5, <2>5, <2>6, CrawlAssumption DEF StatusFails, Upset, TypeOK, CrawlState
  <2>8. crawl'[k] = c /\ \A j \in Crawls : j # k => crawl'[j] = crawl[j]
    BY <1>0, <2>5 DEF TypeOK
  <2>9. NothingSkipped'
    BY <1>5, CursorKept DEF StatusFails, IndexInv
  <2>10. ReadsInOrder(k)'
    BY <1>5, <2>2, <2>4, <2>6, <2>8 DEF StatusFails, ReadsInOrder, Reading, Covered
  <2>. QED
    BY <1>5, <2>7, <2>8, <2>9, <2>10, OneCrawlMoves DEF StatusFails
<1>6. CASE SkipOld(k)
  <2>1. Reading(k)
    BY <1>6 DEF SkipOld, Reading
  <2>2. crawl[k] \in Inside /\ crawl[k].at \in Folders /\ crawl[k].next \in 1..(MaxUid + 1)
        /\ crawl[k].newest \in 0..MaxUid /\ crawl[k].next <= crawl[k].newest + 1
        /\ crawl[k].upto \in 0..MaxUid
        /\ Covered(crawl[k].at, crawl[k].newest)
    BY <2>1, InsideFacts
  <2>. DEFINE n == Larger(crawl[k].newest, crawl[k].next)
              c == [crawl[k] EXCEPT !.next = @ + 1, !.newest = n]
  <2>3. /\ crawl[k].next + 1 \in 1..(MaxUid + 1)
        /\ crawl[k].next \in Uids
        /\ n \in 0..MaxUid
        /\ crawl[k].next + 1 <= n + 1
    BY <1>6, <2>2, CrawlAssumption DEF SkipOld, Larger, Uids
  <2>4. crawl' = [crawl EXCEPT ![k] = c]
    BY <1>6 DEF SkipOld
  <2>5. c \in Inside /\ c.pc = "fetching" /\ c.at = crawl[k].at
        /\ c.newest = n /\ c.next = crawl[k].next + 1
    BY <1>6, <2>2, <2>3 DEF SkipOld, Inside
  <2>6. Current(k) \in Mail
    BY <2>2, <2>3 DEF Current, Mail
  <2>7. TypeOK'
    BY <1>0, <1>6, <2>4, <2>5, <2>6 DEF SkipOld, TypeOK, CrawlState
  <2>8. crawl'[k] = c /\ \A j \in Crawls : j # k => crawl'[j] = crawl[j]
    BY <1>0, <2>4 DEF TypeOK
  <2>9. NothingSkipped'
    BY <1>6, CursorKept DEF SkipOld, IndexInv
  <2>10. \A u \in Uids : u <= n => <<crawl[k].at, u>> \in emails' \cup excused'
    <3>1. \A u \in Uids : u <= crawl[k].newest => <<crawl[k].at, u>> \in emails' \cup excused'
      BY <1>6, <2>2, CoveredGrows DEF SkipOld
    <3>2. ASSUME NEW u \in Uids, u <= n, ~(u <= crawl[k].newest)
          PROVE  u = crawl[k].next
      BY <2>2, <3>2, CrawlAssumption DEF Larger, Uids
    <3>. QED
      BY <1>6, <3>1, <3>2 DEF SkipOld, Current
  <2>11. ReadsInOrder(k)'
    BY <2>3, <2>5, <2>8, <2>10 DEF ReadsInOrder, Reading, Covered
  <2>. QED
    BY <1>6, <2>7, <2>8, <2>9, <2>11, OneCrawlMoves DEF SkipOld
<1>7. CASE Upsert(k)
  <2>1. Reading(k)
    BY <1>7 DEF Upsert, Reading
  <2>2. crawl[k] \in Inside /\ crawl[k].at \in Folders /\ crawl[k].next \in 1..(MaxUid + 1)
        /\ crawl[k].newest \in 0..MaxUid /\ crawl[k].next <= crawl[k].newest + 1
        /\ crawl[k].upto \in 0..MaxUid
        /\ Covered(crawl[k].at, crawl[k].newest)
    BY <2>1, InsideFacts
  <2>3. Current(k) \in Mail
    BY <1>7, <2>2, CrawlAssumption DEF Upsert, Current, Mail, Uids
  <2>4. emails' \subseteq Mail /\ chunked' \subseteq emails'
    BY <1>0, <1>7, <2>3 DEF Upsert, TypeOK
  <2>5. CASE ~Changed(k)
    <3>1. Advance(k)
      BY <1>7, <2>5 DEF Upsert
    <3>. QED
      BY <1>0, <1>7, <2>4, <3>1, AdvanceKeeps DEF Upsert, TypeOK
  <2>6. CASE Changed(k)
    <3>. DEFINE c == [crawl[k] EXCEPT !.pc = "embedding"]
    <3>1. crawl' = [crawl EXCEPT ![k] = c] /\ cursor' = cursor
      BY <1>7, <2>6 DEF Upsert
    <3>2. c \in Inside /\ c.pc = "embedding" /\ c.at = crawl[k].at
          /\ c.newest = crawl[k].newest /\ c.next = crawl[k].next /\ c.upto = crawl[k].upto
      BY <2>2 DEF Inside
    <3>3. TypeOK'
      BY <1>0, <1>7, <2>4, <3>1, <3>2 DEF Upsert, TypeOK, CrawlState
    <3>4. crawl'[k] = c /\ \A j \in Crawls : j # k => crawl'[j] = crawl[j]
      BY <1>0, <3>1 DEF TypeOK
    <3>5. NothingSkipped'
      BY <1>7, <3>1, CursorKept DEF Upsert, IndexInv
    <3>6. ReadsInOrder(k)'
      BY <1>7, <2>2, <3>2, <3>4 DEF Upsert, ReadsInOrder, Reading, Covered
    <3>. QED
      BY <1>7, <3>3, <3>4, <3>5, <3>6, OneCrawlMoves DEF Upsert
  <2>. QED
    BY <2>5, <2>6
<1>8. CASE Embedded(k)
  <2>1. Reading(k)
    BY <1>8 DEF Embedded, Reading
  <2>2. crawl[k] \in Inside /\ crawl[k].next <= crawl[k].upto
    BY <1>8, <2>1, InsideFacts DEF Embedded
  <2>3. missed' \subseteq Mail
    BY <1>0, <1>8 DEF Embedded, TypeOK
  <2>4. CASE Current(k) \in emails
    <3>1. Advance(k) /\ chunked' = chunked \cup {Current(k)}
      BY <1>8, <2>4 DEF Embedded
    <3>2. emails' \subseteq Mail /\ chunked' \subseteq emails'
      BY <1>0, <1>8, <2>4, <3>1 DEF Embedded, TypeOK
    <3>. QED
      BY <1>8, <2>2, <2>3, <2>4, <3>1, <3>2, AdvanceKeeps DEF Embedded
  <2>5. CASE Current(k) \notin emails
    <3>1. FolderFails(k) /\ chunked' = chunked
      BY <1>8, <2>5 DEF Embedded
    <3>2. Moved(k) /\ cursor' = cursor
      BY <1>0, <2>2, <3>1, FolderFailsMoves
    <3>3. TypeOK'
      BY <1>0, <1>8, <2>3, <3>1, <3>2 DEF Embedded, TypeOK, Moved
    <3>. QED
      BY <1>8, <3>2, <3>3, MovedKeeps DEF Embedded
  <2>. QED
    BY <2>4, <2>5
<1>9. CASE EmbedFails(k)
  <2>1. crawl[k] \in Inside
    BY <1>0, <1>9, StateSplit DEF EmbedFails
  <2>2. Moved(k) /\ cursor' = cursor
    BY <1>0, <1>9, <2>1, FolderFailsMoves DEF EmbedFails
  <2>3. missed' \subseteq Mail
    BY <1>0, <1>9 DEF EmbedFails, TypeOK
  <2>4. TypeOK'
    BY <1>0, <1>9, <2>2, <2>3, CrawlAssumption DEF EmbedFails, Upset, TypeOK, Moved
  <2>. QED
    BY <1>9, <2>2, <2>4, MovedKeeps DEF EmbedFails
<1>10. CASE FetchFails(k)
  <2>1. crawl[k] \in Inside
    BY <1>0, <1>10, StateSplit DEF FetchFails
  <2>2. Moved(k) /\ cursor' = cursor
    BY <1>0, <1>10, <2>1, FolderFailsMoves DEF FetchFails
  <2>3. TypeOK'
    BY <1>0, <1>10, <2>2, CrawlAssumption DEF FetchFails, Upset, TypeOK, Moved
  <2>. QED
    BY <1>10, <2>2, <2>3, MovedKeeps DEF FetchFails
<1>11. CASE FetchEnds(k)
  <2>1. Reading(k)
    BY <1>11 DEF FetchEnds, Reading
  <2>2. crawl[k].newest \in 0..MaxUid /\ crawl[k].newest <= crawl[k].newest
    BY <2>1, InsideFacts, CrawlAssumption
  <2>. QED
    BY <1>11, <2>1, <2>2, DoneKeeps DEF FetchEnds
<1>12. CASE LoggedOut(k)
  <2>1. Moved(k)
    BY <1>0, <1>12 DEF LoggedOut, Moved, TypeOK, CrawlState, Idle
  <2>3. startup' \in StartTypes
    BY <1>0, <1>12, TimerType DEF LoggedOut, TypeOK, StartTypes
  <2>2. TypeOK'
    BY <1>0, <1>12, <2>1, <2>3 DEF LoggedOut, TypeOK, Moved, StartTypes
  <2>. QED
    BY <1>12, <2>1, <2>2, MovedKeeps DEF LoggedOut
<1>. QED
  BY <1>1, <1>2, <1>3, <1>4, <1>5, <1>6, <1>7, <1>8, <1>9, <1>10, <1>11, <1>12 DEF Step

\* An action that moves no crawl and no checkpoint and takes no row away.
LEMMA OthersKeep ==
  ASSUME IndexInv, TypeOK', cursor' = cursor, crawl' = crawl,
         emails \cup excused \subseteq emails' \cup excused'
  PROVE  IndexInv'
<1>1. NothingSkipped'
  BY CursorKept DEF IndexInv
<1>2. ASSUME NEW k \in Crawls
      PROVE  ReadsInOrder(k)'
  <2>1. ReadsInOrder(k)
    BY DEF IndexInv
  <2>. QED
    BY <2>1, CoveredGrows DEF ReadsInOrder, Reading, Covered
<1>. QED
  BY <1>1, <1>2 DEF IndexInv

LEMMA BeginKeeps ==
  ASSUME IndexInv, NEW k \in Crawls, NEW full \in BOOLEAN, NEW since \in BOOLEAN,
         NEW todo \in SUBSET Folders, Begin(k, full, since, todo), upsets' \in 0..MaxUpsets,
         startup' \in StartTypes
  PROVE  IndexInv'
<1>. DEFINE c == [pc |-> "connecting", full |-> full, since |-> since, todo |-> todo]
<1>0. TypeOK
  BY DEF IndexInv
<1>1. c \in Between
  BY DEF Between
<1>2. crawl' = [crawl EXCEPT ![k] = c]
  BY DEF Begin
<1>3. Moved(k)
  BY <1>0, <1>1, <1>2 DEF Moved, TypeOK, CrawlState
<1>4. TypeOK'
  BY <1>0, <1>3 DEF Begin, TypeOK, Moved, indexVars, histVars, StartTypes
<1>. QED
  BY <1>3, <1>4, MovedKeeps DEF Begin, indexVars, histVars

\* Clearing under crawls in progress: what they had passed is excused.
LEMMA ClearKeeps ==
  ASSUME IndexInv, ClearIndex
  PROVE  IndexInv'
<1>0. TypeOK
  BY DEF IndexInv
<1>1. TypeOK'
  <2>1. Passed \subseteq Mail
    BY DEF Passed
  <2>2. cursor' \in [Folders -> 0..MaxUid]
    BY CrawlAssumption DEF ClearIndex
  <2>. QED
    BY <1>0, <2>1, <2>2, CrawlAssumption DEF ClearIndex, Upset, TypeOK
<1>2. NothingSkipped'
  <2>1. ASSUME NEW f \in Folders, NEW u \in Uids
        PROVE  cursor'[f] = 0 /\ ~(u <= 0)
    BY <2>1, CrawlAssumption DEF ClearIndex, Uids
  <2>. QED
    BY <2>1 DEF NothingSkipped, Covered
<1>3. ASSUME NEW k \in Crawls
      PROVE  ReadsInOrder(k)'
  <2>1. CASE Reading(k)
    <3>1. crawl[k].at \in Folders /\ ReadsInOrder(k)
      BY <2>1, InsideFacts DEF IndexInv
    <3>2. ASSUME NEW u \in Uids, u <= crawl[k].newest
          PROVE  <<crawl[k].at, u>> \in Passed
      BY <2>1, <3>1, <3>2 DEF Passed, Mail
    <3>3. crawl' = crawl /\ excused' = Passed
      BY DEF ClearIndex
    <3>. QED
      BY <2>1, <3>1, <3>2, <3>3 DEF ReadsInOrder, Reading, Covered
  <2>2. CASE ~Reading(k)
    BY <2>2 DEF ClearIndex, ReadsInOrder, Reading
  <2>. QED
    BY <2>1, <2>2
<1>. QED
  BY <1>1, <1>2, <1>3 DEF IndexInv

LEMMA RestartKeeps ==
  ASSUME IndexInv, Restart
  PROVE  IndexInv'
<1>0. TypeOK
  BY DEF IndexInv
<1>1. \A k \in Crawls : crawl'[k] = Idle
  BY DEF Restart
<1>2. TypeOK'
  <2>1. crawl' \in [Crawls -> CrawlState]
    BY DEF Restart, CrawlState
  <2>. QED
    <3>1. failures' \in 0..(Limit + 1) /\ upsets' \in 0..MaxUpsets
      BY <1>0, CrawlAssumption DEF Restart, Upset, TypeOK
    <3>2. active' \in BOOLEAN /\ abort' \in BOOLEAN /\ stopped' \in BOOLEAN
      BY DEF Restart
    <3>3. missed' \subseteq Mail /\ reindexing' \subseteq Mail
      BY <1>0 DEF Restart, TypeOK
    <3>. QED
      BY <1>0, <2>1, <3>1, <3>2, <3>3 DEF Restart, TypeOK, indexVars
<1>3. NothingSkipped'
  BY CursorKept DEF Restart, indexVars, IndexInv
<1>. QED
  BY <1>1, <1>2, <1>3 DEF IndexInv, ReadsInOrder, Reading, Idle

LEMMA ReindexKeeps ==
  ASSUME IndexInv, NEW m \in Mail, Reindex(m) \/ ReindexSettles(m)
  PROVE  IndexInv'
<1>0. TypeOK
  BY DEF IndexInv
<1>. USE DEF indexVars, flagVars, histVars
<1>1. CASE Reindex(m)
  <2>1. TypeOK'
    BY <1>0, <1>1, CrawlAssumption DEF Reindex, Upset, TypeOK
  <2>. QED
    BY <1>1, <2>1, OthersKeep DEF Reindex
<1>2. CASE ReindexSettles(m)
  <2>1. upsets' \in 0..MaxUpsets
    BY <1>0, <1>2, CrawlAssumption DEF ReindexSettles, Upset, TypeOK
  <2>2. chunked' \subseteq emails' /\ missed' \subseteq Mail
    BY <1>0, <1>2 DEF ReindexSettles, TypeOK
  <2>3. TypeOK'
    BY <1>0, <1>2, <2>1, <2>2 DEF ReindexSettles, TypeOK
  <2>. QED
    BY <1>2, <2>3, OthersKeep DEF ReindexSettles
<1>. QED
  BY <1>1, <1>2

\* The invariant holds initially and is kept by every step.
LEMMA IndexInvInit == Init => IndexInv
<1>. SUFFICES ASSUME Init
              PROVE  IndexInv
  OBVIOUS
<1>1. TypeOK
  <2>1. /\ arrived \in [Folders -> 0..MaxUid]
        /\ cursor \in [Folders -> 0..MaxUid]
        /\ upsets \in 0..MaxUpsets
        /\ failures \in 0..(Limit + 1)
    BY CrawlAssumption DEF Init
  <2>2. crawl \in [Crawls -> CrawlState]
    BY DEF Init, CrawlState
  <2>. QED
    BY <2>1, <2>2 DEF Init, TypeOK
<1>2. NothingSkipped
  <2>1. ASSUME NEW f \in Folders, NEW u \in Uids
        PROVE  cursor[f] = 0 /\ ~(u <= 0)
    BY <2>1, CrawlAssumption DEF Init, Uids
  <2>. QED
    BY <2>1 DEF NothingSkipped, Covered
<1>3. ASSUME NEW k \in Crawls
      PROVE  ReadsInOrder(k)
  BY DEF Init, ReadsInOrder, Reading, Idle
<1>. QED
  BY <1>1, <1>2, <1>3 DEF IndexInv

LEMMA IndexInvStep == IndexInv /\ [Next]_vars => IndexInv'
<1>. SUFFICES ASSUME IndexInv, [Next]_vars
              PROVE  IndexInv'
  OBVIOUS
<1>. USE DEF indexVars, flagVars, histVars
<1>0. TypeOK
  BY DEF IndexInv
<1>1. CASE Poll \/ StartCrawl
  <2>1. PICK k \in Crawls : Begin(k, FALSE, FALSE, Folders)
    BY <1>1 DEF Poll, StartCrawl
  <2>2. upsets' \in 0..MaxUpsets /\ startup' \in StartTypes
    BY <1>0, <1>1 DEF Poll, StartCrawl, TypeOK, StartTypes
  <2>. QED
    BY <2>1, <2>2, BeginKeeps
<1>13. CASE StartUp
  <2>1. upsets' \in 0..MaxUpsets
    BY <1>0, <1>13 DEF StartUp, TypeOK
  <2>2. CASE \E k \in Crawls : Begin(k, FALSE, FALSE, Folders) /\ startup' = k
    BY <2>1, <2>2, BeginKeeps DEF StartTypes
  <2>3. CASE startup' = Timer /\ UNCHANGED <<arrived, indexVars, active, abort, stopped, failures, crawl, reindexing, histVars>>
    <3>1. TypeOK'
      BY <1>0, <2>1, <2>3, TimerType DEF TypeOK, StartTypes
    <3>. QED
      BY <2>3, <3>1, OthersKeep
  <2>. QED
    BY <1>13, <2>2, <2>3 DEF StartUp
<1>2. CASE Requested
  <2>1. upsets' \in 0..MaxUpsets
    BY <1>0, <1>2, CrawlAssumption DEF Requested, Upset, TypeOK
  <2>2. PICK k \in Crawls, full \in BOOLEAN, since \in BOOLEAN,
             todo \in {Folders} \cup {{f} : f \in Folders} : Begin(k, full, since, todo)
    BY <1>2 DEF Requested
  <2>3. startup' \in StartTypes
    BY <1>0, <1>2 DEF Requested, TypeOK, StartTypes
  <2>. QED
    BY <2>1, <2>2, <2>3, BeginKeeps
<1>3. CASE \E k \in Crawls : Step(k)
  BY <1>3, CrawlSteps
<1>4. CASE StopCrawl
  <2>1. TypeOK'
    <3>1. active' \in BOOLEAN /\ abort' \in BOOLEAN
      BY <1>4 DEF StopCrawl
    <3>2. upsets' \in 0..MaxUpsets
      BY <1>0, <1>4, CrawlAssumption DEF StopCrawl, Upset, TypeOK
    <3>. QED
      BY <1>0, <1>4, <3>1, <3>2 DEF StopCrawl, TypeOK
  <2>. QED
    BY <1>4, <2>1, OthersKeep DEF StopCrawl
<1>5. CASE ClearIndex
  BY <1>5, ClearKeeps
<1>6. CASE \E m \in Mail : Reindex(m) \/ ReindexSettles(m)
  BY <1>6, ReindexKeeps
<1>7. CASE ClientError
  <2>1. /\ active' \in BOOLEAN /\ abort' \in BOOLEAN /\ stopped' \in BOOLEAN
        /\ failures' \in 0..(Limit + 1) /\ startup' = startup
    BY <1>0, <1>7, FailureTypes DEF ClientError
  <2>2. TypeOK'
    BY <1>0, <1>7, <2>1, CrawlAssumption DEF ClientError, Upset, TypeOK
  <2>. QED
    BY <1>7, <2>2, OthersKeep DEF ClientError
<1>8. CASE WindowPasses
  <2>1. failures' \in 0..(Limit + 1)
    BY <1>0, <1>8, CrawlAssumption DEF WindowPasses, TypeOK
  <2>2. TypeOK'
    BY <1>0, <1>8, <2>1 DEF WindowPasses, TypeOK
  <2>. QED
    BY <1>8, <2>2, OthersKeep DEF WindowPasses
<1>9. CASE Restart
  BY <1>9, RestartKeeps
<1>10. CASE \E f \in Folders : MailArrives(f)
  <2>1. PICK f \in Folders : MailArrives(f)
    BY <1>10
  <2>2. arrived' \in [Folders -> 0..MaxUid]
    BY <1>0, <2>1, CrawlAssumption DEF MailArrives, TypeOK
  <2>3. TypeOK'
    BY <1>0, <2>1, <2>2 DEF MailArrives, TypeOK
  <2>. QED
    BY <2>1, <2>3, OthersKeep DEF MailArrives
<1>11. CASE InvalidSince
  <2>1. upsets' \in 0..MaxUpsets
    BY <1>0, <1>11, CrawlAssumption DEF InvalidSince, Upset, TypeOK
  <2>2. TypeOK'
    BY <1>0, <1>11, <2>1 DEF InvalidSince, TypeOK
  <2>. QED
    BY <1>11, <2>2, OthersKeep DEF InvalidSince
<1>12. CASE UNCHANGED vars
  <2>1. TypeOK'
    BY <1>0, <1>12 DEF vars, TypeOK
  <2>. QED
    BY <1>12, <2>1, OthersKeep DEF vars
<1>. QED
  BY <1>1, <1>2, <1>3, <1>4, <1>5, <1>6, <1>7, <1>8, <1>9, <1>10, <1>11, <1>12, <1>13 DEF Next

\* However crawls overlap, fail, stop and are cleared under, every variable
\* keeps its type and no checkpoint passes a mail without a row, but for mails
\* left out by `since` and those a crawl had passed when the index was cleared.
THEOREM CheckpointCorrect == Spec => [](TypeOK /\ NothingSkipped)
<1>1. IndexInv => TypeOK /\ NothingSkipped
  BY DEF IndexInv
<1>. QED
  BY IndexInvInit, IndexInvStep, <1>1, PTL DEF Spec

-----------------------------------------------------------------------------
(* Who owns a row without chunks.                                          *)

Embedding(k, m) == crawl[k].pc = "embedding" /\ Current(k) = m

\* While no row loses its chunks or is new without them, it is enough that who
\* owned a row goes on to.
LEMMA OwnersStay ==
  ASSUME BareIsOwned,
         emails' \ chunked' \subseteq emails \ chunked,
         \A m \in emails' \ chunked' : m \in missed => m \in missed',
         \A m \in emails' \ chunked', k \in Crawls :
           Embedding(k, m) => m \in missed' \/ \E j \in Crawls : Embedding(j, m)'
  PROVE  BareIsOwned'
<1>. SUFFICES ASSUME NEW m \in emails' \ chunked'
              PROVE  m \in missed' \/ \E k \in Crawls : Embedding(k, m)'
  BY DEF BareIsOwned, Embedding
<1>1. m \in missed \/ \E k \in Crawls : Embedding(k, m)
  BY DEF BareIsOwned, Embedding
<1>. QED
  BY <1>1

\* A crawl that embeds nothing may go on, and owns nothing for it.
LEMMA OthersOwn ==
  ASSUME BareIsOwned, NEW k \in Crawls, crawl[k].pc # "embedding",
         \A j \in Crawls : j # k => crawl'[j] = crawl[j],
         emails' = emails, chunked' = chunked, missed' = missed
  PROVE  BareIsOwned'
<1>1. ASSUME NEW m, NEW j \in Crawls, Embedding(j, m)
      PROVE  Embedding(j, m)'
  BY <1>1 DEF Embedding, Current
<1>. QED
  BY <1>1, OwnersStay

\* What the end of a folder, or of one message, leaves of the other crawls.
LEMMA NextFolderOthers ==
  ASSUME NEW k \in Crawls, NEW c, NextFolder(k, c), crawl \in [Crawls -> CrawlState]
  PROVE  \A j \in Crawls : j # k => crawl'[j] = crawl[j]
  BY DEF NextFolder

LEMMA AdvanceOthers ==
  ASSUME NEW k \in Crawls, Advance(k), crawl \in [Crawls -> CrawlState]
  PROVE  \A j \in Crawls : j # k => crawl'[j] = crawl[j]
<1>1. CASE abort \/ crawl[k].count + 1 >= BatchSize
  <2>1. NextFolder(k, crawl[k])
    BY <1>1 DEF Advance, FolderDone
  <2>. QED
    BY <2>1, NextFolderOthers
<1>2. CASE ~(abort \/ crawl[k].count + 1 >= BatchSize)
  BY <1>2 DEF Advance
<1>. QED
  BY <1>1, <1>2

\* A row that a crawl puts is embedded by it; when the embedding ends, the row
\* has its chunks, is gone, or is known to have missed them.
LEMMA StepOwns ==
  ASSUME TypeOK, BareIsOwned, NEW k \in Crawls, Step(k)
  PROVE  BareIsOwned'
<1>. USE DEF indexVars, flagVars, histVars
<1>0. crawl \in [Crawls -> CrawlState]
  BY DEF TypeOK
<1>1. CASE Connected(k)
  BY <1>0, <1>1, NextFolderOthers, OthersOwn DEF Connected
<1>2. CASE ConnectFails(k)
  BY <1>0, <1>2, OthersOwn DEF ConnectFails
<1>3. CASE Opened(k)
  BY <1>0, <1>3, OthersOwn DEF Opened
<1>4. CASE StatusReturns(k)
  <2>1. \A j \in Crawls : j # k => crawl'[j] = crawl[j]
    <3>1. CASE arrived[crawl[k].at] < crawl[k].next
      <4>1. NextFolder(k, crawl[k])
        BY <1>4, <3>1 DEF StatusReturns, FolderDone
      <4>. QED
        BY <1>0, <4>1, NextFolderOthers
    <3>2. CASE ~(arrived[crawl[k].at] < crawl[k].next)
      BY <1>0, <1>4, <3>2 DEF StatusReturns
    <3>. QED
      BY <3>1, <3>2
  <2>. QED
    BY <1>4, <2>1, OthersOwn DEF StatusReturns
<1>5. CASE StatusFails(k)
  BY <1>0, <1>5, OthersOwn DEF StatusFails
<1>6. CASE SkipOld(k)
  BY <1>0, <1>6, OthersOwn DEF SkipOld
<1>7. CASE Upsert(k)
  <2>1. CASE Changed(k)
    <3>1. /\ crawl' = [crawl EXCEPT ![k].pc = "embedding"]
          /\ emails' = emails \cup {Current(k)}
          /\ chunked' = chunked /\ missed' = missed
      BY <1>7, <2>1 DEF Upsert
    <3>2. crawl[k] \in Inside
      BY <1>7, StateSplit DEF Upsert
    <3>3. crawl'[k] = [crawl[k] EXCEPT !.pc = "embedding"]
      BY <1>0, <3>1
    <3>4. crawl'[k].pc = "embedding" /\ crawl'[k].at = crawl[k].at /\ crawl'[k].next = crawl[k].next
      BY <3>2, <3>3 DEF Inside
    <3>5. Embedding(k, Current(k))'
      BY <3>4 DEF Embedding, Current
    <3>6. ASSUME NEW m, NEW j \in Crawls, Embedding(j, m)
          PROVE  Embedding(j, m)'
      <4>1. j # k
        BY <1>7, <3>6 DEF Upsert, Embedding
      <4>. QED
        BY <1>0, <3>1, <3>6, <4>1 DEF Embedding, Current
    <3>7. ASSUME NEW m \in emails' \ chunked'
          PROVE  m \in missed' \/ \E j \in Crawls : Embedding(j, m)'
      <4>1. CASE m \in emails
        BY <3>1, <3>6, <4>1 DEF BareIsOwned, Embedding
      <4>2. CASE m \notin emails
        <5>1. m = Current(k) /\ Current(k)' = Current(k)
          BY <3>1, <3>4, <4>2 DEF Current
        <5>. QED
          BY <3>5, <5>1 DEF Embedding
      <4>. QED
        BY <4>1, <4>2
    <3>. QED
      BY <3>7 DEF BareIsOwned, Embedding
  <2>2. CASE ~Changed(k)
    <3>1. Advance(k) /\ emails' = emails
      BY <1>7, <2>2 DEF Upsert, Changed
    <3>. QED
      BY <1>0, <1>7, <3>1, AdvanceOthers, OthersOwn DEF Upsert
  <2>. QED
    BY <2>1, <2>2
<1>8. CASE Embedded(k) \/ EmbedFails(k)
  <2>1. \A j \in Crawls : j # k => crawl'[j] = crawl[j]
    <3>1. Advance(k) \/ NextFolder(k, crawl[k])
      BY <1>8 DEF Embedded, EmbedFails, FolderFails
    <3>. QED
      BY <1>0, <3>1, NextFolderOthers, AdvanceOthers
  <2>2. /\ emails' = emails
        /\ chunked \subseteq chunked'
        /\ Current(k) \notin emails' \ chunked' \/ Current(k) \in missed'
        /\ missed \ {Current(k)} \subseteq missed'
    BY <1>8 DEF Embedded, EmbedFails
  <2>3. ASSUME NEW m \in emails' \ chunked', NEW j \in Crawls, Embedding(j, m)
        PROVE  m \in missed' \/ Embedding(j, m)'
    <3>1. CASE j = k
      BY <2>2, <2>3, <3>1 DEF Embedding
    <3>2. CASE j # k
      BY <2>1, <2>3, <3>2 DEF Embedding, Current
    <3>. QED
      BY <3>1, <3>2
  <2>. QED
    BY <2>2, <2>3, OwnersStay
<1>9. CASE FetchFails(k)
  <2>1. NextFolder(k, crawl[k])
    BY <1>9 DEF FetchFails, FolderFails
  <2>. QED
    BY <1>0, <1>9, <2>1, NextFolderOthers, OthersOwn DEF FetchFails
<1>10. CASE FetchEnds(k)
  <2>1. NextFolder(k, crawl[k])
    BY <1>10 DEF FetchEnds, FolderDone
  <2>. QED
    BY <1>0, <1>10, <2>1, NextFolderOthers, OthersOwn DEF FetchEnds
<1>11. CASE LoggedOut(k)
  BY <1>0, <1>11, OthersOwn DEF LoggedOut
<1>. QED
  BY <1>1, <1>2, <1>3, <1>4, <1>5, <1>6, <1>7, <1>8, <1>9, <1>10, <1>11 DEF Step

\* While neither the crawls nor the index change, nor what was missed.
LEMMA IndexStands ==
  ASSUME BareIsOwned, crawl' = crawl, emails' = emails, chunked' = chunked, missed' = missed
  PROVE  BareIsOwned'
  BY DEF BareIsOwned, Current

LEMMA BareIsOwnedStep == TypeOK /\ BareIsOwned /\ [Next]_vars => BareIsOwned'
<1>. SUFFICES ASSUME TypeOK, BareIsOwned, [Next]_vars
              PROVE  BareIsOwned'
  OBVIOUS
<1>. USE DEF indexVars, flagVars, histVars
<1>0. crawl \in [Crawls -> CrawlState]
  BY DEF TypeOK
<1>1. ASSUME NEW k \in Crawls, NEW full, NEW since, NEW todo, Begin(k, full, since, todo)
      PROVE  BareIsOwned'
  BY <1>0, <1>1, OthersOwn DEF Begin
<1>2. CASE Poll \/ StartCrawl \/ Requested
  BY <1>1, <1>2 DEF Poll, StartCrawl, Requested
<1>10. CASE StartUp
  BY <1>1, <1>10, IndexStands DEF StartUp
<1>3. CASE \E k \in Crawls : Step(k)
  BY <1>3, StepOwns
<1>4. CASE ClearIndex
  BY <1>4 DEF ClearIndex, BareIsOwned
<1>5. CASE \E m \in Mail : Reindex(m)
  BY <1>5, IndexStands DEF Reindex
<1>6. ASSUME NEW m \in Mail, ReindexSettles(m)
      PROVE  BareIsOwned'
  <2>1. ASSUME NEW n, NEW k \in Crawls, Embedding(k, n)
        PROVE  Embedding(k, n)'
    BY <1>6, <2>1 DEF ReindexSettles, Embedding, Current
  <2>2. /\ emails' = emails
        /\ chunked \subseteq chunked'
        /\ missed \ {m} \subseteq missed'
        /\ m \in emails' \ chunked' => missed' = missed
    BY <1>6 DEF ReindexSettles
  <2>. QED
    BY <2>1, <2>2, OwnersStay
<1>7. CASE Restart
  <2>1. emails' = emails /\ chunked' = chunked /\ emails \ chunked \subseteq missed'
    BY <1>7 DEF Restart
  <2>. QED
    BY <2>1 DEF BareIsOwned
<1>8. CASE StopCrawl \/ ClientError \/ WindowPasses \/ InvalidSince \/ UNCHANGED vars
  BY <1>8, IndexStands DEF StopCrawl, ClientError, WindowPasses, InvalidSince, vars
<1>9. CASE \E f \in Folders : MailArrives(f)
  BY <1>9, IndexStands DEF MailArrives
<1>. QED
  BY <1>2, <1>3, <1>4, <1>5, <1>6, <1>7, <1>8, <1>9, <1>10 DEF Next

\* However crawls overlap, fail, stop and are cleared under, and mails are
\* reindexed meanwhile: every checkpoint is covered, and a row without chunks is
\* being embedded, or its embedding failed or died with the process.
THEOREM CrawlIsCorrect == Spec => []CrawlCorrect
<1>1. Init => CrawlCorrect
  <2>1. Init => BareIsOwned
    BY DEF Init, BareIsOwned
  <2>. QED
    BY <2>1, IndexInvInit DEF CrawlCorrect
<1>2. CrawlCorrect /\ [Next]_vars => CrawlCorrect'
  <2>1. IndexInv => TypeOK
    BY DEF IndexInv
  <2>. QED
    BY <2>1, IndexInvStep, BareIsOwnedStep DEF CrawlCorrect
<1>. QED
  BY <1>1, <1>2, PTL DEF Spec

-----------------------------------------------------------------------------
(* The chunks of a text                                                    *)

\* A bounded set of numbers that is not empty has a smallest and a largest element.
LEMMA SmallestExists ==
  ASSUME NEW S \in SUBSET Nat, S # {}
  PROVE  \E i \in S : \A j \in S : i <= j
<1>1. OpToRel(<, Nat) = {ss \in Nat \X Nat : ss[1] < ss[2]}
  BY Zenon DEF OpToRel
<1>2. IsWellFoundedOn({ss \in Nat \X Nat : ss[1] < ss[2]}, Nat)
  BY <1>1, NatLessThanWellFounded, Zenon
<1>3. PICK i \in S : \A j \in S : ~ (<<j, i>> \in {ss \in Nat \X Nat : ss[1] < ss[2]})
  BY <1>2, WFMin
<1>4. ASSUME NEW j \in S PROVE i <= j
  <2>1. i \in Nat /\ j \in Nat /\ <<j, i>> \in Nat \X Nat
    OBVIOUS
  <2>2. ~ (<<j, i>>[1] < <<j, i>>[2])
    BY <1>3, <2>1
  <2>. QED
    BY <2>1, <2>2
<1>. QED
  BY <1>4

LEMMA LargestExists ==
  ASSUME NEW n \in Nat, NEW S \in SUBSET (0..n), S # {}
  PROVE  \E i \in S : \A j \in S : j <= i
<1>. DEFINE T == {n - i : i \in S}
<1>1. T \in SUBSET Nat /\ T # {}
  <2>1. \A i \in S : n - i \in Nat
    OBVIOUS
  <2>. QED
    BY <2>1
<1>2. PICK m \in T : \A k \in T : m <= k
  <2>. HIDE DEF T
  <2>. QED
    BY <1>1, SmallestExists
<1>3. PICK i \in S : m = n - i
  OBVIOUS
<1>4. ASSUME NEW j \in S PROVE j <= i
  <2>1. n - j \in T
    OBVIOUS
  <2>2. n - i <= n - j
    BY <1>2, <1>3, <2>1
  <2>. QED
    BY <2>2
<1>. QED
  BY <1>4

\* The inductive invariant: where the loop stands, and that no chunk reaches further
\* past the next one's beginning than the overlap, or to the end.
ChunkTypes ==
  /\ \E n \in Nat \ {0} : DOMAIN content = 0..n-1
  /\ settings.size \in Nat \ {0} /\ settings.overlap \in Nat
  /\ start \in Nat /\ finished \in BOOLEAN
  /\ chunks \in Seq([from : Nat, to : Nat])
ChunkInv ==
  /\ ChunkTypes /\ ChunksCorrect
  /\ ~finished => /\ start < Size
                  /\ \A k \in DOMAIN chunks : chunks[k].to - start <= settings.overlap /\ chunks[k].to < Size

LEMMA SizeIs ==
  ASSUME ChunkTypes
  PROVE  Size \in Nat \ {0} /\ DOMAIN content = 0..Size-1
<1>1. PICK n \in Nat \ {0} : DOMAIN content = 0..n-1
  BY DEF ChunkTypes
<1>2. Cardinality(0..n-1) = n
  <2>1. Cardinality(0..n-1) = IF 0 > n-1 THEN 0 ELSE (n-1)-0+1
    BY FS_Interval
  <2>. QED
    BY <2>1
<1>. QED
  BY <1>1, <1>2 DEF Size

LEMMA LastBreakIs ==
  ASSUME NEW at \in SUBSET Nat, NEW end \in Nat
  PROVE  LastBreak(at, end) = -1 \/ LastBreak(at, end) \in 0..end
<1>. DEFINE upto == {i \in at : i <= end}
<1>1. CASE upto = {}
  BY <1>1 DEF LastBreak
<1>2. CASE upto # {}
  <2>1. upto \in SUBSET (0..end)
    <3>1. \A i \in upto : i \in 0..end
      OBVIOUS
    <3>. HIDE DEF upto
    <3>. QED
      BY <3>1
  <2>2. \E i \in upto : \A j \in upto : j <= i
    <3>. HIDE DEF upto
    <3>. QED
      BY <1>2, <2>1, LargestExists
  <2>3. (CHOOSE i \in upto : \A j \in upto : j <= i) \in upto
    <3>. HIDE DEF upto
    <3>. QED
      BY <2>2
  <2>. QED
    BY <1>2, <2>1, <2>3 DEF LastBreak
<1>. QED
  BY <1>1, <1>2

LEMMA BreaksAre ==
  ASSUME ChunkTypes
  PROVE  Len(Breaks) \in Nat /\ \A k \in 1..Len(Breaks) : Breaks[k] \in SUBSET Nat
<1>. DEFINE Places == SUBSET Nat
            lines == Positions({"n", "q"})
            double == {i \in lines : i + 1 \in lines}
            always == <<double, lines, Positions({" "})>>
            first == <<Positions({"q"}), Positions({"f"})>>
<1>1. ASSUME NEW kinds PROVE Positions(kinds) \in Places
  BY SizeIs DEF Positions
<1>2. lines \in Places /\ double \in Places
  BY <1>1
<1>3. always \in Seq(Places) /\ first \in Seq(Places)
  <2>1. ASSUME NEW S, NEW a \in S, NEW b \in S, NEW c \in S
        PROVE  <<a, b, c>> \in Seq(S) /\ <<a, b>> \in Seq(S)
    OBVIOUS
  <2>2. /\ Positions({"q"}) \in Places /\ Positions({"f"}) \in Places
        /\ Positions({" "}) \in Places
    BY <1>1
  <2>. HIDE DEF Places, lines, double
  <2>. QED
    BY <1>2, <2>1, <2>2, Zenon
<1>4. first \o always \in Seq(Places)
  <2>. HIDE DEF Places, always, first
  <2>. QED
    BY <1>3
<1>5. Breaks \in Seq(Places)
  <2>1. Breaks = first \o always \/ Breaks = always
    BY DEF Breaks
  <2>. HIDE DEF Places, always, first
  <2>. QED
    BY <1>3, <1>4, <2>1
<1>. QED
  <2>. HIDE DEF Places
  <2>1. Len(Breaks) \in Nat /\ \A k \in 1..Len(Breaks) : Breaks[k] \in Places
    BY <1>5
  <2>. QED
    BY <2>1 DEF Places

\* A chunk ends in the second half of what it may hold, or with the text.
LEMMA EndIs ==
  ASSUME ChunkTypes, start < Size
  PROVE  /\ End(start) \in Nat
         /\ start < End(start) /\ End(start) <= start + settings.size /\ End(start) <= Size
         /\ End(start) < Size => End(start) > start + settings.size \div 2
<1>. DEFINE end == start + settings.size
            good == {k \in 1..Len(Breaks) : LastBreak(Breaks[k], end) > start + settings.size \div 2}
<1>1. /\ settings.size \in Nat \ {0} /\ start \in Nat /\ end \in Nat
      /\ Size \in Nat /\ DOMAIN content = 0..Size-1
  BY SizeIs DEF ChunkTypes
<1>2. settings.size \div 2 \in Nat /\ settings.size \div 2 < settings.size
  BY <1>1
<1>3. CASE end >= Size
  BY <1>1, <1>2, <1>3 DEF End
<1>4. CASE end < Size /\ good = {}
  BY <1>1, <1>2, <1>4 DEF End
<1>5. CASE end < Size /\ good # {}
  <2>. DEFINE best == CHOOSE k \in good : \A l \in good : k <= l
  <2>1. good \in SUBSET Nat
    BY BreaksAre
  <2>2. best \in good
    <3>1. \E k \in good : \A l \in good : k <= l
      <4>. HIDE DEF good
      <4>. QED
        BY <1>5, <2>1, SmallestExists
    <3>. HIDE DEF good
    <3>. QED
      BY <3>1
  <2>3. End(start) = LastBreak(Breaks[best], end)
    BY <1>1, <1>5 DEF End
  <2>4. Breaks[best] \in SUBSET Nat /\ LastBreak(Breaks[best], end) > start + settings.size \div 2
    BY <2>2, BreaksAre
  <2>. HIDE DEF best, good
  <2>5. LastBreak(Breaks[best], end) = -1 \/ LastBreak(Breaks[best], end) \in 0..end
    <3>. HIDE DEF end
    <3>. QED
      BY <1>1, <2>4, LastBreakIs
  <2>6. End(start) \in 0..end /\ End(start) > start + settings.size \div 2
    BY <1>1, <1>2, <2>3, <2>4, <2>5
  <2>. QED
    BY <1>1, <1>2, <1>5, <2>6
<1>. QED
  BY <1>1, <1>3, <1>4, <1>5

\* One turn of the loop.
LEMMA ChunkKeeps ==
  ASSUME ChunkInv, ChunkingNext
  PROVE  ChunkInv'
<1>. DEFINE e == End(start)
            new == [from |-> start, to |-> e]
            blank == \A i \in start..e-1 : content[i] \in Blank
<1>1. /\ ~finished /\ finished' = (e >= Size)
      /\ chunks' = IF blank THEN chunks ELSE Append(chunks, new)
      /\ start' = IF e >= Size THEN start ELSE NextStart(e)
      /\ content' = content /\ settings' = settings
  BY DEF ChunkingNext, Chunk
<1>2. /\ ChunkTypes /\ start < Size /\ start \in Nat
      /\ Size \in Nat \ {0} /\ settings.size \in Nat \ {0} /\ settings.overlap \in Nat
      /\ DOMAIN content = 0..Size-1 /\ Size' = Size
      /\ chunks \in Seq([from : Nat, to : Nat])
  BY <1>1, SizeIs DEF ChunkInv, ChunkTypes, Size
<1>3. /\ e \in Nat /\ start < e /\ e <= start + settings.size /\ e <= Size
      /\ e < Size => e > start + settings.size \div 2
  BY <1>2, EndIs
<1>. HIDE DEF e
<1>4. NextStart(e) \in Nat /\ start < NextStart(e) /\ NextStart(e) <= e /\ e - NextStart(e) <= settings.overlap
  BY <1>2, <1>3 DEF NextStart
<1>5. /\ chunks' \in Seq([from : Nat, to : Nat])
      /\ \A k \in DOMAIN chunks : k \in DOMAIN chunks' /\ chunks'[k] = chunks[k]
      /\ \A k \in DOMAIN chunks' : k \in DOMAIN chunks \/ (~blank /\ k = Len(chunks) + 1 /\ chunks'[k] = new)
      /\ ~blank => Len(chunks) + 1 \in DOMAIN chunks' /\ chunks'[Len(chunks) + 1] = new
      /\ DOMAIN chunks = 1..Len(chunks) /\ Len(chunks) \in Nat
  <2>1. new \in [from : Nat, to : Nat]
    BY <1>2, <1>3
  <2>. HIDE DEF new, blank
  <2>. DEFINE R == [from : Nat, to : Nat]
  <2>2. chunks \in Seq(R) /\ new \in R
    BY <1>2, <2>1
  <2>. HIDE DEF R
  <2>3. CASE blank
    <3>1. chunks' = chunks
      BY <1>1, <2>3
    <3>. QED
      BY <2>2, <2>3, <3>1 DEF R
  <2>4. CASE ~blank
    <3>1. chunks' = Append(chunks, new)
      BY <1>1, <2>4
    <3>2. /\ chunks' \in Seq(R) /\ DOMAIN chunks = 1..Len(chunks) /\ Len(chunks) \in Nat
          /\ DOMAIN chunks' = 1..Len(chunks) + 1 /\ chunks'[Len(chunks) + 1] = new
          /\ \A k \in DOMAIN chunks : chunks'[k] = chunks[k]
      BY <2>2, <3>1
    <3>. QED
      BY <2>4, <3>2 DEF R
  <2>. QED
    BY <2>3, <2>4
<1>6. /\ start' \in Nat /\ finished' \in BOOLEAN /\ start <= start'
      /\ ~finished' => e < Size /\ start' = NextStart(e) /\ start' < Size
  <2>. DEFINE next == NextStart(e)
  <2>1. next \in Nat /\ start < next /\ next <= e
    BY <1>4
  <2>2. start' = IF e >= Size THEN start ELSE next
    BY <1>1
  <2>. HIDE DEF next
  <2>3. CASE e >= Size
    <3>1. finished' = TRUE /\ start' = start
      BY <1>1, <2>2, <2>3
    <3>. QED
      BY <1>2, <3>1
  <2>4. CASE e < Size
    <3>1. ~(e >= Size)
      BY <1>2, <1>3, <2>4
    <3>2. start' = next
      BY <2>2, <3>1
    <3>. QED
      BY <1>1, <1>2, <1>3, <2>1, <2>4, <3>2 DEF next
  <2>. QED
    BY <1>2, <1>3, <2>3, <2>4
<1>7. ChunkTypes'
  BY <1>1, <1>2, <1>5, <1>6 DEF ChunkTypes
<1>8. ASSUME NEW k \in DOMAIN chunks
      PROVE  /\ chunks[k].to \in Nat /\ chunks[k].from \in Nat
             /\ chunks[k].to - start <= settings.overlap /\ chunks[k].to < Size
  <2>. DEFINE R == [from : Nat, to : Nat]
  <2>1. chunks[k] \in R
    <3>1. chunks \in Seq(R)
      BY <1>2
    <3>. HIDE DEF R
    <3>. QED
      BY <3>1
  <2>2. chunks[k].to - start <= settings.overlap /\ chunks[k].to < Size
    BY <1>1 DEF ChunkInv
  <2>. QED
    BY <2>1, <2>2
<1>9. ~finished' => /\ start' < Size'
                    /\ \A k \in DOMAIN chunks' : chunks'[k].to - start' <= settings'.overlap /\ chunks'[k].to < Size'
  <2>1. SUFFICES ASSUME ~finished', NEW k \in DOMAIN chunks'
                 PROVE  chunks'[k].to - start' <= settings.overlap /\ chunks'[k].to < Size
    BY <1>1, <1>2, <1>6
  <2>2. CASE k \in DOMAIN chunks
    <3>1. chunks'[k] = chunks[k]
      BY <1>5, <2>2
    <3>2. chunks[k].to \in Nat /\ chunks[k].to - start <= settings.overlap /\ chunks[k].to < Size
      BY <1>8, <2>2
    <3>3. start' \in Nat /\ start \in Nat /\ start <= start' /\ settings.overlap \in Nat
      BY <1>2, <1>6
    <3>4. chunks[k].to - start' <= settings.overlap
      BY <3>2, <3>3
    <3>. QED
      BY <3>1, <3>2, <3>4
  <2>3. CASE chunks'[k] = new
    BY <1>2, <1>3, <1>4, <1>6, <2>1, <2>3
  <2>. QED
    BY <1>5, <2>2, <2>3
<1>10. NothingIsLost'
  <2>. DEFINE n == IF finished' THEN Size ELSE start'
  <2>1. n <= e /\ n \in Nat
    BY <1>1, <1>2, <1>3, <1>4, <1>6
  <2>2. ASSUME NEW i \in 0..n-1, content[i] \notin Blank
        PROVE  \E k \in DOMAIN chunks' : chunks'[k].from <= i /\ i < chunks'[k].to
    <3>1. CASE i < start
      <4>1. i \in 0..start-1
        BY <1>2, <2>1, <3>1
      <4>2. PICK k \in DOMAIN chunks : chunks[k].from <= i /\ i < chunks[k].to
        BY <1>1, <2>2, <4>1 DEF ChunkInv, ChunksCorrect, NothingIsLost, Covers
      <4>. QED
        BY <1>5, <4>2
    <3>2. CASE i >= start
      <4>1. i \in start..e-1
        BY <1>2, <1>3, <2>1, <3>2
      <4>2. ~blank
        BY <2>2, <4>1
      <4>3. Len(chunks) + 1 \in DOMAIN chunks' /\ chunks'[Len(chunks) + 1] = new
        BY <1>5, <4>2
      <4>4. new.from <= i /\ i < new.to
        BY <1>2, <1>3, <4>1
      <4>. QED
        BY <4>3, <4>4
    <3>. QED
      BY <1>2, <2>1, <3>1, <3>2
  <2>3. \A i \in 0..n-1 : content[i] \notin Blank => \E k \in DOMAIN chunks' : chunks'[k].from <= i /\ i < chunks'[k].to
    BY <2>2
  <2>4. n = IF finished' THEN Size' ELSE start'
    BY <1>2
  <2>. HIDE DEF n
  <2>. QED
    BY <1>1, <2>3, <2>4 DEF NothingIsLost, Covers
<1>11. EachChunkAdds'
  <2>1. SUFFICES ASSUME settings.overlap <= settings.size \div 2, NEW k \in 2..Len(chunks')
                 PROVE  chunks'[k-1].to < chunks'[k].to
    BY <1>1 DEF EachChunkAdds
  <2>2. k \in DOMAIN chunks' /\ k - 1 \in DOMAIN chunks'
    BY <1>5, <2>1
  <2>3. CASE k \in DOMAIN chunks
    <3>1. k \in 2..Len(chunks) /\ k - 1 \in DOMAIN chunks
      BY <1>5, <2>1, <2>3, SMTT(30)
    <3>2. chunks[k-1].to < chunks[k].to
      BY <2>1, <3>1 DEF ChunkInv, ChunksCorrect, EachChunkAdds
    <3>. QED
      BY <1>5, <2>3, <3>1, <3>2
  <2>4. CASE k = Len(chunks) + 1 /\ chunks'[k] = new
    <3>1. k - 1 \in DOMAIN chunks
      BY <1>5, <2>1, <2>4
    <3>2. chunks[k-1].to - start <= settings.overlap /\ chunks[k-1].to < Size /\ chunks[k-1].to \in Nat
      BY <1>8, <3>1
    <3>3. settings.size \div 2 \in Nat
      BY <1>2
    <3>. DEFINE half == settings.size \div 2
                last == chunks[k-1].to
    <3>4. /\ half \in Nat /\ settings.overlap <= half /\ settings.overlap \in Nat /\ start \in Nat
          /\ last - start <= settings.overlap /\ last < Size /\ last \in Nat /\ Size \in Nat
          /\ e \in Nat /\ e <= Size /\ (e < Size => e > start + half)
      BY <1>2, <1>3, <2>1, <3>2, <3>3
    <3>5. last < e
      <4>. HIDE DEF half, last
      <4>. QED
        BY <3>4
    <3>. QED
      BY <1>5, <2>4, <3>1, <3>5, SMTT(30)
  <2>. QED
    BY <1>5, <2>2, <2>3, <2>4
<1>12. ChunksAreInBounds'
  <2>1. SUFFICES ASSUME NEW k \in DOMAIN chunks'
                 PROVE  /\ chunks'[k].to - chunks'[k].from \in 1..settings.size
                        /\ k > 1 => chunks'[k-1].to - chunks'[k].from <= settings.overlap
    BY <1>1 DEF ChunksAreInBounds
  <2>2. CASE k \in DOMAIN chunks
    <3>1. /\ chunks[k].to - chunks[k].from \in 1..settings.size
          /\ k > 1 => chunks[k-1].to - chunks[k].from <= settings.overlap
      BY <2>2 DEF ChunkInv, ChunksCorrect, ChunksAreInBounds
    <3>2. k > 1 => k - 1 \in DOMAIN chunks
      BY <1>5, <2>2
    <3>. QED
      BY <1>5, <2>2, <3>1, <3>2
  <2>3. CASE k = Len(chunks) + 1 /\ chunks'[k] = new
    <3>1. e - start \in 1..settings.size
      BY <1>2, <1>3
    <3>2. k > 1 => k - 1 \in DOMAIN chunks
      BY <1>5, <2>3
    <3>3. k > 1 => chunks'[k-1].to - start <= settings.overlap
      BY <1>5, <1>8, <3>2
    <3>. QED
      BY <2>3, <3>1, <3>3
  <2>. QED
    BY <1>5, <2>2, <2>3
<1>. QED
  BY <1>7, <1>9, <1>10, <1>11, <1>12 DEF ChunkInv, ChunksCorrect

\* Of any text, cut for chunks of any size and overlap, every word is in a chunk, no
\* chunk is larger or overlaps further than the settings say, and with an overlap of at
\* most half a chunk each ends beyond the one before.
THEOREM ChunksAreCorrect == ChunkingSpec => []ChunksCorrect
<1>1. ChunkingInit => ChunkInv
  <2>1. SUFFICES ASSUME ChunkingInit PROVE ChunkInv
    OBVIOUS
  <2>2. PICK n \in 1..MaxLength : content \in TextsOf(n)
    BY <2>1 DEF ChunkingInit
  <2>3. n \in Nat \ {0} /\ DOMAIN content = 0..n-1
    BY <2>2, ChunkAssumption DEF TextsOf
  <2>4. /\ settings.size \in Nat \ {0} /\ settings.overlap \in Nat
        /\ start = 0 /\ chunks = <<>> /\ finished = FALSE
    BY <2>1, ChunkAssumption DEF ChunkingInit
  <2>5. ChunkTypes
    BY <2>3, <2>4, SMTT(30) DEF ChunkTypes
  <2>6. start < Size
    BY <2>4, <2>5, SizeIs
  <2>. QED
    BY <2>4, <2>5, <2>6 DEF ChunkInv, ChunksCorrect, NothingIsLost, Covers, EachChunkAdds, ChunksAreInBounds
<1>2. ChunkInv /\ [ChunkingNext]_chunkVars => ChunkInv'
  <2>1. ASSUME ChunkInv, UNCHANGED chunkVars PROVE ChunkInv'
    BY <2>1 DEF chunkVars, ChunkInv, ChunkTypes, ChunksCorrect, NothingIsLost, Covers, EachChunkAdds,
       ChunksAreInBounds, Size
  <2>. QED
    BY <2>1, ChunkKeeps
<1>3. ChunkInv => ChunksCorrect
  BY DEF ChunkInv
<1>. QED
  BY <1>1, <1>2, <1>3, PTL DEF ChunkingSpec

-----------------------------------------------------------------------------
(* The attachments of the mails                                            *)

Task == {NoTask} \cup [att : Attached, phase : {"extracting", "embedding", "over"}]

\* The slot that is freed and those that are free have nobody's task.
LEMMA FreeIsIdle ==
  ASSUME AttachmentsTypeOK, NEW i \in Slots, i \in Free \/ slot[i].phase = "over", NEW a \in Attached
  PROVE  ~(slot[i].att = a /\ slot[i].phase \in {"extracting", "embedding"})
BY AttachmentsAssumption DEF Free, NoTask

\* A slot takes a queued attachment, or none.
LEMMA StartedIs ==
  ASSUME NEW q \in Seq(Attached), NEW free \in SUBSET Slots
  PROVE  /\ \A i \in free : Started(q, free)[i] \in Attached \cup {"none"}
         /\ Cardinality({i \in free : Started(q, free)[i] # "none"}) \in Nat
<1>1. IsFiniteSet(Slots)
  BY AttachmentsAssumption, FS_Interval DEF Slots
<1>2. IsFiniteSet(free)
  BY <1>1, FS_Subset
<1>3. ASSUME NEW i \in free
      PROVE  Started(q, free)[i] \in Attached \cup {"none"}
  <2> DEFINE before == {j \in free : j <= i}
             n == Cardinality(before)
  <2>1. n \in Nat
    BY <1>2, FS_Subset, FS_CardinalityType
  <2>2. n # 0
    <3>1. i \in before
      BY <1>3, AttachmentsAssumption DEF Slots
    <3>2. IsFiniteSet(before)
      BY <1>2, FS_Subset
    <3>. QED
      BY <3>1, <3>2, FS_EmptySet
  <2>3. Started(q, free)[i] = IF n <= Len(q) THEN q[n] ELSE "none"
    BY DEF Started
  <2>. HIDE DEF n
  <2>. QED
    BY <2>1, <2>2, <2>3
<1>4. Cardinality({i \in free : Started(q, free)[i] # "none"}) \in Nat
  BY <1>2, FS_Subset, FS_CardinalityType
<1>. QED
  BY <1>3, <1>4

\* A drain keeps what holds: the slots it fills were nobody's, and what it calls
\* processing it gives to one of them.
LEMMA DrainKeeps ==
  ASSUME AttachmentsCorrect, NEW q \in Seq(Attached), NEW free \in SUBSET Slots, NEW busy \in BOOLEAN,
         \A i \in free : i \in Free \/ slot[i].phase = "over",
         Drain(q, free, busy), mails' = mails, embedding' \subseteq embedding,
         indexed' = indexed, lost' = lost
  PROVE  AttachmentsCorrect'
<1>1. AttachmentsTypeOK /\ AttachmentsHang /\ ProcessingIsOwned
  BY DEF AttachmentsCorrect
<1>2. \A i \in free, a \in Attached : ~(slot[i].att = a /\ slot[i].phase \in {"extracting", "embedding"})
  BY <1>1, FreeIsIdle
<1>3. CASE busy
  <2>1. /\ queue' = q /\ status' = status /\ markdown' = markdown
        /\ slot' = [i \in Slots |-> IF i \in free THEN NoTask ELSE slot[i]]
    BY <1>3 DEF Drain
  <2>2. AttachmentsTypeOK'
    BY <1>1, <2>1 DEF AttachmentsTypeOK
  <2>3. AttachmentsHang'
    BY <1>1, <2>1 DEF AttachmentsHang
  <2>4. ProcessingIsOwned'
    BY <1>1, <1>2, <2>1 DEF ProcessingIsOwned, Busy
  <2>. QED
    BY <2>2, <2>3, <2>4 DEF AttachmentsCorrect
<1>4. CASE ~busy
  <2> DEFINE taken == Started(q, free)
  <2>1. /\ slot' = [i \in Slots |-> IF i \in free THEN Begun(taken[i]) ELSE slot[i]]
        /\ queue' = SubSeq(q, 1 + Cardinality({i \in free : taken[i] # "none"}), Len(q))
        /\ status' = [a \in Attached |->
              IF a \in mails /\ \E i \in free : taken[i] = a
                THEN IF a \in Extractable THEN "processing" ELSE "skipped" ELSE status[a]]
        /\ markdown' = markdown \ {a \in Attached \ Extractable : \E i \in free : taken[i] = a}
    BY <1>4 DEF Drain
  <2>2. \A i \in free : taken[i] \in Attached \cup {"none"}
    BY StartedIs
  <2>3. queue' \in Seq(Attached)
    <3>1. Cardinality({i \in free : taken[i] # "none"}) \in Nat
      BY StartedIs
    <3>. HIDE DEF taken
    <3>. DEFINE n == Cardinality({i \in free : taken[i] # "none"})
    <3>2. n \in Nat /\ queue' = SubSeq(q, 1 + n, Len(q))
      BY <2>1, <3>1
    <3>. HIDE DEF n
    <3>. QED
      BY <3>2, SubSeqProperties
  <2>. HIDE DEF taken
  <2>4. \A i \in free : Begun(taken[i]) \in Task
    BY <2>2 DEF Begun, Task
  <2>5. slot' \in [Slots -> Task]
    BY <1>1, <2>1, <2>4 DEF AttachmentsTypeOK, Task
  <2>6. status' \in [Attached -> {"none", "processing", "skipped", "failed", "indexed"}]
    BY <1>1, <2>1 DEF AttachmentsTypeOK
  <2>7. AttachmentsTypeOK'
    BY <1>1, <2>3, <2>5, <2>6 DEF AttachmentsTypeOK, Task
  <2>8. AttachmentsHang'
    BY <1>1, <2>1 DEF AttachmentsHang
  <2>9. ASSUME NEW a \in Attached, status'[a] = "processing"
        PROVE  Busy(a)' \/ a \in lost'
    <3>1. CASE a \in mails /\ a \in Extractable /\ \E i \in free : taken[i] = a
      <4>1. PICK i \in free : taken[i] = a
        BY <3>1
      <4>2. slot'[i] = [att |-> a, phase |-> "extracting"]
        BY <2>1, <3>1, <4>1, AttachmentsAssumption DEF Begun
      <4>. QED
        BY <4>1, <4>2 DEF Busy
    <3>2. CASE status[a] = "processing"
      BY <1>1, <1>2, <2>1, <3>2 DEF ProcessingIsOwned, Busy
    <3>. QED
      BY <2>1, <2>9, <3>1, <3>2
  <2>. QED
    BY <2>7, <2>8, <2>9 DEF AttachmentsCorrect, ProcessingIsOwned
<1>. QED
  BY <1>3, <1>4

\* A task that settles its attachment keeps what holds.
LEMMA SettledKeeps ==
  ASSUME AttachmentsCorrect, NEW i \in Slots, slot[i] # NoTask, NEW s \in {"skipped", "failed", "indexed"},
         mails' = mails, embedding' = embedding, queue' = queue, lost' = lost,
         slot' = [slot EXCEPT ![i].phase = "over"],
         status' = [status EXCEPT ![slot[i].att] = IF @ = "none" THEN @ ELSE s],
         \A b \in indexed' \cup markdown' :
           b \in indexed \cup markdown \/ (b = slot[i].att /\ status[b] # "none"),
         \A b \in indexed : b \in indexed' \/ (b = slot[i].att /\ s # "indexed"),
         s = "indexed" /\ status[slot[i].att] # "none" => slot[i].att \in indexed'
  PROVE  AttachmentsCorrect'
<1>1. AttachmentsTypeOK /\ AttachmentsHang /\ ProcessingIsOwned
  BY DEF AttachmentsCorrect
<1>2. /\ slot[i] \in [att : Attached, phase : {"extracting", "embedding", "over"}]
      /\ slot[i].att \in Attached
  BY <1>1 DEF AttachmentsTypeOK
<1>3. /\ \A j \in Slots : j # i => slot'[j] = slot[j]
      /\ slot'[i] = [slot[i] EXCEPT !.phase = "over"]
      /\ slot' \in [Slots -> Task]
  BY <1>1, <1>2 DEF AttachmentsTypeOK, Task
<1>4. /\ \A a \in Attached : a # slot[i].att => status'[a] = status[a]
      /\ status'[slot[i].att] = IF status[slot[i].att] = "none" THEN "none" ELSE s
      /\ status' \in [Attached -> {"none", "processing", "skipped", "failed", "indexed"}]
  BY <1>1, <1>2 DEF AttachmentsTypeOK
<1>5. AttachmentsTypeOK'
  BY <1>1, <1>3, <1>4 DEF AttachmentsTypeOK, Task
<1>6. AttachmentsHang'
  BY <1>1, <1>2, <1>4 DEF AttachmentsHang
<1>7. ASSUME NEW a \in Attached, status'[a] = "processing"
      PROVE  Busy(a)' \/ a \in lost'
  <2>1. a # slot[i].att /\ status[a] = "processing"
    BY <1>4, <1>7
  <2>2. Busy(a) \/ a \in lost
    BY <1>1, <2>1 DEF ProcessingIsOwned
  <2>3. ASSUME NEW j \in Slots, slot[j].att = a /\ slot[j].phase \in {"extracting", "embedding"}
        PROVE  slot'[j].att = a /\ slot'[j].phase \in {"extracting", "embedding"}
    BY <1>3, <2>1, <2>3
  <2>. QED
    BY <2>2, <2>3 DEF Busy
<1>. QED
  BY <1>5, <1>6, <1>7 DEF AttachmentsCorrect, ProcessingIsOwned

LEMMA AttachmentsStep ==
  ASSUME AttachmentsCorrect, [AttachmentsNext]_attachmentVars
  PROVE  AttachmentsCorrect'
<1>0. /\ Free \subseteq Slots
      /\ AttachmentsTypeOK /\ AttachmentsHang /\ ProcessingIsOwned
  BY DEF Free, AttachmentsCorrect
<1>1. ASSUME NEW a \in Attached, Ingest(a) \/ MailFails(a)
      PROVE  AttachmentsCorrect'
  <2>1. /\ mails \subseteq mails' /\ mails' \subseteq Attached /\ embedding' \subseteq Attached
        /\ queue' = queue /\ slot' = slot /\ status' = status /\ indexed' = indexed
        /\ markdown' = markdown /\ lost' = lost
    BY <1>0, <1>1 DEF Ingest, MailFails, AttachmentsTypeOK
  <2>2. AttachmentsTypeOK'
    BY <1>0, <2>1 DEF AttachmentsTypeOK
  <2>3. AttachmentsHang' /\ ProcessingIsOwned'
    BY <1>0, <2>1 DEF AttachmentsHang, ProcessingIsOwned, Busy
  <2>. QED
    BY <2>2, <2>3 DEF AttachmentsCorrect
<1>2. ASSUME NEW a \in Attached, MailEmbedded(a)
      PROVE  AttachmentsCorrect'
  <2>1. Append(queue, a) \in Seq(Attached)
    BY <1>0 DEF AttachmentsTypeOK
  <2>2. /\ mails' = mails /\ embedding' \subseteq embedding /\ indexed' = indexed /\ lost' = lost
        /\ \E busy \in BOOLEAN : Drain(Append(queue, a), Free, busy)
    BY <1>2 DEF MailEmbedded
  <2>. QED
    BY <1>0, <2>1, <2>2, DrainKeeps
<1>3. ASSUME NEW i \in Slots, Extracted(i)
      PROVE  AttachmentsCorrect'
  <2>1. slot[i] # NoTask /\ slot[i] \in [att : Attached, phase : {"extracting", "embedding", "over"}]
    BY <1>0, <1>3 DEF Extracted, AttachmentsTypeOK, NoTask
  <2>2. mails' = mails /\ embedding' = embedding /\ queue' = queue /\ lost' = lost
    BY <1>3 DEF Extracted
  <2>3. CASE slot' = [slot EXCEPT ![i].phase = "embedding"] /\ UNCHANGED <<status, indexed, markdown>>
    <3>1. /\ \A j \in Slots : j # i => slot'[j] = slot[j]
          /\ slot'[i] = [slot[i] EXCEPT !.phase = "embedding"]
          /\ slot' \in [Slots -> Task]
      BY <1>0, <2>1, <2>3 DEF AttachmentsTypeOK, Task
    <3>2. AttachmentsTypeOK'
      BY <1>0, <2>2, <2>3, <3>1 DEF AttachmentsTypeOK, Task
    <3>3. AttachmentsHang'
      BY <1>0, <2>2, <2>3 DEF AttachmentsHang
    <3>4. ASSUME NEW a \in Attached, Busy(a)
          PROVE  Busy(a)'
      BY <2>1, <3>1, <3>4 DEF Busy
    <3>5. ProcessingIsOwned'
      BY <1>0, <2>2, <2>3, <3>4 DEF ProcessingIsOwned
    <3>. QED
      BY <3>2, <3>3, <3>5 DEF AttachmentsCorrect
  <2>4. CASE Over(i) /\ Mark(slot[i].att, "skipped")
             /\ indexed' = indexed \ {slot[i].att} /\ markdown' = markdown \ {slot[i].att}
    BY <2>1, <2>2, <2>4, SettledKeeps DEF Over, Mark
  <2>5. CASE Fail(i)
    BY <2>1, <2>2, <2>5, SettledKeeps DEF Fail, Over, Mark
  <2>. QED
    BY <1>3, <2>3, <2>4, <2>5 DEF Extracted
<1>4. ASSUME NEW i \in Slots, TextEmbedded(i)
      PROVE  AttachmentsCorrect'
  <2>1. slot[i] # NoTask
    BY <1>0, <1>4 DEF TextEmbedded, AttachmentsTypeOK, NoTask
  <2>2. mails' = mails /\ embedding' = embedding /\ queue' = queue /\ lost' = lost
    BY <1>4 DEF TextEmbedded
  <2>3. CASE Fail(i)
    BY <2>1, <2>2, <2>3, SettledKeeps DEF Fail, Over, Mark
  <2>4. CASE /\ status[slot[i].att] # "none"
             /\ Over(i) /\ Mark(slot[i].att, "indexed") /\ indexed' = indexed \cup {slot[i].att}
             /\ markdown' \in {markdown \cup {slot[i].att}, markdown \ {slot[i].att}}
    BY <2>1, <2>2, <2>4, SettledKeeps DEF Over, Mark
  <2>. QED
    BY <1>4, <2>3, <2>4 DEF TextEmbedded, Store
<1>5. ASSUME NEW i \in Slots, TaskEnds(i)
      PROVE  AttachmentsCorrect'
  <2>1. /\ mails' = mails /\ embedding' = embedding /\ indexed' = indexed /\ lost' = lost
        /\ slot[i].phase = "over" /\ Drain(queue, Free \cup {i}, embedding # {})
    BY <1>5 DEF TaskEnds
  <2>2. queue \in Seq(Attached) /\ (embedding # {}) \in BOOLEAN /\ Free \cup {i} \subseteq Slots
    BY <1>0 DEF AttachmentsTypeOK
  <2>. QED
    BY <2>1, <2>2, DrainKeeps
<1>6. CASE DrainAgain
  <2>1. /\ mails' = mails /\ embedding' = embedding /\ indexed' = indexed /\ lost' = lost
        /\ Drain(queue, Free, embedding # {})
    BY <1>6 DEF DrainAgain
  <2>2. queue \in Seq(Attached) /\ (embedding # {}) \in BOOLEAN
    BY <1>0 DEF AttachmentsTypeOK
  <2>. QED
    BY <1>0, <2>1, <2>2, DrainKeeps
<1>7. CASE ClearMails
  <2>1. AttachmentsTypeOK'
    BY <1>0, <1>7 DEF ClearMails, AttachmentsTypeOK
  <2>2. AttachmentsHang' /\ ProcessingIsOwned'
    BY <1>7 DEF ClearMails, AttachmentsHang, ProcessingIsOwned
  <2>. QED
    BY <2>1, <2>2 DEF AttachmentsCorrect
<1>8. CASE AttachmentCrash
  <2>1. /\ embedding' = {} /\ queue' = <<>> /\ slot' = [i \in Slots |-> NoTask]
        /\ mails' = mails /\ status' = status /\ indexed' = indexed /\ markdown' = markdown
        /\ lost \subseteq lost' /\ \A a \in Attached : Busy(a) => a \in lost'
    BY <1>8 DEF AttachmentCrash, Busy
  <2>2. AttachmentsTypeOK'
    BY <1>0, <2>1 DEF AttachmentsTypeOK
  <2>3. AttachmentsHang' /\ ProcessingIsOwned'
    BY <1>0, <2>1 DEF AttachmentsHang, ProcessingIsOwned
  <2>. QED
    BY <2>2, <2>3 DEF AttachmentsCorrect
<1>9. CASE UNCHANGED attachmentVars
  <2>1. AttachmentsTypeOK' /\ AttachmentsHang' /\ ProcessingIsOwned'
    BY <1>0, <1>9 DEF attachmentVars, AttachmentsTypeOK, AttachmentsHang, ProcessingIsOwned, Busy
  <2>. QED
    BY <2>1 DEF AttachmentsCorrect
<1>. QED
  BY <1>1, <1>2, <1>3, <1>4, <1>5, <1>6, <1>7, <1>8, <1>9 DEF AttachmentsNext, TaskProceeds

\* A task that begins does so in a drain, and none is done while a mail is embedded.
LEMMA DrainWaits ==
  ASSUME AttachmentsCorrect, NEW q, NEW free \in SUBSET Slots, NEW busy \in BOOLEAN, Drain(q, free, busy),
         NEW i \in Slots, slot[i].phase # "extracting", slot'[i].phase = "extracting"
  PROVE  ~busy
<1>1. SUFFICES ASSUME busy PROVE FALSE
  OBVIOUS
<1>2. slot' = [j \in Slots |-> IF j \in free THEN NoTask ELSE slot[j]]
  BY <1>1 DEF Drain
<1>. QED
  BY <1>2 DEF NoTask

LEMMA MailsComeFirst ==
  ASSUME AttachmentsCorrect, AttachmentsNext,
         NEW i \in Slots, slot[i].phase # "extracting", slot'[i].phase = "extracting"
  PROVE  embedding' = {}
<1>1. Free \subseteq Slots /\ slot \in [Slots -> Task]
  BY DEF Free, AttachmentsCorrect, AttachmentsTypeOK, Task
<1>2. CASE \E a \in Attached : MailEmbedded(a)
  <2>1. PICK a \in Attached : Drain(Append(queue, a), Free, embedding' # {})
    BY <1>2 DEF MailEmbedded
  <2>. QED
    BY <1>1, <2>1, DrainWaits
<1>3. CASE DrainAgain
  <2>1. Drain(queue, Free, embedding # {}) /\ embedding' = embedding
    BY <1>3 DEF DrainAgain
  <2>. QED
    BY <1>1, <2>1, DrainWaits
<1>4. CASE \E j \in Slots : TaskEnds(j)
  <2>1. PICK j \in Slots : Drain(queue, Free \cup {j}, embedding # {}) /\ embedding' = embedding
    BY <1>4 DEF TaskEnds
  <2>2. Free \cup {j} \subseteq Slots
    BY <1>1
  <2>. QED
    BY <2>1, <2>2, DrainWaits
<1>5. CASE \E j \in Slots : Extracted(j) \/ TextEmbedded(j)
  <2>1. PICK j \in Slots : \E p \in {"embedding", "over"} : slot' = [slot EXCEPT ![j].phase = p]
    BY <1>5 DEF Extracted, TextEmbedded, Store, Fail, Over
  <2>. QED
    BY <1>1, <2>1
<1>6. CASE AttachmentCrash
  BY <1>6 DEF AttachmentCrash, NoTask
<1>7. CASE slot' = slot
  BY <1>7
<1>. QED
  BY <1>2, <1>3, <1>4, <1>5, <1>6, <1>7 DEF AttachmentsNext, TaskProceeds, Ingest, MailFails, ClearMails

\* Whatever tasks outlive a clear or are taken by a crash: chunks and Markdown belong to
\* an attachment with a row and it to a mail, one called indexed has its chunks, one
\* called processing has a task, and no task begins while a mail is being embedded.
THEOREM AttachmentsAreCorrect == AttachmentsSpec => []AttachmentsCorrect /\ MailsFirst
<1>1. AttachmentsInit => AttachmentsCorrect
  BY DEF AttachmentsInit, AttachmentsCorrect, AttachmentsTypeOK, AttachmentsHang,
     ProcessingIsOwned
<1>2. AttachmentsCorrect /\ [AttachmentsNext]_attachmentVars => AttachmentsCorrect'
  BY AttachmentsStep
<1>3. AttachmentsCorrect /\ [AttachmentsNext]_attachmentVars =>
        [\A i \in Slots : slot[i].phase # "extracting" /\ slot'[i].phase = "extracting"
           => embedding' = {}]_attachmentVars
  BY MailsComeFirst
<1>. QED
  BY <1>1, <1>2, <1>3, PTL DEF AttachmentsSpec, MailsFirst

-----------------------------------------------------------------------------
(* The reading calls of the index of mails.                                *)

\* A list is of what has been shown page by page: the beginning of one order.
ShownSoFar ==
  /\ reading.offset \in Nat
  /\ reading.total = Cardinality({Mailbox[a].file : a \in Attach})
  /\ \E all \in Pages : reading.shown = SubSeq(all, 1, Least(reading.offset, Len(all)))

Place == [folder : MailFolders \cup {Mailbox[m].folder : m \in Ids} \cup {"none"}, uid : Nat]
HomeOf(m) == [folder |-> Mailbox[m].folder, uid |-> Mailbox[m].uid]
Undisturbed ==
  /\ stored = Ids
  /\ touched = [a \in Attach |-> 1]
  /\ \A m \in Ids : server[m] = Nowhere \/ server[m] = HomeOf(m) \/ server[m].uid > Cardinality(Ids)

Fetching == [kind : {"fetch"}, mail : Ids, folder : MailFolders \cup {Mailbox[m].folder : m \in Ids},
             byId : BOOLEAN, rest : SUBSET (MailFolders \cup {Mailbox[m].folder : m \in Ids})]

ReadingIs ==
  \/ reading = Resting
  \/ reading.kind = "metadata"
  \/ reading \in [kind : {"search"}, query : Query, rows : SUBSET Rows]
  \/ reading.kind = "found" /\ AnswersAreThere /\ NothingBetterIsLeftOut
  \/ reading.kind = "list" /\ (~shifted => ShownSoFar)
  \/ reading \in Fetching /\ (~reading.byId => reading.folder = Mailbox[reading.mail].folder)
  \/ reading.kind = "source" /\ SourceIsTheMail
  \/ reading.kind = "failed"

SearchInv ==
  /\ stored \subseteq Ids /\ touched \in [Attach -> Nat] /\ server \in [Ids -> Place] /\ moves \in Nat
  /\ ~shifted => Undisturbed
  /\ ReadingIs

LEMMA MailsAre == IsFiniteSet(Ids) /\ Cardinality(Ids) \in Nat /\ Ids \subseteq 0..Cardinality(Ids) /\ Ids \subseteq Nat
<1>1. IsFiniteSet(Ids) /\ Ids = 1..Cardinality(Ids)
  BY MailSearchAssumption DEF Ids
<1>2. Cardinality(Ids) \in Nat
  BY <1>1, FS_CardinalityType
<1> QED BY <1>1, <1>2

\* A sequence of the elements of a set, each once, has all of them.
LEMMA OntoAll ==
  ASSUME NEW S, IsFiniteSet(S), NEW r \in SetToSeqs(S)
  PROVE  /\ Cardinality(S) \in Nat /\ r \in [1..Cardinality(S) -> S] /\ r \in Seq(S) /\ Len(r) = Cardinality(S)
         /\ \A x \in S : \E i \in 1..Len(r) : r[i] = x
         /\ \A i, j \in 1..Len(r) : i # j => r[i] # r[j]
<1> DEFINE n == Cardinality(S)
<1>1. n \in Nat
  BY FS_CardinalityType
<1>2. r \in [1..n -> S] /\ \A i, j \in 1..n : i # j => r[i] # r[j]
  BY DEF SetToSeqs
<1>3. r \in Injection(1..n, S)
  BY <1>2 DEF Injection, IsInjective
<1>4. IsFiniteSet(1..n) /\ Cardinality(1..n) = n
  BY <1>1, FS_Interval
<1>5. r \in Surjection(1..n, S)
  BY <1>3, <1>4, FS_Injection
<1>6. \A x \in S : \E i \in 1..n : r[i] = x
  BY <1>5 DEF Surjection
<1>7. r \in Seq(S) /\ Len(r) = n
  BY <1>1, <1>2
<1> QED BY <1>1, <1>2, <1>6, <1>7

LEMMA LaterIs ==
  ASSUME stored \subseteq Ids, touched \in [Attach -> Nat]
  PROVE  /\ IsFiniteSet(Latest) /\ Latest \subseteq Attach
         /\ \A a, b \in Attach : a # b => Later(a, b) \/ Later(b, a)
         /\ \A a, b \in Attach : ~(Later(a, b) /\ Later(b, a))
<1>1. Latest \subseteq Attach /\ Attach \subseteq Ids /\ Ids \subseteq Nat
  BY MailsAre DEF Latest, Attach
<1>2. IsFiniteSet(Latest)
  BY <1>1, MailsAre, FS_Subset
<1>3. \A a, b \in Attach : a \in Nat /\ b \in Nat /\ touched[a] \in Nat /\ touched[b] \in Nat
  BY <1>1
<1> QED BY <1>1, <1>2, <1>3 DEF Later

\* The pages of one list are of one order.
LEMMA OneOrder ==
  ASSUME stored \subseteq Ids, touched \in [Attach -> Nat], NEW r \in Pages, NEW s \in Pages
  PROVE  r = s
<1>1. /\ r \in SetToSeqs(Latest) /\ s \in SetToSeqs(Latest)
      /\ \A i, j \in 1..Len(r) : i < j => Later(r[i], r[j])
      /\ \A i, j \in 1..Len(s) : i < j => Later(s[i], s[j])
  BY DEF Pages
<1> DEFINE n == Cardinality(Latest)
           Differ == {i \in 1..n : r[i] # s[i]}
<1>2. /\ n \in Nat /\ r \in [1..n -> Latest] /\ Len(r) = n /\ s \in [1..n -> Latest] /\ Len(s) = n
      /\ \A x \in Latest : \E i \in 1..n : r[i] = x
      /\ \A x \in Latest : \E i \in 1..n : s[i] = x
      /\ \A i, j \in 1..n : i # j => r[i] # r[j]
      /\ \A i, j \in 1..n : i # j => s[i] # s[j]
  BY <1>1, LaterIs, OntoAll
<1> HIDE DEF n
<1>3. CASE Differ = {}
  <2>1. \A i \in 1..n : r[i] = s[i]
    BY <1>3
  <2> QED BY <1>2, <2>1
<1>4. CASE Differ # {}
  <2>1. PICK k \in Differ : \A j \in Differ : k <= j
    <3>1. Differ \in SUBSET Nat
      BY <1>2
    <3> HIDE DEF Differ
    <3> QED BY <1>4, <3>1, SmallestExists
  <2>2. k \in 1..n /\ r[k] # s[k] /\ \A i \in 1..n : i < k => r[i] = s[i]
    BY <1>2, <2>1
  <2>3. PICK j \in 1..n : s[j] = r[k]
    BY <1>2, <2>2
  <2>4. PICK i \in 1..n : r[i] = s[k]
    BY <1>2, <2>2
  <2>5. j > k
    <3>1. ~(j < k)
      BY <1>2, <2>2, <2>3
    <3> QED BY <1>2, <2>2, <2>3, <3>1
  <2>6. i > k
    <3>1. ~(i < k)
      BY <1>2, <2>2, <2>4
    <3> QED BY <1>2, <2>2, <2>4, <3>1
  <2>7. Later(s[k], s[j]) /\ Later(r[k], r[i])
    BY <1>1, <1>2, <2>2, <2>5, <2>6
  <2>8. r[k] \in Attach /\ s[k] \in Attach
    BY <1>2, <2>2, LaterIs
  <2> QED BY <2>3, <2>4, <2>7, <2>8, LaterIs
<1> QED BY <1>3, <1>4

\* Of each content there is one latest row, when none has been touched since.
LEMMA OneRowEach ==
  ASSUME Undisturbed
  PROVE  /\ {Mailbox[a].file : a \in Latest} = {Mailbox[a].file : a \in Attach}
         /\ Cardinality(Latest) = Cardinality({Mailbox[a].file : a \in Attach})
<1>1. stored = Ids /\ touched = [a \in Attach |-> 1] /\ Attach \subseteq Ids
  BY DEF Undisturbed, Attach
<1>2. Attach \subseteq Nat /\ Attach \subseteq 0..Cardinality(Ids) /\ Attach \cap stored = Attach
  BY <1>1, MailsAre
<1>3. \A a, b \in Attach : Later(a, b) <=> a > b
  BY <1>1, <1>2 DEF Later
<1>4. Latest = {a \in Attach : \A b \in Attach : Mailbox[b].file = Mailbox[a].file => ~(b > a)}
  BY <1>2, <1>3 DEF Latest
<1> DEFINE F == {Mailbox[a].file : a \in Attach}
           f == [a \in Latest |-> Mailbox[a].file]
<1>5. ASSUME NEW x \in F PROVE \E a \in Latest : Mailbox[a].file = x
  <2> DEFINE S == {a \in Attach : Mailbox[a].file = x}
  <2>1. S \in SUBSET (0..Cardinality(Ids)) /\ S # {}
    BY <1>2
  <2>2. PICK a \in S : \A b \in S : b <= a
    <3> HIDE DEF S
    <3> QED BY <2>1, LargestExists, MailsAre
  <2>3. a \in Latest
    BY <1>2, <1>4, <2>2
  <2> QED BY <2>2, <2>3
<1>6. Latest \subseteq Attach /\ IsFiniteSet(Latest)
  <2>1. Latest \subseteq Attach
    BY <1>4
  <2> QED BY <1>1, <2>1, MailsAre, FS_Subset
<1>7. f \in Surjection(Latest, F)
  <2>1. f \in [Latest -> F]
    BY <1>6
  <2> QED BY <1>5, <2>1 DEF Surjection
<1>8. f \in Injection(Latest, F)
  <2>1. f \in [Latest -> F]
    BY <1>6
  <2>2. ASSUME NEW a \in Latest, NEW b \in Latest, f[a] = f[b] PROVE a = b
    BY <1>2, <1>4, <2>2
  <2> QED BY <2>1, <2>2 DEF Injection, IsInjective
<1>9. Cardinality(F) = Cardinality(Latest)
  <2> HIDE DEF f, F
  <2> QED BY <1>6, <1>7, <1>8, FS_Surjection
<1> QED BY <1>5, <1>6, <1>9

LEMMA SearchInitially == SearchInit => SearchInv
<1> SUFFICES ASSUME SearchInit PROVE SearchInv
  OBVIOUS
<1>1. \A m \in Ids : Mailbox[m].uid \in Nat
  BY MailSearchAssumption DEF Ids
<1>2. server \in [Ids -> Place] /\ \A m \in Ids : server[m] = HomeOf(m)
  BY <1>1 DEF SearchInit, Place, HomeOf
<1> QED BY <1>2 DEF SearchInit, SearchInv, ReadingIs, Undisturbed

LEMMA SearchKeeps ==
  ASSUME SearchInv, NEW q \in Query, Search(q)
  PROVE  SearchInv'
<1>1. UNCHANGED <<stored, touched, server, moves, shifted>>
  BY DEF Search
<1>2. ReadingIs'
  <2>1. CASE q.wildcard
    <3>1. reading'.kind = "metadata"
      BY <2>1 DEF Search
    <3> QED BY <3>1 DEF ReadingIs
  <2>2. CASE ~q.wildcard
    <3>1. PICK mine \in Taken(q, "email"), other \in Taken(q, "attachment") :
            reading' = [kind |-> "search", query |-> q, rows |-> mine \cup other]
      BY <2>2 DEF Search
    <3>2. mine \subseteq Rows /\ other \subseteq Rows
      BY DEF Taken, kSubset, Candidates
    <3>3. reading' \in [kind : {"search"}, query : Query, rows : SUBSET Rows]
      BY <3>1, <3>2
    <3> QED BY <3>3 DEF ReadingIs
  <2> QED BY <2>1, <2>2
<1> QED BY <1>1, <1>2 DEF SearchInv, Undisturbed, HomeOf

\* What is cut from a sorted list ranks no higher than what is kept.
LEMMA CutKeeps ==
  ASSUME NEW matches, IsFiniteSet(matches), NEW q, q.limit \in Nat, NEW points,
         NEW list \in Ranked(matches, q, points)
  PROVE  /\ Range(list) \subseteq matches
         /\ \A m \in matches \ Range(list) :
              /\ Len(list) = q.limit
              /\ \A n \in Range(list) : ~Before(m, n, q, points)
<1>1. PICK r \in SetToSeqs(matches) :
        /\ \A i, j \in 1..Len(r) : i < j => ~Before(r[j], r[i], q, points)
        /\ list = SubSeq(r, 1, Least(q.limit, Len(r)))
  BY DEF Ranked
<1> DEFINE k == Least(q.limit, Len(r))
<1>2. /\ r \in Seq(matches) /\ Len(r) \in Nat
      /\ \A x \in matches : \E i \in 1..Len(r) : r[i] = x
  BY OntoAll
<1>3. k \in 0..Len(r) /\ (k < Len(r) => k = q.limit)
  BY <1>2 DEF Least
<1> HIDE DEF k
<1>4. Len(list) = k /\ DOMAIN list = 1..k /\ \A i \in 1..k : list[i] = r[i]
  BY <1>1, <1>2, <1>3 DEF k
<1>5. \A n \in Range(list) : \E i \in 1..k : n = r[i]
  BY <1>4 DEF Range
<1>6. Range(list) \subseteq matches
  BY <1>2, <1>3, <1>5
<1>7. ASSUME NEW m \in matches \ Range(list)
      PROVE  Len(list) = q.limit /\ \A n \in Range(list) : ~Before(m, n, q, points)
  <2>1. PICK j \in 1..Len(r) : r[j] = m
    BY <1>2
  <2>2. j > k
    BY <1>3, <1>4, <2>1 DEF Range
  <2>3. k = q.limit
    BY <1>3, <2>2, <1>2
  <2>4. ASSUME NEW n \in Range(list) PROVE ~Before(m, n, q, points)
    <3>1. PICK i \in 1..k : n = r[i]
      BY <1>5
    <3>2. i \in 1..Len(r) /\ i < j
      BY <1>2, <1>3, <2>2
    <3> QED BY <1>1, <2>1, <3>1, <3>2
  <2> QED BY <1>4, <2>3, <2>4
<1> QED BY <1>6, <1>7

LEMMA SearchingIs ==
  ASSUME SearchInv, reading.kind = "search"
  PROVE  /\ reading \in [kind : {"search"}, query : Query, rows : SUBSET Rows]
         /\ reading.query.limit \in Nat
<1>1. reading \in [kind : {"search"}, query : Query, rows : SUBSET Rows]
  BY DEF SearchInv, ReadingIs, Resting, Fetching
<1>2. reading.query \in Query
  BY <1>1
<1>3. reading.query.limit \in {1, Cardinality(Ids)}
  BY <1>2 DEF Query
<1> QED BY <1>1, <1>3, MailsAre

LEMMA RankingKeeps ==
  ASSUME SearchInv, NEW embedded \in BOOLEAN, Ranking(embedded)
  PROVE  SearchInv'
<1> DEFINE q == reading.query
           taken == reading.rows
           matches == Found(taken, embedded)
           points == [m \in matches |-> Score(scores, m, taken, embedded)]
           all == [m \in Ids |-> Score(scores, m, taken, embedded)]
<1>1. UNCHANGED <<stored, scores, touched, server, moves, shifted>> /\ reading.kind = "search"
  BY DEF Ranking
<1>2. PICK list \in Ranked(matches, q, points) :
        reading' = [kind |-> "found", query |-> q, rows |-> taken, embedded |-> embedded, list |-> list, had |-> stored]
  BY DEF Ranking
<1>3. q.limit \in Nat /\ taken \subseteq Rows
  BY <1>1, SearchingIs
<1>4. stored \subseteq Ids
  BY DEF SearchInv
<1>5. /\ matches \subseteq stored /\ matches \subseteq Ids
      /\ matches = {m \in {r.mail : r \in taken} \cap stored : Score(scores, m, taken, embedded) > 0}
  BY <1>4 DEF Found
<1>6. IsFiniteSet(matches)
  BY <1>5, MailsAre, FS_Subset
<1>7. \A m \in matches : points[m] = all[m]
  BY <1>5
<1>8. all = [m \in Ids |-> Score(scores, m, taken, embedded)]
  OBVIOUS
<1> HIDE DEF q, taken, matches, points, all
<1>9. /\ Range(list) \subseteq matches
      /\ \A m \in matches \ Range(list) :
           /\ Len(list) = q.limit
           /\ \A n \in Range(list) : ~Before(m, n, q, points)
  BY <1>3, <1>6, CutKeeps
<1>10. \A m, n \in matches : Before(m, n, q, points) <=> Before(m, n, q, all)
  BY <1>7 DEF Before
<1>11. AnswersAreThere'
  BY <1>2, <1>5, <1>9 DEF AnswersAreThere
<1>12. ASSUME NEW m \in {r.mail : r \in taken} \cap stored, all[m] > 0, m \notin Range(list)
       PROVE  /\ Len(list) = q.limit
              /\ \A n \in Range(list) : ~Before(m, n, q, all)
  <2>1. m \in Ids /\ all[m] = Score(scores, m, taken, embedded)
    BY <1>4, <1>8
  <2>2. m \in matches
    BY <1>5, <1>12, <2>1
  <2> QED BY <1>9, <1>10, <1>12, <2>2
<1>13. NothingBetterIsLeftOut'
  <2>1. /\ reading'.query = q /\ reading'.rows = taken /\ reading'.embedded = embedded
        /\ reading'.list = list /\ reading'.had = stored /\ reading'.kind = "found"
    BY <1>2
  <2> QED BY <1>1, <1>8, <1>12, <2>1 DEF NothingBetterIsLeftOut
<1>14. reading'.kind = "found"
  BY <1>2
<1> QED BY <1>1, <1>11, <1>13, <1>14 DEF SearchInv, ReadingIs, Undisturbed, HomeOf

\* The next page continues the one before it.
LEMMA NextPart ==
  ASSUME NEW X, NEW all \in Seq(X), NEW offset \in Nat, offset < Len(all), NEW size \in Nat
  PROVE  SubSeq(all, 1, Least(offset, Len(all))) \o SubSeq(all, offset + 1, Least(offset + size, Len(all)))
           = SubSeq(all, 1, Least(offset + size, Len(all)))
<1> DEFINE k == Least(offset + size, Len(all))
<1>1. Least(offset, Len(all)) = offset /\ k \in offset..Len(all) /\ Len(all) \in Nat
  BY DEF Least
<1> HIDE DEF k
<1>2. 1 \in 1..Len(all) + 1 /\ offset \in 1 - 1..Len(all)
  BY <1>1
<1>3. SubSeq(all, 1, offset) \o SubSeq(all, offset + 1, k) = SubSeq(all, 1, k)
  BY <1>1, <1>2, ConcatAdjacentSubSeq
<1> QED BY <1>1, <1>3 DEF k

LEMMA ListKeeps ==
  ASSUME SearchInv, ListAttachments
  PROVE  SearchInv'
<1>1. UNCHANGED <<stored, scores, touched, server, moves, shifted>>
  BY DEF ListAttachments
<1>2. stored \subseteq Ids /\ touched \in [Attach -> Nat] /\ PageSize \in Nat
  BY MailSearchAssumption DEF SearchInv
<1>3. Pages' = Pages
  BY <1>1 DEF Pages, Latest, Later
<1> DEFINE n == Cardinality({Mailbox[a].file : a \in Attach \cap stored})
<1>4. ASSUME NEW offset, Page(offset)
      PROVE  /\ reading'.kind = "list" /\ reading'.offset = offset + PageSize /\ reading'.total = n
             /\ \E all \in Pages : LET shown == SubSeq(all, offset + 1, Least(offset + PageSize, Len(all))) IN
                  reading'.shown = IF offset = 0 THEN shown ELSE reading.shown \o shown
  BY <1>4 DEF Page
<1>5. reading'.kind = "list"
  BY <1>4 DEF ListAttachments
<1>6. ASSUME ~shifted PROVE ShownSoFar'
  <2>1. Undisturbed
    BY <1>6 DEF SearchInv
  <2>2. n = Cardinality({Mailbox[a].file : a \in Attach})
    <3>1. Attach \cap stored = Attach
      BY <2>1 DEF Undisturbed, Attach
    <3> QED BY <3>1
  <2>3. n = Cardinality(Latest) /\ n \in Nat /\ \A all \in Pages : all \in Seq(Latest) /\ Len(all) = n
    <3>1. IsFiniteSet(Latest) /\ n = Cardinality(Latest)
      BY <1>2, <2>1, <2>2, LaterIs, OneRowEach
    <3> QED BY <3>1, OntoAll, FS_CardinalityType DEF Pages
  <2> HIDE DEF n
  <2>4. CASE Page(0)
    <3>1. PICK all \in Pages : reading'.shown = SubSeq(all, 1, Least(PageSize, Len(all)))
      <4>1. PICK all \in Pages : LET shown == SubSeq(all, 0 + 1, Least(0 + PageSize, Len(all))) IN
              reading'.shown = IF 0 = 0 THEN shown ELSE reading.shown \o shown
        BY <1>4, <2>4
      <4>2. 0 + PageSize = PageSize /\ 0 + 1 = 1
        BY <1>2
      <4> QED BY <4>1, <4>2
    <3>2. reading'.offset = PageSize /\ reading'.total = n
      BY <1>2, <1>4, <2>4
    <3> QED BY <1>2, <1>3, <2>2, <3>1, <3>2 DEF ShownSoFar
  <2>5. CASE reading.kind = "list" /\ reading.offset < reading.total /\ Page(reading.offset)
    <3> DEFINE o == reading.offset
    <3>1. ShownSoFar
      BY <1>6, <2>5 DEF SearchInv, ReadingIs, Resting, Fetching
    <3>2. o \in Nat /\ o < n
      BY <2>2, <2>5, <3>1 DEF ShownSoFar
    <3>3. PICK all \in Pages : reading.shown = SubSeq(all, 1, Least(o, Len(all)))
      BY <3>1 DEF ShownSoFar
    <3>4. PICK next \in Pages : LET shown == SubSeq(next, o + 1, Least(o + PageSize, Len(next))) IN
            reading'.shown = IF o = 0 THEN shown ELSE reading.shown \o shown
      BY <1>4, <2>5
    <3>5. next = all
      BY <1>2, OneOrder
    <3>6. reading'.offset = o + PageSize /\ reading'.total = n
      BY <1>4, <2>5
    <3> HIDE DEF o
    <3>7. SubSeq(all, 1, Least(o, Len(all))) \o SubSeq(all, o + 1, Least(o + PageSize, Len(all)))
            = SubSeq(all, 1, Least(o + PageSize, Len(all)))
      BY <1>2, <2>3, <3>2, NextPart
    <3>8. CASE o = 0
      <4>1. o + 1 = 1
        BY <3>8
      <4>2. reading'.shown = SubSeq(all, 1, Least(o + PageSize, Len(all)))
        BY <3>4, <3>5, <3>8, <4>1
      <4>3. reading'.shown = SubSeq(all, 1, Least(reading'.offset, Len(all))) /\ reading'.offset \in Nat
        BY <1>2, <3>2, <3>6, <4>2
      <4> QED BY <1>3, <2>2, <3>6, <4>3 DEF ShownSoFar
    <3>9. CASE o # 0
      <4>1. reading'.shown = SubSeq(all, 1, Least(o + PageSize, Len(all)))
        BY <3>3, <3>4, <3>5, <3>7, <3>9
      <4>2. reading'.shown = SubSeq(all, 1, Least(reading'.offset, Len(all))) /\ reading'.offset \in Nat
        BY <1>2, <3>2, <3>6, <4>1
      <4> QED BY <1>3, <2>2, <3>6, <4>2 DEF ShownSoFar
    <3> QED BY <3>8, <3>9
  <2> QED BY <2>4, <2>5 DEF ListAttachments
<1> QED BY <1>1, <1>5, <1>6 DEF SearchInv, ReadingIs, Undisturbed, HomeOf

LEMMA FetchKeeps ==
  ASSUME SearchInv, NEW m \in Ids, FetchSource(m)
  PROVE  SearchInv'
<1>1. UNCHANGED <<stored, scores, touched, server, moves, shifted>>
  BY DEF FetchSource
<1>2. reading' \in Fetching /\ reading'.folder = Mailbox[reading'.mail].folder
  BY DEF FetchSource, Fetching
<1> QED BY <1>1, <1>2 DEF SearchInv, ReadingIs, Undisturbed, HomeOf, Fetching

\* What is looked up by its uid is the mail itself, and so is what is looked up by
\* its Message-ID.
LEMMA MatchIsMail ==
  ASSUME SearchInv, reading \in Fetching, NEW m \in Match, ~shifted
  PROVE  m = reading.mail
<1>1. Undisturbed /\ reading.mail \in Ids
  BY DEF SearchInv, Fetching
<1>2. CASE reading.byId
  BY <1>2 DEF Match
<1>3. CASE ~reading.byId
  <2>1. reading.folder = Mailbox[reading.mail].folder
    BY <1>3 DEF SearchInv, ReadingIs, Resting, Fetching
  <2>2. m \in Ids /\ server[m] = HomeOf(reading.mail)
    BY <1>3, <2>1 DEF Match, At, HomeOf
  <2>3. /\ Mailbox[reading.mail].uid \in 1..Cardinality(Ids)
        /\ \A k, l \in Ids : Mailbox[k].folder = Mailbox[l].folder /\ Mailbox[k].uid = Mailbox[l].uid => k = l
    BY <1>1, MailSearchAssumption DEF Ids
  <2>4. server[m].uid = Mailbox[reading.mail].uid /\ server[m].folder = Mailbox[reading.mail].folder
    BY <2>2 DEF HomeOf
  <2>5. server[m] # Nowhere /\ ~(server[m].uid > Cardinality(Ids))
    BY <2>3, <2>4, MailsAre DEF Nowhere
  <2>6. server[m] = HomeOf(m)
    BY <1>1, <2>2, <2>5 DEF Undisturbed
  <2>7. Mailbox[m].folder = Mailbox[reading.mail].folder /\ Mailbox[m].uid = Mailbox[reading.mail].uid
    BY <2>4, <2>6 DEF HomeOf
  <2> QED BY <1>1, <2>2, <2>3, <2>7
<1> QED BY <1>2, <1>3 DEF Fetching

LEMMA LookedKeeps ==
  ASSUME SearchInv, Looked
  PROVE  SearchInv'
<1>1. UNCHANGED <<stored, scores, touched, server, moves, shifted>> /\ reading.kind = "fetch"
  BY DEF Looked
<1>2. reading \in Fetching
  BY <1>1 DEF SearchInv, ReadingIs, Resting
<1>3. ReadingIs'
  <2>1. ASSUME NEW m \in Match, reading' = [kind |-> "source", mail |-> reading.mail, got |-> m]
        PROVE  ReadingIs'
    <3>1. reading'.kind = "source" /\ reading'.mail = reading.mail /\ reading'.got = m
      BY <2>1
    <3>2. SourceIsTheMail'
      BY <1>1, <1>2, <3>1, MatchIsMail DEF SourceIsTheMail
    <3> QED BY <3>1, <3>2 DEF ReadingIs
  <2>2. ASSUME NEW f \in reading.rest, reading' = [reading EXCEPT !.folder = f, !.byId = TRUE, !.rest = @ \ {f}]
        PROVE  ReadingIs'
    <3>1. reading' \in Fetching /\ reading'.byId = TRUE
      BY <1>2, <2>2 DEF Fetching
    <3> QED BY <3>1 DEF ReadingIs
  <2>3. ASSUME reading' = [kind |-> "failed"] PROVE ReadingIs'
    <3>1. reading'.kind = "failed"
      BY <2>3
    <3> QED BY <3>1 DEF ReadingIs
  <2> QED BY <2>1, <2>2, <2>3 DEF Looked
<1> QED BY <1>1, <1>3 DEF SearchInv, Undisturbed, HomeOf

\* What changes meanwhile.
LEMMA MailMovesKeeps ==
  ASSUME SearchInv, NEW m \in Ids, NEW f \in MailFolders \cup {"none"}, MailMoves(m, f)
  PROVE  SearchInv'
<1>1. /\ UNCHANGED <<stored, scores, touched, reading, shifted>> /\ moves' = moves + 1 /\ moves \in Nat
      /\ reading.kind \in {"none", "fetch"} /\ server \in [Ids -> Place]
  BY DEF MailMoves, Moves, SearchInv
<1> DEFINE place == IF f = "none" THEN Nowhere ELSE [folder |-> f, uid |-> Cardinality(Ids) + moves + 1]
<1>2. server' = [server EXCEPT ![m] = place]
  BY DEF MailMoves
<1>3. place \in Place /\ (place = Nowhere \/ place.uid > Cardinality(Ids))
  BY <1>1, MailsAre DEF Place, Nowhere
<1> HIDE DEF place
<1>4. server' \in [Ids -> Place] /\ \A n \in Ids : server'[n] = server[n] \/ server'[n] = place
  BY <1>1, <1>2, <1>3
<1>5. ~shifted => Undisturbed'
  BY <1>1, <1>3, <1>4 DEF SearchInv, Undisturbed, HomeOf
<1>6. ReadingIs'
  BY <1>1 DEF SearchInv, ReadingIs, Resting, Fetching
<1> QED BY <1>1, <1>4, <1>5, <1>6 DEF SearchInv

LEMMA UpsetKeeps ==
  ASSUME SearchInv, (\E f \in MailFolders : Renumbers(f)) \/ ClearsIndex \/ \E a \in Attach : Touches(a)
  PROVE  SearchInv'
<1>1. /\ shifted' = TRUE /\ scores' = scores /\ reading' = reading /\ moves' = moves + 1 /\ moves \in Nat
      /\ reading.kind \in {"none", "search", "list", "fetch"}
  BY DEF Renumbers, ClearsIndex, Touches, Moves, SearchInv
<1>2. ReadingIs'
  BY <1>1 DEF SearchInv, ReadingIs, Resting, Fetching
<1>3. server' \in [Ids -> Place]
  <2>1. ASSUME NEW f \in MailFolders, Renumbers(f) PROVE server' \in [Ids -> Place]
    BY <2>1 DEF Renumbers, SearchInv
  <2> QED BY <2>1 DEF ClearsIndex, Touches, SearchInv
<1>4. touched' \in [Attach -> Nat] /\ stored' \subseteq Ids
  BY DEF Renumbers, ClearsIndex, Touches, SearchInv
<1> QED BY <1>1, <1>2, <1>3, <1>4 DEF SearchInv

\* At the end of a list every content has been shown once.
LEMMA AllShown == SearchInv => PagesShowEachOnce
<1> SUFFICES ASSUME SearchInv, reading.kind = "list", reading.offset >= reading.total, ~shifted
    PROVE  /\ Len(reading.shown) = reading.total
           /\ {Mailbox[a].file : a \in Range(reading.shown)} = {Mailbox[a].file : a \in Attach}
  BY DEF PagesShowEachOnce
<1>1. ShownSoFar /\ Undisturbed /\ stored \subseteq Ids /\ touched \in [Attach -> Nat]
  BY DEF SearchInv, ReadingIs, Resting, Fetching
<1> DEFINE n == Cardinality(Latest)
<1>2. n = reading.total /\ {Mailbox[a].file : a \in Latest} = {Mailbox[a].file : a \in Attach}
  BY <1>1, OneRowEach DEF ShownSoFar
<1>3. PICK all \in Pages : reading.shown = SubSeq(all, 1, Least(reading.offset, Len(all)))
  BY <1>1 DEF ShownSoFar
<1>4. /\ n \in Nat /\ all \in [1..n -> Latest] /\ all \in Seq(Latest) /\ Len(all) = n
      /\ \A x \in Latest : \E i \in 1..n : all[i] = x
  BY <1>1, LaterIs, OntoAll DEF Pages
<1> HIDE DEF n
<1>5. Least(reading.offset, Len(all)) = n
  BY <1>1, <1>2, <1>4 DEF Least, ShownSoFar
<1>6. reading.shown = all
  BY <1>3, <1>4, <1>5
<1>7. Range(all) = Latest
  <2>1. \A x \in Range(all) : x \in Latest
    BY <1>4 DEF Range
  <2>2. \A x \in Latest : x \in Range(all)
    BY <1>4 DEF Range
  <2> QED BY <2>1, <2>2
<1> QED BY <1>2, <1>4, <1>6, <1>7

\* For any mails, scores and page size, however mails move, are cleared or touched
\* meanwhile: a search answers with mails that are there and leaves none out for one
\* that ranks lower, a list shows every content once while nothing changes, and the
\* source of a mail is that mail's (ImapIndexService).
THEOREM SearchIsCorrect == SearchSpec => []SearchCorrect
<1>1. SearchInv /\ [SearchNext]_searchVars => SearchInv'
  <2> SUFFICES ASSUME SearchInv, [SearchNext]_searchVars PROVE SearchInv'
    OBVIOUS
  <2>1. CASE UNCHANGED searchVars
    <3>1. Pages' = Pages
      BY <2>1 DEF searchVars, Pages, Latest, Later
    <3>2. ReadingIs'
      BY <2>1, <3>1 DEF searchVars, SearchInv, ReadingIs, ShownSoFar, AnswersAreThere, NothingBetterIsLeftOut, SourceIsTheMail
    <3> QED BY <2>1, <3>2 DEF searchVars, SearchInv, Undisturbed, HomeOf
  <2>2. CASE SearchNext
    BY <2>2, SearchKeeps, RankingKeeps, ListKeeps, FetchKeeps, LookedKeeps, MailMovesKeeps, UpsetKeeps DEF SearchNext
  <2> QED BY <2>1, <2>2
<1>2. SearchInv => SearchCorrect
  <2>1. SearchInv /\ reading.kind = "found" => AnswersAreThere /\ NothingBetterIsLeftOut
    BY DEF SearchInv, ReadingIs, Resting, Fetching
  <2>2. SearchInv /\ reading.kind = "source" => SourceIsTheMail
    BY DEF SearchInv, ReadingIs, Resting, Fetching
  <2>3. reading.kind # "found" => AnswersAreThere /\ NothingBetterIsLeftOut
    BY DEF AnswersAreThere, NothingBetterIsLeftOut
  <2>4. reading.kind # "source" => SourceIsTheMail
    BY DEF SourceIsTheMail
  <2> QED BY <2>1, <2>2, <2>3, <2>4, AllShown DEF SearchCorrect
<1> QED BY <1>1, <1>2, SearchInitially, PTL DEF SearchSpec

-----------------------------------------------------------------------------
(* Personal memories.                                                      *)

\* What a row, a file and the token last used say of a memory that no crash has
\* left halfway.
Agree(row, doc, text, token) ==
  \/ row = "none"
  \/ row = "plain" /\ token = NoToken /\ doc = text
  \/ row = "personal" /\ token # NoToken /\ doc = Seal(text, token)

PersonalInv ==
  /\ DOMAIN docs = Personal /\ DOMAIN rows = Personal /\ DOMAIN said = Personal /\ DOMAIN key = Personal
  /\ \A m \in Personal \ halfway : Agree(rows[m], docs[m], said[m], key[m])

\* Writing makes them agree, or leaves that memory halfway.
LEMMA WrittenKeeps ==
  ASSUME PersonalInv, NEW m \in Personal, NEW text, NEW personal \in BOOLEAN, NEW token,
         Written(m, text, personal, token)
  PROVE  PersonalInv'
<1>1. /\ personal => token # NoToken
      /\ docs' = [docs EXCEPT ![m] = IF personal THEN Seal(text, token) ELSE text]
      /\ said' = [said EXCEPT ![m] = text]
      /\ key' = [key EXCEPT ![m] = IF personal THEN token ELSE NoToken]
  BY DEF Written
<1>2. DOMAIN docs' = Personal /\ DOMAIN said' = Personal /\ DOMAIN key' = Personal
  BY <1>1 DEF PersonalInv
<1>3. \A k \in Personal \ {m} : docs'[k] = docs[k] /\ said'[k] = said[k] /\ key'[k] = key[k]
  BY <1>1 DEF PersonalInv
<1>4. CASE /\ rows' = [rows EXCEPT ![m] = IF personal THEN "personal" ELSE "plain"]
           /\ halfway' = halfway \ {m}
  <2>1. DOMAIN rows' = Personal /\ \A k \in Personal \ {m} : rows'[k] = rows[k]
    BY <1>4 DEF PersonalInv
  <2>2. Agree(rows'[m], docs'[m], said'[m], key'[m])
    <3>1. rows'[m] = IF personal THEN "personal" ELSE "plain"
      BY <1>4 DEF PersonalInv
    <3>2. /\ docs'[m] = IF personal THEN Seal(text, token) ELSE text
          /\ said'[m] = text /\ key'[m] = IF personal THEN token ELSE NoToken
      BY <1>1 DEF PersonalInv
    <3> QED BY <1>1, <3>1, <3>2 DEF Agree
  <2> QED BY <1>2, <1>3, <1>4, <2>1, <2>2 DEF PersonalInv
<1>5. CASE halfway \subseteq {m} /\ halfway' = {m} /\ UNCHANGED rows
  BY <1>2, <1>3, <1>5 DEF PersonalInv
<1> QED BY <1>4, <1>5 DEF Written

LEMMA ForgetKeeps ==
  ASSUME PersonalInv, NEW m \in Personal, Forget(m)
  PROVE  PersonalInv'
<1>1. /\ DOMAIN docs' = Personal /\ DOMAIN rows' = Personal /\ DOMAIN said' = Personal /\ DOMAIN key' = Personal
      /\ rows'[m] = "none" /\ halfway' = halfway \ {m}
      /\ \A k \in Personal \ {m} :
           docs'[k] = docs[k] /\ said'[k] = said[k] /\ key'[k] = key[k] /\ rows'[k] = rows[k]
  BY DEF Forget, PersonalInv
<1> QED BY <1>1 DEF PersonalInv, Agree

\* What agrees is opened by its own token and by no other.
LEMMA OpenedByItsToken ==
  ASSUME NEW m, There(m), Agree(rows[m], docs[m], said[m], key[m]), NEW token
  PROVE  Resolve(m, token) = IF key[m] = NoToken \/ token = key[m] THEN said[m] ELSE <<>>
<1>1. CASE rows[m] = "plain"
  BY <1>1 DEF Agree, Resolve
<1>2. CASE rows[m] = "personal"
  <2>1. key[m] # NoToken /\ docs[m] = <<[n |-> 0, by |-> key[m], text |-> said[m]]>>
    BY <1>2 DEF Agree, Seal
  <2>2. docs[m][1].n = 0 /\ Len(docs[m]) = 1 /\ docs[m][1].by = key[m] /\ docs[m][1].text = said[m]
    BY <2>1
  <2>3. Unsealed(docs[m], token) = IF token = key[m] THEN said[m] ELSE <<>>
    BY <2>2 DEF Unsealed
  <2> QED BY <1>2, <2>1, <2>3 DEF Resolve
<1> QED BY <1>1, <1>2 DEF There, Agree

\* For any memories and tokens, in whatever order they are written, appended to,
\* made personal or plain, forgotten and indexed again: the token a memory was last
\* written with, and no other, opens what was last said of it, unless a crash came
\* between its file and its row (MemoryService).
THEOREM PersonalMemoriesOpen == PersonalSpec => []TokenOpens
<1>1. PersonalInit => PersonalInv
  BY DEF PersonalInit, PersonalInv, Agree
<1>2. PersonalInv /\ [PersonalNext]_personalVars => PersonalInv'
  <2> SUFFICES ASSUME PersonalInv, [PersonalNext]_personalVars PROVE PersonalInv'
    OBVIOUS
  <2>1. CASE UNCHANGED personalVars
    BY <2>1 DEF personalVars, PersonalInv
  <2>2. ASSUME NEW token \in Tokens \cup {NoToken}, NEW m \in Personal, NEW p \in BOOLEAN, CreateMemory(m, p, token)
        PROVE  PersonalInv'
    BY <2>2, WrittenKeeps DEF CreateMemory
  <2>3. ASSUME NEW token \in Tokens \cup {NoToken}, NEW m \in Personal, AppendMemory(m, token)
        PROVE  PersonalInv'
    BY <2>3, WrittenKeeps DEF AppendMemory
  <2>4. ASSUME NEW token \in Tokens \cup {NoToken}, NEW m \in Personal, NEW p \in BOOLEAN, NEW anew \in BOOLEAN,
               UpdateMemory(m, anew, p, token)
        PROVE  PersonalInv'
    BY <2>4, WrittenKeeps DEF UpdateMemory
  <2>5. ASSUME NEW token \in Tokens \cup {NoToken}, ReindexAll(token) PROVE PersonalInv'
    BY <2>5 DEF ReindexAll, PersonalInv
  <2>6. ASSUME NEW m \in Personal, Forget(m) PROVE PersonalInv'
    BY <2>6, ForgetKeeps
  <2> QED BY <2>1, <2>2, <2>3, <2>4, <2>5, <2>6 DEF PersonalNext
<1>3. PersonalInv => TokenOpens
  <2> SUFFICES ASSUME PersonalInv, NEW m \in Personal, There(m), m \notin halfway, NEW token \in Tokens \cup {NoToken}
      PROVE  Resolve(m, token) = IF key[m] = NoToken \/ token = key[m] THEN said[m] ELSE <<>>
    BY DEF TokenOpens
  <2> QED BY OpenedByItsToken DEF PersonalInv
<1> QED BY <1>1, <1>2, <1>3, PTL DEF PersonalSpec
=============================================================================
