------------------------------ MODULE ImapCrawl ------------------------------
(***************************************************************************)
(* The crawl of ImapIndexService (packages/tool-imap): mails that arrive   *)
(* in the folders of a mailbox, the rows and chunks of the local index,    *)
(* the last_uid checkpoint of each folder, and the crawls, stops, clears,  *)
(* reindexings and connection failures that change them.                   *)
(*                                                                         *)
(* An action is the code between two awaits.  A crawl keeps in its record  *)
(* what crawl() holds in local variables; what it reads from `this` or the *)
(* database it reads when the code does.  A folder only grows, and keeps   *)
(* its UIDVALIDITY (the code never looks at it).  The queue of attachments *)
(* is left out: nothing here reads it.  crawlMode is "continuous-sync".    *)
(***************************************************************************)
EXTENDS Naturals, FiniteSets

CONSTANTS
  Folders,     \* the folders that are crawled
  MaxUid,      \* bound: mails that arrive in a folder
  Crawls,      \* crawls that can be in progress at once
  BatchSize,   \* settings.batchSize, per folder and crawl
  Limit,       \* ECONNRESET_FAILURE_LIMIT
  Options,     \* options of imap_crawl in use: "full", "since", "folder"
  Ops,         \* tool calls in use: "stop", "clear", "reindex"
  Faults,      \* what may fail: "connect", "imap", "embed", "reset", "crash"
  MaxUpsets    \* bound: failures and tool calls of these kinds, all together

ASSUME CrawlAssumption ==
  /\ MaxUid \in Nat \ {0}
  /\ BatchSize \in Nat \ {0}
  /\ Limit \in Nat
  /\ MaxUpsets \in Nat
  /\ Crawls \cap {"due", "polling", "over"} = {}

VARIABLES
  arrived,   \* the highest uid of each folder, on the server
  emails,    \* imap_emails
  chunked,   \* the emails with rows in imap_email_chunks
  cursor,    \* imap_crawl_state.last_uid; 0 also when there is no row or it is null
  active,    \* crawlRuntime.active
  abort,     \* crawlAbortRequested
  stopped,   \* crawlStoppedByImapErrors
  failures,  \* econnResetFailureTimestampsMs within the last hour
  startup,   \* start(): due, the crawl it awaits, polling (the timer is set), or
             \* over without a timer
  crawl,     \* the crawls in progress
  reindexing,\* the emails imap_reindex is embedding
  upsets,    \* how many of the bounded events there have been
  excused,   \* history: mails an option or a clear under a crawl left out
  missed     \* history: emails whose embedding failed or was cut short

indexVars == <<emails, chunked, cursor>>
flagVars  == <<active, abort, stopped, failures, startup>>
histVars  == <<excused, missed>>
vars == <<arrived, indexVars, flagVars, crawl, reindexing, upsets, histVars>>

Uids == 1..MaxUid
Mail == Folders \X Uids
Larger(m, n) == IF m < n THEN n ELSE m
Smaller(m, n) == IF m < n THEN m ELSE n

Idle == [pc |-> "idle"]
\* A crawl between folders, and inside one: what fetch returns goes from next
\* to upto, newest is newestUid, count is folderCrawled.
Between == [pc : {"connecting", "logout"}, full : BOOLEAN, since : BOOLEAN,
            todo : SUBSET Folders]
Inside  == [pc : {"opening", "status", "fetching", "embedding"}, full : BOOLEAN,
            since : BOOLEAN, todo : SUBSET Folders, at : Folders,
            next : 1..(MaxUid + 1), upto : 0..MaxUid, newest : 0..MaxUid,
            count : 0..BatchSize]
CrawlState == {Idle} \cup Between \cup Inside

Upset == upsets < MaxUpsets /\ upsets' = upsets + 1

-----------------------------------------------------------------------------
(* Where a crawl goes on                                                   *)

\* The head of the loop over folders, where the abort flag is looked at; the
\* order of the folders is of no consequence.
NextFolder(k, c) ==
  IF abort \/ c.todo = {}
    THEN crawl' = [crawl EXCEPT ![k] =
                     [pc |-> "logout", full |-> c.full, since |-> c.since, todo |-> {}]]
    ELSE \E f \in c.todo :
           crawl' = [crawl EXCEPT ![k] =
             [pc |-> "opening", full |-> c.full, since |-> c.since, todo |-> c.todo \ {f},
              at |-> f, next |-> 1, upto |-> 0, newest |-> 0, count |-> 0]]

\* Variant for mutation: the checkpoint is the highest uid seen on the server.
FolderDoneAtUpto(k, newest) ==
  /\ cursor' = [cursor EXCEPT ![crawl[k].at] = Larger(newest, crawl[k].upto)]
  /\ NextFolder(k, crawl[k])

\* upsertFolderState with newestUid, then the next folder.
FolderDone(k, newest) ==
  /\ cursor' = [cursor EXCEPT ![crawl[k].at] = newest]
  /\ NextFolder(k, crawl[k])

\* The catch block of a folder: last_uid is written back as it is.
FolderFails(k) == NextFolder(k, crawl[k]) /\ UNCHANGED cursor

\* The end of the loop over messages: one more crawled, and perhaps the last.
Advance(k) ==
  LET c == crawl[k]
      newest == Larger(c.newest, c.next)
  IN  IF abort \/ c.count + 1 >= BatchSize
        THEN FolderDone(k, newest)
        ELSE /\ crawl' = [crawl EXCEPT ![k] = [c EXCEPT !.pc = "fetching", !.count = @ + 1,
                                                        !.next = @ + 1, !.newest = newest]]
             /\ UNCHANGED cursor

Current(k) == <<crawl[k].at, crawl[k].next>>

\* The crawl has read the checkpoint of a folder and not yet written it back.
Reading(k) == crawl[k].pc \in {"status", "fetching", "embedding"}

\* recordEconnResetFailure, when the error is not a repetition within seconds.
RecordFailure ==
  /\ failures' = Smaller(failures + 1, Limit + 1)
  /\ UNCHANGED startup
  /\ IF failures + 1 > Limit /\ ~stopped
       THEN stopped' = TRUE /\ abort' = TRUE /\ active' = FALSE
       ELSE UNCHANGED <<stopped, abort, active>>

-----------------------------------------------------------------------------
(* A crawl, from one await to the next                                     *)

\* crawl() up to `await client.connect()`, by a tool call, startCrawl or the
\* poll timer: refused while one is active or after too many failures.
Begin(k, full, since, todo) ==
  /\ crawl[k].pc = "idle"
  /\ ~stopped
  /\ ~active
  /\ active' = TRUE
  /\ abort' = FALSE
  /\ crawl' = [crawl EXCEPT ![k] = [pc |-> "connecting", full |-> full, since |-> since,
                                    todo |-> todo]]
  /\ UNCHANGED <<arrived, indexVars, stopped, failures, reindexing, histVars>>

Connected(k) ==
  /\ crawl[k].pc = "connecting"
  /\ NextFolder(k, crawl[k])
  /\ UNCHANGED <<arrived, indexVars, flagVars, reindexing, upsets, histVars>>

\* start() throws what is no connection reset or timeout: no timer is set.
NotRecoverable(k) ==
  /\ startup' = IF startup = k THEN "over" ELSE startup
  /\ UNCHANGED <<active, abort, stopped, failures>>

\* The outer catch block; the list of folders is still empty, so no
\* checkpoint is written.  A recoverable failure is recorded, if it is no repetition.
ConnectFails(k) ==
  /\ "connect" \in Faults /\ Upset
  /\ crawl[k].pc = "connecting"
  /\ crawl' = [crawl EXCEPT ![k].pc = "logout", ![k].todo = {}]
  /\ RecordFailure \/ UNCHANGED flagVars \/ NotRecoverable(k)
  /\ UNCHANGED <<arrived, indexVars, reindexing, histVars>>

\* Variant for mutation: the checkpoint is taken as a message sequence end.
LowerBoundOneTooFar(k) == IF crawl[k].full THEN 1 ELSE cursor[crawl[k].at] + 2

\* lowerBoundUid
LowerBoundUid(k) == IF crawl[k].full THEN 1 ELSE cursor[crawl[k].at] + 1

\* `await client.mailboxOpen` is answered, and the checkpoint read.
Opened(k) ==
  /\ crawl[k].pc = "opening"
  /\ crawl' = [crawl EXCEPT ![k].pc = "status", ![k].next = LowerBoundUid(k),
                            ![k].newest = cursor[crawl[k].at]]
  /\ UNCHANGED <<arrived, indexVars, flagVars, reindexing, upsets, histVars>>

\* getMaxUid is answered: the folder has nothing new, or the fetch of
\* lowerBoundUid:* begins.
StatusReturns(k) ==
  /\ crawl[k].pc = "status"
  /\ LET maxUid == arrived[crawl[k].at] IN
       IF maxUid < crawl[k].next
         THEN FolderDone(k, maxUid)
         ELSE /\ crawl' = [crawl EXCEPT ![k].pc = "fetching", ![k].upto = maxUid]
              /\ UNCHANGED cursor
  /\ UNCHANGED <<arrived, emails, chunked, flagVars, reindexing, upsets, histVars>>

\* Without maxUid the fetch begins in any case; n:* always has the last mail.
StatusFails(k) ==
  /\ "imap" \in Faults /\ Upset
  /\ crawl[k].pc = "status"
  /\ LET maxUid == arrived[crawl[k].at] IN
       crawl' = [crawl EXCEPT ![k].pc = "fetching", ![k].upto = maxUid,
                              ![k].next = Larger(1, Smaller(@, maxUid))]
  /\ UNCHANGED <<arrived, indexVars, flagVars, reindexing, histVars>>

\* A mail older than `since` is passed over; the abort flag is not looked at.
SkipOld(k) ==
  /\ crawl[k].pc = "fetching" /\ crawl[k].since
  /\ crawl[k].next <= crawl[k].upto
  /\ crawl' = [crawl EXCEPT ![k].next = @ + 1,
                            ![k].newest = Larger(@, crawl[k].next)]
  /\ excused' = excused \cup {Current(k)}
  /\ UNCHANGED <<arrived, indexVars, flagVars, reindexing, upsets, missed>>

\* Variant for mutation: only mails beyond the checkpoint are taken as new.
ChangedIfBeyond(k) == crawl[k].next > cursor[crawl[k].at]

\* What upsertEmail returns; a mail never changes under its uid.
Changed(k) == Current(k) \notin emails

\* normalizeMessage is answered: upsertEmail, then `await reindexEmail` if the
\* row is new.
Upsert(k) ==
  /\ crawl[k].pc = "fetching"
  /\ crawl[k].next <= crawl[k].upto
  /\ emails' = emails \cup {Current(k)}
  /\ IF Changed(k)
       THEN crawl' = [crawl EXCEPT ![k].pc = "embedding"] /\ UNCHANGED cursor
       ELSE Advance(k)
  /\ UNCHANGED <<arrived, chunked, flagVars, reindexing, upsets, histVars>>

\* embedChunks is answered: the transaction that inserts the chunks succeeds,
\* unless the row has been cleared meanwhile (a foreign key).
Embedded(k) ==
  /\ crawl[k].pc = "embedding"
  /\ IF Current(k) \in emails
       THEN chunked' = chunked \cup {Current(k)} /\ Advance(k)
       ELSE FolderFails(k) /\ UNCHANGED chunked
  /\ missed' = missed \ {Current(k)}
  /\ UNCHANGED <<arrived, emails, flagVars, reindexing, upsets, excused>>

EmbedFails(k) ==
  /\ "embed" \in Faults /\ Upset
  /\ crawl[k].pc = "embedding"
  /\ FolderFails(k)
  /\ missed' = missed \cup ({Current(k)} \cap emails)
  /\ UNCHANGED <<arrived, emails, chunked, flagVars, reindexing, excused>>

\* mailboxOpen, fetch or the parsing of a mail throws.
FetchFails(k) ==
  /\ "imap" \in Faults /\ Upset
  /\ crawl[k].pc \in {"opening", "fetching"}
  /\ FolderFails(k)
  /\ UNCHANGED <<arrived, emails, chunked, flagVars, reindexing, histVars>>

FetchEnds(k) ==
  /\ crawl[k].pc = "fetching"
  /\ crawl[k].next > crawl[k].upto
  /\ FolderDone(k, crawl[k].newest)
  /\ UNCHANGED <<arrived, emails, chunked, flagVars, reindexing, upsets, histVars>>

\* The rest of start(), once its crawl is over or was refused.
Timer == IF stopped THEN "over" ELSE "polling"

\* Variant for mutation: the finally block forgets the runtime.
LoggedOutActive(k) ==
  /\ crawl[k].pc = "logout"
  /\ startup' = IF startup = k THEN Timer ELSE startup
  /\ crawl' = [crawl EXCEPT ![k] = Idle]
  /\ UNCHANGED <<arrived, indexVars, active, abort, stopped, failures, reindexing, upsets, histVars>>

\* The rest of the finally block: this.crawlRuntime is made inactive, even if
\* by now it is the runtime of another crawl; start() goes on if it waits for this one.
LoggedOut(k) ==
  /\ crawl[k].pc = "logout"
  /\ active' = FALSE
  /\ startup' = IF startup = k THEN Timer ELSE startup
  /\ crawl' = [crawl EXCEPT ![k] = Idle]
  /\ UNCHANGED <<arrived, indexVars, abort, stopped, failures, reindexing, upsets, histVars>>

Step(k) ==
  \/ Connected(k) \/ ConnectFails(k) \/ Opened(k) \/ StatusReturns(k) \/ StatusFails(k)
  \/ SkipOld(k) \/ Upsert(k) \/ Embedded(k) \/ EmbedFails(k) \/ FetchFails(k)
  \/ FetchEnds(k) \/ LoggedOut(k)

-----------------------------------------------------------------------------
(* Tool calls, the mailbox and the process                                 *)

StopCrawl ==
  /\ "stop" \in Ops /\ Upset
  /\ active
  /\ abort' = TRUE
  /\ active' = FALSE
  /\ UNCHANGED <<arrived, indexVars, stopped, failures, startup, crawl, reindexing, histVars>>

\* What crawls in progress have already passed when the index is cleared.
Passed ==
  {m \in Mail : \E k \in Crawls :
     Reading(k) /\ crawl[k].at = m[1] /\ m[2] <= crawl[k].newest}

\* Variant for mutation: the checkpoints are forgotten.
ClearRowsOnly ==
  /\ "clear" \in Ops /\ Upset
  /\ abort' = (abort \/ active)
  /\ emails' = {} /\ chunked' = {} /\ excused' = Passed /\ missed' = {}
  /\ UNCHANGED <<arrived, cursor, active, stopped, failures, startup, crawl, reindexing>>

\* clearIndex: rows and checkpoints go in one transaction, chunks by cascade.
ClearIndex ==
  /\ "clear" \in Ops /\ Upset
  /\ abort' = (abort \/ active)
  /\ cursor' = [f \in Folders |-> 0]
  /\ emails' = {}
  /\ chunked' = {}
  /\ excused' = Passed
  /\ missed' = {}
  /\ UNCHANGED <<arrived, active, stopped, failures, startup, crawl, reindexing>>

\* reindex: reindexEmail of one email, or of each in turn.
Reindex(m) ==
  /\ "reindex" \in Ops /\ Upset
  /\ m \in emails \ reindexing
  /\ reindexing' = reindexing \cup {m}
  /\ UNCHANGED <<arrived, indexVars, flagVars, crawl, histVars>>

\* The same transaction as in Embedded; or the embedding fails.
ReindexSettles(m) ==
  /\ m \in reindexing
  /\ reindexing' = reindexing \ {m}
  /\ \/ /\ chunked' = chunked \cup ({m} \cap emails)
        /\ missed' = missed \ {m}
        /\ UNCHANGED upsets
     \/ /\ "embed" \in Faults /\ Upset
        /\ UNCHANGED <<chunked, missed>>
  /\ UNCHANGED <<arrived, emails, cursor, flagVars, crawl, excused>>

\* The error event of a client, of a crawl or of another call.
ClientError ==
  /\ "reset" \in Faults /\ Upset
  /\ RecordFailure
  /\ UNCHANGED <<arrived, indexVars, crawl, reindexing, histVars>>

\* Failures leave the one-hour window.
WindowPasses ==
  /\ \E n \in 0..failures : n < failures /\ failures' = n
  /\ UNCHANGED <<arrived, indexVars, active, abort, stopped, startup, crawl, reindexing, upsets, histVars>>

\* The process dies and starts again; the database is all that is left.
Restart ==
  /\ "crash" \in Faults /\ Upset
  /\ active' = FALSE /\ abort' = FALSE /\ stopped' = FALSE
  /\ failures' = 0 /\ startup' = "due"
  /\ crawl' = [k \in Crawls |-> Idle]
  /\ reindexing' = {}
  /\ missed' = missed \cup (emails \ chunked)
  /\ UNCHANGED <<arrived, indexVars, excused>>

MailArrives(f) ==
  /\ arrived[f] < MaxUid
  /\ arrived' = [arrived EXCEPT ![f] = @ + 1]
  /\ UNCHANGED <<indexVars, flagVars, crawl, reindexing, upsets, histVars>>

\* start() of a process that has just begun to serve tool calls.
StartUp ==
  /\ startup = "due"
  /\ \/ \E k \in Crawls : Begin(k, FALSE, FALSE, Folders) /\ startup' = k
     \/ /\ stopped \/ active
        /\ startup' = Timer
        /\ UNCHANGED <<arrived, indexVars, active, abort, stopped, failures, crawl, reindexing, histVars>>
  /\ UNCHANGED upsets

\* A crawl of everything new, by the poll timer or imap_start_crawl.
Poll == startup = "polling" /\ (\E k \in Crawls : Begin(k, FALSE, FALSE, Folders)) /\ UNCHANGED <<upsets, startup>>
StartCrawl == (\E k \in Crawls : Begin(k, FALSE, FALSE, Folders)) /\ UNCHANGED <<upsets, startup>>

\* imap_crawl with options.
Requested ==
  \E k \in Crawls, full \in BOOLEAN, since \in BOOLEAN,
     todo \in {Folders} \cup {{f} : f \in Folders} :
    /\ full => "full" \in Options
    /\ since => "since" \in Options
    /\ todo # Folders => "folder" \in Options
    /\ Begin(k, full, since, todo)
    /\ <<full, since, todo>> # <<FALSE, FALSE, Folders>>
    /\ Upset /\ UNCHANGED startup

\* imap_crawl with a `since` that is no timestamp throws, but only after the
\* abort flag has been reset.
InvalidSince ==
  /\ "since" \in Options /\ Upset
  /\ ~stopped
  /\ ~active
  /\ abort' = FALSE
  /\ UNCHANGED <<arrived, indexVars, active, stopped, failures, startup, crawl, reindexing, histVars>>

Init ==
  /\ arrived = [f \in Folders |-> 0]
  /\ emails = {} /\ chunked = {}
  /\ cursor = [f \in Folders |-> 0]
  /\ active = FALSE /\ abort = FALSE /\ stopped = FALSE
  /\ failures = 0 /\ startup = "due"
  /\ crawl = [k \in Crawls |-> Idle]
  /\ reindexing = {}
  /\ upsets = 0
  /\ excused = {} /\ missed = {}

Next ==
  \/ StartUp \/ Poll \/ StartCrawl \/ Requested \/ InvalidSince
  \/ \E k \in Crawls : Step(k)
  \/ StopCrawl \/ ClearIndex
  \/ \E m \in Mail : Reindex(m) \/ ReindexSettles(m)
  \/ ClientError \/ WindowPasses \/ Restart
  \/ \E f \in Folders : MailArrives(f)

Spec == Init /\ [][Next]_vars

\* Every await of a crawl or a reindexing settles (the IMAP socket and fetch
\* have timeouts), main calls start, and the poll timer fires once it is set.
Fairness ==
  /\ \A k \in Crawls : WF_vars(Step(k))
  /\ \A m \in Mail : WF_vars(ReindexSettles(m))
  /\ WF_vars(StartUp) /\ WF_vars(Poll)

FairSpec == Spec /\ Fairness

-----------------------------------------------------------------------------
(* Properties                                                              *)

TypeOK ==
  /\ arrived \in [Folders -> 0..MaxUid]
  /\ emails \subseteq Mail /\ chunked \subseteq emails
  /\ cursor \in [Folders -> 0..MaxUid]
  /\ active \in BOOLEAN /\ abort \in BOOLEAN /\ stopped \in BOOLEAN
  /\ failures \in 0..(Limit + 1)
  /\ startup \in {"due", "polling", "over"} \cup Crawls
  /\ crawl \in [Crawls -> CrawlState]
  /\ reindexing \subseteq Mail
  /\ upsets \in 0..MaxUpsets
  /\ excused \subseteq Mail /\ missed \subseteq Mail

Covered(f, n) == \A u \in Uids : u <= n => <<f, u>> \in emails \cup excused

\* No checkpoint passes a mail that has no row: what is at or below last_uid is
\* never fetched again by an incremental crawl.  It holds however crawls
\* overlap (stop, then start), fail, are aborted or end with their batch; left
\* out are mails passed over as older than `since`, and mails a crawl in
\* progress had passed when the index was cleared under it.
NothingSkipped == \A f \in Folders : Covered(f, cursor[f])

\* NothingSkipped is not inductive: a crawl writes back, long after, what it
\* read or counted up to.  So IndexInv says the same of newestUid, and that the
\* fetch leaves no gap above it.
ReadsInOrder(k) ==
  Reading(k) =>
    /\ Covered(crawl[k].at, crawl[k].newest)
    /\ crawl[k].next <= crawl[k].newest + 1
    /\ crawl[k].pc = "embedding" => crawl[k].next <= crawl[k].upto

IndexInv ==
  /\ TypeOK
  /\ NothingSkipped
  /\ \A k \in Crawls : ReadsInOrder(k)

\* An email without chunks cannot be found by a search, and no crawl embeds it
\* again, not even a full one, since its row is there.  So such a row is being
\* embedded by a crawl, or that failed or died with the process and no reindexing
\* has made up for it: no order of overlapping crawls, clears and reindexings
\* leaves another behind.
BareIsOwned ==
  \A m \in emails \ chunked :
    \/ m \in missed
    \/ \E k \in Crawls : crawl[k].pc = "embedding" /\ Current(k) = m

\* imap_clear_index: "Clear all indexed IMAP data and crawl checkpoints so
\* future crawls re-ingest from scratch": while no crawl is in progress,
\* what has no row is beyond the checkpoint.
ClearedIsReingested ==
  (\A k \in Crawls : crawl[k].pc = "idle") =>
    \A m \in Mail : m[2] <= cursor[m[1]] => m \in emails

\* Crawling by itself has ended until the process restarts: too many connection
\* failures have stopped it, or start() never came to the timer.
GivenUp == stopped \/ startup = "over"

\* Every mail that arrives is indexed in the end, though crawls are stopped,
\* cleared, fail and restart on the way (finitely often), and end with their
\* batch: unless it was left out, its embedding failed, or crawling is given up
\* and no restart begins it again.
EverythingIndexed ==
  \/ []<>GivenUp
  \/ \A m \in Mail : m[2] <= arrived[m[1]] ~> m \in chunked \cup excused \cup missed

\* Every row is accounted for, and every checkpoint.
CrawlCorrect == IndexInv /\ BareIsOwned
=============================================================================
