--------------------------- MODULE MailAttachments ---------------------------
(***************************************************************************)
(* The attachments of indexed mails (ImapIndexService): once a mail is     *)
(* embedded its attachments are queued in memory; a few tasks at a time    *)
(* extract the text, embed it and store chunks and Markdown, and none      *)
(* begins while a mail is being embedded.  Rows, chunks and Markdown go    *)
(* with the mail when the index is cleared, but queue and tasks do not.    *)
(*                                                                         *)
(* A mail has one attachment, and is named by it.  The processors and the  *)
(* embedding model are external: they answer or fail.  What crawls do is   *)
(* the subject of ImapCrawl; here a mail is ingested again once it was     *)
(* cleared.                                                                *)
(***************************************************************************)
EXTENDS Naturals, Sequences, FiniteSets

CONSTANTS
  Attached,     \* the attachments
  Extractable,  \* those with a MIME type, a size and a processor that will do
  Parallelism,  \* settings.attachment.parallelism
  MaxClears     \* bound: how often the index is cleared

\* "none" stands for no attachment.
ASSUME AttachmentsAssumption == Parallelism \in Nat /\ "none" \notin Attached

VARIABLES
  mails,      \* the mails with a row
  embedding,  \* the mails that are being embedded (activeEmailIndexingTasks)
  queue,      \* attachmentQueue
  slot,       \* the tasks underway (activeAttachmentTasks)
  spinning,   \* drainAttachmentQueue waits for a turn of the event loop
  status,     \* extraction_status of each attachment, or "none" without a row
  indexed,    \* the attachments with chunks
  markdown,   \* those with Markdown
  clears,     \* how often the index was cleared
  lost        \* history: attachments a crash took the task of

attachmentVars == <<mails, embedding, queue, slot, spinning, status, indexed, markdown,
                    clears, lost>>

Slots == 1..Parallelism
NoTask == [att |-> "none", phase |-> "none"]
Free == {i \in Slots : slot[i] = NoTask}
Busy(a) == \E i \in Slots : slot[i].att = a /\ slot[i].phase \in {"extracting", "embedding"}

-----------------------------------------------------------------------------
(* The queue                                                               *)

\* Each free slot takes the next of the queue.
Started(q, free) == [i \in free |->
  LET n == Cardinality({j \in free : j <= i}) IN IF n <= Len(q) THEN q[n] ELSE "none"]

\* The synchronous beginning of processAttachmentTask: the row is written, if the
\* mail is still there, and the task goes on if there is something to extract.
Begun(a) ==
  IF a = "none" THEN NoTask
  ELSE [att |-> a, phase |-> IF a \in mails /\ a \in Extractable THEN "extracting" ELSE "over"]

\* Variant for mutation: attachments do not wait for mails.
DrainAtOnce(q, free, busy) ==
  LET start == Started(q, free) IN
  /\ slot' = [i \in Slots |-> IF i \in free THEN Begun(start[i]) ELSE slot[i]]
  /\ queue' = SubSeq(q, 1 + Cardinality({i \in free : start[i] # "none"}), Len(q))
  /\ status' = [a \in Attached |->
       IF a \in mails /\ \E i \in free : start[i] = a
         THEN IF a \in Extractable THEN "processing" ELSE "skipped" ELSE status[a]]
  /\ markdown' = markdown \ {a \in Attached \ Extractable : \E i \in free : start[i] = a}
  /\ spinning' = FALSE

\* drainAttachmentQueue, with the queue q and the slots that are free: while a
\* mail is being embedded it is tried again later, else tasks fill the slots.
Drain(q, free, busy) ==
  IF busy
    THEN /\ spinning' = TRUE
         /\ queue' = q
         /\ slot' = [i \in Slots |-> IF i \in free THEN NoTask ELSE slot[i]]
         /\ UNCHANGED <<status, markdown>>
    ELSE LET start == Started(q, free) IN
         /\ slot' = [i \in Slots |-> IF i \in free THEN Begun(start[i]) ELSE slot[i]]
         /\ queue' = SubSeq(q, 1 + Cardinality({i \in free : start[i] # "none"}), Len(q))
         /\ status' = [a \in Attached |->
              IF a \in mails /\ \E i \in free : start[i] = a
                THEN IF a \in Extractable THEN "processing" ELSE "skipped" ELSE status[a]]
         /\ markdown' = markdown \ {a \in Attached \ Extractable : \E i \in free : start[i] = a}
         /\ spinning' = FALSE

\* The setImmediate of a deferred drain.
DrainAgain ==
  /\ spinning
  /\ Drain(queue, Free, embedding # {})
  /\ UNCHANGED <<mails, embedding, indexed, clears, lost>>

-----------------------------------------------------------------------------
(* Mails                                                                   *)

\* upsertEmail, and the start of reindexEmail.
Ingest(a) ==
  /\ a \notin mails /\ a \notin embedding
  /\ mails' = mails \cup {a}
  /\ embedding' = embedding \cup {a}
  /\ UNCHANGED <<queue, slot, spinning, status, indexed, markdown, clears, lost>>

\* reindexEmail goes on: its chunks are stored, the queue drained, and the
\* attachment queued.
MailEmbedded(a) ==
  /\ a \in embedding
  /\ a \in mails
  /\ embedding' = embedding \ {a}
  /\ Drain(Append(queue, a), Free, embedding' # {})
  /\ UNCHANGED <<mails, indexed, clears, lost>>

\* Embedding fails, or the mail has been cleared: its attachment is not queued.
MailFails(a) ==
  /\ a \in embedding
  /\ embedding' = embedding \ {a}
  /\ UNCHANGED <<mails, queue, slot, spinning, status, indexed, markdown, clears, lost>>

\* clearIndex
ClearMails ==
  /\ clears < MaxClears
  /\ clears' = clears + 1
  /\ mails' = {}
  /\ status' = [a \in Attached |-> "none"]
  /\ indexed' = {}
  /\ markdown' = {}
  /\ UNCHANGED <<embedding, queue, slot, spinning, lost>>

-----------------------------------------------------------------------------
(* processAttachmentTask, once extraction is awaited                       *)

\* markAttachmentStatus: an UPDATE of the row, if there is one.
Mark(a, s) == status' = [status EXCEPT ![a] = IF @ = "none" THEN @ ELSE s]

Over(i) == slot' = [slot EXCEPT ![i].phase = "over"]

\* Variant for mutation: an error is only reported.
FailQuietly(i) == Over(i) /\ UNCHANGED <<status, markdown, indexed>>

\* The catch block.
Fail(i) ==
  /\ Over(i)
  /\ Mark(slot[i].att, "failed")
  /\ markdown' = markdown \ {slot[i].att}
  /\ UNCHANGED indexed

Extracted(i) ==
  /\ slot[i].phase = "extracting"
  /\ \/ /\ slot' = [slot EXCEPT ![i].phase = "embedding"]
        /\ UNCHANGED <<status, indexed, markdown>>
     \/ /\ Over(i)
        /\ Mark(slot[i].att, "skipped")
        /\ indexed' = indexed \ {slot[i].att}
        /\ markdown' = markdown \ {slot[i].att}
     \/ Fail(i)
  /\ UNCHANGED <<mails, embedding, queue, spinning, clears, lost>>

\* Variant for mutation: the chunks do not refer to the attachment's row.
StoreUnchecked(i) ==
  LET a == slot[i].att IN
  /\ Over(i)
  /\ Mark(a, "indexed")
  /\ indexed' = indexed \cup {a}
  /\ markdown' \in {markdown \cup {a}, markdown \ {a}}

\* The chunks are stored, unless the row is gone, and so is the Markdown, if any.
Store(i) ==
  LET a == slot[i].att IN
  IF status[a] = "none" THEN Fail(i)
  ELSE /\ Over(i)
       /\ Mark(a, "indexed")
       /\ indexed' = indexed \cup {a}
       /\ markdown' \in {markdown \cup {a}, markdown \ {a}}

TextEmbedded(i) ==
  /\ slot[i].phase = "embedding"
  /\ Store(i) \/ Fail(i)
  /\ UNCHANGED <<mails, embedding, queue, spinning, clears, lost>>

\* Variant for mutation: the end of a task starts no other.
TaskJustEnds(i) ==
  /\ slot[i].phase = "over"
  /\ slot' = [slot EXCEPT ![i] = NoTask]
  /\ UNCHANGED <<mails, embedding, queue, spinning, status, indexed, markdown, clears, lost>>

\* The finally block of the drain.
TaskEnds(i) ==
  /\ slot[i].phase = "over"
  /\ Drain(queue, Free \cup {i}, embedding # {})
  /\ UNCHANGED <<mails, embedding, indexed, clears, lost>>

\* Queue and tasks are gone; their attachments count as queued or processing, or
\* have no row, and nothing takes them up again.
AttachmentCrash ==
  /\ queue # <<>> \/ Free # Slots
  /\ embedding' = {}
  /\ queue' = <<>>
  /\ slot' = [i \in Slots |-> NoTask]
  /\ spinning' = FALSE
  /\ lost' = lost \cup {queue[n] : n \in 1..Len(queue)}
                  \cup {a \in Attached : \E i \in Slots : slot[i].att = a}
  /\ UNCHANGED <<mails, status, indexed, markdown, clears>>

-----------------------------------------------------------------------------
AttachmentsInit ==
  /\ mails = {}
  /\ embedding = {}
  /\ queue = <<>>
  /\ slot = [i \in Slots |-> NoTask]
  /\ spinning = FALSE
  /\ status = [a \in Attached |-> "none"]
  /\ indexed = {}
  /\ markdown = {}
  /\ clears = 0
  /\ lost = {}

TaskProceeds(i) == Extracted(i) \/ TextEmbedded(i) \/ TaskEnds(i)

AttachmentsNext ==
  \/ \E a \in Attached : Ingest(a) \/ MailEmbedded(a) \/ MailFails(a)
  \/ \E i \in Slots : TaskProceeds(i)
  \/ DrainAgain \/ ClearMails \/ AttachmentCrash

\* Awaits settle, and the event loop turns.
AttachmentsFair ==
  /\ WF_attachmentVars(DrainAgain)
  /\ \A a \in Attached : WF_attachmentVars(MailEmbedded(a) \/ MailFails(a))
  /\ \A i \in Slots : WF_attachmentVars(TaskProceeds(i))

AttachmentsSpec == AttachmentsInit /\ [][AttachmentsNext]_attachmentVars

-----------------------------------------------------------------------------
(* Properties                                                              *)

AttachmentsTypeOK ==
  /\ mails \subseteq Attached /\ embedding \subseteq Attached
  /\ queue \in Seq(Attached)
  /\ slot \in [Slots -> {NoTask} \cup [att : Attached, phase : {"extracting", "embedding", "over"}]]
  /\ status \in [Attached -> {"none", "processing", "skipped", "failed", "indexed"}]

\* Whatever tasks outlive a clear: chunks belong to an attachment with a row, it
\* to a mail with a row, and one that is called indexed has its chunks.
AttachmentsHang ==
  \A a \in Attached :
    /\ a \in indexed \cup markdown => status[a] # "none"
    /\ status[a] # "none" => a \in mails
    /\ status[a] = "indexed" => a \in indexed

\* What is called processing is being processed, as long as nothing crashed.
ProcessingIsOwned == \A a \in Attached : status[a] = "processing" => Busy(a) \/ a \in lost

\* Mails come first: no task begins while one is being embedded.
MailsFirst ==
  [][\A i \in Slots : slot[i].phase # "extracting" /\ slot'[i].phase = "extracting"
       => embedding' = {}]_attachmentVars

\* What is queued is taken up, whatever filled the slots or held it back.
QueueIsServed == \A a \in Attached : (queue # <<>> /\ Head(queue) = a) ~> queue = <<>> \/ Head(queue) # a

\* Attachments from the queue to their chunks.
AttachmentsCorrect == AttachmentsTypeOK /\ AttachmentsHang /\ ProcessingIsOwned
=============================================================================
