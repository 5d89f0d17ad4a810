------------------------------- MODULE MCViews -------------------------------
(***************************************************************************)
(* Model checking, for safety alone, the scheduler's job table, what its   *)
(* executions ask of the gateway, and the panels and drawers of the web    *)
(* interface, which share no variable: every behaviour is one of the       *)
(* component that "focus" names, the others stay as they began.            *)
(***************************************************************************)
EXTENDS Scheduler, ScheduledRuns, ImapPanel, AttachmentViews, ContentViews, MemoryPanel, TLC

VARIABLE focus

ViewsInit ==
  /\ focus \in {"jobs", "runs", "imap", "attachments", "content", "memories", "estimates"}
  /\ Init /\ ScheduledRunsInit /\ ImapPanelInit /\ EstimatesInit /\ AttachmentViewsInit /\ ContentViewsInit /\ MemoryPanelInit
  /\ focus # "runs" => ~observed
  /\ focus # "attachments" => indexedNow = {}
  /\ focus # "content" => messages = <<>>
  /\ savedMemos = Memos

ViewsNext ==
  /\ UNCHANGED focus
  /\ (focus = "jobs" /\ Next) \/ (focus # "jobs" /\ UNCHANGED vars)
  /\ (focus = "runs" /\ ScheduledRunsNext) \/ (focus # "runs" /\ UNCHANGED runVars)
  /\ (focus = "imap" /\ ImapPanelNext) \/ (focus # "imap" /\ UNCHANGED sectionVars)
  /\ (focus = "estimates" /\ EstimatesNext) \/ (focus # "estimates" /\ UNCHANGED estimateVars)
  /\ (focus = "attachments" /\ AttachmentViewsNext) \/ (focus # "attachments" /\ UNCHANGED listVars)
  /\ (focus = "content" /\ ContentViewsNext) \/ (focus # "content" /\ UNCHANGED viewVars)
  /\ (focus = "memories" /\ MemoryPanelNext) \/ (focus # "memories" /\ UNCHANGED memoVars)

ViewsSpec == ViewsInit /\ [][ViewsNext]_<<focus, vars, runVars, sectionVars, estimateVars, listVars, viewVars, memoVars>>

\* A scheduled run is shown call by call and its answer or failure told to the
\* channel it came from; and what each of the panels and drawers promises: no
\* button stays disabled, an estimate is recent, a form is saved as what it was loaded from, an index is
\* cleared behind a stop, what is selected is what is shown and what the page's
\* address names, and loads, previews and deletions end.
ViewsCorrect == ScheduledRunsCorrect /\ ImapPanelCorrect /\ AttachmentViewsCorrect /\ ContentViewsCorrect
                /\ MemoryPanelCorrect

\* The callers of the scheduler's tools are interchangeable, and so are the
\* definitions of its tasks.
Symmetry == Permutations(Callers) \cup Permutations(Defs)
=============================================================================
