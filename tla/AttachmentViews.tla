---------------------------- MODULE AttachmentViews ----------------------------
(***************************************************************************)
(* The browser of a mailbox's indexed attachments                          *)
(* (ImapAttachmentBrowserDrawer) against the tool that lists them in pages,*)
(* the newest first, and gives one of them (ImapIndexService:              *)
(* listAttachments, getAttachment), while attachments are indexed and the  *)
(* index is cleared.  An effect runs in the step that changes what it      *)
(* depends on: the loader of the list depends on the attachment selected,  *)
(* so that each selection loads the list again.  An answer is decided when *)
(* it is heard; a request goes with the selection it was made under.       *)
(***************************************************************************)
EXTENDS Naturals, SequencesExt

CONSTANTS
  Attachments,  \* numbers, later ones indexed later
  PageSize,     \* PAGE_SIZE
  MaxRequests   \* bound: requests under way at a time

ASSUME AttachmentViewsAssumption ==
  Attachments \subseteq Nat \ {0} /\ IsFiniteSet(Attachments) /\ PageSize \in Nat \ {0}

VARIABLES
  indexedNow,   \* the attachments in the tool's index
  list,      \* the drawer's state
  lookups,     \* the requests under way, in the order they were made
  outOfOrder  \* history: an answer came before one to an earlier request of its kind

listVars == <<indexedNow, list, lookups, outOfOrder>>

NoAttachment == 0
Emptied == [open |-> FALSE, offset |-> 0, items |-> <<>>, total |-> 0,
            selected |-> NoAttachment, detail |-> NoAttachment, loadingList |-> FALSE, loadingDetail |-> FALSE]

ListRequest(v) == [kind |-> "list", offset |-> v.offset, of |-> v.selected]
DetailRequest(v) == [kind |-> "detail", offset |-> 0, of |-> v.selected]

AttachmentViewsInit ==
  /\ indexedNow \in SUBSET Attachments
  /\ list = Emptied
  /\ lookups = <<>>
  /\ outOfOrder = FALSE

-----------------------------------------------------------------------------
(* The drawer                                                              *)

\* The effects: the list is loaded for another offset or selection, and the
\* detail for another selection.
DetailOfPage(v) ==
  (IF v.open /\ (~list.open \/ v.offset # list.offset \/ v.selected # list.selected) THEN <<ListRequest(v)>> ELSE <<>>)
  \o (IF v.open /\ v.selected # NoAttachment /\ list.items # v.items THEN <<DetailRequest(v)>> ELSE <<>>)
AttachmentLoads(v) ==
  LET opened == v.open /\ ~list.open IN
  (IF v.open /\ (opened \/ v.offset # list.offset \/ v.selected # list.selected) THEN <<ListRequest(v)>> ELSE <<>>)
  \o (IF v.open /\ v.selected # NoAttachment /\ (opened \/ v.selected # list.selected) THEN <<DetailRequest(v)>> ELSE <<>>)

\* The drawer becomes v; before are the requests under way before the effects.
Redrawn(v, before) ==
  LET loads == AttachmentLoads(v)  kinds == {loads[i].kind : i \in 1..Len(loads)} IN
  /\ lookups' = before \o loads
  /\ Len(lookups') <= MaxRequests
  /\ list' = [v EXCEPT !.loadingList = @ \/ "list" \in kinds, !.loadingDetail = @ \/ "detail" \in kinds]

\* It is mounted while it is open.
OpenAttachments == ~list.open /\ Redrawn([Emptied EXCEPT !.open = TRUE], lookups) /\ UNCHANGED <<indexedNow, outOfOrder>>
CloseAttachments ==
  /\ list.open
  /\ list' = Emptied /\ lookups' = <<>> /\ outOfOrder' = FALSE
  /\ UNCHANGED indexedNow

RefreshList ==
  /\ list.open /\ ~list.loadingList
  /\ Redrawn([list EXCEPT !.loadingList = TRUE], Append(lookups, ListRequest(list)))
  /\ UNCHANGED <<indexedNow, outOfOrder>>
ChooseAttachment(a) ==
  /\ list.open /\ Contains(list.items, a)
  /\ Redrawn([list EXCEPT !.selected = a], lookups)
  /\ UNCHANGED <<indexedNow, outOfOrder>>
TurnPage ==
  /\ list.open /\ ~list.loadingList
  /\ \/ list.offset > 0 /\ Redrawn([list EXCEPT !.offset = IF @ < PageSize THEN 0 ELSE @ - PageSize], lookups)
     \/ list.offset + PageSize < list.total /\ Redrawn([list EXCEPT !.offset = @ + PageSize], lookups)
  /\ UNCHANGED <<indexedNow, outOfOrder>>

-----------------------------------------------------------------------------
(* The index, and the answers                                              *)

IndexOne(a) ==
  /\ a \notin indexedNow /\ \A b \in indexedNow : b < a
  /\ indexedNow' = indexedNow \cup {a}
  /\ UNCHANGED <<list, lookups, outOfOrder>>
ClearAll == indexedNow # {} /\ indexedNow' = {} /\ UNCHANGED <<list, lookups, outOfOrder>>

\* A page of the list, the newest first.
Newest(n) == CHOOSE a \in indexedNow : Cardinality({b \in indexedNow : b >= a}) = n
PageAt(offset) ==
  LET left == Cardinality(indexedNow) - offset IN
  [i \in 1..(IF left < PageSize THEN left ELSE PageSize) |-> Newest(offset + i)]

\* The attachment selected stays so while the page has it, else the first is.
SelectedStays(page, a) == IF page = <<>> THEN NoAttachment ELSE IF a # NoAttachment THEN a ELSE Head(page)
SelectedIn(page, a) ==
  IF page = <<>> THEN NoAttachment ELSE IF Contains(page, a) THEN a ELSE Head(page)

LoadingStays(v, r, ok) == [v EXCEPT !.items = IF ok THEN PageAt(r.offset) ELSE <<>>]
PageListed(v, r, ok) ==
  LET page == PageAt(r.offset)  none == ~ok \/ page = <<>> IN
  [v EXCEPT !.items = IF ok THEN page ELSE <<>>, !.total = IF ok THEN Cardinality(indexedNow) ELSE 0,
            !.selected = IF ok THEN SelectedIn(page, r.of) ELSE NoAttachment,
            !.detail = IF none THEN NoAttachment ELSE @,
            !.loadingList = FALSE]
\* One attachment's detail, which a cleared index has no more.
GetAttachment(a) == IF a \in indexedNow THEN a ELSE NoAttachment
Detailed(v, r, ok) ==
  [v EXCEPT !.detail = IF ok THEN GetAttachment(r.of) ELSE NoAttachment, !.loadingDetail = FALSE]

AttachmentAnswer(i, ok) ==
  LET r == lookups[i] IN
  /\ Redrawn(IF r.kind = "list" THEN PageListed(list, r, ok) ELSE Detailed(list, r, ok), RemoveAt(lookups, i))
  /\ outOfOrder' = (outOfOrder \/ \E j \in 1..(i - 1) : lookups[j].kind = r.kind)
  /\ UNCHANGED indexedNow

AttachmentViewsNext ==
  \/ OpenAttachments \/ CloseAttachments \/ RefreshList \/ TurnPage \/ ClearAll
  \/ \E a \in Attachments : ChooseAttachment(a) \/ IndexOne(a)
  \/ \E i \in 1..Len(lookups), ok \in BOOLEAN : AttachmentAnswer(i, ok)

AttachmentViewsSpec == AttachmentViewsInit /\ [][AttachmentViewsNext]_listVars

-----------------------------------------------------------------------------

AttachmentViewsTypeOK ==
  /\ indexedNow \subseteq Attachments
  /\ Len(list.items) <= PageSize /\ list.total <= Cardinality(Attachments)
  /\ list.selected \in Attachments \cup {NoAttachment} /\ list.detail \in Attachments \cup {NoAttachment}

\* Whatever pages and selections the answers were asked under, and in whatever
\* order they come, the attachment selected is one of the page that is shown.
SelectionShown == list.selected = NoAttachment \/ Contains(list.items, list.selected)

\* When answers come in the order they were asked for and all have come, the
\* detail beside a selection is that of the attachment selected.
DetailOfSelection ==
  lookups = <<>> /\ ~outOfOrder /\ list.selected # NoAttachment => list.detail \in {list.selected, NoAttachment}

\* All have come: nothing is said to be loading.
LoadsEnd ==
  /\ list.loadingList => \E i \in 1..Len(lookups) : lookups[i].kind = "list"
  /\ list.loadingDetail => \E i \in 1..Len(lookups) : lookups[i].kind = "detail"

AttachmentViewsCorrect == AttachmentViewsTypeOK /\ SelectionShown /\ DetailOfSelection /\ LoadsEnd
=============================================================================
