----------------------------- MODULE MemoryPanel -----------------------------
(***************************************************************************)
(* The panel in which a user lists, searches, edits and deletes memories   *)
(* (MemoryAdmin, useMemoryAdmin), against the memory tool, whose memories  *)
(* the agents delete too.  Requests overlap, are answered in any order,    *)
(* and fail, with or without what was asked having been done.              *)
(*                                                                         *)
(* A form is known by the memory it was filled from; what the user writes  *)
(* into it, its formatted preview and the texts of errors are left out; a  *)
(* tool that is there is taken to have all its operations.                 *)
(* An effect runs in the step that changes what it depends on.             *)
(***************************************************************************)
EXTENDS Naturals, FiniteSetsExt

CONSTANTS
  Memos,      \* the memories there may be
  MemoSlots   \* bound: requests under way, numbered

ASSUME MemoryPanelAssumption == "none" \notin Memos /\ MemoSlots \subseteq Nat

VARIABLES
  savedMemos, \* the memories of the tool
  memoPanel,  \* the state of the panel
  asks,       \* the requests under way
  gone        \* history: memories whose deletion the panel was told of, and had no
              \* answer since to a request it had made before

memoVars == <<savedMemos, memoPanel, asks, gone>>

NoMemo == "none"
NoAsk == [kind |-> "none", of |-> NoMemo, form |-> NoMemo, at |-> "free", got |-> {}, since |-> {}]
NotSearched == {NoMemo}
ClosedMemories == [open |-> FALSE, available |-> FALSE, loading |-> {}, memories |-> {},
                   results |-> NotSearched, selected |-> NoMemo, form |-> NoMemo, target |-> NoMemo]

MemoryPanelInit ==
  /\ savedMemos \in SUBSET Memos
  /\ memoPanel = ClosedMemories
  /\ asks = [s \in MemoSlots |-> NoAsk]
  /\ gone = {}

LoadingKind(kind) == IF kind = "health, then list" THEN "health" ELSE kind
FreeSlots == {s \in MemoSlots : asks[s].at = "free"}
NewAsk(kind, of, form) == [NoAsk EXCEPT !.kind = kind, !.of = of, !.form = form, !.at = "asked"]
AsksWith(s, ask) == [asks EXCEPT ![s] = ask]
Loading(p, kind) == [p EXCEPT !.loading = @ \cup {kind}]

-----------------------------------------------------------------------------
(* What the user does; the dialog in which a deletion is confirmed is modal *)

\* The panel becomes p, with a request made.
Asks(p, kind, of, form) ==
  /\ FreeSlots # {}
  /\ asks' = AsksWith(Min(FreeSlots), NewAsk(kind, of, form))
  /\ memoPanel' = Loading(p, LoadingKind(kind))
  /\ UNCHANGED <<savedMemos, gone>>

\* The panel is mounted while it is open, and begins with nothing selected; the
\* session's token stays.
OpenMemories == ~memoPanel.open /\ Asks([ClosedMemories EXCEPT !.open = TRUE], "health, then list", NoMemo, NoMemo)
CloseMemories ==
  /\ memoPanel.open
  /\ memoPanel' = ClosedMemories /\ asks' = [s \in MemoSlots |-> NoAsk] /\ gone' = {}
  /\ savedMemos' = savedMemos

MemoriesUsable == memoPanel.open /\ memoPanel.target = NoMemo
ListAsked(p) == [p EXCEPT !.results = NotSearched]
RefreshMemories ==
  /\ MemoriesUsable
  /\ IF ~memoPanel.available THEN Asks(memoPanel, "health", NoMemo, NoMemo)
     ELSE \E s, t \in FreeSlots :
       /\ s # t /\ s = Min(FreeSlots) /\ t = Min(FreeSlots \ {s})
       /\ asks' = [asks EXCEPT ![s] = NewAsk("health", NoMemo, NoMemo), ![t] = NewAsk("list", NoMemo, NoMemo)]
       /\ memoPanel' = Loading(Loading(ListAsked(memoPanel), "health"), "list")
       /\ UNCHANGED <<savedMemos, gone>>

VisibleMemories(p) == IF p.results = NotSearched THEN p.memories ELSE p.results
SearchNothing == MemoriesUsable /\ memoPanel.available /\ Asks(ListAsked(memoPanel), "list", NoMemo, NoMemo)
Search == MemoriesUsable /\ memoPanel.available /\ Asks(memoPanel, "search", NoMemo, NoMemo)
SelectMemory(m) == MemoriesUsable /\ memoPanel.available /\ m \in VisibleMemories(memoPanel) /\ Asks(memoPanel, "detail", m, NoMemo)

SaveMemory ==
  /\ MemoriesUsable /\ memoPanel.available /\ "save" \notin memoPanel.loading
  /\ memoPanel.selected # NoMemo /\ memoPanel.form # NoMemo
  /\ Asks(memoPanel, "save", memoPanel.selected, memoPanel.form)

AskToForget(m) ==
  /\ MemoriesUsable /\ memoPanel.available /\ m \in VisibleMemories(memoPanel)
  /\ memoPanel' = [memoPanel EXCEPT !.target = m]
  /\ UNCHANGED <<savedMemos, asks, gone>>
DismissForget ==
  /\ memoPanel.target # NoMemo /\ memoPanel' = [memoPanel EXCEPT !.target = NoMemo]
  /\ UNCHANGED <<savedMemos, asks, gone>>
ConfirmForget ==
  /\ memoPanel.target # NoMemo /\ "delete" \notin memoPanel.loading
  /\ Asks(memoPanel, "delete", memoPanel.target, memoPanel.selected)

-----------------------------------------------------------------------------
(* The tool and the answers                                                *)

\* What a request does and is answered; whether the tool is there is asked anew.
MemoryServed(s) ==
  /\ asks[s].at = "asked" /\ LoadingKind(asks[s].kind) # "health"
  /\ LET m == asks[s].of
         can == asks[s].kind \in {"detail", "save", "delete"} => m \in savedMemos
         done == IF asks[s].kind = "delete" THEN savedMemos \ {m} ELSE savedMemos
         answers == CASE asks[s].kind = "search" -> SUBSET savedMemos
                      [] asks[s].kind = "list" -> {savedMemos}
                      [] OTHER -> {{m}}
     IN /\ can
        /\ savedMemos' = done
        /\ asks' \in {[asks EXCEPT ![s].at = "done", ![s].got = g] : g \in answers}
  /\ UNCHANGED <<memoPanel, gone>>

\* The agents delete memories of their own.
AgentForgets(m) == m \in savedMemos /\ savedMemos' = savedMemos \ {m} /\ UNCHANGED <<memoPanel, asks, gone>>

\* What is selected fills the form.
SelectedOnce(p, m) == [p EXCEPT !.selected = m, !.form = IF @ = NoMemo THEN m ELSE @]
Selected(p, m) == [p EXCEPT !.selected = m, !.form = m]

\* deleteMemory, and what was selected when the deletion was confirmed.
DeletedFromList(p, m, selected) ==
  [p EXCEPT !.memories = @ \ {m}, !.target = NoMemo,
            !.selected = IF @ = m THEN NoMemo ELSE @, !.form = IF selected = m THEN NoMemo ELSE @]
Deleted(p, m, selected) ==
  [p EXCEPT !.memories = @ \ {m}, !.results = @ \ {m}, !.target = NoMemo,
            !.selected = IF @ = m THEN NoMemo ELSE @, !.form = IF selected = m THEN NoMemo ELSE @]

KeepsLoading(p, kind) == p
Ended(p, kind) == [p EXCEPT !.loading = @ \ {kind}]
\* Whether what was asked has been done or not.
HearFailure(s) ==
  /\ asks[s].at # "free"
  /\ asks' = AsksWith(s, NoAsk)
  /\ LET p == Ended(memoPanel, LoadingKind(asks[s].kind))
     IN memoPanel' = IF LoadingKind(asks[s].kind) = "health" THEN [p EXCEPT !.available = FALSE] ELSE p
  /\ UNCHANGED <<savedMemos, gone>>

HearHealth(s) ==
  /\ asks[s].at = "asked" /\ LoadingKind(asks[s].kind) = "health"
  /\ LET p == [Ended(memoPanel, "health") EXCEPT !.available = TRUE] IN
     IF asks[s].kind = "health" THEN asks' = AsksWith(s, NoAsk) /\ memoPanel' = p
     ELSE /\ asks' = AsksWith(s, NewAsk("list", NoMemo, NoMemo))
          /\ memoPanel' = Loading(ListAsked(p), "list")
  /\ UNCHANGED <<savedMemos, gone>>

HearMemories(s) ==
  /\ asks[s].at = "done"
  /\ LET p == Ended(memoPanel, asks[s].kind)  m == asks[s].of IN
     memoPanel' = CASE asks[s].kind = "list" -> [p EXCEPT !.memories = asks[s].got]
                [] asks[s].kind = "search" -> [p EXCEPT !.results = asks[s].got]
                [] asks[s].kind = "delete" -> Deleted(p, m, asks[s].form)
                [] OTHER -> Selected(p, m)
  /\ LET deleted == IF asks[s].kind = "delete" THEN {asks[s].of} ELSE {} IN
     /\ gone' = (gone \ asks[s].since) \cup deleted
     /\ asks' = [t \in MemoSlots |-> IF t = s THEN NoAsk
                                     ELSE IF asks[t].at = "free" THEN NoAsk ELSE [asks[t] EXCEPT !.since = @ \cup deleted]]
  /\ UNCHANGED savedMemos

MemoryPanelNext ==
  \/ OpenMemories \/ CloseMemories \/ RefreshMemories \/ SearchNothing \/ Search
  \/ SaveMemory \/ DismissForget \/ ConfirmForget
  \/ \E m \in Memos : SelectMemory(m) \/ AskToForget(m) \/ AgentForgets(m)
  \/ \E s \in MemoSlots : MemoryServed(s) \/ HearFailure(s) \/ HearHealth(s) \/ HearMemories(s)

MemoryPanelSpec == MemoryPanelInit /\ [][MemoryPanelNext]_memoVars

-----------------------------------------------------------------------------

MemoryPanelTypeOK ==
  /\ savedMemos \subseteq Memos
  /\ memoPanel.memories \subseteq Memos /\ memoPanel.results \subseteq Memos \cup NotSearched
  /\ {memoPanel.selected, memoPanel.form, memoPanel.target} \subseteq Memos \cup {NoMemo}

\* What is saved under a memory is the form of that memory, in whatever order the
\* answers come that select another.
SavesOwnForm == \A s \in MemoSlots : asks[s].kind = "save" => asks[s].form = asks[s].of

\* A memory whose deletion the panel was told of is neither listed, found nor
\* selected, unless by an answer that was asked for before.
DeletedIsGone ==
  \A m \in gone : m \notin memoPanel.memories \cup memoPanel.results \cup {memoPanel.selected}

\* What spins waits for an answer: the buttons are never disabled for good.
SpinnersEnd ==
  \A kind \in memoPanel.loading : \E s \in MemoSlots : LoadingKind(asks[s].kind) = kind

MemoryPanelCorrect == MemoryPanelTypeOK /\ SavesOwnForm /\ DeletedIsGone /\ SpinnersEnd
=============================================================================
