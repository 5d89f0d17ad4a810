----------------------------- MODULE ContentViews -----------------------------
(***************************************************************************)
(* What is shown of the stored content: the content drawer of the web      *)
(* interface (ContentBrowser, useContentBrowser, and App's content route), *)
(* the content and conversation routes of the gateway (AdminApi), and the  *)
(* items that a conversation's messages are shown with (extractMessages).  *)
(* How content comes to be stored, deleted and purged is ContentUpload;    *)
(* here an item only loses what it can be shown as.                        *)
(*                                                                         *)
(* The drawer's requests overlap and are answered in any order, or fail;   *)
(* an answer is decided when it is heard.                                  *)
(* Effects run in the step that changes what they depend on; an item which *)
(* they load twice is asked for once.  The drawer's list offers whatever   *)
(* may be stored: the user can name any reference.  A preview of text is   *)
(* shown as it came, that of other content through a URL for its bytes.    *)
(***************************************************************************)
EXTENDS Naturals, SequencesExt

CONSTANTS
  Refs,        \* references of content
  Previewed,   \* those of a type that is shown inline
  TextRefs,    \* those of them that are text
  Calls,       \* bound: requests of the drawer under way at a time
  MaxThread    \* bound: messages of the conversation

ASSUME ContentViewsAssumption ==
  TextRefs \subseteq Previewed /\ Previewed \subseteq Refs /\ "none" \notin Refs /\ MaxThread \in Nat

VARIABLES
  item,      \* each row of the store: "live", "deleted", or "gone" (expired or purged)
  drawer,    \* the drawer's state, and App's content route
  request,   \* what each request under way asks for
  urls,      \* object URLs that hold bytes in the browser
  messages   \* the messages of the conversation's last checkpoint

viewVars == <<item, drawer, request, urls, messages>>

NoRef == "none"
NoCall == [kind |-> "none"]
NoItem == [ref |-> NoRef, deleted |-> FALSE]
ClosedDrawer == [open |-> FALSE, route |-> NoRef, selected |-> NoRef, shown |-> NoItem, loading |-> FALSE,
         dialog |-> NoRef, deleting |-> FALSE, url |-> 0]

-----------------------------------------------------------------------------
(* The messages of a conversation                                          *)

RefLists == {s \in UNION {[1..n -> Refs] : n \in 0..2} : Len(s) < 2 \/ s[1] # s[2]}
Message == [role : {"ai", "tool"}, refs : RefLists] \cup {[role |-> "human", refs |-> <<>>]}
Threads == UNION {[1..n -> Message] : n \in 0..MaxThread}

\* The references among the first ones of s, each where it comes first.
Firsts(s) ==
  LET first[k \in 0..Len(s)] ==
        IF k = 0 THEN <<>>
        ELSE IF s[k] \in ToSet(first[k - 1]) THEN first[k - 1] ELSE Append(first[k - 1], s[k])
  IN first
Distinct(s) == Firsts(s)[Len(s)]

\* What getContentByRef finds of an item, and its bytes.
Found(r) == item[r] \in {"live", "deleted"}
Bytes(r) == item[r] = "live"

\* extractMessages: the references that tools' results have given since the last
\* message of the agent are kept for its next one, after those of its own.
KeptOn(state, message) ==
  IF message.role = "tool" THEN [pending |-> Distinct(state.pending \o message.refs), given |-> <<>>]
  ELSE IF message.role = "ai"
  THEN [state EXCEPT !.given = Distinct(message.refs \o state.pending)]
  ELSE [state EXCEPT !.given = <<>>]
Extract(state, message) ==
  IF message.role = "tool" THEN [pending |-> Distinct(state.pending \o message.refs), given |-> <<>>]
  ELSE IF message.role = "ai"
  THEN [pending |-> <<>>, given |-> Distinct(message.refs \o state.pending)]
  ELSE [state EXCEPT !.given = <<>>]

\* What is kept after each of the messages, and what it is given.
Given ==
  LET after[k \in 0..Len(messages)] ==
        IF k = 0 THEN [pending |-> <<>>, given |-> <<>>] ELSE Extract(after[k - 1], messages[k])
  IN after

\* resolveBrowserContentItems: those that are stored and not deleted.
StillFound(r) == Found(r)
StillThere(r) == Found(r) /\ item[r] # "deleted"
ContentItems(refs) ==
  LET left[k \in 0..Len(refs)] ==
        IF k = 0 THEN <<>>
        ELSE IF StillThere(refs[k]) THEN Append(left[k - 1], refs[k]) ELSE left[k - 1]
  IN left
ItemsShown(i) == ContentItems(Given[i].given)[Len(Given[i].given)]

-----------------------------------------------------------------------------
(* The drawer                                                              *)

Free == {c \in Calls : request[c] = NoCall}
ViewAsks(kind, r) == [kind |-> kind, ref |-> r]
ActiveRef == IF drawer.shown # NoItem THEN drawer.shown.ref ELSE drawer.selected

\* The next state of the drawer and its calls, before the effects: what is loaded.
Selecting(d, r) == [d EXCEPT !.selected = r, !.loading = TRUE]
Cleared(d) == [d EXCEPT !.selected = NoRef, !.shown = NoItem, !.loading = FALSE]

\* Both effects: the first with the drawer's opening and route, the second
\* whenever the item of the route is not the one selected.
OpeningEffect(d) ==
  LET turned == ~drawer.open \/ d.route # drawer.route IN
  IF ~d.open THEN d
  ELSE IF d.route = NoRef /\ turned THEN Cleared(d)
  ELSE IF d.route # NoRef /\ turned THEN Selecting(d, d.route)
  ELSE d
Effects(d) ==
  LET turned == ~drawer.open \/ d.route # drawer.route IN
  IF ~d.open THEN d
  ELSE IF d.route = NoRef /\ turned THEN Cleared(d)
  ELSE IF d.route # NoRef /\ (turned \/ d.route # d.selected) THEN Selecting(d, d.route)
  ELSE d

\* The effect of the preview's URL releases the one before.
ReleasedNever(url) == urls
Released(url) == IF url # drawer.url THEN urls \ {drawer.url} ELSE urls

\* The drawer becomes d, calls cs are what is under way, and loads what it selects.
DrawerBecomes(d, cs, loads) ==
  LET e == Effects(d)
      wanted == loads \cup (IF e # d /\ e.selected # NoRef THEN {e.selected} ELSE {})
      free == {c \in Calls : cs[c] = NoCall}
  IN
  /\ Cardinality(wanted) <= Cardinality(free)
  /\ drawer' = e
  /\ \E slots \in [wanted -> free] :
       /\ \A r, s \in wanted : r # s => slots[r] # slots[s]
       /\ request' = [c \in Calls |-> IF \E r \in wanted : slots[r] = c
                                   THEN ViewAsks("detail", CHOOSE r \in wanted : slots[r] = c) ELSE cs[c]]
  /\ UNCHANGED messages

\* The page's address leads to an item, to the drawer, or elsewhere (App).
Follow(r) == DrawerBecomes([drawer EXCEPT !.open = TRUE, !.route = r], request, {}) /\ UNCHANGED <<item, urls>>
CloseDrawer == drawer.open /\ DrawerBecomes([drawer EXCEPT !.open = FALSE, !.route = NoRef], request, {}) /\ UNCHANGED <<item, urls>>

Usable == drawer.open /\ drawer.dialog = NoRef
WithoutPreview(d) == [d EXCEPT !.url = 0]

Select(r) ==
  /\ Usable /\ ActiveRef = NoRef
  /\ DrawerBecomes([WithoutPreview(Selecting(drawer, r)) EXCEPT !.route = r], request, {r})
  /\ urls' = Released(0) /\ UNCHANGED item
Back ==
  /\ Usable /\ ActiveRef # NoRef
  /\ DrawerBecomes([WithoutPreview(Cleared(drawer)) EXCEPT !.route = NoRef], request, {})
  /\ urls' = Released(0) /\ UNCHANGED item
RefreshItem ==
  /\ Usable /\ ActiveRef # NoRef
  /\ DrawerBecomes(Selecting(drawer, ActiveRef), request, {ActiveRef})
  /\ UNCHANGED <<item, urls>>

ShowsDetails == Usable /\ ~drawer.loading /\ drawer.shown # NoItem

BeginCall(c, asks, d) == c \in Free /\ DrawerBecomes(d, [request EXCEPT ![c] = asks], {})

Preview(c) ==
  /\ ShowsDetails
  /\ BeginCall(c, ViewAsks("preview", ActiveRef), WithoutPreview(drawer))
  /\ urls' = Released(0) /\ UNCHANGED item

AskToDelete(r) ==
  /\ Usable /\ ~drawer.deleting
  /\ \/ ActiveRef = NoRef
     \/ ShowsDetails /\ r = drawer.shown.ref /\ ~drawer.shown.deleted
  /\ drawer' = [drawer EXCEPT !.dialog = r]
  /\ UNCHANGED <<item, request, urls, messages>>
CancelDelete ==
  /\ drawer.dialog # NoRef /\ ~drawer.deleting
  /\ drawer' = [drawer EXCEPT !.dialog = NoRef]
  /\ UNCHANGED <<item, request, urls, messages>>
ConfirmDelete(c) ==
  /\ drawer.dialog # NoRef /\ ~drawer.deleting
  /\ BeginCall(c, ViewAsks(IF drawer.dialog \in {drawer.selected, drawer.shown.ref} THEN "delete-shown" ELSE "delete", drawer.dialog),
           [drawer EXCEPT !.deleting = TRUE])
  /\ UNCHANGED <<item, urls>>

-----------------------------------------------------------------------------
(* Answers                                                                 *)

\* It expires, or is purged.
Ages(r) ==
  /\ item[r] # "gone" /\ item' = [item EXCEPT ![r] = "gone"]
  /\ UNCHANGED <<drawer, request, urls, messages>>

Under(c, kinds) == request[c] # NoCall /\ request[c].kind \in kinds
Done(c) == [request EXCEPT ![c] = NoCall]

\* loadContent, whichever item is selected by now.
Loaded(d, r, ok) ==
  IF ok THEN [d EXCEPT !.shown = [ref |-> r, deleted |-> item[r] = "deleted"], !.loading = FALSE]
  ELSE [d EXCEPT !.shown = NoItem, !.loading = FALSE]
HearDetail(c) ==
  /\ Under(c, {"detail"})
  /\ \E ok \in {FALSE, Found(request[c].ref)} : DrawerBecomes(Loaded(drawer, request[c].ref, ok), Done(c), {})
  /\ UNCHANGED <<item, urls>>

\* The bytes of a stored item of a type that is shown inline.
Previews(r) == Bytes(r) /\ r \in Previewed
HearPreview(c) ==
  /\ Under(c, {"preview"})
  /\ \/ DrawerBecomes(drawer, Done(c), {}) /\ urls' = urls
     \/ /\ Previews(request[c].ref) /\ request[c].ref \notin TextRefs
        /\ LET url == CHOOSE n \in 1..(Cardinality(urls) + 1) : n \notin urls IN
             DrawerBecomes([drawer EXCEPT !.url = url], Done(c), {}) /\ urls' = Released(url) \cup {url}
  /\ UNCHANGED item

\* After it deleted, the drawer loads its list, and the item if it was shown;
\* a request that fails may have deleted.
KeptDialog(d) == [d EXCEPT !.dialog = NoRef]
KeptDrawer(d) == [d EXCEPT !.deleting = FALSE, !.dialog = NoRef]
HearDelete(c) ==
  LET r == request[c].ref
      reload == request[c].kind = "delete-shown"
      after == [request EXCEPT ![c] = ViewAsks(IF reload THEN "reload-shown" ELSE "reload", r)]
      hidden == WithoutPreview(drawer)
      deleted == IF item[r] = "live" THEN [item EXCEPT ![r] = "deleted"] ELSE item
  IN
  /\ Under(c, {"delete", "delete-shown"})
  /\ \/ DrawerBecomes(KeptDrawer(drawer), Done(c), {}) /\ urls' = urls /\ item' \in {item, deleted}
     \/ DrawerBecomes(IF reload THEN Selecting(hidden, r) ELSE hidden, after, {}) /\ urls' = Released(0) /\ item' = deleted
HearReload(c) ==
  /\ Under(c, {"reload", "reload-shown"})
  /\ \E ok \in {FALSE, Found(request[c].ref)} :
       DrawerBecomes(KeptDrawer(IF request[c].kind = "reload-shown" THEN Loaded(drawer, request[c].ref, ok) ELSE drawer), Done(c), {})
  /\ UNCHANGED <<item, urls>>

\* Either the drawer is used, or a conversation is read.
ContentViewsInit ==
  /\ item \in [Refs -> {"live", "deleted", "gone"}]
  /\ drawer = ClosedDrawer
  /\ request = [c \in Calls |-> NoCall]
  /\ urls = {}
  /\ messages \in Threads
  /\ messages = <<>> => \A r \in Refs : item[r] = "live"

ContentViewsNext ==
  \/ /\ messages = <<>>
     /\ \/ CloseDrawer \/ Back \/ RefreshItem \/ CancelDelete \/ Follow(NoRef)
        \/ \E r \in Refs : Follow(r) \/ Select(r) \/ AskToDelete(r)
        \/ \E c \in Calls : \/ Preview(c) \/ ConfirmDelete(c)
                            \/ HearDetail(c) \/ HearPreview(c) \/ HearDelete(c) \/ HearReload(c)
  \/ \E r \in Refs : Ages(r)

ContentViewsSpec == ContentViewsInit /\ [][ContentViewsNext]_viewVars

-----------------------------------------------------------------------------

ContentViewsTypeOK ==
  /\ item \in [Refs -> {"live", "deleted", "gone"}]
  /\ drawer.loading \in BOOLEAN
  /\ {drawer.route, drawer.selected, drawer.dialog, drawer.shown.ref} \subseteq Refs \cup {NoRef}

\* The drawer follows the page's address: whatever is clicked, and whatever an
\* answer that comes late selects, the item of the address is the one selected.
RouteSelected == drawer.open /\ drawer.route # NoRef => drawer.selected = drawer.route

\* However previews overlap and the drawer moves on, the bytes of a preview are
\* held only while it is the one shown.
UrlsReleased == urls \subseteq {drawer.url}

\* The dialog stays on what it deletes until that has ended, and deletes once.
DeletesOnce ==
  LET deleting == {c \in Calls : request[c] # NoCall /\ request[c].kind \in {"delete", "delete-shown", "reload", "reload-shown"}} IN
  /\ drawer.deleting <=> deleting # {}
  /\ \A c \in deleting : deleting = {c} /\ drawer.dialog = request[c].ref

\* A message of the agent is shown with the items that it names and that tools
\* gave since the agent's message before, each once, and the others with none.
ToolRefs(i) ==
  UNION {ToSet(messages[j].refs) :
    j \in {k \in 1..(i - 1) : messages[k].role = "tool" /\ \A l \in k..(i - 1) : messages[l].role # "ai"}}
ItemsOfTurn ==
  \A i \in 1..Len(messages) :
    LET named == IF messages[i].role = "ai" THEN ToSet(messages[i].refs) \cup ToolRefs(i) ELSE {} IN
    /\ ToSet(ItemsShown(i)) = {r \in named : Bytes(r)}
    /\ Len(ItemsShown(i)) = Cardinality(ToSet(ItemsShown(i)))

ContentViewsCorrect == ContentViewsTypeOK /\ RouteSelected /\ UrlsReleased /\ DeletesOnce
=============================================================================
