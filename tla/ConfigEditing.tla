--------------------------- MODULE ConfigEditing ---------------------------
(***************************************************************************)
(* The editing of configuration files: the admin page of a browser         *)
(* (ConfigAdmin, useConfigAdmin), which loads a file into a draft and      *)
(* saves the draft, and the tool behind it (ConfigTool, ConfigStore),      *)
(* which copies what a file holds into the history before it writes it.    *)
(* Every call is underway for a while: the user clicks and types, and the  *)
(* agent, whose tool it is too, writes a file meanwhile.  From the file of *)
(* the agents a dialog opens on the agent at the cursor, has the gateway   *)
(* write a prompt, and puts it into the draft (SystemPromptDialog).        *)
(*                                                                         *)
(* A content is a pair: the file it was first a content of, and a number;  *)
(* layout, which config_write_file makes uniform, is left out.  A file is  *)
(* read and written at one moment, whatever it takes.                      *)
(***************************************************************************)
EXTENDS Naturals, FiniteSets, SequencesExt

CONSTANTS
  Files,     \* the files
  AgentsFile, \* agents.json
  Agents,    \* the keys of the agents in it
  Pages,     \* the pages that are open
  MaxEdits,  \* bound: edits of all pages
  MaxCalls   \* bound: calls made by a page

\* The words for no file, nobody and nothing, and the agent that writes, are none of those named.
ASSUME ConfigAssumption ==
  /\ AgentsFile \in Files /\ "none" \notin Files
  /\ "nobody" \notin Agents /\ "nothing" \notin Agents /\ "agent" \notin Pages
  /\ MaxEdits \in Nat /\ MaxCalls \in Nat

VARIABLES
  disk,       \* the content of each file
  versions,   \* config_history: the contents saved of each file
  page,       \* each page
  agent,      \* the write underway that the agent asked for
  edits,      \* the edits so far
  overlapped, \* history: the files two writes of which have overlapped
  wandered,   \* history: the pages that changed file while a save or a history was underway
  hurried,    \* history: the pages with an edit while a save was underway
  applied,    \* history: of each prompt that was applied, the agent it was asked
              \* for, the one it went to, and whether the file was still the same
  late        \* history: the pages whose dialog closed while a prompt was underway

dialogVars == <<applied, late>>
configVars == <<disk, versions, page, agent, edits, overlapped, wandered, hurried, dialogVars>>

Content == Files \X (0..MaxEdits)
NoFile == "none"
Agent == "agent"
Writing == [step : {"none", "sent", "kept", "written"},
            file : Files \cup {NoFile}, content : Content \cup {<<>>}]

NoAgent == "nobody"
Unasked == "nothing"
Prompt == [open : BOOLEAN, target : Agents \cup {NoAgent}, over : Content \cup {<<>>},
           asked : Agents \cup {NoAgent, Unasked}, got : Agents \cup {NoAgent, Unasked}]
NoPrompt == [open |-> FALSE, target |-> NoAgent, over |-> <<>>, asked |-> Unasked, got |-> Unasked]

\* selected, base, draft, dirty, loading: selectedFile, fileContent, draftContent,
\* isDirty, and readState = "loading"; loads: the files being read, with what was
\* read; save: the write underway; dialog: the file whose history is underway, or
\* shown; listing: the files are being listed; prompt: the dialog on an agent, the
\* content it was opened over, the agent for whom a prompt is underway (asked), and
\* for whom the one was that has come (got).
Page == [selected : Files \cup {NoFile}, base : Content \cup {<<>>}, draft : Content \cup {<<>>},
         dirty : BOOLEAN, loading : BOOLEAN, calls : 0..MaxCalls,
         loads : SUBSET [file : Files, got : Content \cup {<<>>}, reload : BOOLEAN],
         save : Writing,
         dialog : [file : Files \cup {NoFile}, shown : BOOLEAN],
         listing : BOOLEAN, prompt : Prompt]

NoSave == [step |-> "none", file |-> NoFile, content |-> <<>>]
NoDialog == [file |-> NoFile, shown |-> FALSE]
Change(p, r) == page' = [page EXCEPT ![p] = r]
serverVars == <<disk, versions, overlapped>>
pastVars == <<edits, wandered, hurried, agent, dialogVars>>

\* No dialog covers the editor.
AtEditor(p) == ~page[p].dialog.shown /\ ~page[p].prompt.open

-----------------------------------------------------------------------------
(* The page                                                                *)

\* Variant for mutation: the dialog keeps its agent.
SetContentOnly(r, content) ==
  IF content = r.base THEN r
  ELSE [r EXCEPT !.base = content, !.draft = content, !.dirty = FALSE]

\* setFileContent: the effect on a change of fileContent replaces the draft, and the
\* dialog has no agent any more.
SetFileContent(r, content) ==
  IF content = r.base THEN r
  ELSE [r EXCEPT !.base = content, !.draft = content, !.dirty = FALSE, !.prompt.target = NoAgent]

\* setAllConfigs: the graphs to choose from are listed anew, upon which the dialog
\* resets what it holds.
Emptied(r) == [r EXCEPT !.prompt.got = Unasked]
SetAllConfigs(r) == IF r.prompt.open THEN Emptied(r) ELSE r

\* The page comes to show another file, with a save or a history underway.
Wanders(p, f) ==
  IF f # page[p].selected /\ (page[p].save # NoSave \/ page[p].dialog # NoDialog)
    THEN wandered' = wandered \cup {p} ELSE UNCHANGED wandered

Load(p, f, reload) ==
  /\ page[p].calls < MaxCalls
  /\ Change(p, [page[p] EXCEPT !.loading = TRUE, !.calls = @ + 1,
                  !.loads = @ \cup {[file |-> f, got |-> <<>>, reload |-> reload]}])
  /\ UNCHANGED <<serverVars, pastVars>>

\* handleSelectFile: a draft that was not saved is no reason to stay.
Select(p, f) == AtEditor(p) /\ Load(p, f, FALSE)

Reload(p) ==
  /\ page[p].selected # NoFile
  /\ page[p].dirty
  /\ AtEditor(p)
  /\ Load(p, page[p].selected, TRUE)

\* config_read_file is served, and its answer arrives: a page that reloads replaces
\* the draft in any case.
ReadFile(p) ==
  \E l \in page[p].loads :
    /\ l.got = <<>>
    /\ Change(p, [page[p] EXCEPT !.loads = (@ \ {l}) \cup {[l EXCEPT !.got = disk[l.file]]}])
    /\ UNCHANGED <<serverVars, pastVars>>

\* Variant for mutation: a draft with changes stays.
LoadedOnly(p, l) ==
  /\ l.got # <<>>
  /\ Change(p, [page[p] EXCEPT !.base = l.got, !.selected = l.file, !.loading = FALSE,
                               !.draft = IF page[p].dirty THEN @ ELSE l.got, !.dirty = FALSE,
                               !.loads = @ \ {l}])
  /\ Wanders(p, l.file)
  /\ UNCHANGED <<serverVars, edits, hurried, agent, dialogVars>>

Loaded(p, l) ==
  /\ l.got # <<>>
  /\ LET r == SetAllConfigs(SetFileContent(page[p], l.got))
         s == IF l.reload THEN [r EXCEPT !.draft = l.got, !.dirty = FALSE] ELSE r
     IN Change(p, [s EXCEPT !.selected = l.file, !.loading = FALSE, !.loads = @ \ {l}])
  /\ Wanders(p, l.file)
  /\ UNCHANGED <<serverVars, edits, hurried, agent, dialogVars>>

LoadFails(p, l) ==
  /\ Change(p, [page[p] EXCEPT !.loading = FALSE, !.loads = @ \ {l}])
  /\ UNCHANGED <<serverVars, pastVars>>

\* The editor is there unless a file is loading.
Edit(p) ==
  /\ page[p].selected # NoFile
  /\ ~page[p].loading
  /\ AtEditor(p)
  /\ edits < MaxEdits
  /\ edits' = edits + 1
  /\ Change(p, [page[p] EXCEPT !.draft = <<@[1], edits + 1>>, !.dirty = TRUE])
  /\ hurried' = IF page[p].save # NoSave THEN hurried \cup {p} ELSE hurried
  /\ UNCHANGED <<serverVars, wandered, agent, dialogVars>>

\* handleSave.
Save(p) ==
  /\ page[p].selected # NoFile
  /\ page[p].save = NoSave
  /\ AtEditor(p)
  /\ page[p].calls < MaxCalls
  /\ Change(p, [page[p] EXCEPT !.calls = @ + 1, !.save = [step |-> "sent", file |-> page[p].selected,
                                         content |-> page[p].draft]])
  /\ UNCHANGED <<serverVars, pastVars>>

\* The answer: what was saved is the content of the page, whichever file it shows;
\* the files are listed anew.
Saved(p) ==
  /\ page[p].save.step = "written"
  /\ Change(p, [SetAllConfigs(SetFileContent(page[p], page[p].save.content))
                  EXCEPT !.dirty = FALSE, !.save = NoSave, !.listing = TRUE])
  /\ UNCHANGED <<serverVars, pastVars>>

\* handleShowHistory, and the dialog once the list has arrived.
AskHistory(p) ==
  /\ page[p].selected # NoFile
  /\ page[p].dialog = NoDialog
  /\ AtEditor(p)
  /\ page[p].calls < MaxCalls
  /\ Change(p, [page[p] EXCEPT !.calls = @ + 1, !.dialog = [file |-> page[p].selected, shown |-> FALSE]])
  /\ UNCHANGED <<serverVars, pastVars>>

ShowHistory(p) ==
  /\ page[p].dialog.file # NoFile
  /\ ~page[p].dialog.shown
  /\ Change(p, [page[p] EXCEPT !.dialog.shown = TRUE])
  /\ UNCHANGED <<serverVars, pastVars>>

\* A version of the list becomes the draft; or the dialog is closed.
RestoreVersion(p, content) ==
  /\ page[p].dialog.shown
  /\ content \in versions[page[p].dialog.file]
  /\ Change(p, [page[p] EXCEPT !.draft = content, !.dirty = TRUE, !.dialog = NoDialog])
  /\ hurried' = IF page[p].save # NoSave THEN hurried \cup {p} ELSE hurried
  /\ UNCHANGED <<serverVars, edits, wandered, agent, dialogVars>>

CloseHistory(p) ==
  /\ page[p].dialog.shown
  /\ Change(p, [page[p] EXCEPT !.dialog = NoDialog])
  /\ UNCHANGED <<serverVars, pastVars>>

-----------------------------------------------------------------------------
(* The dialog on an agent's prompt                                         *)

\* A text is a sequence of lines: the braces of each, in their order, the names on
\* it that a colon follows, and whether it speaks of a systemPrompt.
\* findAgentAtCursorPosition cuts it into blocks: from the line that names an agent
\* to the one whose brace closes it, or to where the next begins.
CloseBlock(b, agentKey, last) == [b EXCEPT !.blocks = Append(@, [agent |-> b.agent, first |-> b.first, last |-> last]),
                                    !.agent = agentKey]
\* Variant for mutation: any closing brace ends the block.
BraceAnywhere(n, b, c) ==
  LET d == [b EXCEPT !.depth = IF c = "{" THEN @ + 1 ELSE @ - 1]
  IN IF c = "}" /\ d.agent # NoAgent THEN CloseBlock(d, NoAgent, n) ELSE d
BraceOn(n, b, c) ==
  LET d == [b EXCEPT !.depth = IF c = "{" THEN @ + 1 ELSE @ - 1]
  IN IF c = "}" /\ d.depth = 1 /\ d.agent # NoAgent THEN CloseBlock(d, NoAgent, n) ELSE d
LineOf(text, keys, b, n) ==
  LET d == FoldLeft(LAMBDA x, c : BraceOn(n, x, c), b, text[n].braces)
      named == SelectSeq(text[n].names, LAMBDA k : k \in keys)
  IN IF d.depth < 1 \/ named = <<>> THEN d
     ELSE [(IF d.agent # NoAgent THEN CloseBlock(d, named[1], n - 1) ELSE [d EXCEPT !.agent = named[1]])
            EXCEPT !.first = n]
Blocks(text, keys) ==
  LET b == FoldLeft(LAMBDA x, n : LineOf(text, keys, x, n),
                    [depth |-> 0, agent |-> NoAgent, first |-> 0, blocks |-> <<>>], [n \in 1..Len(text) |-> n])
  IN IF b.agent = NoAgent THEN b.blocks ELSE CloseBlock(b, NoAgent, Len(text)).blocks

\* isOnSystemPromptLine: a string of JSON ends on the line it begins on.
OnPrompt(text, line) == text[line].speaks

\* The agent at the cursor, and whether the cursor is on its prompt.
AgentAt(text, keys, line) ==
  LET around == SelectSeq(Blocks(text, keys), LAMBDA b : b.first <= line /\ line <= b.last)
  IN IF around = <<>> THEN [agent |-> NoAgent, onPrompt |-> FALSE]
     ELSE [agent |-> around[1].agent, onPrompt |-> OnPrompt(text, line)]

\* handleOpenSystemPromptDialog, with the cursor on any agent or on none; what the
\* dialog held is reset, but not the prompt underway.
OpenPromptOnly(p, a) ==
  /\ page[p].selected = AgentsFile
  /\ AtEditor(p)
  /\ Change(p, [page[p] EXCEPT !.prompt.open = TRUE, !.prompt.target = a, !.prompt.over = page[p].base])
  /\ UNCHANGED <<serverVars, pastVars>>
OpenPrompt(p, a) ==
  /\ page[p].selected = AgentsFile
  /\ AtEditor(p)
  /\ Change(p, [Emptied(page[p]) EXCEPT !.prompt.open = TRUE, !.prompt.target = a, !.prompt.over = page[p].base])
  /\ UNCHANGED <<serverVars, pastVars>>

\* handleGeneratePrompt; the graph's answer arrives in whatever dialog there is by
\* then, or never.
Generate(p) ==
  /\ page[p].prompt.open
  /\ ~page[p].dialog.shown
  /\ page[p].prompt.asked = Unasked
  /\ page[p].calls < MaxCalls
  /\ Change(p, [page[p] EXCEPT !.calls = @ + 1, !.prompt.asked = page[p].prompt.target])
  /\ UNCHANGED <<serverVars, pastVars>>

Generated(p) ==
  /\ page[p].prompt.asked # Unasked
  /\ \E ok \in BOOLEAN :
       Change(p, [page[p] EXCEPT !.prompt.asked = Unasked, !.prompt.got = IF ok THEN page[p].prompt.asked ELSE @])
  /\ UNCHANGED <<serverVars, pastVars>>

\* handleCloseSystemPromptDialog; handleApplySystemPrompt, which changes nothing for
\* no agent, closes the dialog too.
Closed(r) == [r EXCEPT !.prompt.open = FALSE, !.prompt.target = NoAgent]
ClosedLate(p) == late' = IF page[p].prompt.asked # Unasked THEN late \cup {p} ELSE late

ClosePrompt(p) ==
  /\ page[p].prompt.open
  /\ ~page[p].dialog.shown
  /\ Change(p, Closed(page[p]))
  /\ ClosedLate(p)
  /\ UNCHANGED <<serverVars, edits, wandered, hurried, agent, applied>>

Apply(p) ==
  LET d == page[p].prompt IN
  /\ d.open /\ d.got # Unasked
  /\ ~page[p].dialog.shown
  /\ IF d.target = NoAgent \/ page[p].selected # AgentsFile
       THEN Change(p, Closed(page[p])) /\ UNCHANGED <<edits, hurried, applied>>
       ELSE /\ edits < MaxEdits
            /\ edits' = edits + 1
            /\ Change(p, [Closed(page[p]) EXCEPT !.draft = <<@[1], edits + 1>>, !.dirty = TRUE])
            /\ hurried' = IF page[p].save # NoSave THEN hurried \cup {p} ELSE hurried
            /\ applied' = applied \cup {[asked |-> d.got, to |-> d.target, same |-> d.over = page[p].base]}
  /\ ClosedLate(p)
  /\ UNCHANGED <<serverVars, wandered, agent>>

\* loadFiles, when the page opens and after each save.
FilesListed(p) ==
  /\ page[p].listing
  /\ \E ok \in BOOLEAN :
       Change(p, [(IF ok THEN SetAllConfigs(page[p]) ELSE page[p]) EXCEPT !.listing = FALSE])
  /\ UNCHANGED <<serverVars, pastVars>>

-----------------------------------------------------------------------------
(* config_write_file, asked for by a page or by the agent                  *)

Writes(w) == IF w = Agent THEN agent ELSE page[w].save
SetWrite(w, r) ==
  IF w = Agent THEN agent' = r /\ UNCHANGED page
  ELSE UNCHANGED agent /\ page' = [page EXCEPT ![w].save = r]
Kept(f) == {w \in Pages \cup {Agent} : Writes(w).file = f /\ Writes(w).step = "kept"}

AgentWrites(f) ==
  /\ agent = NoSave
  /\ agent' = [step |-> "sent", file |-> f, content |-> <<f, 0>>]
  /\ UNCHANGED <<serverVars, page, edits, wandered, hurried, dialogVars>>

\* Variant for mutation: the new content is what goes into the history.
KeepNew(w) ==
  LET s == Writes(w)
  IN /\ s.step = "sent"
     /\ versions' = [versions EXCEPT ![s.file] = @ \cup {s.content}]
     /\ SetWrite(w, [s EXCEPT !.step = "kept"])
     /\ UNCHANGED <<disk, edits, overlapped, wandered, hurried, dialogVars>>

\* The grant is valid; what the file holds is read and saved.
Keep(w) ==
  LET s == Writes(w)
  IN /\ s.step = "sent"
     /\ versions' = [versions EXCEPT ![s.file] = @ \cup {disk[s.file]}]
     /\ overlapped' = IF Kept(s.file) = {} THEN overlapped ELSE overlapped \cup {s.file}
     /\ SetWrite(w, [s EXCEPT !.step = "kept"])
     /\ UNCHANGED <<disk, edits, wandered, hurried, dialogVars>>

WriteFile(w) ==
  LET s == Writes(w)
  IN /\ s.step = "kept"
     /\ disk' = [disk EXCEPT ![s.file] = s.content]
     /\ SetWrite(w, [s EXCEPT !.step = "written"])
     /\ UNCHANGED <<versions, edits, overlapped, wandered, hurried, dialogVars>>

\* The grant is not valid, or the file cannot be written, or the answer is lost:
\* the page shows an error, and keeps its draft.
WriteFails(p) ==
  /\ page[p].save.step # "none"
  /\ SetWrite(p, NoSave)
  /\ UNCHANGED <<serverVars, edits, wandered, hurried, dialogVars>>

-----------------------------------------------------------------------------
ConfigInit ==
  /\ disk = [f \in Files |-> <<f, 0>>]
  /\ versions = [f \in Files |-> {}]
  /\ page = [p \in Pages |-> [selected |-> NoFile, base |-> <<>>, draft |-> <<>>,
                              dirty |-> FALSE, loading |-> FALSE, calls |-> 0, loads |-> {},
                              save |-> NoSave, dialog |-> NoDialog, listing |-> TRUE,
                              prompt |-> NoPrompt]]
  /\ agent = NoSave
  /\ edits = 0
  /\ overlapped = {} /\ wandered = {} /\ hurried = {}
  /\ applied = {} /\ late = {}

ConfigNext ==
  \/ \E p \in Pages :
       \/ \E f \in Files : Select(p, f) \/ \E c \in versions[f] : RestoreVersion(p, c)
       \/ Reload(p) \/ ReadFile(p) \/ Edit(p) \/ Save(p) \/ Saved(p)
       \/ \E l \in page[p].loads : Loaded(p, l) \/ LoadFails(p, l)
       \/ AskHistory(p) \/ ShowHistory(p) \/ CloseHistory(p) \/ WriteFails(p)
       \/ \E a \in Agents \cup {NoAgent} : OpenPrompt(p, a)
       \/ Generate(p) \/ Generated(p) \/ ClosePrompt(p) \/ Apply(p) \/ FilesListed(p)
  \/ \E w \in Pages \cup {Agent} : Keep(w) \/ WriteFile(w)
  \/ \E f \in Files : AgentWrites(f)

ConfigSpec == ConfigInit /\ [][ConfigNext]_configVars

-----------------------------------------------------------------------------
(* Properties                                                              *)

ConfigTypeOK ==
  /\ disk \in [Files -> Content]
  /\ versions \in [Files -> SUBSET Content]
  /\ \A p \in Pages : page[p] \in Page
  /\ agent \in Writing
  /\ overlapped \subseteq Files
  /\ wandered \subseteq Pages /\ hurried \subseteq Pages /\ late \subseteq Pages

\* What a write of a file replaces is in its history, unless two writes of it have
\* overlapped.
WritesAreKept ==
  [][\A f \in Files \ overlapped : disk'[f] # disk[f] => disk[f] \in versions[f]]_configVars

\* No file takes the content of another, unless a page has come to show another
\* file while a save or a history of the first was underway.
FilesAreNotMixed == wandered = {} => \A f \in Files : disk[f][1] = f

\* A page that does not say there are changes shows what it has loaded or saved,
\* unless somebody has typed during a save.
CleanIsSaved ==
  \A p \in Pages : page[p].dirty \/ p \in hurried \/ page[p].draft = page[p].base

\* A prompt is put into the content that the dialog was opened over, whatever was
\* loaded or saved meanwhile, and goes to the agent it was asked for, unless a dialog
\* was closed while one was underway.
PromptsArrive == \A d \in applied : d.same /\ (late = {} => d.asked = d.to)

\* In a file as JSON.stringify lays it out, whose entries are sequences of lines, every
\* line of an entry is found to be its agent's, unless it follows an empty entry that
\* is empty itself, and on its prompt if it is.
CursorFinds(agents, entries) ==
  LET text == <<[braces |-> <<"{">>, names |-> <<>>, speaks |-> FALSE]>> \o FlattenSeq(entries)
                \o <<[braces |-> <<"}">>, names |-> <<>>, speaks |-> FALSE]>>
      before(i) == 1 + Len(FlattenSeq(SubSeq(entries, 1, i - 1)))
      empty(i) == i \in DOMAIN entries /\ Len(entries[i]) = 1
  IN \A i \in DOMAIN entries : \A n \in DOMAIN entries[i] :
       ~(empty(i) /\ empty(i - 1)) =>
         AgentAt(text, agents, before(i) + n) = [agent |-> entries[i][1].names[1], onPrompt |-> entries[i][n].speaks]

\* Pages, files and their histories, whatever settles when.
ConfigCorrect == ConfigTypeOK /\ FilesAreNotMixed /\ CleanIsSaved /\ PromptsArrive
ConfigPromise == [][ConfigCorrect']_configVars /\ WritesAreKept
=============================================================================
