----------------------------- MODULE StreamText -----------------------------
(***************************************************************************)
(* How GloveAgent.stream turns the chunks of a model provider into the     *)
(* text a channel renders: each chunk is attributed to the main agent or   *)
(* to the sub-agent that works (resolveChunkStreamSource), compared with   *)
(* the text of its source so far, and reduced to what is new in it         *)
(* (normalizeStreamTextDelta).                                             *)
(*                                                                         *)
(* The provider is external: it sends the message of each model call in    *)
(* deltas, or in snapshots that repeat all of the message so far, late     *)
(* ones among them.  An agent calls its model again when its tools have    *)
(* run; the orchestrator hands over to a sub-agent, which writes, and      *)
(* calls its model again, as the graph does with one hand-over at a time.  *)
(* What a chunk is compared with is kept for the whole turn.               *)
(***************************************************************************)
EXTENDS Naturals, Sequences

CONSTANTS
  Texts,       \* the messages a model may write: a finite set of sequences
  Styles,      \* a subset of {"delta", "snapshot"}
  MinOverlap,  \* MIN_OVERLAP_DEDUP_CHARS
  MaxCalls,    \* bound: model calls that are over
  MaxShown     \* bound: letters rendered of a source before its last chunk

Symbols == UNION {{s[i] : i \in DOMAIN s} : s \in Texts}

ASSUME StreamAssumption ==
  /\ Texts \subseteq Seq(Symbols)
  /\ Styles \subseteq {"delta", "snapshot"}
  /\ MinOverlap \in Nat \ {0}

VARIABLES
  style,     \* how the provider sends
  text,      \* the message each source writes
  sent,      \* how much of it has been sent
  before,    \* what the messages of the source before it said
  over,      \* how many model calls are over
  working,   \* who writes: "main" or "helper"
  sub,       \* activeSubAgent
  seen,      \* streamedTextBySourceKey
  out        \* history: the text yielded of each source

streamVars == <<style, text, sent, before, over, working, sub, seen, out>>

Writers == {"main", "helper"}

Prefix(s, n) == SubSeq(s, 1, n)
StartsWith(s, p) == Len(p) <= Len(s) /\ Prefix(s, Len(p)) = p
From(s, n) == SubSeq(s, n + 1, Len(s))
Suffix(s, n) == From(s, Len(s) - n)
Least(m, n) == IF m < n THEN m ELSE n

-----------------------------------------------------------------------------
(* The helpers                                                             *)

\* The largest overlap worth trimming, or 0.
Overlap(previous, incoming) ==
  LET fits == {i \in MinOverlap..Least(Len(previous), Len(incoming)) :
                 Suffix(previous, i) = Prefix(incoming, i)}
  IN IF fits = {} THEN 0 ELSE CHOOSE i \in fits : \A j \in fits : j <= i

\* Variants for mutation: a late snapshot is appended; a snapshot replaces the
\* text and is yielded whole; what overlaps is trimmed from the text seen only.
AppendLate(previous, incoming) ==
  IF StartsWith(incoming, previous)
    THEN [full |-> incoming, delta |-> From(incoming, Len(previous))]
    ELSE [full |-> previous \o incoming, delta |-> incoming]
YieldWhole(previous, incoming) ==
  IF StartsWith(incoming, previous) THEN [full |-> incoming, delta |-> incoming]
    ELSE [full |-> previous \o incoming, delta |-> incoming]
TrimAlways(previous, incoming) ==
  LET fits == {i \in 1..Least(Len(previous), Len(incoming)) :
                 Suffix(previous, i) = Prefix(incoming, i)}
      new == IF fits = {} THEN incoming
               ELSE From(incoming, CHOOSE i \in fits : \A j \in fits : j <= i)
  IN [full |-> previous \o new, delta |-> new]

normalizeStreamTextDelta(previous, incoming) ==
  IF StartsWith(incoming, previous)
    THEN [full |-> incoming, delta |-> From(incoming, Len(previous))]
  ELSE IF StartsWith(previous, incoming) THEN [full |-> previous, delta |-> <<>>]
  ELSE LET new == From(incoming, Overlap(previous, incoming))
       IN [full |-> previous \o new, delta |-> new]

\* Variant for mutation: generic node names belong to the main agent.
SourceByName(node, active) == IF node = "helper" THEN "helper" ELSE "main"

\* Generic node names belong to the active sub-agent, if there is one; a name
\* that is not known is a sub-agent's own.
resolveChunkStreamSource(node, active) ==
  CASE node \in {"orchestrator", "orchestrator_tools"}                   -> "main"
    [] node \in {"", "agent", "tools", "tool_failure_stop"} /\ active # "none" -> active
    [] node \in {"", "agent"} /\ active = "none"                         -> "main"
    [] OTHER                                                             -> "helper"

-----------------------------------------------------------------------------
(* GloveAgent.stream                                                       *)

\* A chunk of text from a node of the graph.
Receive(node, chunk) ==
  LET source == resolveChunkStreamSource(node, sub)
      r == normalizeStreamTextDelta(seen[source], chunk)
  IN /\ sub' = IF source = "main" /\ node = "orchestrator" THEN "none" ELSE sub
     /\ seen' = [seen EXCEPT ![source] = r.full]
     /\ out' = [out EXCEPT ![source] = @ \o r.delta]

\* The nodes the text of a writer comes from.
NodesOf(w) == IF w = "main" THEN {"orchestrator"} ELSE {"agent", "helper"}

\* The provider sends w's text up to letter n.
Delta(w, n) ==
  /\ style = "delta"
  /\ n > sent[w]
  /\ \E node \in NodesOf(w) : Receive(node, SubSeq(text[w], sent[w] + 1, n))
  /\ sent' = [sent EXCEPT ![w] = n]

Snapshot(w, n) ==
  /\ style = "snapshot"
  /\ n > 0
  /\ \E node \in NodesOf(w) : Receive(node, Prefix(text[w], n))
  /\ sent' = [sent EXCEPT ![w] = IF n > @ THEN n ELSE @]

ModelWrites(w) ==
  /\ working = w /\ Len(out[w]) < MaxShown
  /\ \E n \in 1..Len(text[w]) : Delta(w, n) \/ Snapshot(w, n)
  /\ UNCHANGED <<style, text, before, over, working>>

\* What a writer has written of its message so far, after those before it.
Said(w) == before[w] \o Prefix(text[w], sent[w])

\* The model call of who writes is over; the next one of that writer begins anew.
ModelCallEnds ==
  /\ over < MaxCalls
  /\ over' = over + 1
  /\ before' = [before EXCEPT ![working] = Said(working)]
  /\ sent' = [sent EXCEPT ![working] = 0]
  /\ \E s \in Texts : text' = [text EXCEPT ![working] = s]

\* A call of other tools: the same agent goes on.
ToolsRun == ModelCallEnds /\ UNCHANGED <<style, working, sub, seen, out>>

\* A completed transfer_to_ call; the orchestrator waits until the sub-agent is
\* done, and writes again.
Transfer ==
  /\ working = "main" /\ ModelCallEnds
  /\ working' = "helper"
  /\ sub' = "helper"
  /\ UNCHANGED <<style, seen, out>>

StreamResumes ==
  /\ working = "helper" /\ ModelCallEnds
  /\ working' = "main"
  /\ UNCHANGED <<style, sub, seen, out>>

StreamInit ==
  /\ style \in Styles
  /\ text \in [Writers -> Texts]
  /\ sent = [w \in Writers |-> 0]
  /\ before = [w \in Writers |-> <<>>] /\ over = 0
  /\ working = "main"
  /\ sub = "none"
  /\ seen = [w \in Writers |-> <<>>]
  /\ out = [w \in Writers |-> <<>>]

StreamNext == (\E w \in Writers : ModelWrites(w)) \/ ToolsRun \/ Transfer \/ StreamResumes

StreamSpec == StreamInit /\ [][StreamNext]_streamVars

-----------------------------------------------------------------------------
(* Properties                                                              *)

\* A sub-agent that writes is the active one.
StreamTypeOK ==
  /\ style \in Styles
  /\ text \in [Writers -> Texts]
  /\ sent \in [Writers -> Nat]
  /\ \A w \in Writers : sent[w] <= Len(text[w])
  /\ before \in [Writers -> Seq(Symbols)] /\ over \in Nat
  /\ working \in Writers
  /\ sub \in {"none", "helper"}
  /\ working = "helper" => sub = "helper"
  /\ seen \in [Writers -> Seq(Symbols)]
  /\ out \in [Writers -> Seq(Symbols)]

\* What is compared with the next chunk is what has been rendered.
SeenIsRendered == \A w \in Writers : seen[w] = out[w]

\* The snapshots of the first message a source writes in a turn are rendered
\* exactly, in whatever order they come and whichever nodes the two agents write
\* from.  (Those of a later message repeat nothing of what they are compared with.)
SnapshotsExact ==
  style = "snapshot" => \A w \in Writers : before[w] = <<>> => out[w] = Said(w)

\* No chunk can be taken for a repetition: the first letter of the text does not
\* recur, and no piece of MinOverlap letters does.
Unrepetitive(s) ==
  /\ \A i \in 2..Len(s) : s[i] # s[1]
  /\ \A i, j \in 1..(Len(s) + 1 - MinOverlap) :
       i # j => SubSeq(s, i, i + MinOverlap - 1) # SubSeq(s, j, j + MinOverlap - 1)

\* Deltas are rendered exactly, through all messages of a turn, as long as what the
\* source has written does not repeat itself.
DeltasExact ==
  style = "delta" =>
    \A w \in Writers : Unrepetitive(Said(w)) => out[w] = Said(w)

\* normalizeStreamTextDelta: "This helper accepts either style and always returns
\* only the newly-added suffix."
EitherStyle == \A w \in Writers : out[w] = Said(w)

\* What is rendered of a stream, in either style.
StreamCorrect == SeenIsRendered /\ SnapshotsExact /\ DeltasExact
=============================================================================
