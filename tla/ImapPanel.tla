------------------------------ MODULE ImapPanel ------------------------------
(***************************************************************************)
(* The panel of the IMAP tools' indexing (ImapStatusSection, imapRpcClient)*)
(* against the gateway's proxy (AdminApi: /api/imap/instances and          *)
(* /api/imap/rpc).  Handlers of the panel overlap, each asks one thing     *)
(* after the other; answers come in any order, may be lost, and are        *)
(* refused when the grant has ended.  The tools' crawls are ImapCrawl's:   *)
(* they begin and end at any time, so that an answer may find any of them  *)
(* running, and it is decided when it is heard.  Numbers and messages that *)
(* are only shown are left out.                                            *)
(*                                                                         *)
(* Last, one tool's estimates of what remains to be crawled, which it      *)
(* keeps for a while (ImapIndexService.getEstimateWithCache): calls for    *)
(* one overlap each other and whatever makes the kept one void.  An        *)
(* estimate, or that there is none, is when the first folder was read, and *)
(* how often the index had changed by then.                                *)
(***************************************************************************)
EXTENDS Naturals, FiniteSets

CONSTANTS
  ImapTools,  \* the enabled IMAP tools
  Handlers,   \* bound: handlers of the panel under way at a time
  MaxPolls,   \* bound: the 10 polls that follow a stop
  Estimates,  \* bound: calls for an estimate underway at a time
  Lifetime,   \* ESTIMATE_CACHE_TTL_MS, in moments
  MaxMoments, \* bound: moments
  MaxResets   \* bound: times that the kept estimate is made void

ASSUME ImapPanelAssumption == "none" \notin ImapTools /\ {MaxPolls, Lifetime} \subseteq Nat \ {0}

VARIABLES
  granted,    \* privilegedReady, and the gateway's grant
  panel,      \* the state of the mounted section, or Closed
  handler,    \* what each handler has under way
  moment,     \* the time
  resets,     \* crawls begun and ended, and indexes cleared
  kept,       \* estimateCache
  estimate,   \* the calls for an estimate
  crossed     \* history: an estimate's folders were being read at a reset

sectionVars == <<granted, panel, handler>>
estimateVars == <<moment, resets, kept, estimate, crossed>>

NoTool == "none"
NoRows == [m \in {} |-> FALSE]
ClosedPanel == [open |-> FALSE, listed |-> FALSE, known |-> FALSE, rows |-> NoRows, estimates |-> {},
           loading |-> FALSE, estimating |-> FALSE,
           stopping |-> NoTool, starting |-> NoTool, clearing |-> NoTool, confirming |-> NoTool,
           overwritten |-> FALSE]

\* kind and tool; what it still asks for; the polls left; whether it knows the
\* list of tools; whether a crawl it saw is to be stopped; whether it is heard.
PanelAsks(kind, of, things, knows, saw) ==
  [kind |-> kind, of |-> of, things |-> things, polls |-> MaxPolls, knows |-> knows, saw |-> saw, on |-> "yes"]
NoHandler == [PanelAsks("none", NoTool, {}, FALSE, FALSE) EXCEPT !.polls = 0]

Ready == panel.open /\ granted
ShownActive(m) == m \in DOMAIN panel.rows /\ panel.rows[m]
UnderWay(h, kind, m) == handler[h].kind = kind /\ handler[h].of = m /\ handler[h].on # "gone"

ImapPanelInit ==
  /\ granted = TRUE
  /\ panel = ClosedPanel
  /\ handler = [h \in Handlers |-> NoHandler]

-----------------------------------------------------------------------------
(* What begins a handler                                                   *)

BeginHandler(h, asks, p) ==
  /\ handler[h] = NoHandler
  /\ handler' = [handler EXCEPT ![h] = asks]
  /\ panel' = [p EXCEPT !.loading = @ \/ "status" \in asks.things, !.estimating = @ \/ "estimate" \in asks.things]
  /\ UNCHANGED granted

\* The first effect, when the section opens.
OpenSection(h) ==
  ~panel.open /\ granted /\ BeginHandler(h, PanelAsks("open", NoTool, {"list"}, FALSE, FALSE), [ClosedPanel EXCEPT !.open = TRUE])

\* The two intervals of the second effect, and the button.
LoadThings(h, things) == BeginHandler(h, PanelAsks("load", NoTool, things, panel.listed, FALSE), panel)
Timer(h) == Ready /\ (LoadThings(h, {"status"}) \/ LoadThings(h, {"estimate"}))
RefreshAll(h) == Ready /\ ~panel.loading /\ ~panel.estimating /\ LoadThings(h, {"status", "estimate"})

\* The buttons of a tool's card, which the confirmation covers.
CanActUnstarted(m) ==
  /\ Ready /\ panel.listed /\ panel.confirming = NoTool /\ ~panel.loading
  /\ panel.clearing = NoTool /\ panel.stopping # m
CanAct(m) ==
  /\ Ready /\ panel.listed /\ panel.confirming = NoTool /\ ~panel.loading
  /\ panel.clearing = NoTool /\ panel.stopping # m /\ panel.starting # m

StopOrStart(h, m) ==
  /\ CanAct(m)
  /\ IF ShownActive(m)
     THEN BeginHandler(h, PanelAsks("stop", m, {"stop"}, TRUE, FALSE),
                [panel EXCEPT !.stopping = m, !.overwritten = @ \/ panel.stopping # NoTool])
     ELSE BeginHandler(h, PanelAsks("start", m, {"start"}, TRUE, FALSE),
                [panel EXCEPT !.starting = m, !.overwritten = @ \/ panel.starting # NoTool])

AskToClear(m) ==
  /\ CanAct(m)
  /\ panel' = [panel EXCEPT !.confirming = m]
  /\ UNCHANGED <<granted, handler>>
Cancel ==
  /\ panel.confirming # NoTool /\ panel.clearing = NoTool
  /\ panel' = [panel EXCEPT !.confirming = NoTool]
  /\ UNCHANGED <<granted, handler>>

\* A crawl that is shown is stopped first.
Confirm(h) ==
  LET m == panel.confirming IN
  /\ m # NoTool /\ panel.clearing = NoTool
  /\ IF granted
     THEN BeginHandler(h, PanelAsks("clear", m, IF ShownActive(m) THEN {"stop"} ELSE {"clear"}, TRUE, ShownActive(m)),
                [panel EXCEPT !.confirming = NoTool, !.clearing = m])
     ELSE panel' = [panel EXCEPT !.confirming = NoTool] /\ UNCHANGED <<granted, handler>>

\* Handlers under way go on when the drawer closes, but show nothing more.
CloseSection ==
  /\ panel.open
  /\ panel' = ClosedPanel
  /\ handler' = [h \in Handlers |-> IF handler[h] = NoHandler THEN NoHandler ELSE [handler[h] EXCEPT !.on = "gone"]]
  /\ UNCHANGED granted

\* The first effect is cancelled with the grant it was begun for, and begins with the next.
PanelGrantEnds ==
  /\ granted /\ granted' = FALSE
  /\ handler' = [h \in Handlers |->
                   IF handler[h].kind = "open" /\ handler[h].on = "yes" THEN [handler[h] EXCEPT !.on = "cancelled"]
                   ELSE handler[h]]
  /\ UNCHANGED panel
GrantBegins(h) ==
  /\ ~granted /\ granted' = TRUE
  /\ IF panel.open
     THEN handler[h] = NoHandler /\ handler' = [handler EXCEPT ![h] = PanelAsks("open", NoTool, {"list"}, FALSE, FALSE)]
     ELSE UNCHANGED handler
  /\ UNCHANGED panel

-----------------------------------------------------------------------------
(* An answer                                                               *)

\* A handler names the tools listed when it began; naming none asks for all.
\* Each tool is asked by itself: one that fails says so, and shows no crawl.
NamedTools(c) == IF c.knows THEN ImapTools ELSE {}
OnlyNamed(c) == NamedTools(c)
Targets(c) == IF NamedTools(c) = {} THEN ImapTools ELSE NamedTools(c)
Statuses(c) == {[m \in Targets(c) |-> m \in active] : active \in SUBSET Targets(c)}

\* So is each asked for its estimate.
Remaining(c) == [m \in Targets(c) |-> FALSE]

\* What a handler asks for when it has heard of a thing; nothing at its end.
AfterStopHeard(c, ok, thing, rows) ==
  CASE ~ok -> {}
    [] ok /\ thing = "stop" -> {"pause"}
    [] ok /\ thing = "pause" -> {"poll"}
    [] ok /\ thing = "poll" -> IF c.polls > 1 /\ rows[c.of] THEN {"pause"} ELSE {}
AfterClearAnyway(ok, thing) ==
  CASE thing = "stop" -> {"pause"}
    [] thing = "pause" -> {"clear"}
    [] thing = "clear" /\ ok -> {"status", "estimate"}
    [] OTHER -> {}
AfterClear(ok, thing) ==
  CASE ~ok -> {}
    [] ok /\ thing = "stop" -> {"pause"}
    [] ok /\ thing = "pause" -> {"clear"}
    [] ok /\ thing = "clear" -> {"status", "estimate"}
    [] OTHER -> {}
AfterOpen(c, thing) ==
  CASE c.on = "yes" /\ thing = "list" -> {"status"}
    [] c.on = "yes" /\ thing = "status" -> {"estimate"}
    [] OTHER -> {}
Following(c, ok, thing, rows) ==
  CASE c.things # {thing} -> c.things \ {thing}
    [] c.things = {thing} /\ c.kind = "stop" -> AfterStopHeard(c, ok, thing, rows)
    [] c.things = {thing} /\ c.kind = "clear" /\ thing \notin {"status", "estimate"} -> AfterClear(ok, thing)
    [] c.things = {thing} /\ c.kind = "start" /\ thing = "start" /\ ok -> {"status"}
    [] c.things = {thing} /\ c.kind = "open" -> AfterOpen(c, thing)
    [] OTHER -> {}

Heard(p, ok, thing, rows) ==
  CASE thing = "list" -> [p EXCEPT !.listed = @ \/ ok]
    [] thing = "status" -> [p EXCEPT !.known = @ \/ ok, !.rows = IF ok THEN rows ELSE @, !.loading = FALSE]
    [] thing = "estimate" -> [p EXCEPT !.estimating = FALSE, !.estimates = IF ok THEN DOMAIN rows ELSE @]
    [] thing = "poll" -> [p EXCEPT !.known = @ \/ ok, !.rows = IF ok THEN rows ELSE @]
    [] OTHER -> p

\* "finally": the button is given back when its handler ends.
FinishedStarted(p, kind) ==
  CASE kind = "stop" -> [p EXCEPT !.stopping = NoTool]
    [] kind = "clear" -> [p EXCEPT !.clearing = NoTool]
    [] OTHER -> p
Finished(p, kind) ==
  CASE kind = "stop" -> [p EXCEPT !.stopping = NoTool]
    [] kind = "start" -> [p EXCEPT !.starting = NoTool]
    [] kind = "clear" -> [p EXCEPT !.clearing = NoTool]
    [] OTHER -> p

Hear(h, thing, ok, rows) ==
  LET c == handler[h]
      following == Following(c, ok, thing, rows)
      shown == Heard(panel, ok, thing, rows)
  IN
  /\ handler' = [handler EXCEPT ![h] =
       IF following = {} THEN NoHandler
       ELSE [c EXCEPT !.things = following, !.saw = @ /\ ~(thing = "stop" /\ ok),
                      !.polls = IF thing = "poll" THEN @ - 1 ELSE @, !.knows = @ \/ (thing = "list" /\ ok)]]
  /\ panel' = CASE c.on = "gone" -> panel
                [] c.on # "gone" /\ following = {} -> Finished(shown, c.kind)
                [] OTHER -> [shown EXCEPT !.loading = @ \/ "status" \in following \ c.things,
                                             !.estimating = @ \/ "estimate" \in following \ c.things]
  /\ UNCHANGED granted

\* Without the grant every request is refused; a pause cannot fail.
PanelAnswer(h) ==
  \E thing \in handler[h].things :
    \/ granted /\ \E rows \in CASE thing \in {"status", "poll"} -> Statuses(handler[h])
                                   [] thing = "estimate" -> {Remaining(handler[h])}
                                   [] OTHER -> {NoRows} : Hear(h, thing, TRUE, rows)
    \/ Hear(h, thing, thing = "pause", NoRows)

ImapPanelNext ==
  \/ \E h \in Handlers :
       \/ OpenSection(h) \/ Timer(h) \/ RefreshAll(h) \/ Confirm(h) \/ GrantBegins(h) \/ PanelAnswer(h)
       \/ \E m \in ImapTools : StopOrStart(h, m)
  \/ Cancel \/ CloseSection \/ PanelGrantEnds
  \/ \E m \in ImapTools : AskToClear(m)

ImapPanelSpec == ImapPanelInit /\ [][ImapPanelNext]_sectionVars

-----------------------------------------------------------------------------
(* The estimates of one tool                                               *)

NoValue == [at |-> 0, read |-> 0, resets |-> 0, known |-> FALSE]
\* What was read so far, as of when it was asked for; of an answer, its age and
\* whether it is of before the resets that there were when it was asked for (since).
NotAsked == [step |-> "none", since |-> 0, value |-> NoValue, age |-> 0, before |-> FALSE]
Fresh == kept.known /\ moment - kept.at < Lifetime

EstimatesInit ==
  /\ moment = 0 /\ resets = 0 /\ kept = NoValue /\ crossed = FALSE
  /\ estimate = [e \in Estimates |-> NotAsked]

\* The kept estimate answers at once, unless the panel's Refresh forces a new one.
AskForEstimate(e, force) ==
  /\ estimate[e].step = "none"
  /\ estimate' = [estimate EXCEPT ![e] =
       IF Fresh /\ ~force
       THEN [NotAsked EXCEPT !.step = "answered", !.age = moment - kept.read, !.before = kept.resets < resets]
       ELSE [NotAsked EXCEPT !.step = "asked", !.since = resets, !.value.at = moment]]
  /\ UNCHANGED <<moment, resets, kept, crossed>>

\* The first folder is read, or the mail server cannot be reached.
ReadFolders(e) ==
  /\ estimate[e].step = "asked"
  /\ estimate' = [estimate EXCEPT ![e].step = "reading",
                     ![e].value = [at |-> @.at, read |-> moment, resets |-> resets, known |-> TRUE]]
  /\ UNCHANGED <<moment, resets, kept, crossed>>

\* The estimate is kept as of when it was asked for, over whatever was kept meanwhile.
\* Variant for mutation: as of when it came.
KeptAsOfNow(e) ==
  /\ estimate[e].step = "reading"
  /\ kept' = [estimate[e].value EXCEPT !.at = moment]
  /\ estimate' = [estimate EXCEPT ![e] = [NotAsked EXCEPT !.step = "answered",
                                           !.before = estimate[e].value.resets < estimate[e].since]]
  /\ UNCHANGED <<moment, resets, crossed>>
Estimated(e) ==
  /\ estimate[e].step = "reading"
  /\ kept' = estimate[e].value
  /\ estimate' = [estimate EXCEPT ![e] = [NotAsked EXCEPT !.step = "answered",
                                           !.before = estimate[e].value.resets < estimate[e].since]]
  /\ UNCHANGED <<moment, resets, crossed>>

EstimateShown(e) ==
  /\ estimate[e].step = "answered"
  /\ estimate' = [estimate EXCEPT ![e] = NotAsked]
  /\ UNCHANGED <<moment, resets, kept, crossed>>

\* A crawl connects or ends, or the index is cleared.
\* Variant for mutation: the kept estimate outlives it.
ResetNothing ==
  /\ resets < MaxResets
  /\ resets' = resets + 1
  /\ crossed' = (crossed \/ \E e \in Estimates : estimate[e].step = "reading")
  /\ UNCHANGED <<moment, kept, estimate>>
ResetEstimates ==
  /\ resets < MaxResets
  /\ resets' = resets + 1
  /\ kept' = NoValue
  /\ crossed' = (crossed \/ \E e \in Estimates : estimate[e].step = "reading")
  /\ UNCHANGED <<moment, estimate>>

TimePasses == moment < MaxMoments /\ moment' = moment + 1 /\ UNCHANGED <<resets, kept, estimate, crossed>>

EstimatesNext ==
  \/ \E e \in Estimates :
       (\E force \in BOOLEAN : AskForEstimate(e, force)) \/ ReadFolders(e) \/ Estimated(e) \/ EstimateShown(e)
  \/ ResetEstimates \/ TimePasses

EstimatesSpec == EstimatesInit /\ [][EstimatesNext]_estimateVars

-----------------------------------------------------------------------------

ImapPanelTypeOK ==
  /\ granted \in BOOLEAN
  /\ {panel.stopping, panel.starting, panel.clearing, panel.confirming} \subseteq ImapTools \cup {NoTool}
  /\ \A h \in Handlers : handler[h].polls \in 0..MaxPolls /\ handler[h].on \in {"yes", "cancelled", "gone"}

\* A button says that its work is under way only while it is: whichever of the
\* overlapping handlers ends first, with whatever answer, no card is left disabled.
NoButtonStuck ==
  /\ \A m \in ImapTools :
       /\ panel.stopping = m => \E h \in Handlers : UnderWay(h, "stop", m)
       /\ panel.starting = m => \E h \in Handlers : UnderWay(h, "start", m)
       /\ panel.clearing = m => \E h \in Handlers : UnderWay(h, "clear", m)
  /\ panel.loading => \E h \in Handlers : "status" \in handler[h].things /\ handler[h].on # "gone"
  /\ panel.estimating => \E h \in Handlers : "estimate" \in handler[h].things /\ handler[h].on # "gone"

\* One tool's work excludes itself: unless the one field for the tool that is
\* stopped (or started) was taken over for another tool meanwhile, a tool is not
\* stopped, started or cleared twice at a time; and never are two indexes cleared.
OneAtATime ==
  /\ ~panel.overwritten =>
       \A m \in ImapTools :
         Cardinality({h \in Handlers : \E kind \in {"stop", "start", "clear"} : UnderWay(h, kind, m)}) <= 1
  /\ Cardinality({h \in Handlers : handler[h].kind = "clear" /\ handler[h].on # "gone"}) <= 1

\* The index of a tool that was shown as crawling is cleared only once the
\* crawl's stop was acknowledged.
StoppedFirst == \A h \in Handlers : "clear" \in handler[h].things => ~handler[h].saw

\* Whether or not the list of the tools could be loaded, a status and estimates that
\* are shown say something of every enabled tool.
StatusComplete == (panel.known => DOMAIN panel.rows = ImapTools) /\ panel.estimates \in {{}, ImapTools}

\* However long an estimate takes and whichever of two comes last, one that is
\* answered from what was kept shows nothing older than its lifetime.
EstimatesAreRecent == \A e \in Estimates : estimate[e].age < Lifetime

\* Once a crawl has begun or ended, or the index was cleared, no estimate of before is
\* given for an answer, unless one's folders were being read then.
EstimatesAreOfNow ==
  ~crossed => \A e \in Estimates : ~estimate[e].before

EstimatesCorrect == EstimatesAreRecent /\ EstimatesAreOfNow

ImapPanelCorrect == ImapPanelTypeOK /\ NoButtonStuck /\ OneAtATime /\ StoppedFirst /\ StatusComplete
                    /\ EstimatesCorrect
=============================================================================
