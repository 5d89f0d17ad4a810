----------------------------- MODULE ScheduledRuns -----------------------------
(***************************************************************************)
(* What an execution of the scheduler (ScheduleService.executeTask, from   *)
(* its starter text on) asks of the gateway over HTTP: a run of a graph    *)
(* (AdminApi: /api/internal/invoke, Gateway.invokeConfiguredGraph), which  *)
(* is announced and then shown to the channels that observe processing,    *)
(* and messages into the channel that the task came from                   *)
(* (/api/internal/channel-message).  The tools of a run overlap.  An       *)
(* answer may be lost or come after the caller gave up waiting, and the    *)
(* gateway may go away and come back, with runs and messages under way.    *)
(*                                                                         *)
(* When a task is executed, and what its state becomes, is Scheduler.      *)
(* Prompts and texts are left out, and the events of a run that only add   *)
(* to what is shown: prompts, calls and responses of the model.            *)
(***************************************************************************)
EXTENDS Naturals, Sequences, FiniteSets

CONSTANTS
  Executions,  \* bound: executions
  Starters,    \* those that begin with a text
  ToolNames,   \* the tools a run uses
  Transfers,   \* those that hand over to another agent
  ToolCalls    \* bound: tool calls of a run

ASSUME ScheduledRunsAssumption == Starters \subseteq Executions /\ Transfers \subseteq ToolNames

VARIABLES
  execution,  \* where each execution stands
  serving,    \* whether the gateway is up
  observed,   \* whether a channel receives processing messages
  runOf,      \* the run of each execution
  shownOf,    \* what the observers were sent of each run
  chatOf      \* what came into the source channel of each execution

runVars == <<execution, serving, observed, runOf, shownOf, chatOf>>

NoTools == [c \in {} |-> "none"]
NoRun == [at |-> "none", names |-> NoTools, used |-> {}, busy |-> {}]

ScheduledRunsInit ==
  /\ execution = [e \in Executions |-> "idle"]
  /\ serving = TRUE
  /\ observed \in BOOLEAN
  /\ runOf = [e \in Executions |-> NoRun]
  /\ shownOf = [e \in Executions |-> <<>>]
  /\ chatOf = [e \in Executions |-> <<>>]

-----------------------------------------------------------------------------
(* The execution                                                           *)

Goes(e, at) == execution' = [execution EXCEPT ![e] = at]
BeginExecution(e) ==
  /\ execution[e] = "idle"
  /\ Goes(e, IF e \in Starters THEN "starter" ELSE "asking")
  /\ UNCHANGED <<serving, observed, runOf, shownOf, chatOf>>

\* A message into the source channel: it arrives, or it is dropped by a channel
\* that fails, of which the gateway says nothing; and the request fails, or its
\* answer is lost when the message has arrived.
Delivers(e, text, sent, failed) ==
  /\ \/ serving /\ Goes(e, sent) /\ chatOf' \in {[chatOf EXCEPT ![e] = Append(@, text)], chatOf}
     \/ Goes(e, failed) /\ chatOf' = chatOf
     \/ serving /\ Goes(e, failed) /\ chatOf' = [chatOf EXCEPT ![e] = Append(@, text)]
  /\ UNCHANGED <<serving, observed, runOf, shownOf>>

\* The starter text comes before what is caught; the failure of a reply is caught
\* like that of the run, and one more of the report is thrown.
SendStarter(e) == execution[e] = "starter" /\ Delivers(e, "starter", "asking", "done")
SendReply(e) == execution[e] = "replying" /\ Delivers(e, "reply", "done", "failed")
SendReport(e) == execution[e] = "failed" /\ Delivers(e, "error", "done", "done")

\* The request for a run: it is announced before it is begun, where a channel
\* receives what the system says.
RunAnnounced == <<[kind |-> "request"]>>
RunNotAsked(e) ==
  /\ execution[e] = "asking" /\ Goes(e, "failed")
  /\ UNCHANGED <<serving, observed, runOf, shownOf, chatOf>>
RunAsked(e) ==
  /\ execution[e] = "asking" /\ serving
  /\ Goes(e, "waiting")
  /\ runOf' = [runOf EXCEPT ![e].at = "asked"]
  /\ shownOf' \in {[shownOf EXCEPT ![e] = RunAnnounced], shownOf}
  /\ UNCHANGED <<serving, observed, chatOf>>

HearsAnything(e, outcome) == "replying"
HearsAnswer(e, outcome) == IF outcome = "answered" THEN "replying" ELSE "failed"
HearAnswer(e) ==
  /\ execution[e] = "waiting" /\ runOf[e].at \in {"answered", "refused"}
  /\ Goes(e, HearsAnswer(e, runOf[e].at))
  /\ UNCHANGED <<serving, observed, runOf, shownOf, chatOf>>
GivesUpRun(e) ==
  /\ execution[e] = "waiting" /\ Goes(e, "failed")
  /\ UNCHANGED <<serving, observed, runOf, shownOf, chatOf>>

-----------------------------------------------------------------------------
(* The run                                                                 *)

Shows(e, event) == shownOf' = [shownOf EXCEPT ![e] = IF observed THEN Append(@, event) ELSE @]

\* What a run is shown as is sent first; the graph may fail to be built.
RunBegins(e) ==
  /\ serving /\ runOf[e].at = "asked"
  /\ Shows(e, [kind |-> "graph"])
  /\ runOf' = [runOf EXCEPT ![e].at = "running"]
  /\ UNCHANGED <<execution, serving, observed, chatOf>>

\* The names of the tools under way are kept under their runs; busy are those
\* runs which the graph has not heard the end of.
NamedLast(names, c, tool) == [d \in DOMAIN names \cup {c} |-> tool]
NamesWith(names, c, tool) == [d \in DOMAIN names \cup {c} |-> IF d = c THEN tool ELSE names[d]]
NamesKept(names, c) == names
NamesWithout(names, c) == [d \in DOMAIN names \ {c} |-> names[d]]
NameOf(names, c) == IF c \in DOMAIN names THEN names[c] ELSE "none"

ToolStarts(e, c, tool) ==
  /\ serving /\ runOf[e].at = "running" /\ c \notin runOf[e].used
  /\ runOf' = [runOf EXCEPT ![e].used = @ \cup {c}, ![e].busy = @ \cup {<<c, tool>>},
                            ![e].names = IF observed THEN NamesWith(@, c, tool) ELSE @]
  /\ Shows(e, [kind |-> IF tool \in Transfers THEN "transfer" ELSE "call", call |-> c, tool |-> tool])
  /\ UNCHANGED <<execution, serving, observed, chatOf>>
ToolEnds(e, c, tool) ==
  /\ serving /\ <<c, tool>> \in runOf[e].busy
  /\ Shows(e, [kind |-> "result", call |-> c, tool |-> NameOf(runOf[e].names, c)])
  /\ runOf' = [runOf EXCEPT ![e].busy = @ \ {<<c, tool>>}, ![e].names = NamesWithout(@, c)]
  /\ UNCHANGED <<execution, serving, observed, chatOf>>

\* The graph ends well when its tools have; it may fail while they go on.
RunEnds(e) ==
  /\ serving
  /\ \/ runOf[e].at = "running" /\ runOf[e].busy = {} /\ runOf' = [runOf EXCEPT ![e].at = "answered"]
     \/ runOf[e].at \in {"asked", "running"} /\ runOf' = [runOf EXCEPT ![e].at = "refused"]
  /\ UNCHANGED <<execution, serving, observed, shownOf, chatOf>>

\* The gateway goes away with all its runs, and their callers' connections.
GatewayGoes ==
  /\ serving /\ serving' = FALSE
  /\ runOf' = [e \in Executions |-> IF runOf[e].at \in {"answered", "none"} THEN runOf[e] ELSE [NoRun EXCEPT !.at = "gone"]]
  /\ execution' = [e \in Executions |-> IF execution[e] = "waiting" THEN "failed" ELSE execution[e]]
  /\ UNCHANGED <<observed, shownOf, chatOf>>
GatewayComes == ~serving /\ serving' = TRUE /\ UNCHANGED <<execution, observed, runOf, shownOf, chatOf>>

ScheduledRunsNext ==
  \/ GatewayGoes \/ GatewayComes
  \/ \E e \in Executions :
       \/ BeginExecution(e) \/ SendStarter(e) \/ SendReply(e) \/ SendReport(e)
       \/ RunNotAsked(e) \/ RunAsked(e) \/ HearAnswer(e) \/ GivesUpRun(e)
       \/ RunBegins(e) \/ RunEnds(e)
       \/ \E c \in ToolCalls, tool \in ToolNames : ToolStarts(e, c, tool) \/ ToolEnds(e, c, tool)

ScheduledRunsSpec == ScheduledRunsInit /\ [][ScheduledRunsNext]_runVars

-----------------------------------------------------------------------------

ScheduledRunsTypeOK ==
  /\ execution \in [Executions -> {"idle", "starter", "asking", "waiting", "replying", "failed", "done"}]
  /\ \A e \in Executions :
       /\ runOf[e].at \in {"none", "asked", "running", "answered", "refused", "gone"}
       /\ DOMAIN runOf[e].names \subseteq ToolCalls

\* However the tools of a run overlap, and whatever fails, its observers see the
\* result of each call once, after the call and under the name it was called by.
ResultsOfCalls ==
  \A e \in Executions : \A i \in 1..Len(shownOf[e]) :
    shownOf[e][i].kind = "result" =>
      Cardinality({j \in 1..i : shownOf[e][j].kind # "request" /\ shownOf[e][j].kind # "graph"
                                  /\ shownOf[e][j].call = shownOf[e][i].call
                                  /\ shownOf[e][j].tool = shownOf[e][i].tool}) = 2

\* A run's graph is shown once, before all but its announcement.
GraphFirst ==
  \A e \in Executions : \A i, j \in 1..Len(shownOf[e]) :
    /\ shownOf[e][i].kind = "graph" /\ j < i => shownOf[e][j].kind = "request"
    /\ shownOf[e][i].kind = "request" => i = 1

\* A tool that has ended is not remembered.
NamesOfBusy ==
  \A e \in Executions : DOMAIN runOf[e].names = {c \in ToolCalls : observed /\ \E tool \in ToolNames : <<c, tool>> \in runOf[e].busy}

\* Into the source channel come, in this order and each at most once, the starter
\* text, a reply and a report of failure; a reply only of a run that ended well.
Texts == {<<>>, <<"starter">>, <<"reply">>, <<"error">>, <<"reply", "error">>}
ChatInOrder ==
  \A e \in Executions :
    /\ chatOf[e] \in Texts \cup {<<"starter">> \o t : t \in Texts \ {<<"starter">>}}
    /\ "reply" \in {chatOf[e][i] : i \in 1..Len(chatOf[e])} => runOf[e].at = "answered"

ScheduledRunsCorrect == ScheduledRunsTypeOK /\ ResultsOfCalls /\ GraphFirst /\ NamesOfBusy /\ ChatInOrder
=============================================================================
