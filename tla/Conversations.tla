---------------------------- MODULE Conversations ----------------------------
(***************************************************************************)
(* How the agent (GloveAgent) answers messages and what the web channel    *)
(* shows of it: a dispatch (here: a turn) mirrors the user's text, streams *)
(* or invokes the graph, falls back from one to the other, replies,        *)
(* mirrors the reply, and clears the conversation from the sets of active  *)
(* and stopped conversations; a "!stop" command reads and writes those     *)
(* sets; the web channel queues the results of tools by conversation and   *)
(* attaches what is queued to the next frame that may carry it.            *)
(*                                                                         *)
(* Nothing serializes the turns of a conversation: between any two awaits  *)
(* of one, a step of another or a command may come.  The graph is          *)
(* external: it may yield text of the main agent or of a sub-agent, run    *)
(* tools, end or throw.  A turn runs one tool of each agent at most, and   *)
(* the result has a content item and a reference, named by the turn and    *)
(* the agent.                                                              *)
(***************************************************************************)
EXTENDS Naturals, Sequences

CONSTANTS
  Turns,      \* the dispatches of messages
  Delegated,  \* those among them in which a sub-agent may work too
  Convs,      \* conversation ids
  Sources,    \* the channels messages come from: "web" streams, others do not
  Observers   \* the channels with receiveAgentProcessing, in order of attachment

ASSUME ConversationsAssumption ==
  /\ Delegated \subseteq Turns
  /\ Convs # {} /\ Sources # {}
  /\ Observers \in Seq({"web", "log"})

VARIABLES
  turn,     \* the state of each dispatch
  active,   \* activeConversations
  stopped,  \* stoppedConversations
  items,    \* pendingDefaultAgentContentItems
  refs,     \* pendingMainToolReferences
  subRefs   \* pendingSubAgentToolReferences, of the one sub-agent

pendingVars == <<items, refs, subRefs>>
agentVars == <<active, stopped>>
conversationVars == <<turn, agentVars, pendingVars>>

Agents == {"default", "helper"}
AgentsOf(t) == IF t \in Delegated THEN Agents ELSE {"default"}
Result == Turns \X Agents
Phase == {"idle", "mirroring", "streaming", "ended", "invoking", "replying",
          "echoing", "done", "failing", "failed"}

\* conv, source: the message's conversation and channel; to: which observers a
\* loop has still to send to; streams: the reply is streamed; ran: the agents whose
\* tool has reported; text: something was streamed; loose: the graph's run was
\* left before its end.
\* History: got, what the frames of this turn carried; told: a stop was confirmed
\* while it streamed; shared: another turn of its conversation was underway with
\* it; mixed: that, or something else that empties the conversation's queues or
\* leaves something in them.
Turn == [phase : Phase, conv : Convs, source : Sources, to : SUBSET (1..Len(Observers)), streams : BOOLEAN,
         ran : SUBSET Agents, text : BOOLEAN, loose : BOOLEAN,
         got : SUBSET (Result \X {"item", "ref"}), told : BOOLEAN, shared : BOOLEAN, mixed : BOOLEAN]

Processing == {"streaming", "ended", "invoking", "replying", "echoing"}
Running(t) == turn[t].phase \in Processing
Underway(t) == turn[t].phase \notin {"idle", "done", "failing", "failed"}
TurnsOf(c) == {t \in Turns : turn[t].phase # "idle" /\ turn[t].conv = c}

\* mirrorTargets: the observers but the source channel; they are sent to in order.
Others(source) == {i \in 1..Len(Observers) : Observers[i] # source}
First(S) == CHOOSE i \in S : \A j \in S : i <= j
WebObserves == \E i \in 1..Len(Observers) : Observers[i] = "web"

\* The turns of conversation c have the queues for themselves no longer.
Mix(f, c) ==
  [t \in Turns |-> IF f[t].phase # "idle" /\ f[t].conv = c
                     THEN [f[t] EXCEPT !.mixed = TRUE, !.got = {}] ELSE f[t]]
Share(f, c) ==
  [t \in Turns |-> IF Underway(t) /\ f[t].conv = c
                     THEN [f[t] EXCEPT !.shared = TRUE, !.mixed = TRUE, !.got = {}] ELSE f[t]]

As(S, kind) == {<<x, kind>> : x \in S}

-----------------------------------------------------------------------------
(* WebChannel                                                              *)

\* The turns f, with a frame of turn t that carries S.
Carry(f, t, S) == [f EXCEPT ![t].got = IF f[t].mixed THEN {} ELSE @ \cup S]

\* A "done" frame carries everything queued for the conversation.
Queued(c) == As(items[c], "item") \cup As(refs[c], "ref")

\* Variant for mutation: the references stay queued.
DrainItems(c) == items' = [items EXCEPT ![c] = {}] /\ UNCHANGED <<refs, subRefs>>

Drain(c) ==
  /\ items' = [items EXCEPT ![c] = {}]
  /\ refs' = [refs EXCEPT ![c] = {}]
  /\ UNCHANGED subRefs

\* sendMessage of a text to channel ch: the web channel sends a "chunk" with what
\* the message carries, and a "done" with that and everything queued.
Send(ch, c) == IF ch = "web" THEN Drain(c) ELSE UNCHANGED pendingVars
WebFrame(ch, c, attached) == IF ch = "web" THEN attached \cup Queued(c) ELSE {}

\* Variants for mutation: every reference is queued for the sub-agent too; those
\* of a sub-agent are queued for it only.
WebQueueTwice(c, x) ==
  /\ items' = [items EXCEPT ![c] = IF x[2] = "default" THEN @ \cup {x} ELSE @]
  /\ refs' = [refs EXCEPT ![c] = @ \cup {x}]
  /\ subRefs' = [subRefs EXCEPT ![c] = @ \cup {x}]

WebQueueApart(c, x) ==
  /\ items' = [items EXCEPT ![c] = IF x[2] = "default" THEN @ \cup {x} ELSE @]
  /\ refs' = [refs EXCEPT ![c] = IF x[2] = "default" THEN @ \cup {x} ELSE @]
  /\ subRefs' = [subRefs EXCEPT ![c] = IF x[2] = "default" THEN @ ELSE @ \cup {x}]

\* sendMessage of a tool result: the event is shown as such, and queued.
WebQueue(c, x) ==
  /\ items' = [items EXCEPT ![c] = IF x[2] = "default" THEN @ \cup {x} ELSE @]
  /\ refs' = [refs EXCEPT ![c] = @ \cup {x}]
  /\ subRefs' = [subRefs EXCEPT ![c] = IF x[2] = "default" THEN @ ELSE @ \cup {x}]

\* sendStream, one chunk: it carries the references queued for its source.
ChunkFrame(c, from) == As(IF from = "default" THEN refs[c] ELSE subRefs[c], "ref")
WebChunk(c, from) ==
  /\ IF from = "default"
       THEN refs' = [refs EXCEPT ![c] = {}] /\ UNCHANGED subRefs
       ELSE subRefs' = [subRefs EXCEPT ![c] = {}] /\ UNCHANGED refs
  /\ UNCHANGED items

-----------------------------------------------------------------------------
(* GloveAgent.dispatchMessage                                              *)

Goto(t, phase) == turn' = [turn EXCEPT ![t].phase = phase]

\* The turn is over: its history is only kept as far as it is looked at.
Settle(t, phase) ==
  turn' = [turn EXCEPT ![t].phase = phase, ![t].told = FALSE, ![t].shared = FALSE,
                       ![t].text = FALSE]

\* The dispatch begins, and mirrors the user's text to each other observer.
Dispatch(t, c, source) ==
  /\ turn[t].phase = "idle"
  /\ LET busy == \E u \in TurnsOf(c) : Underway(u)
         clean == items[c] = {} /\ refs[c] = {} /\ subRefs[c] = {}
     IN turn' = [Share(turn, c) EXCEPT ![t] =
                   [@ EXCEPT !.phase = "mirroring", !.conv = c, !.source = source,
                             !.to = Others(source),
                             !.shared = busy, !.mixed = busy \/ ~clean]]
  /\ UNCHANGED <<agentVars, pendingVars>>

MirrorUser(t) ==
  /\ turn[t].phase = "mirroring"
  /\ turn[t].to # {}
  /\ LET i == First(turn[t].to) IN
       /\ Send(Observers[i], turn[t].conv)
       /\ turn' = Carry([turn EXCEPT ![t].to = @ \ {i}], t,
                        WebFrame(Observers[i], turn[t].conv, {}))
  /\ UNCHANGED agentVars

\* The conversation becomes active; a streaming channel pulls on the stream,
\* for any other the graph is invoked.
Run(t) ==
  /\ turn[t].phase = "mirroring"
  /\ turn[t].to = {}
  /\ active' = active \cup {turn[t].conv}
  /\ turn' = IF turn[t].source = "web"
               THEN [turn EXCEPT ![t].phase = "streaming", ![t].streams = TRUE]
               ELSE [turn EXCEPT ![t].phase = "invoking"]
  /\ UNCHANGED <<stopped, pendingVars>>

\* A tool of the run ends or fails (handleToolEnd): the result goes to the
\* observers, the web channel among them.  One that runs when the stream is left
\* still reports.
ToolResult(t, agent) ==
  /\ \/ turn[t].phase \in {"streaming", "invoking"}
     \/ turn[t].loose
  /\ agent \notin turn[t].ran
  /\ turn' = [(IF turn[t].loose THEN Mix(turn, turn[t].conv) ELSE turn)
                EXCEPT ![t].ran = @ \cup {agent}]
  /\ IF WebObserves THEN WebQueue(turn[t].conv, <<t, agent>>) ELSE UNCHANGED pendingVars
  /\ UNCHANGED agentVars

\* Variant for mutation: chunks are yielded without a look at the stop requests.
ChunkUnchecked(t, from) ==
  /\ turn[t].phase = "streaming"
  /\ WebChunk(turn[t].conv, from)
  /\ turn' = Carry([turn EXCEPT ![t].text = TRUE], t, ChunkFrame(turn[t].conv, from))
  /\ UNCHANGED agentVars

\* The graph yields text, which no stop request precedes.
Chunk(t, from) ==
  /\ turn[t].phase = "streaming"
  /\ turn[t].conv \notin stopped
  /\ WebChunk(turn[t].conv, from)
  /\ turn' = Carry([turn EXCEPT ![t].text = TRUE], t, ChunkFrame(turn[t].conv, from))
  /\ UNCHANGED agentVars

\* The graph yields a chunk after a stop request: the request is consumed, and
\* the loop left.
Break(t) ==
  /\ turn[t].phase = "streaming"
  /\ turn[t].conv \in stopped
  /\ stopped' = stopped \ {turn[t].conv}
  /\ turn' = [turn EXCEPT ![t].phase = "ended", ![t].loose = TRUE]
  /\ UNCHANGED <<active, pendingVars>>

StreamEnds(t) ==
  /\ turn[t].phase = "streaming"
  /\ Goto(t, "ended")
  /\ UNCHANGED <<agentVars, pendingVars>>

\* The reply is sent: what is left is to mirror it.
Echoing(t) == [turn EXCEPT ![t].phase = "echoing", ![t].to = Others(turn[t].source)]

\* sendStream sends "done" with what is queued; the mirrors get the full text.
StreamDone(t) ==
  /\ turn[t].phase = "ended"
  /\ Send("web", turn[t].conv)
  /\ turn' = Carry(Echoing(t), t, WebFrame("web", turn[t].conv, {}))
  /\ UNCHANGED agentVars

\* Variant for mutation: a stop request outlives the turn it was for.
ClearActive(t) == active' = active \ {turn[t].conv} /\ UNCHANGED stopped

\* The finally block: by conversation, whichever turn made the entries.
Clear(t) ==
  /\ active' = active \ {turn[t].conv}
  /\ stopped' = stopped \ {turn[t].conv}

\* The stream throws: without any text so far the graph is invoked instead.
StreamFails(t) ==
  /\ turn[t].phase = "streaming"
  /\ IF turn[t].text
       THEN /\ turn' = [turn EXCEPT ![t].phase = "failing", ![t].loose = TRUE]
            /\ Clear(t)
       ELSE /\ turn' = [turn EXCEPT ![t].phase = "invoking", ![t].streams = FALSE,
                                    ![t].loose = TRUE]
            /\ UNCHANGED agentVars
  /\ UNCHANGED pendingVars

InvokeReturns(t) ==
  /\ turn[t].phase = "invoking"
  /\ Goto(t, "replying")
  /\ UNCHANGED <<agentVars, pendingVars>>

\* pendingToolContentItems and pendingToolReferences of the turn.
Attached(t) == As({t} \X turn[t].ran, "item") \cup As({t} \X turn[t].ran, "ref")

\* The reply is sent to the source channel, and will be to the other observers.
SendReply(t) ==
  /\ turn[t].phase = "replying"
  /\ Send(turn[t].source, turn[t].conv)
  /\ turn' = Carry(Echoing(t), t, WebFrame(turn[t].source, turn[t].conv, Attached(t)))
  /\ UNCHANGED agentVars

\* Variant for mutation: a reply that is not taken is computed anew.
InvokeRetried(t) ==
  /\ turn[t].phase \in {"invoking", "replying"}
  /\ turn[t].phase = "replying" => turn[t].source # "web"
  /\ Goto(t, "invoking")
  /\ UNCHANGED <<agentVars, pendingVars>>

\* The graph throws, or the source channel does not take the reply.
InvokeFails(t) ==
  /\ turn[t].phase \in {"invoking", "replying"}
  /\ turn[t].phase = "replying" => turn[t].source # "web"
  /\ turn' = [turn EXCEPT ![t].phase = "failing", ![t].loose = TRUE]
  /\ Clear(t)
  /\ UNCHANGED pendingVars

\* The reply is mirrored: with the attachments unless it was streamed.
Echo(t) ==
  /\ turn[t].phase = "echoing"
  /\ turn[t].to # {}
  /\ LET i == First(turn[t].to) IN
       /\ Send(Observers[i], turn[t].conv)
       /\ turn' = Carry([turn EXCEPT ![t].to = @ \ {i}], t,
                        WebFrame(Observers[i], turn[t].conv,
                                 IF turn[t].streams THEN {} ELSE Attached(t)))
  /\ UNCHANGED agentVars

\* emitTurnComplete, and the finally block.
Finish(t) ==
  /\ turn[t].phase = "echoing"
  /\ turn[t].to = {}
  /\ Clear(t)
  /\ Settle(t, "done")
  /\ UNCHANGED pendingVars

\* The handler of start() sends the error to the source and the observers: an
\* "error" frame takes nothing from the queues.
ReportError(t) ==
  /\ turn[t].phase = "failing"
  /\ Settle(t, "failed")
  /\ UNCHANGED <<agentVars, pendingVars>>

-----------------------------------------------------------------------------
(* The command                                                             *)

\* "!stop" of conversation c on channel ch: whether the conversation is active
\* decides the text that answers it, a text like a reply.
StopCommand(c, ch) ==
  /\ stopped' = IF c \in active THEN stopped \cup {c} ELSE stopped
  /\ Send(ch, c)
  /\ LET seen == IF ch = "web" THEN Mix(turn, c) ELSE turn
         Told(t) == c \in active /\ turn[t].phase = "streaming" /\ turn[t].conv = c
     IN turn' = [t \in Turns |->
                   IF Told(t) THEN [seen[t] EXCEPT !.told = TRUE] ELSE seen[t]]
  /\ UNCHANGED active

-----------------------------------------------------------------------------
NoTurn(t) == [phase |-> "idle", conv |-> CHOOSE c \in Convs : TRUE,
              source |-> CHOOSE s \in Sources : TRUE, to |-> {}, streams |-> FALSE, ran |-> {},
              text |-> FALSE, loose |-> FALSE, got |-> {}, told |-> FALSE,
              shared |-> FALSE, mixed |-> FALSE]

ConversationsInit ==
  /\ turn = [t \in Turns |-> NoTurn(t)]
  /\ active = {}
  /\ stopped = {}
  /\ items = [c \in Convs |-> {}]
  /\ refs = [c \in Convs |-> {}]
  /\ subRefs = [c \in Convs |-> {}]

\* What the turn does next, once the graph or a channel has done its part.
Proceed(t) ==
  \/ MirrorUser(t) \/ Run(t)
  \/ Break(t) \/ StreamEnds(t) \/ StreamFails(t) \/ StreamDone(t)
  \/ InvokeReturns(t) \/ InvokeFails(t) \/ SendReply(t)
  \/ Echo(t) \/ Finish(t) \/ ReportError(t)

ConversationsNext ==
  \/ \E t \in Turns :
       \/ \E c \in Convs, s \in Sources : Dispatch(t, c, s)
       \/ Proceed(t)
       \/ \E a \in AgentsOf(t) : ToolResult(t, a) \/ Chunk(t, a)
  \/ \E c \in Convs, ch \in Sources : StopCommand(c, ch)

ConversationsSpec == ConversationsInit /\ [][ConversationsNext]_conversationVars

\* A turn goes on: the graph ends or throws within its recursion limit, and a
\* channel takes a message or rejects it.
ConversationsFair == \A t \in Turns : WF_conversationVars(Proceed(t))

-----------------------------------------------------------------------------
(* Properties                                                              *)

ConversationsTypeOK ==
  /\ turn \in [Turns -> Turn]
  /\ active \subseteq Convs
  /\ stopped \subseteq Convs
  /\ items \in [Convs -> SUBSET Result]
  /\ refs \in [Convs -> SUBSET Result]
  /\ subRefs \in [Convs -> SUBSET (Turns \X {"helper"})]

\* A stop request never waits for a turn that has not begun: it is only kept for
\* an active conversation, and a conversation is only active while a turn of it
\* runs.
StopsAreForTheLiving ==
  /\ stopped \subseteq active
  /\ \A c \in active : \E t \in TurnsOf(c) : Running(t)

\* Once a stop is confirmed, a stream that has its conversation to itself yields
\* no further text.
StoppedIsSilent ==
  [][\A t \in Turns : turn[t].told /\ ~turn[t].shared => \A a \in Agents : ~Chunk(t, a)]_conversationVars

\* A turn that came to its end leaves nothing of its own in the queues for the
\* main agent, whatever the other turns of its conversation did.
QueuesDrain ==
  \A c \in Convs : \A x \in items[c] \cup refs[c] :
    turn[x[1]].phase # "done" \/ turn[x[1]].loose

\* A turn that had its conversation to itself has shown the web client what its
\* own tools returned, all of it and nothing else; the content of a sub-agent
\* only if the reply was not streamed.
TurnShowsItsOwn ==
  \A t \in Turns :
    turn[t].phase = "done" /\ ~turn[t].mixed /\ WebObserves =>
      LET kept == IF turn[t].streams THEN turn[t].ran \cap {"default"} ELSE turn[t].ran
      IN turn[t].got = As({t} \X kept, "item") \cup As({t} \X turn[t].ran, "ref")

\* Every message is answered, by a reply or an error.
EveryTurnEnds ==
  \A t \in Turns : turn[t].phase # "idle" ~> turn[t].phase \in {"done", "failed"}

\* What holds of the turns in every state.
TurnsCorrect == ConversationsTypeOK /\ StopsAreForTheLiving /\ QueuesDrain /\ TurnShowsItsOwn
=============================================================================
