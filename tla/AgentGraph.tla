----------------------------- MODULE AgentGraph -----------------------------
(***************************************************************************)
(* The graphs of an agent (graphs.ts) and the messages they show the       *)
(* model: the ReAct loop of a single agent, whose older messages are       *)
(* compressed into a digest, and the orchestrator, which hands over to     *)
(* such a loop.  Every prompt is repaired (sanitizeToolMessageSequence),   *)
(* since a run may end between a tool call and its results.                *)
(*                                                                         *)
(* The model, its tools and the checkpointer are external: a model answers *)
(* with text or up to two calls; a tool succeeds or fails in one of two    *)
(* ways; a run that throws, or is left, falls back to the checkpoint after *)
(* the last node of the outermost graph.  Runs of a conversation do not    *)
(* overlap here.  The thresholds of compression are abstracted: it may     *)
(* happen whenever there is a place to cut.                                *)
(***************************************************************************)
EXTENDS Naturals, SequencesExt

CONSTANTS
  MaxMessages,  \* bound: the messages of a conversation
  Preserve,     \* preserveRecentMessages
  Window        \* the last messages in which failures are counted: 10

ASSUME AgentGraphAssumption == MaxMessages \in Nat /\ Preserve \in Nat /\ Window \in Nat \ {0}

VARIABLES
  graph,    \* "single", "multi" or "bare": an orchestrator without tools of its own
  node,     \* the node to run next, or "rest"
  history,  \* the messages of the graph that runs
  saved,    \* the messages of the newest checkpoint
  fails     \* history: where the agent's rounds that failed in a row ended

graphVars == <<graph, node, history, saved, fails>>

AgentNodes == {"compress", "agent", "tools", "tool_failure_stop"}
Nodes == AgentNodes \cup {"rest", "orchestrator", "orchestrator_tools"}
Outcomes == {"ok", "error A", "error B"}

\* n is the place of a message in the history (0: a placeholder).
Human(n) == [kind |-> "human", n |-> n]
AI(n, calls) == [kind |-> "ai", n |-> n, calls |-> calls]
Tool(n, of, out) == [kind |-> "tool", n |-> n, of |-> of, out |-> out]
Digest(n, count, covers) ==
  [kind |-> "digest", n |-> n, count |-> count, covers |-> covers]
IsTool(m) == m.kind = "tool"
Failed(m) == IsTool(m) /\ m.out # "ok"
CallsOf(m) == IF m.kind = "ai" THEN m.calls ELSE <<>>

-----------------------------------------------------------------------------
(* What the model is shown                                                 *)

Placeholder(call) == [kind |-> "tool", n |-> 0, of |-> call, out |-> "ok"]
Flush(s) == s.out \o [i \in 1..Len(s.pending) |-> Placeholder(s.pending[i])]

\* The first place of the call among those that are pending; else the first of all.
Place(pending, call) ==
  IF Contains(pending, call) THEN CHOOSE k \in 1..Len(pending) :
                                    pending[k] = call /\ \A j \in 1..(k - 1) : pending[j] # call
  ELSE 1

\* Variants for mutation: a message of the user is no reason to answer what is
\* pending; a result is taken for the last call that is pending.
RepairLate(s, m) ==
  IF m.kind = "ai" THEN [pending |-> m.calls, out |-> Append(Flush(s), m)]
  ELSE IF ~IsTool(m) THEN [s EXCEPT !.out = Append(@, m)]
  ELSE IF s.pending = <<>> THEN s
  ELSE LET k == Place(s.pending, m.of)
       IN [pending |-> RemoveAt(s.pending, k), out |-> Append(s.out, [m EXCEPT !.of = s.pending[k]])]
RepairInOrder(s, m) ==
  IF ~IsTool(m) THEN [pending |-> CallsOf(m), out |-> Append(Flush(s), m)]
  ELSE IF s.pending = <<>> THEN s
  ELSE [pending |-> Front(s.pending),
        out |-> Append(s.out, [m EXCEPT !.of = Last(s.pending)])]

\* One message: any but a result answers what is pending with placeholders; a
\* result without a pending call is dropped, one of another call than those is
\* taken for the first.
Repair(s, m) ==
  IF ~IsTool(m) THEN [pending |-> CallsOf(m), out |-> Append(Flush(s), m)]
  ELSE IF s.pending = <<>> THEN s
  ELSE LET k == Place(s.pending, m.of)
       IN [pending |-> RemoveAt(s.pending, k), out |-> Append(s.out, [m EXCEPT !.of = s.pending[k]])]

\* What is pending and what has come out after each of the messages.
Repaired(messages) ==
  LET after[k \in 0..Len(messages)] ==
        IF k = 0 THEN [pending |-> <<>>, out |-> <<>>] ELSE Repair(after[k - 1], messages[k])
  IN after
sanitizeToolMessageSequence(messages) == Flush(Repaired(messages)[Len(messages)])

\* What is left of the first messages, for each number of them.
Stripped(messages) ==
  LET left[k \in 0..Len(messages)] ==
        IF k = 0 THEN <<>>
        ELSE IF messages[k].kind = "digest" THEN left[k - 1] ELSE Append(left[k - 1], messages[k])
  IN left
stripCompressionStateMessages(messages) == Stripped(messages)[Len(messages)]

getLatestCompressionState(messages) ==
  LET digests == {i \in 1..Len(messages) : messages[i].kind = "digest"}
  IN IF digests = {} THEN Digest(0, 0, {}) ELSE messages[CHOOSE i \in digests : \A j \in digests : j <= i]

\* The messages that the newest digest does not stand for.
getVisibleConversationMessages(messages) ==
  LET all == stripCompressionStateMessages(messages)
  IN SubSeq(all, getLatestCompressionState(messages).count + 1, Len(all))

\* An agent sees the digest and what is visible; an orchestrator all.
Prompt ==
  sanitizeToolMessageSequence(
    IF node = "agent" THEN getVisibleConversationMessages(history) ELSE history)

-----------------------------------------------------------------------------
(* maybe_compress                                                          *)

\* Variant for mutation: the tail may begin with a result.
CutAnywhere(visible, c) == TRUE

\* The messages after c begin with no result, and hold none of a call at c.
SafeCut(visible, c) ==
  /\ c < Len(visible) => ~IsTool(visible[c + 1])
  /\ \A i \in c+1..Len(visible) :
       IsTool(visible[i]) => ~Contains(CallsOf(visible[c]), visible[i].of)

\* The last place to cut, or 0.
Cut(visible) ==
  LET safe == {c \in 1..(Len(visible) - Preserve) : SafeCut(visible, c)}
  IN IF safe = {} THEN 0 ELSE CHOOSE c \in safe : \A d \in safe : d <= c

\* The digest made of the previous one and a part of the visible messages.
NextDigest(previous, part) ==
  Digest(Len(history) + 1, previous.count + Len(part),
         previous.covers \cup {part[i].n : i \in 1..Len(part)})

-----------------------------------------------------------------------------
(* The nodes                                                               *)

\* The outermost graph is checkpointed after each of its nodes: a sub-agent runs
\* within one.
Step(next, messages) ==
  /\ Len(messages) <= MaxMessages
  /\ node' = next
  /\ history' = messages
  /\ saved' = IF graph # "single" /\ next \in AgentNodes /\ node # "orchestrator"
                THEN saved ELSE messages
  /\ UNCHANGED graph

End == IF graph = "single" THEN "rest" ELSE "orchestrator"

\* The user's message begins a run, on the newest checkpoint.
TurnBegins ==
  /\ node = "rest"
  /\ Len(saved) < MaxMessages
  /\ history' = Append(saved, Human(Len(saved) + 1))
  /\ saved' = history'
  /\ node' = IF graph = "single" THEN "compress" ELSE "orchestrator"
  /\ fails' = {}
  /\ UNCHANGED graph

\* Below the thresholds, without a place to cut, or with an empty digest nothing
\* changes.
MaybeCompress ==
  /\ node = "compress"
  /\ LET visible == getVisibleConversationMessages(history)
         cut == Cut(visible)
     IN \/ Step("agent", history)
        \/ /\ cut > 0
           /\ Step("agent", Append(history, NextDigest(getLatestCompressionState(history),
                                                       SubSeq(visible, 1, cut))))
  /\ UNCHANGED fails

\* A reply with k calls, which comes next in the history.
Reply(k) == AI(Len(history) + 1, [i \in 1..k |-> 2 * Len(history) + i])

CallAgent ==
  /\ node = "agent"
  /\ \E k \in 0..2 : Step(IF k = 0 THEN End ELSE "tools", Append(history, Reply(k)))
  /\ UNCHANGED fails

Results(calls, outcome) ==
  [i \in 1..Len(calls) |-> Tool(Len(history) + i, calls[i], outcome[i])]

\* Variant for mutation: only one of the last two rounds is looked at.
RepeatedOnly(messages) ==
  /\ Failed(Last(messages))
  /\ Len(messages) > 1
  /\ Failed(messages[Len(messages) - 1])

\* The last result failed, and of the messages before it in the window one failed
\* like it, or two did.
hasRepeatedRecentToolFailure(messages) ==
  LET n == Len(messages)
      earlier == {i \in 1..(n - 1) : i > n - Window /\ Failed(messages[i])}
  IN /\ Failed(messages[n])
     /\ \/ \E i \in earlier : messages[i].out = messages[n].out
        \/ \E i, j \in earlier : i # j

RunTools ==
  /\ node = "tools"
  /\ \E outcome \in [1..Len(Last(history).calls) -> Outcomes] :
       LET after == history \o Results(Last(history).calls, outcome)
       IN /\ fails' = IF Failed(Last(after)) THEN fails \cup {Len(after)} ELSE {}
          /\ Step(IF hasRepeatedRecentToolFailure(after) THEN "tool_failure_stop" ELSE "compress",
                  after)

ToolFailureStop ==
  /\ node = "tool_failure_stop"
  /\ Step(End, Append(history, Reply(0)))
  /\ UNCHANGED fails

\* The orchestrator replies with text or calls of its own tools; without tools
\* the run ends, and the calls stay in the history.
Orchestrate ==
  /\ node = "orchestrator"
  /\ \E k \in 0..2 :
       Step(IF k > 0 /\ graph = "multi" THEN "orchestrator_tools" ELSE "rest",
            Append(history, Reply(k)))
  /\ UNCHANGED fails

\* It delegates: every call of the reply is answered, since only the delegation is
\* carried out.  What the task says may read like a failure.
HandOff ==
  /\ node = "orchestrator"
  /\ \E k \in 1..2, out \in {"ok", "error A"} :
       Step("compress", history \o <<Reply(k)>> \o
              [i \in 1..k |-> Tool(Len(history) + 1 + i, Reply(k).calls[i], out)])
  /\ fails' = {}

\* A delegation in plain text becomes a call, with its answer.
TextHandOff ==
  /\ node = "orchestrator"
  /\ LET text == Append(history, Reply(0))
         call == AI(Len(text) + 1, <<2 * Len(text) + 1>>)
     IN Step("compress", text \o <<call, Tool(Len(text) + 2, call.calls[1], "ok")>>)
  /\ fails' = {}

OrchestratorTools ==
  /\ node = "orchestrator_tools"
  /\ \E outcome \in [1..Len(Last(history).calls) -> Outcomes] :
       Step("orchestrator", history \o Results(Last(history).calls, outcome))
  /\ UNCHANGED fails

\* A node throws, the recursion limit is reached, the stream is left, or the
\* gateway ends.
Abort ==
  /\ node # "rest"
  /\ node' = "rest"
  /\ history' = saved
  /\ UNCHANGED <<graph, saved, fails>>

GraphInit ==
  /\ graph \in {"single", "multi", "bare"}
  /\ node = "rest"
  /\ history = <<>>
  /\ saved = <<>>
  /\ fails = {}

GraphNext ==
  \/ TurnBegins \/ MaybeCompress \/ CallAgent \/ RunTools \/ ToolFailureStop
  \/ Orchestrate \/ HandOff \/ TextHandOff \/ OrchestratorTools \/ Abort

GraphSpec == GraphInit /\ [][GraphNext]_graphVars

-----------------------------------------------------------------------------
(* Properties                                                              *)

GraphTypeOK ==
  /\ node \in Nodes
  /\ saved = SubSeq(history, 1, Len(saved))
  /\ \A i \in 1..Len(history) : history[i].n = i
  /\ \A i \in 1..Len(history) : history[i].kind \in {"human", "ai", "tool", "digest"}

Asking == node \in {"agent", "orchestrator"}

\* The calls of message i of p are answered right after it, each once, and nothing
\* else is.
Answered(p, i) ==
  LET calls == CallsOf(p[i])
      next == i + Len(calls) + 1
  IN /\ next <= Len(p) + 1
     /\ \A j \in i+1..next-1 : IsTool(p[j])
     /\ {p[j].of : j \in i+1..next-1} = ToSet(calls)
     /\ next <= Len(p) => ~IsTool(p[next])

\* What a provider insists on, whatever became of earlier runs and wherever the
\* messages were cut.
PromptIsWellFormed ==
  Asking => LET p == Prompt
            IN /\ p # <<>> => ~IsTool(p[1])
               /\ \A i \in 1..Len(p) : IsTool(p[i]) \/ Answered(p, i)

\* A result is only ever shown as that of the call that it is the result of.
ResultsKeepTheirCalls ==
  Asking => LET p == Prompt
            IN \A i \in 1..Len(p) :
                 IsTool(p[i]) /\ p[i].n > 0 => p[i].of = history[p[i].n].of

\* Each message of the conversation is shown, or the digest that is shown was made
\* of it.
NothingIsForgotten ==
  Asking =>
    LET p == Prompt
        shown == {p[i].n : i \in 1..Len(p)}
    IN \A i \in 1..Len(history) :
         \/ history[i].kind = "digest"
         \/ i \in shown
         \/ node = "agent" /\ i \in getLatestCompressionState(history).covers

\* An agent does not go on after three rounds in a row that ended with a failure
\* within the window, however the failures differ, the rounds are compressed and
\* runs were aborted before.  (Rounds of many calls need not fit in the window.)
FailuresStop ==
  node = "agent" => ~\E i, j, k \in fails : i < j /\ j < k /\ k - i < Window

\* What an agent is shown whenever it is asked.
PromptCorrect ==
  GraphTypeOK /\ PromptIsWellFormed /\ ResultsKeepTheirCalls /\ NothingIsForgotten /\ FailuresStop
=============================================================================
