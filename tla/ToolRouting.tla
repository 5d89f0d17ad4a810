----------------------------- MODULE ToolRouting -----------------------------
(***************************************************************************)
(* From the tool servers of the configuration to a call of the model's:    *)
(* their discovery at the start of the gateway, in any order, with two     *)
(* lists asked of each server (a restart between them may change what it   *)
(* offers); the router made of the mailbox servers; the probes; and the    *)
(* calls of an agent, with what the turn adds to their arguments on the    *)
(* way (injectToolContextArgs, the tool's schema, RemoteTool._call).       *)
(*                                                                         *)
(* A tool has a name, may upload content, may need privilege, and declares *)
(* some of the context's arguments as parameters.  Several servers may     *)
(* offer tools of one name.                                                *)
(***************************************************************************)
EXTENDS Integers, FiniteSets, SequencesExt

CONSTANTS
  Plains,      \* tool servers without an imap block
  Mailboxes,   \* and those with one
  Transport,   \* of each server
  Offerings,   \* of each server: the sets of tools it may register
  RoutedNames, \* the names that begin with "imap_"
  AgentEntries,      \* each: the names it is allowed and the servers it discovers from
  Ailing,      \* the servers whose own health check finds something wrong
  MaxInline,   \* maxInlineToolResultBytes
  MaxRestarts, \* bound: servers that restart
  MaxToolCalls \* bound: calls

VARIABLES
  routing,     \* "discovering", "probing" or "running"
  offers,      \* what each server offers, nothing when it is down
  restarts,
  asked,       \* of each server: "connecting", "asked" (the second list), "told" or "failed"
  metadata,    \* of each server: the answer to the first list
  allTools,    \* the tools, in the order they arrived
  toolRegistry,\* and their definitions
  namesBy,     \* discoveredToolNamesByServer, in its order of insertion
  statuses,    \* toolServerStatuses
  instances,   \* imapInstances
  lastCall,        \* history: the last call, as it reached its server
  callsMade

discoveryVars == <<routing, asked, metadata, allTools, toolRegistry, namesBy, statuses, instances>>
routingVars == <<discoveryVars, offers, restarts, lastCall, callsMade>>

Servers == Plains \cup Mailboxes
ContextArgs == {"conversationId", "privilegeGrantId", "contentUploadAuth"}
ToolMetadata == [name : STRING, uploads : BOOLEAN, privileged : BOOLEAN, declares : SUBSET ContextArgs]

\* A server has an imap block or none, and registers finitely many tools; "router"
\* stands for the router's own.
ASSUME RoutingAssumption ==
  /\ Plains \cap Mailboxes = {} /\ "router" \notin Servers /\ IsFiniteSet(Mailboxes)
  /\ \A s \in Servers : \A o \in Offerings[s] : o \subseteq ToolMetadata /\ IsFiniteSet(o)
  /\ MaxInline \in Nat
NamesOf(tools) == {t.name : t \in tools}
FirstNamed(seq, name) == SelectInSeq(seq, LAMBDA t : t.name = name)
LastNamed(seq, name) == SelectLastInSeq(seq, LAMBDA t : t.name = name)
NoToolCall == [server |-> "none"]
Absent == << >>

Status(discovered, names) == [discovered |-> discovered, names |-> names, healthy |-> "unknown"]

-----------------------------------------------------------------------------
(* Discovery                                                               *)

\* discoveredToolNamesByServer[s] = names: a key keeps the place it first had.
SetNames(s, names) ==
  LET at == SelectInSeq(namesBy, LAMBDA e : e.server = s)
      entry == [server |-> s, names |-> names]
  IN IF at = 0 THEN Append(namesBy, entry) ELSE ReplaceAt(namesBy, at, entry)

\* The tools of s, each with where a call of it goes.
Bound(s, tools) ==
  LET entry(t) == [name |-> t.name, uploads |-> t.uploads, privileged |-> t.privileged,
                   declares |-> t.declares, server |-> s]
  IN SetToSeq({entry(t) : t \in tools})

\* Variant for mutation: the definitions are kept as soon as they are heard.
ListAndRegister(s) ==
  /\ routing = "discovering" /\ asked[s] = "connecting" /\ offers[s] # {}
  /\ metadata' = [metadata EXCEPT ![s] = offers[s]]
  /\ asked' = [asked EXCEPT ![s] = IF s \in Mailboxes THEN "told" ELSE "asked"]
  /\ instances' = IF s \in Mailboxes THEN Append(instances, s) ELSE instances
  /\ toolRegistry' = toolRegistry \o Bound(s, offers[s])
  /\ UNCHANGED <<routing, allTools, namesBy, statuses, offers, restarts, lastCall, callsMade>>

\* connect and the first listTools; a mailbox server is asked no more.
ListTools(s) ==
  /\ routing = "discovering" /\ asked[s] = "connecting" /\ offers[s] # {}
  /\ metadata' = [metadata EXCEPT ![s] = offers[s]]
  /\ asked' = [asked EXCEPT ![s] = IF s \in Mailboxes THEN "told" ELSE "asked"]
  /\ instances' = IF s \in Mailboxes THEN Append(instances, s) ELSE instances
  /\ UNCHANGED <<routing, allTools, toolRegistry, namesBy, statuses, offers, restarts, lastCall, callsMade>>

\* RemoteTool.fromServer, and what is kept of it.
FromServer(s) ==
  /\ routing = "discovering" /\ asked[s] = "asked" /\ offers[s] # {}
  /\ asked' = [asked EXCEPT ![s] = "told"]
  /\ allTools' = allTools \o Bound(s, offers[s])
  /\ toolRegistry' = toolRegistry \o Bound(s, metadata[s])
  /\ namesBy' = SetNames(s, NamesOf(offers[s]))
  /\ statuses' = [statuses EXCEPT ![s] = Status(TRUE, NamesOf(offers[s]))]
  /\ UNCHANGED <<routing, metadata, instances, offers, restarts, lastCall, callsMade>>

\* The connection or either list fails.
DiscoveryFails(s) ==
  /\ routing = "discovering" /\ asked[s] \in {"connecting", "asked"} /\ offers[s] = {}
  /\ asked' = [asked EXCEPT ![s] = "failed"]
  /\ namesBy' = SetNames(s, {})
  /\ statuses' = [statuses EXCEPT ![s] = Status(FALSE, {})]
  /\ UNCHANGED <<routing, metadata, allTools, toolRegistry, instances, offers, restarts, lastCall, callsMade>>

\* createImapRouterTools: a tool is the first instance's that offers it, with an
\* instance for another parameter.
RoutedTools ==
  LET names == RoutedNames \cap UNION {NamesOf(metadata[s]) : s \in ToSet(instances)}
      from(n) == instances[SelectInSeq(instances, LAMBDA s : n \in NamesOf(metadata[s]))]
      entry(n) == LET t == CHOOSE t \in metadata[from(n)] : t.name = n IN
                  [name |-> n, uploads |-> t.uploads, privileged |-> t.privileged,
                   declares |-> t.declares, server |-> "router"]
  IN SetToSeq({entry(n) : n \in names})

\* All are told or have failed: the router is made, and every instance offers all of it.
Discovered ==
  /\ routing = "discovering" /\ \A s \in Servers : asked[s] \in {"told", "failed"}
  /\ routing' = "probing"
  /\ LET names == {RoutedTools[i].name : i \in DOMAIN RoutedTools} IN
     IF instances = << >> THEN UNCHANGED <<allTools, toolRegistry, namesBy, statuses>>
     ELSE /\ allTools' = allTools \o RoutedTools
          /\ toolRegistry' = toolRegistry \o RoutedTools
          /\ namesBy' = namesBy \o [i \in DOMAIN instances |-> [server |-> instances[i], names |-> names]]
          /\ statuses' = [s \in Servers |->
                            IF s \in ToSet(instances) THEN Status(TRUE, names) ELSE statuses[s]]
  /\ UNCHANGED <<asked, metadata, instances, offers, restarts, lastCall, callsMade>>

\* Variant for mutation: every enabled server is probed.
ProbeAny(s) ==
  /\ routing = "probing" /\ statuses[s].healthy = "unknown"
  /\ statuses' = [statuses EXCEPT ![s].healthy = IF offers[s] = {} \/ s \in Ailing THEN "no" ELSE "yes"]
  /\ UNCHANGED <<routing, asked, metadata, allTools, toolRegistry, namesBy, instances, offers,
                 restarts, lastCall, callsMade>>

\* checkToolHealth of one server: no connection or no answer is ill health.
ProbeServers(s) ==
  /\ routing = "probing" /\ statuses[s].discovered /\ statuses[s].healthy = "unknown"
  /\ statuses' = [statuses EXCEPT ![s].healthy = IF offers[s] = {} \/ s \in Ailing THEN "no" ELSE "yes"]
  /\ UNCHANGED <<routing, asked, metadata, allTools, toolRegistry, namesBy, instances, offers,
                 restarts, lastCall, callsMade>>

Probed ==
  /\ routing = "probing" /\ \A s \in Servers : statuses[s].discovered => statuses[s].healthy # "unknown"
  /\ routing' = "running"
  /\ UNCHANGED <<asked, metadata, allTools, toolRegistry, namesBy, statuses, instances, offers,
                 restarts, lastCall, callsMade>>

\* A tool server goes down, or comes back with what it now registers.
ServerRestarts(s) ==
  /\ restarts < MaxRestarts /\ callsMade < MaxToolCalls /\ restarts' = restarts + 1
  /\ \E o \in Offerings[s] \cup {{}} : o # offers[s] /\ offers' = [offers EXCEPT ![s] = o]
  /\ UNCHANGED <<discoveryVars, lastCall, callsMade>>

-----------------------------------------------------------------------------
(* A call                                                                  *)

\* resolveAllowedToolNames and scopeTools: an agent with a list is given the tools it
\* names, and those of the servers it discovers from.
Scoped(agent, name) ==
  \/ agent.all \/ name \in agent.tools
  \/ \E i \in DOMAIN namesBy : namesBy[i].server \in agent.discovers /\ name \in namesBy[i].names

\* Variant for mutation: the last that discovered the name.
LastEntryFor(name) ==
  LET at == SelectLastInSeq(namesBy, LAMBDA e : name \in e.names) IN
  IF at = 0 THEN "none" ELSE namesBy[at].server

\* resolveToolServerEntryForTool: the first that discovered the name.
ServerEntryFor(name) ==
  LET at == SelectInSeq(namesBy, LAMBDA e : name \in e.names) IN
  IF at = 0 THEN "none" ELSE namesBy[at].server

\* buildContentUploadAuthByTool: what a turn in this conversation has for this tool.
UploadAuth(name, conversation) ==
  IF /\ \E i \in DOMAIN toolRegistry : toolRegistry[i].name = name /\ toolRegistry[i].uploads
     /\ ServerEntryFor(name) # "none"
  THEN <<conversation, name, Transport[ServerEntryFor(name)]>>
  ELSE Absent

\* The turn's own values of the context arguments.
TurnContext(turn, name) ==
  [conversationId |-> <<turn.conversation>>, privilegeGrantId |-> turn.grant,
   contentUploadAuth |-> UploadAuth(name, turn.conversation)]

Takes(tool, arg) == IF arg = "contentUploadAuth" THEN tool.uploads ELSE tool.privileged

\* injectToolContextArgs, by the last tool of the name: what is absent is added.
Injected(tool, args, context) ==
  [a \in ContextArgs |-> IF Takes(tool, a) /\ args[a] = Absent THEN context[a] ELSE args[a]]

\* The schema the call is parsed by: arguments it does not declare are dropped.
Parsed(tool, args) == [a \in ContextArgs |-> IF a \in tool.declares THEN args[a] ELSE Absent]

\* Variant for mutation: what the model wrote is let stand.
ContextIfAbsent(tool, args, context) == Injected(tool, args, context)

\* RemoteTool._call: the turn's values stand over the model's.
Overridden(tool, args, context) ==
  [a \in ContextArgs |-> IF Takes(tool, a) /\ context[a] # Absent THEN context[a] ELSE args[a]]

\* Variant for mutation: an object without a data field is handed on as it is.
InlineUnlessData(result) ==
  IF result.kind = "nothing" THEN "throws"
  ELSE IF result.kind = "text" /\ result.size > MaxInline THEN "preview"
  ELSE IF result.kind = "object" /\ result.data > MaxInline THEN "without data"
  ELSE "whole"

\* What _call returns of a result: maybeCompactLargePayload, then the serialized size.
Inlined(result) ==
  IF result.kind = "nothing" THEN "throws"
  ELSE IF result.kind = "text" /\ result.size > MaxInline THEN "preview"
  ELSE IF result.kind = "object" /\ result.data > MaxInline THEN "without data"
  ELSE IF result.kind = "object" /\ result.size > MaxInline THEN "replaced"
  ELSE "whole"

\* Every size an answer can have about the limit; data is part of an object.
ToolResults ==
  {[kind |-> "nothing", size |-> 0, data |-> 0]}
    \cup {[kind |-> "text", size |-> n, data |-> 0] : n \in MaxInline..MaxInline + 1}
    \cup {r \in [kind : {"object"}, size : MaxInline..MaxInline + 2, data : {0, MaxInline, MaxInline + 1}] :
            r.data < r.size}

\* dispatch: a server that is down answers nothing, one that does not know the tool an
\* error; the client throws either way.
Answers(server, name) == name \in NamesOf(offers[server])

Returned(tool, server, result) ==
  IF ~Answers(server, tool.name) THEN "throws"
  ELSE IF tool.server = "router" THEN "whole" ELSE Inlined(result)

\* An agent calls a tool by name in a turn: the first of the name is executed, here or
\* through the router; the server answers, does not know the tool, or is not there.
CallTool(agent, turn, name, args, m) ==
  LET tool == allTools[FirstNamed(allTools, name)]
      context == TurnContext(turn, name)
      parsed == Parsed(tool, Injected(allTools[LastNamed(allTools, name)], args, context))
      server == IF tool.server = "router" THEN m ELSE tool.server
  IN
  /\ routing = "running" /\ callsMade < MaxToolCalls
  /\ FirstNamed(allTools, name) # 0 /\ Scoped(agent, name)
  /\ tool.server = "router" => m \in ToSet(instances)
  /\ callsMade' = callsMade + 1
  /\ \E result \in ToolResults :
       lastCall' = [server |-> server, tool |-> tool, agent |-> agent, turn |-> turn,
                args |-> IF tool.server = "router" THEN parsed ELSE Overridden(tool, parsed, context),
                result |-> result,
                returned |-> Returned(tool, server, result)]
  /\ UNCHANGED <<discoveryVars, offers, restarts>>

-----------------------------------------------------------------------------
RoutingInit ==
  /\ routing = "discovering"
  /\ offers \in {o \in [Servers -> UNION {Offerings[s] : s \in Servers}] : \A s \in Servers : o[s] \in Offerings[s]}
  /\ restarts = 0
  /\ asked = [s \in Servers |-> "connecting"]
  /\ metadata = [s \in Servers |-> {}]
  /\ allTools = << >> /\ toolRegistry = << >> /\ namesBy = << >> /\ instances = << >>
  /\ statuses = [s \in Servers |-> Status(FALSE, {})]
  /\ lastCall = NoToolCall /\ callsMade = 0

\* What the model may write of the context: nothing, or all of it made up.
Written == {[a \in ContextArgs |-> v] : v \in {Absent, <<"made up">>}}
RoutedTurns == [conversation : {"c"}, grant : {Absent, <<"g">>}]

RoutingNext ==
  \/ \E s \in Servers : ListTools(s) \/ FromServer(s) \/ DiscoveryFails(s) \/ ProbeServers(s) \/ ServerRestarts(s)
  \/ Discovered \/ Probed
  \/ \E agent \in AgentEntries, turn \in RoutedTurns, args \in Written, m \in Mailboxes :
       \E name \in {allTools[i].name : i \in DOMAIN allTools} : CallTool(agent, turn, name, args, m)

RoutingSpec == RoutingInit /\ [][RoutingNext]_routingVars

-----------------------------------------------------------------------------
(* What discovery and calls promise                                        *)

\* The names of the tools that a list has of a server.
NamesFrom(tools, s) == {tools[i].name : i \in {k \in DOMAIN tools : tools[k].server = s}}

\* A server counts as discovered exactly when its tools are among those agents are given,
\* by the names it is shown with, and only then has it a health; of a server that failed
\* between the two lists nothing is left.
StatusTrue ==
  \A s \in Servers :
    /\ s \in Plains => statuses[s].names = NamesFrom(allTools, s)
    /\ ~statuses[s].discovered =>
         NamesFrom(allTools, s) = {} /\ NamesFrom(toolRegistry, s) = {} /\ statuses[s].healthy = "unknown"

\* What the turn knows stands over what the model wrote: a privileged remote tool runs
\* in the turn's conversation under the turn's grant.
OwnContext ==
  (lastCall # NoToolCall /\ lastCall.tool.server # "router" /\ lastCall.tool.privileged) =>
    /\ lastCall.args.conversationId = <<lastCall.turn.conversation>>
    /\ lastCall.turn.grant # Absent => lastCall.args.privilegeGrantId = lastCall.turn.grant

\* The upload token of a call is one for this conversation and tool, and over the
\* transport of the server that is called, whatever order the servers answered in.
OwnUploadAuth ==
  LET auth == lastCall.args.contentUploadAuth IN
  (lastCall # NoToolCall /\ lastCall.tool.server # "router" /\ lastCall.tool.uploads
     /\ UploadAuth(lastCall.tool.name, lastCall.turn.conversation) # Absent) =>
    auth = <<lastCall.turn.conversation, lastCall.tool.name, Transport[lastCall.server]>>

\* The definition that observers are shown of a call (the first of its name) is that
\* of the server called, if the server had it when first asked and every server still
\* had, when asked again, what it had named at first.
ShownDefinition ==
  (/\ lastCall # NoToolCall /\ lastCall.tool.server # "router"
   /\ lastCall.tool.name \in NamesOf(metadata[lastCall.server])
   /\ \A s \in Plains : statuses[s].discovered => NamesOf(metadata[s]) \subseteq statuses[s].names) =>
    toolRegistry[FirstNamed(toolRegistry, lastCall.tool.name)].server = lastCall.server

\* A result is handed to the model whole exactly when it fits.
InlineBounded ==
  (lastCall # NoToolCall /\ lastCall.tool.server # "router" /\ lastCall.returned # "throws") =>
    (lastCall.returned = "whole") <=> (lastCall.result.size <= MaxInline)

\* An agent with a list reaches only tools that the list, or a server it discovers
\* from, names.
WithinAllowList ==
  (lastCall # NoToolCall /\ ~lastCall.agent.all) =>
    \/ lastCall.tool.name \in lastCall.agent.tools
    \/ \E s \in lastCall.agent.discovers : lastCall.tool.name \in statuses[s].names

\* Tools are discovered, listed for agents and called as the configuration and the turn say.
RoutingCorrect ==
  /\ StatusTrue /\ OwnContext /\ OwnUploadAuth /\ ShownDefinition /\ InlineBounded /\ WithinAllowList
=============================================================================
