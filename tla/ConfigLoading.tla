---------------------------- MODULE ConfigLoading ----------------------------
(***************************************************************************)
(* What the gateway makes of its configuration: secrets are put into the   *)
(* strings (SecretStore.resolveString), references between the files are   *)
(* checked (ConfigLoader), entries are merged over their defaults, and     *)
(* graphs are built of agents and subgraph profiles (Gateway).  The checks *)
(* and the uses of a reference are in different files: what a loaded       *)
(* configuration may still fail with is what the first leave open.         *)
(*                                                                         *)
(* A string is a sequence of braces, "S" for SECRET:name, and words; "V"   *)
(* stands for the value of the secret.                                     *)
(***************************************************************************)
EXTENDS Naturals, FiniteSetsExt, Sequences

CONSTANTS
  ConfigFiles, \* what the files may hold: a string, agents (functions of keys to prompt and
               \* compression), subgraphs (of keys to agentKey, prompt and the tool of the
               \* compression block) and a graph (orchestrator, subAgents, memory, compression)
  KnownTools   \* the tools discovered

VARIABLES
  string, agents, subgraphs, graph, \* the files, "none" for what an entry leaves open
  loading,                          \* "no", "loaded" or "refused"
  resolved,                         \* the string as it was loaded
  built                             \* the graph: how building it ended, and its agents

loadingVars == <<string, agents, subgraphs, graph, loading, resolved, built>>
filesVars == <<string, agents, subgraphs, graph>>
None == "none"
NotBuilt == [failures |-> {}, first |-> << >>, rest |-> << >>]

-----------------------------------------------------------------------------
(* SecretStore.resolveString                                               *)

EscapedAt(s, i) == i + 4 <= Len(s) /\ SubSeq(s, i, i + 4) = <<"{", "{", "S", "}", "}">>
ReferenceAt(s, i) == i + 2 <= Len(s) /\ SubSeq(s, i, i + 2) = <<"{", "S", "}">>

\* Variant for mutation: references first, then what is still escaped.
ResolveReferencesFirst(s) ==
  LET from[i \in 1..Len(s) + 1] ==
        IF i > Len(s) THEN << >>
        ELSE IF ReferenceAt(s, i) THEN <<"V">> \o from[i + 3]
        ELSE <<s[i]>> \o from[i + 1]
  IN from[1]

\* One pass, and what is put in is not looked at again.
ResolveString(s) ==
  LET from[i \in 1..Len(s) + 1] ==
        IF i > Len(s) THEN << >>
        ELSE IF EscapedAt(s, i) THEN <<"{", "S", "}">> \o from[i + 5]
        ELSE IF ReferenceAt(s, i) THEN <<"V">> \o from[i + 3]
        ELSE <<s[i]>> \o from[i + 1]
  IN from[1]

-----------------------------------------------------------------------------
(* ConfigLoader                                                            *)

\* Variant for mutation: the profiles that only graphs name are not looked up.
ReferencesOfAgents ==
  {agents[k].compression : k \in DOMAIN agents}

\* validateSubgraphReferences: every subgraph that an agent or a graph names.
References ==
  {agents[k].compression : k \in DOMAIN agents} \cup {graph.memory}
    \cup {graph.compression[k] : k \in DOMAIN graph.compression}

LoadConfig ==
  /\ loading = "no"
  /\ loading' = IF References \ {None} \subseteq DOMAIN subgraphs THEN "loaded" ELSE "refused"
  /\ resolved' = ResolveString(string)
  /\ UNCHANGED <<filesVars, built>>

Or(x, y) == IF x # None THEN x ELSE y

\* deepMerge, of entries without nested values: what the override leaves open is
\* the base's.
MergedOver(base, override) == [f \in DOMAIN base |-> Or(override[f], base[f])]

\* resolveConfigEntry: an entry over the default one.
AgentEntry(key) == IF key = "default" THEN agents[key] ELSE MergedOver(agents["default"], agents[key])

-----------------------------------------------------------------------------
(* Gateway.buildAgentGraph                                                 *)

\* Variant for mutation: the default profile is put over the named one.
DefaultOverProfile(key) ==
  IF "default" \in DOMAIN subgraphs THEN MergedOver(subgraphs[key], subgraphs["default"])
  ELSE subgraphs[key]

\* resolveSubgraphProfile: a profile over the default one, if there is one.
Profile(key) ==
  IF "default" \in DOMAIN subgraphs THEN MergedOver(subgraphs["default"], subgraphs[key])
  ELSE subgraphs[key]

\* resolveAgentEntryFromSubgraphProfile: the agent of the profile, under it.
BaseAgent(profile) == Or(profile.agentKey, "memory")
MemoryEntry(profile) ==
  [AgentEntry(BaseAgent(profile)) EXCEPT !.prompt = Or(profile.prompt, @)]

SubAgents == graph.subAgents \cup (IF graph.memory # None THEN {"memory"} ELSE {})

\* The subgraph that compresses for an agent: the graph's choice, or the agent's.
CompressionKey(key, entry) ==
  IF key \in DOMAIN graph.compression THEN Or(graph.compression[key], entry.compression)
  ELSE entry.compression

\* The agent that a sub-agent is made of, and its entry.
FromProfile(key) == key = "memory" /\ graph.memory # None
AgentOf(key) == IF FromProfile(key) THEN BaseAgent(Profile(graph.memory)) ELSE key
EntryOf(key) == IF FromProfile(key) THEN MemoryEntry(Profile(graph.memory)) ELSE AgentEntry(key)

\* resolveCompressionRuntimeConfig: what it throws for, if it does.
CompressionFailure(key, entry) ==
  LET named == CompressionKey(key, entry) IN
  IF named = None THEN {}
  ELSE IF named \notin DOMAIN subgraphs THEN {"subgraph"}
  ELSE IF Profile(named).tool = None THEN {"compression"}
  ELSE IF Profile(named).tool \notin KnownTools THEN {"tool"} ELSE {}

CompressionTool(key, entry) ==
  LET named == CompressionKey(key, entry) IN IF named = None THEN None ELSE Profile(named).tool

\* Alone, the agent is compressed for; an orchestrator is not, its sub-agents are.
Failures ==
  IF graph.memory # None /\ graph.memory \notin DOMAIN subgraphs THEN {"subgraph"}
  ELSE LET first == graph.orchestrator IN
       (IF first \notin DOMAIN agents THEN {"agent"}
        ELSE IF SubAgents = {} THEN CompressionFailure(first, AgentEntry(first)) ELSE {})
       \cup UNION {IF AgentOf(k) \notin DOMAIN agents THEN {"agent"}
                   ELSE CompressionFailure(k, EntryOf(k)) : k \in SubAgents}

Part(prompt, tool) == [prompt |-> prompt, tool |-> tool]

BuildAgentGraph ==
  /\ loading = "loaded" /\ built = NotBuilt
  /\ built' =
       IF Failures # {} THEN [failures |-> Failures, first |-> Part(None, None), rest |-> << >>]
       ELSE LET first == AgentEntry(graph.orchestrator) IN
            [failures |-> {},
             first |-> Part(first.prompt, IF SubAgents = {} THEN CompressionTool(graph.orchestrator, first)
                                          ELSE None),
             rest |-> [k \in SubAgents |-> Part(EntryOf(k).prompt, CompressionTool(k, EntryOf(k)))]]
  /\ UNCHANGED <<filesVars, loading, resolved>>

LoadingInit ==
  /\ \E file \in ConfigFiles :
       string = file.string /\ agents = file.agents /\ subgraphs = file.subgraphs /\ graph = file.graph
  /\ loading = "no" /\ resolved = << >> /\ built = NotBuilt

LoadingNext == LoadConfig \/ BuildAgentGraph

-----------------------------------------------------------------------------
(* Properties                                                              *)

\* A reference is replaced by its value wherever it is not escaped, an escaped one
\* loses a pair of braces, and nothing else of the string changes.
StringsResolved ==
  loading # "no" =>
    LET Alone(i) == i > 1 /\ ReferenceAt(string, i - 1)
        Escaped(i) == i > 2 /\ EscapedAt(string, i - 2)
        At(P(_)) == {i \in DOMAIN string : string[i] = "S" /\ P(i)}
        values == {i \in DOMAIN resolved : resolved[i] = "V"}
        names == {i \in DOMAIN resolved : resolved[i] = "S"}
        all == At(LAMBDA i : TRUE)
        escaped == At(Escaped)
        alone == At(LAMBDA i : Alone(i) /\ ~Escaped(i))
    IN /\ Cardinality(values) = Cardinality(alone)
       /\ Cardinality(names) = Cardinality(all \ alone)
       /\ Len(resolved) = Len(string) - 2 * Cardinality(escaped \cup alone)

\* A configuration that is loaded names no subgraph that is not there: building a
\* graph of it fails only for an agent, a compression block or a tool.
SubgraphsAreThere == "subgraph" \notin built.failures

\* An agent of a graph has the prompt that is closest to it: of its subgraph's
\* profile, the default profile, its own entry, the default agent.
ClosestPrompt ==
  built # NotBuilt /\ built.failures = {} =>
    \A k \in DOMAIN built.rest :
      LET profile == IF FromProfile(k) THEN graph.memory ELSE None
          own == IF profile = None THEN << >>
                 ELSE <<subgraphs[profile].prompt>>
                      \o (IF "default" \in DOMAIN subgraphs THEN <<subgraphs["default"].prompt>> ELSE << >>)
          sources == own \o <<agents[AgentOf(k)].prompt, agents["default"].prompt>>
          said == {i \in DOMAIN sources : sources[i] # None}
      IN built.rest[k].prompt = IF said = {} THEN None ELSE sources[Min(said)]

\* What is loaded is what the files say, and graphs are built of it.
LoadingCorrect == StringsResolved /\ SubgraphsAreThere /\ ClosestPrompt
=============================================================================
