------------------------------- MODULE MCTools -------------------------------
(***************************************************************************)
(* Model checking the components of the tool servers, and of what manages  *)
(* and configures them, that share no variable with each other: every      *)
(* behaviour is one of the component that "focus" names, the others stay   *)
(* as they began.                                                          *)
(***************************************************************************)
EXTENDS ToolProcesses, Memories, MailAttachments, ConfigEditing, BrowseSessions, Containers,
        Secrets, ConfigLoading

VARIABLE focus

MCSecretFiles == <<"api-keys", "tokens">>

\* Strings of braces and a reference; entries over defaults, with and without
\* profiles, a profile without a compression block and one with an unknown tool.
MCStrings == UNION {[1..n -> {"{", "S", "}"}] : n \in 0..6}
AgentIs(prompt, compression) == [prompt |-> prompt, compression |-> compression]
ProfileIs(agentKey, prompt, tool) == [agentKey |-> agentKey, prompt |-> prompt, tool |-> tool]
MCAgentsFiles ==
  {[default |-> AgentIs("d", c)] : c \in {"none", "x"}}
    \cup {[default |-> AgentIs("d", "none"), a |-> AgentIs(p, c), memory |-> AgentIs("m", "none")] :
           p \in {"none", "a"}, c \in {"none", "y"}}
MCSubgraphsFiles ==
  {[x |-> ProfileIs("none", "x", "t")],
   [x |-> ProfileIs("none", "none", "u")],
   [x |-> ProfileIs("a", "none", "none"), y |-> ProfileIs("none", "none", "t")],
   [default |-> ProfileIs("a", "p", "t"), x |-> ProfileIs("none", "x", "none")],
   [default |-> ProfileIs("none", "p", "t"), x |-> ProfileIs("a", "none", "none"),
    y |-> ProfileIs("none", "none", "none")]}
MCGraphs ==
  [orchestrator : {"default", "a"}, subAgents : {{}, {"a"}, {"a", "memory"}}, memory : {"none", "x"},
   compression : {[a |-> "none"], [a |-> "y"], [memory |-> "x"]}]
FilesAre(s, a, p, g) == [string |-> s, agents |-> a, subgraphs |-> p, graph |-> g]
PlainFiles(s) ==
  FilesAre(s, [default |-> AgentIs("d", "none")], << >>,
           [orchestrator |-> "default", subAgents |-> {}, memory |-> "none", compression |-> << >>])
MCConfigFiles ==
  {PlainFiles(s) : s \in MCStrings}
    \cup {FilesAre(<< >>, a, p, g) : a \in MCAgentsFiles, p \in MCSubgraphsFiles, g \in MCGraphs}

\* The entries of agents.json: empty, or with a prompt that holds braces and a nested object.
LineIs(braces, names, speaks) == [braces |-> braces, names |-> names, speaks |-> speaks]
PromptLines == {LineIs(b, <<"systemPrompt">>, TRUE) : b \in {<<>>, <<"{", "}">>, <<"{", "{", "}", "}">>}}
Inners == {<<>>} \cup {<<q>> : q \in PromptLines}
            \cup {<<LineIs(<<"{">>, <<"llm">>, FALSE), LineIs(<<>>, <<"model">>, FALSE), LineIs(<<"}">>, <<>>, FALSE), q>>
                   : q \in PromptLines}
EntryIs(a, inner) ==
  IF inner = <<>> THEN <<LineIs(<<"{", "}">>, <<a>>, FALSE)>>
  ELSE <<LineIs(<<"{">>, <<a>>, FALSE)>> \o inner \o <<LineIs(<<"}">>, <<>>, FALSE)>>
CursorFindsAgents ==
  \A inners \in [1..3 -> Inners] :
    CursorFinds({"a", "b", "c"}, [i \in 1..3 |-> EntryIs(<<"a", "b", "c">>[i], inners[i])])

\* Bounds: the dialog on an agent's prompt opens in behaviours of its own, where
\* histories do not and the agent writes nothing; elsewhere no list of files arrives.
PromptsStay == \A p \in Pages : ~page'[p].prompt.open /\ page'[p].listing
HistoriesStay == agent' = NoSave /\ \A p \in Pages : page'[p].dialog = NoDialog

Init ==
  /\ focus \in {"processes", "memories", "attachments", "config", "prompts", "browse", "docker",
               "secrets", "loading"}
  /\ ProcessesInit /\ MemoryInit /\ AttachmentsInit /\ ConfigInit /\ BrowseInit /\ DockerInit
  /\ SecretsInit
  /\ focus # "secrets" => HoldersOf("a") = {"tokens"} /\ HoldersOf("b") = {"tokens"}
  /\ IF focus = "loading" THEN LoadingInit
     ELSE /\ string = << >> /\ agents = << >> /\ subgraphs = << >> /\ graph = << >>
          /\ loading = "no" /\ resolved = << >> /\ built = NotBuilt

Next ==
  /\ UNCHANGED focus
  /\ \/ /\ focus = "processes" /\ ProcessesNext
        /\ UNCHANGED <<memoryVars, attachmentVars, configVars, browseVars, dockerVars,
                       secretVars, loadingVars>>
     \/ /\ focus = "memories" /\ MemoryNext
        /\ UNCHANGED <<processVars, attachmentVars, configVars, browseVars, dockerVars,
                       secretVars, loadingVars>>
     \/ /\ focus = "attachments" /\ AttachmentsNext
        /\ UNCHANGED <<processVars, memoryVars, configVars, browseVars, dockerVars,
                       secretVars, loadingVars>>
     \/ /\ \/ focus = "config" /\ ConfigNext /\ PromptsStay
           \/ focus = "prompts" /\ ConfigNext /\ HistoriesStay
        /\ UNCHANGED <<processVars, memoryVars, attachmentVars, browseVars, dockerVars,
                       secretVars, loadingVars>>
     \/ /\ focus = "browse" /\ BrowseNext
        /\ UNCHANGED <<processVars, memoryVars, attachmentVars, configVars, dockerVars,
                       secretVars, loadingVars>>
     \/ /\ focus = "docker" /\ DockerNext
        /\ UNCHANGED <<processVars, memoryVars, attachmentVars, configVars, browseVars,
                       secretVars, loadingVars>>
     \/ /\ focus = "secrets" /\ SecretsNext
        /\ UNCHANGED <<processVars, memoryVars, attachmentVars, configVars, browseVars,
                       dockerVars, loadingVars>>
     \/ /\ focus = "loading" /\ LoadingNext
        /\ UNCHANGED <<processVars, memoryVars, attachmentVars, configVars, browseVars,
                       dockerVars, secretVars>>

others == <<processVars, memoryVars, attachmentVars, configVars, browseVars, dockerVars,
            secretVars, loadingVars>>

FairSpec == Init /\ [][Next]_<<focus, others>> /\ AttachmentsFair /\ DockerFair

\* The configuration: edited, with the secrets it names, and loaded.
ConfigurationPromise == (focus = "prompts" => CursorFindsAgents) /\ ConfigPromise /\ SecretsPromise /\ [][LoadingCorrect']_loadingVars

\* Attachments wait for mails and are served in the end; what is to expire is gone.
ToolsGoOn == MailsFirst /\ QueueIsServed /\ ExpiredIsGone
=============================================================================
