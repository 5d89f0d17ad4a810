------------------------------ MODULE MCGateway ------------------------------
(***************************************************************************)
(* Model checking the components of the gateway that share no variable     *)
(* with each other: every behaviour is one of the component that "focus"   *)
(* names, the others stay as they began.                                   *)
(***************************************************************************)
EXTENDS Accounts, StreamText, AgentGraph, Titles, Conversations, ToolRouting, Channels

VARIABLE focus

others == <<accountVars, streamVars, graphVars, titleVars, conversationVars, routingVars,
            channelVars>>
Components == {"accounts", "stream", "graph", "titles", "conversations",
               "routing", "channels"}

\* Texts with and without repeated pieces, two providers' styles.
MCTexts == {<<"a", "b", "c">>, <<"n", "o", "n">>}
\* Texts that repeat themselves.
DeltaTexts == {<<"n", "o", "n", "o">>, <<"n", "o", "n">>, <<"o", "n", "n", "n">>}
MCObservers == <<"web">>

\* Two servers and one mailbox: "q" answers over a socket and is ailing, "p"
\* and "m" may offer another list when they are asked again.
Offered(name, uploads, privileged, declares) ==
  [name |-> name, uploads |-> uploads, privileged |-> privileged, declares |-> declares]
MCTransport == [s \in {"p", "q", "m"} |-> IF s = "q" THEN "unix-socket" ELSE "http"]
MCOfferings ==
  LET search == Offered("imap_search", TRUE, FALSE, {"contentUploadAuth"}) IN
  [p |-> {{Offered("t", TRUE, FALSE, {})},
          {Offered("t", FALSE, FALSE, {}), Offered("u", FALSE, TRUE, {})},
          {Offered("u", FALSE, TRUE, {})}},
   q |-> {{Offered("t", TRUE, TRUE, {"conversationId"})}},
   m |-> {{search}, {search, Offered("imap_get_thread", FALSE, FALSE, {})}}]
MCAgentEntries ==
  {[all |-> TRUE, tools |-> {}, discovers |-> {}],
   [all |-> FALSE, tools |-> {"u"}, discovers |-> {"q"}]}

Init ==
  /\ focus \in Components
  /\ AccountsInit /\ StreamInit /\ GraphInit /\ TitlesInit
  /\ ConversationsInit /\ RoutingInit /\ ChannelsInit
  /\ focus # "stream" => style = "delta" /\ text = [w \in Writers |-> <<"a", "b", "c">>]
  /\ focus # "graph" => graph = "single"
  /\ focus # "routing" => offers = [s \in Servers |-> CHOOSE o \in Offerings[s] : TRUE]
  /\ focus # "channels" => channel = "cli"

Next ==
  /\ UNCHANGED focus
  /\ \/ /\ focus = "accounts" /\ AccountsNext
        /\ UNCHANGED <<streamVars, graphVars, titleVars, conversationVars, routingVars, channelVars>>
     \/ /\ focus = "stream" /\ StreamNext
        /\ UNCHANGED <<accountVars, graphVars, titleVars, conversationVars, routingVars, channelVars>>
     \/ /\ focus = "graph" /\ GraphNext
        /\ UNCHANGED <<accountVars, streamVars, titleVars, conversationVars, routingVars, channelVars>>
     \/ /\ focus = "titles" /\ TitlesNext
        /\ UNCHANGED <<accountVars, streamVars, graphVars, conversationVars, routingVars, channelVars>>
     \/ /\ focus = "conversations" /\ ConversationsNext
        /\ UNCHANGED <<accountVars, streamVars, graphVars, titleVars, routingVars, channelVars>>
     \/ /\ focus = "routing" /\ RoutingNext
        /\ UNCHANGED <<accountVars, streamVars, graphVars, titleVars, conversationVars, channelVars>>
     \/ /\ focus = "channels" /\ ChannelsNext
        /\ UNCHANGED <<accountVars, streamVars, graphVars, titleVars, conversationVars, routingVars>>

FairSpec ==
  Init /\ [][Next]_<<focus, others>> /\ ConversationsFair

\* The streams alone.
StreamsAlone == (Init /\ focus = "stream") /\ [][Next]_<<focus, others>>
=============================================================================
