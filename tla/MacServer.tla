------------------------------ MODULE MacServer ------------------------------
(***************************************************************************)
(* The tool server of the macOS app: its start, stop and restart           *)
(* (AppState), over HTTP (RpcServer, one request to a connection) or a     *)
(* Unix socket (UnixSocketRpcServer, lines of requests), the connections   *)
(* that outlive their server, and the count of them that the app shows.    *)
(*                                                                         *)
(* A start is a task of the main actor; a restart's awaits the stop of the *)
(* bridge first, which MacBridge models.                                   *)
(***************************************************************************)
EXTENDS Integers, FiniteSets, SequencesExt

CONSTANTS
  MaxClicks,       \* bound: starts, stops and restarts
  MaxConnections,  \* bound: connections
  MaxLines         \* bound: requests

VARIABLES
  serverRunning, serverStarting,
  starts,      \* tasks that will start a server
  servers,     \* every server: its kind, and whether it listens
  held,        \* httpServer and unixServer, or 0
  socketPath,  \* the server whose socket is at the path, or 0
  activeConnections,
  clients,     \* every connection, as its task knows it
  sentLines,   \* requests that were sent
  clicks,
  overwritten  \* history: servers held when another start took their place

serverVars == <<serverRunning, serverStarting, starts, servers, held, socketPath,
                activeConnections, clients, sentLines, clicks, overwritten>>

Kinds == {"http", "unix"}
Client(s) ==
  [server |-> s, open |-> TRUE,
   listed |-> FALSE,     \* in clientTasks
   cancelled |-> FALSE,
   sent |-> 0, chunk |-> 0,  \* requests on their way, and read but not answered
   late |-> 0,           \* history: chunks read since its server stopped
   told |-> "nothing"]   \* what the app heard of it

KindOf(c) == servers[clients[c].server].kind

-----------------------------------------------------------------------------
(* The app                                                                 *)

\* startServer.
StartServerClicked ==
  /\ clicks < MaxClicks /\ clicks' = clicks + 1
  /\ ~serverRunning /\ ~serverStarting
  /\ serverStarting' = TRUE /\ starts' = starts + 1
  /\ UNCHANGED <<serverRunning, servers, held, socketPath, activeConnections, clients, sentLines,
                 overwritten>>

\* Variant for mutation: the listener of HTTP is forgotten.
StopUnixHeld ==
  /\ servers' = [s \in DOMAIN servers |-> [servers[s] EXCEPT !.listens = @ /\ held["unix"] # s]]
  /\ held' = [k \in Kinds |-> 0]
  /\ socketPath' = IF held["unix"] # 0 THEN 0 ELSE socketPath
  /\ clients' = [c \in DOMAIN clients |->
                   IF clients[c].server = held["unix"] /\ clients[c].listed
                     THEN [clients[c] EXCEPT !.cancelled = TRUE] ELSE clients[c]]

\* RpcServer.stop and UnixSocketRpcServer.stop: no new connections, and the tasks of the
\* old ones are cancelled, which ends none that is blocked in a read.
StopHeld ==
  /\ servers' = [s \in DOMAIN servers |-> [servers[s] EXCEPT !.listens = @ /\ \A k \in Kinds : held[k] # s]]
  /\ held' = [k \in Kinds |-> 0]
  /\ socketPath' = IF held["unix"] # 0 THEN 0 ELSE socketPath
  /\ clients' = [c \in DOMAIN clients |->
                   IF clients[c].server = held["unix"] /\ clients[c].listed
                     THEN [clients[c] EXCEPT !.cancelled = TRUE] ELSE clients[c]]

\* stopServer.
StopServerClicked ==
  /\ clicks < MaxClicks /\ clicks' = clicks + 1
  /\ StopHeld
  /\ serverRunning' = FALSE /\ serverStarting' = FALSE /\ activeConnections' = 0
  /\ UNCHANGED <<starts, sentLines, overwritten>>

\* restartServer.
RestartServerClicked ==
  /\ clicks < MaxClicks /\ clicks' = clicks + 1
  /\ StopHeld
  /\ serverRunning' = FALSE /\ serverStarting' = TRUE /\ activeConnections' = 0
  /\ starts' = starts + 1
  /\ UNCHANGED <<sentLines, overwritten>>

\* UnixSocketRpcServer.start: the path is freed, and bound again unless something fails.
PathAfter(ok) == IF ok THEN Len(servers) + 1 ELSE 0

\* Variant for mutation: a start that fails returns before the end.
StartLeft(kind, ok) ==
  /\ starts > 0 /\ starts' = starts - 1
  /\ serverStarting' = (serverStarting /\ ~ok)
  /\ IF ok
       THEN /\ servers' = Append(servers, [kind |-> kind, listens |-> TRUE])
            /\ held' = [held EXCEPT ![kind] = Len(servers) + 1]
            /\ serverRunning' = TRUE
            /\ overwritten' = overwritten \cup ({held[kind]} \ {0})
       ELSE UNCHANGED <<servers, held, serverRunning, overwritten>>
  /\ socketPath' = IF kind = "http" THEN socketPath ELSE PathAfter(ok)
  /\ UNCHANGED <<activeConnections, clients, sentLines, clicks>>

\* startServerInternal, with RpcServer.start or UnixSocketRpcServer.start, which fail or not.
StartServerInternal(kind, ok) ==
  /\ starts > 0 /\ starts' = starts - 1
  /\ serverStarting' = FALSE
  /\ IF ok
       THEN /\ servers' = Append(servers, [kind |-> kind, listens |-> TRUE])
            /\ held' = [held EXCEPT ![kind] = Len(servers) + 1]
            /\ serverRunning' = TRUE
            /\ overwritten' = overwritten \cup ({held[kind]} \ {0})
       ELSE UNCHANGED <<servers, held, serverRunning, overwritten>>
  /\ socketPath' = IF kind = "http" THEN socketPath ELSE PathAfter(ok)
  /\ UNCHANGED <<activeConnections, clients, sentLines, clicks>>

-----------------------------------------------------------------------------
(* Connections                                                             *)

AppUnchanged ==
  UNCHANGED <<serverRunning, serverStarting, starts, servers, held, socketPath, sentLines, clicks, overwritten>>
Left(c) == [clients[c] EXCEPT !.open = FALSE, !.sent = 0, !.chunk = 0, !.late = 0]
Becomes(c, client) == clients' = [clients EXCEPT ![c] = client]

\* newConnectionHandler.
NewConnection(s) ==
  /\ Len(clients) < MaxConnections
  /\ servers[s].kind = "http" /\ servers[s].listens
  /\ clients' = Append(clients, Client(s))
  /\ UNCHANGED activeConnections /\ AppUnchanged

\* acceptLoop, for the server whose socket the path leads to.
Accept(s) ==
  /\ Len(clients) < MaxConnections
  /\ servers[s].listens /\ socketPath = s
  /\ clients' = Append(clients, Client(s))
  /\ UNCHANGED activeConnections /\ AppUnchanged

\* The task is added to those that a stop cancels, a little after it began.
Listed(c) ==
  /\ KindOf(c) = "unix" /\ ~clients[c].listed
  /\ Becomes(c, [clients[c] EXCEPT !.listed = TRUE])
  /\ UNCHANGED activeConnections /\ AppUnchanged

ClientSends(c) ==
  /\ sentLines < MaxLines /\ sentLines' = sentLines + 1
  /\ clients[c].open
  /\ Becomes(c, [clients[c] EXCEPT !.sent = @ + 1])
  /\ UNCHANGED <<serverRunning, serverStarting, starts, servers, held, socketPath,
                 activeConnections, clicks, overwritten>>

\* readRequest: one request, however many chunks it comes in.
ReadRequest(c) ==
  /\ KindOf(c) = "http" /\ clients[c].open /\ clients[c].chunk = 0 /\ clients[c].sent > 0
  /\ Becomes(c, [clients[c] EXCEPT !.chunk = 1, !.sent = 0])
  /\ UNCHANGED activeConnections /\ AppUnchanged

\* handleClient: what has been sent is read.
ReadChunk(c) ==
  /\ KindOf(c) = "unix" /\ clients[c].open /\ clients[c].chunk = 0 /\ clients[c].sent > 0
  /\ Becomes(c, [clients[c] EXCEPT !.chunk = clients[c].sent, !.sent = 0,
                                   !.late = IF servers[clients[c].server].listens THEN @ ELSE @ + 1])
  /\ UNCHANGED activeConnections /\ AppUnchanged

\* handleConnection: the response of buildResponse and dispatchRpc is sent, and that is all.
Responded(c) ==
  /\ KindOf(c) = "http" /\ clients[c].open /\ clients[c].chunk > 0
  /\ Becomes(c, Left(c))
  /\ UNCHANGED activeConnections /\ AppUnchanged

\* Variant for mutation: the task does not see that it is cancelled.
AnsweredOn(c) ==
  /\ KindOf(c) = "unix" /\ clients[c].open /\ clients[c].chunk > 0
  /\ Becomes(c, [clients[c] EXCEPT !.chunk = @ - 1])
  /\ UNCHANGED activeConnections /\ AppUnchanged

\* dispatch and writeResponse: the tool returns or throws, in its time or, as the task
\* group waits for it, after its timeout.  The last of a chunk ends a cancelled task.
Answered(c) ==
  /\ KindOf(c) = "unix" /\ clients[c].open /\ clients[c].chunk > 0
  /\ Becomes(c, IF clients[c].chunk = 1 /\ clients[c].cancelled THEN Left(c)
                ELSE [clients[c] EXCEPT !.chunk = @ - 1])
  /\ UNCHANGED activeConnections /\ AppUnchanged

\* The client goes, and with it what it sent: the end of what is read.
ConnectionEnds(c) ==
  /\ clients[c].open /\ clients[c].chunk = 0
  /\ Becomes(c, Left(c))
  /\ UNCHANGED activeConnections /\ AppUnchanged

\* onConnectionOpened, and what it has the app do.
OpenedHeard(c) ==
  /\ KindOf(c) = "unix" /\ clients[c].told = "nothing"
  /\ activeConnections' = activeConnections + 1
  /\ Becomes(c, [clients[c] EXCEPT !.told = "opened"])
  /\ AppUnchanged

\* Variant for mutation: the end of a connection of a stopped server is not counted.
ClosedUncounted(c) ==
  /\ clients[c].told = "opened" /\ ~clients[c].open
  /\ activeConnections' = IF activeConnections > 0 /\ servers[clients[c].server].listens
                            THEN activeConnections - 1 ELSE activeConnections
  /\ Becomes(c, [clients[c] EXCEPT !.told = "closed"])
  /\ AppUnchanged

\* onConnectionClosed, of a connection of this server or of an earlier one.
ClosedHeard(c) ==
  /\ clients[c].told = "opened" /\ ~clients[c].open
  /\ activeConnections' = IF activeConnections > 0 THEN activeConnections - 1 ELSE 0
  /\ Becomes(c, [clients[c] EXCEPT !.told = "closed"])
  /\ AppUnchanged

-----------------------------------------------------------------------------
ServerInit ==
  /\ serverRunning = FALSE /\ serverStarting = FALSE /\ starts = 0
  /\ servers = <<>> /\ held = [k \in Kinds |-> 0] /\ socketPath = 0
  /\ activeConnections = 0 /\ clients = <<>> /\ sentLines = 0 /\ clicks = 0 /\ overwritten = {}

ServerNext ==
  \/ StartServerClicked \/ StopServerClicked \/ RestartServerClicked
  \/ \E kind \in Kinds, ok \in BOOLEAN : StartServerInternal(kind, ok)
  \/ \E s \in DOMAIN servers : NewConnection(s) \/ Accept(s)
  \/ \E c \in DOMAIN clients :
       \/ Listed(c) \/ ClientSends(c) \/ ReadRequest(c) \/ ReadChunk(c)
       \/ Responded(c) \/ Answered(c)
       \/ ConnectionEnds(c) \/ OpenedHeard(c) \/ ClosedHeard(c)

ServerSpec == ServerInit /\ [][ServerNext]_serverVars

-----------------------------------------------------------------------------
(* Properties                                                              *)

\* What the app calls running is the server it holds.
RunningIsHeld == serverRunning <=> \E k \in Kinds : held[k] # 0

\* A server that listens is held, but for one whose place another start took; so a stop
\* that is the last word leaves none but those.
ListeningIsHeld ==
  \A s \in DOMAIN servers : servers[s].listens => (\E k \in Kinds : held[k] = s) \/ s \in overwritten

\* A stopped server serves at most one more chunk of a connection that it cancels.
StoppedServesOnce == \A c \in DOMAIN clients : clients[c].cancelled => clients[c].late <= 1

\* Connections of servers that were replaced may hide others, but none that is over is
\* counted: the count comes back to zero.
NoneCountedTwice == activeConnections <= Cardinality({c \in DOMAIN clients : clients[c].told = "opened"})

\* The buttons wait for a start only while there is one: one that fails ends it too.
StartingIsStarted == serverStarting => starts > 0

ServersCorrect ==
  RunningIsHeld /\ ListeningIsHeld /\ StoppedServesOnce /\ NoneCountedTwice /\ StartingIsStarted
ServersPromise == [][ServersCorrect']_serverVars
=============================================================================
