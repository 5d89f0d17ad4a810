------------------------------ MODULE MacBridge ------------------------------
(***************************************************************************)
(* The bridge of the macOS app to an MCP server that it runs               *)
(* (PeekabooMcpBridge): an actor whose callers interleave wherever they    *)
(* await.  It starts the server, shakes hands in one of two protocol       *)
(* versions, matches answers to requests, times requests out, and hears of *)
(* the end of a server in a task of its own.  A diagnosis probes the       *)
(* command before it discovers the tools, a health check only probes it.   *)
(*                                                                         *)
(* An answer is a line that reaches the actor in a task of its own, in any *)
(* order, or is lost (stdoutBuffer).                                       *)
(***************************************************************************)
EXTENDS Integers, SequencesExt

CONSTANTS
  Callers,     \* connections of the tool server, and the app itself
  Commands,    \* base commands
  MaxServers,  \* bound: servers that are started, but for the last diagnosis
  MaxRequests  \* bound: requests after which no caller begins anew

VARIABLES
  mcp,         \* process, or 0
  procs,       \* every server: its command, its state, and whether its end was heard
  initialized,
  mcpRequests, \* each: its id, its server and how it stands
  nextId,      \* nextRequestId
  chunks,      \* tasks with an answer
  at,          \* what each caller awaits
  probe,       \* the process of the last probe
  greeted,     \* history: servers that were told they are initialized, of their own handshake
  orphaned,    \* history: servers let go when the end of another was heard
  mixed        \* history: a handshake ended when its server was not the one held

bridgeVars == <<mcp, procs, initialized, mcpRequests, nextId, chunks, at, probe,
                greeted, orphaned, mixed>>

Idle == [stage |-> "idle", command |-> "none", request |-> 0]
NoProbe == [up |-> FALSE, timer |-> "none", told |-> FALSE, resumed |-> FALSE]
Up(ps, p) == p # 0 /\ ps[p].state = "running"
Over == [id |-> 0, server |-> 0, state |-> "over"]
Pending == {k \in DOMAIN mcpRequests : mcpRequests[k].state \in {"pending", "answered"}}

-----------------------------------------------------------------------------
(* Requests                                                                *)

\* Variant for mutation: the calls are forgotten, not resumed.
FailNobody ==
  [k \in DOMAIN mcpRequests |->
     IF k \in Pending THEN [mcpRequests[k] EXCEPT !.state = "forgotten"] ELSE mcpRequests[k]]

\* failAllPending.
FailAllPending ==
  [k \in DOMAIN mcpRequests |->
     IF k \in Pending THEN [mcpRequests[k] EXCEPT !.state = "failed"] ELSE mcpRequests[k]]

\* sendRequest, with rs what has become of the requests so far.
SendRequest(c, command, method, rs) ==
  IF Up(procs', mcp')
    THEN /\ mcpRequests' = Append(rs, [id |-> nextId, server |-> mcp', state |-> "pending"])
         /\ nextId' = nextId + 1
         /\ at' = [at EXCEPT ![c] = [stage |-> method, command |-> command, request |-> Len(rs) + 1]]
    ELSE mcpRequests' = rs /\ at' = [at EXCEPT ![c] = Idle] /\ UNCHANGED nextId

\* timeoutRequest.
TimeoutRequest(k) ==
  /\ k \in Pending
  /\ mcpRequests' = [mcpRequests EXCEPT ![k].state = "failed"]
  /\ UNCHANGED <<mcp, procs, initialized, nextId, chunks, at, probe, greeted, orphaned, mixed>>

\* The server answers, as long as someone reads what it says and waits for it.
Answers(k, state) ==
  /\ mcpRequests[k].state = "pending" /\ procs[mcpRequests[k].server].state = "running"
  /\ state = "refused" => \E c \in Callers : at[c].request = k /\ at[c].stage \in {"initialize", "older"}
  /\ mcpRequests' = [mcpRequests EXCEPT ![k].state = "answered"]
  /\ chunks' = chunks \cup {[mcpRequests[k] EXCEPT !.state = state]}
  /\ UNCHANGED <<mcp, procs, initialized, nextId, at, probe, greeted, orphaned, mixed>>

\* consumeStdout: a line is the answer to the request of its id, if one waits; it is lost
\* when its parts come out of order or the buffer is cleared between them.
ConsumeStdout(chunk, whole) ==
  LET asked == {k \in Pending : whole /\ mcpRequests[k].id = chunk.id} IN
  /\ chunk \in chunks
  /\ chunks' = chunks \ {chunk}
  /\ mcpRequests' = [k \in DOMAIN mcpRequests |->
                       IF k \in asked THEN [mcpRequests[k] EXCEPT !.state = chunk.state] ELSE mcpRequests[k]]
  /\ UNCHANGED <<mcp, procs, initialized, nextId, at, probe, greeted, orphaned, mixed>>

-----------------------------------------------------------------------------
(* The server                                                              *)

\* The held server is told to end, and no longer read.
Told == IF Up(procs, mcp) THEN [procs EXCEPT ![mcp].state = "told"] ELSE procs

\* Variant for mutation: ids begin anew.
StopAndRenumber ==
  /\ mcp' = 0 /\ procs' = Told /\ initialized' = FALSE
  /\ mcpRequests' = FailAllPending /\ nextId' = 1
  /\ UNCHANGED <<chunks, at, probe, greeted, orphaned, mixed>>

\* stop.
StopBridge ==
  /\ mcp' = 0 /\ procs' = Told /\ initialized' = FALSE
  /\ mcpRequests' = FailAllPending
  /\ UNCHANGED <<nextId, chunks, at, probe, greeted, orphaned, mixed>>

ServerExits(p) ==
  /\ procs[p].state # "exited"
  /\ procs' = [procs EXCEPT ![p].state = "exited"]
  /\ UNCHANGED <<mcp, initialized, mcpRequests, nextId, chunks, at, probe, greeted, orphaned, mixed>>

\* handleTermination, whichever server it was that ended.
HandleTermination(p) ==
  /\ procs[p].state = "exited" /\ ~procs[p].heard
  /\ procs' = [procs EXCEPT ![p].heard = TRUE]
  /\ mcp' = 0 /\ initialized' = FALSE
  /\ mcpRequests' = FailAllPending
  /\ orphaned' = orphaned \cup ({mcp} \ {0, p})
  /\ UNCHANGED <<nextId, chunks, at, probe, greeted, mixed>>

ProbeStarted(command) == [command |-> command, state |-> "running", heard |-> FALSE]

\* Variant for mutation: the old server is not stopped first.
StartBeside(c, command, runs) ==
  /\ initialized' = FALSE /\ UNCHANGED chunks
  /\ mcp' = IF runs THEN Len(procs) + 1 ELSE 0
  /\ procs' = IF runs THEN Append(procs, ProbeStarted(command)) ELSE procs
  /\ SendRequest(c, command, "initialize", FailAllPending)

\* ensureConnected where it does not return at once: stop, and a new server.
StartServer(c, command, runs) ==
  /\ initialized' = FALSE /\ UNCHANGED chunks
  /\ mcp' = IF runs THEN Len(procs) + 1 ELSE 0
  /\ procs' = IF runs THEN Append(Told, ProbeStarted(command)) ELSE Told
  /\ SendRequest(c, command, "initialize", FailAllPending)

-----------------------------------------------------------------------------
(* Callers                                                                 *)

\* The bounds; and nobody begins while a command is probed.
MayBegin == Len(procs) < MaxServers /\ Len(mcpRequests) < MaxRequests /\ probe = NoProbe

\* discoverTools, getToolsForIntrospect, and the discovery that a diagnosis ends in.
Discover(c, command, runs) ==
  /\ \/ at[c].stage = "idle" /\ MayBegin
     \/ at[c].stage = "probe" /\ probe.resumed /\ command = at[c].command
  /\ IF Up(procs, mcp) /\ initialized /\ procs[mcp].command = command
       THEN UNCHANGED <<mcp, procs, initialized, chunks>> /\ SendRequest(c, command, "list", mcpRequests)
       ELSE StartServer(c, command, runs)
  /\ probe' = NoProbe   \* whatever is left of it returns at isResumed
  /\ UNCHANGED <<greeted, orphaned, mixed>>

\* callTool.
CallTool(c) ==
  /\ at[c].stage = "idle" /\ MayBegin
  /\ UNCHANGED <<mcp, procs, initialized, chunks, probe, greeted, orphaned, mixed>>
  /\ SendRequest(c, "none", "call", mcpRequests)

\* The caller goes on when its request is settled: a refused handshake is tried in the
\* older version, one that succeeds is followed by the notification and the list.
Resumes(c) ==
  LET mine == mcpRequests[at[c].request]
      \* the server of the handshake, and the one the notification goes to
      own == mine.server = mcp
      others == [mcpRequests EXCEPT ![at[c].request] = Over] IN
  /\ at[c].request # 0 /\ mine.state \in {"ok", "refused", "failed"}
  /\ IF mine.state = "refused" /\ at[c].stage = "initialize"
       THEN /\ UNCHANGED <<mcp, procs, initialized, greeted, mixed>>
            /\ SendRequest(c, at[c].command, "older", others)
     ELSE IF mine.state = "ok" /\ at[c].stage \in {"initialize", "older"} /\ mcp # 0
       THEN /\ initialized' = TRUE /\ UNCHANGED <<mcp, procs>>
            /\ greeted' = IF own THEN greeted \cup {mcp} ELSE greeted
            /\ mixed' = (mixed \/ ~own)
            /\ SendRequest(c, at[c].command, "list", others)
     ELSE /\ at' = [at EXCEPT ![c] = Idle] /\ mcpRequests' = others
          /\ UNCHANGED <<mcp, procs, initialized, nextId, greeted, mixed>>
  /\ UNCHANGED <<chunks, probe, orphaned>>

-----------------------------------------------------------------------------
(* The probe                                                               *)

\* runPeekabooDiagnostics and runToolHealthCheck (bound: one at a time), and probeBaseCommand.
Diagnose(c, command, runs) ==
  /\ MayBegin /\ \A o \in Callers : at[o].stage = "idle"
  /\ at' = [at EXCEPT ![c] = [stage |-> "probe", command |-> command, request |-> 0]]
  /\ probe' = IF runs THEN [up |-> TRUE, timer |-> "set", told |-> FALSE, resumed |-> FALSE]
                      ELSE [NoProbe EXCEPT !.resumed = TRUE]
  /\ UNCHANGED <<mcp, procs, initialized, mcpRequests, nextId, chunks, greeted, orphaned, mixed>>

\* A health check ends with its probe; a diagnosis goes on to Discover.
HealthChecked(c) ==
  /\ at[c].stage = "probe" /\ probe.resumed
  /\ at' = [at EXCEPT ![c] = Idle] /\ probe' = NoProbe
  /\ UNCHANGED <<mcp, procs, initialized, mcpRequests, nextId, chunks, greeted, orphaned, mixed>>

Probed ==
  UNCHANGED <<mcp, procs, initialized, mcpRequests, nextId, chunks, at, greeted, orphaned, mixed>>

ProbeExits == probe.up /\ probe' = [probe EXCEPT !.up = FALSE] /\ Probed

\* terminationHandler.
ProbeHeard ==
  /\ probe # NoProbe /\ ~probe.up /\ ~probe.resumed
  /\ probe' = [probe EXCEPT !.resumed = TRUE] /\ Probed

\* Variant for mutation: a command that stays up is left alone.
ProbeLeft ==
  /\ probe.timer = "set"
  /\ probe' = [probe EXCEPT !.timer = "over", !.resumed = TRUE]
  /\ Probed

\* The window is over: a process that still runs is told to end ...
ProbeTimer ==
  /\ probe.timer = "set"
  /\ probe' = IF probe.up /\ ~probe.resumed THEN [probe EXCEPT !.told = TRUE, !.timer = "reading"]
              ELSE [probe EXCEPT !.timer = "over"]
  /\ Probed

\* ... and the caller resumed when the last of its output is read.
ProbeRead ==
  /\ probe.timer = "reading" /\ ~probe.up
  /\ probe' = [probe EXCEPT !.timer = "over", !.resumed = TRUE] /\ Probed

-----------------------------------------------------------------------------
BridgeInit ==
  /\ mcp = 0 /\ procs = <<>> /\ initialized = FALSE
  /\ mcpRequests = <<>> /\ nextId = 1
  /\ chunks = {}
  /\ at = [c \in Callers |-> Idle]
  /\ probe = NoProbe
  /\ greeted = {} /\ orphaned = {} /\ mixed = FALSE

BridgeNext ==
  \/ \E c \in Callers, command \in Commands, runs \in BOOLEAN :
       Discover(c, command, runs) \/ Diagnose(c, command, runs)
  \/ \E c \in Callers : CallTool(c) \/ Resumes(c) \/ HealthChecked(c)
  \/ \E k \in DOMAIN mcpRequests :
       \/ TimeoutRequest(k)
       \/ \E state \in {"ok", "refused"} : Answers(k, state)
  \/ \E chunk \in chunks, whole \in BOOLEAN : ConsumeStdout(chunk, whole)
  \/ \E p \in DOMAIN procs : ServerExits(p) \/ HandleTermination(p)
  \/ StopBridge \/ ProbeExits \/ ProbeHeard \/ ProbeTimer \/ ProbeRead

BridgeSpec == BridgeInit /\ [][BridgeNext]_bridgeVars

-----------------------------------------------------------------------------
(* Properties                                                              *)

\* An answer is taken for a request only if it came from the server it went to.
AnsweredByItsServer ==
  [][\A k \in Pending : mcpRequests'[k].state \in {"ok", "refused"}
       => \E chunk \in chunks \ chunks' : chunk.server = mcpRequests[k].server]_bridgeVars

\* A server that runs is held or was told to end, but for one that was let go when the
\* end of an earlier one was heard.
HeldOrTold == \A p \in DOMAIN procs : procs[p].state = "running" => p = mcp \/ p \in orphaned

\* What is called initialized has been through its handshake, but for a handshake that
\* ended after another caller had replaced its server.
InitializedIsGreeted == initialized /\ mcp # 0 => mcp \in greeted \/ mixed

\* No caller is told of a probe whose process still runs.
ProbeLeavesNothing == probe.resumed => ~probe.up

\* No caller waits for ever: its request is settled, or pending, so that its timer settles
\* it if neither the answer nor the end of the server does; and its probe is settled, or has
\* a process whose end settles it, by itself or when the window is over.
NobodyStranded ==
  \A c \in Callers :
    /\ at[c].request # 0 => mcpRequests[at[c].request].state \in {"pending", "answered", "ok", "refused", "failed"}
    /\ at[c].stage = "probe" => probe.resumed \/ ~probe.up \/ probe.timer = "set" \/ probe.told

BridgeCorrect == HeldOrTold /\ InitializedIsGreeted /\ ProbeLeavesNothing /\ NobodyStranded
BridgePromise == [][BridgeCorrect']_bridgeVars /\ AnsweredByItsServer
=============================================================================
