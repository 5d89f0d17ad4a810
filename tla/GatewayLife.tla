---------------------------- MODULE GatewayLife ----------------------------
(***************************************************************************)
(* Start and stop of the gateway (Gateway.ts).  A start pauses the IMAP    *)
(* crawls, one tool after the other, probes the models, resumes what it    *)
(* has paused, and opens one thing after another; a signal closes them in  *)
(* an order of their own, under a timer.                                   *)
(*                                                                         *)
(* The IMAP tools are external here: each serves the requests of a         *)
(* connection in order, at any time (ImapCrawl says what a crawl is).  A   *)
(* call that runs out of its time leaves its request on the way.           *)
(***************************************************************************)
EXTENDS Naturals, Sequences

CONSTANT Imaps   \* the IMAP tools: a sequence, as tools.json lists them

ASSUME LifeAssumption == Imaps \in Seq(STRING)

VARIABLES
  state,    \* GatewayState, or "dead" once the process has ended
  phase,    \* of the start: "pause", "check", "resume" or "open"
  at,       \* the tool whose turn it is, or the next thing to open or close
  failing,  \* the probes threw
  waiting,  \* a call is awaited
  wire,     \* the requests each tool has still to serve
  answer,   \* what the awaited call returned, or "none"
  paused,   \* pausedClients
  crawls,   \* the tools whose crawl runs
  owed,     \* history: those whose crawl a request of the gateway has stopped
  unheard    \* history: those to which a call failed or came too late

lifeVars == <<state, phase, at, failing, waiting, wire, answer, paused, crawls, owed, unheard>>

ImapSet == {Imaps[i] : i \in 1..Len(Imaps)}
Opening == <<"store", "content socket", "auth", "tools", "channels", "health", "admin">>
Closing == <<"health", "admin", "auth", "content socket", "store", "channels", "tools">>

-----------------------------------------------------------------------------
(* pauseImapCrawlsForHealthChecks                                          *)

\* The next tool's turn, or the next phase.
NextTool(next) ==
  /\ waiting' = FALSE
  /\ answer' = "none"
  /\ IF at < Len(Imaps) THEN at' = at + 1 /\ UNCHANGED phase ELSE at' = 1 /\ phase' = next

Skip(next) ==
  /\ NextTool(next)
  /\ UNCHANGED <<state, failing, wire, paused, crawls, owed>>

\* The request is on its way.
Ask(request) ==
  /\ wire' = [wire EXCEPT ![Imaps[at]] = Append(@, request)]
  /\ waiting' = TRUE
  /\ UNCHANGED <<state, phase, at, failing, answer, paused, crawls, owed, unheard>>

Pause ==
  /\ state = "starting" /\ phase = "pause" /\ ~waiting
  /\ Ask("stop")

\* No connection: there is nothing on the way.
PauseSkipped ==
  /\ state = "starting" /\ phase = "pause" /\ ~waiting
  /\ Skip("check")
  /\ UNCHANGED unheard

\* Only a crawl that the call has stopped is kept for later.
PauseAnswered ==
  /\ phase = "pause" /\ waiting
  /\ answer # "none"
  /\ paused' = IF answer = "stopped" THEN paused \cup {Imaps[at]} ELSE paused
  /\ NextTool("check")
  /\ UNCHANGED <<state, failing, wire, crawls, owed, unheard>>

RunsOut ==
  /\ waiting
  /\ answer = "none"
  /\ unheard' = unheard \cup {Imaps[at]}
  /\ Skip(IF phase = "pause" THEN "check" ELSE "open")

\* Variant for mutation: what was paused is resumed if the probes succeed.
ProbeUnguarded(ok) ==
  /\ state = "starting" /\ phase = "check"
  /\ state' = IF ok THEN state ELSE "stopped"
  /\ phase' = IF Imaps = <<>> THEN "open" ELSE "resume"
  /\ UNCHANGED <<at, failing, waiting, wire, answer, paused, crawls, owed, unheard>>

\* The probes end or throw; either way what was paused is resumed.
Probe(ok) ==
  /\ state = "starting" /\ phase = "check"
  /\ failing' = ~ok
  /\ phase' = IF Imaps = <<>> THEN "open" ELSE "resume"
  /\ UNCHANGED <<state, at, waiting, wire, answer, paused, crawls, owed, unheard>>

Resume ==
  /\ state = "starting" /\ phase = "resume" /\ ~waiting
  /\ Imaps[at] \in paused
  /\ Ask("start")

ResumeSkipped ==
  /\ state = "starting" /\ phase = "resume" /\ ~waiting
  /\ Skip("open")
  /\ unheard' = IF Imaps[at] \in paused THEN unheard \cup {Imaps[at]} ELSE unheard

ResumeAnswered ==
  /\ phase = "resume" /\ waiting
  /\ answer # "none"
  /\ Skip("open")
  /\ UNCHANGED unheard

-----------------------------------------------------------------------------
(* The IMAP tools                                                          *)

\* A request is served: stop has no effect without a crawl, start none with one.
Serve(i) ==
  /\ wire[i] # <<>>
  /\ LET request == Head(wire[i])
         awaited == waiting /\ Imaps[at] = i /\ Len(wire[i]) = 1
         result == IF request = "start" THEN "started"
                   ELSE IF i \in crawls THEN "stopped" ELSE "not active"
     IN /\ wire' = [wire EXCEPT ![i] = Tail(@)]
        /\ answer' = IF awaited THEN result ELSE answer
        /\ crawls' = IF request = "start" THEN crawls \cup {i} ELSE crawls \ {i}
        /\ owed' = IF request = "start" THEN owed \ {i}
                   ELSE IF i \in crawls THEN owed \cup {i} ELSE owed
  /\ UNCHANGED <<state, phase, at, failing, waiting, paused, unheard>>

\* A crawl comes to its end.
CrawlEnds(i) ==
  /\ i \in crawls
  /\ crawls' = crawls \ {i}
  /\ UNCHANGED <<state, phase, at, failing, waiting, wire, answer, paused, owed, unheard>>

-----------------------------------------------------------------------------
(* start and stop                                                          *)

restVars == <<failing, waiting, wire, answer, paused, crawls, owed, unheard>>

Start ==
  /\ state = "stopped" /\ phase = "none"
  /\ state' = "starting"
  /\ phase' = IF Imaps = <<>> THEN "check" ELSE "pause"
  /\ at' = 1
  /\ UNCHANGED restVars

\* A step of the start succeeds, or throws, but for the discovery of tools: a start
\* that has failed closes nothing.
Open(ok) ==
  /\ state = "starting" /\ phase = "open"
  /\ ok \/ Opening[at] # "tools"
  /\ at' = IF ok /\ ~failing THEN at + 1 ELSE 1
  /\ state' = IF ~ok \/ failing THEN "stopped"
              ELSE IF at = Len(Opening) THEN "running" ELSE state
  /\ UNCHANGED <<phase, restVars>>

\* main: a rejected start ends the process.
Quit ==
  /\ state = "stopped" /\ phase # "none"
  /\ state' = "dead"
  /\ UNCHANGED <<phase, at, restVars>>

\* A signal: its handlers are there while the gateway runs, and stop removes them.
Signal ==
  /\ state \notin {"dead", "stopped"}
  /\ state' = IF state = "running" THEN "stopping" ELSE "dead"
  /\ at' = 1
  /\ UNCHANGED <<phase, restVars>>

\* The next part closes; or closing throws, which ends the process.
Close(ok) ==
  /\ state = "stopping"
  /\ at' = at + 1
  /\ state' = IF ~ok \/ at = Len(Closing) THEN "dead" ELSE state
  /\ UNCHANGED <<phase, restVars>>

\* Variant for mutation: the timer is cleared once the first part is closed.
ForceExitFirst ==
  /\ state = "stopping"
  /\ at = 1
  /\ state' = "dead"
  /\ UNCHANGED <<phase, at, restVars>>

\* forceExitTimer.
ForceExit ==
  /\ state = "stopping"
  /\ state' = "dead"
  /\ UNCHANGED <<phase, at, restVars>>

LifeInit ==
  /\ state = "stopped" /\ phase = "none" /\ at = 1
  /\ failing = FALSE /\ waiting = FALSE
  /\ wire = [i \in ImapSet |-> <<>>]
  /\ answer = "none"
  /\ paused = {}
  /\ crawls \in SUBSET ImapSet
  /\ owed = {} /\ unheard = {}

LifeNext ==
  \/ Start \/ Pause \/ PauseSkipped \/ PauseAnswered \/ RunsOut
  \/ Resume \/ ResumeSkipped \/ ResumeAnswered
  \/ \E ok \in BOOLEAN : Probe(ok) \/ Open(ok) \/ Close(ok)
  \/ \E i \in ImapSet : Serve(i) \/ CrawlEnds(i)
  \/ Signal \/ Quit \/ ForceExit

LifeSpec == LifeInit /\ [][LifeNext]_lifeVars

\* A timer fires.  Closing a part may wait for others forever.
LifeFair == WF_lifeVars(ForceExit)

-----------------------------------------------------------------------------
(* Properties                                                              *)

LifeTypeOK ==
  /\ state \in {"stopped", "starting", "running", "stopping", "dead"}
  /\ phase \in {"none", "pause", "check", "resume", "open"} /\ at \in Nat
  /\ failing \in BOOLEAN /\ waiting \in BOOLEAN
  /\ wire \in [ImapSet -> Seq({"stop", "start"})]
  /\ answer \in {"none", "stopped", "not active", "started"}
  /\ paused \cup crawls \cup owed \cup unheard \subseteq ImapSet

\* A start that gets past the probes, or fails later, has resumed every crawl it
\* has stopped, unless a call to that tool failed or came too late.
CrawlsAreResumed ==
  state \in {"running", "stopped"} => owed \subseteq unheard

\* A gateway that ran ends after a signal, whatever of it does not close.
SignalEnds == state = "stopping" ~> state = "dead"

\* The start, whatever the tools answer and when.
LifeCorrect == LifeTypeOK /\ CrawlsAreResumed
=============================================================================
