--------------------------- MODULE ToolProcesses ---------------------------
(***************************************************************************)
(* The processes of one tool: the manager that starts, stops and restarts  *)
(* it on keys that nothing serializes (ToolProcessSupervisor), the command *)
(* "stop" that works from the PID file in a process of its own, and the    *)
(* administration tool that stops and launches it behind the manager's     *)
(* back (handleRestartProcess, handleStopProcess).                         *)
(*                                                                         *)
(* A process stands for its whole tree, and is named by the order of the   *)
(* launches.  The operating system is external: a process ends whenever it *)
(* likes, and one that was killed may take longer than anybody waits.  An  *)
(* exit event comes with the end, and a spawn event right after the call.  *)
(***************************************************************************)
EXTENDS Naturals

CONSTANTS
  Keys,         \* the keys that may be pressed
  MaxLaunches   \* bound: the processes that are launched

ASSUME ProcessesAssumption == MaxLaunches \in Nat

VARIABLES
  manager,   \* "up", "closed" once its screen is destroyed, or "down"
  shown,     \* the manager's runtime of the tool: status and pid
  pidFile,   \* the pid in the PID file, or 0
  alive,     \* the processes that run
  own,       \* those launched by this run of the manager
  launched,  \* how many have been launched
  keyed,     \* what the keys pressed are doing
  outside,   \* what the command "stop" or the administration tool is doing
  overtaken, \* history: a key went on although a process was still being stopped
  crossed    \* history: a restart was underway while the manager was closing

processVars == <<manager, shown, pidFile, alive, own, launched, keyed, outside,
                 overtaken, crossed>>

Process == 1..MaxLaunches
KeyKind == {"stop", "restart", "quit"}
Resting == [phase |-> "none", kind |-> "stop", target |-> 0]
Running == [status |-> "running", pid |-> launched + 1]
\* Variant for mutation: the pid is kept.
StoppedKept == [status |-> "stopped", pid |-> launched]
\* The states without a process (idle, stopped, failed) are handled alike.
Stopped == [status |-> "stopped", pid |-> 0]

\* persistPidFile of what is shown.
Entry(m) == IF m.status \in {"running", "stopping"} THEN m.pid ELSE 0

-----------------------------------------------------------------------------
(* ToolProcessSupervisor                                                   *)

\* Variant for mutation: starts whatever runs.
StartAnyway(m) ==
  /\ launched < MaxLaunches
  /\ launched' = launched + 1
  /\ shown' = Running
  /\ pidFile' = launched + 1
  /\ alive' = alive \cup {launched + 1}
  /\ own' = own \cup {launched + 1}

\* startTool, the runtime being m: nothing to do, a new process, or none.
StartTool(m) ==
  \/ /\ m.status = "running"
     /\ shown' = m
     /\ pidFile' = m.pid
     /\ UNCHANGED <<alive, own, launched>>
  \/ /\ m.status # "running"
     /\ launched < MaxLaunches
     /\ launched' = launched + 1
     /\ shown' = Running
     /\ pidFile' = launched + 1
     /\ alive' = alive \cup {launched + 1}
     /\ own' = own \cup {launched + 1}
  \/ /\ m.status # "running"
     /\ shown' = Stopped
     /\ pidFile' = 0
     /\ UNCHANGED <<alive, own, launched>>

\* runCli: loadTools and startAll, whatever an earlier manager left running.
ManagerStarts ==
  /\ manager = "down"
  /\ manager' = "up"
  /\ StartTool(Stopped)
  /\ UNCHANGED <<keyed, outside, overtaken, crossed>>

\* stopTool is over and leaves m: restartTool starts the tool, and the end of
\* stopAll closes the screen.
AfterStop(c, kind, m) ==
  /\ keyed' = [keyed EXCEPT ![c] = Resting]
  /\ IF kind = "restart" THEN StartTool(m)
       ELSE /\ shown' = m
            /\ pidFile' = Entry(m)
            /\ UNCHANGED <<alive, own, launched>>
  /\ manager' = IF kind = "quit" THEN "closed" ELSE manager

Restarting(k) == \E c \in Keys : k[c].phase # "none" /\ k[c].kind = "restart"
Quitting(k) == \E c \in Keys : k[c].phase # "none" /\ k[c].kind = "quit"

\* Variant for mutation: the end of the process is not awaited.
PressAndGo(c, kind) ==
  /\ manager = "up"
  /\ keyed[c].phase = "none"
  /\ AfterStop(c, kind, Stopped)
  /\ UNCHANGED <<outside, overtaken, crossed>>

\* A key: the tool is not running, or is sent a SIGTERM and waited for.
Press(c, kind) ==
  /\ manager = "up"
  /\ keyed[c].phase = "none"
  /\ kind = "quit" => ~Quitting(keyed)
  /\ IF shown.pid = 0
       THEN AfterStop(c, kind, Stopped)
       ELSE /\ shown' = [shown EXCEPT !.status = "stopping"]
            /\ keyed' = [keyed EXCEPT ![c] =
                 [phase |-> "terminating", kind |-> kind, target |-> shown.pid]]
            /\ UNCHANGED <<manager, pidFile, alive, own, launched>>
  /\ crossed' = (crossed \/ (kind = "restart" /\ Quitting(keyed))
                   \/ (kind = "quit" /\ Restarting(keyed)))
  /\ UNCHANGED <<outside, overtaken>>

\* waitForExit finds the process gone; another key may have been quicker, and
\* another process of the tool may be the one that is being stopped now.
WaitEnds(c) ==
  /\ keyed[c].phase \in {"terminating", "killing"}
  /\ keyed[c].target \notin alive
  /\ AfterStop(c, keyed[c].kind, shown)
  /\ overtaken' = (overtaken \/ shown.status = "stopping")
  /\ UNCHANGED <<outside, crossed>>

\* The first wait runs out and SIGKILL is sent; the second runs out, and what
\* was to follow the stop follows.
WaitRunsOut(c) ==
  /\ keyed[c].target \in alive
  /\ \/ /\ keyed[c].phase = "terminating"
        /\ keyed' = [keyed EXCEPT ![c].phase = "killing"]
        /\ UNCHANGED <<manager, shown, pidFile, alive, own, launched, overtaken>>
     \/ /\ keyed[c].phase = "killing"
        /\ AfterStop(c, keyed[c].kind, shown)
        /\ overtaken' = TRUE
  /\ UNCHANGED <<outside, crossed>>

\* A process ends.  The manager that launched it sees the event, and takes it for
\* the end of the process it shows.
Exit(p) ==
  /\ p \in alive
  /\ alive' = alive \ {p}
  /\ IF p \in own
       THEN /\ shown' = Stopped
            /\ pidFile' = 0
       ELSE UNCHANGED <<shown, pidFile>>
  /\ UNCHANGED <<manager, own, launched, keyed, outside, overtaken, crossed>>

\* The manager is killed, or ends once nothing keeps it from ending.
ManagerEnds ==
  /\ manager # "down"
  /\ manager' = "down"
  /\ shown' = Stopped
  /\ own' = {}
  /\ keyed' = [c \in Keys |-> Resting]
  /\ crossed' = FALSE
  /\ overtaken' = FALSE
  /\ UNCHANGED <<pidFile, alive, launched, outside>>

-----------------------------------------------------------------------------
(* Behind the manager's back, one at a time                                *)

\* The command "stop" (stopFromPidFile) signals the process of the file, the
\* administration tool (controlToolProcess) that one and those pgrep finds.
OutsideStops(kind) ==
  /\ outside = "none"
  /\ pidFile # 0 \/ (kind # "shell" /\ alive # {})
  /\ outside' = kind
  /\ UNCHANGED <<manager, shown, pidFile, alive, own, launched, keyed, overtaken, crossed>>

\* The wait ends, whether they have gone or not.  The command writes back the
\* entries it read and did not stop, so that one written in the meantime is lost;
\* a restart launches a process nobody else has to do with.
OutsideEnds ==
  /\ outside # "none"
  /\ outside' = "none"
  /\ pidFile' = IF outside = "shell" THEN 0 ELSE pidFile
  /\ IF outside = "restart"
       THEN /\ launched < MaxLaunches
            /\ launched' = launched + 1
            /\ alive' = alive \cup {launched + 1}
       ELSE UNCHANGED <<launched, alive>>
  /\ UNCHANGED <<manager, shown, own, keyed, overtaken, crossed>>

-----------------------------------------------------------------------------
ProcessesInit ==
  /\ launched = 0
  /\ manager = "down"
  /\ shown = Stopped
  /\ pidFile = 0
  /\ alive = {}
  /\ own = {}
  /\ keyed = [c \in Keys |-> Resting]
  /\ outside = "none"
  /\ overtaken = FALSE
  /\ crossed = FALSE

ProcessesNext ==
  \/ ManagerStarts \/ ManagerEnds
  \/ \E c \in Keys :
       (\E kind \in KeyKind : Press(c, kind)) \/ WaitEnds(c) \/ WaitRunsOut(c)
  \/ \E p \in alive : Exit(p)
  \/ (\E kind \in {"shell", "stop", "restart"} : OutsideStops(kind)) \/ OutsideEnds

-----------------------------------------------------------------------------
(* Properties                                                              *)

ProcessesTypeOK ==
  /\ manager \in {"up", "closed", "down"}
  /\ shown \in [status : {"running", "stopping", "stopped"}, pid : 0..launched]
  /\ shown.pid = 0 <=> shown.status = "stopped"
  /\ pidFile \in 0..launched
  /\ own \subseteq 1..launched /\ alive \subseteq 1..launched
  /\ keyed \in [Keys -> [phase : {"none", "terminating", "killing"}, kind : KeyKind,
                         target : 0..launched]]
  /\ outside \in {"none", "shell", "stop", "restart"}
  /\ overtaken \in BOOLEAN /\ crossed \in BOOLEAN
  /\ launched \in 0..MaxLaunches

\* However the keys are pressed, the one process of the manager that runs is the
\* one it shows, as long as no wait ends with a process still being stopped.
RunningIsShown ==
  ~overtaken => \A p \in own \cap alive : shown.pid = p

\* Once the manager has closed nothing of its own runs on, as long as no restart
\* was underway while it was closing and nothing outlived both waits.
NothingRunsOn ==
  manager = "closed" /\ ~overtaken /\ ~crossed => own \cap alive = {}

\* What the keys rely on: a manager that is down has let go of everything; a
\* restart and the closing meet only when "crossed" says so, and nothing is
\* started while the tool is being stopped for good.
KeysFollow ==
  /\ manager = "down" => own = {} /\ shown = Stopped /\ \A c \in Keys : keyed[c] = Resting
  /\ Restarting(keyed) /\ (Quitting(keyed) \/ manager = "closed") => crossed
  /\ Quitting(keyed) /\ ~crossed => shown.status # "running"

\* The manager knows its process while it is up, and leaves none when it is not.
ProcessesAgree == RunningIsShown /\ NothingRunsOn /\ KeysFollow
ProcessesCorrect == ProcessesTypeOK /\ ProcessesAgree

ProcessesSpec == ProcessesInit /\ [][ProcessesNext]_processVars
=============================================================================
