----------------------------- MODULE ToolsProofs -----------------------------
(***************************************************************************)
(* Theorems about what the tools keep, for any number of keys, processes,  *)
(* memories, calls and browsers: the manager knows its processes           *)
(* (ToolProcesses), the index, the rows and the files of the memories      *)
(* follow each other (Memories), the sessions, timers, contexts and        *)
(* browsers belong to each other (BrowseSessions), and the containers that *)
(* run are known (Containers).  And about the configuration they run with: *)
(* the pages that edit its files (ConfigEditing), and the secrets it names *)
(* (Secrets).                                                              *)
(***************************************************************************)
EXTENDS ToolProcesses, Memories, BrowseSessions, Containers, ConfigEditing, Secrets,
        FiniteSetTheorems, WellFoundedInduction, TLAPS

-----------------------------------------------------------------------------
(* The processes of a tool                                                 *)

\* What startTool leaves behind when nothing of the manager's own runs besides
\* what it shows.
LEMMA StartToolKeeps ==
  ASSUME ProcessesTypeOK, NEW m, m = shown \/ m = Stopped, StartTool(m)
  PROVE  /\ shown' \in [status : {"running", "stopping", "stopped"}, pid : 0..launched']
         /\ shown'.pid = 0 <=> shown'.status = "stopped"
         /\ pidFile' \in 0..launched' /\ launched' \in 0..MaxLaunches /\ launched <= launched'
         /\ own' \subseteq 1..launched' /\ alive' \subseteq 1..launched'
         /\ \A p \in own' \cap alive' : p \in own \cap alive \/ shown'.pid = p
         /\ m.status = "running" => own' = own /\ alive' = alive /\ shown' = m
<1>. USE ProcessesAssumption DEF ProcessesTypeOK
<1>1. /\ m \in [status : {"running", "stopping", "stopped"}, pid : 0..launched]
      /\ m.pid = 0 <=> m.status = "stopped"
      /\ launched \in Nat
  BY DEF Stopped
<1>2. CASE m.status = "running" /\ UNCHANGED <<alive, own, launched>> /\ shown' = m /\ pidFile' = m.pid
  BY <1>1, <1>2
<1>3. CASE /\ m.status # "running" /\ launched < MaxLaunches /\ launched' = launched + 1
           /\ shown' = Running /\ pidFile' = launched + 1
           /\ alive' = alive \cup {launched + 1} /\ own' = own \cup {launched + 1}
  BY <1>1, <1>3 DEF Running
<1>4. CASE m.status # "running" /\ UNCHANGED <<alive, own, launched>> /\ shown' = Stopped /\ pidFile' = 0
  BY <1>1, <1>4 DEF Stopped
<1>. QED
  BY <1>2, <1>3, <1>4 DEF StartTool

\* The end of a stop: the key is done, and only a restart launches anything.
LEMMA AfterStopKeeps ==
  ASSUME ProcessesTypeOK, KeysFollow, NEW c \in Keys, NEW kind \in KeyKind, NEW m,
         m = shown \/ m = Stopped, AfterStop(c, kind, m), manager # "down",
         outside' \in {"none", "shell", "stop", "restart"},
         overtaken' \in BOOLEAN, crossed' \in BOOLEAN
  PROVE  /\ ProcessesTypeOK'
         /\ \A p \in own' \cap alive' : p \in own \cap alive \/ (kind = "restart" /\ shown'.pid = p)
         /\ kind # "restart" => shown' = m /\ UNCHANGED <<alive, own>>
         /\ m.status = "running" => shown' = m
         /\ keyed'[c] = Resting /\ \A k \in Keys : k # c => keyed'[k] = keyed[k]
         /\ manager' = IF kind = "quit" THEN "closed" ELSE manager
<1>. USE DEF ProcessesTypeOK
<1>1. /\ keyed' = [keyed EXCEPT ![c] = Resting]
      /\ manager' = IF kind = "quit" THEN "closed" ELSE manager
  BY DEF AfterStop
<1>2. Resting \in [phase : {"none", "terminating", "killing"}, kind : KeyKind, target : 0..launched]
  BY ProcessesAssumption DEF Resting, KeyKind
<1>3. launched <= launched' /\ launched' \in Nat =>
        keyed' \in [Keys -> [phase : {"none", "terminating", "killing"}, kind : KeyKind,
                             target : 0..launched']]
  BY <1>1, <1>2
<1>4. CASE kind = "restart"
  <2>1. StartTool(m)
    BY <1>4 DEF AfterStop
  <2>2. /\ shown' \in [status : {"running", "stopping", "stopped"}, pid : 0..launched']
        /\ shown'.pid = 0 <=> shown'.status = "stopped"
        /\ pidFile' \in 0..launched' /\ launched' \in 0..MaxLaunches /\ launched <= launched'
        /\ own' \subseteq 1..launched' /\ alive' \subseteq 1..launched'
        /\ \A p \in own' \cap alive' : p \in own \cap alive \/ shown'.pid = p
        /\ m.status = "running" => own' = own /\ alive' = alive /\ shown' = m
    BY <2>1, StartToolKeeps
  <2>3. ProcessesTypeOK'
    BY <1>1, <1>3, <1>4, <2>2
  <2>. QED
    BY <1>1, <1>4, <2>2, <2>3
<1>5. CASE kind # "restart"
  <2>1. shown' = m /\ pidFile' = Entry(m) /\ UNCHANGED <<alive, own, launched>>
    BY <1>5 DEF AfterStop
  <2>2. /\ m \in [status : {"running", "stopping", "stopped"}, pid : 0..launched]
        /\ m.pid = 0 <=> m.status = "stopped"
    BY ProcessesAssumption DEF Stopped
  <2>3. Entry(m) \in 0..launched
    BY <2>2, ProcessesAssumption DEF Entry
  <2>. QED
    BY <1>1, <1>3, <1>5, <2>1, <2>2, <2>3
<1>. QED
  BY <1>4, <1>5

LEMMA KeyStep ==
  ASSUME ProcessesTypeOK, ProcessesAgree, NEW c \in Keys,
         (\E kind \in KeyKind : Press(c, kind)) \/ WaitEnds(c) \/ WaitRunsOut(c)
  PROVE  ProcessesTypeOK' /\ ProcessesAgree'
<1>0. RunningIsShown /\ NothingRunsOn /\ KeysFollow
  BY DEF ProcessesAgree
<1>1. shown.pid = 0 /\ ~overtaken => own \cap alive = {}
  BY <1>0 DEF ProcessesTypeOK, RunningIsShown
\* The end of a stop that was pressed in an earlier or in this step.
<1>2. ASSUME NEW kind \in KeyKind, NEW m, m = shown \/ m = Stopped, AfterStop(c, kind, m),
             manager # "down", UNCHANGED outside, overtaken' \in BOOLEAN, crossed' \in BOOLEAN,
             overtaken => overtaken', crossed => crossed',
             \* what runs is shown, or has been overtaken
             ~overtaken' => \/ m = shown /\ shown.status = "running"
                            \/ m.pid = 0 /\ shown.pid = 0,
             \* the closing and a restart have met
             kind = "restart" /\ (Quitting(keyed) \/ manager = "closed") => crossed',
             kind = "quit" /\ Restarting(keyed) => crossed',
             kind = "quit" /\ ~crossed' => shown.status # "running"
      PROVE  ProcessesTypeOK' /\ ProcessesAgree'
  <2>1. /\ ProcessesTypeOK'
        /\ \A p \in own' \cap alive' : p \in own \cap alive \/ (kind = "restart" /\ shown'.pid = p)
        /\ kind # "restart" => shown' = m /\ UNCHANGED <<alive, own>>
        /\ m.status = "running" => shown' = m
        /\ keyed'[c] = Resting /\ \A k \in Keys : k # c => keyed'[k] = keyed[k]
        /\ manager' = IF kind = "quit" THEN "closed" ELSE manager
    BY <1>0, <1>2, AfterStopKeeps DEF ProcessesTypeOK
  <2>2. m.status = "running" => m = shown
    BY <1>2 DEF Stopped
  <2>3. RunningIsShown'
    BY <1>0, <1>1, <1>2, <2>1 DEF RunningIsShown
  <2>4. /\ Restarting(keyed') => Restarting(keyed)
        /\ Quitting(keyed') => Quitting(keyed)
    BY <2>1 DEF Restarting, Quitting, Resting
  <2>5. NothingRunsOn'
    <3>. SUFFICES ASSUME manager' = "closed", ~overtaken', ~crossed'
                  PROVE  own' \cap alive' = {}
      BY DEF NothingRunsOn
    <3>1. kind # "restart"
      BY <1>2, <2>1, <2>2
    <3>2. CASE manager = "closed"
      BY <1>0, <1>2, <2>1, <3>1, <3>2 DEF NothingRunsOn
    <3>3. CASE kind = "quit"
      BY <1>1, <1>2, <2>1, <3>1, <3>3
    <3>. QED
      BY <2>1, <3>2, <3>3
  <2>6. KeysFollow'
    <3>1. manager' # "down"
      BY <1>2, <2>1
    <3>2. Restarting(keyed') /\ (Quitting(keyed') \/ manager' = "closed") => crossed'
      BY <1>0, <1>2, <2>1, <2>4 DEF KeysFollow
    <3>3. Quitting(keyed') /\ ~crossed' => shown'.status # "running"
      <4>. SUFFICES ASSUME Quitting(keyed'), ~crossed'
                    PROVE  shown'.status # "running"
        OBVIOUS
      <4>1. shown.status # "running" /\ kind # "restart"
        BY <1>0, <1>2, <2>4 DEF KeysFollow
      <4>. QED
        BY <1>2, <2>1, <4>1 DEF Stopped
    <3>. QED
      BY <3>1, <3>2, <3>3 DEF KeysFollow, Restarting, Quitting
  <2>. QED
    BY <2>1, <2>3, <2>5, <2>6 DEF ProcessesAgree
<1>3. ASSUME NEW kind \in KeyKind, Press(c, kind)
      PROVE  ProcessesTypeOK' /\ ProcessesAgree'
  <2>0. /\ manager = "up" /\ keyed[c].phase = "none"
        /\ kind = "quit" => ~Quitting(keyed)
        /\ crossed' = (crossed \/ (kind = "restart" /\ Quitting(keyed))
                         \/ (kind = "quit" /\ Restarting(keyed)))
        /\ UNCHANGED <<outside, overtaken>>
    BY <1>3 DEF Press
  <2>1. CASE shown.pid = 0
    <3>1. AfterStop(c, kind, Stopped)
      BY <1>3, <2>1 DEF Press
    <3>2. shown.status # "running" /\ Stopped.pid = 0
      BY <2>1 DEF ProcessesTypeOK, Stopped
    <3>3. crossed' \in BOOLEAN /\ overtaken' \in BOOLEAN
      BY <2>0 DEF ProcessesTypeOK
    <3>. QED
      <4>1. crossed => crossed'
        BY <2>0
      <4>2. kind = "restart" /\ (Quitting(keyed) \/ manager = "closed") => crossed'
        BY <2>0
      <4>3. kind = "quit" /\ Restarting(keyed) => crossed'
        BY <2>0
      <4>4. (overtaken => overtaken') /\ manager # "down" /\ outside' = outside
        BY <2>0
      <4>. QED
        BY <1>2, <2>1, <3>1, <3>2, <3>3, <4>1, <4>2, <4>3, <4>4
  <2>2. CASE shown.pid # 0
    <3>1. /\ shown' = [shown EXCEPT !.status = "stopping"]
          /\ keyed' = [keyed EXCEPT ![c] =
                 [phase |-> "terminating", kind |-> kind, target |-> shown.pid]]
          /\ UNCHANGED <<manager, pidFile, alive, own, launched>>
      BY <1>3, <2>2 DEF Press
    <3>2. ProcessesTypeOK'
      BY <2>0, <2>2, <3>1 DEF ProcessesTypeOK, KeyKind
    <3>3. /\ shown'.pid = shown.pid /\ shown'.status = "stopping"
          /\ keyed'[c].phase = "terminating" /\ keyed'[c].kind = kind
          /\ \A k \in Keys : k # c => keyed'[k] = keyed[k]
      BY <3>1 DEF ProcessesTypeOK
    <3>4. RunningIsShown' /\ NothingRunsOn'
      BY <1>0, <2>0, <3>1, <3>3 DEF RunningIsShown, NothingRunsOn
    <3>5. Restarting(keyed') => Restarting(keyed) \/ kind = "restart"
      BY <3>3 DEF Restarting
    <3>6. Quitting(keyed') => Quitting(keyed) \/ kind = "quit"
      BY <3>3 DEF Quitting
    <3>7. KeysFollow'
      <4>1. manager' = "up" /\ ~(kind = "restart" /\ kind = "quit")
        BY <2>0, <3>1
      <4>2. Restarting(keyed) /\ Quitting(keyed) => crossed
        BY <1>0 DEF KeysFollow
      <4>3. Restarting(keyed') /\ Quitting(keyed') => crossed'
        BY <2>0, <3>5, <3>6, <4>1, <4>2
      <4>. QED
        BY <3>3, <4>1, <4>3 DEF KeysFollow, Restarting, Quitting
    <3>. QED
      BY <3>2, <3>4, <3>7 DEF ProcessesAgree
  <2>. QED
    BY <2>1, <2>2
\* A key whose stop is being waited for.
<1>4. ASSUME keyed[c].phase \in {"terminating", "killing"}, AfterStop(c, keyed[c].kind, shown),
             UNCHANGED <<outside, crossed>>, overtaken' \in BOOLEAN,
             ~overtaken' => ~overtaken /\ shown.status # "stopping"
      PROVE  ProcessesTypeOK' /\ ProcessesAgree'
  <2>1. /\ keyed[c].kind \in KeyKind /\ crossed' = crossed /\ crossed \in BOOLEAN
        /\ shown.status \in {"running", "stopping", "stopped"}
        /\ shown.pid = 0 <=> shown.status = "stopped"
    BY <1>4 DEF ProcessesTypeOK
  <2>2. manager # "down"
    BY <1>0, <1>4 DEF KeysFollow, Resting
  <2>3. /\ keyed[c].kind = "restart" => Restarting(keyed)
        /\ keyed[c].kind = "quit" => Quitting(keyed)
    BY <1>4 DEF Restarting, Quitting
  <2>. QED
    BY <1>0, <1>2, <1>4, <2>1, <2>2, <2>3 DEF KeysFollow
<1>5. CASE WaitEnds(c)
  BY <1>4, <1>5 DEF WaitEnds, ProcessesTypeOK
<1>6. ASSUME WaitRunsOut(c)
      PROVE  ProcessesTypeOK' /\ ProcessesAgree'
  <2>1. CASE keyed[c].phase = "terminating" /\ keyed' = [keyed EXCEPT ![c].phase = "killing"]
               /\ UNCHANGED <<manager, shown, pidFile, alive, own, launched, overtaken>>
    <3>0. UNCHANGED <<outside, crossed>>
      BY <1>6 DEF WaitRunsOut
    <3>1. /\ ProcessesTypeOK' /\ keyed'[c].kind = keyed[c].kind /\ keyed'[c].phase = "killing"
          /\ \A k \in Keys : k # c => keyed'[k] = keyed[k]
      BY <2>1, <3>0 DEF ProcessesTypeOK
    <3>2. /\ Restarting(keyed') => Restarting(keyed)
          /\ Quitting(keyed') => Quitting(keyed)
      BY <2>1, <3>1 DEF Restarting, Quitting
    <3>3. manager # "down"
      BY <1>0, <2>1 DEF KeysFollow, Resting
    <3>4. KeysFollow'
      BY <1>0, <2>1, <3>0, <3>2, <3>3 DEF KeysFollow, Restarting, Quitting
    <3>. QED
      BY <1>0, <2>1, <3>0, <3>1, <3>4 DEF ProcessesAgree, RunningIsShown, NothingRunsOn
  <2>2. CASE keyed[c].phase = "killing" /\ AfterStop(c, keyed[c].kind, shown) /\ overtaken' = TRUE
    BY <1>4, <1>6, <2>2 DEF WaitRunsOut
  <2>. QED
    BY <1>6, <2>1, <2>2 DEF WaitRunsOut
<1>. QED
  BY <1>3, <1>5, <1>6

LEMMA ProcessesStep ==
  ProcessesTypeOK /\ ProcessesAgree /\ [ProcessesNext]_processVars
    => ProcessesTypeOK' /\ ProcessesAgree'
<1>. SUFFICES ASSUME ProcessesTypeOK, ProcessesAgree, [ProcessesNext]_processVars
              PROVE  ProcessesTypeOK' /\ ProcessesAgree'
  OBVIOUS
<1>0. RunningIsShown /\ NothingRunsOn /\ KeysFollow
  BY DEF ProcessesAgree
<1>1. ASSUME NEW c \in Keys, (\E kind \in KeyKind : Press(c, kind)) \/ WaitEnds(c) \/ WaitRunsOut(c)
      PROVE  ProcessesTypeOK' /\ ProcessesAgree'
  BY <1>1, KeyStep
<1>2. CASE ManagerStarts
  <2>1. /\ manager = "down" /\ manager' = "up" /\ StartTool(Stopped)
        /\ UNCHANGED <<keyed, outside, overtaken, crossed>>
    BY <1>2 DEF ManagerStarts
  <2>2. own = {} /\ \A c \in Keys : keyed[c] = Resting
    BY <1>0, <2>1 DEF KeysFollow
  <2>3. /\ shown' \in [status : {"running", "stopping", "stopped"}, pid : 0..launched']
        /\ shown'.pid = 0 <=> shown'.status = "stopped"
        /\ pidFile' \in 0..launched' /\ launched' \in 0..MaxLaunches /\ launched <= launched'
        /\ own' \subseteq 1..launched' /\ alive' \subseteq 1..launched'
        /\ \A p \in own' \cap alive' : p \in own \cap alive \/ shown'.pid = p
    BY <2>1, StartToolKeeps
  <2>4. ProcessesTypeOK'
    BY <2>1, <2>3 DEF ProcessesTypeOK
  <2>5. ~Restarting(keyed') /\ ~Quitting(keyed')
    BY <2>1, <2>2 DEF Restarting, Quitting, Resting
  <2>. QED
    BY <2>1, <2>2, <2>3, <2>4, <2>5
    DEF ProcessesAgree, RunningIsShown, NothingRunsOn, KeysFollow, Restarting, Quitting
<1>3. CASE ManagerEnds
  <2>1. /\ manager' = "down" /\ shown' = Stopped /\ own' = {}
        /\ keyed' = [c \in Keys |-> Resting] /\ crossed' = FALSE /\ overtaken' = FALSE
        /\ UNCHANGED <<pidFile, alive, launched, outside>>
    BY <1>3 DEF ManagerEnds
  <2>2. /\ Resting \in [phase : {"none", "terminating", "killing"}, kind : KeyKind, target : 0..launched]
        /\ Stopped \in [status : {"running", "stopping", "stopped"}, pid : 0..launched]
        /\ Stopped.pid = 0 /\ Stopped.status = "stopped"
    BY ProcessesAssumption DEF Resting, KeyKind, Stopped, ProcessesTypeOK
  <2>3. ProcessesTypeOK'
    BY <2>1, <2>2 DEF ProcessesTypeOK
  <2>4. ~Restarting(keyed') /\ ~Quitting(keyed')
    BY <2>1 DEF Restarting, Quitting, Resting
  <2>. QED
    BY <2>1, <2>3, <2>4
    DEF ProcessesAgree, RunningIsShown, NothingRunsOn, KeysFollow, Restarting, Quitting, Stopped
<1>4. ASSUME NEW p \in alive, Exit(p)
      PROVE  ProcessesTypeOK' /\ ProcessesAgree'
  <2>1. /\ alive' = alive \ {p}
        /\ UNCHANGED <<manager, own, launched, keyed, outside, overtaken, crossed>>
        /\ \/ p \in own /\ shown' = Stopped /\ pidFile' = 0
           \/ p \notin own /\ UNCHANGED <<shown, pidFile>>
    BY <1>4 DEF Exit
  <2>2. /\ Stopped \in [status : {"running", "stopping", "stopped"}, pid : 0..launched]
        /\ Stopped.pid = 0 /\ Stopped.status = "stopped"
    BY ProcessesAssumption DEF Stopped, ProcessesTypeOK
  <2>3. ProcessesTypeOK'
    BY <2>1, <2>2 DEF ProcessesTypeOK
  <2>4. RunningIsShown' /\ NothingRunsOn'
    BY <1>0, <2>1 DEF RunningIsShown, NothingRunsOn
  <2>5. KeysFollow'
    BY <1>0, <2>1, <2>2 DEF KeysFollow, Restarting, Quitting
  <2>. QED
    BY <2>3, <2>4, <2>5 DEF ProcessesAgree
<1>5. ASSUME NEW kind \in {"shell", "stop", "restart"}, OutsideStops(kind)
      PROVE  ProcessesTypeOK' /\ ProcessesAgree'
  BY <1>0, <1>5 DEF OutsideStops, ProcessesTypeOK, ProcessesAgree, RunningIsShown, NothingRunsOn,
     KeysFollow, Restarting, Quitting
<1>6. CASE OutsideEnds
  <2>1. /\ outside' = "none" /\ pidFile' \in {0, pidFile}
        /\ UNCHANGED <<manager, shown, own, keyed, overtaken, crossed>>
        /\ \/ launched < MaxLaunches /\ launched' = launched + 1 /\ alive' = alive \cup {launched + 1}
           \/ UNCHANGED <<launched, alive>>
    BY <1>6 DEF OutsideEnds
  <2>2. launched' \in 0..MaxLaunches /\ launched <= launched' /\ launched \in Nat
    BY <2>1, ProcessesAssumption DEF ProcessesTypeOK
  <2>3. /\ alive' \subseteq 1..launched' /\ own' \subseteq 1..launched' /\ pidFile' \in 0..launched'
        /\ own' \cap alive' = own \cap alive
    <3>1. launched + 1 \notin own /\ 1..launched \subseteq 1..launched'
      BY <2>2 DEF ProcessesTypeOK
    <3>2. alive' = alive \/ (alive' = alive \cup {launched + 1} /\ launched + 1 \in 1..launched')
      BY <2>1, <2>2
    <3>3. pidFile' \in 0..launched'
      BY <2>1, <2>2 DEF ProcessesTypeOK
    <3>. QED
      BY <2>1, <3>1, <3>2, <3>3 DEF ProcessesTypeOK
  <2>4. ProcessesTypeOK'
    <3>1. /\ shown' \in [status : {"running", "stopping", "stopped"}, pid : 0..launched']
          /\ keyed' \in [Keys -> [phase : {"none", "terminating", "killing"}, kind : KeyKind,
                                  target : 0..launched']]
      <4>1. 0..launched \subseteq 0..launched'
        BY <2>2
      <4>. QED
        BY <2>1, <4>1 DEF ProcessesTypeOK
    <3>. QED
      BY <2>1, <2>2, <2>3, <3>1 DEF ProcessesTypeOK
  <2>. QED
    BY <1>0, <2>1, <2>3, <2>4 DEF ProcessesAgree, RunningIsShown, NothingRunsOn,
       KeysFollow, Restarting, Quitting
<1>7. CASE UNCHANGED processVars
  BY <1>0, <1>7 DEF processVars, ProcessesTypeOK, ProcessesAgree, RunningIsShown, NothingRunsOn,
     KeysFollow, Restarting, Quitting
<1>. QED
  BY <1>1, <1>2, <1>3, <1>4, <1>5, <1>6, <1>7 DEF ProcessesNext

\* For any keys pressed in any order, and whatever happens behind the manager's
\* back: the one process of its own that runs is the one it shows, and none runs
\* on after it has closed, but for stops given up and closings crossed by a restart.
THEOREM ProcessesAreCorrect == ProcessesSpec => []ProcessesCorrect
<1>1. ProcessesInit => ProcessesTypeOK /\ ProcessesAgree
  <2>. SUFFICES ASSUME ProcessesInit
                PROVE  ProcessesTypeOK /\ ProcessesAgree
    OBVIOUS
  <2>1. /\ Resting \in [phase : {"none", "terminating", "killing"}, kind : KeyKind, target : 0..0]
        /\ Resting.phase = "none"
    BY DEF Resting, KeyKind
  <2>2. ProcessesTypeOK
    <3>1. keyed \in [Keys -> [phase : {"none", "terminating", "killing"}, kind : KeyKind,
                              target : 0..launched]]
      BY <2>1 DEF ProcessesInit
    <3>2. shown \in [status : {"running", "stopping", "stopped"}, pid : 0..launched]
          /\ (shown.pid = 0 <=> shown.status = "stopped")
      BY DEF ProcessesInit, Stopped
    <3>3. launched \in 0..MaxLaunches /\ pidFile \in 0..launched
      BY ProcessesAssumption DEF ProcessesInit
    <3>4. overtaken \in BOOLEAN /\ crossed \in BOOLEAN
      BY DEF ProcessesInit
    <3>. QED
      BY <3>1, <3>2, <3>3, <3>4 DEF ProcessesInit, ProcessesTypeOK
  <2>3. ~Restarting(keyed) /\ ~Quitting(keyed)
    BY <2>1 DEF ProcessesInit, Restarting, Quitting
  <2>. QED
    BY <2>2, <2>3 DEF ProcessesInit, ProcessesAgree, RunningIsShown, NothingRunsOn, KeysFollow
<1>2. ProcessesTypeOK /\ ProcessesAgree => ProcessesCorrect
  BY DEF ProcessesCorrect
<1>. QED
  BY <1>1, <1>2, ProcessesStep, PTL DEF ProcessesSpec

-----------------------------------------------------------------------------
(* Memories                                                                *)

\* A call begins with what it will index: only what no other call is about is
\* no longer stale.
LEMMA RaceKeeps ==
  ASSUME MemoryTypeOK, NEW S \in SUBSET Mems, Race(S)
  PROVE  /\ stale' \subseteq Mems
         /\ \A m \in Mems : m \notin stale' => (m \notin S /\ m \notin stale) \/ (m \in S /\ ~Indexing(m))
BY DEF Race, MemoryTypeOK

LEMMA WriteKeeps ==
  ASSUME MemoryTypeOK, MemoriesAgree, NEW c \in MemCalls, NEW m \in Mems, NEW personal \in BOOLEAN,
         NEW rev \in 1..MaxRevision, Idle(c), Write(c, m, rev, personal)
  PROVE  MemoryTypeOK' /\ MemoriesAgree'
<1>0. IndexIsFresh /\ IndexingFollowsFile /\ DeletedIsNotFound /\ RowFollowsFile
  BY DEF MemoriesAgree
<1>1. /\ file' = [file EXCEPT ![m] = rev] /\ row' = [row EXCEPT ![m] = [rev |-> rev, personal |-> personal]]
      /\ memCalls' = [memCalls EXCEPT ![c] = {[mem |-> m, rev |-> rev]}]
      /\ torn' = torn \ {m} /\ UNCHANGED <<chunks, deleted>> /\ rev # 0
  BY MemoryAssumption DEF Write
<1>2. /\ stale' \subseteq Mems
      /\ \A n \in Mems : n \notin stale' => (n # m /\ n \notin stale) \/ (n = m /\ ~Indexing(m))
  BY RaceKeeps DEF Write
<1>3. /\ file'[m] = rev /\ row'[m].rev = rev /\ memCalls'[c] = {[mem |-> m, rev |-> rev]}
      /\ \A n \in Mems : n # m => file'[n] = file[n] /\ row'[n] = row[n]
      /\ \A k \in MemCalls : k # c => memCalls'[k] = memCalls[k]
  BY <1>1 DEF MemoryTypeOK
<1>4. MemoryTypeOK'
  BY <1>1, <1>2, MemoryAssumption DEF MemoryTypeOK
<1>5. Indexing(m)' /\ \A n \in Mems : Indexing(n) => Indexing(n)'
  <2>1. \E d \in memCalls'[c] : d.mem = m
    BY <1>3
  <2>. QED
    BY <1>3, <2>1 DEF Indexing, Idle
<1>6. IndexIsFresh'
  BY <1>0, <1>1, <1>2, <1>3, <1>5 DEF IndexIsFresh, Live
<1>7. IndexingFollowsFile'
  <2>. SUFFICES ASSUME NEW n \in Mems, Live(n)', n \notin stale', NEW k \in MemCalls,
                       NEW d \in memCalls'[k], d.mem = n
                PROVE  d.rev = file'[n]
    BY DEF IndexingFollowsFile
  <2>1. CASE k = c
    BY <1>3, <2>1
  <2>2. CASE k # c
    BY <1>0, <1>2, <1>3, <2>2 DEF IndexingFollowsFile, Indexing, Live
  <2>. QED
    BY <2>1, <2>2
<1>8. DeletedIsNotFound' /\ RowFollowsFile'
  BY <1>0, <1>1, <1>3 DEF DeletedIsNotFound, RowFollowsFile, Live
<1>. QED
  BY <1>4, <1>6, <1>7, <1>8 DEF MemoriesAgree

LEMMA ReindexKeeps ==
  ASSUME MemoryTypeOK, MemoriesAgree, NEW c \in MemCalls, NEW S \in SUBSET Mems, Reindex(c, S)
  PROVE  MemoryTypeOK' /\ MemoriesAgree'
<1>0. IndexIsFresh /\ IndexingFollowsFile /\ DeletedIsNotFound /\ RowFollowsFile
  BY DEF MemoriesAgree
<1>1. /\ memCalls' = [memCalls EXCEPT ![c] = {[mem |-> m, rev |-> file[m]] : m \in S}]
      /\ memCalls[c] = {} /\ \A m \in S : Live(m)
      /\ UNCHANGED <<file, row, chunks, deleted, torn>>
  BY DEF Reindex, Idle
<1>2. /\ stale' \subseteq Mems
      /\ \A n \in Mems : n \notin stale' => (n \notin S /\ n \notin stale) \/ (n \in S /\ ~Indexing(n))
  BY RaceKeeps DEF Reindex
<1>3. \A m \in S : file[m] \in 1..MaxRevision
  BY <1>0, <1>1 DEF RowFollowsFile, Live, MemoryTypeOK
<1>4. /\ memCalls'[c] = {[mem |-> m, rev |-> file[m]] : m \in S}
      /\ \A k \in MemCalls : k # c => memCalls'[k] = memCalls[k]
  BY <1>1 DEF MemoryTypeOK
<1>5. MemoryTypeOK'
  <2>1. {[mem |-> m, rev |-> file[m]] : m \in S} \subseteq [mem : Mems, rev : 1..MaxRevision]
    BY <1>3
  <2>. QED
    BY <1>1, <1>2, <2>1 DEF MemoryTypeOK
<1>6. /\ \A n \in Mems : Indexing(n) => Indexing(n)'
      /\ \A n \in S : Indexing(n)'
  <2>1. ASSUME NEW n \in S
        PROVE  \E d \in memCalls'[c] : d.mem = n
    <3>1. [mem |-> n, rev |-> file[n]] \in memCalls'[c]
      BY <1>4
    <3>. QED
      BY <3>1
  <2>. QED
    BY <1>1, <1>4, <2>1 DEF Indexing
<1>7. IndexIsFresh'
  BY <1>0, <1>1, <1>2, <1>6 DEF IndexIsFresh, Live
<1>8. IndexingFollowsFile'
  <2>. SUFFICES ASSUME NEW n \in Mems, Live(n), n \notin stale', NEW k \in MemCalls,
                       NEW d \in memCalls'[k], d.mem = n
                PROVE  d.rev = file[n]
    BY <1>1 DEF IndexingFollowsFile, Live
  <2>1. CASE k = c
    BY <1>4, <2>1
  <2>2. CASE k # c
    BY <1>0, <1>2, <1>4, <2>2 DEF IndexingFollowsFile, Indexing
  <2>. QED
    BY <2>1, <2>2
<1>9. DeletedIsNotFound' /\ RowFollowsFile'
  BY <1>0, <1>1 DEF DeletedIsNotFound, RowFollowsFile, Live
<1>. QED
  BY <1>5, <1>7, <1>8, <1>9 DEF MemoriesAgree

LEMMA EmbeddedKeeps ==
  ASSUME MemoryTypeOK, MemoriesAgree, NEW c \in MemCalls,
         EmbedFails(c) \/ \E d \in memCalls[c] : Embedded(c, d)
  PROVE  MemoryTypeOK' /\ MemoriesAgree'
<1>0. IndexIsFresh /\ IndexingFollowsFile /\ DeletedIsNotFound /\ RowFollowsFile
  BY DEF MemoriesAgree
<1>1. CASE \E d \in memCalls[c] : Embedded(c, d) /\ Live(d.mem)
  <2>1. PICK d \in memCalls[c] : Embedded(c, d) /\ Live(d.mem)
    BY <1>1
  <2>2. /\ chunks' = [chunks EXCEPT ![d.mem] = d.rev]
        /\ memCalls' = [memCalls EXCEPT ![c] = @ \ {d}]
        /\ UNCHANGED <<stale, file, row, deleted, torn>>
        /\ d \in [mem : Mems, rev : 1..MaxRevision] /\ d.mem \in Mems /\ d.rev \in 1..MaxRevision
    BY <2>1 DEF Embedded, MemoryTypeOK
  <2>3. /\ memCalls'[c] = memCalls[c] \ {d}
        /\ \A k \in MemCalls : k # c => memCalls'[k] = memCalls[k]
        /\ chunks'[d.mem] = d.rev /\ \A n \in Mems : n # d.mem => chunks'[n] = chunks[n]
    BY <2>2 DEF MemoryTypeOK
  <2>4. MemoryTypeOK'
    BY <2>2 DEF MemoryTypeOK
  <2>5. \A n \in Mems : n # d.mem /\ Indexing(n) => Indexing(n)'
    BY <2>3 DEF Indexing
  <2>6. IndexIsFresh'
    BY <1>0, <2>2, <2>3, <2>5 DEF IndexIsFresh, IndexingFollowsFile, Live
  <2>7. IndexingFollowsFile'
    BY <1>0, <2>2, <2>3 DEF IndexingFollowsFile, Live
  <2>8. DeletedIsNotFound' /\ RowFollowsFile'
    BY <1>0, <2>1, <2>2, <2>3 DEF DeletedIsNotFound, RowFollowsFile, Live
  <2>. QED
    BY <2>4, <2>6, <2>7, <2>8 DEF MemoriesAgree
<1>2. CASE EmbedFails(c) \/ \E d \in memCalls[c] : Embedded(c, d) /\ ~Live(d.mem)
  <2>1. /\ memCalls' = [memCalls EXCEPT ![c] = {}]
        /\ stale' = stale \cup {d.mem : d \in memCalls[c]}
        /\ UNCHANGED <<file, row, chunks, deleted, torn>>
    BY <1>2 DEF EmbedFails, Embedded
  <2>2. /\ memCalls'[c] = {} /\ \A k \in MemCalls : k # c => memCalls'[k] = memCalls[k]
        /\ \A d \in memCalls[c] : d.mem \in stale'
    BY <2>1 DEF MemoryTypeOK
  <2>3. \A d \in memCalls[c] : d.mem \in Mems
    BY DEF MemoryTypeOK
  <2>4. MemoryTypeOK'
    BY <2>1, <2>3 DEF MemoryTypeOK
  <2>5. \A n \in Mems : Indexing(n) /\ n \notin stale' => Indexing(n)'
    BY <2>2 DEF Indexing
  <2>6. IndexIsFresh'
    BY <1>0, <2>1, <2>5 DEF IndexIsFresh, Live
  <2>7. IndexingFollowsFile'
    BY <1>0, <2>1, <2>2 DEF IndexingFollowsFile, Live
  <2>8. DeletedIsNotFound' /\ RowFollowsFile'
    BY <1>0, <2>1 DEF DeletedIsNotFound, RowFollowsFile, Live
  <2>. QED
    BY <2>4, <2>6, <2>7, <2>8 DEF MemoriesAgree
<1>. QED
  BY <1>1, <1>2

LEMMA CrashKeeps ==
  ASSUME MemoryTypeOK, MemoriesAgree, NEW half \in {{}} \cup {{m} : m \in Mems}, MemoryCrash(half)
  PROVE  MemoryTypeOK' /\ MemoriesAgree'
<1>0. IndexIsFresh /\ IndexingFollowsFile /\ DeletedIsNotFound /\ RowFollowsFile
  BY DEF MemoriesAgree
<1>1. /\ memCalls' = [c \in MemCalls |-> {}]
      /\ stale' = stale \cup {m \in Mems : Indexing(m)} \cup half
      /\ torn' = torn \cup half /\ UNCHANGED <<row, chunks, deleted>>
      /\ half \subseteq Mems
  BY DEF MemoryCrash, HalfWritten
<1>2. \A m \in Mems : ~Indexing(m)'
  BY <1>1 DEF Indexing
<1>3. /\ \A m \in Mems : m \notin half => file'[m] = file[m]
      /\ \A m \in half : file'[m] = file[m] + 1 /\ file[m] < MaxRevision
      /\ file' \in [Mems -> 0..MaxRevision]
  <2>1. CASE half = {}
    BY <2>1 DEF MemoryCrash, MemoryTypeOK
  <2>2. ASSUME NEW m \in Mems, half = {m}
        PROVE  /\ \A n \in Mems : n \notin half => file'[n] = file[n]
               /\ \A n \in half : file'[n] = file[n] + 1 /\ file[n] < MaxRevision
               /\ file' \in [Mems -> 0..MaxRevision]
    <3>1. file' = [file EXCEPT ![m] = @ + 1] /\ file[m] < MaxRevision
      BY <2>2 DEF MemoryCrash, HalfWritten
    <3>. QED
      BY <2>2, <3>1, MemoryAssumption DEF MemoryTypeOK
  <2>. QED
    BY <2>1, <2>2
<1>4. MemoryTypeOK'
  BY <1>1, <1>3 DEF MemoryTypeOK
<1>5. IndexIsFresh'
  BY <1>0, <1>1, <1>3 DEF IndexIsFresh, Live
<1>6. IndexingFollowsFile'
  BY <1>1 DEF IndexingFollowsFile
<1>7. DeletedIsNotFound'
  BY <1>0, <1>1 DEF DeletedIsNotFound, Live
<1>8. RowFollowsFile'
  <2>1. \A m \in Mems : file[m] \in Nat /\ row[m].rev \in Nat
    BY MemoryAssumption DEF MemoryTypeOK
  <2>. QED
    BY <1>0, <1>1, <1>3, <2>1 DEF RowFollowsFile, Live
<1>. QED
  BY <1>4, <1>5, <1>6, <1>7, <1>8 DEF MemoriesAgree

LEMMA MemoryStep ==
  MemoryTypeOK /\ MemoriesAgree /\ [MemoryNext]_memoryVars => MemoryTypeOK' /\ MemoriesAgree'
<1>. SUFFICES ASSUME MemoryTypeOK, MemoriesAgree, [MemoryNext]_memoryVars
              PROVE  MemoryTypeOK' /\ MemoriesAgree'
  OBVIOUS
<1>0. IndexIsFresh /\ IndexingFollowsFile /\ DeletedIsNotFound /\ RowFollowsFile
  BY DEF MemoriesAgree
<1>1. ASSUME NEW c \in MemCalls, NEW m \in Mems, NEW p \in BOOLEAN,
             createMemory(c, m, p) \/ updateMemory(c, m, p)
      PROVE  MemoryTypeOK' /\ MemoriesAgree'
  <2>1. CASE createMemory(c, m, p)
    <3>1. 1 \in 1..MaxRevision
      BY MemoryAssumption
    <3>. QED
      BY <2>1, <3>1, WriteKeeps DEF createMemory
  <2>2. CASE updateMemory(c, m, p)
    <3>1. file[m] + 1 \in 1..MaxRevision
      BY <2>2, MemoryAssumption DEF updateMemory, MemoryTypeOK
    <3>. QED
      BY <2>2, <3>1, WriteKeeps DEF updateMemory
  <2>. QED
    BY <1>1, <2>1, <2>2
<1>2. ASSUME NEW c \in MemCalls, reindexMemory(c)
      PROVE  MemoryTypeOK' /\ MemoriesAgree'
  <2>1. \E S \in SUBSET Mems : Reindex(c, S)
    BY <1>2 DEF reindexMemory
  <2>. QED
    BY <2>1, ReindexKeeps
<1>3. ASSUME NEW m \in Mems, deleteMemory(m)
      PROVE  MemoryTypeOK' /\ MemoriesAgree'
  <2>1. /\ row' = [row EXCEPT ![m] = NoRow] /\ chunks' = [chunks EXCEPT ![m] = 0]
        /\ file' \in {file, [file EXCEPT ![m] = 0]} /\ deleted' = deleted \cup {m}
        /\ UNCHANGED <<memCalls, stale, torn>>
    BY <1>3 DEF deleteMemory
  <2>2. /\ row'[m] = NoRow /\ chunks'[m] = 0 /\ ~Live(m)'
        /\ \A n \in Mems : n # m => row'[n] = row[n] /\ chunks'[n] = chunks[n] /\ file'[n] = file[n]
    BY <2>1 DEF MemoryTypeOK, NoRow, Live
  <2>3. MemoryTypeOK'
    <3>1. file' \in [Mems -> 0..MaxRevision] /\ chunks' \in [Mems -> 0..MaxRevision]
      BY <2>1, MemoryAssumption DEF MemoryTypeOK
    <3>2. row' \in [Mems -> [rev : 0..MaxRevision, personal : BOOLEAN]]
      BY <2>1, MemoryAssumption DEF MemoryTypeOK, NoRow
    <3>. QED
      BY <2>1, <3>1, <3>2 DEF MemoryTypeOK
  <2>. QED
    BY <1>0, <2>1, <2>2, <2>3 DEF MemoriesAgree, IndexIsFresh, IndexingFollowsFile,
       DeletedIsNotFound, RowFollowsFile, Live, Indexing
<1>4. CASE UNCHANGED memoryVars
  BY <1>0, <1>4 DEF memoryVars, MemoryTypeOK, MemoriesAgree, IndexIsFresh, IndexingFollowsFile,
     DeletedIsNotFound, RowFollowsFile, Live, Indexing
<1>. QED
  BY <1>1, <1>2, <1>3, <1>4, EmbeddedKeeps, CrashKeeps DEF MemoryNext

\* For any memories and any calls that overlap, fail or are cut off by a crash:
\* what is found is what the file says unless two calls on it overlapped or the
\* last failed, a deleted memory is not found, and no row is ahead of its file.
THEOREM MemoriesAreCorrect == MemoriesSpec => []MemoriesCorrect
<1>1. MemoryInit => MemoryTypeOK /\ MemoriesAgree
  <2>. SUFFICES ASSUME MemoryInit
                PROVE  MemoryTypeOK /\ MemoriesAgree
    OBVIOUS
  <2>1. MemoryTypeOK
    <3>1. NoRow \in [rev : 0..MaxRevision, personal : BOOLEAN] /\ 0 \in 0..MaxRevision
      BY MemoryAssumption DEF NoRow
    <3>. QED
      BY <3>1 DEF MemoryInit, MemoryTypeOK
  <2>. QED
    BY <2>1 DEF MemoryInit, MemoriesAgree, IndexIsFresh, IndexingFollowsFile, DeletedIsNotFound,
       RowFollowsFile, Live, NoRow
<1>2. MemoryTypeOK /\ MemoriesAgree => MemoriesCorrect
  BY DEF MemoriesCorrect
<1>. QED
  BY <1>1, <1>2, MemoryStep, PTL DEF MemoriesSpec

-----------------------------------------------------------------------------
(* Browser sessions                                                        *)

\* A session is there once and has the timer of its last use; a page that is being
\* loaded is no session yet and one call's alone; and an open context is a
\* session, a page being loaded, or stranded.
SessionIds == {sessions[i] : i \in 1..Len(sessions)}
Distinct == \A i, j \in 1..Len(sessions) : sessions[i] = sessions[j] => i = j
TimersAre == timers = {Timed(s) : s \in SessionIds}
Navigating(c) == browsing[c].phase = "navigating"
PagesAreOwned ==
  /\ \A c \in BrowseCalls : Navigating(c) =>
       browsing[c].context \in 1..Len(contexts) \ SessionIds
  /\ \A c, d \in BrowseCalls :
       Navigating(c) /\ Navigating(d) /\ browsing[c].context = browsing[d].context => c = d
ContextsAreOwned ==
  \A s \in open : s \in SessionIds \/ s \in stranded
                    \/ \E c \in BrowseCalls : Navigating(c) /\ browsing[c].context = s
BrowserInv == connected \ doubled \subseteq {browser}
SessionInv == Distinct /\ TimersAre /\ LatestIsASession
BrowseInv == BrowseTypeOK /\ SessionInv /\ PagesAreOwned /\ ContextsAreOwned /\ BrowserInv

Call(bound) == [phase : {"none", "launching", "navigating", "resolved", "working"},
                tool : {"open", "use", "close"}, context : 0..bound]

LEMMA SessionsAre ==
  ASSUME NEW s PROVE IsSession(s) <=> s \in SessionIds
BY DEF IsSession, SessionIds

\* What Map.delete leaves.
LEMMA WithoutIs ==
  ASSUME NEW S, sessions \in Seq(S), Distinct, NEW s \in SessionIds
  PROVE  /\ Without(sessions, s) \in Seq(S)
         /\ Len(Without(sessions, s)) = Len(sessions) - 1
         /\ {Without(sessions, s)[i] : i \in 1..Len(Without(sessions, s))} = SessionIds \ {s}
         /\ \A i, j \in 1..Len(Without(sessions, s)) :
              Without(sessions, s)[i] = Without(sessions, s)[j] => i = j
<1>1. PICK n \in Nat : Len(sessions) = n /\ sessions \in [1..n -> S]
  <2>1. Len(sessions) \in Nat /\ sessions \in [1..Len(sessions) -> S]
    OBVIOUS
  <2> QED BY <2>1
<1>2. PICK i \in 1..n : i = (CHOOSE j \in 1..Len(sessions) : sessions[j] = s) /\ sessions[i] = s
  BY <1>1 DEF SessionIds
<1>3. PICK rest : rest = [j \in 1..(n - 1) |-> IF j < i THEN sessions[j] ELSE sessions[j + 1]]
  OBVIOUS
<1>4. Without(sessions, s) = rest
  BY <1>1, <1>2, <1>3 DEF Without
<1>5. n - 1 \in Nat /\ rest \in [1..(n - 1) -> S]
  BY <1>1, <1>2, <1>3
<1>6. rest \in Seq(S) /\ Len(rest) = n - 1
  BY <1>5
<1>7. \A j \in 1..(n - 1) : /\ j \in 1..n /\ j + 1 \in 1..n
                            /\ rest[j] = IF j < i THEN sessions[j] ELSE sessions[j + 1]
  BY <1>1, <1>3
<1>8. \A j, k \in 1..n : sessions[j] = sessions[k] => j = k
  BY <1>1 DEF Distinct
<1> DEFINE pos(j) == IF j < i THEN j ELSE j + 1
<1>9. /\ \A j \in 1..(n - 1) : rest[j] = sessions[pos(j)] /\ pos(j) \in 1..n /\ pos(j) # i
      /\ \A j, k \in 1..(n - 1) : pos(j) = pos(k) => j = k
  <2>1. \A j \in 1..(n - 1) : rest[j] = sessions[pos(j)]
    BY <1>7
  <2>2. ASSUME NEW j \in 1..(n - 1) PROVE pos(j) \in 1..n /\ pos(j) # i
    <3>1. j \in Nat /\ i \in Nat /\ 1 <= j /\ j + 1 <= n
      BY <1>1, <1>2
    <3>2. CASE j < i
      BY <1>1, <3>1, <3>2
    <3>3. CASE ~(j < i)
      BY <1>1, <3>1, <3>3
    <3> QED BY <3>2, <3>3
  <2>3. \A j, k \in 1..(n - 1) : pos(j) = pos(k) => j = k
    BY <1>1, <1>2
  <2> QED BY <2>1, <2>2, <2>3
<1> HIDE DEF pos
<1>10. \A j, k \in 1..(n - 1) : rest[j] = rest[k] => j = k
  BY <1>8, <1>9
<1>11. SessionIds = {sessions[j] : j \in 1..n}
  BY <1>1 DEF SessionIds
<1>12. \A j \in 1..(n - 1) : rest[j] \in SessionIds \ {s}
  BY <1>2, <1>8, <1>11, <1>9
<1>13. ASSUME NEW x \in SessionIds \ {s} PROVE \E j \in 1..(n - 1) : rest[j] = x
  <2>1. PICK k \in 1..n : sessions[k] = x /\ k # i
    BY <1>2, <1>11, <1>13
  <2>2. CASE k < i
    <3>1. k \in 1..(n - 1)
      BY <1>2, <2>1, <2>2
    <3> QED BY <1>7, <2>1, <2>2, <3>1
  <2>3. CASE k > i
    <3>1. k - 1 \in 1..(n - 1) /\ ~(k - 1 < i) /\ (k - 1) + 1 = k
      BY <1>2, <2>1, <2>3
    <3> QED BY <1>7, <2>1, <3>1
  <2> QED BY <1>2, <2>1, <2>2, <2>3
<1>14. {rest[j] : j \in 1..(n - 1)} = SessionIds \ {s}
  BY <1>12, <1>13
<1> QED BY SMTT(40), <1>1, <1>4, <1>6, <1>10, <1>14

\* Closing: the session goes with its timer and its context, and another is the
\* latest.
LEMMA CloseKeeps ==
  ASSUME BrowseTypeOK, SessionInv, UNCHANGED <<uses, contexts>>,
         NEW s, NEW armed, armed = timers \/ (armed = timers \ {Timed(s)} /\ s \in SessionIds),
         Close(s, armed)
  PROVE  /\ SessionInv' /\ SessionIds' \subseteq SessionIds
         /\ sessions' \in Seq(1..Len(contexts)) /\ latest' \in 0..Len(contexts)
         /\ timers' \subseteq timers
         /\ open' \subseteq open /\ \A x \in open' : x \in SessionIds => x \in SessionIds'
<1>1. CASE s \notin SessionIds
  <2>1. UNCHANGED <<timers, sessions, latest, open, uses>>
    BY <1>1, SessionsAre DEF Close
  <2>2. SessionIds' = SessionIds
    BY <2>1 DEF SessionIds
  <2>3. Distinct' /\ LatestIsASession'
    BY <2>1 DEF SessionInv, Distinct, LatestIsASession, IsSession
  <2>4. TimersAre'
    BY <2>1, <2>2 DEF SessionInv, TimersAre, Timed
  <2> QED BY <2>1, <2>2, <2>3, <2>4 DEF BrowseTypeOK, SessionInv
<1>2. CASE s \in SessionIds
  <2>1. /\ sessions' = Without(sessions, s)
        /\ latest' = IF latest # s THEN latest ELSE IF sessions' = <<>> THEN 0 ELSE Head(sessions')
        /\ timers' = timers \ {Timed(s)} /\ open' = open \ {s} /\ UNCHANGED uses
    BY <1>2, SessionsAre DEF Close
  <2>2. sessions \in Seq(1..Len(contexts)) /\ Distinct
    BY DEF BrowseTypeOK, SessionInv
  <2>3. /\ sessions' \in Seq(1..Len(contexts)) /\ SessionIds' = SessionIds \ {s} /\ Distinct'
    <3>1. /\ Without(sessions, s) \in Seq(1..Len(contexts))
          /\ {Without(sessions, s)[i] : i \in 1..Len(Without(sessions, s))} = SessionIds \ {s}
          /\ \A i, j \in 1..Len(Without(sessions, s)) :
               Without(sessions, s)[i] = Without(sessions, s)[j] => i = j
      BY <1>2, <2>2, WithoutIs
    <3>2. SessionIds' = {sessions'[i] : i \in 1..Len(sessions')}
      BY DEF SessionIds
    <3>3. SessionIds' = SessionIds \ {s}
      BY <2>1, <3>1, <3>2
    <3>4. Distinct'
      BY <2>1, <3>1 DEF Distinct
    <3> QED BY <2>1, <3>1, <3>3, <3>4
  <2>4. \A x \in SessionIds : x # s => Timed(x) # Timed(s)
    BY DEF Timed
  <2>5. \A x : Timed(x)' = Timed(x)
    BY <2>1 DEF Timed
  <2>6. TimersAre'
    BY <2>1, <2>3, <2>4, <2>5 DEF SessionInv, TimersAre
  <2>7. sessions' # <<>> => Head(sessions') \in SessionIds'
    BY <2>3 DEF SessionIds
  <2>8. sessions' = <<>> => SessionIds' = {}
    BY DEF SessionIds
  <2>9. sessions # <<>>
    BY <1>2 DEF SessionIds
  <2>10. latest \in SessionIds
    BY <2>9, SessionsAre DEF SessionInv, LatestIsASession
  <2>11. LatestIsASession'
    <3>1. IF sessions' = <<>> THEN latest' = 0 ELSE latest' \in SessionIds'
      BY <2>1, <2>3, <2>7, <2>8, <2>10
    <3> QED BY <3>1 DEF LatestIsASession, IsSession, SessionIds
  <2>12. latest' \in 0..Len(contexts)
    <3>1. SessionIds' \subseteq 1..Len(contexts)
      BY <2>3 DEF SessionIds
    <3> QED BY <2>1, <2>3, <2>7, <3>1, SMTT(30) DEF BrowseTypeOK
  <2> QED BY <2>1, <2>3, <2>6, <2>11, <2>12 DEF SessionInv
<1> QED BY <1>1, <1>2

\* The calls, the contexts and the browsers do not depend on the order of sessions.
LEMMA FrameKeeps ==
  ASSUME PagesAreOwned, ContextsAreOwned,
         browsing \in [BrowseCalls -> Call(Len(contexts))],
         UNCHANGED <<contexts, stranded>>, SessionIds' \subseteq SessionIds,
         open' \subseteq open, \A x \in open' : x \in SessionIds => x \in SessionIds',
         \/ UNCHANGED browsing
         \/ \E c \in BrowseCalls, b \in Call(Len(contexts)) :
              /\ ~Navigating(c) /\ b.phase # "navigating"
              /\ browsing' = [browsing EXCEPT ![c] = b]
  PROVE  PagesAreOwned' /\ ContextsAreOwned'
<1>1. \A d \in BrowseCalls : /\ Navigating(d)' <=> Navigating(d)
                             /\ Navigating(d) => browsing'[d] = browsing[d]
  BY DEF Navigating
<1>2. PagesAreOwned'
  BY <1>1 DEF PagesAreOwned
<1>3. ContextsAreOwned'
  BY <1>1 DEF ContextsAreOwned
<1> QED BY <1>2, <1>3

\* A context for a call that has no page being loaded.
LEMMA NewContextKeeps ==
  ASSUME BrowseTypeOK, PagesAreOwned, ContextsAreOwned, SessionInv, UNCHANGED <<sessions, stranded, timers, latest>>,
         NEW c \in BrowseCalls, NEW tool \in {"open", "use", "close"}, NEW b \in Nat,
         ~Navigating(c), NewContext(c, tool, b)
  PROVE  /\ PagesAreOwned' /\ ContextsAreOwned' /\ SessionInv'
         /\ contexts' \in Seq(Nat) /\ uses' \in Seq(Nat) /\ Len(uses') = Len(contexts')
         /\ open' \cup stranded' \subseteq 1..Len(contexts')
         /\ sessions' \in Seq(1..Len(contexts')) /\ latest' \in 0..Len(contexts')
         /\ timers' \subseteq [session : 1..Len(contexts'), use : Nat]
         /\ browsing' \in [BrowseCalls -> Call(Len(contexts'))]
<1>1. PICK n \in Nat : Len(contexts) = n
  BY DEF BrowseTypeOK
<1>2. /\ contexts' = Append(contexts, b) /\ uses' = Append(uses, 0) /\ open' = open \cup {n + 1}
      /\ browsing' = [browsing EXCEPT ![c] =
           [phase |-> "navigating", tool |-> tool, context |-> n + 1]]
  BY <1>1 DEF NewContext
<1>3. /\ contexts' \in Seq(Nat) /\ Len(contexts') = n + 1 /\ uses' \in Seq(Nat) /\ Len(uses') = n + 1
      /\ \A i \in 1..n : uses'[i] = uses[i]
  BY <1>1, <1>2 DEF BrowseTypeOK
<1>4. 1..n \subseteq 1..(n + 1) /\ 0..n \subseteq 0..(n + 1) /\ n + 1 \in 1..(n + 1) /\ n + 1 \notin 1..n
  BY <1>1
<1>5. SessionIds' = SessionIds /\ SessionIds \subseteq 1..n
  BY <1>1, SMTT(30) DEF BrowseTypeOK, SessionIds
<1>6. /\ open' \cup stranded' \subseteq 1..Len(contexts')
      /\ latest' \in 0..Len(contexts')
      /\ timers' \subseteq [session : 1..Len(contexts'), use : Nat]
  BY <1>1, <1>2, <1>3, <1>4 DEF BrowseTypeOK
<1>7. sessions' \in Seq(1..Len(contexts'))
  <2>1. sessions \in Seq(1..n) /\ sessions' = sessions
    BY <1>1 DEF BrowseTypeOK
  <2>2. sessions \in [1..Len(sessions) -> 1..n] /\ Len(sessions) \in Nat
    BY <2>1
  <2>3. sessions \in [1..Len(sessions) -> 1..(n + 1)]
    BY <1>4, <2>2
  <2> QED BY <1>3, <2>1, <2>2, <2>3
<1>8. ASSUME NEW d \in BrowseCalls
      PROVE  /\ browsing[d] \in Call(n)
             /\ d # c => browsing'[d] = browsing[d]
             /\ browsing'[c] = [phase |-> "navigating", tool |-> tool, context |-> n + 1]
  BY <1>1, <1>2 DEF BrowseTypeOK, Call
<1>9. /\ browsing'[c] \in Call(n + 1) /\ browsing'[c].phase = "navigating" /\ browsing'[c].context = n + 1
      /\ Call(n) \subseteq Call(n + 1)
  <2>1. browsing'[c] = [phase |-> "navigating", tool |-> tool, context |-> n + 1]
    BY <1>8
  <2>2. browsing'[c] \in Call(n + 1)
    BY <1>4, <2>1 DEF Call
  <2>3. Call(n) \subseteq Call(n + 1)
    BY <1>4 DEF Call
  <2> QED BY <2>1, <2>2, <2>3
<1>10. browsing' \in [BrowseCalls -> Call(Len(contexts'))]
  BY <1>2, <1>3, <1>8, <1>9 DEF BrowseTypeOK
<1>11. PagesAreOwned'
  <2>1. \A d \in BrowseCalls : Navigating(d)' => \/ d = c /\ browsing'[d].context = n + 1
                                                \/ /\ d # c /\ Navigating(d) /\ browsing'[d] = browsing[d]
                                                   /\ browsing[d].context \in 1..n \ SessionIds
    BY <1>1, <1>8, <1>9 DEF Navigating, PagesAreOwned
  <2>2. n + 1 \in 1..Len(contexts') \ SessionIds'
    BY <1>3, <1>4, <1>5
  <2>3. 1..n \ SessionIds \subseteq 1..Len(contexts') \ SessionIds'
    BY <1>3, <1>4, <1>5
  <2>4. \A d \in BrowseCalls : Navigating(d)' => browsing'[d].context \in 1..Len(contexts') \ SessionIds'
    BY <2>1, <2>2, <2>3
  <2>5. \A d, e \in BrowseCalls :
          Navigating(d)' /\ Navigating(e)' /\ browsing'[d].context = browsing'[e].context => d = e
    BY <1>4, <2>1 DEF PagesAreOwned
  <2> QED BY <2>4, <2>5 DEF PagesAreOwned
<1>12. ContextsAreOwned'
  <2>1. \A d \in BrowseCalls : Navigating(d) => Navigating(d)' /\ browsing'[d] = browsing[d]
    BY <1>8 DEF Navigating
  <2>2. Navigating(c)' /\ browsing'[c].context = n + 1
    BY <1>9 DEF Navigating
  <2> QED BY <1>2, <1>5, <2>1, <2>2 DEF ContextsAreOwned
<1>13. SessionInv'
  <2>1. \A s \in SessionIds : Timed(s)' = Timed(s)
    BY <1>3, <1>5 DEF Timed
  <2>2. TimersAre'
    BY <1>5, <2>1 DEF SessionInv, TimersAre
  <2> QED BY <2>2 DEF SessionInv, Distinct, LatestIsASession, IsSession
<1> QED BY <1>3, <1>6, <1>7, <1>10, <1>11, <1>12, <1>13

\* The call has its session: it closes it, or works with its page.
LEMMA ProceedKeeps ==
  ASSUME BrowseInv, NEW c \in BrowseCalls, NEW tool \in {"open", "use", "close"}, NEW s \in SessionIds,
         ~Navigating(c), Proceed(c, tool, s), UNCHANGED <<browserVars, contexts, closing, stranded>>
  PROVE  BrowseInv'
<1>1. CASE tool = "close"
  <2>1. /\ Close(s, timers) /\ browsing' = [browsing EXCEPT ![c] = NoBrowsing] /\ UNCHANGED uses
    BY <1>1 DEF Proceed
  <2>2. UNCHANGED <<uses, contexts>> /\ BrowseTypeOK /\ SessionInv
    BY <2>1 DEF BrowseInv
  <2>3. /\ SessionInv' /\ SessionIds' \subseteq SessionIds
        /\ sessions' \in Seq(1..Len(contexts)) /\ latest' \in 0..Len(contexts)
        /\ timers' \subseteq timers
        /\ open' \subseteq open /\ \A x \in open' : x \in SessionIds => x \in SessionIds'
    BY <2>1, <2>2, CloseKeeps
  <2>4. NoBrowsing \in Call(Len(contexts)) /\ NoBrowsing.phase # "navigating"
        /\ browsing \in [BrowseCalls -> Call(Len(contexts))]
    BY DEF BrowseInv, BrowseTypeOK, NoBrowsing, Call
  <2>5. PagesAreOwned' /\ ContextsAreOwned'
    BY <2>1, <2>3, <2>4, FrameKeeps DEF BrowseInv
  <2>6. browsing' \in [BrowseCalls -> Call(Len(contexts'))]
    BY <2>1, <2>4
  <2>7. BrowseTypeOK' /\ BrowserInv'
    BY <2>1, <2>3, <2>6 DEF BrowseInv, BrowseTypeOK, BrowserInv, browserVars, Call
  <2> QED BY <2>3, <2>5, <2>7 DEF BrowseInv
<1>2. CASE tool # "close"
  <2>1. /\ GetPage(s) /\ UNCHANGED <<sessions, open>>
        /\ browsing' = [browsing EXCEPT ![c] = [phase |-> "working", tool |-> tool, context |-> s]]
    BY <1>2 DEF Proceed
  <2>2. /\ uses' = [uses EXCEPT ![s] = @ + 1] /\ latest' = s
        /\ timers' = (timers \ {Timed(s)}) \cup {[session |-> s, use |-> uses[s] + 1]}
    BY <2>1 DEF GetPage
  <2>3. /\ SessionIds' = SessionIds /\ SessionIds \subseteq 1..Len(contexts) /\ s \in 1..Len(contexts)
        /\ s \in 1..Len(uses) /\ uses[s] \in Nat
    <3>1. SessionIds' = SessionIds
      BY <2>1 DEF SessionIds
    <3>2. SessionIds \subseteq 1..Len(contexts)
      BY SMTT(30) DEF BrowseInv, BrowseTypeOK, SessionIds
    <3>3. Len(uses) = Len(contexts) /\ uses \in Seq(Nat)
      BY DEF BrowseInv, BrowseTypeOK
    <3>4. s \in 1..Len(uses)
      BY <3>2, <3>3
    <3>5. uses[s] \in Nat
      BY <3>3, <3>4
    <3> QED BY <3>1, <3>2, <3>3, <3>4, <3>5
  <2>4. /\ uses' \in Seq(Nat) /\ Len(uses') = Len(contexts') /\ uses'[s] = uses[s] + 1
        /\ \A x \in SessionIds : x # s => uses'[x] = uses[x]
    BY <2>2, <2>3 DEF BrowseInv, BrowseTypeOK
  <2>5. TimersAre'
    <3>1. \A x \in SessionIds : x # s => Timed(x)' = Timed(x) /\ Timed(x) # Timed(s)
      BY <2>4 DEF Timed
    <3>2. Timed(s)' = [session |-> s, use |-> uses[s] + 1]
      BY <2>4 DEF Timed
    <3>3. timers = {Timed(x) : x \in SessionIds}
      BY DEF BrowseInv, SessionInv, TimersAre
    <3>4. timers' = {Timed(x)' : x \in SessionIds}
      BY <2>2, <3>1, <3>2, <3>3
    <3> QED BY <2>3, <3>4 DEF TimersAre
  <2>6. SessionInv'
    <3>1. sessions # <<>>
      BY DEF SessionIds
    <3>2. LatestIsASession'
      BY <2>1, <2>2, <3>1, SessionsAre DEF LatestIsASession, IsSession
    <3> QED BY <2>1, <2>5, <3>2 DEF BrowseInv, SessionInv, Distinct
  <2>7. PICK b \in Call(Len(contexts)) : b.phase # "navigating" /\ browsing' = [browsing EXCEPT ![c] = b]
    <3>1. [phase |-> "working", tool |-> tool, context |-> s] \in Call(Len(contexts))
      BY <2>3 DEF Call
    <3> QED BY <2>1, <3>1
  <2>8. browsing \in [BrowseCalls -> Call(Len(contexts))]
    BY DEF BrowseInv, BrowseTypeOK, Call
  <2>9. PagesAreOwned' /\ ContextsAreOwned'
    BY <2>1, <2>3, <2>7, <2>8, FrameKeeps DEF BrowseInv
  <2>10. browsing' \in [BrowseCalls -> Call(Len(contexts'))]
    BY <2>7, <2>8
  <2>11. timers' \subseteq [session : 1..Len(contexts'), use : Nat]
    BY <2>2, <2>3, SMTT(30) DEF BrowseInv, BrowseTypeOK
  <2>12. latest' \in 0..Len(contexts')
    BY <2>2, <2>3 DEF BrowseInv, BrowseTypeOK
  <2>13. BrowseTypeOK' /\ BrowserInv'
    BY <2>1, <2>4, <2>10, <2>11, <2>12 DEF BrowseInv, BrowseTypeOK, BrowserInv, browserVars, Call
  <2> QED BY <2>6, <2>9, <2>13 DEF BrowseInv
<1> QED BY <1>1, <1>2

\* A step of a call that changes neither sessions nor contexts.
LEMMA CallEnds ==
  ASSUME BrowseInv, NEW c \in BrowseCalls, ~Navigating(c), NEW b \in Call(Len(contexts)),
         b.phase # "navigating", browsing' = [browsing EXCEPT ![c] = b],
         UNCHANGED <<browserVars, sessionVars, contexts, open, stranded>>
  PROVE  BrowseInv'
<1>1. UNCHANGED <<browser, connected, launches, doubled, sessions, latest, timers, uses>>
  BY DEF browserVars, sessionVars
<1>2. SessionIds' = SessionIds
  BY <1>1 DEF SessionIds
<1>3. browsing \in [BrowseCalls -> Call(Len(contexts))]
  BY DEF BrowseInv, BrowseTypeOK, Call
<1>4. PagesAreOwned' /\ ContextsAreOwned'
  BY <1>2, <1>3, FrameKeeps DEF BrowseInv
<1>5. SessionInv'
  BY <1>1, <1>2 DEF BrowseInv, SessionInv, Distinct, TimersAre, Timed, LatestIsASession, IsSession
<1>6. browsing' \in [BrowseCalls -> Call(Len(contexts'))]
  BY <1>3
<1>7. BrowseTypeOK' /\ BrowserInv'
  BY <1>1, <1>6 DEF BrowseInv, BrowseTypeOK, BrowserInv, Call
<1> QED BY <1>4, <1>5, <1>7 DEF BrowseInv

LEMMA OpenKeeps ==
  ASSUME BrowseInv, NEW c \in BrowseCalls, NEW tool \in {"open", "use", "close"},
         ~Navigating(c), Open(c, tool)
  PROVE  BrowseInv'
<1>1. /\ UNCHANGED <<browser, connected, launches, doubled>>
      /\ UNCHANGED <<sessions, latest, timers, closing, stranded>>
  BY DEF Open, browserVars
<1>2. CASE browser \in connected
  <2>1. NewContext(c, tool, browser) /\ browser \in Nat
    BY <1>2 DEF Open, BrowseInv, BrowseTypeOK
  <2>2. /\ PagesAreOwned' /\ ContextsAreOwned' /\ SessionInv'
        /\ contexts' \in Seq(Nat) /\ uses' \in Seq(Nat) /\ Len(uses') = Len(contexts')
        /\ open' \cup stranded' \subseteq 1..Len(contexts')
        /\ sessions' \in Seq(1..Len(contexts')) /\ latest' \in 0..Len(contexts')
        /\ timers' \subseteq [session : 1..Len(contexts'), use : Nat]
        /\ browsing' \in [BrowseCalls -> Call(Len(contexts'))]
    BY <1>1, <2>1, NewContextKeeps DEF BrowseInv
  <2>3. BrowseTypeOK' /\ BrowserInv'
    BY <1>1, <2>2 DEF BrowseInv, BrowseTypeOK, BrowserInv, Call
  <2> QED BY <2>2, <2>3 DEF BrowseInv
<1>3. CASE browser \notin connected
  <2>1. PICK b \in Call(Len(contexts)) : b.phase # "navigating" /\ browsing' = [browsing EXCEPT ![c] = b]
    <3>1. Len(contexts) \in Nat
      BY DEF BrowseInv, BrowseTypeOK
    <3>2. NoBrowsing \in Call(Len(contexts))
      BY <3>1 DEF NoBrowsing, Call
    <3>3. ASSUME NEW b \in {[NoBrowsing EXCEPT !.phase = "launching", !.tool = tool]}
          PROVE  b \in Call(Len(contexts)) /\ b.phase # "navigating"
      BY <3>2 DEF Call
    <3> QED BY <1>3, <3>3 DEF Open
  <2>2. UNCHANGED <<browserVars, sessionVars, contexts, open, stranded>>
    BY <1>1, <1>3 DEF Open, browserVars, sessionVars
  <2> QED BY <2>1, <2>2, CallEnds
<1> QED BY <1>2, <1>3

LEMMA LaunchedKeeps ==
  ASSUME BrowseInv, NEW c \in BrowseCalls, Launched(c)
  PROVE  BrowseInv'
<1>1. /\ launches' = launches + 1 /\ browser' = launches + 1
      /\ connected' = connected \cup {launches + 1}
      /\ doubled' = IF browser \in connected THEN doubled \cup {browser} ELSE doubled
      /\ NewContext(c, browsing[c].tool, launches + 1)
      /\ UNCHANGED <<sessions, latest, timers, closing, stranded>> /\ ~Navigating(c)
  BY DEF Launched, Navigating
<1>2. launches \in Nat /\ launches + 1 \in Nat /\ browsing[c].tool \in {"open", "use", "close"}
  BY DEF BrowseInv, BrowseTypeOK
<1>3. /\ PagesAreOwned' /\ ContextsAreOwned' /\ SessionInv'
      /\ contexts' \in Seq(Nat) /\ uses' \in Seq(Nat) /\ Len(uses') = Len(contexts')
      /\ open' \cup stranded' \subseteq 1..Len(contexts')
      /\ sessions' \in Seq(1..Len(contexts')) /\ latest' \in 0..Len(contexts')
      /\ timers' \subseteq [session : 1..Len(contexts'), use : Nat]
      /\ browsing' \in [BrowseCalls -> Call(Len(contexts'))]
  BY <1>1, <1>2, NewContextKeeps DEF BrowseInv
<1>4. launches' \in Nat /\ browser' \in 0..launches' /\ connected' \subseteq 1..launches'
  BY <1>1, <1>2 DEF BrowseInv, BrowseTypeOK
<1>5. BrowserInv'
  BY <1>1 DEF BrowseInv, BrowserInv
<1>6. BrowseTypeOK'
  BY <1>3, <1>4 DEF BrowseTypeOK, Call
<1> QED BY <1>3, <1>5, <1>6 DEF BrowseInv

\* The page is there: the context becomes a session.
LEMMA NavigatedKeeps ==
  ASSUME BrowseInv, NEW c \in BrowseCalls, Navigated(c)
  PROVE  BrowseInv'
<1>1. PICK s : s = browsing[c].context
  OBVIOUS
<1>2. /\ Navigating(c) /\ sessions' = Append(sessions, s) /\ latest' = s
      /\ timers' = timers \cup {Timed(s)}
      /\ UNCHANGED <<browserVars, uses, contexts, open, closing, stranded>>
  BY <1>1 DEF Navigated, Navigating
<1>3. /\ s \in 1..Len(contexts) /\ s \notin SessionIds /\ SessionIds \subseteq 1..Len(contexts)
      /\ \A d \in BrowseCalls : Navigating(d) /\ d # c => browsing[d].context # s
  BY <1>1, <1>2, SMTT(30) DEF BrowseInv, BrowseTypeOK, PagesAreOwned, SessionIds
<1>4. PICK n \in Nat : Len(sessions) = n /\ sessions \in Seq(1..Len(contexts))
  BY DEF BrowseInv, BrowseTypeOK
<1>5. /\ sessions' \in Seq(1..Len(contexts)) /\ Len(sessions') = n + 1 /\ sessions'[n + 1] = s
      /\ \A i \in 1..n : sessions'[i] = sessions[i]
  BY <1>2, <1>3, <1>4
<1>6. /\ SessionIds = {sessions[i] : i \in 1..n} /\ SessionIds' = {sessions'[i] : i \in 1..(n + 1)}
      /\ 1..(n + 1) = 1..n \cup {n + 1}
  BY <1>4, <1>5 DEF SessionIds
<1>7. SessionIds' = SessionIds \cup {s}
  BY ZenonT(60), <1>5, <1>6
<1>8. Distinct'
  <2>1. \A i, j \in 1..n : sessions[i] = sessions[j] => i = j
    BY <1>4 DEF BrowseInv, SessionInv, Distinct
  <2>2. \A i \in 1..n : sessions[i] # s
    BY <1>3, <1>6
  <2>3. \A i, j \in 1..(n + 1) : sessions'[i] = sessions'[j] => i = j
    BY <1>5, <1>6, <2>1, <2>2
  <2> QED BY <1>5, <2>3 DEF Distinct
<1>9. TimersAre'
  <2>1. \A x : Timed(x)' = Timed(x)
    BY <1>2 DEF Timed
  <2>2. timers = {Timed(x) : x \in SessionIds}
    BY DEF BrowseInv, SessionInv, TimersAre
  <2>3. timers' = {Timed(x)' : x \in SessionIds'}
    BY <1>2, <1>7, <2>1, <2>2
  <2> QED BY <2>3 DEF TimersAre
<1>10. LatestIsASession'
  <2>1. sessions' # <<>> /\ s \in SessionIds' /\ latest' = s
    BY <1>2, <1>5, <1>7
  <2> QED BY <2>1 DEF LatestIsASession, IsSession, SessionIds
<1>11. PICK b \in Call(Len(contexts)) : b.phase # "navigating" /\ browsing' = [browsing EXCEPT ![c] = b]
  <2>1. browsing[c] \in Call(Len(contexts)) /\ Len(contexts) \in Nat
    BY DEF BrowseInv, BrowseTypeOK, Call
  <2>2. ASSUME NEW b \in {NoBrowsing, [browsing[c] EXCEPT !.phase = "resolved"]}
        PROVE  b \in Call(Len(contexts)) /\ b.phase # "navigating"
    BY <2>1 DEF Call, NoBrowsing
  <2>3. browsing' = [browsing EXCEPT ![c] =
          IF browsing[c].tool = "open" THEN NoBrowsing ELSE [browsing[c] EXCEPT !.phase = "resolved"]]
    BY DEF Navigated
  <2> QED BY <2>2, <2>3
<1>12. browsing \in [BrowseCalls -> Call(Len(contexts))]
  BY DEF BrowseInv, BrowseTypeOK, Call
<1>13. \A d \in BrowseCalls : /\ Navigating(d)' <=> Navigating(d) /\ d # c
                              /\ d # c => browsing'[d] = browsing[d]
  BY <1>11, <1>12 DEF Navigating
<1>14. PagesAreOwned'
  BY <1>2, <1>3, <1>7, <1>13 DEF BrowseInv, PagesAreOwned
<1>15. ContextsAreOwned'
  BY <1>1, <1>2, <1>7, <1>13 DEF BrowseInv, ContextsAreOwned
<1>16. browsing' \in [BrowseCalls -> Call(Len(contexts'))]
  BY <1>2, <1>11, <1>12
<1>17. timers' \subseteq [session : 1..Len(contexts'), use : Nat]
  <2>1. uses[s] \in Nat
    BY <1>3 DEF BrowseInv, BrowseTypeOK
  <2> QED BY <1>2, <1>3, <2>1 DEF BrowseInv, BrowseTypeOK, Timed
<1>18. latest' \in 0..Len(contexts')
  BY <1>2, <1>3 DEF BrowseInv, BrowseTypeOK
<1>19. BrowseTypeOK' /\ BrowserInv'
  BY <1>2, <1>5, <1>16, <1>17, <1>18 DEF BrowseInv, BrowseTypeOK, BrowserInv, browserVars, Call
<1> QED BY <1>8, <1>9, <1>10, <1>14, <1>15, <1>19 DEF BrowseInv, SessionInv

LEMMA NavigateFailsKeeps ==
  ASSUME BrowseInv, NEW c \in BrowseCalls, NavigateFails(c)
  PROVE  BrowseInv'
<1>1. /\ Navigating(c) /\ browsing' = [browsing EXCEPT ![c] = NoBrowsing]
      /\ stranded' = stranded \cup {browsing[c].context}
      /\ UNCHANGED <<browser, connected, launches, doubled, sessions, latest, timers, uses,
                     contexts, open>>
  BY DEF NavigateFails, Navigating, browserVars, sessionVars
<1>2. /\ browsing[c].context \in 1..Len(contexts) /\ SessionIds' = SessionIds
      /\ browsing \in [BrowseCalls -> Call(Len(contexts))] /\ Len(contexts) \in Nat
  BY <1>1 DEF BrowseInv, BrowseTypeOK, PagesAreOwned, SessionIds, Call
<1>3. NoBrowsing \in Call(Len(contexts)) /\ NoBrowsing.phase # "navigating"
  BY <1>2 DEF NoBrowsing, Call
<1>4. \A d \in BrowseCalls : /\ Navigating(d)' <=> Navigating(d) /\ d # c
                             /\ d # c => browsing'[d] = browsing[d]
  BY <1>1, <1>2, <1>3 DEF Navigating
<1>5. PagesAreOwned'
  BY <1>1, <1>2, <1>4 DEF BrowseInv, PagesAreOwned
<1>6. ContextsAreOwned'
  BY <1>1, <1>2, <1>4 DEF BrowseInv, ContextsAreOwned
<1>7. SessionInv'
  BY <1>1, <1>2 DEF BrowseInv, SessionInv, Distinct, TimersAre, Timed, LatestIsASession, IsSession
<1>8. browsing' \in [BrowseCalls -> Call(Len(contexts'))]
  BY <1>1, <1>2, <1>3
<1>9. BrowseTypeOK' /\ BrowserInv'
  BY <1>1, <1>2, <1>8 DEF BrowseInv, BrowseTypeOK, BrowserInv, Call
<1> QED BY <1>5, <1>6, <1>7, <1>9 DEF BrowseInv

\* A session is closed by a timer, or at the end of the process.
LEMMA CloseAloneKeeps ==
  ASSUME BrowseInv, NEW s, NEW armed, armed = timers \/ (armed = timers \ {Timed(s)} /\ s \in SessionIds),
         Close(s, armed),
         UNCHANGED <<browserVars, uses, contexts, browsing, stranded>>
  PROVE  BrowseInv'
<1>1. UNCHANGED <<uses, contexts>> /\ BrowseTypeOK /\ SessionInv
  BY DEF BrowseInv
<1>2. /\ SessionInv' /\ SessionIds' \subseteq SessionIds
      /\ sessions' \in Seq(1..Len(contexts)) /\ latest' \in 0..Len(contexts)
      /\ timers' \subseteq timers
      /\ open' \subseteq open /\ \A x \in open' : x \in SessionIds => x \in SessionIds'
  BY <1>1, CloseKeeps
<1>3. browsing \in [BrowseCalls -> Call(Len(contexts))]
  BY DEF BrowseInv, BrowseTypeOK, Call
<1>4. PagesAreOwned' /\ ContextsAreOwned'
  BY <1>2, <1>3, FrameKeeps DEF BrowseInv
<1>5. BrowseTypeOK' /\ BrowserInv'
  BY <1>2 DEF BrowseInv, BrowseTypeOK, BrowserInv, browserVars
<1> QED BY <1>2, <1>4, <1>5 DEF BrowseInv

\* Browsers end, and their contexts with them; nothing is launched.
LEMMA BrowsersEnd ==
  ASSUME BrowseInv, NEW b, connected' = connected \ {b}, open' \subseteq open,
         \/ UNCHANGED <<browser, latest>>
         \/ browser' = 0 /\ b = browser /\ latest' = 0 /\ sessions = <<>>,
         UNCHANGED <<launches, doubled, sessions, timers, uses, contexts, browsing, stranded>>
  PROVE  BrowseInv'
<1>1. SessionIds' = SessionIds
  BY DEF SessionIds
<1>2. browsing \in [BrowseCalls -> Call(Len(contexts))]
  BY DEF BrowseInv, BrowseTypeOK, Call
<1>3. PagesAreOwned' /\ ContextsAreOwned'
  BY <1>1, <1>2, FrameKeeps DEF BrowseInv
<1>4. LatestIsASession'
  BY DEF BrowseInv, SessionInv, LatestIsASession, IsSession
<1>5. SessionInv'
  BY <1>1, <1>4 DEF BrowseInv, SessionInv, Distinct, TimersAre, Timed
<1>6. BrowserInv'
  BY DEF BrowseInv, BrowserInv
<1>7. BrowseTypeOK'
  <2>1. browser' \in 0..launches' /\ latest' \in 0..Len(contexts')
    BY DEF BrowseInv, BrowseTypeOK
  <2> QED BY <2>1 DEF BrowseInv, BrowseTypeOK
<1> QED BY <1>3, <1>5, <1>6, <1>7 DEF BrowseInv

LEMMA BrowseStart == BrowseInit => BrowseInv
<1> SUFFICES ASSUME BrowseInit PROVE BrowseInv
  OBVIOUS
<1>1. /\ browser = 0 /\ connected = {} /\ launches = 0 /\ doubled = {}
      /\ contexts = <<>> /\ open = {} /\ stranded = {}
      /\ sessions = <<>> /\ latest = 0 /\ timers = {} /\ uses = <<>>
      /\ browsing = [c \in BrowseCalls |-> NoBrowsing]
  BY DEF BrowseInit
<1>2. SessionIds = {} /\ Distinct
  BY <1>1 DEF SessionIds, Distinct
<1>3. SessionInv
  BY <1>1, <1>2 DEF SessionInv, TimersAre, LatestIsASession
<1>4. PagesAreOwned /\ ContextsAreOwned /\ BrowserInv
  BY <1>1 DEF PagesAreOwned, ContextsAreOwned, BrowserInv, Navigating, NoBrowsing
<1>5. BrowseTypeOK
  BY <1>1 DEF BrowseTypeOK, NoBrowsing
<1> QED BY <1>3, <1>4, <1>5 DEF BrowseInv

LEMMA BrowseGoesOn == BrowseInv /\ [BrowseNext]_browseVars => BrowseInv'
<1> SUFFICES ASSUME BrowseInv, [BrowseNext]_browseVars PROVE BrowseInv'
  OBVIOUS
<1>1. ASSUME NEW c \in BrowseCalls, BrowseCall(c) PROVE BrowseInv'
  <2>1. ~Navigating(c)
    BY <1>1 DEF BrowseCall, Navigating
  <2>2. CASE \E tool \in {"open", "use", "close"} : Open(c, tool)
    BY <2>1, <2>2, OpenKeeps
  <2>3. ASSUME NEW tool \in {"use", "close"},
               NEW s \in {sessions[i] : i \in 1..Len(sessions)} \cup ({Fallback} \ {0}),
               Proceed(c, tool, s), UNCHANGED <<browserVars, contexts, closing, stranded>>
        PROVE  BrowseInv'
    <3>1. Fallback # 0 => Fallback \in SessionIds
      <4>1. sessions # <<>> => Head(sessions) \in SessionIds
        BY DEF BrowseInv, BrowseTypeOK, SessionIds
      <4> QED BY <4>1, SessionsAre DEF Fallback
    <3>2. s \in SessionIds
      BY <3>1 DEF SessionIds
    <3> QED BY <2>1, <2>3, <3>2, ProceedKeeps
  <2> QED BY <1>1, <2>2, <2>3 DEF BrowseCall
<1>2. ASSUME NEW c \in BrowseCalls, LaunchFails(c) \/ Worked(c) PROVE BrowseInv'
  <2>1. /\ ~Navigating(c) /\ browsing' = [browsing EXCEPT ![c] = NoBrowsing]
        /\ UNCHANGED <<browserVars, sessionVars, contexts, open, stranded>>
    BY <1>2 DEF LaunchFails, Worked, Navigating
  <2>2. NoBrowsing \in Call(Len(contexts)) /\ NoBrowsing.phase # "navigating"
    BY DEF NoBrowsing, Call, BrowseInv, BrowseTypeOK
  <2> QED BY <2>1, <2>2, CallEnds
<1>3. ASSUME NEW c \in BrowseCalls, PageIsThere(c) PROVE BrowseInv'
  <2>1. /\ ~Navigating(c) /\ UNCHANGED <<browserVars, contexts, closing, stranded>>
        /\ browsing[c].tool \in {"open", "use", "close"}
    BY <1>3 DEF PageIsThere, Navigating, BrowseInv, BrowseTypeOK
  <2>2. CASE IsSession(browsing[c].context)
    <3>1. Proceed(c, browsing[c].tool, browsing[c].context) /\ browsing[c].context \in SessionIds
      BY <1>3, <2>2, SessionsAre DEF PageIsThere
    <3> QED BY <2>1, <3>1, ProceedKeeps
  <2>3. CASE ~IsSession(browsing[c].context)
    <3>1. /\ browsing' = [browsing EXCEPT ![c] = NoBrowsing]
          /\ UNCHANGED <<browserVars, sessionVars, contexts, open, stranded>>
      BY <1>3, <2>3 DEF PageIsThere
    <3>2. NoBrowsing \in Call(Len(contexts)) /\ NoBrowsing.phase # "navigating"
      BY DEF NoBrowsing, Call, BrowseInv, BrowseTypeOK
    <3> QED BY <2>1, <3>1, <3>2, CallEnds
  <2> QED BY <2>2, <2>3
<1>4. ASSUME NEW t \in timers, Expire(t) PROVE BrowseInv'
  <2>1. PICK s \in SessionIds : t = Timed(s)
    BY DEF BrowseInv, SessionInv, TimersAre
  <2>2. t.session = s
    BY <2>1 DEF Timed
  <2>3. /\ Close(s, timers \ {Timed(s)})
        /\ UNCHANGED <<browserVars, uses, contexts, browsing, stranded>>
    BY <1>4, <2>1, <2>2 DEF Expire
  <2> QED BY <2>3, CloseAloneKeeps
<1>5. CASE BrowserDies
  <2>1. PICK b \in connected :
          /\ connected' = connected \ {b} /\ open' \subseteq open
          /\ UNCHANGED <<browser, launches, doubled, sessions, latest, timers, uses,
                         contexts, browsing, stranded>>
    BY <1>5 DEF BrowserDies, sessionVars
  <2> QED BY <2>1, BrowsersEnd
<1>6. CASE CloseAll
  <2>1. CASE /\ sessions # <<>> /\ Close(Head(sessions), timers)
             /\ UNCHANGED <<browserVars, uses, contexts, browsing, closing, stranded>>
    BY <2>1, CloseAloneKeeps
  <2>2. CASE /\ sessions = <<>> /\ connected' = connected \ {browser} /\ open' \subseteq open
             /\ browser' = 0 /\ latest' = 0
             /\ UNCHANGED <<launches, doubled, sessions, timers, uses, contexts, browsing, stranded>>
    BY <2>2, BrowsersEnd
  <2>3. CASE UNCHANGED <<browserVars, sessionVars, contexts, open, browsing, stranded>>
    <3>1. UNCHANGED <<browser, connected, launches, doubled, sessions, latest, timers, uses,
                      contexts, open, browsing, stranded>>
      BY <2>3 DEF browserVars, sessionVars
    <3>2. SessionIds' = SessionIds
      BY <3>1 DEF SessionIds
    <3> QED BY <3>1, <3>2 DEF BrowseInv, BrowseTypeOK, SessionInv, Distinct, TimersAre, Timed,
              LatestIsASession, IsSession, PagesAreOwned, ContextsAreOwned, Navigating, BrowserInv
  <2> QED BY <1>6, <2>1, <2>2, <2>3 DEF CloseAll
<1>7. CASE UNCHANGED browseVars
  <2>1. UNCHANGED <<browser, connected, launches, doubled, sessions, latest, timers, uses,
                    contexts, open, browsing, stranded>>
    BY <1>7 DEF browseVars
  <2>2. SessionIds' = SessionIds
    BY <2>1 DEF SessionIds
  <2> QED BY <2>1, <2>2 DEF BrowseInv, BrowseTypeOK, SessionInv, Distinct, TimersAre, Timed,
            LatestIsASession, IsSession, PagesAreOwned, ContextsAreOwned, Navigating, BrowserInv
<1> QED BY <1>1, <1>2, <1>3, <1>4, <1>5, <1>6, <1>7, LaunchedKeeps, NavigatedKeeps,
           NavigateFailsKeeps DEF BrowseNext

\* However calls, timers, deaths of the browser and the end of the process overlap:
\* a session has the timer of its last use and no other, the latest is a session,
\* a browser that runs is the one the manager will close unless two were launched
\* at once, and an open context belongs to a session or to a call unless its page
\* could not be loaded (SessionManager).
THEOREM SessionsAreCorrect == BrowseSpec => []SessionsCorrect
<1>1. BrowseInv => SessionsCorrect
  <2> SUFFICES ASSUME BrowseInv PROVE SessionsCorrect
    OBVIOUS
  <2>1. TimerOfLastUse
    <3>1. timers = {Timed(s) : s \in SessionIds} /\ \A s : Timed(s).session = s
      BY DEF BrowseInv, SessionInv, TimersAre, Timed
    <3>2. \A i \in 1..Len(sessions) : sessions[i] \in SessionIds
      BY DEF SessionIds
    <3>3. \A s \in SessionIds : {t \in timers : t.session = s} = {Timed(s)}
      BY <3>1
    <3>4. \A t \in timers : t.session \in SessionIds
      BY <3>1
    <3> QED BY <3>2, <3>3, <3>4, SessionsAre DEF TimerOfLastUse
  <2>2. BrowsersAreOwned
    BY SessionsAre DEF BrowseInv, BrowserInv, ContextsAreOwned, Navigating, BrowsersAreOwned
  <2> QED BY <2>1, <2>2 DEF BrowseInv, SessionInv, SessionsAgree, SessionsCorrect
<1> QED BY <1>1, BrowseStart, BrowseGoesOn, PTL DEF BrowseSpec

-----------------------------------------------------------------------------
(* The containers of tool-docker                                           *)

\* A call has created the container and has yet to register it.
AboutIt(d) == \E c \in DockerCalls : docking[c].phase \in {"inspecting", "composing"} /\ docking[c].container = d

\* Its removal is underway, or a call is about to register it.
Underway(d) == d \in removing \/ AboutIt(d)

\* Whatever runs is managed; once the server stops a record protects nothing, since it
\* goes with the process.
ManagedNow ==
  /\ server = "on" => \A d \in up \ forsaken : (\E r \in records : r.container = d) \/ Underway(d)
  /\ server = "stopping" => \A d \in up \ forsaken : Underway(d)
  /\ server = "off" => up \subseteq forsaken

\* An idle call remembers nothing, and one that is about a container has it.
CallsFollow ==
  \A c \in DockerCalls :
    /\ docking[c].phase = "none" => docking[c] = NoDocking
    /\ docking[c].phase \in {"inspecting", "composing"} => docking[c].container # 0

DockerInv == DockerTypeOK /\ TimersAreOfRecords /\ UploadsAreCapped /\ CallsFollow /\ ManagedNow

Doings == {"none", "inspecting", "composing", "looking", "executing", "uploading"}

\* docker ps has a latest container whenever it has one.
LEMMA LatestIs ==
  ASSUME DockerTypeOK, up # {}
  PROVE  Latest \in up
<1> DEFINE from == {created - d : d \in up}
<1>1. created \in Nat /\ \A d \in up : d \in 1..created
  BY DockerAssumption DEF DockerTypeOK
<1>2. from \subseteq Nat /\ from # {}
  BY <1>1
<1> HIDE DEF from
<1>3. PICK m \in from : \A n \in from : <<n, m>> \notin {s \in Nat \X Nat : s[1] < s[2]}
  <2>1. OpToRel(<, Nat) = {s \in Nat \X Nat : s[1] < s[2]}
    BY Zenon DEF OpToRel
  <2>2. IsWellFoundedOn({s \in Nat \X Nat : s[1] < s[2]}, Nat)
    BY <2>1, NatLessThanWellFounded, Zenon
  <2>. QED
    BY <1>2, <2>2, WFMin
<1>4. ASSUME NEW n \in from
      PROVE  m <= n
  <2>1. m \in Nat /\ n \in Nat /\ <<n, m>> \in Nat \X Nat
    BY <1>2
  <2>2. ~ (<<n, m>>[1] < <<n, m>>[2])
    BY <1>3, <2>1
  <2>. QED
    BY <2>1, <2>2
<1>5. PICK d \in up : m = created - d
  BY <1>3 DEF from
<1>6. \A e \in up : e <= d
  BY <1>1, <1>4, <1>5 DEF from
<1>. QED
  BY <1>5, <1>6 DEF Latest

\* A removal turns records into removals, and takes their timers.
LEMMA RemoveKeeps ==
  ASSUME DockerTypeOK, TimersAreOfRecords, NEW some, RemoveContainers(some), created' = created
  PROVE  /\ removing' \subseteq 1..created' /\ removing \subseteq removing'
         /\ records' \subseteq records
         /\ TimersAreOfRecords'
         /\ \A r \in records : r \in records' \/ r.container \in removing'
<1>1. /\ records' = {r \in records : r.id \notin some}
      /\ removing' = removing \cup {r.container : r \in records \ records'}
      /\ ttlTimers' = ttlTimers \ some
  BY DEF RemoveContainers
<1>2. \A r \in records : r.container \in 1..created
  BY DEF DockerTypeOK
<1>3. removing' \subseteq 1..created'
  BY <1>1, <1>2 DEF DockerTypeOK
<1>4. TimersAreOfRecords'
  BY <1>1 DEF TimersAreOfRecords
<1>. QED
  BY <1>1, <1>3, <1>4

\* What was underway still is, or has a record while the server is on; and a record
\* goes for a removal.
LEMMA ManagedStays ==
  ASSUME ManagedNow, up' \subseteq up, server' = server, forsaken \subseteq forsaken',
         \A d \in up' \ forsaken' :
           Underway(d) => Underway(d)' \/ (server = "on" /\ \E r \in records' : r.container = d),
         \A s \in records : s \in records' \/ s.container \in removing'
  PROVE  ManagedNow'
<1>1. ASSUME server' = "on", NEW d \in up' \ forsaken'
      PROVE  (\E r \in records' : r.container = d) \/ Underway(d)'
  <2>1. (\E r \in records : r.container = d) \/ Underway(d)
    BY <1>1 DEF ManagedNow
  <2>2. CASE \E r \in records : r.container = d
    <3>1. (\E r \in records' : r.container = d) \/ d \in removing'
      BY <2>2
    <3>. QED
      BY <3>1 DEF Underway
  <2>. QED
    BY <1>1, <2>1, <2>2
<1>2. ASSUME server' = "stopping", NEW d \in up' \ forsaken'
      PROVE  Underway(d)'
  <2>1. Underway(d) /\ server # "on"
    BY <1>2 DEF ManagedNow
  <2>. QED
    BY <2>1
<1>3. server' = "off" => up' \subseteq forsaken'
  BY DEF ManagedNow
<1>. QED
  BY <1>1, <1>2, <1>3 DEF ManagedNow

\* A call goes on to r.
LEMMA GoTypes ==
  ASSUME DockerTypeOK, UploadsAreCapped, CallsFollow, NEW c \in DockerCalls,
         NEW n \in Nat, created <= n,
         NEW r \in [phase : Doings, container : 0..n, expires : BOOLEAN, files : Nat, bytes : Nat,
                    stale : SUBSET (1..n)],
         Go(c, r), r.phase = "none" => r = NoDocking,
         r.phase \in {"inspecting", "composing"} => r.container # 0, r.bytes <= MaxBytes
  PROVE  /\ docking' \in [DockerCalls -> [phase : Doings, container : 0..n, expires : BOOLEAN,
                                          files : Nat, bytes : Nat, stale : SUBSET (1..n)]]
         /\ docking'[c] = r
         /\ \A b \in DockerCalls : b # c => docking'[b] = docking[b]
         /\ UploadsAreCapped' /\ CallsFollow'
<1>1. docking' = [docking EXCEPT ![c] = r]
  BY DEF Go
<1>2. created \in Nat /\ 0..created \subseteq 0..n /\ 1..created \subseteq 1..n
  BY DEF DockerTypeOK
<1>3. docking \in [DockerCalls -> [phase : Doings, container : 0..n, expires : BOOLEAN,
                                  files : Nat, bytes : Nat, stale : SUBSET (1..n)]]
  <2>1. docking \in [DockerCalls -> [phase : Doings, container : 0..created, expires : BOOLEAN,
                                  files : Nat, bytes : Nat, stale : SUBSET (1..created)]]
    BY DEF DockerTypeOK, Doings
  <2>. QED
    BY <1>2, <2>1
<1>4. docking'[c] = r /\ \A b \in DockerCalls : b # c => docking'[b] = docking[b]
  BY <1>1, <1>3
<1>5. docking' \in [DockerCalls -> [phase : Doings, container : 0..n, expires : BOOLEAN,
                                  files : Nat, bytes : Nat, stale : SUBSET (1..n)]]
  BY <1>1, <1>3
<1>6. UploadsAreCapped'
  BY <1>4 DEF UploadsAreCapped
<1>7. CallsFollow'
  BY <1>4 DEF CallsFollow
<1>. QED
  BY <1>4, <1>5, <1>6, <1>7

\* A call that is about no container goes on to r, which is neither, and removes some.
LEMMA GoKeeps ==
  ASSUME DockerInv, NEW c \in DockerCalls,
         NEW r \in [phase : Doings, container : 0..created, expires : BOOLEAN, files : Nat, bytes : Nat,
                    stale : SUBSET (1..created)],
         Go(c, r), docking[c].phase \notin {"inspecting", "composing"},
         r.phase = "none" => r = NoDocking, r.phase \notin {"inspecting", "composing"},
         r.bytes <= MaxBytes, NEW some, RemoveContainers(some),
         created' = created, up' = up, server' = server, forsaken' = forsaken
  PROVE  DockerInv'
<1>1. DockerTypeOK /\ TimersAreOfRecords /\ UploadsAreCapped /\ CallsFollow /\ ManagedNow /\ created \in Nat
  BY DEF DockerInv, DockerTypeOK
<1>2. /\ docking' \in [DockerCalls -> [phase : Doings, container : 0..created, expires : BOOLEAN,
                                       files : Nat, bytes : Nat, stale : SUBSET (1..created)]]
      /\ docking'[c] = r /\ \A b \in DockerCalls : b # c => docking'[b] = docking[b]
      /\ UploadsAreCapped' /\ CallsFollow'
  BY <1>1, GoTypes
<1>3. /\ removing' \subseteq 1..created' /\ removing \subseteq removing'
      /\ records' \subseteq records /\ TimersAreOfRecords'
      /\ \A s \in records : s \in records' \/ s.container \in removing'
  BY <1>1, RemoveKeeps
<1>4. DockerTypeOK'
  BY <1>1, <1>2, <1>3 DEF DockerTypeOK, Doings
<1>5. ASSUME NEW d, Underway(d)
      PROVE  Underway(d)'
  BY <1>2, <1>3, <1>5 DEF Underway, AboutIt
<1>6. ManagedNow'
  BY <1>1, <1>3, <1>5, ManagedStays
<1>. QED
  BY <1>2, <1>3, <1>4, <1>6 DEF DockerInv

\* Only records are removed, by a timer or a call that is told to.
LEMMA RemovalKeeps ==
  ASSUME DockerInv, NEW some, RemoveContainers(some), created' = created, up' = up, server' = server,
         forsaken' = forsaken, docking' = docking
  PROVE  DockerInv'
<1>1. DockerTypeOK /\ TimersAreOfRecords /\ UploadsAreCapped /\ CallsFollow /\ ManagedNow
  BY DEF DockerInv
<1>2. /\ removing' \subseteq 1..created' /\ removing \subseteq removing'
      /\ records' \subseteq records /\ TimersAreOfRecords'
      /\ \A s \in records : s \in records' \/ s.container \in removing'
  BY <1>1, RemoveKeeps
<1>3. DockerTypeOK' /\ UploadsAreCapped' /\ CallsFollow'
  BY <1>1, <1>2 DEF DockerTypeOK, UploadsAreCapped, CallsFollow
<1>4. ASSUME NEW d, Underway(d)
      PROVE  Underway(d)'
  BY <1>2, <1>4 DEF Underway, AboutIt
<1>5. ManagedNow'
  BY <1>1, <1>2, <1>4, ManagedStays
<1>. QED
  BY <1>2, <1>3, <1>5 DEF DockerInv

\* The calls, step by step.
LEMMA NoDockingIs ==
  ASSUME DockerTypeOK
  PROVE  /\ created \in Nat /\ NoDocking.bytes <= MaxBytes /\ NoDocking.phase = "none"
         /\ NoDocking \in [phase : Doings, container : 0..created, expires : BOOLEAN, files : Nat,
                           bytes : Nat, stale : SUBSET (1..created)]
BY DockerAssumption DEF DockerTypeOK, NoDocking, Doings

LEMMA CreateKeeps ==
  ASSUME DockerInv, NEW c \in DockerCalls, NEW way \in {"inspecting", "composing"}, NEW e \in BOOLEAN,
         server # "off", Create(c, way, e)
  PROVE  DockerInv'
<1>1. /\ DockerTypeOK /\ TimersAreOfRecords /\ UploadsAreCapped /\ CallsFollow /\ ManagedNow
      /\ created \in Nat /\ created + 1 \in 1..MaxContainers
  BY DockerAssumption DEF DockerInv, DockerTypeOK, Create
<1>2. /\ docking[c].phase = "none" /\ created' = created + 1 /\ up' = up \cup {created + 1}
      /\ records' = records /\ ttlTimers' = ttlTimers /\ removing' = removing
      /\ server' = server /\ forsaken' = forsaken
  BY DEF Create, Doing
<1> DEFINE r == [NoDocking EXCEPT !.phase = way, !.container = created + 1, !.expires = e]
<1>3. /\ r \in [phase : Doings, container : 0..(created + 1), expires : BOOLEAN, files : Nat, bytes : Nat,
                stale : SUBSET (1..(created + 1))]
      /\ r.phase = way /\ r.container = created + 1 /\ r.bytes <= MaxBytes
  <2>1. created + 1 \in 0..(created + 1) /\ {} \in SUBSET (1..(created + 1)) /\ 0 <= MaxBytes /\ way \in Doings
    BY <1>1, DockerAssumption DEF Doings
  <2>2. CASE e = TRUE
    BY <2>1, <2>2 DEF NoDocking
  <2>3. CASE e = FALSE
    BY <2>1, <2>3 DEF NoDocking
  <2>. QED
    BY <2>2, <2>3
<1>4. Go(c, r)
  BY DEF Create
<1> HIDE DEF r
<1>5. /\ docking' \in [DockerCalls -> [phase : Doings, container : 0..(created + 1), expires : BOOLEAN,
                                       files : Nat, bytes : Nat, stale : SUBSET (1..(created + 1))]]
      /\ docking'[c] = r /\ \A b \in DockerCalls : b # c => docking'[b] = docking[b]
      /\ UploadsAreCapped' /\ CallsFollow'
  <2>1. created + 1 \in Nat /\ created <= created + 1 /\ (r.phase = "none" => r = NoDocking)
        /\ (r.phase \in {"inspecting", "composing"} => r.container # 0)
    BY <1>1, <1>3
  <2>. QED
    BY <1>1, <1>3, <1>4, <2>1, GoTypes
<1>6. 1..created \subseteq 1..(created + 1) /\ created + 1 \in 1..(created + 1)
  BY <1>1
<1>7. DockerTypeOK'
  <2>1. created' \in 0..MaxContainers /\ up' \subseteq 1..created' /\ removing' \subseteq 1..created'
    BY <1>1, <1>2, <1>6 DEF DockerTypeOK
  <2>2. records' \subseteq [id : 1..created', container : 1..created', expires : BOOLEAN]
    BY <1>1, <1>2, <1>6 DEF DockerTypeOK
  <2>. QED
    BY <1>1, <1>2, <1>5, <2>1, <2>2 DEF DockerTypeOK, Doings
<1>8. TimersAreOfRecords'
  BY <1>1, <1>2 DEF TimersAreOfRecords
<1>9. ASSUME NEW d, Underway(d) \/ d = created + 1
      PROVE  Underway(d)'
  <2>1. CASE d = created + 1
    <3>1. docking'[c].phase \in {"inspecting", "composing"} /\ docking'[c].container = d
      BY <1>3, <1>5, <2>1
    <3>. QED
      BY <3>1 DEF Underway, AboutIt
  <2>2. CASE d \in removing
    BY <1>2, <2>2 DEF Underway
  <2>3. CASE AboutIt(d)
    <3>1. PICK b \in DockerCalls : docking[b].phase \in {"inspecting", "composing"} /\ docking[b].container = d
      BY <2>3 DEF AboutIt
    <3>2. docking'[b].phase \in {"inspecting", "composing"} /\ docking'[b].container = d
      BY <1>2, <1>5, <3>1
    <3>. QED
      BY <3>2 DEF Underway, AboutIt
  <2>. QED
    BY <1>9, <2>1, <2>2, <2>3 DEF Underway
<1>10. ManagedNow'
  <2>1. server' # "off"
    BY <1>2
  <2>2. ASSUME NEW d \in up' \ forsaken' PROVE d \in up \ forsaken \/ Underway(d)'
    BY <1>2, <1>9
  <2>3. ASSUME server' = "on", NEW d \in up' \ forsaken'
        PROVE  (\E s \in records' : s.container = d) \/ Underway(d)'
    BY <1>1, <1>2, <1>9, <2>2, <2>3 DEF ManagedNow
  <2>4. ASSUME server' = "stopping", NEW d \in up' \ forsaken'
        PROVE  Underway(d)'
    BY <1>1, <1>2, <1>9, <2>2, <2>4 DEF ManagedNow
  <2>. QED
    BY <2>1, <2>3, <2>4 DEF ManagedNow
<1>. QED
  BY <1>5, <1>7, <1>8, <1>10 DEF DockerInv

\* Registration gives a container its record.
LEMMA RegisterKeeps ==
  ASSUME DockerTypeOK, TimersAreOfRecords, NEW id \in 1..created, NEW d \in 1..created, NEW e \in BOOLEAN,
         Register(id, d, e)
  PROVE  /\ records' \subseteq [id : 1..created, container : 1..created, expires : BOOLEAN]
         /\ records \subseteq records' /\ \E r \in records' : r.container = d
         /\ TimersAreOfRecords'
<1> DEFINE new == [id |-> id, container |-> d, expires |-> e]
<1>1. /\ records' = records \cup {new}
      /\ ttlTimers' = IF e THEN ttlTimers \cup {id} ELSE ttlTimers
  BY DEF Register
<1>2. new \in [id : 1..created, container : 1..created, expires : BOOLEAN] /\ new.container = d
      /\ new.id = id /\ new.expires = e
  OBVIOUS
<1> HIDE DEF new
<1>3. records' \subseteq [id : 1..created, container : 1..created, expires : BOOLEAN]
  BY <1>1, <1>2 DEF DockerTypeOK
<1>4. TimersAreOfRecords'
  BY <1>1, <1>2 DEF TimersAreOfRecords
<1>. QED
  BY <1>1, <1>2, <1>3, <1>4

\* A call that was about container d registers some container, or forsakes d.
LEMMA SettleKeeps ==
  ASSUME DockerInv, NEW c \in DockerCalls, Go(c, NoDocking),
         created' = created, up' = up, server' = server, removing' = removing,
         forsaken \subseteq forsaken',
         records' \subseteq [id : 1..created, container : 1..created, expires : BOOLEAN],
         records \subseteq records', TimersAreOfRecords',
         docking[c].container \in forsaken'
           \/ (server = "on" /\ \E r \in records' : r.container = docking[c].container)
  PROVE  DockerInv'
<1>1. DockerTypeOK /\ UploadsAreCapped /\ CallsFollow /\ ManagedNow
  BY DEF DockerInv
<1>2. /\ created \in Nat /\ NoDocking.bytes <= MaxBytes /\ NoDocking.phase = "none"
      /\ NoDocking \in [phase : Doings, container : 0..created, expires : BOOLEAN, files : Nat,
                        bytes : Nat, stale : SUBSET (1..created)]
  BY <1>1, NoDockingIs
<1>3. /\ docking' \in [DockerCalls -> [phase : Doings, container : 0..created, expires : BOOLEAN,
                                       files : Nat, bytes : Nat, stale : SUBSET (1..created)]]
      /\ \A b \in DockerCalls : b # c => docking'[b] = docking[b]
      /\ UploadsAreCapped' /\ CallsFollow'
  BY <1>1, <1>2, GoTypes
<1>4. DockerTypeOK'
  BY <1>1, <1>3 DEF DockerTypeOK, Doings
<1>5. ASSUME NEW d \in up' \ forsaken', Underway(d)
      PROVE  Underway(d)' \/ (server = "on" /\ \E r \in records' : r.container = d)
  BY <1>3, <1>5 DEF Underway, AboutIt
<1>6. ManagedNow'
  BY <1>1, <1>5, ManagedStays
<1>. QED
  BY <1>3, <1>4, <1>6 DEF DockerInv

LEMMA CallKeeps ==
  ASSUME DockerInv, NEW c \in DockerCalls,
         \/ Inspected(c) \/ ComposeIsUp(c)
         \/ \E r \in records : Look(c, {r.id}) \/ Exec(c, r)
         \/ Look(c, Ids) \/ Looked(c) \/ Executed(c)
         \/ (\E size \in 1..(MaxBytes + 1) : UploadOne(c, size)) \/ ExecEnds(c)
  PROVE  DockerInv'
<1>1. DockerTypeOK /\ TimersAreOfRecords /\ UploadsAreCapped /\ CallsFollow /\ ManagedNow
  BY DEF DockerInv
<1>2. /\ created \in Nat /\ NoDocking.bytes <= MaxBytes /\ NoDocking.phase = "none"
      /\ NoDocking \in [phase : Doings, container : 0..created, expires : BOOLEAN, files : Nat,
                        bytes : Nat, stale : SUBSET (1..created)]
  BY <1>1, NoDockingIs
<1>3. /\ docking[c] \in [phase : Doings, container : 0..created, expires : BOOLEAN, files : Nat,
                         bytes : Nat, stale : SUBSET (1..created)]
      /\ docking[c].bytes <= MaxBytes
  BY <1>1 DEF DockerTypeOK, Doings, UploadsAreCapped
<1>4. ASSUME records' = records, ttlTimers' = ttlTimers, removing' = removing
      PROVE  RemoveContainers({})
  BY <1>4 DEF RemoveContainers
<1>5. CASE Inspected(c)
  <2>1. /\ docking[c].phase = "inspecting" /\ docking[c].container \in 1..created
        /\ docking[c].expires \in BOOLEAN
    BY <1>1, <1>2, <1>3, <1>5 DEF Inspected, Doing, CallsFollow
  <2>2. /\ Go(c, NoDocking) /\ created' = created /\ up' = up /\ server' = server /\ removing' = removing
    BY <1>5 DEF Inspected
  <2>3. CASE /\ Register(docking[c].container, docking[c].container, docking[c].expires)
             /\ forsaken' = IF server = "on" THEN forsaken ELSE forsaken \cup {docking[c].container}
    <3>1. /\ records' \subseteq [id : 1..created, container : 1..created, expires : BOOLEAN]
          /\ records \subseteq records' /\ \E r \in records' : r.container = docking[c].container
          /\ TimersAreOfRecords'
      BY <1>1, <2>1, <2>3, RegisterKeeps
    <3>2. /\ forsaken \subseteq forsaken'
          /\ docking[c].container \in forsaken'
               \/ (server = "on" /\ \E r \in records' : r.container = docking[c].container)
      BY <2>3, <3>1
    <3>. QED
      BY <2>2, <3>1, <3>2, SettleKeeps
  <2>4. CASE forsaken' = forsaken \cup {docking[c].container} /\ UNCHANGED <<records, ttlTimers>>
    <3>1. /\ records' \subseteq [id : 1..created, container : 1..created, expires : BOOLEAN]
          /\ records \subseteq records' /\ TimersAreOfRecords'
          /\ forsaken \subseteq forsaken' /\ docking[c].container \in forsaken'
      BY <1>1, <2>4 DEF DockerTypeOK, TimersAreOfRecords
    <3>. QED
      BY <2>2, <3>1, SettleKeeps
  <2>. QED
    BY <1>5, <2>3, <2>4 DEF Inspected
<1>6. CASE ComposeIsUp(c)
  <2>1. /\ docking[c].phase = "composing" /\ docking[c].container \in 1..created
        /\ docking[c].expires \in BOOLEAN
    BY <1>1, <1>2, <1>3, <1>6 DEF ComposeIsUp, Doing, CallsFollow
  <2>2. /\ Go(c, NoDocking) /\ created' = created /\ up' = up /\ server' = server /\ removing' = removing
    BY <1>6 DEF ComposeIsUp
  <2>3. CASE /\ up # {}
             /\ Register(docking[c].container, Latest, docking[c].expires)
             /\ forsaken' = IF server = "on" /\ Latest = docking[c].container THEN forsaken
                            ELSE forsaken \cup {docking[c].container}
    <3>1. Latest \in 1..created
      BY <1>1, <2>3, LatestIs DEF DockerTypeOK
    <3>2. /\ records' \subseteq [id : 1..created, container : 1..created, expires : BOOLEAN]
          /\ records \subseteq records' /\ \E r \in records' : r.container = Latest
          /\ TimersAreOfRecords'
      BY <1>1, <2>1, <2>3, <3>1, RegisterKeeps
    <3>3. /\ forsaken \subseteq forsaken'
          /\ docking[c].container \in forsaken'
               \/ (server = "on" /\ \E r \in records' : r.container = docking[c].container)
      BY <2>3, <3>2
    <3>. QED
      BY <2>2, <3>2, <3>3, SettleKeeps
  <2>4. CASE forsaken' = forsaken \cup {docking[c].container} /\ UNCHANGED <<records, ttlTimers>>
    <3>1. /\ records' \subseteq [id : 1..created, container : 1..created, expires : BOOLEAN]
          /\ records \subseteq records' /\ TimersAreOfRecords'
          /\ forsaken \subseteq forsaken' /\ docking[c].container \in forsaken'
      BY <1>1, <2>4 DEF DockerTypeOK, TimersAreOfRecords
    <3>. QED
      BY <2>2, <3>1, SettleKeeps
  <2>. QED
    BY <1>6, <2>3, <2>4 DEF ComposeIsUp
<1>7. ASSUME NEW some \in SUBSET (1..created), Look(c, some)
      PROVE  DockerInv'
  <2>1. /\ docking[c].phase = "none" /\ created' = created /\ up' = up /\ server' = server /\ forsaken' = forsaken
        /\ RemoveContainers({})
    BY <1>4, <1>7 DEF Look, Doing
  <2>2. PICK gone \in SUBSET (1..created) : Go(c, [NoDocking EXCEPT !.phase = "looking", !.stale = gone])
    <3>1. PICK failed \in {{}} \cup {{id} : id \in some} :
            Go(c, [NoDocking EXCEPT !.phase = "looking",
                     !.stale = {id \in some : Named(id).container \notin up} \cup failed])
      BY <1>7 DEF Look
    <3> DEFINE gone == {id \in some : Named(id).container \notin up} \cup failed
    <3>2. gone \in SUBSET (1..created)
      OBVIOUS
    <3>. QED
      BY <3>1, <3>2
  <2> DEFINE r == [NoDocking EXCEPT !.phase = "looking", !.stale = gone]
  <2>3. /\ r \in [phase : Doings, container : 0..created, expires : BOOLEAN, files : Nat, bytes : Nat,
                  stale : SUBSET (1..created)]
        /\ r.phase = "looking" /\ r.bytes <= MaxBytes
    BY <1>2, DockerAssumption DEF NoDocking, Doings
  <2> HIDE DEF r
  <2>4. Go(c, r)
    BY <2>2 DEF r
  <2>5. /\ docking[c].phase \notin {"inspecting", "composing"}
        /\ r.phase = "none" => r = NoDocking
        /\ r.phase \notin {"inspecting", "composing"}
    BY <2>1, <2>3
  <2>. QED
    BY <2>1, <2>3, <2>4, <2>5, GoKeeps
<1>8. \A r \in records : r.id \in 1..created /\ r.container \in 0..created
  BY <1>1, <1>2 DEF DockerTypeOK
<1>9. ASSUME NEW some, Go(c, NoDocking), docking[c].phase \notin {"inspecting", "composing"},
             RemoveContainers(some), created' = created, up' = up, server' = server, forsaken' = forsaken
      PROVE  DockerInv'
  <2>1. /\ NoDocking.phase = "none" => NoDocking = NoDocking
        /\ NoDocking.phase \notin {"inspecting", "composing"}
    BY <1>2
  <2>. QED
    BY <1>2, <1>9, <2>1, GoKeeps
<1>10. CASE Looked(c)
  <2>1. docking[c].phase \notin {"inspecting", "composing"}
    BY <1>10 DEF Looked, Doing
  <2>. QED
    BY <1>9, <1>10, <2>1 DEF Looked
<1>11. ASSUME NEW s \in records, Exec(c, s)
       PROVE  DockerInv'
  <2> DEFINE r == [NoDocking EXCEPT !.phase = "executing", !.container = s.container, !.stale = {s.id}]
  <2>1. /\ docking[c].phase = "none" /\ created' = created /\ up' = up /\ server' = server
        /\ forsaken' = forsaken /\ RemoveContainers({}) /\ Go(c, r)
    BY <1>4, <1>11 DEF Exec, Doing
  <2>2. s.id \in 1..created /\ s.container \in 0..created
    BY <1>8
  <2>3. /\ r \in [phase : Doings, container : 0..created, expires : BOOLEAN, files : Nat, bytes : Nat,
                  stale : SUBSET (1..created)]
        /\ r.phase = "executing" /\ r.bytes <= MaxBytes
    BY <1>2, <2>2, DockerAssumption DEF NoDocking, Doings
  <2> HIDE DEF r
  <2>4. /\ docking[c].phase \notin {"inspecting", "composing"}
        /\ r.phase = "none" => r = NoDocking
        /\ r.phase \notin {"inspecting", "composing"}
    BY <2>1, <2>3
  <2>. QED
    BY <2>1, <2>3, <2>4, GoKeeps
<1>12. CASE Executed(c)
  <2>1. /\ docking[c].phase = "executing" /\ created' = created /\ up' = up /\ server' = server
        /\ forsaken' = forsaken
    BY <1>12 DEF Executed, Doing
  <2>2. CASE Go(c, NoDocking) /\ UNCHANGED <<records, ttlTimers, removing>>
    BY <1>4, <1>9, <2>1, <2>2
  <2>3. CASE RemoveContainers(docking[c].stale) /\ Go(c, NoDocking)
    BY <1>9, <2>1, <2>3
  <2>4. CASE /\ Go(c, [docking[c] EXCEPT !.phase = "uploading",
                         !.files = IF UploadPaths < MaxFiles THEN UploadPaths ELSE MaxFiles])
             /\ UNCHANGED <<records, ttlTimers, removing>>
    <3> DEFINE r == [docking[c] EXCEPT !.phase = "uploading",
                       !.files = IF UploadPaths < MaxFiles THEN UploadPaths ELSE MaxFiles]
    <3>1. /\ r \in [phase : Doings, container : 0..created, expires : BOOLEAN, files : Nat, bytes : Nat,
                    stale : SUBSET (1..created)]
          /\ r.phase = "uploading" /\ r.bytes <= MaxBytes
      BY <1>3, DockerAssumption DEF Doings
    <3>2. Go(c, r)
      BY <2>4
    <3> HIDE DEF r
    <3>3. /\ docking[c].phase \notin {"inspecting", "composing"} /\ RemoveContainers({})
          /\ r.phase = "none" => r = NoDocking
          /\ r.phase \notin {"inspecting", "composing"}
      BY <1>4, <2>1, <2>4, <3>1
    <3>. QED
      BY <2>1, <3>1, <3>2, <3>3, GoKeeps
  <2>. QED
    BY <1>12, <2>2, <2>3, <2>4 DEF Executed
<1>13. ASSUME NEW size \in 1..(MaxBytes + 1), UploadOne(c, size)
       PROVE  DockerInv'
  <2>1. /\ docking[c].phase = "uploading" /\ created' = created /\ up' = up /\ server' = server
        /\ forsaken' = forsaken /\ RemoveContainers({}) /\ docking[c].files > 0
    BY <1>4, <1>13 DEF UploadOne, Doing
  <2>2. PICK n \in {docking[c].bytes, docking[c].bytes + size} :
          /\ n <= MaxBytes
          /\ Go(c, [docking[c] EXCEPT !.files = @ - 1, !.bytes = n])
    <3>1. docking[c] = [docking[c] EXCEPT !.bytes = docking[c].bytes]
      BY <1>3
    <3>2. CASE Go(c, [docking[c] EXCEPT !.files = @ - 1])
      BY <1>3, <3>1, <3>2
    <3>3. CASE Fits(c, size) /\ Go(c, [docking[c] EXCEPT !.files = @ - 1, !.bytes = @ + size])
      BY <3>3 DEF Fits
    <3>. QED
      BY <1>13, <3>2, <3>3 DEF UploadOne
  <2> DEFINE r == [docking[c] EXCEPT !.files = @ - 1, !.bytes = n]
  <2>3. docking[c].files \in Nat /\ docking[c].files - 1 \in Nat /\ n \in Nat
    BY <1>3, <2>1
  <2>4. /\ r \in [phase : Doings, container : 0..created, expires : BOOLEAN, files : Nat, bytes : Nat,
                  stale : SUBSET (1..created)]
        /\ r.phase = "uploading" /\ r.bytes <= MaxBytes
    BY <1>3, <2>1, <2>2, <2>3 DEF Doings
  <2>5. Go(c, r)
    BY <2>2
  <2> HIDE DEF r
  <2>6. /\ docking[c].phase \notin {"inspecting", "composing"}
        /\ r.phase = "none" => r = NoDocking
        /\ r.phase \notin {"inspecting", "composing"}
    BY <2>1, <2>4
  <2>. QED
    BY <2>1, <2>4, <2>5, <2>6, GoKeeps
<1>14. CASE ExecEnds(c)
  <2>1. docking[c].phase \notin {"inspecting", "composing"} /\ RemoveContainers({})
    BY <1>4, <1>14 DEF ExecEnds, Doing
  <2>. QED
    BY <1>9, <1>14, <2>1 DEF ExecEnds
<1>15. Ids \subseteq 1..created
  BY <1>8 DEF Ids
<1>. QED
  BY <1>5, <1>6, <1>7, <1>8, <1>10, <1>11, <1>12, <1>13, <1>14, <1>15

\* A removal that docker has been asked for is done, or fails; the server stops.
LEMMA RemovedKeeps ==
  ASSUME DockerInv, NEW d, Removed(d)
  PROVE  DockerInv'
<1>1. DockerTypeOK /\ TimersAreOfRecords /\ UploadsAreCapped /\ CallsFollow /\ ManagedNow
  BY DEF DockerInv
<1>2. /\ removing' = removing \ {d} /\ up' \subseteq up /\ forsaken \subseteq forsaken' /\ d \notin up' \ forsaken'
      /\ created' = created /\ records' = records /\ ttlTimers' = ttlTimers /\ docking' = docking
      /\ server' = server
  BY DEF Removed
<1>3. DockerTypeOK' /\ TimersAreOfRecords' /\ UploadsAreCapped' /\ CallsFollow'
  BY <1>1, <1>2 DEF DockerTypeOK, TimersAreOfRecords, UploadsAreCapped, CallsFollow
<1>4. ASSUME NEW e \in up' \ forsaken', Underway(e)
      PROVE  Underway(e)'
  BY <1>2, <1>4 DEF Underway, AboutIt
<1>5. ManagedNow'
  BY <1>1, <1>2, <1>4, ManagedStays
<1>. QED
  BY <1>3, <1>5 DEF DockerInv

LEMMA StopServerKeeps ==
  ASSUME DockerInv, StopServer
  PROVE  DockerInv'
<1>1. DockerTypeOK /\ TimersAreOfRecords /\ UploadsAreCapped /\ CallsFollow /\ ManagedNow
  BY DEF DockerInv
<1>2. created' = created /\ up' = up
  BY DEF StopServer
<1>3. CASE server = "on" /\ server' = "stopping" /\ RemoveContainers(Ids) /\ UNCHANGED <<docking, forsaken>>
  <2>1. /\ removing' \subseteq 1..created' /\ removing \subseteq removing'
        /\ records' \subseteq records /\ TimersAreOfRecords'
        /\ \A s \in records : s \in records' \/ s.container \in removing'
    BY <1>1, <1>2, <1>3, RemoveKeeps
  <2>2. records' = {}
    BY <1>3 DEF RemoveContainers, Ids
  <2>3. DockerTypeOK' /\ UploadsAreCapped' /\ CallsFollow'
    BY <1>1, <1>2, <1>3, <2>1 DEF DockerTypeOK, UploadsAreCapped, CallsFollow
  <2>4. ASSUME NEW d \in up' \ forsaken'
        PROVE  Underway(d)'
    <3>1. (\E r \in records : r.container = d) \/ Underway(d)
      BY <1>1, <1>2, <1>3 DEF ManagedNow
    <3>. QED
      BY <1>3, <2>1, <2>2, <3>1 DEF Underway, AboutIt
  <2>5. ManagedNow'
    BY <1>3, <2>4 DEF ManagedNow
  <2>. QED
    BY <2>1, <2>3, <2>5 DEF DockerInv
<1>4. CASE /\ server = "stopping" /\ removing = {} /\ server' = "off"
           /\ forsaken' = forsaken \cup {docking[c].container : c \in DockerCalls}
           /\ docking' = [c \in DockerCalls |-> NoDocking]
           /\ records' = {} /\ ttlTimers' = {} /\ UNCHANGED removing
  <2>1. NoDocking \in [phase : Doings, container : 0..created, expires : BOOLEAN, files : Nat,
                       bytes : Nat, stale : SUBSET (1..created)] /\ NoDocking.bytes <= MaxBytes
        /\ NoDocking.phase = "none"
    BY <1>1, NoDockingIs
  <2>2. DockerTypeOK' /\ UploadsAreCapped' /\ CallsFollow' /\ TimersAreOfRecords'
    BY <1>1, <1>2, <1>4, <2>1 DEF DockerTypeOK, UploadsAreCapped, CallsFollow, TimersAreOfRecords, Doings
  <2>3. \A d \in up \ forsaken : d \in forsaken'
    BY <1>1, <1>4 DEF ManagedNow, Underway, AboutIt
  <2>4. ManagedNow'
    BY <1>2, <1>4, <2>3 DEF ManagedNow
  <2>. QED
    BY <2>2, <2>4 DEF DockerInv
<1>. QED
  BY <1>3, <1>4 DEF StopServer

\* A container that runs has a record, a removal underway or a call about it unless a
\* command failed for it; the timers are those of the records that expire; and what is
\* uploaded for a command stays within the cap: whatever calls, timers and the end of
\* the server do between them.
THEOREM ContainersAreKnown == DockerSpec => []DockerCorrect
<1>1. DockerInit => DockerInv
  BY DockerAssumption DEF DockerInit, DockerInv, DockerTypeOK, TimersAreOfRecords, UploadsAreCapped,
     CallsFollow, ManagedNow, NoDocking
<1>2. DockerInv /\ [DockerNext]_dockerVars => DockerInv'
  <2>1. SUFFICES ASSUME DockerInv, [DockerNext]_dockerVars PROVE DockerInv'
    OBVIOUS
  <2>2. ASSUME NEW d \in up, Ends(d) PROVE DockerInv'
    <3>1. DockerTypeOK /\ TimersAreOfRecords /\ UploadsAreCapped /\ CallsFollow /\ ManagedNow
      BY <2>1 DEF DockerInv
    <3>2. up' \subseteq up /\ UNCHANGED <<created, records, ttlTimers, removing, docking, server, forsaken>>
      BY <2>2 DEF Ends
    <3>3. DockerTypeOK' /\ TimersAreOfRecords' /\ UploadsAreCapped' /\ CallsFollow'
      BY <3>1, <3>2 DEF DockerTypeOK, TimersAreOfRecords, UploadsAreCapped, CallsFollow
    <3>4. \A e : Underway(e) => Underway(e)'
      BY <3>2 DEF Underway, AboutIt
    <3>5. ManagedNow'
      BY <3>1, <3>2, <3>4, ManagedStays
    <3>. QED
      BY <3>3, <3>5 DEF DockerInv
  <2>3. ASSUME NEW d \in Container, TtlExpires(d) \/ StopContainer(d) PROVE DockerInv'
    <3>1. RemoveContainers({d}) /\ UNCHANGED <<up, created, docking, server, forsaken>>
      BY <2>3 DEF TtlExpires, StopContainer
    <3>. QED
      BY <2>1, <3>1, RemovalKeeps
  <2>4. CASE UNCHANGED dockerVars
    <3>1. DockerTypeOK' /\ TimersAreOfRecords' /\ UploadsAreCapped' /\ CallsFollow'
      BY <2>1, <2>4 DEF dockerVars, DockerInv, DockerTypeOK, TimersAreOfRecords, UploadsAreCapped, CallsFollow
    <3>2. ManagedNow'
      BY <2>1, <2>4 DEF dockerVars, DockerInv, ManagedNow, Underway, AboutIt
    <3>. QED
      BY <3>1, <3>2 DEF DockerInv
  <2>. QED
    BY <2>1, <2>2, <2>3, <2>4, CreateKeeps, CallKeeps, RemovedKeeps, StopServerKeeps DEF DockerNext
<1>3. DockerInv => DockerCorrect
  <2>1. SUFFICES ASSUME DockerInv PROVE ContainersAreManaged
    BY DEF DockerInv, DockerCorrect
  <2>2. server \in {"on", "stopping", "off"} /\ ManagedNow
    BY <2>1 DEF DockerInv, DockerTypeOK
  <2>3. \A d : Underway(d) => d \in removing \/ \E c \in DockerCalls : docking[c].container = d
    BY DEF Underway, AboutIt
  <2>. QED
    BY <2>2, <2>3 DEF ManagedNow, ContainersAreManaged
<1>. QED
  BY <1>1, <1>2, <1>3, PTL DEF DockerSpec

-----------------------------------------------------------------------------
(* The editing of configuration files                                      *)

\* A page that shows no file has nothing underway; a write underway has a content.
Shaped(r) ==
  /\ r.selected = NoFile => r.base = <<>> /\ r.draft = <<>> /\ r.save = NoSave /\ r.dialog = NoDialog
  /\ r.selected # NoFile => r.base \in Content /\ r.draft \in Content
  /\ IF r.save.step = "none" THEN r.save = NoSave ELSE r.save.file \in Files /\ r.save.content \in Content
  /\ r.dialog.file = NoFile => r.dialog = NoDialog

\* Base, draft, and what is underway belong to the file that is shown.
Unmixed(r) ==
  /\ r.selected # NoFile => r.base[1] = r.selected /\ r.draft[1] = r.selected
  /\ r.save.step # "none" => r.save.content[1] = r.selected /\ r.save.file = r.selected
  /\ r.dialog.file # NoFile => r.dialog.file = r.selected
  /\ \A l \in r.loads : l.got # <<>> => l.got[1] = l.file

\* A draft without changes is what was loaded or saved, and so it will be when the
\* write underway is answered.
Clean(r) ==
  /\ r.dirty \/ r.draft = r.base
  /\ r.save.step # "none" => r.draft = r.save.content \/ r.draft = r.base

\* The dialog on an agent is over the content it was opened over, ...
Targeted(r) == r.prompt.target # NoAgent => r.prompt.over = r.base

\* ... and holds, or waits for, a prompt for its agent, if it has one.
AskedForTarget(r) ==
  /\ r.prompt.asked # Unasked =>
       r.prompt.open /\ (r.prompt.target = NoAgent \/ r.prompt.asked = r.prompt.target)
  /\ r.prompt.open /\ r.prompt.got # Unasked =>
       r.prompt.target = NoAgent \/ r.prompt.got = r.prompt.target

\* The files, their histories, and the write that the agent asked for.
FilesUnmixed ==
  wandered = {} =>
    /\ \A f \in Files : disk[f][1] = f /\ \A c \in versions[f] : c[1] = f
    /\ agent.step # "none" => agent.content[1] = agent.file

\* The content that a write is to replace is in the history, ...
KeptIsKept ==
  \A f \in Files \ overlapped :
    /\ \A v, w \in Kept(f) : v = w
    /\ Kept(f) # {} => disk[f] \in versions[f]

PageOK(p) ==
  /\ page[p] \in Page
  /\ Shaped(page[p]) /\ Targeted(page[p])
  /\ wandered = {} => Unmixed(page[p])
  /\ p \in hurried \/ Clean(page[p])
  /\ late = {} => AskedForTarget(page[p])

ConfigInv ==
  /\ ConfigTypeOK
  /\ page \in [Pages -> Page] /\ edits \in 0..MaxEdits
  /\ agent.step # "none" => agent.file \in Files /\ agent.content \in Content
  /\ FilesUnmixed
  /\ KeptIsKept
  /\ PromptsArrive
  /\ \A p \in Pages : PageOK(p)

-----------------------------------------------------------------------------
\* What the history variables record is never taken back.
Remembered ==
  /\ wandered \subseteq wandered' /\ hurried \subseteq hurried' /\ late \subseteq late'
  /\ wandered' \subseteq Pages /\ hurried' \subseteq Pages /\ late' \subseteq Pages
  /\ edits' \in 0..MaxEdits

\* A page changes, and nothing of the files and their writes: no write gets further.
LEMMA PageStep ==
  ASSUME ConfigInv, NEW p \in Pages, NEW r \in Page, page' = [page EXCEPT ![p] = r],
         UNCHANGED <<disk, versions, overlapped, agent>>, Remembered,
         r.save.step = "kept" => r.save = page[p].save,
         Shaped(r), Targeted(r), wandered' = {} => Unmixed(r),
         p \in hurried' \/ Clean(r), late' = {} => AskedForTarget(r),
         PromptsArrive'
  PROVE  ConfigInv'
<1>1. page \in [Pages -> Page] /\ ConfigTypeOK
  BY DEF ConfigInv
<1>2. page' \in [Pages -> Page] /\ page'[p] = r /\ \A q \in Pages \ {p} : page'[q] = page[q]
  BY <1>1
<1>3. ConfigTypeOK'
  BY <1>1, <1>2 DEF ConfigTypeOK, Remembered
<1>4. (agent.step # "none" => agent.file \in Files /\ agent.content \in Content)'
  BY DEF ConfigInv
<1>5. FilesUnmixed'
  BY DEF ConfigInv, FilesUnmixed, Remembered
<1>6. KeptIsKept'
  <2>1. ASSUME NEW f \in Files, NEW w \in Kept(f)' PROVE w \in Kept(f)
    BY <1>2, <2>1, ConfigAssumption DEF Kept, Writes, Agent
  <2> SUFFICES ASSUME NEW f \in Files \ overlapped'
               PROVE  /\ \A v, w \in Kept(f)' : v = w
                      /\ Kept(f)' # {} => disk'[f] \in versions'[f]
    BY DEF KeptIsKept
  <2>2. f \in Files \ overlapped /\ disk' = disk /\ versions' = versions
    OBVIOUS
  <2>3. (\A v, w \in Kept(f) : v = w) /\ (Kept(f) # {} => disk[f] \in versions[f])
    BY <2>2 DEF ConfigInv, KeptIsKept
  <2> QED BY <2>1, <2>2, <2>3
<1>7. ASSUME NEW q \in Pages PROVE PageOK(q)'
  <2>1. CASE q = p
    BY <1>2, <2>1 DEF PageOK
  <2>2. CASE q # p
    <3>1. PageOK(q) /\ page'[q] = page[q]
      BY <1>2, <2>2 DEF ConfigInv
    <3> QED BY <3>1 DEF PageOK, Remembered
  <2> QED BY <2>1, <2>2
<1>8. edits' \in 0..MaxEdits
  BY DEF Remembered
<1> QED BY <1>2, <1>3, <1>4, <1>5, <1>6, <1>7, <1>8 DEF ConfigInv

\* The page of a step, and what it is.
LEMMA PageIs ==
  ASSUME ConfigInv, NEW p \in Pages
  PROVE  /\ page[p] \in Page /\ Shaped(page[p]) /\ Targeted(page[p])
         /\ wandered = {} => Unmixed(page[p])
         /\ p \in hurried \/ Clean(page[p])
         /\ late = {} => AskedForTarget(page[p])
         /\ wandered \subseteq Pages /\ hurried \subseteq Pages /\ late \subseteq Pages
         /\ edits \in 0..MaxEdits
BY DEF ConfigInv, PageOK, ConfigTypeOK

\* The fields of a page.
LEMMA PageFields ==
  ASSUME NEW r \in Page
  PROVE  /\ r.selected \in Files \cup {NoFile} /\ r.base \in Content \cup {<<>>}
         /\ r.draft \in Content \cup {<<>>} /\ r.dirty \in BOOLEAN /\ r.loading \in BOOLEAN
         /\ r.calls \in 0..MaxCalls
         /\ r.loads \subseteq [file : Files, got : Content \cup {<<>>}, reload : BOOLEAN]
         /\ r.save \in Writing /\ r.dialog \in [file : Files \cup {NoFile}, shown : BOOLEAN]
         /\ r.listing \in BOOLEAN /\ r.prompt \in Prompt
BY DEF Page

\* Nothing was applied: what was, was for its agent.
LEMMA NothingApplied ==
  ASSUME ConfigInv, applied' = applied, Remembered
  PROVE  PromptsArrive'
BY DEF ConfigInv, PromptsArrive, Remembered

\* A step after which the same is remembered.
LEMMA QuietStep ==
  ASSUME ConfigInv, NEW p \in Pages, NEW r \in Page, page' = [page EXCEPT ![p] = r],
         UNCHANGED <<serverVars, pastVars>>,
         r.save.step = "kept" => r.save = page[p].save,
         Shaped(r), Targeted(r), wandered = {} => Unmixed(r),
         p \in hurried \/ Clean(r), late = {} => AskedForTarget(r)
  PROVE  ConfigInv'
<1>1. UNCHANGED <<disk, versions, overlapped, edits, wandered, hurried, agent, applied, late>>
  BY DEF serverVars, pastVars, dialogVars
<1>2. Remembered /\ PromptsArrive'
  BY <1>1, PageIs, NothingApplied DEF Remembered
<1> QED BY <1>1, <1>2, PageStep

\* What a page shows once content has come, of which the dialog on an agent hears.
LEMMA ContentComes ==
  ASSUME NEW r \in Page, NEW content \in Content,
         NEW q \in {SetAllConfigs(SetFileContent(r, content))}
  PROVE  /\ q \in Page /\ q.base = content
         /\ q.draft = content \/ (q.draft = r.draft /\ q.dirty = r.dirty /\ r.base = content)
         /\ q.selected = r.selected /\ q.save = r.save /\ q.dialog = r.dialog
         /\ q.loads = r.loads /\ q.prompt.open = r.prompt.open
         /\ q.prompt.asked = r.prompt.asked /\ q.prompt.over = r.prompt.over
         /\ q.prompt.target # NoAgent => q.prompt.target = r.prompt.target /\ r.base = content
         /\ q.prompt.open => q.prompt.got = Unasked
<1> DEFINE s == SetFileContent(r, content)
<1>1. /\ s \in Page /\ s.base = content
      /\ s.draft = content \/ (s.draft = r.draft /\ s.dirty = r.dirty /\ r.base = content)
      /\ s.selected = r.selected /\ s.save = r.save /\ s.dialog = r.dialog
      /\ s.loads = r.loads /\ s.prompt.open = r.prompt.open
      /\ s.prompt.asked = r.prompt.asked /\ s.prompt.over = r.prompt.over
      /\ s.prompt.target # NoAgent => s.prompt.target = r.prompt.target /\ r.base = content
  <2>1. CASE content = r.base
    BY <2>1 DEF SetFileContent
  <2>2. CASE content # r.base
    <3> DEFINE d == [r.prompt EXCEPT !.target = NoAgent]
    <3>1. d \in Prompt /\ d.target = NoAgent /\ d.open = r.prompt.open /\ d.asked = r.prompt.asked
          /\ d.over = r.prompt.over
      BY PageFields DEF Prompt
    <3>2. s = [r EXCEPT !.base = content, !.draft = content, !.dirty = FALSE, !.prompt = d]
      BY <2>2 DEF SetFileContent
    <3> HIDE DEF d, s
    <3> QED BY <3>1, <3>2 DEF Page
  <2> QED BY <2>1, <2>2
<1> HIDE DEF s
<1>2. CASE s.prompt.open
  <2> DEFINE d == [s.prompt EXCEPT !.got = Unasked]
  <2>1. /\ d \in Prompt /\ d.target = s.prompt.target /\ d.open = s.prompt.open
        /\ d.asked = s.prompt.asked /\ d.over = s.prompt.over /\ d.got = Unasked
    BY <1>1, PageFields DEF Prompt
  <2>2. q = [s EXCEPT !.prompt = d]
    BY <1>2 DEF SetAllConfigs, Emptied, s
  <2> HIDE DEF d
  <2> QED BY <1>1, <2>1, <2>2 DEF Page
<1>3. CASE ~s.prompt.open
  <2>1. q = s
    BY <1>3 DEF SetAllConfigs, s
  <2> QED BY <1>1, <1>3, <2>1
<1> QED BY <1>2, <1>3

LEMMA LoadKeeps ==
  ASSUME ConfigInv, NEW p \in Pages, NEW f \in Files, NEW reload \in BOOLEAN, Load(p, f, reload)
  PROVE  ConfigInv'
<1> DEFINE r == [page[p] EXCEPT !.loading = TRUE, !.calls = @ + 1,
                   !.loads = @ \cup {[file |-> f, got |-> <<>>, reload |-> reload]}]
<1>1. /\ page' = [page EXCEPT ![p] = r] /\ page[p].calls < MaxCalls
      /\ UNCHANGED <<serverVars, pastVars>>
  BY DEF Load, Change
<1>2. page[p] \in Page
  BY PageIs
<1>3. r \in Page
  <2>1. page[p].calls + 1 \in 0..MaxCalls
    BY <1>1, <1>2, PageFields, ConfigAssumption
  <2>2. page[p].loads \cup {[file |-> f, got |-> <<>>, reload |-> reload]}
          \in SUBSET [file : Files, got : Content \cup {<<>>}, reload : BOOLEAN]
    BY <1>2, PageFields
  <2> QED BY <1>2, <2>1, <2>2 DEF Page
<1>4. /\ r.selected = page[p].selected /\ r.base = page[p].base /\ r.draft = page[p].draft
      /\ r.dirty = page[p].dirty /\ r.save = page[p].save /\ r.dialog = page[p].dialog
      /\ r.prompt = page[p].prompt
      /\ r.loads = page[p].loads \cup {[file |-> f, got |-> <<>>, reload |-> reload]}
  BY <1>2 DEF Page
<1> HIDE DEF r
<1>5. Shaped(r) /\ Targeted(r)
  BY <1>4, PageIs DEF Shaped, Targeted
<1>6. wandered = {} => Unmixed(r)
  BY <1>4, PageIs DEF Unmixed
<1>7. p \in hurried \/ Clean(r)
  BY <1>4, PageIs DEF Clean
<1>8. late = {} => AskedForTarget(r)
  BY <1>4, PageIs DEF AskedForTarget
<1> QED BY <1>1, <1>3, <1>4, <1>5, <1>6, <1>7, <1>8, QuietStep

\* A page that only loads, counts or lists differently shows the same.
LEMMA SameShown ==
  ASSUME ConfigInv, NEW p \in Pages, NEW r \in Page, page' = [page EXCEPT ![p] = r],
         UNCHANGED <<serverVars, pastVars>>,
         r.selected = page[p].selected, r.base = page[p].base, r.draft = page[p].draft,
         r.dirty = page[p].dirty, r.save = page[p].save, r.dialog.file = page[p].dialog.file,
         r.dialog.file = NoFile => r.dialog = NoDialog,
         r.prompt = page[p].prompt \/ (r.prompt = [page[p].prompt EXCEPT !.got = Unasked]),
         wandered = {} => \A l \in r.loads : l.got # <<>> => l.got[1] = l.file
  PROVE  ConfigInv'
<1>1. /\ r.prompt.open = page[p].prompt.open /\ r.prompt.target = page[p].prompt.target
      /\ r.prompt.over = page[p].prompt.over /\ r.prompt.asked = page[p].prompt.asked
      /\ r.prompt.got = page[p].prompt.got \/ r.prompt.got = Unasked
  BY PageIs, PageFields DEF Prompt
<1>2. Shaped(r)
  BY PageIs DEF Shaped, NoDialog
<1>3. Targeted(r)
  BY <1>1, PageIs DEF Targeted
<1>4. wandered = {} => Unmixed(r)
  BY PageIs DEF Unmixed
<1>5. p \in hurried \/ Clean(r)
  BY PageIs DEF Clean
<1>6. late = {} => AskedForTarget(r)
  BY <1>1, PageIs DEF AskedForTarget
<1> QED BY <1>2, <1>3, <1>4, <1>5, <1>6, QuietStep

LEMMA ReadFileKeeps ==
  ASSUME ConfigInv, NEW p \in Pages, ReadFile(p)
  PROVE  ConfigInv'
<1>1. PICK l \in page[p].loads :
        /\ page' = [page EXCEPT ![p] = [page[p] EXCEPT !.loads = (@ \ {l}) \cup {[l EXCEPT !.got = disk[l.file]]}]]
        /\ UNCHANGED <<serverVars, pastVars>>
  BY DEF ReadFile, Change
<1> DEFINE k == [l EXCEPT !.got = disk[l.file]]
           r == [page[p] EXCEPT !.loads = (@ \ {l}) \cup {k}]
<1>2. page[p] \in Page
  BY PageIs
<1>3. /\ l \in [file : Files, got : Content \cup {<<>>}, reload : BOOLEAN]
      /\ page[p].loads \subseteq [file : Files, got : Content \cup {<<>>}, reload : BOOLEAN]
  BY <1>2, PageFields
<1>4. disk[l.file] \in Content
  BY <1>3 DEF ConfigInv, ConfigTypeOK
<1>5. /\ k \in [file : Files, got : Content \cup {<<>>}, reload : BOOLEAN]
      /\ k.file = l.file /\ k.got = disk[l.file]
  BY <1>3, <1>4
<1> HIDE DEF k
<1>6. (page[p].loads \ {l}) \cup {k} \in SUBSET [file : Files, got : Content \cup {<<>>}, reload : BOOLEAN]
  BY <1>3, <1>5
<1>7. r \in Page
  BY <1>2, <1>6 DEF Page
<1>8. /\ r.selected = page[p].selected /\ r.base = page[p].base /\ r.draft = page[p].draft
      /\ r.dirty = page[p].dirty /\ r.save = page[p].save /\ r.dialog = page[p].dialog
      /\ r.prompt = page[p].prompt /\ r.loads = (page[p].loads \ {l}) \cup {k}
  BY <1>2 DEF Page
<1>9. page' = [page EXCEPT ![p] = r] /\ UNCHANGED <<serverVars, pastVars>>
  BY <1>1 DEF k
<1> HIDE DEF r
<1>10. wandered = {} => \A m \in r.loads : m.got # <<>> => m.got[1] = m.file
  <2>1. wandered = {} => k.got[1] = k.file
    BY <1>3, <1>5 DEF ConfigInv, FilesUnmixed
  <2> QED BY <1>8, <2>1, PageIs DEF Unmixed
<1>11. r.dialog.file = NoFile => r.dialog = NoDialog
  BY <1>8, PageIs DEF Shaped
<1> QED BY <1>7, <1>8, <1>9, <1>10, <1>11, SameShown

LEMMA LoadFailsKeeps ==
  ASSUME ConfigInv, NEW p \in Pages, NEW l \in page[p].loads, LoadFails(p, l)
  PROVE  ConfigInv'
<1> DEFINE r == [page[p] EXCEPT !.loading = FALSE, !.loads = @ \ {l}]
<1>1. page' = [page EXCEPT ![p] = r] /\ UNCHANGED <<serverVars, pastVars>>
  BY DEF LoadFails, Change
<1>2. page[p] \in Page
  BY PageIs
<1>3. page[p].loads \ {l} \in SUBSET [file : Files, got : Content \cup {<<>>}, reload : BOOLEAN]
  BY <1>2, PageFields
<1>4. r \in Page
  BY <1>2, <1>3 DEF Page
<1>5. /\ r.selected = page[p].selected /\ r.base = page[p].base /\ r.draft = page[p].draft
      /\ r.dirty = page[p].dirty /\ r.save = page[p].save /\ r.dialog = page[p].dialog
      /\ r.prompt = page[p].prompt /\ r.loads = page[p].loads \ {l}
  BY <1>2 DEF Page
<1> HIDE DEF r
<1>6. wandered = {} => \A m \in r.loads : m.got # <<>> => m.got[1] = m.file
  BY <1>5, PageIs DEF Unmixed
<1>7. r.dialog.file = NoFile => r.dialog = NoDialog
  BY <1>5, PageIs DEF Shaped
<1> QED BY <1>1, <1>4, <1>5, <1>6, <1>7, SameShown

LEMMA ShowHistoryKeeps ==
  ASSUME ConfigInv, NEW p \in Pages, ShowHistory(p)
  PROVE  ConfigInv'
<1> DEFINE d == [page[p].dialog EXCEPT !.shown = TRUE]
           r == [page[p] EXCEPT !.dialog = d]
<1>1. /\ page' = [page EXCEPT ![p] = r] /\ page[p].dialog.file # NoFile
      /\ UNCHANGED <<serverVars, pastVars>>
  BY DEF ShowHistory, Change
<1>2. page[p] \in Page
  BY PageIs
<1>3. d \in [file : Files \cup {NoFile}, shown : BOOLEAN] /\ d.file = page[p].dialog.file
  BY <1>2, PageFields
<1> HIDE DEF d
<1>4. r \in Page
  BY <1>2, <1>3 DEF Page
<1>5. /\ r.selected = page[p].selected /\ r.base = page[p].base /\ r.draft = page[p].draft
      /\ r.dirty = page[p].dirty /\ r.save = page[p].save /\ r.dialog = d
      /\ r.prompt = page[p].prompt /\ r.loads = page[p].loads
  BY <1>2 DEF Page
<1> HIDE DEF r
<1>6. wandered = {} => \A m \in r.loads : m.got # <<>> => m.got[1] = m.file
  BY <1>5, PageIs DEF Unmixed
<1> QED BY <1>1, <1>3, <1>4, <1>5, <1>6, SameShown

LEMMA FilesListedKeeps ==
  ASSUME ConfigInv, NEW p \in Pages, FilesListed(p)
  PROVE  ConfigInv'
<1>1. PICK ok \in BOOLEAN :
        /\ page' = [page EXCEPT ![p] = [(IF ok THEN SetAllConfigs(page[p]) ELSE page[p]) EXCEPT !.listing = FALSE]]
        /\ UNCHANGED <<serverVars, pastVars>>
  BY DEF FilesListed, Change
<1> DEFINE d == IF ok /\ page[p].prompt.open THEN [page[p].prompt EXCEPT !.got = Unasked] ELSE page[p].prompt
           r == [page[p] EXCEPT !.prompt = d, !.listing = FALSE]
<1>2. page[p] \in Page /\ page[p].prompt \in Prompt
  BY PageIs, PageFields
<1>3. d \in Prompt /\ (d = page[p].prompt \/ d = [page[p].prompt EXCEPT !.got = Unasked])
  BY <1>2 DEF Prompt
<1>4. page' = [page EXCEPT ![p] = r]
  <2>1. CASE ok /\ page[p].prompt.open
    BY <1>1, <2>1 DEF SetAllConfigs, Emptied
  <2>2. CASE ~(ok /\ page[p].prompt.open)
    <3>1. [page[p] EXCEPT !.listing = FALSE] = r
      BY <1>2, <2>2 DEF Page
    <3> QED BY <1>1, <2>2, <3>1 DEF SetAllConfigs
  <2> QED BY <2>1, <2>2
<1> HIDE DEF d
<1>5. r \in Page
  BY <1>2, <1>3 DEF Page
<1>6. /\ r.selected = page[p].selected /\ r.base = page[p].base /\ r.draft = page[p].draft
      /\ r.dirty = page[p].dirty /\ r.save = page[p].save /\ r.dialog = page[p].dialog
      /\ r.prompt = d /\ r.loads = page[p].loads
  BY <1>2 DEF Page
<1> HIDE DEF r
<1>7. wandered = {} => \A m \in r.loads : m.got # <<>> => m.got[1] = m.file
  BY <1>6, PageIs DEF Unmixed
<1>8. r.dialog.file = NoFile => r.dialog = NoDialog
  BY <1>6, PageIs DEF Shaped
<1> QED BY <1>1, <1>3, <1>4, <1>5, <1>6, <1>7, <1>8, SameShown

LEMMA LoadedKeeps ==
  ASSUME ConfigInv, NEW p \in Pages, NEW l \in page[p].loads, Loaded(p, l)
  PROVE  ConfigInv'
<1> DEFINE q == SetAllConfigs(SetFileContent(page[p], l.got))
           s == IF l.reload THEN [q EXCEPT !.draft = l.got, !.dirty = FALSE] ELSE q
           r == [s EXCEPT !.selected = l.file, !.loading = FALSE, !.loads = @ \ {l}]
<1>1. /\ page' = [page EXCEPT ![p] = r] /\ l.got # <<>> /\ Wanders(p, l.file)
      /\ UNCHANGED <<disk, versions, overlapped, edits, hurried, agent, applied, late>>
  BY DEF Loaded, Change, serverVars, dialogVars
<1>2. /\ page[p] \in Page
      /\ l \in [file : Files, got : Content \cup {<<>>}, reload : BOOLEAN]
  BY PageIs, PageFields
<1>3. l.got \in Content /\ l.file \in Files
  BY <1>1, <1>2
<1>4. /\ q \in Page /\ q.base = l.got
      /\ q.draft = l.got \/ (q.draft = page[p].draft /\ q.dirty = page[p].dirty /\ page[p].base = l.got)
      /\ q.selected = page[p].selected /\ q.save = page[p].save /\ q.dialog = page[p].dialog
      /\ q.loads = page[p].loads /\ q.prompt.open = page[p].prompt.open
      /\ q.prompt.asked = page[p].prompt.asked /\ q.prompt.over = page[p].prompt.over
      /\ q.prompt.target # NoAgent => q.prompt.target = page[p].prompt.target /\ page[p].base = l.got
      /\ q.prompt.open => q.prompt.got = Unasked
  BY <1>2, <1>3, ContentComes
<1> HIDE DEF q
<1>5. /\ s \in Page /\ s.base = l.got
      /\ s.draft = l.got \/ (s.draft = page[p].draft /\ page[p].base = l.got)
      /\ (s.dirty = FALSE /\ s.draft = l.got) \/ (s.draft = q.draft /\ s.dirty = q.dirty)
      /\ s.selected = page[p].selected /\ s.save = page[p].save /\ s.dialog = page[p].dialog
      /\ s.loads = page[p].loads /\ s.prompt = q.prompt
  <2>1. CASE l.reload
    <3>1. s = [q EXCEPT !.draft = l.got, !.dirty = FALSE]
      BY <2>1
    <3> HIDE DEF s
    <3> QED BY <1>3, <1>4, <3>1 DEF Page
  <2>2. CASE ~l.reload
    BY <1>4, <2>2
  <2> QED BY <2>1, <2>2
<1> HIDE DEF s
<1>6. s.loads \ {l} \in SUBSET [file : Files, got : Content \cup {<<>>}, reload : BOOLEAN]
  BY <1>5, PageFields
<1>7. r \in Page
  BY <1>3, <1>5, <1>6 DEF Page
<1>8. /\ r.selected = l.file /\ r.base = l.got /\ r.draft = s.draft /\ r.dirty = s.dirty
      /\ r.save = page[p].save /\ r.dialog = page[p].dialog /\ r.prompt = q.prompt
      /\ r.loads = page[p].loads \ {l}
  BY <1>5 DEF Page
<1> HIDE DEF r
<1>9. r.draft \in Content /\ r.base \in Content /\ r.selected # NoFile
  <2>1. page[p].base = l.got => page[p].draft \in Content
    <3>1. <<>> \notin Content
      BY DEF Content
    <3> QED BY <1>3, <3>1, PageIs DEF Shaped
  <2> QED BY <1>3, <1>5, <1>8, <2>1, ConfigAssumption DEF NoFile
<1>10. Shaped(r)
  BY <1>8, <1>9, PageIs DEF Shaped
<1>11. Targeted(r)
  BY <1>4, <1>8, PageIs DEF Targeted
<1>12. wandered \subseteq wandered' /\ wandered' \subseteq Pages
  BY <1>1, PageIs DEF Wanders
<1>13. ASSUME wandered' = {} PROVE Unmixed(r)
  <2>1. wandered = {} /\ Unmixed(page[p])
    BY <1>12, <1>13, PageIs
  <2>2. l.file = page[p].selected \/ (page[p].save = NoSave /\ page[p].dialog = NoDialog)
    BY <1>1, <1>13 DEF Wanders
  <2>3. l.got[1] = l.file
    BY <1>1, <2>1 DEF Unmixed
  <2>4. page[p].base = l.got => page[p].draft[1] = l.file
    <3>1. <<>> \notin Content
      BY DEF Content
    <3>2. page[p].base = l.got => page[p].selected # NoFile
      BY <1>3, <3>1, PageIs DEF Shaped
    <3> QED BY <2>1, <2>3, <3>2 DEF Unmixed
  <2>5. r.draft[1] = r.selected /\ r.base[1] = r.selected
    BY <1>5, <1>8, <2>3, <2>4
  <2>6. \A m \in r.loads : m.got # <<>> => m.got[1] = m.file
    BY <1>8, <2>1 DEF Unmixed
  <2>7. r.save.step # "none" => r.save.content[1] = r.selected /\ r.save.file = r.selected
    BY <1>8, <2>1, <2>2 DEF Unmixed, NoSave
  <2>8. r.dialog.file # NoFile => r.dialog.file = r.selected
    BY <1>8, <2>1, <2>2 DEF Unmixed, NoDialog
  <2> QED BY <2>5, <2>6, <2>7, <2>8 DEF Unmixed
<1>14. p \in hurried' \/ Clean(r)
  <2>1. p \in hurried \/ Clean(page[p])
    BY PageIs
  <2>2. r.dirty = FALSE \/ r.dirty = TRUE
    BY <1>7, PageFields
  <2>3. page[p].dirty = FALSE \/ page[p].dirty = TRUE
    BY <1>2, PageFields
  <2> QED BY <1>1, <1>4, <1>5, <1>8, <2>1, <2>2, <2>3 DEF Clean
<1>15. late' = {} => AskedForTarget(r)
  BY <1>1, <1>4, <1>8, PageIs DEF AskedForTarget
<1>16. Remembered /\ PromptsArrive'
  BY <1>1, <1>12, PageIs, NothingApplied DEF Remembered
<1> QED BY <1>1, <1>7, <1>8, <1>10, <1>11, <1>13, <1>14, <1>15, <1>16, PageStep

\* An edit, and a version or a prompt that becomes the draft: the page has changes.
LEMMA DraftStep ==
  ASSUME ConfigInv, NEW p \in Pages, NEW r \in Page, NEW content \in Content,
         page' = [page EXCEPT ![p] = r], UNCHANGED <<serverVars, wandered, agent>>,
         Remembered, PromptsArrive',
         p \in hurried' \/ page[p].save = NoSave,
         page[p].selected # NoFile, r.selected = page[p].selected, r.base = page[p].base,
         r.draft = content, r.dirty = TRUE, r.save = page[p].save, r.loads = page[p].loads,
         r.dialog = page[p].dialog \/ r.dialog = NoDialog,
         wandered = {} => content[1] = page[p].selected,
         Targeted(r), late' = {} => AskedForTarget(r)
  PROVE  ConfigInv'
<1>1. UNCHANGED <<disk, versions, overlapped, agent>>
  BY DEF serverVars
<1>2. Shaped(r)
  BY PageIs DEF Shaped
<1>3. wandered' = {} => Unmixed(r)
  BY PageIs DEF Unmixed, NoDialog
<1>4. p \in hurried' \/ Clean(r)
  BY DEF Clean, NoSave
<1> QED BY <1>1, <1>2, <1>3, <1>4, PageStep

LEMMA EditKeeps ==
  ASSUME ConfigInv, NEW p \in Pages, Edit(p)
  PROVE  ConfigInv'
<1> DEFINE content == <<page[p].draft[1], edits + 1>>
           r == [page[p] EXCEPT !.draft = content, !.dirty = TRUE]
<1>1. /\ page' = [page EXCEPT ![p] = r] /\ page[p].selected # NoFile
      /\ edits < MaxEdits /\ edits' = edits + 1
      /\ hurried' = IF page[p].save # NoSave THEN hurried \cup {p} ELSE hurried
      /\ UNCHANGED <<serverVars, wandered, agent, applied, late>>
  BY DEF Edit, Change, dialogVars
<1>2. page[p] \in Page
  BY PageIs
<1>3. Remembered
  BY <1>1, PageIs, ConfigAssumption DEF Remembered
<1>4. content \in Content /\ content[1] = page[p].draft[1]
  <2>1. page[p].draft \in Content
    BY <1>1, PageIs DEF Shaped
  <2>2. edits + 1 \in 0..MaxEdits
    BY <1>1, <1>3 DEF Remembered
  <2> QED BY <2>1, <2>2 DEF Content
<1> HIDE DEF content
<1>5. r \in Page
  BY <1>2, <1>4 DEF Page
<1>6. /\ r.selected = page[p].selected /\ r.base = page[p].base /\ r.draft = content
      /\ r.dirty = TRUE /\ r.save = page[p].save /\ r.dialog = page[p].dialog
      /\ r.prompt = page[p].prompt /\ r.loads = page[p].loads
  BY <1>2 DEF Page
<1> HIDE DEF r
<1>7. wandered = {} => content[1] = page[p].selected
  BY <1>1, <1>4, PageIs DEF Unmixed
<1>8. Targeted(r) /\ (late' = {} => AskedForTarget(r))
  BY <1>1, <1>6, PageIs DEF Targeted, AskedForTarget
<1>9. PromptsArrive' /\ (p \in hurried' \/ page[p].save = NoSave)
  BY <1>1, <1>3, NothingApplied
<1> QED BY <1>1, <1>3, <1>4, <1>5, <1>6, <1>7, <1>8, <1>9, DraftStep

LEMMA RestoreVersionKeeps ==
  ASSUME ConfigInv, NEW p \in Pages, NEW content, RestoreVersion(p, content)
  PROVE  ConfigInv'
<1> DEFINE r == [page[p] EXCEPT !.draft = content, !.dirty = TRUE, !.dialog = NoDialog]
<1>1. /\ page' = [page EXCEPT ![p] = r] /\ page[p].dialog.shown
      /\ content \in versions[page[p].dialog.file]
      /\ hurried' = IF page[p].save # NoSave THEN hurried \cup {p} ELSE hurried
      /\ UNCHANGED <<serverVars, edits, wandered, agent, applied, late>>
  BY DEF RestoreVersion, Change, dialogVars
<1>2. page[p] \in Page /\ page[p].dialog \in [file : Files \cup {NoFile}, shown : BOOLEAN]
  BY PageIs, PageFields
<1>3. page[p].dialog.file # NoFile /\ page[p].dialog.file \in Files /\ page[p].selected # NoFile
  BY <1>1, <1>2, PageIs DEF Shaped, NoDialog
<1>4. content \in Content
  BY <1>1, <1>3 DEF ConfigInv, ConfigTypeOK
<1>5. r \in Page
  BY <1>2, <1>4 DEF Page, NoDialog
<1>6. /\ r.selected = page[p].selected /\ r.base = page[p].base /\ r.draft = content
      /\ r.dirty = TRUE /\ r.save = page[p].save /\ r.dialog = NoDialog
      /\ r.prompt = page[p].prompt /\ r.loads = page[p].loads
  BY <1>2 DEF Page
<1> HIDE DEF r
<1>7. wandered = {} => content[1] = page[p].selected
  BY <1>1, <1>3, PageIs DEF Unmixed, ConfigInv, FilesUnmixed
<1>8. Targeted(r) /\ (late' = {} => AskedForTarget(r))
  BY <1>1, <1>6, PageIs DEF Targeted, AskedForTarget
<1>9. Remembered /\ PromptsArrive' /\ (p \in hurried' \/ page[p].save = NoSave)
  BY <1>1, PageIs, NothingApplied DEF Remembered
<1> QED BY <1>1, <1>3, <1>4, <1>5, <1>6, <1>7, <1>8, <1>9, DraftStep

LEMMA SaveKeeps ==
  ASSUME ConfigInv, NEW p \in Pages, Save(p)
  PROVE  ConfigInv'
<1> DEFINE w == [step |-> "sent", file |-> page[p].selected, content |-> page[p].draft]
           r == [page[p] EXCEPT !.calls = @ + 1, !.save = w]
<1>1. /\ page' = [page EXCEPT ![p] = r] /\ page[p].calls < MaxCalls
      /\ page[p].selected # NoFile /\ UNCHANGED <<serverVars, pastVars>>
  BY DEF Save, Change
<1>2. page[p] \in Page
  BY PageIs
<1>3. /\ page[p].selected \in Files /\ page[p].draft \in Content /\ page[p].base \in Content
      /\ page[p].calls + 1 \in 0..MaxCalls
  BY <1>1, <1>2, PageFields, PageIs, ConfigAssumption DEF Shaped
<1>4. w \in Writing /\ w.step = "sent" /\ w.file = page[p].selected /\ w.content = page[p].draft
  BY <1>3 DEF Writing
<1> HIDE DEF w
<1>5. r \in Page
  BY <1>2, <1>3, <1>4 DEF Page
<1>6. /\ r.selected = page[p].selected /\ r.base = page[p].base /\ r.draft = page[p].draft
      /\ r.dirty = page[p].dirty /\ r.save = w /\ r.dialog = page[p].dialog
      /\ r.prompt = page[p].prompt /\ r.loads = page[p].loads
  BY <1>2 DEF Page
<1> HIDE DEF r
<1>7. Shaped(r)
  BY <1>1, <1>3, <1>4, <1>6, PageIs DEF Shaped
<1>8. wandered = {} => Unmixed(r)
  BY <1>1, <1>4, <1>6, PageIs DEF Unmixed
<1>9. p \in hurried \/ Clean(r)
  BY <1>4, <1>6, PageIs DEF Clean
<1>10. Targeted(r) /\ (late = {} => AskedForTarget(r))
  BY <1>6, PageIs DEF Targeted, AskedForTarget
<1>11. r.save.step = "kept" => r.save = page[p].save
  BY <1>4, <1>6
<1> QED BY <1>1, <1>5, <1>7, <1>8, <1>9, <1>10, <1>11, QuietStep

LEMMA AskHistoryKeeps ==
  ASSUME ConfigInv, NEW p \in Pages, AskHistory(p)
  PROVE  ConfigInv'
<1> DEFINE d == [file |-> page[p].selected, shown |-> FALSE]
           r == [page[p] EXCEPT !.calls = @ + 1, !.dialog = d]
<1>1. /\ page' = [page EXCEPT ![p] = r] /\ page[p].calls < MaxCalls
      /\ page[p].selected # NoFile /\ UNCHANGED <<serverVars, pastVars>>
  BY DEF AskHistory, Change
<1>2. page[p] \in Page
  BY PageIs
<1>3. page[p].selected \in Files /\ page[p].calls + 1 \in 0..MaxCalls
  BY <1>1, <1>2, PageFields, ConfigAssumption
<1>4. d \in [file : Files \cup {NoFile}, shown : BOOLEAN] /\ d.file = page[p].selected
  BY <1>3
<1> HIDE DEF d
<1>5. r \in Page
  BY <1>2, <1>3, <1>4 DEF Page
<1>6. /\ r.selected = page[p].selected /\ r.base = page[p].base /\ r.draft = page[p].draft
      /\ r.dirty = page[p].dirty /\ r.save = page[p].save /\ r.dialog = d
      /\ r.prompt = page[p].prompt /\ r.loads = page[p].loads
  BY <1>2 DEF Page
<1> HIDE DEF r
<1>7. Shaped(r)
  BY <1>1, <1>4, <1>6, PageIs DEF Shaped
<1>8. wandered = {} => Unmixed(r)
  BY <1>4, <1>6, PageIs DEF Unmixed
<1>9. p \in hurried \/ Clean(r)
  BY <1>6, PageIs DEF Clean
<1>10. Targeted(r) /\ (late = {} => AskedForTarget(r))
  BY <1>6, PageIs DEF Targeted, AskedForTarget
<1> QED BY <1>1, <1>5, <1>6, <1>7, <1>8, <1>9, <1>10, QuietStep

LEMMA CloseHistoryKeeps ==
  ASSUME ConfigInv, NEW p \in Pages, CloseHistory(p)
  PROVE  ConfigInv'
<1> DEFINE r == [page[p] EXCEPT !.dialog = NoDialog]
<1>1. page' = [page EXCEPT ![p] = r] /\ UNCHANGED <<serverVars, pastVars>>
  BY DEF CloseHistory, Change
<1>2. page[p] \in Page
  BY PageIs
<1>3. r \in Page
  BY <1>2 DEF Page, NoDialog
<1>4. /\ r.selected = page[p].selected /\ r.base = page[p].base /\ r.draft = page[p].draft
      /\ r.dirty = page[p].dirty /\ r.save = page[p].save /\ r.dialog = NoDialog
      /\ r.prompt = page[p].prompt /\ r.loads = page[p].loads
  BY <1>2 DEF Page
<1> HIDE DEF r
<1>5. Shaped(r)
  BY <1>4, PageIs DEF Shaped
<1>6. wandered = {} => Unmixed(r)
  BY <1>4, PageIs DEF Unmixed, NoDialog
<1>7. p \in hurried \/ Clean(r)
  BY <1>4, PageIs DEF Clean
<1>8. Targeted(r) /\ (late = {} => AskedForTarget(r))
  BY <1>4, PageIs DEF Targeted, AskedForTarget
<1> QED BY <1>1, <1>3, <1>4, <1>5, <1>6, <1>7, <1>8, QuietStep

LEMMA WriteFailsKeeps ==
  ASSUME ConfigInv, NEW p \in Pages, WriteFails(p)
  PROVE  ConfigInv'
<1> DEFINE r == [page[p] EXCEPT !.save = NoSave]
<1>1. /\ page' = [page EXCEPT ![p] = r]
      /\ UNCHANGED <<serverVars, pastVars>>
  <2>1. p # Agent
    BY ConfigAssumption DEF Agent
  <2> QED BY <2>1 DEF WriteFails, SetWrite, serverVars, pastVars, dialogVars
<1>2. page[p] \in Page
  BY PageIs
<1>3. r \in Page
  BY <1>2 DEF Page, NoSave, Writing
<1>4. /\ r.selected = page[p].selected /\ r.base = page[p].base /\ r.draft = page[p].draft
      /\ r.dirty = page[p].dirty /\ r.save = NoSave /\ r.dialog = page[p].dialog
      /\ r.prompt = page[p].prompt /\ r.loads = page[p].loads
  BY <1>2 DEF Page
<1> HIDE DEF r
<1>5. Shaped(r)
  BY <1>4, PageIs DEF Shaped, NoSave
<1>6. wandered = {} => Unmixed(r)
  BY <1>4, PageIs DEF Unmixed, NoSave
<1>7. p \in hurried \/ Clean(r)
  BY <1>4, PageIs DEF Clean, NoSave
<1>8. Targeted(r) /\ (late = {} => AskedForTarget(r))
  BY <1>4, PageIs DEF Targeted, AskedForTarget
<1>9. r.save.step = "kept" => r.save = page[p].save
  BY <1>4 DEF NoSave
<1> QED BY <1>1, <1>3, <1>5, <1>6, <1>7, <1>8, <1>9, QuietStep

LEMMA SavedKeeps ==
  ASSUME ConfigInv, NEW p \in Pages, Saved(p)
  PROVE  ConfigInv'
<1> DEFINE content == page[p].save.content
           q == SetAllConfigs(SetFileContent(page[p], content))
           r == [q EXCEPT !.dirty = FALSE, !.save = NoSave, !.listing = TRUE]
<1>1. /\ page' = [page EXCEPT ![p] = r] /\ page[p].save.step = "written"
      /\ UNCHANGED <<serverVars, pastVars>>
  BY DEF Saved, Change
<1>2. page[p] \in Page /\ content \in Content
  BY <1>1, PageIs DEF Shaped
<1> HIDE DEF content
<1>3. /\ q \in Page /\ q.base = content
      /\ q.draft = content \/ (q.draft = page[p].draft /\ q.dirty = page[p].dirty /\ page[p].base = content)
      /\ q.selected = page[p].selected /\ q.save = page[p].save /\ q.dialog = page[p].dialog
      /\ q.loads = page[p].loads /\ q.prompt.open = page[p].prompt.open
      /\ q.prompt.asked = page[p].prompt.asked /\ q.prompt.over = page[p].prompt.over
      /\ q.prompt.target # NoAgent => q.prompt.target = page[p].prompt.target /\ page[p].base = content
      /\ q.prompt.open => q.prompt.got = Unasked
  BY <1>2, ContentComes
<1> HIDE DEF q
<1>4. r \in Page
  BY <1>3 DEF Page, NoSave, Writing
<1>5. /\ r.selected = page[p].selected /\ r.base = content /\ r.draft = q.draft /\ r.dirty = FALSE
      /\ r.save = NoSave /\ r.dialog = page[p].dialog /\ r.prompt = q.prompt
      /\ r.loads = page[p].loads
  BY <1>3 DEF Page
<1> HIDE DEF r
<1>6. Shaped(r)
  <2>1. page[p].selected # NoFile
    BY <1>1, PageIs DEF Shaped, NoSave
  <2>2. q.draft \in Content
    BY <1>2, <1>3, <2>1, PageIs DEF Shaped
  <2> QED BY <1>2, <1>5, <2>1, <2>2, PageIs DEF Shaped, NoSave
<1>7. wandered = {} => Unmixed(r)
  <2> SUFFICES ASSUME wandered = {} PROVE Unmixed(r)
    OBVIOUS
  <2>1. content[1] = page[p].selected
    BY <1>1, PageIs DEF Unmixed, content
  <2> QED BY <1>3, <1>5, <2>1, PageIs DEF Unmixed, NoSave
<1>8. p \in hurried \/ Clean(r)
  <2> SUFFICES ASSUME p \notin hurried PROVE Clean(r)
    OBVIOUS
  <2>1. page[p].draft = content \/ page[p].draft = page[p].base
    BY <1>1, PageIs DEF Clean, content
  <2> QED BY <1>3, <1>5, <2>1 DEF Clean, NoSave
<1>9. Targeted(r)
  BY <1>3, <1>5, PageIs DEF Targeted
<1>10. late = {} => AskedForTarget(r)
  BY <1>3, <1>5, PageIs DEF AskedForTarget
<1>11. r.save.step # "kept"
  BY <1>5 DEF NoSave
<1> QED BY <1>1, <1>4, <1>6, <1>7, <1>8, <1>9, <1>10, <1>11, QuietStep

\* A step of the dialog on an agent.
LEMMA DialogStep ==
  ASSUME ConfigInv, NEW p \in Pages, NEW r \in Page, page' = [page EXCEPT ![p] = r],
         UNCHANGED <<serverVars, pastVars>>,
         r.selected = page[p].selected, r.base = page[p].base, r.draft = page[p].draft,
         r.dirty = page[p].dirty, r.save = page[p].save, r.dialog = page[p].dialog,
         r.loads = page[p].loads,
         Targeted(r), late = {} => AskedForTarget(r)
  PROVE  ConfigInv'
<1>1. Shaped(r)
  BY PageIs DEF Shaped
<1>2. wandered = {} => Unmixed(r)
  BY PageIs DEF Unmixed
<1>3. p \in hurried \/ Clean(r)
  BY PageIs DEF Clean
<1> QED BY <1>1, <1>2, <1>3, QuietStep

LEMMA OpenPromptKeeps ==
  ASSUME ConfigInv, NEW p \in Pages, NEW a \in Agents \cup {NoAgent}, OpenPrompt(p, a)
  PROVE  ConfigInv'
<1> DEFINE d == [page[p].prompt EXCEPT !.got = Unasked, !.open = TRUE, !.target = a, !.over = page[p].base]
           r == [page[p] EXCEPT !.prompt = d]
<1>1. /\ page' = [page EXCEPT ![p] = r] /\ page[p].prompt.open = FALSE
      /\ UNCHANGED <<serverVars, pastVars>>
  <2>1. page[p] \in Page /\ page[p].prompt \in Prompt
    BY PageIs, PageFields
  <2>2. page[p].prompt.open = FALSE
    BY <2>1 DEF OpenPrompt, AtEditor, Prompt
  <2>3. [Emptied(page[p]) EXCEPT !.prompt.open = TRUE, !.prompt.target = a, !.prompt.over = page[p].base] = r
    BY <2>1 DEF Emptied, Page, Prompt
  <2> QED BY <2>2, <2>3 DEF OpenPrompt, Change
<1>2. page[p] \in Page /\ page[p].prompt \in Prompt /\ page[p].base \in Content \cup {<<>>}
  BY PageIs, PageFields
<1>3. /\ d \in Prompt /\ d.got = Unasked /\ d.open = TRUE /\ d.target = a /\ d.over = page[p].base
      /\ d.asked = page[p].prompt.asked
  BY <1>2 DEF Prompt
<1> HIDE DEF d
<1>4. r \in Page
  BY <1>2, <1>3 DEF Page
<1>5. /\ r.selected = page[p].selected /\ r.base = page[p].base /\ r.draft = page[p].draft
      /\ r.dirty = page[p].dirty /\ r.save = page[p].save /\ r.dialog = page[p].dialog
      /\ r.prompt = d /\ r.loads = page[p].loads
  BY <1>2 DEF Page
<1> HIDE DEF r
<1>6. Targeted(r)
  BY <1>3, <1>5 DEF Targeted
<1>7. late = {} => AskedForTarget(r)
  BY <1>1, <1>3, <1>5, PageIs DEF AskedForTarget
<1> QED BY <1>1, <1>4, <1>5, <1>6, <1>7, DialogStep

LEMMA GenerateKeeps ==
  ASSUME ConfigInv, NEW p \in Pages, Generate(p)
  PROVE  ConfigInv'
<1> DEFINE d == [page[p].prompt EXCEPT !.asked = page[p].prompt.target]
           r == [page[p] EXCEPT !.calls = @ + 1, !.prompt = d]
<1>1. /\ page' = [page EXCEPT ![p] = r] /\ page[p].prompt.open
      /\ page[p].calls < MaxCalls /\ UNCHANGED <<serverVars, pastVars>>
  BY DEF Generate, Change
<1>2. page[p] \in Page /\ page[p].prompt \in Prompt /\ page[p].calls + 1 \in 0..MaxCalls
  BY <1>1, PageIs, PageFields, ConfigAssumption
<1>3. /\ d \in Prompt /\ d.got = page[p].prompt.got /\ d.open = page[p].prompt.open
      /\ d.target = page[p].prompt.target /\ d.over = page[p].prompt.over
      /\ d.asked = page[p].prompt.target
  BY <1>2 DEF Prompt
<1> HIDE DEF d
<1>4. r \in Page
  BY <1>2, <1>3 DEF Page
<1>5. /\ r.selected = page[p].selected /\ r.base = page[p].base /\ r.draft = page[p].draft
      /\ r.dirty = page[p].dirty /\ r.save = page[p].save /\ r.dialog = page[p].dialog
      /\ r.prompt = d /\ r.loads = page[p].loads
  BY <1>2 DEF Page
<1> HIDE DEF r
<1>6. Targeted(r)
  BY <1>3, <1>5, PageIs DEF Targeted
<1>7. late = {} => AskedForTarget(r)
  BY <1>1, <1>3, <1>5, PageIs DEF AskedForTarget
<1> QED BY <1>1, <1>4, <1>5, <1>6, <1>7, DialogStep

LEMMA GeneratedKeeps ==
  ASSUME ConfigInv, NEW p \in Pages, Generated(p)
  PROVE  ConfigInv'
<1>1. PICK ok \in BOOLEAN :
        page' = [page EXCEPT ![p] = [page[p] EXCEPT !.prompt.asked = Unasked,
                                       !.prompt.got = IF ok THEN page[p].prompt.asked ELSE @]]
  BY DEF Generated, Change
<1> DEFINE d == [page[p].prompt EXCEPT !.asked = Unasked, !.got = IF ok THEN page[p].prompt.asked ELSE @]
           r == [page[p] EXCEPT !.prompt = d]
<1>2. page[p] \in Page /\ page[p].prompt \in Prompt
  BY PageIs, PageFields
<1>3. page' = [page EXCEPT ![p] = r] /\ page[p].prompt.asked # Unasked /\ UNCHANGED <<serverVars, pastVars>>
  BY <1>1, <1>2 DEF Generated, Page, Prompt
<1>4. /\ d \in Prompt /\ d.open = page[p].prompt.open
      /\ d.target = page[p].prompt.target /\ d.over = page[p].prompt.over
      /\ d.asked = Unasked /\ d.got \in {page[p].prompt.asked, page[p].prompt.got}
  BY <1>2 DEF Prompt
<1> HIDE DEF d
<1>5. r \in Page
  BY <1>2, <1>4 DEF Page
<1>6. /\ r.selected = page[p].selected /\ r.base = page[p].base /\ r.draft = page[p].draft
      /\ r.dirty = page[p].dirty /\ r.save = page[p].save /\ r.dialog = page[p].dialog
      /\ r.prompt = d /\ r.loads = page[p].loads
  BY <1>2 DEF Page
<1> HIDE DEF r
<1>7. Targeted(r)
  BY <1>4, <1>6, PageIs DEF Targeted
<1>8. late = {} => AskedForTarget(r)
  BY <1>3, <1>4, <1>6, PageIs DEF AskedForTarget
<1> QED BY <1>3, <1>5, <1>6, <1>7, <1>8, DialogStep

\* The dialog on an agent closes.
LEMMA ClosedIs ==
  ASSUME ConfigInv, NEW p \in Pages, NEW r \in {Closed(page[p])}
  PROVE  /\ r \in Page /\ r.prompt.open = FALSE /\ r.prompt.target = NoAgent
         /\ r.prompt.asked = page[p].prompt.asked
         /\ r.selected = page[p].selected /\ r.base = page[p].base /\ r.draft = page[p].draft
         /\ r.dirty = page[p].dirty /\ r.save = page[p].save /\ r.dialog = page[p].dialog
         /\ r.loads = page[p].loads /\ Targeted(r)
         /\ page[p].prompt.asked = Unasked => AskedForTarget(r)
<1> DEFINE d == [page[p].prompt EXCEPT !.open = FALSE, !.target = NoAgent]
<1>1. page[p] \in Page /\ page[p].prompt \in Prompt
  BY PageIs, PageFields
<1>2. /\ d \in Prompt /\ d.open = FALSE /\ d.target = NoAgent /\ d.asked = page[p].prompt.asked
  BY <1>1 DEF Prompt
<1>3. r = [page[p] EXCEPT !.prompt = d]
  BY <1>1 DEF Closed
<1> HIDE DEF d
<1>4. /\ r \in Page /\ r.prompt = d
      /\ r.selected = page[p].selected /\ r.base = page[p].base /\ r.draft = page[p].draft
      /\ r.dirty = page[p].dirty /\ r.save = page[p].save /\ r.dialog = page[p].dialog
      /\ r.loads = page[p].loads
  BY <1>1, <1>2, <1>3 DEF Page
<1>5. Targeted(r) /\ (page[p].prompt.asked = Unasked => AskedForTarget(r))
  BY <1>2, <1>4 DEF Targeted, AskedForTarget
<1> QED BY <1>2, <1>4, <1>5

\* The dialog closes, and nothing else happens.
LEMMA ClosingStep ==
  ASSUME ConfigInv, NEW p \in Pages, Change(p, Closed(page[p])), ClosedLate(p),
         UNCHANGED <<serverVars, edits, wandered, hurried, agent, applied>>
  PROVE  ConfigInv'
<1> PICK r \in {Closed(page[p])} : TRUE
  OBVIOUS
<1>1. /\ page' = [page EXCEPT ![p] = r]
      /\ UNCHANGED <<disk, versions, overlapped, agent>>
  BY DEF Change, serverVars
<1>2. Remembered /\ PromptsArrive'
  BY PageIs, NothingApplied DEF Remembered, ClosedLate
<1>3. /\ r \in Page
      /\ r.selected = page[p].selected /\ r.base = page[p].base /\ r.draft = page[p].draft
      /\ r.dirty = page[p].dirty /\ r.save = page[p].save /\ r.dialog = page[p].dialog
      /\ r.loads = page[p].loads /\ Targeted(r)
      /\ page[p].prompt.asked = Unasked => AskedForTarget(r)
  BY ClosedIs
<1>4. Shaped(r)
  BY <1>3, PageIs DEF Shaped
<1>5. wandered' = {} => Unmixed(r)
  BY <1>3, PageIs DEF Unmixed
<1>6. p \in hurried' \/ Clean(r)
  BY <1>3, PageIs DEF Clean
<1>7. late' = {} => AskedForTarget(r)
  BY <1>3 DEF ClosedLate
<1> QED BY <1>1, <1>2, <1>3, <1>4, <1>5, <1>6, <1>7, PageStep

LEMMA ApplyKeeps ==
  ASSUME ConfigInv, NEW p \in Pages, Apply(p)
  PROVE  ConfigInv'
<1>1. CASE page[p].prompt.target = NoAgent \/ page[p].selected # AgentsFile
  BY <1>1, ClosingStep DEF Apply
<1>2. CASE ~(page[p].prompt.target = NoAgent \/ page[p].selected # AgentsFile)
  <2> DEFINE content == <<page[p].draft[1], edits + 1>>
             q == Closed(page[p])
             r == [q EXCEPT !.draft = content, !.dirty = TRUE]
             d == page[p].prompt
             new == [asked |-> d.got, to |-> d.target, same |-> d.over = page[p].base]
  <2>1. /\ q \in Page /\ q.prompt.open = FALSE /\ q.prompt.target = NoAgent
        /\ q.prompt.asked = page[p].prompt.asked
        /\ q.selected = page[p].selected /\ q.base = page[p].base /\ q.draft = page[p].draft
        /\ q.dirty = page[p].dirty /\ q.save = page[p].save /\ q.dialog = page[p].dialog
        /\ q.loads = page[p].loads /\ Targeted(q)
        /\ page[p].prompt.asked = Unasked => AskedForTarget(q)
    BY ClosedIs
  <2>2. /\ page' = [page EXCEPT ![p] = [q EXCEPT !.draft = <<@[1], edits + 1>>, !.dirty = TRUE]]
        /\ d.open /\ d.got # Unasked
        /\ edits < MaxEdits /\ edits' = edits + 1
        /\ hurried' = IF page[p].save # NoSave THEN hurried \cup {p} ELSE hurried
        /\ applied' = applied \cup {new}
        /\ ClosedLate(p) /\ UNCHANGED <<serverVars, wandered, agent>>
    BY <1>2 DEF Apply, Change
  <2> HIDE DEF q
  <2>3. page' = [page EXCEPT ![p] = r]
    <3>1. [q EXCEPT !.draft = <<@[1], edits + 1>>, !.dirty = TRUE] = r
      BY <2>1
    <3> QED BY <2>2, <3>1
  <2>4. page[p].selected # NoFile
    BY <1>2, ConfigAssumption DEF NoFile
  <2>5. Remembered
    BY <2>2, PageIs, ConfigAssumption DEF Remembered, ClosedLate
  <2>6. content \in Content /\ content[1] = page[p].draft[1]
    <3>1. page[p].draft \in Content
      BY <2>4, PageIs DEF Shaped
    <3>2. edits + 1 \in 0..MaxEdits
      BY <2>2, <2>5 DEF Remembered
    <3> QED BY <3>1, <3>2 DEF Content
  <2> HIDE DEF content
  <2>7. r \in Page
    BY <2>1, <2>6 DEF Page
  <2>8. /\ r.selected = page[p].selected /\ r.base = page[p].base
        /\ r.draft = content /\ r.dirty = TRUE /\ r.save = page[p].save
        /\ r.dialog = page[p].dialog /\ r.prompt = q.prompt /\ r.loads = page[p].loads
    BY <2>1 DEF Page
  <2> HIDE DEF r
  <2>9. wandered = {} => content[1] = page[p].selected
    BY <2>4, <2>6, PageIs DEF Unmixed
  <2>10. Targeted(r) /\ (late' = {} => AskedForTarget(r))
    <3>1. late' = {} => AskedForTarget(q)
      BY <2>1, <2>2 DEF ClosedLate
    <3> QED BY <2>1, <2>8, <3>1 DEF Targeted, AskedForTarget
  <2>11. PromptsArrive'
    <3>1. d.over = page[p].base
      BY <1>2, PageIs DEF Targeted
    <3>2. late = {} => d.got = d.target
      BY <1>2, <2>2, PageIs DEF AskedForTarget
    <3>3. late \subseteq late'
      BY <2>5 DEF Remembered
    <3>4. new.same = TRUE /\ new.asked = d.got /\ new.to = d.target
      BY <3>1
    <3> HIDE DEF new
    <3> QED BY <2>2, <3>2, <3>3, <3>4 DEF ConfigInv, PromptsArrive
  <2>12. p \in hurried' \/ page[p].save = NoSave
    BY <2>2
  <2> QED BY <2>2, <2>3, <2>4, <2>5, <2>6, <2>7, <2>8, <2>9, <2>10, <2>11, <2>12, DraftStep
<1> QED BY <1>1, <1>2

LEMMA ClosePromptKeeps ==
  ASSUME ConfigInv, NEW p \in Pages, ClosePrompt(p)
  PROVE  ConfigInv'
BY ClosingStep DEF ClosePrompt

\* A write gets to another step, and stays what it is.
LEMMA MovesOn ==
  ASSUME ConfigInv, NEW w \in Pages \cup {Agent}, NEW x \in {"kept", "written"},
         Writes(w).step # "none", SetWrite(w, [Writes(w) EXCEPT !.step = x]),
         UNCHANGED <<edits, wandered, hurried, applied, late>>
  PROVE  /\ page' \in [Pages -> Page] /\ agent' \in Writing /\ \A p \in Pages : PageOK(p)'
         /\ agent'.step # "none" => agent'.file \in Files /\ agent'.content \in Content
         /\ agent'.step # "none" => agent.step # "none"
         /\ agent'.content = agent.content /\ agent'.file = agent.file
         /\ Writes(w).file \in Files /\ Writes(w).content \in Content
         /\ wandered = {} => Writes(w).content[1] = Writes(w).file
         /\ Writes(w)'.step = x /\ Writes(w)'.file = Writes(w).file
         /\ \A v \in (Pages \cup {Agent}) \ {w} : Writes(v)' = Writes(v)
<1>0. /\ page \in [Pages -> Page] /\ agent \in Writing /\ Agent \notin Pages
      /\ agent.step # "none" => agent.file \in Files /\ agent.content \in Content
  BY ConfigAssumption DEF ConfigInv, ConfigTypeOK, Agent
<1>1. CASE w = Agent
  <2>1. /\ page' = page /\ agent' = [agent EXCEPT !.step = x] /\ agent.step # "none"
    BY <1>1 DEF SetWrite, Writes
  <2>2. /\ agent' \in Writing /\ agent'.step = x /\ agent'.file = agent.file
        /\ agent'.content = agent.content
    BY <1>0, <2>1 DEF Writing
  <2>3. \A p \in Pages : PageOK(p)'
    BY <2>1 DEF ConfigInv, PageOK
  <2>4. wandered = {} => agent.content[1] = agent.file
    BY <2>1 DEF ConfigInv, FilesUnmixed
  <2>5. /\ Writes(w) = agent /\ Writes(w)' = agent'
        /\ \A v \in (Pages \cup {Agent}) \ {w} : Writes(v)' = Writes(v)
    BY <1>0, <1>1, <2>1 DEF Writes
  <2> QED BY <1>0, <2>1, <2>2, <2>3, <2>4, <2>5
<1>2. CASE w # Agent
  <2> DEFINE s == [page[w].save EXCEPT !.step = x]
             r == [page[w] EXCEPT !.save = s]
  <2>1. /\ w \in Pages /\ agent' = agent /\ page' = [page EXCEPT ![w] = r]
        /\ page[w].save.step # "none"
    BY <1>2 DEF SetWrite, Writes
  <2>2. page[w] \in Page /\ page[w].save \in Writing
    BY <2>1, PageIs, PageFields
  <2>3. /\ s \in Writing /\ s.step = x /\ s.file = page[w].save.file
        /\ s.content = page[w].save.content
    BY <2>2 DEF Writing
  <2> HIDE DEF s
  <2>4. r \in Page
    BY <2>2, <2>3 DEF Page
  <2>5. /\ r.selected = page[w].selected /\ r.base = page[w].base
        /\ r.draft = page[w].draft /\ r.dirty = page[w].dirty /\ r.save = s
        /\ r.dialog = page[w].dialog /\ r.prompt = page[w].prompt /\ r.loads = page[w].loads
    BY <2>2 DEF Page
  <2> HIDE DEF r
  <2>6. page' \in [Pages -> Page] /\ page'[w] = r /\ \A q \in Pages \ {w} : page'[q] = page[q]
    BY <1>0, <2>1, <2>4
  <2>7. PageOK(w)'
    <3>1. Shaped(r)
      BY <2>1, <2>3, <2>5, PageIs DEF Shaped, NoSave
    <3>2. wandered = {} => Unmixed(r)
      BY <2>1, <2>3, <2>5, PageIs DEF Unmixed
    <3>3. w \in hurried \/ Clean(r)
      BY <2>1, <2>3, <2>5, PageIs DEF Clean
    <3>4. Targeted(r) /\ (late = {} => AskedForTarget(r))
      BY <2>1, <2>5, PageIs DEF Targeted, AskedForTarget
    <3> QED BY <2>4, <2>6, <3>1, <3>2, <3>3, <3>4 DEF PageOK
  <2>8. ASSUME NEW q \in Pages PROVE PageOK(q)'
    <3>1. CASE q = w
      BY <2>7, <3>1
    <3>2. CASE q # w
      <4>1. PageOK(q) /\ page'[q] = page[q]
        BY <2>6, <3>2 DEF ConfigInv
      <4> QED BY <4>1 DEF PageOK
    <3> QED BY <3>1, <3>2
  <2>9. /\ Writes(w) = page[w].save /\ Writes(w)' = s
        /\ \A v \in (Pages \cup {Agent}) \ {w} : Writes(v)' = Writes(v)
    BY <1>2, <2>1, <2>5, <2>6 DEF Writes
  <2>10. /\ page[w].save.file \in Files /\ page[w].save.content \in Content
         /\ wandered = {} => page[w].save.content[1] = page[w].save.file
    BY <2>1, PageIs DEF Shaped, Unmixed
  <2> QED BY <1>0, <2>1, <2>3, <2>6, <2>8, <2>9, <2>10
<1> QED BY <1>1, <1>2

LEMMA KeepKeeps ==
  ASSUME ConfigInv, NEW w \in Pages \cup {Agent}, Keep(w)
  PROVE  ConfigInv'
<1> DEFINE f == Writes(w).file
<1>1. /\ Writes(w).step = "sent" /\ SetWrite(w, [Writes(w) EXCEPT !.step = "kept"])
      /\ versions' = [versions EXCEPT ![f] = @ \cup {disk[f]}]
      /\ overlapped' = IF Kept(f) = {} THEN overlapped ELSE overlapped \cup {f}
      /\ UNCHANGED <<disk, edits, wandered, hurried, applied, late>>
  BY DEF Keep, dialogVars
<1>2. /\ page' \in [Pages -> Page] /\ agent' \in Writing /\ \A p \in Pages : PageOK(p)'
      /\ agent'.step # "none" => agent'.file \in Files /\ agent'.content \in Content
      /\ agent'.step # "none" => agent.step # "none"
      /\ agent'.content = agent.content /\ agent'.file = agent.file
      /\ f \in Files
      /\ Writes(w)'.step = "kept" /\ Writes(w)'.file = f
      /\ \A v \in (Pages \cup {Agent}) \ {w} : Writes(v)' = Writes(v)
  BY <1>1, MovesOn
<1>3. /\ disk \in [Files -> Content] /\ versions \in [Files -> SUBSET Content]
      /\ overlapped \subseteq Files
  BY DEF ConfigInv, ConfigTypeOK
<1> HIDE DEF f
<1>4. /\ versions' \in [Files -> SUBSET Content] /\ overlapped' \subseteq Files
      /\ overlapped \subseteq overlapped' /\ (f \notin overlapped' => Kept(f) = {})
      /\ versions'[f] = versions[f] \cup {disk[f]}
      /\ \A g \in Files \ {f} : versions'[g] = versions[g]
  BY <1>1, <1>2, <1>3
<1>5. ConfigTypeOK'
  BY <1>1, <1>2, <1>3, <1>4 DEF ConfigInv, ConfigTypeOK
<1>6. FilesUnmixed'
  <2> SUFFICES ASSUME wandered = {}
               PROVE  /\ \A g \in Files : disk'[g][1] = g /\ \A c \in versions'[g] : c[1] = g
                      /\ agent'.step # "none" => agent'.content[1] = agent'.file
    BY <1>1 DEF FilesUnmixed
  <2>1. /\ \A g \in Files : disk[g][1] = g /\ \A c \in versions[g] : c[1] = g
        /\ agent.step # "none" => agent.content[1] = agent.file
    BY DEF ConfigInv, FilesUnmixed
  <2> QED BY <1>1, <1>2, <1>4, <2>1
<1>7. KeptIsKept'
  <2> SUFFICES ASSUME NEW g \in Files \ overlapped'
               PROVE  /\ \A u, v \in Kept(g)' : u = v
                      /\ Kept(g)' # {} => disk'[g] \in versions'[g]
    BY DEF KeptIsKept
  <2>1. g \notin overlapped
    BY <1>4
  <2>2. (\A u, v \in Kept(g) : u = v) /\ (Kept(g) # {} => disk[g] \in versions[g])
    BY <2>1 DEF ConfigInv, KeptIsKept
  <2>3. CASE g # f
    <3>1. \A v \in Kept(g)' : v \in Kept(g)
      BY <1>2, <2>3 DEF Kept
    <3> QED BY <1>1, <1>4, <2>2, <2>3, <3>1
  <2>4. CASE g = f
    <3>1. \A v \in Kept(g)' : v = w
      BY <1>2, <1>4, <2>4 DEF Kept
    <3> QED BY <1>1, <1>4, <2>4, <3>1
  <2> QED BY <2>3, <2>4
<1>8. PromptsArrive' /\ edits' \in 0..MaxEdits
  BY <1>1 DEF ConfigInv, PromptsArrive
<1> QED BY <1>2, <1>5, <1>6, <1>7, <1>8 DEF ConfigInv

LEMMA WriteFileKeeps ==
  ASSUME ConfigInv, NEW w \in Pages \cup {Agent}, WriteFile(w)
  PROVE  ConfigInv'
<1> DEFINE f == Writes(w).file
           content == Writes(w).content
<1>1. /\ Writes(w).step = "kept" /\ SetWrite(w, [Writes(w) EXCEPT !.step = "written"])
      /\ disk' = [disk EXCEPT ![f] = content]
      /\ UNCHANGED <<versions, overlapped, edits, wandered, hurried, applied, late>>
  BY DEF WriteFile, dialogVars
<1>2. /\ page' \in [Pages -> Page] /\ agent' \in Writing /\ \A p \in Pages : PageOK(p)'
      /\ agent'.step # "none" => agent'.file \in Files /\ agent'.content \in Content
      /\ agent'.step # "none" => agent.step # "none"
      /\ agent'.content = agent.content /\ agent'.file = agent.file
      /\ f \in Files /\ content \in Content
      /\ wandered = {} => content[1] = f
      /\ Writes(w)'.step = "written"
      /\ \A v \in (Pages \cup {Agent}) \ {w} : Writes(v)' = Writes(v)
  BY <1>1, MovesOn
<1>3. disk \in [Files -> Content] /\ w \in Kept(f)
  BY <1>1 DEF ConfigInv, ConfigTypeOK, Kept
<1> HIDE DEF f, content
<1>4. disk' \in [Files -> Content] /\ disk'[f] = content /\ \A g \in Files \ {f} : disk'[g] = disk[g]
  BY <1>1, <1>2, <1>3
<1>5. ConfigTypeOK'
  BY <1>1, <1>2, <1>4 DEF ConfigInv, ConfigTypeOK
<1>6. FilesUnmixed'
  <2> SUFFICES ASSUME wandered = {}
               PROVE  /\ \A g \in Files : disk'[g][1] = g /\ \A c \in versions'[g] : c[1] = g
                      /\ agent'.step # "none" => agent'.content[1] = agent'.file
    BY <1>1 DEF FilesUnmixed
  <2>1. /\ \A g \in Files : disk[g][1] = g /\ \A c \in versions[g] : c[1] = g
        /\ agent.step # "none" => agent.content[1] = agent.file
    BY DEF ConfigInv, FilesUnmixed
  <2> QED BY <1>1, <1>2, <1>4, <2>1
<1>7. KeptIsKept'
  <2> SUFFICES ASSUME NEW g \in Files \ overlapped
               PROVE  /\ \A u, v \in Kept(g)' : u = v
                      /\ Kept(g)' # {} => disk'[g] \in versions'[g]
    BY <1>1 DEF KeptIsKept
  <2>1. (\A u, v \in Kept(g) : u = v) /\ (Kept(g) # {} => disk[g] \in versions[g])
    BY DEF ConfigInv, KeptIsKept
  <2>2. \A v \in Kept(g)' : v \in Kept(g) /\ v # w
    BY <1>2 DEF Kept
  <2>3. CASE g # f
    BY <1>1, <1>4, <2>1, <2>2, <2>3
  <2>4. CASE g = f
    BY <1>3, <2>1, <2>2, <2>4
  <2> QED BY <2>3, <2>4
<1>8. PromptsArrive' /\ edits' \in 0..MaxEdits
  BY <1>1 DEF ConfigInv, PromptsArrive
<1> QED BY <1>2, <1>5, <1>6, <1>7, <1>8 DEF ConfigInv

LEMMA AgentWritesKeeps ==
  ASSUME ConfigInv, NEW f \in Files, AgentWrites(f)
  PROVE  ConfigInv'
<1>1. /\ agent = NoSave /\ agent' = [step |-> "sent", file |-> f, content |-> <<f, 0>>]
      /\ UNCHANGED <<disk, versions, overlapped, page, edits, wandered, hurried, applied, late>>
  BY DEF AgentWrites, serverVars, dialogVars
<1>2. <<f, 0>> \in Content /\ <<f, 0>>[1] = f
  BY ConfigAssumption DEF Content
<1>3. /\ agent' \in Writing /\ agent'.file = f /\ agent'.content = <<f, 0>> /\ agent'.step = "sent"
  BY <1>1, <1>2 DEF Writing
<1>4. ConfigTypeOK'
  BY <1>1, <1>3 DEF ConfigInv, ConfigTypeOK
<1>5. FilesUnmixed'
  BY <1>1, <1>2, <1>3 DEF ConfigInv, FilesUnmixed
<1>6. KeptIsKept'
  <2>1. ASSUME NEW g \in Files, NEW v \in Kept(g)' PROVE v \in Kept(g)
    BY <1>1, <1>3, <2>1 DEF Kept, Writes
  <2> SUFFICES ASSUME NEW g \in Files \ overlapped
               PROVE  /\ \A u, v \in Kept(g)' : u = v
                      /\ Kept(g)' # {} => disk[g] \in versions[g]
    BY <1>1 DEF KeptIsKept
  <2>2. (\A u, v \in Kept(g) : u = v) /\ (Kept(g) # {} => disk[g] \in versions[g])
    BY DEF ConfigInv, KeptIsKept
  <2> QED BY <2>1, <2>2
<1>7. \A p \in Pages : PageOK(p)'
  BY <1>1 DEF ConfigInv, PageOK
<1>8. PromptsArrive' /\ page' \in [Pages -> Page] /\ edits' \in 0..MaxEdits
  BY <1>1 DEF ConfigInv, PromptsArrive
<1> QED BY <1>2, <1>3, <1>4, <1>5, <1>6, <1>7, <1>8 DEF ConfigInv

LEMMA ConfigInitially == ConfigInit => ConfigInv
<1> SUFFICES ASSUME ConfigInit PROVE ConfigInv
  OBVIOUS
<1> DEFINE r == [selected |-> NoFile, base |-> <<>>, draft |-> <<>>,
                 dirty |-> FALSE, loading |-> FALSE, calls |-> 0, loads |-> {},
                 save |-> NoSave, dialog |-> NoDialog, listing |-> TRUE, prompt |-> NoPrompt]
<1>1. /\ disk = [f \in Files |-> <<f, 0>>] /\ versions = [f \in Files |-> {}]
      /\ page = [p \in Pages |-> r] /\ agent = NoSave /\ edits = 0
      /\ overlapped = {} /\ wandered = {} /\ hurried = {} /\ applied = {} /\ late = {}
  BY DEF ConfigInit
<1>2. NoPrompt \in Prompt /\ NoSave \in Writing
  BY DEF Prompt, NoPrompt, Writing, NoSave
<1>3. r \in Page
  BY <1>2, ConfigAssumption DEF Page, NoDialog
<1>4. Shaped(r) /\ Unmixed(r) /\ Clean(r) /\ Targeted(r) /\ AskedForTarget(r)
  BY ConfigAssumption DEF Shaped, Unmixed, Clean, Targeted, AskedForTarget, NoSave, NoDialog, NoPrompt, NoFile, Unasked
<1> HIDE DEF r
<1>5. \A p \in Pages : PageOK(p)
  BY <1>1, <1>3, <1>4 DEF PageOK
<1>6. \A f \in Files : <<f, 0>> \in Content
  BY ConfigAssumption DEF Content
<1>7. ConfigTypeOK /\ page \in [Pages -> Page]
  BY <1>1, <1>2, <1>3, <1>6 DEF ConfigTypeOK
<1>8. edits \in 0..MaxEdits /\ agent.step = "none"
  BY <1>1, ConfigAssumption DEF NoSave
<1>9. FilesUnmixed
  BY <1>1, <1>8 DEF FilesUnmixed
<1>10. KeptIsKept
  <2>1. ASSUME NEW f \in Files PROVE Kept(f) = {}
    <3>1. r.save.step # "kept" /\ agent.step # "kept"
      BY <1>8 DEF r, NoSave
    <3> QED BY <1>1, <3>1 DEF Kept, Writes
  <2> QED BY <2>1 DEF KeptIsKept
<1>11. PromptsArrive
  BY <1>1 DEF PromptsArrive
<1> QED BY <1>5, <1>7, <1>8, <1>9, <1>10, <1>11 DEF ConfigInv

LEMMA ConfigStep == ConfigInv /\ [ConfigNext]_configVars => ConfigInv'
<1> SUFFICES ASSUME ConfigInv, [ConfigNext]_configVars PROVE ConfigInv'
  OBVIOUS
<1>1. CASE UNCHANGED configVars
  <2>1. UNCHANGED <<disk, versions, page, agent, edits, overlapped, wandered, hurried, applied, late>>
    BY <1>1 DEF configVars, dialogVars
  <2>2. ConfigTypeOK'
    BY <2>1 DEF ConfigInv, ConfigTypeOK
  <2>3. KeptIsKept'
    BY <2>1 DEF ConfigInv, KeptIsKept, Kept, Writes
  <2>4. FilesUnmixed' /\ PromptsArrive' /\ \A p \in Pages : PageOK(p)'
    BY <2>1 DEF ConfigInv, FilesUnmixed, PromptsArrive, PageOK
  <2>5. /\ page' \in [Pages -> Page] /\ edits' \in 0..MaxEdits
        /\ agent'.step # "none" => agent'.file \in Files /\ agent'.content \in Content
    BY <2>1 DEF ConfigInv
  <2> QED BY <2>2, <2>3, <2>4, <2>5 DEF ConfigInv
<1>2. ASSUME NEW p \in Pages, NEW f \in Files, Select(p, f) PROVE ConfigInv'
  BY <1>2, LoadKeeps DEF Select
<1>3. ASSUME NEW p \in Pages, NEW f \in Files, NEW c \in versions[f], RestoreVersion(p, c) PROVE ConfigInv'
  BY <1>3, RestoreVersionKeeps
<1>4. ASSUME NEW p \in Pages, Reload(p) PROVE ConfigInv'
  <2>1. page[p].selected \in Files
    BY <1>4, PageIs, PageFields DEF Reload
  <2> QED BY <1>4, <2>1, LoadKeeps DEF Reload
<1>5. ASSUME NEW p \in Pages, ReadFile(p) \/ Edit(p) \/ Save(p) \/ Saved(p) PROVE ConfigInv'
  BY <1>5, ReadFileKeeps, EditKeeps, SaveKeeps, SavedKeeps
<1>6. ASSUME NEW p \in Pages, NEW l \in page[p].loads, Loaded(p, l) \/ LoadFails(p, l) PROVE ConfigInv'
  BY <1>6, LoadedKeeps, LoadFailsKeeps
<1>7. ASSUME NEW p \in Pages, AskHistory(p) \/ ShowHistory(p) \/ CloseHistory(p) \/ WriteFails(p) PROVE ConfigInv'
  BY <1>7, AskHistoryKeeps, ShowHistoryKeeps, CloseHistoryKeeps, WriteFailsKeeps
<1>8. ASSUME NEW p \in Pages, NEW a \in Agents \cup {NoAgent}, OpenPrompt(p, a) PROVE ConfigInv'
  BY <1>8, OpenPromptKeeps
<1>9. ASSUME NEW p \in Pages, Generate(p) \/ Generated(p) \/ ClosePrompt(p) \/ Apply(p) \/ FilesListed(p)
      PROVE  ConfigInv'
  BY <1>9, GenerateKeeps, GeneratedKeeps, ClosePromptKeeps, ApplyKeeps, FilesListedKeeps
<1>10. ASSUME NEW w \in Pages \cup {Agent}, Keep(w) \/ WriteFile(w) PROVE ConfigInv'
  BY <1>10, KeepKeeps, WriteFileKeeps
<1>11. ASSUME NEW f \in Files, AgentWrites(f) PROVE ConfigInv'
  BY <1>11, AgentWritesKeeps
<1> QED BY <1>1, <1>2, <1>3, <1>4, <1>5, <1>6, <1>7, <1>8, <1>9, <1>10, <1>11 DEF ConfigNext

\* Only a write that has kept what the file holds replaces it.
LEMMA ReplacedIsKept ==
  ASSUME ConfigInv, [ConfigNext]_configVars, NEW f \in Files \ overlapped, disk'[f] # disk[f]
  PROVE  disk[f] \in versions[f]
<1>1. ASSUME disk' = disk PROVE FALSE
  BY <1>1
<1>2. ASSUME NEW w \in Pages \cup {Agent}, WriteFile(w)
      PROVE  disk[f] \in versions[f]
  <2>1. /\ Writes(w).step = "kept" /\ disk' = [disk EXCEPT ![Writes(w).file] = Writes(w).content]
        /\ disk \in [Files -> Content]
    BY <1>2 DEF WriteFile, ConfigInv, ConfigTypeOK
  <2>2. Writes(w).file = f
    BY <2>1
  <2>3. w \in Kept(f)
    BY <2>1, <2>2 DEF Kept
  <2> QED BY <2>3 DEF ConfigInv, KeptIsKept
<1>3. ASSUME NEW p \in Pages
      PROVE  \A g \in Files : ~Select(p, g) /\ \A c \in versions[g] : ~RestoreVersion(p, c)
  BY <1>1 DEF Select, Load, RestoreVersion, serverVars
<1>4. ASSUME NEW p \in Pages
      PROVE  /\ ~Reload(p) /\ ~ReadFile(p) /\ ~Edit(p) /\ ~Save(p) /\ ~Saved(p)
             /\ ~AskHistory(p) /\ ~ShowHistory(p) /\ ~CloseHistory(p)
             /\ ~Generate(p) /\ ~Generated(p) /\ ~ClosePrompt(p) /\ ~FilesListed(p)
  BY <1>1 DEF Reload, Load, ReadFile, Edit, Save, Saved, AskHistory, ShowHistory, CloseHistory,
              Generate, Generated, ClosePrompt, FilesListed, serverVars
<1>5. ASSUME NEW p \in Pages
      PROVE  ~Apply(p) /\ ~WriteFails(p) /\ \A a \in Agents \cup {NoAgent} : ~OpenPrompt(p, a)
  BY <1>1 DEF Apply, WriteFails, OpenPrompt, serverVars
<1>6. ASSUME NEW p \in Pages, NEW l \in page[p].loads
      PROVE  ~Loaded(p, l) /\ ~LoadFails(p, l)
  BY <1>1 DEF Loaded, LoadFails, serverVars
<1>7. \A w \in Pages \cup {Agent} : ~Keep(w)
  BY <1>1 DEF Keep
<1>8. \A g \in Files : ~AgentWrites(g)
  BY <1>1 DEF AgentWrites, serverVars
<1>9. ConfigNext
  BY <1>1 DEF configVars
<1> QED BY <1>2, <1>3, <1>4, <1>5, <1>6, <1>7, <1>8, <1>9 DEF ConfigNext

\* Files are not mixed, clean pages show what was saved, prompts arrive where they were
\* asked for, and what a write replaces is kept, for any number of pages and files.
THEOREM ConfigIsCorrect == ConfigSpec => ConfigPromise
<1>1. ConfigInv' => ConfigCorrect'
  <2>1. ConfigInv' => FilesAreNotMixed'
    BY DEF ConfigInv, FilesUnmixed, FilesAreNotMixed
  <2>2. ConfigInv' => CleanIsSaved'
    BY DEF ConfigInv, PageOK, Clean, CleanIsSaved
  <2> QED BY <2>1, <2>2 DEF ConfigInv, ConfigCorrect
<1>2. ConfigInv /\ [ConfigNext]_configVars =>
        [\A f \in Files \ overlapped : disk'[f] # disk[f] => disk[f] \in versions[f]]_configVars
  BY ReplacedIsKept
<1> QED BY <1>1, <1>2, ConfigInitially, ConfigStep, PTL DEF ConfigSpec, ConfigPromise, WritesAreKept

-----------------------------------------------------------------------------
(* The secrets                                                             *)

\* What a file or the gateway may hold of the names, given the values of each.
Holding(names) ==
  {h \in [SecretNames -> Nat] :
     \A n \in SecretNames : h[n] # 0 => h[n] \in DOMAIN names /\ names[h[n]] = n}

SaveStates ==
  [phase : {"sent", "read", "writing", "written"}, file : FileSet, name : SecretNames,
   value : Nat, existing : [SecretNames -> Nat], under : BOOLEAN]

\* Every value stands under the name it was saved for: in the files, in what saves
\* have read, in the gateway and in the panel.
SecretsTypeOK ==
  /\ nameOf \in Seq(SecretNames)
  /\ stored \in [FileSet -> [torn : BOOLEAN, has : Holding(nameOf)]]
  /\ saved \in [FileSet -> [SecretNames -> Nat]]
  /\ saves \in [SaveSlots -> {NothingSaved} \cup SaveStates]
  /\ \A s \in SaveSlots :
       saves[s] # NothingSaved =>
         /\ saves[s].existing \in Holding(nameOf)
         /\ saves[s].value \in DOMAIN nameOf /\ nameOf[saves[s].value] = saves[s].name
  /\ gatewayUp \in {"running", "down", "refused"}
  /\ revealed \in Holding(nameOf)
  /\ reveals \in Seq([phase : {"asked", "answered", "done"}, name : SecretNames, value : Nat])
  /\ \A r \in DOMAIN reveals :
       reveals[r].value # 0 =>
         reveals[r].value \in DOMAIN nameOf /\ nameOf[reveals[r].value] = reveals[r].name

\* A gateway that does not run works on no save.
SavesNeedGateway == gatewayUp # "running" => \A s \in SaveSlots : saves[s] = NothingSaved

\* A file that saves did not write together has one save at most.
OneSave ==
  \A f \in FileSet \ shaken : \A s, t \in SaveSlots :
    /\ saves[s] # NothingSaved /\ saves[s].file = f
    /\ saves[t] # NothingSaved /\ saves[t].file = f
    => s = t

\* How far the save of such a file is, and what the file holds then.
SaveOf(w) ==
  LET f == w.file IN
  /\ w.phase \in {"sent", "read"} => ~stored[f].torn /\ stored[f].has = saved[f]
  /\ w.phase \in {"read", "writing"} => w.existing = saved[f]
  /\ w.phase # "written" => w.under = FALSE
  /\ w.phase = "written" =>
       ~stored[f].torn /\ stored[f].has = [saved[f] EXCEPT ![w.name] = w.value]

SavesGoOn ==
  \A s \in SaveSlots : saves[s] # NothingSaved /\ saves[s].file \notin shaken => SaveOf(saves[s])

SecretsInv ==
  /\ SecretsTypeOK
  /\ SavesNeedGateway
  /\ OneSave
  /\ SavesGoOn
  /\ FilesHoldWhatWasSaved

-----------------------------------------------------------------------------
\* What is held stays held when a value is added.
LEMMA HoldingGrows ==
  ASSUME NEW names \in Seq(SecretNames), NEW n \in SecretNames
  PROVE  /\ Append(names, n) \in Seq(SecretNames)
         /\ Len(Append(names, n)) \in DOMAIN Append(names, n)
         /\ Append(names, n)[Len(Append(names, n))] = n
         /\ \A v \in DOMAIN names : v \in DOMAIN Append(names, n) /\ Append(names, n)[v] = names[v]
         /\ Holding(names) \subseteq Holding(Append(names, n))
<1>1. /\ Append(names, n) \in Seq(SecretNames)
      /\ Len(Append(names, n)) \in DOMAIN Append(names, n)
      /\ Append(names, n)[Len(Append(names, n))] = n
      /\ \A v \in DOMAIN names : v \in DOMAIN Append(names, n) /\ Append(names, n)[v] = names[v]
  OBVIOUS
<1>2. Holding(names) \subseteq Holding(Append(names, n))
  BY <1>1 DEF Holding
<1> QED BY <1>1, <1>2

\* A value is added to what is held, under the name it was saved for.
LEMMA HoldsOneMore ==
  ASSUME NEW names \in Seq(SecretNames), NEW h \in Holding(names), NEW n \in SecretNames,
         NEW v \in Nat, v # 0 => v \in DOMAIN names /\ names[v] = n
  PROVE  [h EXCEPT ![n] = v] \in Holding(names)
BY DEF Holding

LEMMA NothingIsHeld ==
  ASSUME NEW names
  PROVE  Nothing \in Holding(names)
BY DEF Holding, Nothing

\* The smallest element of a set of numbers.
LEMMA SmallestExists ==
  ASSUME NEW S \in SUBSET Nat, S # {}
  PROVE  \E i \in S : \A j \in S : i <= j
<1>1. OpToRel(<, Nat) = {ss \in Nat \X Nat : ss[1] < ss[2]}
  BY Zenon DEF OpToRel
<1>2. IsWellFoundedOn({ss \in Nat \X Nat : ss[1] < ss[2]}, Nat)
  BY <1>1, NatLessThanWellFounded, Zenon
<1>3. PICK i \in S : \A j \in S : ~ (<<j, i>> \in {ss \in Nat \X Nat : ss[1] < ss[2]})
  BY <1>2, WFMin
<1>4. ASSUME NEW j \in S PROVE i <= j
  <2>1. i \in Nat /\ j \in Nat /\ <<j, i>> \in Nat \X Nat
    OBVIOUS
  <2>2. ~ (<<j, i>>[1] < <<j, i>>[2])
    BY <1>3, <2>1
  <2> QED BY <2>1, <2>2
<1> QED BY <1>4

LEMMA MinIs ==
  ASSUME NEW S \in SUBSET Nat, S # {}
  PROVE  Min(S) \in S /\ \A j \in S : Min(S) <= j
<1>1. \E i \in S : \A j \in S : i <= j
  BY SmallestExists
<1> QED BY <1>1 DEF Min

\* The value of a name, in a file that can be read; none when no such file has one.
LEMMA LookupIs ==
  ASSUME SecretsTypeOK, NEW n \in SecretNames
  PROVE  /\ Lookup(n) \in Nat
         /\ Lookup(n) # 0 => Lookup(n) \in DOMAIN nameOf /\ nameOf[Lookup(n)] = n
         /\ \/ Lookup(n) = 0 /\ \A f \in FileSet : ~stored[f].torn => stored[f].has[n] = 0
            \/ \E f \in FileSet : /\ ~stored[f].torn /\ stored[f].has[n] # 0
                                  /\ Lookup(n) = stored[f].has[n]
<1> DEFINE has(f) == ~stored[f].torn /\ stored[f].has[n] # 0
           I == {i \in 1..Len(SecretFiles) : has(SecretFiles[i])}
<1>1. Lookup(n) = IF (IF I # {} THEN Min(I) ELSE 0) = 0 THEN 0
                  ELSE stored[SecretFiles[IF I # {} THEN Min(I) ELSE 0]].has[n]
  BY DEF Lookup, SelectInSeq
<1>2. /\ \A f \in FileSet : stored[f].has \in [SecretNames -> Nat]
      /\ \A f \in FileSet : stored[f].has[n] # 0 =>
           stored[f].has[n] \in DOMAIN nameOf /\ nameOf[stored[f].has[n]] = n
  BY SMTT(40) DEF SecretsTypeOK, Holding
<1>3. I \subseteq Nat \ {0} /\ DOMAIN SecretFiles = 1..Len(SecretFiles)
  BY SecretsAssumption
<1>4. CASE I = {}
  <2>1. Lookup(n) = 0
    BY <1>1, <1>4
  <2>2. ASSUME NEW i \in DOMAIN SecretFiles PROVE ~has(SecretFiles[i])
    BY <1>3, <1>4
  <2>3. \A f \in FileSet : ~has(f)
    BY SMTT(40), <2>2 DEF FileSet
  <2> QED BY <2>1, <2>3
<1>5. CASE I # {}
  <2>1. Min(I) \in I
    <3>1. I \in SUBSET Nat
      BY SMTT(40), <1>3
    <3> HIDE DEF I
    <3> QED BY <3>1, <1>3, <1>5, MinIs
  <2>2. Lookup(n) = stored[SecretFiles[Min(I)]].has[n] /\ SecretFiles[Min(I)] \in FileSet
    BY ZenonT(60), <1>1, <1>3, <1>5, <2>1 DEF FileSet
  <2>3. has(SecretFiles[Min(I)])
    BY <2>1
  <2> QED BY <1>2, <2>2, <2>3
<1> QED BY <1>4, <1>5

-----------------------------------------------------------------------------
\* One save and another: the saves besides s stay as they are.
OthersStay(s) == \A t \in SaveSlots \ {s} : saves'[t] = saves[t]

LEMMA AcceptKeeps ==
  ASSUME SecretsInv, NEW s \in SaveSlots, NEW f \in FileSet, NEW n \in SecretNames,
         Accept(s, f, n), UNCHANGED <<revealed, reveals>>
  PROVE  SecretsInv'
<1> DEFINE w == [phase |-> "sent", file |-> f, name |-> n, value |-> Len(nameOf'),
                 existing |-> Nothing, under |-> FALSE]
<1>1. /\ gatewayUp = "running" /\ gatewayUp' = gatewayUp /\ saves[s] = NothingSaved
      /\ nameOf' = Append(nameOf, n) /\ saves' = [saves EXCEPT ![s] = w]
      /\ shaken' = IF SavesOf(f) = {} THEN shaken ELSE shaken \cup {f}
      /\ UNCHANGED <<stored, saved, revealed, reveals>>
  BY DEF Accept, storeOf
<1>2. SecretsTypeOK
  BY DEF SecretsInv
<1>3. /\ nameOf' \in Seq(SecretNames)
      /\ Len(nameOf') \in DOMAIN nameOf' /\ nameOf'[Len(nameOf')] = n
      /\ \A v \in DOMAIN nameOf : v \in DOMAIN nameOf' /\ nameOf'[v] = nameOf[v]
      /\ Holding(nameOf) \subseteq Holding(nameOf')
      /\ Nothing \in Holding(nameOf')
  <2>1. nameOf \in Seq(SecretNames)
    BY <1>2 DEF SecretsTypeOK
  <2> QED BY <1>1, <2>1, HoldingGrows, NothingIsHeld
<1>4. w \in SaveStates /\ saves'[s] = w /\ OthersStay(s)
  <2>1. Nothing \in [SecretNames -> Nat] /\ Len(nameOf') \in Nat
    BY <1>3 DEF Nothing
  <2>2. saves \in [SaveSlots -> {NothingSaved} \cup SaveStates]
    BY <1>2 DEF SecretsTypeOK
  <2>3. saves'[s] = w /\ OthersStay(s)
    <3> HIDE DEF w
    <3> QED BY <1>1, <2>2 DEF OthersStay
  <2> QED BY <2>1, <2>3 DEF SaveStates
<1>5. SecretsTypeOK'
  <2>1. (nameOf \in Seq(SecretNames))'
    BY <1>3
  <2>2. (stored \in [FileSet -> [torn : BOOLEAN, has : Holding(nameOf)]])'
    <3>1. [torn : BOOLEAN, has : Holding(nameOf)] \subseteq [torn : BOOLEAN, has : Holding(nameOf')]
      BY <1>3
    <3>2. stored \in [FileSet -> [torn : BOOLEAN, has : Holding(nameOf)]]
      BY <1>2 DEF SecretsTypeOK
    <3> QED BY <1>1, <3>1, <3>2
  <2>3. (saved \in [FileSet -> [SecretNames -> Nat]])'
    BY <1>1, <1>2 DEF SecretsTypeOK
  <2>4. (saves \in [SaveSlots -> {NothingSaved} \cup SaveStates])'
    <3>1. saves \in [SaveSlots -> {NothingSaved} \cup SaveStates]
      BY <1>2 DEF SecretsTypeOK
    <3> HIDE DEF w
    <3> QED BY <1>1, <1>4, <3>1
  <2>5. ASSUME NEW t \in SaveSlots, saves'[t] # NothingSaved
        PROVE  /\ saves'[t].existing \in Holding(nameOf')
               /\ saves'[t].value \in DOMAIN nameOf' /\ nameOf'[saves'[t].value] = saves'[t].name
    <3>1. CASE t = s
      BY <1>3, <1>4, <3>1
    <3>2. CASE t # s
      BY <1>2, <1>3, <1>4, <2>5, <3>2 DEF OthersStay, SecretsTypeOK
    <3> QED BY <3>1, <3>2
  <2>6. (gatewayUp \in {"running", "down", "refused"})'
    BY <1>1
  <2>7. (revealed \in Holding(nameOf))'
    BY <1>1, <1>2, <1>3 DEF SecretsTypeOK
  <2>8. (reveals \in Seq([phase : {"asked", "answered", "done"}, name : SecretNames, value : Nat]))'
    BY <1>1, <1>2 DEF SecretsTypeOK
  <2>9. (\A r \in DOMAIN reveals :
           reveals[r].value # 0 =>
             reveals[r].value \in DOMAIN nameOf /\ nameOf[reveals[r].value] = reveals[r].name)'
    <3>1. \A r \in DOMAIN reveals :
            reveals[r].value # 0 =>
              reveals[r].value \in DOMAIN nameOf /\ nameOf[reveals[r].value] = reveals[r].name
      BY <1>2 DEF SecretsTypeOK
    <3> QED BY <1>1, <1>3, <3>1
  <2> QED BY <2>1, <2>2, <2>3, <2>4, <2>5, <2>6, <2>7, <2>8, <2>9 DEF SecretsTypeOK
<1>6. \A g \in FileSet \ shaken' : g \notin shaken /\ (g = f => SavesOf(f) = {})
  BY <1>1
<1>7. OneSave'
  <2> SUFFICES ASSUME NEW g \in FileSet \ shaken', NEW t \in SaveSlots, NEW u \in SaveSlots,
                      saves'[t] # NothingSaved, saves'[t].file = g,
                      saves'[u] # NothingSaved, saves'[u].file = g
               PROVE  t = u
    BY DEF OneSave
  <2>1. g \notin shaken /\ (g = f => SavesOf(f) = {})
    BY <1>6
  <2>2. ASSUME g = f PROVE \A x \in SaveSlots : saves[x] = NothingSaved \/ saves[x].file # f
    BY <2>1, <2>2 DEF SavesOf
  <2>3. CASE t = s /\ u = s
    BY <2>3
  <2>4. CASE t # s /\ u # s
    BY <1>4, <2>1, <2>4 DEF OthersStay, SecretsInv, OneSave
  <2>5. CASE (t = s /\ u # s) \/ (t # s /\ u = s)
    BY <1>4, <2>2, <2>5 DEF OthersStay
  <2> QED BY <2>3, <2>4, <2>5
<1>8. SavesGoOn'
  <2> SUFFICES ASSUME NEW t \in SaveSlots, saves'[t] # NothingSaved, saves'[t].file \notin shaken'
               PROVE  SaveOf(saves[t])'
    BY DEF SavesGoOn
  <2>1. CASE t # s
    <3>1. saves[t].file \notin shaken /\ saves[t] # NothingSaved /\ saves'[t] = saves[t]
      BY <1>1, <1>4, <2>1 DEF OthersStay
    <3>2. SaveOf(saves[t])
      BY <3>1 DEF SecretsInv, SavesGoOn
    <3> QED BY <1>1, <3>1, <3>2 DEF SaveOf
  <2>2. CASE t = s
    <3>1. f \in FileSet \ shaken' /\ saves'[t] = w
      BY <1>4, <2>2
    <3>2. SavesOf(f) = {} /\ f \notin shaken
      BY <1>6, <3>1
    <3>3. ~stored[f].torn /\ stored[f].has = saved[f]
      BY <3>2 DEF SecretsInv, FilesHoldWhatWasSaved
    <3> QED BY <1>1, <3>1, <3>3 DEF SaveOf
  <2> QED BY <2>1, <2>2
<1>9. FilesHoldWhatWasSaved'
  <2> SUFFICES ASSUME NEW g \in FileSet \ shaken', SavesOf(g)' = {}
               PROVE  (~stored[g].torn /\ stored[g].has = saved[g])'
    BY DEF FilesHoldWhatWasSaved
  <2>1. SavesOf(g) = {}
    BY <1>1, <1>4 DEF SavesOf, OthersStay
  <2>2. g \notin shaken
    BY <1>6
  <2> QED BY <1>1, <2>1, <2>2 DEF SecretsInv, FilesHoldWhatWasSaved
<1>10. SavesNeedGateway'
  BY <1>1 DEF SavesNeedGateway
<1> QED BY <1>5, <1>7, <1>8, <1>9, <1>10 DEF SecretsInv

\* A step of one save, which leaves the other files alone, and the other saves unless
\* they write the same file.
LEMMA SaveStep ==
  ASSUME SecretsInv, NEW s \in SaveSlots, saves[s] # NothingSaved, NEW f \in {saves[s].file},
         \A t \in SaveSlots \ {s} :
           \/ saves'[t] = saves[t]
           \/ saves[t] # NothingSaved /\ saves[t].file = f /\ saves'[t] # NothingSaved /\ saves'[t].file = f,
         saves'[s] = NothingSaved \/ saves'[s].file = f,
         \A g \in FileSet \ {f} : stored'[g] = stored[g] /\ saved'[g] = saved[g],
         f \notin shaken =>
           IF saves'[s] = NothingSaved THEN ~stored'[f].torn /\ stored'[f].has = saved'[f]
           ELSE SaveOf(saves[s])',
         shaken' = shaken, gatewayUp' = gatewayUp
  PROVE  OneSave' /\ SavesGoOn' /\ FilesHoldWhatWasSaved' /\ SavesNeedGateway'
<1>1. f \in FileSet /\ gatewayUp = "running"
  BY DEF SecretsInv, SecretsTypeOK, SaveStates, SavesNeedGateway
<1>2. \A t \in SaveSlots : saves'[t] # NothingSaved =>
        saves[t] # NothingSaved /\ saves'[t].file = saves[t].file
  OBVIOUS
<1>3. OneSave'
  BY <1>2 DEF OneSave, SecretsInv
<1>4. ASSUME f \notin shaken, NEW t \in SaveSlots, t # s
      PROVE  saves'[t] = saves[t] /\ (saves[t] = NothingSaved \/ saves[t].file # f)
  BY <1>1, <1>4 DEF OneSave, SecretsInv
<1>5. SavesGoOn'
  <2> SUFFICES ASSUME NEW t \in SaveSlots, saves'[t] # NothingSaved, saves'[t].file \notin shaken'
               PROVE  SaveOf(saves[t])'
    BY DEF SavesGoOn
  <2>1. CASE t = s
    BY <2>1
  <2>2. CASE t # s /\ saves'[t].file = f
    BY <1>4, <2>2
  <2>3. CASE t # s /\ saves'[t].file # f
    <3>1. saves'[t] = saves[t]
      BY <2>3
    <3>2. saves[t].file \in FileSet \ {f}
      BY <2>3, <3>1 DEF SecretsInv, SecretsTypeOK, SaveStates
    <3>3. SaveOf(saves[t])
      BY <3>1 DEF SecretsInv, SavesGoOn
    <3> QED BY <3>1, <3>2, <3>3 DEF SaveOf
  <2> QED BY <2>1, <2>2, <2>3
<1>6. FilesHoldWhatWasSaved'
  <2> SUFFICES ASSUME NEW g \in FileSet \ shaken', SavesOf(g)' = {}
               PROVE  (~stored[g].torn /\ stored[g].has = saved[g])'
    BY DEF FilesHoldWhatWasSaved
  <2>1. CASE g = f
    <3>1. saves'[s] = NothingSaved
      BY <2>1 DEF SavesOf
    <3> QED BY <2>1, <3>1
  <2>2. CASE g # f
    <3>1. SavesOf(g) = {}
      BY <2>2 DEF SavesOf
    <3> QED BY <2>2, <3>1 DEF SecretsInv, FilesHoldWhatWasSaved
  <2> QED BY <2>1, <2>2
<1>7. SavesNeedGateway'
  BY <1>1 DEF SavesNeedGateway
<1> QED BY <1>3, <1>5, <1>6, <1>7

\* The types, when no value is saved and the panel stays.
LEMMA TypesKept ==
  ASSUME SecretsTypeOK, UNCHANGED <<nameOf, gatewayUp, revealed>>,
         stored' \in [FileSet -> [torn : BOOLEAN, has : Holding(nameOf)]],
         saved' \in [FileSet -> [SecretNames -> Nat]],
         saves' \in [SaveSlots -> {NothingSaved} \cup SaveStates],
         \A s \in SaveSlots :
           saves'[s] # NothingSaved =>
             /\ saves'[s].existing \in Holding(nameOf)
             /\ saves'[s].value \in DOMAIN nameOf /\ nameOf[saves'[s].value] = saves'[s].name,
         reveals' = reveals
  PROVE  SecretsTypeOK'
BY DEF SecretsTypeOK

\* A save is one of the states, with values that are its own.
LEMMA SaveIs ==
  ASSUME SecretsInv, NEW s \in SaveSlots, saves[s] # NothingSaved
  PROVE  /\ saves[s] \in SaveStates /\ saves[s].existing \in Holding(nameOf)
         /\ saves[s].value \in DOMAIN nameOf /\ nameOf[saves[s].value] = saves[s].name
         /\ saves[s].file \notin shaken => SaveOf(saves[s])
BY DEF SecretsInv, SecretsTypeOK, SavesGoOn

LEMMA ReadExistingKeeps ==
  ASSUME SecretsInv, NEW s \in SaveSlots, ReadExisting(s)
  PROVE  SecretsInv'
<1> DEFINE f == saves[s].file
           read == IF stored[f].torn THEN Nothing ELSE stored[f].has
           w == [saves[s] EXCEPT !.phase = "read", !.existing = read]
<1>1. saves[s] # NothingSaved /\ saves[s].phase = "sent"
  BY DEF ReadExisting, NothingSaved
<1>2. /\ saves' = [saves EXCEPT ![s] = w]
      /\ UNCHANGED <<stored, nameOf, gatewayUp, revealed, reveals, saved, shaken>>
  BY DEF ReadExisting, storeOf, panelVars
<1>3. SecretsTypeOK
  BY DEF SecretsInv
<1>4. saves[s] \in SaveStates
  BY <1>1, SaveIs
<1>5. read \in Holding(nameOf) /\ f \in FileSet
  BY <1>3, <1>4, NothingIsHeld DEF SaveStates, SecretsTypeOK
<1>6. w \in SaveStates
  BY <1>4, <1>5 DEF SaveStates, Holding
<1>7. saves \in [SaveSlots -> {NothingSaved} \cup SaveStates]
  BY <1>3 DEF SecretsTypeOK
<1>8. /\ w.phase = "read" /\ w.existing = read /\ w.under = saves[s].under
      /\ w.file = f /\ w.value = saves[s].value /\ w.name = saves[s].name
      /\ w # NothingSaved
  BY <1>4 DEF SaveStates, NothingSaved
<1>9. SecretsTypeOK'
  <2>1. saves' \in [SaveSlots -> {NothingSaved} \cup SaveStates]
    <3> HIDE DEF w
    <3> QED BY <1>2, <1>6, <1>7
  <2>2. ASSUME NEW t \in SaveSlots, saves'[t] # NothingSaved
        PROVE  /\ saves'[t].existing \in Holding(nameOf)
               /\ saves'[t].value \in DOMAIN nameOf /\ nameOf[saves'[t].value] = saves'[t].name
    <3>1. CASE t = s
      <4>1. saves'[t] = w
        BY <1>2, <1>7, <3>1
      <4> QED BY <1>1, <1>5, <1>8, <4>1, SaveIs
    <3>2. CASE t # s
      <4>1. saves'[t] = saves[t]
        BY <1>2, <1>7, <3>2
      <4> QED BY <2>2, <4>1, SaveIs
    <3> QED BY <3>1, <3>2
  <2>3. /\ stored' \in [FileSet -> [torn : BOOLEAN, has : Holding(nameOf)]]
        /\ saved' \in [FileSet -> [SecretNames -> Nat]]
    BY <1>2, <1>3 DEF SecretsTypeOK
  <2> QED BY <1>2, <1>3, <2>1, <2>2, <2>3, TypesKept
<1>10. saves'[s] = w /\ \A t \in SaveSlots \ {s} : saves'[t] = saves[t]
  BY <1>2, <1>7
<1>11. ASSUME f \notin shaken PROVE SaveOf(saves[s])'
  <2>1. SaveOf(saves[s])
    BY <1>1, <1>11, SaveIs
  <2>2. ~stored[f].torn /\ stored[f].has = saved[f] /\ saves[s].under = FALSE
    BY <1>1, <2>1 DEF SaveOf
  <2> HIDE DEF w
  <2> QED BY <1>2, <1>8, <1>10, <2>2 DEF SaveOf
<1>12. OneSave' /\ SavesGoOn' /\ FilesHoldWhatWasSaved' /\ SavesNeedGateway'
  <2>1. \A g \in FileSet \ {f} : stored'[g] = stored[g] /\ saved'[g] = saved[g]
    BY <1>2
  <2>2. f \in {saves[s].file} /\ shaken' = shaken /\ gatewayUp' = gatewayUp
    BY <1>2
  <2> HIDE DEF w, f
  <2> QED BY <1>1, <1>8, <1>10, <1>11, <2>1, <2>2, SaveStep
<1> QED BY <1>9, <1>12 DEF SecretsInv

LEMMA TruncateKeeps ==
  ASSUME SecretsInv, NEW s \in SaveSlots, Truncate(s)
  PROVE  SecretsInv'
<1> DEFINE f == saves[s].file
           w == [saves[s] EXCEPT !.phase = "writing"]
           at == [stored[f] EXCEPT !.torn = TRUE]
<1>1. saves[s] # NothingSaved /\ saves[s].phase = "read"
  BY DEF Truncate, NothingSaved
<1>2. /\ saves' = [saves EXCEPT ![s] = w] /\ stored' = [stored EXCEPT ![f] = at]
      /\ UNCHANGED <<nameOf, gatewayUp, revealed, reveals, saved, shaken>>
  BY DEF Truncate, storeOf, panelVars
<1>3. SecretsTypeOK
  BY DEF SecretsInv
<1>4. saves[s] \in SaveStates /\ f \in FileSet
  BY <1>1, SaveIs DEF SaveStates
<1>5. at \in [torn : BOOLEAN, has : Holding(nameOf)]
  BY <1>3, <1>4 DEF SecretsTypeOK
<1>6. w \in SaveStates
  BY <1>4 DEF SaveStates
<1>7. saves \in [SaveSlots -> {NothingSaved} \cup SaveStates]
  BY <1>3 DEF SecretsTypeOK
<1>8. /\ w.phase = "writing" /\ w.existing = saves[s].existing /\ w.under = saves[s].under
      /\ w.file = f /\ w.value = saves[s].value /\ w.name = saves[s].name
      /\ w # NothingSaved
  BY <1>4 DEF SaveStates, NothingSaved
<1>9. saves'[s] = w /\ \A t \in SaveSlots \ {s} : saves'[t] = saves[t]
  BY <1>2, <1>7
<1>10. stored \in [FileSet -> [torn : BOOLEAN, has : Holding(nameOf)]]
  BY <1>3 DEF SecretsTypeOK
<1>11. SecretsTypeOK'
  <2>1. saves' \in [SaveSlots -> {NothingSaved} \cup SaveStates]
    <3> HIDE DEF w
    <3> QED BY <1>2, <1>6, <1>7
  <2>2. ASSUME NEW t \in SaveSlots, saves'[t] # NothingSaved
        PROVE  /\ saves'[t].existing \in Holding(nameOf)
               /\ saves'[t].value \in DOMAIN nameOf /\ nameOf[saves'[t].value] = saves'[t].name
    <3>1. CASE t = s
      <4> HIDE DEF w, f
      <4> QED BY <1>1, <1>8, <1>9, <3>1, SaveIs
    <3>2. CASE t # s
      BY <1>9, <2>2, <3>2, SaveIs
    <3> QED BY <3>1, <3>2
  <2>3. stored' \in [FileSet -> [torn : BOOLEAN, has : Holding(nameOf)]]
    <3> HIDE DEF at, f
    <3> QED BY <1>2, <1>4, <1>5, <1>10
  <2>4. saved' \in [FileSet -> [SecretNames -> Nat]]
    BY <1>2, <1>3 DEF SecretsTypeOK
  <2> QED BY <1>2, <1>3, <2>1, <2>2, <2>3, <2>4, TypesKept
<1>12. ASSUME f \notin shaken PROVE SaveOf(saves[s])'
  <2>1. saves[s].existing = saved[f] /\ saves[s].under = FALSE
    BY <1>1, <1>12, SaveIs DEF SaveOf
  <2> HIDE DEF w
  <2> QED BY <1>2, <1>8, <1>9, <2>1 DEF SaveOf
<1>13. OneSave' /\ SavesGoOn' /\ FilesHoldWhatWasSaved' /\ SavesNeedGateway'
  <2>1. \A g \in FileSet \ {f} : stored'[g] = stored[g] /\ saved'[g] = saved[g]
    BY <1>2, <1>10
  <2>2. f \in {saves[s].file} /\ shaken' = shaken /\ gatewayUp' = gatewayUp
    BY <1>2
  <2> HIDE DEF w, f
  <2> QED BY <1>1, <1>8, <1>9, <1>12, <2>1, <2>2, SaveStep
<1> QED BY <1>11, <1>13 DEF SecretsInv

LEMMA WriteSecretsKeeps ==
  ASSUME SecretsInv, NEW s \in SaveSlots, WriteSecrets(s)
  PROVE  SecretsInv'
<1> DEFINE f == saves[s].file
           w == [saves[s] EXCEPT !.phase = "written"]
           under(t) == [saves[t] EXCEPT !.under = TRUE]
           has == [saves[s].existing EXCEPT ![saves[s].name] = saves[s].value]
<1>1. saves[s] # NothingSaved /\ saves[s].phase = "writing"
  BY DEF WriteSecrets, NothingSaved
<1>2. PICK left \in BOOLEAN :
        (left => saves[s].under) /\ stored' = [stored EXCEPT ![f] = [torn |-> left, has |-> has]]
  BY DEF WriteSecrets
<1>3. /\ saves' = [t \in SaveSlots |->
                    IF t = s THEN w
                    ELSE IF saves[t].phase = "writing" /\ saves[t].file = f THEN under(t) ELSE saves[t]]
      /\ UNCHANGED <<nameOf, gatewayUp, revealed, reveals, saved, shaken>>
  BY DEF WriteSecrets, storeOf, panelVars
<1>4. SecretsTypeOK
  BY DEF SecretsInv
<1>5. /\ saves[s] \in SaveStates /\ f \in FileSet /\ saves[s].name \in SecretNames
      /\ saves[s].value \in Nat /\ saves[s].existing \in Holding(nameOf)
      /\ saves[s].value \in DOMAIN nameOf /\ nameOf[saves[s].value] = saves[s].name
  BY <1>1, SaveIs DEF SaveStates
<1>6. has \in Holding(nameOf)
  <2>1. nameOf \in Seq(SecretNames)
    BY <1>4 DEF SecretsTypeOK
  <2> HIDE DEF f
  <2> QED BY <1>5, <2>1, HoldsOneMore
<1>7. /\ w \in SaveStates
      /\ w.phase = "written" /\ w.existing = saves[s].existing
      /\ w.file = f /\ w.value = saves[s].value /\ w.name = saves[s].name
      /\ w # NothingSaved
  BY <1>5 DEF SaveStates, NothingSaved
<1>8. ASSUME NEW t \in SaveSlots, saves[t].phase = "writing" /\ saves[t].file = f
      PROVE  /\ saves[t] # NothingSaved /\ under(t) \in SaveStates /\ under(t) # NothingSaved
             /\ under(t).existing = saves[t].existing /\ under(t).file = saves[t].file
             /\ under(t).value = saves[t].value /\ under(t).name = saves[t].name
  <2>1. saves[t] # NothingSaved
    BY <1>8 DEF NothingSaved
  <2>2. saves[t] \in SaveStates
    BY <2>1, SaveIs
  <2> QED BY <1>8, <2>1, <2>2 DEF SaveStates, NothingSaved
<1>9. saves \in [SaveSlots -> {NothingSaved} \cup SaveStates]
  BY <1>4 DEF SecretsTypeOK
<1>10. /\ saves'[s] = w
       /\ \A t \in SaveSlots \ {s} :
            saves'[t] = IF saves[t].phase = "writing" /\ saves[t].file = f THEN under(t) ELSE saves[t]
  BY <1>3
<1>11. stored \in [FileSet -> [torn : BOOLEAN, has : Holding(nameOf)]]
  BY <1>4 DEF SecretsTypeOK
<1>12. SecretsTypeOK'
  <2>1. saves' \in [SaveSlots -> {NothingSaved} \cup SaveStates]
    <3> HIDE DEF w, under, f
    <3> QED BY <1>3, <1>7, <1>8, <1>9
  <2>2. ASSUME NEW t \in SaveSlots, saves'[t] # NothingSaved
        PROVE  /\ saves'[t].existing \in Holding(nameOf)
               /\ saves'[t].value \in DOMAIN nameOf /\ nameOf[saves'[t].value] = saves'[t].name
    <3> HIDE DEF w, f, under
    <3>1. CASE t = s
      BY <1>5, <1>7, <1>10, <3>1
    <3>2. CASE t # s /\ saves[t].phase = "writing" /\ saves[t].file = f
      BY <1>8, <1>10, <3>2, SaveIs
    <3>3. CASE t # s /\ ~(saves[t].phase = "writing" /\ saves[t].file = f)
      BY <1>10, <2>2, <3>3, SaveIs
    <3> QED BY <3>1, <3>2, <3>3
  <2>3. stored' \in [FileSet -> [torn : BOOLEAN, has : Holding(nameOf)]]
    <3> HIDE DEF has, f
    <3> QED BY <1>2, <1>5, <1>6, <1>11
  <2>4. saved' \in [FileSet -> [SecretNames -> Nat]]
    BY <1>3, <1>4 DEF SecretsTypeOK
  <2> QED BY <1>3, <1>4, <2>1, <2>2, <2>3, <2>4, TypesKept
<1>13. ASSUME f \notin shaken PROVE SaveOf(saves[s])'
  <2>1. saves[s].existing = saved[f] /\ saves[s].under = FALSE
    BY <1>1, <1>13, SaveIs DEF SaveOf
  <2>2. stored'[f] = [torn |-> left, has |-> has] /\ left = FALSE
    BY <1>2, <1>5, <1>11, <2>1
  <2> HIDE DEF w
  <2> QED BY <1>3, <1>7, <1>10, <2>1, <2>2 DEF SaveOf
<1>14. OneSave' /\ SavesGoOn' /\ FilesHoldWhatWasSaved' /\ SavesNeedGateway'
  <2>1. \A g \in FileSet \ {f} : stored'[g] = stored[g] /\ saved'[g] = saved[g]
    BY <1>2, <1>3, <1>11
  <2>2. f \in {saves[s].file} /\ shaken' = shaken /\ gatewayUp' = gatewayUp
    BY <1>3
  <2>3. \A t \in SaveSlots \ {s} :
          \/ saves'[t] = saves[t]
          \/ saves[t] # NothingSaved /\ saves[t].file = f /\ saves'[t] # NothingSaved /\ saves'[t].file = f
    <3> HIDE DEF w, f, under
    <3> QED BY <1>8, <1>10
  <2> HIDE DEF w, f
  <2> QED BY <1>1, <1>7, <1>10, <1>13, <2>1, <2>2, <2>3, SaveStep
<1> QED BY <1>12, <1>14 DEF SecretsInv

LEMMA RespondKeeps ==
  ASSUME SecretsInv, NEW s \in SaveSlots, Respond(s)
  PROVE  SecretsInv'
<1> DEFINE f == saves[s].file
           has == [saved[f] EXCEPT ![saves[s].name] = saves[s].value]
<1>1. saves[s] # NothingSaved /\ saves[s].phase = "written"
  BY DEF Respond, NothingSaved
<1>2. /\ saves' = [saves EXCEPT ![s] = NothingSaved] /\ saved' = [saved EXCEPT ![f] = has]
      /\ UNCHANGED <<stored, nameOf, gatewayUp, revealed, reveals, shaken>>
  BY DEF Respond, Settled, storeOf
<1>3. SecretsTypeOK
  BY DEF SecretsInv
<1>4. f \in FileSet /\ saves[s].name \in SecretNames /\ saves[s].value \in Nat
  BY <1>1, SaveIs DEF SaveStates
<1>5. /\ saves \in [SaveSlots -> {NothingSaved} \cup SaveStates]
      /\ saved \in [FileSet -> [SecretNames -> Nat]]
  BY <1>3 DEF SecretsTypeOK
<1>6. saves'[s] = NothingSaved /\ \A t \in SaveSlots \ {s} : saves'[t] = saves[t]
  BY <1>2, <1>5
<1>7. SecretsTypeOK'
  <2>1. saves' \in [SaveSlots -> {NothingSaved} \cup SaveStates]
    BY <1>2, <1>5
  <2>2. ASSUME NEW t \in SaveSlots, saves'[t] # NothingSaved
        PROVE  /\ saves'[t].existing \in Holding(nameOf)
               /\ saves'[t].value \in DOMAIN nameOf /\ nameOf[saves'[t].value] = saves'[t].name
    BY <1>6, <2>2, SaveIs
  <2>3. stored' \in [FileSet -> [torn : BOOLEAN, has : Holding(nameOf)]]
    BY <1>2, <1>3 DEF SecretsTypeOK
  <2>4. saved' \in [FileSet -> [SecretNames -> Nat]]
    <3>1. has \in [SecretNames -> Nat]
      BY <1>4, <1>5
    <3> HIDE DEF has, f
    <3> QED BY <1>2, <1>4, <1>5, <3>1
  <2> QED BY <1>2, <1>3, <2>1, <2>2, <2>3, <2>4, TypesKept
<1>8. ASSUME f \notin shaken PROVE ~stored'[f].torn /\ stored'[f].has = saved'[f]
  BY <1>1, <1>2, <1>4, <1>5, <1>8, SaveIs DEF SaveOf
<1>9. OneSave' /\ SavesGoOn' /\ FilesHoldWhatWasSaved' /\ SavesNeedGateway'
  <2>1. \A g \in FileSet \ {f} : stored'[g] = stored[g] /\ saved'[g] = saved[g]
    BY <1>2, <1>5
  <2>2. f \in {saves[s].file} /\ shaken' = shaken /\ gatewayUp' = gatewayUp
    BY <1>2
  <2> HIDE DEF f
  <2> QED BY <1>1, <1>6, <1>8, <2>1, <2>2, SaveStep
<1> QED BY <1>7, <1>9 DEF SecretsInv

LEMMA RefuseSaveKeeps ==
  ASSUME SecretsInv, NEW s \in SaveSlots, RefuseSave(s)
  PROVE  SecretsInv'
<1> DEFINE f == saves[s].file
<1>1. saves[s] # NothingSaved /\ saves[s].phase = "sent"
  BY DEF RefuseSave, NothingSaved
<1>2. /\ saves' = [saves EXCEPT ![s] = NothingSaved]
      /\ UNCHANGED <<stored, nameOf, gatewayUp, revealed, reveals, saved, shaken>>
  BY DEF RefuseSave, Settled, storeOf
<1>3. SecretsTypeOK
  BY DEF SecretsInv
<1>4. saves \in [SaveSlots -> {NothingSaved} \cup SaveStates]
  BY <1>3 DEF SecretsTypeOK
<1>5. saves'[s] = NothingSaved /\ \A t \in SaveSlots \ {s} : saves'[t] = saves[t]
  BY <1>2, <1>4
<1>6. SecretsTypeOK'
  <2>1. saves' \in [SaveSlots -> {NothingSaved} \cup SaveStates]
    BY <1>2, <1>4
  <2>2. ASSUME NEW t \in SaveSlots, saves'[t] # NothingSaved
        PROVE  /\ saves'[t].existing \in Holding(nameOf)
               /\ saves'[t].value \in DOMAIN nameOf /\ nameOf[saves'[t].value] = saves'[t].name
    BY <1>5, <2>2, SaveIs
  <2>3. /\ stored' \in [FileSet -> [torn : BOOLEAN, has : Holding(nameOf)]]
        /\ saved' \in [FileSet -> [SecretNames -> Nat]]
    BY <1>2, <1>3 DEF SecretsTypeOK
  <2> QED BY <1>2, <1>3, <2>1, <2>2, <2>3, TypesKept
<1>7. ASSUME f \notin shaken PROVE ~stored'[f].torn /\ stored'[f].has = saved'[f]
  BY <1>1, <1>2, <1>7, SaveIs DEF SaveOf
<1>8. OneSave' /\ SavesGoOn' /\ FilesHoldWhatWasSaved' /\ SavesNeedGateway'
  <2>1. \A g \in FileSet \ {f} : stored'[g] = stored[g] /\ saved'[g] = saved[g]
    BY <1>2
  <2>2. f \in {saves[s].file} /\ shaken' = shaken /\ gatewayUp' = gatewayUp
    BY <1>2
  <2> HIDE DEF f
  <2> QED BY <1>1, <1>5, <1>7, <2>1, <2>2, SaveStep
<1> QED BY <1>6, <1>8 DEF SecretsInv

RevealStates == [phase : {"asked", "answered", "done"}, name : SecretNames, value : Nat]

\* What the panel shows and asks for disturbs no save.
LEMMA PanelKeeps ==
  ASSUME SecretsInv, UNCHANGED <<stored, saves, nameOf, saved, shaken>>,
         gatewayUp' = gatewayUp \/ (gatewayUp # "running" /\ gatewayUp' \in {"running", "refused"}),
         revealed' \in Holding(nameOf), reveals' \in Seq(RevealStates),
         \A r \in DOMAIN reveals' :
           reveals'[r].value # 0 =>
             reveals'[r].value \in DOMAIN nameOf /\ nameOf[reveals'[r].value] = reveals'[r].name
  PROVE  SecretsInv'
<1>1. SecretsTypeOK'
  BY DEF SecretsInv, SecretsTypeOK, RevealStates
<1>2. SavesNeedGateway'
  BY DEF SecretsInv, SavesNeedGateway
<1>3. OneSave'
  BY DEF SecretsInv, OneSave
<1>4. SavesGoOn'
  BY DEF SecretsInv, SavesGoOn, SaveOf
<1>5. FilesHoldWhatWasSaved'
  BY DEF SecretsInv, FilesHoldWhatWasSaved, SavesOf
<1> QED BY <1>1, <1>2, <1>3, <1>4, <1>5 DEF SecretsInv

LEMMA RevealTypes ==
  ASSUME SecretsInv
  PROVE  /\ nameOf \in Seq(SecretNames)
         /\ revealed \in Holding(nameOf) /\ reveals \in Seq(RevealStates)
         /\ \A r \in DOMAIN reveals :
              /\ reveals[r] \in RevealStates
              /\ reveals[r].value # 0 =>
                   reveals[r].value \in DOMAIN nameOf /\ nameOf[reveals[r].value] = reveals[r].name
<1>1. /\ nameOf \in Seq(SecretNames)
      /\ revealed \in Holding(nameOf) /\ reveals \in Seq(RevealStates)
      /\ \A r \in DOMAIN reveals :
           reveals[r].value # 0 =>
             reveals[r].value \in DOMAIN nameOf /\ nameOf[reveals[r].value] = reveals[r].name
  BY DEF SecretsInv, SecretsTypeOK, RevealStates
<1>2. \A r \in DOMAIN reveals : reveals[r] \in RevealStates
  BY <1>1
<1> QED BY <1>1, <1>2

LEMMA LoadSecretsKeeps ==
  ASSUME SecretsInv, LoadSecrets
  PROVE  SecretsInv'
<1>1. /\ UNCHANGED <<stored, saves, nameOf, saved, shaken, revealed, reveals>>
      /\ gatewayUp # "running" /\ gatewayUp' \in {"running", "refused"}
  BY DEF LoadSecrets, panelVars
<1> QED BY <1>1, RevealTypes, PanelKeeps

\* An element of a sequence to which one was appended.
LEMMA AppendedOr ==
  ASSUME NEW S, NEW q \in Seq(S), NEW e \in S, NEW i \in DOMAIN Append(q, e)
  PROVE  Append(q, e)[i] = e \/ (i \in DOMAIN q /\ Append(q, e)[i] = q[i])
<1>1. i \in 1..Len(q) + 1 /\ Len(q) \in Nat
  OBVIOUS
<1>2. CASE i = Len(q) + 1
  BY <1>2
<1>3. CASE i \in 1..Len(q)
  BY <1>3
<1> QED BY <1>1, <1>2, <1>3

LEMMA ToggleKeeps ==
  ASSUME SecretsInv, NEW n \in SecretNames, Toggle(n)
  PROVE  SecretsInv'
<1>1. UNCHANGED <<stored, saves, nameOf, saved, shaken, gatewayUp>>
  BY DEF Toggle, storeOf
<1>2. CASE revealed' = [revealed EXCEPT ![n] = 0] /\ reveals' = reveals
  <2>1. revealed' \in Holding(nameOf)
    BY <1>2, RevealTypes, HoldsOneMore
  <2> QED BY <1>1, <1>2, <2>1, RevealTypes, PanelKeeps
<1>3. CASE reveals' = Append(reveals, [phase |-> "asked", name |-> n, value |-> 0]) /\ revealed' = revealed
  <2> DEFINE w == [phase |-> "asked", name |-> n, value |-> 0]
  <2>1. w \in RevealStates /\ w.value = 0
    BY DEF RevealStates
  <2> HIDE DEF w
  <2>2. reveals' \in Seq(RevealStates)
    BY <1>3, <2>1, RevealTypes DEF w
  <2>3. ASSUME NEW r \in DOMAIN reveals' PROVE reveals'[r] = w \/ (r \in DOMAIN reveals /\ reveals'[r] = reveals[r])
    <3>1. reveals \in Seq(RevealStates) /\ reveals' = Append(reveals, w)
      BY <1>3, RevealTypes DEF w
    <3> QED BY <2>1, <2>3, <3>1, AppendedOr
  <2> QED BY <1>1, <1>3, <2>1, <2>2, <2>3, RevealTypes, PanelKeeps
<1> QED BY <1>2, <1>3 DEF Toggle

LEMMA ServeRevealKeeps ==
  ASSUME SecretsInv, NEW r \in DOMAIN reveals, ServeReveal(r)
  PROVE  SecretsInv'
<1>1. UNCHANGED <<stored, saves, nameOf, saved, shaken, gatewayUp, revealed>>
  BY DEF ServeReveal, storeOf
<1>2. PICK value \in {Lookup(reveals[r].name), 0} :
        reveals' = [reveals EXCEPT ![r].phase = "answered", ![r].value = value]
  BY DEF ServeReveal
<1> DEFINE w == [reveals[r] EXCEPT !.phase = "answered", !.value = value]
<1>3. reveals[r] \in RevealStates
  BY RevealTypes
<1>4. value \in Nat /\ (value # 0 => value \in DOMAIN nameOf /\ nameOf[value] = reveals[r].name)
  BY <1>3, LookupIs DEF SecretsInv, RevealStates
<1>5. w \in RevealStates /\ w.value = value /\ w.name = reveals[r].name
  BY <1>3, <1>4 DEF RevealStates
<1>6. reveals' = [reveals EXCEPT ![r] = w]
  BY <1>2
<1> HIDE DEF w
<1>7. /\ reveals' \in Seq(RevealStates)
      /\ \A q \in DOMAIN reveals' : q \in DOMAIN reveals /\ reveals'[q] = IF q = r THEN w ELSE reveals[q]
  BY <1>5, <1>6, RevealTypes
<1> QED BY <1>1, <1>4, <1>5, <1>7, RevealTypes, PanelKeeps

LEMMA RevealAnsweredKeeps ==
  ASSUME SecretsInv, NEW r \in DOMAIN reveals, RevealAnswered(r)
  PROVE  SecretsInv'
<1>1. UNCHANGED <<stored, saves, nameOf, saved, shaken, gatewayUp>>
  BY DEF RevealAnswered, storeOf
<1> DEFINE w == [reveals[r] EXCEPT !.phase = "done"]
<1>2. reveals[r] \in RevealStates /\ reveals' = [reveals EXCEPT ![r] = w]
  BY RevealTypes DEF RevealAnswered
<1>3. w \in RevealStates /\ w.value = reveals[r].value /\ w.name = reveals[r].name
  BY <1>2 DEF RevealStates
<1>4. revealed' \in Holding(nameOf)
  BY <1>2, RevealTypes, HoldsOneMore DEF RevealAnswered, Shown, RevealStates
<1> HIDE DEF w
<1>5. /\ reveals' \in Seq(RevealStates)
      /\ \A q \in DOMAIN reveals' : q \in DOMAIN reveals /\ reveals'[q] = IF q = r THEN w ELSE reveals[q]
  BY <1>2, <1>3, RevealTypes
<1> QED BY <1>1, <1>3, <1>4, <1>5, RevealTypes, PanelKeeps

LEMMA ExitsKeeps ==
  ASSUME SecretsInv, Exits
  PROVE  SecretsInv'
<1>1. /\ UNCHANGED <<stored, nameOf, revealed, saved>>
      /\ gatewayUp' = "down" /\ saves' = [s \in SaveSlots |-> NothingSaved]
      /\ shaken' = shaken \cup {saves[s].file : s \in {t \in SaveSlots : saves[t].phase \in {"writing", "written"}}}
      /\ reveals' = [r \in DOMAIN reveals |-> IF reveals[r].phase = "asked"
                                                THEN [reveals[r] EXCEPT !.phase = "answered"] ELSE reveals[r]]
  BY DEF Exits
<1>2. /\ reveals' \in Seq(RevealStates)
      /\ \A r \in DOMAIN reveals' :
           r \in DOMAIN reveals /\ reveals'[r].value = reveals[r].value /\ reveals'[r].name = reveals[r].name
  <2> DEFINE w(r) == IF reveals[r].phase = "asked" THEN [reveals[r] EXCEPT !.phase = "answered"] ELSE reveals[r]
  <2>1. ASSUME NEW r \in DOMAIN reveals
        PROVE  w(r) \in RevealStates /\ w(r).value = reveals[r].value /\ w(r).name = reveals[r].name
    BY <2>1, RevealTypes DEF RevealStates
  <2>2. reveals \in Seq(RevealStates) /\ reveals' = [r \in DOMAIN reveals |-> w(r)]
    BY <1>1, RevealTypes
  <2>3. DOMAIN reveals = 1..Len(reveals) /\ Len(reveals) \in Nat
    BY <2>2
  <2> HIDE DEF w
  <2> QED BY <2>1, <2>2, <2>3
<1>3. SecretsTypeOK'
  <2>1. (\A r \in DOMAIN reveals :
           reveals[r].value # 0 =>
             reveals[r].value \in DOMAIN nameOf /\ nameOf[reveals[r].value] = reveals[r].name)'
    BY <1>1, <1>2, RevealTypes
  <2>2. (reveals \in Seq([phase : {"asked", "answered", "done"}, name : SecretNames, value : Nat]))'
    BY <1>2 DEF RevealStates
  <2>3. (saves \in [SaveSlots -> {NothingSaved} \cup SaveStates])'
    BY <1>1
  <2>4. (\A s \in SaveSlots :
           saves[s] # NothingSaved =>
             /\ saves[s].existing \in Holding(nameOf)
             /\ saves[s].value \in DOMAIN nameOf /\ nameOf[saves[s].value] = saves[s].name)'
    BY <1>1
  <2>5. /\ nameOf' \in Seq(SecretNames)
        /\ stored' \in [FileSet -> [torn : BOOLEAN, has : Holding(nameOf')]]
        /\ saved' \in [FileSet -> [SecretNames -> Nat]]
        /\ gatewayUp' \in {"running", "down", "refused"}
        /\ revealed' \in Holding(nameOf')
    BY <1>1 DEF SecretsInv, SecretsTypeOK
  <2> QED BY <2>1, <2>2, <2>3, <2>4, <2>5 DEF SecretsTypeOK
<1>4. \A s \in SaveSlots : saves'[s] = NothingSaved
  BY <1>1
<1>5. FilesHoldWhatWasSaved'
  <2> SUFFICES ASSUME NEW f \in FileSet \ shaken'
               PROVE  ~stored[f].torn /\ stored[f].has = saved[f]
    BY <1>1 DEF FilesHoldWhatWasSaved
  <2>1. f \notin shaken
    BY <1>1
  <2>2. CASE SavesOf(f) = {}
    BY <2>1, <2>2 DEF SecretsInv, FilesHoldWhatWasSaved
  <2>3. CASE SavesOf(f) # {}
    <3>1. PICK s \in SaveSlots : saves[s] # NothingSaved /\ saves[s].file = f
      BY <2>3 DEF SavesOf
    <3>2. saves[s].phase \notin {"writing", "written"}
      BY <1>1, <3>1
    <3>3. SaveOf(saves[s]) /\ saves[s].phase \in {"sent", "read"}
      BY <2>1, <3>1, <3>2, SaveIs DEF SaveStates
    <3> QED BY <3>1, <3>3 DEF SaveOf
  <2> QED BY <2>2, <2>3
<1>6. SavesNeedGateway' /\ OneSave' /\ SavesGoOn'
  BY <1>4 DEF SavesNeedGateway, OneSave, SavesGoOn
<1> QED BY <1>3, <1>5, <1>6 DEF SecretsInv

LEMMA SecretsInitially == SecretsInit => SecretsInv
<1> SUFFICES ASSUME SecretsInit PROVE SecretsInv
  OBVIOUS
<1> DEFINE N == Cardinality(SecretNames)
<1>1. /\ N \in Nat
      /\ nameOf \in [1..N -> SecretNames] /\ \A a, b \in 1..N : nameOf[a] = nameOf[b] => a = b
  <2>1. N \in Nat /\ ExistsBijection(1..N, SecretNames)
    BY SecretsAssumption, FS_CardinalityType
  <2>2. \E g \in [1..N -> SecretNames] : IsInjective(g)
    BY <2>1 DEF ExistsBijection, Bijection, Injection, IsInjective
  <2>3. nameOf \in [1..N -> SecretNames] /\ IsInjective(nameOf)
    BY <2>2 DEF SecretsInit, SetToSeq
  <2> HIDE DEF N
  <2> QED BY <2>1, <2>3 DEF IsInjective
<1>2. \A n \in SecretNames : \E v \in 1..N : nameOf[v] = n
  <2>1. nameOf \in Injection(1..N, SecretNames) /\ IsFiniteSet(SecretNames)
    BY <1>1, SecretsAssumption DEF Injection, IsInjective
  <2>2. Cardinality(1..N) = N
    BY <1>1, FS_Interval
  <2>3. nameOf \in Surjection(1..N, SecretNames)
    BY <2>1, <2>2, FS_Injection
  <2> QED BY <2>3 DEF Surjection
<1>3. nameOf \in Seq(SecretNames) /\ DOMAIN nameOf = 1..N
  BY <1>1
<1> DEFINE first(n) == CHOOSE v \in DOMAIN nameOf : nameOf[v] = n
           has(place, f) == [n \in SecretNames |-> IF place[n] = f THEN first(n) ELSE 0]
<1>4. ASSUME NEW n \in SecretNames PROVE first(n) \in DOMAIN nameOf /\ nameOf[first(n)] = n /\ first(n) \in Nat
  <2>1. first(n) \in DOMAIN nameOf /\ nameOf[first(n)] = n
    BY <1>2, <1>3
  <2> QED BY <1>3, <2>1
<1>5. PICK place \in [SecretNames -> FileSet] : stored = [f \in FileSet |-> [torn |-> FALSE, has |-> has(place, f)]]
  BY DEF SecretsInit
<1>6. ASSUME NEW f \in FileSet PROVE has(place, f) \in Holding(nameOf)
  <2> HIDE DEF first
  <2> QED BY <1>4 DEF Holding
<1> HIDE DEF has
<1>7. stored \in [FileSet -> [torn : BOOLEAN, has : Holding(nameOf)]] /\ \A f \in FileSet : stored[f].torn = FALSE
  BY <1>5, <1>6
<1>8. /\ saved = [f \in FileSet |-> stored[f].has] /\ saves = [s \in SaveSlots |-> NothingSaved]
      /\ gatewayUp = "running" /\ revealed = Nothing /\ reveals = <<>>
  BY DEF SecretsInit
<1>9. saved \in [FileSet -> [SecretNames -> Nat]]
  BY <1>7, <1>8 DEF Holding
<1>10. SecretsTypeOK
  BY <1>3, <1>7, <1>8, <1>9, NothingIsHeld DEF SecretsTypeOK
<1>11. FilesHoldWhatWasSaved
  BY <1>7, <1>8 DEF FilesHoldWhatWasSaved
<1>12. SavesNeedGateway /\ OneSave /\ SavesGoOn
  BY <1>8 DEF SavesNeedGateway, OneSave, SavesGoOn
<1> QED BY <1>10, <1>11, <1>12 DEF SecretsInv

LEMMA SecretsStep == SecretsInv /\ [SecretsNext]_secretVars => SecretsInv'
<1> SUFFICES ASSUME SecretsInv, [SecretsNext]_secretVars PROVE SecretsInv'
  OBVIOUS
<1>1. CASE UNCHANGED <<stored, saves, nameOf, storeOf, revealed, reveals, saved, shaken>>
  BY <1>1, RevealTypes, PanelKeeps DEF storeOf
<1>2. CASE UNCHANGED secretVars
  BY <1>1, <1>2 DEF secretVars, panelVars
<1>3. CASE LoseSave
  BY <1>1, <1>3 DEF LoseSave
<1>4. ASSUME NEW s \in SaveSlots, NEW f \in FileSet, NEW n \in SecretNames,
             OtherSaves(s, f, n) \/ SaveDialog(s, f, n)
      PROVE  SecretsInv'
  BY <1>4, AcceptKeeps DEF OtherSaves, SaveDialog, panelVars
<1>5. CASE \E s \in SaveSlots :
             ReadExisting(s) \/ Truncate(s) \/ WriteSecrets(s) \/ Respond(s) \/ RefuseSave(s)
  BY <1>5, ReadExistingKeeps, TruncateKeeps, WriteSecretsKeeps, RespondKeeps, RefuseSaveKeeps
<1>6. CASE LoadSecrets
  BY <1>6, LoadSecretsKeeps
<1>7. CASE Exits
  BY <1>7, ExitsKeeps
<1>8. CASE \E n \in SecretNames : Toggle(n)
  BY <1>8, ToggleKeeps
<1>9. CASE \E r \in DOMAIN reveals : ServeReveal(r) \/ RevealAnswered(r)
  BY <1>9, ServeRevealKeeps, RevealAnsweredKeeps
<1> QED BY <1>2, <1>3, <1>4, <1>5, <1>6, <1>7, <1>8, <1>9 DEF SecretsNext

\* A name of a file that can be relied on has that value once loading has gone through.
LEMMA LoadingFinds ==
  ASSUME SecretsInv, LoadSecrets
  PROVE  IF gatewayUp' = "running"
           THEN \A f \in FileSet \ shaken : \A n \in SecretNames :
                  saved[f][n] # 0 => loaded'[n] = saved[f][n]
           ELSE \/ shaken # {}
                \/ \E n \in SecretNames, f, g \in FileSet : f # g /\ saved[f][n] # 0 /\ saved[g][n] # 0
<1>0. SecretsTypeOK
  BY DEF SecretsInv
<1>1. \A f \in FileSet \ shaken : ~stored[f].torn /\ stored[f].has = saved[f]
  BY DEF SecretsInv, FilesHoldWhatWasSaved, SavesOf, SavesNeedGateway, LoadSecrets
<1>2. ASSUME NEW n \in SecretNames
      PROVE  /\ IsFiniteSet(HoldersOf(n)) /\ Cardinality(HoldersOf(n)) \in Nat
             /\ Cardinality(HoldersOf(n)) > 1 <=>
                  \E f, g \in FileSet : f # g /\ stored[f].has[n] # 0 /\ stored[g].has[n] # 0
  <2>1. IsFiniteSet(FileSet)
    <3> DEFINE at == [i \in DOMAIN SecretFiles |-> SecretFiles[i]]
    <3>1. DOMAIN SecretFiles = 1..Len(SecretFiles) /\ Len(SecretFiles) \in Nat
      BY SecretsAssumption
    <3>2. IsFiniteSet(DOMAIN SecretFiles)
      BY <3>1, FS_Interval
    <3>3. at \in Surjection(DOMAIN SecretFiles, FileSet)
      BY DEF Surjection, FileSet
    <3> QED BY <3>2, <3>3, FS_Surjection
  <2>2. HoldersOf(n) \in SUBSET FileSet
    BY DEF HoldersOf
  <2>3. IsFiniteSet(HoldersOf(n)) /\ Cardinality(HoldersOf(n)) \in Nat
    BY <2>1, <2>2, FS_Subset, FS_CardinalityType
  <2>4. ASSUME NEW f \in HoldersOf(n), NEW g \in HoldersOf(n), f # g
        PROVE  Cardinality(HoldersOf(n)) > 1
    <3>1. IsFiniteSet({f}) /\ Cardinality({f}) = 1
      BY FS_Singleton
    <3>2. Cardinality({f} \cup {g}) = 2
      <4>1. g \notin {f}
        BY <2>4
      <4>2. Cardinality({f} \cup {g}) = IF g \in {f} THEN Cardinality({f}) ELSE Cardinality({f}) + 1
        BY <3>1, FS_AddElement
      <4> QED BY <3>1, <4>1, <4>2
    <3>3. {f} \cup {g} \in SUBSET HoldersOf(n)
      OBVIOUS
    <3>4. Cardinality({f} \cup {g}) <= Cardinality(HoldersOf(n))
      BY <2>3, <3>3, FS_Subset
    <3> QED BY <2>3, <3>2, <3>4
  <2>5. ASSUME Cardinality(HoldersOf(n)) > 1
        PROVE  \E f, g \in HoldersOf(n) : f # g
    <3>1. HoldersOf(n) # {}
      BY <2>5, FS_EmptySet
    <3>2. PICK f \in HoldersOf(n) : TRUE
      BY <3>1
    <3>3. HoldersOf(n) # {f}
      BY <2>5, FS_Singleton
    <3> QED BY <3>2, <3>3
  <2> QED BY <2>3, <2>4, <2>5 DEF HoldersOf
<1>3. CASE LoadThrows
  <2>1. gatewayUp' # "running"
    BY <1>3 DEF LoadSecrets
  <2>2. CASE \E f \in FileSet : stored[f].torn
    BY <1>1, <2>1, <2>2
  <2>3. CASE \E n \in SecretNames : Cardinality(HoldersOf(n)) > 1
    BY <1>1, <1>2, <2>1, <2>3
  <2> QED BY <1>3, <2>2, <2>3 DEF LoadThrows
<1>4. CASE ~LoadThrows
  <2>1. gatewayUp' = "running" /\ loaded' = [n \in SecretNames |-> Lookup(n)]
    BY <1>4 DEF LoadSecrets
  <2>2. ASSUME NEW f \in FileSet \ shaken, NEW n \in SecretNames, saved[f][n] # 0
        PROVE  Lookup(n) = saved[f][n]
    <3>1. ~stored[f].torn /\ stored[f].has[n] = saved[f][n]
      BY <1>1
    <3>2. \A g \in FileSet : stored[g].has[n] # 0 => g = f
      BY <1>2, <1>4, <2>2, <3>1 DEF LoadThrows
    <3> QED BY <1>0, <2>2, <3>1, <3>2, LookupIs
  <2> QED BY <2>1, <2>2
<1> QED BY <1>3, <1>4

\* Secrets are kept, loaded and shown as they were saved, whatever the files, the names
\* and the number of saves at a time.
THEOREM SecretsAreCorrect == SecretsSpec => SecretsPromise
<1>1. SecretsInv' => FilesHoldWhatWasSaved' /\ RevealsOwnValue'
  <2>1. SecretsInv' => RevealsOwnValue'
    BY DEF SecretsInv, SecretsTypeOK, Holding, RevealsOwnValue
  <2> QED BY <2>1 DEF SecretsInv
<1>2. SecretsInv => [LoadSecrets =>
       IF gatewayUp' = "running"
         THEN \A f \in FileSet \ shaken : \A n \in SecretNames :
                saved[f][n] # 0 => loaded'[n] = saved[f][n]
         ELSE \/ shaken # {}
              \/ \E n \in SecretNames, f, g \in FileSet : f # g /\ saved[f][n] # 0 /\ saved[g][n] # 0]_secretVars
  BY LoadingFinds
<1> QED BY <1>1, <1>2, SecretsInitially, SecretsStep, PTL DEF SecretsSpec, SecretsPromise, LoadsWhatWasSaved
=============================================================================
