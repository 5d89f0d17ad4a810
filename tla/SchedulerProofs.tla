--------------------------- MODULE SchedulerProofs ---------------------------
(***************************************************************************)
(* Proofs about Scheduler, for any sets of tasks, callers and executions;  *)
(* about what its runs ask of the gateway (ScheduledRuns), and about the   *)
(* panels and drawers of the web interface (ImapPanel, MemoryPanel,        *)
(* AttachmentViews, ContentViews), which MCViews puts together.            *)
(***************************************************************************)
EXTENDS MCViews, FiniteSetTheorems, SequenceTheorems, WellFoundedInduction, TLAPS

-----------------------------------------------------------------------------
(* What the helpers on task lists and job tables preserve.                 *)

\* Assigning an id in a task list gives a task list.
LEMMA PutType ==
  ASSUME NEW f \in TaskList, NEW i \in Ids, NEW t \in Task
  PROVE  Put(f, i, t) \in TaskList /\ DOMAIN Put(f, i, t) = DOMAIN f \cup {i}
<1>1. PICK D \in SUBSET Ids : f \in [D -> Task]
  BY DEF TaskList
<1>2. Put(f, i, t) \in [D \cup {i} -> Task]
  BY <1>1 DEF Put
<1>. QED
  BY <1>1, <1>2 DEF TaskList, Put

\* Removing an id from a task list gives a task list.
LEMMA DropType ==
  ASSUME NEW f \in TaskList, NEW i
  PROVE  Drop(f, i) \in TaskList
<1>1. PICK D \in SUBSET Ids : f \in [D -> Task]
  BY DEF TaskList
<1>2. Drop(f, i) \in [D \ {i} -> Task]
  BY <1>1 DEF Drop
<1>. QED
  BY <1>1, <1>2 DEF TaskList

\* Every listed id is an id and is mapped to a task.
LEMMA ListElement ==
  ASSUME NEW f \in TaskList
  PROVE  DOMAIN f \subseteq Ids /\ \A i \in DOMAIN f : f[i] \in Task
BY DEF TaskList

\* Ageing a task list, or marking one of its tasks, gives a task list.
LEMMA AgedType ==
  ASSUME NEW f \in TaskList
  PROVE  Aged(f) \in TaskList
<1>1. PICK D \in SUBSET Ids : f \in [D -> Task]
  BY DEF TaskList
<1>2. Aged(f) \in [D -> Task]
  BY <1>1 DEF Aged, Task, AnyTask
<1>. QED
  BY <1>2 DEF TaskList

\* Replacing the task of a listed id gives a task list.
LEMMA ReplaceType ==
  ASSUME NEW f \in TaskList, NEW i, NEW t \in Task
  PROVE  [f EXCEPT ![i] = t] \in TaskList
<1>1. PICK D \in SUBSET Ids : f \in [D -> Task]
  BY DEF TaskList
<1>2. [f EXCEPT ![i] = t] \in [D -> Task]
  BY <1>1
<1>. QED
  BY <1>2 DEF TaskList

\* Marking a task gives a task.
LEMMA WithStateType ==
  ASSUME NEW t \in Task, t.kind = "once", NEW state \in OnceStates
  PROVE  WithState(t, state) \in Task
BY DEF WithState, Task, AnyTask, OnceStates

\* A normalised task is a task.
LEMMA NormaliseType ==
  ASSUME NEW t \in AnyTask, t.kind = "once" => t.runAt # NoTime
  PROVE  Normalise(t) \in Task
BY DEF Normalise, Task, AnyTask, OnceStates

\* What a closure captures of a task is well typed.
LEMMA CaptureType ==
  ASSUME NEW t \in Task
  PROVE  Capture(t) \in Captured
BY DEF Capture, Task, AnyTask, Captured

\* The job table built from a task list holds that list's enabled cron tasks.
LEMMA RebuiltType ==
  ASSUME NEW f \in TaskList
  PROVE  RebuiltJobs(f) \in JobTable
<1>1. PICK D \in SUBSET Ids : f \in [D -> Task]
  BY DEF TaskList
<1>2. RebuiltJobs(f) \in [{j \in D : WantsJob(f[j])} -> Job]
  BY <1>1 DEF RebuiltJobs, Job, Task, AnyTask
<1>3. {j \in D : WantsJob(f[j])} \in SUBSET Ids
  OBVIOUS
<1>. QED
  BY <1>2, <1>3 DEF JobTable

\* Entering a job in a job table gives a job table.
LEMMA JobPutType ==
  ASSUME NEW f \in JobTable, NEW i \in Ids, NEW b \in Job
  PROVE  Put(f, i, b) \in JobTable
<1>1. PICK D \in SUBSET Ids : f \in [D -> Job]
  BY DEF JobTable
<1>2. Put(f, i, b) \in [D \cup {i} -> Job]
  BY <1>1 DEF Put
<1>3. D \cup {i} \in SUBSET Ids
  OBVIOUS
<1>. QED
  BY <1>2, <1>3 DEF JobTable

\* Removing a job from a job table gives a job table.
LEMMA JobDropType ==
  ASSUME NEW f \in JobTable, NEW i
  PROVE  Drop(f, i) \in JobTable
<1>1. PICK D \in SUBSET Ids : f \in [D -> Job]
  BY DEF JobTable
<1>2. Drop(f, i) \in [D \ {i} -> Job]
  BY <1>1 DEF Drop
<1>3. D \ {i} \in SUBSET Ids
  OBVIOUS
<1>. QED
  BY <1>2, <1>3 DEF JobTable

\* The empty list and the empty table are well typed.
LEMMA NoneType == NoTasks \in TaskList /\ NoJobs \in JobTable
<1>1. NoTasks \in [{} -> Task] /\ NoTasks \in [{} -> Job]
  BY DEF NoTasks
<1>. QED
  BY <1>1 DEF TaskList, JobTable, NoJobs

\* scheduleSingleTask keeps the table and the lost jobs well typed.
LEMMA ScheduleType ==
  ASSUME NEW jobs \in JobTable, NEW i \in Ids, NEW def \in Defs,
         lost \subseteq [id : Ids, def : Defs],
         ScheduleSingleTask(jobs, i, def)
  PROVE  cronJobs' \in JobTable /\ lost' \subseteq [id : Ids, def : Defs]
<1>1. PICK D \in SUBSET Ids : jobs \in [D -> Job]
  BY DEF JobTable
<1>2. [on |-> TRUE, def |-> def] \in Job
  BY DEF Job
<1>3. i \in DOMAIN jobs => [id |-> i, def |-> jobs[i].def] \in [id : Ids, def : Defs]
  BY <1>1 DEF Job
<1>. QED
  BY <1>2, <1>3, JobPutType DEF ScheduleSingleTask

\* Marking a once-off task keeps the list and the execution well typed.
LEMMA MarkKeepsType ==
  ASSUME TypeOK, NEW x \in Execs,
         NEW e \in [pc : MarkPc \cup AwayPc \cup {"idle"}, id : Ids, once : BOOLEAN,
                    def : Defs, by : {"cron", "sweep", "manual"}, snap : TaskList],
         NEW state \in OnceStates, NEW p \in MarkPc, NEW q \in AwayPc \cup {"idle"},
         Mark(x, e, state, p, q)
  PROVE  tasks' \in TaskList /\ run' \in [Execs -> Execution]
<1>1. tasks' \in TaskList
  <2>1. CASE e.once /\ Live(e.id)
    <3>1. /\ e.id \in Ids /\ tasks[e.id] \in Task /\ tasks \in TaskList
          /\ tasks[e.id].kind = "once"
      BY <2>1, ListElement DEF Live, TypeOK
    <3>2. WithState(tasks[e.id], state) \in Task
      BY <3>1, WithStateType
    <3>3. Put(tasks, e.id, WithState(tasks[e.id], state)) \in TaskList
      BY <3>1, <3>2, PutType
    <3>. QED
      BY <2>1, <3>3 DEF Mark
  <2>2. CASE ~(e.once /\ Live(e.id))
    BY <2>2 DEF Mark, TypeOK
  <2>. QED
    BY <2>1, <2>2
<1>2. [e EXCEPT !.pc = p, !.snap = tasks'] \in Execution
  BY <1>1 DEF Execution
<1>3. q # "idle" => [e EXCEPT !.pc = q, !.snap = NoTasks] \in Execution
  BY NoneType DEF Execution
<1>4. Idle \in Execution
  BY DEF Execution
<1>. QED
  BY <1>1, <1>2, <1>3, <1>4 DEF Mark, TypeOK
-----------------------------------------------------------------------------
(* Type correctness                                                        *)

\* The facts about the state that the steps below use one by one.
LEMMA TypeFacts ==
  ASSUME TypeOK
  PROVE  /\ tasks \in TaskList /\ disk \in TaskList /\ cronJobs \in JobTable
         /\ DOMAIN tasks \subseteq Ids /\ \A i \in DOMAIN tasks : tasks[i] \in Task
         /\ \A c \in Callers : /\ call[c] \in Call
                               /\ call[c].pc \in {"add", "update"} =>
                                    /\ call[c].id \in Ids
                                    /\ call[c].task \in Captured
                               /\ call[c].pc # "idle" => call[c].snap \in TaskList
         /\ \A x \in Execs : /\ run[x] \in Execution
                             /\ run[x].pc # "idle" =>
                                  run[x] \in [pc : MarkPc \cup AwayPc, id : Ids,
                                    once : BOOLEAN, def : Defs,
                                    by : {"cron", "sweep", "manual"}, snap : TaskList]
<1>1. DOMAIN tasks \subseteq Ids /\ \A i \in DOMAIN tasks : tasks[i] \in Task
  BY ListElement DEF TypeOK
<1>2. ASSUME NEW c \in Callers
      PROVE  /\ call[c] \in Call
             /\ call[c].pc \in {"add", "update"} =>
                  call[c].id \in Ids /\ call[c].task \in Captured
             /\ call[c].pc # "idle" => call[c].snap \in TaskList
  BY DEF TypeOK, Call, Idle
<1>3. ASSUME NEW x \in Execs
      PROVE  /\ run[x] \in Execution
             /\ run[x].pc # "idle" =>
                  run[x] \in [pc : MarkPc \cup AwayPc, id : Ids,
                              once : BOOLEAN, def : Defs,
                              by : {"cron", "sweep", "manual"}, snap : TaskList]
  BY DEF TypeOK, Execution, Idle
<1>. QED
  BY <1>1, <1>2, <1>3 DEF TypeOK

\* A call that waits for its save is well typed.
LEMMA CallIntro ==
  ASSUME NEW i \in Ids, NEW t \in Task, NEW f \in TaskList, NEW p \in {"add", "update"}
  PROVE  /\ [pc |-> p, id |-> i, task |-> Capture(t), snap |-> f] \in Call
         /\ [pc |-> "remove", snap |-> f] \in Call
         /\ Idle \in Call
BY CaptureType DEF Call, Idle

\* Every step of a tool call keeps TypeOK.
LEMMA CallTypes ==
  ASSUME TypeOK, NEW c \in Callers,
         \/ \E i \in Ids : AddTask(c, i) \/ UpdateTask(c, i) \/ RemoveTask(c, i)
         \/ AddTaskSaved(c) \/ UpdateTaskSaved(c) \/ RemoveSaved(c) \/ RemoveAllTasks(c) \/ CallSaveFails(c)
  PROVE  TypeOK'
<1>. USE TypeFacts
<1>1. ASSUME NEW i \in Ids, AddTask(c, i)
      PROVE  TypeOK'
  <2>1. PICK kind \in Kinds, enabled \in Flags, def \in Defs, runAt \in RunTimes :
          LET t == Normalise([kind |-> kind, enabled |-> enabled, def |-> def,
                              runAt |-> runAt, state |-> "none", ran |-> FALSE])
          IN  /\ tasks' = Put(tasks, i, t)
              /\ call' = [call EXCEPT ![c] = [pc |-> "add", id |-> i,
                                              task |-> Capture(t), snap |-> tasks']]
    BY <1>1 DEF AddTask
  <2>. DEFINE t0 == [kind |-> kind, enabled |-> enabled, def |-> def,
                     runAt |-> runAt, state |-> "none", ran |-> FALSE]
  <2>2. t0 \in AnyTask /\ t0.runAt # NoTime
    BY SchedulerAssumption DEF Task, AnyTask
  <2>3. Normalise(t0) \in Task
    BY <2>2, NormaliseType
  <2>4. tasks' \in TaskList
    BY <2>1, <2>3, PutType
  <2>5. call' \in [Callers -> Call]
    BY <2>1, <2>3, <2>4, CallIntro DEF TypeOK
  <2>. QED
    BY <1>1, <2>4, <2>5 DEF AddTask, TypeOK, sweepVars, timeVars, onceVars
<1>2. ASSUME NEW i \in Ids, UpdateTask(c, i)
      PROVE  TypeOK'
  <2>1. PICK kind \in Kinds, enabled \in Flags, def \in Defs, runAt \in RunTimes :
          LET t == Normalise([tasks[i] EXCEPT !.kind = kind, !.enabled = enabled,
                                              !.def = def, !.runAt = runAt])
          IN  /\ tasks' = [tasks EXCEPT ![i] = t]
              /\ call' = [call EXCEPT ![c] = [pc |-> "update", id |-> i,
                                              task |-> Capture(t), snap |-> tasks']]
              /\ done' = IF tasks[i].kind = "cron" THEN [done EXCEPT ![i] = 0] ELSE done
    BY <1>2 DEF UpdateTask
  <2>. DEFINE t0 == [tasks[i] EXCEPT !.kind = kind, !.enabled = enabled,
                                     !.def = def, !.runAt = runAt]
  <2>2. tasks[i] \in Task
    BY <1>2 DEF UpdateTask
  <2>3. t0 \in AnyTask /\ t0.runAt # NoTime
    BY <2>2, SchedulerAssumption DEF Task, AnyTask
  <2>4. Normalise(t0) \in Task
    BY <2>3, NormaliseType
  <2>5. tasks' \in TaskList
    BY <2>1, <2>4, ReplaceType
  <2>6. call' \in [Callers -> Call]
    BY <2>1, <2>4, <2>5, CallIntro DEF TypeOK
  <2>7. done' \in [Ids -> 0..2]
    BY <2>1 DEF TypeOK
  <2>. QED
    BY <1>2, <2>5, <2>6, <2>7 DEF UpdateTask, TypeOK, sweepVars, timeVars
<1>3. ASSUME NEW i \in Ids, RemoveTask(c, i)
      PROVE  TypeOK'
  <2>1. tasks' \in TaskList /\ cronJobs' \in JobTable
    BY <1>3, DropType, JobDropType DEF RemoveTask
  <2>2. [pc |-> "remove", snap |-> tasks'] \in Call
    BY <2>1 DEF Call
  <2>3. call' \in [Callers -> Call]
    BY <1>3, <2>2 DEF RemoveTask, TypeOK
  <2>. QED
    BY <1>3, <2>1, <2>3 DEF RemoveTask, TypeOK, sweepVars, timeVars, onceVars
<1>4. CASE RemoveAllTasks(c)
  <2>1. tasks' \in TaskList /\ cronJobs' \in JobTable
    BY <1>4, NoneType DEF RemoveAllTasks
  <2>2. [pc |-> "remove", snap |-> tasks'] \in Call
    BY <2>1 DEF Call
  <2>3. call' \in [Callers -> Call]
    BY <1>4, <2>2 DEF RemoveAllTasks, TypeOK
  <2>. QED
    BY <1>4, <2>1, <2>3 DEF RemoveAllTasks, TypeOK, sweepVars, timeVars, onceVars
<1>5. CASE AddTaskSaved(c)
  <2>1. call[c].id \in Ids /\ call[c].task.def \in Defs /\ call[c].snap \in TaskList
    BY <1>5 DEF AddTaskSaved, Captured
  <2>2. cronJobs' \in JobTable /\ lost' \subseteq [id : Ids, def : Defs]
    <3>1. CASE ~paused /\ WantsJob(call[c].task)
      <4>1. ScheduleSingleTask(cronJobs, call[c].id, call[c].task.def)
        BY <1>5, <3>1 DEF AddTaskSaved, Arms
      <4>. QED
        BY <4>1, <2>1, ScheduleType DEF TypeOK
    <3>2. CASE ~(~paused /\ WantsJob(call[c].task))
      BY <1>5, <3>2 DEF AddTaskSaved, Arms, TypeOK
    <3>. QED
      BY <3>1, <3>2
  <2>3. call' \in [Callers -> Call]
    BY <1>5 DEF AddTaskSaved, TypeOK, Call
  <2>4. drift' \subseteq Ids
    BY <1>5, <2>1 DEF AddTaskSaved, DriftAfter, TypeOK
  <2>. QED
    BY <1>5, <2>1, <2>2, <2>3, <2>4 DEF AddTaskSaved, TypeOK, sweepVars, timeVars, onceVars
<1>6. CASE UpdateTaskSaved(c)
  <2>. DEFINE rest == Drop(cronJobs, call[c].id)
  <2>1. call[c].id \in Ids /\ call[c].task.def \in Defs /\ call[c].snap \in TaskList
    BY <1>6 DEF UpdateTaskSaved, Captured
  <2>2. rest \in JobTable
    BY JobDropType
  <2>3. cronJobs' \in JobTable /\ lost' \subseteq [id : Ids, def : Defs]
    <3>1. CASE ~paused /\ WantsJob(call[c].task)
      <4>1. ScheduleSingleTask(rest, call[c].id, call[c].task.def)
        BY <1>6, <3>1 DEF UpdateTaskSaved, Arms
      <4>. QED
        BY <4>1, <2>1, <2>2, ScheduleType DEF TypeOK
    <3>2. CASE ~(~paused /\ WantsJob(call[c].task))
      BY <1>6, <3>2, <2>2 DEF UpdateTaskSaved, Arms, TypeOK
    <3>. QED
      BY <3>1, <3>2
  <2>4. call' \in [Callers -> Call]
    BY <1>6 DEF UpdateTaskSaved, TypeOK, Call
  <2>5. drift' \subseteq Ids
    BY <1>6, <2>1 DEF UpdateTaskSaved, DriftAfter, TypeOK
  <2>. QED
    BY <1>6, <2>1, <2>3, <2>4, <2>5 DEF UpdateTaskSaved, TypeOK, sweepVars, timeVars, onceVars
<1>7. CASE RemoveSaved(c)
  <2>1. call' \in [Callers -> Call] /\ disk' \in TaskList
    BY <1>7 DEF RemoveSaved, TypeOK, Call
  <2>. QED
    BY <1>7, <2>1 DEF RemoveSaved, TypeOK, taskVars, jobVars, sweepVars, timeVars, onceVars
<1>8. CASE CallSaveFails(c)
  <2>0. call[c].pc \in {"add", "update", "remove"}
    BY <1>8 DEF CallSaveFails, Call, Idle
  <2>1. call' \in [Callers -> Call] /\ drift' \subseteq Ids
    BY <1>8, <2>0 DEF CallSaveFails, TypeOK, Call
  <2>. QED
    BY <1>8, <2>1 DEF CallSaveFails, TypeOK, taskVars, sweepVars, timeVars, onceVars
<1>. QED
  BY <1>1, <1>2, <1>3, <1>4, <1>5, <1>6, <1>7, <1>8
\* Starting an execution, by whatever trigger.
LEMMA ExecuteTypes ==
  ASSUME TypeOK, NEW x \in Execs, NEW i \in Ids, NEW once \in BOOLEAN,
         NEW def \in Defs, NEW by \in {"cron", "sweep", "manual"},
         Execute(x, i, once, def, by)
  PROVE  tasks' \in TaskList /\ run' \in [Execs -> Execution] /\ orphaned' \subseteq Ids
<1>. DEFINE e == [pc |-> "idle", id |-> i, once |-> once, def |-> def, by |-> by,
                  snap |-> NoTasks]
<1>1. e \in [pc : MarkPc \cup AwayPc \cup {"idle"}, id : Ids, once : BOOLEAN,
             def : Defs, by : {"cron", "sweep", "manual"}, snap : TaskList]
  BY NoneType
<1>2. Mark(x, e, "running", "marking", "starting")
  BY DEF Execute
<1>3. tasks' \in TaskList /\ run' \in [Execs -> Execution]
  BY <1>1, <1>2, MarkKeepsType DEF OnceStates, MarkPc, AwayPc
<1>. QED
  BY <1>3 DEF Execute, TypeOK

\* Every step that starts an execution, and the sweep's own, keeps TypeOK.
LEMMA TriggerTypes ==
  ASSUME TypeOK,
         \/ \E x \in Slots, i \in Ids : FireJob(x, i) \/ RunTaskNow(x, i)
         \/ SweepFires \/ SweepNext \/ SweepEnds
  PROVE  TypeOK'
<1>. USE TypeFacts
<1>1. ASSUME NEW x \in Slots, NEW i \in Ids, FireJob(x, i)
      PROVE  TypeOK'
  <2>1. tasks' \in TaskList /\ run' \in [Execs -> Execution] /\ orphaned' \subseteq Ids
    BY <1>1, ExecuteTypes DEF FireJob, Execs
  <2>. QED
    BY <1>1, <2>1 DEF FireJob, TypeOK, jobVars, sweepVars, timeVars
<1>2. ASSUME NEW x \in Slots, NEW i \in Ids, RunTaskNow(x, i)
      PROVE  TypeOK'
  <2>1. tasks[i].def \in Defs /\ (tasks[i].kind = "once") \in BOOLEAN
    BY <1>2 DEF RunTaskNow, Task, AnyTask
  <2>2. tasks' \in TaskList /\ run' \in [Execs -> Execution] /\ orphaned' \subseteq Ids
    BY <1>2, <2>1, ExecuteTypes DEF RunTaskNow, Execs
  <2>. QED
    BY <1>2, <2>2 DEF RunTaskNow, TypeOK, jobVars, sweepVars, timeVars
<1>3. CASE SweepFires
  <2>1. DueTasks \subseteq [id : Ids, def : Defs]
    BY DEF DueTasks, Task, AnyTask
  <2>. QED
    BY <1>3, <2>1 DEF SweepFires, TypeOK, taskVars, jobVars, onceVars
<1>4. CASE SweepNext
  <2>1. PICK d \in due : due' = due \ {d} /\ Execute(Sweep, d.id, TRUE, d.def, "sweep")
    BY <1>4 DEF SweepNext
  <2>2. d.id \in Ids /\ d.def \in Defs
    BY DEF TypeOK
  <2>3. tasks' \in TaskList /\ run' \in [Execs -> Execution] /\ orphaned' \subseteq Ids
    BY <2>1, <2>2, ExecuteTypes DEF Execs
  <2>. QED
    BY <1>4, <2>1, <2>3 DEF SweepNext, TypeOK, jobVars, timeVars
<1>5. CASE SweepEnds
  BY <1>5 DEF SweepEnds, TypeOK, taskVars, jobVars, timeVars, onceVars
<1>. QED
  BY <1>1, <1>2, <1>3, <1>4, <1>5

\* An execution that waits elsewhere is well typed.
LEMMA BecomeTypes ==
  ASSUME TypeOK, NEW x \in Execs, run[x].pc # "idle", NEW p \in AwayPc \cup {"idle"},
         Become(x, p)
  PROVE  run' \in [Execs -> Execution]
<1>1. run[x] \in [pc : MarkPc \cup AwayPc, id : Ids, once : BOOLEAN, def : Defs,
                  by : {"cron", "sweep", "manual"}, snap : TaskList]
  BY TypeFacts
<1>2. p # "idle" => [run[x] EXCEPT !.pc = p, !.snap = NoTasks] \in Execution
  BY <1>1, NoneType DEF Execution
<1>3. Idle \in Execution
  BY DEF Execution
<1>. QED
  BY <1>2, <1>3 DEF Become, TypeOK

\* Every step of an execution keeps TypeOK.
LEMMA ProgressTypes ==
  ASSUME TypeOK, NEW x \in Execs, Progress(x)
  PROVE  TypeOK'
<1>. USE TypeFacts
<1>0. run[x].pc # "idle"
  BY DEF Progress, Marked, Abandon, Started, InvokeReturns, Completed, TryFails,
         FailureSaved, ExecutionEnds
<1>1. run[x] \in [pc : MarkPc \cup AwayPc, id : Ids, once : BOOLEAN, def : Defs,
                  by : {"cron", "sweep", "manual"}, snap : TaskList]
  BY <1>0
<1>2. run[x] \in [pc : MarkPc \cup AwayPc \cup {"idle"}, id : Ids, once : BOOLEAN,
                  def : Defs, by : {"cron", "sweep", "manual"}, snap : TaskList]
  BY <1>1
<1>3. /\ AfterSuccess(run[x]) \in AwayPc \cup {"idle"}
      /\ AfterFailure(run[x]) \in AwayPc \cup {"idle"}
      /\ {"starting", "invoking", "idle"} \subseteq AwayPc \cup {"idle"}
  BY DEF AfterSuccess, AfterFailure, AwayPc
<1>4. ASSUME \/ Marked(x) \/ Started(x) \/ Completed(x) \/ FailureSaved(x)
             \/ ExecutionEnds(x) \/ Abandon(x)
      PROVE  TypeOK'
  <2>1. run' \in [Execs -> Execution]
    BY <1>0, <1>3, <1>4, BecomeTypes
       DEF Marked, Started, Completed, FailureSaved, ExecutionEnds, Abandon
  <2>2. disk' \in TaskList /\ tasks' \in TaskList /\ orphaned' \subseteq Ids
        /\ done' \in [Ids -> 0..2]
    BY <1>1, <1>4
       DEF Marked, Started, Completed, FailureSaved, ExecutionEnds, Abandon, TypeOK,
           onceVars
  <2>3. UNCHANGED restOfRun
    BY <1>4 DEF Marked, Started, Completed, FailureSaved, ExecutionEnds, Abandon, restOfRun
  <2>. QED
    BY <2>1, <2>2, <2>3 DEF TypeOK, restOfRun, jobVars, sweepVars, timeVars
<1>5. CASE InvokeReturns(x)
  <2>1. tasks' \in TaskList /\ run' \in [Execs -> Execution]
    BY <1>2, <1>3, <1>5, MarkKeepsType DEF InvokeReturns, OnceStates, MarkPc
  <2>2. done' \in [Ids -> 0..2]
    BY <1>1, <1>5 DEF InvokeReturns, TypeOK
  <2>. QED
    BY <1>5, <2>1, <2>2 DEF InvokeReturns, TypeOK, restOfRun, jobVars, sweepVars, timeVars
<1>6. CASE TryFails(x)
  <2>1. tasks' \in TaskList /\ run' \in [Execs -> Execution]
    BY <1>2, <1>3, <1>6, MarkKeepsType DEF TryFails, Catch, OnceStates, MarkPc
  <2>. QED
    BY <1>6, <2>1 DEF TryFails, TypeOK, restOfRun, jobVars, sweepVars, timeVars, onceVars
<1>. QED
  BY <1>4, <1>5, <1>6 DEF Progress

\* Pausing, resuming, starting, crashing and a minute's end keep TypeOK.
LEMMA ProcessTypes ==
  ASSUME TypeOK, Pause \/ Resume \/ Start \/ Crash \/ Tick
  PROVE  TypeOK'
<1>. USE TypeFacts
<1>1. CASE Pause
  <2>1. PICK D \in SUBSET Ids : cronJobs \in [D -> Job]
    BY DEF JobTable
  <2>2. cronJobs' \in [D -> Job]
    BY <1>1, <2>1 DEF Pause, Job
  <2>3. cronJobs' \in JobTable
    BY <2>2 DEF JobTable
  <2>. QED
    BY <1>1, <2>3 DEF Pause, TypeOK, taskVars, sweepVars, timeVars, onceVars
<1>2. CASE Resume
  BY <1>2, RebuiltType DEF Resume, TypeOK, taskVars, sweepVars, timeVars, onceVars
<1>3. CASE Start
  <2>1. PICK D \in SUBSET Ids : disk \in [D -> Task]
    BY DEF TaskList
  <2>2. tasks' \in [D -> Task]
    <3>1. ASSUME NEW j \in D
          PROVE  Normalise(disk[j]) \in Task
      <4>1. disk[j] \in AnyTask /\ (disk[j].kind = "once" => disk[j].runAt # NoTime)
        BY <2>1 DEF Task
      <4>. QED
        BY <4>1, NormaliseType
    <3>. QED
      BY <1>3, <2>1, <3>1 DEF Start
  <2>3. tasks' \in TaskList
    BY <2>2 DEF TaskList
  <2>4. cronJobs' \in JobTable
    BY <1>3, <2>3, RebuiltType DEF Start
  <2>5. orphaned' \subseteq Ids
    BY <1>3, <2>1 DEF Start
  <2>. QED
    BY <1>3, <2>3, <2>4, <2>5 DEF Start, TypeOK, timeVars, sweepVars
<1>4. CASE Crash
  <2>1. tasks' \in TaskList /\ cronJobs' \in JobTable
    BY <1>4, NoneType DEF Crash
  <2>2. call' \in [Callers -> Call] /\ run' \in [Execs -> Execution]
    BY <1>4 DEF Crash, Call, Execution
  <2>. QED
    BY <1>4, <2>1, <2>2 DEF Crash, TypeOK
<1>5. CASE Tick
  <2>1. tasks' \in TaskList /\ disk' \in TaskList
    BY <1>5, AgedType DEF Tick
  <2>2. ASSUME NEW c \in Callers, call[c].pc # "idle"
        PROVE  [call[c] EXCEPT !.snap = Aged(@)] \in Call
    BY <2>2, AgedType DEF Call, Idle
  <2>3. ASSUME NEW x \in Execs, run[x].pc # "idle"
        PROVE  [run[x] EXCEPT !.snap = Aged(@)] \in Execution
    BY <2>3, AgedType DEF Execution
  <2>4. Idle \in Call /\ Idle \in Execution
    BY DEF Call, Execution
  <2>5. call' \in [Callers -> Call] /\ run' \in [Execs -> Execution]
    BY <1>5, <2>2, <2>3, <2>4 DEF Tick
  <2>. QED
    BY <1>5, <2>1, <2>5 DEF Tick, TypeOK, jobVars, sweepVars, onceVars
<1>. QED
  BY <1>1, <1>2, <1>3, <1>4, <1>5

\* The initial state is well typed.
LEMMA InitTypes == Init => TypeOK
<1>1. Idle \in Call /\ Idle \in Execution
  BY DEF Call, Execution
<1>2. ASSUME Init
      PROVE  /\ call \in [Callers -> Call] /\ run \in [Execs -> Execution]
             /\ done \in [Ids -> 0..2]
  BY <1>1, <1>2 DEF Init
<1>3. ASSUME Init
      PROVE  /\ tasks \in TaskList /\ disk \in TaskList /\ cronJobs \in JobTable
  BY <1>3, NoneType DEF Init
<1>. QED
  BY <1>2, <1>3 DEF Init, TypeOK

\* Every variable of the scheduler keeps its type.
THEOREM TypeCorrect == Spec => []TypeOK
<1>1. TypeOK /\ [Next]_vars => TypeOK'
  <2>1. TypeOK /\ UNCHANGED vars => TypeOK'
    BY DEF TypeOK, vars
  <2>2. ASSUME TypeOK, NEW c \in Callers,
               \/ \E i \in Ids : AddTask(c, i) \/ UpdateTask(c, i) \/ RemoveTask(c, i)
               \/ AddTaskSaved(c) \/ UpdateTaskSaved(c) \/ RemoveSaved(c)
               \/ RemoveAllTasks(c) \/ CallSaveFails(c)
        PROVE  TypeOK'
    BY <2>2, CallTypes
  <2>3. TypeOK /\ Next => TypeOK'
    BY <2>2, TriggerTypes, ProgressTypes, ProcessTypes DEF Next
  <2>. QED
    BY <2>1, <2>3
<1>. QED
  BY InitTypes, <1>1, PTL DEF Spec
-----------------------------------------------------------------------------
(* The job table                                                           *)

\* The list keeps its ids and what a job depends on of each task.
SameTasks ==
  /\ DOMAIN tasks' = DOMAIN tasks
  /\ \A i \in DOMAIN tasks : /\ tasks'[i].def = tasks[i].def
                             /\ WantsJob(tasks[i])' <=> WantsJob(tasks[i])

\* Marking a once-off task changes no job-relevant field of the list.
LEMMA MarkSameTasks ==
  ASSUME TypeOK, NEW x \in Execs, NEW e, NEW state, NEW p, NEW q, Mark(x, e, state, p, q)
  PROVE  SameTasks
<1>. USE TypeFacts
<1>1. CASE e.once /\ Live(e.id)
  <2>1. /\ tasks' = Put(tasks, e.id, WithState(tasks[e.id], state))
        /\ e.id \in DOMAIN tasks
    BY <1>1 DEF Mark, Live
  <2>2. DOMAIN tasks' = DOMAIN tasks
    BY <2>1 DEF Put
  <2>3. ASSUME NEW i \in DOMAIN tasks, i # e.id
        PROVE  tasks'[i] = tasks[i]
    BY <2>1, <2>3 DEF Put
  <2>4. tasks'[e.id] = WithState(tasks[e.id], state)
    BY <2>1 DEF Put
  <2>5. /\ tasks'[e.id].def = tasks[e.id].def
        /\ tasks'[e.id].kind = tasks[e.id].kind
        /\ tasks'[e.id].enabled = tasks[e.id].enabled
    BY <2>1, <2>4 DEF WithState, Task, AnyTask
  <2>. QED
    BY <2>2, <2>3, <2>5 DEF SameTasks, WantsJob
<1>2. CASE ~(e.once /\ Live(e.id))
  BY <1>2 DEF Mark, SameTasks, WantsJob
<1>. QED
  BY <1>1, <1>2

\* A step that changes no job, no flag, no call and no definition.
LEMMA JobFrame ==
  ASSUME JobInv, SameTasks, UNCHANGED <<up, used, cronJobs, drift, paused>>,
         \A c \in Callers : call'[c].pc = call[c].pc
                            /\ (call[c].pc # "idle" =>
                                  DOMAIN call'[c].snap = DOMAIN call[c].snap)
                            /\ (call[c].pc \in {"add", "update"} => call'[c].id = call[c].id)
  PROVE  /\ HandlesFollowPause' /\ ArmedOnlyIfWanted' /\ WantedIsArmed'
         /\ (~up => ~paused)'
         /\ DOMAIN tasks' \subseteq used' /\ DOMAIN cronJobs' \subseteq used'
         /\ \A c \in Callers : /\ call'[c].pc # "idle" => DOMAIN call'[c].snap \subseteq used'
                               /\ call'[c].pc \in {"add", "update"} => call'[c].id \in used'
<1>1. \A i \in Ids : (Pending(i)' <=> Pending(i)) /\ (Updating(i)' <=> Updating(i))
  BY DEF Pending, Updating
<1>2. HandlesFollowPause' /\ (~up => ~paused)'
  BY DEF HandlesFollowPause, JobInv
<1>3. ArmedOnlyIfWanted'
  BY <1>1 DEF JobInv, ArmedOnlyIfWanted, SameTasks
<1>4. WantedIsArmed'
  BY <1>1 DEF JobInv, WantedIsArmed, SameTasks
<1>5. DOMAIN tasks' \subseteq used' /\ DOMAIN cronJobs' \subseteq used'
  BY DEF JobInv, IdsGivenOut, SameTasks
<1>6. \A c \in Callers : /\ call'[c].pc # "idle" => DOMAIN call'[c].snap \subseteq used'
                         /\ call'[c].pc \in {"add", "update"} => call'[c].id \in used'
  BY DEF JobInv, IdsGivenOut
<1>. QED
  BY <1>2, <1>3, <1>4, <1>5, <1>6
ExecRecord == [pc : MarkPc \cup AwayPc \cup {"idle"}, id : Ids, once : BOOLEAN,
               def : Defs, by : {"cron", "sweep", "manual"}, snap : TaskList]

RunsGivenOut ==
  \A x \in Execs : run[x].pc # "idle" => DOMAIN run[x].snap \subseteq used

\* A mark captures a list of given-out ids for its save.
LEMMA MarkKeepsJobs ==
  ASSUME JobInv, UNCHANGED used, NEW x \in Execs, NEW e \in ExecRecord, NEW state,
         NEW p, NEW q, Mark(x, e, state, p, q)
  PROVE  SameTasks /\ RunsGivenOut'
<1>0. TypeOK /\ DOMAIN tasks \subseteq used /\ RunsGivenOut
  BY DEF JobInv, IdsGivenOut, RunsGivenOut
<1>1. SameTasks
  BY <1>0, MarkSameTasks
<1>2. DOMAIN NoTasks = {}
  BY DEF NoTasks
<1>3. /\ [e EXCEPT !.pc = p, !.snap = tasks'].snap = tasks'
      /\ [e EXCEPT !.pc = q, !.snap = NoTasks].snap = NoTasks
  BY DEF ExecRecord
<1>4. \/ run' = [run EXCEPT ![x] = [e EXCEPT !.pc = p, !.snap = tasks']]
      \/ run' = [run EXCEPT ![x] = Idle]
      \/ run' = [run EXCEPT ![x] = [e EXCEPT !.pc = q, !.snap = NoTasks]]
  BY DEF Mark
<1>5. DOMAIN tasks' \subseteq used'
  BY <1>0, <1>1 DEF SameTasks
<1>6. ASSUME NEW y \in Execs, run'[y].pc # "idle"
      PROVE  DOMAIN run'[y].snap \subseteq used'
  <2>1. CASE y = x
    <3>1. run'[x] \in {[e EXCEPT !.pc = p, !.snap = tasks'], Idle,
                       [e EXCEPT !.pc = q, !.snap = NoTasks]}
      BY <1>0, <1>4 DEF TypeOK
    <3>2. run'[x] # Idle
      BY <1>6, <2>1 DEF Idle
    <3>. QED
      BY <2>1, <3>1, <3>2, <1>2, <1>3, <1>5
  <2>2. CASE y # x
    <3>1. run'[y] = run[y]
      BY <2>2, <1>0, <1>4 DEF TypeOK
    <3>. QED
      BY <3>1, <1>0, <1>6 DEF RunsGivenOut
  <2>. QED
    BY <2>1, <2>2
<1>. QED
  BY <1>1, <1>6 DEF RunsGivenOut

\* Starting an execution changes nothing a job depends on.
LEMMA ExecuteKeepsJobs ==
  ASSUME JobInv, UNCHANGED used, NEW x \in Execs, NEW i \in Ids, NEW once \in BOOLEAN,
         NEW def \in Defs, NEW by \in {"cron", "sweep", "manual"},
         Execute(x, i, once, def, by)
  PROVE  SameTasks /\ RunsGivenOut'
<1>. DEFINE e == [pc |-> "idle", id |-> i, once |-> once, def |-> def, by |-> by,
                  snap |-> NoTasks]
<1>1. e \in ExecRecord
  BY NoneType DEF ExecRecord
<1>2. Mark(x, e, "running", "marking", "starting")
  BY DEF Execute
<1>. QED
  BY <1>1, <1>2, MarkKeepsJobs

\* Moving an execution on captures no new id.
LEMMA BecomeKeepsJobs ==
  ASSUME JobInv, UNCHANGED used, NEW x \in Execs, run[x].pc # "idle", NEW p, Become(x, p)
  PROVE  RunsGivenOut'
<1>0. TypeOK /\ RunsGivenOut
  BY DEF JobInv, IdsGivenOut, RunsGivenOut
<1>1. run[x] \in [pc : MarkPc \cup AwayPc, id : Ids, once : BOOLEAN, def : Defs,
                  by : {"cron", "sweep", "manual"}, snap : TaskList]
  BY <1>0, TypeFacts
<1>2. [run[x] EXCEPT !.pc = p, !.snap = NoTasks].snap = NoTasks
  BY <1>1
<1>3. DOMAIN NoTasks = {}
  BY DEF NoTasks
<1>4. ASSUME NEW y \in Execs, run'[y].pc # "idle"
      PROVE  DOMAIN run'[y].snap \subseteq used'
  <2>1. CASE y = x
    <3>1. run'[x] \in {Idle, [run[x] EXCEPT !.pc = p, !.snap = NoTasks]}
      BY <1>0 DEF Become, TypeOK
    <3>2. run'[x] # Idle
      BY <1>4, <2>1 DEF Idle
    <3>. QED
      BY <2>1, <3>1, <3>2, <1>2, <1>3
  <2>2. CASE y # x
    <3>1. run'[y] = run[y]
      BY <2>2, <1>0 DEF Become, TypeOK
    <3>. QED
      BY <3>1, <1>0, <1>4 DEF RunsGivenOut
  <2>. QED
    BY <2>1, <2>2
<1>. QED
  BY <1>4 DEF RunsGivenOut

\* Executions touch no job: the frame lemma covers all their steps.
LEMMA ExecutionKeepsJobs ==
  ASSUME JobInv, TypeOK', UNCHANGED <<up, used, cronJobs, drift, paused, call>>,
         SameTasks, RunsGivenOut', DOMAIN disk' \subseteq used'
  PROVE  JobInv'
BY JobFrame DEF JobInv, IdsGivenOut, RunsGivenOut

\* Firing a job, running a task by hand and the sweep keep JobInv.
LEMMA TriggerKeepsJobs ==
  ASSUME JobInv,
         \/ \E x \in Slots, i \in Ids : FireJob(x, i) \/ RunTaskNow(x, i)
         \/ SweepFires \/ SweepNext \/ SweepEnds
  PROVE  JobInv'
<1>0. TypeOK /\ TypeOK' /\ RunsGivenOut /\ DOMAIN disk \subseteq used
  BY TriggerTypes DEF JobInv, IdsGivenOut, RunsGivenOut
<1>1. ASSUME NEW x \in Slots, NEW i \in Ids, FireJob(x, i)
      PROVE  JobInv'
  <2>1. SameTasks /\ RunsGivenOut'
    BY <1>1, ExecuteKeepsJobs DEF FireJob, Execs
  <2>. QED
    BY <1>0, <1>1, <2>1, ExecutionKeepsJobs DEF FireJob, jobVars
<1>2. ASSUME NEW x \in Slots, NEW i \in Ids, RunTaskNow(x, i)
      PROVE  JobInv'
  <2>1. tasks[i].def \in Defs /\ (tasks[i].kind = "once") \in BOOLEAN
    BY <1>0, <1>2, TypeFacts DEF RunTaskNow, Task, AnyTask
  <2>2. SameTasks /\ RunsGivenOut'
    BY <1>2, <2>1, ExecuteKeepsJobs DEF RunTaskNow, Execs
  <2>. QED
    BY <1>0, <1>2, <2>2, ExecutionKeepsJobs DEF RunTaskNow, jobVars
<1>3. CASE SweepNext
  <2>1. PICK d \in due : due' = due \ {d} /\ Execute(Sweep, d.id, TRUE, d.def, "sweep")
    BY <1>3 DEF SweepNext
  <2>2. d.id \in Ids /\ d.def \in Defs
    BY <1>0 DEF TypeOK
  <2>3. SameTasks /\ RunsGivenOut'
    BY <1>3, <2>1, <2>2, ExecuteKeepsJobs DEF SweepNext, Execs
  <2>. QED
    BY <1>0, <1>3, <2>3, ExecutionKeepsJobs DEF SweepNext, jobVars
<1>4. CASE SweepFires \/ SweepEnds
  <2>1. SameTasks /\ RunsGivenOut' /\ UNCHANGED <<up, used, cronJobs, drift, paused, call, disk>>
    BY <1>0, <1>4 DEF SweepFires, SweepEnds, taskVars, jobVars, SameTasks, RunsGivenOut, WantsJob
  <2>. QED
    BY <1>0, <2>1, ExecutionKeepsJobs
<1>. QED
  BY <1>1, <1>2, <1>3, <1>4

\* Every step of an execution keeps JobInv.
LEMMA ProgressKeepsJobs ==
  ASSUME JobInv, NEW x \in Execs, Progress(x)
  PROVE  JobInv'
<1>0. TypeOK /\ TypeOK' /\ RunsGivenOut /\ DOMAIN disk \subseteq used
  BY ProgressTypes DEF JobInv, IdsGivenOut, RunsGivenOut
<1>1. run[x].pc # "idle"
  BY DEF Progress, Marked, Abandon, Started, InvokeReturns, Completed, TryFails,
         FailureSaved, ExecutionEnds
<1>2. run[x] \in ExecRecord
  BY <1>0, <1>1, TypeFacts DEF ExecRecord
<1>3. UNCHANGED <<up, used, cronJobs, drift, paused, call>>
  BY DEF Progress, Marked, Abandon, Started, InvokeReturns, Completed, TryFails,
         FailureSaved, ExecutionEnds, restOfRun, jobVars
<1>4. DOMAIN disk' \subseteq used'
  BY <1>0, <1>1, <1>3
     DEF Progress, Marked, Abandon, Started, InvokeReturns, Completed, TryFails,
         FailureSaved, ExecutionEnds, RunsGivenOut
<1>5. SameTasks /\ RunsGivenOut'
  <2>1. CASE InvokeReturns(x)
    BY <1>2, <1>3, <2>1, MarkKeepsJobs DEF InvokeReturns
  <2>2. CASE TryFails(x)
    BY <1>2, <1>3, <2>2, MarkKeepsJobs DEF TryFails, Catch
  <2>3. ASSUME \/ Marked(x) \/ Abandon(x) \/ Started(x) \/ Completed(x)
               \/ FailureSaved(x) \/ ExecutionEnds(x)
        PROVE  SameTasks /\ RunsGivenOut'
    <3>1. SameTasks
      BY <2>3 DEF Marked, Abandon, Started, Completed, FailureSaved, ExecutionEnds,
                  SameTasks, WantsJob
    <3>2. RunsGivenOut'
      BY <1>1, <1>3, <2>3, BecomeKeepsJobs
         DEF Marked, Abandon, Started, Completed, FailureSaved, ExecutionEnds
    <3>. QED
      BY <3>1, <3>2
  <2>. QED
    BY <2>1, <2>2, <2>3 DEF Progress
<1>. QED
  BY <1>0, <1>3, <1>4, <1>5, ExecutionKeepsJobs

\* What a call pends or updates when its record is replaced: other ids keep
\* their answer.
LEMMA CallReplaced ==
  ASSUME TypeOK, NEW c \in Callers, NEW r, call' = [call EXCEPT ![c] = r]
  PROVE  /\ call'[c] = r /\ \A d \in Callers \ {c} : call'[d] = call[d]
         /\ \A j : (call[c].pc \notin {"add", "update"} \/ call[c].id # j)
                     => (Pending(j) => Pending(j)')
         /\ \A j : (call[c].pc # "update" \/ call[c].id # j)
                     => (Updating(j) => Updating(j)')
BY DEF TypeOK, Pending, Updating

\* The lists captured by calls mention given-out ids only.
CallsGivenOut ==
  \A c \in Callers : /\ call[c].pc # "idle" => DOMAIN call[c].snap \subseteq used
                     /\ call[c].pc \in {"add", "update"} => call[c].id \in used

\* The first half of a tool call keeps the job table in order: an id that it
\* arms or changes is pending until its save.
LEMMA CallStartKeepsJobs ==
  ASSUME JobInv, TypeOK', NEW c \in Callers,
         \/ \E i \in Ids : AddTask(c, i) \/ UpdateTask(c, i) \/ RemoveTask(c, i)
         \/ RemoveAllTasks(c)
  PROVE  JobInv'
<1>0. /\ TypeOK /\ IdsGivenOut /\ RunsGivenOut /\ CallsGivenOut
      /\ HandlesFollowPause /\ ArmedOnlyIfWanted /\ WantedIsArmed
      /\ up /\ call[c].pc = "idle"
  BY DEF JobInv, IdsGivenOut, RunsGivenOut, CallsGivenOut, AddTask, UpdateTask,
         RemoveTask, RemoveAllTasks, CallsIdle
<1>1. ASSUME NEW i \in Ids, AddTask(c, i)
      PROVE  JobInv'
  <2>1. PICK t, r : /\ tasks' = Put(tasks, i, t)
                    /\ call' = [call EXCEPT ![c] = r]
                    /\ r = [pc |-> "add", id |-> i, task |-> Capture(t), snap |-> tasks']
    BY <1>1 DEF AddTask
  <2>2. /\ i \notin used /\ used' = used \cup {i}
        /\ UNCHANGED <<up, cronJobs, paused, run, disk, drift>>
    BY <1>1 DEF AddTask, jobVars
  <2>3. /\ DOMAIN tasks' = DOMAIN tasks \cup {i}
        /\ \A j \in DOMAIN tasks : j # i => tasks'[j] = tasks[j]
    BY <2>1 DEF Put
  <2>4. /\ call'[c].pc = "add" /\ call'[c].id = i /\ call'[c].snap = tasks'
        /\ \A d \in Callers \ {c} : call'[d] = call[d]
        /\ \A j : (Pending(j) => Pending(j)') /\ (Updating(j) => Updating(j)')
        /\ Pending(i)'
    <3>1. /\ call'[c] = r /\ \A d \in Callers \ {c} : call'[d] = call[d]
          /\ \A j : (Pending(j) => Pending(j)') /\ (Updating(j) => Updating(j)')
      BY <1>0, <2>1, CallReplaced
    <3>. QED
      BY <2>1, <3>1 DEF Pending
  <2>5. IdsGivenOut'
    <3>1. DOMAIN tasks' \subseteq used' /\ DOMAIN disk' \subseteq used'
          /\ DOMAIN cronJobs' \subseteq used'
      BY <1>0, <2>2, <2>3 DEF IdsGivenOut
    <3>2. CallsGivenOut'
      BY <1>0, <2>2, <2>4, <3>1 DEF CallsGivenOut
    <3>3. RunsGivenOut'
      BY <1>0, <2>2 DEF RunsGivenOut
    <3>. QED
      BY <3>1, <3>2, <3>3 DEF IdsGivenOut, CallsGivenOut, RunsGivenOut
  <2>6. ArmedOnlyIfWanted'
    BY <1>0, <2>2, <2>3, <2>4 DEF ArmedOnlyIfWanted, IdsGivenOut
  <2>7. WantedIsArmed'
    BY <1>0, <2>2, <2>3, <2>4 DEF WantedIsArmed
  <2>. QED
    BY <1>0, <2>2, <2>5, <2>6, <2>7 DEF JobInv, HandlesFollowPause
<1>2. ASSUME NEW i \in Ids, UpdateTask(c, i)
      PROVE  JobInv'
  <2>1. PICK t, r : /\ tasks' = [tasks EXCEPT ![i] = t]
                    /\ call' = [call EXCEPT ![c] = r]
                    /\ r = [pc |-> "update", id |-> i, task |-> Capture(t), snap |-> tasks']
    BY <1>2 DEF UpdateTask
  <2>2. i \in DOMAIN tasks /\ UNCHANGED <<up, used, cronJobs, paused, run, disk, drift>>
    BY <1>2 DEF UpdateTask
  <2>3. /\ DOMAIN tasks' = DOMAIN tasks
        /\ \A j \in DOMAIN tasks : j # i => tasks'[j] = tasks[j]
    BY <2>1
  <2>4. /\ call'[c].pc = "update" /\ call'[c].id = i /\ call'[c].snap = tasks'
        /\ \A d \in Callers \ {c} : call'[d] = call[d]
        /\ \A j : (Pending(j) => Pending(j)') /\ (Updating(j) => Updating(j)')
        /\ Pending(i)' /\ Updating(i)'
    <3>1. /\ call'[c] = r /\ \A d \in Callers \ {c} : call'[d] = call[d]
          /\ \A j : (Pending(j) => Pending(j)') /\ (Updating(j) => Updating(j)')
      BY <1>0, <2>1, CallReplaced
    <3>0. r = [pc |-> "update", id |-> i, task |-> Capture(t), snap |-> tasks']
      BY <2>1
    <3>2. call'[c].pc = "update" /\ call'[c].id = i /\ call'[c].snap = tasks'
      BY <3>0, <3>1
    <3>3. Pending(i)' /\ Updating(i)'
      BY <3>2 DEF Pending, Updating
    <3>. QED
      BY <3>1, <3>2, <3>3
  <2>5. IdsGivenOut'
    <3>1. DOMAIN tasks' \subseteq used' /\ DOMAIN disk' \subseteq used'
          /\ DOMAIN cronJobs' \subseteq used'
      BY <1>0, <2>2, <2>3 DEF IdsGivenOut
    <3>2. CallsGivenOut'
      BY <1>0, <2>2, <2>3, <2>4, <3>1 DEF CallsGivenOut, IdsGivenOut
    <3>3. RunsGivenOut'
      BY <1>0, <2>2 DEF RunsGivenOut
    <3>. QED
      BY <3>1, <3>2, <3>3 DEF IdsGivenOut, CallsGivenOut, RunsGivenOut
  <2>6. ArmedOnlyIfWanted'
    BY <1>0, <2>2, <2>3, <2>4 DEF ArmedOnlyIfWanted
  <2>7. WantedIsArmed'
    BY <1>0, <2>2, <2>3, <2>4 DEF WantedIsArmed
  <2>. QED
    BY <1>0, <2>2, <2>5, <2>6, <2>7 DEF JobInv, HandlesFollowPause
<1>3. ASSUME \/ \E i \in Ids : RemoveTask(c, i)
             \/ RemoveAllTasks(c)
      PROVE  JobInv'
  <2>1. PICK D : /\ DOMAIN tasks' = DOMAIN tasks \ D
                 /\ DOMAIN cronJobs' = DOMAIN cronJobs \ D
                 /\ drift \subseteq drift' \cup D
                 /\ \A j \in DOMAIN tasks' : tasks'[j] = tasks[j]
                 /\ \A j \in DOMAIN cronJobs' : cronJobs'[j] = cronJobs[j]
    <3>1. ASSUME NEW i \in Ids, RemoveTask(c, i)
          PROVE  /\ DOMAIN tasks' = DOMAIN tasks \ {i}
                 /\ DOMAIN cronJobs' = DOMAIN cronJobs \ {i}
                 /\ drift \subseteq drift' \cup {i}
                 /\ \A j \in DOMAIN tasks' : tasks'[j] = tasks[j]
                 /\ \A j \in DOMAIN cronJobs' : cronJobs'[j] = cronJobs[j]
      BY <3>1 DEF RemoveTask, Drop
    <3>2. CASE RemoveAllTasks(c)
      <4>1. DOMAIN tasks' = {} /\ DOMAIN cronJobs' = {}
        BY <3>2 DEF RemoveAllTasks, NoTasks, NoJobs
      <4>2. DOMAIN tasks \subseteq Ids /\ DOMAIN cronJobs \subseteq Ids /\ drift \subseteq Ids
        BY <1>0, TypeFacts DEF TypeOK, JobTable
      <4>. WITNESS Ids
      <4>. QED
        BY <4>1, <4>2
    <3>. QED
      BY <1>3, <3>1, <3>2
  <2>2. UNCHANGED <<up, used, paused, run, disk>>
    BY <1>3 DEF RemoveTask, RemoveAllTasks
  <2>3. /\ call' = [call EXCEPT ![c] = [pc |-> "remove", snap |-> tasks']]
    BY <1>3 DEF RemoveTask, RemoveAllTasks
  <2>4. /\ call'[c].pc = "remove" /\ call'[c].snap = tasks'
        /\ \A d \in Callers \ {c} : call'[d] = call[d]
        /\ \A j : (Pending(j) => Pending(j)') /\ (Updating(j) => Updating(j)')
    <3>1. /\ call'[c] = [pc |-> "remove", snap |-> tasks']
          /\ \A d \in Callers \ {c} : call'[d] = call[d]
          /\ \A j : (Pending(j) => Pending(j)') /\ (Updating(j) => Updating(j)')
      BY <1>0, <2>3, CallReplaced
    <3>. QED
      BY <3>1
  <2>5. IdsGivenOut'
    <3>1. DOMAIN tasks' \subseteq used' /\ DOMAIN disk' \subseteq used'
          /\ DOMAIN cronJobs' \subseteq used'
      BY <1>0, <2>1, <2>2 DEF IdsGivenOut
    <3>2. CallsGivenOut'
      BY <1>0, <2>2, <2>4, <3>1 DEF CallsGivenOut
    <3>3. RunsGivenOut'
      BY <1>0, <2>2 DEF RunsGivenOut
    <3>. QED
      BY <3>1, <3>2, <3>3 DEF IdsGivenOut, CallsGivenOut, RunsGivenOut
  <2>6. ArmedOnlyIfWanted'
    BY <1>0, <2>1, <2>2, <2>4 DEF ArmedOnlyIfWanted
  <2>7. WantedIsArmed'
    BY <1>0, <2>1, <2>2, <2>4 DEF WantedIsArmed
  <2>. QED
    BY <1>0, <2>1, <2>2, <2>5, <2>6, <2>7 DEF JobInv, HandlesFollowPause
<1>. QED
  BY <1>1, <1>2, <1>3

\* What the end of any call does to the part of the state that is not the job
\* table: its id stops pending, nothing else does.
LEMMA CallEndFrame ==
  ASSUME JobInv, NEW c \in Callers, call[c].pc # "idle",
         call' = [call EXCEPT ![c] = Idle],
         UNCHANGED <<up, tasks, used, paused, run>>,
         disk' = disk \/ disk' = call[c].snap
  PROVE  /\ \A j : (call[c].pc \notin {"add", "update"} \/ call[c].id # j)
                     => (Pending(j) => Pending(j)')
         /\ \A j : (call[c].pc # "update" \/ call[c].id # j)
                     => (Updating(j) => Updating(j)')
         /\ DOMAIN tasks' \subseteq used' /\ DOMAIN disk' \subseteq used'
         /\ CallsGivenOut' /\ RunsGivenOut'
<1>0. TypeOK /\ IdsGivenOut
  BY DEF JobInv
<1>1. /\ call'[c] = Idle /\ \A d \in Callers \ {c} : call'[d] = call[d]
      /\ \A j : (call[c].pc \notin {"add", "update"} \/ call[c].id # j)
                  => (Pending(j) => Pending(j)')
      /\ \A j : (call[c].pc # "update" \/ call[c].id # j)
                  => (Updating(j) => Updating(j)')
  BY <1>0, CallReplaced
<1>2. CallsGivenOut'
  BY <1>0, <1>1 DEF IdsGivenOut, CallsGivenOut, Idle
<1>3. RunsGivenOut'
  BY <1>0 DEF IdsGivenOut, RunsGivenOut
<1>. QED
  BY <1>0, <1>1, <1>2, <1>3 DEF IdsGivenOut

\* scheduleSingleTask enters one running job and leaves the others alone.
LEMMA ScheduleEffect ==
  ASSUME NEW jobs, NEW i, NEW def, ScheduleSingleTask(jobs, i, def)
  PROVE  /\ DOMAIN cronJobs' = DOMAIN jobs \cup {i}
         /\ cronJobs'[i] = [on |-> TRUE, def |-> def]
         /\ \A j \in DOMAIN jobs : j # i => cronJobs'[j] = jobs[j]
BY DEF ScheduleSingleTask, Put

\* The second half of addTask keeps JobInv: what it arms is the live task, or
\* its id joins drift.
LEMMA AddTaskSavedKeepsJobs ==
  ASSUME JobInv, TypeOK', NEW c \in Callers, AddTaskSaved(c)
  PROVE  JobInv'
<1>. DEFINE k == call[c].id
            task == call[c].task
            armed == ~paused /\ WantsJob(task)
<1>0. /\ TypeOK /\ IdsGivenOut
      /\ HandlesFollowPause /\ ArmedOnlyIfWanted /\ WantedIsArmed
      /\ call[c].pc = "add" /\ UNCHANGED <<up, tasks, used, paused, run>>
      /\ k \in Ids /\ k \in used
  BY TypeFacts DEF JobInv, AddTaskSaved, IdsGivenOut
<1>1. /\ \A j : j # k => (Pending(j) => Pending(j)')
      /\ \A j : Updating(j) => Updating(j)'
      /\ DOMAIN tasks' \subseteq used' /\ DOMAIN disk' \subseteq used'
      /\ CallsGivenOut' /\ RunsGivenOut'
  BY <1>0, CallEndFrame DEF AddTaskSaved
<1>2. CASE armed
  <2>1. /\ DOMAIN cronJobs' = DOMAIN cronJobs \cup {k}
        /\ cronJobs'[k] = [on |-> TRUE, def |-> task.def]
        /\ \A j \in DOMAIN cronJobs : j # k => cronJobs'[j] = cronJobs[j]
    <3>1. ScheduleSingleTask(cronJobs, k, task.def)
      BY <1>2 DEF AddTaskSaved, Arms
    <3>. QED
      BY <3>1, ScheduleEffect
  <2>2. IdsGivenOut'
    BY <1>0, <1>1, <2>1 DEF IdsGivenOut, CallsGivenOut, RunsGivenOut
  <2>3. HandlesFollowPause'
    <3>1. cronJobs'[k].on = TRUE /\ ~paused'
      BY <1>0, <1>2, <2>1
    <3>2. \A j \in DOMAIN cronJobs' : j # k => cronJobs'[j].on = ~paused'
      BY <1>0, <2>1 DEF HandlesFollowPause
    <3>. QED
      BY <3>1, <3>2 DEF HandlesFollowPause
  <2>4. k \notin drift' => k \in DOMAIN tasks /\ Capture(tasks[k]) = task
    BY DEF AddTaskSaved, DriftAfter, Stale
  <2>5. k \notin drift' => WantsJob(tasks[k]) /\ tasks[k].def = task.def
    BY <1>2, <2>4 DEF Capture, WantsJob
  <2>6. drift \subseteq drift'
    BY <1>0 DEF AddTaskSaved, DriftAfter
  <2>7. ArmedOnlyIfWanted'
    BY <1>0, <1>1, <2>1, <2>4, <2>5, <2>6 DEF ArmedOnlyIfWanted
  <2>8. WantedIsArmed'
    BY <1>0, <1>1, <2>1, <2>6 DEF WantedIsArmed
  <2>. QED
    BY <1>0, <2>2, <2>3, <2>7, <2>8 DEF JobInv
<1>3. CASE ~armed
  <2>1. cronJobs' = cronJobs
    BY <1>3 DEF AddTaskSaved, Arms
  <2>2. IdsGivenOut' /\ HandlesFollowPause'
    BY <1>0, <1>1, <2>1 DEF IdsGivenOut, CallsGivenOut, RunsGivenOut, HandlesFollowPause
  <2>3. k \notin drift' /\ ~paused => ~WantsJob(tasks[k])
    BY <1>3 DEF AddTaskSaved, DriftAfter, Stale, Capture, WantsJob
  <2>4. drift \subseteq drift'
    BY <1>0 DEF AddTaskSaved, DriftAfter
  <2>5. ArmedOnlyIfWanted'
    BY <1>0, <1>1, <2>1, <2>4 DEF ArmedOnlyIfWanted
  <2>6. WantedIsArmed'
    BY <1>0, <1>1, <2>1, <2>3, <2>4 DEF WantedIsArmed
  <2>. QED
    BY <1>0, <2>2, <2>5, <2>6 DEF JobInv
<1>. QED
  BY <1>2, <1>3

\* The second half of updateTask keeps JobInv: the old job is dropped, and what
\* it arms is the live task, or its id joins drift.
LEMMA UpdateTaskSavedKeepsJobs ==
  ASSUME JobInv, TypeOK', NEW c \in Callers, UpdateTaskSaved(c)
  PROVE  JobInv'
<1>. DEFINE k == call[c].id
            task == call[c].task
            armed == ~paused /\ WantsJob(task)
            rest == Drop(cronJobs, k)
<1>0. /\ TypeOK /\ IdsGivenOut
      /\ HandlesFollowPause /\ ArmedOnlyIfWanted /\ WantedIsArmed
      /\ call[c].pc = "update" /\ UNCHANGED <<up, tasks, used, paused, run>>
      /\ k \in Ids /\ k \in used
  BY TypeFacts DEF JobInv, UpdateTaskSaved, IdsGivenOut
<1>1. /\ \A j : j # k => (Pending(j) => Pending(j)') /\ (Updating(j) => Updating(j)')
      /\ DOMAIN tasks' \subseteq used' /\ DOMAIN disk' \subseteq used'
      /\ CallsGivenOut' /\ RunsGivenOut'
  BY <1>0, CallEndFrame DEF UpdateTaskSaved
<1>2. /\ DOMAIN rest = DOMAIN cronJobs \ {k}
      /\ \A j \in DOMAIN rest : rest[j] = cronJobs[j]
  BY DEF Drop
<1>3. /\ DOMAIN cronJobs' = IF armed THEN DOMAIN cronJobs \cup {k} ELSE DOMAIN cronJobs \ {k}
      /\ armed => cronJobs'[k].on = TRUE /\ cronJobs'[k].def = task.def
      /\ \A j \in DOMAIN cronJobs : j # k => cronJobs'[j] = cronJobs[j]
  <2>1. CASE armed
    <3>1. ScheduleSingleTask(rest, k, task.def)
      BY <2>1 DEF UpdateTaskSaved, Arms
    <3>2. /\ DOMAIN cronJobs' = DOMAIN rest \cup {k}
          /\ cronJobs'[k] = [on |-> TRUE, def |-> task.def]
          /\ \A j \in DOMAIN rest : j # k => cronJobs'[j] = rest[j]
      BY <3>1, ScheduleEffect
    <3>. QED
      BY <2>1, <3>2, <1>2
  <2>2. CASE ~armed
    <3>1. cronJobs' = rest
      BY <2>2 DEF UpdateTaskSaved, Arms
    <3>. QED
      BY <2>2, <3>1, <1>2
  <2>. QED
    BY <2>1, <2>2
<1>4. IdsGivenOut'
  <2>1. DOMAIN cronJobs' \subseteq used'
    BY <1>0, <1>3 DEF IdsGivenOut
  <2>. QED
    BY <1>1, <2>1 DEF IdsGivenOut, CallsGivenOut, RunsGivenOut
<1>5. HandlesFollowPause'
  BY <1>0, <1>3 DEF HandlesFollowPause
<1>6. k \notin drift' => k \in DOMAIN tasks /\ Capture(tasks[k]) = task
  BY DEF UpdateTaskSaved, DriftAfter, Stale
<1>7. k \notin drift' => (WantsJob(task) <=> WantsJob(tasks[k])) /\ tasks[k].def = task.def
  BY <1>6 DEF Capture, WantsJob
<1>8. drift \subseteq drift' \cup {k}
  BY DEF UpdateTaskSaved, DriftAfter
<1>9. ArmedOnlyIfWanted'
  BY <1>0, <1>1, <1>3, <1>6, <1>7, <1>8 DEF ArmedOnlyIfWanted
<1>10. WantedIsArmed'
  BY <1>0, <1>1, <1>3, <1>7, <1>8 DEF WantedIsArmed
<1>. QED
  BY <1>0, <1>4, <1>5, <1>9, <1>10 DEF JobInv

\* A removal's save touches no job; a save that fails leaves its id in drift.
LEMMA CallEndKeepsJobs ==
  ASSUME JobInv, TypeOK', NEW c \in Callers, RemoveSaved(c) \/ CallSaveFails(c)
  PROVE  JobInv'
<1>0. /\ TypeOK /\ IdsGivenOut
      /\ HandlesFollowPause /\ ArmedOnlyIfWanted /\ WantedIsArmed
      /\ call[c].pc \in {"add", "update", "remove"}
      /\ UNCHANGED <<up, tasks, used, paused, run, cronJobs>>
      /\ call' = [call EXCEPT ![c] = Idle] /\ (disk' = disk \/ disk' = call[c].snap)
  BY DEF JobInv, RemoveSaved, CallSaveFails, TypeOK, Call, Idle, taskVars, jobVars
<1>1. /\ \A j : (call[c].pc \notin {"add", "update"} \/ call[c].id # j)
                  => (Pending(j) => Pending(j)')
      /\ \A j : (call[c].pc # "update" \/ call[c].id # j)
                  => (Updating(j) => Updating(j)')
      /\ DOMAIN tasks' \subseteq used' /\ DOMAIN disk' \subseteq used'
      /\ CallsGivenOut' /\ RunsGivenOut'
  BY <1>0, CallEndFrame
<1>2. /\ drift \subseteq drift'
      /\ \A j \in Ids \ drift' : call[c].pc \notin {"add", "update"} \/ call[c].id # j
  BY <1>0 DEF RemoveSaved, CallSaveFails, jobVars
<1>3. IdsGivenOut' /\ HandlesFollowPause'
  BY <1>0, <1>1 DEF IdsGivenOut, CallsGivenOut, RunsGivenOut, HandlesFollowPause
<1>4. ArmedOnlyIfWanted'
  BY <1>0, <1>1, <1>2 DEF ArmedOnlyIfWanted
<1>5. WantedIsArmed'
  BY <1>0, <1>1, <1>2 DEF WantedIsArmed
<1>. QED
  BY <1>0, <1>3, <1>4, <1>5 DEF JobInv

\* The process and the clock: pausing stops every job it holds a handle of,
\* resuming and starting rebuild the table, a crash empties it.
LEMMA ProcessKeepsJobs ==
  ASSUME JobInv, Pause \/ Resume \/ Start \/ Crash \/ Tick
  PROVE  JobInv'
<1>0. /\ TypeOK /\ TypeOK' /\ IdsGivenOut /\ RunsGivenOut /\ CallsGivenOut
      /\ HandlesFollowPause /\ ArmedOnlyIfWanted /\ WantedIsArmed /\ (~up => ~paused)
  BY ProcessTypes DEF JobInv, IdsGivenOut, RunsGivenOut, CallsGivenOut
<1>1. CASE Pause
  <2>1. /\ up' /\ paused' = TRUE /\ DOMAIN cronJobs' = DOMAIN cronJobs
        /\ UNCHANGED <<up, tasks, used, call, run, disk>>
    BY <1>1 DEF Pause, taskVars
  <2>2. ASSUME NEW j \in DOMAIN cronJobs
        PROVE  cronJobs'[j].on = FALSE
    <3>1. cronJobs[j] \in Job
      BY <1>0, TypeFacts DEF JobTable
    <3>. QED
      BY <1>1, <3>1 DEF Pause, Job
  <2>3. HandlesFollowPause'
    BY <2>1, <2>2 DEF HandlesFollowPause
  <2>4. IdsGivenOut'
    BY <1>0, <2>1 DEF IdsGivenOut
  <2>. QED
    BY <1>0, <2>1, <2>3, <2>4 DEF JobInv, ArmedOnlyIfWanted, WantedIsArmed
<1>2. CASE Resume
  <2>1. /\ up' /\ paused' = FALSE /\ cronJobs' = RebuiltJobs(tasks')
        /\ UNCHANGED <<up, tasks, used, call, run, disk>>
    BY <1>2 DEF Resume, taskVars
  <2>2. IdsGivenOut'
    BY <1>0, <2>1 DEF IdsGivenOut, RebuiltJobs
  <2>. QED
    BY <1>0, <2>1, <2>2
       DEF JobInv, HandlesFollowPause, ArmedOnlyIfWanted, WantedIsArmed, RebuiltJobs
<1>3. CASE Start
  <2>1. /\ up' /\ paused' = FALSE /\ cronJobs' = RebuiltJobs(tasks')
        /\ DOMAIN tasks' = DOMAIN disk
        /\ UNCHANGED <<used, call, run, disk>>
    BY <1>0, <1>3 DEF Start, TypeOK
  <2>2. IdsGivenOut'
    BY <1>0, <2>1 DEF IdsGivenOut, RebuiltJobs
  <2>. QED
    BY <1>0, <2>1, <2>2
       DEF JobInv, HandlesFollowPause, ArmedOnlyIfWanted, WantedIsArmed, RebuiltJobs
<1>4. CASE Crash
  <2>1. /\ ~up' /\ ~paused' /\ DOMAIN tasks' = {} /\ DOMAIN cronJobs' = {}
        /\ UNCHANGED <<used, disk>>
        /\ \A c \in Callers : call'[c] = Idle
        /\ \A x \in Execs : run'[x] = Idle
    BY <1>4 DEF Crash, NoTasks, NoJobs
  <2>2. IdsGivenOut'
    BY <1>0, <2>1 DEF IdsGivenOut, Idle
  <2>. QED
    BY <1>0, <2>1, <2>2 DEF JobInv, HandlesFollowPause, ArmedOnlyIfWanted, WantedIsArmed
<1>5. CASE Tick
  <2>1. SameTasks
    <3>1. ASSUME NEW j \in DOMAIN tasks
          PROVE  tasks'[j] = [tasks[j] EXCEPT !.ran = FALSE] /\ tasks[j] \in Task
      BY <1>0, <1>5, TypeFacts DEF Tick, Aged
    <3>2. DOMAIN tasks' = DOMAIN tasks
      BY <1>5 DEF Tick, Aged
    <3>. QED
      BY <3>1, <3>2 DEF SameTasks, WantsJob, Task, AnyTask
  <2>2. ASSUME NEW c \in Callers
        PROVE  /\ call'[c].pc = call[c].pc
               /\ call[c].pc # "idle" => DOMAIN call'[c].snap = DOMAIN call[c].snap
               /\ call[c].pc \in {"add", "update"} => call'[c].id = call[c].id
    <3>1. CASE call[c].pc = "idle"
      BY <1>5, <3>1 DEF Tick, Idle
    <3>2. CASE call[c].pc # "idle"
      <4>1. call'[c] = [call[c] EXCEPT !.snap = Aged(@)] /\ call[c] \in Call \ {Idle}
        BY <1>0, <1>5, <3>2, TypeFacts DEF Tick, Idle
      <4>2. \/ call[c] \in [pc : {"add", "update"}, id : Ids, task : Captured, snap : TaskList]
            \/ call[c] \in [pc : {"remove"}, snap : TaskList]
        BY <4>1 DEF Call
      <4>3. call'[c].snap = Aged(call[c].snap)
        BY <4>1, <4>2
      <4>. QED
        BY <4>1, <4>2, <4>3 DEF Aged
    <3>. QED
      BY <3>1, <3>2
  <2>3. RunsGivenOut'
    <3>1. ASSUME NEW x \in Execs, run'[x].pc # "idle"
          PROVE  DOMAIN run'[x].snap \subseteq used'
      <4>1. run[x].pc # "idle" /\ run'[x] = [run[x] EXCEPT !.snap = Aged(@)]
        BY <1>5, <3>1 DEF Tick, Idle
      <4>2. run[x] \in ExecRecord
        BY <1>0, <4>1, TypeFacts DEF ExecRecord
      <4>3. run'[x].snap = Aged(run[x].snap)
        BY <4>1, <4>2 DEF ExecRecord
      <4>. QED
        BY <1>0, <1>5, <4>1, <4>3 DEF Aged, RunsGivenOut, Tick
    <3>. QED
      BY <3>1 DEF RunsGivenOut
  <2>4. UNCHANGED <<up, used, cronJobs, drift, paused>> /\ DOMAIN disk' = DOMAIN disk
    BY <1>5 DEF Tick, jobVars, Aged
  <2>5. /\ HandlesFollowPause' /\ ArmedOnlyIfWanted' /\ WantedIsArmed'
        /\ (~up => ~paused)'
        /\ DOMAIN tasks' \subseteq used' /\ DOMAIN cronJobs' \subseteq used'
        /\ CallsGivenOut'
    BY <2>1, <2>2, <2>4, JobFrame DEF CallsGivenOut
  <2>. QED
    BY <1>0, <2>3, <2>4, <2>5 DEF JobInv, IdsGivenOut, RunsGivenOut, CallsGivenOut
<1>. QED
  BY <1>1, <1>2, <1>3, <1>4, <1>5

\* The strengthening that tells the two directions of JobTableExact apart is
\* inductive: no tool call, save, pause, resume, execution, crash or restart
\* breaks it, in whatever order.
THEOREM JobInvCorrect == Spec => []JobInv
<1>1. Init => JobInv
  <2>1. DOMAIN NoTasks = {} /\ DOMAIN NoJobs = {}
    BY DEF NoTasks, NoJobs
  <2>. QED
    BY InitTypes, <2>1 DEF Init, JobInv, HandlesFollowPause, IdsGivenOut, ArmedOnlyIfWanted,
                      WantedIsArmed, Idle
<1>2. JobInv /\ [Next]_vars => JobInv'
  <2>1. JobInv /\ UNCHANGED vars => JobInv'
    BY DEF JobInv, vars, TypeOK, HandlesFollowPause, IdsGivenOut, ArmedOnlyIfWanted,
           WantedIsArmed, Pending, Updating
  <2>2. ASSUME JobInv, NEW c \in Callers,
               \/ \E i \in Ids : AddTask(c, i) \/ UpdateTask(c, i) \/ RemoveTask(c, i)
               \/ AddTaskSaved(c) \/ UpdateTaskSaved(c) \/ RemoveSaved(c)
               \/ RemoveAllTasks(c) \/ CallSaveFails(c)
        PROVE  JobInv'
    <3>1. TypeOK'
      BY <2>2, CallTypes DEF JobInv
    <3>. QED
      BY <2>2, <3>1, CallStartKeepsJobs, AddTaskSavedKeepsJobs, UpdateTaskSavedKeepsJobs,
         CallEndKeepsJobs
  <2>3. JobInv /\ Next => JobInv'
    BY <2>2, TriggerKeepsJobs, ProgressKeepsJobs, ProcessKeepsJobs DEF Next
  <2>. QED
    BY <2>1, <2>3
<1>. QED
  BY <1>1, <1>2, PTL DEF Spec

\* At all times the jobs in the table run exactly while the service is not
\* paused, and outside the window of a call's save (or after a raced or failed
\* one) the table holds exactly the enabled cron tasks, each with its present
\* definition.
THEOREM JobTableCorrect == Spec => []JobTableExact
<1>1. JobInv => JobTableExact
  <2>1. \A i : Updating(i) => Pending(i)
    BY DEF Updating, Pending
  <2>. QED
    BY <2>1 DEF JobInv, JobTableExact, WantedAreArmed, ArmedOnlyIfWanted, WantedIsArmed
<1>. QED
  BY <1>1, JobInvCorrect, PTL

-----------------------------------------------------------------------------
(* Who owns a task shown as running                                        *)

Owns(x, i) == run[x].pc \in {"marking", "starting", "invoking"} /\ run[x].once /\ run[x].id = i
IsRunning(i) == i \in DOMAIN tasks /\ tasks[i].state = "running"
Owned(i) == i \in orphaned \/ \E x \in Execs : Owns(x, i)

\* While no task comes to be shown as running, it is enough that who owned a task
\* goes on to.
LEMMA OwnersRemain ==
  ASSUME RunningIsOwned,
         \A i : IsRunning(i)' => IsRunning(i),
         \A i : IsRunning(i)' /\ Owned(i) => Owned(i)'
  PROVE  RunningIsOwned'
BY DEF RunningIsOwned, IsRunning, Owned, Owns

\* A step after which every task is shown as before, or not at all, and that no
\* execution takes part in.
LEMMA NoneOwns ==
  ASSUME RunningIsOwned, \A i : IsRunning(i)' => IsRunning(i),
         run' = run, orphaned \subseteq orphaned'
  PROVE  RunningIsOwned'
BY OwnersRemain DEF Owned, Owns

\* Only a task of kind "once" is shown as running.
LEMMA RunningIsOnce ==
  ASSUME TypeOK, NEW i, IsRunning(i)
  PROVE  i \in Ids /\ Live(i)
BY TypeFacts DEF IsRunning, Live, Task, AnyTask

\* What a call puts into the list is not shown as running, but for an update of
\* a task that already was.
LEMMA CallsOwn ==
  ASSUME TypeOK, RunningIsOwned, NEW c \in Callers,
         \/ \E i \in Ids : AddTask(c, i) \/ UpdateTask(c, i) \/ RemoveTask(c, i)
         \/ AddTaskSaved(c) \/ UpdateTaskSaved(c) \/ RemoveSaved(c)
         \/ RemoveAllTasks(c) \/ CallSaveFails(c)
  PROVE  RunningIsOwned'
<1>. USE DEF taskVars, onceVars, jobVars, timeVars, sweepVars
<1>1. ASSUME NEW i \in Ids, AddTask(c, i)
      PROVE  RunningIsOwned'
  <2>1. PICK kind \in Kinds, enabled \in Flags, def \in Defs, runAt \in RunTimes :
          tasks' = Put(tasks, i, Normalise([kind |-> kind, enabled |-> enabled, def |-> def,
                                   runAt |-> runAt, state |-> "none", ran |-> FALSE]))
    BY <1>1, Zenon DEF AddTask
  <2>2. Normalise([kind |-> kind, enabled |-> enabled, def |-> def, runAt |-> runAt,
                   state |-> "none", ran |-> FALSE]).state # "running"
    BY DEF Normalise
  <2>3. \A j : IsRunning(j)' => IsRunning(j)
    BY <2>1, <2>2 DEF IsRunning, Put
  <2>. QED
    BY <1>1, <2>3, NoneOwns DEF AddTask
<1>2. ASSUME NEW i \in Ids, UpdateTask(c, i)
      PROVE  RunningIsOwned'
  <2>1. PICK kind \in Kinds, enabled \in Flags, def \in Defs, runAt \in RunTimes :
          LET t == Normalise([tasks[i] EXCEPT !.kind = kind, !.enabled = enabled,
                                              !.def = def, !.runAt = runAt])
          IN  /\ tasks' = [tasks EXCEPT ![i] = t]
              /\ call' = [call EXCEPT ![c] = [pc |-> "update", id |-> i,
                                              task |-> Capture(t), snap |-> tasks']]
              /\ done' = IF tasks[i].kind = "cron" THEN [done EXCEPT ![i] = 0] ELSE done
    BY <1>2 DEF UpdateTask
  <2>. DEFINE t == Normalise([tasks[i] EXCEPT !.kind = kind, !.enabled = enabled,
                                              !.def = def, !.runAt = runAt])
  <2>2. t.state = "running" => tasks[i].state = "running"
    <3>1. tasks[i] \in AnyTask
      BY <1>2, TypeFacts DEF UpdateTask, Task
    <3>. QED
      BY <3>1 DEF Normalise, AnyTask
  <2>3. \A j : IsRunning(j)' => IsRunning(j)
    BY <2>1, <2>2 DEF IsRunning
  <2>. QED
    BY <1>2, <2>3, NoneOwns DEF UpdateTask
<1>3. ASSUME NEW i \in Ids, RemoveTask(c, i)
      PROVE  RunningIsOwned'
  BY <1>3, NoneOwns DEF RemoveTask, Drop, IsRunning
<1>4. CASE RemoveAllTasks(c)
  BY <1>4, NoneOwns DEF RemoveAllTasks, NoTasks, IsRunning
<1>5. CASE AddTaskSaved(c) \/ UpdateTaskSaved(c) \/ RemoveSaved(c) \/ CallSaveFails(c)
  BY <1>5, NoneOwns DEF AddTaskSaved, UpdateTaskSaved, RemoveSaved, CallSaveFails, IsRunning
<1>. QED
  BY <1>1, <1>2, <1>3, <1>4, <1>5

\* The task that an execution marks as running is its own from then on.
LEMMA ExecuteOwns ==
  ASSUME TypeOK, RunningIsOwned, NEW x \in Execs, NEW i \in Ids, NEW once \in BOOLEAN,
         NEW def, NEW by, Execute(x, i, once, def, by)
  PROVE  RunningIsOwned'
<1>. DEFINE e == [pc |-> "idle", id |-> i, once |-> once, def |-> def, by |-> by,
                  snap |-> NoTasks]
<1>0. run \in [Execs -> Execution]
  BY DEF TypeOK
<1>1. Mark(x, e, "running", "marking", "starting") /\ run[x].pc = "idle"
      /\ orphaned' = IF once THEN orphaned \ {i} ELSE orphaned
  BY DEF Execute
<1>2. \A y \in Execs : y # x => run'[y] = run[y]
  BY <1>0, <1>1 DEF Mark
<1>3. \A j : Owned(j) /\ (once => j # i) => Owned(j)'
  BY <1>1, <1>2 DEF Owned, Owns
<1>4. CASE once /\ Live(i)
  <2>1. /\ tasks' = Put(tasks, i, WithState(tasks[i], "running"))
        /\ run' = [run EXCEPT ![x] = [e EXCEPT !.pc = "marking", !.snap = tasks']]
    BY <1>1, <1>4 DEF Mark
  <2>2. run'[x] = [e EXCEPT !.pc = "marking", !.snap = tasks']
    BY <1>0, <2>1
  <2>3. Owns(x, i)'
    BY <1>4, <2>2 DEF Owns
  <2>4. \A j : j # i /\ IsRunning(j)' => IsRunning(j)
    BY <2>1 DEF IsRunning, Put
  <2>5. ASSUME NEW j, IsRunning(j)'
        PROVE  Owned(j)'
    <3>1. CASE j = i
      BY <2>3, <3>1 DEF Owned
    <3>2. CASE j # i
      BY <1>3, <2>4, <2>5, <3>2 DEF RunningIsOwned, IsRunning, Owned, Owns
    <3>. QED
      BY <3>1, <3>2
  <2>. QED
    BY <2>5 DEF RunningIsOwned, IsRunning, Owned, Owns
<1>5. CASE ~(once /\ Live(i))
  <2>1. tasks' = tasks
    BY <1>1, <1>5 DEF Mark
  <2>2. \A j : IsRunning(j) => (once => j # i)
    BY <1>5, RunningIsOnce
  <2>. QED
    BY <1>3, <2>1, <2>2, OwnersRemain DEF IsRunning
<1>. QED
  BY <1>4, <1>5

\* The task that an execution marks as completed or failed is shown as running
\* no longer, so it needs no owner.
LEMMA MarkDisowns ==
  ASSUME TypeOK, RunningIsOwned, NEW x \in Execs, NEW state \in {"completed", "failed"},
         NEW p, NEW q, Mark(x, run[x], state, p, q), orphaned' = orphaned
  PROVE  RunningIsOwned'
<1>0. run \in [Execs -> Execution]
  BY DEF TypeOK
<1>1. \A y \in Execs : y # x => run'[y] = run[y]
  BY <1>0 DEF Mark
<1>2. \A i : IsRunning(i)' => IsRunning(i) /\ ~Owns(x, i)
  <2>1. CASE run[x].once /\ Live(run[x].id)
    <3>1. /\ tasks' = Put(tasks, run[x].id, WithState(tasks[run[x].id], state))
          /\ run[x].id \in DOMAIN tasks
      BY <2>1 DEF Mark, Live
    <3>2. tasks[run[x].id] \in AnyTask
      BY <3>1, TypeFacts DEF Task
    <3>3. WithState(tasks[run[x].id], state).state = state
      BY <3>2 DEF WithState, AnyTask
    <3>4. tasks'[run[x].id].state = state
      BY <3>1, <3>3 DEF Put
    <3>5. \A i : i = run[x].id => ~IsRunning(i)'
      BY <3>4 DEF IsRunning
    <3>6. \A i : i # run[x].id /\ IsRunning(i)' => IsRunning(i)
      BY <3>1 DEF IsRunning, Put
    <3>. QED
      BY <3>5, <3>6 DEF Owns
  <2>2. CASE ~(run[x].once /\ Live(run[x].id))
    <3>1. tasks' = tasks
      BY <2>2 DEF Mark
    <3>. QED
      BY <2>2, <3>1, RunningIsOnce DEF IsRunning, Owns
  <2>. QED
    BY <2>1, <2>2
<1>. QED
  BY <1>1, <1>2, OwnersRemain DEF Owned, Owns

\* What becomes of an execution that waits for something else.
LEMMA BecomeIs ==
  ASSUME TypeOK, NEW x \in Execs, NEW p, Become(x, p), run[x].pc # "idle"
  PROVE  /\ \A y \in Execs : y # x => run'[y] = run[y]
         /\ p # "idle" => run'[x].pc = p /\ run'[x].once = run[x].once /\ run'[x].id = run[x].id
<1>1. run \in [Execs -> Execution]
  BY DEF TypeOK
<1>2. run[x] \in [pc : MarkPc \cup AwayPc, id : Ids, once : BOOLEAN, def : Defs,
                  by : {"cron", "sweep", "manual"}, snap : TaskList]
  BY TypeFacts
<1>3. p # "idle" => run'[x] = [run[x] EXCEPT !.pc = p, !.snap = NoTasks]
  BY <1>1 DEF Become
<1>. QED
  BY <1>1, <1>2, <1>3 DEF Become

\* An execution owns its task until it marks it again, or leaves it orphaned.
LEMMA ProgressOwns ==
  ASSUME TypeOK, RunningIsOwned, NEW x \in Execs, Progress(x)
  PROVE  RunningIsOwned'
<1>0. run[x].pc # "idle"
  BY DEF Progress, Marked, Abandon, Started, InvokeReturns, Completed, TryFails,
         FailureSaved, ExecutionEnds
<1>1. CASE Marked(x) \/ Started(x)
  <2>1. /\ tasks' = tasks /\ orphaned' = orphaned
        /\ Become(x, "starting") \/ Become(x, "invoking")
    BY <1>1 DEF Marked, Started, onceVars
  <2>2. \A y \in Execs : \A i : Owns(y, i) => Owns(y, i)'
    BY <1>0, <2>1, BecomeIs DEF Owns
  <2>. QED
    BY <2>1, <2>2, OwnersRemain DEF IsRunning, Owned
<1>2. CASE Abandon(x)
  <2>1. /\ tasks' = tasks
        /\ orphaned' = IF run[x].once THEN orphaned \cup {run[x].id} ELSE orphaned
        /\ Become(x, "idle")
    BY <1>2 DEF Abandon
  <2>2. \A y \in Execs : \A i : Owns(y, i) => Owns(y, i)' \/ i \in orphaned'
    BY <1>0, <2>1, BecomeIs DEF Owns
  <2>. QED
    BY <2>1, <2>2, OwnersRemain DEF IsRunning, Owned
<1>3. CASE InvokeReturns(x)
  BY <1>3, MarkDisowns DEF InvokeReturns
<1>4. CASE TryFails(x)
  BY <1>4, MarkDisowns DEF TryFails, Catch, onceVars
<1>5. CASE Completed(x) \/ FailureSaved(x) \/ ExecutionEnds(x)
  <2>1. /\ tasks' = tasks /\ orphaned' = orphaned
        /\ \E p : Become(x, p)
        /\ \A i : ~Owns(x, i)
    BY <1>5 DEF Completed, FailureSaved, ExecutionEnds, onceVars, Owns
  <2>2. \A y \in Execs : \A i : Owns(y, i) => Owns(y, i)'
    BY <1>0, <2>1, BecomeIs DEF Owns
  <2>. QED
    BY <2>1, <2>2, OwnersRemain DEF IsRunning, Owned
<1>. QED
  BY <1>1, <1>2, <1>3, <1>4, <1>5 DEF Progress

LEMMA TriggersOwn ==
  ASSUME TypeOK, RunningIsOwned,
         \/ \E x \in Slots, i \in Ids : FireJob(x, i) \/ RunTaskNow(x, i)
         \/ SweepFires \/ SweepNext \/ SweepEnds
  PROVE  RunningIsOwned'
<1>1. ASSUME NEW x \in Slots, NEW i \in Ids, FireJob(x, i) \/ RunTaskNow(x, i)
      PROVE  RunningIsOwned'
  <2>1. \E once \in BOOLEAN : \E def, by : Execute(x, i, once, def, by)
    BY <1>1 DEF FireJob, RunTaskNow
  <2>. QED
    BY <2>1, ExecuteOwns DEF Execs
<1>2. CASE SweepNext
  <2>1. PICK d \in due : Execute(Sweep, d.id, TRUE, d.def, "sweep")
    BY <1>2 DEF SweepNext
  <2>2. d.id \in Ids
    BY DEF TypeOK
  <2>. QED
    BY <2>1, <2>2, ExecuteOwns DEF Execs
<1>3. CASE SweepFires \/ SweepEnds
  BY <1>3, NoneOwns DEF SweepFires, SweepEnds, taskVars, onceVars, IsRunning
<1>. QED
  BY <1>1, <1>2, <1>3

\* A start finds as running only what died with the process.
LEMMA ProcessOwns ==
  ASSUME TypeOK, RunningIsOwned, Pause \/ Resume \/ Start \/ Crash \/ Tick
  PROVE  RunningIsOwned'
<1>1. CASE Pause \/ Resume
  BY <1>1, NoneOwns DEF Pause, Resume, taskVars, onceVars, IsRunning
<1>2. CASE Start
  <2>1. ASSUME NEW i \in DOMAIN tasks', tasks'[i].state = "running"
        PROVE  i \in orphaned'
    <3>1. i \in DOMAIN disk /\ tasks'[i] = Normalise(disk[i])
      BY <1>2, <2>1 DEF Start
    <3>2. disk[i] \in AnyTask
      BY <3>1, ListElement, TypeFacts DEF Task
    <3>3. disk[i].state = "running"
      BY <2>1, <3>1, <3>2 DEF Normalise, AnyTask
    <3>. QED
      BY <1>2, <3>1, <3>3 DEF Start
  <2>. QED
    BY <2>1 DEF RunningIsOwned
<1>3. CASE Crash
  BY <1>3 DEF Crash, RunningIsOwned, NoTasks
<1>4. CASE Tick
  <2>1. ASSUME NEW i, IsRunning(i)'
        PROVE  IsRunning(i)
    <3>1. i \in DOMAIN tasks /\ tasks'[i] = [tasks[i] EXCEPT !.ran = FALSE]
      BY <1>4, <2>1 DEF Tick, Aged, IsRunning
    <3>2. tasks[i] \in AnyTask
      BY <3>1, TypeFacts DEF Task
    <3>. QED
      BY <2>1, <3>1, <3>2 DEF IsRunning, AnyTask
  <2>2. ASSUME NEW x \in Execs, NEW i, Owns(x, i)
        PROVE  Owns(x, i)'
    <3>1. run'[x] = [run[x] EXCEPT !.snap = Aged(@)]
      BY <1>4, <2>2 DEF Tick, Owns
    <3>2. run[x] \in [pc : MarkPc \cup AwayPc, id : Ids, once : BOOLEAN, def : Defs,
                      by : {"cron", "sweep", "manual"}, snap : TaskList]
      BY <2>2, TypeFacts DEF Owns
    <3>. QED
      BY <2>2, <3>1, <3>2 DEF Owns
  <2>. QED
    BY <1>4, <2>1, <2>2, OwnersRemain DEF Tick, onceVars, Owned
<1>. QED
  BY <1>1, <1>2, <1>3, <1>4

\* A once-off task shown as running has an execution that will mark it again, or
\* its execution rejected before the try block or died with the process: no
\* other order of executions, updates, removals, failures and restarts leaves a
\* task running for ever.
THEOREM RunningCorrect == Spec => []RunningIsOwned
<1>1. Init => RunningIsOwned
  BY DEF Init, RunningIsOwned, NoTasks
<1>2. TypeOK /\ RunningIsOwned /\ [Next]_vars => RunningIsOwned'
  <2>1. RunningIsOwned /\ UNCHANGED vars => RunningIsOwned'
    BY DEF RunningIsOwned, vars
  <2>2. TypeOK /\ RunningIsOwned /\ Next => RunningIsOwned'
    BY CallsOwn, TriggersOwn, ProgressOwns, ProcessOwns DEF Next
  <2>. QED
    BY <2>1, <2>2
<1>. QED
  BY <1>1, <1>2, TypeCorrect, PTL DEF Spec

-----------------------------------------------------------------------------
(* What the sweep promises, as long as nobody runs a task by hand: each     *)
(* task is in the snapshot of a sweep once, and only the sweep marks a task *)
(* as started.                                                             *)

\* No step is a runTaskNow.
ByHand == \E x \in Slots, i \in Ids : RunTaskNow(x, i)

TakenOnce ==
  /\ ~sweeping => due = {}
  /\ up \/ ~sweeping
  /\ \A d, e \in due : d.id = e.id => d = e
  /\ \A d \in due : d.id \in DOMAIN tasks => ~tasks[d.id].ran

\* Only the mark "running" makes a task one that ran in this minute.
LEMMA MarkRan ==
  ASSUME TypeOK, NEW x, NEW e, NEW state, NEW p, NEW q, Mark(x, e, state, p, q)
  PROVE  \A j \in DOMAIN tasks' : tasks'[j].ran =>
           j \in DOMAIN tasks /\ (tasks[j].ran \/ (state = "running" /\ j = e.id))
<1>1. CASE e.once /\ Live(e.id)
  <2>1. tasks' = Put(tasks, e.id, WithState(tasks[e.id], state)) /\ e.id \in DOMAIN tasks
    BY <1>1 DEF Mark, Live
  <2>2. tasks[e.id] \in AnyTask
    BY <2>1, TypeFacts DEF Task
  <2>3. WithState(tasks[e.id], state).ran => tasks[e.id].ran \/ state = "running"
    BY <2>2 DEF WithState, AnyTask
  <2>. QED
    BY <2>1, <2>3 DEF Put
<1>2. CASE ~(e.once /\ Live(e.id))
  BY <1>2 DEF Mark
<1>. QED
  BY <1>1, <1>2

\* No tool call makes a task one that ran.
LEMMA CallsKeepRan ==
  ASSUME TypeOK, NEW c \in Callers,
         \/ \E i \in Ids : AddTask(c, i) \/ UpdateTask(c, i) \/ RemoveTask(c, i)
         \/ AddTaskSaved(c) \/ UpdateTaskSaved(c) \/ RemoveSaved(c)
         \/ RemoveAllTasks(c) \/ CallSaveFails(c)
  PROVE  /\ \A j \in DOMAIN tasks' : tasks'[j].ran => j \in DOMAIN tasks /\ tasks[j].ran
         /\ UNCHANGED <<up, due, sweeping, run, paused>>
<1>. USE DEF taskVars, onceVars, jobVars, timeVars, sweepVars
<1>1. ASSUME NEW i \in Ids, AddTask(c, i)
      PROVE  \A j \in DOMAIN tasks' : tasks'[j].ran => j \in DOMAIN tasks /\ tasks[j].ran
  <2>1. PICK kind \in Kinds, enabled \in Flags, def \in Defs, runAt \in RunTimes :
          tasks' = Put(tasks, i, Normalise([kind |-> kind, enabled |-> enabled, def |-> def,
                                   runAt |-> runAt, state |-> "none", ran |-> FALSE]))
    BY <1>1 DEF AddTask
  <2>2. ~Normalise([kind |-> kind, enabled |-> enabled, def |-> def,
                    runAt |-> runAt, state |-> "none", ran |-> FALSE]).ran
    BY DEF Normalise
  <2>. QED
    BY <2>1, <2>2 DEF Put
<1>2. ASSUME NEW i \in Ids, UpdateTask(c, i)
      PROVE  \A j \in DOMAIN tasks' : tasks'[j].ran => j \in DOMAIN tasks /\ tasks[j].ran
  <2>1. PICK kind \in Kinds, enabled \in Flags, def \in Defs, runAt \in RunTimes :
          LET t == Normalise([tasks[i] EXCEPT !.kind = kind, !.enabled = enabled,
                                              !.def = def, !.runAt = runAt])
          IN  /\ tasks' = [tasks EXCEPT ![i] = t]
              /\ call' = [call EXCEPT ![c] = [pc |-> "update", id |-> i,
                                              task |-> Capture(t), snap |-> tasks']]
              /\ done' = IF tasks[i].kind = "cron" THEN [done EXCEPT ![i] = 0] ELSE done
    BY <1>2 DEF UpdateTask
  <2>2. i \in DOMAIN tasks /\ tasks[i] \in AnyTask
    BY <1>2, TypeFacts DEF UpdateTask, Task
  <2>3. Normalise([tasks[i] EXCEPT !.kind = kind, !.enabled = enabled, !.def = def,
                                   !.runAt = runAt]).ran = tasks[i].ran
    BY <2>2 DEF Normalise, AnyTask
  <2>. QED
    BY <2>1, <2>2, <2>3
<1>3. ASSUME NEW i \in Ids, RemoveTask(c, i)
      PROVE  \A j \in DOMAIN tasks' : tasks'[j].ran => j \in DOMAIN tasks /\ tasks[j].ran
  BY <1>3 DEF RemoveTask, Drop
<1>4. RemoveAllTasks(c) => DOMAIN tasks' = {}
  BY DEF RemoveAllTasks, NoTasks
<1>5. AddTaskSaved(c) \/ UpdateTaskSaved(c) \/ RemoveSaved(c) \/ CallSaveFails(c) => tasks' = tasks
  BY DEF AddTaskSaved, UpdateTaskSaved, RemoveSaved, CallSaveFails
<1>6. UNCHANGED <<up, due, sweeping, run, paused>>
  BY DEF AddTask, UpdateTask, RemoveTask, RemoveAllTasks, AddTaskSaved, UpdateTaskSaved,
         RemoveSaved, CallSaveFails
<1>. QED
  BY <1>1, <1>2, <1>3, <1>4, <1>5, <1>6

\* The snapshot stays good while it only gets smaller and nothing comes to have run.
LEMMA SnapshotStays ==
  ASSUME TakenOnce, due' \subseteq due, sweeping' = sweeping, up' = up,
         \A d \in due' : d.id \in DOMAIN tasks' /\ tasks'[d.id].ran =>
           d.id \in DOMAIN tasks /\ tasks[d.id].ran
  PROVE  TakenOnce'
BY DEF TakenOnce

\* The step of an execution marks no task as running.
LEMMA ProgressKeepsRan ==
  ASSUME TypeOK, NEW x \in Execs, Progress(x)
  PROVE  /\ \A j \in DOMAIN tasks' : tasks'[j].ran => j \in DOMAIN tasks /\ tasks[j].ran
         /\ UNCHANGED <<up, due, sweeping, used>>
         /\ run[x].pc # "idle"
         /\ \A y \in Execs : y # x => run'[y] = run[y]
<1>0. run \in [Execs -> Execution]
  BY DEF TypeOK
<1>1. UNCHANGED <<up, due, sweeping, used>> /\ run[x].pc # "idle"
  BY DEF Progress, Marked, Abandon, Started, InvokeReturns, Completed, TryFails,
         FailureSaved, ExecutionEnds, restOfRun, sweepVars
<1>2. \/ tasks' = tasks /\ \E p : Become(x, p)
      \/ \E p, q : \E state \in {"completed", "failed"} : Mark(x, run[x], state, p, q)
  BY DEF Progress, Marked, Abandon, Started, InvokeReturns, Completed, TryFails, Catch,
         FailureSaved, ExecutionEnds
<1>3. \A j \in DOMAIN tasks' : tasks'[j].ran => j \in DOMAIN tasks /\ tasks[j].ran
  BY SMTT(40), <1>2, MarkRan
<1>4. \A y \in Execs : y # x => run'[y] = run[y]
  BY <1>0, <1>2 DEF Become, Mark
<1>. QED
  BY <1>1, <1>3, <1>4

\* The sweep takes a task of its snapshot that has not run in this minute.
LEMMA SweepTakes ==
  ASSUME TypeOK, TakenOnce, NEW d \in due, due' = due \ {d},
         Execute(Sweep, d.id, TRUE, d.def, "sweep")
  PROVE  /\ \A j \in DOMAIN tasks' : tasks'[j].ran => j \in DOMAIN tasks /\ (tasks[j].ran \/ j = d.id)
         /\ run'[Sweep].id = d.id /\ run'[Sweep].once
         /\ run'[Sweep].pc \in {"marking", "starting"}
         /\ d.id \in DOMAIN tasks => ~tasks[d.id].ran
<1>. DEFINE e == [pc |-> "idle", id |-> d.id, once |-> TRUE, def |-> d.def, by |-> "sweep",
                  snap |-> NoTasks]
<1>1. Mark(Sweep, e, "running", "marking", "starting")
  BY DEF Execute
<1>2. run \in [Execs -> Execution] /\ Sweep \in Execs
  BY DEF TypeOK, Execs
<1>3. run'[Sweep].id = d.id /\ run'[Sweep].once /\ run'[Sweep].pc \in {"marking", "starting"}
  BY <1>1, <1>2 DEF Mark
<1>4. e.id = d.id
  OBVIOUS
<1>. HIDE DEF e
<1>. QED
  BY <1>1, <1>3, <1>4, MarkRan DEF TakenOnce

\* A cron job's execution marks no task, and is not the sweep's.
LEMMA JobMarksNothing ==
  ASSUME TypeOK, NEW x \in Slots, NEW i \in Ids, FireJob(x, i)
  PROVE  /\ tasks' = tasks /\ run'[Sweep] = run[Sweep]
         /\ UNCHANGED <<up, used, due, sweeping, done, disk, call>>
         /\ ~run'[x].once
         /\ \A y \in Execs : y # x => run'[y] = run[y]
<1>1. run \in [Execs -> Execution] /\ x \in Execs /\ Sweep \in Execs /\ x # Sweep
  BY SchedulerAssumption DEF TypeOK, Execs
<1>2. PICK def \in Defs : Execute(x, i, FALSE, def, "cron")
  BY DEF FireJob
<1>3. /\ tasks' = tasks
      /\ run' = [run EXCEPT ![x] = [pc |-> "starting", id |-> i, once |-> FALSE,
                                   def |-> def, by |-> "cron", snap |-> NoTasks]]
  BY <1>2 DEF Execute, Mark
<1>. QED
  BY <1>1, <1>3 DEF FireJob, sweepVars

\* The snapshot is good at every step.
LEMMA SnapshotNext ==
  ASSUME TypeOK, TakenOnce, Next, ~ByHand
  PROVE  TakenOnce'
<1>1. ASSUME NEW c \in Callers,
             \/ \E i \in Ids : AddTask(c, i) \/ UpdateTask(c, i) \/ RemoveTask(c, i)
             \/ AddTaskSaved(c) \/ UpdateTaskSaved(c) \/ RemoveSaved(c)
             \/ RemoveAllTasks(c) \/ CallSaveFails(c)
      PROVE  TakenOnce'
  <2>1. /\ \A j \in DOMAIN tasks' : tasks'[j].ran => j \in DOMAIN tasks /\ tasks[j].ran
        /\ UNCHANGED <<up, due, sweeping, run, paused>>
    BY <1>1, CallsKeepRan
  <2>. QED
    BY <2>1, SnapshotStays
<1>2. CASE Pause \/ Resume
  BY <1>2, SnapshotStays DEF Pause, Resume, taskVars, sweepVars
<1>3. CASE SweepFires
  <2>1. sweeping' = TRUE /\ due' = DueTasks /\ UNCHANGED <<up, tasks>> /\ up
    BY <1>3 DEF SweepFires, taskVars
  <2>. QED
    BY <2>1 DEF TakenOnce, DueTasks, IsOnceTaskDue
<1>4. CASE SweepNext
  <2>1. PICK d \in due : due' = due \ {d} /\ Execute(Sweep, d.id, TRUE, d.def, "sweep")
    BY <1>4 DEF SweepNext
  <2>2. UNCHANGED <<up, sweeping>>
    BY <1>4 DEF SweepNext
  <2>3. \A j \in DOMAIN tasks' : tasks'[j].ran => j \in DOMAIN tasks /\ (tasks[j].ran \/ j = d.id)
    BY <2>1, SweepTakes
  <2>4. \A f \in due' : f.id # d.id
    BY <2>1 DEF TakenOnce
  <2>. QED
    BY <2>1, <2>2, <2>3, <2>4, SnapshotStays
<1>5. CASE SweepEnds
  BY <1>5 DEF SweepEnds, taskVars, TakenOnce
<1>6. ASSUME NEW x \in Execs, Progress(x)
      PROVE  TakenOnce'
  BY <1>6, ProgressKeepsRan, SnapshotStays
<1>7. CASE Start
  BY <1>7 DEF Start, sweepVars, TakenOnce
<1>8. CASE Crash
  BY <1>8 DEF Crash, TakenOnce
<1>9. CASE Tick
  <2>1. tasks' = Aged(tasks) /\ UNCHANGED <<up, due, sweeping>>
    BY <1>9 DEF Tick, sweepVars
  <2>2. \A j \in DOMAIN tasks' : ~tasks'[j].ran
    BY <2>1, TypeFacts DEF Aged, Task, AnyTask
  <2>. QED
    BY <2>1, <2>2, SnapshotStays
<1>10. ASSUME NEW x \in Slots, NEW i \in Ids, FireJob(x, i)
       PROVE  TakenOnce'
  BY <1>10, JobMarksNothing, SnapshotStays
<1>. QED
  BY <1>1, <1>2, <1>3, <1>4, <1>5, <1>6, <1>7, <1>8, <1>9, <1>10 DEF Next, ByHand

\* The step that starts the sweep's execution is SweepNext.
LEMMA OnlySweepStarts ==
  ASSUME Next, ~ByHand, TypeOK, Starts(Sweep)
  PROVE  SweepNext
<1>0. Sweep \in Execs /\ run \in [Execs -> Execution]
  BY DEF Execs, TypeOK
<1>1. ASSUME NEW c \in Callers,
             \/ \E i \in Ids : AddTask(c, i) \/ UpdateTask(c, i) \/ RemoveTask(c, i)
             \/ AddTaskSaved(c) \/ UpdateTaskSaved(c) \/ RemoveSaved(c)
             \/ RemoveAllTasks(c) \/ CallSaveFails(c)
      PROVE  run' = run
  BY <1>1, CallsKeepRan
<1>2. Pause \/ Resume \/ SweepFires \/ SweepEnds \/ Start => run' = run
  BY DEF Pause, Resume, SweepFires, SweepEnds, Start
<1>3. ASSUME NEW x \in Execs, Progress(x)
      PROVE  FALSE
  BY <1>3, ProgressKeepsRan DEF Starts, Execs
<1>4. Crash \/ Tick => FALSE
  BY <1>0 DEF Crash, Tick, Starts, Idle
<1>5. ASSUME NEW x \in Slots, NEW i \in Ids, FireJob(x, i)
      PROVE  run'[Sweep] = run[Sweep]
  BY <1>5, JobMarksNothing
<1>. QED
  BY <1>1, <1>2, <1>3, <1>4, <1>5 DEF Next, ByHand, Starts

\* A failing once-off task is retried at most once a minute, whatever is added,
\* edited, removed and saved under the sweep, whatever fails and however often
\* the process starts anew, as long as nobody runs tasks by hand.
THEOREM RetriedOnce == Spec /\ [][~ByHand]_vars => RetriedOncePerMinute
<1>1. Init => TakenOnce
  BY DEF Init, TakenOnce
<1>2. TypeOK /\ TakenOnce /\ [Next]_vars /\ [~ByHand]_vars => TakenOnce'
  <2>1. TakenOnce /\ UNCHANGED vars => TakenOnce'
    BY DEF TakenOnce, vars
  <2>. QED
    BY <2>1, SnapshotNext
<1>3. TypeOK /\ TakenOnce /\ [Next]_vars /\ [~ByHand]_vars =>
        [Starts(Sweep) => LET i == run'[Sweep].id IN i \in DOMAIN tasks => ~tasks[i].ran]_vars
  <2>1. SUFFICES ASSUME TypeOK, TakenOnce, Next, ~ByHand, Starts(Sweep)
                 PROVE  run'[Sweep].id \in DOMAIN tasks => ~tasks[run'[Sweep].id].ran
    OBVIOUS
  <2>2. PICK d \in due : due' = due \ {d} /\ Execute(Sweep, d.id, TRUE, d.def, "sweep")
    BY <2>1, OnlySweepStarts DEF SweepNext
  <2>. QED
    BY <2>1, <2>2, SweepTakes
<1>. QED
  BY <1>1, <1>2, <1>3, TypeCorrect, PTL DEF Spec, RetriedOncePerMinute

\* An id the sweep will still take, and one that its execution is trying; what a
\* once-off task is after its success.
IsDue(i) == \E d \in due : d.id = i
Tries(i) == run[Sweep].pc \in {"marking", "starting", "invoking"} /\ run[Sweep].id = i
Over(t) == t.kind = "cron" \/ t.state = "completed"
Succeeded(i) == i \in used /\ ~IsDue(i) /\ ~Tries(i) /\ (i \in DOMAIN tasks => Over(tasks[i]))

\* Before its first start the service has neither tasks nor calls.
NothingBefore ==
  /\ DOMAIN disk = {}
  /\ \A x \in Execs : run[x].pc = "idle"
  /\ \A c \in Callers : call[c].pc = "idle"

JobsMarkNothing == \A x \in Slots : run[x].pc # "idle" => ~run[x].once

\* A task that succeeded is neither in the snapshot nor being tried, and the task
\* being tried is not in the snapshot.
OnceInv ==
  /\ up \/ NothingBefore
  /\ ~sweeping => run[Sweep].pc = "idle"
  /\ JobsMarkNothing
  /\ \A i \in Ids : IsDue(i) => i \in used /\ ~Tries(i)
  /\ \A i \in Ids : Tries(i) => i \in used
  /\ \A i \in Ids : done[i] = 0 \/ (done[i] = 1 /\ Succeeded(i))

\* Where nothing is taken or tried anew, and no task that succeeded is begun again.
LEMMA OnceFrame ==
  ASSUME OnceInv, up' \/ NothingBefore', sweeping' = sweeping,
         ~sweeping => run'[Sweep].pc = "idle", JobsMarkNothing',
         due' \subseteq due, used \subseteq used', done' = done,
         \A i \in Ids : Tries(i)' => Tries(i),
         \A i \in Ids : done[i] = 1 /\ Succeeded(i) /\ i \in DOMAIN tasks' => Over(tasks'[i])
  PROVE  OnceInv'
BY DEF OnceInv, Succeeded, IsDue

\* What succeeded stays over through a tool call, or is counted anew.
LEMMA CallsKeepOnce ==
  ASSUME TypeOK, OnceInv, NEW c \in Callers,
         \/ \E i \in Ids : AddTask(c, i) \/ UpdateTask(c, i) \/ RemoveTask(c, i)
         \/ AddTaskSaved(c) \/ UpdateTaskSaved(c) \/ RemoveSaved(c)
         \/ RemoveAllTasks(c) \/ CallSaveFails(c)
  PROVE  OnceInv'
<1>. USE DEF taskVars, onceVars, jobVars, timeVars, sweepVars
<1>1. UNCHANGED <<up, due, sweeping, run>>
  BY CallsKeepRan
<1>2. /\ \A i : (Tries(i)' <=> Tries(i)) /\ (IsDue(i)' <=> IsDue(i))
      /\ JobsMarkNothing' /\ (~sweeping => run'[Sweep].pc = "idle")
  BY <1>1 DEF Tries, IsDue, JobsMarkNothing, OnceInv
<1>3. up
  BY DEF AddTask, UpdateTask, RemoveTask, RemoveAllTasks, AddTaskSaved, UpdateTaskSaved,
         RemoveSaved, CallSaveFails, CallsIdle, OnceInv, NothingBefore
<1>4. ASSUME NEW i \in Ids, AddTask(c, i)
      PROVE  OnceInv'
  <2>1. PICK t : tasks' = Put(tasks, i, t)
    BY <1>4 DEF AddTask
  <2>2. i \notin used /\ used' = used \cup {i} /\ done' = done
    BY <1>4 DEF AddTask
  <2>3. \A j \in Ids : Succeeded(j) /\ j \in DOMAIN tasks' => Over(tasks'[j])
    BY <2>1, <2>2 DEF Put, Succeeded
  <2>. QED
    BY <1>1, <1>2, <1>3, <2>2, <2>3, OnceFrame
<1>5. ASSUME NEW i \in Ids, UpdateTask(c, i)
      PROVE  OnceInv'
  <2>1. PICK kind \in Kinds, enabled \in Flags, def \in Defs, runAt \in RunTimes :
          LET t == Normalise([tasks[i] EXCEPT !.kind = kind, !.enabled = enabled,
                                              !.def = def, !.runAt = runAt])
          IN  /\ tasks' = [tasks EXCEPT ![i] = t]
              /\ call' = [call EXCEPT ![c] = [pc |-> "update", id |-> i,
                                              task |-> Capture(t), snap |-> tasks']]
              /\ done' = IF tasks[i].kind = "cron" THEN [done EXCEPT ![i] = 0] ELSE done
    BY <1>5 DEF UpdateTask
  <2>. DEFINE t0 == [tasks[i] EXCEPT !.kind = kind, !.enabled = enabled, !.def = def,
                                     !.runAt = runAt]
  <2>2. i \in DOMAIN tasks /\ tasks[i] \in AnyTask /\ used' = used
    BY <1>5, TypeFacts DEF UpdateTask, Task
  <2>3. tasks[i].state = "completed" => Over(Normalise(t0))
    BY <2>2, SchedulerAssumption DEF Normalise, AnyTask, Over
  <2>4. tasks' = [tasks EXCEPT ![i] = Normalise(t0)]
    BY <2>1
  <2>. HIDE DEF t0
  <2>5. \A j \in DOMAIN tasks' : j \in DOMAIN tasks /\ (j # i => tasks'[j] = tasks[j])
    BY <2>4
  <2>6. tasks'[i] = Normalise(t0)
    BY <2>2, <2>4
  <2>7. CASE tasks[i].kind = "cron"
    <3>1. done' = [done EXCEPT ![i] = 0] /\ done \in [Ids -> 0..2]
      BY <2>1, <2>7 DEF TypeOK
    <3>2. done'[i] = 0 /\ \A j \in Ids : j # i => done'[j] = done[j]
      BY <3>1
    <3>3. \A j \in Ids : j # i /\ Succeeded(j) => Succeeded(j)'
      BY <1>2, <2>2, <2>5 DEF Succeeded
    <3>4. \A j \in Ids : done'[j] = 0 \/ (done'[j] = 1 /\ Succeeded(j)')
      BY <3>2, <3>3 DEF OnceInv
    <3>. QED
      BY <1>1, <1>2, <1>3, <2>2, <3>4 DEF OnceInv
  <2>8. CASE tasks[i].kind # "cron"
    <3>1. done' = done
      BY <2>1, <2>8
    <3>2. \A j \in Ids : Succeeded(j) /\ j \in DOMAIN tasks' => Over(tasks'[j])
      BY <2>3, <2>5, <2>6, <2>8 DEF Succeeded, Over
    <3>. QED
      BY <1>1, <1>2, <1>3, <2>2, <3>1, <3>2, OnceFrame
  <2>. QED
    BY <2>7, <2>8
<1>6. ASSUME NEW i \in Ids, RemoveTask(c, i)
      PROVE  OnceInv'
  <2>1. done' = done /\ used' = used /\ tasks' = Drop(tasks, i)
    BY <1>6 DEF RemoveTask
  <2>2. \A j \in Ids : Succeeded(j) /\ j \in DOMAIN tasks' => Over(tasks'[j])
    BY <2>1 DEF Drop, Succeeded
  <2>. QED
    BY <1>1, <1>2, <1>3, <2>1, <2>2, OnceFrame
<1>7. CASE RemoveAllTasks(c)
  <2>1. done' = done /\ used' = used /\ DOMAIN tasks' = {}
    BY <1>7 DEF RemoveAllTasks, NoTasks
  <2>. QED
    BY <1>1, <1>2, <1>3, <2>1, OnceFrame
<1>8. CASE AddTaskSaved(c) \/ UpdateTaskSaved(c) \/ RemoveSaved(c) \/ CallSaveFails(c)
  <2>1. done' = done /\ used' = used /\ tasks' = tasks
    BY <1>8 DEF AddTaskSaved, UpdateTaskSaved, RemoveSaved, CallSaveFails
  <2>2. \A j \in Ids : Succeeded(j) /\ j \in DOMAIN tasks' => Over(tasks'[j])
    BY <2>1 DEF Succeeded
  <2>. QED
    BY <1>1, <1>2, <1>3, <2>1, <2>2, OnceFrame
<1>. QED
  BY <1>4, <1>5, <1>6, <1>7, <1>8

\* Marking a task leaves every other as it was.
LEMMA MarkOthers ==
  ASSUME NEW x, NEW e, NEW state, NEW p, NEW q, Mark(x, e, state, p, q)
  PROVE  \A j \in DOMAIN tasks' : j \in DOMAIN tasks /\ (j # e.id => tasks'[j] = tasks[j])
BY DEF Mark, Put, Live

\* The sweep takes a task that has not succeeded.
LEMMA SweepKeepsOnce ==
  ASSUME JobInv, TakenOnce, OnceInv, SweepFires \/ SweepNext \/ SweepEnds
  PROVE  OnceInv'
<1>0. TypeOK /\ DOMAIN tasks \subseteq used
  BY DEF JobInv, IdsGivenOut
<1>1. CASE SweepFires
  <2>1. /\ up /\ up' /\ ~sweeping /\ sweeping' /\ due' = DueTasks
        /\ UNCHANGED <<tasks, used, run, done>>
    BY <1>1 DEF SweepFires, taskVars, onceVars
  <2>2. \A i : ~Tries(i) /\ ~Tries(i)'
    BY <2>1 DEF OnceInv, Tries
  <2>3. \A i : IsDue(i)' => i \in DOMAIN tasks /\ ~Over(tasks[i])
    BY <2>1 DEF IsDue, DueTasks, IsOnceTaskDue, Over
  <2>4. \A i \in Ids : Succeeded(i) => Succeeded(i)'
    BY <2>1, <2>2, <2>3 DEF Succeeded
  <2>. QED
    BY <1>0, <2>1, <2>2, <2>3, <2>4 DEF OnceInv, JobsMarkNothing
<1>2. CASE SweepNext
  <2>1. PICK d \in due : due' = due \ {d} /\ Execute(Sweep, d.id, TRUE, d.def, "sweep")
    BY <1>2 DEF SweepNext
  <2>2. UNCHANGED <<up, sweeping, used, done>> /\ sweeping /\ up
    BY <1>2 DEF SweepNext, TakenOnce
  <2>3. run'[Sweep].id = d.id
    BY <1>0, <2>1, SweepTakes
  <2>4. PICK e, state, p, q : Mark(Sweep, e, state, p, q) /\ e.id = d.id
    BY <2>1 DEF Execute
  <2>5. \A j \in DOMAIN tasks' : j \in DOMAIN tasks /\ (j # d.id => tasks'[j] = tasks[j])
    BY <2>4, MarkOthers
  <2>6. d.id \in Ids /\ IsDue(d.id)
    BY <1>0 DEF TypeOK, IsDue
  <2>7. \A i : IsDue(i)' => IsDue(i) /\ i # d.id
    BY <2>1 DEF IsDue, TakenOnce
  <2>8. \A i : Tries(i)' => i = d.id
    BY <2>3 DEF Tries
  <2>9. \A i \in Ids : Succeeded(i) => Succeeded(i)'
    BY <2>2, <2>5, <2>6, <2>7, <2>8 DEF Succeeded
  <2>10. JobsMarkNothing'
    <3>1. \A y \in Execs : y # Sweep => run'[y] = run[y]
      BY <1>0, <2>4 DEF Mark, TypeOK
    <3>. QED
      BY <3>1, SchedulerAssumption DEF JobsMarkNothing, OnceInv, Execs
  <2>. QED
    BY <2>2, <2>6, <2>7, <2>8, <2>9, <2>10 DEF OnceInv
<1>3. CASE SweepEnds
  <2>1. run[Sweep].pc = "idle" /\ UNCHANGED <<up, due, run, used, tasks, done, disk, call>>
    BY <1>3 DEF SweepEnds, taskVars, onceVars
  <2>2. \A i : (Tries(i)' <=> Tries(i)) /\ (IsDue(i)' <=> IsDue(i)) /\ (Succeeded(i)' <=> Succeeded(i))
    BY <2>1 DEF Tries, IsDue, Succeeded
  <2>3. (up \/ NothingBefore) => (up' \/ NothingBefore')
    BY <2>1 DEF NothingBefore
  <2>. QED
    BY <2>1, <2>2, <2>3 DEF OnceInv, JobsMarkNothing
<1>. QED
  BY <1>1, <1>2, <1>3

\* An execution that a cron job started marks nothing.
LEMMA JobProgressKeepsOnce ==
  ASSUME TypeOK, OnceInv, NEW x \in Slots, Progress(x)
  PROVE  OnceInv'
<1>0. run \in [Execs -> Execution] /\ x \in Execs /\ Sweep \in Execs /\ x # Sweep
  BY SchedulerAssumption DEF TypeOK, Execs
<1>1. /\ UNCHANGED <<up, due, sweeping, used>> /\ run[x].pc # "idle"
      /\ \A y \in Execs : y # x => run'[y] = run[y]
  BY <1>0, ProgressKeepsRan
<1>2. ~run[x].once
  BY <1>1 DEF OnceInv, JobsMarkNothing
<1>3. tasks' = tasks /\ done' = done
  BY <1>2 DEF Progress, Marked, Abandon, Started, InvokeReturns, Completed, TryFails, Catch,
         FailureSaved, ExecutionEnds, Mark, onceVars
<1>4. run'[x].pc # "idle" => ~run'[x].once
  <2>1. run[x] \in [pc : MarkPc \cup AwayPc, id : Ids, once : BOOLEAN, def : Defs,
                    by : {"cron", "sweep", "manual"}, snap : TaskList]
    BY <1>0, <1>1, TypeFacts
  <2>2. \/ \E p : Become(x, p)
        \/ \E p, q : \E state \in {"completed", "failed"} : Mark(x, run[x], state, p, q)
    BY SMTT(40) DEF Progress, Marked, Abandon, Started, InvokeReturns, Completed, TryFails, Catch,
         FailureSaved, ExecutionEnds
  <2>3. \/ run'[x] = Idle
        \/ \E p : run'[x] = [run[x] EXCEPT !.pc = p, !.snap = NoTasks]
    BY <1>0, <1>2, <2>2 DEF Become, Mark
  <2>4. \A p : [run[x] EXCEPT !.pc = p, !.snap = NoTasks].once = run[x].once
    BY <2>1
  <2>5. CASE run'[x] = Idle
    BY <2>5 DEF Idle
  <2>6. ASSUME NEW p, run'[x] = [run[x] EXCEPT !.pc = p, !.snap = NoTasks]
        PROVE  ~run'[x].once
    <3>1. run'[x].once = run[x].once
      BY <2>4, <2>6
    <3>. QED
      BY <1>2, <3>1
  <2>. QED
    BY <2>3, <2>5, <2>6
<1>5. JobsMarkNothing'
  BY <1>1, <1>4 DEF OnceInv, JobsMarkNothing, Execs
<1>6. run'[Sweep] = run[Sweep]
  BY <1>0, <1>1
<1>7. up /\ (~sweeping => run'[Sweep].pc = "idle")
  BY <1>0, <1>1, <1>6 DEF OnceInv, NothingBefore
<1>8. \A i \in Ids : Tries(i)' => Tries(i)
  BY <1>6 DEF Tries
<1>9. \A i \in Ids : Succeeded(i) /\ i \in DOMAIN tasks' => Over(tasks'[i])
  BY <1>3 DEF Succeeded
<1>. QED
  BY <1>1, <1>3, <1>5, <1>7, <1>8, <1>9, OnceFrame

\* A step of the sweep's execution that marks nothing.
LEMMA WaitsOn ==
  ASSUME TypeOK, OnceInv, Progress(Sweep), NEW p, Become(Sweep, p),
         tasks' = tasks, done' = done,
         run[Sweep].pc \in {"marking", "starting", "invoking"} \/ p \notin {"marking", "starting", "invoking"}
  PROVE  OnceInv'
<1>0. run \in [Execs -> Execution] /\ Sweep \in Execs
  BY DEF TypeOK, Execs
<1>1. /\ UNCHANGED <<up, due, sweeping, used>> /\ run[Sweep].pc # "idle"
      /\ \A y \in Execs : y # Sweep => run'[y] = run[y]
  BY <1>0, ProgressKeepsRan
<1>2. up /\ sweeping
  BY <1>0, <1>1 DEF OnceInv, NothingBefore
<1>3. JobsMarkNothing'
  BY <1>1, SchedulerAssumption DEF JobsMarkNothing, OnceInv, Execs
<1>4. \A i \in Ids : Tries(i)' => Tries(i)
  <2>1. CASE p = "idle"
    BY <1>0, <2>1 DEF Become, Tries, Idle
  <2>2. CASE p # "idle"
    BY <1>0, <1>1, <2>2, BecomeIs DEF Tries
  <2>. QED
    BY <2>1, <2>2
<1>5. \A i \in Ids : Succeeded(i) /\ i \in DOMAIN tasks' => Over(tasks'[i])
  BY DEF Succeeded
<1>. QED
  BY <1>1, <1>2, <1>3, <1>4, <1>5, OnceFrame

\* The sweep's execution marks a task that has not succeeded, or has just now.
LEMMA SweepProgressKeepsOnce ==
  ASSUME Faults \cap {"save", "reply", "crash"} = {}, TypeOK, OnceInv, Progress(Sweep)
  PROVE  OnceInv'
<1>0. run \in [Execs -> Execution] /\ Sweep \in Execs
  BY DEF TypeOK, Execs
<1>1. /\ UNCHANGED <<up, due, sweeping, used>> /\ run[Sweep].pc # "idle"
      /\ \A y \in Execs : y # Sweep => run'[y] = run[y]
  BY <1>0, ProgressKeepsRan
<1>2. up /\ sweeping
  BY <1>0, <1>1 DEF OnceInv, NothingBefore
<1>3. JobsMarkNothing'
  BY <1>1, SchedulerAssumption DEF JobsMarkNothing, OnceInv, Execs
<1>4. run[Sweep] \in [pc : MarkPc \cup AwayPc, id : Ids, once : BOOLEAN, def : Defs,
                       by : {"cron", "sweep", "manual"}, snap : TaskList]
  BY <1>0, <1>1, TypeFacts
<1>5. CASE Marked(Sweep) \/ Abandon(Sweep) \/ Started(Sweep) \/ Completed(Sweep)
           \/ FailureSaved(Sweep) \/ ExecutionEnds(Sweep)
  <2>1. PICK p : /\ Become(Sweep, p) /\ tasks' = tasks /\ done' = done
                 /\ \/ run[Sweep].pc \in {"marking", "starting", "invoking"}
                    \/ p \notin {"marking", "starting", "invoking"}
    BY <1>5 DEF Marked, Abandon, Started, Completed, FailureSaved, ExecutionEnds, onceVars,
                AfterSuccess, AfterFailure
  <2>. QED
    BY <2>1, WaitsOn
<1>6. ASSUME run[Sweep].pc = "invoking",
             NEW state \in {"completed", "failed"}, NEW p \in MarkPc \ {"marking"},
             NEW q \in {"idle", "replying", "apologising"}, Mark(Sweep, run[Sweep], state, p, q)
      PROVE  /\ \A i \in Ids : ~Tries(i)'
             /\ \A i \in DOMAIN tasks' : i \in DOMAIN tasks /\ (i # run[Sweep].id => tasks'[i] = tasks[i])
             /\ run[Sweep].id \in Ids /\ Tries(run[Sweep].id)
             /\ run[Sweep].once /\ state = "completed" /\ run[Sweep].id \in DOMAIN tasks' => Over(tasks'[run[Sweep].id])
  <2>1. run'[Sweep].pc \in {p, q}
    <3>1. \/ run'[Sweep] = [run[Sweep] EXCEPT !.pc = p, !.snap = tasks']
          \/ q = "idle" /\ run'[Sweep] = Idle
          \/ run'[Sweep] = [run[Sweep] EXCEPT !.pc = q, !.snap = NoTasks]
      BY <1>0, <1>6 DEF Mark
    <3>2. /\ [run[Sweep] EXCEPT !.pc = p, !.snap = tasks'].pc = p
          /\ [run[Sweep] EXCEPT !.pc = q, !.snap = NoTasks].pc = q
          /\ Idle.pc = "idle"
      BY <1>4 DEF Idle
    <3>. QED
      BY <3>1, <3>2
  <2>2. \A i \in Ids : ~Tries(i)'
    BY <2>1, <1>6 DEF Tries, MarkPc
  <2>3. \A i \in DOMAIN tasks' : i \in DOMAIN tasks /\ (i # run[Sweep].id => tasks'[i] = tasks[i])
    BY <1>6, MarkOthers
  <2>4. run[Sweep].id \in Ids /\ Tries(run[Sweep].id)
    BY <1>4, <1>6 DEF Tries
  <2>5. ASSUME run[Sweep].once, state = "completed", run[Sweep].id \in DOMAIN tasks'
        PROVE  Over(tasks'[run[Sweep].id])
    <3>1. run[Sweep].id \in DOMAIN tasks /\ tasks[run[Sweep].id] \in AnyTask
      BY <2>3, <2>5, TypeFacts DEF Task
    <3>2. CASE Live(run[Sweep].id)
      <4>1. tasks' = Put(tasks, run[Sweep].id, WithState(tasks[run[Sweep].id], state))
        BY <1>6, <2>5, <3>2 DEF Mark
      <4>2. tasks'[run[Sweep].id] = WithState(tasks[run[Sweep].id], "completed")
        BY <2>5, <4>1 DEF Put
      <4>. QED
        BY <3>1, <4>2 DEF WithState, AnyTask, Over
    <3>3. CASE ~Live(run[Sweep].id)
      <4>1. tasks' = tasks
        BY <1>6, <3>3 DEF Mark
      <4>. QED
        BY <3>1, <3>3, <4>1 DEF Live, AnyTask, Over
    <3>. QED
      BY <3>2, <3>3
  <2>. QED
    BY <2>2, <2>3, <2>4, <2>5
<1>7. CASE InvokeReturns(Sweep)
  <2>. DEFINE n == run[Sweep].id
  <2>1. /\ run[Sweep].pc = "invoking"
        /\ Mark(Sweep, run[Sweep], "completed", "completing", AfterSuccess(run[Sweep]))
        /\ done' = IF run[Sweep].once /\ done[n] < 2 THEN [done EXCEPT ![n] = @ + 1] ELSE done
    BY <1>7 DEF InvokeReturns
  <2>2. /\ \A i \in Ids : ~Tries(i)'
        /\ \A i \in DOMAIN tasks' : i \in DOMAIN tasks /\ (i # n => tasks'[i] = tasks[i])
        /\ n \in Ids /\ Tries(n)
        /\ run[Sweep].once /\ n \in DOMAIN tasks' => Over(tasks'[n])
    BY <1>6, <2>1 DEF AfterSuccess, MarkPc
  <2>3. done[n] = 0 /\ n \in used /\ ~IsDue(n)
    BY <2>2 DEF OnceInv, Succeeded
  <2>4. \A i \in Ids : i # n /\ Succeeded(i) => Succeeded(i)'
    BY <1>1, <2>2 DEF Succeeded, IsDue
  <2>5. \A i \in Ids : run[Sweep].once /\ i = n => Succeeded(i)'
    BY <1>1, <2>2, <2>3 DEF Succeeded, IsDue
  <2>. HIDE DEF n
  <2>6. CASE run[Sweep].once
    <3>1. done' = [done EXCEPT ![n] = 1] /\ done \in [Ids -> 0..2]
      BY <2>1, <2>3, <2>6 DEF TypeOK
    <3>2. done'[n] = 1 /\ \A i \in Ids : i # n => done'[i] = done[i]
      BY <2>2, <3>1
    <3>3. \A i \in Ids : done'[i] = 0 \/ (done'[i] = 1 /\ Succeeded(i)')
      BY <2>4, <2>5, <2>6, <3>2 DEF OnceInv
    <3>. QED
      BY <1>1, <1>2, <1>3, <2>2, <3>3 DEF OnceInv, IsDue
  <2>7. CASE ~run[Sweep].once
    <3>1. done' = done
      BY <2>1, <2>7
    <3>2. \A i \in Ids : done'[i] = 0 \/ (done'[i] = 1 /\ Succeeded(i)')
      BY <2>3, <2>4, <3>1 DEF OnceInv
    <3>. QED
      BY <1>1, <1>2, <1>3, <2>2, <3>2 DEF OnceInv, IsDue
  <2>. QED
    BY <2>6, <2>7
<1>8. CASE TryFails(Sweep)
  <2>. DEFINE n == run[Sweep].id
  <2>1. /\ run[Sweep].pc = "invoking" /\ done' = done
        /\ Mark(Sweep, run[Sweep], "failed", "failing", AfterFailure(run[Sweep]))
    BY <1>8 DEF TryFails, Catch, onceVars
  <2>2. /\ \A i \in Ids : ~Tries(i)'
        /\ \A i \in DOMAIN tasks' : i \in DOMAIN tasks /\ (i # n => tasks'[i] = tasks[i])
        /\ n \in Ids /\ Tries(n)
    BY <1>6, <2>1 DEF AfterFailure, MarkPc
  <2>3. \A i \in Ids : Succeeded(i) /\ i \in DOMAIN tasks' => Over(tasks'[i])
    BY <2>2 DEF Succeeded
  <2>. QED
    BY <1>1, <1>2, <1>3, <2>1, <2>2, <2>3, OnceFrame
<1>. QED
  BY <1>5, <1>7, <1>8 DEF Progress

\* The process starts with what it has saved: nothing, where it starts but once.
LEMMA ProcessKeepsOnce ==
  ASSUME Faults \cap {"save", "reply", "crash"} = {}, TypeOK, OnceInv,
         Pause \/ Resume \/ Start \/ Crash \/ Tick
  PROVE  OnceInv'
<1>1. CASE Pause \/ Resume
  <2>1. up /\ up' /\ UNCHANGED <<tasks, used, due, sweeping, run, done>>
    BY <1>1 DEF Pause, Resume, taskVars, sweepVars, onceVars
  <2>2. \A i : (Tries(i)' <=> Tries(i)) /\ (IsDue(i)' <=> IsDue(i)) /\ (Succeeded(i)' <=> Succeeded(i))
    BY <2>1 DEF Tries, IsDue, Succeeded
  <2>. QED
    BY <2>1, <2>2 DEF OnceInv, JobsMarkNothing
<1>2. CASE Start
  <2>1. up' /\ DOMAIN disk = {} /\ DOMAIN tasks' = DOMAIN disk
        /\ UNCHANGED <<used, due, sweeping, run, done>>
    BY <1>2 DEF Start, sweepVars, OnceInv, NothingBefore
  <2>2. \A i : (Tries(i)' <=> Tries(i)) /\ (IsDue(i)' <=> IsDue(i)) /\ (Succeeded(i) => Succeeded(i)')
    BY <2>1 DEF Tries, IsDue, Succeeded
  <2>. QED
    BY <2>1, <2>2 DEF OnceInv, JobsMarkNothing
<1>3. CASE Crash
  BY <1>3 DEF Crash
<1>4. CASE Tick
  <2>0. run \in [Execs -> Execution] /\ Sweep \in Execs
    BY DEF TypeOK, Execs
  <2>1. /\ tasks' = Aged(tasks) /\ disk' = Aged(disk)
        /\ UNCHANGED <<up, used, due, sweeping, done>>
        /\ \A c \in Callers : call[c].pc = "idle" => call'[c] = Idle
        /\ \A x \in Execs : run'[x] = IF run[x].pc = "idle" THEN Idle
                                     ELSE [run[x] EXCEPT !.snap = Aged(@)]
    BY <1>4 DEF Tick, sweepVars, onceVars
  <2>2. \A x \in Execs : /\ run'[x].pc = run[x].pc
                         /\ run[x].pc # "idle" => run'[x].id = run[x].id /\ run'[x].once = run[x].once
    <3>1. SUFFICES ASSUME NEW x \in Execs
                   PROVE  /\ run'[x].pc = run[x].pc
                          /\ run[x].pc # "idle" => run'[x].id = run[x].id /\ run'[x].once = run[x].once
      OBVIOUS
    <3>2. CASE run[x].pc = "idle"
      <4>1. run'[x] = Idle
        BY <2>1, <3>2
      <4>. QED
        BY <3>2, <4>1 DEF Idle
    <3>3. CASE run[x].pc # "idle"
      <4>1. run[x] \in [pc : MarkPc \cup AwayPc, id : Ids, once : BOOLEAN, def : Defs,
                        by : {"cron", "sweep", "manual"}, snap : TaskList]
        BY <3>3, TypeFacts
      <4>2. run'[x] = [run[x] EXCEPT !.snap = Aged(@)]
        BY <2>1, <3>3
      <4>. QED
        BY <4>1, <4>2
    <3>. QED
      BY <3>2, <3>3
  <2>3. \A i : (Tries(i)' <=> Tries(i)) /\ (IsDue(i)' <=> IsDue(i))
    BY <2>0, <2>1, <2>2 DEF Tries, IsDue
  <2>4. \A i \in DOMAIN tasks' : i \in DOMAIN tasks /\ (Over(tasks[i]) => Over(tasks'[i]))
    BY <2>1, TypeFacts DEF Aged, Task, AnyTask, Over
  <2>5. \A i : Succeeded(i) => Succeeded(i)'
    BY <2>1, <2>3, <2>4 DEF Succeeded
  <2>6. up' \/ NothingBefore'
    BY <2>1, <2>2 DEF OnceInv, NothingBefore, Aged, Idle
  <2>7. JobsMarkNothing'
    <3>1. SUFFICES ASSUME NEW x \in Slots, run'[x].pc # "idle" PROVE ~run'[x].once
      BY DEF JobsMarkNothing
    <3>2. run[x].pc # "idle" /\ run'[x].once = run[x].once
      BY <2>2, <3>1 DEF Execs
    <3>3. ~run[x].once
      BY <3>2 DEF OnceInv, JobsMarkNothing
    <3>. QED
      BY <3>2, <3>3
  <2>8. ~sweeping => run'[Sweep].pc = "idle"
    BY <2>0, <2>2 DEF OnceInv
  <2>. QED
    BY <2>1, <2>3, <2>5, <2>6, <2>7, <2>8 DEF OnceInv
<1>. QED
  BY <1>1, <1>2, <1>3, <1>4

\* The prompt of a once-off task is run to success at most once, whatever is
\* added, edited and removed while it is due, started or running, as long as
\* saves and replies do not fail, the process goes on, and nobody runs the task by
\* hand: a failing save or reply runs the catch block of a run that succeeded,
\* and a process that died may read a list from before the success.
THEOREM OnceOffIsOnce ==
  ASSUME Faults \cap {"save", "reply", "crash"} = {}
  PROVE  Spec /\ [][~ByHand]_vars => []OnceOffRunsOnce
<1>1. Init => TakenOnce /\ OnceInv
  BY SchedulerAssumption DEF Init, TakenOnce, OnceInv, NothingBefore, NoTasks, Idle, Execs, JobsMarkNothing,
         IsDue, Tries
<1>2. TypeOK /\ TakenOnce /\ [Next]_vars /\ [~ByHand]_vars => TakenOnce'
  <2>1. TakenOnce /\ UNCHANGED vars => TakenOnce'
    BY DEF TakenOnce, vars
  <2>. QED
    BY <2>1, SnapshotNext
<1>3. JobInv /\ TakenOnce /\ OnceInv /\ [Next]_vars /\ [~ByHand]_vars => OnceInv'
  <2>1. OnceInv /\ UNCHANGED vars => OnceInv'
    BY DEF OnceInv, NothingBefore, JobsMarkNothing, IsDue, Tries, Succeeded, vars
  <2>2. ASSUME JobInv, OnceInv, NEW x \in Slots, NEW i \in Ids, FireJob(x, i)
        PROVE  OnceInv'
    <3>1. TypeOK
      BY <2>2 DEF JobInv
    <3>2. /\ tasks' = tasks /\ run'[Sweep] = run[Sweep]
          /\ UNCHANGED <<up, used, due, sweeping, done, disk, call>>
          /\ ~run'[x].once
          /\ \A y \in Execs : y # x => run'[y] = run[y]
      BY <2>2, <3>1, JobMarksNothing
    <3>3. JobsMarkNothing' /\ (~sweeping => run'[Sweep].pc = "idle")
      BY <2>2, <3>2 DEF OnceInv, JobsMarkNothing, Execs
    <3>4. up
      BY <2>2 DEF FireJob
    <3>5. \A j \in Ids : Tries(j)' => Tries(j)
      BY <3>2 DEF Tries
    <3>6. \A j \in Ids : Succeeded(j) /\ j \in DOMAIN tasks' => Over(tasks'[j])
      BY <3>2 DEF Succeeded
    <3>. QED
      BY <2>2, <3>2, <3>3, <3>4, <3>5, <3>6, OnceFrame
  <2>3. JobInv => TypeOK
    BY DEF JobInv
  <2>4. ASSUME JobInv, TakenOnce, OnceInv, Next, ~ByHand
        PROVE  OnceInv'
    BY <2>2, <2>3, <2>4, CallsKeepOnce, SweepKeepsOnce, JobProgressKeepsOnce, SweepProgressKeepsOnce,
       ProcessKeepsOnce DEF Next, ByHand, Execs
  <2>. QED
    BY <2>1, <2>4
<1>4. OnceInv => OnceOffRunsOnce
  BY DEF OnceInv, OnceOffRunsOnce
<1>. QED
  BY <1>1, <1>2, <1>3, <1>4, TypeCorrect, JobInvCorrect, PTL DEF Spec

-----------------------------------------------------------------------------
(* What executions ask of the gateway, for any executions and any tools.   *)

At == {"none", "asked", "running", "answered", "refused", "gone"}
Stages == {"idle", "starter", "asking", "waiting", "replying", "failed", "done"}
Marks == [kind : {"request", "graph"}]
Openings == [kind : {"call", "transfer"}, call : ToolCalls, tool : ToolNames]
Results == [kind : {"result"}, call : ToolCalls, tool : ToolNames]
RunEvent == Marks \cup Openings \cup Results
NamesOfCalls == UNION {[D -> ToolNames] : D \in SUBSET ToolCalls}
RunState == [at : At, names : NamesOfCalls, used : SUBSET ToolCalls, busy : SUBSET (ToolCalls \X ToolNames)]

\* Event i of s opens call c, or shows its result.
Opens(s, i, c) == s[i] \in Openings /\ s[i].call = c
Ends(s, i, c) == s[i] \in Results /\ s[i].call = c

\* What a run that is not gone knows of its calls is what its observers have seen.
CallsShown(s, r) ==
  /\ \A i, j \in 1..Len(s) : \A c \in ToolCalls : Opens(s, i, c) /\ Opens(s, j, c) => i = j
  /\ \A i, j \in 1..Len(s) : \A c \in ToolCalls : Ends(s, i, c) /\ Ends(s, j, c) => i = j
  /\ \A i \in 1..Len(s) : \A c \in ToolCalls : Ends(s, i, c) =>
       \E j \in 1..(i - 1) : Opens(s, j, c) /\ s[j].tool = s[i].tool
  /\ r.at \in {"running", "answered", "refused"} =>
       \A i \in 1..Len(s) : \A c \in ToolCalls : Opens(s, i, c) => c \in r.used
  /\ r.at \in {"none", "asked"} => \A i \in 1..Len(s) : s[i] \notin Openings /\ s[i] \notin Results
BusyNamed(seen, r) ==
  /\ r.at \in {"none", "asked", "gone"} => r.busy = {}
  /\ \A c \in ToolCalls : \A t, u \in ToolNames : <<c, t>> \in r.busy /\ <<c, u>> \in r.busy => t = u
  /\ \A c \in ToolCalls : \A t \in ToolNames : <<c, t>> \in r.busy => c \in r.used
  /\ DOMAIN r.names = {c \in ToolCalls : seen /\ \E t \in ToolNames : <<c, t>> \in r.busy}
  /\ \A c \in ToolCalls : \A t \in ToolNames : seen /\ <<c, t>> \in r.busy => r.names[c] = t
BusyShown(seen, s, r) ==
  \A c \in ToolCalls : \A t \in ToolNames : seen /\ <<c, t>> \in r.busy =>
    /\ \E j \in 1..Len(s) : Opens(s, j, c) /\ s[j].tool = t
    /\ \A j \in 1..Len(s) : ~Ends(s, j, c)
MarksShown(s, r) ==
  /\ \A i, j \in 1..Len(s) : s[i].kind = "graph" /\ j < i => s[j].kind = "request"
  /\ \A i \in 1..Len(s) : s[i].kind = "request" => i = 1
  /\ r.at = "none" => s = <<>>
  /\ r.at = "asked" => s = <<>> \/ s = RunAnnounced

Untold == {<<>>, <<"starter">>}
Told == {<<"reply">>, <<"starter", "reply">>}
Reported == {<<"error">>, <<"starter", "error">>}
ToldAndReported == {<<"reply", "error">>, <<"starter", "reply", "error">>}
ChatIs(at, chat, r) ==
  /\ at \in {"idle", "starter"} => chat = <<>>
  /\ at \in {"asking", "waiting", "replying"} => chat \in Untold
  /\ at = "failed" => chat \in Untold \cup Told
  /\ chat \in Untold \cup Reported \/ (chat \in Told \cup ToldAndReported /\ r.at = "answered")
  /\ at = "replying" => r.at = "answered"
  /\ at \in {"idle", "starter", "asking"} => r.at = "none"

RunInv(e) ==
  /\ CallsShown(shownOf[e], runOf[e]) /\ BusyNamed(observed, runOf[e]) /\ BusyShown(observed, shownOf[e], runOf[e])
  /\ MarksShown(shownOf[e], runOf[e]) /\ ChatIs(execution[e], chatOf[e], runOf[e])
  /\ (observed \/ \A i \in 1..Len(shownOf[e]) : shownOf[e][i].kind = "request")

RunsInv ==
  /\ execution \in [Executions -> Stages] /\ serving \in BOOLEAN /\ observed \in BOOLEAN
  /\ runOf \in [Executions -> RunState] /\ shownOf \in [Executions -> Seq(RunEvent)]
  /\ chatOf \in [Executions -> Seq({"starter", "reply", "error"})]
  /\ \A e \in Executions : RunInv(e)

LEMMA RunHas ==
  ASSUME RunsInv, NEW e \in Executions
  PROVE  /\ runOf[e] \in RunState /\ shownOf[e] \in Seq(RunEvent) /\ execution[e] \in Stages
         /\ CallsShown(shownOf[e], runOf[e]) /\ BusyNamed(observed, runOf[e]) /\ BusyShown(observed, shownOf[e], runOf[e])
         /\ MarksShown(shownOf[e], runOf[e]) /\ ChatIs(execution[e], chatOf[e], runOf[e])
         /\ observed \in BOOLEAN
BY DEF RunsInv, RunInv

-----------------------------------------------------------------------------
(* The source channel                                                      *)

LEMMA JoinIs ==
  ASSUME NEW S, NEW a \in Seq(S), NEW b \in Seq(S)
  PROVE  /\ a \o b \in Seq(S) /\ Len(a \o b) = Len(a) + Len(b)
         /\ \A i \in 1..Len(a) + Len(b) : (a \o b)[i] = IF i <= Len(a) THEN a[i] ELSE b[i - Len(a)]
<1>1. a \o b \in Seq(S)
  OBVIOUS
<1>2. Len(a \o b) = Len(a) + Len(b)
  OBVIOUS
<1>3. \A i \in 1..Len(a) + Len(b) : (a \o b)[i] = IF i <= Len(a) THEN a[i] ELSE b[i - Len(a)]
  OBVIOUS
<1> QED BY <1>1, <1>2, <1>3

LEMMA AddToOne ==
  ASSUME NEW a, NEW b PROVE Append(<<a>>, b) = <<a, b>>
<1> DEFINE s == <<a>>  S == {a, b}  t == Append(s, b)  u == <<a, b>>
<1>1. s \in Seq(S) /\ Len(s) = 1 /\ s[1] = a /\ b \in S
  OBVIOUS
<1>2. u \in Seq(S) /\ Len(u) = 2 /\ u[1] = a /\ u[2] = b
  OBVIOUS
<1> HIDE DEF s, u, S
<1>3. t \in Seq(S) /\ Len(t) = 2 /\ t[1] = a /\ t[2] = b
  <2>1. t \in Seq(S) /\ Len(t) = Len(s) + 1 /\ (\A i \in 1..Len(s) : t[i] = s[i]) /\ t[Len(s) + 1] = b
    <3>1. s \in Seq(S) /\ b \in S
      BY <1>1
    <3>2. t \in Seq(S)
      BY <3>1
    <3>3. Len(t) = Len(s) + 1
      BY <3>1
    <3>4. \A i \in 1..Len(s) : t[i] = s[i]
      BY <3>1
    <3>5. t[Len(s) + 1] = b
      BY <3>1
    <3> QED BY <3>2, <3>3, <3>4, <3>5
  <2>2. Len(s) + 1 = 2 /\ 1 \in 1..Len(s)
    BY <1>1
  <2> HIDE DEF t
  <2> QED BY <1>1, <2>1, <2>2
<1> HIDE DEF t
<1>4. \A i \in 1..Len(t) : t[i] = u[i]
  BY <1>2, <1>3
<1>5. t = u
  BY <1>2, <1>3, <1>4, SeqEqual
<1> QED BY <1>5 DEF t, s, u

LEMMA AddToTwo ==
  ASSUME NEW a, NEW b, NEW c PROVE Append(<<a, b>>, c) = <<a, b, c>>
<1> DEFINE s == <<a, b>>  S == {a, b, c}  t == Append(s, c)  u == <<a, b, c>>
<1>1. s \in Seq(S) /\ Len(s) = 2 /\ s[1] = a /\ s[2] = b /\ c \in S
  OBVIOUS
<1>2. u \in Seq(S) /\ Len(u) = 3 /\ u[1] = a /\ u[2] = b /\ u[3] = c
  OBVIOUS
<1> HIDE DEF s, u, S
<1>3. t \in Seq(S) /\ Len(t) = 3 /\ t[1] = a /\ t[2] = b /\ t[3] = c
  <2>1. t \in Seq(S) /\ Len(t) = Len(s) + 1 /\ (\A i \in 1..Len(s) : t[i] = s[i]) /\ t[Len(s) + 1] = c
    <3>1. s \in Seq(S) /\ c \in S
      BY <1>1
    <3>2. t \in Seq(S)
      BY <3>1
    <3>3. Len(t) = Len(s) + 1
      BY <3>1
    <3>4. \A i \in 1..Len(s) : t[i] = s[i]
      BY <3>1
    <3>5. t[Len(s) + 1] = c
      BY <3>1
    <3> QED BY <3>2, <3>3, <3>4, <3>5
  <2>2. Len(s) + 1 = 3 /\ 1 \in 1..Len(s) /\ 2 \in 1..Len(s)
    BY <1>1
  <2> HIDE DEF t
  <2> QED BY <1>1, <2>1, <2>2
<1> HIDE DEF t
<1>4. \A i \in 1..Len(t) : t[i] = u[i]
  BY <1>2, <1>3
<1>5. t = u
  BY <1>2, <1>3, <1>4, SeqEqual
<1> QED BY <1>5 DEF t, s, u

LEMMA TextsAdd ==
  /\ Append(<<>>, "starter") = <<"starter">>
  /\ \A t \in Untold : Append(t, "reply") \in Told /\ Append(t, "error") \in Reported
  /\ \A t \in Told : Append(t, "error") \in ToldAndReported
<1>1. Append(<<>>, "starter") = <<"starter">> /\ Append(<<>>, "reply") = <<"reply">> /\ Append(<<>>, "error") = <<"error">>
  OBVIOUS
<1>2. Append(<<"starter">>, "reply") = <<"starter", "reply">> /\ Append(<<"starter">>, "error") = <<"starter", "error">>
  BY AddToOne
<1>3. Append(<<"reply">>, "error") = <<"reply", "error">>
  BY AddToOne
<1>4. Append(<<"starter", "reply">>, "error") = <<"starter", "reply", "error">>
  BY AddToTwo
<1>5. \A t \in Untold : Append(t, "reply") \in Told
  BY <1>1, <1>2 DEF Untold, Told
<1>6. \A t \in Untold : Append(t, "error") \in Reported
  BY <1>1, <1>2 DEF Untold, Reported
<1>7. \A t \in Told : Append(t, "error") \in ToldAndReported
  BY <1>3, <1>4 DEF Told, ToldAndReported
<1> QED BY <1>1, <1>5, <1>6, <1>7

LEMMA TextsDiffer == \A t \in Told : t \notin Untold /\ t \notin Reported
BY DEF Untold, Told, Reported

\* The run and what is shown of it stay; the execution and its channel go on.
LEMMA ChatStep ==
  ASSUME RunsInv, NEW e \in Executions, NEW at \in Stages, NEW chat \in Seq({"starter", "reply", "error"}),
         execution' = [execution EXCEPT ![e] = at], chatOf' = [chatOf EXCEPT ![e] = chat],
         ChatIs(at, chat, runOf[e]), UNCHANGED <<serving, observed, runOf, shownOf>>
  PROVE  RunsInv'
<1>1. /\ execution' \in [Executions -> Stages] /\ chatOf' \in [Executions -> Seq({"starter", "reply", "error"})]
      /\ execution'[e] = at /\ chatOf'[e] = chat
      /\ \A d \in Executions : d # e => execution'[d] = execution[d] /\ chatOf'[d] = chatOf[d]
  BY DEF RunsInv
<1>2. ASSUME NEW d \in Executions PROVE RunInv(d)'
  <2>1. RunInv(d)
    BY DEF RunsInv
  <2>2. ChatIs(execution'[d], chatOf'[d], runOf[d])
    BY <1>1, <2>1 DEF RunInv
  <2>3. BusyNamed(observed, runOf[d])' /\ BusyShown(observed, shownOf[d], runOf[d])'
    BY <2>1 DEF RunInv
  <2>4. CallsShown(shownOf[d], runOf[d])' /\ MarksShown(shownOf[d], runOf[d])' /\ ChatIs(execution[d], chatOf[d], runOf[d])'
    BY <2>1, <2>2 DEF RunInv
  <2> QED BY <2>1, <2>3, <2>4 DEF RunInv
<1> QED BY <1>1, <1>2 DEF RunsInv

LEMMA ExecutionKeeps ==
  ASSUME RunsInv, NEW e \in Executions,
         \/ BeginExecution(e) \/ SendStarter(e) \/ SendReply(e) \/ SendReport(e)
         \/ RunNotAsked(e) \/ HearAnswer(e) \/ GivesUpRun(e)
  PROVE  RunsInv'
<1> DEFINE at == execution'[e]
           chat == chatOf'[e]
<1>0. execution \in [Executions -> Stages] /\ chatOf \in [Executions -> Seq({"starter", "reply", "error"})]
  BY DEF RunsInv
<1>1. ChatIs(execution[e], chatOf[e], runOf[e]) /\ chatOf[e] \in Seq({"starter", "reply", "error"})
  BY <1>0, RunHas
<1>2. UNCHANGED <<serving, observed, runOf, shownOf>>
  BY DEF BeginExecution, SendStarter, SendReply, SendReport, Delivers, RunNotAsked, HearAnswer, GivesUpRun
<1>3. \A x \in Stages : Goes(e, x) => execution' = [execution EXCEPT ![e] = at] /\ at = x
  BY <1>0 DEF Goes
<1>4. /\ chatOf' = chatOf => chatOf' = [chatOf EXCEPT ![e] = chat] /\ chat = chatOf[e]
      /\ \A t \in {"starter", "reply", "error"} : chatOf' = [chatOf EXCEPT ![e] = Append(@, t)] =>
            chatOf' = [chatOf EXCEPT ![e] = chat] /\ chat = Append(chatOf[e], t) /\ chat \in Seq({"starter", "reply", "error"})
  <2>1. chatOf' = chatOf => chatOf' = [chatOf EXCEPT ![e] = chat] /\ chat = chatOf[e]
    BY <1>0
  <2>2. ASSUME NEW t \in {"starter", "reply", "error"}, chatOf' = [chatOf EXCEPT ![e] = Append(@, t)]
        PROVE  chatOf' = [chatOf EXCEPT ![e] = chat] /\ chat = Append(chatOf[e], t) /\ chat \in Seq({"starter", "reply", "error"})
    <3> DEFINE a == Append(chatOf[e], t)
    <3>1. a \in Seq({"starter", "reply", "error"})
      BY <1>1
    <3>2. chatOf' = [chatOf EXCEPT ![e] = a]
      BY <2>2
    <3> HIDE DEF a
    <3>3. chat = a
      BY <1>0, <3>2
    <3>4. chatOf' = [chatOf EXCEPT ![e] = chat]
      BY <3>2, <3>3
    <3> QED BY <3>1, <3>3, <3>4 DEF a
  <2> QED BY <2>1, <2>2
<1>5. /\ execution' = [execution EXCEPT ![e] = at] /\ chatOf' = [chatOf EXCEPT ![e] = chat]
      /\ at \in Stages /\ chat \in Seq({"starter", "reply", "error"}) /\ ChatIs(at, chat, runOf[e])
  <2> HIDE DEF at, chat
  <2>1. CASE BeginExecution(e)
    <3>1. (at = "starter" \/ at = "asking") /\ execution' = [execution EXCEPT ![e] = at] /\ chatOf' = chatOf /\ execution[e] = "idle"
      BY <1>3, <2>1 DEF BeginExecution, Stages
    <3> QED BY <1>1, <1>4, <3>1 DEF ChatIs, Stages, Untold
  <2>2. CASE SendStarter(e)
    <3>1. execution[e] = "starter" /\ execution' = [execution EXCEPT ![e] = at] /\ (at = "asking" \/ at = "done")
          /\ (chatOf' = chatOf \/ chatOf' = [chatOf EXCEPT ![e] = Append(@, "starter")])
      BY <1>3, <2>2 DEF SendStarter, Delivers, Stages
    <3>2. chatOf' = [chatOf EXCEPT ![e] = chat] /\ chat \in Untold /\ chat \in Seq({"starter", "reply", "error"})
      BY <1>1, <1>4, <3>1, TextsAdd DEF ChatIs, Untold
    <3>3. runOf[e].at = "none"
      BY <1>1, <3>1 DEF ChatIs
    <3> QED BY <3>1, <3>2, <3>3 DEF ChatIs, Stages
  <2>3. CASE SendReply(e)
    <3>1. execution[e] = "replying" /\ execution' = [execution EXCEPT ![e] = at] /\ (at = "done" \/ at = "failed")
          /\ (chatOf' = chatOf \/ chatOf' = [chatOf EXCEPT ![e] = Append(@, "reply")])
      BY <1>3, <2>3 DEF SendReply, Delivers, Stages
    <3>2. chatOf' = [chatOf EXCEPT ![e] = chat] /\ chat \in Untold \cup Told /\ chat \in Seq({"starter", "reply", "error"})
      BY <1>1, <1>4, <3>1, TextsAdd DEF ChatIs
    <3>3. runOf[e].at = "answered"
      BY <1>1, <3>1 DEF ChatIs
    <3> QED BY <3>1, <3>2, <3>3 DEF ChatIs, Stages
  <2>4. CASE SendReport(e)
    <3>1. execution[e] = "failed" /\ execution' = [execution EXCEPT ![e] = at] /\ at = "done"
          /\ (chatOf' = chatOf \/ chatOf' = [chatOf EXCEPT ![e] = Append(@, "error")])
      BY <1>3, <2>4 DEF SendReport, Delivers, Stages
    <3>2. chatOf' = [chatOf EXCEPT ![e] = chat] /\ chat \in Seq({"starter", "reply", "error"}) /\ (chat = chatOf[e] \/ chat = Append(chatOf[e], "error"))
      BY <1>1, <1>4, <3>1
    <3>3. chatOf[e] \in Untold \/ (chatOf[e] \in Told /\ runOf[e].at = "answered")
      BY <1>1, <3>1, TextsDiffer DEF ChatIs
    <3>4. chat \in Untold \cup Reported \/ (chat \in Told \cup ToldAndReported /\ runOf[e].at = "answered")
      BY <3>2, <3>3, TextsAdd
    <3> QED BY <3>1, <3>2, <3>4 DEF ChatIs, Stages
  <2>5. CASE RunNotAsked(e) \/ HearAnswer(e) \/ GivesUpRun(e)
    <3>1. chatOf' = chatOf /\ execution' = [execution EXCEPT ![e] = at] /\ execution[e] \in {"asking", "waiting"}
          /\ (at = "failed" \/ (at = "replying" /\ runOf[e].at = "answered"))
      BY <1>3, <2>5 DEF RunNotAsked, HearAnswer, HearsAnswer, GivesUpRun, Stages
    <3> QED BY <1>1, <1>4, <3>1 DEF ChatIs, Stages
  <2> QED BY <2>1, <2>2, <2>3, <2>4, <2>5
<1> HIDE DEF at, chat
<1> QED BY <1>2, <1>5, ChatStep

-----------------------------------------------------------------------------
(* The runs                                                                *)

\* One run goes on, and is shown further.
LEMMA RunStep ==
  ASSUME RunsInv, NEW e \in Executions, NEW at \in Stages, NEW r \in RunState, NEW s \in Seq(RunEvent),
         execution' = [execution EXCEPT ![e] = at], runOf' = [runOf EXCEPT ![e] = r], shownOf' = [shownOf EXCEPT ![e] = s],
         CallsShown(s, r), BusyNamed(observed, r), BusyShown(observed, s, r), MarksShown(s, r), ChatIs(at, chatOf[e], r),
         observed \/ \A i \in 1..Len(s) : s[i].kind = "request", UNCHANGED <<serving, observed, chatOf>>
  PROVE  RunsInv'
<1>1. /\ execution' \in [Executions -> Stages] /\ runOf' \in [Executions -> RunState] /\ shownOf' \in [Executions -> Seq(RunEvent)]
      /\ execution'[e] = at /\ runOf'[e] = r /\ shownOf'[e] = s
      /\ \A d \in Executions : d # e => execution'[d] = execution[d] /\ runOf'[d] = runOf[d] /\ shownOf'[d] = shownOf[d]
  BY DEF RunsInv
<1>2. ASSUME NEW d \in Executions PROVE RunInv(d)'
  <2>1. CASE d = e
    <3>1. BusyNamed(observed, runOf[d])' /\ BusyShown(observed, shownOf[d], runOf[d])'
      BY <1>1, <2>1
    <3>2. CallsShown(shownOf[d], runOf[d])' /\ MarksShown(shownOf[d], runOf[d])' /\ ChatIs(execution[d], chatOf[d], runOf[d])'
      BY <1>1, <2>1
    <3>3. (observed \/ \A i \in 1..Len(shownOf[d]) : shownOf[d][i].kind = "request")'
      BY <1>1, <2>1
    <3> QED BY <3>1, <3>2, <3>3 DEF RunInv
  <2>2. CASE d # e
    <3>1. RunInv(d) /\ execution'[d] = execution[d] /\ runOf'[d] = runOf[d] /\ shownOf'[d] = shownOf[d]
      BY <1>1, <2>2 DEF RunsInv
    <3>2. BusyNamed(observed, runOf[d])' /\ BusyShown(observed, shownOf[d], runOf[d])'
      BY <3>1 DEF RunInv
    <3>3. CallsShown(shownOf[d], runOf[d])' /\ MarksShown(shownOf[d], runOf[d])' /\ ChatIs(execution[d], chatOf[d], runOf[d])'
      BY <3>1 DEF RunInv
    <3> QED BY <3>1, <3>2, <3>3 DEF RunInv
  <2> QED BY <2>1, <2>2
<1> QED BY <1>1, <1>2 DEF RunsInv

LEMMA ShownAdd ==
  ASSUME NEW s \in Seq(RunEvent), NEW x \in RunEvent
  PROVE  /\ Append(s, x) \in Seq(RunEvent) /\ Len(Append(s, x)) = Len(s) + 1 /\ Len(s) \in Nat
         /\ \A i \in 1..Len(s) : Append(s, x)[i] = s[i]
         /\ Append(s, x)[Len(s) + 1] = x
         /\ \A i \in 1..Len(Append(s, x)) : i \in 1..Len(s) \/ i = Len(s) + 1
<1> DEFINE t == Append(s, x)
<1>1. t \in Seq(RunEvent)
  OBVIOUS
<1>2. Len(t) = Len(s) + 1 /\ Len(s) \in Nat
  OBVIOUS
<1>3. \A i \in 1..Len(s) : t[i] = s[i]
  OBVIOUS
<1>4. t[Len(s) + 1] = x
  OBVIOUS
<1> HIDE DEF t
<1>5. \A i \in 1..Len(t) : i \in 1..Len(s) \/ i = Len(s) + 1
  BY <1>2
<1> QED BY <1>1, <1>2, <1>3, <1>4, <1>5 DEF t

LEMMA RunAt ==
  ASSUME NEW r \in RunState, NEW at \in At
  PROVE  LET q == [r EXCEPT !.at = at] IN
         q \in RunState /\ q.at = at /\ q.names = r.names /\ q.used = r.used /\ q.busy = r.busy
BY DEF RunState

\* Marks are neither of calls nor of results.
LEMMA MarksAre ==
  /\ RunAnnounced \in Seq(RunEvent) /\ Len(RunAnnounced) = 1 /\ RunAnnounced[1] \in Marks /\ RunAnnounced[1].kind = "request"
  /\ [kind |-> "graph"] \in Marks /\ \A x \in Marks : x \notin Openings /\ x \notin Results
<1>1. [kind |-> "request"] \in Marks /\ [kind |-> "graph"] \in Marks
  BY DEF Marks
<1>2. \A x \in Marks : x.kind \in {"request", "graph"}
  BY DEF Marks
<1>3. (\A x \in Openings : x.kind \in {"call", "transfer"}) /\ (\A x \in Results : x.kind = "result")
  BY DEF Openings, Results
<1>4. [kind |-> "request"] \in RunEvent
  BY <1>1 DEF RunEvent
<1>5. RunAnnounced \in Seq(RunEvent) /\ Len(RunAnnounced) = 1 /\ RunAnnounced[1] = [kind |-> "request"]
  BY <1>4 DEF RunAnnounced
<1>6. \A x \in Marks : x \notin Openings /\ x \notin Results
  BY <1>2, <1>3
<1> QED BY <1>1, <1>5, <1>6

\* A run of which no call is shown yet, and that has begun none.
LEMMA QuietRun ==
  ASSUME NEW s \in Seq(RunEvent), NEW r \in RunState, \A i \in 1..Len(s) : s[i] \notin Openings /\ s[i] \notin Results,
         r.busy = {}
  PROVE  CallsShown(s, r) /\ BusyShown(observed, s, r)
BY DEF CallsShown, BusyShown, Opens, Ends

LEMMA RunAskedKeeps ==
  ASSUME RunsInv, NEW e \in Executions, RunAsked(e)
  PROVE  RunsInv'
<1> DEFINE r == [runOf[e] EXCEPT !.at = "asked"]
           s == shownOf'[e]
<1>1. /\ runOf[e] \in RunState /\ shownOf[e] \in Seq(RunEvent) /\ MarksShown(shownOf[e], runOf[e]) /\ BusyNamed(observed, runOf[e])
      /\ ChatIs(execution[e], chatOf[e], runOf[e])
  BY RunHas
<1>2. execution[e] = "asking" /\ execution' = [execution EXCEPT ![e] = "waiting"] /\ UNCHANGED <<serving, observed, chatOf>>
  BY DEF RunAsked, Goes
<1>3. runOf[e].at = "none" /\ chatOf[e] \in Untold
  BY <1>1, <1>2 DEF ChatIs
<1>4. shownOf[e] = <<>> /\ runOf[e].busy = {}
  BY <1>1, <1>3 DEF MarksShown, BusyNamed
<1>5. runOf' = [runOf EXCEPT ![e] = r]
  BY DEF RunAsked
<1>6. shownOf' = [shownOf EXCEPT ![e] = s] /\ (s = <<>> \/ s = RunAnnounced)
  <2>1. shownOf' = [shownOf EXCEPT ![e] = RunAnnounced] \/ shownOf' = shownOf
    BY DEF RunAsked
  <2>2. shownOf \in [Executions -> Seq(RunEvent)]
    BY DEF RunsInv
  <2> QED BY <1>4, <2>1, <2>2
<1> HIDE DEF s
<1>7. r \in RunState /\ r.at = "asked" /\ r.names = runOf[e].names /\ r.used = runOf[e].used /\ r.busy = {}
  BY <1>1, <1>4, RunAt DEF At
<1> HIDE DEF r
<1>8. /\ s \in Seq(RunEvent) /\ \A i \in 1..Len(s) : i = 1 /\ s[i].kind = "request" /\ s[i] \notin Openings /\ s[i] \notin Results
  <2>1. CASE s = <<>>
    BY <2>1
  <2>2. CASE s = RunAnnounced
    BY <2>2, MarksAre
  <2> QED BY <1>6, <2>1, <2>2
<1>9. CallsShown(s, r) /\ BusyShown(observed, s, r)
  BY <1>7, <1>8, QuietRun
<1>10. BusyNamed(observed, r)
  BY <1>1, <1>4, <1>7 DEF BusyNamed
<1>11. MarksShown(s, r)
  BY <1>6, <1>7, <1>8 DEF MarksShown
<1>12. ChatIs("waiting", chatOf[e], r)
  BY <1>3, <1>7 DEF ChatIs
<1>13. "waiting" \in Stages
  BY DEF Stages
<1> QED BY <1>2, <1>5, <1>6, <1>7, <1>8, <1>9, <1>10, <1>11, <1>12, <1>13, RunStep

\* What is shown of a run once it is shown x, where somebody observes it.
Further(s, x) == IF observed THEN Append(s, x) ELSE s

LEMMA RunBeginsKeeps ==
  ASSUME RunsInv, NEW e \in Executions, RunBegins(e)
  PROVE  RunsInv'
<1> DEFINE r == [runOf[e] EXCEPT !.at = "running"]
           x == [kind |-> "graph"]
           o == shownOf[e]
           s == Further(o, x)
<1>1. /\ runOf[e] \in RunState /\ o \in Seq(RunEvent) /\ MarksShown(o, runOf[e]) /\ BusyNamed(observed, runOf[e])
      /\ ChatIs(execution[e], chatOf[e], runOf[e]) /\ execution[e] \in Stages /\ observed \in BOOLEAN
  BY RunHas
<1>2. /\ runOf[e].at = "asked" /\ UNCHANGED <<execution, serving, observed, chatOf>>
      /\ runOf' = [runOf EXCEPT ![e] = r] /\ shownOf' = [shownOf EXCEPT ![e] = s]
  BY DEF RunBegins, Shows, Further
<1>3. execution' = [execution EXCEPT ![e] = execution[e]]
  BY <1>2 DEF RunsInv
<1>4. r \in RunState /\ r.at = "running" /\ r.names = runOf[e].names /\ r.used = runOf[e].used /\ r.busy = {}
  BY <1>1, <1>2, RunAt DEF At, BusyNamed
<1>5. runOf[e].busy = {}
  BY <1>1, <1>2 DEF BusyNamed
<1> HIDE DEF r
<1>6. o = <<>> \/ o = RunAnnounced
  BY <1>1, <1>2 DEF MarksShown
<1>7. Len(o) \in {0, 1} /\ \A i \in 1..Len(o) : i = 1 /\ o[i].kind = "request" /\ o[i] \notin Openings /\ o[i] \notin Results
  <2> HIDE DEF o
  <2>1. CASE o = <<>>
    BY <2>1
  <2>2. CASE o = RunAnnounced
    BY <2>2, MarksAre
  <2> QED BY <1>6, <2>1, <2>2
<1>8. x \in RunEvent /\ x \notin Openings /\ x \notin Results /\ x.kind = "graph"
  BY MarksAre DEF RunEvent
<1> HIDE DEF x, o
<1>9. /\ s \in Seq(RunEvent) /\ \A i \in 1..Len(s) : (i = 1 /\ s[i].kind = "request") \/ (s[i].kind = "graph" /\ i = Len(o) + 1)
      /\ \A i \in 1..Len(s) : s[i] \notin Openings /\ s[i] \notin Results
      /\ observed \/ \A i \in 1..Len(s) : s[i].kind = "request"
  <2>1. CASE observed
    <3>1. s = Append(o, x)
      BY <2>1 DEF Further
    <3> HIDE DEF s
    <3> QED BY <1>1, <1>7, <1>8, <2>1, <3>1, ShownAdd
  <2>2. CASE ~observed
    <3>1. s = o
      BY <2>2 DEF Further
    <3> QED BY <1>1, <1>7, <3>1
  <2> QED BY <2>1, <2>2
<1> HIDE DEF s
<1>10. CallsShown(s, r) /\ BusyShown(observed, s, r)
  BY <1>4, <1>9, QuietRun
<1>11. BusyNamed(observed, r)
  BY <1>1, <1>4, <1>5 DEF BusyNamed
<1>12. MarksShown(s, r)
  <2>1. \A i, j \in 1..Len(s) : s[i].kind = "graph" /\ j < i => s[j].kind = "request"
    BY <1>7, <1>9
  <2>2. \A i \in 1..Len(s) : s[i].kind = "request" => i = 1
    BY <1>9
  <2> QED BY <1>4, <2>1, <2>2 DEF MarksShown
<1>13. ChatIs(execution[e], chatOf[e], r)
  BY <1>1, <1>2, <1>4 DEF ChatIs
<1> QED BY <1>1, <1>2, <1>3, <1>4, <1>9, <1>10, <1>11, <1>12, <1>13, RunStep

LEMMA RunEndsKeeps ==
  ASSUME RunsInv, NEW e \in Executions, RunEnds(e)
  PROVE  RunsInv'
<1> DEFINE at == runOf'[e].at
           r == [runOf[e] EXCEPT !.at = at]
           s == shownOf[e]
<1>1. /\ runOf[e] \in RunState /\ s \in Seq(RunEvent) /\ MarksShown(s, runOf[e]) /\ BusyNamed(observed, runOf[e])
      /\ ChatIs(execution[e], chatOf[e], runOf[e]) /\ execution[e] \in Stages /\ CallsShown(s, runOf[e]) /\ BusyShown(observed, s, runOf[e])
      /\ (observed \/ \A i \in 1..Len(s) : s[i].kind = "request")
  BY RunHas DEF RunsInv, RunInv
<1>2. UNCHANGED <<execution, serving, observed, shownOf, chatOf>>
  BY DEF RunEnds
<1>3. execution' = [execution EXCEPT ![e] = execution[e]] /\ shownOf' = [shownOf EXCEPT ![e] = s]
  BY <1>2 DEF RunsInv
<1>4. runOf' = [runOf EXCEPT ![e] = r] /\ at \in {"answered", "refused"} /\ runOf[e].at \in {"asked", "running"}
  <2>1. runOf \in [Executions -> RunState]
    BY DEF RunsInv
  <2>2. runOf[e].at \in {"asked", "running"} /\ \E x \in {"answered", "refused"} : runOf' = [runOf EXCEPT ![e].at = x]
    BY DEF RunEnds
  <2>3. PICK x \in {"answered", "refused"} : runOf' = [runOf EXCEPT ![e].at = x]
    BY <2>2
  <2>4. at = x
    <3>1. runOf'[e] = [runOf[e] EXCEPT !.at = x]
      BY <2>1, <2>3
    <3> QED BY <1>1, <3>1 DEF RunState
  <2> QED BY <2>2, <2>3, <2>4
<1> HIDE DEF at
<1>5. r \in RunState /\ r.at = at /\ r.names = runOf[e].names /\ r.used = runOf[e].used /\ r.busy = runOf[e].busy
  <2>1. at \in At
    BY <1>4 DEF At
  <2> QED BY <1>1, <2>1, RunAt
<1> HIDE DEF r, s
<1>6. CallsShown(s, r)
  <2>1. runOf[e].at = "asked" => \A i \in 1..Len(s) : \A c \in ToolCalls : ~Opens(s, i, c)
    BY <1>1 DEF CallsShown, Opens
  <2> QED BY <1>1, <1>4, <1>5, <2>1 DEF CallsShown
<1>7. BusyShown(observed, s, r)
  BY <1>1, <1>5 DEF BusyShown
<1>8. BusyNamed(observed, r)
  BY <1>1, <1>4, <1>5 DEF BusyNamed
<1>9. MarksShown(s, r)
  BY <1>1, <1>4, <1>5 DEF MarksShown
<1>10. ChatIs(execution[e], chatOf[e], r)
  BY <1>1, <1>4, <1>5 DEF ChatIs
<1> QED BY <1>1, <1>2, <1>3, <1>4, <1>5, <1>6, <1>7, <1>8, <1>9, <1>10, RunStep

\* The gateway goes away with the runs that had not ended.
LEMMA GatewayGoesKeeps ==
  ASSUME RunsInv, GatewayGoes
  PROVE  RunsInv'
<1>1. /\ serving' = FALSE /\ UNCHANGED <<observed, shownOf, chatOf>>
      /\ runOf' = [e \in Executions |-> IF runOf[e].at \in {"answered", "none"} THEN runOf[e] ELSE [NoRun EXCEPT !.at = "gone"]]
      /\ execution' = [e \in Executions |-> IF execution[e] = "waiting" THEN "failed" ELSE execution[e]]
  BY DEF GatewayGoes
<1> DEFINE vanished == [NoRun EXCEPT !.at = "gone"]
<1>2. vanished \in RunState /\ vanished.at = "gone" /\ vanished.busy = {} /\ DOMAIN vanished.names = {}
  <2>1. NoTools \in NamesOfCalls /\ DOMAIN NoTools = {}
    <3>1. NoTools \in [{} -> ToolNames] /\ {} \in SUBSET ToolCalls /\ DOMAIN NoTools = {}
      BY DEF NoTools
    <3> QED BY <3>1 DEF NamesOfCalls
  <2> QED BY <2>1 DEF NoRun, RunState, At
<1> HIDE DEF vanished
<1>3. ASSUME NEW e \in Executions
      PROVE  runOf'[e] \in RunState /\ execution'[e] \in Stages /\ RunInv(e)'
  <2> DEFINE s == shownOf[e]
  <2>1. /\ runOf[e] \in RunState /\ s \in Seq(RunEvent) /\ MarksShown(s, runOf[e]) /\ BusyNamed(observed, runOf[e])
        /\ ChatIs(execution[e], chatOf[e], runOf[e]) /\ execution[e] \in Stages /\ CallsShown(s, runOf[e]) /\ BusyShown(observed, s, runOf[e])
        /\ (observed \/ \A i \in 1..Len(s) : s[i].kind = "request")
    BY RunHas DEF RunsInv, RunInv
  <2>2. execution'[e] \in Stages /\ (execution'[e] = execution[e] \/ (execution[e] = "waiting" /\ execution'[e] = "failed"))
    BY <1>1, <2>1 DEF Stages
  <2>3. runOf'[e] = runOf[e] \/ (runOf[e].at \notin {"answered", "none"} /\ runOf'[e] = vanished)
    BY <1>1 DEF vanished
  <2> HIDE DEF s
  <2>4. CASE runOf'[e] = runOf[e]
    <3>1. ChatIs(execution'[e], chatOf[e], runOf[e])
      BY <2>1, <2>2 DEF ChatIs
    <3> QED BY <1>1, <2>1, <2>2, <2>4, <3>1 DEF RunInv, s
  <2>5. CASE runOf[e].at \notin {"answered", "none"} /\ runOf'[e] = vanished
    <3>1. CallsShown(s, vanished)
      BY <1>2, <2>1 DEF CallsShown
    <3>2. BusyShown(observed, s, vanished)
      BY <1>2 DEF BusyShown
    <3>3. BusyNamed(observed, vanished)
      BY <1>2 DEF BusyNamed
    <3>4. MarksShown(s, vanished)
      BY <1>2, <2>1 DEF MarksShown
    <3>5. ChatIs(execution'[e], chatOf[e], vanished)
      BY <1>2, <2>1, <2>2, <2>5 DEF ChatIs
    <3> QED BY <1>1, <1>2, <2>1, <2>2, <2>5, <3>1, <3>2, <3>3, <3>4, <3>5 DEF RunInv, s
  <2> QED BY <2>3, <2>4, <2>5
<1>4. runOf' \in [Executions -> RunState] /\ execution' \in [Executions -> Stages]
  BY <1>1, <1>3
<1> QED BY <1>1, <1>3, <1>4 DEF RunsInv

LEMMA NamesWithIs ==
  ASSUME NEW names \in NamesOfCalls, NEW c \in ToolCalls, NEW tool \in ToolNames
  PROVE  LET n == NamesWith(names, c, tool) IN
         /\ n \in NamesOfCalls /\ DOMAIN n = DOMAIN names \cup {c} /\ n[c] = tool
         /\ \A d \in DOMAIN names : d # c => n[d] = names[d]
<1> DEFINE n == NamesWith(names, c, tool)
<1>1. PICK D \in SUBSET ToolCalls : names \in [D -> ToolNames]
  BY DEF NamesOfCalls
<1>2. n \in [D \cup {c} -> ToolNames] /\ D \cup {c} \in SUBSET ToolCalls /\ DOMAIN names = D
  BY <1>1 DEF NamesWith
<1>3. n \in NamesOfCalls
  BY <1>2 DEF NamesOfCalls
<1>4. n[c] = tool /\ \A d \in DOMAIN names : d # c => n[d] = names[d]
  BY DEF NamesWith
<1> HIDE DEF n
<1>5. DOMAIN n = DOMAIN names \cup {c}
  BY <1>2
<1> QED BY <1>3, <1>4, <1>5 DEF n

LEMMA NamesWithoutIs ==
  ASSUME NEW names \in NamesOfCalls, NEW c \in ToolCalls
  PROVE  LET n == NamesWithout(names, c) IN
         /\ n \in NamesOfCalls /\ DOMAIN n = DOMAIN names \ {c}
         /\ \A d \in DOMAIN names : d # c => n[d] = names[d]
<1> DEFINE n == NamesWithout(names, c)
<1>1. PICK D \in SUBSET ToolCalls : names \in [D -> ToolNames]
  BY DEF NamesOfCalls
<1>2. n \in [D \ {c} -> ToolNames] /\ D \ {c} \in SUBSET ToolCalls /\ DOMAIN names = D
  BY <1>1 DEF NamesWithout
<1>3. n \in NamesOfCalls
  BY <1>2 DEF NamesOfCalls
<1>4. \A d \in DOMAIN names : d # c => n[d] = names[d]
  BY DEF NamesWithout
<1> HIDE DEF n
<1>5. DOMAIN n = DOMAIN names \ {c}
  BY <1>2
<1> QED BY <1>3, <1>4, <1>5 DEF n

\* A call begins that the run has not made, and is shown where somebody observes.
LEMMA ToolStartsKeeps ==
  ASSUME RunsInv, NEW e \in Executions, NEW c \in ToolCalls, NEW tool \in ToolNames, ToolStarts(e, c, tool)
  PROVE  RunsInv'
<1> DEFINE q == runOf[e]
           o == shownOf[e]
           n == IF observed THEN NamesWith(q.names, c, tool) ELSE q.names
           r == [q EXCEPT !.used = @ \cup {c}, !.busy = @ \cup {<<c, tool>>}, !.names = n]
           x == [kind |-> IF tool \in Transfers THEN "transfer" ELSE "call", call |-> c, tool |-> tool]
           s == Further(o, x)
<1>1. /\ q \in RunState /\ o \in Seq(RunEvent) /\ MarksShown(o, q) /\ BusyNamed(observed, q)
      /\ ChatIs(execution[e], chatOf[e], q) /\ execution[e] \in Stages /\ CallsShown(o, q) /\ BusyShown(observed, o, q)
      /\ (observed \/ \A i \in 1..Len(o) : o[i].kind = "request") /\ observed \in BOOLEAN
  BY RunHas DEF RunsInv, RunInv
<1>2. /\ q.at = "running" /\ c \notin q.used /\ UNCHANGED <<execution, serving, observed, chatOf>>
      /\ shownOf' = [shownOf EXCEPT ![e] = s]
  BY DEF ToolStarts, Shows, Further
<1>3. runOf' = [runOf EXCEPT ![e] = r]
  <2>1. runOf \in [Executions -> RunState]
    BY DEF RunsInv
  <2>2. runOf' = [runOf EXCEPT ![e].used = @ \cup {c}, ![e].busy = @ \cup {<<c, tool>>},
                            ![e].names = IF observed THEN NamesWith(@, c, tool) ELSE @]
    BY DEF ToolStarts
  <2> QED BY <1>1, <2>1, <2>2 DEF RunState
<1>4. execution' = [execution EXCEPT ![e] = execution[e]]
  BY <1>2 DEF RunsInv
<1>5. q.names \in NamesOfCalls
  BY <1>1 DEF RunState
<1>6. n \in NamesOfCalls /\ (observed => DOMAIN n = DOMAIN q.names \cup {c} /\ n[c] = tool) /\ (~observed => n = q.names)
      /\ \A d \in DOMAIN q.names : d # c => n[d] = q.names[d]
  <2> DEFINE m == q.names
             w == NamesWith(m, c, tool)
  <2> HIDE DEF m
  <2>1. w \in NamesOfCalls /\ DOMAIN w = DOMAIN m \cup {c} /\ w[c] = tool /\ \A d \in DOMAIN m : d # c => w[d] = m[d]
    BY <1>5, NamesWithIs DEF m
  <2>2. (observed => n = w) /\ (~observed => n = m)
    BY DEF m
  <2> HIDE DEF w, n
  <2>3. observed \/ ~observed
    OBVIOUS
  <2>4. m \in NamesOfCalls
    BY <1>5 DEF m
  <2>5. /\ n \in NamesOfCalls /\ (observed => DOMAIN n = DOMAIN m \cup {c} /\ n[c] = tool) /\ (~observed => n = m)
        /\ \A d \in DOMAIN m : d # c => n[d] = m[d]
    BY <2>1, <2>2, <2>4
  <2> QED BY <2>5 DEF m
<1> HIDE DEF n, q
<1>7. /\ r \in RunState /\ r.at = "running" /\ r.used = q.used \cup {c} /\ r.busy = q.busy \cup {<<c, tool>>} /\ r.names = n
  <2> DEFINE u == q.used \cup {c}
             b == q.busy \cup {<<c, tool>>}
  <2>1. u \in SUBSET ToolCalls /\ b \in SUBSET (ToolCalls \X ToolNames) /\ q \in RunState /\ q.at = "running" /\ n \in NamesOfCalls
    BY <1>1, <1>2, <1>6 DEF RunState
  <2>2. r = [q EXCEPT !.used = u, !.busy = b, !.names = n]
    OBVIOUS
  <2> HIDE DEF u, b, r
  <2>3. r \in RunState /\ r.at = q.at /\ r.used = u /\ r.busy = b /\ r.names = n
    BY <2>1, <2>2 DEF RunState
  <2> QED BY <2>1, <2>3 DEF u, b
<1>8. x \in Openings /\ x \in RunEvent /\ x.call = c /\ x.tool = tool /\ x.kind \in {"call", "transfer"}
  BY DEF Openings, RunEvent
<1>9. x \notin Results
  BY <1>8 DEF Results
<1> HIDE DEF r, x, q, o
<1>10. \A i \in 1..Len(o) : ~Opens(o, i, c) /\ ~Ends(o, i, c)
  BY <1>1, <1>2 DEF CallsShown
<1>11. s = o \/ (observed /\ s = Append(o, x))
  BY <1>1 DEF Further
<1>12. ~observed => s = o
  BY DEF Further
<1> HIDE DEF s
<1>13. /\ s \in Seq(RunEvent) /\ Len(o) \in Nat /\ (Len(s) = Len(o) \/ Len(s) = Len(o) + 1) /\ \A i \in 1..Len(o) : s[i] = o[i]
       /\ \A i \in 1..Len(s) : i \in 1..Len(o) \/ (i = Len(o) + 1 /\ s[i] = x)
       /\ observed => Len(s) = Len(o) + 1 /\ s[Len(o) + 1] = x
  <2>1. CASE ~observed
    <3>1. s = o /\ Len(o) \in Nat
      BY <1>1, <1>12, <2>1
    <3> QED BY <1>1, <2>1, <3>1
  <2>2. CASE observed
    <3>1. s = Append(o, x)
      BY <2>2, <1>11, <1>1 DEF Further, s
    <3> QED BY <1>1, <1>8, <3>1, ShownAdd
  <2> QED BY <2>1, <2>2
<1>14. /\ \A i \in 1..Len(o) : \A d \in ToolCalls : (Opens(s, i, d) <=> Opens(o, i, d)) /\ (Ends(s, i, d) <=> Ends(o, i, d))
       /\ \A i \in 1..Len(s) : i \in 1..Len(o) \/ (i = Len(o) + 1 /\ \A d \in ToolCalls : (Opens(s, i, d) => d = c) /\ ~Ends(s, i, d))
       /\ observed => Opens(s, Len(o) + 1, c) /\ s[Len(o) + 1].tool = tool
  BY <1>8, <1>9, <1>13 DEF Opens, Ends
<1>15. CallsShown(s, r)
  <2>1. ASSUME NEW i \in 1..Len(s), NEW j \in 1..Len(s), NEW d \in ToolCalls, Opens(s, i, d), Opens(s, j, d) PROVE i = j
    BY <1>1, <1>10, <1>14, <2>1 DEF CallsShown
  <2>2. ASSUME NEW i \in 1..Len(s), NEW j \in 1..Len(s), NEW d \in ToolCalls, Ends(s, i, d), Ends(s, j, d) PROVE i = j
    BY <1>1, <1>14, <2>2 DEF CallsShown
  <2>3. ASSUME NEW i \in 1..Len(s), NEW d \in ToolCalls, Ends(s, i, d)
        PROVE  \E j \in 1..(i - 1) : Opens(s, j, d) /\ s[j].tool = s[i].tool
    <3>1. i \in 1..Len(o) /\ Ends(o, i, d)
      BY <1>14, <2>3
    <3>2. PICK j \in 1..(i - 1) : Opens(o, j, d) /\ o[j].tool = o[i].tool
      BY <1>1, <3>1 DEF CallsShown
    <3>3. j \in 1..Len(o)
      BY <1>13, <3>1, <3>2
    <3> QED BY <1>13, <1>14, <3>1, <3>2, <3>3
  <2>4. ASSUME NEW i \in 1..Len(s), NEW d \in ToolCalls, Opens(s, i, d) PROVE d \in r.used
    BY <1>1, <1>2, <1>7, <1>14, <2>4 DEF CallsShown
  <2> QED BY <1>7, <2>1, <2>2, <2>3, <2>4 DEF CallsShown
<1>16. \A d \in ToolCalls : \A t \in ToolNames : <<d, t>> \in r.busy <=> (<<d, t>> \in q.busy \/ (d = c /\ t = tool))
  BY <1>7
<1>17. \A t \in ToolNames : <<c, t>> \notin q.busy
  BY <1>1, <1>2 DEF BusyNamed
<1>18. BusyShown(observed, s, r)
  <2> SUFFICES ASSUME NEW d \in ToolCalls, NEW t \in ToolNames, observed, <<d, t>> \in r.busy
               PROVE  (\E j \in 1..Len(s) : Opens(s, j, d) /\ s[j].tool = t) /\ (\A j \in 1..Len(s) : ~Ends(s, j, d))
    BY DEF BusyShown
  <2>1. CASE d = c /\ t = tool
    <3>1. Len(o) + 1 \in 1..Len(s)
      BY <1>13
    <3> QED BY <1>10, <1>14, <2>1, <3>1
  <2>2. CASE <<d, t>> \in q.busy
    <3>1. PICK j \in 1..Len(o) : Opens(o, j, d) /\ o[j].tool = t
      BY <1>1, <2>2 DEF BusyShown
    <3>2. j \in 1..Len(s) /\ Opens(s, j, d) /\ s[j].tool = t
      BY <1>13, <1>14, <3>1
    <3>3. \A k \in 1..Len(s) : ~Ends(s, k, d)
      BY <1>1, <1>14, <2>2 DEF BusyShown
    <3> QED BY <3>2, <3>3
  <2> QED BY <1>16, <2>1, <2>2
<1>19. BusyNamed(observed, r)
  <2>1. \A d \in ToolCalls : \A t, u \in ToolNames : <<d, t>> \in r.busy /\ <<d, u>> \in r.busy => t = u
    BY <1>1, <1>16, <1>17 DEF BusyNamed
  <2>2. \A d \in ToolCalls : \A t \in ToolNames : <<d, t>> \in r.busy => d \in r.used
    BY <1>1, <1>7, <1>16 DEF BusyNamed
  <2>3. DOMAIN r.names = {d \in ToolCalls : observed /\ \E t \in ToolNames : <<d, t>> \in r.busy}
    BY <1>1, <1>6, <1>7, <1>16 DEF BusyNamed
  <2>4. ASSUME NEW d \in ToolCalls, NEW t \in ToolNames, observed, <<d, t>> \in r.busy PROVE r.names[d] = t
    <3>1. CASE d = c /\ t = tool
      BY <1>6, <1>7, <2>4, <3>1
    <3>2. CASE <<d, t>> \in q.busy
      <4>1. d # c /\ d \in DOMAIN q.names /\ q.names[d] = t
        BY <1>1, <1>17, <2>4, <3>2 DEF BusyNamed
      <4> QED BY <1>6, <1>7, <4>1
    <3> QED BY <1>16, <2>4, <3>1, <3>2
  <2> QED BY <1>7, <2>1, <2>2, <2>3, <2>4 DEF BusyNamed
<1>20. MarksShown(s, r)
  <2>1. ASSUME NEW i \in 1..Len(s), NEW j \in 1..Len(s), s[i].kind = "graph", j < i PROVE s[j].kind = "request"
    <3>1. i \in 1..Len(o) /\ j \in 1..Len(o)
      BY <1>8, <1>13, <2>1
    <3> QED BY <1>1, <1>13, <2>1, <3>1 DEF MarksShown
  <2>2. ASSUME NEW i \in 1..Len(s), s[i].kind = "request" PROVE i = 1
    <3>1. i \in 1..Len(o)
      BY <1>8, <1>13, <2>2
    <3> QED BY <1>1, <1>13, <2>2, <3>1 DEF MarksShown
  <2> QED BY <1>7, <2>1, <2>2 DEF MarksShown
<1>21. ChatIs(execution[e], chatOf[e], r)
  BY <1>1, <1>2, <1>7 DEF ChatIs
<1>22. observed \/ \A i \in 1..Len(s) : s[i].kind = "request"
  BY <1>1, <1>12
<1>23. /\ execution' = [execution EXCEPT ![e] = execution[e]] /\ runOf' = [runOf EXCEPT ![e] = r] /\ shownOf' = [shownOf EXCEPT ![e] = s]
       /\ UNCHANGED <<serving, observed, chatOf>> /\ execution[e] \in Stages /\ r \in RunState /\ s \in Seq(RunEvent)
  BY <1>1, <1>2, <1>3, <1>4, <1>7, <1>13
<1> QED BY <1>15, <1>18, <1>19, <1>20, <1>21, <1>22, <1>23, RunStep

\* A call that is under way ends, and its result is shown after it and as it was named.
LEMMA ToolEndsKeeps ==
  ASSUME RunsInv, NEW e \in Executions, NEW c \in ToolCalls, NEW tool \in ToolNames, ToolEnds(e, c, tool)
  PROVE  RunsInv'
<1> DEFINE q == runOf[e]
           o == shownOf[e]
           m == q.names
           n == NamesWithout(m, c)
           b == q.busy \ {<<c, tool>>}
           r == [q EXCEPT !.busy = b, !.names = n]
           x == [kind |-> "result", call |-> c, tool |-> NameOf(m, c)]
           s == Further(o, x)
<1>1. /\ q \in RunState /\ o \in Seq(RunEvent) /\ MarksShown(o, q) /\ BusyNamed(observed, q)
      /\ ChatIs(execution[e], chatOf[e], q) /\ execution[e] \in Stages /\ CallsShown(o, q) /\ BusyShown(observed, o, q)
      /\ (observed \/ \A i \in 1..Len(o) : o[i].kind = "request") /\ observed \in BOOLEAN
  BY RunHas DEF RunsInv, RunInv
<1>2. /\ <<c, tool>> \in q.busy /\ UNCHANGED <<execution, serving, observed, chatOf>>
      /\ shownOf' = [shownOf EXCEPT ![e] = s]
  BY DEF ToolEnds, Shows, Further
<1>3. runOf' = [runOf EXCEPT ![e] = r]
  <2>1. runOf \in [Executions -> RunState]
    BY DEF RunsInv
  <2>2. runOf' = [runOf EXCEPT ![e].busy = @ \ {<<c, tool>>}, ![e].names = NamesWithout(@, c)]
    BY DEF ToolEnds
  <2> QED BY <1>1, <2>1, <2>2 DEF RunState
<1>4. execution' = [execution EXCEPT ![e] = execution[e]]
  BY <1>2 DEF RunsInv
<1> HIDE DEF q, o
<1>5. m \in NamesOfCalls /\ b \in SUBSET (ToolCalls \X ToolNames) /\ q.at \in At /\ q.used \in SUBSET ToolCalls
  BY <1>1 DEF RunState
<1>6. n \in NamesOfCalls /\ DOMAIN n = DOMAIN m \ {c} /\ \A d \in DOMAIN m : d # c => n[d] = m[d]
  <2> HIDE DEF m
  <2> QED BY <1>5, NamesWithoutIs
<1> HIDE DEF n
<1>7. r \in RunState /\ r.at = q.at /\ r.used = q.used /\ r.busy = b /\ r.names = n
  <2> HIDE DEF b
  <2> QED BY <1>1, <1>5, <1>6 DEF RunState
<1>8. observed => c \in DOMAIN m /\ m[c] = tool
  BY <1>1, <1>2 DEF BusyNamed
<1>9. observed => x \in Results /\ x \in RunEvent /\ x.call = c /\ x.tool = tool /\ x.kind = "result"
  <2>1. observed => NameOf(m, c) = tool
    BY <1>8 DEF NameOf
  <2> QED BY <2>1 DEF Results, RunEvent
<1>10. observed => x \notin Openings
  BY <1>9 DEF Openings
<1>11. \A d \in ToolCalls : \A t \in ToolNames : <<d, t>> \in r.busy => <<d, t>> \in q.busy /\ d # c
  BY <1>1, <1>2, <1>7 DEF BusyNamed
<1>12. \A d \in ToolCalls : \A t \in ToolNames : <<d, t>> \in q.busy /\ d # c => <<d, t>> \in r.busy
  BY <1>7
<1> HIDE DEF r, x, m, b
<1>13. /\ s \in Seq(RunEvent) /\ Len(o) \in Nat /\ (Len(s) = Len(o) \/ Len(s) = Len(o) + 1) /\ \A i \in 1..Len(o) : s[i] = o[i]
       /\ \A i \in 1..Len(s) : i \in 1..Len(o) \/ (i = Len(o) + 1 /\ s[i] = x /\ observed)
       /\ observed => Len(s) = Len(o) + 1 /\ s[Len(o) + 1] = x
  <2>1. CASE ~observed
    <3>1. s = o /\ Len(o) \in Nat
      BY <1>1, <2>1 DEF Further
    <3> QED BY <1>1, <2>1, <3>1
  <2>2. CASE observed
    <3>1. s = Append(o, x)
      BY <2>2 DEF Further
    <3> HIDE DEF s
    <3> QED BY <1>1, <1>9, <2>2, <3>1, ShownAdd
  <2> QED BY <2>1, <2>2
<1>14. ~observed => s = o
  BY DEF Further
<1> HIDE DEF s
<1>15. /\ \A i \in 1..Len(o) : \A d \in ToolCalls : (Opens(s, i, d) <=> Opens(o, i, d)) /\ (Ends(s, i, d) <=> Ends(o, i, d))
       /\ \A i \in 1..Len(s) : i \in 1..Len(o) \/ (i = Len(o) + 1 /\ observed /\ s[i].tool = tool /\ \A d \in ToolCalls : (Ends(s, i, d) => d = c) /\ ~Opens(s, i, d))
  BY <1>9, <1>10, <1>13 DEF Opens, Ends
<1>16. observed => (\A j \in 1..Len(o) : ~Ends(o, j, c)) /\ \E j \in 1..Len(o) : Opens(o, j, c) /\ o[j].tool = tool
  BY <1>1, <1>2 DEF BusyShown
<1>17. CallsShown(s, r)
  <2>1. ASSUME NEW i \in 1..Len(s), NEW j \in 1..Len(s), NEW d \in ToolCalls, Opens(s, i, d), Opens(s, j, d) PROVE i = j
    BY <1>1, <1>15, <2>1 DEF CallsShown
  <2>2. ASSUME NEW i \in 1..Len(s), NEW j \in 1..Len(s), NEW d \in ToolCalls, Ends(s, i, d), Ends(s, j, d) PROVE i = j
    BY <1>1, <1>15, <1>16, <2>2 DEF CallsShown
  <2>3. ASSUME NEW i \in 1..Len(s), NEW d \in ToolCalls, Ends(s, i, d)
        PROVE  \E j \in 1..(i - 1) : Opens(s, j, d) /\ s[j].tool = s[i].tool
    <3>1. CASE i \in 1..Len(o)
      <4>1. PICK j \in 1..(i - 1) : Opens(o, j, d) /\ o[j].tool = o[i].tool
        BY <1>1, <1>15, <2>3, <3>1 DEF CallsShown
      <4>2. j \in 1..Len(o)
        BY <1>13, <3>1, <4>1
      <4> QED BY <1>13, <1>15, <3>1, <4>1, <4>2
    <3>2. CASE i = Len(o) + 1 /\ observed /\ s[i].tool = tool /\ d = c
      <4>1. PICK j \in 1..Len(o) : Opens(o, j, c) /\ o[j].tool = tool
        BY <1>16, <3>2
      <4>2. j \in 1..(i - 1) /\ Opens(s, j, d) /\ s[j].tool = s[i].tool
        BY <1>13, <1>15, <3>2, <4>1
      <4> QED BY <4>2
    <3> QED BY <1>15, <2>3, <3>1, <3>2
  <2>4. ASSUME NEW i \in 1..Len(s), NEW d \in ToolCalls, Opens(s, i, d) PROVE i \in 1..Len(o) /\ Opens(o, i, d)
    BY <1>15, <2>4
  <2>5. q.at \notin {"none", "asked"}
    BY <1>1, <1>2 DEF BusyNamed
  <2>6. r.at \in {"running", "answered", "refused"} => \A i \in 1..Len(s) : \A d \in ToolCalls : Opens(s, i, d) => d \in r.used
    BY <1>1, <1>7, <2>4 DEF CallsShown
  <2> QED BY <1>7, <2>1, <2>2, <2>3, <2>5, <2>6 DEF CallsShown
<1>18. BusyShown(observed, s, r)
  <2> SUFFICES ASSUME NEW d \in ToolCalls, NEW t \in ToolNames, observed, <<d, t>> \in r.busy
               PROVE  (\E j \in 1..Len(s) : Opens(s, j, d) /\ s[j].tool = t) /\ (\A j \in 1..Len(s) : ~Ends(s, j, d))
    BY DEF BusyShown
  <2>1. <<d, t>> \in q.busy /\ d # c
    BY <1>11
  <2>2. PICK j \in 1..Len(o) : Opens(o, j, d) /\ o[j].tool = t
    BY <1>1, <2>1 DEF BusyShown
  <2>3. j \in 1..Len(s) /\ Opens(s, j, d) /\ s[j].tool = t
    BY <1>13, <1>15, <2>2
  <2>4. \A k \in 1..Len(s) : ~Ends(s, k, d)
    BY <1>1, <1>15, <2>1 DEF BusyShown
  <2> QED BY <2>3, <2>4
<1>19. BusyNamed(observed, r)
  <2>1. \A d \in ToolCalls : \A t, u \in ToolNames : <<d, t>> \in r.busy /\ <<d, u>> \in r.busy => t = u
    BY <1>1, <1>11 DEF BusyNamed
  <2>2. \A d \in ToolCalls : \A t \in ToolNames : <<d, t>> \in r.busy => d \in r.used
    BY <1>1, <1>7, <1>11 DEF BusyNamed
  <2>3. DOMAIN r.names = {d \in ToolCalls : observed /\ \E t \in ToolNames : <<d, t>> \in r.busy}
    <3>1. DOMAIN m = {d \in ToolCalls : observed /\ \E t \in ToolNames : <<d, t>> \in q.busy}
      BY <1>1 DEF BusyNamed, m
    <3>2. DOMAIN r.names = DOMAIN m \ {c}
      BY <1>6, <1>7
    <3> QED BY <1>11, <1>12, <3>1, <3>2
  <2>4. ASSUME NEW d \in ToolCalls, NEW t \in ToolNames, observed, <<d, t>> \in r.busy PROVE r.names[d] = t
    <3>1. d # c /\ d \in DOMAIN m /\ m[d] = t
      BY <1>1, <1>11, <2>4 DEF BusyNamed, m
    <3> QED BY <1>6, <1>7, <3>1
  <2>5. r.at \notin {"none", "asked", "gone"}
    BY <1>1, <1>2, <1>7 DEF BusyNamed
  <2> QED BY <2>1, <2>2, <2>3, <2>4, <2>5 DEF BusyNamed
<1>20. MarksShown(s, r)
  <2>0. observed => x.kind = "result"
    BY <1>9
  <2>1. ASSUME NEW i \in 1..Len(s), NEW j \in 1..Len(s), s[i].kind = "graph", j < i PROVE s[j].kind = "request"
    <3>1. i \in 1..Len(o) /\ j \in 1..Len(o)
      BY <2>0, <1>13, <2>1
    <3> QED BY <1>1, <1>13, <2>1, <3>1 DEF MarksShown
  <2>2. ASSUME NEW i \in 1..Len(s), s[i].kind = "request" PROVE i = 1
    <3>1. i \in 1..Len(o)
      BY <2>0, <1>13, <2>2
    <3> QED BY <1>1, <1>13, <2>2, <3>1 DEF MarksShown
  <2>3. r.at \notin {"none", "asked"}
    BY <1>1, <1>2, <1>7 DEF BusyNamed
  <2> QED BY <2>1, <2>2, <2>3 DEF MarksShown
<1>21. ChatIs(execution[e], chatOf[e], r)
  BY <1>1, <1>7 DEF ChatIs
<1>22. observed \/ \A i \in 1..Len(s) : s[i].kind = "request"
  BY <1>1, <1>14
<1>23. /\ execution' = [execution EXCEPT ![e] = execution[e]] /\ runOf' = [runOf EXCEPT ![e] = r] /\ shownOf' = [shownOf EXCEPT ![e] = s]
       /\ UNCHANGED <<serving, observed, chatOf>> /\ execution[e] \in Stages /\ r \in RunState /\ s \in Seq(RunEvent)
  BY <1>1, <1>2, <1>3, <1>4, <1>7, <1>13
<1> QED BY <1>17, <1>18, <1>19, <1>20, <1>21, <1>22, <1>23, RunStep

LEMMA RunsInit == ScheduledRunsInit => RunsInv
<1> SUFFICES ASSUME ScheduledRunsInit PROVE RunsInv
  OBVIOUS
<1>1. /\ execution = [e \in Executions |-> "idle"] /\ serving = TRUE /\ observed \in BOOLEAN
      /\ runOf = [e \in Executions |-> NoRun] /\ shownOf = [e \in Executions |-> <<>>] /\ chatOf = [e \in Executions |-> <<>>]
  BY DEF ScheduledRunsInit
<1>2. NoRun \in RunState /\ NoRun.at = "none" /\ NoRun.busy = {} /\ DOMAIN NoRun.names = {}
  <2>1. NoTools \in NamesOfCalls /\ DOMAIN NoTools = {}
    <3>1. NoTools \in [{} -> ToolNames] /\ {} \in SUBSET ToolCalls /\ DOMAIN NoTools = {}
      BY DEF NoTools
    <3> QED BY <3>1 DEF NamesOfCalls
  <2> QED BY <2>1 DEF NoRun, RunState, At
<1>3. <<>> \in Seq(RunEvent) /\ <<>> \in Seq({"starter", "reply", "error"}) /\ "idle" \in Stages
  BY DEF Stages
<1>4. ASSUME NEW e \in Executions PROVE RunInv(e)
  <2>1. CallsShown(<<>>, NoRun) /\ BusyShown(observed, <<>>, NoRun)
    <3>1. \A i \in 1..Len(<<>>) : FALSE
      OBVIOUS
    <3> QED BY <1>2, <3>1 DEF CallsShown, BusyShown
  <2>2. BusyNamed(observed, NoRun)
    BY <1>2 DEF BusyNamed
  <2>3. MarksShown(<<>>, NoRun)
    BY <1>2 DEF MarksShown
  <2>4. ChatIs("idle", <<>>, NoRun)
    BY <1>2 DEF ChatIs, Untold
  <2> QED BY <1>1, <2>1, <2>2, <2>3, <2>4 DEF RunInv
<1> QED BY <1>1, <1>2, <1>3, <1>4 DEF RunsInv

LEMMA RunsStep == RunsInv /\ [ScheduledRunsNext]_runVars => RunsInv'
<1> SUFFICES ASSUME RunsInv, [ScheduledRunsNext]_runVars PROVE RunsInv'
  OBVIOUS
<1>1. ASSUME UNCHANGED runVars \/ GatewayComes PROVE RunsInv'
  <2>1. UNCHANGED <<execution, observed, runOf, shownOf, chatOf>> /\ serving' \in BOOLEAN
    BY <1>1 DEF runVars, GatewayComes, RunsInv
  <2>2. ASSUME NEW e \in Executions PROVE RunInv(e)'
    BY <2>1 DEF RunsInv, RunInv
  <2> QED BY <2>1, <2>2 DEF RunsInv
<1>2. ASSUME GatewayGoes PROVE RunsInv'
  BY <1>2, GatewayGoesKeeps
<1>3. ASSUME NEW e \in Executions,
             \/ BeginExecution(e) \/ SendStarter(e) \/ SendReply(e) \/ SendReport(e)
             \/ RunNotAsked(e) \/ HearAnswer(e) \/ GivesUpRun(e)
      PROVE  RunsInv'
  BY <1>3, ExecutionKeeps
<1>4. ASSUME NEW e \in Executions, RunAsked(e) \/ RunBegins(e) \/ RunEnds(e) PROVE RunsInv'
  BY <1>4, RunAskedKeeps, RunBeginsKeeps, RunEndsKeeps
<1>5. ASSUME NEW e \in Executions, NEW c \in ToolCalls, NEW tool \in ToolNames, ToolStarts(e, c, tool) \/ ToolEnds(e, c, tool)
      PROVE  RunsInv'
  BY <1>5, ToolStartsKeeps, ToolEndsKeeps
<1> QED BY <1>1, <1>2, <1>3, <1>4, <1>5 DEF ScheduledRunsNext

-----------------------------------------------------------------------------
(* What the invariant says of what is shown                                *)

LEMMA EventsAre ==
  ASSUME NEW x \in RunEvent
  PROVE  /\ x.kind = "result" <=> x \in Results
         /\ x.kind # "request" /\ x.kind # "graph" <=> x \in Openings \/ x \in Results
         /\ x \in Openings \/ x \in Results => x.call \in ToolCalls /\ x.tool \in ToolNames
<1>1. x \in Marks => x.kind \in {"request", "graph"}
  BY DEF Marks
<1>2. x \in Openings => x.kind \in {"call", "transfer"} /\ x.call \in ToolCalls /\ x.tool \in ToolNames
  BY DEF Openings
<1>3. x \in Results => x.kind = "result" /\ x.call \in ToolCalls /\ x.tool \in ToolNames
  BY DEF Results
<1> QED BY <1>1, <1>2, <1>3 DEF RunEvent

LEMMA ResultsShown == RunsInv => ResultsOfCalls
<1> SUFFICES ASSUME RunsInv, NEW e \in Executions, NEW i \in 1..Len(shownOf[e]), shownOf[e][i].kind = "result"
             PROVE  Cardinality({j \in 1..i : shownOf[e][j].kind # "request" /\ shownOf[e][j].kind # "graph"
                                  /\ shownOf[e][j].call = shownOf[e][i].call
                                  /\ shownOf[e][j].tool = shownOf[e][i].tool}) = 2
  BY DEF ResultsOfCalls
<1> DEFINE s == shownOf[e]
           c == s[i].call
           those == {j \in 1..i : s[j].kind # "request" /\ s[j].kind # "graph" /\ s[j].call = c /\ s[j].tool = s[i].tool}
<1>1. s \in Seq(RunEvent) /\ CallsShown(s, runOf[e]) /\ i \in 1..Len(s) /\ s[i].kind = "result"
  BY RunHas
<1> HIDE DEF s
<1>2. \A j \in 1..Len(s) : s[j] \in RunEvent
  BY <1>1
<1>3. Ends(s, i, c) /\ c \in ToolCalls
  BY <1>1, <1>2, EventsAre DEF Ends
<1>4. PICK j \in 1..(i - 1) : Opens(s, j, c) /\ s[j].tool = s[i].tool
  BY <1>1, <1>3 DEF CallsShown
<1>5. j \in 1..Len(s) /\ j \in 1..i /\ i \in 1..i /\ j # i /\ \A k \in 1..i : k \in 1..Len(s)
  BY <1>1, <1>4
<1>6. j \in those /\ i \in those
  BY <1>1, <1>2, <1>3, <1>4, <1>5, EventsAre DEF Opens, Ends
<1>7. ASSUME NEW k \in those PROVE k \in {i, j}
  <2>1. k \in 1..i /\ k \in 1..Len(s) /\ s[k].kind # "request" /\ s[k].kind # "graph" /\ s[k].call = c
    BY <1>5
  <2>2. Opens(s, k, c) \/ Ends(s, k, c)
    BY <1>2, <2>1, EventsAre DEF Opens, Ends
  <2> QED BY <1>1, <1>3, <1>4, <1>5, <2>1, <2>2 DEF CallsShown
<1>8. those = {i, j}
  BY <1>6, <1>7
<1>9. Cardinality({i, j}) = 2
  <2> DEFINE I == {i}  J == {i, j}
  <2>1. IsFiniteSet(I) /\ Cardinality(I) = 1
    BY FS_Singleton
  <2>2. J = I \cup {j} /\ j \notin I
    BY <1>5
  <2> HIDE DEF I
  <2>3. Cardinality(I \cup {j}) = Cardinality(I) + 1
    BY <2>1, <2>2, FS_AddElement
  <2> HIDE DEF J
  <2>4. Cardinality(J) = 2
    BY <2>1, <2>2, <2>3
  <2> QED BY <2>4 DEF J
<1> QED BY <1>8, <1>9 DEF s

LEMMA ChatShown == RunsInv => ChatInOrder
<1> SUFFICES ASSUME RunsInv, NEW e \in Executions
             PROVE  /\ chatOf[e] \in Texts \cup {<<"starter">> \o t : t \in Texts \ {<<"starter">>}}
                    /\ "reply" \in {chatOf[e][i] : i \in 1..Len(chatOf[e])} => runOf[e].at = "answered"
  BY DEF ChatInOrder
<1> DEFINE chat == chatOf[e]
<1>1. chat \in Untold \cup Reported \/ (chat \in Told \cup ToldAndReported /\ runOf[e].at = "answered")
  BY RunHas DEF ChatIs
<1> HIDE DEF chat
<1>2. \A a : <<"starter">> \o <<a>> = <<"starter", a>>
  <2> TAKE a
  <2>1. <<"starter">> \o <<a>> = Append(<<"starter">>, a)
    OBVIOUS
  <2> QED BY <2>1, AddToOne
<1>3. <<"starter">> \o <<"reply", "error">> = <<"starter", "reply", "error">>
  <2> DEFINE S == {"starter", "reply", "error"}
             a == <<"starter">>  b == <<"reply", "error">>  t == a \o b  u == <<"starter", "reply", "error">>
  <2>1. a \in Seq(S) /\ Len(a) = 1 /\ a[1] = "starter"
    OBVIOUS
  <2>2. b \in Seq(S) /\ Len(b) = 2 /\ b[1] = "reply" /\ b[2] = "error"
    OBVIOUS
  <2>3. u \in Seq(S) /\ Len(u) = 3 /\ u[1] = "starter" /\ u[2] = "reply" /\ u[3] = "error"
    OBVIOUS
  <2> HIDE DEF a, b, u, S
  <2>4. t \in Seq(S) /\ Len(t) = Len(a) + Len(b)
    BY <2>1, <2>2, JoinIs
  <2>5. \A i \in 1..Len(a) + Len(b) : t[i] = IF i <= Len(a) THEN a[i] ELSE b[i - Len(a)]
    BY <2>1, <2>2, JoinIs
  <2> HIDE DEF t
  <2>6. Len(t) = 3 /\ t[1] = "starter"
    BY <2>1, <2>2, <2>4, <2>5
  <2>7. t[2] = "reply" /\ t[3] = "error"
    <3>1. t[2] = b[2 - Len(a)] /\ t[3] = b[3 - Len(a)]
      BY <2>1, <2>2, <2>5
    <3>2. 2 - Len(a) = 1 /\ 3 - Len(a) = 2
      BY <2>1
    <3> QED BY <2>2, <3>1, <3>2
  <2>8. \A i \in 1..Len(t) : t[i] = u[i]
    BY <2>3, <2>6, <2>7
  <2>9. t = u
    BY <2>3, <2>4, <2>6, <2>8, SeqEqual
  <2> QED BY <2>9 DEF t, a, b, u
<1>4. chat \in Texts \cup {<<"starter">> \o t : t \in Texts \ {<<"starter">>}}
  <2>1. <<"reply">> \in Texts \ {<<"starter">>} /\ <<"error">> \in Texts \ {<<"starter">>} /\ <<"reply", "error">> \in Texts \ {<<"starter">>}
    BY DEF Texts
  <2>2. <<"starter", "reply">> \in {<<"starter">> \o t : t \in Texts \ {<<"starter">>}}
    BY <1>2, <2>1
  <2>3. <<"starter", "error">> \in {<<"starter">> \o t : t \in Texts \ {<<"starter">>}}
    BY <1>2, <2>1
  <2>4. <<"starter", "reply", "error">> \in {<<"starter">> \o t : t \in Texts \ {<<"starter">>}}
    BY <1>3, <2>1
  <2>5. {<<>>, <<"starter">>, <<"reply">>, <<"error">>, <<"reply", "error">>} \subseteq Texts
    BY DEF Texts
  <2> QED BY <1>1, <2>2, <2>3, <2>4, <2>5 DEF Untold, Told, Reported, ToldAndReported
<1>5. chat \in Untold \cup Reported => "reply" \notin {chat[i] : i \in 1..Len(chat)}
  <2>1. CASE chat = <<>>
    BY <2>1
  <2>2. CASE chat = <<"starter">>
    BY <2>2
  <2>3. CASE chat = <<"error">>
    BY <2>3
  <2>4. CASE chat = <<"starter", "error">>
    BY <2>4
  <2> QED BY <2>1, <2>2, <2>3, <2>4 DEF Untold, Reported
<1> QED BY <1>1, <1>4, <1>5 DEF chat

LEMMA RunsShown == RunsInv => ScheduledRunsCorrect
<1> SUFFICES ASSUME RunsInv PROVE ScheduledRunsCorrect
  OBVIOUS
<1>1. ScheduledRunsTypeOK
  <2>1. ASSUME NEW e \in Executions PROVE runOf[e].at \in At /\ DOMAIN runOf[e].names \subseteq ToolCalls
    BY RunHas DEF RunState, BusyNamed
  <2>2. execution \in [Executions -> Stages]
    BY DEF RunsInv
  <2> QED BY <2>1, <2>2 DEF ScheduledRunsTypeOK, Stages, At
<1>2. GraphFirst
  <2>1. \A e \in Executions : MarksShown(shownOf[e], runOf[e])
    BY RunHas
  <2> QED BY <2>1 DEF GraphFirst, MarksShown
<1>3. NamesOfBusy
  <2>1. \A e \in Executions : BusyNamed(observed, runOf[e])
    BY RunHas
  <2> QED BY <2>1 DEF NamesOfBusy, BusyNamed
<1> QED BY <1>1, <1>2, <1>3, ResultsShown, ChatShown DEF ScheduledRunsCorrect

\* What executions of the scheduler ask of the gateway: each result is shown once,
\* after its call and as it was named, a graph first, a tool that ended is
\* forgotten, and what comes into the source channel is in order.
THEOREM ScheduledRunsAreCorrect == ScheduledRunsSpec => []ScheduledRunsCorrect
BY RunsInit, RunsStep, RunsShown, PTL DEF ScheduledRunsSpec

-----------------------------------------------------------------------------
(* The IMAP panel, for any tools and any handlers that overlap.            *)

PanelTool == ImapTools \cup {NoTool}
PanelThing == {"list", "status", "estimate", "stop", "pause", "poll", "start", "clear"}
PanelState ==
  [open : BOOLEAN, listed : BOOLEAN, known : BOOLEAN, rows : {NoRows} \cup [ImapTools -> BOOLEAN],
   estimates : {{}, ImapTools}, loading : BOOLEAN, estimating : BOOLEAN,
   stopping : PanelTool, starting : PanelTool, clearing : PanelTool, confirming : PanelTool, overwritten : BOOLEAN]
HandlerState ==
  [kind : {"none", "open", "load", "stop", "start", "clear"}, of : PanelTool, things : SUBSET PanelThing,
   polls : 0..MaxPolls, knows : BOOLEAN, saw : BOOLEAN, on : {"yes", "cancelled", "gone"}]

\* What a handler of each kind may ask for; a clearing that saw a crawl has not
\* gone beyond its stop; polls are left.
HandlerSound(c) ==
  /\ c.kind = "none" => c.things = {}
  /\ c.kind # "none" => c.things # {} /\ c.polls # 0
  /\ c.kind = "open" => c.things \in {{"list"}, {"status"}, {"estimate"}}
  /\ c.kind = "load" => c.things \subseteq {"status", "estimate"}
  /\ c.kind = "stop" => c.things \in {{"stop"}, {"pause"}, {"poll"}}
  /\ c.kind = "start" => c.things \in {{"start"}, {"status"}}
  /\ c.kind = "clear" => c.things \in {{"stop"}, {"pause"}, {"clear"}} \cup SUBSET {"status", "estimate"}
  /\ c.saw => c.kind = "clear" /\ c.things = {"stop"}
  /\ c.kind \in {"stop", "start", "clear"} => c.of \in ImapTools

Acts(h, m) == \E kind \in {"stop", "start", "clear"} : UnderWay(h, kind, m)

\* A field names the one tool whose work is under way; a confirmation is for a
\* tool without work.
FieldsName ==
  \A h \in Handlers, m \in ImapTools :
    /\ UnderWay(h, "clear", m) => panel.clearing = m
    /\ ~panel.overwritten /\ UnderWay(h, "stop", m) => panel.stopping = m
    /\ ~panel.overwritten /\ UnderWay(h, "start", m) => panel.starting = m
NothingTwice ==
  \A g, h \in Handlers : g # h =>
    /\ ~panel.overwritten => \A m \in ImapTools : ~(Acts(g, m) /\ Acts(h, m))
    /\ ~(handler[g].kind = "clear" /\ handler[g].on # "gone" /\ handler[h].kind = "clear" /\ handler[h].on # "gone")
ConfirmsIdle ==
  panel.confirming # NoTool =>
    panel.clearing = NoTool /\ panel.stopping # panel.confirming /\ panel.starting # panel.confirming

PanelInv ==
  /\ granted \in BOOLEAN /\ panel \in PanelState /\ handler \in [Handlers -> HandlerState]
  /\ \A h \in Handlers : HandlerSound(handler[h])
  /\ NoButtonStuck /\ FieldsName /\ NothingTwice /\ ConfirmsIdle
  /\ panel.known => DOMAIN panel.rows = ImapTools
  /\ ~panel.open => panel = ClosedPanel /\ \A h \in Handlers : handler[h].kind # "none" => handler[h].on = "gone"

LEMMA PanelNumbers == NoTool \notin ImapTools /\ MaxPolls \in Nat /\ MaxPolls # 0 /\ Lifetime \in Nat /\ Lifetime # 0
BY ImapPanelAssumption DEF NoTool

LEMMA NoHandlerIs ==
  /\ NoHandler \in HandlerState /\ HandlerSound(NoHandler)
  /\ NoHandler.kind = "none" /\ NoHandler.things = {} /\ NoHandler.on = "yes"
<1>1. MaxPolls \in Nat
  BY PanelNumbers
<1> DEFINE a == PanelAsks("none", NoTool, {}, FALSE, FALSE)
<1>2. a \in HandlerState /\ a.kind = "none" /\ a.things = {} /\ a.on = "yes" /\ a.saw = FALSE
  BY <1>1 DEF PanelAsks, HandlerState, PanelTool
<1>0. NoHandler = [a EXCEPT !.polls = 0]
  BY DEF NoHandler
<1> HIDE DEF a
<1>3. /\ NoHandler \in HandlerState
      /\ NoHandler.kind = "none" /\ NoHandler.things = {} /\ NoHandler.on = "yes" /\ NoHandler.saw = FALSE
  BY <1>0, <1>1, <1>2 DEF HandlerState
<1>4. HandlerSound(NoHandler)
  BY <1>3 DEF HandlerSound
<1> QED BY <1>3, <1>4

\* At most one handler has a thing: the count says so.
LEMMA AtMostOne ==
  ASSUME NEW S, \A x, y \in S : x = y
  PROVE  Cardinality(S) <= 1
<1>1. CASE S = {}
  BY <1>1, FS_EmptySet
<1>2. CASE S # {}
  <2>1. PICK x : x \in S
    BY <1>2
  <2>2. S = {x}
    BY <2>1
  <2> QED BY <2>2, FS_Singleton
<1> QED BY <1>1, <1>2

LEMMA PanelCorrectFollows == PanelInv => ImapPanelTypeOK /\ NoButtonStuck /\ OneAtATime /\ StoppedFirst /\ StatusComplete
<1> SUFFICES ASSUME PanelInv PROVE ImapPanelTypeOK /\ NoButtonStuck /\ OneAtATime /\ StoppedFirst /\ StatusComplete
  OBVIOUS
<1>1. /\ granted \in BOOLEAN /\ panel \in PanelState /\ handler \in [Handlers -> HandlerState]
      /\ \A h \in Handlers : HandlerSound(handler[h])
      /\ NoButtonStuck /\ NothingTwice
      /\ panel.known => DOMAIN panel.rows = ImapTools
  BY DEF PanelInv
<1>2. ImapPanelTypeOK
  BY <1>1 DEF ImapPanelTypeOK, PanelState, HandlerState, PanelTool
<1>3. ASSUME NEW m \in ImapTools, ~panel.overwritten
      PROVE  Cardinality({h \in Handlers : \E kind \in {"stop", "start", "clear"} : UnderWay(h, kind, m)}) <= 1
  <2> DEFINE S == {h \in Handlers : \E kind \in {"stop", "start", "clear"} : UnderWay(h, kind, m)}
  <2>1. \A g, h \in S : g = h
    BY <1>1, <1>3 DEF NothingTwice, Acts
  <2> HIDE DEF S
  <2>2. Cardinality(S) <= 1
    BY <2>1, AtMostOne
  <2> QED BY <2>2 DEF S
<1>4. Cardinality({h \in Handlers : handler[h].kind = "clear" /\ handler[h].on # "gone"}) <= 1
  <2> DEFINE S == {h \in Handlers : handler[h].kind = "clear" /\ handler[h].on # "gone"}
  <2>1. \A g, h \in S : g = h
    BY <1>1 DEF NothingTwice
  <2> HIDE DEF S
  <2>2. Cardinality(S) <= 1
    BY <2>1, AtMostOne
  <2> QED BY <2>2 DEF S
<1>5. OneAtATime
  BY <1>3, <1>4 DEF OneAtATime
<1>6. StoppedFirst
  <2> SUFFICES ASSUME NEW h \in Handlers, "clear" \in handler[h].things, handler[h].saw PROVE FALSE
    BY DEF StoppedFirst
  <2>1. HandlerSound(handler[h])
    BY <1>1
  <2> QED BY <2>1 DEF HandlerSound
<1>7. StatusComplete
  BY <1>1 DEF StatusComplete, PanelState
<1> QED BY <1>1, <1>2, <1>5, <1>6, <1>7

\* A handler begins, and the panel is p but for what it says is loading.
LEMMA BeginKeeps ==
  ASSUME PanelInv, NEW h \in Handlers, handler[h] = NoHandler,
         NEW c \in HandlerState, HandlerSound(c), c.kind # "none", c.on = "yes",
         NEW p \in PanelState, p.open, p.loading = panel.loading, p.estimating = panel.estimating,
         p.known => DOMAIN p.rows = ImapTools,
         p.stopping = panel.stopping \/ (c.kind = "stop" /\ c.of = p.stopping),
         p.starting = panel.starting \/ (c.kind = "start" /\ c.of = p.starting),
         p.clearing = panel.clearing \/ (c.kind = "clear" /\ c.of = p.clearing),
         \A g \in Handlers, m \in ImapTools :
           /\ UnderWay(g, "clear", m) => p.clearing = m
           /\ ~p.overwritten /\ UnderWay(g, "stop", m) => p.stopping = m
           /\ ~p.overwritten /\ UnderWay(g, "start", m) => p.starting = m,
         c.kind = "clear" => p.clearing = c.of,
         ~p.overwritten /\ c.kind = "stop" => p.stopping = c.of,
         ~p.overwritten /\ c.kind = "start" => p.starting = c.of,
         panel.overwritten => p.overwritten,
         c.kind \in {"stop", "start", "clear"} /\ ~p.overwritten => \A g \in Handlers : ~Acts(g, c.of),
         c.kind = "clear" => \A g \in Handlers : ~(handler[g].kind = "clear" /\ handler[g].on # "gone"),
         p.confirming # NoTool => p.clearing = NoTool /\ p.stopping # p.confirming /\ p.starting # p.confirming,
         granted' \in BOOLEAN,
         handler' = [handler EXCEPT ![h] = c],
         panel' = [p EXCEPT !.loading = @ \/ "status" \in c.things, !.estimating = @ \/ "estimate" \in c.things]
  PROVE  PanelInv'
<1>1. /\ handler \in [Handlers -> HandlerState] /\ \A g \in Handlers : HandlerSound(handler[g])
      /\ NoButtonStuck /\ NothingTwice
  BY DEF PanelInv
<1>2. /\ handler' \in [Handlers -> HandlerState] /\ handler'[h] = c
      /\ \A g \in Handlers : g # h => handler'[g] = handler[g]
  BY <1>1
<1>3. panel' \in PanelState
  BY DEF PanelState
<1>4. /\ panel'.open = p.open /\ panel'.known = p.known /\ panel'.rows = p.rows
      /\ panel'.loading = (panel.loading \/ "status" \in c.things)
      /\ panel'.estimating = (panel.estimating \/ "estimate" \in c.things)
      /\ panel'.stopping = p.stopping /\ panel'.starting = p.starting /\ panel'.clearing = p.clearing
      /\ panel'.confirming = p.confirming /\ panel'.overwritten = p.overwritten
  BY DEF PanelState
<1>5. handler[h].kind = "none" /\ handler[h].things = {}
  BY NoHandlerIs
<1>6. \A g \in Handlers : HandlerSound(handler[g])'
  BY <1>1, <1>2
<1>7. ASSUME NEW g \in Handlers, NEW kind \in {"stop", "start", "clear"}, NEW m \in ImapTools
      PROVE  UnderWay(g, kind, m)' <=> UnderWay(g, kind, m) \/ (g = h /\ c.kind = kind /\ c.of = m)
  BY <1>2, <1>5 DEF UnderWay
<1>8. NoButtonStuck'
  <2>1. ASSUME NEW m \in ImapTools
        PROVE  /\ panel'.stopping = m => \E g \in Handlers : UnderWay(g, "stop", m)'
               /\ panel'.starting = m => \E g \in Handlers : UnderWay(g, "start", m)'
               /\ panel'.clearing = m => \E g \in Handlers : UnderWay(g, "clear", m)'
    BY <1>1, <1>4, <1>7 DEF NoButtonStuck
  <2>2. panel'.loading => \E g \in Handlers : "status" \in handler'[g].things /\ handler'[g].on # "gone"
    <3>1. CASE "status" \in c.things
      BY <3>1, <1>2
    <3>2. CASE panel.loading
      <4>1. PICK g \in Handlers : "status" \in handler[g].things /\ handler[g].on # "gone"
        BY <3>2, <1>1 DEF NoButtonStuck
      <4>2. g # h
        BY <4>1, <1>5
      <4> QED BY <4>1, <4>2, <1>2
    <3> QED BY <3>1, <3>2, <1>4
  <2>3. panel'.estimating => \E g \in Handlers : "estimate" \in handler'[g].things /\ handler'[g].on # "gone"
    <3>1. CASE "estimate" \in c.things
      BY <3>1, <1>2
    <3>2. CASE panel.estimating
      <4>1. PICK g \in Handlers : "estimate" \in handler[g].things /\ handler[g].on # "gone"
        BY <3>2, <1>1 DEF NoButtonStuck
      <4>2. g # h
        BY <4>1, <1>5
      <4> QED BY <4>1, <4>2, <1>2
    <3> QED BY <3>1, <3>2, <1>4
  <2> QED BY <2>1, <2>2, <2>3 DEF NoButtonStuck
<1>9. FieldsName'
  <2> SUFFICES ASSUME NEW g \in Handlers, NEW m \in ImapTools
               PROVE  /\ UnderWay(g, "clear", m)' => p.clearing = m
                      /\ ~p.overwritten /\ UnderWay(g, "stop", m)' => p.stopping = m
                      /\ ~p.overwritten /\ UnderWay(g, "start", m)' => p.starting = m
    BY <1>4 DEF FieldsName
  <2> QED BY <1>7
<1>10. NothingTwice'
  <2> SUFFICES ASSUME NEW f \in Handlers, NEW g \in Handlers, f # g
               PROVE  /\ ~p.overwritten => \A m \in ImapTools : ~(Acts(f, m)' /\ Acts(g, m)')
                      /\ ~(handler'[f].kind = "clear" /\ handler'[f].on # "gone" /\ handler'[g].kind = "clear" /\ handler'[g].on # "gone")
    BY <1>4 DEF NothingTwice
  <2>1. ASSUME ~p.overwritten, NEW m \in ImapTools, Acts(f, m)', Acts(g, m)' PROVE FALSE
    <3>1. Acts(f, m) \/ (f = h /\ c.kind \in {"stop", "start", "clear"} /\ c.of = m)
      BY <2>1, <1>7 DEF Acts
    <3>2. Acts(g, m) \/ (g = h /\ c.kind \in {"stop", "start", "clear"} /\ c.of = m)
      BY <2>1, <1>7 DEF Acts
    <3> QED BY <3>1, <3>2, <2>1, <1>1 DEF NothingTwice
  <2>2. ~(handler'[f].kind = "clear" /\ handler'[f].on # "gone" /\ handler'[g].kind = "clear" /\ handler'[g].on # "gone")
    BY <1>1, <1>2 DEF NothingTwice
  <2> QED BY <2>1, <2>2
<1>11. ConfirmsIdle'
  BY <1>4 DEF ConfirmsIdle
<1>12. panel'.known => DOMAIN panel'.rows = ImapTools
  BY <1>4
<1>13. panel'.open
  BY <1>4
<1> QED BY <1>2, <1>3, <1>6, <1>8, <1>9, <1>10, <1>11, <1>12, <1>13 DEF PanelInv

\* What PanelInv says, opened.
LEMMA PanelHas ==
  ASSUME PanelInv
  PROVE  /\ granted \in BOOLEAN /\ panel \in PanelState /\ handler \in [Handlers -> HandlerState]
         /\ panel.known => DOMAIN panel.rows = ImapTools
         /\ \A h \in Handlers : HandlerSound(handler[h])
         /\ \A g \in Handlers, m \in ImapTools :
              /\ UnderWay(g, "clear", m) => panel.clearing = m
              /\ ~panel.overwritten /\ UnderWay(g, "stop", m) => panel.stopping = m
              /\ ~panel.overwritten /\ UnderWay(g, "start", m) => panel.starting = m
         /\ panel.confirming # NoTool =>
              panel.clearing = NoTool /\ panel.stopping # panel.confirming /\ panel.starting # panel.confirming
BY DEF PanelInv, FieldsName, ConfirmsIdle

\* No index is being cleared while no tool is named as one that is; and a tool
\* that no field names has no work, unless a field was taken over.
LEMMA Unnamed ==
  ASSUME PanelInv, panel.clearing = NoTool
  PROVE  /\ \A g \in Handlers : ~(handler[g].kind = "clear" /\ handler[g].on # "gone")
         /\ \A m \in ImapTools : panel.stopping # m /\ panel.starting # m /\ ~panel.overwritten
                               => \A g \in Handlers : ~Acts(g, m)
<1>1. \A g \in Handlers, m \in ImapTools : ~UnderWay(g, "clear", m)
  BY PanelHas, PanelNumbers
<1>2. \A g \in Handlers : handler[g].kind = "clear" => handler[g].of \in ImapTools
  BY PanelHas DEF HandlerSound
<1>3. \A g \in Handlers : ~(handler[g].kind = "clear" /\ handler[g].on # "gone")
  BY <1>1, <1>2 DEF UnderWay
<1>4. ASSUME NEW m \in ImapTools, panel.stopping # m, panel.starting # m, ~panel.overwritten, NEW g \in Handlers, Acts(g, m)
      PROVE  FALSE
  <2>1. UnderWay(g, "stop", m) \/ UnderWay(g, "start", m) \/ UnderWay(g, "clear", m)
    BY <1>4 DEF Acts
  <2> QED BY <2>1, <1>1, <1>4, PanelHas
<1> QED BY <1>3, <1>4

LEMMA ClosedPanelIs ==
  /\ ClosedPanel \in PanelState /\ ~ClosedPanel.open /\ ~ClosedPanel.known /\ ~ClosedPanel.loading /\ ~ClosedPanel.estimating
  /\ ClosedPanel.stopping = NoTool /\ ClosedPanel.starting = NoTool /\ ClosedPanel.clearing = NoTool
  /\ ClosedPanel.confirming = NoTool /\ ~ClosedPanel.overwritten
<1>1. ClosedPanel.rows = NoRows
  BY DEF ClosedPanel
<1>2. ClosedPanel \in PanelState
  BY DEF ClosedPanel, PanelState, PanelTool
<1> QED BY <1>2 DEF ClosedPanel

LEMMA OpenSectionKeeps == ASSUME PanelInv, NEW h \in Handlers, OpenSection(h) PROVE PanelInv'
<1> DEFINE p == [ClosedPanel EXCEPT !.open = TRUE]
           c == PanelAsks("open", NoTool, {"list"}, FALSE, FALSE)
<1>1. panel = ClosedPanel /\ BeginHandler(h, c, p)
  BY DEF OpenSection, PanelInv
<1>2. c \in HandlerState /\ c.kind = "open" /\ c.things = {"list"} /\ c.polls # 0 /\ c.saw = FALSE /\ c.on = "yes"
  BY PanelNumbers DEF PanelAsks, HandlerState, PanelTool, PanelThing
<1>3. /\ p \in PanelState /\ p.open /\ p.known = panel.known /\ p.rows = panel.rows
      /\ p.loading = panel.loading /\ p.estimating = panel.estimating
      /\ p.stopping = panel.stopping /\ p.starting = panel.starting /\ p.clearing = panel.clearing
      /\ p.confirming = panel.confirming /\ p.overwritten = panel.overwritten
  BY <1>1, ClosedPanelIs DEF PanelState
<1> HIDE DEF p, c
<1>4. HandlerSound(c)
  BY <1>2 DEF HandlerSound
<1>5. /\ handler[h] = NoHandler /\ handler' = [handler EXCEPT ![h] = c] /\ granted' = granted
      /\ panel' = [p EXCEPT !.loading = @ \/ "status" \in c.things, !.estimating = @ \/ "estimate" \in c.things]
  BY <1>1 DEF BeginHandler
<1>6. /\ p.known => DOMAIN p.rows = ImapTools
      /\ p.stopping = panel.stopping \/ (c.kind = "stop" /\ c.of = p.stopping)
      /\ p.starting = panel.starting \/ (c.kind = "start" /\ c.of = p.starting)
      /\ p.clearing = panel.clearing \/ (c.kind = "clear" /\ c.of = p.clearing)
      /\ c.kind = "clear" => p.clearing = c.of
      /\ ~p.overwritten /\ c.kind = "stop" => p.stopping = c.of
      /\ ~p.overwritten /\ c.kind = "start" => p.starting = c.of
      /\ panel.overwritten => p.overwritten
      /\ c.kind \in {"stop", "start", "clear"} /\ ~p.overwritten => \A g \in Handlers : ~Acts(g, c.of)
      /\ c.kind = "clear" => \A g \in Handlers : ~(handler[g].kind = "clear" /\ handler[g].on # "gone")
      /\ p.confirming # NoTool => p.clearing = NoTool /\ p.stopping # p.confirming /\ p.starting # p.confirming
      /\ granted' \in BOOLEAN /\ c.kind # "none" /\ p.open
  BY <1>2, <1>3, <1>5, PanelHas
<1>7. \A g \in Handlers, m \in ImapTools :
           /\ UnderWay(g, "clear", m) => p.clearing = m
           /\ ~p.overwritten /\ UnderWay(g, "stop", m) => p.stopping = m
           /\ ~p.overwritten /\ UnderWay(g, "start", m) => p.starting = m
  BY <1>3, PanelHas
<1> QED BY <1>2, <1>3, <1>4, <1>5, <1>6, <1>7, BeginKeeps

LEMMA LoadThingsKeeps ==
  ASSUME PanelInv, panel.open, NEW h \in Handlers, NEW things \in SUBSET {"status", "estimate"}, things # {}, LoadThings(h, things)
  PROVE  PanelInv'
<1> DEFINE c == PanelAsks("load", NoTool, things, panel.listed, FALSE)
<1>1. panel.listed \in BOOLEAN
  BY PanelHas DEF PanelState
<1>2. c \in HandlerState /\ c.kind = "load" /\ c.things = things /\ c.polls # 0 /\ c.saw = FALSE /\ c.on = "yes"
  <2>1. NoTool \in PanelTool /\ things \in SUBSET PanelThing
    BY DEF PanelTool, PanelThing
  <2> QED BY <1>1, <2>1, PanelNumbers DEF PanelAsks, HandlerState
<1>3. /\ handler[h] = NoHandler /\ handler' = [handler EXCEPT ![h] = c] /\ granted' = granted
      /\ panel' = [panel EXCEPT !.loading = @ \/ "status" \in c.things, !.estimating = @ \/ "estimate" \in c.things]
  BY DEF LoadThings, BeginHandler
<1> HIDE DEF c
<1>4. HandlerSound(c)
  BY <1>2 DEF HandlerSound
<1> QED BY <1>2, <1>3, <1>4, PanelHas, BeginKeeps

LEMMA TimerKeeps == ASSUME PanelInv, NEW h \in Handlers, Timer(h) \/ RefreshAll(h) PROVE PanelInv'
<1>1. panel.open
  BY DEF Timer, RefreshAll, Ready
<1>2. PICK things \in SUBSET {"status", "estimate"} : things # {} /\ LoadThings(h, things)
  <2>1. {"status"} \in SUBSET {"status", "estimate"} /\ {"estimate"} \in SUBSET {"status", "estimate"}
        /\ {"status", "estimate"} \in SUBSET {"status", "estimate"}
    OBVIOUS
  <2> QED BY <2>1 DEF Timer, RefreshAll
<1> QED BY <1>1, <1>2, LoadThingsKeeps

LEMMA StopOrStartKeeps == ASSUME PanelInv, NEW h \in Handlers, NEW m \in ImapTools, StopOrStart(h, m) PROVE PanelInv'
<1>1. /\ panel.open /\ panel.confirming = NoTool /\ panel.clearing = NoTool
      /\ panel.stopping # m /\ panel.starting # m
  BY DEF StopOrStart, CanAct, Ready
<1>2. panel \in PanelState
  BY PanelHas
<1>3. m \in PanelTool
  BY DEF PanelTool
<1>4. /\ \A g \in Handlers : ~(handler[g].kind = "clear" /\ handler[g].on # "gone")
      /\ ~panel.overwritten => \A g \in Handlers : ~Acts(g, m)
  BY <1>1, Unnamed
<1>5. CASE ShownActive(m)
  <2> DEFINE c == PanelAsks("stop", m, {"stop"}, TRUE, FALSE)
             p == [panel EXCEPT !.stopping = m, !.overwritten = @ \/ panel.stopping # NoTool]
  <2>1. c \in HandlerState /\ c.kind = "stop" /\ c.of = m /\ c.things = {"stop"} /\ c.polls # 0 /\ c.saw = FALSE /\ c.on = "yes"
    BY <1>3, PanelNumbers DEF PanelAsks, HandlerState, PanelThing
  <2>2. /\ p \in PanelState /\ p.open = panel.open /\ p.known = panel.known /\ p.rows = panel.rows
        /\ p.loading = panel.loading /\ p.estimating = panel.estimating
        /\ p.stopping = m /\ p.starting = panel.starting /\ p.clearing = panel.clearing
        /\ p.confirming = panel.confirming /\ p.overwritten = (panel.overwritten \/ panel.stopping # NoTool)
    BY <1>2, <1>3 DEF PanelState
  <2>3. BeginHandler(h, c, p)
    BY <1>5 DEF StopOrStart
  <2> HIDE DEF p, c
  <2>4. HandlerSound(c)
    BY <2>1 DEF HandlerSound
  <2>5. /\ handler[h] = NoHandler /\ handler' = [handler EXCEPT ![h] = c] /\ granted' = granted
        /\ panel' = [p EXCEPT !.loading = @ \/ "status" \in c.things, !.estimating = @ \/ "estimate" \in c.things]
    BY <2>3 DEF BeginHandler
  <2>6. ASSUME NEW g \in Handlers, NEW n \in ImapTools
        PROVE  /\ UnderWay(g, "clear", n) => p.clearing = n
               /\ ~p.overwritten /\ UnderWay(g, "stop", n) => p.stopping = n
               /\ ~p.overwritten /\ UnderWay(g, "start", n) => p.starting = n
    <3>1. ~p.overwritten => ~UnderWay(g, "stop", n)
      BY <2>2, PanelHas, PanelNumbers
    <3> QED BY <3>1, <2>2, PanelHas
  <2>7. /\ p.known => DOMAIN p.rows = ImapTools
        /\ p.stopping = panel.stopping \/ (c.kind = "stop" /\ c.of = p.stopping)
        /\ p.starting = panel.starting \/ (c.kind = "start" /\ c.of = p.starting)
        /\ p.clearing = panel.clearing \/ (c.kind = "clear" /\ c.of = p.clearing)
        /\ c.kind = "clear" => p.clearing = c.of
        /\ ~p.overwritten /\ c.kind = "stop" => p.stopping = c.of
        /\ ~p.overwritten /\ c.kind = "start" => p.starting = c.of
        /\ panel.overwritten => p.overwritten
        /\ c.kind \in {"stop", "start", "clear"} /\ ~p.overwritten => \A g \in Handlers : ~Acts(g, c.of)
        /\ c.kind = "clear" => \A g \in Handlers : ~(handler[g].kind = "clear" /\ handler[g].on # "gone")
        /\ p.confirming # NoTool => p.clearing = NoTool /\ p.stopping # p.confirming /\ p.starting # p.confirming
        /\ granted' \in BOOLEAN /\ c.kind # "none" /\ p.open
    BY <1>1, <1>4, <2>1, <2>2, <2>5, PanelHas
  <2>8. p.loading = panel.loading /\ p.estimating = panel.estimating
    BY <2>2
  <2> QED BY <2>1, <2>2, <2>4, <2>5, <2>6, <2>7, <2>8, BeginKeeps
<1>6. CASE ~ShownActive(m)
  <2> DEFINE c == PanelAsks("start", m, {"start"}, TRUE, FALSE)
             p == [panel EXCEPT !.starting = m, !.overwritten = @ \/ panel.starting # NoTool]
  <2>1. c \in HandlerState /\ c.kind = "start" /\ c.of = m /\ c.things = {"start"} /\ c.polls # 0 /\ c.saw = FALSE /\ c.on = "yes"
    BY <1>3, PanelNumbers DEF PanelAsks, HandlerState, PanelThing
  <2>2. /\ p \in PanelState /\ p.open = panel.open /\ p.known = panel.known /\ p.rows = panel.rows
        /\ p.loading = panel.loading /\ p.estimating = panel.estimating
        /\ p.stopping = panel.stopping /\ p.starting = m /\ p.clearing = panel.clearing
        /\ p.confirming = panel.confirming /\ p.overwritten = (panel.overwritten \/ panel.starting # NoTool)
    BY <1>2, <1>3 DEF PanelState
  <2>3. BeginHandler(h, c, p)
    BY <1>6 DEF StopOrStart
  <2> HIDE DEF p, c
  <2>4. HandlerSound(c)
    BY <2>1 DEF HandlerSound
  <2>5. /\ handler[h] = NoHandler /\ handler' = [handler EXCEPT ![h] = c] /\ granted' = granted
        /\ panel' = [p EXCEPT !.loading = @ \/ "status" \in c.things, !.estimating = @ \/ "estimate" \in c.things]
    BY <2>3 DEF BeginHandler
  <2>6. ASSUME NEW g \in Handlers, NEW n \in ImapTools
        PROVE  /\ UnderWay(g, "clear", n) => p.clearing = n
               /\ ~p.overwritten /\ UnderWay(g, "stop", n) => p.stopping = n
               /\ ~p.overwritten /\ UnderWay(g, "start", n) => p.starting = n
    <3>1. ~p.overwritten => ~UnderWay(g, "start", n)
      BY <2>2, PanelHas, PanelNumbers
    <3> QED BY <3>1, <2>2, PanelHas
  <2>7. /\ p.known => DOMAIN p.rows = ImapTools
        /\ p.stopping = panel.stopping \/ (c.kind = "stop" /\ c.of = p.stopping)
        /\ p.starting = panel.starting \/ (c.kind = "start" /\ c.of = p.starting)
        /\ p.clearing = panel.clearing \/ (c.kind = "clear" /\ c.of = p.clearing)
        /\ c.kind = "clear" => p.clearing = c.of
        /\ ~p.overwritten /\ c.kind = "stop" => p.stopping = c.of
        /\ ~p.overwritten /\ c.kind = "start" => p.starting = c.of
        /\ panel.overwritten => p.overwritten
        /\ c.kind \in {"stop", "start", "clear"} /\ ~p.overwritten => \A g \in Handlers : ~Acts(g, c.of)
        /\ c.kind = "clear" => \A g \in Handlers : ~(handler[g].kind = "clear" /\ handler[g].on # "gone")
        /\ p.confirming # NoTool => p.clearing = NoTool /\ p.stopping # p.confirming /\ p.starting # p.confirming
        /\ granted' \in BOOLEAN /\ c.kind # "none" /\ p.open
    BY <1>1, <1>4, <2>1, <2>2, <2>5, PanelHas
  <2>8. p.loading = panel.loading /\ p.estimating = panel.estimating
    BY <2>2
  <2> QED BY <2>1, <2>2, <2>4, <2>5, <2>6, <2>7, <2>8, BeginKeeps
<1> QED BY <1>5, <1>6

\* The panel with another confirmation.
LEMMA ConfirmingKeeps ==
  ASSUME PanelInv, panel.open, NEW m \in PanelTool, panel' = [panel EXCEPT !.confirming = m],
         m # NoTool => panel.clearing = NoTool /\ panel.stopping # m /\ panel.starting # m,
         UNCHANGED <<granted, handler>>
  PROVE  PanelInv'
<1>1. panel \in PanelState /\ panel' \in PanelState
  BY PanelHas DEF PanelState
<1>2. /\ panel'.open = panel.open /\ panel'.known = panel.known /\ panel'.rows = panel.rows
      /\ panel'.loading = panel.loading /\ panel'.estimating = panel.estimating
      /\ panel'.stopping = panel.stopping /\ panel'.starting = panel.starting /\ panel'.clearing = panel.clearing
      /\ panel'.confirming = m /\ panel'.overwritten = panel.overwritten
  BY <1>1 DEF PanelState
<1>3. NoButtonStuck' /\ FieldsName' /\ NothingTwice'
  BY <1>2 DEF PanelInv, NoButtonStuck, FieldsName, NothingTwice, UnderWay, Acts
<1>4. ConfirmsIdle'
  BY <1>2 DEF ConfirmsIdle
<1> QED BY <1>1, <1>2, <1>3, <1>4 DEF PanelInv

LEMMA AskToClearKeeps == ASSUME PanelInv, NEW m \in ImapTools, AskToClear(m) PROVE PanelInv'
<1>1. /\ panel.open /\ panel.clearing = NoTool /\ panel.stopping # m /\ panel.starting # m
      /\ panel' = [panel EXCEPT !.confirming = m] /\ UNCHANGED <<granted, handler>> /\ m \in PanelTool
  BY DEF AskToClear, CanAct, Ready, PanelTool
<1> QED BY <1>1, ConfirmingKeeps

\* A panel that has anything is open.
LEMMA ConfirmingOpen == ASSUME PanelInv, panel.confirming # NoTool PROVE panel.open
<1>1. panel.open \in BOOLEAN /\ (~panel.open => panel = ClosedPanel)
  BY DEF PanelInv, PanelState
<1> QED BY <1>1, ClosedPanelIs

LEMMA CancelKeeps == ASSUME PanelInv, Cancel PROVE PanelInv'
<1>1. panel.open /\ panel' = [panel EXCEPT !.confirming = NoTool] /\ UNCHANGED <<granted, handler>> /\ NoTool \in PanelTool
  BY ConfirmingOpen DEF Cancel, PanelTool
<1> QED BY <1>1, ConfirmingKeeps

LEMMA ConfirmKeeps == ASSUME PanelInv, NEW h \in Handlers, Confirm(h) PROVE PanelInv'
<1> DEFINE m == panel.confirming
<1>1. m # NoTool /\ panel.clearing = NoTool /\ panel.open /\ panel \in PanelState
  BY ConfirmingOpen, PanelHas DEF Confirm
<1>2. m \in ImapTools /\ m \in PanelTool /\ NoTool \in PanelTool
  BY <1>1 DEF PanelState, PanelTool
<1>3. panel.stopping # m /\ panel.starting # m
  BY <1>1, PanelHas
<1>4. CASE ~granted
  BY <1>1, <1>2, <1>4, ConfirmingKeeps DEF Confirm
<1>5. CASE granted
  <2> DEFINE things == IF ShownActive(m) THEN {"stop"} ELSE {"clear"}
             c == PanelAsks("clear", m, things, TRUE, ShownActive(m))
             p == [panel EXCEPT !.confirming = NoTool, !.clearing = m]
  <2>1. BeginHandler(h, c, p)
    BY <1>5 DEF Confirm
  <2>2. /\ p \in PanelState /\ p.open = panel.open /\ p.known = panel.known /\ p.rows = panel.rows
        /\ p.loading = panel.loading /\ p.estimating = panel.estimating
        /\ p.stopping = panel.stopping /\ p.starting = panel.starting /\ p.clearing = m
        /\ p.confirming = NoTool /\ p.overwritten = panel.overwritten
    BY <1>1, <1>2 DEF PanelState
  <2>3. things \in SUBSET PanelThing /\ ShownActive(m) \in BOOLEAN
    <3>1. ShownActive(m) \in BOOLEAN
      <4>1. panel.rows \in {NoRows} \cup [ImapTools -> BOOLEAN]
        BY <1>1 DEF PanelState
      <4>2. CASE panel.rows = NoRows
        BY <4>2 DEF ShownActive, NoRows
      <4>3. CASE panel.rows \in [ImapTools -> BOOLEAN]
        BY <4>3, <1>2 DEF ShownActive
      <4> QED BY <4>1, <4>2, <4>3
    <3> QED BY <3>1 DEF PanelThing
  <2>4. /\ c \in HandlerState /\ c.kind = "clear" /\ c.of = m /\ c.things = things /\ c.polls # 0
        /\ c.saw = ShownActive(m) /\ c.on = "yes"
    <3> HIDE DEF things, m
    <3> QED BY <1>2, <2>3, PanelNumbers DEF PanelAsks, HandlerState
  <2> HIDE DEF p, c
  <2>5. HandlerSound(c)
    BY <2>4, <1>2 DEF HandlerSound
  <2>6. /\ handler[h] = NoHandler /\ handler' = [handler EXCEPT ![h] = c] /\ granted' = granted
        /\ panel' = [p EXCEPT !.loading = @ \/ "status" \in c.things, !.estimating = @ \/ "estimate" \in c.things]
    BY <2>1 DEF BeginHandler
  <2>7. /\ \A g \in Handlers : ~(handler[g].kind = "clear" /\ handler[g].on # "gone")
        /\ ~panel.overwritten => \A g \in Handlers : ~Acts(g, m)
    BY <1>1, <1>2, <1>3, Unnamed
  <2> HIDE DEF m
  <2>8. ASSUME NEW g \in Handlers, NEW n \in ImapTools
        PROVE  /\ UnderWay(g, "clear", n) => p.clearing = n
               /\ ~p.overwritten /\ UnderWay(g, "stop", n) => p.stopping = n
               /\ ~p.overwritten /\ UnderWay(g, "start", n) => p.starting = n
    <3>1. ~UnderWay(g, "clear", n)
      BY <2>7 DEF UnderWay
    <3> QED BY <3>1, <2>2, PanelHas
  <2>9. /\ p.known => DOMAIN p.rows = ImapTools
        /\ p.stopping = panel.stopping \/ (c.kind = "stop" /\ c.of = p.stopping)
        /\ p.starting = panel.starting \/ (c.kind = "start" /\ c.of = p.starting)
        /\ p.clearing = panel.clearing \/ (c.kind = "clear" /\ c.of = p.clearing)
        /\ c.kind = "clear" => p.clearing = c.of
        /\ ~p.overwritten /\ c.kind = "stop" => p.stopping = c.of
        /\ ~p.overwritten /\ c.kind = "start" => p.starting = c.of
        /\ panel.overwritten => p.overwritten
        /\ c.kind \in {"stop", "start", "clear"} /\ ~p.overwritten => \A g \in Handlers : ~Acts(g, c.of)
        /\ c.kind = "clear" => \A g \in Handlers : ~(handler[g].kind = "clear" /\ handler[g].on # "gone")
        /\ p.confirming # NoTool => p.clearing = NoTool /\ p.stopping # p.confirming /\ p.starting # p.confirming
        /\ granted' \in BOOLEAN /\ c.kind # "none" /\ p.open
    BY <1>1, <1>2, <1>3, <2>2, <2>4, <2>6, <2>7, PanelHas
  <2> QED BY <2>2, <2>4, <2>5, <2>6, <2>8, <2>9, BeginKeeps
<1> QED BY <1>4, <1>5

LEMMA CloseSectionKeeps == ASSUME PanelInv, CloseSection PROVE PanelInv'
<1>1. /\ panel' = ClosedPanel /\ granted' = granted
      /\ handler' = [h \in Handlers |-> IF handler[h] = NoHandler THEN NoHandler ELSE [handler[h] EXCEPT !.on = "gone"]]
  BY DEF CloseSection
<1>2. ASSUME NEW h \in Handlers
      PROVE  handler'[h] \in HandlerState /\ HandlerSound(handler'[h]) /\ (handler'[h].kind # "none" => handler'[h].on = "gone")
  <2>1. handler[h] \in HandlerState /\ HandlerSound(handler[h])
    BY PanelHas
  <2>2. CASE handler[h] = NoHandler
    BY <2>2, <1>1, NoHandlerIs
  <2>3. CASE handler[h] # NoHandler
    <3>1. handler'[h] = [handler[h] EXCEPT !.on = "gone"]
      BY <2>3, <1>1
    <3>2. /\ handler'[h] \in HandlerState /\ handler'[h].on = "gone"
          /\ handler'[h].kind = handler[h].kind /\ handler'[h].of = handler[h].of /\ handler'[h].things = handler[h].things
          /\ handler'[h].polls = handler[h].polls /\ handler'[h].saw = handler[h].saw
      BY <3>1, <2>1 DEF HandlerState
    <3> QED BY <3>2, <2>1 DEF HandlerSound
  <2> QED BY <2>2, <2>3
<1>3. handler' \in [Handlers -> HandlerState]
  BY <1>1, <1>2
<1>4. \A h \in Handlers, kind \in {"stop", "start", "clear"}, m \in ImapTools : ~UnderWay(h, kind, m)'
  BY <1>2 DEF UnderWay
<1>5. NoButtonStuck'
  BY <1>1, ClosedPanelIs, PanelNumbers DEF NoButtonStuck
<1>6. FieldsName'
  BY <1>4 DEF FieldsName
<1>7. NothingTwice'
  BY <1>2, <1>4 DEF NothingTwice, Acts
<1>8. ConfirmsIdle'
  BY <1>1, ClosedPanelIs DEF ConfirmsIdle
<1> QED BY <1>1, <1>2, <1>3, <1>5, <1>6, <1>7, <1>8, ClosedPanelIs, PanelHas DEF PanelInv

LEMMA PanelGrantEndsKeeps == ASSUME PanelInv, PanelGrantEnds PROVE PanelInv'
<1>1. /\ panel' = panel /\ granted' = FALSE
      /\ handler' = [h \in Handlers |-> IF handler[h].kind = "open" /\ handler[h].on = "yes"
                                         THEN [handler[h] EXCEPT !.on = "cancelled"] ELSE handler[h]]
  BY DEF PanelGrantEnds
<1>2. ASSUME NEW h \in Handlers
      PROVE  /\ handler'[h] \in HandlerState /\ HandlerSound(handler'[h])
             /\ handler'[h].kind = handler[h].kind /\ handler'[h].of = handler[h].of /\ handler'[h].things = handler[h].things
             /\ handler'[h].on = "gone" <=> handler[h].on = "gone"
  <2>1. handler[h] \in HandlerState /\ HandlerSound(handler[h])
    BY PanelHas
  <2>2. CASE ~(handler[h].kind = "open" /\ handler[h].on = "yes")
    BY <2>1, <2>2, <1>1
  <2>3. CASE handler[h].kind = "open" /\ handler[h].on = "yes"
    <3>1. handler'[h] = [handler[h] EXCEPT !.on = "cancelled"]
      BY <2>3, <1>1
    <3>2. /\ handler'[h] \in HandlerState /\ handler'[h].on = "cancelled"
          /\ handler'[h].kind = handler[h].kind /\ handler'[h].of = handler[h].of /\ handler'[h].things = handler[h].things
          /\ handler'[h].polls = handler[h].polls /\ handler'[h].saw = handler[h].saw
      BY <3>1, <2>1 DEF HandlerState
    <3>3. HandlerSound(handler'[h])
      BY <3>2, <2>1 DEF HandlerSound
    <3> QED BY <2>3, <3>2, <3>3
  <2> QED BY <2>2, <2>3
<1>3. handler' \in [Handlers -> HandlerState]
  BY <1>1, <1>2
<1>4. \A h \in Handlers, kind \in {"stop", "start", "clear"}, m \in ImapTools : UnderWay(h, kind, m)' <=> UnderWay(h, kind, m)
  BY <1>2 DEF UnderWay
<1>5. NoButtonStuck'
  <2>1. NoButtonStuck
    BY DEF PanelInv
  <2> QED BY <1>1, <1>2, <1>4, <2>1 DEF NoButtonStuck
<1>6. FieldsName' /\ ConfirmsIdle'
  BY <1>1, <1>4 DEF PanelInv, FieldsName, ConfirmsIdle
<1>7. NothingTwice'
  <2>1. NothingTwice
    BY DEF PanelInv
  <2> QED BY <1>1, <1>2, <1>4, <2>1 DEF NothingTwice, Acts
<1> QED BY <1>1, <1>2, <1>3, <1>5, <1>6, <1>7 DEF PanelInv

LEMMA GrantBeginsKeeps == ASSUME PanelInv, NEW h \in Handlers, GrantBegins(h) PROVE PanelInv'
<1>1. panel' = panel /\ granted' = TRUE
  BY DEF GrantBegins
<1>2. CASE ~panel.open
  <2>1. handler' = handler
    BY <1>2 DEF GrantBegins
  <2> QED BY <1>1, <2>1 DEF PanelInv, NoButtonStuck, FieldsName, NothingTwice, ConfirmsIdle, UnderWay, Acts
<1>3. CASE panel.open
  <2> DEFINE c == PanelAsks("open", NoTool, {"list"}, FALSE, FALSE)
  <2>1. c \in HandlerState /\ c.kind = "open" /\ c.things = {"list"} /\ c.polls # 0 /\ c.saw = FALSE /\ c.on = "yes"
    BY PanelNumbers DEF PanelAsks, HandlerState, PanelTool, PanelThing
  <2>2. handler[h] = NoHandler /\ handler' = [handler EXCEPT ![h] = c]
    BY <1>3 DEF GrantBegins
  <2> HIDE DEF c
  <2>3. HandlerSound(c)
    BY <2>1 DEF HandlerSound
  <2>4. panel \in PanelState
    BY PanelHas
  <2>5. panel' = [panel EXCEPT !.loading = @ \/ "status" \in c.things, !.estimating = @ \/ "estimate" \in c.things]
    <3>1. (panel.loading \/ "status" \in c.things) = panel.loading /\ (panel.estimating \/ "estimate" \in c.things) = panel.estimating
      BY <2>1, <2>4 DEF PanelState
    <3>2. [panel EXCEPT !.loading = panel.loading, !.estimating = panel.estimating] = panel
      BY <2>4 DEF PanelState
    <3> QED BY <1>1, <3>1, <3>2
  <2> QED BY <1>1, <1>3, <2>1, <2>2, <2>3, <2>4, <2>5, PanelHas, BeginKeeps
<1> QED BY <1>2, <1>3

-----------------------------------------------------------------------------
(* What a handler does with an answer.                                     *)

LEMMA FollowingIs ==
  ASSUME NEW c \in HandlerState, HandlerSound(c), NEW thing \in c.things, NEW ok \in BOOLEAN, NEW rows
  PROVE  LET F == Following(c, ok, thing, rows) IN
         /\ F \in SUBSET PanelThing
         /\ F \subseteq c.things \ {thing} \/ c.things = {thing}
         /\ c.things # {thing} => F = c.things \ {thing}
         /\ c.kind = "open" => F \in {{}, {"list"}, {"status"}, {"estimate"}}
         /\ c.kind = "load" => F \subseteq {"status", "estimate"}
         /\ c.kind = "stop" => F \in {{}, {"stop"}, {"pause"}, {"poll"}}
         /\ c.kind = "start" => F \in {{}, {"start"}, {"status"}}
         /\ c.kind = "clear" => F \in {{}, {"pause"}, {"clear"}} \cup SUBSET {"status", "estimate"}
         /\ c.kind = "clear" /\ thing = "stop" /\ ~ok => F = {}
         /\ thing = "poll" /\ F # {} => c.polls > 1
<1> DEFINE F == Following(c, ok, thing, rows)
<1>1. c.things \subseteq PanelThing /\ thing \in PanelThing /\ c.kind # "none" /\ c.polls \in Nat
  BY PanelNumbers DEF HandlerState, HandlerSound
<1>2. CASE c.things # {thing}
  <2>1. F = c.things \ {thing}
    BY <1>2 DEF Following
  <2>2. c.kind \in {"load", "clear"} /\ c.things \subseteq {"status", "estimate"}
    BY <1>1, <1>2 DEF HandlerSound, HandlerState
  <2> HIDE DEF F
  <2>3. F \subseteq {"status", "estimate"} /\ thing \in {"status", "estimate"}
    BY <2>1, <2>2
  <2> QED BY <1>1, <1>2, <2>1, <2>2, <2>3 DEF F
<1>3. CASE c.things = {thing} /\ c.kind = "open"
  <2>1. F = AfterOpen(c, thing)
    BY <1>3 DEF Following
  <2>2. F \in {{}, {"status"}, {"estimate"}}
    BY <2>1 DEF AfterOpen
  <2>3. thing # "poll"
    BY <1>3 DEF HandlerSound
  <2> HIDE DEF F
  <2> QED BY <1>3, <2>2, <2>3 DEF F, PanelThing
<1>4. CASE c.things = {thing} /\ c.kind = "load"
  <2>1. F = {}
    BY <1>4 DEF Following
  <2> HIDE DEF F
  <2> QED BY <1>4, <2>1 DEF F
<1>5. CASE c.things = {thing} /\ c.kind = "stop"
  <2>1. F = AfterStopHeard(c, ok, thing, rows)
    BY <1>5 DEF Following
  <2>2. thing \in {"stop", "pause", "poll"}
    BY <1>5 DEF HandlerSound
  <2>3. F \in {{}, {"pause"}, {"poll"}} /\ (thing = "poll" /\ F # {} => c.polls > 1)
    BY <2>1, <2>2 DEF AfterStopHeard
  <2> HIDE DEF F
  <2> QED BY <1>5, <2>3 DEF F, PanelThing
<1>6. CASE c.things = {thing} /\ c.kind = "start"
  <2>1. F \in {{}, {"status"}}
    BY <1>6 DEF Following
  <2>2. thing # "poll"
    BY <1>6 DEF HandlerSound
  <2> HIDE DEF F
  <2> QED BY <1>6, <2>1, <2>2 DEF F, PanelThing
<1>7. CASE c.things = {thing} /\ c.kind = "clear"
  <2>1. thing \in {"stop", "pause", "clear", "status", "estimate"}
    BY <1>7 DEF HandlerSound
  <2>2. CASE thing \in {"status", "estimate"}
    <3>1. F = {}
      BY <1>7, <2>2 DEF Following
    <3> HIDE DEF F
    <3> QED BY <1>7, <2>2, <3>1 DEF F
  <2>3. CASE thing \notin {"status", "estimate"}
    <3>1. F = AfterClear(ok, thing)
      BY <1>7, <2>3 DEF Following
    <3>2. /\ F \in {{}, {"pause"}, {"clear"}, {"status", "estimate"}}
          /\ ~ok => F = {}
      BY <3>1, <2>1, <2>3 DEF AfterClear
    <3> HIDE DEF F
    <3> QED BY <1>7, <2>1, <3>2 DEF F, PanelThing
  <2> QED BY <2>2, <2>3
<1> QED BY <1>1, <1>2, <1>3, <1>4, <1>5, <1>6, <1>7 DEF HandlerState

\* What was answered is shown, and changes no tool's field.
LEMMA HeardIs ==
  ASSUME NEW p \in PanelState, NEW ok \in BOOLEAN, NEW thing \in PanelThing, NEW rows,
         p.known => DOMAIN p.rows = ImapTools,
         ok /\ thing \in {"status", "poll"} => rows \in [ImapTools -> BOOLEAN],
         ok /\ thing = "estimate" => DOMAIN rows = ImapTools
  PROVE  LET q == Heard(p, ok, thing, rows) IN
         /\ q \in PanelState /\ q.open = p.open
         /\ q.known => DOMAIN q.rows = ImapTools
         /\ q.loading = (p.loading /\ thing # "status") /\ q.estimating = (p.estimating /\ thing # "estimate")
         /\ q.stopping = p.stopping /\ q.starting = p.starting /\ q.clearing = p.clearing
         /\ q.confirming = p.confirming /\ q.overwritten = p.overwritten
<1> DEFINE q == Heard(p, ok, thing, rows)
<1>1. CASE thing = "list"
  <2>1. q = [p EXCEPT !.listed = @ \/ ok]
    BY <1>1 DEF Heard
  <2> HIDE DEF q
  <2> QED BY <1>1, <2>1 DEF PanelState, q
<1>2. CASE thing = "status"
  <2>1. q = [p EXCEPT !.known = @ \/ ok, !.rows = IF ok THEN rows ELSE @, !.loading = FALSE]
    BY <1>2 DEF Heard
  <2> HIDE DEF q
  <2>2. CASE ok
    <3>1. q \in PanelState
      BY <1>2, <2>1, <2>2 DEF PanelState
    <3>2. DOMAIN q.rows = ImapTools
      BY <1>2, <2>1, <2>2 DEF PanelState
    <3> QED BY <1>2, <2>1, <3>1, <3>2 DEF PanelState, q
  <2>3. CASE ~ok
    BY <1>2, <2>1, <2>3 DEF PanelState, q
  <2> QED BY <2>2, <2>3
<1>3. CASE thing = "estimate"
  <2>1. q = [p EXCEPT !.estimating = FALSE, !.estimates = IF ok THEN DOMAIN rows ELSE @]
    BY <1>3 DEF Heard
  <2> HIDE DEF q
  <2> QED BY <1>3, <2>1 DEF PanelState, q
<1>4. CASE thing = "poll"
  <2>1. q = [p EXCEPT !.known = @ \/ ok, !.rows = IF ok THEN rows ELSE @]
    BY <1>4 DEF Heard
  <2> HIDE DEF q
  <2>2. CASE ok
    <3>1. q \in PanelState
      BY <1>4, <2>1, <2>2 DEF PanelState
    <3>2. DOMAIN q.rows = ImapTools
      BY <1>4, <2>1, <2>2 DEF PanelState
    <3> QED BY <1>4, <2>1, <3>1, <3>2 DEF PanelState, q
  <2>3. CASE ~ok
    BY <1>4, <2>1, <2>3 DEF PanelState, q
  <2> QED BY <2>2, <2>3
<1>5. CASE thing \in {"stop", "pause", "start", "clear"}
  <2>1. q = p
    BY <1>5 DEF Heard
  <2> HIDE DEF q
  <2> QED BY <1>5, <2>1 DEF PanelState, q
<1> QED BY <1>1, <1>2, <1>3, <1>4, <1>5 DEF PanelThing

LEMMA FinishedIs ==
  ASSUME NEW p \in PanelState, NEW kind
  PROVE  LET q == Finished(p, kind) IN
         /\ q \in PanelState /\ q.open = p.open /\ q.known = p.known /\ q.rows = p.rows
         /\ q.loading = p.loading /\ q.estimating = p.estimating
         /\ q.stopping = (IF kind = "stop" THEN NoTool ELSE p.stopping)
         /\ q.starting = (IF kind = "start" THEN NoTool ELSE p.starting)
         /\ q.clearing = (IF kind = "clear" THEN NoTool ELSE p.clearing)
         /\ q.confirming = p.confirming /\ q.overwritten = p.overwritten
<1> DEFINE q == Finished(p, kind)
<1>1. CASE kind = "stop"
  <2>1. q = [p EXCEPT !.stopping = NoTool]
    BY <1>1 DEF Finished
  <2> HIDE DEF q
  <2> QED BY <1>1, <2>1 DEF PanelState, PanelTool, q
<1>2. CASE kind = "start"
  <2>1. q = [p EXCEPT !.starting = NoTool]
    BY <1>2 DEF Finished
  <2> HIDE DEF q
  <2> QED BY <1>2, <2>1 DEF PanelState, PanelTool, q
<1>3. CASE kind = "clear"
  <2>1. q = [p EXCEPT !.clearing = NoTool]
    BY <1>3 DEF Finished
  <2> HIDE DEF q
  <2> QED BY <1>3, <2>1 DEF PanelState, PanelTool, q
<1>4. CASE kind \notin {"stop", "start", "clear"}
  <2>1. q = p
    BY <1>4 DEF Finished
  <2> HIDE DEF q
  <2> QED BY <1>4, <2>1 DEF q
<1> QED BY <1>1, <1>2, <1>3, <1>4

LEMMA HearKeeps ==
  ASSUME PanelInv, NEW h \in Handlers, NEW thing \in handler[h].things, NEW ok \in BOOLEAN, NEW rows,
         ok /\ thing \in {"status", "poll"} => rows \in [ImapTools -> BOOLEAN],
         ok /\ thing = "estimate" => DOMAIN rows = ImapTools,
         Hear(h, thing, ok, rows)
  PROVE  PanelInv'
<1> DEFINE c == handler[h]
           F == Following(c, ok, thing, rows)
           shown == Heard(panel, ok, thing, rows)
           finished == Finished(shown, c.kind)
           w == [c EXCEPT !.things = F, !.saw = @ /\ ~(thing = "stop" /\ ok),
                          !.polls = IF thing = "poll" THEN @ - 1 ELSE @, !.knows = @ \/ (thing = "list" /\ ok)]
<1>1. /\ granted' = granted
      /\ handler' = [handler EXCEPT ![h] = IF F = {} THEN NoHandler ELSE w]
      /\ panel' = CASE c.on = "gone" -> panel
                     [] c.on # "gone" /\ F = {} -> finished
                     [] OTHER -> [shown EXCEPT !.loading = @ \/ "status" \in F \ c.things,
                                               !.estimating = @ \/ "estimate" \in F \ c.things]
  BY DEF Hear
<1>2. /\ granted \in BOOLEAN /\ panel \in PanelState /\ handler \in [Handlers -> HandlerState]
      /\ panel.known => DOMAIN panel.rows = ImapTools
      /\ \A g \in Handlers : HandlerSound(handler[g])
  BY PanelHas
<1>3. c \in HandlerState /\ HandlerSound(c) /\ thing \in c.things
  BY <1>2
<1>4. c.kind # "none" /\ c.things \subseteq PanelThing /\ thing \in PanelThing
  BY <1>3 DEF HandlerSound, HandlerState
<1>5. /\ F \in SUBSET PanelThing
      /\ c.things # {thing} => F = c.things \ {thing}
      /\ c.kind = "open" => F \in {{}, {"list"}, {"status"}, {"estimate"}}
      /\ c.kind = "load" => F \subseteq {"status", "estimate"}
      /\ c.kind = "stop" => F \in {{}, {"stop"}, {"pause"}, {"poll"}}
      /\ c.kind = "start" => F \in {{}, {"start"}, {"status"}}
      /\ c.kind = "clear" => F \in {{}, {"pause"}, {"clear"}} \cup SUBSET {"status", "estimate"}
      /\ c.kind = "clear" /\ thing = "stop" /\ ~ok => F = {}
      /\ thing = "poll" /\ F # {} => c.polls > 1
  <2> HIDE DEF c
  <2> QED BY <1>3, FollowingIs
<1>6. /\ shown \in PanelState /\ shown.open = panel.open
      /\ shown.known => DOMAIN shown.rows = ImapTools
      /\ shown.loading = (panel.loading /\ thing # "status") /\ shown.estimating = (panel.estimating /\ thing # "estimate")
      /\ shown.stopping = panel.stopping /\ shown.starting = panel.starting /\ shown.clearing = panel.clearing
      /\ shown.confirming = panel.confirming /\ shown.overwritten = panel.overwritten
  BY <1>2, <1>4, HeardIs
<1> HIDE DEF shown
<1>7. /\ finished \in PanelState /\ finished.open = shown.open /\ finished.known = shown.known /\ finished.rows = shown.rows
      /\ finished.loading = shown.loading /\ finished.estimating = shown.estimating
      /\ finished.stopping = (IF c.kind = "stop" THEN NoTool ELSE shown.stopping)
      /\ finished.starting = (IF c.kind = "start" THEN NoTool ELSE shown.starting)
      /\ finished.clearing = (IF c.kind = "clear" THEN NoTool ELSE shown.clearing)
      /\ finished.confirming = shown.confirming /\ finished.overwritten = shown.overwritten
  BY <1>6, FinishedIs
<1> HIDE DEF finished, F, c
<1>8. F # {} => /\ w \in HandlerState /\ HandlerSound(w) /\ w.kind = c.kind /\ w.of = c.of /\ w.on = c.on /\ w.things = F
  <2> SUFFICES ASSUME F # {}
               PROVE  /\ w \in HandlerState /\ HandlerSound(w) /\ w.kind = c.kind /\ w.of = c.of /\ w.on = c.on /\ w.things = F
    OBVIOUS
  <2>1. c.polls \in 0..MaxPolls /\ c.polls # 0 /\ MaxPolls \in Nat /\ c.saw \in BOOLEAN /\ c.knows \in BOOLEAN
    BY <1>3, <1>4, PanelNumbers DEF HandlerState, HandlerSound
  <2> DEFINE polls == IF thing = "poll" THEN c.polls - 1 ELSE c.polls
             saw == c.saw /\ ~(thing = "stop" /\ ok)
             knows == c.knows \/ (thing = "list" /\ ok)
  <2>2. polls \in 0..MaxPolls /\ polls # 0
    BY <1>5, <2>1
  <2>3. saw \in BOOLEAN /\ knows \in BOOLEAN
    OBVIOUS
  <2>4. w = [c EXCEPT !.things = F, !.saw = saw, !.polls = polls, !.knows = knows]
    BY <1>3 DEF HandlerState
  <2>5. ~saw
    BY <1>3, <1>5, <2>1 DEF HandlerSound
  <2> HIDE DEF polls, saw, knows, w
  <2>6. /\ w \in HandlerState /\ w.kind = c.kind /\ w.of = c.of /\ w.on = c.on /\ w.things = F
        /\ w.saw = saw /\ w.polls = polls
    BY <1>3, <1>5, <2>2, <2>3, <2>4 DEF HandlerState
  <2>7. HandlerSound(w)
    BY <1>3, <1>4, <1>5, <2>2, <2>5, <2>6 DEF HandlerSound
  <2> QED BY <2>6, <2>7
<1> HIDE DEF w
<1> DEFINE n == IF F = {} THEN NoHandler ELSE w
<1>9. /\ n \in HandlerState /\ HandlerSound(n)
      /\ F = {} => n.kind = "none" /\ n.things = {}
      /\ F # {} => n.kind = c.kind /\ n.of = c.of /\ n.on = c.on /\ n.things = F
  BY <1>8, NoHandlerIs
<1>10. handler' = [handler EXCEPT ![h] = n]
  BY <1>1
<1> HIDE DEF n
<1>11. /\ handler' \in [Handlers -> HandlerState] /\ handler'[h] = n
       /\ \A g \in Handlers : g # h => handler'[g] = handler[g]
  BY <1>2, <1>9, <1>10
<1>12. \A g \in Handlers : HandlerSound(handler'[g])
  BY <1>2, <1>9, <1>11
<1>13. c = handler[h]
  BY DEF c
<1>14. ASSUME NEW g \in Handlers, NEW kind \in {"stop", "start", "clear"}, NEW m \in ImapTools
       PROVE  UnderWay(g, kind, m)' <=> UnderWay(g, kind, m) /\ ~(g = h /\ F = {})
  BY <1>9, <1>11, <1>13 DEF UnderWay
<1>15. NoButtonStuck /\ NothingTwice
  BY DEF PanelInv
<1>16. NothingTwice' \/ panel'.overwritten # panel.overwritten
  <2>1. \A g \in Handlers, m \in ImapTools : Acts(g, m)' => Acts(g, m)
    BY <1>14 DEF Acts
  <2>2. \A g \in Handlers : handler'[g].kind = "clear" /\ handler'[g].on # "gone" => handler[g].kind = "clear" /\ handler[g].on # "gone"
    BY <1>9, <1>11, <1>13
  <2> QED BY <1>15, <2>1, <2>2 DEF NothingTwice
<1>17. ~panel.open => panel = ClosedPanel /\ \A g \in Handlers : handler[g].kind # "none" => handler[g].on = "gone"
  BY DEF PanelInv
<1>18. CASE c.on = "gone"
  <2>1. panel' = panel
    BY <1>1, <1>18
  <2>2. \A g \in Handlers, kind \in {"stop", "start", "clear"}, m \in ImapTools : UnderWay(g, kind, m)' <=> UnderWay(g, kind, m)
    BY <1>13, <1>14, <1>18 DEF UnderWay
  <2>3. NoButtonStuck'
    <3>1. ASSUME NEW g \in Handlers, handler[g].on # "gone" PROVE handler'[g] = handler[g]
      BY <3>1, <1>11, <1>13, <1>18
    <3>2. /\ panel.loading => \E g \in Handlers : "status" \in handler'[g].things /\ handler'[g].on # "gone"
          /\ panel.estimating => \E g \in Handlers : "estimate" \in handler'[g].things /\ handler'[g].on # "gone"
      BY <3>1, <1>15 DEF NoButtonStuck
    <3>3. ASSUME NEW m \in ImapTools
          PROVE  /\ panel.stopping = m => \E g \in Handlers : UnderWay(g, "stop", m)'
                 /\ panel.starting = m => \E g \in Handlers : UnderWay(g, "start", m)'
                 /\ panel.clearing = m => \E g \in Handlers : UnderWay(g, "clear", m)'
      BY <2>2, <1>15 DEF NoButtonStuck
    <3> QED BY <2>1, <3>2, <3>3 DEF NoButtonStuck
  <2>4. FieldsName' /\ ConfirmsIdle'
    BY <2>1, <2>2 DEF PanelInv, FieldsName, ConfirmsIdle
  <2>5. ~panel'.open => panel' = ClosedPanel /\ \A g \in Handlers : handler'[g].kind # "none" => handler'[g].on = "gone"
    BY <2>1, <1>9, <1>11, <1>17, <1>18
  <2> QED BY <1>1, <1>2, <1>11, <1>12, <1>16, <2>1, <2>3, <2>4, <2>5 DEF PanelInv
<1>19. CASE c.on # "gone" /\ F = {}
  <2>1. panel' = finished /\ panel.open /\ c.things = {thing}
    BY <1>1, <1>3, <1>4, <1>5, <1>13, <1>17, <1>19 DEF PanelInv, PanelState
  <2>2. NothingTwice'
    BY <2>1, <1>6, <1>7, <1>16
  <2>3. NoButtonStuck'
    <3>1. ASSUME NEW m \in ImapTools
          PROVE  /\ finished.stopping = m => \E g \in Handlers : UnderWay(g, "stop", m)'
                 /\ finished.starting = m => \E g \in Handlers : UnderWay(g, "start", m)'
                 /\ finished.clearing = m => \E g \in Handlers : UnderWay(g, "clear", m)'
      <4>1. ASSUME finished.stopping = m PROVE \E g \in Handlers : UnderWay(g, "stop", m)'
        <5>1. c.kind # "stop" /\ panel.stopping = m
          BY <4>1, <1>6, <1>7, PanelNumbers
        <5>2. PICK g \in Handlers : UnderWay(g, "stop", m)
          BY <5>1, <1>15 DEF NoButtonStuck
        <5>3. g # h
          BY <5>1, <5>2, <1>13 DEF UnderWay
        <5> QED BY <5>2, <5>3, <1>14
      <4>2. ASSUME finished.starting = m PROVE \E g \in Handlers : UnderWay(g, "start", m)'
        <5>1. c.kind # "start" /\ panel.starting = m
          BY <4>2, <1>6, <1>7, PanelNumbers
        <5>2. PICK g \in Handlers : UnderWay(g, "start", m)
          BY <5>1, <1>15 DEF NoButtonStuck
        <5>3. g # h
          BY <5>1, <5>2, <1>13 DEF UnderWay
        <5> QED BY <5>2, <5>3, <1>14
      <4>3. ASSUME finished.clearing = m PROVE \E g \in Handlers : UnderWay(g, "clear", m)'
        <5>1. c.kind # "clear" /\ panel.clearing = m
          BY <4>3, <1>6, <1>7, PanelNumbers
        <5>2. PICK g \in Handlers : UnderWay(g, "clear", m)
          BY <5>1, <1>15 DEF NoButtonStuck
        <5>3. g # h
          BY <5>1, <5>2, <1>13 DEF UnderWay
        <5> QED BY <5>2, <5>3, <1>14
      <4> QED BY <4>1, <4>2, <4>3
    <3>2. finished.loading => \E g \in Handlers : "status" \in handler'[g].things /\ handler'[g].on # "gone"
      <4> SUFFICES ASSUME finished.loading PROVE \E g \in Handlers : "status" \in handler'[g].things /\ handler'[g].on # "gone"
        OBVIOUS
      <4>1. panel.loading /\ thing # "status"
        BY <1>6, <1>7
      <4>2. PICK g \in Handlers : "status" \in handler[g].things /\ handler[g].on # "gone"
        BY <4>1, <1>15 DEF NoButtonStuck
      <4>3. g # h
        BY <4>1, <4>2, <2>1, <1>13
      <4> QED BY <4>2, <4>3, <1>11
    <3>3. finished.estimating => \E g \in Handlers : "estimate" \in handler'[g].things /\ handler'[g].on # "gone"
      <4> SUFFICES ASSUME finished.estimating PROVE \E g \in Handlers : "estimate" \in handler'[g].things /\ handler'[g].on # "gone"
        OBVIOUS
      <4>1. panel.estimating /\ thing # "estimate"
        BY <1>6, <1>7
      <4>2. PICK g \in Handlers : "estimate" \in handler[g].things /\ handler[g].on # "gone"
        BY <4>1, <1>15 DEF NoButtonStuck
      <4>3. g # h
        BY <4>1, <4>2, <2>1, <1>13
      <4> QED BY <4>2, <4>3, <1>11
    <3> QED BY <2>1, <3>1, <3>2, <3>3 DEF NoButtonStuck
  <2>4. FieldsName'
    <3> SUFFICES ASSUME NEW g \in Handlers, NEW m \in ImapTools
                 PROVE  /\ UnderWay(g, "clear", m)' => finished.clearing = m
                        /\ ~finished.overwritten /\ UnderWay(g, "stop", m)' => finished.stopping = m
                        /\ ~finished.overwritten /\ UnderWay(g, "start", m)' => finished.starting = m
      BY <2>1 DEF FieldsName
    <3>1. c.kind \in {"stop", "start", "clear"} => c.of \in ImapTools /\ UnderWay(h, c.kind, c.of)
      BY <1>3, <1>13, <1>19 DEF HandlerSound, UnderWay
    <3>2. ASSUME UnderWay(g, "clear", m)' PROVE finished.clearing = m
      <4>1. UnderWay(g, "clear", m) /\ g # h
        BY <3>2, <1>14, <1>19
      <4>2. c.kind # "clear"
        BY <4>1, <1>13, <1>15, <1>19 DEF NothingTwice, UnderWay
      <4> QED BY <4>1, <4>2, <1>6, <1>7, PanelHas
    <3>3. ASSUME ~finished.overwritten, UnderWay(g, "stop", m)' PROVE finished.stopping = m
      <4>1. UnderWay(g, "stop", m) /\ g # h /\ ~panel.overwritten
        BY <3>3, <1>6, <1>7, <1>14, <1>19
      <4>2. panel.stopping = m
        BY <4>1, PanelHas
      <4>3. c.kind # "stop"
        <5> SUFFICES ASSUME c.kind = "stop" PROVE FALSE
          OBVIOUS
        <5>1. UnderWay(h, "stop", c.of) /\ c.of \in ImapTools
          BY <3>1
        <5>2. panel.stopping = c.of
          BY <4>1, <5>1, PanelHas
        <5>3. Acts(g, m) /\ Acts(h, m)
          BY <4>1, <4>2, <5>1, <5>2 DEF Acts
        <5> QED BY <4>1, <5>3, <1>15 DEF NothingTwice
      <4> QED BY <4>2, <4>3, <1>6, <1>7
    <3>4. ASSUME ~finished.overwritten, UnderWay(g, "start", m)' PROVE finished.starting = m
      <4>1. UnderWay(g, "start", m) /\ g # h /\ ~panel.overwritten
        BY <3>4, <1>6, <1>7, <1>14, <1>19
      <4>2. panel.starting = m
        BY <4>1, PanelHas
      <4>3. c.kind # "start"
        <5> SUFFICES ASSUME c.kind = "start" PROVE FALSE
          OBVIOUS
        <5>1. UnderWay(h, "start", c.of) /\ c.of \in ImapTools
          BY <3>1
        <5>2. panel.starting = c.of
          BY <4>1, <5>1, PanelHas
        <5>3. Acts(g, m) /\ Acts(h, m)
          BY <4>1, <4>2, <5>1, <5>2 DEF Acts
        <5> QED BY <4>1, <5>3, <1>15 DEF NothingTwice
      <4> QED BY <4>2, <4>3, <1>6, <1>7
    <3> QED BY <3>2, <3>3, <3>4
  <2>5. ConfirmsIdle'
    BY <2>1, <1>6, <1>7, PanelHas DEF ConfirmsIdle
  <2>6. panel' \in PanelState /\ panel'.open /\ (panel'.known => DOMAIN panel'.rows = ImapTools)
    BY <2>1, <1>6, <1>7
  <2> QED BY <1>1, <1>2, <1>11, <1>12, <2>2, <2>3, <2>4, <2>5, <2>6 DEF PanelInv
<1>20. CASE c.on # "gone" /\ F # {}
  <2> DEFINE q == [shown EXCEPT !.loading = @ \/ "status" \in F \ c.things, !.estimating = @ \/ "estimate" \in F \ c.things]
  <2>1. panel' = q /\ panel.open
    BY <1>1, <1>4, <1>13, <1>17, <1>20
  <2>2. /\ q \in PanelState /\ q.open = panel.open /\ q.known = shown.known /\ q.rows = shown.rows
        /\ q.loading = (shown.loading \/ "status" \in F \ c.things)
        /\ q.estimating = (shown.estimating \/ "estimate" \in F \ c.things)
        /\ q.stopping = panel.stopping /\ q.starting = panel.starting /\ q.clearing = panel.clearing
        /\ q.confirming = panel.confirming /\ q.overwritten = panel.overwritten
    BY <1>6 DEF PanelState
  <2> HIDE DEF q
  <2>3. \A g \in Handlers, kind \in {"stop", "start", "clear"}, m \in ImapTools : UnderWay(g, kind, m)' <=> UnderWay(g, kind, m)
    BY <1>14, <1>20
  <2>4. NoButtonStuck'
    <3>1. ASSUME NEW m \in ImapTools
          PROVE  /\ panel.stopping = m => \E g \in Handlers : UnderWay(g, "stop", m)'
                 /\ panel.starting = m => \E g \in Handlers : UnderWay(g, "start", m)'
                 /\ panel.clearing = m => \E g \in Handlers : UnderWay(g, "clear", m)'
      BY <2>3, <1>15 DEF NoButtonStuck
    <3>2. handler'[h].things = F /\ handler'[h].on # "gone"
      BY <1>9, <1>11, <1>20
    <3>3. q.loading => \E g \in Handlers : "status" \in handler'[g].things /\ handler'[g].on # "gone"
      <4>1. CASE "status" \in F \ c.things
        BY <4>1, <3>2
      <4>2. CASE shown.loading
        <5>1. panel.loading /\ thing # "status"
          BY <4>2, <1>6
        <5>2. PICK g \in Handlers : "status" \in handler[g].things /\ handler[g].on # "gone"
          BY <5>1, <1>15 DEF NoButtonStuck
        <5>3. CASE g # h
          BY <5>2, <5>3, <1>11
        <5>4. CASE g = h
          <6>1. "status" \in c.things /\ c.things # {thing}
            BY <5>1, <5>2, <5>4, <1>13
          <6> QED BY <5>1, <6>1, <3>2, <1>5
        <5> QED BY <5>3, <5>4
      <4> QED BY <4>1, <4>2, <2>2
    <3>4. q.estimating => \E g \in Handlers : "estimate" \in handler'[g].things /\ handler'[g].on # "gone"
      <4>1. CASE "estimate" \in F \ c.things
        BY <4>1, <3>2
      <4>2. CASE shown.estimating
        <5>1. panel.estimating /\ thing # "estimate"
          BY <4>2, <1>6
        <5>2. PICK g \in Handlers : "estimate" \in handler[g].things /\ handler[g].on # "gone"
          BY <5>1, <1>15 DEF NoButtonStuck
        <5>3. CASE g # h
          BY <5>2, <5>3, <1>11
        <5>4. CASE g = h
          <6>1. "estimate" \in c.things /\ c.things # {thing}
            BY <5>1, <5>2, <5>4, <1>13
          <6> QED BY <5>1, <6>1, <3>2, <1>5
        <5> QED BY <5>3, <5>4
      <4> QED BY <4>1, <4>2, <2>2
    <3> QED BY <2>1, <2>2, <3>1, <3>3, <3>4 DEF NoButtonStuck
  <2>5. FieldsName'
    <3> SUFFICES ASSUME NEW g \in Handlers, NEW m \in ImapTools
                 PROVE  /\ UnderWay(g, "clear", m)' => q.clearing = m
                        /\ ~q.overwritten /\ UnderWay(g, "stop", m)' => q.stopping = m
                        /\ ~q.overwritten /\ UnderWay(g, "start", m)' => q.starting = m
      BY <2>1 DEF FieldsName
    <3> QED BY <2>2, <2>3, PanelHas
  <2>6. NothingTwice' /\ ConfirmsIdle'
    BY <2>1, <2>2, <1>16, PanelHas DEF ConfirmsIdle
  <2>7. panel' \in PanelState /\ panel'.open /\ (panel'.known => DOMAIN panel'.rows = ImapTools)
    BY <2>1, <2>2, <1>6
  <2> QED BY <1>1, <1>2, <1>11, <1>12, <2>4, <2>5, <2>6, <2>7 DEF PanelInv
<1> QED BY <1>18, <1>19, <1>20

LEMMA PanelAnswerKeeps == ASSUME PanelInv, NEW h \in Handlers, PanelAnswer(h) PROVE PanelInv'
<1> DEFINE given(thing) == CASE thing \in {"status", "poll"} -> Statuses(handler[h])
                             [] thing = "estimate" -> {Remaining(handler[h])}
                             [] OTHER -> {NoRows}
<1>1. PICK thing \in handler[h].things :
        \/ \E rows \in given(thing) : Hear(h, thing, TRUE, rows)
        \/ Hear(h, thing, thing = "pause", NoRows)
  BY DEF PanelAnswer
<1>2. Targets(handler[h]) = ImapTools
  BY DEF Targets, NamedTools
<1>3. CASE \E rows \in given(thing) : Hear(h, thing, TRUE, rows)
  <2>1. PICK rows \in given(thing) : Hear(h, thing, TRUE, rows)
    BY <1>3
  <2>2. thing \in {"status", "poll"} => rows \in [ImapTools -> BOOLEAN]
    <3> SUFFICES ASSUME thing \in {"status", "poll"} PROVE rows \in [ImapTools -> BOOLEAN]
      OBVIOUS
    <3>1. rows \in Statuses(handler[h])
      BY <2>1
    <3>2. rows \in {[m \in ImapTools |-> m \in active] : active \in SUBSET ImapTools}
      BY <3>1, <1>2 DEF Statuses
    <3>3. PICK active \in SUBSET ImapTools : rows = [m \in ImapTools |-> m \in active]
      BY <3>2
    <3> QED BY <3>3
  <2>3. thing = "estimate" => DOMAIN rows = ImapTools
    BY <1>2, <2>1 DEF Remaining
  <2> HIDE DEF given
  <2> QED BY <2>1, <2>2, <2>3, HearKeeps
<1>4. CASE Hear(h, thing, thing = "pause", NoRows)
  <2> DEFINE ok == thing = "pause"
  <2>1. ok \in BOOLEAN /\ ~(ok /\ thing \in {"status", "poll"}) /\ ~(ok /\ thing = "estimate")
    OBVIOUS
  <2>2. Hear(h, thing, ok, NoRows)
    BY <1>4
  <2> HIDE DEF ok
  <2> QED BY <2>1, <2>2, HearKeeps
<1> QED BY <1>1, <1>3, <1>4

LEMMA PanelInvInit == ImapPanelInit => PanelInv
<1> SUFFICES ASSUME ImapPanelInit PROVE PanelInv
  OBVIOUS
<1>1. granted = TRUE /\ panel = ClosedPanel /\ handler = [h \in Handlers |-> NoHandler]
  BY DEF ImapPanelInit
<1>2. handler \in [Handlers -> HandlerState] /\ \A h \in Handlers : HandlerSound(handler[h]) /\ handler[h].kind = "none"
  BY <1>1, NoHandlerIs
<1>3. \A h \in Handlers, kind \in {"stop", "start", "clear"}, m \in ImapTools : ~UnderWay(h, kind, m)
  BY <1>2 DEF UnderWay
<1>4. NoButtonStuck
  BY <1>1, ClosedPanelIs, PanelNumbers DEF NoButtonStuck
<1>5. FieldsName /\ NothingTwice /\ ConfirmsIdle
  BY <1>1, <1>2, <1>3, ClosedPanelIs DEF FieldsName, NothingTwice, ConfirmsIdle, Acts
<1> QED BY <1>1, <1>2, <1>4, <1>5, ClosedPanelIs DEF PanelInv

LEMMA PanelInvNext == PanelInv /\ [ImapPanelNext]_sectionVars => PanelInv'
<1> SUFFICES ASSUME PanelInv, [ImapPanelNext]_sectionVars PROVE PanelInv'
  OBVIOUS
<1>1. ASSUME NEW h \in Handlers, OpenSection(h) PROVE PanelInv'
  BY <1>1, OpenSectionKeeps
<1>2. ASSUME NEW h \in Handlers, Timer(h) \/ RefreshAll(h) PROVE PanelInv'
  BY <1>2, TimerKeeps
<1>3. ASSUME NEW h \in Handlers, Confirm(h) PROVE PanelInv'
  BY <1>3, ConfirmKeeps
<1>4. ASSUME NEW h \in Handlers, GrantBegins(h) PROVE PanelInv'
  BY <1>4, GrantBeginsKeeps
<1>5. ASSUME NEW h \in Handlers, PanelAnswer(h) PROVE PanelInv'
  BY <1>5, PanelAnswerKeeps
<1>6. ASSUME NEW h \in Handlers, NEW m \in ImapTools, StopOrStart(h, m) PROVE PanelInv'
  BY <1>6, StopOrStartKeeps
<1>7. ASSUME NEW m \in ImapTools, AskToClear(m) PROVE PanelInv'
  BY <1>7, AskToClearKeeps
<1>8. CASE Cancel
  BY <1>8, CancelKeeps
<1>9. CASE CloseSection
  BY <1>9, CloseSectionKeeps
<1>10. CASE PanelGrantEnds
  BY <1>10, PanelGrantEndsKeeps
<1>11. CASE UNCHANGED sectionVars
  BY <1>11 DEF sectionVars, PanelInv, NoButtonStuck, FieldsName, NothingTwice, ConfirmsIdle, UnderWay, Acts
<1> QED BY <1>1, <1>2, <1>3, <1>4, <1>5, <1>6, <1>7, <1>8, <1>9, <1>10, <1>11 DEF ImapPanelNext

-----------------------------------------------------------------------------
(* The estimates of a tool, for any calls that overlap and any lifetime.   *)

EstimateValue == [at : Nat, read : Nat, resets : Nat, known : BOOLEAN]
EstimateCall == [step : {"none", "asked", "reading", "answered"}, since : Nat, value : EstimateValue, age : Nat, before : BOOLEAN]

\* What was read is of now or before, and not older than when it was asked for.
ValueSound(v) == v.at <= v.read /\ v.read <= moment /\ v.resets <= resets
EstimatesInv ==
  /\ moment \in Nat /\ resets \in Nat /\ kept \in EstimateValue /\ crossed \in BOOLEAN
  /\ estimate \in [Estimates -> EstimateCall]
  /\ ValueSound(kept)
  /\ ~crossed /\ kept.known => kept.resets = resets
  /\ EstimatesCorrect
  /\ \A e \in Estimates :
       /\ estimate[e].since <= resets
       /\ estimate[e].step = "asked" => estimate[e].value.at <= moment
       /\ estimate[e].step = "reading" => ValueSound(estimate[e].value) /\ estimate[e].since <= estimate[e].value.resets
       /\ estimate[e].step = "reading" /\ ~crossed => estimate[e].value.resets = resets

LEMMA NotAskedIs == /\ NotAsked \in EstimateCall /\ NotAsked.step = "none" /\ NotAsked.since = 0 /\ NotAsked.age = 0 /\ NotAsked.before = FALSE
                    /\ NoValue \in EstimateValue /\ NoValue.at = 0 /\ NoValue.read = 0 /\ NoValue.resets = 0 /\ ~NoValue.known
BY DEF NotAsked, NoValue, EstimateCall, EstimateValue

\* One call is at a new stage.
LEMMA EstimateStep ==
  ASSUME EstimatesInv, NEW e \in Estimates, NEW c \in EstimateCall,
         estimate' = [estimate EXCEPT ![e] = c], moment' = moment, resets' = resets, crossed' = crossed,
         kept' \in EstimateValue, ValueSound(kept'), ~crossed /\ kept'.known => kept'.resets = resets,
         c.age < Lifetime, ~crossed => ~c.before, c.since <= resets,
         c.step = "asked" => c.value.at <= moment,
         c.step = "reading" => ValueSound(c.value) /\ c.since <= c.value.resets /\ (~crossed => c.value.resets = resets)
  PROVE  EstimatesInv'
<1>1. estimate \in [Estimates -> EstimateCall]
  BY DEF EstimatesInv
<1>2. /\ estimate' \in [Estimates -> EstimateCall] /\ estimate'[e] = c
      /\ \A f \in Estimates : f # e => estimate'[f] = estimate[f]
  BY <1>1
<1>3. EstimatesCorrect'
  <2>1. EstimatesCorrect
    BY DEF EstimatesInv
  <2> QED BY <2>1, <1>2 DEF EstimatesCorrect, EstimatesAreRecent, EstimatesAreOfNow
<1>4. ValueSound(kept)'
  BY DEF ValueSound
<1>5. ASSUME NEW f \in Estimates
      PROVE  /\ estimate'[f].since <= resets
             /\ estimate'[f].step = "asked" => estimate'[f].value.at <= moment
             /\ estimate'[f].step = "reading" => ValueSound(estimate'[f].value) /\ estimate'[f].since <= estimate'[f].value.resets
             /\ estimate'[f].step = "reading" /\ ~crossed => estimate'[f].value.resets = resets
  <2>1. CASE f = e
    BY <2>1, <1>2
  <2>2. CASE f # e
    <3>1. estimate'[f] = estimate[f]
      BY <2>2, <1>2
    <3> QED BY <3>1 DEF EstimatesInv
  <2> QED BY <2>1, <2>2
<1>6. \A f \in Estimates :
       /\ estimate'[f].since <= resets'
       /\ estimate'[f].step = "asked" => estimate'[f].value.at <= moment'
       /\ estimate'[f].step = "reading" => ValueSound(estimate[f].value)' /\ estimate'[f].since <= estimate'[f].value.resets
       /\ estimate'[f].step = "reading" /\ ~crossed' => estimate'[f].value.resets = resets'
  BY <1>5 DEF ValueSound
<1>7. moment' \in Nat /\ resets' \in Nat /\ crossed' \in BOOLEAN /\ (~crossed' /\ kept'.known => kept'.resets = resets')
  BY DEF EstimatesInv
<1> QED BY <1>2, <1>3, <1>4, <1>6, <1>7 DEF EstimatesInv

LEMMA EstimatesInvNext == EstimatesInv /\ [EstimatesNext]_estimateVars => EstimatesInv'
<1> SUFFICES ASSUME EstimatesInv, [EstimatesNext]_estimateVars PROVE EstimatesInv'
  OBVIOUS
<1>1. /\ moment \in Nat /\ resets \in Nat /\ kept \in EstimateValue /\ crossed \in BOOLEAN
      /\ estimate \in [Estimates -> EstimateCall]
      /\ ValueSound(kept) /\ (~crossed /\ kept.known => kept.resets = resets)
      /\ EstimatesCorrect /\ Lifetime \in Nat /\ Lifetime # 0
  BY PanelNumbers DEF EstimatesInv
<1>2. ASSUME NEW e \in Estimates, NEW force \in BOOLEAN, AskForEstimate(e, force) PROVE EstimatesInv'
  <2>1. /\ moment' = moment /\ resets' = resets /\ kept' = kept /\ crossed' = crossed
    BY <1>2 DEF AskForEstimate
  <2>2. CASE Fresh /\ ~force
    <3> DEFINE c == [NotAsked EXCEPT !.step = "answered", !.age = moment - kept.read, !.before = kept.resets < resets]
    <3>1. estimate' = [estimate EXCEPT ![e] = c]
      BY <1>2, <2>2 DEF AskForEstimate
    <3>2. /\ kept.at \in Nat /\ kept.read \in Nat /\ kept.resets \in Nat /\ kept.known
          /\ kept.at <= kept.read /\ kept.read <= moment /\ moment - kept.at < Lifetime
      BY <1>1, <2>2 DEF Fresh, EstimateValue, ValueSound
    <3>3. moment - kept.read \in Nat /\ moment - kept.read < Lifetime /\ (kept.resets < resets) \in BOOLEAN
      BY <1>1, <3>2
    <3>4. ~crossed => ~(kept.resets < resets)
      BY <1>1, <3>2
    <3>5. /\ c \in EstimateCall /\ c.step = "answered" /\ c.age = moment - kept.read
          /\ c.before = (kept.resets < resets) /\ c.since = 0
      BY <3>3, NotAskedIs DEF EstimateCall
    <3> HIDE DEF c
    <3>6. c.age < Lifetime /\ (~crossed => ~c.before) /\ c.since <= resets
      BY <1>1, <3>3, <3>4, <3>5
    <3> QED BY <1>1, <2>1, <3>1, <3>5, <3>6, EstimateStep
  <2>3. CASE ~(Fresh /\ ~force)
    <3> DEFINE c == [NotAsked EXCEPT !.step = "asked", !.since = resets, !.value.at = moment]
    <3>1. estimate' = [estimate EXCEPT ![e] = c]
      BY <1>2, <2>3 DEF AskForEstimate
    <3>2. NotAsked.value \in EstimateValue
      BY NotAskedIs DEF EstimateCall
    <3>3. /\ c \in EstimateCall /\ c.step = "asked" /\ c.age = 0 /\ c.before = FALSE /\ c.since = resets /\ c.value.at = moment
      BY <1>1, <3>2, NotAskedIs DEF EstimateCall, EstimateValue
    <3> HIDE DEF c
    <3>4. c.age < Lifetime /\ (~crossed => ~c.before) /\ c.since <= resets /\ c.value.at <= moment
      BY <1>1, <3>3
    <3> QED BY <1>1, <2>1, <3>1, <3>3, <3>4, EstimateStep
  <2> QED BY <2>2, <2>3
<1>3. ASSUME NEW e \in Estimates, ReadFolders(e) PROVE EstimatesInv'
  <2> DEFINE v == [at |-> estimate[e].value.at, read |-> moment, resets |-> resets, known |-> TRUE]
             c == [estimate[e] EXCEPT !.step = "reading", !.value = v]
  <2>1. /\ moment' = moment /\ resets' = resets /\ kept' = kept /\ crossed' = crossed /\ estimate[e].step = "asked"
        /\ estimate' = [estimate EXCEPT ![e] = c]
    BY <1>1, <1>3 DEF ReadFolders
  <2>2. /\ estimate[e] \in EstimateCall /\ estimate[e].value \in EstimateValue /\ estimate[e].value.at \in Nat
        /\ estimate[e].value.at <= moment /\ estimate[e].since <= resets
    BY <1>1, <2>1 DEF EstimatesInv, EstimateCall, EstimateValue
  <2>3. v \in EstimateValue /\ v.at <= v.read /\ v.read = moment /\ v.resets = resets
    BY <1>1, <2>2 DEF EstimateValue
  <2> HIDE DEF v
  <2>4. /\ c \in EstimateCall /\ c.step = "reading" /\ c.age = estimate[e].age /\ c.before = estimate[e].before
        /\ c.since = estimate[e].since /\ c.value = v
    BY <2>2, <2>3 DEF EstimateCall
  <2> HIDE DEF c
  <2>5. ValueSound(c.value)
    BY <1>1, <2>3, <2>4 DEF ValueSound
  <2>6. c.age < Lifetime /\ (~crossed => ~c.before)
    BY <1>1, <2>4 DEF EstimatesCorrect, EstimatesAreRecent, EstimatesAreOfNow
  <2> QED BY <1>1, <2>1, <2>2, <2>3, <2>4, <2>5, <2>6, EstimateStep
<1>4. ASSUME NEW e \in Estimates, Estimated(e) PROVE EstimatesInv'
  <2> DEFINE b == estimate[e].value.resets < estimate[e].since
             c == [NotAsked EXCEPT !.step = "answered", !.before = b]
  <2>1. /\ moment' = moment /\ resets' = resets /\ kept' = estimate[e].value /\ crossed' = crossed /\ estimate[e].step = "reading"
        /\ estimate' = [estimate EXCEPT ![e] = c]
    BY <1>4 DEF Estimated
  <2>2. /\ estimate[e] \in EstimateCall /\ estimate[e].value \in EstimateValue
        /\ ValueSound(estimate[e].value) /\ estimate[e].since <= estimate[e].value.resets
        /\ ~crossed => estimate[e].value.resets = resets
    BY <1>1, <2>1 DEF EstimatesInv, EstimateCall
  <2>3. estimate[e].value.resets \in Nat /\ estimate[e].since \in Nat
    BY <2>2 DEF EstimateCall, EstimateValue
  <2>4. b = FALSE
    BY <2>2, <2>3
  <2> HIDE DEF b
  <2>5. /\ c \in EstimateCall /\ c.step = "answered" /\ c.age = 0 /\ c.before = FALSE /\ c.since = 0
    BY <2>4, NotAskedIs DEF EstimateCall
  <2> HIDE DEF c
  <2>6. c.age < Lifetime /\ (~crossed => ~c.before) /\ c.since <= resets
    BY <1>1, <2>5
  <2>7. kept' \in EstimateValue /\ ValueSound(kept') /\ (~crossed /\ kept'.known => kept'.resets = resets)
    BY <2>1, <2>2
  <2> QED BY <2>1, <2>5, <2>6, <2>7, EstimateStep
<1>5. ASSUME NEW e \in Estimates, EstimateShown(e) PROVE EstimatesInv'
  <2>1. /\ moment' = moment /\ resets' = resets /\ kept' = kept /\ crossed' = crossed
        /\ estimate' = [estimate EXCEPT ![e] = NotAsked]
    BY <1>5 DEF EstimateShown
  <2>2. NotAsked.age < Lifetime /\ (~crossed => ~NotAsked.before) /\ NotAsked.since <= resets
    BY <1>1, NotAskedIs
  <2> QED BY <1>1, <2>1, <2>2, NotAskedIs, EstimateStep
<1>6. CASE ResetEstimates
  <2>1. /\ moment' = moment /\ resets' = resets + 1 /\ kept' = NoValue /\ estimate' = estimate
        /\ crossed' = (crossed \/ \E e \in Estimates : estimate[e].step = "reading")
    BY <1>6 DEF ResetEstimates
  <2>2. EstimatesCorrect'
    BY <1>1, <2>1 DEF EstimatesCorrect, EstimatesAreRecent, EstimatesAreOfNow
  <2>3. ASSUME NEW e \in Estimates
        PROVE  /\ estimate[e].since <= resets + 1
               /\ estimate[e].step = "asked" => estimate[e].value.at <= moment
               /\ estimate[e].step = "reading" => ValueSound(estimate[e].value)' /\ estimate[e].since <= estimate[e].value.resets
               /\ estimate[e].step = "reading" /\ ~crossed' => estimate[e].value.resets = resets + 1
    <3>1. estimate[e] \in EstimateCall /\ estimate[e].value \in EstimateValue /\ estimate[e].since \in Nat
      BY <1>1 DEF EstimateCall
    <3>2. estimate[e].value.resets \in Nat
      BY <3>1 DEF EstimateValue
    <3>3. /\ estimate[e].since <= resets
          /\ estimate[e].step = "asked" => estimate[e].value.at <= moment
          /\ estimate[e].step = "reading" => ValueSound(estimate[e].value) /\ estimate[e].since <= estimate[e].value.resets
      BY DEF EstimatesInv
    <3>4. estimate[e].since <= resets + 1
      BY <1>1, <3>1, <3>3
    <3>5. estimate[e].step = "reading" => crossed'
      BY <2>1
    <3>6. estimate[e].step = "reading" => ValueSound(estimate[e].value)'
      BY <1>1, <2>1, <3>2, <3>3 DEF ValueSound
    <3> QED BY <3>3, <3>4, <3>5, <3>6
  <2>4. ValueSound(kept)' /\ ~kept'.known /\ kept' \in EstimateValue
    BY <1>1, <2>1, NotAskedIs DEF ValueSound
  <2>5. resets' \in Nat /\ moment' \in Nat /\ crossed' \in BOOLEAN /\ estimate' \in [Estimates -> EstimateCall]
    BY <1>1, <2>1
  <2> QED BY <2>1, <2>2, <2>3, <2>4, <2>5 DEF EstimatesInv
<1>7. CASE TimePasses
  <2>1. moment' = moment + 1 /\ UNCHANGED <<resets, kept, estimate, crossed>>
    BY <1>7 DEF TimePasses
  <2>2. ASSUME NEW v \in EstimateValue, ValueSound(v) PROVE v.at <= v.read /\ v.read <= moment + 1 /\ v.resets <= resets
    BY <1>1, <2>2 DEF EstimateValue, ValueSound
  <2>3. ValueSound(kept)'
    BY <1>1, <2>1, <2>2 DEF ValueSound
  <2>4. ASSUME NEW e \in Estimates
        PROVE  /\ estimate[e].since <= resets
               /\ estimate[e].step = "asked" => estimate[e].value.at <= moment + 1
               /\ estimate[e].step = "reading" => ValueSound(estimate[e].value)' /\ estimate[e].since <= estimate[e].value.resets
               /\ estimate[e].step = "reading" /\ ~crossed => estimate[e].value.resets = resets
    <3>1. estimate[e].value \in EstimateValue
      BY <1>1 DEF EstimateCall
    <3>2. estimate[e].value.at \in Nat
      BY <3>1 DEF EstimateValue
    <3>3. /\ estimate[e].since <= resets
          /\ estimate[e].step = "asked" => estimate[e].value.at <= moment
          /\ estimate[e].step = "reading" => ValueSound(estimate[e].value) /\ estimate[e].since <= estimate[e].value.resets
          /\ estimate[e].step = "reading" /\ ~crossed => estimate[e].value.resets = resets
      BY DEF EstimatesInv
    <3>4. estimate[e].step = "asked" => estimate[e].value.at <= moment + 1
      BY <1>1, <3>2, <3>3
    <3>5. estimate[e].step = "reading" => ValueSound(estimate[e].value)'
      BY <2>1, <2>2, <3>1, <3>3 DEF ValueSound
    <3> QED BY <3>3, <3>4, <3>5
  <2>5. EstimatesCorrect'
    BY <1>1, <2>1 DEF EstimatesCorrect, EstimatesAreRecent, EstimatesAreOfNow
  <2> QED BY <1>1, <2>1, <2>3, <2>4, <2>5 DEF EstimatesInv
<1>8. CASE UNCHANGED estimateVars
  BY <1>8 DEF estimateVars, EstimatesInv, ValueSound, EstimatesCorrect, EstimatesAreRecent, EstimatesAreOfNow
<1> QED BY <1>2, <1>3, <1>4, <1>5, <1>6, <1>7, <1>8 DEF EstimatesNext

LEMMA EstimatesInvInit == EstimatesInit => EstimatesInv
<1> SUFFICES ASSUME EstimatesInit PROVE EstimatesInv
  OBVIOUS
<1>1. moment = 0 /\ resets = 0 /\ kept = NoValue /\ crossed = FALSE /\ estimate = [e \in Estimates |-> NotAsked]
  BY DEF EstimatesInit
<1>2. Lifetime \in Nat /\ Lifetime # 0
  BY PanelNumbers
<1>3. EstimatesCorrect
  BY <1>1, <1>2, NotAskedIs DEF EstimatesCorrect, EstimatesAreRecent, EstimatesAreOfNow
<1>4. ValueSound(kept)
  BY <1>1, NotAskedIs DEF ValueSound
<1>5. estimate \in [Estimates -> EstimateCall] /\ \A e \in Estimates : estimate[e].step = "none" /\ estimate[e].since = 0
  BY <1>1, NotAskedIs
<1>6. moment \in Nat /\ resets \in Nat /\ kept \in EstimateValue /\ crossed \in BOOLEAN /\ ~kept.known
  BY <1>1, NotAskedIs
<1>7. \A e \in Estimates : estimate[e].since <= resets
  BY <1>1, <1>5
<1> QED BY <1>3, <1>4, <1>5, <1>6, <1>7 DEF EstimatesInv

\* However the panel's handlers overlap, whatever fails, and whenever the panel closes
\* or the grant ends: no button is left disabled, no tool is worked on twice, no index
\* is cleared ahead of its crawl's stop, and what is shown is complete; and an
\* estimate given is recent and not of before a crawl or a clearing.
THEOREM ImapPanelIsCorrect == ImapPanelSpec /\ EstimatesSpec => []ImapPanelCorrect
<1>1. PanelInv /\ EstimatesInv => ImapPanelCorrect
  BY PanelCorrectFollows DEF ImapPanelCorrect, EstimatesInv
<1>2. ImapPanelSpec => []PanelInv
  BY PanelInvInit, PanelInvNext, PTL DEF ImapPanelSpec
<1>3. EstimatesSpec => []EstimatesInv
  BY EstimatesInvInit, EstimatesInvNext, PTL DEF EstimatesSpec
<1> QED BY <1>1, <1>2, <1>3, PTL

-----------------------------------------------------------------------------
(* Smallest elements.                                                      *)

LEMMA SmallestExists ==
  ASSUME NEW S \in SUBSET Nat, S # {}
  PROVE  \E i \in S : \A j \in S : i <= j
<1>1. OpToRel(<, Nat) = {ss \in Nat \X Nat : ss[1] < ss[2]}
  BY Zenon DEF OpToRel
<1>2. IsWellFoundedOn({ss \in Nat \X Nat : ss[1] < ss[2]}, Nat)
  BY <1>1, NatLessThanWellFounded, Zenon
<1>3. PICK i \in S : \A j \in S : ~ (<<j, i>> \in {ss \in Nat \X Nat : ss[1] < ss[2]})
  BY <1>2, WFMin
<1>4. ASSUME NEW j \in S PROVE i <= j
  <2>1. i \in Nat /\ j \in Nat /\ <<j, i>> \in Nat \X Nat
    OBVIOUS
  <2>2. ~ (<<j, i>>[1] < <<j, i>>[2])
    BY <1>3, <2>1
  <2> QED BY <2>1, <2>2
<1> QED BY <1>4

LEMMA MinIs ==
  ASSUME NEW S \in SUBSET Nat, S # {}
  PROVE  Min(S) \in S /\ \A j \in S : Min(S) <= j
<1>1. \E i \in S : \A j \in S : i <= j
  BY SmallestExists
<1> QED BY <1>1 DEF Min

-----------------------------------------------------------------------------
(* The memory panel, for any memories and any number of requests that      *)
(* overlap.                                                                *)

MemoKind == {"health", "health, then list", "list", "search", "detail", "save", "delete"}
MemoSpinner == {"health", "list", "search", "detail", "save", "delete"}
MemoOrNone == Memos \cup {NoMemo}
MemoPanel == [open : BOOLEAN, available : BOOLEAN, loading : SUBSET MemoSpinner, memories : SUBSET Memos,
              results : SUBSET MemoOrNone, selected : MemoOrNone, form : MemoOrNone, target : MemoOrNone]
MemoAsk == [kind : MemoKind \cup {"none"}, of : MemoOrNone, form : MemoOrNone, at : {"free", "asked", "done"},
            got : SUBSET Memos, since : SUBSET Memos]

\* What a form was filled from is what is selected.
FormOfSelected(p) == p.selected # NoMemo /\ p.form # NoMemo => p.form = p.selected

\* Of a request: there is one while it is under way; it saves the form of its
\* own memory; a memory that was deleted is gone from the tool when its deletion
\* is answered; and what else is answered was not known to be gone, unless it
\* was told so since.
AskSound(a, saved, told) ==
  /\ a.at = "free" => a = NoAsk
  /\ a.at # "free" => a.kind # "none"
  /\ a.kind = "save" => a.form = a.of
  /\ a.kind \in {"detail", "save", "delete"} => a.of \in Memos
  /\ a.at = "done" => a.kind \notin {"health", "health, then list"}
  /\ a.at = "done" /\ a.kind = "delete" => a.of \notin saved
  /\ a.at = "done" /\ a.kind \in {"detail", "save"} => a.got = {a.of}
  /\ a.at = "done" /\ a.kind # "delete" => a.got \cap told \subseteq a.since

MemoInv ==
  /\ savedMemos \subseteq Memos /\ memoPanel \in MemoPanel /\ asks \in [MemoSlots -> MemoAsk] /\ gone \subseteq Memos
  /\ FormOfSelected(memoPanel)
  /\ gone \cap savedMemos = {}
  /\ DeletedIsGone /\ SpinnersEnd
  /\ \A s \in MemoSlots : AskSound(asks[s], savedMemos, gone)

LEMMA NoMemoNew == NoMemo \notin Memos /\ MemoSlots \subseteq Nat
BY MemoryPanelAssumption DEF NoMemo

LEMMA NoAskIs == NoAsk \in MemoAsk /\ \A saved, told : AskSound(NoAsk, saved, told)
BY DEF NoAsk, MemoAsk, MemoOrNone, AskSound

LEMMA FreeIs == FreeSlots \subseteq MemoSlots /\ (FreeSlots # {} => Min(FreeSlots) \in FreeSlots)
<1>1. FreeSlots \in SUBSET MemoSlots /\ FreeSlots \in SUBSET Nat
  BY NoMemoNew DEF FreeSlots
<1> QED BY <1>1, MinIs

\* A new request.
LEMMA NewAskIs ==
  ASSUME NEW kind \in MemoKind, NEW of \in MemoOrNone, NEW form \in MemoOrNone,
         kind = "save" => form = of,
         kind \in {"detail", "save", "delete"} => of \in Memos
  PROVE  /\ NewAsk(kind, of, form) \in MemoAsk
         /\ NewAsk(kind, of, form).kind = kind /\ NewAsk(kind, of, form).at = "asked"
         /\ \A saved, told : AskSound(NewAsk(kind, of, form), saved, told)
<1> DEFINE a == NewAsk(kind, of, form)
<1>1. NoAsk \in MemoAsk
  BY NoAskIs
<1>2. a \in MemoAsk
  BY <1>1 DEF NewAsk, MemoAsk
<1>3. a.kind = kind /\ a.of = of /\ a.form = form /\ a.at = "asked"
  BY <1>1 DEF NewAsk, MemoAsk
<1> HIDE DEF a
<1>4. \A saved, told : AskSound(a, saved, told)
  BY <1>3 DEF AskSound, MemoKind
<1> QED BY <1>2, <1>3, <1>4 DEF a

\* The kinds that spin.
LEMMA SpinnerIs ==
  ASSUME NEW kind \in MemoKind
  PROVE  LoadingKind(kind) \in MemoSpinner /\ (kind # "health, then list" => LoadingKind(kind) = kind)
BY DEF MemoKind, LoadingKind, MemoSpinner

\* Something of the panel is known not to show what is gone, or it shows less
\* than before.
ShowsNoGone(p, told) == \A m \in told : m \notin p.memories \cup p.results \cup {p.selected}

LEMMA LoadingIs ==
  ASSUME NEW p \in MemoPanel, NEW kind \in MemoSpinner
  PROVE  /\ Loading(p, kind) \in MemoPanel /\ Loading(p, kind).loading = p.loading \cup {kind}
         /\ Loading(p, kind).memories = p.memories /\ Loading(p, kind).results = p.results
         /\ Loading(p, kind).selected = p.selected /\ Loading(p, kind).form = p.form
BY DEF Loading, MemoPanel

LEMMA EndedIs ==
  ASSUME NEW p \in MemoPanel, NEW kind
  PROVE  /\ Ended(p, kind) \in MemoPanel /\ Ended(p, kind).loading = p.loading \ {kind}
         /\ Ended(p, kind).memories = p.memories /\ Ended(p, kind).results = p.results
         /\ Ended(p, kind).selected = p.selected /\ Ended(p, kind).form = p.form
BY DEF Ended, MemoPanel

LEMMA ListAskedIs ==
  ASSUME NEW p \in MemoPanel
  PROVE  /\ ListAsked(p) \in MemoPanel /\ ListAsked(p).loading = p.loading
         /\ ListAsked(p).memories = p.memories /\ ListAsked(p).results = {NoMemo}
         /\ ListAsked(p).selected = p.selected /\ ListAsked(p).form = p.form
BY DEF ListAsked, MemoPanel, NotSearched, MemoOrNone

\* A request is made of a panel that shows no more than before.
LEMMA AsksKeepsInv ==
  ASSUME MemoInv, NEW p \in MemoPanel, p.loading \subseteq memoPanel.loading,
         FormOfSelected(p), ShowsNoGone(p, gone),
         NEW kind \in MemoKind, NEW of \in MemoOrNone, NEW form \in MemoOrNone,
         kind = "save" => form = of,
         kind \in {"detail", "save", "delete"} => of \in Memos,
         Asks(p, kind, of, form)
  PROVE  MemoInv'
<1> DEFINE s == Min(FreeSlots)
           a == NewAsk(kind, of, form)
           q == Loading(p, LoadingKind(kind))
<1>1. s \in MemoSlots /\ asks[s].at = "free"
  BY FreeIs DEF Asks, FreeSlots
<1>2. /\ asks' = [asks EXCEPT ![s] = a] /\ memoPanel' = q
      /\ savedMemos' = savedMemos /\ gone' = gone
  BY DEF Asks, AsksWith
<1>3. /\ a \in MemoAsk /\ a.kind = kind /\ \A saved, told : AskSound(a, saved, told)
  BY NewAskIs
<1>4. LoadingKind(kind) \in MemoSpinner
  BY SpinnerIs
<1>5. /\ q \in MemoPanel /\ q.loading = p.loading \cup {LoadingKind(kind)}
      /\ q.memories = p.memories /\ q.results = p.results /\ q.selected = p.selected /\ q.form = p.form
  BY <1>4, LoadingIs
<1>6. asks \in [MemoSlots -> MemoAsk] /\ SpinnersEnd /\ \A t \in MemoSlots : AskSound(asks[t], savedMemos, gone)
  BY DEF MemoInv
<1>7. asks[s].kind = "none"
  <2>1. AskSound(asks[s], savedMemos, gone)
    BY <1>1, <1>6
  <2>2. asks[s] = NoAsk
    BY <2>1, <1>1 DEF AskSound
  <2> QED BY <2>2 DEF NoAsk
<1> HIDE DEF s, a, q
<1>8. asks' \in [MemoSlots -> MemoAsk] /\ asks'[s] = a /\ \A t \in MemoSlots : t # s => asks'[t] = asks[t]
  BY <1>1, <1>2, <1>3, <1>6
<1>9. SpinnersEnd'
  <2> SUFFICES ASSUME NEW k \in q.loading PROVE \E t \in MemoSlots : LoadingKind(asks'[t].kind) = k
    BY <1>2 DEF SpinnersEnd
  <2>1. CASE k = LoadingKind(kind)
    BY <2>1, <1>1, <1>3, <1>8
  <2>2. CASE k \in memoPanel.loading
    <3>1. PICK t \in MemoSlots : LoadingKind(asks[t].kind) = k
      BY <2>2, <1>6 DEF SpinnersEnd
    <3>2. memoPanel.loading \subseteq MemoSpinner
      BY DEF MemoInv, MemoPanel
    <3>3. t # s
      BY <1>7, <2>2, <3>1, <3>2 DEF LoadingKind, MemoSpinner
    <3> QED BY <3>1, <3>3, <1>8
  <2> QED BY <2>1, <2>2, <1>5
<1>10. DeletedIsGone'
  BY <1>2, <1>5 DEF DeletedIsGone, ShowsNoGone
<1>11. FormOfSelected(memoPanel)'
  BY <1>2, <1>5 DEF FormOfSelected
<1>12. \A t \in MemoSlots : AskSound(asks[t], savedMemos, gone)'
  BY <1>2, <1>3, <1>6, <1>8
<1>13. savedMemos' \subseteq Memos /\ gone' \subseteq Memos /\ (gone \cap savedMemos)' = {}
  BY <1>2 DEF MemoInv
<1>14. memoPanel' \in MemoPanel
  BY <1>2, <1>5
<1> QED BY <1>8, <1>9, <1>10, <1>11, <1>12, <1>13, <1>14 DEF MemoInv

\* What is taken from the panel itself.
LEMMA PanelFacts ==
  ASSUME MemoInv
  PROVE  /\ memoPanel \in MemoPanel /\ FormOfSelected(memoPanel) /\ ShowsNoGone(memoPanel, gone)
         /\ memoPanel.selected \in MemoOrNone /\ memoPanel.form \in MemoOrNone /\ memoPanel.target \in MemoOrNone
         /\ NoMemo \in MemoOrNone
         /\ FormOfSelected(ListAsked(memoPanel)) /\ ShowsNoGone(ListAsked(memoPanel), gone)
         /\ gone \subseteq Memos
<1>1. memoPanel \in MemoPanel /\ FormOfSelected(memoPanel) /\ ShowsNoGone(memoPanel, gone) /\ gone \subseteq Memos
  BY DEF MemoInv, ShowsNoGone, DeletedIsGone
<1>2. FormOfSelected(ListAsked(memoPanel))
  BY <1>1, ListAskedIs DEF FormOfSelected
<1>3. ShowsNoGone(ListAsked(memoPanel), gone)
  BY <1>1, ListAskedIs, NoMemoNew DEF ShowsNoGone
<1> QED BY <1>1, <1>2, <1>3 DEF MemoPanel, MemoOrNone

\* A panel of another selection, dialog or contents, with the requests as they were.
LEMMA PanelKeepsInv ==
  ASSUME MemoInv, memoPanel' \in MemoPanel, memoPanel'.loading = memoPanel.loading,
         FormOfSelected(memoPanel)', ShowsNoGone(memoPanel, gone)',
         UNCHANGED <<savedMemos, asks, gone>>
  PROVE  MemoInv'
<1>1. DeletedIsGone' /\ SpinnersEnd'
  BY DEF MemoInv, DeletedIsGone, ShowsNoGone, SpinnersEnd
<1>2. \A s \in MemoSlots : AskSound(asks[s], savedMemos, gone)'
  BY DEF MemoInv
<1> QED BY <1>1, <1>2 DEF MemoInv

\* What the user does.
LEMMA OpenMemoriesKeeps == MemoInv /\ OpenMemories => MemoInv'
<1> SUFFICES ASSUME MemoInv, OpenMemories PROVE MemoInv'
  OBVIOUS
<1> DEFINE p == [ClosedMemories EXCEPT !.open = TRUE]
<1>1. /\ p \in MemoPanel /\ p.loading = {} /\ p.memories = {} /\ p.results = {NoMemo}
      /\ p.selected = NoMemo /\ p.form = NoMemo
  BY DEF ClosedMemories, MemoPanel, MemoOrNone, NotSearched
<1>2. NoMemo \in MemoOrNone /\ gone \subseteq Memos
  BY PanelFacts
<1>3. Asks(p, "health, then list", NoMemo, NoMemo)
  BY DEF OpenMemories
<1> HIDE DEF p
<1>4. FormOfSelected(p) /\ ShowsNoGone(p, gone) /\ p.loading \subseteq memoPanel.loading
  BY <1>1, <1>2, NoMemoNew DEF FormOfSelected, ShowsNoGone
<1>5. "health, then list" \in MemoKind
  BY DEF MemoKind
<1> QED BY <1>1, <1>2, <1>3, <1>4, <1>5, AsksKeepsInv

LEMMA CloseMemoriesKeeps == MemoInv /\ CloseMemories => MemoInv'
<1> SUFFICES ASSUME MemoInv, CloseMemories PROVE MemoInv'
  OBVIOUS
<1>1. /\ memoPanel' = ClosedMemories /\ asks' = [s \in MemoSlots |-> NoAsk] /\ gone' = {}
      /\ savedMemos' = savedMemos /\ savedMemos \subseteq Memos
  BY DEF CloseMemories, MemoInv
<1>2. memoPanel' \in MemoPanel /\ memoPanel'.loading = {} /\ FormOfSelected(memoPanel)'
  BY <1>1 DEF ClosedMemories, MemoPanel, MemoOrNone, NotSearched, FormOfSelected
<1>3. asks' \in [MemoSlots -> MemoAsk] /\ \A s \in MemoSlots : AskSound(asks[s], savedMemos, gone)'
  BY <1>1, NoAskIs
<1> QED BY <1>1, <1>2, <1>3 DEF MemoInv, DeletedIsGone, SpinnersEnd

LEMMA RefreshMemoriesKeeps == MemoInv /\ RefreshMemories => MemoInv'
<1> SUFFICES ASSUME MemoInv, RefreshMemories PROVE MemoInv'
  OBVIOUS
<1>1. CASE ~memoPanel.available
  <2>1. Asks(memoPanel, "health", NoMemo, NoMemo)
    BY <1>1 DEF RefreshMemories
  <2>2. "health" \in MemoKind
    BY DEF MemoKind
  <2> QED BY <2>1, <2>2, PanelFacts, AsksKeepsInv
<1>2. CASE memoPanel.available
  <2>1. PICK s \in FreeSlots, t \in FreeSlots :
          /\ s # t
          /\ asks' = [asks EXCEPT ![s] = NewAsk("health", NoMemo, NoMemo), ![t] = NewAsk("list", NoMemo, NoMemo)]
          /\ memoPanel' = Loading(Loading(ListAsked(memoPanel), "health"), "list")
          /\ UNCHANGED <<savedMemos, gone>>
    BY <1>2 DEF RefreshMemories
  <2> DEFINE h == NewAsk("health", NoMemo, NoMemo)
             l == NewAsk("list", NoMemo, NoMemo)
             q == Loading(ListAsked(memoPanel), "health")
             r == Loading(q, "list")
  <2>2. /\ h \in MemoAsk /\ h.kind = "health" /\ \A saved, told : AskSound(h, saved, told)
        /\ l \in MemoAsk /\ l.kind = "list" /\ \A saved, told : AskSound(l, saved, told)
    <3>1. "health" \in MemoKind /\ "list" \in MemoKind /\ NoMemo \in MemoOrNone
      BY DEF MemoKind, MemoOrNone
    <3>2. h \in MemoAsk /\ h.kind = "health" /\ \A saved, told : AskSound(h, saved, told)
      BY <3>1, NewAskIs
    <3>3. l \in MemoAsk /\ l.kind = "list" /\ \A saved, told : AskSound(l, saved, told)
      BY <3>1, NewAskIs
    <3> QED BY <3>2, <3>3
  <2>3. "health" \in MemoSpinner /\ "list" \in MemoSpinner
    BY DEF MemoSpinner
  <2>4. /\ memoPanel \in MemoPanel /\ FormOfSelected(memoPanel) /\ ShowsNoGone(memoPanel, gone)
        /\ gone \subseteq Memos /\ memoPanel.loading \subseteq MemoSpinner
    BY PanelFacts DEF MemoPanel
  <2> DEFINE o == ListAsked(memoPanel)
  <2>5. /\ o \in MemoPanel /\ o.loading = memoPanel.loading /\ o.memories = memoPanel.memories
        /\ o.results = {NoMemo} /\ o.selected = memoPanel.selected /\ o.form = memoPanel.form
    BY <2>4, ListAskedIs
  <2>6. /\ q \in MemoPanel /\ q.loading = o.loading \cup {"health"} /\ q.memories = o.memories
        /\ q.results = o.results /\ q.selected = o.selected /\ q.form = o.form
    BY <2>3, <2>5, LoadingIs
  <2>7. /\ r \in MemoPanel /\ r.loading = q.loading \cup {"list"} /\ r.memories = q.memories
        /\ r.results = q.results /\ r.selected = q.selected /\ r.form = q.form
    BY <2>3, <2>6, LoadingIs
  <2>8. memoPanel' = r /\ asks' = [asks EXCEPT ![s] = h, ![t] = l] /\ savedMemos' = savedMemos /\ gone' = gone
    BY <2>1
  <2>9. /\ asks \in [MemoSlots -> MemoAsk] /\ SpinnersEnd
        /\ \A x \in MemoSlots : AskSound(asks[x], savedMemos, gone)
        /\ savedMemos \subseteq Memos /\ gone \cap savedMemos = {}
    BY DEF MemoInv
  <2>10. s \in MemoSlots /\ t \in MemoSlots /\ asks[s].at = "free" /\ asks[t].at = "free" /\ s # t
    BY <2>1 DEF FreeSlots
  <2>11. asks[s].kind = "none" /\ asks[t].kind = "none"
    <3>1. AskSound(asks[s], savedMemos, gone) /\ AskSound(asks[t], savedMemos, gone)
      BY <2>9, <2>10
    <3>2. asks[s] = NoAsk /\ asks[t] = NoAsk
      BY <3>1, <2>10 DEF AskSound
    <3> QED BY <3>2 DEF NoAsk
  <2> HIDE DEF h, l, o, q, r
  <2>12. /\ asks' \in [MemoSlots -> MemoAsk] /\ asks'[s] = h /\ asks'[t] = l
         /\ \A x \in MemoSlots : x # s /\ x # t => asks'[x] = asks[x]
    BY <2>2, <2>8, <2>9, <2>10
  <2>13. SpinnersEnd'
    <3> SUFFICES ASSUME NEW k \in r.loading PROVE \E x \in MemoSlots : LoadingKind(asks'[x].kind) = k
      BY <2>8 DEF SpinnersEnd
    <3>1. CASE k = "health"
      BY <3>1, <2>2, <2>10, <2>12 DEF LoadingKind
    <3>2. CASE k = "list"
      BY <3>2, <2>2, <2>10, <2>12 DEF LoadingKind
    <3>3. CASE k \in memoPanel.loading
      <4>1. PICK x \in MemoSlots : LoadingKind(asks[x].kind) = k
        BY <3>3, <2>9 DEF SpinnersEnd
      <4>2. x # s /\ x # t
        BY <4>1, <3>3, <2>4, <2>11 DEF LoadingKind, MemoSpinner
      <4> QED BY <4>1, <4>2, <2>12
    <3> QED BY <3>1, <3>2, <3>3, <2>5, <2>6, <2>7
  <2>14. DeletedIsGone'
    BY <2>4, <2>5, <2>6, <2>7, <2>8, NoMemoNew DEF DeletedIsGone, ShowsNoGone
  <2>15. FormOfSelected(memoPanel)'
    BY <2>4, <2>5, <2>6, <2>7, <2>8 DEF FormOfSelected
  <2>16. \A x \in MemoSlots : AskSound(asks[x], savedMemos, gone)'
    BY <2>2, <2>8, <2>9, <2>12
  <2> QED BY <2>4, <2>7, <2>8, <2>9, <2>12, <2>13, <2>14, <2>15, <2>16 DEF MemoInv
<1> QED BY <1>1, <1>2

LEMMA MemoUserKeeps ==
  ASSUME MemoInv, NEW m,
         SearchNothing \/ Search \/ (m \in Memos /\ SelectMemory(m)) \/ SaveMemory \/ (m \in Memos /\ AskToForget(m)) \/ DismissForget \/ ConfirmForget
  PROVE  MemoInv'
<1>1. /\ memoPanel \in MemoPanel /\ FormOfSelected(memoPanel) /\ ShowsNoGone(memoPanel, gone)
      /\ memoPanel.selected \in MemoOrNone /\ memoPanel.form \in MemoOrNone /\ memoPanel.target \in MemoOrNone
      /\ NoMemo \in MemoOrNone
      /\ FormOfSelected(ListAsked(memoPanel)) /\ ShowsNoGone(ListAsked(memoPanel), gone)
  BY PanelFacts
<1>2. ListAsked(memoPanel) \in MemoPanel /\ ListAsked(memoPanel).loading = memoPanel.loading
  BY <1>1, ListAskedIs
<1>3. {"list", "search", "detail", "save", "delete"} \subseteq MemoKind
  BY DEF MemoKind
<1>4. ASSUME SearchNothing PROVE MemoInv'
  <2>1. Asks(ListAsked(memoPanel), "list", NoMemo, NoMemo)
    BY <1>4 DEF SearchNothing
  <2> QED BY <2>1, <1>1, <1>2, <1>3, AsksKeepsInv
<1>5. ASSUME Search PROVE MemoInv'
  <2>1. Asks(memoPanel, "search", NoMemo, NoMemo)
    BY <1>5 DEF Search
  <2> QED BY <2>1, <1>1, <1>3, AsksKeepsInv
<1>6. ASSUME m \in Memos, SelectMemory(m) PROVE MemoInv'
  <2>0. m \in MemoOrNone
    BY <1>6 DEF MemoOrNone
  <2>1. Asks(memoPanel, "detail", m, NoMemo)
    BY <1>6 DEF SelectMemory
  <2> QED BY <2>0, <2>1, <1>1, <1>3, <1>6, AsksKeepsInv
<1>7. ASSUME SaveMemory PROVE MemoInv'
  <2>1. /\ Asks(memoPanel, "save", memoPanel.selected, memoPanel.form)
        /\ memoPanel.selected # NoMemo /\ memoPanel.form # NoMemo
    BY <1>7 DEF SaveMemory
  <2>2. memoPanel.form = memoPanel.selected /\ memoPanel.selected \in Memos
    BY <2>1, <1>1 DEF FormOfSelected, MemoOrNone
  <2> QED BY <2>1, <2>2, <1>1, <1>3, AsksKeepsInv
<1>8. ASSUME m \in Memos, AskToForget(m) PROVE MemoInv'
  <2>1. memoPanel' = [memoPanel EXCEPT !.target = m] /\ UNCHANGED <<savedMemos, asks, gone>>
    BY <1>8 DEF AskToForget
  <2>2. /\ memoPanel' \in MemoPanel /\ memoPanel'.loading = memoPanel.loading
        /\ memoPanel'.memories = memoPanel.memories /\ memoPanel'.results = memoPanel.results
        /\ memoPanel'.selected = memoPanel.selected /\ memoPanel'.form = memoPanel.form
    BY <2>1, <1>1, <1>8 DEF MemoPanel, MemoOrNone
  <2>3. FormOfSelected(memoPanel)' /\ ShowsNoGone(memoPanel, gone)'
    BY <2>1, <2>2, <1>1 DEF FormOfSelected, ShowsNoGone
  <2> QED BY <2>1, <2>2, <2>3, PanelKeepsInv
<1>9. ASSUME DismissForget PROVE MemoInv'
  <2>1. memoPanel' = [memoPanel EXCEPT !.target = NoMemo] /\ UNCHANGED <<savedMemos, asks, gone>>
    BY <1>9 DEF DismissForget
  <2>2. /\ memoPanel' \in MemoPanel /\ memoPanel'.loading = memoPanel.loading
        /\ memoPanel'.memories = memoPanel.memories /\ memoPanel'.results = memoPanel.results
        /\ memoPanel'.selected = memoPanel.selected /\ memoPanel'.form = memoPanel.form
    BY <2>1, <1>1 DEF MemoPanel
  <2>3. FormOfSelected(memoPanel)' /\ ShowsNoGone(memoPanel, gone)'
    BY <2>1, <2>2, <1>1 DEF FormOfSelected, ShowsNoGone
  <2> QED BY <2>1, <2>2, <2>3, PanelKeepsInv
<1>10. ASSUME ConfirmForget PROVE MemoInv'
  <2>1. /\ Asks(memoPanel, "delete", memoPanel.target, memoPanel.selected) /\ memoPanel.target # NoMemo
    BY <1>10 DEF ConfirmForget
  <2>2. memoPanel.target \in Memos
    BY <2>1, <1>1 DEF MemoOrNone
  <2> QED BY <2>1, <2>2, <1>1, <1>3, AsksKeepsInv
<1> QED BY <1>4, <1>5, <1>6, <1>7, <1>8, <1>9, <1>10

\* The tool does what it was asked, and answers.
LEMMA MemoryServedKeeps ==
  ASSUME MemoInv, NEW s \in MemoSlots, MemoryServed(s)
  PROVE  MemoInv'
<1>1. /\ savedMemos \subseteq Memos /\ memoPanel \in MemoPanel /\ asks \in [MemoSlots -> MemoAsk] /\ gone \subseteq Memos
      /\ gone \cap savedMemos = {}
      /\ SpinnersEnd
      /\ \A t \in MemoSlots : AskSound(asks[t], savedMemos, gone)
  BY DEF MemoInv
<1>2. asks[s] \in MemoAsk /\ asks[s].at = "asked" /\ asks[s].kind \notin {"health", "health, then list"}
  BY <1>1 DEF MemoryServed, LoadingKind
<1>3. memoPanel' = memoPanel /\ gone' = gone
  BY DEF MemoryServed
<1> DEFINE m == asks[s].of
<1>4. asks[s].kind \in {"detail", "save", "delete"} => m \in savedMemos
  BY DEF MemoryServed
<1>5. savedMemos' = IF asks[s].kind = "delete" THEN savedMemos \ {m} ELSE savedMemos
  BY DEF MemoryServed
<1>6. PICK g \in CASE asks[s].kind = "search" -> SUBSET savedMemos
                   [] asks[s].kind = "list" -> {savedMemos}
                   [] OTHER -> {{m}} : asks' = [asks EXCEPT ![s].at = "done", ![s].got = g]
  BY DEF MemoryServed
<1>7. asks[s].kind \in {"list", "search", "detail", "save", "delete"}
  <2>1. AskSound(asks[s], savedMemos, gone)
    BY <1>1
  <2>2. asks[s].kind # "none"
    BY <2>1, <1>2 DEF AskSound
  <2> QED BY <1>2, <2>2 DEF MemoAsk, MemoKind
<1>8. g \subseteq savedMemos /\ (asks[s].kind \in {"detail", "save"} => g = {m})
  <2>1. CASE asks[s].kind = "search"
    BY <2>1, <1>6
  <2>2. CASE asks[s].kind = "list"
    BY <2>2, <1>6
  <2>3. CASE asks[s].kind \in {"detail", "save", "delete"}
    <3>1. m \in savedMemos
      BY <2>3, <1>4
    <3>2. g = {m}
      BY <2>3, <1>6
    <3> QED BY <3>1, <3>2
  <2> QED BY <2>1, <2>2, <2>3, <1>7
<1>9. /\ asks' \in [MemoSlots -> MemoAsk] /\ \A t \in MemoSlots : t # s => asks'[t] = asks[t]
      /\ asks'[s].kind = asks[s].kind /\ asks'[s].of = m /\ asks'[s].form = asks[s].form /\ asks'[s].at = "done"
      /\ asks'[s].got = g /\ asks'[s].since = asks[s].since
  BY <1>1, <1>2, <1>6, <1>8 DEF MemoAsk
<1>10. savedMemos' \subseteq savedMemos /\ (asks[s].kind = "delete" => m \notin savedMemos')
  BY <1>5
<1>11. \A t \in MemoSlots : AskSound(asks[t], savedMemos, gone)'
  <2> SUFFICES ASSUME NEW t \in MemoSlots PROVE AskSound(asks'[t], savedMemos', gone)
    BY <1>3
  <2>1. AskSound(asks[t], savedMemos, gone)
    BY <1>1
  <2>2. CASE t # s
    <3>1. asks'[t] = asks[t]
      BY <2>2, <1>9
    <3> QED BY <3>1, <2>1, <1>10 DEF AskSound
  <2>3. CASE t = s
    <3>1. AskSound(asks[s], savedMemos, gone)
      BY <1>1
    <3>2. /\ asks[s].kind = "save" => asks[s].form = m
          /\ asks[s].kind \in {"detail", "save", "delete"} => m \in Memos
      BY <3>1 DEF AskSound
    <3>3. g \cap gone = {}
      BY <1>1, <1>8
    <3> HIDE DEF m
    <3> QED BY <2>3, <3>2, <3>3, <1>7, <1>8, <1>9, <1>10 DEF AskSound
  <2> QED BY <2>2, <2>3
<1>12. SpinnersEnd'
  BY <1>1, <1>3, <1>9 DEF SpinnersEnd
<1>13. DeletedIsGone' /\ FormOfSelected(memoPanel)'
  BY <1>3 DEF MemoInv, DeletedIsGone
<1>14. savedMemos' \subseteq Memos /\ memoPanel' \in MemoPanel /\ gone' \subseteq Memos /\ (gone \cap savedMemos)' = {}
  BY <1>1, <1>3, <1>10
<1> QED BY <1>9, <1>11, <1>12, <1>13, <1>14 DEF MemoInv

LEMMA AgentForgetsKeeps ==
  ASSUME MemoInv, NEW m \in Memos, AgentForgets(m)
  PROVE  MemoInv'
<1>1. savedMemos' \subseteq savedMemos /\ memoPanel' = memoPanel /\ asks' = asks /\ gone' = gone
  BY DEF AgentForgets
<1>2. \A s \in MemoSlots : AskSound(asks[s], savedMemos, gone)'
  <2> SUFFICES ASSUME NEW s \in MemoSlots PROVE AskSound(asks[s], savedMemos', gone)
    BY <1>1
  <2>1. AskSound(asks[s], savedMemos, gone)
    BY DEF MemoInv
  <2> QED BY <2>1, <1>1 DEF AskSound
<1>3. DeletedIsGone' /\ SpinnersEnd'
  BY <1>1 DEF MemoInv, DeletedIsGone, SpinnersEnd
<1>4. savedMemos \subseteq Memos /\ gone \cap savedMemos = {}
  BY DEF MemoInv
<1>5. savedMemos' \subseteq Memos /\ (gone \cap savedMemos)' = {}
  BY <1>1, <1>4
<1>6. memoPanel' \in MemoPanel /\ asks' \in [MemoSlots -> MemoAsk] /\ gone' \subseteq Memos /\ FormOfSelected(memoPanel)'
  BY <1>1 DEF MemoInv
<1> QED BY <1>2, <1>3, <1>5, <1>6 DEF MemoInv

\* When the request at s ends, no other kind that spins has lost its own.
LEMMA SpinnersWithout ==
  ASSUME MemoInv, NEW s \in MemoSlots, NEW k \in memoPanel.loading, k # LoadingKind(asks[s].kind)
  PROVE  \E t \in MemoSlots : t # s /\ LoadingKind(asks[t].kind) = k
BY DEF MemoInv, SpinnersEnd

LEMMA HearFailureKeeps ==
  ASSUME MemoInv, NEW s \in MemoSlots, HearFailure(s)
  PROVE  MemoInv'
<1> DEFINE k == LoadingKind(asks[s].kind)
           p == Ended(memoPanel, k)
<1>1. /\ savedMemos \subseteq Memos /\ memoPanel \in MemoPanel /\ asks \in [MemoSlots -> MemoAsk] /\ gone \subseteq Memos
      /\ gone \cap savedMemos = {} /\ FormOfSelected(memoPanel) /\ DeletedIsGone
      /\ \A t \in MemoSlots : AskSound(asks[t], savedMemos, gone)
  BY DEF MemoInv
<1>2. /\ p \in MemoPanel /\ p.loading = memoPanel.loading \ {k}
      /\ p.memories = memoPanel.memories /\ p.results = memoPanel.results
      /\ p.selected = memoPanel.selected /\ p.form = memoPanel.form
  BY <1>1, EndedIs
<1>3. /\ asks' = [asks EXCEPT ![s] = NoAsk] /\ savedMemos' = savedMemos /\ gone' = gone
      /\ memoPanel' = IF k = "health" THEN [p EXCEPT !.available = FALSE] ELSE p
  BY DEF HearFailure, AsksWith
<1> HIDE DEF p
<1>4. /\ memoPanel' \in MemoPanel /\ memoPanel'.loading = memoPanel.loading \ {k}
      /\ memoPanel'.memories = memoPanel.memories /\ memoPanel'.results = memoPanel.results
      /\ memoPanel'.selected = memoPanel.selected /\ memoPanel'.form = memoPanel.form
  <2>1. CASE k = "health"
    BY <2>1, <1>2, <1>3 DEF MemoPanel
  <2>2. CASE k # "health"
    BY <2>2, <1>2, <1>3
  <2> QED BY <2>1, <2>2
<1>5. /\ asks' \in [MemoSlots -> MemoAsk]
      /\ asks'[s] = NoAsk /\ \A t \in MemoSlots : t # s => asks'[t] = asks[t]
  BY <1>1, <1>3, NoAskIs
<1>6. SpinnersEnd'
  <2> SUFFICES ASSUME NEW j \in memoPanel.loading, j # k
               PROVE  \E t \in MemoSlots : LoadingKind(asks'[t].kind) = j
    BY <1>4 DEF SpinnersEnd
  <2>1. PICK t \in MemoSlots : t # s /\ LoadingKind(asks[t].kind) = j
    BY SpinnersWithout
  <2> QED BY <2>1, <1>5
<1>7. \A t \in MemoSlots : AskSound(asks[t], savedMemos, gone)'
  BY <1>1, <1>3, <1>5, NoAskIs
<1>8. DeletedIsGone' /\ FormOfSelected(memoPanel)'
  BY <1>1, <1>3, <1>4 DEF DeletedIsGone, FormOfSelected
<1> QED BY <1>1, <1>3, <1>4, <1>5, <1>6, <1>7, <1>8 DEF MemoInv

LEMMA HearHealthKeeps ==
  ASSUME MemoInv, NEW s \in MemoSlots, HearHealth(s)
  PROVE  MemoInv'
<1> DEFINE e == Ended(memoPanel, "health")
           p == [e EXCEPT !.available = TRUE]
           o == ListAsked(p)
           r == Loading(o, "list")
           l == NewAsk("list", NoMemo, NoMemo)
<1>1. /\ savedMemos \subseteq Memos /\ memoPanel \in MemoPanel /\ asks \in [MemoSlots -> MemoAsk] /\ gone \subseteq Memos
      /\ gone \cap savedMemos = {} /\ FormOfSelected(memoPanel) /\ DeletedIsGone
      /\ \A t \in MemoSlots : AskSound(asks[t], savedMemos, gone)
  BY DEF MemoInv
<1>2. /\ e \in MemoPanel /\ e.loading = memoPanel.loading \ {"health"}
      /\ e.memories = memoPanel.memories /\ e.results = memoPanel.results
      /\ e.selected = memoPanel.selected /\ e.form = memoPanel.form
  BY <1>1, EndedIs
<1> HIDE DEF e
<1>3. /\ p \in MemoPanel /\ p.loading = e.loading
      /\ p.memories = e.memories /\ p.results = e.results /\ p.selected = e.selected /\ p.form = e.form
  BY <1>2 DEF MemoPanel
<1>4. /\ savedMemos' = savedMemos /\ gone' = gone /\ LoadingKind(asks[s].kind) = "health"
      /\ \/ asks' = [asks EXCEPT ![s] = NoAsk] /\ memoPanel' = p
         \/ asks' = [asks EXCEPT ![s] = l] /\ memoPanel' = r
  BY DEF HearHealth, AsksWith, e
<1> HIDE DEF p
<1>5. /\ o \in MemoPanel /\ o.loading = p.loading
      /\ o.memories = p.memories /\ o.results = {NoMemo} /\ o.selected = p.selected /\ o.form = p.form
  BY <1>3, ListAskedIs
<1> HIDE DEF o
<1>6. "list" \in MemoSpinner /\ "list" \in MemoKind /\ NoMemo \in MemoOrNone
  BY DEF MemoSpinner, MemoKind, MemoOrNone
<1>7. /\ r \in MemoPanel /\ r.loading = o.loading \cup {"list"}
      /\ r.memories = o.memories /\ r.results = o.results /\ r.selected = o.selected /\ r.form = o.form
  BY <1>5, <1>6, LoadingIs
<1>8. /\ l \in MemoAsk /\ l.kind = "list" /\ \A saved, told : AskSound(l, saved, told)
  BY <1>6, NewAskIs
<1> HIDE DEF r, l
<1>9. \A j \in memoPanel.loading \ {"health"} : \E t \in MemoSlots : t # s /\ LoadingKind(asks[t].kind) = j
  BY <1>4, SpinnersWithout
<1>10. CASE asks' = [asks EXCEPT ![s] = NoAsk] /\ memoPanel' = p
  <2>1. /\ asks' \in [MemoSlots -> MemoAsk]
        /\ asks'[s] = NoAsk /\ \A t \in MemoSlots : t # s => asks'[t] = asks[t]
    BY <1>10, <1>1, NoAskIs
  <2>2. SpinnersEnd'
    BY <1>10, <1>2, <1>3, <1>9, <2>1 DEF SpinnersEnd
  <2>3. \A t \in MemoSlots : AskSound(asks[t], savedMemos, gone)'
    BY <1>1, <1>4, <2>1, NoAskIs
  <2>4. DeletedIsGone' /\ FormOfSelected(memoPanel)'
    BY <1>1, <1>2, <1>3, <1>4, <1>10 DEF DeletedIsGone, FormOfSelected
  <2> QED BY <1>1, <1>3, <1>4, <1>10, <2>1, <2>2, <2>3, <2>4 DEF MemoInv
<1>11. CASE asks' = [asks EXCEPT ![s] = l] /\ memoPanel' = r
  <2>1. /\ asks' \in [MemoSlots -> MemoAsk]
        /\ asks'[s] = l /\ \A t \in MemoSlots : t # s => asks'[t] = asks[t]
    BY <1>11, <1>1, <1>8
  <2>2. LoadingKind(asks'[s].kind) = "list"
    BY <2>1, <1>8 DEF LoadingKind
  <2>3. SpinnersEnd'
    BY <1>11, <1>2, <1>3, <1>5, <1>7, <1>9, <2>1, <2>2 DEF SpinnersEnd
  <2>4. \A t \in MemoSlots : AskSound(asks[t], savedMemos, gone)'
    BY <1>1, <1>4, <1>8, <2>1
  <2>5. DeletedIsGone'
    BY <1>1, <1>2, <1>3, <1>4, <1>5, <1>7, <1>11, NoMemoNew DEF DeletedIsGone
  <2>6. FormOfSelected(memoPanel)'
    BY <1>1, <1>2, <1>3, <1>5, <1>7, <1>11 DEF FormOfSelected
  <2> QED BY <1>1, <1>4, <1>7, <1>11, <2>1, <2>3, <2>4, <2>5, <2>6 DEF MemoInv
<1> QED BY <1>4, <1>10, <1>11

\* The panel hears what the tool did.
LEMMA HearMemoriesKeeps ==
  ASSUME MemoInv, NEW s \in MemoSlots, HearMemories(s)
  PROVE  MemoInv'
<1> DEFINE kind == asks[s].kind
           m == asks[s].of
           got == asks[s].got
           since == asks[s].since
           p == Ended(memoPanel, kind)
           deleted == IF kind = "delete" THEN {m} ELSE {}
<1>1. /\ savedMemos \subseteq Memos /\ memoPanel \in MemoPanel /\ asks \in [MemoSlots -> MemoAsk] /\ gone \subseteq Memos
      /\ gone \cap savedMemos = {} /\ FormOfSelected(memoPanel) /\ ShowsNoGone(memoPanel, gone)
      /\ \A t \in MemoSlots : AskSound(asks[t], savedMemos, gone)
  BY DEF MemoInv, DeletedIsGone, ShowsNoGone
<1>2. asks[s].at = "done" /\ asks[s] \in MemoAsk /\ AskSound(asks[s], savedMemos, gone)
  BY <1>1 DEF HearMemories
<1>3. /\ kind \in {"list", "search", "detail", "save", "delete"} /\ m \in MemoOrNone
      /\ got \subseteq Memos /\ since \subseteq Memos
      /\ kind \in {"detail", "save", "delete"} => m \in Memos
      /\ kind = "delete" => m \notin savedMemos
      /\ kind \in {"detail", "save"} => got = {m}
      /\ kind # "delete" => got \cap gone \subseteq since
  BY <1>2 DEF AskSound, MemoAsk, MemoKind
<1>4. /\ p \in MemoPanel /\ p.loading = memoPanel.loading \ {kind}
      /\ p.memories = memoPanel.memories /\ p.results = memoPanel.results
      /\ p.selected = memoPanel.selected /\ p.form = memoPanel.form
  BY <1>1, EndedIs
<1>5. /\ memoPanel' = CASE kind = "list" -> [p EXCEPT !.memories = got]
                        [] kind = "search" -> [p EXCEPT !.results = got]
                        [] kind = "delete" -> Deleted(p, m, asks[s].form)
                        [] OTHER -> Selected(p, m)
      /\ gone' = (gone \ since) \cup deleted
      /\ savedMemos' = savedMemos
  BY DEF HearMemories
<1>6. asks' = [t \in MemoSlots |-> IF t = s THEN NoAsk
                                   ELSE IF asks[t].at = "free" THEN NoAsk ELSE [asks[t] EXCEPT !.since = @ \cup deleted]]
  BY DEF HearMemories
<1>7. deleted \subseteq Memos /\ deleted \cap savedMemos = {} /\ (kind # "delete" => deleted = {})
  BY <1>3
<1> DEFINE f == asks[s].form
<1>8. memoPanel' = CASE kind = "list" -> [p EXCEPT !.memories = got]
                     [] kind = "search" -> [p EXCEPT !.results = got]
                     [] kind = "delete" -> Deleted(p, m, f)
                     [] OTHER -> Selected(p, m)
  BY <1>5
<1>9. f \in MemoOrNone
  BY <1>2 DEF MemoAsk
<1> HIDE DEF p, kind, m, got, since, f
<1>10. /\ memoPanel' \in MemoPanel /\ memoPanel'.loading = p.loading /\ FormOfSelected(memoPanel)'
       /\ ShowsNoGone(memoPanel', (gone \ since) \cup deleted)
  <2>1. CASE kind = "list"
    <3>1. memoPanel' = [p EXCEPT !.memories = got]
      BY <2>1, <1>8
    <3>2. /\ memoPanel' \in MemoPanel /\ memoPanel'.loading = p.loading
          /\ memoPanel'.memories = got /\ memoPanel'.results = p.results
          /\ memoPanel'.selected = p.selected /\ memoPanel'.form = p.form
      BY <3>1, <1>3, <1>4 DEF MemoPanel
    <3>3. FormOfSelected(memoPanel)'
      BY <3>2, <1>1, <1>4 DEF FormOfSelected
    <3>4. deleted = {} /\ got \cap gone \subseteq since
      BY <2>1, <1>3, <1>7
    <3> HIDE DEF deleted
    <3>5. ShowsNoGone(memoPanel', (gone \ since) \cup deleted)
      BY <3>2, <3>4, <1>1, <1>4 DEF ShowsNoGone
    <3> QED BY <3>2, <3>3, <3>5
  <2>2. CASE kind = "search"
    <3>1. memoPanel' = [p EXCEPT !.results = got]
      BY <2>2, <1>8
    <3>2. /\ memoPanel' \in MemoPanel /\ memoPanel'.loading = p.loading
          /\ memoPanel'.memories = p.memories /\ memoPanel'.results = got
          /\ memoPanel'.selected = p.selected /\ memoPanel'.form = p.form
      BY <3>1, <1>3, <1>4 DEF MemoPanel, MemoOrNone
    <3>3. FormOfSelected(memoPanel)'
      BY <3>2, <1>1, <1>4 DEF FormOfSelected
    <3>4. deleted = {} /\ got \cap gone \subseteq since
      BY <2>2, <1>3, <1>7
    <3> HIDE DEF deleted
    <3>5. ShowsNoGone(memoPanel', (gone \ since) \cup deleted)
      BY <3>2, <3>4, <1>1, <1>4 DEF ShowsNoGone
    <3> QED BY <3>2, <3>3, <3>5
  <2>3. CASE kind = "delete"
    <3>1. memoPanel' = Deleted(p, m, f)
      BY <2>3, <1>8
    <3>2. /\ memoPanel' \in MemoPanel /\ memoPanel'.loading = p.loading
          /\ memoPanel'.memories = p.memories \ {m} /\ memoPanel'.results = p.results \ {m}
          /\ memoPanel'.selected = (IF p.selected = m THEN NoMemo ELSE p.selected)
          /\ memoPanel'.form = (IF f = m THEN NoMemo ELSE p.form)
      BY <3>1, <1>3, <1>4 DEF MemoPanel, MemoOrNone, Deleted
    <3>3. FormOfSelected(memoPanel)'
      BY <3>2, <1>1, <1>4 DEF FormOfSelected
    <3>4. deleted = {m} /\ m # NoMemo
      BY <2>3, <1>3, NoMemoNew
    <3>5. NoMemo \notin gone
      BY <1>1, NoMemoNew
    <3> HIDE DEF deleted
    <3>6. ShowsNoGone(memoPanel', (gone \ since) \cup deleted)
      <4> SUFFICES ASSUME NEW x \in (gone \ since) \cup {m}
                   PROVE  x \notin memoPanel'.memories \cup memoPanel'.results \cup {memoPanel'.selected}
        BY <3>4 DEF ShowsNoGone
      <4>1. CASE x = m
        BY <4>1, <3>2, <3>4
      <4>2. CASE x \in gone
        <5>1. x \notin p.memories /\ x \notin p.results /\ x # p.selected /\ x # NoMemo
          BY <4>2, <1>1, <1>4, <3>5 DEF ShowsNoGone
        <5> QED BY <5>1, <3>2
      <4> QED BY <4>1, <4>2
    <3> QED BY <3>2, <3>3, <3>6
  <2>4. CASE kind \in {"detail", "save"}
    <3>1. memoPanel' = Selected(p, m)
      BY <2>4, <1>8
    <3>2. /\ memoPanel' \in MemoPanel /\ memoPanel'.loading = p.loading
          /\ memoPanel'.memories = p.memories /\ memoPanel'.results = p.results
          /\ memoPanel'.selected = m /\ memoPanel'.form = m
      BY <3>1, <1>3, <1>4 DEF MemoPanel, Selected
    <3>3. FormOfSelected(memoPanel)'
      BY <3>2 DEF FormOfSelected
    <3>4. deleted = {} /\ (m \in gone => m \in since)
      BY <2>4, <1>3, <1>7
    <3> HIDE DEF deleted
    <3>5. ShowsNoGone(memoPanel', (gone \ since) \cup deleted)
      BY <3>2, <3>4, <1>1, <1>4 DEF ShowsNoGone
    <3> QED BY <3>2, <3>3, <3>5
  <2> QED BY <2>1, <2>2, <2>3, <2>4, <1>3
<1> HIDE DEF deleted
<1>11. \A t \in MemoSlots : /\ asks'[t] \in MemoAsk /\ AskSound(asks'[t], savedMemos, (gone \ since) \cup deleted)
                            /\ t # s => LoadingKind(asks'[t].kind) = LoadingKind(asks[t].kind)
  <2> SUFFICES ASSUME NEW t \in MemoSlots
               PROVE  /\ asks'[t] \in MemoAsk /\ AskSound(asks'[t], savedMemos, (gone \ since) \cup deleted)
                      /\ t # s => LoadingKind(asks'[t].kind) = LoadingKind(asks[t].kind)
    OBVIOUS
  <2>1. asks[t] \in MemoAsk /\ AskSound(asks[t], savedMemos, gone)
    BY <1>1
  <2>2. CASE t = s
    BY <2>2, <1>6, NoAskIs
  <2>3. CASE t # s /\ asks[t].at = "free"
    <3>1. asks'[t] = NoAsk /\ asks[t] = NoAsk
      BY <2>1, <2>3, <1>6 DEF AskSound
    <3> QED BY <3>1, NoAskIs
  <2>4. CASE t # s /\ asks[t].at # "free"
    <3>1. asks'[t] = [asks[t] EXCEPT !.since = @ \cup deleted]
      BY <2>4, <1>6
    <3>2. /\ asks'[t] \in MemoAsk
          /\ asks'[t].kind = asks[t].kind /\ asks'[t].of = asks[t].of /\ asks'[t].form = asks[t].form
          /\ asks'[t].at = asks[t].at /\ asks'[t].got = asks[t].got /\ asks'[t].since = asks[t].since \cup deleted
      BY <3>1, <2>1, <1>7 DEF MemoAsk
    <3>3. AskSound(asks'[t], savedMemos, (gone \ since) \cup deleted)
      BY <3>2, <2>1, <2>4 DEF AskSound
    <3> QED BY <3>2, <3>3
  <2> QED BY <2>2, <2>3, <2>4
<1>12. asks' \in [MemoSlots -> MemoAsk]
  <2>1. asks' = [t \in MemoSlots |-> asks'[t]]
    BY <1>6
  <2> QED BY <2>1, <1>11
<1>13. SpinnersEnd'
  <2> SUFFICES ASSUME NEW k \in memoPanel.loading, k # kind
               PROVE  \E t \in MemoSlots : LoadingKind(asks'[t].kind) = k
    BY <1>4, <1>10 DEF SpinnersEnd
  <2>1. LoadingKind(asks[s].kind) = kind
    BY <1>3 DEF LoadingKind, kind
  <2>2. PICK t \in MemoSlots : t # s /\ LoadingKind(asks[t].kind) = k
    BY <2>1, SpinnersWithout
  <2> QED BY <2>2, <1>11
<1>14. DeletedIsGone'
  BY <1>5, <1>10 DEF DeletedIsGone, ShowsNoGone
<1>15. gone' \subseteq Memos /\ savedMemos' \subseteq Memos /\ (gone \cap savedMemos)' = {}
  BY <1>1, <1>5, <1>7
<1>16. \A t \in MemoSlots : AskSound(asks[t], savedMemos, gone)'
  BY <1>5, <1>11
<1> QED BY <1>10, <1>12, <1>13, <1>14, <1>15, <1>16 DEF MemoInv

LEMMA MemoInvInit == MemoryPanelInit => MemoInv
<1> SUFFICES ASSUME MemoryPanelInit PROVE MemoInv
  OBVIOUS
<1>1. /\ savedMemos \subseteq Memos /\ memoPanel = ClosedMemories /\ asks = [s \in MemoSlots |-> NoAsk] /\ gone = {}
  BY DEF MemoryPanelInit
<1>2. memoPanel \in MemoPanel /\ memoPanel.loading = {} /\ FormOfSelected(memoPanel)
  BY <1>1 DEF ClosedMemories, MemoPanel, MemoOrNone, NotSearched, FormOfSelected
<1>3. asks \in [MemoSlots -> MemoAsk] /\ \A s \in MemoSlots : AskSound(asks[s], savedMemos, gone)
  BY <1>1, NoAskIs
<1> QED BY <1>1, <1>2, <1>3 DEF MemoInv, DeletedIsGone, SpinnersEnd

LEMMA MemoInvNext == MemoInv /\ [MemoryPanelNext]_memoVars => MemoInv'
<1> SUFFICES ASSUME MemoInv, [MemoryPanelNext]_memoVars PROVE MemoInv'
  OBVIOUS
<1>1. CASE OpenMemories
  BY <1>1, OpenMemoriesKeeps
<1>2. CASE CloseMemories
  BY <1>2, CloseMemoriesKeeps
<1>3. CASE RefreshMemories
  BY <1>3, RefreshMemoriesKeeps
<1>4. ASSUME NEW m \in Memos,
             SelectMemory(m) \/ AskToForget(m)
      PROVE  MemoInv'
  BY <1>4, MemoUserKeeps
<1>5. CASE SearchNothing \/ Search \/ SaveMemory \/ DismissForget \/ ConfirmForget
  BY <1>5, MemoUserKeeps
<1>6. ASSUME NEW m \in Memos, AgentForgets(m) PROVE MemoInv'
  BY <1>6, AgentForgetsKeeps
<1>7. ASSUME NEW s \in MemoSlots, MemoryServed(s) PROVE MemoInv'
  BY <1>7, MemoryServedKeeps
<1>8. ASSUME NEW s \in MemoSlots, HearFailure(s) PROVE MemoInv'
  BY <1>8, HearFailureKeeps
<1>9. ASSUME NEW s \in MemoSlots, HearHealth(s) PROVE MemoInv'
  BY <1>9, HearHealthKeeps
<1>10. ASSUME NEW s \in MemoSlots, HearMemories(s) PROVE MemoInv'
  BY <1>10, HearMemoriesKeeps
<1>11. CASE UNCHANGED memoVars
  BY <1>11 DEF memoVars, MemoInv, DeletedIsGone, SpinnersEnd, FormOfSelected
<1> QED BY <1>1, <1>2, <1>3, <1>4, <1>5, <1>6, <1>7, <1>8, <1>9, <1>10, <1>11 DEF MemoryPanelNext

\* Whatever is asked, answered, lost and deleted in whatever order: what is saved
\* under a memory is its own form, what the panel was told is deleted is not shown,
\* and every button that spins waits for an answer.
THEOREM MemoryPanelIsCorrect == MemoryPanelSpec => []MemoryPanelCorrect
<1>1. MemoInv => MemoryPanelCorrect
  <2> SUFFICES ASSUME MemoInv PROVE MemoryPanelCorrect
    OBVIOUS
  <2>1. MemoryPanelTypeOK
    BY DEF MemoInv, MemoryPanelTypeOK, MemoPanel, MemoOrNone, NotSearched
  <2>2. SavesOwnForm
    BY DEF MemoInv, SavesOwnForm, AskSound
  <2>3. DeletedIsGone /\ SpinnersEnd
    BY DEF MemoInv
  <2> QED BY <2>1, <2>2, <2>3 DEF MemoryPanelCorrect
<1> QED BY <1>1, MemoInvInit, MemoInvNext, PTL DEF MemoryPanelSpec

-----------------------------------------------------------------------------
-----------------------------------------------------------------------------
(* The attachment browser, for any number of attachments and requests.     *)

\* Every rank of a finite set of numbers is taken.
LEMMA RankTaken ==
  ASSUME NEW S \in SUBSET Nat, IsFiniteSet(S), NEW n \in 1..Cardinality(S)
  PROVE  \E a \in S : Cardinality({b \in S : b >= a}) = n
<1> DEFINE Ranked(T, m) == \E a \in T : Cardinality({b \in T : b >= a}) = m
           Short == {k \in Nat : \E T \in SUBSET Nat : IsFiniteSet(T) /\ Cardinality(T) = k /\ \E m \in 1..k : ~Ranked(T, m)}
<1>1. SUFFICES ASSUME ~Ranked(S, n) PROVE FALSE
  OBVIOUS
<1>2. Cardinality(S) \in Short
  BY <1>1, FS_CardinalityType
<1>3. PICK k \in Short : \A j \in Short : k <= j
  <2>1. Short \in SUBSET Nat /\ Short # {}
    BY <1>2
  <2> HIDE DEF Short
  <2> QED BY <2>1, SmallestExists
<1>4. PICK T \in SUBSET Nat : IsFiniteSet(T) /\ Cardinality(T) = k /\ \E m \in 1..k : ~Ranked(T, m)
  BY <1>3
<1>5. PICK m \in 1..k : ~Ranked(T, m)
  BY <1>4
<1>6. k \in Nat /\ m \in Nat /\ m >= 1 /\ m <= k /\ T # {}
  <2>1. k \in Nat /\ m \in Nat /\ m >= 1 /\ m <= k
    BY <1>3, <1>5
  <2>2. T # {}
    BY <1>4, <2>1, FS_EmptySet
  <2> QED BY <2>1, <2>2
<1>7. PICK least \in T : \A j \in T : least <= j
  BY <1>6, SmallestExists
<1> DEFINE U == T \ {least}
<1>8. U \in SUBSET Nat /\ IsFiniteSet(U) /\ Cardinality(U) = k - 1
  BY <1>4, <1>6, <1>7, FS_RemoveElement
<1>9. CASE m = k
  <2>1. {b \in T : b >= least} = T
    BY <1>7
  <2> QED BY <1>4, <1>5, <1>7, <1>9, <2>1
<1>10. CASE m # k
  <2>1. k - 1 \in Nat /\ m \in 1..(k - 1) /\ ~(k <= k - 1)
    BY <1>6, <1>10
  <2>2. k - 1 \notin Short
    BY <1>3, <2>1
  <2> HIDE DEF U
  <2>3. Ranked(U, m)
    BY <1>8, <2>1, <2>2
  <2>4. PICK a \in U : Cardinality({b \in U : b >= a}) = m
    BY <2>3
  <2>5. a \in T /\ a > least
    BY <1>7, <2>4 DEF U
  <2>6. {b \in T : b >= a} = {b \in U : b >= a}
    BY <1>7, <2>5 DEF U
  <2> QED BY <1>5, <2>4, <2>5, <2>6
<1> QED BY <1>9, <1>10

AttachmentOrNone == Attachments \cup {NoAttachment}
Lookup == [kind : {"list", "detail"}, offset : Nat, of : AttachmentOrNone]
ListState ==
  [open : BOOLEAN, offset : Nat, items : Seq(Attachments), total : Nat, selected : AttachmentOrNone,
   detail : AttachmentOrNone, loadingList : BOOLEAN, loadingDetail : BOOLEAN]

LastDetail(q, a) ==
  \E k \in 1..Len(q) : q[k].kind = "detail" /\ q[k].of = a /\ \A j \in 1..Len(q) : q[j].kind = "detail" => j <= k
NoDetail(q) == \A k \in 1..Len(q) : q[k].kind # "detail"

\* While answers come in order, the last detail asked for is that of the selection,
\* or none is and the one shown is the selection's.
DetailComes(v, q) == LastDetail(q, v.selected) \/ (NoDetail(q) /\ v.detail \in {v.selected, NoAttachment})
LookupsLoad(v, q) ==
  /\ v.loadingList => \E i \in 1..Len(q) : q[i].kind = "list"
  /\ v.loadingDetail => \E i \in 1..Len(q) : q[i].kind = "detail"
Shown(v) ==
  /\ Len(v.items) <= PageSize /\ v.total <= Cardinality(Attachments)
  /\ v.selected = NoAttachment \/ Contains(v.items, v.selected)

ListInv ==
  /\ indexedNow \subseteq Attachments /\ list \in ListState /\ lookups \in Seq(Lookup) /\ outOfOrder \in BOOLEAN
  /\ Shown(list) /\ LookupsLoad(list, lookups)
  /\ ~list.open => list.selected = NoAttachment /\ lookups = <<>>
  /\ ~outOfOrder /\ list.selected # NoAttachment => DetailComes(list, lookups)

LEMMA PageIs ==
  ASSUME ListInv, NEW offset \in Nat
  PROVE  PageAt(offset) \in Seq(Attachments) /\ Len(PageAt(offset)) <= PageSize
<1> DEFINE left == Cardinality(indexedNow) - offset
           n == IF left < PageSize THEN left ELSE PageSize
           page == PageAt(offset)
<1>1. IsFiniteSet(indexedNow) /\ indexedNow \in SUBSET Nat /\ Cardinality(indexedNow) \in Nat
  BY AttachmentViewsAssumption, FS_Subset, FS_CardinalityType DEF ListInv
<1>2. n \in Int /\ n <= PageSize /\ n <= left /\ left \in Int
  BY <1>1, AttachmentViewsAssumption
<1>3. page = [i \in 1..n |-> Newest(offset + i)]
  BY DEF PageAt
<1>4. ASSUME NEW i \in 1..n PROVE Newest(offset + i) \in Attachments
  <2> DEFINE r == offset + i
  <2>1. r \in 1..Cardinality(indexedNow)
    BY <1>1, <1>2
  <2> HIDE DEF r
  <2>2. \E a \in indexedNow : Cardinality({b \in indexedNow : b >= a}) = r
    BY <1>1, <2>1, RankTaken
  <2>3. Newest(r) \in indexedNow
    BY <2>2 DEF Newest
  <2> QED BY <2>3 DEF r, ListInv
<1> HIDE DEF n, page
<1>5. CASE n >= 0
  <2>1. n \in Nat
    BY <1>2, <1>5
  <2>2. page \in [1..n -> Attachments]
    BY <1>3, <1>4
  <2>3. page \in Seq(Attachments) /\ Len(page) = n
    BY <2>1, <2>2
  <2> QED BY <1>2, <2>3 DEF page
<1>6. CASE ~(n >= 0)
  <2>1. 1..n = 1..0
    BY <1>2, <1>6
  <2>2. page \in [1..0 -> Attachments]
    BY <1>3, <1>4, <2>1
  <2>3. page \in Seq(Attachments) /\ Len(page) = 0
    BY <2>2
  <2> QED BY <2>3, AttachmentViewsAssumption DEF page
<1> QED BY <1>5, <1>6

\* What the effects load: a list, and then the selection's detail.
LEMMA LoadsAre ==
  ASSUME NEW v \in ListState
  PROVE  LET loads == AttachmentLoads(v) IN
         /\ loads \in Seq(Lookup)
         /\ (v.open /\ v.selected # NoAttachment /\ (~list.open \/ v.selected # list.selected)) =>
              Len(loads) >= 1 /\ loads[Len(loads)].kind = "detail" /\ loads[Len(loads)].of = v.selected
         /\ ~(v.open /\ v.selected # NoAttachment /\ (~list.open \/ v.selected # list.selected)) =>
              \A i \in 1..Len(loads) : loads[i].kind # "detail"
<1> DEFINE p == v.open /\ (~list.open \/ v.offset # list.offset \/ v.selected # list.selected)
           d == v.open /\ v.selected # NoAttachment /\ (~list.open \/ v.selected # list.selected)
           x == ListRequest(v)
           y == DetailRequest(v)
           loads == AttachmentLoads(v)
<1>1. x \in Lookup /\ x.kind = "list"
  BY DEF ListRequest, Lookup, ListState
<1>2. y \in Lookup /\ y.kind = "detail" /\ y.of = v.selected
  BY DEF DetailRequest, Lookup, ListState
<1>3. loads = (IF p THEN <<x>> ELSE <<>>) \o (IF d THEN <<y>> ELSE <<>>)
  <2>1. p <=> v.open /\ ((v.open /\ ~list.open) \/ v.offset # list.offset \/ v.selected # list.selected)
    OBVIOUS
  <2>2. d <=> v.open /\ v.selected # NoAttachment /\ ((v.open /\ ~list.open) \/ v.selected # list.selected)
    OBVIOUS
  <2> HIDE DEF p, d
  <2> QED BY <2>1, <2>2 DEF AttachmentLoads
<1> HIDE DEF x, y, loads, p, d
<1>4. CASE p /\ d
  <2>1. loads = <<x>> \o <<y>>
    BY <1>3, <1>4
  <2>2. loads \in Seq(Lookup) /\ Len(loads) = 2 /\ loads[2] = y
    BY <1>1, <1>2, <2>1
  <2> QED BY <1>2, <1>4, <2>2 DEF d, loads
<1>5. CASE p /\ ~d
  <2>1. loads = <<x>> \o <<>>
    BY <1>3, <1>5
  <2>2. loads \in Seq(Lookup) /\ Len(loads) = 1 /\ loads[1] = x
    BY <1>1, <2>1
  <2> QED BY <1>1, <1>5, <2>2 DEF d, loads
<1>6. CASE ~p /\ d
  <2>1. loads = <<>> \o <<y>>
    BY <1>3, <1>6
  <2>2. loads \in Seq(Lookup) /\ Len(loads) = 1 /\ loads[1] = y
    BY <1>2, <2>1
  <2> QED BY <1>2, <1>6, <2>2 DEF d, loads
<1>7. CASE ~p /\ ~d
  <2>1. loads = <<>> \o <<>>
    BY <1>3, <1>7
  <2>2. loads \in Seq(Lookup) /\ Len(loads) = 0
    BY <2>1
  <2> QED BY <1>7, <2>2 DEF d, loads
<1> QED BY <1>4, <1>5, <1>6, <1>7

LEMMA BothAre ==
  ASSUME NEW p \in Seq(Lookup), NEW q \in Seq(Lookup)
  PROVE  /\ p \o q \in Seq(Lookup) /\ Len(p \o q) = Len(p) + Len(q) /\ Len(p) \in Nat /\ Len(q) \in Nat
         /\ \A i \in 1..Len(p) : (p \o q)[i] = p[i]
         /\ \A i \in 1..Len(q) : (p \o q)[Len(p) + i] = q[i]
         /\ \A i \in 1..Len(p \o q) : i \in 1..Len(p) \/ \E j \in 1..Len(q) : i = Len(p) + j
<1> DEFINE t == p \o q
<1>1. t \in Seq(Lookup)
  OBVIOUS
<1>2. Len(t) = Len(p) + Len(q) /\ Len(p) \in Nat /\ Len(q) \in Nat
  OBVIOUS
<1>3. \A i \in 1..Len(p) : t[i] = p[i]
  OBVIOUS
<1>4. \A i \in 1..Len(q) : t[Len(p) + i] = q[i]
  OBVIOUS
<1> HIDE DEF t
<1>5. ASSUME NEW i \in 1..Len(t) PROVE i \in 1..Len(p) \/ \E j \in 1..Len(q) : i = Len(p) + j
  <2>1. CASE i <= Len(p)
    BY <1>2, <2>1
  <2>2. CASE i > Len(p)
    <3>1. i - Len(p) \in 1..Len(q) /\ i = Len(p) + (i - Len(p))
      BY <1>2, <2>2
    <3> QED BY <3>1
  <2> QED BY <1>2, <2>1, <2>2
<1> QED BY <1>1, <1>2, <1>3, <1>4, <1>5 DEF t

\* The drawer becomes v, and loads what has changed.
LEMMA RedrawnKeeps ==
  ASSUME NEW v \in ListState, NEW before \in Seq(Lookup), Redrawn(v, before), v.open = TRUE,
         list.open \/ v.selected = NoAttachment, Shown(v), LookupsLoad(v, before),
         v.selected = list.selected /\ v.selected # NoAttachment /\ ~outOfOrder' => DetailComes(v, before),
         indexedNow' \subseteq Attachments, outOfOrder' \in BOOLEAN
  PROVE  ListInv'
<1> DEFINE loads == AttachmentLoads(v)
           kinds == {loads[i].kind : i \in 1..Len(loads)}
           isList == v.loadingList \/ "list" \in kinds
           isDetail == v.loadingDetail \/ "detail" \in kinds
<1>1. lookups' = before \o loads /\ list' = [v EXCEPT !.loadingList = isList, !.loadingDetail = isDetail]
  BY DEF Redrawn
<1>2. loads \in Seq(Lookup)
  BY LoadsAre
<1>3. (v.selected # NoAttachment /\ v.selected # list.selected) =>
        Len(loads) >= 1 /\ loads[Len(loads)].kind = "detail" /\ loads[Len(loads)].of = v.selected
  BY LoadsAre
<1>4. (v.selected # NoAttachment /\ v.selected = list.selected) => \A i \in 1..Len(loads) : loads[i].kind # "detail"
  BY LoadsAre
<1> HIDE DEF loads
<1>5. /\ lookups' \in Seq(Lookup) /\ Len(lookups') = Len(before) + Len(loads) /\ Len(before) \in Nat /\ Len(loads) \in Nat
      /\ \A i \in 1..Len(before) : lookups'[i] = before[i]
      /\ \A i \in 1..Len(loads) : lookups'[Len(before) + i] = loads[i]
      /\ \A i \in 1..Len(lookups') : i \in 1..Len(before) \/ \E j \in 1..Len(loads) : i = Len(before) + j
  BY <1>1, <1>2, BothAre
<1>6. isList \in BOOLEAN /\ isDetail \in BOOLEAN
  BY DEF ListState
<1>7. (isList => v.loadingList \/ \E i \in 1..Len(loads) : loads[i].kind = "list")
      /\ (isDetail => v.loadingDetail \/ \E i \in 1..Len(loads) : loads[i].kind = "detail")
  OBVIOUS
<1> HIDE DEF isList, isDetail
<1>8. /\ list' \in ListState /\ list'.open = TRUE /\ list'.items = v.items /\ list'.total = v.total /\ list'.selected = v.selected
      /\ list'.detail = v.detail /\ list'.loadingList = isList /\ list'.loadingDetail = isDetail
  BY <1>1, <1>6 DEF ListState
<1>9. Shown(list)'
  BY <1>8 DEF Shown
<1>10. ASSUME NEW kind, (\E i \in 1..Len(before) : before[i].kind = kind) \/ \E i \in 1..Len(loads) : loads[i].kind = kind
       PROVE  \E i \in 1..Len(lookups') : lookups'[i].kind = kind
  <2>1. ASSUME NEW i \in 1..Len(before), before[i].kind = kind PROVE \E j \in 1..Len(lookups') : lookups'[j].kind = kind
    <3>1. i \in 1..Len(lookups')
      BY <1>5
    <3> QED BY <1>5, <2>1, <3>1
  <2>2. ASSUME NEW i \in 1..Len(loads), loads[i].kind = kind PROVE \E j \in 1..Len(lookups') : lookups'[j].kind = kind
    <3>1. Len(before) + i \in 1..Len(lookups')
      BY <1>5
    <3> QED BY <1>5, <2>2, <3>1
  <2> QED BY <1>10, <2>1, <2>2
<1>11. LookupsLoad(list, lookups)'
  <2>1. isList => \E i \in 1..Len(lookups') : lookups'[i].kind = "list"
    BY <1>7, <1>10 DEF LookupsLoad
  <2>2. isDetail => \E i \in 1..Len(lookups') : lookups'[i].kind = "detail"
    BY <1>7, <1>10 DEF LookupsLoad
  <2> QED BY <1>8, <2>1, <2>2 DEF LookupsLoad
<1>12. ASSUME ~outOfOrder', v.selected # NoAttachment PROVE DetailComes(list, lookups)'
  <2>1. CASE v.selected # list.selected
    <3> DEFINE k == Len(before) + Len(loads)
    <3>1. k \in 1..Len(lookups') /\ lookups'[k].kind = "detail" /\ lookups'[k].of = v.selected /\ \A j \in 1..Len(lookups') : j <= k
      BY <1>3, <1>5, <1>12, <2>1
    <3>2. LastDetail(lookups', v.selected)
      BY <3>1 DEF LastDetail
    <3> QED BY <1>8, <3>2 DEF DetailComes
  <2>2. CASE v.selected = list.selected
    <3>1. DetailComes(v, before)
      BY <1>12, <2>2
    <3>2. \A i \in 1..Len(lookups') : lookups'[i].kind = "detail" => i \in 1..Len(before)
      BY <1>4, <1>5, <1>12, <2>2
    <3>3. LastDetail(before, v.selected) => LastDetail(lookups', v.selected)
      <4>1. SUFFICES ASSUME NEW k \in 1..Len(before), before[k].kind = "detail", before[k].of = v.selected,
                            \A j \in 1..Len(before) : before[j].kind = "detail" => j <= k
                     PROVE  LastDetail(lookups', v.selected)
        BY DEF LastDetail
      <4>2. k \in 1..Len(lookups') /\ lookups'[k] = before[k]
        BY <1>5
      <4>3. \A j \in 1..Len(lookups') : lookups'[j].kind = "detail" => j <= k
        BY <1>5, <3>2, <4>1
      <4> QED BY <4>1, <4>2, <4>3 DEF LastDetail
    <3>4. NoDetail(before) => NoDetail(lookups')
      BY <1>5, <3>2 DEF NoDetail
    <3> QED BY <1>8, <3>1, <3>3, <3>4 DEF DetailComes
  <2> QED BY <2>1, <2>2
<1> QED BY <1>5, <1>8, <1>9, <1>11, <1>12 DEF ListInv

LEMMA ListHas ==
  ASSUME ListInv
  PROVE  /\ list \in ListState /\ list.open \in BOOLEAN /\ lookups \in Seq(Lookup) /\ indexedNow \subseteq Attachments /\ outOfOrder \in BOOLEAN
         /\ Shown(list) /\ LookupsLoad(list, lookups) /\ list.offset \in Nat
         /\ ~list.open => list.selected = NoAttachment /\ lookups = <<>>
         /\ ~outOfOrder /\ list.selected # NoAttachment => DetailComes(list, lookups)
BY DEF ListInv, ListState

LEMMA EmptiedIs ==
  /\ Emptied \in ListState /\ Emptied.open = FALSE /\ Emptied.selected = NoAttachment /\ Shown(Emptied)
  /\ Emptied.loadingList = FALSE /\ Emptied.loadingDetail = FALSE
<1>1. Emptied \in ListState
  BY DEF Emptied, ListState, AttachmentOrNone
<1>2. Cardinality(Attachments) \in Nat
  BY AttachmentViewsAssumption, FS_CardinalityType
<1>3. Shown(Emptied)
  BY <1>2, AttachmentViewsAssumption DEF Shown, Emptied
<1> QED BY <1>1, <1>3 DEF Emptied

LEMMA DrawerUseKeeps ==
  ASSUME ListInv, OpenAttachments \/ CloseAttachments \/ RefreshList \/ TurnPage \/ \E a \in Attachments : ChooseAttachment(a)
  PROVE  ListInv'
<1>0. /\ list \in ListState /\ list.open \in BOOLEAN /\ lookups \in Seq(Lookup) /\ indexedNow \subseteq Attachments /\ outOfOrder \in BOOLEAN
      /\ Shown(list) /\ LookupsLoad(list, lookups) /\ list.offset \in Nat
      /\ ~list.open => list.selected = NoAttachment /\ lookups = <<>>
      /\ ~outOfOrder /\ list.selected # NoAttachment => DetailComes(list, lookups)
  BY ListHas
<1>1. ASSUME OpenAttachments PROVE ListInv'
  <2> DEFINE v == [Emptied EXCEPT !.open = TRUE]
  <2>1. Redrawn(v, lookups) /\ UNCHANGED <<indexedNow, outOfOrder>>
    BY <1>1 DEF OpenAttachments
  <2>2. v \in ListState /\ v.open = TRUE /\ v.selected = NoAttachment /\ Shown(v) /\ v.loadingList = FALSE /\ v.loadingDetail = FALSE
    <3> DEFINE e == Emptied
    <3>1. /\ e \in ListState /\ e.selected = NoAttachment /\ Shown(e) /\ e.loadingList = FALSE /\ e.loadingDetail = FALSE
          /\ v = [e EXCEPT !.open = TRUE]
      BY EmptiedIs
    <3> HIDE DEF e, v
    <3>2. /\ v \in ListState /\ v.open = TRUE /\ v.selected = e.selected /\ v.items = e.items /\ v.total = e.total
          /\ v.loadingList = e.loadingList /\ v.loadingDetail = e.loadingDetail
      BY <3>1 DEF ListState
    <3> QED BY <3>1, <3>2 DEF Shown
  <2> HIDE DEF v
  <2>3. LookupsLoad(v, lookups)
    BY <2>2 DEF LookupsLoad
  <2> QED BY <1>0, <2>1, <2>2, <2>3, RedrawnKeeps
<1>2. ASSUME CloseAttachments PROVE ListInv'
  <2>1. list' = Emptied /\ lookups' = <<>> /\ outOfOrder' = FALSE /\ indexedNow' = indexedNow
    BY <1>2 DEF CloseAttachments
  <2>2. LookupsLoad(Emptied, <<>>)
    BY EmptiedIs DEF LookupsLoad
  <2>3. list' \in ListState /\ Shown(list') /\ LookupsLoad(list', lookups') /\ list'.selected = NoAttachment
    BY <2>1, <2>2, EmptiedIs
  <2>4. lookups' \in Seq(Lookup) /\ lookups' = <<>> /\ indexedNow' \subseteq Attachments /\ outOfOrder' \in BOOLEAN
    <3>1. <<>> \in Seq(Lookup)
      OBVIOUS
    <3>2. lookups' = <<>> /\ indexedNow' \subseteq Attachments /\ outOfOrder' \in BOOLEAN
      BY <1>0, <2>1
    <3> QED BY <3>1, <3>2
  <2> QED BY <2>3, <2>4 DEF ListInv
<1>3. ASSUME RefreshList PROVE ListInv'
  <2> DEFINE v == [list EXCEPT !.loadingList = TRUE]
             x == ListRequest(list)
             q == Append(lookups, x)
  <2>1. Redrawn(v, q) /\ UNCHANGED <<indexedNow, outOfOrder>> /\ list.open = TRUE
    BY <1>3, <1>0 DEF RefreshList
  <2>2. /\ v \in ListState /\ v.open = TRUE /\ v.selected = list.selected /\ v.items = list.items /\ v.total = list.total
        /\ v.detail = list.detail /\ v.loadingDetail = list.loadingDetail
    BY <1>0, <2>1 DEF ListState
  <2>3. x \in Lookup /\ x.kind = "list"
    BY <1>0 DEF ListRequest, Lookup, ListState
  <2> HIDE DEF v, x
  <2>4. /\ q \in Seq(Lookup) /\ Len(q) = Len(lookups) + 1 /\ Len(lookups) \in Nat
        /\ \A i \in 1..Len(lookups) : q[i] = lookups[i]
        /\ q[Len(lookups) + 1] = x
    <3>1. q \in Seq(Lookup)
      BY <1>0, <2>3
    <3>2. Len(q) = Len(lookups) + 1 /\ Len(lookups) \in Nat
      BY <1>0, <2>3
    <3>3. \A i \in 1..Len(lookups) : q[i] = lookups[i]
      BY <1>0, <2>3
    <3>4. q[Len(lookups) + 1] = x
      BY <1>0, <2>3
    <3> QED BY <3>1, <3>2, <3>3, <3>4
  <2> HIDE DEF q
  <2>5. Shown(v)
    BY <1>0, <2>2 DEF Shown
  <2>6. LookupsLoad(v, q)
    <3>1. Len(lookups) + 1 \in 1..Len(q) /\ q[Len(lookups) + 1].kind = "list"
      BY <2>3, <2>4
    <3>2. v.loadingDetail => \E i \in 1..Len(lookups) : lookups[i].kind = "detail"
      BY <1>0, <2>2 DEF LookupsLoad
    <3>3. v.loadingDetail => \E i \in 1..Len(q) : q[i].kind = "detail"
      BY <2>4, <3>2
    <3> QED BY <3>1, <3>3 DEF LookupsLoad
  <2>7. DetailComes(list, lookups) => DetailComes(v, q)
    <3>1. \A i \in 1..Len(q) : q[i].kind = "detail" => i \in 1..Len(lookups)
      BY <2>3, <2>4
    <3>2. LastDetail(lookups, list.selected) => LastDetail(q, list.selected)
      <4>1. SUFFICES ASSUME NEW k \in 1..Len(lookups), lookups[k].kind = "detail", lookups[k].of = list.selected,
                            \A j \in 1..Len(lookups) : lookups[j].kind = "detail" => j <= k
                     PROVE  LastDetail(q, list.selected)
        BY DEF LastDetail
      <4>2. k \in 1..Len(q) /\ q[k] = lookups[k]
        BY <2>4
      <4>3. \A j \in 1..Len(q) : q[j].kind = "detail" => j <= k
        BY <2>4, <3>1, <4>1
      <4> QED BY <4>1, <4>2, <4>3 DEF LastDetail
    <3>3. NoDetail(lookups) => NoDetail(q)
      BY <2>4, <3>1 DEF NoDetail
    <3> QED BY <2>2, <3>2, <3>3 DEF DetailComes
  <2> QED BY <1>0, <2>1, <2>2, <2>4, <2>5, <2>6, <2>7, RedrawnKeeps
<1>4. ASSUME TurnPage PROVE ListInv'
  <2>1. list.open = TRUE /\ UNCHANGED <<indexedNow, outOfOrder>> /\ \E n \in Nat : Redrawn([list EXCEPT !.offset = n], lookups)
    <3> DEFINE before == IF list.offset < PageSize THEN 0 ELSE list.offset - PageSize
               after == list.offset + PageSize
    <3>1. before \in Nat /\ after \in Nat
      BY <1>0, AttachmentViewsAssumption
    <3>2. list.open = TRUE /\ UNCHANGED <<indexedNow, outOfOrder>>
          /\ (Redrawn([list EXCEPT !.offset = before], lookups) \/ Redrawn([list EXCEPT !.offset = after], lookups))
      BY <1>4, <1>0 DEF TurnPage
    <3> QED BY <3>1, <3>2
  <2>2. PICK n \in Nat : Redrawn([list EXCEPT !.offset = n], lookups)
    BY <2>1
  <2> DEFINE v == [list EXCEPT !.offset = n]
  <2>3. /\ v \in ListState /\ v.open = TRUE /\ v.selected = list.selected /\ v.items = list.items /\ v.total = list.total
        /\ v.detail = list.detail /\ v.loadingList = list.loadingList /\ v.loadingDetail = list.loadingDetail
    BY <1>0, <2>1 DEF ListState
  <2>4. Redrawn(v, lookups)
    BY <2>2
  <2> HIDE DEF v
  <2>5. Shown(v) /\ LookupsLoad(v, lookups) /\ (DetailComes(list, lookups) => DetailComes(v, lookups))
    BY <1>0, <2>3 DEF Shown, LookupsLoad, DetailComes
  <2> QED BY <1>0, <2>1, <2>3, <2>4, <2>5, RedrawnKeeps
<1>5. ASSUME NEW a \in Attachments, ChooseAttachment(a) PROVE ListInv'
  <2> DEFINE v == [list EXCEPT !.selected = a]
  <2>1. Redrawn(v, lookups) /\ UNCHANGED <<indexedNow, outOfOrder>> /\ list.open = TRUE /\ Contains(list.items, a)
    BY <1>5, <1>0 DEF ChooseAttachment
  <2>2. /\ v \in ListState /\ v.open = TRUE /\ v.selected = a /\ v.items = list.items /\ v.total = list.total
        /\ v.detail = list.detail /\ v.loadingList = list.loadingList /\ v.loadingDetail = list.loadingDetail
    BY <1>0, <2>1 DEF ListState, AttachmentOrNone
  <2> HIDE DEF v
  <2>3. Shown(v) /\ LookupsLoad(v, lookups) /\ (a = list.selected /\ DetailComes(list, lookups) => DetailComes(v, lookups))
    BY <1>0, <2>1, <2>2 DEF Shown, LookupsLoad, DetailComes
  <2> QED BY <1>0, <2>1, <2>2, <2>3, RedrawnKeeps
<1> QED BY <1>1, <1>2, <1>3, <1>4, <1>5

LEMMA RemovedIs ==
  ASSUME NEW q \in Seq(Lookup), NEW i \in 1..Len(q)
  PROVE  /\ RemoveAt(q, i) \in Seq(Lookup) /\ Len(RemoveAt(q, i)) = Len(q) - 1 /\ Len(q) \in Nat
         /\ \A j \in 1..(Len(q) - 1) : RemoveAt(q, i)[j] = IF j < i THEN q[j] ELSE q[j + 1]
<1> DEFINE p == SubSeq(q, 1, i - 1)
           s == SubSeq(q, i + 1, Len(q))
<1>1. Len(q) \in Nat /\ i \in Nat /\ i >= 1 /\ i <= Len(q)
  OBVIOUS
<1>2. p \in Seq(Lookup) /\ Len(p) = i - 1 /\ \A j \in 1..(i - 1) : p[j] = q[j]
  <2>1. p \in Seq(Lookup)
    BY <1>1
  <2>2. Len(p) = i - 1
    BY <1>1
  <2>3. \A j \in 1..(i - 1) : p[j] = q[j]
    BY <1>1
  <2> QED BY <2>1, <2>2, <2>3
<1>3. s \in Seq(Lookup) /\ Len(s) = Len(q) - i /\ \A j \in 1..(Len(q) - i) : s[j] = q[i + j]
  <2>1. s \in Seq(Lookup)
    BY <1>1
  <2>2. Len(s) = Len(q) - i
    BY <1>1
  <2>3. \A j \in 1..(Len(q) - i) : s[j] = q[i + j]
    BY <1>1
  <2> QED BY <2>1, <2>2, <2>3
<1>4. RemoveAt(q, i) = p \o s
  BY DEF RemoveAt
<1> HIDE DEF p, s
<1>5. /\ p \o s \in Seq(Lookup) /\ Len(p \o s) = Len(p) + Len(s)
      /\ \A j \in 1..Len(p) : (p \o s)[j] = p[j]
      /\ \A j \in 1..Len(s) : (p \o s)[Len(p) + j] = s[j]
  BY <1>2, <1>3, BothAre
<1>6. ASSUME NEW j \in 1..(Len(q) - 1) PROVE (p \o s)[j] = IF j < i THEN q[j] ELSE q[j + 1]
  <2>1. CASE j < i
    BY <1>1, <1>2, <1>5, <2>1
  <2>2. CASE ~(j < i)
    <3> DEFINE k == j - (i - 1)
    <3>1. k \in 1..Len(s) /\ Len(p) + k = j /\ i + k = j + 1 /\ k \in 1..(Len(q) - i)
      BY <1>1, <1>2, <1>3, <2>2
    <3> HIDE DEF k
    <3>2. (p \o s)[Len(p) + k] = s[k]
      BY <1>5, <3>1
    <3>3. s[k] = q[i + k]
      BY <1>3, <3>1
    <3> QED BY <2>2, <3>1, <3>2, <3>3
  <2> QED BY <2>1, <2>2
<1>7. Len(p \o s) = Len(q) - 1
  BY <1>1, <1>2, <1>3, <1>5
<1> QED BY <1>1, <1>4, <1>5, <1>6, <1>7

LEMMA IndexKeeps ==
  ASSUME ListInv, ClearAll \/ \E a \in Attachments : IndexOne(a)
  PROVE  ListInv'
<1>1. indexedNow' \subseteq Attachments /\ UNCHANGED <<list, lookups, outOfOrder>>
  BY ListHas DEF ClearAll, IndexOne
<1> QED BY <1>1 DEF ListInv, Shown, LookupsLoad, DetailComes, LastDetail, NoDetail

\* What an answer leaves of the requests: those of the other kind, and in their order.
LEMMA AnswerKeeps ==
  ASSUME ListInv, NEW i \in 1..Len(lookups), NEW ok \in BOOLEAN, AttachmentAnswer(i, ok)
  PROVE  ListInv'
<1> DEFINE r == lookups[i]
           q == RemoveAt(lookups, i)
           n == Len(lookups)
<1>0. /\ list \in ListState /\ list.open \in BOOLEAN /\ lookups \in Seq(Lookup) /\ indexedNow \subseteq Attachments /\ outOfOrder \in BOOLEAN
      /\ Shown(list) /\ LookupsLoad(list, lookups) /\ list.offset \in Nat
      /\ ~list.open => list.selected = NoAttachment /\ lookups = <<>>
      /\ ~outOfOrder /\ list.selected # NoAttachment => DetailComes(list, lookups)
  BY ListHas
<1>1. list.open = TRUE /\ r \in Lookup /\ n \in Nat /\ r.of \in AttachmentOrNone /\ r.offset \in Nat /\ r.kind \in {"list", "detail"}
  <2>1. lookups # <<>> /\ r \in Lookup /\ n \in Nat
    BY <1>0
  <2> QED BY <1>0, <2>1 DEF Lookup
<1>2. /\ q \in Seq(Lookup) /\ Len(q) = n - 1
      /\ \A j \in 1..(n - 1) : q[j] = IF j < i THEN lookups[j] ELSE lookups[j + 1]
  BY <1>0, RemovedIs
<1>3. outOfOrder' \in BOOLEAN /\ indexedNow' = indexedNow
      /\ (~outOfOrder' => ~outOfOrder /\ \A j \in 1..(i - 1) : lookups[j].kind # r.kind)
  <2>1. outOfOrder' = (outOfOrder \/ \E j \in 1..(i - 1) : lookups[j].kind = r.kind) /\ indexedNow' = indexedNow
    BY DEF AttachmentAnswer
  <2> QED BY <1>0, <2>1
<1>4. Redrawn(IF r.kind = "list" THEN PageListed(list, r, ok) ELSE Detailed(list, r, ok), q)
  BY DEF AttachmentAnswer
<1> HIDE DEF q, r
<1>5. ASSUME NEW k \in 1..n, k # i
      PROVE  \E j \in 1..Len(q) : q[j] = lookups[k] /\ j = (IF k < i THEN k ELSE k - 1)
  <2>1. CASE k < i
    BY <1>1, <1>2, <2>1
  <2>2. CASE k > i
    <3>1. k - 1 \in 1..Len(q) /\ ~(k - 1 < i) /\ (k - 1) + 1 = k /\ k - 1 \in 1..(n - 1)
      BY <1>1, <1>2, <2>2
    <3>2. q[k - 1] = lookups[(k - 1) + 1]
      BY <1>2, <3>1
    <3> QED BY <2>2, <3>1, <3>2
  <2> QED BY <1>1, <1>5, <2>1, <2>2
<1>6. ASSUME NEW j \in 1..Len(q)
      PROVE  \E k \in 1..n : k # i /\ q[j] = lookups[k] /\ j = (IF k < i THEN k ELSE k - 1)
  <2>1. CASE j < i
    <3>1. j \in 1..n /\ q[j] = lookups[j]
      BY <1>1, <1>2, <2>1
    <3> QED BY <2>1, <3>1
  <2>2. CASE ~(j < i)
    <3>1. j + 1 \in 1..n /\ q[j] = lookups[j + 1] /\ j + 1 # i /\ ~(j + 1 < i) /\ j = (j + 1) - 1
      BY <1>1, <1>2, <2>2
    <3> QED BY <3>1
  <2> QED BY <2>1, <2>2
<1>7. \A kind : kind # r.kind /\ (\E k \in 1..n : lookups[k].kind = kind) => \E j \in 1..Len(q) : q[j].kind = kind
  <2> SUFFICES ASSUME NEW kind, kind # r.kind, NEW k \in 1..n, lookups[k].kind = kind
               PROVE  \E j \in 1..Len(q) : q[j].kind = kind
    OBVIOUS
  <2>1. k # i
    BY DEF r
  <2> QED BY <1>5, <2>1
\* An answer other than that of the last detail asked for leaves it to come.
<1>8. ASSUME NEW a, LastDetail(lookups, a), r.kind # "detail" \/ \E k \in 1..n : k > i /\ lookups[k].kind = "detail"
      PROVE  LastDetail(q, a)
  <2>1. PICK k \in 1..n : lookups[k].kind = "detail" /\ lookups[k].of = a /\ \A j \in 1..n : lookups[j].kind = "detail" => j <= k
    BY <1>8 DEF LastDetail
  <2>2. k # i
    BY <1>1, <1>8, <2>1 DEF r
  <2>3. PICK p \in 1..Len(q) : q[p] = lookups[k] /\ p = (IF k < i THEN k ELSE k - 1)
    BY <1>5, <2>2
  <2>4. ASSUME NEW j \in 1..Len(q), q[j].kind = "detail" PROVE j <= p
    <3>1. PICK m \in 1..n : m # i /\ q[j] = lookups[m] /\ j = (IF m < i THEN m ELSE m - 1)
      BY <1>6
    <3>2. m <= k
      BY <2>1, <2>4, <3>1
    <3> QED BY <1>1, <2>2, <2>3, <3>1, <3>2
  <2> QED BY <2>1, <2>3, <2>4 DEF LastDetail
<1>9. NoDetail(lookups) => NoDetail(q)
  BY <1>6 DEF NoDetail
<1>10. CASE r.kind = "list"
  <2> DEFINE v == PageListed(list, r, ok)
             page == PageAt(r.offset)
             none == ~ok \/ page = <<>>
             sel == IF ok THEN SelectedIn(page, r.of) ELSE NoAttachment
             its == IF ok THEN page ELSE <<>>
             tot == IF ok THEN Cardinality(indexedNow) ELSE 0
             det == IF none THEN NoAttachment ELSE list.detail
  <2>1. page \in Seq(Attachments) /\ Len(page) <= PageSize
    BY <1>1, PageIs
  <2>2. v = [list EXCEPT !.items = its, !.total = tot, !.selected = sel, !.detail = det, !.loadingList = FALSE]
    BY DEF PageListed
  <2>3. Redrawn(v, q)
    BY <1>4, <1>10
  <2> HIDE DEF v, page
  <2>4. its \in Seq(Attachments) /\ Len(its) <= PageSize /\ (none => sel = NoAttachment)
    BY <2>1, AttachmentViewsAssumption DEF SelectedIn
  <2>5. sel \in AttachmentOrNone /\ (sel = NoAttachment \/ Contains(its, sel))
    <3>1. CASE none
      BY <2>4, <3>1 DEF AttachmentOrNone
    <3>2. CASE ~none /\ Contains(page, r.of)
      BY <1>1, <3>2 DEF SelectedIn
    <3>3. CASE ~none /\ ~Contains(page, r.of)
      <4>1. sel = page[1] /\ 1 \in 1..Len(page) /\ its = page
        BY <2>1, <3>3 DEF SelectedIn
      <4> QED BY <2>1, <4>1 DEF Contains, AttachmentOrNone
    <3> QED BY <3>1, <3>2, <3>3
  <2>6. tot \in Nat /\ tot <= Cardinality(Attachments)
    <3>1. IsFiniteSet(Attachments) /\ Cardinality(Attachments) \in Nat
      BY AttachmentViewsAssumption, FS_CardinalityType
    <3>2. Cardinality(indexedNow) <= Cardinality(Attachments) /\ IsFiniteSet(indexedNow)
      BY <1>0, <3>1, FS_Subset
    <3>3. Cardinality(indexedNow) \in Nat
      BY <3>2, FS_CardinalityType
    <3> QED BY <3>1, <3>2, <3>3
  <2>7. det \in AttachmentOrNone /\ (det = list.detail \/ det = NoAttachment)
    BY <1>0 DEF ListState, AttachmentOrNone
  <2> HIDE DEF its, tot, sel, det
  <2>8. /\ v \in ListState /\ v.open = TRUE /\ v.items = its /\ v.total = tot /\ v.selected = sel /\ v.detail = det
        /\ v.loadingList = FALSE /\ v.loadingDetail = list.loadingDetail
    BY <1>0, <1>1, <2>2, <2>4, <2>5, <2>6, <2>7 DEF ListState
  <2>9. Shown(v)
    BY <2>4, <2>5, <2>6, <2>8 DEF Shown
  <2>10. LookupsLoad(v, q)
    BY <1>0, <1>7, <1>10, <2>8 DEF LookupsLoad
  <2>11. ASSUME sel = list.selected, sel # NoAttachment, ~outOfOrder' PROVE DetailComes(v, q)
    <3>1. DetailComes(list, lookups)
      BY <1>0, <1>3, <2>11
    <3>2. LastDetail(lookups, sel) => LastDetail(q, sel)
      BY <1>8, <1>10
    <3> QED BY <1>9, <2>7, <2>8, <2>11, <3>1, <3>2 DEF DetailComes
  <2> QED BY <1>0, <1>1, <1>2, <1>3, <2>3, <2>8, <2>9, <2>10, <2>11, RedrawnKeeps
<1>11. CASE r.kind = "detail"
  <2> DEFINE v == Detailed(list, r, ok)
             det == IF ok THEN GetAttachment(r.of) ELSE NoAttachment
  <2>1. v = [list EXCEPT !.detail = det, !.loadingDetail = FALSE]
    BY DEF Detailed
  <2>2. Redrawn(v, q)
    BY <1>4, <1>11
  <2>3. det \in AttachmentOrNone /\ det \in {r.of, NoAttachment}
    BY <1>1 DEF GetAttachment, AttachmentOrNone
  <2> HIDE DEF v, det
  <2>4. /\ v \in ListState /\ v.open = TRUE /\ v.items = list.items /\ v.total = list.total /\ v.selected = list.selected /\ v.detail = det
        /\ v.loadingList = list.loadingList /\ v.loadingDetail = FALSE
    BY <1>0, <1>1, <2>1, <2>3 DEF ListState
  <2>5. Shown(v) /\ LookupsLoad(v, q)
    BY <1>0, <1>7, <1>11, <2>4 DEF Shown, LookupsLoad
  <2>6. ASSUME list.selected # NoAttachment, ~outOfOrder' PROVE DetailComes(v, q)
    <3>1. LastDetail(lookups, list.selected)
      BY <1>0, <1>1, <1>3, <1>11, <2>6 DEF DetailComes, NoDetail, r
    <3>2. CASE \E k \in 1..n : k > i /\ lookups[k].kind = "detail"
      BY <1>8, <2>4, <3>1, <3>2 DEF DetailComes
    <3>3. CASE \A k \in 1..n : k > i => lookups[k].kind # "detail"
      <4>1. \A k \in 1..n : k # i => lookups[k].kind # "detail"
        BY <1>1, <1>3, <1>11, <2>6, <3>3
      <4>2. NoDetail(q)
        BY <1>6, <4>1 DEF NoDetail
      <4>3. r.of = list.selected
        BY <3>1, <4>1 DEF LastDetail, r
      <4> QED BY <2>3, <2>4, <4>2, <4>3 DEF DetailComes
    <3> QED BY <3>2, <3>3
  <2> QED BY <1>0, <1>1, <1>2, <1>3, <2>2, <2>4, <2>5, <2>6, RedrawnKeeps
<1> QED BY <1>1, <1>10, <1>11

LEMMA ListInit == AttachmentViewsInit => ListInv
<1> SUFFICES ASSUME AttachmentViewsInit PROVE ListInv
  OBVIOUS
<1>1. indexedNow \subseteq Attachments /\ list = Emptied /\ lookups = <<>> /\ outOfOrder = FALSE
  BY DEF AttachmentViewsInit
<1>2. LookupsLoad(Emptied, <<>>)
  BY EmptiedIs DEF LookupsLoad
<1>3. list \in ListState /\ Shown(list) /\ LookupsLoad(list, lookups) /\ list.selected = NoAttachment
  BY <1>1, <1>2, EmptiedIs
<1>4. lookups \in Seq(Lookup) /\ outOfOrder \in BOOLEAN
  <2>1. <<>> \in Seq(Lookup)
    OBVIOUS
  <2> QED BY <1>1, <2>1
<1> QED BY <1>1, <1>3, <1>4 DEF ListInv

LEMMA ListStep == ListInv /\ [AttachmentViewsNext]_listVars => ListInv'
<1> SUFFICES ASSUME ListInv, [AttachmentViewsNext]_listVars PROVE ListInv'
  OBVIOUS
<1>1. CASE UNCHANGED listVars
  BY <1>1 DEF listVars, ListInv, Shown, LookupsLoad, DetailComes, LastDetail, NoDetail
<1>2. CASE AttachmentViewsNext
  BY <1>2, DrawerUseKeeps, IndexKeeps, AnswerKeeps DEF AttachmentViewsNext
<1> QED BY <1>1, <1>2

LEMMA ListShown == ListInv => AttachmentViewsCorrect
<1> SUFFICES ASSUME ListInv PROVE AttachmentViewsCorrect
  OBVIOUS
<1>0. /\ list \in ListState /\ lookups \in Seq(Lookup) /\ indexedNow \subseteq Attachments
      /\ Shown(list) /\ LookupsLoad(list, lookups)
      /\ ~outOfOrder /\ list.selected # NoAttachment => DetailComes(list, lookups)
  BY ListHas
<1>1. list.selected \in AttachmentOrNone /\ list.detail \in AttachmentOrNone
  BY <1>0 DEF ListState
<1>2. AttachmentViewsTypeOK
  BY <1>0, <1>1 DEF AttachmentViewsTypeOK, Shown, AttachmentOrNone
<1>3. SelectionShown
  BY <1>0 DEF SelectionShown, Shown
<1>4. DetailOfSelection
  <2>1. lookups = <<>> => ~LastDetail(lookups, list.selected)
    BY DEF LastDetail
  <2> QED BY <1>0, <2>1 DEF DetailOfSelection, DetailComes
<1>5. LoadsEnd
  BY <1>0 DEF LoadsEnd, LookupsLoad
<1> QED BY <1>2, <1>3, <1>4, <1>5 DEF AttachmentViewsCorrect

\* The attachment browser: whatever answers come late, the attachment selected is
\* one of the page that is shown, its detail is its own when answers came in
\* order, and nothing is said to load for ever (ImapAttachmentBrowserDrawer).
THEOREM AttachmentBrowserIsCorrect == AttachmentViewsSpec => []AttachmentViewsCorrect
BY ListInit, ListStep, ListShown, PTL DEF AttachmentViewsSpec

-----------------------------------------------------------------------------
(* The content drawer, for any references and any number of requests.      *)

RefOrNone == Refs \cup {NoRef}
ShownState == {NoItem} \cup [ref : Refs, deleted : BOOLEAN]
DrawerState ==
  [open : BOOLEAN, route : RefOrNone, selected : RefOrNone, shown : ShownState,
   loading : BOOLEAN, dialog : RefOrNone, deleting : BOOLEAN, url : Nat]
RequestKind == {"detail", "preview", "delete", "delete-shown", "reload", "reload-shown"}
RequestState == {NoCall} \cup [kind : RequestKind, ref : Refs]
Deletion == {"delete", "delete-shown", "reload", "reload-shown"}

\* A deletion is under way in call c.
DeletesIn(q, c) == q[c] # NoCall /\ q[c].kind \in Deletion
OneDeletion(q, d) ==
  /\ d.deleting <=> \E c \in Calls : DeletesIn(q, c)
  /\ \A c \in Calls : DeletesIn(q, c) =>
       /\ d.dialog = q[c].ref
       /\ \A b \in Calls : DeletesIn(q, b) => b = c

DrawerInv ==
  /\ item \in [Refs -> {"live", "deleted", "gone"}]
  /\ drawer \in DrawerState /\ request \in [Calls -> RequestState]
  /\ RouteSelected /\ UrlsReleased
  /\ OneDeletion(request, drawer)

LEMMA RefNone == NoRef \notin Refs /\ NoRef \in RefOrNone /\ Refs \subseteq RefOrNone
BY ContentViewsAssumption DEF NoRef, RefOrNone

LEMMA NoItemIs == NoItem \in ShownState /\ NoItem.ref = NoRef
BY DEF NoItem, ShownState

LEMMA RequestIs ==
  ASSUME NEW kind \in RequestKind, NEW r \in Refs
  PROVE  /\ ViewAsks(kind, r) \in RequestState /\ ViewAsks(kind, r) # NoCall
         /\ ViewAsks(kind, r).kind = kind /\ ViewAsks(kind, r).ref = r
<1>1. ViewAsks(kind, r) \in [kind : RequestKind, ref : Refs] /\ ViewAsks(kind, r).kind = kind /\ ViewAsks(kind, r).ref = r
  BY DEF ViewAsks
<1>2. ViewAsks(kind, r) # NoCall
  BY DEF ViewAsks, NoCall, RequestKind
<1> QED BY <1>1, <1>2 DEF RequestState

LEMMA SelectingIs ==
  ASSUME NEW d \in DrawerState, NEW r \in Refs
  PROVE  LET e == Selecting(d, r) IN
         /\ e \in DrawerState /\ e.selected = r
         /\ e.open = d.open /\ e.route = d.route /\ e.dialog = d.dialog /\ e.deleting = d.deleting /\ e.url = d.url
<1> DEFINE e == Selecting(d, r)
<1>1. e = [d EXCEPT !.selected = r, !.loading = TRUE]
  BY DEF Selecting
<1> HIDE DEF e
<1> QED BY <1>1, RefNone DEF DrawerState, e

LEMMA ClearedIs ==
  ASSUME NEW d \in DrawerState
  PROVE  LET e == Cleared(d) IN
         /\ e \in DrawerState
         /\ e.open = d.open /\ e.route = d.route /\ e.dialog = d.dialog /\ e.deleting = d.deleting /\ e.url = d.url
<1> DEFINE e == Cleared(d)
<1>1. e = [d EXCEPT !.selected = NoRef, !.shown = NoItem, !.loading = FALSE]
  BY DEF Cleared
<1> HIDE DEF e
<1> QED BY <1>1, RefNone, NoItemIs DEF DrawerState, e

\* The effects select what the address names, and leave the dialog and the preview.
LEMMA EffectsIs ==
  ASSUME NEW d \in DrawerState
  PROVE  LET e == Effects(d) IN
         /\ e \in DrawerState
         /\ e.open = d.open /\ e.route = d.route /\ e.dialog = d.dialog /\ e.deleting = d.deleting /\ e.url = d.url
         /\ e.open /\ e.route # NoRef => e.selected = e.route
<1> DEFINE e == Effects(d)
           turned == ~drawer.open \/ d.route # drawer.route
<1>1. d.open \in BOOLEAN /\ d.route \in RefOrNone
  BY DEF DrawerState
<1>2. CASE ~d.open
  BY <1>2 DEF Effects
<1>3. CASE d.open /\ d.route = NoRef /\ turned
  <2>1. e = Cleared(d)
    BY <1>3 DEF Effects
  <2> QED BY <2>1, <1>3, ClearedIs
<1>4. CASE d.open /\ d.route # NoRef /\ (turned \/ d.route # d.selected)
  <2>1. e = Selecting(d, d.route) /\ d.route \in Refs
    BY <1>1, <1>4 DEF Effects, RefOrNone
  <2> DEFINE r == d.route
             f == Selecting(d, r)
  <2>2. f \in DrawerState /\ f.selected = r
        /\ f.open = d.open /\ f.route = d.route /\ f.dialog = d.dialog /\ f.deleting = d.deleting /\ f.url = d.url
    BY <2>1, SelectingIs
  <2>3. e = f
    BY <2>1
  <2> HIDE DEF e, f
  <2>4. /\ e \in DrawerState
        /\ e.open = d.open /\ e.route = d.route /\ e.dialog = d.dialog /\ e.deleting = d.deleting /\ e.url = d.url
        /\ e.selected = e.route
    BY <2>2, <2>3
  <2> QED BY <2>4 DEF e
<1>5. CASE d.open /\ ~(d.route = NoRef /\ turned) /\ ~(d.route # NoRef /\ (turned \/ d.route # d.selected))
  <2>1. e = d
    BY <1>5 DEF Effects
  <2> QED BY <2>1, <1>5
<1> QED BY <1>1, <1>2, <1>3, <1>4, <1>5

\* The drawer becomes d and calls cs are under way: new ones ask for details alone.
LEMMA BecomesIs ==
  ASSUME NEW d \in DrawerState, NEW cs \in [Calls -> RequestState], NEW loads \in SUBSET Refs, DrawerBecomes(d, cs, loads)
  PROVE  /\ drawer' \in DrawerState /\ RouteSelected' /\ request' \in [Calls -> RequestState]
         /\ drawer'.url = d.url
         /\ OneDeletion(cs, d) => OneDeletion(request', drawer')
<1> DEFINE e == Effects(d)
           wanted == loads \cup (IF e # d /\ e.selected # NoRef THEN {e.selected} ELSE {})
           free == {c \in Calls : cs[c] = NoCall}
<1>1. /\ e \in DrawerState
      /\ e.open = d.open /\ e.route = d.route /\ e.dialog = d.dialog /\ e.deleting = d.deleting /\ e.url = d.url
      /\ e.open /\ e.route # NoRef => e.selected = e.route
  BY EffectsIs
<1>2. PICK slots \in [wanted -> free] :
        request' = [c \in Calls |-> IF \E r \in wanted : slots[r] = c
                                    THEN ViewAsks("detail", CHOOSE r \in wanted : slots[r] = c) ELSE cs[c]]
  BY DEF DrawerBecomes
<1>3. drawer' = e
  BY DEF DrawerBecomes
<1> HIDE DEF e
<1>4. wanted \subseteq Refs
  BY <1>1 DEF DrawerState, RefOrNone
<1> HIDE DEF wanted
<1>5. ASSUME NEW c \in Calls
      PROVE  request'[c] \in RequestState /\ (request'[c] = cs[c] \/ (cs[c] = NoCall /\ ~DeletesIn(request', c)))
  <2>1. CASE \E r \in wanted : slots[r] = c
    <3> DEFINE r == CHOOSE r \in wanted : slots[r] = c
    <3>1. r \in wanted /\ slots[r] = c
      BY <2>1
    <3>2. request'[c] = ViewAsks("detail", r)
      BY <1>2, <2>1
    <3> HIDE DEF r
    <3>3. r \in Refs /\ cs[c] = NoCall
      BY <1>4, <3>1
    <3>4. request'[c] \in RequestState /\ request'[c].kind = "detail"
      BY <3>2, <3>3, RequestIs DEF RequestKind
    <3> QED BY <3>3, <3>4 DEF DeletesIn, Deletion
  <2>2. CASE ~ \E r \in wanted : slots[r] = c
    BY <1>2, <2>2
  <2> QED BY <2>1, <2>2
<1>6. request' \in [Calls -> RequestState]
  BY <1>2, <1>5
<1>7. \A c \in Calls : DeletesIn(request', c) <=> DeletesIn(cs, c)
  BY <1>5 DEF DeletesIn
<1>8. \A c \in Calls : DeletesIn(cs, c) => request'[c] = cs[c]
  BY <1>5 DEF DeletesIn
<1>9. OneDeletion(cs, d) => OneDeletion(request', e)
  BY <1>1, <1>7, <1>8 DEF OneDeletion
<1> QED BY <1>1, <1>3, <1>6, <1>9 DEF RouteSelected

LEMMA DrawerHas ==
  ASSUME DrawerInv
  PROVE  /\ drawer \in DrawerState /\ drawer.dialog \in RefOrNone /\ drawer.selected \in RefOrNone
         /\ drawer.shown \in ShownState /\ drawer.shown.ref \in RefOrNone /\ (drawer.shown # NoItem => drawer.shown.ref \in Refs) /\ ActiveRef \in RefOrNone
         /\ request \in [Calls -> RequestState] /\ OneDeletion(request, drawer) /\ urls \subseteq {drawer.url}
<1>1. drawer \in DrawerState /\ request \in [Calls -> RequestState] /\ OneDeletion(request, drawer) /\ urls \subseteq {drawer.url}
  BY DEF DrawerInv, UrlsReleased
<1>2. drawer.dialog \in RefOrNone /\ drawer.selected \in RefOrNone /\ drawer.shown \in ShownState
  BY <1>1 DEF DrawerState
<1>3. drawer.shown.ref \in RefOrNone /\ (drawer.shown # NoItem => drawer.shown.ref \in Refs)
  BY <1>2, NoItemIs, RefNone DEF ShownState
<1> QED BY <1>1, <1>2, <1>3 DEF ActiveRef

\* A step of the drawer that leaves the preview, or lets it go.
LEMMA BecomesKeeps ==
  ASSUME DrawerInv, NEW d \in DrawerState, NEW cs \in [Calls -> RequestState], NEW loads \in SUBSET Refs,
         DrawerBecomes(d, cs, loads), OneDeletion(cs, d), urls' \subseteq {d.url},
         item' \in [Refs -> {"live", "deleted", "gone"}]
  PROVE  DrawerInv'
BY BecomesIs DEF DrawerInv, UrlsReleased

\* Another drawer with the same dialog.
LEMMA SameDialog ==
  ASSUME NEW q, NEW d, NEW e, OneDeletion(q, d), e.dialog = d.dialog, e.deleting = d.deleting
  PROVE  OneDeletion(q, e)
BY DEF OneDeletion

LEMMA ReleasedIs == ASSUME DrawerInv PROVE Released(0) \subseteq {0}
BY DrawerHas DEF Released

LEMMA UserKeeps ==
  ASSUME DrawerInv, item' = item, NEW r \in RefOrNone,
         Follow(r) \/ CloseDrawer \/ (r # NoRef /\ Select(r)) \/ Back \/ RefreshItem
  PROVE  DrawerInv'
<1>1. /\ drawer \in DrawerState /\ request \in [Calls -> RequestState] /\ OneDeletion(request, drawer)
      /\ urls \subseteq {drawer.url} /\ {} \in SUBSET Refs
  BY DrawerHas
<1>2. item' \in [Refs -> {"live", "deleted", "gone"}]
  BY DEF DrawerInv
<1>3. ASSUME Follow(r) PROVE DrawerInv'
  <2> DEFINE d == [drawer EXCEPT !.open = TRUE, !.route = r]
  <2>1. DrawerBecomes(d, request, {}) /\ urls' = urls
    BY <1>3 DEF Follow
  <2>2. d \in DrawerState /\ d.dialog = drawer.dialog /\ d.deleting = drawer.deleting /\ d.url = drawer.url
    BY <1>1 DEF DrawerState
  <2> HIDE DEF d
  <2>3. OneDeletion(request, d)
    BY <1>1, <2>2, SameDialog
  <2> QED BY <1>1, <1>2, <2>1, <2>2, <2>3, BecomesKeeps
<1>4. ASSUME CloseDrawer PROVE DrawerInv'
  <2> DEFINE d == [drawer EXCEPT !.open = FALSE, !.route = NoRef]
  <2>1. DrawerBecomes(d, request, {}) /\ urls' = urls
    BY <1>4 DEF CloseDrawer
  <2>2. d \in DrawerState /\ d.dialog = drawer.dialog /\ d.deleting = drawer.deleting /\ d.url = drawer.url
    BY <1>1, RefNone DEF DrawerState
  <2> HIDE DEF d
  <2>3. OneDeletion(request, d)
    BY <1>1, <2>2, SameDialog
  <2> QED BY <1>1, <1>2, <2>1, <2>2, <2>3, BecomesKeeps
<1>5. ASSUME r # NoRef, Select(r) PROVE DrawerInv'
  <2> DEFINE s == Selecting(drawer, r)
             w == WithoutPreview(s)
             d == [w EXCEPT !.route = r]
  <2>1. DrawerBecomes(d, request, {r}) /\ urls' = Released(0)
    BY <1>5 DEF Select
  <2>2. r \in Refs /\ {r} \in SUBSET Refs
    BY <1>5 DEF RefOrNone
  <2>3. s \in DrawerState /\ s.dialog = drawer.dialog /\ s.deleting = drawer.deleting
    BY <1>1, <2>2, SelectingIs
  <2> HIDE DEF s
  <2>4. w \in DrawerState /\ w.dialog = drawer.dialog /\ w.deleting = drawer.deleting /\ w.url = 0
    BY <2>3 DEF DrawerState, WithoutPreview
  <2> HIDE DEF w
  <2>5. d \in DrawerState /\ d.dialog = drawer.dialog /\ d.deleting = drawer.deleting /\ d.url = 0
    BY <2>4 DEF DrawerState
  <2> HIDE DEF d
  <2>6. OneDeletion(request, d) /\ urls' \subseteq {d.url}
    BY <1>1, <2>1, <2>5, SameDialog, ReleasedIs
  <2> QED BY <1>1, <1>2, <2>1, <2>2, <2>5, <2>6, BecomesKeeps
<1>6. ASSUME Back PROVE DrawerInv'
  <2> DEFINE s == Cleared(drawer)
             w == WithoutPreview(s)
             d == [w EXCEPT !.route = NoRef]
  <2>1. DrawerBecomes(d, request, {}) /\ urls' = Released(0)
    BY <1>6 DEF Back
  <2>3. s \in DrawerState /\ s.dialog = drawer.dialog /\ s.deleting = drawer.deleting
    BY <1>1, ClearedIs
  <2> HIDE DEF s
  <2>4. w \in DrawerState /\ w.dialog = drawer.dialog /\ w.deleting = drawer.deleting /\ w.url = 0
    BY <2>3 DEF DrawerState, WithoutPreview
  <2> HIDE DEF w
  <2>5. d \in DrawerState /\ d.dialog = drawer.dialog /\ d.deleting = drawer.deleting /\ d.url = 0
    BY <2>4, RefNone DEF DrawerState
  <2> HIDE DEF d
  <2>6. OneDeletion(request, d) /\ urls' \subseteq {d.url}
    BY <1>1, <2>1, <2>5, SameDialog, ReleasedIs
  <2> QED BY <1>1, <1>2, <2>1, <2>5, <2>6, BecomesKeeps
<1>7. ASSUME RefreshItem PROVE DrawerInv'
  <2> DEFINE a == ActiveRef
             d == Selecting(drawer, a)
  <2>1. DrawerBecomes(d, request, {a}) /\ urls' = urls /\ a \in Refs
    BY <1>7, DrawerHas DEF RefreshItem, RefOrNone
  <2> HIDE DEF a
  <2>2. d \in DrawerState /\ d.dialog = drawer.dialog /\ d.deleting = drawer.deleting /\ d.url = drawer.url
    BY <1>1, <2>1, SelectingIs
  <2> HIDE DEF d
  <2>3. OneDeletion(request, d) /\ {a} \in SUBSET Refs
    BY <1>1, <2>1, <2>2, SameDialog
  <2> QED BY <1>1, <1>2, <2>1, <2>2, <2>3, BecomesKeeps
<1> QED BY <1>3, <1>4, <1>5, <1>6, <1>7

\* A request that is none of a deletion, or the end of one that is none.
LEMMA RequestKeeps ==
  ASSUME DrawerInv, NEW c \in Calls, NEW x \in RequestState, NEW d \in DrawerState,
         ~DeletesIn(request, c), x = NoCall \/ x.kind \notin Deletion,
         d.dialog = drawer.dialog, d.deleting = drawer.deleting
  PROVE  [request EXCEPT ![c] = x] \in [Calls -> RequestState] /\ OneDeletion([request EXCEPT ![c] = x], d)
<1> DEFINE q == [request EXCEPT ![c] = x]
<1>1. /\ q \in [Calls -> RequestState] /\ q[c] = x /\ \A b \in Calls : b # c => q[b] = request[b]
  BY DrawerHas
<1> HIDE DEF q
<1>2. \A b \in Calls : DeletesIn(q, b) <=> DeletesIn(request, b)
  BY <1>1 DEF DeletesIn
<1>3. \A b \in Calls : DeletesIn(q, b) => q[b] = request[b]
  BY <1>1 DEF DeletesIn
<1>4. OneDeletion(q, d)
  BY <1>2, <1>3, DrawerHas DEF OneDeletion
<1> QED BY <1>1, <1>4 DEF q

\* The deletion under way is followed by x, for the same reference, or has ended.
LEMMA DeletionKeeps ==
  ASSUME DrawerInv, NEW c \in Calls, NEW x \in RequestState, NEW d \in DrawerState,
         DeletesIn(request, c),
         \/ x = NoCall /\ d.deleting = FALSE
         \/ x # NoCall /\ x.kind \in Deletion /\ x.ref = request[c].ref /\ d.deleting = drawer.deleting /\ d.dialog = drawer.dialog
  PROVE  [request EXCEPT ![c] = x] \in [Calls -> RequestState] /\ OneDeletion([request EXCEPT ![c] = x], d)
<1> DEFINE q == [request EXCEPT ![c] = x]
<1>1. /\ q \in [Calls -> RequestState] /\ q[c] = x /\ \A b \in Calls : b # c => q[b] = request[b]
  BY DrawerHas
<1> HIDE DEF q
<1>2. \A b \in Calls : b # c => ~DeletesIn(request, b) /\ ~DeletesIn(q, b)
  BY <1>1, DrawerHas DEF OneDeletion, DeletesIn
<1>3. drawer.deleting = TRUE /\ drawer.dialog = request[c].ref
  BY DrawerHas DEF OneDeletion, DrawerState
<1>4. OneDeletion(q, d)
  <2>1. CASE x = NoCall /\ d.deleting = FALSE
    BY <1>1, <1>2, <2>1 DEF OneDeletion, DeletesIn
  <2>2. CASE x # NoCall /\ x.kind \in Deletion /\ x.ref = request[c].ref /\ d.deleting = drawer.deleting /\ d.dialog = drawer.dialog
    <3>1. DeletesIn(q, c) /\ q[c].ref = d.dialog /\ d.deleting = TRUE
      BY <1>1, <1>3, <2>2 DEF DeletesIn
    <3> QED BY <3>1, <1>2 DEF OneDeletion
  <2> QED BY <2>1, <2>2
<1> QED BY <1>1, <1>4 DEF q

\* A request that is none of a deletion ends, or one of a deletion does.
LEMMA DoneKeeps ==
  ASSUME DrawerInv, NEW c \in Calls, NEW d \in DrawerState,
         \/ ~DeletesIn(request, c) /\ d.dialog = drawer.dialog /\ d.deleting = drawer.deleting
         \/ DeletesIn(request, c) /\ d.deleting = FALSE
  PROVE  Done(c) \in [Calls -> RequestState] /\ OneDeletion(Done(c), d)
<1> DEFINE x == NoCall
<1>1. x \in RequestState /\ x = NoCall /\ Done(c) = [request EXCEPT ![c] = x]
  BY DEF RequestState, Done
<1> HIDE DEF x
<1>2. CASE ~DeletesIn(request, c) /\ d.dialog = drawer.dialog /\ d.deleting = drawer.deleting
  <2>1. [request EXCEPT ![c] = x] \in [Calls -> RequestState] /\ OneDeletion([request EXCEPT ![c] = x], d)
    BY <1>1, <1>2, RequestKeeps
  <2> QED BY <1>1, <2>1
<1>3. CASE DeletesIn(request, c) /\ d.deleting = FALSE
  <2>1. [request EXCEPT ![c] = x] \in [Calls -> RequestState] /\ OneDeletion([request EXCEPT ![c] = x], d)
    BY <1>1, <1>3, DeletionKeeps
  <2> QED BY <1>1, <2>1
<1> QED BY <1>2, <1>3

LEMMA LoadedIs ==
  ASSUME DrawerInv, NEW d \in DrawerState, NEW r \in Refs, NEW ok
  PROVE  /\ Loaded(d, r, ok) \in DrawerState
         /\ Loaded(d, r, ok).dialog = d.dialog /\ Loaded(d, r, ok).deleting = d.deleting /\ Loaded(d, r, ok).url = d.url
<1> DEFINE deleted == item[r] = "deleted"
           x == IF ok THEN [ref |-> r, deleted |-> deleted] ELSE NoItem
           e == [d EXCEPT !.shown = x, !.loading = FALSE]
<1>1. x \in ShownState
  BY NoItemIs DEF ShownState
<1>2. Loaded(d, r, ok) = e
  BY DEF Loaded
<1> HIDE DEF x
<1>3. e \in DrawerState /\ e.dialog = d.dialog /\ e.deleting = d.deleting /\ e.url = d.url
  BY <1>1 DEF DrawerState
<1> QED BY <1>2, <1>3

LEMMA HiddenIs ==
  ASSUME NEW d \in DrawerState
  PROVE  /\ WithoutPreview(d) \in DrawerState /\ WithoutPreview(d).url = 0
         /\ WithoutPreview(d).dialog = d.dialog /\ WithoutPreview(d).deleting = d.deleting
BY DEF WithoutPreview, DrawerState

LEMMA KeptIs ==
  ASSUME NEW d \in DrawerState
  PROVE  KeptDrawer(d) \in DrawerState /\ KeptDrawer(d).deleting = FALSE /\ KeptDrawer(d).url = d.url
BY RefNone DEF KeptDrawer, DrawerState

LEMMA UnderIs ==
  ASSUME DrawerInv, NEW c \in Calls, NEW kinds \in SUBSET RequestKind, Under(c, kinds)
  PROVE  request[c] \in [kind : RequestKind, ref : Refs] /\ request[c] # NoCall /\ request[c].kind \in kinds /\ request[c].ref \in Refs
BY DrawerHas DEF Under, RequestState

\* A request begins: for a preview, or to delete what the dialog names.
LEMMA CallBeginKeeps ==
  ASSUME DrawerInv, item' = item, NEW c \in Calls, Preview(c) \/ ConfirmDelete(c)
  PROVE  DrawerInv'
<1>1. /\ drawer \in DrawerState /\ request \in [Calls -> RequestState] /\ OneDeletion(request, drawer)
      /\ urls \subseteq {drawer.url} /\ {} \in SUBSET Refs
  BY DrawerHas
<1>2. item' \in [Refs -> {"live", "deleted", "gone"}]
  BY DEF DrawerInv
<1>3. ASSUME Preview(c) PROVE DrawerInv'
  <2> DEFINE a == ActiveRef
             x == ViewAsks("preview", a)
             d == WithoutPreview(drawer)
  <2>1. DrawerBecomes(d, [request EXCEPT ![c] = x], {}) /\ urls' = Released(0) /\ request[c] = NoCall
    BY <1>3 DEF Preview, BeginCall, Free
  <2>2. a \in Refs
    BY <1>3, DrawerHas DEF Preview, ShowsDetails, ActiveRef
  <2> HIDE DEF a
  <2>3. x \in RequestState /\ x.kind \notin Deletion
    BY <2>2, RequestIs DEF RequestKind, Deletion
  <2>4. d \in DrawerState /\ d.dialog = drawer.dialog /\ d.deleting = drawer.deleting /\ d.url = 0
    BY <1>1, HiddenIs
  <2>5. ~DeletesIn(request, c)
    BY <2>1 DEF DeletesIn
  <2> HIDE DEF x, d
  <2>6. [request EXCEPT ![c] = x] \in [Calls -> RequestState] /\ OneDeletion([request EXCEPT ![c] = x], d)
    BY <2>3, <2>4, <2>5, RequestKeeps
  <2>7. urls' \subseteq {d.url}
    BY <2>1, <2>4, ReleasedIs
  <2> QED BY <1>1, <1>2, <2>1, <2>4, <2>6, <2>7, BecomesKeeps
<1>4. ASSUME ConfirmDelete(c) PROVE DrawerInv'
  <2> DEFINE r == drawer.dialog
             k == IF drawer.dialog \in {drawer.selected, drawer.shown.ref} THEN "delete-shown" ELSE "delete"
             x == ViewAsks(k, r)
             d == [drawer EXCEPT !.deleting = TRUE]
             q == [request EXCEPT ![c] = x]
  <2>1. /\ DrawerBecomes(d, q, {}) /\ urls' = urls /\ request[c] = NoCall
        /\ r # NoRef /\ ~drawer.deleting
    BY <1>4 DEF ConfirmDelete, BeginCall, Free
  <2>2. r \in Refs /\ k \in RequestKind /\ k \in Deletion
    BY <2>1, DrawerHas DEF RefOrNone, RequestKind, Deletion
  <2> HIDE DEF k
  <2>3. x \in RequestState /\ x # NoCall /\ x.kind \in Deletion /\ x.ref = r
    BY <2>2, RequestIs
  <2>4. d \in DrawerState /\ d.dialog = drawer.dialog /\ d.deleting = TRUE /\ d.url = drawer.url
    BY <1>1 DEF DrawerState
  <2> HIDE DEF x, d
  <2>5. \A b \in Calls : ~DeletesIn(request, b)
    BY <1>1, <2>1 DEF OneDeletion
  <2>6. /\ q \in [Calls -> RequestState] /\ q[c] = x /\ \A b \in Calls : b # c => q[b] = request[b]
    BY <1>1, <2>3
  <2> HIDE DEF q
  <2>7. DeletesIn(q, c) /\ q[c].ref = d.dialog
    BY <2>3, <2>4, <2>6 DEF DeletesIn
  <2>8. \A b \in Calls : b # c => ~DeletesIn(q, b)
    BY <2>5, <2>6 DEF DeletesIn
  <2>9. OneDeletion(q, d)
    BY <2>4, <2>7, <2>8 DEF OneDeletion
  <2> QED BY <1>1, <1>2, <2>1, <2>4, <2>6, <2>9, BecomesKeeps
<1> QED BY <1>3, <1>4

\* The dialog is opened, or put away, while nothing is deleted.
LEMMA DialogKeeps ==
  ASSUME DrawerInv, NEW r \in Refs, AskToDelete(r) \/ CancelDelete
  PROVE  DrawerInv'
<1>1. /\ drawer \in DrawerState /\ request \in [Calls -> RequestState] /\ OneDeletion(request, drawer)
  BY DrawerHas
<1>2. ~drawer.deleting /\ UNCHANGED <<item, request, urls>> /\ \E x \in RefOrNone : drawer' = [drawer EXCEPT !.dialog = x]
  BY RefNone DEF AskToDelete, CancelDelete
<1>3. PICK x \in RefOrNone : drawer' = [drawer EXCEPT !.dialog = x]
  BY <1>2
<1>4. /\ drawer' \in DrawerState /\ drawer'.deleting = drawer.deleting /\ drawer'.url = drawer.url /\ drawer'.open = drawer.open
      /\ drawer'.route = drawer.route /\ drawer'.selected = drawer.selected
  BY <1>1, <1>3 DEF DrawerState
<1>5. \A b \in Calls : ~DeletesIn(request, b)
  BY <1>1, <1>2 DEF OneDeletion
<1>6. OneDeletion(request', drawer')
  BY <1>2, <1>4, <1>5 DEF OneDeletion, DeletesIn
<1>7. RouteSelected' /\ UrlsReleased'
  BY <1>2, <1>4 DEF DrawerInv, RouteSelected, UrlsReleased
<1> QED BY <1>1, <1>2, <1>4, <1>6, <1>7 DEF DrawerInv

\* Answers to what loads and previews.
LEMMA HearDetailKeeps ==
  ASSUME DrawerInv, NEW c \in Calls, HearDetail(c)
  PROVE  DrawerInv'
<1>1. /\ drawer \in DrawerState /\ urls \subseteq {drawer.url} /\ {} \in SUBSET Refs
  BY DrawerHas
<1>2. item' \in [Refs -> {"live", "deleted", "gone"}] /\ urls' = urls
  BY DEF DrawerInv, HearDetail
<1>3. request[c].ref \in Refs /\ request[c].kind = "detail"
  BY UnderIs, {"detail"} \in SUBSET RequestKind DEF HearDetail, RequestKind
<1> DEFINE r == request[c].ref
<1>4. PICK ok \in {FALSE, Found(r)} : DrawerBecomes(Loaded(drawer, r, ok), Done(c), {})
  BY DEF HearDetail
<1> DEFINE d == Loaded(drawer, r, ok)
<1>5. d \in DrawerState /\ d.dialog = drawer.dialog /\ d.deleting = drawer.deleting /\ d.url = drawer.url
  BY <1>1, <1>3, LoadedIs
<1>6. Done(c) = [request EXCEPT ![c] = NoCall] /\ DrawerBecomes(d, Done(c), {}) /\ ~DeletesIn(request, c) /\ NoCall \in RequestState
  BY <1>3, <1>4 DEF Done, DeletesIn, Deletion, RequestState
<1> HIDE DEF d
<1>7. Done(c) \in [Calls -> RequestState] /\ OneDeletion(Done(c), d)
  BY <1>5, <1>6, DoneKeeps
<1>8. urls' \subseteq {d.url}
  BY <1>1, <1>2, <1>5
<1> QED BY <1>1, <1>2, <1>5, <1>6, <1>7, <1>8, BecomesKeeps

LEMMA HearPreviewKeeps ==
  ASSUME DrawerInv, NEW c \in Calls, HearPreview(c)
  PROVE  DrawerInv'
<1>1. /\ drawer \in DrawerState /\ urls \subseteq {drawer.url} /\ {} \in SUBSET Refs /\ drawer.url \in Nat
  BY DrawerHas DEF DrawerState
<1>2. item' \in [Refs -> {"live", "deleted", "gone"}]
  BY DEF DrawerInv, HearPreview
<1>3. request[c].ref \in Refs /\ request[c].kind = "preview"
  BY UnderIs, {"preview"} \in SUBSET RequestKind DEF HearPreview, RequestKind
<1>4. Done(c) = [request EXCEPT ![c] = NoCall] /\ ~DeletesIn(request, c) /\ NoCall \in RequestState
  BY <1>3 DEF Done, DeletesIn, Deletion, RequestState
<1> DEFINE n == CHOOSE n \in 1..(Cardinality(urls) + 1) : n \notin urls
           d == [drawer EXCEPT !.url = n]
<1>5. \/ DrawerBecomes(drawer, Done(c), {}) /\ urls' = urls
      \/ DrawerBecomes(d, Done(c), {}) /\ urls' = Released(n) \cup {n}
  BY DEF HearPreview
<1>6. n \in Nat /\ n \notin urls
  <2>1. urls = {} \/ urls = {drawer.url}
    BY <1>1
  <2>2. (urls = {} /\ Cardinality(urls) = 0) \/ (urls = {drawer.url} /\ Cardinality(urls) = 1)
    BY <2>1, FS_EmptySet, FS_Singleton
  <2>3. \E k \in 1..(Cardinality(urls) + 1) : k \notin urls
    <3>1. CASE urls = {} /\ Cardinality(urls) = 0
      BY <3>1
    <3>2. CASE urls = {drawer.url} /\ Cardinality(urls) = 1
      <4>1. 1 \in 1..(Cardinality(urls) + 1) /\ 2 \in 1..(Cardinality(urls) + 1) /\ (1 \notin urls \/ 2 \notin urls)
        BY <3>2
      <4> QED BY <4>1
    <3> QED BY <2>2, <3>1, <3>2
  <2>4. n \in 1..(Cardinality(urls) + 1) /\ n \notin urls
    BY <2>3
  <2>5. Cardinality(urls) \in Nat
    BY <2>2
  <2> QED BY <2>4, <2>5
<1> HIDE DEF n
<1>7. CASE DrawerBecomes(drawer, Done(c), {}) /\ urls' = urls
  <2>1. Done(c) \in [Calls -> RequestState] /\ OneDeletion(Done(c), drawer)
    BY <1>1, <1>4, DoneKeeps
  <2> QED BY <1>1, <1>2, <1>7, <2>1, BecomesKeeps
<1>8. CASE DrawerBecomes(d, Done(c), {}) /\ urls' = Released(n) \cup {n}
  <2>1. d \in DrawerState /\ d.dialog = drawer.dialog /\ d.deleting = drawer.deleting /\ d.url = n
    BY <1>1, <1>6 DEF DrawerState
  <2> HIDE DEF d
  <2>2. Done(c) \in [Calls -> RequestState] /\ OneDeletion(Done(c), d)
    BY <2>1, <1>4, DoneKeeps
  <2>3. urls' \subseteq {d.url}
    BY <1>1, <1>6, <1>8, <2>1 DEF Released
  <2> QED BY <1>1, <1>2, <1>8, <2>1, <2>2, <2>3, BecomesKeeps
<1> QED BY <1>5, <1>7, <1>8

\* Answers of a deletion: it ends, or goes on to what it reloads.
LEMMA HearDeleteKeeps ==
  ASSUME DrawerInv, NEW c \in Calls, HearDelete(c)
  PROVE  DrawerInv'
<1>1. /\ drawer \in DrawerState /\ urls \subseteq {drawer.url} /\ {} \in SUBSET Refs
  BY DrawerHas
<1> DEFINE r == request[c].ref
           k == IF request[c].kind = "delete-shown" THEN "reload-shown" ELSE "reload"
           x == ViewAsks(k, r)
           hidden == WithoutPreview(drawer)
           d == IF request[c].kind = "delete-shown" THEN Selecting(hidden, r) ELSE hidden
           deleted == IF item[r] = "live" THEN [item EXCEPT ![r] = "deleted"] ELSE item
<1>2. request[c] # NoCall /\ r \in Refs /\ request[c].kind \in {"delete", "delete-shown"}
  BY UnderIs, {"delete", "delete-shown"} \in SUBSET RequestKind DEF HearDelete, RequestKind
<1>3. DeletesIn(request, c)
  BY <1>2 DEF DeletesIn, Deletion
<1>4. item \in [Refs -> {"live", "deleted", "gone"}] /\ deleted \in [Refs -> {"live", "deleted", "gone"}]
  BY DEF DrawerInv
<1>5. \/ DrawerBecomes(KeptDrawer(drawer), Done(c), {}) /\ urls' = urls /\ item' \in {item, deleted}
      \/ DrawerBecomes(d, [request EXCEPT ![c] = x], {}) /\ urls' = Released(0) /\ item' = deleted
  BY DEF HearDelete
<1> HIDE DEF deleted
<1>6. CASE DrawerBecomes(KeptDrawer(drawer), Done(c), {}) /\ urls' = urls /\ item' \in {item, deleted}
  <2> DEFINE e == KeptDrawer(drawer)
  <2>1. e \in DrawerState /\ e.deleting = FALSE /\ e.url = drawer.url
    BY <1>1, KeptIs
  <2>2. NoCall \in RequestState /\ Done(c) = [request EXCEPT ![c] = NoCall] /\ DrawerBecomes(e, Done(c), {})
    BY <1>6 DEF RequestState, Done
  <2> HIDE DEF e
  <2>3. Done(c) \in [Calls -> RequestState] /\ OneDeletion(Done(c), e)
    BY <1>3, <2>1, DoneKeeps
  <2>4. urls' \subseteq {e.url} /\ item' \in [Refs -> {"live", "deleted", "gone"}]
    BY <1>1, <1>4, <1>6, <2>1
  <2> QED BY <1>1, <2>1, <2>2, <2>3, <2>4, BecomesKeeps
<1>7. CASE DrawerBecomes(d, [request EXCEPT ![c] = x], {}) /\ urls' = Released(0) /\ item' = deleted
  <2>1. hidden \in DrawerState /\ hidden.url = 0 /\ hidden.dialog = drawer.dialog /\ hidden.deleting = drawer.deleting
    BY <1>1, HiddenIs
  <2> HIDE DEF hidden
  <2>2. d \in DrawerState /\ d.url = 0 /\ d.dialog = drawer.dialog /\ d.deleting = drawer.deleting
    <3>1. CASE request[c].kind = "delete-shown"
      <4> DEFINE f == Selecting(hidden, r)
      <4>1. f \in DrawerState /\ f.dialog = hidden.dialog /\ f.deleting = hidden.deleting /\ f.url = hidden.url
        BY <1>2, <2>1, SelectingIs
      <4>2. d = f
        BY <3>1
      <4> QED BY <2>1, <4>1, <4>2
    <3>2. CASE request[c].kind # "delete-shown"
      BY <2>1, <3>2
    <3> QED BY <3>1, <3>2
  <2>3. x \in RequestState /\ x # NoCall /\ x.kind \in Deletion /\ x.ref = r
    <3>1. k \in RequestKind /\ k \in Deletion
      BY DEF RequestKind, Deletion
    <3> HIDE DEF k
    <3> QED BY <1>2, <3>1, RequestIs
  <2> HIDE DEF d, x
  <2>4. [request EXCEPT ![c] = x] \in [Calls -> RequestState] /\ OneDeletion([request EXCEPT ![c] = x], d)
    BY <1>3, <2>2, <2>3, DeletionKeeps
  <2>5. urls' \subseteq {d.url} /\ item' \in [Refs -> {"live", "deleted", "gone"}]
    BY <1>4, <1>7, <2>2, ReleasedIs
  <2> QED BY <1>1, <1>7, <2>2, <2>4, <2>5, BecomesKeeps
<1> QED BY <1>5, <1>6, <1>7

LEMMA HearReloadKeeps ==
  ASSUME DrawerInv, NEW c \in Calls, HearReload(c)
  PROVE  DrawerInv'
<1>1. /\ drawer \in DrawerState /\ urls \subseteq {drawer.url} /\ {} \in SUBSET Refs
  BY DrawerHas
<1>2. item' \in [Refs -> {"live", "deleted", "gone"}] /\ urls' = urls
  BY DEF DrawerInv, HearReload
<1> DEFINE r == request[c].ref
<1>3. request[c] # NoCall /\ r \in Refs /\ request[c].kind \in {"reload", "reload-shown"}
  BY UnderIs, {"reload", "reload-shown"} \in SUBSET RequestKind DEF HearReload, RequestKind
<1>4. DeletesIn(request, c)
  BY <1>3 DEF DeletesIn, Deletion
<1>5. PICK ok \in {FALSE, Found(r)} :
        DrawerBecomes(KeptDrawer(IF request[c].kind = "reload-shown" THEN Loaded(drawer, r, ok) ELSE drawer), Done(c), {})
  BY DEF HearReload
<1> DEFINE a == IF request[c].kind = "reload-shown" THEN Loaded(drawer, r, ok) ELSE drawer
           e == KeptDrawer(a)
<1>6. DrawerBecomes(e, Done(c), {})
  BY <1>5
<1>7. a \in DrawerState /\ a.url = drawer.url
  <2>1. Loaded(drawer, r, ok) \in DrawerState /\ Loaded(drawer, r, ok).url = drawer.url
    BY <1>1, <1>3, LoadedIs
  <2> QED BY <1>1, <2>1
<1> HIDE DEF a
<1>8. e \in DrawerState /\ e.deleting = FALSE /\ e.url = drawer.url
  BY <1>7, KeptIs
<1>9. NoCall \in RequestState /\ Done(c) = [request EXCEPT ![c] = NoCall]
  BY DEF RequestState, Done
<1> HIDE DEF e
<1>10. Done(c) \in [Calls -> RequestState] /\ OneDeletion(Done(c), e)
  BY <1>4, <1>8, DoneKeeps
<1>11. urls' \subseteq {e.url}
  BY <1>1, <1>2, <1>8
<1> QED BY <1>1, <1>2, <1>6, <1>8, <1>10, <1>11, BecomesKeeps

LEMMA DrawerInit == ContentViewsInit => DrawerInv
<1> SUFFICES ASSUME ContentViewsInit PROVE DrawerInv
  OBVIOUS
<1>1. /\ drawer = ClosedDrawer /\ request = [c \in Calls |-> NoCall] /\ urls = {}
      /\ item \in [Refs -> {"live", "deleted", "gone"}]
  BY DEF ContentViewsInit
<1>2. /\ drawer \in DrawerState /\ drawer.open = FALSE /\ drawer.deleting = FALSE
  BY <1>1, NoItemIs, RefNone DEF ClosedDrawer, DrawerState
<1>3. request \in [Calls -> RequestState] /\ \A c \in Calls : ~DeletesIn(request, c)
  BY <1>1 DEF RequestState, DeletesIn
<1> QED BY <1>1, <1>2, <1>3 DEF DrawerInv, RouteSelected, UrlsReleased, OneDeletion

LEMMA DrawerStep == DrawerInv /\ [ContentViewsNext]_viewVars => DrawerInv'
<1> SUFFICES ASSUME DrawerInv, [ContentViewsNext]_viewVars PROVE DrawerInv'
  OBVIOUS
<1>1. CASE UNCHANGED viewVars
  BY <1>1 DEF DrawerInv, viewVars, RouteSelected, UrlsReleased, OneDeletion, DeletesIn
<1>2. ASSUME NEW r \in Refs, Ages(r) PROVE DrawerInv'
  <2>1. item' \in [Refs -> {"live", "deleted", "gone"}] /\ UNCHANGED <<drawer, request, urls>>
    BY <1>2 DEF Ages, DrawerInv
  <2> QED BY <2>1 DEF DrawerInv, RouteSelected, UrlsReleased, OneDeletion, DeletesIn
<1>3. ASSUME CloseDrawer \/ Back \/ RefreshItem \/ Follow(NoRef) PROVE DrawerInv'
  <2>1. item' = item
    BY <1>3 DEF CloseDrawer, Back, RefreshItem, Follow
  <2> QED BY <1>3, <2>1, RefNone, UserKeeps
<1>4. ASSUME NEW r \in Refs, Follow(r) \/ Select(r) PROVE DrawerInv'
  <2>1. item' = item /\ r \in RefOrNone /\ r # NoRef
    BY <1>4, RefNone DEF Follow, Select
  <2> QED BY <1>4, <2>1, UserKeeps
<1>5. ASSUME NEW r \in Refs, AskToDelete(r) PROVE DrawerInv'
  BY <1>5, DialogKeeps
<1>6. ASSUME CancelDelete PROVE DrawerInv'
  <2>1. drawer.dialog \in Refs
    BY <1>6, DrawerHas DEF CancelDelete, RefOrNone
  <2> QED BY <1>6, <2>1, DialogKeeps
<1>7. ASSUME NEW c \in Calls, Preview(c) \/ ConfirmDelete(c) PROVE DrawerInv'
  <2>1. item' = item
    BY <1>7 DEF Preview, ConfirmDelete
  <2> QED BY <1>7, <2>1, CallBeginKeeps
<1>8. ASSUME NEW c \in Calls, HearDetail(c) \/ HearPreview(c) \/ HearDelete(c) \/ HearReload(c) PROVE DrawerInv'
  BY <1>8, HearDetailKeeps, HearPreviewKeeps, HearDeleteKeeps, HearReloadKeeps
<1> QED BY <1>1, <1>2, <1>3, <1>4, <1>5, <1>6, <1>7, <1>8 DEF ContentViewsNext

LEMMA DrawerShows == DrawerInv => ContentViewsTypeOK /\ RouteSelected /\ UrlsReleased /\ DeletesOnce
<1> SUFFICES ASSUME DrawerInv PROVE ContentViewsTypeOK /\ DeletesOnce
  BY DEF DrawerInv
<1>1. drawer \in DrawerState /\ OneDeletion(request, drawer) /\ item \in [Refs -> {"live", "deleted", "gone"}]
  BY DrawerHas DEF DrawerInv
<1>2. drawer.loading \in BOOLEAN /\ drawer.deleting \in BOOLEAN /\ drawer.route \in RefOrNone
  BY <1>1 DEF DrawerState
<1>3. ContentViewsTypeOK
  BY <1>1, <1>2, DrawerHas DEF ContentViewsTypeOK, RefOrNone
<1> DEFINE under == {c \in Calls : DeletesIn(request, c)}
<1>4. drawer.deleting <=> under # {}
  BY <1>1 DEF OneDeletion
<1>5. \A c \in under : under = {c} /\ drawer.dialog = request[c].ref
  BY <1>1 DEF OneDeletion
<1>6. under = {c \in Calls : request[c] # NoCall /\ request[c].kind \in {"delete", "delete-shown", "reload", "reload-shown"}}
  BY DEF DeletesIn, Deletion
<1>7. DeletesOnce
  BY <1>4, <1>5, <1>6 DEF DeletesOnce
<1> QED BY <1>3, <1>7

\* The content drawer: the item of the page's address is the one selected, the
\* bytes of a preview are held only while it is shown, and the dialog stays on
\* what it deletes until that has ended (ContentBrowser, useContentBrowser).
THEOREM DrawerIsCorrect == ContentViewsSpec => [](ContentViewsTypeOK /\ RouteSelected /\ UrlsReleased /\ DeletesOnce)
BY DrawerInit, DrawerStep, DrawerShows, PTL DEF ContentViewsSpec

-----------------------------------------------------------------------------
(* The runs and the views together.                                        *)

\* Whatever component moves while the others rest, what each of them promises
\* holds at all times: of a scheduled run, of the panel of the crawls, of the
\* attachment browser, of the content drawer and of the memory panel.
THEOREM ViewsAreCorrect == ViewsSpec => []ViewsCorrect
<1>1. ViewsInit => /\ ScheduledRunsInit /\ ImapPanelInit /\ EstimatesInit /\ AttachmentViewsInit
                   /\ ContentViewsInit /\ MemoryPanelInit
  BY DEF ViewsInit
<1>2. [ViewsNext]_<<focus, vars, runVars, sectionVars, estimateVars, listVars, viewVars, memoVars>> =>
        /\ [ScheduledRunsNext]_runVars /\ [ImapPanelNext]_sectionVars /\ [EstimatesNext]_estimateVars
        /\ [AttachmentViewsNext]_listVars /\ [ContentViewsNext]_viewVars /\ [MemoryPanelNext]_memoVars
  BY DEF ViewsNext
<1>3. ViewsSpec => /\ ScheduledRunsSpec /\ ImapPanelSpec /\ EstimatesSpec /\ AttachmentViewsSpec
                   /\ ContentViewsSpec /\ MemoryPanelSpec
  BY <1>1, <1>2, PTL DEF ViewsSpec, ScheduledRunsSpec, ImapPanelSpec, EstimatesSpec, AttachmentViewsSpec,
                         ContentViewsSpec, MemoryPanelSpec
<1>4. ScheduledRunsCorrect /\ ImapPanelCorrect /\ AttachmentViewsCorrect
      /\ (ContentViewsTypeOK /\ RouteSelected /\ UrlsReleased /\ DeletesOnce) /\ MemoryPanelCorrect => ViewsCorrect
  BY DEF ViewsCorrect, ContentViewsCorrect
<1> QED
  BY <1>3, <1>4, ScheduledRunsAreCorrect, ImapPanelIsCorrect, AttachmentBrowserIsCorrect, DrawerIsCorrect,
     MemoryPanelIsCorrect, PTL

-----------------------------------------------------------------------------
(* The items that the messages of a conversation are shown with            *)

\* A set of numbers that begins with 0 and goes on with each next one.
LEMMA CountedUp ==
  ASSUME NEW n \in Nat, NEW S \in SUBSET (0..n), 0 \in S, \A k \in S : k < n => k + 1 \in S
  PROVE  S = 0..n
<1>. SUFFICES ASSUME NEW k \in 0..n, k \notin S PROVE FALSE
  OBVIOUS
<1>1. PICK i \in (0..n) \ S : \A j \in (0..n) \ S : i <= j
  <2>1. (0..n) \ S \in SUBSET Nat /\ (0..n) \ S # {}
    OBVIOUS
  <2>. QED
    BY <2>1, SmallestExists
<1>2. i # 0 /\ i - 1 \in 0..n /\ i - 1 < i
  OBVIOUS
<1>3. i - 1 \in S
  BY <1>1, <1>2
<1>. QED
  BY <1>2, <1>3

\* Ways to go on from one of T with one of M.
Ways(T, M) == [T -> [M -> T]]

\* What is said of each of the first elements by what is said of those before it:
\* there is such a function.
LEMMA GoesOn ==
  ASSUME NEW T, NEW M, NEW s \in Seq(M), NEW F \in Ways(T, M), NEW t \in T
  PROVE  \E f \in [0..Len(s) -> T] : f[0] = t /\ \A k \in 1..Len(s) : f[k] = F[f[k - 1]][s[k]]
<1>. DEFINE Fits(f, n) ==
       /\ f \in [0..n -> T] /\ f[0] = t
       /\ \A k \in 1..n : f[k] = F[f[k - 1]][s[k]]
     S == {n \in 0..Len(s) : \E f : Fits(f, n)}
<1>1. Len(s) \in Nat /\ (\A k \in 1..Len(s) : s[k] \in M) /\ F \in [T -> [M -> T]]
  BY LenProperties, ElementOfSeq DEF Ways
<1>2. 0 \in S
  <2>1. Fits([k \in 0..0 |-> t], 0)
    OBVIOUS
  <2>2. \E f : Fits(f, 0)
    BY <2>1
  <2>3. 0 \in 0..Len(s)
    BY <1>1
  <2>. QED
    BY <2>2, <2>3
<1>3. ASSUME NEW n \in S, n < Len(s) PROVE n + 1 \in S
  <2>1. PICK f : Fits(f, n)
    OBVIOUS
  <2>. DEFINE g == [k \in 0..n + 1 |-> IF k = n + 1 THEN F[f[n]][s[n + 1]] ELSE f[k]]
  <2>2. n \in Nat /\ n + 1 \in 1..Len(s) /\ s[n + 1] \in M /\ f[n] \in T
    BY <1>1, <1>3, <2>1
  <2>3. F[f[n]][s[n + 1]] \in T
    BY <1>1, <2>2
  <2>4. g \in [0..n + 1 -> T] /\ g[0] = t
    BY <2>1, <2>2, <2>3
  <2>5. ASSUME NEW k \in 1..n + 1 PROVE g[k] = F[g[k - 1]][s[k]]
    <3>1. CASE k = n + 1
      <4>1. k - 1 = n /\ n \in 0..n + 1 /\ n # n + 1 /\ k \in 0..n + 1
        BY <2>2, <3>1
      <4>2. g[n] = f[n] /\ g[k] = F[f[n]][s[n + 1]]
        BY <3>1, <4>1
      <4>. QED
        BY <3>1, <4>1, <4>2
    <3>2. CASE k # n + 1
      <4>1. k \in 1..n /\ k - 1 \in 0..n /\ k - 1 # n + 1
        BY <2>2, <3>2
      <4>. QED
        BY <2>1, <2>2, <4>1
    <3>. QED
      BY <3>1, <3>2
  <2>6. Fits(g, n + 1)
    BY <2>4, <2>5
  <2>7. \E h : Fits(h, n + 1)
    BY <2>6
  <2>8. n + 1 \in 0..Len(s)
    BY <1>1, <2>2
  <2>. QED
    BY <2>7, <2>8
<1>4. S = 0..Len(s)
  <2>. HIDE DEF S
  <2>1. S \in SUBSET (0..Len(s))
    BY DEF S
  <2>. QED
    BY <1>1, <1>2, <1>3, <2>1, CountedUp
<1>5. PICK f : Fits(f, Len(s))
  <2>1. Len(s) \in S
    <3>. HIDE DEF S
    <3>. QED
      BY <1>1, <1>4
  <2>. QED
    BY <2>1
<1>. QED
  BY <1>5

Lists == Seq(Refs)
WithNew(sofar, r) == IF r \in ToSet(sofar) THEN sofar ELSE Append(sofar, r)
WithThere(sofar, r) == IF StillThere(r) THEN Append(sofar, r) ELSE sofar

LEMMA ListsGrow ==
  /\ <<>> \in Lists
  /\ \A sofar \in Lists, r \in Refs : WithNew(sofar, r) \in Lists /\ WithThere(sofar, r) \in Lists
BY EmptySeq, AppendProperties DEF Lists, WithNew, WithThere

\* The references among the first elements, step by step.
LEMMA FirstsAre ==
  ASSUME NEW s \in Lists
  PROVE  /\ \A k \in 0..Len(s) : Firsts(s)[k] \in Lists
         /\ Firsts(s)[0] = <<>>
         /\ \A k \in 1..Len(s) : Firsts(s)[k] = WithNew(Firsts(s)[k - 1], s[k])
<1>. DEFINE F == [sofar \in Lists |-> [r \in Refs |-> WithNew(sofar, r)]]
<1>1. F \in Ways(Lists, Refs) /\ <<>> \in Lists
  BY ListsGrow DEF Ways
<1>2. s \in Seq(Refs) /\ Len(s) \in Nat /\ \A k \in 1..Len(s) : s[k] \in Refs
  BY LenProperties, ElementOfSeq DEF Lists
<1>3. PICK f \in [0..Len(s) -> Lists] : f[0] = <<>> /\ \A k \in 1..Len(s) : f[k] = F[f[k - 1]][s[k]]
  <2>1. F \in Ways(Lists, Refs) /\ s \in Seq(Refs) /\ <<>> \in Lists
    BY <1>1, <1>2
  <2>. HIDE DEF F
  <2>. QED
    BY <2>1, GoesOn
<1>4. f = [k \in 0..Len(s) |-> IF k = 0 THEN <<>>
             ELSE IF s[k] \in ToSet(f[k - 1]) THEN f[k - 1] ELSE Append(f[k - 1], s[k])]
  <2>1. ASSUME NEW k \in 1..Len(s)
        PROVE  F[f[k - 1]][s[k]] = IF s[k] \in ToSet(f[k - 1]) THEN f[k - 1] ELSE Append(f[k - 1], s[k])
    <3>1. k - 1 \in 0..Len(s)
      BY <1>2
    <3>2. f[k - 1] \in Lists /\ s[k] \in Refs
      BY <1>2, <1>3, <3>1
    <3>3. F[f[k - 1]][s[k]] = WithNew(f[k - 1], s[k])
      BY <3>2
    <3>. QED
      BY <3>3 DEF WithNew
  <2>2. \A k \in 0..Len(s) : k # 0 => k \in 1..Len(s)
    BY SMTT(40), <1>2
  <2>. HIDE DEF F
  <2>. QED
    BY <1>3, <2>1, <2>2
<1>. HIDE DEF F
<1>5. Firsts(s) = [k \in 0..Len(s) |-> IF k = 0 THEN <<>>
        ELSE IF s[k] \in ToSet(Firsts(s)[k - 1]) THEN Firsts(s)[k - 1] ELSE Append(Firsts(s)[k - 1], s[k])]
  BY <1>4 DEF Firsts
<1>6. Firsts(s)[0] = <<>> /\ \A k \in 1..Len(s) : Firsts(s)[k] = WithNew(Firsts(s)[k - 1], s[k])
  <2>1. PICK g : g = Firsts(s)
    OBVIOUS
  <2>2. g = [k \in 0..Len(s) |-> IF k = 0 THEN <<>>
             ELSE IF s[k] \in ToSet(g[k - 1]) THEN g[k - 1] ELSE Append(g[k - 1], s[k])]
    BY <1>5, <2>1
  <2>3. g[0] = <<>>
    BY <1>2, <2>2
  <2>4. ASSUME NEW k \in 1..Len(s) PROVE g[k] = WithNew(g[k - 1], s[k])
    <3>1. k \in 0..Len(s) /\ k # 0
      BY <1>2
    <3>. QED
      BY <2>2, <3>1 DEF WithNew
  <2>. QED
    BY <2>1, <2>3, <2>4
<1>7. {k \in 0..Len(s) : Firsts(s)[k] \in Lists} = 0..Len(s)
  <2>. DEFINE S == {k \in 0..Len(s) : Firsts(s)[k] \in Lists}
  <2>1. 0 \in S
    BY <1>1, <1>2, <1>6
  <2>2. ASSUME NEW k \in S, k < Len(s) PROVE k + 1 \in S
    <3>1. k + 1 \in 1..Len(s) /\ k + 1 - 1 = k /\ k + 1 \in 0..Len(s)
      BY <1>2, <2>2
    <3>2. Firsts(s)[k + 1] = WithNew(Firsts(s)[k], s[k + 1])
      BY <1>6, <3>1
    <3>. QED
      BY <1>2, <3>1, <3>2, ListsGrow
  <2>3. S \in SUBSET (0..Len(s))
    OBVIOUS
  <2>. HIDE DEF S
  <2>4. S = 0..Len(s)
    BY <1>2, <2>1, <2>2, <2>3, CountedUp
  <2>. QED
    BY <2>4 DEF S
<1>. QED
  BY <1>6, <1>7

\* What is still there of the first elements, step by step.
LEMMA ContentItemsAre ==
  ASSUME NEW s \in Lists
  PROVE  /\ \A k \in 0..Len(s) : ContentItems(s)[k] \in Lists
         /\ ContentItems(s)[0] = <<>>
         /\ \A k \in 1..Len(s) : ContentItems(s)[k] = WithThere(ContentItems(s)[k - 1], s[k])
<1>. DEFINE F == [sofar \in Lists |-> [r \in Refs |-> WithThere(sofar, r)]]
<1>1. F \in Ways(Lists, Refs) /\ <<>> \in Lists
  BY ListsGrow DEF Ways
<1>2. s \in Seq(Refs) /\ Len(s) \in Nat /\ \A k \in 1..Len(s) : s[k] \in Refs
  BY LenProperties, ElementOfSeq DEF Lists
<1>3. PICK f \in [0..Len(s) -> Lists] : f[0] = <<>> /\ \A k \in 1..Len(s) : f[k] = F[f[k - 1]][s[k]]
  <2>1. F \in Ways(Lists, Refs) /\ s \in Seq(Refs) /\ <<>> \in Lists
    BY <1>1, <1>2
  <2>. HIDE DEF F
  <2>. QED
    BY <2>1, GoesOn
<1>4. f = [k \in 0..Len(s) |-> IF k = 0 THEN <<>>
             ELSE IF StillThere(s[k]) THEN Append(f[k - 1], s[k]) ELSE f[k - 1]]
  <2>1. ASSUME NEW k \in 1..Len(s)
        PROVE  F[f[k - 1]][s[k]] = IF StillThere(s[k]) THEN Append(f[k - 1], s[k]) ELSE f[k - 1]
    <3>1. k - 1 \in 0..Len(s)
      BY <1>2
    <3>2. f[k - 1] \in Lists /\ s[k] \in Refs
      BY <1>2, <1>3, <3>1
    <3>3. F[f[k - 1]][s[k]] = WithThere(f[k - 1], s[k])
      BY <3>2
    <3>. QED
      BY <3>3 DEF WithThere
  <2>2. \A k \in 0..Len(s) : k # 0 => k \in 1..Len(s)
    BY <1>2
  <2>. HIDE DEF F
  <2>. QED
    BY <1>3, <2>1, <2>2
<1>. HIDE DEF F
<1>5. ContentItems(s) = [k \in 0..Len(s) |-> IF k = 0 THEN <<>>
        ELSE IF StillThere(s[k]) THEN Append(ContentItems(s)[k - 1], s[k]) ELSE ContentItems(s)[k - 1]]
  BY <1>4 DEF ContentItems
<1>6. ContentItems(s)[0] = <<>> /\ \A k \in 1..Len(s) : ContentItems(s)[k] = WithThere(ContentItems(s)[k - 1], s[k])
  <2>1. PICK g : g = ContentItems(s)
    OBVIOUS
  <2>2. g = [k \in 0..Len(s) |-> IF k = 0 THEN <<>>
             ELSE IF StillThere(s[k]) THEN Append(g[k - 1], s[k]) ELSE g[k - 1]]
    BY <1>5, <2>1
  <2>3. g[0] = <<>>
    BY <1>2, <2>2
  <2>4. ASSUME NEW k \in 1..Len(s) PROVE g[k] = WithThere(g[k - 1], s[k])
    <3>1. k \in 0..Len(s) /\ k # 0
      BY <1>2
    <3>. QED
      BY <2>2, <3>1 DEF WithThere
  <2>. QED
    BY <2>1, <2>3, <2>4
<1>7. {k \in 0..Len(s) : ContentItems(s)[k] \in Lists} = 0..Len(s)
  <2>. DEFINE S == {k \in 0..Len(s) : ContentItems(s)[k] \in Lists}
  <2>1. 0 \in S
    BY <1>1, <1>2, <1>6
  <2>2. ASSUME NEW k \in S, k < Len(s) PROVE k + 1 \in S
    <3>1. k + 1 \in 1..Len(s) /\ k + 1 - 1 = k /\ k + 1 \in 0..Len(s)
      BY <1>2, <2>2
    <3>2. ContentItems(s)[k + 1] = WithThere(ContentItems(s)[k], s[k + 1])
      BY <1>6, <3>1
    <3>. QED
      BY <1>2, <3>1, <3>2, ListsGrow
  <2>3. S \in SUBSET (0..Len(s))
    OBVIOUS
  <2>. HIDE DEF S
  <2>4. S = 0..Len(s)
    BY <1>2, <2>1, <2>2, <2>3, CountedUp
  <2>. QED
    BY <2>4 DEF S
<1>. QED
  BY <1>6, <1>7

\* What is kept after a message, and what the message is given.
Kept == [pending : Lists, given : Lists]
NothingKept == [pending |-> <<>>, given |-> <<>>]

\* What has come first is a list of references without repetition: those of s.
OnceEach(s) == \A i, j \in 1..Len(s) : s[i] = s[j] => i = j

LEMMA AppendIs ==
  ASSUME NEW s \in Lists, NEW r \in Refs
  PROVE  /\ Append(s, r) \in Lists /\ ToSet(Append(s, r)) = ToSet(s) \cup {r}
         /\ OnceEach(s) /\ r \notin ToSet(s) => OnceEach(Append(s, r))
         /\ ToSet(s) \subseteq Refs
<1>. DEFINE w == Append(s, r)
            n == Len(s)
<1>1. /\ n \in Nat /\ w \in Seq(Refs) /\ Len(w) = n + 1 /\ w[n + 1] = r
      /\ (\A i \in 1..n : w[i] = s[i]) /\ DOMAIN w = 1..(n + 1) /\ DOMAIN s = 1..n
      /\ \A i \in 1..n : s[i] \in Refs
  BY AppendProperties, LenProperties, ElementOfSeq DEF Lists
<1>. HIDE DEF w, n
<1>2. ToSet(w) = {w[i] : i \in 1..(n + 1)} /\ ToSet(s) = {s[i] : i \in 1..n}
  BY <1>1 DEF ToSet
<1>3. ToSet(w) = ToSet(s) \cup {r}
  <2>1. \A i \in 1..(n + 1) : i = n + 1 \/ i \in 1..n
    BY <1>1
  <2>2. 1..n \subseteq 1..(n + 1) /\ n + 1 \in 1..(n + 1)
    BY <1>1
  <2>. QED
    BY <1>1, <1>2, <2>1, <2>2
<1>4. ASSUME OnceEach(s), r \notin ToSet(s), NEW i \in 1..Len(w), NEW j \in 1..Len(w), w[i] = w[j]
      PROVE  i = j
  <2>1. (i = n + 1 \/ i \in 1..n) /\ (j = n + 1 \/ j \in 1..n)
    BY <1>1
  <2>2. \A k \in 1..n : w[k] # r
    BY <1>1, <1>2, <1>4
  <2>3. i \in 1..n /\ j \in 1..n => i = j
    BY <1>1, <1>4 DEF OnceEach, n
  <2>. QED
    BY <1>1, <1>4, <2>1, <2>2, <2>3
<1>. QED
  BY <1>1, <1>2, <1>3, <1>4 DEF w, OnceEach, Lists

LEMMA DistinctIs ==
  ASSUME NEW s \in Lists
  PROVE  Distinct(s) \in Lists /\ ToSet(Distinct(s)) = ToSet(s) /\ OnceEach(Distinct(s))
<1>1. s \in Seq(Refs) /\ Len(s) \in Nat /\ (\A k \in 1..Len(s) : s[k] \in Refs) /\ DOMAIN s = 1..Len(s)
  BY LenProperties, ElementOfSeq DEF Lists
<1>. DEFINE Good(k) == ToSet(Firsts(s)[k]) = {s[j] : j \in 1..k} /\ OnceEach(Firsts(s)[k])
            S == {k \in 0..Len(s) : Good(k)}
<1>2. 0 \in S
  <2>1. Firsts(s)[0] = <<>> /\ 0 \in 0..Len(s)
    BY <1>1, FirstsAre
  <2>2. ToSet(<<>>) = {} /\ OnceEach(<<>>)
    BY DEF ToSet, OnceEach
  <2>. QED
    BY <2>1, <2>2
<1>3. ASSUME NEW k \in S, k < Len(s) PROVE k + 1 \in S
  <2>1. k \in 0..Len(s) /\ k + 1 \in 1..Len(s) /\ k + 1 - 1 = k /\ k + 1 \in 0..Len(s) /\ Good(k)
    BY <1>1, <1>3
  <2>2. Firsts(s)[k + 1] = WithNew(Firsts(s)[k], s[k + 1]) /\ Firsts(s)[k] \in Lists /\ s[k + 1] \in Refs
    BY <1>1, <2>1, FirstsAre
  <2>3. {s[j] : j \in 1..k + 1} = {s[j] : j \in 1..k} \cup {s[k + 1]}
    <3>1. \A j \in 1..k + 1 : j = k + 1 \/ j \in 1..k
      BY <2>1
    <3>2. 1..k \subseteq 1..k + 1 /\ k + 1 \in 1..k + 1
      BY <2>1
    <3>. QED
      BY <3>1, <3>2
  <2>4. CASE s[k + 1] \in ToSet(Firsts(s)[k])
    <3>1. Firsts(s)[k + 1] = Firsts(s)[k]
      BY <2>2, <2>4 DEF WithNew
    <3>. QED
      BY <2>1, <2>3, <2>4, <3>1
  <2>5. CASE s[k + 1] \notin ToSet(Firsts(s)[k])
    <3>1. Firsts(s)[k + 1] = Append(Firsts(s)[k], s[k + 1])
      BY <2>2, <2>5 DEF WithNew
    <3>. QED
      BY <2>1, <2>2, <2>3, <2>5, <3>1, AppendIs
  <2>. QED
    BY <2>4, <2>5
<1>4. S = 0..Len(s)
  <2>. HIDE DEF S
  <2>1. S \in SUBSET (0..Len(s))
    BY DEF S
  <2>. QED
    BY <1>1, <1>2, <1>3, <2>1, CountedUp
<1>5. Len(s) \in 0..Len(s)
  BY <1>1
<1>6. Good(Len(s))
  BY <1>4, <1>5
<1>. QED
  BY <1>1, <1>5, <1>6, FirstsAre DEF Distinct, ToSet

\* The items shown are those that are still there, each as often as it was given.
LEMMA ShownAre ==
  ASSUME NEW s \in Lists, OnceEach(s)
  PROVE  LET left == ContentItems(s)[Len(s)]
         IN  left \in Lists /\ ToSet(left) = {r \in ToSet(s) : Bytes(r)} /\ OnceEach(left)
<1>1. s \in Seq(Refs) /\ Len(s) \in Nat /\ (\A k \in 1..Len(s) : s[k] \in Refs) /\ DOMAIN s = 1..Len(s)
  BY LenProperties, ElementOfSeq DEF Lists
<1>. DEFINE Good(k) == ToSet(ContentItems(s)[k]) = {r \in {s[j] : j \in 1..k} : Bytes(r)} /\ OnceEach(ContentItems(s)[k])
            S == {k \in 0..Len(s) : Good(k)}
<1>2. 0 \in S
  <2>1. ContentItems(s)[0] = <<>> /\ 0 \in 0..Len(s)
    BY <1>1, ContentItemsAre
  <2>2. ToSet(<<>>) = {} /\ OnceEach(<<>>)
    BY DEF ToSet, OnceEach
  <2>. QED
    BY <2>1, <2>2
<1>3. ASSUME NEW k \in S, k < Len(s) PROVE k + 1 \in S
  <2>1. k \in 0..Len(s) /\ k + 1 \in 1..Len(s) /\ k + 1 - 1 = k /\ k + 1 \in 0..Len(s) /\ Good(k)
    BY <1>1, <1>3
  <2>2. ContentItems(s)[k + 1] = WithThere(ContentItems(s)[k], s[k + 1]) /\ ContentItems(s)[k] \in Lists /\ s[k + 1] \in Refs
    BY <1>1, <2>1, ContentItemsAre
  <2>3. {s[j] : j \in 1..k + 1} = {s[j] : j \in 1..k} \cup {s[k + 1]}
    <3>1. \A j \in 1..k + 1 : j = k + 1 \/ j \in 1..k
      BY <2>1
    <3>2. 1..k \subseteq 1..k + 1 /\ k + 1 \in 1..k + 1
      BY <2>1
    <3>. QED
      BY <3>1, <3>2
  <2>4. StillThere(s[k + 1]) <=> Bytes(s[k + 1])
    BY DEF StillThere, Found, Bytes
  <2>5. CASE ~Bytes(s[k + 1])
    <3>1. ContentItems(s)[k + 1] = ContentItems(s)[k]
      BY <2>2, <2>4, <2>5 DEF WithThere
    <3>. QED
      BY <2>1, <2>3, <2>5, <3>1
  <2>6. CASE Bytes(s[k + 1])
    <3>1. ContentItems(s)[k + 1] = Append(ContentItems(s)[k], s[k + 1])
      BY <2>2, <2>4, <2>6 DEF WithThere
    <3>2. s[k + 1] \notin ToSet(ContentItems(s)[k])
      <4>1. \A j \in 1..k : j \in 1..Len(s) /\ j # k + 1
        BY <2>1
      <4>. QED
        BY <2>1, <4>1 DEF OnceEach
    <3>3. /\ ToSet(ContentItems(s)[k + 1]) = ToSet(ContentItems(s)[k]) \cup {s[k + 1]}
          /\ OnceEach(ContentItems(s)[k + 1])
      BY <2>1, <2>2, <3>1, <3>2, AppendIs
    <3>4. Good(k + 1)
      BY <2>1, <2>3, <2>6, <3>3
    <3>. QED
      BY <2>1, <3>4
  <2>. QED
    BY <2>5, <2>6
<1>4. S = 0..Len(s)
  <2>. HIDE DEF S
  <2>1. S \in SUBSET (0..Len(s))
    BY DEF S
  <2>. QED
    BY <1>1, <1>2, <1>3, <2>1, CountedUp
<1>5. Len(s) \in 0..Len(s)
  BY <1>1
<1>6. Good(Len(s))
  BY <1>4, <1>5
<1>7. ToSet(s) = {s[j] : j \in 1..Len(s)}
  BY <1>1 DEF ToSet
<1>. HIDE DEF S
<1>. QED
  BY <1>5, <1>6, <1>7, ContentItemsAre

\* A list without repetition is as long as it has elements.
LEMMA OnceCounted ==
  ASSUME NEW s \in Lists, OnceEach(s)
  PROVE  Cardinality(ToSet(s)) = Len(s)
<1>1. s \in [1..Len(s) -> Refs] /\ Len(s) \in Nat
  BY LenProperties DEF Lists
<1>2. s \in Bijection(1..Len(s), ToSet(s))
  BY <1>1 DEF OnceEach, ToSet, Bijection, Injection, Surjection, IsInjective
<1>3. ExistsBijection(1..Len(s), ToSet(s))
  BY <1>2 DEF ExistsBijection
<1>. QED
  BY <1>1, <1>3, FS_CountingElements

LEMMA MessageHas ==
  ASSUME NEW m \in Message
  PROVE  m.role \in {"ai", "tool", "human"} /\ m.refs \in Lists
<1>1. RefLists \subseteq Lists /\ <<>> \in Lists
  <2>1. \A n \in 0..2 : [1..n -> Refs] \subseteq Seq(Refs)
    BY DEF Seq
  <2>. QED
    BY <2>1, EmptySeq DEF RefLists, Lists
<1>. QED
  BY <1>1 DEF Message

\* Two lists, one behind the other.
LEMMA BothAreIn ==
  ASSUME NEW s \in Lists, NEW t \in Lists
  PROVE  s \o t \in Lists /\ ToSet(s \o t) = ToSet(s) \cup ToSet(t)
<1>. DEFINE w == s \o t
            m == Len(s)
            n == Len(t)
<1>1. /\ w \in Lists /\ m \in Nat /\ n \in Nat /\ Len(w) = m + n
      /\ DOMAIN w = 1..(m + n) /\ DOMAIN s = 1..m /\ DOMAIN t = 1..n
      /\ \A i \in 1..(m + n) : w[i] = IF i <= m THEN s[i] ELSE t[i - m]
  BY ConcatProperties, LenProperties DEF Lists
<1>. HIDE DEF w, m, n
<1>2. ASSUME NEW i \in 1..(m + n) PROVE w[i] \in ToSet(s) \cup ToSet(t)
  <2>1. CASE i <= m
    BY <1>1, <2>1 DEF ToSet
  <2>2. CASE ~(i <= m)
    <3>1. i - m \in 1..n /\ w[i] = t[i - m]
      BY <1>1, <2>2
    <3>. QED
      BY <1>1, <3>1 DEF ToSet
  <2>. QED
    BY <2>1, <2>2
<1>3. ASSUME NEW i \in 1..m PROVE s[i] \in ToSet(w)
  <2>1. i \in 1..(m + n) /\ w[i] = s[i]
    BY <1>1
  <2>. QED
    BY <1>1, <2>1 DEF ToSet
<1>4. ASSUME NEW i \in 1..n PROVE t[i] \in ToSet(w)
  <2>1. m + i \in 1..(m + n) /\ ~(m + i <= m) /\ (m + i) - m = i
    BY <1>1
  <2>2. w[m + i] = t[i]
    BY <1>1, <2>1
  <2>. QED
    BY <1>1, <2>1, <2>2 DEF ToSet
<1>. QED
  BY <1>1, <1>2, <1>3, <1>4 DEF ToSet, w

LEMMA ExtractIs ==
  ASSUME NEW state \in Kept, NEW m \in Message
  PROVE  Extract(state, m) \in Kept
<1>1. state.pending \in Lists /\ state.given \in Lists /\ m.refs \in Lists /\ <<>> \in Lists
  BY MessageHas, ListsGrow DEF Kept
<1>2. Distinct(state.pending \o m.refs) \in Lists /\ Distinct(m.refs \o state.pending) \in Lists
  BY <1>1, BothAreIn, DistinctIs
<1>. QED
  BY <1>1, <1>2 DEF Extract, Kept

\* What is kept and given, message by message.
LEMMA GivenIs ==
  ASSUME messages \in Seq(Message)
  PROVE  /\ \A k \in 0..Len(messages) : Given[k] \in Kept
         /\ Given[0] = NothingKept
         /\ \A k \in 1..Len(messages) : Given[k] = Extract(Given[k - 1], messages[k])
<1>. DEFINE F == [state \in Kept |-> [m \in Message |-> Extract(state, m)]]
            n == Len(messages)
<1>1. F \in Ways(Kept, Message) /\ NothingKept \in Kept
  BY ExtractIs, ListsGrow DEF Ways, NothingKept, Kept
<1>2. n \in Nat /\ \A k \in 1..n : messages[k] \in Message
  BY LenProperties, ElementOfSeq
<1>3. PICK f \in [0..n -> Kept] : f[0] = NothingKept /\ \A k \in 1..n : f[k] = F[f[k - 1]][messages[k]]
  <2>1. F \in Ways(Kept, Message) /\ NothingKept \in Kept
    BY <1>1
  <2>. HIDE DEF F
  <2>. QED
    BY <2>1, GoesOn
<1>4. f = [k \in 0..n |-> IF k = 0 THEN NothingKept ELSE Extract(f[k - 1], messages[k])]
  <2>1. ASSUME NEW k \in 1..n
        PROVE  F[f[k - 1]][messages[k]] = Extract(f[k - 1], messages[k])
    <3>1. k - 1 \in 0..n
      BY <1>2
    <3>2. f[k - 1] \in Kept /\ messages[k] \in Message
      BY <1>2, <1>3, <3>1
    <3>. QED
      BY <3>2
  <2>2. \A k \in 0..n : k # 0 => k \in 1..n
    BY <1>2
  <2>. HIDE DEF F
  <2>. QED
    BY <1>3, <2>1, <2>2
<1>. HIDE DEF F
<1>5. Given = [k \in 0..n |-> IF k = 0 THEN NothingKept ELSE Extract(Given[k - 1], messages[k])]
  BY <1>4 DEF Given, NothingKept
<1>6. Given[0] = NothingKept /\ \A k \in 1..n : Given[k] = Extract(Given[k - 1], messages[k])
  <2>1. PICK g : g = Given
    OBVIOUS
  <2>2. g = [k \in 0..n |-> IF k = 0 THEN NothingKept ELSE Extract(g[k - 1], messages[k])]
    BY <1>5, <2>1
  <2>3. g[0] = NothingKept
    BY <1>2, <2>2
  <2>4. ASSUME NEW k \in 1..n PROVE g[k] = Extract(g[k - 1], messages[k])
    <3>1. k \in 0..n /\ k # 0
      BY <1>2
    <3>. QED
      BY <2>2, <3>1
  <2>. QED
    BY <2>1, <2>3, <2>4
<1>7. {k \in 0..n : Given[k] \in Kept} = 0..n
  <2>. DEFINE S == {k \in 0..n : Given[k] \in Kept}
  <2>1. 0 \in S
    BY <1>1, <1>2, <1>6
  <2>2. ASSUME NEW k \in S, k < n PROVE k + 1 \in S
    <3>1. k + 1 \in 1..n /\ k + 1 - 1 = k /\ k + 1 \in 0..n
      BY <1>2, <2>2
    <3>2. Given[k + 1] = Extract(Given[k], messages[k + 1])
      BY <1>6, <3>1
    <3>. QED
      BY <1>2, <3>1, <3>2, ExtractIs
  <2>3. S \in SUBSET (0..n)
    OBVIOUS
  <2>. HIDE DEF S
  <2>4. S = 0..n
    BY <1>2, <2>1, <2>2, <2>3, CountedUp
  <2>. QED
    BY <2>4 DEF S
<1>. QED
  BY <1>6, <1>7

\* What tools gave since the agent's last message among the first k.
PendingAfter(k) ==
  UNION {ToSet(messages[j].refs) :
    j \in {l \in 1..k : messages[l].role = "tool" /\ \A h \in l..k : messages[h].role # "ai"}}

LEMMA PendingNext ==
  ASSUME messages \in Seq(Message), NEW k \in 1..Len(messages)
  PROVE  PendingAfter(k) = IF messages[k].role = "ai" THEN {}
                           ELSE IF messages[k].role = "tool" THEN PendingAfter(k - 1) \cup ToSet(messages[k].refs)
                           ELSE PendingAfter(k - 1)
<1>. DEFINE J(n) == {l \in 1..n : messages[l].role = "tool" /\ \A h \in l..n : messages[h].role # "ai"}
<1>1. k \in Nat /\ k >= 1 /\ Len(messages) \in Nat /\ messages[k] \in Message
  BY LenProperties, ElementOfSeq
<1>2. \A l \in 1..k : (l = k \/ l \in 1..(k - 1)) /\ k \in l..k
  BY <1>1
<1>3. \A l \in 1..(k - 1) : l \in 1..k /\ l # k /\ \A h \in l..k : h = k \/ h \in l..(k - 1)
  BY <1>1
<1>4. \A l \in 1..(k - 1) : \A h \in l..(k - 1) : h \in l..k
  BY <1>1
<1>5. \A h \in k..k : h = k
  BY <1>1
<1>6. CASE messages[k].role = "ai"
  <2>1. J(k) = {}
    BY <1>2, <1>6
  <2>. QED
    BY <1>6, <2>1 DEF PendingAfter
<1>7. CASE messages[k].role = "tool"
  <2>1. J(k) = J(k - 1) \cup {k}
    BY <1>1, <1>2, <1>3, <1>4, <1>5, <1>7
  <2>2. PendingAfter(k) = UNION {ToSet(messages[j].refs) : j \in J(k)}
    BY DEF PendingAfter
  <2>3. PendingAfter(k - 1) = UNION {ToSet(messages[j].refs) : j \in J(k - 1)}
    BY DEF PendingAfter
  <2>. HIDE DEF J
  <2>. QED
    BY <1>7, <2>1, <2>2, <2>3
<1>8. CASE messages[k].role \notin {"ai", "tool"}
  <2>1. J(k) = J(k - 1)
    BY <1>1, <1>2, <1>3, <1>4, <1>8
  <2>. QED
    BY <1>8, <2>1 DEF PendingAfter
<1>. QED
  BY <1>6, <1>7, <1>8

LEMMA PendingIs ==
  ASSUME messages \in Seq(Message)
  PROVE  \A k \in 0..Len(messages) : ToSet(Given[k].pending) = PendingAfter(k)
<1>. DEFINE n == Len(messages)
            S == {k \in 0..n : ToSet(Given[k].pending) = PendingAfter(k)}
<1>1. n \in Nat /\ \A k \in 1..n : messages[k] \in Message
  BY LenProperties, ElementOfSeq
<1>2. 0 \in S
  <2>1. Given[0].pending = <<>>
    BY GivenIs DEF NothingKept
  <2>2. 1..0 = {}
    OBVIOUS
  <2>3. PendingAfter(0) = {}
    BY <2>2 DEF PendingAfter
  <2>4. ToSet(<<>>) = {}
    BY DEF ToSet
  <2>5. ToSet(Given[0].pending) = {}
    BY <2>1, <2>4, Zenon
  <2>6. 0 \in 0..n
    BY <1>1
  <2>. QED
    BY <2>3, <2>5, <2>6
<1>3. ASSUME NEW k \in S, k < n PROVE k + 1 \in S
  <2>1. k \in 0..n /\ k + 1 \in 1..n /\ k + 1 - 1 = k /\ k + 1 \in 0..n /\ ToSet(Given[k].pending) = PendingAfter(k)
    BY <1>1, <1>3
  <2>. DEFINE g == Given[k]
              m == messages[k + 1]
  <2>2. Given[k + 1] = Extract(g, m) /\ g \in Kept /\ m \in Message
    BY <1>1, <2>1, GivenIs
  <2>3. PendingAfter(k + 1) = IF m.role = "ai" THEN {}
                              ELSE IF m.role = "tool" THEN PendingAfter(k) \cup ToSet(m.refs)
                              ELSE PendingAfter(k)
    <3>1. PICK l : l = k + 1
      OBVIOUS
    <3>2. l \in 1..Len(messages) /\ l - 1 = k
      BY <2>1, <3>1
    <3>. QED
      BY <3>1, <3>2, PendingNext
  <2>4. ToSet(g.pending) = PendingAfter(k)
    BY <2>1
  <2>. HIDE DEF g, m
  <2>5. g.pending \in Lists /\ m.refs \in Lists /\ m.role \in {"ai", "tool", "human"}
    BY <2>2, MessageHas DEF Kept
  <2>6. ToSet(Distinct(g.pending \o m.refs)) = ToSet(g.pending) \cup ToSet(m.refs)
    BY <2>5, BothAreIn, DistinctIs
  <2>7. Extract(g, m).pending = IF m.role = "tool" THEN Distinct(g.pending \o m.refs)
                                ELSE IF m.role = "ai" THEN <<>> ELSE g.pending
    BY <2>2 DEF Extract, Kept
  <2>8. ToSet(<<>>) = {}
    BY DEF ToSet
  <2>9. ToSet(Given[k + 1].pending) = PendingAfter(k + 1)
    BY <2>2, <2>3, <2>4, <2>5, <2>6, <2>7, <2>8
  <2>. QED
    BY <2>1, <2>9
<1>4. S = 0..n
  <2>. HIDE DEF S
  <2>1. S \in SUBSET (0..n)
    BY DEF S
  <2>. QED
    BY <1>1, <1>2, <1>3, <2>1, CountedUp
<1>. QED
  BY <1>4

\* A message of the agent is shown with what it names and what tools gave since
\* the agent's last message, as far as it is still there, each item once.
LEMMA ItemsAre == messages \in Seq(Message) => ItemsOfTurn
<1>. SUFFICES ASSUME messages \in Seq(Message), NEW i \in 1..Len(messages)
              PROVE  LET named == IF messages[i].role = "ai" THEN ToSet(messages[i].refs) \cup ToolRefs(i) ELSE {} IN
                     /\ ToSet(ItemsShown(i)) = {r \in named : Bytes(r)}
                     /\ Len(ItemsShown(i)) = Cardinality(ToSet(ItemsShown(i)))
  BY DEF ItemsOfTurn
<1>. DEFINE g == Given[i - 1]
            m == messages[i]
            d == Given[i].given
<1>1. Len(messages) \in Nat /\ i - 1 \in 0..Len(messages) /\ i \in 0..Len(messages) /\ m \in Message
  BY LenProperties, ElementOfSeq
<1>2. Given[i] = Extract(g, m) /\ g \in Kept /\ Given[i] \in Kept
  BY <1>1, GivenIs
<1>3. ToSet(g.pending) = ToolRefs(i)
  <2>1. ToolRefs(i) = PendingAfter(i - 1)
    BY DEF ToolRefs, PendingAfter
  <2>. QED
    BY <1>1, <2>1, PendingIs
<1>4. g.pending \in Lists /\ m.refs \in Lists /\ d \in Lists /\ m.role \in {"ai", "tool", "human"}
  BY <1>1, <1>2, MessageHas DEF Kept
<1>5. d = IF m.role = "ai" THEN Distinct(m.refs \o g.pending) ELSE <<>>
  <2>1. Extract(g, m).given = IF m.role = "ai" THEN Distinct(m.refs \o g.pending) ELSE <<>>
    BY <1>2, <1>4 DEF Extract, Kept
  <2>. QED
    BY <1>2, <2>1
<1>6. ToSet(Distinct(m.refs \o g.pending)) = ToSet(m.refs) \cup ToolRefs(i) /\ OnceEach(Distinct(m.refs \o g.pending))
  BY <1>3, <1>4, BothAreIn, DistinctIs
<1>7. ToSet(<<>>) = {} /\ OnceEach(<<>>)
  BY DEF ToSet, OnceEach
<1>8. ItemsShown(i) = ContentItems(d)[Len(d)]
  BY DEF ItemsShown
<1>. HIDE DEF d, g
<1>9. ToSet(d) = (IF m.role = "ai" THEN ToSet(m.refs) \cup ToolRefs(i) ELSE {}) /\ OnceEach(d)
  BY <1>5, <1>6, <1>7
<1>10. ItemsShown(i) \in Lists /\ ToSet(ItemsShown(i)) = {r \in ToSet(d) : Bytes(r)} /\ OnceEach(ItemsShown(i))
  BY <1>4, <1>8, <1>9, ShownAre
<1>11. Cardinality(ToSet(ItemsShown(i))) = Len(ItemsShown(i))
  BY <1>10, OnceCounted
<1>. QED
  BY <1>9, <1>10, <1>11

\* However the agent's messages and the results of tools alternate, whatever they
\* name, and whatever is deleted, expires or is purged meanwhile: a message of the
\* agent is shown with the items that it names and that tools gave since the
\* agent's message before, each once, and every other message with none.
THEOREM ItemsAreOfTheirTurn == ContentViewsSpec => []ItemsOfTurn
<1>1. ContentViewsInit => messages \in Seq(Message)
  <2>1. \A n \in Nat : [1..n -> Message] \subseteq Seq(Message)
    BY DEF Seq
  <2>2. Threads \subseteq Seq(Message)
    BY <2>1, ContentViewsAssumption DEF Threads
  <2>. QED
    BY <2>2 DEF ContentViewsInit
<1>2. [ContentViewsNext]_viewVars => messages' = messages
  <2>1. \A d, cs, loads : DrawerBecomes(d, cs, loads) => messages' = messages
    BY DEF DrawerBecomes
  <2>2. CloseDrawer \/ Back \/ RefreshItem \/ CancelDelete \/ Follow(NoRef) => messages' = messages
    BY <2>1 DEF CloseDrawer, Back, RefreshItem, CancelDelete, Follow
  <2>3. \A r \in Refs : Follow(r) \/ Select(r) \/ AskToDelete(r) \/ Ages(r) => messages' = messages
    BY <2>1 DEF Follow, Select, AskToDelete, Ages
  <2>4. ASSUME NEW c \in Calls
        PROVE  /\ Preview(c) \/ ConfirmDelete(c) => messages' = messages
               /\ HearDetail(c) \/ HearPreview(c) \/ HearDelete(c) \/ HearReload(c) => messages' = messages
    <3>1. Preview(c) \/ ConfirmDelete(c) => messages' = messages
      BY <2>1 DEF Preview, ConfirmDelete, BeginCall
    <3>2. HearDetail(c) \/ HearReload(c) => messages' = messages
      BY <2>1 DEF HearDetail, HearReload
    <3>3. HearPreview(c) => messages' = messages
      BY <2>1 DEF HearPreview
    <3>4. HearDelete(c) => messages' = messages
      BY <2>1 DEF HearDelete
    <3>. QED
      BY <3>1, <3>2, <3>3, <3>4
  <2>. QED
    BY <2>2, <2>3, <2>4 DEF ContentViewsNext, viewVars
<1>3. messages \in Seq(Message) /\ [ContentViewsNext]_viewVars => (messages \in Seq(Message))'
  BY <1>2
<1>. QED
  BY <1>1, <1>3, ItemsAre, PTL DEF ContentViewsSpec
=============================================================================
