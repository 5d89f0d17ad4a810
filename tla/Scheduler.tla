------------------------------ MODULE Scheduler ------------------------------
(***************************************************************************)
(* ScheduleService (packages/tool-schedule): the task list, the cron jobs  *)
(* armed for it, the minute sweep over once-off tasks, the executions both *)
(* of them start, and the schedule.json file every mutation is saved to.   *)
(*                                                                         *)
(* The service is one Node process: a handler runs without interruption    *)
(* from one await to the next, and anything else may run at an await.  So  *)
(* an action is the code between two awaits, and a caller or an execution  *)
(* that waits keeps in its record what its closure captured.               *)
(*                                                                         *)
(* Time is abstracted to what the code compares: whether a minute is the   *)
(* current one (`ran`, `swept`) and whether a runAt has passed (`passed`). *)
(***************************************************************************)
EXTENDS Naturals, FiniteSets

CONSTANTS
  Ids,          \* task ids; addTask draws a fresh one (a uuid)
  Kinds,        \* the schedule types in play, a subset of {"cron", "once"}
  Flags,        \* the values of `enabled` in play
  Defs,         \* what else a task says: prompt, cron expression, delivery
  StarterDefs,  \* the Defs with startConversation and a starterText
  ReplyDefs,    \* the Defs whose reply is delivered to a source channel
  RunTimes,     \* values of runAt
  Callers,      \* tool calls that can be in progress at once
  Slots,        \* executions by cron jobs and runTaskNow in progress at once
  Sweep,        \* the execution the minute sweep is awaiting
  Faults        \* the failures the environment may inject

NoTime == "none"

ASSUME SchedulerAssumption ==
  /\ Kinds \subseteq {"cron", "once"}
  /\ Flags \subseteq BOOLEAN
  /\ StarterDefs \subseteq Defs
  /\ ReplyDefs \subseteq Defs
  /\ NoTime \notin RunTimes
  /\ Sweep \notin Slots
  /\ Faults \subseteq {"save", "starter", "invoke", "reply", "crash"}

VARIABLES
  up,        \* the process runs
  tasks,     \* this.tasks, by id
  cronJobs,  \* this.cronJobs: the job handle and the task its closure captured
  lost,      \* jobs that still run but whose handle was overwritten in cronJobs
  paused,    \* this.paused
  swept,     \* lastSweepMinute is the current minute
  sweeping,  \* minuteSweepRunning
  due,       \* what is left of the sweep's dueTasks snapshot
  call,      \* the tool calls in progress
  run,       \* the executions in progress
  disk,      \* the tasks in schedule.json
  passed,    \* the runAt values that are not in the future
  used,      \* ids given out so far
  drift,     \* history: ids whose job table entry a raced or failed call left wrong
  orphaned,  \* history: ids left "running" by an execution that died
  done       \* history: successful invocations of a once-off task, up to 2

jobVars  == <<cronJobs, lost, drift>>
taskVars == <<tasks, used>>
timeVars == <<swept, passed>>
onceVars == <<orphaned, done>>
sweepVars == <<sweeping, due>>
vars == <<up, tasks, cronJobs, lost, paused, swept, sweeping, due, call, run,
          disk, passed, used, drift, orphaned, done>>

Execs == Slots \cup {Sweep}
OnceStates == {"pending", "running", "completed", "failed"}
\* A task as a caller or the file may describe it, and as normalised.
AnyTask == [kind : {"cron", "once"}, enabled : BOOLEAN, def : Defs,
            runAt : RunTimes \cup {NoTime}, state : OnceStates \cup {"none"},
            ran : BOOLEAN]
Task == {t \in AnyTask : IF t.kind = "once" THEN t.runAt # NoTime /\ t.state # "none"
                         ELSE t.runAt = NoTime /\ t.state = "none"}
TaskList == UNION {[D -> Task] : D \in SUBSET Ids}

\* What a closure needs of the task object it captured.
Captured == [kind : {"cron", "once"}, enabled : BOOLEAN, def : Defs]
Capture(t) == [kind |-> t.kind, enabled |-> t.enabled, def |-> t.def]

Job == [on : BOOLEAN, def : Defs]
JobTable == UNION {[D -> Job] : D \in SUBSET Ids}

NoTasks == [i \in {} |-> {}]
NoJobs == NoTasks
Idle == [pc |-> "idle"]

Call == {Idle}
  \cup [pc : {"add", "update"}, id : Ids, task : Captured, snap : TaskList]
  \cup [pc : {"remove"}, snap : TaskList]

MarkPc == {"marking", "completing", "failing"}    \* awaiting a save
AwayPc == {"starting", "invoking", "replying", "apologising"}
Execution == {Idle}
  \cup [pc : MarkPc \cup AwayPc, id : Ids, once : BOOLEAN, def : Defs,
        by : {"cron", "sweep", "manual"}, snap : TaskList]

-----------------------------------------------------------------------------
(* Helpers on the task list and the job table                              *)

Put(f, i, v) == [j \in DOMAIN f \cup {i} |-> IF j = i THEN v ELSE f[j]]
Drop(f, i) == [j \in DOMAIN f \ {i} |-> f[j]]

\* Variant for mutation: the default state is forgotten.
NormaliseNoDefault(t) ==
  [t EXCEPT !.runAt = IF t.kind = "once" THEN @ ELSE NoTime,
            !.state = IF t.kind = "cron" THEN "none" ELSE @]

\* normaliseAndValidateTask: a cron task loses runAt and onceState, a once task
\* keeps a known onceState and is "pending" otherwise; lastRunAt is kept.
Normalise(t) ==
  [t EXCEPT !.runAt = IF t.kind = "once" THEN @ ELSE NoTime,
            !.state = IF t.kind = "cron" THEN "none"
                      ELSE IF @ = "none" THEN "pending" ELSE @]

WantsJob(t) == t.enabled /\ t.kind = "cron"

\* Variants for mutation: a completed task is due again; a task already
\* started in this minute is; a failed one is not.
DueThoughCompleted(t) ==
  t.enabled /\ t.kind = "once" /\ t.state # "running" /\ ~t.ran /\ t.runAt \in passed
DueThoughRan(t) ==
  /\ t.enabled /\ t.kind = "once" /\ t.state \notin {"completed", "running"}
  /\ t.runAt \in passed
DueOnlyPending(t) ==
  t.enabled /\ t.kind = "once" /\ t.state = "pending" /\ ~t.ran /\ t.runAt \in passed

\* isOnceTaskDue
IsOnceTaskDue(t) ==
  /\ t.enabled
  /\ t.kind = "once"
  /\ t.state \notin {"completed", "running"}
  /\ ~t.ran
  /\ t.runAt \in passed

\* The dueTasks snapshot: the ids and what executeTask will read of each task.
DueTasks ==
  {[id |-> i, def |-> tasks[i].def] :
     i \in {j \in DOMAIN tasks : IsOnceTaskDue(tasks[j])}}

\* Variant for mutation: disabled tasks get their job back too.
RebuiltIgnoringEnabled(list) ==
  [i \in {j \in DOMAIN list : list[j].kind = "cron"} |->
     [on |-> TRUE, def |-> list[i].def]]

\* rebuildCronJobs, not paused: every handle in the map is stopped and dropped,
\* and every enabled cron task gets a job.
RebuiltJobs(list) ==
  [i \in {j \in DOMAIN list : WantsJob(list[j])} |->
     [on |-> TRUE, def |-> list[i].def]]

\* scheduleSingleTask: cronJobs.set overwrites the entry of i without stopping
\* the job it holds.
ScheduleSingleTask(jobs, i, def) ==
  /\ cronJobs' = Put(jobs, i, [on |-> TRUE, def |-> def])
  /\ lost' = IF i \in DOMAIN jobs /\ jobs[i].on
               THEN lost \cup {[id |-> i, def |-> jobs[i].def]} ELSE lost

\* lastRunAt stops being the current minute in every copy of the list.
Aged(list) == [i \in DOMAIN list |-> [list[i] EXCEPT !.ran = FALSE]]

-----------------------------------------------------------------------------
(* Tool calls.  A call that failed before its first await changed nothing  *)
(* and is left out.                                                        *)

CallsIdle(c) == up /\ call[c].pc = "idle"

\* addTask up to `await this.save()`.
AddTask(c, i) ==
  /\ CallsIdle(c)
  /\ i \notin used
  /\ \E kind \in Kinds, enabled \in Flags, def \in Defs, runAt \in RunTimes :
       LET t == Normalise([kind |-> kind, enabled |-> enabled, def |-> def,
                           runAt |-> runAt, state |-> "none", ran |-> FALSE])
       IN  /\ tasks' = Put(tasks, i, t)
           /\ call' = [call EXCEPT ![c] = [pc |-> "add", id |-> i,
                                           task |-> Capture(t), snap |-> tasks']]
  /\ used' = used \cup {i}
  /\ UNCHANGED <<up, cronJobs, lost, paused, sweepVars, run, disk, timeVars,
                 drift, onceVars>>

\* updateTask up to the save: the fields given replace those of the live task.
UpdateTask(c, i) ==
  /\ CallsIdle(c)
  /\ i \in DOMAIN tasks
  /\ \E kind \in Kinds, enabled \in Flags, def \in Defs, runAt \in RunTimes :
       LET t == Normalise([tasks[i] EXCEPT !.kind = kind, !.enabled = enabled,
                                           !.def = def, !.runAt = runAt])
       IN  /\ tasks' = [tasks EXCEPT ![i] = t]
           /\ call' = [call EXCEPT ![c] = [pc |-> "update", id |-> i,
                                           task |-> Capture(t), snap |-> tasks']]
           /\ done' = IF tasks[i].kind = "cron" THEN [done EXCEPT ![i] = 0] ELSE done
  /\ UNCHANGED <<up, used, cronJobs, lost, paused, sweepVars, run, disk, timeVars,
                 drift, orphaned>>

\* The captured task is no longer the live one (or there is none).
Stale(c) ==
  \/ call[c].id \notin DOMAIN tasks
  \/ Capture(tasks[call[c].id]) # call[c].task

DriftAfter(c) ==
  IF Stale(c) THEN drift \cup {call[c].id}
  ELSE IF call[c].pc = "update" THEN drift \ {call[c].id} ELSE drift

\* Variant for mutation: a task saved while the service is paused is armed.
ArmsThoughPaused(c) == WantsJob(call[c].task)

\* Both continuations arm the captured task, not the live one.
Arms(c) == ~paused /\ WantsJob(call[c].task)

\* The rest of addTask: the task is armed with what the call captured.
AddTaskSaved(c) ==
  /\ call[c].pc = "add"
  /\ disk' = call[c].snap
  /\ IF Arms(c)
       THEN ScheduleSingleTask(cronJobs, call[c].id, call[c].task.def)
       ELSE UNCHANGED <<cronJobs, lost>>
  /\ drift' = DriftAfter(c)
  /\ call' = [call EXCEPT ![c] = Idle]
  /\ UNCHANGED <<up, tasks, used, paused, sweepVars, run, timeVars, onceVars>>

\* The rest of updateTask: the job in the map is stopped and replaced.
UpdateTaskSaved(c) ==
  /\ call[c].pc = "update"
  /\ disk' = call[c].snap
  /\ LET rest == Drop(cronJobs, call[c].id)
     IN  IF Arms(c)
           THEN ScheduleSingleTask(rest, call[c].id, call[c].task.def)
           ELSE cronJobs' = rest /\ UNCHANGED lost
  /\ drift' = DriftAfter(c)
  /\ call' = [call EXCEPT ![c] = Idle]
  /\ UNCHANGED <<up, tasks, used, paused, sweepVars, run, timeVars, onceVars>>

\* removeTask: task and job go before the save.
RemoveTask(c, i) ==
  /\ CallsIdle(c)
  /\ i \in DOMAIN tasks
  /\ tasks' = Drop(tasks, i)
  /\ cronJobs' = Drop(cronJobs, i)
  /\ drift' = drift \ {i}
  /\ call' = [call EXCEPT ![c] = [pc |-> "remove", snap |-> tasks']]
  /\ UNCHANGED <<up, used, lost, paused, sweepVars, run, disk, timeVars, onceVars>>

RemoveAllTasks(c) ==
  /\ CallsIdle(c)
  /\ tasks' = NoTasks
  /\ cronJobs' = NoJobs
  /\ drift' = {}
  /\ call' = [call EXCEPT ![c] = [pc |-> "remove", snap |-> tasks']]
  /\ UNCHANGED <<up, used, lost, paused, sweepVars, run, disk, timeVars, onceVars>>

RemoveSaved(c) ==
  /\ call[c].pc = "remove"
  /\ disk' = call[c].snap
  /\ call' = [call EXCEPT ![c] = Idle]
  /\ UNCHANGED <<up, taskVars, jobVars, paused, sweepVars, run, timeVars, onceVars>>

\* writeFile rejects: the call fails after its change to the list, before the
\* job table follows.
CallSaveFails(c) ==
  /\ "save" \in Faults
  /\ call[c].pc # "idle"
  /\ drift' = IF call[c].pc = "remove" THEN drift ELSE drift \cup {call[c].id}
  /\ call' = [call EXCEPT ![c] = Idle]
  /\ UNCHANGED <<up, taskVars, cronJobs, lost, paused, sweepVars, run, disk,
                 timeVars, onceVars>>

Pause ==
  /\ up
  /\ paused' = TRUE
  /\ cronJobs' = [i \in DOMAIN cronJobs |-> [cronJobs[i] EXCEPT !.on = FALSE]]
  /\ UNCHANGED <<up, taskVars, lost, drift, sweepVars, call, run, disk, timeVars, onceVars>>

\* Variant for mutation: the stopped jobs are started again, nothing is rebuilt.
ResumeJobs ==
  /\ up
  /\ paused' = FALSE
  /\ cronJobs' = [i \in DOMAIN cronJobs |-> [cronJobs[i] EXCEPT !.on = TRUE]]
  /\ drift' = {}
  /\ UNCHANGED <<up, taskVars, lost, sweepVars, call, run, disk, timeVars, onceVars>>

\* resume: pausing is undone by rebuilding the whole job table.
Resume ==
  /\ up
  /\ paused' = FALSE
  /\ cronJobs' = RebuiltJobs(tasks)
  /\ drift' = {}
  /\ UNCHANGED <<up, taskVars, lost, sweepVars, call, run, disk, timeVars, onceVars>>

-----------------------------------------------------------------------------
(* Executions: executeTask from one await to the next                      *)

\* lastRunAt is the current minute once the task is marked started.
WithState(t, state) ==
  [t EXCEPT !.state = state, !.ran = IF state = "running" THEN TRUE ELSE @]

Live(i) == i \in DOMAIN tasks /\ tasks[i].kind = "once"

\* markOnceTaskStarted / Completed / Failed: the live task, if it is still a
\* once task, is replaced and the list saved; otherwise nothing is written.
Mark(x, e, state, pcSaving, pcElse) ==
  IF e.once /\ Live(e.id)
    THEN /\ tasks' = Put(tasks, e.id, WithState(tasks[e.id], state))
         /\ run' = [run EXCEPT ![x] = [e EXCEPT !.pc = pcSaving, !.snap = tasks']]
    ELSE /\ tasks' = tasks
         /\ run' = [run EXCEPT ![x] = IF pcElse = "idle" THEN Idle
                                      ELSE [e EXCEPT !.pc = pcElse, !.snap = NoTasks]]

\* The call of executeTask by a job, the sweep or runTaskNow.
Execute(x, i, once, def, by) ==
  /\ run[x].pc = "idle"
  /\ Mark(x, [pc |-> "idle", id |-> i, once |-> once, def |-> def, by |-> by,
              snap |-> NoTasks], "running", "marking", "starting")
  /\ orphaned' = IF once THEN orphaned \ {i} ELSE orphaned

\* A job fires: those in the map and those whose handle was overwritten.
FireJob(x, i) ==
  /\ up
  /\ \E def \in Defs :
       /\ \/ i \in DOMAIN cronJobs /\ cronJobs[i] = [on |-> TRUE, def |-> def]
          \/ [id |-> i, def |-> def] \in lost
       /\ Execute(x, i, FALSE, def, "cron")
  /\ UNCHANGED <<up, used, jobVars, paused, sweepVars, call, disk, timeVars, done>>

RunTaskNow(x, i) ==
  /\ up
  /\ i \in DOMAIN tasks
  /\ Execute(x, i, tasks[i].kind = "once", tasks[i].def, "manual")
  /\ UNCHANGED <<up, used, jobVars, paused, sweepVars, call, disk, timeVars, done>>

\* runDueOnceTasks: the minute sweep job fires (it is stopped while paused).
SweepFires ==
  /\ up
  /\ ~paused
  /\ ~sweeping
  /\ ~swept
  /\ sweeping' = TRUE
  /\ swept' = TRUE
  /\ due' = DueTasks
  /\ UNCHANGED <<up, taskVars, jobVars, paused, call, run, disk, passed, onceVars>>

\* The loop over the snapshot: nothing is looked at again.
SweepNext ==
  /\ sweeping
  /\ \E d \in due :
       /\ due' = due \ {d}
       /\ Execute(Sweep, d.id, TRUE, d.def, "sweep")
  /\ UNCHANGED <<up, used, jobVars, paused, sweeping, call, disk, timeVars, done>>

SweepEnds ==
  /\ sweeping
  /\ due = {}
  /\ run[Sweep].pc = "idle"
  /\ sweeping' = FALSE
  /\ UNCHANGED <<up, taskVars, jobVars, paused, due, call, run, disk, timeVars, onceVars>>

restOfRun == <<up, used, jobVars, paused, sweepVars, call, timeVars>>

Become(x, pc) ==
  run' = [run EXCEPT ![x] = IF pc = "idle" THEN Idle
                            ELSE [@ EXCEPT !.pc = pc, !.snap = NoTasks]]

AfterSuccess(e) == IF e.def \in ReplyDefs THEN "replying" ELSE "idle"
AfterFailure(e) == IF e.def \in ReplyDefs THEN "apologising" ELSE "idle"

\* Variant for mutation: the failure is reported but the task not marked.
CatchOnlyReports(x) == Become(x, AfterFailure(run[x])) /\ UNCHANGED tasks

\* The catch block up to its first await.
Catch(x) == Mark(x, run[x], "failed", "failing", AfterFailure(run[x]))

Marked(x) ==
  /\ run[x].pc = "marking"
  /\ disk' = run[x].snap
  /\ Become(x, "starting")
  /\ UNCHANGED <<restOfRun, tasks, onceVars>>

\* executeTask rejects before its try block: nothing undoes "running".
Abandon(x) ==
  /\ \/ "save" \in Faults /\ run[x].pc = "marking"
     \/ "starter" \in Faults /\ run[x].pc = "starting" /\ run[x].def \in StarterDefs
  /\ orphaned' = IF run[x].once THEN orphaned \cup {run[x].id} ELSE orphaned
  /\ Become(x, "idle")
  /\ UNCHANGED <<restOfRun, tasks, disk, done>>

Started(x) ==
  /\ run[x].pc = "starting"
  /\ Become(x, "invoking")
  /\ UNCHANGED <<restOfRun, tasks, disk, onceVars>>

InvokeReturns(x) ==
  /\ run[x].pc = "invoking"
  /\ Mark(x, run[x], "completed", "completing", AfterSuccess(run[x]))
  /\ done' = IF run[x].once /\ done[run[x].id] < 2
               THEN [done EXCEPT ![run[x].id] = @ + 1] ELSE done
  /\ UNCHANGED <<restOfRun, disk, orphaned>>

Completed(x) ==
  /\ run[x].pc = "completing"
  /\ disk' = run[x].snap
  /\ Become(x, AfterSuccess(run[x]))
  /\ UNCHANGED <<restOfRun, tasks, onceVars>>

\* invokeAgent, the save of "completed" and the delivery of the reply are all
\* inside the try block: each failure runs the catch block.
TryFails(x) ==
  /\ \/ "invoke" \in Faults /\ run[x].pc = "invoking"
     \/ "save" \in Faults /\ run[x].pc = "completing"
     \/ "reply" \in Faults /\ run[x].pc = "replying"
  /\ Catch(x)
  /\ UNCHANGED <<restOfRun, disk, onceVars>>

FailureSaved(x) ==
  /\ run[x].pc = "failing"
  /\ disk' = run[x].snap
  /\ Become(x, AfterFailure(run[x]))
  /\ UNCHANGED <<restOfRun, tasks, onceVars>>

\* The last await: a reply delivered, an error reported or not, or a save of
\* "failed" that rejects.
ExecutionEnds(x) ==
  /\ \/ run[x].pc \in {"replying", "apologising"}
     \/ "save" \in Faults /\ run[x].pc = "failing"
  /\ Become(x, "idle")
  /\ UNCHANGED <<restOfRun, tasks, disk, onceVars>>

Progress(x) ==
  \/ Marked(x) \/ Abandon(x) \/ Started(x) \/ InvokeReturns(x) \/ Completed(x)
  \/ TryFails(x) \/ FailureSaved(x) \/ ExecutionEnds(x)

-----------------------------------------------------------------------------
(* The process and the clock                                               *)

\* start: load, rebuildCronJobs, startMinuteSweep.
Start ==
  /\ ~up
  /\ up' = TRUE
  /\ tasks' = [i \in DOMAIN disk |-> Normalise(disk[i])]
  /\ cronJobs' = RebuiltJobs(tasks')
  /\ orphaned' = {i \in DOMAIN disk : disk[i].state = "running"}
  /\ UNCHANGED <<lost, paused, timeVars, sweepVars, call, run, disk, used, drift, done>>

\* The process dies; what is not in schedule.json dies with it.
Crash ==
  /\ "crash" \in Faults
  /\ up
  /\ up' = FALSE
  /\ tasks' = NoTasks
  /\ cronJobs' = NoJobs
  /\ lost' = {}
  /\ drift' = {}
  /\ paused' = FALSE
  /\ swept' = FALSE
  /\ sweeping' = FALSE
  /\ due' = {}
  /\ call' = [c \in Callers |-> Idle]
  /\ run' = [x \in Execs |-> Idle]
  /\ orphaned' = {}
  /\ UNCHANGED <<disk, passed, used, done>>

\* A minute begins.
Tick ==
  /\ swept' = FALSE
  /\ \E p \in SUBSET RunTimes : passed \subseteq p /\ passed' = p
  /\ tasks' = Aged(tasks)
  /\ disk' = Aged(disk)
  /\ call' = [c \in Callers |-> IF call[c].pc = "idle" THEN Idle
                                ELSE [call[c] EXCEPT !.snap = Aged(@)]]
  /\ run' = [x \in Execs |-> IF run[x].pc = "idle" THEN Idle
                             ELSE [run[x] EXCEPT !.snap = Aged(@)]]
  /\ UNCHANGED <<up, jobVars, paused, sweepVars, used, onceVars>>

Init ==
  /\ up = FALSE
  /\ tasks = NoTasks
  /\ cronJobs = NoJobs
  /\ lost = {}
  /\ paused = FALSE
  /\ swept = FALSE
  /\ sweeping = FALSE
  /\ due = {}
  /\ call = [c \in Callers |-> Idle]
  /\ run = [x \in Execs |-> Idle]
  /\ disk = NoTasks
  /\ passed = {}
  /\ used = {}
  /\ drift = {}
  /\ orphaned = {}
  /\ done = [i \in Ids |-> 0]

Next ==
  \/ \E c \in Callers, i \in Ids : AddTask(c, i) \/ UpdateTask(c, i) \/ RemoveTask(c, i)
  \/ \E c \in Callers : \/ AddTaskSaved(c) \/ UpdateTaskSaved(c) \/ RemoveSaved(c)
                        \/ RemoveAllTasks(c) \/ CallSaveFails(c)
  \/ Pause \/ Resume
  \/ \E x \in Slots, i \in Ids : FireJob(x, i) \/ RunTaskNow(x, i)
  \/ SweepFires \/ SweepNext \/ SweepEnds
  \/ \E x \in Execs : Progress(x)
  \/ Start \/ Crash \/ Tick

Spec == Init /\ [][Next]_vars

\* Timers fire, and every await of the sweep is answered: writeFile and fetch
\* both settle (fetch has header and body timeouts of its own).
Fairness ==
  /\ WF_vars(Tick)
  /\ WF_vars(SweepFires)
  /\ WF_vars(SweepNext)
  /\ WF_vars(SweepEnds)
  /\ WF_vars(Progress(Sweep))

FairSpec == Spec /\ Fairness

-----------------------------------------------------------------------------
(* Properties                                                              *)

TypeOK ==
  /\ up \in BOOLEAN /\ paused \in BOOLEAN /\ swept \in BOOLEAN /\ sweeping \in BOOLEAN
  /\ tasks \in TaskList
  /\ disk \in TaskList
  /\ cronJobs \in JobTable
  /\ lost \subseteq [id : Ids, def : Defs]
  /\ due \subseteq [id : Ids, def : Defs]
  /\ call \in [Callers -> Call]
  /\ run \in [Execs -> Execution]
  /\ passed \subseteq RunTimes
  /\ used \subseteq Ids /\ drift \subseteq Ids /\ orphaned \subseteq Ids
  /\ done \in [Ids -> 0..2]

\* Every job whose handle the service still holds runs exactly when the
\* service is not paused, whichever of addTask, updateTask, pause, resume and
\* their awaits came in which order: no path arms a job on a paused service.
HandlesFollowPause ==
  \A i \in DOMAIN cronJobs : cronJobs[i].on = ~paused

Pending(i) ==
  \E c \in Callers : call[c].pc \in {"add", "update"} /\ call[c].id = i

\* While the service is up and not paused, a task has a job exactly when it is
\* an enabled cron task, and the job runs its present definition, unless a call
\* for the task is still waiting for its save, or one finished with a task
\* object that had been replaced meanwhile or with a save that failed.
WantedAreArmed ==
  up /\ ~paused =>
    \A i \in Ids \ drift :
      ~Pending(i) =>
        /\ i \in DOMAIN cronJobs <=> i \in DOMAIN tasks /\ WantsJob(tasks[i])
        /\ i \in DOMAIN cronJobs => cronJobs[i].def = tasks[i].def

\* The job table holds the jobs that it should, and they run when they should.
JobTableExact == HandlesFollowPause /\ WantedAreArmed

\* JobTableExact is not inductive: a call still waiting for its save must not
\* leave behind a job nobody wanted.  So JobInv tells its two directions apart
\* ("armed only if wanted" also holds while an addTask waits), and adds that no
\* list or table, in memory, in the file or captured by a save, mentions an id
\* that was not given out.
Updating(i) == \E c \in Callers : call[c].pc = "update" /\ call[c].id = i

ArmedOnlyIfWanted ==
  up /\ ~paused =>
    \A i \in Ids \ drift :
      ~Updating(i) /\ i \in DOMAIN cronJobs =>
        i \in DOMAIN tasks /\ WantsJob(tasks[i]) /\ cronJobs[i].def = tasks[i].def

WantedIsArmed ==
  up /\ ~paused =>
    \A i \in Ids \ drift :
      ~Pending(i) /\ i \in DOMAIN tasks /\ WantsJob(tasks[i]) => i \in DOMAIN cronJobs

IdsGivenOut ==
  /\ DOMAIN tasks \subseteq used
  /\ DOMAIN disk \subseteq used
  /\ DOMAIN cronJobs \subseteq used
  /\ \A c \in Callers : call[c].pc # "idle" => DOMAIN call[c].snap \subseteq used
  /\ \A c \in Callers : call[c].pc \in {"add", "update"} => call[c].id \in used
  /\ \A x \in Execs : run[x].pc # "idle" => DOMAIN run[x].snap \subseteq used

JobInv ==
  /\ TypeOK
  /\ ~up => ~paused
  /\ HandlesFollowPause
  /\ IdsGivenOut
  /\ ArmedOnlyIfWanted
  /\ WantedIsArmed

\* A once-off task shown as "running" has an execution that has not left its
\* try block, or its execution died before the try block or with the process:
\* no other order of executions, updates and failures leaves it "running".
RunningIsOwned ==
  \A i \in DOMAIN tasks :
    tasks[i].state = "running" =>
      \/ i \in orphaned
      \/ \E x \in Execs : /\ run[x].pc \in {"marking", "starting", "invoking"}
                          /\ run[x].once
                          /\ run[x].id = i

\* schedule_add_task: "Supports recurring cron tasks and once-off minute-level
\* tasks": the prompt of a once-off task is run to success once.
OnceOffRunsOnce == \A i \in Ids : done[i] <= 1

Starts(x) == run[x].pc = "idle" /\ run'[x].pc # "idle"

\* schedule_pause: "While paused, no scheduled tasks will fire automatically."
NothingFiresWhilePaused ==
  [][\A x \in Execs : Starts(x) /\ run'[x].by # "manual" => ~paused]_vars

\* A failing once-off task is retried at most once a minute, also when a sweep
\* outlasts its minute and the next one begins in the minute in which the task
\* was last started (no runTaskNow in between: Slots is empty).
RetriedOncePerMinute ==
  [][Starts(Sweep) =>
       LET i == run'[Sweep].id IN i \in DOMAIN tasks => ~tasks[i].ran]_vars

Waiting(i) ==
  /\ up /\ ~paused
  /\ i \in DOMAIN tasks
  /\ tasks[i].enabled /\ tasks[i].kind = "once"
  /\ tasks[i].state \in {"pending", "failed"}
  /\ tasks[i].runAt \in passed

\* A once-off task whose time has come is started, and a failed one is started
\* again, however the other due tasks fare and whatever is removed or edited
\* under the sweep.
DueIsStarted == \A i \in Ids : Waiting(i) ~> ~Waiting(i)

\* The promises of the sweep: what is done stays done, what has failed is tried
\* again minute by minute, what is due is started.
SweepPromise ==
  /\ [][OnceOffRunsOnce']_vars
  /\ RetriedOncePerMinute
  /\ DueIsStarted
=============================================================================
