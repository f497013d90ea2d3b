-------------------------- MODULE PluginScheduler --------------------------
(***************************************************************************)
(* scheduler.py: the jobs of the plugins and of the platform, their timed  *)
(* (APScheduler) and manual executions, the single catch-up run of a       *)
(* trigger that found its job executing, unloading and shutdown.           *)
(*                                                                         *)
(* A registration of a job id is a generation: the number of the           *)
(* registration stands for the object() the code compares.  Job ids share  *)
(* nothing but shutdown.  A step is what runs between two awaits of one    *)
(* asyncio task, or the batch of done-callbacks of a finished task, which  *)
(* the loop runs after the task has finished: other steps may come between *)
(* the two.                                                                *)
(***************************************************************************)
EXTENDS Naturals, FiniteSets

CONSTANTS
    Jobs,        \* job ids
    Plugins,     \* plugin instances
    Owner,       \* Owner[j]: the instance in the id's prefix, or "__platform__"
    Removable,   \* the ids whose job the console removes on its own
    Tasks,       \* slots for executions alive at one time
    Workers,     \* slots for catch-up workers alive at one time
    MaxGen       \* bound: registrations

None == "none"

ASSUME SchedulerAssumption ==
    /\ None \notin Jobs \cup Tasks \cup Workers
    /\ Tasks \cap Workers = {}
    /\ MaxGen \in Nat
    /\ Removable \subseteq Jobs

VARIABLES
    issued,      \* registrations so far
    gens,        \* _generations: the current registration, 0 if none
    store,       \* APScheduler's job store: the registration it holds, 0 if none
    dates,       \* the ids whose current registration has a DateTrigger
    task,        \* the executions: manual ones and those APScheduler submitted
    dying,       \* the executions with a cancellation requested
    manual,      \* _manual
    running,     \* _running
    worker,      \* the tasks of _resume_deferred, with the record's generation
    deferred,    \* _deferred, a record being named by its worker
    late,        \* the ids whose deferred trigger is past misfire_grace_time
    draining,    \* _draining
    trigger,     \* last_trigger_status in _states
    stopping,    \* _stopping
    aps          \* APScheduler: "running", "paused" or "down"

registry == <<issued, gens, store, dates>>
tables == <<manual, running>>
vars == <<registry, task, dying, tables, worker, deferred, late, draining,
          trigger, stopping, aps>>

FreeTask == [st |-> "free", kind |-> "manual", job |-> None, gen |-> 0]
FreeWorker == [st |-> "free", job |-> None, gen |-> 0]

Init ==
    /\ issued = 0 /\ dates = {}
    /\ gens = [j \in Jobs |-> 0]
    /\ store = [j \in Jobs |-> 0]
    /\ task = [t \in Tasks |-> FreeTask]
    /\ dying = {} /\ draining = {} /\ late = {}
    /\ manual = [j \in Jobs |-> None]
    /\ running = [j \in Jobs |-> None]
    /\ worker = [w \in Workers |-> FreeWorker]
    /\ deferred = [j \in Jobs |-> None]
    /\ trigger = [j \in Jobs |-> "none"]
    /\ stopping = FALSE
    /\ aps = "running"

-----------------------------------------------------------------------------
(* Who occupies a job.                                                      *)

Undone(t) == task[t].st \in {"queued", "running"}
Alive(w) == worker[w].st \notin {"free", "done"}

\* The executions APScheduler has not been told the end of: _aps_tasks[j], and
\* its instance counter, which the same batch of callbacks decrements.
Aps(j) == {t \in Tasks : task[t].st # "free" /\ task[t].kind = "aps" /\ task[t].job = j}

LiveScheduledOnly(j, g) == {t \in Aps(j) : Undone(t) /\ task[t].gen = g}  \* fault: manual runs are not counted
Live(j, g) ==
    {t \in Aps(j) \cup ({manual[j], running[j]} \ {None}) : Undone(t) /\ task[t].gen = g}

Blockers(j, g) == Live(j, g) \cup {t \in Aps(j) : Undone(t)}

\* Either the job is executing or APScheduler still counts an execution of it.
OccupiedByScheduled(j) == Aps(j) # {}                  \* fault: only APScheduler's counter
Occupied(j) == Live(j, gens[j]) # {} \/ Aps(j) # {}

Executions(J) == UNION {Aps(j) \cup ({manual[j], running[j]} \ {None}) : j \in J}
Records(J) == {deferred[j] : j \in J} \ {None}

\* _all_tasks, less those that are done.
Outstanding ==
    {t \in Executions(Jobs) \cup (draining \cap Tasks) : Undone(t)}
      \cup {w \in Records(Jobs) \cup (draining \cap Workers) : Alive(w)}

\* _finish_stop shuts APScheduler down once everything tracked has finished.
ForgetsToFinish == UNCHANGED aps                       \* fault: nobody finishes the shutdown
FinishStop == aps' = IF stopping' /\ (Outstanding = {})' THEN "down" ELSE aps

\* The status of a trigger that was not executed.
Skipped == "skipped"

\* A new execution of the current registration of j.
Spawn(t, j, kind) ==
    /\ task[t] = FreeTask
    /\ task' = [task EXCEPT ![t] = [st |-> "queued", kind |-> kind, job |-> j, gen |-> gens[j]]]

\* Records leave the table; their workers are retained and cancelled.
Dropped(J) == {w \in Records(J) : Alive(w)}
Drop(J) ==
    /\ deferred' = [j \in Jobs |-> IF j \in J THEN None ELSE deferred[j]]
    /\ late' = late \ J
    /\ worker' = [w \in Workers |-> IF w \in Dropped(J)
                    THEN [worker[w] EXCEPT !.st = "dying"] ELSE worker[w]]

-----------------------------------------------------------------------------
(* Registration.                                                            *)

Registered(j, kinds) ==
    /\ ~stopping /\ issued < MaxGen
    /\ issued' = issued + 1
    /\ gens' = [gens EXCEPT ![j] = issued + 1]
    /\ store' = [store EXCEPT ![j] = issued + 1]
    /\ dates' = (dates \ {j}) \cup kinds
    /\ Drop({j})
    /\ draining' = draining \cup Dropped({j})
    /\ UNCHANGED <<task, dying, tables, trigger, stopping, aps>>

\* add takes the first name of which APScheduler holds no job; any trigger.
Add(j) ==
    /\ store[j] = 0
    /\ \E kinds \in {{}, {j}} : Registered(j, kinds)

\* add_interval, add_cron with replace_existing.
AddReplacing(j) == Registered(j, {})

\* The console switches remote CookieCloud off: the job goes, its generation stays.
RemoveJob(j) ==
    /\ j \in Removable /\ store[j] # 0
    /\ store' = [store EXCEPT ![j] = 0]
    /\ UNCHANGED <<issued, gens, dates, task, dying, tables, worker, deferred,
                   late, draining, trigger, stopping, aps>>

-----------------------------------------------------------------------------
(* Triggers.                                                                *)

\* A job whose trigger will not fire again leaves the store as it fires.
Fires(j) ==
    /\ aps = "running" /\ store[j] # 0
    /\ store' = IF j \in dates THEN [store EXCEPT ![j] = 0] ELSE store
    /\ UNCHANGED <<issued, gens, dates, tables, dying, draining, stopping, aps>>

FireRuns(j) ==
    /\ Fires(j) /\ ~Occupied(j)
    /\ \E t \in Tasks : Spawn(t, j, "aps")
    /\ UNCHANGED <<worker, deferred, late, trigger>>

\* _defer: the first trigger makes a record with a worker, later ones only
\* move its scheduled time on.
FireDefers(j) ==
    /\ Fires(j) /\ Occupied(j)
    /\ trigger' = [trigger EXCEPT ![j] = "pending"]
    /\ late' = late \ {j}
    /\ IF deferred[j] # None
       THEN UNCHANGED <<worker, deferred>>
       ELSE \E w \in Workers :
              /\ worker[w] = FreeWorker
              /\ worker' = [worker EXCEPT ![w] = [st |-> "check", job |-> j, gen |-> gens[j]]]
              /\ deferred' = [deferred EXCEPT ![j] = w]
    /\ UNCHANGED task

RunNow(j) ==
    /\ ~stopping /\ store[j] # 0
    /\ Live(j, gens[j]) = {} /\ deferred[j] = None
    /\ \E t \in Tasks : Spawn(t, j, "manual") /\ manual' = [manual EXCEPT ![j] = t]
    /\ trigger' = [trigger EXCEPT ![j] = "none"]
    /\ UNCHANGED <<registry, dying, running, worker, deferred, late, draining, stopping, aps>>

-----------------------------------------------------------------------------
(* Executions.                                                              *)

\* A worker in its sleep(0) was put into the loop's queue before any execution
\* that has been created since, and runs before it.
InOrder(t) == ~\E w \in Workers : worker[w].st = "yield" /\ worker[w].job = task[t].job

Goes(t, st) == task' = [task EXCEPT ![t].st = st]
Starting(t) == task[t].st = "queued" /\ InOrder(t)
ExecutionLeaves == UNCHANGED <<registry, dying, manual, worker, deferred, late,
                               draining, trigger, stopping, aps>>

StartsAnyGeneration(t) ==                              \* fault: no generation check
    Live(task[t].job, task[t].gen) \ {t} = {}
MayStart(t) ==
    /\ gens[task[t].job] = task[t].gen
    /\ Live(task[t].job, task[t].gen) \ {t} = {}

\* execute: refuse the stale or second execution, or enter the callback.
Begin(t) ==
    /\ Starting(t) /\ t \notin dying
    /\ IF MayStart(t)
       THEN Goes(t, "running") /\ running' = [running EXCEPT ![task[t].job] = t]
       ELSE Goes(t, "done") /\ UNCHANGED running
    /\ ExecutionLeaves

\* A task cancelled before its first step never enters execute.
NeverBegins(t) ==
    /\ Starting(t) /\ t \in dying
    /\ Goes(t, "done")
    /\ UNCHANGED running /\ ExecutionLeaves

\* APScheduler finds the run time older than the grace time.
Misfire(t) ==
    /\ Starting(t) /\ t \notin dying /\ task[t].kind = "aps"
    /\ Goes(t, "missed")
    /\ UNCHANGED running /\ ExecutionLeaves

\* The callback returns, fails, or gives in to its cancellation.
End(t) ==
    /\ task[t].st = "running"
    /\ Goes(t, "done")
    /\ running' = [j \in Jobs |-> IF running[j] = t THEN None ELSE running[j]]
    /\ ExecutionLeaves

\* The done-callbacks, in the loop's next round.
Callbacks(t) ==
    /\ task[t].st \in {"done", "missed"}
    /\ task' = [task EXCEPT ![t] = FreeTask]
    /\ dying' = dying \ {t}
    /\ draining' = draining \ {t}
    /\ manual' = [j \in Jobs |-> IF manual[j] = t THEN None ELSE manual[j]]
    /\ trigger' = IF task[t].st = "missed" /\ gens[task[t].job] = task[t].gen
                  THEN [trigger EXCEPT ![task[t].job] = Skipped] ELSE trigger
    /\ UNCHANGED <<registry, running, worker, deferred, late, stopping>>
    /\ FinishStop

-----------------------------------------------------------------------------
(* The catch-up worker: _resume_deferred.                                   *)

Watched(w) == Blockers(worker[w].job, worker[w].gen)
Superseded(w) ==
    LET j == worker[w].job  g == worker[w].gen
    IN stopping \/ deferred[j] # w \/ gens[j] # g \/ (store[j] # g /\ ~(store[j] = 0 /\ j \in dates))

\* The head of the loop, reached at once, after the wait, or by "continue".
AtHead(w) ==
    \/ worker[w].st = "check"
    \/ worker[w].st = "wait" /\ (Watched(w) = {} \/ worker[w].job \in late)

WorkerGoes(w, st) == worker' = [worker EXCEPT ![w].st = st]
WorkerLeaves == UNCHANGED <<registry, dying, tables, draining, stopping, aps>>

Abandon(w) ==
    /\ AtHead(w) /\ Superseded(w)
    /\ WorkerGoes(w, "done")
    /\ WorkerLeaves /\ UNCHANGED <<task, deferred, late, trigger>>

Expire(w) ==
    /\ AtHead(w) /\ ~Superseded(w) /\ worker[w].job \in late
    /\ trigger' = [trigger EXCEPT ![worker[w].job] = Skipped]
    /\ WorkerGoes(w, "done")
    /\ WorkerLeaves /\ UNCHANGED <<task, deferred, late>>

\* Wait for the executions in the way, or let the callbacks of those that
\* have just finished run.
Watch(w) ==
    /\ AtHead(w) /\ ~Superseded(w) /\ worker[w].job \notin late
    /\ WorkerGoes(w, IF Watched(w) # {} THEN "wait" ELSE "yield")
    /\ WorkerLeaves /\ UNCHANGED <<task, deferred, late, trigger>>

\* After sleep(0): every callback that was due has run.
Yielded(w) == worker[w].st = "yield" /\ \A t \in Aps(worker[w].job) : Undone(t)

Overtaken(w) ==
    /\ Yielded(w) /\ Watched(w) # {}
    /\ WorkerGoes(w, "check")
    /\ WorkerLeaves /\ UNCHANGED <<task, deferred, late, trigger>>

\* The catch-up run is submitted and the record leaves the table with it.
Resume(w) ==
    LET j == worker[w].job
    IN /\ Yielded(w) /\ Watched(w) = {}
       /\ IF ~stopping /\ deferred[j] = w /\ gens[j] = worker[w].gen
          THEN /\ \E t \in Tasks : Spawn(t, j, "aps")
               /\ deferred' = [deferred EXCEPT ![j] = None]
               /\ late' = late \ {j}
               /\ trigger' = [trigger EXCEPT ![j] = "resumed"]
          ELSE UNCHANGED <<task, deferred, late, trigger>>
       /\ WorkerGoes(w, "done")
       /\ WorkerLeaves

\* The worker's own done-callback takes its record out if it is still there.
KeepsRecord(w) == UNCHANGED <<deferred, late>>         \* fault: the record stays behind
TakesRecord(w) ==
    /\ deferred' = [j \in Jobs |-> IF deferred[j] = w THEN None ELSE deferred[j]]
    /\ late' = late \ {j \in Jobs : deferred[j] = w}

WorkerEnds(w) ==
    /\ worker[w].st \in {"done", "dying"}
    /\ worker' = [worker EXCEPT ![w] = FreeWorker]
    /\ draining' = draining \ {w}
    /\ TakesRecord(w)
    /\ UNCHANGED <<registry, task, dying, tables, trigger, stopping>>
    /\ IF w \in draining THEN FinishStop ELSE UNCHANGED aps

\* Time passes: the deferred trigger is now too old.
Lapse(j) ==
    /\ deferred[j] # None /\ j \notin late
    /\ late' = late \cup {j}
    /\ UNCHANGED <<registry, task, dying, tables, worker, deferred, draining,
                   trigger, stopping, aps>>

-----------------------------------------------------------------------------
(* Unloading and shutdown.                                                  *)

\* The jobs J are forgotten; the executions E go on under _draining, cancelled
\* except for the caller's.
Unregister(J, E, caller) ==
    /\ gens' = [j \in Jobs |-> IF j \in J THEN 0 ELSE gens[j]]
    /\ store' = [j \in Jobs |-> IF j \in J THEN 0 ELSE store[j]]
    /\ dates' = dates \ J
    /\ trigger' = [j \in Jobs |-> IF j \in J THEN "none" ELSE trigger[j]]
    /\ Drop(J)
    /\ draining' = draining \cup E \cup Dropped(J)
    /\ dying' = dying \cup (E \ caller)
    /\ UNCHANGED <<issued, task, tables>>

\* remove_plugin, called from outside or by one of the plugin's own callbacks,
\* which is then not cancelled.
RemovePlugin(p, caller) ==
    LET J == {j \in Jobs : Owner[j] = p}
    IN /\ caller = {} \/ \E t \in Executions(J) : caller = {t} /\ task[t].st = "running"
       /\ Unregister(J, {t \in Executions(J) : Undone(t)}, caller)
       /\ UNCHANGED <<stopping, aps>>

Stop ==
    /\ ~stopping
    /\ stopping' = TRUE
    /\ Unregister(Jobs, {t \in Executions(Jobs) \cup (draining \cap Tasks) : Undone(t)}, {})
    /\ aps' = IF (Outstanding = {})' THEN "down" ELSE "paused"

-----------------------------------------------------------------------------
Execution(t) ==
    Begin(t) \/ NeverBegins(t) \/ Misfire(t) \/ End(t) \/ Callbacks(t)
CatchUp(w) ==
    Abandon(w) \/ Expire(w) \/ Watch(w) \/ Overtaken(w) \/ WorkerEnds(w)

Next ==
    \/ \E j \in Jobs :
         \/ Add(j) \/ AddReplacing(j) \/ RemoveJob(j)
         \/ FireRuns(j) \/ FireDefers(j) \/ RunNow(j) \/ Lapse(j)
    \/ \E t \in Tasks : Execution(t)
    \/ \E w \in Workers : CatchUp(w) \/ Resume(w)
    \/ \E p \in Plugins, caller \in {{}} \cup {{t} : t \in Tasks} : RemovePlugin(p, caller)
    \/ Stop

Spec == Init /\ [][Next]_vars

\* The event loop runs what is ready and every callback ends; triggers do not
\* hit, for ever, the few rounds a worker needs to find its job free and resume.
FairSpec ==
    /\ Spec
    /\ \A t \in Tasks : WF_vars(Execution(t))
    /\ \A w \in Workers : SF_vars(CatchUp(w)) /\ SF_vars(Resume(w))

-----------------------------------------------------------------------------
(* What has to hold.                                                        *)

TaskRec == [st : {"free", "queued", "running", "done", "missed"},
            kind : {"manual", "aps"}, job : Jobs \cup {None}, gen : 0..MaxGen]
WorkerRec == [st : {"free", "check", "wait", "yield", "done", "dying"},
              job : Jobs \cup {None}, gen : 0..MaxGen]

\* Every variable keeps its shape.
TypeOK ==
    /\ issued \in 0..MaxGen /\ dates \subseteq Jobs
    /\ gens \in [Jobs -> 0..MaxGen] /\ store \in [Jobs -> 0..MaxGen]
    /\ task \in [Tasks -> TaskRec] /\ worker \in [Workers -> WorkerRec]
    /\ manual \in [Jobs -> Tasks \cup {None}] /\ running \in [Jobs -> Tasks \cup {None}]
    /\ deferred \in [Jobs -> Workers \cup {None}]
    /\ dying \subseteq Tasks /\ draining \subseteq Tasks \cup Workers /\ late \subseteq Jobs
    /\ trigger \in [Jobs -> {"none", "pending", "skipped", "resumed"}]
    /\ stopping \in BOOLEAN /\ aps \in {"running", "paused", "down"}

\* Timed, manual and catch-up runs of one registration share one execution slot
\* (scheduler.py:70).
OneAtATime ==
    \A t, u \in Tasks :
      /\ task[t].st = "running" /\ task[u].st = "running"
      /\ task[t].job = task[u].job /\ task[t].gen = task[u].gen
      => t = u

\* What was let in is executed: no execution of a current registration is turned
\* away at its start because another one holds the slot (CHANGELOG.md:122).
AcceptedRuns ==
    [][\A t \in Tasks :
         task[t].st = "queued" /\ task'[t].st = "done"
           => t \in dying \/ gens[task[t].job] # task[t].gen]_vars

\* Nothing of an earlier registration starts, whatever was queued, deferred or
\* still draining when its job was replaced, removed or stopped (docs/SPEC.md:114).
StaleNeverStarts ==
    [][\A t \in Tasks :
         task[t].st # "running" /\ task'[t].st = "running"
           => gens[task[t].job] = task[t].gen /\ ~stopping]_vars

\* A trigger that is waiting has exactly one worker, and a worker that is not
\* cancelled has its trigger: catch-up runs neither multiply nor get stuck.
OneCatchUp ==
    /\ \A j \in Jobs : deferred[j] # None =>
         worker[deferred[j]].job = j /\ worker[deferred[j]].st \notin {"free", "dying"}
    /\ \A w \in Workers :
         worker[w].st \in {"check", "wait", "yield"} => deferred[worker[w].job] = w

\* APScheduler, which cancels what it still has, is shut down only after every
\* execution it submitted and every worker has finished (scheduler.py:490).
ShutdownWaits ==
    aps = "down" =>
      /\ \A t \in Tasks : task[t].kind = "aps" => ~Undone(t)
      /\ \A w \in Workers : ~Alive(w)

\* The tables of executions, catch-ups and the shutdown never contradict each other.
TablesAgree == TypeOK /\ OneCatchUp /\ ShutdownWaits

\* A deferred trigger is executed, skipped or dropped with its job.
CatchUpDecided == \A j \in Jobs : deferred[j] # None ~> deferred[j] = None

\* A shutdown comes to its end.
StopEnds == stopping ~> aps = "down"

\* Nothing that was deferred or is being stopped is left hanging.
EverythingEnds == CatchUpDecided /\ StopEnds

\* A trigger that fires during an execution is not dropped: its record leaves the
\* table resumed, reported as skipped, or with its job (CHANGELOG.md:121).
TriggersAreKept ==
    [][\A j \in Jobs :
         deferred[j] # None /\ deferred'[j] = None
           => \/ trigger'[j] \in {"resumed", "skipped"}
              \/ gens'[j] # gens[j]]_vars

=============================================================================
