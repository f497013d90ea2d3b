----------------------- MODULE PluginScheduler_proofs -----------------------
(***************************************************************************)
(* Proofs about PluginScheduler, for any job ids, owners, executions,      *)
(* catch-up workers and number of registrations.                           *)
(*                                                                         *)
(* OneAtATime is not inductive: it speaks of executions that have entered  *)
(* their callback, and what keeps them apart is decided when they are let  *)
(* in.  Inv says that one execution per registration is let in at all      *)
(* (OnePerGeneration).  That needs every execution of the current          *)
(* registration to be seen by the next admission (ManualTracked), although *)
(* _manual and _running are overwritten by those of later registrations;   *)
(* and a generation to belong to one job only (GenerationsDiffer), because *)
(* it is drawn from one counter, whose bound is Numbered.                  *)
(*                                                                         *)
(* CatchUpInv, on top of it, is about the workers: those that were         *)
(* cancelled are still tracked (DyingDrains), so a shutdown sees them all. *)
(***************************************************************************)
EXTENDS PluginScheduler, TLAPS

Numbered ==
    /\ \A j \in Jobs : gens[j] <= issued /\ store[j] \in {0, gens[j]}
    /\ \A t \in Tasks : task[t].st # "free" =>
         task[t].job \in Jobs /\ task[t].gen # 0 /\ task[t].gen <= issued
    /\ \A w \in Workers : worker[w].st # "free" => worker[w].job \in Jobs /\ worker[w].gen # 0

GenerationsDiffer ==
    /\ \A i, j \in Jobs : gens[i] = gens[j] /\ gens[i] # 0 => i = j
    /\ \A t \in Tasks, j \in Jobs :
         task[t].st # "free" /\ task[t].gen = gens[j] => task[t].job = j

ManualTracked ==
    \A t \in Tasks :
      Undone(t) /\ task[t].kind = "manual" /\ task[t].gen = gens[task[t].job]
        => manual[task[t].job] = t

OnePerGeneration ==
    \A t, u \in Tasks :
      Undone(t) /\ Undone(u) /\ task[t].gen = task[u].gen => t = u

StoppedForgets == stopping => \A j \in Jobs : gens[j] = 0

Inv ==
    /\ TypeOK /\ Numbered /\ GenerationsDiffer
    /\ ManualTracked /\ OnePerGeneration /\ StoppedForgets

-----------------------------------------------------------------------------
(* What a step does to the executions.                                      *)

\* No execution is created: one moves on, or its slot is given back.
Settles ==
    /\ \A t \in Tasks :
         \/ task'[t] = task[t]
         \/ task'[t] = FreeTask
         \/ Undone(t) /\ \E st \in {"running", "done", "missed"} :
                            task'[t] = [task[t] EXCEPT !.st = st]
    /\ \A t \in Tasks, j \in Jobs : manual[j] = t /\ Undone(t) => manual'[j] = t

\* One execution is let in, for a registration that has none.
LetsIn(t, j, kind) ==
    /\ Spawn(t, j, kind)
    /\ gens[j] # 0 /\ Live(j, gens[j]) = {}
    /\ gens' = gens /\ issued' = issued /\ store' \in [Jobs -> 0..MaxGen]
    /\ \A i \in Jobs : store'[i] \in {0, store[i]}
    /\ \A i \in Jobs : i # j \/ kind = "aps" => manual'[i] = manual[i]
    /\ kind = "manual" => manual'[j] = t

LEMMA FreeTypes == FreeTask \in TaskRec /\ FreeWorker \in WorkerRec
BY SchedulerAssumption DEF FreeTask, FreeWorker, TaskRec, WorkerRec

-----------------------------------------------------------------------------
(* Types.                                                                   *)

LEMMA GoesTyped ==
    ASSUME TypeOK, NEW t \in Tasks,
           NEW st \in {"free", "queued", "running", "done", "missed"}, Goes(t, st)
    PROVE  task' \in [Tasks -> TaskRec]
BY DEF TypeOK, Goes, TaskRec

LEMMA SpawnTyped ==
    ASSUME TypeOK, NEW t \in Tasks, NEW j \in Jobs, NEW kind \in {"manual", "aps"}, Spawn(t, j, kind)
    PROVE  task' \in [Tasks -> TaskRec]
BY DEF TypeOK, Spawn, TaskRec

LEMMA WorkerTyped ==
    ASSUME TypeOK, NEW w \in Workers,
           NEW st \in {"free", "check", "wait", "yield", "done", "dying"}, WorkerGoes(w, st)
    PROVE  worker' \in [Workers -> WorkerRec]
BY DEF TypeOK, WorkerGoes, WorkerRec

LEMMA DropTyped ==
    ASSUME TypeOK, NEW J \in SUBSET Jobs, Drop(J)
    PROVE  /\ worker' \in [Workers -> WorkerRec] /\ deferred' \in [Jobs -> Workers \cup {None}]
           /\ late' \subseteq Jobs /\ Dropped(J) \subseteq Workers
<1>1. worker' \in [Workers -> WorkerRec]
  BY DEF TypeOK, Drop, WorkerRec
<1>2. Records(J) \subseteq Workers
  BY DEF TypeOK, Records
<1> QED BY <1>1, <1>2 DEF TypeOK, Drop, Dropped

LEMMA ExecutionsTyped == TypeOK => \A J \in SUBSET Jobs : Executions(J) \subseteq Tasks
BY DEF TypeOK, Executions, Aps

LEMMA UnregisterTyped ==
    ASSUME TypeOK, NEW J \in SUBSET Jobs, NEW E \in SUBSET Tasks, NEW caller, Unregister(J, E, caller),
           stopping' \in BOOLEAN, aps' \in {"running", "paused", "down"}
    PROVE  TypeOK'
<1>1. /\ worker' \in [Workers -> WorkerRec] /\ deferred' \in [Jobs -> Workers \cup {None}]
      /\ late' \subseteq Jobs /\ Dropped(J) \subseteq Workers
  BY DropTyped DEF Unregister
<1> QED BY <1>1, SchedulerAssumption DEF TypeOK, Unregister, tables

LEMMA TypeNext == TypeOK /\ Numbered /\ [Next]_vars => TypeOK'
<1> SUFFICES ASSUME TypeOK, Numbered, [Next]_vars PROVE TypeOK'
  OBVIOUS
<1> USE DEF registry, tables
<1>1. ASSUME NEW j \in Jobs, NEW kinds \in SUBSET Jobs, Registered(j, kinds) PROVE TypeOK'
  <2>1. /\ worker' \in [Workers -> WorkerRec] /\ deferred' \in [Jobs -> Workers \cup {None}]
        /\ late' \subseteq Jobs /\ Dropped({j}) \subseteq Workers
    BY <1>1, DropTyped DEF Registered
  <2>2. issued + 1 \in 0..MaxGen
    BY <1>1, SchedulerAssumption DEF TypeOK, Registered
  <2> QED BY <1>1, <2>1, <2>2 DEF TypeOK, Registered
<1>2. ASSUME NEW j \in Jobs, RemoveJob(j) PROVE TypeOK'
  BY <1>2, SchedulerAssumption DEF TypeOK, RemoveJob
<1>3. ASSUME NEW j \in Jobs, Fires(j) PROVE store' \in [Jobs -> 0..MaxGen]
  BY <1>3, SchedulerAssumption DEF TypeOK, Fires
<1>4. ASSUME NEW j \in Jobs, FireRuns(j) PROVE TypeOK'
  <2>1. task' \in [Tasks -> TaskRec]
    BY <1>4, SpawnTyped DEF FireRuns
  <2> QED BY <1>3, <1>4, <2>1 DEF TypeOK, FireRuns, Fires
<1>5. ASSUME NEW j \in Jobs, FireDefers(j) PROVE TypeOK'
  <2>1. worker' \in [Workers -> WorkerRec] /\ deferred' \in [Jobs -> Workers \cup {None}]
    BY <1>5 DEF TypeOK, FireDefers, WorkerRec
  <2> QED BY <1>3, <1>5, <2>1 DEF TypeOK, FireDefers, Fires
<1>6. ASSUME NEW j \in Jobs, RunNow(j) PROVE TypeOK'
  <2>1. task' \in [Tasks -> TaskRec]
    BY <1>6, SpawnTyped DEF RunNow
  <2> QED BY <1>6, <2>1 DEF TypeOK, RunNow
<1>7. ASSUME NEW j \in Jobs, Lapse(j) PROVE TypeOK'
  BY <1>7 DEF TypeOK, Lapse
<1>8. ASSUME NEW t \in Tasks, Begin(t) PROVE TypeOK'
  <2>1. task' \in [Tasks -> TaskRec]
    BY <1>8, GoesTyped DEF Begin
  <2>2. running' \in [Jobs -> Tasks \cup {None}]
    BY <1>8 DEF TypeOK, Begin
  <2> QED BY <1>8, <2>1, <2>2 DEF TypeOK, Begin, ExecutionLeaves
<1>9. ASSUME NEW t \in Tasks, NeverBegins(t) \/ Misfire(t) PROVE TypeOK'
  <2>1. task' \in [Tasks -> TaskRec]
    BY <1>9, GoesTyped DEF NeverBegins, Misfire
  <2> QED BY <1>9, <2>1 DEF TypeOK, NeverBegins, Misfire, ExecutionLeaves
<1>10. ASSUME NEW t \in Tasks, End(t) PROVE TypeOK'
  <2>1. task' \in [Tasks -> TaskRec]
    BY <1>10, GoesTyped DEF End
  <2> QED BY <1>10, <2>1 DEF TypeOK, End, ExecutionLeaves
<1>11. ASSUME NEW t \in Tasks, Callbacks(t) PROVE TypeOK'
  <2>1. task' \in [Tasks -> TaskRec]
    BY <1>11, FreeTypes DEF TypeOK, Callbacks
  <2>2. trigger' \in [Jobs -> {"none", "pending", "skipped", "resumed"}]
    BY <1>11 DEF TypeOK, Callbacks, Skipped
  <2>3. manual' \in [Jobs -> Tasks \cup {None}]
    BY <1>11 DEF TypeOK, Callbacks
  <2>4. aps' \in {"running", "paused", "down"}
    BY <1>11 DEF TypeOK, Callbacks, FinishStop
  <2> QED BY <1>11, <2>1, <2>2, <2>3, <2>4 DEF TypeOK, Callbacks
<1>12. ASSUME NEW w \in Workers, Abandon(w) \/ Expire(w) \/ Watch(w) \/ Overtaken(w) PROVE TypeOK'
  <2>1. worker' \in [Workers -> WorkerRec]
    BY <1>12, WorkerTyped DEF Abandon, Expire, Watch, Overtaken
  <2>2. trigger' \in [Jobs -> {"none", "pending", "skipped", "resumed"}]
    BY <1>12 DEF TypeOK, Abandon, Expire, Watch, Overtaken, Skipped
  <2> QED BY <1>12, <2>1, <2>2 DEF TypeOK, Abandon, Expire, Watch, Overtaken, WorkerLeaves
<1>13. ASSUME NEW w \in Workers, Resume(w) PROVE TypeOK'
  <2> DEFINE j == worker[w].job
  <2>1. worker' \in [Workers -> WorkerRec] /\ j \in Jobs
    BY <1>13, WorkerTyped DEF Resume, Yielded, Numbered
  <2>2. task' \in [Tasks -> TaskRec]
    BY <1>13, <2>1, SpawnTyped DEF TypeOK, Resume
  <2>3. deferred' \in [Jobs -> Workers \cup {None}] /\ late' \subseteq Jobs
        /\ trigger' \in [Jobs -> {"none", "pending", "skipped", "resumed"}]
    BY <1>13, <2>1 DEF TypeOK, Resume
  <2> QED BY <1>13, <2>1, <2>2, <2>3 DEF TypeOK, Resume, WorkerLeaves
<1>14. ASSUME NEW w \in Workers, WorkerEnds(w) PROVE TypeOK'
  <2>1. worker' \in [Workers -> WorkerRec]
    BY <1>14, FreeTypes DEF TypeOK, WorkerEnds
  <2>2. deferred' \in [Jobs -> Workers \cup {None}] /\ late' \subseteq Jobs
    BY <1>14 DEF TypeOK, WorkerEnds, TakesRecord
  <2>3. aps' \in {"running", "paused", "down"}
    BY <1>14 DEF TypeOK, WorkerEnds, FinishStop
  <2> QED BY <1>14, <2>1, <2>2, <2>3 DEF TypeOK, WorkerEnds
<1>15. ASSUME NEW p \in Plugins, NEW caller, RemovePlugin(p, caller) PROVE TypeOK'
  <2> DEFINE J == {j \in Jobs : Owner[j] = p}
             E == {t \in Executions(J) : Undone(t)}
  <2>1. E \in SUBSET Tasks
    BY ExecutionsTyped
  <2>2. Unregister(J, E, caller) /\ UNCHANGED <<stopping, aps>>
    BY <1>15 DEF RemovePlugin
  <2> QED BY <2>1, <2>2, UnregisterTyped DEF TypeOK
<1>16. ASSUME Stop PROVE TypeOK'
  <2> DEFINE E == {t \in Executions(Jobs) \cup (draining \cap Tasks) : Undone(t)}
  <2>1. E \in SUBSET Tasks
    BY ExecutionsTyped
  <2>2. Unregister(Jobs, E, {}) /\ stopping' = TRUE /\ aps' \in {"paused", "down"}
    BY <1>16 DEF Stop
  <2> QED BY <2>1, <2>2, UnregisterTyped
<1>17. CASE UNCHANGED vars
  BY <1>17 DEF TypeOK, vars
<1> QED
  BY <1>1, <1>2, <1>4, <1>5, <1>6, <1>7, <1>8, <1>9, <1>10, <1>11, <1>12, <1>13, <1>14,
     <1>15, <1>16, <1>17
     DEF Next, Add, AddReplacing, Execution, CatchUp

-----------------------------------------------------------------------------
(* Every step either lets one execution in or only settles what is there.   *)

\* Registrations are only replaced by later ones or forgotten.
Renumbers ==
    /\ issued' \in {issued, issued + 1}
    /\ \A j \in Jobs :
         \/ gens'[j] = gens[j] /\ store'[j] \in {0, store[j]}
         \/ gens'[j] = 0 /\ store'[j] = 0
         \/ /\ gens'[j] = issued + 1 /\ store'[j] = issued + 1 /\ issued' = issued + 1
            /\ \A i \in Jobs \ {j} : gens'[i] = gens[i]

LEMMA StepKinds ==
    ASSUME TypeOK, Numbered, [Next]_vars
    PROVE  \/ \E t \in Tasks, j \in Jobs, kind \in {"manual", "aps"} : LetsIn(t, j, kind)
           \/ Settles /\ Renumbers
<1> USE DEF registry, tables
<1>1. ASSUME NEW j \in Jobs, NEW kinds, Registered(j, kinds) PROVE Settles /\ Renumbers
  BY <1>1 DEF TypeOK, Registered, Settles, Renumbers
<1>2. ASSUME NEW j \in Jobs, RemoveJob(j) \/ FireDefers(j) \/ Lapse(j) PROVE Settles /\ Renumbers
  BY <1>2 DEF TypeOK, RemoveJob, FireDefers, Fires, Lapse, Settles, Renumbers
<1>3. ASSUME NEW j \in Jobs, FireRuns(j) PROVE \E t \in Tasks : LetsIn(t, j, "aps")
  <2>1. gens[j] # 0
    BY <1>3 DEF FireRuns, Fires, Numbered
  <2>2. store' \in [Jobs -> 0..MaxGen] /\ \A i \in Jobs : store'[i] \in {0, store[i]}
    BY <1>3, SchedulerAssumption DEF TypeOK, FireRuns, Fires
  <2> QED BY <1>3, <2>1, <2>2 DEF FireRuns, Fires, Occupied, LetsIn
<1>4. ASSUME NEW j \in Jobs, RunNow(j) PROVE \E t \in Tasks : LetsIn(t, j, "manual")
  <2>1. gens[j] # 0
    BY <1>4 DEF RunNow, Numbered
  <2>2. PICK t \in Tasks : Spawn(t, j, "manual") /\ manual' = [manual EXCEPT ![j] = t]
    BY <1>4 DEF RunNow
  <2>3. manual'[j] = t /\ \A i \in Jobs : i # j => manual'[i] = manual[i]
    BY <2>2 DEF TypeOK
  <2> QED BY <1>4, <2>1, <2>2, <2>3 DEF RunNow, LetsIn, TypeOK
<1>5. ASSUME NEW t \in Tasks, Begin(t) \/ NeverBegins(t) \/ Misfire(t) \/ End(t)
      PROVE  Settles /\ Renumbers
  <2>1. Undone(t) /\ \E st \in {"running", "done", "missed"} : Goes(t, st)
    BY <1>5 DEF Begin, NeverBegins, Misfire, End, Starting, Undone
  <2>2. UNCHANGED <<issued, gens, store, manual>>
    BY <1>5 DEF Begin, NeverBegins, Misfire, End, ExecutionLeaves
  <2> QED BY <2>1, <2>2 DEF TypeOK, Goes, Settles, Renumbers
<1>6. ASSUME NEW t \in Tasks, Callbacks(t) PROVE Settles /\ Renumbers
  <2>1. \A u \in Tasks, j \in Jobs : manual[j] = u /\ Undone(u) => manual'[j] = u
    BY <1>6 DEF TypeOK, Callbacks, Undone
  <2> QED BY <1>6, <2>1 DEF TypeOK, Callbacks, Settles, Renumbers
<1>7. ASSUME NEW w \in Workers,
             Abandon(w) \/ Expire(w) \/ Watch(w) \/ Overtaken(w) \/ WorkerEnds(w)
      PROVE  Settles /\ Renumbers
  BY <1>7 DEF TypeOK, Abandon, Expire, Watch, Overtaken, WorkerEnds, WorkerLeaves, Settles, Renumbers
<1>8. ASSUME NEW w \in Workers, Resume(w)
      PROVE  \/ \E t \in Tasks, j \in Jobs : LetsIn(t, j, "aps")
             \/ Settles /\ Renumbers
  <2> DEFINE j == worker[w].job
  <2>1. j \in Jobs /\ worker[w].gen # 0
    BY <1>8 DEF Resume, Yielded, Numbered
  <2>2. UNCHANGED <<registry, manual>>
    BY <1>8 DEF Resume, WorkerLeaves
  <2>3. CASE ~stopping /\ deferred[j] = w /\ gens[j] = worker[w].gen
    <3>1. PICK t \in Tasks : Spawn(t, j, "aps")
      BY <1>8, <2>3 DEF Resume
    <3>2. Live(j, gens[j]) = {}
      BY <1>8, <2>3 DEF Resume, Watched, Blockers
    <3> QED BY <2>1, <2>2, <2>3, <3>1, <3>2 DEF LetsIn, TypeOK
  <2>4. CASE ~(~stopping /\ deferred[j] = w /\ gens[j] = worker[w].gen)
    <3>1. task' = task
      BY <1>8, <2>4 DEF Resume
    <3> QED BY <2>2, <3>1 DEF TypeOK, Settles, Renumbers
  <2> QED BY <2>3, <2>4
<1>9. ASSUME NEW J, NEW E, NEW caller, Unregister(J, E, caller) PROVE Settles /\ Renumbers
  BY <1>9 DEF TypeOK, Unregister, Settles, Renumbers
<1>10. CASE UNCHANGED vars
  BY <1>10 DEF TypeOK, vars, Settles, Renumbers
<1> QED
  BY <1>1, <1>2, <1>3, <1>4, <1>5, <1>6, <1>7, <1>8, <1>9, <1>10
     DEF Next, Add, AddReplacing, Execution, CatchUp, RemovePlugin, Stop

-----------------------------------------------------------------------------
(* The invariant is inductive.                                              *)

LEMMA NumberedWorkers ==
    ASSUME TypeOK, Numbered, [Next]_vars
    PROVE  \A w \in Workers : worker'[w].st # "free" => worker'[w].job \in Jobs /\ worker'[w].gen # 0
<1> DEFINE Fine == \A w \in Workers : worker'[w].st # "free" => worker'[w].job \in Jobs /\ worker'[w].gen # 0
<1>1. ASSUME NEW J, Drop(J) PROVE Fine
  <2>1. ASSUME NEW w \in Workers, w \in Dropped(J)
        PROVE  worker'[w].job = worker[w].job /\ worker'[w].gen = worker[w].gen /\ worker[w].st # "free"
    BY <1>1, <2>1 DEF TypeOK, WorkerRec, Drop, Dropped, Alive
  <2>2. ASSUME NEW w \in Workers, w \notin Dropped(J) PROVE worker'[w] = worker[w]
    BY <1>1, <2>2 DEF TypeOK, Drop
  <2> QED BY <2>1, <2>2 DEF Numbered
<1>2. ASSUME NEW w \in Workers, NEW st, worker[w].st # "free", WorkerGoes(w, st) PROVE Fine
  BY <1>2 DEF TypeOK, WorkerRec, WorkerGoes, Numbered
<1>3. ASSUME NEW w \in Workers, WorkerEnds(w) PROVE Fine
  BY <1>3 DEF TypeOK, WorkerEnds, FreeWorker, Numbered
<1>4. ASSUME NEW j \in Jobs, FireDefers(j) PROVE Fine
  <2>1. gens[j] # 0
    BY <1>4 DEF FireDefers, Fires, Numbered
  <2> QED BY <1>4, <2>1 DEF TypeOK, FireDefers, Numbered
<1>5. CASE worker' = worker
  BY <1>5 DEF Numbered
<1>6. ASSUME NEW w \in Workers,
             Abandon(w) \/ Expire(w) \/ Watch(w) \/ Overtaken(w) \/ Resume(w)
      PROVE  worker[w].st # "free" /\ \E st : WorkerGoes(w, st)
  BY <1>6 DEF Abandon, Expire, Watch, Overtaken, Resume, AtHead, Yielded
<1> QED
  BY <1>1, <1>2, <1>3, <1>4, <1>5, <1>6
     DEF Next, Add, AddReplacing, Registered, RemoveJob, FireRuns, RunNow, Lapse, Execution, Begin,
         NeverBegins, Misfire, End, Callbacks, ExecutionLeaves, CatchUp, RemovePlugin, Stop,
         Unregister, vars

LEMMA SettledTasks ==
    ASSUME TypeOK, Numbered, Settles, NEW t \in Tasks, task'[t].st # "free"
    PROVE  /\ task[t].st # "free"
           /\ task'[t].job = task[t].job /\ task'[t].gen = task[t].gen /\ task'[t].kind = task[t].kind
           /\ Undone(t)' => Undone(t)
<1>1. CASE task'[t] = task[t]
  BY <1>1 DEF Undone
<1>2. CASE task'[t] = FreeTask
  BY <1>2 DEF FreeTask
<1>3. CASE Undone(t) /\ \E st \in {"running", "done", "missed"} : task'[t] = [task[t] EXCEPT !.st = st]
  BY <1>3 DEF TypeOK, TaskRec, Undone
<1> QED BY <1>1, <1>2, <1>3 DEF Settles

\* The execution let in, and the others as they were.
LEMMA LetInTasks ==
    ASSUME TypeOK, NEW t \in Tasks, NEW j \in Jobs, NEW kind \in {"manual", "aps"}, LetsIn(t, j, kind)
    PROVE  /\ task'[t].st = "queued" /\ task'[t].kind = kind
           /\ task'[t].job = j /\ task'[t].gen = gens[j]
           /\ \A u \in Tasks \ {t} : task'[u] = task[u]
BY DEF LetsIn, Spawn, TypeOK

LEMMA NumberedNext == TypeOK /\ Numbered /\ [Next]_vars => Numbered'
<1> SUFFICES ASSUME TypeOK, Numbered, [Next]_vars PROVE Numbered'
  OBVIOUS
<1>1. \A w \in Workers : worker'[w].st # "free" => worker'[w].job \in Jobs /\ worker'[w].gen # 0
  BY NumberedWorkers
<1>2. ASSUME NEW t \in Tasks, NEW j \in Jobs, NEW kind \in {"manual", "aps"}, LetsIn(t, j, kind)
      PROVE  Numbered'
  <2>1. \A u \in Tasks : task'[u].st # "free" =>
          task'[u].job \in Jobs /\ task'[u].gen # 0 /\ task'[u].gen <= issued'
    BY <1>2, LetInTasks DEF LetsIn, Numbered
  <2>2. \A i \in Jobs : gens'[i] <= issued' /\ store'[i] \in {0, gens'[i]}
    BY <1>2 DEF LetsIn, Numbered
  <2> QED BY <1>1, <2>1, <2>2 DEF Numbered
<1>3. CASE Settles /\ Renumbers
  <2>1. issued \in Nat /\ issued <= issued' /\ issued' \in Nat
    BY <1>3 DEF Renumbers, TypeOK
  <2>2. \A t \in Tasks : task[t].gen \in Nat
    BY DEF TypeOK, TaskRec
  <2>3. \A t \in Tasks : task'[t].st # "free" =>
          task'[t].job \in Jobs /\ task'[t].gen # 0 /\ task'[t].gen <= issued'
    BY <1>3, <2>1, <2>2, SettledTasks DEF Numbered
  <2>4. \A j \in Jobs : gens[j] \in Nat
    BY DEF TypeOK
  <2>5. \A j \in Jobs : gens'[j] <= issued' /\ store'[j] \in {0, gens'[j]}
    BY <1>3, <2>1, <2>4 DEF Renumbers, Numbered
  <2> QED BY <1>1, <2>3, <2>5 DEF Numbered
<1> QED BY <1>2, <1>3, StepKinds

LEMMA GenerationsDifferNext ==
    ASSUME TypeOK, Numbered, GenerationsDiffer, [Next]_vars
    PROVE  GenerationsDiffer'
<1>1. ASSUME NEW t \in Tasks, NEW j \in Jobs, NEW kind \in {"manual", "aps"}, LetsIn(t, j, kind)
      PROVE  GenerationsDiffer'
  <2>1. gens' = gens /\ gens[j] # 0
    BY <1>1 DEF LetsIn
  <2>2. /\ \A u \in Tasks \ {t} : task'[u] = task[u]
        /\ task'[t].job = j /\ task'[t].gen = gens[j]
    BY <1>1, LetInTasks
  <2> QED BY <2>1, <2>2 DEF GenerationsDiffer
<1>2. CASE Settles /\ Renumbers
  <2>1. \A j \in Jobs : gens[j] <= issued /\ gens[j] \in Nat /\ issued \in Nat
    BY DEF Numbered, TypeOK
  <2>2. \A i, j \in Jobs : gens'[i] = gens'[j] /\ gens'[i] # 0 => i = j
    BY <1>2, <2>1 DEF Renumbers, GenerationsDiffer
  <2>3. ASSUME NEW t \in Tasks, NEW j \in Jobs, task'[t].st # "free", task'[t].gen = gens'[j]
        PROVE  task'[t].job = j
    <3>1. /\ task[t].st # "free"
          /\ task'[t].job = task[t].job /\ task'[t].gen = task[t].gen
      BY <1>2, <2>3, SettledTasks
    <3>2. task[t].gen \in Nat /\ task[t].gen <= issued /\ task[t].gen # 0
      BY <3>1 DEF Numbered, TypeOK, TaskRec
    <3>3. gens'[j] # 0 /\ gens'[j] # issued + 1
      BY <2>1, <2>3, <3>1, <3>2
    <3>4. gens'[j] = gens[j]
      BY <1>2, <3>3 DEF Renumbers
    <3> QED BY <2>3, <3>1, <3>4 DEF GenerationsDiffer
  <2> QED BY <2>2, <2>3 DEF GenerationsDiffer
<1> QED BY <1>1, <1>2, StepKinds

\* The executions of the current registration are those Live looks at.
LEMMA LiveSeesAll ==
    ASSUME TypeOK, Numbered, ManualTracked, NEW t \in Tasks, Undone(t),
           task[t].gen = gens[task[t].job]
    PROVE  t \in Live(task[t].job, task[t].gen)
<1> DEFINE j == task[t].job
<1>1. t # None /\ task[t].kind \in {"manual", "aps"} /\ task[t].st # "free"
  BY SchedulerAssumption DEF TypeOK, TaskRec, Undone
<1>2. CASE task[t].kind = "aps"
  BY <1>1, <1>2 DEF Live, Aps
<1>3. CASE task[t].kind = "manual"
  BY <1>1, <1>3 DEF ManualTracked, Live
<1> QED BY <1>1, <1>2, <1>3

\* A registration that Settles leaves in force was in force before.
LEMMA StillCurrent ==
    ASSUME TypeOK, Numbered, Settles, Renumbers, NEW t \in Tasks, Undone(t)',
           task'[t].gen = gens'[task'[t].job]
    PROVE  Undone(t) /\ task[t].gen = gens[task[t].job] /\ task'[t].job = task[t].job
<1>1. /\ Undone(t) /\ task'[t].job = task[t].job /\ task'[t].gen = task[t].gen
      /\ task[t].st # "free"
  BY SettledTasks DEF Undone
<1>2. task[t].job \in Jobs /\ task[t].gen # 0 /\ task[t].gen <= issued
      /\ task[t].gen \in Nat /\ issued \in Nat
  BY <1>1 DEF Numbered, TypeOK, TaskRec
<1> QED BY <1>1, <1>2 DEF Renumbers

LEMMA ManualTrackedNext ==
    ASSUME TypeOK, Numbered, ManualTracked, [Next]_vars
    PROVE  ManualTracked'
<1>1. ASSUME NEW t \in Tasks, NEW j \in Jobs, NEW kind \in {"manual", "aps"}, LetsIn(t, j, kind)
      PROVE  ManualTracked'
  <2> SUFFICES ASSUME NEW u \in Tasks, Undone(u)', task'[u].kind = "manual",
                      task'[u].gen = gens'[task'[u].job]
               PROVE  manual'[task'[u].job] = u
    BY DEF ManualTracked
  <2>1. gens' = gens
    BY <1>1 DEF LetsIn
  <2>2. CASE u = t
    BY <1>1, <2>2, LetInTasks DEF LetsIn
  <2>3. CASE u # t
    <3>1. task'[u] = task[u] /\ Undone(u)
      BY <1>1, <2>3, LetInTasks DEF Undone
    <3>2. manual[task[u].job] = u /\ task[u].job \in Jobs
      BY <2>1, <3>1 DEF ManualTracked, Numbered, Undone
    <3>3. u \in Live(task[u].job, gens[task[u].job])
      BY <2>1, <3>1, LiveSeesAll
    <3>4. task[u].job # j
      BY <1>1, <3>3 DEF LetsIn
    <3> QED BY <1>1, <3>1, <3>2, <3>4 DEF LetsIn
  <2> QED BY <2>2, <2>3
<1>2. CASE Settles /\ Renumbers
  <2> SUFFICES ASSUME NEW u \in Tasks, Undone(u)', task'[u].kind = "manual",
                      task'[u].gen = gens'[task'[u].job]
               PROVE  manual'[task'[u].job] = u
    BY DEF ManualTracked
  <2>1. Undone(u) /\ task[u].gen = gens[task[u].job] /\ task'[u].job = task[u].job
    BY <1>2, StillCurrent
  <2>2. task[u].kind = "manual" /\ task[u].job \in Jobs
    BY <1>2, <2>1, SettledTasks DEF Undone, Numbered
  <2> QED BY <1>2, <2>1, <2>2 DEF ManualTracked, Settles
<1> QED BY <1>1, <1>2, StepKinds

LEMMA OnePerGenerationNext ==
    ASSUME TypeOK, Numbered, GenerationsDiffer, ManualTracked, OnePerGeneration, [Next]_vars
    PROVE  OnePerGeneration'
<1>1. ASSUME NEW t \in Tasks, NEW j \in Jobs, NEW kind \in {"manual", "aps"}, LetsIn(t, j, kind)
      PROVE  OnePerGeneration'
  <2>1. \A u \in Tasks \ {t} : task'[u] = task[u] /\ (Undone(u)' <=> Undone(u))
    BY <1>1, LetInTasks DEF Undone
  <2>2. task'[t].job = j /\ task'[t].gen = gens[j]
    BY <1>1, LetInTasks
  <2>3. ASSUME NEW u \in Tasks, Undone(u), task[u].gen = gens[j] PROVE FALSE
    <3>1. task[u].job = j
      BY <2>3 DEF GenerationsDiffer, Undone
    <3> QED BY <1>1, <2>3, <3>1, LiveSeesAll DEF LetsIn
  <2> QED BY <2>1, <2>2, <2>3 DEF OnePerGeneration
<1>2. CASE Settles
  <2>1. \A t \in Tasks : Undone(t)' =>
          Undone(t) /\ task'[t].job = task[t].job /\ task'[t].gen = task[t].gen
    BY <1>2, SettledTasks DEF Undone
  <2> QED BY <2>1 DEF OnePerGeneration
<1> QED BY <1>1, <1>2, StepKinds

LEMMA StoppedForgetsNext ==
    ASSUME TypeOK, StoppedForgets, [Next]_vars
    PROVE  StoppedForgets'
<1> USE DEF registry, tables
<1>1. ASSUME NEW j \in Jobs, NEW kinds, Registered(j, kinds) PROVE StoppedForgets'
  BY <1>1 DEF Registered, StoppedForgets
<1>2. CASE gens' = gens /\ stopping' = stopping
  BY <1>2 DEF StoppedForgets
<1>3. ASSUME NEW J \in SUBSET Jobs, NEW E, NEW caller, Unregister(J, E, caller), stopping' = stopping
      PROVE  StoppedForgets'
  BY <1>3 DEF Unregister, StoppedForgets
<1>4. CASE Stop
  BY <1>4 DEF Stop, Unregister, StoppedForgets
<1>5. ASSUME NEW p \in Plugins, NEW caller, RemovePlugin(p, caller) PROVE StoppedForgets'
  BY <1>3, <1>5 DEF RemovePlugin
<1> QED
  BY <1>1, <1>2, <1>4, <1>5
     DEF Next, Add, AddReplacing, RemoveJob, FireRuns, FireDefers, Fires, RunNow, Lapse, Execution,
         Begin, NeverBegins, Misfire, End, Callbacks, ExecutionLeaves, CatchUp, Abandon, Expire,
         Watch, Overtaken, Resume, WorkerEnds, WorkerLeaves, vars

LEMMA InitInv == Init => Inv
<1> SUFFICES ASSUME Init PROVE Inv
  OBVIOUS
<1>1. TypeOK
  <2>1. task \in [Tasks -> TaskRec] /\ worker \in [Workers -> WorkerRec]
    BY FreeTypes DEF Init
  <2>2. MaxGen \in Nat /\ 0 \in 0..MaxGen
    BY SchedulerAssumption
  <2>3. /\ issued \in 0..MaxGen /\ gens \in [Jobs -> 0..MaxGen] /\ store \in [Jobs -> 0..MaxGen]
    BY <2>2 DEF Init
  <2>4. /\ manual \in [Jobs -> Tasks \cup {None}] /\ running \in [Jobs -> Tasks \cup {None}]
        /\ deferred \in [Jobs -> Workers \cup {None}]
    BY DEF Init
  <2>5. trigger \in [Jobs -> {"none", "pending", "skipped", "resumed"}]
    BY DEF Init
  <2>6. stopping \in BOOLEAN
    BY DEF Init
  <2>7. /\ dying \subseteq Tasks /\ draining \subseteq Tasks \cup Workers /\ late \subseteq Jobs
        /\ dates \subseteq Jobs /\ aps \in {"running", "paused", "down"}
    BY DEF Init
  <2> QED BY <2>1, <2>3, <2>4, <2>5, <2>6, <2>7 DEF TypeOK
<1>2. \A t \in Tasks : task[t].st = "free"
  BY DEF Init, FreeTask
<1>3. \A w \in Workers : worker[w].st = "free"
  BY DEF Init, FreeWorker
<1>4. Numbered
  BY <1>2, <1>3 DEF Init, Numbered
<1>7. GenerationsDiffer
  BY <1>2 DEF Init, GenerationsDiffer
<1>5. ManualTracked /\ OnePerGeneration
  BY <1>2 DEF ManualTracked, OnePerGeneration, Undone
<1>6. StoppedForgets
  BY DEF Init, StoppedForgets
<1> QED BY <1>1, <1>4, <1>5, <1>6, <1>7 DEF Inv

LEMMA InvNext == Inv /\ [Next]_vars => Inv'
BY TypeNext, NumberedNext, GenerationsDifferNext, ManualTrackedNext, OnePerGenerationNext, StoppedForgetsNext DEF Inv

LEMMA Invariance == Spec => []Inv
BY InitInv, InvNext, PTL DEF Spec

\* An execution enters its callback, or is over, only by an action of its own.
LEMMA OwnSteps ==
    ASSUME TypeOK, [Next]_vars, NEW t \in Tasks,
           task'[t].st \in {"running", "done"}, task'[t].st # task[t].st
    PROVE  Begin(t) \/ NeverBegins(t) \/ End(t)
<1>1. task' # task
  OBVIOUS
<1>2. ASSUME NEW u \in Tasks, NEW j, NEW kind, Spawn(u, j, kind) PROVE FALSE
  BY <1>2 DEF Spawn, TypeOK
<1>3. ASSUME NEW u \in Tasks, NEW st, Goes(u, st) PROVE u = t /\ st \in {"running", "done"}
  BY <1>3 DEF Goes, TypeOK, TaskRec
<1>4. ASSUME NEW u \in Tasks, Callbacks(u) PROVE FALSE
  BY <1>4 DEF Callbacks, FreeTask, TypeOK
<1>5. ASSUME NEW u \in Tasks, Begin(u) \/ NeverBegins(u) \/ Misfire(u) \/ End(u)
      PROVE  Begin(t) \/ NeverBegins(t) \/ End(t)
  <2>1. u = t
    BY <1>3, <1>5 DEF Begin, NeverBegins, Misfire, End
  <2>2. ~Misfire(u)
    BY <1>3 DEF Misfire
  <2> QED BY <1>5, <2>1, <2>2
<1>6. ASSUME NEW j \in Jobs, FireRuns(j) \/ RunNow(j) PROVE FALSE
  BY <1>2, <1>6 DEF FireRuns, RunNow
<1>7. ASSUME NEW w \in Workers, Resume(w) PROVE FALSE
  BY <1>1, <1>2, <1>7 DEF Resume
<1> QED
  BY <1>1, <1>4, <1>5, <1>6, <1>7
     DEF Next, Add, AddReplacing, Registered, RemoveJob, FireDefers, Lapse, Execution, CatchUp,
         Abandon, Expire, Watch, Overtaken, WorkerEnds, RemovePlugin, Stop, Unregister, vars

LEMMA GoesThere ==
    ASSUME TypeOK, NEW t \in Tasks, NEW st, Goes(t, st)
    PROVE  task'[t].st = st
BY DEF TypeOK, TaskRec, Goes

-----------------------------------------------------------------------------
(* Catch-up workers and the shutdown.                                       *)

\* A cancelled worker is one the shutdown waits for; APScheduler runs until stop.
DyingDrains == \A w \in Workers : worker[w].st = "dying" => w \in draining
RunsUntilStop == aps = "running" <=> ~stopping

CatchUpInv == OneCatchUp /\ DyingDrains /\ RunsUntilStop /\ ShutdownWaits

Working(w) == worker[w].st \in {"check", "wait", "yield"}

\* What a step does to the workers and their records.
Drops(J) == Drop(J) /\ draining \cup Dropped(J) \subseteq draining'
Works(w, st) == Working(w) /\ WorkerGoes(w, st) /\ UNCHANGED <<deferred, draining>>
Resumes(w) ==
    /\ Working(w) /\ WorkerGoes(w, "done")
    /\ deferred' = [deferred EXCEPT ![worker[w].job] = None]
    /\ UNCHANGED draining
Opens(j, w) ==
    /\ aps = "running" /\ deferred[j] = None /\ worker[w] = FreeWorker
    /\ worker' = [worker EXCEPT ![w] = [st |-> "check", job |-> j, gen |-> gens[j]]]
    /\ deferred' = [deferred EXCEPT ![j] = w]
    /\ UNCHANGED draining
LeavesWorkers ==
    UNCHANGED <<worker, deferred>> /\ \A w \in Workers : w \in draining => w \in draining'

LEMMA WorkerSteps ==
    ASSUME TypeOK, [Next]_vars
    PROVE  \/ \E J \in SUBSET Jobs : Drops(J)
           \/ \E w \in Workers, st \in {"check", "wait", "yield", "done"} : Works(w, st)
           \/ \E w \in Workers : Resumes(w) \/ WorkerEnds(w)
           \/ \E j \in Jobs, w \in Workers : Opens(j, w)
           \/ LeavesWorkers
<1> USE DEF registry, tables
<1>1. ASSUME NEW j \in Jobs, NEW kinds, Registered(j, kinds) PROVE Drops({j})
  BY <1>1 DEF Registered, Drops
<1>2. ASSUME NEW J, NEW E, NEW caller, Unregister(J, E, caller) PROVE Drops(J)
  BY <1>2 DEF Unregister, Drops
<1>3. ASSUME NEW p \in Plugins, NEW caller, RemovePlugin(p, caller)
      PROVE  \E J \in SUBSET Jobs : Drops(J)
  BY <1>2, <1>3 DEF RemovePlugin
<1>4. ASSUME Stop PROVE Drops(Jobs)
  BY <1>2, <1>4 DEF Stop
<1>5. ASSUME NEW j \in Jobs, FireDefers(j)
      PROVE  LeavesWorkers \/ \E w \in Workers : Opens(j, w)
  BY <1>5 DEF FireDefers, Fires, LeavesWorkers, Opens
<1>6. ASSUME NEW j \in Jobs, RemoveJob(j) \/ FireRuns(j) \/ RunNow(j) \/ Lapse(j)
      PROVE  LeavesWorkers
  BY <1>6 DEF RemoveJob, FireRuns, Fires, RunNow, Lapse, LeavesWorkers
<1>7. ASSUME NEW t \in Tasks, Begin(t) \/ NeverBegins(t) \/ Misfire(t) \/ End(t)
      PROVE  LeavesWorkers
  BY <1>7 DEF Begin, NeverBegins, Misfire, End, ExecutionLeaves, LeavesWorkers
<1>8. ASSUME NEW t \in Tasks, Callbacks(t) PROVE LeavesWorkers
  BY <1>8, SchedulerAssumption DEF Callbacks, LeavesWorkers
<1>9. ASSUME NEW w \in Workers, Abandon(w) \/ Expire(w) \/ Watch(w) \/ Overtaken(w)
      PROVE  \E st \in {"check", "wait", "yield", "done"} : Works(w, st)
  <2>1. Working(w) /\ UNCHANGED <<deferred, draining>>
    BY <1>9 DEF Abandon, Expire, Watch, Overtaken, AtHead, Yielded, WorkerLeaves, Working
  <2>2. \E st \in {"check", "wait", "yield", "done"} : WorkerGoes(w, st)
    BY <1>9 DEF Abandon, Expire, Watch, Overtaken
  <2> QED BY <2>1, <2>2 DEF Works
<1>10. ASSUME NEW w \in Workers, Resume(w) PROVE Works(w, "done") \/ Resumes(w)
  <2>1. Working(w) /\ WorkerGoes(w, "done") /\ UNCHANGED draining
    BY <1>10 DEF Resume, Yielded, WorkerLeaves, Working
  <2>2. deferred' = deferred \/ deferred' = [deferred EXCEPT ![worker[w].job] = None]
    BY <1>10 DEF Resume
  <2> QED BY <2>1, <2>2 DEF Works, Resumes
<1>11. CASE UNCHANGED vars
  BY <1>11 DEF vars, LeavesWorkers
<1> QED
  BY <1>1, <1>3, <1>4, <1>5, <1>6, <1>7, <1>8, <1>9, <1>10, <1>11
     DEF Next, Add, AddReplacing, Execution, CatchUp

\* A worker outside the jobs that are dropped keeps its record, and only it.
LEMMA CatchUpNext ==
    ASSUME TypeOK, Numbered, OneCatchUp, DyingDrains, [Next]_vars
    PROVE  OneCatchUp' /\ DyingDrains'
<1> USE SchedulerAssumption
<1>1. ASSUME NEW J \in SUBSET Jobs, Drops(J) PROVE OneCatchUp' /\ DyingDrains'
  <2>1. \A w \in Dropped(J) : w \in Workers /\ worker'[w].st = "dying" /\ w \in draining'
    BY <1>1 DEF Drops, Drop, Dropped, Records, TypeOK, WorkerRec
  <2>2. \A w \in Workers \ Dropped(J) : worker'[w] = worker[w]
    BY <1>1 DEF Drops, Drop, TypeOK
  <2>3. \A j \in Jobs : deferred'[j] = IF j \in J THEN None ELSE deferred[j]
    BY <1>1 DEF Drops, Drop
  <2>4. ASSUME NEW j \in Jobs, deferred'[j] # None
        PROVE  worker'[deferred'[j]].job = j /\ worker'[deferred'[j]].st \notin {"free", "dying"}
    <3>1. j \notin J /\ deferred'[j] = deferred[j] /\ deferred[j] \in Workers
      BY <2>3, <2>4 DEF TypeOK
    <3>2. deferred[j] \notin Dropped(J)
      BY <2>4, <3>1 DEF Dropped, Records, OneCatchUp
    <3> QED BY <2>2, <2>4, <3>1, <3>2 DEF OneCatchUp
  <2>5. ASSUME NEW w \in Workers, Working(w)' PROVE deferred'[worker'[w].job] = w
    <3>1. w \notin Dropped(J)
      BY <2>1, <2>5 DEF Working
    <3>2. worker'[w] = worker[w] /\ Working(w) /\ worker[w].job \in Jobs
      BY <2>2, <2>5, <3>1 DEF Working, Numbered
    <3>3. deferred[worker[w].job] = w
      BY <3>2 DEF OneCatchUp, Working
    <3>4. worker[w].job \notin J
      BY <3>1, <3>2, <3>3 DEF Dropped, Records, Alive, Working
    <3> QED BY <2>3, <3>2, <3>3, <3>4
  <2>6. DyingDrains'
    BY <1>1, <2>1, <2>2 DEF Drops, DyingDrains
  <2> QED BY <2>4, <2>5, <2>6 DEF OneCatchUp, Working
<1>2. ASSUME NEW w \in Workers, NEW st \in {"check", "wait", "yield", "done"}, Works(w, st)
      PROVE  OneCatchUp' /\ DyingDrains'
  <2>1. /\ worker'[w].st = st /\ worker'[w].job = worker[w].job
        /\ \A v \in Workers \ {w} : worker'[v] = worker[v]
    BY <1>2 DEF Works, WorkerGoes, TypeOK, WorkerRec
  <2> QED BY <1>2, <2>1 DEF Works, Working, OneCatchUp, DyingDrains, TypeOK
<1>3. ASSUME NEW w \in Workers, Resumes(w) PROVE OneCatchUp' /\ DyingDrains'
  <2>1. /\ worker'[w].st = "done" /\ worker'[w].job = worker[w].job
        /\ \A v \in Workers \ {w} : worker'[v] = worker[v]
    BY <1>3 DEF Resumes, WorkerGoes, TypeOK, WorkerRec
  <2>2. worker[w].job \in Jobs /\ deferred[worker[w].job] = w
    BY <1>3 DEF Resumes, Working, Numbered, OneCatchUp
  <2>3. /\ deferred'[worker[w].job] = None
        /\ \A j \in Jobs \ {worker[w].job} : deferred'[j] = deferred[j]
    BY <1>3, <2>2 DEF Resumes, TypeOK
  <2>4. \A v \in Workers \ {w} : Working(v) => worker[v].job \in Jobs \ {worker[w].job}
    BY <2>2 DEF OneCatchUp, Working, Numbered
  <2> QED BY <1>3, <2>1, <2>2, <2>3, <2>4 DEF Resumes, Working, OneCatchUp, DyingDrains, TypeOK
<1>4. ASSUME NEW w \in Workers, WorkerEnds(w) PROVE OneCatchUp' /\ DyingDrains'
  <2>1. worker'[w] = FreeWorker /\ \A v \in Workers \ {w} : worker'[v] = worker[v]
    BY <1>4 DEF WorkerEnds, TypeOK
  <2>2. \A j \in Jobs : deferred'[j] = IF deferred[j] = w THEN None ELSE deferred[j]
    BY <1>4 DEF WorkerEnds, TakesRecord
  <2>3. \A v \in Workers \ {w} : v \in draining => v \in draining'
    BY <1>4 DEF WorkerEnds
  <2>4. \A v \in Workers : Working(v) => worker[v].job \in Jobs
    BY DEF Working, Numbered
  <2> QED BY <2>1, <2>2, <2>3, <2>4 DEF FreeWorker, Working, OneCatchUp, DyingDrains, TypeOK
<1>5. ASSUME NEW j \in Jobs, NEW w \in Workers, Opens(j, w) PROVE OneCatchUp' /\ DyingDrains'
  <2>1. /\ worker'[w].st = "check" /\ worker'[w].job = j
        /\ \A v \in Workers \ {w} : worker'[v] = worker[v]
    BY <1>5 DEF Opens, TypeOK
  <2>2. deferred'[j] = w /\ \A i \in Jobs \ {j} : deferred'[i] = deferred[i] /\ deferred[i] # w
    BY <1>5 DEF Opens, TypeOK, OneCatchUp, FreeWorker
  <2>3. \A v \in Workers : Working(v) => worker[v].job \in Jobs \ {j}
    BY <1>5 DEF Opens, OneCatchUp, Working, Numbered
  <2> QED BY <1>5, <2>1, <2>2, <2>3 DEF Opens, Working, OneCatchUp, DyingDrains, TypeOK
<1>6. CASE LeavesWorkers
  BY <1>6 DEF LeavesWorkers, OneCatchUp, DyingDrains
<1> QED BY <1>1, <1>2, <1>3, <1>4, <1>5, <1>6, WorkerSteps

\* What the shutdown looks at is everything APScheduler would cancel.
Quiet ==
    /\ \A t \in Tasks : task[t].kind = "aps" => ~Undone(t)
    /\ \A w \in Workers : ~Alive(w)

LEMMA OutstandingIsAll ==
    TypeOK /\ Numbered /\ OneCatchUp /\ DyingDrains /\ Outstanding = {} => Quiet
<1> SUFFICES ASSUME TypeOK, Numbered, OneCatchUp, DyingDrains, Outstanding = {} PROVE Quiet
  OBVIOUS
<1>1. ASSUME NEW t \in Tasks, task[t].kind = "aps", Undone(t) PROVE FALSE
  <2>1. task[t].job \in Jobs /\ t \in Aps(task[t].job)
    BY <1>1 DEF Numbered, Undone, Aps
  <2>2. t \in Executions(Jobs)
    BY <2>1 DEF Executions
  <2> QED BY <1>1, <2>2 DEF Outstanding
<1>2. ASSUME NEW w \in Workers, Alive(w) PROVE FALSE
  <2>1. Working(w) \/ worker[w].st = "dying"
    BY <1>2 DEF TypeOK, WorkerRec, Alive, Working
  <2>2. CASE Working(w)
    <3>1. worker[w].job \in Jobs /\ deferred[worker[w].job] = w /\ w # None
      BY <2>2, SchedulerAssumption DEF Working, OneCatchUp, Numbered
    <3>2. w \in Records(Jobs)
      BY <3>1 DEF Records
    <3> QED BY <1>2, <3>2 DEF Outstanding
  <2>3. CASE worker[w].st = "dying"
    BY <1>2, <2>3 DEF DyingDrains, Outstanding
  <2> QED BY <2>1, <2>2, <2>3
<1> QED BY <1>1, <1>2 DEF Quiet

\* Nothing new begins once APScheduler is down.
LEMMA StaysQuiet ==
    ASSUME Inv, RunsUntilStop, stopping, Quiet, [Next]_vars
    PROVE  Quiet'
<1>1. \A t \in Tasks : task'[t].kind = "aps" => ~Undone(t)'
  <2>1. Settles
    BY StepKinds DEF Inv, StoppedForgets, LetsIn
  <2> QED BY <2>1, SettledTasks DEF Inv, Quiet, Undone
<1>2. \A w \in Workers : ~Alive(w)'
  <2>1. ASSUME NEW J \in SUBSET Jobs, Drops(J) PROVE worker' = worker
    <3>1. Dropped(J) = {}
      BY SchedulerAssumption DEF Inv, Dropped, Records, Quiet, TypeOK
    <3> QED BY <2>1, <3>1 DEF Drops, Drop, Inv, TypeOK
  <2>2. ASSUME NEW w \in Workers, Working(w) PROVE FALSE
    BY <2>2 DEF Working, Quiet, Alive
  <2>3. ASSUME NEW w \in Workers, WorkerEnds(w) PROVE \A v \in Workers : ~Alive(v)'
    BY <2>3 DEF WorkerEnds, FreeWorker, Inv, TypeOK, Quiet, Alive
  <2>4. worker' = worker \/ \E w \in Workers : WorkerEnds(w)
    BY <2>1, <2>2, WorkerSteps DEF Inv, Works, Resumes, Opens, LeavesWorkers, RunsUntilStop
  <2> QED BY <2>3, <2>4 DEF Quiet, Alive
<1> QED BY <1>1, <1>2 DEF Quiet

\* What a step does to APScheduler.
LEMMA ShutdownSteps ==
    ASSUME TypeOK, [Next]_vars
    PROVE  \/ UNCHANGED <<aps, stopping>>
           \/ stopping' /\ (Outstanding = {})' /\ aps' = "down"
           \/ stopping' /\ aps' = "paused"
<1>1. CASE Stop
  BY <1>1 DEF Stop
<1>2. ASSUME FinishStop, stopping' = stopping
      PROVE  \/ UNCHANGED <<aps, stopping>>
             \/ stopping' /\ (Outstanding = {})' /\ aps' = "down"
  BY <1>2 DEF FinishStop
<1>3. ASSUME NEW t \in Tasks, Callbacks(t) PROVE FinishStop /\ stopping' = stopping
  BY <1>3 DEF Callbacks
<1>4. ASSUME NEW w \in Workers, WorkerEnds(w)
      PROVE  (FinishStop \/ UNCHANGED aps) /\ stopping' = stopping
  BY <1>4 DEF WorkerEnds
<1> QED
  BY <1>1, <1>2, <1>3, <1>4
     DEF Next, Add, AddReplacing, Registered, RemoveJob, FireRuns, FireDefers, Fires, RunNow, Lapse,
         Execution, Begin, NeverBegins, Misfire, End, ExecutionLeaves, CatchUp, Abandon, Expire,
         Watch, Overtaken, Resume, WorkerLeaves, RemovePlugin, vars

LEMMA CatchUpInvNext == Inv /\ CatchUpInv /\ [Next]_vars => CatchUpInv'
<1> SUFFICES ASSUME Inv, CatchUpInv, [Next]_vars PROVE CatchUpInv'
  OBVIOUS
<1>1. OneCatchUp' /\ DyingDrains'
  BY CatchUpNext DEF Inv, CatchUpInv
<1>2. RunsUntilStop'
  BY ShutdownSteps DEF Inv, CatchUpInv, RunsUntilStop
<1>3. (TypeOK /\ Numbered /\ OneCatchUp /\ DyingDrains /\ Outstanding = {} => Quiet)'
  BY OutstandingIsAll, PTL
<1>4. TypeOK' /\ Numbered'
  BY InvNext DEF Inv
<1>5. aps' = "down" => Quiet'
  <2>1. CASE UNCHANGED <<aps, stopping>>
    <3>1. aps = "down" => stopping /\ Quiet
      BY DEF CatchUpInv, RunsUntilStop, ShutdownWaits, Quiet
    <3> QED BY <2>1, <3>1, StaysQuiet DEF CatchUpInv
  <2>2. CASE (Outstanding = {})'
    BY <1>1, <1>3, <1>4, <2>2
  <2> QED BY <2>1, <2>2, ShutdownSteps DEF Inv
<1> QED BY <1>1, <1>2, <1>5 DEF CatchUpInv, ShutdownWaits, Quiet

LEMMA CatchUpInvariance == Spec => []CatchUpInv
<1>1. Init => CatchUpInv
  BY DEF Init, FreeWorker, CatchUpInv, OneCatchUp, DyingDrains, RunsUntilStop, ShutdownWaits
<1> QED BY <1>1, Invariance, CatchUpInvNext, PTL DEF Spec

-----------------------------------------------------------------------------
(* The theorems.                                                            *)

\* Timed, manual and catch-up runs of one registration never execute together
\* (execute, _occupies_job and run_now).
THEOREM ExecutionsAreExclusive == Spec => []OneAtATime
<1>1. Inv => OneAtATime
  BY DEF Inv, OnePerGeneration, OneAtATime, Undone
<1> QED BY <1>1, Invariance, PTL

\* An execution that was let in and is neither cancelled nor superseded enters
\* its callback: the second check in execute never finds the slot taken.
THEOREM AdmissionsAreKept == Spec => AcceptedRuns
<1>1. Inv /\ [Next]_vars =>
        \A t \in Tasks :
          task[t].st = "queued" /\ task'[t].st = "done"
            => t \in dying \/ gens[task[t].job] # task[t].gen
  <2> SUFFICES ASSUME Inv, [Next]_vars, NEW t \in Tasks,
                      task[t].st = "queued", task'[t].st = "done",
                      t \notin dying, gens[task[t].job] = task[t].gen
               PROVE  FALSE
    OBVIOUS
  <2>1. ASSUME NEW u \in Tasks, u \in Live(task[t].job, task[t].gen) PROVE u = t
    BY <2>1 DEF Inv, OnePerGeneration, Live, Undone
  <2>2. Live(task[t].job, task[t].gen) \subseteq Tasks
    <3>1. task[t].job \in Jobs
      BY DEF Inv, Numbered
    <3> QED BY <3>1 DEF Inv, TypeOK, Live, Aps
  <2>3. MayStart(t)
    BY <2>1, <2>2 DEF MayStart
  <2>4. Begin(t) \/ NeverBegins(t) \/ End(t)
    BY OwnSteps DEF Inv
  <2>5. ~Begin(t)
    BY <2>3, GoesThere DEF Begin, Inv
  <2> QED BY <2>4, <2>5 DEF NeverBegins, End
<1> QED BY <1>1, Invariance, PTL DEF Spec, AcceptedRuns

\* Whatever was queued, deferred or draining when its job was replaced, removed
\* or stopped never enters its callback (execute's generation check).
THEOREM StaleRunsAreRefused == Spec => StaleNeverStarts
<1>1. Inv /\ [Next]_vars =>
        \A t \in Tasks :
          task[t].st # "running" /\ task'[t].st = "running"
            => gens[task[t].job] = task[t].gen /\ ~stopping
  <2> SUFFICES ASSUME Inv, [Next]_vars, NEW t \in Tasks,
                      task[t].st # "running", task'[t].st = "running"
               PROVE  gens[task[t].job] = task[t].gen /\ ~stopping
    OBVIOUS
  <2>1. Begin(t) \/ NeverBegins(t) \/ End(t)
    BY OwnSteps DEF Inv
  <2>2. Begin(t) /\ MayStart(t)
    BY <2>1, GoesThere DEF Begin, NeverBegins, End, Inv
  <2>3. gens[task[t].job] = task[t].gen /\ task[t].gen # 0 /\ task[t].job \in Jobs
    BY <2>2 DEF Begin, Starting, MayStart, Inv, Numbered
  <2> QED BY <2>3 DEF Inv, StoppedForgets
<1> QED BY <1>1, Invariance, PTL DEF Spec, StaleNeverStarts

\* A waiting trigger has one worker, and APScheduler is shut down only when
\* nothing it would cancel is left (_defer, _resume_deferred, _finish_stop).
THEOREM TheTablesAgree == Spec => []TablesAgree
<1>1. Inv /\ CatchUpInv => TablesAgree
  BY DEF Inv, CatchUpInv, TablesAgree
<1> QED BY <1>1, Invariance, CatchUpInvariance, PTL

=============================================================================
