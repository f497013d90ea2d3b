--------------------------- MODULE PluginLifecycle ---------------------------
(***************************************************************************)
(* Loading, unloading and reconfiguring plugins: PluginRuntime             *)
(* (awbotnest/plugins.py), the live save of a plugin's configuration       *)
(* (plugin_config.py) and the closing of a PluginContext (context.py).     *)
(*                                                                         *)
(* Every administrative request is an asyncio task that runs a list of     *)
(* jobs, one critical section of a per-plugin lifecycle lock per job.  A   *)
(* step of the model is what a task does between two awaits, so requests   *)
(* on different plugins interleave, requests on one plugin queue on its    *)
(* lock, and a task may be cancelled at each of its awaits.                *)
(***************************************************************************)
EXTENDS Naturals, Sequences, FiniteSets, SequencesExt

CONSTANTS Plugins,      \* plugin identifiers
          Tasks,        \* asyncio tasks that serve requests
          Boot,         \* the task of start_platform, which restores plugins
          Requires,     \* Requires[p]: requires_plugins of p
          Accounts,     \* most account instances (PluginContext) of a plugin
          Instances,    \* names for the successive instances of a plugin
          Values,       \* plugin configurations
          Ops           \* the requests the environment may submit

NoTask == "none"

ASSUME LifecycleAssumption ==
    /\ Boot \in Tasks
    /\ NoTask \notin Tasks
    /\ Requires \in [Plugins -> SUBSET Plugins]
    /\ Accounts \in Nat \ {0}
    /\ Instances \subseteq Nat \ {0}
    /\ Ops \subseteq {"enable", "disable", "reload", "configure", "rescope", "refresh", "stop"}

VARIABLES
    running,    \* PluginRuntime.loaded: the instance of p and the configuration it was set up with
    order,      \* the order in which loaded (a dict) was filled
    open,       \* open[p]: the <<instance, account>> contexts of p holding registrations
    draining,   \* governor._draining_tasks: contexts closed with a task still alive
    residue,    \* residue[p]: the module in sys.modules, the policy in the governor
    enabled,    \* settings.enabled_plugins
    cfg,        \* settings.plugin_config
    disk,       \* what save_settings last wrote
    stale,      \* the last save_settings raised: disk is behind memory
    holder,     \* holder[p]: the task to which the lifecycle lock of p belongs
    waiters,    \* waiters[p]: the tasks queued for it, in order
    task,       \* the tasks
    leaked      \* plugins whose cleanup a cancellation cut short (history)

vars == <<running, order, open, draining, residue, enabled, cfg, disk, stale,
          holder, waiters, task, leaked>>

NoInstance == [inst |-> 0, cfg |-> "none"]
Job(do, p, v) == [do |-> do, p |-> p, v |-> v]

(* A task: its remaining jobs (the current one first), the plugins restore  *)
(* has still to start, the await it is at, the instance it is setting up    *)
(* and the accounts left to set up, and a cancellation it has to re-raise.  *)
(* A configuration save also remembers what to return to and whether it is  *)
(* applying the change, undoing it or recovering the old instance.          *)
Between(pc, jobs, pending) ==
    [pc |-> pc, jobs |-> jobs, pending |-> pending, inst |-> 0, left |-> 0,
     raise |-> "none", phase |-> "apply", was |-> NoInstance, kept |-> {}, prev |-> "none"]
Idle == Between("idle", <<>>, {})

Loaded == {p \in Plugins : running[p] # NoInstance}
Cur(t) == Head(task[t].jobs)
Plug(t) == Cur(t).p
Mine(t) == {c \in open[Plug(t)] : c[1] = task[t].inst}
Cancelled(t) == task[t].raise = "CancelledError"
Saving(t) == Cur(t).do = "configure" /\ task[t].phase = "apply"

Init ==
    /\ running = [p \in Plugins |-> NoInstance]
    /\ order = <<>>
    /\ open = [p \in Plugins |-> {}]
    /\ draining = [p \in Plugins |-> {}]
    /\ residue = [p \in Plugins |-> {}]
    /\ enabled \in SUBSET Plugins
    /\ cfg \in [Plugins -> Values]
    /\ disk = [enabled |-> enabled, cfg |-> cfg]
    /\ stale = FALSE
    /\ holder = [p \in Plugins |-> NoTask]
    /\ waiters = [p \in Plugins |-> <<>>]
    /\ task = [t \in Tasks |-> IF t = Boot
                 THEN Between("next", <<Job("scan", "none", "none")>>, {})
                 ELSE Idle]
    /\ leaked = {}

-----------------------------------------------------------------------------
(* Building blocks.                                                         *)

locks == <<holder, waiters>>
instances == <<running, order, open, draining, residue, leaked>>
settings == <<enabled, cfg, disk, stale>>

(* save_settings writes the whole of settings, or raises and writes nothing. *)
SaveOk(e, c) == disk' = [enabled |-> e, cfg |-> c] /\ stale' = FALSE
SaveFails == disk' = disk /\ stale' = TRUE
SaveFailsHarmlessly == UNCHANGED <<disk, stale>>

(* A dict without a key, the queue of a lock without a waiter that gave up. *)
Without(s, x) ==
    IF x \in ToSet(s) THEN RemoveAt(s, CHOOSE i \in DOMAIN s : s[i] = x) ELSE s

Goto(t, pc) == task' = [task EXCEPT ![t].pc = pc]

FreedSilently(p) ==                                    \* fault: nobody is woken
    holder' = [holder EXCEPT ![p] = NoTask] /\ UNCHANGED waiters
Freed(p) ==
    IF waiters[p] = <<>>
    THEN holder' = [holder EXCEPT ![p] = NoTask] /\ UNCHANGED waiters
    ELSE /\ holder' = [holder EXCEPT ![p] = Head(waiters[p])]
         /\ waiters' = [waiters EXCEPT ![p] = Tail(@)]

(* Leaving the "async with" of the current job hands the lock to the next   *)
(* waiter.  A raised exception ends the request; a normal return goes on    *)
(* with its next job, restore with its next plugin.                         *)
Leave(t, raised) ==
    /\ Freed(Plug(t))
    /\ task' = [task EXCEPT ![t] =
         IF raised \/ (Len(@.jobs) = 1 /\ @.pending = {}) THEN Idle
         ELSE Between("next", Tail(@.jobs), @.pending)]

(* _enable returned: a configuration save goes on to its last checks, or    *)
(* undoes the change when the plugin did not come up; any other job is over. *)
EnableReturns(t, ok) ==
    IF Saving(t)
    THEN Goto(t, IF ok THEN "confirm" ELSE "rollback") /\ UNCHANGED locks
    ELSE Leave(t, Cancelled(t))

(* _enable was cancelled: a configuration save still undoes the change      *)
(* (except BaseException), any other job lets the cancellation through.     *)
EnableCancelled(t) ==
    IF Saving(t)
    THEN task' = [task EXCEPT ![t].pc = "rollback", ![t].raise = "CancelledError"] /\ UNCHANGED locks
    ELSE Leave(t, TRUE)

-----------------------------------------------------------------------------
(* Requests.                                                                *)

(* refresh_telegram_plugins and stop unload in reverse order of loading;    *)
(* the plugins of the model all have the scope that is refreshed.           *)
Pauses == [i \in 1..Len(order) |-> Job("pause", order[Len(order) + 1 - i], "none")]

JobsOf(op, p, v) ==
    CASE op \in {"enable", "disable", "reload", "configure"} -> <<Job(op, p, v)>>
      [] op = "rescope" -> <<Job("pause", p, v), Job("enable", p, v)>>
      [] op = "refresh" -> Append(Pauses, Job("scan", "none", "none"))
      [] op = "stop" -> Pauses

(* A request arrives: from the console, the assistant or the open API, from *)
(* the account routes (rescope: disable(persist=False), then enable), from  *)
(* the recovery of a Telegram account, or from the shutdown.                *)
Request(t) ==
    /\ task[t].pc = "idle"
    /\ \E op \in Ops, p \in Plugins, v \in Values :
         /\ op = "rescope" => p \in Loaded
         /\ op = "stop" => Loaded # {}
         /\ task' = [task EXCEPT ![t] = Between("next", JobsOf(op, p, v), {})]
    /\ UNCHANGED <<instances, settings, locks>>

(* asyncio.Lock is fair: it is taken when free, else the task queues.       *)
Queue(t, p) ==
    IF holder[p] = NoTask
    THEN holder' = [holder EXCEPT ![p] = t] /\ UNCHANGED waiters
    ELSE waiters' = [waiters EXCEPT ![p] = Append(@, t)] /\ UNCHANGED holder

(* The next job of a request asks for the lifecycle lock of its plugin.     *)
NextJob(t) ==
    /\ task[t].pc = "next"
    /\ task[t].jobs # <<>>
    /\ Cur(t).do # "scan"
    /\ Goto(t, "lock")
    /\ Queue(t, Plug(t))
    /\ UNCHANGED <<instances, settings>>

(* restore lists the enabled plugins once. *)
Scan(t) ==
    /\ task[t].pc = "next"
    /\ task[t].jobs # <<>>
    /\ Cur(t).do = "scan"
    /\ task' = [task EXCEPT ![t] = IF enabled = {} THEN Idle ELSE Between("next", <<>>, enabled)]
    /\ UNCHANGED <<instances, settings, locks>>

(* It starts one that no other pending plugin has to precede, and gives the *)
(* rest up when they form a cycle.                                          *)
Startable(S) == {p \in S : Requires[p] \cap S = {}}
NothingStartable(S) == Startable(S) = {}
Pick(t) ==
    /\ task[t].pc = "next"
    /\ task[t].jobs = <<>>
    /\ \/ /\ NothingStartable(task[t].pending)
          /\ task' = [task EXCEPT ![t] = Idle]
          /\ UNCHANGED locks
       \/ \E p \in Startable(task[t].pending) :
            /\ task' = [task EXCEPT ![t] = 
                 Between("lock", <<Job("restore", p, "none")>>, task[t].pending \ {p})]
            /\ Queue(t, p)
    /\ UNCHANGED <<instances, settings>>

-----------------------------------------------------------------------------
(* The start of a critical section.                                         *)

HasLock(t) == task[t].pc = "lock" /\ holder[Plug(t)] = t

(* restore starts the plugin only if it is still enabled. *)
StillEnabledUnchecked(p) == TRUE                       \* fault: the list is not read again
StillEnabled(p) == p \in enabled

EnterEnable(t) ==
    /\ HasLock(t)
    /\ \/ Cur(t).do = "enable" /\ Goto(t, "enable") /\ UNCHANGED locks
       \/ /\ Cur(t).do = "restore"
          /\ IF StillEnabled(Plug(t)) THEN Goto(t, "enable") /\ UNCHANGED locks
             ELSE Leave(t, FALSE)
    /\ UNCHANGED <<instances, settings>>

(* _disable takes the plugin out of the table before its first await. *)
Unload(p) ==
    /\ running' = [running EXCEPT ![p] = NoInstance]
    /\ order' = Without(order, p)

EnterDisable(t) ==
    /\ HasLock(t)
    /\ Cur(t).do \in {"disable", "reload", "pause"}
    /\ Unload(Plug(t))
    /\ task' = [task EXCEPT ![t].inst = running[Plug(t)].inst,
                  ![t].pc = IF Plug(t) \in Loaded THEN "teardown" ELSE "disabled"]
    /\ UNCHANGED <<open, draining, residue, leaked, settings, locks>>

(* save_plugin_config saves the new values first.  A save that raises       *)
(* leaves the old ones; an approval revoked meanwhile undoes the change; a  *)
(* loaded plugin is unloaded to be set up again.                            *)
EnterConfigure(t) ==
    LET p == Plug(t)  new == [cfg EXCEPT ![p] = Cur(t).v]
        Remember(pc) == task' = [task EXCEPT ![t].pc = pc,
                                   ![t].inst = running[p].inst, ![t].was = running[p],
                                   ![t].kept = enabled \cap {p}, ![t].prev = cfg[p]]
    IN
    /\ HasLock(t)
    /\ Cur(t).do = "configure"
    /\ \/ SaveFailsHarmlessly /\ Leave(t, TRUE) /\ UNCHANGED <<cfg, running, order>>
       \/ /\ cfg' = new
          /\ SaveOk(enabled, new)
          /\ \/ Remember("rollback") /\ UNCHANGED <<running, order, locks>>
             \/ p \notin Loaded /\ Leave(t, FALSE) /\ UNCHANGED <<running, order>>
             \/ p \in Loaded /\ Remember("teardown") /\ Unload(p) /\ UNCHANGED locks
    /\ UNCHANGED <<enabled, open, draining, residue, leaked>>

-----------------------------------------------------------------------------
(* _enable.                                                                 *)

(* A context closes: its handlers, jobs, routes and tasks are gone, except  *)
(* that a task which ignores its cancellation is kept as draining.          *)
Close(p, c) ==
    /\ open' = [open EXCEPT ![p] = @ \ {c}]
    /\ \/ UNCHANGED draining
       \/ draining' = [draining EXCEPT ![p] = @ \cup {c}]

LastOpened(S) == CHOOSE c \in S : \A d \in S : d[2] <= c[2]
Released(p) == residue' = [residue EXCEPT ![p] = {}]

(* Before its first await _enable returns for a loaded plugin and refuses   *)
(* one whose last instance still drains or whose prerequisites are missing. *)
MayEnableWhileDraining(p) == TRUE                      \* fault: no such check
MayEnable(p) == draining[p] = {}
IsLoaded(p) == p \in Loaded
StartEnable(t) ==
    LET p == Plug(t) IN
    /\ task[t].pc = "enable"
    /\ IF IsLoaded(p) THEN EnableReturns(t, TRUE)
       ELSE IF MayEnable(p) /\ Requires[p] \subseteq Loaded THEN Goto(t, "deps") /\ UNCHANGED locks
       ELSE EnableReturns(t, FALSE)
    /\ UNCHANGED <<instances, settings>>

(* A name no instance goes by, the one a save has to tell from included. *)
Unused(t) == {i \in Instances : /\ i # task[t].was.inst
                               /\ \A c \in open[Plug(t)] \cup draining[Plug(t)] : c[1] # i}

(* deps.ensure, the import and the choice of accounts: failed, or the first *)
(* of n contexts is constructed and its setup called.                       *)
Import(t) ==
    LET p == Plug(t) IN
    /\ task[t].pc = "deps"
    /\ UNCHANGED <<running, order, draining, leaked, settings>>
    /\ \/ EnableReturns(t, FALSE) /\ UNCHANGED <<open, residue>>
       \/ \E n \in 1..Accounts, i \in Unused(t) :
            /\ \A j \in Unused(t) : i <= j
            /\ open' = [open EXCEPT ![p] = @ \cup {<<i, 1>>}]
            /\ residue' = [residue EXCEPT ![p] = {"module", "policy"}]
            /\ task' = [task EXCEPT ![t].pc = "setup", ![t].inst = i, ![t].left = n - 1]
            /\ UNCHANGED locks

(* setup(ctx) raised or timed out after 30 s. *)
SetupFails(t) ==
    /\ task[t].pc = "setup"
    /\ Goto(t, "unwind")
    /\ UNCHANGED <<instances, settings, locks>>

EnabledWithoutEntry(p) == enabled                      \* fault: not added to the settings
EnabledWith(p) == enabled \cup {p}

(* setup(ctx) returned: the next account, or the plugin enters the table    *)
(* and, unless it was, enabled_plugins; a save that raises undoes both.     *)
SetupReturns(t) ==
    LET p == Plug(t)  new == [inst |-> task[t].inst, cfg |-> cfg[p]] IN
    /\ task[t].pc = "setup"
    /\ \/ /\ task[t].left > 0
          /\ open' = [open EXCEPT ![p] = @ \cup {<<task[t].inst, Cardinality(Mine(t)) + 1>>}]
          /\ task' = [task EXCEPT ![t].left = @ - 1]
          /\ UNCHANGED <<running, order, draining, residue, leaked, settings, locks>>
       \/ /\ task[t].left = 0
          /\ running' = [running EXCEPT ![p] = new]
          /\ order' = Append(order, p)
          /\ enabled' = EnabledWith(p)
          /\ IF p \in enabled THEN UNCHANGED <<disk, stale>> ELSE SaveOk(enabled', cfg)
          /\ EnableReturns(t, TRUE)
          /\ UNCHANGED <<open, draining, residue, leaked, cfg>>
       \/ /\ task[t].left = 0
          /\ p \notin enabled
          /\ SaveFailsHarmlessly
          /\ Goto(t, "unwind")
          /\ UNCHANGED <<instances, enabled, cfg, locks>>

(* The failed or cancelled setup is undone: each context in reverse order,  *)
(* then the governor's state and the module.                                *)
Unwind(t) ==
    LET p == Plug(t) IN
    /\ task[t].pc = "unwind"
    /\ IF Mine(t) # {}
       THEN Close(p, LastOpened(Mine(t))) /\ UNCHANGED <<residue, task, locks>>
       ELSE /\ Released(p)
            /\ IF Cancelled(t) THEN EnableCancelled(t) ELSE EnableReturns(t, FALSE)
            /\ UNCHANGED <<open, draining>>
    /\ UNCHANGED <<running, order, leaked, settings>>

-----------------------------------------------------------------------------
(* _disable.                                                                *)

(* teardown (15 s) and close of each context in reverse order, whatever     *)
(* raises; then the governor's state and the module.                        *)
Teardown(t) ==
    LET p == Plug(t) IN
    /\ task[t].pc = "teardown"
    /\ IF Mine(t) # {}
       THEN Close(p, LastOpened(Mine(t))) /\ UNCHANGED <<residue, task>>
       ELSE Released(p) /\ Goto(t, "disabled") /\ UNCHANGED <<open, draining>>
    /\ UNCHANGED <<running, order, leaked, settings, locks>>

(* After the cleanup: a user's disable is saved; then a collected           *)
(* cancellation is raised, a reload or a save sets the plugin up again, and *)
(* the undoing of a save goes on.                                           *)
Disabled(t) ==
    LET p == Plug(t)  do == Cur(t).do IN
    /\ task[t].pc = "disabled"
    /\ UNCHANGED <<instances, cfg>>
    /\ \/ /\ do = "disable" /\ p \in enabled
          /\ enabled' = enabled \ {p}
          /\ \/ SaveOk(enabled', cfg) /\ Leave(t, Cancelled(t))
             \/ SaveFails /\ Leave(t, TRUE)
       \/ /\ do = "pause" \/ (do = "disable" /\ p \notin enabled)
          /\ Leave(t, Cancelled(t))
          /\ UNCHANGED <<enabled, disk, stale>>
       \/ /\ do = "reload"
          /\ IF Cancelled(t) THEN Leave(t, TRUE) ELSE Goto(t, "enable") /\ UNCHANGED locks
          /\ UNCHANGED <<enabled, disk, stale>>
       \/ /\ Saving(t) /\ ~Cancelled(t)
          /\ enabled' = enabled \cup {p}
          /\ Goto(t, "enable")
          /\ UNCHANGED <<disk, stale, locks>>
       \/ /\ Saving(t)               \* cancelled, or the approval was revoked
          /\ Goto(t, "rollback")
          /\ UNCHANGED <<enabled, disk, stale, locks>>
       \/ /\ do = "configure" /\ task[t].phase = "undo"
          /\ IF Cancelled(t) THEN Leave(t, TRUE) ELSE Goto(t, "revert") /\ UNCHANGED locks
          /\ UNCHANGED <<enabled, disk, stale>>

-----------------------------------------------------------------------------
(* The end of save_plugin_config.                                           *)

(* The approval still stands when the new instance is up, or the change is  *)
(* undone.                                                                  *)
Confirm(t) ==
    /\ task[t].pc = "confirm"
    /\ Leave(t, FALSE) \/ (Goto(t, "rollback") /\ UNCHANGED locks)
    /\ UNCHANGED <<instances, settings>>

(* A new instance is unloaded first. *)
Rollback(t) ==
    LET p == Plug(t)  new == p \in Loaded /\ running[p].inst # task[t].was.inst IN
    /\ task[t].pc = "rollback"
    /\ task' = [task EXCEPT ![t].phase = "undo", ![t].inst = running[p].inst,
                            ![t].pc = IF new THEN "teardown" ELSE "revert"]
    /\ IF new THEN Unload(p) ELSE UNCHANGED <<running, order>>
    /\ UNCHANGED <<open, draining, residue, leaked, settings, locks>>

(* Then the old values return and are saved, and the old instance, if it    *)
(* went, is set up again; the error that led here is raised in the end.     *)
RevertedNever(t) == cfg                                \* fault: the new values stay
Reverted(t) == [cfg EXCEPT ![Plug(t)] = task[t].prev]
SaveReverted(e, c) == SaveOk(e, c)
Revert(t) ==
    LET p == Plug(t) IN
    /\ task[t].pc = "revert"
    /\ cfg' = Reverted(t)
    /\ enabled' = (enabled \ {p}) \cup task[t].kept
    /\ \/ SaveFails /\ Leave(t, TRUE)
       \/ /\ SaveReverted(enabled', cfg')
          /\ IF task[t].was # NoInstance /\ p \notin Loaded
             THEN task' = [task EXCEPT ![t].phase = "recover", ![t].pc = "enable"] /\ UNCHANGED locks
             ELSE Leave(t, TRUE)
    /\ UNCHANGED instances

-----------------------------------------------------------------------------
(* Cancellation and the rest of the environment.                            *)

(* A request is cancelled at the await it is at, at most once.  _disable    *)
(* finishes its cleanup first; in the cleanup of a failed setup the context *)
(* being closed (or the governor) finishes and nothing after it is done.    *)
Cancel(t) ==
    LET p == Plug(t) IN
    /\ task[t].pc \in {"lock", "deps", "setup", "unwind", "teardown"}
    /\ ~Cancelled(t)
    /\ UNCHANGED <<running, order, settings>>
    /\ \/ /\ task[t].pc = "lock"
          /\ IF holder[p] = t THEN Freed(p)
             ELSE /\ waiters' = [waiters EXCEPT ![p] = Without(@, t)]
                  /\ UNCHANGED holder
          /\ task' = [task EXCEPT ![t] = Idle]
          /\ UNCHANGED <<open, draining, residue, leaked>>
       \/ /\ task[t].pc = "deps"
          /\ EnableCancelled(t)
          /\ UNCHANGED <<open, draining, residue, leaked>>
       \/ /\ task[t].pc \in {"setup", "teardown"}
          /\ task' = [task EXCEPT ![t].raise = "CancelledError",
                                  ![t].pc = IF @ = "setup" THEN "unwind" ELSE @]
          /\ UNCHANGED <<open, draining, residue, leaked, locks>>
       \/ /\ task[t].pc = "unwind"
          /\ IF Mine(t) # {}
             THEN Close(p, LastOpened(Mine(t))) /\ UNCHANGED residue
             ELSE residue' = [residue EXCEPT ![p] = {"module"}] /\ UNCHANGED <<open, draining>>
          /\ leaked' = leaked \cup {p}
          /\ EnableCancelled(t)

(* A task that ignored its cancellation ends after all. *)
Drained(p) ==
    /\ \E c \in draining[p] : draining' = [draining EXCEPT ![p] = @ \ {c}]
    /\ UNCHANGED <<running, order, open, residue, leaked, settings, locks, task>>

Step(t) ==
    \/ NextJob(t) \/ Scan(t) \/ Pick(t)
    \/ EnterEnable(t) \/ EnterDisable(t) \/ EnterConfigure(t)
    \/ StartEnable(t) \/ Import(t) \/ SetupFails(t) \/ SetupReturns(t) \/ Unwind(t)
    \/ Teardown(t) \/ Disabled(t) \/ Confirm(t) \/ Rollback(t) \/ Revert(t)

Next ==
    \/ \E t \in Tasks : Request(t) \/ Step(t) \/ Cancel(t)
    \/ \E p \in Plugins : Drained(p)

Spec == Init /\ [][Next]_vars

(* Every await of a request is bounded (300 s for pip, 30 s for setup, 15 s *)
(* for teardown, 10 s per cleanup), so a task that can go on does.          *)
FairSpec == Spec /\ \A t \in Tasks : WF_vars(Step(t))

-----------------------------------------------------------------------------
(* Properties.                                                              *)

(* The awaits and steps inside the lifecycle lock. *)
Critical == {"enable", "deps", "setup", "unwind", "teardown", "disabled", "confirm",
             "rollback", "revert"}

TypeOK ==
    /\ ToSet(order) = Loaded /\ IsInjective(order)
    /\ running \in [Plugins -> [inst : Instances \cup {0}, cfg : Values \cup {"none"}]]
    /\ open \in [Plugins -> SUBSET (Instances \X (1..Accounts))]
    /\ draining \in [Plugins -> SUBSET (Instances \X (1..Accounts))]
    /\ residue \in [Plugins -> SUBSET {"module", "policy"}]
    /\ enabled \subseteq Plugins
    /\ cfg \in [Plugins -> Values]
    /\ disk \in [enabled : SUBSET Plugins, cfg : [Plugins -> Values]]
    /\ stale \in BOOLEAN /\ leaked \subseteq Plugins
    /\ holder \in [Plugins -> Tasks \cup {NoTask}]
    /\ waiters \in [Plugins -> Seq(Tasks)]
    /\ \A t \in Tasks : task[t].pc \in {"idle", "next", "lock"} \cup Critical

Busy(p) == holder[p] # NoTask /\ task[holder[p]].pc # "lock"

(* Handlers, jobs and background tasks of a plugin always belong to a       *)
(* single instance: a reload never runs old and new side by side, and a     *)
(* task of the old instance that will not end keeps the new one out.  The   *)
(* only exception is a plugin whose failed setup was cancelled during its   *)
(* cleanup (NothingLeft below).                                             *)
OneInstance ==
    \A p \in Plugins \ leaked :
        \A c, d \in open[p] \cup draining[p] : c[1] = d[1]

(* A plugin that is not loaded and that no request is working on has no     *)
(* context, no module and no governor state left, however its last setup or *)
(* teardown ended.                                                          *)
CleanWhenUnloaded ==
    \A p \in Plugins \ leaked :
        (~Busy(p) /\ p \notin Loaded) => open[p] = {} /\ residue[p] = {}

(* One life of a plugin does not reach into the next one: the tables agree, *)
(* its instances do not overlap and nothing of it stays behind.             *)
InstancesAreSeparate == TypeOK /\ OneInstance /\ CleanWhenUnloaded

(* docs/SPEC.md promises that a failed setup is cleaned up completely and   *)
(* that a cancellation propagates only after the cleanup: no handler, job   *)
(* or route of a plugin that is neither loaded nor being worked on.         *)
NothingLeft == \A p \in Plugins : (~Busy(p) /\ p \notin Loaded) => open[p] = {}

(* A plugin at rest runs with the configuration the console shows, after    *)
(* every mix of saves that were applied, failed, were undone or cancelled.  *)
RunsItsConfiguration ==
    \A p \in Loaded : ~Busy(p) => running[p].cfg = cfg[p]

(* A loaded plugin is one the user enabled: it comes back after a restart.  *)
LoadedIsEnabled == Loaded \subseteq enabled

(* A restart would restore exactly the settings in memory, also while       *)
(* requests are at work, unless the last attempt to save them failed.       *)
DiskIsCurrent == ~stale => disk = [enabled |-> enabled, cfg |-> cfg]

(* What runs, what the console shows and what a restart would load agree.   *)
SettingsAgree == RunsItsConfiguration /\ DiskIsCurrent

(* Restoring (at startup or after an account recovered) never switches on a *)
(* plugin that the user switched off while it was waiting for its turn.     *)
RestoreRespectsDisable ==
    [][\A t \in Tasks :
         (task[t].jobs # <<>> /\ Cur(t).do = "restore" /\ Step(t)) => enabled' \subseteq enabled]_vars

(* Every request ends: no cycle of lifecycle locks, no lock kept by a       *)
(* request that failed or was cancelled.                                    *)
RequestsEnd == \A t \in Tasks : task[t].pc # "idle" ~> task[t].pc = "idle"
=============================================================================
