---------------------------- MODULE PluginGovernor ----------------------------
(***************************************************************************)
(* Execution governance: PluginGovernor (awbotnest/governance.py).  Every  *)
(* plugin callback runs through execute: admission by a per-plugin         *)
(* asyncio.Semaphore with a bounded queue, a circuit breaker per           *)
(* operation, a deadline, and the bookkeeping that undoes all of it (the   *)
(* fallback a caller may pass, which nothing in the repository does, and   *)
(* the event journal are left out).                                        *)
(* Capability calls nest executions of one task and fail over between      *)
(* providers; unloading a plugin releases its state, so that calls of an   *)
(* earlier life can still hold a semaphore nobody else can see.            *)
(***************************************************************************)
EXTENDS Integers, Sequences, FiniteSets, SequencesExt, FiniteSetsExt

CONSTANTS Plugins,
          Calls,        \* asyncio tasks that execute callbacks
          Providers,    \* the capability's providers by descending priority
          MaxDepth,     \* MaxDepth[c]: most nested executions of task c
          Budgets,      \* names for the successive semaphores and circuits
          Declared,     \* the limits a plugin declares under "resources"
          Default       \* the limits of ResourcePolicy()

Limits == [concurrency : Nat \ {0}, pending : Nat \ {0}, threshold : Nat \ {0}]
Operations == {"callback", "capability"}
None == -1

ASSUME GovernorAssumption ==
    /\ Providers \in Seq(Plugins)
    /\ MaxDepth \in [Calls -> Nat \ {0}]
    /\ Budgets \subseteq Nat \ {0}
    /\ Declared \in Limits
    /\ Default \in Limits

VARIABLES
    phase,      \* phase[p]: "off", "loaded", "closing" (contexts closed), "releasing"
    current,    \* current[p]: the budget under _policies[p], _semaphores[p]; 0 for none
    budget,     \* the budgets: limits, semaphore, circuits
    pending,    \* _pending[p]
    executions, \* _executions[p]
    call        \* call[c]: the frames (executions) of task c, and a cancellation on its way

vars == <<phase, current, budget, pending, executions, call>>

(* A budget: the ResourcePolicy it was made from, the semaphore's value and *)
(* waiters, and the CircuitState of each operation.                         *)
Fresh(limits) ==
    [limits |-> limits, value |-> limits.concurrency, queue |-> <<>>,
     failures |-> [op \in Operations |-> 0], open |-> [op \in Operations |-> FALSE]]

(* A frame: an execution of op on plugin p under budget e.  A frame that    *)
(* calls a capability keeps the positions of the providers left to try and  *)
(* whether all those tried so far refused admission.                        *)
Frame(p, e, op, pc) ==
    [p |-> p, e |-> e, op |-> op, pc |-> pc, rest |-> {}, refused |-> TRUE]

Depth(c) == Len(call[c].frames)
Top(c) == Last(call[c].frames)
At(c, pc) == Depth(c) > 0 /\ Top(c).pc = pc
Below(c) == Front(call[c].frames)
Signalled(c) == call[c].signal # None
Frames == UNION {{<<c, i>> : i \in 1..Depth(c)} : c \in Calls}
FrameOf(x) == call[x[1]].frames[x[2]]

Init ==
    /\ phase = [p \in Plugins |-> "off"]
    /\ current = [p \in Plugins |-> 0]
    /\ budget = [e \in Budgets |-> Fresh(Default)]
    /\ pending = [p \in Plugins |-> 0]
    /\ executions = [p \in Plugins |-> 0]
    /\ call = [c \in Calls |-> [frames |-> <<>>, signal |-> None]]

-----------------------------------------------------------------------------
(* asyncio.Semaphore: a waiter is a future that is waiting, granted (done,  *)
(* its task has not run yet) or cancelled (CPython 3.11: an acquire that    *)
(* ends wakes one waiter; later versions wake one for every free permit).   *)

Waiting(b) == {i \in DOMAIN b.queue : b.queue[i].st = "waiting"}
Granted(b) == {w \in ToSet(b.queue) : w.st = "granted"}
Locked(b) == b.value = 0 \/ \E i \in DOMAIN b.queue : b.queue[i].st # "cancelled"

Woken(b) ==
    IF Waiting(b) = {} THEN b
    ELSE [b EXCEPT !.value = @ - 1, !.queue[Min(Waiting(b))].st = "granted"]
Released(b) == Woken([b EXCEPT !.value = @ + 1])
HandsOn(b) == IF b.value > 0 THEN Woken(b) ELSE b

Queued(b, c) == [b EXCEPT !.queue = Append(@, [who |-> c, st |-> "waiting"])]
WaiterOf(b, c) == CHOOSE i \in DOMAIN b.queue : b.queue[i].who = c
Unqueued(b, c) == [b EXCEPT !.queue = RemoveAt(@, WaiterOf(b, c))]
Future(c) == LET b == budget[Top(c).e] IN b.queue[WaiterOf(b, c)].st

-----------------------------------------------------------------------------
(* Policies and unloading.                                                  *)

(* A budget without a reference is garbage, and its name free again. *)
InUse(e) == (\E p \in Plugins : current[p] = e) \/ (\E x \in Frames : FrameOf(x).e = e)
Spare == Min({e \in Budgets : ~InUse(e)})
Named(p) == current[p] # 0 \/ \E e \in Budgets : ~InUse(e)      \* bound: enough names
Collect(b) == budget' = [e \in Budgets |-> IF InUse(e)' THEN b[e] ELSE Fresh(Default)]

(* configure, and policy(), which configures {} for a plugin that has none. *)
Configured(p, limits) ==
    /\ Named(p)
    /\ IF current[p] # 0 THEN UNCHANGED <<current, budget>>
       ELSE /\ current' = [current EXCEPT ![p] = Spare]
            /\ budget' = [budget EXCEPT ![Spare] = Fresh(limits)]

(* A plugin is loaded: its first context configures what the plugin        *)
(* declares, unless the plugin already has a policy.                        *)
Load(p) ==
    /\ phase[p] = "off"
    /\ phase' = [phase EXCEPT ![p] = "loaded"]
    /\ Configured(p, Declared)
    /\ UNCHANGED <<pending, executions, call>>

(* Its contexts close: no new callback, no longer a provider. *)
Close(p) ==
    /\ phase[p] = "loaded"
    /\ phase' = [phase EXCEPT ![p] = "closing"]
    /\ UNCHANGED <<current, budget, pending, executions, call>>

(* release waits for the plugin's background tasks, up to 10 s, and then    *)
(* drops what the governor keeps for it.                                    *)
Release(p) ==
    /\ phase[p] = "closing"
    /\ phase' = [phase EXCEPT ![p] = "releasing"]
    /\ UNCHANGED <<current, budget, pending, executions, call>>

Drop(p) ==
    /\ phase[p] = "releasing"
    /\ phase' = [phase EXCEPT ![p] = "off"]
    /\ current' = [current EXCEPT ![p] = 0]
    /\ UNCHANGED <<pending, executions, call>>
    /\ Collect(budget)

(* The console asks for the status of an installed plugin, loaded or not. *)
Status(p) ==
    /\ Configured(p, Default)
    /\ UNCHANGED <<phase, pending, executions, call>>

-----------------------------------------------------------------------------
(* execute.                                                                 *)

(* What a task is left with when the execution above the frames fs raised   *)
(* err: "refused" for PluginBusyError and PluginQueueTimeout, else "failed". *)
Raised(fs, err) ==
    IF fs = <<>> THEN <<>>
    ELSE [fs EXCEPT ![Len(fs)].pc = "failover", ![Len(fs)].refused = @ /\ err = "refused"]
Returned(fs) ==
    IF fs = <<>> THEN <<>> ELSE [fs EXCEPT ![Len(fs)].pc = "running", ![Len(fs)].rest = {}]

Goes(c, fs) == call' = [call EXCEPT ![c] = [frames |-> fs, signal |-> None]]

QueueFull(p, b) == pending[p] >= b.limits.pending

(* Up to the first await: refused when the queue is full, rejected while    *)
(* the circuit is open, else a free permit is taken at once (no use while   *)
(* the plugin is being released) or the task queues.                        *)
Admit(c, fs, p, op) ==
    LET e == IF current[p] # 0 THEN current[p] ELSE Spare
        b == IF current[p] # 0 THEN budget[e] ELSE Fresh(Default)
        enter(pc, b2) ==
            /\ executions' = [executions EXCEPT ![p] = @ + 1]
            /\ budget' = [budget EXCEPT ![e] = b2]
            /\ Goes(c, Append(fs, Frame(p, e, op, pc)))
        refuse(err) ==
            /\ budget' = [budget EXCEPT ![e] = b]
            /\ Goes(c, Raised(fs, err))
            /\ UNCHANGED <<pending, executions>>
    IN
    /\ Named(p)
    /\ current' = [current EXCEPT ![p] = e]
    /\ UNCHANGED phase
    /\ \/ Locked(b) /\ QueueFull(p, b) /\ refuse("refused")
       \/ ~(Locked(b) /\ QueueFull(p, b)) /\ b.open[op] /\ refuse("failed")
       \/ /\ Locked(b) /\ ~QueueFull(p, b) /\ ~b.open[op]
          /\ pending' = [pending EXCEPT ![p] = @ + 1]
          /\ enter("waiting", Queued(b, c))
       \/ /\ ~Locked(b) /\ ~b.open[op] /\ phase[p] = "releasing"
          /\ refuse("refused")
       \/ /\ ~Locked(b) /\ ~b.open[op] /\ phase[p] # "releasing"
          /\ UNCHANGED pending
          /\ enter("running", [b EXCEPT !.value = @ - 1])

(* A handler, job, action or replay of a loaded plugin. *)
Call(c, p) ==
    /\ call[c].frames = <<>>
    /\ phase[p] = "loaded"
    /\ Admit(c, <<>>, p, "callback")

(* A callback of a loaded plugin calls the capability: the providers of     *)
(* this moment, the first one at once.                                      *)
CallCapability(c) ==
    LET ps == {i \in DOMAIN Providers : phase[Providers[i]] = "loaded"} IN
    /\ At(c, "running")
    /\ ~Signalled(c)
    /\ Depth(c) < MaxDepth[c]
    /\ phase[Top(c).p] = "loaded"
    /\ ps # {}
    /\ Admit(c, Append(Below(c), [Top(c) EXCEPT !.pc = "calling", !.rest = ps \ {Min(ps)}, !.refused = TRUE]),
             Providers[Min(ps)], "capability")

(* The next provider after one that raised.                                 *)
StillToTryAll(f) == f.rest                             \* fault: the one that raised stays listed
StillToTry(f) == f.rest \ {Min(f.rest)}
Failover(c) ==
    /\ At(c, "failover")
    /\ Top(c).rest # {}
    /\ Admit(c, Append(Below(c), [Top(c) EXCEPT !.pc = "calling", !.rest = StillToTry(Top(c))]),
             Providers[Min(Top(c).rest)], "capability")

-----------------------------------------------------------------------------
(* The end of an execution.                                                 *)

Counts(outcome) == outcome = "failed"

(* The circuit the execution was admitted under, after its outcome.  The    *)
(* count is capped at the threshold, where larger numbers change nothing.   *)
Judged(b, op, outcome) ==
    IF outcome = "ok" THEN [b EXCEPT !.failures[op] = 0, !.open[op] = FALSE]
    ELSE IF ~Counts(outcome) THEN b
    ELSE LET n == Min({b.failures[op] + 1, b.limits.threshold}) IN
         [b EXCEPT !.failures[op] = n, !.open[op] = @ \/ n = b.limits.threshold]

LeaksPermit(c, b) == b                                 \* fault: no release on the way out
GivesBack(c, b) == IF Top(c).pc = "waiting" THEN b ELSE Released(b)

(* The "finally" of execute.  A cancellation goes on to the frame below; it *)
(* is a timeout in the frame whose deadline caused it.                      *)
End(c, b, outcome) ==
    LET f == Top(c) IN
    /\ executions' = [executions EXCEPT ![f.p] = @ - 1]
    /\ UNCHANGED <<phase, current>>
    /\ CASE outcome = "ok" -> Goes(c, Returned(Below(c)))
         [] outcome \in {"failed", "refused"} -> Goes(c, Raised(Below(c), outcome))
         [] outcome = "cancelled" ->
              call' = [call EXCEPT ![c] = [frames |-> Below(c),
                                           signal |-> IF Depth(c) = 1 THEN None ELSE @.signal]]
    /\ Collect([budget EXCEPT ![f.e] = Judged(GivesBack(c, b), f.op, outcome)])

Expired(c) == call[c].signal = Depth(c)

PendingLess(p) == [pending EXCEPT ![p] = @ - 1]

(* A waiter gives up: a cancelled future is just taken out of the queue, a  *)
(* permit granted meanwhile is passed on.                                   *)
GiveUp(c) ==
    LET f == Top(c)  b == Unqueued(budget[f.e], c) IN
    /\ At(c, "waiting")
    /\ Signalled(c)
    /\ pending' = PendingLess(f.p)
    /\ End(c, IF Future(c) = "granted" THEN Released(b) ELSE b,
           IF Expired(c) THEN "refused" ELSE "cancelled")

(* A waiter got its permit, and starts unless the plugin is being released  *)
(* or was replaced while it waited.                                         *)
StartsAnyway(f) == TRUE                                \* fault: no second look
MayStart(f) == current[f.p] = f.e /\ phase[f.p] # "releasing"
Resume(c) ==
    LET f == Top(c)
        b == HandsOn(Unqueued(budget[f.e], c))
    IN
    /\ At(c, "waiting")
    /\ ~Signalled(c)
    /\ Future(c) = "granted"
    /\ pending' = PendingLess(f.p)
    /\ \/ /\ MayStart(f)
          /\ budget' = [budget EXCEPT ![f.e] = b]
          /\ Goes(c, Append(Below(c), [f EXCEPT !.pc = "running"]))
          /\ UNCHANGED <<phase, current, executions>>
       \/ /\ ~MayStart(f)
          /\ End(c, Released(b), "refused")

(* The callback returns or raises; StopPropagation counts as success. *)
Finish(c) ==
    /\ At(c, "running")
    /\ ~Signalled(c)
    /\ \E outcome \in {"ok", "failed"} : End(c, budget[Top(c).e], outcome)
    /\ UNCHANGED pending

(* It lets a cancellation through, as SPEC demands of every plugin. *)
Interrupted(c) ==
    /\ Depth(c) > 0 /\ Top(c).pc # "waiting"
    /\ Signalled(c)
    /\ End(c, budget[Top(c).e], IF Expired(c) THEN "failed" ELSE "cancelled")
    /\ UNCHANGED pending

(* No provider is left: the callback handles the error and goes on, or lets *)
(* it through - as an admission error if no provider was admitted at all.   *)
Exhausted(c) ==
    /\ At(c, "failover")
    /\ ~Signalled(c)
    /\ Top(c).rest = {}
    /\ \/ /\ Goes(c, Returned(call[c].frames))
          /\ UNCHANGED <<phase, current, budget, executions>>
       \/ End(c, budget[Top(c).e], IF Top(c).refused THEN "refused" ELSE "failed")
    /\ UNCHANGED pending

(* A task is cancelled from outside (level 0) or by the deadline of its     *)
(* level-th execution.  The future it waits for is cancelled at once.       *)
Interrupt(c, level) ==
    LET f == Top(c)  b == budget[f.e] IN
    /\ f.pc \in {"waiting", "running"}
    /\ call' = [call EXCEPT ![c].signal = level]
    /\ budget' = IF f.pc = "waiting" /\ Future(c) = "waiting"
                 THEN [budget EXCEPT ![f.e].queue[WaiterOf(b, c)].st = "cancelled"]
                 ELSE budget
    /\ UNCHANGED <<phase, current, pending, executions>>

Cancel(c) == Depth(c) > 0 /\ ~Signalled(c) /\ Interrupt(c, 0)
Deadline(c) == ~Signalled(c) /\ \E level \in 1..Depth(c) : Interrupt(c, level)

(* recovery_seconds pass: the circuit half-opens, its count remains. *)
Recover(e, op) ==
    /\ budget[e].open[op]
    /\ budget' = [budget EXCEPT ![e].open[op] = FALSE]
    /\ UNCHANGED <<phase, current, pending, executions, call>>

Progress(c) == Resume(c) \/ GiveUp(c) \/ Finish(c) \/ Interrupted(c) \/ Exhausted(c) \/ Failover(c)

Next ==
    \/ \E p \in Plugins : Load(p) \/ Close(p) \/ Release(p) \/ Drop(p) \/ Status(p)
    \/ \E c \in Calls, p \in Plugins : Call(c, p)
    \/ \E c \in Calls : CallCapability(c) \/ Progress(c) \/ Cancel(c) \/ Deadline(c)
    \/ \E e \in Budgets, op \in Operations : Recover(e, op)

Spec == Init /\ [][Next]_vars

(* A task that can run does, a callback calls capabilities only so often   *)
(* before it ends, and executions without an explicit timeout of zero also *)
(* have a deadline.                                                         *)
Fairness ==
    \A c \in Calls :
      /\ WF_vars(Progress(c)) /\ WF_vars(Deadline(c))
      /\ \A d \in 1..MaxDepth[c] : SF_vars(Depth(c) = d /\ Finish(c))
TimedSpec == Spec /\ Fairness

-----------------------------------------------------------------------------
(* Properties.                                                              *)

BudgetRec ==
    [limits : {Declared, Default}, value : Nat,
     queue : Seq([who : Calls, st : {"waiting", "granted", "cancelled"}]),
     failures : [Operations -> Nat], open : [Operations -> BOOLEAN]]
FrameRec ==
    [p : Plugins, e : Budgets, op : Operations,
     pc : {"waiting", "running", "calling", "failover"}, rest : SUBSET DOMAIN Providers, refused : BOOLEAN]
TypeOK ==
    /\ phase \in [Plugins -> {"off", "loaded", "closing", "releasing"}]
    /\ current \in [Plugins -> Budgets \cup {0}]
    /\ budget \in [Budgets -> BudgetRec]
    /\ call \in [Calls -> [frames : Seq(FrameRec), signal : Int]]
    /\ \A e \in Budgets :
         /\ budget[e].value <= budget[e].limits.concurrency
         /\ \A op \in Operations : budget[e].failures[op] <= budget[e].limits.threshold
    /\ \A c \in Calls :
         /\ Depth(c) <= MaxDepth[c]
         /\ call[c].signal \in None..Depth(c)
         /\ \A i \in 1..Depth(c) - 1 : call[c].frames[i].pc \in {"calling", "running"}
    /\ \A p, q \in Plugins : (p # q /\ current[p] # 0) => current[p] # current[q]

(* No permit is lost or made up: the free ones, those of running callbacks  *)
(* and those granted to a task that has not run yet add up to               *)
(* max_concurrency - through timeouts, cancellations that race a grant,     *)
(* nested calls and releases, and for the semaphores of earlier lives too.  *)
PermitsConserved ==
    \A e \in Budgets : LET b == budget[e] IN
        b.value + Cardinality({x \in Frames : FrameOf(x).e = e /\ FrameOf(x).pc # "waiting"})
                + Cardinality(Granted(b))
            = b.limits.concurrency

(* _pending and _executions say what is really queued and executing, also   *)
(* across a reload: configure and the console trust them.                   *)
CountersAccurate ==
    \A p \in Plugins :
        /\ executions[p] = Cardinality({x \in Frames : FrameOf(x).p = p})
        /\ pending[p] = Cardinality({x \in Frames : FrameOf(x).p = p /\ FrameOf(x).pc = "waiting"})

(* A permit is free while a task waits for one only as long as a waiter     *)
(* that was granted one is about to run: it hands the free one on.          *)
NobodyWaitsForAFreePermit ==
    \A e \in Budgets :
        Waiting(budget[e]) # {} /\ budget[e].value > 0 => Granted(budget[e]) # {}

(* Permits and counters say what is free, queued and executing, and what is *)
(* free is put to use, however executions end.                              *)
PermitsAreAccounted ==
    TypeOK /\ PermitsConserved /\ CountersAccurate /\ NobodyWaitsForAFreePermit

(* Only an execution that really ran, and ended by an error or a timeout of *)
(* its own, counts against the circuit it was admitted under: overload,     *)
(* waiting too long and cancellations never do, nested or not.              *)
OnlyFailuresCount ==
    \A e \in Budgets, op \in Operations :
        budget'[e].failures[op] > budget[e].failures[op] =>
          \E c \in Calls :
            /\ Len(call'[c].frames) < Depth(c)
            /\ Top(c).e = e /\ Top(c).op = op
            /\ Top(c).pc # "waiting"
            /\ (Top(c).pc = "failover" /\ ~Signalled(c)) => ~Top(c).refused
            /\ ~Signalled(c) \/ Expired(c)

(* What was queued when its plugin was unloaded never starts: not during    *)
(* the release, nor after it, nor in the instance that comes next.          *)
StaleNeverStarts ==
    \A c \in Calls :
        (At(c, "waiting") /\ Len(call'[c].frames) = Depth(c)
           /\ call'[c].frames[Depth(c)].pc = "running") =>
          LET f == Top(c) IN phase[f.p] # "releasing" /\ current[f.p] = f.e

(* An execution starts for, and counts against, the life of the plugin and  *)
(* the semaphore that it was admitted to.                                   *)
ExecutionsAreTheirOwn == [][OnlyFailuresCount /\ StaleNeverStarts]_vars

(* Every execution ends, however deep it is nested and whatever it waits    *)
(* for: a plugin that calls itself through a capability cannot block itself *)
(* for good.                                                                *)
ExecutionsEnd == \A c \in Calls : call[c].frames # <<>> ~> call[c].frames = <<>>

(* docs/SPEC.md: after it is disabled or reloaded a plugin handles no event *)
(* and runs no callback.                                                    *)
NothingStartsWhenOff ==
    [][\A c \in Calls :
         (Len(call'[c].frames) > Depth(c) /\ Last(call'[c].frames).pc = "running") =>
           phase[Last(call'[c].frames).p] # "off"]_vars

=============================================================================
