----------------------- MODULE PluginLifecycle_proofs -----------------------
(***************************************************************************)
(* For any number of plugins, requests and accounts: two requests are      *)
(* never inside the lifecycle lock of one plugin, a loaded plugin is       *)
(* always an enabled one, the instances of a plugin do not mix, what runs, *)
(* what the console shows and the file agree, and restoring switches on    *)
(* nothing the user switched off.                                          *)
(*                                                                         *)
(* Two invariants carry this.  Inv says who holds which lock and what the  *)
(* table shows then; Rows builds on it and says, for each place inside the *)
(* lock, what the holder knows of its plugin, and that a plugin nobody     *)
(* works on is at rest.                                                    *)
(***************************************************************************)
EXTENDS PluginLifecycle, DataLemmas

Kinds == {"enable", "disable", "reload", "configure", "pause", "scan", "restore"}
JobType == {j \in [do : Kinds, p : Plugins \cup {"none"}, v : Values \cup {"none"}] :
              /\ j.do # "scan" => j.p \in Plugins
              /\ j.do = "configure" => j.v \in Values}
InstanceType == [inst : Nat, cfg : Values \cup {"none"}]
TaskType == [pc : {"idle", "next", "lock"} \cup Critical, jobs : Seq(JobType), pending : SUBSET Plugins, inst : Nat,
             left : Nat, raise : {"none", "CancelledError"}, phase : {"apply", "undo", "recover"}, was : InstanceType,
             kept : SUBSET Plugins, prev : Values \cup {"none"}]

(* The shape of the variables the argument looks at. *)
Types ==
    /\ task \in [Tasks -> TaskType]
    /\ running \in [Plugins -> InstanceType]
    /\ order \in Seq(Plugins)
    /\ enabled \in SUBSET Plugins
    /\ cfg \in [Plugins -> Values \cup {"none"}]
    /\ holder = [p \in Plugins |-> holder[p]]

(* A request that asked for a lock names a plugin, one that is past the     *)
(* acquisition holds it, and only a configuration save is ever undone.      *)
Locking ==
    \A t \in Tasks :
        /\ task[t].pc \in Critical \cup {"lock"} =>
             task[t].jobs # <<>> /\ Plug(t) \in Plugins /\ Cur(t) \in JobType
        /\ task[t].pc \in Critical => holder[Plug(t)] = t
        /\ task[t].pc \in {"confirm", "rollback", "revert"} => Cur(t).do = "configure"

(* A plugin being torn down is in the table no more. *)
RemovedBy(t) == task[t].pc \in {"teardown", "disabled"} => running[Plug(t)] = NoInstance
Removed == \A t \in Tasks : RemovedBy(t)

(* A configuration save whose plugin was not enabled never had it loaded,   *)
(* and has nothing to set up again when it is undone.                       *)
RememberedBy(t) ==
    (task[t].pc \in Critical /\ Cur(t).do = "configure") =>
        \/ Plug(t) \in task[t].kept
        \/ /\ task[t].pc \in {"rollback", "revert"}
           /\ task[t].was = NoInstance /\ running[Plug(t)] = NoInstance
Remembered == \A t \in Tasks : RememberedBy(t)

Inv == Types /\ Locking /\ Removed /\ Remembered /\ LoadedIsEnabled

Mutex == \A t, u \in Tasks :
    (t # u /\ task[t].pc \in Critical /\ task[u].pc \in Critical) => Plug(t) # Plug(u)

(* A sequence without one of its elements. *)
LEMMA WithoutOne ==
    ASSUME NEW S, NEW s \in Seq(S), NEW x
    PROVE  /\ Without(s, x) \in Seq(S)
           /\ \A y : y # x => (y \in ToSet(Without(s, x)) <=> y \in ToSet(s))
           /\ IsInjective(s) => IsInjective(Without(s, x)) /\ x \notin ToSet(Without(s, x))
<1>1. CASE x \notin ToSet(s)
  BY <1>1 DEF Without
<1>2. CASE x \in ToSet(s)
  <2>1. PICK i \in DOMAIN s : s[i] = x /\ Without(s, x) = RemoveAt(s, i)
    BY <1>2 DEF Without, ToSet
  <2> DEFINE r == Without(s, x)
  <2>2. /\ r \in Seq(S) /\ DOMAIN r = 1..Len(s) - 1
        /\ \A k \in 1..Len(s) - 1 : r[k] = IF k < i THEN s[k] ELSE s[k + 1]
    BY <2>1, RemovedAt
  <2>3. Len(s) \in Nat /\ DOMAIN s = 1..Len(s) /\ i \in 1..Len(s)
    OBVIOUS
  <2> HIDE DEF r
  <2>4. ASSUME NEW y, y # x PROVE y \in ToSet(r) <=> y \in ToSet(s)
    <3>1. ASSUME NEW k \in 1..Len(s) - 1, r[k] = y PROVE y \in ToSet(s)
      <4>1. CASE k < i
        <5>1. s[k] = y /\ k \in DOMAIN s
          BY <2>2, <2>3, <3>1, <4>1
        <5> QED BY <5>1 DEF ToSet
      <4>2. CASE ~(k < i)
        <5>1. s[k + 1] = y /\ k + 1 \in DOMAIN s
          BY <2>2, <2>3, <3>1, <4>2
        <5> QED BY <5>1 DEF ToSet
      <4> QED BY <4>1, <4>2
    <3>2. ASSUME NEW j \in 1..Len(s), s[j] = y PROVE y \in ToSet(r)
      <4>1. CASE j < i
        <5>1. j \in 1..Len(s) - 1 /\ r[j] = y
          BY <2>2, <2>3, <3>2, <4>1
        <5> QED BY <2>2, <5>1 DEF ToSet
      <4>2. CASE j > i
        <5>1. j - 1 \in 1..Len(s) - 1 /\ ~(j - 1 < i) /\ (j - 1) + 1 = j
          BY <2>3, <4>2
        <5>2. r[j - 1] = y
          BY <2>2, <3>2, <5>1
        <5> QED BY <2>2, <5>1, <5>2 DEF ToSet
      <4>3. j # i
        BY <2>1, <2>4, <3>2
      <4> QED BY <2>3, <4>1, <4>2, <4>3
    <3> QED BY <2>2, <2>3, <3>1, <3>2 DEF ToSet
  <2>5. ASSUME IsInjective(s) PROVE IsInjective(r) /\ x \notin ToSet(r)
    <3>1. \A a, b \in 1..Len(s) : s[a] = s[b] => a = b
      BY <2>3, <2>5 DEF IsInjective
    <3>2. ASSUME NEW a \in 1..Len(s) - 1
          PROVE  \E j \in 1..Len(s) : r[a] = s[j] /\ j # i /\ (a < i => j = a) /\ (~(a < i) => j = a + 1)
      BY <2>2, <2>3
    <3>3. ASSUME NEW a \in 1..Len(s) - 1, NEW b \in 1..Len(s) - 1, r[a] = r[b] PROVE a = b
      BY <2>3, <3>1, <3>2, <3>3
    <3>4. \A a \in 1..Len(s) - 1 : r[a] # x
      BY <2>1, <2>3, <3>1, <3>2
    <3> QED BY <2>2, <3>3, <3>4 DEF IsInjective, ToSet
  <2> QED BY <2>2, <2>4, <2>5 DEF r
<1> QED BY <1>1, <1>2

LEMMA Exclusive == Inv => Mutex
BY DEF Inv, Locking, Mutex

LEMMA IdleType == Idle \in TaskType
<1>1. <<>> \in Seq(JobType)
  OBVIOUS
<1>2. NoInstance \in InstanceType
  BY DEF NoInstance, InstanceType
<1> QED BY <1>1, <1>2 DEF Idle, Between, TaskType, Critical

(* What a step of the holder of a lock relies on. *)
InLock(t) ==
    /\ task[t].pc \in Critical \cup {"lock"}
    /\ task[t].jobs # <<>> /\ Plug(t) \in Plugins /\ Cur(t) \in JobType
    /\ holder[Plug(t)] = t

LEMMA CriticalInLock == \A t \in Tasks : (Inv /\ task[t].pc \in Critical) => InLock(t)
BY DEF Inv, Locking, InLock

(* What such a step does: it changes its own task only, which either leaves *)
(* the lock or goes on inside it with the same job.                         *)
Shape(t) ==
    /\ task' \in [Tasks -> TaskType]
    /\ holder' = [p \in Plugins |-> holder'[p]]
    /\ \A u \in Tasks \ {t} : task'[u] = task[u]
    /\ Locking'
Left(t) == task'[t].pc \in {"idle", "next"}
Goes(t) == task'[t].jobs = task[t].jobs /\ task'[t].pc \in Critical

LEMMA Leaving ==
    ASSUME Inv, NEW t \in Tasks, NEW raised, Leave(t, raised), InLock(t)
    PROVE  Shape(t) /\ Left(t)
<1> DEFINE new == Between("next", Tail(task[t].jobs), task[t].pending)
<1>1. task[t] \in TaskType
  BY DEF Inv, Types
<1>2. new \in TaskType /\ new.pc = "next"
  <2>1. Tail(task[t].jobs) \in Seq(JobType)
    BY <1>1 DEF TaskType, InLock
  <2>2. NoInstance \in InstanceType
    BY DEF NoInstance, InstanceType
  <2> QED BY <1>1, <2>1, <2>2 DEF TaskType, Between, Critical
<1>3. /\ task' \in [Tasks -> TaskType]
      /\ task'[t].pc \in {"idle", "next"}
      /\ \A u \in Tasks \ {t} : task'[u] = task[u]
  <2>1. Idle.pc = "idle"
    BY DEF Idle, Between
  <2>2. task' = [task EXCEPT ![t] = new] \/ task' = [task EXCEPT ![t] = Idle]
    BY DEF Leave, Inv, Types
  <2> QED BY <1>2, <2>1, <2>2, IdleType DEF Inv, Types
<1>4. /\ holder' = [p \in Plugins |-> holder'[p]]
      /\ \A p \in Plugins \ {Plug(t)} : holder'[p] = holder[p]
  BY DEF Leave, Freed, Inv, Types, InLock
<1>5. Locking'
  BY <1>3, <1>4 DEF Inv, Locking, Critical, Plug, Cur, InLock
<1> QED BY <1>3, <1>4, <1>5 DEF Shape, Left

LEMMA Going ==
    ASSUME Inv, NEW t \in Tasks, InLock(t), UNCHANGED locks,
           NEW r \in TaskType, task' = [task EXCEPT ![t] = r],
           r.jobs = task[t].jobs, r.pc \in Critical,
           r.pc \in {"confirm", "rollback", "revert"} => Cur(t).do = "configure"
    PROVE  Shape(t) /\ Goes(t) /\ task'[t] = r
<1>1. /\ task' \in [Tasks -> TaskType] /\ task'[t] = r
      /\ \A u \in Tasks \ {t} : task'[u] = task[u]
  BY DEF Inv, Types
<1>2. holder' = holder
  BY DEF locks
<1>3. Locking'
  BY <1>1, <1>2 DEF Inv, Locking, Plug, Cur, InLock
<1> QED BY <1>1, <1>2, <1>3 DEF Shape, Goes, Inv, Types

LEMMA Moving ==
    ASSUME Inv, NEW t \in Tasks, InLock(t), UNCHANGED locks,
           NEW pc \in Critical, Goto(t, pc),
           pc \in {"confirm", "rollback", "revert"} => Cur(t).do = "configure"
    PROVE  Shape(t) /\ Goes(t) /\ task'[t].pc = pc /\ task'[t].kept = task[t].kept
<1> DEFINE r == [task[t] EXCEPT !.pc = pc]
<1>1. r \in TaskType /\ r.jobs = task[t].jobs /\ r.pc = pc /\ r.kept = task[t].kept
  BY DEF Inv, Types, TaskType
<1>2. task' = [task EXCEPT ![t] = r]
  BY DEF Goto
<1> HIDE DEF r
<1>3. Shape(t) /\ Goes(t) /\ task'[t] = r
  BY <1>1, <1>2, Going
<1> QED BY <1>1, <1>3

(* The facts about the other tasks survive when only the row of the table   *)
(* that belongs to the lock changes.                                        *)
LEMMA Others ==
    ASSUME Inv, NEW t \in Tasks, InLock(t), Shape(t),
           \A p \in Plugins \ {Plug(t)} : running'[p] = running[p]
    PROVE  \A u \in Tasks \ {t} : RemovedBy(u)' /\ RememberedBy(u)'
<1> SUFFICES ASSUME NEW u \in Tasks \ {t}
             PROVE  RemovedBy(u)' /\ RememberedBy(u)'
  OBVIOUS
<1>1. task'[u] = task[u] /\ Plug(u)' = Plug(u) /\ Cur(u)' = Cur(u)
  BY DEF Shape, Plug, Cur
<1>2. task[u].pc \in Critical => Plug(u) \in Plugins \ {Plug(t)}
  BY DEF Inv, Locking, InLock
<1>3. RemovedBy(u) /\ RememberedBy(u)
  BY DEF Inv, Removed, Remembered
<1> QED BY <1>1, <1>2, <1>3 DEF RemovedBy, RememberedBy, Critical

(* Steps that leave the lock, or go on to a step that is neither in the     *)
(* teardown nor in the undoing of a save, with what the save remembers.     *)
LEMMA Settled ==
    ASSUME Inv, NEW t \in Tasks, InLock(t), Shape(t),
           \A p \in Plugins \ {Plug(t)} : running'[p] = running[p],
           \/ Left(t)
           \/ /\ Goes(t)
              /\ task'[t].pc \notin {"teardown", "disabled"}
              /\ task'[t].kept = task[t].kept
              /\ task[t].pc \in Critical \ {"rollback", "revert"}
           \/ /\ Goes(t)
              /\ task'[t].pc \notin {"teardown", "disabled"}
              /\ Cur(t).do # "configure"
    PROVE  Removed' /\ Remembered'
<1>1. \A u \in Tasks \ {t} : RemovedBy(u)' /\ RememberedBy(u)'
  BY Others
<1>2. Goes(t) => Plug(t)' = Plug(t) /\ Cur(t)' = Cur(t)
  BY DEF Goes, Plug, Cur
<1>3. RememberedBy(t)
  BY DEF Inv, Remembered
<1>4. RemovedBy(t)' /\ RememberedBy(t)'
  BY <1>2, <1>3 DEF Left, Goes, RemovedBy, RememberedBy, Critical
<1> QED BY <1>1, <1>4 DEF Removed, Remembered

LEMMA Returning ==
    ASSUME Inv, NEW t \in Tasks, InLock(t), task[t].pc \in Critical \ {"rollback", "revert"},
           NEW ok, EnableReturns(t, ok) \/ EnableCancelled(t)
    PROVE  /\ Shape(t)
           /\ \/ Left(t)
              \/ /\ Goes(t)
                 /\ task'[t].pc \notin {"teardown", "disabled"}
                 /\ task'[t].kept = task[t].kept
<1>1. CASE ~Saving(t)
  <2>1. Leave(t, Cancelled(t)) \/ Leave(t, TRUE)
    BY <1>1 DEF EnableReturns, EnableCancelled
  <2> QED BY <2>1, Leaving
<1>2. CASE Saving(t)
  <2>1. PICK r \in TaskType : /\ task' = [task EXCEPT ![t] = r]
                             /\ r.jobs = task[t].jobs /\ r.kept = task[t].kept
                             /\ r.pc \in {"confirm", "rollback"}
    <3>1. \A pc \in {"confirm", "rollback"} : Goto(t, pc) =>
            LET r == [task[t] EXCEPT !.pc = pc] IN
            /\ task' = [task EXCEPT ![t] = r] /\ r \in TaskType
            /\ r.jobs = task[t].jobs /\ r.kept = task[t].kept /\ r.pc = pc
      BY ZenonT(30) DEF Goto, Inv, Types, TaskType, Critical
    <3>2. task' = [task EXCEPT ![t].pc = "rollback", ![t].raise = "CancelledError"] =>
            LET r == [task[t] EXCEPT !.pc = "rollback", !.raise = "CancelledError"] IN
            /\ task' = [task EXCEPT ![t] = r] /\ r \in TaskType
            /\ r.jobs = task[t].jobs /\ r.kept = task[t].kept /\ r.pc = "rollback"
      BY ZenonT(30) DEF Inv, Types, TaskType, Critical
    <3> QED BY <1>2, <3>1, <3>2 DEF EnableReturns, EnableCancelled
  <2>2. UNCHANGED locks
    BY <1>2 DEF EnableReturns, EnableCancelled
  <2> QED BY <1>2, <2>1, <2>2, Going DEF Critical, Saving
<1> QED BY <1>1, <1>2

LEMMA Unloading ==
    ASSUME Inv, NEW p \in Plugins, Unload(p)
    PROVE  /\ running' \in [Plugins -> InstanceType]
           /\ order' \in Seq(Plugins)
           /\ running'[p] = NoInstance
           /\ \A q \in Plugins \ {p} : running'[q] = running[q]
<1>1. NoInstance \in InstanceType
  BY DEF NoInstance, InstanceType
<1>2. order \in Seq(Plugins)
  BY DEF Inv, Types
<1>3. order' \in Seq(Plugins)
  BY <1>2, WithoutOne DEF Unload
<1> QED BY <1>1, <1>3 DEF Unload, Inv, Types

(* Steps outside the locks: requests, the choice of the next job and the    *)
(* wait for its lock, which is taken only when it is free.                  *)
LEMMA Joining ==
    ASSUME Inv, NEW t \in Tasks, task[t].pc \notin Critical,
           NEW r \in TaskType, task' = [task EXCEPT ![t] = r],
           \/ r.pc \in {"idle", "next"}
           \/ r.pc = "lock" /\ r.jobs # <<>> /\ Head(r.jobs).p \in Plugins /\ Head(r.jobs) \in JobType,
           holder' = [p \in Plugins |-> holder'[p]],
           \A p \in Plugins : holder[p] # NoTask => holder'[p] = holder[p],
           UNCHANGED <<instances, settings>>
    PROVE  Inv'
<1>1. /\ task' \in [Tasks -> TaskType] /\ task'[t] = r
      /\ \A u \in Tasks \ {t} : task'[u] = task[u]
  BY DEF Inv, Types
<1>2. \A u \in Tasks \ {t} : Plug(u)' = Plug(u) /\ Cur(u)' = Cur(u)
  BY <1>1 DEF Plug, Cur
<1>3. Types'
  BY <1>1 DEF Inv, Types, instances, settings
<1>4. Locking'
  <2>1. \A u \in Tasks : u # NoTask
    BY LifecycleAssumption
  <2> QED BY <1>1, <1>2, <2>1 DEF Inv, Locking, Critical, Plug, Cur
<1>5. Removed' /\ Remembered'
  BY <1>1, <1>2 DEF Inv, Removed, Remembered, RemovedBy, RememberedBy, Critical, instances
<1>6. LoadedIsEnabled'
  BY DEF Inv, LoadedIsEnabled, Loaded, instances, settings
<1> QED BY <1>3, <1>4, <1>5, <1>6 DEF Inv

LEMMA Queueing ==
    ASSUME Inv, NEW t \in Tasks, NEW p \in Plugins, Queue(t, p)
    PROVE  /\ holder' = [q \in Plugins |-> holder'[q]]
           /\ \A q \in Plugins : holder[q] # NoTask => holder'[q] = holder[q]
BY DEF Queue, Inv, Types

LEMMA OutsideSteps ==
    ASSUME Inv, NEW t \in Tasks, Request(t) \/ NextJob(t) \/ Scan(t) \/ Pick(t)
    PROVE  Inv'
<1> USE DEF Inv
<1>0. /\ NoInstance \in InstanceType
      /\ \A pc \in {"idle", "next", "lock"}, jobs \in Seq(JobType), S \in SUBSET Plugins :
           Between(pc, jobs, S) \in TaskType
  <2>1. NoInstance \in InstanceType
    BY DEF NoInstance, InstanceType
  <2> QED BY <2>1 DEF Between, TaskType, Critical
<1>1. CASE Request(t)
  <2>1. PICK op \in Ops, p \in Plugins, v \in Values :
          task' = [task EXCEPT ![t] = Between("next", JobsOf(op, p, v), {})]
    BY <1>1 DEF Request
  <2>2. \A do \in Kinds \ {"scan"}, w \in Values \cup {"none"}, q \in Plugins :
          (do = "configure" => w \in Values) => Job(do, q, w) \in JobType
    BY DEF Job, JobType
  <2>3. Job("scan", "none", "none") \in JobType
    BY DEF Job, JobType, Kinds
  <2>4. Pauses \in Seq(JobType)
    BY <2>2 DEF Pauses, Types, Kinds
  <2>5. JobsOf(op, p, v) \in Seq(JobType)
    <3>1. CASE op \in {"enable", "disable", "reload", "configure"}
      BY <3>1, <2>2 DEF JobsOf, Kinds
    <3>2. CASE op = "rescope"
      BY <3>2, <2>2 DEF JobsOf, Kinds
    <3>3. CASE op = "refresh"
      BY <3>3, <2>3, <2>4 DEF JobsOf
    <3>4. CASE op = "stop"
      BY <3>4, <2>4 DEF JobsOf
    <3> QED BY <3>1, <3>2, <3>3, <3>4, LifecycleAssumption
  <2>6. Between("next", JobsOf(op, p, v), {}).pc = "next"
    BY DEF Between
  <2>7. task[t].pc \notin Critical
    BY <1>1 DEF Request, Critical
  <2>8. UNCHANGED <<instances, settings>> /\ holder' = holder
    BY <1>1 DEF Request, locks
  <2> QED BY <1>0, <2>1, <2>5, <2>6, <2>7, <2>8, Joining DEF Types
<1>2. CASE NextJob(t)
  <2> DEFINE r == [task[t] EXCEPT !.pc = "lock"]
  <2>1. r \in TaskType /\ r.pc = "lock" /\ r.jobs = task[t].jobs /\ task[t].jobs \in Seq(JobType)
    BY DEF Types, TaskType
  <2>2. task' = [task EXCEPT ![t] = r]
    BY <1>2 DEF NextJob, Goto
  <2>3. /\ r.jobs # <<>> /\ Head(r.jobs) \in JobType /\ Head(r.jobs).p \in Plugins
        /\ Plug(t) \in Plugins
    <3>1. task[t].jobs # <<>> /\ Cur(t).do # "scan" /\ task[t].jobs \in Seq(JobType)
      BY <1>2, <2>1 DEF NextJob
    <3>2. Head(task[t].jobs) \in JobType
      BY <3>1
    <3>3. Head(task[t].jobs).p \in Plugins
      BY <3>1, <3>2 DEF Cur, JobType
    <3> HIDE DEF r
    <3> QED BY <2>1, <3>1, <3>2, <3>3 DEF Cur, Plug
  <2>4. task[t].pc \notin Critical
    BY <1>2 DEF NextJob, Critical
  <2> HIDE DEF r
  <2> QED BY <1>2, <2>1, <2>2, <2>3, <2>4, Queueing, Joining DEF NextJob
<1>3. CASE Scan(t)
  <2>1. PICK r \in TaskType : task' = [task EXCEPT ![t] = r] /\ r.pc \in {"idle", "next"}
    <3>1. Between("next", <<>>, enabled) \in TaskType /\ Idle \in TaskType
      <4>1. <<>> \in Seq(JobType)
        OBVIOUS
      <4> QED BY <1>0, <4>1, IdleType DEF Types
    <3>2. Between("next", <<>>, enabled).pc = "next" /\ Idle.pc = "idle"
      BY DEF Between, Idle
    <3>3. \/ task' = [task EXCEPT ![t] = Between("next", <<>>, enabled)]
          \/ task' = [task EXCEPT ![t] = Idle]
      BY <1>3 DEF Scan
    <3> QED BY <3>1, <3>2, <3>3
  <2>2. task[t].pc \notin Critical /\ holder' = holder /\ UNCHANGED <<instances, settings>>
    BY <1>3 DEF Scan, Critical, locks
  <2> QED BY <2>1, <2>2, Joining DEF Types
<1>4. CASE Pick(t)
  <2>0. task[t].pc \notin Critical /\ UNCHANGED <<instances, settings>>
    BY <1>4 DEF Pick, Critical
  <2>1. CASE task' = [task EXCEPT ![t] = Idle] /\ UNCHANGED locks
    <3>1. Idle.pc = "idle" /\ holder' = holder
      BY <2>1 DEF Idle, Between, locks
    <3> QED BY <2>0, <2>1, <3>1, IdleType, Joining DEF Types
  <2>2. CASE \E p \in Startable(task[t].pending) :
            /\ task' = [task EXCEPT ![t] =
                 Between("lock", <<Job("restore", p, "none")>>, task[t].pending \ {p})]
            /\ Queue(t, p)
    <3>1. PICK p \in Startable(task[t].pending) :
            /\ task' = [task EXCEPT ![t] =
                 Between("lock", <<Job("restore", p, "none")>>, task[t].pending \ {p})]
            /\ Queue(t, p)
      BY <2>2
    <3>2. task[t].pending \in SUBSET Plugins /\ p \in Plugins
      BY DEF Startable, Types, TaskType
    <3>3. Job("restore", p, "none") \in JobType /\ Job("restore", p, "none").p = p
      BY <3>2 DEF Job, JobType, Kinds
    <3> DEFINE r == Between("lock", <<Job("restore", p, "none")>>, task[t].pending \ {p})
    <3>4. r \in TaskType
      <4>1. <<Job("restore", p, "none")>> \in Seq(JobType)
        BY <3>3
      <4> QED BY <1>0, <3>2, <4>1
    <3>5. r.pc = "lock" /\ r.jobs = <<Job("restore", p, "none")>>
      BY DEF Between
    <3>6. task' = [task EXCEPT ![t] = r]
      BY <3>1
    <3> HIDE DEF r
    <3>7. r.jobs # <<>> /\ Head(r.jobs) \in JobType /\ Head(r.jobs).p \in Plugins
      BY <3>2, <3>3, <3>5
    <3> QED BY <2>0, <3>1, <3>2, <3>4, <3>5, <3>6, <3>7, Queueing, Joining
  <2> QED BY <1>4, <2>1, <2>2 DEF Pick
<1> QED BY <1>1, <1>2, <1>3, <1>4

(* Steps inside a lock that leave the table and the settings alone. *)
LEMMA Quiet ==
    ASSUME Inv, NEW t \in Tasks, InLock(t), Shape(t),
           UNCHANGED <<running, order, enabled, cfg>>,
           \/ Left(t)
           \/ /\ Goes(t)
              /\ task'[t].pc \notin {"teardown", "disabled"}
              /\ task'[t].kept = task[t].kept
              /\ task[t].pc \in Critical \ {"rollback", "revert"}
           \/ /\ Goes(t)
              /\ task'[t].pc \notin {"teardown", "disabled"}
              /\ Cur(t).do # "configure"
    PROVE  Inv'
<1>1. Types'
  BY DEF Shape, Inv, Types
<1>2. Removed' /\ Remembered'
  BY Settled
<1>3. LoadedIsEnabled'
  BY DEF Inv, LoadedIsEnabled, Loaded
<1> QED BY <1>1, <1>2, <1>3 DEF Inv, Shape

(* Any other step of a holder. *)
LEMMA Finish ==
    ASSUME Inv, NEW t \in Tasks, InLock(t), Shape(t),
           running' \in [Plugins -> InstanceType], order' \in Seq(Plugins),
           enabled' \in SUBSET Plugins, cfg' \in [Plugins -> Values \cup {"none"}],
           \A q \in Plugins \ {Plug(t)} : running'[q] = running[q],
           RemovedBy(t)', RememberedBy(t)', LoadedIsEnabled'
    PROVE  Inv'
<1>1. \A u \in Tasks \ {t} : RemovedBy(u)' /\ RememberedBy(u)'
  BY Others
<1> QED BY <1>1 DEF Inv, Types, Shape, Removed, Remembered

LEMMA HasLockInLock == \A t \in Tasks : (Inv /\ HasLock(t)) => InLock(t)
BY DEF Inv, Locking, InLock, HasLock

LEMMA EnterEnableStep == ASSUME Inv, NEW t \in Tasks, EnterEnable(t) PROVE Inv'
<1>1. InLock(t) /\ Cur(t).do # "configure"
  BY HasLockInLock DEF EnterEnable
<1>2. UNCHANGED <<running, order, enabled, cfg>>
  BY DEF EnterEnable, instances, settings
<1>3. CASE Goto(t, "enable") /\ UNCHANGED locks
  <2>1. Shape(t) /\ Goes(t) /\ task'[t].pc = "enable"
    BY <1>1, <1>3, Moving DEF Critical
  <2> QED BY <1>1, <1>2, <2>1, Quiet
<1>4. CASE Leave(t, FALSE)
  BY <1>1, <1>2, <1>4, Leaving, Quiet
<1> QED BY <1>3, <1>4 DEF EnterEnable

LEMMA EnterDisableStep == ASSUME Inv, NEW t \in Tasks, EnterDisable(t) PROVE Inv'
<1>1. InLock(t) /\ Cur(t).do # "configure" /\ Unload(Plug(t))
  BY HasLockInLock DEF EnterDisable
<1>2. /\ running' \in [Plugins -> InstanceType] /\ order' \in Seq(Plugins)
      /\ running'[Plug(t)] = NoInstance
      /\ \A q \in Plugins \ {Plug(t)} : running'[q] = running[q]
  BY <1>1, Unloading DEF InLock
<1>3. PICK r \in TaskType : /\ task' = [task EXCEPT ![t] = r]
                           /\ r.jobs = task[t].jobs /\ r.pc \in {"teardown", "disabled"}
  <2>1. \A i \in Nat, pc \in {"teardown", "disabled"} :
          /\ [task[t] EXCEPT !.inst = i, !.pc = pc] \in TaskType
          /\ [task[t] EXCEPT !.inst = i, !.pc = pc].jobs = task[t].jobs
          /\ [task[t] EXCEPT !.inst = i, !.pc = pc].pc = pc
    BY ZenonT(30) DEF Inv, Types, TaskType, Critical
  <2>2. running[Plug(t)].inst \in Nat
    BY <1>1 DEF Inv, Types, InstanceType, InLock
  <2>3. PICK pc \in {"teardown", "disabled"} :
          task' = [task EXCEPT ![t] = [task[t] EXCEPT !.inst = running[Plug(t)].inst, !.pc = pc]]
    BY DEF EnterDisable, Inv, Types
  <2> QED BY <2>1, <2>2, <2>3
<1>4. UNCHANGED locks
  BY DEF EnterDisable
<1>5. Shape(t) /\ Goes(t) /\ task'[t] = r
  BY <1>1, <1>3, <1>4, Going DEF Critical
<1>6. \A u \in Tasks \ {t} : RemovedBy(u)' /\ RememberedBy(u)'
  BY <1>1, <1>2, <1>5, Others
<1>7. RemovedBy(t)' /\ RememberedBy(t)'
  BY <1>1, <1>2, <1>3, <1>5 DEF RemovedBy, RememberedBy, Goes, Plug, Cur
<1>8. UNCHANGED <<enabled, cfg>>
  BY DEF EnterDisable, settings
<1>9. Types'
  BY <1>2, <1>5, <1>8 DEF Types, Inv, Shape
<1>10. LoadedIsEnabled'
  BY <1>1, <1>2, <1>8 DEF Inv, LoadedIsEnabled, Loaded
<1> QED BY <1>5, <1>6, <1>7, <1>9, <1>10 DEF Inv, Removed, Remembered, Shape

(* The task of a configuration save that goes on, and that of a first setup. *)
Remembering(r, pc, i, w, k, v) ==
    [r EXCEPT !.pc = pc, !.inst = i, !.was = w, !.kept = k, !.prev = v]
SettingUp(r, i, n) == [r EXCEPT !.pc = "setup", !.inst = i, !.left = n]

LEMMA RememberType ==
    ASSUME NEW r \in TaskType, NEW pc \in Critical, NEW i \in Nat, NEW w \in InstanceType,
           NEW k \in SUBSET Plugins, NEW v \in Values \cup {"none"}
    PROVE  /\ Remembering(r, pc, i, w, k, v) \in TaskType
           /\ Remembering(r, pc, i, w, k, v).jobs = r.jobs
           /\ Remembering(r, pc, i, w, k, v).pc = pc
           /\ Remembering(r, pc, i, w, k, v).kept = k
           /\ Remembering(r, pc, i, w, k, v).was = w
<1>1. Remembering(r, pc, i, w, k, v) \in TaskType
  BY DEF Remembering, TaskType
<1>2. Remembering(r, pc, i, w, k, v).jobs = r.jobs
  BY DEF Remembering, TaskType
<1>3. Remembering(r, pc, i, w, k, v).pc = pc
  BY DEF Remembering, TaskType
<1>4. Remembering(r, pc, i, w, k, v).kept = k
  BY DEF Remembering, TaskType
<1>5. Remembering(r, pc, i, w, k, v).was = w
  BY DEF Remembering, TaskType
<1> QED BY <1>1, <1>2, <1>3, <1>4, <1>5

LEMMA SetupType ==
    ASSUME NEW r \in TaskType, NEW i \in Nat, NEW n \in Nat
    PROVE  /\ SettingUp(r, i, n) \in TaskType
           /\ SettingUp(r, i, n).jobs = r.jobs
           /\ SettingUp(r, i, n).pc = "setup"
           /\ SettingUp(r, i, n).kept = r.kept
<1>1. SettingUp(r, i, n) \in TaskType
  BY DEF SettingUp, TaskType, Critical
<1>2. SettingUp(r, i, n).jobs = r.jobs
  BY DEF SettingUp, TaskType
<1>3. SettingUp(r, i, n).pc = "setup"
  BY DEF SettingUp, TaskType
<1>4. SettingUp(r, i, n).kept = r.kept
  BY DEF SettingUp, TaskType
<1> QED BY <1>1, <1>2, <1>3, <1>4

LEMMA EnterConfigureStep == ASSUME Inv, NEW t \in Tasks, EnterConfigure(t) PROVE Inv'
<1> DEFINE p == Plug(t)
<1>1. InLock(t) /\ Cur(t).do = "configure" /\ p \in Plugins
  BY HasLockInLock DEF EnterConfigure, InLock
<1>2. UNCHANGED enabled /\ cfg' \in [Plugins -> Values \cup {"none"}]
  BY <1>1 DEF EnterConfigure, Inv, Types, InLock, JobType
<1>3. CASE Leave(t, TRUE) \/ Leave(t, FALSE)
  <2>2. Shape(t) /\ Left(t)
    BY <1>1, <1>3, Leaving
  <2>3. RemovedBy(t)' /\ RememberedBy(t)'
    BY <2>2 DEF Left, RemovedBy, RememberedBy, Critical
  <2>4. CASE UNCHANGED <<running, order>>
    <3>1. LoadedIsEnabled'
      BY <1>2, <2>4 DEF Inv, LoadedIsEnabled, Loaded
    <3> QED BY <1>1, <1>2, <2>2, <2>3, <2>4, <3>1, Finish DEF Inv, Types
  <2>5. CASE Unload(p)
    <3>1. LoadedIsEnabled'
      BY <1>1, <1>2, <2>5, Unloading DEF Inv, LoadedIsEnabled, Loaded
    <3> QED BY <1>1, <1>2, <2>2, <2>3, <2>5, <3>1, Unloading, Finish DEF Inv, Types
  <2> QED BY <2>4, <2>5 DEF EnterConfigure
<1>4. CASE \E pc \in {"rollback", "teardown"} :
             /\ task' = [task EXCEPT ![t].pc = pc, ![t].inst = running[p].inst, ![t].was = running[p],
                                     ![t].kept = enabled \cap {p}, ![t].prev = cfg[p]]
             /\ UNCHANGED locks
             /\ pc = "rollback" => UNCHANGED <<running, order>>
             /\ pc = "teardown" => p \in Loaded /\ Unload(p)
  <2>1. PICK pc \in {"rollback", "teardown"} :
             /\ task' = [task EXCEPT ![t].pc = pc, ![t].inst = running[p].inst, ![t].was = running[p],
                                     ![t].kept = enabled \cap {p}, ![t].prev = cfg[p]]
             /\ UNCHANGED locks
             /\ pc = "rollback" => UNCHANGED <<running, order>>
             /\ pc = "teardown" => p \in Loaded /\ Unload(p)
    BY <1>4
  <2>2. PICK r \in TaskType : /\ task' = [task EXCEPT ![t] = r] /\ r.jobs = task[t].jobs
                             /\ r.pc = pc /\ r.kept = enabled \cap {p} /\ r.was = running[p]
    <3>2. /\ running[p] \in InstanceType /\ running[p].inst \in Nat
          /\ enabled \cap {p} \in SUBSET Plugins /\ cfg[p] \in Values \cup {"none"}
      BY <1>1 DEF Inv, Types, InstanceType
    <3>3. task' = [task EXCEPT ![t] =
            Remembering(task[t], pc, running[p].inst, running[p], enabled \cap {p}, cfg[p])]
      BY <2>1, ZenonT(60) DEF Remembering
    <3>4. task[t] \in TaskType /\ pc \in Critical
      BY DEF Inv, Types, Critical
    <3> DEFINE q == Remembering(task[t], pc, running[p].inst, running[p], enabled \cap {p}, cfg[p])
    <3>5. /\ q \in TaskType /\ q.jobs = task[t].jobs /\ q.pc = pc
          /\ q.kept = enabled \cap {p} /\ q.was = running[p]
      BY <3>2, <3>4, RememberType
    <3>6. task' = [task EXCEPT ![t] = q]
      BY <3>3
    <3> HIDE DEF q
    <3> QED BY <3>5, <3>6
  <2>3. Shape(t) /\ Goes(t) /\ task'[t] = r
    BY <1>1, <2>1, <2>2, Going DEF Critical
  <2>4. Plug(t)' = p /\ Cur(t)' = Cur(t)
    BY <2>3 DEF Goes, Plug, Cur
  <2>5. running[p] # NoInstance => p \in enabled
    BY <1>1 DEF Inv, LoadedIsEnabled, Loaded
  <2>6. CASE pc = "rollback"
    <3>1. RemovedBy(t)' /\ RememberedBy(t)'
      BY <2>1, <2>2, <2>3, <2>4, <2>5, <2>6 DEF RemovedBy, RememberedBy
    <3>2. LoadedIsEnabled'
      BY <1>2, <2>1, <2>6 DEF Inv, LoadedIsEnabled, Loaded
    <3> QED BY <1>1, <1>2, <2>1, <2>3, <2>6, <3>1, <3>2, Finish DEF Inv, Types
  <2>7. CASE pc = "teardown"
    <3>1. RemovedBy(t)' /\ RememberedBy(t)'
      BY <1>1, <2>1, <2>2, <2>3, <2>4, <2>5, <2>7, Unloading DEF RemovedBy, RememberedBy, Loaded
    <3>2. LoadedIsEnabled'
      BY <1>1, <1>2, <2>1, <2>7, Unloading DEF Inv, LoadedIsEnabled, Loaded
    <3> QED BY <1>1, <1>2, <2>1, <2>3, <2>7, <3>1, <3>2, Unloading, Finish DEF Inv, Types
  <2> QED BY <2>6, <2>7
<1> QED BY <1>3, <1>4 DEF EnterConfigure

LEMMA StartEnableStep == ASSUME Inv, NEW t \in Tasks, StartEnable(t) PROVE Inv'
<1>1. InLock(t) /\ task[t].pc = "enable" /\ task[t].pc \in Critical
  BY CriticalInLock DEF StartEnable, Critical
<1>2. UNCHANGED <<running, order, enabled, cfg>>
  BY DEF StartEnable, instances, settings
<1>3. CASE EnableReturns(t, TRUE) \/ EnableReturns(t, FALSE)
  BY <1>1, <1>2, <1>3, Returning, Quiet
<1>4. CASE Goto(t, "deps") /\ UNCHANGED locks
  <2>1. Shape(t) /\ Goes(t) /\ task'[t].pc = "deps" /\ task'[t].kept = task[t].kept
    BY <1>1, <1>4, Moving DEF Critical
  <2> QED BY <1>1, <1>2, <2>1, Quiet
<1> QED BY <1>3, <1>4 DEF StartEnable

LEMMA ImportStep == ASSUME Inv, NEW t \in Tasks, Import(t) PROVE Inv'
<1>1. InLock(t) /\ task[t].pc = "deps" /\ task[t].pc \in Critical
  BY CriticalInLock DEF Import, Critical
<1>2. UNCHANGED <<running, order, enabled, cfg>>
  BY DEF Import, settings
<1>3. CASE EnableReturns(t, FALSE)
  BY <1>1, <1>2, <1>3, Returning, Quiet
<1>4. CASE /\ \E n \in 1..Accounts, i \in Unused(t) :
                task' = [task EXCEPT ![t].pc = "setup", ![t].inst = i, ![t].left = n - 1]
           /\ UNCHANGED locks
  <2>1. PICK n \in 1..Accounts, i \in Unused(t) :
          task' = [task EXCEPT ![t] = SettingUp(task[t], i, n - 1)]
    BY <1>4, ZenonT(60) DEF SettingUp
  <2>2. n - 1 \in Nat /\ i \in Nat
    BY LifecycleAssumption DEF Unused
  <2>3. PICK r \in TaskType : /\ task' = [task EXCEPT ![t] = r] /\ r.jobs = task[t].jobs
                             /\ r.pc = "setup" /\ r.kept = task[t].kept
    <3>1. task[t] \in TaskType
      BY DEF Inv, Types
    <3> QED BY <2>1, <2>2, <3>1, SetupType
  <2>4. Shape(t) /\ Goes(t) /\ task'[t] = r
    BY <1>1, <1>4, <2>3, Going DEF Critical
  <2> QED BY <1>1, <1>2, <2>3, <2>4, Quiet
<1> QED BY <1>3, <1>4 DEF Import

LEMMA SetupFailsStep == ASSUME Inv, NEW t \in Tasks, SetupFails(t) PROVE Inv'
<1>1. InLock(t) /\ task[t].pc = "setup" /\ task[t].pc \in Critical
  BY CriticalInLock DEF SetupFails, Critical
<1>2. UNCHANGED <<running, order, enabled, cfg>> /\ UNCHANGED locks /\ Goto(t, "unwind")
  BY DEF SetupFails, instances, settings
<1>3. Shape(t) /\ Goes(t) /\ task'[t].pc = "unwind" /\ task'[t].kept = task[t].kept
  BY <1>1, <1>2, Moving DEF Critical
<1> QED BY <1>1, <1>2, <1>3, Quiet

LEMMA LeftType == ASSUME NEW r \in TaskType, r.left > 0
                  PROVE  LET q == [r EXCEPT !.left = @ - 1] IN
                         q \in TaskType /\ q.jobs = r.jobs /\ q.pc = r.pc /\ q.kept = r.kept
BY DEF TaskType

LEMMA SetupReturnsStep == ASSUME Inv, NEW t \in Tasks, SetupReturns(t) PROVE Inv'
<1> DEFINE p == Plug(t)
<1>1. InLock(t) /\ task[t].pc = "setup" /\ task[t].pc \in Critical /\ p \in Plugins
  BY CriticalInLock DEF SetupReturns, Critical, InLock
<1>2. CASE /\ task[t].left > 0
           /\ task' = [task EXCEPT ![t].left = @ - 1]
           /\ UNCHANGED <<running, order, settings, locks>>
  <2> DEFINE r == [task[t] EXCEPT !.left = @ - 1]
  <2>1. task[t] \in TaskType
    BY DEF Inv, Types
  <2>2. r \in TaskType /\ r.jobs = task[t].jobs /\ r.pc = "setup" /\ r.kept = task[t].kept
    BY <1>1, <1>2, <2>1, LeftType
  <2>3. task' = [task EXCEPT ![t] = r]
    BY <1>2
  <2> HIDE DEF r
  <2>4. Shape(t) /\ Goes(t) /\ task'[t] = r
    BY <1>1, <1>2, <2>2, <2>3, Going DEF Critical
  <2> QED BY <1>1, <1>2, <2>2, <2>4, Quiet DEF settings
<1>3. CASE /\ running' = [running EXCEPT ![p] = [inst |-> task[t].inst, cfg |-> cfg[p]]]
           /\ order' = Append(order, p)
           /\ enabled' = EnabledWith(p)
           /\ EnableReturns(t, TRUE)
           /\ UNCHANGED cfg
  <2>1. [inst |-> task[t].inst, cfg |-> cfg[p]] \in InstanceType
    BY <1>1 DEF Inv, Types, TaskType, InstanceType
  <2>2. /\ running' \in [Plugins -> InstanceType] /\ order' \in Seq(Plugins)
        /\ enabled' = enabled \cup {p} /\ enabled' \in SUBSET Plugins
        /\ cfg' \in [Plugins -> Values \cup {"none"}]
        /\ \A q \in Plugins \ {p} : running'[q] = running[q]
    BY <1>1, <1>3, <2>1 DEF Inv, Types, EnabledWith
  <2>3. /\ Shape(t)
        /\ \/ Left(t)
           \/ /\ Goes(t)
              /\ task'[t].pc \notin {"teardown", "disabled"}
              /\ task'[t].kept = task[t].kept
    BY <1>1, <1>3, Returning
  <2>4. Removed' /\ Remembered'
    BY <1>1, <2>2, <2>3, Settled
  <2>5. LoadedIsEnabled'
    BY <2>2 DEF Inv, LoadedIsEnabled, Loaded
  <2> QED BY <1>1, <2>2, <2>3, <2>4, <2>5, Finish DEF Removed, Remembered
<1>4. CASE Goto(t, "unwind") /\ UNCHANGED <<instances, enabled, cfg, locks>>
  <2>1. Shape(t) /\ Goes(t) /\ task'[t].pc = "unwind" /\ task'[t].kept = task[t].kept
    BY <1>1, <1>4, Moving DEF Critical
  <2> QED BY <1>1, <1>4, <2>1, Quiet DEF instances
<1> QED BY <1>2, <1>3, <1>4 DEF SetupReturns

LEMMA Same ==
    ASSUME Inv, UNCHANGED <<task, running, order, enabled, cfg, holder>>
    PROVE  Inv'
BY DEF Inv, Types, Locking, Removed, RemovedBy, Remembered, RememberedBy, LoadedIsEnabled,
       Loaded, Plug, Cur

LEMMA UnwindStep == ASSUME Inv, NEW t \in Tasks, Unwind(t) PROVE Inv'
<1>1. InLock(t) /\ task[t].pc = "unwind" /\ task[t].pc \in Critical
  BY CriticalInLock DEF Unwind, Critical
<1>2. UNCHANGED <<running, order, enabled, cfg>>
  BY DEF Unwind, settings
<1>3. CASE UNCHANGED <<task, locks>>
  BY <1>2, <1>3, Same DEF locks
<1>4. CASE EnableCancelled(t) \/ EnableReturns(t, FALSE)
  BY <1>1, <1>2, <1>4, Returning, Quiet
<1> QED BY <1>3, <1>4 DEF Unwind

LEMMA TeardownStep == ASSUME Inv, NEW t \in Tasks, Teardown(t) PROVE Inv'
<1>1. InLock(t) /\ task[t].pc = "teardown" /\ task[t].pc \in Critical
  BY CriticalInLock DEF Teardown, Critical
<1>2. UNCHANGED <<running, order, enabled, cfg, locks>>
  BY DEF Teardown, settings
<1>3. CASE UNCHANGED task
  BY <1>2, <1>3, Same DEF locks
<1>4. CASE Goto(t, "disabled")
  <2>1. Shape(t) /\ Goes(t) /\ task'[t].pc = "disabled" /\ task'[t].kept = task[t].kept
    BY <1>1, <1>2, <1>4, Moving DEF Critical
  <2>2. RemovedBy(t) /\ RememberedBy(t)
    BY DEF Inv, Removed, Remembered
  <2>3. RemovedBy(t)' /\ RememberedBy(t)'
    BY <1>1, <1>2, <2>1, <2>2 DEF RemovedBy, RememberedBy, Goes, Plug, Cur
  <2>4. LoadedIsEnabled'
    BY <1>2 DEF Inv, LoadedIsEnabled, Loaded
  <2> QED BY <1>1, <1>2, <2>1, <2>3, <2>4, Finish DEF Inv, Types
<1> QED BY <1>3, <1>4 DEF Teardown

LEMMA DisabledStep == ASSUME Inv, NEW t \in Tasks, Disabled(t) PROVE Inv'
<1> DEFINE p == Plug(t)
<1>1. InLock(t) /\ task[t].pc = "disabled" /\ task[t].pc \in Critical /\ p \in Plugins
  BY CriticalInLock DEF Disabled, Critical, InLock
<1>2. UNCHANGED <<running, order, cfg>>
  BY DEF Disabled, instances
<1>3. running[p] = NoInstance /\ RememberedBy(t)
  BY <1>1 DEF Inv, Removed, RemovedBy, Remembered
<1>4. CASE Leave(t, TRUE) \/ Leave(t, FALSE)
  <2>1. enabled' \in SUBSET Plugins /\ enabled \ {p} \subseteq enabled'
    BY <1>1 DEF Disabled, Inv, Types
  <2>2. Shape(t) /\ Left(t)
    BY <1>1, <1>4, Leaving
  <2>3. Removed' /\ Remembered'
    BY <1>1, <1>2, <2>2, Settled
  <2>4. LoadedIsEnabled'
    BY <1>2, <1>3, <2>1 DEF Inv, LoadedIsEnabled, Loaded
  <2> QED BY <1>1, <1>2, <2>1, <2>2, <2>3, <2>4, Finish DEF Inv, Types, Removed, Remembered
<1>5. CASE /\ \E pc \in {"enable", "rollback", "revert"} :
                /\ Goto(t, pc)
                /\ pc \in {"rollback", "revert"} => Cur(t).do = "configure"
           /\ enabled' \in {enabled, enabled \cup {p}}
           /\ UNCHANGED locks
  <2>1. PICK pc \in {"enable", "rollback", "revert"} :
          Goto(t, pc) /\ (pc \in {"rollback", "revert"} => Cur(t).do = "configure")
    BY <1>5
  <2>2. /\ Shape(t) /\ Goes(t)
        /\ task'[t].pc \notin {"teardown", "disabled"} /\ task'[t].kept = task[t].kept
    BY <1>1, <1>5, <2>1, Moving DEF Critical
  <2>3. Removed' /\ Remembered'
    BY <1>1, <1>2, <2>2, Settled
  <2>4. LoadedIsEnabled' /\ enabled' \in SUBSET Plugins
    BY <1>1, <1>2, <1>5 DEF Inv, LoadedIsEnabled, Loaded, Types
  <2> QED BY <1>1, <1>2, <2>2, <2>3, <2>4, Finish DEF Inv, Types, Removed, Remembered
<1>6. \/ Leave(t, Cancelled(t)) \/ Leave(t, TRUE)
      \/ /\ \/ Goto(t, "enable")
            \/ Goto(t, "rollback") /\ Cur(t).do = "configure"
            \/ Goto(t, "revert") /\ Cur(t).do = "configure"
         /\ enabled' \in {enabled, enabled \cup {p}}
         /\ UNCHANGED locks
  BY DEF Disabled, Saving
<1> QED BY <1>4, <1>5, <1>6 DEF Cancelled

LEMMA ConfirmStep == ASSUME Inv, NEW t \in Tasks, Confirm(t) PROVE Inv'
<1>1. InLock(t) /\ task[t].pc = "confirm" /\ task[t].pc \in Critical /\ Cur(t).do = "configure"
  BY CriticalInLock DEF Confirm, Critical, Inv, Locking
<1>2. UNCHANGED <<running, order, enabled, cfg>>
  BY DEF Confirm, instances, settings
<1>3. CASE Leave(t, FALSE)
  BY <1>1, <1>2, <1>3, Leaving, Quiet
<1>4. CASE Goto(t, "rollback") /\ UNCHANGED locks
  <2>1. Shape(t) /\ Goes(t) /\ task'[t].pc = "rollback" /\ task'[t].kept = task[t].kept
    BY <1>1, <1>4, Moving DEF Critical
  <2> QED BY <1>1, <1>2, <2>1, Quiet
<1> QED BY <1>3, <1>4 DEF Confirm

(* The task of a save that is being undone. *)
Undoing(r, i, pc) == [r EXCEPT !.phase = "undo", !.inst = i, !.pc = pc]

LEMMA UndoType ==
    ASSUME NEW r \in TaskType, NEW i \in Nat, NEW pc \in Critical
    PROVE  /\ Undoing(r, i, pc) \in TaskType
           /\ Undoing(r, i, pc).jobs = r.jobs
           /\ Undoing(r, i, pc).pc = pc
           /\ Undoing(r, i, pc).kept = r.kept
           /\ Undoing(r, i, pc).was = r.was
<1>1. Undoing(r, i, pc) \in TaskType
  BY DEF Undoing, TaskType
<1>2. Undoing(r, i, pc).jobs = r.jobs
  BY DEF Undoing, TaskType
<1>3. Undoing(r, i, pc).pc = pc
  BY DEF Undoing, TaskType
<1>4. Undoing(r, i, pc).kept = r.kept
  BY DEF Undoing, TaskType
<1>5. Undoing(r, i, pc).was = r.was
  BY DEF Undoing, TaskType
<1> QED BY <1>1, <1>2, <1>3, <1>4, <1>5

LEMMA RollbackStep == ASSUME Inv, NEW t \in Tasks, Rollback(t) PROVE Inv'
<1> DEFINE p == Plug(t)
<1>1. /\ InLock(t) /\ task[t].pc = "rollback" /\ task[t].pc \in Critical
      /\ Cur(t).do = "configure" /\ p \in Plugins /\ task[t] \in TaskType
  BY CriticalInLock DEF Rollback, Critical, Inv, Locking, InLock, Types
<1>2. UNCHANGED <<enabled, cfg>> /\ UNCHANGED locks
  BY DEF Rollback, settings
<1>3. PICK pc \in {"teardown", "revert"} :
        /\ task' = [task EXCEPT ![t] = Undoing(task[t], running[p].inst, pc)]
        /\ pc = "teardown" => p \in Loaded /\ Unload(p)
        /\ pc = "revert" => UNCHANGED <<running, order>>
  <2> DEFINE new == p \in Loaded /\ running[p].inst # task[t].was.inst
  <2>1. CASE new
    <3>1. Unload(p)
      BY <2>1 DEF Rollback
    <3>2. task' = [task EXCEPT ![t] = Undoing(task[t], running[p].inst, "teardown")]
      BY <2>1, ZenonT(60) DEF Rollback, Undoing
    <3> QED BY <2>1, <3>1, <3>2
  <2>2. CASE ~new
    <3>1. UNCHANGED <<running, order>>
      BY <2>2 DEF Rollback
    <3>2. task' = [task EXCEPT ![t] = Undoing(task[t], running[p].inst, "revert")]
      BY <2>2, ZenonT(60) DEF Rollback, Undoing
    <3> QED BY <3>1, <3>2
  <2> QED BY <2>1, <2>2
<1> DEFINE r == Undoing(task[t], running[p].inst, pc)
<1>4. /\ r \in TaskType /\ r.jobs = task[t].jobs /\ r.pc = pc
      /\ r.kept = task[t].kept /\ r.was = task[t].was
  <2>1. running[p].inst \in Nat /\ pc \in Critical
    BY <1>1 DEF Inv, Types, InstanceType, Critical
  <2> QED BY <1>1, <2>1, UndoType
<1>5. task' = [task EXCEPT ![t] = r]
  BY <1>3
<1> HIDE DEF r
<1>6. Shape(t) /\ Goes(t) /\ task'[t] = r
  BY <1>1, <1>2, <1>4, <1>5, Going DEF Critical
<1>7. Plug(t)' = p /\ Cur(t)' = Cur(t)
  BY <1>6 DEF Goes, Plug, Cur
<1>8. p \in task[t].kept \/ (task[t].was = NoInstance /\ running[p] = NoInstance)
  BY <1>1 DEF Inv, Remembered, RememberedBy
<1>9. CASE pc = "teardown"
  <2>1. RemovedBy(t)' /\ RememberedBy(t)'
    BY <1>1, <1>3, <1>4, <1>6, <1>7, <1>8, <1>9, Unloading DEF RemovedBy, RememberedBy, Loaded
  <2>2. LoadedIsEnabled'
    BY <1>1, <1>2, <1>3, <1>9, Unloading DEF Inv, LoadedIsEnabled, Loaded
  <2> QED BY <1>1, <1>2, <1>3, <1>6, <1>9, <2>1, <2>2, Unloading, Finish DEF Inv, Types
<1>10. CASE pc = "revert"
  <2>1. RemovedBy(t)' /\ RememberedBy(t)'
    BY <1>1, <1>3, <1>4, <1>6, <1>7, <1>8, <1>10 DEF RemovedBy, RememberedBy
  <2>2. LoadedIsEnabled'
    BY <1>2, <1>3, <1>10 DEF Inv, LoadedIsEnabled, Loaded
  <2> QED BY <1>1, <1>2, <1>3, <1>6, <1>10, <2>1, <2>2, Finish DEF Inv, Types
<1> QED BY <1>9, <1>10

LEMMA RevertStep == ASSUME Inv, NEW t \in Tasks, Revert(t) PROVE Inv'
<1> DEFINE p == Plug(t)
<1>1. /\ InLock(t) /\ task[t].pc = "revert" /\ task[t].pc \in Critical
      /\ Cur(t).do = "configure" /\ p \in Plugins /\ task[t] \in TaskType
  BY CriticalInLock DEF Revert, Critical, Inv, Locking, InLock, Types
<1>2. /\ UNCHANGED <<running, order>>
      /\ enabled' = (enabled \ {p}) \cup task[t].kept /\ enabled' \in SUBSET Plugins
      /\ cfg' \in [Plugins -> Values \cup {"none"}]
  BY <1>1 DEF Revert, Reverted, instances, Inv, Types, TaskType
<1>3. p \in task[t].kept \/ (task[t].was = NoInstance /\ running[p] = NoInstance)
  BY <1>1 DEF Inv, Remembered, RememberedBy
<1>4. LoadedIsEnabled'
  BY <1>2, <1>3 DEF Inv, LoadedIsEnabled, Loaded
<1>5. CASE Leave(t, TRUE)
  <2>1. Shape(t) /\ Left(t)
    BY <1>1, <1>5, Leaving
  <2>2. RemovedBy(t)' /\ RememberedBy(t)'
    BY <2>1 DEF Left, RemovedBy, RememberedBy, Critical
  <2> QED BY <1>1, <1>2, <1>4, <2>1, <2>2, Finish DEF Inv, Types
<1>6. CASE /\ task' = [task EXCEPT ![t].phase = "recover", ![t].pc = "enable"]
           /\ task[t].was # NoInstance
           /\ UNCHANGED locks
  <2> DEFINE r == [task[t] EXCEPT !.phase = "recover", !.pc = "enable"]
  <2>1. r \in TaskType /\ r.jobs = task[t].jobs /\ r.pc = "enable" /\ r.kept = task[t].kept
    BY <1>1 DEF TaskType, Critical
  <2>2. task' = [task EXCEPT ![t] = r]
    BY <1>6
  <2> HIDE DEF r
  <2>3. Shape(t) /\ Goes(t) /\ task'[t] = r
    BY <1>1, <1>6, <2>1, <2>2, Going DEF Critical
  <2>4. RemovedBy(t)' /\ RememberedBy(t)'
    BY <1>3, <1>6, <2>1, <2>3 DEF Goes, RemovedBy, RememberedBy, Plug, Cur
  <2> QED BY <1>1, <1>2, <1>4, <2>3, <2>4, Finish DEF Inv, Types
<1> QED BY <1>5, <1>6 DEF Revert

LEMMA CancelStep == ASSUME Inv, NEW t \in Tasks, Cancel(t) PROVE Inv'
<1> DEFINE p == Plug(t)
<1>1. UNCHANGED <<running, order, enabled, cfg>> /\ UNCHANGED settings
  BY DEF Cancel, settings
<1>2. CASE /\ task[t].pc = "lock" /\ task' = [task EXCEPT ![t] = Idle]
           /\ UNCHANGED <<open, draining, residue, leaked>>
           /\ holder[p] = t /\ Freed(p)
  <2>1. InLock(t)
    BY <1>2 DEF Inv, Locking, InLock
  <2>2. Leave(t, TRUE)
    BY <1>2 DEF Leave
  <2> QED BY <1>1, <2>1, <2>2, Leaving, Quiet
<1>3. CASE /\ task[t].pc = "lock" /\ task' = [task EXCEPT ![t] = Idle]
           /\ UNCHANGED <<open, draining, residue, leaked>>
           /\ UNCHANGED holder
  <2>1. Idle.pc = "idle" /\ task[t].pc \notin Critical
    BY <1>3 DEF Idle, Between, Critical
  <2> QED BY <1>1, <1>3, <2>1, IdleType, Joining DEF Inv, Types, instances
<1>4. CASE task[t].pc \in {"deps", "unwind"} /\ EnableCancelled(t)
  <2>1. InLock(t) /\ task[t].pc \in Critical
    BY <1>4, CriticalInLock DEF Critical
  <2> QED BY <1>1, <1>4, <2>1, Returning, Quiet
<1>5. CASE /\ task[t].pc \in {"setup", "teardown"}
           /\ task' = [task EXCEPT ![t].raise = "CancelledError",
                                   ![t].pc = IF @ = "setup" THEN "unwind" ELSE @]
           /\ UNCHANGED locks
  <2>0. InLock(t) /\ task[t].pc \in Critical /\ task[t] \in TaskType
    BY <1>5, CriticalInLock DEF Critical, Inv, Types
  <2>1. PICK pc \in {"unwind", "teardown"} :
          /\ task' = [task EXCEPT ![t] = [task[t] EXCEPT !.raise = "CancelledError", !.pc = pc]]
          /\ pc = "teardown" => task[t].pc = "teardown"
          /\ pc = "unwind" => task[t].pc = "setup"
    BY <1>5
  <2> DEFINE r == [task[t] EXCEPT !.raise = "CancelledError", !.pc = pc]
  <2>2. r \in TaskType /\ r.jobs = task[t].jobs /\ r.pc = pc /\ r.kept = task[t].kept
    BY <2>0 DEF TaskType, Critical
  <2>3. task' = [task EXCEPT ![t] = r]
    BY <2>1
  <2> HIDE DEF r
  <2>4. Shape(t) /\ Goes(t) /\ task'[t] = r
    BY <1>5, <2>0, <2>2, <2>3, Going DEF Critical
  <2>5. CASE pc = "unwind"
    BY <1>1, <1>5, <2>0, <2>2, <2>4, <2>5, Quiet DEF Critical
  <2>6. CASE pc = "teardown"
    <3>1. RemovedBy(t) /\ RememberedBy(t)
      BY DEF Inv, Removed, Remembered
    <3>2. RemovedBy(t)' /\ RememberedBy(t)'
      BY <1>1, <2>0, <2>1, <2>2, <2>4, <2>6, <3>1 DEF RemovedBy, RememberedBy, Goes, Plug, Cur
    <3>3. LoadedIsEnabled'
      BY <1>1 DEF Inv, LoadedIsEnabled, Loaded
    <3> QED BY <1>1, <2>0, <2>4, <3>2, <3>3, Finish DEF Inv, Types
  <2> QED BY <2>5, <2>6
<1> QED BY <1>2, <1>3, <1>4, <1>5 DEF Cancel

LEMMA InitInv == Init => Inv
<1> SUFFICES ASSUME Init PROVE Inv
  OBVIOUS
<1>1. NoInstance \in InstanceType /\ <<>> \in Seq(JobType) /\ <<>> \in Seq(Plugins)
  BY DEF NoInstance, InstanceType
<1>2. <<Job("scan", "none", "none")>> \in Seq(JobType)
  <2>1. Job("scan", "none", "none") \in JobType
    BY DEF Job, JobType, Kinds
  <2> QED BY <2>1
<1>3. Between("next", <<Job("scan", "none", "none")>>, {}) \in TaskType
  BY <1>1, <1>2 DEF Between, TaskType, Critical
<1>4. Types
  BY <1>1, <1>3, IdleType DEF Init, Types
<1>5. \A t \in Tasks : task[t].pc \in {"idle", "next"}
  BY DEF Init, Idle, Between
<1>6. Locking /\ Removed /\ Remembered
  BY <1>5 DEF Locking, Removed, RemovedBy, Remembered, RememberedBy, Critical
<1>7. LoadedIsEnabled
  BY DEF Init, LoadedIsEnabled, Loaded
<1> QED BY <1>4, <1>6, <1>7 DEF Inv

LEMMA NextInv == Inv /\ [Next]_vars => Inv'
<1> SUFFICES ASSUME Inv, [Next]_vars PROVE Inv'
  OBVIOUS
<1>1. ASSUME NEW t \in Tasks, Step(t) PROVE Inv'
  BY <1>1, OutsideSteps, EnterEnableStep, EnterDisableStep, EnterConfigureStep, StartEnableStep,
     ImportStep, SetupFailsStep, SetupReturnsStep, UnwindStep, TeardownStep, DisabledStep,
     ConfirmStep, RollbackStep, RevertStep DEF Step
<1>2. ASSUME NEW p \in Plugins, Drained(p) PROVE Inv'
  BY <1>2, Same DEF Drained, settings, locks
<1>3. CASE UNCHANGED vars
  BY <1>3, Same DEF vars
<1> QED BY <1>1, <1>2, <1>3, OutsideSteps, CancelStep DEF Next

LEMMA Invariance == Spec => []Inv
BY InitInv, NextInv, PTL DEF Spec

(* For every number of plugins, tasks and accounts: a plugin whose handlers *)
(* run is one the user enabled, so it comes back after a restart - through  *)
(* every interleaving of requests, failed saves, cancellations and undone   *)
(* configuration changes.                                                   *)
THEOREM LoadedPluginsAreEnabled == Spec => []LoadedIsEnabled
<1>1. Inv => LoadedIsEnabled
  BY DEF Inv
<1> QED BY <1>1, Invariance, PTL

(* Two requests never work on one plugin at the same time: setting up,      *)
(* tearing down, saving or undoing, whichever requests are cancelled while  *)
(* they wait for the lifecycle lock or hold it.                             *)
THEOREM OneRequestPerPlugin == Spec => []Mutex
BY Exclusive, Invariance, PTL

-----------------------------------------------------------------------------
(* The tables and the configuration: what the holder of a lock knows of its *)
(* plugin at each place of its request, and what it leaves behind.          *)

(* What the next request to take the lifecycle lock of p finds: a loaded    *)
(* plugin owns every context, an unloaded one has none left.                *)
Tidy(p) ==
    p \notin leaked =>
        /\ p \in Loaded => \A c \in open[p] \cup draining[p] : c[1] = running[p].inst
        /\ p \notin Loaded => /\ open[p] = {} /\ residue[p] = {}
                              /\ \A c, d \in draining[p] : c[1] = d[1]
AtRest(p) == Tidy(p) /\ (p \in Loaded => running[p].cfg = cfg[p])

(* Between the first context of an instance and the table, or between the   *)
(* table and the last context, all that is left is of the task's instance.  *)
Bare(t) ==
    /\ Plug(t) \notin Loaded
    /\ Plug(t) \notin leaked =>
         \A c \in open[Plug(t)] \cup draining[Plug(t)] : c[1] = task[t].inst

(* What a request knows at each place inside the lock. *)
Within(t) ==
    LET p == Plug(t)  w == task[t]  do == Cur(t).do IN
    /\ w.pc = "enable" => AtRest(p) /\ (do \in {"reload", "configure"} => p \notin Loaded)
    /\ w.pc = "deps" => AtRest(p) /\ p \notin Loaded /\ draining[p] = {}
    /\ w.pc = "setup" =>
         /\ Bare(t) /\ (p \notin leaked => draining[p] = {})
         /\ w.inst \in Instances /\ w.inst # w.was.inst
         /\ IsFiniteSet(Mine(t)) /\ Cardinality(Mine(t)) + w.left <= Accounts
    /\ w.pc \in {"unwind", "teardown"} => Bare(t)
    /\ w.pc = "disabled" => AtRest(p) /\ p \notin Loaded
    /\ w.pc = "confirm" => AtRest(p) /\ running[p].inst # w.was.inst
    /\ w.pc = "rollback" =>
         Tidy(p) /\ ((p \in Loaded /\ running[p].inst = w.was.inst) => running[p].cfg = w.prev)
    /\ w.pc = "revert" => Tidy(p) /\ (p \in Loaded => running[p].cfg = w.prev)
    /\ do = "configure" => w.prev \in Values /\ w.kept \subseteq {p}
    /\ (Saving(t) /\ w.pc \in {"teardown", "disabled"}) => p \in enabled
    /\ do = "restore" => p \in enabled

Working == \A t \in Tasks : task[t].pc \in Critical => Within(t)

(* A plugin no request is working on is at rest. *)
Resting ==
    \A p \in Plugins :
        (\A t \in Tasks : task[t].pc \in Critical => Plug(t) # p) => AtRest(p)

(* A request at a lock has it or is in its queue. *)
Waiting ==
    \A t \in Tasks :
        task[t].pc = "lock" => holder[Plug(t)] = t \/ t \in ToSet(waiters[Plug(t)])

Rows == TypeOK /\ Working /\ Resting /\ Waiting /\ DiskIsCurrent

(* A step of t changes the row of its own plugin only. *)
Frame(p) ==
    /\ \A q \in Plugins \ {p} :
         /\ running'[q] = running[q] /\ open'[q] = open[q] /\ draining'[q] = draining[q]
         /\ residue'[q] = residue[q] /\ cfg'[q] = cfg[q]
         /\ q \in enabled' <=> q \in enabled
    /\ leaked \subseteq leaked' /\ leaked' \subseteq leaked \cup {p}

(* The types of the tables. *)
RowTypes ==
    /\ ToSet(order) = Loaded /\ IsInjective(order)
    /\ running \in [Plugins -> [inst : Instances \cup {0}, cfg : Values \cup {"none"}]]
    /\ open \in [Plugins -> SUBSET (Instances \X (1..Accounts))]
    /\ draining \in [Plugins -> SUBSET (Instances \X (1..Accounts))]
    /\ residue \in [Plugins -> SUBSET {"module", "policy"}]
    /\ enabled \subseteq Plugins
    /\ cfg \in [Plugins -> Values]
    /\ disk \in [enabled : SUBSET Plugins, cfg : [Plugins -> Values]]
    /\ stale \in BOOLEAN /\ leaked \subseteq Plugins
LockTypes == holder \in [Plugins -> Tasks \cup {NoTask}] /\ waiters \in [Plugins -> Seq(Tasks)]

LEMMA RowTyped == Rows => RowTypes /\ LockTypes
BY DEF Rows, TypeOK, RowTypes, LockTypes

LEMMA AllTyped == RowTypes /\ LockTypes /\ Types => TypeOK
BY DEF TypeOK, RowTypes, LockTypes, Types, TaskType

(* The table of another plugin is what it was. *)
LEMMA OtherRows ==
    ASSUME NEW p \in Plugins, Frame(p), NEW q \in Plugins \ {p}
    PROVE  /\ Tidy(q)' <=> Tidy(q)
           /\ AtRest(q)' <=> AtRest(q)
           /\ (q \in Loaded)' <=> q \in Loaded
           /\ (q \in leaked)' <=> q \in leaked
<1>1. /\ running'[q] = running[q] /\ open'[q] = open[q] /\ draining'[q] = draining[q]
      /\ residue'[q] = residue[q] /\ cfg'[q] = cfg[q]
      /\ (q \in leaked)' <=> q \in leaked
  BY DEF Frame
<1>2. (q \in Loaded)' <=> q \in Loaded
  BY <1>1 DEF Loaded
<1>3. Tidy(q)' <=> Tidy(q)
  BY <1>1, <1>2 DEF Tidy
<1> QED BY <1>1, <1>2, <1>3 DEF AtRest

(* So what other requests know of their plugins stays true. *)
LEMMA OthersWork ==
    ASSUME Inv, Rows, NEW t \in Tasks, InLock(t), Shape(t), Frame(Plug(t)),
           NEW u \in Tasks \ {t}, task'[u].pc \in Critical
    PROVE  Within(u)'
<1> DEFINE q == Plug(u)
<1>1. task'[u] = task[u] /\ Plug(u)' = Plug(u) /\ Cur(u)' = Cur(u)
  BY DEF Shape, Plug, Cur
<1>2. q \in Plugins \ {Plug(t)} /\ Plug(t) \in Plugins /\ Within(u)
  BY <1>1 DEF Inv, Locking, InLock, Rows, Working
<1>3. /\ Tidy(q)' <=> Tidy(q)
      /\ AtRest(q)' <=> AtRest(q)
      /\ (q \in Loaded)' <=> q \in Loaded
      /\ (q \in leaked)' <=> q \in leaked
  <2>1. PICK r \in Plugins \ {Plug(t)} : r = q
    BY <1>2
  <2>2. /\ Tidy(r)' <=> Tidy(r)
        /\ AtRest(r)' <=> AtRest(r)
        /\ (r \in Loaded)' <=> r \in Loaded
        /\ (r \in leaked)' <=> r \in leaked
    BY <1>2, <2>1, OtherRows
  <2> QED BY <1>1, <2>1, <2>2
<1>4. /\ running'[q] = running[q] /\ open'[q] = open[q] /\ draining'[q] = draining[q]
      /\ q \in enabled' <=> q \in enabled
  BY <1>2 DEF Frame
<1>5. Mine(u)' = Mine(u)
  BY <1>1, <1>4 DEF Mine
<1>6. Bare(u)' <=> Bare(u)
  BY <1>1, <1>3, <1>4 DEF Bare
<1>7. Saving(u)' <=> Saving(u)
  BY <1>1 DEF Saving
<1> HIDE DEF q
<1> QED BY <1>1, <1>2, <1>3, <1>4, <1>5, <1>6, <1>7 DEF Within, q

(* A step of the holder of a lock keeps the whole, when what it leaves      *)
(* behind is in order: its plugin at rest when it leaves, what Within says  *)
(* when it stays.                                                           *)
Passes(t) == \/ Left(t) /\ Freed(Plug(t))
             \/ Goes(t) /\ UNCHANGED locks

LEMMA LockRow ==
    ASSUME Inv, Rows, NEW t \in Tasks, InLock(t), Shape(t), Passes(t)
    PROVE  LockTypes' /\ Waiting'
<1> DEFINE p == Plug(t)
<1>1. p \in Plugins /\ holder[p] = t /\ LockTypes /\ waiters[p] \in Seq(Tasks)
  BY RowTyped DEF InLock, LockTypes
<1>2. ASSUME NEW u \in Tasks \ {t}
      PROVE  task'[u] = task[u] /\ Plug(u)' = Plug(u)
  BY DEF Shape, Plug, Cur
<1>3. \A u \in Tasks : task[u].pc = "lock" =>
        /\ holder[Plug(u)] = u \/ u \in ToSet(waiters[Plug(u)])
        /\ Plug(u) \in Plugins
  BY DEF Rows, Waiting, Inv, Locking
<1>4. CASE Goes(t) /\ UNCHANGED locks
  <2>1. task'[t].pc # "lock"
    BY <1>4 DEF Goes, Critical
  <2>2. holder' = holder /\ waiters' = waiters
    BY <1>4 DEF locks
  <2> QED BY <1>1, <1>2, <1>3, <2>1, <2>2 DEF LockTypes, Waiting
<1>5. CASE Left(t) /\ Freed(Plug(t))
  <2>1. task'[t].pc # "lock"
    BY <1>5 DEF Left
  <2>2. CASE waiters[p] = <<>>
    <3>1. holder' = [holder EXCEPT ![p] = NoTask] /\ waiters' = waiters
      BY <1>5, <2>2 DEF Freed
    <3>2. LockTypes'
      BY <1>1, <3>1 DEF LockTypes
    <3>3. ASSUME NEW u \in Tasks \ {t}, task[u].pc = "lock"
          PROVE  holder'[Plug(u)] = u \/ u \in ToSet(waiters'[Plug(u)])
      <4>1. Plug(u) = p => u \notin ToSet(waiters[Plug(u)])
        BY <2>2 DEF ToSet
      <4>2. holder[Plug(u)] = u => Plug(u) # p
        BY <1>1
      <4> QED BY <1>1, <1>3, <3>1, <3>3, <4>1, <4>2 DEF LockTypes
    <3> QED BY <1>2, <2>1, <3>2, <3>3 DEF Waiting
  <2>3. CASE waiters[p] # <<>>
    <3>1. /\ holder' = [holder EXCEPT ![p] = Head(waiters[p])]
          /\ waiters' = [waiters EXCEPT ![p] = Tail(@)]
      BY <1>5, <2>3 DEF Freed
    <3>2. Head(waiters[p]) \in Tasks /\ Tail(waiters[p]) \in Seq(Tasks)
      BY <1>1, <2>3
    <3>3. LockTypes'
      BY <1>1, <3>1, <3>2 DEF LockTypes
    <3>4. \A u : u \in ToSet(waiters[p]) => u = Head(waiters[p]) \/ u \in ToSet(Tail(waiters[p]))
      <4> SUFFICES ASSUME NEW i \in 1..Len(waiters[p]), i # 1
                   PROVE  waiters[p][i] \in ToSet(Tail(waiters[p]))
        BY <1>1 DEF ToSet
      <4>1. /\ i - 1 \in 1..Len(Tail(waiters[p]))
            /\ Tail(waiters[p])[i - 1] = waiters[p][i]
        BY <1>1, <2>3
      <4>2. DOMAIN Tail(waiters[p]) = 1..Len(Tail(waiters[p]))
        BY <3>2
      <4> QED BY <4>1, <4>2 DEF ToSet
    <3>5. ASSUME NEW u \in Tasks \ {t}, task[u].pc = "lock"
          PROVE  holder'[Plug(u)] = u \/ u \in ToSet(waiters'[Plug(u)])
      <4>1. CASE Plug(u) = p
        <5>1. u \in ToSet(waiters[p])
          BY <1>1, <1>3, <3>5, <4>1
        <5> QED BY <1>1, <3>1, <3>4, <4>1, <5>1 DEF LockTypes
      <4>2. CASE Plug(u) # p
        BY <1>1, <1>3, <3>1, <3>5, <4>2 DEF LockTypes
      <4> QED BY <4>1, <4>2
    <3> QED BY <1>2, <2>1, <3>3, <3>5 DEF Waiting
  <2> QED BY <2>2, <2>3
<1> QED BY <1>4, <1>5 DEF Passes

LEMMA Worked ==
    ASSUME Inv, Inv', Rows, NEW t \in Tasks, InLock(t), Shape(t), Passes(t),
           NEW p \in Plugins, p = Plug(t), Frame(p), RowTypes', DiskIsCurrent',
           Left(t) => AtRest(p)',
           Goes(t) => Within(t)'
    PROVE  Rows'
<1>1. \A u \in Tasks \ {t} : task'[u].pc \in Critical => Within(u)'
  BY OthersWork
<1>2. Left(t) \/ Goes(t)
  BY DEF Passes
<1>3. Working'
  BY <1>1, <1>2 DEF Working, Left, Critical
<1>4. Resting'
  <2> SUFFICES ASSUME NEW q \in Plugins,
                      \A u \in Tasks : task'[u].pc \in Critical => Plug(u)' # q
               PROVE  AtRest(q)'
    BY DEF Resting
  <2>1. CASE q = p
    <3>1. Goes(t) => Plug(t)' = p /\ task'[t].pc \in Critical
      BY DEF Goes, Plug, Cur
    <3> QED BY <1>2, <2>1, <3>1
  <2>2. CASE q # p
    <3>1. \A u \in Tasks : task[u].pc \in Critical => Plug(u) # q
      <4>1. \A u \in Tasks \ {t} : task'[u] = task[u] /\ Plug(u)' = Plug(u)
        BY DEF Shape, Plug, Cur
      <4> QED BY <2>2, <4>1
    <3>2. AtRest(q)
      BY <3>1 DEF Rows, Resting
    <3> QED BY <2>2, <3>2, OtherRows
  <2> QED BY <2>1, <2>2
<1>5. LockTypes' /\ Waiting'
  BY LockRow
<1>6. TypeOK'
  <2>1. (RowTypes /\ LockTypes /\ Types => TypeOK)'
    BY AllTyped, PTL
  <2> QED BY <1>5, <2>1 DEF Inv
<1> QED BY <1>3, <1>4, <1>5, <1>6 DEF Rows

(* Nobody works on a plugin whose lock has just been taken.                 *)
LEMMA Entry ==
    ASSUME Inv, Rows, NEW t \in Tasks, HasLock(t)
    PROVE  InLock(t) /\ AtRest(Plug(t)) /\ Cur(t) \in JobType
<1>1. InLock(t)
  BY HasLockInLock
<1>2. \A u \in Tasks : task[u].pc \in Critical => Plug(u) # Plug(t)
  <2>1. task[t].pc \notin Critical
    BY DEF HasLock, Critical
  <2> QED BY <1>1, <2>1 DEF Inv, Locking, InLock
<1> QED BY <1>1, <1>2 DEF InLock, Rows, Resting

(* What a request remembers besides its place.                              *)
Keeps(t) ==
    /\ task'[t].inst = task[t].inst /\ task'[t].left = task[t].left
    /\ task'[t].phase = task[t].phase
    /\ task'[t].was = task[t].was /\ task'[t].prev = task[t].prev
    /\ task'[t].kept = task[t].kept

LEMMA Leaves ==
    ASSUME Inv, NEW t \in Tasks, NEW raised, Leave(t, raised), InLock(t)
    PROVE  Shape(t) /\ Left(t) /\ Passes(t)
BY Leaving DEF Leave, Passes

LEMMA Moves ==
    ASSUME Inv, NEW t \in Tasks, InLock(t), UNCHANGED locks,
           NEW pc \in Critical, Goto(t, pc),
           pc \in {"confirm", "rollback", "revert"} => Cur(t).do = "configure"
    PROVE  Shape(t) /\ Goes(t) /\ Passes(t) /\ task'[t].pc = pc /\ Keeps(t)
<1>1. Shape(t) /\ Goes(t) /\ task'[t].pc = pc
  BY Moving
<1>2. task[t] \in TaskType /\ task'[t] = [task[t] EXCEPT !.pc = pc]
  BY DEF Goto, Inv, Types
<1> QED BY <1>1, <1>2 DEF Keeps, Passes, TaskType

LEMMA Returns ==
    ASSUME Inv, NEW t \in Tasks, InLock(t), task[t].pc \in Critical \ {"rollback", "revert"},
           NEW ok \in BOOLEAN, EnableReturns(t, ok) \/ (ok = FALSE /\ EnableCancelled(t))
    PROVE  /\ Shape(t) /\ Passes(t)
           /\ \/ Left(t)
              \/ /\ Goes(t) /\ Saving(t) /\ Keeps(t)
                 /\ ok => task'[t].pc = "confirm"
                 /\ ~ok => task'[t].pc = "rollback"
<1>1. CASE ~Saving(t)
  <2>1. Leave(t, Cancelled(t)) \/ Leave(t, TRUE)
    BY <1>1 DEF EnableReturns, EnableCancelled
  <2> QED BY <2>1, Leaves
<1>2. CASE Saving(t)
  <2>1. /\ Shape(t)
        /\ \/ Left(t)
           \/ Goes(t)
    BY Returning
  <2>2. task[t] \in TaskType /\ task \in [Tasks -> TaskType]
    BY DEF Inv, Types
  <2>3. UNCHANGED locks
    BY <1>2 DEF EnableReturns, EnableCancelled
  <2>4. CASE EnableReturns(t, ok)
    <3>1. PICK pc \in {"confirm", "rollback"} :
            /\ Goto(t, pc) /\ (ok => pc = "confirm") /\ (~ok => pc = "rollback")
      BY <1>2, <2>4 DEF EnableReturns
    <3>2. pc \in Critical /\ Cur(t).do = "configure"
      BY <1>2 DEF Critical, Saving
    <3> QED BY <1>2, <2>3, <3>1, <3>2, Moves
  <2>5. CASE ok = FALSE /\ EnableCancelled(t)
    <3> DEFINE r == [task[t] EXCEPT !.pc = "rollback", !.raise = "CancelledError"]
    <3>1. task' = [task EXCEPT ![t] = r]
      BY <1>2, <2>2, <2>5 DEF EnableCancelled
    <3>2. /\ r \in TaskType /\ r.pc = "rollback" /\ r.jobs = task[t].jobs
          /\ r.inst = task[t].inst /\ r.left = task[t].left /\ r.phase = task[t].phase
          /\ r.was = task[t].was /\ r.prev = task[t].prev /\ r.kept = task[t].kept
      BY <2>2 DEF TaskType, Critical
    <3> HIDE DEF r
    <3>3. task'[t] = r
      BY <2>2, <3>1
    <3>4. Goes(t) /\ Keeps(t)
      BY <3>2, <3>3 DEF Goes, Keeps, Critical
    <3> QED BY <1>2, <2>1, <2>3, <2>5, <3>2, <3>3, <3>4 DEF Passes
  <2> QED BY <2>4, <2>5
<1> QED BY <1>1, <1>2

LEMMA Staying == \A t \in Tasks : Goes(t) => Plug(t)' = Plug(t) /\ Cur(t)' = Cur(t)
BY DEF Goes, Plug, Cur

(* Steps that leave all tables and the settings alone. *)
LEMMA QuietRow ==
    ASSUME Rows, NEW p \in Plugins, UNCHANGED <<instances, settings>>
    PROVE  /\ Frame(p) /\ RowTypes' /\ DiskIsCurrent'
           /\ Tidy(p)' <=> Tidy(p)
           /\ AtRest(p)' <=> AtRest(p)
           /\ (p \in Loaded)' <=> p \in Loaded
<1>1. UNCHANGED <<running, order, open, draining, residue, leaked, enabled, cfg, disk, stale>>
  BY DEF instances, settings
<1>2. Loaded' = Loaded
  BY <1>1 DEF Loaded
<1>3. RowTypes'
  BY <1>1, <1>2, RowTyped DEF RowTypes
<1>4. DiskIsCurrent'
  BY <1>1 DEF Rows, DiskIsCurrent
<1>5. (Tidy(p)' <=> Tidy(p)) /\ (AtRest(p)' <=> AtRest(p))
  BY <1>1, <1>2 DEF Tidy, AtRest
<1> QED BY <1>1, <1>2, <1>3, <1>4, <1>5 DEF Frame

LEMMA EnterEnableRows == ASSUME Inv, Inv', Rows, NEW t \in Tasks, EnterEnable(t) PROVE Rows'
<1>1. PICK p \in Plugins :
        p = Plug(t) /\ InLock(t) /\ AtRest(p) /\ Cur(t).do \in {"enable", "restore"}
  BY Entry DEF EnterEnable, InLock
<1>2. UNCHANGED <<instances, settings>>
  BY DEF EnterEnable
<1>3. Frame(p) /\ RowTypes' /\ DiskIsCurrent' /\ (AtRest(p)' <=> AtRest(p))
  BY <1>1, <1>2, QuietRow
<1>4. CASE Goto(t, "enable") /\ UNCHANGED locks /\ (Cur(t).do = "restore" => Plug(t) \in enabled)
  <2>1. Shape(t) /\ Goes(t) /\ Passes(t) /\ task'[t].pc = "enable"
    BY <1>1, <1>4, Moves DEF Critical
  <2>2. Plug(t)' = p /\ Cur(t)' = Cur(t) /\ enabled' = enabled
    BY <1>1, <1>2, <2>1, Staying DEF settings
  <2>3. Within(t)'
    BY <1>1, <1>3, <1>4, <2>1, <2>2 DEF Within, Saving
  <2>4. ~Left(t)
    BY <2>1 DEF Left
  <2> QED BY <1>1, <1>3, <2>1, <2>3, <2>4, Worked
<1>5. CASE Leave(t, FALSE)
  <2>1. Shape(t) /\ Left(t) /\ Passes(t) /\ ~Goes(t)
    BY <1>1, <1>5, Leaves DEF Left, Goes, Critical
  <2> QED BY <1>1, <1>3, <2>1, Worked
<1> QED BY <1>4, <1>5 DEF EnterEnable, StillEnabled

(* Taking a plugin out of the table. *)
LEMMA UnloadRow ==
    ASSUME Inv, Rows, NEW p \in Plugins, Unload(p)
    PROVE  /\ ToSet(order') = Loaded' /\ IsInjective(order')
           /\ running' = [running EXCEPT ![p] = NoInstance]
           /\ running' \in [Plugins -> [inst : Instances \cup {0}, cfg : Values \cup {"none"}]]
           /\ Loaded' = Loaded \ {p}
<1>1. RowTypes
  BY RowTyped
<1>2. /\ running' = [running EXCEPT ![p] = NoInstance]
      /\ running' \in [Plugins -> [inst : Instances \cup {0}, cfg : Values \cup {"none"}]]
  BY <1>1 DEF Unload, RowTypes, NoInstance
<1>3. Loaded' = Loaded \ {p}
  BY <1>1, <1>2 DEF Loaded, RowTypes
<1>4. order \in Seq(Plugins) /\ order' = Without(order, p)
  BY DEF Unload, Inv, Types
<1> QED BY <1>1, <1>2, <1>3, <1>4, WithoutOne DEF RowTypes

LEMMA EnterDisableRows == ASSUME Inv, Inv', Rows, NEW t \in Tasks, EnterDisable(t) PROVE Rows'
<1>1. PICK p \in Plugins :
        p = Plug(t) /\ InLock(t) /\ AtRest(p) /\ Cur(t).do \in {"disable", "reload", "pause"}
  BY Entry DEF EnterDisable, InLock
<1>2. UNCHANGED <<open, draining, residue, leaked, enabled, cfg, disk, stale>> /\ UNCHANGED locks
  BY DEF EnterDisable, settings
<1>3. /\ ToSet(order') = Loaded' /\ IsInjective(order')
      /\ running' = [running EXCEPT ![p] = NoInstance]
      /\ running' \in [Plugins -> [inst : Instances \cup {0}, cfg : Values \cup {"none"}]]
      /\ Loaded' = Loaded \ {p}
  BY <1>1, UnloadRow DEF EnterDisable
<1>4. RowTypes' /\ DiskIsCurrent' /\ Frame(p)
  BY <1>1, <1>2, <1>3, RowTyped DEF RowTypes, DiskIsCurrent, Rows, Frame
<1> DEFINE pc == IF p \in Loaded THEN "teardown" ELSE "disabled"
           r == [task[t] EXCEPT !.inst = running[p].inst, !.pc = pc]
<1>5. /\ r \in TaskType /\ r.jobs = task[t].jobs /\ r.inst = running[p].inst
      /\ p \in Loaded => r.pc = "teardown"
      /\ p \notin Loaded => r.pc = "disabled"
  <2>1. running[p].inst \in Nat /\ task[t] \in TaskType
    BY <1>1 DEF Inv, Types, InstanceType
  <2>2. pc \in Critical /\ (p \in Loaded => pc = "teardown") /\ (p \notin Loaded => pc = "disabled")
    BY DEF Critical
  <2> HIDE DEF pc
  <2> QED BY <2>1, <2>2 DEF TaskType
<1>6. task' = [task EXCEPT ![t] = r]
  BY <1>1 DEF EnterDisable
<1> HIDE DEF r, pc
<1>7. r.pc \in Critical /\ r.pc \notin {"confirm", "rollback", "revert"}
  BY <1>5 DEF Critical
<1>8. Shape(t) /\ Goes(t) /\ task'[t] = r
  <2>1. r \in TaskType /\ r.jobs = task[t].jobs
    BY <1>5
  <2> QED BY <1>1, <1>2, <1>6, <1>7, <2>1, Going
<1>9. Plug(t)' = p /\ Cur(t)' = Cur(t) /\ ~Left(t) /\ Passes(t)
  BY <1>1, <1>2, <1>8, Staying DEF Left, Goes, Critical, Passes
<1>10. Within(t)'
  <2>1. CASE p \in Loaded
    <3>1. Bare(t)'
      BY <1>1, <1>2, <1>3, <1>5, <1>8, <1>9, <2>1 DEF Bare, AtRest, Tidy
    <3> QED BY <1>1, <1>5, <1>8, <1>9, <2>1, <3>1 DEF Within, Saving
  <2>2. CASE p \notin Loaded
    <3>1. AtRest(p)'
      BY <1>1, <1>2, <1>3, <2>2 DEF AtRest, Tidy
    <3> QED BY <1>1, <1>3, <1>5, <1>8, <1>9, <2>2, <3>1 DEF Within, Saving
  <2> QED BY <2>1, <2>2
<1> QED BY <1>1, <1>4, <1>8, <1>9, <1>10, Worked

(* The first step of a configuration save.                                  *)
LEMMA EnterConfigureRows == ASSUME Inv, Inv', Rows, NEW t \in Tasks, EnterConfigure(t) PROVE Rows'
<1>1. PICK p \in Plugins :
        p = Plug(t) /\ InLock(t) /\ AtRest(p) /\ Cur(t) \in JobType /\ Cur(t).do = "configure"
  BY Entry DEF EnterConfigure, InLock
<1> DEFINE new == [cfg EXCEPT ![p] = Cur(t).v]
<1>2. UNCHANGED <<open, draining, residue, leaked, enabled>>
  BY DEF EnterConfigure
<1>3. RowTypes /\ DiskIsCurrent
  BY RowTyped DEF Rows
<1>4. new \in [Plugins -> Values] /\ new[p] \in Values /\ \A q \in Plugins \ {p} : new[q] = cfg[q]
  BY <1>1, <1>3 DEF RowTypes, JobType
<1>5. CASE SaveFailsHarmlessly /\ Leave(t, TRUE) /\ UNCHANGED <<cfg, running, order>>
  <2>1. UNCHANGED <<instances, settings>>
    BY <1>2, <1>5 DEF SaveFailsHarmlessly, instances, settings
  <2>2. Frame(p) /\ RowTypes' /\ DiskIsCurrent' /\ (AtRest(p)' <=> AtRest(p))
    BY <2>1, QuietRow
  <2>3. Shape(t) /\ Left(t) /\ Passes(t) /\ ~Goes(t)
    BY <1>1, <1>5, Leaves DEF Left, Goes, Critical
  <2> QED BY <1>1, <2>2, <2>3, Worked
<1>6. CASE cfg' = new /\ SaveOk(enabled, new) /\ Leave(t, FALSE) /\ p \notin Loaded
           /\ UNCHANGED <<running, order>>
  <2>1. disk' = [enabled |-> enabled, cfg |-> new] /\ stale' = FALSE
    BY <1>6 DEF SaveOk
  <2>2. Loaded' = Loaded
    BY <1>6 DEF Loaded
  <2>3. RowTypes' /\ DiskIsCurrent' /\ Frame(p)
    BY <1>2, <1>3, <1>4, <1>6, <2>1, <2>2 DEF RowTypes, DiskIsCurrent, Frame
  <2>4. Shape(t) /\ Left(t) /\ Passes(t) /\ ~Goes(t)
    BY <1>1, <1>6, Leaves DEF Left, Goes, Critical
  <2>5. AtRest(p)'
    BY <1>1, <1>2, <1>6, <2>2 DEF AtRest, Tidy
  <2> QED BY <1>1, <2>3, <2>4, <2>5, Worked
<1>7. CASE /\ cfg' = new /\ SaveOk(enabled, new) /\ UNCHANGED locks
           /\ \E pc \in {"rollback", "teardown"} :
                /\ task' = [task EXCEPT ![t].pc = pc, ![t].inst = running[p].inst, ![t].was = running[p],
                                        ![t].kept = enabled \cap {p}, ![t].prev = cfg[p]]
                /\ pc = "rollback" => UNCHANGED <<running, order>>
                /\ pc = "teardown" => p \in Loaded /\ Unload(p)
  <2>1. PICK pc \in {"rollback", "teardown"} :
          /\ task' = [task EXCEPT ![t].pc = pc, ![t].inst = running[p].inst, ![t].was = running[p],
                                  ![t].kept = enabled \cap {p}, ![t].prev = cfg[p]]
          /\ pc = "rollback" => UNCHANGED <<running, order>>
          /\ pc = "teardown" => p \in Loaded /\ Unload(p)
    BY <1>7
  <2> DEFINE r == Remembering(task[t], pc, running[p].inst, running[p], enabled \cap {p}, cfg[p])
  <2>2. /\ running[p] \in InstanceType /\ running[p].inst \in Nat /\ pc \in Critical
        /\ enabled \cap {p} \in SUBSET Plugins /\ cfg[p] \in Values \cup {"none"}
        /\ task[t] \in TaskType
    BY DEF Inv, Types, InstanceType, Critical
  <2>3. /\ r \in TaskType /\ r.jobs = task[t].jobs /\ r.pc = pc /\ r.was = running[p]
        /\ r.kept = enabled \cap {p}
    BY <2>2, RememberType
  <2>4. r.inst = running[p].inst /\ r.prev = cfg[p]
    BY <2>2 DEF Remembering, TaskType
  <2>5. task' = [task EXCEPT ![t] = r]
    BY <2>1, ZenonT(60) DEF Remembering
  <2> HIDE DEF r
  <2>6. Shape(t) /\ Goes(t) /\ task'[t] = r
    BY <1>1, <1>7, <2>2, <2>3, <2>5, Going
  <2>7. Plug(t)' = p /\ Cur(t)' = Cur(t) /\ ~Left(t) /\ Passes(t)
    BY <1>1, <1>7, <2>6, Staying DEF Left, Goes, Critical, Passes
  <2>8. disk' = [enabled |-> enabled, cfg |-> new] /\ stale' = FALSE
    BY <1>7 DEF SaveOk
  <2>9. cfg[p] \in Values
    BY <1>3 DEF RowTypes
  <2>10. CASE pc = "rollback"
    <3>1. Loaded' = Loaded
      BY <2>1, <2>10 DEF Loaded
    <3>2. RowTypes' /\ DiskIsCurrent' /\ Frame(p)
      BY <1>2, <1>3, <1>4, <1>7, <2>1, <2>8, <2>10, <3>1 DEF RowTypes, DiskIsCurrent, Frame
    <3>3. Tidy(p)'
      BY <1>1, <1>2, <2>1, <2>10, <3>1 DEF AtRest, Tidy
    <3>4. Within(t)'
      BY <1>1, <2>1, <2>3, <2>4, <2>6, <2>7, <2>9, <2>10, <3>1, <3>3 DEF Within, Saving, AtRest
    <3> QED BY <1>1, <2>6, <2>7, <3>2, <3>4, Worked
  <2>11. CASE pc = "teardown"
    <3>1. /\ ToSet(order') = Loaded' /\ IsInjective(order')
          /\ running' = [running EXCEPT ![p] = NoInstance]
          /\ running' \in [Plugins -> [inst : Instances \cup {0}, cfg : Values \cup {"none"}]]
          /\ Loaded' = Loaded \ {p}
      BY <2>1, <2>11, UnloadRow
    <3>2. RowTypes' /\ DiskIsCurrent' /\ Frame(p)
      BY <1>2, <1>3, <1>4, <1>7, <2>8, <3>1 DEF RowTypes, DiskIsCurrent, Frame
    <3>3. Bare(t)'
      BY <1>1, <1>2, <2>1, <2>4, <2>6, <2>7, <2>11, <3>1 DEF Bare, AtRest, Tidy
    <3>4. p \in enabled'
      BY <1>2, <2>1, <2>11 DEF Inv, LoadedIsEnabled
    <3>5. Within(t)'
      BY <1>1, <2>3, <2>4, <2>6, <2>7, <2>9, <2>11, <3>3, <3>4 DEF Within, Saving
    <3> QED BY <1>1, <2>6, <2>7, <3>2, <3>5, Worked
  <2> QED BY <2>10, <2>11
<1>8. CASE cfg' = new /\ SaveOk(enabled, new)
    /\ \/ /\ task' = [task EXCEPT ![t].pc = "rollback", ![t].inst = running[p].inst, ![t].was = running[p],
                                  ![t].kept = enabled \cap {p}, ![t].prev = cfg[p]]
          /\ UNCHANGED <<running, order, locks>>
       \/ p \notin Loaded /\ Leave(t, FALSE) /\ UNCHANGED <<running, order>>
       \/ /\ p \in Loaded
          /\ task' = [task EXCEPT ![t].pc = "teardown", ![t].inst = running[p].inst, ![t].was = running[p],
                                  ![t].kept = enabled \cap {p}, ![t].prev = cfg[p]]
          /\ Unload(p) /\ UNCHANGED locks
  BY <1>6, <1>7, <1>8
<1> QED BY <1>1, <1>5, <1>8 DEF EnterConfigure

(* What a request inside the lock knows. *)
LEMMA Known ==
    ASSUME Inv, Rows, NEW t \in Tasks, task[t].pc \in Critical
    PROVE  \E p \in Plugins : /\ p = Plug(t) /\ InLock(t) /\ Within(t) /\ task[t] \in TaskType
                              /\ Cur(t) \in JobType
<1>1. InLock(t)
  BY CriticalInLock
<1> QED BY <1>1 DEF InLock, Rows, Working, Inv, Types

(* The end of _enable, in whatever way: the plugin is at rest, and a save   *)
(* goes on to its checks with a new instance or undoes itself without one.  *)
LEMMA ReturnRows ==
    ASSUME Inv, Inv', Rows, NEW t \in Tasks, InLock(t),
           task[t].pc \in Critical \ {"rollback", "revert"},
           NEW ok \in BOOLEAN, EnableReturns(t, ok) \/ (ok = FALSE /\ EnableCancelled(t)),
           NEW p \in Plugins, p = Plug(t), Frame(p), RowTypes', DiskIsCurrent', AtRest(p)',
           (Saving(t) /\ ok) => running'[p].inst # task[t].was.inst,
           (Saving(t) /\ ~ok) => p \notin Loaded'
    PROVE  Rows'
<1>1. /\ Shape(t) /\ Passes(t)
      /\ \/ Left(t)
         \/ /\ Goes(t) /\ Saving(t) /\ Keeps(t)
            /\ ok => task'[t].pc = "confirm"
            /\ ~ok => task'[t].pc = "rollback"
  BY Returns
<1>2. Within(t)
  BY DEF Rows, Working
<1>3. CASE Left(t)
  <2>1. ~Goes(t)
    BY <1>3 DEF Left, Goes, Critical
  <2> QED BY <1>1, <1>3, <2>1, Worked
<1>4. CASE /\ Goes(t) /\ Saving(t) /\ Keeps(t)
           /\ ok => task'[t].pc = "confirm"
           /\ ~ok => task'[t].pc = "rollback"
  <2>1. Plug(t)' = p /\ Cur(t)' = Cur(t) /\ ~Left(t)
    BY <1>4, Staying DEF Left, Goes, Critical
  <2>2. Within(t)'
    BY <1>2, <1>4, <2>1 DEF Within, Saving, AtRest, Keeps
  <2> QED BY <1>1, <1>4, <2>1, <2>2, Worked
<1> QED BY <1>1, <1>3, <1>4

LEMMA StartEnableRows == ASSUME Inv, Inv', Rows, NEW t \in Tasks, StartEnable(t) PROVE Rows'
<1>1. task[t].pc = "enable" /\ task[t].pc \in Critical \ {"rollback", "revert"}
  BY DEF StartEnable, Critical
<1>2. PICK p \in Plugins : p = Plug(t) /\ InLock(t) /\ Within(t)
  BY <1>1, Known
<1>3. AtRest(p) /\ (Cur(t).do \in {"reload", "configure"} => p \notin Loaded)
  BY <1>1, <1>2 DEF Within
<1>4. UNCHANGED <<instances, settings>>
  BY DEF StartEnable
<1>5. /\ Frame(p) /\ RowTypes' /\ DiskIsCurrent' /\ AtRest(p)'
      /\ (p \in Loaded)' <=> p \in Loaded
  BY <1>3, <1>4, QuietRow
<1>6. CASE EnableReturns(t, TRUE) /\ p \in Loaded
  <2>1. ~Saving(t)
    BY <1>3, <1>6 DEF Saving
  <2> QED BY <1>1, <1>2, <1>5, <1>6, <2>1, ReturnRows
<1>7. CASE EnableReturns(t, FALSE) /\ p \notin Loaded
  BY <1>1, <1>2, <1>5, <1>7, ReturnRows
<1>8. CASE Goto(t, "deps") /\ UNCHANGED locks /\ draining[p] = {} /\ p \notin Loaded
  <2>1. Shape(t) /\ Goes(t) /\ Passes(t) /\ task'[t].pc = "deps" /\ Keeps(t)
    BY <1>2, <1>8, Moves DEF Critical
  <2>2. /\ Plug(t)' = p /\ Cur(t)' = Cur(t) /\ ~Left(t)
        /\ enabled' = enabled /\ draining' = draining
    BY <1>2, <1>4, <2>1, Staying DEF Left, settings, instances
  <2>3. Within(t)'
    BY <1>2, <1>5, <1>8, <2>1, <2>2 DEF Within, Saving, Keeps
  <2> QED BY <1>2, <1>5, <2>1, <2>2, <2>3, Worked
<1> QED BY <1>2, <1>6, <1>7, <1>8 DEF StartEnable, IsLoaded, MayEnable

LEMMA SetupInst ==
    ASSUME NEW r \in TaskType, NEW i \in Nat, NEW n \in Nat
    PROVE  /\ SettingUp(r, i, n).inst = i /\ SettingUp(r, i, n).left = n
           /\ SettingUp(r, i, n).was = r.was /\ SettingUp(r, i, n).prev = r.prev
           /\ SettingUp(r, i, n).phase = r.phase
<1>1. SettingUp(r, i, n).inst = i /\ SettingUp(r, i, n).left = n
  BY DEF SettingUp, TaskType
<1>2. SettingUp(r, i, n).was = r.was /\ SettingUp(r, i, n).prev = r.prev
  BY DEF SettingUp, TaskType
<1>3. SettingUp(r, i, n).phase = r.phase
  BY DEF SettingUp, TaskType
<1> QED BY <1>1, <1>2, <1>3

LEMMA ImportRows == ASSUME Inv, Inv', Rows, NEW t \in Tasks, Import(t) PROVE Rows'
<1>1. task[t].pc = "deps" /\ task[t].pc \in Critical \ {"rollback", "revert"}
  BY DEF Import, Critical
<1>2. PICK p \in Plugins : p = Plug(t) /\ InLock(t) /\ Within(t) /\ task[t] \in TaskType
  BY <1>1, Known
<1>3. AtRest(p) /\ p \notin Loaded /\ draining[p] = {}
  BY <1>1, <1>2 DEF Within
<1>4. UNCHANGED <<running, order, draining, leaked, settings>>
  BY DEF Import
<1>5. CASE EnableReturns(t, FALSE) /\ UNCHANGED <<open, residue>>
  <2>1. UNCHANGED <<instances, settings>>
    BY <1>4, <1>5 DEF instances
  <2>2. /\ Frame(p) /\ RowTypes' /\ DiskIsCurrent' /\ AtRest(p)'
        /\ (p \in Loaded)' <=> p \in Loaded
    BY <1>3, <2>1, QuietRow
  <2> QED BY <1>1, <1>2, <1>3, <1>5, <2>2, ReturnRows
<1>6. CASE /\ \E n \in 1..Accounts, i \in Unused(t) :
                /\ open' = [open EXCEPT ![p] = @ \cup {<<i, 1>>}]
                /\ task' = [task EXCEPT ![t].pc = "setup", ![t].inst = i, ![t].left = n - 1]
           /\ residue' = [residue EXCEPT ![p] = {"module", "policy"}]
           /\ UNCHANGED locks
  <2>0. PICK n \in 1..Accounts, i \in Unused(t) :
          /\ open' = [open EXCEPT ![p] = @ \cup {<<i, 1>>}]
          /\ task' = [task EXCEPT ![t].pc = "setup", ![t].inst = i, ![t].left = n - 1]
    BY <1>6, ZenonT(60)
  <2>1. /\ open' = [open EXCEPT ![p] = @ \cup {<<i, 1>>}]
        /\ task' = [task EXCEPT ![t] = SettingUp(task[t], i, n - 1)]
    BY <2>0, ZenonT(60) DEF SettingUp
  <2>2. /\ n - 1 \in Nat /\ i \in Nat /\ i \in Instances /\ i # task[t].was.inst
        /\ \A c \in open[p] : c[1] # i
    BY <1>2, LifecycleAssumption DEF Unused
  <2> DEFINE r == SettingUp(task[t], i, n - 1)
  <2>3. /\ r \in TaskType /\ r.jobs = task[t].jobs /\ r.pc = "setup"
        /\ r.inst = i /\ r.left = n - 1 /\ r.was = task[t].was /\ r.prev = task[t].prev
        /\ r.kept = task[t].kept
    BY <1>2, <2>2, SetupType, SetupInst, ZenonT(30)
  <2>4. task' = [task EXCEPT ![t] = r]
    BY <2>1
  <2> HIDE DEF r
  <2>5. Shape(t) /\ Goes(t) /\ task'[t] = r
    BY <1>2, <1>6, <2>3, <2>4, Going DEF Critical
  <2>6. Plug(t)' = p /\ Cur(t)' = Cur(t) /\ ~Left(t) /\ Passes(t)
    BY <1>2, <1>6, <2>5, Staying DEF Left, Goes, Critical, Passes
  <2>7. RowTypes /\ <<i, 1>> \in Instances \X (1..Accounts)
    BY <2>2, RowTyped, LifecycleAssumption
  <2>8. UNCHANGED <<running, order, draining, leaked, enabled, cfg, disk, stale>>
    BY <1>4 DEF settings
  <2>9. Loaded' = Loaded
    BY <2>8 DEF Loaded
  <2>10. RowTypes' /\ DiskIsCurrent' /\ Frame(p)
    <3>1. open' \in [Plugins -> SUBSET (Instances \X (1..Accounts))]
      BY <2>1, <2>7 DEF RowTypes
    <3>2. residue' \in [Plugins -> SUBSET {"module", "policy"}]
      BY <1>6, <2>7 DEF RowTypes
    <3>3. \A q \in Plugins \ {p} : open'[q] = open[q] /\ residue'[q] = residue[q]
      BY <1>6, <2>1, <2>7 DEF RowTypes
    <3> QED BY <2>7, <2>8, <2>9, <3>1, <3>2, <3>3 DEF RowTypes, DiskIsCurrent, Rows, Frame
  <2>11. open'[p] = open[p] \cup {<<i, 1>>}
    BY <2>1, <2>7 DEF RowTypes
  <2>12. Mine(t)' = {<<i, 1>>}
    BY <2>2, <2>3, <2>5, <2>6, <2>11 DEF Mine
  <2>13. IsFiniteSet(Mine(t)') /\ Cardinality(Mine(t)') + r.left <= Accounts
    <3>1. IsFiniteSet({<<i, 1>>}) /\ Cardinality({<<i, 1>>}) = 1
      BY FS_Singleton
    <3> QED BY <2>2, <2>3, <2>12, <3>1, LifecycleAssumption
  <2>14. Bare(t)' /\ draining'[p] = {}
    BY <1>3, <2>2, <2>3, <2>5, <2>6, <2>8, <2>9, <2>11 DEF Bare, AtRest, Tidy
  <2>15. Within(t)'
    BY <1>2, <2>2, <2>3, <2>5, <2>6, <2>8, <2>13, <2>14 DEF Within, Saving
  <2> QED BY <1>2, <2>5, <2>6, <2>10, <2>15, Worked
<1> QED BY <1>2, <1>5, <1>6 DEF Import

LEMMA SetupFailsRows == ASSUME Inv, Inv', Rows, NEW t \in Tasks, SetupFails(t) PROVE Rows'
<1>1. task[t].pc = "setup" /\ task[t].pc \in Critical
  BY DEF SetupFails, Critical
<1>2. PICK p \in Plugins : p = Plug(t) /\ InLock(t) /\ Within(t)
  BY <1>1, Known
<1>3. UNCHANGED <<instances, settings, locks>> /\ Goto(t, "unwind")
  BY DEF SetupFails
<1>4. Frame(p) /\ RowTypes' /\ DiskIsCurrent' /\ ((p \in Loaded)' <=> p \in Loaded)
  BY <1>3, QuietRow
<1>5. Shape(t) /\ Goes(t) /\ Passes(t) /\ task'[t].pc = "unwind" /\ Keeps(t)
  BY <1>2, <1>3, Moves DEF Critical
<1>6. /\ Plug(t)' = p /\ Cur(t)' = Cur(t) /\ ~Left(t)
      /\ UNCHANGED <<enabled, open, draining, leaked>>
  BY <1>2, <1>3, <1>5, Staying DEF Left, settings, instances
<1>7. Bare(t)'
  BY <1>1, <1>2, <1>4, <1>5, <1>6 DEF Within, Bare, Keeps
<1>8. Within(t)'
  BY <1>1, <1>2, <1>5, <1>6, <1>7 DEF Within, Saving, Keeps
<1> QED BY <1>2, <1>4, <1>5, <1>6, <1>8, Worked

LEMMA LastIsOne ==
    ASSUME NEW S \in SUBSET (Instances \X (1..Accounts)), S # {}
    PROVE  LastOpened(S) \in S
<1> DEFINE T == {Accounts - d[2] : d \in S}
<1>1. Accounts \in Nat /\ \A d \in S : d[2] \in 1..Accounts
  BY LifecycleAssumption
<1>2. T \in SUBSET Nat /\ T # {}
  BY <1>1
<1>3. Min(T) \in T /\ \A k \in T : Min(T) <= k
  <2> HIDE DEF T
  <2> QED BY <1>2, Least
<1>4. PICK c \in S : Min(T) = Accounts - c[2]
  BY <1>3
<1>5. \A d \in S : d[2] <= c[2]
  <2> TAKE d \in S
  <2>1. Accounts - c[2] <= Accounts - d[2]
    BY <1>3, <1>4
  <2> QED BY <1>1, <2>1
<1> QED BY <1>5 DEF LastOpened

LEMMA MineTyped ==
    ASSUME Rows, NEW t \in Tasks, Plug(t) \in Plugins
    PROVE  Mine(t) \in SUBSET (Instances \X (1..Accounts)) /\ Mine(t) \subseteq open[Plug(t)]
BY RowTyped DEF RowTypes, Mine

(* One context closes. *)
LEMMA CloseRow ==
    ASSUME Rows, NEW p \in Plugins, NEW c \in open[p], Close(p, c)
    PROVE  /\ open' \in [Plugins -> SUBSET (Instances \X (1..Accounts))]
           /\ draining' \in [Plugins -> SUBSET (Instances \X (1..Accounts))]
           /\ \A q \in Plugins \ {p} : open'[q] = open[q] /\ draining'[q] = draining[q]
           /\ open'[p] \cup draining'[p] \subseteq open[p] \cup draining[p]
<1>1. RowTypes
  BY RowTyped
<1>2. c \in Instances \X (1..Accounts)
  BY <1>1 DEF RowTypes
<1>3. /\ open' = [open EXCEPT ![p] = @ \ {c}]
      /\ draining' = draining \/ draining' = [draining EXCEPT ![p] = @ \cup {c}]
  BY DEF Close
<1> QED BY <1>1, <1>2, <1>3 DEF RowTypes

LEMMA LessLeft ==
    ASSUME NEW r \in TaskType, r.left > 0
    PROVE  LET q == [r EXCEPT !.left = @ - 1] IN
           /\ q.left = r.left - 1 /\ q.inst = r.inst /\ q.phase = r.phase
           /\ q.was = r.was /\ q.prev = r.prev
BY DEF TaskType

LEMMA SetupReturnsRows == ASSUME Inv, Inv', Rows, NEW t \in Tasks, SetupReturns(t) PROVE Rows'
<1>1. task[t].pc = "setup" /\ task[t].pc \in Critical \ {"rollback", "revert"}
  BY DEF SetupReturns, Critical
<1>2. PICK p \in Plugins :
        p = Plug(t) /\ InLock(t) /\ Within(t) /\ task[t] \in TaskType
  BY <1>1, Known
<1>3. /\ Bare(t) /\ (p \notin leaked => draining[p] = {})
      /\ task[t].inst \in Instances /\ task[t].inst # task[t].was.inst
      /\ IsFiniteSet(Mine(t)) /\ Cardinality(Mine(t)) + task[t].left <= Accounts
  BY <1>1, <1>2 DEF Within
<1>4. RowTypes /\ DiskIsCurrent
  BY RowTyped DEF Rows
<1>5. CASE /\ task[t].left > 0
           /\ open' = [open EXCEPT ![p] = @ \cup {<<task[t].inst, Cardinality(Mine(t)) + 1>>}]
           /\ task' = [task EXCEPT ![t].left = @ - 1]
           /\ UNCHANGED <<running, order, draining, residue, leaked, settings, locks>>
  <2> DEFINE r == [task[t] EXCEPT !.left = @ - 1]
             c == <<task[t].inst, Cardinality(Mine(t)) + 1>>
  <2>1. /\ r \in TaskType /\ r.jobs = task[t].jobs /\ r.pc = "setup"
        /\ r.left = task[t].left - 1 /\ r.inst = task[t].inst /\ r.phase = task[t].phase
        /\ r.was = task[t].was /\ r.prev = task[t].prev /\ r.kept = task[t].kept
    BY <1>1, <1>2, <1>5, LeftType, LessLeft
  <2>2. task' = [task EXCEPT ![t] = r]
    BY <1>5
  <2> HIDE DEF r
  <2>3. Shape(t) /\ Goes(t) /\ task'[t] = r
    BY <1>2, <1>5, <2>1, <2>2, Going DEF Critical
  <2>4. Plug(t)' = p /\ Cur(t)' = Cur(t) /\ ~Left(t) /\ Passes(t)
    BY <1>2, <1>5, <2>3, Staying DEF Left, Goes, Critical, Passes
  <2>5. Cardinality(Mine(t)) \in Nat /\ task[t].left \in Nat
    BY <1>2, <1>3, FS_CardinalityType DEF TaskType
  <2>6. c \in Instances \X (1..Accounts)
    <3>1. Cardinality(Mine(t)) + 1 \in 1..Accounts
      BY <1>3, <1>5, <2>5, LifecycleAssumption
    <3> QED BY <1>3, <3>1
  <2>7. open' = [open EXCEPT ![p] = @ \cup {c}]
    BY <1>5
  <2>8. c[1] = task[t].inst
    OBVIOUS
  <2> HIDE DEF c
  <2>9. UNCHANGED <<enabled, cfg, disk, stale>> /\ Loaded' = Loaded
    BY <1>5 DEF settings, Loaded
  <2>10. RowTypes' /\ DiskIsCurrent' /\ Frame(p)
    <3>1. /\ open' \in [Plugins -> SUBSET (Instances \X (1..Accounts))]
          /\ \A q \in Plugins \ {p} : open'[q] = open[q]
      BY <1>4, <2>6, <2>7 DEF RowTypes
    <3> QED BY <1>4, <1>5, <2>9, <3>1 DEF RowTypes, DiskIsCurrent, Frame
  <2>11. open'[p] = open[p] \cup {c}
    BY <1>4, <2>7 DEF RowTypes
  <2>12. Mine(t)' = Mine(t) \cup {c}
    BY <1>2, <2>1, <2>3, <2>4, <2>8, <2>11 DEF Mine
  <2>13. IsFiniteSet(Mine(t)') /\ Cardinality(Mine(t)') + r.left <= Accounts
    <3>1. /\ IsFiniteSet(Mine(t) \cup {c})
          /\ \/ Cardinality(Mine(t) \cup {c}) = Cardinality(Mine(t))
             \/ Cardinality(Mine(t) \cup {c}) = Cardinality(Mine(t)) + 1
      BY <1>3, FS_AddElement
    <3> QED BY <1>3, <1>5, <2>1, <2>5, <2>12, <3>1, LifecycleAssumption
  <2>14. Bare(t)'
    BY <1>2, <1>3, <1>5, <2>1, <2>3, <2>4, <2>8, <2>9, <2>11 DEF Bare
  <2>15. Within(t)'
    BY <1>2, <1>3, <1>5, <2>1, <2>3, <2>4, <2>9, <2>13, <2>14 DEF Within, Saving
  <2> QED BY <1>2, <2>3, <2>4, <2>10, <2>15, Worked
<1>6. CASE /\ running' = [running EXCEPT ![p] = [inst |-> task[t].inst, cfg |-> cfg[p]]]
           /\ order' = Append(order, p)
           /\ enabled' = EnabledWith(p)
           /\ IF p \in enabled THEN UNCHANGED <<disk, stale>> ELSE SaveOk(enabled', cfg)
           /\ EnableReturns(t, TRUE)
           /\ UNCHANGED <<open, draining, residue, leaked, cfg>>
  <2> DEFINE n == [inst |-> task[t].inst, cfg |-> cfg[p]]
  <2>1. /\ n \in [inst : Instances \cup {0}, cfg : Values \cup {"none"}]
        /\ n.inst = task[t].inst /\ n.cfg = cfg[p] /\ n # NoInstance
    BY <1>3, <1>4, LifecycleAssumption DEF RowTypes, NoInstance
  <2>2. running' = [running EXCEPT ![p] = n]
    BY <1>6
  <2> HIDE DEF n
  <2>3. /\ running' \in [Plugins -> [inst : Instances \cup {0}, cfg : Values \cup {"none"}]]
        /\ running'[p] = n
        /\ \A q \in Plugins \ {p} : running'[q] = running[q]
    BY <1>4, <2>1, <2>2 DEF RowTypes
  <2>4. Loaded' = Loaded \cup {p} /\ p \notin Loaded
    BY <1>2, <1>3, <2>1, <2>3 DEF Loaded, Bare
  <2>5. ToSet(order') = Loaded' /\ IsInjective(order')
    <3>1. order \in Seq(Plugins) /\ ToSet(order) = Loaded /\ IsInjective(order)
      BY <1>4 DEF Inv, Types, RowTypes
    <3>2. /\ DOMAIN order' = 1..Len(order) + 1 /\ order'[Len(order) + 1] = p
          /\ \A i \in 1..Len(order) : order'[i] = order[i]
      BY <1>6, <3>1
    <3>3. DOMAIN order = 1..Len(order) /\ Len(order) \in Nat
      BY <3>1
    <3>4. \A i \in 1..Len(order) : order[i] \in Loaded
      BY <3>1, <3>3 DEF ToSet
    <3>5. ToSet(order') = Loaded \cup {p}
      <4>1. \A x \in Loaded : x \in ToSet(order')
        BY <3>1, <3>2, <3>3 DEF ToSet
      <4>2. p \in ToSet(order')
        BY <3>2, <3>3 DEF ToSet
      <4>3. \A x \in ToSet(order') : x \in Loaded \/ x = p
        BY <3>2, <3>3, <3>4 DEF ToSet
      <4> QED BY <4>1, <4>2, <4>3
    <3>6. IsInjective(order')
      BY <2>4, <3>1, <3>2, <3>3, <3>4 DEF IsInjective
    <3> QED BY <2>4, <3>5, <3>6
  <2>6. /\ enabled' = enabled \cup {p} /\ enabled' \subseteq Plugins
        /\ \A q \in Plugins \ {p} : q \in enabled' <=> q \in enabled
    BY <1>4, <1>6 DEF EnabledWith, RowTypes
  <2>7. /\ disk' \in [enabled : SUBSET Plugins, cfg : [Plugins -> Values]]
        /\ stale' \in BOOLEAN /\ DiskIsCurrent'
    <3>1. CASE p \in enabled
      <4>1. enabled' = enabled /\ disk' = disk /\ stale' = stale /\ cfg' = cfg
        BY <1>6, <2>6, <3>1
      <4> QED BY <1>4, <4>1 DEF DiskIsCurrent, RowTypes
    <3>2. CASE p \notin enabled
      <4>1. disk' = [enabled |-> enabled', cfg |-> cfg] /\ stale' = FALSE /\ cfg' = cfg
        BY <1>6, <3>2 DEF SaveOk
      <4> QED BY <1>4, <2>6, <4>1 DEF DiskIsCurrent, RowTypes
    <3> QED BY <3>1, <3>2
  <2>8. RowTypes' /\ Frame(p)
    BY <1>4, <1>6, <2>3, <2>5, <2>6, <2>7 DEF RowTypes, Frame
  <2>9. AtRest(p)'
    BY <1>2, <1>3, <1>6, <2>1, <2>3, <2>4 DEF AtRest, Tidy, Bare
  <2>10. running'[p].inst # task[t].was.inst
    BY <1>3, <2>1, <2>3
  <2> QED BY <1>1, <1>2, <1>6, <2>7, <2>8, <2>9, <2>10, ReturnRows
<1>7. CASE SaveFailsHarmlessly /\ Goto(t, "unwind") /\ UNCHANGED <<instances, enabled, cfg, locks>>
  <2>1. UNCHANGED <<instances, settings>>
    BY <1>7 DEF SaveFailsHarmlessly, settings
  <2>2. Frame(p) /\ RowTypes' /\ DiskIsCurrent' /\ ((p \in Loaded)' <=> p \in Loaded)
    BY <2>1, QuietRow
  <2>3. Shape(t) /\ Goes(t) /\ Passes(t) /\ task'[t].pc = "unwind" /\ Keeps(t)
    BY <1>2, <1>7, Moves DEF Critical
  <2>4. /\ Plug(t)' = p /\ Cur(t)' = Cur(t) /\ ~Left(t)
        /\ UNCHANGED <<enabled, open, draining, leaked>>
    BY <1>2, <1>7, <2>3, Staying DEF Left, instances
  <2>5. Bare(t)'
    BY <1>2, <1>3, <2>2, <2>3, <2>4 DEF Bare, Keeps
  <2>6. Within(t)'
    BY <1>2, <2>3, <2>4, <2>5 DEF Within, Saving, Keeps
  <2> QED BY <1>2, <2>2, <2>3, <2>4, <2>6, Worked
<1> QED BY <1>2, <1>5, <1>6, <1>7 DEF SetupReturns

LEMMA Stands ==
    ASSUME Inv, Inv', NEW t \in Tasks, task[t].pc \in Critical, UNCHANGED <<task, locks>>
    PROVE  Shape(t) /\ Goes(t) /\ Passes(t) /\ Keeps(t) /\ task'[t].pc = task[t].pc /\ ~Left(t)
BY DEF Shape, Goes, Passes, Keeps, Left, Inv, Types, locks, Critical

(* Closing one context of an instance that goes.                            *)
LEMMA ClosingFrame ==
    ASSUME Inv, Rows, NEW t \in Tasks, NEW p \in Plugins, p = Plug(t), Mine(t) # {},
           Close(p, LastOpened(Mine(t))),
           UNCHANGED <<running, order, residue, settings>>,
           leaked \subseteq leaked', leaked' \subseteq leaked \cup {p}
    PROVE  /\ Frame(p) /\ RowTypes' /\ DiskIsCurrent' /\ Loaded' = Loaded
           /\ open'[p] \cup draining'[p] \subseteq open[p] \cup draining[p]
<1>1. LastOpened(Mine(t)) \in open[p]
  BY MineTyped, LastIsOne
<1>2. /\ open' \in [Plugins -> SUBSET (Instances \X (1..Accounts))]
      /\ draining' \in [Plugins -> SUBSET (Instances \X (1..Accounts))]
      /\ \A q \in Plugins \ {p} : open'[q] = open[q] /\ draining'[q] = draining[q]
      /\ open'[p] \cup draining'[p] \subseteq open[p] \cup draining[p]
  BY <1>1, CloseRow
<1>3. UNCHANGED <<enabled, cfg, disk, stale>> /\ Loaded' = Loaded
  BY DEF settings, Loaded
<1>4. RowTypes /\ DiskIsCurrent
  BY RowTyped DEF Rows
<1> QED BY <1>2, <1>3, <1>4 DEF RowTypes, DiskIsCurrent, Frame

LEMMA ClosingRows ==
    ASSUME Inv, Inv', Rows, NEW t \in Tasks, task[t].pc \in {"unwind", "teardown"}, Mine(t) # {},
           Close(Plug(t), LastOpened(Mine(t))),
           UNCHANGED <<running, order, residue, leaked, settings, task, locks>>
    PROVE  Rows'
<1>1. task[t].pc \in Critical
  BY DEF Critical
<1>2. PICK p \in Plugins : p = Plug(t) /\ InLock(t) /\ Within(t)
  BY <1>1, Known
<1>3. /\ Frame(p) /\ RowTypes' /\ DiskIsCurrent' /\ Loaded' = Loaded
      /\ open'[p] \cup draining'[p] \subseteq open[p] \cup draining[p]
  BY <1>2, ClosingFrame
<1>4. Shape(t) /\ Goes(t) /\ Passes(t) /\ task'[t].pc = task[t].pc /\ ~Left(t)
  BY <1>1, Stands
<1>5. Plug(t)' = p /\ Cur(t)' = Cur(t) /\ UNCHANGED <<enabled, leaked, task>>
  BY <1>2, <1>4, Staying DEF settings
<1>6. Bare(t)'
  BY <1>2, <1>3, <1>5 DEF Within, Bare
<1>7. Within(t)'
  BY <1>2, <1>4, <1>5, <1>6 DEF Within, Saving
<1> QED BY <1>2, <1>3, <1>4, <1>7, Worked

(* After the last context the governor's state and the module go.           *)
LEMMA ReleasedRow ==
    ASSUME Inv, Rows, NEW t \in Tasks, NEW p \in Plugins, p = Plug(t), Bare(t), Mine(t) = {},
           Released(p), UNCHANGED <<running, order, open, draining, leaked, settings>>
    PROVE  Frame(p) /\ RowTypes' /\ DiskIsCurrent' /\ AtRest(p)' /\ p \notin Loaded'
<1>1. RowTypes /\ DiskIsCurrent
  BY RowTyped DEF Rows
<1>2. /\ residue' = [residue EXCEPT ![p] = {}]
      /\ UNCHANGED <<enabled, cfg, disk, stale>> /\ Loaded' = Loaded
  BY DEF Released, settings, Loaded
<1>3. RowTypes' /\ Frame(p) /\ DiskIsCurrent' /\ residue'[p] = {}
  BY <1>1, <1>2 DEF RowTypes, DiskIsCurrent, Frame
<1>4. p \notin leaked => open[p] = {}
  BY DEF Bare, Mine
<1> QED BY <1>2, <1>3, <1>4 DEF AtRest, Tidy, Bare

LEMMA UnwindRows == ASSUME Inv, Inv', Rows, NEW t \in Tasks, Unwind(t) PROVE Rows'
<1>1. task[t].pc = "unwind" /\ task[t].pc \in Critical \ {"rollback", "revert"}
  BY DEF Unwind, Critical
<1>2. PICK p \in Plugins : p = Plug(t) /\ InLock(t) /\ Within(t)
  BY <1>1, Known
<1>3. CASE Mine(t) # {}
  BY <1>1, <1>3, ClosingRows DEF Unwind
<1>4. CASE Mine(t) = {}
  <2>1. /\ Released(p) /\ UNCHANGED <<running, order, open, draining, leaked, settings>>
        /\ EnableCancelled(t) \/ EnableReturns(t, FALSE)
    BY <1>2, <1>4 DEF Unwind
  <2>2. Bare(t)
    BY <1>1, <1>2 DEF Within
  <2>3. Frame(p) /\ RowTypes' /\ DiskIsCurrent' /\ AtRest(p)' /\ p \notin Loaded'
    BY <1>2, <1>4, <2>1, <2>2, ReleasedRow
  <2> QED BY <1>1, <1>2, <2>1, <2>3, ReturnRows
<1> QED BY <1>3, <1>4

LEMMA TeardownRows == ASSUME Inv, Inv', Rows, NEW t \in Tasks, Teardown(t) PROVE Rows'
<1>1. task[t].pc = "teardown" /\ task[t].pc \in Critical
  BY DEF Teardown, Critical
<1>2. PICK p \in Plugins : p = Plug(t) /\ InLock(t) /\ Within(t)
  BY <1>1, Known
<1>3. CASE Mine(t) # {}
  BY <1>1, <1>3, ClosingRows DEF Teardown
<1>4. CASE Mine(t) = {}
  <2>1. /\ Released(p) /\ UNCHANGED <<running, order, open, draining, leaked, settings, locks>>
        /\ Goto(t, "disabled")
    BY <1>2, <1>4 DEF Teardown
  <2>2. Bare(t)
    BY <1>1, <1>2 DEF Within
  <2>3. Frame(p) /\ RowTypes' /\ DiskIsCurrent' /\ AtRest(p)' /\ p \notin Loaded'
    BY <1>2, <1>4, <2>1, <2>2, ReleasedRow
  <2>4. Shape(t) /\ Goes(t) /\ Passes(t) /\ task'[t].pc = "disabled" /\ Keeps(t)
    BY <1>2, <2>1, Moves DEF Critical
  <2>5. Plug(t)' = p /\ Cur(t)' = Cur(t) /\ ~Left(t) /\ enabled' = enabled
    BY <1>2, <2>1, <2>4, Staying DEF Left, settings
  <2>6. Within(t)'
    BY <1>1, <1>2, <2>3, <2>4, <2>5 DEF Within, Saving, Keeps
  <2> QED BY <1>2, <2>3, <2>4, <2>5, <2>6, Worked
<1> QED BY <1>3, <1>4

LEMMA DisabledRows == ASSUME Inv, Inv', Rows, NEW t \in Tasks, Disabled(t) PROVE Rows'
<1>1. task[t].pc = "disabled" /\ task[t].pc \in Critical
  BY DEF Disabled, Critical
<1>2. PICK p \in Plugins : p = Plug(t) /\ InLock(t) /\ Within(t)
  BY <1>1, Known
<1>3. AtRest(p) /\ p \notin Loaded
  BY <1>1, <1>2 DEF Within
<1>4. UNCHANGED <<instances, cfg>> /\ RowTypes /\ DiskIsCurrent
  BY RowTyped DEF Disabled, Rows
<1>5. /\ UNCHANGED <<running, order, open, draining, residue, leaked, cfg>>
      /\ Loaded' = Loaded /\ AtRest(p)'
  <2>1. UNCHANGED <<running, order, open, draining, residue, leaked, cfg>>
    BY <1>4 DEF instances
  <2>2. Loaded' = Loaded
    BY <2>1 DEF Loaded
  <2> QED BY <1>3, <2>1, <2>2 DEF AtRest, Tidy
<1>6. CASE /\ enabled' = enabled \ {p} /\ (SaveOk(enabled', cfg) \/ SaveFails)
           /\ Leave(t, Cancelled(t)) \/ Leave(t, TRUE)
  <2>1. RowTypes' /\ DiskIsCurrent' /\ Frame(p)
    <3>1. CASE SaveOk(enabled', cfg)
      <4>1. disk' = [enabled |-> enabled', cfg |-> cfg] /\ stale' = FALSE
        BY <3>1 DEF SaveOk
      <4> QED BY <1>4, <1>5, <1>6, <4>1 DEF RowTypes, DiskIsCurrent, Frame
    <3>2. CASE SaveFails
      BY <1>4, <1>5, <1>6, <3>2 DEF RowTypes, DiskIsCurrent, Frame, SaveFails
    <3> QED BY <1>6, <3>1, <3>2
  <2>2. Shape(t) /\ Left(t) /\ Passes(t) /\ ~Goes(t)
    BY <1>2, <1>6, Leaves DEF Left, Goes, Critical
  <2> QED BY <1>2, <1>5, <2>1, <2>2, Worked
<1>7. CASE /\ UNCHANGED <<enabled, disk, stale>>
           /\ Leave(t, Cancelled(t)) \/ Leave(t, TRUE)
  <2>1. RowTypes' /\ DiskIsCurrent' /\ Frame(p)
    BY <1>4, <1>5, <1>7 DEF RowTypes, DiskIsCurrent, Frame
  <2>2. Shape(t) /\ Left(t) /\ Passes(t) /\ ~Goes(t)
    BY <1>2, <1>7, Leaves DEF Left, Goes, Critical
  <2> QED BY <1>2, <1>5, <2>1, <2>2, Worked
<1>8. CASE /\ enabled' = enabled \cup {p} /\ UNCHANGED <<disk, stale, locks>>
           /\ Saving(t) /\ Goto(t, "enable")
  <2>1. enabled' = enabled
    BY <1>1, <1>2, <1>8 DEF Within
  <2>2. RowTypes' /\ DiskIsCurrent' /\ Frame(p)
    BY <1>4, <1>5, <1>8, <2>1 DEF RowTypes, DiskIsCurrent, Frame
  <2>3. Shape(t) /\ Goes(t) /\ Passes(t) /\ task'[t].pc = "enable" /\ Keeps(t)
    BY <1>2, <1>8, Moves DEF Critical
  <2>4. Plug(t)' = p /\ Cur(t)' = Cur(t) /\ ~Left(t)
    BY <1>2, <2>3, Staying DEF Left
  <2>5. Within(t)'
    BY <1>2, <1>3, <1>5, <2>1, <2>3, <2>4 DEF Within, Saving, Keeps
  <2> QED BY <1>2, <2>2, <2>3, <2>4, <2>5, Worked
<1>9. CASE /\ UNCHANGED <<enabled, disk, stale, locks>>
           /\ \E pc \in {"enable", "rollback", "revert"} :
                Goto(t, pc) /\ (pc # "enable" => Cur(t).do = "configure")
  <2>1. PICK pc \in {"enable", "rollback", "revert"} :
          Goto(t, pc) /\ (pc # "enable" => Cur(t).do = "configure")
    BY <1>9
  <2>2. RowTypes' /\ DiskIsCurrent' /\ Frame(p)
    BY <1>4, <1>5, <1>9 DEF RowTypes, DiskIsCurrent, Frame
  <2>3. Shape(t) /\ Goes(t) /\ Passes(t) /\ task'[t].pc = pc /\ Keeps(t)
    <3>1. pc \in Critical /\ (pc \in {"confirm", "rollback", "revert"} => Cur(t).do = "configure")
      BY <2>1 DEF Critical
    <3> QED BY <1>2, <1>9, <2>1, <3>1, Moves
  <2>4. Plug(t)' = p /\ Cur(t)' = Cur(t) /\ ~Left(t)
    BY <1>2, <2>3, Staying DEF Left, Goes, Critical
  <2>5. Within(t)'
    BY <1>2, <1>3, <1>5, <1>9, <2>3, <2>4 DEF Within, Saving, Keeps, AtRest
  <2> QED BY <1>2, <2>2, <2>3, <2>4, <2>5, Worked
<1>10. \/ /\ enabled' = enabled \ {p} /\ (SaveOk(enabled', cfg) \/ SaveFails)
          /\ Leave(t, Cancelled(t)) \/ Leave(t, TRUE)
       \/ /\ UNCHANGED <<enabled, disk, stale>>
          /\ Leave(t, Cancelled(t)) \/ Leave(t, TRUE)
       \/ /\ enabled' = enabled \cup {p} /\ UNCHANGED <<disk, stale, locks>>
          /\ Saving(t) /\ Goto(t, "enable")
       \/ /\ UNCHANGED <<enabled, disk, stale, locks>>
          /\ \/ Goto(t, "enable")
             \/ Goto(t, "rollback") /\ Cur(t).do = "configure"
             \/ Goto(t, "revert") /\ Cur(t).do = "configure"
  BY <1>2 DEF Disabled, Saving
<1> QED BY <1>6, <1>7, <1>8, <1>9, <1>10

LEMMA ConfirmRows == ASSUME Inv, Inv', Rows, NEW t \in Tasks, Confirm(t) PROVE Rows'
<1>1. task[t].pc = "confirm" /\ task[t].pc \in Critical
  BY DEF Confirm, Critical
<1>2. PICK p \in Plugins : p = Plug(t) /\ InLock(t) /\ Within(t)
  BY <1>1, Known
<1>3. AtRest(p) /\ running[p].inst # task[t].was.inst /\ Cur(t).do = "configure"
  BY <1>1, <1>2 DEF Within, Inv, Locking
<1>4. UNCHANGED <<instances, settings>>
  BY DEF Confirm
<1>5. /\ Frame(p) /\ RowTypes' /\ DiskIsCurrent' /\ AtRest(p)'
      /\ running' = running
  BY <1>3, <1>4, QuietRow DEF instances
<1>6. CASE Leave(t, FALSE)
  <2>1. Shape(t) /\ Left(t) /\ Passes(t) /\ ~Goes(t)
    BY <1>2, <1>6, Leaves DEF Left, Goes, Critical
  <2> QED BY <1>2, <1>5, <2>1, Worked
<1>7. CASE Goto(t, "rollback") /\ UNCHANGED locks
  <2>1. Shape(t) /\ Goes(t) /\ Passes(t) /\ task'[t].pc = "rollback" /\ Keeps(t)
    BY <1>2, <1>3, <1>7, Moves DEF Critical
  <2>2. Plug(t)' = p /\ Cur(t)' = Cur(t) /\ ~Left(t)
    BY <1>2, <2>1, Staying DEF Left
  <2>3. Within(t)'
    BY <1>2, <1>3, <1>5, <2>1, <2>2 DEF Within, Saving, Keeps, AtRest
  <2> QED BY <1>2, <1>5, <2>1, <2>2, <2>3, Worked
<1> QED BY <1>6, <1>7 DEF Confirm

LEMMA UndoKeeps ==
    ASSUME NEW r \in TaskType, NEW i \in Nat, NEW pc \in Critical
    PROVE  /\ Undoing(r, i, pc).inst = i /\ Undoing(r, i, pc).phase = "undo"
           /\ Undoing(r, i, pc).prev = r.prev
<1>1. Undoing(r, i, pc).inst = i
  BY DEF Undoing, TaskType
<1>2. Undoing(r, i, pc).phase = "undo"
  BY DEF Undoing, TaskType
<1>3. Undoing(r, i, pc).prev = r.prev
  BY DEF Undoing, TaskType
<1> QED BY <1>1, <1>2, <1>3

LEMMA RollbackRows == ASSUME Inv, Inv', Rows, NEW t \in Tasks, Rollback(t) PROVE Rows'
<1>1. task[t].pc = "rollback" /\ task[t].pc \in Critical
  BY DEF Rollback, Critical
<1>2. PICK p \in Plugins : p = Plug(t) /\ InLock(t) /\ Within(t) /\ task[t] \in TaskType
  BY <1>1, Known
<1>3. /\ Tidy(p) /\ ((p \in Loaded /\ running[p].inst = task[t].was.inst) => running[p].cfg = task[t].prev)
      /\ Cur(t).do = "configure" /\ task[t].prev \in Values /\ task[t].kept \subseteq {p}
  BY <1>1, <1>2 DEF Within, Inv, Locking
<1>4. UNCHANGED <<open, draining, residue, leaked, enabled, cfg, disk, stale>> /\ UNCHANGED locks
  BY DEF Rollback, settings
<1> DEFINE new == p \in Loaded /\ running[p].inst # task[t].was.inst
<1>5. PICK pc \in {"teardown", "revert"} :
        /\ task' = [task EXCEPT ![t] = Undoing(task[t], running[p].inst, pc)]
        /\ pc = "teardown" => new /\ Unload(p)
        /\ pc = "revert" => ~new /\ UNCHANGED <<running, order>>
  <2>1. CASE new
    <3>1. Unload(p)
      BY <1>2, <2>1 DEF Rollback
    <3>2. task' = [task EXCEPT ![t] = Undoing(task[t], running[p].inst, "teardown")]
      BY <1>2, <2>1, ZenonT(60) DEF Rollback, Undoing
    <3> QED BY <2>1, <3>1, <3>2
  <2>2. CASE ~new
    <3>1. UNCHANGED <<running, order>>
      BY <1>2, <2>2 DEF Rollback
    <3>2. task' = [task EXCEPT ![t] = Undoing(task[t], running[p].inst, "revert")]
      BY <1>2, <2>2, ZenonT(60) DEF Rollback, Undoing
    <3> QED BY <2>2, <3>1, <3>2
  <2> QED BY <2>1, <2>2
<1> DEFINE r == Undoing(task[t], running[p].inst, pc)
<1>6. /\ r \in TaskType /\ r.jobs = task[t].jobs /\ r.pc = pc /\ pc \in Critical
      /\ r.inst = running[p].inst /\ r.phase = "undo" /\ r.prev = task[t].prev
      /\ r.kept = task[t].kept
  <2>1. running[p].inst \in Nat /\ pc \in Critical
    BY DEF Inv, Types, InstanceType, Critical
  <2> QED BY <1>2, <2>1, UndoType, UndoKeeps
<1>7. task' = [task EXCEPT ![t] = r]
  BY <1>5
<1> HIDE DEF r
<1>8. Shape(t) /\ Goes(t) /\ task'[t] = r
  BY <1>2, <1>3, <1>4, <1>6, <1>7, Going
<1>9. Plug(t)' = p /\ Cur(t)' = Cur(t) /\ ~Left(t) /\ Passes(t)
  BY <1>2, <1>4, <1>8, Staying DEF Left, Goes, Critical, Passes
<1>10. RowTypes /\ DiskIsCurrent
  BY RowTyped DEF Rows
<1>11. CASE pc = "teardown"
  <2>1. /\ ToSet(order') = Loaded' /\ IsInjective(order')
        /\ running' = [running EXCEPT ![p] = NoInstance]
        /\ running' \in [Plugins -> [inst : Instances \cup {0}, cfg : Values \cup {"none"}]]
        /\ Loaded' = Loaded \ {p}
    BY <1>5, <1>11, UnloadRow
  <2>2. RowTypes' /\ DiskIsCurrent' /\ Frame(p)
    BY <1>4, <1>10, <2>1 DEF RowTypes, DiskIsCurrent, Frame
  <2>3. Bare(t)'
    BY <1>3, <1>4, <1>5, <1>6, <1>8, <1>9, <1>11, <2>1 DEF Bare, Tidy
  <2>4. Within(t)'
    BY <1>3, <1>6, <1>8, <1>9, <1>11, <2>3 DEF Within, Saving
  <2> QED BY <1>2, <1>8, <1>9, <2>2, <2>4, Worked
<1>12. CASE pc = "revert"
  <2>1. UNCHANGED <<running, order>> /\ Loaded' = Loaded
    BY <1>5, <1>12 DEF Loaded
  <2>2. RowTypes' /\ DiskIsCurrent' /\ Frame(p)
    BY <1>4, <1>10, <2>1 DEF RowTypes, DiskIsCurrent, Frame
  <2>3. Tidy(p)'
    BY <1>3, <1>4, <2>1 DEF Tidy
  <2>4. Within(t)'
    BY <1>3, <1>5, <1>6, <1>8, <1>9, <1>12, <2>1, <2>3 DEF Within, Saving
  <2> QED BY <1>2, <1>8, <1>9, <2>2, <2>4, Worked
<1> QED BY <1>11, <1>12

LEMMA RevertRows == ASSUME Inv, Inv', Rows, NEW t \in Tasks, Revert(t) PROVE Rows'
<1>1. task[t].pc = "revert" /\ task[t].pc \in Critical
  BY DEF Revert, Critical
<1>2. PICK p \in Plugins : p = Plug(t) /\ InLock(t) /\ Within(t) /\ task[t] \in TaskType
  BY <1>1, Known
<1>3. /\ Tidy(p) /\ (p \in Loaded => running[p].cfg = task[t].prev)
      /\ Cur(t).do = "configure" /\ task[t].prev \in Values /\ task[t].kept \subseteq {p}
  BY <1>1, <1>2 DEF Within, Inv, Locking
<1>4. UNCHANGED <<running, order, open, draining, residue, leaked>>
  BY DEF Revert, instances
<1>5. RowTypes /\ DiskIsCurrent
  BY RowTyped DEF Rows
<1>6. /\ cfg' = [cfg EXCEPT ![p] = task[t].prev] /\ cfg' \in [Plugins -> Values]
      /\ cfg'[p] = task[t].prev
      /\ \A q \in Plugins \ {p} : cfg'[q] = cfg[q]
  BY <1>2, <1>3, <1>5 DEF Revert, Reverted, RowTypes
<1>7. /\ enabled' \subseteq Plugins
      /\ \A q \in Plugins \ {p} : q \in enabled' <=> q \in enabled
  <2>1. enabled' = (enabled \ {p}) \cup task[t].kept
    BY <1>2 DEF Revert
  <2> QED BY <1>3, <1>5, <2>1 DEF RowTypes
<1>8. Loaded' = Loaded
  BY <1>4 DEF Loaded
<1>9. AtRest(p)'
  BY <1>3, <1>4, <1>6, <1>8 DEF AtRest, Tidy
<1>10. CASE SaveFails /\ Leave(t, TRUE)
  <2>1. RowTypes' /\ DiskIsCurrent' /\ Frame(p)
    BY <1>4, <1>5, <1>6, <1>7, <1>8, <1>10 DEF RowTypes, DiskIsCurrent, Frame, SaveFails
  <2>2. Shape(t) /\ Left(t) /\ Passes(t) /\ ~Goes(t)
    BY <1>2, <1>10, Leaves DEF Left, Goes, Critical
  <2> QED BY <1>2, <1>9, <2>1, <2>2, Worked
<1>11. CASE SaveReverted(enabled', cfg')
  <2>1. disk' = [enabled |-> enabled', cfg |-> cfg'] /\ stale' = FALSE
    BY <1>11 DEF SaveReverted, SaveOk
  <2>2. RowTypes' /\ DiskIsCurrent' /\ Frame(p)
    BY <1>4, <1>5, <1>6, <1>7, <1>8, <2>1 DEF RowTypes, DiskIsCurrent, Frame
  <2>3. CASE Leave(t, TRUE)
    <3>1. Shape(t) /\ Left(t) /\ Passes(t) /\ ~Goes(t)
      BY <1>2, <2>3, Leaves DEF Left, Goes, Critical
    <3> QED BY <1>2, <1>9, <2>2, <3>1, Worked
  <2>4. CASE /\ task' = [task EXCEPT ![t].phase = "recover", ![t].pc = "enable"]
             /\ p \notin Loaded /\ UNCHANGED locks
    <3> DEFINE r == [task[t] EXCEPT !.phase = "recover", !.pc = "enable"]
    <3>1. /\ r \in TaskType /\ r.jobs = task[t].jobs /\ r.pc = "enable"
          /\ r.phase = "recover" /\ r.prev = task[t].prev /\ r.kept = task[t].kept
      BY <1>2 DEF TaskType, Critical
    <3>2. task' = [task EXCEPT ![t] = r]
      BY <2>4
    <3> HIDE DEF r
    <3>3. Shape(t) /\ Goes(t) /\ task'[t] = r
      BY <1>2, <2>4, <3>1, <3>2, Going DEF Critical
    <3>4. Plug(t)' = p /\ Cur(t)' = Cur(t) /\ ~Left(t) /\ Passes(t)
      BY <1>2, <2>4, <3>3, Staying DEF Left, Goes, Critical, Passes
    <3>5. Within(t)'
      BY <1>3, <1>8, <1>9, <2>4, <3>1, <3>3, <3>4 DEF Within, Saving
    <3> QED BY <1>2, <2>2, <3>3, <3>4, <3>5, Worked
  <2> QED BY <1>2, <1>11, <2>3, <2>4 DEF Revert
<1> QED BY <1>10, <1>11 DEF Revert

(* Steps outside the locks touch no table. *)
LEMMA OutsideRows ==
    ASSUME Inv, Inv', Rows, NEW t \in Tasks, UNCHANGED <<instances, settings>>,
           task[t].pc \notin Critical, task'[t].pc \notin Critical,
           \A u \in Tasks \ {t} : task'[u] = task[u],
           LockTypes', Waiting'
    PROVE  Rows'
<1>1. UNCHANGED <<running, order, open, draining, residue, leaked, enabled, cfg, disk, stale>>
  BY DEF instances, settings
<1>2. Loaded' = Loaded
  BY <1>1 DEF Loaded
<1>3. RowTypes' /\ DiskIsCurrent'
  BY <1>1, <1>2, RowTyped DEF RowTypes, DiskIsCurrent, Rows
<1>4. \A p \in Plugins : AtRest(p)' <=> AtRest(p)
  BY <1>1, <1>2 DEF AtRest, Tidy
<1>5. \A u \in Tasks \ {t} : Plug(u)' = Plug(u) /\ Cur(u)' = Cur(u)
  BY DEF Plug, Cur
<1>6. Resting'
  <2> SUFFICES ASSUME NEW p \in Plugins,
                      \A u \in Tasks : task'[u].pc \in Critical => Plug(u)' # p
               PROVE  AtRest(p)'
    BY DEF Resting
  <2>1. \A u \in Tasks : task[u].pc \in Critical => Plug(u) # p
    BY <1>5
  <2> QED BY <1>4, <2>1 DEF Rows, Resting
<1>7. Working'
  <2> SUFFICES ASSUME NEW u \in Tasks \ {t}, task'[u].pc \in Critical
               PROVE  Within(u)'
    BY DEF Working
  <2>1. Within(u) /\ task'[u] = task[u] /\ Plug(u) \in Plugins
    BY DEF Rows, Working, Inv, Locking
  <2>2. Plug(u)' = Plug(u) /\ Cur(u)' = Cur(u) /\ (Saving(u)' <=> Saving(u))
    BY <1>5, <2>1 DEF Saving
  <2>3. PICK p \in Plugins : p = Plug(u)
    BY <2>1
  <2>4. Tidy(p)' <=> Tidy(p)
    BY <1>1, <1>2 DEF Tidy
  <2>5. Bare(u)' <=> Bare(u)
    BY <1>1, <1>2, <2>1, <2>2 DEF Bare
  <2>6. Mine(u)' = Mine(u)
    BY <1>1, <2>1, <2>2 DEF Mine
  <2> QED BY <1>1, <1>2, <1>4, <2>1, <2>2, <2>3, <2>4, <2>5, <2>6 DEF Within
<1>8. TypeOK'
  <2>1. (RowTypes /\ LockTypes /\ Types => TypeOK)'
    BY AllTyped, PTL
  <2> QED BY <1>3, <2>1 DEF Inv
<1> QED BY <1>3, <1>6, <1>7, <1>8 DEF Rows

(* Asking for a lock. *)
LEMMA QueueRow ==
    ASSUME Inv, Rows, NEW t \in Tasks, task[t].pc # "lock", NEW p \in Plugins, Queue(t, p),
           \A u \in Tasks \ {t} : task'[u] = task[u], Plug(t)' = p
    PROVE  LockTypes' /\ Waiting'
<1>1. LockTypes
  BY RowTyped
<1>2. \A u \in Tasks \ {t} : Plug(u)' = Plug(u)
  BY DEF Plug, Cur
<1>3. ASSUME NEW u \in Tasks \ {t}, task[u].pc = "lock"
      PROVE  Plug(u) \in Plugins /\ (holder[Plug(u)] = u \/ u \in ToSet(waiters[Plug(u)]))
  BY <1>3 DEF Rows, Waiting, Inv, Locking
<1>4. CASE holder[p] = NoTask
  <2>1. holder' = [holder EXCEPT ![p] = t] /\ waiters' = waiters
    BY <1>4 DEF Queue
  <2>2. \A u \in Tasks : u # NoTask
    BY LifecycleAssumption
  <2>3. LockTypes' /\ holder'[p] = t
    BY <1>1, <2>1 DEF LockTypes
  <2>4. ASSUME NEW u \in Tasks \ {t}, task[u].pc = "lock"
        PROVE  holder'[Plug(u)] = u \/ u \in ToSet(waiters'[Plug(u)])
    <3>1. holder[Plug(u)] = u => holder'[Plug(u)] = u
      BY <1>1, <1>3, <1>4, <2>1, <2>2, <2>4 DEF LockTypes
    <3> QED BY <1>3, <2>1, <2>4, <3>1
  <2> QED BY <1>2, <2>3, <2>4 DEF Waiting
<1>5. CASE holder[p] # NoTask
  <2>1. waiters' = [waiters EXCEPT ![p] = Append(@, t)] /\ holder' = holder
    BY <1>5 DEF Queue
  <2>2. waiters[p] \in Seq(Tasks)
    BY <1>1 DEF LockTypes
  <2>3. /\ Append(waiters[p], t) \in Seq(Tasks) /\ t \in ToSet(Append(waiters[p], t))
        /\ \A u \in ToSet(waiters[p]) : u \in ToSet(Append(waiters[p], t))
    <3> DEFINE s == Append(waiters[p], t)
    <3>1. /\ DOMAIN s = 1..Len(waiters[p]) + 1 /\ s[Len(waiters[p]) + 1] = t
          /\ DOMAIN waiters[p] = 1..Len(waiters[p]) /\ Len(waiters[p]) \in Nat
          /\ \A i \in 1..Len(waiters[p]) : s[i] = waiters[p][i]
          /\ s \in Seq(Tasks)
      BY <2>2
    <3> HIDE DEF s
    <3> QED BY <3>1 DEF ToSet, s
  <2>4. LockTypes' /\ waiters'[p] = Append(waiters[p], t)
    BY <1>1, <2>1, <2>3 DEF LockTypes
  <2>5. \A q \in Plugins \ {p} : waiters'[q] = waiters[q]
    BY <1>1, <2>1 DEF LockTypes
  <2> QED BY <1>2, <1>3, <2>1, <2>3, <2>4, <2>5 DEF Waiting
<1> QED BY <1>4, <1>5

LEMMA AskingRows ==
    ASSUME Inv, Inv', Rows, NEW t \in Tasks, Request(t) \/ NextJob(t) \/ Scan(t) \/ Pick(t)
    PROVE  Rows'
<1>1. /\ task \in [Tasks -> TaskType] /\ task[t].pc \in {"idle", "next"}
      /\ UNCHANGED <<instances, settings>>
  BY DEF Inv, Types, Request, NextJob, Scan, Pick
<1>2. task[t].pc \notin Critical /\ task[t].pc # "lock"
  BY <1>1 DEF Critical
<1>3. LockTypes /\ Waiting
  BY RowTyped DEF Rows
<1>4. ASSUME NEW w, task' = [task EXCEPT ![t] = w], w.pc \in {"idle", "next"}, UNCHANGED locks
      PROVE  Rows'
  <2>1. /\ \A u \in Tasks \ {t} : task'[u] = task[u]
        /\ task'[t].pc \notin Critical /\ task'[t].pc # "lock"
        /\ holder' = holder /\ waiters' = waiters
    BY <1>1, <1>4 DEF Critical, locks
  <2>2. LockTypes' /\ Waiting'
    BY <1>3, <2>1 DEF LockTypes, Waiting, Plug, Cur
  <2> QED BY <1>1, <1>2, <2>1, <2>2, OutsideRows
<1>5. ASSUME NEW w, NEW p \in Plugins, task' = [task EXCEPT ![t] = w], w.pc = "lock",
             Head(w.jobs).p = p, Queue(t, p)
      PROVE  Rows'
  <2>1. /\ \A u \in Tasks \ {t} : task'[u] = task[u]
        /\ task'[t].pc \notin Critical
        /\ Plug(t)' = p
    BY <1>1, <1>5 DEF Critical, Plug, Cur
  <2>2. LockTypes' /\ Waiting'
    BY <1>2, <1>5, <2>1, QueueRow
  <2> QED BY <1>1, <1>2, <2>1, <2>2, OutsideRows
<1>6. \A jobs, S : Between("next", jobs, S).pc = "next" /\ Idle.pc = "idle"
  BY DEF Between, Idle
<1>7. CASE Request(t)
  <2>1. PICK jobs : task' = [task EXCEPT ![t] = Between("next", jobs, {})]
    BY <1>7 DEF Request
  <2> QED BY <1>4, <1>6, <1>7, <2>1 DEF Request
<1>8. CASE NextJob(t)
  <2> DEFINE w == [task[t] EXCEPT !.pc = "lock"]
  <2>1. w.pc = "lock" /\ w.jobs = task[t].jobs
    BY <1>1 DEF TaskType
  <2>2. task' = [task EXCEPT ![t] = w]
    BY <1>8 DEF NextJob, Goto
  <2> HIDE DEF w
  <2>3. Plug(t) \in Plugins
    <3>1. Plug(t)' = Plug(t) /\ task'[t].pc = "lock"
      BY <1>1, <2>1, <2>2 DEF Plug, Cur
    <3> QED BY <3>1 DEF Inv, Locking
  <2>4. PICK p \in Plugins : p = Plug(t)
    BY <2>3
  <2>5. Head(w.jobs).p = p /\ Queue(t, p)
    BY <1>8, <2>1, <2>4 DEF NextJob, Plug, Cur
  <2> QED BY <1>5, <2>1, <2>2, <2>5
<1>9. CASE Scan(t)
  <2>1. \/ task' = [task EXCEPT ![t] = Between("next", <<>>, enabled)]
        \/ task' = [task EXCEPT ![t] = Idle]
    BY <1>9 DEF Scan
  <2> QED BY <1>4, <1>6, <1>9, <2>1 DEF Scan
<1>10. CASE Pick(t)
  <2>1. CASE task' = [task EXCEPT ![t] = Idle] /\ UNCHANGED locks
    BY <1>4, <1>6, <2>1
  <2>2. CASE \E p \in Startable(task[t].pending) :
            /\ task' = [task EXCEPT ![t] =
                 Between("lock", <<Job("restore", p, "none")>>, task[t].pending \ {p})]
            /\ Queue(t, p)
    <3>1. PICK p \in Startable(task[t].pending) :
            /\ task' = [task EXCEPT ![t] =
                 Between("lock", <<Job("restore", p, "none")>>, task[t].pending \ {p})]
            /\ Queue(t, p)
      BY <2>2
    <3>2. p \in Plugins
      BY <1>1 DEF Startable, TaskType
    <3> DEFINE w == Between("lock", <<Job("restore", p, "none")>>, task[t].pending \ {p})
    <3>3. w.pc = "lock" /\ Head(w.jobs).p = p
      BY DEF Between, Job
    <3>4. task' = [task EXCEPT ![t] = w] /\ Queue(t, p)
      BY <3>1
    <3> HIDE DEF w
    <3> QED BY <1>5, <3>2, <3>3, <3>4
  <2> QED BY <1>10, <2>1, <2>2 DEF Pick
<1> QED BY <1>7, <1>8, <1>9, <1>10

LEMMA CancelRows == ASSUME Inv, Inv', Rows, NEW t \in Tasks, Cancel(t) PROVE Rows'
<1>1. UNCHANGED <<running, order, settings>> /\ task \in [Tasks -> TaskType]
  BY DEF Cancel, Inv, Types
<1>2. CASE task[t].pc = "lock"
  <2>1. /\ task' = [task EXCEPT ![t] = Idle]
        /\ UNCHANGED <<instances, settings>>
    BY <1>1, <1>2 DEF Cancel, instances
  <2>2. PICK p \in Plugins : p = Plug(t)
    BY <1>2 DEF Inv, Locking
  <2>3. CASE holder[p] = t
    <3>1. Leave(t, TRUE) /\ HasLock(t)
      BY <1>2, <2>1, <2>2, <2>3 DEF Cancel, Leave, HasLock
    <3>2. InLock(t) /\ AtRest(p)
      BY <2>2, <3>1, Entry
    <3>3. Frame(p) /\ RowTypes' /\ DiskIsCurrent' /\ AtRest(p)'
      BY <2>1, <3>2, QuietRow
    <3>4. Shape(t) /\ Left(t) /\ Passes(t) /\ ~Goes(t)
      BY <3>1, <3>2, Leaves DEF Left, Goes, Critical
    <3> QED BY <2>2, <3>2, <3>3, <3>4, Worked
  <2>4. CASE holder[p] # t
    <3>1. waiters' = [waiters EXCEPT ![p] = Without(@, t)] /\ holder' = holder
      BY <1>2, <2>2, <2>4 DEF Cancel
    <3>2. LockTypes /\ waiters[p] \in Seq(Tasks)
      BY RowTyped DEF LockTypes
    <3>3. /\ Without(waiters[p], t) \in Seq(Tasks)
          /\ \A u : u # t => (u \in ToSet(Without(waiters[p], t)) <=> u \in ToSet(waiters[p]))
      BY <3>2, WithoutOne
    <3>4. /\ LockTypes' /\ waiters'[p] = Without(waiters[p], t)
          /\ \A q \in Plugins \ {p} : waiters'[q] = waiters[q]
      BY <3>1, <3>2, <3>3 DEF LockTypes
    <3>5. Idle.pc = "idle"
      BY DEF Idle, Between
    <3>6. /\ \A u \in Tasks \ {t} : task'[u] = task[u] /\ Plug(u)' = Plug(u)
          /\ task'[t].pc \notin Critical /\ task'[t].pc # "lock"
          /\ task[t].pc \notin Critical
      BY <1>1, <1>2, <2>1, <3>5 DEF Critical, Plug, Cur
    <3>7. \A u \in Tasks \ {t} : task[u].pc = "lock" =>
            /\ Plug(u) \in Plugins
            /\ holder[Plug(u)] = u \/ u \in ToSet(waiters[Plug(u)])
      BY DEF Rows, Waiting, Inv, Locking
    <3>8. Waiting'
      BY <3>1, <3>3, <3>4, <3>6, <3>7 DEF Waiting
    <3> QED BY <2>1, <3>4, <3>6, <3>8, OutsideRows
  <2> QED BY <2>3, <2>4
<1>3. CASE task[t].pc = "deps"
  <2>1. task[t].pc \in Critical \ {"rollback", "revert"}
    BY <1>3 DEF Critical
  <2>2. PICK p \in Plugins : p = Plug(t) /\ InLock(t) /\ Within(t)
    BY <2>1, Known
  <2>3. EnableCancelled(t) /\ UNCHANGED <<instances, settings>>
    BY <1>1, <1>3 DEF Cancel, instances
  <2>4. AtRest(p) /\ p \notin Loaded
    BY <1>3, <2>2 DEF Within
  <2>5. /\ Frame(p) /\ RowTypes' /\ DiskIsCurrent' /\ AtRest(p)'
        /\ p \notin Loaded'
    BY <2>3, <2>4, QuietRow
  <2> QED BY <2>1, <2>2, <2>3, <2>5, ReturnRows
<1>4. CASE task[t].pc \in {"setup", "teardown"}
  <2>1. task[t].pc \in Critical
    BY <1>4 DEF Critical
  <2>2. PICK p \in Plugins : p = Plug(t) /\ InLock(t) /\ Within(t) /\ task[t] \in TaskType
    BY <2>1, Known
  <2>3. UNCHANGED <<instances, settings, locks>>
    BY <1>1, <1>4 DEF Cancel, instances
  <2>4. PICK pc \in {"unwind", "teardown"} :
          /\ task' = [task EXCEPT ![t] = [task[t] EXCEPT !.raise = "CancelledError", !.pc = pc]]
          /\ pc = "teardown" => task[t].pc = "teardown"
          /\ pc = "unwind" => task[t].pc = "setup"
    BY <1>1, <1>4 DEF Cancel
  <2> DEFINE r == [task[t] EXCEPT !.raise = "CancelledError", !.pc = pc]
  <2>5. /\ r \in TaskType /\ r.jobs = task[t].jobs /\ r.pc = pc
        /\ r.inst = task[t].inst /\ r.phase = task[t].phase
        /\ r.was = task[t].was /\ r.prev = task[t].prev /\ r.kept = task[t].kept
    BY <2>2 DEF TaskType, Critical
  <2>6. task' = [task EXCEPT ![t] = r]
    BY <2>4
  <2> HIDE DEF r
  <2>7. Shape(t) /\ Goes(t) /\ task'[t] = r
    BY <2>2, <2>3, <2>5, <2>6, Going DEF Critical
  <2>8. /\ Plug(t)' = p /\ Cur(t)' = Cur(t) /\ ~Left(t) /\ Passes(t)
        /\ UNCHANGED <<enabled, open, draining, leaked>>
    BY <2>2, <2>3, <2>7, Staying DEF Left, Goes, Critical, Passes, settings, instances
  <2>9. Frame(p) /\ RowTypes' /\ DiskIsCurrent' /\ ((p \in Loaded)' <=> p \in Loaded)
    BY <2>3, QuietRow
  <2>10. Bare(t)
    BY <1>4, <2>2 DEF Within
  <2>11. Bare(t)'
    BY <2>2, <2>5, <2>7, <2>8, <2>9, <2>10 DEF Bare
  <2>12. Within(t)'
    BY <2>2, <2>4, <2>5, <2>7, <2>8, <2>11 DEF Within, Saving
  <2> QED BY <2>2, <2>7, <2>8, <2>9, <2>12, Worked
<1>5. CASE task[t].pc = "unwind"
  <2>1. task[t].pc \in Critical \ {"rollback", "revert"}
    BY <1>5 DEF Critical
  <2>2. PICK p \in Plugins : p = Plug(t) /\ InLock(t) /\ Within(t)
    BY <2>1, Known
  <2>3. /\ EnableCancelled(t) /\ leaked' = leaked \cup {p}
        /\ IF Mine(t) # {}
           THEN Close(p, LastOpened(Mine(t))) /\ UNCHANGED residue
           ELSE residue' = [residue EXCEPT ![p] = {"module"}] /\ UNCHANGED <<open, draining>>
    BY <1>5, <2>2 DEF Cancel
  <2>4. p \notin Loaded
    BY <1>5, <2>2 DEF Within, Bare
  <2>5. RowTypes /\ DiskIsCurrent
    BY RowTyped DEF Rows
  <2>6. Frame(p) /\ RowTypes' /\ DiskIsCurrent' /\ Loaded' = Loaded
    <3>1. CASE Mine(t) # {}
      <4>1. leaked \subseteq leaked' /\ leaked' \subseteq leaked \cup {p}
        BY <2>3
      <4> QED BY <1>1, <2>2, <2>3, <3>1, <4>1, ClosingFrame
    <3>2. CASE Mine(t) = {}
      <4>1. residue' = [residue EXCEPT ![p] = {"module"}] /\ UNCHANGED <<open, draining>>
        BY <2>3, <3>2
      <4>2. UNCHANGED <<running, order, enabled, cfg, disk, stale>> /\ Loaded' = Loaded
        BY <1>1 DEF settings, Loaded
      <4> QED BY <2>3, <2>5, <4>1, <4>2 DEF RowTypes, DiskIsCurrent, Frame
    <3> QED BY <3>1, <3>2
  <2>7. AtRest(p)'
    BY <2>3, <2>4, <2>6 DEF AtRest, Tidy
  <2>8. p \notin Loaded'
    BY <2>4, <2>6
  <2> QED BY <2>1, <2>2, <2>3, <2>6, <2>7, <2>8, ReturnRows
<1> QED BY <1>2, <1>3, <1>4, <1>5 DEF Cancel

(* A stubborn task of a closed instance ends. *)
LEMMA DrainedRows ==
    ASSUME Inv, Inv', Rows, NEW p \in Plugins, Drained(p) PROVE Rows'
<1>1. /\ UNCHANGED <<running, order, open, residue, leaked, enabled, cfg, disk, stale,
                     holder, waiters, task>>
      /\ draining' \in [Plugins -> SUBSET (Instances \X (1..Accounts))]
      /\ \A q \in Plugins : draining'[q] \subseteq draining[q]
  BY RowTyped DEF Drained, settings, locks, RowTypes
<1>2. Loaded' = Loaded
  BY <1>1 DEF Loaded
<1>3. RowTypes' /\ LockTypes' /\ DiskIsCurrent' /\ Waiting'
  BY <1>1, <1>2, RowTyped DEF RowTypes, LockTypes, DiskIsCurrent, Rows, Waiting, Plug, Cur
<1>4. \A q \in Plugins : /\ Tidy(q) => Tidy(q)'
                         /\ AtRest(q) => AtRest(q)'
  BY <1>1, <1>2 DEF Tidy, AtRest
<1>5. Resting'
  BY <1>1, <1>4 DEF Rows, Resting, Plug, Cur
<1>6. Working'
  <2> SUFFICES ASSUME NEW t \in Tasks, task[t].pc \in Critical
               PROVE  Within(t)'
    BY <1>1 DEF Working
  <2>1. PICK q \in Plugins : q = Plug(t)
    BY DEF Inv, Locking
  <2>2. Within(t)
    BY DEF Rows, Working
  <2>3. /\ Plug(t)' = q /\ Cur(t)' = Cur(t) /\ (Saving(t)' <=> Saving(t))
        /\ Mine(t)' = Mine(t) /\ task' = task
    BY <1>1, <2>1 DEF Plug, Cur, Saving, Mine
  <2>4. Bare(t) => Bare(t)'
    BY <1>1, <1>2, <2>1, <2>3 DEF Bare
  <2>5. draining[q] = {} => draining'[q] = {}
    BY <1>1
  <2> QED BY <1>1, <1>2, <1>4, <2>1, <2>2, <2>3, <2>4, <2>5 DEF Within
<1>7. TypeOK'
  <2>1. (RowTypes /\ LockTypes /\ Types => TypeOK)'
    BY AllTyped, PTL
  <2> QED BY <1>3, <2>1 DEF Inv
<1> QED BY <1>3, <1>5, <1>6, <1>7 DEF Rows

LEMMA SameRows == ASSUME Inv, Rows, UNCHANGED vars PROVE Rows'
<1>1. UNCHANGED <<running, order, open, draining, residue, enabled, cfg, disk, stale,
                  holder, waiters, task, leaked>>
  BY DEF vars
<1>2. Loaded' = Loaded /\ \A t \in Tasks : Plug(t)' = Plug(t) /\ Cur(t)' = Cur(t)
  BY <1>1 DEF Loaded, Plug, Cur
<1>3. TypeOK' /\ Waiting' /\ DiskIsCurrent'
  BY <1>1, <1>2 DEF Rows, TypeOK, Waiting, DiskIsCurrent
<1>4. \A p \in Plugins : (Tidy(p)' <=> Tidy(p)) /\ (AtRest(p)' <=> AtRest(p))
  BY <1>1, <1>2 DEF Tidy, AtRest
<1>5. Resting'
  BY <1>1, <1>2, <1>4 DEF Rows, Resting
<1>6. ASSUME NEW t \in Tasks, task[t].pc \in Critical PROVE Within(t)'
  <2>1. PICK q \in Plugins : q = Plug(t)
    BY <1>6 DEF Inv, Locking
  <2>2. Within(t)
    BY <1>6 DEF Rows, Working
  <2>3. /\ Plug(t)' = q /\ Cur(t)' = Cur(t) /\ (Saving(t)' <=> Saving(t))
        /\ Mine(t)' = Mine(t) /\ (Bare(t)' <=> Bare(t))
    BY <1>1, <1>2, <2>1 DEF Saving, Mine, Bare
  <2> QED BY <1>1, <1>2, <1>4, <2>1, <2>2, <2>3 DEF Within
<1> QED BY <1>1, <1>3, <1>5, <1>6 DEF Rows, Working

LEMMA InitRows == Init => Rows
<1> SUFFICES ASSUME Init PROVE Rows
  OBVIOUS
<1>1. Inv
  BY InitInv
<1>2. Loaded = {} /\ \A t \in Tasks : task[t].pc \in {"idle", "next"}
  BY DEF Init, Loaded, Idle, Between
<1>3. RowTypes /\ LockTypes
  <2>1. ToSet(order) = Loaded /\ IsInjective(order)
    BY <1>2 DEF Init, ToSet, IsInjective
  <2>2. running \in [Plugins -> [inst : Instances \cup {0}, cfg : Values \cup {"none"}]]
    BY DEF Init, NoInstance
  <2>3. /\ disk \in [enabled : SUBSET Plugins, cfg : [Plugins -> Values]]
        /\ enabled \subseteq Plugins /\ cfg \in [Plugins -> Values]
    BY DEF Init
  <2>4. /\ open \in [Plugins -> SUBSET (Instances \X (1..Accounts))]
        /\ draining \in [Plugins -> SUBSET (Instances \X (1..Accounts))]
        /\ residue \in [Plugins -> SUBSET {"module", "policy"}]
    BY DEF Init
  <2>5. LockTypes
    BY DEF Init, LockTypes
  <2> QED BY <2>1, <2>2, <2>3, <2>4, <2>5 DEF Init, RowTypes
<1>4. TypeOK
  BY <1>1, <1>3, AllTyped DEF Inv
<1>5. Working /\ Waiting
  BY <1>2 DEF Working, Waiting, Critical
<1>6. Resting
  BY <1>2 DEF Init, Resting, AtRest, Tidy
<1>7. DiskIsCurrent
  BY DEF Init, DiskIsCurrent
<1> QED BY <1>4, <1>5, <1>6, <1>7 DEF Rows

LEMMA NextRows == Inv /\ Inv' /\ Rows /\ [Next]_vars => Rows'
<1> SUFFICES ASSUME Inv, Inv', Rows, [Next]_vars PROVE Rows'
  OBVIOUS
<1>1. ASSUME NEW t \in Tasks, Request(t) \/ Step(t) \/ Cancel(t) PROVE Rows'
  BY <1>1, AskingRows, EnterEnableRows, EnterDisableRows, EnterConfigureRows, StartEnableRows,
     ImportRows, SetupFailsRows, SetupReturnsRows, UnwindRows, TeardownRows, DisabledRows,
     ConfirmRows, RollbackRows, RevertRows, CancelRows DEF Step
<1>2. ASSUME NEW p \in Plugins, Drained(p) PROVE Rows'
  BY <1>2, DrainedRows
<1>3. CASE UNCHANGED vars
  BY <1>3, SameRows
<1> QED BY <1>1, <1>2, <1>3 DEF Next

LEMMA RowsInvariance == Spec => []Rows
<1>1. Init /\ [][Next]_vars /\ []Inv => []Rows
  BY InitRows, NextRows, PTL
<1> QED BY <1>1, Invariance, PTL DEF Spec

(* A plugin whose lock is not held by a request at work is at rest. *)
LEMMA RestingPlugins ==
    ASSUME Inv, Rows, NEW p \in Plugins, ~Busy(p)
    PROVE  AtRest(p)
<1>1. ASSUME NEW t \in Tasks, task[t].pc \in Critical PROVE Plug(t) # p
  <2>1. holder[Plug(t)] = t /\ t # NoTask /\ task[t].pc # "lock"
    BY <1>1, LifecycleAssumption DEF Inv, Locking, Critical
  <2> QED BY <2>1 DEF Busy
<1> QED BY <1>1 DEF Rows, Resting

(* One life of a plugin never reaches into the next: its contexts and       *)
(* stubborn tasks belong to one instance, and a plugin that is neither      *)
(* loaded nor worked on has nothing left; the only exception is a plugin    *)
(* whose failed setup was cancelled during its cleanup.                     *)
THEOREM InstancesDoNotMix == Spec => []InstancesAreSeparate
<1>1. Inv /\ Rows => InstancesAreSeparate
  <2> SUFFICES ASSUME Inv, Rows PROVE InstancesAreSeparate
    OBVIOUS
  <2>1. ASSUME NEW p \in Plugins \ leaked
        PROVE  \A c, d \in open[p] \cup draining[p] : c[1] = d[1]
    <3>1. CASE \A t \in Tasks : task[t].pc \in Critical => Plug(t) # p
      <4>1. Tidy(p)
        BY <3>1 DEF Rows, Resting, AtRest
      <4> QED BY <4>1 DEF Tidy
    <3>2. ASSUME NEW t \in Tasks, task[t].pc \in Critical, Plug(t) = p
          PROVE  \A c, d \in open[p] \cup draining[p] : c[1] = d[1]
      <4>1. Within(t)
        BY <3>2 DEF Rows, Working
      <4>2. Tidy(p) \/ Bare(t)
        BY <3>2, <4>1 DEF Within, Critical, AtRest
      <4> QED BY <3>2, <4>2 DEF Tidy, Bare
    <3> QED BY <3>1, <3>2
  <2>2. ASSUME NEW p \in Plugins \ leaked, ~Busy(p), p \notin Loaded
        PROVE  open[p] = {} /\ residue[p] = {}
    BY <2>2, RestingPlugins DEF AtRest, Tidy
  <2> QED BY <2>1, <2>2 DEF InstancesAreSeparate, OneInstance, CleanWhenUnloaded, Rows
<1> QED BY <1>1, Invariance, RowsInvariance, PTL

(* What runs, what the console shows and what a restart would load agree    *)
(* through every mix of saves that were applied, failed, were undone or     *)
(* cancelled, unless the last attempt to write the file failed.             *)
THEOREM SettingsAlwaysAgree == Spec => []SettingsAgree
<1>1. Inv /\ Rows => SettingsAgree
  <2> SUFFICES ASSUME Inv, Rows PROVE SettingsAgree
    OBVIOUS
  <2>1. RunsItsConfiguration
    BY RestingPlugins DEF RunsItsConfiguration, AtRest, Loaded
  <2> QED BY <2>1 DEF SettingsAgree, Rows
<1> QED BY <1>1, Invariance, RowsInvariance, PTL

(* Restoring never switches on a plugin the user switched off while it was  *)
(* waiting for its turn.                                                    *)
THEOREM RestoresRespectDisables == Spec => RestoreRespectsDisable
<1>1. ASSUME Inv, Rows, NEW t \in Tasks, task[t].jobs # <<>>, Cur(t).do = "restore", Step(t)
      PROVE  enabled' \subseteq enabled
  <2>1. CASE SetupReturns(t)
    <3>1. task[t].pc \in Critical
      BY <2>1 DEF SetupReturns, Critical
    <3>2. Plug(t) \in enabled
      BY <1>1, <3>1 DEF Rows, Working, Within
    <3> QED BY <2>1, <3>2 DEF SetupReturns, EnabledWith, settings
  <2>2. CASE Disabled(t)
    BY <1>1, <2>2 DEF Disabled, Saving
  <2>3. CASE Revert(t)
    BY <1>1, <2>3 DEF Revert, Inv, Locking
  <2>4. CASE EnterConfigure(t)
    BY <1>1, <2>4 DEF EnterConfigure
  <2> QED BY <1>1, <2>1, <2>2, <2>3, <2>4 DEF Step, NextJob, Scan, Pick, EnterEnable, EnterDisable,
         StartEnable, Import, SetupFails, Unwind, Teardown, Confirm, Rollback, settings
<1>2. Inv /\ Rows => \A t \in Tasks :
        (task[t].jobs # <<>> /\ Cur(t).do = "restore" /\ Step(t)) => enabled' \subseteq enabled
  BY <1>1
<1> QED BY <1>2, Invariance, RowsInvariance, PTL DEF RestoreRespectsDisable
=============================================================================
