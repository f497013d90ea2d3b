------------------------ MODULE PluginGovernor_proofs ------------------------
(***************************************************************************)
(* Proofs about PluginGovernor, for any plugins, tasks, providers, limits  *)
(* and depth of nesting.                                                   *)
(*                                                                         *)
(* Inv is the inductive invariant.  AllSound says of every budget, those   *)
(* of earlier lives included, that exactly the tasks waiting in it stand   *)
(* in its queue, each once; that permits add up; that a free permit has    *)
(* somebody to hand it on; and that the counts stay within the threshold.  *)
(* Levels and OnlyTopWaits say how the executions of one task are nested,  *)
(* Apart that two plugins never share a budget.                            *)
(*                                                                         *)
(* The proof has three layers: what the operations of a semaphore make of  *)
(* one budget; what a task's frames that start, end or go on make of the   *)
(* sets of frames and their numbers; and the actions, each of which does   *)
(* one thing of either kind.                                               *)
(***************************************************************************)
EXTENDS PluginGovernor, DataLemmas

-----------------------------------------------------------------------------
(* Budgets: what the operations of a semaphore and a circuit do to one.     *)

Waiter == [who : Calls, st : {"waiting", "granted", "cancelled"}]

\* The tasks ws stand in the queue, each once.
Stand(b, ws) ==
    /\ \A i, j \in DOMAIN b.queue : b.queue[i].who = b.queue[j].who => i = j
    /\ \A c : c \in ws <=> \E i \in DOMAIN b.queue : b.queue[i].who = c

\* With n permits in use none is lost.
Adds(b, n) ==
    IsFiniteSet(Granted(b)) /\ b.value + n + Cardinality(Granted(b)) = b.limits.concurrency

HandsOver(b) == Waiting(b) # {} /\ b.value > 0 => Granted(b) # {}
Counted(b) == \A op \in Operations : b.failures[op] <= b.limits.threshold

\* All of that depends on a few fields only.
LEMMA SameSemaphore ==
    ASSUME NEW b, NEW d, d.queue = b.queue, d.value = b.value, d.limits = b.limits
    PROVE  /\ \A ws : Stand(b, ws) => Stand(d, ws)
           /\ \A n : Adds(b, n) => Adds(d, n)
           /\ HandsOver(b) => HandsOver(d)
BY DEF Stand, Adds, HandsOver, Granted, Waiting

LEMMA LimitsAre ==
    ASSUME NEW l \in {Declared, Default}
    PROVE  l \in Limits /\ l.concurrency \in Nat \ {0} /\ l.threshold \in Nat \ {0}
BY GovernorAssumption DEF Limits

LEMMA BudgetIs ==
    ASSUME NEW b \in BudgetRec
    PROVE  /\ b.limits \in {Declared, Default} /\ b.limits.concurrency \in Nat \ {0}
           /\ b.limits.threshold \in Nat \ {0}
           /\ b.value \in Nat /\ b.queue \in Seq(Waiter)
           /\ b.failures \in [Operations -> Nat] /\ b.open \in [Operations -> BOOLEAN]
<1>1. b.limits \in {Declared, Default}
  BY DEF BudgetRec
<1> QED BY <1>1, LimitsAre DEF BudgetRec, Waiter

LEMMA FreshIs ==
    ASSUME NEW l \in {Declared, Default}
    PROVE  /\ Fresh(l) \in BudgetRec /\ Stand(Fresh(l), {}) /\ Adds(Fresh(l), 0)
           /\ HandsOver(Fresh(l)) /\ Counted(Fresh(l))
           /\ \A op \in Operations : Fresh(l).failures[op] = 0
<1>1. l.concurrency \in Nat /\ l.threshold \in Nat
  BY LimitsAre
<1>2. <<>> \in Seq(Waiter) /\ DOMAIN <<>> = {}
  OBVIOUS
<1>3. Fresh(l) \in BudgetRec
  BY <1>1, <1>2 DEF Fresh, BudgetRec, Waiter
<1>4. /\ Fresh(l).queue = <<>> /\ Fresh(l).value = l.concurrency /\ Fresh(l).limits = l
      /\ \A op \in Operations : Fresh(l).failures[op] = 0
  BY DEF Fresh
<1>5. Granted(Fresh(l)) = {} /\ Waiting(Fresh(l)) = {}
  BY <1>2, <1>4 DEF Granted, Waiting, ToSet
<1>6. Adds(Fresh(l), 0)
  BY <1>1, <1>4, <1>5, FS_EmptySet DEF Adds
<1> QED BY <1>1, <1>2, <1>3, <1>4, <1>5, <1>6 DEF Stand, HandsOver, Counted

LEMMA GrantedIs ==
    \A b, w : w \in Granted(b) <=> \E j \in DOMAIN b.queue : w = b.queue[j] /\ w.st = "granted"
BY DEF Granted, ToSet

\* The future of the i-th waiter is done.
LEMMA FutureDone ==
    ASSUME NEW q \in Seq(Waiter), NEW i \in DOMAIN q, NEW st \in {"granted", "cancelled"}
    PROVE  LET r == [q EXCEPT ![i].st = st] IN
           /\ r \in Seq(Waiter) /\ DOMAIN r = DOMAIN q
           /\ \A j \in DOMAIN q : j # i => r[j] = q[j]
           /\ \A j \in DOMAIN q : r[j].who = q[j].who
           /\ r[i].st = st
<1> DEFINE e == [q[i] EXCEPT !.st = st]
<1>1. q[i] \in Waiter
  OBVIOUS
<1>2. e \in Waiter /\ e.who = q[i].who /\ e.st = st
  BY <1>1 DEF Waiter
<1>3. [q EXCEPT ![i].st = st] = [q EXCEPT ![i] = e]
  OBVIOUS
<1> HIDE DEF e
<1> QED BY <1>2, <1>3

LEMMA GrantedOne ==
    ASSUME NEW b \in BudgetRec, NEW ws, Stand(b, ws), NEW i \in DOMAIN b.queue, NEW d,
           d.queue = [b.queue EXCEPT ![i].st = "granted"], b.queue[i].st = "waiting"
    PROVE  Stand(d, ws) /\ \E w : w \notin Granted(b) /\ Granted(d) = Granted(b) \cup {w}
<1> DEFINE q == b.queue  r == [q EXCEPT ![i].st = "granted"]
<1>1. q \in Seq(Waiter) /\ q = b.queue /\ r = d.queue /\ q[i].st = "waiting" /\ i \in DOMAIN q
  BY BudgetIs
<1>2. /\ DOMAIN r = DOMAIN q
      /\ \A j \in DOMAIN q : j # i => r[j] = q[j]
      /\ \A j \in DOMAIN q : r[j].who = q[j].who
      /\ r[i].st = "granted"
  BY <1>1, FutureDone
<1> HIDE DEF q, r
<1>3. Stand(d, ws)
  BY <1>1, <1>2 DEF Stand
<1>4. Granted(d) = Granted(b) \cup {r[i]}
  <2>1. ASSUME NEW w \in Granted(d) PROVE w \in Granted(b) \cup {r[i]}
    <3>1. PICK j \in DOMAIN r : w = r[j] /\ w.st = "granted"
      BY <1>1, GrantedIs
    <3> QED BY <1>1, <1>2, <3>1, GrantedIs
  <2>2. ASSUME NEW w \in Granted(b) PROVE w \in Granted(d)
    <3>1. PICK j \in DOMAIN q : w = q[j] /\ w.st = "granted"
      BY <1>1, GrantedIs
    <3>2. j # i /\ w = r[j]
      BY <1>1, <1>2, <3>1
    <3> QED BY <1>1, <1>2, <3>1, <3>2, GrantedIs
  <2>3. r[i] \in Granted(d)
    BY <1>1, <1>2, GrantedIs
  <2> QED BY <2>1, <2>2, <2>3
<1>5. ASSUME r[i] \in Granted(b) PROVE FALSE
  <2>1. PICK j \in DOMAIN q : q[j] = r[i] /\ r[i].st = "granted"
    BY <1>1, <1>5, GrantedIs
  <2>2. q[j].who = q[i].who
    BY <1>1, <1>2, <2>1
  <2>3. j = i
    BY <1>1, <2>2 DEF Stand
  <2> QED BY <1>1, <2>1, <2>3
<1> QED BY <1>3, <1>4, <1>5

LEMMA CancelledOne ==
    ASSUME NEW b \in BudgetRec, NEW ws, Stand(b, ws), NEW i \in DOMAIN b.queue, NEW d,
           d.queue = [b.queue EXCEPT ![i].st = "cancelled"], b.queue[i].st = "waiting"
    PROVE  Stand(d, ws) /\ Granted(d) = Granted(b) /\ Waiting(d) \subseteq Waiting(b)
<1> DEFINE q == b.queue  r == [q EXCEPT ![i].st = "cancelled"]
<1>1. q \in Seq(Waiter) /\ q = b.queue /\ r = d.queue /\ q[i].st = "waiting" /\ i \in DOMAIN q
  BY BudgetIs
<1>2. /\ DOMAIN r = DOMAIN q
      /\ \A j \in DOMAIN q : j # i => r[j] = q[j]
      /\ \A j \in DOMAIN q : r[j].who = q[j].who
      /\ r[i].st = "cancelled"
  BY <1>1, FutureDone
<1> HIDE DEF q, r
<1>3. Stand(d, ws)
  BY <1>1, <1>2 DEF Stand
<1>4. Granted(d) = Granted(b)
  <2>1. ASSUME NEW w \in Granted(d) PROVE w \in Granted(b)
    <3>1. PICK j \in DOMAIN r : w = r[j] /\ w.st = "granted"
      BY <1>1, GrantedIs
    <3>2. j # i /\ w = q[j]
      BY <1>2, <3>1
    <3> QED BY <1>1, <1>2, <3>1, <3>2, GrantedIs
  <2>2. ASSUME NEW w \in Granted(b) PROVE w \in Granted(d)
    <3>1. PICK j \in DOMAIN q : w = q[j] /\ w.st = "granted"
      BY <1>1, GrantedIs
    <3>2. j # i /\ w = r[j]
      BY <1>1, <1>2, <3>1
    <3> QED BY <1>1, <1>2, <3>1, <3>2, GrantedIs
  <2> QED BY <2>1, <2>2
<1>5. Waiting(d) \subseteq Waiting(b)
  BY <1>1, <1>2 DEF Waiting
<1> QED BY <1>3, <1>4, <1>5

LEMMA WokenIs ==
    ASSUME NEW b \in BudgetRec, b.value > 0, NEW ws, Stand(b, ws)
    PROVE  /\ Woken(b) \in BudgetRec /\ Stand(Woken(b), ws) /\ HandsOver(Woken(b))
           /\ \A n \in Nat : Adds(b, n) => Adds(Woken(b), n)
           /\ Woken(b).limits = b.limits /\ Woken(b).failures = b.failures
<1>1. CASE Waiting(b) = {}
  BY <1>1 DEF Woken, HandsOver
<1>2. CASE Waiting(b) # {}
  <2> DEFINE i == Min(Waiting(b))  d == Woken(b)
  <2>1. b.queue \in Seq(Waiter) /\ b.value \in Nat
    BY BudgetIs
  <2>2. i \in DOMAIN b.queue /\ b.queue[i].st = "waiting"
    <3>1. Waiting(b) \in SUBSET Nat
      BY <2>1 DEF Waiting
    <3>2. i \in Waiting(b)
      BY <1>2, <3>1, Least
    <3> QED BY <3>2 DEF Waiting
  <2>3. d = [b EXCEPT !.value = @ - 1, !.queue[i].st = "granted"]
    BY <1>2 DEF Woken
  <2> HIDE DEF i, d
  <2>4. /\ d.value = b.value - 1 /\ d.queue = [b.queue EXCEPT ![i].st = "granted"]
        /\ d.limits = b.limits /\ d.failures = b.failures /\ d.open = b.open
    BY <2>3 DEF BudgetRec
  <2>5. d \in BudgetRec
    <3>1. [b.queue EXCEPT ![i].st = "granted"] \in Seq(Waiter)
      BY <2>1, <2>2, FutureDone
    <3>2. b.value - 1 \in Nat
      BY <2>1
    <3> QED BY <2>3, <3>1, <3>2 DEF BudgetRec, Waiter
  <2>6. PICK w : Stand(d, ws) /\ w \notin Granted(b) /\ Granted(d) = Granted(b) \cup {w}
    BY <2>2, <2>4, GrantedOne
  <2>7. ASSUME NEW n \in Nat, Adds(b, n) PROVE Adds(d, n)
    <3>1. IsFiniteSet(Granted(d)) /\ Cardinality(Granted(d)) = Cardinality(Granted(b)) + 1
      BY <2>6, <2>7, OneMore DEF Adds
    <3>2. Cardinality(Granted(b)) \in Nat
      BY <2>7, FS_CardinalityType DEF Adds
    <3>3. b.value + n + Cardinality(Granted(b)) = b.limits.concurrency
      BY <2>7 DEF Adds
    <3>4. d.value + n + Cardinality(Granted(d)) = d.limits.concurrency
      BY <2>1, <2>4, <3>1, <3>2, <3>3
    <3> QED BY <3>1, <3>4 DEF Adds
  <2>8. HandsOver(d)
    BY <2>6 DEF HandsOver
  <2> QED BY <2>4, <2>5, <2>6, <2>7, <2>8 DEF d
<1> QED BY <1>1, <1>2

LEMMA ReleasedIs ==
    ASSUME NEW b \in BudgetRec, NEW ws, Stand(b, ws)
    PROVE  /\ Released(b) \in BudgetRec /\ Stand(Released(b), ws) /\ HandsOver(Released(b))
           /\ \A n \in Nat : Adds(b, n + 1) => Adds(Released(b), n)
           /\ Released(b).limits = b.limits /\ Released(b).failures = b.failures
<1> DEFINE d == [b EXCEPT !.value = @ + 1]
<1>1. b.value \in Nat /\ b.value + 1 \in Nat /\ b.value + 1 > 0
  BY BudgetIs
<1>2. /\ d \in BudgetRec /\ d.value = b.value + 1 /\ d.queue = b.queue
      /\ d.limits = b.limits /\ d.failures = b.failures
  BY <1>1 DEF BudgetRec
<1>3. Released(b) = Woken(d)
  BY DEF Released
<1> HIDE DEF d
<1>4. Stand(d, ws)
  BY <1>2 DEF Stand
<1>5. ASSUME NEW n \in Nat, Adds(b, n + 1) PROVE Adds(d, n)
  <2>1. Granted(d) = Granted(b)
    BY <1>2 DEF Granted
  <2>2. Cardinality(Granted(b)) \in Nat
    BY <1>5, FS_CardinalityType DEF Adds
  <2> QED BY <1>1, <1>2, <1>5, <2>1, <2>2 DEF Adds
<1> QED BY <1>1, <1>2, <1>3, <1>4, <1>5, WokenIs

LEMMA HandsOnIs ==
    ASSUME NEW b \in BudgetRec, NEW ws, Stand(b, ws)
    PROVE  /\ HandsOn(b) \in BudgetRec /\ Stand(HandsOn(b), ws) /\ HandsOver(HandsOn(b))
           /\ \A n \in Nat : Adds(b, n) => Adds(HandsOn(b), n)
           /\ HandsOn(b).limits = b.limits /\ HandsOn(b).failures = b.failures
<1>1. CASE b.value > 0
  BY <1>1, WokenIs DEF HandsOn
<1>2. CASE ~(b.value > 0)
  BY <1>2 DEF HandsOn, HandsOver
<1> QED BY <1>1, <1>2

LEMMA QueuedIs ==
    ASSUME NEW b \in BudgetRec, NEW ws, Stand(b, ws), NEW c \in Calls, c \notin ws
    PROVE  /\ Queued(b, c) \in BudgetRec /\ Stand(Queued(b, c), ws \cup {c})
           /\ Locked(b) /\ HandsOver(b) => HandsOver(Queued(b, c))
           /\ \A n : Adds(b, n) => Adds(Queued(b, c), n)
           /\ Queued(b, c).limits = b.limits /\ Queued(b, c).failures = b.failures
<1> DEFINE d == Queued(b, c)  w == [who |-> c, st |-> "waiting"]  q == b.queue
<1>1. q \in Seq(Waiter) /\ w \in Waiter /\ b.value \in Nat
  BY BudgetIs DEF Waiter
<1>2. /\ d.queue = Append(q, w) /\ d.value = b.value /\ d.limits = b.limits /\ d.failures = b.failures
      /\ d \in BudgetRec
  <2>1. Append(q, w) \in Seq(Waiter)
    BY <1>1
  <2>2. d = [b EXCEPT !.queue = Append(q, w)]
    BY DEF Queued
  <2> HIDE DEF w, d
  <2> QED BY <2>1, <2>2 DEF BudgetRec, Waiter
<1>3. /\ DOMAIN d.queue = 1..Len(q) + 1 /\ DOMAIN q = 1..Len(q) /\ Len(q) \in Nat
      /\ \A i \in DOMAIN q : d.queue[i] = q[i]
      /\ d.queue[Len(q) + 1] = w
  <2> HIDE DEF w, d
  <2> QED BY <1>1, <1>2
<1> HIDE DEF d
<1>4. w.who = c /\ w.st = "waiting"
  OBVIOUS
<1> HIDE DEF w
<1>5. Stand(d, ws \cup {c})
  <2>1. \A i \in DOMAIN q : q[i].who \in ws
    BY DEF Stand
  <2>2. \A i, j \in DOMAIN d.queue : d.queue[i].who = d.queue[j].who => i = j
    <3> SUFFICES ASSUME NEW i \in DOMAIN d.queue, NEW j \in DOMAIN d.queue,
                        d.queue[i].who = d.queue[j].who
                 PROVE  i = j
      OBVIOUS
    <3>1. CASE i \in DOMAIN q /\ j \in DOMAIN q
      BY <1>3, <3>1 DEF Stand
    <3>2. CASE i \notin DOMAIN q /\ j \notin DOMAIN q
      BY <1>3, <3>2
    <3>3. CASE i \in DOMAIN q /\ j \notin DOMAIN q
      BY <1>3, <1>4, <2>1, <3>3
    <3>4. CASE i \notin DOMAIN q /\ j \in DOMAIN q
      BY <1>3, <1>4, <2>1, <3>4
    <3> QED BY <3>1, <3>2, <3>3, <3>4
  <2>3. \A e : e \in ws \cup {c} <=> \E i \in DOMAIN d.queue : d.queue[i].who = e
    BY <1>3, <1>4 DEF Stand
  <2> QED BY <2>2, <2>3 DEF Stand
<1>6. Granted(d) = Granted(b)
  BY <1>3, <1>4 DEF Granted, ToSet
<1>7. ASSUME Locked(b), HandsOver(b), d.value > 0 PROVE Granted(d) # {}
  <2>1. PICK i \in DOMAIN q : q[i].st # "cancelled"
    BY <1>2, <1>7 DEF Locked
  <2>2. q[i].st \in {"waiting", "granted"}
    <3>1. q[i] \in Waiter
      BY <1>1, <2>1
    <3> QED BY <2>1, <3>1 DEF Waiter
  <2> QED BY <1>2, <1>6, <1>7, <2>2 DEF HandsOver, Waiting, Granted, ToSet
<1>8. \A n : Adds(b, n) => Adds(d, n)
  BY <1>2, <1>6 DEF Adds
<1> QED BY <1>2, <1>5, <1>7, <1>8 DEF HandsOver, d

LEMMA WaiterIs ==
    ASSUME NEW b \in BudgetRec, NEW ws, Stand(b, ws), NEW c \in ws
    PROVE  /\ WaiterOf(b, c) \in DOMAIN b.queue /\ b.queue[WaiterOf(b, c)].who = c
           /\ b.queue[WaiterOf(b, c)] \in Waiter
BY BudgetIs DEF Stand, WaiterOf

LEMMA UnqueuedIs ==
    ASSUME NEW b \in BudgetRec, NEW ws, Stand(b, ws), NEW c \in ws
    PROVE  LET d == Unqueued(b, c)  st == b.queue[WaiterOf(b, c)].st IN
           /\ d \in BudgetRec /\ Stand(d, ws \ {c})
           /\ st = "granted" => \A n \in Nat : Adds(b, n) => Adds(d, n + 1)
           /\ st # "granted" => (\A n : Adds(b, n) => Adds(d, n)) /\ (HandsOver(b) => HandsOver(d))
           /\ d.limits = b.limits /\ d.failures = b.failures
<1> DEFINE d == Unqueued(b, c)  k == WaiterOf(b, c)  q == b.queue  r == RemoveAt(q, k)
<1>1. q \in Seq(Waiter) /\ b.value \in Nat /\ k \in DOMAIN q /\ q[k].who = c
  BY BudgetIs, WaiterIs
<1> HIDE DEF k
<1>2. /\ r \in Seq(Waiter) /\ DOMAIN r = 1..Len(q) - 1
      /\ \A i \in 1..Len(q) - 1 : r[i] = IF i < k THEN q[i] ELSE q[i + 1]
  BY <1>1, RemovedAt
<1> HIDE DEF r
<1>3. /\ d.queue = r /\ d.value = b.value /\ d.limits = b.limits /\ d.failures = b.failures
      /\ d \in BudgetRec
  <2>1. d = [b EXCEPT !.queue = r]
    BY DEF Unqueued, k, r
  <2> QED BY <1>2, <2>1 DEF BudgetRec, Waiter
<1> HIDE DEF d
<1>4. Len(q) \in Nat /\ DOMAIN q = 1..Len(q)
  BY <1>1
<1> DEFINE From(i) == IF i < k THEN i ELSE i + 1
<1>5. \A i \in DOMAIN r : From(i) \in DOMAIN q /\ From(i) # k /\ r[i] = q[From(i)]
  BY <1>1, <1>2, <1>4
<1>6. \A j \in DOMAIN q : j # k => \E i \in DOMAIN r : r[i] = q[j]
  <2> TAKE j \in DOMAIN q
  <2> HAVE j # k
  <2>1. CASE j < k
    BY <1>1, <1>2, <1>4, <2>1
  <2>2. CASE j > k
    <3>1. j - 1 \in DOMAIN r /\ r[j - 1] = q[j]
      BY <1>1, <1>2, <1>4, <2>2
    <3> QED BY <3>1
  <2> QED BY <1>1, <1>4, <2>1, <2>2
<1>7. ToSet(r) = ToSet(q) \ {q[k]}
  <2>1. \A i \in DOMAIN r : r[i] # q[k]
    BY <1>1, <1>5 DEF Stand
  <2> QED BY <1>5, <1>6, <2>1 DEF ToSet
<1>8. Stand(d, ws \ {c})
  <2>1. ASSUME NEW i \in DOMAIN r, NEW j \in DOMAIN r, r[i].who = r[j].who PROVE i = j
    <3>1. From(i) = From(j)
      BY <1>5, <2>1 DEF Stand
    <3> QED BY <1>1, <1>2, <1>4, <3>1
  <2>2. \A e : e \in ws \ {c} <=> \E i \in DOMAIN r : r[i].who = e
    <3> TAKE e
    <3>1. ASSUME e \in ws \ {c} PROVE \E i \in DOMAIN r : r[i].who = e
      <4>1. PICK j \in DOMAIN q : q[j].who = e
        BY <3>1 DEF Stand
      <4>2. j # k
        BY <1>1, <3>1, <4>1
      <4> QED BY <1>6, <4>1, <4>2
    <3>2. ASSUME NEW i \in DOMAIN r, r[i].who = e PROVE e \in ws \ {c}
      <4>1. From(i) \in DOMAIN q /\ From(i) # k /\ q[From(i)].who = e
        BY <1>5, <3>2
      <4> HIDE DEF From
      <4> QED BY <1>1, <4>1 DEF Stand
    <3> QED BY <3>1, <3>2
  <2> QED BY <1>3, <2>1, <2>2 DEF Stand
<1>9. Granted(d) = Granted(b) \ {q[k]}
  BY <1>3, <1>7 DEF Granted
<1>10. ASSUME q[k].st = "granted", NEW n \in Nat, Adds(b, n) PROVE Adds(d, n + 1)
  <2>1. q[k] \in Granted(b)
    BY <1>1, <1>10 DEF Granted, ToSet
  <2>2. IsFiniteSet(Granted(d)) /\ Cardinality(Granted(d)) = Cardinality(Granted(b)) - 1
    BY <1>9, <1>10, <2>1, OneLess DEF Adds
  <2>3. Cardinality(Granted(b)) \in Nat
    BY <1>10, FS_CardinalityType DEF Adds
  <2> QED BY <1>1, <1>3, <1>10, <2>2, <2>3, SMTT(30) DEF Adds
<1>11. ASSUME q[k].st # "granted"
       PROVE  (\A n : Adds(b, n) => Adds(d, n)) /\ (HandsOver(b) => HandsOver(d))
  <2>1. Granted(d) = Granted(b)
    BY <1>9, <1>11 DEF Granted
  <2>2. Waiting(d) # {} => Waiting(b) # {}
    BY <1>3, <1>5 DEF Waiting
  <2> QED BY <1>3, <2>1, <2>2 DEF Adds, HandsOver
<1> QED BY <1>3, <1>8, <1>10, <1>11 DEF d, k

LEMMA TakenIs ==
    ASSUME NEW b \in BudgetRec, NEW ws, Stand(b, ws), ~Locked(b)
    PROVE  LET d == [b EXCEPT !.value = @ - 1] IN
           /\ d \in BudgetRec /\ Stand(d, ws) /\ HandsOver(d)
           /\ \A n \in Nat : Adds(b, n) => Adds(d, n + 1)
           /\ d.limits = b.limits /\ d.failures = b.failures
<1> DEFINE d == [b EXCEPT !.value = @ - 1]
<1>1. b.value \in Nat /\ b.value - 1 \in Nat
  BY BudgetIs DEF Locked
<1>2. /\ d \in BudgetRec /\ d.value = b.value - 1 /\ d.queue = b.queue
      /\ d.limits = b.limits /\ d.failures = b.failures
  BY <1>1 DEF BudgetRec
<1> HIDE DEF d
<1>3. Stand(d, ws)
  BY <1>2 DEF Stand
<1>4. HandsOver(d)
  BY <1>2 DEF HandsOver, Locked, Waiting
<1>5. Granted(d) = Granted(b)
  BY <1>2 DEF Granted
<1>6. ASSUME NEW n \in Nat, Adds(b, n) PROVE Adds(d, n + 1)
  <2>1. Cardinality(Granted(b)) \in Nat
    BY <1>6, FS_CardinalityType DEF Adds
  <2> QED BY <1>1, <1>2, <1>5, <1>6, <2>1 DEF Adds
<1> QED BY <1>2, <1>3, <1>4, <1>6 DEF d

LEMMA CancelledIs ==
    ASSUME NEW b \in BudgetRec, NEW ws, Stand(b, ws), NEW i \in DOMAIN b.queue, b.queue[i].st = "waiting"
    PROVE  LET d == [b EXCEPT !.queue[i].st = "cancelled"] IN
           /\ d \in BudgetRec /\ Stand(d, ws) /\ (HandsOver(b) => HandsOver(d))
           /\ \A n : Adds(b, n) => Adds(d, n)
           /\ d.limits = b.limits /\ d.failures = b.failures
<1> DEFINE d == [b EXCEPT !.queue[i].st = "cancelled"]
<1>1. b.queue \in Seq(Waiter)
  BY BudgetIs
<1>2. [b.queue EXCEPT ![i].st = "cancelled"] \in Seq(Waiter)
  BY <1>1, FutureDone
<1>3. /\ d \in BudgetRec /\ d.value = b.value /\ d.queue = [b.queue EXCEPT ![i].st = "cancelled"]
      /\ d.limits = b.limits /\ d.failures = b.failures
  BY <1>2 DEF BudgetRec, Waiter
<1> HIDE DEF d
<1>4. Stand(d, ws) /\ Granted(d) = Granted(b) /\ Waiting(d) \subseteq Waiting(b)
  BY <1>3, CancelledOne
<1> QED BY <1>3, <1>4 DEF HandsOver, Adds, d

\* A circuit is judged: its semaphore stays as it is, and only a failure of op
\* raises a count, that of op.
LEMMA JudgedIs ==
    ASSUME NEW b \in BudgetRec, Counted(b), NEW op \in Operations,
           NEW outcome \in {"ok", "failed", "refused", "cancelled"}
    PROVE  LET d == Judged(b, op, outcome) IN
           /\ d \in BudgetRec /\ Counted(d)
           /\ d.queue = b.queue /\ d.value = b.value /\ d.limits = b.limits
           /\ \A o \in Operations : d.failures[o] > b.failures[o] => o = op /\ outcome = "failed"
<1> DEFINE d == Judged(b, op, outcome)
<1>1. /\ b.failures \in [Operations -> Nat] /\ b.open \in [Operations -> BOOLEAN]
      /\ b.limits.threshold \in Nat \ {0}
  BY BudgetIs
<1>2. CASE outcome = "ok"
  <2>1. d = [b EXCEPT !.failures[op] = 0, !.open[op] = FALSE]
    BY <1>2 DEF Judged
  <2>2. /\ [b.failures EXCEPT ![op] = 0] \in [Operations -> Nat]
        /\ [b.open EXCEPT ![op] = FALSE] \in [Operations -> BOOLEAN]
    BY <1>1
  <2>3. /\ d \in BudgetRec /\ d.failures = [b.failures EXCEPT ![op] = 0]
        /\ d.queue = b.queue /\ d.value = b.value /\ d.limits = b.limits
    BY <2>1, <2>2 DEF BudgetRec
  <2> HIDE DEF d
  <2> QED BY <1>1, <2>3 DEF Counted, d
<1>3. CASE outcome # "ok" /\ ~Counts(outcome)
  BY <1>1, <1>3 DEF Judged
<1>4. CASE outcome # "ok" /\ Counts(outcome)
  <2> DEFINE S == {b.failures[op] + 1, b.limits.threshold}  n == Min(S)
  <2>1. n \in Nat /\ n <= b.limits.threshold
    <3>1. S \in SUBSET Nat /\ S # {} /\ b.limits.threshold \in S
      BY <1>1
    <3> QED BY <3>1, Least
  <2>2. d = [b EXCEPT !.failures[op] = n, !.open[op] = @ \/ n = b.limits.threshold]
    BY <1>4 DEF Judged
  <2> HIDE DEF n
  <2>3. /\ [b.failures EXCEPT ![op] = n] \in [Operations -> Nat]
        /\ [b.open EXCEPT ![op] = @ \/ n = b.limits.threshold] \in [Operations -> BOOLEAN]
    BY <1>1, <2>1
  <2>4. /\ d \in BudgetRec /\ d.failures = [b.failures EXCEPT ![op] = n]
        /\ d.queue = b.queue /\ d.value = b.value /\ d.limits = b.limits
    BY <2>2, <2>3 DEF BudgetRec
  <2> HIDE DEF d
  <2> QED BY <1>1, <1>4, <2>1, <2>4 DEF Counted, Counts, d
<1> QED BY <1>2, <1>3, <1>4

-----------------------------------------------------------------------------
(* Frames: executions that start, end and go on.                            *)

HeldIn(e) == {x \in Frames : FrameOf(x).e = e /\ FrameOf(x).pc # "waiting"}
RunsOn(p) == {x \in Frames : FrameOf(x).p = p}
WaitsOn(p) == {x \in Frames : FrameOf(x).p = p /\ FrameOf(x).pc = "waiting"}
WaitersFor(e) == {c \in Calls : At(c, "waiting") /\ Top(c).e = e}

CallsTyped == call \in [Calls -> [frames : Seq(FrameRec), signal : Int]]
OnlyTopWaits ==
    \A c \in Calls : \A i \in 1..Depth(c) - 1 : call[c].frames[i].pc \in {"calling", "running"}

LEMMA CallIs ==
    ASSUME CallsTyped, NEW c \in Calls
    PROVE  /\ call[c].frames \in Seq(FrameRec) /\ call[c].signal \in Int
           /\ Depth(c) \in Nat /\ DOMAIN call[c].frames = 1..Depth(c)
           /\ \A i \in 1..Depth(c) : call[c].frames[i] \in FrameRec
           /\ call[c].frames = <<>> <=> Depth(c) = 0
           /\ Depth(c) > 0 =>
                /\ Top(c) = call[c].frames[Depth(c)] /\ Top(c) \in FrameRec
                /\ Below(c) \in Seq(FrameRec) /\ Len(Below(c)) = Depth(c) - 1
                /\ \A i \in 1..Depth(c) - 1 : Below(c)[i] = call[c].frames[i]
<1>1. call[c] \in [frames : Seq(FrameRec), signal : Int]
  BY DEF CallsTyped
<1>2. call[c].frames \in Seq(FrameRec) /\ call[c].signal \in Int
  BY <1>1
<1> DEFINE fs == call[c].frames
<1>3. Depth(c) = Len(fs) /\ Top(c) = Last(fs) /\ Below(c) = Front(fs)
  BY DEF Depth, Top, Below
<1> HIDE DEF fs
<1>4. fs \in Seq(FrameRec)
  BY <1>2 DEF fs
<1>5. Len(fs) > 0 => fs # <<>>
  BY <1>4
<1>6. /\ Len(fs) \in Nat /\ DOMAIN fs = 1..Len(fs) /\ (fs = <<>> <=> Len(fs) = 0)
      /\ \A i \in 1..Len(fs) : fs[i] \in FrameRec
  BY <1>4
<1> QED BY <1>2, <1>3, <1>4, <1>5, <1>6, FrontAndLast, SMTT(30) DEF fs

LEMMA MembersAre ==
    /\ \A x : x \in Frames <=> \E c \in Calls : \E i \in 1..Depth(c) : x = <<c, i>>
    /\ \A e, x : x \in HeldIn(e) <=> \E c \in Calls : \E i \in 1..Depth(c) :
                   x = <<c, i>> /\ call[c].frames[i].e = e /\ call[c].frames[i].pc # "waiting"
    /\ \A p, x : x \in RunsOn(p) <=> \E c \in Calls : \E i \in 1..Depth(c) :
                   x = <<c, i>> /\ call[c].frames[i].p = p
    /\ \A p, x : x \in WaitsOn(p) <=> \E c \in Calls : \E i \in 1..Depth(c) :
                   x = <<c, i>> /\ call[c].frames[i].p = p /\ call[c].frames[i].pc = "waiting"
<1>1. \A x : x \in Frames <=> \E c \in Calls : \E i \in 1..Depth(c) : x = <<c, i>>
  BY DEF Frames
<1>2. \A c, i : FrameOf(<<c, i>>) = call[c].frames[i]
  BY DEF FrameOf
<1> QED BY <1>1, <1>2 DEF HeldIn, RunsOn, WaitsOn

LEMMA MembersNext ==
    /\ \A x : x \in Frames' <=> \E c \in Calls : \E i \in 1..Depth(c)' : x = <<c, i>>
    /\ \A e, x : x \in HeldIn(e)' <=> \E c \in Calls : \E i \in 1..Depth(c)' :
                   x = <<c, i>> /\ call'[c].frames[i].e = e /\ call'[c].frames[i].pc # "waiting"
    /\ \A p, x : x \in RunsOn(p)' <=> \E c \in Calls : \E i \in 1..Depth(c)' :
                   x = <<c, i>> /\ call'[c].frames[i].p = p
    /\ \A p, x : x \in WaitsOn(p)' <=> \E c \in Calls : \E i \in 1..Depth(c)' :
                   x = <<c, i>> /\ call'[c].frames[i].p = p /\ call'[c].frames[i].pc = "waiting"
<1>1. \A x : x \in Frames' <=> \E c \in Calls : \E i \in 1..Depth(c)' : x = <<c, i>>
  BY DEF Frames
<1>2. \A c, i : FrameOf(<<c, i>>)' = call'[c].frames[i]
  BY DEF FrameOf
<1> QED BY <1>1, <1>2 DEF HeldIn, RunsOn, WaitsOn

\* One task's frames change: those that stay keep plugin, budget and whether they
\* wait.
Alike(f, g) == g.p = f.p /\ g.e = f.e /\ (g.pc = "waiting" <=> f.pc = "waiting")
Others(c) == \A d \in Calls : d # c => call'[d] = call[d]
Same(c, n) == \A i \in 1..n : Alike(call[c].frames[i], call'[c].frames[i])

Pushes(c, f) ==
    /\ Others(c) /\ ~At(c, "waiting")
    /\ Len(call'[c].frames) = Depth(c) + 1 /\ Same(c, Depth(c))
    /\ call'[c].frames[Depth(c) + 1] = f
Pops(c) ==
    /\ Others(c) /\ Depth(c) > 0
    /\ Len(call'[c].frames) = Depth(c) - 1 /\ Same(c, Depth(c) - 1)
Keeps(c) == Others(c) /\ Len(call'[c].frames) = Depth(c) /\ Same(c, Depth(c))
Starts(c) ==
    /\ Others(c) /\ At(c, "waiting")
    /\ Len(call'[c].frames) = Depth(c) /\ Same(c, Depth(c) - 1)
    /\ LET g == call'[c].frames[Depth(c)] IN
         g.p = Top(c).p /\ g.e = Top(c).e /\ g.pc # "waiting"

LEMMA PushesSets ==
    ASSUME CallsTyped, CallsTyped', NEW c \in Calls, NEW f, Pushes(c, f)
    PROVE  LET x == <<c, Depth(c) + 1>> IN
           /\ x \notin Frames /\ Frames' = Frames \cup {x}
           /\ \A e : HeldIn(e)' = IF f.e = e /\ f.pc # "waiting" THEN HeldIn(e) \cup {x} ELSE HeldIn(e)
           /\ \A p : RunsOn(p)' = IF f.p = p THEN RunsOn(p) \cup {x} ELSE RunsOn(p)
           /\ \A p : WaitsOn(p)' =
                IF f.p = p /\ f.pc = "waiting" THEN WaitsOn(p) \cup {x} ELSE WaitsOn(p)
           /\ \A e : WaitersFor(e)' =
                IF f.e = e /\ f.pc = "waiting" THEN WaitersFor(e) \cup {c} ELSE WaitersFor(e)
<1> DEFINE n == Depth(c) + 1  x == <<c, n>>
<1>1. /\ Depth(c) \in Nat /\ Depth(c)' = n /\ call'[c].frames[n] = f
      /\ \A d \in Calls : d # c => Depth(d)' = Depth(d) /\ call'[d] = call[d]
      /\ \A i \in 1..Depth(c) : Alike(call[c].frames[i], call'[c].frames[i])
  BY CallIs DEF Pushes, Others, Same, Depth
<1>2. \A i : i \in 1..n <=> i \in 1..Depth(c) \/ i = n
  BY <1>1
<1>3. n \notin 1..Depth(c)
  BY <1>1
<1> HIDE DEF n
<1>4. x \notin Frames
  BY <1>3, MembersAre
<1>5. Frames' = Frames \cup {x}
  <2>1. \A y : y \in Frames' <=> y \in Frames \/ y = x
    BY <1>1, <1>2, MembersAre, MembersNext
  <2> QED BY <2>1
<1>6. ASSUME NEW e PROVE HeldIn(e)' = IF f.e = e /\ f.pc # "waiting" THEN HeldIn(e) \cup {x} ELSE HeldIn(e)
  <2>1. \A y : y \in HeldIn(e)' <=> y \in HeldIn(e) \/ (y = x /\ f.e = e /\ f.pc # "waiting")
    BY <1>1, <1>2, MembersAre, MembersNext DEF Alike
  <2> QED BY <2>1
<1>7. ASSUME NEW p PROVE RunsOn(p)' = IF f.p = p THEN RunsOn(p) \cup {x} ELSE RunsOn(p)
  <2>1. \A y : y \in RunsOn(p)' <=> y \in RunsOn(p) \/ (y = x /\ f.p = p)
    BY <1>1, <1>2, MembersAre, MembersNext DEF Alike
  <2> QED BY <2>1
<1>8. ASSUME NEW p
      PROVE WaitsOn(p)' = IF f.p = p /\ f.pc = "waiting" THEN WaitsOn(p) \cup {x} ELSE WaitsOn(p)
  <2>1. \A y : y \in WaitsOn(p)' <=> y \in WaitsOn(p) \/ (y = x /\ f.p = p /\ f.pc = "waiting")
    BY <1>1, <1>2, MembersAre, MembersNext DEF Alike
  <2> QED BY <2>1
<1>9. ASSUME NEW e
      PROVE WaitersFor(e)' = IF f.e = e /\ f.pc = "waiting" THEN WaitersFor(e) \cup {c} ELSE WaitersFor(e)
  <2>1. Top(c)' = f /\ Depth(c)' > 0
    BY <1>1, CallIs DEF n, Top, Last, Depth
  <2>2. \A d \in Calls : d # c => (d \in WaitersFor(e)' <=> d \in WaitersFor(e))
    BY <1>1 DEF WaitersFor, At, Top, Depth
  <2>3. c \notin WaitersFor(e) /\ (c \in WaitersFor(e)' <=> f.e = e /\ f.pc = "waiting")
    BY <2>1 DEF WaitersFor, At, Pushes
  <2>4. \A d : d \in WaitersFor(e) \/ d \in WaitersFor(e)' => d \in Calls
    BY DEF WaitersFor
  <2> QED BY <2>2, <2>3, <2>4
<1> QED BY <1>4, <1>5, <1>6, <1>7, <1>8, <1>9 DEF n

LEMMA PopsSets ==
    ASSUME CallsTyped, CallsTyped', OnlyTopWaits, NEW c \in Calls, Pops(c)
    PROVE  LET x == <<c, Depth(c)>> IN
           /\ x \in Frames /\ Frames' = Frames \ {x}
           /\ \A e : HeldIn(e)' = HeldIn(e) \ {x}
           /\ \A e : x \in HeldIn(e) <=> Top(c).e = e /\ Top(c).pc # "waiting"
           /\ \A p : RunsOn(p)' = RunsOn(p) \ {x} /\ (x \in RunsOn(p) <=> Top(c).p = p)
           /\ \A p : WaitsOn(p)' = WaitsOn(p) \ {x}
           /\ \A p : x \in WaitsOn(p) <=> Top(c).p = p /\ Top(c).pc = "waiting"
           /\ \A e : WaitersFor(e)' = WaitersFor(e) \ {c}
<1> DEFINE n == Depth(c)  x == <<c, n>>
<1>1. /\ n \in Nat /\ n > 0 /\ Depth(c)' = n - 1 /\ Top(c) = call[c].frames[n]
      /\ \A d \in Calls : d # c => Depth(d)' = Depth(d) /\ call'[d] = call[d]
      /\ \A i \in 1..n - 1 : Alike(call[c].frames[i], call'[c].frames[i])
  BY CallIs DEF Pops, Others, Same, Depth
<1>2. \A i : i \in 1..n - 1 <=> i \in 1..n /\ i # n
  BY <1>1
<1>3. n \in 1..n
  BY <1>1
<1> HIDE DEF n
<1>4. /\ x \in Frames
      /\ \A e : x \in HeldIn(e) <=> Top(c).e = e /\ Top(c).pc # "waiting"
      /\ \A p : x \in RunsOn(p) <=> Top(c).p = p
      /\ \A p : x \in WaitsOn(p) <=> Top(c).p = p /\ Top(c).pc = "waiting"
  BY <1>1, <1>3, MembersAre DEF n
<1>5. Frames' = Frames \ {x}
  <2>1. \A y : y \in Frames' <=> y \in Frames /\ y # x
    BY <1>1, <1>2, MembersAre, MembersNext DEF n
  <2> QED BY <2>1
<1>6. ASSUME NEW e PROVE HeldIn(e)' = HeldIn(e) \ {x}
  <2>1. \A y : y \in HeldIn(e)' <=> y \in HeldIn(e) /\ y # x
    BY <1>1, <1>2, MembersAre, MembersNext DEF n, Alike
  <2> QED BY <2>1
<1>7. ASSUME NEW p PROVE RunsOn(p)' = RunsOn(p) \ {x} /\ WaitsOn(p)' = WaitsOn(p) \ {x}
  <2>1. \A y : y \in RunsOn(p)' <=> y \in RunsOn(p) /\ y # x
    BY <1>1, <1>2, MembersAre, MembersNext DEF n, Alike
  <2>2. \A y : y \in WaitsOn(p)' <=> y \in WaitsOn(p) /\ y # x
    BY <1>1, <1>2, MembersAre, MembersNext DEF n, Alike
  <2> QED BY <2>1, <2>2
<1>8. ASSUME NEW e PROVE WaitersFor(e)' = WaitersFor(e) \ {c}
  <2>1. \A d \in Calls : d # c => (d \in WaitersFor(e)' <=> d \in WaitersFor(e))
    BY <1>1 DEF WaitersFor, At, Top, Depth
  <2>2. c \notin WaitersFor(e)'
    <3>1. CASE n = 1
      BY <1>1, <3>1 DEF WaitersFor, At
    <3>2. CASE n # 1
      <4>1. n - 1 \in 1..n - 1 /\ Depth(c)' > 0
        BY <1>1, <3>2
      <4>2. Top(c)' = call'[c].frames[n - 1]
        BY <1>1 DEF Top, Last, Depth
      <4>3. call[c].frames[n - 1].pc # "waiting"
        BY <4>1 DEF OnlyTopWaits, n
      <4> QED BY <1>1, <4>1, <4>2, <4>3 DEF Alike, WaitersFor, At
    <3> QED BY <3>1, <3>2
  <2>3. \A d : d \in WaitersFor(e) \/ d \in WaitersFor(e)' => d \in Calls
    BY DEF WaitersFor
  <2> QED BY <2>1, <2>2, <2>3
<1> QED BY <1>4, <1>5, <1>6, <1>7, <1>8 DEF n

LEMMA KeepsSets ==
    ASSUME CallsTyped, CallsTyped', NEW c \in Calls, Keeps(c)
    PROVE  /\ Frames' = Frames
           /\ \A e : HeldIn(e)' = HeldIn(e) /\ WaitersFor(e)' = WaitersFor(e)
           /\ \A p : RunsOn(p)' = RunsOn(p) /\ WaitsOn(p)' = WaitsOn(p)
<1> DEFINE n == Depth(c)
<1>1. /\ n \in Nat /\ Depth(c)' = n
      /\ \A d \in Calls : d # c => Depth(d)' = Depth(d) /\ call'[d] = call[d]
      /\ \A i \in 1..n : Alike(call[c].frames[i], call'[c].frames[i])
  BY CallIs DEF Keeps, Others, Same, Depth
<1> HIDE DEF n
<1>2. Frames' = Frames
  <2>1. \A y : y \in Frames' <=> y \in Frames
    BY <1>1, MembersAre, MembersNext DEF n
  <2> QED BY <2>1
<1>3. ASSUME NEW e PROVE HeldIn(e)' = HeldIn(e)
  <2>1. \A y : y \in HeldIn(e)' <=> y \in HeldIn(e)
    BY <1>1, MembersAre, MembersNext DEF n, Alike
  <2> QED BY <2>1
<1>4. ASSUME NEW p PROVE RunsOn(p)' = RunsOn(p) /\ WaitsOn(p)' = WaitsOn(p)
  <2>1. \A y : y \in RunsOn(p)' <=> y \in RunsOn(p)
    BY <1>1, MembersAre, MembersNext DEF n, Alike
  <2>2. \A y : y \in WaitsOn(p)' <=> y \in WaitsOn(p)
    BY <1>1, MembersAre, MembersNext DEF n, Alike
  <2> QED BY <2>1, <2>2
<1>5. ASSUME NEW e PROVE WaitersFor(e)' = WaitersFor(e)
  <2>1. \A d \in Calls : d # c => (d \in WaitersFor(e)' <=> d \in WaitersFor(e))
    BY <1>1 DEF WaitersFor, At, Top, Depth
  <2>2. c \in WaitersFor(e)' <=> c \in WaitersFor(e)
    <3>1. CASE n = 0
      BY <1>1, <3>1 DEF WaitersFor, At, n
    <3>2. CASE n # 0
      <4>1. n \in 1..n /\ Depth(c)' = n /\ Depth(c) = n /\ n > 0
        BY <1>1, <3>2 DEF n
      <4>2. Top(c)' = call'[c].frames[n] /\ Top(c) = call[c].frames[n]
        BY <4>1 DEF Top, Last, Depth
      <4> QED BY <1>1, <4>1, <4>2 DEF Alike, WaitersFor, At
    <3> QED BY <3>1, <3>2
  <2>3. \A d : d \in WaitersFor(e) \/ d \in WaitersFor(e)' => d \in Calls
    BY DEF WaitersFor
  <2> QED BY <2>1, <2>2, <2>3
<1> QED BY <1>2, <1>3, <1>4, <1>5

LEMMA StartsSets ==
    ASSUME CallsTyped, CallsTyped', NEW c \in Calls, Starts(c)
    PROVE  LET x == <<c, Depth(c)>> IN
           /\ Frames' = Frames /\ x \in Frames
           /\ \A e : x \notin HeldIn(e)
           /\ \A e : HeldIn(e)' = IF Top(c).e = e THEN HeldIn(e) \cup {x} ELSE HeldIn(e)
           /\ \A p : RunsOn(p)' = RunsOn(p)
           /\ \A p : WaitsOn(p)' = WaitsOn(p) \ {x} /\ (x \in WaitsOn(p) <=> Top(c).p = p)
           /\ \A e : WaitersFor(e)' = WaitersFor(e) \ {c}
<1> DEFINE n == Depth(c)  x == <<c, n>>
<1>1. /\ n \in Nat /\ n > 0 /\ Depth(c)' = n /\ Top(c) = call[c].frames[n] /\ Top(c).pc = "waiting"
      /\ \A d \in Calls : d # c => Depth(d)' = Depth(d) /\ call'[d] = call[d]
      /\ \A i \in 1..n - 1 : Alike(call[c].frames[i], call'[c].frames[i])
      /\ call'[c].frames[n].p = Top(c).p /\ call'[c].frames[n].e = Top(c).e
      /\ call'[c].frames[n].pc # "waiting"
  BY CallIs DEF Starts, Others, Same, Depth, At
<1>2. \A i : i \in 1..n <=> i \in 1..n - 1 \/ i = n
  BY <1>1
<1>3. n \in 1..n /\ n \notin 1..n - 1
  BY <1>1
<1> HIDE DEF n
<1>4. /\ x \in Frames
      /\ \A e : x \notin HeldIn(e)
      /\ \A p : x \in WaitsOn(p) <=> Top(c).p = p
  BY <1>1, <1>3, MembersAre DEF n
<1>5. Frames' = Frames
  <2>1. \A y : y \in Frames' <=> y \in Frames
    BY <1>1, MembersAre, MembersNext DEF n
  <2> QED BY <2>1
<1>6. ASSUME NEW e PROVE HeldIn(e)' = IF Top(c).e = e THEN HeldIn(e) \cup {x} ELSE HeldIn(e)
  <2>1. \A y : y \in HeldIn(e)' <=> y \in HeldIn(e) \/ (y = x /\ Top(c).e = e)
    BY <1>1, <1>2, <1>3, MembersAre, MembersNext DEF n, Alike
  <2> QED BY <2>1
<1>7. ASSUME NEW p PROVE RunsOn(p)' = RunsOn(p) /\ WaitsOn(p)' = WaitsOn(p) \ {x}
  <2>1. \A y : y \in RunsOn(p)' <=> y \in RunsOn(p)
    BY <1>1, <1>2, MembersAre, MembersNext DEF n, Alike
  <2>2. \A y : y \in WaitsOn(p)' <=> y \in WaitsOn(p) /\ y # x
    BY <1>1, <1>2, <1>3, MembersAre, MembersNext DEF n, Alike
  <2> QED BY <2>1, <2>2
<1>8. ASSUME NEW e PROVE WaitersFor(e)' = WaitersFor(e) \ {c}
  <2>1. \A d \in Calls : d # c => (d \in WaitersFor(e)' <=> d \in WaitersFor(e))
    BY <1>1 DEF WaitersFor, At, Top, Depth
  <2>2. c \notin WaitersFor(e)'
    <3>1. Top(c)' = call'[c].frames[n]
      BY <1>1 DEF Top, Last, Depth
    <3> QED BY <1>1, <3>1 DEF WaitersFor, At
  <2>3. \A d : d \in WaitersFor(e) \/ d \in WaitersFor(e)' => d \in Calls
    BY DEF WaitersFor
  <2> QED BY <2>1, <2>2, <2>3
<1> QED BY <1>4, <1>5, <1>6, <1>7, <1>8 DEF n

-----------------------------------------------------------------------------
(* The inductive invariant.                                                 *)

Phases == {"off", "loaded", "closing", "releasing"}

Shapes ==
    /\ phase \in [Plugins -> Phases]
    /\ current \in [Plugins -> Budgets \cup {0}]
    /\ pending \in [Plugins -> Int] /\ executions \in [Plugins -> Int]
    /\ CallsTyped
Apart == \A p, q \in Plugins : (p # q /\ current[p] # 0) => current[p] # current[q]
Levels ==
    \A c \in Calls :
        /\ Depth(c) <= MaxDepth[c]
        /\ call[c].signal \in None..Depth(c)
        /\ At(c, "failover") => Depth(c) < MaxDepth[c]

\* A budget with the tasks that wait in it and the number of permits in use.
Sound(b, ws, n) ==
    b \in BudgetRec /\ Stand(b, ws) /\ Adds(b, n) /\ HandsOver(b) /\ Counted(b)
AllSound ==
    \A e \in Budgets : Sound(budget[e], WaitersFor(e), Cardinality(HeldIn(e)))

Inv ==
    /\ Shapes /\ Apart /\ Levels /\ OnlyTopWaits
    /\ IsFiniteSet(Frames)
    /\ budget \in [Budgets -> BudgetRec] /\ AllSound
    /\ CountersAccurate

LEMMA CallsFit ==
    ASSUME CallsTyped, NEW c \in Calls, NEW fs \in Seq(FrameRec), NEW s \in Int
    PROVE  /\ [call EXCEPT ![c] = [frames |-> fs, signal |-> s]]
                \in [Calls -> [frames : Seq(FrameRec), signal : Int]]
           /\ \A d \in Calls : d # c =>
                [call EXCEPT ![c] = [frames |-> fs, signal |-> s]][d] = call[d]
           /\ [call EXCEPT ![c] = [frames |-> fs, signal |-> s]][c].frames = fs
           /\ [call EXCEPT ![c] = [frames |-> fs, signal |-> s]][c].signal = s
BY DEF CallsTyped

\* The frames of a budget, of a plugin.
LEMMA Finite ==
    ASSUME IsFiniteSet(Frames)
    PROVE  /\ \A e : IsFiniteSet(HeldIn(e)) /\ Cardinality(HeldIn(e)) \in Nat
           /\ \A p : IsFiniteSet(RunsOn(p)) /\ Cardinality(RunsOn(p)) \in Nat
           /\ \A p : IsFiniteSet(WaitsOn(p)) /\ Cardinality(WaitsOn(p)) \in Nat
<1>1. \A e : HeldIn(e) \in SUBSET Frames
  BY DEF HeldIn
<1>2. \A p : RunsOn(p) \in SUBSET Frames /\ WaitsOn(p) \in SUBSET Frames
  BY DEF RunsOn, WaitsOn
<1>3. \A S \in SUBSET Frames : IsFiniteSet(S) /\ Cardinality(S) \in Nat
  BY FS_Subset, FS_CardinalityType
<1> QED BY <1>1, <1>2, <1>3

LEMMA FiniteNext ==
    ASSUME IsFiniteSet(Frames)'
    PROVE  /\ \A e : IsFiniteSet(HeldIn(e))' /\ Cardinality(HeldIn(e))' \in Nat
           /\ \A p : IsFiniteSet(RunsOn(p))' /\ Cardinality(RunsOn(p))' \in Nat
           /\ \A p : IsFiniteSet(WaitsOn(p))' /\ Cardinality(WaitsOn(p))' \in Nat
<1>1. \A e : HeldIn(e)' \in SUBSET Frames'
  BY DEF HeldIn
<1>2. \A p : RunsOn(p)' \in SUBSET Frames' /\ WaitsOn(p)' \in SUBSET Frames'
  BY DEF RunsOn, WaitsOn
<1>3. \A S \in SUBSET Frames' : IsFiniteSet(S) /\ Cardinality(S) \in Nat
  BY FS_Subset, FS_CardinalityType
<1> QED BY <1>1, <1>2, <1>3

\* What the kinds of steps do to the numbers.
LEMMA PushesCounts ==
    ASSUME CallsTyped, CallsTyped', IsFiniteSet(Frames), NEW c \in Calls, NEW f, Pushes(c, f)
    PROVE  /\ IsFiniteSet(Frames)'
           /\ \A e : Cardinality(HeldIn(e))' =
                IF f.e = e /\ f.pc # "waiting" THEN Cardinality(HeldIn(e)) + 1 ELSE Cardinality(HeldIn(e))
           /\ \A p : Cardinality(RunsOn(p))' =
                IF f.p = p THEN Cardinality(RunsOn(p)) + 1 ELSE Cardinality(RunsOn(p))
           /\ \A p : Cardinality(WaitsOn(p))' =
                IF f.p = p /\ f.pc = "waiting" THEN Cardinality(WaitsOn(p)) + 1 ELSE Cardinality(WaitsOn(p))
<1> DEFINE x == <<c, Depth(c) + 1>>
<1>1. /\ x \notin Frames /\ Frames' = Frames \cup {x}
      /\ \A e : HeldIn(e)' = IF f.e = e /\ f.pc # "waiting" THEN HeldIn(e) \cup {x} ELSE HeldIn(e)
      /\ \A p : RunsOn(p)' = IF f.p = p THEN RunsOn(p) \cup {x} ELSE RunsOn(p)
      /\ \A p : WaitsOn(p)' =
                IF f.p = p /\ f.pc = "waiting" THEN WaitsOn(p) \cup {x} ELSE WaitsOn(p)
  BY PushesSets
<1>2. /\ \A e : x \notin HeldIn(e)
      /\ \A p : x \notin RunsOn(p) /\ x \notin WaitsOn(p)
  BY <1>1 DEF HeldIn, RunsOn, WaitsOn
<1> HIDE DEF x
<1>3. IsFiniteSet(Frames')
  BY <1>1, OneMore
<1> QED BY <1>1, <1>2, <1>3, Finite, OneMore

LEMMA PopsCounts ==
    ASSUME CallsTyped, CallsTyped', OnlyTopWaits, IsFiniteSet(Frames), NEW c \in Calls, Pops(c)
    PROVE  /\ IsFiniteSet(Frames)'
           /\ \A e : Cardinality(HeldIn(e))' =
                IF Top(c).e = e /\ Top(c).pc # "waiting" THEN Cardinality(HeldIn(e)) - 1 ELSE Cardinality(HeldIn(e))
           /\ \A p : Cardinality(RunsOn(p))' =
                IF Top(c).p = p THEN Cardinality(RunsOn(p)) - 1 ELSE Cardinality(RunsOn(p))
           /\ \A p : Cardinality(WaitsOn(p))' =
                IF Top(c).p = p /\ Top(c).pc = "waiting" THEN Cardinality(WaitsOn(p)) - 1 ELSE Cardinality(WaitsOn(p))
<1> DEFINE x == <<c, Depth(c)>>
<1>1. /\ x \in Frames /\ Frames' = Frames \ {x}
      /\ \A e : HeldIn(e)' = HeldIn(e) \ {x} /\ (x \in HeldIn(e) <=> Top(c).e = e /\ Top(c).pc # "waiting")
      /\ \A p : RunsOn(p)' = RunsOn(p) \ {x} /\ (x \in RunsOn(p) <=> Top(c).p = p)
      /\ \A p : WaitsOn(p)' = WaitsOn(p) \ {x}
      /\ \A p : x \in WaitsOn(p) <=> Top(c).p = p /\ Top(c).pc = "waiting"
  BY PopsSets
<1> HIDE DEF x
<1>2. IsFiniteSet(Frames')
  BY <1>1, OneLess
<1>3. \A S : x \notin S => S \ {x} = S
  OBVIOUS
<1>4. ASSUME NEW e
      PROVE  Cardinality(HeldIn(e))' =
                IF Top(c).e = e /\ Top(c).pc # "waiting" THEN Cardinality(HeldIn(e)) - 1 ELSE Cardinality(HeldIn(e))
  BY <1>1, <1>3, Finite, OneLess
<1>5. ASSUME NEW p
      PROVE  Cardinality(RunsOn(p))' =
                IF Top(c).p = p THEN Cardinality(RunsOn(p)) - 1 ELSE Cardinality(RunsOn(p))
  BY <1>1, <1>3, Finite, OneLess
<1>6. ASSUME NEW p
      PROVE  Cardinality(WaitsOn(p))' =
                IF Top(c).p = p /\ Top(c).pc = "waiting" THEN Cardinality(WaitsOn(p)) - 1 ELSE Cardinality(WaitsOn(p))
  BY <1>1, <1>3, Finite, OneLess
<1> QED BY <1>2, <1>4, <1>5, <1>6

LEMMA StartsCounts ==
    ASSUME CallsTyped, CallsTyped', IsFiniteSet(Frames), NEW c \in Calls, Starts(c)
    PROVE  /\ IsFiniteSet(Frames)'
           /\ \A e : Cardinality(HeldIn(e))' =
                IF Top(c).e = e THEN Cardinality(HeldIn(e)) + 1 ELSE Cardinality(HeldIn(e))
           /\ \A p : RunsOn(p)' = RunsOn(p)
           /\ \A p : Cardinality(WaitsOn(p))' =
                IF Top(c).p = p THEN Cardinality(WaitsOn(p)) - 1 ELSE Cardinality(WaitsOn(p))
<1> DEFINE x == <<c, Depth(c)>>
<1>1. /\ Frames' = Frames
      /\ \A e : x \notin HeldIn(e) /\ HeldIn(e)' = IF Top(c).e = e THEN HeldIn(e) \cup {x} ELSE HeldIn(e)
      /\ \A p : RunsOn(p)' = RunsOn(p)
      /\ \A p : WaitsOn(p)' = WaitsOn(p) \ {x} /\ (x \in WaitsOn(p) <=> Top(c).p = p)
  BY StartsSets
<1> HIDE DEF x
<1>2. \A S : x \notin S => S \ {x} = S
  OBVIOUS
<1>3. ASSUME NEW p
      PROVE  Cardinality(WaitsOn(p))' =
                IF Top(c).p = p THEN Cardinality(WaitsOn(p)) - 1 ELSE Cardinality(WaitsOn(p))
  BY <1>1, <1>2, Finite, OneLess
<1>4. ASSUME NEW e
      PROVE  Cardinality(HeldIn(e))' =
                IF Top(c).e = e THEN Cardinality(HeldIn(e)) + 1 ELSE Cardinality(HeldIn(e))
  BY <1>1, Finite, OneMore
<1> QED BY <1>1, <1>3, <1>4

\* A budget nothing refers to is fresh whatever became of it.
LEMMA FreeIs ==
    ASSUME CallsTyped, NEW e, ~InUse(e)
    PROVE  HeldIn(e) = {} /\ WaitersFor(e) = {} /\ \A p \in Plugins : current[p] # e
<1>1. HeldIn(e) = {} /\ \A p \in Plugins : current[p] # e
  BY DEF InUse, HeldIn
<1>2. ASSUME NEW c \in WaitersFor(e) PROVE FALSE
  <2>1. c \in Calls /\ Depth(c) > 0 /\ Top(c).e = e
    BY <1>2 DEF WaitersFor, At
  <2>2. Depth(c) \in 1..Depth(c) /\ Top(c) = call[c].frames[Depth(c)]
    BY <2>1, CallIs
  <2>3. <<c, Depth(c)>> \in Frames /\ FrameOf(<<c, Depth(c)>>).e = e
    BY <2>1, <2>2, MembersAre DEF FrameOf
  <2> QED BY <2>3 DEF InUse
<1> QED BY <1>1, <1>2

LEMMA FreeNext ==
    (CallsTyped => \A e : ~InUse(e) => HeldIn(e) = {} /\ WaitersFor(e) = {})'
<1>1. CallsTyped => \A e : ~InUse(e) => HeldIn(e) = {} /\ WaitersFor(e) = {}
  BY FreeIs
<1> QED BY <1>1, PTL

LEMMA FreshIsSound ==
    ASSUME NEW l \in {Declared, Default}
    PROVE  Sound(Fresh(l), {}, 0)
BY FreshIs DEF Sound

LEMMA Collected ==
    ASSUME NEW b \in [Budgets -> BudgetRec], CallsTyped', Collect(b),
           \A e \in Budgets : Sound(b[e], WaitersFor(e)', Cardinality(HeldIn(e))')
    PROVE  budget' \in [Budgets -> BudgetRec] /\ AllSound'
<1>1. budget' = [e \in Budgets |-> IF InUse(e)' THEN b[e] ELSE Fresh(Default)]
  BY DEF Collect
<1>2. Fresh(Default) \in BudgetRec
  BY FreshIs
<1>3. budget' \in [Budgets -> BudgetRec]
  BY <1>1, <1>2
<1>4. ASSUME NEW e \in Budgets PROVE Sound(budget'[e], WaitersFor(e)', Cardinality(HeldIn(e))')
  <2>1. CASE InUse(e)'
    BY <1>1, <2>1
  <2>2. CASE ~InUse(e)'
    <3>1. HeldIn(e)' = {} /\ WaitersFor(e)' = {}
      BY <2>2, FreeNext
    <3>2. Cardinality(HeldIn(e))' = 0
      BY <3>1, FS_EmptySet
    <3>3. budget'[e] = Fresh(Default)
      BY <1>1, <2>2
    <3> QED BY <3>1, <3>2, <3>3, FreshIsSound
  <2> QED BY <2>1, <2>2
<1> QED BY <1>3, <1>4 DEF AllSound

\* The budget a plugin gets, or has.
Its(p) == IF current[p] # 0 THEN current[p] ELSE Spare
Found(p, limits) == IF current[p] # 0 THEN budget[Its(p)] ELSE Fresh(limits)

LEMMA Chosen ==
    ASSUME Inv, NEW p \in Plugins, Named(p), NEW limits \in {Declared, Default}
    PROVE  /\ Its(p) \in Budgets
           /\ [current EXCEPT ![p] = Its(p)] \in [Plugins -> Budgets \cup {0}]
           /\ \A q, r \in Plugins :
                (q # r /\ [current EXCEPT ![p] = Its(p)][q] # 0) =>
                  [current EXCEPT ![p] = Its(p)][q] # [current EXCEPT ![p] = Its(p)][r]
           /\ Sound(Found(p, limits), WaitersFor(Its(p)), Cardinality(HeldIn(Its(p))))
<1> USE DEF Inv, Shapes
<1>1. CASE current[p] # 0
  <2>1. Its(p) = current[p] /\ Found(p, limits) = budget[Its(p)] /\ Its(p) \in Budgets
    BY <1>1 DEF Its, Found
  <2>2. [current EXCEPT ![p] = Its(p)] = current
    BY <2>1
  <2> QED BY <2>1, <2>2 DEF AllSound, Apart
<1>2. CASE current[p] = 0
  <2> DEFINE S == {e \in Budgets : ~InUse(e)}
  <2>1. S \in SUBSET Nat /\ S # {}
    BY <1>2, GovernorAssumption DEF Named
  <2>2. Spare \in S
    BY <2>1, Least DEF Spare
  <2>3. Its(p) \in Budgets /\ ~InUse(Its(p)) /\ Found(p, limits) = Fresh(limits)
    BY <1>2, <2>2 DEF Its, Found
  <2>4. /\ HeldIn(Its(p)) = {} /\ WaitersFor(Its(p)) = {}
        /\ \A q \in Plugins : current[q] # Its(p)
    BY <2>3, FreeIs
  <2>5. Cardinality(HeldIn(Its(p))) = 0
    BY <2>4, FS_EmptySet
  <2> QED BY <2>3, <2>4, <2>5, FreshIsSound DEF Apart
<1> QED BY <1>1, <1>2

-----------------------------------------------------------------------------
(* Steps that leave every task as it is.                                    *)

LEMMA CountersAre ==
    CountersAccurate <=>
      \A p \in Plugins : executions[p] = Cardinality(RunsOn(p)) /\ pending[p] = Cardinality(WaitsOn(p))
BY DEF CountersAccurate, RunsOn, WaitsOn

LEMMA CountersNext ==
    CountersAccurate' <=>
      \A p \in Plugins :
        executions'[p] = Cardinality(RunsOn(p))' /\ pending'[p] = Cardinality(WaitsOn(p))'
BY DEF CountersAccurate, RunsOn, WaitsOn

LEMMA SameCalls ==
    ASSUME CallsTyped, call' = call
    PROVE  /\ CallsTyped' /\ Frames' = Frames /\ OnlyTopWaits' = OnlyTopWaits /\ Levels' = Levels
           /\ \A e : HeldIn(e)' = HeldIn(e) /\ WaitersFor(e)' = WaitersFor(e)
           /\ \A p : RunsOn(p)' = RunsOn(p) /\ WaitsOn(p)' = WaitsOn(p)
           /\ \A e : Cardinality(HeldIn(e))' = Cardinality(HeldIn(e))
           /\ (pending' = pending /\ executions' = executions /\ CountersAccurate) => CountersAccurate'
<1>1. /\ CallsTyped' /\ Frames' = Frames /\ OnlyTopWaits' = OnlyTopWaits /\ Levels' = Levels
      /\ \A e : HeldIn(e)' = HeldIn(e) /\ WaitersFor(e)' = WaitersFor(e)
      /\ \A p : RunsOn(p)' = RunsOn(p) /\ WaitsOn(p)' = WaitsOn(p)
  BY DEF CallsTyped, OnlyTopWaits, Levels, At, Depth, Top, HeldIn, WaitersFor, RunsOn, WaitsOn,
         FrameOf, Frames
<1>2. CountersAccurate <=>
        \A p \in Plugins : executions[p] = Cardinality(RunsOn(p)) /\ pending[p] = Cardinality(WaitsOn(p))
  BY CountersAre
<1>3. CountersAccurate' <=>
        \A p \in Plugins : executions'[p] = Cardinality(RunsOn(p))' /\ pending'[p] = Cardinality(WaitsOn(p))'
  BY CountersNext
<1>4. (pending' = pending /\ executions' = executions /\ CountersAccurate) => CountersAccurate'
  <2>1. \A p : Cardinality(RunsOn(p))' = Cardinality(RunsOn(p)) /\ Cardinality(WaitsOn(p))' = Cardinality(WaitsOn(p))
    BY <1>1
  <2> QED BY <1>2, <1>3, <2>1
<1>5. \A e : Cardinality(HeldIn(e))' = Cardinality(HeldIn(e))
  BY <1>1
<1> QED BY <1>1, <1>4, <1>5

LEMMA PhaseStep ==
    ASSUME Inv, NEW p \in Plugins, NEW f \in Phases, phase' = [phase EXCEPT ![p] = f],
           UNCHANGED <<current, budget, pending, executions, call>>
    PROVE  Inv'
BY SameCalls DEF Inv, Shapes, Apart, AllSound

LEMMA ConfiguredStep ==
    ASSUME Inv, NEW p \in Plugins, NEW limits \in {Declared, Default}, Configured(p, limits),
           phase' \in [Plugins -> Phases], UNCHANGED <<pending, executions, call>>
    PROVE  Inv'
<1> DEFINE e == Its(p)
<1>1. /\ e \in Budgets
      /\ [current EXCEPT ![p] = e] \in [Plugins -> Budgets \cup {0}]
      /\ \A q, r \in Plugins :
           (q # r /\ [current EXCEPT ![p] = e][q] # 0) =>
              [current EXCEPT ![p] = e][q] # [current EXCEPT ![p] = e][r]
      /\ Sound(Found(p, limits), WaitersFor(e), Cardinality(HeldIn(e)))
  BY Chosen DEF Configured
<1>2. CASE current[p] # 0
  BY <1>2, SameCalls DEF Configured, Inv, Shapes, Apart, AllSound
<1>3. CASE current[p] = 0
  <2>1. current' = [current EXCEPT ![p] = e] /\ budget' = [budget EXCEPT ![e] = Found(p, limits)]
    BY <1>3 DEF Configured, Its, Found
  <2> HIDE DEF e
  <2>2. budget' \in [Budgets -> BudgetRec] /\ AllSound'
    <3>1. budget' \in [Budgets -> BudgetRec] /\ budget'[e] = Found(p, limits)
      BY <1>1, <2>1 DEF Inv, Sound
    <3>2. \A d \in Budgets : d # e => budget'[d] = budget[d]
      BY <2>1 DEF Inv
    <3> QED BY <1>1, <3>1, <3>2, SameCalls DEF Inv, Shapes, AllSound
  <2>3. Shapes' /\ Apart'
    BY <1>1, <2>1, SameCalls DEF Inv, Shapes, Apart
  <2> QED BY <2>2, <2>3, SameCalls DEF Inv, Shapes
<1> QED BY <1>2, <1>3

LEMMA DropStep ==
    ASSUME Inv, NEW p \in Plugins, Drop(p)
    PROVE  Inv'
<1>1. /\ CallsTyped /\ CallsTyped' /\ call' = call
      /\ phase' = [phase EXCEPT ![p] = "off"] /\ current' = [current EXCEPT ![p] = 0]
      /\ pending' = pending /\ executions' = executions /\ Collect(budget)
  BY SameCalls DEF Drop, Inv, Shapes
<1>2. \A e \in Budgets : Sound(budget[e], WaitersFor(e)', Cardinality(HeldIn(e))')
  BY <1>1, SameCalls DEF Inv, AllSound
<1>3. budget' \in [Budgets -> BudgetRec] /\ AllSound'
  BY <1>1, <1>2, Collected DEF Inv
<1>4. Shapes' /\ Apart'
  BY <1>1 DEF Inv, Shapes, Apart, Phases
<1> QED BY <1>1, <1>3, <1>4, SameCalls DEF Inv

LEMMA RecoverStep ==
    ASSUME Inv, NEW e \in Budgets, NEW op \in Operations, Recover(e, op)
    PROVE  Inv'
<1> DEFINE b == budget[e]  d == [b EXCEPT !.open[op] = FALSE]
<1>1. b \in BudgetRec /\ b.open \in [Operations -> BOOLEAN]
  BY BudgetIs DEF Inv
<1>2. /\ d \in BudgetRec /\ d.queue = b.queue /\ d.value = b.value /\ d.limits = b.limits
      /\ d.failures = b.failures
  BY <1>1 DEF BudgetRec
<1>3. budget' = [budget EXCEPT ![e] = d]
  BY DEF Recover
<1>4. Sound(d, WaitersFor(e), Cardinality(HeldIn(e)))
  <2> HIDE DEF d
  <2> QED BY <1>2, SameSemaphore DEF Inv, AllSound, Sound, Counted
<1> HIDE DEF d
<1>5. /\ budget' \in [Budgets -> BudgetRec] /\ budget'[e] = d
      /\ \A k \in Budgets : k # e => budget'[k] = budget[k]
  BY <1>2, <1>3 DEF Inv
<1>6. /\ CallsTyped /\ call' = call /\ pending' = pending /\ executions' = executions
      /\ phase' = phase /\ current' = current
  BY DEF Recover, Inv, Shapes
<1>7. AllSound'
  BY <1>4, <1>5, <1>6, SameCalls DEF Inv, AllSound
<1> QED BY <1>5, <1>6, <1>7, SameCalls DEF Inv, Shapes, Apart

-----------------------------------------------------------------------------
(* What a step makes of one task.                                           *)

LEMMA GoesOn ==
    ASSUME CallsTyped, Levels, OnlyTopWaits, NEW c \in Calls, NEW fs \in Seq(FrameRec),
           NEW s \in None..Len(fs),
           call' = [call EXCEPT ![c] = [frames |-> fs, signal |-> s]],
           Len(fs) <= MaxDepth[c],
           \A i \in 1..Len(fs) - 1 : fs[i].pc \in {"calling", "running"},
           Len(fs) > 0 /\ fs[Len(fs)].pc = "failover" => Len(fs) < MaxDepth[c]
    PROVE  /\ CallsTyped' /\ Levels' /\ OnlyTopWaits' /\ Others(c)
           /\ call'[c].frames = fs /\ Depth(c)' = Len(fs)
<1>1. s \in Int /\ Len(fs) \in Nat
  BY DEF None
<1>2. /\ call' \in [Calls -> [frames : Seq(FrameRec), signal : Int]]
      /\ \A d \in Calls : d # c => call'[d] = call[d]
      /\ call'[c].frames = fs /\ call'[c].signal = s
  BY <1>1, CallsFit
<1>3. Depth(c)' = Len(fs)
  BY <1>2 DEF Depth
<1>4. CallsTyped' /\ Others(c)
  BY <1>2 DEF CallsTyped, Others
<1>5. OnlyTopWaits'
  <2> SUFFICES ASSUME NEW d \in Calls, NEW i \in 1..Depth(d)' - 1
               PROVE  call'[d].frames[i].pc \in {"calling", "running"}
    BY DEF OnlyTopWaits
  <2>1. CASE d = c
    BY <1>2, <1>3, <2>1
  <2>2. CASE d # c
    BY <1>2, <2>2 DEF OnlyTopWaits, Depth
  <2> QED BY <2>1, <2>2
<1>6. Levels'
  <2> SUFFICES ASSUME NEW d \in Calls
               PROVE  /\ Depth(d)' <= MaxDepth[d] /\ call'[d].signal \in None..Depth(d)'
                      /\ At(d, "failover")' => Depth(d)' < MaxDepth[d]
    BY DEF Levels
  <2>1. CASE d = c
    <3>1. At(c, "failover")' <=> Len(fs) > 0 /\ fs[Len(fs)].pc = "failover"
      BY <1>2, <1>3 DEF At, Top, Last
    <3> QED BY <1>2, <1>3, <2>1, <3>1
  <2>2. CASE d # c
    BY <1>2, <2>2 DEF Levels, Depth, At, Top
  <2> QED BY <2>1, <2>2
<1> QED BY <1>2, <1>3, <1>4, <1>5, <1>6

\* The last frame of fs goes on, in one way or another.
LEMMA LastGoesOn ==
    ASSUME NEW fs \in Seq(FrameRec), NEW f \in FrameRec, Len(fs) > 0
    PROVE  LET r == [fs EXCEPT ![Len(fs)] = f] IN
           /\ r \in Seq(FrameRec) /\ Len(r) = Len(fs) /\ r[Len(fs)] = f
           /\ \A i \in 1..Len(fs) - 1 : r[i] = fs[i]
<1> DEFINE n == Len(fs)
<1>1. n \in Nat /\ n \in 1..n /\ DOMAIN fs = 1..n /\ \A i \in 1..n - 1 : i \in 1..n /\ i # n
  OBVIOUS
<1>2. fs[n] \in FrameRec /\ fs = [i \in 1..n |-> fs[i]]
  OBVIOUS
<1>3. [fs EXCEPT ![n] = f] \in Seq(FrameRec) /\ Len([fs EXCEPT ![n] = f]) = n
  <2>1. \A i \in DOMAIN fs : [fs EXCEPT ![i] = f] \in Seq(FrameRec) /\ Len([fs EXCEPT ![i] = f]) = Len(fs)
    OBVIOUS
  <2> QED BY <1>1, <2>1
<1> HIDE DEF n
<1>4. [fs EXCEPT ![n] = f][n] = f /\ \A i \in 1..n - 1 : [fs EXCEPT ![n] = f][i] = fs[i]
  BY <1>1
<1> QED BY <1>3, <1>4 DEF n

LEMMA RaisedIs ==
    ASSUME NEW fs \in Seq(FrameRec), NEW err \in {"refused", "failed"},
           Len(fs) > 0 => fs[Len(fs)].pc # "waiting"
    PROVE  LET r == Raised(fs, err) IN
           /\ r \in Seq(FrameRec) /\ Len(r) = Len(fs)
           /\ \A i \in 1..Len(fs) - 1 : r[i] = fs[i]
           /\ \A i \in 1..Len(fs) : Alike(fs[i], r[i])
           /\ Len(fs) > 0 => r[Len(fs)].pc = "failover"
<1>1. CASE Len(fs) = 0
  BY <1>1 DEF Raised
<1>2. CASE Len(fs) > 0
  <2> DEFINE n == Len(fs)
             f == [fs[n] EXCEPT !.pc = "failover", !.refused = @ /\ err = "refused"]
  <2>1. n \in Nat /\ n \in 1..n /\ fs[n] \in FrameRec /\ DOMAIN fs = 1..n
        /\ \A i \in 1..n : i \in 1..n - 1 \/ i = n
    BY <1>2
  <2>2. f \in FrameRec /\ f.p = fs[n].p /\ f.e = fs[n].e /\ f.pc = "failover"
    BY <2>1 DEF FrameRec
  <2>3. Raised(fs, err) = [fs EXCEPT ![n] = f]
    <3>1. fs # <<>>
      BY <1>2
    <3>2. Raised(fs, err) = [fs EXCEPT ![n].pc = "failover", ![n].refused = @ /\ err = "refused"]
      BY <3>1 DEF Raised
    <3>3. [fs EXCEPT ![n].pc = "failover", ![n].refused = @ /\ err = "refused"] = [fs EXCEPT ![n] = f]
      BY <2>1
    <3> QED BY <3>2, <3>3
  <2> HIDE DEF f
  <2>4. LET r == [fs EXCEPT ![n] = f] IN
        /\ r \in Seq(FrameRec) /\ Len(r) = n /\ r[n] = f
        /\ \A i \in 1..n - 1 : r[i] = fs[i]
    BY <1>2, <2>2, LastGoesOn
  <2> HIDE DEF n
  <2>5. \A i \in 1..n : Alike(fs[i], [fs EXCEPT ![n] = f][i])
    BY <1>2, <2>1, <2>2, <2>4 DEF Alike, n
  <2> QED BY <2>2, <2>3, <2>4, <2>5 DEF n
<1>3. Len(fs) \in Nat
  OBVIOUS
<1> QED BY <1>1, <1>2, <1>3

LEMMA ReturnedIs ==
    ASSUME NEW fs \in Seq(FrameRec), Len(fs) > 0 => fs[Len(fs)].pc # "waiting"
    PROVE  LET r == Returned(fs) IN
           /\ r \in Seq(FrameRec) /\ Len(r) = Len(fs)
           /\ \A i \in 1..Len(fs) - 1 : r[i] = fs[i]
           /\ \A i \in 1..Len(fs) : Alike(fs[i], r[i])
           /\ Len(fs) > 0 => r[Len(fs)].pc = "running"
<1>1. CASE Len(fs) = 0
  BY <1>1 DEF Returned
<1>2. CASE Len(fs) > 0
  <2> DEFINE n == Len(fs)
             f == [fs[n] EXCEPT !.pc = "running", !.rest = {}]
  <2>1. n \in Nat /\ n \in 1..n /\ fs[n] \in FrameRec /\ DOMAIN fs = 1..n
        /\ \A i \in 1..n : i \in 1..n - 1 \/ i = n
    BY <1>2
  <2>2. f \in FrameRec /\ f.p = fs[n].p /\ f.e = fs[n].e /\ f.pc = "running"
    BY <2>1 DEF FrameRec
  <2>3. Returned(fs) = [fs EXCEPT ![n] = f]
    <3>1. fs # <<>>
      BY <1>2
    <3>2. Returned(fs) = [fs EXCEPT ![n].pc = "running", ![n].rest = {}]
      BY <3>1 DEF Returned
    <3>3. [fs EXCEPT ![n].pc = "running", ![n].rest = {}] = [fs EXCEPT ![n] = f]
      BY <2>1
    <3> QED BY <3>2, <3>3
  <2> HIDE DEF f
  <2>4. LET r == [fs EXCEPT ![n] = f] IN
        /\ r \in Seq(FrameRec) /\ Len(r) = n /\ r[n] = f
        /\ \A i \in 1..n - 1 : r[i] = fs[i]
    BY <1>2, <2>2, LastGoesOn
  <2> HIDE DEF n
  <2>5. \A i \in 1..n : Alike(fs[i], [fs EXCEPT ![n] = f][i])
    BY <1>2, <2>1, <2>2, <2>4 DEF Alike, n
  <2> QED BY <2>2, <2>3, <2>4, <2>5 DEF n
<1>3. Len(fs) \in Nat
  OBVIOUS
<1> QED BY <1>1, <1>2, <1>3

-----------------------------------------------------------------------------
(* Admission.                                                               *)

\* The frames fs are those of c, none of them at its end or in a queue.
Fits(c, fs) ==
    /\ fs \in Seq(FrameRec) /\ Len(fs) = Depth(c) /\ Depth(c) < MaxDepth[c] /\ ~At(c, "waiting")
    /\ \A i \in 1..Depth(c) : Alike(call[c].frames[i], fs[i]) /\ fs[i].pc \in {"calling", "running"}

\* The task goes on with fs: nothing is admitted, at most a budget was made.
LEMMA RefusedStep ==
    ASSUME Inv, NEW c \in Calls, NEW p \in Plugins, NEW fs, Fits(c, fs), Named(p),
           NEW err \in {"refused", "failed"},
           current' = [current EXCEPT ![p] = Its(p)],
           budget' = [budget EXCEPT ![Its(p)] = Found(p, Default)],
           Goes(c, Raised(fs, err)), UNCHANGED <<phase, pending, executions>>
    PROVE  Inv'
<1> DEFINE r == Raised(fs, err)  e == Its(p)
<1>1. /\ CallsTyped /\ Levels /\ OnlyTopWaits /\ IsFiniteSet(Frames) /\ Depth(c) \in Nat
      /\ fs \in Seq(FrameRec) /\ Len(fs) = Depth(c) /\ Depth(c) < MaxDepth[c] /\ MaxDepth[c] \in Nat
      /\ \A i \in 1..Depth(c) : Alike(call[c].frames[i], fs[i]) /\ fs[i].pc \in {"calling", "running"}
  BY CallIs, GovernorAssumption DEF Inv, Shapes, Fits
<1>2. Len(fs) > 0 => fs[Len(fs)].pc # "waiting"
  <2>1. Depth(c) > 0 => Depth(c) \in 1..Depth(c)
    BY <1>1
  <2> QED BY <1>1, <2>1
<1>3. /\ r \in Seq(FrameRec) /\ Len(r) = Depth(c)
      /\ \A i \in 1..Depth(c) - 1 : r[i] = fs[i]
      /\ \A i \in 1..Depth(c) : Alike(fs[i], r[i])
  <2>1. /\ r \in Seq(FrameRec) /\ Len(r) = Len(fs)
        /\ \A i \in 1..Len(fs) - 1 : r[i] = fs[i]
        /\ \A i \in 1..Len(fs) : Alike(fs[i], r[i])
    BY <1>1, <1>2, RaisedIs
  <2> HIDE DEF r
  <2> QED BY <1>1, <2>1
<1>4. call' = [call EXCEPT ![c] = [frames |-> r, signal |-> None]] /\ None \in None..Len(r)
  BY <1>1, <1>3 DEF Goes, None
<1> HIDE DEF r
<1>5. /\ CallsTyped' /\ Levels' /\ OnlyTopWaits' /\ Others(c)
      /\ call'[c].frames = r /\ Depth(c)' = Len(r)
  <2>1. \A i \in 1..Len(r) - 1 : r[i].pc \in {"calling", "running"}
    BY <1>1, <1>3
  <2>2. Len(r) <= MaxDepth[c] /\ Len(r) < MaxDepth[c]
    BY <1>1, <1>3
  <2> QED BY <1>1, <1>3, <1>4, <2>1, <2>2, GoesOn
<1>6. Keeps(c)
  <2>1. Same(c, Depth(c))
    BY <1>1, <1>3, <1>5 DEF Same, Alike
  <2> QED BY <1>1, <1>3, <1>5, <2>1 DEF Keeps, Depth
<1>7. /\ Frames' = Frames
      /\ \A d : HeldIn(d)' = HeldIn(d) /\ WaitersFor(d)' = WaitersFor(d)
      /\ \A q : RunsOn(q)' = RunsOn(q) /\ WaitsOn(q)' = WaitsOn(q)
  BY <1>1, <1>5, <1>6, KeepsSets
<1>8. /\ e \in Budgets
      /\ [current EXCEPT ![p] = e] \in [Plugins -> Budgets \cup {0}]
      /\ \A q, s \in Plugins :
           (q # s /\ [current EXCEPT ![p] = e][q] # 0) =>
             [current EXCEPT ![p] = e][q] # [current EXCEPT ![p] = e][s]
      /\ Sound(Found(p, Default), WaitersFor(e), Cardinality(HeldIn(e)))
  BY Chosen
<1>9. Shapes' /\ Apart'
  BY <1>5, <1>8 DEF Inv, Shapes, Apart
<1> HIDE DEF e
<1>10. /\ budget' \in [Budgets -> BudgetRec] /\ budget'[e] = Found(p, Default)
       /\ \A d \in Budgets : d # e => budget'[d] = budget[d]
  BY <1>8 DEF Inv, Sound, e
<1>11. AllSound'
  <2> SUFFICES ASSUME NEW d \in Budgets
               PROVE  Sound(budget'[d], WaitersFor(d)', Cardinality(HeldIn(d)'))
    BY DEF AllSound
  <2>1. CASE d = e
    BY <1>7, <1>8, <1>10, <2>1
  <2>2. CASE d # e
    BY <1>7, <1>10, <2>2 DEF Inv, AllSound
  <2> QED BY <2>1, <2>2
<1>12. CountersAccurate'
  <2>1. \A q : Cardinality(RunsOn(q))' = Cardinality(RunsOn(q)) /\ Cardinality(WaitsOn(q))' = Cardinality(WaitsOn(q))
    BY <1>7
  <2> QED BY <2>1, CountersAre, CountersNext DEF Inv
<1> QED BY <1>1, <1>5, <1>7, <1>9, <1>10, <1>11, <1>12 DEF Inv

\* The task enters with a new frame, in the queue or at once.
LEMMA EnteredStep ==
    ASSUME Inv, NEW c \in Calls, NEW p \in Plugins, NEW fs, Fits(c, fs), Named(p),
           NEW op \in Operations, NEW pc \in {"waiting", "running"}, NEW b,
           Sound(b, IF pc = "waiting" THEN WaitersFor(Its(p)) \cup {c} ELSE WaitersFor(Its(p)),
                    IF pc = "waiting" THEN Cardinality(HeldIn(Its(p))) ELSE Cardinality(HeldIn(Its(p))) + 1),
           current' = [current EXCEPT ![p] = Its(p)],
           budget' = [budget EXCEPT ![Its(p)] = b],
           Goes(c, Append(fs, Frame(p, Its(p), op, pc))),
           executions' = [executions EXCEPT ![p] = @ + 1],
           pending' = IF pc = "waiting" THEN [pending EXCEPT ![p] = @ + 1] ELSE pending,
           UNCHANGED phase
    PROVE  Inv'
<1> DEFINE e == Its(p)  f == Frame(p, e, op, pc)  r == Append(fs, f)
<1>1. /\ CallsTyped /\ Levels /\ OnlyTopWaits /\ IsFiniteSet(Frames) /\ Depth(c) \in Nat
      /\ fs \in Seq(FrameRec) /\ Len(fs) = Depth(c) /\ Depth(c) < MaxDepth[c] /\ MaxDepth[c] \in Nat
      /\ \A i \in 1..Depth(c) : Alike(call[c].frames[i], fs[i]) /\ fs[i].pc \in {"calling", "running"}
      /\ ~At(c, "waiting")
  BY CallIs, GovernorAssumption DEF Inv, Shapes, Fits
<1>2. /\ e \in Budgets
      /\ [current EXCEPT ![p] = e] \in [Plugins -> Budgets \cup {0}]
      /\ \A q, s \in Plugins :
           (q # s /\ [current EXCEPT ![p] = e][q] # 0) =>
             [current EXCEPT ![p] = e][q] # [current EXCEPT ![p] = e][s]
  BY Chosen
<1> HIDE DEF e
<1>3. f \in FrameRec /\ f.p = p /\ f.e = e /\ f.pc = pc
  BY <1>2 DEF Frame, FrameRec
<1> HIDE DEF f
<1>4. /\ r \in Seq(FrameRec) /\ Len(r) = Depth(c) + 1 /\ r[Depth(c) + 1] = f
      /\ \A i \in 1..Depth(c) : r[i] = fs[i]
  BY <1>1, <1>3
<1>5. call' = [call EXCEPT ![c] = [frames |-> r, signal |-> None]] /\ None \in None..Len(r)
  BY <1>1, <1>4 DEF Goes, None, f, e
<1> HIDE DEF r
<1>6. /\ CallsTyped' /\ Levels' /\ OnlyTopWaits' /\ Others(c)
      /\ call'[c].frames = r /\ Depth(c)' = Len(r)
  <2>1. \A i \in 1..Len(r) - 1 : r[i].pc \in {"calling", "running"}
    BY <1>1, <1>4
  <2>2. Len(r) <= MaxDepth[c] /\ (r[Len(r)].pc = "failover" => Len(r) < MaxDepth[c])
    BY <1>1, <1>3, <1>4
  <2> QED BY <1>1, <1>4, <1>5, <2>1, <2>2, GoesOn
<1>7. Pushes(c, f)
  <2>1. Same(c, Depth(c))
    BY <1>1, <1>4, <1>6 DEF Same
  <2> QED BY <1>1, <1>4, <1>6, <2>1 DEF Pushes, Depth
<1>8. /\ IsFiniteSet(Frames)'
      /\ \A d : Cardinality(HeldIn(d))' =
            IF f.e = d /\ f.pc # "waiting" THEN Cardinality(HeldIn(d)) + 1 ELSE Cardinality(HeldIn(d))
      /\ \A q : Cardinality(RunsOn(q))' =
            IF f.p = q THEN Cardinality(RunsOn(q)) + 1 ELSE Cardinality(RunsOn(q))
      /\ \A q : Cardinality(WaitsOn(q))' =
            IF f.p = q /\ f.pc = "waiting" THEN Cardinality(WaitsOn(q)) + 1 ELSE Cardinality(WaitsOn(q))
  BY <1>1, <1>6, <1>7, PushesCounts
<1>9. \A d : WaitersFor(d)' =
            IF f.e = d /\ f.pc = "waiting" THEN WaitersFor(d) \cup {c} ELSE WaitersFor(d)
  BY <1>1, <1>6, <1>7, PushesSets
<1>10. /\ budget' \in [Budgets -> BudgetRec] /\ budget'[e] = b
       /\ \A d \in Budgets : d # e => budget'[d] = budget[d]
  BY <1>2 DEF Inv, Sound, e
<1>11. AllSound'
  <2> SUFFICES ASSUME NEW d \in Budgets
               PROVE  Sound(budget'[d], WaitersFor(d)', Cardinality(HeldIn(d))')
    BY DEF AllSound
  <2>1. CASE d = e
    BY <1>3, <1>8, <1>9, <1>10, <2>1 DEF e
  <2>2. CASE d # e
    BY <1>3, <1>8, <1>9, <1>10, <2>2 DEF Inv, AllSound
  <2> QED BY <2>1, <2>2
<1>12. /\ executions' \in [Plugins -> Int] /\ pending' \in [Plugins -> Int]
       /\ executions'[p] = executions[p] + 1
       /\ \A q \in Plugins : q # p => executions'[q] = executions[q] /\ pending'[q] = pending[q]
       /\ pending'[p] = IF pc = "waiting" THEN pending[p] + 1 ELSE pending[p]
  BY DEF Inv, Shapes
<1>13. CountersAccurate'
  <2> SUFFICES ASSUME NEW q \in Plugins
               PROVE  executions'[q] = Cardinality(RunsOn(q))' /\ pending'[q] = Cardinality(WaitsOn(q))'
    BY CountersNext
  <2>1. executions[q] = Cardinality(RunsOn(q)) /\ pending[q] = Cardinality(WaitsOn(q))
    BY CountersAre DEF Inv
  <2> QED BY <1>3, <1>8, <1>12, <2>1
<1>14. Shapes' /\ Apart'
  BY <1>2, <1>6, <1>12 DEF Inv, Shapes, Apart, e
<1> QED BY <1>6, <1>8, <1>10, <1>11, <1>13, <1>14 DEF Inv

LEMMA AdmitStep ==
    ASSUME Inv, NEW c \in Calls, NEW p \in Plugins, NEW fs, Fits(c, fs), NEW op \in Operations,
           Admit(c, fs, p, op)
    PROVE  Inv'
<1> DEFINE e == Its(p)  b == Found(p, Default)  ws == WaitersFor(e)  n == Cardinality(HeldIn(e))
<1>1. Named(p) /\ current' = [current EXCEPT ![p] = e] /\ UNCHANGED phase
  BY DEF Admit, Its
<1>2. Sound(b, ws, n) /\ n \in Nat /\ c \notin ws
  BY <1>1, Chosen, Finite DEF Inv, Fits, WaitersFor
<1>3. CASE \E err \in {"refused", "failed"} :
             /\ budget' = [budget EXCEPT ![e] = b] /\ Goes(c, Raised(fs, err))
             /\ UNCHANGED <<pending, executions>>
  BY <1>1, <1>3, RefusedStep
<1>4. CASE /\ Locked(b) /\ pending' = [pending EXCEPT ![p] = @ + 1]
           /\ executions' = [executions EXCEPT ![p] = @ + 1]
           /\ budget' = [budget EXCEPT ![e] = Queued(b, c)]
           /\ Goes(c, Append(fs, Frame(p, e, op, "waiting")))
  <2>1. Sound(Queued(b, c), ws \cup {c}, n)
    <3> HIDE DEF b, ws, n
    <3> QED BY <1>2, <1>4, QueuedIs DEF Sound, Counted
  <2> QED BY <1>1, <1>4, <2>1, EnteredStep
<1>5. CASE /\ ~Locked(b) /\ pending' = pending
           /\ executions' = [executions EXCEPT ![p] = @ + 1]
           /\ budget' = [budget EXCEPT ![e] = [b EXCEPT !.value = @ - 1]]
           /\ Goes(c, Append(fs, Frame(p, e, op, "running")))
  <2> DEFINE d == [b EXCEPT !.value = @ - 1]
  <2>1. Sound(d, ws, n + 1)
    <3>1. b \in BudgetRec /\ Stand(b, ws) /\ Adds(b, n) /\ Counted(b)
      BY <1>2 DEF Sound
    <3> HIDE DEF b, ws, n
    <3>2. /\ d \in BudgetRec /\ Stand(d, ws) /\ HandsOver(d) /\ Adds(d, n + 1)
          /\ d.limits = b.limits /\ d.failures = b.failures
      BY <1>2, <1>5, <3>1, TakenIs
    <3> HIDE DEF d
    <3> QED BY <3>1, <3>2 DEF Sound, Counted
  <2> QED BY <1>1, <1>5, <2>1, EnteredStep
<1> QED BY <1>3, <1>4, <1>5 DEF Admit, Its, Found

-----------------------------------------------------------------------------
(* The end of an execution.                                                 *)

Outcomes == {"ok", "failed", "refused", "cancelled"}

\* What is left of the task: the frames below, the last of them told.
LEMMA LeavesIs ==
    ASSUME Inv, NEW c \in Calls, Depth(c) > 0, NEW b, NEW outcome \in Outcomes, End(c, b, outcome),
           outcome = "cancelled" => call[c].signal <= Depth(c) - 1 \/ Depth(c) = 1
    PROVE  /\ CallsTyped' /\ Levels' /\ OnlyTopWaits' /\ Pops(c)
           /\ outcome = "ok" /\ Depth(c) > 1 => call'[c].frames[Depth(c) - 1].pc = "running"
           /\ outcome \in {"failed", "refused"} /\ Depth(c) > 1 =>
                call'[c].frames[Depth(c) - 1].pc = "failover"
<1> DEFINE fs == Below(c)  n == Depth(c) - 1
<1>1. /\ CallsTyped /\ Levels /\ OnlyTopWaits
      /\ Depth(c) \in Nat /\ n \in Nat /\ Depth(c) <= MaxDepth[c] /\ MaxDepth[c] \in Nat
      /\ fs \in Seq(FrameRec) /\ Len(fs) = n
      /\ \A i \in 1..n : fs[i] = call[c].frames[i] /\ fs[i].pc \in {"calling", "running"}
      /\ call[c].signal \in None..Depth(c)
  BY CallIs, GovernorAssumption DEF Inv, Shapes, Levels, OnlyTopWaits
<1> HIDE DEF n, fs
<1>2. Len(fs) > 0 => fs[Len(fs)].pc # "waiting"
  <2>1. n > 0 => n \in 1..n
    BY <1>1
  <2> QED BY <1>1, <2>1
<1>3. PICK r \in Seq(FrameRec), s \in None..n :
         /\ call' = [call EXCEPT ![c] = [frames |-> r, signal |-> s]]
         /\ Len(r) = n /\ \A i \in 1..n - 1 : r[i] = fs[i]
         /\ \A i \in 1..n : Alike(fs[i], r[i])
         /\ outcome = "ok" /\ n > 0 => r[n].pc = "running"
         /\ outcome \in {"failed", "refused"} /\ n > 0 => r[n].pc = "failover"
         /\ outcome = "cancelled" => r = fs
  <2>1. CASE outcome = "ok"
    <3> DEFINE r == Returned(fs)
    <3>1. /\ r \in Seq(FrameRec) /\ Len(r) = Len(fs)
          /\ \A i \in 1..Len(fs) - 1 : r[i] = fs[i]
          /\ \A i \in 1..Len(fs) : Alike(fs[i], r[i])
          /\ Len(fs) > 0 => r[Len(fs)].pc = "running"
      BY <1>1, <1>2, ReturnedIs
    <3>2. call' = [call EXCEPT ![c] = [frames |-> r, signal |-> None]] /\ None \in None..n
      BY <1>1, <2>1 DEF End, Goes, None, fs
    <3> HIDE DEF r
    <3> QED BY <1>1, <2>1, <3>1, <3>2
  <2>2. CASE outcome \in {"failed", "refused"}
    <3> DEFINE r == Raised(fs, outcome)
    <3>1. /\ r \in Seq(FrameRec) /\ Len(r) = Len(fs)
          /\ \A i \in 1..Len(fs) - 1 : r[i] = fs[i]
          /\ \A i \in 1..Len(fs) : Alike(fs[i], r[i])
          /\ Len(fs) > 0 => r[Len(fs)].pc = "failover"
      <4>1. outcome \in {"refused", "failed"}
        BY <2>2
      <4> QED BY <1>1, <1>2, <4>1, RaisedIs
    <3>2. call' = [call EXCEPT ![c] = [frames |-> r, signal |-> None]] /\ None \in None..n
      <4>1. Goes(c, Raised(Below(c), outcome))
        <5>1. CASE outcome = "failed"
          BY <5>1 DEF End
        <5>2. CASE outcome = "refused"
          BY <5>2 DEF End
        <5> QED BY <2>2, <5>1, <5>2
      <4> QED BY <1>1, <4>1 DEF Goes, None, fs
    <3> HIDE DEF r
    <3> QED BY <1>1, <2>2, <3>1, <3>2
  <2>3. CASE outcome = "cancelled"
    <3> DEFINE s == IF Depth(c) = 1 THEN None ELSE call[c].signal
    <3>1. call' = [call EXCEPT ![c] = [frames |-> fs, signal |-> s]]
      BY <2>3 DEF End, fs
    <3>2. s \in None..n
      BY <1>1, <2>3 DEF n, None
    <3>3. \A i \in 1..n : Alike(fs[i], fs[i])
      BY DEF Alike
    <3> HIDE DEF s
    <3> QED BY <1>1, <2>3, <3>1, <3>2, <3>3
  <2> QED BY <2>1, <2>2, <2>3 DEF Outcomes
<1>4. /\ CallsTyped' /\ Levels' /\ OnlyTopWaits' /\ Others(c)
      /\ call'[c].frames = r /\ Depth(c)' = Len(r)
  <2>1. \A i \in 1..Len(r) - 1 : r[i].pc \in {"calling", "running"}
    BY <1>1, <1>3
  <2>2. Len(r) <= MaxDepth[c] /\ Len(r) < MaxDepth[c]
    BY <1>1, <1>3 DEF n
  <2>3. s \in None..Len(r)
    BY <1>3
  <2> QED BY <1>1, <1>3, <2>1, <2>2, <2>3, GoesOn
<1>5. Pops(c)
  <2>1. Same(c, n)
    BY <1>1, <1>3, <1>4 DEF Same, Alike
  <2> QED BY <1>1, <1>3, <1>4, <2>1 DEF Pops, n
<1> QED BY <1>1, <1>3, <1>4, <1>5 DEF n

\* The budget of the execution that ends, before its outcome is judged.
Back(c, d) ==
    LET f == Top(c) IN
    /\ d \in BudgetRec /\ Stand(d, WaitersFor(f.e) \ {c}) /\ HandsOver(d)
    /\ f.pc = "waiting" => Adds(d, Cardinality(HeldIn(f.e)))
    /\ f.pc # "waiting" => Adds(d, Cardinality(HeldIn(f.e)) - 1)
    /\ d.limits = budget[f.e].limits /\ d.failures = budget[f.e].failures

LEMMA EndedStep ==
    ASSUME Inv, NEW c \in Calls, Depth(c) > 0, NEW b, NEW outcome \in Outcomes, End(c, b, outcome),
           outcome = "cancelled" => call[c].signal <= Depth(c) - 1 \/ Depth(c) = 1,
           Back(c, GivesBack(c, b)),
           pending' = IF Top(c).pc = "waiting" THEN PendingLess(Top(c).p) ELSE pending
    PROVE  Inv'
<1> DEFINE f == Top(c)  g == GivesBack(c, b)  j == Judged(g, f.op, outcome)
<1>0. PICK e \in Budgets : e = f.e
  BY CallIs DEF Inv, Shapes, FrameRec
<1>1. /\ CallsTyped /\ OnlyTopWaits /\ IsFiniteSet(Frames)
      /\ f.p \in Plugins /\ f.op \in Operations
  BY CallIs DEF Inv, Shapes, FrameRec
<1>2. CallsTyped' /\ Levels' /\ OnlyTopWaits' /\ Pops(c)
  BY LeavesIs
<1>3. /\ IsFiniteSet(Frames)'
      /\ \A d : Cardinality(HeldIn(d))' =
            IF f.e = d /\ f.pc # "waiting" THEN Cardinality(HeldIn(d)) - 1 ELSE Cardinality(HeldIn(d))
      /\ \A q : Cardinality(RunsOn(q))' =
            IF f.p = q THEN Cardinality(RunsOn(q)) - 1 ELSE Cardinality(RunsOn(q))
      /\ \A q : Cardinality(WaitsOn(q))' =
            IF f.p = q /\ f.pc = "waiting" THEN Cardinality(WaitsOn(q)) - 1 ELSE Cardinality(WaitsOn(q))
  BY <1>1, <1>2, PopsCounts
<1>4. \A d : WaitersFor(d)' = WaitersFor(d) \ {c}
  BY <1>1, <1>2, PopsSets
<1>5. /\ executions' = [executions EXCEPT ![f.p] = @ - 1]
      /\ UNCHANGED <<phase, current>>
      /\ Collect([budget EXCEPT ![e] = j])
  BY <1>0 DEF End
<1>6. Sound(j, WaitersFor(e)', Cardinality(HeldIn(e))')
  <2>1. /\ g \in BudgetRec /\ Stand(g, WaitersFor(e)') /\ HandsOver(g) /\ Adds(g, Cardinality(HeldIn(e))')
        /\ g.limits = budget[e].limits /\ g.failures = budget[e].failures
    <3>1. WaitersFor(e)' = WaitersFor(e) \ {c}
      BY <1>4
    <3>2. /\ f.pc = "waiting" => Cardinality(HeldIn(e))' = Cardinality(HeldIn(e))
          /\ f.pc # "waiting" => Cardinality(HeldIn(e))' = Cardinality(HeldIn(e)) - 1
      BY <1>0, <1>3
    <3>3. /\ g \in BudgetRec /\ Stand(g, WaitersFor(e) \ {c}) /\ HandsOver(g)
          /\ f.pc = "waiting" => Adds(g, Cardinality(HeldIn(e)))
          /\ f.pc # "waiting" => Adds(g, Cardinality(HeldIn(e)) - 1)
          /\ g.limits = budget[e].limits /\ g.failures = budget[e].failures
      BY <1>0 DEF Back
    <3> HIDE DEF g, f
    <3> QED BY <3>1, <3>2, <3>3
  <2>2. Counted(g)
    BY <1>1, <2>1 DEF Inv, AllSound, Sound, Counted
  <2> HIDE DEF g
  <2>3. /\ j \in BudgetRec /\ Counted(j)
        /\ j.queue = g.queue /\ j.value = g.value /\ j.limits = g.limits
    BY <1>1, <2>1, <2>2, JudgedIs DEF Outcomes
  <2> HIDE DEF j
  <2> QED BY <2>1, <2>3, SameSemaphore DEF Sound
<1> HIDE DEF j
<1>7. \A d \in Budgets : d # e => Sound(budget[d], WaitersFor(d)', Cardinality(HeldIn(d))')
  <2> TAKE d \in Budgets
  <2> HAVE d # e
  <2>1. c \notin WaitersFor(d)
    BY <1>0 DEF WaitersFor
  <2> QED BY <1>0, <1>3, <1>4, <2>1 DEF Inv, AllSound
<1> HIDE DEF f
<1>8. budget' \in [Budgets -> BudgetRec] /\ AllSound'
  <2> DEFINE bs == [budget EXCEPT ![e] = j]
  <2>1. bs \in [Budgets -> BudgetRec] /\ bs[e] = j /\ \A d \in Budgets : d # e => bs[d] = budget[d]
    <3>1. j \in BudgetRec
      BY <1>6 DEF Sound
    <3> QED BY <1>0, <3>1 DEF Inv
  <2>2. \A d \in Budgets : Sound(bs[d], WaitersFor(d)', Cardinality(HeldIn(d))')
    <3> TAKE d \in Budgets
    <3> HIDE DEF bs
    <3>1. CASE d = e
      BY <1>6, <2>1, <3>1
    <3>2. CASE d # e
      BY <1>7, <2>1, <3>2
    <3> QED BY <3>1, <3>2
  <2> HIDE DEF bs
  <2>3. Collect(bs)
    BY <1>5 DEF bs
  <2> QED BY <1>2, <2>1, <2>2, <2>3, Collected
<1>9. /\ executions' \in [Plugins -> Int] /\ pending' \in [Plugins -> Int]
      /\ executions'[f.p] = executions[f.p] - 1
      /\ \A q \in Plugins : q # f.p => executions'[q] = executions[q] /\ pending'[q] = pending[q]
      /\ pending'[f.p] = IF f.pc = "waiting" THEN pending[f.p] - 1 ELSE pending[f.p]
  BY <1>1, <1>5 DEF Inv, Shapes, PendingLess, f
<1>10. CountersAccurate'
  <2> SUFFICES ASSUME NEW q \in Plugins
               PROVE  executions'[q] = Cardinality(RunsOn(q))' /\ pending'[q] = Cardinality(WaitsOn(q))'
    BY CountersNext
  <2>1. executions[q] = Cardinality(RunsOn(q)) /\ pending[q] = Cardinality(WaitsOn(q))
    BY CountersAre DEF Inv
  <2> QED BY <1>3, <1>9, <2>1
<1>11. Shapes' /\ Apart'
  BY <1>2, <1>5, <1>9 DEF Inv, Shapes, Apart
<1> QED BY <1>2, <1>3, <1>8, <1>10, <1>11 DEF Inv

-----------------------------------------------------------------------------
(* Every action preserves the invariant.                                    *)

LEMMA TopIs ==
    ASSUME Inv, NEW c \in Calls, Depth(c) > 0
    PROVE  /\ Top(c) \in FrameRec /\ Top(c).p \in Plugins /\ Top(c).e \in Budgets
           /\ Top(c).op \in Operations /\ Top(c).rest \in SUBSET DOMAIN Providers
           /\ budget[Top(c).e] \in BudgetRec
           /\ Sound(budget[Top(c).e], WaitersFor(Top(c).e), Cardinality(HeldIn(Top(c).e)))
           /\ Cardinality(HeldIn(Top(c).e)) \in Nat
<1>1. Top(c) \in FrameRec
  BY CallIs DEF Inv, Shapes
<1>2. Top(c).p \in Plugins /\ Top(c).e \in Budgets
  BY <1>1 DEF FrameRec
<1>3. Top(c).op \in Operations /\ Top(c).rest \in SUBSET DOMAIN Providers
  BY <1>1 DEF FrameRec
<1> QED BY <1>1, <1>2, <1>3, Finite DEF Inv, AllSound

\* A callback gives its permit back.
LEMMA ReleasedBack ==
    ASSUME Inv, NEW c \in Calls, Depth(c) > 0, Top(c).pc # "waiting"
    PROVE  Back(c, GivesBack(c, budget[Top(c).e]))
<1> DEFINE f == Top(c)  b == budget[f.e]  d == Released(b)  n == Cardinality(HeldIn(f.e))
           ws == WaitersFor(f.e)
<1>1. b \in BudgetRec /\ Stand(b, ws) /\ Adds(b, n) /\ n \in Nat
  BY TopIs DEF Sound
<1>2. ws \ {c} = ws
  BY DEF WaitersFor, At
<1>3. n - 1 \in Nat
  <2>1. <<c, Depth(c)>> \in HeldIn(f.e)
    <3>1. Depth(c) \in 1..Depth(c) /\ Top(c) = call[c].frames[Depth(c)]
      BY CallIs DEF Inv, Shapes
    <3> QED BY <3>1, MembersAre
  <2>2. IsFiniteSet(HeldIn(f.e))
    BY Finite DEF Inv
  <2>3. /\ IsFiniteSet(HeldIn(f.e) \ {<<c, Depth(c)>>})
        /\ Cardinality(HeldIn(f.e) \ {<<c, Depth(c)>>}) = n - 1
    BY <2>1, <2>2, OneLess
  <2> QED BY <2>3, FS_CardinalityType
<1>4. GivesBack(c, b) = d
  BY DEF GivesBack
<1> HIDE DEF n, ws, b
<1>5. /\ d \in BudgetRec /\ Stand(d, ws) /\ HandsOver(d) /\ Adds(d, n - 1)
      /\ d.limits = b.limits /\ d.failures = b.failures
  <2>1. Adds(b, n - 1 + 1)
    <3>1. n - 1 + 1 = n
      BY <1>1
    <3> QED BY <1>1, <3>1
  <2> QED BY <1>1, <1>3, <2>1, ReleasedIs
<1> HIDE DEF d
<1> QED BY <1>2, <1>4, <1>5 DEF Back, n, ws, b

\* A waiter leaves the queue.
LEMMA LeavesQueue ==
    ASSUME Inv, NEW c \in Calls, At(c, "waiting")
    PROVE  LET f == Top(c)  d == Unqueued(budget[f.e], c)  n == Cardinality(HeldIn(f.e)) IN
           /\ d \in BudgetRec /\ Stand(d, WaitersFor(f.e) \ {c})
           /\ Future(c) = "granted" => Adds(d, n + 1)
           /\ Future(c) # "granted" => Adds(d, n) /\ HandsOver(d)
           /\ d.limits = budget[f.e].limits /\ d.failures = budget[f.e].failures
<1> DEFINE f == Top(c)  b == budget[f.e]  d == Unqueued(b, c)  n == Cardinality(HeldIn(f.e))
           ws == WaitersFor(f.e)
<1>1. b \in BudgetRec /\ Stand(b, ws) /\ Adds(b, n) /\ HandsOver(b) /\ n \in Nat
  BY TopIs DEF Sound, At
<1>2. c \in ws
  BY DEF WaitersFor
<1>3. Future(c) = b.queue[WaiterOf(b, c)].st
  BY DEF Future
<1> HIDE DEF n, ws, b
<1>4. /\ d \in BudgetRec /\ Stand(d, ws \ {c})
      /\ Future(c) = "granted" => \A m \in Nat : Adds(b, m) => Adds(d, m + 1)
      /\ Future(c) # "granted" => (\A m : Adds(b, m) => Adds(d, m)) /\ (HandsOver(b) => HandsOver(d))
      /\ d.limits = b.limits /\ d.failures = b.failures
  BY <1>1, <1>2, <1>3, UnqueuedIs
<1> HIDE DEF d
<1> QED BY <1>1, <1>4 DEF n, ws, b, d

\* A waiter that gives up ends without a permit.
LEMMA GiveUpEnds ==
    ASSUME Inv, NEW c \in Calls, GiveUp(c)
    PROVE  /\ Depth(c) > 0 /\ Top(c).pc = "waiting" /\ pending' = PendingLess(Top(c).p)
           /\ \E b : \E outcome \in {"refused", "cancelled"} :
                /\ End(c, b, outcome) /\ Back(c, GivesBack(c, b))
                /\ outcome = "cancelled" => call[c].signal <= Depth(c) - 1
<1> DEFINE f == Top(c)  d == Unqueued(budget[f.e], c)  n == Cardinality(HeldIn(f.e))
           ws == WaitersFor(f.e) \ {c}
           g == IF Future(c) = "granted" THEN Released(d) ELSE d
           outcome == IF Expired(c) THEN "refused" ELSE "cancelled"
<1>1. At(c, "waiting") /\ Depth(c) > 0 /\ f.pc = "waiting" /\ n \in Nat
  BY TopIs DEF GiveUp, At
<1>2. /\ d \in BudgetRec /\ Stand(d, ws)
      /\ Future(c) = "granted" => Adds(d, n + 1)
      /\ Future(c) # "granted" => Adds(d, n) /\ HandsOver(d)
      /\ d.limits = budget[f.e].limits /\ d.failures = budget[f.e].failures
  BY <1>1, LeavesQueue
<1>3. End(c, g, outcome) /\ pending' = PendingLess(f.p)
  BY DEF GiveUp
<1> HIDE DEF d, n, ws
<1>4. /\ g \in BudgetRec /\ Stand(g, ws) /\ Adds(g, n) /\ HandsOver(g)
      /\ g.limits = budget[f.e].limits /\ g.failures = budget[f.e].failures
  <2>1. CASE Future(c) = "granted"
    BY <1>1, <1>2, <2>1, ReleasedIs
  <2>2. CASE Future(c) # "granted"
    BY <1>2, <2>2
  <2> QED BY <2>1, <2>2
<1> HIDE DEF g
<1>5. Back(c, GivesBack(c, g))
  BY <1>1, <1>4 DEF Back, GivesBack, n, ws
<1>6. outcome \in {"refused", "cancelled"}
  OBVIOUS
<1>7. outcome = "cancelled" => call[c].signal <= Depth(c) - 1
  <2>1. call[c].signal \in None..Depth(c) /\ Depth(c) \in Nat
    BY CallIs DEF Inv, Shapes, Levels
  <2> QED BY <2>1 DEF Expired, None
<1> HIDE DEF outcome
<1> QED BY <1>1, <1>3, <1>5, <1>6, <1>7

LEMMA GiveUpStep ==
    ASSUME Inv, NEW c \in Calls, GiveUp(c)
    PROVE  Inv'
<1>1. PICK b : \E outcome \in {"refused", "cancelled"} :
         /\ End(c, b, outcome) /\ Back(c, GivesBack(c, b))
         /\ outcome = "cancelled" => call[c].signal <= Depth(c) - 1
  BY GiveUpEnds
<1>2. PICK outcome \in {"refused", "cancelled"} :
         /\ End(c, b, outcome) /\ Back(c, GivesBack(c, b))
         /\ outcome = "cancelled" => call[c].signal <= Depth(c) - 1
  BY <1>1
<1>3. Depth(c) > 0 /\ Top(c).pc = "waiting" /\ pending' = PendingLess(Top(c).p)
  BY GiveUpEnds
<1> QED BY <1>2, <1>3, EndedStep DEF Outcomes

\* A waiter that was granted a permit starts with it, or ends without one.
LEMMA ResumeIs ==
    ASSUME Inv, NEW c \in Calls, Resume(c)
    PROVE  LET f == Top(c)  n == Cardinality(HeldIn(f.e))  ws == WaitersFor(f.e) \ {c} IN
           /\ Depth(c) > 0 /\ f.pc = "waiting" /\ f \in FrameRec /\ pending' = PendingLess(f.p)
           /\ \/ \E b : End(c, b, "refused") /\ Back(c, GivesBack(c, b))
              \/ \E b \in BudgetRec :
                   /\ Stand(b, ws) /\ Adds(b, n + 1) /\ HandsOver(b)
                   /\ b.limits = budget[f.e].limits /\ b.failures = budget[f.e].failures
                   /\ MayStart(f)
                   /\ budget' = [budget EXCEPT ![f.e] = b]
                   /\ Goes(c, Append(Below(c), [f EXCEPT !.pc = "running"]))
                   /\ UNCHANGED <<phase, current, executions>>
<1> DEFINE f == Top(c)  d == Unqueued(budget[f.e], c)  n == Cardinality(HeldIn(f.e))
           ws == WaitersFor(f.e) \ {c}  b == HandsOn(d)
<1>1. /\ At(c, "waiting") /\ Depth(c) > 0 /\ f.pc = "waiting" /\ n \in Nat /\ Future(c) = "granted"
      /\ f \in FrameRec /\ f.p \in Plugins /\ f.e \in Budgets
      /\ pending' = PendingLess(f.p)
  BY TopIs DEF Resume, At
<1>2. /\ d \in BudgetRec /\ Stand(d, ws) /\ Adds(d, n + 1)
      /\ d.limits = budget[f.e].limits /\ d.failures = budget[f.e].failures
  BY <1>1, LeavesQueue
<1> HIDE DEF d, n, ws
<1>3. /\ b \in BudgetRec /\ Stand(b, ws) /\ Adds(b, n + 1) /\ HandsOver(b)
      /\ b.limits = budget[f.e].limits /\ b.failures = budget[f.e].failures
  <2>1. n + 1 \in Nat
    BY <1>1
  <2> QED BY <1>2, <2>1, HandsOnIs
<1>4. CASE ~MayStart(f) /\ End(c, Released(b), "refused")
  <2> DEFINE g == Released(b)
  <2> HIDE DEF b
  <2>1. /\ g \in BudgetRec /\ Stand(g, ws) /\ Adds(g, n) /\ HandsOver(g)
        /\ g.limits = budget[f.e].limits /\ g.failures = budget[f.e].failures
    BY <1>1, <1>3, ReleasedIs
  <2>2. End(c, g, "refused")
    BY <1>4
  <2> HIDE DEF g
  <2>3. Back(c, GivesBack(c, g))
    BY <1>1, <2>1 DEF Back, GivesBack, n, ws
  <2> QED BY <1>1, <2>2, <2>3
<1>5. CASE /\ MayStart(f) /\ budget' = [budget EXCEPT ![f.e] = b]
           /\ Goes(c, Append(Below(c), [f EXCEPT !.pc = "running"]))
           /\ UNCHANGED <<phase, current, executions>>
  BY <1>1, <1>3, <1>5 DEF n, ws
<1> QED BY <1>4, <1>5 DEF Resume, d

\* It starts.
LEMMA StartStep ==
    ASSUME Inv, NEW c \in Calls, Depth(c) > 0, Top(c).pc = "waiting", NEW b \in BudgetRec,
           Stand(b, WaitersFor(Top(c).e) \ {c}), Adds(b, Cardinality(HeldIn(Top(c).e)) + 1), HandsOver(b),
           b.limits = budget[Top(c).e].limits, b.failures = budget[Top(c).e].failures,
           budget' = [budget EXCEPT ![Top(c).e] = b],
           Goes(c, Append(Below(c), [Top(c) EXCEPT !.pc = "running"])),
           pending' = PendingLess(Top(c).p), UNCHANGED <<phase, current, executions>>
    PROVE  Inv'
<1> DEFINE f == Top(c)
<1>0. f \in FrameRec /\ f.p \in Plugins /\ f.e \in Budgets
  BY TopIs
<1> DEFINE g == [f EXCEPT !.pc = "running"]  r == Append(Below(c), g)
<1>1. /\ CallsTyped /\ Levels /\ OnlyTopWaits /\ IsFiniteSet(Frames)
      /\ Depth(c) \in Nat /\ Depth(c) <= MaxDepth[c] /\ MaxDepth[c] \in Nat
      /\ Below(c) \in Seq(FrameRec) /\ Len(Below(c)) = Depth(c) - 1
      /\ \A i \in 1..Depth(c) - 1 :
           Below(c)[i] = call[c].frames[i] /\ Below(c)[i].pc \in {"calling", "running"}
  BY <1>0, CallIs, GovernorAssumption DEF Inv, Shapes, Levels, OnlyTopWaits
<1>2. g \in FrameRec /\ g.p = f.p /\ g.e = f.e /\ g.pc = "running"
  BY <1>0 DEF FrameRec
<1> HIDE DEF g
<1>3. /\ r \in Seq(FrameRec) /\ Len(r) = Depth(c) /\ r[Depth(c)] = g
      /\ \A i \in 1..Depth(c) - 1 : r[i] = Below(c)[i]
  BY <1>0, <1>1, <1>2
<1>4. call' = [call EXCEPT ![c] = [frames |-> r, signal |-> None]] /\ None \in None..Len(r)
  BY <1>1, <1>3 DEF Goes, None, g
<1> HIDE DEF r
<1>5. /\ CallsTyped' /\ Levels' /\ OnlyTopWaits' /\ Others(c)
      /\ call'[c].frames = r /\ Depth(c)' = Len(r)
  <2>1. \A i \in 1..Len(r) - 1 : r[i].pc \in {"calling", "running"}
    BY <1>1, <1>3
  <2>2. Len(r) <= MaxDepth[c] /\ r[Len(r)].pc # "failover"
    BY <1>1, <1>2, <1>3
  <2> QED BY <1>1, <1>3, <1>4, <2>1, <2>2, GoesOn
<1>6. Starts(c)
  <2>1. Same(c, Depth(c) - 1)
    BY <1>1, <1>3, <1>5 DEF Same, Alike
  <2> QED BY <1>0, <1>1, <1>2, <1>3, <1>5, <2>1 DEF Starts, Depth, At
<1>7. PICK e \in Budgets : e = f.e
  BY <1>0
<1>8. /\ IsFiniteSet(Frames)'
      /\ \A k : Cardinality(HeldIn(k))' =
           IF e = k THEN Cardinality(HeldIn(k)) + 1 ELSE Cardinality(HeldIn(k))
      /\ \A q : RunsOn(q)' = RunsOn(q)
      /\ \A q : Cardinality(WaitsOn(q))' =
           IF f.p = q THEN Cardinality(WaitsOn(q)) - 1 ELSE Cardinality(WaitsOn(q))
  BY <1>1, <1>5, <1>6, <1>7, StartsCounts
<1>9. \A k : WaitersFor(k)' = WaitersFor(k) \ {c}
  BY <1>1, <1>5, <1>6, StartsSets
<1>10. /\ budget' \in [Budgets -> BudgetRec] /\ budget'[e] = b
       /\ \A k \in Budgets : k # e => budget'[k] = budget[k]
  BY <1>7 DEF Inv
<1>11. Sound(b, WaitersFor(e)', Cardinality(HeldIn(e))')
  <2>1. WaitersFor(f.e) \ {c} = WaitersFor(e)' /\ Cardinality(HeldIn(f.e)) + 1 = Cardinality(HeldIn(e))'
    BY <1>7, <1>8, <1>9
  <2>2. Counted(b)
    BY <1>7 DEF Inv, AllSound, Sound, Counted
  <2> QED BY <2>1, <2>2 DEF Sound
<1>12. AllSound'
  <2> SUFFICES ASSUME NEW k \in Budgets
               PROVE  Sound(budget'[k], WaitersFor(k)', Cardinality(HeldIn(k))')
    BY DEF AllSound
  <2>1. CASE k = e
    BY <1>10, <1>11, <2>1
  <2>2. CASE k # e
    <3>1. c \notin WaitersFor(k)
      BY <1>7, <2>2 DEF WaitersFor
    <3> QED BY <1>8, <1>9, <1>10, <2>2, <3>1 DEF Inv, AllSound
  <2> QED BY <2>1, <2>2
<1>13. /\ pending' \in [Plugins -> Int] /\ pending'[f.p] = pending[f.p] - 1
       /\ \A q \in Plugins : q # f.p => pending'[q] = pending[q]
  BY <1>0 DEF Inv, Shapes, PendingLess
<1>14. CountersAccurate'
  <2> SUFFICES ASSUME NEW q \in Plugins
               PROVE  executions'[q] = Cardinality(RunsOn(q))' /\ pending'[q] = Cardinality(WaitsOn(q))'
    BY CountersNext
  <2>1. executions[q] = Cardinality(RunsOn(q)) /\ pending[q] = Cardinality(WaitsOn(q))
    BY CountersAre DEF Inv
  <2>2. Cardinality(RunsOn(q))' = Cardinality(RunsOn(q))
    BY <1>8
  <2> HIDE DEF f
  <2> QED BY <1>8, <1>13, <2>1, <2>2
<1>15. Shapes' /\ Apart'
  BY <1>5, <1>13 DEF Inv, Shapes, Apart
<1> QED BY <1>5, <1>8, <1>10, <1>12, <1>14, <1>15 DEF Inv

LEMMA ResumeStep ==
    ASSUME Inv, NEW c \in Calls, Resume(c)
    PROVE  Inv'
<1> DEFINE f == Top(c)
<1>1. Depth(c) > 0 /\ f.pc = "waiting" /\ pending' = PendingLess(f.p)
  BY ResumeIs
<1>2. ASSUME NEW b, End(c, b, "refused"), Back(c, GivesBack(c, b)) PROVE Inv'
  BY <1>1, <1>2, EndedStep DEF Outcomes
<1>3. ASSUME NEW b \in BudgetRec,
             Stand(b, WaitersFor(f.e) \ {c}), Adds(b, Cardinality(HeldIn(f.e)) + 1), HandsOver(b),
             b.limits = budget[f.e].limits, b.failures = budget[f.e].failures,
             budget' = [budget EXCEPT ![f.e] = b],
             Goes(c, Append(Below(c), [f EXCEPT !.pc = "running"])),
             UNCHANGED <<phase, current, executions>>
      PROVE  Inv'
  BY <1>1, <1>3, StartStep
<1> QED BY <1>2, <1>3, ResumeIs


LEMMA ReturnStep ==
    ASSUME Inv, NEW c \in Calls, Depth(c) > 0, Top(c).pc # "waiting", NEW outcome \in Outcomes,
           End(c, budget[Top(c).e], outcome), outcome = "cancelled" => ~Expired(c),
           UNCHANGED pending
    PROVE  Inv'
<1>1. outcome = "cancelled" => call[c].signal <= Depth(c) - 1
  <2>1. call[c].signal \in None..Depth(c) /\ Depth(c) \in Nat
    BY CallIs DEF Inv, Shapes, Levels
  <2> QED BY <2>1 DEF Expired, None
<1> QED BY <1>1, ReleasedBack, EndedStep

LEMMA FinishStep ==
    ASSUME Inv, NEW c \in Calls, Finish(c)
    PROVE  Inv'
<1>1. PICK outcome \in {"ok", "failed"} : End(c, budget[Top(c).e], outcome)
  BY DEF Finish
<1> QED BY <1>1, ReturnStep DEF Finish, At, Outcomes

LEMMA InterruptedStep ==
    ASSUME Inv, NEW c \in Calls, Interrupted(c)
    PROVE  Inv'
<1> DEFINE outcome == IF Expired(c) THEN "failed" ELSE "cancelled"
<1>1. outcome \in Outcomes /\ (outcome = "cancelled" => ~Expired(c))
  BY DEF Outcomes
<1>2. End(c, budget[Top(c).e], outcome)
  BY DEF Interrupted
<1> HIDE DEF outcome
<1> QED BY <1>1, <1>2, ReturnStep DEF Interrupted

\* A step after which the task has the same frames, but for what they are about.
LEMMA KeptStep ==
    ASSUME Inv, NEW c \in Calls, NEW fs \in Seq(FrameRec), NEW s \in None..Depth(c),
           call' = [call EXCEPT ![c] = [frames |-> fs, signal |-> s]],
           Len(fs) = Depth(c), Depth(c) > 0 => fs[Depth(c)].pc # "failover",
           \A i \in 1..Depth(c) : Alike(call[c].frames[i], fs[i]),
           \A i \in 1..Depth(c) - 1 : fs[i].pc = call[c].frames[i].pc,
           budget' \in [Budgets -> BudgetRec],
           \A e \in Budgets : Sound(budget'[e], WaitersFor(e), Cardinality(HeldIn(e))),
           UNCHANGED <<phase, current, pending, executions>>
    PROVE  Inv'
<1>1. /\ CallsTyped /\ Levels /\ OnlyTopWaits /\ IsFiniteSet(Frames) /\ Depth(c) \in Nat
      /\ Depth(c) <= MaxDepth[c]
  BY CallIs DEF Inv, Shapes, Levels
<1>2. /\ CallsTyped' /\ Levels' /\ OnlyTopWaits' /\ Others(c)
      /\ call'[c].frames = fs /\ Depth(c)' = Len(fs)
  <2>1. \A i \in 1..Len(fs) - 1 : fs[i].pc \in {"calling", "running"}
    BY <1>1 DEF OnlyTopWaits
  <2> QED BY <1>1, <2>1, GoesOn
<1>3. Keeps(c)
  <2>1. Same(c, Depth(c))
    BY <1>2 DEF Same
  <2> QED BY <1>2, <2>1 DEF Keeps
<1>4. /\ Frames' = Frames
      /\ \A d : HeldIn(d)' = HeldIn(d) /\ WaitersFor(d)' = WaitersFor(d)
      /\ \A q : RunsOn(q)' = RunsOn(q) /\ WaitsOn(q)' = WaitsOn(q)
  BY <1>1, <1>2, <1>3, KeepsSets
<1>5. AllSound'
  <2>1. \A d : Cardinality(HeldIn(d))' = Cardinality(HeldIn(d))
    BY <1>4
  <2> QED BY <1>4, <2>1 DEF AllSound
<1>6. CountersAccurate'
  <2>1. \A q : Cardinality(RunsOn(q))' = Cardinality(RunsOn(q)) /\ Cardinality(WaitsOn(q))' = Cardinality(WaitsOn(q))
    BY <1>4
  <2> QED BY <2>1, CountersAre, CountersNext DEF Inv
<1>7. Shapes' /\ Apart'
  BY <1>2 DEF Inv, Shapes, Apart
<1> QED BY <1>1, <1>2, <1>4, <1>5, <1>6, <1>7 DEF Inv

LEMMA ExhaustedStep ==
    ASSUME Inv, NEW c \in Calls, Exhausted(c)
    PROVE  Inv'
<1>1. Depth(c) > 0 /\ Top(c).pc = "failover" /\ UNCHANGED pending
  BY DEF Exhausted, At
<1>2. CASE Goes(c, Returned(call[c].frames)) /\ UNCHANGED <<phase, current, budget, executions>>
  <2> DEFINE fs == call[c].frames  r == Returned(fs)
  <2>1. /\ fs \in Seq(FrameRec) /\ Len(fs) = Depth(c) /\ fs[Depth(c)] = Top(c) /\ Depth(c) \in Nat
        /\ \A i \in 1..Depth(c) : fs[i] = call[c].frames[i]
    BY <1>1, CallIs DEF Inv, Shapes, Depth
  <2> HIDE DEF fs
  <2>2. /\ r \in Seq(FrameRec) /\ Len(r) = Len(fs)
        /\ \A i \in 1..Len(fs) - 1 : r[i] = fs[i]
        /\ \A i \in 1..Len(fs) : Alike(fs[i], r[i])
        /\ Len(fs) > 0 => r[Len(fs)].pc = "running"
    BY <1>1, <2>1, ReturnedIs
  <2>3. call' = [call EXCEPT ![c] = [frames |-> r, signal |-> None]] /\ None \in None..Depth(c)
    BY <1>2, <2>1 DEF Goes, None, fs
  <2> HIDE DEF r
  <2>4. /\ budget' \in [Budgets -> BudgetRec]
        /\ \A e \in Budgets : Sound(budget'[e], WaitersFor(e), Cardinality(HeldIn(e)))
    BY <1>2 DEF Inv, AllSound
  <2>5. /\ \A i \in 1..Depth(c) : Alike(call[c].frames[i], r[i])
        /\ \A i \in 1..Depth(c) - 1 : r[i].pc = call[c].frames[i].pc
        /\ r[Depth(c)].pc # "failover"
    BY <1>1, <2>1, <2>2
  <2> QED BY <1>1, <1>2, <2>1, <2>2, <2>3, <2>4, <2>5, KeptStep
<1>3. CASE End(c, budget[Top(c).e], IF Top(c).refused THEN "refused" ELSE "failed")
  <2> DEFINE outcome == IF Top(c).refused THEN "refused" ELSE "failed"
  <2>1. outcome \in Outcomes /\ outcome # "cancelled" /\ End(c, budget[Top(c).e], outcome)
    BY <1>3 DEF Outcomes
  <2> HIDE DEF outcome
  <2> QED BY <1>1, <2>1, ReturnStep
<1> QED BY <1>2, <1>3 DEF Exhausted

LEMMA InterruptStep ==
    ASSUME Inv, NEW c \in Calls, Depth(c) > 0, NEW level \in 0..Depth(c), Interrupt(c, level)
    PROVE  Inv'
<1> DEFINE f == Top(c)  b == budget[f.e]  i == WaiterOf(b, c)
<1>1. /\ call' = [call EXCEPT ![c].signal = level]
      /\ UNCHANGED <<phase, current, pending, executions>>
      /\ f.pc \in {"waiting", "running"}
  BY DEF Interrupt
<1>2. /\ call[c].frames \in Seq(FrameRec) /\ Depth(c) \in Nat /\ Len(call[c].frames) = Depth(c)
      /\ call[c].frames[Depth(c)] = Top(c) /\ call[c] \in [frames : Seq(FrameRec), signal : Int]
      /\ f.e \in Budgets
  BY CallIs, TopIs DEF Inv, Shapes, CallsTyped, Depth
<1>3. call' = [call EXCEPT ![c] = [frames |-> call[c].frames, signal |-> level]]
  <2> DEFINE r == call[c]
  <2>1. call' = [call EXCEPT ![c] = [r EXCEPT !.signal = level]]
    BY <1>1
  <2>2. r \in [frames : Seq(FrameRec), signal : Int]
    BY <1>2
  <2> HIDE DEF r
  <2>3. [r EXCEPT !.signal = level] = [frames |-> r.frames, signal |-> level]
    BY <2>2
  <2> QED BY <2>1, <2>3 DEF r
<1>4. level \in None..Depth(c)
  BY <1>2 DEF None
<1>5. /\ budget' \in [Budgets -> BudgetRec]
      /\ \A e \in Budgets : Sound(budget'[e], WaitersFor(e), Cardinality(HeldIn(e)))
  <2>1. CASE budget' = budget
    BY <2>1 DEF Inv, AllSound
  <2>2. CASE f.pc = "waiting" /\ Future(c) = "waiting" /\ budget' # budget
    <3> DEFINE d == [b EXCEPT !.queue[i].st = "cancelled"]
    <3>1. budget' = [budget EXCEPT ![f.e] = d]
      BY <2>2 DEF Interrupt
    <3>2. /\ b \in BudgetRec /\ Sound(b, WaitersFor(f.e), Cardinality(HeldIn(f.e)))
          /\ c \in WaitersFor(f.e) /\ b.queue[i].st = "waiting"
      BY <2>2, TopIs DEF WaitersFor, At, Future
    <3> HIDE DEF b
    <3>3. i \in DOMAIN b.queue
      BY <3>2, WaiterIs DEF Sound
    <3> HIDE DEF i
    <3>4. /\ d \in BudgetRec /\ Stand(d, WaitersFor(f.e)) /\ HandsOver(d)
          /\ Adds(d, Cardinality(HeldIn(f.e))) /\ d.limits = b.limits /\ d.failures = b.failures
      BY <3>2, <3>3, CancelledIs DEF Sound
    <3> HIDE DEF d
    <3>5. Sound(d, WaitersFor(f.e), Cardinality(HeldIn(f.e)))
      BY <3>2, <3>4 DEF Sound, Counted
    <3>6. /\ budget' \in [Budgets -> BudgetRec] /\ budget'[f.e] = d
          /\ \A e \in Budgets : e # f.e => budget'[e] = budget[e]
      BY <1>2, <3>1, <3>4 DEF Inv
    <3> HIDE DEF f
    <3> QED BY <3>5, <3>6 DEF Inv, AllSound
  <2> QED BY <2>1, <2>2 DEF Interrupt
<1>6. \A k : Alike(call[c].frames[k], call[c].frames[k])
  BY DEF Alike
<1> HIDE DEF f
<1>7. call[c].frames[Depth(c)].pc # "failover"
  BY <1>1, <1>2 DEF f
<1> QED BY <1>1, <1>2, <1>3, <1>4, <1>5, <1>6, <1>7, KeptStep

LEMMA CallingFits ==
    ASSUME Inv, NEW c \in Calls, Depth(c) > 0, Depth(c) < MaxDepth[c], Top(c).pc # "waiting",
           NEW g \in FrameRec, g.p = Top(c).p, g.e = Top(c).e, g.pc = "calling"
    PROVE  Fits(c, Append(Below(c), g))
<1> DEFINE r == Append(Below(c), g)
<1>1. /\ Depth(c) \in Nat /\ Below(c) \in Seq(FrameRec) /\ Len(Below(c)) = Depth(c) - 1
      /\ Top(c) = call[c].frames[Depth(c)]
      /\ \A i \in 1..Depth(c) - 1 :
           Below(c)[i] = call[c].frames[i] /\ Below(c)[i].pc \in {"calling", "running"}
  BY CallIs DEF Inv, Shapes, OnlyTopWaits
<1>2. /\ r \in Seq(FrameRec) /\ Len(r) = Depth(c) /\ r[Depth(c)] = g
      /\ \A i \in 1..Depth(c) - 1 : r[i] = Below(c)[i]
  BY <1>1
<1> HIDE DEF r
<1>3. ASSUME NEW i \in 1..Depth(c)
      PROVE  Alike(call[c].frames[i], r[i]) /\ r[i].pc \in {"calling", "running"}
  <2>1. CASE i = Depth(c)
    BY <1>1, <1>2, <2>1 DEF Alike
  <2>2. CASE i # Depth(c)
    <3>1. i \in 1..Depth(c) - 1
      BY <1>1, <2>2
    <3> QED BY <1>1, <1>2, <3>1 DEF Alike
  <2> QED BY <2>1, <2>2
<1> QED BY <1>2, <1>3 DEF Fits, At, r

LEMMA CallStep ==
    ASSUME Inv, NEW c \in Calls, NEW p \in Plugins, Call(c, p)
    PROVE  Inv'
<1>1. Depth(c) = 0 /\ MaxDepth[c] \in Nat \ {0}
  BY CallIs, GovernorAssumption DEF Inv, Shapes, Call
<1>2. Fits(c, <<>>)
  BY <1>1 DEF Fits, At
<1> QED BY <1>2, AdmitStep DEF Call, Operations

LEMMA ProviderIs ==
    ASSUME NEW ps \in SUBSET DOMAIN Providers, ps # {}
    PROVE  Min(ps) \in ps /\ Providers[Min(ps)] \in Plugins
<1>1. DOMAIN Providers \in SUBSET Nat /\ \A i \in DOMAIN Providers : Providers[i] \in Plugins
  BY GovernorAssumption
<1> QED BY <1>1, Least

LEMMA CapabilityStep ==
    ASSUME Inv, NEW c \in Calls, CallCapability(c)
    PROVE  Inv'
<1> DEFINE ps == {i \in DOMAIN Providers : phase[Providers[i]] = "loaded"}
           rest == ps \ {Min(ps)}
           g == [Top(c) EXCEPT !.pc = "calling", !.rest = rest, !.refused = TRUE]
<1>1. /\ Depth(c) > 0 /\ Top(c).pc = "running" /\ Depth(c) < MaxDepth[c] /\ ps # {}
      /\ Admit(c, Append(Below(c), g), Providers[Min(ps)], "capability")
  BY DEF CallCapability, At
<1>2. ps \in SUBSET DOMAIN Providers /\ rest \in SUBSET DOMAIN Providers
  OBVIOUS
<1> HIDE DEF ps, rest
<1>3. g \in FrameRec /\ g.p = Top(c).p /\ g.e = Top(c).e /\ g.pc = "calling"
  <2>1. Top(c) \in FrameRec
    BY <1>1, TopIs
  <2> QED BY <1>2, <2>1 DEF FrameRec
<1> HIDE DEF g
<1>4. Fits(c, Append(Below(c), g))
  BY <1>1, <1>3, CallingFits
<1>5. Providers[Min(ps)] \in Plugins
  BY <1>1, <1>2, ProviderIs
<1> QED BY <1>1, <1>4, <1>5, AdmitStep DEF Operations

LEMMA FailoverStep ==
    ASSUME Inv, NEW c \in Calls, Failover(c)
    PROVE  Inv'
<1> DEFINE g == [Top(c) EXCEPT !.pc = "calling", !.rest = StillToTry(Top(c))]
<1>1. /\ At(c, "failover") /\ Depth(c) > 0 /\ Top(c).pc = "failover" /\ Top(c).rest # {}
      /\ Admit(c, Append(Below(c), g), Providers[Min(Top(c).rest)], "capability")
  BY DEF Failover, At
<1>2. /\ Top(c) \in FrameRec /\ Top(c).rest \in SUBSET DOMAIN Providers
      /\ StillToTry(Top(c)) \in SUBSET DOMAIN Providers
  BY <1>1, TopIs DEF StillToTry
<1>3. g \in FrameRec /\ g.p = Top(c).p /\ g.e = Top(c).e /\ g.pc = "calling"
  BY <1>2 DEF FrameRec
<1> HIDE DEF g
<1>4. Fits(c, Append(Below(c), g))
  <2>1. Depth(c) < MaxDepth[c]
    BY <1>1 DEF Inv, Levels
  <2> QED BY <1>1, <1>3, <2>1, CallingFits
<1>5. Providers[Min(Top(c).rest)] \in Plugins
  BY <1>1, <1>2, ProviderIs
<1> QED BY <1>1, <1>4, <1>5, AdmitStep DEF Operations

LEMMA InitInv == Init => Inv
<1> SUFFICES ASSUME Init PROVE Inv
  OBVIOUS
<1>1. /\ call = [c \in Calls |-> [frames |-> <<>>, signal |-> None]]
      /\ budget = [e \in Budgets |-> Fresh(Default)]
      /\ phase = [p \in Plugins |-> "off"] /\ current = [p \in Plugins |-> 0]
      /\ pending = [p \in Plugins |-> 0] /\ executions = [p \in Plugins |-> 0]
  BY DEF Init
<1>2. /\ \A c \in Calls : call[c].frames = <<>> /\ call[c].signal = None
      /\ \A c \in Calls : Depth(c) = 0
  BY <1>1 DEF Depth
<1>3. Shapes
  <2>1. [frames |-> <<>>, signal |-> None] \in [frames : Seq(FrameRec), signal : Int]
    BY DEF None
  <2> QED BY <1>1, <2>1 DEF Shapes, CallsTyped, Phases
<1>4. Apart
  BY <1>1 DEF Apart
<1>5. Levels
  <2>1. \A c \in Calls : MaxDepth[c] \in Nat \ {0}
    BY GovernorAssumption
  <2> QED BY <1>2, <2>1 DEF Levels, At, None
<1>6. OnlyTopWaits
  BY <1>2 DEF OnlyTopWaits
<1>7. Frames = {}
  <2>1. \A x : x \notin Frames
    BY <1>2, MembersAre
  <2> QED BY <2>1
<1>8. /\ \A e : HeldIn(e) = {} /\ WaitersFor(e) = {}
      /\ \A p : RunsOn(p) = {} /\ WaitsOn(p) = {}
  BY <1>2, <1>7 DEF HeldIn, RunsOn, WaitsOn, WaitersFor, At
<1>9. Cardinality({}) = 0 /\ IsFiniteSet({})
  BY FS_EmptySet
<1>10. AllSound
  BY <1>1, <1>8, <1>9, FreshIsSound DEF AllSound
<1>11. CountersAccurate
  BY <1>1, <1>8, <1>9, CountersAre
<1>12. budget \in [Budgets -> BudgetRec]
  BY <1>1, FreshIs
<1> QED BY <1>3, <1>4, <1>5, <1>6, <1>7, <1>9, <1>10, <1>11, <1>12 DEF Inv

LEMMA NextInv == Inv /\ [Next]_vars => Inv'
<1> SUFFICES ASSUME Inv, [Next]_vars PROVE Inv'
  OBVIOUS
<1>1. ASSUME NEW p \in Plugins, Load(p) PROVE Inv'
  <2>1. phase' \in [Plugins -> Phases]
    BY <1>1 DEF Load, Inv, Shapes, Phases
  <2> QED BY <1>1, <2>1, ConfiguredStep DEF Load
<1>2. ASSUME NEW p \in Plugins, Close(p) \/ Release(p) PROVE Inv'
  BY <1>2, PhaseStep DEF Close, Release, Phases
<1>3. ASSUME NEW p \in Plugins, Status(p) PROVE Inv'
  <2>1. phase' \in [Plugins -> Phases]
    BY <1>3 DEF Status, Inv, Shapes
  <2> QED BY <1>3, <2>1, ConfiguredStep DEF Status
<1>4. ASSUME NEW c \in Calls, Progress(c) PROVE Inv'
  BY <1>4, ResumeStep, GiveUpStep, FinishStep, InterruptedStep, ExhaustedStep, FailoverStep DEF Progress
<1>5. ASSUME NEW c \in Calls, Cancel(c) \/ Deadline(c) PROVE Inv'
  <2>1. Depth(c) \in Nat
    BY CallIs DEF Inv, Shapes
  <2>2. CASE Cancel(c)
    BY <2>1, <2>2, InterruptStep DEF Cancel
  <2>3. CASE Deadline(c)
    <3>1. PICK level \in 1..Depth(c) : Interrupt(c, level)
      BY <2>3 DEF Deadline
    <3> QED BY <2>1, <3>1, InterruptStep
  <2> QED BY <1>5, <2>2, <2>3
<1>6. CASE UNCHANGED vars
  BY <1>6, SameCalls DEF vars, Inv, Shapes, Apart, AllSound
<1> QED BY <1>1, <1>2, <1>3, <1>4, <1>5, <1>6, DropStep, RecoverStep, CallStep, CapabilityStep DEF Next

LEMMA Invariance == Spec => []Inv
BY InitInv, NextInv, PTL DEF Spec

LEMMA InvIsEnough == Inv => PermitsAreAccounted
<1> SUFFICES ASSUME Inv PROVE PermitsAreAccounted
  OBVIOUS
<1>1. ASSUME NEW e \in Budgets
      PROVE  LET b == budget[e] IN
             /\ b.value + Cardinality(HeldIn(e)) + Cardinality(Granted(b)) = b.limits.concurrency
             /\ b.value <= b.limits.concurrency
             /\ \A op \in Operations : b.failures[op] <= b.limits.threshold
             /\ Waiting(b) # {} /\ b.value > 0 => Granted(b) # {}
  <2> DEFINE b == budget[e]  n == Cardinality(HeldIn(e))
  <2>1. b \in BudgetRec /\ Adds(b, n) /\ HandsOver(b) /\ Counted(b) /\ n \in Nat
    BY Finite DEF Inv, AllSound, Sound
  <2>2. b.value \in Nat /\ b.limits.concurrency \in Nat
    BY <2>1, BudgetIs
  <2>3. Cardinality(Granted(b)) \in Nat
    BY <2>1, FS_CardinalityType DEF Adds
  <2> HIDE DEF b, n
  <2>4. b.value + n + Cardinality(Granted(b)) = b.limits.concurrency
    BY <2>1 DEF Adds
  <2>5. b.value <= b.limits.concurrency
    BY <2>1, <2>2, <2>3, <2>4
  <2> QED BY <2>1, <2>4, <2>5 DEF Counted, HandsOver, b, n
<1>2. PermitsConserved
  BY <1>1 DEF PermitsConserved, HeldIn
<1>3. NobodyWaitsForAFreePermit
  BY <1>1 DEF NobodyWaitsForAFreePermit
<1>4. TypeOK
  BY <1>1 DEF TypeOK, Inv, Shapes, Phases, CallsTyped, Levels, OnlyTopWaits, Apart
<1> QED BY <1>2, <1>3, <1>4 DEF PermitsAreAccounted, Inv

\* For any plugins, tasks, limits and nesting: the free permits of a semaphore,
\* those of running callbacks and those on their way add up to max_concurrency,
\* _pending and _executions say what is queued and executing, and a permit is free
\* while somebody waits only as long as a granted waiter has yet to hand it on -
\* however executions end: "execute", its "finally", and "release".
THEOREM PermitsAccounted == Spec => []PermitsAreAccounted
BY Invariance, InvIsEnough, PTL

-----------------------------------------------------------------------------
(* What a step may do to the circuits, and which waiters may start.         *)

Rises(e, op) == budget'[e].failures[op] > budget[e].failures[op]
NoneRises == \A e \in Budgets, op \in Operations : ~Rises(e, op)

\* The budget e becomes b, which counts no more than it did.
LEMMA OneBudget ==
    ASSUME Inv, NEW e \in Budgets, NEW b, budget' = [budget EXCEPT ![e] = b],
           \A op \in Operations : ~(b.failures[op] > budget[e].failures[op])
    PROVE  NoneRises
<1>1. ASSUME NEW d \in Budgets, NEW op \in Operations PROVE ~Rises(d, op)
  <2>1. budget[d].failures[op] \in Nat
    BY BudgetIs DEF Inv
  <2>2. budget'[d] = IF d = e THEN b ELSE budget[d]
    BY DEF Inv
  <2> QED BY <2>1, <2>2 DEF Rises
<1> QED BY <1>1 DEF NoneRises

LEMMA SameBudgets ==
    ASSUME Inv, budget' = budget
    PROVE  NoneRises
<1>1. \A d \in Budgets : \A op \in Operations : budget[d].failures[op] \in Nat
  BY BudgetIs DEF Inv
<1> QED BY <1>1 DEF NoneRises, Rises

LEMMA FreshNeverRises ==
    ASSUME Inv, NEW e \in Budgets, NEW op \in Operations, NEW limits \in {Declared, Default}
    PROVE  ~(Fresh(limits).failures[op] > budget[e].failures[op])
<1>1. budget[e].failures[op] \in Nat
  BY BudgetIs DEF Inv
<1>2. Fresh(limits).failures[op] = 0
  BY FreshIs
<1> QED BY <1>1, <1>2

LEMMA FoundNeverRises ==
    ASSUME Inv, NEW p \in Plugins, Named(p), NEW op \in Operations, NEW limits \in {Declared, Default}
    PROVE  ~(Found(p, limits).failures[op] > budget[Its(p)].failures[op])
<1>1. Its(p) \in Budgets
  BY Chosen
<1>2. budget[Its(p)].failures[op] \in Nat
  BY <1>1, BudgetIs DEF Inv
<1> QED BY <1>1, <1>2, FreshNeverRises DEF Found

LEMMA ConfiguredNeverRises ==
    ASSUME Inv, NEW p \in Plugins, NEW limits \in {Declared, Default}, Configured(p, limits)
    PROVE  NoneRises
<1>1. CASE current[p] # 0
  BY <1>1, SameBudgets DEF Configured
<1>2. CASE current[p] = 0
  <2>1. budget' = [budget EXCEPT ![Its(p)] = Fresh(limits)]
    BY <1>2 DEF Configured, Its
  <2>2. Its(p) \in Budgets
    BY Chosen DEF Configured
  <2> QED BY <2>1, <2>2, FreshNeverRises, OneBudget
<1> QED BY <1>1, <1>2

LEMMA DropNeverRises ==
    ASSUME Inv, NEW p \in Plugins, Drop(p)
    PROVE  NoneRises
<1>1. ASSUME NEW e \in Budgets, NEW op \in Operations PROVE ~Rises(e, op)
  <2>1. budget[e].failures[op] \in Nat
    BY BudgetIs DEF Inv
  <2>2. budget'[e] = budget[e] \/ budget'[e] = Fresh(Default)
    BY DEF Drop, Collect
  <2> QED BY <2>1, <2>2, FreshNeverRises DEF Rises
<1> QED BY <1>1 DEF NoneRises

LEMMA OthersStay ==
    ASSUME Inv, NEW c \in Calls, NEW x, call' = [call EXCEPT ![c] = x]
    PROVE  Others(c)
BY DEF Inv, Shapes, CallsTyped, Others

LEMMA AdmitNeverRises ==
    ASSUME Inv, NEW c \in Calls, NEW p \in Plugins, NEW fs, NEW op \in Operations, Admit(c, fs, p, op)
    PROVE  NoneRises /\ Others(c)
<1> DEFINE e == Its(p)  b == Found(p, Default)
<1>1. Named(p) /\ e \in Budgets /\ b \in BudgetRec
  BY Chosen DEF Admit, Sound
<1>2. \E d : budget' = [budget EXCEPT ![e] = d] /\ d \in {b, Queued(b, c), [b EXCEPT !.value = @ - 1]}
  BY DEF Admit, Its, Found
<1>3. \A d \in {b, Queued(b, c), [b EXCEPT !.value = @ - 1]} : d.failures = b.failures
  <2> HIDE DEF b
  <2> QED BY <1>1 DEF Queued, BudgetRec
<1>4. \A o \in Operations : ~(b.failures[o] > budget[e].failures[o])
  BY <1>1, FoundNeverRises
<1> HIDE DEF b, e
<1>5. NoneRises
  BY <1>1, <1>2, <1>3, <1>4, OneBudget
<1>6. Others(c)
  <2>1. \E r : Goes(c, r)
    BY DEF Admit
  <2> QED BY <2>1, OthersStay DEF Goes
<1> QED BY <1>5, <1>6

\* An execution that ends counts only as a failure of its own.
LEMMA EndRises ==
    ASSUME Inv, NEW c \in Calls, Depth(c) > 0, NEW b, NEW outcome \in Outcomes, End(c, b, outcome),
           Back(c, GivesBack(c, b)), NEW e \in Budgets, NEW op \in Operations, Rises(e, op)
    PROVE  e = Top(c).e /\ op = Top(c).op /\ outcome = "failed"
<1> DEFINE f == Top(c)  g == GivesBack(c, b)  j == Judged(g, f.op, outcome)
<1>1. f.op \in Operations /\ f.e \in Budgets /\ Counted(budget[f.e])
  BY TopIs DEF Sound
<1>2. g \in BudgetRec /\ g.failures = budget[f.e].failures /\ g.limits = budget[f.e].limits
  BY DEF Back
<1>3. Collect([budget EXCEPT ![f.e] = j])
  BY DEF End
<1>4. budget'[e] = [budget EXCEPT ![f.e] = j][e]
  <2>1. ~(Fresh(Default).failures[op] > budget[e].failures[op])
    BY FreshNeverRises
  <2>2. budget'[e] # Fresh(Default)
    BY <2>1 DEF Rises
  <2> QED BY <1>3, <2>2 DEF Collect
<1> HIDE DEF g
<1>5. Counted(g)
  BY <1>1, <1>2 DEF Counted
<1>6. \A o \in Operations : j.failures[o] > g.failures[o] => o = f.op /\ outcome = "failed"
  BY <1>1, <1>2, <1>5, JudgedIs DEF Outcomes
<1> HIDE DEF j
<1>7. budget[e].failures[op] \in Nat
  BY BudgetIs DEF Inv
<1>8. e = f.e
  BY <1>4, <1>7 DEF Rises, Inv
<1>9. budget'[e] = j
  BY <1>1, <1>4, <1>8 DEF Inv
<1> QED BY <1>2, <1>6, <1>8, <1>9 DEF Rises

\* What a step must be: no count rises and no waiter starts, or a waiter starts that
\* may, or an execution ends.
Quiet(c) == Others(c) /\ ~At(c, "waiting")
Still == \A c \in Calls : call'[c].frames = call[c].frames

LEMMA QuietIsFine ==
    ASSUME Inv, NoneRises, NEW c \in Calls, Quiet(c)
    PROVE  OnlyFailuresCount /\ StaleNeverStarts
<1>1. StaleNeverStarts
  <2> SUFFICES ASSUME NEW d \in Calls, At(d, "waiting"), call'[d].frames[Depth(d)].pc = "running"
               PROVE  FALSE
    BY DEF StaleNeverStarts
  <2>1. d # c /\ call'[d] = call[d]
    BY DEF Quiet, Others
  <2> QED BY <2>1, CallIs DEF At, Inv, Shapes
<1> QED BY <1>1 DEF NoneRises, Rises, OnlyFailuresCount

LEMMA StillIsFine ==
    ASSUME Inv, NoneRises, Still
    PROVE  OnlyFailuresCount /\ StaleNeverStarts
<1>1. StaleNeverStarts
  <2> SUFFICES ASSUME NEW d \in Calls, At(d, "waiting"), call'[d].frames[Depth(d)].pc = "running"
               PROVE  FALSE
    BY DEF StaleNeverStarts
  <2> QED BY CallIs DEF At, Inv, Shapes, Still
<1> QED BY <1>1 DEF NoneRises, Rises, OnlyFailuresCount

\* An execution ends: it counts if it failed after it ran.
LEMMA EndIsFine ==
    ASSUME Inv, NEW c \in Calls, Depth(c) > 0, NEW b, NEW outcome \in Outcomes, End(c, b, outcome),
           Back(c, GivesBack(c, b)),
           outcome = "cancelled" => call[c].signal <= Depth(c) - 1 \/ Depth(c) = 1,
           outcome = "failed" =>
             /\ Top(c).pc # "waiting"
             /\ (Top(c).pc = "failover" /\ ~Signalled(c)) => ~Top(c).refused
             /\ ~Signalled(c) \/ Expired(c)
    PROVE  OnlyFailuresCount /\ StaleNeverStarts
<1>1. Pops(c) /\ Depth(c) \in Nat
  BY LeavesIs, CallIs DEF Inv, Shapes
<1>2. Len(call'[c].frames) < Depth(c) /\ Len(call'[c].frames) # Depth(c)
  BY <1>1 DEF Pops
<1>3. OnlyFailuresCount
  <2> SUFFICES ASSUME NEW e \in Budgets, NEW op \in Operations, Rises(e, op)
               PROVE  /\ Top(c).e = e /\ Top(c).op = op /\ outcome = "failed"
    BY <1>2 DEF OnlyFailuresCount, Rises
  <2> QED BY EndRises
<1>4. StaleNeverStarts
  <2> SUFFICES ASSUME NEW d \in Calls, At(d, "waiting"), Len(call'[d].frames) = Depth(d),
                      call'[d].frames[Depth(d)].pc = "running"
               PROVE  FALSE
    BY DEF StaleNeverStarts
  <2>1. d # c /\ call'[d] = call[d]
    BY <1>1, <1>2 DEF Pops, Others
  <2> QED BY <2>1, CallIs DEF At, Inv, Shapes
<1> QED BY <1>3, <1>4

LEMMA ResumeIsFine ==
    ASSUME Inv, NEW c \in Calls, Resume(c)
    PROVE  OnlyFailuresCount /\ StaleNeverStarts
<1> DEFINE f == Top(c)
<1>1. Depth(c) > 0 /\ f.pc = "waiting" /\ f.e \in Budgets
  BY ResumeIs, TopIs
<1>2. ASSUME NEW b, End(c, b, "refused"), Back(c, GivesBack(c, b))
      PROVE  OnlyFailuresCount /\ StaleNeverStarts
  BY <1>1, <1>2, EndIsFine DEF Outcomes
<1>3. ASSUME NEW b \in BudgetRec, b.failures = budget[f.e].failures, MayStart(f),
             budget' = [budget EXCEPT ![f.e] = b],
             Goes(c, Append(Below(c), [f EXCEPT !.pc = "running"]))
      PROVE  OnlyFailuresCount /\ StaleNeverStarts
  <2>1. \A op \in Operations : ~(b.failures[op] > budget[f.e].failures[op])
    <3>1. \A op \in Operations : budget[f.e].failures[op] \in Nat
      BY <1>1, BudgetIs DEF Inv
    <3> QED BY <1>3, <3>1
  <2>2. NoneRises
    BY <1>1, <1>3, <2>1, OneBudget
  <2>3. Others(c)
    BY <1>3, OthersStay DEF Goes
  <2>4. StaleNeverStarts
    <3> SUFFICES ASSUME NEW d \in Calls, At(d, "waiting"), call'[d].frames[Depth(d)].pc = "running",
                        d # c
                 PROVE  FALSE
      BY <1>3 DEF StaleNeverStarts, MayStart
    <3> QED BY <2>3, CallIs DEF At, Inv, Shapes, Others
  <2> QED BY <2>2, <2>4 DEF NoneRises, Rises, OnlyFailuresCount
<1> QED BY <1>2, <1>3, ResumeIs

LEMMA ProgressIsFine ==
    ASSUME Inv, NEW c \in Calls, Progress(c)
    PROVE  OnlyFailuresCount /\ StaleNeverStarts
<1> USE DEF Outcomes
<1>1. CASE GiveUp(c)
  <2>1. PICK b : \E outcome \in {"refused", "cancelled"} :
           /\ End(c, b, outcome) /\ Back(c, GivesBack(c, b))
           /\ outcome = "cancelled" => call[c].signal <= Depth(c) - 1
    BY <1>1, GiveUpEnds
  <2>2. Depth(c) > 0
    BY <1>1, GiveUpEnds
  <2> QED BY <2>1, <2>2, EndIsFine
<1>2. CASE Finish(c)
  <2>1. PICK outcome \in {"ok", "failed"} : End(c, budget[Top(c).e], outcome)
    BY <1>2 DEF Finish
  <2>2. Depth(c) > 0 /\ Top(c).pc = "running" /\ ~Signalled(c)
    BY <1>2 DEF Finish, At
  <2>3. Back(c, GivesBack(c, budget[Top(c).e]))
    BY <2>2, ReleasedBack
  <2> QED BY <2>1, <2>2, <2>3, EndIsFine
<1>3. CASE Interrupted(c)
  <2> DEFINE outcome == IF Expired(c) THEN "failed" ELSE "cancelled"
  <2>1. Depth(c) > 0 /\ Top(c).pc # "waiting" /\ Signalled(c) /\ End(c, budget[Top(c).e], outcome)
    BY <1>3 DEF Interrupted
  <2>2. Back(c, GivesBack(c, budget[Top(c).e]))
    BY <2>1, ReleasedBack
  <2>3. outcome = "cancelled" => call[c].signal <= Depth(c) - 1
    <3>1. call[c].signal \in None..Depth(c) /\ Depth(c) \in Nat
      BY CallIs DEF Inv, Shapes, Levels
    <3> QED BY <3>1 DEF Expired, None
  <2>4. outcome \in Outcomes /\ (outcome = "failed" => Expired(c))
    OBVIOUS
  <2> HIDE DEF outcome
  <2> QED BY <2>1, <2>2, <2>3, <2>4, EndIsFine
<1>4. CASE Exhausted(c)
  <2>1. Depth(c) > 0 /\ Top(c).pc = "failover" /\ ~Signalled(c)
    BY <1>4 DEF Exhausted, At
  <2>2. CASE Goes(c, Returned(call[c].frames)) /\ UNCHANGED budget
    <3>1. Others(c)
      BY <2>2, OthersStay DEF Goes
    <3> QED BY <2>1, <2>2, <3>1, SameBudgets, QuietIsFine DEF Quiet, At
  <2>3. CASE End(c, budget[Top(c).e], IF Top(c).refused THEN "refused" ELSE "failed")
    <3> DEFINE outcome == IF Top(c).refused THEN "refused" ELSE "failed"
    <3>1. Back(c, GivesBack(c, budget[Top(c).e]))
      BY <2>1, ReleasedBack
    <3>2. /\ outcome \in Outcomes /\ outcome # "cancelled" /\ (outcome = "failed" => ~Top(c).refused)
          /\ End(c, budget[Top(c).e], outcome)
      BY <2>3
    <3> HIDE DEF outcome
    <3> QED BY <2>1, <3>1, <3>2, EndIsFine
  <2> QED BY <1>4, <2>2, <2>3 DEF Exhausted
<1>5. CASE Failover(c)
  <2>1. /\ At(c, "failover") /\ Top(c).rest # {}
        /\ \E fs : Admit(c, fs, Providers[Min(Top(c).rest)], "capability")
    BY <1>5 DEF Failover
  <2>2. Providers[Min(Top(c).rest)] \in Plugins
    BY <2>1, TopIs, ProviderIs DEF At
  <2>3. NoneRises /\ Others(c)
    BY <2>1, <2>2, AdmitNeverRises DEF Operations
  <2> QED BY <2>1, <2>3, QuietIsFine DEF Quiet, At
<1> QED BY <1>1, <1>2, <1>3, <1>4, <1>5, ResumeIsFine DEF Progress

LEMMA InterruptIsFine ==
    ASSUME Inv, NEW c \in Calls, Depth(c) > 0, NEW level, Interrupt(c, level)
    PROVE  OnlyFailuresCount /\ StaleNeverStarts
<1> DEFINE f == Top(c)  b == budget[f.e]
<1>1. f.e \in Budgets /\ b \in BudgetRec
  BY TopIs
<1>2. Still
  <2>1. call' = [call EXCEPT ![c].signal = level]
    BY DEF Interrupt
  <2>2. \A d \in Calls : call[d] \in [frames : Seq(FrameRec), signal : Int]
    BY DEF Inv, Shapes, CallsTyped
  <2> QED BY <2>1, <2>2 DEF Still, Inv, Shapes, CallsTyped
<1>3. NoneRises
  <2>1. CASE budget' = budget
    BY <2>1, SameBudgets
  <2>2. CASE budget' # budget
    <3> DEFINE i == WaiterOf(b, c)  d == [b EXCEPT !.queue[i].st = "cancelled"]
    <3>1. budget' = [budget EXCEPT ![f.e] = d]
      BY <2>2 DEF Interrupt
    <3>2. \A op \in Operations : ~(d.failures[op] > b.failures[op])
      <4>1. \A op \in Operations : b.failures[op] \in Nat
        BY <1>1, BudgetIs
      <4>2. d.failures = b.failures
        BY <1>1 DEF BudgetRec
      <4> QED BY <4>1, <4>2
    <3> HIDE DEF d
    <3> QED BY <1>1, <3>1, <3>2, OneBudget
  <2> QED BY <2>1, <2>2
<1> QED BY <1>2, <1>3, StillIsFine

LEMMA StepIsFine == Inv /\ [Next]_vars => OnlyFailuresCount /\ StaleNeverStarts
<1> SUFFICES ASSUME Inv, [Next]_vars PROVE OnlyFailuresCount /\ StaleNeverStarts
  OBVIOUS
<1>1. ASSUME NEW p \in Plugins, Load(p) \/ Close(p) \/ Release(p) \/ Drop(p) \/ Status(p)
      PROVE  OnlyFailuresCount /\ StaleNeverStarts
  <2>1. Still
    BY <1>1 DEF Load, Close, Release, Drop, Status, Still
  <2>2. NoneRises
    BY <1>1, ConfiguredNeverRises, DropNeverRises, SameBudgets DEF Load, Close, Release, Status
  <2> QED BY <2>1, <2>2, StillIsFine
<1>2. ASSUME NEW c \in Calls, NEW p \in Plugins, Call(c, p)
      PROVE  OnlyFailuresCount /\ StaleNeverStarts
  <2>1. NoneRises /\ Others(c)
    BY <1>2, AdmitNeverRises DEF Call, Operations
  <2>2. ~At(c, "waiting")
    BY <1>2, CallIs DEF Call, At, Inv, Shapes
  <2> QED BY <2>1, <2>2, QuietIsFine DEF Quiet
<1>3. ASSUME NEW c \in Calls, CallCapability(c)
      PROVE  OnlyFailuresCount /\ StaleNeverStarts
  <2> DEFINE ps == {i \in DOMAIN Providers : phase[Providers[i]] = "loaded"}
  <2>1. At(c, "running") /\ ps # {} /\ \E fs : Admit(c, fs, Providers[Min(ps)], "capability")
    BY <1>3 DEF CallCapability
  <2>2. Providers[Min(ps)] \in Plugins
    BY <2>1, ProviderIs
  <2> HIDE DEF ps
  <2>3. NoneRises /\ Others(c)
    BY <2>1, <2>2, AdmitNeverRises DEF Operations
  <2> QED BY <2>1, <2>3, QuietIsFine DEF Quiet, At
<1>4. ASSUME NEW c \in Calls, Cancel(c) \/ Deadline(c)
      PROVE  OnlyFailuresCount /\ StaleNeverStarts
  <2>1. Depth(c) \in Nat
    BY CallIs DEF Inv, Shapes
  <2>2. Depth(c) > 0 /\ \E level : Interrupt(c, level)
    BY <1>4, <2>1 DEF Cancel, Deadline
  <2> QED BY <2>2, InterruptIsFine
<1>5. ASSUME NEW e \in Budgets, NEW op \in Operations, Recover(e, op)
      PROVE  OnlyFailuresCount /\ StaleNeverStarts
  <2> DEFINE b == budget[e]  d == [b EXCEPT !.open[op] = FALSE]
  <2>1. budget' = [budget EXCEPT ![e] = d] /\ Still
    BY <1>5 DEF Recover, Still
  <2>2. b \in BudgetRec
    BY DEF Inv
  <2>3. \A o \in Operations : ~(d.failures[o] > b.failures[o])
    <3>1. \A o \in Operations : b.failures[o] \in Nat
      BY <2>2, BudgetIs
    <3>2. d.failures = b.failures
      BY <2>2 DEF BudgetRec
    <3> QED BY <3>1, <3>2
  <2> HIDE DEF d
  <2> QED BY <2>1, <2>3, OneBudget, StillIsFine
<1>6. CASE UNCHANGED vars
  BY <1>6, SameBudgets, StillIsFine DEF vars, Still
<1> QED BY <1>1, <1>2, <1>3, <1>4, <1>5, <1>6, ProgressIsFine DEF Next

\* For any plugins, tasks, limits and nesting: only an execution that really ran and
\* ended by an error or a timeout of its own counts against the circuit it was
\* admitted under, and what was queued when its plugin was unloaded never starts -
\* what "execute" looks at again after it got a permit, and what _record_failure is
\* called for.
THEOREM OwnExecutions == Spec => ExecutionsAreTheirOwn
<1>1. Inv /\ [Next]_vars => [OnlyFailuresCount /\ StaleNeverStarts]_vars
  BY StepIsFine
<1> QED BY <1>1, Invariance, PTL DEF Spec, ExecutionsAreTheirOwn

=============================================================================
