------------------------ MODULE WeComCommands_proofs ------------------------
(***************************************************************************)
(* Proofs about WeComCommands, for any messages, plugins, connections,     *)
(* capacity, and any number of registrations, restarts and crashes.        *)
(*                                                                         *)
(* Inv is the inductive invariant: a record is owned by exactly one of the *)
(* admission that inserted it, the queue, the worker, or nobody any more   *)
(* (Owned); nothing was started for what the worker has not taken          *)
(* (Untouched, Rest); the lock has one holder, who has room (OneHolder,    *)
(* ClaimsHaveRoom).  Remembered, on top of Inv, is what keeps acknowledged *)
(* messages recorded in the first life of the service.                     *)
(***************************************************************************)
EXTENDS WeComCommands, TLAPS

Holds(r) == request[r].pc \notin {"idle", "waiting"}
FreshPC == {"fresh", "undoing"}

OneHolder ==
    /\ \A r \in Requests : request[r].life <= life
    /\ \A r, q \in Requests :
         Holds(r) /\ Holds(q) /\ request[r].life = request[q].life => r = q

Owned ==
    /\ \A r, q \in Requests :
         /\ request[r].pc \in FreshPC /\ request[q].pc \in FreshPC
         /\ request[r].m = request[q].m
         => r = q
    /\ \A r \in Requests :
         request[r].pc \in FreshPC => request[r].m \in store /\ request[r].m \notin Live
    /\ Live \subseteq store
    /\ IsInjective(queue)
    /\ Working \cap Range(queue) = {}

Untouched ==
    /\ \A m \in Messages : m \notin store \/ m \in Range(queue) => starts[m] = Nobody
    /\ \A r \in Requests : request[r].pc \in FreshPC => starts[request[r].m] = Nobody

Rest ==
    worker.pc \in {"busy", "running"} =>
      \A p \in worker.rest : starts[worker.m][p] = 0 /\ job[worker.m][p] # 0

Known ==
    /\ \A p \in Plugins : token[p] <= issued
    /\ \A r \in Requests, p \in Plugins : request[r].want[p] <= issued
    /\ \A m \in Messages, p \in Plugins : job[m][p] <= issued

Inv ==
    /\ TypeOK /\ OneHolder /\ ClaimsHaveRoom
    /\ Owned /\ Untouched /\ Rest /\ Known /\ AtMostOnce

-----------------------------------------------------------------------------
(* Constants and sequences.                                                *)

\* Some message exists: the value of the fields nobody reads.
LEMMA NoMessageType == NoMessage \in Messages
BY CommandsAssumption DEF NoMessage

LEMMA NobodyType == Nobody \in Want /\ \A p \in Plugins : Nobody[p] = 0
BY DEF Nobody, Want

\* A slot and a worker that are not used have the type of those that are.
LEMMA IdleType ==
    /\ Idle \in [pc : RequestPC, m : Messages, want : Want, life : Nat]
    /\ Idle.pc = "idle" /\ Idle.life = 0 /\ Idle.want = Nobody
BY NoMessageType, NobodyType DEF Idle, RequestPC

LEMMA NoWorkType ==
    /\ NoWork \in [pc : WorkerPC, m : Messages, rest : SUBSET Plugins]
    /\ WorkerIdle \in [pc : WorkerPC, m : Messages, rest : SUBSET Plugins]
    /\ NoWork.pc = "none" /\ WorkerIdle.pc = "idle"
BY NoMessageType DEF NoWork, WorkerIdle, WorkerPC

\* Appending a new element keeps a sequence free of repetitions.
LEMMA AppendProperties ==
    ASSUME NEW S, NEW s \in Seq(S), NEW e \in S
    PROVE  /\ Append(s, e) \in Seq(S) /\ Len(Append(s, e)) = Len(s) + 1
           /\ Range(Append(s, e)) = Range(s) \cup {e}
           /\ IsInjective(s) /\ e \notin Range(s) => IsInjective(Append(s, e))
<1>1. /\ Append(s, e) \in Seq(S) /\ Len(Append(s, e)) = Len(s) + 1
      /\ DOMAIN Append(s, e) = 1..(Len(s) + 1) /\ DOMAIN s = 1..Len(s) /\ Len(s) \in Nat
      /\ \A i \in 1..Len(s) : Append(s, e)[i] = s[i]
      /\ Append(s, e)[Len(s) + 1] = e
  OBVIOUS
<1>2. Range(Append(s, e)) = Range(s) \cup {e}
  BY <1>1 DEF Range
<1>3. ASSUME IsInjective(s), e \notin Range(s) PROVE IsInjective(Append(s, e))
  BY <1>1, <1>3 DEF IsInjective, Range
<1> QED BY <1>1, <1>2, <1>3

\* Taking the head of such a sequence removes it from its elements.
LEMMA TailProperties ==
    ASSUME NEW S, NEW s \in Seq(S), s # <<>>
    PROVE  /\ Tail(s) \in Seq(S) /\ Len(Tail(s)) = Len(s) - 1 /\ Len(s) > 0
           /\ Head(s) \in Range(s) /\ Head(s) \in S
           /\ Range(Tail(s)) \subseteq Range(s)
           /\ IsInjective(s) => IsInjective(Tail(s)) /\ Head(s) \notin Range(Tail(s))
<1>1. /\ Tail(s) \in Seq(S) /\ Len(Tail(s)) = Len(s) - 1
      /\ DOMAIN Tail(s) = 1..(Len(s) - 1) /\ DOMAIN s = 1..Len(s) /\ Len(s) \in Nat /\ Len(s) > 0
      /\ \A i \in 1..(Len(s) - 1) : Tail(s)[i] = s[i + 1]
      /\ Head(s) = s[1] /\ s[1] \in S
  OBVIOUS
<1>2. Head(s) \in Range(s) /\ Range(Tail(s)) \subseteq Range(s)
  <2>1. Head(s) \in Range(s)
    BY <1>1 DEF Range
  <2>2. ASSUME NEW i \in 1..(Len(s) - 1) PROVE Tail(s)[i] \in Range(s)
    BY <1>1 DEF Range
  <2> QED BY <1>1, <2>1, <2>2 DEF Range
<1>3. ASSUME IsInjective(s) PROVE IsInjective(Tail(s)) /\ Head(s) \notin Range(Tail(s))
  <2>1. IsInjective(Tail(s))
    BY <1>1, <1>3 DEF IsInjective
  <2>2. ASSUME NEW i \in 1..(Len(s) - 1) PROVE Tail(s)[i] # Head(s)
    BY <1>1, <1>3 DEF IsInjective
  <2> QED BY <1>1, <2>1, <2>2 DEF Range
<1> QED BY <1>1, <1>2, <1>3

LEMMA HeadTail ==
    ASSUME NEW S, NEW s \in Seq(S), s # <<>>
    PROVE  Range(s) \subseteq Range(Tail(s)) \cup {Head(s)}
<1>1. /\ DOMAIN Tail(s) = 1..(Len(s) - 1) /\ DOMAIN s = 1..Len(s) /\ Len(s) \in Nat
      /\ \A i \in 1..(Len(s) - 1) : Tail(s)[i] = s[i + 1]
      /\ Head(s) = s[1]
  OBVIOUS
<1>2. ASSUME NEW i \in 1..Len(s), i # 1 PROVE s[i] \in Range(Tail(s))
  <2>1. i - 1 \in 1..(Len(s) - 1) /\ s[i] = Tail(s)[i - 1]
    BY <1>1, <1>2
  <2> QED BY <1>1, <2>1 DEF Range
<1> QED BY <1>1, <1>2 DEF Range

LEMMA EmptyProperties == Range(<<>>) = {} /\ IsInjective(<<>>)
BY DEF Range, IsInjective

-----------------------------------------------------------------------------
(* What an action does to the slot of a request.                           *)

Slot == [pc : RequestPC, m : Messages, want : Want, life : Nat]

\* A request that goes on keeps all but its place.
LEMMA GoesEffect ==
    ASSUME TypeOK, NEW r \in Requests, NEW pc \in RequestPC, Goes(r, pc)
    PROVE  /\ request' \in [Requests -> Slot] /\ gone' = gone /\ acked' = acked
           /\ request'[r].pc = pc /\ request'[r].m = request[r].m
           /\ request'[r].want = request[r].want /\ request'[r].life = request[r].life
           /\ \A q \in Requests : q # r => request'[q] = request[q]
<1>1. request \in [Requests -> Slot]
  BY DEF TypeOK, Slot
<1>2. request' = [request EXCEPT ![r].pc = pc] /\ gone' = gone /\ acked' = acked
  BY DEF Goes
<1> QED BY <1>1, <1>2 DEF Slot

\* One that is answered leaves its slot free.
LEMMA AnsweredEffect ==
    ASSUME TypeOK, NEW r \in Requests, Answered(r)
    PROVE  /\ request' \in [Requests -> Slot] /\ gone' \subseteq Requests
           /\ request'[r] = Idle
           /\ \A q \in Requests : q # r => request'[q] = request[q]
<1>1. request \in [Requests -> Slot] /\ gone \subseteq Requests
  BY DEF TypeOK, Slot
<1>2. request' = [request EXCEPT ![r] = Idle] /\ gone' = gone \ {r}
  BY DEF Answered
<1>3. Idle \in Slot
  BY IdleType DEF Slot
<1> QED BY <1>1, <1>2, <1>3

LEMMA TargetsType ==
    ASSUME TypeOK, NEW m \in Messages
    PROVE  Targets(m) \in Want /\ \A p \in Plugins : Targets(m)[p] \in {0, token[p]}
BY DEF TypeOK, Targets, Want

\* A new delivery takes a free slot.
LEMMA DeliverEffect ==
    ASSUME TypeOK, NEW r \in Requests, NEW m \in Messages, Deliver(r, m)
    PROVE  /\ request' \in [Requests -> Slot]
           /\ request'[r].pc = "waiting" /\ request'[r].want = Targets(m)
           /\ request'[r].life = life
           /\ \A q \in Requests : q # r => request'[q] = request[q]
<1>1. request \in [Requests -> Slot]
  BY DEF TypeOK, Slot
<1> DEFINE new == [pc |-> "waiting", m |-> m, want |-> Targets(m), life |-> life]
<1>2. request' = [request EXCEPT ![r] = new]
  BY DEF Deliver
<1>3. new \in Slot
  BY TargetsType DEF TypeOK, Slot, RequestPC
<1> QED BY <1>1, <1>2, <1>3

-----------------------------------------------------------------------------
(* Types.  The bound of the queue needs ClaimsHaveRoom.                    *)

LEMMA TypeInit == Init => TypeOK
<1> SUFFICES ASSUME Init PROVE TypeOK
  OBVIOUS
<1>1. queue \in Seq(Messages) /\ Len(queue) <= Capacity
  BY CapacityAssumption DEF Init
<1>2. /\ job \in [Messages -> Want] /\ starts \in [Messages -> Want] /\ token \in Want
  BY NobodyType DEF Init
<1>3. worker \in [pc : WorkerPC, m : Messages, rest : SUBSET Plugins]
  BY NoWorkType DEF Init
<1>4. request \in [Requests -> [pc : RequestPC, m : Messages, want : Want, life : Nat]]
  BY IdleType DEF Init
<1> QED BY <1>1, <1>2, <1>3, <1>4 DEF Init, TypeOK

LEMMA TypeNext == TypeOK /\ ClaimsHaveRoom /\ [Next]_vars => TypeOK'
<1> SUFFICES ASSUME TypeOK, ClaimsHaveRoom, [Next]_vars PROVE TypeOK'
  OBVIOUS
<1> USE CapacityAssumption
<1>1. ASSUME NEW r \in Requests, NEW m \in Messages, Deliver(r, m) PROVE TypeOK'
  BY <1>1, DeliverEffect DEF Deliver, TypeOK, Slot, service, handlers
<1>2. ASSUME NEW r \in Requests, Disconnect(r) PROVE TypeOK'
  BY <1>2 DEF Disconnect, TypeOK, service, handlers, history
<1>3. ASSUME NEW r \in Requests, Refused(r), UNCHANGED store,
             UNCHANGED <<service, handlers, starts, settled>>
      PROVE TypeOK'
  BY <1>3, AnsweredEffect DEF Refused, TypeOK, Slot, service, handlers
<1>4. ASSUME NEW r \in Requests, NEW pc \in RequestPC, Goes(r, pc), store' \subseteq Messages,
             UNCHANGED <<service, handlers, starts, settled>>
      PROVE TypeOK'
  BY <1>4, GoesEffect DEF TypeOK, Slot, service, handlers
<1>5. ASSUME NEW r \in Requests, Acknowledged(r), UNCHANGED store,
             UNCHANGED <<service, handlers, starts, settled>>
      PROVE TypeOK'
  <2>1. acked' \subseteq Messages
    BY <1>5 DEF Acknowledged, TypeOK
  <2> QED BY <2>1, <1>5, AnsweredEffect DEF Acknowledged, TypeOK, Slot, service, handlers
<1>6. ASSUME NEW r \in Requests, Submit(r) PROVE TypeOK'
  BY <1>6, <1>3, <1>4 DEF Submit, RequestPC, TypeOK
<1>7. ASSUME NEW r \in Requests, Look(r) PROVE TypeOK'
  BY <1>7, <1>3, <1>4 DEF Look, RequestPC, TypeOK
<1>8. ASSUME NEW r \in Requests, Found(r) PROVE TypeOK'
  BY <1>8, <1>3, <1>5 DEF Found
<1>9. ASSUME NEW r \in Requests, Claim(r) PROVE TypeOK'
  <2>1. request[r].m \in Messages
    BY DEF TypeOK
  <2> QED BY <2>1, <1>9, <1>3, <1>4 DEF Claim, Claimed, RequestPC, TypeOK
<1>10. ASSUME NEW r \in Requests, Admit(r) PROVE TypeOK'
  <2>1. CASE request[r].pc # "fresh"
    BY <1>10, <2>1, <1>5 DEF Admit, service
  <2>2. CASE request[r].pc = "fresh"
    <3>1. request[r].m \in Messages /\ request[r].want \in Want /\ queue \in Seq(Messages)
      BY DEF TypeOK
    <3>2. Len(queue) < Capacity
      BY <1>10, <2>2 DEF ClaimsHaveRoom, Admit, CheckJob
    <3>3. queue' \in Seq(Messages) /\ Len(queue') <= Capacity
      BY <1>10, <2>2, <3>1, <3>2, AppendProperties DEF Admit, Enqueue
    <3>4. job' \in [Messages -> Want]
      BY <1>10, <2>2, <3>1 DEF Admit, Enqueue, TypeOK
    <3>5. worker' \in [pc : WorkerPC, m : Messages, rest : SUBSET Plugins]
      BY <1>10, <2>2, NoWorkType DEF Admit, Enqueue, TypeOK
    <3>6. acked' \subseteq Messages /\ request' \in [Requests -> Slot] /\ gone' \subseteq Requests
      BY <1>10, <3>1, AnsweredEffect DEF Admit, Acknowledged, TypeOK
    <3> QED BY <3>3, <3>4, <3>5, <3>6, <1>10 DEF Admit, TypeOK, Slot, handlers
  <2> QED BY <2>1, <2>2
<1>11. ASSUME NEW r \in Requests, Reject(r) PROVE TypeOK'
  BY <1>11, <1>3, <1>4 DEF Reject, RequestPC, TypeOK
<1>12. ASSUME NEW r \in Requests, Undo(r) PROVE TypeOK'
  <2>1. request[r].m \in Messages
    BY DEF TypeOK
  <2> QED BY <2>1, <1>12, AnsweredEffect DEF Undo, Refused, TypeOK, Slot, service, handlers
<1>13. ASSUME Take PROVE TypeOK'
  <2>1. /\ queue' \in Seq(Messages) /\ Len(queue') <= Capacity /\ Head(queue) \in Messages
    BY <1>13, TailProperties DEF Take, TypeOK
  <2>2. worker' \in [pc : WorkerPC, m : Messages, rest : SUBSET Plugins] /\ settled' \subseteq Messages
    BY <1>13, <2>1, NoWorkType DEF Take, TypeOK, WorkerPC
  <2> QED BY <2>1, <2>2, <1>13 DEF Take, TypeOK, handlers
<1>14. ASSUME NEW p \in Plugins, Start(p) PROVE TypeOK'
  <2>1. worker' \in [pc : WorkerPC, m : Messages, rest : SUBSET Plugins]
    BY <1>14, ZenonT(30) DEF Start, TypeOK, WorkerPC
  <2>2. starts' \in [Messages -> Want]
    <3>1. worker.m \in Messages /\ starts[worker.m] \in Want /\ starts \in [Messages -> Want]
      BY DEF TypeOK
    <3>2. [starts[worker.m] EXCEPT ![p] = @ + 1] \in Want
      BY <3>1 DEF Want
    <3>3. \/ starts' = starts
          \/ starts' = [starts EXCEPT ![worker.m] = [starts[worker.m] EXCEPT ![p] = @ + 1]]
      BY <1>14 DEF Start
    <3> QED BY <3>1, <3>2, <3>3
  <2> QED BY <2>1, <2>2, <1>14 DEF Start, TypeOK, handlers
<1>15. ASSUME Finish PROVE TypeOK'
  BY <1>15 DEF Finish, AfterCallback, TypeOK, WorkerPC, handlers
<1>16. ASSUME Done PROVE TypeOK'
  BY <1>16, NoWorkType DEF Done, TypeOK, handlers
<1>17. ASSUME NEW p \in Plugins, Load(p) PROVE TypeOK'
  BY <1>17 DEF Load, TypeOK, Want, service, history
<1>18. ASSUME NEW p \in Plugins, Unload(p) PROVE TypeOK'
  BY <1>18 DEF Unload, TypeOK, Want, service, history
<1>19. ASSUME NEW p \in Plugins, Link(p) PROVE TypeOK'
  BY <1>19 DEF Link, TypeOK, service, history
<1>20. Range(queue) \subseteq Messages /\ Live \subseteq Messages /\ InFlight \subseteq Messages
  BY DEF TypeOK, Range, Live, Working, InFlight, FreshRequests
<1>21. ASSUME Stop PROVE TypeOK'
  BY <1>20, <1>21, NoWorkType DEF Stop, TypeOK, handlers
<1>22. ASSUME Restart PROVE TypeOK'
  <2>1. worker' \in [pc : WorkerPC, m : Messages, rest : SUBSET Plugins] /\ token' \in Want
    BY <1>22, NoWorkType, NobodyType DEF Restart
  <2>2. life' \in Nat
    BY <1>22 DEF Restart, TypeOK
  <2>5. settled' \subseteq Messages /\ closed' \in BOOLEAN
    BY <1>20, <1>22 DEF Restart, TypeOK
  <2> QED BY <2>1, <2>2, <2>5, <1>22 DEF Restart, TypeOK
<1>23. ASSUME Crash PROVE TypeOK'
  <2>1. worker' \in [pc : WorkerPC, m : Messages, rest : SUBSET Plugins] /\ token' \in Want
    BY <1>23, NoWorkType, NobodyType DEF Crash
  <2>2. life' \in Nat
    BY <1>23 DEF Crash, TypeOK
  <2>5. settled' \subseteq Messages /\ closed' \in BOOLEAN
    BY <1>20, <1>23 DEF Crash, TypeOK
  <2>3. request' \in [Requests -> Slot] /\ gone' \subseteq Requests
    BY <1>23, IdleType DEF Crash, Slot
  <2>4. queue' \in Seq(Messages) /\ Len(queue') <= Capacity
    BY <1>23 DEF Crash
  <2> QED BY <2>1, <2>2, <2>3, <2>4, <2>5, <1>23 DEF Crash, TypeOK, Slot
<1>24. ASSUME UNCHANGED vars PROVE TypeOK'
  BY <1>24 DEF vars, TypeOK
<1> QED
  BY <1>1, <1>2, <1>6, <1>7, <1>8, <1>9, <1>10, <1>11, <1>12, <1>13, <1>14, <1>15, <1>16,
     <1>17, <1>18, <1>19, <1>21, <1>22, <1>23, <1>24 DEF Next

-----------------------------------------------------------------------------
(* The lock of a service instance has one holder.                          *)

\* What an action may do to the slots, seen by the invariants about them.
Ends(r) ==
    /\ request'[r] = Idle
    /\ \A q \in Requests : q # r => request'[q] = request[q]
Moves(r, pc) ==
    /\ request'[r].pc = pc /\ request'[r].m = request[r].m
    /\ request'[r].want = request[r].want /\ request'[r].life = request[r].life
    /\ \A q \in Requests : q # r => request'[q] = request[q]

\* The steps of an admission, with what each of them leaves alone.
LEMMA SubmitEffect ==
    ASSUME TypeOK, NEW r \in Requests, Submit(r)
    PROVE  /\ request[r].pc = "waiting" /\ LockFree(r)
           /\ \/ Ends(r)
              \/ CheckJob(r) /\ QueueFull /\ Moves(r, "looking")
              \/ CheckJob(r) /\ ~QueueFull /\ Moves(r, "claiming")
<1>1. "looking" \in RequestPC /\ "claiming" \in RequestPC
  BY DEF RequestPC
<1>2. CASE ~CheckJob(r)
  BY <1>2, AnsweredEffect DEF Submit, Refused, Ends
<1>3. CASE CheckJob(r) /\ QueueFull
  <2>1. Goes(r, "looking")
    BY <1>3 DEF Submit
  <2> QED BY <1>1, <1>3, <2>1, GoesEffect DEF Submit, Moves
<1>4. CASE CheckJob(r) /\ ~QueueFull
  <2>1. Goes(r, "claiming")
    BY <1>4 DEF Submit
  <2> QED BY <1>1, <1>4, <2>1, GoesEffect DEF Submit, Moves
<1> QED BY <1>2, <1>3, <1>4

LEMMA LookEffect ==
    ASSUME TypeOK, NEW r \in Requests, Look(r)
    PROVE  request[r].pc = "looking" /\ (Ends(r) \/ Moves(r, "found"))
BY AnsweredEffect, GoesEffect DEF Look, Refused, Ends, Moves, RequestPC

LEMMA FoundEffect ==
    ASSUME TypeOK, NEW r \in Requests, Found(r)
    PROVE  request[r].pc = "found" /\ Ends(r)
BY AnsweredEffect DEF Found, Refused, Acknowledged, Ends

LEMMA ClaimEffect ==
    ASSUME TypeOK, NEW r \in Requests, Claim(r)
    PROVE  /\ request[r].pc = "claiming"
           /\ \/ Ends(r) /\ store' = store
              \/ request[r].m \in store /\ Moves(r, "duplicate") /\ store' = store
              \/ request[r].m \notin store /\ Moves(r, "fresh") /\ store' = store \cup {request[r].m}
<1>1. "duplicate" \in RequestPC /\ "fresh" \in RequestPC
  BY DEF RequestPC
<1>2. CASE Refused(r) /\ UNCHANGED store
  BY <1>2, AnsweredEffect DEF Claim, Refused, Ends
<1>3. CASE request[r].m \in store /\ Goes(r, "duplicate") /\ store' = store \cup {request[r].m}
  BY <1>1, <1>3, GoesEffect DEF Claim, Moves
<1>4. CASE request[r].m \notin store /\ Goes(r, "fresh") /\ store' = store \cup {request[r].m}
  BY <1>1, <1>4, GoesEffect DEF Claim, Moves
<1> QED BY <1>2, <1>3, <1>4 DEF Claim, Claimed

LEMMA AdmitEffect ==
    ASSUME TypeOK, NEW r \in Requests, Admit(r)
    PROVE  request[r].pc \in {"fresh", "duplicate"} /\ CheckJob(r) /\ Ends(r)
BY AnsweredEffect DEF Admit, Acknowledged, Ends

LEMMA RejectEffect ==
    ASSUME TypeOK, NEW r \in Requests, Reject(r)
    PROVE  \/ request[r].pc = "fresh" /\ Moves(r, "undoing")
           \/ request[r].pc = "duplicate" /\ Ends(r)
BY AnsweredEffect, GoesEffect DEF Reject, Undoes, Refused, Ends, Moves, RequestPC

LEMMA UndoEffect ==
    ASSUME TypeOK, NEW r \in Requests, Undo(r)
    PROVE  request[r].pc = "undoing" /\ Ends(r)
BY AnsweredEffect DEF Undo, Refused, Ends

\* The actions that leave every slot, the store and the service number alone.
Elsewhere ==
    \/ Take \/ Finish \/ Done \/ Stop
    \/ \E r \in Requests : Disconnect(r)
    \/ \E p \in Plugins : Start(p) \/ Load(p) \/ Unload(p) \/ Link(p)

LEMMA ElsewhereEffect ==
    Elsewhere \/ UNCHANGED vars => request' = request /\ store' = store /\ life' = life
BY DEF Elsewhere, Take, Finish, Done, Stop, Disconnect, Start, Load, Unload, Link,
       vars, service, handlers, history

\* The actions of the lock's holder, and of one who takes it.
Admission(r) ==
    Submit(r) \/ Look(r) \/ Found(r) \/ Claim(r) \/ Admit(r) \/ Reject(r) \/ Undo(r)

LEMMA AdmissionEffect ==
    ASSUME TypeOK, NEW r \in Requests, Admission(r)
    PROVE  /\ life' = life /\ closed' = closed
           /\ \/ Ends(r)
              \/ /\ \E pc \in RequestPC : Moves(r, pc)
                 /\ Holds(r) \/ LockFree(r)
<1>1. life' = life /\ closed' = closed
  BY DEF Admission, Submit, Look, Found, Claim, Admit, Reject, Undo, service
<1>2. {"looking", "claiming", "found", "duplicate", "fresh", "undoing"} \subseteq RequestPC
  BY DEF RequestPC
<1> QED BY <1>1, <1>2, SubmitEffect, LookEffect, FoundEffect, ClaimEffect, AdmitEffect, RejectEffect,
           UndoEffect DEF Admission, Holds

\* Next, in the groups the proofs go by.
LEMMA NextCases ==
    ASSUME [Next]_vars
    PROVE  \/ \E r \in Requests, m \in Messages : Deliver(r, m)
           \/ \E r \in Requests : Admission(r)
           \/ Elsewhere \/ Restart \/ Crash \/ UNCHANGED vars
BY DEF Next, Admission, Elsewhere

LEMMA HolderNext == TypeOK /\ OneHolder /\ [Next]_vars => OneHolder'
<1> SUFFICES ASSUME TypeOK, OneHolder, [Next]_vars PROVE OneHolder'
  OBVIOUS
<1>0. life \in Nat /\ \A r \in Requests : request[r].life \in Nat
  BY DEF TypeOK
<1>1. ASSUME NEW r \in Requests, NEW m \in Messages, Deliver(r, m) PROVE OneHolder'
  BY <1>0, <1>1, DeliverEffect DEF OneHolder, Holds, Deliver, service
<1>2. ASSUME NEW r \in Requests, Admission(r) PROVE OneHolder'
  <2>1. CASE Ends(r)
    BY <1>0, <1>2, <2>1, AdmissionEffect, IdleType DEF Ends, OneHolder, Holds
  <2>2. ASSUME NEW pc \in RequestPC, Moves(r, pc), Holds(r) PROVE OneHolder'
    BY <1>0, <1>2, <2>2, AdmissionEffect DEF Moves, OneHolder, Holds
  <2>3. ASSUME NEW pc \in RequestPC, Moves(r, pc), LockFree(r) PROVE OneHolder'
    BY <1>0, <1>2, <2>3, AdmissionEffect DEF Moves, OneHolder, Holds, LockFree
  <2> QED BY <1>2, <2>1, <2>2, <2>3, AdmissionEffect
<1>3. CASE Elsewhere \/ UNCHANGED vars
  BY <1>3, ElsewhereEffect DEF OneHolder, Holds
<1>4. CASE Restart
  <2>1. request' = request /\ life' = life + 1
    BY <1>4 DEF Restart
  <2> QED BY <2>1, <1>0 DEF OneHolder, Holds
<1>5. CASE Crash
  <2>1. life' \in Nat /\ \A r \in Requests : request'[r] = Idle
    BY <1>0, <1>5 DEF Crash
  <2> QED BY <2>1, IdleType DEF OneHolder, Holds
<1> QED BY <1>1, <1>2, <1>3, <1>4, <1>5, NextCases

\* The holder of the current lock has room, and nobody else fills the queue.
LEMMA RoomNext ==
    TypeOK /\ OneHolder /\ ClaimsHaveRoom /\ [Next]_vars => ClaimsHaveRoom'
<1> SUFFICES ASSUME TypeOK, OneHolder, ClaimsHaveRoom, [Next]_vars PROVE ClaimsHaveRoom'
  OBVIOUS
<1> DEFINE Claiming == {"claiming", "fresh", "duplicate"}
<1>0. /\ life \in Nat /\ Len(queue) \in Nat /\ Capacity \in Nat
      /\ \A r \in Requests : request[r].life \in Nat
  BY CapacityAssumption DEF TypeOK
<1>1. ASSUME request' = request \/ (\E r \in Requests : Ends(r)), life' = life, closed' = closed,
             Len(queue') <= Len(queue), Len(queue') \in Nat
      PROVE  ClaimsHaveRoom'
  BY <1>0, <1>1, IdleType DEF ClaimsHaveRoom, Closed, Ends
<1>2. ASSUME NEW r \in Requests, NEW m \in Messages, Deliver(r, m) PROVE ClaimsHaveRoom'
  BY <1>0, <1>2, DeliverEffect DEF ClaimsHaveRoom, Closed, Deliver, service
<1>3. ASSUME NEW r \in Requests, Admission(r), queue' = queue PROVE ClaimsHaveRoom'
  <2>1. life' = life /\ closed' = closed
    BY <1>3, AdmissionEffect
  <2>2. CASE Ends(r)
    BY <1>0, <1>1, <1>3, <2>1, <2>2
  <2>3. ASSUME NEW pc \in RequestPC, Moves(r, pc),
               pc \in Claiming => request[r].pc = "claiming" \/ ~QueueFull
        PROVE  ClaimsHaveRoom'
    BY <1>0, <1>3, <2>1, <2>3 DEF ClaimsHaveRoom, Closed, Moves, QueueFull
  <2> QED
    BY <1>3, <2>2, <2>3, SubmitEffect, LookEffect, FoundEffect, ClaimEffect, AdmitEffect, RejectEffect,
       UndoEffect DEF Admission, RequestPC
<1>4. ASSUME NEW r \in Requests, Admission(r), queue' # queue PROVE ClaimsHaveRoom'
  <2>1. Admit(r)
    BY <1>4 DEF Admission, Submit, Look, Found, Claim, Reject, Undo, service
  <2>2. /\ request[r].pc \in {"fresh", "duplicate"} /\ ~Closed(r) /\ Ends(r)
        /\ life' = life /\ closed' = closed
    BY <2>1, AdmitEffect, AdmissionEffect DEF Admission, CheckJob
  <2>3. ASSUME NEW q \in Requests, q # r, ~Closed(q) PROVE ~Holds(q)
    BY <1>0, <2>2, <2>3 DEF OneHolder, Holds, Closed
  <2>4. ASSUME NEW q \in Requests, ~Closed(q)' PROVE request'[q].pc \notin Claiming
    BY <2>2, <2>3, <2>4, IdleType DEF Ends, Holds, Closed
  <2> QED BY <2>4 DEF ClaimsHaveRoom
<1>5. CASE Take
  <2>1. Len(queue') <= Len(queue) /\ Len(queue') \in Nat
    BY <1>0, <1>5, TailProperties DEF Take, TypeOK
  <2> QED BY <2>1, <1>1, <1>5 DEF Take
<1>6. CASE Stop
  BY <1>6 DEF Stop, ClaimsHaveRoom, Closed
<1>7. CASE (Elsewhere \/ UNCHANGED vars) /\ ~Take /\ ~Stop
  <2>1. request' = request /\ life' = life /\ closed' = closed /\ queue' = queue
    BY <1>7 DEF Elsewhere, Finish, Done, Disconnect, Start, Load, Unload, Link, vars, service, handlers
  <2> QED BY <2>1, <1>0, <1>1
<1>8. CASE Restart
  <2>1. request' = request /\ life' = life + 1
    BY <1>8 DEF Restart
  <2>2. \A r \in Requests : request'[r].life < life'
    BY <1>0, <2>1 DEF OneHolder
  <2> QED BY <2>2 DEF ClaimsHaveRoom, Closed
<1>9. CASE Crash
  BY <1>9, IdleType DEF Crash, ClaimsHaveRoom
<1> QED BY <1>2, <1>3, <1>4, <1>5, <1>6, <1>7, <1>8, <1>9, NextCases

-----------------------------------------------------------------------------
(* Every record has one owner.                                             *)

\* What the worker's and the plugins' actions do to the jobs.
LEMMA ElsewhereJobs ==
    ASSUME TypeOK, Owned, Elsewhere \/ UNCHANGED vars
    PROVE  /\ Live' \subseteq Live /\ IsInjective(queue')
           /\ Working' \cap Range(queue') = {}
           /\ Range(queue') \subseteq Range(queue)
           /\ request' = request /\ store' = store
<1>1. request' = request /\ store' = store
  BY ElsewhereEffect
<1>2. CASE Take
  <2>1. /\ queue' = Tail(queue) /\ Head(queue) \in Range(queue)
        /\ Range(queue') \subseteq Range(queue)
        /\ IsInjective(queue') /\ Head(queue) \notin Range(queue')
    BY <1>2, TailProperties DEF Take, TypeOK, Owned
  <2>2. Working' \subseteq {Head(queue)}
    BY <1>2, NoWorkType DEF Take, Working
  <2> QED BY <1>1, <2>1, <2>2 DEF Live
<1>3. CASE Stop
  <2>1. queue' = <<>> /\ Working' \subseteq Working
    BY <1>3, NoWorkType DEF Stop, Working
  <2> QED BY <1>1, <2>1, EmptyProperties DEF Live
<1>4. CASE (Elsewhere \/ UNCHANGED vars) /\ ~Take /\ ~Stop
  <2>1. queue' = queue
    BY <1>4 DEF Elsewhere, Finish, Done, Disconnect, Start, Load, Unload, Link, vars, service, handlers
  <2>2. CASE UNCHANGED worker
    BY <1>1, <2>1, <2>2 DEF Live, Working, Owned
  <2>3. CASE Finish \/ Done
    <3>1. Working' \subseteq Working
      BY <2>3, NoWorkType DEF Finish, AfterCallback, Done, Working, TypeOK
    <3> QED BY <1>1, <2>1, <3>1 DEF Live, Owned
  <2>4. CASE \E p \in Plugins : Start(p)
    <3>1. Working' \subseteq Working
      BY <2>4 DEF Start, Working, TypeOK
    <3> QED BY <1>1, <2>1, <3>1 DEF Live, Owned
  <2> QED
    BY <1>4, <2>2, <2>3, <2>4 DEF Elsewhere, Disconnect, Load, Unload, Link, vars, service
<1> QED BY <1>2, <1>3, <1>4

\* What the rest of the admissions leaves alone.
LEMMA AdmissionJobs ==
    ASSUME TypeOK, NEW r \in Requests, Admission(r), request[r].pc # "fresh" \/ ~Admit(r)
    PROVE  UNCHANGED <<queue, job, worker>> /\ Live' = Live /\ Working' = Working
BY DEF Admission, Submit, Look, Found, Claim, Admit, Reject, Undo, service, Live, Working

\* The admission that inserted the record hands it to the queue.
LEMMA EnqueueEffect ==
    ASSUME TypeOK, Owned, NEW r \in Requests, Admit(r), request[r].pc = "fresh"
    PROVE  /\ request[r].m \in Messages /\ request[r].m \notin Live
           /\ Ends(r) /\ store' = store /\ Working' = Working
           /\ Range(queue') = Range(queue) \cup {request[r].m} /\ IsInjective(queue')
           /\ Live' = Live \cup {request[r].m}
<1>1. request[r].m \in Messages /\ queue \in Seq(Messages)
  BY DEF TypeOK
<1>2. request[r].m \notin Live
  BY DEF Owned, FreshPC
<1>3. Enqueue(r) /\ store' = store /\ Ends(r)
  BY AdmitEffect DEF Admit
<1>4. Working' = Working
  BY <1>3, NoWorkType DEF Enqueue, Working
<1>5. Range(queue') = Range(queue) \cup {request[r].m} /\ IsInjective(queue')
  BY <1>1, <1>2, <1>3, AppendProperties DEF Enqueue, Owned, Live
<1> QED BY <1>1, <1>2, <1>3, <1>4, <1>5 DEF Live

LEMMA OwnedNext == TypeOK /\ Owned /\ [Next]_vars => Owned'
<1> SUFFICES ASSUME TypeOK, Owned, [Next]_vars PROVE Owned'
  OBVIOUS
<1>0. Idle.pc \notin FreshPC
  BY IdleType DEF FreshPC
<1>1. ASSUME NEW r \in Requests, NEW m \in Messages, Deliver(r, m) PROVE Owned'
  <2>1. store' = store /\ Live' = Live /\ Working' = Working /\ queue' = queue
    BY <1>1 DEF Deliver, service, Live, Working
  <2>2. /\ request'[r].pc \notin FreshPC
        /\ \A q \in Requests : q # r => request'[q] = request[q]
    BY <1>1, DeliverEffect DEF FreshPC
  <2> QED BY <2>1, <2>2 DEF Owned
<1>2. ASSUME NEW r \in Requests, Admission(r), store' = store, request[r].pc # "fresh" \/ ~Admit(r),
             Ends(r) \/ (\E pc \in RequestPC : Moves(r, pc)
                                /\ (pc \in FreshPC => request[r].pc \in FreshPC))
      PROVE  Owned'
  <2>1. queue' = queue /\ Live' = Live /\ Working' = Working
    BY <1>2, AdmissionJobs
  <2>2. CASE Ends(r)
    BY <1>0, <1>2, <2>1, <2>2 DEF Owned, Ends
  <2>3. ASSUME NEW pc \in RequestPC, Moves(r, pc), pc \in FreshPC => request[r].pc \in FreshPC
        PROVE  Owned'
    BY <1>2, <2>1, <2>3 DEF Owned, Moves
  <2> QED BY <1>2, <2>2, <2>3
<1>3. ASSUME NEW r \in Requests, Submit(r) \/ Look(r) \/ Found(r) \/ Reject(r) PROVE Owned'
  <2>1. store' = store /\ Admission(r) /\ ~(Admit(r) /\ request[r].pc = "fresh")
    BY <1>3 DEF Submit, Look, Found, Reject, Admission, Admit
  <2>2. {"looking", "claiming", "found", "undoing"} \subseteq RequestPC
    BY DEF RequestPC
  <2> QED
    BY <1>2, <1>3, <2>1, <2>2, SubmitEffect, LookEffect, FoundEffect, RejectEffect DEF FreshPC
<1>4. ASSUME NEW r \in Requests, Claim(r) PROVE Owned'
  <2>1. Admission(r) /\ ~Admit(r) /\ request[r].pc = "claiming"
    BY <1>4, ClaimEffect DEF Admission, Admit
  <2>2. queue' = queue /\ Live' = Live /\ Working' = Working
    BY <2>1, AdmissionJobs
  <2>3. CASE store' = store /\ (Ends(r) \/ Moves(r, "duplicate"))
    BY <1>2, <2>1, <2>3 DEF FreshPC, RequestPC
  <2>4. CASE request[r].m \notin store /\ Moves(r, "fresh") /\ store' = store \cup {request[r].m}
    <3>1. \A q \in Requests : request[q].pc \in FreshPC => request[q].m # request[r].m
      BY <2>4 DEF Owned
    <3>2. request[r].m \notin Live
      BY <2>4 DEF Owned
    <3> QED BY <2>2, <2>4, <3>1, <3>2 DEF Owned, Moves
  <2> QED BY <1>4, <2>3, <2>4, ClaimEffect
<1>5. ASSUME NEW r \in Requests, Admit(r), request[r].pc = "fresh" PROVE Owned'
  <2>1. \A q \in Requests : q # r /\ request[q].pc \in FreshPC => request[q].m # request[r].m
    BY <1>5 DEF Owned, FreshPC
  <2>2. request[r].m \in store /\ request[r].m \notin Working
    BY <1>5 DEF Owned, FreshPC, Live
  <2> QED BY <1>0, <1>5, <2>1, <2>2, EnqueueEffect DEF Owned, Ends
<1>6. ASSUME NEW r \in Requests, Admit(r), request[r].pc # "fresh" PROVE Owned'
  <2>1. store' = store /\ Ends(r)
    BY <1>6, AdmitEffect DEF Admit
  <2> QED BY <1>2, <1>6, <2>1 DEF Admission
<1>7. ASSUME NEW r \in Requests, Undo(r) PROVE Owned'
  <2>1. Admission(r) /\ ~Admit(r) /\ request[r].pc = "undoing" /\ Ends(r)
    BY <1>7, UndoEffect DEF Admission, Admit
  <2>2. queue' = queue /\ Live' = Live /\ Working' = Working
    BY <2>1, AdmissionJobs
  <2>3. \A q \in Requests : q # r /\ request[q].pc \in FreshPC => request[q].m # request[r].m
    BY <2>1 DEF Owned, FreshPC
  <2>4. request[r].m \notin Live
    BY <2>1 DEF Owned, FreshPC
  <2>5. store' = store \/ store' = store \ {request[r].m}
    BY <1>7 DEF Undo
  <2> QED BY <1>0, <2>1, <2>2, <2>3, <2>4, <2>5 DEF Owned, Ends
<1>8. CASE Elsewhere \/ UNCHANGED vars
  BY <1>8, ElsewhereJobs DEF Owned
<1>9. CASE Restart
  <2>1. /\ request' = request /\ store' = store /\ queue' = queue /\ Working' = {}
        /\ Live' \subseteq Live
    BY <1>9, NoWorkType DEF Restart, Working, Live
  <2> QED BY <2>1 DEF Owned
<1>10. CASE Crash
  <2>1. Live' = {} /\ queue' = <<>> /\ Working' = {} /\ \A r \in Requests : request'[r] = Idle
    BY <1>10, NoWorkType, EmptyProperties DEF Crash, Working, Live
  <2> QED BY <1>0, <2>1, EmptyProperties DEF Owned
<1> QED
  BY <1>1, <1>3, <1>4, <1>5, <1>6, <1>7, <1>8, <1>9, <1>10, NextCases DEF Admission

-----------------------------------------------------------------------------
(* Nothing is started for a message that the worker has not taken.         *)

\* Starting counts one callback of one plugin for the message in hand.
LEMMA StartEffect ==
    ASSUME TypeOK, NEW p \in Plugins, Start(p)
    PROVE  /\ worker.pc = "busy" /\ p \in worker.rest /\ worker.m \in Messages
           /\ worker'.m = worker.m /\ worker'.rest = worker.rest \ {p}
           /\ UNCHANGED <<queue, store, request, job, token, issued>>
           /\ \/ starts' = starts
              \/ /\ MayStart(worker.m, p)
                 /\ starts'[worker.m][p] = starts[worker.m][p] + 1
                 /\ \A m \in Messages, q \in Plugins :
                      <<m, q>> # <<worker.m, p>> => starts'[m][q] = starts[m][q]
                 /\ \A m \in Messages : m # worker.m => starts'[m] = starts[m]
<1>1. /\ worker.m \in Messages /\ starts[worker.m] \in [Plugins -> Nat]
      /\ \A m \in Messages : starts[m] \in [Plugins -> Nat]
  BY DEF TypeOK, Want
<1>2. /\ worker.pc = "busy" /\ p \in worker.rest
      /\ worker'.m = worker.m /\ worker'.rest = worker.rest \ {p}
      /\ UNCHANGED <<queue, store, request, job, token, issued>>
  BY DEF Start, TypeOK, handlers
<1>3. CASE MayStart(worker.m, p)
  <2> DEFINE more == [starts[worker.m] EXCEPT ![p] = @ + 1]
  <2>1. starts' = [starts EXCEPT ![worker.m] = more]
    BY <1>3 DEF Start
  <2>2. more[p] = starts[worker.m][p] + 1 /\ \A q \in Plugins : q # p => more[q] = starts[worker.m][q]
    BY <1>1
  <2>3. starts'[worker.m] = more /\ \A m \in Messages : m # worker.m => starts'[m] = starts[m]
    BY <1>1, <2>1 DEF TypeOK
  <2> HIDE DEF more
  <2> QED BY <1>1, <1>2, <1>3, <2>2, <2>3
<1>4. CASE ~MayStart(worker.m, p)
  BY <1>2, <1>4, <1>1 DEF Start
<1> QED BY <1>3, <1>4

\* Every other action leaves the counts alone.
LEMMA StartsUnchanged ==
    ASSUME [Next]_vars, \A p \in Plugins : ~Start(p)
    PROVE  starts' = starts
BY DEF Next, Deliver, Disconnect, Submit, Look, Found, Claim, Admit, Reject, Undo, Take, Finish, Done,
       Load, Unload, Link, Stop, Restart, Crash, vars, history

LEMMA UntouchedNext == TypeOK /\ Owned /\ Untouched /\ [Next]_vars => Untouched'
<1> SUFFICES ASSUME TypeOK, Owned, Untouched, [Next]_vars PROVE Untouched'
  OBVIOUS
<1>0. Idle.pc \notin FreshPC
  BY IdleType DEF FreshPC
<1>1. ASSUME starts' = starts, store \subseteq store', Range(queue') \subseteq Range(queue),
             \A r \in Requests : request'[r].pc \in FreshPC =>
               request[r].pc \in FreshPC /\ request'[r].m = request[r].m
      PROVE  Untouched'
  BY <1>1 DEF Untouched
<1>2. ASSUME NEW r \in Requests, NEW m \in Messages, Deliver(r, m) PROVE Untouched'
  <2>1. starts' = starts /\ store' = store /\ queue' = queue
    BY <1>2 DEF Deliver, service
  <2>2. /\ request'[r].pc \notin FreshPC
        /\ \A q \in Requests : q # r => request'[q] = request[q]
    BY <1>2, DeliverEffect DEF FreshPC
  <2> QED BY <1>1, <2>1, <2>2
<1>3. ASSUME NEW r \in Requests, Submit(r) \/ Look(r) \/ Found(r) \/ Reject(r) PROVE Untouched'
  <2>1. starts' = starts /\ store' = store /\ queue' = queue
    BY <1>3 DEF Submit, Look, Found, Reject, service
  <2>2. \/ Ends(r)
        \/ \E pc \in RequestPC : Moves(r, pc) /\ (pc \in FreshPC => request[r].pc \in FreshPC)
    BY <1>3, SubmitEffect, LookEffect, FoundEffect, RejectEffect DEF FreshPC, RequestPC
  <2> QED BY <1>0, <1>1, <2>1, <2>2 DEF Ends, Moves
<1>4. ASSUME NEW r \in Requests, Claim(r) PROVE Untouched'
  <2>1. starts' = starts /\ queue' = queue /\ request[r].m \in Messages
    BY <1>4 DEF Claim, service, TypeOK
  <2>2. CASE Ends(r) /\ store' = store
    BY <1>0, <1>1, <2>1, <2>2 DEF Ends
  <2>3. CASE Moves(r, "duplicate") /\ store' = store
    BY <1>1, <2>1, <2>3 DEF Moves, FreshPC
  <2>4. CASE request[r].m \notin store /\ Moves(r, "fresh") /\ store' = store \cup {request[r].m}
    BY <2>1, <2>4 DEF Untouched, Moves
  <2> QED BY <1>4, <2>2, <2>3, <2>4, ClaimEffect
<1>5. ASSUME NEW r \in Requests, Admit(r) PROVE Untouched'
  <2>1. starts' = starts /\ store' = store /\ Ends(r)
    BY <1>5, AdmitEffect DEF Admit
  <2>2. CASE request[r].pc # "fresh"
    BY <1>0, <1>1, <1>5, <2>1, <2>2, AdmissionJobs DEF Ends, Admission
  <2>3. CASE request[r].pc = "fresh"
    <3>1. starts[request[r].m] = Nobody
      BY <2>3 DEF Untouched, FreshPC
    <3>2. Range(queue') = Range(queue) \cup {request[r].m}
      BY <1>5, <2>3, EnqueueEffect
    <3> QED BY <1>0, <2>1, <3>1, <3>2 DEF Untouched, Ends
  <2> QED BY <2>2, <2>3
<1>6. ASSUME NEW r \in Requests, Undo(r) PROVE Untouched'
  <2>1. starts' = starts /\ queue' = queue /\ request[r].pc = "undoing" /\ Ends(r)
    BY <1>6, UndoEffect DEF Undo, service
  <2>2. starts[request[r].m] = Nobody
    BY <2>1 DEF Untouched, FreshPC
  <2>3. store' = store \/ store' = store \ {request[r].m}
    BY <1>6 DEF Undo
  <2> QED BY <1>0, <2>1, <2>2, <2>3 DEF Untouched, Ends
<1>7. ASSUME NEW p \in Plugins, Start(p) PROVE Untouched'
  <2>1. worker.m \in Working /\ worker.m \in Live
    BY <1>7, StartEffect DEF Working, Live
  <2>2. worker.m \in store /\ worker.m \notin Range(queue)
        /\ \A r \in Requests : request[r].pc \in FreshPC => request[r].m # worker.m
    BY <2>1 DEF Owned
  <2>3. queue' = queue /\ store' = store /\ request' = request
        /\ \A m \in Messages : m # worker.m => starts'[m] = starts[m]
    BY <1>7, StartEffect
  <2>4. \A r \in Requests : request[r].m \in Messages
    BY DEF TypeOK
  <2> QED BY <2>2, <2>3, <2>4 DEF Untouched
<1>8. CASE (Elsewhere \/ UNCHANGED vars) /\ \A p \in Plugins : ~Start(p)
  BY <1>1, <1>8, ElsewhereJobs, StartsUnchanged
<1>9. CASE Restart
  BY <1>1, <1>9 DEF Restart
<1>10. CASE Crash
  BY <1>0, <1>1, <1>10, EmptyProperties DEF Crash
<1> QED
  BY <1>2, <1>3, <1>4, <1>5, <1>6, <1>7, <1>8, <1>9, <1>10, NextCases DEF Admission

LEMMA RestNext ==
    TypeOK /\ Owned /\ Untouched /\ Rest /\ [Next]_vars => Rest'
<1> SUFFICES ASSUME TypeOK, Owned, Untouched, Rest, [Next]_vars PROVE Rest'
  OBVIOUS
<1>1. CASE UNCHANGED <<worker, starts, job>>
  BY <1>1 DEF Rest
<1>2. ASSUME NEW r \in Requests, Admit(r), request[r].pc = "fresh" PROVE Rest'
  <2>1. starts' = starts /\ job' = [job EXCEPT ![request[r].m] = request[r].want]
    BY <1>2 DEF Admit, Enqueue
  <2>2. worker' = worker \/ worker'.pc = "idle"
    BY <1>2, NoWorkType DEF Admit, Enqueue
  <2>3. worker.pc \in {"busy", "running"} => job'[worker.m] = job[worker.m]
    BY <1>2, <2>1, EnqueueEffect DEF Live, Working, TypeOK
  <2> QED BY <2>1, <2>2, <2>3 DEF Rest
<1>3. CASE Take
  <2>1. starts' = starts /\ job' = job
    BY <1>3 DEF Take
  <2>2. CASE worker' = WorkerIdle
    BY <2>2, NoWorkType DEF Rest
  <2>3. CASE worker' = [pc |-> "busy", m |-> Head(queue), rest |-> {p \in Plugins : job[Head(queue)][p] # 0}]
    <3>1. Head(queue) \in Messages /\ Head(queue) \in Range(queue)
      BY <1>3, TailProperties DEF Take, TypeOK
    <3>2. \A p \in Plugins : starts[Head(queue)][p] = 0
      BY <3>1, NobodyType DEF Untouched
    <3> QED BY <2>1, <2>3, <3>2 DEF Rest
  <2> QED BY <1>3, <2>2, <2>3 DEF Take
<1>4. ASSUME NEW p \in Plugins, Start(p) PROVE Rest'
  <2>1. worker.rest \subseteq Plugins
    BY DEF TypeOK
  <2> QED BY <1>4, <2>1, StartEffect DEF Rest
<1>5. CASE Finish
  BY <1>5 DEF Finish, AfterCallback, Rest, TypeOK
<1>6. CASE Done \/ Stop \/ Restart \/ Crash
  <2>1. worker' = worker \/ worker'.pc \in {"none", "idle"}
    BY <1>6, NoWorkType DEF Done, Stop, Restart, Crash
  <2>2. starts' = starts /\ job' = job
    BY <1>6 DEF Done, Stop, Restart, Crash
  <2> QED BY <2>1, <2>2 DEF Rest
<1> QED
  <2>1. CASE \E r \in Requests, m \in Messages : Deliver(r, m)
    BY <1>1, <2>1 DEF Deliver, service
  <2>2. CASE \E r \in Requests : Disconnect(r) \/ Submit(r) \/ Look(r) \/ Found(r) \/ Claim(r)
                                   \/ Reject(r) \/ Undo(r)
    BY <1>1, <2>2 DEF Disconnect, Submit, Look, Found, Claim, Reject, Undo, service, history
  <2>3. CASE \E r \in Requests : Admit(r)
    BY <1>1, <1>2, <2>3 DEF Admit
  <2>4. CASE \E p \in Plugins : Load(p) \/ Unload(p) \/ Link(p)
    BY <1>1, <2>4 DEF Load, Unload, Link, service, history
  <2>5. CASE UNCHANGED vars
    BY <1>1, <2>5 DEF vars
  <2> QED BY <1>3, <1>4, <1>5, <1>6, <2>1, <2>2, <2>3, <2>4, <2>5 DEF Next

LEMMA OnceNext == TypeOK /\ Rest /\ AtMostOnce /\ [Next]_vars => AtMostOnce'
<1> SUFFICES ASSUME TypeOK, Rest, AtMostOnce, [Next]_vars PROVE AtMostOnce'
  OBVIOUS
<1>1. ASSUME NEW p \in Plugins, Start(p) PROVE AtMostOnce'
  <2>1. starts[worker.m][p] = 0
    BY <1>1, StartEffect DEF Rest
  <2>2. ASSUME NEW m \in Messages, NEW q \in Plugins PROVE starts'[m][q] <= 1
    <3>1. CASE <<m, q>> = <<worker.m, p>>
      BY <1>1, <2>1, <3>1, StartEffect
    <3>2. CASE <<m, q>> # <<worker.m, p>>
      BY <1>1, <3>2, StartEffect DEF AtMostOnce
    <3> QED BY <3>1, <3>2
  <2> QED BY <2>2 DEF AtMostOnce
<1> QED BY <1>1, StartsUnchanged DEF AtMostOnce

-----------------------------------------------------------------------------
(* Every registration a message is for has been issued.                    *)

LEMMA KnownNext == TypeOK /\ Known /\ [Next]_vars => Known'
<1> SUFFICES ASSUME TypeOK, Known, [Next]_vars PROVE Known'
  OBVIOUS
<1>0. /\ issued \in Nat /\ \A p \in Plugins : token[p] \in Nat
      /\ \A r \in Requests, p \in Plugins : request[r].want[p] \in Nat
      /\ \A p \in Plugins : Idle.want[p] = 0
  BY IdleType, NobodyType DEF TypeOK, Want
<1>1. ASSUME issued' \in Nat, issued <= issued', job' = job,
             \A p \in Plugins : token'[p] \in {0, token[p]} \/ token'[p] = issued',
             \A r \in Requests : request'[r].want = request[r].want \/ request'[r].want = Idle.want
                                   \/ \A p \in Plugins : request'[r].want[p] \in {0, token[p]}
      PROVE  Known'
  <2>1. \A m \in Messages, p \in Plugins : job[m][p] \in Nat
    BY DEF TypeOK, Want
  <2> QED BY <1>0, <1>1, <2>1 DEF Known
<1>2. ASSUME NEW r \in Requests, NEW m \in Messages, Deliver(r, m) PROVE Known'
  <2>1. UNCHANGED <<issued, job, token>>
    BY <1>2 DEF Deliver, service, handlers
  <2> QED BY <1>0, <1>1, <1>2, <2>1, DeliverEffect, TargetsType
<1>3. ASSUME NEW r \in Requests, Admission(r), UNCHANGED job PROVE Known'
  <2>1. UNCHANGED <<issued, token>>
    BY <1>3 DEF Admission, Submit, Look, Found, Claim, Admit, Reject, Undo, handlers
  <2> QED BY <1>0, <1>1, <1>3, <2>1, AdmissionEffect DEF Ends, Moves
<1>4. ASSUME NEW r \in Requests, Admit(r), request[r].pc = "fresh" PROVE Known'
  <2>1. UNCHANGED <<issued, token>> /\ job' = [job EXCEPT ![request[r].m] = request[r].want]
    BY <1>4 DEF Admit, Enqueue, handlers
  <2>2. \A m \in Messages : job'[m] \in {job[m], request[r].want}
    BY <2>1 DEF TypeOK
  <2>3. Ends(r)
    BY <1>4, AdmitEffect
  <2> QED BY <1>0, <2>1, <2>2, <2>3 DEF Known, Ends
<1>5. CASE Elsewhere \/ UNCHANGED vars
  <2>1. request' = request /\ job' = job
    BY <1>5, ElsewhereEffect DEF Elsewhere, Take, Finish, Done, Stop, Disconnect, Start, Load, Unload,
       Link, vars, service
  <2>2. CASE UNCHANGED <<token, issued>>
    BY <1>0, <1>1, <2>1, <2>2
  <2>3. ASSUME NEW p \in Plugins, Load(p) PROVE Known'
    <3>1. /\ issued' = issued + 1
          /\ \A q \in Plugins : token'[q] \in {token[q], issued'}
      BY <2>3 DEF Load, TypeOK, Want
    <3> QED BY <1>0, <1>1, <2>1, <3>1
  <2>4. ASSUME NEW p \in Plugins, Unload(p) PROVE Known'
    <3>1. issued' = issued /\ \A q \in Plugins : token'[q] \in {token[q], 0}
      BY <2>4 DEF Unload, TypeOK, Want
    <3> QED BY <1>0, <1>1, <2>1, <3>1
  <2> QED
    BY <1>5, <2>2, <2>3, <2>4 DEF Elsewhere, Take, Finish, Done, Stop, Disconnect, Start, Link,
       vars, handlers
<1>6. CASE Restart
  BY <1>0, <1>1, <1>6, NobodyType DEF Restart
<1>7. CASE Crash
  <2>1. \A r \in Requests : request'[r].want = Idle.want
    BY <1>7 DEF Crash
  <2> QED BY <1>0, <1>1, <1>7, <2>1, NobodyType DEF Crash
<1> QED
  <2>1. ASSUME NEW r \in Requests, Admission(r) PROVE Known'
    <3>1. job' = job \/ (Admit(r) /\ request[r].pc = "fresh")
      BY <2>1 DEF Admission, Submit, Look, Found, Claim, Admit, Reject, Undo, service
    <3> QED BY <2>1, <3>1, <1>3, <1>4
  <2> QED BY <2>1, <1>2, <1>5, <1>6, <1>7, NextCases

-----------------------------------------------------------------------------
(* The inductive invariant.                                                *)

LEMMA InvInit == Init => Inv
<1> SUFFICES ASSUME Init PROVE Inv
  OBVIOUS
<1>1. TypeOK
  BY TypeInit
<1>2. /\ \A r \in Requests : request[r] = Idle
      /\ life = 1 /\ queue = <<>> /\ worker.pc = "none"
      /\ \A m \in Messages : starts[m] = Nobody /\ job[m] = Nobody
      /\ token = Nobody /\ issued = 0
  BY NoWorkType DEF Init
<1>3. OneHolder /\ ClaimsHaveRoom
  BY <1>2, IdleType DEF OneHolder, ClaimsHaveRoom, Holds
<1>4. Live = {} /\ Working = {}
  BY <1>2, EmptyProperties DEF Live, Working
<1>5. Owned
  BY <1>2, <1>4, IdleType, EmptyProperties DEF Owned, FreshPC
<1>6. Untouched /\ Rest
  BY <1>2, IdleType DEF Untouched, Rest, FreshPC
<1>7. Known /\ AtMostOnce
  BY <1>2, IdleType, NobodyType DEF Known, AtMostOnce
<1> QED BY <1>1, <1>3, <1>5, <1>6, <1>7 DEF Inv

LEMMA InvNext == Inv /\ [Next]_vars => Inv'
BY TypeNext, HolderNext, RoomNext, OwnedNext, UntouchedNext, RestNext, KnownNext, OnceNext DEF Inv

LEMMA Invariance == Spec => []Inv
BY InvInit, InvNext, PTL DEF Spec

\* No message starts two callbacks of a plugin, whatever the provider retries
\* and whenever the service stops, restarts or crashes (_claim, _submit, _run).
THEOREM MessagesRunOnce == Spec => []AtMostOnce
<1>1. Inv => AtMostOnce
  BY DEF Inv
<1> QED BY <1>1, Invariance, PTL

\* An admission that passed the full check finds room when its thread is back,
\* so put_nowait never raises after the record was committed (_submit).
THEOREM AdmissionsHaveRoom == Spec => []ClaimsHaveRoom
<1>1. Inv => ClaimsHaveRoom
  BY DEF Inv
<1> QED BY <1>1, Invariance, PTL

-----------------------------------------------------------------------------
(* What was acknowledged stays recorded.                                   *)

\* In the first life of the service whoever holds the lock is the only one who
\* does, so what it knows of the record of its message stays true.
Remembered ==
    /\ life >= 1 /\ \A r \in Requests : request[r].pc # "idle" => request[r].life >= 1
    /\ life = 1 =>
         /\ \A r \in Requests : request[r].pc \in {"found", "duplicate"} => request[r].m \in store
         /\ \A r \in Requests : request[r].pc \in FreshPC => request[r].m \notin acked
         /\ acked \subseteq store

\* Nobody else is in the critical section of whoever moves in it.
LEMMA AloneInside ==
    ASSUME TypeOK, OneHolder, Remembered, life = 1, NEW r \in Requests, Admission(r)
    PROVE  \A q \in Requests : q # r => ~Holds(q) /\ request'[q] = request[q]
<1>1. \A q \in Requests : q # r => request'[q] = request[q]
  BY AdmissionEffect DEF Ends, Moves
<1>2. Holds(r) \/ (request[r].pc = "waiting" /\ LockFree(r))
  BY SubmitEffect DEF Admission, Look, Found, Claim, Admit, Reject, Undo, Holds
<1>3. \A q \in Requests : request[q].life \in Nat /\ request[q].life <= 1
  BY DEF TypeOK, OneHolder
<1>4. \A q \in Requests : request[q].pc # "idle" => request[q].life = 1
  BY <1>3 DEF Remembered
<1> QED
  BY <1>1, <1>2, <1>4 DEF OneHolder, LockFree, Holds

\* The steps of the lock's holder and of who takes it.
LEMMA RememberedAdmission ==
    ASSUME TypeOK, OneHolder, Owned, Remembered, NEW r \in Requests, Admission(r)
    PROVE  Remembered'
<1>0. Idle.pc = "idle" /\ request[r].pc # "idle" /\ life' = life
  BY IdleType, AdmissionEffect DEF Admission, Submit, Look, Found, Claim, Admit, Reject, Undo
<1>1. life' >= 1 /\ \A q \in Requests : request'[q].pc # "idle" => request'[q].life >= 1
  BY <1>0, AdmissionEffect DEF Remembered, Ends, Moves
<1> SUFFICES ASSUME life = 1
             PROVE  /\ \A q \in Requests :
                         request'[q].pc \in {"found", "duplicate"} => request'[q].m \in store'
                    /\ \A q \in Requests : request'[q].pc \in FreshPC => request'[q].m \notin acked'
                    /\ acked' \subseteq store'
  BY <1>0, <1>1 DEF Remembered
<1>2. \A q \in Requests : q # r => request'[q].pc \in {"idle", "waiting"}
  BY AloneInside DEF Holds
<1>3. SUFFICES /\ request'[r].pc \in {"found", "duplicate"} => request'[r].m \in store'
               /\ request'[r].pc \in FreshPC => request'[r].m \notin acked'
               /\ acked' \subseteq store'
  BY <1>2 DEF FreshPC
<1>4. CASE Submit(r)
  BY <1>0, <1>4, SubmitEffect DEF Submit, Refused, Goes, Ends, Moves, Remembered, FreshPC
<1>5. CASE Look(r)
  <2>1. store' = store /\ acked' = acked
    BY <1>5 DEF Look, Refused, Goes
  <2>2. Ends(r) \/ (Moves(r, "found") /\ request[r].m \in store)
    BY <1>5, LookEffect, AnsweredEffect DEF Look, Refused, Ends
  <2> QED
    BY <1>0, <2>1, <2>2 DEF Ends, Moves, Remembered, FreshPC
<1>6. CASE Found(r) \/ (Admit(r) /\ request[r].pc = "duplicate")
  <2>1. Ends(r) /\ store' = store /\ request[r].m \in store
    BY <1>6, FoundEffect, AdmitEffect DEF Found, Admit, Remembered
  <2>2. acked' \subseteq acked \cup {request[r].m}
    BY <1>6 DEF Found, Admit, Refused, Acknowledged
  <2> QED
    BY <1>0, <2>1, <2>2 DEF Ends, Remembered, FreshPC
<1>7. CASE Admit(r) /\ request[r].pc = "fresh"
  <2>1. Ends(r) /\ store' = store /\ request[r].m \in store
    BY <1>7, EnqueueEffect DEF Owned, FreshPC
  <2>2. acked' \subseteq acked \cup {request[r].m}
    BY <1>7 DEF Admit, Acknowledged
  <2> QED
    BY <1>0, <2>1, <2>2 DEF Ends, Remembered, FreshPC
<1>8. CASE Claim(r)
  <2>1. acked' = acked
    BY <1>8 DEF Claim, Refused, Goes
  <2> QED
    BY <1>0, <1>8, <2>1, ClaimEffect DEF Ends, Moves, Remembered, FreshPC
<1>9. CASE Reject(r)
  <2>1. store' = store /\ acked' = acked
    BY <1>9 DEF Reject, Refused, Goes
  <2> QED
    BY <1>0, <1>9, <2>1, RejectEffect DEF Ends, Moves, Remembered, FreshPC
<1>10. CASE Undo(r)
  <2>1. acked' = acked /\ store \ {request[r].m} \subseteq store'
    BY <1>10 DEF Undo, Refused
  <2> QED
    BY <1>0, <1>10, <2>1, UndoEffect DEF Ends, Remembered, FreshPC
<1>11. Admit(r) => request[r].pc \in {"fresh", "duplicate"}
  BY DEF Admit
<1> QED
  BY <1>4, <1>5, <1>6, <1>7, <1>8, <1>9, <1>10, <1>11 DEF Admission

LEMMA RememberedNext == Inv /\ Remembered /\ [Next]_vars => Remembered'
<1> SUFFICES ASSUME Inv, Remembered, [Next]_vars PROVE Remembered'
  OBVIOUS
<1>0. TypeOK /\ OneHolder /\ Owned /\ life \in Nat
  BY DEF Inv, TypeOK
<1>1. ASSUME NEW r \in Requests, NEW m \in Messages, Deliver(r, m) PROVE Remembered'
  <2>1. UNCHANGED <<life, store, acked>>
    BY <1>1 DEF Deliver, service
  <2> QED
    BY <1>0, <1>1, <2>1, DeliverEffect DEF Remembered, FreshPC
<1>2. ASSUME NEW r \in Requests, Admission(r) PROVE Remembered'
  BY <1>0, <1>2, RememberedAdmission
<1>3. CASE Elsewhere \/ UNCHANGED vars
  <2>1. Take \/ Finish \/ Done \/ Stop \/ UNCHANGED vars => acked' = acked
    BY Zenon DEF Take, Finish, Done, Stop, vars
  <2>2. \A r \in Requests : Disconnect(r) => acked' = acked
    BY DEF Disconnect, history
  <2>3. \A p \in Plugins : Start(p) \/ Load(p) \/ Unload(p) \/ Link(p) => acked' = acked
    BY DEF Start, Load, Unload, Link, history
  <2>4. acked' = acked
    BY <1>3, <2>1, <2>2, <2>3 DEF Elsewhere
  <2> QED
    BY <1>3, <2>4, ElsewhereEffect DEF Remembered
<1>4. CASE Restart
  BY <1>0, <1>4 DEF Restart, Remembered
<1>5. CASE Crash
  BY <1>0, <1>5, IdleType DEF Crash, Remembered
<1> QED
  BY <1>1, <1>2, <1>3, <1>4, <1>5, NextCases

\* What the store says a retry may do is true: no message starts two callbacks
\* of a plugin, and while the first instance of the service lives what was
\* acknowledged stays recorded (_submit, _claim, _release_claim).
THEOREM StoreTellsTheTruth == Spec => []RecordsAreTrue
<1>1. Init => Remembered
  BY IdleType DEF Init, Remembered, FreshPC
<1>2. Inv /\ Remembered => RecordsAreTrue
  BY DEF Inv, Remembered, RecordsAreTrue, AckedStaysRecorded
<1> QED
  BY <1>1, <1>2, RememberedNext, Invariance, PTL DEF Spec

-----------------------------------------------------------------------------
(* The service implements CommandOnce.                                     *)

\* The status of a message, case by case.
LEMMA StatusValue ==
    ASSUME NEW m \in Messages
    PROVE  /\ m \in Live => Status[m] = "accepted"
           /\ m \notin Live /\ m \in store /\ m \notin InFlight => Status[m] = "over"
           /\ m \notin Live /\ (m \notin store \/ m \in InFlight) => Status[m] = "new"
BY DEF Status

\* The messages whose owner is an admission.
LEMMA InFlightValue ==
    \A m : m \in InFlight <=> \E r \in Requests : request[r].pc \in FreshPC /\ request[r].m = m
BY DEF InFlight, FreshRequests, FreshPC

\* What each step of an admission does to the records and their owners.
LEMMA KeepsRecords ==
    ASSUME Inv, NEW r \in Requests,
           Submit(r) \/ Look(r) \/ Found(r) \/ Reject(r) \/ (Admit(r) /\ request[r].pc # "fresh")
    PROVE  store' = store /\ InFlight' = InFlight
<1>1. store' = store
  BY DEF Submit, Look, Found, Reject, Admit
<1>2. /\ Ends(r) \/ (\E pc \in RequestPC : Moves(r, pc))
      /\ request[r].pc \in FreshPC <=> request'[r].pc \in FreshPC
  BY SubmitEffect, LookEffect, FoundEffect, RejectEffect, AdmitEffect, IdleType
     DEF Inv, Ends, Moves, FreshPC, RequestPC
<1>3. \A q \in Requests : request[q].pc \in FreshPC <=> request'[q].pc \in FreshPC
  BY <1>2 DEF Ends, Moves
<1>4. \A q \in Requests : request[q].pc \in FreshPC => request'[q].m = request[q].m
  BY <1>2, IdleType DEF Ends, Moves, FreshPC
<1> QED BY <1>1, <1>3, <1>4 DEF InFlight, FreshRequests, FreshPC

LEMMA ClaimRecords ==
    ASSUME Inv, NEW r \in Requests, Claim(r)
    PROVE  \/ store' = store /\ InFlight' = InFlight
           \/ /\ request[r].m \notin store /\ store' = store \cup {request[r].m}
              /\ InFlight' = InFlight \cup {request[r].m}
<1>1. request[r].pc = "claiming"
  BY ClaimEffect DEF Inv
<1>2. CASE store' = store /\ (Ends(r) \/ Moves(r, "duplicate"))
  <2>1. \A q \in Requests : /\ request[q].pc \in FreshPC <=> request'[q].pc \in FreshPC
                            /\ request[q].pc \in FreshPC => request'[q].m = request[q].m
    BY <1>1, <1>2, IdleType DEF Ends, Moves, FreshPC
  <2> QED BY <1>2, <2>1 DEF InFlight, FreshRequests, FreshPC
<1>3. CASE request[r].m \notin store /\ Moves(r, "fresh") /\ store' = store \cup {request[r].m}
  BY <1>1, <1>3 DEF InFlight, FreshRequests, Moves
<1> QED BY <1>2, <1>3, ClaimEffect DEF Inv

LEMMA EndRecords ==
    ASSUME Inv, NEW r \in Requests, request[r].pc \in FreshPC, Ends(r)
    PROVE  /\ request[r].m \in InFlight /\ request[r].m \in store /\ request[r].m \notin Live
           /\ InFlight' = InFlight \ {request[r].m}
<1>1. \A q \in Requests : q # r /\ request[q].pc \in FreshPC => request[q].m # request[r].m
  BY DEF Inv, Owned
<1>2. ASSUME NEW x PROVE x \in InFlight' <=> x \in InFlight /\ x # request[r].m
  <2>1. x \in InFlight' <=> \E q \in Requests : request'[q].pc \in FreshPC /\ request'[q].m = x
    BY DEF InFlight, FreshRequests, FreshPC
  <2> QED BY <1>1, <2>1, IdleType, InFlightValue DEF Ends, FreshPC
<1> QED BY <1>2, InFlightValue DEF Inv, Owned

\* A message changes its status when its owner or its record changes.
LEMMA SameStatus ==
    ASSUME Live' = Live, (store \ InFlight)' = store \ InFlight
    PROVE  Status' = Status
BY DEF Status

\* Messages that are done with, alone or many at a time.
LEMMA OverStep ==
    ASSUME \A m \in Messages : Status'[m] \in {Status[m], "over"},
           UNCHANGED <<job, starts, issued>>, token' \in {token, Nobody}
    PROVE  Once!Over
<1> DEFINE S == {m \in Messages : Status'[m] = "over"}
<1>1. Status' = [m \in Messages |-> Status'[m]]
  BY DEF Status
<1>2. Status' = [m \in Messages |-> IF m \in S THEN "over" ELSE Status[m]]
  BY <1>1
<1>3. S \in SUBSET Messages
  OBVIOUS
<1>4. \E T \in SUBSET Messages : Status' = [m \in Messages |-> IF m \in T THEN "over" ELSE Status[m]]
  BY <1>2, <1>3
<1> QED BY <1>4 DEF Once!Over, Nobody

LEMMA RefinesInit == Init => Once!Init
<1> SUFFICES ASSUME Init PROVE Once!Init
  OBVIOUS
<1>1. Live = {} /\ store = {}
  BY EmptyProperties, NoWorkType DEF Init, Live, Working
<1>2. Status = [m \in Messages |-> "new"]
  BY <1>1 DEF Status
<1> QED BY <1>2 DEF Init, Once!Init, Nobody

\* The admission that inserted the record accepts the message.
LEMMA RefinesAdmit ==
    ASSUME Inv, NEW r \in Requests, Admit(r), request[r].pc = "fresh"
    PROVE  Once!Accept(request[r].m)
<1> DEFINE m == request[r].m
<1>1. /\ m \in Messages /\ m \notin Live /\ Live' = Live \cup {m} /\ store' = store /\ Ends(r)
  BY EnqueueEffect DEF Inv
<1>2. m \in InFlight /\ InFlight' = InFlight \ {m}
  BY <1>1, EndRecords DEF FreshPC
<1>3. Status[m] = "new"
  BY <1>1, <1>2, StatusValue
<1>4. Status' = [Status EXCEPT ![m] = "accepted"]
  <2>1. ASSUME NEW x \in Messages PROVE Status'[x] = IF x = m THEN "accepted" ELSE Status[x]
    BY <1>1, <1>2 DEF Status
  <2> QED BY <2>1, <1>1 DEF Status
<1>5. request[r].want \in [Plugins -> 0..issued]
  BY DEF Inv, TypeOK, Known, Want
<1>6. job' = [job EXCEPT ![m] = request[r].want] /\ UNCHANGED <<starts, token, issued>>
  BY DEF Admit, Enqueue, handlers
<1> QED BY <1>3, <1>4, <1>5, <1>6 DEF Once!Accept

\* The other steps of an admission change no status, but for the deletion
\* that fails: that message is over.
LEMMA RefinesAdmission ==
    ASSUME Inv, NEW r \in Requests, Admission(r), ~(Admit(r) /\ request[r].pc = "fresh")
    PROVE  Once!Over
<1>1. Live' = Live /\ UNCHANGED <<job, starts, issued, token>>
  BY AdmissionJobs DEF Inv, Admission, Submit, Look, Found, Claim, Admit, Reject, Undo, service, handlers
<1>2. CASE ~Undo(r)
  <2>1. (store \ InFlight)' = store \ InFlight
    BY <1>2, KeepsRecords, ClaimRecords DEF Admission
  <2> QED BY <1>1, <2>1, SameStatus, OverStep
<1>3. CASE Undo(r)
  <2> DEFINE m == request[r].m
  <2>1. /\ m \in InFlight /\ m \in store /\ m \notin Live
        /\ InFlight' = InFlight \ {m}
    BY <1>3, UndoEffect, EndRecords DEF Inv, FreshPC
  <2>2. CASE store' = store \ {m}
    <3>1. (store \ InFlight)' = store \ InFlight
      BY <2>1, <2>2
    <3> QED BY <1>1, <3>1, SameStatus, OverStep
  <2>3. CASE store' = store
    <3>1. ASSUME NEW x \in Messages PROVE Status'[x] \in {Status[x], "over"}
      BY <1>1, <2>1, <2>3 DEF Status
    <3> QED BY <1>1, <3>1, OverStep
  <2> QED BY <1>3, <2>2, <2>3 DEF Undo
<1> QED BY <1>2, <1>3

\* A callback starts for an accepted message, in the instance it is for.
LEMMA RefinesStart ==
    ASSUME Inv, NEW p \in Plugins, Start(p)
    PROVE  Once!Run(worker.m, p) \/ Once!Over
<1>1. /\ worker.pc = "busy" /\ p \in worker.rest /\ worker.m \in Messages
      /\ UNCHANGED <<queue, store, request, job, token, issued>>
      /\ worker'.m = worker.m
  BY StartEffect DEF Inv
<1>2. worker'.pc \in {"busy", "running"}
  BY <1>1 DEF Start, Inv, TypeOK
<1>3. Live' = Live /\ InFlight' = InFlight /\ worker.m \in Live
  BY <1>1, <1>2 DEF Live, Working, InFlight, FreshRequests
<1>4. Status' = Status /\ Status[worker.m] = "accepted"
  BY <1>1, <1>3, SameStatus, StatusValue
<1>5. starts[worker.m][p] = 0 /\ job[worker.m][p] # 0
  BY <1>1 DEF Inv, Rest
<1>6. CASE MayStart(worker.m, p)
  <2>1. token[p] # 0 /\ (worker.m \in Commands \/ token[p] = job[worker.m][p])
    BY <1>6 DEF MayStart, TargetAllowed
  <2>2. starts' = [starts EXCEPT ![worker.m][p] = 1]
    <3>1. starts' = [starts EXCEPT ![worker.m][p] = @ + 1]
      BY <1>6 DEF Start
    <3> QED BY <1>5, <3>1
  <2> QED BY <1>1, <1>4, <1>5, <2>1, <2>2 DEF Once!Run
<1>7. CASE ~MayStart(worker.m, p)
  BY <1>1, <1>4, <1>7, OverStep DEF Start
<1> QED BY <1>6, <1>7

\* The worker takes, finishes or drops a message, or the service stops: the
\* messages that leave its hands are over.
LEMMA RefinesElsewhere ==
    ASSUME Inv, Elsewhere \/ UNCHANGED vars, \A p \in Plugins : ~(Start(p) \/ Load(p) \/ Unload(p))
    PROVE  Once!Over
<1>1. UNCHANGED <<job, starts, issued, token>>
  BY DEF Elsewhere, Take, Finish, Done, Stop, Disconnect, Link, vars, service, handlers, history
<1>2. Live' \subseteq Live /\ store' = store /\ InFlight' = InFlight
  BY ElsewhereJobs DEF Inv, InFlight, FreshRequests
<1>3. \A m \in Messages : m \in Live => m \in store /\ m \notin InFlight
  BY InFlightValue DEF Inv, Owned
<1>4. ASSUME NEW m \in Messages PROVE Status'[m] \in {Status[m], "over"}
  BY <1>2, <1>3 DEF Status
<1> QED BY <1>1, <1>4, OverStep

\* A restart and a crash: what was accepted, and what was recorded, is over.
LEMMA RefinesEnd ==
    ASSUME Inv, Restart \/ Crash
    PROVE  Once!Over
<1>1. UNCHANGED <<job, starts, issued>> /\ token' = Nobody /\ store' = store
  BY DEF Restart, Crash
<1>2. \A m \in Messages : m \in Live => m \in store /\ m \notin InFlight
  BY InFlightValue DEF Inv, Owned
<1>3. InFlight \subseteq store
  BY DEF Inv, Owned, InFlight, FreshRequests, FreshPC
<1>4. Live' \subseteq Live /\ (InFlight' = InFlight \/ (InFlight' = {} /\ Live' = {}))
  <2>1. CASE Restart
    BY <2>1, NoWorkType DEF Restart, Live, Working, InFlight, FreshRequests
  <2>2. CASE Crash
    BY <2>2, NoWorkType, EmptyProperties, IdleType DEF Crash, Live, Working, InFlight, FreshRequests
  <2> QED BY <2>1, <2>2
<1>5. ASSUME NEW m \in Messages PROVE Status'[m] \in {Status[m], "over"}
  BY <1>1, <1>2, <1>3, <1>4 DEF Status
<1> QED BY <1>1, <1>5, OverStep

LEMMA RefinesNext == Inv /\ [Next]_vars => [Once!Next]_(Once!vars)
<1> SUFFICES ASSUME Inv, [Next]_vars PROVE [Once!Next]_(Once!vars)
  OBVIOUS
<1>1. ASSUME NEW r \in Requests, NEW m \in Messages, Deliver(r, m) PROVE Once!Over
  <2>1. UNCHANGED <<store, queue, worker, job, starts, issued, token>>
    BY <1>1 DEF Deliver, service, handlers
  <2>2. request[r].pc = "idle" /\ request'[r].pc = "waiting"
        /\ \A q \in Requests : q # r => request'[q] = request[q]
    BY <1>1, DeliverEffect DEF Deliver, Inv
  <2>3. InFlight' = InFlight
    BY <2>2 DEF InFlight, FreshRequests
  <2> QED BY <2>1, <2>3, SameStatus, OverStep DEF Live, Working
<1>2. ASSUME NEW r \in Requests, Admission(r) PROVE Once!Next
  <2>1. CASE Admit(r) /\ request[r].pc = "fresh"
    <3>1. request[r].m \in Messages
      BY DEF Inv, TypeOK
    <3> QED BY <2>1, <3>1, RefinesAdmit DEF Once!Next
  <2> QED BY <1>2, <2>1, RefinesAdmission DEF Once!Next
<1>3. ASSUME NEW p \in Plugins, Start(p) PROVE Once!Next
  <2>1. worker.m \in Messages
    BY DEF Inv, TypeOK
  <2> QED BY <1>3, <2>1, RefinesStart DEF Once!Next
<1>4. ASSUME NEW p \in Plugins, Load(p) \/ Unload(p) PROVE Once!Next
  <2>1. UNCHANGED <<store, queue, worker, request, job, starts>>
    BY <1>4 DEF Load, Unload, service, history
  <2>2. Status' = Status
    BY <2>1 DEF Status, Live, Working, InFlight, FreshRequests
  <2>3. CASE Load(p)
    BY <2>1, <2>2, <2>3 DEF Load, Once!Load, Once!Next
  <2>4. CASE Unload(p)
    BY <2>1, <2>2, <2>4 DEF Unload, Once!Unload, Once!Next
  <2> QED BY <1>4, <2>3, <2>4
<1>5. CASE Elsewhere \/ UNCHANGED vars
  BY <1>3, <1>4, <1>5, RefinesElsewhere DEF Once!Next
<1> QED BY <1>1, <1>2, <1>5, RefinesEnd, NextCases DEF Once!Next

\* The queue, the store, the retries and the restarts implement the promise of
\* CommandOnce: nothing that is over starts again, and a message is started at
\* most once per plugin, in the instance it was addressed to.
THEOREM ServiceKeepsThePromise == Spec => KeepsThePromise
<1>1. Init => Once!Init
  BY RefinesInit
<1>2. Inv /\ [Next]_vars => [Once!Next]_(Once!vars)
  BY RefinesNext
<1> QED BY <1>1, <1>2, Invariance, PTL DEF Spec, KeepsThePromise, Once!Spec

-----------------------------------------------------------------------------
(* No record without its job.                                              *)

LEMMA StrandedNext == Inv /\ NoStrandedRecord /\ [Next]_vars => NoStrandedRecord'
<1> SUFFICES ASSUME Inv, NoStrandedRecord, [Next]_vars PROVE NoStrandedRecord'
  OBVIOUS
<1>1. ASSUME NEW r \in Requests, NEW m \in Messages, Deliver(r, m) PROVE NoStrandedRecord'
  <2>1. UNCHANGED <<store, queue, worker, settled>>
    BY <1>1 DEF Deliver, service
  <2>2. request[r].pc = "idle" /\ request'[r].pc = "waiting"
        /\ \A q \in Requests : q # r => request'[q] = request[q]
    BY <1>1, DeliverEffect DEF Deliver, Inv
  <2>3. InFlight' = InFlight
    BY <2>2 DEF InFlight, FreshRequests
  <2> QED BY <2>1, <2>3 DEF NoStrandedRecord, Live, Working
<1>2. ASSUME NEW r \in Requests, Admission(r) PROVE NoStrandedRecord'
  <2>1. CASE Admit(r) /\ request[r].pc = "fresh"
    <3>1. settled' = settled /\ store' = store /\ Live' = Live \cup {request[r].m} /\ Ends(r)
      BY <2>1, EnqueueEffect DEF Inv, Admit
    <3>2. InFlight' = InFlight \ {request[r].m}
      BY <2>1, <3>1, EndRecords DEF FreshPC
    <3> QED BY <3>1, <3>2 DEF NoStrandedRecord
  <2>2. CASE Undo(r)
    <3>1. InFlight' = InFlight \ {request[r].m}
      BY <2>2, UndoEffect, EndRecords DEF Inv, FreshPC
    <3>2. Live' = Live
      BY <1>2, <2>2, UndoEffect, AdmissionJobs DEF Inv, FreshPC
    <3> QED BY <2>2, <3>1, <3>2 DEF Undo, NoStrandedRecord
  <2>3. CASE ~Undo(r) /\ ~(Admit(r) /\ request[r].pc = "fresh")
    <3>1. Live' = Live
      BY <1>2, <2>3, AdmissionJobs DEF Inv
    <3>2. settled' = settled
      BY <1>2, <2>3 DEF Admission, Submit, Look, Found, Claim, Admit, Reject
    <3>3. (store \ InFlight)' = store \ InFlight
      BY <1>2, <2>3, KeepsRecords, ClaimRecords DEF Admission
    <3> QED BY <3>1, <3>2, <3>3 DEF NoStrandedRecord
  <2> QED BY <2>1, <2>2, <2>3
<1>3. CASE Elsewhere \/ UNCHANGED vars
  <2>1. store' = store /\ InFlight' = InFlight
    BY <1>3, ElsewhereEffect DEF InFlight, FreshRequests
  <2>2. Live \subseteq Live' \cup settled' /\ settled \subseteq settled'
    <3>1. CASE Take
      <4>1. Range(queue) \subseteq Range(queue') \cup {Head(queue)}
        BY <3>1, HeadTail DEF Take, Inv, TypeOK
      <4>2. worker.pc = "idle"
        BY <3>1 DEF Take
      <4>3. Head(queue) \in Working' \cup settled'
        BY <3>1 DEF Take, Working
      <4> QED BY <3>1, <4>1, <4>2, <4>3 DEF Take, Live, Working
    <3>2. CASE Stop
      BY <3>2 DEF Stop, Live, Working
    <3>3. CASE Done
      BY <3>3 DEF Done, Live, Working
    <3>4. CASE Finish
      <4>1. worker'.pc = "busy" /\ worker'.m = worker.m
        BY <3>4 DEF Finish, AfterCallback, Inv, TypeOK
      <4> QED BY <3>4, <4>1 DEF Finish, Live, Working
    <3>5. CASE \E p \in Plugins : Start(p)
      <4>1. worker'.pc \in {"busy", "running"} /\ worker'.m = worker.m
        BY <3>5 DEF Start, Inv, TypeOK
      <4> QED BY <3>5, <4>1 DEF Start, Live, Working
    <3>6. CASE UNCHANGED <<queue, worker, settled>>
      BY <3>6 DEF Live, Working
    <3> QED
      BY <1>3, <3>1, <3>2, <3>3, <3>4, <3>5, <3>6
         DEF Elsewhere, Disconnect, Load, Unload, Link, vars, service, history
  <2> QED BY <2>1, <2>2 DEF NoStrandedRecord
<1>4. CASE Restart
  BY <1>4 DEF Restart, NoStrandedRecord, InFlight, FreshRequests
<1>5. CASE Crash
  BY <1>5 DEF Crash, NoStrandedRecord
<1> QED BY <1>1, <1>2, <1>3, <1>4, <1>5, NextCases

\* Every record of the de-duplication store belongs to an admission under way,
\* to a job, or to a message that is done with: neither a disconnect nor a
\* refused retry leaves one behind (_admit, _submit).
THEOREM RecordsHaveTheirJob == Spec => []NoStrandedRecord
<1>1. Init => NoStrandedRecord
  BY DEF Init, NoStrandedRecord
<1> QED BY <1>1, StrandedNext, Invariance, PTL DEF Spec
=============================================================================
