--------------------------- MODULE WeComCommands ---------------------------
(***************************************************************************)
(* wecom_commands.py: the messages of authenticated WeCom members, their   *)
(* admission (one lock, a durable de-duplication record written in a       *)
(* thread, a second permission check, a bounded queue), the single worker  *)
(* that hands them to plugins, and the stop, restart or crash of the       *)
(* service at any point in between.                                        *)
(*                                                                         *)
(* A message is the MsgId (or the digest that stands for it); the provider *)
(* delivers it any number of times.  Everything that makes a plugin        *)
(* reachable from the channel (route, member, application, channel switch) *)
(* is the set "linked"; the random token of a handler registration is the  *)
(* number of the registration.  Records live for 24 h (line 120): the      *)
(* model is about retries inside that time.                                *)
(***************************************************************************)
EXTENDS Integers, Sequences, FiniteSets, Functions

CONSTANTS
    Messages,    \* message ids
    Commands,    \* those that are a "run this action" text
    Plugins,
    Target,      \* Target[m]: the plugin the command m names
    Requests,    \* slots of concurrent callback requests
    Capacity,    \* size of the queue (16)
    MaxIssued,   \* bound: registrations of handlers
    MaxLives     \* bound: starts of the service

ASSUME CommandsAssumption == Messages # {} /\ Commands \subseteq Messages
ASSUME TargetAssumption == Target \in [Commands -> Plugins]
ASSUME CapacityAssumption == Capacity \in Nat \ {0}

VARIABLES
    life,      \* number of the running service instance
    closed,    \* its _closed
    store,     \* the received table: survives restarts and crashes
    queue,     \* its _queue
    job,       \* job[m]: the registrations the accepted m is for
    worker,    \* its _worker, the message in hand and the plugins left
    request,   \* request[r]: the admission task of a callback request
    gone,      \* the requests whose client has disconnected
    token,     \* token[p]: the handler registration of p, 0 if none
    issued,    \* registrations so far
    linked,    \* the plugins the channel may reach
    starts,    \* history: callbacks started for each message and plugin
    settled,   \* history: messages the service is done with
    acked      \* history: messages acknowledged to their sender

service == <<life, closed, queue, job, worker>>
handlers == <<token, issued, linked>>
history == <<starts, settled, acked>>
vars == <<life, closed, store, queue, job, worker, request, gone,
          token, issued, linked, starts, settled, acked>>

Want == [Plugins -> Nat]
Nobody == [p \in Plugins |-> 0]
NoMessage == CHOOSE m \in Messages : TRUE
NoWork == [pc |-> "none", m |-> NoMessage, rest |-> {}]
WorkerIdle == [pc |-> "idle", m |-> NoMessage, rest |-> {}]
Idle == [pc |-> "idle", m |-> NoMessage, want |-> Nobody, life |-> 0]
RequestPC == {"idle", "waiting", "claiming", "looking", "found", "fresh", "duplicate", "undoing"}
WorkerPC == {"none", "idle", "busy", "running"}

\* The messages in the worker's hands and in the queue, and those recorded by
\* an admission that has not put them into the queue yet.
Working == IF worker.pc \in {"busy", "running"} THEN {worker.m} ELSE {}
Live == Range(queue) \cup Working
FreshRequests == {r \in Requests : request[r].pc \in {"fresh", "undoing"}}
InFlight == {request[r].m : r \in FreshRequests}

Init ==
    /\ life = 1 /\ closed = FALSE
    /\ store = {} /\ queue = <<>>
    /\ job = [m \in Messages |-> Nobody]
    /\ worker = NoWork
    /\ request = [r \in Requests |-> Idle]
    /\ gone = {}
    /\ token = Nobody /\ issued = 0 /\ linked = Plugins
    /\ starts = [m \in Messages |-> Nobody]
    /\ settled = {} /\ acked = {}

-----------------------------------------------------------------------------
(* The checks that are repeated at every step of a message.                *)

\* _target_allowed, _action_allowed: a message needs the registration it came
\* for, a command any registration of the plugin it names.
TargetAnyInstance(m, want, p) ==                      \* fault: any instance will do
    want[p] # 0 /\ p \in linked /\ token[p] # 0
TargetAllowed(m, want, p) ==
    /\ want[p] # 0
    /\ p \in linked
    /\ token[p] # 0
    /\ m \in Commands \/ token[p] = want[p]

\* _check_job of the service instance that r arrived at.
Closed(r) == closed \/ request[r].life < life
CheckJob(r) ==
    /\ ~Closed(r)
    /\ \E p \in Plugins : TargetAllowed(request[r].m, request[r].want, p)

\* The plugins a delivery is for, as they are registered at that moment.
Targets(m) ==
    [p \in Plugins |->
        IF p \in linked /\ (m \in Commands => Target[m] = p) THEN token[p] ELSE 0]

-----------------------------------------------------------------------------
(* Admission: handle / handle_message and the task _submit they shield.    *)

Answered(r) == request' = [request EXCEPT ![r] = Idle] /\ gone' = gone \ {r}
Refused(r) == Answered(r) /\ UNCHANGED acked
Acknowledged(r) ==
    /\ Answered(r)
    /\ acked' = IF r \in gone THEN acked ELSE acked \cup {request[r].m}
Goes(r, pc) == request' = [request EXCEPT ![r].pc = pc] /\ UNCHANGED <<gone, acked>>

\* A message that no plugin is registered for is answered at once, with no
\* admission; so is every message after close().
Deliver(r, m) ==
    /\ request[r].pc = "idle"
    /\ ~closed
    /\ Targets(m) # Nobody
    /\ request' = [request EXCEPT
         ![r] = [pc |-> "waiting", m |-> m, want |-> Targets(m), life |-> life]]
    /\ UNCHANGED <<store, gone, acked>>
    /\ UNCHANGED <<service, handlers, starts, settled>>

\* The admission is a task of its own: the client's disconnect cancels the
\* request that waits for it, and nothing else.
DisconnectCancels(r) ==                                \* fault: it reaches the admission
    /\ request[r].pc # "idle" /\ r \notin gone
    /\ request' = [request EXCEPT ![r] = Idle]
    /\ UNCHANGED <<store, gone>>
    /\ UNCHANGED <<service, handlers, history>>
Disconnect(r) ==
    /\ request[r].pc # "idle" /\ r \notin gone
    /\ gone' = gone \cup {r}
    /\ UNCHANGED <<request, store>>
    /\ UNCHANGED <<service, handlers, history>>

NoLock(r) == TRUE                                      \* fault: the lock is forgotten
LockFree(r) ==
    \A q \in Requests :
      request[q].life = request[r].life => request[q].pc \in {"idle", "waiting"}

QueueFull == Len(queue) >= Capacity

\* The lock is entered: a job that is no longer allowed is refused, a full
\* queue is not claimed for.
Submit(r) ==
    /\ request[r].pc = "waiting"
    /\ LockFree(r)
    /\ IF ~CheckJob(r) THEN Refused(r)
       ELSE Goes(r, IF QueueFull THEN "looking" ELSE "claiming")
    /\ UNCHANGED store
    /\ UNCHANGED <<service, handlers, starts, settled>>

\* The thread of _received: a retry of an accepted message may be found; a
\* new message, and a store that cannot be read, are answered with 503.
Look(r) ==
    /\ request[r].pc = "looking"
    /\ \/ request[r].m \in store /\ Goes(r, "found")
       \/ Refused(r)
    /\ UNCHANGED store
    /\ UNCHANGED <<service, handlers, starts, settled>>

Found(r) ==
    /\ request[r].pc = "found"
    /\ IF CheckJob(r) THEN Acknowledged(r) ELSE Refused(r)
    /\ UNCHANGED store
    /\ UNCHANGED <<service, handlers, starts, settled>>

\* The thread of _claim: one transaction, which may fail as a whole.
Claimed(m) == IF m \in store THEN "duplicate" ELSE "fresh"
Claim(r) ==
    /\ request[r].pc = "claiming"
    /\ \/ /\ Goes(r, Claimed(request[r].m))
          /\ store' = store \cup {request[r].m}
       \/ Refused(r) /\ UNCHANGED store
    /\ UNCHANGED <<service, handlers, starts, settled>>

\* The thread is back: the stop and the permissions did not wait for it.  Who
\* inserted the record enqueues the job or takes the record back.
Enqueue(r) ==
    /\ queue' = Append(queue, request[r].m)
    /\ job' = [job EXCEPT ![request[r].m] = request[r].want]
    /\ worker' = IF worker.pc = "none" THEN WorkerIdle ELSE worker

UndoesAll(r) == TRUE                                   \* fault: also a retry's
Undoes(r) == request[r].pc = "fresh"
Admit(r) ==
    /\ request[r].pc \in {"fresh", "duplicate"}
    /\ CheckJob(r)
    /\ IF request[r].pc = "fresh" THEN Enqueue(r) ELSE UNCHANGED <<queue, job, worker>>
    /\ Acknowledged(r)
    /\ UNCHANGED <<life, closed, store>>
    /\ UNCHANGED <<handlers, starts, settled>>

Reject(r) ==
    /\ request[r].pc \in {"fresh", "duplicate"}
    /\ ~CheckJob(r)
    /\ IF Undoes(r) THEN Goes(r, "undoing") ELSE Refused(r)
    /\ UNCHANGED store
    /\ UNCHANGED <<service, handlers, starts, settled>>

\* The thread of _release_claim; when it fails the message stays recorded.
Undo(r) ==
    /\ request[r].pc = "undoing"
    /\ Refused(r)
    /\ \/ store' = store \ {request[r].m} /\ UNCHANGED settled
       \/ UNCHANGED store /\ settled' = settled \cup {request[r].m}
    /\ UNCHANGED <<service, handlers, starts>>

-----------------------------------------------------------------------------
(* The worker: _run and _dispatch_message.                                 *)

JobAllowed(m) == ~closed /\ \E p \in Plugins : TargetAllowed(m, job[m], p)

\* The next job is taken; one that is no longer allowed is dropped.
Take ==
    /\ worker.pc = "idle" /\ ~closed
    /\ queue # <<>>
    /\ queue' = Tail(queue)
    /\ LET m == Head(queue) IN
         IF JobAllowed(m)
         THEN /\ worker' = [pc |-> "busy", m |-> m, rest |-> {p \in Plugins : job[m][p] # 0}]
              /\ UNCHANGED settled
         ELSE worker' = WorkerIdle /\ settled' = settled \cup {m}
    /\ UNCHANGED <<life, closed, store, job, request, gone, starts, acked>>
    /\ UNCHANGED handlers

\* A command is checked when it is taken and looked up when its task begins; a
\* message is checked again for every plugin when the task of that plugin does.
MayStart(m, p) ==
    IF m \in Commands THEN token[p] # 0
    ELSE ~closed /\ TargetAllowed(m, job[m], p)

Start(p) ==
    /\ worker.pc = "busy" /\ p \in worker.rest
    /\ IF MayStart(worker.m, p)
       THEN /\ starts' = [starts EXCEPT ![worker.m][p] = @ + 1]
            /\ worker' = [worker EXCEPT !.pc = "running", !.rest = @ \ {p}]
       ELSE worker' = [worker EXCEPT !.rest = @ \ {p}] /\ UNCHANGED starts
    /\ UNCHANGED <<life, closed, queue, job, store, request, gone, settled, acked>>
    /\ UNCHANGED handlers

\* A callback returns, fails, or cancels the task it runs in, which is not the
\* worker's; sending its result is part of it.
WorkerDies(outcome) ==                                 \* fault: the cancellation reaches it
    IF outcome = "cancelled itself" THEN NoWork ELSE [worker EXCEPT !.pc = "busy"]
AfterCallback(outcome) == [worker EXCEPT !.pc = "busy"]
Finish ==
    /\ worker.pc = "running"
    /\ \E outcome \in {"returned", "failed", "cancelled itself"} :
         worker' = AfterCallback(outcome)
    /\ UNCHANGED <<life, closed, queue, job, store, request, gone, starts, settled, acked>>
    /\ UNCHANGED handlers

\* The job is done with; the loop ends when the service is closed.
Done ==
    /\ worker.pc = "busy" /\ worker.rest = {}
    /\ worker' = IF closed THEN NoWork ELSE WorkerIdle
    /\ settled' = settled \cup {worker.m}
    /\ UNCHANGED <<life, closed, queue, job, store, request, gone, starts, acked>>
    /\ UNCHANGED handlers

-----------------------------------------------------------------------------
(* Plugins come and go, the channel is edited, the service stops.          *)

Load(p) ==
    /\ issued < MaxIssued
    /\ issued' = issued + 1
    /\ token' = [token EXCEPT ![p] = issued + 1]
    /\ UNCHANGED <<store, request, gone, linked>>
    /\ UNCHANGED <<service, history>>

Unload(p) ==
    /\ token[p] # 0
    /\ token' = [token EXCEPT ![p] = 0]
    /\ UNCHANGED <<store, request, gone, issued, linked>>
    /\ UNCHANGED <<service, history>>

Link(p) ==
    /\ linked' = IF p \in linked THEN linked \ {p} ELSE linked \cup {p}
    /\ UNCHANGED <<store, request, gone, token, issued>>
    /\ UNCHANGED <<service, history>>

\* close() up to its first await: the queue is dropped and the worker is
\* cancelled, which a running callback may suppress.
Stop ==
    /\ ~closed
    /\ closed' = TRUE
    /\ queue' = <<>>
    /\ \/ /\ worker' = NoWork
          /\ settled' = settled \cup Live
       \/ /\ worker.pc = "running"
          /\ UNCHANGED worker
          /\ settled' = settled \cup Range(queue)
    /\ UNCHANGED <<life, store, job, request, gone, starts, acked>>
    /\ UNCHANGED handlers

\* A restart from the console: main() builds a new service in the same process.
\* An admission that close() no longer waits for is still there.
Restart ==
    /\ closed /\ life < MaxLives
    /\ life' = life + 1
    /\ closed' = FALSE
    /\ worker' = NoWork
    /\ settled' = settled \cup Live
    /\ token' = Nobody
    /\ UNCHANGED <<store, queue, job, request, gone, issued, linked, starts, acked>>

\* The process dies: only the store survives.
Crash ==
    /\ life < MaxLives
    /\ life' = life + 1
    /\ closed' = FALSE
    /\ queue' = <<>> /\ worker' = NoWork
    /\ request' = [r \in Requests |-> Idle] /\ gone' = {}
    /\ settled' = settled \cup Live \cup InFlight
    /\ token' = Nobody
    /\ UNCHANGED <<store, job, issued, linked, starts, acked>>

-----------------------------------------------------------------------------
Next ==
    \/ \E r \in Requests, m \in Messages : Deliver(r, m)
    \/ \E r \in Requests :
         \/ Disconnect(r) \/ Submit(r) \/ Look(r) \/ Found(r) \/ Claim(r)
         \/ Admit(r) \/ Reject(r) \/ Undo(r)
    \/ Take \/ Finish \/ Done
    \/ \E p \in Plugins : Start(p) \/ Load(p) \/ Unload(p) \/ Link(p)
    \/ Stop \/ Restart \/ Crash

Spec == Init /\ [][Next]_vars

\* asyncio.Lock is handed over in the order of the requests, a thread of the
\* store has a timeout of 0.2 s, a callback one of 120 s and its reply 30 s.
Fairness ==
    /\ \A r \in Requests :
         /\ SF_vars(Submit(r))
         /\ WF_vars(Look(r)) /\ WF_vars(Found(r)) /\ WF_vars(Claim(r))
         /\ WF_vars(Admit(r) \/ Reject(r)) /\ WF_vars(Undo(r))
    /\ WF_vars(Take) /\ WF_vars(\E p \in Plugins : Start(p))
    /\ WF_vars(Finish) /\ WF_vars(Done)
FairSpec == Spec /\ Fairness

-----------------------------------------------------------------------------
(* What has to hold.                                                       *)

\* Every variable keeps its shape and the queue its capacity.
TypeOK ==
    /\ life \in Nat /\ closed \in BOOLEAN
    /\ store \subseteq Messages
    /\ queue \in Seq(Messages) /\ Len(queue) <= Capacity
    /\ job \in [Messages -> Want]
    /\ worker \in [pc : WorkerPC, m : Messages, rest : SUBSET Plugins]
    /\ request \in [Requests -> [pc : RequestPC, m : Messages, want : Want, life : Nat]]
    /\ gone \subseteq Requests
    /\ token \in Want /\ issued \in Nat /\ linked \subseteq Plugins
    /\ starts \in [Messages -> Want]
    /\ settled \subseteq Messages /\ acked \subseteq Messages

\* A message starts at most one callback of a plugin, whatever is retried and
\* whenever the service stops, restarts or crashes (README.md:85).
AtMostOnce == \A m \in Messages, p \in Plugins : starts[m][p] <= 1

\* put_nowait never finds the queue full: an admission that got past the full
\* check still has room when its thread comes back.
ClaimsHaveRoom ==
    \A r \in Requests :
      ~Closed(r) /\ request[r].pc \in {"claiming", "fresh", "duplicate"} => Len(queue) < Capacity

\* A record always stands for something: an admission that still has to enqueue
\* or undo it, a job, or a message that is done with.  A disconnect "cannot
\* strand a committed MsgId without its job" (wecom_commands.py:266).
NoStrandedRecord == store \subseteq InFlight \cup Live \cup settled

\* What was acknowledged stays recorded, so that a retry cannot run it again.
\* This is about one service instance: an admission that outlives close() may
\* take back a record that the next instance acknowledged as a duplicate.
AckedStaysRecorded == life = 1 => acked \subseteq store

\* What the store says a retry may do is true: nothing runs twice, and nothing
\* that was acknowledged can be taken for new.
RecordsAreTrue == TypeOK /\ AtMostOnce /\ AckedStaysRecorded

\* The service keeps the promise of CommandOnce: a recorded message is over
\* unless it is queued, in the worker's hands, or about to be.
Status ==
    [m \in Messages |->
        IF m \in Live THEN "accepted"
        ELSE IF m \in store \ InFlight THEN "over" ELSE "new"]
Once == INSTANCE CommandOnce WITH
    status <- Status, addressed <- job, instance <- token
KeepsThePromise == Once!Spec

\* Every admission is answered: the lock is always passed on.
AdmissionsEnd == \A r \in Requests : request[r].pc # "idle" ~> request[r].pc = "idle"

\* Every accepted message is handed out, dropped for good or lost in a stop:
\* none waits in the queue of a worker that is gone.
JobsEnd == \A m \in Messages : m \in Live ~> m \notin Live

\* Neither the client nor a message that was accepted waits for ever.
EverythingEnds == AdmissionsEnd /\ JobsEnd

=============================================================================
