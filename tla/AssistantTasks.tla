--------------------------- MODULE AssistantTasks ---------------------------
(***************************************************************************)
(* The assistant's reservations: assistant_tasks.py with the part of       *)
(* submit in assistant.py that binds a reservation to its run.  A ticker   *)
(* claims a reservation that is due, keeping its due time, and a           *)
(* transaction then binds the claim to a run or the claim is given back.   *)
(* The administrator pauses, resumes and deletes at any moment; the        *)
(* process may die or be restarted between any two transactions.           *)
(*                                                                         *)
(* Time counts the occurrences of the schedules: 0 .. Horizon.             *)
(***************************************************************************)
EXTENDS Naturals, FiniteSets

CONSTANTS Reservations, Cron,  \* the reservations, and those that repeat
          Horizon, Changes     \* bounds of the time and of the revisions

ASSUME TasksAssumption == Cron \subseteq Reservations /\ Horizon \in Nat /\ Changes \in Nat

VARIABLES time,       \* the last occurrence that has passed
          stored,     \* the documents of kind "task"
          ticker,     \* the ticker: where it stands, its reservation and due time
          running,    \* reservations whose last run is active
          recent,     \* reservations claimed less than five minutes ago
          served,     \* served[t]: due times for which a run was bound
          wanted      \* what the administrator last said of each reservation

taskVars == <<time, stored, ticker, running, recent, served, wanted>>

NoClaim == [pending |-> FALSE, revision |-> 0, due |-> 0]
TasksTypeOK ==
    /\ time \in 0..Horizon
    /\ stored \in [Reservations -> [exists: BOOLEAN, enabled: BOOLEAN, due: 0..Horizon + 1, revision: 0..Changes,
                                    claim: [pending: BOOLEAN, revision: 0..Changes, due: 0..Horizon + 1]]]
    /\ ticker \in [at: {"idle", "seen", "claimed", "refused", "closed"}, task: Reservations, due: 0..Horizon + 1]
    /\ {running, recent} \subseteq SUBSET Reservations
    /\ served \in [Reservations -> SUBSET (0..Horizon + 1)]
    /\ wanted \in [Reservations -> BOOLEAN]

TickerResting(t) == [at |-> "idle", task |-> t, due |-> 0]
TasksInit ==
    /\ time = 0
    /\ stored = [t \in Reservations |-> [exists |-> TRUE, enabled |-> TRUE, due |-> 1, revision |-> 0, claim |-> NoClaim]]
    /\ \E t \in Reservations : ticker = TickerResting(t)
    /\ running = {} /\ recent = {}
    /\ served = [t \in Reservations |-> {}]
    /\ wanted = [t \in Reservations |-> TRUE]

Pass ==
    /\ time < Horizon
    /\ time' = time + 1
    /\ UNCHANGED <<stored, ticker, running, recent, served, wanted>>
ClaimAges(t) ==
    /\ t \in recent
    /\ recent' = recent \ {t}
    /\ UNCHANGED <<time, stored, ticker, running, served, wanted>>
TaskRunEnds(t) ==
    /\ t \in running
    /\ running' = running \ {t}
    /\ UNCHANGED <<time, stored, ticker, recent, served, wanted>>

-----------------------------------------------------------------------------
(* tick.                                                                   *)

\* The list of the tick shows a reservation that is due and may start.
Look(t) ==
    /\ ticker.at = "idle" /\ stored[t].exists
    /\ t \notin running
    /\ stored[t].enabled /\ stored[t].due <= time /\ t \notin recent
    /\ ticker' = [at |-> "seen", task |-> t, due |-> stored[t].due]
    /\ UNCHANGED <<time, stored, running, recent, served, wanted>>

\* Looked at again under the lock, then claimed: the next occurrence of a Cron
\* reservation, or the end of a single one, is stored with the claim.
Claimable(t) ==
    /\ stored[t].exists /\ stored[t].enabled /\ ~stored[t].claim.pending
    /\ stored[t].due = ticker.due
Claim(t) ==
    /\ ticker.at = "seen" /\ ticker.task = t
    /\ IF Claimable(t)
       THEN /\ stored' = [stored EXCEPT
                   ![t].claim = [pending |-> TRUE, revision |-> stored[t].revision, due |-> stored[t].due],
                   ![t].due = IF t \in Cron THEN time + 1 ELSE @,
                   ![t].enabled = t \in Cron]
            /\ recent' = recent \cup {t}
            /\ ticker' = [ticker EXCEPT !.at = "claimed"]
       ELSE ticker' = TickerResting(t) /\ UNCHANGED <<stored, recent>>
    /\ UNCHANGED <<time, running, served, wanted>>

\* fault: the revision is not compared.
FitsAnyRevision(t) == stored[t].exists /\ stored[t].claim.pending
\* submit: the claim is still there and the administrator changed nothing.
Fits(t) == stored[t].exists /\ stored[t].claim.pending /\ stored[t].claim.revision = stored[t].revision
\* The transaction of the run ends the claim.
Bind(t) ==
    /\ ticker.at = "claimed" /\ ticker.task = t /\ Fits(t)
    /\ stored' = [stored EXCEPT ![t].claim = NoClaim]
    /\ running' = running \cup {t}
    /\ served' = [served EXCEPT ![t] = @ \cup {stored[t].claim.due}]
    /\ ticker' = TickerResting(t)
    /\ UNCHANGED <<time, recent, wanted>>
\* Refused: changed, switched off, no place, no AI service, a deleted session.
Refuse(t) ==
    /\ ticker.at = "claimed" /\ ticker.task = t
    /\ ticker' = [ticker EXCEPT !.at = "refused"]
    /\ UNCHANGED <<time, stored, running, recent, served, wanted>>

\* restore_admission: what the administrator changed meanwhile is kept.
GivenBack(t) ==
    IF stored[t].claim.revision # stored[t].revision THEN [stored[t] EXCEPT !.claim = NoClaim]
    ELSE [stored[t] EXCEPT !.enabled = TRUE, !.due = stored[t].claim.due, !.claim = NoClaim]
\* release_admission, then discard_empty_session.
GiveBack(t) ==
    /\ ticker.at = "refused" /\ ticker.task = t
    /\ stored' = IF stored[t].exists /\ stored[t].claim.pending
                 THEN [stored EXCEPT ![t] = GivenBack(t)] ELSE stored
    /\ ticker' = TickerResting(t)
    /\ UNCHANGED <<time, running, recent, served, wanted>>

-----------------------------------------------------------------------------
(* The administrator, the shutdown and the start.                          *)

\* toggle_task: a single reservation whose time has passed stays off.
Toggle(t, on) ==
    /\ stored[t].exists /\ stored[t].revision < Changes
    /\ on /\ t \notin Cron => stored[t].due > time
    /\ stored' = [stored EXCEPT ![t].enabled = on, ![t].revision = @ + 1,
                                ![t].due = IF on /\ t \in Cron THEN time + 1 ELSE @]
    /\ wanted' = [wanted EXCEPT ![t] = on]
    /\ UNCHANGED <<time, ticker, running, recent, served>>
DeleteTask(t) ==
    /\ stored[t].exists
    /\ stored' = [stored EXCEPT ![t].exists = FALSE]
    /\ wanted' = [wanted EXCEPT ![t] = FALSE]
    /\ UNCHANGED <<time, ticker, running, recent, served>>

\* close cancels the ticker where it waits; a claim may stay behind.
CloseTicker ==
    /\ ticker.at # "closed"
    /\ ticker' = [ticker EXCEPT !.at = "closed"]
    /\ UNCHANGED <<time, stored, running, recent, served, wanted>>
\* start after a shutdown or a crash: recover_admissions and interrupt_active.
Recovered(t) == IF stored[t].exists /\ stored[t].claim.pending THEN GivenBack(t) ELSE stored[t]
TasksStart ==
    /\ stored' = [t \in Reservations |-> Recovered(t)]
    /\ recent' = {t \in recent : ~(stored[t].exists /\ stored[t].claim.pending)}
    /\ running' = {}
    /\ ticker' = TickerResting(ticker.task)
    /\ UNCHANGED <<time, served, wanted>>

TasksWork(t) == Look(t) \/ Claim(t) \/ Bind(t) \/ GiveBack(t)
TasksNext ==
    \/ Pass \/ CloseTicker \/ TasksStart
    \/ \E t \in Reservations :
        TasksWork(t) \/ Refuse(t) \/ ClaimAges(t) \/ TaskRunEnds(t) \/ DeleteTask(t) \/ \E on \in BOOLEAN : Toggle(t, on)
TasksSpec == TasksInit /\ [][TasksNext]_taskVars

-----------------------------------------------------------------------------
(* Properties.                                                             *)

\* A due time is served by one run, however the ticker, the shutdown and a
\* crash cut its two transactions; and never after a pause or a deletion.
NotServedTwice ==
    \A t \in Reservations : served'[t] # served[t] =>
        wanted[t] /\ t \notin running /\ stored[t].claim.due \notin served[t]
\* A reservation the administrator wants and has not rescheduled is served,
\* still due or claimed: no due time is dropped by a refusal or a restart.
DueIsKept ==
    \A t \in Reservations : wanted[t] /\ stored[t].revision = 0 =>
        \/ 1 \in served[t]
        \/ stored[t].enabled /\ stored[t].due = 1
        \/ stored[t].claim.pending /\ stored[t].claim.due = 1
\* Exactly one run for every due time: at most one, and none is forgotten.
ServedOnce == [][NotServedTwice /\ DueIsKept' /\ TasksTypeOK']_taskVars
=============================================================================
