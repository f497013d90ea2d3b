------------------------------ MODULE Sandbox ------------------------------
(***************************************************************************)
(* Confirmed operations in the separate sandbox: the client of the main    *)
(* system, assistant_sandbox.py, and the broker, sandbox/broker.py, which  *)
(* keeps one container per session.                                        *)
(*                                                                         *)
(* A request goes ticket - claimed - sent - over at the client, and        *)
(* coming - queued - running - ending - over at the broker.  A request, an *)
(* answer, a broken connection and the DELETE of a session may each arrive *)
(* late or never: the client waits for each of them only so long.          *)
(***************************************************************************)
EXTENDS Naturals, FiniteSets

CONSTANTS Requests, BoxSessions,
          Lines,      \* the client's slots
          Room,       \* MAX_SESSIONS of the broker
          Boxes,      \* bound of the containers made
          Saves       \* bound of the changes of the configuration

ASSUME SandboxAssumption ==
    {Lines, Room, Boxes} \subseteq Nat \ {0} /\ Saves \in Nat /\ IsFiniteSet(BoxSessions)

VARIABLES revision,   \* of the saved configuration
          enabled,    \* execution is switched on
          session,    \* of each request
          stage,      \* of each request at the client
          askedRevision,      \* the revision each ticket was confirmed under
          work,       \* of each request at the broker
          box,        \* the container each request was given
          table,      \* the broker's sessions
          state,      \* of each container
          ran,        \* how often each request was executed
          spoilt,     \* containers in which an operation ended unclearly
          deletes     \* sessions with a DELETE on its way

client == <<revision, enabled, session, stage, askedRevision>>
containers == <<box, table, state, ran, spoilt>>
broker == <<work, containers, deletes>>
sandboxVars == <<client, broker>>

Bx == 1..Boxes
Stages == {"none", "ticket", "claimed", "sent", "cleaning", "over"}
SandboxTypeOK ==
    /\ revision \in 0..Saves /\ enabled \in BOOLEAN
    /\ session \in [Requests -> BoxSessions] /\ stage \in [Requests -> Stages] /\ askedRevision \in [Requests -> 0..Saves]
    /\ work \in [Requests -> {"none", "coming", "queued", "running", "done", "ending", "over"}]
    /\ box \in [Requests -> 0..Boxes] /\ table \in [BoxSessions -> 0..Boxes]
    /\ state \in [Bx -> {"unmade", "new", "ready", "broken", "gone"}]
    /\ ran \in [Requests -> 0..2] /\ spoilt \subseteq Bx /\ deletes \subseteq BoxSessions

SandboxInit ==
    /\ revision = 0 /\ enabled = TRUE /\ session \in [Requests -> BoxSessions]
    /\ stage = [q \in Requests |-> "none"] /\ askedRevision = [q \in Requests |-> 0]
    /\ work = [q \in Requests |-> "none"] /\ box = [q \in Requests |-> 0]
    /\ table = [s \in BoxSessions |-> 0] /\ state = [i \in Bx |-> "unmade"]
    /\ ran = [q \in Requests |-> 0] /\ spoilt = {} /\ deletes = {}

-----------------------------------------------------------------------------
(* The client.                                                             *)

To(q, there) == stage' = [stage EXCEPT ![q] = there]
\* prepare; the administrator confirms the ticket, which is good for a while.
Prepare(q) ==
    /\ stage[q] = "none" /\ enabled
    /\ To(q, "ticket") /\ askedRevision' = [askedRevision EXCEPT ![q] = revision]
    /\ UNCHANGED <<revision, enabled, session, broker>>
\* execute: the ticket is used up before anything is waited for.
ClaimTicket(q) ==
    /\ stage[q] = "ticket" /\ To(q, "claimed")
    /\ UNCHANGED <<revision, enabled, session, askedRevision, broker>>
TicketExpires(q) ==
    /\ stage[q] \in {"ticket", "claimed"} /\ To(q, "over")
    /\ UNCHANGED <<revision, enabled, session, askedRevision, broker>>

Busy == {q \in Requests : stage[q] \in {"sent", "cleaning"}}
\* The lock of the session and a slot, which a request keeps until the session
\* is deleted if its result is unknown.
\* fault: the deletion does not keep the session.
LetGo(q) == \A p \in Requests : stage[p] = "sent" => session[p] # session[q]
LineFree(q) == \A p \in Busy : session[p] # session[q]
Guard(q) == enabled /\ askedRevision[q] = revision
SendRequest(q) ==
    /\ stage[q] = "claimed" /\ LineFree(q) /\ Cardinality(Busy) < Lines
    /\ To(q, IF Guard(q) THEN "sent" ELSE "over")
    /\ work' = [work EXCEPT ![q] = IF Guard(q) THEN "coming" ELSE @]
    /\ UNCHANGED <<revision, enabled, session, askedRevision, containers, deletes>>
\* The answer arrives, and the configuration is still the confirmed one.
ReceiveAnswer(q) ==
    /\ stage[q] = "sent" /\ work[q] = "done"
    /\ To(q, IF Guard(q) THEN "over" ELSE "cleaning")
    /\ UNCHANGED <<revision, enabled, session, askedRevision, broker>>
\* An error or no answer in time, a cancelled run, close_session and close.
GiveUpRequest(q) ==
    /\ stage[q] = "sent"
    /\ To(q, "cleaning")
    /\ UNCHANGED <<revision, enabled, session, askedRevision, broker>>
\* _finish_delete waits a few seconds for the DELETE, whose failure is as good
\* as its success: the session and the slot are free either way.
FinishDelete(q) ==
    /\ stage[q] = "cleaning" /\ To(q, "over")
    /\ deletes' = deletes \cup {session[q]}
    /\ UNCHANGED <<revision, enabled, session, askedRevision, work, containers>>
\* close_session and save_config delete a session that nothing is using.
CloseKnown(s) ==
    /\ \A q \in Busy : session[q] # s
    /\ \E q \in Requests : session[q] = s /\ work[q] # "none"
    /\ deletes' = deletes \cup {s}
    /\ UNCHANGED <<client, work, containers>>
\* save_config forgets every ticket and cancels what is under way.
SaveSandbox(on) ==
    /\ revision < Saves
    /\ revision' = revision + 1 /\ enabled' = on
    /\ stage' = [q \in Requests |-> CASE stage[q] = "ticket" -> "over" [] stage[q] = "sent" -> "cleaning" [] OTHER -> stage[q]]
    /\ UNCHANGED <<session, askedRevision, broker>>

-----------------------------------------------------------------------------
(* The broker.                                                             *)

Does(q, there) == work' = [work EXCEPT ![q] = there]
InUse == {s \in BoxSessions : table[s] # 0}
Fresh == CHOOSE i \in Bx : state[i] = "unmade" /\ \A j \in Bx : j < i => state[j] # "unmade"
\* claim: an identifier is taken once, a broken session takes nobody.  The
\* client may have given up meanwhile.
Unseen(q) == work[q] = "coming"
ClaimBox(q) ==
    LET s == session[q] IN
    /\ Unseen(q)
    /\ \/ /\ table[s] # 0 /\ state[table[s]] # "broken"
          /\ Does(q, "queued") /\ box' = [box EXCEPT ![q] = table[s]]
          /\ UNCHANGED <<table, state>>
       \/ /\ table[s] = 0 /\ Cardinality(InUse) < Room /\ \E i \in Bx : state[i] = "unmade"
          /\ Does(q, "queued") /\ box' = [box EXCEPT ![q] = Fresh]
          /\ table' = [table EXCEPT ![s] = Fresh] /\ state' = [state EXCEPT ![Fresh] = "new"]
       \/ Does(q, "over") /\ UNCHANGED <<box, table, state>>
    /\ UNCHANGED <<ran, spoilt, deletes, client>>

Locked(i) == \E q \in Requests : work[q] = "running" /\ box[q] = i
StillThere(q) == table[session[q]] = box[q] /\ state[box[q]] # "broken"
\* With the lock of the session; the first operation starts the container.
Run(q) ==
    /\ work[q] = "queued" /\ ~Locked(box[q])
    /\ IF StillThere(q)
       THEN /\ Does(q, "running")
            /\ ran' = [ran EXCEPT ![q] = @ + 1]
            /\ state' = [state EXCEPT ![box[q]] = "ready"]
       ELSE Does(q, "ending") /\ UNCHANGED <<ran, state>>
    /\ UNCHANGED <<box, table, spoilt, deletes, client>>
Finished(q) ==
    /\ work[q] = "running" /\ Does(q, "done")
    /\ UNCHANGED <<containers, deletes, client>>
\* A failed start, a timeout, also of the wait for the lock, a process left
\* behind, an oversized result; or the client hung up.  The lock is released
\* before the session is condemned.
Unclear(q) ==
    /\ work[q] = "running" \/ (work[q] = "queued" /\ (stage[q] # "sent" \/ Locked(box[q])))
    /\ Does(q, "ending")
    /\ spoilt' = IF work[q] = "running" THEN spoilt \cup {box[q]} ELSE spoilt
    /\ UNCHANGED <<box, table, state, ran, deletes, client>>
Condemned(i) == [state EXCEPT ![i] = "broken"]
Condemn(q) ==
    /\ work[q] = "ending" /\ Does(q, "over")
    /\ state' = IF state[box[q]] = "gone" THEN state ELSE Condemned(box[q])
    /\ UNCHANGED <<box, table, ran, spoilt, deletes, client>>
\* destroy for an idle session, or by DELETE: what is active is cancelled.
Strike(s) ==
    /\ state' = IF table[s] = 0 THEN state ELSE [state EXCEPT ![table[s]] = "broken"]
    /\ work' = [q \in Requests |-> IF work[q] = "running" /\ box[q] = table[s] THEN "over" ELSE work[q]]
    /\ spoilt' = spoilt \cup {box[q] : q \in {p \in Requests : work[p] = "running" /\ box[p] = table[s]}}
Reap(s) ==
    /\ table[s] # 0 /\ ~Locked(table[s]) /\ state[table[s]] = "ready"
    /\ Strike(s)
    /\ UNCHANGED <<box, table, ran, deletes, client>>
DeleteSession(s) ==
    /\ s \in deletes /\ deletes' = deletes \ {s}
    /\ Strike(s)
    /\ UNCHANGED <<box, table, ran, client>>
\* A container whose removal failed stays in the table and counts.  Nobody who
\* still works in it is waited for.
RemoveBox(s) ==
    /\ table[s] # 0 /\ state[table[s]] = "broken"
    /\ state' = [state EXCEPT ![table[s]] = "gone"]
    /\ table' = [table EXCEPT ![s] = 0]
    /\ UNCHANGED <<work, box, ran, spoilt, deletes, client>>
\* The broker restarts: recover removes the containers, what was seen is gone.
BrokerRestarts ==
    /\ \E s \in BoxSessions : table[s] # 0
    /\ table' = [s \in BoxSessions |-> 0]
    /\ state' = [i \in Bx |-> IF state[i] = "unmade" THEN "unmade" ELSE "gone"]
    /\ work' = [q \in Requests |-> IF work[q] \in {"none", "coming"} THEN work[q] ELSE "over"]
    /\ UNCHANGED <<box, ran, spoilt, deletes, client>>

SandboxNext ==
    \/ \E q \in Requests :
        \/ Prepare(q) \/ ClaimTicket(q) \/ TicketExpires(q) \/ SendRequest(q) \/ ReceiveAnswer(q) \/ GiveUpRequest(q)
        \/ ClaimBox(q) \/ Run(q) \/ Finished(q) \/ Unclear(q) \/ Condemn(q) \/ FinishDelete(q)
    \/ \E s \in BoxSessions : CloseKnown(s) \/ DeleteSession(s) \/ Reap(s) \/ RemoveBox(s)
    \/ \E on \in BOOLEAN : SaveSandbox(on)
    \/ BrokerRestarts
SandboxSpec == SandboxInit /\ [][SandboxNext]_sandboxVars

-----------------------------------------------------------------------------
(* Properties.                                                             *)

\* A confirmed operation is sent only under the configuration it was confirmed
\* for, however long it waited, and is executed at most once.
SentAsConfirmed ==
    \A q \in Requests :
        /\ stage[q] # "sent" /\ stage'[q] = "sent" => enabled /\ askedRevision[q] = revision
        /\ ran'[q] # ran[q] => ran[q] = 0

\* No operation begins in a container in which one ended unclearly - with a
\* process left behind, cancelled or out of time.  The exception is what the
\* broker leaves open between the release of the lock and the condemnation, and
\* it takes two requests of a session that the broker has at once: the client
\* has given up on one of them, and its DELETE was too late or is lost.
GivenUp(p) == stage[p] = "over"
NotYetCondemned(p, q) == work[p] = "ending" /\ box[p] = box[q] /\ (GivenUp(p) \/ GivenUp(q))
CleanContainer ==
    \A q \in Requests : ran'[q] # ran[q] =>
        box[q] \notin spoilt \/ \E p \in Requests \ {q} : NotYetCondemned(p, q)

\* The broker has no more containers than its room, condemned ones included.
WithinRoom ==
    /\ Cardinality(InUse) <= Room
    /\ {i \in Bx : state[i] \in {"new", "ready", "broken"}} \subseteq {table[s] : s \in BoxSessions}

\* An operation is executed as it was confirmed, once, in a container that
\* is not known to be spoilt and that the broker still counts.
ExecutedAsConfirmed ==
    [][SentAsConfirmed /\ CleanContainer /\ WithinRoom' /\ SandboxTypeOK']_sandboxVars
=============================================================================
