---------------------------- MODULE CloakBrowser ----------------------------
(***************************************************************************)
(* The browser seat of the platform: cloak_proxy.py (_FreeSessionGate, the *)
(* leases of launched sessions, the recovery of a seat that the server     *)
(* still counts), the update of the component in api/settings.py with its  *)
(* maintenance mode, and the change of the licence key.                    *)
(*                                                                         *)
(* A launcher is a task or a thread of a plugin that opens one session at  *)
(* a time.  The gate is one condition variable: every critical section is  *)
(* one step.  Launches without a key pass the gate without a lease and are *)
(* left out.  A restart reloads the platform and its configuration inside  *)
(* the process: the gate, the threads, an update request that is under way *)
(* and its installer outlive it.                                           *)
(***************************************************************************)
EXTENDS Naturals, FiniteSets, Sequences, SequencesExt

CONSTANTS Launchers,   \* threads and tasks that open browser sessions
          Tasks,       \* those of them that are asyncio tasks
          Keys,        \* licence keys
          NoKey,       \* no key, or its use is switched off
          Updaters     \* requests that update the component

ASSUME CloakAssumption == Tasks \subseteq Launchers /\ NoKey \notin Keys

VARIABLES session,   \* session[u]: where the launch or the session of u stands
          lease,     \* lease[u]: key of its lease, whether it was released, and
                     \* whether it is from before the last restart
          queue,     \* _queue, the tickets in their order
          active,    \* _active: the only seat is taken
          maintenance, \* _maintenance
          cooldown,  \* _cooldown_until lies in the future
          recoveryKey,  \* the key of the thread of _recover_remote_seat, if it runs
          recoveryOld,  \* that thread serves a lease from before the last restart
          key,       \* the key in the settings
          update,    \* update[r]: where the request r that updates the component stands
          workers,   \* requests whose pip process or thread is running
          replaced,  \* updates that have written files since they were last imported
          overtaken, \* updates that were under way at the last restart
          saving     \* the key of a settings save that waits for pip

gate == <<queue, active, maintenance, cooldown, recoveryKey, recoveryOld>>
updates == <<update, workers, replaced, overtaken>>
cloakVars == <<session, lease, gate, key, updates, saving>>

SessionPhases == {"idle", "queued", "claimed", "open", "dead", "closing"}
CloakTypeOK ==
    /\ session \in [Launchers -> SessionPhases]
    /\ lease \in [Launchers -> [key: Keys \cup {NoKey}, released: BOOLEAN, old: BOOLEAN]]
    /\ queue \in Seq(Launchers) /\ Len(queue) = Cardinality(ToSet(queue))
    /\ active \in BOOLEAN /\ maintenance \in BOOLEAN /\ cooldown \in BOOLEAN
    /\ recoveryKey \in Keys \cup {NoKey} /\ recoveryOld \in BOOLEAN
    /\ key \in Keys \cup {NoKey}
    /\ update \in [Updaters -> {"none", "checking", "working"}]
    /\ workers \subseteq Updaters /\ replaced \subseteq Updaters /\ overtaken \subseteq Updaters
    /\ saving \subseteq Keys \cup {NoKey}

NoLease == [key |-> NoKey, released |-> TRUE, old |-> FALSE]
CloakInit ==
    /\ session = [u \in Launchers |-> "idle"]
    /\ lease = [u \in Launchers |-> NoLease]
    /\ queue = <<>> /\ active = FALSE /\ maintenance = FALSE
    /\ cooldown = FALSE /\ recoveryKey = NoKey /\ recoveryOld = FALSE
    /\ key \in Keys
    /\ update = [r \in Updaters |-> "none"]
    /\ workers = {} /\ replaced = {} /\ overtaken = {}
    /\ saving = {}

-----------------------------------------------------------------------------
(* The gate.                                                               *)

\* _enqueue: refused during maintenance; without a key there is no lease.
Launch(u) ==
    /\ session[u] = "idle" /\ ~maintenance /\ key # NoKey
    /\ session' = [session EXCEPT ![u] = "queued"]
    /\ queue' = Append(queue, u)
    /\ UNCHANGED <<lease, active, maintenance, cooldown, recoveryKey, recoveryOld, key, updates, saving>>

\* _try_acquire: only the first ticket takes the seat, and not in a cooldown.
MayClaim(u) == queue # <<>> /\ Head(queue) = u /\ ~active /\ ~cooldown
Claim(u) ==
    /\ session[u] = "queued" /\ ~maintenance /\ MayClaim(u)
    /\ session' = [session EXCEPT ![u] = "claimed"]
    /\ lease' = [lease EXCEPT ![u] = [key |-> key, released |-> FALSE, old |-> FALSE]]
    /\ queue' = Tail(queue) /\ active' = TRUE
    /\ UNCHANGED <<maintenance, cooldown, recoveryKey, recoveryOld, key, updates, saving>>

\* The wait of half an hour ends, or the waiting task is cancelled.
Ticket(u) == CHOOSE i \in DOMAIN queue : queue[i] = u
Withdraw(u) ==
    /\ session[u] = "queued"
    /\ session' = [session EXCEPT ![u] = "idle"]
    /\ queue' = RemoveAt(queue, Ticket(u))
    /\ UNCHANGED <<lease, active, maintenance, cooldown, recoveryKey, recoveryOld, key, updates, saving>>

\* fault: the lease does not remember that it was released.
ReleasesAgain(u) == TRUE
\* _SessionLease.release: once; then _FreeSessionGate.release gives up the seat,
\* and nothing more is done with the lease.
Releases(u) == ~lease[u].released
Release(u, abnormal) ==
    /\ lease' = [lease EXCEPT ![u] = NoLease]
    /\ active' = (active /\ ~Releases(u))
    /\ LET suspect == Releases(u) /\ abnormal /\ lease[u].key # NoKey
           recover == suspect /\ recoveryKey = NoKey
       IN  /\ cooldown' = (cooldown \/ suspect)
           /\ recoveryKey' = IF recover THEN lease[u].key ELSE recoveryKey
           /\ recoveryOld' = IF recover THEN lease[u].old ELSE recoveryOld
    /\ UNCHANGED <<queue, maintenance, key, updates, saving>>

\* The launch function fails, or the task is cancelled right after its claim:
\* errors about licences and seats count as abnormal.
FailLaunch(u) ==
    /\ session[u] = "claimed"
    /\ session' = [session EXCEPT ![u] = "idle"]
    /\ \E abnormal \in BOOLEAN : Release(u, abnormal)
CancelLaunch(u) ==
    /\ session[u] = "claimed" /\ u \in Tasks
    /\ session' = [session EXCEPT ![u] = "idle"]
    /\ Release(u, FALSE)

\* The session is open and its lease attached to it; close() ends it.  The
\* browser can also go away by itself, and the plugin closes what is left.
Open(u) ==
    /\ session[u] = "claimed"
    /\ session' = [session EXCEPT ![u] = "open"]
    /\ UNCHANGED <<lease, gate, key, updates, saving>>
CloseSession(u) ==
    /\ session[u] \in {"open", "dead"}
    /\ session' = [session EXCEPT ![u] = "closing"]
    /\ UNCHANGED <<lease, gate, key, updates, saving>>
Closed(u) ==
    /\ session[u] = "closing"
    /\ session' = [session EXCEPT ![u] = "idle"]
    /\ \E fails \in BOOLEAN : Release(u, fails)
Disconnected(u) ==
    /\ session[u] = "open"
    /\ session' = [session EXCEPT ![u] = "dead"]
    /\ Release(u, TRUE)

\* _recover_remote_seat: the server answers that no seat is in use, or the
\* attempts are used up.  The cooldown and the thread end in two steps.
SeatIsFree ==
    /\ recoveryKey # NoKey /\ cooldown
    /\ cooldown' = FALSE
    /\ UNCHANGED <<session, lease, queue, active, maintenance, recoveryKey, recoveryOld,
                   key, updates, saving>>
RecoveryEnds ==
    /\ recoveryKey # NoKey
    /\ recoveryKey' = NoKey /\ recoveryOld' = FALSE
    /\ UNCHANGED <<session, lease, queue, active, maintenance, cooldown, key, updates, saving>>
CooldownEnds ==
    /\ cooldown
    /\ cooldown' = FALSE
    /\ UNCHANGED <<session, lease, queue, active, maintenance, recoveryKey, recoveryOld,
                   key, updates, saving>>

-----------------------------------------------------------------------------
(* The licence key.  A save may wait for pip between its first look at the *)
(* maintenance mode and the change.                                        *)

SaveSettings(k) ==
    /\ saving = {} /\ ~maintenance /\ k # key
    /\ saving' = {k}
    /\ UNCHANGED <<session, lease, gate, key, updates>>
\* update_license: only when no old session, ticket or recovery can use the key.
KeyInUse == active \/ queue # <<>> \/ recoveryKey # NoKey \/ cooldown
Refused == maintenance \/ KeyInUse
CommitSettings(k) ==
    /\ k \in saving
    /\ saving' = {}
    /\ key' = IF Refused THEN key ELSE k
    /\ UNCHANGED <<session, lease, gate, updates>>

-----------------------------------------------------------------------------
(* The update: POST /api/browser/cloakbrowser/update.                      *)

\* begin_maintenance
Idle == ~active /\ queue = <<>>
BeginUpdate(r) ==
    /\ update[r] = "none" /\ ~maintenance /\ Idle
    /\ maintenance' = TRUE
    /\ update' = [update EXCEPT ![r] = "checking"]
    /\ UNCHANGED <<session, lease, queue, active, cooldown, recoveryKey, recoveryOld,
                   key, workers, replaced, overtaken, saving>>

\* After check_cloakbrowser_update pip (manager.ensure) can replace imported
\* files at any time; a kernel download and the cleanup of old kernels follow,
\* each in a thread.
StartWork(r) ==
    /\ update[r] \in {"checking", "working"} /\ r \notin workers
    /\ update' = [update EXCEPT ![r] = "working"]
    /\ workers' = workers \cup {r} /\ replaced' = replaced \cup {r}
    /\ UNCHANGED <<session, lease, gate, key, overtaken, saving>>
WorkerEnds(r) ==
    /\ r \in workers
    /\ workers' = workers \ {r}
    /\ UNCHANGED <<session, lease, gate, key, update, replaced, overtaken, saving>>
\* finish_failed_update: the check fails or the request is cancelled before the
\* installation, which opens the gate, no matter for whom it was closed.
GiveUpUpdate(r) ==
    /\ update[r] = "checking"
    /\ update' = [update EXCEPT ![r] = "none"]
    /\ maintenance' = FALSE
    /\ UNCHANGED <<session, lease, queue, active, cooldown, recoveryKey, recoveryOld,
                   key, workers, replaced, overtaken, saving>>
\* await_cloak_update_operation: whatever ends the request, a cancellation as
\* well, waits for the worker.  Then the event of its own run of the platform
\* asks for a restart; when that run is over, nobody listens.
WorkIsOver(r) == r \notin workers
EndUpdate(r) ==
    /\ update[r] = "working" /\ WorkIsOver(r)
    /\ update' = [update EXCEPT ![r] = "none"]
    /\ UNCHANGED <<session, lease, gate, key, workers, replaced, overtaken, saving>>

\* run_once: reset_cloakbrowser_runtime opens the gate and drops the modules, and
\* the settings are read again (an import may have brought another key).  POST
\* /api/system/restart asks for it at any time, also during an update; a settings
\* save that is still waiting changes an object that is no longer in use.
Restart(k) ==
    /\ maintenance' = FALSE
    /\ replaced' = workers
    /\ overtaken' = {r \in Updaters : update[r] # "none"}
    /\ key' = k
    /\ lease' = [u \in Launchers |-> [lease[u] EXCEPT !.old = ~lease[u].released]]
    /\ recoveryOld' = (recoveryKey # NoKey)
    /\ saving' = {}
    /\ UNCHANGED <<session, queue, active, cooldown, recoveryKey, update, workers>>

-----------------------------------------------------------------------------
LauncherNext(u) ==
    \/ Launch(u) \/ Claim(u) \/ Withdraw(u) \/ FailLaunch(u) \/ CancelLaunch(u)
    \/ Open(u) \/ CloseSession(u) \/ Closed(u) \/ Disconnected(u)
UpdateNext(r) ==
    \/ BeginUpdate(r) \/ StartWork(r) \/ WorkerEnds(r) \/ GiveUpUpdate(r) \/ EndUpdate(r)
CloakNext ==
    \/ \E u \in Launchers : LauncherNext(u)
    \/ SeatIsFree \/ RecoveryEnds \/ CooldownEnds
    \/ \E k \in Keys \cup {NoKey} : SaveSettings(k) \/ CommitSettings(k) \/ Restart(k)
    \/ \E r \in Updaters : UpdateNext(r)
CloakSpec == CloakInit /\ [][CloakNext]_cloakVars

-----------------------------------------------------------------------------
(* Properties.                                                             *)

Holders == {u \in Launchers : ~lease[u].released}
\* The seat is taken exactly while one lease is not released: closing a session
\* that had already lost its browser never gives away the seat of another one,
\* and a restart does not give away the seat of a session that outlives it.
SeatIsAccounted == active = (Holders # {}) /\ \A u, v \in Holders : u = v
\* Sessions, and the recovery of a seat, use the key the settings hold: no save
\* changes it under a session that the server counts for the old one.  Only a
\* restart reads another key under the sessions that outlive it.
KeyIsStable ==
    /\ \A u \in Holders : lease[u].key = key \/ lease[u].old
    /\ recoveryKey # NoKey => recoveryKey = key \/ recoveryOld
\* No session begins or runs while installed files are being replaced or differ
\* from the imported ones (cloak_proxy.py:300).  The exception is a restart that
\* overtakes an update; it lasts until a restart that finds no update under way.
BrowsersMatchFiles == (replaced # {} /\ overtaken = {}) => Holders = {} /\ queue = <<>>

\* What the queue promises every session: its seat, its key and its files.
BrowsersAreSound == CloakTypeOK /\ SeatIsAccounted /\ KeyIsStable /\ BrowsersMatchFiles
=============================================================================
