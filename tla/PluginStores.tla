---------------------------- MODULE PluginStores ----------------------------
(***************************************************************************)
(* What a plugin instance keeps between events: its sessions (sessions.py: *)
(* SessionManager, one key of it) and its key-value store (storage.py:     *)
(* PluginKV, one key of one database file that an instance and the one     *)
(* that replaced it both open).                                            *)
(*                                                                         *)
(* The registry lock is never held over an await, so what it protects is   *)
(* one step; the lock of a session and the operation lock of a store are   *)
(* held over awaits.  asyncio.Lock passes a lock on in the order of the    *)
(* waiters; here any waiter may be next.                                   *)
(***************************************************************************)
EXTENDS Naturals, FiniteSets

CONSTANTS Handlers,   \* tasks of the instance that use the session or reset it
          Objects,    \* PluginSession objects; a bound on how many are made
          Callers,    \* tasks that use the store, through one instance each
          OldCallers, \* those of the instance that was replaced
          NoObject

ASSUME StoresAssumption ==
    /\ NoObject \notin Objects /\ OldCallers \subseteq Callers
    /\ "nobody" \notin Callers

VARIABLES table,    \* _sessions under the key: an object or NoObject
          expired,  \* the objects whose expires_at has passed
          filled,   \* the objects with data in them
          holder,   \* who holds the lock of each object
          handler,  \* handler[h]: what it does and with which object
          sweep,    \* the candidate of the cleanup task, or what close clears
          made,     \* the objects that were ever created
          sessions  \* "open", "closing" (_closed), "draining", "closed"

VARIABLES caller,   \* caller[c]: where its operation stands
          opLock,   \* opLock[k]: who holds _operation_lock of the instance
          thread,   \* thread[c]: its worker thread
          store     \* store[k]: "open", "closing", "closed"

sessionVars == <<table, expired, filled, holder, handler, sweep, made, sessions>>
kvVars == <<caller, opLock, thread, store>>
storesVars == <<sessionVars, kvVars>>

StoreOf(c) == IF c \in OldCallers THEN "old" ELSE "new"
Stores == {StoreOf(c) : c \in Callers}
MaybeObject == Objects \cup {NoObject}
Nobody == "nobody"   Sweeper == "sweeper"   Drain == "drain"
At(does, o) == [does |-> does, of |-> o]
Resting == At("rests", NoObject)

StoresTypeOK ==
    /\ table \in MaybeObject /\ expired \subseteq Objects /\ filled \subseteq Objects
    /\ holder \in [Objects -> Handlers \cup {Nobody, Sweeper, Drain}]
    /\ handler \in [Handlers -> [does: {"rests", "waits", "uses", "resets"}, of: MaybeObject]]
    /\ sweep \in MaybeObject /\ made \subseteq Objects
    /\ sessions \in {"open", "closing", "draining", "closed"}
    /\ caller \in [Callers -> {"rests", "waits", "runs", "drains", "done", "refused"}]
    /\ opLock \in [Stores -> Callers \cup {Nobody}]
    /\ thread \in [Callers -> {"none", "started", "inside", "ended"}]
    /\ store \in [Stores -> {"open", "closing", "closed"}]

SessionsInit ==
    /\ table = NoObject /\ expired = {} /\ filled = {} /\ made = {}
    /\ holder = [o \in Objects |-> Nobody]
    /\ handler = [h \in Handlers |-> Resting]
    /\ sweep = NoObject /\ sessions = "open"
StoreInit ==
    /\ caller = [c \in Callers |-> "rests"] /\ thread = [c \in Callers |-> "none"]
    /\ opLock = [k \in Stores |-> Nobody] /\ store = [k \in Stores |-> "open"]

-----------------------------------------------------------------------------
(* Sessions.                                                               *)

\* get: an expired session that nobody has locked is forgotten, not cleared.
Outworn == table \in expired /\ holder[table] = Nobody
CurrentSession(o) == IF table = NoObject \/ Outworn THEN o \in Objects \ made ELSE o = table

\* get() and then `async with session.lock`: the caller waits for that object.
GetSession(h, o) ==
    /\ handler[h] = Resting /\ sessions = "open" /\ CurrentSession(o)
    /\ handler' = [handler EXCEPT ![h] = At("waits", o)]
    /\ table' = o /\ made' = made \cup {o} /\ expired' = expired \ {o}
    /\ UNCHANGED <<filled, holder, sweep, sessions>>

Lock(h) == LET o == handler[h].of IN
    /\ handler[h].does = "waits" /\ holder[o] = Nobody
    /\ holder' = [holder EXCEPT ![o] = h]
    /\ handler' = [handler EXCEPT ![h] = At("uses", o)]
    /\ filled' = filled \cup {o}
    /\ UNCHANGED <<table, expired, sweep, made, sessions>>

Unlock(h) == LET o == handler[h].of IN
    /\ handler[h].does = "uses"
    /\ holder' = [holder EXCEPT ![o] = Nobody]
    /\ handler' = [handler EXCEPT ![h] = Resting]
    /\ UNCHANGED <<table, expired, filled, sweep, made, sessions>>

\* reset: looks the session up, waits for its lock and looks again.
AskReset(h) ==
    /\ handler[h] = Resting /\ table # NoObject
    /\ handler' = [handler EXCEPT ![h] = At("resets", table)]
    /\ UNCHANGED <<table, expired, filled, holder, sweep, made, sessions>>

ResetSession(h) == LET o == handler[h].of IN
    /\ handler[h].does = "resets" /\ holder[o] = Nobody
    /\ IF table = o THEN table' = NoObject /\ filled' = filled \ {o}
                    ELSE UNCHANGED <<table, filled>>
    /\ handler' = [handler EXCEPT ![h] = Resting]
    /\ UNCHANGED <<expired, holder, sweep, made, sessions>>

SessionExpires(o) ==
    /\ o \in made \ expired /\ expired' = expired \cup {o}
    /\ UNCHANGED <<table, filled, holder, handler, sweep, made, sessions>>

\* cleanup: the expired session that nobody has locked is the candidate.
Select ==
    /\ sessions = "open" /\ sweep = NoObject /\ Outworn
    /\ sweep' = table
    /\ UNCHANGED <<table, expired, filled, holder, handler, made, sessions>>

\* fault: that it was expired when the sweep began is enough.
StillListed(o) == table = o
\* With the lock of the candidate: is it still the one, and still expired?
StillOutworn(o) == table = o /\ o \in expired
Sweep ==
    /\ sweep # NoObject /\ holder[sweep] = Nobody /\ sessions \in {"open", "closing"}
    /\ IF StillOutworn(sweep)
         THEN table' = NoObject /\ filled' = filled \ {sweep}
         ELSE UNCHANGED <<table, filled>>
    /\ sweep' = NoObject
    /\ UNCHANGED <<expired, holder, handler, made, sessions>>

\* close: the cleanup task ends before the table is emptied.
CloseSessions ==
    /\ sessions = "open" /\ sessions' = "closing"
    /\ UNCHANGED <<table, expired, filled, holder, handler, sweep, made>>

DrainTable ==
    /\ sessions = "closing" /\ sessions' = "draining"
    /\ sweep' = table /\ table' = NoObject
    /\ UNCHANGED <<expired, filled, holder, handler, made>>

\* Each session that was in the table is cleared once its user lets it go.
LetGo == \A o \in {sweep} \ {NoObject} : holder[o] = Nobody
DrainSessions ==
    /\ sessions = "draining" /\ LetGo
    /\ filled' = filled \ {sweep} /\ sweep' = NoObject /\ sessions' = "closed"
    /\ UNCHANGED <<table, expired, holder, handler, made>>

-----------------------------------------------------------------------------
(* The key-value store; the operation of a caller is a set.                *)

OpLockFree(k) == opLock[k] = Nobody
Operate(c) == LET k == StoreOf(c) IN
    /\ caller[c] = "rests"
    /\ caller' = [caller EXCEPT ![c] = IF store[k] = "open" THEN "waits" ELSE "refused"]
    /\ UNCHANGED <<opLock, thread, store>>

\* _run with the operation lock: closed in the meantime, or a thread starts.
StartThread(c) == LET k == StoreOf(c) IN
    /\ caller[c] = "waits" /\ OpLockFree(k)
    /\ IF store[k] = "open"
         THEN /\ caller' = [caller EXCEPT ![c] = "runs"]
              /\ thread' = [thread EXCEPT ![c] = "started"]
              /\ opLock' = [opLock EXCEPT ![k] = c]
         ELSE caller' = [caller EXCEPT ![c] = "refused"] /\ UNCHANGED <<thread, opLock>>
    /\ UNCHANGED store

\* guarded(): the lock of the database is one for all instances of its file.
DatabaseFree == \A c \in Callers : thread[c] # "inside"
EnterDatabase(c) ==
    /\ thread[c] = "started" /\ DatabaseFree
    /\ thread' = [thread EXCEPT ![c] = "inside"]
    /\ UNCHANGED <<caller, opLock, store>>

CommitWrite(c) ==
    /\ thread[c] = "inside"
    /\ thread' = [thread EXCEPT ![c] = "ended"]
    /\ UNCHANGED <<caller, opLock, store>>

\* The caller is cancelled: it waits on for its thread, with the lock.
Cancelled(c) == caller' = [caller EXCEPT ![c] = "drains"] /\ UNCHANGED opLock
CancelCaller(c) ==
    /\ caller[c] = "runs" /\ Cancelled(c)
    /\ UNCHANGED <<thread, store>>

Return(c) ==
    /\ caller[c] \in {"runs", "drains"} /\ thread[c] = "ended"
    /\ caller' = [caller EXCEPT ![c] = "done"]
    /\ opLock' = [opLock EXCEPT ![StoreOf(c)] = Nobody]
    /\ UNCHANGED <<thread, store>>

CloseStore(k) ==
    /\ store[k] = "open" /\ store' = [store EXCEPT ![k] = "closing"]
    /\ UNCHANGED <<caller, opLock, thread>>

StoreDrained(k) ==
    /\ store[k] = "closing" /\ OpLockFree(k)
    /\ store' = [store EXCEPT ![k] = "closed"]
    /\ UNCHANGED <<caller, opLock, thread>>

-----------------------------------------------------------------------------
StoresInit == SessionsInit /\ StoreInit
SessionsNext ==
    \/ \E h \in Handlers : \/ \E o \in Objects : GetSession(h, o)
                           \/ Lock(h) \/ Unlock(h) \/ AskReset(h) \/ ResetSession(h)
    \/ \E o \in Objects : SessionExpires(o)
    \/ Select \/ Sweep \/ CloseSessions \/ DrainTable \/ DrainSessions
StoreNext ==
    \/ \E c \in Callers : \/ Operate(c) \/ StartThread(c) \/ EnterDatabase(c)
                          \/ CommitWrite(c) \/ CancelCaller(c) \/ Return(c)
    \/ \E k \in Stores : CloseStore(k) \/ StoreDrained(k)
StoresNext == \/ SessionsNext /\ UNCHANGED kvVars
              \/ StoreNext /\ UNCHANGED sessionVars
StoresSpec == StoresInit /\ [][StoresNext]_storesVars

-----------------------------------------------------------------------------
\* Data of a session goes away only when it was reset, when its time is over
\* or when the instance closes: a session renewed or replaced while the
\* cleanup waited for its lock is left alone, and nobody is working on it.
DataIsKept == \A o \in filled \ filled' :
    /\ holder[o] = Nobody
    /\ \/ o \in expired \/ sessions = "draining"
       \/ \E h \in Handlers : handler[h] = At("resets", o) /\ handler'[h] = Resting

\* A session that was not reset and has not expired stays the one that get
\* returns for its key, until the instance closes.
SameSession == table # NoObject /\ table' # table /\ table \notin expired =>
    \/ sessions # "open"
    \/ \E h \in Handlers : handler[h] = At("resets", table) /\ handler'[h] = Resting

\* A cancelled caller leaves no thread behind: while one runs, its operation
\* lock is held for it and close() of its instance has not returned.
NoOrphanThread == \A c \in Callers : thread[c] \in {"started", "inside"} =>
    opLock[StoreOf(c)] = c /\ store[StoreOf(c)] # "closed"

\* What a plugin keeps is taken from nobody who uses it, neither by the cleanup
\* nor by a close that overtakes the user.
StoresAreKept == [][DataIsKept /\ SameSession /\ NoOrphanThread' /\ StoresTypeOK']_storesVars
=============================================================================
