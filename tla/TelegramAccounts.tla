-------------------------- MODULE TelegramAccounts --------------------------
(***************************************************************************)
(* One user account of the platform and the clients that are opened on its *)
(* session file: telegram.py and the account endpoints of api/accounts.py. *)
(* The account is started at boot, on the console's request and by its     *)
(* recovery task; a watcher notices that a connection ended; the console   *)
(* disconnects, deletes and logs in; the shutdown closes everything.  Bot  *)
(* accounts take the same paths without a login and are left out.          *)
(*                                                                         *)
(* The sections between two awaits are steps.  A cancelled task has closed *)
(* its client when the canceller goes on, so a cancellation is one step.   *)
(* The profile that a started client fetches under the lock is left out.   *)
(* One request of each kind (connect, take off, begin, complete a login)   *)
(* is under way at a time, and none is given up by its caller.             *)
(***************************************************************************)
EXTENDS Naturals, FiniteSets

CONSTANTS Clients,   \* client objects; a closed one stands for a new one
          NoClient

ASSUME AccountsAssumption == NoClient \notin Clients

VARIABLES halt,       \* "no", "stopping" (_stopping is set), "stopped"
          suppressed, \* the session is in _suppressed_users ("no": it is not), where
                      \* a login or the administrator's removal has put it
          configured, \* ... in settings.user_sessions
          sessionFile, \* the session file exists
          user,       \* users[session]
          link,       \* link[c]: "closed", "connecting", "up", "down", "revoked"
          watched,    \* the client whose disconnection a watcher waits for
          permanent,  \* _permanent_disconnects[session]
          request,    \* a start by boot or console: "idle", "waiting", "starting", "refresh"
          recovery,   \* _recover_account: where it stands and its two clients
          opening,    \* the client that the holder of the connection lock connects
          removal,    \* disconnect_user or delete_user: "none", "offline", "delete"
          entering,   \* begin_user_login waits for the end of the recovery
          login,      \* the login: where it stands and its client
          signing,    \* the client whose sign_in a completion waits for
          finishing,     \* a completion fetches the profile, before it saves the session
          bound,      \* the client that carries the plugins' handlers
          \* History, for the properties.
          settled,    \* the last start or removal left the account to the administrator
          crossed,    \* a start connected a client while a login was under way
          displaced,  \* clients that users[session] has lost to another one
          missed      \* the user came back after its watcher had ended, or its recovery
                      \* ended while the login was being saved

starts == <<request, recovery, opening>>
logins == <<entering, login, signing, finishing>>
history == <<settled, crossed, displaced, missed>>
accountVars == <<halt, suppressed, configured, sessionFile, user, link, watched, permanent,
                 starts, removal, logins, bound, history>>

Maybe == Clients \cup {NoClient}
AccountsTypeOK ==
    /\ halt \in {"no", "stopping", "stopped"} /\ link \in [Clients -> {"closed", "connecting", "up", "down", "revoked"}]
    /\ suppressed \in {"no", "login", "removal"}
    /\ {configured, sessionFile, entering, finishing, settled, crossed, missed} \subseteq BOOLEAN
    /\ {user, watched, permanent, opening, signing, bound} \subseteq Maybe
    /\ request \in {"idle", "waiting", "starting", "refresh"}
    /\ recovery \in [at: {"off", "asleep", "waiting", "starting", "refresh"}, was: Maybe, new: Maybe]
    /\ removal \in {"none", "offline", "delete"}
    /\ login \in [at: {"none", "sending", "sent"}, client: Maybe]
    /\ displaced \subseteq Clients

NoRecovery == [at |-> "off", was |-> NoClient, new |-> NoClient]
NoLogin == [at |-> "none", client |-> NoClient]
AccountsInit ==
    /\ halt = "no" /\ suppressed = "no"
    /\ configured = TRUE /\ sessionFile \in BOOLEAN
    /\ user = NoClient /\ link = [c \in Clients |-> "closed"]
    /\ watched = NoClient /\ permanent = NoClient
    /\ request = "waiting" /\ recovery = NoRecovery /\ opening = NoClient
    /\ removal = "none" /\ entering = FALSE /\ login = NoLogin
    /\ signing = NoClient /\ finishing = FALSE /\ bound = NoClient
    /\ settled = FALSE /\ crossed = FALSE /\ displaced = {} /\ missed = FALSE

Connected(c) == c # NoClient /\ link[c] = "up"
CloseAll(cs) == [c \in Clients |-> IF c \in cs THEN "closed" ELSE link[c]]
Suppressed == suppressed # "no"
New(c) == link[c] = "closed" /\ c \notin {user, signing, bound, recovery.was, recovery.new}
LockFree == opening = NoClient
Stops == halt # "no"

\* _schedule_recovery, when an attempt failed for now or a connection ended.
Rescheduled ==
    IF Stops \/ Suppressed \/ recovery.at # "off" THEN recovery
    ELSE [at |-> "asleep", was |-> user, new |-> NoClient]
\* _cancel_recovery: the task closes the client it is connecting.
HeldByRecovery == IF recovery.at = "starting" THEN {opening} ELSE {}

-----------------------------------------------------------------------------
(* _start_user, for boot and console (retry) and for the recovery.         *)

Starts(by, at) == IF by = "request" THEN request = at ELSE recovery.at = at
\* None: nothing more happens by itself.
Unwanted(by) ==
    IF by = "request" THEN request' = "idle" /\ UNCHANGED recovery
    ELSE recovery' = NoRecovery /\ UNCHANGED request
\* True: the endpoint, or the recovery under its lock, rebinds the plugins; a
\* client that is still the one that was lost has kept its handlers.
Online(by, c) ==
    IF by = "request" THEN request' = "refresh" /\ UNCHANGED recovery
    ELSE /\ recovery' = IF c = recovery.was THEN NoRecovery
                        ELSE [recovery EXCEPT !.at = "refresh", !.new = c]
         /\ UNCHANGED request

StillOnline(by) ==
    /\ Starts(by, "waiting") /\ LockFree /\ ~Stops /\ ~Suppressed /\ Connected(user)
    /\ watched' = user
    /\ permanent' = NoClient
    /\ Online(by, user)
    /\ missed' = FALSE
    /\ UNCHANGED <<halt, suppressed, configured, sessionFile, user, link, opening, removal, logins, bound,
                   settled, crossed, displaced>>
StartRefused(by) ==
    /\ Starts(by, "waiting") /\ LockFree
    /\ Stops \/ Suppressed \/ (~Connected(user) /\ ~sessionFile)
    /\ IF Stops \/ Suppressed THEN UNCHANGED <<user, link, watched, permanent, settled>>
       ELSE /\ user' = NoClient /\ link' = CloseAll({user})
            /\ watched' = NoClient /\ permanent' = NoClient /\ settled' = TRUE
    /\ Unwanted(by)
    /\ UNCHANGED <<halt, suppressed, configured, sessionFile, opening, removal, logins, bound,
                   crossed, displaced, missed>>
StartOpens(by) ==
    /\ Starts(by, "waiting") /\ LockFree /\ ~Stops /\ ~Suppressed
    /\ ~Connected(user) /\ sessionFile
    /\ \E c \in Clients :
        /\ New(c)
        /\ link' = [CloseAll({user}) EXCEPT ![c] = "connecting"]
        /\ opening' = c
    /\ user' = NoClient
    /\ watched' = IF watched = user THEN NoClient ELSE watched
    /\ permanent' = NoClient
    /\ IF by = "request" THEN request' = "starting" /\ UNCHANGED recovery
       ELSE recovery' = [recovery EXCEPT !.at = "starting"] /\ UNCHANGED request
    /\ crossed' = (crossed \/ login.at # "none")
    /\ UNCHANGED <<halt, suppressed, configured, sessionFile, removal, logins, bound,
                   settled, displaced, missed>>

\* users[session] = client, with a watcher: a client that is there already, of a
\* login or a start that overlapped, is neither closed nor looked at any more.
TakesOver(c) ==
    /\ user' = c
    /\ displaced' = displaced \cup ({user} \ {NoClient})
    /\ settled' = FALSE /\ missed' = FALSE
\* Looked at again after the connection stands.
StillWanted == ~Stops /\ ~Suppressed
StartSucceeds(by) ==
    /\ Starts(by, "starting")
    /\ IF StillWanted
       THEN /\ TakesOver(opening)
            /\ watched' = opening /\ permanent' = NoClient
            /\ link' = [link EXCEPT ![opening] = "up"]
            /\ Online(by, opening)
       ELSE /\ link' = CloseAll({opening})
            /\ Unwanted(by)
            /\ UNCHANGED <<user, watched, permanent, settled, displaced, missed>>
    /\ opening' = NoClient
    /\ UNCHANGED <<halt, suppressed, configured, sessionFile, removal, logins, bound, crossed>>
\* Not authorised, or an error that no retry mends.
StartDenied(by) ==
    /\ Starts(by, "starting")
    /\ link' = CloseAll({opening}) /\ opening' = NoClient
    /\ settled' = TRUE
    /\ Unwanted(by)
    /\ UNCHANGED <<halt, suppressed, configured, sessionFile, user, watched, permanent, removal, logins, bound,
                   crossed, displaced, missed>>
\* _connection_failed with an error that passes.
StartFails(by) ==
    /\ Starts(by, "starting")
    /\ link' = CloseAll({opening}) /\ opening' = NoClient
    /\ IF by = "request" THEN request' = "idle" /\ recovery' = Rescheduled
       ELSE recovery' = [recovery EXCEPT !.at = "asleep"] /\ UNCHANGED request
    /\ UNCHANGED <<halt, suppressed, configured, sessionFile, user, watched, permanent, removal, logins, bound, history>>

\* refresh_telegram_plugins at the end of a request.
Bindings == IF Connected(user) THEN user ELSE NoClient
RequestRefreshes ==
    /\ request = "refresh"
    /\ request' = "idle" /\ bound' = IF Connected(user) THEN user ELSE bound
    /\ UNCHANGED <<halt, suppressed, configured, sessionFile, user, link, watched, permanent,
                   recovery, opening, removal, logins, history>>

-----------------------------------------------------------------------------
(* The connection and its watcher; the recovery task.                      *)

\* The connection ends, for a while or because its session was revoked; the
\* client may come back by itself after a switch of the data centre.
LinkEnds(c) ==
    /\ link[c] = "up"
    /\ \E how \in {"down", "revoked"} : link' = [link EXCEPT ![c] = how]
    /\ UNCHANGED <<halt, suppressed, configured, sessionFile, user, watched, permanent,
                   starts, removal, logins, bound, history>>
LinkReturns(c) ==
    /\ link[c] = "down"
    /\ link' = [link EXCEPT ![c] = "up"]
    /\ missed' = (missed \/ (c = user /\ c # watched))
    /\ UNCHANGED <<halt, suppressed, configured, sessionFile, user, watched, permanent,
                   starts, removal, logins, bound, settled, crossed, displaced>>

\* _watch_disconnect.
WatcherWakes ==
    /\ watched # NoClient /\ ~Connected(watched)
    /\ watched' = NoClient
    /\ IF Stops \/ user # watched \/ Suppressed THEN UNCHANGED <<permanent, recovery>>
       ELSE IF link[watched] = "revoked" THEN permanent' = watched /\ UNCHANGED recovery
       ELSE recovery' = Rescheduled /\ UNCHANGED permanent
    /\ UNCHANGED <<halt, suppressed, configured, sessionFile, user, link,
                   request, opening, removal, logins, bound, history>>

\* The delay is over.
RecoveryWakes ==
    /\ recovery.at = "asleep"
    /\ recovery' = IF \/ Stops \/ Suppressed \/ ~configured
                      \/ permanent # NoClient /\ permanent = user
                   THEN NoRecovery ELSE [recovery EXCEPT !.at = "waiting"]
    /\ missed' = (missed \/ (~configured /\ finishing))
    /\ UNCHANGED <<halt, suppressed, configured, sessionFile, user, link, watched, permanent,
                   request, opening, removal, logins, bound, settled, crossed, displaced>>

\* The new client is still the account's and still connected.
HasRecovered == user = recovery.new /\ Connected(user)
RecoveryRefreshes ==
    /\ recovery.at = "refresh"
    /\ \/ /\ bound' = Bindings
          /\ recovery' = IF HasRecovered THEN NoRecovery ELSE [recovery EXCEPT !.at = "asleep"]
       \/ /\ recovery' = [recovery EXCEPT !.at = "asleep"]
          /\ UNCHANGED bound
    /\ UNCHANGED <<halt, suppressed, configured, sessionFile, user, link, watched, permanent,
                   request, opening, removal, logins, history>>

-----------------------------------------------------------------------------
(* The console: connect, disconnect and delete.                            *)

CancelsRecovery ==
    /\ recovery' = NoRecovery
    /\ opening' = IF HeldByRecovery = {} THEN opening ELSE NoClient

ConnectUser ==
    /\ request = "idle" /\ configured /\ ~Stops
    /\ CancelsRecovery
    /\ link' = CloseAll(HeldByRecovery)
    /\ suppressed' = "no"
    /\ request' = "waiting" /\ settled' = FALSE
    /\ UNCHANGED <<halt, configured, sessionFile, user, watched, permanent, removal, logins, bound,
                   crossed, displaced, missed>>

DisconnectUser(how) ==
    /\ removal = "none" /\ ~Stops
    /\ removal' = how
    /\ suppressed' = "removal"
    /\ CancelsRecovery
    /\ IF how = "delete" /\ login.at # "none"
       THEN link' = CloseAll(HeldByRecovery \cup {login.client}) /\ login' = NoLogin
       ELSE link' = CloseAll(HeldByRecovery) /\ UNCHANGED login
    /\ UNCHANGED <<halt, configured, sessionFile, user, watched, permanent, request,
                   entering, signing, finishing, bound, history>>
\* Under the connection lock; the endpoint refreshes the plugins.
Removed ==
    /\ removal # "none" /\ LockFree
    /\ removal' = "none"
    /\ user' = NoClient /\ link' = CloseAll({user})
    /\ watched' = IF watched = user THEN NoClient ELSE watched
    /\ permanent' = IF permanent = user THEN NoClient ELSE permanent
    /\ bound' = NoClient
    /\ sessionFile' = (sessionFile /\ removal = "offline")
    /\ configured' = (configured /\ removal = "offline")
    /\ settled' = TRUE
    /\ UNCHANGED <<halt, suppressed, starts, logins, crossed, displaced, missed>>

-----------------------------------------------------------------------------
(* The login.                                                              *)

\* begin_user_login: an account in use is refused; the end of a recovery takes
\* an await.
BeginLogin ==
    /\ ~entering /\ user = NoClient /\ ~Stops
    /\ entering' = TRUE
    /\ CancelsRecovery
    /\ link' = CloseAll(HeldByRecovery)
    /\ UNCHANGED <<halt, suppressed, configured, sessionFile, user, watched, permanent,
                   request, removal, login, signing, finishing, bound, history>>
\* The session is suppressed and an earlier login ended; if the account is not
\* online by now, a task sends the code.
LoginBegins ==
    /\ entering
    /\ entering' = FALSE
    /\ suppressed' = IF suppressed = "no" THEN "login" ELSE suppressed
    /\ IF Stops \/ user # NoClient
       THEN login' = NoLogin /\ link' = CloseAll({login.client}) /\ UNCHANGED crossed
       ELSE /\ \E c \in Clients :
                /\ New(c)
                /\ link' = [CloseAll({login.client}) EXCEPT ![c] = "connecting"]
                /\ login' = [at |-> "sending", client |-> c]
            /\ crossed' = (crossed \/ opening # NoClient)
    /\ UNCHANGED <<halt, configured, sessionFile, user, watched, permanent, starts,
                   removal, signing, finishing, bound, settled, displaced, missed>>
\* _send_user_login_code; connecting creates the session file.
CodeSent ==
    /\ login.at = "sending"
    /\ IF Stops THEN login' = NoLogin /\ link' = CloseAll({login.client})
       ELSE login' = [login EXCEPT !.at = "sent"] /\ link' = [link EXCEPT ![login.client] = "up"]
    /\ sessionFile' = TRUE
    /\ UNCHANGED <<halt, suppressed, configured, user, watched, permanent, starts, removal,
                   entering, signing, finishing, bound, history>>
\* The sending fails, the console cancels, or ten minutes are over.
EndLogin ==
    /\ login.at # "none"
    /\ login' = NoLogin /\ link' = CloseAll({login.client})
    /\ UNCHANGED <<halt, suppressed, configured, sessionFile, user, watched, permanent, starts,
                   removal, entering, signing, finishing, bound, history>>
\* complete_user_login with a code or a password.
SubmitCode ==
    /\ login.at = "sent" /\ signing = NoClient /\ ~finishing
    /\ signing' = login.client
    /\ UNCHANGED <<halt, suppressed, configured, sessionFile, user, link, watched, permanent,
                   starts, removal, entering, login, finishing, bound, history>>
\* A wrong code or password leaves the login as it is; other errors end it.
SignInFails ==
    /\ signing # NoClient
    /\ signing' = NoClient
    /\ \/ UNCHANGED <<login, link>>
       \/ /\ login.client = signing /\ login.at = "sent"
          /\ login' = NoLogin /\ link' = CloseAll({signing})
    /\ UNCHANGED <<halt, suppressed, configured, sessionFile, user, watched, permanent, starts,
                   removal, entering, finishing, bound, history>>
\* fault: the login is not looked at again.
AnyLogin == TRUE
\* The login is still the one whose code was submitted.
SameLogin == login = [at |-> "sent", client |-> signing]
SignedIn ==
    /\ signing # NoClient
    /\ signing' = NoClient
    /\ IF SameLogin
       THEN /\ login' = NoLogin /\ finishing' = TRUE
            /\ suppressed' = "no"
            /\ TakesOver(signing)
            /\ watched' = IF Stops THEN watched ELSE signing
            /\ permanent' = IF Stops THEN permanent ELSE NoClient
       ELSE UNCHANGED <<login, finishing, suppressed, user, watched, permanent,
                        settled, displaced, missed>>
    /\ UNCHANGED <<halt, configured, sessionFile, link, starts, removal, entering, bound, crossed>>
\* get_me has answered: the session is saved, the plugins refreshed.  When it
\* fails, the account stays online, as configured and bound as it was.
LoginSaved ==
    /\ finishing
    /\ finishing' = FALSE
    /\ configured' = TRUE /\ bound' = Bindings
    /\ UNCHANGED <<halt, suppressed, sessionFile, user, link, watched, permanent, starts,
                   removal, entering, login, signing, history>>
LoginUnsaved ==
    /\ finishing
    /\ finishing' = FALSE
    /\ UNCHANGED <<halt, suppressed, configured, sessionFile, user, link, watched, permanent,
                   starts, removal, entering, login, signing, bound, history>>

-----------------------------------------------------------------------------
(* Shutdown: recovery and watchers end first, then the logins and clients. *)

StopRecovery ==
    /\ halt = "no"
    /\ halt' = "stopping"
    /\ CancelsRecovery /\ link' = CloseAll(HeldByRecovery)
    /\ watched' = NoClient /\ permanent' = NoClient
    /\ UNCHANGED <<suppressed, configured, sessionFile, user, request, removal, logins, bound, history>>
StopClients ==
    /\ halt = "stopping"
    /\ halt' = "stopped"
    /\ link' = CloseAll({user, login.client}) /\ login' = NoLogin
    /\ user' = NoClient
    /\ UNCHANGED <<suppressed, configured, sessionFile, watched, permanent, starts, removal,
                   entering, signing, finishing, bound, history>>

AccountWork ==
    \/ \E by \in {"request", "recovery"} :
        StillOnline(by) \/ StartRefused(by) \/ StartOpens(by) \/ StartSucceeds(by) \/ StartDenied(by) \/ StartFails(by)
    \/ RequestRefreshes \/ WatcherWakes \/ RecoveryWakes \/ RecoveryRefreshes \/ Removed
    \/ LoginSaved \/ LoginUnsaved
AccountsNext ==
    \/ AccountWork
    \/ \E c \in Clients : LinkEnds(c) \/ LinkReturns(c)
    \/ ConnectUser \/ \E how \in {"offline", "delete"} : DisconnectUser(how)
    \/ BeginLogin \/ LoginBegins \/ CodeSent \/ EndLogin \/ SubmitCode \/ SignInFails \/ SignedIn
    \/ StopRecovery \/ StopClients
AccountsSpec == AccountsInit /\ [][AccountsNext]_accountVars

-----------------------------------------------------------------------------
(* Properties.                                                             *)

\* Every open client belongs to somebody: it is the account's, the one being
\* connected or the one of the login in progress, and the account never has a
\* client that was closed (a cancelled or replaced login, a shutdown).  A client
\* gets lost, open on the account's session file, only where the console starts
\* and logs in the account at the same time.
ClientsAreHeld ==
    /\ {c \in Clients : link[c] # "closed"} = ({user, opening, login.client} \ {NoClient}) \cup displaced
    /\ displaced # {} => crossed
    /\ halt = "stopped" => user = NoClient

\* An account that the administrator took offline stays offline: no start that
\* was under way, no watcher, no recovery and no abandoned login brings it back.
StaysOffline == suppressed = "removal" /\ removal = "none" => user = NoClient

\* A configured account that lost its connection is always looked after, by a
\* watcher, a recovery or a request, unless only the administrator can help.
\* Three events leave it to itself: its client comes back while the plugins are
\* rebound, after its watcher ended; its recovery ends before its login is saved;
\* a login and a start of the same account overlapped.
Attended ==
    \/ recovery.at # "off" \/ request # "idle" \/ removal # "none"
    \/ entering \/ login.at # "none" \/ finishing
LookedAfter ==
    configured /\ ~Suppressed /\ ~Stops /\ ~Attended /\ ~missed /\ ~crossed =>
        IF user = NoClient THEN settled
        ELSE user = watched \/ (user = permanent /\ link[user] = "revoked")

\* What the administrator sees of an account is what the clients are.
AccountIsKept == AccountsTypeOK /\ ClientsAreHeld /\ StaysOffline /\ LookedAfter
=============================================================================
