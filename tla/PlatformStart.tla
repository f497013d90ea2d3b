---------------------------- MODULE PlatformStart ----------------------------
(***************************************************************************)
(* The life of the process and the import of a configuration: run_once,    *)
(* start_platform and serve_platform of main.py and the restore            *)
(* transaction of backup.py.  Files are replaced one at a time and the     *)
(* process may die between any two of them.                                *)
(*                                                                         *)
(* A restart from the console runs run_once again in the same process; a   *)
(* failed start ends the process and the container starts it again.        *)
(***************************************************************************)
EXTENDS Naturals, FiniteSets

CONSTANTS Configs,       \* contents of config.json
          Faulty,        \* those with which the platform cannot start
          NoConfig,      \* no file
          MaxDisturbance \* bound: crashes, restarts, imports and saves

ASSUME StartAssumption ==
    Faulty \subseteq Configs /\ NoConfig \notin Configs /\ MaxDisturbance \in Nat

VARIABLES config,      \* data/config.json
          pendingConfig,     \* .restore-pending.zip
          transaction, \* .restore-transaction.json: the file it goes back to
          copied,      \* the copy made before the transaction is written
          boot,        \* where the process stands
          restored,    \* run_once applied an import
          up,          \* the parts of the start that are done
          disturbed    \* how often something interfered

startVars == <<config, pendingConfig, transaction, copied, boot, restored, up, disturbed>>

NoTransaction == [open |-> FALSE, back |-> NoConfig, tried |-> FALSE]
BootPhases == {"down", "look", "unpack", "forget", "close", "copy", "mark", "replace",
           "consume", "start", "serve", "stop", "failed"}
StartTypeOK ==
    /\ config \in Configs \cup {NoConfig} /\ pendingConfig \in Configs \cup {NoConfig}
    /\ transaction \in [open: BOOLEAN, back: Configs \cup {NoConfig}, tried: BOOLEAN]
    /\ copied \in Configs \cup {NoConfig}
    /\ boot \in BootPhases /\ restored \in BOOLEAN
    /\ up \subseteq {"platform", "server"} /\ disturbed \in 0..MaxDisturbance
    /\ up # {} => boot \in {"start", "serve"}

StartInit ==
    /\ config \in (Configs \ Faulty) \cup {NoConfig}
    /\ pendingConfig = NoConfig /\ transaction = NoTransaction /\ copied = NoConfig
    /\ boot = "down" /\ restored = FALSE /\ up = {} /\ disturbed = 0

-----------------------------------------------------------------------------
(* run_once and apply_pending, one file operation per step.                *)

BootGoes(from, to) == boot = from /\ boot' = to
Files == <<config, pendingConfig, transaction, copied>>

Boot ==
    /\ BootGoes("down", "look") /\ restored' = FALSE
    /\ UNCHANGED <<Files, up, disturbed>>
\* fault: a boot goes on with an import that was never confirmed.
TrustIt == IF pendingConfig = NoConfig THEN "start" ELSE "copy"
\* A transaction that is still open was never confirmed.
AfterLook == CASE transaction.open -> "unpack"
               [] ~transaction.open /\ pendingConfig # NoConfig -> "copy"
               [] OTHER -> "start"
Look ==
    /\ boot = "look"
    /\ boot' = AfterLook
    /\ UNCHANGED <<Files, restored, up, disturbed>>

\* rollback_restore: the old file, then the import, then the transaction.
Unpack ==
    /\ BootGoes("unpack", "forget")
    /\ config' = transaction.back
    /\ UNCHANGED <<pendingConfig, transaction, copied, restored, up, disturbed>>
Forget ==
    /\ BootGoes("forget", "close")
    /\ pendingConfig' = NoConfig
    /\ UNCHANGED <<config, transaction, copied, restored, up, disturbed>>
CloseTransaction ==
    /\ boot = "close"
    /\ boot' = IF restored THEN "down" ELSE "look"
    /\ transaction' = NoTransaction
    /\ UNCHANGED <<config, pendingConfig, copied, restored, up, disturbed>>

\* apply_pending: copy, open the transaction, replace the file, drop the import.
Copy ==
    /\ BootGoes("copy", "mark")
    /\ copied' = config
    /\ UNCHANGED <<config, pendingConfig, transaction, restored, up, disturbed>>
OpenTransaction ==
    /\ BootGoes("mark", "replace")
    /\ transaction' = [open |-> TRUE, back |-> copied, tried |-> FALSE]
    /\ UNCHANGED <<config, pendingConfig, copied, restored, up, disturbed>>
Replace ==
    /\ BootGoes("replace", "consume")
    /\ config' = pendingConfig
    /\ UNCHANGED <<pendingConfig, transaction, copied, restored, up, disturbed>>
Consume ==
    /\ BootGoes("consume", "start")
    /\ pendingConfig' = NoConfig /\ restored' = TRUE
    /\ UNCHANGED <<config, transaction, copied, up, disturbed>>
\* A full disk: the exception rolls back and ends the process.
DiskFull ==
    /\ boot \in {"replace", "consume"} /\ disturbed < MaxDisturbance
    /\ boot' = "unpack" /\ restored' = TRUE /\ disturbed' = disturbed + 1
    /\ UNCHANGED <<Files, up>>

-----------------------------------------------------------------------------
(* serve_platform: the console and the platform start side by side.        *)

ServerStarts ==
    /\ boot = "start" /\ "server" \notin up
    /\ up' = up \cup {"server"}
    /\ transaction' = [transaction EXCEPT !.tried = @ \/ transaction.open]
    /\ UNCHANGED <<config, pendingConfig, copied, boot, restored, disturbed>>
\* start_platform: accounts, plugins, update checks, market; then the assistant.
PlatformStarts ==
    /\ boot = "start" /\ "platform" \notin up /\ config \notin Faulty
    /\ up' = up \cup {"platform"}
    /\ transaction' = [transaction EXCEPT !.tried = @ \/ transaction.open]
    /\ UNCHANGED <<config, pendingConfig, copied, boot, restored, disturbed>>
BootFails ==
    /\ boot = "start" /\ config \in Faulty
    /\ boot' = "failed" /\ up' = {}
    /\ transaction' = [transaction EXCEPT !.tried = @ \/ transaction.open]
    /\ UNCHANGED <<config, pendingConfig, copied, restored, disturbed>>
\* fault: the import is confirmed when the plugins are loaded.
PlatformOnly == "platform" \in up
\* commit_restore: only when both are up.
Confirmed == up = {"platform", "server"}
Commit ==
    /\ BootGoes("start", "serve") /\ Confirmed
    /\ transaction' = NoTransaction
    /\ UNCHANGED <<config, pendingConfig, copied, restored, up, disturbed>>

\* The console: it takes requests before the platform is ready.
Console == "server" \in up /\ disturbed < MaxDisturbance
StageImport(c) ==
    /\ Console
    /\ pendingConfig' = c /\ disturbed' = disturbed + 1
    /\ UNCHANGED <<config, transaction, copied, boot, restored, up>>
SaveConfig(c) ==
    /\ Console /\ c \notin Faulty
    /\ config' = c /\ disturbed' = disturbed + 1
    /\ UNCHANGED <<pendingConfig, transaction, copied, boot, restored, up>>
RestartAsked ==
    /\ Console
    /\ boot' = "stop" /\ up' = {} /\ disturbed' = disturbed + 1
    /\ UNCHANGED <<Files, restored>>
\* The shutdown is over; run() calls run_once again.
Stopped ==
    /\ BootGoes("stop", "look") /\ restored' = FALSE
    /\ UNCHANGED <<Files, up, disturbed>>
\* run_once: whatever ended a start with an import takes the import back.
TakesBack == restored /\ transaction.open
Failed ==
    /\ boot = "failed"
    /\ boot' = IF TakesBack THEN "unpack" ELSE "down"
    /\ UNCHANGED <<Files, restored, up, disturbed>>
Crash ==
    /\ boot # "down" /\ disturbed < MaxDisturbance
    /\ boot' = "down" /\ restored' = FALSE /\ up' = {}
    /\ disturbed' = disturbed + 1
    /\ UNCHANGED Files

BootNext ==
    \/ Boot \/ Look \/ Unpack \/ Forget \/ CloseTransaction \/ Copy \/ OpenTransaction
    \/ Replace \/ Consume \/ ServerStarts \/ PlatformStarts \/ BootFails
    \/ Commit \/ Stopped \/ Failed
StartNext ==
    \/ BootNext
    \/ \E c \in Configs : StageImport(c) \/ SaveConfig(c)
    \/ RestartAsked \/ DiskFull \/ Crash
StartSpec == StartInit /\ [][StartNext]_startVars /\ WF_startVars(BootNext)

-----------------------------------------------------------------------------
(* Properties.                                                             *)

\* The platform boots at most once with an import that is not confirmed
\* (backup.py:227): a boot never begins with a transaction that was tried.
UnconfirmedBootsOnce == boot # "start" /\ boot' = "start" => ~transaction.tried
\* A transaction ends in one of two ways: confirmed by a platform that is up
\* with its console, or with the file that was there before it.
EndsEitherWay ==
    transaction.open /\ ~transaction'.open =>
        \/ boot' = "serve" /\ up = {"platform", "server"}
        \/ config' = transaction.back
\* An import replaces the configuration for good or not at all, wherever the
\* process dies between its file operations.
ImportIsAtomic == [][UnconfirmedBootsOnce /\ EndsEitherWay /\ StartTypeOK']_startVars
\* When nothing interferes any more the platform comes up for good, whatever
\* was imported.
ComesUp == boot # "down" ~> [](boot = "serve")
=============================================================================
