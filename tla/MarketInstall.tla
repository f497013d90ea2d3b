---------------------------- MODULE MarketInstall ----------------------------
(***************************************************************************)
(* Installing, updating, uploading and deleting one plugin, and where its  *)
(* code came from: PluginMarket of market.py with the handlers of          *)
(* api/operations.py and api/plugins.py.  A plugin whose source is known   *)
(* is updated automatically from that repository.                          *)
(*                                                                         *)
(* install_lock is held by one operation at a time.  The proof of an old   *)
(* plugin's source runs beside it, reads files in a thread and asks GitHub *)
(* for a long time.  The process may die between two file operations.      *)
(* The plugin is a directory; one that lacks files counts as none.         *)
(***************************************************************************)
EXTENDS Naturals

CONSTANTS Repos, NoRepo,
          MaxVersion, \* bound: versions a repository publishes
          MaxChanges  \* bound: changes of a source, _source_generation

ASSUME MarketAssumption == NoRepo \notin Repos /\ MaxVersion \in Nat /\ MaxChanges \in Nat

VARIABLES plugin,  \* what lies in the plugins directory
          backup,  \* .<plugin>.backup
          pending, \* _pending_installs: a transaction is open
          running, \* the code that is loaded
          source,  \* _sources and plugin_sources.json
          localOnly, \* _local_only: uploaded by hand
          changes, \* _source_generation
          op,      \* the operation that holds install_lock, or "down"
          proof,   \* migrate_legacy_sources: what it saw of the plugin
          \* History, for the properties.
          torn,    \* an installation was left without its end, in this run or an earlier one
          owed     \* the code it had moved away

marketVars == <<plugin, backup, pending, running, source, localOnly, changes, op, proof, torn, owed>>

\* Code is what a repository published, or was uploaded; Nothing is no plugin.
Nothing == [repo |-> NoRepo, version |-> 0]
Uploaded == [repo |-> NoRepo, version |-> 1]
Published == [repo: Repos, version: 1..MaxVersion]
Code == Published \cup {Uploaded, Nothing}
Free == [at |-> "free"]
Installs == [at: {"download", "copy", "load", "confirm", "commit", "undo", "restore"},
             by: {"console", "poll"}, new: Published, old: Code, was: Repos \cup {NoRepo},
             loaded: BOOLEAN, open: BOOLEAN]
MarketTypeOK ==
    /\ {plugin, backup, running, owed} \subseteq Code
    /\ pending \in BOOLEAN /\ localOnly \in BOOLEAN /\ torn \in BOOLEAN
    /\ source \in Repos \cup {NoRepo} /\ changes \in 0..MaxChanges
    /\ op \in Installs \cup {Free, [at |-> "down"], [at |-> "delete"]}
    /\ proof = Free \/ (proof.seen \in Code /\ proof.changes \in 0..MaxChanges)

\* An installation of an old version: no source is known.
MarketInit ==
    /\ plugin \in Published \cup {Nothing} /\ running \in {plugin, Nothing}
    /\ backup = Nothing /\ pending = FALSE
    /\ source = NoRepo /\ localOnly = FALSE /\ changes = 0
    /\ op = Free /\ proof = Free /\ torn = FALSE /\ owed = Nothing

files == <<plugin, backup, pending>>
sources == <<source, localOnly, changes>>
past == <<torn, owed>>
Goto(step) == op' = [op EXCEPT !.at = step]

-----------------------------------------------------------------------------
(* Install and update.                                                     *)

\* The console installs anything; the poll only from the recorded source.
BeginInstall(by, new) ==
    /\ op = Free /\ (by = "poll" => source = new.repo)
    /\ op' = [at |-> "download", by |-> by, new |-> new, old |-> plugin, was |-> source,
              loaded |-> running # Nothing, open |-> pending]
    /\ running' = Nothing
    /\ UNCHANGED <<files, sources, proof, past>>
\* The plugin was not touched yet, a backup of an earlier time may have been
\* removed; the old code is loaded again.
DownloadFails ==
    /\ op.at = "download" /\ Goto("restore")
    /\ \/ UNCHANGED <<backup, owed>>
       \/ ~pending /\ backup' = Nothing /\ owed' = Nothing
    /\ UNCHANGED <<plugin, pending, running, sources, proof, torn>>
\* An earlier installation left its transaction open: the poll rolls that back.
StillOpen ==
    /\ op.at = "download" /\ pending
    /\ Goto(IF op.by = "poll" THEN "undo" ELSE "restore")
    /\ UNCHANGED <<files, running, sources, proof, past>>
\* The old code becomes the backup, and the transaction is registered.
MoveAway ==
    /\ op.at = "download" /\ ~pending
    /\ backup' = plugin /\ plugin' = Nothing /\ pending' = TRUE
    /\ owed' = plugin
    /\ Goto("copy")
    /\ UNCHANGED <<running, sources, proof, torn>>
CopyIn ==
    /\ op.at = "copy"
    /\ \/ plugin' = op.new /\ Goto("load")
       \/ plugin' = plugin /\ Goto("undo")
    /\ UNCHANGED <<backup, pending, running, sources, proof, past>>
\* The metadata is read, and a plugin that ran is loaded; either may fail.
LoadNew ==
    /\ op.at = "load"
    /\ \/ running' = (IF op.loaded THEN plugin ELSE running) /\ Goto("confirm")
       \/ UNCHANGED running /\ Goto("undo")
    /\ UNCHANGED <<files, sources, proof, past>>
\* _set_source_state: the table and the file, or neither.
SetSource(repo, byHand) ==
    /\ changes < MaxChanges /\ changes' = changes + 1
    /\ source' = repo /\ localOnly' = byHand
\* confirm_source
Confirm ==
    /\ op.at = "confirm"
    /\ \/ /\ IF source = op.new.repo THEN UNCHANGED sources ELSE SetSource(op.new.repo, FALSE)
          /\ Goto("commit")
       \/ UNCHANGED sources /\ Goto("undo")
    /\ UNCHANGED <<files, running, proof, past>>
\* finish(True); a backup that cannot be removed stays behind.
CommitInstall ==
    /\ op.at = "commit"
    /\ pending' = FALSE /\ backup' \in {Nothing, backup}
    /\ op' = Free /\ torn' = FALSE /\ owed' = Nothing
    /\ UNCHANGED <<plugin, running, sources, proof>>
\* finish(False): without a transaction nothing; a file error leaves it open,
\* with the new code in its place or removed.
RollBack ==
    \/ ~pending /\ UNCHANGED <<files, past>>
    \/ /\ pending /\ pending' = FALSE
       /\ plugin' = backup /\ backup' = Nothing /\ owed' = Nothing
       /\ UNCHANGED torn
    \/ /\ pending /\ plugin' \in {plugin, Nothing} /\ torn' = TRUE
       /\ UNCHANGED <<backup, pending, owed>>
\* After the new instance was stopped.  The console may end with a failure here.
Undo ==
    /\ op.at = "undo" /\ RollBack
    /\ running' = Nothing
    /\ \/ Goto("restore")
       \/ op.by = "console" /\ op' = Free
    /\ UNCHANGED <<sources, proof>>
Restore ==
    /\ op.at = "restore" /\ op' = Free
    /\ running' \in IF op.loaded THEN {plugin, Nothing} ELSE {running}
    /\ UNCHANGED <<files, sources, proof, past>>
\* The task is cancelled, or the console's enable raises: the poll rolls back while
\* it downloads or loads, not while it stops the new instance; the console does not.
LeaveInstall ==
    /\ \/ op.at = "download" \/ (op.at = "load" /\ op.loaded)
       \/ op.at = "undo" /\ op.loaded /\ op.by = "poll"
    /\ op' = Free
    /\ IF op.by = "poll" /\ op.at # "undo" THEN RollBack
       ELSE torn' = (torn \/ op.at # "download") /\ UNCHANGED <<files, owed>>
    /\ UNCHANGED <<running, sources, proof>>

-----------------------------------------------------------------------------
(* Upload, deletion, and the switch of the console.                        *)

\* A file that is no plugin, or a source that cannot be saved, is taken back,
\* if the old file can be written.
Upload ==
    /\ op = Free
    /\ \/ /\ plugin' = Uploaded /\ SetSource(NoRepo, TRUE)
          /\ torn' = FALSE /\ owed' = Nothing
       \/ /\ plugin' = Nothing /\ owed' = Nothing /\ UNCHANGED <<sources, torn>>
    /\ UNCHANGED <<backup, pending, running, op, proof>>
BeginDelete ==
    /\ op = Free
    /\ op' = [at |-> "delete"] /\ running' = Nothing
    /\ UNCHANGED <<files, sources, proof, past>>
\* The files cannot be removed, or are not there; they are, but the settings, the
\* heat or the source cannot be saved; or all went well.
Delete ==
    /\ op.at = "delete" /\ op' = Free
    /\ \/ UNCHANGED <<plugin, running, sources, past>>
       \/ /\ plugin # Nothing /\ plugin' = Nothing /\ owed' = Nothing
          /\ UNCHANGED <<running, sources, torn>>
       \/ /\ plugin # Nothing /\ plugin' = Nothing /\ owed' = Nothing
          /\ SetSource(NoRepo, FALSE) /\ torn' = FALSE
          /\ UNCHANGED running
    /\ UNCHANGED <<backup, pending, proof>>
\* enable and disable do not ask for install_lock.
Switch ==
    /\ op.at \notin {"down", "copy"} /\ plugin # Nothing
    /\ running' = IF running = Nothing THEN plugin ELSE Nothing
    /\ UNCHANGED <<files, sources, op, proof, past>>

-----------------------------------------------------------------------------
(* The proof of an old plugin's source.                                    *)

ReadPlugin ==
    /\ op.at # "down" /\ proof = Free
    /\ source = NoRepo /\ ~localOnly /\ plugin # Nothing
    /\ proof' = [at |-> "github", seen |-> plugin, changes |-> changes]
    /\ UNCHANGED <<files, running, sources, op, past>>
\* fault: the lock is thought to be enough.
ProvenOnce == source = NoRepo /\ ~localOnly
\* Under the lock nothing may have changed since the snapshot.
StillProven ==
    /\ source = NoRepo /\ ~localOnly
    /\ changes = proof.changes /\ plugin = proof.seen
\* GitHub has the same files in exactly one place of this repository.
Bind(repo) ==
    /\ op = Free /\ proof # Free /\ proof.seen.repo = repo /\ StillProven
    /\ SetSource(repo, FALSE) /\ proof' = Free
    /\ UNCHANGED <<files, running, op, past>>
NotProven ==
    /\ proof # Free /\ proof' = Free
    /\ UNCHANGED <<files, running, sources, op, past>>

-----------------------------------------------------------------------------
(* A crash forgets the transaction; an upload or a deletion can be cut in   *)
(* half.                                                                   *)

Down == /\ op' = [at |-> "down"] /\ running' = Nothing /\ pending' = FALSE /\ proof' = Free
ProcessDies ==
    /\ op.at # "down" /\ Down
    /\ torn' = (torn \/ pending)
    /\ UNCHANGED <<plugin, backup, sources, owed>>
UploadDies ==
    /\ op = Free /\ Down
    /\ plugin' = Uploaded /\ torn' = TRUE /\ owed' = Nothing
    /\ UNCHANGED <<backup, sources>>
DeleteDies ==
    /\ op.at = "delete" /\ Down
    /\ plugin' = Nothing /\ torn' = (torn \/ pending) /\ owed' = Nothing
    /\ UNCHANGED <<backup, sources>>
MarketStarts ==
    /\ op.at = "down" /\ op' = Free
    /\ running' \in {plugin, Nothing}
    /\ UNCHANGED <<files, sources, proof, past>>

MarketNext ==
    \/ \E by \in {"console", "poll"}, new \in Published : BeginInstall(by, new)
    \/ DownloadFails \/ StillOpen \/ MoveAway \/ CopyIn \/ LoadNew \/ Confirm \/ CommitInstall
    \/ Undo \/ Restore \/ LeaveInstall \/ Upload \/ BeginDelete \/ Delete \/ Switch
    \/ ReadPlugin \/ NotProven \/ \E r \in Repos : Bind(r)
    \/ ProcessDies \/ UploadDies \/ DeleteDies \/ MarketStarts
MarketSpec == MarketInit /\ [][MarketNext]_marketVars

-----------------------------------------------------------------------------
(* Properties.                                                             *)

\* Automatic updates replace only code that came from the same repository: the
\* recorded source is that of the files, whatever was uploaded, deleted or
\* installed while it was being proven, unless an installation was left without
\* its end: by a crash, a cancellation, a rollback that failed, or the console.
SourceIsProven == source # NoRepo /\ plugin # Nothing /\ ~pending /\ ~torn => plugin.repo = source
\* The code that an installation has moved away is in the backup until the
\* installation is committed or undone or the administrator replaces the plugin,
\* also when a crash, a failed rollback or the console left it without its end.
OldIsKept == owed # Nothing => owed \in {plugin, backup}
\* An installation ends with the new code and its repository as the source, or
\* with the code and the source there were before, unless it leaves its
\* transaction open or found one open.
EndsWhole ==
    op' = Free /\ op \in Installs =>
        \/ plugin' = op.new /\ source' = op.new.repo /\ ~localOnly'
        \/ plugin' = op.old /\ source' = op.was
        \/ pending' \/ op.open
\* The plugins directory and what is recorded of it change together.
InstallIsAtomic == [][EndsWhole /\ SourceIsProven' /\ OldIsKept' /\ MarketTypeOK']_marketVars
=============================================================================
