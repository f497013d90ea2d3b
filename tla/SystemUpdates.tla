---------------------------- MODULE SystemUpdates ----------------------------
(***************************************************************************)
(* The notice about a new release: system_updates.py and                   *)
(* send_to_default_bot of notifier.py.  A notice is recorded as in flight  *)
(* before it is sent, so that a crash, a cancelled shutdown, an answer     *)
(* that never comes or a record that cannot be written never sends it      *)
(* twice.  Releases are numbered in the order of their versions and the    *)
(* platform runs version 0.                                                *)
(***************************************************************************)
EXTENDS Naturals

CONSTANTS NewestRelease,   \* bound: the releases that appear
          Bots,     \* settings of the default Bot: account, target and token
          NoBot,    \* none that could send, or no recipient
          MaxDeaths \* bound: crashes and restarts

ASSUME UpdatesAssumption == {NewestRelease, MaxDeaths} \subseteq Nat

VARIABLES published, \* the newest usable release GitHub lists
          known,     \* latest_version of _cache, 0 when there is no update
          fetching,  \* _fetch_task is not done
          notice,    \* _notify_pending: where it stands, version, settings it saw
          records,   \* notifications of the state file, and _records
          readable,  \* FALSE: the file was damaged when the service read it
          enabled,   \* system_update_notify_enabled
          bot,       \* the settings of the default Bot
          serving,   \* not _closed, and the process is alive
          reached,   \* reached[v]: notices of v that arrived
          deaths

updateVars == <<published, known, fetching, notice, records, readable, enabled, bot,
                serving, reached, deaths>>

ReleaseNumbers == 1..NewestRelease
NoNotice == [at |-> "none", version |-> 0, bot |-> NoBot]
UpdatesTypeOK ==
    /\ published \in 0..NewestRelease /\ known \in 0..NewestRelease
    /\ fetching \in BOOLEAN /\ readable \in BOOLEAN /\ enabled \in BOOLEAN /\ serving \in BOOLEAN
    /\ notice \in [at: {"none", "begun", "resolving", "asking"}, version: 0..NewestRelease, bot: Bots \cup {NoBot}]
    /\ records \in [ReleaseNumbers -> {"none", "inflight", "uncertain", "sent"}]
    /\ bot \in Bots \cup {NoBot}
    /\ reached \in [ReleaseNumbers -> 0..2] /\ deaths \in 0..MaxDeaths

UpdatesInit ==
    /\ published = 0 /\ known = 0 /\ fetching = FALSE
    /\ notice = NoNotice
    /\ records = [v \in ReleaseNumbers |-> "none"]
    /\ readable \in BOOLEAN /\ enabled = TRUE /\ bot \in Bots \cup {NoBot}
    /\ serving = TRUE
    /\ reached = [v \in ReleaseNumbers |-> 0] /\ deaths = 0

-----------------------------------------------------------------------------
(* check, _refresh.                                                        *)

\* Drafts and tags that are no version are left out of the list.
Publish ==
    /\ published < NewestRelease
    /\ published' = published + 1
    /\ UNCHANGED <<known, fetching, notice, records, readable, enabled, bot, serving, reached, deaths>>
\* Whoever checks shares the request that is under way.
StartFetch ==
    /\ serving /\ ~fetching /\ fetching' = TRUE
    /\ UNCHANGED <<published, known, notice, records, readable, enabled, bot, serving, reached, deaths>>
\* A failed request keeps the cache.
EndFetch ==
    /\ fetching /\ fetching' = FALSE
    /\ known' \in {known, published}
    /\ UNCHANGED <<published, notice, records, readable, enabled, bot, serving, reached, deaths>>

-----------------------------------------------------------------------------
(* notify_pending: one task at a time, whoever asks for it.                *)

\* _mark writes the file and then the table, or fails and changes neither.
MarkNotice(v, status) == records' \in {records, [records EXCEPT ![v] = status]}
Finished == notice' = NoNotice

StartNotice ==
    /\ serving /\ notice.at = "none"
    /\ notice' = [NoNotice EXCEPT !.at = "begun"]
    /\ UNCHANGED <<published, known, fetching, records, readable, enabled, bot, serving, reached, deaths>>
\* Nothing about this release or a later one was ever begun.
Unannounced(v) == \A w \in ReleaseNumbers : w >= v => records[w] = "none"
Wanted == enabled /\ known > 0 /\ readable /\ Unannounced(known)
NothingToSay ==
    /\ notice.at = "begun" /\ ~Wanted /\ Finished
    /\ UNCHANGED <<published, known, fetching, records, readable, enabled, bot, serving, reached, deaths>>
NoticeRecorded(v) == records'[v] = "inflight"
\* The record of the notice, and send_to_default_bot up to its first await.
Announce ==
    /\ notice.at = "begun" /\ Wanted
    /\ MarkNotice(known, "inflight")
    /\ notice' = IF NoticeRecorded(known) THEN [at |-> "resolving", version |-> known, bot |-> bot] ELSE NoNotice
    /\ UNCHANGED <<published, known, fetching, readable, enabled, bot, serving, reached, deaths>>
\* The recipient may come from an account: the settings are read again after it.
SameBot(n) == enabled /\ n.bot = bot /\ bot # NoBot
Ask ==
    /\ notice.at = "resolving" /\ SameBot(notice)
    /\ notice' = [notice EXCEPT !.at = "asking"]
    /\ UNCHANGED <<published, known, fetching, records, readable, enabled, bot, serving, reached, deaths>>
\* No Bot, no recipient, or changed settings: send_to_default_bot returns False.
GiveUpNotice ==
    /\ notice.at = "resolving" /\ ~SameBot(notice)
    /\ MarkNotice(notice.version, "none") /\ Finished
    /\ UNCHANGED <<published, known, fetching, readable, enabled, bot, serving, reached, deaths>>
Arrives == reached' = [reached EXCEPT ![notice.version] = IF @ < 2 THEN @ + 1 ELSE @]
Delivered ==
    /\ notice.at = "asking"
    /\ Arrives /\ MarkNotice(notice.version, "sent") /\ Finished
    /\ UNCHANGED <<published, known, fetching, readable, enabled, bot, serving, deaths>>
\* The server answers with an error, which counts as a refusal: a RuntimeError,
\* and the next check tries again.
Rejected ==
    /\ notice.at = "asking"
    /\ MarkNotice(notice.version, "none") /\ Finished
    /\ UNCHANGED <<published, known, fetching, readable, enabled, bot, serving, reached, deaths>>
\* fault: an unknown outcome is tried again.
TryAgain == "none"
Doubt == "uncertain"
\* DeliveryUncertain, or any error whose outcome is unknown.
Unknown ==
    /\ notice.at = "asking"
    /\ (Arrives \/ UNCHANGED reached) /\ MarkNotice(notice.version, Doubt) /\ Finished
    /\ UNCHANGED <<published, known, fetching, readable, enabled, bot, serving, deaths>>

-----------------------------------------------------------------------------
(* Settings, shutdown and crash.                                           *)

ChangeSettings ==
    /\ enabled' \in BOOLEAN /\ bot' \in Bots \cup {NoBot}
    /\ <<enabled, bot>>' # <<enabled, bot>>
    /\ UNCHANGED <<published, known, fetching, notice, records, readable, serving, reached, deaths>>
\* close: cancels the request and the notice and waits for both.
CloseUpdates ==
    /\ serving /\ serving' = FALSE /\ fetching' = FALSE /\ Finished
    /\ IF notice.at \in {"resolving", "asking"} THEN MarkNotice(notice.version, Doubt) ELSE UNCHANGED records
    /\ IF notice.at = "asking" THEN Arrives \/ UNCHANGED reached ELSE UNCHANGED reached
    /\ UNCHANGED <<published, known, readable, enabled, bot, deaths>>
Dies ==
    /\ deaths < MaxDeaths /\ deaths' = deaths + 1
    /\ serving' = FALSE /\ fetching' = FALSE /\ Finished
    /\ IF notice.at = "asking" THEN Arrives \/ UNCHANGED reached ELSE UNCHANGED reached
    /\ UNCHANGED <<published, known, records, readable, enabled, bot>>
\* __init__, _load_state: a damaged file is neither used nor overwritten.
Load ==
    /\ ~serving /\ serving' = TRUE /\ known' = 0
    /\ readable' \in {FALSE, readable}
    /\ UNCHANGED <<published, fetching, notice, records, enabled, bot, reached, deaths>>

UpdatesNext ==
    \/ Publish \/ StartFetch \/ EndFetch \/ StartNotice \/ NothingToSay \/ Announce
    \/ Ask \/ GiveUpNotice \/ Delivered \/ Rejected \/ Unknown
    \/ ChangeSettings \/ CloseUpdates \/ Dies \/ Load
UpdatesSpec == UpdatesInit /\ [][UpdatesNext]_updateVars

-----------------------------------------------------------------------------
(* Properties.                                                             *)

\* Nobody is told twice about a release, and nobody of an older one after a
\* newer one, whatever fails or dies in between.
TellsOnce ==
    \A v \in ReleaseNumbers : reached'[v] > reached[v] =>
        \A w \in ReleaseNumbers : w >= v => reached[w] = 0
NoticeOnce == [][TellsOnce /\ UpdatesTypeOK']_updateVars
=============================================================================
