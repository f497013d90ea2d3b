---------------------------- MODULE SettingsSave ----------------------------
(***************************************************************************)
(* The settings while several requests change them: the forms of           *)
(* api/settings.py (system, AI, notification channels), the edits the      *)
(* assistant proposes and an administrator approves                        *)
(* (assistant_settings.py, assistant_tools.py), and the file config.json.  *)
(*                                                                         *)
(* A system form and an approved edit wait for pip in the middle; the      *)
(* commit after it has no await and is one step.  A value is the content   *)
(* of a group of fields; Mask is what the console shows for a secret.      *)
(***************************************************************************)
EXTENDS Naturals

CONSTANTS Saves,    \* requests of the console and proposals of the assistant
          Contents, \* contents of a group of fields
          Mask      \* "********"

ASSUME SavesAssumption == Mask \notin Contents

VARIABLES settings,   \* the Settings object the platform runs with
          disk,       \* config.json
          unsaved,    \* a write failed after the object was changed in place
          save,       \* save[r]: where the request stands and what it knows
          authorized  \* the assistant may write: enabled, actions allowed, admin

saveVars == <<settings, disk, unsaved, save, authorized>>

\* shown: fields of an edit.  token: bots and channels, whose masks are looked
\* up before pip.  secret: keys whose masks are looked up at the commit.  loose:
\* saved text that a form would normalise (routes to bots that are gone, spaces).
SettingsObject == [shown: Contents, token: Contents, secret: Contents, ai: Contents, loose: BOOLEAN]
NoSave == [at |-> "none"]
Form == [at: {"pip"}, shown: Contents, token: Contents, secret: Contents \cup {Mask}]
Edit == [at: {"proposed", "checked"}, shown: Contents, seen: SettingsObject]
SaveTypeOK ==
    /\ settings \in SettingsObject /\ disk \in SettingsObject
    /\ unsaved \in BOOLEAN /\ authorized \in BOOLEAN
    /\ \A r \in Saves : save[r] = NoSave \/ save[r] \in Form \/ save[r] \in Edit

SaveInit ==
    /\ settings \in SettingsObject /\ disk = settings
    /\ unsaved = FALSE /\ authorized = TRUE
    /\ save = [r \in Saves |-> NoSave]

Ends(r) == save' = [save EXCEPT ![r] = NoSave]
\* What a mask stands for.
Meant(submitted, saved) == IF submitted = Mask THEN saved ELSE submitted

\* fault: a failed save leaves the object as it was changed.
KeepAnyway(after) == after
\* save_settings replaces the file in one move or fails; the callers that keep a
\* snapshot put every field back.
Restored(after) == settings
Persist(after) ==
    \/ /\ settings' = after /\ disk' = after /\ unsaved' = FALSE
    \/ /\ settings' = Restored(after) /\ UNCHANGED <<disk, unsaved>>

-----------------------------------------------------------------------------
(* PUT /api/settings: save_system_settings for the console.                *)

SubmitForm(r, shown, token, secret) ==
    /\ save[r] = NoSave
    /\ save' = [save EXCEPT ![r] = [at |-> "pip", shown |-> shown,
                  token |-> Meant(token, settings.token), secret |-> secret]]
    /\ UNCHANGED <<settings, disk, unsaved, authorized>>
\* Everything the form holds, with routes pruned and texts normalised.
Filled(f) == [settings EXCEPT !.shown = f.shown, !.token = f.token,
                 !.secret = Meant(f.secret, settings.secret), !.loose = FALSE]
CommitForm(r) ==
    /\ save[r] \in Form
    /\ Persist(Filled(save[r]))
    /\ Ends(r) /\ UNCHANGED authorized

-----------------------------------------------------------------------------
(* AssistantSettings: propose, approve, save.                              *)

\* prepare and the preview: the digest of all settings goes with it.
Propose(r, shown) ==
    /\ save[r] = NoSave /\ authorized /\ shown # settings.shown
    /\ save' = [save EXCEPT ![r] = [at |-> "proposed", shown |-> shown, seen |-> settings]]
    /\ UNCHANGED <<settings, disk, unsaved, authorized>>
\* guard: the permission holds and nothing changed since the preview.
StillValid(e) == authorized /\ settings = e.seen
\* Approved: checked once more when the tool starts, then pip.
StartEdit(r) ==
    /\ save[r] \in Edit /\ save[r].at = "proposed" /\ StillValid(save[r])
    /\ save' = [save EXCEPT ![r].at = "checked"]
    /\ UNCHANGED <<settings, disk, unsaved, authorized>>
MayCommit(e) == StillValid(e)
\* Only the fields of the preview (update_fields).
Edited(e) == [settings EXCEPT !.shown = e.shown]
CommitEdit(r) ==
    /\ save[r] \in Edit /\ save[r].at = "checked" /\ MayCommit(save[r])
    /\ Persist(Edited(save[r]))
    /\ Ends(r) /\ UNCHANGED authorized
\* Refused, outdated, expired, or pip fails; of a form: invalid, or pip fails.
GiveUpSave(r) ==
    /\ save[r] # NoSave
    /\ Ends(r) /\ UNCHANGED <<settings, disk, unsaved, authorized>>

-----------------------------------------------------------------------------
(* Saves without a wait.                                                   *)

\* save_ai_settings_value puts its fields back when the write fails.
SaveAI(ai) ==
    /\ ai # settings.ai
    /\ Persist([settings EXCEPT !.ai = ai])
    /\ UNCHANGED <<save, authorized>>
\* The channel, cookie and route forms change the object in place and keep no
\* snapshot: after a failed write the platform runs with what is not saved.
SaveInPlace(token) ==
    /\ token # settings.token
    /\ settings' = [settings EXCEPT !.token = token, !.loose = FALSE]
    /\ \/ disk' = settings' /\ unsaved' = FALSE
       \/ unsaved' = TRUE /\ UNCHANGED disk
    /\ UNCHANGED <<save, authorized>>
\* The administrator turns the assistant or its actions off and on.
Authorize ==
    /\ authorized' = ~authorized
    /\ UNCHANGED <<settings, disk, unsaved, save>>
\* load_settings in a new process.
Reload ==
    /\ settings' = disk /\ unsaved' = FALSE
    /\ save' = [r \in Saves |-> NoSave]
    /\ UNCHANGED <<disk, authorized>>

SaveNext ==
    \/ \E r \in Saves, shown, token \in Contents :
          \E t \in {token, Mask}, s \in {Mask, token} : SubmitForm(r, shown, t, s)
    \/ \E r \in Saves :
          CommitForm(r) \/ StartEdit(r) \/ CommitEdit(r) \/ GiveUpSave(r)
    \/ \E r \in Saves, shown \in Contents : Propose(r, shown)
    \/ \E c \in Contents : SaveAI(c) \/ SaveInPlace(c)
    \/ Authorize \/ Reload
SaveSpec == SaveInit /\ [][SaveNext]_saveVars

-----------------------------------------------------------------------------
(* Properties.                                                             *)

\* The platform runs with what a restart would load, whichever saves overlap
\* and fail, but for a failed write of the forms that keep no snapshot.
RunsWhatIsSaved == settings = disk \/ unsaved
\* An approved edit changes what its preview showed, of the settings its preview
\* was made from, and only while the permission holds: whatever other requests
\* did while it waited for the approval and for pip.
EditsWhatWasSeen ==
    \A r \in Saves :
        save[r] \in Edit /\ save'[r] = NoSave /\ settings' # settings
           /\ (\A q \in Saves \ {r} : save'[q] = save[q])
        => \/ authorized /\ settings' = [save[r].seen EXCEPT !.shown = save[r].shown]
           \/ settings' = disk
\* Of overlapping saves each does what it said or nothing, and none leaves the
\* running platform with settings that are not those of the file.
ApprovedAsSeen == [][EditsWhatWasSeen /\ RunsWhatIsSaved' /\ SaveTypeOK']_saveVars
=============================================================================
