------------------------- MODULE AssistantChannels -------------------------
(***************************************************************************)
(* The message channels of the assistant, assistant_channels.py: pairing,  *)
(* receipts, the bounded queue and its workers, the watcher that brings    *)
(* previews and results, and the buttons below a preview.                  *)
(*                                                                         *)
(* One sender of one Bot or application.  message_epoch changes with every *)
(* session and every command, so <<generation, message_epoch>> identifies  *)
(* the dialogue a message or a button belongs to.  A confirmation and a    *)
(* question are the same thing here: an operation that waits for a click.  *)
(***************************************************************************)
EXTENDS Naturals, FiniteSets, Sequences

CONSTANTS Messages,   \* provider messages; each can be delivered again
          Clerks,     \* the workers of the queue
          Waiting,    \* what the queue holds
          Turns,      \* bound of the pairings and of the commands of one pairing
          Asks,       \* bound of the operations that need a click
          Crashes     \* bound of the restarts

ASSUME ChannelsAssumption ==
    Waiting \in Nat \ {0} /\ {Turns, Asks, Crashes} \subseteq Nat /\ "free" \notin Clerks

VARIABLES binding,    \* the live binding: its dialogue and enabled
          pairs,      \* generations handed out
          ticket,     \* an unused pairing code exists
          bot,        \* "on", "away" (reconnecting), "other" (identity or right changed)
          receipts,   \* channel_receipt documents
          inbox,      \* _queue: <<message, dialogue>>
          clerk,      \* what each worker is at
          peer,       \* who holds the lock of this sender
          active,     \* the session has an active run
          asked,      \* operations the run asked for
          pending,    \* the one that waits, or 0
          watcher,    \* the watcher of the run
          record,     \* the button record of the binding
          screen,     \* buttons the user can see
          proven,     \* those below a preview that arrived completely
          begun,      \* how often each message was given to the assistant
          acceptedMail,   \* the dialogue in which each message was accepted
          gone,       \* the session of the binding was deleted or pruned
          left,       \* the last dialogue the user ended in this pairing
          crashes

dialogue == <<binding, pairs, ticket, bot>>
mail == <<receipts, inbox, clerk, begun, acceptedMail>>
run == <<active, asked, pending>>
desk == <<watcher, record, screen, proven>>
others == <<gone, left, crashes>>
channelVars == <<dialogue, mail, peer, run, desk, others>>

Dialogues == (1..Turns) \X (0..Turns)
Buttons == (1..Asks) \X Dialogues
Unpaired == [talk |-> <<0, 0>>, on |-> FALSE]
NoTalk == <<0, 0>>
NoButton == <<0, NoTalk>>
Resting == [at |-> "rest", talk |-> NoTalk, for |-> 0]
Idling == [at |-> "idle", msg |-> <<>>]

ChannelsTypeOK ==
    /\ binding.talk \in Dialogues \cup {NoTalk} /\ binding.on \in BOOLEAN /\ pairs \in 0..Turns
    /\ ticket \in BOOLEAN /\ bot \in {"on", "away", "other"} /\ receipts \subseteq Messages
    /\ Len(inbox) <= Waiting /\ \A n \in DOMAIN inbox : inbox[n] \in Messages \X Dialogues
    /\ \A c \in Clerks : clerk[c].at \in {"idle", "media", "admits", "calls"}
    /\ peer \in Clerks \cup {"free"} /\ active \in BOOLEAN /\ asked \in 0..Asks /\ pending \in 0..asked
    /\ watcher.at \in {"rest", "look", "sends", "sent"} /\ record \in Buttons \cup {NoButton}
    /\ screen \subseteq Buttons /\ proven \subseteq screen
    /\ begun \in [Messages -> 0..2] /\ acceptedMail \in [Messages -> Dialogues \cup {NoTalk}] /\ crashes \in 0..Crashes
    /\ gone \in BOOLEAN /\ left \in Dialogues \cup {NoTalk}

ChannelsInit ==
    /\ binding = Unpaired /\ pairs = 0 /\ ticket = FALSE /\ bot = "on"
    /\ receipts = {} /\ inbox = <<>> /\ clerk = [c \in Clerks |-> Idling] /\ peer = "free"
    /\ active = FALSE /\ asked = 0 /\ pending = 0
    /\ watcher = Resting /\ record = NoButton /\ screen = {} /\ proven = {}
    /\ begun = [m \in Messages |-> 0] /\ acceptedMail = [m \in Messages |-> NoTalk]
    /\ gone = FALSE /\ left = NoTalk /\ crashes = 0

Paired == binding # Unpaired
\* _live: the pairing an item was made under, its identity and its rights.
Live(talk) == Paired /\ binding.talk[1] = talk[1] /\ bot # "other"
\* The three comparisons every use of a copied item repeats.
SameDialogue(talk) == Live(talk) /\ binding.talk = talk /\ binding.on

-----------------------------------------------------------------------------
(* The connection, pairing, revocation and the commands.                   *)

\* Reconnection, a changed identity or permission, attach_bot.
BotChanges(b) ==
    /\ b # bot /\ bot' = b
    /\ UNCHANGED <<binding, pairs, ticket, mail, peer, run, desk, others>>
MakeCode ==
    /\ ~ticket /\ pairs < Turns
    /\ ticket' = TRUE
    /\ UNCHANGED <<binding, pairs, bot, mail, peer, run, desk, others>>
CodeExpires ==
    /\ ticket /\ ticket' = FALSE
    /\ UNCHANGED <<binding, pairs, bot, mail, peer, run, desk, others>>

StopRun == active' = FALSE /\ pending' = 0
\* A code is used once; a sender that pairs again loses the former dialogue
\* and its run, whose watcher finds out by itself.
Pair ==
    /\ ticket /\ peer = "free"
    /\ ticket' = FALSE
    /\ pairs' = pairs + 1
    /\ binding' = [talk |-> <<pairs + 1, 0>>, on |-> TRUE]
    /\ record' = NoButton
    /\ StopRun /\ gone' = FALSE
    /\ UNCHANGED <<bot, mail, peer, asked, watcher, screen, proven, left, crashes>>
Undisturbed == peer = "free"
Revoke ==
    /\ Paired /\ Undisturbed
    /\ binding' = Unpaired
    /\ record' = NoButton /\ watcher' = Resting
    /\ StopRun
    /\ UNCHANGED <<pairs, ticket, bot, mail, peer, asked, screen, proven, others>>

Onwards(t) == <<t[1], t[2] + 1>>
MoreTurns == binding.talk[2] < Turns
Command == Paired /\ peer = "free" /\ bot = "on" /\ MoreTurns /\ left' = binding.talk
\* /助手 and /退出助手.  Coming back looks for the run that is still active.
Switch(on) ==
    /\ Command /\ binding.on # on
    /\ binding' = [talk |-> Onwards(binding.talk), on |-> on]
    /\ record' = NoButton
    /\ watcher' = IF on /\ active THEN [at |-> "look", talk |-> Onwards(binding.talk), for |-> 0] ELSE watcher
    /\ UNCHANGED <<pairs, ticket, bot, mail, peer, run, screen, proven, gone, crashes>>
\* /停止
StopCommand ==
    /\ Command
    /\ binding' = [binding EXCEPT !.talk = Onwards(@)]
    /\ record' = NoButton
    /\ StopRun
    /\ UNCHANGED <<pairs, ticket, bot, mail, peer, asked, watcher, screen, proven, gone, crashes>>
\* /新会话
NewSession ==
    /\ Command /\ ~active
    /\ binding' = [talk |-> Onwards(binding.talk), on |-> TRUE]
    /\ record' = NoButton /\ gone' = FALSE
    /\ UNCHANGED <<pairs, ticket, bot, mail, peer, run, watcher, screen, proven, crashes>>
\* The console deletes the session of the binding, or prune drops it: neither
\* touches one with an active run, and neither asks the channel.
SessionGoes ==
    /\ Paired /\ ~active /\ ~gone
    /\ gone' = TRUE
    /\ UNCHANGED <<dialogue, mail, peer, run, desk, left, crashes>>

\* _session: a binding whose session is gone goes on in a new one, a new
\* dialogue for every item but the one that found out.
TalkNow == IF gone THEN Onwards(binding.talk) ELSE binding.talk
Rebuild ==
    /\ gone => MoreTurns
    /\ binding' = [binding EXCEPT !.talk = TalkNow]
    /\ record' = IF gone THEN NoButton ELSE record
    /\ gone' = FALSE

-----------------------------------------------------------------------------
(* Messages.                                                               *)

\* A full queue gives the receipt back: the provider may try again.
AfterFull(m) == receipts
Known(m) == m \in receipts
Receive(m) ==
    /\ Paired /\ binding.on /\ bot = "on" /\ peer = "free"
    /\ ~Known(m)
    /\ Rebuild
    /\ \/ /\ Len(inbox) < Waiting
          /\ inbox' = Append(inbox, <<m, TalkNow>>)
          /\ receipts' = receipts \cup {m}
          /\ acceptedMail' = [acceptedMail EXCEPT ![m] = TalkNow]
       \/ /\ Len(inbox) = Waiting
          /\ receipts' = AfterFull(m)
          /\ UNCHANGED <<inbox, acceptedMail>>
    /\ UNCHANGED <<pairs, ticket, bot, clerk, begun, peer, run, watcher, screen, proven, left, crashes>>

\* _work: the item is looked at, and its images, files or speech are fetched.
TakeMail(c) ==
    /\ clerk[c].at = "idle" /\ inbox # <<>>
    /\ inbox' = Tail(inbox)
    /\ clerk' = [clerk EXCEPT ![c] = IF SameDialogue(Head(inbox)[2]) THEN [at |-> "media", msg |-> Head(inbox)] ELSE Idling]
    /\ UNCHANGED <<dialogue, receipts, begun, acceptedMail, peer, run, desk, others>>
\* The download failed, or the Bot did not come back within a minute.
GiveUp(c) ==
    /\ clerk[c].at = "media"
    /\ clerk' = [clerk EXCEPT ![c] = Idling]
    /\ UNCHANGED <<dialogue, receipts, inbox, begun, acceptedMail, peer, run, desk, others>>
\* fault: what was checked before the download is enough.
CheckedOnce(c) == TRUE
StillCurrent(c) == SameDialogue(clerk[c].msg[2])
\* Looked at once more under the lock, with the Bot connected.
Admit(c) ==
    /\ clerk[c].at = "media" /\ peer = "free" /\ bot # "away"
    /\ IF StillCurrent(c)
       THEN clerk' = [clerk EXCEPT ![c].at = "admits"] /\ peer' = c
       ELSE clerk' = [clerk EXCEPT ![c] = Idling] /\ UNCHANGED peer
    /\ UNCHANGED <<dialogue, receipts, inbox, begun, acceptedMail, run, desk, others>>
\* The session is read, and made again if it is gone: the message goes on in
\* the new dialogue.
FindSession(c) ==
    /\ clerk[c].at = "admits"
    /\ IF gone /\ bot = "other"
       THEN /\ clerk' = [clerk EXCEPT ![c] = Idling] /\ peer' = "free"
            /\ UNCHANGED <<binding, record, gone>>
       ELSE /\ Rebuild
            /\ clerk' = [clerk EXCEPT ![c] = [at |-> "calls", msg |-> <<@.msg[1], TalkNow>>]]
            /\ UNCHANGED peer
    /\ UNCHANGED <<pairs, ticket, bot, receipts, inbox, begun, acceptedMail, run, watcher, screen, proven, left, crashes>>

\* The call is made once and its result may be unknown: it steers the active
\* run or starts one, which gets a watcher, or it is refused.
HandOver(c) ==
    /\ clerk[c].at = "calls" /\ bot = "on"
    /\ peer' = "free" /\ clerk' = [clerk EXCEPT ![c] = Idling]
    /\ begun' = [begun EXCEPT ![clerk[c].msg[1]] = @ + 1]
    /\ \/ /\ ~gone /\ active' = TRUE
          /\ watcher' = IF watcher.at = "rest" \/ ~active THEN [at |-> "look", talk |-> clerk[c].msg[2], for |-> 0] ELSE watcher
       \/ UNCHANGED <<active, watcher>>
    /\ UNCHANGED <<dialogue, receipts, inbox, acceptedMail, asked, pending, record, screen, proven, others>>
\* No call: a Bot that is away is waited for and everything is looked at again;
\* media for a busy session is answered, another Bot ends the attempt.
NoCall(c) ==
    /\ clerk[c].at = "calls" /\ peer' = "free"
    /\ clerk' = [clerk EXCEPT ![c] = IF bot = "away" THEN [@ EXCEPT !.at = "media"] ELSE Idling]
    /\ UNCHANGED <<dialogue, receipts, inbox, begun, acceptedMail, run, desk, others>>

-----------------------------------------------------------------------------
(* The run asks, the watcher shows, the user clicks.                       *)

RunAsks ==
    /\ active /\ pending = 0 /\ asked < Asks
    /\ asked' = asked + 1 /\ pending' = asked + 1
    /\ UNCHANGED <<dialogue, mail, peer, active, desk, others>>
\* Its time is up, or it is answered in the console, or by a text that reaches
\* the dialogue of the button, which is then taken away.
Settled ==
    /\ pending # 0 /\ pending' = 0
    /\ \/ UNCHANGED record
       \/ record # NoButton /\ Paired /\ bot = "on" /\ peer = "free" /\ record' = NoButton
    /\ UNCHANGED <<dialogue, mail, peer, active, asked, watcher, screen, proven, others>>
RunEnds ==
    /\ active /\ StopRun
    /\ UNCHANGED <<dialogue, mail, peer, asked, desk, others>>

\* A new operation: the former button dies before the preview is sent.
BeginPreview ==
    /\ watcher.at = "look" /\ pending \notin {0, watcher.for} /\ peer = "free" /\ bot = "on"
    /\ IF SameDialogue(watcher.talk)
       THEN record' = NoButton /\ watcher' = [watcher EXCEPT !.at = "sends", !.for = pending]
       ELSE watcher' = Resting /\ UNCHANGED record
    /\ UNCHANGED <<dialogue, mail, peer, run, screen, proven, others>>
Unproven == "look"
\* All parts and the buttons; or a part failed, with or without the buttons.
Preview(whole, seen) ==
    /\ watcher.at = "sends"
    /\ whole => bot = "on" /\ Live(watcher.talk) /\ seen
    /\ screen' = IF seen THEN screen \cup {<<watcher.for, watcher.talk>>} ELSE screen
    /\ proven' = IF whole THEN proven \cup {<<watcher.for, watcher.talk>>} ELSE proven
    /\ watcher' = [watcher EXCEPT !.at = IF whole THEN "sent" ELSE Unproven]
    /\ UNCHANGED <<dialogue, mail, peer, run, record, others>>
\* The record is kept only for what still waits in the same dialogue.
KeepRecord ==
    /\ watcher.at = "sent" /\ peer = "free"
    /\ watcher' = IF Live(watcher.talk) THEN [watcher EXCEPT !.at = "look"] ELSE Resting
    /\ record' = IF SameDialogue(watcher.talk) /\ pending = watcher.for THEN <<watcher.for, watcher.talk>> ELSE record
    /\ UNCHANGED <<dialogue, mail, peer, run, screen, proven, others>>
\* The result of a run that is over, sent once; or the binding has changed.
BringResult ==
    /\ (watcher.at = "look" /\ ~active) \/ (watcher.at # "rest" /\ ~Live(watcher.talk))
    /\ watcher' = Resting
    /\ UNCHANGED <<dialogue, mail, peer, run, record, screen, proven, others>>

\* interact: code, message, dialogue; the run itself checks the operation.
Matches(b) == record = b /\ b[2] = binding.talk
Click(b) ==
    /\ b \in screen /\ peer = "free"
    /\ Paired /\ binding.on /\ bot = "on" /\ Matches(b)
    /\ pending' = IF record[1] = pending THEN 0 ELSE pending
    /\ record' = IF record[1] = pending THEN NoButton ELSE record
    /\ UNCHANGED <<dialogue, mail, peer, active, asked, watcher, screen, proven, others>>

\* close or a crash, and start: bindings, records and receipts are stored;
\* the queue, the codes and the runs are gone.
RestartChannels ==
    /\ crashes < Crashes /\ crashes' = crashes + 1
    /\ ticket' = FALSE /\ inbox' = <<>> /\ clerk' = [c \in Clerks |-> Idling] /\ peer' = "free"
    /\ StopRun /\ watcher' = Resting
    /\ UNCHANGED <<binding, pairs, bot, receipts, begun, acceptedMail, asked, record, screen, proven, gone, left>>

ChannelsNext ==
    \/ \E b \in {"on", "away", "other"} : BotChanges(b)
    \/ MakeCode \/ CodeExpires \/ Pair \/ Revoke
    \/ \E on \in BOOLEAN : Switch(on)
    \/ StopCommand \/ NewSession \/ SessionGoes
    \/ \E m \in Messages : Receive(m)
    \/ \E c \in Clerks : TakeMail(c) \/ GiveUp(c) \/ Admit(c) \/ FindSession(c) \/ HandOver(c) \/ NoCall(c)
    \/ RunAsks \/ Settled \/ RunEnds \/ BeginPreview
    \/ \E whole, seen \in BOOLEAN : Preview(whole, seen)
    \/ KeepRecord \/ BringResult
    \/ \E b \in Buttons : Click(b)
    \/ RestartChannels
ChannelsSpec == ChannelsInit /\ [][ChannelsNext]_channelVars

-----------------------------------------------------------------------------
(* Properties.                                                             *)

\* A provider repeats messages, the process restarts, and sessions are deleted
\* and made again: still every message is handed to the assistant at most once,
\* to the pairing that accepted it, and never after /停止, /退出助手, /新会话, a new
\* pairing or a revocation that came after it was accepted.
NotHandedOverTwice ==
    \A m \in Messages : begun'[m] # begun[m] =>
        /\ begun[m] = 0 /\ Paired /\ binding.on
        /\ acceptedMail[m][1] = binding.talk[1]
        /\ left[1] = binding.talk[1] => left[2] < acceptedMail[m][2]

\* A click decides an operation only if the button belongs to that operation,
\* the whole preview of it arrived, and the dialogue is the one it was shown in.
ClickMeansPreview ==
    \A b \in Buttons : Click(b) /\ pending' # pending =>
        b[1] = pending /\ b \in proven /\ b[2] = binding.talk

\* Once the binding is revoked, no run it started goes on.
RevokedIsStopped == ~Paired => ~active

\* A dialogue does what its administrator said in it, once, and nothing after
\* its end.
DialogueIsObeyed ==
    [][NotHandedOverTwice /\ ClickMeansPreview /\ RevokedIsStopped' /\ ChannelsTypeOK']_channelVars
=============================================================================
