------------------------------- MODULE Notices -------------------------------
(***************************************************************************)
(* What the platform sends out on its own account (notifier.py,            *)
(* rich_delivery.py).  A notice of a plugin goes to its routed channels    *)
(* one after the other and, when all of them fail, to the owner's own      *)
(* account.  A private delivery - a text or a card for one WeCom member,   *)
(* an attachment fetched for one - waits for a token between its check and *)
(* its request.                                                            *)
(***************************************************************************)
EXTENDS Naturals, FiniteSets, Sequences, SequencesExt

CONSTANTS Channels,     \* channel identifiers
          RichChannels, \* Telegram: rich text is tried first
          Acknowledging,\* Bots with a token and WeCom: tell a refusal from silence
          Texts, Cards, Medias, \* private deliveries
          Apps          \* what a channel may be configured with: application, keys

ASSUME NoticesAssumption ==
    /\ IsFiniteSet(Channels) /\ Apps # {}
    /\ RichChannels \subseteq Channels /\ Acknowledging \subseteq Channels
    /\ Texts \cap (Cards \cup Medias) = {} /\ Cards \cap Medias = {}

VARIABLES todo,     \* channels still to be tried, in their order
          trying,   \* the request under way: rich, plain or none
          outcome,  \* outcome[ch] as the sender sees it
          copies,   \* copies[ch]: copies that arrived
          notification,   \* "new", "sending", "done", "raised", "account"
          delivery, \* delivery[d]: stage, the application it was checked with
          noticeConfig, \* the application now, and whether the recipient is permitted
          acted     \* history: what was sent or handed over, and the configuration then

routeVars == <<todo, trying, outcome, copies, notification>>
privateVars == <<delivery, noticeConfig, acted>>
noticesVars == <<routeVars, privateVars>>

Deliveries == Texts \cup Cards \cup Medias
NoticeConfigs == [app: Apps, permitted: BOOLEAN]
NoticesTypeOK ==
    /\ todo \in Seq(Channels) /\ trying \in {"none", "rich", "plain"}
    /\ outcome \in [Channels -> {"none", "ok", "failed", "uncertain"}]
    /\ copies \in [Channels -> Nat]
    /\ notification \in {"new", "sending", "done", "raised", "account"}
    /\ delivery \in [Deliveries -> [stage: {"idle", "waiting", "reading", "over", "uncertain"},
                                    app: Apps, chunks: 0..2]]
    /\ noticeConfig \in NoticeConfigs /\ acted \subseteq [app: Apps, under: NoticeConfigs]

RouteInit ==
    /\ \E s \in SetToSeqs(Channels) : todo = s
    /\ trying = "none" /\ notification = "new"
    /\ outcome = [ch \in Channels |-> "none"] /\ copies = [ch \in Channels |-> 0]
PrivateInit ==
    /\ noticeConfig = [app |-> CHOOSE a \in Apps : TRUE, permitted |-> TRUE] /\ acted = {}
    /\ delivery = [d \in Deliveries |-> [stage |-> "idle", app |-> noticeConfig.app, chunks |-> 0]]

-----------------------------------------------------------------------------
(* A notice and its channels.                                              *)

\* send: the next channel; an unknown or disabled one fails without a request.
TryChannel ==
    /\ notification \in {"new", "sending"} /\ trying = "none" /\ todo # <<>>
    /\ notification' = "sending"
    /\ \/ /\ trying' = IF Head(todo) \in RichChannels THEN "rich" ELSE "plain"
          /\ UNCHANGED <<todo, outcome>>
       \/ /\ outcome' = [outcome EXCEPT ![Head(todo)] = "failed"]
          /\ todo' = Tail(todo) /\ UNCHANGED trying
    /\ UNCHANGED copies

Concludes(ch, o) == /\ outcome' = [outcome EXCEPT ![ch] = o]
                    /\ todo' = Tail(todo) /\ trying' = "none"

Accepted == LET ch == Head(todo) IN
    /\ trying # "none" /\ Concludes(ch, "ok")
    /\ copies' = [copies EXCEPT ![ch] = @ + 1] /\ UNCHANGED notification

\* send_rich: only a refusal of the rich message itself is sent as plain text.
ChannelRejects == LET ch == Head(todo) IN
    /\ trying # "none" /\ UNCHANGED <<copies, notification>>
    /\ \/ trying = "rich" /\ trying' = "plain" /\ UNCHANGED <<todo, outcome>>
       \/ Concludes(ch, "failed")

\* fault: no answer is a failure on every channel.
AllAlike(ch) == "failed"
\* No answer: a Bot API or WeCom request that may have arrived is uncertain;
\* for the other kinds the exception is like any other.
Unclear(ch) == IF ch \in Acknowledging THEN "uncertain" ELSE "failed"
NoAnswer == LET ch == Head(todo) IN
    /\ trying # "none" /\ Concludes(ch, Unclear(ch)) /\ UNCHANGED notification
    /\ copies' \in {copies, [copies EXCEPT ![ch] = @ + 1]}

\* All channels tried: one that succeeded, one that is uncertain, or else the
\* owner's account.
Tried(o) == \E ch \in Channels : outcome[ch] = o
Conclude ==
    /\ notification = "sending" /\ todo = <<>>
    /\ notification' = CASE Tried("ok") -> "done" [] ~Tried("ok") /\ Tried("uncertain") -> "raised"
                   [] OTHER -> "account"
    /\ UNCHANGED <<todo, trying, outcome, copies>>

-----------------------------------------------------------------------------
(* Private deliveries.                                                     *)

ChangeConfig ==
    /\ noticeConfig' \in NoticeConfigs
    /\ UNCHANGED <<delivery, acted>>

\* The recipient, the channel and its application are checked and kept.
Check(d) ==
    /\ delivery[d].stage = "idle" /\ noticeConfig.permitted
    /\ delivery' = [delivery EXCEPT ![d].stage = "waiting", ![d].app = noticeConfig.app]
    /\ UNCHANGED <<noticeConfig, acted>>

\* before_send and check_permission: the second look.
Still(d) == noticeConfig.permitted /\ noticeConfig.app = delivery[d].app
DeliveryGoes(d, stage) == delivery' = [delivery EXCEPT ![d].stage = stage]
Acts(d) == acted' = acted \cup {[app |-> delivery[d].app, under |-> noticeConfig]}

\* The token is there: a text and a card are sent; the answer to a card may
\* not come in time.  A download begins.
SendPrivate(d) ==
    /\ delivery[d].stage = "waiting" /\ Still(d) /\ UNCHANGED noticeConfig
    /\ \/ d \in Texts /\ DeliveryGoes(d, "over") /\ Acts(d)
       \/ d \in Cards /\ (\E s \in {"over", "uncertain"} : DeliveryGoes(d, s)) /\ Acts(d)
       \/ d \in Medias /\ DeliveryGoes(d, "reading") /\ UNCHANGED acted

\* download_wecom_media: every part is checked, and the whole once more.
ReadPart(d) ==
    /\ delivery[d].stage = "reading" /\ delivery[d].chunks < 2 /\ Still(d)
    /\ delivery' = [delivery EXCEPT ![d].chunks = @ + 1]
    /\ UNCHANGED <<noticeConfig, acted>>
HandOver(d) ==
    /\ delivery[d].stage = "reading" /\ delivery[d].chunks > 0 /\ Still(d)
    /\ DeliveryGoes(d, "over") /\ Acts(d) /\ UNCHANGED noticeConfig

\* The second look fails, a token cannot be had, a card times out, an
\* attachment is too long or not one.
Abandon(d) ==
    /\ delivery[d].stage \in {"waiting", "reading"}
    /\ DeliveryGoes(d, "over") \/ (d \in Cards /\ DeliveryGoes(d, "uncertain"))
    /\ UNCHANGED <<noticeConfig, acted>>

NoticesInit == RouteInit /\ PrivateInit
RouteNext == TryChannel \/ Accepted \/ ChannelRejects \/ NoAnswer \/ Conclude
PrivateNext == \/ ChangeConfig
               \/ \E d \in Deliveries : \/ Check(d) \/ SendPrivate(d) \/ ReadPart(d)
                                        \/ HandOver(d) \/ Abandon(d)
NoticesNext == \/ RouteNext /\ UNCHANGED privateVars
               \/ PrivateNext /\ UNCHANGED routeVars
NoticesSpec == NoticesInit /\ [][NoticesNext]_noticesVars

-----------------------------------------------------------------------------
\* No channel gets a notice twice - a rich message that may have arrived is not
\* followed by a plain one - and the owner's account is used only when nothing
\* has arrived by a channel that tells a refusal from a lost answer.  After a
\* lost answer of another kind of channel it may bring a second copy.
NoSecondCopy == /\ \A ch \in Channels : copies[ch] <= 1
                /\ notification = "account" => \A ch \in Acknowledging : copies[ch] = 0

\* What is sent or handed over for a recipient, is so while he is permitted and
\* with the application that was checked, however long the token took.
ActsAsChecked == \A x \in acted : x.under.permitted /\ x.under.app = x.app

\* Every recipient gets what was checked for him, and no copy more than the
\* kinds of his channels allow.
DeliveredAsChecked == NoticesTypeOK /\ NoSecondCopy /\ ActsAsChecked
=============================================================================
