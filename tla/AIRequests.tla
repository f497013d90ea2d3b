----------------------------- MODULE AIRequests -----------------------------
(***************************************************************************)
(* The AI service, services/ai.py, with the counters of ai_usage.py: a     *)
(* logical request tries the protocols of its model and then, once, the    *)
(* fallback model; it holds a slot while it is sent and shares one budget. *)
(*                                                                         *)
(* One provider with automatic detection, its default model and the        *)
(* fallback.  A streamed request is a tool_turn with on_delta; a plain one *)
(* stands for chat, vision and generate_image, which have no budget.       *)
(***************************************************************************)
EXTENDS Naturals, FiniteSets, Sequences

CONSTANTS Requests,
          Budget,      \* budget_tokens of a streamed request
          Changes      \* bound of the changes of max_concurrency

ASSUME RequestsAssumption == IsFiniteSet(Requests) /\ Budget \in Nat \ {0} /\ Changes \in Nat

VARIABLES speaks,     \* what each model understands
          learned,    \* _detected_protocols of the provider
          streamed,   \* the streamed requests
          stage,      \* of each request
          model,      \* "default" or "fallback"
          untried,    \* the protocols that are left, in their order
          used,       \* of the budget
          reason,     \* of the last failure
          pool,       \* the semaphore each request uses
          limits,     \* the semaphores made so far, with their limits
          limitChanges,
          usage,      \* active, total, succeeded, failed
          \* History, for the properties.
          heard,      \* the streamed requests whose model handed the caller part of an answer
          mistaken    \* the requests that failed as if their model did not speak its protocol

heardOf == <<heard, mistaken>>
aiVars == <<speaks, learned, streamed, stage, model, untried, used, reason, pool, limits, limitChanges,
            usage, heardOf>>

Protocols == {"chat", "responses", "messages"}
Order == <<"chat", "responses", "messages">>
Models == {"default", "fallback"}
Stages == {"idle", "ready", "waiting", "sent", "failed", "answered", "raised"}
Counters == {"active", "succeeded", "failed"}
Reasons == {"none", "mismatch", "broken", "budget", "other"}
AITypeOK ==
    /\ speaks \in [Models -> Protocols \cup {"nothing"}] /\ learned \in Protocols \cup {"unknown"}
    /\ streamed \subseteq Requests /\ stage \in [Requests -> Stages] /\ model \in [Requests -> Models]
    /\ \A r \in Requests : Len(untried[r]) <= 3 /\ pool[r] \in 1..Len(limits)
    /\ used \in [Requests -> 0..Budget] /\ heard \subseteq streamed /\ mistaken \subseteq Requests
    /\ reason \in [Requests -> Reasons]
    /\ limitChanges \in 0..Changes /\ usage \in [Counters -> 0..Cardinality(Requests)]

AIInit ==
    /\ speaks \in [Models -> Protocols \cup {"nothing"}]
    /\ learned = "unknown" /\ streamed \in SUBSET Requests
    /\ stage = [r \in Requests |-> "idle"] /\ model = [r \in Requests |-> "default"]
    /\ untried = [r \in Requests |-> <<>>] /\ used = [r \in Requests |-> 0]
    /\ heard = {} /\ mistaken = {} /\ reason = [r \in Requests |-> "none"]
    /\ pool = [r \in Requests |-> 1] /\ limits = <<1>> /\ limitChanges = 0
    /\ usage = [k \in Counters |-> 0]

\* protocol_candidates: what was learned is the only candidate.
Candidates == IF learned = "unknown" THEN Order ELSE <<learned>>

\* usage.begin, then _text_request with the default model.
BeginRequest(r) ==
    /\ stage[r] = "idle"
    /\ stage' = [stage EXCEPT ![r] = "ready"]
    /\ untried' = [untried EXCEPT ![r] = Candidates]
    /\ usage' = [usage EXCEPT !["active"] = @ + 1]
    /\ UNCHANGED <<speaks, learned, streamed, model, used, reason, pool, limits, limitChanges, heardOf>>

\* The reservation is shared by every attempt and never given back.
Affordable(r, cost) == used[r] + cost <= Budget
\* Reserve, then ask for the semaphore that is current now.
Attempt(r, cost) ==
    /\ stage[r] = "ready"
    /\ IF r \in streamed /\ ~Affordable(r, cost)
       THEN /\ stage' = [stage EXCEPT ![r] = "failed"]
            /\ reason' = [reason EXCEPT ![r] = "budget"]
            /\ UNCHANGED <<used, pool>>
       ELSE /\ stage' = [stage EXCEPT ![r] = "waiting"]
            /\ used' = IF r \in streamed THEN [used EXCEPT ![r] = @ + cost] ELSE used
            /\ pool' = [pool EXCEPT ![r] = Len(limits)]
            /\ UNCHANGED reason
    /\ UNCHANGED <<speaks, learned, streamed, model, untried, limits, limitChanges, usage, heardOf>>

Sending(p) == {r \in Requests : stage[r] = "sent" /\ pool[r] = p}
Send(r) ==
    /\ stage[r] = "waiting" /\ Cardinality(Sending(pool[r])) < limits[pool[r]]
    /\ stage' = [stage EXCEPT ![r] = "sent"]
    /\ UNCHANGED <<speaks, learned, streamed, model, untried, used, reason, pool, limits, limitChanges, usage, heardOf>>

\* The settings changed: the next request makes a new semaphore.
SetLimit(n) ==
    /\ limitChanges < Changes /\ limits[Len(limits)] # n
    /\ limitChanges' = limitChanges + 1
    /\ limits' = Append(limits, n)
    /\ UNCHANGED <<speaks, learned, streamed, stage, model, untried, used, reason, pool, usage, heardOf>>

\* The variables of the call are gone.
RequestEnds(r, how) ==
    /\ stage' = [stage EXCEPT ![r] = IF how = "succeeded" THEN "answered" ELSE "raised"]
    /\ usage' = [usage EXCEPT !["active"] = @ - 1, ![how] = @ + 1]
    /\ model' = [model EXCEPT ![r] = "default"] /\ untried' = [untried EXCEPT ![r] = <<>>]
    /\ used' = [used EXCEPT ![r] = 0] /\ reason' = [reason EXCEPT ![r] = "none"]
    /\ pool' = [pool EXCEPT ![r] = 1]
    /\ heard' = heard \ {r} /\ mistaken' = mistaken \ {r}
    /\ UNCHANGED <<speaks, streamed, limits, limitChanges>>

Fails(r, why) ==
    /\ reason' = [reason EXCEPT ![r] = why]
    /\ stage' = [stage EXCEPT ![r] = "failed"]
    /\ UNCHANGED <<speaks, learned, streamed, model, untried, used, pool, limits, limitChanges, usage>>
\* No usable model or key, or the plugin may not use the capability.
Unresolved(r) ==
    /\ stage[r] = "ready"
    /\ Fails(r, "other") /\ UNCHANGED heardOf
\* The model understood the protocol, which is remembered.
Succeed(r) ==
    /\ stage[r] = "sent" /\ speaks[model[r]] = Head(untried[r])
    /\ learned' = Head(untried[r])
    /\ RequestEnds(r, "succeeded")
WrongProtocol(r) ==
    /\ stage[r] = "sent" /\ speaks[model[r]] # Head(untried[r])
    /\ Fails(r, "mismatch") /\ UNCHANGED heardOf
\* The caller of a streamed request may have been handed part of the answer.
Heard(r) == heard' \in IF r \in streamed THEN {heard, heard \cup {r}} ELSE {heard}
\* A stream that breaks, also before its first byte, is never tried again.
StreamBreaks(r) ==
    /\ stage[r] = "sent" /\ r \in streamed
    /\ Fails(r, "broken") /\ Heard(r)
    /\ UNCHANGED mistaken
\* An error of the service or of the receiver of the stream, or a whole answer
\* whose tool calls cannot be used.
ServiceFails(r) ==
    /\ stage[r] = "sent"
    /\ Fails(r, "other") /\ Heard(r)
    /\ UNCHANGED mistaken
\* A whole answer without a text or a call, or an error whose words look like it,
\* is taken for a protocol that the model does not speak.
Mistake(r) ==
    /\ stage[r] = "sent"
    /\ Fails(r, "mismatch") /\ Heard(r)
    /\ mistaken' = mistaken \cup {r}

MayTryProtocol(r) == reason[r] = "mismatch" /\ Len(untried[r]) > 1
\* tool_turn does not fall back after a used up budget or a broken stream.
MayFallBack(r) == model[r] = "default" /\ reason[r] \notin {"budget", "broken"}
NextProtocol(r) ==
    /\ stage[r] = "failed" /\ MayTryProtocol(r)
    /\ stage' = [stage EXCEPT ![r] = "ready"]
    /\ untried' = [untried EXCEPT ![r] = Tail(@)] /\ reason' = [reason EXCEPT ![r] = "none"]
    /\ UNCHANGED <<speaks, learned, streamed, model, used, pool, limits, limitChanges, usage, heardOf>>
\* fault: the fallback is counted as a request of its own.
CountedAgain == [usage EXCEPT !["active"] = @ + 1]
\* _track_usage is FALSE in the inner call.
NotCounted == usage
FallBack(r) ==
    /\ stage[r] = "failed" /\ ~MayTryProtocol(r) /\ MayFallBack(r)
    /\ stage' = [stage EXCEPT ![r] = "ready"]
    /\ model' = [model EXCEPT ![r] = "fallback"]
    /\ untried' = [untried EXCEPT ![r] = Candidates] /\ reason' = [reason EXCEPT ![r] = "none"]
    /\ usage' = NotCounted /\ heard' = heard \ {r}
    /\ UNCHANGED <<speaks, learned, streamed, used, pool, limits, limitChanges, mistaken>>
Raise(r) ==
    /\ stage[r] = "failed" /\ ~MayTryProtocol(r)
    /\ RequestEnds(r, "failed") /\ UNCHANGED learned
\* The caller is cancelled at any await: the finally counts a failure.
CancelRequest(r) ==
    /\ stage[r] \in {"waiting", "sent"}
    /\ RequestEnds(r, "failed") /\ UNCHANGED learned

AINext ==
    \/ \E r \in Requests :
        \/ BeginRequest(r) \/ \E cost \in 1..2 : Attempt(r, cost)
        \/ Unresolved(r) \/ Send(r) \/ Succeed(r) \/ WrongProtocol(r)
        \/ StreamBreaks(r) \/ ServiceFails(r) \/ Mistake(r)
        \/ NextProtocol(r) \/ FallBack(r) \/ Raise(r) \/ CancelRequest(r)
    \/ \E n \in 1..2 : SetLimit(n)
AISpec == AIInit /\ [][AINext]_aiVars

-----------------------------------------------------------------------------
(* Properties.                                                             *)

\* Whatever the attempts, the fallback and the cancellations, each logical
\* request is counted once: as active until it ends, then as one outcome.
CountedOnce ==
    /\ usage["active"] = Cardinality({r \in Requests : stage[r] \notin {"idle", "answered", "raised"}})
    /\ usage["succeeded"] = Cardinality({r \in Requests : stage[r] = "answered"})
    /\ usage["failed"] = Cardinality({r \in Requests : stage[r] = "raised"})

\* A request of which the caller was handed part of an answer is not sent again
\* because the stream broke; and the model is asked in another protocol only after
\* a whole answer, or an error, that was taken for a mismatch.
NotReplayed ==
    \A r \in heard : stage[r] = "failed" /\ stage'[r] = "ready" =>
        reason[r] # "broken" /\ (model'[r] = model[r] => r \in mistaken)

\* All attempts together reserve no more than the budget of the request.
BudgetShared == \A r \in Requests : used[r] <= Budget

\* A request fails for its protocol only if the model speaks none of them, if
\* something else was taken for a mismatch, or if the other model speaks another
\* protocol: only that can have been remembered for the whole provider instead.
DetectionIsComplete ==
    \A r \in Requests \ mistaken : stage[r] = "failed" /\ reason[r] = "mismatch" /\ stage'[r] = "raised" =>
        \/ speaks[model[r]] = "nothing"
        \/ \E m \in Models : speaks[m] \in Protocols \ {speaks[model[r]]}

\* A logical request is one request to its caller, to its budget and to the
\* statistics, through all its attempts, protocols and models.
RequestIsOne ==
    [][NotReplayed /\ CountedOnce' /\ BudgetShared' /\ DetectionIsComplete /\ AITypeOK']_aiVars
=============================================================================
