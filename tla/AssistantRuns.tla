---------------------------- MODULE AssistantRuns ----------------------------
(***************************************************************************)
(* The runs of the assistant: submit, steer, confirm, answer, cancel, the  *)
(* settings, close and _drive of assistant.py, with the recognition of     *)
(* media, the summary of assistant_context.py and the read-only helpers of *)
(* assistant_delegates.py that share the slots.                            *)
(*                                                                         *)
(* A session has at most one run; its index stands for the run too.  A     *)
(* reply asks for at most one tool and a delegation has one helper.  The   *)
(* admission lock is held over the transactions of submit, and of the      *)
(* settings; the other sections under it have no await that matters here.  *)
(***************************************************************************)
EXTENDS Naturals, FiniteSets

CONSTANTS Sessions,   \* the sessions that run at once
          Slots,      \* what _slots admits at once
          Steers,     \* bound of the requirements added to one run
          Rounds      \* bound of the rounds of one run

ASSUME RunsAssumption ==
    /\ IsFiniteSet(Sessions) /\ Sessions \cap {"free", "off", "read", "write"} = {}
    /\ Slots \in Nat \ {0} /\ Steers \in Nat /\ Rounds \in Nat \ {0}

VARIABLES pc,        \* where the worker of each session stands
          purpose,   \* what it wants its slot for, or how its run ended
          round,     \* rounds begun
          queued,    \* _steering: requirements not yet seen by the model
          taken,     \* those in the round that is under way
          answered,  \* those the model has replied to
          kept,      \* those reported as unprocessed at the end
          accepted,  \* those the console accepted
          helper,    \* the helper of a delegation: "none", "slot", "work"
          approval,  \* "none", "given", "expired"
          doubtful,  \* a write began whose outcome is not known
          mode,      \* the settings: "off", "read" (no actions), "write"
          lock,      \* who holds _lock over a transaction
          closing    \* close: "no", "closed" (_closed is set), "waiting", "done"

steering == <<queued, taken, answered, kept, accepted>>
runVars == <<pc, purpose, round, steering, helper, approval, doubtful, mode, lock, closing>>

Positions == {"none", "top", "slot", "work", "approving", "asking", "delegating", "ending", "saving", "lost"}
Purposes == {"none", "media", "summary", "turn", "read", "write",
             "completed", "failed", "stopped", "cancelled"}
Active == {"top", "slot", "work", "approving", "asking", "delegating"}
RunsTypeOK ==
    /\ pc \in [Sessions -> Positions] /\ purpose \in [Sessions -> Purposes]
    /\ round \in [Sessions -> 0..Rounds]
    /\ \A f \in {queued, taken, answered, kept, accepted} : f \in [Sessions -> 0..Steers]
    /\ helper \in [Sessions -> {"none", "slot", "work"}] /\ approval \in [Sessions -> {"none", "given", "expired"}]
    /\ doubtful \in [Sessions -> BOOLEAN] /\ mode \in {"off", "read", "write"}
    /\ lock \in Sessions \cup {"free", "off", "read", "write"} /\ closing \in {"no", "closed", "waiting", "done"}

Each(v) == [s \in Sessions |-> v]
RunsInit ==
    /\ pc = Each("none") /\ purpose = Each("none") /\ round = Each(0)
    /\ queued = Each(0) /\ taken = Each(0) /\ answered = Each(0) /\ kept = Each(0) /\ accepted = Each(0)
    /\ helper = Each("none") /\ approval = Each("none") /\ doubtful = Each(FALSE)
    /\ mode = "write" /\ lock = "free" /\ closing = "no"

On == mode # "off" /\ closing = "no"
Goes(s, there, why) == pc' = [pc EXCEPT ![s] = there] /\ purpose' = [purpose EXCEPT ![s] = why]

-----------------------------------------------------------------------------
(* Admission.                                                              *)

\* submit, up to its transaction.  A worker that is still in the table keeps
\* its session from another run.
Submit(s) ==
    /\ lock = "free" /\ On
    /\ pc[s] = "none"
    /\ lock' = s
    /\ UNCHANGED <<pc, purpose, round, steering, helper, approval, doubtful, mode, closing>>
\* The transaction has stored message and run, and the worker starts; or the
\* request was cancelled meanwhile and the run is recorded as not executed.
Admitted(s) ==
    /\ lock = s /\ lock' = "free"
    /\ \/ \E first \in {"media", "summary"} : Goes(s, "slot", first)
       \/ Goes(s, "top", "none")
       \/ UNCHANGED <<pc, purpose>>
    /\ UNCHANGED <<round, steering, helper, approval, doubtful, mode, closing>>

\* steer: only an active run accepts a requirement.
Steerable(s) == pc[s] \in Active
Steer(s) ==
    /\ lock = "free" /\ Steerable(s) /\ accepted[s] < Steers
    /\ queued' = [queued EXCEPT ![s] = @ + 1]
    /\ accepted' = [accepted EXCEPT ![s] = @ + 1]
    /\ UNCHANGED <<pc, purpose, round, taken, answered, kept, helper, approval, doubtful, mode, lock, closing>>

-----------------------------------------------------------------------------
(* The rounds.                                                             *)

Kept(s) == UNCHANGED <<steering, mode, lock, closing>>
Ends(s, how) == Goes(s, "ending", how)

\* The beginning of a round takes what was added; then it waits for a slot.
BeginRound(s) ==
    /\ pc[s] = "top" /\ lock = "free"
    /\ IF On /\ round[s] < Rounds
       THEN /\ Goes(s, "slot", "turn")
            /\ taken' = [taken EXCEPT ![s] = queued[s]] /\ queued' = [queued EXCEPT ![s] = 0]
            /\ round' = [round EXCEPT ![s] = @ + 1]
       ELSE Ends(s, IF On THEN "failed" ELSE "stopped") /\ UNCHANGED <<taken, queued, round>>
    /\ UNCHANGED <<answered, kept, accepted, helper, approval, doubtful, mode, lock, closing>>

Holds(s) == pc[s] = "work" \/ helper[s] = "work"
Holders == {s \in Sessions : Holds(s)}
SlotFree == Cardinality(Holders) < Slots

\* fault: the slot is taken on the word of the approval.
AsApproved(s) == TRUE
\* Looked at again in the slot: a write needs its right and an approval in time.
StillAllowed(s) == purpose[s] = "write" => mode = "write" /\ approval[s] = "given"
TakeSlot(s) ==
    /\ pc[s] = "slot" /\ SlotFree
    /\ IF ~On THEN Ends(s, "stopped") /\ UNCHANGED <<approval, doubtful>>
       ELSE IF ~StillAllowed(s) THEN Goes(s, "top", "none") /\ approval' = [approval EXCEPT ![s] = "none"] /\ UNCHANGED doubtful
       ELSE /\ Goes(s, "work", purpose[s])
            /\ doubtful' = [doubtful EXCEPT ![s] = @ \/ purpose[s] = "write"]
            /\ approval' = [approval EXCEPT ![s] = "none"]
    /\ UNCHANGED <<round, helper>> /\ Kept(s)

\* The model replies.  Without a tool the run completes, if nothing was added
\* meanwhile; the check and the end of the admission are under one lock.
\* fault: what was added during the last round is not looked at.
Satisfied(s) == TRUE
NothingAdded(s) == queued[s] = 0
FinalReply(s) ==
    /\ pc[s] = "work" /\ purpose[s] = "turn" /\ lock = "free"
    /\ answered' = [answered EXCEPT ![s] = @ + taken[s]] /\ taken' = [taken EXCEPT ![s] = 0]
    /\ IF NothingAdded(s) THEN Ends(s, "completed") ELSE Goes(s, "top", "none")
    /\ UNCHANGED <<round, queued, kept, accepted, helper, approval, doubtful, mode, lock, closing>>
\* Tools that the settings do not offer are answered with an error.
ToolReply(s) ==
    /\ pc[s] = "work" /\ purpose[s] = "turn" /\ lock = "free"
    /\ answered' = [answered EXCEPT ![s] = @ + taken[s]] /\ taken' = [taken EXCEPT ![s] = 0]
    /\ \/ Goes(s, "slot", "read") /\ UNCHANGED helper
       \/ Goes(s, "asking", "none") /\ UNCHANGED helper
       \/ Goes(s, "delegating", "none") /\ helper' = [helper EXCEPT ![s] = "slot"]
       \/ mode = "write" /\ Goes(s, "approving", "none") /\ UNCHANGED helper
       \/ Goes(s, "top", "none") /\ UNCHANGED helper
    /\ UNCHANGED <<round, queued, kept, accepted, approval, doubtful, mode, lock, closing>>
\* Speech, then the summary of an old dialogue, then images: each in a slot of
\* its own before the first round.
MediaDone(s) ==
    /\ pc[s] = "work" /\ purpose[s] = "media"
    /\ Goes(s, "top", "none") \/ Goes(s, "slot", "summary")
    /\ UNCHANGED <<round, helper, approval, doubtful>> /\ Kept(s)
SummaryDone(s) ==
    /\ pc[s] = "work" /\ purpose[s] = "summary"
    /\ Goes(s, "top", "none") \/ Goes(s, "slot", "media")
    /\ UNCHANGED <<round, helper, approval, doubtful>> /\ Kept(s)
\* The result of a tool goes to the next round.
WorkDone(s) ==
    /\ pc[s] = "work" /\ purpose[s] \in {"read", "write"}
    /\ Goes(s, "top", "none")
    /\ doubtful' = [doubtful EXCEPT ![s] = FALSE]
    /\ UNCHANGED <<round, helper, approval>> /\ Kept(s)
\* An error, or the time limit; the outcome of a write is then unknown.
AfterFailure(s) == IF purpose[s] = "read" THEN "top" ELSE "ending"
WorkFails(s) ==
    /\ pc[s] = "work"
    /\ \/ Goes(s, AfterFailure(s), IF AfterFailure(s) = "top" THEN "none" ELSE "failed")
       \/ Ends(s, "failed")
    /\ UNCHANGED <<round, helper, approval, doubtful>> /\ Kept(s)

-----------------------------------------------------------------------------
(* Confirmation, questions and delegation.                                 *)

\* confirm, once and in time; a refusal is never asked again by the run.
Confirm(s, yes) ==
    /\ pc[s] = "approving" /\ lock = "free"
    /\ IF yes /\ mode = "write" THEN Goes(s, "slot", "write") /\ approval' = [approval EXCEPT ![s] = "given"]
       ELSE Goes(s, "top", "none") /\ UNCHANGED approval
    /\ UNCHANGED <<round, helper, doubtful>> /\ Kept(s)
\* Fifteen minutes after the question; an approval that waited for its slot.
TimeIsUp(s) ==
    /\ pc[s] \in {"approving", "asking"}
    /\ Goes(s, "top", "none")
    /\ UNCHANGED <<round, helper, approval, doubtful>> /\ Kept(s)
ApprovalExpires(s) ==
    /\ approval[s] = "given"
    /\ approval' = [approval EXCEPT ![s] = "expired"]
    /\ UNCHANGED <<pc, purpose, round, helper, doubtful>> /\ Kept(s)
Answer(s) ==
    /\ pc[s] = "asking" /\ lock = "free"
    /\ Goes(s, "top", "none")
    /\ UNCHANGED <<round, helper, approval, doubtful>> /\ Kept(s)
HelperTakesSlot(s) ==
    /\ helper[s] = "slot" /\ SlotFree
    /\ helper' = [helper EXCEPT ![s] = "work"]
    /\ UNCHANGED <<pc, purpose, round, approval, doubtful>> /\ Kept(s)
HelperDone(s) ==
    /\ helper[s] = "work"
    /\ helper' = [helper EXCEPT ![s] = "none"]
    /\ Goes(s, "top", "none")
    /\ UNCHANGED <<round, approval, doubtful>> /\ Kept(s)

-----------------------------------------------------------------------------
(* The end of a run; cancellation, settings and shutdown.                  *)

\* finally: under the lock the unprocessed requirements are recorded; then the
\* session and the run are saved, the helpers are gone and the tables cleared.
Finish(s) ==
    /\ pc[s] = "ending" /\ lock = "free"
    /\ pc' = [pc EXCEPT ![s] = "saving"]
    /\ kept' = [kept EXCEPT ![s] = queued[s] + taken[s]]
    /\ UNCHANGED <<purpose, round, queued, taken, answered, accepted, helper, approval, doubtful, mode, lock, closing>>
Leave(s) ==
    /\ pc[s] = "saving"
    /\ Goes(s, "none", "none")
    /\ round' = [round EXCEPT ![s] = 0]
    /\ queued' = [queued EXCEPT ![s] = 0] /\ taken' = [taken EXCEPT ![s] = 0]
    /\ answered' = [answered EXCEPT ![s] = 0] /\ kept' = [kept EXCEPT ![s] = 0]
    /\ accepted' = [accepted EXCEPT ![s] = 0]
    /\ approval' = [approval EXCEPT ![s] = "none"] /\ doubtful' = [doubtful EXCEPT ![s] = FALSE]
    /\ UNCHANGED <<helper, mode, lock, closing>>

\* fault: a worker is interrupted however often somebody asks for it.
Unasked(s) == pc[s] = "ending"
\* A worker that was interrupted before is left alone (cancelling()).
Unguarded(s) == pc[s] = "ending" /\ purpose[s] # "cancelled"
\* An interrupted worker reaches its finally.  One that ended of itself and
\* waits there for the lock is thrown out of it, and clears no table.
Struck(S) == [s \in Sessions |-> IF s \in S /\ pc[s] \in Active THEN "ending"
                                 ELSE IF s \in S /\ Unguarded(s) THEN "lost" ELSE pc[s]]
CancelAll(S) ==
    /\ pc' = Struck(S)
    /\ purpose' = [s \in Sessions |-> IF s \in S /\ pc[s] \in Active THEN "cancelled" ELSE purpose[s]]
    /\ helper' = [s \in Sessions |-> IF s \in S THEN "none" ELSE helper[s]]
CancelRun(s) ==
    /\ pc[s] \in Active \cup {"ending"}
    /\ CancelAll({s})
    /\ UNCHANGED <<round, approval, doubtful>> /\ Kept(s)

\* update_settings: switching off cancels every worker, still under the lock.
SaveMode(m) ==
    /\ lock = "free" /\ closing = "no" /\ m # mode
    /\ lock' = m
    /\ UNCHANGED <<pc, purpose, round, steering, helper, approval, doubtful, mode, closing>>
ModeSaved ==
    /\ lock \in {"off", "read", "write"}
    /\ mode' = lock
    /\ lock' = "free"
    /\ IF lock = "off" THEN CancelAll(Sessions) ELSE UNCHANGED <<pc, purpose, helper>>
    /\ UNCHANGED <<round, steering, approval, doubtful, closing>>

CloseBegins ==
    /\ closing = "no" /\ closing' = "closed"
    /\ UNCHANGED <<pc, purpose, round, steering, helper, approval, doubtful, mode, lock>>
\* The admission barrier: the snapshot of the workers is taken under the lock.
Barrier == lock = "free"
CloseCancels ==
    /\ closing = "closed" /\ Barrier
    /\ closing' = "waiting"
    /\ CancelAll(Sessions)
    /\ UNCHANGED <<round, steering, approval, doubtful, mode, lock>>
CloseEnds ==
    /\ closing = "waiting"
    /\ \A s \in Sessions : pc[s] \in {"none", "lost"}
    /\ closing' = "done"
    /\ UNCHANGED <<pc, purpose, round, steering, helper, approval, doubtful, mode, lock>>

RunsNext ==
    \/ \E s \in Sessions :
        \/ Submit(s) \/ Admitted(s) \/ Steer(s) \/ BeginRound(s) \/ TakeSlot(s)
        \/ FinalReply(s) \/ ToolReply(s) \/ MediaDone(s) \/ SummaryDone(s) \/ WorkDone(s) \/ WorkFails(s)
        \/ TimeIsUp(s)
        \/ HelperTakesSlot(s) \/ HelperDone(s) \/ Finish(s) \/ Leave(s) \/ Answer(s) \/ ApprovalExpires(s) \/ CancelRun(s) \/ \E yes \in BOOLEAN : Confirm(s, yes)
    \/ \E m \in {"off", "read", "write"} : SaveMode(m)
    \/ ModeSaved \/ CloseBegins \/ CloseCancels \/ CloseEnds
RunsSpec == RunsInit /\ [][RunsNext]_runVars

-----------------------------------------------------------------------------
(* Properties.                                                             *)

\* What the administrator added to a run is answered by the model or reported
\* as unprocessed; a run that completed has answered all of it.
SteeringIsAnswered ==
    \A s \in Sessions :
        /\ pc[s] = "saving" => accepted[s] = answered[s] + kept[s]
        /\ pc[s] = "saving" /\ purpose[s] = "completed" => kept[s] = 0

\* A tool that changes something starts with the actions switched on, with an
\* approval of its own that has not expired, and never in a run one of whose
\* earlier changes has an unknown outcome.
WriteIsApproved ==
    [][\A s \in Sessions : pc[s] # "work" /\ pc'[s] = "work" /\ purpose'[s] = "write" =>
          On /\ mode = "write" /\ approval[s] = "given" /\ ~doubtful[s]]_runVars

\* After close no worker is left, also not one of a submission under way.
NothingRunsOn == closing = "done" => \A s \in Sessions : pc[s] \in {"none", "lost"}
\* A worker that is over is in no table: its session can be used again, also
\* when a button, the settings and the shutdown interrupt it one after the
\* other.  The exception is a run that had ended of itself and was interrupted
\* while it waited for the lock to record its end.
SessionIsFreed == \A s \in Sessions : pc[s] = "lost" => purpose[s] \in {"completed", "failed", "stopped"}
\* Never more work than slots; and whoever holds a slot waits for no further
\* one, so two runs that delegate at once do not wait for each other.
SlotsComeBack ==
    /\ Cardinality(Holders) <= Slots
    /\ \A s \in Holders : pc[s] # "slot" /\ helper[s] # "slot"

\* How a run ends: with all requirements accounted for, with its session and
\* its slot free again, and before the assistant is closed.
RunsEndOrderly ==
    RunsTypeOK /\ SteeringIsAnswered /\ NothingRunsOn /\ SessionIsFreed /\ SlotsComeBack
=============================================================================
