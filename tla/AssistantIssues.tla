-------------------------- MODULE AssistantIssues --------------------------
(***************************************************************************)
(* Problem reports of the assistant (assistant_issues.py): local drafts,   *)
(* the confirmation of one submission, the record that is durable before   *)
(* the only request to GitHub, and what a lost answer or a restart makes   *)
(* of it.  A report is its title and body; the source of a plugin is the   *)
(* generation that goes into the fingerprint, which starts at 0 again with *)
(* every start of the platform (market.py).  Identifiers are never reused. *)
(***************************************************************************)
EXTENDS Naturals, FiniteSets

CONSTANTS Drafts, Reports, Attempts,  \* identifiers, contents, confirmations
          MaxDrafts,     \* MAX_DRAFTS
          IssueChanges,  \* bound: generations of the source
          IssueRestarts  \* bound: restarts of the platform

ASSUME IssuesAssumption == {MaxDrafts, IssueChanges, IssueRestarts} \subseteq Nat

VARIABLES draft,    \* draft[d]: status, report and source of the document
          attempt,  \* attempt[x]: stage, draft, what was seen, not expired
          world,    \* the source now and the policy: a token, or "off"
          posts,    \* posts[d]: requests sent for the draft
          created,  \* the drafts GitHub made an issue of
          restarts

issuesVars == <<draft, attempt, world, posts, created, restarts>>

Policies == {"tokenA", "tokenB", "off"}
Statuses == {"none", "draft", "submitting", "failed", "succeeded", "uncertain", "gone"}
IssuesTypeOK ==
    /\ draft \in [Drafts -> [status: Statuses, report: Reports, source: 0..IssueChanges]]
    /\ attempt \in [Attempts -> [stage: {"idle", "asked", "confirmed", "claimed", "sent",
            "accepted", "refused", "over"}, draft: Drafts, fresh: BOOLEAN,
            seen: [source: 0..IssueChanges, policy: Policies]]]
    /\ world \in [source: 0..IssueChanges, policy: Policies]
    /\ posts \in [Drafts -> Nat] /\ created \subseteq Drafts
    /\ restarts \in 0..IssueRestarts

IssuesInit ==
    /\ world = [source |-> 0, policy |-> "tokenA"]
    /\ \E r \in Reports, d \in Drafts :
         /\ draft = [e \in Drafts |-> [status |-> "none", report |-> r, source |-> 0]]
         /\ attempt = [x \in Attempts |-> [stage |-> "idle", draft |-> d,
                                           fresh |-> TRUE, seen |-> world]]
    /\ posts = [d \in Drafts |-> 0] /\ created = {} /\ restarts = 0

AttemptTo(x, s) == attempt' = [attempt EXCEPT ![x].stage = s]
Mark(d, s) == draft' = [draft EXCEPT ![d].status = s]

-----------------------------------------------------------------------------
\* prepare_draft: the same report is found again while its outcome counts or
\* its draft is still good; otherwise a new draft, in the place of one whose
\* outcome is known when the list is full.
SourceNow == world.source
SameTarget(d) == draft[d].source = SourceNow
PolicyOn == world.policy # "off"
Stored == {d \in Drafts : draft[d].status \notin {"none", "gone"}}
Found(r) == \E d \in Stored :
    /\ draft[d].report = r
    /\ \/ draft[d].status \notin {"draft", "failed"}
       \/ draft[d].status = "draft" /\ SameTarget(d)
Removable == {d \in Stored : draft[d].status \notin {"submitting", "uncertain"}}

PrepareDraft(d, r) ==
    /\ draft[d].status = "none" /\ ~Found(r)
    /\ LET new == [status |-> "draft", report |-> r, source |-> SourceNow]
       IN IF Cardinality(Stored) < MaxDrafts
            THEN draft' = [draft EXCEPT ![d] = new]
            ELSE \E e \in Removable : draft' = [draft EXCEPT ![d] = new, ![e].status = "gone"]
    /\ UNCHANGED <<attempt, world, posts, created, restarts>>

\* prepare_submission: the preview that the administrator will confirm.
PrepareSubmission(x, d) ==
    /\ attempt[x].stage = "idle" /\ draft[d].status = "draft"
    /\ SameTarget(d) /\ PolicyOn
    /\ attempt' = [attempt EXCEPT ![x] = [stage |-> "asked", draft |-> d,
                                          fresh |-> TRUE, seen |-> world]]
    /\ UNCHANGED <<draft, world, posts, created, restarts>>

ConfirmDraft(x) ==
    /\ attempt[x].stage = "asked" /\ AttemptTo(x, "confirmed")
    /\ UNCHANGED <<draft, world, posts, created, restarts>>

ConfirmationExpires(x) ==
    /\ attempt[x].stage \in {"asked", "confirmed", "claimed"} /\ attempt[x].fresh
    /\ attempt' = [attempt EXCEPT ![x].fresh = FALSE]
    /\ UNCHANGED <<draft, world, posts, created, restarts>>

\* What was confirmed is still what would be sent.
StillValid(x) == attempt[x].fresh /\ attempt[x].seen = world /\ PolicyOn

\* submit, with _lock: the claim is durable before any request.
DraftClaimable(x) == draft[attempt[x].draft].status = "draft" /\ StillValid(x)
SubmitDraft(x) ==
    /\ attempt[x].stage = "confirmed"
    /\ IF DraftClaimable(x)
         THEN Mark(attempt[x].draft, "submitting") /\ AttemptTo(x, "claimed")
         ELSE AttemptTo(x, "over") /\ UNCHANGED draft
    /\ UNCHANGED <<world, posts, created, restarts>>

\* The executor is cancelled while the claim commits: nothing was sent.
CancelledClaim(x) ==
    /\ attempt[x].stage = "confirmed" /\ DraftClaimable(x)
    /\ \E s \in {"failed", "submitting"} : Mark(attempt[x].draft, s)
    /\ AttemptTo(x, "over")
    /\ UNCHANGED <<world, posts, created, restarts>>

\* The last look at the authorization, and the request.
Post(x) == LET d == attempt[x].draft IN
    /\ attempt[x].stage = "claimed"
    /\ IF StillValid(x)
         THEN /\ posts' = [posts EXCEPT ![d] = @ + 1]
              /\ AttemptTo(x, "sent") /\ UNCHANGED draft
         ELSE Mark(d, "failed") /\ AttemptTo(x, "over") /\ UNCHANGED posts
    /\ UNCHANGED <<world, created, restarts>>

GitHubAnswers(x) ==
    /\ attempt[x].stage = "sent"
    /\ \/ created' = created \cup {attempt[x].draft} /\ AttemptTo(x, "accepted")
       \/ AttemptTo(x, "refused") /\ UNCHANGED created
    /\ UNCHANGED <<draft, world, posts, restarts>>

\* A well-formed 201 is a success, a listed refusal a failure.
Record(x) ==
    /\ \/ attempt[x].stage = "accepted" /\ Mark(attempt[x].draft, "succeeded")
       \/ attempt[x].stage = "refused" /\ Mark(attempt[x].draft, "failed")
    /\ AttemptTo(x, "over")
    /\ UNCHANGED <<world, posts, created, restarts>>

\* A timeout, a cancellation, a 5xx, an answer that cannot be read, or a
\* record that cannot be written (it stays as it is).
Unknown == {"uncertain", "submitting"}
LoseAnswer(x) == LET d == attempt[x].draft IN
    /\ attempt[x].stage \in {"sent", "accepted", "refused"}
    /\ \E s \in Unknown : Mark(d, s)
    /\ created' \in IF attempt[x].stage = "sent" THEN {created, created \cup {d}} ELSE {created}
    /\ AttemptTo(x, "over")
    /\ UNCHANGED <<world, posts, restarts>>

\* fault: a restart takes a lost answer for a lost request.
TriedAgain(s) == IF s = "submitting" THEN "draft" ELSE s
\* recover: a restart cannot tell a lost answer from a lost request.
DraftRecovered(s) == IF s = "submitting" THEN "uncertain" ELSE s
RestartIssues ==
    /\ restarts < IssueRestarts /\ restarts' = restarts + 1
    /\ draft' = [d \in Drafts |-> [draft[d] EXCEPT !.status = DraftRecovered(@)]]
    /\ attempt' = [x \in Attempts |-> [attempt[x] EXCEPT !.stage = "over"]]
    /\ created' \in {created \cup {attempt[x].draft : x \in S} :
                       S \in SUBSET {x \in Attempts : attempt[x].stage = "sent"}}
    /\ world' = [world EXCEPT !.source = 0] /\ UNCHANGED posts

ChangeWorld ==
    /\ \/ world.source < IssueChanges /\ world' = [world EXCEPT !.source = @ + 1]
       \/ \E p \in Policies \ {world.policy} : world' = [world EXCEPT !.policy = p]
    /\ UNCHANGED <<draft, attempt, posts, created, restarts>>

IssuesNext ==
    \/ \E d \in Drafts, r \in Reports : PrepareDraft(d, r)
    \/ \E x \in Attempts : \/ \E d \in Drafts : PrepareSubmission(x, d)
                           \/ ConfirmDraft(x) \/ ConfirmationExpires(x) \/ SubmitDraft(x)
                           \/ CancelledClaim(x) \/ Post(x) \/ GitHubAnswers(x)
                           \/ Record(x) \/ LoseAnswer(x)
    \/ RestartIssues \/ ChangeWorld
IssuesSpec == IssuesInit /\ [][IssuesNext]_issuesVars

-----------------------------------------------------------------------------
\* A draft is sent to GitHub at most once, whatever its confirmations, a lost
\* answer or a restart do; and what may have become an issue is never
\* recorded as a draft or as a failure.
AtMostOneIssue == \A d \in Drafts :
    /\ posts[d] <= 1
    /\ d \in created => draft[d].status \notin {"draft", "failed"}

\* A request leaves with the source and the policy the administrator saw, and
\* before the confirmation expired.
SentAsApproved == \A x \in Attempts :
    attempt[x].stage # "sent" /\ attempt'[x].stage = "sent" =>
        attempt[x].fresh /\ attempt[x].seen = world /\ world.policy # "off"

\* What becomes public is what was approved, and it becomes public once.
SubmittedOnce == [][SentAsApproved /\ AtMostOneIssue' /\ IssuesTypeOK']_issuesVars
=============================================================================
