-------------------------- MODULE Assistant_proofs --------------------------
(***************************************************************************)
(* Proofs about the assistant's components.                                *)
(***************************************************************************)
EXTENDS AssistantIssues, AssistantTasks, AssistantRuns, AssistantMCP, AssistantChannels, Sandbox,
        DataLemmas, TLAPS

-----------------------------------------------------------------------------
(***************************************************************************)
(* SubmittedOnce for any number of drafts, reports, confirmations, source  *)
(* changes and restarts.  It holds because a draft has one owner: from the *)
(* durable claim to the record of the outcome one confirmation is at work  *)
(* on it, and its status says so to all other ones.                        *)
(***************************************************************************)

Owns(x) == attempt[x].stage \in {"claimed", "sent", "accepted", "refused"}
DraftClaims == \A x \in Attempts : Owns(x) => draft[attempt[x].draft].status = "submitting"
OneOwner == \A x, y \in Attempts :
    Owns(x) /\ Owns(y) /\ attempt[x].draft = attempt[y].draft => x = y
\* What no request was made for: a draft, and a claim that has not been used.
Unsent ==
    /\ \A d \in Drafts : draft[d].status \in {"none", "draft"} => posts[d] = 0
    /\ \A x \in Attempts : attempt[x].stage = "claimed" => posts[attempt[x].draft] = 0
Posted ==
    /\ \A d \in Drafts : posts[d] <= 1
    /\ \A x \in Attempts : attempt[x].stage = "sent" => posts[attempt[x].draft] = 1
\* What GitHub made an issue of was sent and is not recorded as a failure.
Public ==
    /\ \A d \in created : posts[d] = 1 /\ draft[d].status # "failed"
    /\ \A x \in Attempts :
          attempt[x].stage \in {"sent", "refused"} => attempt[x].draft \notin created
IssuesInv == IssuesTypeOK /\ DraftClaims /\ OneOwner /\ Unsent /\ Posted /\ Public

\* The bounds are numbers.
LEMMA DraftBounds == MaxDrafts \in Nat /\ IssueChanges \in Nat /\ IssueRestarts \in Nat
BY IssuesAssumption


\* The types of the documents and of the confirmations.
DraftDocuments == [status: Statuses, report: Reports, source: 0..IssueChanges]
Seen == [source: 0..IssueChanges, policy: Policies]
AttemptStages == {"idle", "asked", "confirmed", "claimed", "sent", "accepted", "refused", "over"}
Confirmations == [stage: AttemptStages, draft: Drafts, fresh: BOOLEAN, seen: Seen]

\* The type invariant by its parts.
LEMMA DraftTypeParts ==
    IssuesTypeOK <=> /\ draft \in [Drafts -> DraftDocuments]
                     /\ attempt \in [Attempts -> Confirmations]
                     /\ world \in Seen
                     /\ posts \in [Drafts -> Nat] /\ created \subseteq Drafts
                     /\ restarts \in 0..IssueRestarts
BY DEF IssuesTypeOK, DraftDocuments, Confirmations, Seen, AttemptStages

\* Changing the status of a document leaves it a document.
LEMMA MarkTyped ==
    ASSUME draft \in [Drafts -> DraftDocuments], NEW d \in Drafts, NEW s \in Statuses, Mark(d, s)
    PROVE  /\ draft' \in [Drafts -> DraftDocuments]
           /\ draft'[d].status = s
           /\ \A e \in Drafts \ {d} : draft'[e] = draft[e]
BY DEF Mark, DraftDocuments

\* Moving a confirmation on leaves it a confirmation of the same draft.
LEMMA AttemptTyped ==
    ASSUME attempt \in [Attempts -> Confirmations], NEW x \in Attempts,
           NEW s \in AttemptStages, AttemptTo(x, s)
    PROVE  /\ attempt' \in [Attempts -> Confirmations]
           /\ attempt'[x].stage = s /\ attempt'[x].draft = attempt[x].draft
           /\ \A y \in Attempts \ {x} : attempt'[y] = attempt[y]
BY DEF AttemptTo, Confirmations

\* A preparation makes a draft of a document that did not exist, and may remove
\* another one whose outcome is known.
LEMMA Prepared ==
    ASSUME IssuesTypeOK, NEW d \in Drafts, NEW r \in Reports, PrepareDraft(d, r)
    PROVE  /\ draft' \in [Drafts -> DraftDocuments]
           /\ draft[d].status = "none" /\ draft'[d].status = "draft"
           /\ \A e \in Drafts \ {d} :
                 \/ draft'[e] = draft[e]
                 \/ draft[e].status \notin {"submitting", "uncertain"} /\ draft'[e].status = "gone"
<1> DEFINE new == [status |-> "draft", report |-> r, source |-> SourceNow]
<1>1. draft \in [Drafts -> DraftDocuments] /\ world \in Seen
  BY DraftTypeParts
<1>2. new \in DraftDocuments
  BY <1>1 DEF SourceNow, DraftDocuments, Seen, Statuses
<1>3. draft[d].status = "none"
  BY DEF PrepareDraft
<1>4. CASE draft' = [draft EXCEPT ![d] = new]
  BY <1>1, <1>2, <1>3, <1>4
<1>5. ASSUME NEW e \in Removable, draft' = [draft EXCEPT ![d] = new, ![e].status = "gone"]
      PROVE  /\ draft' \in [Drafts -> DraftDocuments]
             /\ draft'[d].status = "draft" /\ draft'[e].status = "gone"
             /\ draft[e].status \notin {"submitting", "uncertain"}
             /\ \A f \in Drafts \ {d, e} : draft'[f] = draft[f]
  <2>1. e \in Drafts /\ e # d /\ draft[e].status \notin {"submitting", "uncertain"}
    BY <1>3 DEF Removable, Stored
  <2>2. "gone" \in Statuses
    BY DEF Statuses
  <2> QED
    BY <1>1, <1>2, <1>5, <2>1, <2>2 DEF DraftDocuments
<1> QED
  BY <1>1, <1>3, <1>4, <1>5 DEF PrepareDraft

\* The start of the platform satisfies the invariant.
LEMMA IssuesStart == IssuesInit => IssuesInv
<1> SUFFICES ASSUME NEW r \in Reports, NEW d \in Drafts,
                    world = [source |-> 0, policy |-> "tokenA"],
                    draft = [e \in Drafts |-> [status |-> "none", report |-> r, source |-> 0]],
                    attempt = [x \in Attempts |-> [stage |-> "idle", draft |-> d,
                                                   fresh |-> TRUE, seen |-> world]],
                    posts = [e \in Drafts |-> 0], created = {}, restarts = 0
             PROVE  IssuesInv
  BY DEF IssuesInit
<1>1. IssuesTypeOK
  <2>1. 0 \in 0..IssueChanges /\ 0 \in 0..IssueRestarts
    BY DraftBounds
  <2>2. world \in Seen
    BY <2>1 DEF Seen, Policies
  <2>3. draft \in [Drafts -> DraftDocuments]
    BY <2>1 DEF DraftDocuments, Statuses
  <2>4. attempt \in [Attempts -> Confirmations]
    BY <2>2 DEF Confirmations, AttemptStages
  <2> QED
    BY <2>1, <2>2, <2>3, <2>4, DraftTypeParts
<1>2. \A x \in Attempts : attempt[x].stage = "idle"
  OBVIOUS
<1>3. DraftClaims /\ OneOwner
  BY <1>2 DEF DraftClaims, OneOwner, Owns
<1>4. Unsent /\ Posted /\ Public
  BY <1>2 DEF Unsent, Posted, Public
<1> QED
  BY <1>1, <1>3, <1>4 DEF IssuesInv

\* The type invariant is inductive.
LEMMA IssuesTyped == IssuesTypeOK /\ [IssuesNext]_issuesVars => IssuesTypeOK'
<1> SUFFICES ASSUME IssuesTypeOK, [IssuesNext]_issuesVars PROVE IssuesTypeOK'
  OBVIOUS
<1> DEFINE Typed == /\ draft' \in [Drafts -> DraftDocuments]
                    /\ attempt' \in [Attempts -> Confirmations]
                    /\ world' \in Seen
                    /\ posts' \in [Drafts -> Nat] /\ created' \subseteq Drafts
                    /\ restarts' \in 0..IssueRestarts
<1>a. IssuesTypeOK' <=> Typed
  BY DEF IssuesTypeOK, DraftDocuments, Confirmations, Seen, AttemptStages
<1>b. /\ draft \in [Drafts -> DraftDocuments] /\ attempt \in [Attempts -> Confirmations]
      /\ world \in Seen /\ posts \in [Drafts -> Nat] /\ created \subseteq Drafts
      /\ restarts \in 0..IssueRestarts
  BY DraftTypeParts
<1>c. \A x \in Attempts : attempt[x].draft \in Drafts
  BY <1>b DEF Confirmations
<1>1. ASSUME NEW d \in Drafts, NEW r \in Reports, PrepareDraft(d, r) PROVE Typed
  BY <1>1, <1>b, Prepared DEF PrepareDraft
<1>2. ASSUME NEW x \in Attempts, NEW d \in Drafts, PrepareSubmission(x, d) PROVE Typed
  <2>1. attempt' \in [Attempts -> Confirmations]
    BY <1>2, <1>b DEF PrepareSubmission, Confirmations, AttemptStages
  <2> QED
    BY <1>2, <1>b, <2>1 DEF PrepareSubmission
<1>3. ASSUME NEW x \in Attempts, ConfirmDraft(x) PROVE Typed
  BY <1>3, <1>b, AttemptTyped DEF ConfirmDraft, AttemptStages
<1>4. ASSUME NEW x \in Attempts, ConfirmationExpires(x) PROVE Typed
  <2>1. attempt' \in [Attempts -> Confirmations]
    BY <1>4, <1>b DEF ConfirmationExpires, Confirmations
  <2> QED
    BY <1>4, <1>b, <2>1 DEF ConfirmationExpires
<1>5. ASSUME NEW x \in Attempts, SubmitDraft(x) PROVE Typed
  BY <1>5, <1>b, <1>c, AttemptTyped, MarkTyped DEF SubmitDraft, AttemptStages, Statuses
<1>6. ASSUME NEW x \in Attempts, CancelledClaim(x) PROVE Typed
  BY <1>6, <1>b, <1>c, AttemptTyped, MarkTyped DEF CancelledClaim, AttemptStages, Statuses
<1>7. ASSUME NEW x \in Attempts, Post(x) PROVE Typed
  BY <1>7, <1>b, <1>c, AttemptTyped, MarkTyped DEF Post, AttemptStages, Statuses
<1>8. ASSUME NEW x \in Attempts, GitHubAnswers(x) PROVE Typed
  BY <1>8, <1>b, <1>c, AttemptTyped DEF GitHubAnswers, AttemptStages
<1>9. ASSUME NEW x \in Attempts, Record(x) PROVE Typed
  BY <1>9, <1>b, <1>c, AttemptTyped, MarkTyped DEF Record, AttemptStages, Statuses
<1>10. ASSUME NEW x \in Attempts, LoseAnswer(x) PROVE Typed
  BY <1>10, <1>b, <1>c, AttemptTyped, MarkTyped DEF LoseAnswer, AttemptStages, Statuses, Unknown
<1>11. ASSUME RestartIssues PROVE Typed
  <2>1. draft' \in [Drafts -> DraftDocuments]
    BY <1>11, <1>b DEF RestartIssues, DraftRecovered, DraftDocuments, Statuses
  <2>2. attempt' \in [Attempts -> Confirmations]
    BY <1>11, <1>b DEF RestartIssues, Confirmations, AttemptStages
  <2>3. world' \in Seen /\ restarts' \in 0..IssueRestarts
    BY <1>11, <1>b, DraftBounds DEF RestartIssues, Seen
  <2>4. created' \subseteq Drafts
    BY <1>11, <1>b, <1>c DEF RestartIssues
  <2> QED
    BY <1>11, <1>b, <2>1, <2>2, <2>3, <2>4 DEF RestartIssues
<1>12. ASSUME ChangeWorld PROVE Typed
  BY <1>12, <1>b, DraftBounds DEF ChangeWorld, Seen
<1>13. ASSUME UNCHANGED issuesVars PROVE Typed
  BY <1>13, <1>b DEF issuesVars
<1> QED
  BY <1>a, <1>1, <1>2, <1>3, <1>4, <1>5, <1>6, <1>7, <1>8, <1>9, <1>10, <1>11, <1>12, <1>13
  DEF IssuesNext

-----------------------------------------------------------------------------
\* What a step assumes of a confirmation's draft and of the types.
LEMMA DraftFacts ==
    ASSUME IssuesTypeOK
    PROVE  /\ draft \in [Drafts -> DraftDocuments]
           /\ attempt \in [Attempts -> Confirmations]
           /\ \A x \in Attempts : attempt[x].draft \in Drafts
           /\ posts \in [Drafts -> Nat] /\ created \subseteq Drafts
BY DraftTypeParts DEF Confirmations

\* A step that moves one confirmation, its draft and nothing else, keeps the
\* invariant if it does so for them.
LEMMA OneMoves ==
    ASSUME IssuesInv, IssuesTypeOK', NEW x \in Attempts,
           \A y \in Attempts \ {x} : attempt'[y] = attempt[y],
           attempt'[x].draft = attempt[x].draft,
           \A e \in Drafts \ {attempt[x].draft} :
               /\ draft'[e] = draft[e] /\ posts'[e] = posts[e]
               /\ e \in created' <=> e \in created,
           Owns(x) \/ draft[attempt[x].draft].status # "submitting",
           Owns(x)' => draft'[attempt[x].draft].status = "submitting",
           draft'[attempt[x].draft].status \in {"none", "draft"} => posts'[attempt[x].draft] = 0,
           attempt'[x].stage = "claimed" => posts'[attempt[x].draft] = 0,
           posts'[attempt[x].draft] <= 1,
           attempt'[x].stage = "sent" => posts'[attempt[x].draft] = 1,
           attempt[x].draft \in created' =>
               /\ posts'[attempt[x].draft] = 1 /\ draft'[attempt[x].draft].status # "failed"
               /\ attempt'[x].stage \notin {"sent", "refused"}
    PROVE  IssuesInv'
<1> DEFINE d == attempt[x].draft
<1>1. d \in Drafts /\ created' \subseteq Drafts /\ (\A y \in Attempts : attempt[y].draft \in Drafts)
  BY DraftFacts, DraftTypeParts DEF IssuesInv, IssuesTypeOK
\* No other confirmation owns the draft.
<1>2. \A y \in Attempts \ {x} : Owns(y) => attempt[y].draft # d
  BY DEF IssuesInv, OneOwner, DraftClaims
<1>3. \A y \in Attempts \ {x} : Owns(y)' <=> Owns(y)
  BY DEF Owns
<1>4. DraftClaims'
  BY <1>1, <1>2, <1>3 DEF IssuesInv, DraftClaims
<1>5. OneOwner'
  BY <1>1, <1>2, <1>3 DEF IssuesInv, OneOwner
<1>6. \A y \in Attempts \ {x} :
          attempt[y].stage \in {"claimed", "sent", "refused"} => attempt[y].draft # d
  BY <1>2 DEF Owns
<1>7. Unsent'
  BY <1>1, <1>6 DEF IssuesInv, Unsent
<1>8. Posted'
  BY <1>1, <1>6 DEF IssuesInv, Posted
<1>9. Public'
  BY <1>1, <1>6 DEF IssuesInv, Public
<1> QED
  BY <1>4, <1>5, <1>7, <1>8, <1>9 DEF IssuesInv

\* The invariant is inductive.
LEMMA IssuesInductive == IssuesInv /\ [IssuesNext]_issuesVars => IssuesInv'
<1> SUFFICES ASSUME IssuesInv, [IssuesNext]_issuesVars PROVE IssuesInv'
  OBVIOUS
<1>t. IssuesTypeOK /\ IssuesTypeOK'
  BY IssuesTyped DEF IssuesInv
<1>k. /\ draft \in [Drafts -> DraftDocuments] /\ attempt \in [Attempts -> Confirmations]
      /\ \A x \in Attempts : attempt[x].draft \in Drafts
      /\ posts \in [Drafts -> Nat] /\ created \subseteq Drafts
  BY <1>t, DraftFacts
<1>i. DraftClaims /\ OneOwner /\ Unsent /\ Posted /\ Public
  BY DEF IssuesInv
<1>1. ASSUME NEW d \in Drafts, NEW r \in Reports, PrepareDraft(d, r) PROVE IssuesInv'
  <2>1. UNCHANGED <<attempt, posts, created>>
    BY <1>1 DEF PrepareDraft
  <2>2. /\ draft[d].status = "none" /\ draft'[d].status = "draft"
        /\ \A e \in Drafts \ {d} :
              \/ draft'[e] = draft[e]
              \/ draft[e].status \notin {"submitting", "uncertain"} /\ draft'[e].status = "gone"
    BY <1>1, <1>t, Prepared
  <2>3. DraftClaims' /\ OneOwner'
    BY <2>1, <2>2, <1>k, <1>i DEF DraftClaims, OneOwner, Owns
  <2>4. Unsent' /\ Posted'
    BY <2>1, <2>2, <1>k, <1>i DEF Unsent, Posted
  <2>5. Public'
    BY <2>1, <2>2, <1>k, <1>i DEF Public, Unsent
  <2> QED
    BY <1>t, <2>3, <2>4, <2>5 DEF IssuesInv
<1>2. ASSUME NEW x \in Attempts, NEW d \in Drafts, PrepareSubmission(x, d) PROVE IssuesInv'
  <2>1. /\ UNCHANGED <<draft, posts, created>>
        /\ attempt'[x].stage = "asked"
        /\ \A y \in Attempts \ {x} : attempt'[y] = attempt[y]
    BY <1>2, <1>k DEF PrepareSubmission
  <2>2. DraftClaims' /\ OneOwner'
    BY <2>1, <1>i DEF DraftClaims, OneOwner, Owns
  <2>3. Unsent' /\ Posted' /\ Public'
    BY <2>1, <1>i DEF Unsent, Posted, Public
  <2> QED
    BY <1>t, <2>2, <2>3 DEF IssuesInv
<1>3. ASSUME NEW x \in Attempts, ConfirmDraft(x) \/ ConfirmationExpires(x) PROVE IssuesInv'
  <2>1. /\ UNCHANGED <<draft, posts, created>>
        /\ \A y \in Attempts : /\ attempt'[y].draft = attempt[y].draft
                               /\ \/ attempt'[y].stage = attempt[y].stage
                                  \/ attempt'[y].stage = "confirmed"
    BY <1>3, <1>k DEF ConfirmDraft, ConfirmationExpires, AttemptTo, Confirmations
  <2>2. DraftClaims' /\ OneOwner'
    BY <2>1, <1>i DEF DraftClaims, OneOwner, Owns
  <2>3. Unsent' /\ Posted' /\ Public'
    BY <2>1, <1>i DEF Unsent, Posted, Public
  <2> QED
    BY <1>t, <2>2, <2>3 DEF IssuesInv
\* What one confirmation does.  d is its draft.
<1>4. ASSUME NEW x \in Attempts,
             SubmitDraft(x) \/ CancelledClaim(x) \/ Post(x) \/ GitHubAnswers(x)
                 \/ Record(x) \/ LoseAnswer(x)
      PROVE  IssuesInv'
  <2> DEFINE d == attempt[x].draft
  <2>1. d \in Drafts
    BY <1>k
  <2>a. ASSUME NEW s \in AttemptStages, AttemptTo(x, s)
        PROVE  /\ attempt'[x].stage = s /\ attempt'[x].draft = d
               /\ \A y \in Attempts \ {x} : attempt'[y] = attempt[y]
    BY <2>a, <1>k, AttemptTyped
  <2>m. ASSUME NEW s \in Statuses, Mark(d, s)
        PROVE  draft'[d].status = s /\ \A e \in Drafts \ {d} : draft'[e] = draft[e]
    BY <2>m, <2>1, <1>k, MarkTyped
  <2>2. CASE SubmitDraft(x) /\ DraftClaimable(x)
    <3>1. Mark(d, "submitting") /\ AttemptTo(x, "claimed") /\ UNCHANGED <<posts, created>>
      BY <2>2 DEF SubmitDraft
    <3>2. draft[d].status = "draft" /\ posts[d] = 0 /\ d \notin created
      BY <2>1, <2>2, <1>i DEF DraftClaimable, Unsent, Public
    <3>3. /\ attempt'[x].stage = "claimed" /\ attempt'[x].draft = d
          /\ \A y \in Attempts \ {x} : attempt'[y] = attempt[y]
          /\ draft'[d].status = "submitting" /\ \A e \in Drafts \ {d} : draft'[e] = draft[e]
      BY <3>1, <2>a, <2>m DEF AttemptStages, Statuses
    <3> QED
      BY <3>1, <3>2, <3>3, <1>t, OneMoves
  <2>3. CASE SubmitDraft(x) /\ ~DraftClaimable(x)
    <3>1. AttemptTo(x, "over") /\ UNCHANGED <<draft, posts, created>> /\ attempt[x].stage = "confirmed"
      BY <2>3 DEF SubmitDraft
    <3>2. /\ attempt'[x].stage = "over" /\ attempt'[x].draft = d
          /\ \A y \in Attempts \ {x} : attempt'[y] = attempt[y]
      BY <3>1, <2>a DEF AttemptStages
    <3>3. DraftClaims' /\ OneOwner'
      BY <3>1, <3>2, <1>i DEF DraftClaims, OneOwner, Owns
    <3>4. Unsent' /\ Posted' /\ Public'
      BY <3>1, <3>2, <1>i DEF Unsent, Posted, Public
    <3> QED
      BY <1>t, <3>3, <3>4 DEF IssuesInv
  <2>4. CASE CancelledClaim(x)
    <3>1. PICK s \in {"failed", "submitting"} : Mark(d, s)
      BY <2>4 DEF CancelledClaim
    <3>2. AttemptTo(x, "over") /\ UNCHANGED <<posts, created>>
      BY <2>4 DEF CancelledClaim
    <3>3. draft[d].status = "draft" /\ posts[d] = 0 /\ d \notin created
      BY <2>1, <2>4, <1>i DEF CancelledClaim, DraftClaimable, Unsent, Public
    <3>4. /\ attempt'[x].stage = "over" /\ attempt'[x].draft = d
          /\ \A y \in Attempts \ {x} : attempt'[y] = attempt[y]
          /\ draft'[d].status = s /\ \A e \in Drafts \ {d} : draft'[e] = draft[e]
      BY <3>1, <3>2, <2>a, <2>m DEF AttemptStages, Statuses
    <3>5. ~Owns(x)'
      BY <3>4 DEF Owns
    <3> QED
      BY <3>2, <3>3, <3>4, <3>5, <1>t, OneMoves
  <2>5. CASE Post(x) /\ StillValid(x)
    <3>1. /\ posts' = [posts EXCEPT ![d] = @ + 1] /\ AttemptTo(x, "sent")
          /\ UNCHANGED <<draft, created>> /\ attempt[x].stage = "claimed"
      BY <2>5 DEF Post
    <3>2. draft[d].status = "submitting" /\ posts[d] = 0 /\ d \notin created /\ Owns(x)
      BY <2>1, <3>1, <1>i DEF DraftClaims, Owns, Unsent, Public
    <3>3. posts'[d] = 1 /\ \A e \in Drafts \ {d} : posts'[e] = posts[e]
      BY <3>1, <3>2, <2>1, <1>k
    <3>4. /\ attempt'[x].stage = "sent" /\ attempt'[x].draft = d
          /\ \A y \in Attempts \ {x} : attempt'[y] = attempt[y]
      BY <3>1, <2>a DEF AttemptStages
    <3> QED
      BY <3>1, <3>2, <3>3, <3>4, <1>t, OneMoves
  <2>6. CASE Post(x) /\ ~StillValid(x)
    <3>1. /\ Mark(d, "failed") /\ AttemptTo(x, "over")
          /\ UNCHANGED <<posts, created>> /\ attempt[x].stage = "claimed"
      BY <2>6 DEF Post
    <3>2. posts[d] = 0 /\ d \notin created /\ Owns(x)
      BY <2>1, <3>1, <1>i DEF Owns, Unsent, Public
    <3>3. /\ attempt'[x].stage = "over" /\ attempt'[x].draft = d
          /\ \A y \in Attempts \ {x} : attempt'[y] = attempt[y]
          /\ draft'[d].status = "failed" /\ \A e \in Drafts \ {d} : draft'[e] = draft[e]
      BY <3>1, <2>a, <2>m DEF AttemptStages, Statuses
    <3>4. ~Owns(x)'
      BY <3>3 DEF Owns
    <3> QED
      BY <3>1, <3>2, <3>3, <3>4, <1>t, OneMoves
  <2>7. CASE GitHubAnswers(x)
    <3>1. UNCHANGED <<draft, posts>> /\ attempt[x].stage = "sent"
      BY <2>7 DEF GitHubAnswers
    <3>2. draft[d].status = "submitting" /\ posts[d] = 1 /\ d \notin created /\ Owns(x)
      BY <2>1, <3>1, <1>i DEF DraftClaims, Owns, Posted, Public
    <3>3. CASE created' = created \cup {d} /\ AttemptTo(x, "accepted")
      <4>1. /\ attempt'[x].stage = "accepted" /\ attempt'[x].draft = d
            /\ \A y \in Attempts \ {x} : attempt'[y] = attempt[y]
        BY <3>3, <2>a DEF AttemptStages
      <4> QED
        BY <3>1, <3>2, <3>3, <4>1, <1>t, OneMoves
    <3>4. CASE AttemptTo(x, "refused") /\ UNCHANGED created
      <4>1. /\ attempt'[x].stage = "refused" /\ attempt'[x].draft = d
            /\ \A y \in Attempts \ {x} : attempt'[y] = attempt[y]
        BY <3>4, <2>a DEF AttemptStages
      <4> QED
        BY <3>1, <3>2, <3>4, <4>1, <1>t, OneMoves
    <3> QED
      BY <2>7, <3>3, <3>4 DEF GitHubAnswers
  <2>8. CASE Record(x)
    <3>1. AttemptTo(x, "over") /\ UNCHANGED <<posts, created>>
      BY <2>8 DEF Record
    <3>2. PICK s \in {"succeeded", "failed"} :
             Mark(d, s) /\ Owns(x) /\ (s = "failed" => attempt[x].stage = "refused")
      BY <2>8 DEF Record, Owns
    <3>3. /\ draft[d].status = "submitting" /\ posts[d] <= 1
          /\ d \in created => s # "failed" /\ posts[d] = 1
      BY <2>1, <3>2, <1>i DEF DraftClaims, Posted, Public
    <3>4. /\ attempt'[x].stage = "over" /\ attempt'[x].draft = d
          /\ \A y \in Attempts \ {x} : attempt'[y] = attempt[y]
          /\ draft'[d].status = s /\ \A e \in Drafts \ {d} : draft'[e] = draft[e]
      BY <3>1, <3>2, <2>a, <2>m DEF AttemptStages, Statuses
    <3>5. ~Owns(x)'
      BY <3>4 DEF Owns
    <3> QED
      BY <3>1, <3>2, <3>3, <3>4, <3>5, <1>t, OneMoves
  <2>9. CASE LoseAnswer(x)
    <3>1. AttemptTo(x, "over") /\ UNCHANGED posts /\ Owns(x)
      BY <2>9 DEF LoseAnswer, Owns
    <3>2. PICK s \in Unknown : Mark(d, s)
      BY <2>9 DEF LoseAnswer
    <3>3. /\ created' = created \/ created' = created \cup {d}
          /\ created' # created => attempt[x].stage = "sent"
      BY <2>9 DEF LoseAnswer
    <3>4. /\ posts[d] <= 1
          /\ d \in created' => posts[d] = 1
      BY <2>1, <3>3, <1>i DEF Posted, Public
    <3>5. /\ attempt'[x].stage = "over" /\ attempt'[x].draft = d
          /\ \A y \in Attempts \ {x} : attempt'[y] = attempt[y]
          /\ draft'[d].status = s /\ \A e \in Drafts \ {d} : draft'[e] = draft[e]
      BY <3>1, <3>2, <2>a, <2>m DEF AttemptStages, Statuses, Unknown
    <3>6. ~Owns(x)' /\ s \notin {"none", "draft", "failed"}
      BY <3>5 DEF Owns, Unknown
    <3>7. draft[d].status = "submitting"
      BY <3>1, <1>i DEF DraftClaims
    <3> QED
      BY <3>1, <3>3, <3>4, <3>5, <3>6, <3>7, <1>t, OneMoves
  <2> QED
    BY <1>4, <2>2, <2>3, <2>4, <2>5, <2>6, <2>7, <2>8, <2>9
<1>5. CASE RestartIssues
  <2>1. /\ UNCHANGED posts
        /\ \A y \in Attempts : attempt'[y].stage = "over"
        /\ \A e \in Drafts : draft'[e].status = DraftRecovered(draft[e].status)
    BY <1>5, <1>k DEF RestartIssues, DraftDocuments, Confirmations
  <2>2. \A e \in created' : e \in created \/ \E x \in Attempts : attempt[x].stage = "sent" /\ attempt[x].draft = e
    BY <1>5 DEF RestartIssues
  <2>3. DraftClaims' /\ OneOwner'
    BY <2>1 DEF DraftClaims, OneOwner, Owns
  <2>4. Unsent' /\ Posted'
    BY <2>1, <1>i DEF Unsent, Posted, DraftRecovered
  <2>5. \A e \in created' : e \in Drafts /\ posts[e] = 1 /\ draft[e].status # "failed"
    BY <2>2, <1>k, <1>i DEF Public, Posted, DraftClaims, Owns
  <2>6. Public'
    BY <2>1, <2>5 DEF Public, DraftRecovered
  <2> QED
    BY <1>t, <2>3, <2>4, <2>6 DEF IssuesInv
<1>6. CASE ChangeWorld \/ UNCHANGED issuesVars
  <2>1. UNCHANGED <<draft, attempt, posts, created>>
    BY <1>6 DEF ChangeWorld, issuesVars
  <2>2. DraftClaims' /\ OneOwner'
    BY <2>1, <1>i DEF DraftClaims, OneOwner, Owns
  <2>3. Unsent' /\ Posted' /\ Public'
    BY <2>1, <1>i DEF Unsent, Posted, Public
  <2> QED
    BY <1>t, <2>2, <2>3 DEF IssuesInv
<1> QED
  BY <1>1, <1>2, <1>3, <1>4, <1>5, <1>6 DEF IssuesNext

\* A request leaves only after the last look at what was approved.
LEMMA SendsAsApproved ==
    ASSUME IssuesTypeOK, [IssuesNext]_issuesVars PROVE SentAsApproved
<1> SUFFICES ASSUME NEW x \in Attempts, attempt[x].stage # "sent", attempt'[x].stage = "sent"
             PROVE  attempt[x].fresh /\ attempt[x].seen = world /\ world.policy # "off"
  BY DEF SentAsApproved
<1>k. attempt \in [Attempts -> Confirmations]
  BY DraftFacts
<1>1. ASSUME NEW y \in Attempts, Post(y), StillValid(y)
      PROVE  attempt[x].fresh /\ attempt[x].seen = world /\ world.policy # "off"
  <2>1. x = y
    BY <1>1, <1>k DEF Post, AttemptTo
  <2> QED
    BY <1>1, <2>1 DEF StillValid, PolicyOn
<1>2. ASSUME NEW y \in Attempts, Post(y), ~StillValid(y) PROVE FALSE
  BY <1>2, <1>k DEF Post, AttemptTo, Confirmations
<1>3. ASSUME NEW y \in Attempts,
             ConfirmDraft(y) \/ ConfirmationExpires(y) \/ SubmitDraft(y) \/ CancelledClaim(y)
               \/ GitHubAnswers(y) \/ Record(y) \/ LoseAnswer(y)
      PROVE  FALSE
  BY <1>3, <1>k DEF ConfirmDraft, ConfirmationExpires, SubmitDraft, CancelledClaim, GitHubAnswers,
     Record, LoseAnswer, AttemptTo, Confirmations
<1>4. ASSUME NEW y \in Attempts, NEW d \in Drafts, PrepareSubmission(y, d) PROVE FALSE
  BY <1>4, <1>k DEF PrepareSubmission
<1>5. ASSUME RestartIssues PROVE FALSE
  BY <1>5, <1>k DEF RestartIssues, Confirmations
<1>6. UNCHANGED attempt => FALSE
  OBVIOUS
<1> QED
  BY <1>1, <1>2, <1>3, <1>4, <1>5, <1>6 DEF IssuesNext, PrepareDraft, ChangeWorld, issuesVars

-----------------------------------------------------------------------------
\* A report is sent as it was approved and at most once, and what may have
\* become an issue is never taken for a draft or a failure: whatever the
\* confirmations, lost answers and restarts.
THEOREM ReportsAreSentOnce == IssuesSpec => SubmittedOnce
<1>1. IssuesInv' => AtMostOneIssue' /\ IssuesTypeOK'
  <2> SUFFICES ASSUME IssuesInv' PROVE AtMostOneIssue' /\ IssuesTypeOK'
    OBVIOUS
  <2>1. \A d \in created' : draft'[d].status # "draft"
    BY DEF IssuesInv, IssuesTypeOK, Public, Unsent
  <2> QED
    BY <2>1 DEF IssuesInv, AtMostOneIssue, Posted, Public
<1>2. IssuesInv /\ [IssuesNext]_issuesVars
        => [SentAsApproved /\ AtMostOneIssue' /\ IssuesTypeOK']_issuesVars
  <2> SUFFICES ASSUME IssuesInv, [IssuesNext]_issuesVars
               PROVE  SentAsApproved /\ AtMostOneIssue' /\ IssuesTypeOK'
    OBVIOUS
  <2>1. IssuesInv'
    BY IssuesInductive
  <2>2. AtMostOneIssue' /\ IssuesTypeOK'
    BY <2>1, <1>1
  <2> QED
    BY <2>2, SendsAsApproved DEF IssuesInv
<1> QED
  BY <1>2, IssuesStart, IssuesInductive, PTL DEF IssuesSpec, SubmittedOnce

-----------------------------------------------------------------------------
(***************************************************************************)
(* ServedOnce for any number of reservations, any horizon and any number   *)
(* of changes: a due time is bound to one run and is never forgotten.      *)
(*                                                                         *)
(* The claim and the binding are two transactions.  What makes them safe   *)
(* together is that the revision of a reservation tells an untouched claim *)
(* from one the administrator has overruled (Overruled), and that the due  *)
(* time stored with a claim lies before the next one (Ahead).              *)
(***************************************************************************)

TaskClaims == [pending: BOOLEAN, revision: 0..Changes, due: 0..Horizon + 1]
TaskDocuments == [exists: BOOLEAN, enabled: BOOLEAN, due: 0..Horizon + 1, revision: 0..Changes,
              claim: TaskClaims]
TaskTickers == [at: {"idle", "seen", "claimed", "refused", "closed"}, task: Reservations,
            due: 0..Horizon + 1]

\* What is switched on, or claimed and not changed since, is wanted.
Overruled(t) == LET s == stored[t] IN
    /\ wanted[t] => s.exists
    /\ s.exists /\ s.enabled => wanted[t]
    /\ s.exists /\ s.claim.pending /\ s.claim.revision = s.revision => wanted[t]
    /\ s.claim.pending => s.claim.revision <= s.revision
\* Served times are over; what is due or claimed has not been served.
Unserved(t) == LET s == stored[t] IN
    /\ s.due >= 1 /\ (s.claim.pending => s.claim.due >= 1 /\ s.claim.due <= time)
    /\ \A n \in served[t] : n <= time
    /\ s.exists /\ s.enabled => s.due \notin served[t]
    /\ s.exists /\ s.claim.pending => s.claim.due \notin served[t]
\* While a due time is claimed, the next one lies behind it.
Ahead(t) == LET s == stored[t] IN
    s.exists /\ s.claim.pending /\ s.enabled => s.due > s.claim.due
\* The ticker holds a reservation that was due and is not running.
TickerKnows ==
    /\ ticker.at \in {"seen", "claimed"} => ticker.task \notin running
    /\ ticker.at = "seen" => ticker.due <= time
\* A due time that the administrator did not touch.
TaskIsKept(t) == wanted[t] /\ stored[t].revision = 0 =>
    \/ 1 \in served[t]
    \/ stored[t].enabled /\ stored[t].due = 1
    \/ stored[t].claim.pending /\ stored[t].claim.due = 1
TaskIsSound(t) == Overruled(t) /\ Unserved(t) /\ Ahead(t) /\ TaskIsKept(t)
TasksInv == TasksTypeOK /\ TickerKnows /\ \A t \in Reservations : TaskIsSound(t)

\* The bounds are numbers.
LEMMA TaskBounds == Horizon \in Nat /\ Changes \in Nat
BY TasksAssumption

\* The type invariant by its parts.
LEMMA TaskTypeParts ==
    TasksTypeOK <=> /\ time \in 0..Horizon
                    /\ stored \in [Reservations -> TaskDocuments]
                    /\ ticker \in TaskTickers
                    /\ running \subseteq Reservations /\ recent \subseteq Reservations
                    /\ served \in [Reservations -> SUBSET (0..Horizon + 1)]
                    /\ wanted \in [Reservations -> BOOLEAN]
BY DEF TasksTypeOK, TaskDocuments, TaskClaims, TaskTickers

\* The same of the next state.
LEMMA TaskTypeParts2 ==
    TasksTypeOK' <=> /\ time' \in 0..Horizon
                     /\ stored' \in [Reservations -> TaskDocuments]
                     /\ ticker' \in TaskTickers
                     /\ running' \subseteq Reservations /\ recent' \subseteq Reservations
                     /\ served' \in [Reservations -> SUBSET (0..Horizon + 1)]
                     /\ wanted' \in [Reservations -> BOOLEAN]
BY DEF TasksTypeOK, TaskDocuments, TaskClaims, TaskTickers

\* No claim is a claim.
LEMMA NoClaimTyped == NoClaim \in TaskClaims /\ ~NoClaim.pending
BY TaskBounds DEF NoClaim, TaskClaims

\* The start of the platform satisfies the invariant.
LEMMA TasksBegin == TasksInit => TasksInv
<1> SUFFICES ASSUME TasksInit PROVE TasksInv
  OBVIOUS
<1>1. 0 \in 0..Horizon /\ 1 \in 0..Horizon + 1 /\ 0 \in 0..Horizon + 1 /\ 0 \in 0..Changes
  BY TaskBounds
<1>2. stored \in [Reservations -> TaskDocuments]
  BY <1>1, NoClaimTyped DEF TasksInit, TaskDocuments
<1>3. ticker \in TaskTickers /\ ticker.at = "idle"
  BY <1>1 DEF TasksInit, TickerResting, TaskTickers
<1>4. TasksTypeOK
  BY <1>1, <1>2, <1>3, TaskTypeParts DEF TasksInit
<1>5. TickerKnows
  BY <1>3 DEF TickerKnows
<1>6. ASSUME NEW t \in Reservations PROVE TaskIsSound(t)
  BY <1>6, NoClaimTyped DEF TasksInit, TaskIsSound, Overruled, Unserved, Ahead, TaskIsKept
<1> QED
  BY <1>4, <1>5, <1>6 DEF TasksInv

\* What a reservation returns to when its claim is given back.
LEMMA GivesBackSound ==
    ASSUME TasksTypeOK, NEW t \in Reservations, TaskIsSound(t),
           stored[t].exists, stored[t].claim.pending,
           stored'[t] = GivenBack(t),
           UNCHANGED <<time, served, wanted>>
    PROVE  GivenBack(t) \in TaskDocuments /\ TaskIsSound(t)'
<1>1. /\ stored[t] \in TaskDocuments /\ stored[t].claim \in TaskClaims
      /\ time \in 0..Horizon
      /\ served[t] \subseteq 0..Horizon + 1 /\ wanted[t] \in BOOLEAN
  BY TaskTypeParts DEF TaskDocuments
<1>2. GivenBack(t) \in TaskDocuments
  BY <1>1, NoClaimTyped DEF GivenBack, TaskDocuments, TaskClaims
<1>3. CASE stored[t].claim.revision # stored[t].revision
  <2>1. /\ stored'[t].exists = stored[t].exists /\ stored'[t].enabled = stored[t].enabled
        /\ stored'[t].due = stored[t].due /\ stored'[t].revision = stored[t].revision
        /\ stored'[t].claim = NoClaim
    BY <1>1, <1>3 DEF GivenBack, TaskDocuments
  <2>2. stored[t].revision > 0
    BY <1>1, <1>3, TaskBounds DEF TaskIsSound, Overruled, TaskDocuments, TaskClaims
  <2> QED
    BY <1>1, <1>2, <2>1, <2>2, NoClaimTyped DEF TaskIsSound, Overruled, Unserved, Ahead, TaskIsKept
<1>4. CASE stored[t].claim.revision = stored[t].revision
  <2>1. /\ stored'[t].exists = stored[t].exists /\ stored'[t].enabled
        /\ stored'[t].due = stored[t].claim.due /\ stored'[t].revision = stored[t].revision
        /\ stored'[t].claim = NoClaim
    BY <1>1, <1>4 DEF GivenBack, TaskDocuments
  <2>2. stored[t].enabled /\ stored[t].due = 1 => stored[t].claim.due = 1
    BY <1>1, TaskBounds DEF TaskIsSound, Unserved, Ahead, TaskDocuments, TaskClaims
  <2>3. Overruled(t)' /\ Ahead(t)'
    BY <1>1, <1>4, <2>1, NoClaimTyped DEF TaskIsSound, Overruled, Ahead
  <2>4. Unserved(t)'
    BY <1>1, <2>1, NoClaimTyped DEF TaskIsSound, Unserved
  <2>5. TaskIsKept(t)'
    BY <1>1, <2>1, <2>2, NoClaimTyped DEF TaskIsSound, TaskIsKept
  <2> QED
    BY <1>2, <2>3, <2>4, <2>5 DEF TaskIsSound
<1> QED
  BY <1>3, <1>4

\* A reservation that a step leaves alone, while time may pass, stays sound.
LEMMA OthersStaySound ==
    ASSUME TasksTypeOK, TasksTypeOK', NEW t \in Reservations, TaskIsSound(t),
           stored'[t] = stored[t], served'[t] = served[t], wanted'[t] = wanted[t],
           time' >= time
    PROVE  TaskIsSound(t)'
<1>1. /\ stored[t] \in TaskDocuments /\ stored[t].claim \in TaskClaims
      /\ time \in 0..Horizon /\ time' \in 0..Horizon
      /\ served[t] \subseteq 0..Horizon + 1
  BY TaskTypeParts, TaskTypeParts2 DEF TaskDocuments
<1>2. Unserved(t)'
  BY <1>1, TaskBounds DEF TaskIsSound, Unserved, TaskDocuments, TaskClaims
<1> QED
  BY <1>2 DEF TaskIsSound, Overruled, Ahead, TaskIsKept

-----------------------------------------------------------------------------
\* Each action keeps the types.
LEMMA TasksTyped == TasksTypeOK /\ [TasksNext]_taskVars => TasksTypeOK'
<1> SUFFICES ASSUME TasksTypeOK, [TasksNext]_taskVars PROVE TasksTypeOK'
  OBVIOUS
<1>b. /\ time \in 0..Horizon /\ stored \in [Reservations -> TaskDocuments] /\ ticker \in TaskTickers
      /\ running \subseteq Reservations /\ recent \subseteq Reservations
      /\ served \in [Reservations -> SUBSET (0..Horizon + 1)]
      /\ wanted \in [Reservations -> BOOLEAN]
  BY TaskTypeParts
<1>n. 0 \in 0..Horizon + 1 /\ time + 1 \in 0..Horizon + 1
  BY <1>b, TaskBounds
<1>r. \A t \in Reservations : TickerResting(t) \in TaskTickers
  BY <1>n DEF TickerResting, TaskTickers
<1>d. \A t \in Reservations : stored[t] \in TaskDocuments /\ stored[t].claim \in TaskClaims
  BY <1>b DEF TaskDocuments
<1>g. \A t \in Reservations : GivenBack(t) \in TaskDocuments
  <2> SUFFICES ASSUME NEW t \in Reservations PROVE GivenBack(t) \in TaskDocuments
    OBVIOUS
  <2> QED
    BY <1>d, NoClaimTyped DEF GivenBack, TaskDocuments, TaskClaims
<1>1. ASSUME Pass PROVE TasksTypeOK'
  BY <1>1, <1>b, TaskTypeParts2, TaskBounds DEF Pass
<1>2. ASSUME NEW t \in Reservations, ClaimAges(t) \/ TaskRunEnds(t) PROVE TasksTypeOK'
  BY <1>2, <1>b, TaskTypeParts2 DEF ClaimAges, TaskRunEnds
<1>3. ASSUME NEW t \in Reservations, Look(t) PROVE TasksTypeOK'
  <2>1. ticker' \in TaskTickers
    BY <1>3, <1>d DEF Look, TaskTickers, TaskDocuments
  <2> QED
    BY <1>3, <2>1, <1>b, TaskTypeParts2 DEF Look
<1>4. ASSUME NEW t \in Reservations, Claim(t) PROVE TasksTypeOK'
  <2>1. ticker' \in TaskTickers
    BY <1>4, <1>b, <1>r DEF Claim, TaskTickers
  <2>2. stored' \in [Reservations -> TaskDocuments]
    <3> DEFINE claim == [pending |-> TRUE, revision |-> stored[t].revision, due |-> stored[t].due]
    <3>1. claim \in TaskClaims
      BY <1>d DEF TaskClaims, TaskDocuments
    <3>2. CASE Claimable(t)
      <4>1. stored' = [stored EXCEPT ![t].claim = claim,
                                     ![t].due = IF t \in Cron THEN time + 1 ELSE @,
                                     ![t].enabled = t \in Cron]
        BY <1>4, <3>2 DEF Claim
      <4>2. stored[t] = [exists |-> stored[t].exists, enabled |-> stored[t].enabled,
                         due |-> stored[t].due, revision |-> stored[t].revision,
                         claim |-> stored[t].claim]
        BY <1>d DEF TaskDocuments
      <4> DEFINE next == [exists |-> stored[t].exists, enabled |-> t \in Cron,
                          due |-> IF t \in Cron THEN time + 1 ELSE stored[t].due,
                          revision |-> stored[t].revision, claim |-> claim]
      <4>3. stored'[t] = next
        BY <4>1, <4>2, <1>b
      <4>4. next \in TaskDocuments
        BY <1>d, <1>n, <3>1 DEF TaskDocuments
      <4> QED
        BY <4>1, <4>3, <4>4, <1>b
    <3>3. CASE ~Claimable(t)
      BY <1>4, <1>b, <3>3 DEF Claim
    <3> QED
      BY <3>2, <3>3
  <2>3. recent' \subseteq Reservations
    BY <1>4, <1>b DEF Claim
  <2> QED
    BY <1>4, <2>1, <2>2, <2>3, <1>b, TaskTypeParts2 DEF Claim
<1>5. ASSUME NEW t \in Reservations, Bind(t) PROVE TasksTypeOK'
  <2>1. stored' \in [Reservations -> TaskDocuments]
    BY <1>5, <1>b, NoClaimTyped DEF Bind, TaskDocuments
  <2>2. served' \in [Reservations -> SUBSET (0..Horizon + 1)]
    BY <1>5, <1>b, <1>d DEF Bind, TaskClaims
  <2> QED
    BY <1>5, <2>1, <2>2, <1>b, <1>r, TaskTypeParts2 DEF Bind
<1>6. ASSUME NEW t \in Reservations, Refuse(t) PROVE TasksTypeOK'
  <2>1. ticker' \in TaskTickers
    BY <1>6, <1>b DEF Refuse, TaskTickers
  <2> QED
    BY <1>6, <2>1, <1>b, TaskTypeParts2 DEF Refuse
<1>7. ASSUME NEW t \in Reservations, GiveBack(t) PROVE TasksTypeOK'
  <2>1. stored' \in [Reservations -> TaskDocuments]
    BY <1>7, <1>b, <1>g DEF GiveBack
  <2> QED
    BY <1>7, <2>1, <1>b, <1>r, TaskTypeParts2 DEF GiveBack
<1>8. ASSUME NEW t \in Reservations, NEW on \in BOOLEAN, Toggle(t, on) PROVE TasksTypeOK'
  <2>1. stored[t].revision + 1 \in 0..Changes
    BY <1>8, <1>d, TaskBounds DEF Toggle, TaskDocuments
  <2>2. stored' \in [Reservations -> TaskDocuments]
    BY <1>8, <2>1, <1>b, <1>n DEF Toggle, TaskDocuments
  <2> QED
    BY <1>8, <2>2, <1>b, TaskTypeParts2 DEF Toggle
<1>9. ASSUME NEW t \in Reservations, DeleteTask(t) PROVE TasksTypeOK'
  <2>1. stored' \in [Reservations -> TaskDocuments]
    BY <1>9, <1>b DEF DeleteTask, TaskDocuments
  <2> QED
    BY <1>9, <2>1, <1>b, TaskTypeParts2 DEF DeleteTask
<1>10. ASSUME CloseTicker PROVE TasksTypeOK'
  <2>1. ticker' \in TaskTickers
    BY <1>10, <1>b DEF CloseTicker, TaskTickers
  <2> QED
    BY <1>10, <2>1, <1>b, TaskTypeParts2 DEF CloseTicker
<1>11. ASSUME TasksStart PROVE TasksTypeOK'
  <2>1. stored' \in [Reservations -> TaskDocuments]
    BY <1>11, <1>b, <1>g DEF TasksStart, Recovered
  <2>2. ticker' \in TaskTickers
    BY <1>11, <1>b, <1>r DEF TasksStart, TaskTickers
  <2> QED
    BY <1>11, <2>1, <2>2, <1>b, TaskTypeParts2 DEF TasksStart
<1>12. ASSUME UNCHANGED taskVars PROVE TasksTypeOK'
  BY <1>12, <1>b, TaskTypeParts2 DEF taskVars
<1> QED
  BY <1>1, <1>2, <1>3, <1>4, <1>5, <1>6, <1>7, <1>8, <1>9, <1>10, <1>11, <1>12
  DEF TasksNext, TasksWork

\* The invariant is inductive.
LEMMA TasksInductive == TasksInv /\ [TasksNext]_taskVars => TasksInv'
<1> SUFFICES ASSUME TasksInv, [TasksNext]_taskVars PROVE TasksInv'
  OBVIOUS
<1>t. TasksTypeOK /\ TasksTypeOK'
  BY TasksTyped DEF TasksInv
<1>b. /\ time \in 0..Horizon /\ stored \in [Reservations -> TaskDocuments] /\ ticker \in TaskTickers
      /\ running \subseteq Reservations
      /\ served \in [Reservations -> SUBSET (0..Horizon + 1)]
      /\ wanted \in [Reservations -> BOOLEAN]
  BY <1>t, TaskTypeParts
<1>d. \A t \in Reservations :
         /\ stored[t] \in TaskDocuments /\ stored[t].claim \in TaskClaims
         /\ served[t] \subseteq 0..Horizon + 1
  BY <1>b DEF TaskDocuments
<1>s. TickerKnows /\ \A t \in Reservations : TaskIsSound(t)
  BY DEF TasksInv
\* Steps that touch no document: time, the look, the refusal, the end of a run.
<1>1. ASSUME UNCHANGED <<stored, served, wanted>>, time' >= time, TickerKnows' PROVE TasksInv'
  BY <1>1, <1>t, <1>s, OthersStaySound DEF TasksInv
<1>2. ASSUME Pass PROVE TasksInv'
  <2>1. time' >= time /\ TickerKnows'
    BY <1>2, <1>b, <1>s, TaskBounds DEF Pass, TickerKnows, TaskTickers
  <2> QED
    BY <1>1, <1>2, <2>1 DEF Pass
<1>3. ASSUME NEW t \in Reservations,
             Look(t) \/ Refuse(t) \/ ClaimAges(t) \/ TaskRunEnds(t)
      PROVE  TasksInv'
  <2>1. time' = time /\ UNCHANGED <<stored, served, wanted>>
    BY <1>3 DEF Look, Refuse, ClaimAges, TaskRunEnds
  <2>2. TickerKnows'
    BY <1>3, <1>b, <1>s DEF TickerKnows, Look, Refuse, ClaimAges, TaskRunEnds, TaskTickers
  <2> QED
    BY <1>1, <1>b, <2>1, <2>2
\* Steps on the document of one reservation.
<1>4. ASSUME NEW t \in Reservations, TickerKnows', TaskIsSound(t)', time' = time,
             \A u \in Reservations \ {t} :
                stored'[u] = stored[u] /\ served'[u] = served[u] /\ wanted'[u] = wanted[u]
      PROVE  TasksInv'
  <2>1. ASSUME NEW u \in Reservations \ {t} PROVE TaskIsSound(u)'
    BY <1>4, <1>t, <1>s, <1>b, <2>1, OthersStaySound
  <2> QED
    BY <1>4, <1>t, <2>1 DEF TasksInv
<1>5. ASSUME NEW t \in Reservations, Claim(t) PROVE TasksInv'
  <2>1. CASE ~Claimable(t)
    <3>1. time' = time /\ UNCHANGED <<stored, served, wanted, running>> /\ ticker' = TickerResting(t)
      BY <1>5, <2>1 DEF Claim
    <3>2. TickerKnows'
      BY <3>1 DEF TickerKnows, TickerResting
    <3> QED
      BY <1>1, <1>b, <3>1, <3>2
  <2>2. CASE Claimable(t)
    <3>1. UNCHANGED <<time, running, served, wanted>>
      BY <1>5 DEF Claim
    <3>2. ticker'.at = "claimed" /\ ticker'.task = t
      BY <1>5, <2>2, <1>b DEF Claim, TaskTickers
    <3>3. TickerKnows'
      BY <1>5, <3>1, <3>2, <1>s DEF Claim, TickerKnows
    <3>4. stored[t].due <= time
      BY <1>5, <2>2, <1>s DEF Claim, Claimable, TickerKnows
    <3>5. /\ stored'[t].exists /\ stored'[t].enabled = (t \in Cron)
          /\ stored'[t].due = (IF t \in Cron THEN time + 1 ELSE stored[t].due)
          /\ stored'[t].revision = stored[t].revision
          /\ stored'[t].claim.pending
          /\ stored'[t].claim.revision = stored[t].revision
          /\ stored'[t].claim.due = stored[t].due
      BY <1>5, <2>2, <1>b DEF Claim, Claimable, TaskDocuments
    <3>6. stored[t].exists /\ stored[t].enabled /\ ~stored[t].claim.pending
      BY <2>2 DEF Claimable
    <3>7. Overruled(t)' /\ TaskIsKept(t)'
      BY <3>1, <3>5, <3>6, <1>d, <1>s DEF TaskIsSound, Overruled, TaskIsKept, TaskDocuments
    <3>8. Unserved(t)'
      BY <3>1, <3>4, <3>5, <3>6, <1>b, <1>d, <1>s, TaskBounds DEF TaskIsSound, Unserved,
         TaskDocuments
    <3>9. Ahead(t)'
      <4>1. t \in Cron => stored'[t].due = time + 1
        BY <3>5
      <4>2. stored[t].due \in Nat /\ time \in Nat
        BY <1>b, <1>d DEF TaskDocuments
      <4>3. t \in Cron => stored'[t].due > stored'[t].claim.due
        BY <3>4, <3>5, <4>1, <4>2
      <4> QED
        BY <3>5, <4>3 DEF Ahead
    <3>10. \A u \in Reservations \ {t} : stored'[u] = stored[u]
      BY <1>5, <2>2, <1>b DEF Claim
    <3> QED
      BY <1>4, <3>1, <3>3, <3>7, <3>8, <3>9, <3>10 DEF TaskIsSound
  <2> QED
    BY <2>1, <2>2
<1>6. ASSUME NEW t \in Reservations, Bind(t) PROVE TasksInv'
  <2>1. time' = time /\ wanted' = wanted /\ ticker' = TickerResting(t) /\ Fits(t)
    BY <1>6 DEF Bind
  <2>2. TickerKnows'
    BY <2>1 DEF TickerKnows, TickerResting
  <2>3. /\ stored'[t].exists = stored[t].exists /\ stored'[t].enabled = stored[t].enabled
        /\ stored'[t].due = stored[t].due /\ stored'[t].revision = stored[t].revision
        /\ stored'[t].claim = NoClaim
        /\ served'[t] = served[t] \cup {stored[t].claim.due}
    BY <1>6, <1>b DEF Bind, TaskDocuments
  <2>4. \A u \in Reservations \ {t} : stored'[u] = stored[u] /\ served'[u] = served[u]
    BY <1>6, <1>b DEF Bind
  <2>5. stored[t].exists /\ stored[t].claim.pending
    BY <2>1 DEF Fits
  <2>6. Overruled(t)' /\ Ahead(t)' /\ TaskIsKept(t)'
    BY <2>1, <2>3, <2>5, <1>s, NoClaimTyped DEF TaskIsSound, Overruled, Ahead, TaskIsKept
  <2>7. Unserved(t)'
    BY <2>1, <2>3, <2>5, <1>b, <1>d, <1>s, NoClaimTyped, TaskBounds
    DEF TaskIsSound, Unserved, Ahead, TaskDocuments, TaskClaims
  <2> QED
    BY <1>4, <2>1, <2>2, <2>4, <2>6, <2>7 DEF TaskIsSound
<1>7. ASSUME NEW t \in Reservations, GiveBack(t) PROVE TasksInv'
  <2>1. UNCHANGED <<time, served, wanted>> /\ ticker' = TickerResting(t)
    BY <1>7 DEF GiveBack
  <2>2. TickerKnows'
    BY <2>1 DEF TickerKnows, TickerResting
  <2>3. CASE stored[t].exists /\ stored[t].claim.pending
    <3>1. stored'[t] = GivenBack(t) /\ \A u \in Reservations \ {t} : stored'[u] = stored[u]
      BY <1>7, <2>3, <1>b DEF GiveBack
    <3>2. TaskIsSound(t)'
      BY <2>1, <2>3, <3>1, <1>t, <1>s, GivesBackSound
    <3> QED
      BY <1>4, <2>1, <2>2, <3>1, <3>2
  <2>4. CASE ~(stored[t].exists /\ stored[t].claim.pending)
    BY <1>1, <1>7, <1>b, <2>1, <2>2, <2>4 DEF GiveBack
  <2> QED
    BY <2>3, <2>4
<1>8. ASSUME NEW t \in Reservations, NEW on \in BOOLEAN, Toggle(t, on) PROVE TasksInv'
  <2>1. UNCHANGED <<time, ticker, running, served>>
    BY <1>8 DEF Toggle
  <2>2. TickerKnows'
    BY <2>1, <1>s DEF TickerKnows
  <2>3. /\ stored[t].exists /\ stored'[t].exists /\ stored'[t].enabled = on
        /\ stored'[t].revision = stored[t].revision + 1
        /\ stored'[t].due = (IF on /\ t \in Cron THEN time + 1 ELSE stored[t].due)
        /\ stored'[t].claim = stored[t].claim
        /\ wanted'[t] = on
        /\ on /\ t \notin Cron => stored[t].due > time
    BY <1>8, <1>b DEF Toggle, TaskDocuments
  <2>4. \A u \in Reservations \ {t} : stored'[u] = stored[u] /\ wanted'[u] = wanted[u]
    BY <1>8, <1>b DEF Toggle
  <2>5. Overruled(t)' /\ TaskIsKept(t)'
    BY <2>3, <1>d, <1>s, TaskBounds DEF TaskIsSound, Overruled, TaskIsKept, TaskDocuments,
       TaskClaims
  <2>6. on => stored'[t].due > time
    BY <2>3, <1>b
  <2>7. Unserved(t)'
    BY <2>1, <2>3, <2>6, <1>b, <1>d, <1>s, TaskBounds DEF TaskIsSound, Unserved, TaskDocuments,
       TaskClaims
  <2>8. Ahead(t)'
    BY <2>3, <2>6, <1>b, <1>d, <1>s, TaskBounds DEF TaskIsSound, Unserved, Ahead, TaskDocuments,
       TaskClaims
  <2> QED
    BY <1>4, <2>1, <2>2, <2>4, <2>5, <2>7, <2>8 DEF TaskIsSound
<1>9. ASSUME NEW t \in Reservations, DeleteTask(t) PROVE TasksInv'
  <2>1. UNCHANGED <<time, ticker, running, served>>
    BY <1>9 DEF DeleteTask
  <2>2. TickerKnows'
    BY <2>1, <1>s DEF TickerKnows
  <2>3. /\ ~stored'[t].exists /\ stored'[t].due = stored[t].due
        /\ stored'[t].revision = stored[t].revision /\ stored'[t].claim = stored[t].claim
        /\ ~wanted'[t]
        /\ \A u \in Reservations \ {t} : stored'[u] = stored[u] /\ wanted'[u] = wanted[u]
    BY <1>9, <1>b DEF DeleteTask, TaskDocuments
  <2>4. TaskIsSound(t)'
    BY <2>1, <2>3, <1>s DEF TaskIsSound, Overruled, Unserved, Ahead, TaskIsKept
  <2> QED
    BY <1>4, <2>1, <2>2, <2>3, <2>4
<1>10. ASSUME TasksStart PROVE TasksInv'
  <2>1. UNCHANGED <<time, served, wanted>> /\ \A t \in Reservations : stored'[t] = Recovered(t)
    BY <1>10 DEF TasksStart
  <2>2. TickerKnows'
    BY <1>10 DEF TasksStart, TickerKnows, TickerResting
  <2>3. ASSUME NEW t \in Reservations PROVE TaskIsSound(t)'
    <3>1. CASE stored[t].exists /\ stored[t].claim.pending
      BY <2>1, <3>1, <1>t, <1>s, GivesBackSound DEF Recovered
    <3>2. CASE ~(stored[t].exists /\ stored[t].claim.pending)
      BY <2>1, <3>2, <1>t, <1>s, <1>b, OthersStaySound DEF Recovered
    <3> QED
      BY <3>1, <3>2
  <2> QED
    BY <1>t, <2>2, <2>3 DEF TasksInv
<1>11. ASSUME CloseTicker \/ UNCHANGED taskVars PROVE TasksInv'
  BY <1>1, <1>11, <1>b, <1>s DEF CloseTicker, taskVars, TickerKnows, TaskTickers
<1> QED
  BY <1>2, <1>3, <1>5, <1>6, <1>7, <1>8, <1>9, <1>10, <1>11 DEF TasksNext, TasksWork

\* Only a claim that was not overruled becomes a run, and never beside another
\* run or for a due time that was served.
LEMMA BindsOnce == ASSUME TasksInv, [TasksNext]_taskVars PROVE NotServedTwice
<1> SUFFICES ASSUME NEW t \in Reservations, served'[t] # served[t]
             PROVE  wanted[t] /\ t \notin running /\ stored[t].claim.due \notin served[t]
  BY DEF NotServedTwice
<1>1. PICK u \in Reservations : Bind(u)
  BY DEF TasksNext, TasksWork, Pass, CloseTicker, TasksStart, Look, Claim, GiveBack, Refuse,
     ClaimAges, TaskRunEnds, DeleteTask, Toggle, taskVars
<1>2. u = t
  BY <1>1, TaskTypeParts DEF Bind, TasksInv
<1> QED
  BY <1>1, <1>2 DEF Bind, Fits, TasksInv, TickerKnows, TaskIsSound, Overruled, Unserved

-----------------------------------------------------------------------------
\* Every due time is served by exactly one run as long as the administrator
\* wants it: no crash, refusal, pause or change between the two transactions
\* binds it twice or loses it.
THEOREM DueTimesAreServedOnce == TasksSpec => ServedOnce
<1>1. TasksInv /\ [TasksNext]_taskVars => [NotServedTwice /\ DueIsKept' /\ TasksTypeOK']_taskVars
  <2> SUFFICES ASSUME TasksInv, [TasksNext]_taskVars
               PROVE  NotServedTwice /\ DueIsKept' /\ TasksTypeOK'
    OBVIOUS
  <2>1. TasksInv'
    BY TasksInductive
  <2>2. DueIsKept' /\ TasksTypeOK'
    BY <2>1 DEF TasksInv, TaskIsSound, TaskIsKept, DueIsKept
  <2> QED
    BY <2>2, BindsOnce
<1> QED
  BY <1>1, TasksBegin, TasksInductive, PTL DEF TasksSpec, ServedOnce

-----------------------------------------------------------------------------
(***************************************************************************)
(* RunsEndOrderly and WriteIsApproved for any finite number of sessions,     *)
(* slots, rounds and additions. An addition is queued, taken into a round or *)
(* answered, and a round begins with none taken (Counted); a helper belongs  *)
(* to a run that only waits for it (Delegated); a write of unknown outcome   *)
(* is under way or its run is ending (Doubted); after the barrier of close   *)
(* nobody is admitted (ShutOff). Only a run that ended of itself can be      *)
(* thrown out of the end of its worker (EndsAreNamed).                       *)
(***************************************************************************)

RunTyped ==
    /\ pc \in [Sessions -> Positions] /\ purpose \in [Sessions -> Purposes]
    /\ round \in [Sessions -> 0..Rounds]
    /\ queued \in [Sessions -> Nat] /\ taken \in [Sessions -> Nat] /\ answered \in [Sessions -> Nat]
    /\ kept \in [Sessions -> 0..Steers] /\ accepted \in [Sessions -> 0..Steers]
    /\ helper \in [Sessions -> {"none", "slot", "work"}] /\ approval \in [Sessions -> {"none", "given", "expired"}]
    /\ doubtful \in [Sessions -> BOOLEAN] /\ mode \in {"off", "read", "write"}
    /\ lock \in Sessions \cup {"free", "off", "read", "write"} /\ closing \in {"no", "closed", "waiting", "done"}
\* Nothing that was added to a run is lost on its way from the queue to the
\* model, and nothing is left of it when the run is complete.
Counted ==
    \A s \in Sessions :
        /\ accepted[s] = queued[s] + taken[s] + answered[s]
        /\ taken[s] # 0 => \/ pc[s] \in {"slot", "work"} /\ purpose[s] = "turn"
                           \/ pc[s] \in {"ending", "saving", "lost"}
        /\ pc[s] = "saving" => kept[s] = queued[s] + taken[s]
        /\ pc[s] \in {"ending", "saving"} /\ purpose[s] = "completed" => queued[s] = 0 /\ taken[s] = 0
\* A helper works for a run that does nothing but wait for it.
Delegated == \A s \in Sessions : helper[s] # "none" => pc[s] = "delegating"
\* A write whose outcome is not known is under way, or the run is at its end.
Doubted ==
    \A s \in Sessions : doubtful[s] => \/ pc[s] \in {"ending", "saving", "lost"}
                                       \/ pc[s] = "work" /\ purpose[s] = "write"
\* After the barrier nobody is admitted any more.
ShutOff ==
    /\ closing \in {"waiting", "done"} => lock = "free"
    /\ NothingRunsOn
\* Who is being admitted has no run yet.
Entering == \A s \in Sessions : lock = s => pc[s] = "none"
RunsInv == RunTyped /\ Counted /\ Delegated /\ Doubted /\ ShutOff /\ Entering

\* No run exists and nothing is admitted when the assistant starts.
LEMMA RunsBegin == RunsInit => RunsInv
  BY RunsAssumption DEF RunsInit, RunsInv, RunTyped, Counted, Delegated, Doubted, ShutOff,
     Entering, NothingRunsOn, Each, Positions, Purposes

\* A step of one session leaves what was counted for the other ones alone.
LEMMA OneCounts ==
    ASSUME RunsInv, NEW s \in Sessions,
           \A t \in Sessions \ {s} :
               /\ accepted'[t] = accepted[t] /\ queued'[t] = queued[t] /\ taken'[t] = taken[t]
               /\ answered'[t] = answered[t] /\ kept'[t] = kept[t] /\ pc'[t] = pc[t] /\ purpose'[t] = purpose[t],
           accepted'[s] = queued'[s] + taken'[s] + answered'[s],
           taken'[s] # 0 => \/ pc'[s] \in {"slot", "work"} /\ purpose'[s] = "turn"
                            \/ pc'[s] \in {"ending", "saving", "lost"},
           pc'[s] = "saving" => kept'[s] = queued'[s] + taken'[s],
           pc'[s] \in {"ending", "saving"} /\ purpose'[s] = "completed" => queued'[s] = 0 /\ taken'[s] = 0
    PROVE  Counted'
<1>1. ASSUME NEW t \in Sessions
      PROVE  /\ accepted'[t] = queued'[t] + taken'[t] + answered'[t]
             /\ taken'[t] # 0 => \/ pc'[t] \in {"slot", "work"} /\ purpose'[t] = "turn"
                                 \/ pc'[t] \in {"ending", "saving", "lost"}
             /\ pc'[t] = "saving" => kept'[t] = queued'[t] + taken'[t]
             /\ pc'[t] \in {"ending", "saving"} /\ purpose'[t] = "completed" => queued'[t] = 0 /\ taken'[t] = 0
  <2>1. CASE t = s
    BY <2>1
  <2>2. CASE t # s
    BY <2>2 DEF RunsInv, Counted
  <2> QED BY <2>1, <2>2
<1> QED BY <1>1 DEF Counted

\* No step of a run, of the administrator or of close() breaks what is counted.
LEMMA RunsStep ==
    ASSUME RunsInv, RunsNext
    PROVE  RunsInv'
<1> USE RunsAssumption DEF RunsInv, RunTyped, Counted, Delegated, Doubted, ShutOff, Entering,
       NothingRunsOn, Positions, Purposes, Active, steering, On
<1>1. ASSUME NEW s \in Sessions, Submit(s) PROVE RunsInv'
  BY <1>1 DEF Submit
<1>2. ASSUME NEW s \in Sessions, Admitted(s) PROVE RunsInv'
  <2>1. lock = s /\ lock' = "free" /\ UNCHANGED <<round, steering, helper, approval, doubtful, mode, closing>>
    BY <1>2 DEF Admitted
  <2>2. closing \notin {"waiting", "done"}
    BY <2>1
  <2>3. CASE UNCHANGED <<pc, purpose>>
    BY <2>1, <2>3
  <2>4. ASSUME NEW there \in {"slot", "top"}, NEW why \in {"media", "summary", "none"}, Goes(s, there, why)
        PROVE RunsInv'
    <3>1. Counted'
      BY <2>1, <2>4, OneCounts DEF Goes
    <3>2. RunTyped' /\ helper[s] = "none" /\ ~doubtful[s]
      BY <2>1, <2>4 DEF Goes
    <3> QED BY <2>1, <2>2, <2>4, <3>1, <3>2 DEF Goes
  <2> QED BY <1>2, <2>3, <2>4 DEF Admitted
<1>3. ASSUME NEW s \in Sessions, Steer(s) PROVE RunsInv'
  <2>1. /\ pc[s] \in Active /\ accepted[s] < Steers
        /\ queued' = [queued EXCEPT ![s] = @ + 1] /\ accepted' = [accepted EXCEPT ![s] = @ + 1]
        /\ UNCHANGED <<pc, purpose, round, taken, answered, kept, helper, approval, doubtful, mode, lock, closing>>
    BY <1>3 DEF Steer, Steerable
  <2>2. accepted[s] + 1 \in 0..Steers /\ queued[s] + 1 \in Nat
    BY <2>1
  <2>3. RunTyped'
    BY <2>1, <2>2
  <2>4. Counted'
    <3>1. accepted'[s] = queued'[s] + taken'[s] + answered'[s]
      BY <2>1, <2>2
    <3> QED BY <2>1, <3>1, OneCounts, ZenonT(30)
  <2> QED BY <2>1, <2>3, <2>4
<1>4. ASSUME NEW s \in Sessions, BeginRound(s) PROVE RunsInv'
  <2>1. ASSUME NEW how \in {"failed", "stopped"}, Ends(s, how), UNCHANGED <<taken, queued, round>> PROVE RunsInv'
    <3>1. Counted'
      BY <1>4, <2>1, OneCounts DEF BeginRound, Ends, Goes
    <3>2. RunTyped'
      BY <1>4, <2>1 DEF BeginRound, Ends, Goes
    <3> QED BY <1>4, <2>1, <3>1, <3>2 DEF BeginRound, Ends, Goes
  <2>2. CASE On /\ round[s] < Rounds
    <3>1. /\ pc[s] = "top" /\ Goes(s, "slot", "turn") /\ round' = [round EXCEPT ![s] = @ + 1]
          /\ taken' = [taken EXCEPT ![s] = queued[s]] /\ queued' = [queued EXCEPT ![s] = 0]
          /\ UNCHANGED <<answered, kept, accepted, helper, approval, doubtful, mode, lock, closing>>
      BY <1>4, <2>2 DEF BeginRound
    <3>2. round[s] + 1 \in 0..Rounds
      BY <2>2
    <3>3. RunTyped'
      BY <3>1, <3>2 DEF Goes
    <3>4. Counted'
      <4>1. /\ accepted'[s] = accepted[s] /\ queued'[s] = 0 /\ taken'[s] = queued[s]
            /\ answered'[s] = answered[s] /\ pc'[s] = "slot"
        BY <3>1 DEF Goes
      <4> QED BY <3>1, <4>1, OneCounts DEF Goes
    <3> QED BY <3>1, <3>3, <3>4 DEF Goes
  <2> QED BY <1>4, <2>1, <2>2 DEF BeginRound
<1>5. ASSUME NEW s \in Sessions, TakeSlot(s) PROVE RunsInv'
  <2>1. pc[s] = "slot" /\ UNCHANGED <<round, helper>> /\ Kept(s)
    BY <1>5 DEF TakeSlot
  <2>2. ASSUME NEW there \in {"ending", "top", "work"}, NEW why \in Purposes, Goes(s, there, why),
               there = "ending" => why = "stopped", why = purpose[s] \/ there # "work", there = "top" => purpose[s] = "write",
               approval' \in [Sessions -> {"none", "given", "expired"}],
               doubtful' \in [Sessions -> BOOLEAN], \A t \in Sessions \ {s} : doubtful'[t] = doubtful[t],
               doubtful'[s] => there = "work" /\ why = "write"
        PROVE RunsInv'
    <3>1. Counted'
      BY <2>1, <2>2, OneCounts DEF Goes, Kept
    <3>2. RunTyped'
      BY <2>1, <2>2 DEF Goes, Kept
    <3> QED BY <2>1, <2>2, <3>1, <3>2 DEF Goes, Kept
  <2>d. ~doubtful[s] /\ doubtful \in [Sessions -> BOOLEAN] /\ approval \in [Sessions -> {"none", "given", "expired"}]
    BY <2>1
  <2>3. CASE ~On
    BY <1>5, <2>d, <2>2, <2>3 DEF TakeSlot, Ends
  <2>4. CASE On /\ ~StillAllowed(s)
    <3>1. /\ Goes(s, "top", "none") /\ approval' = [approval EXCEPT ![s] = "none"] /\ UNCHANGED doubtful
          /\ purpose[s] = "write"
      BY <1>5, <2>4 DEF TakeSlot, StillAllowed
    <3>2. approval' \in [Sessions -> {"none", "given", "expired"}]
      BY <2>d, <3>1
    <3>3. "none" \in Purposes
      OBVIOUS
    <3> QED BY <2>d, <2>2, <3>1, <3>2, <3>3
  <2>5. CASE On /\ StillAllowed(s)
    <3>1. purpose[s] \in Purposes
      OBVIOUS
    <3>2. /\ Goes(s, "work", purpose[s]) /\ doubtful' = [doubtful EXCEPT ![s] = @ \/ purpose[s] = "write"]
          /\ approval' = [approval EXCEPT ![s] = "none"]
      BY <1>5, <2>5 DEF TakeSlot
    <3> QED BY <2>d, <2>2, <3>1, <3>2
  <2> QED BY <2>3, <2>4, <2>5
<1>6. ASSUME NEW s \in Sessions, FinalReply(s) PROVE RunsInv'
  <2>1. answered' = [answered EXCEPT ![s] = @ + taken[s]] /\ taken' = [taken EXCEPT ![s] = 0]
    BY <1>6 DEF FinalReply
  <2>2. answered[s] + taken[s] \in Nat
    OBVIOUS
  <2>3. /\ UNCHANGED <<round, queued, kept, accepted, helper, approval, doubtful, mode, lock, closing>>
        /\ pc[s] = "work" /\ purpose[s] = "turn"
        /\ \/ queued[s] = 0 /\ Goes(s, "ending", "completed")
           \/ Goes(s, "top", "none")
    BY <1>6 DEF FinalReply, NothingAdded, Ends, Goes
  <2>4. RunTyped'
    BY <2>1, <2>2, <2>3, ZenonT(30) DEF Goes
  <2>5. Counted'
    <3>1. answered'[s] = answered[s] + taken[s] /\ taken'[s] = 0 /\ queued'[s] = queued[s] /\ accepted'[s] = accepted[s]
      BY <2>1, <2>3
    <3>2. accepted'[s] = queued'[s] + taken'[s] + answered'[s]
      BY <3>1
    <3>3. \A t \in Sessions \ {s} :
               /\ accepted'[t] = accepted[t] /\ queued'[t] = queued[t] /\ taken'[t] = taken[t]
               /\ answered'[t] = answered[t] /\ kept'[t] = kept[t] /\ pc'[t] = pc[t] /\ purpose'[t] = purpose[t]
      BY <2>1, <2>3 DEF Goes
    <3>4. pc'[s] # "saving" /\ (purpose'[s] = "completed" => queued[s] = 0)
      BY <2>3 DEF Goes
    <3> QED BY <3>1, <3>2, <3>3, <3>4, OneCounts
  <2>6. Delegated'
    BY <2>3 DEF Goes
  <2>7. Doubted'
    <3>1. ~doubtful[s]
      BY <2>3
    <3> QED BY <2>3, <3>1 DEF Goes
  <2>8. ShutOff' /\ Entering'
    BY <2>3 DEF Goes
  <2> QED BY <2>4, <2>5, <2>6, <2>7, <2>8
<1>7. ASSUME NEW s \in Sessions, ToolReply(s) PROVE RunsInv'
  BY <1>7 DEF ToolReply, Goes
<1>8. ASSUME NEW s \in Sessions, MediaDone(s) PROVE RunsInv'
  <2>1. CASE Goes(s, "top", "none")
    BY <1>8, <2>1 DEF MediaDone, Goes, Kept
  <2>2. CASE Goes(s, "slot", "summary")
    BY <1>8, <2>2 DEF MediaDone, Goes, Kept
  <2> QED BY <1>8, <2>1, <2>2 DEF MediaDone
<1>9. ASSUME NEW s \in Sessions, SummaryDone(s) PROVE RunsInv'
  <2>1. CASE Goes(s, "top", "none")
    BY <1>9, <2>1 DEF SummaryDone, Goes, Kept
  <2>2. CASE Goes(s, "slot", "media")
    BY <1>9, <2>2 DEF SummaryDone, Goes, Kept
  <2> QED BY <1>9, <2>1, <2>2 DEF SummaryDone
<1>10. ASSUME NEW s \in Sessions, WorkDone(s) PROVE RunsInv'
  BY <1>10 DEF WorkDone, Goes, Kept
<1>11. ASSUME NEW s \in Sessions, WorkFails(s) PROVE RunsInv'
  <2>1. pc[s] = "work" /\ UNCHANGED <<round, helper, approval, doubtful>> /\ Kept(s)
    BY <1>11 DEF WorkFails
  <2>2. CASE Goes(s, "ending", "failed")
    BY <2>1, <2>2 DEF Goes, Kept
  <2>3. CASE purpose[s] = "read" /\ Goes(s, "top", "none")
    BY <2>1, <2>3 DEF Goes, Kept
  <2> QED BY <1>11, <2>2, <2>3 DEF WorkFails, AfterFailure, Ends
<1>12. ASSUME NEW s \in Sessions, TimeIsUp(s) PROVE RunsInv'
  BY <1>12 DEF TimeIsUp, Goes, Kept
<1>13. ASSUME NEW s \in Sessions, HelperTakesSlot(s) PROVE RunsInv'
  BY <1>13 DEF HelperTakesSlot, SlotFree, Holders, Holds, Kept
<1>14. ASSUME NEW s \in Sessions, HelperDone(s) PROVE RunsInv'
  BY <1>14 DEF HelperDone, Goes, Kept
<1>15. ASSUME NEW s \in Sessions, Finish(s) PROVE RunsInv'
  BY <1>15 DEF Finish
<1>16. ASSUME NEW s \in Sessions, Leave(s) PROVE RunsInv'
  BY <1>16 DEF Leave, Goes
<1>17. ASSUME NEW s \in Sessions, Answer(s) PROVE RunsInv'
  BY <1>17 DEF Answer, Goes, Kept
<1>18. ASSUME NEW s \in Sessions, ApprovalExpires(s) PROVE RunsInv'
  BY <1>18 DEF ApprovalExpires, Kept
<1>19. ASSUME NEW s \in Sessions, CancelRun(s) PROVE RunsInv'
  BY <1>19 DEF CancelRun, CancelAll, Struck, Unguarded, Kept
<1>20. ASSUME NEW s \in Sessions, NEW yes \in BOOLEAN, Confirm(s, yes) PROVE RunsInv'
  <2>1. /\ pc[s] = "approving" /\ UNCHANGED <<round, helper, doubtful>> /\ Kept(s)
        /\ \/ Goes(s, "slot", "write") /\ approval' = [approval EXCEPT ![s] = "given"]
           \/ Goes(s, "top", "none") /\ UNCHANGED approval
    BY <1>20 DEF Confirm
  <2>2. RunTyped'
    BY <2>1, ZenonT(30) DEF Goes, Kept
  <2>3. Counted'
    BY <2>1, OneCounts DEF Goes, Kept
  <2>n. /\ UNCHANGED <<helper, doubtful>> /\ pc[s] = "approving"
        /\ \A t \in Sessions \ {s} : pc'[t] = pc[t] /\ purpose'[t] = purpose[t]
    <3>1. UNCHANGED <<helper, doubtful>> /\ pc[s] = "approving"
      BY <2>1, Zenon
    <3>2. \/ pc' = [pc EXCEPT ![s] = "slot"] /\ purpose' = [purpose EXCEPT ![s] = "write"]
          \/ pc' = [pc EXCEPT ![s] = "top"] /\ purpose' = [purpose EXCEPT ![s] = "none"]
      BY <2>1, Zenon DEF Goes
    <3>3. ASSUME NEW t \in Sessions \ {s} PROVE pc'[t] = pc[t] /\ purpose'[t] = purpose[t]
      BY <3>2
    <3> QED BY <3>1, <3>3, Zenon
  <2>o. helper[s] = "none" /\ ~doubtful[s]
    BY <2>n
  <2>4. Delegated'
    <3> SUFFICES ASSUME NEW t \in Sessions, helper'[t] # "none" PROVE pc'[t] = "delegating"
      OBVIOUS
    <3>1. helper[t] # "none" /\ t # s
      BY <2>n, <2>o, Zenon
    <3> QED BY <2>n, <3>1, Zenon
  <2>6. Doubted'
    <3> SUFFICES ASSUME NEW t \in Sessions, doubtful'[t]
                 PROVE  pc'[t] \in {"ending", "saving", "lost"} \/ (pc'[t] = "work" /\ purpose'[t] = "write")
      OBVIOUS
    <3>1. doubtful[t] /\ t # s
      BY <2>n, <2>o, Zenon
    <3>2. pc[t] \in {"ending", "saving", "lost"} \/ (pc[t] = "work" /\ purpose[t] = "write")
      BY <3>1
    <3>3. pc'[t] = pc[t] /\ purpose'[t] = purpose[t]
      BY <2>n, <3>1, Zenon
    <3> QED BY <3>2, <3>3
  <2>5. ShutOff' /\ Entering'
    <3>1. closing' = closing /\ lock' = lock
      BY <2>1, Zenon DEF Kept
    <3>2. closing # "done" /\ lock # s
      BY <2>n DEF NothingRunsOn
    <3>3. ASSUME NEW t \in Sessions, lock' = t PROVE pc'[t] = "none"
      BY <2>n, <3>1, <3>2, <3>3
    <3>4. closing' \in {"waiting", "done"} => lock' = "free"
      BY <3>1
    <3>5. NothingRunsOn'
      BY <3>1, <3>2 DEF NothingRunsOn
    <3> QED BY <3>3, <3>4, <3>5, Zenon
  <2> QED BY <2>2, <2>3, <2>4, <2>5, <2>6
<1>21. ASSUME NEW m \in {"off", "read", "write"}, SaveMode(m) PROVE RunsInv'
  BY <1>21 DEF SaveMode
<1>22. ASSUME ModeSaved PROVE RunsInv'
  BY <1>22 DEF ModeSaved, CancelAll, Struck, Unguarded
<1>23. ASSUME CloseBegins PROVE RunsInv'
  BY <1>23 DEF CloseBegins
<1>24. ASSUME CloseCancels PROVE RunsInv'
  BY <1>24 DEF CloseCancels, Barrier, CancelAll, Struck, Unguarded
<1>25. ASSUME CloseEnds PROVE RunsInv'
  BY <1>25 DEF CloseEnds
<1> HIDE DEF RunsInv, RunTyped, Counted, Delegated, Doubted, ShutOff, Entering
<1> QED
  BY <1>1, <1>2, <1>3, <1>4, <1>5, <1>6, <1>7, <1>8, <1>9, <1>10, <1>11, <1>12, <1>13, <1>14, <1>15,
  <1>16, <1>17, <1>18, <1>19, <1>20, <1>21, <1>22, <1>23, <1>24, <1>25 DEF RunsNext


\* Work begins in a slot that was free when it was taken.
LEMMA WorkBegins ==
    ASSUME RunsInv, RunsNext, NEW s \in Sessions
    PROVE  /\ pc[s] # "work" /\ pc'[s] = "work" => TakeSlot(s)
           /\ helper[s] # "work" /\ helper'[s] = "work" => HelperTakesSlot(s)
<1> DEFINE Idle == /\ pc[s] # "work" => pc'[s] # "work"
                   /\ helper[s] # "work" => helper'[s] # "work"
<1> USE DEF RunsInv, RunTyped
<1>1. ASSUME NEW t \in Sessions, TakeSlot(t), t # s PROVE Idle
  BY <1>1 DEF TakeSlot, Goes, Ends
<1>2. ASSUME NEW t \in Sessions, TakeSlot(t) PROVE helper' = helper
  BY <1>2 DEF TakeSlot
<1>3. ASSUME NEW t \in Sessions, HelperTakesSlot(t) PROVE pc' = pc /\ (t # s => helper'[s] = helper[s])
  BY <1>3 DEF HelperTakesSlot
<1>4. ASSUME NEW t \in Sessions, Submit(t) \/ Steer(t) \/ ApprovalExpires(t) PROVE Idle
  BY <1>4 DEF Submit, Steer, ApprovalExpires
<1>5. ASSUME NEW t \in Sessions, Admitted(t) \/ BeginRound(t) \/ FinalReply(t) PROVE Idle
  BY <1>5 DEF Admitted, BeginRound, FinalReply, Goes, Ends
<1>6. ASSUME NEW t \in Sessions, ToolReply(t) \/ MediaDone(t) \/ SummaryDone(t) \/ WorkDone(t) PROVE Idle
  BY <1>6 DEF ToolReply, MediaDone, SummaryDone, WorkDone, Goes
<1>7. ASSUME NEW t \in Sessions, WorkFails(t) PROVE Idle
  BY <1>7 DEF WorkFails, Goes, Ends, AfterFailure
<1>8. ASSUME NEW t \in Sessions, TimeIsUp(t) \/ HelperDone(t) \/ Finish(t) \/ Leave(t) \/ Answer(t) PROVE Idle
  BY <1>8 DEF TimeIsUp, HelperDone, Finish, Leave, Answer, Goes
<1>9. ASSUME NEW S, CancelAll(S) PROVE Idle
  BY <1>9 DEF CancelAll, Struck
<1>10. ASSUME NEW t \in Sessions, CancelRun(t) PROVE Idle
  BY <1>10, <1>9 DEF CancelRun
<1>11. ASSUME NEW t \in Sessions, NEW yes \in BOOLEAN, Confirm(t, yes) PROVE Idle
  BY <1>11 DEF Confirm, Goes
<1>12. CASE (\E m \in {"off", "read", "write"} : SaveMode(m)) \/ CloseBegins \/ CloseEnds
  BY <1>12 DEF SaveMode, CloseBegins, CloseEnds
<1>13. CASE ModeSaved \/ CloseCancels
  BY <1>13, <1>9 DEF ModeSaved, CloseCancels
<1> QED BY <1>1, <1>2, <1>3, <1>4, <1>5, <1>6, <1>7, <1>8, <1>10, <1>11, <1>12, <1>13 DEF RunsNext

\* There is never more work than there are slots.
WithinSlots == Cardinality(Holders) <= Slots

\* A slot is given only while one is free, and nothing else makes a holder.
LEMMA SlotsAreKept ==
    ASSUME RunsInv, WithinSlots, RunsNext
    PROVE  WithinSlots'
<1> USE RunsAssumption
<1>1. IsFiniteSet(Holders) /\ Cardinality(Holders) \in Nat
  BY FS_Subset, FS_CardinalityType DEF Holders
<1>2. ASSUME Holders' \subseteq Holders PROVE WithinSlots'
  <2>1. Cardinality(Holders') <= Cardinality(Holders) /\ Cardinality(Holders') \in Nat
    BY <1>1, <1>2, FS_Subset, FS_CardinalityType
  <2> QED BY <1>1, <2>1 DEF WithinSlots
<1>3. ASSUME NEW s \in Sessions, SlotFree, Holders' \subseteq Holders \cup {s} PROVE WithinSlots'
  <2>1. IsFiniteSet(Holders \cup {s}) /\ Cardinality(Holders \cup {s}) <= Cardinality(Holders) + 1
        /\ Cardinality(Holders \cup {s}) \in Nat
    <3>1. /\ IsFiniteSet(Holders \cup {s})
          /\ Cardinality(Holders \cup {s}) = IF s \in Holders THEN Cardinality(Holders) ELSE Cardinality(Holders) + 1
      BY <1>1, FS_AddElement
    <3> QED BY <1>1, <3>1
  <2>2. Cardinality(Holders') <= Cardinality(Holders \cup {s}) /\ Cardinality(Holders') \in Nat
    BY <1>3, <2>1, FS_Subset, FS_CardinalityType
  <2> QED BY <1>1, <1>3, <2>1, <2>2 DEF WithinSlots, SlotFree
<1>4. ASSUME NEW s \in Sessions, TakeSlot(s) \/ HelperTakesSlot(s) PROVE WithinSlots'
  <2>1. SlotFree /\ \A t \in Sessions \ {s} : Holds(t)' => Holds(t)
    BY <1>4 DEF TakeSlot, HelperTakesSlot, Goes, Ends, RunsInv, RunTyped, Holds
  <2>2. Holders' \subseteq Holders \cup {s}
    BY <2>1 DEF Holders
  <2> QED BY <1>3, <2>1, <2>2
<1>5. ASSUME ~\E s \in Sessions : TakeSlot(s) \/ HelperTakesSlot(s) PROVE WithinSlots'
  <2>1. \A s \in Sessions : Holds(s)' => Holds(s)
    BY <1>5, WorkBegins DEF Holds, RunsInv, RunTyped
  <2> QED BY <1>2, <2>1 DEF Holders
<1> QED BY <1>4, <1>5

\* A run at its end has the outcome under which it is recorded.
EndsAreNamed ==
    \A s \in Sessions : pc[s] = "ending" => purpose[s] \in {"completed", "failed", "stopped", "cancelled"}

\* Nothing changes while nothing happens.
LEMMA RunsStay ==
    ASSUME RunsInv, UNCHANGED runVars
    PROVE  RunsInv' /\ (WithinSlots => WithinSlots') 
         /\ (SessionIsFreed => SessionIsFreed') /\ (EndsAreNamed => EndsAreNamed')
  BY DEF runVars, steering, RunsInv, RunTyped, Counted, Delegated, Doubted, ShutOff,
     NothingRunsOn, Entering,
         WithinSlots, Holders, Holds, SessionIsFreed, EndsAreNamed

\* Whoever interrupts a worker, it was not interrupted before if it is lost.
LEMMA NoSessionIsLost ==
    ASSUME RunsInv, SessionIsFreed, EndsAreNamed, RunsNext
    PROVE  SessionIsFreed' /\ EndsAreNamed'
<1> DEFINE Done == SessionIsFreed' /\ EndsAreNamed'
<1> USE DEF RunsInv, RunTyped, SessionIsFreed, EndsAreNamed
<1>1. ASSUME NEW S, CancelAll(S) PROVE Done
  BY <1>1 DEF CancelAll, Struck, Unguarded
<1>2. ASSUME NEW t \in Sessions, Submit(t) \/ Steer(t) \/ ApprovalExpires(t) \/ HelperTakesSlot(t) PROVE Done
  BY <1>2 DEF Submit, Steer, ApprovalExpires, HelperTakesSlot
<1>3. ASSUME NEW t \in Sessions, Admitted(t) \/ BeginRound(t) \/ FinalReply(t) \/ TakeSlot(t) PROVE Done
  BY <1>3 DEF Admitted, BeginRound, FinalReply, TakeSlot, Goes, Ends
<1>4. ASSUME NEW t \in Sessions, ToolReply(t) \/ MediaDone(t) \/ SummaryDone(t) \/ WorkDone(t) PROVE Done
  BY <1>4 DEF ToolReply, MediaDone, SummaryDone, WorkDone, Goes
<1>5. ASSUME NEW t \in Sessions, WorkFails(t) PROVE Done
  BY <1>5 DEF WorkFails, Goes, Ends, AfterFailure
<1>6. ASSUME NEW t \in Sessions, TimeIsUp(t) \/ HelperDone(t) \/ Finish(t) \/ Leave(t) \/ Answer(t) PROVE Done
  BY <1>6 DEF TimeIsUp, HelperDone, Finish, Leave, Answer, Goes
<1>7. ASSUME NEW t \in Sessions, CancelRun(t) PROVE Done
  BY <1>7, <1>1 DEF CancelRun
<1>8. ASSUME NEW t \in Sessions, NEW yes \in BOOLEAN, Confirm(t, yes) PROVE Done
  BY <1>8 DEF Confirm, Goes
<1>9. CASE (\E m \in {"off", "read", "write"} : SaveMode(m)) \/ CloseBegins \/ CloseEnds
  BY <1>9 DEF SaveMode, CloseBegins, CloseEnds
<1>10. CASE ModeSaved \/ CloseCancels
  BY <1>10, <1>1 DEF ModeSaved, CloseCancels
<1> QED BY <1>2, <1>3, <1>4, <1>5, <1>6, <1>7, <1>8, <1>9, <1>10 DEF RunsNext

\* Every message added to a run is answered or left over in order, a slot is held
\* by at most Slots runs and helpers and by nobody who only waits for one, and a
\* run that is over frees its session, unless it had ended of itself and was
\* interrupted before it could record that: for any sessions, slots, rounds and
\* additions, whoever cancels which runs when.
THEOREM RunsEndInOrder == RunsSpec => []RunsEndOrderly
<1> DEFINE Inv == RunsInv /\ WithinSlots /\ SessionIsFreed /\ EndsAreNamed
<1>1. RunsInit => Inv
  <2>1. ASSUME RunsInit PROVE WithinSlots /\ SessionIsFreed /\ EndsAreNamed
    <3>1. Holders = {}
      BY <2>1 DEF RunsInit, Each, Holders, Holds
    <3> QED BY <2>1, <3>1, FS_EmptySet, RunsAssumption DEF RunsInit, Each, WithinSlots,
               SessionIsFreed, EndsAreNamed
  <2> QED BY <2>1, RunsBegin
<1>2. Inv /\ [RunsNext]_runVars => Inv'
  BY RunsStep, SlotsAreKept, NoSessionIsLost, RunsStay
<1>3. Inv => RunsEndOrderly
  <2> SUFFICES ASSUME Inv PROVE RunsEndOrderly
    OBVIOUS
  <2>1. \A s \in Sessions : queued[s] \in 0..Steers /\ taken[s] \in 0..Steers /\ answered[s] \in 0..Steers
    BY RunsAssumption DEF RunsInv, RunTyped, Counted
  <2>2. RunsTypeOK
    <3>1. \A f \in {queued, taken, answered, kept, accepted} : f \in [Sessions -> 0..Steers]
      BY <2>1 DEF RunsInv, RunTyped
    <3> QED BY <3>1 DEF RunsInv, RunTyped, RunsTypeOK
  <2>3. SteeringIsAnswered
    BY DEF RunsInv, RunTyped, Counted, SteeringIsAnswered
  <2>4. SlotsComeBack
    BY DEF RunsInv, RunTyped, Delegated, WithinSlots, SlotsComeBack, Holders, Holds
  <2> QED BY <2>2, <2>3, <2>4 DEF RunsEndOrderly, RunsInv, ShutOff
<1> QED BY <1>1, <1>2, <1>3, PTL DEF RunsSpec

\* A write begins only while the assistant is on and may write, with an approval
\* that was given and has not expired, and never while the outcome of an earlier
\* write of the run is in doubt: for any sessions, however often the
\* administrator changes the mode meanwhile.
THEOREM WritesAreApproved == RunsSpec => WriteIsApproved
<1>1. RunsInv /\ [RunsNext]_runVars => RunsInv'
  BY RunsStep, RunsStay
<1> DEFINE Approved == \A s \in Sessions : pc[s] # "work" /\ pc'[s] = "work" /\ purpose'[s] = "write" =>
                           On /\ mode = "write" /\ approval[s] = "given" /\ ~doubtful[s]
<1>2. RunsInv /\ [RunsNext]_runVars => [Approved]_runVars
  <2> SUFFICES ASSUME RunsInv, RunsNext, NEW s \in Sessions,
                      pc[s] # "work", pc'[s] = "work", purpose'[s] = "write"
               PROVE  On /\ mode = "write" /\ approval[s] = "given" /\ ~doubtful[s]
    OBVIOUS
  <2>1. TakeSlot(s)
    BY WorkBegins
  <2>2. On /\ StillAllowed(s) /\ purpose'[s] = purpose[s]
    BY <2>1 DEF TakeSlot, Goes, Ends, RunsInv, RunTyped
  <2>3. pc[s] = "slot"
    BY <2>1 DEF TakeSlot
  <2> QED BY <2>2, <2>3 DEF StillAllowed, RunsInv, Doubted
<1> QED BY <1>1, <1>2, RunsBegin, PTL DEF RunsSpec, WriteIsApproved
-----------------------------------------------------------------------------
(***************************************************************************)
(* CalledAsShown: a call that waits for its answer was sent once, and      *)
(* before that not at all (SentOnce); it is sent under the line of its     *)
(* server, after a check of what its preview showed against the server     *)
(* that is configured.                                                     *)
(***************************************************************************)

\* A call was sent once if it is waiting for its answer or has it, and not at all
\* before; of an ended call either may be true.
SentOnce ==
    \A c \in Calls : /\ sent[c] \in {0, 1}
                     /\ call[c].stage \in {"idle", "prepared", "confirmed", "locked", "consumed"} => sent[c] = 0
                     /\ call[c].stage \in {"sent", "answered", "passed"} => sent[c] = 1
McpInv == McpTypeOK /\ SentOnce /\ ReplacedIsRevoked

\* Each step keeps the invariant, and a call is sent once, as it was shown.
LEMMA McpStep ==
    ASSUME McpInv, McpNext
    PROVE  McpInv' /\ CalledOnce
<1> USE McpAssumption DEF McpInv, McpTypeOK, ReplacedIsRevoked, CalledOnce, Records, Generations,
       NoLink
<1> DEFINE Goal == McpInv' /\ CalledOnce
<1>1. CASE SaveServer
  <2>1. PICK on \in BOOLEAN, ro \in BOOLEAN : server' = [gen |-> server.gen + 1, on |-> on, readOnly |-> ro]
    BY <1>1 DEF SaveServer
  <2>2. server.gen \in 0..McpChanges /\ server.gen < McpChanges /\ server.gen + 1 \in 0..McpChanges
    BY <1>1 DEF SaveServer
  <2>3. server' \in Records
    BY <2>1, <2>2
  <2>4. catalog' = [catalog EXCEPT !.fresh = FALSE] /\ link' = NoLink /\ UNCHANGED <<allowed, line, reading, call, sent>>
    BY <1>1 DEF SaveServer
  <2>5. catalog' \in [of: Records, fresh: BOOLEAN] /\ ~catalog'.fresh
    BY <2>4
  <2> QED BY <2>3, <2>4, <2>5 DEF SentOnce
<1>2. CASE ToggleActions \/ CatalogExpires
  BY <1>2 DEF ToggleActions, CatalogExpires, SentOnce
<1>3. CASE Discover \/ Link \/ ListPages \/ DiscoverFails
  BY <1>3 DEF Discover, Link, ListPages, DiscoverFails, Unchanged, Discovery, NoOneHolds, SentOnce
<1>4. CASE StoreCatalog
  <2>1. /\ reading' = [reading EXCEPT !.stage = "idle"] /\ line' = NoOneHolds
        /\ UNCHANGED <<server, allowed, link, call, sent>>
    BY <1>4 DEF StoreCatalog
  <2>2. UNCHANGED catalog \/ (server = reading.of /\ catalog' = [of |-> reading.of, fresh |-> TRUE])
    <3>1. CASE Unchanged(reading.of)
      BY <1>4, <3>1 DEF StoreCatalog, Unchanged
    <3>2. CASE ~Unchanged(reading.of)
      BY <1>4, <3>2 DEF StoreCatalog
    <3> QED BY <3>1, <3>2
  <2>3. catalog' \in [of: Records, fresh: BOOLEAN] /\ (catalog'.fresh => catalog'.of = server)
    <3>1. CASE UNCHANGED catalog
      BY <3>1
    <3>2. CASE server = reading.of /\ catalog' = [of |-> reading.of, fresh |-> TRUE]
      BY <3>2
    <3> QED BY <2>2, <3>1, <3>2
  <2> QED BY <2>1, <2>3 DEF NoOneHolds, SentOnce
<1>5. ASSUME NEW c \in Calls, PrepareCall(c) PROVE Goal
  BY <1>5 DEF PrepareCall, McpStages, SentOnce
<1>6. ASSUME NEW c \in Calls, ConfirmCall(c) PROVE Goal
  BY <1>6 DEF ConfirmCall, Step, McpStages, SentOnce
<1>7. ASSUME NEW c \in Calls, CallExpires(c) PROVE Goal
  <2>1. call' = [call EXCEPT ![c].live = FALSE] /\ UNCHANGED <<server, allowed, catalog, link, line, reading, sent>>
    BY <1>7 DEF CallExpires
  <2>2. \A d \in Calls : call'[d].stage = call[d].stage
    BY <2>1
  <2>3. SentOnce'
    BY <2>1, <2>2 DEF SentOnce
  <2>4. call' \in [Calls -> [stage: McpStages, of: Records, live: BOOLEAN]]
    BY <2>1
  <2>5. CalledOnce
    BY <2>1, <2>2
  <2> QED BY <2>1, <2>3, <2>4, <2>5
<1>8. ASSUME NEW c \in Calls, WaitForLine(c) PROVE Goal
  BY <1>8 DEF WaitForLine, Step, Executable, McpStages, SentOnce
<1>9. ASSUME NEW c \in Calls, ConsumeTicket(c) PROVE Goal
  <2>1. PICK s \in {"consumed", "over"} : Step(c, s)
    BY <1>9 DEF ConsumeTicket
  <2>2. line' \in Calls \cup {NoOneHolds, Discovery} /\ UNCHANGED <<server, allowed, catalog, link, reading, sent>>
        /\ call[c].stage = "locked"
    BY <1>9 DEF ConsumeTicket
  <2> QED BY <2>1, <2>2 DEF Step, McpStages, SentOnce
<1>10. ASSUME NEW c \in Calls, SendCall(c) PROVE Goal
  <2>1. call[c].stage = "consumed" /\ UNCHANGED <<server, allowed, catalog, link, reading>>
        /\ line' \in Calls \cup {NoOneHolds, Discovery}
    BY <1>10 DEF SendCall
  <2>2. CASE Authorized(c)
    <3>1. Step(c, "sent") /\ sent' = [sent EXCEPT ![c] = @ + 1]
      BY <1>10, <2>2 DEF SendCall
    <3>2. server = call[c].of /\ server.on /\ call[c].live /\ (call[c].of.readOnly \/ allowed)
      BY <2>2 DEF Authorized, Unchanged, Permitted
    <3>3. sent[c] = 0 /\ sent' = [sent EXCEPT ![c] = 1]
      <4>1. sent[c] = 0
        BY <2>1 DEF SentOnce
      <4> QED BY <3>1, <4>1
    <3>4. McpTypeOK' /\ SentOnce'
      BY <2>1, <3>1, <3>3 DEF Step, McpStages, SentOnce
    <3>5. CalledOnce
      BY <2>1, <3>1, <3>2, <3>3 DEF Step
    <3> QED BY <2>1, <3>4, <3>5
  <2>3. CASE ~Authorized(c)
    <3>1. Step(c, "over") /\ UNCHANGED sent
      BY <1>10, <2>3 DEF SendCall
    <3> QED BY <2>1, <3>1 DEF Step, McpStages, SentOnce
  <2> QED BY <2>2, <2>3
<1>11. ASSUME NEW c \in Calls, Answered(c) PROVE Goal
  BY <1>11 DEF Answered, Step, McpStages, SentOnce
<1>12. ASSUME NEW c \in Calls, CallFails(c) PROVE Goal
  BY <1>12 DEF CallFails, Step, McpStages, SentOnce, NoOneHolds
<1>13. ASSUME NEW c \in Calls, PassOn(c) PROVE Goal
  <2>1. call[c].stage = "answered" /\ line' = NoOneHolds /\ UNCHANGED <<server, allowed, catalog, reading, sent>>
    BY <1>13 DEF PassOn
  <2>2. CASE Authorized(c)
    <3>1. Step(c, "passed") /\ link' = call[c].of.gen /\ server = call[c].of
      BY <1>13, <2>2 DEF PassOn, Authorized, Unchanged
    <3>2. sent[c] = 1
      BY <2>1 DEF SentOnce
    <3> QED BY <2>1, <3>1, <3>2 DEF Step, McpStages, SentOnce
  <2>3. CASE ~Authorized(c)
    <3>1. Step(c, "over") /\ UNCHANGED link
      BY <1>13, <2>3 DEF PassOn
    <3> QED BY <2>1, <3>1 DEF Step, McpStages, SentOnce
  <2> QED BY <2>2, <2>3
<1> QED BY <1>1, <1>2, <1>3, <1>4, <1>5, <1>6, <1>7, <1>8, <1>9, <1>10, <1>11, <1>12,
           <1>13 DEF McpNext

\* For any number of calls, edits of the server and lost answers a call is sent at
\* most once, to the server it was prepared for, and of a server that was replaced
\* no session and no catalogue counts.
THEOREM CallsAreAsShown == McpSpec => CalledAsShown
<1>1. McpInit => McpInv
  BY McpAssumption DEF McpInit, McpInv, McpTypeOK, SentOnce, ReplacedIsRevoked, Records,
     Generations, McpStages, NoOneHolds, NoLink
<1>2. McpInv /\ UNCHANGED mcpVars => McpInv'
  BY DEF mcpVars, McpInv, McpTypeOK, SentOnce, ReplacedIsRevoked
<1>3. McpInv /\ [McpNext]_mcpVars => McpInv'
  BY <1>2, McpStep
<1>4. McpInv /\ [McpNext]_mcpVars => [CalledOnce /\ ReplacedIsRevoked' /\ McpTypeOK']_mcpVars
  BY <1>3, McpStep DEF McpInv
<1> QED BY <1>1, <1>3, <1>4, PTL DEF McpSpec, CalledAsShown

-----------------------------------------------------------------------------
(***************************************************************************)
(* ExecutedAsConfirmed for any requests, sessions, lines and room, with    *)
(* requests and DELETEs that arrive late or never. The client has at most  *)
(* one request of a session under way (OneLine), and the broker has only   *)
(* what the client has sent (Attached); so two requests that the broker    *)
(* has of one session are not both wanted any more. A spoilt container is  *)
(* condemned, or the request that spoilt it is about to do that (Doomed);  *)
(* the table of the broker has each container there is for one session     *)
(* (Tabled, Placed).                                                       *)
(***************************************************************************)

\* The types of the requests and of the containers.
SandboxTyped ==
    /\ revision \in 0..Saves /\ enabled \in BOOLEAN
    /\ session \in [Requests -> BoxSessions] /\ stage \in [Requests -> Stages] /\ askedRevision \in [Requests -> 0..Saves]
    /\ work \in [Requests -> {"none", "coming", "queued", "running", "done", "ending", "over"}]
    /\ box \in [Requests -> 0..Boxes] /\ table \in [BoxSessions -> 0..Boxes]
    /\ state \in [Bx -> {"unmade", "new", "ready", "broken", "gone"}]
    /\ ran \in [Requests -> {0, 1}] /\ spoilt \subseteq Bx /\ deletes \subseteq BoxSessions
\* At the client a session has one request that was sent and is not settled.
OneLine == \A p, q \in Requests :
    stage[p] \in {"sent", "cleaning"} /\ stage[q] \in {"sent", "cleaning"} /\ session[p] = session[q] => p = q
\* The table has the containers there are, each for one session, and a request
\* has the container of its session unless that one is gone.
Tabled ==
    /\ \A s \in BoxSessions : table[s] # 0 => state[table[s]] \in {"new", "ready", "broken"}
    /\ \A s, t \in BoxSessions : table[s] # 0 /\ table[s] = table[t] => s = t
    /\ \A i \in Bx : state[i] \in {"new", "ready", "broken"} => \E s \in BoxSessions : table[s] = i
Placed == \A q \in Requests :
    /\ box[q] # 0 => state[box[q]] = "gone" \/ (table[session[q]] = box[q] /\ state[box[q]] # "unmade")
    /\ work[q] \in {"queued", "running", "done", "ending"} => box[q] # 0
    /\ work[q] \in {"none", "coming", "queued"} => ran[q] = 0
\* The broker has nothing that the client did not send.
Attached == \A q \in Requests : work[q] # "none" => stage[q] \in {"sent", "cleaning", "over"}
\* A spoilt container is condemned, or the request that spoilt it is about to.
Doomed == \A i \in spoilt : state[i] \in {"broken", "gone"} \/ \E q \in Requests : work[q] = "ending" /\ box[q] = i
SandboxInv == SandboxTyped /\ OneLine /\ Tabled /\ Placed /\ Attached /\ Doomed

\* The sandbox begins in the invariant.
LEMMA SandboxBegins == SandboxInit => SandboxInv
BY SandboxAssumption DEF SandboxInit, SandboxInv, SandboxTyped, OneLine, Tabled, Placed,
   Attached, Doomed, Stages, Bx

\* While there is an unmade container, Fresh is one.
LEMMA FreshIsUnmade ==
    ASSUME SandboxTyped, NEW k \in Bx, state[k] = "unmade"
    PROVE  Fresh \in Bx /\ state[Fresh] = "unmade"
<1> DEFINE S == {i \in Bx : state[i] = "unmade"}
<1>1. S \in SUBSET Nat /\ S # {}
  BY DEF Bx
<1>2. Min(S) \in S /\ \A j \in S : Min(S) <= j
  BY <1>1, Least
<1> DEFINE m == Min(S)
<1>3. m \in S /\ \A j \in S : m <= j
  BY <1>2
<1> HIDE DEF m
<1>4. m \in Bx /\ state[m] = "unmade" /\ \A j \in Bx : j < m => state[j] # "unmade"
  <2>1. \A j \in Bx : j \in Nat
    BY DEF Bx
  <2> QED BY <1>3, <2>1
<1> QED BY <1>4 DEF Fresh

\* A struck container is condemned, and nothing runs in it any more.
LEMMA StrikeCondemns ==
    ASSUME SandboxInv, NEW s \in BoxSessions, Strike(s), UNCHANGED <<box, table, ran>>
    PROVE  /\ work' \in [Requests -> {"none", "coming", "queued", "running", "done", "ending", "over"}]
           /\ state' \in [Bx -> {"unmade", "new", "ready", "broken", "gone"}] /\ spoilt' \subseteq Bx
           /\ \A q \in Requests : work'[q] = work[q] \/ (work[q] = "running" /\ work'[q] = "over")
           /\ \A i \in Bx : state'[i] = IF i = table[s] THEN "broken" ELSE state[i]
           /\ table[s] # 0 => table[s] \in Bx /\ state[table[s]] \in {"new", "ready", "broken"}
           /\ \A i \in spoilt' : i \in spoilt \/ i = table[s]
           /\ Tabled' /\ Doomed' /\ (UNCHANGED session => Placed')
<1> USE DEF SandboxInv, SandboxTyped, Tabled, Placed, Doomed
<1>1. \A q \in Requests : work'[q] = work[q] \/ (work[q] = "running" /\ work'[q] = "over")
  <2>1. work' = [q \in Requests |-> IF work[q] = "running" /\ box[q] = table[s] THEN "over" ELSE work[q]]
    BY DEF Strike
  <2>2. ASSUME NEW q \in Requests PROVE work'[q] = work[q] \/ (work[q] = "running" /\ work'[q] = "over")
    <3>1. work'[q] = IF work[q] = "running" /\ box[q] = table[s] THEN "over" ELSE work[q]
      BY <2>1
    <3>2. CASE work[q] = "running" /\ box[q] = table[s]
      BY <3>1, <3>2
    <3>3. CASE ~(work[q] = "running" /\ box[q] = table[s])
      BY <3>1, <3>3
    <3> QED BY <3>2, <3>3
  <2> QED BY <2>2
<1>2. table[s] # 0 => table[s] \in Bx /\ state[table[s]] \in {"new", "ready", "broken"}
  BY DEF Bx
<1>3. \A i \in Bx : state'[i] = IF i = table[s] THEN "broken" ELSE state[i]
  BY <1>2 DEF Strike, Bx
<1>4. \A i \in spoilt' : i \in spoilt \/ (i = table[s] /\ i \in Bx)
  <2>1. \A q \in Requests : work[q] = "running" => box[q] # 0 /\ box[q] \in Bx
    BY DEF Bx
  <2> QED BY <2>1 DEF Strike
<1>5. /\ work' \in [Requests -> {"none", "coming", "queued", "running", "done", "ending", "over"}]
      /\ state' \in [Bx -> {"unmade", "new", "ready", "broken", "gone"}] /\ spoilt' \subseteq Bx
  BY <1>2, <1>4 DEF Strike
<1>6. Tabled'
  <2>1. \A t \in BoxSessions : table[t] # 0 => table[t] \in Bx /\ state'[table[t]] \in {"new", "ready", "broken"}
    BY <1>3 DEF Bx
  <2>2. \A i \in Bx : state'[i] \in {"new", "ready", "broken"} => state[i] \in {"new", "ready", "broken"}
    <3> SUFFICES ASSUME NEW i \in Bx, state'[i] \in {"new", "ready", "broken"} PROVE state[i] \in {"new", "ready", "broken"}
      OBVIOUS
    <3>1. CASE i = table[s]
      BY <3>1, <1>2 DEF Bx
    <3>2. CASE i # table[s]
      BY <3>2, <1>3
    <3> QED BY <3>1, <3>2
  <2>3. \A i \in Bx : state'[i] \in {"new", "ready", "broken"} => \E t \in BoxSessions : table[t] = i
    BY <2>2
  <2> QED BY <2>1, <2>3
<1>7. Doomed'
  BY <1>1, <1>3, <1>4
<1>8. ASSUME UNCHANGED session PROVE Placed'
  <2> SUFFICES ASSUME NEW q \in Requests
               PROVE  /\ box[q] # 0 => state'[box[q]] = "gone" \/ (table[session[q]] = box[q] /\ state'[box[q]] # "unmade")
                      /\ work'[q] \in {"queued", "running", "done", "ending"} => box[q] # 0
                      /\ work'[q] \in {"none", "coming", "queued"} => ran[q] = 0
    BY <1>8
  <2>1. box[q] # 0 => box[q] \in Bx
    BY DEF Bx
  <2> QED BY <2>1, <1>1, <1>2, <1>3
<1> QED BY <1>1, <1>2, <1>3, <1>4, <1>5, <1>6, <1>7, <1>8

\* Each step keeps the invariant, sends what was confirmed, and executes it in a
\* container that is not known to be spoilt.
LEMMA SandboxStep ==
    ASSUME SandboxInv, SandboxNext
    PROVE  SandboxInv' /\ SentAsConfirmed /\ CleanContainer
<1> USE SandboxAssumption DEF SandboxInv, SandboxTyped, OneLine, Tabled, Placed, Attached, Doomed,
       containers
<1> DEFINE Goal == SandboxInv' /\ SentAsConfirmed /\ CleanContainer
<1>1. ASSUME NEW q \in Requests, Prepare(q) PROVE Goal
  BY <1>1 DEF Prepare, To, Stages, broker, SentAsConfirmed, CleanContainer
<1>2. ASSUME NEW q \in Requests, ClaimTicket(q) \/ TicketExpires(q) PROVE Goal
  BY <1>2 DEF ClaimTicket, TicketExpires, To, Stages, broker, SentAsConfirmed, CleanContainer
<1>3. ASSUME NEW q \in Requests, SendRequest(q) PROVE Goal
  <2>1. /\ UNCHANGED <<revision, enabled, session, askedRevision, box, table, state, ran, spoilt, deletes>>
        /\ stage[q] = "claimed" /\ (stage' = [stage EXCEPT ![q] = "sent"] \/ stage' = [stage EXCEPT ![q] = "over"])
        /\ stage'[q] = "sent" => enabled /\ askedRevision[q] = revision
        /\ (work' = [work EXCEPT ![q] = "coming"] /\ stage' = [stage EXCEPT ![q] = "sent"]) \/ work' = work
        /\ \A p \in Requests : stage[p] \in {"sent", "cleaning"} => session[p] # session[q]
    <3>a. /\ stage[q] = "claimed" /\ LineFree(q) /\ To(q, IF Guard(q) THEN "sent" ELSE "over")
          /\ work' = [work EXCEPT ![q] = IF Guard(q) THEN "coming" ELSE @]
          /\ UNCHANGED <<revision, enabled, session, askedRevision, box, table, state, ran, spoilt, deletes>>
      BY <1>3, Zenon DEF SendRequest
    <3>b. \A p \in Requests : stage[p] \in {"sent", "cleaning"} => session[p] # session[q]
      BY <3>a, Zenon DEF LineFree, Busy
    <3>c. CASE Guard(q)
      <4>1. stage' = [stage EXCEPT ![q] = "sent"] /\ work' = [work EXCEPT ![q] = "coming"]
        BY <3>a, <3>c, Zenon DEF To
      <4>2. enabled /\ askedRevision[q] = revision
        BY <3>c, Zenon DEF Guard
      <4> QED BY <3>a, <3>b, <4>1, <4>2, Zenon
    <3>d. CASE ~Guard(q)
      <4>1. stage' = [stage EXCEPT ![q] = "over"] /\ work' = [work EXCEPT ![q] = work[q]]
        BY <3>a, <3>d, Zenon DEF To
      <4>2. stage'[q] = "over" /\ work' = work
        BY <4>1
      <4> QED BY <3>a, <3>b, <4>1, <4>2
    <3> QED BY <3>c, <3>d, Zenon
  <2>2. work[q] = "none" /\ ran[q] = 0
    BY <2>1
  <2>3. SandboxTyped'
    BY <2>1 DEF Stages
  <2>4. OneLine' /\ Tabled' /\ Attached'
    BY <2>1
  <2>5. Placed' /\ Doomed'
    BY <2>1, <2>2
  <2>6. SentAsConfirmed /\ CleanContainer
    BY <2>1 DEF SentAsConfirmed, CleanContainer
  <2> QED BY <2>3, <2>4, <2>5, <2>6
<1>4. ASSUME NEW q \in Requests, ReceiveAnswer(q) PROVE Goal
  BY <1>4 DEF ReceiveAnswer, To, Stages, broker, SentAsConfirmed, CleanContainer
<1>5. ASSUME NEW q \in Requests, GiveUpRequest(q) PROVE Goal
  BY <1>5 DEF GiveUpRequest, To, Stages, broker, SentAsConfirmed, CleanContainer
<1>6. ASSUME NEW on \in BOOLEAN, SaveSandbox(on) PROVE Goal
  BY <1>6 DEF SaveSandbox, Stages, broker, SentAsConfirmed, CleanContainer
<1>7. ASSUME NEW q \in Requests, ClaimBox(q) PROVE Goal
  <2>1. work[q] = "coming" /\ UNCHANGED <<ran, spoilt, deletes, client>>
    BY <1>7 DEF ClaimBox, Unseen
  <2>2. OneLine' /\ SentAsConfirmed /\ CleanContainer
    BY <2>1 DEF client, SentAsConfirmed, CleanContainer
  <2>3. CASE /\ table[session[q]] # 0 /\ state[table[session[q]]] # "broken"
             /\ Does(q, "queued") /\ box' = [box EXCEPT ![q] = table[session[q]]] /\ UNCHANGED <<table, state>>
    <3>1. work' = [work EXCEPT ![q] = "queued"] /\ table[session[q]] \in Bx
          /\ state[table[session[q]]] \in {"new", "ready", "broken"}
      BY <2>3 DEF Does, Bx
    <3>2. SandboxTyped' /\ Tabled'
      BY <2>1, <2>3, <3>1 DEF client, Bx
    <3>3. Placed'
      BY <2>1, <2>3, <3>1 DEF client, Bx
    <3>4. Attached' /\ Doomed'
      BY <2>1, <2>3, <3>1 DEF client, Bx
    <3> QED BY <2>2, <3>2, <3>3, <3>4
  <2>4. CASE /\ table[session[q]] = 0 /\ \E i \in Bx : state[i] = "unmade"
             /\ Does(q, "queued") /\ box' = [box EXCEPT ![q] = Fresh]
             /\ table' = [table EXCEPT ![session[q]] = Fresh] /\ state' = [state EXCEPT ![Fresh] = "new"]
    <3> DEFINE f == Fresh
    <3>1. f \in Bx /\ state[f] = "unmade" /\ f \in 1..Boxes /\ f # 0
      BY <2>4, FreshIsUnmade DEF Bx
    <3>2. /\ work' = [work EXCEPT ![q] = "queued"] /\ box' = [box EXCEPT ![q] = f]
          /\ table' = [table EXCEPT ![session[q]] = f] /\ state' = [state EXCEPT ![f] = "new"]
          /\ table[session[q]] = 0
      BY <2>4 DEF Does
    <3> HIDE DEF f
    <3>3. SandboxTyped'
      BY <2>1, <3>1, <3>2 DEF client
    <3>4. \A t \in BoxSessions : table[t] # f
      BY <3>1
    <3>5. Tabled'
      BY <2>1, <3>1, <3>2, <3>4 DEF client, Bx
    <3>6. \A p \in Requests : box[p] # f
      BY <3>1, <3>4
    <3>7. Placed'
      BY <2>1, <3>1, <3>2, <3>6 DEF client, Bx
    <3>8. Attached'
      BY <2>1, <3>1, <3>2, <3>6 DEF client, Bx
    <3>9. Doomed'
      BY <2>1, <3>1, <3>2, <3>6 DEF client, Bx
    <3> QED BY <2>2, <3>3, <3>5, <3>7, <3>8, <3>9
  <2>5. CASE Does(q, "over") /\ UNCHANGED <<box, table, state>>
    BY <2>1, <2>2, <2>5 DEF Does, client
  <2> QED BY <1>7, <2>3, <2>4, <2>5 DEF ClaimBox
<1>8. ASSUME NEW q \in Requests, Run(q) PROVE Goal
  <2>1. work[q] = "queued" /\ UNCHANGED <<box, table, spoilt, deletes, client>>
    BY <1>8 DEF Run
  <2>2. CASE ~StillThere(q)
    <3>1. work' = [work EXCEPT ![q] = "ending"] /\ UNCHANGED <<ran, state>>
      BY <1>8, <2>2 DEF Run, Does
    <3>2. SandboxTyped' /\ OneLine' /\ Tabled'
      BY <2>1, <3>1 DEF client
    <3>3. Placed' /\ Attached' /\ Doomed'
      BY <2>1, <3>1 DEF client
    <3> QED BY <2>1, <3>1, <3>2, <3>3 DEF client, SentAsConfirmed, CleanContainer
  <2>3. CASE StillThere(q)
    <3> DEFINE i == box[q]
    <3>1. /\ work' = [work EXCEPT ![q] = "running"] /\ ran' = [ran EXCEPT ![q] = @ + 1]
          /\ state' = [state EXCEPT ![i] = "ready"]
      BY <1>8, <2>3 DEF Run, Does
    <3>2. table[session[q]] = i /\ i # 0 /\ i \in Bx /\ state[i] \in {"new", "ready"} /\ ran[q] = 0
      BY <2>1, <2>3 DEF StillThere, Bx
    <3>3. ran' = [ran EXCEPT ![q] = 1]
      BY <3>1, <3>2
    <3>5. i \in spoilt => \E p \in Requests \ {q} : work[p] = "ending" /\ box[p] = i /\ NotYetCondemned(p, q)
      <4> SUFFICES ASSUME i \in spoilt
                   PROVE  \E p \in Requests \ {q} : work[p] = "ending" /\ box[p] = i /\ NotYetCondemned(p, q)
        OBVIOUS
      <4>1. PICK p \in Requests : work[p] = "ending" /\ box[p] = i
        BY <3>2
      <4>2. table[session[p]] = i /\ p # q
        BY <4>1, <3>2, <2>1
      <4>3. session[p] = session[q]
        BY <4>2, <3>2
      <4>4. stage[p] \in {"sent", "cleaning", "over"} /\ stage[q] \in {"sent", "cleaning", "over"}
        BY <2>1, <4>1
      <4>5. stage[p] = "over" \/ stage[q] = "over"
        BY <4>2, <4>3, <4>4
      <4> QED BY <4>1, <4>2, <4>5 DEF NotYetCondemned, GivenUp
    <3> HIDE DEF i
    <3>6. SandboxTyped' /\ OneLine' /\ Tabled'
      BY <2>1, <3>1, <3>2, <3>3 DEF client
    <3>7. box[q] = i
      BY DEF i
    <3>8. Placed'
      BY <2>1, <3>1, <3>2, <3>3, <3>7 DEF client, Bx
    <3>9. Attached'
      BY <2>1, <3>1, <3>2, <3>7 DEF client, Bx
    <3>10. Doomed'
      BY <2>1, <3>1, <3>2, <3>5, <3>7 DEF client, Bx
    <3>11. SentAsConfirmed /\ CleanContainer
      BY <2>1, <3>1, <3>2, <3>3, <3>5, <3>7 DEF client, SentAsConfirmed, CleanContainer
    <3> QED BY <3>6, <3>8, <3>9, <3>10, <3>11
  <2> QED BY <2>2, <2>3
<1>9. ASSUME NEW q \in Requests, Finished(q) PROVE Goal
  BY <1>9 DEF Finished, Does, client, SentAsConfirmed, CleanContainer
<1>10. ASSUME NEW q \in Requests, Unclear(q) PROVE Goal
  <2>1. work' = [work EXCEPT ![q] = "ending"] /\ UNCHANGED <<box, table, state, ran, deletes, client>>
    BY <1>10 DEF Unclear, Does
  <2>2. work[q] \in {"queued", "running"} /\ spoilt' \in {spoilt, spoilt \cup {box[q]}} /\ box[q] \in Bx
    BY <1>10 DEF Unclear, Bx
  <2>3. SandboxTyped' /\ OneLine' /\ Tabled' /\ Placed' /\ Attached'
    BY <2>1, <2>2 DEF client
  <2>4. Doomed'
    BY <2>1, <2>2 DEF client
  <2>5. SentAsConfirmed /\ CleanContainer
    BY <2>1 DEF client, SentAsConfirmed, CleanContainer
  <2> QED BY <2>3, <2>4, <2>5
<1>11. ASSUME NEW q \in Requests, Condemn(q) PROVE Goal
  BY <1>11 DEF Condemn, Condemned, Does, client, SentAsConfirmed, CleanContainer, Bx
<1>12. ASSUME NEW s \in BoxSessions, Reap(s) \/ DeleteSession(s) PROVE Goal
  <2>1. Strike(s) /\ UNCHANGED <<box, table, ran, client>> /\ deletes' \subseteq deletes
    BY <1>12 DEF Reap, DeleteSession
  <2>2. SandboxTyped' /\ OneLine' /\ Tabled' /\ Doomed'
    BY <2>1, StrikeCondemns DEF client
  <2>3. Placed'
    BY <2>1, StrikeCondemns DEF client
  <2>4. Attached'
    BY <2>1, StrikeCondemns DEF client, Bx
  <2>5. SentAsConfirmed /\ CleanContainer
    BY <2>1 DEF client, SentAsConfirmed, CleanContainer
  <2> QED BY <2>2, <2>3, <2>4, <2>5
<1>13. ASSUME NEW q \in Requests, FinishDelete(q) PROVE Goal
  BY <1>13 DEF FinishDelete, To, Stages, SentAsConfirmed, CleanContainer
<1>16. ASSUME NEW s \in BoxSessions, CloseKnown(s) PROVE Goal
  BY <1>16 DEF CloseKnown, client, SentAsConfirmed, CleanContainer
<1>14. ASSUME NEW s \in BoxSessions, RemoveBox(s) PROVE Goal
  BY <1>14 DEF RemoveBox, client, SentAsConfirmed, CleanContainer, Bx
<1>15. CASE BrokerRestarts
  <2>1. UNCHANGED <<box, ran, spoilt, deletes, client>> /\ table' = [s \in BoxSessions |-> 0]
    BY <1>15 DEF BrokerRestarts
  <2>2. \A i \in Bx : state'[i] = IF state[i] = "unmade" THEN "unmade" ELSE "gone"
    BY <1>15 DEF BrokerRestarts
  <2>3. \A q \in Requests : work'[q] = IF work[q] \in {"none", "coming"} THEN work[q] ELSE "over"
    BY <1>15 DEF BrokerRestarts
  <2>4. SandboxTyped' /\ OneLine' /\ Tabled'
    <3>1. state' \in [Bx -> {"unmade", "new", "ready", "broken", "gone"}]
          /\ work' \in [Requests -> {"none", "coming", "queued", "running", "done", "ending", "over"}]
      BY <1>15 DEF BrokerRestarts
    <3> QED BY <2>1, <2>2, <3>1 DEF client
  <2>5. \A q \in Requests : box[q] # 0 => box[q] \in Bx /\ state[box[q]] # "unmade"
    BY DEF Bx
  <2>6. Placed' /\ Attached'
    BY <2>1, <2>2, <2>3, <2>5 DEF client
  <2>7. Doomed'
    BY <2>1, <2>2, <2>5
  <2>8. SentAsConfirmed /\ CleanContainer
    BY <2>1 DEF client, SentAsConfirmed, CleanContainer
  <2> QED BY <2>4, <2>6, <2>7, <2>8
<1> QED BY <1>1, <1>2, <1>3, <1>4, <1>5, <1>6, <1>7, <1>8, <1>9, <1>10, <1>11, <1>12, <1>13,
           <1>14, <1>15, <1>16
   DEF SandboxNext
\* A container is made only while there is room.
RoomKept == Cardinality(InUse) <= Room
\* Nothing makes a container beyond the room there is.
LEMMA RoomIsKept ==
    ASSUME SandboxInv, RoomKept, SandboxNext
    PROVE  RoomKept'
<1> USE SandboxAssumption DEF SandboxInv, SandboxTyped
<1>1. IsFiniteSet(InUse) /\ Cardinality(InUse) \in Nat
  BY FS_Subset, FS_CardinalityType DEF InUse
<1>2. ASSUME InUse' \subseteq InUse PROVE RoomKept'
  <2>1. Cardinality(InUse') <= Cardinality(InUse) /\ Cardinality(InUse') \in Nat
    BY <1>1, <1>2, FS_Subset, FS_CardinalityType
  <2> QED BY <1>1, <2>1 DEF RoomKept
<1>3. ASSUME NEW s \in BoxSessions, s \notin InUse, Cardinality(InUse) < Room, InUse' \subseteq InUse \cup {s}
      PROVE  RoomKept'
  <2>1. IsFiniteSet(InUse \cup {s}) /\ Cardinality(InUse \cup {s}) = Cardinality(InUse) + 1
    BY <1>1, <1>3, OneMore
  <2>2. Cardinality(InUse') <= Cardinality(InUse) + 1 /\ Cardinality(InUse') \in Nat
    BY <1>3, <2>1, FS_Subset, FS_CardinalityType
  <2> QED BY <1>1, <1>3, <2>2 DEF RoomKept
<1>4. ASSUME NEW q \in Requests, ClaimBox(q) PROVE RoomKept'
  <2> DEFINE s == session[q]
  <2>1. CASE UNCHANGED table
    BY <2>1, <1>2 DEF InUse
  <2>2. CASE table[s] = 0 /\ Cardinality(InUse) < Room /\ table' = [table EXCEPT ![s] = Fresh]
    <3>1. s \in BoxSessions /\ s \notin InUse /\ InUse' \subseteq InUse \cup {s}
      BY <2>2 DEF InUse
    <3> QED BY <1>3, <2>2, <3>1
  <2> QED BY <1>4, <2>1, <2>2 DEF ClaimBox
<1>5. ASSUME NEW s \in BoxSessions, Reap(s) \/ RemoveBox(s) \/ DeleteSession(s) \/ CloseKnown(s) PROVE RoomKept'
  <2>1. InUse' \subseteq InUse
    BY <1>5 DEF Reap, RemoveBox, DeleteSession, CloseKnown, containers, InUse
  <2> QED BY <1>2, <2>1
<1>6. CASE BrokerRestarts
  <2>1. InUse' \subseteq InUse
    BY <1>6 DEF BrokerRestarts, InUse
  <2> QED BY <1>2, <2>1
<1>7. ASSUME UNCHANGED table PROVE RoomKept'
  BY <1>7, <1>2 DEF InUse
<1>8. ASSUME NEW q \in Requests,
             Prepare(q) \/ ClaimTicket(q) \/ TicketExpires(q) \/ SendRequest(q) \/ ReceiveAnswer(q) \/ GiveUpRequest(q)
             \/ Run(q) \/ Finished(q) \/ Unclear(q) \/ Condemn(q) \/ FinishDelete(q)
      PROVE  UNCHANGED table
  BY <1>8 DEF Prepare, ClaimTicket, TicketExpires, SendRequest, ReceiveAnswer, GiveUpRequest,
     Run, Finished, Unclear,
              Condemn, FinishDelete, broker, containers
<1>9. ASSUME NEW on \in BOOLEAN, SaveSandbox(on) PROVE UNCHANGED table
  BY <1>9 DEF SaveSandbox, broker, containers
<1> QED BY <1>4, <1>5, <1>6, <1>7, <1>8, <1>9 DEF SandboxNext

\* An operation the administrator confirmed is sent under the configuration it
\* was confirmed for and executed at most once; it is executed in a spoilt container
\* only while the request that spoilt it has yet to condemn it, and only if the client
\* has given up on one of the two; and the broker never has more containers than its
\* room: for any requests, sessions, lines, rooms and restarts, whichever requests,
\* answers and DELETEs are late or lost.
THEOREM OperationsAreConfined == SandboxSpec => ExecutedAsConfirmed
<1> DEFINE Inv == SandboxInv /\ RoomKept
<1>1. SandboxInit => Inv
  <2>1. ASSUME SandboxInit PROVE RoomKept
    <3>1. InUse = {}
      BY <2>1 DEF SandboxInit, InUse
    <3> QED BY <3>1, FS_EmptySet, SandboxAssumption DEF RoomKept
  <2> QED BY <2>1, SandboxBegins
<1>2. Inv /\ SandboxNext => Inv' /\ SentAsConfirmed /\ CleanContainer
  BY SandboxStep, RoomIsKept
<1>3. Inv /\ UNCHANGED sandboxVars => Inv'
  BY DEF sandboxVars, client, broker, containers, SandboxInv, SandboxTyped, OneLine, Tabled, Placed,
     Attached, Doomed, RoomKept, InUse
<1>4. Inv => WithinRoom /\ SandboxTypeOK
  <2> SUFFICES ASSUME Inv PROVE WithinRoom /\ SandboxTypeOK
    OBVIOUS
  <2>1. {i \in Bx : state[i] \in {"new", "ready", "broken"}} \subseteq {table[s] : s \in BoxSessions}
    BY DEF SandboxInv, Tabled
  <2>2. ran \in [Requests -> 0..2]
    BY DEF SandboxInv, SandboxTyped
  <2> QED BY <2>1, <2>2 DEF RoomKept, WithinRoom, SandboxInv, SandboxTyped, SandboxTypeOK
<1>5. Inv /\ [SandboxNext]_sandboxVars => Inv'
  BY <1>2, <1>3
<1>6. Inv' => WithinRoom' /\ SandboxTypeOK'
  BY <1>4, PTL
<1>7. Inv /\ [SandboxNext]_sandboxVars
        => [SentAsConfirmed /\ CleanContainer /\ WithinRoom' /\ SandboxTypeOK']_sandboxVars
  BY <1>2, <1>5, <1>6
<1> QED BY <1>1, <1>5, <1>7, PTL DEF SandboxSpec, ExecutedAsConfirmed
-----------------------------------------------------------------------------
(***************************************************************************)
(* DialogueIsObeyed for any messages, pairings, commands and restarts, and *)
(* for sessions that go at any time. An accepted message that was not      *)
(* handed over is in one place, in the queue or with one worker            *)
(* (InOnePlace), and who admits it has the lock of the sender, so its      *)
(* dialogue cannot end under it (AdmitsUnderLock). A message whose user    *)
(* has left its dialogue since then is bound to a dialogue that is over    *)
(* (Reached), also when it was moved on to the dialogue of a new session.  *)
(* A button counts only after its whole preview arrived                    *)
(* (ButtonsHavePreviews).                                                  *)
(***************************************************************************)

\* What a worker carries from the queue to the assistant.
Carried == [at: {"media", "admits", "calls"}, msg: Messages \X Dialogues]
MailTyped ==
    /\ receipts \subseteq Messages
    /\ inbox \in Seq(Messages \X Dialogues) /\ Len(inbox) <= Waiting
    /\ clerk \in [Clerks -> {Idling} \cup Carried]
    /\ begun \in [Messages -> {0, 1}] /\ acceptedMail \in [Messages -> Dialogues \cup {NoTalk}]
\* An accepted message that was not handed over, in the pairing that accepted it.
Accepted(x) ==
    /\ x[1] \in receipts /\ begun[x[1]] = 0
    /\ acceptedMail[x[1]] \in Dialogues /\ x[2][1] = acceptedMail[x[1]][1]
\* It is in the queue or with one worker, and only there.
InOnePlace ==
    /\ \A m \in Messages \ receipts : begun[m] = 0
    /\ \A i \in DOMAIN inbox : Accepted(inbox[i])
    /\ \A c \in Clerks : clerk[c] # Idling => Accepted(clerk[c].msg)
    /\ \A i, j \in DOMAIN inbox : inbox[i][1] = inbox[j][1] => i = j
    /\ \A i \in DOMAIN inbox, c \in Clerks : clerk[c] # Idling => clerk[c].msg[1] # inbox[i][1]
    /\ \A c, d \in Clerks :
          clerk[c] # Idling /\ clerk[d] # Idling /\ clerk[c].msg[1] = clerk[d].msg[1] => c = d
\* Whoever admits a message has the lock, so its dialogue is still the one.
AdmitsUnderLock ==
    /\ peer \in Clerks \cup {"free"}
    /\ \A c \in Clerks :
          /\ peer = c <=> clerk[c].at \in {"admits", "calls"}
          /\ peer = c => Paired /\ binding.on /\ binding.talk = clerk[c].msg[2]
MailInv == MailTyped /\ InOnePlace /\ AdmitsUnderLock
\* The types of the dialogue, the run and the desk.
DeskTyped ==
    /\ binding = Unpaired \/ binding \in [talk: Dialogues, on: BOOLEAN]
    /\ pairs \in 0..Turns /\ ticket \in BOOLEAN /\ bot \in {"on", "away", "other"} /\ crashes \in 0..Crashes
    /\ active \in BOOLEAN /\ asked \in 0..Asks /\ pending \in 0..asked
    /\ watcher = Resting \/ watcher \in [at: {"look", "sends", "sent"}, talk: Dialogues, for: 0..asked]
    /\ record \in Buttons \cup {NoButton} /\ screen \subseteq Buttons /\ proven \subseteq screen
\* A code is only made while another pairing is possible.
CodeIsGood == ticket => pairs < Turns
\* What is under way to the user is an operation, and a button that counts has
\* its whole preview.
ButtonsHavePreviews ==
    /\ watcher.at \in {"sends", "sent"} => watcher.for # 0
    /\ watcher.at = "sent" => <<watcher.for, watcher.talk>> \in proven
    /\ record # NoButton => record \in proven
ChannelsInv == MailInv /\ DeskTyped /\ CodeIsGood /\ ButtonsHavePreviews /\ RevokedIsStopped
\* A message is not bound to a dialogue that is still to come; and if its user
\* left a dialogue after it was accepted, its own dialogue is over.
Reached(x) ==
    /\ x[2][1] <= pairs
    /\ Paired /\ x[2][1] = binding.talk[1] => x[2][2] <= binding.talk[2]
    /\ left[1] = x[2][1] => left[2] < acceptedMail[x[1]][2] \/ x[2][2] <= left[2]
LeftInv ==
    /\ gone \in BOOLEAN /\ left \in Dialogues \cup {NoTalk} /\ left[1] <= pairs
    /\ Paired => binding.talk[1] <= pairs /\ (left[1] = binding.talk[1] => left[2] < binding.talk[2])
    /\ \A i \in DOMAIN inbox : Reached(inbox[i])
    /\ \A c \in Clerks : clerk[c] # Idling => Reached(clerk[c].msg)

\* A worker at rest is told from one that carries a message.
LEMMA CarriedIsNotIdling ==
    /\ Idling.at = "idle" /\ \A k \in Carried : k # Idling /\ k.at \in {"media", "admits", "calls"} /\ k.msg \in Messages \X Dialogues
    /\ Resting.at = "rest"
<1>1. Idling.at = "idle"
  BY DEF Idling
<1>2. Resting.at = "rest"
  BY DEF Resting
<1>3. \A k \in Carried : k.at \in {"media", "admits", "calls"} /\ k.msg \in Messages \X Dialogues
  BY DEF Carried
<1> QED BY <1>1, <1>2, <1>3

\* The next dialogue of a pairing.
LEMMA NextDialogue ==
    ASSUME NEW t \in Dialogues, t[2] < Turns
    PROVE  Onwards(t) \in Dialogues
<1>1. t[1] \in 1..Turns /\ t[2] \in 0..Turns /\ Turns \in Nat
  BY ChannelsAssumption DEF Dialogues
<1>2. t[2] + 1 \in 0..Turns
  BY <1>1
<1> QED BY <1>1, <1>2 DEF Onwards, Dialogues

\* The dialogue after a look at the session.
LEMMA Rebuilt ==
    ASSUME DeskTyped, Paired, Rebuild
    PROVE  /\ TalkNow \in Dialogues /\ TalkNow[1] = binding.talk[1] /\ binding.talk \in Dialogues
           /\ TalkNow[2] = binding.talk[2] \/ TalkNow[2] = binding.talk[2] + 1
           /\ binding' \in [talk: Dialogues, on: BOOLEAN] /\ binding'.talk = TalkNow /\ binding'.on = binding.on
           /\ Paired' /\ (record' = record \/ record' = NoButton) /\ gone' = FALSE
<1>1. binding \in [talk: Dialogues, on: BOOLEAN]
  BY DEF DeskTyped, Paired
<1>2. gone => Onwards(binding.talk) \in Dialogues
  BY <1>1, NextDialogue DEF Rebuild, MoreTurns
<1>3. Onwards(binding.talk)[1] = binding.talk[1] /\ Onwards(binding.talk)[2] = binding.talk[2] + 1
  BY DEF Onwards
<1>4. TalkNow \in Dialogues /\ TalkNow[1] = binding.talk[1]
      /\ (TalkNow[2] = binding.talk[2] \/ TalkNow[2] = binding.talk[2] + 1)
  BY <1>1, <1>2, <1>3 DEF TalkNow
<1>5. /\ binding' \in [talk: Dialogues, on: BOOLEAN] /\ binding'.talk = TalkNow /\ binding'.on = binding.on
      /\ (record' = record \/ record' = NoButton) /\ gone' = FALSE
  BY <1>1, <1>4 DEF Rebuild
<1>6. Unpaired.talk = NoTalk /\ NoTalk \notin Dialogues
  BY DEF Unpaired, NoTalk, Dialogues
<1>7. Paired'
  BY <1>5, <1>6 DEF Paired
<1> QED BY <1>1, <1>4, <1>5, <1>7

\* A step that does not touch the messages keeps what is known of them; the
\* dialogue changes only while nobody has the lock.
LEMMA MailStays ==
    ASSUME MailInv, UNCHANGED <<mail, peer>>, peer = "free" \/ binding' = binding
    PROVE  MailInv'
<1>1. UNCHANGED <<receipts, inbox, clerk, begun, acceptedMail, peer>>
  BY DEF mail
<1>2. MailTyped' /\ InOnePlace'
  BY <1>1 DEF MailInv, MailTyped, InOnePlace, Accepted
<1>3. AdmitsUnderLock'
  <2>1. CASE binding' = binding
    BY <1>1, <2>1 DEF MailInv, AdmitsUnderLock, Paired
  <2>2. CASE peer = "free"
    BY <1>1, <2>2, ChannelsAssumption DEF MailInv, AdmitsUnderLock
  <2> QED BY <2>1, <2>2
<1> QED BY <1>2, <1>3 DEF MailInv

\* Receiving, taking, giving up and admitting a message.
LEMMA MailMoves ==
    ASSUME ChannelsInv,
           \/ \E m \in Messages : Receive(m)
           \/ \E c \in Clerks : TakeMail(c) \/ GiveUp(c) \/ Admit(c) \/ FindSession(c) \/ NoCall(c)
    PROVE  MailInv'
<1> USE ChannelsAssumption, CarriedIsNotIdling
    DEF ChannelsInv, MailInv, MailTyped, InOnePlace, AdmitsUnderLock
<1> DEFINE AcceptedNow(x) == /\ x[1] \in receipts' /\ begun'[x[1]] = 0
                             /\ acceptedMail'[x[1]] \in Dialogues /\ x[2][1] = acceptedMail'[x[1]][1]
<1>b. ASSUME NEW c \in Clerks, TakeMail(c) \/ GiveUp(c) \/ Admit(c) \/ NoCall(c)
      PROVE  binding' = binding /\ (Paired' <=> Paired)
  BY <1>b DEF TakeMail, GiveUp, Admit, NoCall, dialogue, Paired
<1>1. ASSUME NEW m \in Messages, Receive(m) PROVE MailInv'
  <2>0. peer = "free" /\ m \notin receipts /\ TalkNow \in Dialogues
    BY <1>1, Rebuilt DEF Receive, Known
  <2>1. UNCHANGED <<clerk, begun, peer>>
    BY <1>1 DEF Receive
  <2>2. CASE UNCHANGED <<receipts, inbox, acceptedMail>>
    BY <2>0, <2>1, <2>2, MailStays DEF mail
  <2>3. CASE /\ Len(inbox) < Waiting
             /\ inbox' = Append(inbox, <<m, TalkNow>>)
             /\ receipts' = receipts \cup {m}
             /\ acceptedMail' = [acceptedMail EXCEPT ![m] = TalkNow]
    <3>1. TalkNow \in Dialogues /\ m \notin receipts
      BY <2>0
    <3>2. <<m, TalkNow>> \in Messages \X Dialogues
      BY <3>1
    <3>3. /\ inbox' \in Seq(Messages \X Dialogues) /\ Len(inbox') = Len(inbox) + 1
          /\ DOMAIN inbox' = 1..(Len(inbox) + 1)
          /\ \A i \in 1..Len(inbox) : inbox'[i] = inbox[i]
          /\ inbox'[Len(inbox) + 1] = <<m, TalkNow>> /\ Len(inbox) \in Nat
      BY <2>3, <3>2
    <3>4. MailTyped'
      BY <2>1, <2>3, <3>1, <3>3
    <3>5. ASSUME NEW x \in Messages \X Dialogues, Accepted(x) PROVE x[1] # m /\ AcceptedNow(x)
      <4>1. x[1] \in Messages /\ x[1] # m
        BY <3>1, <3>5 DEF Accepted
      <4> QED BY <2>1, <2>3, <3>5, <4>1 DEF Accepted
    <3>6. AcceptedNow(<<m, TalkNow>>) /\ <<m, TalkNow>>[1] = m
      <4>1. begun'[m] = 0
        BY <2>1, <3>1
      <4>2. acceptedMail'[m] = TalkNow /\ m \in receipts' /\ TalkNow \in Dialogues
        BY <2>0, <2>3
      <4> QED BY <4>1, <4>2
    <3>i. \A i \in 1..Len(inbox) : inbox[i] \in Messages \X Dialogues
      OBVIOUS
    <3>c. \A e \in Clerks : clerk[e] # Idling => clerk[e].msg \in Messages \X Dialogues
      OBVIOUS
    <3> HIDE DEF AcceptedNow
    <3>7. \A i \in DOMAIN inbox' : i \in 1..Len(inbox) \/ i = Len(inbox) + 1
      BY <3>3
    <3>a. \A i \in DOMAIN inbox' :
            (i \in 1..Len(inbox) /\ inbox'[i] = inbox[i]) \/ (i = Len(inbox) + 1 /\ inbox'[i] = <<m, TalkNow>>)
      <4> HIDE DEF MailInv, MailTyped, InOnePlace
      <4> QED BY <3>3, <3>7
    <3>8. InOnePlace'
      <4>0. \A n \in Messages \ receipts' : begun'[n] = 0
        BY <2>1, <2>3
      <4>1. \A i \in DOMAIN inbox' : AcceptedNow(inbox'[i])
        <5>1. \A i \in 1..Len(inbox) : AcceptedNow(inbox[i])
          <6>1. \A i \in 1..Len(inbox) : Accepted(inbox[i])
            OBVIOUS
          <6> QED BY <6>1, <3>5, <3>i
        <5> SUFFICES ASSUME NEW i \in DOMAIN inbox' PROVE AcceptedNow(inbox'[i])
          OBVIOUS
        <5>2. CASE i \in 1..Len(inbox) /\ inbox'[i] = inbox[i]
          BY <5>1, <5>2
        <5>3. CASE inbox'[i] = <<m, TalkNow>>
          BY <5>3, <3>6
        <5> QED BY <5>2, <5>3, <3>a
      <4>2. \A e \in Clerks : clerk'[e] # Idling => AcceptedNow(clerk'[e].msg)
        BY <2>1, <3>5, <3>c
      <4>3. \A i, j \in DOMAIN inbox' : inbox'[i][1] = inbox'[j][1] => i = j
        <5> SUFFICES ASSUME NEW i \in DOMAIN inbox', NEW j \in DOMAIN inbox', inbox'[i][1] = inbox'[j][1]
                     PROVE  i = j
          OBVIOUS
        <5>1. \A k \in 1..Len(inbox) : inbox'[k] = inbox[k] /\ inbox[k][1] # m
          BY <3>3, <3>5, <3>i
        <5>2. CASE i \in 1..Len(inbox) /\ j \in 1..Len(inbox)
          BY <5>1, <5>2
        <5>3. CASE i = Len(inbox) + 1 /\ j \in 1..Len(inbox)
          BY <5>1, <5>3, <3>3, <3>6
        <5>4. CASE i \in 1..Len(inbox) /\ j = Len(inbox) + 1
          BY <5>1, <5>4, <3>3, <3>6
        <5> QED BY <5>2, <5>3, <5>4, <3>7
      <4>4. \A i \in DOMAIN inbox', e \in Clerks : clerk'[e] # Idling => clerk'[e].msg[1] # inbox'[i][1]
        <5> SUFFICES ASSUME NEW i \in DOMAIN inbox', NEW e \in Clerks, clerk'[e] # Idling
                     PROVE  clerk'[e].msg[1] # inbox'[i][1]
          OBVIOUS
        <5>0. clerk'[e] = clerk[e] /\ clerk[e] # Idling
          BY <2>1
        <5>1. CASE i \in 1..Len(inbox)
          <6>1. i \in DOMAIN inbox /\ inbox'[i] = inbox[i]
            BY <5>1, <3>3
          <6> QED BY <5>0, <6>1
        <5>2. CASE i = Len(inbox) + 1
          <6>1. clerk[e].msg[1] # m
            BY <5>0, <3>5, <3>c
          <6>2. inbox'[i] = <<m, TalkNow>>
            BY <5>2, <3>3
          <6>3. inbox'[i][1] = m
            BY <6>2
          <6> QED BY <5>0, <6>1, <6>3
        <5> QED BY <5>1, <5>2, <3>7
      <4>5. \A e, d \in Clerks :
               clerk'[e] # Idling /\ clerk'[d] # Idling /\ clerk'[e].msg[1] = clerk'[d].msg[1] => e = d
        BY <2>1
      <4> QED BY <4>0, <4>1, <4>2, <4>3, <4>4, <4>5 DEF AcceptedNow, Accepted
    <3>9. AdmitsUnderLock'
      BY <2>0, <2>1
    <3> QED BY <3>4, <3>8, <3>9
  <2> QED BY <1>1, <2>2, <2>3 DEF Receive, AfterFull
<1>2. ASSUME NEW c \in Clerks, TakeMail(c) PROVE MailInv'
  <2>b. binding' = binding /\ (Paired' <=> Paired)
    BY <1>b, <1>2
  <2>1. /\ inbox # <<>> /\ inbox' = Tail(inbox) /\ clerk[c].at = "idle"
        /\ UNCHANGED <<receipts, begun, acceptedMail, peer>>
        /\ clerk' = [clerk EXCEPT ![c] =
               IF SameDialogue(Head(inbox)[2]) THEN [at |-> "media", msg |-> Head(inbox)] ELSE Idling]
    BY <1>2 DEF TakeMail
  <2>2. Len(inbox) \in Nat /\ Len(inbox) # 0 /\ 1 \in DOMAIN inbox /\ Head(inbox) = inbox[1]
        /\ inbox[1] \in Messages \X Dialogues
    BY <2>1
  <2>3. inbox' \in Seq(Messages \X Dialogues) /\ Len(inbox') = Len(inbox) - 1
        /\ \A i \in DOMAIN inbox' : i + 1 \in DOMAIN inbox /\ i + 1 # 1 /\ i \in Nat /\ inbox'[i] = inbox[i + 1]
    BY <2>1, <2>2
  <2>4. clerk' \in [Clerks -> {Idling} \cup Carried]
        /\ \A e \in Clerks : clerk'[e] = clerk[e]
              \/ (e = c /\ clerk'[e] = Idling)
              \/ (e = c /\ clerk'[e].at = "media" /\ clerk'[e].msg = inbox[1])
    <3>1. [at |-> "media", msg |-> inbox[1]] \in Carried
      BY <2>2 DEF Carried
    <3> QED BY <2>1, <2>2, <3>1
  <2>5. \A x : Accepted(x) => AcceptedNow(x)
    BY <2>1 DEF Accepted
  <2> HIDE DEF AcceptedNow
  <2>6. MailTyped'
    BY <2>1, <2>2, <2>3, <2>4
  <2>i. \A i \in DOMAIN inbox : inbox[i] \in Messages \X Dialogues
    OBVIOUS
  <2>c. \A e \in Clerks : clerk[e] # Idling => clerk[e].msg \in Messages \X Dialogues
    OBVIOUS
  <2>7. InOnePlace'
    <3>0. \A n \in Messages \ receipts' : begun'[n] = 0
      BY <2>1
    <3>1. \A i \in DOMAIN inbox' : AcceptedNow(inbox'[i])
      <4>1. \A i \in DOMAIN inbox : AcceptedNow(inbox[i])
        BY <2>5
      <4> QED BY <2>3, <4>1
    <3>2. \A e \in Clerks : clerk'[e] # Idling => AcceptedNow(clerk'[e].msg)
      <4>1. AcceptedNow(inbox[1])
        BY <2>2, <2>5
      <4>2. \A e \in Clerks : clerk[e] # Idling => AcceptedNow(clerk[e].msg)
        BY <2>5
      <4> QED BY <2>4, <4>1, <4>2
    <3>3. \A i, j \in DOMAIN inbox' : inbox'[i][1] = inbox'[j][1] => i = j
      <4> SUFFICES ASSUME NEW i \in DOMAIN inbox', NEW j \in DOMAIN inbox', inbox'[i][1] = inbox'[j][1]
                   PROVE  i = j
        OBVIOUS
      <4>1. i + 1 = j + 1 /\ i \in Nat /\ j \in Nat
        BY <2>3
      <4> QED BY <4>1
    <3>4. \A i \in DOMAIN inbox', e \in Clerks : clerk'[e] # Idling => clerk'[e].msg[1] # inbox'[i][1]
      <4> SUFFICES ASSUME NEW i \in DOMAIN inbox', NEW e \in Clerks, clerk'[e] # Idling
                   PROVE  clerk'[e].msg[1] # inbox'[i][1]
        OBVIOUS
      <4>1. CASE clerk'[e] = clerk[e]
        BY <4>1, <2>3
      <4>2. CASE clerk'[e].msg = inbox[1]
        <5>1. i + 1 \in DOMAIN inbox /\ 1 \in DOMAIN inbox /\ i + 1 # 1 /\ inbox'[i] = inbox[i + 1]
          BY <2>2, <2>3
        <5>2. inbox[i + 1][1] # inbox[1][1]
          BY <5>1
        <5> QED BY <4>2, <5>1, <5>2
      <4> QED BY <4>1, <4>2, <2>4
    <3>5. \A e, d \in Clerks :
             clerk'[e] # Idling /\ clerk'[d] # Idling /\ clerk'[e].msg[1] = clerk'[d].msg[1] => e = d
      <4> SUFFICES ASSUME NEW e \in Clerks, NEW d \in Clerks, e # d, clerk'[e] # Idling, clerk'[d] # Idling
                   PROVE  clerk'[e].msg[1] # clerk'[d].msg[1]
        OBVIOUS
      <4>1. CASE e # c /\ d # c
        BY <4>1, <2>4
      <4>2. CASE e = c
        BY <4>2, <2>1, <2>2, <2>4
      <4>3. CASE d = c
        BY <4>3, <2>1, <2>2, <2>4
      <4> QED BY <4>1, <4>2, <4>3
    <3> QED BY <3>0, <3>1, <3>2, <3>3, <3>4, <3>5 DEF AcceptedNow, Accepted
  <2>8. AdmitsUnderLock'
    BY <2>b, <2>1, <2>4
  <2> QED BY <2>6, <2>7, <2>8
<1>3. ASSUME NEW c \in Clerks, GiveUp(c) PROVE MailInv'
  <2>b. binding' = binding /\ (Paired' <=> Paired)
    BY <1>b, <1>3
  <2>1. clerk' = [clerk EXCEPT ![c] = Idling] /\ UNCHANGED <<receipts, inbox, begun, acceptedMail, peer>>
        /\ clerk[c].at = "media"
    BY <1>3 DEF GiveUp
  <2>2. \A e \in Clerks : clerk'[e] = IF e = c THEN Idling ELSE clerk[e]
    BY <2>1
  <2> QED BY <2>b, <2>1, <2>2 DEF Accepted
<1>4. ASSUME NEW c \in Clerks, Admit(c) PROVE MailInv'
  <2>b. binding' = binding /\ (Paired' <=> Paired)
    BY <1>b, <1>4
  <2>1. CASE StillCurrent(c)
    <3>1. /\ clerk[c].at = "media" /\ peer = "free" /\ peer' = c /\ UNCHANGED <<receipts, inbox, begun, acceptedMail>>
          /\ clerk' = [clerk EXCEPT ![c].at = "admits"]
      BY <1>4, <2>1 DEF Admit
    <3>2. clerk[c] \in Carried /\ clerk'[c] \in Carried /\ clerk'[c].at = "admits" /\ clerk'[c].msg = clerk[c].msg
      BY <3>1 DEF Carried
    <3>3. \A e \in Clerks : e # c => clerk'[e] = clerk[e]
      BY <3>1
    <3>4. Paired /\ binding.on /\ binding.talk = clerk[c].msg[2]
      BY <2>1 DEF StillCurrent, SameDialogue, Live
    <3>5. MailTyped'
      BY <3>1, <3>2, <3>3
    <3>6. \A x : Accepted(x)' = Accepted(x)
      BY <3>1 DEF Accepted
    <3>7. \A e \in Clerks : (clerk'[e] # Idling <=> clerk[e] # Idling) /\ (clerk[e] # Idling => clerk'[e].msg = clerk[e].msg)
      BY <3>2, <3>3
    <3>8. InOnePlace'
      BY <3>1, <3>6, <3>7
    <3>9. AdmitsUnderLock'
      BY <2>b, <3>1, <3>2, <3>3, <3>4
    <3> QED BY <3>5, <3>8, <3>9
  <2>2. CASE ~StillCurrent(c)
    <3>1. clerk' = [clerk EXCEPT ![c] = Idling] /\ UNCHANGED <<receipts, inbox, begun, acceptedMail, peer>>
          /\ clerk[c].at = "media"
      BY <1>4, <2>2 DEF Admit
    <3>2. \A e \in Clerks : clerk'[e] = IF e = c THEN Idling ELSE clerk[e]
      BY <3>1
    <3> QED BY <2>b, <3>1, <3>2 DEF Accepted
  <2> QED BY <2>1, <2>2
<1>5. ASSUME NEW c \in Clerks, NoCall(c) PROVE MailInv'
  <2>1. /\ clerk[c].at = "calls" /\ peer' = "free" /\ UNCHANGED <<receipts, inbox, begun, acceptedMail>>
        /\ clerk' = [clerk EXCEPT ![c] = IF bot = "away" THEN [@ EXCEPT !.at = "media"] ELSE Idling]
    BY <1>5 DEF NoCall
  <2>2. clerk[c] \in Carried /\ peer = c
    BY <2>1
  <2>3. /\ \A e \in Clerks \ {c} : clerk'[e] = clerk[e]
        /\ clerk'[c] = Idling \/ (clerk'[c] \in Carried /\ clerk'[c].at = "media" /\ clerk'[c].msg = clerk[c].msg)
    BY <2>1, <2>2 DEF Carried
  <2>4. MailTyped'
    BY <2>1, <2>3
  <2>5. \A x : Accepted(x)' = Accepted(x)
    BY <2>1 DEF Accepted
  <2>6. \A e \in Clerks : clerk'[e] # Idling => clerk[e] # Idling /\ clerk'[e].msg = clerk[e].msg
    BY <2>2, <2>3
  <2>7. InOnePlace'
    BY <2>1, <2>5, <2>6
  <2>8. AdmitsUnderLock'
    BY <1>b, <1>5, <2>1, <2>2, <2>3
  <2> QED BY <2>4, <2>7, <2>8
<1>6. ASSUME NEW c \in Clerks, FindSession(c) PROVE MailInv'
  <2>0. clerk[c].at = "admits" /\ peer = c /\ clerk[c] \in Carried /\ Paired /\ binding.on
        /\ binding.talk = clerk[c].msg[2] /\ UNCHANGED <<receipts, inbox, begun, acceptedMail>>
    BY <1>6 DEF FindSession
  <2>1. CASE gone /\ bot = "other"
    <3>1. clerk' = [clerk EXCEPT ![c] = Idling] /\ peer' = "free" /\ binding' = binding
      BY <1>6, <2>1 DEF FindSession
    <3>2. \A e \in Clerks : clerk'[e] = IF e = c THEN Idling ELSE clerk[e]
      BY <3>1
    <3> QED BY <2>0, <3>1, <3>2 DEF Accepted
  <2>2. CASE ~(gone /\ bot = "other")
    <3>1. Rebuild /\ peer' = peer /\ clerk' = [clerk EXCEPT ![c] = [at |-> "calls", msg |-> <<clerk[c].msg[1], TalkNow>>]]
      BY <1>6, <2>2 DEF FindSession
    <3>2. TalkNow \in Dialogues /\ TalkNow[1] = binding.talk[1] /\ Paired' /\ binding'.on = binding.on
          /\ binding'.talk = TalkNow
      BY <2>0, <3>1, Rebuilt
    <3>3. clerk[c].msg \in Messages \X Dialogues
      BY <2>0
    <3> DEFINE x == <<clerk[c].msg[1], TalkNow>>
    <3>4. x \in Messages \X Dialogues /\ x[1] = clerk[c].msg[1] /\ x[2] = TalkNow
      BY <3>2, <3>3
    <3> HIDE DEF x
    <3>5. clerk' = [clerk EXCEPT ![c] = [at |-> "calls", msg |-> x]]
      BY <3>1 DEF x
    <3>6. [at |-> "calls", msg |-> x] \in Carried
      BY <3>4 DEF Carried
    <3>7. clerk'[c] \in Carried /\ clerk'[c].at = "calls" /\ clerk'[c].msg = x /\ \A e \in Clerks \ {c} : clerk'[e] = clerk[e]
      BY <3>5, <3>6
    <3>8. MailTyped'
      BY <2>0, <3>5, <3>6
    <3>9. \A z : Accepted(z)' = Accepted(z)
      BY <2>0 DEF Accepted
    <3>10. Accepted(x)
      BY <2>0, <3>2, <3>4 DEF Accepted
    <3>11. InOnePlace'
      <4>1. \A e \in Clerks : (clerk'[e] # Idling <=> clerk[e] # Idling) /\ (clerk[e] # Idling => clerk'[e].msg[1] = clerk[e].msg[1])
        BY <2>0, <3>4, <3>7
      <4>2. \A e \in Clerks : clerk'[e] # Idling => Accepted(clerk'[e].msg)
        BY <3>7, <3>10
      <4> QED BY <2>0, <3>9, <4>1, <4>2
    <3>12. AdmitsUnderLock'
      BY <2>0, <3>1, <3>2, <3>4, <3>7
    <3> QED BY <3>8, <3>11, <3>12
  <2> QED BY <2>1, <2>2
<1> QED BY <1>1, <1>2, <1>3, <1>4, <1>5, <1>6

\* The message of the worker with the lock is handed over in its dialogue, and
\* is nowhere any more.
LEMMA HandedOverOnce ==
    ASSUME ChannelsInv, LeftInv, NEW c \in Clerks, HandOver(c)
    PROVE  MailInv' /\ NotHandedOverTwice /\ (active' => active \/ Paired')
<1> USE ChannelsAssumption, CarriedIsNotIdling
    DEF ChannelsInv, MailInv, MailTyped, InOnePlace, AdmitsUnderLock
<1> DEFINE m == clerk[c].msg[1]
<1>1. /\ clerk[c].at = "calls" /\ peer' = "free" /\ clerk' = [clerk EXCEPT ![c] = Idling]
      /\ UNCHANGED <<receipts, inbox, acceptedMail, binding>>
      /\ begun' = begun \/ begun' = [begun EXCEPT ![m] = @ + 1]
  BY DEF HandOver, dialogue
<1>2. /\ clerk[c] \in Carried /\ m \in Messages /\ m \in receipts /\ begun[m] = 0
      /\ clerk[c].msg[2] \in Dialogues /\ acceptedMail[m] \in Dialogues /\ clerk[c].msg[2][1] = acceptedMail[m][1]
      /\ peer = c
      /\ Paired /\ binding.on /\ binding.talk = clerk[c].msg[2]
  BY <1>1 DEF Accepted
<1>3. \A n \in Messages : begun'[n] = begun[n] \/ (n = m /\ begun'[n] = 1)
  BY <1>1, <1>2
<1>4. \A e \in Clerks : clerk'[e] = IF e = c THEN Idling ELSE clerk[e]
  BY <1>1
<1>5. MailTyped'
  BY <1>1, <1>2
<1> HIDE DEF m
<1>6. InOnePlace'
  <2>0. \A n \in Messages \ receipts' : begun'[n] = 0
    BY <1>1, <1>2, <1>3
  <2>1. ASSUME NEW x \in Messages \X Dialogues, Accepted(x), x[1] # m
        PROVE  Accepted(x)'
    BY <1>1, <1>3, <2>1 DEF Accepted
  <2>2. \A i \in DOMAIN inbox : inbox[i] \in Messages \X Dialogues /\ inbox[i][1] # m
    BY <1>2 DEF m
  <2>3. \A e \in Clerks : clerk'[e] # Idling =>
           clerk'[e] = clerk[e] /\ clerk[e].msg \in Messages \X Dialogues /\ clerk[e].msg[1] # m
    BY <1>2, <1>4 DEF m
  <2>4. \A i \in DOMAIN inbox' : Accepted(inbox[i])'
    BY <1>1, <2>1, <2>2 DEF Accepted
  <2>5. \A e \in Clerks : clerk'[e] # Idling => Accepted(clerk[e].msg)'
    BY <1>1, <2>1, <2>3 DEF Accepted
  <2> QED BY <1>1, <2>0, <2>3, <2>4, <2>5
<1>7. AdmitsUnderLock'
  BY <1>1, <1>4
<1>8. NotHandedOverTwice
  <2>1. left[1] = binding.talk[1] => left[2] < acceptedMail[m][2]
    <3>1. left \in Dialogues \cup {NoTalk} /\ Reached(clerk[c].msg) /\ (left[1] = binding.talk[1] => left[2] < binding.talk[2])
      BY <1>2 DEF LeftInv
    <3>2. binding.talk \in Dialogues
      BY <1>2
    <3>3. left[2] \in Nat /\ binding.talk[2] \in Nat
      BY <3>1, <3>2 DEF Dialogues, NoTalk
    <3> QED BY <1>2, <3>1, <3>3 DEF Reached, m
  <2> QED BY <1>2, <1>3, <2>1 DEF NotHandedOverTwice
<1>9. active' => active \/ Paired'
  BY <1>1, <1>2 DEF Paired
<1> QED BY <1>5, <1>6, <1>7, <1>8, <1>9

\* Each step keeps the invariant and what a dialogue promises.
LEMMA ChannelsStep ==
    ASSUME ChannelsInv, LeftInv, ChannelsNext
    PROVE  ChannelsInv' /\ NotHandedOverTwice /\ ClickMeansPreview
<1> DEFINE Desk == DeskTyped' /\ CodeIsGood' /\ ButtonsHavePreviews' /\ RevokedIsStopped'
           Done == ChannelsInv' /\ NotHandedOverTwice
<1> USE ChannelsAssumption, CarriedIsNotIdling DEF others
<1>i. DeskTyped /\ CodeIsGood /\ ButtonsHavePreviews /\ RevokedIsStopped /\ MailInv
  BY DEF ChannelsInv
<1>u. Unpaired.talk = NoTalk /\ Unpaired.on = FALSE /\ NoTalk \notin Dialogues /\ NoButton \notin Buttons
  BY DEF Unpaired, NoTalk, NoButton, Dialogues, Buttons
<1>m. ASSUME UNCHANGED <<mail, peer>>, peer = "free" \/ binding' = binding, Desk PROVE Done
  BY <1>m, <1>i, MailStays DEF ChannelsInv, NotHandedOverTwice, mail
<1>d. ASSUME UNCHANGED <<dialogue, run, desk, crashes>> PROVE Desk
  BY <1>d, <1>i DEF dialogue, run, desk, DeskTyped, CodeIsGood, ButtonsHavePreviews,
     RevokedIsStopped, Paired
<1> HIDE DEF Desk, Done
<1>1. ASSUME NEW b \in {"on", "away", "other"}, BotChanges(b) PROVE Done
  <2>1. UNCHANGED <<binding, pairs, ticket, mail, peer, run, desk, crashes>> /\ bot' = b
    BY <1>1 DEF BotChanges
  <2>2. Desk
    BY <1>i, <2>1 DEF run, desk, Desk, DeskTyped, CodeIsGood, ButtonsHavePreviews,
       RevokedIsStopped, Paired
  <2> QED BY <1>m, <2>1, <2>2
<1>a. asked \in Nat /\ 0 \in 0..asked
  BY <1>i DEF DeskTyped, CodeIsGood, ButtonsHavePreviews, RevokedIsStopped, Paired
<1>2. ASSUME MakeCode \/ CodeExpires PROVE Done
  <2>1. /\ UNCHANGED <<binding, pairs, bot, mail, peer, run, desk, crashes>>
        /\ ticket' = FALSE \/ (ticket' = TRUE /\ pairs < Turns)
    BY <1>2 DEF MakeCode, CodeExpires
  <2>2. Desk
    BY <1>i, <2>1 DEF run, desk, Desk, DeskTyped, CodeIsGood, ButtonsHavePreviews,
       RevokedIsStopped, Paired
  <2> QED BY <1>m, <2>1, <2>2
<1>3. ASSUME Pair PROVE Done
  <2>1. binding' \in [talk: Dialogues, on: BOOLEAN] /\ pairs' \in 0..Turns
    <3>1. pairs + 1 \in 1..Turns /\ 0 \in 0..Turns
      BY <1>3, <1>i DEF Pair, DeskTyped, CodeIsGood, ButtonsHavePreviews, RevokedIsStopped, Paired
    <3> QED BY <1>3, <3>1 DEF Pair, Dialogues
  <2>2. /\ UNCHANGED <<bot, mail, peer, asked, watcher, screen, proven, crashes>> /\ peer = "free"
        /\ ticket' = FALSE /\ record' = NoButton /\ active' = FALSE /\ pending' = 0
    BY <1>3 DEF Pair, StopRun
  <2>3. Desk
    BY <1>i, <1>a, <2>1, <2>2 DEF Desk, DeskTyped, CodeIsGood, ButtonsHavePreviews,
       RevokedIsStopped, Paired
  <2> QED BY <1>m, <2>2, <2>3
<1>4. ASSUME Revoke PROVE Done
  <2>1. /\ UNCHANGED <<pairs, ticket, bot, mail, peer, asked, screen, proven, crashes>> /\ peer = "free"
        /\ binding' = Unpaired /\ watcher' = Resting /\ record' = NoButton /\ active' = FALSE /\ pending' = 0
    BY <1>4 DEF Revoke, StopRun, Undisturbed
  <2>2. Desk
    BY <1>i, <1>a, <2>1 DEF Desk, DeskTyped, CodeIsGood, ButtonsHavePreviews, RevokedIsStopped,
       Paired
  <2> QED BY <1>m, <2>1, <2>2
<1>5. ASSUME Command, binding' \in [talk: {Onwards(binding.talk)}, on: BOOLEAN]
      PROVE  binding' \in [talk: Dialogues, on: BOOLEAN] /\ binding' # Unpaired /\ peer = "free"
             /\ Onwards(binding.talk) \in Dialogues
  BY <1>5, <1>i, <1>u, NextDialogue DEF Command, MoreTurns, DeskTyped, CodeIsGood, ButtonsHavePreviews,
     RevokedIsStopped, Paired
<1>6. ASSUME NEW on \in BOOLEAN, Switch(on) PROVE Done
  <2>1. /\ binding' \in [talk: Dialogues, on: BOOLEAN] /\ binding' # Unpaired /\ peer = "free"
        /\ Onwards(binding.talk) \in Dialogues
    BY <1>5, <1>6 DEF Switch
  <2>2. watcher' = watcher \/ watcher' = [at |-> "look", talk |-> Onwards(binding.talk), for |-> 0]
    BY <1>6 DEF Switch
  <2>3. UNCHANGED <<pairs, ticket, bot, active, asked, pending, screen, proven, crashes>> /\ record' = NoButton /\ Paired
    BY <1>6 DEF Switch, run, Command
  <2>4. asked \in Nat /\ 0 \in 0..asked
    BY <1>i DEF DeskTyped, CodeIsGood, ButtonsHavePreviews, RevokedIsStopped, Paired
  <2>5. watcher' = Resting \/ watcher' \in [at: {"look", "sends", "sent"}, talk: Dialogues, for: 0..asked]
    BY <1>i, <2>1, <2>2, <2>4 DEF DeskTyped, CodeIsGood, ButtonsHavePreviews, RevokedIsStopped,
       Paired
  <2>6. Desk
    BY <1>i, <2>1, <2>2, <2>3, <2>5 DEF Desk, DeskTyped, CodeIsGood, ButtonsHavePreviews,
       RevokedIsStopped, Paired
  <2> QED BY <1>6, <1>m, <2>1, <2>6 DEF Switch
<1>7. ASSUME StopCommand PROVE Done
  <2>1. /\ Command /\ binding' = [binding EXCEPT !.talk = Onwards(@)]
        /\ UNCHANGED <<pairs, ticket, bot, mail, peer, asked, watcher, screen, proven, crashes>>
        /\ record' = NoButton /\ active' = FALSE /\ pending' = 0
    BY <1>7 DEF StopCommand, StopRun
  <2>2. binding \in [talk: Dialogues, on: BOOLEAN]
    BY <1>i, <2>1 DEF Command, DeskTyped, CodeIsGood, ButtonsHavePreviews, RevokedIsStopped, Paired
  <2>3. binding' \in [talk: {Onwards(binding.talk)}, on: BOOLEAN]
    BY <2>1, <2>2
  <2>4. binding' \in [talk: Dialogues, on: BOOLEAN] /\ peer = "free"
    BY <1>5, <2>1, <2>3
  <2>5. Desk
    BY <1>i, <1>a, <2>1, <2>4 DEF Desk, DeskTyped, CodeIsGood, ButtonsHavePreviews,
       RevokedIsStopped, Paired
  <2> QED BY <1>m, <2>1, <2>4, <2>5
<1>8. ASSUME NewSession PROVE Done
  <2>1. /\ Command /\ ~active /\ binding' = [talk |-> Onwards(binding.talk), on |-> TRUE] /\ record' = NoButton
        /\ UNCHANGED <<pairs, ticket, bot, mail, peer, run, watcher, screen, proven, crashes>>
    BY <1>8 DEF NewSession
  <2>2. binding' \in [talk: {Onwards(binding.talk)}, on: BOOLEAN]
    BY <2>1
  <2>3. binding' \in [talk: Dialogues, on: BOOLEAN] /\ peer = "free"
    BY <1>5, <2>1, <2>2
  <2>4. Desk
    BY <1>i, <2>1, <2>3 DEF run, Desk, DeskTyped, CodeIsGood, ButtonsHavePreviews,
       RevokedIsStopped, Paired
  <2> QED BY <1>m, <2>1, <2>3, <2>4
<1>r. ASSUME UNCHANGED <<pairs, ticket, bot, crashes, active, asked, pending, watcher, screen, proven>>, Paired,
             binding' \in [talk: Dialogues, on: BOOLEAN], Paired', record' = record \/ record' = NoButton
      PROVE  Desk
  BY <1>i, <1>r DEF Desk, DeskTyped, CodeIsGood, ButtonsHavePreviews, RevokedIsStopped
<1>k. ASSUME \/ \E m \in Messages : Receive(m)
             \/ \E c \in Clerks : TakeMail(c) \/ GiveUp(c) \/ Admit(c) \/ NoCall(c) \/ FindSession(c)
      PROVE  Done
  <2>1. begun' = begun
    BY <1>k DEF Receive, TakeMail, GiveUp, Admit, NoCall, FindSession
  <2>2. ASSUME NEW m \in Messages, Receive(m) PROVE Desk
    <3>1. UNCHANGED <<pairs, ticket, bot, crashes, active, asked, pending, watcher, screen, proven>> /\ Paired /\ Rebuild
      BY <2>2 DEF Receive, run
    <3>2. binding' \in [talk: Dialogues, on: BOOLEAN] /\ Paired' /\ (record' = record \/ record' = NoButton)
      BY <1>i, <3>1, Rebuilt
    <3> QED BY <1>r, <3>1, <3>2
  <2>3. ASSUME NEW c \in Clerks, TakeMail(c) \/ GiveUp(c) \/ Admit(c) \/ NoCall(c) PROVE Desk
    <3>1. UNCHANGED <<dialogue, run, desk, crashes>>
      BY <2>3 DEF TakeMail, GiveUp, Admit, NoCall
    <3> QED BY <1>d, <3>1
  <2>4. ASSUME NEW c \in Clerks, FindSession(c) PROVE Desk
    <3>1. UNCHANGED <<pairs, ticket, bot, crashes, active, asked, pending, watcher, screen, proven>>
          /\ clerk[c].at = "admits"
      BY <2>4 DEF FindSession, run
    <3>2. Paired
      BY <1>i, <3>1 DEF MailInv, AdmitsUnderLock
    <3>3. CASE UNCHANGED <<binding, record>>
      <4>1. UNCHANGED <<dialogue, run, desk, crashes>>
        BY <3>1, <3>3 DEF dialogue, run, desk
      <4> QED BY <1>d, <4>1
    <3>4. CASE Rebuild
      <4>1. binding' \in [talk: Dialogues, on: BOOLEAN] /\ Paired' /\ (record' = record \/ record' = NoButton)
        BY <1>i, <3>2, <3>4, Rebuilt
      <4> QED BY <1>r, <3>1, <3>2, <4>1
    <3> QED BY <2>4, <3>3, <3>4 DEF FindSession
  <2>5. Desk
    BY <1>k, <2>2, <2>3, <2>4
  <2> QED BY <1>k, <2>1, <2>5, MailMoves DEF ChannelsInv, NotHandedOverTwice, Desk, Done
<1>s. ASSUME SessionGoes PROVE Done
  <2>1. UNCHANGED <<dialogue, mail, peer, run, desk, crashes>>
    BY <1>s DEF SessionGoes
  <2> QED BY <1>m, <1>d, <2>1 DEF dialogue
<1>9. ASSUME NEW c \in Clerks, HandOver(c) PROVE Done
  <2>1. /\ UNCHANGED <<dialogue, asked, pending, record, screen, proven, crashes>>
        /\ active' = TRUE \/ active' = active
        /\ watcher' = watcher \/ watcher' = [at |-> "look", talk |-> clerk[c].msg[2], for |-> 0]
        /\ peer = c
    BY <1>9, <1>i DEF HandOver, MailInv, AdmitsUnderLock
  <2>2. clerk[c].msg[2] \in Dialogues /\ Paired
    BY <1>i, <2>1 DEF MailInv, MailTyped, AdmitsUnderLock, DeskTyped, CodeIsGood,
       ButtonsHavePreviews, RevokedIsStopped, Paired
  <2>3. watcher' = Resting \/ watcher' \in [at: {"look", "sends", "sent"}, talk: Dialogues, for: 0..asked]
    BY <1>i, <1>a, <2>1, <2>2 DEF DeskTyped, CodeIsGood, ButtonsHavePreviews, RevokedIsStopped,
       Paired
  <2>4. Desk
    <3>1. UNCHANGED <<binding, pairs, ticket, bot, asked, pending, record, screen, proven, crashes>>
      BY <2>1 DEF dialogue
    <3>2. DeskTyped'
      BY <1>i, <2>1, <2>3, <3>1 DEF DeskTyped, CodeIsGood, ButtonsHavePreviews, RevokedIsStopped,
         Paired
    <3>3. CodeIsGood' /\ RevokedIsStopped'
      BY <1>i, <2>1, <2>2, <3>1 DEF DeskTyped, CodeIsGood, ButtonsHavePreviews, RevokedIsStopped,
         Paired
    <3>4. ButtonsHavePreviews'
      <4>1. watcher' = watcher \/ watcher'.at = "look"
        BY <2>1
      <4> QED BY <1>i, <3>1, <4>1 DEF DeskTyped, CodeIsGood, ButtonsHavePreviews,
                 RevokedIsStopped, Paired
    <3> QED BY <3>2, <3>3, <3>4 DEF Desk
  <2> QED BY <1>9, <2>4, HandedOverOnce DEF ChannelsInv, Desk, Done
<1>10. ASSUME RunAsks PROVE Done
  <2>1. asked + 1 \in 0..Asks /\ asked' = asked + 1 /\ pending' = asked + 1
        /\ UNCHANGED <<dialogue, mail, peer, active, desk, crashes>>
    BY <1>10, <1>i, <1>a DEF RunAsks, DeskTyped, CodeIsGood, ButtonsHavePreviews,
       RevokedIsStopped, Paired
  <2>2. 0..asked \subseteq 0..(asked + 1) /\ asked + 1 \in 0..(asked + 1)
    BY <1>a
  <2>3. Desk
    BY <1>i, <2>1, <2>2 DEF dialogue, desk, Desk, DeskTyped, CodeIsGood, ButtonsHavePreviews,
       RevokedIsStopped, Paired
  <2> QED BY <1>m, <2>1, <2>3 DEF dialogue
<1>11. ASSUME Settled PROVE Done
  <2>1. /\ pending' = 0 /\ (record' = record \/ record' = NoButton)
        /\ UNCHANGED <<dialogue, mail, peer, active, asked, watcher, screen, proven, crashes>>
    BY <1>11 DEF Settled
  <2>2. Desk
    BY <1>i, <1>a, <2>1 DEF dialogue, Desk, DeskTyped, CodeIsGood, ButtonsHavePreviews,
       RevokedIsStopped, Paired
  <2> QED BY <1>m, <2>1, <2>2 DEF dialogue
<1>12. ASSUME RunEnds PROVE Done
  <2>1. active' = FALSE /\ pending' = 0 /\ UNCHANGED <<dialogue, mail, peer, asked, desk, crashes>>
    BY <1>12 DEF RunEnds, StopRun
  <2>2. Desk
    BY <1>i, <1>a, <2>1 DEF dialogue, desk, Desk, DeskTyped, CodeIsGood, ButtonsHavePreviews,
       RevokedIsStopped, Paired
  <2> QED BY <1>m, <2>1, <2>2 DEF dialogue
<1>13. ASSUME BeginPreview PROVE Done
  <2>1. /\ watcher.at = "look" /\ pending \notin {0, watcher.for}
        /\ UNCHANGED <<dialogue, mail, peer, run, screen, proven, crashes>>
        /\ \/ record' = NoButton /\ watcher' = [watcher EXCEPT !.at = "sends", !.for = pending]
           \/ record' = record /\ watcher' = Resting
    BY <1>13 DEF BeginPreview
  <2>2. watcher \in [at: {"look", "sends", "sent"}, talk: Dialogues, for: 0..asked]
    BY <1>i, <2>1 DEF DeskTyped, CodeIsGood, ButtonsHavePreviews, RevokedIsStopped, Paired
  <2>3. CASE record' = NoButton /\ watcher' = [watcher EXCEPT !.at = "sends", !.for = pending]
    <3>1. watcher' \in [at: {"look", "sends", "sent"}, talk: Dialogues, for: 0..asked]
          /\ watcher'.at = "sends" /\ watcher'.for = pending
      BY <1>i, <2>2, <2>3 DEF DeskTyped, CodeIsGood, ButtonsHavePreviews, RevokedIsStopped, Paired
    <3>2. Desk
      BY <1>i, <2>1, <2>3, <3>1 DEF dialogue, run, Desk, DeskTyped, CodeIsGood,
         ButtonsHavePreviews, RevokedIsStopped, Paired
    <3> QED BY <1>m, <2>1, <3>2 DEF dialogue
  <2>4. CASE record' = record /\ watcher' = Resting
    <3>1. Desk
      BY <1>i, <2>1, <2>4 DEF dialogue, run, Desk, DeskTyped, CodeIsGood, ButtonsHavePreviews,
         RevokedIsStopped, Paired
    <3> QED BY <1>m, <2>1, <3>1 DEF dialogue
  <2> QED BY <2>1, <2>3, <2>4
<1>14. ASSUME NEW whole \in BOOLEAN, NEW seen \in BOOLEAN, Preview(whole, seen) PROVE Done
  <2> DEFINE b == <<watcher.for, watcher.talk>>
  <2>1. /\ watcher.at = "sends" /\ (whole => seen)
        /\ screen' = (IF seen THEN screen \cup {b} ELSE screen)
        /\ proven' = (IF whole THEN proven \cup {b} ELSE proven)
        /\ watcher' = [watcher EXCEPT !.at = IF whole THEN "sent" ELSE "look"]
        /\ UNCHANGED <<dialogue, mail, peer, run, record, crashes>>
    BY <1>14 DEF Preview, Unproven
  <2>0. watcher.at = "sends"
    BY <2>1
  <2>2. watcher \in [at: {"look", "sends", "sent"}, talk: Dialogues, for: 0..asked] /\ watcher.for # 0
    BY <1>i, <2>0 DEF DeskTyped, CodeIsGood, ButtonsHavePreviews, RevokedIsStopped, Paired
  <2>3. b \in Buttons
    <3>1. watcher.for \in 1..Asks
      BY <1>i, <1>a, <2>2 DEF DeskTyped, CodeIsGood, ButtonsHavePreviews, RevokedIsStopped, Paired
    <3> QED BY <2>2, <3>1 DEF Buttons
  <2>4. /\ watcher' \in [at: {"look", "sends", "sent"}, talk: Dialogues, for: 0..asked]
        /\ watcher'.for = watcher.for /\ watcher'.talk = watcher.talk /\ watcher'.for # 0
        /\ watcher'.at = "sent" => whole
    BY <2>1, <2>2
  <2>5. screen' \subseteq Buttons /\ proven' \subseteq screen' /\ proven \subseteq proven' /\ (whole => b \in proven')
    <3>1. proven \subseteq screen /\ screen \subseteq Buttons
      BY <1>i DEF DeskTyped, CodeIsGood, ButtonsHavePreviews, RevokedIsStopped, Paired
    <3>2. CASE whole
      BY <2>1, <2>3, <3>1, <3>2
    <3>3. CASE ~whole
      <4>1. CASE seen
        BY <2>1, <2>3, <3>1, <3>3, <4>1
      <4>2. CASE ~seen
        BY <2>1, <2>3, <3>1, <3>3, <4>2
      <4> QED BY <4>1, <4>2
    <3> QED BY <3>2, <3>3
  <2>6. Desk
    BY <1>i, <2>1, <2>4, <2>5 DEF dialogue, run, Desk, DeskTyped, CodeIsGood,
       ButtonsHavePreviews, RevokedIsStopped, Paired
  <2> QED BY <1>m, <2>1, <2>6 DEF dialogue
<1>15. ASSUME KeepRecord PROVE Done
  <2> DEFINE b == <<watcher.for, watcher.talk>>
  <2>1. /\ watcher.at = "sent" /\ UNCHANGED <<dialogue, mail, peer, run, screen, proven, crashes>>
        /\ watcher' = [watcher EXCEPT !.at = "look"] \/ watcher' = Resting
        /\ record' = record \/ record' = b
    BY <1>15 DEF KeepRecord
  <2>2. watcher \in [at: {"look", "sends", "sent"}, talk: Dialogues, for: 0..asked] /\ b \in proven
    BY <1>i, <2>1 DEF DeskTyped, CodeIsGood, ButtonsHavePreviews, RevokedIsStopped, Paired
  <2>3. (watcher' = Resting \/ watcher' \in [at: {"look", "sends", "sent"}, talk: Dialogues, for: 0..asked])
        /\ watcher'.at \notin {"sends", "sent"}
    BY <2>1, <2>2
  <2>4. record' \in Buttons \cup {NoButton} /\ (record' # NoButton => record' \in proven)
    BY <1>i, <2>1, <2>2 DEF DeskTyped, CodeIsGood, ButtonsHavePreviews, RevokedIsStopped, Paired
  <2>5. Desk
    BY <1>i, <2>1, <2>3, <2>4 DEF dialogue, run, Desk, DeskTyped, CodeIsGood,
       ButtonsHavePreviews, RevokedIsStopped, Paired
  <2> QED BY <1>m, <2>1, <2>5 DEF dialogue
<1>16. ASSUME BringResult PROVE Done
  <2>1. watcher' = Resting /\ UNCHANGED <<dialogue, mail, peer, run, record, screen, proven, crashes>>
    BY <1>16 DEF BringResult
  <2>2. Desk
    BY <1>i, <2>1 DEF dialogue, run, Desk, DeskTyped, CodeIsGood, ButtonsHavePreviews,
       RevokedIsStopped, Paired
  <2> QED BY <1>m, <2>1, <2>2 DEF dialogue
<1>17. ASSUME NEW b \in Buttons, Click(b) PROVE Done
  <2>1. /\ (pending' = pending \/ pending' = 0) /\ (record' = record \/ record' = NoButton)
        /\ UNCHANGED <<dialogue, mail, peer, active, asked, watcher, screen, proven, crashes>>
    BY <1>17 DEF Click
  <2>2. Desk
    BY <1>i, <1>a, <2>1 DEF dialogue, Desk, DeskTyped, CodeIsGood, ButtonsHavePreviews,
       RevokedIsStopped, Paired
  <2> QED BY <1>m, <2>1, <2>2 DEF dialogue
<1>18. ASSUME RestartChannels PROVE Done
  <2>1. /\ UNCHANGED <<binding, pairs, bot, receipts, begun, acceptedMail, asked, record, screen, proven>>
        /\ ticket' = FALSE /\ inbox' = <<>> /\ clerk' = [c \in Clerks |-> Idling] /\ peer' = "free"
        /\ active' = FALSE /\ pending' = 0 /\ watcher' = Resting /\ crashes' \in 0..Crashes
    BY <1>18, <1>i DEF RestartChannels, StopRun, DeskTyped, CodeIsGood, ButtonsHavePreviews,
       RevokedIsStopped, Paired
  <2>2. Desk
    BY <1>i, <1>a, <2>1 DEF Desk, DeskTyped, CodeIsGood, ButtonsHavePreviews, RevokedIsStopped,
       Paired
  <2>3. MailInv'
    BY <1>i, <2>1 DEF MailInv, MailTyped, InOnePlace, AdmitsUnderLock, DeskTyped, CodeIsGood,
       ButtonsHavePreviews, RevokedIsStopped, Paired
  <2> QED BY <2>1, <2>2, <2>3 DEF ChannelsInv, NotHandedOverTwice, Desk, Done
<1>19. ClickMeansPreview
  <2> SUFFICES ASSUME NEW b \in Buttons, Click(b), pending' # pending
               PROVE  b[1] = pending /\ b \in proven /\ b[2] = binding.talk
    BY DEF ClickMeansPreview
  <2>1. record = b /\ b[2] = binding.talk /\ record[1] = pending
    BY DEF Click, Matches
  <2> QED BY <1>i, <1>u, <2>1 DEF DeskTyped, CodeIsGood, ButtonsHavePreviews, RevokedIsStopped,
             Paired
<1>20. Done
  <2>1. ASSUME NEW b \in {"on", "away", "other"}, BotChanges(b) PROVE Done
    BY <1>1, <2>1
  <2>2. ASSUME \/ \E m \in Messages : Receive(m)
               \/ \E c \in Clerks : TakeMail(c) \/ GiveUp(c) \/ Admit(c) \/ FindSession(c) \/ HandOver(c) \/ NoCall(c)
        PROVE  Done
    BY <1>k, <1>9, <2>2
  <2>3. ASSUME \/ \E whole, seen \in BOOLEAN : Preview(whole, seen)
               \/ \E on \in BOOLEAN : Switch(on)
               \/ \E b \in Buttons : Click(b)
        PROVE  Done
    BY <1>6, <1>14, <1>17, <2>3
  <2> QED BY <1>2, <1>3, <1>4, <1>7, <1>8, <1>10, <1>11, <1>12, <1>13, <1>15, <1>16, <1>18, <1>s, <2>1,
             <2>2, <2>3
             DEF ChannelsNext
<1> QED BY <1>19, <1>20 DEF Done

\* Numbers that the provers need of a dialogue.
LEMMA DialogueTyped ==
    /\ \A t \in Dialogues : t[1] \in Nat /\ t[1] # 0 /\ t[2] \in Nat
    /\ NoTalk[1] = 0 /\ NoTalk[2] = 0 /\ Unpaired.talk = NoTalk
BY ChannelsAssumption DEF Dialogues, NoTalk, Unpaired

\* A step that brings no message and leaves the dialogues alone.
LEMMA NothingReached ==
    ASSUME LeftInv, UNCHANGED <<binding, pairs, left, acceptedMail>>, gone' \in BOOLEAN,
           \A i \in DOMAIN inbox' : \E j \in DOMAIN inbox : inbox'[i] = inbox[j],
           \A c \in Clerks : clerk'[c] # Idling =>
               \/ clerk[c] # Idling /\ clerk'[c].msg = clerk[c].msg
               \/ \E j \in DOMAIN inbox : clerk'[c].msg = inbox[j]
    PROVE  LeftInv'
<1>1. \A x : Reached(x)' <=> Reached(x)
  BY DEF Reached, Paired
<1>2. \A i \in DOMAIN inbox' : Reached(inbox'[i])
  BY DEF LeftInv
<1>3. \A c \in Clerks : clerk'[c] # Idling => Reached(clerk'[c].msg)
  BY DEF LeftInv
<1> QED BY <1>1, <1>2, <1>3 DEF LeftInv, Paired

\* Whatever a message waits for, the dialogues its user leaves leave it behind.
LEMMA LeftStep ==
    ASSUME ChannelsInv, LeftInv, ChannelsNext
    PROVE  LeftInv'
<1> USE ChannelsAssumption
<1> DEFINE ReachedNow(x) ==
             /\ x[2][1] <= pairs'
             /\ Paired' /\ x[2][1] = binding'.talk[1] => x[2][2] <= binding'.talk[2]
             /\ left'[1] = x[2][1] => left'[2] < acceptedMail'[x[1]][2] \/ x[2][2] <= left'[2]
<1>r. ASSUME \A i \in DOMAIN inbox' : ReachedNow(inbox'[i]), \A c \in Clerks : clerk'[c] # Idling => ReachedNow(clerk'[c].msg),
             gone' \in BOOLEAN, left' \in Dialogues \cup {NoTalk}, left'[1] <= pairs',
             Paired' => binding'.talk[1] <= pairs' /\ (left'[1] = binding'.talk[1] => left'[2] < binding'.talk[2])
      PROVE  LeftInv'
  BY <1>r DEF LeftInv, Reached
<1> HIDE DEF ReachedNow
<1>i. /\ DeskTyped /\ MailTyped /\ InOnePlace /\ AdmitsUnderLock
      /\ binding.talk \in Dialogues \cup {NoTalk} /\ (Paired => binding.talk \in Dialogues)
      /\ pairs \in Nat
  <2>1. DeskTyped /\ MailTyped /\ InOnePlace /\ AdmitsUnderLock
    BY DEF ChannelsInv, MailInv
  <2> QED BY <2>1, DialogueTyped DEF DeskTyped, Paired
<1>t. /\ \A i \in DOMAIN inbox : inbox[i] \in Messages \X Dialogues /\ Reached(inbox[i]) /\ Accepted(inbox[i])
      /\ \A c \in Clerks : clerk[c] # Idling =>
            clerk[c].msg \in Messages \X Dialogues /\ Reached(clerk[c].msg) /\ Accepted(clerk[c].msg)
  BY <1>i, CarriedIsNotIdling DEF MailTyped, InOnePlace, LeftInv
<1>l. /\ gone \in BOOLEAN /\ left \in Dialogues \cup {NoTalk} /\ left[1] <= pairs /\ left[1] \in Nat /\ left[2] \in Nat
      /\ Paired => binding.talk[1] <= pairs /\ (left[1] = binding.talk[1] => left[2] < binding.talk[2])
  BY DialogueTyped DEF LeftInv
<1>n. \A x \in Messages \X Dialogues : x[1] \in Messages /\ x[2] \in Dialogues /\ x[2][1] \in Nat /\ x[2][1] # 0 /\ x[2][2] \in Nat
  BY DialogueTyped
\* The messages stay where they are, and each of them stays reached.
<1>s. ASSUME UNCHANGED <<inbox, clerk>>, gone' \in BOOLEAN, left' \in Dialogues \cup {NoTalk}, left'[1] <= pairs',
             Paired' => binding'.talk[1] <= pairs' /\ (left'[1] = binding'.talk[1] => left'[2] < binding'.talk[2]),
             \A x \in Messages \X Dialogues : Reached(x) /\ Accepted(x) => ReachedNow(x)
      PROVE  LeftInv'
  BY <1>r, <1>s, <1>t
<1>1. ASSUME UNCHANGED <<binding, pairs, left, mail>>, gone' \in BOOLEAN PROVE LeftInv'
  BY <1>1, NothingReached DEF mail
<1>2. ASSUME Pair PROVE LeftInv'
  <2>1. /\ binding'.talk = <<pairs + 1, 0>> /\ pairs' = pairs + 1 /\ UNCHANGED <<left, mail>> /\ gone' = FALSE
    BY <1>2 DEF Pair
  <2>2. binding'.talk[1] = pairs + 1 /\ UNCHANGED <<inbox, clerk, acceptedMail>>
    BY <2>1 DEF mail
  <2>3. ASSUME NEW x \in Messages \X Dialogues, Reached(x) PROVE ReachedNow(x)
    BY <1>i, <1>n, <2>1, <2>2, <2>3 DEF Reached, ReachedNow
  <2>4. gone' \in BOOLEAN /\ left' \in Dialogues \cup {NoTalk} /\ left'[1] <= pairs' /\ left'[1] # binding'.talk[1]
        /\ binding'.talk[1] <= pairs'
    <3>1. left'[1] <= pairs' /\ left'[1] # binding'.talk[1] /\ binding'.talk[1] <= pairs'
      <4>1. left' = left /\ pairs' = pairs + 1 /\ binding'.talk[1] = pairs + 1
        BY <2>1, <2>2
      <4>2. pairs \in Nat /\ left[1] \in Nat /\ left[1] <= pairs
        BY <1>i, <1>l
      <4> QED BY <4>1, <4>2
    <3> QED BY <1>l, <2>1, <3>1
  <2> QED BY <1>s, <2>2, <2>3, <2>4
<1>3. ASSUME Revoke PROVE LeftInv'
  <2>1. ~Paired' /\ UNCHANGED <<pairs, left, inbox, clerk, acceptedMail, gone>>
    BY <1>3 DEF Revoke, Paired, mail, others
  <2>2. ASSUME NEW x \in Messages \X Dialogues, Reached(x) PROVE ReachedNow(x)
    BY <2>1, <2>2 DEF Reached, ReachedNow
  <2> QED BY <1>l, <1>s, <2>1, <2>2
<1>4. ASSUME Command, binding'.talk = Onwards(binding.talk), UNCHANGED <<pairs, mail>>, gone' \in BOOLEAN PROVE LeftInv'
  <2>1. /\ Paired /\ left' = binding.talk /\ UNCHANGED <<pairs, inbox, clerk, acceptedMail>>
        /\ binding'.talk[1] = binding.talk[1] /\ binding'.talk[2] = binding.talk[2] + 1
    BY <1>4 DEF Command, mail, Onwards
  <2>2. binding.talk \in Dialogues /\ binding.talk[1] \in Nat /\ binding.talk[2] \in Nat
    BY <1>i, <2>1, DialogueTyped
  <2>3. ASSUME NEW x \in Messages \X Dialogues, Reached(x) PROVE ReachedNow(x)
    BY <1>n, <2>1, <2>2, <2>3 DEF Reached, ReachedNow
  <2> QED BY <1>l, <1>s, <1>4, <2>1, <2>2, <2>3
<1>5. ASSUME Paired, Rebuild, UNCHANGED <<pairs, left>>
      PROVE  /\ TalkNow \in Dialogues /\ binding'.talk = TalkNow /\ gone' = FALSE /\ Paired'
             /\ binding.talk[1] = TalkNow[1] /\ binding.talk[2] <= TalkNow[2]
             /\ binding.talk[1] \in Nat /\ binding.talk[2] \in Nat /\ TalkNow[2] \in Nat
             /\ TalkNow[1] <= pairs /\ (left[1] = TalkNow[1] => left[2] < TalkNow[2])
  <2>1. /\ TalkNow \in Dialogues /\ binding'.talk = TalkNow /\ gone' = FALSE /\ Paired'
        /\ binding.talk[1] = TalkNow[1] /\ binding.talk \in Dialogues
        /\ TalkNow[2] = binding.talk[2] \/ TalkNow[2] = binding.talk[2] + 1
    BY <1>i, <1>5, Rebuilt
  <2>2. binding.talk[1] \in Nat /\ binding.talk[2] \in Nat /\ TalkNow[2] \in Nat /\ binding.talk[2] <= TalkNow[2]
    BY <2>1, DialogueTyped
  <2> QED BY <1>5, <1>l, <2>1, <2>2
<1>6. ASSUME NEW m \in Messages, Receive(m) PROVE LeftInv'
  <2>1. Paired /\ Rebuild /\ m \notin receipts /\ UNCHANGED <<pairs, left, clerk>>
    BY <1>6 DEF Receive, Known
  <2> DEFINE new == <<m, TalkNow>>
  <2>2. CASE UNCHANGED <<inbox, acceptedMail>>
    <3>1. ASSUME NEW x \in Messages \X Dialogues, Reached(x) PROVE ReachedNow(x)
      BY <1>5, <1>n, <2>1, <2>2, <3>1 DEF Reached, ReachedNow
    <3> QED BY <1>5, <1>l, <1>s, <2>1, <2>2, <3>1
  <2>3. CASE inbox' = Append(inbox, new) /\ acceptedMail' = [acceptedMail EXCEPT ![m] = TalkNow]
    <3>1. ASSUME NEW x \in Messages \X Dialogues, Reached(x), Accepted(x) PROVE ReachedNow(x)
      <4>1. acceptedMail'[x[1]] = acceptedMail[x[1]]
        BY <1>i, <2>1, <2>3, <3>1 DEF Accepted, MailTyped
      <4> QED BY <1>5, <1>n, <2>1, <3>1, <4>1 DEF Reached, ReachedNow
    <3>2. ReachedNow(new)
      <4>1. new[1] = m /\ new[2] = TalkNow /\ acceptedMail'[m] = TalkNow
        BY <1>i, <2>3 DEF MailTyped
      <4>2. new[2][1] <= pairs'
        BY <1>5, <2>1, <4>1
      <4>3. new[2][2] <= binding'.talk[2] /\ (left'[1] = new[2][1] => left'[2] < acceptedMail'[new[1]][2])
        BY <1>5, <2>1, <4>1
      <4> HIDE DEF new
      <4> QED BY <4>2, <4>3 DEF Reached, ReachedNow
    <3> HIDE DEF new
    <3>3. \A i \in DOMAIN inbox' : (i \in DOMAIN inbox /\ inbox'[i] = inbox[i]) \/ inbox'[i] = new
      BY <1>i, <2>3 DEF MailTyped
    <3>4. \A i \in DOMAIN inbox' : ReachedNow(inbox'[i])
      <4>1. \A i \in DOMAIN inbox : ReachedNow(inbox[i])
        BY <1>t, <3>1
      <4> QED BY <3>2, <3>3, <4>1
    <3>5. \A c \in Clerks : clerk'[c] # Idling => ReachedNow(clerk'[c].msg)
      BY <1>t, <2>1, <3>1
    <3> QED BY <1>5, <1>l, <2>1, <3>4, <3>5, <1>r
  <2> QED BY <1>6, <2>2, <2>3 DEF Receive
<1>7. ASSUME NEW c \in Clerks, TakeMail(c) PROVE LeftInv'
  <2>1. /\ inbox # <<>> /\ inbox' = Tail(inbox) /\ UNCHANGED <<binding, pairs, left, acceptedMail, gone>>
        /\ clerk' = [clerk EXCEPT ![c] =
               IF SameDialogue(Head(inbox)[2]) THEN [at |-> "media", msg |-> Head(inbox)] ELSE Idling]
    BY <1>7 DEF TakeMail, dialogue, others
  <2>2. 1 \in DOMAIN inbox /\ Head(inbox) = inbox[1]
    BY <1>i, <2>1 DEF MailTyped
  <2>3. \A i \in DOMAIN inbox' : i + 1 \in DOMAIN inbox /\ inbox'[i] = inbox[i + 1]
    BY <1>i, <2>1 DEF MailTyped
  <2>4. \A e \in Clerks : clerk'[e] # Idling =>
           (clerk[e] # Idling /\ clerk'[e].msg = clerk[e].msg) \/ clerk'[e].msg = inbox[1]
    BY <1>i, <2>1, <2>2 DEF MailTyped
  <2> QED BY <1>l, <2>1, <2>2, <2>3, <2>4, NothingReached
<1>8. ASSUME NEW c \in Clerks, GiveUp(c) \/ Admit(c) \/ HandOver(c) \/ NoCall(c) PROVE LeftInv'
  <2>1. /\ UNCHANGED <<binding, pairs, left, acceptedMail, gone, inbox>> /\ clerk[c].at # "idle"
        /\ \/ clerk' = [clerk EXCEPT ![c] = Idling]
           \/ clerk' = [clerk EXCEPT ![c].at = "admits"]
           \/ clerk' = [clerk EXCEPT ![c] = [@ EXCEPT !.at = "media"]]
    BY <1>8 DEF GiveUp, Admit, HandOver, NoCall, dialogue, others
  <2>2. clerk[c] # Idling /\ clerk[c] \in Carried
    BY <1>i, <2>1, CarriedIsNotIdling DEF MailTyped
  <2>3. \A e \in Clerks : clerk'[e] # Idling => clerk[e] # Idling /\ clerk'[e].msg = clerk[e].msg
    BY <1>i, <2>1, <2>2 DEF MailTyped, Carried
  <2> QED BY <1>l, <2>1, <2>3, NothingReached
<1>9. ASSUME NEW c \in Clerks, FindSession(c) PROVE LeftInv'
  <2>1. /\ UNCHANGED <<pairs, left, acceptedMail, inbox>> /\ clerk[c].at = "admits"
    BY <1>9 DEF FindSession
  <2>2. clerk[c] # Idling /\ clerk[c] \in Carried /\ peer = c /\ Paired /\ binding.talk = clerk[c].msg[2]
    BY <1>i, <2>1, CarriedIsNotIdling DEF MailTyped, AdmitsUnderLock
  <2>3. CASE clerk' = [clerk EXCEPT ![c] = Idling] /\ UNCHANGED <<binding, gone>>
    <3>1. \A e \in Clerks : clerk'[e] # Idling => clerk[e] # Idling /\ clerk'[e].msg = clerk[e].msg
      BY <1>i, <2>3 DEF MailTyped
    <3> QED BY <1>l, <2>1, <2>3, <3>1, NothingReached
  <2>4. CASE Rebuild /\ clerk' = [clerk EXCEPT ![c] = [at |-> "calls", msg |-> <<@.msg[1], TalkNow>>]]
    <3> DEFINE new == <<clerk[c].msg[1], TalkNow>>
    <3>1. ASSUME NEW x \in Messages \X Dialogues, Reached(x) PROVE ReachedNow(x)
      BY <1>5, <1>n, <2>1, <2>2, <2>4, <3>1 DEF Reached, ReachedNow
    <3>2. ReachedNow(new)
      <4>1. new[1] = clerk[c].msg[1] /\ new[2] = TalkNow
        OBVIOUS
      <4>2. new[2][1] <= pairs' /\ new[2][2] <= binding'.talk[2]
        BY <1>5, <2>1, <2>2, <2>4, <4>1
      <4>3. left[1] = TalkNow[1] => left[2] < acceptedMail[clerk[c].msg[1]][2]
        <5>1. Reached(clerk[c].msg)
          BY <1>t, <2>2
        <5> QED BY <5>1, <1>5, <1>l, <2>1, <2>2, <2>4 DEF Reached, ReachedNow
      <4> HIDE DEF new
      <4> QED BY <2>1, <4>1, <4>2, <4>3 DEF Reached, ReachedNow
    <3>3. clerk' = [clerk EXCEPT ![c] = [at |-> "calls", msg |-> new]]
      BY <2>4
    <3> HIDE DEF new
    <3>4. \A e \in Clerks : clerk'[e] # Idling => (clerk[e] # Idling /\ clerk'[e] = clerk[e]) \/ clerk'[e].msg = new
      BY <1>i, <3>3 DEF MailTyped
    <3>5. \A e \in Clerks : clerk'[e] # Idling => ReachedNow(clerk'[e].msg)
      <4>1. \A e \in Clerks : clerk[e] # Idling => ReachedNow(clerk[e].msg)
        BY <1>t, <3>1
      <4> QED BY <3>2, <3>4, <4>1
    <3>6. \A i \in DOMAIN inbox' : ReachedNow(inbox'[i])
      BY <1>t, <2>1, <3>1
    <3> QED BY <1>5, <1>l, <2>1, <2>2, <2>4, <3>5, <3>6, <1>r
  <2> QED BY <1>9, <2>3, <2>4 DEF FindSession
<1>10. ASSUME RestartChannels PROVE LeftInv'
  <2>1. UNCHANGED <<binding, pairs, left, acceptedMail, gone>> /\ inbox' = <<>> /\ clerk' = [e \in Clerks |-> Idling]
    BY <1>10 DEF RestartChannels
  <2>2. \A e \in Clerks : clerk'[e] = Idling
    BY <2>1
  <2> QED BY <1>l, <2>1, <2>2, NothingReached
<1>11. ASSUME (\E on \in BOOLEAN : Switch(on)) \/ StopCommand \/ NewSession PROVE LeftInv'
  <2>1. Command /\ UNCHANGED <<pairs, mail>> /\ gone' \in BOOLEAN
    BY <1>11, <1>l DEF Switch, StopCommand, NewSession
  <2>2. binding'.talk = Onwards(binding.talk)
    <3>1. ASSUME StopCommand PROVE binding'.talk = Onwards(binding.talk)
      <4>1. binding \in [talk: Dialogues, on: BOOLEAN]
        BY <1>i, <2>1 DEF Command, Paired, DeskTyped
      <4> QED BY <3>1, <4>1 DEF StopCommand
    <3> QED BY <1>11, <3>1 DEF Switch, NewSession
  <2> QED BY <1>4, <2>1, <2>2
<1>12. ASSUME \/ \E b \in {"on", "away", "other"} : BotChanges(b)
              \/ MakeCode \/ CodeExpires \/ SessionGoes
              \/ RunAsks \/ Settled \/ RunEnds \/ BeginPreview
              \/ \E whole, seen \in BOOLEAN : Preview(whole, seen)
              \/ KeepRecord \/ BringResult
              \/ \E b \in Buttons : Click(b)
       PROVE  LeftInv'
  <2>1. UNCHANGED <<binding, pairs, left, mail>> /\ gone' \in {gone, TRUE}
    BY <1>12 DEF BotChanges, MakeCode, CodeExpires, SessionGoes, RunAsks, Settled, RunEnds, BeginPreview, Preview,
       KeepRecord, BringResult, Click, dialogue, others
  <2> QED BY <1>1, <1>l, <2>1
<1> QED BY <1>2, <1>3, <1>6, <1>7, <1>8, <1>9, <1>10, <1>11, <1>12 DEF ChannelsNext

\* The channels begin without a binding and without messages.
LEMMA ChannelsBegin == ChannelsInit => ChannelsInv /\ LeftInv
<1> SUFFICES ASSUME ChannelsInit PROVE ChannelsInv /\ LeftInv
  OBVIOUS
<1> USE ChannelsAssumption, CarriedIsNotIdling DEF ChannelsInit
<1>1. MailInv
  BY DEF MailInv, MailTyped, InOnePlace, AdmitsUnderLock
<1>2. DeskTyped /\ CodeIsGood /\ ButtonsHavePreviews /\ RevokedIsStopped
  <2>1. 0 \in 0..Turns /\ 0 \in 0..Asks /\ 0 \in 0..Crashes /\ 0 \in 0..0
    OBVIOUS
  <2>2. DeskTyped
    BY <2>1 DEF DeskTyped
  <2>3. CodeIsGood /\ ButtonsHavePreviews
    BY DEF CodeIsGood, ButtonsHavePreviews
  <2>4. RevokedIsStopped
    BY DEF RevokedIsStopped
  <2> QED BY <2>2, <2>3, <2>4
<1>3. LeftInv
  <2>1. ~Paired /\ left[1] = 0 /\ pairs = 0
    BY DEF Paired, NoTalk
  <2>2. gone \in BOOLEAN /\ left = NoTalk /\ inbox = <<>> /\ \A c \in Clerks : clerk[c] = Idling
    OBVIOUS
  <2> QED BY <2>1, <2>2 DEF LeftInv
<1> QED BY <1>1, <1>2, <1>3 DEF ChannelsInv

\* Every message is handed over at most once, in the pairing that accepted it and
\* not after its user has left the dialogue in which it was sent, although a session
\* that is gone moves it on to another dialogue; a click decides only what its whole
\* preview showed, in that dialogue, and a revoked binding has no run: for any
\* messages, workers, pairings, commands, operations, lost connections, sessions
\* that go and restarts.
THEOREM DialoguesAreObeyed == ChannelsSpec => DialogueIsObeyed
<1> DEFINE Inv == ChannelsInv /\ LeftInv
<1>1. Inv /\ UNCHANGED channelVars => Inv'
  <2> SUFFICES ASSUME Inv, UNCHANGED channelVars PROVE Inv'
    OBVIOUS
  <2>1. UNCHANGED <<mail, peer, binding, pairs, ticket, bot, active, asked, pending, watcher, record, screen, proven, others>>
    BY DEF channelVars, dialogue, run, desk
  <2>2. MailInv'
    BY <2>1, MailStays DEF ChannelsInv
  <2>3. LeftInv'
    BY <2>1, NothingReached DEF mail, others, LeftInv
  <2> QED BY <2>1, <2>2, <2>3 DEF ChannelsInv, DeskTyped, CodeIsGood, ButtonsHavePreviews,
             RevokedIsStopped, Paired, others
<1>2. Inv /\ [ChannelsNext]_channelVars => Inv'
  BY <1>1, ChannelsStep, LeftStep
<1>3. Inv => RevokedIsStopped /\ ChannelsTypeOK
  <2> SUFFICES ASSUME Inv PROVE ChannelsTypeOK
    BY DEF ChannelsInv
  <2> USE CarriedIsNotIdling DEF ChannelsInv, LeftInv, MailInv, MailTyped, AdmitsUnderLock, DeskTyped
  <2>1. binding.talk \in Dialogues \cup {NoTalk} /\ binding.on \in BOOLEAN
    <3>1. Unpaired.talk = NoTalk /\ Unpaired.on = FALSE
      BY DEF Unpaired, NoTalk
    <3>2. binding = Unpaired \/ (binding.talk \in Dialogues /\ binding.on \in BOOLEAN)
      OBVIOUS
    <3> QED BY <3>1, <3>2
  <2>2. \A n \in DOMAIN inbox : inbox[n] \in Messages \X Dialogues
    OBVIOUS
  <2>3. \A c \in Clerks : clerk[c].at \in {"idle", "media", "admits", "calls"}
    OBVIOUS
  <2>4. watcher.at \in {"rest", "look", "sends", "sent"}
    OBVIOUS
  <2>5. begun \in [Messages -> 0..2]
    OBVIOUS
  <2> QED BY <2>1, <2>2, <2>3, <2>4, <2>5 DEF ChannelsTypeOK
<1>4. Inv' => RevokedIsStopped' /\ ChannelsTypeOK'
  BY <1>3, PTL
<1>5. Inv /\ [ChannelsNext]_channelVars =>
         [NotHandedOverTwice /\ ClickMeansPreview /\ RevokedIsStopped' /\ ChannelsTypeOK']_channelVars
  BY <1>2, <1>4, ChannelsStep
<1> QED BY <1>2, <1>5, ChannelsBegin, PTL DEF ChannelsSpec, DialogueIsObeyed
=============================================================================
