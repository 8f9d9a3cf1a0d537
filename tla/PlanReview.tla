----------------------------- MODULE PlanReview -----------------------------
(***************************************************************************)
(* Review consent for one plan of the store (internal/plans/review.go),     *)
(* beside the saves and dismissals of the same store: they share its schema *)
(* version, and a plan has to be saved before it is reviewed.               *)
(*                                                                          *)
(* Approve checks the frozen selection against the inventory store, reads   *)
(* the clock, and only then takes the lock of the plan store to record      *)
(* consent; Revoke looks at the review before it takes the lock.  Several   *)
(* processes do this at once, each with its own reading of a clock that may *)
(* be set back.                                                             *)
(***************************************************************************)
EXTENDS PlanStore

CONSTANTS
    Reviewed,       \* the plan under review
    Reviewers,      \* processes that approve or revoke
    ReviewLifetime, \* ReviewLifetime
    ReviewTimes,    \* readings of the wall clock
    MaxRescans,     \* bound: changes of the inventory
    NoRow           \* a table without the row of this plan

ASSUME ReviewedAssumption == Reviewed \in Plans
ASSUME ReviewTimesAssumption == ReviewTimes \subseteq Nat /\ NoRow \notin Nat
ASSUME LifetimeAssumption == ReviewLifetime \in Nat \ {0}
ASSUME RescansAssumption == MaxRescans \in Nat

VARIABLES
    approval,       \* review_approvals: [created, expires, matched] or NoRow
    revocation,     \* review_revocations: time or NoRow
    matching,       \* the inventory matches the selection of the plan
    rescans,        \* how often the inventory has changed
    matchedAt,      \* history: after which changes the inventory matched
    call            \* what each process is doing

store == <<plans, legacy, dismissals, undos, told>>
review == <<approval, revocation, matching, rescans, matchedAt, call>>
reviewVars == <<publicationVars, review>>

Idle == [doing |-> "nothing", now |-> 0, seen |-> 0]
Calls == [doing: {"nothing", "approve", "revoke"}, now: ReviewTimes \cup {0},
          seen: 0..MaxRescans]

-----------------------------------------------------------------------------
ReviewInit ==
    /\ PublicationInit
    /\ approval = NoRow
    /\ revocation = NoRow
    /\ matching \in BOOLEAN
    /\ rescans = 0
    /\ matchedAt = IF matching THEN {0} ELSE {}
    /\ call = [c \in Reviewers |-> Idle]

\* The status readReview derives from the rows; schema 1 has no reviews.
ReviewStatus(now) ==
    IF version = 1 \/ approval = NoRow THEN "none"
    ELSE IF revocation # NoRow THEN "revoked"
    ELSE IF now < approval.created THEN "not_yet_valid"
    ELSE IF now >= approval.expires THEN "expired"
    ELSE "review_approved"

\* The inventory store changes on its own: files are scanned again.
InventoryChanges ==
    /\ rescans < MaxRescans
    /\ matching' \in BOOLEAN
    /\ rescans' = rescans + 1
    /\ matchedAt' = IF matching' THEN matchedAt \cup {rescans'} ELSE matchedAt
    /\ UNCHANGED <<publicationVars, approval, revocation, call>>

\* Mutant: the result of CheckSelection is not looked at.
EvidenceIgnored == TRUE

\* check.Status is matches_saved_inventory and there are no issues.
EvidenceMatches == matching

\* Approve up to its call of approve.  seen is the state of the inventory the
\* check was about.
CheckEvidence(c) ==
    /\ call[c] = Idle
    /\ Reviewed \in plans
    /\ EvidenceMatches
    /\ \E now \in ReviewTimes :
          call' = [call EXCEPT ![c] = [doing |-> "approve", now |-> now, seen |-> rescans]]
    /\ UNCHANGED <<publicationVars, approval, revocation, matching, rescans, matchedAt>>

\* open for writing raises a store of schema 1 or 2 to schema 3.
OpenedForWriting == AtLeast(3)

\* Mutant: consent that is no longer valid is given anew.
ReviewOpenRenewed(now) == ReviewStatus(now) # "review_approved"

\* approve may insert: no approval was ever saved for the plan.
ReviewOpen(now) == ReviewStatus(now) = "none"

\* approve: opening the store for writing raises it to schema 3.  An approval
\* that still counts is returned as it is and any other one is terminal.
\* matched is the inventory its check was about.
RecordApproval(c) ==
    /\ call[c].doing = "approve"
    /\ approval' =
          IF ReviewOpen(call[c].now)
          THEN [created |-> call[c].now, expires |-> call[c].now + ReviewLifetime,
                matched |-> call[c].seen]
          ELSE approval
    /\ version' = OpenedForWriting
    /\ call' = [call EXCEPT ![c] = Idle]
    /\ UNCHANGED <<store, revocation, matching, rescans, matchedAt>>

\* readReview found an approval, in whatever state.
ReviewFound == version # 1 /\ approval # NoRow

\* Revoke up to the writer lock: it returns early without an approval, so that
\* a refused request neither creates nor migrates storage.
ShowReview(c) ==
    /\ call[c] = Idle
    /\ ReviewFound
    /\ call' = [call EXCEPT ![c] = [doing |-> "revoke", now |-> 0, seen |-> rescans]]
    /\ UNCHANGED <<publicationVars, approval, revocation, matching, rescans, matchedAt>>

\* Revoke under the lock: an approval is revoked once, expired or not; a second
\* revocation returns the first.
RecordRevocation(c) ==
    /\ call[c].doing = "revoke"
    /\ version' = OpenedForWriting
    /\ revocation' \in IF ReviewFound /\ revocation = NoRow THEN ReviewTimes ELSE {revocation}
    /\ call' = [call EXCEPT ![c] = Idle]
    /\ UNCHANGED <<store, approval, matching, rescans, matchedAt>>

\* The process ends, or finds the lock taken.
Abandon(c) ==
    /\ call[c] # Idle
    /\ call' = [call EXCEPT ![c] = Idle]
    /\ UNCHANGED <<publicationVars, approval, revocation, matching, rescans, matchedAt>>

ReviewNext ==
    \/ PublicationNext /\ UNCHANGED review
    \/ InventoryChanges
    \/ \E c \in Reviewers :
          \/ CheckEvidence(c)
          \/ RecordApproval(c)
          \/ ShowReview(c)
          \/ RecordRevocation(c)
          \/ Abandon(c)

ReviewSpec == ReviewInit /\ [][ReviewNext]_reviewVars

-----------------------------------------------------------------------------
(* Properties. *)

\* The rows and the calls have their types, and a review needs its plan and
\* the schema that opening the store for writing has provided.
ReviewTypeOK ==
    /\ approval \in [created: ReviewTimes, expires: Nat, matched: 0..MaxRescans] \cup {NoRow}
    /\ revocation \in ReviewTimes \cup {NoRow}
    /\ matching \in BOOLEAN
    /\ rescans \in 0..MaxRescans
    /\ matchedAt \subseteq 0..rescans
    /\ call \in [Reviewers -> Calls]
    /\ approval # NoRow => version >= 3 /\ Reviewed \in plans

\* Approve: consent always rests on an inventory that matched the frozen
\* selection, although the inventory may differ by the time consent is
\* recorded, and it ends ReviewLifetime after that check's clock reading.
\* Revoke: no revocation stands without its approval, which readReview would
\* take for corruption and refuse the plan for good.
ConsentOnMatch ==
    /\ ReviewTypeOK
    /\ approval # NoRow =>
         /\ approval.matched \in matchedAt
         /\ approval.expires = approval.created + ReviewLifetime
    /\ revocation # NoRow => approval # NoRow

ConsentKept ==
    /\ approval # NoRow => approval' = approval
    /\ revocation # NoRow => revocation' = revocation

\* approve: consent, once given, is never extended, renewed or revived,
\* whichever of several reviewers, with whichever clock reading, comes last.
ConsentGivenOnce == [][ConsentKept]_reviewVars
=============================================================================
