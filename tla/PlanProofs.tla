----------------------------- MODULE PlanProofs -----------------------------
(***************************************************************************)
(* Proofs about plans and about the actions on their findings.              *)
(*                                                                          *)
(* The plan store and its reviews (PlanStore, PlanReview), for every set of *)
(* plans, requests, reviewers and clock readings, and for every limit.      *)
(*                                                                          *)
(* The action journal under the live checks (ActionJournal,                 *)
(* PlanObservation), for every set of findings, keys and clock readings and *)
(* every limit of the events, and the windows of a sample, for every size   *)
(* of the file and of a window.                                             *)
(***************************************************************************)
EXTENDS PlanReview, PlanObservation, FiniteSetTheorems, SequenceTheorems, TLAPS

-----------------------------------------------------------------------------
(***************************************************************************)
(* The store.                                                               *)
(***************************************************************************)

\* An answer stays true because the tables only grow and a refusal means that
\* they are full: that is what AnswersTrue alone does not say.
RefusedWhenFull ==
    /\ \A p \in Plans :
          <<p, "capacity">> \in told => Cardinality(plans) >= PlanLimit
    /\ \A d \in Requests :
          <<d, "capacity">> \in told => Cardinality(dismissals) >= DismissalLimit

\* An undo that was answered is a row; repeating the dismissal leaves it.
UndoneRecorded == \A d \in Requests : <<d, "undone">> \in told => d \in undos

StoreInv == AnswersTrue /\ RefusedWhenFull /\ UndoneRecorded

\* AtLeast: a migration never lowers the schema and reaches the one asked for.
LEMMA SchemaRaised ==
  ASSUME version \in 1..6, NEW v \in 1..6
  PROVE  AtLeast(v) \in 1..6 /\ AtLeast(v) >= version /\ AtLeast(v) >= v
  BY DEF AtLeast

\* Tables of finite sets are finite and a new row adds one.
LEMMA RowAdded ==
  ASSUME NEW S, IsFiniteSet(S), NEW T \in SUBSET S, NEW x \in S, x \notin T
  PROVE  /\ Cardinality(T) \in Nat
         /\ Cardinality(T \cup {x}) = Cardinality(T) + 1
  <1>1. IsFiniteSet(T)
    BY FS_Subset
  <1> QED BY <1>1, FS_CardinalityType, FS_AddElement

LEMMA RowsCounted ==
  ASSUME PublicationTypeOK
  PROVE  Cardinality(plans) \in Nat /\ Cardinality(dismissals) \in Nat
  <1>1. IsFiniteSet(plans) /\ IsFiniteSet(dismissals)
    BY FiniteAssumption, FS_Subset DEF PublicationTypeOK
  <1> QED BY <1>1, FS_CardinalityType

\* A step that writes no row and gives no answer, but may raise the schema.
LEMMA SchemaStep ==
  ASSUME StoreInv, UNCHANGED store, version' = version \/ version' = AtLeast(3)
  PROVE  StoreInv'
  <1>1. PublicationTypeOK'
    BY SchemaRaised DEF StoreInv, AnswersTrue, Bounded, PublicationTypeOK, store, AtLeast
  <1> QED
    BY <1>1 DEF StoreInv, AnswersTrue, Bounded, RefusedWhenFull, UndoneRecorded,
                Hidden, store

\* The empty store of any older release, below its limit or above.
LEMMA StoreInit == PublicationInit => StoreInv
  <1> SUFFICES ASSUME PublicationInit PROVE StoreInv
    OBVIOUS
  <1>1. PublicationTypeOK
    BY LegacyAssumption, VersionsAssumption DEF PublicationInit, PublicationTypeOK
  <1>2. Cardinality({}) = 0
    BY FS_EmptySet
  <1> QED
    BY <1>1, <1>2, LimitsAssumption
    DEF PublicationInit, StoreInv, AnswersTrue, Bounded, RefusedWhenFull, UndoneRecorded

\* saveRecord: refused, retried or published, its answer joins true ones.
LEMMA SaveRecordStep ==
  ASSUME StoreInv, NEW p \in Plans, SaveRecord(p)
  PROVE  StoreInv'
  <1> USE DEF StoreInv, AnswersTrue, Bounded, RefusedWhenFull, UndoneRecorded, Hidden
  <1>0. p \notin Requests
    BY KindsAssumption
  <1>1. CASE RefusePlan(p)
    <2>1. PublicationTypeOK'
      BY <1>1 DEF RefusePlan, Tell, PublicationTypeOK, Answers
    <2> QED BY <1>0, <1>1, <2>1 DEF RefusePlan, PlanRefused, Tell
  <1>2. CASE RetryPlan(p)
    <2>1. PublicationTypeOK'
      BY <1>2 DEF RetryPlan, Tell, PublicationTypeOK, Answers
    <2> QED BY <1>0, <1>2, <2>1 DEF RetryPlan, Tell
  <1>3. CASE PublishPlan(p)
    <2>1. PICK committed \in BOOLEAN, answer \in Answers :
            /\ answer \in AnswersAfter(committed)
            /\ plans' = IF committed THEN plans \cup {p} ELSE plans
            /\ version' = IF committed THEN SchemaWithPlan ELSE version
            /\ told' = told \cup {<<p, answer>>}
      BY <1>3 DEF PublishPlan, Tell, AnswersAfter, Answers
    <2>2. /\ answer \in {"saved", "uncertain"} /\ (answer = "saved" => committed)
          /\ UNCHANGED <<legacy, dismissals, undos>> /\ p \notin plans
          /\ ~(Cardinality(plans) >= PlanLimit)
      BY <1>3, <2>1 DEF PublishPlan, AnswersAfter, PlanRefused
    <2>3. /\ Cardinality(plans) \in Nat
          /\ Cardinality(plans \cup {p}) = Cardinality(plans) + 1
      BY <2>2, FiniteAssumption, RowAdded DEF PublicationTypeOK
    <2>4. PublicationTypeOK'
      BY <2>1, <2>2 DEF PublicationTypeOK, Answers, SchemaWithPlan
    <2>5. /\ Cardinality(plans') <= PlanLimit
          /\ ~(\E q \in Plans : <<q, "capacity">> \in told)
      <3>1. \/ Cardinality(plans') = Cardinality(plans)
            \/ Cardinality(plans') = Cardinality(plans \cup {p})
        BY <2>1, Zenon
      <3>2. Cardinality(plans') <= PlanLimit
        BY <2>2, <2>3, <3>1, LimitsAssumption
      <3>3. ~(\E q \in Plans : <<q, "capacity">> \in told)
        BY <2>2 DEF RefusedWhenFull
      <3> QED BY <3>2, <3>3
    <2> QED BY <1>0, <2>1, <2>2, <2>4, <2>5
  <1> QED BY <1>1, <1>2, <1>3 DEF SaveRecord

\* saveDismissal, the same for dismissals.
LEMMA SaveDismissalStep ==
  ASSUME StoreInv, NEW d \in Requests, SaveDismissal(d)
  PROVE  StoreInv'
  <1> USE DEF StoreInv, AnswersTrue, Bounded, RefusedWhenFull, UndoneRecorded, Hidden
  <1>0. d \notin Plans
    BY KindsAssumption
  <1>1. CASE RefuseDismissal(d)
    <2>1. PublicationTypeOK'
      BY <1>1 DEF RefuseDismissal, Tell, PublicationTypeOK, Answers
    <2> QED BY <1>0, <1>1, <2>1 DEF RefuseDismissal, DismissalRefused, Tell
  <1>2. CASE RetryDismissal(d)
    <2>1. PublicationTypeOK'
      BY <1>2 DEF RetryDismissal, UndosOnRetry, AtLeast, Tell, PublicationTypeOK, Answers
    <2> QED BY <1>0, <1>2, <2>1 DEF RetryDismissal, UndosOnRetry, Tell
  <1>3. CASE PublishDismissal(d)
    <2>1. PICK committed \in BOOLEAN, answer \in Answers :
            /\ answer \in AnswersAfter(committed)
            /\ dismissals' = IF committed THEN dismissals \cup {d} ELSE dismissals
            /\ version' = IF committed THEN AtLeast(5) ELSE version
            /\ told' = told \cup {<<d, answer>>}
      BY <1>3 DEF PublishDismissal, Tell, AnswersAfter, Answers
    <2>2. /\ answer \in {"saved", "uncertain"} /\ (answer = "saved" => committed)
          /\ UNCHANGED <<legacy, plans, undos>> /\ d \notin dismissals
          /\ ~(Cardinality(dismissals) >= DismissalLimit)
      BY <1>3, <2>1 DEF PublishDismissal, AnswersAfter, DismissalRefused
    <2>3. /\ Cardinality(dismissals) \in Nat
          /\ Cardinality(dismissals \cup {d}) = Cardinality(dismissals) + 1
      BY <2>2, FiniteAssumption, RowAdded DEF PublicationTypeOK
    <2>4. PublicationTypeOK'
      BY <2>1, <2>2 DEF PublicationTypeOK, Answers, AtLeast
    <2>5. /\ Cardinality(dismissals') <= DismissalLimit
          /\ ~(\E q \in Requests : <<q, "capacity">> \in told)
      <3>1. \/ Cardinality(dismissals') = Cardinality(dismissals)
            \/ Cardinality(dismissals') = Cardinality(dismissals \cup {d})
        BY <2>1, Zenon
      <3>2. Cardinality(dismissals') <= DismissalLimit
        BY <2>2, <2>3, <3>1, LimitsAssumption
      <3>3. ~(\E q \in Requests : <<q, "capacity">> \in told)
        BY <2>2 DEF RefusedWhenFull
      <3> QED BY <3>2, <3>3
    <2>6. RefusedWhenFull' /\ UndoneRecorded'
      BY <1>0, <2>1, <2>2, <2>5
    <2>7. \A r \in Plans : <<r, "saved">> \in told' => <<r, "saved">> \in told
      BY <1>0, <2>1
    <2> QED BY <1>0, <2>1, <2>2, <2>4, <2>5, <2>6, <2>7
  <1> QED BY <1>1, <1>2, <1>3 DEF SaveDismissal

\* undoDismissal adds at most its own row.
LEMMA UndoStep ==
  ASSUME StoreInv, NEW d \in Requests, UndoDismissal(d)
  PROVE  StoreInv'
  <1> USE DEF StoreInv, AnswersTrue, Bounded, RefusedWhenFull, UndoneRecorded, Hidden
  <1>0. d \notin Plans
    BY KindsAssumption
  <1>1. PICK answer \in {"undone", "uncertain"} :
          /\ told' = told \cup {<<d, answer>>}
          /\ undos' \in {undos, undos \cup {d}}
          /\ answer = "undone" => d \in undos'
    BY DEF UndoDismissal, Tell
  <1>2. d \in dismissals /\ UNCHANGED <<legacy, version, plans, dismissals>>
    BY DEF UndoDismissal
  <1>3. PublicationTypeOK'
    BY <1>1, <1>2 DEF PublicationTypeOK, Answers
  <1> QED BY <1>0, <1>1, <1>2, <1>3

LEMMA StoreStep == StoreInv /\ [PublicationNext]_publicationVars => StoreInv'
  <1> SUFFICES ASSUME StoreInv, [PublicationNext]_publicationVars PROVE StoreInv'
    OBVIOUS
  <1>1. CASE UNCHANGED publicationVars
    BY <1>1, SchemaStep DEF publicationVars, store
  <1> QED BY <1>1, SaveRecordStep, SaveDismissalStep, UndoStep DEF PublicationNext

\* saveRecord, saveDismissal, undoDismissal: every answer a caller was ever given
\* stays true, for any number of plans and requests and any limits.
THEOREM AnswersStayTrue == PublicationSpec => []AnswersTrue
  <1>1. StoreInv => AnswersTrue
    BY DEF StoreInv
  <1> QED BY <1>1, StoreInit, StoreStep, PTL DEF PublicationSpec

-----------------------------------------------------------------------------
(***************************************************************************)
(* The review.                                                              *)
(***************************************************************************)

\* What a call carries from before the lock to the moment it is recorded: a
\* plan that stays saved, and an inventory that has matched.
EvidenceKept ==
    /\ matching => rescans \in matchedAt
    /\ \A c \in Reviewers : call[c].doing = "approve" =>
          call[c].now \in ReviewTimes /\ call[c].seen \in matchedAt /\ Reviewed \in plans

ReviewInv == StoreInv /\ ConsentOnMatch /\ EvidenceKept

\* The rows of a review whose schema and plan stay as they are.
LEMMA RowsKept ==
  ASSUME ReviewInv, version' >= version, version' \in 1..6, plans \subseteq plans',
         UNCHANGED <<approval, revocation, matching, rescans, matchedAt>>,
         call' \in [Reviewers -> Calls],
         \A c \in Reviewers : call'[c] = call[c] \/ call'[c].doing # "approve"
  PROVE  ConsentOnMatch' /\ EvidenceKept'
  <1>1. version \in 1..6
    BY DEF ReviewInv, StoreInv, AnswersTrue, Bounded, PublicationTypeOK
  <1>2. ReviewTypeOK'
    BY <1>1 DEF ReviewInv, ConsentOnMatch, ReviewTypeOK
  <1>3. ConsentOnMatch'
    BY <1>2 DEF ReviewInv, ConsentOnMatch
  <1>4. EvidenceKept'
    BY DEF ReviewInv, EvidenceKept
  <1> QED BY <1>3, <1>4

\* Every step of the store keeps its rows and its schema.
LEMMA StoreGrows ==
  ASSUME StoreInv, PublicationNext
  PROVE  plans \subseteq plans' /\ version' >= version /\ version' \in 1..6
  <1> USE DEF StoreInv, AnswersTrue, Bounded, PublicationTypeOK
  <1>1. ASSUME NEW p \in Plans, SaveRecord(p)
        PROVE  plans \subseteq plans' /\ version' >= version /\ version' \in 1..6
    BY <1>1 DEF SaveRecord, RefusePlan, RetryPlan, PublishPlan, SchemaWithPlan
  <1>2. ASSUME NEW d \in Requests, SaveDismissal(d) \/ UndoDismissal(d)
        PROVE  plans \subseteq plans' /\ version' >= version /\ version' \in 1..6
    BY <1>2 DEF SaveDismissal, RefuseDismissal, RetryDismissal, PublishDismissal,
                UndoDismissal, AtLeast
  <1> QED BY <1>1, <1>2 DEF PublicationNext

LEMMA ReviewInitInv == ReviewInit => ReviewInv
  <1> SUFFICES ASSUME ReviewInit PROVE ReviewInv
    OBVIOUS
  <1>1. Idle \in Calls
    BY RescansAssumption DEF Idle, Calls
  <1>2. ReviewTypeOK
    BY <1>1, RescansAssumption DEF ReviewInit, ReviewTypeOK
  <1>3. EvidenceKept
    BY DEF ReviewInit, EvidenceKept, Idle
  <1> QED
    BY <1>2, <1>3, StoreInit DEF ReviewInit, ReviewInv, ConsentOnMatch

LEMMA ReviewStep == ReviewInv /\ [ReviewNext]_reviewVars => ReviewInv'
  <1> SUFFICES ASSUME ReviewInv, [ReviewNext]_reviewVars PROVE ReviewInv'
    OBVIOUS
  <1> USE DEF ReviewInv
  <1>0. /\ version \in 1..6 /\ Idle \in Calls /\ ReviewTypeOK
        /\ call \in [Reviewers -> Calls]
    BY RescansAssumption
    DEF StoreInv, AnswersTrue, Bounded, PublicationTypeOK, Idle, Calls, ConsentOnMatch, ReviewTypeOK
  <1>1. CASE PublicationNext /\ UNCHANGED review
    <2>1. StoreInv'
      BY <1>1, StoreStep
    <2>2. ConsentOnMatch' /\ EvidenceKept'
      BY <1>0, <1>1, StoreGrows, RowsKept DEF review
    <2> QED BY <2>1, <2>2
  <1>2. CASE UNCHANGED reviewVars
    <2>1. StoreInv'
      BY <1>2, SchemaStep DEF reviewVars, publicationVars, store
    <2>2. ConsentOnMatch' /\ EvidenceKept'
      BY <1>0, <1>2, RowsKept DEF reviewVars, publicationVars, review
    <2> QED BY <2>1, <2>2
  <1>3. CASE InventoryChanges
    <2>1. StoreInv'
      BY <1>3, SchemaStep DEF InventoryChanges, publicationVars, store
    <2>2. /\ rescans \in 0..MaxRescans /\ rescans' = rescans + 1 /\ rescans' \in 0..MaxRescans
          /\ matching' \in BOOLEAN /\ UNCHANGED <<version, plans, approval, revocation, call>>
          /\ matchedAt \subseteq 0..rescans /\ matchedAt \subseteq matchedAt'
          /\ matchedAt' \subseteq matchedAt \cup {rescans'}
          /\ matching' => rescans' \in matchedAt'
      BY <1>0, <1>3, RescansAssumption DEF InventoryChanges, ReviewTypeOK, publicationVars
    <2>3. matchedAt' \subseteq 0..rescans'
      BY <2>2, RescansAssumption
    <2>4. ReviewTypeOK'
      BY <1>0, <2>2, <2>3 DEF ReviewTypeOK
    <2>5. ConsentOnMatch' /\ EvidenceKept'
      BY <2>2, <2>4 DEF ConsentOnMatch, EvidenceKept
    <2> QED BY <2>1, <2>5
  <1>4. ASSUME NEW c \in Reviewers, CheckEvidence(c) PROVE ReviewInv'
    <2>1. PICK now \in ReviewTimes :
            call' = [call EXCEPT ![c] = [doing |-> "approve", now |-> now, seen |-> rescans]]
      BY <1>4 DEF CheckEvidence
    <2>2. StoreInv' /\ UNCHANGED <<version, plans, approval, revocation, matching, rescans, matchedAt>>
      BY <1>4, SchemaStep DEF CheckEvidence, publicationVars, store
    <2>3. [doing |-> "approve", now |-> now, seen |-> rescans] \in Calls
      BY <1>0 DEF Calls, ReviewTypeOK
    <2>4. ReviewTypeOK'
      BY <1>0, <2>1, <2>2, <2>3 DEF ReviewTypeOK
    <2>5. rescans \in matchedAt /\ Reviewed \in plans
      BY <1>4 DEF CheckEvidence, EvidenceMatches, EvidenceKept
    <2>6. EvidenceKept'
      BY <1>0, <2>1, <2>2, <2>5 DEF EvidenceKept
    <2> QED BY <2>2, <2>4, <2>6 DEF ConsentOnMatch
  <1>5. ASSUME NEW c \in Reviewers, RecordApproval(c) PROVE ReviewInv'
    <2>1. StoreInv'
      BY <1>5, SchemaStep DEF RecordApproval, OpenedForWriting
    <2>2. /\ version' \in 1..6 /\ version' >= version /\ version' >= 3
          /\ call' = [call EXCEPT ![c] = Idle]
          /\ UNCHANGED <<plans, revocation, matching, rescans, matchedAt>>
      BY <1>0, <1>5, SchemaRaised DEF RecordApproval, OpenedForWriting, store
    <2>3. /\ call' \in [Reviewers -> Calls]
          /\ \A b \in Reviewers : call'[b] = call[b] \/ call'[b].doing # "approve"
      BY <1>0, <2>2 DEF Idle
    <2>4. EvidenceKept'
      BY <2>2, <2>3 DEF EvidenceKept
    <2>5. CASE ~ReviewOpen(call[c].now)
      <3>1. approval' = approval
        BY <1>5, <2>5 DEF RecordApproval
      <3> QED BY <2>1, <2>2, <2>3, <3>1, RowsKept
    <2>6. CASE ReviewOpen(call[c].now)
      <3>1. approval' = [created |-> call[c].now, expires |-> call[c].now + ReviewLifetime,
                         matched |-> call[c].seen]
        BY <1>5, <2>6 DEF RecordApproval
      <3>2. call[c].now \in ReviewTimes /\ call[c].seen \in matchedAt /\ Reviewed \in plans
        BY <1>5 DEF RecordApproval, EvidenceKept
      <3>3. call[c].seen \in 0..MaxRescans /\ call[c].now \in Nat
        BY <1>0, <3>2, ReviewTimesAssumption DEF Calls
      <3>4. approval = NoRow
        BY <1>0, <2>6 DEF ReviewOpen, ReviewStatus, ReviewTypeOK
      <3>5. call[c].now + ReviewLifetime \in Nat
        BY <3>3, LifetimeAssumption
      <3>6. approval' \in [created: ReviewTimes, expires: Nat, matched: 0..MaxRescans]
        BY <3>1, <3>2, <3>3, <3>5
      <3>7. ReviewTypeOK'
        BY <1>0, <2>2, <2>3, <3>2, <3>6 DEF ReviewTypeOK
      <3>8. revocation = NoRow
        BY <3>4 DEF ConsentOnMatch
      <3>9. ConsentOnMatch'
        BY <2>2, <3>1, <3>2, <3>7, <3>8 DEF ConsentOnMatch
      <3> QED BY <2>1, <2>4, <3>9
    <2> QED BY <2>5, <2>6
  <1>6. ASSUME NEW c \in Reviewers, ShowReview(c) PROVE ReviewInv'
    <2>1. /\ call' = [call EXCEPT ![c] = [doing |-> "revoke", now |-> 0, seen |-> rescans]]
          /\ StoreInv'
          /\ UNCHANGED <<version, plans, approval, revocation, matching, rescans, matchedAt>>
      BY <1>6, SchemaStep DEF ShowReview, publicationVars, store
    <2>2. [doing |-> "revoke", now |-> 0, seen |-> rescans] \in Calls
      BY <1>0 DEF Calls, ReviewTypeOK
    <2>3. /\ call' \in [Reviewers -> Calls]
          /\ \A b \in Reviewers : call'[b] = call[b] \/ call'[b].doing # "approve"
      BY <1>0, <2>1, <2>2
    <2> QED BY <1>0, <2>1, <2>3, RowsKept
  <1>7. ASSUME NEW c \in Reviewers, RecordRevocation(c) PROVE ReviewInv'
    <2>1. StoreInv'
      BY <1>7, SchemaStep DEF RecordRevocation, OpenedForWriting
    <2>2. /\ version' \in 1..6 /\ version' >= version
          /\ call' = [call EXCEPT ![c] = Idle]
          /\ UNCHANGED <<plans, approval, matching, rescans, matchedAt>>
      BY <1>0, <1>7, SchemaRaised DEF RecordRevocation, OpenedForWriting, store
    <2>3. /\ call' \in [Reviewers -> Calls]
          /\ \A b \in Reviewers : call'[b] = call[b] \/ call'[b].doing # "approve"
      BY <1>0, <2>2 DEF Idle
    <2>4. revocation' = revocation \/ (approval # NoRow /\ revocation' \in ReviewTimes)
      BY <1>7 DEF RecordRevocation, ReviewFound
    <2>5. CASE revocation' = revocation
      BY <2>1, <2>2, <2>3, <2>5, RowsKept
    <2>6. CASE approval # NoRow /\ revocation' \in ReviewTimes
      <3>1. ReviewTypeOK'
        BY <1>0, <2>2, <2>3, <2>6 DEF ReviewTypeOK
      <3> QED BY <2>1, <2>2, <2>3, <2>6, <3>1 DEF ConsentOnMatch, EvidenceKept
    <2> QED BY <2>4, <2>5, <2>6
  <1>8. ASSUME NEW c \in Reviewers, Abandon(c) PROVE ReviewInv'
    <2>1. /\ call' = [call EXCEPT ![c] = Idle] /\ StoreInv'
          /\ UNCHANGED <<version, plans, approval, revocation, matching, rescans, matchedAt>>
      BY <1>8, SchemaStep DEF Abandon, publicationVars, store
    <2>2. /\ call' \in [Reviewers -> Calls]
          /\ \A b \in Reviewers : call'[b] = call[b] \/ call'[b].doing # "approve"
      BY <1>0, <2>1 DEF Idle
    <2> QED BY <1>0, <2>1, <2>2, RowsKept
  <1> QED
    BY <1>1, <1>2, <1>3, <1>4, <1>5, <1>6, <1>7, <1>8 DEF ReviewNext

\* The inductive invariant of a store under review.
THEOREM ReviewInvariant == ReviewSpec => []ReviewInv
  <1> QED BY ReviewInitInv, ReviewStep, PTL DEF ReviewSpec

\* Answers also stay true while reviewers raise the schema between the writes.
THEOREM AnswersStayTrueUnderReview == ReviewSpec => []AnswersTrue
  <1>1. ReviewInv => AnswersTrue
    BY DEF ReviewInv, StoreInv
  <1> QED BY <1>1, ReviewInvariant, PTL

\* Approve and Revoke: consent rests on an inventory that matched, however many
\* processes check, record and revoke between each other's steps.
THEOREM ConsentRestsOnMatch == ReviewSpec => []ConsentOnMatch
  <1>1. ReviewInv => ConsentOnMatch
    BY DEF ReviewInv
  <1> QED BY <1>1, ReviewInvariant, PTL

\* Consent is given once: no step of any process renews or revives it.
THEOREM ConsentNeverRenewed == ReviewSpec => ConsentGivenOnce
  <1>1. ReviewInv /\ [ReviewNext]_reviewVars => [ConsentKept]_reviewVars
    <2> SUFFICES ASSUME ReviewInv, ReviewNext PROVE ConsentKept
      BY DEF reviewVars
    <2>1. CASE (PublicationNext /\ UNCHANGED review) \/ InventoryChanges
      BY <2>1 DEF review, InventoryChanges, ConsentKept
    <2>2. ASSUME NEW c \in Reviewers,
                 CheckEvidence(c) \/ ShowReview(c) \/ Abandon(c) \/ RecordRevocation(c)
          PROVE  ConsentKept
      BY <2>2 DEF CheckEvidence, ShowReview, Abandon, RecordRevocation, ConsentKept
    <2>3. ASSUME NEW c \in Reviewers, RecordApproval(c) PROVE ConsentKept
      <3>1. ReviewOpen(call[c].now) => approval = NoRow
        BY DEF ReviewOpen, ReviewStatus, ReviewInv, ConsentOnMatch, ReviewTypeOK,
               StoreInv, AnswersTrue, Bounded, PublicationTypeOK
      <3> QED BY <2>3, <3>1 DEF RecordApproval, ConsentKept
    <2> QED BY <2>1, <2>2, <2>3 DEF ReviewNext
  <1> QED BY <1>1, ReviewInvariant, PTL DEF ReviewSpec, ConsentGivenOnce

-----------------------------------------------------------------------------
(***************************************************************************)
(* The journal: its inductive invariant.                                    *)
(***************************************************************************)

\* Every saved intent could be loaded when it was last written.
Loadable == \A k \in IntentKeys : Saved(k) => \E now \in Times : Loads(k, now)

\* A finding is moved by one intent of each kind.
OneIntent ==
  \A j, k \in IntentKeys :
    /\ Saved(j) /\ Saved(k)
    /\ intents[j].request.finding = intents[k].request.finding
    /\ intents[j].request.kind = intents[k].request.kind
    => j = k

JournalInv == TypeOK /\ Loadable /\ OneIntent

-----------------------------------------------------------------------------
(* What a load depends on.                                                 *)

\* The rows of an intent.
SameRows(k) == intents'[k] = intents[k] /\ history'[k] = history[k]

LEMMA ChainSame ==
  ASSUME NEW k, NEW now, SameRows(k), ChainLoads(k, now)
  PROVE  ChainLoads(k, now)'
  <1>1. intents'[k] = intents[k] /\ history'[k] = history[k]
    BY DEF SameRows
  <1> SUFFICES ASSUME NEW n \in 1..Len(history[k])
               PROVE  /\ NextEvent(k, SubSeq(history[k], 1, n - 1), history[k][n].request)'
                      /\ history[k][n].created <= now
                      /\ history[k][n].created >=
                            IF n = 1 THEN intents[k].created ELSE history[k][n - 1].created
    BY <1>1 DEF ChainLoads
  <1>2. /\ NextEvent(k, SubSeq(history[k], 1, n - 1), history[k][n].request)
        /\ history[k][n].created <= now
        /\ history[k][n].created >=
              IF n = 1 THEN intents[k].created ELSE history[k][n - 1].created
    BY DEF ChainLoads
  <1>3. SubSeq(history[k], 1, n - 1)' = SubSeq(history[k], 1, n - 1)
    BY <1>1
  <1>4. NextEvent(k, SubSeq(history[k], 1, n - 1), history[k][n].request)'
    BY <1>1, <1>2, <1>3 DEF NextEvent
  <1> QED BY <1>2, <1>4

LEMMA OriginalSame ==
  ASSUME NEW k, NEW now, SameRows(k), UNCHANGED observation, OriginalLoads(k, now)
  PROVE  OriginalLoads(k, now)'
  <1>1. ChainLoads(k, now)'
    BY ChainSame DEF OriginalLoads
  <1> QED BY <1>1 DEF OriginalLoads, SameRows, Saved, ObservationLoads, QuarantineBound

\* A load reads the observation, the intent's own rows and its original's.
LEMMA LoadsSame ==
  ASSUME NEW k, NEW now, SameRows(k), UNCHANGED observation, Loads(k, now),
         intents[k].request.kind # "quarantine" => SameRows(intents[k].request.original)
  PROVE  Loads(k, now)'
  <1>1. ChainLoads(k, now)'
    BY ChainSame DEF Loads
  <1>2. Bound(intents[k], now)'
    <2>1. CASE intents[k].request.kind = "quarantine"
      BY <2>1 DEF Loads, Bound, QuarantineBound, SameRows
    <2>2. CASE intents[k].request.kind # "quarantine"
      <3> PICK o : o = intents[k].request.original
        OBVIOUS
      <3>1. OriginalLoads(o, now)'
        BY <2>2, OriginalSame DEF Loads, Bound, RestoreBound
      <3>2. RestoreBound(intents[k], now)
        BY <2>2 DEF Loads, Bound
      <3>3. SameRows(o) /\ SameRows(k)
        BY <2>2
      <3>4. RestoreBound(intents[k], now)'
        BY <3>1, <3>2, <3>3 DEF RestoreBound, SameRows
      <3> QED BY <2>2, <3>3, <3>4 DEF Bound, SameRows
    <2> QED BY <2>1, <2>2
  <1> QED BY <1>1, <1>2 DEF Loads, SameRows, Saved, ObservationLoads

\* An event cannot follow a chain that ends at the destination.
LEMMA ChainEnded ==
  ASSUME NEW k, NEW e, NextEvent(k, history[k], e),
         e.kind \in {"attempt", "result", "reconciliation"}
  PROVE  StateOf(history[k]) # "at_destination"
  BY DEF NextEvent, StateOf, ValidEvent, ValidReport

\* The original of a saved restore takes no further event.
LEMMA OriginalClosed ==
  ASSUME NEW j, NEW now, Loads(j, now), intents[j].request.kind # "quarantine"
  PROVE  /\ intents[j].request.original \in IntentKeys
         /\ Saved(intents[j].request.original)
         /\ StateOf(history[intents[j].request.original]) = "at_destination"
  BY DEF Loads, Bound, RestoreBound, OriginalLoads

-----------------------------------------------------------------------------
(* The steps.                                                              *)

LEMMA CaptureStep ==
  ASSUME JournalInv, NEW e \in Evidence, NEW checked \in Times, Capture(e, checked)
  PROVE  JournalInv'
  <1>1. \A k \in IntentKeys : ~Saved(k)
    BY DEF JournalInv, Loadable, Loads, ObservationLoads, Capture
  <1>2. TypeOK'
    BY DEF JournalInv, TypeOK, Capture
  <1>3. \A k \in IntentKeys : ~Saved(k)'
    BY <1>1 DEF Saved, Capture
  <1> QED BY <1>2, <1>3 DEF JournalInv, Loadable, OneIntent

LEMMA PrepareStep ==
  ASSUME JournalInv, NEW q \in ValidPreparations, PrepareJournal(q)
  PROVE  JournalInv'
  <1>1. q \in PreparationRequests /\ q.key \in IntentKeys /\ FreeToPrepare(q)
    BY DEF ValidPreparations, PreparationRequests, PrepareJournal
  <1>2. PICK created \in Times :
          intents' = [intents EXCEPT ![q.key] = [request |-> q, created |-> created]]
    BY DEF PrepareJournal
  <1>3. intents \in [IntentKeys -> Intents \cup {None}]
    BY DEF JournalInv, TypeOK
  <1>4. UNCHANGED <<observation, history>>
    BY DEF PrepareJournal
  <1>5. \A k \in IntentKeys : k # q.key => SameRows(k)
    BY <1>2, <1>3, <1>4 DEF SameRows
  <1>6. intents'[q.key].request = q
    BY <1>1, <1>2, <1>3
  <1>7. TypeOK'
    <2>1. [request |-> q, created |-> created] \in Intents
      BY <1>1 DEF Intents
    <2>2. intents' \in [IntentKeys -> Intents \cup {None}]
      BY <1>2, <1>3, <2>1
    <2> QED BY <1>4, <2>2 DEF JournalInv, TypeOK
  <1>8. Loadable'
    <2> SUFFICES ASSUME NEW k \in IntentKeys, Saved(k)' PROVE \E now \in Times : Loads(k, now)'
      BY DEF Loadable
    <2>1. CASE k = q.key
      BY <2>1 DEF PrepareJournal, PreparationVerified
    <2>2. CASE k # q.key
      <3>1. Saved(k)
        BY <1>5, <2>2 DEF Saved, SameRows
      <3>2. PICK now \in Times : Loads(k, now)
        BY <3>1 DEF JournalInv, Loadable
      <3>3. intents[k].request.kind # "quarantine" => SameRows(intents[k].request.original)
        BY <1>1, <1>5, <3>2, OriginalClosed DEF FreeToPrepare
      <3> QED BY <1>4, <1>5, <2>2, <3>2, <3>3, LoadsSame
    <2> QED BY <2>1, <2>2
  <1>9. OneIntent'
    <2> SUFFICES ASSUME NEW j \in IntentKeys, NEW k \in IntentKeys, Saved(j)', Saved(k)',
                        intents'[j].request.finding = intents'[k].request.finding,
                        intents'[j].request.kind = intents'[k].request.kind
                 PROVE  j = k
      BY DEF OneIntent
    <2>1. \A i \in IntentKeys : i # q.key /\ Saved(i)' =>
            <<intents'[i].request.finding, intents'[i].request.kind>> # <<q.finding, q.kind>>
      BY <1>1, <1>5 DEF FreeToPrepare, SameRows, Saved
    <2>2. CASE j # q.key /\ k # q.key
      BY <1>5, <2>2 DEF JournalInv, OneIntent, SameRows, Saved
    <2>3. CASE j = q.key \/ k = q.key
      BY <1>6, <2>1, <2>3
    <2> QED BY <2>2, <2>3
  <1> QED BY <1>7, <1>8, <1>9 DEF JournalInv

LEMMA EventTyped ==
  ASSUME TypeOK, NEW k \in IntentKeys, NEW n \in 0..Len(history[k]),
         NEW key \in EventKeys, NEW r \in Reports,
         ValidEvent(EventAfter(k, n, key, r))
  PROVE  EventAfter(k, n, key, r) \in EventRequests
  <1>1. history[k] \in Seq(Events) /\ Len(history[k]) \in Nat /\ n \in Nat
    BY DEF TypeOK
  <1>2. n + 1 \in 1..EventLimit
    BY <1>1, LimitAssumption DEF ValidEvent, EventAfter
  <1>3. (IF n = 0 THEN k ELSE history[k][n].request.key) \in IntentKeys \cup EventKeys
    <2>1. n # 0 => history[k][n] \in Events
      BY <1>1
    <2> QED BY <2>1 DEF Events, EventRequests
  <1>4. /\ r.kind \in {"attempt", "result", "reconciliation"}
        /\ r.outcome \in {"not_observed", "at_source", "at_destination", "conflict", "unknown"}
        /\ r.object \in Identities \cup {None}
    BY DEF Reports
  <1> QED BY <1>2, <1>3, <1>4 DEF EventAfter, EventRequests

LEMMA AppendStep ==
  ASSUME JournalInv, NEW k \in IntentKeys, NEW n \in 0..Len(history[k]),
         NEW key \in EventKeys, NEW r \in Reports,
         AppendJournalEvent(k, EventAfter(k, n, key, r))
  PROVE  JournalInv'
  <1> DEFINE e == EventAfter(k, n, key, r)
  <1>1. NextEvent(k, history[k], e) /\ UNCHANGED <<observation, intents>>
    BY DEF AppendJournalEvent
  <1>2. PICK created \in Times :
          history' = [history EXCEPT ![k] = Append(history[k], [request |-> e, created |-> created])]
    BY DEF AppendJournalEvent
  <1>3. history \in [IntentKeys -> Seq(Events)] /\ history[k] \in Seq(Events)
    BY DEF JournalInv, TypeOK
  <1>4. e \in EventRequests /\ e.sequence <= EventLimit /\ e.sequence = Len(history[k]) + 1
    BY <1>1, EventTyped DEF JournalInv, NextEvent, ValidEvent
  <1> DEFINE row == [request |-> e, created |-> created]
  <1>5. row \in Events
    BY <1>4 DEF Events
  <1>6. \E now \in Times : Loads(k, now)'
    BY DEF AppendJournalEvent, AppendVerified
  <1>7. history' = [history EXCEPT ![k] = Append(history[k], row)]
    BY <1>2
  <1> HIDE DEF e, row
  <1>8. TypeOK'
    <2>1. Append(history[k], row) \in Seq(Events) /\ Len(Append(history[k], row)) = Len(history[k]) + 1
      BY <1>3, <1>5
    <2>2. history' \in [IntentKeys -> Seq(Events)]
      BY <1>3, <1>7, <2>1
    <2>3. \A j \in IntentKeys : Len(history'[j]) <= EventLimit
      BY <1>3, <1>4, <1>7, <2>1 DEF JournalInv, TypeOK
    <2> QED BY <1>1, <2>2, <2>3 DEF JournalInv, TypeOK
  <1>9. \A j \in IntentKeys : j # k => SameRows(j)
    BY <1>1, <1>3, <1>7 DEF SameRows
  <1>10. Loadable'
    <2> SUFFICES ASSUME NEW j \in IntentKeys, Saved(j)' PROVE \E now \in Times : Loads(j, now)'
      BY DEF Loadable
    <2>1. CASE j = k
      BY <1>6, <2>1
    <2>2. CASE j # k
      <3>1. Saved(j)
        BY <1>1 DEF Saved
      <3>2. PICK now \in Times : Loads(j, now)
        BY <3>1 DEF JournalInv, Loadable
      <3>3. intents[j].request.kind # "quarantine" => SameRows(intents[j].request.original)
        <4>0. e.kind \in {"attempt", "result", "reconciliation"}
          BY <1>4 DEF EventRequests
        <4>1. StateOf(history[k]) # "at_destination"
          BY <1>1, <4>0, ChainEnded
        <4> QED BY <1>9, <3>2, <4>1, OriginalClosed
      <3> QED BY <1>1, <1>9, <2>2, <3>2, <3>3, LoadsSame
    <2> QED BY <2>1, <2>2
  <1>11. OneIntent'
    BY <1>1 DEF JournalInv, OneIntent, Saved
  <1> QED BY <1>8, <1>10, <1>11 DEF JournalInv

LEMMA JournalStep ==
  JournalInv /\ [Next]_vars => JournalInv'
  <1> SUFFICES ASSUME JournalInv, [Next]_vars PROVE JournalInv'
    OBVIOUS
  <1>1. CASE UNCHANGED vars
    <2>1. UNCHANGED <<observation, intents, history>>
      BY <1>1 DEF vars
    <2>2. \A k : SameRows(k)
      BY <2>1 DEF SameRows
    <2>3. TypeOK' /\ OneIntent'
      BY <2>1 DEF JournalInv, TypeOK, OneIntent, Saved
    <2>4. Loadable'
      <3> SUFFICES ASSUME NEW k \in IntentKeys, Saved(k)' PROVE \E now \in Times : Loads(k, now)'
        BY DEF Loadable
      <3>1. PICK now \in Times : Loads(k, now)
        BY <2>1 DEF JournalInv, Loadable, Saved
      <3> QED BY <2>1, <2>2, <3>1, LoadsSame
    <2> QED BY <2>3, <2>4 DEF JournalInv
  <1>2. CASE Next
    BY <1>2, CaptureStep, PrepareStep, AppendStep DEF Next
  <1> QED BY <1>1, <1>2

LEMMA JournalStart == Init => JournalInv
  <1> SUFFICES ASSUME Init PROVE JournalInv
    OBVIOUS
  <1>1. /\ observation = None /\ \A k \in IntentKeys : intents[k] = None /\ history[k] = <<>>
    BY DEF Init
  <1>2. TypeOK
    <2>1. <<>> \in Seq(Events) /\ Len(<<>>) = 0
      OBVIOUS
    <2> QED BY <1>1, <2>1, LimitAssumption DEF Init, TypeOK
  <1> QED BY <1>1, <1>2 DEF JournalInv, Loadable, OneIntent, Saved

-----------------------------------------------------------------------------
(* From the invariant to the properties.                                   *)

\* Every saved row is at most as late as now.
Past(now) ==
  \A k \in IntentKeys : Saved(k) =>
    /\ intents[k].created <= now
    /\ \A n \in 1..Len(history[k]) : history[k][n].created <= now

LEMMA ChainLater ==
  ASSUME NEW k \in IntentKeys, Saved(k), NEW t, NEW now, Past(now), ChainLoads(k, t)
  PROVE  ChainLoads(k, now)
  BY DEF ChainLoads, Past

\* What could be loaded once can be loaded whenever its rows are in the past.
LEMMA LoadsLater ==
  ASSUME TypeOK, NEW k \in IntentKeys, NEW t \in Times, Loads(k, t),
         NEW now \in Times, Past(now)
  PROVE  Loads(k, now)
  <1>1. Saved(k) /\ intents[k].created \in Int /\ intents[k].created <= now
    BY TimesAssumption DEF Loads, Saved, TypeOK, Intents, Past
  <1>2. observation.at \in Int
    BY TimesAssumption DEF TypeOK, Loads, ObservationLoads
  <1>3. intents[k].created >= observation.at
    BY DEF Loads, Bound, QuarantineBound, RestoreBound
  <1>4. now \in Int
    BY TimesAssumption
  <1>5. observation.at <= now
    BY <1>1, <1>2, <1>3, <1>4
  <1>6. ObservationLoads(now)
    BY <1>5 DEF Loads, ObservationLoads
  <1>7. ChainLoads(k, now)
    BY <1>1, ChainLater DEF Loads
  <1>8. Bound(intents[k], now)
    <2>1. CASE intents[k].request.kind = "quarantine"
      BY <2>1 DEF Loads, Bound
    <2>2. CASE intents[k].request.kind # "quarantine"
      <3> DEFINE o == intents[k].request.original
      <3>1. RestoreBound(intents[k], t) /\ OriginalLoads(o, t)
        BY <2>2 DEF Loads, Bound, RestoreBound
      <3>2. o \in IntentKeys /\ Saved(o) /\ ChainLoads(o, t)
        BY <3>1 DEF OriginalLoads
      <3>3. ChainLoads(o, now)
        BY <3>2, ChainLater
      <3>4. intents[o].created <= now
        BY <3>2 DEF Past
      <3>5. OriginalLoads(o, now)
        BY <1>6, <3>1, <3>2, <3>3, <3>4 DEF OriginalLoads
      <3> QED BY <2>2, <3>1, <3>5 DEF Bound, RestoreBound
    <2> QED BY <2>1, <2>2
  <1> QED BY <1>1, <1>6, <1>7, <1>8 DEF Loads

LEMMA ReadableFollows == JournalInv => HistoryReadable
  <1> SUFFICES ASSUME JournalInv PROVE HistoryReadable
    OBVIOUS
  <1>1. ASSUME NEW now \in Times, Past(now), NEW k \in IntentKeys, Saved(k)
        PROVE  Loads(k, now)
    <2>1. PICK t \in Times : Loads(k, t)
      BY <1>1 DEF JournalInv, Loadable
    <2> QED BY <1>1, <2>1, LoadsLater DEF JournalInv
  <1> QED BY <1>1 DEF JournalInv, HistoryReadable, Past

LEMMA BoundFollows == JournalInv => RestoreStaysBound
  <1> SUFFICES ASSUME JournalInv, NEW k \in IntentKeys, Saved(k), intents[k].request.kind = "restore"
               PROVE  LET q == intents[k].request
                      IN /\ q.original \in IntentKeys /\ Saved(q.original)
                         /\ LET o == intents[q.original].request
                            IN /\ o.kind = "quarantine"
                               /\ o.finding = q.finding
                               /\ StateOf(history[q.original]) = "at_destination"
                               /\ q.source = o.destination /\ q.destination = o.source
                               /\ q.object.node = Target(q.finding).node
    BY DEF RestoreStaysBound
  <1> DEFINE q == intents[k].request
             o == intents[q.original].request
  <1>1. PICK t \in Times : Loads(k, t)
    BY DEF JournalInv, Loadable
  <1>2. RestoreBound(intents[k], t) /\ OriginalLoads(q.original, t)
    BY <1>1 DEF Loads, Bound, RestoreBound
  <1>3. /\ q.original \in IntentKeys /\ Saved(q.original) /\ o.kind = "quarantine"
        /\ o.object = Target(o.finding)
    BY <1>2 DEF OriginalLoads, QuarantineBound
  <1>4. /\ o.finding = q.finding /\ StateOf(history[q.original]) = "at_destination"
        /\ q.source = o.destination /\ q.destination = o.source
        /\ q.object.node = o.object.node
    BY <1>2 DEF RestoreBound
  <1> QED BY <1>3, <1>4

\* An attempt is the first event of its chain.
LEMMA AttemptFirst ==
  ASSUME JournalInv, NEW k \in IntentKeys, Saved(k), NEW n \in Nat, n >= 1,
         n <= Len(history[k]), history[k][n].request.kind = "attempt"
  PROVE  n = 1
  <1>1. PICK t \in Times : Loads(k, t)
    BY DEF JournalInv, Loadable
  <1>2. history[k] \in Seq(Events) /\ Len(history[k]) \in Nat
    BY DEF JournalInv, TypeOK
  <1>3. NextEvent(k, SubSeq(history[k], 1, n - 1), history[k][n].request)
    BY <1>1, <1>2 DEF Loads, ChainLoads
  <1>4. SubSeq(history[k], 1, n - 1) = <<>>
    BY <1>3 DEF NextEvent
  <1>5. Len(SubSeq(history[k], 1, n - 1)) = n - 1
    BY <1>2
  <1> QED BY <1>4, <1>5

\* A set whose members are all equal has at most one of them.
LEMMA AtMostOneElement ==
  ASSUME NEW S, \A a, b \in S : a = b
  PROVE  Cardinality(S) <= 1
  <1>1. S = {} => Cardinality(S) <= 1
    <2>1. Cardinality({}) = 0
      BY FS_EmptySet
    <2>2. Cardinality({}) <= 1
      BY <2>1
    <2> QED BY <2>2
  <1>2. S # {} => Cardinality(S) <= 1
    <2> SUFFICES ASSUME S # {} PROVE Cardinality(S) <= 1
      OBVIOUS
    <2>1. PICK a : a \in S
      OBVIOUS
    <2>2. S = {a}
      BY <2>1
    <2>3. Cardinality({a}) = 1
      BY FS_Singleton
    <2>4. Cardinality({a}) <= 1
      BY <2>3
    <2> QED BY <2>2, <2>4, Zenon
  <1> QED BY <1>1, <1>2

\* One attempt at most: the attempt is the first event of its intent, and the
\* intent of a finding and a kind is unique.
LEMMA AttemptFollows == JournalInv => OneAttempt
  <1> SUFFICES ASSUME JournalInv, NEW f \in Findings, NEW kind \in {"quarantine", "restore"}
               PROVE  Cardinality({a \in IntentKeys \X (1..EventLimit) :
                          /\ Saved(a[1]) /\ a[2] <= Len(history[a[1]])
                          /\ intents[a[1]].request.finding = f
                          /\ intents[a[1]].request.kind = kind
                          /\ history[a[1]][a[2]].request.kind = "attempt"}) <= 1
    BY DEF OneAttempt
  <1> DEFINE attempts == {a \in IntentKeys \X (1..EventLimit) :
                          /\ Saved(a[1]) /\ a[2] <= Len(history[a[1]])
                          /\ intents[a[1]].request.finding = f
                          /\ intents[a[1]].request.kind = kind
                          /\ history[a[1]][a[2]].request.kind = "attempt"}
  <1>1. \A a, b \in attempts : a = b
    <2> SUFFICES ASSUME NEW a \in attempts, NEW b \in attempts PROVE a = b
      OBVIOUS
    <2>1. a[1] \in IntentKeys /\ b[1] \in IntentKeys /\ a[2] \in Nat /\ b[2] \in Nat /\ a[2] >= 1 /\ b[2] >= 1
      BY LimitAssumption
    <2>2. a[1] = b[1]
      BY <2>1 DEF JournalInv, OneIntent
    <2>3. a[2] = 1 /\ b[2] = 1
      BY <2>1, AttemptFirst
    <2>4. a = <<a[1], a[2]>> /\ b = <<b[1], b[2]>>
      OBVIOUS
    <2> QED BY <2>2, <2>3, <2>4
  <1>2. Cardinality(attempts) <= 1
    <2> HIDE DEF attempts
    <2> QED BY <1>1, AtMostOneElement
  <1> QED BY <1>2

-----------------------------------------------------------------------------
(* The steps of a sampling check.                                          *)

\* The parts of a sequence put together from three.
LEMMA JoinedThree ==
  ASSUME NEW S, NEW s \in Seq(S), NEW w \in Seq(S), NEW a \in Seq(S),
         Len(s) = 3, Len(w) = 3, Len(a) = 2
  PROVE  /\ Len(s \o w) = 6 /\ Len((s \o w) \o a) = 8
         /\ \A i \in 1..8 : ((s \o w) \o a)[i] =
              IF i <= 3 THEN s[i] ELSE IF i <= 6 THEN w[i - 3] ELSE a[i - 6]
  <1>1. PICK g : g = s \o w
    OBVIOUS
  <1>2. /\ g \in Seq(S) /\ Len(g) = Len(s) + Len(w)
        /\ \A i \in 1..(Len(s) + Len(w)) : g[i] = IF i <= Len(s) THEN s[i] ELSE w[i - Len(s)]
    BY <1>1, ConcatProperties, Zenon
  <1>3. PICK h : h = g \o a
    OBVIOUS
  <1>4. /\ h \in Seq(S) /\ Len(h) = Len(g) + Len(a)
        /\ \A i \in 1..(Len(g) + Len(a)) : h[i] = IF i <= Len(g) THEN g[i] ELSE a[i - Len(g)]
    <2>1. g \in Seq(S)
      BY <1>2
    <2>2. /\ g \o a \in Seq(S) /\ Len(g \o a) = Len(g) + Len(a)
          /\ \A i \in 1..(Len(g) + Len(a)) : (g \o a)[i] = IF i <= Len(g) THEN g[i] ELSE a[i - Len(g)]
      BY <2>1, ConcatProperties, Zenon
    <2> QED BY <1>3, <2>2, Zenon
  <1>5. Len(g) = 6 /\ Len(h) = 8
    BY <1>2, <1>4
  <1>6. \A i \in 1..8 : h[i] = IF i <= 3 THEN s[i] ELSE IF i <= 6 THEN w[i - 3] ELSE a[i - 6]
    BY <1>2, <1>4, <1>5
  <1> QED BY <1>1, <1>3, <1>5, <1>6, Zenon

\* The steps of a sampling check: three of its eight read a window.
LEMMA SampleTable ==
  /\ Len(Gather["sample"]) = 6 /\ Len(Steps["sample"]) = 8
  /\ \A pc \in 1..8 : Steps["sample"][pc][1] = "window" <=> pc \in 4..6
  <1>1. Gather["sample"] = SampleOf("manifest") \o Windows("manifest")
    BY DEF Gather
  <1>2. Recheck["sample"] = SampleAgain("manifest")
    BY DEF Recheck
  <1>3. Steps["sample"] = Gather["sample"] \o Recheck["sample"]
    <2>1. "sample" \in DOMAIN Gather
      BY DEF Gather
    <2> QED BY <2>1 DEF Steps
  <1> DEFINE s == SampleOf("manifest") w == Windows("manifest") a == SampleAgain("manifest")
             Pairs == {"hold", "stat", "open", "window", "link", "still"} \X {"project", "manifest"}
  <1>p. \A op \in {"hold", "stat", "open", "window", "link", "still"}, n \in {"project", "manifest"} :
          <<op, n>> \in Pairs
    OBVIOUS
  <1> HIDE DEF Pairs
  <1>4. s \in Seq(Pairs) /\ Len(s) = 3
    BY <1>p DEF SampleOf
  <1>5. w \in Seq(Pairs) /\ Len(w) = 3
    BY <1>p DEF Windows
  <1>6. a \in Seq(Pairs) /\ Len(a) = 2
    BY <1>p DEF SampleAgain
  <1>a. s[1][1] = "hold" /\ s[2][1] = "stat" /\ s[3][1] = "open"
    BY DEF SampleOf
  <1>b. w[1][1] = "window" /\ w[2][1] = "window" /\ w[3][1] = "window"
    BY DEF Windows
  <1>c. a[1][1] = "link" /\ a[2][1] = "still"
    BY DEF SampleAgain
  <1> HIDE DEF s, w, a
  <1>7. Gather["sample"] = s \o w /\ Steps["sample"] = (s \o w) \o a
    BY <1>1, <1>2, <1>3 DEF s, w, a
  <1>8. PICK all : all = Steps["sample"]
    OBVIOUS
  <1>9. /\ Len(Gather["sample"]) = 6 /\ Len(all) = 8
        /\ \A i \in 1..8 : all[i] =
             IF i <= 3 THEN s[i] ELSE IF i <= 6 THEN w[i - 3] ELSE a[i - 6]
    <2>1. /\ s \in Seq(Pairs) /\ w \in Seq(Pairs) /\ a \in Seq(Pairs)
          /\ Len(s) = 3 /\ Len(w) = 3 /\ Len(a) = 2
      BY <1>4, <1>5, <1>6
    <2>2. /\ Len(s \o w) = 6 /\ Len((s \o w) \o a) = 8
          /\ \A i \in 1..8 : ((s \o w) \o a)[i] =
               IF i <= 3 THEN s[i] ELSE IF i <= 6 THEN w[i - 3] ELSE a[i - 6]
      BY <2>1, JoinedThree
    <2>3. all = (s \o w) \o a
      BY <1>7, <1>8
    <2>4. /\ Len(all) = 8
          /\ \A i \in 1..8 : all[i] = IF i <= 3 THEN s[i] ELSE IF i <= 6 THEN w[i - 3] ELSE a[i - 6]
      BY <2>2, <2>3, Zenon
    <2>5. Len(Gather["sample"]) = 6
      BY <1>7, <2>2, Zenon
    <2> QED BY <2>4, <2>5
  <1>10. ASSUME NEW pc \in 1..8 PROVE all[pc][1] = "window" <=> pc \in 4..6
    <2>1. pc = 1 \/ pc = 2 \/ pc = 3 \/ pc = 4 \/ pc = 5 \/ pc = 6 \/ pc = 7 \/ pc = 8
      OBVIOUS
    <2>2. /\ all[1] = s[1] /\ all[2] = s[2] /\ all[3] = s[3]
          /\ all[4] = w[1] /\ all[5] = w[2] /\ all[6] = w[3]
          /\ all[7] = a[1] /\ all[8] = a[2]
      BY <1>9
    <2> QED BY <1>a, <1>b, <1>c, <2>1, <2>2
  <1> QED BY <1>8, <1>9, <1>10, Zenon

-----------------------------------------------------------------------------
(* The ranges of a sample.                                                 *)

\* The three windows of a file of this size, and their places.
Width(size) == MinOf(size, Window)
Middle(size) == (size - Width(size)) \div 2
Span(from, to) == [offset |-> from, length |-> to - from]

\* Appending to one and to two ranges, and what Merge makes of them.
LEMMA AppendOne ==
  ASSUME NEW p, NEW c
  PROVE  Append(<<p>>, c) = <<p, c>>
  <1> DEFINE S == {p, c}
  <1>1. p \in S /\ c \in S
    OBVIOUS
  <1> HIDE DEF S
  <1>2. <<p>> \in Seq(S) /\ <<p, c>> \in Seq(S) /\ Len(<<p>>) = 1 /\ Len(<<p, c>>) = 2
    BY <1>1
  <1>3. /\ Append(<<p>>, c) \in Seq(S) /\ Len(Append(<<p>>, c)) = 2
        /\ Append(<<p>>, c)[1] = p /\ Append(<<p>>, c)[2] = c
    BY <1>1, <1>2
  <1>4. <<p, c>>[1] = p /\ <<p, c>>[2] = c
    OBVIOUS
  <1> DEFINE x == Append(<<p>>, c) y == <<p, c>>
  <1>5. x \in Seq(S) /\ y \in Seq(S) /\ Len(x) = 2 /\ Len(y) = 2 /\ x[1] = y[1] /\ x[2] = y[2]
    BY <1>2, <1>3, <1>4
  <1> HIDE DEF x, y
  <1>6. Len(x) = Len(y) /\ \A i \in 1..Len(x) : x[i] = y[i]
    BY <1>5
  <1>7. x = y
    BY <1>5, <1>6, SeqEqual
  <1> QED BY <1>7 DEF x, y

LEMMA AppendTwo ==
  ASSUME NEW p, NEW q, NEW c
  PROVE  Append(<<p, q>>, c) = <<p, q, c>>
  <1> DEFINE S == {p, q, c}
  <1>1. p \in S /\ c \in S /\ q \in S
    OBVIOUS
  <1> HIDE DEF S
  <1>2. <<p, q>> \in Seq(S) /\ <<p, q, c>> \in Seq(S) /\ Len(<<p, q>>) = 2 /\ Len(<<p, q, c>>) = 3
    BY <1>1
  <1>3. /\ Append(<<p, q>>, c) \in Seq(S) /\ Len(Append(<<p, q>>, c)) = 3
        /\ Append(<<p, q>>, c)[1] = p /\ Append(<<p, q>>, c)[2] = q /\ Append(<<p, q>>, c)[3] = c
    BY <1>1, <1>2
  <1>4. <<p, q, c>>[1] = p /\ <<p, q, c>>[2] = q /\ <<p, q, c>>[3] = c
    OBVIOUS
  <1> DEFINE x == Append(<<p, q>>, c) y == <<p, q, c>>
  <1>5. /\ x \in Seq(S) /\ y \in Seq(S) /\ Len(x) = 3 /\ Len(y) = 3
        /\ x[1] = y[1] /\ x[2] = y[2] /\ x[3] = y[3]
    BY <1>2, <1>3, <1>4
  <1> HIDE DEF x, y
  <1>6. Len(x) = Len(y) /\ \A i \in 1..Len(x) : x[i] = y[i]
    BY <1>5
  <1>7. x = y
    BY <1>5, <1>6, SeqEqual
  <1> QED BY <1>7 DEF x, y

LEMMA MergeOne ==
  ASSUME NEW p, NEW c
  PROVE  Merge(<<p>>, c) =
           IF c.offset <= p.offset + p.length
           THEN <<[p EXCEPT !.length = MaxOf(p.offset + p.length, c.offset + c.length) - p.offset]>>
           ELSE <<p, c>>
  <1>1. Len(<<p>>) = 1 /\ <<p>>[1] = p /\ <<p>> # <<>>
    OBVIOUS
  <1>2. Append(<<p>>, c) = <<p, c>>
    BY AppendOne
  <1>3. \A x : [<<p>> EXCEPT ![1] = x] = <<x>>
    OBVIOUS
  <1> QED BY <1>1, <1>2, <1>3 DEF Merge

LEMMA MergeTwo ==
  ASSUME NEW q, NEW p, NEW c
  PROVE  Merge(<<q, p>>, c) =
           IF c.offset <= p.offset + p.length
           THEN <<q, [p EXCEPT !.length = MaxOf(p.offset + p.length, c.offset + c.length) - p.offset]>>
           ELSE <<q, p, c>>
  <1>1. Len(<<q, p>>) = 2 /\ <<q, p>>[2] = p /\ <<q, p>> # <<>>
    OBVIOUS
  <1>2. Append(<<q, p>>, c) = <<q, p, c>>
    BY AppendTwo
  <1>3. \A x : [<<q, p>> EXCEPT ![2] = x] = <<q, x>>
    OBVIOUS
  <1> QED BY <1>1, <1>2, <1>3 DEF Merge

\* The four shapes of the sample, by which of the windows meet.
LEMMA RangeShapes ==
  ASSUME NEW size \in Nat, size > 0,
         NEW width \in Nat, width = Width(size), NEW mid \in Nat, mid = Middle(size)
  PROVE  FileSampleRanges(size) =
           IF mid <= width
           THEN IF size - width <= mid + width THEN <<Span(0, size)>>
                ELSE <<Span(0, mid + width), Span(size - width, size)>>
           ELSE IF size - width <= mid + width THEN <<Span(0, width), Span(mid, size)>>
                ELSE <<Span(0, width), Span(mid, mid + width), Span(size - width, size)>>
  <1> DEFINE a == [offset |-> 0, length |-> width]
             b == [offset |-> mid, length |-> width]
             c == [offset |-> size - width, length |-> width]
  <1>1. FileSampleRanges(size) = Merge(Merge(<<a>>, b), c)
    BY DEF FileSampleRanges, Width, Middle
  <1>2. width \in Nat /\ width > 0 /\ width <= size
    BY WindowAssumption DEF Width, MinOf
  <1>3. 2 * mid <= size - width
    BY <1>2 DEF Middle, Width
  <1>a. a = Span(0, width) /\ b = Span(mid, mid + width) /\ c = Span(size - width, size)
    BY <1>2 DEF Span
  <1> HIDE DEF a, b, c
  <1>b. /\ a.offset = 0 /\ a.length = width /\ b.offset = mid /\ b.length = width
        /\ c.offset = size - width /\ c.length = width
    BY DEF a, b, c
  <1>4. CASE mid <= width
    <2> DEFINE p == Span(0, mid + width)
    <2>1. Merge(<<a>>, b) = <<p>>
      <3>1. MaxOf(0 + width, mid + width) - 0 = mid + width
        BY <1>2 DEF MaxOf
      <3>2. [a EXCEPT !.length = mid + width] = p
        BY DEF a, Span
      <3>3. b.offset <= a.offset + a.length
        BY <1>2, <1>4, <1>b
      <3>4. MaxOf(a.offset + a.length, b.offset + b.length) - a.offset = mid + width
        BY <1>b, <3>1
      <3> HIDE DEF p
      <3> QED BY <3>2, <3>3, <3>4, MergeOne
    <2>p. p.offset = 0 /\ p.length = mid + width
      BY <1>2 DEF Span
    <2>2. CASE size - width <= mid + width
      <3>1. MaxOf(0 + (mid + width), (size - width) + width) - 0 = size
        BY <1>2, <1>3 DEF MaxOf
      <3>2. [p EXCEPT !.length = size] = Span(0, size)
        BY DEF Span
      <3> HIDE DEF p
      <3>3. c.offset <= p.offset + p.length
        BY <1>2, <1>b, <2>2, <2>p
      <3>4. Merge(<<p>>, c) = <<Span(0, size)>>
        BY <1>b, <2>p, <3>1, <3>2, <3>3, MergeOne
      <3> QED BY <1>1, <1>4, <2>1, <2>2, <3>4
    <2>3. CASE ~(size - width <= mid + width)
      <3> HIDE DEF p
      <3>1. Merge(<<p>>, c) = <<p, c>>
        <4>1. ~(c.offset <= p.offset + p.length)
          BY <1>2, <1>b, <2>3, <2>p
        <4> QED BY <4>1, MergeOne
      <3> QED BY <1>1, <1>4, <1>a, <2>1, <2>3, <3>1 DEF p
    <2> QED BY <2>2, <2>3
  <1>5. CASE ~(mid <= width)
    <2>1. Merge(<<a>>, b) = <<a, b>>
      <3>1. ~(b.offset <= a.offset + a.length)
        BY <1>2, <1>5, <1>b
      <3> QED BY <3>1, MergeOne
    <2>2. CASE size - width <= mid + width
      <3>1. MaxOf(mid + width, (size - width) + width) - mid = size - mid
        BY <1>2, <1>3 DEF MaxOf
      <3>2. [b EXCEPT !.length = size - mid] = Span(mid, size)
        BY DEF b, Span
      <3>3. Merge(<<a, b>>, c) = <<a, Span(mid, size)>>
        <4>1. c.offset <= b.offset + b.length
          BY <1>2, <1>b, <2>2
        <4>2. MaxOf(b.offset + b.length, c.offset + c.length) - b.offset = size - mid
          BY <1>b, <3>1
        <4> QED BY <3>2, <4>1, <4>2, MergeTwo
      <3> QED BY <1>1, <1>5, <1>a, <2>1, <2>2, <3>3
    <2>3. CASE ~(size - width <= mid + width)
      <3>1. Merge(<<a, b>>, c) = <<a, b, c>>
        BY <1>2, <1>b, <2>3, MergeTwo
      <3> QED BY <1>1, <1>5, <1>a, <2>1, <2>3, <3>1
    <2> QED BY <2>2, <2>3
  <1> QED BY <1>4, <1>5

\* The bytes of a range, and those of the three windows.
Bytes(r) == r.offset..(r.offset + r.length - 1)
InWindows(x, size) ==
  \/ x \in 0..(Width(size) - 1)
  \/ x \in Middle(size)..(Middle(size) + Width(size) - 1)
  \/ x \in (size - Width(size))..(size - 1)

\* What the ranges of a file of this size are.
RangesOf(ranges, size) ==
  /\ Len(ranges) \in 0..3
  /\ \A i \in 1..Len(ranges) :
        /\ ranges[i].offset \in Nat /\ ranges[i].length \in Nat \ {0}
        /\ ranges[i].offset + ranges[i].length <= size
        /\ \A x \in Bytes(ranges[i]) : InWindows(x, size)
  /\ \A i, j \in 1..Len(ranges) :
        i < j => ranges[i].offset + ranges[i].length < ranges[j].offset
  /\ \A x \in {0, (size - 1) \div 2, size - 1} :
        size > 0 => \E i \in 1..Len(ranges) : x \in Bytes(ranges[i])

LEMMA SpanFields ==
  ASSUME NEW from \in Nat, NEW to \in Nat
  PROVE  /\ Span(from, to).offset = from /\ Span(from, to).length = to - from
         /\ Bytes(Span(from, to)) = from..(to - 1)
  BY DEF Span, Bytes

\* fileSampleRanges is sound, shape by shape.
LEMMA RangesSound ==
  ASSUME NEW size \in Nat
  PROVE  RangesOf(FileSampleRanges(size), size)
  <1>1. CASE size = 0
    <2>1. FileSampleRanges(size) = <<>>
      BY <1>1 DEF FileSampleRanges
    <2> QED BY <1>1, <2>1 DEF RangesOf
  <1>2. CASE size > 0
    <2>1. PICK width \in Nat : width = Width(size)
      BY WindowAssumption DEF Width, MinOf
    <2>2. width > 0 /\ width <= size
      BY <1>2, <2>1, WindowAssumption DEF Width, MinOf
    <2>3. PICK mid \in Nat : mid = Middle(size)
      BY <2>1, <2>2 DEF Middle
    <2>4. 2 * mid <= size - width /\ size - width <= 2 * mid + 1
      BY <2>1, <2>2, <2>3 DEF Middle
    <2>5. PICK half \in Nat : half = (size - 1) \div 2
      BY <1>2
    <2>6. 2 * half <= size - 1 /\ size - 1 <= 2 * half + 1
      BY <1>2, <2>5
    <2>7. mid <= half /\ half < mid + width
      BY <2>2, <2>4, <2>6
    <2>w. \A x : InWindows(x, size) <=>
             \/ x \in 0..(width - 1) \/ x \in mid..(mid + width - 1) \/ x \in (size - width)..(size - 1)
      BY <2>1, <2>3 DEF InWindows
    <2>8. CASE mid <= width /\ size - width <= mid + width
      <3>1. FileSampleRanges(size) = <<Span(0, size)>>
        BY <1>2, <2>1, <2>3, <2>8, RangeShapes
      <3>2. Span(0, size).offset = 0 /\ Span(0, size).length = size /\ Bytes(Span(0, size)) = 0..(size - 1)
        BY SpanFields
      <3> PICK r : r = Span(0, size)
        OBVIOUS
      <3>3. RangesOf(<<r>>, size)
        <4>1. Len(<<r>>) = 1 /\ <<r>>[1] = r
          OBVIOUS
        <4>2. \A x \in 0..(size - 1) : InWindows(x, size)
          BY <2>2, <2>4, <2>8, <2>w
        <4>3. {0, half, size - 1} \subseteq 0..(size - 1)
          BY <1>2, <2>6
        <4> QED BY <1>2, <2>5, <3>2, <4>1, <4>2, <4>3 DEF RangesOf
      <3> QED BY <3>1, <3>3
    <2>9. CASE mid <= width /\ ~(size - width <= mid + width)
      <3>1. FileSampleRanges(size) = <<Span(0, (mid + width)), Span((size - width), size)>>
        BY <1>2, <2>1, <2>3, <2>9, RangeShapes
      <3>0. 0 \in Nat /\ (mid + width) \in Nat /\ (size - width) \in Nat /\ size \in Nat
        BY <2>2
      <3> PICK r : r = Span(0, (mid + width))
        OBVIOUS
      <3> PICK q : q = Span((size - width), size)
        OBVIOUS
      <3>2. /\ r.offset = 0 /\ r.length = (mid + width) - 0 /\ Bytes(r) = 0..((mid + width) - 1)
            /\ q.offset = (size - width) /\ q.length = size - (size - width) /\ Bytes(q) = (size - width)..(size - 1)
        BY <3>0, SpanFields
      <3>3. RangesOf(<<r, q>>, size)
        <4>1. Len(<<r, q>>) = 2 /\ <<r, q>>[1] = r /\ <<r, q>>[2] = q
          OBVIOUS
        <4>2. \A x \in Bytes(r) \cup Bytes(q) : InWindows(x, size)
          BY <2>2, <2>4, <2>9, <2>w, <3>2
        <4>3. {0, half, size - 1} \subseteq Bytes(r) \cup Bytes(q)
          BY <1>2, <2>2, <2>4, <2>6, <2>7, <2>9, <3>2
        <4>4. /\ r.length \in Nat \ {0} /\ q.length \in Nat \ {0} /\ r.offset \in Nat /\ q.offset \in Nat
              /\ r.offset + r.length <= size /\ q.offset + q.length <= size
              /\ r.offset + r.length < q.offset
          BY <2>2, <2>4, <2>9, <3>0, <3>2
        <4> QED BY <1>2, <2>5, <4>1, <4>2, <4>3, <4>4 DEF RangesOf
      <3> QED BY <3>1, <3>3
    <2>10. CASE ~(mid <= width) /\ size - width <= mid + width
      <3>1. FileSampleRanges(size) = <<Span(0, width), Span(mid, size)>>
        BY <1>2, <2>1, <2>3, <2>10, RangeShapes
      <3>0. 0 \in Nat /\ width \in Nat /\ mid \in Nat /\ size \in Nat
        BY <2>2
      <3> PICK r : r = Span(0, width)
        OBVIOUS
      <3> PICK q : q = Span(mid, size)
        OBVIOUS
      <3>2. /\ r.offset = 0 /\ r.length = width - 0 /\ Bytes(r) = 0..(width - 1)
            /\ q.offset = mid /\ q.length = size - mid /\ Bytes(q) = mid..(size - 1)
        BY <3>0, SpanFields
      <3>3. RangesOf(<<r, q>>, size)
        <4>1. Len(<<r, q>>) = 2 /\ <<r, q>>[1] = r /\ <<r, q>>[2] = q
          OBVIOUS
        <4>2. \A x \in Bytes(r) \cup Bytes(q) : InWindows(x, size)
          BY <2>2, <2>4, <2>10, <2>w, <3>2
        <4>3. {0, half, size - 1} \subseteq Bytes(r) \cup Bytes(q)
          BY <1>2, <2>2, <2>4, <2>6, <2>7, <2>10, <3>2
        <4>4. /\ r.length \in Nat \ {0} /\ q.length \in Nat \ {0} /\ r.offset \in Nat /\ q.offset \in Nat
              /\ r.offset + r.length <= size /\ q.offset + q.length <= size
              /\ r.offset + r.length < q.offset
          BY <2>2, <2>4, <2>10, <3>0, <3>2
        <4> QED BY <1>2, <2>5, <4>1, <4>2, <4>3, <4>4 DEF RangesOf
      <3> QED BY <3>1, <3>3
    <2>11. CASE ~(mid <= width) /\ ~(size - width <= mid + width)
      <3>1. FileSampleRanges(size) = <<Span(0, width), Span(mid, mid + width), Span(size - width, size)>>
        BY <1>2, <2>1, <2>3, <2>11, RangeShapes
      <3>0. mid + width \in Nat /\ size - width \in Nat
        BY <2>2
      <3> PICK r : r = Span(0, width)
        OBVIOUS
      <3> PICK q : q = Span(mid, mid + width)
        OBVIOUS
      <3> PICK p : p = Span(size - width, size)
        OBVIOUS
      <3>2. /\ r.offset = 0 /\ r.length = width - 0 /\ Bytes(r) = 0..(width - 1)
            /\ q.offset = mid /\ q.length = (mid + width) - mid /\ Bytes(q) = mid..(mid + width - 1)
            /\ p.offset = size - width /\ p.length = size - (size - width)
            /\ Bytes(p) = (size - width)..(size - 1)
        <4>1. r.offset = 0 /\ r.length = width - 0 /\ Bytes(r) = 0..(width - 1)
          BY SpanFields
        <4>2. q.offset = mid /\ q.length = (mid + width) - mid /\ Bytes(q) = mid..(mid + width - 1)
          <5> PICK end \in Nat : end = mid + width
            BY <3>0
          <5>1. q.offset = mid /\ q.length = end - mid /\ Bytes(q) = mid..(end - 1)
            BY SpanFields
          <5> QED BY <5>1
        <4>3. /\ p.offset = size - width /\ p.length = size - (size - width)
              /\ Bytes(p) = (size - width)..(size - 1)
          BY <3>0, SpanFields
        <4> QED BY <4>1, <4>2, <4>3
      <3>3. RangesOf(<<r, q, p>>, size)
        <4>1. Len(<<r, q, p>>) = 3 /\ <<r, q, p>>[1] = r /\ <<r, q, p>>[2] = q /\ <<r, q, p>>[3] = p
          OBVIOUS
        <4>2. \A x \in Bytes(r) \cup Bytes(q) \cup Bytes(p) : InWindows(x, size)
          BY <2>w, <3>2
        <4>3. {0, half, size - 1} \subseteq Bytes(r) \cup Bytes(q) \cup Bytes(p)
          BY <1>2, <2>2, <2>4, <2>6, <2>7, <2>11, <3>2
        <4>4. /\ r.length \in Nat \ {0} /\ q.length \in Nat \ {0} /\ p.length \in Nat \ {0}
              /\ r.offset \in Nat /\ q.offset \in Nat /\ p.offset \in Nat
              /\ r.offset + r.length <= size /\ q.offset + q.length <= size /\ p.offset + p.length <= size
              /\ r.offset + r.length < q.offset /\ q.offset + q.length < p.offset
              /\ r.offset + r.length < p.offset
          BY <2>2, <2>4, <2>11, <3>0, <3>2
        <4> QED BY <1>2, <2>5, <4>1, <4>2, <4>3, <4>4 DEF RangesOf
      <3> QED BY <3>1, <3>3
    <2> QED BY <2>8, <2>9, <2>10, <2>11
  <1> QED BY <1>1, <1>2

-----------------------------------------------------------------------------
(* The windows a sample has read.                                          *)

WindowsRead(pc, size) ==
  IF pc <= 4 THEN 0 ELSE MinOf(MinOf(pc - 4, 3), Len(FileSampleRanges(size)))

\* The place of a sampling check says how many ranges it has read.
CheckInv ==
  /\ DOMAIN check = DOMAIN Blank
  /\ check.mode = "sample" /\ check.result \in {"running", "observed"} =>
        /\ check.size \in Nat
        /\ check.pc \in 1..9
        /\ check.pc = 9 <=> check.result = "observed"
        /\ check.read = WindowsRead(check.pc, check.size)

\* What a step changes in the record of the check besides its evidence.
Plain(k) ==
  /\ DOMAIN k = DOMAIN Blank
  /\ k.mode = check.mode /\ k.pc = check.pc /\ k.result = check.result
  /\ k.size = check.size

LEMMA PassKeeps ==
  ASSUME CheckInv, Running, NEW k, Plain(k), Pass(k),
         check.mode = "sample" =>
            k.read = IF Step[1] = "window" /\ check.read < Len(FileSampleRanges(check.size))
                     THEN check.read + 1 ELSE check.read
  PROVE  CheckInv'
  <1> USE DEF Plain
  <1>1. /\ DOMAIN check' = DOMAIN Blank /\ check'.mode = k.mode /\ check'.size = k.size
        /\ check'.read = k.read /\ check'.pc = k.pc + 1
        /\ check'.result = IF k.pc = Len(Steps[k.mode]) THEN "observed" ELSE k.result
    BY DEF Pass, Blank
  <1>2. ASSUME check.mode = "sample"
        PROVE  /\ check'.size \in Nat /\ check'.pc \in 1..9
               /\ check'.pc = 9 <=> check'.result = "observed"
               /\ check'.read = WindowsRead(check'.pc, check'.size)
    <2>1. /\ check.size \in Nat /\ check.pc \in 1..8 /\ check.result = "running"
          /\ check.read = WindowsRead(check.pc, check.size)
      BY <1>2 DEF CheckInv, Running
    <2>2. PICK n \in 0..3 : n = Len(FileSampleRanges(check.size))
      BY <2>1, RangesSound DEF RangesOf
    <2>3. Len(Steps["sample"]) = 8 /\ (Step[1] = "window" <=> check.pc \in 4..6)
      BY <1>2, <2>1, SampleTable DEF Step
    <2>4. check'.pc = 9 <=> check'.result = "observed"
      BY <1>1, <1>2, <2>1, <2>3
    <2>5. k.read = IF check.pc \in 4..6 /\ check.read < n THEN check.read + 1 ELSE check.read
      BY <1>2, <2>2, <2>3
    <2>6. check.read = IF check.pc <= 4 THEN 0 ELSE MinOf(MinOf(check.pc - 4, 3), n)
      BY <2>1, <2>2 DEF WindowsRead
    <2>7. k.read = IF check.pc + 1 <= 4 THEN 0 ELSE MinOf(MinOf(check.pc + 1 - 4, 3), n)
      BY <2>1, <2>2, <2>5, <2>6 DEF MinOf
    <2> QED BY <1>1, <2>1, <2>2, <2>4, <2>7, SMTT(60) DEF WindowsRead
  <1> QED BY <1>1, <1>2 DEF CheckInv

LEMMA BlockKeeps ==
  ASSUME NEW r \in {"blocked", "cancelled"}, Block(r)
  PROVE  CheckInv'
  <1>1. DOMAIN check' = DOMAIN Blank /\ check'.result = r
    BY DEF Block, Blank
  <1> QED BY <1>1 DEF CheckInv

LEMMA FailKeeps ==
  ASSUME CheckInv, Running, NEW n, Fail(n)
  PROVE  CheckInv'
  <1>1. CASE check.mode = "recovery"
    <2> DEFINE k == [check EXCEPT !.lost = @ \cup {n}, !.at = Without(Without(@, n), Within[n])]
    <2>1. Plain(k) /\ Pass(k)
      BY <1>1 DEF Plain, CheckInv, Fail, Blank
    <2> HIDE DEF k
    <2> QED BY <1>1, <2>1, PassKeeps
  <1>2. CASE check.mode # "recovery"
    BY <1>2, BlockKeeps DEF Fail
  <1> QED BY <1>1, <1>2

LEMMA TestKeeps ==
  ASSUME CheckInv, Running, NEW ok, NEW k, Plain(k), Test(ok, k), Step[1] # "window",
         k.read = check.read
  PROVE  CheckInv'
  <1>1. CASE Pass(k)
    BY <1>1, PassKeeps
  <1>2. CASE Fail(Name)
    BY <1>2, FailKeeps
  <1> QED BY <1>1, <1>2 DEF Test

LEMMA FieldsKept ==
  ASSUME CheckInv, NEW v, NEW w, NEW x, NEW y
  PROVE  \A k \in {check, [check EXCEPT !.at = v], [check EXCEPT !.got = v], [check EXCEPT !.cur = v],
                   [check EXCEPT !.list = v], [check EXCEPT !.at = v, !.got = w],
                   [check EXCEPT !.cur = v, !.list = w, !.root = x]} :
            Plain(k) /\ k.read = check.read
  BY DEF CheckInv, Plain, Blank

LEMMA VisitTestKeeps ==
  ASSUME CheckInv, Running, NEW ok, NEW k, Plain(k), VisitTest(ok, k), Step[1] # "window",
         k.read = check.read
  PROVE  CheckInv'
  <1>1. Plain(check)
    BY FieldsKept
  <1>2. CASE Pass(check)
    BY <1>1, <1>2, PassKeeps
  <1> QED BY <1>2, TestKeeps DEF VisitTest

LEMMA LocationTestKeeps ==
  ASSUME CheckInv, Running, NEW ok, NEW k, Plain(k), LocationTest(ok, k), Step[1] # "window",
         k.read = check.read
  PROVE  CheckInv'
  <1>1. Plain(check)
    BY FieldsKept
  <1>2. CASE Pass(check)
    BY <1>1, <1>2, PassKeeps
  <1> QED BY <1>2, TestKeeps DEF LocationTest

LEMMA BeginKeeps ==
  ASSUME CheckInv, NEW mode \in Modes, Begin(mode)
  PROVE  CheckInv'
  <1>1. PICK size \in Sizes : check' = [Blank EXCEPT !.mode = mode, !.result = "running", !.size = size]
    BY DEF Begin
  <1>2. /\ DOMAIN check' = DOMAIN Blank /\ check'.result = "running" /\ check'.size \in Nat
        /\ check'.pc = 1 /\ check'.read = 0
    BY <1>1, WindowAssumption DEF Blank
  <1> QED BY <1>2 DEF CheckInv, WindowsRead

LEMMA ReadWindowKeeps ==
  ASSUME CheckInv, ReadWindow
  PROVE  CheckInv'
  <1>0. Running /\ Step[1] = "window"
    BY DEF ReadWindow, At
  <1>1. CASE check.read < Len(FileSampleRanges(check.size))
    <2> DEFINE k == [check EXCEPT !.read = @ + 1,
                               !.got = With(@, Name, GotOf(Name) \cup {StampOf(AtOf(Name).object)})]
    <2>1. Plain(k) /\ k.read = check.read + 1
      BY DEF CheckInv, Plain, Blank
    <2>2. Pass(k)
      BY <1>1 DEF ReadWindow
    <2> HIDE DEF k
    <2> QED BY <1>0, <1>1, <2>1, <2>2, PassKeeps
  <1>2. CASE ~(check.read < Len(FileSampleRanges(check.size)))
    <2>1. Plain(check) /\ Pass(check)
      BY <1>2, FieldsKept DEF ReadWindow
    <2> QED BY <1>0, <1>2, <2>1, PassKeeps
  <1> QED BY <1>1, <1>2

\* Every lookup of a check keeps its place and its windows in step.
LEMMA LookupKeeps ==
  ASSUME CheckInv,
         \/ Hold \/ ManifestStamp \/ Link \/ CheckHints \/ Stat \/ Open \/ Read \/ Still \/ Analyze
         \/ Look \/ Enter \/ ListNames \/ Add \/ ReadText \/ Named \/ Leave \/ ValidateLinks
         \/ OpenRecoveryChain \/ Probe \/ ProbeAgain \/ RecheckRecoveryChain
  PROVE  CheckInv'
  <1>0. Plain(check)
    BY FieldsKept
  <1>1. CASE Hold
    BY <1>1, FieldsKept, TestKeeps DEF Hold, At
  <1>2. CASE ManifestStamp
    BY <1>2, FieldsKept, TestKeeps DEF ManifestStamp, At
  <1>3. CASE Link \/ CheckHints \/ Open \/ Still
    BY <1>0, <1>3, TestKeeps DEF Link, CheckHints, Open, Still, At
  <1>4. CASE Stat
    BY <1>4, FieldsKept, TestKeeps DEF Stat, At
  <1>5. CASE Read
    BY <1>5, FieldsKept, PassKeeps DEF Read, At
  <1>6. CASE Analyze
    BY <1>0, <1>6, PassKeeps DEF Analyze, At
  <1>7. CASE Look
    BY <1>7, FieldsKept, VisitTestKeeps DEF Look, At
  <1>8. CASE Enter
    <2>1. CASE Name = "target"
      BY <1>8, <2>1, FieldsKept, TestKeeps, ZenonT(60) DEF Enter, At
    <2>2. CASE Name # "target"
      BY <1>8, <2>2, FieldsKept, VisitTestKeeps DEF Enter, At
    <2> QED BY <2>1, <2>2
  <1>9. CASE ListNames
    BY <1>9, FieldsKept, VisitTestKeeps DEF ListNames, At
  <1>10. CASE Add
    BY <1>10, FieldsKept, VisitTestKeeps DEF Add, At
  <1>11. CASE ReadText
    <2> DEFINE k == [check EXCEPT !.at = With(@, Name, check.cur[Name]), !.got = With(@, Name, {Looked(Name)})]
               ok == /\ Kind(Looked(Name).object) = "link"
                     /\ SameRecord(Name, check.cur[Name])
                     /\ Again => Looked(Name) \in GotOf(Name)
    <2>1. Running /\ Step[1] # "window" /\ VisitTest(ok, k)
      BY <1>11 DEF ReadText, At
    <2>2. Plain(k) /\ k.read = check.read
      BY FieldsKept
    <2> HIDE DEF k, ok
    <2> QED BY <2>1, <2>2, VisitTestKeeps
  <1>12. CASE Named \/ Leave
    BY <1>0, <1>12, VisitTestKeeps DEF Named, Leave, At
  <1>13. CASE ValidateLinks
    BY <1>0, <1>13, TestKeeps DEF ValidateLinks, At
  <1>14. CASE OpenRecoveryChain
    BY <1>14, FieldsKept, LocationTestKeeps DEF OpenRecoveryChain, At
  <1>15. CASE Probe
    BY <1>15, FieldsKept, LocationTestKeeps DEF Probe, At
  <1>16. CASE ProbeAgain \/ RecheckRecoveryChain
    <2>1. Running /\ Step[1] # "window" /\ \E ok \in BOOLEAN : LocationTest(ok, check)
      BY <1>16 DEF ProbeAgain, RecheckRecoveryChain, At, StillNamed
    <2> QED BY <1>0, <2>1, LocationTestKeeps
  <1> QED BY <1>1, <1>2, <1>3, <1>4, <1>5, <1>6, <1>7, <1>8, <1>9, <1>10, <1>11, <1>12,
             <1>13, <1>14, <1>15, <1>16

LEMMA CheckStep == CheckInv /\ [LiveNext]_<<vars, liveVars>> => CheckInv'
  <1> SUFFICES ASSUME CheckInv, [LiveNext]_<<vars, liveVars>> PROVE CheckInv'
    OBVIOUS
  <1>1. CASE UNCHANGED check
    BY <1>1 DEF CheckInv
  <1>2. ASSUME NEW mode \in Modes, Begin(mode) PROVE CheckInv'
    BY <1>2, BeginKeeps
  <1>3. CASE Refuse
    <2>1. CASE Fail(Name)
      BY <1>3, <2>1, FailKeeps DEF Refuse
    <2> QED BY <1>3, <2>1, BlockKeeps DEF Refuse
  <1>4. CASE ReadWindow
    BY <1>4, ReadWindowKeeps
  <1>5. ASSUME LiveStep PROVE CheckInv'
    <2>1. ASSUME NEW os, Changed(os) PROVE CheckInv'
      BY <1>1, <2>1 DEF Changed
    <2>2. ASSUME NEW o \in 1..Len(objects), Write(o) PROVE CheckInv'
      BY <2>1, <2>2 DEF Write
    <2>3. ASSUME NEW n \in Removals, NEW d \in Holders(n), Remove(d, n) PROVE CheckInv'
      BY <2>1, <2>3 DEF Remove
    <2>4. ASSUME NEW p \in Replacements, NEW d \in Holders(p[1]), Put(d, p[1], p[2]) PROVE CheckInv'
      BY <2>1, <2>4 DEF Put
    <2>5. ASSUME NEW n, NEW m, NEW d, NEW e, Move(d, n, e, m) PROVE CheckInv'
      BY <2>1, <2>5 DEF Move
    <2> QED BY <1>2, <1>3, <1>4, <1>5, <2>2, <2>3, <2>4, <2>5, LookupKeeps DEF LiveStep
  <1>6. ASSUME NEW e, NEW checked, CaptureReport(e, checked) PROVE CheckInv'
    BY <1>6 DEF CaptureReport, CheckInv, Blank
  <1>7. ASSUME NEW checked, CompareObservation(checked) PROVE CheckInv'
    <2>1. check'.mode = "tree" /\ DOMAIN check' = DOMAIN Blank
      BY <1>7 DEF CompareObservation, CheckInv, Blank
    <2> QED BY <2>1 DEF CheckInv
  <1>8. CASE Close
    BY <1>8 DEF Close, CheckInv, Blank
  <1> QED BY <1>1, <1>5, <1>6, <1>7, <1>8 DEF LiveNext, liveVars

\* Three windows hold at most three times a window.
LEMMA WindowsBounded ==
  ASSUME NEW size \in Nat, NEW all, \A x \in all : InWindows(x, size)
  PROVE  Cardinality(all) <= 3 * Window
  <1>1. PICK width \in Nat : width = Width(size)
    BY WindowAssumption DEF Width, MinOf
  <1>2. width <= size /\ width <= Window /\ Window \in Nat
    BY <1>1, WindowAssumption DEF Width, MinOf
  <1>3. PICK mid \in Nat : mid = Middle(size)
    BY <1>1, <1>2 DEF Middle
  <1> DEFINE A == 0..(width - 1)
             B == mid..(mid + width - 1)
             C == (size - width)..(size - 1)
  <1>4. /\ IsFiniteSet(A) /\ Cardinality(A) = width
        /\ IsFiniteSet(B) /\ Cardinality(B) = width
        /\ IsFiniteSet(C) /\ Cardinality(C) = width
    <2>1. IsFiniteSet(A) /\ Cardinality(A) = IF 0 > width - 1 THEN 0 ELSE (width - 1) - 0 + 1
      BY FS_Interval
    <2>2. IsFiniteSet(B) /\ Cardinality(B) = IF mid > mid + width - 1 THEN 0 ELSE (mid + width - 1) - mid + 1
      <3> PICK end \in Int : end = mid + width - 1
        OBVIOUS
      <3> QED BY FS_Interval
    <2>3. IsFiniteSet(C) /\ Cardinality(C) = IF size - width > size - 1 THEN 0 ELSE (size - 1) - (size - width) + 1
      <3> PICK start \in Int, end \in Int : start = size - width /\ end = size - 1
        OBVIOUS
      <3> QED BY FS_Interval
    <2> HIDE DEF A, B, C
    <2> QED BY <1>2, <2>1, <2>2, <2>3
  <1>5. all \subseteq (A \cup B) \cup C
    BY <1>1, <1>3 DEF InWindows
  <1> HIDE DEF A, B, C
  <1>6. IsFiniteSet(A \cup B) /\ Cardinality(A \cup B) <= 2 * width
    <2>1. IsFiniteSet(A \cap B)
      BY <1>4, FS_Subset
    <2>2. Cardinality(A \cap B) \in Nat
      BY <2>1, FS_CardinalityType
    <2>3. /\ IsFiniteSet(A \cup B)
          /\ Cardinality(A \cup B) = Cardinality(A) + Cardinality(B) - Cardinality(A \cap B)
      BY <1>4, FS_Union, Zenon
    <2>4. PICK c \in Nat : c = Cardinality(A \cap B)
      BY <2>2
    <2>5. Cardinality(A \cup B) = width + width - c
      BY <1>4, <2>3, <2>4, Zenon
    <2> QED BY <2>3, <2>5
  <1>7. IsFiniteSet((A \cup B) \cup C) /\ Cardinality((A \cup B) \cup C) <= 3 * width
    <2> DEFINE D == A \cup B
    <2>1. IsFiniteSet(D) /\ Cardinality(D) <= 2 * width /\ Cardinality(D) \in Nat
      BY <1>6, FS_CardinalityType
    <2> HIDE DEF D
    <2>2. IsFiniteSet(D \cap C)
      BY <2>1, FS_Subset
    <2>3. Cardinality(D \cap C) \in Nat
      BY <2>2, FS_CardinalityType
    <2>4. IsFiniteSet(D \cup C) /\ Cardinality(D \cup C) <= 3 * width
      <3>1. /\ IsFiniteSet(D \cup C)
            /\ Cardinality(D \cup C) = Cardinality(D) + Cardinality(C) - Cardinality(D \cap C)
        BY <1>4, <2>1, FS_Union, Zenon
      <3>2. PICK c \in Nat, d \in Nat : c = Cardinality(D \cap C) /\ d = Cardinality(D)
        BY <2>1, <2>3
      <3>3. Cardinality(D \cup C) = d + width - c
        BY <1>4, <3>1, <3>2, Zenon
      <3> QED BY <2>1, <3>1, <3>2, <3>3
    <2> QED BY <2>4 DEF D
  <1>8. IsFiniteSet(all) /\ Cardinality(all) <= Cardinality((A \cup B) \cup C)
    BY <1>5, <1>7, FS_Subset
  <1>9. Cardinality(all) \in Nat /\ Cardinality((A \cup B) \cup C) \in Nat
    BY <1>7, <1>8, FS_CardinalityType
  <1> QED BY <1>2, <1>7, <1>8, <1>9

\* What SampledOnce asks of the ranges read so far, and of all of them.
BytesOf(ranges) == UNION {Bytes(ranges[i]) : i \in 1..Len(ranges)}
ReadApart(ranges, size) ==
  /\ \A i \in 1..Len(ranges) : Bytes(ranges[i]) # {} /\ Bytes(ranges[i]) \subseteq 0..(size - 1)
  /\ \A i, j \in 1..Len(ranges) : i # j => Bytes(ranges[i]) \cap Bytes(ranges[j]) = {}
  /\ Cardinality(BytesOf(ranges)) <= 3 * Window
ReadEnds(ranges, size) ==
  size > 0 => {0, (size - 1) \div 2, size - 1} \subseteq BytesOf(ranges)

LEMMA SampledFollows == CheckInv => SampledOnce
  <1> SUFFICES ASSUME CheckInv, check.mode = "sample", check.result \in {"running", "observed"}
               PROVE  /\ ReadApart(SubSeq(FileSampleRanges(check.size), 1, check.read), check.size)
                      /\ check.result = "observed" =>
                           ReadEnds(SubSeq(FileSampleRanges(check.size), 1, check.read), check.size)
    BY DEF SampledOnce, Bytes, BytesOf, ReadApart, ReadEnds
  <1>1. PICK size \in Nat : size = check.size
    BY DEF CheckInv
  <1> PICK full : full = FileSampleRanges(size)
    OBVIOUS
  <1>2. RangesOf(full, size)
    BY RangesSound
  <1>3. PICK n \in 0..3 : n = check.read
    BY <1>1, <1>2 DEF CheckInv, WindowsRead, MinOf, RangesOf
  <1>4. n <= Len(full) /\ (check.result = "observed" => n = Len(full))
    <2>1. PICK m \in 0..3 : m = Len(full)
      BY <1>2 DEF RangesOf
    <2>2. check.pc \in 1..9 /\ (check.pc = 9 <=> check.result = "observed")
      BY DEF CheckInv
    <2>3. n = IF check.pc <= 4 THEN 0 ELSE MinOf(MinOf(check.pc - 4, 3), m)
      BY <1>1, <1>3, <2>1 DEF CheckInv, WindowsRead
    <2>4. n <= m /\ (check.pc = 9 => n = m)
      BY <2>2, <2>3 DEF MinOf
    <2> QED BY <2>1, <2>2, <2>4
  <1> DEFINE ranges == SubSeq(full, 1, n)
  <1>5. Len(ranges) = n /\ \A i \in 1..n : ranges[i] = full[i]
    BY SMTT(60)
  <1> HIDE DEF ranges
  <1>6. \A i \in 1..n : Bytes(ranges[i]) # {} /\ Bytes(ranges[i]) \subseteq 0..(size - 1)
    <2> SUFFICES ASSUME NEW i \in 1..n
                 PROVE  Bytes(ranges[i]) # {} /\ Bytes(ranges[i]) \subseteq 0..(size - 1)
      OBVIOUS
    <2>1. i \in 1..Len(full) /\ ranges[i] = full[i]
      BY <1>2, <1>4, <1>5 DEF RangesOf
    <2>2. /\ full[i].offset \in Nat /\ full[i].length \in Nat \ {0}
          /\ full[i].offset + full[i].length <= size
      BY <1>2, <2>1 DEF RangesOf
    <2>3. full[i].offset \in Bytes(full[i])
      BY <2>2 DEF Bytes
    <2>4. Bytes(full[i]) \subseteq 0..(size - 1)
      BY <2>2 DEF Bytes
    <2> QED BY <2>1, <2>3, <2>4
  <1>7. \A i, j \in 1..n : i # j => Bytes(ranges[i]) \cap Bytes(ranges[j]) = {}
    <2> SUFFICES ASSUME NEW i \in 1..n, NEW j \in 1..n, i < j
                 PROVE  Bytes(ranges[i]) \cap Bytes(ranges[j]) = {}
      <3> SUFFICES ASSUME NEW i \in 1..n, NEW j \in 1..n, i # j
                   PROVE  Bytes(ranges[i]) \cap Bytes(ranges[j]) = {}
        OBVIOUS
      <3>1. i < j \/ j < i
        OBVIOUS
      <3> QED BY <3>1
    <2>1. i \in 1..Len(full) /\ ranges[i] = full[i] /\ j \in 1..Len(full) /\ ranges[j] = full[j]
      BY <1>2, <1>4, <1>5 DEF RangesOf
    <2>2. /\ full[i].offset \in Nat /\ full[i].length \in Nat /\ full[j].offset \in Nat
          /\ full[j].length \in Nat /\ full[i].offset + full[i].length < full[j].offset
      BY <1>2, <2>1 DEF RangesOf
    <2> QED BY <2>1, <2>2, SMTT(60) DEF Bytes
  <1>8. Cardinality(BytesOf(ranges)) <= 3 * Window
    <2>1. \A x \in BytesOf(ranges) : InWindows(x, size)
      <3> SUFFICES ASSUME NEW x \in BytesOf(ranges) PROVE InWindows(x, size)
        OBVIOUS
      <3>1. PICK i \in 1..n : x \in Bytes(ranges[i])
        BY <1>5 DEF BytesOf
      <3>2. i \in 1..Len(full) /\ ranges[i] = full[i]
        BY <1>2, <1>4, <1>5 DEF RangesOf
      <3>3. x \in Bytes(full[i])
        BY <3>1, <3>2
      <3> QED BY <1>2, <3>2, <3>3 DEF RangesOf
    <2> QED BY <2>1, WindowsBounded
  <1>9. check.result = "observed" => ReadEnds(ranges, size)
    BY <1>2, <1>4, <1>5 DEF RangesOf, BytesOf, ReadEnds
  <1>10. ReadApart(ranges, size)
    BY <1>5, <1>6, <1>7, <1>8 DEF ReadApart
  <1> QED BY <1>1, <1>3, <1>9, <1>10, Zenon DEF ranges

-----------------------------------------------------------------------------
(* The theorems.                                                           *)

\* The inductive invariant of the journal.
THEOREM JournalInvariant == Spec => []JournalInv
  BY JournalStart, JournalStep, PTL DEF Spec

\* The live checks use the journal as its callers may: every step of the
\* composition is a step of the journal or leaves it alone.
THEOREM LiveChecksUseJournal == LiveSpec => Spec
  <1>1. LiveInit => Init
    BY DEF LiveInit
  <1>2. [LiveNext]_<<vars, liveVars>> => [Next]_vars
    <2> SUFFICES ASSUME LiveNext, ~UNCHANGED vars PROVE Next
      OBVIOUS
    <2>1. CASE \E e \in Evidence, checked \in Times : CaptureReport(e, checked)
      BY <2>1 DEF CaptureReport, Next
    <2>2. CASE \E q \in ValidPreparations : closed /\ PrepareJournal(q) /\ UNCHANGED liveVars
      BY <2>2 DEF Next
    <2>3. CASE \E k \in IntentKeys : \E n \in 0..Len(history[k]) :
                 \E key \in EventKeys, r \in Reports :
                    closed /\ AppendJournalEvent(k, EventAfter(k, n, key, r)) /\ UNCHANGED liveVars
      BY <2>3 DEF Next
    <2> QED BY <2>1, <2>2, <2>3 DEF LiveNext, CompareObservation, Close
  <1> QED BY <1>1, <1>2, PTL DEF LiveSpec, Spec

\* PrepareJournal, AppendJournalEvent: for every set of keys and findings and
\* every behaviour of the clock, what was committed can be read again.
THEOREM HistoryStaysReadable == LiveSpec => []HistoryReadable
  BY JournalInvariant, LiveChecksUseJournal, ReadableFollows, PTL

\* validateJournalBinding: a saved restore reverses a quarantine that is at its
\* destination, and no later event of either intent can undo this.
THEOREM RestoresStayBound == LiveSpec => []RestoreStaysBound
  BY JournalInvariant, LiveChecksUseJournal, BoundFollows, PTL

\* AppendJournalEvent: for every number of keys and callers, one attempt at
\* most is recorded to move a finding in one direction.
THEOREM AttemptedAtMostOnce == LiveSpec => []OneAttempt
  BY JournalInvariant, LiveChecksUseJournal, AttemptFollows, PTL

\* Every behaviour of the checks keeps the windows in step with the place.
THEOREM CheckInvariant == LiveSpec => []CheckInv
  <1>1. LiveInit => CheckInv
    BY DEF LiveInit, CheckInv, Blank
  <1> QED BY <1>1, CheckStep, PTL DEF LiveSpec

\* fileSampleRanges and sampleFile: for every size of the file and of the
\* window, a sample reads no byte twice, stays within the file and three
\* windows, and a finished one has read the first, the middle and the last byte.
THEOREM SamplesReadOnce == LiveSpec => []SampledOnce
  BY CheckInvariant, SampledFollows, PTL
=============================================================================
