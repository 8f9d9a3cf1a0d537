----------------------------- MODULE PlanStore -----------------------------
(***************************************************************************)
(* Publication in the private plan store (internal/plans: store.go,         *)
(* admission.go, dismissal.go): saved plans with their capacity, and        *)
(* dismissed findings with their undo.                                      *)
(*                                                                          *)
(* Every write is one SQLite transaction under the directory lock.  What    *)
(* makes it hard is around the transactions: a commit whose outcome the     *)
(* caller never learns, the retry that follows, a store an older release    *)
(* left over its limit, and a schema that is raised on the way.             *)
(***************************************************************************)
EXTENDS Integers, FiniteSets

CONSTANTS
    Plans,          \* frozen plan records; a record's id is its digest
    LegacyStores,   \* what an older release, without a limit, may have saved
    Requests,       \* dismissal requests; a request's id is its digest
    PlanLimit,      \* PlanLimit
    DismissalLimit, \* DismissalLimit
    OldVersions     \* schemas an older release may have left

ASSUME LegacyAssumption == LegacyStores \subseteq SUBSET Plans
ASSUME LimitsAssumption ==
    PlanLimit \in Nat /\ DismissalLimit \in Nat
ASSUME VersionsAssumption == OldVersions \subseteq 1..5
ASSUME FiniteAssumption == IsFiniteSet(Plans) /\ IsFiniteSet(Requests)
ASSUME KindsAssumption == Plans \cap Requests = {}

VARIABLES
    version,        \* PRAGMA user_version
    plans,          \* table plans
    legacy,         \* history: the plans the store was opened with
    dismissals,     \* finding_dismissals
    undos,          \* finding_dismissal_undos
    told            \* the answers callers were given, <<record, answer>>

publicationVars == <<version, plans, legacy, dismissals, undos, told>>

-----------------------------------------------------------------------------
AtLeast(v) == IF version < v THEN v ELSE version

PublicationInit ==
    /\ version \in OldVersions
    /\ legacy \in LegacyStores
    /\ plans = legacy
    /\ dismissals = {}
    /\ undos = {}
    /\ told = {}

Tell(record, answer) == told' = told \cup {<<record, answer>>}

-----------------------------------------------------------------------------
(* Plans. *)

\* Mutant: the limit is checked before the exact record is looked for.
AdmittedBeforeRetry(p) == Cardinality(plans) >= PlanLimit

\* admitPlan refuses; an exact record already there is returned before it.
PlanRefused(p) == p \notin plans /\ Cardinality(plans) >= PlanLimit

\* saveRecord answered ErrPlanCapacity.
RefusePlan(p) ==
    /\ PlanRefused(p)
    /\ Tell(p, "capacity")
    /\ UNCHANGED <<legacy, version, plans, dismissals, undos>>

\* saveRecord found the exact record: a retry, answered with the same id.
RetryPlan(p) ==
    /\ ~PlanRefused(p)
    /\ p \in plans
    /\ Tell(p, "saved")
    /\ UNCHANGED <<legacy, version, plans, dismissals, undos>>

\* What the caller of a publication hears: a clean answer only if the
\* transaction committed; a failed commit or a late cancellation leaves the
\* outcome open.
AnswersAfter(committed) ==
    IF committed THEN {"saved", "uncertain"} ELSE {"uncertain"}

\* The schema of a store that holds a plan saved by this release.
SchemaWithPlan == 6

\* saveRecord admitted a new plan: the migration to schema 6 and the row are
\* published together or not at all.
PublishPlan(p) ==
    /\ ~PlanRefused(p)
    /\ p \notin plans
    /\ \E committed \in BOOLEAN :
          /\ plans' = IF committed THEN plans \cup {p} ELSE plans
          /\ version' = IF committed THEN SchemaWithPlan ELSE version
          /\ \E answer \in AnswersAfter(committed) : Tell(p, answer)
    /\ UNCHANGED <<legacy, dismissals, undos>>

SaveRecord(p) == RefusePlan(p) \/ RetryPlan(p) \/ PublishPlan(p)

-----------------------------------------------------------------------------
(* Dismissals. *)

\* saveDismissal answers ErrDismissalCapacity, after it looked for a retry.
DismissalRefused(d) ==
    d \notin dismissals /\ Cardinality(dismissals) >= DismissalLimit

\* saveDismissal refused the request.
RefuseDismissal(d) ==
    /\ DismissalRefused(d)
    /\ Tell(d, "capacity")
    /\ UNCHANGED <<legacy, version, plans, dismissals, undos>>

\* Mutant: dismissing again takes the undo back.
UndosOnRetryCleared(d) == undos \ {d}

\* A saved record is returned as it is, undone or not.
UndosOnRetry(d) == undos

\* saveDismissal found the request.
RetryDismissal(d) ==
    /\ ~DismissalRefused(d)
    /\ d \in dismissals
    /\ undos' = UndosOnRetry(d)
    /\ Tell(d, "saved")
    /\ version' = AtLeast(5)
    /\ UNCHANGED <<legacy, plans, dismissals>>

\* saveDismissal and commitDismissal of a new request, with the migration to
\* schema 5 in the same transaction.
PublishDismissal(d) ==
    /\ ~DismissalRefused(d)
    /\ d \notin dismissals
    /\ \E committed \in BOOLEAN :
          /\ dismissals' = IF committed THEN dismissals \cup {d} ELSE dismissals
          /\ version' = IF committed THEN AtLeast(5) ELSE version
          /\ \E answer \in AnswersAfter(committed) : Tell(d, answer)
    /\ UNCHANGED <<legacy, plans, undos>>

SaveDismissal(d) == RefuseDismissal(d) \/ RetryDismissal(d) \/ PublishDismissal(d)

\* UndoDismissal: an undo is saved once for a saved dismissal; its commit may
\* fail, and then the retry writes it.
UndoDismissal(d) ==
    /\ d \in dismissals
    /\ \/ undos' = undos \cup {d} /\ Tell(d, "undone")
       \/ undos' \in {undos, undos \cup {d}} /\ Tell(d, "uncertain")
    /\ UNCHANGED <<legacy, version, plans, dismissals>>

\* DismissedFindings: hidden from candidate reports.
Hidden(d) == d \in dismissals /\ d \notin undos

-----------------------------------------------------------------------------
PublicationNext ==
    \/ \E p \in Plans : SaveRecord(p)
    \/ \E d \in Requests : SaveDismissal(d)
    \/ \E d \in Requests : UndoDismissal(d)

PublicationSpec == PublicationInit /\ [][PublicationNext]_publicationVars

-----------------------------------------------------------------------------
(* Properties. *)

Answers == {"saved", "capacity", "undone", "uncertain"}

\* The tables have their types and every record has the schema it needs:
\* dismissals schema 5, and a plan this release saved the capacity trigger of
\* schema 6.
PublicationTypeOK ==
    /\ version \in 1..6
    /\ legacy \subseteq plans /\ plans \subseteq Plans
    /\ dismissals \subseteq Requests
    /\ undos \subseteq dismissals
    /\ told \subseteq (Plans \cup Requests) \X Answers
    /\ dismissals # {} => version >= 5
    /\ plans # legacy => version = 6

\* admitPlan, saveDismissal, ensurePlanSchema: every record has the schema it
\* needs, the store holds at most its limit of records, and a store that an
\* older release left above it gains none.
Bounded ==
    /\ PublicationTypeOK
    /\ Cardinality(plans) <= PlanLimit \/ plans = legacy
    /\ Cardinality(dismissals) <= DismissalLimit

\* saveRecord, saveDismissal: an answer stays true for good.  A record that was
\* answered as saved is stored, whatever happened to the answers before; one
\* refused for capacity is not stored and never will be, so an uncertain
\* publication can always be settled by retrying the same frozen record.  A
\* finding answered as shown again (undoDismissal) is not hidden by repeating the
\* dismissal.  All the while the store stays within its bounds.
AnswersTrue ==
    /\ Bounded
    /\ \A p \in Plans : /\ <<p, "saved">> \in told => p \in plans
                        /\ <<p, "capacity">> \in told => p \notin plans
    /\ \A d \in Requests : /\ <<d, "saved">> \in told => d \in dismissals
                           /\ <<d, "capacity">> \in told => d \notin dismissals
                           /\ <<d, "undone">> \in told => ~Hidden(d)
=============================================================================
