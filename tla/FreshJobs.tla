----------------------------- MODULE FreshJobs -----------------------------
(***************************************************************************)
(* Publication in the hash store (internal/inventory: hash_groups.go,      *)
(* hash_keeper_preview.go, hash_keeper_choice*.go, hash_fresh_job.go).     *)
(*                                                                         *)
(* The owner names one completed observation as the keeper and others with *)
(* the same digest as copies.  SaveKeeperChoice archives these roles with  *)
(* the budget and the consent of that moment; later, possibly after more   *)
(* runs, SaveFreshJob publishes a job that repeats the roles' hashing, and *)
(* archives the context again.  Both rows are immutable, found again by a  *)
(* key that leaves the context out, and validated on every read: a choice  *)
(* against the work as it is now, a job's context against its choice's.    *)
(* The runs, approvals and recoveries of HashReads go on in between, on    *)
(* the same namespace.                                                     *)
(*                                                                         *)
(* Storage checks may fail at any point, so every refusal before a commit  *)
(* is a step that changes nothing.  The time of a save is only checked to  *)
(* be one, and is left out.  Preview and request are read-only: what they  *)
(* saw of completed work and of saved choices cannot change afterwards,    *)
(* and the publishing transaction reads it again.                          *)
(***************************************************************************)
EXTENDS HashReads

CONSTANTS
  JobKeys,      \* keys that callers of SaveFreshJob supply
  ChoiceLimit,  \* HashKeeperChoiceLimit
  JobLimit      \* HashFreshJobLimit

ASSUME FreshJobsAssumption ==
  /\ ChoiceLimit \in Nat \ {0} /\ JobLimit \in Nat \ {0}
  /\ \A s \in Range(Setups) :
       /\ DOMAIN s.digest = s.works /\ DOMAIN s.inode = s.works
       /\ \A r \in s.roles : r \in Seq(s.works) /\ Len(r) > 1 /\ IsInjective(r)

VARIABLES
  choices,    \* hash_keeper_choice: by roles (the request key), the archived context
  published,  \* hash_fresh_job: by job key, the request and the original context
  request,    \* the roles of the request this writer is bound to
  told        \* history: the records callers were told are saved

pubVars == <<choices, published, request, told>>
allVars == <<vars, pubVars>>

\* roles: sequences of works that owners name, the keeper first.  digest and
\* inode: what the file of each work holds, and its saved identity.
RolesAsked == Setups[setup].roles
Digest == Setups[setup].digest
Inode == Setups[setup].inode
NoRequest == <<>>

PubInit == Init /\ choices = <<>> /\ published = <<>> /\ request = NoRequest /\ told = {}

-----------------------------------------------------------------------------
(* Evidence. *)

Complete == {w \in Works : ns[Original].work[w].status = "complete"}

\* readHashSnapshot, hashFreshJobContext: the history of the whole selection.
Context == [complete |-> Cardinality(Complete), budget |-> ns[Original].budget,
            consent |-> ns[Original].consent]

\* groupSavedHashes: no other selected path shows the same saved identity.
Unaliased(w) == \A v \in Works \ {w} : Inode[v] # Inode[w]

\* previewSavedHashKeeper: complete observations of one group.
Previewable(roles) ==
  \A i \in DOMAIN roles : /\ roles[i] \in Complete
                          /\ Digest[roles[i]] = Digest[roles[1]]
                          /\ Unaliased(roles[i])

\* validHashKeeperChoiceBudget, validHashKeeperChoiceConsent.
ContextValid(x) ==
  x.budget.set /\ BudgetReadable(x.budget) /\ ConsentReadable(x.consent, x.budget)

\* validateHashKeeperChoicePreview, validateHashKeeperChoiceBinding.
ChoiceReadable(roles, archived) ==
  /\ ContextValid(archived)
  /\ archived.complete >= Len(roles)
  /\ Previewable(roles)

\* validateHashFreshJobRecord: history since the choice has only grown.  Daily
\* counters may start again, on another day.
Grown(old, new) ==
  LET b == old.budget
      c == new.budget
  IN /\ ContextValid(new)
     /\ old.complete <= new.complete
     /\ b.max <= c.max
     /\ b.tres <= c.tres /\ b.treq <= c.treq /\ b.tread <= c.tread /\ b.tunk <= c.tunk
     /\ b.day = c.day => b.res <= c.res /\ b.req <= c.req /\ b.read <= c.read /\ b.unk <= c.unk
     /\ old.consent.given =>
          /\ new.consent.given
          /\ \A f \in {"created", "daily", "life", "initial"} : new.consent[f] = old.consent[f]
          /\ old.consent.high <= new.consent.high
          /\ old.consent.expired => new.consent.expired
          /\ old.consent.revoked => new.consent.revoked

-----------------------------------------------------------------------------
(* Publication. *)

\* The rows with one more.
Recorded(rows, key, record) ==
  [x \in DOMAIN rows \cup {key} |-> IF x = key THEN record ELSE rows[x]]

Told(kind, key, record) == told' = told \cup {<<kind, key, record>>}

\* A publishing transaction that makes the rows x.  When the outcome of the
\* commit is unknown the handle is poisoned and the caller is told to look.
Publish(rows, x, kind, key, record) ==
  \/ rows' = x /\ Told(kind, key, record) /\ UNCHANGED handle
  \/ rows' \in {x, rows} /\ handle' = "poisoned" /\ UNCHANGED told

\* Mutant: a repeated request refreshes the archived context.
SaveKeeperChoiceRefreshed(roles) ==
  /\ At("idle") /\ handle \in {"writer", "selection"}
  /\ Previewable(roles) /\ ContextValid(Context)
  /\ Cardinality(DOMAIN choices \ {roles}) < ChoiceLimit
  /\ Publish(choices, Recorded(choices, roles, Context), "choice", roles, Context)
  /\ UNCHANGED <<setup, ns, shared, run, consumed, charged, published, request>>

\* saveKeeperChoice: an exact repeat returns the record of the first time.
SaveKeeperChoice(roles) ==
  /\ At("idle") /\ handle \in {"writer", "selection"}
  /\ Previewable(roles)
  /\ \/ /\ roles \in DOMAIN choices
        /\ Told("choice", roles, choices[roles])
        /\ UNCHANGED <<choices, handle>>
     \/ /\ roles \notin DOMAIN choices
        /\ Cardinality(DOMAIN choices) < ChoiceLimit
        /\ ContextValid(Context)
        /\ Publish(choices, Recorded(choices, roles, Context), "choice", roles, Context)
  /\ UNCHANGED <<setup, ns, shared, run, consumed, charged, published, request>>

\* PrepareKeeperChoiceFreshRequest, by a reader: a saved choice that can be read.
Requestable(roles) == roles \in DOMAIN choices /\ ChoiceReadable(roles, choices[roles])

\* OpenHashFreshJobWriter rebuilds the request.  It recovers nothing.
OpenFreshJobWriter(roles) ==
  /\ handle = "closed" /\ Requestable(roles)
  /\ handle' = "publisher" /\ request' = roles
  /\ UNCHANGED <<setup, ns, shared, run, consumed, charged, choices, published, told>>

\* rebuildHashFreshJobRequest.
Rebuilt == [roles |-> request, archived |-> choices[request]]

\* saveFreshJob: a key names one request for good.  Storage that fails its check
\* after the commit poisons the handle, but the caller knows the job is saved.
SaveFreshJob(key) ==
  LET record == [request |-> Rebuilt, context |-> Context]
  IN /\ At("idle") /\ handle = "publisher"
     /\ Requestable(request)
     /\ \/ /\ key \in DOMAIN published /\ published[key].request = Rebuilt
           /\ Told("job", key, published[key])
           /\ UNCHANGED <<published, handle>>
        \/ /\ key \notin DOMAIN published
           /\ Cardinality(DOMAIN published) < JobLimit
           /\ Grown(Rebuilt.archived, Context)
           /\ \/ Publish(published, Recorded(published, key, record), "job", key, record)
              \/ /\ published' = Recorded(published, key, record)
                 /\ Told("job", key, record) /\ handle' = "poisoned"
     /\ UNCHANGED <<setup, ns, shared, run, consumed, charged, choices, request>>

\* A step of HashReads.  Closing ends the binding of the handle.
ReadingStep ==
  /\ Next
  /\ request' = IF handle' = "closed" THEN NoRequest ELSE request
  /\ UNCHANGED <<choices, published, told>>

PubNext ==
  \/ ReadingStep
  \/ \E roles \in RolesAsked : SaveKeeperChoice(roles)
  \/ \E roles \in DOMAIN choices : OpenFreshJobWriter(roles)
  \/ \E key \in JobKeys : SaveFreshJob(key)

\* validateHashFreshJobRequest, FreshJob: the job names its choice as it was
\* saved, and its own context has only grown since.
JobReadable(key) ==
  LET record == published[key]
      asked == record.request
  IN /\ Requestable(asked.roles) /\ choices[asked.roles] = asked.archived
     /\ Grown(asked.archived, record.context)

-----------------------------------------------------------------------------
(* Properties. *)

\* Whatever runs, recoveries, approvals and clock jumps come after, a saved
\* choice stays readable and can still be published as a job, and a saved job
\* stays readable: history in the original namespace never falls behind the
\* context that a choice or a job archived (validateHashKeeperChoiceBinding:
\* "Published complete heads cannot advance through dispatch or recovery";
\* validateHashFreshJobRecord: "lifetime charges, completed heads and consent
\* lifecycle cannot regress").  And what a caller was told is saved stays saved
\* as told: no retry, uncertain commit or other publication replaces it
\* (HashFreshJobOriginContext: "It is never refreshed by retries").
PublishedReadable ==
  /\ \A roles \in DOMAIN choices : /\ ChoiceReadable(roles, choices[roles])
                                   /\ Grown(choices[roles], Context)
  /\ \A key \in DOMAIN published : JobReadable(key) /\ Grown(published[key].context, Context)
  /\ \A a \in told : LET rows == IF a[1] = "choice" THEN choices ELSE published
                     IN a[2] \in DOMAIN rows /\ rows[a[2]] = a[3]
=============================================================================
