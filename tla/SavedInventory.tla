---------------------------- MODULE SavedInventory ----------------------------
(***************************************************************************)
(* One root of a detailed saved inventory: the directory stream the        *)
(* scanner keeps in memory (internal/inventory/scanner.go), the queue of   *)
(* inventory jobs (internal/state/queue.go), the batch that is committed   *)
(* for a directory (internal/state/inventory.go) and the maintenance that  *)
(* removes what a complete listing no longer confirms                      *)
(* (internal/state/subtree_retirement.go), while the folder on disk keeps  *)
(* changing and the process can die between any two steps.                 *)
(*                                                                         *)
(* Paths are numbered in the byte order the queries sort by; 0 is ".".     *)
(* A generation is a random 63-bit number: a new one differs from every    *)
(* generation in use.  A scan revision is only ever compared for equality  *)
(* with the current one and only grows, so a retirement row keeps whether  *)
(* it is still current.  A cursor is only compared with the cursor of the  *)
(* stream in memory.  Compact rows, allocation caches and adaptive         *)
(* evidence are empty in a detailed inventory with fixed revisits.         *)
(***************************************************************************)
EXTENDS Integers, Sequences, FiniteSets, FiniteSetsExt

CONSTANTS
    LastPath,       \* the paths are 0..LastPath
    Parent,         \* the containing directory of every path but 0
    Kinds,          \* what can be found on disk at each path
    Starts,         \* what the folder may hold when it is first scanned
    BatchSize,      \* MaxBatchEntries: names and rows handled at a time
    MaxDisturbances \* bound: changes of the folder, crashes, interrupted
                    \* listings and jobs asked for beside the scheduled ones

Paths == 0..LastPath
Root == 0

ASSUME PathsAssumption ==
    /\ LastPath \in Nat
    /\ Parent \in [1..LastPath -> Paths]
    /\ \A p \in 1..LastPath : Parent[p] < p
ASSUME KindsAssumption ==
    Kinds \in [Paths -> SUBSET {"absent", "file", "dir", "sealed"}]
ASSUME StartsAssumption ==
    \A d \in Starts :
        /\ d \in [Paths -> {"absent", "file", "dir"}]
        /\ d[Root] = "dir"
        /\ \A p \in 1..LastPath : d[p] # "absent" => d[Parent[p]] = "dir"
ASSUME BoundsAssumption ==
    /\ BatchSize \in Nat \ {0}
    /\ MaxDisturbances \in Nat

VARIABLES
    disk,       \* what is on disk at each path
    entries,    \* table entries
    dirs,       \* table directories
    jobs,       \* table jobs, kind inventory
    reconcile,  \* table subtree_reconcile
    retire,     \* table subtree_retirement
    stream,     \* the scanner's retained directory stream
    handler,    \* the batch the scanner is producing
    certified,  \* ghost: names on disk when the last committed batch was validated
    quiet,      \* ghost: nothing outside touched this pass since it was seeded
    disturbances \* how often one of these happened

saved == <<entries, dirs, jobs, reconcile, retire>>
memory == <<stream, handler>>
ghosts == <<certified, quiet>>
vars == <<disk, saved, memory, ghosts, disturbances>>

-----------------------------------------------------------------------------
(* Paths                                                                   *)

Children(p) == {c \in 1..LastPath : Parent[c] = p}

\* The subtree below a directory: what every set has that holds its children
\* and, with a path, the children of that path.
ClosedBelow(p, S) ==
    Children(p) \subseteq S /\ \A c \in 1..LastPath : Parent[c] \in S => c \in S

Below == [p \in Paths |->
            {q \in Paths : \A S \in SUBSET Paths : ClosedBelow(p, S) => q \in S}]
Above == [p \in Paths |-> {a \in Paths : p \in Below[a]}]

\* Rows with the smallest, or the largest, paths of an ORDER BY path LIMIT n.
Lowest(S, n) == {p \in S : Cardinality({q \in S : q < p}) < n}
Highest(S, n) == {p \in S : Cardinality({q \in S : q > p}) < n}

-----------------------------------------------------------------------------
(* Rows                                                                    *)

NoEntry == [kind |-> "absent", skip |-> FALSE, gen |-> 0]
NoDir == [known |-> FALSE, gen |-> 0, complete |-> FALSE, fault |-> FALSE]
NoJob == [status |-> "none", first |-> FALSE]
NoReconcile == [gen |-> 0, cursor |-> 0]
NoRetire == [phase |-> -1, preserve |-> FALSE, current |-> FALSE]
NoStream == [job |-> -1, gen |-> 0, left |-> {}, pending |-> {},
             eof |-> FALSE, changed |-> FALSE]
NoHandler == [at |-> "idle", job |-> -1, gen |-> 0, seen |-> {}, complete |-> FALSE,
              names |-> {}]

SavedEntry(p) == entries[p].kind # "absent"
HasJob(p) == jobs[p].status # "none"
Reconciling(p) == reconcile[p].gen # 0
Retiring(p) == retire[p].phase # -1

NoJobs == \A p \in Paths : ~HasJob(p)
Drained == NoJobs /\ \A p \in Paths : ~Reconciling(p) /\ ~Retiring(p)

Generations == 1..(3 * LastPath + 5)
NewGeneration ==
    Min(Generations \ UNION {{entries[p].gen, dirs[p].gen, reconcile[p].gen,
                              stream.gen} : p \in Paths})

Init ==
    /\ disk \in Starts
    /\ entries = [p \in Paths |-> NoEntry]
    /\ dirs = [p \in Paths |-> NoDir]
    /\ jobs = [p \in Paths |-> NoJob]
    /\ reconcile = [p \in Paths |-> NoReconcile]
    /\ retire = [p \in Paths |-> NoRetire]
    /\ stream = NoStream
    /\ handler = NoHandler
    /\ certified = [p \in Paths |-> {}]
    /\ quiet = FALSE
    /\ disturbances = 0

Disturb ==
    /\ disturbances < MaxDisturbances
    /\ disturbances' = disturbances + 1

-----------------------------------------------------------------------------
(* The folder.  A name that appears, disappears or is replaced changes the *)
(* stamp of the directory holding it; a replaced directory has a new       *)
(* inode.  Sealing (taking read permission away) and unsealing a directory *)
(* touches only its own stamp.  The root can go away and come back.        *)

Openable(p) == \A q \in Above[p] \cup {p} : disk[q] = "dir"

OnDisk(p) == {c \in Children(p) : disk[c] # "absent"}

Touch(dirsTouched) ==
    stream' = [stream EXCEPT !.changed = @ \/ stream.job \in dirsTouched]

Changed(p) ==
    /\ Disturb
    /\ quiet' = FALSE
    /\ UNCHANGED <<saved, handler, certified>>

Replace(p, k) ==
    /\ p # Root /\ k \in Kinds[p] \ {"sealed", disk[p]}
    /\ Openable(Parent[p])
    /\ disk' = [q \in Paths |-> IF q = p THEN k
                                ELSE IF q \in Below[p] THEN "absent" ELSE disk[q]]
    /\ Touch({Parent[p], p} \cup Below[p])
    /\ Changed(p)

Seal(p) ==
    /\ p # Root /\ "sealed" \in Kinds[p] /\ disk[p] \in {"dir", "sealed"}
    /\ disk' = [disk EXCEPT ![p] = IF @ = "dir" THEN "sealed" ELSE "dir"]
    /\ Touch({p})
    /\ Changed(p)

RootGone ==
    /\ "absent" \in Kinds[Root]
    /\ disk' = [disk EXCEPT ![Root] = IF @ = "dir" THEN "absent" ELSE "dir"]
    /\ Touch({})
    /\ Changed(Root)

-----------------------------------------------------------------------------
(* Jobs                                                                    *)

\* SeedInventory and scheduleInventoryRevisit: a new pass only once all the
\* saved work of the root is finished.
SeedInventory ==
    /\ handler.at = "idle"
    /\ Drained
    /\ jobs' = [jobs EXCEPT ![Root] = [status |-> "pending", first |-> FALSE]]
    /\ quiet' = TRUE
    /\ UNCHANGED <<disk, entries, dirs, reconcile, retire, memory, certified, disturbances>>

\* EnqueueJob: another job for a saved directory; an existing one is kept.
EnqueueJob(p) ==
    /\ Disturb
    /\ handler.at = "idle"
    /\ entries[p].kind = "dir" /\ ~entries[p].skip
    /\ jobs' = [jobs EXCEPT ![p] = IF HasJob(p) THEN @
                                   ELSE [status |-> "pending", first |-> FALSE]]
    /\ quiet' = FALSE
    /\ UNCHANGED <<disk, entries, dirs, reconcile, retire, memory, certified>>

\* A continued listing is due at 1 ns and comes before every other job.  The
\* other due times are wall times, which a clock can set in any order.
Claimable(p) ==
    /\ jobs[p].status = "pending"
    /\ jobs[p].first \/ \A q \in Paths : HasJob(q) => ~jobs[q].first

ClaimJob(p) ==
    /\ handler.at = "idle"
    /\ Claimable(p)
    /\ jobs' = [jobs EXCEPT ![p].status = "running"]
    /\ handler' = [NoHandler EXCEPT !.at = "claimed", !.job = p]
    /\ UNCHANGED <<disk, entries, dirs, reconcile, retire, stream, ghosts, disturbances>>

-----------------------------------------------------------------------------
(* Scanner.Next                                                            *)

Fault ==
    /\ stream' = NoStream
    /\ handler' = [handler EXCEPT !.at = "fault", !.seen = {}]

\* The retained stream is kept for the same job while the directory's stamp is
\* the one it was opened with; its cursor is the job's, because an uncommitted
\* batch ends the process.  Otherwise the listing starts over.
Kept(p) == stream.job = p /\ ~stream.changed

OpenedStream(p) ==
    IF Kept(p) THEN stream
    ELSE [NoStream EXCEPT !.job = p, !.gen = NewGeneration, !.left = OnDisk(p)]

\* Readdirnames: at most BatchSize names in any order, EOF when there are none.
ReadNames(s) ==
    IF s.pending # {} \/ s.eof THEN {s}
    ELSE IF s.left = {} THEN {[s EXCEPT !.eof = TRUE]}
    ELSE {[s EXCEPT !.pending = names, !.left = @ \ names] :
             names \in {n \in SUBSET s.left :
                           /\ n # {}
                           /\ \/ Cardinality(n) = BatchSize
                              \/ n = s.left /\ Cardinality(n) < BatchSize}}

OpenDirectory ==
    /\ handler.at = "claimed"
    /\ IF Openable(handler.job)
       THEN /\ stream' \in ReadNames(OpenedStream(handler.job))
            /\ handler' = [handler EXCEPT !.at = "listing"]
       ELSE Fault
    /\ UNCHANGED <<disk, saved, ghosts, disturbances>>

\* Fstatat of one name; a directory that cannot be opened is skipped.
Observation(n) ==
    [path |-> n, kind |-> IF disk[n] = "file" THEN "file" ELSE "dir",
     skip |-> disk[n] = "sealed"]

InspectName(n) ==
    /\ handler.at = "listing" /\ n \in stream.pending
    /\ IF disk[n] = "absent"
       THEN Fault
       ELSE /\ handler' = [handler EXCEPT !.seen = @ \cup {Observation(n)}]
            /\ stream' = [stream EXCEPT !.pending = @ \ {n}]
    /\ UNCHANGED <<disk, saved, ghosts, disturbances>>

\* Mutant: only the path is reopened, its stamp is not compared.
UnchangedAssumed == Openable(handler.job)

\* The path reopened and the stream still have the stamp of the first open.
Unchanged == Openable(handler.job) /\ ~stream.changed

\* Pacing may end the batch with names left over.
ValidateListing ==
    /\ handler.at = "listing"
    /\ IF Unchanged
       THEN LET complete == stream.eof /\ stream.pending = {} IN
            /\ handler' = [handler EXCEPT !.at = "batch", !.complete = complete,
                                           !.gen = stream.gen,
                                           !.names = OnDisk(handler.job)]
            /\ stream' = IF complete THEN NoStream ELSE stream
       ELSE Fault
    /\ UNCHANGED <<disk, saved, ghosts, disturbances>>

-----------------------------------------------------------------------------
(* Leaving the handler                                                     *)

\* Mutant: a scan commit leaves the proofs of earlier listings current.
StaleProofsForgotten == retire

\* commitScan of a fault: an hour's delay, the error recorded, and no saved
\* observation touched.
StaleProofs == [p \in Paths |-> [retire[p] EXCEPT !.current = FALSE]]

CommitFault ==
    /\ handler.at = "fault"
    /\ jobs' = [jobs EXCEPT ![handler.job] = [status |-> "pending", first |-> FALSE]]
    /\ dirs' = [dirs EXCEPT ![handler.job].fault = TRUE, ![handler.job].known = TRUE]
    /\ retire' = StaleProofs
    /\ handler' = NoHandler
    /\ UNCHANGED <<disk, entries, reconcile, stream, ghosts, disturbances>>

Seen(n) == \E o \in handler.seen : o.path = n
SeenAt(n) == CHOOSE o \in handler.seen : o.path = n

Upserted(p) ==
    [n \in Paths |->
        IF Seen(n) THEN [kind |-> SeenAt(n).kind, skip |-> SeenAt(n).skip,
                         gen |-> handler.gen]
        ELSE IF n = Root /\ p = Root THEN [kind |-> "dir", skip |-> FALSE,
                                           gen |-> handler.gen]
        ELSE entries[n]]

\* finishJob for the directory, and a job for every child directory seen.
JobsAfter(p) ==
    [n \in Paths |->
        IF n = p THEN IF handler.complete THEN NoJob
                      ELSE [status |-> "pending", first |-> TRUE]
        ELSE IF /\ Seen(n) /\ SeenAt(n).kind = "dir" /\ ~SeenAt(n).skip
                /\ ~HasJob(n)
             THEN [status |-> "pending", first |-> FALSE]
             ELSE jobs[n]]

CommitScan ==
    /\ handler.at = "batch"
    /\ LET p == handler.job IN
       /\ jobs' = JobsAfter(p)
       /\ entries' = Upserted(p)
       /\ dirs' = [dirs EXCEPT ![p] = [known |-> TRUE, gen |-> handler.gen,
                                       complete |-> handler.complete, fault |-> FALSE]]
       /\ reconcile' = IF handler.complete
                       THEN [reconcile EXCEPT ![p] = [gen |-> handler.gen, cursor |-> 0]]
                       ELSE reconcile
       /\ certified' = [certified EXCEPT ![p] = handler.names]
    /\ retire' = StaleProofs
    /\ handler' = NoHandler
    /\ UNCHANGED <<disk, stream, quiet, disturbances>>

\* A denied permit, a deadline or a cancellation drops the stream and returns
\* the job with its old cursor, ahead of the others or after a backoff.
InterruptListing ==
    /\ handler.at \in {"claimed", "listing"}
    /\ Disturb
    /\ \E first \in BOOLEAN :
          jobs' = [jobs EXCEPT ![handler.job] = [status |-> "pending", first |-> first]]
    /\ stream' = NoStream
    /\ handler' = NoHandler
    /\ UNCHANGED <<disk, entries, dirs, reconcile, retire, ghosts>>

\* Mutant: the next owner forgets the job that was running.
CrashForgetsJob ==
    /\ Disturb
    /\ jobs' = [p \in Paths |-> IF jobs[p].status = "running" THEN NoJob ELSE jobs[p]]
    /\ stream' = NoStream
    /\ handler' = NoHandler
    /\ UNCHANGED <<disk, entries, dirs, reconcile, retire, ghosts>>

\* The process dies; the next owner makes running jobs pending, due as before.
Crash ==
    /\ Disturb
    /\ jobs' = [p \in Paths |-> IF HasJob(p) THEN [jobs[p] EXCEPT !.status = "pending"]
                                ELSE NoJob]
    /\ stream' = NoStream
    /\ handler' = NoHandler
    /\ UNCHANGED <<disk, entries, dirs, reconcile, retire, ghosts>>

-----------------------------------------------------------------------------
(* Maintenance: one step of retireSubtrees                                 *)

MaintenanceOpen == handler.at = "idle" /\ NoJobs

\* A proof older than the last scan commit is dropped, not acted on.
DropStaleProof(q) ==
    /\ ~retire[q].current
    /\ retire' = [retire EXCEPT ![q] = NoRetire]
    /\ UNCHANGED <<entries, dirs, reconcile>>

PurgeTables == <<"directories", "subtree_reconcile", "entries", "subtree_retirement">>

HasRow(table, p) ==
    CASE table = "directories" -> dirs[p].known
      [] table = "subtree_reconcile" -> Reconciling(p)
      [] table = "entries" -> SavedEntry(p)
      [] table = "subtree_retirement" -> Retiring(p)

\* Mutant: the rows of a subtree are removed in ascending order, anchor first.
PurgedRowsAscending(q, table) ==
    Lowest({p \in Below[q] \cup {q} :
               HasRow(table, p) /\ ~(p = q /\ retire[q].preserve)}, BatchSize)

\* Descendants first, the deepest paths first; the anchor when none is left.
PurgedRows(q, table) ==
    LET below == {p \in Below[q] : HasRow(table, p)} IN
    IF below # {} THEN Highest(below, BatchSize)
    ELSE IF \/ table = "subtree_retirement"
            \/ table = "entries" /\ retire[q].preserve
            \/ ~HasRow(table, q)
         THEN {}
         ELSE {q}

PurgeSubtree(q) ==
    /\ retire[q].current
    /\ IF retire[q].phase = Len(PurgeTables)
       THEN /\ retire' = [retire EXCEPT ![q] = NoRetire]
            /\ UNCHANGED <<entries, dirs, reconcile>>
       ELSE LET table == PurgeTables[retire[q].phase + 1]
                gone == PurgedRows(q, table)
                without(rows, none, name) ==
                    [p \in Paths |-> IF table = name /\ p \in gone THEN none
                                     ELSE rows[p]]
            IN /\ dirs' = without(dirs, NoDir, "directories")
               /\ reconcile' = without(reconcile, NoReconcile, "subtree_reconcile")
               /\ entries' = without(entries, NoEntry, "entries")
               /\ retire' = IF gone = {} THEN [retire EXCEPT ![q].phase = @ + 1]
                            ELSE without(retire, NoRetire, "subtree_retirement")

\* A saved child the listing of p did not confirm, or a file that still has the
\* rows of the directory it replaced.
HasDirectoryState(c) == dirs[c].known \/ \E q \in Below[c] : SavedEntry(q)

Absent(p, c) == entries[c].gen # reconcile[p].gen

\* Mutant: a file that replaced a directory is taken for confirmed.
ToRetireAbsentOnly(p, c) == Absent(p, c)

ToRetire(p, c) ==
    Absent(p, c) \/ (entries[c].kind # "dir" /\ HasDirectoryState(c))

ReconcileSubtree(p) ==
    LET listing == dirs[p]
        rest == {c \in Children(p) : SavedEntry(c) /\ c > reconcile[p].cursor}
        batch == Lowest(rest, BatchSize)
    IN
    /\ IF \/ reconcile[p].gen # listing.gen
          \/ ~listing.complete \/ listing.fault
          \/ rest = {}
       THEN /\ reconcile' = [reconcile EXCEPT ![p] = NoReconcile]
            /\ UNCHANGED retire
       ELSE /\ reconcile' = [reconcile EXCEPT ![p].cursor = Max(batch)]
            /\ retire' = [c \in Paths |->
                            IF c \in batch /\ ToRetire(p, c)
                            THEN [phase |-> 0, preserve |-> ~Absent(p, c), current |-> TRUE]
                            ELSE retire[c]]
    /\ UNCHANGED <<entries, dirs>>

RetireSubtrees ==
    /\ MaintenanceOpen
    /\ LET proofs == {p \in Paths : Retiring(p)}
           listings == {p \in Paths : Reconciling(p)}
       IN \/ proofs # {} /\ LET q == Min(proofs) IN DropStaleProof(q) \/ PurgeSubtree(q)
          \/ proofs = {} /\ listings # {} /\ ReconcileSubtree(Min(listings))
    /\ UNCHANGED <<disk, jobs, memory, ghosts, disturbances>>

-----------------------------------------------------------------------------
Next ==
    \/ \E p \in Paths : \/ \E k \in Kinds[p] : Replace(p, k)
                         \/ Seal(p)
                         \/ EnqueueJob(p)
                         \/ ClaimJob(p)
                         \/ InspectName(p)
    \/ RootGone
    \/ SeedInventory
    \/ OpenDirectory
    \/ ValidateListing
    \/ CommitFault
    \/ CommitScan
    \/ InterruptListing
    \/ Crash
    \/ RetireSubtrees

Spec == Init /\ [][Next]_vars

\* The worker's loop keeps taking turns while it runs: a due job is claimed in
\* the order of its due time, so no job waits behind the others for ever, and
\* pacing keeps room for the next name before it ends a batch.  Nothing is
\* assumed of the folder, of denials or of crashes.
Fairness ==
    /\ \A p \in Paths : SF_vars(ClaimJob(p)) /\ SF_vars(InspectName(p))
    /\ WF_vars(OpenDirectory) /\ WF_vars(ValidateListing)
    /\ WF_vars(CommitScan) /\ WF_vars(CommitFault)
    /\ WF_vars(SeedInventory) /\ WF_vars(RetireSubtrees)

FairSpec == Spec /\ Fairness
-----------------------------------------------------------------------------
(* Properties                                                              *)

EntryRows == [kind : {"absent", "file", "dir"}, skip : BOOLEAN,
              gen : {0} \cup Generations]
TypeOK ==
    /\ disk \in [Paths -> {"absent", "file", "dir", "sealed"}]
    /\ entries \in [Paths -> EntryRows]
    /\ dirs \in [Paths -> [known : BOOLEAN, gen : {0} \cup Generations,
                           complete : BOOLEAN, fault : BOOLEAN]]
    /\ jobs \in [Paths -> [status : {"none", "pending", "running"}, first : BOOLEAN]]
    /\ reconcile \in [Paths -> [gen : {0} \cup Generations, cursor : Paths]]
    /\ retire \in [Paths -> [phase : -1..Len(PurgeTables), preserve : BOOLEAN,
                             current : BOOLEAN]]
    /\ handler.at \in {"idle", "claimed", "listing", "batch", "fault"}
    /\ \A p \in Paths : jobs[p].status = "running" <=> (handler.at # "idle" /\ handler.job = p)

\* Whatever the saved tables still hold about a path hangs from saved entries
\* up to the root: a purge interrupted anywhere leaves the anchor that the next
\* complete listing of its parent finds again, never unreachable rows.
AnchorsKept ==
    /\ TypeOK
    /\ \A p \in Paths \ {Root} :
          SavedEntry(p) \/ dirs[p].known \/ Reconciling(p) =>
              SavedEntry(p) /\ SavedEntry(Parent[p])

\* A directory marked complete is one uninterrupted listing: the children
\* carrying its generation are exactly the names on disk when the listing was
\* validated, even when its enumeration was restarted by a crash, a denial or a
\* change and earlier batches had already been committed.
CompleteListingExact ==
    \A p \in Paths :
        dirs[p].complete =>
            {c \in Children(p) : SavedEntry(c) /\ entries[c].gen = dirs[p].gen} = certified[p]

\* What the folder shows, except below directories that cannot be read: their
\* earlier observations are kept.
Hidden(p) == \E q \in Above[p] : disk[q] = "sealed"
SavedMatchesDisk ==
    \A p \in Paths : ~Hidden(p) =>
        entries[p].kind = CASE disk[p] = "sealed" -> "dir" [] OTHER -> disk[p]

\* Once a pass over an unchanging folder has drained, the saved inventory is the
\* folder: nothing that vanished earlier is kept and nothing present is missing,
\* whatever crashes, denials and earlier unfinished purges came in between.
PassExact == quiet /\ Drained => SavedMatchesDisk

\* Maintenance removes an entry only below a child that the parent's latest
\* listing, complete and without a fault, does not confirm as a directory.  A
\* listing saved after the proof was written cannot be purged by that proof.
Disproved(q) ==
    /\ q # Root
    /\ dirs[Parent[q]].complete /\ ~dirs[Parent[q]].fault
    /\ entries[q].gen # dirs[Parent[q]].gen \/ entries[q].kind # "dir"
PurgeProved ==
    [][\A p \in Paths : SavedEntry(p) /\ entries'[p].kind = "absent" =>
          \/ Disproved(p) /\ entries[p].gen # dirs[Parent[p]].gen
          \/ \E q \in Above[p] : Disproved(q)]_vars

\* When the folder stops changing, the saved inventory becomes the folder and
\* stays so through every later pass, unless a job is left for a directory that
\* can no longer be opened: its hourly retry keeps the root from a new pass.
BlockedJob == \E p \in Paths : HasJob(p) /\ ~Openable(p)
Converges == <>[](BlockedJob \/ SavedMatchesDisk)

=============================================================================
