# Saga Rydd: TLA+ models and proofs

Saga Rydd is a storage cleanup companion that runs quietly on its owner's
machine. A background worker lists configured folders in small bounded turns, a
private SQLite database keeps what it learned, and separate private stores keep
reviewed plans, an action journal and consented hashes of original files. The
program promises restraint rather than speed: a daily number of metadata calls,
a CPU share, a daily number of bytes read, consent that is used once, evidence
that is never refunded or forgotten. Nearly all of these promises must survive a
process that dies at any moment, a commit whose answer is lost and a wall clock
that is set back. That is what is modelled here.

## The system: inventory

| component | state it keeps | operations | what makes it hard |
|---|---|---|---|
| metadata attempt ledger (`state/metadata_budget.go`, `worker/metadata_window.go`) | one durable ledger row, one reservation row per scope; in-memory permit windows | read readiness, reserve, admit an attempt, settle, recover at start, recover after a panic | the allowance is charged before use and settled after; clock jumps and deaths in between |
| fair inventory turns (`state/fair_inventory.go`, `state/dispatch.go`) | rotation cursor, dispatch receipt with its day and count, queue of jobs | choose a root, reserve a receipt, claim a job under it, finish, release | four transactions per turn, each may find a changed day, pause or queue |
| CPU feedback (`state/cpu_feedback.go`, `worker/cpu_feedback.go`, `worker/cpu_budget.go`) | one pending or settled CPU window, saved backoff deadline, an in-process gate | begin, settle, recover, wait | the deadline is wall time, the wait counts both clocks |
| worker loop (`worker/worker.go`) | timer, running handler, pause flag, sockets | tick, handle, complete, pause, stop | one loop, one handler goroutine; the order of saves against source work |
| saved inventory (`inventory/scanner.go`, `state/inventory.go`, `state/queue.go`, `state/subtree_retirement.go`) | entries, directories, jobs, retirement rows; a directory stream in memory | claim, open, inspect, validate, commit, fault, seed, retire | a listing spans many turns while the folder changes; a purge spans many transactions |
| hash store (`inventory/hash_store*.go`, `hash_fresh_*.go`, `hash_read_*.go`) | selection work, attempts, checkpoints, consents, byte budgets, a shared daily budget | open with recovery, approve, revoke, run | reserve, read and settle are separate; consent may end while a file is read |
| plan store (`plans/store.go`, `admission.go`, `dismissal.go`) | plans, dismissals, undos, schema version | save, dismiss, undo, list | commits with an unknown outcome, retries, capacity |
| plan review (`plans/review.go`) | approval and revocation of a plan | approve, revoke | evidence is checked before the lock is taken |
| live checks (`inventory/verify.go`, `inspect.go`, `tree.go`, `sample.go`, `recovery.go`) | none; held directories and stamps while a check runs | verify, inspect, inspect a tree, sample files, locate a moved directory | other programs change the same objects between any two calls |
| action journal (`plans/journal.go`, `observation.go`) | one observation, intents, append-only event chains | capture, prepare, append | late, repeated and colliding requests under a clock that is set back |
| CPU charge sessions (`state/cpu_charges.go`, ...) | sessions, process prefixes, hourly and daily slots | open, settle, recover, admit | overlapping prefixes, uncertain settlement |
| state budget and power policy (`worker/state_budget_async.go`, `power_policy.go`) | one asynchronous sample, intents | start, publish, consume | a sample that is stale when it is used |
| manual refresh, root admission, adaptive revisits (`state/...`) | receipts, admission rows, evidence | request, advance, resolve | interruption between two saved steps |
| fresh job publication, keeper choice (`inventory/hash_groups.go`, `hash_keeper_*.go`, `hash_fresh_job.go`) | immutable choices and jobs, each with the budget and consent of its moment | group, preview, save a choice, prepare a request, save a job | the archived context must stay behind a history that runs, recoveries and clock jumps go on changing |
| sample store (`inventory/sample_store*.go`) | one batch, one attempt, one budget row | create, run, recover | one attempt for good, whatever is interrupted |
| store export (`storeexport`) | staging directory, manifest | stage, verify, publish | what an interruption leaves on disk |
| service (`service`) | descriptor files, login link, manager | publish, remove, start, stop, observe | the directory changes between a check and a rename |
| reports, command line, configuration, doctor, docker, power, packaging | none of their own | | read-only, or a single call into a part above |

How they interact: the worker loop is the only caller of the ledger, the turns,
the CPU feedback and the scanner; it runs one turn at a time, and the durable
rows are what one process hands to the next. The command line talks to a running
worker through a socket and otherwise opens the stores itself, under file locks.
The plan store reads the inventory store when a plan is reviewed. The hash and
sample stores are only used by explicit commands.

## The models

Every module models both what is saved and what is lost when the process dies. A
crash is an action that may happen between any two steps, which also covers a
commit whose answer never arrives. A call that reads the wall clock may obtain
any reading, so that every jump in either direction is included; the elapsed
clock only moves forward. SQLite transactions under the writer lock are atomic
steps. Digests, JSON canonical forms, file ownership checks and path syntax are
abstracted to what the checks tell apart.

### `MetadataBudget`

Variables `started, day, highWater, daily, total, rec` are the saved ledger, the
others the loop's windows and its place in a turn. Each of `Reserve`, `Admit`,
`Settle`, the panic path and the recovery at start is an action; the actions take
the early returns of the code as guards (`metadataReady`, the day and clock
checks). Ghost counters record the attempts the scanner was admitted on each
wall-clock day. Invariants: the ledger never is one its own reader rejects
(`LedgerValid`); every admitted attempt is covered by a charge of its day
(`AttemptsCovered`); no day admits more than a configured limit (`DailyLimit`); a
live window always finds its own record (`SettlementAccepted`); the windows of one
turn share one source work window (`OneWorkWindow`); charges are never refunded
(`ChargesNeverRefunded`).

Bounds: two days with two readings each, so that midnight is crossed and
re-crossed; limits that hold one or two allowances; four reservations, enough
for a reservation of each scope on each day; `MaxCharge` low enough that the
integer limit of the total is reached.

### `FairTurn`

One inventory turn from timer to settled CPU window. The elapsed clock is kept as
what remains of each deadline, and `Pass` lets a unit go by; a step may not be
skipped because time cannot pass a deadline unnoticed. `EligibleRootsServed` says
that a root which stays eligible is served before any other root gets a second
turn, `ReceiptsPaced` and `BackoffServed` are the cadence and the CPU share,
`WorkAccounted` that work only runs inside a pending window saved for its own
receipt, root and lease. Two of its conjuncts are about the ways out of a turn: no
lease outlives its turn (the definition `IdleHoldsNoLease`), and a restart finds a
feedback row its reader accepts (`FeedbackValid`).

Bounds: three roots (two could not tell rotation from alternation), two days,
limits of one and two receipts, one wait within and one cut at the backoff limit.

### `SavedInventory`

One detailed root: the folder (`disk`), the saved tables, the scanner's stream and
the batch in hand. `Converges` is checked under strong fairness of claiming a job
and inspecting a name, and weak fairness of the other steps: the worker's timer
always fires again, so a step that stays possible is taken; claiming is only
strongly fair because other jobs may be claimed in between. A job for a directory
that has vanished or cannot be opened faults and is retried every hour for ever,
as docs/cli.md describes; until it succeeds its root gets no maintenance and no
new listing, and `Converges` makes an exception for it. `EnqueueJob` for inventory
jobs has no caller outside tests; it is modelled all the same.

`MaxDisturbances` bounds together what happens to the worker from outside:
changes of the folder, crashes, interrupted listings and requested jobs, in any
mixture. `inventory_safety` allows three of them, so that a folder can change, be
purged and change back around a crash; `inventory_converges` allows two and asks
for progress afterwards. Four paths give a directory, a child, and a sibling that
sorts after both; a batch of one name (two in the run about progress) makes a
listing span several batches.

### `ActionJournal`, `PlanStore`, `PlanReview`

The journal takes any request at any time: keys may be reused, and each operation
reads its own clock. Two limits of the code show in the model and are documented
behaviour: a chain of sixteen events may end with an outcome that stays unknown,
and a clock set back makes a history unreadable until it catches up. `PlanStore`
has the uncertain commit (`told` remembers what callers were answered) and stores
an older release left over their limit. That an undone dismissal stays undone
when its unchanged request is repeated is documented (src/README.md:147) and
checked (part of `AnswersTrue`). `PlanReview` extends `PlanStore`: a plan must be
saved before it is reviewed, and saves, dismissals and reviews raise the same
schema version. It splits Approve and Revoke where the code takes its lock, so
several reviewers and saves interleave between the evidence and the consent. The
journal ends (every key is used), so its run does not check for deadlock.
That outcomes are final (`NextEvent`) is not a property of its own: without that
guard the history of a restore stops loading, which breaks `HistoryReadable`.

Bounds: two plans fit and a third does not, one dismissal fits, one legacy store is
over its limit; two reviewers, one change of the inventory under their eyes.

### `PlanObservation`

The checks that look at live files, composed with the journal that their report
opens: `PlanObservation` extends `ActionJournal`, and the observation the journal
is about is the one a recovery check captured. A check is a fixed sequence of
lookups (`Gather`, then `Recheck`), one table entry per mode; between any two of
them other programs may touch, replace, remove, create or rename objects.
`OneInstant`: what a check reports was true all at once, at one moment of the
check, although no lookup saw it whole. `MovedObjectFound`: a directory that was
moved between target and quarantine while both were probed is not reported at
both or at neither. `SampledOnce`: the sample windows of a file of any size around
the window's size read every byte at most once, stay within the file and read a
small file whole. Bounds: two changes, three in the recovery check, whose moves
come in pairs and find no third directory to go to; sizes on both sides of one, two and three windows.

### `HashReads`, `FreshJobs`, `SampleStore`, `ContentReads`

`HashReads` has the consented and plain runs over the original selection and over
fresh jobs, with the shared daily budget. A run is four transactions, each with
its own reading of the clock; a failed commit poisons the handle, whose only use
then is Close. `SavedStateReadable` collects what the readers of the store demand
on the next opening; `ConsentLive` says that nothing is reserved or published after
the consent ended; `LimitsKept` the configured and the approved limits of each day.
The pacer is abstracted to what it can do to the state: end a run early and save a
later clock reading. `Revocable`, `Budgeted` and `PlainTotal` bound a run; initially
a selection exists whose `Done` works were hashed before, fresh jobs are saved and
no consent is given. The sequence numbers and nonces that fence a settlement are
left out, because the exclusive lock already makes the running attempt its own.

`FreshJobs` extends it with what is published from a selection: the owner names a
keeper and its copies among complete observations of one digest and distinct
identity, the choice archives the budget and the consent of that moment, and a job
published later from the choice archives them again. `PublishedReadable`: whatever
runs, approvals, recoveries and clock jumps come between and after, a saved choice
stays readable and publishable and a saved job stays readable, and what a caller
was told is saved stays saved as told, across uncertain commits and repetitions.
The jobs of a setup and the jobs published here are kept apart: a behaviour is
about publishing one or about running one. How a job's rows start is the same in
both (pending work, no budget).

`SampleStore` is the older store for sampled windows: one batch, one attempt.
`SampledForGood`: its files are read in at most one pass, its rows stay readable,
and a report reaches the caller only when the usage behind it was saved as an
undisturbed result.

`ContentReads` puts the two stores side by side (they share nothing, so a behaviour
is about one of them) to state one refinement of both: `PrechargedUse` is an
abstract account in which an amount is held before it is used and a settlement
books at least what was used and gives nothing back. `ReadsPrecharged` is that
specification under the mapping held, booked, used: outstanding grants, requested
plus unknown bytes, bytes really requested from files.

Bounds: four setups. *alone*: files of one partial block and of a block and a tail,
revocation, days of two readings. *shared*: a selection and a job of one unit each
under one daily limit of one. *publish*: two complete copies and one still to be
hashed, two choices, one job key. *samples*: a batch of two units under policies it
fits and does not fit. An amount of three units has every way to be cut at a block
of two; clock readings on both sides of a day's end are enough because only order
and equality of days are compared.

### `CPUCharges`

The rows behind the CPU percentage limits: one charged session with the process
prefix it has been charged for, an hourly and a daily slot, and the policy row.
Each public call is one action that reads the clock and the process CPU sample;
its outcome is published, refused, or published with an answer that is lost
(`Published`); in the last two cases the policy refuses work for the rest of the
process. The code recognises an exact retry of a call and changes nothing, so a
retry is no step. The settlement digest is represented by the charges it binds.
The definitions that start the model carry its name (`ChargesInit`, `ChargesSpec`).
`AccountingReadable` is what the reader of every later call demands of the rows,
`WorkAdmittedByRows` that no work window starts which the saved charges do not
leave room for.

Bounds: the clock has two readings, in different hours and days, so that both slots
roll together; the hour that rolls while its day goes on is left to the theorems. Two sessions of two samples. The run moves between four profiles:
nothing is charged, sessions are charged, the hour is limited, and both slots are.
Three revisions of the policy row let a limited session be interrupted by a gap that
the next session closes (opting in, out and in again), two gaps surround a session, or
sessions change the limits; such a later session does reach work once its slots have
rolled. The theorems hold for every value of these bounds.

### `StoreExport`

`rydd backup`: the export into a private stage, the SQLite check of a scratch
copy, the manifest, the rename, and the verification of an artifact. Commands run
one after the other; every step that fills a file is split in two, so a failure or
a death leaves it incomplete. Other programs change the source, the stage and the
scratch directory between the steps; a check and the unlink or rename directly
after it are one step. A database body is named by the source version it is a
snapshot of. `PublishedAsLocked`: what has the destination's name is complete and
is the store as it was while the export held its lock, unless a file was edited
where no check can see it (before its pin or after the last check). `ReportTrue`:
when a command has ended, an artifact at the destination was reported as published, a
stage or scratch directory left behind as retained, a verified artifact left no
scratch, and the engine was called closed only if no connection can be open. Bounds:
two commands, one change of the source, two edits. The run ends, so it does not
check for deadlock.

### `ManualRefresh`

`rydd scan` and `rydd scan --refresh` of one root, with the one receipt slot a
refresh saves. A command may stop between any two transactions. `CompletedPass`:
a receipt says `completed` only after a root listing that was started for that
request reached its end and everything it queued is done. The generation of a
listing is a clock reading and may repeat; the history `passes` tells listings
apart where the code cannot. Bounds: two generations, two child folders, two
requests, three listings.

### `StateSampler`

The sampler of the store's own size and the turns that wait for it. The observer
goroutine takes four steps: it checks at its start (under the mutex), calls, has
its verdict frozen (under the guard of the clocks only) and publishes (under the
mutex). The loop's verdict on a sample that is late and its effect are two steps
too, because a return may fall in between. A turn may be given up at any tick, and
a `Run` that ends leaves its callback in the slot for the next one. `SlotSound`
says that the process never has two samples under way, that a sample which came
back in time is not turned into a failure, and that the next one is delayed exactly
after a failure; `SourceScreened` that a source is claimed only by a turn with two
samples of its own below the limit, one on each side of its receipt, while that
receipt is current. Reasons are reduced to "stopped" and "refused", the distinction
on which a receipt that may still fund maintenance depends.

Bounds: two turns, so that a sample of the first meets the second; windows of two
units, a retry of three and an elapsed clock of five, so that each runs out; room
for two tickets, the slot's and one that would overlap it. The run ends with its
turns and its clock, so it does not check for deadlock.

### `ServiceCommands`

`rydd service` on Linux: install, status, uninstall, start and stop requests,
runtime status, and the login link. Commands are processes that exclude each other
by a lock file, hold directories and files they opened while the names may come to
lead elsewhere, and share one user manager, which may be restarted. A command is a
fixed sequence of steps; other programs edit, remove or replace files and the
directory between any two. `EffectsAsChecked`: what a command changes is what it
checked last, unless another program interfered since that check. `ReportsTrue`: a
result without an error is true when it is returned, with the same exception, and
`removed` is never said of a file that still has a name. `FailuresHonest`: a
command whose change or request was attempted never says that it did nothing.
Install's final read only has to succeed (artifact.go:301), and a missing
descriptor reads without an error, so `saved` speaks of the moment its identity was
confirmed, before the sync; `ReportsTrue` claims no more. Bounds: two commands of
any kind and one edit, from an empty, an installed and a linked directory, so that
every pair of commands meets and every check is crossed once. The run ends, so it
does not check for deadlock.

## Runs

| run | module | shows |
|---|---|---|
| `metadata_budget` | `MCMetadataBudget` | over two days with clock jumps, crashes at every step and a limit changed at restart, the ledger stays readable, covers every admitted attempt and keeps the daily limit |
| `fair_turn` | `MCFairTurn` | three roots compete for receipts while the clock jumps and the process dies: rotation is fair, receipts are spaced and limited, CPU backoff is served on both clocks |
| `inventory_safety` | `MCSavedInventory` | a folder changes while it is listed, purged and listed again: nothing confirmed is purged, interrupted purges stay reachable, a quiet pass ends exact |
| `inventory_converges` | `MCSavedInventory` | under fair scheduling the saved inventory becomes the folder once it stops changing |
| `journal` | `MCPlanObservation` | live checks under interference, then journal requests on what they captured: reports were true at one moment, histories stay readable, restores stay bound, nothing is attempted twice |
| `plans` | `MCPlanReview` | publication with uncertain commits at capacity, under two reviewers: every answer stays true, consent is given once and on evidence that matched |
| `content_reads` | `MCContentReads` | four small stores (a selection alone; a selection and a job on one budget; publication during reads; samples): state stays readable, the accounts implement `PrechargedUse`, nothing is reserved or published after consent ended |
| `cpu_charges` | `MCCPUCharges` | every clock jump, crash and lost answer leaves rows the readers accept, and work starts only below the limit on fully tracked slots |
| `store_export` | `MCStoreExport` | exports and verifications that fail or die between any two steps publish and report only what they locked |
| `manual_refresh` | `MCManualRefresh` | a completed receipt is about one whole pass after its request |
| `state_sampler` | `MCStateSampler` | one sample at a time, no failure for a sample that succeeded, no source without two samples of its own turn |
| `service_commands` | `MCServiceCommands` | every effect falls on what was checked, every success is true, no failure hides an effect |

A run takes between twenty seconds and four minutes with two workers.

Every property has a mutant: a plausible bug of the code it is about, under which
TLC finds the property violated.

## Proofs

Every theorem below is proved for all values of the constants under the
assumptions its modules name; TLC evaluates these assumptions on every run. None of
the safety properties is inductive by itself. Each proof module therefore states an
inductive invariant as a conjunction of named parts, shows that the initial states
satisfy it and that every action keeps it (one step per action), and derives the
properties from it. Every inductive invariant was also checked by TLC on the run's
instance.

`MetadataBudgetProofs`. That a live window can be settled depends on the ledger
still holding its record unsettled, that the ledger is readable depends on which
records may carry the current day, and that attempts are covered depends on what
the windows may still admit. `BudgetInv` says so: the retained records account for
the charges, a live window is backed by an outstanding record, and admitted attempts
plus what is still allowed are charged. From it follow `LedgerNeverCorrupt`,
`AttemptsAlwaysCovered`, `DailyLimitHolds`, `SettlementsAccepted` and
`IdleAlwaysSettled` (the loop never waits with a reservation outstanding).
`CreditsNeverRefunded` is the action property `ChargesNeverRefunded`; besides
`BudgetInv` it needs that a ledger without its row has no mark. `WorkWindowShared`
is `OneWorkWindow`; it needs that the windows of a turn are anchored at the turn's
first readings of both clocks. Assumptions: positive lengths and allowances,
non-empty positive limits.

`FairTurnProofs`. Four properties of a turn from one invariant, `FairInv`.
`RootsAlwaysServed` (`EligibleRootsServed`): a root's number of missed turns and the
places the rotation still has to go to reach it (`Ahead`) never exceed the number of
roots together, since a selected root lies between the rotation and every root it
passes over (`SelectedNext`). `ReceiptsAlwaysPaced`: the dispatch row counts exactly
the receipts of the last receipt's day and no later day has one, so a day's limit holds
although the clock may be set back. `BackoffAlwaysServed`: the gate follows the saved
row and what the process owes is covered by what remains on the gate.
`WorkAlwaysAccounted`: the only lease is that of a source turn between its claim and
its result, and a turn that works owns the pending window. Assumptions: at least one
root, positive clock readings, lengths, delays and limits, windows of positive length.

`PlanProofs`. The plan store: `AnswersStayTrue` and `AnswersStayTrueUnderReview`: `AnswersTrue`
for the store alone and for the store under review. The invariant adds that a
refusal for want of room was given by a full store and that an undone dismissal
has its record. `ConsentRestsOnMatch` adds that a reviewer past the check still
holds the evidence it saw; `ConsentNeverRenewed` is the action property
`ConsentGivenOnce`. Assumption: plans and dismissal requests have different keys.

The journal: `LiveChecksUseJournal` shows that the composition with the
live checks implements the journal's own specification, so what is proved of the
journal holds under it. `JournalInv`: every saved intent could be loaded at some
reading of the clock, and a finding has one intent of each kind. The first part must
speak of some reading and not of the current one, because the clock may be set back;
the argument is that a load depends only on the observation, the intent's rows and its
original's rows, and that the original is closed once a restore is bound to it. From it
follow `HistoryStaysReadable`, `RestoresStayBound` and `AttemptedAtMostOnce` (the
attempt is always the first event of its intent). `SamplesReadOnce` proves
`SampledOnce` for every size of a file and of a window: `fileSampleRanges` returns
one of four shapes, by which of the three windows meet (`RangeShapes`), each shape is
sound (`RangesSound`), and the place of a sampling check says how many of its ranges it
has read (`CheckInv`).

`InventoryProofs`. The safety properties of `SavedInventory`, and the receipt of
`ManualRefresh`.

`SavedInv` relates what the code keeps apart. A stream that did not change since it
was opened has committed, observed, read or left to read exactly the names of its
directory (`StreamInv`); a batch that is complete, with what its listing committed
before, is what was validated (`HandlerInv`), which is why `CompleteListingExact` may
speak of earlier batches. Rows hang from saved entries up to the root (`AnchorInv`). A
purge has emptied the tables before the one it is at for the whole subtree, and while
the entry of its anchor is saved, the listing that disproved it is still the latest
one (`PurgeInv`). From these follow `AnchorsStay` (`AnchorsKept`),
`CompleteListings` (`CompleteListingExact`) and `PurgesProved` (the action property
`PurgeProved`). A lemma per transaction says which columns it can change, and a
counting argument (`FreshGeneration`) that a generation the saved rows do not use is
always left, so `NewGeneration` is defined.

`QuietPassExact` (`PassExact`) needs `PassInv`. While nothing from outside touches a
pass, the listing in progress sees what is there (`ScanInv`), and every directory that
can be opened is done or has a job at or above it; done means that its listing is exact
and that whatever the listing no longer confirms has been handed to maintenance
(`DoneInv`). When the pass has drained, no job and nothing handed over is left, so every
directory that can be opened is exact; what lies elsewhere has a first directory above
it that cannot be opened, below which nothing is on disk and nothing is saved.
Assumptions: a finite tree in which a path
has a larger number than its directory, a folder that starts as a tree, and a batch of
at least one name.

`CompletedReceiptsTrue` is `CompletedPass` of `ManualRefresh`. Because a generation may
repeat, the invariant speaks of the listings by number: an open stream belongs to a
listing started under the saved receipt, a listing that ended is drained or maintenance
is still due, and a receipt that saw an end names a listing that did.

`ContentReadsProofs`. All six properties of the run `content_reads`, for the
composition of both stores. The sample store: `SampledAtMostOnce` is
`SampledForGood`, from an invariant that relates the run in hand, the saved rows and
the bytes requested; `SamplesPrecharged` proves that it implements `PrechargedUse` by
itself (`SampleSpec`).

The hash store rests on `HashInv`. Its parts are the rows of one namespace
(`RowOK`: budget, consent, each work, and the sums of the latest attempts by status
and day, which must fit the budget's counters), the shared row as the sum of the
namespaces (`SharedOK`), the bytes charged per real day (`ChargeOK`: no day after the
budget's day was ever charged, which is why a clock set back cannot start an
allowance again), the run in hand and what it relies on (`RunOK`), and what was
requested from files (`UseOK`). The parts speak of values, not of the variables, so
that a transaction's candidate can be shown sound before its commit is known to have
succeeded, failed or poisoned the handle. `HashInvariant` has one lemma per action.
`HashStateReadable` (`SavedStateReadable`) then shows that sound rows are ones the
readers accept. A second relation, `Evolves`, says that a step changes one namespace
and that its row only grows (`RowGrows`): no counter falls, no consent revives, no
complete work is lost, and progress needs a live consent. From it follow
`ReadsUnderLiveConsent` (`ConsentLive`), `PublicationsReadable` (`PublishedReadable`:
what a choice or a job archived stays behind the row it was taken from) and
`ContentPrecharged` (`ReadsPrecharged`, the refinement of `PrechargedUse`, one account
per namespace). `ReadsWithinLimits` is the action property `LimitsKept`. The sums are
over finite sets: removing one element from a sum (`SumTakeOut`) follows from the
definition of the fold and the least cardinality of a counterexample (`WFMin` with
`NatLessThanWellFounded`), without the library's induction theorems. Assumptions:
finitely many works and jobs, a job has not the name of the original selection or of a
kind of handle, positive block, step, lifetime and day lengths with steps of whole
blocks, and requests that name each of at least two works once.

`WorkerPolicyProofs`. Two policies of the worker loop. The state sampler:
`SlotStaysSound` and `ClaimedSourceScreened`. The invariant says which ticket the
slot may hold at each of the observer's four steps, which debt the last verdict left,
and that a turn that waits or goes on does so with samples of its own. Assumption:
finitely many tickets, none of them 0.

The CPU charges: `AccountingAlwaysReadable` and `WorkOnlyByRows`. The demands of the
readers are nearly inductive by themselves; what `ChargesInv` adds is that a session
left open was begun under the slots (so that the slots have a begin to bind it to),
that a running policy knows the rows as they are, which stages it passes with an open
session and which without, and that in a turn the slots were last moved when the
charges were. One lemma per operation of the store shows that it leaves rows the
readers accept (`BegunOK`, `SampledOK`, `InterruptedOK` for the charges; `RolledOK`,
`BegunSlotsOK`, `GapSlotsOK` for the slots), one per action that the policy follows
them. `SlotMoved` carries the argument about time: a moment not later than the last
one falls in the current slot only if the slot did not change, so a mark set for it is
still there. Assumptions: positive slot lengths, divisor and unknown delay, the latter
at most the backoff limit, and no limits where nothing is tracked.

`StoreExportProofs`. `ExportsPublishedAsLocked` and `ReportsStayTrue`. The invariant
says of every directory what each of its files can be while it is the stage, the
scratch copy or the destination, and of the running command what it has pinned,
checked and reported at its place.

`ServiceCommandProofs`. `FailuresAreHonest`, `ReportsAreTrue` and
`EffectsAreAsChecked`, from `ServiceInv`. A command is at one place of its table of
steps, and the place says what it has opened, locked and checked (`ControlOK`), what
status it may carry and whether it can have taken effect (`DidOK`), and that the file
to be removed was exact under its stamp (`FileOK`). `CleanOK` is the centre: for a
command that locked its directory and that no other program disturbed since its last
check, that check still holds. Other commands cannot end this, since every one that
changes a directory holds its lock file (`Exclusive`), and the checks find that the
lock at the name is the one held; the programs that ignore the lock clear `clean`.
A counting argument keeps the temporary names within the limit (`TempsOK`). One lemma
per step says what it changes in the directory, for the command itself and for every
other one. Assumptions: finitely many commands, the commands and starting directories
the module knows, at least one directory and one temporary name.

Only model-checked, and why:

* `Converges`: liveness under fairness is out of the prover's reach.
* `OneInstant`: its argument runs over the whole step tables of five checks; not
  attempted. `MovedObjectFound` holds in instances that offer no third place to move
  the directory to (see its comment), so there is no general theorem to prove.

## Not modelled

Reports, the command line, configuration, doctor, Docker and power observations,
packaging and the experiments: they read one snapshot, keep no state and take no
steps of their own. Opening and migrating the database is taken as atomic. In the
modelled parts: checkpoint encoding and SHA state of a hash, nonces and sequence
numbers, the timing of the pacer, the metadata check and the comparison report of
a keeper choice (read-only), the service on macOS.

## Plan

1. Proofs next: `OneInstant`, from an invariant that says of every step of a check
   which names it has found and what it has read.
2. Models still to write, in this order: root admission; power policy; adaptive
   revisits; compact inventory and allocation; the control socket. A part that
   shares saved state with a module above extends it, as `PlanReview` extends
   `PlanStore` and `FreshJobs` extends `HashReads`, and is checked in the same run.
