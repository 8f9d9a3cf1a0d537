--------------------------- MODULE ManualRefresh ---------------------------
(***************************************************************************)
(* `rydd scan` and `rydd scan --refresh` of one manual root                *)
(* (internal/cli/scan.go) and the saved receipt of a refresh               *)
(* (internal/state/manual_refresh.go).  A refresh finishes saved work,     *)
(* starts one additional pass and follows it to the end of its root        *)
(* listing; once everything the pass queued is done, its receipt may say   *)
(* `completed`.                                                            *)
(*                                                                         *)
(* Commands hold the writer lock, so they run one after the other.  Each   *)
(* may stop between two transactions, which also covers a commit whose     *)
(* answer is lost; its directory stream and its claim on an activation are *)
(* then gone.  A listing's generation is a reading of the wall clock and   *)
(* may repeat.  SQLite numbers the jobs of an empty queue anew, so the     *)
(* number of a root job tells nothing and is left out.                     *)
(***************************************************************************)
EXTENDS Integers, FiniteSets

CONSTANTS
  ClockReadings,  \* readings of the clock that can name a listing
  MaxChildren,    \* bound on the child folders that are queued at one time
  MaxRequests,    \* bound on the requests of a behaviour
  MaxPasses       \* bound on the root listings of a behaviour

ASSUME ClockReadingsAssumption == ClockReadings \subseteq Nat \ {0} /\ ClockReadings # {}
ASSUME RefreshBoundsAssumption ==
  MaxChildren \in Nat /\ MaxRequests \in Nat \ {0} /\ MaxPasses \in Nat \ {0}

VARIABLES
  slot,    \* the saved receipt
  mode,    \* the saved compact mode
  queue,   \* saved work: root job, child jobs, maintenance
  dir,     \* the saved state of the root folder's listing
  run,     \* the command: its place, its open stream, its activation
  passes   \* history: the root listings that were started

refreshVars == <<slot, mode, queue, dir, run, passes>>

NoSlot == [gen |-> 0, mode |-> FALSE, phase |-> "none", observed |-> 0, eof |-> FALSE]
\* A job waits ("ready"), waits for an hour after a fault ("late"), or is absent.
NoWork == [root |-> "none", ready |-> 0, late |-> 0, upkeep |-> FALSE]
Down == [op |-> "none", pc |-> "down", want |-> FALSE, stream |-> 0, pass |-> 0, fresh |-> FALSE]
Pass(gen, request) == [gen |-> gen, request |-> request, eof |-> FALSE, drained |-> FALSE]
NoPass == Pass(0, 0)

RefreshInit ==
  /\ slot = NoSlot /\ mode \in BOOLEAN /\ queue = NoWork
  /\ dir = [gen |-> 0, complete |-> FALSE, fault |-> FALSE]
  /\ run = Down /\ passes = [p \in 1..MaxPasses |-> NoPass]

-----------------------------------------------------------------------------
Open == slot.phase \in {"pending", "active"}
Lost == slot.phase = "active" /\ ~slot.eof
WorkDrained(q) == q.root = "none" /\ q.ready = 0 /\ q.late = 0 /\ ~q.upkeep
At(op, pc) == run.op = op /\ run.pc = pc
Stop == run' = Down

Started == {p \in 1..MaxPasses : passes[p] # NoPass}
\* The history: the work of every listing that reached its end is now done.
Settled(ps, q) ==
  [p \in 1..MaxPasses |-> IF ps[p].eof /\ WorkDrained(q) THEN [ps[p] EXCEPT !.drained = TRUE]
                          ELSE ps[p]]

\* The command ends, or its process dies.
End == run # Down /\ Stop /\ UNCHANGED <<slot, mode, queue, dir, passes>>

\* An hour goes by.
RetryDue ==
  /\ queue.late > 0 \/ queue.root = "late"
  /\ queue' = [queue EXCEPT !.ready = @ + queue.late, !.late = 0,
                            !.root = IF @ = "late" THEN "ready" ELSE @]
  /\ UNCHANGED <<slot, mode, dir, run, passes>>

-----------------------------------------------------------------------------
(* The way into a command.                                                 *)

\* PreflightManualRefresh never writes; a refusal ends the command.
Preflight(want) ==
  /\ run = Down
  /\ Open => slot.mode = mode /\ want = mode
  /\ want # mode => WorkDrained(queue)
  /\ run' = [Down EXCEPT !.op = "refresh", !.pc = "configure", !.want = want]
  /\ UNCHANGED <<slot, mode, queue, dir, passes>>

BeginScan(want) ==
  /\ run = Down
  /\ run' = [Down EXCEPT !.op = "scan", !.pc = "configure", !.want = want]
  /\ UNCHANGED <<slot, mode, queue, dir, passes>>

\* ConfigureCompact, then SyncRoots with the same single root.
ConfigureCompact ==
  /\ run.pc = "configure"
  /\ IF run.want = mode \/ WorkDrained(queue)
     THEN mode' = run.want
          /\ run' = [run EXCEPT !.pc = IF run.op = "scan" THEN "seed" ELSE "request"]
     ELSE Stop /\ UNCHANGED mode
  /\ UNCHANGED <<slot, queue, dir, passes>>

SeedRoot ==
  /\ At("scan", "seed")
  /\ queue' = IF WorkDrained(queue) THEN [queue EXCEPT !.root = "ready"] ELSE queue
  /\ run' = [run EXCEPT !.pc = "loop"]
  /\ UNCHANGED <<slot, mode, dir, passes>>

\* RequestManualRefresh: a request under way is adopted, a finished one replaced.
LoseLineage ==
  /\ At("refresh", "request") /\ Lost
  /\ slot' = [slot EXCEPT !.phase = "unknown"] /\ Stop
  /\ UNCHANGED <<mode, queue, dir, passes>>

Adopt ==
  /\ At("refresh", "request") /\ Open /\ ~Lost
  /\ run' = [run EXCEPT !.pc = "loop"]
  /\ UNCHANGED <<slot, mode, queue, dir, passes>>

Replaceable == slot.phase \in {"none", "completed"} \/ (slot.phase = "unknown" /\ WorkDrained(queue))

RequestManualRefresh ==
  /\ At("refresh", "request") /\ ~Open
  /\ IF Replaceable
     THEN /\ slot.gen < MaxRequests
          /\ slot' = [NoSlot EXCEPT !.gen = slot.gen + 1, !.mode = mode, !.phase = "pending"]
          /\ run' = [run EXCEPT !.pc = "loop"]
     ELSE Stop /\ UNCHANGED slot
  /\ UNCHANGED <<mode, queue, dir, passes>>

-----------------------------------------------------------------------------
(* The loop: activate, take a job, maintain, finish.                       *)

MustActivate == run.op = "refresh" /\ slot.phase = "pending" /\ WorkDrained(queue)

\* TryActivateManualRefresh.
TryActivate ==
  /\ run.pc = "loop" /\ MustActivate
  /\ queue' = [queue EXCEPT !.root = "ready"]
  /\ slot' = [slot EXCEPT !.phase = "active"]
  /\ run' = [run EXCEPT !.fresh = TRUE]
  /\ UNCHANGED <<mode, dir, passes>>

\* The scanner opens the root folder if it holds no stream of it.
OpenRoot ==
  /\ run.pc = "loop" /\ ~MustActivate /\ queue.root = "ready" /\ run.stream = 0
  /\ Cardinality(Started) < MaxPasses
  /\ \E gen \in ClockReadings :
       LET p == Cardinality(Started) + 1
       IN /\ passes' = [passes EXCEPT ![p] = Pass(gen, slot.gen)]
          /\ run' = [run EXCEPT !.stream = gen, !.pass = p]
  /\ UNCHANGED <<slot, mode, queue, dir>>

\* CommitManualRefreshScan follows the activated job, CommitScan all others.
Witnessing == run.fresh /\ ~slot.eof
\* witness.prepare
SameListing == slot.observed \in {0, run.stream}
\* witness.record
Recorded(complete) ==
  [slot EXCEPT !.observed = IF @ = 0 THEN run.stream ELSE @, !.eof = complete]

RootBatch(complete, children) ==
  /\ run.pc = "loop" /\ run.stream # 0 /\ queue.root = "ready"
  /\ queue.ready + queue.late + children <= MaxChildren
  /\ IF Witnessing /\ ~SameListing
     THEN Stop /\ UNCHANGED <<slot, queue, dir, passes>>
     ELSE /\ slot' = IF Witnessing THEN Recorded(complete) ELSE slot
          /\ dir' = [gen |-> run.stream, complete |-> complete, fault |-> FALSE]
          /\ queue' = [queue EXCEPT !.root = IF complete THEN "none" ELSE @,
                                    !.ready = @ + children,
                                    !.upkeep = @ \/ complete]
          /\ passes' = [passes EXCEPT ![run.pass].eof = complete]
          /\ run' = IF complete THEN [run EXCEPT !.stream = 0, !.pass = 0, !.fresh = FALSE]
                    ELSE run
  /\ UNCHANGED mode

\* The root folder cannot be opened or read on: a fault, no witness.
RootFault ==
  /\ run.pc = "loop" /\ ~MustActivate /\ queue.root = "ready"
  /\ queue' = [queue EXCEPT !.root = "late"]
  /\ dir' = [dir EXCEPT !.fault = TRUE]
  /\ run' = [run EXCEPT !.stream = 0, !.pass = 0]
  /\ UNCHANGED <<slot, mode, passes>>

\* A child folder is listed, or faults and waits.
ChildBatch(done) ==
  /\ run.pc = "loop" /\ queue.ready > 0
  /\ queue' = [queue EXCEPT !.ready = @ - 1,
                            !.late = IF done THEN @ ELSE @ + 1,
                            !.upkeep = @ \/ done]
  /\ UNCHANGED <<slot, mode, dir, run, passes>>

NothingDue == queue.root # "ready" /\ queue.ready = 0

\* Maintenance waits for the last job of the root.
Maintain ==
  /\ run.pc = "loop" /\ NothingDue /\ queue.root = "none" /\ queue.late = 0 /\ queue.upkeep
  /\ queue' = [queue EXCEPT !.upkeep = FALSE]
  /\ passes' = Settled(passes, queue')
  /\ UNCHANGED <<slot, mode, dir, run>>

Idle == NothingDue /\ ~(queue.root = "none" /\ queue.late = 0 /\ queue.upkeep)

\* Mutant: completion no longer waits for the jobs that the pass queued.
FinalizeEarly ==
  /\ At("refresh", "loop") /\ Idle /\ ~MustActivate
  /\ slot' = IF slot.phase # "active" THEN slot
             ELSE [slot EXCEPT !.phase =
                     IF slot.eof /\ dir.gen = slot.observed /\ dir.complete /\ ~dir.fault
                     THEN "completed" ELSE "unknown"]
  /\ Stop /\ UNCHANGED <<mode, queue, dir, passes>>

\* FinalizeManualRefresh; the command ends after it.
FinalizeManualRefresh ==
  /\ At("refresh", "loop") /\ Idle /\ ~MustActivate
  /\ slot' = IF slot.phase # "active" \/ ~WorkDrained(queue) THEN slot
             ELSE [slot EXCEPT !.phase =
                     IF slot.eof /\ dir.gen = slot.observed /\ dir.complete /\ ~dir.fault
                     THEN "completed" ELSE "unknown"]
  /\ Stop /\ UNCHANGED <<mode, queue, dir, passes>>

FinishScan ==
  /\ At("scan", "loop") /\ Idle /\ Stop
  /\ UNCHANGED <<slot, mode, queue, dir, passes>>

RefreshNext ==
  \/ \E want \in BOOLEAN : Preflight(want) \/ BeginScan(want)
  \/ ConfigureCompact \/ SeedRoot
  \/ LoseLineage \/ Adopt \/ RequestManualRefresh
  \/ TryActivate \/ OpenRoot \/ RootFault
  \/ \E complete \in BOOLEAN, children \in 0..MaxChildren : RootBatch(complete, children)
  \/ \E done \in BOOLEAN : ChildBatch(done)
  \/ Maintain \/ FinalizeManualRefresh \/ FinishScan
  \/ End \/ RetryDue

RefreshSpec == RefreshInit /\ [][RefreshNext]_refreshVars

-----------------------------------------------------------------------------
\* A receipt that says completed is about one listing of the root that was
\* started after the request was saved, ran to its end without interruption,
\* and whose queued folders and maintenance were all done.
CompletedPass ==
  slot.phase = "completed" =>
    \E p \in Started :
      /\ passes[p].gen = slot.observed /\ passes[p].request = slot.gen
      /\ passes[p].eof /\ passes[p].drained
=============================================================================
