------------------------------ MODULE FairTurn ------------------------------
(***************************************************************************)
(* One inventory turn of the worker, from the timer that wakes the loop to *)
(* the settled CPU window: the dispatch receipt                            *)
(* (internal/state/dispatch.go), the rotation over the configured roots    *)
(* (internal/state/fair_inventory.go), the durable CPU feedback            *)
(* (internal/state/cpu_feedback.go, internal/worker/cpu_feedback.go,       *)
(* internal/worker/cpu_budget.go) and the steps of the loop that uses them *)
(* (internal/worker/worker.go).                                            *)
(*                                                                         *)
(* The wall clock may be set forward or back at any moment, so each step   *)
(* reads it anew and may obtain any reading.  The elapsed clock only moves *)
(* forward and is only compared with deadlines of the same process; it is  *)
(* represented by what remains of each deadline, and Pass lets one unit go *)
(* by.  The process may die between any two steps, which also stands for a *)
(* commit whose reply is lost and for every error that makes the loop      *)
(* return; then only the saved rows survive.                               *)
(***************************************************************************)
EXTENDS Integers, FiniteSets, FiniteSetsExt

CONSTANTS
  RootCount,      \* the configured roots have the ids 1 .. RootCount
  MaxWall,        \* bound on the readings of the wall clock
  DayLen,         \* the length of a UTC day
  Interval,       \* the cadence of dispatch receipts
  Limits,         \* the daily receipt limits a configuration may set
  ClaimWindow,    \* FairInventoryClaimWindow
  RecoveryDelay,  \* CPUUnknownRecoveryDelay
  BackoffLimit,   \* CPUFeedbackBackoffLimit
  Percent,        \* the divisor 100 of the one percent target
  Measured,       \* pairs of process CPU and elapsed time of a window
  Dues            \* the due times a delayed or new job may get

ASSUME RootsAssumption == RootCount \in Nat \ {0}
ASSUME ClockAssumption == MaxWall \in Nat \ {0} /\ DayLen \in Nat \ {0}
ASSUME DelayAssumption ==
  /\ Interval \in Nat \ {0} /\ ClaimWindow \in Nat \ {0}
  /\ RecoveryDelay \in Nat \ {0}
ASSUME DuesAssumption == Dues \subseteq Nat /\ \E d \in Dues : d > MaxWall
ASSUME LimitsAssumption == Limits \subseteq Nat \ {0} /\ Limits # {}
ASSUME FeedbackAssumption ==
  /\ BackoffLimit \in Nat /\ Percent \in Nat \ {0}
  /\ Measured \subseteq Nat \X (Nat \ {0})

Roots == 1 .. RootCount
Walls == 1 .. MaxWall
DayOf(t) == t \div DayLen
Days == {DayOf(t) : t \in Walls}
Latest(a, b) == IF a < b THEN b ELSE a
Left(n) == IF n = 0 THEN 0 ELSE n - 1

\* A time that a job delayed at time n may be due at.
DuesFrom(n) == {d \in Dues : d >= n}

(***************************************************************************)
(* Saved state.  last = 0 stands for no dispatch row, token = 0 for no CPU *)
(* feedback row (a window's random token is represented by the receipt it  *)
(* began under) and the time 0 for SQL NULL.  A root has at most one       *)
(* inventory job here: its earliest one, the only one the selection reads. *)
(***************************************************************************)
VARIABLES
  dispatch, \* scan_dispatch: day, chunks, last_start_ns, next_start_ns
  cursor,   \* settings[worker.inventory.root_turn_v1]: root, dispatch
  cpu,      \* worker_cpu_feedback
  jobs,     \* each root's inventory job: status and due_at_ns
  remains   \* roots with saved maintenance left

(***************************************************************************)
(* The process.                                                            *)
(***************************************************************************)
VARIABLES
  phase,    \* where the loop stands
  limit,    \* MaxScanChunksPerDay of this process
  turn,     \* the turn in progress
  gate,     \* savedCPU, a cpuFeedbackGate
  cadence,  \* what remains of nextAllowed
  backoff   \* what remains of cpu.nextAllowed

(***************************************************************************)
(* Observation only: no action reads these.                                *)
(***************************************************************************)
VARIABLES
  charged,  \* receipts reserved on each wall-clock day
  passed,   \* turns a root saw go by while it could have had each of them
  owed      \* elapsed time this process still owes for its last window

saved == <<dispatch, cursor, cpu, jobs, remains>>
process == <<phase, limit, turn, gate, cadence, backoff>>
observed == <<charged, passed, owed>>
vars == <<saved, process, observed>>

NoTurn == [started |-> 0, reserved |-> 0, left |-> 0, source |-> FALSE,
           root |-> 0, kind |-> "none"]
NoGate == [token |-> 0, status |-> "", deadline |-> 0, left |-> 0]
NoJob == [status |-> "none", due |-> 0]
NoFeedback == [token |-> 0, status |-> "untracked", kind |-> "none", root |-> 0,
               high |-> 0, recorded |-> 0, settled |-> 0, used |-> 0,
               elapsed |-> 0, wait |-> 0, next |-> 0]

Init ==
  /\ dispatch = [day |-> 0, used |-> 0, last |-> 0, next |-> 0]
  /\ cursor = [root |-> 0, dispatch |-> 0]
  /\ cpu = NoFeedback
  /\ jobs = [r \in Roots |-> NoJob]
  /\ remains = {}
  /\ phase = "down" /\ limit = 0 /\ turn = NoTurn /\ gate = NoGate
  /\ cadence = 0 /\ backoff = 0
  /\ charged = [d \in Days |-> 0]
  /\ passed = [r \in Roots |-> 0]
  /\ owed = 0

-----------------------------------------------------------------------------
(***************************************************************************)
(* Selection and budgets.                                                  *)
(***************************************************************************)

\* The turn selectFairInventoryTurn may give root r at time n: its due source
\* job, or saved maintenance once no inventory job of any status is left.
Eligible(r, n, source) ==
  \/ source /\ jobs[r].status = "pending" /\ jobs[r].due <= n
  \/ jobs[r].status = "none" /\ r \in remains

KindOf(r) == IF jobs[r].status = "none" THEN "maintenance" ELSE "source"

\* Mutant: the search starts at the root that had the last turn.
SelectedStays(n, source) ==
  LET able == {r \in Roots : Eligible(r, n, source)}
      after == {r \in able : r >= cursor.root}
  IN  IF able = {} THEN 0 ELSE Min(IF after # {} THEN after ELSE able)

\* The search starts behind the root of the last turn and wraps around;
\* 0 when no root can have a turn.
Selected(n, source) ==
  LET able == {r \in Roots : Eligible(r, n, source)}
      after == {r \in able : r > cursor.root}
  IN  IF able = {} THEN 0 ELSE Min(IF after # {} THEN after ELSE able)

\* dispatchBudget: the receipts that count against the day of n.
UsedOn(n) ==
  IF dispatch.last # 0 /\ dispatch.day >= DayOf(n) THEN dispatch.used ELSE 0

\* The day a receipt reserved at n is charged to.
BudgetDay(n) ==
  IF dispatch.last # 0 /\ dispatch.day >= DayOf(n) THEN dispatch.day ELSE DayOf(n)

\* Mutant: the limit is compared one receipt late.
DispatchReasonOneMore(n) ==
  CASE dispatch.last # 0 /\ n < dispatch.last -> "clock_rollback"
    [] UsedOn(n) > limit -> "daily_chunk_limit"
    [] dispatch.last # 0 /\ n < dispatch.next -> "cadence"
    [] OTHER -> ""

\* The wait reason of dispatchBudget; the last test that applies wins.
DispatchReason(n) ==
  CASE dispatch.last # 0 /\ n < dispatch.last -> "clock_rollback"
    [] UsedOn(n) >= limit -> "daily_chunk_limit"
    [] dispatch.last # 0 /\ n < dispatch.next -> "cadence"
    [] OTHER -> ""

\* CPUFeedbackWait: idle time that gives the window a one percent share,
\* dividing first; the result is cut at the limit.
CPUFeedbackWait(c, e) ==
  LET headroom == c - (e \div Percent)
      exact == headroom * Percent - (e % Percent)
  IN  IF headroom <= 0 THEN 0
      ELSE IF headroom > (BackoffLimit \div Percent) + 1 \/ exact > BackoffLimit
           THEN BackoffLimit ELSE exact

Waits == {CPUFeedbackWait(m[1], m[2]) : m \in Measured} \cup {0}

\* Mutant: every refresh measures the saved deadline against the wall clock.
GateAfterReanchored(feedback, at) ==
  [token |-> feedback.token, status |-> feedback.status, deadline |-> feedback.next,
   left |-> IF feedback.next > at THEN feedback.next - at ELSE 0]

\* cpuFeedbackGate.update: an unchanged record keeps its live deadline.
GateAfter(feedback, at) ==
  IF /\ gate.token = feedback.token /\ gate.status = feedback.status
     /\ gate.deadline = feedback.next
  THEN gate
  ELSE [token |-> feedback.token, status |-> feedback.status, deadline |-> feedback.next,
        left |-> IF feedback.next > at THEN feedback.next - at ELSE 0]

\* Every wait of the tick is over: cadence, live and saved CPU backoff.
MayWake(g, now) ==
  /\ cadence = 0 /\ backoff = 0
  /\ now >= cpu.high /\ now >= g.deadline /\ g.left = 0

-----------------------------------------------------------------------------
(***************************************************************************)
(* Elapsed time and crashes.                                               *)
(***************************************************************************)

\* One unit of elapsed time goes by.
Pass ==
  /\ turn.left + gate.left + cadence + backoff + owed > 0
  /\ turn' = [turn EXCEPT !.left = Left(@)]
  /\ gate' = [gate EXCEPT !.left = Left(@)]
  /\ cadence' = Left(cadence) /\ backoff' = Left(backoff) /\ owed' = Left(owed)
  /\ UNCHANGED <<saved, phase, limit, charged, passed>>

\* What is left of the process when it is gone.
Gone ==
  /\ phase' = "down" /\ limit' = 0 /\ turn' = NoTurn /\ gate' = NoGate
  /\ cadence' = 0 /\ backoff' = 0 /\ owed' = 0

Crash ==
  /\ phase # "down"
  /\ Gone
  /\ UNCHANGED <<saved, charged, passed>>

-----------------------------------------------------------------------------
(***************************************************************************)
(* Startup.                                                                *)
(***************************************************************************)

\* A new process takes the lock and returns every running job to its place.
RecoverJobs ==
  /\ phase = "down"
  /\ \E l \in Limits : limit' = l
  /\ jobs' = [r \in Roots |-> IF jobs[r].status = "running"
                              THEN [jobs[r] EXCEPT !.status = "pending"] ELSE jobs[r]]
  /\ phase' = "recovering"
  /\ UNCHANGED <<dispatch, cursor, cpu, remains, turn, gate, cadence, backoff, observed>>

Recovered(now) ==
  [cpu EXCEPT !.status = "recovered_unknown", !.settled = now, !.high = now,
              !.wait = RecoveryDelay, !.next = now + RecoveryDelay]

\* RecoverCPUWindow: only a pending window is recovered, and not before the
\* saved high water; the live delay is measured from the same two readings.
RecoverCommit(now) ==
  /\ cpu' = IF now >= cpu.high /\ cpu.status = "pending" THEN Recovered(now) ELSE cpu
  /\ gate' = GateAfter(cpu', now)
  /\ owed' = IF cpu' # cpu THEN RecoveryDelay ELSE owed

\* recoverCPUFeedback before the loop; a rolled-back clock leaves the window
\* pending and the loop starts all the same.
RecoverAtStart(now) ==
  /\ phase = "recovering"
  /\ RecoverCommit(now)
  /\ phase' = "setup"
  /\ UNCHANGED <<dispatch, cursor, jobs, remains, limit, turn, cadence, backoff,
                 charged, passed>>

\* Mutant: the loop looks for pending windows while a turn is active, too.
RecoverInLoopAnytime(now) ==
  /\ phase \in {"setup", "idle", "running"}
  /\ cpu.status = "pending" /\ now >= cpu.high
  /\ RecoverCommit(now)
  /\ UNCHANGED <<dispatch, cursor, jobs, remains, phase, limit, turn, cadence, backoff,
                 charged, passed>>

\* The loop finds a window still pending once the clock has caught up.
RecoverInLoop(now) ==
  /\ phase \in {"setup", "idle"}
  /\ cpu.status = "pending" /\ now >= cpu.high
  /\ RecoverCommit(now)
  /\ UNCHANGED <<dispatch, cursor, jobs, remains, phase, limit, turn, cadence, backoff,
                 charged, passed>>

\* finishCPU without a marker: only the live backoff changes.
Observe == \E w \in Waits : backoff' = w

\* SeedBackgroundInventoryRevisitPage: every drained root gets a listing,
\* due now or an interval after its last one.
SeedRevisits(now) ==
  /\ phase = "setup"
  /\ cpu.status # "pending"
  /\ gate' = GateAfter(cpu, now) /\ MayWake(GateAfter(cpu, now), now)
  /\ \E due \in [Roots -> DuesFrom(now)] :
       jobs' = [r \in Roots |-> IF jobs[r].status = "none" /\ r \notin remains
                                THEN [status |-> "pending", due |-> due[r]] ELSE jobs[r]]
  /\ Observe
  /\ phase' = "idle"
  /\ UNCHANGED <<dispatch, cursor, cpu, remains, limit, turn, cadence, observed>>

-----------------------------------------------------------------------------
(***************************************************************************)
(* One turn.                                                               *)
(***************************************************************************)

\* The loop refreshes the saved feedback, sleeps, and the timer finds every
\* wait over.  Later readings of the clock date the window and find a root to
\* serve; the budget is only previewed here and decided by the reservation.
\* source tells whether the metadata, power, state and pacing policies admit
\* source work.
Wake(now) ==
  /\ phase = "idle" /\ cpu.status # "pending"
  /\ gate' = GateAfter(cpu, now) /\ MayWake(GateAfter(cpu, now), now)
  /\ \E started, planned \in Walls, source \in BOOLEAN :
       /\ Selected(planned, source) # 0
       /\ turn' = [NoTurn EXCEPT !.started = started, !.source = source]
  /\ phase' = "awake"
  /\ UNCHANGED <<saved, limit, cadence, backoff, observed>>

ReserveScanChunk(now) ==
  /\ phase = "awake"
  /\ DispatchReason(now) = ""
  /\ dispatch' = [day |-> BudgetDay(now), used |-> UsedOn(now) + 1,
                  last |-> now, next |-> now + Interval]
  /\ turn' = [turn EXCEPT !.reserved = now, !.left = ClaimWindow]
  /\ cadence' = Interval
  /\ charged' = [charged EXCEPT ![DayOf(now)] = @ + 1]
  /\ phase' = "reserved"
  /\ UNCHANGED <<cursor, cpu, jobs, remains, limit, gate, backoff, passed, owed>>

\* The turn ends without a claim: the reservation is deferred, the receipt has
\* aged, a policy withdraws or the claim finds nothing.  Nothing is refunded;
\* a window that was opened for a policy sample is measured.
Abandon ==
  /\ phase \in {"awake", "reserved"}
  /\ Observe \/ UNCHANGED backoff
  /\ turn' = NoTurn
  /\ phase' = "idle"
  /\ UNCHANGED <<saved, limit, gate, cadence, observed>>

\* inventoryStateReceiptCurrent
ReceiptCurrent(now) ==
  /\ turn.left > 0
  /\ turn.reserved <= now /\ now - turn.reserved < ClaimWindow

\* The dispatch row and the rotation still carry the receipt, unused.
ReceiptUnused ==
  /\ dispatch.last = turn.reserved /\ dispatch.day = DayOf(turn.reserved)
  /\ dispatch.used >= 1 /\ dispatch.next > dispatch.last
  /\ cursor.dispatch < turn.reserved

\* The lease of a source job and the rotation commit together.
ClaimCommit(r) ==
  /\ jobs' = [jobs EXCEPT ![r].status = IF KindOf(r) = "source" THEN "running" ELSE @]
  /\ cursor' = [root |-> r, dispatch |-> turn.reserved]

\* ClaimFairInventoryTurn; the last policy check may have withdrawn source.
ClaimTurn(now) ==
  /\ phase = "reserved"
  /\ ReceiptCurrent(now) /\ ReceiptUnused
  /\ \E source \in {turn.source, FALSE} :
       LET r == Selected(now, source)
       IN  /\ r # 0
           /\ ClaimCommit(r)
           /\ turn' = [turn EXCEPT !.root = r, !.kind = KindOf(r)]
           /\ passed' = [q \in Roots |->
                           IF q = r \/ ~Eligible(q, now, source) THEN 0 ELSE passed[q] + 1]
  /\ phase' = "claimed"
  /\ UNCHANGED <<dispatch, cpu, remains, limit, gate, cadence, backoff, charged, owed>>

\* FinishJob with the old cursor, due at the epoch.
Released == IF turn.kind = "source"
            THEN [jobs EXCEPT ![turn.root] = [status |-> "pending", due |-> 0]] ELSE jobs

\* BeginCPUWindow's refusals that end the process, in front of and behind the
\* two that only defer.
BeginStale(now) ==
  now < turn.started \/ ~ReceiptCurrent(now)
BeginConflict ==
  \/ cpu.status = "pending" \/ turn.reserved <= cpu.token
  \/ dispatch.last # turn.reserved \/ dispatch.day # DayOf(turn.reserved)
  \/ cursor # [root |-> turn.root, dispatch |-> turn.reserved]
  \/ turn.kind = "source" /\ jobs[turn.root].status # "running"
BeginDeferral(now) ==
  now < cpu.high \/ (cpu.status # "pending" /\ now < cpu.next)

\* The window may not begin yet: the job is released, the receipt is spent.
DeferWindow(now) ==
  /\ phase = "claimed"
  /\ ~BeginStale(now) /\ BeginDeferral(now)
  /\ jobs' = Released
  /\ Observe
  /\ turn' = NoTurn
  /\ phase' = "idle"
  /\ UNCHANGED <<dispatch, cursor, cpu, remains, limit, gate, cadence, observed>>

\* Any other refusal releases the job and the loop returns.
RefuseWindow(now) ==
  /\ phase = "claimed"
  /\ BeginStale(now) \/ (~BeginDeferral(now) /\ BeginConflict)
  /\ jobs' = Released
  /\ Gone
  /\ UNCHANGED <<dispatch, cursor, cpu, remains, charged, passed>>

Begun(now) ==
  [token |-> turn.reserved, status |-> "pending", kind |-> turn.kind,
   root |-> turn.root, high |-> now, recorded |-> now, settled |-> 0,
   used |-> 0, elapsed |-> 0, wait |-> 0, next |-> 0]

BeginWindow(now) ==
  /\ phase = "claimed"
  /\ ~BeginStale(now) /\ ~BeginDeferral(now) /\ ~BeginConflict
  /\ cpu' = Begun(now)
  /\ gate' = GateAfter(cpu', now)
  /\ phase' = "begun"
  /\ UNCHANGED <<dispatch, cursor, jobs, remains, limit, turn, cadence, backoff, observed>>

\* The session or the metadata ledger refuses after the window began.
RefuseLate ==
  /\ phase = "begun"
  /\ jobs' = Released
  /\ phase' = "settling"
  /\ UNCHANGED <<dispatch, cursor, cpu, remains, limit, turn, gate, cadence, backoff,
                 observed>>

\* The handler runs; the cadence counts from its start.
StartHandler ==
  /\ phase = "begun" /\ turn.kind = "source"
  /\ cadence' = Interval
  /\ phase' = "running"
  /\ UNCHANGED <<saved, limit, turn, gate, backoff, observed>>

\* The result is saved: a finished listing, its children or its continuation,
\* or a delayed retry; a finished listing may leave children to reconcile.
SaveProgress(now) ==
  /\ phase = "running"
  /\ \E job \in {NoJob} \cup [status : {"pending"}, due : {0} \cup DuesFrom(now)] :
       jobs' = [jobs EXCEPT ![turn.root] = job]
  /\ remains' \in {remains, remains \cup {turn.root}}
  /\ phase' = "saved"
  /\ UNCHANGED <<dispatch, cursor, cpu, limit, turn, gate, cadence, backoff, observed>>

\* One maintenance transaction of the root; the last one finalizes.
RetireInventory ==
  /\ phase = "begun" /\ turn.kind = "maintenance"
  /\ remains' \in {remains, remains \ {turn.root}}
  /\ phase' = IF turn.root \in remains' THEN "settling" ELSE "saved"
  /\ UNCHANGED <<dispatch, cursor, cpu, jobs, limit, turn, gate, cadence, backoff, observed>>

\* adaptive.finalize: a drained root gets its next listing.
Finalize(now) ==
  /\ phase = "saved"
  /\ \E due \in DuesFrom(now) :
       jobs' = IF jobs[turn.root].status = "none" /\ turn.root \notin remains
               THEN [jobs EXCEPT ![turn.root] = [status |-> "pending", due |-> due]]
               ELSE jobs
  /\ phase' = "settling"
  /\ UNCHANGED <<dispatch, cursor, cpu, remains, limit, turn, gate, cadence, backoff,
                 observed>>

Settled(now, status, c, e, w) ==
  [cpu EXCEPT !.status = status, !.settled = now, !.high = now, !.used = c,
              !.elapsed = e, !.wait = w, !.next = IF w > 0 THEN now + w ELSE 0]

\* finishCPU with the marker: the saved and the live delay share their anchors.
SettleWindow(now) ==
  /\ phase = "settling" /\ now >= cpu.high
  /\ \/ \E m \in Measured :
          cpu' = Settled(now, "observed", m[1], m[2], CPUFeedbackWait(m[1], m[2]))
     \/ cpu' = Settled(now, "completed_unknown", 0, 0, 0)
  /\ gate' = GateAfter(cpu', now)
  /\ backoff' = cpu'.wait /\ owed' = cpu'.wait
  /\ turn' = NoTurn
  /\ phase' = "idle"
  /\ UNCHANGED <<dispatch, cursor, jobs, remains, limit, cadence, charged, passed>>

\* The clock is behind the window's record: the settlement is refused and the
\* loop returns with the window pending.
RefuseSettlement(now) ==
  /\ phase = "settling" /\ now < cpu.high
  /\ Gone
  /\ UNCHANGED <<saved, charged, passed>>

Next ==
  \/ Pass \/ Crash
  \/ RecoverJobs \/ Abandon \/ RefuseLate \/ StartHandler \/ RetireInventory
  \/ \E now \in Walls :
       \/ RecoverAtStart(now) \/ RecoverInLoop(now) \/ SeedRevisits(now)
       \/ Wake(now) \/ ReserveScanChunk(now) \/ ClaimTurn(now)
       \/ DeferWindow(now) \/ RefuseWindow(now) \/ BeginWindow(now)
       \/ SaveProgress(now) \/ Finalize(now)
       \/ SettleWindow(now) \/ RefuseSettlement(now)

Spec == Init /\ [][Next]_vars

-----------------------------------------------------------------------------
(***************************************************************************)
(* Properties.                                                             *)
(***************************************************************************)

Statuses == {"untracked", "pending", "observed", "completed_unknown", "recovered_unknown"}
Kinds == {"none", "source", "maintenance"}
Phases == {"down", "recovering", "setup", "idle", "awake", "reserved", "claimed", "begun",
           "running", "saved", "settling"}

\* Every variable has its type.
TypeOK ==
  /\ dispatch \in [day : Nat, used : Nat, last : Nat, next : Nat]
  /\ cursor \in [root : Nat, dispatch : Nat]
  /\ cpu \in [token : Nat, status : Statuses, kind : Kinds, root : Nat, high : Nat,
              recorded : Nat, settled : Nat, used : Nat, elapsed : Nat, wait : Nat, next : Nat]
  /\ jobs \in [Roots -> [status : {"none", "pending", "running"}, due : Nat]]
  /\ remains \subseteq Roots
  /\ phase \in Phases
  /\ limit \in Limits \cup {0}
  /\ turn \in [started : Nat, reserved : Nat, left : Nat, source : BOOLEAN, root : Nat,
               kind : Kinds]
  /\ gate \in [token : Nat, status : Statuses \cup {""}, deadline : Nat, left : Nat]
  /\ cadence \in Nat /\ backoff \in Nat /\ owed \in Nat
  /\ charged \in [Days -> Nat]
  /\ passed \in [Roots -> Nat]

\* A loop that waits for its next turn holds no lease: a lease only ends with
\* its holder, so one left behind would park the root until a restart.
IdleHoldsNoLease ==
  phase \in {"setup", "idle", "awake", "reserved"} =>
    \A r \in Roots : jobs[r].status # "running"

\* validCPUFeedback, which every reader of the saved row demands: a row that
\* fails it stops the worker at every start from then on.
FeedbackValid ==
  cpu.token # 0 =>
    /\ cpu.kind # "none" /\ cpu.root \in Roots
    /\ cpu.token <= cpu.recorded /\ cpu.recorded <= cpu.high
    /\ cpu.wait <= Latest(BackoffLimit, RecoveryDelay)
    /\ cpu.status = "pending" =>
         cpu.settled = 0 /\ cpu.used = 0 /\ cpu.elapsed = 0 /\ cpu.wait = 0 /\ cpu.next = 0
    /\ cpu.status # "pending" =>
         /\ cpu.recorded <= cpu.settled /\ cpu.settled <= cpu.high
         /\ cpu.next = IF cpu.wait = 0 THEN 0 ELSE cpu.settled + cpu.wait
    /\ cpu.status = "observed" => cpu.wait = CPUFeedbackWait(cpu.used, cpu.elapsed)
    /\ cpu.status = "recovered_unknown" => cpu.wait = RecoveryDelay

\* Work is accounted before it starts: while a turn reads the source, retires
\* or settles, the saved window is pending and belongs to the newest receipt,
\* to the root the rotation stands on and to the lease the turn holds.  When
\* the loop waits no lease is left behind, and the saved row is one that every
\* later start can read.
WorkAccounted ==
  /\ TypeOK /\ IdleHoldsNoLease /\ FeedbackValid
  /\ phase \in {"begun", "running", "saved", "settling"} =>
    /\ cpu.status = "pending"
    /\ cpu.token = dispatch.last /\ cpu.token = cursor.dispatch
    /\ cpu.root = cursor.root /\ cpu.root = turn.root /\ cpu.kind = turn.kind
    /\ phase = "running" => jobs[turn.root].status = "running"

\* No root is passed over more often than there are other roots, as long as it
\* could have had every one of those turns; restarts do not change that.
EligibleRootsServed == \A r \in Roots : passed[r] < RootCount

\* A receipt is only issued below the day's limit, counting every receipt of
\* that wall-clock day, and at least an interval after the receipt before it,
\* whatever crashes and clock changes came between them.
ReceiptPaced ==
  charged' # charged =>
    /\ \A d \in Days : charged'[d] # charged[d] => charged[d] < limit
    /\ dispatch.last # 0 => dispatch'.last >= dispatch.last + Interval
ReceiptsPaced == [][ReceiptPaced]_vars

\* A window only begins when the process has waited out, on the elapsed clock,
\* what its last window or recovery cost, and the wall clock shows the saved
\* deadline: setting the clock forward cannot buy a window.
WindowWaited ==
  cpu'.token # cpu.token => owed = 0 /\ cpu'.recorded >= Latest(cpu.next, cpu.high)
BackoffServed == [][WindowWaited]_vars

=============================================================================
