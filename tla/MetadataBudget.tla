--------------------------- MODULE MetadataBudget ---------------------------
(***************************************************************************)
(* The durable ledger of scanner metadata attempts                         *)
(* (internal/state/metadata_budget.go) together with the only process that *)
(* uses it, the worker loop with its in-memory permit windows              *)
(* (internal/worker/metadata_window.go and the reserve, handle and settle  *)
(* steps of internal/worker/worker.go).                                    *)
(*                                                                         *)
(* Every scanner API call is admitted by a permit window; a window spends  *)
(* an allowance that was charged to the ledger before the source was       *)
(* touched.  The wall clock is read anew by every call and may jump either *)
(* way between two reads; the elapsed clock only moves forward.  The       *)
(* process may die between any two steps; only the ledger survives.        *)
(***************************************************************************)
EXTENDS Integers, FiniteSets

CONSTANTS
  Times,             \* the wall-clock readings a call may obtain
  DayLen,            \* the length of a UTC day, in clock units
  Work,              \* one source work window (worker.go: work)
  Lease,             \* a job lease counted from its claim (work plus 10s)
  StartupAllowance,  \* attempts reserved for building the scanner
  NextAllowance,     \* attempts reserved for one scanner step
  Limits,            \* the daily limits a configuration may set
  MaxCharge,         \* math.MaxInt64, the integer bound of the total charges
  MaxElapsed,        \* bound on the elapsed clock within one turn
  MaxReservations    \* bound on the reservations of a behaviour

ASSUME TimesAssumption == Times \subseteq Nat \ {0}
ASSUME LengthsAssumption == DayLen \in Nat \ {0} /\ Work \in Nat \ {0} /\ Lease \in Nat \ {0}
ASSUME AllowanceAssumption ==
  StartupAllowance \in Nat \ {0} /\ NextAllowance \in Nat \ {0}
ASSUME LimitsAssumption == Limits \subseteq Nat \ {0} /\ Limits # {}
ASSUME BoundsAssumption ==
  MaxCharge \in Nat /\ MaxElapsed \in Nat /\ MaxReservations \in Nat

Scopes == {"startup", "next"}

Minimum(a, b) == IF a < b THEN a ELSE b
Maximum(a, b) == IF a < b THEN b ELSE a

DayOf(t) == t \div DayLen
Midnight(t) == (DayOf(t) + 1) * DayLen
Days == {DayOf(t) : t \in Times}

Allowance(s) == IF s = "startup" THEN StartupAllowance ELSE NextAllowance

(***************************************************************************)
(* The ledger.  started = 0 stands for a ledger without its singleton row; *)
(* a record with status "none" for a scope that never was reserved.        *)
(***************************************************************************)
VARIABLES
  started,   \* tracking_started_ns
  day,       \* the day the daily charges belong to
  highWater, \* max_now_ns
  daily,     \* charges of that day
  total,     \* charges since tracking began
  rec        \* scan_metadata_reservations, one row per scope

(***************************************************************************)
(* The process: none of it survives Crash.                                 *)
(***************************************************************************)
VARIABLES
  phase,     \* where the worker loop stands
  limit,     \* the configured daily limit of this process
  built,     \* the scanner exists
  lease,     \* lease_until_ns of the claimed job
  win,       \* the active permit windows (activeMetadata)
  elapsed,   \* the elapsed clock, counted from the claim
  settleAt,  \* the time settleMetadata passes to every settlement
  exiting    \* the loop returns once it has settled

(***************************************************************************)
(* Observation only: no action reads these.                                *)
(***************************************************************************)
VARIABLES
  issued,    \* reservations made, which also names their random tokens
  admitted,  \* attempts admitted on each wall-clock day
  attempt,   \* clocks of the last admitted attempt of this turn
  anchor     \* wall and elapsed clock at which this turn's first window began

ledger == <<started, day, highWater, daily, total, rec>>
process == <<phase, limit, built, lease, win, elapsed, settleAt, exiting>>
observed == <<admitted, attempt, anchor>>
vars == <<ledger, process, issued, observed>>

Charges == [reserved : Nat, observed : Nat, unknown : Nat]
NoCharges == [reserved |-> 0, observed |-> 0, unknown |-> 0]

Records == [status : {"none", "reserved", "settled", "unknown"}, token : Nat,
            day : Nat, started : Nat, expires : Nat, allowance : Nat, observed : Nat]
Windows == [token : Nat, high : Nat, wallDeadline : Nat, deadline : Int, observed : Nat]
Clocks == [wall : Nat, elapsed : Nat]

NoRecord == [status |-> "none", token |-> 0, day |-> 0, started |-> 0,
             expires |-> 0, allowance |-> 0, observed |-> 0]
NoWindow == [token |-> 0, high |-> 0, wallDeadline |-> 0, deadline |-> 0,
             observed |-> 0]
NoClocks == [wall |-> 0, elapsed |-> 0]

Outstanding(s) == rec[s].status = "reserved"
OutstandingCharge(s) == IF Outstanding(s) THEN rec[s].allowance ELSE 0
Active(s) == win[s].token # 0

Init ==
  /\ started = 0 /\ day = 0 /\ highWater = 0
  /\ daily = NoCharges /\ total = NoCharges
  /\ rec = [s \in Scopes |-> NoRecord]
  /\ phase = "down" /\ limit = 0 /\ built = FALSE /\ lease = 0
  /\ win = [s \in Scopes |-> NoWindow]
  /\ elapsed = 0 /\ settleAt = 0 /\ exiting = FALSE
  /\ issued = 0
  /\ admitted = [d \in Days |-> 0]
  /\ attempt = NoClocks /\ anchor = NoClocks

-----------------------------------------------------------------------------
(***************************************************************************)
(* Library calls on the ledger.                                            *)
(***************************************************************************)

\* Mutant: the quota is left to the readiness test of the plan.
ReserveDeferredNoQuota(s, now) ==
  \/ started # 0 /\ now < highWater
  \/ \E r \in Scopes : Outstanding(r) /\ (r = s \/ rec[r].day # DayOf(now))

\* The refusals of ReserveMetadata, in the order the code tests them.
ReserveDeferred(s, now) ==
  \/ started # 0 /\ now < highWater
  \/ \E r \in Scopes : Outstanding(r) /\ (r = s \/ rec[r].day # DayOf(now))
  \/ LET used == IF started # 0 /\ DayOf(now) <= day THEN daily.reserved ELSE 0
     IN  used > limit \/ Allowance(s) > limit - used

ReserveStale(s, now) == s = "next" /\ lease <= now

\* Integer bound of the total, tested before the job's lease.
ReserveOverflow(s) == Allowance(s) > MaxCharge - total.reserved

\* Mutant: a step's reservation expires with its lease, past midnight too.
ReserveCommitLeaseOnly(s, now) ==
  LET fresh == started = 0 \/ DayOf(now) > day
      base == IF fresh THEN NoCharges ELSE daily
  IN  /\ started' = IF started = 0 THEN now ELSE started
      /\ day' = IF fresh THEN DayOf(now) ELSE day
      /\ highWater' = now
      /\ daily' = [base EXCEPT !.reserved = @ + Allowance(s)]
      /\ total' = [total EXCEPT !.reserved = @ + Allowance(s)]
      /\ rec' = [rec EXCEPT ![s] =
                   [status |-> "reserved", token |-> issued + 1,
                    day |-> IF fresh THEN DayOf(now) ELSE day, started |-> now,
                    expires |-> IF s = "next" THEN lease ELSE Midnight(now),
                    allowance |-> Allowance(s), observed |-> 0]]
      /\ issued' = issued + 1

\* The commit of ReserveMetadata: the whole allowance is charged, a new day
\* starts its charges from zero and the scope's old record is replaced.
ReserveCommit(s, now) ==
  LET fresh == started = 0 \/ DayOf(now) > day
      base == IF fresh THEN NoCharges ELSE daily
      expires == IF s = "next" THEN Minimum(Midnight(now), lease) ELSE Midnight(now)
  IN  /\ started' = IF started = 0 THEN now ELSE started
      /\ day' = IF fresh THEN DayOf(now) ELSE day
      /\ highWater' = now
      /\ daily' = [base EXCEPT !.reserved = @ + Allowance(s)]
      /\ total' = [total EXCEPT !.reserved = @ + Allowance(s)]
      /\ rec' = [rec EXCEPT ![s] =
                   [status |-> "reserved", token |-> issued + 1,
                    day |-> IF fresh THEN DayOf(now) ELSE day, started |-> now,
                    expires |-> expires, allowance |-> Allowance(s), observed |-> 0]]
      /\ issued' = issued + 1

\* SettleMetadata finds its record by token: only an unsettled one is charged.
SettleStale(s) == rec[s].token # win[s].token \/ rec[s].status # "reserved"

\* Mutant: unused credits are handed back.
SettleCommitRefunds(s, now) ==
  LET unused == rec[s].allowance - win[s].observed
  IN  /\ daily' = [daily EXCEPT !.observed = @ + win[s].observed, !.reserved = @ - unused]
      /\ total' = [total EXCEPT !.observed = @ + win[s].observed]
      /\ highWater' = Maximum(highWater, now)
      /\ rec' = [rec EXCEPT ![s] = [@ EXCEPT !.status = "settled", !.observed = win[s].observed]]
      /\ UNCHANGED <<started, day, issued>>

SettleCommit(s, now) ==
  /\ daily' = [daily EXCEPT !.observed = @ + win[s].observed]
  /\ total' = [total EXCEPT !.observed = @ + win[s].observed]
  /\ highWater' = Maximum(highWater, now)
  /\ rec' = [rec EXCEPT ![s] = [@ EXCEPT !.status = "settled", !.observed = win[s].observed]]
  /\ UNCHANGED <<started, day, issued>>

\* Mutant: recovery forgets the lost allowances.
RecoverCommitUncharged(now) ==
  IF \E s \in Scopes : Outstanding(s)
  THEN /\ highWater' = Maximum(highWater, now)
       /\ rec' = [s \in Scopes |-> IF Outstanding(s)
                                   THEN [rec[s] EXCEPT !.status = "unknown"]
                                   ELSE rec[s]]
       /\ UNCHANGED <<started, day, daily, total, issued>>
  ELSE UNCHANGED <<ledger, issued>>

\* RecoverMetadataReservations turns every outstanding allowance into an
\* unknown charge, and writes nothing when there is none.
RecoverCommit(now) ==
  LET lost == OutstandingCharge("startup") + OutstandingCharge("next")
  IN  IF \E s \in Scopes : Outstanding(s)
      THEN /\ daily' = [daily EXCEPT !.unknown = @ + lost]
           /\ total' = [total EXCEPT !.unknown = @ + lost]
           /\ highWater' = Maximum(highWater, now)
           /\ rec' = [s \in Scopes |-> IF Outstanding(s)
                                       THEN [rec[s] EXCEPT !.status = "unknown"]
                                       ELSE rec[s]]
           /\ UNCHANGED <<started, day, issued>>
      ELSE UNCHANGED <<ledger, issued>>

-----------------------------------------------------------------------------
(***************************************************************************)
(* The worker.                                                             *)
(***************************************************************************)

\* Run: recovery precedes the first dispatch of every process.
Start(now) ==
  /\ phase = "down"
  /\ RecoverCommit(now)
  /\ phase' = "idle" /\ limit' \in Limits
  /\ UNCHANGED <<built, lease, win, elapsed, settleAt, exiting, observed>>

\* metadataReadiness over metadataSnapshot: both allowances must fit.
Ready(now) ==
  LET used == IF started # 0 /\ DayOf(now) <= day THEN daily.reserved ELSE 0
      needed == NextAllowance + (IF built THEN 0 ELSE StartupAllowance)
  IN  /\ started # 0 => now >= highWater
      /\ used < limit /\ needed <= limit - used

\* A snapshot that finds work of an older day outstanding has no next-allowed
\* time: metadataReadiness returns an error and the loop exits.
ReadinessFails(now) ==
  /\ started # 0 /\ now >= highWater /\ DayOf(now) > day
  /\ \E s \in Scopes : Outstanding(s)

\* The loop plans a source turn and claims its job.
Claim(now) ==
  /\ phase = "idle" /\ Ready(now) /\ ~ReadinessFails(now)
  /\ issued + 2 <= MaxReservations
  /\ phase' = IF built THEN "reserveNext" ELSE "reserveStartup"
  /\ lease' = now + Lease /\ elapsed' = 0
  /\ attempt' = NoClocks /\ anchor' = NoClocks
  /\ UNCHANGED <<ledger, issued, limit, built, win, settleAt, exiting, admitted>>

\* metadataWindowWithClocks: the wall deadline is anchored to the charged
\* reservation, the elapsed one to a second reading of both clocks.
NewWindow(s, now, wall, expires) ==
  LET wallDeadline == Minimum(now + Work, expires)
  IN  [token |-> issued + 1, high |-> now, wallDeadline |-> wallDeadline,
       deadline |-> elapsed + Minimum(wallDeadline - wall, Work), observed |-> 0]

ReserveStartup(now, wall) ==
  /\ phase = "reserveStartup"
  /\ ~ReserveDeferred("startup", now) /\ ~ReserveOverflow("startup")
  /\ ReserveCommit("startup", now)
  /\ win' = [win EXCEPT !["startup"] = NewWindow("startup", now, wall, Midnight(now))]
  /\ anchor' = [wall |-> now, elapsed |-> elapsed]
  /\ phase' = "reserveNext"
  /\ UNCHANGED <<limit, built, lease, elapsed, settleAt, exiting, admitted, attempt>>

\* The second reservation also moves the startup window's fence forward.
ReserveNext(now, wall) ==
  /\ phase = "reserveNext"
  /\ ~ReserveDeferred("next", now) /\ ~ReserveOverflow("next") /\ ~ReserveStale("next", now)
  /\ ReserveCommit("next", now)
  /\ LET next == NewWindow("next", now, wall, Minimum(Midnight(now), lease))
     IN  win' = [win EXCEPT !["next"] = next,
                            !["startup"].high = IF Active("startup") THEN now ELSE @]
  /\ anchor' = IF Active("startup") THEN anchor ELSE [wall |-> now, elapsed |-> elapsed]
  /\ phase' = "running"
  /\ UNCHANGED <<limit, built, lease, elapsed, settleAt, exiting, admitted, attempt>>

\* settleMetadata uses the latest time any window has seen.
SettleTime(now) == Maximum(now, Maximum(win["startup"].high, win["next"].high))

BeginSettle(now, exit) ==
  /\ phase' = "settling"
  /\ settleAt' = SettleTime(now)
  /\ exiting' = exit
  /\ lease' = 0 /\ elapsed' = 0    \* not read again before the next claim
  /\ UNCHANGED <<ledger, issued, limit, built, win, observed>>

\* A refused reservation settles what was reserved as zero attempts.  Only a
\* deferral keeps the loop running.
ReserveRefused(s, now, wall) ==
  /\ phase = IF s = "startup" THEN "reserveStartup" ELSE "reserveNext"
  /\ ReserveDeferred(s, now) \/ ReserveOverflow(s) \/ ReserveStale(s, now)
  /\ BeginSettle(wall, ~ReserveDeferred(s, now))

\* fenceLocked: a window observes a wall time even when it refuses it.
Fence(s, wall) ==
  /\ wall >= win[s].high
  /\ wall < win[s].wallDeadline /\ wall < rec[s].expires
  /\ elapsed < win[s].deadline

\* Construction spends the startup window, the scanner step the next one.
Using(s) == phase = "running" /\ s = (IF built THEN "next" ELSE "startup") /\ Active(s)

Counted(w, wall) == [w EXCEPT !.observed = w.observed + 1, !.high = wall]

\* permitAt: the attempt is counted before the scanner API runs.
Permit(s, wall) ==
  /\ Using(s) /\ Fence(s, wall) /\ win[s].observed < rec[s].allowance
  /\ win' = [win EXCEPT ![s] = Counted(win[s], wall)]
  /\ admitted' = [admitted EXCEPT ![DayOf(wall)] = @ + 1]
  /\ attempt' = [wall |-> wall, elapsed |-> elapsed]
  /\ UNCHANGED <<ledger, issued, phase, limit, built, lease, elapsed, settleAt, exiting, anchor>>

PermitRefused(s, wall) ==
  /\ Using(s) /\ ~(Fence(s, wall) /\ win[s].observed < rec[s].allowance)
  /\ win' = [win EXCEPT ![s].high = Maximum(@, wall)]
  /\ UNCHANGED <<ledger, issued, phase, limit, built, lease, elapsed, settleAt, exiting, observed>>

\* Mutant: the step takes over the fence but not the deadlines.
InheritFenceOnly(next, previous) == [next EXCEPT !.high = Maximum(@, previous.high)]

\* inheritHighWater: the step inherits the fence and the earliest deadlines.
Inherit(next, previous) ==
  [next EXCEPT !.high = Maximum(@, previous.high),
               !.deadline = Minimum(@, previous.deadline),
               !.wallDeadline = Minimum(@, previous.wallDeadline)]

\* The scanner is built and published; the step continues in the same turn.
Construct ==
  /\ phase = "running" /\ ~built
  /\ built' = TRUE
  /\ win' = [win EXCEPT !["next"] = Inherit(win["next"], win["startup"])]
  /\ UNCHANGED <<ledger, issued, phase, limit, lease, elapsed, settleAt, exiting, observed>>

ElapsedTick ==
  /\ phase \in {"reserveNext", "running"} /\ elapsed < MaxElapsed
  /\ elapsed' = elapsed + 1
  /\ UNCHANGED <<ledger, issued, phase, limit, built, lease, win, settleAt, exiting, observed>>

\* The handler has returned, or was refused before it started.
HandlerDone(now) == phase = "running" /\ BeginSettle(now, FALSE)

\* Mutant: a panicked handler's windows are recovered and then settled too.
HandlerPanickedTwice(now) ==
  /\ phase = "running"
  /\ RecoverCommit(SettleTime(now))
  /\ phase' = "settling" /\ settleAt' = SettleTime(now)
  /\ lease' = 0 /\ elapsed' = 0
  /\ UNCHANGED <<limit, built, win, exiting, observed>>

\* A panicked handler's attempts are unknown: its reservations are recovered
\* in one transaction.
HandlerPanicked(now) ==
  /\ phase = "running"
  /\ RecoverCommit(SettleTime(now))
  /\ phase' = "idle" /\ win' = [s \in Scopes |-> NoWindow]
  /\ lease' = 0 /\ elapsed' = 0
  /\ UNCHANGED <<limit, built, settleAt, exiting, observed>>

\* One settlement, startup before next; each is a transaction of its own.
Settling(s) == phase = "settling" /\ Active(s) /\ (s = "next" => ~Active("startup"))

Settle(s) ==
  /\ Settling(s) /\ ~SettleStale(s)
  /\ SettleCommit(s, settleAt)
  /\ win' = [win EXCEPT ![s] = NoWindow]
  /\ UNCHANGED <<phase, limit, built, lease, elapsed, settleAt, exiting, observed>>

\* Death of the process, or a return of Run: memory is gone, the ledger stays.
Halt ==
  /\ phase' = "down" /\ limit' = 0 /\ built' = FALSE /\ lease' = 0
  /\ win' = [s \in Scopes |-> NoWindow]
  /\ elapsed' = 0 /\ settleAt' = 0 /\ exiting' = FALSE
  /\ attempt' = NoClocks /\ anchor' = NoClocks
  /\ UNCHANGED <<ledger, issued, admitted>>

Settled ==
  /\ phase = "settling" /\ \A s \in Scopes : ~Active(s)
  /\ IF exiting
     THEN Halt
     ELSE /\ phase' = "idle" /\ settleAt' = 0
          /\ UNCHANGED <<ledger, issued, limit, built, lease, win, elapsed, exiting, observed>>

Crash == phase # "down" /\ Halt

Next ==
  \/ \E now \in Times :
       \/ Start(now) \/ Claim(now) \/ HandlerDone(now) \/ HandlerPanicked(now)
       \/ \E wall \in Times : ReserveStartup(now, wall) \/ ReserveNext(now, wall)
       \/ \E wall \in Times, s \in Scopes : ReserveRefused(s, now, wall)
       \/ \E s \in Scopes : Permit(s, now) \/ PermitRefused(s, now)
  \/ \E s \in Scopes : Settle(s)
  \/ Construct \/ ElapsedTick \/ Settled \/ Crash

Spec == Init /\ [][Next]_vars

-----------------------------------------------------------------------------
(***************************************************************************)
(* Properties.                                                             *)
(***************************************************************************)

\* The types of the ledger, of the process and of the observation variables.
TypeOK ==
  /\ started \in Nat /\ day \in Nat /\ highWater \in Nat
  /\ daily \in Charges /\ total \in Charges
  /\ rec \in [Scopes -> Records]
  /\ phase \in {"down", "idle", "reserveStartup", "reserveNext", "running", "settling"}
  /\ limit \in Nat /\ built \in BOOLEAN /\ lease \in Nat
  /\ win \in [Scopes -> Windows]
  /\ elapsed \in Nat /\ settleAt \in Nat /\ exiting \in BOOLEAN
  /\ issued \in Nat
  /\ admitted \in [Days -> Nat]
  /\ attempt \in Clocks /\ anchor \in Clocks

\* What the retained record of a scope contributed to the charges of the
\* ledger's day, and to those of earlier days.
Part(counts, n) == IF counts THEN n ELSE 0
OfDay(s) == rec[s].status # "none" /\ rec[s].day = day
OfPast(s) == rec[s].status # "none" /\ rec[s].day # day

DayReserved(s) == Part(OfDay(s), rec[s].allowance)
DayObserved(s) == Part(OfDay(s) /\ rec[s].status = "settled", rec[s].observed)
DayUnknown(s) == Part(OfDay(s) /\ rec[s].status = "unknown", rec[s].allowance)
PastReserved(s) == Part(OfPast(s), rec[s].allowance)
PastObserved(s) == Part(OfPast(s) /\ rec[s].status = "settled", rec[s].observed)
PastUnknown(s) == Part(OfPast(s) /\ rec[s].status = "unknown", rec[s].allowance)

OutstandingTotal == OutstandingCharge("startup") + OutstandingCharge("next")

\* metadataReservationValid, for the reservation of one scope.
ReservationValid(s) ==
  LET r == rec[s]
  IN  /\ r.allowance = Allowance(s) /\ r.started > 0
      /\ r.day = DayOf(r.started)
      /\ r.started < r.expires /\ r.expires <= Midnight(r.started)
      /\ s = "startup" => r.expires = Midnight(r.started)

\* metadataRead's tests of the singleton row and of the charges.
SummaryValid ==
  /\ started <= highWater /\ DayOf(started) <= day /\ day <= DayOf(highWater)
  /\ daily.reserved <= total.reserved
  /\ daily.observed <= total.observed
  /\ daily.unknown <= total.unknown
  /\ daily.observed + daily.unknown + OutstandingTotal <= daily.reserved
  /\ total.observed + total.unknown + OutstandingTotal <= total.reserved
  /\ daily.reserved - daily.observed - daily.unknown
       <= total.reserved - total.observed - total.unknown

\* metadataRead's tests of one retained record.
RecordValid(s) ==
  /\ ReservationValid(s)
  /\ started <= rec[s].started /\ rec[s].started <= highWater /\ rec[s].day <= day
  /\ Outstanding(s) => rec[s].day = day
  /\ rec[s].observed <= rec[s].allowance

\* metadataRead's tests of the retained records against the charges.
RetainedValid ==
  /\ DayReserved("startup") + DayReserved("next") <= daily.reserved
  /\ DayObserved("startup") + DayObserved("next") <= daily.observed
  /\ DayUnknown("startup") + DayUnknown("next") <= daily.unknown
  /\ DayReserved("startup") + DayReserved("next")
       + PastReserved("startup") + PastReserved("next") <= total.reserved
  /\ DayObserved("startup") + DayObserved("next")
       + PastObserved("startup") + PastObserved("next") <= total.observed
  /\ DayUnknown("startup") + DayUnknown("next")
       + PastUnknown("startup") + PastUnknown("next") <= total.unknown

\* metadataRead never reports ErrMetadataCorrupt for a ledger that only this
\* code has written, whatever the clocks did and wherever the process died:
\* a corrupt verdict would stop every later start of the worker.
LedgerValid ==
  IF started = 0
  THEN \A s \in Scopes : rec[s].status = "none"
  ELSE /\ SummaryValid /\ RetainedValid
       /\ \A s \in Scopes : rec[s].status # "none" => RecordValid(s)

\* What a live or lost reservation may have spent so far.
Spent(s) ==
  IF ~Outstanding(s) THEN 0
  ELSE IF Active(s) THEN win[s].observed ELSE rec[s].allowance

\* The ledger never under-reports: the attempts admitted on its day are
\* covered by what was settled, what was declared unknown and what is still
\* outstanding, also when the counting window was lost in a crash.
AttemptsCovered ==
  day \in Days =>
    admitted[day] <= daily.observed + daily.unknown + Spent("startup") + Spent("next")

\* No UTC day sees more scanner attempts than a configured daily limit, across
\* restarts, lost windows and clock jumps.
DailyLimit == \A d \in Days : \E l \in Limits : admitted[d] <= l

ChargesKept ==
  /\ highWater <= highWater'
  /\ \A f \in {"reserved", "observed", "unknown"} :
       total[f] <= total'[f] /\ (day' = day => daily[f] <= daily'[f])

\* "Credits are never refunded": no step lowers a total or the high-water
\* mark, nor a daily charge while the day stays the same.
ChargesNeverRefunded == [][ChargesKept]_vars

\* An idle loop has nothing outstanding, so metadataReadiness never ends the
\* worker with ErrMetadataOutstanding.
IdleSettled == phase = "idle" => \A s \in Scopes : ~Outstanding(s)

\* The worker's own settlements are never refused as stale, which would end
\* the worker: every active window still owns its scope's open record.
SettlementAccepted == \A s \in Scopes : Active(s) => ~SettleStale(s)

\* Building the scanner and its first step share one work window, on both
\* clocks: the later reservation does not extend the turn.
OneWorkWindow ==
  attempt # NoClocks =>
    /\ anchor.wall <= attempt.wall /\ attempt.wall < anchor.wall + Work
    /\ attempt.elapsed < anchor.elapsed + Work

-----------------------------------------------------------------------------
(***************************************************************************)
(* The inductive invariant behind LedgerValid, AttemptsCovered, DailyLimit,*)
(* IdleSettled and SettlementAccepted.                                     *)
(***************************************************************************)

\* The charges of earlier days are charges of their own, and what retained
\* records of earlier days contributed is found among them.
PastInv ==
  /\ PastReserved("startup") + PastReserved("next") <= total.reserved - daily.reserved
  /\ PastObserved("startup") + PastObserved("next") <= total.observed - daily.observed
  /\ PastUnknown("startup") + PastUnknown("next") <= total.unknown - daily.unknown

\* The ledger is valid, or untracked and empty.
LedgerInv ==
  IF started = 0
  THEN (\A s \in Scopes : rec[s].status = "none") /\ daily = NoCharges /\ total = NoCharges
  ELSE /\ SummaryValid /\ RetainedValid /\ PastInv
       /\ \A s \in Scopes : rec[s].status # "none" => RecordValid(s)

\* Between death and recovery a reservation may be open without a window;
\* otherwise windows and open reservations belong together.
WindowInv ==
  /\ phase \in {"down", "idle"} => \A s \in Scopes : ~Active(s)
  /\ phase # "down" => \A s \in Scopes : Outstanding(s) => Active(s)
  /\ \A s \in Scopes : Active(s) =>
       /\ ~SettleStale(s)
       /\ win[s].observed <= rec[s].allowance
       /\ rec[s].started <= win[s].high

\* Attempts counted against the ledger: none after its day, covered on its
\* day, within a limit before it; its day's reservations are within a limit.
AdmissionInv ==
  /\ phase # "down" => limit \in Limits
  /\ started = 0 => \A d \in Days : admitted[d] = 0
  /\ started # 0 =>
       /\ day \in Days
       /\ \E l \in Limits : daily.reserved <= l
       /\ admitted[day] <= daily.observed + daily.unknown + Spent("startup") + Spent("next")
       /\ \A d \in Days : d > day => admitted[d] = 0
       /\ \A d \in Days : d < day => \E l \in Limits : admitted[d] <= l

BudgetInv == TypeOK /\ LedgerInv /\ WindowInv /\ AdmissionInv

=============================================================================
