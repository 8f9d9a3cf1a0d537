----------------------------- MODULE CPUCharges -----------------------------
(***************************************************************************)
(* The optional CPU accounting of the worker: sessions that charge the CPU *)
(* time a process has used (internal/state/cpu_charges.go), the hourly and *)
(* daily slots these charges are assigned to                               *)
(* (internal/state/cpu_charge_admission*.go) and the policy of the worker  *)
(* loop that opens, samples and obeys them                                 *)
(* (internal/worker/cpu_session_policy.go, cpu_period_policy.go).          *)
(*                                                                         *)
(* The rows outlive the process, the policy does not.  Every call reads    *)
(* the wall clock anew and may obtain any reading.  The elapsed clock only *)
(* moves forward; each of its deadlines is kept as what is left of it, and *)
(* PassUnit lets a unit go by.  A commit may fail before it takes effect,  *)
(* or take effect and still be reported as uncertain; either way the       *)
(* policy refuses work for the rest of the process.                        *)
(*                                                                         *)
(* Exact retries return the saved outcome and change nothing, so they are  *)
(* no steps.  A nonce names the request of one generation; the digest that *)
(* binds the slots to the charges is represented by the charges.  The      *)
(* empty reason of an open session is written "none".                      *)
(***************************************************************************)
EXTENDS Integers

CONSTANTS
  MaxTime,       \* readings of the wall clock are 1..MaxTime
  HourLen,       \* time.Hour, the length of an hour slot
  DayLen,        \* the length of a day slot
  Percent,       \* the divisor 100 of the one percent target
  BackoffLimit,  \* CPUChargesBackoffLimit
  UnknownDelay,  \* CPUChargesUnknownDelay
  Readings,      \* the process CPU times that can be observed
  Profiles,      \* configurations: tracking with its hourly and daily limit
  MaxCharge,     \* math.MaxInt64, the integer bound of the charges
  MaxSince,      \* bound on the elapsed time between two samples
  MaxSessions,   \* bound on the sessions of a behaviour
  MaxSamples,    \* bound on the samples of a session
  MaxRevisions   \* bound on the policy revisions of a behaviour

ASSUME ClockAssumption ==
  MaxTime \in Nat /\ HourLen \in Nat \ {0} /\ DayLen \in Nat \ {0}
ASSUME WaitAssumption ==
  /\ Percent \in Nat \ {0}
  /\ UnknownDelay \in Nat \ {0} /\ BackoffLimit \in Nat /\ UnknownDelay <= BackoffLimit
ASSUME ReadingsAssumption == Readings \subseteq Nat
ASSUME ProfilesAssumption ==
  /\ Profiles \subseteq [tracking : BOOLEAN, hour : Nat, day : Nat]
  /\ \A f \in Profiles : f.tracking \/ (f.hour = 0 /\ f.day = 0)
ASSUME ChargesBoundsAssumption ==
  /\ MaxCharge \in Nat /\ MaxSince \in Nat
  /\ MaxSessions \in Nat /\ MaxSamples \in Nat /\ MaxRevisions \in Nat

Times == 1..MaxTime
Unseen == -1                       \* a CPU time that was not observed
Observations == Readings \cup {Unseen}
Latest(a, b) == IF a < b THEN b ELSE a
AtLeastZero(n) == IF n < 0 THEN 0 ELSE n
Left(n) == IF n = 0 THEN 0 ELSE n - 1
SlotOf(t, len) == (t \div len) * len

VARIABLES
  saved,  \* the rows: schema version, charges, slots
  run     \* the policy of the process that is up

chargesVars == <<saved, run>>

-----------------------------------------------------------------------------
(* Charges: worker_self_cpu_charges.  The time 0 stands for a missing time. *)

NoSession == [status |-> "none"]
NoSample == [at |-> 0]

NewCharges(at) ==
  [generation |-> 0, charged |-> 0, closed |-> 0, recovered |-> 0,
   activated |-> at, high |-> at, next |-> 0, session |-> NoSession]

Active(c) == c.session.status = "active"
Unknown(c) == c.session.status \in {"unknown", "recovered_unknown"}

PrefixWait(cpu) ==
  IF cpu > BackoffLimit \div Percent
    THEN [wait |-> BackoffLimit, capped |-> TRUE]
    ELSE [wait |-> cpu * Percent, capped |-> FALSE]

FeedbackWait(cpu, elapsed) ==
  LET headroom == cpu - elapsed \div Percent
      wait == headroom * Percent - (elapsed % Percent)
  IN IF headroom <= 0 THEN [wait |-> 0, capped |-> FALSE]
     ELSE IF wait > BackoffLimit THEN [wait |-> BackoffLimit, capped |-> TRUE]
     ELSE [wait |-> wait, capped |-> FALSE]

\* cpuChargesDebt: a wait may move the next allowed time only later.
WithDebt(c, at, w) ==
  [c EXCEPT !.next = IF w.wait > 0 THEN Latest(@, at + w.wait) ELSE @,
            !.session = [@ EXCEPT !.backoff = w.wait, !.capped = w.capped]]

\* cpuChargesClose: closed sessions and sessions with an unknown tail are the
\* same number, and a session is open exactly while it is active.
Closed(c, at, status, reason) ==
  LET closed ==
        [c EXCEPT !.closed = @ + 1,
                  !.recovered = IF status = "recovered_unknown" THEN @ + 1 ELSE @,
                  !.session = [@ EXCEPT !.status = status, !.closedAt = at,
                                        !.reason = reason]]
  IN IF status = "finished" THEN closed
     ELSE WithDebt([closed EXCEPT !.session = [@ EXCEPT !.lastCharge = 0]], at,
               [wait |-> UnknownDelay, capped |-> FALSE])

Interrupted(c, at) ==
  Closed([c EXCEPT !.high = at], at, "recovered_unknown", "interrupted_session")

\* The session that starts at a time with an observed CPU time.
Begun(c, start) ==
  LET next == [c EXCEPT
                !.generation = @ + 1,
                !.high = start.at,
                !.charged = @ + AtLeastZero(start.cpu),
                !.session = [status |-> "active", start |-> start,
                             prefix |-> AtLeastZero(start.cpu),
                             total |-> AtLeastZero(start.cpu), last |-> start.cpu,
                             ordinal |-> 0, sample |-> NoSample, closedAt |-> 0,
                             reason |-> "none", lastCharge |-> AtLeastZero(start.cpu),
                             backoff |-> 0, capped |-> FALSE]]
  IN IF start.cpu = Unseen
       THEN Closed(next, start.at, "unknown", "cpu_observation_unavailable")
       ELSE WithDebt(next, start.at, PrefixWait(start.cpu))

\* What is wrong with a sample, seen against the clock high-water.
SampleProblem(c, q, high) ==
  IF q.at < high THEN "cpu_clock_rollback"
  ELSE IF q.cpu = Unseen THEN "cpu_observation_unavailable"
  ELSE IF q.elapsed = 0 THEN "elapsed_window_invalid"
  ELSE IF q.cpu < c.session.last THEN "cpu_observation_regressed"
  ELSE "none"

Sampled(c, q, high) ==
  LET problem == SampleProblem(c, q, high)
      at == Latest(q.at, high)
      taken == [c EXCEPT !.high = at,
                         !.session = [@ EXCEPT !.sample = q, !.ordinal = c.session.ordinal + 1]]
      charge == q.cpu - c.session.last
      counted == WithDebt([taken EXCEPT
                         !.charged = @ + charge,
                         !.session = [@ EXCEPT !.lastCharge = charge, !.total = q.cpu,
                                               !.last = q.cpu]],
                      at, FeedbackWait(charge, q.elapsed))
  IN IF problem # "none" THEN Closed(taken, at, "unknown", problem)
     ELSE IF q.final THEN Closed(counted, at, "finished", "graceful_tail_unobserved")
     ELSE counted

-----------------------------------------------------------------------------
(* Slots: worker_cpu_charge_admission. *)

NoBegin == [rev |-> 0]
NoGap == [rev |-> 0]

NewSlot(at, len) ==
  [start |-> SlotOf(at, len), assigned |-> 0, retired |-> 0,
   partial |-> FALSE, unknown |-> FALSE]
Partial(slot) == [slot EXCEPT !.partial = TRUE]

NewSlots(c, at, limits) ==
  [activated |-> at, high |-> at, baseline |-> c.charged, rev |-> 0,
   limits |-> limits, hour |-> Partial(NewSlot(at, HourLen)),
   day |-> Partial(NewSlot(at, DayLen)), bound |-> c, begin |-> NoBegin,
   gapOpen |-> FALSE, gapOpenedAt |-> 0, gapClosedAt |-> 0, gap |-> NoGap]

RolledSlot(slot, at, len, charge, unknown) ==
  LET fresh == IF slot.start = SlotOf(at, len) THEN slot
               ELSE [NewSlot(at, len) EXCEPT !.retired = slot.retired + slot.assigned]
  IN [fresh EXCEPT !.assigned = @ + charge, !.unknown = @ \/ unknown]

\* rollCPUAdmission, then bindCPUAdmission to the charges it was rolled for.
Rolled(p, c, at, unknown) ==
  LET charge == c.charged - p.bound.charged
  IN [p EXCEPT !.hour = RolledSlot(@, at, HourLen, charge, unknown),
               !.day = RolledSlot(@, at, DayLen, charge, unknown),
               !.high = at, !.bound = c]

\* Mutant: a session that ends a gap takes its current slots for fully tracked.
GapForgotten(p, c, start, limits) ==
  [Rolled(p, c, start.at, Unknown(c)) EXCEPT
     !.rev = @ + 1, !.limits = limits,
     !.begin = [rev |-> p.rev + 1, start |-> start],
     !.gapOpen = FALSE, !.gapClosedAt = IF p.gapOpen THEN start.at ELSE @]

BegunSlots(p, c, start, limits) ==
  LET next == [Rolled(p, c, start.at, Unknown(c)) EXCEPT
                 !.rev = @ + 1, !.limits = limits,
                 !.begin = [rev |-> p.rev + 1, start |-> start]]
  IN IF ~p.gapOpen THEN next
     ELSE [next EXCEPT !.gapOpen = FALSE, !.gapClosedAt = start.at,
                       !.hour = Partial(@), !.day = Partial(@)]

GapSlots(p, c, at) ==
  [Rolled(p, c, at, TRUE) EXCEPT
     !.rev = @ + 1, !.gapOpen = TRUE, !.gapOpenedAt = at, !.gapClosedAt = 0,
     !.hour = Partial(@), !.day = Partial(@),
     !.gap = [rev |-> p.rev + 1, generation |-> c.generation, at |-> at]]

-----------------------------------------------------------------------------
(* What the readers demand; every write makes the same demands first. *)

ValidOpenSession(c, r) ==
  LET anchor == IF r.sample = NoSample THEN r.start.at ELSE r.sample.at
      w == IF r.sample = NoSample THEN PrefixWait(r.prefix)
           ELSE FeedbackWait(r.lastCharge, r.sample.elapsed)
  IN /\ IF r.sample = NoSample THEN r.lastCharge = r.prefix
        ELSE /\ r.sample.cpu # Unseen /\ r.sample.elapsed > 0
             /\ r.sample.cpu >= r.prefix /\ r.last = r.sample.cpu
     /\ r.backoff = w.wait /\ r.capped = w.capped
     /\ anchor = c.high
     /\ w.wait > 0 => c.next >= anchor + w.wait

ValidUnknownReason(r) ==
  IF r.sample = NoSample
    THEN r.start.cpu = Unseen /\ r.reason = "cpu_observation_unavailable"
    ELSE LET q == r.sample IN
         \/ q.cpu = Unseen /\ r.reason = "cpu_observation_unavailable"
         \/ q.cpu # Unseen /\ q.elapsed = 0 /\ r.reason = "elapsed_window_invalid"
         \/ r.reason = "cpu_clock_rollback" /\ q.at < r.closedAt
         \/ /\ r.reason = "cpu_observation_regressed"
            /\ q.cpu # Unseen /\ q.elapsed > 0 /\ r.last # Unseen /\ q.cpu < r.last

ValidClosedSession(c, r) ==
  /\ c.closed = c.generation
  /\ r.closedAt \in r.start.at .. c.high
  /\ CASE r.status = "finished" ->
            /\ r.sample # NoSample /\ r.sample.final
            /\ r.closedAt = r.sample.at /\ r.reason = "graceful_tail_unobserved"
       [] OTHER ->
            /\ r.backoff = UnknownDelay /\ ~r.capped
            /\ c.next >= r.closedAt + UnknownDelay
            /\ IF r.status = "recovered_unknown"
                 THEN r.reason = "interrupted_session" /\ c.recovered > 0
                 ELSE r.lastCharge = 0 /\ ValidUnknownReason(r)

ValidCharges(c) ==
  /\ c.recovered <= c.closed
  /\ c.high >= c.activated
  /\ c.next - c.high <= BackoffLimit
  /\ IF c.generation = 0
       THEN c.session = NoSession /\ c.charged = 0 /\ c.closed = 0 /\ c.next = 0
       ELSE LET r == c.session IN
         /\ r.start.at \in c.activated .. c.high
         /\ r.prefix = AtLeastZero(r.start.cpu)
         /\ r.prefix <= r.total /\ r.total <= c.charged
         /\ r.lastCharge \in 0 .. r.total /\ r.backoff \in 0 .. BackoffLimit
         /\ IF r.last = Unseen THEN r.total = 0 ELSE r.last = r.total
         /\ IF r.sample = NoSample THEN r.ordinal = 0 /\ r.last = r.start.cpu
            ELSE r.ordinal > 0 /\ r.sample.at <= c.high
         /\ r.status \in {"active", "finished"} => ValidOpenSession(c, r)
         /\ IF Active(c)
              THEN /\ c.closed = c.generation - 1 /\ r.closedAt = 0 /\ r.reason = "none"
                   /\ r.start.cpu # Unseen
                   /\ r.sample # NoSample => ~r.sample.final
              ELSE ValidClosedSession(c, r)

ValidSlot(p, c, slot, len) ==
  /\ slot.start = SlotOf(p.high, len)
  /\ p.baseline + slot.retired + slot.assigned = c.charged
  /\ slot.start = SlotOf(p.activated, len) => slot.partial
  /\ p.gapClosedAt # 0 /\ SlotOf(p.gapClosedAt, len) = slot.start => slot.partial
  /\ p.begin # NoBegin /\ Unknown(c) /\ SlotOf(c.session.closedAt, len) = slot.start
       => slot.unknown

ValidGap(p, c) ==
  IF p.gap = NoGap
    THEN /\ ~p.gapOpen /\ p.gapOpenedAt = 0 /\ p.gapClosedAt = 0
         /\ p.rev = 0 \/ (p.begin # NoBegin /\ p.begin.rev = p.rev)
    ELSE /\ p.gap.rev <= p.rev /\ p.gap.generation <= c.generation
         /\ p.gapOpenedAt = p.gap.at /\ p.gapOpenedAt \in p.activated .. p.high
         /\ IF p.gapOpen
              THEN /\ p.gap.rev = p.rev /\ p.gap.generation = c.generation
                   /\ p.gapClosedAt = 0 /\ ~Active(c)
                   /\ \A slot \in {p.hour, p.day} : slot.partial /\ slot.unknown
              ELSE /\ p.gapClosedAt \in p.gapOpenedAt .. p.high
                   /\ p.begin # NoBegin /\ p.begin.rev = p.rev
                   /\ p.begin.rev > p.gap.rev /\ p.begin.start.at >= p.gapClosedAt

ValidSlots(p, c) ==
  /\ p.activated >= c.activated /\ p.high >= p.activated /\ p.high >= c.high
  /\ p.baseline <= c.charged
  /\ p.bound = c
  /\ ValidSlot(p, c, p.hour, HourLen) /\ ValidSlot(p, c, p.day, DayLen)
  /\ p.rev = 0 => /\ p.begin = NoBegin /\ p.gap = NoGap
                  /\ p.high = p.activated /\ p.baseline = c.charged
  /\ IF p.begin = NoBegin THEN p.limits # [hour |-> 0, day |-> 0]
     ELSE p.begin.rev <= p.rev /\ p.begin.start = c.session.start
  /\ ValidGap(p, c)

-----------------------------------------------------------------------------
(* Operations of the store, as the rows they publish.  Schema 15 has charges *)
(* only and its operations are refused under schema 16, whose own operations *)
(* publish charges and slots together.                                       *)

\* RecoverCPUSession, RecoverCPUSessionLimited.
RecoverCPUSession(rows, at) == [rows EXCEPT !.c = Interrupted(@, at)]
RecoverCPUSessionLimited(rows, at) ==
  LET c == Interrupted(rows.c, at)
  IN [rows EXCEPT !.c = c, !.p = Rolled(@, c, at, TRUE)]

\* BeginCPUSession also closes a session that was left open.
BeginCPUSession(rows, start) ==
  [rows EXCEPT !.c = Begun(IF Active(@) THEN Interrupted(@, start.at) ELSE @, start)]
BeginCPUSessionLimited(rows, start, limits) ==
  LET c == Begun(rows.c, start)
  IN [rows EXCEPT !.c = c, !.p = BegunSlots(@, c, start, limits)]

\* Under schema 16 a sample is compared with the high-water of the slots.
SampleCPUSession(rows, q) == [rows EXCEPT !.c = Sampled(@, q, rows.c.high)]
SampleCPUSessionLimited(rows, q) ==
  LET c == Sampled(rows.c, q, rows.p.high)
  IN [rows EXCEPT !.c = c, !.p = Rolled(@, c, c.high, Unknown(c))]

\* A gap closes a session that was left open; an open gap stays as it is.
OpenCPUTrackingGap(rows, at) ==
  LET c == IF Active(rows.c) THEN Interrupted(rows.c, at) ELSE rows.c
  IN IF rows.p.gapOpen THEN rows
     ELSE [rows EXCEPT !.c = c, !.p = GapSlots(@, c, at)]

\* readCPUCharges with readCPUAdmission.
Readable(rows) ==
  rows.version # 14 =>
    ValidCharges(rows.c) /\ (rows.version = 16 => ValidSlots(rows.p, rows.c))

-----------------------------------------------------------------------------
(* The policy of the process. *)

NoFence == [start |-> -1, left |-> 0]
Down ==
  [up |-> FALSE, refused |-> FALSE, stage |-> "route", phase |-> "idle",
   tracking |-> FALSE, limits |-> [hour |-> 0, day |-> 0], bypass |-> FALSE,
   limited |-> FALSE, mem |-> [version |-> 0], wallHigh |-> 0, attached |-> FALSE,
   due |-> 0, hour |-> NoFence, day |-> NoFence, since |-> 0]

\* fail: nothing but the end of the process follows.
Refusing == [Down EXCEPT !.up = TRUE, !.refused = TRUE]

ChargesInit == saved = [version |-> 14] /\ run = Down

\* clocks: a reading below an earlier one of this process is an error.
Seen(r, now) == [r EXCEPT !.wallHigh = Latest(@, now)]
Rollback(now) == now < run.wallHigh

\* accept: cold attachment projects an inherited debt on the elapsed clock.
Accepted(r, rows, now, intrinsic) ==
  LET inherited == IF r.attached THEN r.due ELSE AtLeastZero(rows.c.next - now)
  IN [r EXCEPT !.mem = rows, !.attached = TRUE, !.due = Latest(inherited, intrinsic)]

Blocked(slot, limit, gap) ==
  limit > 0 /\ (gap \/ slot.partial \/ slot.unknown \/ slot.assigned >= limit)

Fenced(fence, slot, limit, gap, len, now) ==
  IF limit = 0 THEN NoFence
  ELSE IF Blocked(slot, limit, gap) /\ fence.start # slot.start
    THEN [start |-> slot.start,
          left |-> Latest(fence.left, AtLeastZero(slot.start + len - now))]
    ELSE fence

AcceptedSlots(r, rows, now) ==
  LET p == rows.p IN
  [r EXCEPT !.mem = rows, !.limited = TRUE,
            !.hour = Fenced(@, p.hour, r.limits.hour, p.gapOpen, HourLen, now),
            !.day = Fenced(@, p.day, r.limits.day, p.gapOpen, DayLen, now)]

AcceptedAll(r, rows, now, intrinsic) ==
  LET next == Accepted(r, rows, now, intrinsic)
  IN IF rows.version = 16 THEN AcceptedSlots(next, rows, now) ELSE next

\* Mutant: after an uncertain publication the loop goes on with what it knew.
WentOn(rows, accepted, refused) ==
  \/ saved' = rows
     /\ run' \in {accepted, [run EXCEPT !.phase = accepted.phase]}
  \/ saved' = saved /\ run' = refused

\* commitCPUCharges, publish: the answer may be lost after the commit.
Published(rows, accepted, refused) ==
  \/ saved' = rows /\ run' \in {accepted, refused}
  \/ saved' = saved /\ run' = refused

RefuseStart == run' = Refusing /\ UNCHANGED saved

Start(profile) ==
  /\ ~run.up
  /\ run' = [Down EXCEPT !.up = TRUE, !.tracking = profile.tracking,
                         !.limits = [hour |-> profile.hour, day |-> profile.day]]
  /\ UNCHANGED saved

Starting(stage, now) ==
  /\ run.up /\ ~run.refused /\ run.stage = stage
  /\ ~Rollback(now)

\* startup begins with clocks; so does every wait for the next turn.
ReadClocks(now) ==
  /\ run.up /\ ~run.refused /\ ~run.bypass /\ run.stage # "period"
  /\ run' = IF Rollback(now) THEN Refusing ELSE Seen(run, now)
  /\ UNCHANGED saved

\* route: the version that was found selects the protocol.
Route(now) ==
  /\ Starting("route", now)
  /\ run' = IF saved.version = 16
              THEN [AcceptedAll(Seen(run, now), saved, now, 0) EXCEPT
                      !.stage = IF run.tracking THEN "recover" ELSE "gap"]
            ELSE IF ~run.tracking THEN [run EXCEPT !.bypass = TRUE, !.stage = "ready"]
            ELSE [Seen(run, now) EXCEPT !.stage = "activate"]
  /\ UNCHANGED saved

\* ActivateCPUCharges; schema 15 is returned as it is.
Activate(now) ==
  /\ Starting("activate", now)
  /\ LET rows == IF saved.version = 14
                   THEN [version |-> 15, c |-> NewCharges(now)] ELSE saved
     IN Published(rows, [Accepted(Seen(run, now), rows, now, 0) EXCEPT !.stage = "recover"],
                  Refusing)

NeedsPeriod == ~run.limited /\ run.limits # [hour |-> 0, day |-> 0]

\* Only an open session is recovered.
Recover(now) ==
  /\ Starting("recover", now)
  /\ now >= run.mem.c.high
  /\ LET rows == IF ~Active(saved.c) THEN saved
                 ELSE IF run.limited THEN RecoverCPUSessionLimited(saved, now)
                 ELSE RecoverCPUSession(saved, now)
         intrinsic == IF Active(run.mem.c) THEN UnknownDelay ELSE 0
     IN IF Active(saved.c) /\ run.limited /\ now < saved.p.high THEN RefuseStart
        ELSE Published(rows, [AcceptedAll(Seen(run, now), rows, now, intrinsic) EXCEPT
                                !.stage = IF NeedsPeriod THEN "period" ELSE "begin"],
                       Refusing)

\* activatePeriod, within the same call of startup: the reading is the same.
ActivatePeriod ==
  /\ run.stage = "period"
  /\ LET rows == [version |-> 16, c |-> saved.c,
                  p |-> NewSlots(saved.c, run.wallHigh, run.limits)]
     IN Published(rows, [AcceptedSlots(run, rows, run.wallHigh) EXCEPT !.stage = "begin"],
                  Refusing)

\* openGap: an open gap is confirmed by its own request, which changes nothing.
OpenGap(now) ==
  /\ Starting("gap", now)
  /\ now >= run.mem.c.high
  /\ LET rows == OpenCPUTrackingGap(saved, now)
         open == [Down EXCEPT !.up = TRUE, !.bypass = TRUE, !.stage = "ready"]
     IN IF ~saved.p.gapOpen /\ now < saved.p.high THEN RefuseStart
        ELSE /\ saved.p.gapOpen \/ saved.p.rev < MaxRevisions
             /\ Published(rows, open, Refusing)

\* A session without an observed CPU time is saved as unknown and refused.
Begin(now, cpu) ==
  /\ Starting("begin", now)
  /\ now >= run.mem.c.high
  /\ saved.c.generation < MaxSessions
  /\ run.limited => saved.p.rev < MaxRevisions
  /\ LET start == [at |-> now, cpu |-> cpu]
         rows == IF run.limited THEN BeginCPUSessionLimited(saved, start, run.limits)
                 ELSE BeginCPUSession(saved, start)
         accepted == IF cpu = Unseen THEN Refusing
                     ELSE [AcceptedAll(Seen(run, now), rows, now, rows.c.session.backoff)
                             EXCEPT !.stage = "ready", !.since = 0]
     IN IF rows.c.charged > MaxCharge \/ (run.limited /\ now < saved.p.high) THEN RefuseStart
        ELSE Published(rows, accepted, Refusing)

-----------------------------------------------------------------------------
(* Turns of the loop once the policy is ready. *)

Ready(phase) == run.up /\ ~run.refused /\ run.stage = "ready" /\ run.phase = phase

LimitedSlots ==
  {[slot |-> run.mem.p.hour, limit |-> run.limits.hour, fence |-> run.hour, len |-> HourLen],
   [slot |-> run.mem.p.day, limit |-> run.limits.day, fence |-> run.day, len |-> DayLen]}

\* A blocked slot whose boundary has passed may still be selected, so that a
\* sample can roll it; it never admits work.
PeriodWaitOver(now, selection) ==
  \A s \in LimitedSlots : s.limit > 0 =>
    /\ s.fence.left = 0
    /\ Blocked(s.slot, s.limit, run.mem.p.gapOpen) =>
         selection /\ now >= s.slot.start + s.len

\* wait and selectionWait.
DebtServed(now, selection) ==
  /\ now >= run.mem.c.high /\ now >= run.mem.c.next
  /\ run.due = 0
  /\ run.limited => PeriodWaitOver(now, selection)

Select(now) ==
  /\ Ready("idle") /\ ~run.bypass /\ Active(run.mem.c)
  /\ ~Rollback(now) /\ DebtServed(now, TRUE)
  /\ run' = [Seen(run, now) EXCEPT !.phase = "selected"]
  /\ UNCHANGED saved

\* Where the loop goes after a sample; the last one is taken on the way out.
After(r, phase) ==
  IF phase = "stopped" THEN Down
  ELSE IF r.refused THEN r ELSE [r EXCEPT !.phase = phase]

\* sampleAtBoundary: any error refuses further work, a wrong clock included.
Sample(now, cpu, final, phase) ==
  LET q == [at |-> now, cpu |-> cpu, final |-> final,
            elapsed |-> IF Rollback(now) THEN 0 ELSE run.since]
      rows == IF run.limited THEN SampleCPUSessionLimited(saved, q)
              ELSE SampleCPUSession(saved, q)
      next == [AcceptedAll(Seen(run, now), rows, now, rows.c.session.backoff)
                 EXCEPT !.since = 0]
  IN /\ saved.c.session.ordinal < MaxSamples
     /\ IF rows.c.charged > MaxCharge THEN run' = After(Refusing, phase) /\ UNCHANGED saved
        ELSE Published(rows,
                       After(IF Unknown(rows.c) \/ Rollback(now) THEN Refusing ELSE next, phase),
                       After(Refusing, phase))

SampleSelected(now, cpu) ==
  /\ Ready("selected")
  /\ Sample(now, cpu, FALSE, "sampled")

Admit(now) ==
  /\ Ready("sampled") /\ ~Rollback(now) /\ DebtServed(now, FALSE)
  /\ run' = [Seen(run, now) EXCEPT !.phase = "working"]
  /\ UNCHANGED saved

\* The wait is not over, or another gate of the loop holds the turn back.
Decline ==
  /\ Ready("sampled") \/ Ready("selected")
  /\ run' = [run EXCEPT !.phase = "idle"]
  /\ UNCHANGED saved

Complete(now, cpu) ==
  /\ Ready("working")
  /\ Sample(now, cpu, FALSE, "idle")

\* A graceful stop samples once more; the outcome only goes to the log.
Finish(now, cpu) ==
  /\ Ready("idle") /\ ~run.bypass /\ Active(run.mem.c)
  /\ Sample(now, cpu, TRUE, "stopped")

\* The process dies, or stops in a state in which it has nothing to record.
Crash == run.up /\ run' = Down /\ UNCHANGED saved

PassUnit ==
  /\ run.up /\ ~run.refused /\ ~run.bypass /\ run.stage # "period"
  /\ \/ run.since < MaxSince /\ run.stage = "ready"
     \/ run.due > 0 \/ run.hour.left > 0 \/ run.day.left > 0
  /\ run' = [run EXCEPT !.due = Left(@), !.hour.left = Left(@), !.day.left = Left(@),
               !.since = IF run.stage = "ready" /\ @ < MaxSince THEN @ + 1 ELSE @]
  /\ UNCHANGED saved

ChargesNext ==
  \/ \E profile \in Profiles : Start(profile)
  \/ \E now \in Times :
       \/ ReadClocks(now) \/ Route(now) \/ Activate(now) \/ Recover(now)
       \/ OpenGap(now) \/ Select(now) \/ Admit(now)
       \/ \E cpu \in Observations :
            \/ Begin(now, cpu) \/ SampleSelected(now, cpu)
            \/ Complete(now, cpu) \/ Finish(now, cpu)
  \/ ActivatePeriod \/ Decline \/ Crash \/ PassUnit

ChargesSpec == ChargesInit /\ [][ChargesNext]_chargesVars

-----------------------------------------------------------------------------
(* Properties. *)

\* No history of sessions, recoveries, gaps, changed limits, clock jumps and
\* lost answers writes rows that validCPUCharges or validCPUAdmission would
\* reject: accounting is never refused for what the program itself has saved.
AccountingReadable == Readable(saved)

\* Work of a tracked process starts only in an open session of its own, after
\* the saved debt has ended, in slots that the rows, as they stand at that
\* moment and not as the policy remembers them, show as fully tracked and below
\* the configured limits.
WorkByRows ==
  run.phase # "working" /\ run'.phase = "working" =>
    LET now == run'.wallHigh
        open(slot, limit, len) ==
          limit > 0 => IF SlotOf(now, len) = slot.start
                         THEN slot.assigned < limit /\ ~slot.partial /\ ~slot.unknown
                         ELSE now > slot.start
    IN /\ Active(saved.c) /\ saved.c.next <= now
       /\ run.limits # [hour |-> 0, day |-> 0] =>
            /\ saved.version = 16 /\ ~saved.p.gapOpen
            /\ saved.p.limits = run.limits
            /\ open(saved.p.hour, run.limits.hour, HourLen)
            /\ open(saved.p.day, run.limits.day, DayLen)
WorkAdmittedByRows == [][WorkByRows]_chargesVars
=============================================================================
