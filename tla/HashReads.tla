----------------------------- MODULE HashReads -----------------------------
(***************************************************************************)
(* The hash store (internal/inventory: hash_store*.go, hash_fresh_*.go,    *)
(* hash_read_*.go): consented, bounded reads of original files.            *)
(*                                                                         *)
(* One SQLite store holds several namespaces ("spaces"): the original      *)
(* selection and the fresh jobs that repeat completed observations.  Each  *)
(* has its own work, its own byte budget and its own one-time consent, and *)
(* all share one daily read budget once a budgeted run has created it.     *)
(* A run admits itself, observes its consent, chooses work, reserves bytes *)
(* durably, reads the file and settles what it used: four transactions,    *)
(* each with its own reading of a wall clock that may jump either way.     *)
(* A commit may fail with its outcome unknown, which poisons the handle,   *)
(* and the process may die at any point.                                   *)
(*                                                                         *)
(* Bytes are small units, with Quantum for the 64-byte hash block.         *)
(* Sequence numbers and nonces, which fence a settlement to its own        *)
(* reservation, are left out: under the exclusive lock the reserved        *)
(* attempt of a running work is the one that was made for it.  The pacer   *)
(* can only cancel a run early and save a later clock reading, which every *)
(* run here may do at any time.                                            *)
(***************************************************************************)
EXTENDS Naturals, FiniteSetsExt, SequencesExt

CONSTANTS
  Quantum,      \* sha256.BlockSize
  StepLimit,    \* FileHashStepByteLimit
  Lifetime,     \* HashReadApprovalLifetime
  Setups        \* stores to start from: the limits and bounds, by name

Original == "original"

\* What a writer may be, besides bound to one job.
HandleKinds == {"closed", "poisoned", "writer", "selection", "publisher"}

\* works: the work of the original selection.  done: the works a plain run
\* completed before; the jobs repeat them.  jobs: the saved fresh jobs.  size: of
\* the file of each work.  plainLimit: the daily limit a caller of RunNext
\* passes.  readLimits: limits a consent may be asked for.  sharedLimit: the
\* configured daily limit of budgeted runs.  The others bound a run: the spaces
\* that are read under the shared budget, the spaces whose consent is revoked,
\* what runs without a consent reserve in all, and the readings of the clock.
ASSUME HashReadsAssumption ==
  /\ Quantum \in Nat \ {0} /\ StepLimit \in Nat \ {0} /\ StepLimit % Quantum = 0
  /\ Lifetime \in Nat \ {0}
  /\ \A s \in Range(Setups) :
       /\ IsFiniteSet(s.works) /\ s.works = 1..Cardinality(s.works) /\ s.done \subseteq s.works
       /\ IsFiniteSet(s.jobs) /\ s.jobs \cap ({Original} \cup HandleKinds) = {}
       /\ s.size \in [s.works -> Nat]
       /\ s.plainLimit \in Nat /\ s.sharedLimit \in Nat /\ s.plainTotal \in Nat
       /\ s.readLimits \subseteq [daily : Nat, life : Nat]
       /\ s.dayLen \in Nat \ {0} /\ s.maxTime \in Nat

VARIABLES
  setup,     \* the name of the store this behaviour is about
  ns,        \* the saved namespaces: budget, consent, work and ready order
  shared,    \* hash_store_read_budget, schema 7
  handle,    \* the writer: "closed", "poisoned", "writer", "selection" or a job
  run,       \* the dispatch in progress
  consumed,  \* history: bytes ever requested from files, by space
  charged    \* history: bytes reserved, by space and day

vars == <<setup, ns, shared, handle, run, consumed, charged>>

Works == Setups[setup].works
Done == Setups[setup].done
Jobs == Setups[setup].jobs
Size == Setups[setup].size
PlainLimit == Setups[setup].plainLimit
ReadLimits == Setups[setup].readLimits
SharedLimit == Setups[setup].sharedLimit
PlainTotal == Setups[setup].plainTotal
Revocable == Setups[setup].revocable
Budgeted == Setups[setup].budgeted
DayLen == Setups[setup].dayLen
MaxTime == Setups[setup].maxTime

SpacesOf == [x \in DOMAIN Setups |-> {Original} \cup Setups[x].jobs]
Spaces == SpacesOf[setup]
WorksOf(sp) == IF sp = Original THEN Works ELSE Done
TimesOf == [x \in DOMAIN Setups |-> 0..Setups[x].maxTime]
Times == TimesOf[setup]
DayOf(t) == t \div DayLen
Days == 0..DayOf(MaxTime + Lifetime)
Latest(a, b) == IF a >= b THEN a ELSE b
Least(a, b) == IF a <= b THEN a ELSE b
Less(a, b) == IF a >= b THEN a - b ELSE 0
SumOver(F, S) == MapThenSumSet(LAMBDA x : F[x], S)

NoBudget == [set |-> FALSE, day |-> 0, max |-> 0, res |-> 0, req |-> 0, read |-> 0,
             unk |-> 0, tres |-> 0, treq |-> 0, tread |-> 0, tunk |-> 0]
NoConsent == [given |-> FALSE, created |-> 0, daily |-> 0, life |-> 0, initial |-> 0,
              high |-> 0, expired |-> FALSE, revoked |-> FALSE]
NoAttempt == [status |-> "none", from |-> 0, grant |-> 0, day |-> 0, req |-> 0, read |-> 0]
NewWork == [status |-> "pending", off |-> 0, attempt |-> NoAttempt]
NoShared == [set |-> FALSE, day |-> 0, max |-> 0, res |-> 0, total |-> 0]
Idle == [phase |-> "idle", space |-> Original, mode |-> "plain", work |-> 0, grant |-> 0,
         available |-> 0, at |-> 0, next |-> "none", off |-> 0, req |-> 0, read |-> 0,
         cause |-> "none"]

DoneBytes == SumOver(Size, Done)

\* A work that earlier plain steps hashed at time 0, and its last step.
DoneWork(w) ==
  LET last == IF Size[w] = 0 THEN 0 ELSE ((Size[w] - 1) % StepLimit) + 1
  IN [status |-> "complete", off |-> Size[w],
      attempt |-> [status |-> "settled", from |-> Size[w] - last, grant |-> last,
                   day |-> 0, req |-> last, read |-> last]]

\* A selection whose Done works were hashed at time 0; the fresh jobs were
\* saved, and nothing was approved.
Init ==
  /\ setup \in DOMAIN Setups
  /\ ns = [sp \in Spaces |->
       [budget |-> IF sp = Original /\ Done # {}
                   THEN [NoBudget EXCEPT !.set = TRUE,
                           !.res = DoneBytes, !.req = DoneBytes, !.read = DoneBytes,
                           !.tres = DoneBytes, !.treq = DoneBytes, !.tread = DoneBytes]
                   ELSE NoBudget,
        consent |-> NoConsent,
        work |-> [w \in WorksOf(sp) |->
                    IF sp = Original /\ w \in Done THEN DoneWork(w) ELSE NewWork],
        queue |-> SetToSortSeq(WorksOf(sp), <)]]
  /\ shared = NoShared
  /\ handle = "closed"
  /\ run = Idle
  /\ consumed = [sp \in Spaces |-> ns[sp].budget.treq]
  /\ charged = [sp \in Spaces |-> [d \in Days |-> IF d = 0 THEN ns[sp].budget.tres ELSE 0]]

-----------------------------------------------------------------------------
(* Consent observations and the shared budget, as functions of the          *)
(* candidate namespaces n that a transaction is about to commit.            *)

ExpiresAt(c) == c.created + Lifetime

\* observeHashReadConsent folds the namespace's own reservation clock in; a
\* fresh job's observation uses only its own high-water mark.
ObservedConsent(n, sp, now) ==
  LET c == n[sp].consent
      floor == IF sp = Original THEN n[sp].budget.max ELSE 0
      high == Latest(Latest(c.high, floor), now)
  IN [c EXCEPT !.high = high, !.expired = c.expired \/ high >= ExpiresAt(c)]

\* The guard error of an observation that was just folded in.
GuardOf(c, now) ==
  CASE c.revoked -> "revoked"
    [] ~c.revoked /\ c.expired -> "expired"
    [] ~c.revoked /\ ~c.expired /\ now < c.high -> "rollback"
    [] OTHER -> "ok"

Observed(n, sp, now) == [n EXCEPT ![sp].consent = ObservedConsent(n, sp, now)]

\* Mutant: only what settled runs requested counts against the day.
RequestedOn(n, d) ==
  SumOver([sp \in Spaces |-> IF n[sp].budget.set /\ n[sp].budget.day = d
                             THEN n[sp].budget.req ELSE 0], Spaces)

\* hashStoreReadAccounting.projection: what the namespaces say.
ReservedTotal(n) == SumOver([sp \in Spaces |-> n[sp].budget.tres], Spaces)
ReservedOn(n, d) ==
  SumOver([sp \in Spaces |-> IF n[sp].budget.set /\ n[sp].budget.day = d
                             THEN n[sp].budget.res ELSE 0], Spaces)
ClockHigh(n) == Max({n[sp].budget.max : sp \in Spaces} \cup {n[sp].consent.high : sp \in Spaces})

SharedAt(n, high) ==
  [set |-> TRUE, day |-> DayOf(high), max |-> high,
   res |-> ReservedOn(n, DayOf(high)), total |-> ReservedTotal(n)]

\* advanceHashStoreReadBudget: the row is rewritten from the namespaces at
\* the highest time anyone has seen; before schema 7 there is no row.
SharedHigh(n, now) == Latest(Latest(shared.max, ClockHigh(n)), now)
Advanced(n, now) == IF shared.set THEN SharedAt(n, SharedHigh(n, now)) ELSE shared
SharedRollback(n, now) == shared.set /\ now < SharedHigh(n, now)

\* The error of an observation and an advance in one transaction.
GuardBoth(n, sp, now) ==
  LET guard == GuardOf(n[sp].consent, now)
  IN IF guard = "ok" /\ SharedRollback(n, now) THEN "rollback" ELSE guard

\* A transaction that leaves the run at r when its commit is confirmed.  A
\* failed commit poisons the handle, and the outcome is either one.
Transact(n, s, r) ==
  \/ ns' = n /\ shared' = s /\ run' = r /\ UNCHANGED handle
  \/ /\ \/ ns' = n /\ shared' = s
        \/ UNCHANGED <<ns, shared>>
     /\ handle' = "poisoned" /\ run' = Idle

At(phase) == run.phase = phase
Going(phase) == [run EXCEPT !.phase = phase]
Sp == run.space
Bud == ns[Sp].budget
Con == ns[Sp].consent

\* The run is over.  A budgeted one still reports the shared budget.
Ended == IF run.mode = "budgeted"
         THEN [Idle EXCEPT !.phase = "finish", !.mode = "budgeted"]
         ELSE Idle

NoCharge == UNCHANGED <<consumed, charged>>

-----------------------------------------------------------------------------
(* Opening and closing. *)

\* Mutant: recovery gives the unknown bytes back.
RecoveredBudgetRefunded(b, a) ==
  [b EXCEPT !.tres = @ - a.grant, !.res = IF b.day = a.day THEN @ - a.grant ELSE @]

\* What an interrupted attempt may have read is unknown and stays charged.
RecoveredBudget(b, a) ==
  [b EXCEPT !.tunk = @ + a.grant, !.unk = IF b.day = a.day THEN @ + a.grant ELSE @]

Running(sp) == {w \in WorksOf(sp) : ns[sp].work[w].status = "running"}

\* Mutant: recovery frees the work and forgets its attempt.
RecoveredWithoutCharge(sp) ==
  [ns EXCEPT ![sp].work = [w \in WorksOf(sp) |->
     IF w \in Running(sp) THEN [ns[sp].work[w] EXCEPT !.status = "pending"] ELSE ns[sp].work[w]]]

\* recoverHashWork, recoverFreshProgress.
Recovered(sp) ==
  IF Running(sp) = {} THEN ns
  ELSE LET w == CHOOSE x \in Running(sp) : TRUE
           a == ns[sp].work[w].attempt
       IN [ns EXCEPT ![sp].budget = RecoveredBudget(@, a),
                     ![sp].work[w] = [@ EXCEPT !.status = "pending",
                                               !.attempt.status = "interrupted_unknown"]]

\* initializeFreshProgress: the job's budget starts at its consent's clock.
Initialized(j) ==
  LET high == ns[j].consent.high
  IN [ns EXCEPT ![j].budget = [NoBudget EXCEPT !.set = TRUE, !.day = DayOf(high), !.max = high]]

\* An opening whose commit fails returns no handle, whatever was committed.
Open(as, n) ==
  /\ handle = "closed"
  /\ ns' = n
  /\ handle' \in {as, "closed"}
  /\ UNCHANGED <<shared, run>> /\ NoCharge

OpenWriter == Open("writer", Recovered(Original))

\* Selection and fresh-job writers recover nothing; they may approve or revoke.
OpenSelectionWriter == Open("selection", ns)

OpenFreshRunWriter(j) ==
  /\ ns[j].consent.given
  /\ Open(j, IF ns[j].budget.set THEN Recovered(j) ELSE Initialized(j))

Close ==
  /\ handle # "closed" /\ At("idle")
  /\ handle' = "closed"
  /\ UNCHANGED <<ns, shared, run>> /\ NoCharge

Crash ==
  /\ ~At("idle")
  /\ handle' = "closed" /\ run' = Idle
  /\ UNCHANGED <<ns, shared>> /\ NoCharge

-----------------------------------------------------------------------------
(* Consent.  It is given once, for good; a retry only observes the clock.    *)

MayConsent(sp) ==
  /\ At("idle")
  /\ handle \in {"selection"} \cup (IF sp = Original THEN {"writer"} ELSE {sp})

NewConsent(limits, now, used) ==
  [NoConsent EXCEPT !.given = TRUE, !.created = now, !.high = now,
                    !.daily = limits.daily, !.life = limits.life, !.initial = used]

ApproveRead(sp, limits) ==
  /\ MayConsent(sp) /\ ~ns[sp].consent.given
  /\ \E now \in Times :
       LET b == ns[sp].budget
       IN /\ now >= b.max /\ b.tres <= limits.life
          /\ Transact([ns EXCEPT ![sp].consent = NewConsent(limits, now, b.tres)], shared, Idle)
  /\ NoCharge

RetryApproval(sp) ==
  /\ MayConsent(sp) /\ ns[sp].consent.given
  /\ \E now \in Times :
       LET n == Observed(ns, sp, now)
       IN Transact(n, IF sp = Original THEN Advanced(n, now) ELSE shared, Idle)
  /\ NoCharge

RevokedAt(sp, now) ==
  [ns EXCEPT ![sp].consent = [ObservedConsent(ns, sp, now) EXCEPT !.revoked = TRUE]]

\* Neither expiry nor a clock set back keeps the user from revoking.
RevokeRead(sp) ==
  /\ sp \in Revocable /\ MayConsent(sp)
  /\ ns[sp].consent.given /\ ~ns[sp].consent.revoked
  /\ \E now \in Times : Transact(RevokedAt(sp, now), shared, Idle)
  /\ NoCharge

-----------------------------------------------------------------------------
(* A run up to its reservation. *)

\* The handle that may dispatch reads in a space.
Dispatches(sp) == handle = (IF sp = Original THEN "writer" ELSE sp)

Start(sp, mode, phase) == [Idle EXCEPT !.phase = phase, !.space = sp, !.mode = mode]

\* RunNext: no consent was ever given, and no shared budget exists.
StartPlain ==
  /\ At("idle") /\ Dispatches(Original)
  /\ ~shared.set /\ ~ns[Original].consent.given
  /\ run' = Start(Original, "plain", "choose")
  /\ UNCHANGED <<ns, shared, handle>> /\ NoCharge

\* RunConsented, RunFreshConsented: once a shared budget exists, every run
\* must be a budgeted one.
StartConsented(sp) ==
  /\ At("idle") /\ Dispatches(sp)
  /\ ~shared.set /\ ns[sp].consent.given
  /\ run' = Start(sp, "consented", "observe")
  /\ UNCHANGED <<ns, shared, handle>> /\ NoCharge

\* admitHashStoreReadBudget creates the row, seeded with what every
\* namespace has used, or advances it; a rolled-back clock is refused.
StartBudgeted(sp) ==
  /\ sp \in Budgeted
  /\ At("idle") /\ Dispatches(sp) /\ ns[sp].consent.given
  /\ \E now \in Times :
       LET s == SharedAt(ns, SharedHigh(ns, now))
           r == Start(sp, "budgeted", IF now < s.max THEN "finish" ELSE "observe")
       IN Transact(ns, s, [r EXCEPT !.available = Less(SharedLimit, s.res)])
  /\ NoCharge

\* observeHashReadApproval, observeFreshRunApproval: committed even when it
\* refuses the run.
ObserveApproval ==
  /\ At("observe")
  /\ \E now \in Times :
       LET n == Observed(ns, Sp, now)
       IN Transact(n, Advanced(n, now),
                   IF GuardBoth(n, Sp, now) = "ok" THEN Going("choose") ELSE Ended)
  /\ NoCharge

\* The budget as a reservation at now would see it.
BudgetAt(b, now) ==
  IF ~b.set THEN [NoBudget EXCEPT !.set = TRUE, !.day = DayOf(now), !.max = now]
  ELSE IF DayOf(now) > b.day
       THEN [b EXCEPT !.day = DayOf(now), !.max = now, !.res = 0, !.req = 0, !.read = 0, !.unk = 0]
       ELSE [b EXCEPT !.max = now]

\* What the namespace's own limits leave.
Available(b) ==
  IF run.mode = "plain" THEN Least(Less(PlainLimit, b.res), Less(PlainTotal, b.tres))
  ELSE Least(Less(Con.daily, b.res), Less(Con.life, b.tres))

\* A grant ends on a hash block unless it reaches the end of the file.
Grant(left, available) ==
  LET g == Least(Least(StepLimit, available), left)
  IN IF g < left THEN g - (g % Quantum) ELSE g

BytesLeft(sp, w) == Size[w] - ns[sp].work[w].off

\* A pending work that a grant can move, and the first one in ready order.
Movable(w, available) ==
  /\ ns[Sp].work[w].status = "pending"
  /\ BytesLeft(Sp, w) = 0 \/ Grant(BytesLeft(Sp, w), available) > 0
FirstMovable(w, available) ==
  \E i \in DOMAIN ns[Sp].queue :
    /\ ns[Sp].queue[i] = w /\ Movable(w, available)
    /\ \A k \in 1..(i - 1) : ~Movable(ns[Sp].queue[k], available)

\* The clock and the saved inventory agree: on to the reservation.
Choose ==
  /\ At("choose")
  /\ \E now \in Times, w \in WorksOf(Sp) :
       LET b == BudgetAt(Bud, now)
           available == IF run.mode = "budgeted" THEN Least(run.available, Available(b))
                                                  ELSE Available(b)
       IN /\ now >= (IF Sp = Original THEN Bud.max ELSE Con.high)
          /\ Sp # Original => now < ExpiresAt(Con)
          /\ FirstMovable(w, available)
          /\ run' = [run EXCEPT !.phase = "reserve", !.work = w, !.available = 0,
                                !.grant = Grant(BytesLeft(Sp, w), available),
                                !.at = IF run.mode = "plain" THEN now ELSE 0]
  /\ UNCHANGED <<ns, shared, handle>> /\ NoCharge

\* invalidateHashWork: the saved inventory no longer shows the chosen file.
\* Nothing was reserved.  A fresh run only refuses (GiveUp).
InventoryChanged ==
  /\ At("reserve") /\ Sp = Original
  /\ Transact([ns EXCEPT ![Sp].work[run.work].status = "invalidated"], shared, Ended)
  /\ NoCharge

\* Nothing to do, no room, a clock set back, cancellation, storage or pacing:
\* the run ends before it reserved anything.
GiveUp ==
  /\ run.phase \in {"observe", "choose", "reserve", "finish"}
  /\ run' = IF At("finish") THEN Idle ELSE Ended
  /\ UNCHANGED <<ns, shared, handle>> /\ NoCharge

\* The expiry timer fired before the reservation.
ExpireEarly ==
  /\ run.phase \in {"choose", "reserve"} /\ run.mode # "plain"
  /\ run' = Going("latch")
  /\ UNCHANGED <<ns, shared, handle>> /\ NoCharge

\* A refusal before the reservation still saves a clock reading of the pacer
\* that no transaction has saved yet, in the consent.
SaveSeenClock ==
  /\ run.mode = "budgeted" /\ run.phase \in {"choose", "reserve"}
  /\ \E now \in Times :
       LET n == Observed(ns, Sp, now)
       IN now > Con.high /\ Transact(n, Advanced(n, now), Ended)
  /\ NoCharge

\* finishHashStoreReadBudget: and at last, however the run ended, in the row.
FinishBudget ==
  /\ At("finish")
  /\ \E now \in Times : now > SharedHigh(ns, 0) /\ Transact(ns, Advanced(ns, now), Idle)
  /\ NoCharge

-----------------------------------------------------------------------------
(* Reservation, reading and settlement. *)

\* The charge, the running work and its attempt, at the end of the queue.
Reserved(n, b, grant) ==
  LET w == run.work
  IN [n EXCEPT ![Sp].budget = [b EXCEPT !.res = @ + grant, !.tres = @ + grant],
               ![Sp].work[w] = [@ EXCEPT !.status = "running",
                  !.attempt = [NoAttempt EXCEPT !.status = "reserved", !.from = n[Sp].work[w].off,
                                                !.grant = grant, !.day = b.day]],
               ![Sp].queue = Append(Remove(@, w), w)]

\* chargeHashStoreReadBudget: in the transaction of the reservation.
Charged(s, grant) ==
  IF run.mode = "budgeted" THEN [s EXCEPT !.res = @ + grant, !.total = @ + grant] ELSE s

\* Only committed reservations are charged.
RecordCharge(b) ==
  charged' = [charged EXCEPT ![Sp][b.day] = @ + (ns'[Sp].budget.tres - Bud.tres)]

\* A plain reservation takes the choice and its clock as they are.
ReservePlain ==
  /\ At("reserve") /\ run.mode = "plain"
  /\ LET b == BudgetAt(Bud, run.at)
     IN /\ Transact(Reserved(ns, b, run.grant), shared, Going("read"))
        /\ RecordCharge(b)
  /\ UNCHANGED consumed

\* The grant the limits leave at the time of the reservation.  Only the
\* original selection is also held to the grant chosen before.
ReservationGrant(b, s) ==
  LET own == Available(b)
      all == IF run.mode = "budgeted" THEN Least(own, Less(SharedLimit, s.res)) ELSE own
  IN Grant(BytesLeft(Sp, run.work),
           IF Sp = Original THEN Least(run.grant, all) ELSE all)

\* reserveHashAttempt under a consent, reserveFreshHashAttempt: the consent,
\* the clock and both budgets are read again in the reserving transaction.
\* A refusal or a deferral commits only the observations.
Reserve ==
  /\ At("reserve") /\ run.mode # "plain"
  /\ \E now \in Times :
       LET n == Observed(ns, Sp, now)
           s == IF run.mode = "budgeted" /\ GuardOf(n[Sp].consent, now) = "ok"
                THEN Advanced(n, now) ELSE shared
           b == BudgetAt(Bud, now)
           grant == ReservationGrant(b, s)
           refused == GuardBoth(n, Sp, now) # "ok"
           deferred == grant = 0 /\ BytesLeft(Sp, run.work) > 0
       IN IF refused \/ deferred
          THEN Transact(n, s, Ended) /\ UNCHANGED charged
          ELSE /\ Transact(Reserved(n, b, grant), Charged(s, grant),
                           [Going("read") EXCEPT !.grant = grant])
               /\ RecordCharge(b)
  /\ UNCHANGED consumed

\* FullHashSession.step: what it may hash of the bytes that are left.  Reading
\* stops at the end of the file, or early at a block.
HashedPrefixes(left) == {n \in 0..run.grant : n = left \/ n % Quantum = 0}

\* Cancellation, and the end of the consent that a clock showed during the read.
StopCauses == {"canceled"} \cup (IF run.mode = "plain" THEN {} ELSE {"expired", "rollback"})

\* What a read hands to its settlement.
ReadAs(next, off, req, read, cause) ==
  /\ run' = [run EXCEPT !.phase = "settle", !.next = next, !.off = off,
                        !.req = req, !.read = read, !.cause = cause]
  /\ consumed' = [consumed EXCEPT ![Sp] = @ + req]

\* The prefix advances; a short read, a changed file or a changed inventory
\* invalidates the work; cancellation, expiry or a clock set back keeps the old
\* prefix.
Read ==
  /\ At("read")
  /\ LET left == BytesLeft(Sp, run.work)
         off == ns[Sp].work[run.work].off
     IN \/ \E n \in HashedPrefixes(left) :
             ReadAs(IF n = left THEN "complete" ELSE "pending", off + n, n, n, "none")
        \/ \E req \in 0..run.grant : \E read \in 0..req :
             \/ ReadAs("invalidated", off, req, read, "none")
             \/ \E cause \in StopCauses : ReadAs("pending", off, req, read, cause)
  /\ UNCHANGED <<ns, shared, handle, charged>>

\* The usage is exact now; the charge stays.
SettledBudget(b, a) ==
  [b EXCEPT !.treq = @ + run.req, !.tread = @ + run.read,
            !.req = IF b.day = a.day THEN @ + run.req ELSE @,
            !.read = IF b.day = a.day THEN @ + run.read ELSE @]

\* Mutant: progress is published whatever the consent says by now.
VetoedOnlyByCancel(guard) == run.cause # "none"

\* Cancellation, or a consent that ended meanwhile, withholds the progress.
Vetoed(guard) == run.cause # "none" \/ guard # "ok"

\* settleHashAttempt, settleFreshHashAttempt.
Settle ==
  /\ At("settle")
  /\ \E clock \in (IF run.mode = "plain" THEN {0} ELSE Times) :
       LET w == run.work
           a == ns[Sp].work[w].attempt
           now == IF run.cause = "expired" THEN Latest(clock, ExpiresAt(Con)) ELSE clock
           spent == [ns EXCEPT ![Sp].budget = SettledBudget(@, a)]
           n == IF run.mode = "plain" THEN spent ELSE Observed(spent, Sp, now)
           guard == IF run.mode = "plain" THEN "ok" ELSE GuardBoth(n, Sp, now)
           done == [a EXCEPT !.status = "settled", !.req = run.req, !.read = run.read]
           next == IF Vetoed(guard)
                   THEN [status |-> "pending", off |-> ns[Sp].work[w].off, attempt |-> done]
                   ELSE [status |-> run.next, off |-> run.off, attempt |-> done]
       IN Transact([n EXCEPT ![Sp].work[w] = next],
                   IF run.mode = "plain" THEN shared ELSE Advanced(n, now),
                   IF "expired" \in {run.cause, guard} THEN Going("latch") ELSE Ended)
  /\ NoCharge

\* An expiry that a timer or a check observed is permanent.  A fresh job's
\* latch leaves the shared row alone.
LatchExpiry ==
  /\ At("latch")
  /\ \E clock \in Times :
       LET now == Latest(clock, ExpiresAt(Con))
           n == Observed(ns, Sp, now)
       IN IF Sp = Original THEN Transact(n, Advanced(n, now), Ended)
          ELSE Transact(IF Con.expired THEN ns ELSE n, shared, Ended)
  /\ NoCharge

Step ==
  \/ OpenWriter
  \/ OpenSelectionWriter
  \/ \E j \in Jobs : OpenFreshRunWriter(j)
  \/ Close
  \/ Crash
  \/ \E sp \in Spaces, limits \in ReadLimits : ApproveRead(sp, limits)
  \/ \E sp \in Spaces : RetryApproval(sp)
  \/ \E sp \in Spaces : RevokeRead(sp)
  \/ StartPlain
  \/ \E sp \in Spaces : StartConsented(sp)
  \/ \E sp \in Spaces : StartBudgeted(sp)
  \/ ObserveApproval
  \/ Choose
  \/ InventoryChanged
  \/ GiveUp
  \/ ExpireEarly
  \/ SaveSeenClock
  \/ FinishBudget
  \/ ReservePlain
  \/ Reserve
  \/ Read
  \/ Settle
  \/ LatchExpiry

Next == Step /\ UNCHANGED setup

Spec == Init /\ [][Next]_vars

-----------------------------------------------------------------------------
(* What the readers demand of saved state.  A transaction that broke one of  *)
(* these would make the whole store refuse to open.                          *)

Attempts(sp, statuses) ==
  {w \in WorksOf(sp) : ns[sp].work[w].attempt.status \in statuses}
AttemptSum(sp, f, S) == SumOver([w \in S |-> ns[sp].work[w].attempt[f]], S)
Granted(sp, S) == AttemptSum(sp, "grant", S)
Outstanding(sp) ==
  LET open == Attempts(sp, {"reserved"}) IN IF open = {} THEN 0 ELSE Granted(sp, open)
SameDay(sp, S) == {w \in S : ns[sp].work[w].attempt.day = ns[sp].budget.day}

\* readHashBudget, readFreshHashBudget.
BudgetReadable(b) ==
  /\ b.day = DayOf(b.max)
  /\ b.read <= b.req /\ b.req + b.unk <= b.res
  /\ b.tread <= b.treq /\ b.treq + b.tunk <= b.tres
  /\ b.res <= b.tres /\ b.req <= b.treq /\ b.read <= b.tread /\ b.unk <= b.tunk

\* readHashWork, readFreshHashWork.
WorkReadable(sp, w) ==
  LET x == ns[sp].work[w]
      a == x.attempt
  IN /\ x.status = "complete" => x.off = Size[w]
     /\ x.status # "complete" => x.off % Quantum = 0
     /\ (x.status = "running") <=> (a.status = "reserved")
     /\ a.status = "none" => x.off = 0 /\ (sp # Original => x.status = "pending")
     /\ a.status # "none" => /\ a.grant <= Least(StepLimit, Size[w] - a.from)
                             /\ a.day <= ns[sp].budget.day
     /\ a.status = "settled" => /\ a.read <= a.req /\ a.req <= a.grant
                                /\ a.from <= x.off /\ x.off - a.from <= a.read
     /\ a.status \in {"reserved", "interrupted_unknown"} => a.from = x.off
     /\ a.status = "interrupted_unknown" /\ sp # Original => x.status = "pending"

\* validateOriginalReadAccounting, readFreshProgress: the latest attempts
\* and the durable prefixes fit the counters, in all and for the day.
AccountingReadable(sp) ==
  LET b == ns[sp].budget
      all == WorksOf(sp)
      settled == Attempts(sp, {"settled"})
      unknown == Attempts(sp, {"interrupted_unknown"})
      open == Attempts(sp, {"reserved"})
  IN /\ Granted(sp, all) <= b.tres /\ Granted(sp, SameDay(sp, all)) <= b.res
     /\ AttemptSum(sp, "req", settled) <= b.treq
     /\ AttemptSum(sp, "req", SameDay(sp, settled)) <= b.req
     /\ AttemptSum(sp, "read", settled) <= b.tread
     /\ AttemptSum(sp, "read", SameDay(sp, settled)) <= b.read
     /\ Granted(sp, unknown) <= b.tunk /\ Granted(sp, SameDay(sp, unknown)) <= b.unk
     /\ Granted(sp, open) <= b.tres - b.treq - b.tunk
     /\ Granted(sp, SameDay(sp, open)) <= b.res - b.req - b.unk
     /\ SumOver([w \in all |-> ns[sp].work[w].off], all) <= b.tread

\* readHashReadConsent, readHashFreshReadConsent.
ConsentReadable(c, b) ==
  c.given => /\ c.initial <= b.tres /\ b.tres <= c.life
             /\ c.created <= c.high
             /\ c.expired <=> c.high >= ExpiresAt(c)

\* readHashSnapshot, readFreshJob.
SnapshotReadable(sp) ==
  /\ ns[sp].budget.set => BudgetReadable(ns[sp].budget)
  /\ \A w \in WorksOf(sp) : WorkReadable(sp, w)
  /\ AccountingReadable(sp)
  /\ ConsentReadable(ns[sp].consent, ns[sp].budget)

\* readFreshJob: a job's budget never runs ahead of its consent.
FreshReadable(j) ==
  LET c == ns[j].consent
      b == ns[j].budget
  IN b.set => /\ c.given
              /\ c.created <= b.max /\ b.max <= c.high
              /\ b.res <= c.daily /\ b.tres <= c.life

\* readHashStoreReadBudgetAccounting: the row is the sum of the namespaces.
SharedReadable ==
  shared.set =>
    /\ shared.day = DayOf(shared.max)
    /\ shared.res = ReservedOn(ns, shared.day) /\ shared.total = ReservedTotal(ns)
    /\ shared.res <= shared.total
    /\ \A sp \in Spaces : ns[sp].budget.tres > 0 => ns[sp].budget.max <= shared.max

-----------------------------------------------------------------------------
(* Properties. *)

\* Every state that a crash, an uncertain commit or any order of runs,
\* approvals and revocations leaves is one the store's readers accept, and a
\* run that is about to choose work finds none left running
\* (readHashSnapshot, readFreshJob, readHashStoreReadBudgetAccounting).
SavedStateReadable ==
  /\ \A sp \in Spaces : SnapshotReadable(sp)
  /\ \A j \in Jobs : FreshReadable(j)
  /\ SharedReadable
  /\ run.phase \in {"observe", "choose", "reserve"} => Running(Sp) = {}

\* The limits at a step that reserves bytes (reserveHashAttempt,
\* reserveFreshHashAttempt, reserveHashStoreReadBudget).
LimitKept ==
  charged' # charged /\ run.mode # "plain" =>
    \A sp \in Spaces, d \in Days : charged'[sp][d] > charged[sp][d] =>
      /\ charged'[sp][d] <= ns[sp].consent.daily
      /\ ns'[sp].budget.tres <= ns[sp].consent.life
      /\ run.mode = "budgeted" =>
           SumOver([x \in Spaces |-> charged'[x][d]], Spaces) <= SharedLimit

\* A reservation under a consent keeps the day within the consent's daily
\* limit and everything within its lifetime limit; a budgeted one keeps the
\* reservations of all namespaces on that day within the configured limit.
\* The days are counted from the reservations themselves, so no order of
\* clock jumps may start a day's allowance again.
LimitsKept == [][LimitKept]_vars

\* The consent at a step that reserves bytes or publishes progress (Reserve,
\* Settle and the veto of a settlement).
ConsentHeld ==
  \A sp \in Spaces :
    ns'[sp] # ns[sp] /\ ns[sp].consent.given =>
      \A w \in WorksOf(sp) :
        (\/ ns'[sp].budget.tres > ns[sp].budget.tres
         \/ ns'[sp].work[w].off > ns[sp].work[w].off
         \/ ns'[sp].work[w].status = "complete" /\ ns[sp].work[w].status # "complete")
        => ~ns'[sp].consent.revoked /\ ~ns'[sp].consent.expired

\* Once a consent was given, its namespace reserves bytes and publishes
\* progress only while the saved consent is neither revoked nor expired: what
\* is read after the end of the consent is accounted for and thrown away.
ConsentLive == [][ConsentHeld]_vars
=============================================================================
