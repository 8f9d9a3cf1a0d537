--------------------------- MODULE FairTurnProofs ---------------------------
(***************************************************************************)
(* Proofs about FairTurn for every number of roots, every clock, day        *)
(* length, cadence and limit, and every measured window.                    *)
(***************************************************************************)
EXTENDS FairTurn, WellFoundedInduction, TLAPS

-----------------------------------------------------------------------------
(***************************************************************************)
(* Arithmetic.                                                              *)
(***************************************************************************)

\* A reading of the clock falls on a day, and division brackets it.
LEMMA DayBounds ==
  ASSUME NEW t \in Nat
  PROVE  /\ DayOf(t) \in Nat
         /\ DayOf(t) * DayLen <= t /\ t < (DayOf(t) + 1) * DayLen
  <1>1. DayLen \in Nat /\ DayLen > 0
    BY ClockAssumption
  <1>2. /\ t = DayLen * (t \div DayLen) + (t % DayLen)
        /\ t % DayLen \in 0..(DayLen - 1) /\ t \div DayLen \in Nat
    BY <1>1, SMT
  <1> QED BY <1>1, <1>2, SMT DEF DayOf

\* A later reading never falls on an earlier day.
LEMMA DayMonotone ==
  ASSUME NEW t \in Nat, NEW u \in Nat, t <= u
  PROVE  DayOf(t) <= DayOf(u)
  <1>1. DayLen \in Nat /\ DayLen > 0
    BY ClockAssumption
  <1>2. /\ DayOf(t) \in Nat /\ DayOf(u) \in Nat
        /\ DayOf(t) * DayLen <= t /\ u < (DayOf(u) + 1) * DayLen
    BY DayBounds
  <1>3. DayOf(t) * DayLen < (DayOf(u) + 1) * DayLen
    <2>1. DayOf(t) * DayLen \in Nat /\ (DayOf(u) + 1) * DayLen \in Nat
      BY <1>1, <1>2, SMT
    <2> QED BY <1>2, <2>1, SMT
  <1>4. ASSUME NEW a \in Nat, NEW b \in Nat, a * DayLen < (b + 1) * DayLen PROVE a <= b
    BY <1>1, <1>4, SMT
  <1> QED BY <1>2, <1>3, <1>4

\* CPUFeedbackWait: the wait is never negative and never above the limit.
LEMMA WaitBounded ==
  ASSUME NEW c \in Nat, NEW e \in Nat
  PROVE  CPUFeedbackWait(c, e) \in 0 .. BackoffLimit
  <1>1. BackoffLimit \in Nat /\ Percent \in Nat /\ Percent > 0
    BY FeedbackAssumption
  <1>2. PICK h \in Int : h = c - (e \div Percent)
    BY <1>1, SMT
  <1>3. PICK m \in 0 .. (Percent - 1) : m = e % Percent
    BY <1>1, SMT
  <1>4. h > 0 => h * Percent - m \in Nat
    <2>1. h > 0 => h * Percent >= Percent
      BY <1>1, SMT
    <2> QED BY <1>1, <2>1, SMT
  <1>5. CPUFeedbackWait(c, e) \in {0, BackoffLimit}
        \/ (CPUFeedbackWait(c, e) = h * Percent - m /\ ~(h <= 0) /\ ~(h * Percent - m > BackoffLimit))
    BY <1>2, <1>3, Zenon DEF CPUFeedbackWait
  <1>6. CASE CPUFeedbackWait(c, e) \in {0, BackoffLimit}
    BY <1>1, <1>6
  <1>7. CASE CPUFeedbackWait(c, e) = h * Percent - m /\ ~(h <= 0) /\ ~(h * Percent - m > BackoffLimit)
    <2>1. PICK x \in Nat : x = h * Percent - m
      BY <1>4, <1>7
    <2> QED BY <1>1, <1>7, <2>1
  <1> QED BY <1>5, <1>6, <1>7

\* What a process may observe of its windows.
LEMMA WaitsBounded == Waits \subseteq 0 .. BackoffLimit
  <1>1. ASSUME NEW m \in Measured PROVE CPUFeedbackWait(m[1], m[2]) \in 0 .. BackoffLimit
    <2>1. m[1] \in Nat /\ m[2] \in Nat
      BY FeedbackAssumption
    <2> QED BY <2>1, WaitBounded
  <1>2. 0 \in 0 .. BackoffLimit
    BY FeedbackAssumption
  <1> QED BY <1>1, <1>2 DEF Waits

-----------------------------------------------------------------------------
(***************************************************************************)
(* The rotation.                                                            *)
(***************************************************************************)

\* A set of roots that is not empty has a first one.
LEMMA FirstRoot ==
  ASSUME NEW S, S \subseteq Nat, S # {}
  PROVE  Min(S) \in S /\ \A y \in S : Min(S) <= y
  <1> DEFINE R == OpToRel(<, Nat)
  <1>1. IsWellFoundedOn(R, Nat)
    BY NatLessThanWellFounded
  <1>2. PICK x \in S : \A y \in S : ~(<<y, x>> \in R)
    <2> HIDE DEF R
    <2> QED BY <1>1, WFMin
  <1>3. ASSUME NEW y \in S PROVE x =< y
    <2>1. x \in Nat /\ y \in Nat /\ ~(<<y, x>> \in R)
      BY <1>2
    <2> QED BY <2>1 DEF OpToRel
  <1> QED BY <1>3 DEF Min

\* Places the rotation goes through, from behind the root of the last turn, to
\* reach root q.
Ahead(q) == IF q > cursor.root THEN q - cursor.root ELSE q - cursor.root + RootCount

\* A turn that passed a root over brought the rotation closer to it.
RotationInv ==
  /\ cursor.root \in 0 .. RootCount
  /\ passed \in [Roots -> Nat]
  /\ \A q \in Roots : passed[q] + Ahead(q) <= RootCount

\* selectFairInventoryTurn returns a root that may have the turn, and no root
\* that may lies between it and the root of the last turn.
LEMMA SelectedNext ==
  ASSUME NEW n, NEW source, NEW r, r = Selected(n, source), r # 0,
         cursor.root \in 0 .. RootCount
  PROVE  /\ r \in Roots /\ Eligible(r, n, source)
         /\ \A q \in Roots : Eligible(q, n, source) /\ q # r =>
              \/ q > cursor.root /\ r > cursor.root /\ r < q
              \/ q <= cursor.root /\ (r > cursor.root \/ r < q)
  <1> DEFINE able == {p \in Roots : Eligible(p, n, source)}
             after == {p \in able : p > cursor.root}
  <1>1. able # {} /\ r = Min(IF after # {} THEN after ELSE able)
    BY Zenon DEF Selected
  <1>2. able \subseteq Nat /\ after \subseteq Nat /\ able \subseteq Roots
    BY DEF Roots
  <1>3. CASE after # {}
    <2>1. r = Min(after)
      BY <1>1, <1>3
    <2>2. r \in after /\ \A y \in after : r <= y
      BY <1>2, <1>3, <2>1, FirstRoot
    <2>3. ASSUME NEW q \in Roots, Eligible(q, n, source), q # r, q > cursor.root
          PROVE  r < q
      <3>1. q \in after
        BY <2>3
      <3> QED BY <2>2, <2>3, <3>1, <1>2
    <2> QED BY <2>2, <2>3, RootsAssumption DEF Roots
  <1>4. CASE after = {}
    <2>1. r = Min(able)
      BY <1>1, <1>4
    <2>2. r \in able /\ \A y \in able : r <= y
      BY <1>1, <1>2, <2>1, FirstRoot
    <2> QED BY <1>4, <2>2, RootsAssumption DEF Roots
  <1> QED BY <1>3, <1>4

LEMMA ClaimRotates ==
  ASSUME RotationInv, NEW now \in Walls, ClaimTurn(now)
  PROVE  RotationInv'
  <1>1. PICK source \in {turn.source, FALSE} :
          /\ Selected(now, source) # 0
          /\ cursor' = [root |-> Selected(now, source), dispatch |-> turn.reserved]
          /\ passed' = [q \in Roots |-> IF q = Selected(now, source) \/ ~Eligible(q, now, source)
                                        THEN 0 ELSE passed[q] + 1]
    BY Zenon DEF ClaimTurn, ClaimCommit
  <1>2. PICK r : r = Selected(now, source)
    OBVIOUS
  <1>3. /\ r \in Roots
        /\ \A q \in Roots : Eligible(q, now, source) /\ q # r =>
             \/ q > cursor.root /\ r > cursor.root /\ r < q
             \/ q <= cursor.root /\ (r > cursor.root \/ r < q)
    BY <1>1, <1>2, SelectedNext DEF RotationInv
  <1>4. cursor'.root = r /\ cursor.root \in 0 .. RootCount /\ RootCount \in Nat
    BY <1>1, <1>2, RootsAssumption DEF RotationInv
  <1>5. ASSUME NEW q \in Roots PROVE passed'[q] + Ahead(q)' <= RootCount /\ passed'[q] \in Nat
    <2>1. CASE q = r \/ ~Eligible(q, now, source)
      <3>1. passed'[q] = 0
        BY <1>1, <1>2, <2>1
      <3> QED BY <1>3, <1>4, <3>1 DEF Ahead, Roots
    <2>2. CASE q # r /\ Eligible(q, now, source)
      <3>1. passed'[q] = passed[q] + 1 /\ passed[q] \in Nat /\ passed[q] + Ahead(q) <= RootCount
        BY <1>1, <1>2, <2>2 DEF RotationInv
      <3>2. \/ q > cursor.root /\ r > cursor.root /\ r < q
            \/ q <= cursor.root /\ (r > cursor.root \/ r < q)
        BY <1>3, <2>2
      <3> QED BY <1>3, <1>4, <3>1, <3>2 DEF Ahead, Roots
    <2> QED BY <2>1, <2>2
  <1>6. passed' = [q \in Roots |-> passed'[q]]
    BY <1>1
  <1>7. passed' \in [Roots -> Nat]
    BY <1>5, <1>6
  <1> QED BY <1>3, <1>4, <1>5, <1>7 DEF RotationInv, Roots

\* Only a claim moves the rotation.
LEMMA RotationKept ==
  ASSUME [Next]_vars, \A now \in Walls : ~ClaimTurn(now)
  PROVE  UNCHANGED <<cursor, passed>>
  BY Zenon DEF Next, vars, saved, process, observed, Pass, Crash, Gone, RecoverJobs, Abandon, RefuseLate, StartHandler,
         RetireInventory, RecoverAtStart, RecoverInLoop, SeedRevisits, Wake, ReserveScanChunk,
         DeferWindow, RefuseWindow, BeginWindow, SaveProgress, Finalize, SettleWindow,
         RefuseSettlement

-----------------------------------------------------------------------------
(***************************************************************************)
(* Types.                                                                   *)
(***************************************************************************)

Dispatches == [day : Nat, used : Nat, last : Nat, next : Nat]
Cursors == [root : Nat, dispatch : Nat]
CPURows == [token : Nat, status : Statuses, kind : Kinds, root : Nat, high : Nat,
            recorded : Nat, settled : Nat, used : Nat, elapsed : Nat, wait : Nat, next : Nat]
Gates == [token : Nat, status : Statuses \cup {""}, deadline : Nat, left : Nat]
Turns == [started : Nat, reserved : Nat, left : Nat, source : BOOLEAN, root : Nat,
          kind : Kinds]
Jobs == [status : {"none", "pending", "running"}, due : Nat]

LEMMA LeftType == ASSUME NEW n \in Nat PROVE Left(n) \in Nat
  BY DEF Left

LEMMA WallType == ASSUME NEW t \in Walls PROVE t \in Nat /\ t > 0
  BY ClockAssumption DEF Walls

LEMMA GateMade ==
  ASSUME NEW S, NEW t \in Nat, NEW status \in S, NEW d \in Nat, NEW l \in Nat
  PROVE  [token |-> t, status |-> status, deadline |-> d, left |-> l]
           \in [token : Nat, status : S, deadline : Nat, left : Nat]
  OBVIOUS

LEMMA GateType ==
  ASSUME gate \in Gates, NEW feedback \in CPURows, NEW at \in Nat
  PROVE  GateAfter(feedback, at) \in Gates
  <1>1. feedback.token \in Nat /\ feedback.status \in Statuses \cup {""} /\ feedback.next \in Nat
    BY DEF CPURows
  <1>2. PICK l \in Nat : l = IF feedback.next > at THEN feedback.next - at ELSE 0
    <2>1. PICK n \in Nat : n = feedback.next
      BY <1>1
    <2>2. (IF n > at THEN n - at ELSE 0) \in Nat
      OBVIOUS
    <2> QED BY <2>1, <2>2, Zenon
  <1>3. \/ GateAfter(feedback, at) = gate
        \/ GateAfter(feedback, at) = [token |-> feedback.token, status |-> feedback.status,
                                      deadline |-> feedback.next, left |-> l]
    BY <1>2, Zenon DEF GateAfter
  <1>4. [token |-> feedback.token, status |-> feedback.status, deadline |-> feedback.next,
         left |-> l] \in Gates
    BY <1>1, GateMade, Zenon DEF Gates
  <1> QED BY <1>3, <1>4

\* A saved row whose end is filled in.
LEMMA RowEnded ==
  ASSUME NEW S, NEW K,
         NEW row \in [token : Nat, status : S, kind : K, root : Nat, high : Nat,
                      recorded : Nat, settled : Nat, used : Nat, elapsed : Nat, wait : Nat,
                      next : Nat],
         NEW status \in S, NEW now \in Nat, NEW w \in Nat, NEW n \in Nat,
         NEW c \in Nat, NEW e \in Nat
  PROVE  /\ [row EXCEPT !.status = status, !.settled = now, !.high = now, !.wait = w,
                        !.next = n]
              \in [token : Nat, status : S, kind : K, root : Nat, high : Nat, recorded : Nat,
                   settled : Nat, used : Nat, elapsed : Nat, wait : Nat, next : Nat]
         /\ [row EXCEPT !.status = status, !.settled = now, !.high = now, !.used = c,
                        !.elapsed = e, !.wait = w, !.next = n]
              \in [token : Nat, status : S, kind : K, root : Nat, high : Nat, recorded : Nat,
                   settled : Nat, used : Nat, elapsed : Nat, wait : Nat, next : Nat]
  OBVIOUS

LEMMA RecoveredType ==
  ASSUME cpu \in CPURows, NEW now \in Nat
  PROVE  Recovered(now) \in CPURows
  <1>1. PICK n \in Nat : n = now + RecoveryDelay
    BY DelayAssumption
  <1>2. RecoveryDelay \in Nat /\ "recovered_unknown" \in Statuses
    BY DelayAssumption DEF Statuses
  <1> QED BY <1>1, <1>2, RowEnded, Zenon DEF Recovered, CPURows

LEMMA SettledType ==
  ASSUME cpu \in CPURows, NEW now \in Nat, NEW c \in Nat, NEW e \in Nat, NEW w \in Nat,
         NEW status \in {"observed", "completed_unknown"}
  PROVE  Settled(now, status, c, e, w) \in CPURows
  <1>1. PICK n \in Nat : n = IF w > 0 THEN now + w ELSE 0
    OBVIOUS
  <1>2. status \in Statuses
    BY DEF Statuses
  <1> QED BY <1>1, <1>2, RowEnded, Zenon DEF Settled, CPURows

\* The two ways a window is settled.
LEMMA SettledWindow ==
  ASSUME NEW now \in Walls, SettleWindow(now)
  PROVE  \E c, e, w \in Nat, status \in {"observed", "completed_unknown"} :
           /\ cpu' = Settled(now, status, c, e, w)
           /\ w <= BackoffLimit
           /\ IF status = "observed" THEN w = CPUFeedbackWait(c, e) ELSE w = 0
  <1>1. CASE \E m \in Measured :
          cpu' = Settled(now, "observed", m[1], m[2], CPUFeedbackWait(m[1], m[2]))
    <2>1. PICK m \in Measured :
            cpu' = Settled(now, "observed", m[1], m[2], CPUFeedbackWait(m[1], m[2]))
      BY <1>1
    <2>2. m[1] \in Nat /\ m[2] \in Nat /\ BackoffLimit \in Nat
      BY FeedbackAssumption
    <2>3. CPUFeedbackWait(m[1], m[2]) \in 0 .. BackoffLimit
      BY <2>2, WaitBounded
    <2>4. /\ CPUFeedbackWait(m[1], m[2]) \in Nat
          /\ CPUFeedbackWait(m[1], m[2]) <= BackoffLimit
      BY <2>2, <2>3
    <2> QED BY <2>1, <2>2, <2>4
  <1>2. CASE cpu' = Settled(now, "completed_unknown", 0, 0, 0)
    BY <1>2, FeedbackAssumption
  <1> QED BY <1>1, <1>2 DEF SettleWindow

LEMMA RecoverType ==
  ASSUME TypeOK, NEW now \in Walls, RecoverCommit(now)
  PROVE  cpu' \in CPURows /\ gate' \in Gates /\ owed' \in Nat
  <1>1. cpu \in CPURows /\ gate \in Gates /\ owed \in Nat
    BY DEF TypeOK, CPURows, Gates
  <1>2. now \in Nat /\ RecoveryDelay \in Nat
    BY WallType, DelayAssumption
  <1>3. cpu' = Recovered(now) \/ cpu' = cpu
    BY DEF RecoverCommit
  <1>4. cpu' \in CPURows
    BY <1>1, <1>2, <1>3, RecoveredType
  <1>5. gate' \in Gates
    BY <1>1, <1>2, <1>4, GateType DEF RecoverCommit
  <1> QED BY <1>1, <1>2, <1>4, <1>5 DEF RecoverCommit

LEMMA ReleasedType ==
  ASSUME TypeOK PROVE Released \in [Roots -> Jobs]
  BY DEF Released, TypeOK, Jobs

LEMMA DueType == ASSUME NEW n, NEW d \in DuesFrom(n) PROVE d \in Nat
  BY DuesAssumption DEF DuesFrom

LEMMA TypeInit == Init => TypeOK
  <1> SUFFICES ASSUME Init PROVE TypeOK
    OBVIOUS
  <1>1. dispatch \in [day : Nat, used : Nat, last : Nat, next : Nat]
        /\ cursor \in [root : Nat, dispatch : Nat]
    BY DEF Init
  <1>2. cpu \in CPURows
    BY DEF Init, NoFeedback, CPURows, Statuses, Kinds
  <1>3. jobs \in [Roots -> Jobs]
    BY DEF Init, NoJob, Jobs
  <1>4. turn \in Turns /\ gate \in Gates
    BY DEF Init, NoTurn, NoGate, Turns, Gates, Kinds
  <1> QED
    BY <1>1, <1>2, <1>3, <1>4 DEF Init, TypeOK, CPURows, Jobs, Turns, Gates, Phases

LEMMA NoneTyped == NoTurn \in Turns /\ NoGate \in Gates /\ NoJob \in Jobs
  BY DEF NoTurn, NoGate, NoJob, Turns, Gates, Jobs, Kinds

\* TypeOK in terms of the sets above.
Typed ==
  /\ dispatch \in Dispatches /\ cursor \in Cursors /\ cpu \in CPURows
  /\ jobs \in [Roots -> Jobs] /\ remains \subseteq Roots
  /\ phase \in Phases /\ limit \in Limits \cup {0} /\ turn \in Turns /\ gate \in Gates
  /\ cadence \in Nat /\ backoff \in Nat /\ owed \in Nat
  /\ charged \in [Days -> Nat] /\ passed \in [Roots -> Nat]

\* What a claim writes.
LEMMA ClaimedTurn ==
  ASSUME NEW now, ClaimTurn(now)
  PROVE  \E r : /\ \E source \in {turn.source, FALSE} : r = Selected(now, source) /\ r # 0
               /\ cursor' = [root |-> r, dispatch |-> turn.reserved]
               /\ jobs' = [jobs EXCEPT ![r].status =
                             IF KindOf(r) = "source" THEN "running" ELSE jobs[r].status]
               /\ turn' = [turn EXCEPT !.root = r, !.kind = KindOf(r)]
  BY Zenon DEF ClaimTurn, ClaimCommit

LEMMA TypeStep ==
  ASSUME TypeOK, RotationInv, RotationInv', [Next]_vars
  PROVE  TypeOK'
  <1>0. Typed
    BY Zenon DEF Typed, TypeOK, Dispatches, Cursors, CPURows, Jobs, Turns, Gates
  <1> SUFFICES Typed'
    BY Zenon DEF Typed, TypeOK, Dispatches, Cursors, CPURows, Jobs, Turns, Gates
  <1>a. passed' \in [Roots -> Nat] /\ cursor'.root \in Nat
    BY RootsAssumption DEF RotationInv
  <1>b. Interval \in Nat /\ ClaimWindow \in Nat
    BY DelayAssumption
  <1>c. Observe => backoff' \in Nat
    BY WaitsBounded DEF Observe
  <1>d. ASSUME NEW n \in Walls, NEW row \in CPURows PROVE GateAfter(row, n) \in Gates
    <2>1. n \in Nat
      BY WallType
    <2> QED BY <1>0, <2>1, GateType DEF Typed
  <1>e. {"down", "recovering", "setup", "idle", "awake", "reserved", "claimed", "begun",
         "running", "saved", "settling"} \subseteq Phases
    BY DEF Phases
  <1>f. 0 \in Limits \cup {0}
    OBVIOUS
  <1> USE DEF saved, process, observed, Typed
  <1>1. CASE Pass
    <2>1. /\ turn' = [turn EXCEPT !.left = Left(turn.left)]
          /\ gate' = [gate EXCEPT !.left = Left(gate.left)]
          /\ cadence' = Left(cadence) /\ backoff' = Left(backoff) /\ owed' = Left(owed)
      BY <1>1 DEF Pass
    <2>2. Left(turn.left) \in Nat /\ Left(gate.left) \in Nat
      BY <1>0, LeftType DEF Turns, Gates
    <2>3. turn' \in Turns /\ gate' \in Gates
      BY <1>0, <2>1, <2>2 DEF Turns, Gates
    <2>4. cadence' \in Nat /\ backoff' \in Nat /\ owed' \in Nat
      BY <1>0, <2>1, LeftType
    <2> QED BY <1>0, <1>1, <2>3, <2>4, Zenon DEF Pass
  <1>2. CASE Crash
    BY <1>0, <1>2, <1>e, NoneTyped DEF Crash, Gone
  <1>3. CASE RecoverJobs
    <2>1. jobs' \in [Roots -> Jobs]
      BY <1>0, <1>3 DEF RecoverJobs, Jobs
    <2> QED BY <1>0, <1>3, <1>e, <2>1 DEF RecoverJobs
  <1>4. CASE Abandon
    BY <1>0, <1>4, <1>c, <1>e, NoneTyped DEF Abandon
  <1>5. CASE RefuseLate
    BY <1>0, <1>5, <1>e, ReleasedType DEF RefuseLate
  <1>6. CASE StartHandler
    BY <1>0, <1>6, <1>b, <1>e DEF StartHandler
  <1>7. CASE RetireInventory
    BY <1>0, <1>7, <1>e DEF RetireInventory
  <1>8. ASSUME NEW now \in Walls, RecoverAtStart(now) PROVE Typed'
    <2>1. cpu' \in CPURows /\ gate' \in Gates /\ owed' \in Nat
      BY <1>8, RecoverType DEF RecoverAtStart
    <2> QED BY <1>0, <1>8, <1>e, <2>1 DEF RecoverAtStart
  <1>9. ASSUME NEW now \in Walls, RecoverInLoop(now) PROVE Typed'
    <2>1. cpu' \in CPURows /\ gate' \in Gates /\ owed' \in Nat
      BY <1>9, RecoverType DEF RecoverInLoop
    <2> QED BY <1>0, <1>9, <2>1 DEF RecoverInLoop
  <1>10. ASSUME NEW now \in Walls, SeedRevisits(now) PROVE Typed'
    <2>1. PICK due \in [Roots -> DuesFrom(now)] :
            jobs' = [r \in Roots |-> IF jobs[r].status = "none" /\ r \notin remains
                                     THEN [status |-> "pending", due |-> due[r]] ELSE jobs[r]]
      BY <1>10 DEF SeedRevisits
    <2>2. \A r \in Roots : due[r] \in Nat
      BY DueType
    <2>3. jobs' \in [Roots -> Jobs]
      BY <1>0, <2>1, <2>2 DEF Jobs
    <2> QED BY <1>0, <1>10, <1>c, <1>d, <1>e, <2>3 DEF SeedRevisits
  <1>11. ASSUME NEW now \in Walls, Wake(now) PROVE Typed'
    <2>1. PICK started \in Walls, source \in BOOLEAN :
            turn' = [NoTurn EXCEPT !.started = started, !.source = source]
      BY <1>11 DEF Wake
    <2>2. turn' \in Turns
      BY <2>1, NoneTyped, WallType DEF Turns
    <2> QED BY <1>0, <1>11, <1>d, <1>e, <2>2 DEF Wake
  <1>12. ASSUME NEW now \in Walls, ReserveScanChunk(now) PROVE Typed'
    <2>1. now \in Nat /\ DayOf(now) \in Nat /\ DayOf(now) \in Days
      BY WallType, DayBounds DEF Days
    <2>2. BudgetDay(now) \in Nat /\ UsedOn(now) \in Nat
      BY <1>0, <2>1 DEF BudgetDay, UsedOn, Dispatches
    <2>3. dispatch' \in Dispatches
      <3>1. now + Interval \in Nat /\ UsedOn(now) + 1 \in Nat
        BY <1>b, <2>1, <2>2
      <3>2. dispatch' = [day |-> BudgetDay(now), used |-> UsedOn(now) + 1,
                         last |-> now, next |-> now + Interval]
        BY <1>12 DEF ReserveScanChunk
      <3>3. ASSUME NEW d \in Nat, NEW u \in Nat, NEW l \in Nat, NEW n \in Nat
            PROVE  [day |-> d, used |-> u, last |-> l, next |-> n] \in Dispatches
        BY DEF Dispatches
      <3> QED BY <2>1, <2>2, <3>1, <3>2, <3>3, Zenon
    <2>4. turn' \in Turns
      BY <1>0, <1>12, <1>b, <2>1 DEF ReserveScanChunk, Turns
    <2>5. charged' \in [Days -> Nat]
      <3>1. PICK d \in Days : charged' = [charged EXCEPT ![d] = charged[d] + 1]
        BY <1>12, <2>1 DEF ReserveScanChunk
      <3> QED BY <1>0, <3>1
    <2> QED BY <1>0, <1>12, <1>b, <1>e, <2>3, <2>4, <2>5 DEF ReserveScanChunk, Dispatches
  <1>13. ASSUME NEW now \in Walls, ClaimTurn(now) PROVE Typed'
    <2>1. PICK r :
            /\ \E source \in {turn.source, FALSE} : r = Selected(now, source) /\ r # 0
            /\ cursor' = [root |-> r, dispatch |-> turn.reserved]
            /\ jobs' = [jobs EXCEPT ![r].status =
                          IF KindOf(r) = "source" THEN "running" ELSE jobs[r].status]
            /\ turn' = [turn EXCEPT !.root = r, !.kind = KindOf(r)]
      BY <1>13, ClaimedTurn
    <2>2. r \in Roots
      BY <2>1, SelectedNext DEF RotationInv
    <2>3. r \in Nat
      BY <2>2 DEF Roots
    <2>4. KindOf(r) \in Kinds
      BY DEF KindOf, Kinds
    <2>5. jobs' \in [Roots -> Jobs]
      BY <1>0, <2>1, <2>2 DEF Jobs
    <2>6. turn' \in Turns /\ cursor' \in Cursors
      BY <1>0, <2>1, <2>3, <2>4 DEF Turns, Cursors
    <2> QED BY <1>0, <1>13, <1>a, <1>e, <2>5, <2>6 DEF ClaimTurn
  <1>14. ASSUME NEW now \in Walls, DeferWindow(now) PROVE Typed'
    BY <1>0, <1>14, <1>c, <1>e, NoneTyped, ReleasedType DEF DeferWindow
  <1>15. ASSUME NEW now \in Walls, RefuseWindow(now) PROVE Typed'
    BY <1>0, <1>15, <1>e, NoneTyped, ReleasedType DEF RefuseWindow, Gone
  <1>16. ASSUME NEW now \in Walls, BeginWindow(now) PROVE Typed'
    <2>1. now \in Nat
      BY WallType
    <2>2. Begun(now) \in CPURows
      BY <1>0, <2>1 DEF Begun, CPURows, Turns, Statuses
    <2> QED BY <1>0, <1>16, <1>d, <1>e, <2>2 DEF BeginWindow
  <1>17. ASSUME NEW now \in Walls, SaveProgress(now) PROVE Typed'
    <2>1. PICK job \in {NoJob} \cup [status : {"pending"}, due : {0} \cup DuesFrom(now)] :
            jobs' = [jobs EXCEPT ![turn.root] = job]
      BY <1>17 DEF SaveProgress
    <2>2. job \in Jobs
      BY <2>1, NoneTyped, DueType DEF Jobs
    <2>3. jobs' \in [Roots -> Jobs]
      BY <1>0, <2>1, <2>2
    <2> QED BY <1>0, <1>17, <1>e, <2>3 DEF SaveProgress
  <1>18. ASSUME NEW now \in Walls, Finalize(now) PROVE Typed'
    <2>1. PICK due \in DuesFrom(now) :
            jobs' = IF jobs[turn.root].status = "none" /\ turn.root \notin remains
                    THEN [jobs EXCEPT ![turn.root] = [status |-> "pending", due |-> due]]
                    ELSE jobs
      BY <1>18 DEF Finalize
    <2>2. [status |-> "pending", due |-> due] \in Jobs
      BY DueType DEF Jobs
    <2>3. jobs' \in [Roots -> Jobs]
      BY <1>0, <2>1, <2>2
    <2> QED BY <1>0, <1>18, <1>e, <2>3 DEF Finalize
  <1>19. ASSUME NEW now \in Walls, SettleWindow(now) PROVE Typed'
    <2>1. PICK c, e, w \in Nat, status \in {"observed", "completed_unknown"} :
            cpu' = Settled(now, status, c, e, w)
      BY <1>19, SettledWindow
    <2>2. cpu' \in CPURows
      BY <1>0, <2>1, SettledType, WallType
    <2>3. cpu'.wait \in Nat
      BY <2>2 DEF CPURows
    <2> QED BY <1>0, <1>19, <1>d, <1>e, <2>2, <2>3, NoneTyped DEF SettleWindow
  <1>20. ASSUME NEW now \in Walls, RefuseSettlement(now) PROVE Typed'
    BY <1>0, <1>20, <1>e, NoneTyped DEF RefuseSettlement, Gone
  <1>21. CASE UNCHANGED vars
    BY <1>0, <1>21 DEF vars
  <1> QED
    BY <1>1, <1>2, <1>3, <1>4, <1>5, <1>6, <1>7, <1>8, <1>9, <1>10, <1>11, <1>12, <1>13,
       <1>14, <1>15, <1>16, <1>17, <1>18, <1>19, <1>20, <1>21, Zenon DEF Next

-----------------------------------------------------------------------------
(***************************************************************************)
(* The inductive invariant.                                                 *)
(***************************************************************************)

\* The dispatch row counts the receipts of the day of the last one, and no
\* receipt was charged to a later day.
ReceiptInv ==
  IF dispatch.last = 0 THEN charged = [d \in Days |-> 0]
  ELSE /\ dispatch.last \in Walls /\ dispatch.day = DayOf(dispatch.last)
       /\ dispatch.next = dispatch.last + Interval
       /\ charged[dispatch.day] = dispatch.used
       /\ \A d \in Days : d > dispatch.day => charged[d] = 0

Holding == {"claimed", "begun", "running", "saved", "settling"}
Working == {"begun", "running", "saved", "settling"}

\* A turn past its reservation has a receipt; one that holds a claim is the
\* turn the rotation and the dispatch row stand on; one that works owns the
\* pending window.
TurnInv ==
  /\ phase \in Holding \cup {"reserved"} => turn.reserved \in Walls
  /\ phase \in Holding =>
       /\ turn.root \in Roots /\ turn.kind # "none"
       /\ cursor.root = turn.root /\ cursor.dispatch = turn.reserved
       /\ dispatch.last = turn.reserved
  /\ phase \in Working =>
       /\ cpu.status = "pending" /\ cpu.token = turn.reserved
       /\ cpu.root = turn.root /\ cpu.kind = turn.kind

\* The only lease is that of a source turn between its claim and its result.
LeaseInv ==
  /\ phase \notin {"down", "claimed", "begun", "running"} =>
       \A r \in Roots : jobs[r].status # "running"
  /\ phase \in {"claimed", "begun", "running"} =>
       \A r \in Roots : jobs[r].status = "running" <=> r = turn.root /\ turn.kind = "source"
  /\ phase = "running" => turn.kind = "source"

\* The gate of a process follows the saved row from the recovery on, and what
\* the process owes is covered by what remains of the gate's deadline.
GateInv ==
  /\ IF phase \in {"down", "recovering"} THEN gate = NoGate
     ELSE gate.token = cpu.token /\ gate.status = cpu.status /\ gate.deadline = cpu.next
  /\ owed <= gate.left
  /\ phase \notin {"setup", "idle"} => owed = 0

FeedbackInv == FeedbackValid /\ (cpu.token = 0 <=> cpu.status = "untracked")

FairInv == TypeOK /\ RotationInv /\ ReceiptInv /\ TurnInv /\ LeaseInv /\ GateInv /\ FeedbackInv

LEMMA NoGateFields ==
  NoGate.token = 0 /\ NoGate.status = "" /\ NoGate.deadline = 0 /\ NoGate.left = 0
  BY DEF NoGate

LEMMA FairInit == Init => FairInv
  <1> SUFFICES ASSUME Init PROVE FairInv
    OBVIOUS
  <1>1. TypeOK
    BY TypeInit
  <1>2. RotationInv
    BY RootsAssumption DEF Init, RotationInv, Ahead, Roots
  <1>3. ReceiptInv /\ TurnInv /\ LeaseInv
    BY DEF Init, ReceiptInv, TurnInv, LeaseInv, Holding, Working
  <1>4. GateInv
    <2>1. gate = NoGate /\ owed = 0 /\ phase = "down"
      BY DEF Init
    <2>2. owed = 0 /\ gate.left = 0
      BY <2>1, NoGateFields, Zenon
    <2>3. owed <= gate.left
      BY <2>2
    <2> QED BY <2>1, <2>3 DEF GateInv
  <1>5. cpu.token = 0 /\ cpu.status = "untracked"
    BY DEF Init, NoFeedback
  <1>6. FeedbackInv
    BY <1>5 DEF FeedbackInv, FeedbackValid
  <1> QED BY <1>1, <1>2, <1>3, <1>4, <1>6 DEF FairInv

LEMMA RotationStep ==
  ASSUME RotationInv, [Next]_vars
  PROVE  RotationInv'
  <1>1. CASE \E now \in Walls : ClaimTurn(now)
    BY <1>1, ClaimRotates
  <1>2. CASE \A now \in Walls : ~ClaimTurn(now)
    <2>1. cursor' = cursor /\ passed' = passed
      BY <1>2, RotationKept
    <2> QED BY <2>1 DEF RotationInv, Ahead
  <1> QED BY <1>1, <1>2

\* A reservation: an admitted reading is on the last receipt's day or a later one.
LEMMA ReserveCounted ==
  ASSUME TypeOK, ReceiptInv, NEW now \in Walls, ReserveScanChunk(now)
  PROVE  /\ ReceiptInv'
         /\ charged[DayOf(now)] < limit
         /\ charged' = [charged EXCEPT ![DayOf(now)] = charged[DayOf(now)] + 1]
         /\ dispatch.last # 0 => now >= dispatch.last + Interval
         /\ dispatch'.last = now
  <1>1. /\ now \in Nat /\ now > 0 /\ DayOf(now) \in Nat /\ DayOf(now) \in Days
        /\ Interval \in Nat /\ charged \in [Days -> Nat] /\ limit \in Nat
        /\ dispatch.used \in Nat /\ dispatch.day \in Nat /\ dispatch.last \in Nat
    <2>1. now \in Nat /\ now > 0
      BY WallType
    <2>2. DayOf(now) \in Nat /\ DayOf(now) \in Days
      BY <2>1, DayBounds DEF Days
    <2>3. Interval \in Nat /\ limit \in Nat
      <3>1. limit \in Limits \cup {0}
        BY DEF TypeOK
      <3> QED BY <3>1, DelayAssumption, LimitsAssumption
    <2> QED BY <2>1, <2>2, <2>3 DEF TypeOK
  <1>2. /\ ~(dispatch.last # 0 /\ now < dispatch.last)
        /\ ~(UsedOn(now) >= limit)
        /\ ~(dispatch.last # 0 /\ now < dispatch.next)
    BY DEF ReserveScanChunk, DispatchReason
  <1>3. /\ dispatch' = [day |-> BudgetDay(now), used |-> UsedOn(now) + 1,
                        last |-> now, next |-> now + Interval]
        /\ charged' = [charged EXCEPT ![DayOf(now)] = charged[DayOf(now)] + 1]
    BY DEF ReserveScanChunk
  <1>4. /\ BudgetDay(now) = DayOf(now) /\ UsedOn(now) = charged[DayOf(now)]
        /\ \A d \in Days : d > DayOf(now) => charged[d] = 0
    <2>1. CASE dispatch.last = 0
      BY <1>1, <2>1 DEF BudgetDay, UsedOn, ReceiptInv
    <2>2. CASE dispatch.last # 0
      <3>1. DayOf(dispatch.last) <= DayOf(now)
        BY <1>1, <1>2, <2>2, DayMonotone
      <3>2. /\ dispatch.day <= DayOf(now) /\ charged[dispatch.day] = dispatch.used
            /\ \A d \in Days : d > dispatch.day => charged[d] = 0
        BY <2>2, <3>1 DEF ReceiptInv
      <3>3. CASE dispatch.day = DayOf(now)
        BY <1>1, <2>2, <3>2, <3>3 DEF BudgetDay, UsedOn
      <3>4. CASE dispatch.day < DayOf(now)
        <4>1. ~(dispatch.day >= DayOf(now)) /\ charged[DayOf(now)] = 0
          BY <1>1, <3>2, <3>4
        <4>2. ASSUME NEW d \in Days, d > DayOf(now) PROVE charged[d] = 0
          <5>1. d \in Nat
            BY DayBounds, WallType DEF Days
          <5> QED BY <1>1, <3>2, <3>4, <4>2, <5>1
        <4> QED BY <4>1, <4>2 DEF BudgetDay, UsedOn
      <3> QED BY <1>1, <3>2, <3>3, <3>4
    <2> QED BY <2>1, <2>2
  <1>5. charged[DayOf(now)] < limit
    BY <1>1, <1>2, <1>4
  <1>6. /\ dispatch'.last = now /\ dispatch'.day = DayOf(now)
        /\ dispatch'.next = now + Interval /\ dispatch'.used = charged[DayOf(now)] + 1
    BY <1>3, <1>4
  <1>7. charged'[DayOf(now)] = charged[DayOf(now)] + 1
    BY <1>1, <1>3
  <1>8. \A d \in Days : d # DayOf(now) => charged'[d] = charged[d]
    BY <1>1, <1>3
  <1>9. \A d \in Days : d > DayOf(now) => charged'[d] = 0
    BY <1>1, <1>4, <1>8
  <1>10. ReceiptInv'
    <2>1. DayOf(dispatch'.last) = DayOf(now)
      BY <1>6
    <2> QED BY <1>1, <1>6, <1>7, <1>9, <2>1 DEF ReceiptInv
  <1>11. dispatch.last # 0 => now >= dispatch.last + Interval
    BY <1>1, <1>2 DEF ReceiptInv
  <1> QED BY <1>3, <1>5, <1>6, <1>10, <1>11

\* Only a reservation writes the dispatch row.
LEMMA ReceiptsKept ==
  ASSUME [Next]_vars, \A now \in Walls : ~ReserveScanChunk(now)
  PROVE  UNCHANGED <<dispatch, charged>>
  BY Zenon DEF Next, vars, saved, process, observed, Pass, Crash, Gone, RecoverJobs, Abandon,
         RefuseLate, StartHandler, RetireInventory, RecoverAtStart, RecoverInLoop,
         SeedRevisits, Wake, ClaimTurn, DeferWindow, RefuseWindow, BeginWindow, SaveProgress,
         Finalize, SettleWindow, RefuseSettlement

LEMMA ReceiptStep ==
  ASSUME TypeOK, ReceiptInv, [Next]_vars
  PROVE  ReceiptInv'
  <1>1. CASE \E now \in Walls : ReserveScanChunk(now)
    BY <1>1, ReserveCounted
  <1>2. CASE \A now \in Walls : ~ReserveScanChunk(now)
    <2>1. dispatch' = dispatch /\ charged' = charged
      BY <1>2, ReceiptsKept
    <2> QED BY <2>1 DEF ReceiptInv
  <1> QED BY <1>1, <1>2

-----------------------------------------------------------------------------
(***************************************************************************)
(* The turn and its lease.                                                  *)
(***************************************************************************)

LEMMA TurnStep ==
  ASSUME TypeOK, RotationInv, TurnInv, [Next]_vars
  PROVE  TurnInv'
  <1> USE DEF TurnInv, Holding, Working, saved, process, observed
  <1>1. CASE Pass
    <2>1. /\ turn'.reserved = turn.reserved /\ turn'.root = turn.root /\ turn'.kind = turn.kind
          /\ UNCHANGED <<saved, phase>>
      BY <1>1 DEF Pass, TypeOK
    <2> QED BY <2>1
  <1>2. CASE Crash
    BY <1>2 DEF Crash, Gone
  <1>3. CASE RecoverJobs
    BY <1>3 DEF RecoverJobs
  <1>4. CASE Abandon
    BY <1>4 DEF Abandon
  <1>5. CASE RefuseLate
    BY <1>5 DEF RefuseLate
  <1>6. CASE StartHandler
    BY <1>6 DEF StartHandler
  <1>7. CASE RetireInventory
    BY <1>7 DEF RetireInventory
  <1>8. ASSUME NEW now \in Walls, RecoverAtStart(now) PROVE TurnInv'
    BY <1>8 DEF RecoverAtStart
  <1>9. ASSUME NEW now \in Walls, RecoverInLoop(now) PROVE TurnInv'
    BY <1>9 DEF RecoverInLoop
  <1>10. ASSUME NEW now \in Walls, SeedRevisits(now) PROVE TurnInv'
    BY <1>10 DEF SeedRevisits
  <1>11. ASSUME NEW now \in Walls, Wake(now) PROVE TurnInv'
    BY <1>11 DEF Wake
  <1>12. ASSUME NEW now \in Walls, ReserveScanChunk(now) PROVE TurnInv'
    BY <1>12 DEF ReserveScanChunk, TypeOK
  <1>13. ASSUME NEW now \in Walls, ClaimTurn(now) PROVE TurnInv'
    <2>1. PICK r :
            /\ \E source \in {turn.source, FALSE} : r = Selected(now, source) /\ r # 0
            /\ cursor' = [root |-> r, dispatch |-> turn.reserved]
            /\ turn' = [turn EXCEPT !.root = r, !.kind = KindOf(r)]
      BY <1>13, ClaimedTurn, ZenonT(60)
    <2>2. r \in Roots
      BY <2>1, SelectedNext DEF RotationInv
    <2>3. /\ turn'.root = r /\ turn'.kind = KindOf(r) /\ turn'.reserved = turn.reserved
          /\ KindOf(r) # "none"
      BY <2>1 DEF TypeOK, KindOf
    <2>4. cursor'.root = r /\ cursor'.dispatch = turn.reserved
      BY <2>1
    <2> QED BY <1>13, <2>2, <2>3, <2>4 DEF ClaimTurn, ReceiptUnused
  <1>14. ASSUME NEW now \in Walls, DeferWindow(now) PROVE TurnInv'
    BY <1>14 DEF DeferWindow
  <1>15. ASSUME NEW now \in Walls, RefuseWindow(now) PROVE TurnInv'
    BY <1>15 DEF RefuseWindow, Gone
  <1>16. ASSUME NEW now \in Walls, BeginWindow(now) PROVE TurnInv'
    BY <1>16 DEF BeginWindow, Begun
  <1>17. ASSUME NEW now \in Walls, SaveProgress(now) PROVE TurnInv'
    BY <1>17 DEF SaveProgress
  <1>18. ASSUME NEW now \in Walls, Finalize(now) PROVE TurnInv'
    BY <1>18 DEF Finalize
  <1>19. ASSUME NEW now \in Walls, SettleWindow(now) PROVE TurnInv'
    BY <1>19 DEF SettleWindow
  <1>20. ASSUME NEW now \in Walls, RefuseSettlement(now) PROVE TurnInv'
    BY <1>20 DEF RefuseSettlement, Gone
  <1>21. CASE UNCHANGED vars
    BY <1>21 DEF vars
  <1> QED
    BY <1>1, <1>2, <1>3, <1>4, <1>5, <1>6, <1>7, <1>8, <1>9, <1>10, <1>11, <1>12, <1>13,
       <1>14, <1>15, <1>16, <1>17, <1>18, <1>19, <1>20, <1>21, Zenon DEF Next

\* FinishJob gives the lease of the turn back, so that none is left.
LEMMA ReleaseEnds ==
  ASSUME TypeOK, TurnInv, LeaseInv, phase \in {"claimed", "begun"}
  PROVE  \A r \in Roots : Released[r].status # "running"
  BY DEF Released, TypeOK, TurnInv, LeaseInv, Holding

LEMMA LeaseStep ==
  ASSUME TypeOK, RotationInv, TurnInv, LeaseInv, [Next]_vars
  PROVE  LeaseInv'
  <1> USE DEF LeaseInv, saved, process, observed
  <1>1. CASE Pass
    <2>1. turn'.root = turn.root /\ turn'.kind = turn.kind /\ UNCHANGED <<jobs, phase>>
      BY <1>1 DEF Pass, TypeOK
    <2> QED BY <2>1
  <1>2. CASE Crash
    BY <1>2 DEF Crash, Gone
  <1>3. CASE RecoverJobs
    <2>1. ASSUME NEW r \in Roots PROVE jobs'[r].status # "running"
      <3>1. jobs[r] \in Jobs
        BY DEF TypeOK, Jobs
      <3>2. jobs'[r] = IF jobs[r].status = "running"
                       THEN [jobs[r] EXCEPT !.status = "pending"] ELSE jobs[r]
        BY <1>3 DEF RecoverJobs
      <3> QED BY <3>1, <3>2 DEF Jobs
    <2> QED BY <1>3, <2>1 DEF RecoverJobs
  <1>4. CASE Abandon
    BY <1>4 DEF Abandon
  <1>5. CASE RefuseLate
    BY <1>5, ReleaseEnds DEF RefuseLate
  <1>6. CASE StartHandler
    BY <1>6 DEF StartHandler
  <1>7. CASE RetireInventory
    BY <1>7 DEF RetireInventory
  <1>8. ASSUME NEW now \in Walls, RecoverAtStart(now) PROVE LeaseInv'
    BY <1>8 DEF RecoverAtStart
  <1>9. ASSUME NEW now \in Walls, RecoverInLoop(now) PROVE LeaseInv'
    BY <1>9 DEF RecoverInLoop
  <1>10. ASSUME NEW now \in Walls, SeedRevisits(now) PROVE LeaseInv'
    BY <1>10 DEF SeedRevisits
  <1>11. ASSUME NEW now \in Walls, Wake(now) PROVE LeaseInv'
    BY <1>11 DEF Wake
  <1>12. ASSUME NEW now \in Walls, ReserveScanChunk(now) PROVE LeaseInv'
    BY <1>12 DEF ReserveScanChunk
  <1>13. ASSUME NEW now \in Walls, ClaimTurn(now) PROVE LeaseInv'
    <2>1. PICK r :
            /\ \E source \in {turn.source, FALSE} : r = Selected(now, source) /\ r # 0
            /\ jobs' = [jobs EXCEPT ![r].status =
                          IF KindOf(r) = "source" THEN "running" ELSE jobs[r].status]
            /\ turn' = [turn EXCEPT !.root = r, !.kind = KindOf(r)]
      BY <1>13, ClaimedTurn
    <2>2. r \in Roots
      BY <2>1, SelectedNext DEF RotationInv
    <2>3. turn'.root = r /\ turn'.kind = KindOf(r)
      BY <2>1 DEF TypeOK
    <2>4. phase = "reserved" /\ phase' = "claimed"
      BY <1>13 DEF ClaimTurn
    <2>5. /\ \A q \in Roots : q # r => jobs'[q] = jobs[q]
          /\ jobs'[r].status = IF KindOf(r) = "source" THEN "running" ELSE jobs[r].status
      <3>1. jobs \in [Roots -> Jobs] /\ jobs[r] \in Jobs
        BY <2>2 DEF TypeOK, Jobs
      <3>2. PICK x : x = IF KindOf(r) = "source" THEN "running" ELSE jobs[r].status
        OBVIOUS
      <3>3. jobs' = [jobs EXCEPT ![r] = [jobs[r] EXCEPT !.status = x]]
        BY <2>1, <3>2
      <3>4. [jobs[r] EXCEPT !.status = x].status = x
        BY <3>1 DEF Jobs
      <3> QED BY <2>2, <3>1, <3>2, <3>3, <3>4
    <2> QED BY <2>2, <2>3, <2>4, <2>5
  <1>14. ASSUME NEW now \in Walls, DeferWindow(now) PROVE LeaseInv'
    BY <1>14, ReleaseEnds DEF DeferWindow
  <1>15. ASSUME NEW now \in Walls, RefuseWindow(now) PROVE LeaseInv'
    BY <1>15 DEF RefuseWindow, Gone
  <1>16. ASSUME NEW now \in Walls, BeginWindow(now) PROVE LeaseInv'
    BY <1>16 DEF BeginWindow
  <1>17. ASSUME NEW now \in Walls, SaveProgress(now) PROVE LeaseInv'
    <2>1. PICK job \in {NoJob} \cup [status : {"pending"}, due : {0} \cup DuesFrom(now)] :
            jobs' = [jobs EXCEPT ![turn.root] = job]
      BY <1>17 DEF SaveProgress
    <2>2. job.status # "running"
      BY <2>1 DEF NoJob
    <2>3. \A r \in Roots : jobs'[r].status # "running"
      BY <1>17, <2>1, <2>2 DEF SaveProgress, TypeOK
    <2> QED BY <1>17, <2>3 DEF SaveProgress
  <1>18. ASSUME NEW now \in Walls, Finalize(now) PROVE LeaseInv'
    <2>1. PICK due \in DuesFrom(now) :
            jobs' = IF jobs[turn.root].status = "none" /\ turn.root \notin remains
                    THEN [jobs EXCEPT ![turn.root] = [status |-> "pending", due |-> due]]
                    ELSE jobs
      BY <1>18 DEF Finalize
    <2>2. \A r \in Roots : jobs'[r].status # "running"
      BY <1>18, <2>1 DEF Finalize, TypeOK
    <2> QED BY <1>18, <2>2 DEF Finalize
  <1>19. ASSUME NEW now \in Walls, SettleWindow(now) PROVE LeaseInv'
    BY <1>19 DEF SettleWindow
  <1>20. ASSUME NEW now \in Walls, RefuseSettlement(now) PROVE LeaseInv'
    BY <1>20 DEF RefuseSettlement, Gone
  <1>21. CASE UNCHANGED vars
    BY <1>21 DEF vars
  <1> QED
    BY <1>1, <1>2, <1>3, <1>4, <1>5, <1>6, <1>7, <1>8, <1>9, <1>10, <1>11, <1>12, <1>13,
       <1>14, <1>15, <1>16, <1>17, <1>18, <1>19, <1>20, <1>21, Zenon DEF Next

-----------------------------------------------------------------------------
(***************************************************************************)
(* The saved window and the gate.                                           *)
(***************************************************************************)

\* cpuFeedbackGate.update: the gate has the record's token, status and deadline,
\* and a record it did not know before starts its own delay.
LEMMA GateFollows ==
  ASSUME gate \in Gates, NEW row \in CPURows, NEW at \in Nat, NEW g, g = GateAfter(row, at)
  PROVE  /\ g.token = row.token /\ g.status = row.status /\ g.deadline = row.next
         /\ gate.status # row.status =>
              g.left = IF row.next > at THEN row.next - at ELSE 0
         /\ gate.token = row.token /\ gate.status = row.status /\ gate.deadline = row.next
              => g = gate
  BY Zenon DEF GateAfter

\* RecoverCPUWindow, field by field.
LEMMA RecoveredFields ==
  ASSUME cpu \in CPURows, NEW now \in Nat, NEW row, row = Recovered(now)
  PROVE  /\ row.token = cpu.token /\ row.status = "recovered_unknown"
         /\ row.kind = cpu.kind /\ row.root = cpu.root /\ row.recorded = cpu.recorded
         /\ row.settled = now /\ row.high = now /\ row.wait = RecoveryDelay
         /\ row.next = now + RecoveryDelay
  BY DEF Recovered, CPURows

\* FinishCPUWindow, field by field.
LEMMA SettledFields ==
  ASSUME cpu \in CPURows, NEW now \in Nat, NEW status, NEW c, NEW e, NEW w, NEW row,
         row = Settled(now, status, c, e, w)
  PROVE  /\ row.token = cpu.token /\ row.status = status
         /\ row.kind = cpu.kind /\ row.root = cpu.root /\ row.recorded = cpu.recorded
         /\ row.settled = now /\ row.high = now /\ row.used = c /\ row.elapsed = e
         /\ row.wait = w /\ row.next = IF w > 0 THEN now + w ELSE 0
  BY DEF Settled, CPURows

LEMMA LatestBounds ==
  ASSUME NEW a \in Nat, NEW b \in Nat
  PROVE  Latest(a, b) \in Nat /\ Latest(a, b) >= a /\ Latest(a, b) >= b
  BY DEF Latest

LEMMA RowTyped ==
  ASSUME TypeOK
  PROVE  /\ cpu \in CPURows /\ gate \in Gates
         /\ cpu.token \in Nat /\ cpu.high \in Nat /\ cpu.recorded \in Nat
         /\ cpu.next \in Nat /\ cpu.wait \in Nat /\ owed \in Nat /\ gate.left \in Nat
  BY DEF TypeOK, CPURows, Gates

\* A recovered window is readable and its delay is on the gate.
LEMMA RecoverCovered ==
  ASSUME TypeOK, FeedbackInv, NEW now \in Walls, RecoverCommit(now),
         gate = NoGate \/ gate.status = cpu.status, owed <= gate.left,
         gate = NoGate => owed = 0,
         gate = NoGate \/ (gate.token = cpu.token /\ gate.deadline = cpu.next)
  PROVE  /\ FeedbackInv'
         /\ gate'.token = cpu'.token /\ gate'.status = cpu'.status
         /\ gate'.deadline = cpu'.next /\ owed' <= gate'.left
         /\ cpu'.token = cpu.token
  <1>1. /\ cpu \in CPURows /\ gate \in Gates /\ cpu' \in CPURows /\ gate' \in Gates
        /\ cpu.high \in Nat /\ cpu.recorded \in Nat /\ cpu.token \in Nat
        /\ owed \in Nat /\ gate.left \in Nat
    BY RowTyped, RecoverType
  <1>2. now \in Nat /\ RecoveryDelay \in Nat /\ RecoveryDelay > 0 /\ BackoffLimit \in Nat
    BY WallType, DelayAssumption, FeedbackAssumption
  <1>3. gate' = GateAfter(cpu', now)
    BY DEF RecoverCommit
  <1>4. /\ gate'.token = cpu'.token /\ gate'.status = cpu'.status
        /\ gate'.deadline = cpu'.next
        /\ gate.status # cpu'.status =>
             gate'.left = IF cpu'.next > now THEN cpu'.next - now ELSE 0
        /\ gate.token = cpu'.token /\ gate.status = cpu'.status /\ gate.deadline = cpu'.next
             => gate' = gate
    BY <1>1, <1>2, <1>3, GateFollows
  <1>5. CASE now >= cpu.high /\ cpu.status = "pending"
    <2>1. cpu' = Recovered(now)
      BY <1>5 DEF RecoverCommit
    <2>2. /\ cpu'.token = cpu.token /\ cpu'.status = "recovered_unknown"
          /\ cpu'.kind = cpu.kind /\ cpu'.root = cpu.root /\ cpu'.recorded = cpu.recorded
          /\ cpu'.settled = now /\ cpu'.high = now /\ cpu'.wait = RecoveryDelay
          /\ cpu'.next = now + RecoveryDelay
      BY <1>1, <1>2, <2>1, RecoveredFields
    <2>3. gate.status # cpu'.status
      BY <1>5, <2>2, NoGateFields
    <2>4. gate'.left = RecoveryDelay
      BY <1>2, <1>4, <2>2, <2>3
    <2>5. owed' = RecoveryDelay
      BY <1>5, <2>2 DEF RecoverCommit
    <2>6. Latest(BackoffLimit, RecoveryDelay) >= RecoveryDelay
      BY <1>2, LatestBounds
    <2>7. FeedbackInv'
      BY <1>1, <1>2, <1>5, <2>2, <2>6 DEF FeedbackInv, FeedbackValid
    <2> QED BY <1>2, <1>4, <2>2, <2>4, <2>5, <2>7
  <1>6. CASE ~(now >= cpu.high /\ cpu.status = "pending")
    <2>1. cpu' = cpu /\ owed' = owed
      BY <1>6 DEF RecoverCommit
    <2>2. FeedbackInv'
      BY <2>1 DEF FeedbackInv, FeedbackValid
    <2>3. owed' <= gate'.left
      <3>1. CASE gate = NoGate
        <4>1. gate'.left \in Nat
          BY <1>1 DEF Gates
        <4> QED BY <2>1, <3>1, <4>1
      <3>2. CASE gate # NoGate
        BY <1>4, <2>1, <3>2
      <3> QED BY <3>1, <3>2
    <2> QED BY <1>4, <2>1, <2>2, <2>3
  <1> QED BY <1>5, <1>6

\* While the gate follows the saved row, refreshing it changes nothing.
LEMMA RefreshIdle ==
  ASSUME TypeOK, GateInv, phase \notin {"down", "recovering"}, NEW now \in Walls
  PROVE  GateAfter(cpu, now) = gate
  BY Zenon DEF GateAfter, GateInv

\* A new window is readable and costs nothing yet.
LEMMA BeginCovered ==
  ASSUME TypeOK, TurnInv, GateInv, FeedbackInv, NEW now \in Walls, BeginWindow(now), TypeOK'
  PROVE  GateInv' /\ FeedbackInv'
  <1>1. /\ cpu' = Begun(now) /\ gate' = GateAfter(cpu', now) /\ owed' = owed
        /\ phase = "claimed" /\ phase' = "begun"
    BY DEF BeginWindow, observed
  <1>2. /\ now \in Nat /\ turn.reserved \in Nat /\ turn.reserved > 0
        /\ turn.root \in Roots /\ turn.kind # "none"
    BY <1>1, WallType DEF TurnInv, Holding
  <1>3. turn.reserved <= now
    BY DEF BeginWindow, BeginStale, ReceiptCurrent
  <1>4. /\ cpu'.token = turn.reserved /\ cpu'.status = "pending" /\ cpu'.kind = turn.kind
        /\ cpu'.root = turn.root /\ cpu'.high = now /\ cpu'.recorded = now
        /\ cpu'.settled = 0 /\ cpu'.used = 0 /\ cpu'.elapsed = 0 /\ cpu'.wait = 0
        /\ cpu'.next = 0
    BY <1>1 DEF Begun
  <1>5. cpu' \in CPURows /\ gate \in Gates /\ gate'.left \in Nat
    BY DEF TypeOK, CPURows, Gates
  <1>6. gate'.token = cpu'.token /\ gate'.status = cpu'.status /\ gate'.deadline = cpu'.next
    BY <1>1, <1>2, <1>5, GateFollows
  <1>7. owed' = 0
    BY <1>1 DEF GateInv
  <1>8. GateInv'
    BY <1>1, <1>5, <1>6, <1>7 DEF GateInv
  <1>9. Latest(BackoffLimit, RecoveryDelay) >= 0
    BY LatestBounds, FeedbackAssumption, DelayAssumption
  <1>10. FeedbackInv'
    BY <1>2, <1>3, <1>4, <1>9 DEF FeedbackInv, FeedbackValid
  <1> QED BY <1>8, <1>10

\* A settled window is readable, and its cost is on the gate.
LEMMA SettleCovered ==
  ASSUME TypeOK, TurnInv, GateInv, FeedbackInv, NEW now \in Walls, SettleWindow(now), TypeOK'
  PROVE  GateInv' /\ FeedbackInv'
  <1>1. PICK c, e, w \in Nat, status \in {"observed", "completed_unknown"} :
          /\ cpu' = Settled(now, status, c, e, w)
          /\ w <= BackoffLimit
          /\ IF status = "observed" THEN w = CPUFeedbackWait(c, e) ELSE w = 0
    BY SettledWindow
  <1>2. /\ now \in Nat /\ cpu \in CPURows /\ gate \in Gates /\ cpu.recorded \in Nat
        /\ cpu.high \in Nat /\ cpu.token \in Nat
    BY WallType, RowTyped
  <1>3. /\ cpu'.token = cpu.token /\ cpu'.status = status
        /\ cpu'.kind = cpu.kind /\ cpu'.root = cpu.root /\ cpu'.recorded = cpu.recorded
        /\ cpu'.settled = now /\ cpu'.high = now /\ cpu'.used = c /\ cpu'.elapsed = e
        /\ cpu'.wait = w /\ cpu'.next = IF w > 0 THEN now + w ELSE 0
    BY <1>1, <1>2, SettledFields
  <1>4. /\ gate' = GateAfter(cpu', now) /\ owed' = cpu'.wait /\ phase' = "idle"
        /\ phase = "settling" /\ now >= cpu.high
    BY DEF SettleWindow
  <1>5. cpu.status = "pending" /\ gate.status = "pending"
    BY <1>4 DEF TurnInv, Working, GateInv
  <1>6. cpu' \in CPURows
    BY DEF TypeOK, CPURows
  <1>7. /\ gate'.token = cpu'.token /\ gate'.status = cpu'.status /\ gate'.deadline = cpu'.next
        /\ gate'.left = IF cpu'.next > now THEN cpu'.next - now ELSE 0
    BY <1>2, <1>3, <1>4, <1>5, <1>6, GateFollows
  <1>8. gate'.left = w
    BY <1>2, <1>3, <1>7
  <1>9. GateInv'
    BY <1>3, <1>4, <1>7, <1>8 DEF GateInv
  <1>10. Latest(BackoffLimit, RecoveryDelay) >= w
    <2>1. BackoffLimit \in Nat /\ RecoveryDelay \in Nat
      BY FeedbackAssumption, DelayAssumption
    <2>2. /\ Latest(BackoffLimit, RecoveryDelay) \in Nat
          /\ Latest(BackoffLimit, RecoveryDelay) >= BackoffLimit
      BY <2>1, LatestBounds
    <2> QED BY <1>1, <2>1, <2>2
  <1>11. cpu.token # 0 /\ cpu.kind # "none" /\ cpu.root \in Roots
         /\ cpu.token <= cpu.recorded /\ cpu.recorded <= cpu.high
    BY <1>5 DEF FeedbackInv, FeedbackValid
  <1>12. cpu'.status = "observed" => cpu'.wait = CPUFeedbackWait(cpu'.used, cpu'.elapsed)
    BY <1>1, <1>3
  <1>13. cpu'.next = IF cpu'.wait = 0 THEN 0 ELSE cpu'.settled + cpu'.wait
    BY <1>1, <1>2, <1>3
  <1>14. cpu'.recorded <= cpu'.settled /\ cpu'.settled <= cpu'.high
         /\ cpu'.recorded <= cpu'.high /\ cpu'.wait <= Latest(BackoffLimit, RecoveryDelay)
    BY <1>1, <1>2, <1>3, <1>4, <1>10, <1>11
  <1>15. cpu'.status \notin {"pending", "untracked", "recovered_unknown"}
    BY <1>3
  <1>16. FeedbackInv'
    BY <1>3, <1>11, <1>12, <1>13, <1>14, <1>15, Zenon DEF FeedbackInv, FeedbackValid
  <1> QED BY <1>9, <1>16

LEMMA WindowStep ==
  ASSUME TypeOK, TurnInv, GateInv, FeedbackInv, [Next]_vars, TypeOK'
  PROVE  GateInv' /\ FeedbackInv'
  <1>0. cpu' = cpu => FeedbackInv'
    BY DEF FeedbackInv, FeedbackValid
  <1>a. owed \in Nat /\ gate.left \in Nat
    BY RowTyped
  <1>b. Gone => GateInv'
    <2> SUFFICES ASSUME Gone PROVE GateInv'
      OBVIOUS
    <2>1. gate' = NoGate /\ owed' = 0 /\ phase' = "down"
      BY DEF Gone
    <2>2. owed' = 0 /\ gate'.left = 0
      BY <2>1, NoGateFields, Zenon
    <2>3. owed' <= gate'.left
      BY <2>2
    <2> QED BY <2>1, <2>3 DEF GateInv
  <1> USE DEF saved, process, observed
  <1>1. CASE Pass
    <2>1. /\ gate' = [gate EXCEPT !.left = Left(gate.left)] /\ owed' = Left(owed)
          /\ cpu' = cpu /\ phase' = phase
      BY <1>1 DEF Pass
    <2>2. /\ gate'.token = gate.token /\ gate'.status = gate.status
          /\ gate'.deadline = gate.deadline /\ gate'.left = Left(gate.left)
      BY <2>1 DEF TypeOK
    <2>3. gate = NoGate => gate' = NoGate
      <3>1. Left(NoGate.left) = 0
        BY NoGateFields DEF Left
      <3>2. [NoGate EXCEPT !.left = 0] = NoGate
        <4>1. ASSUME NEW S, NEW g \in [token : Nat, status : S, deadline : Nat, left : Nat],
                     g.left = 0
              PROVE  [g EXCEPT !.left = 0] = g
          BY <4>1
        <4>2. NoGate \in Gates /\ NoGate.left = 0
          BY NoneTyped, NoGateFields
        <4> QED BY <4>1, <4>2, Zenon DEF Gates
      <3> QED BY <2>1, <3>1, <3>2
    <2>4. owed' <= gate'.left /\ (owed = 0 => owed' = 0)
      BY <1>a, <2>1, <2>2 DEF Left, GateInv
    <2> QED BY <1>0, <2>1, <2>2, <2>3, <2>4 DEF GateInv
  <1>2. CASE Crash
    BY <1>0, <1>2, <1>b DEF Crash
  <1>3. CASE RecoverJobs
    BY <1>0, <1>3 DEF RecoverJobs, GateInv
  <1>4. CASE Abandon
    BY <1>0, <1>4 DEF Abandon, GateInv
  <1>5. CASE RefuseLate
    BY <1>0, <1>5 DEF RefuseLate, GateInv
  <1>6. CASE StartHandler
    BY <1>0, <1>6 DEF StartHandler, GateInv
  <1>7. CASE RetireInventory
    BY <1>0, <1>7 DEF RetireInventory, GateInv
  <1>8. ASSUME NEW now \in Walls, RecoverAtStart(now) PROVE GateInv' /\ FeedbackInv'
    <2>1. RecoverCommit(now) /\ gate = NoGate /\ owed = 0 /\ phase' = "setup"
      BY <1>8 DEF RecoverAtStart, GateInv
    <2>2. owed <= gate.left
      BY DEF GateInv
    <2> QED BY <2>1, <2>2, RecoverCovered DEF GateInv
  <1>9. ASSUME NEW now \in Walls, RecoverInLoop(now) PROVE GateInv' /\ FeedbackInv'
    <2>1. /\ RecoverCommit(now) /\ phase \in {"setup", "idle"} /\ phase' = phase
          /\ gate.token = cpu.token /\ gate.status = cpu.status /\ gate.deadline = cpu.next
          /\ owed <= gate.left /\ cpu.status = "pending"
      BY <1>9 DEF RecoverInLoop, GateInv
    <2>2. gate # NoGate
      BY <2>1, NoGateFields
    <2> QED BY <2>1, <2>2, RecoverCovered DEF GateInv
  <1>10. ASSUME NEW now \in Walls, SeedRevisits(now) PROVE GateInv' /\ FeedbackInv'
    <2>1. gate' = gate
      BY <1>10, RefreshIdle DEF SeedRevisits
    <2> QED BY <1>0, <1>10, <2>1 DEF SeedRevisits, GateInv
  <1>11. ASSUME NEW now \in Walls, Wake(now) PROVE GateInv' /\ FeedbackInv'
    <2>1. gate' = gate /\ gate.left = 0
      BY <1>11, RefreshIdle DEF Wake, MayWake
    <2>2. owed = 0
      BY <1>a, <2>1 DEF GateInv
    <2> QED BY <1>0, <1>11, <2>1, <2>2 DEF Wake, GateInv
  <1>12. ASSUME NEW now \in Walls, ReserveScanChunk(now) PROVE GateInv' /\ FeedbackInv'
    BY <1>0, <1>12 DEF ReserveScanChunk, GateInv
  <1>13. ASSUME NEW now \in Walls, ClaimTurn(now) PROVE GateInv' /\ FeedbackInv'
    BY <1>0, <1>13 DEF ClaimTurn, GateInv
  <1>14. ASSUME NEW now \in Walls, DeferWindow(now) PROVE GateInv' /\ FeedbackInv'
    BY <1>0, <1>14 DEF DeferWindow, GateInv
  <1>15. ASSUME NEW now \in Walls, RefuseWindow(now) PROVE GateInv' /\ FeedbackInv'
    BY <1>0, <1>15, <1>b DEF RefuseWindow
  <1>16. ASSUME NEW now \in Walls, BeginWindow(now) PROVE GateInv' /\ FeedbackInv'
    BY <1>16, BeginCovered
  <1>17. ASSUME NEW now \in Walls, SaveProgress(now) PROVE GateInv' /\ FeedbackInv'
    BY <1>0, <1>17 DEF SaveProgress, GateInv
  <1>18. ASSUME NEW now \in Walls, Finalize(now) PROVE GateInv' /\ FeedbackInv'
    BY <1>0, <1>18 DEF Finalize, GateInv
  <1>19. ASSUME NEW now \in Walls, SettleWindow(now) PROVE GateInv' /\ FeedbackInv'
    BY <1>19, SettleCovered
  <1>20. ASSUME NEW now \in Walls, RefuseSettlement(now) PROVE GateInv' /\ FeedbackInv'
    BY <1>0, <1>20, <1>b DEF RefuseSettlement
  <1>21. CASE UNCHANGED vars
    BY <1>0, <1>21 DEF vars, GateInv
  <1> QED
    BY <1>1, <1>2, <1>3, <1>4, <1>5, <1>6, <1>7, <1>8, <1>9, <1>10, <1>11, <1>12, <1>13,
       <1>14, <1>15, <1>16, <1>17, <1>18, <1>19, <1>20, <1>21, Zenon DEF Next

-----------------------------------------------------------------------------
(***************************************************************************)
(* Theorems.                                                                *)
(***************************************************************************)

LEMMA FairStep ==
  ASSUME FairInv, [Next]_vars
  PROVE  FairInv'
  <1>1. RotationInv'
    BY RotationStep DEF FairInv
  <1>2. TypeOK'
    BY <1>1, TypeStep DEF FairInv
  <1>3. ReceiptInv' /\ TurnInv' /\ LeaseInv'
    BY ReceiptStep, TurnStep, LeaseStep DEF FairInv
  <1>4. GateInv' /\ FeedbackInv'
    BY <1>2, WindowStep DEF FairInv
  <1> QED BY <1>1, <1>2, <1>3, <1>4 DEF FairInv

\* The inductive invariant of a turn: the rotation, the receipts, the lease, the
\* saved window and the process's gate agree after every step of the loop, every
\* crash and every change of the clock.
THEOREM FairInvariant == Spec => []FairInv
  <1>1. Init => FairInv
    BY FairInit
  <1>2. FairInv /\ [Next]_vars => FairInv'
    BY FairStep
  <1> QED BY <1>1, <1>2, PTL DEF Spec

\* BeginCPUWindow before the handler, and validCPUFeedback for every later
\* reader: work is accounted before it starts, a waiting loop holds no lease
\* and the saved row stays readable.
THEOREM WorkAlwaysAccounted == Spec => []WorkAccounted
  <1>1. FairInv => WorkAccounted
    <2> SUFFICES ASSUME FairInv PROVE WorkAccounted
      OBVIOUS
    <2>1. TypeOK /\ FeedbackValid
      BY DEF FairInv, FeedbackInv
    <2>2. IdleHoldsNoLease
      BY DEF FairInv, LeaseInv, IdleHoldsNoLease
    <2>3. phase \in {"begun", "running", "saved", "settling"} =>
            /\ cpu.status = "pending"
            /\ cpu.token = dispatch.last /\ cpu.token = cursor.dispatch
            /\ cpu.root = cursor.root /\ cpu.root = turn.root /\ cpu.kind = turn.kind
            /\ phase = "running" => jobs[turn.root].status = "running"
      BY DEF FairInv, TurnInv, LeaseInv, Holding, Working
    <2> QED BY <2>1, <2>2, <2>3 DEF WorkAccounted
  <1> QED BY <1>1, FairInvariant, PTL

\* selectFairInventoryTurn: whatever jobs come and go and whenever the process
\* dies, a root that could have had every turn since its last one is passed over
\* less often than there are roots.
THEOREM RootsAlwaysServed == Spec => []EligibleRootsServed
  <1>1. FairInv => EligibleRootsServed
    <2> SUFFICES ASSUME FairInv, NEW r \in Roots PROVE passed[r] < RootCount
      BY DEF EligibleRootsServed
    <2>1. /\ passed[r] \in Nat /\ cursor.root \in 0 .. RootCount
          /\ passed[r] + Ahead(r) <= RootCount
      BY DEF FairInv, RotationInv
    <2>2. Ahead(r) \in Nat /\ Ahead(r) > 0
      BY <2>1, RootsAssumption DEF Ahead, Roots
    <2> QED BY <2>1, <2>2, RootsAssumption
  <1> QED BY <1>1, FairInvariant, PTL

\* ReserveScanChunk: no receipt beyond the limit of its wall-clock day and none
\* within an interval of the one before.
THEOREM ReceiptsAlwaysPaced == Spec => ReceiptsPaced
  <1>1. FairInv /\ [Next]_vars => [ReceiptPaced]_vars
    <2> SUFFICES ASSUME FairInv, [Next]_vars PROVE ReceiptPaced
      OBVIOUS
    <2>1. CASE \E now \in Walls : ReserveScanChunk(now)
      <3>1. PICK now \in Walls : ReserveScanChunk(now)
        BY <2>1
      <3>2. /\ charged[DayOf(now)] < limit
            /\ charged' = [charged EXCEPT ![DayOf(now)] = charged[DayOf(now)] + 1]
            /\ dispatch.last # 0 => now >= dispatch.last + Interval
            /\ dispatch'.last = now
        BY <3>1, ReserveCounted DEF FairInv
      <3>3. \A d \in Days : charged'[d] # charged[d] => d = DayOf(now)
        BY <3>2 DEF FairInv, TypeOK
      <3> QED BY <3>2, <3>3 DEF ReceiptPaced
    <2>2. CASE \A now \in Walls : ~ReserveScanChunk(now)
      BY <2>2, ReceiptsKept DEF ReceiptPaced
    <2> QED BY <2>1, <2>2
  <1> QED BY <1>1, FairInvariant, PTL DEF Spec, ReceiptsPaced

\* A step that changes the token of the saved window is a begin.
LEMMA TokenChanged ==
  ASSUME FairInv, [Next]_vars, \A now \in Walls : ~BeginWindow(now)
  PROVE  cpu'.token = cpu.token
  <1>1. CASE \E now \in Walls : RecoverCommit(now)
    <2>1. PICK now \in Walls : RecoverCommit(now)
      BY <1>1
    <2>2. cpu' = Recovered(now) \/ cpu' = cpu
      BY <2>1 DEF RecoverCommit
    <2>3. cpu \in CPURows /\ now \in Nat
      BY RowTyped, WallType DEF FairInv
    <2> QED BY <2>2, <2>3, RecoveredFields
  <1>2. CASE \E now \in Walls : SettleWindow(now)
    <2>1. PICK now \in Walls : SettleWindow(now)
      BY <1>2
    <2>2. \E c, e, w \in Nat, status \in {"observed", "completed_unknown"} :
            cpu' = Settled(now, status, c, e, w)
      BY <2>1, SettledWindow
    <2>3. cpu \in CPURows /\ now \in Nat
      BY RowTyped, WallType DEF FairInv
    <2> QED BY <2>2, <2>3, SettledFields
  <1>3. CASE \A now \in Walls : ~RecoverCommit(now) /\ ~SettleWindow(now)
    <2>1. cpu' = cpu
      BY <1>3, Zenon
      DEF Next, vars, saved, process, observed, Pass, Crash, Gone, RecoverJobs, Abandon,
          RefuseLate, StartHandler, RetireInventory, RecoverAtStart, RecoverInLoop,
          SeedRevisits, Wake, ReserveScanChunk, ClaimTurn, DeferWindow, RefuseWindow,
          SaveProgress, Finalize, RefuseSettlement
    <2> QED BY <2>1
  <1> QED BY <1>1, <1>2, <1>3

\* BeginCPUWindow: a window begins only after the elapsed time the process owes
\* has gone by and the wall clock shows the saved deadline.
THEOREM BackoffAlwaysServed == Spec => BackoffServed
  <1>1. FairInv /\ [Next]_vars => [WindowWaited]_vars
    <2> SUFFICES ASSUME FairInv, [Next]_vars PROVE WindowWaited
      OBVIOUS
    <2>1. CASE \E now \in Walls : BeginWindow(now)
      <3>1. PICK now \in Walls : BeginWindow(now)
        BY <2>1
      <3>2. owed = 0
        BY <3>1 DEF BeginWindow, FairInv, GateInv
      <3>3. /\ now \in Nat /\ cpu.high \in Nat /\ cpu.next \in Nat
            /\ ~(now < cpu.high) /\ ~(now < cpu.next)
        BY <3>1, WallType, RowTyped DEF FairInv, BeginWindow, BeginDeferral, BeginConflict
      <3>4. cpu'.recorded = now
        BY <3>1 DEF BeginWindow, Begun
      <3> QED BY <3>2, <3>3, <3>4 DEF WindowWaited, Latest
    <2>2. CASE \A now \in Walls : ~BeginWindow(now)
      BY <2>2, TokenChanged DEF WindowWaited
    <2> QED BY <2>1, <2>2
  <1> QED BY <1>1, FairInvariant, PTL DEF Spec, BackoffServed

=============================================================================
