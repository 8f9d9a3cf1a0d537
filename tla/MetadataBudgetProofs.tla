------------------------ MODULE MetadataBudgetProofs ------------------------
(***************************************************************************)
(* Proofs about MetadataBudget for every set of clock readings, day        *)
(* length, allowance, limit and bound.                                     *)
(***************************************************************************)
EXTENDS MetadataBudget, TLAPS

-----------------------------------------------------------------------------
(***************************************************************************)
(* The calendar.                                                           *)
(***************************************************************************)

\* metadataTime: division places a reading at or after the start of its day
\* and before the start of the next.
LEMMA DayBounds ==
  ASSUME NEW t \in Nat
  PROVE  /\ DayOf(t) \in Nat /\ Midnight(t) \in Nat
         /\ DayOf(t) * DayLen <= t /\ t < Midnight(t)
<1>1. DayLen \in Nat /\ DayLen > 0
  BY LengthsAssumption
<1>2. t = DayLen * (t \div DayLen) + (t % DayLen) /\ t % DayLen \in 0..(DayLen - 1) /\ t \div DayLen \in Nat
  BY <1>1, SMT
<1> QED BY <1>1, <1>2, SMT DEF DayOf, Midnight

\* A later reading never falls on an earlier day.
LEMMA DayMonotone ==
  ASSUME NEW t \in Nat, NEW u \in Nat, t <= u
  PROVE  DayOf(t) <= DayOf(u)
<1>1. DayLen \in Nat /\ DayLen > 0
  BY LengthsAssumption
<1>2. DayOf(t) \in Nat /\ DayOf(u) \in Nat /\ DayOf(t) * DayLen <= t
      /\ u < (DayOf(u) + 1) * DayLen
  BY DayBounds DEF Midnight
<1>3. DayOf(t) * DayLen < (DayOf(u) + 1) * DayLen
  <2>1. DayOf(t) * DayLen \in Nat /\ (DayOf(u) + 1) * DayLen \in Nat
    BY <1>1, <1>2, SMT
  <2> QED BY <1>2, <2>1, SMT
<1>4. ASSUME NEW a \in Nat, NEW b \in Nat, a * DayLen < (b + 1) * DayLen PROVE a <= b
  BY <1>1, <1>4, SMT
<1> QED BY <1>2, <1>3, <1>4

\* A reading before the midnight of an earlier one falls on the same day.
LEMMA SameDay ==
  ASSUME NEW t \in Nat, NEW u \in Nat, t <= u, u < Midnight(t)
  PROVE  DayOf(u) = DayOf(t)
<1>1. DayLen \in Nat /\ DayLen > 0
  BY LengthsAssumption
<1>2. /\ DayOf(t) \in Nat /\ DayOf(u) \in Nat
      /\ DayOf(u) * DayLen <= u /\ DayOf(t) <= DayOf(u)
  BY DayBounds, DayMonotone
<1>3. DayOf(u) * DayLen < (DayOf(t) + 1) * DayLen
  <2>1. DayOf(u) * DayLen \in Nat /\ (DayOf(t) + 1) * DayLen \in Nat
    BY <1>1, <1>2, SMT
  <2> QED BY <1>2, <2>1, SMT DEF Midnight
<1>4. ASSUME NEW a \in Nat, NEW b \in Nat, a * DayLen < (b + 1) * DayLen PROVE a <= b
  BY <1>1, <1>4, SMT
<1> QED BY <1>2, <1>3, <1>4

-----------------------------------------------------------------------------
(***************************************************************************)
(* Types.                                                                  *)
(***************************************************************************)

\* The empty values have the types of what they stand for.
LEMMA EmptyTypes ==
  NoCharges \in Charges /\ NoRecord \in Records /\ NoWindow \in Windows /\ NoClocks \in Clocks
  BY DEF NoCharges, Charges, NoRecord, Records, NoWindow, Windows, NoClocks, Clocks

\* One admitted attempt leaves a window a window.
LEMMA CountedWindow ==
  ASSUME NEW w \in Windows, NEW wall \in Nat
  PROVE  Counted(w, wall) \in Windows
<1>1. w.observed + 1 \in Nat
  BY DEF Windows
<1>2. ASSUME NEW n \in Nat PROVE [w EXCEPT !.observed = n, !.high = wall] \in Windows
  BY DEF Windows
<1> QED BY <1>1, <1>2 DEF Counted

\* Settlement leaves a record a record.
LEMMA SettledRecord ==
  ASSUME NEW r \in Records, NEW n \in Nat
  PROVE  [r EXCEPT !.status = "settled", !.observed = n] \in Records
  BY DEF Records

\* What a reservation needs of its inputs to keep the ledger's types.
LEMMA ReserveCommitType ==
  ASSUME TypeOK, NEW s \in Scopes, NEW now \in Times, ReserveCommit(s, now)
  PROVE  /\ started' \in Nat /\ day' \in Nat /\ highWater' \in Nat
         /\ daily' \in Charges /\ total' \in Charges /\ issued' \in Nat
         /\ rec' \in [Scopes -> Records]
<1>1. now \in Nat /\ DayOf(now) \in Nat /\ Midnight(now) \in Nat
  BY TimesAssumption, DayBounds
<1>2. Allowance(s) \in Nat
  BY AllowanceAssumption DEF Allowance
<1>3. Minimum(Midnight(now), lease) \in Nat
  BY <1>1 DEF Minimum, TypeOK
<1>4. daily' \in Charges /\ total' \in Charges
  BY <1>2 DEF TypeOK, ReserveCommit, NoCharges, Charges
<1>5. rec' \in [Scopes -> Records]
  BY <1>1, <1>2, <1>3 DEF TypeOK, ReserveCommit, Records
<1> QED BY <1>1, <1>4, <1>5 DEF TypeOK, ReserveCommit

LEMMA RecoverCommitType ==
  ASSUME TypeOK, NEW now \in Nat, RecoverCommit(now)
  PROVE  /\ started' \in Nat /\ day' \in Nat /\ highWater' \in Nat
         /\ daily' \in Charges /\ total' \in Charges /\ issued' \in Nat
         /\ rec' \in [Scopes -> Records]
<1>1. OutstandingCharge("startup") \in Nat /\ OutstandingCharge("next") \in Nat
  BY DEF OutstandingCharge, TypeOK, Scopes, Records
<1>2. Maximum(highWater, now) \in Nat
  BY DEF Maximum, TypeOK
<1>3. daily' \in Charges /\ total' \in Charges
  BY <1>1 DEF TypeOK, RecoverCommit, Charges, ledger
<1>4. \A s \in Scopes : [rec[s] EXCEPT !.status = "unknown"] \in Records
  BY DEF TypeOK, Records
<1>5. rec' \in [Scopes -> Records]
  BY <1>4 DEF TypeOK, RecoverCommit, ledger
<1> QED BY <1>2, <1>3, <1>5 DEF TypeOK, RecoverCommit, ledger

LEMMA NewWindowType ==
  ASSUME TypeOK, NEW s \in Scopes, NEW now \in Nat, NEW wall \in Nat, NEW expires \in Nat
  PROVE  NewWindow(s, now, wall, expires) \in Windows
  BY LengthsAssumption DEF NewWindow, Minimum, TypeOK, Windows

LEMMA HaltType ==
  ASSUME TypeOK, Halt
  PROVE  TypeOK'
  BY EmptyTypes DEF TypeOK, Halt, ledger

LEMMA SettleTimeType ==
  ASSUME TypeOK, NEW now \in Nat
  PROVE  SettleTime(now) \in Nat /\ now <= SettleTime(now)
  BY DEF SettleTime, Maximum, TypeOK, Scopes, Windows

\* BeginSettle only changes where the process stands.
LEMMA BeginSettleType ==
  ASSUME TypeOK, NEW now \in Nat, NEW exit \in BOOLEAN, BeginSettle(now, exit)
  PROVE  TypeOK'
<1>1. SettleTime(now) \in Nat
  BY SettleTimeType
<1> QED BY <1>1 DEF TypeOK, BeginSettle, ledger, observed

\* Every step keeps the types.
LEMMA TypeStep ==
  ASSUME TypeOK, [Next]_vars
  PROVE  TypeOK'
<1> USE TimesAssumption, LengthsAssumption
<1>1. ASSUME NEW now \in Times, Start(now) PROVE TypeOK'
  <2>1. now \in Nat
    OBVIOUS
  <2> QED BY <1>1, <2>1, RecoverCommitType, LimitsAssumption DEF Start, TypeOK, observed
<1>2. ASSUME NEW now \in Times, Claim(now) PROVE TypeOK'
  BY <1>2, EmptyTypes DEF Claim, TypeOK, ledger
<1>3. ASSUME NEW now \in Times, HandlerDone(now) PROVE TypeOK'
  BY <1>3, BeginSettleType DEF HandlerDone
<1>4. ASSUME NEW now \in Times, HandlerPanicked(now) PROVE TypeOK'
  <2>1. SettleTime(now) \in Nat
    BY SettleTimeType
  <2> QED BY <1>4, <2>1, RecoverCommitType, EmptyTypes DEF HandlerPanicked, TypeOK, observed
<1>5. ASSUME NEW now \in Times, NEW wall \in Times, ReserveStartup(now, wall) PROVE TypeOK'
  <2>1. now \in Nat /\ wall \in Nat /\ Midnight(now) \in Nat
    BY DayBounds
  <2>2. NewWindow("startup", now, wall, Midnight(now)) \in Windows
    BY <2>1, NewWindowType DEF Scopes
  <2>3. ReserveCommit("startup", now) /\ "startup" \in Scopes
    BY <1>5 DEF ReserveStartup, Scopes
  <2>4. [wall |-> now, elapsed |-> elapsed] \in Clocks
    BY <2>1 DEF Clocks, TypeOK
  <2> QED BY <1>5, <2>2, <2>3, <2>4, ReserveCommitType DEF ReserveStartup, TypeOK
<1>6. ASSUME NEW now \in Times, NEW wall \in Times, ReserveNext(now, wall) PROVE TypeOK'
  <2>1. now \in Nat /\ wall \in Nat /\ Midnight(now) \in Nat
    BY DayBounds
  <2>2. Minimum(Midnight(now), lease) \in Nat
    BY <2>1 DEF Minimum, TypeOK
  <2>3. NewWindow("next", now, wall, Minimum(Midnight(now), lease)) \in Windows
    BY <2>1, <2>2, NewWindowType DEF Scopes
  <2>4. ReserveCommit("next", now) /\ "next" \in Scopes
    BY <1>6 DEF ReserveNext, Scopes
  <2>5. win' \in [Scopes -> Windows]
    BY <1>6, <2>1, <2>3 DEF ReserveNext, TypeOK, Windows, Scopes
  <2>6. anchor' \in Clocks
    BY <1>6, <2>1 DEF ReserveNext, TypeOK, Clocks
  <2> QED BY <1>6, <2>4, <2>5, <2>6, ReserveCommitType DEF ReserveNext, TypeOK
<1>7. ASSUME NEW now \in Times, NEW wall \in Times, NEW s \in Scopes,
             ReserveRefused(s, now, wall) PROVE TypeOK'
  <2>1. (~ReserveDeferred(s, now)) \in BOOLEAN
    OBVIOUS
  <2> QED BY <1>7, <2>1, BeginSettleType DEF ReserveRefused
<1>8. ASSUME NEW s \in Scopes, NEW wall \in Times, Permit(s, wall) PROVE TypeOK'
  <2>1. DayOf(wall) \in Days /\ wall \in Nat
    BY DEF Days
  <2>2. [wall |-> wall, elapsed |-> elapsed] \in Clocks
    BY <2>1 DEF Clocks, TypeOK
  <2>3. win' \in [Scopes -> Windows]
    <3>1. Counted(win[s], wall) \in Windows
      BY <2>1, CountedWindow DEF TypeOK
    <3> QED BY <1>8, <3>1 DEF Permit, TypeOK
  <2>4. admitted' \in [Days -> Nat]
    BY <1>8, <2>1 DEF Permit, TypeOK
  <2> QED BY <1>8, <2>2, <2>3, <2>4 DEF Permit, TypeOK, ledger
<1>9. ASSUME NEW s \in Scopes, NEW wall \in Times, PermitRefused(s, wall) PROVE TypeOK'
  <2>1. win' \in [Scopes -> Windows]
    BY <1>9 DEF PermitRefused, TypeOK, Windows, Maximum
  <2> QED BY <1>9, <2>1 DEF PermitRefused, TypeOK, ledger, observed
<1>10. ASSUME NEW s \in Scopes, Settle(s) PROVE TypeOK'
  <2>1. daily' \in Charges /\ total' \in Charges
    BY <1>10 DEF Settle, SettleCommit, TypeOK, Charges, Windows
  <2>2. rec' \in [Scopes -> Records]
    <3>1. [rec[s] EXCEPT !.status = "settled", !.observed = win[s].observed] \in Records
      BY SettledRecord DEF TypeOK, Windows
    <3> QED BY <1>10, <3>1 DEF Settle, SettleCommit, TypeOK
  <2>3. highWater' \in Nat
    BY <1>10 DEF Settle, SettleCommit, TypeOK, Maximum
  <2>4. win' \in [Scopes -> Windows]
    BY <1>10, EmptyTypes DEF Settle, TypeOK
  <2> QED BY <1>10, <2>1, <2>2, <2>3, <2>4 DEF Settle, SettleCommit, TypeOK, observed
<1>11. CASE Construct
  <2>1. Inherit(win["next"], win["startup"]) \in Windows
    BY DEF Inherit, TypeOK, Windows, Maximum, Minimum, Scopes
  <2> QED BY <1>11, <2>1 DEF Construct, TypeOK, ledger, observed
<1>12. CASE ElapsedTick
  BY <1>12 DEF ElapsedTick, TypeOK, ledger, observed
<1>13. CASE Settled
  BY <1>13, HaltType DEF Settled, TypeOK, ledger, observed
<1>14. CASE Crash
  BY <1>14, HaltType DEF Crash
<1>15. CASE UNCHANGED vars
  BY <1>15 DEF vars, ledger, process, observed, TypeOK
<1> QED
  BY <1>1, <1>2, <1>3, <1>4, <1>5, <1>6, <1>7, <1>8, <1>9, <1>10, <1>11, <1>12, <1>13,
     <1>14, <1>15 DEF Next

LEMMA TypeInit == Init => TypeOK
<1> SUFFICES ASSUME Init PROVE TypeOK
  OBVIOUS
<1>1. rec \in [Scopes -> Records] /\ win \in [Scopes -> Windows] /\ admitted \in [Days -> Nat]
  BY EmptyTypes DEF Init
<1>2. daily \in Charges /\ total \in Charges /\ attempt \in Clocks /\ anchor \in Clocks
  BY EmptyTypes DEF Init
<1>3. built \in BOOLEAN /\ exiting \in BOOLEAN /\ phase \in {"down"}
  BY DEF Init
<1>4. /\ started \in Nat /\ day \in Nat /\ highWater \in Nat /\ limit \in Nat /\ lease \in Nat
      /\ elapsed \in Nat /\ settleAt \in Nat /\ issued \in Nat
  BY DEF Init
<1> QED BY <1>1, <1>2, <1>3, <1>4 DEF TypeOK

\* Type correctness of the ledger, of the worker's windows and of the
\* observation variables, in every reachable state.
THEOREM TypeCorrect == Spec => []TypeOK
<1> QED BY TypeInit, TypeStep, PTL DEF Spec

-----------------------------------------------------------------------------
(***************************************************************************)
(* The ledger.                                                             *)
(***************************************************************************)

\* The fields a proof about one retained record works with.
LEMMA RecordTypes ==
  ASSUME TypeOK, NEW s \in Scopes
  PROVE  /\ rec[s].day \in Nat /\ rec[s].started \in Nat /\ rec[s].expires \in Nat
         /\ rec[s].allowance \in Nat /\ rec[s].observed \in Nat /\ rec[s].token \in Nat
         /\ win[s].token \in Nat /\ win[s].high \in Nat /\ win[s].observed \in Nat
  BY DEF TypeOK, Records, Windows

LEMMA ChargeTypes ==
  ASSUME TypeOK
  PROVE  /\ daily.reserved \in Nat /\ daily.observed \in Nat /\ daily.unknown \in Nat
         /\ total.reserved \in Nat /\ total.observed \in Nat /\ total.unknown \in Nat
  BY DEF TypeOK, Charges

\* The contributions of a scope are numbers; a reserved record contributes to
\* no observed or unknown charge, and a missing record to none at all.
LEMMA PartTypes ==
  ASSUME TypeOK, NEW s \in Scopes
  PROVE  /\ OutstandingCharge(s) \in Nat /\ DayReserved(s) \in Nat /\ DayObserved(s) \in Nat
         /\ DayUnknown(s) \in Nat /\ PastReserved(s) \in Nat /\ PastObserved(s) \in Nat
         /\ PastUnknown(s) \in Nat
  BY RecordTypes DEF OutstandingCharge, DayReserved, DayObserved, DayUnknown,
     PastReserved, PastObserved, PastUnknown, Part

\* A reservation that ReserveMetadata grants: time has not gone back, its scope
\* is free, and on a new day nothing of the old day is open.
LEMMA ReserveGranted ==
  ASSUME TypeOK, LedgerInv, NEW s \in Scopes, NEW now \in Times, ~ReserveDeferred(s, now)
  PROVE  /\ now \in Nat /\ now > 0 /\ DayOf(now) \in Nat /\ Allowance(s) \in Nat \ {0}
         /\ ~Outstanding(s)
         /\ started # 0 => highWater <= now /\ day <= DayOf(now)
         /\ started # 0 /\ DayOf(now) > day => \A r \in Scopes : ~Outstanding(r)
<1>1. now \in Nat /\ now > 0 /\ DayOf(now) \in Nat
  BY TimesAssumption, DayBounds
<1>2. ~Outstanding(s) /\ (\A r \in Scopes : Outstanding(r) => rec[r].day = DayOf(now))
  BY DEF ReserveDeferred
<1>3. started # 0 => highWater <= now
  BY <1>1 DEF ReserveDeferred, TypeOK
<1>4. started # 0 => day <= DayOf(now)
  <2> SUFFICES ASSUME started # 0 PROVE day <= DayOf(now)
    OBVIOUS
  <2>1. day <= DayOf(highWater) /\ highWater \in Nat /\ day \in Nat
    BY DEF LedgerInv, SummaryValid, TypeOK
  <2>2. DayOf(highWater) <= DayOf(now) /\ DayOf(highWater) \in Nat
    BY <1>1, <1>3, <2>1, DayMonotone, DayBounds
  <2> QED BY <1>1, <2>1, <2>2
<1>5. ASSUME started # 0, DayOf(now) > day, NEW r \in Scopes PROVE ~Outstanding(r)
  <2>1. Outstanding(r) => rec[r].day = day
    BY <1>5 DEF LedgerInv, RecordValid, Outstanding
  <2> QED BY <1>1, <1>2, <1>5, <2>1 DEF TypeOK
<1>6. Allowance(s) \in Nat \ {0}
  BY AllowanceAssumption DEF Allowance
<1> QED BY <1>1, <1>2, <1>3, <1>4, <1>5, <1>6

\* The record a granted reservation writes, and the one it leaves alone.
LEMMA ReserveRecord ==
  ASSUME TypeOK, NEW s \in Scopes, NEW now \in Times, ReserveCommit(s, now)
  PROVE  /\ rec'[s].status = "reserved" /\ rec'[s].token = issued + 1
         /\ rec'[s].started = now /\ rec'[s].allowance = Allowance(s) /\ rec'[s].observed = 0
         /\ rec'[s].day = day'
         /\ rec'[s].expires = IF s = "next" THEN Minimum(Midnight(now), lease) ELSE Midnight(now)
         /\ \A r \in Scopes : r # s => rec'[r] = rec[r]
  BY DEF ReserveCommit, TypeOK

LEMMA ReserveKeepsLedger ==
  ASSUME TypeOK, TypeOK', LedgerInv, NEW s \in Scopes, NEW now \in Times,
         ~ReserveDeferred(s, now), ~ReserveStale(s, now), ReserveCommit(s, now)
  PROVE  LedgerInv'
<1>1. /\ now \in Nat /\ now > 0 /\ DayOf(now) \in Nat /\ Allowance(s) \in Nat \ {0}
      /\ ~Outstanding(s)
      /\ started # 0 => highWater <= now /\ day <= DayOf(now)
      /\ started # 0 /\ DayOf(now) > day => \A r \in Scopes : ~Outstanding(r)
  BY ReserveGranted
<1>2. /\ rec'[s].status = "reserved" /\ rec'[s].started = now
      /\ rec'[s].allowance = Allowance(s) /\ rec'[s].observed = 0 /\ rec'[s].day = day'
      /\ rec'[s].expires = IF s = "next" THEN Minimum(Midnight(now), lease) ELSE Midnight(now)
      /\ \A r \in Scopes : r # s => rec'[r] = rec[r]
  BY ReserveRecord
<1> DEFINE o == IF s = "startup" THEN "next" ELSE "startup"
<1>3. o \in Scopes /\ o # s /\ Scopes = {s, o}
  BY DEF Scopes
<1>4. rec'[o] = rec[o]
  BY <1>2, <1>3
<1>5. /\ started' # 0 /\ highWater' = now /\ day' = DayOf(now)
      /\ started' = IF started = 0 THEN now ELSE started
  BY <1>1 DEF ReserveCommit, TypeOK
<1>6. started' <= highWater' /\ DayOf(started') <= day' /\ day' <= DayOf(highWater')
  <2>1. CASE started = 0
    BY <1>1, <1>5, <2>1
  <2>2. CASE started # 0
    <3>1. started <= highWater /\ DayOf(started) <= day /\ started \in Nat /\ day \in Nat
          /\ highWater \in Nat /\ DayOf(started) \in Nat
      BY <2>2, DayBounds DEF LedgerInv, SummaryValid, TypeOK
    <3> QED BY <1>1, <1>5, <2>2, <3>1
  <2> QED BY <2>1, <2>2
<1>7. RecordValid(s)'
  <2>1. now < Midnight(now) /\ Midnight(now) \in Nat
    BY <1>1, DayBounds
  <2>2. s = "next" => now < lease /\ lease \in Nat
    BY <1>1 DEF ReserveStale, TypeOK
  <2>3. now < rec'[s].expires /\ rec'[s].expires <= Midnight(now)
    BY <1>1, <1>2, <2>1, <2>2 DEF Minimum
  <2>4. ReservationValid(s)'
    BY <1>1, <1>2, <1>5, <2>3 DEF ReservationValid
  <2>5. started' <= now
    BY <1>5, <1>6
  <2> QED BY <1>1, <1>2, <1>5, <2>4, <2>5 DEF RecordValid, Outstanding
<1>8. rec[o].status # "none" => RecordValid(o)'
  <2> SUFFICES ASSUME rec[o].status # "none" PROVE RecordValid(o)'
    OBVIOUS
  <2>1. started # 0 /\ RecordValid(o)
    BY <1>3 DEF LedgerInv
  <2>2. rec[o].started \in Nat /\ rec[o].day \in Nat
    BY <1>3, RecordTypes
  <2>3. ReservationValid(o)'
    BY <1>4, <2>1 DEF RecordValid, ReservationValid
  <2>4. Outstanding(o)' => rec'[o].day = day'
    BY <1>1, <1>3, <1>4, <1>5, <2>1 DEF RecordValid, Outstanding, TypeOK
  <2>5. rec'[o].started <= highWater' /\ started' <= rec'[o].started /\ rec'[o].day <= day'
    BY <1>1, <1>4, <1>5, <2>1, <2>2 DEF RecordValid, TypeOK
  <2> QED BY <1>4, <2>1, <2>3, <2>4, <2>5 DEF RecordValid
<1>9. SummaryValid' /\ RetainedValid' /\ PastInv'
  <2> DEFINE A == Allowance(s)
  <2>1. /\ total'.reserved = total.reserved + A
        /\ total'.observed = total.observed /\ total'.unknown = total.unknown
    BY DEF ReserveCommit, TypeOK, Charges
  <2>2. /\ OutstandingCharge(s)' = A /\ DayReserved(s)' = A /\ DayObserved(s)' = 0
        /\ DayUnknown(s)' = 0 /\ PastReserved(s)' = 0 /\ PastObserved(s)' = 0
        /\ PastUnknown(s)' = 0
    BY <1>2 DEF OutstandingCharge, Outstanding, DayReserved, DayObserved, DayUnknown,
       PastReserved, PastObserved, PastUnknown, Part, OfDay, OfPast
  <2>3. /\ OutstandingCharge(s) = 0
        /\ OutstandingCharge(o)' = OutstandingCharge(o)
    BY <1>1, <1>4 DEF OutstandingCharge, Outstanding
  <2>4. CASE started = 0
    <3>1. daily'.reserved = A /\ daily'.observed = 0 /\ daily'.unknown = 0
      BY <1>1, <2>4 DEF ReserveCommit, NoCharges
    <3>2. total.reserved = 0 /\ total.observed = 0 /\ total.unknown = 0 /\ rec[o].status = "none"
      BY <1>3, <2>4 DEF LedgerInv, NoCharges
    <3>3. /\ OutstandingCharge(o)' = 0 /\ DayReserved(o)' = 0 /\ DayObserved(o)' = 0
          /\ DayUnknown(o)' = 0 /\ PastReserved(o)' = 0 /\ PastObserved(o)' = 0
          /\ PastUnknown(o)' = 0
      BY <1>4, <3>2 DEF OutstandingCharge, Outstanding, DayReserved, DayObserved, DayUnknown,
         PastReserved, PastObserved, PastUnknown, Part, OfDay, OfPast
    <3>4. CASE s = "startup"
      BY <1>1, <1>6, <2>1, <2>2, <3>1, <3>2, <3>3, <3>4
      DEF SummaryValid, RetainedValid, PastInv, OutstandingTotal
    <3>5. CASE s = "next"
      BY <1>1, <1>6, <2>1, <2>2, <3>1, <3>2, <3>3, <3>5
      DEF SummaryValid, RetainedValid, PastInv, OutstandingTotal
    <3> QED BY <3>4, <3>5 DEF Scopes
  <2>5. CASE started # 0 /\ DayOf(now) > day
    <3>1. daily'.reserved = A /\ daily'.observed = 0 /\ daily'.unknown = 0
      BY <1>1, <2>5 DEF ReserveCommit, NoCharges
    <3>2. rec[o].status # "none" => rec[o].day # day'
      BY <1>1, <1>3, <1>5, <2>5, RecordTypes DEF LedgerInv, RecordValid, TypeOK
    <3>3. /\ OutstandingCharge(o) = 0
          /\ DayReserved(o)' = 0 /\ DayObserved(o)' = 0 /\ DayUnknown(o)' = 0
          /\ PastReserved(o)' = DayReserved(o) + PastReserved(o)
          /\ PastObserved(o)' = DayObserved(o) + PastObserved(o)
          /\ PastUnknown(o)' = DayUnknown(o) + PastUnknown(o)
      BY <1>1, <1>3, <1>4, <2>5, <3>2, RecordTypes DEF OutstandingCharge, Outstanding,
         DayReserved, DayObserved, DayUnknown, PastReserved, PastObserved, PastUnknown,
         Part, OfDay, OfPast
    <3>4. SummaryValid /\ RetainedValid /\ PastInv
      BY <2>5 DEF LedgerInv
    <3>5. CASE s = "startup"
      BY <1>1, <1>3, <1>6, <2>1, <2>2, <2>3, <3>1, <3>3, <3>4, <3>5, ChargeTypes, PartTypes
      DEF SummaryValid, RetainedValid, PastInv, OutstandingTotal
    <3>6. CASE s = "next"
      BY <1>1, <1>3, <1>6, <2>1, <2>2, <2>3, <3>1, <3>3, <3>4, <3>6, ChargeTypes, PartTypes
      DEF SummaryValid, RetainedValid, PastInv, OutstandingTotal
    <3> QED BY <3>5, <3>6 DEF Scopes
  <2>6. CASE started # 0 /\ ~(DayOf(now) > day)
    <3>1. /\ daily'.reserved = daily.reserved + A
          /\ daily'.observed = daily.observed /\ daily'.unknown = daily.unknown
      BY <2>6 DEF ReserveCommit, TypeOK, Charges
    <3>2. day' = day
      BY <1>1, <1>5, <2>6 DEF TypeOK
    <3>3. /\ DayReserved(o)' = DayReserved(o) /\ DayObserved(o)' = DayObserved(o)
          /\ DayUnknown(o)' = DayUnknown(o) /\ PastReserved(o)' = PastReserved(o)
          /\ PastObserved(o)' = PastObserved(o) /\ PastUnknown(o)' = PastUnknown(o)
      BY <1>4, <3>2 DEF DayReserved, DayObserved, DayUnknown, PastReserved, PastObserved,
         PastUnknown, Part, OfDay, OfPast
    <3>4. SummaryValid /\ RetainedValid /\ PastInv
      BY <2>6 DEF LedgerInv
    <3>5. DayObserved(s) + DayUnknown(s) <= DayReserved(s)
      BY <1>3, <2>6, RecordTypes DEF LedgerInv, RecordValid, DayObserved, DayUnknown, DayReserved, Part, OfDay
    <3>6. CASE s = "startup"
      BY <1>1, <1>3, <1>6, <2>1, <2>2, <2>3, <3>1, <3>3, <3>4, <3>5, <3>6, ChargeTypes, PartTypes
      DEF SummaryValid, RetainedValid, PastInv, OutstandingTotal
    <3>7. CASE s = "next"
      BY <1>1, <1>3, <1>6, <2>1, <2>2, <2>3, <3>1, <3>3, <3>4, <3>5, <3>7, ChargeTypes, PartTypes
      DEF SummaryValid, RetainedValid, PastInv, OutstandingTotal
    <3> QED BY <3>6, <3>7 DEF Scopes
  <2> QED BY <2>4, <2>5, <2>6
<1>10. \A r \in Scopes : rec'[r].status # "none" => RecordValid(r)'
  <2> SUFFICES ASSUME NEW r \in Scopes, rec'[r].status # "none" PROVE RecordValid(r)'
    OBVIOUS
  <2>1. CASE r = s
    BY <1>7, <2>1
  <2>2. CASE r = o
    BY <1>4, <1>8, <2>2
  <2> QED BY <1>3, <2>1, <2>2
<1> QED BY <1>5, <1>9, <1>10 DEF LedgerInv

\* Settlement moves the open allowance of a record into observed and unused
\* charges of its day.
LEMMA SettleKeepsLedger ==
  ASSUME TypeOK, TypeOK', LedgerInv, NEW s \in Scopes, NEW now \in Nat,
         ~SettleStale(s), win[s].observed <= rec[s].allowance, SettleCommit(s, now)
  PROVE  LedgerInv'
<1> DEFINE o == IF s = "startup" THEN "next" ELSE "startup"
           n == win[s].observed
<1>1. o \in Scopes /\ o # s /\ Scopes = {s, o} /\ n \in Nat
  BY RecordTypes DEF Scopes
<1>2. /\ rec[s].status = "reserved" /\ rec'[s].status = "settled" /\ rec'[s].observed = n
      /\ rec'[s].day = rec[s].day /\ rec'[s].started = rec[s].started
      /\ rec'[s].expires = rec[s].expires /\ rec'[s].allowance = rec[s].allowance
      /\ rec'[o] = rec[o]
  BY <1>1 DEF SettleCommit, SettleStale, TypeOK, Records
<1>3. started # 0 /\ RecordValid(s) /\ rec[s].day = day
  BY <1>2 DEF LedgerInv, RecordValid, Outstanding
<1>4. /\ SummaryValid /\ RetainedValid /\ PastInv
      /\ (rec[o].status # "none" => RecordValid(o))
  BY <1>1, <1>3 DEF LedgerInv
<1>5. started' = started /\ day' = day /\ highWater <= highWater'
      /\ highWater \in Nat /\ highWater' \in Nat
  BY DEF SettleCommit, Maximum, TypeOK
<1>6. day' <= DayOf(highWater') /\ started' <= highWater'
  <2>1. DayOf(highWater) <= DayOf(highWater') /\ DayOf(highWater) \in Nat /\ DayOf(highWater') \in Nat
    BY <1>5, DayMonotone, DayBounds
  <2> QED BY <1>4, <1>5, <2>1 DEF SummaryValid, TypeOK
<1>7. RecordValid(s)'
  <2>1. ReservationValid(s)'
    BY <1>2, <1>3 DEF RecordValid, ReservationValid
  <2> QED BY <1>2, <1>3, <1>5, <2>1, RecordTypes DEF RecordValid, Outstanding
<1>8. rec'[o].status # "none" => RecordValid(o)'
  <2>1. ReservationValid(o) => ReservationValid(o)'
    BY <1>2 DEF ReservationValid
  <2> QED BY <1>1, <1>2, <1>4, <1>5, <2>1, RecordTypes DEF RecordValid, Outstanding
<1>9. SummaryValid' /\ RetainedValid' /\ PastInv'
  <2>1. /\ daily'.reserved = daily.reserved /\ daily'.observed = daily.observed + n
        /\ daily'.unknown = daily.unknown /\ total'.reserved = total.reserved
        /\ total'.observed = total.observed + n /\ total'.unknown = total.unknown
    BY DEF SettleCommit, TypeOK, Charges
  <2>2. /\ OutstandingCharge(s) = rec[s].allowance /\ OutstandingCharge(s)' = 0
        /\ DayObserved(s) = 0 /\ DayObserved(s)' = n
        /\ DayReserved(s)' = DayReserved(s) /\ DayUnknown(s)' = DayUnknown(s)
        /\ PastReserved(s)' = PastReserved(s) /\ PastObserved(s)' = PastObserved(s)
        /\ PastUnknown(s)' = PastUnknown(s)
    BY <1>2, <1>3, <1>5 DEF OutstandingCharge, Outstanding, DayReserved, DayObserved,
       DayUnknown, PastReserved, PastObserved, PastUnknown, Part, OfDay, OfPast
  <2>3. /\ OutstandingCharge(o)' = OutstandingCharge(o)
        /\ DayReserved(o)' = DayReserved(o) /\ DayObserved(o)' = DayObserved(o)
        /\ DayUnknown(o)' = DayUnknown(o) /\ PastReserved(o)' = PastReserved(o)
        /\ PastObserved(o)' = PastObserved(o) /\ PastUnknown(o)' = PastUnknown(o)
    BY <1>2, <1>5 DEF OutstandingCharge, Outstanding, DayReserved, DayObserved,
       DayUnknown, PastReserved, PastObserved, PastUnknown, Part, OfDay, OfPast
  <2>4. CASE s = "startup"
    BY <1>1, <1>4, <1>5, <1>6, <2>1, <2>2, <2>3, <2>4, ChargeTypes, PartTypes, RecordTypes
    DEF SummaryValid, RetainedValid, PastInv, OutstandingTotal
  <2>5. CASE s = "next"
    BY <1>1, <1>4, <1>5, <1>6, <2>1, <2>2, <2>3, <2>5, ChargeTypes, PartTypes, RecordTypes
    DEF SummaryValid, RetainedValid, PastInv, OutstandingTotal
  <2> QED BY <2>4, <2>5 DEF Scopes
<1>10. \A r \in Scopes : rec'[r].status # "none" => RecordValid(r)'
  BY <1>1, <1>7, <1>8
<1> QED BY <1>3, <1>5, <1>9, <1>10 DEF LedgerInv

\* Recovery moves every open allowance into the unknown charges of its day.
LEMMA RecoverKeepsLedger ==
  ASSUME TypeOK, TypeOK', LedgerInv, NEW now \in Nat, RecoverCommit(now)
  PROVE  LedgerInv' /\ \A s \in Scopes : ~Outstanding(s)'
<1>1. CASE ~\E s \in Scopes : Outstanding(s)
  <2>1. UNCHANGED ledger
    BY <1>1 DEF RecoverCommit
  <2>2. started' = started /\ day' = day /\ highWater' = highWater /\ daily' = daily
        /\ total' = total /\ rec' = rec
    BY <2>1 DEF ledger
  <2> QED BY <1>1, <2>2 DEF LedgerInv, SummaryValid, RetainedValid, PastInv, RecordValid,
       ReservationValid, Outstanding, OutstandingTotal, OutstandingCharge, DayReserved,
       DayObserved, DayUnknown, PastReserved, PastObserved, PastUnknown, Part, OfDay, OfPast
<1>2. CASE \E s \in Scopes : Outstanding(s)
  <2> DEFINE lost == OutstandingCharge("startup") + OutstandingCharge("next")
  <2>1. started # 0
    BY <1>2 DEF LedgerInv, Outstanding
  <2>2. /\ SummaryValid /\ RetainedValid /\ PastInv
        /\ \A s \in Scopes : rec[s].status # "none" => RecordValid(s)
    BY <2>1 DEF LedgerInv
  <2>3. started' = started /\ day' = day /\ highWater <= highWater'
        /\ highWater \in Nat /\ highWater' \in Nat
    BY <1>2 DEF RecoverCommit, Maximum, TypeOK
  <2>4. day' <= DayOf(highWater') /\ started' <= highWater'
    <3>1. DayOf(highWater) <= DayOf(highWater') /\ DayOf(highWater) \in Nat /\ DayOf(highWater') \in Nat
      BY <2>3, DayMonotone, DayBounds
    <3> QED BY <2>2, <2>3, <3>1 DEF SummaryValid, TypeOK
  <2>5. \A s \in Scopes :
          /\ rec'[s].status = IF Outstanding(s) THEN "unknown" ELSE rec[s].status
          /\ rec'[s].observed = rec[s].observed
          /\ rec'[s].day = rec[s].day /\ rec'[s].started = rec[s].started
          /\ rec'[s].expires = rec[s].expires /\ rec'[s].allowance = rec[s].allowance
    BY <1>2 DEF RecoverCommit, TypeOK, Records
  <2>6. \A s \in Scopes : ~Outstanding(s)'
    BY <2>5 DEF Outstanding
  <2>7. ASSUME NEW s \in Scopes, rec'[s].status # "none" PROVE RecordValid(s)'
    <3>1. RecordValid(s)
      BY <2>2, <2>5, <2>7 DEF Outstanding
    <3>2. ReservationValid(s)'
      BY <2>5, <3>1 DEF RecordValid, ReservationValid
    <3> QED BY <2>3, <2>5, <2>6, <3>1, <3>2, RecordTypes DEF RecordValid
  <2>8. /\ daily'.reserved = daily.reserved /\ daily'.observed = daily.observed
        /\ daily'.unknown = daily.unknown + lost /\ total'.reserved = total.reserved
        /\ total'.observed = total.observed /\ total'.unknown = total.unknown + lost
    BY <1>2 DEF RecoverCommit, TypeOK, Charges
  <2>9. ASSUME NEW s \in Scopes
        PROVE  /\ OutstandingCharge(s)' = 0
               /\ DayUnknown(s)' = DayUnknown(s) + OutstandingCharge(s)
               /\ DayReserved(s)' = DayReserved(s) /\ DayObserved(s)' = DayObserved(s)
               /\ PastReserved(s)' = PastReserved(s) /\ PastObserved(s)' = PastObserved(s)
               /\ PastUnknown(s)' = PastUnknown(s)
    <3>1. Outstanding(s) => rec[s].day = day
      BY <2>2 DEF RecordValid, Outstanding
    <3> QED BY <2>3, <2>5, <3>1, RecordTypes DEF OutstandingCharge, Outstanding, DayReserved,
         DayObserved, DayUnknown, PastReserved, PastObserved, PastUnknown, Part, OfDay, OfPast
  <2>10. "startup" \in Scopes /\ "next" \in Scopes
    BY DEF Scopes
  <2>11. SummaryValid' /\ RetainedValid' /\ PastInv'
    BY <2>2, <2>3, <2>4, <2>8, <2>9, <2>10, ChargeTypes, PartTypes
    DEF SummaryValid, RetainedValid, PastInv, OutstandingTotal
  <2> QED BY <2>1, <2>3, <2>6, <2>7, <2>11 DEF LedgerInv
<1> QED BY <1>1, <1>2

\* What the ledger invariant reads.
LEMMA LedgerUnchanged ==
  ASSUME LedgerInv, UNCHANGED ledger
  PROVE  LedgerInv'
<1>1. started' = started /\ day' = day /\ highWater' = highWater /\ daily' = daily
      /\ total' = total /\ rec' = rec
  BY DEF ledger
<1> QED BY <1>1 DEF LedgerInv, SummaryValid, RetainedValid, PastInv, RecordValid,
     ReservationValid, Outstanding, OutstandingTotal, OutstandingCharge, DayReserved,
     DayObserved, DayUnknown, PastReserved, PastObserved, PastUnknown, Part, OfDay, OfPast

\* The steps that write the ledger.
LEMMA LedgerWriters ==
  ASSUME [Next]_vars
  PROVE  \/ UNCHANGED ledger
         \/ \E now \in Times : Start(now) \/ HandlerPanicked(now)
         \/ \E now \in Times, wall \in Times : ReserveStartup(now, wall) \/ ReserveNext(now, wall)
         \/ \E s \in Scopes : Settle(s)
  BY DEF Next, vars, Claim, HandlerDone, BeginSettle, ReserveRefused, Permit, PermitRefused,
     Construct, ElapsedTick, Settled, Halt, Crash

\* The ledger invariant is kept by every step, given that windows and open
\* reservations belong together.
LEMMA LedgerStep ==
  ASSUME TypeOK, TypeOK', LedgerInv, WindowInv, [Next]_vars
  PROVE  LedgerInv'
<1>1. ASSUME NEW now \in Times, Start(now) PROVE LedgerInv'
  <2>1. now \in Nat /\ RecoverCommit(now)
    BY <1>1, TimesAssumption DEF Start
  <2> QED BY <2>1, RecoverKeepsLedger
<1>2. ASSUME NEW now \in Times, HandlerPanicked(now) PROVE LedgerInv'
  <2>1. SettleTime(now) \in Nat /\ RecoverCommit(SettleTime(now))
    BY <1>2, SettleTimeType, TimesAssumption DEF HandlerPanicked
  <2> QED BY <2>1, RecoverKeepsLedger
<1>3. ASSUME NEW now \in Times, NEW wall \in Times, ReserveStartup(now, wall) PROVE LedgerInv'
  <2>1. "startup" \in Scopes /\ ~ReserveDeferred("startup", now)
        /\ ~ReserveStale("startup", now) /\ ReserveCommit("startup", now)
    BY <1>3 DEF ReserveStartup, ReserveStale, Scopes
  <2> QED BY <2>1, ReserveKeepsLedger
<1>4. ASSUME NEW now \in Times, NEW wall \in Times, ReserveNext(now, wall) PROVE LedgerInv'
  <2>1. "next" \in Scopes /\ ~ReserveDeferred("next", now)
        /\ ~ReserveStale("next", now) /\ ReserveCommit("next", now)
    BY <1>4 DEF ReserveNext, Scopes
  <2> QED BY <2>1, ReserveKeepsLedger
<1>5. ASSUME NEW s \in Scopes, Settle(s) PROVE LedgerInv'
  <2>1. ~SettleStale(s) /\ SettleCommit(s, settleAt) /\ settleAt \in Nat
    BY <1>5 DEF Settle, TypeOK
  <2>2. win[s].observed <= rec[s].allowance
    BY <1>5 DEF Settle, Settling, WindowInv
  <2> QED BY <2>1, <2>2, SettleKeepsLedger
<1>6. CASE UNCHANGED ledger
  BY <1>6, LedgerUnchanged
<1> QED BY <1>1, <1>2, <1>3, <1>4, <1>5, <1>6, LedgerWriters

-----------------------------------------------------------------------------
(***************************************************************************)
(* The windows.                                                            *)
(***************************************************************************)

\* A process that halts or has no open reservation needs no window.
LEMMA NoWindows ==
  ASSUME NEW s \in Scopes, win' = [r \in Scopes |-> NoWindow]
  PROVE  ~Active(s)'
  BY DEF Active, NoWindow

\* A granted reservation opens its scope's window, and leaves an open record
\* of the other scope to the window that owns it.
LEMMA ReserveKeepsWindows ==
  ASSUME TypeOK, TypeOK', LedgerInv, WindowInv, NEW s \in Scopes, NEW now \in Times,
         ~ReserveDeferred(s, now), ReserveCommit(s, now),
         phase \notin {"down", "idle"}, phase' \notin {"down", "idle"},
         win'[s].token = issued + 1, win'[s].observed = 0, win'[s].high = now,
         \A r \in Scopes : r # s =>
           /\ win'[r].token = win[r].token /\ win'[r].observed = win[r].observed
           /\ Active(r) => win'[r].high \in {win[r].high, now}
  PROVE  WindowInv'
<1>1. now \in Nat /\ (started # 0 => highWater <= now) /\ issued \in Nat
      /\ Allowance(s) \in Nat
  BY ReserveGranted DEF TypeOK
<1>2. /\ rec'[s].status = "reserved" /\ rec'[s].token = issued + 1 /\ rec'[s].started = now
      /\ rec'[s].allowance = Allowance(s)
      /\ \A r \in Scopes : r # s => rec'[r] = rec[r]
  BY ReserveRecord
<1>3. ASSUME NEW r \in Scopes, r # s, Active(r)
      PROVE  ~SettleStale(r)' /\ win'[r].observed <= rec'[r].allowance
             /\ rec'[r].started <= win'[r].high
  <2>1. /\ ~SettleStale(r) /\ win[r].observed <= rec[r].allowance
        /\ rec[r].started <= win[r].high
    BY <1>3 DEF WindowInv
  <2>2. started # 0 /\ rec[r].started <= highWater
    BY <2>1 DEF SettleStale, LedgerInv, RecordValid
  <2>3. rec[r].started <= now
    BY <1>1, <2>2, RecordTypes DEF TypeOK
  <2> QED BY <1>2, <1>3, <2>1, <2>3 DEF SettleStale
<1>4. ~SettleStale(s)' /\ win'[s].observed <= rec'[s].allowance
      /\ rec'[s].started <= win'[s].high /\ Active(s)'
  BY <1>1, <1>2 DEF SettleStale, Active
<1>5. ASSUME NEW r \in Scopes, Outstanding(r)' PROVE Active(r)'
  BY <1>2, <1>4, <1>5 DEF WindowInv, Outstanding, Active
<1> QED BY <1>3, <1>4, <1>5 DEF WindowInv, Active

\* Windows and open reservations stay together in every step.
LEMMA WindowStep ==
  ASSUME TypeOK, TypeOK', LedgerInv, WindowInv, [Next]_vars
  PROVE  WindowInv'
<1>1. ASSUME NEW now \in Times, Start(now) PROVE WindowInv'
  <2>1. now \in Nat /\ RecoverCommit(now) /\ phase = "down" /\ phase' = "idle" /\ win' = win
    BY <1>1, TimesAssumption DEF Start
  <2>2. \A s \in Scopes : ~Outstanding(s)'
    BY <2>1, RecoverKeepsLedger
  <2>3. \A s \in Scopes : ~Active(s)'
    BY <2>1 DEF WindowInv, Active
  <2> QED BY <2>2, <2>3 DEF WindowInv
<1>2. ASSUME NEW now \in Times, HandlerPanicked(now) PROVE WindowInv'
  <2>1. SettleTime(now) \in Nat /\ RecoverCommit(SettleTime(now))
        /\ win' = [r \in Scopes |-> NoWindow]
    BY <1>2, SettleTimeType, TimesAssumption DEF HandlerPanicked
  <2>2. \A s \in Scopes : ~Outstanding(s)' /\ ~Active(s)'
    BY <2>1, RecoverKeepsLedger, NoWindows
  <2> QED BY <2>2 DEF WindowInv
<1>3. ASSUME NEW now \in Times, NEW wall \in Times, ReserveStartup(now, wall) PROVE WindowInv'
  <2>1. /\ ~ReserveDeferred("startup", now) /\ ReserveCommit("startup", now)
        /\ phase = "reserveStartup" /\ phase' = "reserveNext" /\ "startup" \in Scopes
    BY <1>3 DEF ReserveStartup, Scopes
  <2>2. win' = [win EXCEPT !["startup"] = NewWindow("startup", now, wall, Midnight(now))]
    BY <1>3 DEF ReserveStartup
  <2>3. /\ win'["startup"].token = issued + 1 /\ win'["startup"].observed = 0
        /\ win'["startup"].high = now
        /\ \A r \in Scopes : r # "startup" => win'[r] = win[r]
    BY <2>1, <2>2 DEF NewWindow, TypeOK
  <2> QED BY <2>1, <2>3, ReserveKeepsWindows
<1>4. ASSUME NEW now \in Times, NEW wall \in Times, ReserveNext(now, wall) PROVE WindowInv'
  <2>1. /\ ~ReserveDeferred("next", now) /\ ReserveCommit("next", now)
        /\ phase = "reserveNext" /\ phase' = "running" /\ "next" \in Scopes
        /\ "startup" \in Scopes /\ Scopes = {"startup", "next"}
    BY <1>4 DEF ReserveNext, Scopes
  <2>2. win' = [win EXCEPT !["next"] = NewWindow("next", now, wall, Minimum(Midnight(now), lease)),
                           !["startup"].high = IF Active("startup") THEN now ELSE @]
    BY <1>4 DEF ReserveNext
  <2>3. win'["next"] = NewWindow("next", now, wall, Minimum(Midnight(now), lease))
    BY <2>1, <2>2 DEF TypeOK
  <2>4. win'["startup"] = [win["startup"] EXCEPT !.high = IF Active("startup") THEN now ELSE @]
    BY <2>1, <2>2 DEF TypeOK
  <2>5. /\ win'["startup"].token = win["startup"].token
        /\ win'["startup"].observed = win["startup"].observed
        /\ Active("startup") => win'["startup"].high = now
    BY <2>1, <2>4 DEF TypeOK, Windows
  <2>6. /\ win'["next"].token = issued + 1 /\ win'["next"].observed = 0
        /\ win'["next"].high = now
    BY <2>3 DEF NewWindow
  <2> QED BY <2>1, <2>5, <2>6, ReserveKeepsWindows
<1>5. ASSUME NEW s \in Scopes, Settle(s) PROVE WindowInv'
  <2>1. /\ win' = [win EXCEPT ![s] = NoWindow] /\ phase' = phase /\ phase = "settling"
        /\ rec' = [rec EXCEPT ![s] = [@ EXCEPT !.status = "settled", !.observed = win[s].observed]]
    BY <1>5 DEF Settle, Settling, SettleCommit
  <2>2. ~Active(s)' /\ ~Outstanding(s)'
    BY <2>1 DEF Active, NoWindow, Outstanding, TypeOK, Records
  <2>3. \A r \in Scopes : r # s => win'[r] = win[r] /\ rec'[r] = rec[r]
    BY <2>1 DEF TypeOK
  <2> QED BY <2>1, <2>2, <2>3 DEF WindowInv, Active, Outstanding, SettleStale
<1>6. CASE Halt
  <2>1. phase' = "down" /\ \A s \in Scopes : ~Active(s)'
    BY <1>6, NoWindows DEF Halt
  <2> QED BY <2>1 DEF WindowInv
<1>7. ASSUME NEW s \in Scopes, NEW wall \in Times, Permit(s, wall) \/ PermitRefused(s, wall)
      PROVE  WindowInv'
  <2>1. wall \in Nat /\ rec' = rec /\ phase' = phase /\ phase = "running"
    BY <1>7, TimesAssumption DEF Permit, PermitRefused, Using, ledger
  <2>2. \A r \in Scopes : r # s => win'[r] = win[r]
    BY <1>7 DEF Permit, PermitRefused, TypeOK
  <2>3. /\ win'[s].token = win[s].token
        /\ win[s].high <= win'[s].high
        /\ win'[s].observed <= rec[s].allowance \/ win'[s].observed = win[s].observed
    <3>1. CASE Permit(s, wall)
      <4>1. win'[s] = Counted(win[s], wall) /\ win[s].high <= wall
            /\ win[s].observed < rec[s].allowance
        BY <3>1 DEF Permit, Fence, TypeOK
      <4>2. Counted(win[s], wall).token = win[s].token /\ Counted(win[s], wall).high = wall
            /\ Counted(win[s], wall).observed = win[s].observed + 1
        BY DEF Counted, TypeOK, Windows
      <4> QED BY <4>1, <4>2, RecordTypes
    <3>2. CASE PermitRefused(s, wall)
      <4>1. win'[s] = [win[s] EXCEPT !.high = Maximum(@, wall)]
        BY <3>2 DEF PermitRefused, TypeOK
      <4> QED BY <2>1, <4>1, RecordTypes DEF Maximum, TypeOK, Windows
    <3> QED BY <1>7, <3>1, <3>2
  <2>4. ASSUME NEW r \in Scopes, Active(r)'
        PROVE  /\ ~SettleStale(r)' /\ win'[r].observed <= rec'[r].allowance
               /\ rec'[r].started <= win'[r].high
    <3>1. Active(r) /\ ~SettleStale(r) /\ win[r].observed <= rec[r].allowance
          /\ rec[r].started <= win[r].high
      BY <2>2, <2>3, <2>4 DEF WindowInv, Active
    <3>2. CASE r = s
      <4>1. win'[s].high \in Nat
        BY DEF TypeOK, Windows
      <4> QED BY <2>1, <2>3, <3>1, <3>2, <4>1, RecordTypes DEF SettleStale
    <3>3. CASE r # s
      BY <2>1, <2>2, <3>1, <3>3 DEF SettleStale
    <3> QED BY <3>2, <3>3
  <2>5. \A r \in Scopes : Active(r)' = Active(r) /\ Outstanding(r)' = Outstanding(r)
    BY <2>1, <2>2, <2>3 DEF Active, Outstanding
  <2> QED BY <2>1, <2>4, <2>5 DEF WindowInv
<1>8. CASE Construct
  <2>1. rec' = rec /\ phase' = phase /\ phase = "running" /\ Scopes = {"startup", "next"}
        /\ win' = [win EXCEPT !["next"] = Inherit(win["next"], win["startup"])]
    BY <1>8 DEF Construct, ledger, Scopes
  <2>2. win'["startup"] = win["startup"] /\ win'["next"] = Inherit(win["next"], win["startup"])
    BY <2>1 DEF TypeOK
  <2>3. /\ win'["next"].token = win["next"].token
        /\ win'["next"].observed = win["next"].observed
        /\ win["next"].high <= win'["next"].high
    BY <2>1, <2>2, RecordTypes DEF Inherit, Maximum, TypeOK, Windows
  <2>4. win'["next"].high \in Nat
    BY <2>1 DEF TypeOK, Windows
  <2>5. \A r \in Scopes : Active(r)' = Active(r) /\ Outstanding(r)' = Outstanding(r)
                          /\ (~SettleStale(r) => ~SettleStale(r)')
    BY <2>1, <2>2, <2>3 DEF Active, Outstanding, SettleStale
  <2>6. \A r \in Scopes : /\ win'[r].observed = win[r].observed
                          /\ rec[r].started <= win[r].high => rec[r].started <= win'[r].high
    BY <2>1, <2>2, <2>3, <2>4, RecordTypes
  <2> QED BY <2>1, <2>5, <2>6 DEF WindowInv
<1>9. CASE UNCHANGED <<rec, win>> /\ (phase' = phase \/ (phase \notin {"down"} /\ phase' \notin {"down", "idle"}))
  BY <1>9 DEF WindowInv, Active, Outstanding, SettleStale
<1>10. CASE Settled /\ ~Halt
  <2>1. phase = "settling" /\ phase' = "idle" /\ UNCHANGED <<rec, win>>
        /\ \A s \in Scopes : ~Active(s)
    BY <1>10 DEF Settled, ledger
  <2> QED BY <2>1 DEF WindowInv, Active, Outstanding, SettleStale
<1>11. ASSUME NEW now \in Times, Claim(now) PROVE WindowInv'
  <2>1. phase = "idle" /\ phase' \in {"reserveNext", "reserveStartup"} /\ UNCHANGED <<rec, win>>
    BY <1>11 DEF Claim, ledger
  <2> QED BY <2>1 DEF WindowInv, Active, Outstanding, SettleStale
<1>12. ASSUME NEW now \in Times, HandlerDone(now) PROVE WindowInv'
  BY <1>9, <1>12 DEF HandlerDone, BeginSettle, ledger
<1>13. ASSUME NEW now \in Times, NEW wall \in Times, NEW s \in Scopes,
              ReserveRefused(s, now, wall) PROVE WindowInv'
  BY <1>9, <1>13 DEF ReserveRefused, BeginSettle, ledger
<1>14. CASE ElapsedTick \/ UNCHANGED vars
  BY <1>9, <1>14 DEF ElapsedTick, vars, ledger, process
<1>15. CASE Crash \/ Settled
  BY <1>6, <1>10, <1>15 DEF Crash
<1> QED
  BY <1>1, <1>2, <1>3, <1>4, <1>5, <1>7, <1>8, <1>11, <1>12, <1>13, <1>14, <1>15 DEF Next

-----------------------------------------------------------------------------
(***************************************************************************)
(* The attempts.                                                           *)
(***************************************************************************)

\* What a reservation may have spent is at most what it still holds open.
LEMMA SpentBound ==
  ASSUME TypeOK, WindowInv, NEW s \in Scopes
  PROVE  Spent(s) \in Nat /\ OutstandingCharge(s) \in Nat /\ Spent(s) <= OutstandingCharge(s)
  BY RecordTypes DEF Spent, OutstandingCharge, WindowInv

\* What a granted reservation of a free scope does to the admission facts.
LEMMA ReserveKeepsAdmission ==
  ASSUME TypeOK, TypeOK', LedgerInv, WindowInv, AdmissionInv, NEW s \in Scopes,
         NEW now \in Times, ~ReserveDeferred(s, now), ReserveCommit(s, now),
         phase # "down", limit' = limit, admitted' = admitted,
         win'[s].token = issued + 1, win'[s].observed = 0,
         \A r \in Scopes : r # s =>
           win'[r].token = win[r].token /\ win'[r].observed = win[r].observed
  PROVE  AdmissionInv'
<1>1. /\ now \in Nat /\ now > 0 /\ DayOf(now) \in Nat /\ Allowance(s) \in Nat \ {0}
      /\ ~Outstanding(s)
      /\ started # 0 => highWater <= now /\ day <= DayOf(now)
      /\ started # 0 /\ DayOf(now) > day => \A r \in Scopes : ~Outstanding(r)
  BY ReserveGranted
<1>2. /\ rec'[s].status = "reserved" /\ rec'[s].token = issued + 1
      /\ rec'[s].allowance = Allowance(s)
      /\ \A r \in Scopes : r # s => rec'[r] = rec[r]
  BY ReserveRecord
<1> DEFINE o == IF s = "startup" THEN "next" ELSE "startup"
<1>3. o \in Scopes /\ o # s /\ Scopes = {s, o}
  BY DEF Scopes
<1>4. started' # 0 /\ day' = DayOf(now) /\ day' \in Days /\ day \in Nat
  BY <1>1 DEF ReserveCommit, TypeOK, Days
<1>5. limit \in Limits /\ limit' \in Limits /\ limit \in Nat
  BY LimitsAssumption DEF AdmissionInv
<1>6. \E l \in Limits : daily'.reserved <= l
  <2>1. LET used == IF started # 0 /\ DayOf(now) <= day THEN daily.reserved ELSE 0
        IN  ~(used > limit \/ Allowance(s) > limit - used)
    BY DEF ReserveDeferred
  <2>2. CASE started = 0 \/ DayOf(now) > day
    <3>1. daily'.reserved = Allowance(s)
      BY <1>1, <2>2 DEF ReserveCommit, NoCharges
    <3>2. ~(Allowance(s) > limit - 0)
      BY <1>1, <1>4, <2>1, <2>2
    <3> QED BY <1>1, <1>5, <3>1, <3>2
  <2>3. CASE ~(started = 0 \/ DayOf(now) > day)
    <3>1. daily'.reserved = daily.reserved + Allowance(s)
      BY <2>3 DEF ReserveCommit, TypeOK, Charges
    <3>2. ~(Allowance(s) > limit - daily.reserved)
      BY <1>1, <1>4, <2>1, <2>3
    <3> QED BY <1>1, <1>5, <3>1, <3>2, ChargeTypes
  <2> QED BY <2>2, <2>3
<1>7. Spent(s)' = 0 /\ Spent(s) = 0 /\ Spent(o)' = Spent(o) /\ Spent(o) \in Nat
  <2>1. Spent(s)' = 0
    BY <1>2 DEF Spent, Outstanding, Active, TypeOK
  <2>2. Spent(o)' = Spent(o)
    BY <1>2, <1>3 DEF Spent, Outstanding, Active
  <2> QED BY <1>1, <1>3, <2>1, <2>2, SpentBound DEF Spent
<1>8. Spent("startup") + Spent("next") = Spent(o) /\ Spent("startup")' + Spent("next")' = Spent(o)
  <2>1. CASE s = "startup"
    BY <1>7, <2>1
  <2>2. CASE s = "next"
    BY <1>7, <2>2
  <2> QED BY <2>1, <2>2 DEF Scopes
<1>9. CASE started = 0
  <2>1. \A d \in Days : admitted'[d] = 0
    BY <1>9 DEF AdmissionInv
  <2>2. daily'.observed = 0 /\ daily'.unknown = 0
    BY <1>9 DEF ReserveCommit, NoCharges
  <2>3. \A d \in Days : \E l \in Limits : admitted'[d] <= l
    BY <1>5, <2>1
  <2>4. admitted'[day'] <= daily'.observed + daily'.unknown + Spent("startup")' + Spent("next")'
    <3>1. admitted'[day'] = 0
      BY <1>4, <2>1
    <3>2. Spent("startup")' \in Nat /\ Spent("next")' \in Nat
      BY <1>3, <1>7 DEF Scopes
    <3> QED BY <2>2, <3>1, <3>2
  <2> QED BY <1>4, <1>5, <1>6, <2>1, <2>3, <2>4 DEF AdmissionInv
<1>10. CASE started # 0 /\ DayOf(now) > day
  <2>1. daily'.observed = 0 /\ daily'.unknown = 0
    BY <1>10 DEF ReserveCommit, NoCharges
  <2>2. \A d \in Days : d > day => admitted'[d] = 0
    BY <1>10 DEF AdmissionInv
  <2>3. \E l \in Limits : admitted'[day] <= l
    <3>1. admitted[day] <= daily.observed + daily.unknown + Spent("startup") + Spent("next")
          /\ day \in Days
      BY <1>10 DEF AdmissionInv
    <3>2. PICK l \in Limits : daily.reserved <= l
      BY <1>10 DEF AdmissionInv
    <3>3. daily.observed + daily.unknown + OutstandingTotal <= daily.reserved
      BY <1>10 DEF LedgerInv, SummaryValid
    <3>4. /\ Spent("startup") \in Nat /\ Spent("startup") <= OutstandingCharge("startup")
          /\ Spent("next") \in Nat /\ Spent("next") <= OutstandingCharge("next")
          /\ OutstandingCharge("startup") \in Nat /\ OutstandingCharge("next") \in Nat
      BY SpentBound DEF Scopes
    <3>5. admitted[day] \in Nat /\ l \in Nat
      BY <3>1, LimitsAssumption DEF TypeOK
    <3>6. admitted[day] <= l
      BY <3>1, <3>2, <3>3, <3>4, <3>5, ChargeTypes DEF OutstandingTotal
    <3> QED BY <3>6
  <2>4. \A d \in Days : d < day' => \E l \in Limits : admitted'[d] <= l
    <3> SUFFICES ASSUME NEW d \in Days, d < day' PROVE \E l \in Limits : admitted'[d] <= l
      OBVIOUS
    <3>1. d \in Nat
      BY TimesAssumption, DayBounds DEF Days
    <3>2. CASE d < day
      BY <1>10, <3>2 DEF AdmissionInv
    <3>3. CASE d = day
      BY <2>3, <3>3
    <3>4. CASE d > day
      BY <1>5, <2>2, <3>4
    <3> QED BY <1>4, <3>1, <3>2, <3>3, <3>4
  <2>5. \A d \in Days : d > day' => admitted'[d] = 0
    <3> SUFFICES ASSUME NEW d \in Days, d > day' PROVE d > day
      BY <2>2
    <3>1. d \in Nat
      BY TimesAssumption, DayBounds DEF Days
    <3> QED BY <1>1, <1>4, <1>10, <3>1
  <2>6. admitted'[day'] <= daily'.observed + daily'.unknown + Spent("startup")' + Spent("next")'
    <3>1. admitted'[day'] = 0
      BY <1>4, <1>10, <2>2
    <3>2. Spent("startup")' \in Nat /\ Spent("next")' \in Nat
      BY <1>3, <1>7 DEF Scopes
    <3> QED BY <2>1, <3>1, <3>2
  <2> QED BY <1>4, <1>5, <1>6, <2>4, <2>5, <2>6 DEF AdmissionInv
<1>11. CASE started # 0 /\ ~(DayOf(now) > day)
  <2>1. daily'.observed = daily.observed /\ daily'.unknown = daily.unknown /\ day' = day
    BY <1>11 DEF ReserveCommit, TypeOK, Charges
  <2>2. admitted[day] <= daily.observed + daily.unknown + Spent("startup") + Spent("next")
    BY <1>11 DEF AdmissionInv
  <2>3. Spent("startup")' = Spent("startup") /\ Spent("next")' = Spent("next")
    BY <1>3, <1>7 DEF Scopes
  <2> QED BY <1>4, <1>5, <1>6, <1>11, <2>1, <2>2, <2>3 DEF AdmissionInv
<1> QED BY <1>9, <1>10, <1>11

\* An attempt is admitted on the day of the ledger.
LEMMA PermitDay ==
  ASSUME TypeOK, LedgerInv, WindowInv, NEW s \in Scopes, NEW wall \in Times, Permit(s, wall)
  PROVE  started # 0 /\ DayOf(wall) = day
<1>1. Active(s) /\ win[s].high <= wall /\ wall < rec[s].expires
  BY DEF Permit, Using, Fence
<1>2. ~SettleStale(s) /\ rec[s].started <= win[s].high
  BY <1>1 DEF WindowInv
<1>3. started # 0 /\ RecordValid(s) /\ rec[s].day = day
  BY <1>2 DEF SettleStale, LedgerInv, RecordValid, Outstanding
<1>4. rec[s].day = DayOf(rec[s].started) /\ rec[s].expires <= Midnight(rec[s].started)
  BY <1>3 DEF RecordValid, ReservationValid
<1>5. wall \in Nat /\ rec[s].started <= wall /\ wall < Midnight(rec[s].started)
  BY <1>1, <1>2, <1>4, RecordTypes, DayBounds, TimesAssumption
<1> QED BY <1>3, <1>4, <1>5, SameDay, RecordTypes

\* A step that leaves day, reservations and limit alone, and covers what it
\* admits, keeps the admission facts.
LEMMA AdmissionKept ==
  ASSUME TypeOK, TypeOK', AdmissionInv, started' = started, day' = day,
         daily'.reserved = daily.reserved,
         phase' # "down" => limit' \in Limits,
         started = 0 => admitted' = admitted,
         started # 0 => /\ \A d \in Days : d # day => admitted'[d] = admitted[d]
                        /\ admitted'[day] <= daily'.observed + daily'.unknown
                                               + Spent("startup")' + Spent("next")'
  PROVE  AdmissionInv'
<1>1. CASE started = 0
  BY <1>1 DEF AdmissionInv
<1>2. CASE started # 0
  <2>1. \A d \in Days : d > day => d # day /\ d \in Nat
    BY TimesAssumption, DayBounds DEF Days, TypeOK
  <2>2. \A d \in Days : d < day => d # day
    BY TimesAssumption, DayBounds DEF Days, TypeOK
  <2> QED BY <1>2, <2>1, <2>2 DEF AdmissionInv
<1> QED BY <1>1, <1>2

\* Recovery covers as unknown whatever the lost windows had admitted.
LEMMA RecoverKeepsAdmission ==
  ASSUME TypeOK, TypeOK', LedgerInv, WindowInv, AdmissionInv, NEW now \in Nat,
         RecoverCommit(now), admitted' = admitted, phase' # "down" => limit' \in Limits,
         win' = [s \in Scopes |-> NoWindow] \/ win' = win
  PROVE  AdmissionInv'
<1>1. \A s \in Scopes : ~Outstanding(s)'
  BY RecoverKeepsLedger
<1>2. Spent("startup")' = 0 /\ Spent("next")' = 0
  BY <1>1 DEF Spent, Scopes
<1>3. /\ started' = started /\ day' = day /\ daily'.reserved = daily.reserved
      /\ daily'.observed = daily.observed
      /\ daily'.unknown = daily.unknown + OutstandingCharge("startup") + OutstandingCharge("next")
  <2>1. CASE \E s \in Scopes : Outstanding(s)
    <3>1. OutstandingCharge("startup") \in Nat /\ OutstandingCharge("next") \in Nat
      BY PartTypes DEF Scopes
    <3> QED BY <2>1, <3>1, ChargeTypes DEF RecoverCommit, TypeOK, Charges
  <2>2. CASE ~\E s \in Scopes : Outstanding(s)
    <3>1. OutstandingCharge("startup") = 0 /\ OutstandingCharge("next") = 0
      BY <2>2 DEF OutstandingCharge, Scopes
    <3> QED BY <2>2, <3>1, ChargeTypes DEF RecoverCommit, ledger
  <2> QED BY <2>1, <2>2
<1>4. started # 0 => admitted'[day] <= daily'.observed + daily'.unknown + 0 + 0
  <2> SUFFICES ASSUME started # 0
               PROVE  admitted'[day] <= daily'.observed + daily'.unknown + 0 + 0
    OBVIOUS
  <2>1. admitted[day] <= daily.observed + daily.unknown + Spent("startup") + Spent("next")
        /\ admitted[day] \in Nat
    BY DEF AdmissionInv, TypeOK
  <2>2. /\ Spent("startup") \in Nat /\ Spent("startup") <= OutstandingCharge("startup")
        /\ Spent("next") \in Nat /\ Spent("next") <= OutstandingCharge("next")
        /\ OutstandingCharge("startup") \in Nat /\ OutstandingCharge("next") \in Nat
    BY SpentBound DEF Scopes
  <2> QED BY <1>3, <2>1, <2>2, ChargeTypes
<1> QED BY <1>2, <1>3, <1>4, AdmissionKept

LEMMA AdmissionStep ==
  ASSUME TypeOK, TypeOK', LedgerInv, WindowInv, WindowInv', AdmissionInv, [Next]_vars
  PROVE  AdmissionInv'
<1>1. ASSUME NEW now \in Times, Start(now) PROVE AdmissionInv'
  <2>1. now \in Nat /\ RecoverCommit(now) /\ win' = win /\ admitted' = admitted /\ limit' \in Limits
    BY <1>1, TimesAssumption DEF Start, observed
  <2> QED BY <2>1, RecoverKeepsAdmission
<1>2. ASSUME NEW now \in Times, HandlerPanicked(now) PROVE AdmissionInv'
  <2>1. SettleTime(now) \in Nat /\ RecoverCommit(SettleTime(now)) /\ admitted' = admitted
        /\ win' = [s \in Scopes |-> NoWindow] /\ limit' = limit /\ phase = "running"
    BY <1>2, SettleTimeType, TimesAssumption DEF HandlerPanicked, observed
  <2>2. limit' \in Limits
    BY <2>1 DEF AdmissionInv
  <2> QED BY <2>1, <2>2, RecoverKeepsAdmission
<1>3. ASSUME NEW now \in Times, NEW wall \in Times, ReserveStartup(now, wall) PROVE AdmissionInv'
  <2>1. /\ ~ReserveDeferred("startup", now) /\ ReserveCommit("startup", now)
        /\ phase = "reserveStartup" /\ limit' = limit /\ admitted' = admitted
        /\ win' = [win EXCEPT !["startup"] = NewWindow("startup", now, wall, Midnight(now))]
        /\ "startup" \in Scopes
    BY <1>3 DEF ReserveStartup, Scopes
  <2>2. /\ win'["startup"].token = issued + 1 /\ win'["startup"].observed = 0
        /\ \A r \in Scopes : r # "startup" => win'[r] = win[r]
    BY <2>1 DEF NewWindow, TypeOK
  <2> QED BY <2>1, <2>2, ReserveKeepsAdmission
<1>4. ASSUME NEW now \in Times, NEW wall \in Times, ReserveNext(now, wall) PROVE AdmissionInv'
  <2>1. /\ ~ReserveDeferred("next", now) /\ ReserveCommit("next", now)
        /\ phase = "reserveNext" /\ limit' = limit /\ admitted' = admitted
        /\ "next" \in Scopes /\ "startup" \in Scopes /\ Scopes = {"startup", "next"}
        /\ win' = [win EXCEPT !["next"] = NewWindow("next", now, wall, Minimum(Midnight(now), lease)),
                              !["startup"].high = IF Active("startup") THEN now ELSE @]
    BY <1>4 DEF ReserveNext, Scopes
  <2>2. win'["next"] = NewWindow("next", now, wall, Minimum(Midnight(now), lease))
    BY <2>1 DEF TypeOK
  <2>3. win'["startup"] = [win["startup"] EXCEPT !.high = IF Active("startup") THEN now ELSE @]
    BY <2>1 DEF TypeOK
  <2>4. /\ win'["startup"].token = win["startup"].token
        /\ win'["startup"].observed = win["startup"].observed
    BY <2>1, <2>3 DEF TypeOK, Windows
  <2>5. win'["next"].token = issued + 1 /\ win'["next"].observed = 0
    BY <2>2 DEF NewWindow
  <2> QED BY <2>1, <2>4, <2>5, ReserveKeepsAdmission
<1>5. ASSUME NEW s \in Scopes, NEW wall \in Times, Permit(s, wall) PROVE AdmissionInv'
  <2>1. started # 0 /\ DayOf(wall) = day
    BY <1>5, PermitDay
  <2>2. /\ started' = started /\ day' = day /\ daily' = daily /\ rec' = rec
        /\ limit' = limit /\ phase' = phase
        /\ admitted' = [admitted EXCEPT ![day] = @ + 1] /\ Active(s)
        /\ win' = [win EXCEPT ![s] = Counted(win[s], wall)]
    BY <1>5, <2>1 DEF Permit, ledger, Using
  <2>3. day \in Days /\ admitted[day] \in Nat
        /\ admitted[day] <= daily.observed + daily.unknown + Spent("startup") + Spent("next")
    BY <2>1 DEF AdmissionInv, TypeOK
  <2>4. admitted'[day] = admitted[day] + 1 /\ \A d \in Days : d # day => admitted'[d] = admitted[d]
    BY <2>2, <2>3 DEF TypeOK
  <2>5. Spent(s)' = Spent(s) + 1
    <3>1. win'[s] = Counted(win[s], wall)
      BY <2>2 DEF TypeOK
    <3>2. win'[s].token = win[s].token /\ win'[s].observed = win[s].observed + 1
      BY <3>1 DEF Counted, TypeOK, Windows
    <3>3. Outstanding(s)
      BY <2>2 DEF WindowInv, SettleStale, Outstanding
    <3> QED BY <2>2, <3>2, <3>3 DEF Spent, Active, Outstanding
  <2>6. \A r \in Scopes : r # s => Spent(r)' = Spent(r)
    <3> SUFFICES ASSUME NEW r \in Scopes, r # s PROVE Spent(r)' = Spent(r)
      OBVIOUS
    <3>1. win'[r] = win[r]
      BY <2>2 DEF TypeOK
    <3> QED BY <2>2, <3>1 DEF Spent, Active, Outstanding
  <2>7. Spent("startup") \in Nat /\ Spent("next") \in Nat
    BY SpentBound DEF Scopes
  <2>8. Spent("startup")' + Spent("next")' = Spent("startup") + Spent("next") + 1
    <3>1. CASE s = "startup"
      BY <2>5, <2>6, <2>7, <3>1 DEF Scopes
    <3>2. CASE s = "next"
      BY <2>5, <2>6, <2>7, <3>2 DEF Scopes
    <3> QED BY <3>1, <3>2 DEF Scopes
  <2>9. Spent("startup")' \in Nat /\ Spent("next")' \in Nat
    BY SpentBound, <2>5, <2>6, <2>7 DEF Scopes
  <2>10. admitted'[day] <= daily'.observed + daily'.unknown + Spent("startup")' + Spent("next")'
    BY <2>2, <2>3, <2>4, <2>7, <2>8, <2>9, ChargeTypes
  <2>11. phase' # "down" => limit' \in Limits
    BY <2>2 DEF AdmissionInv
  <2> QED BY <2>1, <2>2, <2>4, <2>10, <2>11, AdmissionKept
<1>6. ASSUME NEW s \in Scopes, Settle(s) PROVE AdmissionInv'
  <2> DEFINE n == win[s].observed
  <2>1. /\ started' = started /\ day' = day /\ admitted' = admitted
        /\ limit' = limit /\ phase' = phase /\ Active(s) /\ ~SettleStale(s)
        /\ win' = [win EXCEPT ![s] = NoWindow]
        /\ rec' = [rec EXCEPT ![s] = [@ EXCEPT !.status = "settled", !.observed = n]]
        /\ daily' = [daily EXCEPT !.observed = @ + n]
    BY <1>6 DEF Settle, Settling, SettleCommit, observed
  <2>2. /\ daily'.reserved = daily.reserved /\ daily'.unknown = daily.unknown
        /\ daily'.observed = daily.observed + n /\ n \in Nat
    BY <2>1, RecordTypes DEF TypeOK, Charges
  <2>3. Spent(s) = n /\ Spent(s)' = 0
    BY <2>1 DEF Spent, SettleStale, Outstanding, TypeOK, Records
  <2>4. \A r \in Scopes : r # s => Spent(r)' = Spent(r)
    <3> SUFFICES ASSUME NEW r \in Scopes, r # s PROVE Spent(r)' = Spent(r)
      OBVIOUS
    <3>1. win'[r] = win[r] /\ rec'[r] = rec[r]
      BY <2>1 DEF TypeOK
    <3> QED BY <3>1 DEF Spent, Active, Outstanding
  <2>5. Spent("startup") \in Nat /\ Spent("next") \in Nat
    BY SpentBound DEF Scopes
  <2>6. Spent("startup")' + Spent("next")' + n = Spent("startup") + Spent("next")
        /\ Spent("startup")' \in Nat /\ Spent("next")' \in Nat
    <3>1. CASE s = "startup"
      BY <2>2, <2>3, <2>4, <2>5, <3>1 DEF Scopes
    <3>2. CASE s = "next"
      BY <2>2, <2>3, <2>4, <2>5, <3>2 DEF Scopes
    <3> QED BY <3>1, <3>2 DEF Scopes
  <2>7. started # 0 =>
          admitted'[day] <= daily'.observed + daily'.unknown + Spent("startup")' + Spent("next")'
    <3> SUFFICES ASSUME started # 0
                 PROVE  admitted'[day] <= daily'.observed + daily'.unknown
                                            + Spent("startup")' + Spent("next")'
      OBVIOUS
    <3>1. admitted[day] <= daily.observed + daily.unknown + Spent("startup") + Spent("next")
          /\ admitted[day] \in Nat
      BY DEF AdmissionInv, TypeOK
    <3> QED BY <2>1, <2>2, <2>5, <2>6, <3>1, ChargeTypes
  <2>8. phase' # "down" => limit' \in Limits
    BY <2>1 DEF AdmissionInv
  <2> QED BY <2>1, <2>2, <2>7, <2>8, AdmissionKept
<1>7. CASE /\ UNCHANGED <<ledger, admitted>> /\ (phase' # "down" => phase # "down" /\ limit' = limit)
           /\ \A s \in Scopes : \/ win'[s].token = win[s].token /\ win'[s].observed = win[s].observed
                                \/ ~Active(s)'
  <2>1. started' = started /\ day' = day /\ daily' = daily /\ rec' = rec /\ admitted' = admitted
    BY <1>7 DEF ledger
  <2>2. ASSUME NEW s \in Scopes PROVE Spent(s) <= Spent(s)' /\ Spent(s) \in Nat /\ Spent(s)' \in Nat
    <3>1. CASE ~Active(s)'
      BY <2>1, <3>1, SpentBound, RecordTypes DEF Spent, Outstanding, OutstandingCharge
    <3>2. CASE win'[s].token = win[s].token /\ win'[s].observed = win[s].observed
      BY <2>1, <3>2, SpentBound DEF Spent, Outstanding, Active
    <3> QED BY <1>7, <3>1, <3>2
  <2>3. started # 0 =>
          admitted'[day] <= daily'.observed + daily'.unknown + Spent("startup")' + Spent("next")'
    <3> SUFFICES ASSUME started # 0
                 PROVE  admitted'[day] <= daily'.observed + daily'.unknown
                                            + Spent("startup")' + Spent("next")'
      OBVIOUS
    <3>1. admitted[day] <= daily.observed + daily.unknown + Spent("startup") + Spent("next")
          /\ admitted[day] \in Nat
      BY DEF AdmissionInv, TypeOK
    <3>2. "startup" \in Scopes /\ "next" \in Scopes
      BY DEF Scopes
    <3> QED BY <2>1, <2>2, <3>1, <3>2, ChargeTypes
  <2>4. phase' # "down" => limit' \in Limits
    BY <1>7 DEF AdmissionInv
  <2> QED BY <2>1, <2>3, <2>4, AdmissionKept
<1>8. ASSUME NEW s \in Scopes, NEW wall \in Times, PermitRefused(s, wall) PROVE AdmissionInv'
  <2>1. UNCHANGED <<ledger, admitted, phase, limit>>
        /\ win' = [win EXCEPT ![s].high = Maximum(@, wall)]
    BY <1>8 DEF PermitRefused, observed
  <2>2. \A r \in Scopes : win'[r].token = win[r].token /\ win'[r].observed = win[r].observed
    BY <2>1 DEF TypeOK, Windows
  <2> QED BY <1>7, <2>1, <2>2
<1>9. CASE Construct
  <2>1. UNCHANGED <<ledger, admitted, phase, limit>>
        /\ win' = [win EXCEPT !["next"] = Inherit(win["next"], win["startup"])]
    BY <1>9 DEF Construct, observed
  <2>2. \A r \in Scopes : win'[r].token = win[r].token /\ win'[r].observed = win[r].observed
    BY <2>1 DEF TypeOK, Windows, Inherit, Scopes
  <2> QED BY <1>7, <2>1, <2>2
<1>10. CASE Halt
  <2>1. \A s \in Scopes : ~Active(s)'
    BY <1>10, NoWindows DEF Halt
  <2> QED BY <1>7, <1>10, <2>1 DEF Halt
<1>11. CASE UNCHANGED <<ledger, admitted, win, limit>> /\ (phase' # "down" => phase # "down")
  BY <1>7, <1>11
<1>12. CASE UNCHANGED vars \/ ElapsedTick
  BY <1>11, <1>12 DEF vars, ledger, process, observed, ElapsedTick
<1>13. ASSUME NEW now \in Times, Claim(now) \/ HandlerDone(now) PROVE AdmissionInv'
  BY <1>11, <1>13 DEF Claim, HandlerDone, BeginSettle, observed
<1>14. ASSUME NEW now \in Times, NEW wall \in Times, NEW s \in Scopes,
              ReserveRefused(s, now, wall) PROVE AdmissionInv'
  BY <1>11, <1>14 DEF ReserveRefused, BeginSettle, observed
<1>15. CASE Crash \/ Settled
  BY <1>10, <1>11, <1>15 DEF Crash, Settled, observed
<1> QED
  BY <1>1, <1>2, <1>3, <1>4, <1>5, <1>6, <1>8, <1>9, <1>12, <1>13, <1>14, <1>15 DEF Next

-----------------------------------------------------------------------------
(***************************************************************************)
(* The theorems.                                                           *)
(***************************************************************************)

LEMMA BudgetInit == Init => BudgetInv
<1> SUFFICES ASSUME Init PROVE BudgetInv
  OBVIOUS
<1>1. LedgerInv
  BY DEF Init, LedgerInv, NoRecord
<1>2. WindowInv
  BY DEF Init, WindowInv, Active, NoWindow
<1>3. AdmissionInv
  BY DEF Init, AdmissionInv
<1> QED BY <1>1, <1>2, <1>3, TypeInit DEF BudgetInv

LEMMA BudgetStep == BudgetInv /\ [Next]_vars => BudgetInv'
  BY TypeStep, LedgerStep, WindowStep, AdmissionStep DEF BudgetInv

\* The inductive invariant: the ledger, the windows of the live process and
\* the attempts they admitted agree after every step of the code.
THEOREM BudgetInvariant == Spec => []BudgetInv
<1> QED BY BudgetInit, BudgetStep, PTL DEF Spec

\* metadataRead never reports a ledger of the code's own making as corrupt.
THEOREM LedgerNeverCorrupt == Spec => []LedgerValid
<1>1. BudgetInv => LedgerValid
  BY DEF BudgetInv, LedgerInv, LedgerValid
<1> QED BY <1>1, BudgetInvariant, PTL

\* The attempts admitted on the ledger's day are covered by its charges.
THEOREM AttemptsAlwaysCovered == Spec => []AttemptsCovered
<1>1. BudgetInv => AttemptsCovered
  <2> SUFFICES ASSUME BudgetInv, day \in Days
               PROVE  admitted[day] <= daily.observed + daily.unknown + Spent("startup") + Spent("next")
    BY DEF AttemptsCovered
  <2>1. CASE started # 0
    BY <2>1 DEF BudgetInv, AdmissionInv
  <2>2. CASE started = 0
    <3>1. admitted[day] = 0 /\ daily.observed \in Nat /\ daily.unknown \in Nat
      BY <2>2, ChargeTypes DEF BudgetInv, AdmissionInv
    <3>2. Spent("startup") \in Nat /\ Spent("next") \in Nat
      BY SpentBound DEF BudgetInv, Scopes
    <3> QED BY <3>1, <3>2
  <2> QED BY <2>1, <2>2
<1> QED BY <1>1, BudgetInvariant, PTL

\* No day sees more attempts than a configured limit.
THEOREM DailyLimitHolds == Spec => []DailyLimit
<1>1. BudgetInv => DailyLimit
  <2> SUFFICES ASSUME BudgetInv, NEW d \in Days PROVE \E l \in Limits : admitted[d] <= l
    BY DEF DailyLimit
  <2>1. d \in Nat /\ day \in Nat /\ admitted[d] \in Nat
    BY TimesAssumption, DayBounds DEF Days, BudgetInv, TypeOK
  <2>2. PICK m \in Limits : m \in Nat
    BY LimitsAssumption
  <2>3. CASE admitted[d] = 0
    BY <2>2, <2>3
  <2>4. CASE started # 0 /\ d = day
    <3>1. PICK l \in Limits : daily.reserved <= l
      BY <2>4 DEF BudgetInv, AdmissionInv
    <3>2. admitted[d] <= daily.observed + daily.unknown + Spent("startup") + Spent("next")
      BY <2>4 DEF BudgetInv, AdmissionInv
    <3>3. daily.observed + daily.unknown + OutstandingTotal <= daily.reserved
      BY <2>4 DEF BudgetInv, LedgerInv, SummaryValid
    <3>4. /\ Spent("startup") \in Nat /\ Spent("startup") <= OutstandingCharge("startup")
          /\ Spent("next") \in Nat /\ Spent("next") <= OutstandingCharge("next")
          /\ OutstandingCharge("startup") \in Nat /\ OutstandingCharge("next") \in Nat
      BY SpentBound DEF BudgetInv, Scopes
    <3>5. l \in Nat /\ daily.observed \in Nat /\ daily.unknown \in Nat /\ daily.reserved \in Nat
      BY LimitsAssumption, ChargeTypes DEF BudgetInv
    <3> QED BY <2>1, <3>1, <3>2, <3>3, <3>4, <3>5 DEF OutstandingTotal
  <2> QED BY <2>1, <2>3, <2>4 DEF BudgetInv, AdmissionInv
<1> QED BY <1>1, BudgetInvariant, PTL

\* An idle worker holds no open reservation, so readiness never ends it.
THEOREM IdleAlwaysSettled == Spec => []IdleSettled
<1>1. BudgetInv => IdleSettled
  BY DEF BudgetInv, WindowInv, IdleSettled
<1> QED BY <1>1, BudgetInvariant, PTL

\* The worker's own settlements are never refused as stale.
THEOREM SettlementsAccepted == Spec => []SettlementAccepted
<1>1. BudgetInv => SettlementAccepted
  BY DEF BudgetInv, WindowInv, SettlementAccepted
<1> QED BY <1>1, BudgetInvariant, PTL

-----------------------------------------------------------------------------
(***************************************************************************)
(* Charges only grow.                                                      *)
(***************************************************************************)

\* A ledger without its row has no high-water mark yet.
MarkInv == started = 0 => highWater = 0

\* ReserveMetadata adds its allowance to the total and to the day it writes.
LEMMA ReserveKeepsCharges ==
  ASSUME BudgetInv, MarkInv, NEW s \in Scopes, NEW now \in Times,
         ~ReserveDeferred(s, now), ReserveCommit(s, now)
  PROVE  ChargesKept /\ MarkInv'
<1>1. /\ now \in Nat /\ now > 0 /\ DayOf(now) \in Nat /\ Allowance(s) \in Nat
      /\ started # 0 => highWater <= now
  BY ReserveGranted DEF BudgetInv
<1>2. /\ daily.reserved \in Nat /\ daily.observed \in Nat /\ daily.unknown \in Nat
      /\ total.reserved \in Nat /\ total.observed \in Nat /\ total.unknown \in Nat
      /\ highWater \in Nat /\ day \in Nat /\ started \in Nat
      /\ daily \in Charges /\ total \in Charges
  BY ChargeTypes DEF BudgetInv, TypeOK
<1>3. highWater <= highWater' /\ MarkInv'
  BY <1>1, <1>2 DEF ReserveCommit, MarkInv
<1>4. /\ total'.reserved = total.reserved + Allowance(s)
      /\ total'.observed = total.observed /\ total'.unknown = total.unknown
  BY <1>2 DEF ReserveCommit, Charges
<1>5. ASSUME day' = day, started # 0
      PROVE  /\ daily'.reserved = daily.reserved + Allowance(s)
             /\ daily'.observed = daily.observed /\ daily'.unknown = daily.unknown
  BY <1>1, <1>2, <1>5 DEF ReserveCommit, Charges
<1>6. started = 0 => daily.reserved = 0 /\ daily.observed = 0 /\ daily.unknown = 0
  BY DEF BudgetInv, LedgerInv, NoCharges
<1>7. ASSUME started = 0
      PROVE  daily'.reserved = Allowance(s) /\ daily'.observed = 0 /\ daily'.unknown = 0
  BY <1>1, <1>7 DEF ReserveCommit, NoCharges
<1> QED BY <1>1, <1>2, <1>3, <1>4, <1>5, <1>6, <1>7 DEF ChargesKept

\* RecoverMetadataReservations adds what was lost to the unknown charges.
LEMMA RecoverKeepsCharges ==
  ASSUME BudgetInv, MarkInv, NEW now \in Nat, RecoverCommit(now)
  PROVE  ChargesKept /\ MarkInv'
<1>1. /\ daily.reserved \in Nat /\ daily.observed \in Nat /\ daily.unknown \in Nat
      /\ total.reserved \in Nat /\ total.observed \in Nat /\ total.unknown \in Nat
      /\ highWater \in Nat /\ daily \in Charges /\ total \in Charges
      /\ OutstandingCharge("startup") \in Nat /\ OutstandingCharge("next") \in Nat
  BY ChargeTypes, PartTypes DEF BudgetInv, TypeOK, Scopes
<1>2. CASE \E s \in Scopes : Outstanding(s)
  <2>1. started # 0 /\ started' = started
    BY <1>2 DEF RecoverCommit, BudgetInv, LedgerInv, Outstanding
  <2>2. highWater <= highWater'
    BY <1>1, <1>2 DEF RecoverCommit, Maximum
  <2> DEFINE lost == OutstandingCharge("startup") + OutstandingCharge("next")
  <2>3. lost \in Nat /\ daily' = [daily EXCEPT !.unknown = @ + lost]
        /\ total' = [total EXCEPT !.unknown = @ + lost]
    BY <1>1, <1>2 DEF RecoverCommit
  <2> HIDE DEF lost
  <2> QED BY <1>1, <2>1, <2>2, <2>3 DEF ChargesKept, MarkInv, Charges
<1>3. CASE ~\E s \in Scopes : Outstanding(s)
  BY <1>1, <1>3 DEF RecoverCommit, ledger, ChargesKept, MarkInv
<1> QED BY <1>2, <1>3

\* SettleMetadata adds the observed attempts.
LEMMA SettleKeepsCharges ==
  ASSUME BudgetInv, MarkInv, NEW s \in Scopes, Settle(s)
  PROVE  ChargesKept /\ MarkInv'
<1>1. /\ daily.reserved \in Nat /\ daily.observed \in Nat /\ daily.unknown \in Nat
      /\ total.reserved \in Nat /\ total.observed \in Nat /\ total.unknown \in Nat
      /\ highWater \in Nat /\ daily \in Charges /\ total \in Charges
      /\ win[s].observed \in Nat /\ settleAt \in Nat
  BY ChargeTypes, RecordTypes DEF BudgetInv, TypeOK
<1>2. started # 0 /\ started' = started
  BY DEF Settle, SettleStale, SettleCommit, BudgetInv, LedgerInv
<1>3. highWater <= highWater'
  BY <1>1 DEF Settle, SettleCommit, Maximum
<1>4. /\ daily' = [daily EXCEPT !.observed = @ + win[s].observed]
      /\ total' = [total EXCEPT !.observed = @ + win[s].observed]
  BY DEF Settle, SettleCommit
<1> QED BY <1>1, <1>2, <1>3, <1>4 DEF ChargesKept, MarkInv, Charges

LEMMA ChargesStep ==
  ASSUME BudgetInv, MarkInv, [Next]_vars
  PROVE  ChargesKept /\ MarkInv'
<1>1. CASE UNCHANGED ledger
  <2>1. UNCHANGED <<started, day, highWater, daily, total>>
    BY <1>1 DEF ledger
  <2> QED BY <2>1, ChargeTypes DEF ChargesKept, MarkInv, BudgetInv, TypeOK
<1>2. ASSUME NEW now \in Times, Start(now) \/ HandlerPanicked(now)
      PROVE  ChargesKept /\ MarkInv'
  <2>1. now \in Nat /\ SettleTime(now) \in Nat
    BY TimesAssumption, SettleTimeType DEF BudgetInv
  <2> QED BY <1>2, <2>1, RecoverKeepsCharges DEF Start, HandlerPanicked
<1>3. ASSUME NEW now \in Times, NEW wall \in Times,
             ReserveStartup(now, wall) \/ ReserveNext(now, wall)
      PROVE  ChargesKept /\ MarkInv'
  BY <1>3, ReserveKeepsCharges DEF ReserveStartup, ReserveNext, Scopes
<1> QED BY <1>1, <1>2, <1>3, LedgerWriters, SettleKeepsCharges

\* "Credits are never refunded", over every restart, panic and clock jump.
THEOREM CreditsNeverRefunded == Spec => ChargesNeverRefunded
<1>1. Init => MarkInv
  BY DEF Init, MarkInv
<1>2. BudgetInv /\ MarkInv /\ [Next]_vars => MarkInv'
  BY ChargesStep
<1>3. BudgetInv /\ MarkInv /\ [Next]_vars => [ChargesKept]_vars
  BY ChargesStep
<1> QED BY <1>1, <1>2, <1>3, BudgetInvariant, PTL DEF Spec, ChargesNeverRefunded

-----------------------------------------------------------------------------
(***************************************************************************)
(* One work window per turn.                                               *)
(***************************************************************************)

\* A window that opens no earlier and closes no later than its turn.
Anchored(s) ==
  /\ anchor.wall <= win[s].high
  /\ win[s].wallDeadline <= anchor.wall + Work
  /\ win[s].deadline <= anchor.elapsed + Work

\* Where the turn stands decides which windows are anchored: the step's own
\* window is wider than the turn until construction hands over its deadlines.
TurnInv ==
  /\ phase = "reserveStartup" => ~built /\ ~Active("startup")
  /\ phase = "reserveNext" => (Active("startup") <=> ~built)
  /\ phase = "running" /\ ~built => Active("startup")
  /\ phase \in {"reserveStartup", "reserveNext"} => attempt = NoClocks
  /\ phase = "reserveNext" /\ ~built => started # 0 /\ anchor.wall <= highWater
  /\ phase \in {"reserveNext", "running"} /\ ~built => Anchored("startup")
  /\ phase = "running" /\ built => Anchored("next")

WorkInv == TurnInv /\ OneWorkWindow

LEMMA ClockTypes ==
  ASSUME TypeOK
  PROVE  /\ anchor.wall \in Nat /\ anchor.elapsed \in Nat /\ Work \in Nat
         /\ attempt.wall \in Nat /\ attempt.elapsed \in Nat /\ elapsed \in Nat
         /\ \A s \in Scopes : /\ win[s].high \in Nat /\ win[s].wallDeadline \in Nat
                              /\ win[s].deadline \in Int
  BY LengthsAssumption DEF TypeOK, Clocks, Windows

\* A window is anchored at the reservation that opened it.
LEMMA NewWindowAnchored ==
  ASSUME TypeOK, NEW s \in Scopes, NEW now \in Nat, NEW wall \in Nat, NEW expires \in Nat
  PROVE  LET w == NewWindow(s, now, wall, expires)
         IN  /\ w.token # 0 /\ w.high = now /\ w.wallDeadline <= now + Work
             /\ w.deadline <= elapsed + Work
  BY LengthsAssumption DEF NewWindow, Minimum, TypeOK

\* Outside a turn's two middle phases only its last attempt is remembered.
LEMMA TurnOver ==
  ASSUME WorkInv, UNCHANGED observed, phase' \in {"down", "idle", "settling"}
  PROVE  WorkInv'
  BY DEF WorkInv, TurnInv, OneWorkWindow, observed

LEMMA WorkStep ==
  ASSUME BudgetInv, TypeOK', WorkInv, [Next]_vars
  PROVE  WorkInv'
<1> USE DEF WorkInv
<1>0. TypeOK /\ "startup" \in Scopes /\ "next" \in Scopes
  BY DEF BudgetInv, Scopes
<1>1. ASSUME NEW now \in Times, Start(now) \/ HandlerDone(now) \/ HandlerPanicked(now)
      PROVE  WorkInv'
  BY <1>1, TurnOver DEF Start, HandlerDone, HandlerPanicked, BeginSettle
<1>2. ASSUME NEW now \in Times, NEW wall \in Times, NEW s \in Scopes,
             ReserveRefused(s, now, wall)
      PROVE  WorkInv'
  BY <1>2, TurnOver DEF ReserveRefused, BeginSettle
<1>3. ASSUME NEW now \in Times, Claim(now) PROVE WorkInv'
  <2>1. ~Active("startup")
    BY <1>0, <1>3 DEF Claim, BudgetInv, WindowInv
  <2> QED BY <1>3, <2>1 DEF Claim, TurnInv, OneWorkWindow, Active
<1>4. ASSUME NEW now \in Times, NEW wall \in Times, ReserveStartup(now, wall) PROVE WorkInv'
  <2>1. now \in Nat /\ now # 0 /\ wall \in Nat /\ Midnight(now) \in Nat
    BY TimesAssumption, DayBounds
  <2>2. LET w == NewWindow("startup", now, wall, Midnight(now))
        IN  /\ w.token # 0 /\ w.high = now /\ w.wallDeadline <= now + Work
            /\ w.deadline <= elapsed + Work
    BY <1>0, <2>1, NewWindowAnchored
  <2>3. /\ win'["startup"] = NewWindow("startup", now, wall, Midnight(now))
        /\ anchor' = [wall |-> now, elapsed |-> elapsed]
        /\ phase' = "reserveNext" /\ built' = built /\ ~built
        /\ attempt' = attempt /\ attempt = NoClocks
        /\ highWater' = now /\ started' # 0
    BY <1>0, <1>4, <2>1 DEF ReserveStartup, ReserveCommit, TypeOK, TurnInv
  <2>4. Anchored("startup")' /\ Active("startup")'
    BY <2>1, <2>2, <2>3 DEF Anchored, Active
  <2> QED BY <2>1, <2>3, <2>4 DEF TurnInv, OneWorkWindow
<1>5. ASSUME NEW now \in Times, NEW wall \in Times, ReserveNext(now, wall) PROVE WorkInv'
  <2>1. now \in Nat /\ wall \in Nat /\ Minimum(Midnight(now), lease) \in Nat
    BY <1>0, TimesAssumption, DayBounds DEF Minimum, TypeOK
  <2> DEFINE next == NewWindow("next", now, wall, Minimum(Midnight(now), lease))
  <2>2. /\ next.token # 0 /\ next.high = now /\ next.wallDeadline <= now + Work
        /\ next.deadline <= elapsed + Work
    BY <1>0, <2>1, NewWindowAnchored
  <2> HIDE DEF next
  <2>3. /\ win' = [win EXCEPT !["next"] = next,
                              !["startup"].high = IF Active("startup") THEN now ELSE @]
        /\ anchor' = IF Active("startup") THEN anchor ELSE [wall |-> now, elapsed |-> elapsed]
        /\ phase' = "running" /\ built' = built /\ phase = "reserveNext"
        /\ attempt' = attempt /\ attempt = NoClocks
    BY <1>5 DEF ReserveNext, TurnInv, next
  <2>4. CASE built
    <3>1. win'["next"] = next /\ anchor' = [wall |-> now, elapsed |-> elapsed]
      BY <1>0, <2>3, <2>4 DEF TurnInv, TypeOK
    <3>2. Anchored("next")'
      BY <2>1, <2>2, <3>1 DEF Anchored
    <3> QED BY <2>3, <2>4, <3>2 DEF TurnInv, OneWorkWindow
  <2>5. CASE ~built
    <3>1. Active("startup") /\ Anchored("startup") /\ started # 0 /\ anchor.wall <= highWater
      BY <2>3, <2>5 DEF TurnInv
    <3>2. highWater <= now
      BY <1>0, <1>5, <3>1, ReserveGranted DEF ReserveNext, BudgetInv
    <3>3. /\ anchor' = anchor /\ win'["startup"].token = win["startup"].token
          /\ win'["startup"].high = now
          /\ win'["startup"].wallDeadline = win["startup"].wallDeadline
          /\ win'["startup"].deadline = win["startup"].deadline
      BY <1>0, <2>3, <3>1 DEF TypeOK, Windows, Scopes
    <3>4. Anchored("startup")' /\ Active("startup")'
      BY <1>0, <2>1, <3>1, <3>2, <3>3, ClockTypes DEF Anchored, Active, TypeOK
    <3> QED BY <2>3, <2>5, <3>4 DEF TurnInv, OneWorkWindow
  <2> QED BY <2>4, <2>5
<1>6. ASSUME NEW s \in Scopes, NEW wall \in Times, Permit(s, wall) PROVE WorkInv'
  <2>1. /\ phase = "running" /\ s = (IF built THEN "next" ELSE "startup")
        /\ UNCHANGED <<phase, built, anchor, elapsed>>
        /\ win' = [win EXCEPT ![s] = Counted(win[s], wall)]
        /\ attempt' = [wall |-> wall, elapsed |-> elapsed]
        /\ wall >= win[s].high /\ wall < win[s].wallDeadline /\ elapsed < win[s].deadline
    BY <1>6 DEF Permit, Using, Fence
  <2>2. Anchored(s) /\ wall \in Nat
    BY <2>1, TimesAssumption DEF TurnInv
  <2>3. /\ win'[s].high = wall /\ win'[s].wallDeadline = win[s].wallDeadline
        /\ win'[s].deadline = win[s].deadline /\ win'[s].token = win[s].token
    BY <1>0, <2>1 DEF TypeOK, Windows, Counted
  <2>4. Anchored(s)' /\ (Active(s)' <=> Active(s))
    BY <1>0, <2>1, <2>2, <2>3, ClockTypes DEF Anchored, Active
  <2>5. OneWorkWindow'
    BY <1>0, <2>1, <2>2, ClockTypes DEF Anchored, OneWorkWindow
  <2> QED BY <2>1, <2>4, <2>5 DEF TurnInv
<1>7. ASSUME NEW s \in Scopes, NEW wall \in Times, PermitRefused(s, wall) PROVE WorkInv'
  <2>1. /\ phase = "running" /\ s = (IF built THEN "next" ELSE "startup")
        /\ UNCHANGED <<phase, built, anchor, attempt>>
        /\ win' = [win EXCEPT ![s].high = Maximum(@, wall)]
    BY <1>7 DEF PermitRefused, Using, observed
  <2>2. Anchored(s) /\ wall \in Nat
    BY <2>1, TimesAssumption DEF TurnInv
  <2>3. /\ win'[s].high >= win[s].high /\ win'[s].wallDeadline = win[s].wallDeadline
        /\ win'[s].high \in Nat
        /\ win'[s].deadline = win[s].deadline /\ win'[s].token = win[s].token
    BY <1>0, <2>1, <2>2 DEF TypeOK, Windows, Maximum
  <2>4. Anchored(s)' /\ (Active(s)' <=> Active(s))
    BY <1>0, <2>1, <2>2, <2>3, ClockTypes DEF Anchored, Active
  <2> QED BY <2>1, <2>4 DEF TurnInv, OneWorkWindow
<1>8. CASE Construct
  <2>1. /\ phase = "running" /\ ~built /\ built' /\ UNCHANGED <<phase, anchor, attempt>>
        /\ win' = [win EXCEPT !["next"] = Inherit(win["next"], win["startup"])]
    BY <1>8 DEF Construct, observed
  <2>2. Anchored("startup")
    BY <2>1 DEF TurnInv
  <2>3. /\ win'["next"].high >= win["startup"].high
        /\ win'["next"].wallDeadline <= win["startup"].wallDeadline
        /\ win'["next"].deadline <= win["startup"].deadline
    BY <1>0, <2>1 DEF TypeOK, Windows, Inherit, Maximum, Minimum
  <2>4. Anchored("next")'
    <3>1. /\ win'["next"].high \in Nat /\ win'["next"].wallDeadline \in Nat
          /\ win'["next"].deadline \in Int
      BY <1>0 DEF TypeOK, Windows
    <3> QED BY <1>0, <2>1, <2>2, <2>3, <3>1, ClockTypes DEF Anchored
  <2> QED BY <2>1, <2>4 DEF TurnInv, OneWorkWindow
<1>9. CASE UNCHANGED vars \/ ElapsedTick
  BY <1>9 DEF vars, ElapsedTick, ledger, process, observed, TurnInv, OneWorkWindow, Anchored, Active
<1>10. ASSUME NEW s \in Scopes, Settle(s) PROVE WorkInv'
  BY <1>10, TurnOver DEF Settle, Settling
<1>11. CASE Halt
  BY <1>11 DEF Halt, TurnInv, OneWorkWindow
<1>12. CASE Settled \/ Crash
  BY <1>11, <1>12, TurnOver DEF Settled, Crash
<1> QED
  BY <1>1, <1>2, <1>3, <1>4, <1>5, <1>6, <1>7, <1>8, <1>9, <1>10, <1>12 DEF Next

\* Construction and the step share one work window on both clocks, although
\* each has a reservation and deadlines of its own.
THEOREM WorkWindowShared == Spec => []OneWorkWindow
<1>1. Init => WorkInv
  BY DEF Init, WorkInv, TurnInv, OneWorkWindow
<1>2. BudgetInv /\ BudgetInv' /\ WorkInv /\ [Next]_vars => WorkInv'
  BY WorkStep DEF BudgetInv
<1>3. WorkInv => OneWorkWindow
  BY DEF WorkInv
<1> QED BY <1>1, <1>2, <1>3, BudgetInvariant, PTL DEF Spec

=============================================================================
