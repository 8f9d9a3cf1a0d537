------------------------- MODULE WorkerPolicyProofs -------------------------
(***************************************************************************)
(* Two policies that the worker loop asks before it lets a turn do work.   *)
(*                                                                         *)
(* First the state sampler: its slot and the screening of a claimed        *)
(* source, proved for every length of the windows and every number of      *)
(* turns and tickets.  Then the CPU charges: the saved rows are readable   *)
(* and work starts only as they allow, proved for every length of the      *)
(* slots, every limit, clock, CPU time and number of sessions.             *)
(***************************************************************************)
EXTENDS StateSampler, CPUCharges, FiniteSetTheorems, TLAPS

-----------------------------------------------------------------------------
(*                     The state sampler (StateSampler)                    *)

-----------------------------------------------------------------------------
(* The inductive invariant.                                                *)

Pairs == [wall : Nat, elapsed : Nat]
Reasons == {"", "stopped", "refused"}
Findings == Reasons \cup {"usable"}
Phases == {"", "before_dispatch", "after_receipt"}
TicketSteps == {"free", "launched", "calling", "called", "returned", "done"}

TicketSet ==
  [at : TicketSteps, turn : Nat, phase : Phases, launch : Pairs, receipt : Pairs,
   deadline : Nat, cancelled : BOOLEAN, refusal : Reasons, found : Findings, seen : Nat,
   verdict : Findings, used : BOOLEAN]
EvidenceSet == [turn : Nat, phase : Phases, found : Findings, seen : Nat]
TurnSet ==
  [at : {"none", "sampling", "admitted", "reserved", "cleared"}, id : Nat,
   receipt : Pairs, source : BOOLEAN, samples : SUBSET EvidenceSet]

\* The types of the sampler's state.
SamplerTypeOK ==
  /\ elapsed \in Nat /\ high \in Nat /\ turns \in Nat
  /\ slot \in Tickets \cup {None} /\ retry \in Pairs
  /\ tickets \in [Tickets -> TicketSet]
  /\ turn \in TurnSet
  /\ loop \in [at : {"idle", "asked", "refusing"}, reason : Reasons]

\* Every ticket that is not the slot's is a free one.
OneSlot ==
  /\ slot # None => tickets[slot].at # "free"
  /\ \A n \in Tickets : n # slot => tickets[n] = NoTicket

\* What holds of a single ticket: the verdict comes after the callback, a
\* refusal cancels the context, a usable verdict is what the callback found,
\* after the launch.
TicketSound(t) ==
  /\ t.at \in {"launched", "calling", "called"} => t.verdict = ""
  /\ t.refusal # "" => t.cancelled
  /\ t.verdict = "usable" => t.refusal = "" /\ t.found = "usable"
  /\ t.launch.elapsed <= elapsed
  /\ t.found = "usable" => t.launch.elapsed <= t.seen /\ t.seen <= elapsed
TicketsSound == \A n \in Tickets : TicketSound(tickets[n])

\* The debt that a ticket leaves.
Owed(t) ==
  IF t.refusal = "" THEN NoPair
  ELSE Pair(t.launch.wall + RetryInterval, t.launch.elapsed + RetryInterval)
DebtKept == slot # None => retry = Owed(tickets[slot])

\* The ticket in the slot is the one the turn waits for.
Awaits(t) ==
  /\ t.turn = turn.id /\ t.phase = Phase
  /\ turn.receipt # NoPair => turn.receipt.elapsed <= t.launch.elapsed
Awaited ==
  /\ turn.at = "sampling" => slot # None /\ Awaits(tickets[slot])
  /\ loop.at # "idle" => turn.at = "sampling"

Good(s, phase) == s.turn = turn.id /\ s.found = "usable" /\ s.phase = phase
SeenBefore(limit) == \E s \in turn.samples : Good(s, "before_dispatch") /\ s.seen <= limit
SeenAfter == \E s \in turn.samples : Good(s, "after_receipt") /\ s.seen >= turn.receipt.elapsed

\* What a turn has seen by the time it is admitted, reserved and cleared.
TurnScreened ==
  /\ turn.at = "admitted" => turn.receipt = NoPair /\ SeenBefore(elapsed)
  /\ turn.at \in {"reserved", "cleared"} => turn.receipt # NoPair
  /\ turn.receipt # NoPair => SeenBefore(turn.receipt.elapsed)
  /\ turn.receipt.elapsed <= elapsed
  /\ turn.at = "cleared" /\ turn.source => SeenAfter

SlotPart == OneSlot /\ TicketsSound /\ DebtKept
TurnPart == Awaited /\ TurnScreened
SamplerInv == SamplerTypeOK /\ SlotPart /\ TurnPart /\ SourceScreened

-----------------------------------------------------------------------------
(* A move of the slot's ticket.                                            *)

\* The step replaces the ticket in the slot by u, the same sample further on.
SameSample(t, u) ==
  u.turn = t.turn /\ u.phase = t.phase /\ u.launch = t.launch /\ u.receipt = t.receipt
Moves(u) ==
  /\ slot # None /\ slot' = slot
  /\ tickets' = [tickets EXCEPT ![slot] = u]
  /\ u \in TicketSet /\ u.at # "free" /\ SameSample(tickets[slot], u)
  /\ elapsed' = elapsed
TicketMoves ==
  \/ UNCHANGED <<elapsed, slot, tickets, retry>>
  \/ \E u \in TicketSet : Moves(u) /\ TicketSound(u) /\ retry' = Owed(u)

\* A ticket that no sample has is sound.
LEMMA EmptyTicket ==
  ASSUME SamplerTypeOK
  PROVE  NoTicket \in TicketSet /\ TicketSound(NoTicket) /\ NoTicket.at = "free"
  <1>1. NoPair \in Pairs /\ NoPair.elapsed = 0
    BY DEF NoPair, Pair, Pairs
  <1>2. NoTicket \in TicketSet
    BY <1>1 DEF NoTicket, TicketSet, TicketSteps, Phases, Reasons, Findings
  <1>3. /\ NoTicket.at = "free" /\ NoTicket.verdict = "" /\ NoTicket.refusal = ""
        /\ NoTicket.found = "" /\ NoTicket.launch = NoPair
    BY DEF NoTicket
  <1>4. NoTicket.launch.elapsed <= elapsed
    <2>1. NoTicket.launch.elapsed = 0
      BY <1>1, <1>3
    <2>2. elapsed \in Nat
      BY DEF SamplerTypeOK
    <2> QED BY <2>1, <2>2
  <1>5. TicketSound(NoTicket)
    BY <1>3, <1>4 DEF TicketSound
  <1> QED BY <1>2, <1>3, <1>5

\* recordFailureLocked changes the refusal and the context, once.
LEMMA FailedTicket ==
  ASSUME NEW t \in TicketSet, NEW reason \in Reasons
  PROVE  /\ Failed(t, reason) \in TicketSet
         /\ SameSample(t, Failed(t, reason))
         /\ Failed(t, reason).refusal = FirstReason(t.refusal, reason)
         /\ Failed(t, reason).at = t.at /\ Failed(t, reason).found = t.found
         /\ Failed(t, reason).seen = t.seen /\ Failed(t, reason).verdict = t.verdict
         /\ t.refusal # "" => Failed(t, reason) = t
         /\ t.refusal = "" /\ reason # "" => Failed(t, reason).cancelled
         /\ reason = "" => Failed(t, reason) = t
  <1>1. CASE t.refusal # "" \/ reason = ""
    BY <1>1 DEF Failed, SameSample, FirstReason
  <1>2. CASE ~(t.refusal # "" \/ reason = "")
    BY <1>2 DEF Failed, SameSample, FirstReason, TicketSet
  <1> QED BY <1>1, <1>2

\* The debt after a failure is the one the failed ticket leaves.
LEMMA FailedDebt ==
  ASSUME NEW t \in TicketSet, NEW reason \in Reasons, retry = Owed(t)
  PROVE  Debt(t, reason) = Owed(Failed(t, reason))
  <1>1. CASE t.refusal # "" \/ reason = ""
    BY <1>1, FailedTicket DEF Debt
  <1>2. CASE t.refusal = "" /\ reason # ""
    <2>0. Failed(t, reason).refusal = FirstReason(t.refusal, reason) /\ SameSample(t, Failed(t, reason))
      BY FailedTicket
    <2>1. Failed(t, reason).refusal # "" /\ Failed(t, reason).launch = t.launch
      BY <1>2, <2>0 DEF FirstReason, SameSample
    <2> QED BY <1>2, <2>1 DEF Debt, Owed
  <1> QED BY <1>1, <1>2

\* A failure leaves a ticket sound unless its callback has returned.
LEMMA FailedSound ==
  ASSUME NEW t \in TicketSet, NEW reason \in Reasons, TicketSound(t),
         Returned(t) => reason = ""
  PROVE  TicketSound(Failed(t, reason))
  <1>1. CASE reason = ""
    BY <1>1, FailedTicket
  <1>2. CASE reason # ""
    BY <1>2, FailedTicket DEF TicketSound, SameSample, FirstReason, Returned
  <1> QED BY <1>1, <1>2

\* A move of the slot's ticket keeps the part of the invariant about the slot.
LEMMA MovesKeepSlot ==
  ASSUME SamplerTypeOK, SlotPart, TicketMoves
  PROVE  /\ SlotPart'
         /\ (slot \in Tickets \cup {None} /\ retry \in Pairs /\ tickets \in [Tickets -> TicketSet])'
         /\ slot # None => SameSample(tickets[slot], tickets'[slot])
  <1>1. CASE UNCHANGED <<elapsed, slot, tickets, retry>>
    BY <1>1 DEF SlotPart, OneSlot, TicketsSound, TicketSound, DebtKept, SamplerTypeOK, SameSample
  <1>2. CASE \E u \in TicketSet : Moves(u) /\ TicketSound(u) /\ retry' = Owed(u)
    <2> PICK u \in TicketSet : Moves(u) /\ TicketSound(u) /\ retry' = Owed(u)
      BY <1>2
    <2>1. slot \in Tickets /\ tickets'[slot] = u /\ slot' = slot /\ elapsed' = elapsed
      BY DEF Moves, SamplerTypeOK
    <2>2. \A n \in Tickets : n # slot => tickets'[n] = tickets[n]
      BY DEF Moves, SamplerTypeOK
    <2>3. TicketSound(u)'
      BY <2>1 DEF TicketSound
    <2>4. TicketsSound'
      BY <2>1, <2>2, <2>3, ZenonT(30) DEF SlotPart, TicketsSound, TicketSound
    <2>5. OneSlot'
      BY <2>1, <2>2 DEF SlotPart, OneSlot, Moves
    <2>6. DebtKept'
      BY <2>1 DEF DebtKept
    <2>7. Owed(u) \in Pairs
      <3>1. u.launch.wall \in Nat /\ u.launch.elapsed \in Nat
        BY DEF TicketSet, Pairs
      <3>2. /\ u.launch.wall + RetryInterval \in Nat
            /\ u.launch.elapsed + RetryInterval \in Nat
        BY <3>1, WindowsAssumption
      <3> QED BY <3>2 DEF Owed, Pair, NoPair, Pairs
    <2>8. (slot \in Tickets \cup {None} /\ retry \in Pairs /\ tickets \in [Tickets -> TicketSet])'
      BY <2>1, <2>7 DEF SamplerTypeOK, Moves
    <2> QED BY <2>1, <2>4, <2>5, <2>6, <2>8 DEF SlotPart, Moves
  <1> QED BY <1>1, <1>2 DEF TicketMoves

\* A turn whose ticket moves on still waits for it.
LEMMA MovesKeepTurn ==
  ASSUME SamplerTypeOK, SlotPart, TurnPart, TicketMoves, UNCHANGED turn,
         loop'.at # "idle" => turn.at = "sampling"
  PROVE  TurnPart'
  <1>1. slot' = slot /\ elapsed' = elapsed
    BY DEF TicketMoves, Moves
  <1>2. turn.at = "sampling" => slot # None /\ Awaits(tickets[slot])'
    <2>1. turn.at = "sampling" => slot # None /\ Awaits(tickets[slot])
      BY DEF TurnPart, Awaited
    <2>2. slot # None => SameSample(tickets[slot], tickets'[slot])
      BY MovesKeepSlot
    <2> QED BY <1>1, <2>1, <2>2 DEF Awaits, SameSample, Phase
  <1>3. Awaited'
    BY <1>1, <1>2 DEF TurnPart, Awaited
  <1>4. TurnScreened'
    BY <1>1 DEF TurnPart, TurnScreened, SeenBefore, SeenAfter, Good
  <1> QED BY <1>3, <1>4 DEF TurnPart

\* No turn and an idle loop need nothing of the slot.
LEMMA NoTurnSound ==
  ASSUME elapsed \in Nat
  PROVE  NoTurn \in TurnSet /\ (turn = NoTurn /\ loop.at = "idle" => TurnPart)
  <1>1. NoPair \in Pairs /\ NoPair.elapsed = 0
    BY DEF NoPair, Pair, Pairs
  <1>2. NoTurn \in TurnSet
    BY <1>1 DEF NoTurn, TurnSet
  <1>3. NoTurn.at = "none" /\ NoTurn.receipt = NoPair
    BY DEF NoTurn
  <1>4. NoTurn.receipt.elapsed <= elapsed
    BY <1>1, <1>3
  <1> QED BY <1>2, <1>3, <1>4 DEF TurnPart, Awaited, TurnScreened

\* abandonLocked moves the slot's ticket or nothing.
LEMMA FailMoves ==
  ASSUME SamplerTypeOK, SlotPart, slot # None, NEW reason \in Reasons,
         Returned(tickets[slot]) => reason = "",
         RecordFailure(slot, reason), UNCHANGED <<elapsed, slot>>
  PROVE  TicketMoves
  <1> DEFINE t == tickets[slot]
             u == Failed(t, reason)
  <1>1. t \in TicketSet /\ TicketSound(t) /\ retry = Owed(t) /\ t.at # "free"
    BY DEF SamplerTypeOK, SlotPart, TicketsSound, DebtKept, OneSlot
  <1>2. u \in TicketSet /\ SameSample(t, u) /\ u.at = t.at
    BY <1>1, FailedTicket
  <1>3. TicketSound(u)
    BY <1>1, FailedSound
  <1>4. retry' = Owed(u)
    BY <1>1, FailedDebt DEF RecordFailure
  <1>5. tickets' = [tickets EXCEPT ![slot] = u]
    BY DEF RecordFailure
  <1> QED BY <1>1, <1>2, <1>3, <1>4, <1>5 DEF TicketMoves, Moves

LEMMA AbandonMoves ==
  ASSUME SamplerTypeOK, SlotPart, AbandonIntent, UNCHANGED <<elapsed, slot>>
  PROVE  TicketMoves
  <1>1. CASE slot # None /\ Mine(tickets[slot]) /\ ~Returned(tickets[slot])
    BY <1>1, FailMoves DEF AbandonIntent, Reasons
  <1>2. CASE ~(slot # None /\ Mine(tickets[slot]) /\ ~Returned(tickets[slot]))
    BY <1>2 DEF AbandonIntent, TicketMoves
  <1> QED BY <1>1, <1>2

\* A context that is cancelled besides leaves a sound ticket sound.
LEMMA CancelledTicket ==
  ASSUME NEW t \in TicketSet, TicketSound(t)
  PROVE  LET u == [t EXCEPT !.cancelled = TRUE]
         IN /\ u \in TicketSet /\ SameSample(t, u) /\ TicketSound(u)
            /\ u.at = t.at /\ Owed(u) = Owed(t)
  <1> DEFINE u == [t EXCEPT !.cancelled = TRUE]
  <1>1. /\ u \in TicketSet /\ SameSample(t, u) /\ u.cancelled /\ u.at = t.at
        /\ u.refusal = t.refusal /\ u.verdict = t.verdict /\ u.found = t.found /\ u.seen = t.seen
    BY DEF TicketSet, SameSample
  <1> HIDE DEF u
  <1>2. TicketSound(u)
    BY <1>1 DEF TicketSound, SameSample
  <1>3. Owed(u) = Owed(t)
    BY <1>1 DEF Owed, SameSample
  <1> QED BY <1>1, <1>2, <1>3 DEF u

\* A ticket that is refused if it has not returned, then perhaps cancelled.
LEMMA RefusedMoves ==
  ASSUME SamplerTypeOK, SlotPart, slot # None, UNCHANGED <<elapsed, slot>>,
         NEW refused \in BOOLEAN, NEW cancelled \in BOOLEAN,
         refused => ~Returned(tickets[slot]),
         LET t == tickets[slot]
             kept == IF refused THEN Failed(t, "stopped") ELSE t
         IN /\ tickets' = [tickets EXCEPT ![slot] =
                              IF cancelled THEN [kept EXCEPT !.cancelled = TRUE] ELSE kept]
            /\ retry' = IF refused THEN Debt(t, "stopped") ELSE retry
  PROVE  TicketMoves
  <1> DEFINE t == tickets[slot]
             kept == IF refused THEN Failed(t, "stopped") ELSE t
             u == IF cancelled THEN [kept EXCEPT !.cancelled = TRUE] ELSE kept
  <1>1. t \in TicketSet /\ TicketSound(t) /\ retry = Owed(t) /\ t.at # "free"
    BY DEF SamplerTypeOK, SlotPart, TicketsSound, DebtKept, OneSlot
  <1>2. /\ kept \in TicketSet /\ SameSample(t, kept) /\ TicketSound(kept) /\ kept.at = t.at
        /\ (IF refused THEN Debt(t, "stopped") ELSE retry) = Owed(kept)
    <2>1. CASE refused
      <3>1. "stopped" \in Reasons
        BY DEF Reasons
      <3> QED BY <1>1, <2>1, <3>1, FailedTicket, FailedSound, FailedDebt
    <2>2. CASE ~refused
      BY <1>1, <2>2 DEF SameSample
    <2> QED BY <2>1, <2>2
  <1>3. tickets' = [tickets EXCEPT ![slot] = u] /\ retry' = Owed(kept)
    BY <1>2
  <1> HIDE DEF kept
  <1>4. u \in TicketSet /\ SameSample(kept, u) /\ TicketSound(u) /\ u.at = kept.at /\ Owed(u) = Owed(kept)
    <2>1. CASE cancelled
      BY <1>2, <2>1, CancelledTicket
    <2>2. CASE ~cancelled
      BY <1>2, <2>2 DEF SameSample
    <2> QED BY <2>1, <2>2
  <1> HIDE DEF u
  <1>5. SameSample(t, u)
    BY <1>2, <1>4 DEF SameSample
  <1>6. Moves(u) /\ TicketSound(u) /\ retry' = Owed(u)
    BY <1>1, <1>2, <1>3, <1>4, <1>5 DEF Moves
  <1> QED BY <1>4, <1>6 DEF TicketMoves

LEMMA GiveUpMoves ==
  ASSUME SamplerTypeOK, SlotPart, GiveUp, UNCHANGED <<elapsed, slot>>
  PROVE  TicketMoves /\ turn' = NoTurn
  <1>1. CASE slot # None /\ Mine(tickets[slot])
    <2> DEFINE refused == ~Returned(tickets[slot])
               cancelled == tickets[slot].phase = "after_receipt"
    <2>1. LET t == tickets[slot]
              kept == IF refused THEN Failed(t, "stopped") ELSE t
          IN /\ tickets' = [tickets EXCEPT ![slot] =
                              IF cancelled THEN [kept EXCEPT !.cancelled = TRUE] ELSE kept]
             /\ retry' = IF refused THEN Debt(t, "stopped") ELSE retry
      BY <1>1 DEF GiveUp
    <2>2. refused \in BOOLEAN /\ cancelled \in BOOLEAN /\ (refused => ~Returned(tickets[slot]))
      OBVIOUS
    <2> HIDE DEF refused, cancelled
    <2> QED BY <1>1, <2>1, <2>2, RefusedMoves DEF GiveUp
  <1>2. CASE ~(slot # None /\ Mine(tickets[slot]))
    BY <1>2 DEF GiveUp, TicketMoves
  <1> QED BY <1>1, <1>2

-----------------------------------------------------------------------------
(* The start of a sample.                                                  *)

LEMMA NewTicketSound ==
  ASSUME SamplerTypeOK, NEW id \in Nat, NEW phase \in Phases, NEW wall \in Nat,
         NEW receipt \in Pairs
  PROVE  LET t == NewTicket(id, phase, wall, receipt)
         IN /\ t \in TicketSet /\ TicketSound(t) /\ t.at = "launched" /\ Owed(t) = NoPair
            /\ t.turn = id /\ t.phase = phase /\ t.launch.elapsed = elapsed
  <1> DEFINE deadline == IF receipt = NoPair THEN elapsed + SampleWindow
                         ELSE Earlier(elapsed + SampleWindow, receipt.elapsed + ClaimWindow)
             t == NewTicket(id, phase, wall, receipt)
             launch == Pair(wall, elapsed)
  <1>0. elapsed \in Nat
    BY DEF SamplerTypeOK
  <1>1. deadline \in Nat
    BY <1>0, WindowsAssumption DEF Earlier, Pairs
  <1>2. launch \in Pairs /\ launch.elapsed = elapsed
    BY <1>0 DEF Pair, Pairs
  <1>3. /\ NoTicket.verdict = "" /\ NoTicket.refusal = "" /\ NoTicket.found = ""
        /\ NoTicket \in TicketSet
    BY EmptyTicket DEF NoTicket
  <1>4. t = [NoTicket EXCEPT !.at = "launched", !.turn = id, !.phase = phase,
                             !.launch = launch, !.receipt = receipt, !.deadline = deadline]
    BY DEF NewTicket
  <1> HIDE DEF deadline, t, launch
  <1>5. /\ t \in TicketSet /\ t.at = "launched" /\ t.turn = id /\ t.phase = phase
        /\ t.launch = launch /\ t.verdict = "" /\ t.refusal = "" /\ t.found = ""
    BY <1>1, <1>2, <1>3, <1>4 DEF TicketSet, TicketSteps
  <1>6. TicketSound(t)
    <2>0. t.launch.elapsed = elapsed
      BY <1>2, <1>5
    <2>1. t.launch.elapsed <= elapsed
      BY <1>0, <2>0
    <2> QED BY <1>5, <2>1 DEF TicketSound
  <1>7. Owed(t) = NoPair
    BY <1>5 DEF Owed
  <1> QED BY <1>2, <1>5, <1>6, <1>7 DEF t

\* startEligible: where the slot is free, the new sample is the only one.
LEMMA LaunchSound ==
  ASSUME SamplerTypeOK, SlotPart, SlotFree,
         NEW id \in Nat, NEW phase \in Phases, NEW wall \in Nat, NEW receipt \in Pairs,
         Launch(id, phase, wall, receipt), elapsed' = elapsed
  PROVE  /\ SlotPart'
         /\ slot' \in Tickets /\ retry' \in Pairs /\ tickets' \in [Tickets -> TicketSet]
         /\ tickets'[slot'].turn = id /\ tickets'[slot'].phase = phase
         /\ tickets'[slot'].launch.elapsed = elapsed
  <1> DEFINE t == NewTicket(id, phase, wall, receipt)
  <1>1. PICK n \in Tickets :
          /\ tickets[n].at = "free"
          /\ tickets' = [k \in Tickets |-> IF k = n THEN t
                                           ELSE IF Completed(tickets[k]) THEN NoTicket
                                           ELSE tickets[k]]
          /\ slot' = n /\ retry' = NoPair
    BY DEF Launch
  <1>2. /\ t \in TicketSet /\ TicketSound(t) /\ t.at = "launched" /\ Owed(t) = NoPair
        /\ t.turn = id /\ t.phase = phase /\ t.launch.elapsed = elapsed
    BY NewTicketSound
  <1> HIDE DEF t
  <1>3. NoPair \in Pairs
    BY DEF NoPair, Pair, Pairs
  <1>4. \A k \in Tickets : tickets'[k] = IF k = n THEN t ELSE NoTicket
    <2> TAKE k \in Tickets
    <2>1. k # n => tickets[k] = NoTicket \/ Completed(tickets[k])
      BY TicketsAssumption DEF SlotPart, OneSlot, SlotFree, SlotOccupied, None
    <2> QED BY <1>1, <2>1
  <1>5. tickets' \in [Tickets -> TicketSet]
    BY <1>1, <1>2, <1>4, EmptyTicket
  <1>6. OneSlot'
    BY <1>1, <1>2, <1>4 DEF OneSlot
  <1>7. TicketsSound'
    BY <1>2, <1>4, EmptyTicket DEF TicketsSound, TicketSound
  <1>8. DebtKept'
    BY <1>1, <1>2, <1>4 DEF DebtKept, Owed
  <1> QED BY <1>1, <1>2, <1>3, <1>4, <1>5, <1>6, <1>7, <1>8 DEF SlotPart

-----------------------------------------------------------------------------
(* The steps of the sampler.                                               *)

Loops == [at : {"idle", "asked", "refusing"}, reason : Reasons]

LEMMA CaptureType ==
  ASSUME SamplerTypeOK, NEW wall \in Walls
  PROVE  wall \in Nat /\ (Capture(wall) => high' \in Nat)
  BY BoundsAssumption DEF SamplerTypeOK, Capture, Walls

LEMMA ReasonTypes ==
  ASSUME NEW t \in TicketSet, NEW wall
  PROVE  /\ ContextReason(t) \in Reasons /\ ClockReason(wall) \in Reasons
         /\ WindowReason(t, wall) \in Reasons
         /\ t.refusal \in Reasons /\ t.verdict \in Findings /\ t.found \in Findings
         /\ \A a, b \in Reasons : FirstReason(a, b) \in Reasons
  BY DEF ContextReason, ClockReason, WindowReason, TicketSet, Reasons, Findings, FirstReason

\* A step that moves the slot's ticket, for a turn that stays as it is.
LEMMA QuietStep ==
  ASSUME SamplerInv, TicketMoves, high' \in Nat, loop' \in Loops,
         UNCHANGED <<turn, turns, claim>>, loop'.at # "idle" => turn.at = "sampling"
  PROVE  SamplerInv'
  <1>1. elapsed' = elapsed
    BY DEF TicketMoves, Moves
  <1>2. SlotPart' /\ (slot \in Tickets \cup {None} /\ retry \in Pairs /\ tickets \in [Tickets -> TicketSet])'
    BY MovesKeepSlot DEF SamplerInv
  <1>3. TurnPart'
    BY MovesKeepTurn DEF SamplerInv
  <1>4. SourceScreened'
    BY DEF SamplerInv, SourceScreened
  <1>5. SamplerTypeOK'
    BY <1>1, <1>2 DEF SamplerInv, SamplerTypeOK, Loops
  <1> QED BY <1>2, <1>3, <1>4, <1>5 DEF SamplerInv

\* A step that ends the turn.
LEMMA EndStep ==
  ASSUME SamplerInv, TicketMoves, high' \in Nat, loop' \in Loops, loop'.at = "idle",
         turn' = NoTurn, UNCHANGED turns, SourceScreened'
  PROVE  SamplerInv'
  <1>1. elapsed' = elapsed
    BY DEF TicketMoves, Moves
  <1>2. SlotPart' /\ (slot \in Tickets \cup {None} /\ retry \in Pairs /\ tickets \in [Tickets -> TicketSet])'
    BY MovesKeepSlot DEF SamplerInv
  <1>3. NoTurn \in TurnSet /\ (elapsed \in Nat)'
    BY <1>1, NoTurnSound DEF SamplerInv, SamplerTypeOK
  <1>4. ((elapsed \in Nat) => (turn = NoTurn /\ loop.at = "idle" => TurnPart))'
    BY NoTurnSound, PTL
  <1>5. SamplerTypeOK'
    BY <1>1, <1>2, <1>3 DEF SamplerInv, SamplerTypeOK, Loops
  <1> QED BY <1>2, <1>3, <1>4, <1>5 DEF SamplerInv

\* What the invariant says of the slot when there is one.
LEMMA SlotTicket ==
  ASSUME SamplerInv, slot # None
  PROVE  /\ slot \in Tickets /\ tickets[slot] \in TicketSet /\ TicketSound(tickets[slot])
         /\ retry = Owed(tickets[slot]) /\ tickets[slot].at # "free"
  BY DEF SamplerInv, SamplerTypeOK, SlotPart, TicketsSound, DebtKept, OneSlot

\* An observer works on the ticket in the slot.
LEMMA ObserverTicket ==
  ASSUME SamplerInv, NEW n \in Tickets, tickets[n].at # "free"
  PROVE  n = slot /\ slot # None
  BY TicketsAssumption, EmptyTicket DEF SamplerInv, SlotPart, OneSlot, None

LEMMA PassStep ==
  ASSUME SamplerInv, Pass
  PROVE  SamplerInv'
  <1>1. elapsed \in Nat /\ elapsed' \in Nat /\ elapsed <= elapsed'
    BY DEF SamplerInv, SamplerTypeOK, Pass
  <1>2. SamplerTypeOK'
    BY <1>1 DEF SamplerInv, SamplerTypeOK, Pass
  <1>3. OneSlot' /\ DebtKept'
    BY DEF SamplerInv, SlotPart, OneSlot, DebtKept, Pass
  <1>4. TicketsSound'
    <2> SUFFICES ASSUME NEW n \in Tickets PROVE TicketSound(tickets[n])'
      BY DEF TicketsSound
    <2> DEFINE t == tickets[n]
    <2>1. TicketSound(t) /\ t.launch.elapsed \in Nat /\ t.seen \in Nat
      BY DEF SamplerInv, SamplerTypeOK, SlotPart, TicketsSound, TicketSet, Pairs
    <2>2. tickets'[n] = t
      BY DEF Pass
    <2> HIDE DEF t
    <2>3. t.launch.elapsed <= elapsed
      BY <2>1 DEF TicketSound
    <2>4. t.launch.elapsed <= elapsed' /\ (t.seen <= elapsed => t.seen <= elapsed')
      BY <1>1, <2>1, <2>3
    <2> QED BY <2>1, <2>2, <2>4 DEF TicketSound
  <1>5. Awaited'
    BY DEF SamplerInv, TurnPart, Awaited, Awaits, Phase, Pass
  <1>6. TurnScreened'
    <2>1. turn.receipt.elapsed \in Nat /\ turn.samples \subseteq EvidenceSet
      BY DEF SamplerInv, SamplerTypeOK, TurnSet, Pairs
    <2>2. turn.receipt.elapsed <= elapsed'
      BY <1>1, <2>1 DEF SamplerInv, TurnPart, TurnScreened
    <2>3. SeenBefore(elapsed) => SeenBefore(elapsed')
      BY <1>1, <2>1 DEF SeenBefore, EvidenceSet
    <2> QED BY <2>2, <2>3 DEF SamplerInv, TurnPart, TurnScreened, Pass, SeenBefore, SeenAfter, Good
  <1>7. SourceScreened'
    BY DEF SamplerInv, SourceScreened, Pass
  <1> QED BY <1>2, <1>3, <1>4, <1>5, <1>6, <1>7 DEF SamplerInv, SlotPart, TurnPart

LEMMA AskStep ==
  ASSUME SamplerInv, NEW wall \in Walls, Ask(wall)
  PROVE  SamplerInv'
  <1>1. high' \in Nat
    BY CaptureType DEF SamplerInv, Ask
  <1>2. slot # None /\ turn.at = "sampling"
    BY DEF SamplerInv, TurnPart, Awaited, Ask
  <1>3. loop' \in Loops
    <2> DEFINE t == tickets[slot]
               reason == FirstReason(t.refusal, FirstReason(ContextReason(t),
                           FirstReason(ClockReason(wall), WindowReason(t, wall))))
    <2>1. reason \in Reasons
      BY <1>2, SlotTicket, ReasonTypes
    <2>2. \/ loop' = [at |-> "asked", reason |-> ""]
          \/ loop' = [at |-> "refusing", reason |-> reason]
      BY DEF Ask
    <2> HIDE DEF reason
    <2>3. "" \in Reasons
      BY DEF Reasons
    <2>4. \A r \in Reasons : [at |-> "asked", reason |-> r] \in Loops /\ [at |-> "refusing", reason |-> r] \in Loops
      BY DEF Loops
    <2> QED BY <2>1, <2>2, <2>3, <2>4
  <1>4. TicketMoves /\ UNCHANGED <<turn, turns, claim>>
    BY DEF Ask, TicketMoves
  <1> QED BY <1>1, <1>2, <1>3, <1>4, QuietStep

LEMMA RefuseStep ==
  ASSUME SamplerInv, Refuse
  PROVE  SamplerInv'
  <1>1. slot # None /\ turn.at = "sampling"
    BY DEF SamplerInv, TurnPart, Awaited, Refuse
  <1>2. /\ Denied(tickets[slot], loop.reason) \in Reasons
        /\ Returned(tickets[slot]) => Denied(tickets[slot], loop.reason) = ""
    BY DEF SamplerInv, SamplerTypeOK, Denied, Reasons
  <1>3. TicketMoves
    BY <1>1, <1>2, FailMoves DEF SamplerInv, Refuse, clocks
  <1>4. high' \in Nat /\ loop' \in Loops
    BY DEF Refuse, clocks, Loops, Reasons, SamplerInv, SamplerTypeOK
  <1> QED BY <1>1, <1>3, <1>4, QuietStep DEF Refuse, clocks

LEMMA KeepWaitingStep ==
  ASSUME SamplerInv, KeepWaiting
  PROVE  SamplerInv'
  <1>1. high' \in Nat /\ loop' \in Loops /\ loop'.at = "idle"
    BY DEF KeepWaiting, clocks, Loops, Reasons, SamplerInv, SamplerTypeOK
  <1>2. UNCHANGED <<elapsed, slot, turns, claim>>
    BY DEF KeepWaiting, clocks
  <1>3. CASE GiveUp
    <2>1. TicketMoves /\ turn' = NoTurn
      BY <1>2, <1>3, GiveUpMoves DEF SamplerInv
    <2>2. SourceScreened'
      BY <1>2 DEF SamplerInv, SourceScreened
    <2> QED BY <1>1, <1>2, <2>1, <2>2, EndStep
  <1>4. CASE UNCHANGED <<tickets, retry, turn>>
    BY <1>1, <1>2, <1>4, QuietStep DEF TicketMoves
  <1> QED BY <1>3, <1>4 DEF KeepWaiting

LEMMA AbandonTurnStep ==
  ASSUME SamplerInv, AbandonTurn
  PROVE  SamplerInv'
  <1>1. UNCHANGED <<elapsed, slot, turns, claim>> /\ high' \in Nat /\ loop' \in Loops /\ loop'.at = "idle"
    BY DEF AbandonTurn, clocks, SamplerInv, SamplerTypeOK, Loops
  <1>2. TicketMoves /\ turn' = NoTurn
    BY <1>1, GiveUpMoves DEF AbandonTurn, SamplerInv
  <1>3. SourceScreened'
    BY <1>1 DEF SamplerInv, SourceScreened
  <1> QED BY <1>1, <1>2, <1>3, EndStep

LEMMA StopRunStep ==
  ASSUME SamplerInv, StopRun
  PROVE  SamplerInv'
  <1>1. UNCHANGED <<elapsed, slot, turns, claim>> /\ high' \in Nat /\ loop' \in Loops /\ loop'.at = "idle"
    BY DEF StopRun, clocks, SamplerInv, SamplerTypeOK, Loops
  <1>2. TicketMoves
    <2> DEFINE refused == Mine(tickets[slot]) /\ ~Returned(tickets[slot])
    <2>1. LET t == tickets[slot]
              kept == IF refused THEN Failed(t, "stopped") ELSE t
          IN /\ tickets' = [tickets EXCEPT ![slot] =
                              IF TRUE THEN [kept EXCEPT !.cancelled = TRUE] ELSE kept]
             /\ retry' = IF refused THEN Debt(t, "stopped") ELSE retry
      BY DEF StopRun
    <2>2. refused \in BOOLEAN /\ (refused => ~Returned(tickets[slot])) /\ slot # None
      BY DEF StopRun, SlotOccupied
    <2> HIDE DEF refused
    <2> QED BY <1>1, <2>1, <2>2, RefusedMoves DEF SamplerInv
  <1>3. SourceScreened'
    BY <1>1 DEF SamplerInv, SourceScreened
  <1> QED BY <1>1, <1>2, <1>3, EndStep DEF StopRun

\* The four steps of an observer.
LEMMA ObserveStep ==
  ASSUME SamplerInv, NEW n \in Tickets, NEW wall \in Walls, Observe(n, wall)
  PROVE  SamplerInv'
  <1> DEFINE t == tickets[n]
             reason == FirstReason(ContextReason(t), FirstReason(ClockReason(wall), WindowReason(t, wall)))
             after == Failed(t, reason)
             u == [after EXCEPT !.at = IF after.refusal = "" THEN "calling" ELSE "called",
                                !.found = IF after.refusal = "" THEN @ ELSE after.refusal]
  <1>1. n = slot /\ slot # None /\ t.at = "launched"
    BY ObserverTicket DEF Observe
  <1>2. t \in TicketSet /\ TicketSound(t) /\ retry = Owed(t)
    BY <1>1, SlotTicket
  <1>3. reason \in Reasons
    BY <1>2, ReasonTypes
  <1>4. tickets' = [tickets EXCEPT ![slot] = u] /\ retry' = Debt(t, reason)
    BY <1>1 DEF Observe
  <1> HIDE DEF reason
  <1>5. t.verdict = ""
    BY <1>1, <1>2 DEF TicketSound
  <1>6. /\ after \in TicketSet /\ SameSample(t, after) /\ TicketSound(after)
        /\ after.verdict = "" /\ Debt(t, reason) = Owed(after)
    BY <1>2, <1>3, <1>5, FailedTicket, FailedSound, FailedDebt DEF Returned
  <1> HIDE DEF after
  <1>7. /\ u \in TicketSet /\ SameSample(after, u) /\ u.at # "free" /\ u.verdict = ""
        /\ u.refusal = after.refusal /\ u.cancelled = after.cancelled /\ u.seen = after.seen
        /\ u.found = IF after.refusal = "" THEN after.found ELSE after.refusal
    <2>1. (IF after.refusal = "" THEN "calling" ELSE "called") \in TicketSteps \ {"free"}
      BY DEF TicketSteps
    <2>2. (IF after.refusal = "" THEN after.found ELSE after.refusal) \in Findings
      BY <1>6 DEF TicketSet, Findings
    <2> QED BY <1>6, <2>1, <2>2 DEF TicketSet, SameSample
  <1> HIDE DEF u
  <1>8. TicketSound(u)
    <2>1. after.refusal \in Reasons
      BY <1>6 DEF TicketSet
    <2> QED BY <1>6, <1>7, <2>1 DEF TicketSound, SameSample, Reasons
  <1>9. Owed(u) = Owed(after)
    BY <1>7 DEF Owed, SameSample
  <1>10. SameSample(t, u)
    BY <1>6, <1>7 DEF SameSample
  <1>11. TicketMoves
    BY <1>1, <1>4, <1>6, <1>7, <1>8, <1>9, <1>10 DEF TicketMoves, Moves, Observe
  <1>12. high' \in Nat /\ loop' \in Loops
    BY CaptureType DEF Observe, SamplerInv, SamplerTypeOK, Loops
  <1>13. loop'.at # "idle" => turn.at = "sampling"
    BY DEF Observe, SamplerInv, TurnPart, Awaited
  <1> QED BY <1>11, <1>12, <1>13, QuietStep DEF Observe

LEMMA BudgetStep ==
  ASSUME SamplerInv, NEW n \in Tickets, InventoryStateBudget(n)
  PROVE  SamplerInv'
  <1> DEFINE t == tickets[n]
  <1>1. n = slot /\ slot # None /\ t.at = "calling"
    BY ObserverTicket DEF InventoryStateBudget
  <1>2. t \in TicketSet /\ TicketSound(t) /\ retry = Owed(t)
    BY <1>1, SlotTicket
  <1>3. elapsed \in Nat
    BY DEF SamplerInv, SamplerTypeOK
  <1>4. PICK found \in {"usable", "refused", "stopped"} :
          tickets' = [tickets EXCEPT ![n].at = "called", ![n].found = found, ![n].seen = elapsed]
    BY DEF InventoryStateBudget
  <1> DEFINE u == [t EXCEPT !.at = "called", !.found = found, !.seen = elapsed]
  <1>5. tickets' = [tickets EXCEPT ![slot] = u]
    <2>1. tickets \in [Tickets -> TicketSet]
      BY DEF SamplerInv, SamplerTypeOK
    <2> QED BY <1>1, <1>4, <2>1 DEF TicketSet
  <1>6. /\ u \in TicketSet /\ SameSample(t, u) /\ u.at = "called" /\ u.verdict = t.verdict
        /\ u.refusal = t.refusal /\ u.cancelled = t.cancelled /\ u.seen = elapsed
    <2>1. found \in Findings /\ "called" \in TicketSteps
      BY DEF Findings, Reasons, TicketSteps
    <2> QED BY <1>2, <1>3, <2>1 DEF TicketSet, SameSample
  <1> HIDE DEF u, t
  <1>7. TicketSound(u)
    <2>1. t.launch.elapsed <= elapsed /\ t.verdict = ""
      BY <1>1, <1>2 DEF TicketSound
    <2>3. u.launch = t.launch /\ u.seen = elapsed
      BY <1>6 DEF SameSample
    <2>2. u.launch.elapsed <= elapsed /\ u.launch.elapsed <= u.seen /\ u.seen <= elapsed
      <3>1. elapsed <= elapsed
        BY <1>3
      <3> QED BY <2>1, <2>3, <3>1
    <2> QED BY <1>2, <1>6, <2>1, <2>2 DEF TicketSound
  <1>8. Owed(u) = Owed(t)
    BY <1>6 DEF Owed, SameSample
  <1>9. TicketMoves
    BY <1>1, <1>2, <1>5, <1>6, <1>7, <1>8 DEF TicketMoves, Moves, InventoryStateBudget, clocks, t
  <1>10. high' \in Nat /\ loop' \in Loops
    BY DEF InventoryStateBudget, clocks, SamplerInv, SamplerTypeOK, Loops
  <1>11. loop'.at # "idle" => turn.at = "sampling"
    BY DEF InventoryStateBudget, SamplerInv, TurnPart, Awaited
  <1> QED BY <1>9, <1>10, <1>11, QuietStep DEF InventoryStateBudget, clocks

LEMMA FreezeStep ==
  ASSUME SamplerInv, NEW n \in Tickets, NEW wall \in Walls, Freeze(n, wall)
  PROVE  SamplerInv'
  <1> DEFINE t == tickets[n]
             reason == FirstReason(ContextReason(t), FirstReason(ClockReason(wall), WindowReason(t, wall)))
             verdict == FirstReason(reason, t.found)
             u == [t EXCEPT !.at = "returned", !.verdict = verdict]
  <1>1. n = slot /\ slot # None /\ t.at = "called"
    BY ObserverTicket DEF Freeze
  <1>2. t \in TicketSet /\ TicketSound(t) /\ retry = Owed(t)
    BY <1>1, SlotTicket
  <1>3. reason \in Reasons /\ t.found \in Findings
    BY <1>2, ReasonTypes
  <1>4. t.cancelled => reason # ""
    BY DEF ContextReason, FirstReason
  <1>5. tickets' = [tickets EXCEPT ![slot] = u]
    <2>1. tickets \in [Tickets -> TicketSet]
      BY DEF SamplerInv, SamplerTypeOK
    <2>2. tickets' = [tickets EXCEPT ![n].at = "returned", ![n].verdict = verdict]
      BY DEF Freeze
    <2> HIDE DEF verdict
    <2> QED BY <1>1, <2>1, <2>2 DEF TicketSet
  <1> HIDE DEF reason
  <1>6. verdict \in Findings /\ (verdict = "usable" => reason = "" /\ t.found = "usable")
    BY <1>3 DEF FirstReason, Findings, Reasons
  <1> HIDE DEF verdict
  <1>7. /\ u \in TicketSet /\ SameSample(t, u) /\ u.at = "returned" /\ u.verdict = verdict
        /\ u.refusal = t.refusal /\ u.cancelled = t.cancelled /\ u.seen = t.seen /\ u.found = t.found
    BY <1>2, <1>6 DEF TicketSet, SameSample, TicketSteps
  <1> HIDE DEF u, t
  <1>8. TicketSound(u)
    BY <1>2, <1>4, <1>6, <1>7 DEF TicketSound, SameSample
  <1>9. Owed(u) = Owed(t)
    BY <1>7 DEF Owed, SameSample
  <1>10. TicketMoves
    BY <1>1, <1>2, <1>5, <1>7, <1>8, <1>9 DEF TicketMoves, Moves, Freeze, t
  <1>11. high' \in Nat /\ loop' \in Loops
    BY CaptureType DEF Freeze, SamplerInv, SamplerTypeOK, Loops
  <1>12. loop'.at # "idle" => turn.at = "sampling"
    BY DEF Freeze, SamplerInv, TurnPart, Awaited
  <1> QED BY <1>10, <1>11, <1>12, QuietStep DEF Freeze

LEMMA PublishStep ==
  ASSUME SamplerInv, NEW n \in Tickets, Publish(n)
  PROVE  SamplerInv'
  <1> DEFINE t == tickets[n]
             reason == IF t.verdict = "usable" THEN t.refusal ELSE FirstReason(t.refusal, t.verdict)
             after == Failed(t, reason)
             u == [after EXCEPT !.at = "done", !.cancelled = TRUE]
  <1>1. n = slot /\ slot # None
    BY ObserverTicket DEF Publish
  <1>2. t \in TicketSet /\ TicketSound(t) /\ retry = Owed(t)
    BY <1>1, SlotTicket
  <1>3. reason \in Reasons
    BY <1>2, ReasonTypes DEF FirstReason, Findings, Reasons
  <1>4. tickets' = [tickets EXCEPT ![slot] = u] /\ retry' = Debt(t, reason)
    BY <1>1 DEF Publish
  <1>5. t.verdict = "usable" => reason = ""
    BY <1>2 DEF TicketSound
  <1> HIDE DEF reason
  <1>6. /\ after \in TicketSet /\ SameSample(t, after) /\ Debt(t, reason) = Owed(after)
        /\ after.found = t.found /\ after.verdict = t.verdict /\ after.seen = t.seen
        /\ t.verdict = "usable" => after.refusal = t.refusal
    BY <1>2, <1>3, <1>5, FailedTicket, FailedDebt
  <1> HIDE DEF after
  <1>7. /\ u \in TicketSet /\ SameSample(after, u) /\ u.at = "done" /\ u.cancelled
        /\ u.refusal = after.refusal /\ u.verdict = t.verdict /\ u.found = t.found /\ u.seen = t.seen
    <2>1. "done" \in TicketSteps
      BY DEF TicketSteps
    <2> QED BY <1>6, <2>1 DEF TicketSet, SameSample
  <1> HIDE DEF u
  <1>8. SameSample(t, u)
    BY <1>6, <1>7 DEF SameSample
  <1>9. TicketSound(u)
    BY <1>2, <1>6, <1>7, <1>8 DEF TicketSound, SameSample
  <1>10. Owed(u) = Owed(after)
    BY <1>7 DEF Owed, SameSample
  <1>11. TicketMoves
    BY <1>1, <1>4, <1>6, <1>7, <1>8, <1>9, <1>10, ZenonT(30)
    DEF TicketMoves, Moves, Publish, clocks
  <1>12. high' \in Nat /\ loop' \in Loops
    BY DEF Publish, clocks, SamplerInv, SamplerTypeOK, Loops
  <1>13. loop'.at # "idle" => turn.at = "sampling"
    BY DEF Publish, SamplerInv, TurnPart, Awaited
  <1> QED BY <1>11, <1>12, <1>13, QuietStep DEF Publish, clocks

\* A step after which the turn needs no ticket.
LEMMA TurnStep ==
  ASSUME SamplerInv, TicketMoves, high' \in Nat, turn' \in TurnSet,
         turn'.at # "sampling", TurnScreened', loop' \in Loops, loop'.at = "idle",
         UNCHANGED <<turns, claim>>
  PROVE  SamplerInv'
  <1>1. elapsed' = elapsed
    BY DEF TicketMoves, Moves
  <1>2. SlotPart' /\ (slot \in Tickets \cup {None} /\ retry \in Pairs /\ tickets \in [Tickets -> TicketSet])'
    BY MovesKeepSlot DEF SamplerInv
  <1>3. Awaited'
    BY DEF Awaited
  <1>4. SourceScreened'
    BY DEF SamplerInv, SourceScreened
  <1>5. SamplerTypeOK'
    BY <1>1, <1>2 DEF SamplerInv, SamplerTypeOK, Loops
  <1> QED BY <1>2, <1>3, <1>4, <1>5 DEF SamplerInv, TurnPart

\* A turn that gives up its source keeps what it has seen.
LEMMA SourceLost ==
  ASSUME SamplerInv, turn.receipt # NoPair, elapsed' = elapsed,
         NEW more \in SUBSET EvidenceSet,
         turn' = [turn EXCEPT !.at = "cleared", !.source = FALSE, !.samples = turn.samples \cup more]
  PROVE  turn' \in TurnSet /\ turn'.at = "cleared" /\ TurnScreened'
  <1>1. turn \in TurnSet /\ turn.samples \cup more \in SUBSET EvidenceSet
    BY DEF SamplerInv, SamplerTypeOK, TurnSet
  <1>2. /\ turn' \in TurnSet /\ turn'.at = "cleared" /\ turn'.source = FALSE
        /\ turn'.id = turn.id /\ turn'.receipt = turn.receipt
        /\ turn'.samples = turn.samples \cup more
    BY <1>1 DEF TurnSet
  <1>3. SeenBefore(turn.receipt.elapsed)'
    BY <1>2 DEF SamplerInv, TurnPart, TurnScreened, SeenBefore, Good
  <1>4. turn.receipt.elapsed <= elapsed
    BY DEF SamplerInv, TurnPart, TurnScreened
  <1> QED BY <1>2, <1>3, <1>4 DEF TurnScreened

LEMMA OtherWorkStep ==
  ASSUME SamplerInv, NEW wall \in Walls, OtherWork(wall)
  PROVE  SamplerInv'
  <1>1. /\ UNCHANGED <<elapsed, slot, turns, claim>> /\ high' \in Nat
        /\ loop' \in Loops /\ loop'.at = "idle"
    BY DEF OtherWork, clocks, SamplerInv, SamplerTypeOK, Loops
  <1>2. TicketMoves
    BY <1>1, AbandonMoves DEF OtherWork, SamplerInv
  <1>3. turn' = [turn EXCEPT !.at = "cleared", !.source = FALSE, !.samples = turn.samples \cup {}]
    BY DEF OtherWork, SamplerInv, SamplerTypeOK, TurnSet
  <1>4. turn' \in TurnSet /\ turn'.at = "cleared" /\ TurnScreened'
    <2>1. {} \in SUBSET EvidenceSet
      OBVIOUS
    <2> QED BY <1>1, <1>3, <2>1, SourceLost DEF OtherWork
  <1> QED BY <1>1, <1>2, <1>4, TurnStep

LEMMA ReserveStep ==
  ASSUME SamplerInv, NEW wall \in Walls, ReserveScanChunk(wall)
  PROVE  SamplerInv'
  <1>1. /\ UNCHANGED <<elapsed, slot, retry, tickets, turns, claim>> /\ high' \in Nat
        /\ loop' \in Loops /\ loop'.at = "idle"
    BY DEF ReserveScanChunk, clocks, SamplerInv, SamplerTypeOK, Loops
  <1>2. elapsed \in Nat /\ wall \in Nat /\ wall # 0
    BY CaptureType DEF SamplerInv, SamplerTypeOK, Walls
  <1> DEFINE receipt == Pair(wall, elapsed)
  <1>3. receipt \in Pairs /\ receipt.elapsed = elapsed /\ receipt # NoPair
    BY <1>2 DEF Pair, Pairs, NoPair
  <1>4. turn' = [turn EXCEPT !.at = "reserved", !.receipt = receipt]
    BY DEF ReserveScanChunk
  <1> HIDE DEF receipt
  <1>5. /\ turn' \in TurnSet /\ turn'.at = "reserved" /\ turn'.receipt = receipt
        /\ turn'.id = turn.id /\ turn'.samples = turn.samples
    BY <1>3, <1>4 DEF SamplerInv, SamplerTypeOK, TurnSet
  <1>6. SeenBefore(elapsed)
    BY DEF ReserveScanChunk, SamplerInv, TurnPart, TurnScreened
  <1>7. SeenBefore(turn.receipt.elapsed)'
    BY <1>1, <1>3, <1>5, <1>6 DEF SeenBefore, Good
  <1>8. receipt.elapsed <= elapsed
    BY <1>2, <1>3
  <1>9. TurnScreened'
    BY <1>1, <1>3, <1>5, <1>7, <1>8 DEF TurnScreened
  <1> QED BY <1>1, <1>5, <1>9, TurnStep DEF TicketMoves

\* A step that starts a sample for the turn.
LEMMA LaunchStep ==
  ASSUME SamplerInv, NEW wall \in Nat, NEW phase \in Phases, NEW receipt \in Pairs,
         SlotFree, elapsed' = elapsed, high' \in Nat, turns' \in Nat,
         turn' \in TurnSet, turn'.at = "sampling", Launch(turn'.id, phase, wall, receipt),
         phase = Phase', TurnScreened', loop' = loop, loop.at = "idle", SourceScreened'
  PROVE  SamplerInv'
  <1>0. turn'.id \in Nat /\ turn'.receipt.elapsed \in Nat
    BY DEF TurnSet, Pairs
  <1>1. /\ SlotPart'
        /\ slot' \in Tickets /\ retry' \in Pairs /\ tickets' \in [Tickets -> TicketSet]
        /\ tickets'[slot'].turn = turn'.id /\ tickets'[slot'].phase = phase
        /\ tickets'[slot'].launch.elapsed = elapsed
    BY <1>0, LaunchSound DEF SamplerInv
  <1>2. slot' # None
    BY <1>1, TicketsAssumption DEF None
  <1>3. turn'.receipt.elapsed <= elapsed'
    BY DEF TurnScreened
  <1>4. Awaits(tickets[slot])'
    BY <1>1, <1>3 DEF Awaits
  <1>5. Awaited'
    BY <1>2, <1>4 DEF Awaited
  <1>6. SamplerTypeOK'
    BY <1>1 DEF SamplerInv, SamplerTypeOK
  <1> QED BY <1>1, <1>5, <1>6 DEF SamplerInv, TurnPart

LEMMA StartPostStep ==
  ASSUME SamplerInv, NEW wall \in Walls, StartPost(wall)
  PROVE  SamplerInv'
  <1>1. /\ UNCHANGED <<elapsed, turns, loop, claim>> /\ high' \in Nat /\ wall \in Nat
        /\ loop' \in Loops /\ loop'.at = "idle" /\ loop.at = "idle"
    BY CaptureType DEF StartPost, SamplerInv, SamplerTypeOK, Loops
  <1>2. turn \in TurnSet /\ turn.receipt \in Pairs /\ turn.receipt # NoPair
    BY DEF StartPost, SamplerInv, SamplerTypeOK, TurnSet, TurnPart, TurnScreened
  <1>3. CASE ~TurnOver /\ Eligible(wall, turn.receipt)
    <2>1. /\ Launch(turn.id, "after_receipt", wall, turn.receipt)
          /\ turn' = [turn EXCEPT !.at = "sampling"]
      BY <1>3 DEF StartPost
    <2>2. /\ turn' \in TurnSet /\ turn'.at = "sampling" /\ turn'.id = turn.id
          /\ turn'.receipt = turn.receipt /\ turn'.samples = turn.samples
      BY <1>2, <2>1 DEF TurnSet
    <2>3. Phase' = "after_receipt" /\ "after_receipt" \in Phases
      BY <1>2, <2>2 DEF Phase, Phases
    <2>4. TurnScreened'
      BY <1>1, <1>2, <2>2 DEF SamplerInv, TurnPart, TurnScreened, SeenBefore, Good
    <2>5. SlotFree
      BY <1>3 DEF Eligible
    <2>6. SourceScreened' /\ turns' \in Nat
      BY <1>1 DEF SamplerInv, SourceScreened, SamplerTypeOK
    <2>7. Launch(turn'.id, "after_receipt", wall, turn.receipt)
      BY <2>1, <2>2
    <2> QED BY <1>1, <1>2, <2>2, <2>3, <2>4, <2>5, <2>6, <2>7, LaunchStep
  <1>4. CASE ~(~TurnOver /\ Eligible(wall, turn.receipt))
    <2>1. /\ turn' = [turn EXCEPT !.at = "cleared", !.source = FALSE, !.samples = turn.samples \cup {}]
          /\ UNCHANGED <<slot, retry, tickets>>
      BY <1>2, <1>4 DEF StartPost, TurnSet
    <2>2. {} \in SUBSET EvidenceSet
      OBVIOUS
    <2>3. turn' \in TurnSet /\ turn'.at = "cleared" /\ TurnScreened'
      BY <1>1, <1>2, <2>1, <2>2, SourceLost
    <2> QED BY <1>1, <2>1, <2>3, TurnStep DEF TicketMoves
  <1> QED BY <1>3, <1>4

LEMMA BeginTurnStep ==
  ASSUME SamplerInv, NEW wall \in Walls, BeginTurn(wall)
  PROVE  SamplerInv'
  <1>1. /\ UNCHANGED <<elapsed, loop>> /\ high' \in Nat /\ wall \in Nat
        /\ loop' \in Loops /\ loop'.at = "idle" /\ loop.at = "idle" /\ elapsed \in Nat
    BY CaptureType DEF BeginTurn, SamplerInv, SamplerTypeOK, Loops
  <1>2. turns' \in Nat /\ turns' = turns + 1
    BY DEF BeginTurn, SamplerInv, SamplerTypeOK
  <1>3. SourceScreened'
    BY DEF BeginTurn, NoClaim, SourceScreened
  <1>4. NoPair \in Pairs /\ NoPair.elapsed = 0
    BY DEF NoPair, Pair, Pairs
  <1>5. CASE Eligible(wall, NoPair)
    <2>1. /\ Launch(turns', "before_dispatch", wall, NoPair)
          /\ turn' = [NoTurn EXCEPT !.at = "sampling", !.id = turns', !.source = TRUE]
      BY <1>5 DEF BeginTurn
    <2>2. /\ turn' \in TurnSet /\ turn'.at = "sampling" /\ turn'.id = turns'
          /\ turn'.receipt = NoPair
      BY <1>2, <1>4, <2>1 DEF TurnSet, NoTurn
    <2>3. Phase' = "before_dispatch" /\ "before_dispatch" \in Phases
      BY <2>2 DEF Phase, Phases
    <2>4. turn'.receipt.elapsed <= elapsed'
      BY <1>1, <1>4, <2>2
    <2>5. TurnScreened'
      BY <2>2, <2>4 DEF TurnScreened
    <2>6. SlotFree
      BY <1>5 DEF Eligible
    <2>7. Launch(turn'.id, "before_dispatch", wall, NoPair)
      BY <2>1, <2>2
    <2> QED BY <1>1, <1>2, <1>3, <1>4, <2>2, <2>3, <2>5, <2>6, <2>7, LaunchStep
  <1>6. CASE ~Eligible(wall, NoPair)
    <2>1. UNCHANGED <<slot, retry, tickets, turn>>
      BY <1>6 DEF BeginTurn
    <2>2. TicketMoves
      BY <1>1, <2>1 DEF TicketMoves
    <2>3. SlotPart' /\ SamplerTypeOK'
      BY <1>1, <1>2, <2>1, <2>2, MovesKeepSlot DEF SamplerInv, SamplerTypeOK
    <2>4. TurnPart'
      BY <1>1, <2>1, <2>2, MovesKeepTurn DEF SamplerInv
    <2> QED BY <1>3, <2>3, <2>4 DEF SamplerInv
  <1> QED BY <1>5, <1>6

LEMMA ClaimStep ==
  ASSUME SamplerInv, NEW wall \in Walls, Claim(wall)
  PROVE  SamplerInv'
  <1>1. /\ UNCHANGED <<elapsed, slot, turns>> /\ high' \in Nat
        /\ loop' \in Loops /\ loop'.at = "idle"
    BY DEF Claim, clocks, SamplerInv, SamplerTypeOK, Loops
  <1>2. CASE ReceiptCurrent(wall) /\ ClocksCurrent(wall)
    <2>1. turn' = NoTurn /\ AbandonIntent
      BY <1>2 DEF Claim
    <2>2. PICK source \in {FALSE, turn.source} :
            claim' = [source |-> source, turn |-> turn.id, samples |-> turn.samples,
                      reserved |-> turn.receipt.elapsed, at |-> elapsed]
      BY <1>2 DEF Claim
    <2>3. TicketMoves
      BY <1>1, <2>1, AbandonMoves DEF SamplerInv
    <2>4. elapsed - turn.receipt.elapsed < ClaimWindow
      BY <1>2 DEF ReceiptCurrent, InWindow
    <2>5. turn.at = "cleared" /\ turn.receipt # NoPair
      BY DEF Claim, SamplerInv, TurnPart, TurnScreened
    <2>6. SeenBefore(turn.receipt.elapsed) /\ (turn.source => SeenAfter)
      BY <2>5 DEF SamplerInv, TurnPart, TurnScreened
    <2>7. SourceScreened'
      <3> SUFFICES ASSUME claim'.source PROVE SourceScreened'
        BY DEF SourceScreened
      <3>1. turn.source
        BY <2>2
      <3>2. PICK before \in turn.samples :
              Good(before, "before_dispatch") /\ before.seen <= turn.receipt.elapsed
        BY <2>6 DEF SeenBefore
      <3>3. PICK after \in turn.samples :
              Good(after, "after_receipt") /\ after.seen >= turn.receipt.elapsed
        BY <2>6, <3>1 DEF SeenAfter
      <3>4. /\ claim'.samples = turn.samples /\ claim'.turn = turn.id
            /\ claim'.reserved = turn.receipt.elapsed /\ claim'.at = elapsed
        BY <2>2
      <3>5. claim'.at - claim'.reserved < ClaimWindow
        BY <2>4, <3>4
      <3>6. \A s \in {before, after} : s.turn = claim'.turn /\ s.found = "usable"
        BY <3>2, <3>3, <3>4 DEF Good
      <3> QED BY <3>2, <3>3, <3>4, <3>5, <3>6 DEF SourceScreened, Good
    <2> QED BY <1>1, <2>1, <2>3, <2>7, EndStep
  <1>3. CASE ~(ReceiptCurrent(wall) /\ ClocksCurrent(wall))
    <2>1. GiveUp /\ UNCHANGED claim
      BY <1>3 DEF Claim
    <2>2. TicketMoves /\ turn' = NoTurn
      BY <1>1, <2>1, GiveUpMoves DEF SamplerInv
    <2>3. SourceScreened'
      BY <2>1 DEF SamplerInv, SourceScreened
    <2> QED BY <1>1, <2>2, <2>3, EndStep
  <1> QED BY <1>2, <1>3

\* takeCompletion of the slot's sample: what an allowed turn adds is a sample
\* it asked for, seen after its launch and found below the limit.
LEMMA TakeStep ==
  ASSUME SamplerInv, NEW wall \in Walls, Take(wall)
  PROVE  SamplerInv'
  <1> DEFINE t == tickets[slot]
             usable == Result(t) = "usable" /\ ~t.used /\ ~TurnOver
             allowed == usable /\ ClockReason(wall) = "" /\ WindowReason(t, wall) = ""
             maintenance == /\ turn.receipt # NoPair /\ Result(t) = "refused"
                            /\ ClocksCurrent(wall) /\ ReceiptCurrent(wall)
             e == Evidence(t)
  <1>1. /\ UNCHANGED <<elapsed, slot, turns, claim>> /\ high' \in Nat
        /\ loop' \in Loops /\ loop'.at = "idle"
    BY CaptureType DEF Take, SamplerInv, SamplerTypeOK, Loops, Reasons
  <1>2. turn.at = "sampling" /\ slot # None /\ Awaits(t)
    BY DEF Take, SamplerInv, TurnPart, Awaited
  <1>3. t \in TicketSet /\ TicketSound(t) /\ retry = Owed(t) /\ t.at # "free"
    BY <1>2, SlotTicket
  <1>4. turn \in TurnSet /\ turn.receipt \in Pairs /\ turn.samples \subseteq EvidenceSet /\ elapsed \in Nat
    BY DEF SamplerInv, SamplerTypeOK, TurnSet
  <1>5. e \in EvidenceSet
    BY <1>3 DEF Evidence, EvidenceSet, TicketSet
  <1>6. SourceScreened'
    BY <1>1 DEF SamplerInv, SourceScreened
  <1>7. CASE /\ allowed
             /\ tickets' = [tickets EXCEPT ![slot].used = TRUE]
             /\ turn' = [turn EXCEPT !.at = IF Phase = "before_dispatch" THEN "admitted" ELSE "cleared",
                                     !.samples = @ \cup {Evidence(t)}]
             /\ UNCHANGED retry
    <2> DEFINE u == [t EXCEPT !.used = TRUE]
    <2>1. tickets' = [tickets EXCEPT ![slot] = u]
      BY <1>7
    <2>2. /\ u \in TicketSet /\ SameSample(t, u) /\ u.at = t.at /\ u.refusal = t.refusal
          /\ u.cancelled = t.cancelled /\ u.verdict = t.verdict /\ u.found = t.found /\ u.seen = t.seen
      BY <1>3 DEF TicketSet, SameSample
    <2> HIDE DEF u
    <2>3. TicketSound(u)
      BY <1>3, <2>2 DEF TicketSound, SameSample
    <2>4. Owed(u) = Owed(t)
      BY <2>2 DEF Owed, SameSample
    <2>5. TicketMoves
      BY <1>1, <1>2, <1>3, <1>7, <2>1, <2>2, <2>3, <2>4 DEF TicketMoves, Moves
    <2>6. Result(t) = "usable"
      BY <1>7
    <2>7. t.verdict = "usable" /\ t.found = "usable"
      <3>1. t.refusal # "usable"
        BY <1>3 DEF TicketSet, Reasons
      <3>2. t.verdict = "usable"
        BY <2>6, <3>1 DEF Result, FirstReason
      <3> QED BY <1>3, <3>2 DEF TicketSound
    <2>8. t.launch.elapsed <= t.seen /\ t.seen <= elapsed
      BY <1>3, <2>7 DEF TicketSound
    <2>9. Good(e, Phase) /\ e.seen = t.seen
      BY <1>2, <2>7 DEF Good, Evidence, Awaits
    <2> HIDE DEF e
    <2>10. /\ turn' \in TurnSet /\ turn'.id = turn.id /\ turn'.receipt = turn.receipt
           /\ turn'.samples = turn.samples \cup {e} /\ turn'.source = turn.source
           /\ turn'.at = IF Phase = "before_dispatch" THEN "admitted" ELSE "cleared"
      <3>1. turn' = [turn EXCEPT !.at = IF Phase = "before_dispatch" THEN "admitted" ELSE "cleared",
                                 !.samples = turn.samples \cup {e}]
        BY <1>4, <1>7 DEF e
      <3>2. turn.samples \cup {e} \in SUBSET EvidenceSet
        BY <1>4, <1>5
      <3> QED BY <1>4, <3>1, <3>2 DEF TurnSet
    <2>11. turn.receipt.elapsed <= elapsed
      BY DEF SamplerInv, TurnPart, TurnScreened
    <2>12. TurnScreened'
      <3>1. CASE turn.receipt = NoPair
        <4>1. Phase = "before_dispatch"
          BY <3>1 DEF Phase
        <4>2. SeenBefore(elapsed)'
          BY <1>1, <2>8, <2>9, <2>10, <4>1 DEF SeenBefore, Good
        <4> QED BY <1>1, <2>10, <2>11, <3>1, <4>1, <4>2 DEF TurnScreened
      <3>2. CASE turn.receipt # NoPair
        <4>1. Phase = "after_receipt"
          BY <3>2 DEF Phase
        <4>2. SeenBefore(turn.receipt.elapsed)'
          BY <2>10, <3>2 DEF SamplerInv, TurnPart, TurnScreened, SeenBefore, Good
        <4>3. turn.receipt.elapsed <= t.launch.elapsed
          BY <1>2, <3>2 DEF Awaits
        <4>4. turn.receipt.elapsed \in Nat /\ t.launch.elapsed \in Nat /\ t.seen \in Nat
          BY <1>3, <1>4 DEF Pairs, TicketSet
        <4>5. e.seen >= turn.receipt.elapsed
          BY <2>8, <2>9, <4>3, <4>4
        <4>6. SeenAfter'
          BY <2>9, <2>10, <4>1, <4>5 DEF SeenAfter, Good
        <4> QED BY <1>1, <2>10, <2>11, <3>2, <4>1, <4>2, <4>6 DEF TurnScreened
      <3> QED BY <3>1, <3>2
    <2>13. turn'.at # "sampling"
      BY <2>10
    <2> QED BY <1>1, <2>5, <2>10, <2>12, <2>13, TurnStep
  <1>8. CASE /\ maintenance
             /\ turn' = [turn EXCEPT !.at = "cleared", !.source = MaintenanceSource,
                                     !.samples = @ \cup {Evidence(t)}]
             /\ UNCHANGED <<tickets, retry>>
    <2>1. turn' = [turn EXCEPT !.at = "cleared", !.source = FALSE, !.samples = turn.samples \cup {e}]
      BY <1>4, <1>8 DEF MaintenanceSource
    <2>2. {e} \in SUBSET EvidenceSet
      BY <1>5
    <2>3. turn.receipt # NoPair
      BY <1>8
    <2> HIDE DEF e
    <2>4. turn' \in TurnSet /\ turn'.at = "cleared" /\ TurnScreened'
      BY <1>1, <2>1, <2>2, <2>3, SourceLost
    <2>5. TicketMoves
      BY <1>1, <1>8 DEF TicketMoves
    <2> QED BY <1>1, <2>4, <2>5, TurnStep
  <1>9. CASE GiveUp
    <2>1. TicketMoves /\ turn' = NoTurn
      BY <1>1, <1>9, GiveUpMoves DEF SamplerInv
    <2> QED BY <1>1, <1>6, <2>1, EndStep
  <1> QED BY <1>7, <1>8, <1>9 DEF Take

-----------------------------------------------------------------------------
(* The theorems.                                                           *)

\* The inductive invariant of the sampler.
THEOREM SamplerInvariant == Spec => []SamplerInv
  <1>1. Init => SamplerInv
    <2> SUFFICES ASSUME Init PROVE SamplerInv
      OBVIOUS
    <2>1. elapsed \in Nat /\ high \in Nat /\ turns \in Nat /\ slot = None /\ retry = NoPair
      BY DEF Init
    <2>2. NoPair \in Pairs
      BY DEF NoPair, Pair, Pairs
    <2>3. loop \in [at : {"idle", "asked", "refusing"}, reason : Reasons] /\ loop.at = "idle"
      BY DEF Init, Reasons
    <2>4. turn = NoTurn /\ NoTurn \in TurnSet /\ TurnPart
      BY <2>1, <2>3, NoTurnSound DEF Init
    <2>5. NoTicket \in TicketSet
      <3>1. /\ NoTicket.at \in TicketSteps /\ "" \in Phases /\ "" \in Reasons /\ "" \in Findings
        BY DEF NoTicket, TicketSteps, Phases, Reasons, Findings
      <3> QED BY <2>2, <3>1 DEF NoTicket, TicketSet
    <2>6. SamplerTypeOK
      BY <2>1, <2>2, <2>3, <2>4, <2>5 DEF SamplerTypeOK, Init
    <2>7. \A n \in Tickets : tickets[n] = NoTicket
      BY DEF Init
    <2>8. TicketsSound
      BY <2>6, <2>7, EmptyTicket DEF TicketsSound
    <2>9. OneSlot /\ DebtKept
      BY <2>1, <2>7 DEF OneSlot, DebtKept
    <2>10. SourceScreened
      BY DEF Init, NoClaim, SourceScreened
    <2> QED BY <2>4, <2>6, <2>8, <2>9, <2>10 DEF SamplerInv, SlotPart
  <1>2. SamplerInv /\ [Next]_vars => SamplerInv'
    <2> SUFFICES ASSUME SamplerInv, [Next]_vars PROVE SamplerInv'
      OBVIOUS
    <2>1. CASE UNCHANGED vars
      <3>1. TicketMoves /\ UNCHANGED <<high, loop, turn, turns, claim>>
        BY <2>1 DEF vars, TicketMoves
      <3>2. high' \in Nat /\ loop' \in Loops /\ (loop'.at # "idle" => turn.at = "sampling")
        BY <3>1 DEF SamplerInv, SamplerTypeOK, Loops, TurnPart, Awaited
      <3> QED BY <3>1, <3>2, QuietStep
    <2>2. CASE Next
      BY <2>2, BeginTurnStep, AskStep, TakeStep, OtherWorkStep, ReserveStep, StartPostStep,
         ClaimStep, ObserveStep, FreezeStep, BudgetStep, PublishStep, RefuseStep,
         KeepWaitingStep, AbandonTurnStep, StopRunStep, PassStep DEF Next
    <2> QED BY <2>1, <2>2
  <1> QED BY <1>1, <1>2, PTL DEF Spec

\* startEligible, refuseLocked, observe: for every length of the windows and
\* every order in which turns and Runs end while a callback hangs, one sample
\* at most is under way, a usable verdict is never made a failure, and the
\* debt is exactly that of the slot's ticket.
THEOREM SlotStaysSound == Spec => []SlotSound
  <1>1. SamplerInv => SlotSound
    <2> SUFFICES ASSUME SamplerInv PROVE SlotSound
      OBVIOUS
    <2>1. InFlight \subseteq {slot}
      BY EmptyTicket DEF InFlight, SamplerInv, SlotPart, OneSlot
    <2>2. IsFiniteSet({slot}) /\ Cardinality({slot}) = 1
      BY FS_Singleton
    <2>3. Cardinality(InFlight) <= 1
      BY <2>1, <2>2, FS_Subset
    <2>4. \A n \in Tickets : tickets[n].verdict = "usable" => tickets[n].refusal = ""
      BY DEF SamplerInv, SlotPart, TicketsSound, TicketSound
    <2>5. slot # None =>
            LET t == tickets[slot]
            IN retry = IF t.refusal = "" THEN NoPair
                       ELSE Pair(t.launch.wall + RetryInterval, t.launch.elapsed + RetryInterval)
      BY DEF SamplerInv, SlotPart, DebtKept, Owed
    <2> QED BY <2>3, <2>4, <2>5 DEF SlotSound
  <1> QED BY <1>1, SamplerInvariant, PTL

\* takeCompletion, startPost, transfer: for every length of the windows, every
\* reading of the wall clock and every interleaving of the loop with the
\* observers, a source is claimed only after two usable samples of that turn,
\* one on each side of its receipt, and while the receipt is current.
THEOREM ClaimedSourceScreened == Spec => []SourceScreened
  <1>1. SamplerInv => SourceScreened
    BY DEF SamplerInv
  <1> QED BY <1>1, SamplerInvariant, PTL

-----------------------------------------------------------------------------
(*                       The CPU charges (CPUCharges)                      *)

-----------------------------------------------------------------------------
(* The rows: their types.                                                    *)

CPUTimes == Nat \cup {Unseen}
Starts == [at : Nat, cpu : CPUTimes]
Samples == [at : Nat \ {0}, cpu : CPUTimes, final : BOOLEAN, elapsed : Nat]
Problems == {"cpu_clock_rollback", "cpu_observation_unavailable", "elapsed_window_invalid",
             "cpu_observation_regressed"}
CloseReasons == Problems \cup {"none", "interrupted_session", "graceful_tail_unobserved"}
Sessions ==
  [status : {"active", "finished", "unknown", "recovered_unknown"}, start : Starts,
   prefix : Nat, total : Nat, last : CPUTimes, ordinal : Nat, sample : {NoSample} \cup Samples,
   closedAt : Nat, reason : CloseReasons, lastCharge : Nat, backoff : Nat, capped : BOOLEAN]
ChargeRows ==
  [generation : Nat, charged : Nat, closed : Nat, recovered : Nat, activated : Nat,
   high : Nat, next : Nat, session : {NoSession} \cup Sessions]
Waits == [wait : 0..BackoffLimit, capped : BOOLEAN]

-----------------------------------------------------------------------------
(* Numbers. *)

\* Quotient and remainder.
LEMMA Division ==
  ASSUME NEW n \in Nat, NEW d \in Nat \ {0}
  PROVE  /\ n \div d \in Nat /\ n % d \in Nat /\ n % d < d
         /\ (n \div d) * d \in Nat /\ n = (n \div d) * d + (n % d)
  <1>1. n \div d \in Nat /\ n % d \in Nat /\ n % d < d /\ n = d * (n \div d) + (n % d)
    OBVIOUS
  <1>2. PICK x \in Nat : x = n \div d
    BY <1>1
  <1>3. d * x \in Nat /\ x * d = d * x
    OBVIOUS
  <1> QED BY <1>1, <1>2, <1>3

\* Multiples keep the order.
LEMMA Scaled ==
  ASSUME NEW d \in Nat \ {0}, NEW x \in Nat, NEW y \in Nat, x <= y
  PROVE  x * d \in Nat /\ y * d \in Nat /\ x * d <= y * d /\ (x < y => x * d + d <= y * d)
  <1>1. PICK z \in Nat : y = x + z
    <2>1. y - x \in Nat /\ y = x + (y - x)
      OBVIOUS
    <2> QED BY <2>1
  <1>2. x * d \in Nat /\ z * d \in Nat /\ y * d = x * d + z * d
    BY <1>1
  <1>3. ASSUME x < y PROVE x * d + d <= y * d
    <2>1. PICK u \in Nat : z = u + 1
      <3>1. z - 1 \in Nat /\ z = (z - 1) + 1
        BY <1>1, <1>3
      <3> QED BY <3>1
    <2>2. u * d \in Nat /\ z * d = u * d + d
      BY <2>1
    <2> QED BY <1>2, <2>2
  <1> QED BY <1>2, <1>3

\* CPUChargesPrefixWait and CPUFeedbackWait: no wait is longer than the limit.
LEMMA PrefixWaitOK ==
  ASSUME NEW cpu \in Nat
  PROVE  PrefixWait(cpu) \in Waits
  <1>1. Percent \in Nat \ {0} /\ BackoffLimit \in Nat
    BY WaitAssumption
  <1>2. CASE cpu > BackoffLimit \div Percent
    BY <1>1, <1>2 DEF PrefixWait, Waits
  <1>3. CASE ~(cpu > BackoffLimit \div Percent)
    <2>1. PICK x \in Nat : x = BackoffLimit \div Percent /\ x * Percent <= BackoffLimit
      BY <1>1, Division
    <2>2. cpu * Percent \in Nat /\ cpu * Percent <= x * Percent
      BY <1>1, <1>3, <2>1, Scaled
    <2>3. PICK y \in Nat : y = cpu * Percent /\ y <= BackoffLimit
      BY <1>1, <2>1, <2>2
    <2> QED BY <1>1, <1>3, <2>3 DEF PrefixWait, Waits
  <1> QED BY <1>2, <1>3

LEMMA FeedbackWaitOK ==
  ASSUME NEW cpu \in Nat, NEW spent \in Nat
  PROVE  FeedbackWait(cpu, spent) \in Waits
  <1>1. Percent \in Nat \ {0} /\ BackoffLimit \in Nat
    BY WaitAssumption
  <1>2. PICK x \in Nat, y \in Nat : x = spent \div Percent /\ y = spent % Percent /\ y < Percent
    BY <1>1, Division
  <1>3. CASE cpu - x <= 0
    BY <1>1, <1>2, <1>3 DEF FeedbackWait, Waits
  <1>4. CASE cpu - x > 0
    <2>1. PICK z \in Nat : z = cpu - x /\ z > 0
      BY <1>2, <1>4
    <2>2. 0 * Percent = 0 /\ z * Percent \in Nat /\ z * Percent >= 0 * Percent + Percent
      BY <1>1, <2>1, Scaled
    <2>3. PICK w \in Nat : w = z * Percent - y
      BY <1>1, <1>2, <2>2
    <2>4. FeedbackWait(cpu, spent) =
            IF w > BackoffLimit THEN [wait |-> BackoffLimit, capped |-> TRUE]
            ELSE [wait |-> w, capped |-> FALSE]
      BY <1>2, <1>4, <2>1, <2>3 DEF FeedbackWait
    <2> QED BY <1>1, <2>3, <2>4 DEF Waits
  <1> QED BY <1>2, <1>3, <1>4

\* A slot begins no later than the moment it holds, and a later moment falls in
\* no earlier slot.
LEMMA SlotBounds ==
  ASSUME NEW len \in Nat \ {0}, NEW s \in Nat, NEW t \in Nat, s <= t
  PROVE  /\ SlotOf(s, len) \in Nat /\ SlotOf(t, len) \in Nat
         /\ SlotOf(s, len) <= s /\ SlotOf(t, len) <= t /\ SlotOf(s, len) <= SlotOf(t, len)
  <1>1. PICK x \in Nat, p \in Nat : /\ x = s \div len /\ p = s % len
                                    /\ x * len \in Nat /\ s = x * len + p /\ p < len
    BY Division
  <1>2. PICK y \in Nat, q \in Nat : /\ y = t \div len /\ q = t % len
                                    /\ y * len \in Nat /\ t = y * len + q /\ q < len
    BY Division
  <1>3. x <= y
    <2> SUFFICES ASSUME y < x PROVE FALSE
      BY <1>1, <1>2
    <2>1. y * len + len <= x * len
      BY Scaled
    <2> QED BY <1>1, <1>2, <2>1
  <1>4. x * len <= y * len
    BY <1>3, Scaled
  <1> QED BY <1>1, <1>2, <1>4 DEF SlotOf

\* The beginning of a slot belongs to that slot.
LEMMA SlotAgain ==
  ASSUME NEW len \in Nat \ {0}, NEW t \in Nat
  PROVE  SlotOf(SlotOf(t, len), len) = SlotOf(t, len)
  <1>1. PICK x \in Nat : x = t \div len
    BY Division
  <1>2. PICK y \in Nat : y = x * len
    BY Scaled
  <1>3. PICK z \in Nat, q \in Nat : /\ z = y \div len /\ q = y % len /\ z * len \in Nat
                                    /\ y = z * len + q /\ q < len
    BY <1>2, Division
  <1>4. ~(z < x)
    <2> SUFFICES ASSUME z < x PROVE FALSE
      OBVIOUS
    <2>1. z * len + len <= x * len
      BY Scaled
    <2> QED BY <1>2, <1>3, <2>1
  <1>5. ~(x < z)
    <2> SUFFICES ASSUME x < z PROVE FALSE
      OBVIOUS
    <2>1. x * len + len <= z * len
      BY Scaled
    <2> QED BY <1>2, <1>3, <2>1
  <1>6. z = x
    BY <1>4, <1>5
  <1> QED BY <1>1, <1>2, <1>3, <1>6 DEF SlotOf

-----------------------------------------------------------------------------
(* The charges: every operation keeps what validCPUCharges demands. *)

LEMMA SampleIs ==
  /\ \A q \in Samples : q # NoSample
  /\ \A r \in Sessions : r # NoSession
  BY DEF Samples, NoSample, Sessions, NoSession

LEMMA ActiveIs ==
  ASSUME NEW c \in ChargeRows, Active(c) \/ Unknown(c) \/ c.session # NoSession
  PROVE  c.session \in Sessions
  BY DEF ChargeRows, Active, Unknown, NoSession

\* Only the debt changes.
IsDebt(d, c, at, w) ==
  /\ d \in ChargeRows /\ d.session \in Sessions
  /\ d.generation = c.generation /\ d.charged = c.charged /\ d.closed = c.closed
  /\ d.recovered = c.recovered /\ d.activated = c.activated /\ d.high = c.high
  /\ d.session = [c.session EXCEPT !.backoff = w.wait, !.capped = w.capped]
  /\ d.next >= c.next /\ (w.wait > 0 => d.next >= at + w.wait)
  /\ d.next = c.next \/ d.next = at + w.wait

LEMMA DebtIs ==
  ASSUME NEW c \in ChargeRows, c.session \in Sessions, NEW at \in Nat, NEW w \in Waits
  PROVE  IsDebt(WithDebt(c, at, w), c, at, w)
  <1>1. w.wait \in Nat /\ w.capped \in BOOLEAN
    BY WaitAssumption DEF Waits
  <1>2. [c.session EXCEPT !.backoff = w.wait, !.capped = w.capped] \in Sessions
    BY <1>1 DEF Sessions
  <1>3. PICK s \in Sessions : s = [c.session EXCEPT !.backoff = w.wait, !.capped = w.capped]
    BY <1>2
  <1>4. PICK n \in Nat : /\ n = (IF w.wait > 0 THEN Latest(c.next, at + w.wait) ELSE c.next)
                         /\ n >= c.next /\ (w.wait > 0 => n >= at + w.wait)
                         /\ n = c.next \/ n = at + w.wait
    BY <1>1 DEF ChargeRows, Latest
  <1>5. WithDebt(c, at, w) = [c EXCEPT !.next = n, !.session = s]
    BY <1>3, <1>4 DEF WithDebt
  <1> QED BY <1>3, <1>4, <1>5 DEF IsDebt, ChargeRows

\* A session closes without the charge of its tail.
IsClosed(d, c, at, status, reason) ==
  /\ d \in ChargeRows /\ d.session \in Sessions
  /\ d.generation = c.generation /\ d.charged = c.charged /\ d.closed = c.closed + 1
  /\ d.recovered = (IF status = "recovered_unknown" THEN c.recovered + 1 ELSE c.recovered)
  /\ d.activated = c.activated /\ d.high = c.high
  /\ d.session = [c.session EXCEPT !.status = status, !.closedAt = at, !.reason = reason,
                                   !.lastCharge = 0, !.backoff = UnknownDelay, !.capped = FALSE]
  /\ d.next >= at + UnknownDelay /\ (d.next = c.next \/ d.next = at + UnknownDelay)

LEMMA ClosedIs ==
  ASSUME NEW c \in ChargeRows, c.session \in Sessions, NEW at \in Nat,
         NEW status \in {"unknown", "recovered_unknown"}, NEW reason \in CloseReasons
  PROVE  IsClosed(Closed(c, at, status, reason), c, at, status, reason)
  <1> DEFINE w == [wait |-> UnknownDelay, capped |-> FALSE]
             s == [c.session EXCEPT !.status = status, !.closedAt = at, !.reason = reason]
             t == [s EXCEPT !.lastCharge = 0]
             e == [c EXCEPT !.closed = @ + 1,
                            !.recovered = IF status = "recovered_unknown" THEN @ + 1 ELSE @,
                            !.session = s]
             f == [e EXCEPT !.session = t]
  <1>1. w \in Waits /\ w.wait = UnknownDelay /\ w.wait > 0 /\ w.capped = FALSE
    BY WaitAssumption DEF Waits
  <1>2. s \in Sessions /\ t \in Sessions
    BY DEF Sessions
  <1>4. Closed(c, at, status, reason) = WithDebt(f, at, w)
    BY DEF Closed
  <1>6. [t EXCEPT !.backoff = UnknownDelay, !.capped = FALSE] =
          [c.session EXCEPT !.status = status, !.closedAt = at, !.reason = reason,
                            !.lastCharge = 0, !.backoff = UnknownDelay, !.capped = FALSE]
    BY DEF Sessions
  <1> HIDE DEF s, t
  <1>7. PICK n \in Nat :
          n = (IF status = "recovered_unknown" THEN c.recovered + 1 ELSE c.recovered)
    BY DEF ChargeRows
  <1>11. PICK k \in Nat : k = c.closed + 1
    BY DEF ChargeRows
  <1>8. e = [c EXCEPT !.closed = k, !.recovered = n, !.session = s]
    BY <1>7, <1>11
  <1>9. e \in ChargeRows /\ e.next = c.next /\ e.generation = c.generation
        /\ e.charged = c.charged /\ e.closed = k /\ e.recovered = n
        /\ e.activated = c.activated /\ e.high = c.high
    <2> HIDE DEF e
    <2> QED BY <1>2, <1>8 DEF ChargeRows
  <1>10. f = [e EXCEPT !.session = t]
    OBVIOUS
  <1> HIDE DEF e, f
  <1>3. f \in ChargeRows /\ f.session = t /\ f.next = c.next
        /\ f.generation = c.generation /\ f.charged = c.charged /\ f.closed = c.closed + 1
        /\ f.recovered = (IF status = "recovered_unknown" THEN c.recovered + 1 ELSE c.recovered)
        /\ f.activated = c.activated /\ f.high = c.high
    BY <1>2, <1>7, <1>9, <1>10, <1>11 DEF ChargeRows
  <1> HIDE DEF w, e, f
  <1>5. IsDebt(WithDebt(f, at, w), f, at, w)
    BY <1>1, <1>2, <1>3, DebtIs
  <1> QED BY <1>1, <1>3, <1>4, <1>5, <1>6 DEF IsDebt, IsClosed

\* A session that was left open is closed.
IsInterrupted(d, c, at) ==
  /\ d \in ChargeRows /\ ValidCharges(d) /\ d.high = at
  /\ d.charged = c.charged /\ d.activated = c.activated
  /\ d.generation = c.generation /\ d.session \in Sessions
  /\ d.session.start = c.session.start
  /\ d.session.status = "recovered_unknown" /\ d.session.closedAt = at

LEMMA InterruptedOK ==
  ASSUME NEW c \in ChargeRows, ValidCharges(c), Active(c), NEW at \in Nat, c.high <= at
  PROVE  IsInterrupted(Interrupted(c, at), c, at)
  <1> DEFINE e == [c EXCEPT !.high = at]
             d == Interrupted(c, at)
  <1>1. c.session \in Sessions
    BY ActiveIs
  <1>2. /\ e \in ChargeRows /\ e.session = c.session /\ e.high = at /\ e.next = c.next
        /\ e.generation = c.generation /\ e.charged = c.charged /\ e.closed = c.closed
        /\ e.recovered = c.recovered /\ e.activated = c.activated
    BY DEF ChargeRows
  <1>3. IsClosed(d, e, at, "recovered_unknown", "interrupted_session")
    <2>1. "interrupted_session" \in CloseReasons /\ e.session \in Sessions
      BY <1>1, <1>2 DEF CloseReasons
    <2> HIDE DEF e
    <2> QED BY <1>2, <2>1, ClosedIs DEF Interrupted, e
  <1> HIDE DEF e, d
  <1>4. PICK r \in Sessions : r = c.session
    BY <1>1
  <1>5. PICK s \in Sessions : s = d.session
    BY <1>3 DEF IsClosed
  <1>6. /\ s.status = "recovered_unknown" /\ s.start = r.start /\ s.prefix = r.prefix
        /\ s.total = r.total /\ s.last = r.last /\ s.ordinal = r.ordinal /\ s.sample = r.sample
        /\ s.closedAt = at /\ s.reason = "interrupted_session" /\ s.lastCharge = 0
        /\ s.backoff = UnknownDelay /\ s.capped = FALSE
    BY <1>2, <1>3, <1>4, <1>5 DEF IsClosed, Sessions
  <1>7. ValidCharges(d)
    <2>1. /\ d.generation = c.generation /\ d.charged = c.charged /\ d.closed = c.closed + 1
          /\ d.recovered = c.recovered + 1 /\ d.activated = c.activated /\ d.high = at
          /\ d.next >= at + UnknownDelay /\ (d.next = c.next \/ d.next = at + UnknownDelay)
      BY <1>2, <1>3 DEF IsClosed
    <2>2. /\ c.generation \in Nat /\ c.charged \in Nat /\ c.closed \in Nat /\ c.recovered \in Nat
          /\ c.activated \in Nat /\ c.high \in Nat /\ c.next \in Nat /\ d.next \in Nat
          /\ r.start.at \in Nat /\ UnknownDelay \in Nat \ {0} /\ BackoffLimit \in Nat
          /\ UnknownDelay <= BackoffLimit /\ r.total \in Nat
      BY <1>3, WaitAssumption DEF ChargeRows, Sessions, Starts, IsClosed
    <2>3. c.generation # 0 /\ r.status = "active"
      BY <1>4, SampleIs DEF ValidCharges, Active
    <2>4. ValidCharges(c) => c.closed = c.generation - 1
      BY <1>4, <2>3 DEF ValidCharges, Active
    <2>5. /\ d.recovered <= d.closed /\ d.high >= d.activated /\ d.next - d.high <= BackoffLimit
          /\ d.closed = d.generation /\ d.generation # 0
      BY <2>1, <2>2, <2>3, <2>4 DEF ValidCharges
    <2>6. /\ r.start.at \in c.activated .. c.high
          /\ r.prefix = AtLeastZero(r.start.cpu)
          /\ r.prefix <= r.total /\ r.total <= c.charged
          /\ IF r.last = Unseen THEN r.total = 0 ELSE r.last = r.total
          /\ IF r.sample = NoSample THEN r.ordinal = 0 /\ r.last = r.start.cpu
             ELSE r.ordinal > 0 /\ r.sample.at <= c.high
      BY <1>4, <2>3 DEF ValidCharges
    <2>7. s.sample # NoSample => s.sample.at \in Nat
      BY DEF Sessions, Samples
    <2>8. ValidClosedSession(d, s)
      BY <1>6, <2>1, <2>2, <2>5, <2>6 DEF ValidClosedSession
    <2>9. /\ s.start.at \in d.activated .. d.high
          /\ s.prefix = AtLeastZero(s.start.cpu)
          /\ s.prefix <= s.total /\ s.total <= d.charged
          /\ s.lastCharge \in 0 .. s.total /\ s.backoff \in 0 .. BackoffLimit
          /\ IF s.last = Unseen THEN s.total = 0 ELSE s.last = s.total
          /\ IF s.sample = NoSample THEN s.ordinal = 0 /\ s.last = s.start.cpu
             ELSE s.ordinal > 0 /\ s.sample.at <= d.high
      BY <1>6, <2>1, <2>2, <2>6, <2>7
    <2>10. s.status \notin {"active", "finished"} /\ ~Active(d)
      BY <1>5, <1>6 DEF Active
    <2> QED BY <1>5, <2>5, <2>8, <2>9, <2>10 DEF ValidCharges
  <1>8. IsInterrupted(d, c, at)
    BY <1>2, <1>3, <1>4, <1>5, <1>6, <1>7 DEF IsClosed, IsInterrupted
  <1> QED BY <1>8 DEF d

LEMMA RowFields ==
  ASSUME NEW c \in ChargeRows
  PROVE  /\ c.generation \in Nat /\ c.charged \in Nat /\ c.closed \in Nat /\ c.recovered \in Nat
         /\ c.activated \in Nat /\ c.high \in Nat /\ c.next \in Nat
         /\ UnknownDelay \in Nat \ {0} /\ BackoffLimit \in Nat /\ UnknownDelay <= BackoffLimit
  BY WaitAssumption DEF ChargeRows

LEMMA ValidCore ==
  ASSUME NEW c \in ChargeRows, ValidCharges(c)
  PROVE  /\ c.recovered <= c.closed /\ c.high >= c.activated /\ c.next <= c.high + BackoffLimit
         /\ ~Active(c) => c.closed = c.generation
         /\ Active(c) => c.generation > 0 /\ c.closed = c.generation - 1
  <1>1. c.generation \in Nat /\ c.high \in Nat /\ c.next \in Nat /\ BackoffLimit \in Nat
    BY RowFields
  <1>2. c.recovered <= c.closed /\ c.high >= c.activated /\ c.next <= c.high + BackoffLimit
    BY <1>1 DEF ValidCharges
  <1>3. CASE c.generation = 0
    BY <1>1, <1>2, <1>3 DEF ValidCharges, Active, NoSession
  <1>4. CASE c.generation # 0
    <2>1. ~Active(c) => c.closed = c.generation
      BY <1>4 DEF ValidCharges, ValidClosedSession
    <2>2. Active(c) => c.closed = c.generation - 1
      BY <1>4 DEF ValidCharges
    <2> QED BY <1>1, <1>2, <1>4, <2>1, <2>2
  <1> QED BY <1>3, <1>4

\* A session begins.
IsBegun(d, c, start) ==
  /\ d \in ChargeRows /\ ValidCharges(d) /\ d.high = start.at
  /\ d.charged = c.charged + AtLeastZero(start.cpu) /\ d.activated = c.activated
  /\ d.generation = c.generation + 1 /\ d.session \in Sessions /\ d.session.start = start
  /\ IF start.cpu = Unseen THEN d.session.status = "unknown" /\ d.session.closedAt = start.at
     ELSE Active(d)

LEMMA BegunOK ==
  ASSUME NEW c \in ChargeRows, ValidCharges(c), ~Active(c), NEW start \in Starts,
         c.high <= start.at
  PROVE  IsBegun(Begun(c, start), c, start)
  <1> DEFINE s == [status |-> "active", start |-> start,
                   prefix |-> AtLeastZero(start.cpu),
                   total |-> AtLeastZero(start.cpu), last |-> start.cpu,
                   ordinal |-> 0, sample |-> NoSample, closedAt |-> 0,
                   reason |-> "none", lastCharge |-> AtLeastZero(start.cpu),
                   backoff |-> 0, capped |-> FALSE]
             e == [c EXCEPT !.generation = @ + 1, !.high = start.at,
                            !.charged = @ + AtLeastZero(start.cpu), !.session = s]
             d == Begun(c, start)
  <1> SUFFICES IsBegun(d, c, start)
    OBVIOUS
  <1>1. PICK at \in Nat, cpu \in CPUTimes, prefix \in Nat :
          at = start.at /\ cpu = start.cpu /\ prefix = AtLeastZero(start.cpu)
          /\ (cpu = Unseen => prefix = 0) /\ (cpu # Unseen => prefix = cpu /\ cpu \in Nat)
    BY DEF Starts, CPUTimes, Unseen, AtLeastZero
  <1>2. s \in Sessions /\ s.status = "active" /\ s.start = start /\ s.prefix = prefix
        /\ s.total = prefix /\ s.last = cpu /\ s.ordinal = 0 /\ s.sample = NoSample
        /\ s.closedAt = 0 /\ s.reason = "none" /\ s.lastCharge = prefix
    BY <1>1 DEF Sessions, CloseReasons
  <1>3. d = IF start.cpu = Unseen
              THEN Closed(e, start.at, "unknown", "cpu_observation_unavailable")
              ELSE WithDebt(e, start.at, PrefixWait(start.cpu))
    BY DEF Begun
  <1> HIDE DEF s
  <1>4. PICK g \in Nat, k \in Nat : g = c.generation + 1 /\ k = c.charged + prefix
    BY <1>1, RowFields
  <1>5. e = [c EXCEPT !.generation = g, !.high = at, !.charged = k, !.session = s]
    BY <1>1, <1>4
  <1> HIDE DEF e, d
  <1>6. /\ e \in ChargeRows /\ e.session = s /\ e.high = at /\ e.next = c.next
        /\ e.generation = g /\ e.charged = k /\ e.closed = c.closed
        /\ e.recovered = c.recovered /\ e.activated = c.activated
    BY <1>2, <1>5 DEF ChargeRows
  <1>7. /\ c.recovered <= c.closed /\ c.high >= c.activated /\ c.next <= c.high + BackoffLimit
        /\ c.closed = c.generation
    BY ValidCore
  <1>8. CASE start.cpu = Unseen
    <2>1. IsClosed(d, e, at, "unknown", "cpu_observation_unavailable")
      <3>1. "cpu_observation_unavailable" \in CloseReasons
        BY DEF CloseReasons, Problems
      <3> QED BY <1>1, <1>2, <1>3, <1>6, <1>8, <3>1, ClosedIs
    <2>2. PICK t \in Sessions : t = d.session
      BY <2>1 DEF IsClosed
    <2>3. /\ t.status = "unknown" /\ t.start = start /\ t.prefix = 0 /\ t.total = 0
          /\ t.last = Unseen /\ t.ordinal = 0 /\ t.sample = NoSample /\ t.closedAt = at
          /\ t.reason = "cpu_observation_unavailable" /\ t.lastCharge = 0
          /\ t.backoff = UnknownDelay /\ t.capped = FALSE
      BY <1>1, <1>2, <1>6, <1>8, <2>1, <2>2 DEF IsClosed, Sessions
    <2>4. /\ d \in ChargeRows /\ d.generation = g /\ d.charged = k /\ d.closed = c.closed + 1
          /\ d.recovered = c.recovered /\ d.activated = c.activated /\ d.high = at
          /\ d.next >= at + UnknownDelay /\ (d.next = c.next \/ d.next = at + UnknownDelay)
      BY <1>6, <2>1 DEF IsClosed
    <2>5. ValidClosedSession(d, t)
      BY <1>1, <1>4, <1>7, <1>8, <2>3, <2>4, RowFields DEF ValidClosedSession, ValidUnknownReason
    <2>6. ~Active(d) /\ t.status \notin {"active", "finished"}
      BY <2>2, <2>3 DEF Active
    <2>7. ValidCharges(d)
      BY <1>1, <1>4, <1>7, <1>8, <2>2, <2>3, <2>4, <2>5, <2>6, RowFields DEF ValidCharges
    <2> QED BY <1>1, <1>4, <1>8, <2>2, <2>3, <2>4, <2>7 DEF IsBegun
  <1>9. CASE start.cpu # Unseen
    <2>1. PICK w \in Waits : w = PrefixWait(prefix)
      BY <1>1, PrefixWaitOK
    <2>2. w.wait \in Nat /\ w.wait <= BackoffLimit /\ w.capped \in BOOLEAN
      BY RowFields DEF Waits
    <2>3. IsDebt(d, e, at, w)
      BY <1>1, <1>2, <1>3, <1>6, <1>9, <2>1, DebtIs
    <2>4. PICK t \in Sessions : t = d.session
      BY <2>3 DEF IsDebt
    <2>5. /\ t.status = "active" /\ t.start = start /\ t.prefix = prefix /\ t.total = prefix
          /\ t.last = cpu /\ t.ordinal = 0 /\ t.sample = NoSample /\ t.closedAt = 0
          /\ t.reason = "none" /\ t.lastCharge = prefix
          /\ t.backoff = w.wait /\ t.capped = w.capped
      BY <1>2, <1>6, <2>3, <2>4 DEF IsDebt, Sessions
    <2>6. /\ d \in ChargeRows /\ d.generation = g /\ d.charged = k /\ d.closed = c.closed
          /\ d.recovered = c.recovered /\ d.activated = c.activated /\ d.high = at
          /\ d.next >= c.next /\ (w.wait > 0 => d.next >= at + w.wait)
          /\ (d.next = c.next \/ d.next = at + w.wait)
      BY <1>6, <2>3 DEF IsDebt
    <2>7. ValidOpenSession(d, t)
      BY <1>1, <2>1, <2>5, <2>6 DEF ValidOpenSession
    <2>8. Active(d)
      BY <2>4, <2>5 DEF Active
    <2>9. ValidCharges(d)
      BY <1>1, <1>4, <1>7, <1>9, <2>2, <2>4, <2>5, <2>6, <2>7, <2>8, RowFields DEF ValidCharges
    <2> QED BY <1>1, <1>4, <1>9, <2>4, <2>5, <2>6, <2>8, <2>9 DEF IsBegun
  <1> QED BY <1>8, <1>9

\* A session is sampled.
IsSampled(d, c, q, seen) ==
  /\ d \in ChargeRows /\ ValidCharges(d) /\ d.high = Latest(q.at, seen)
  /\ d.charged >= c.charged /\ d.activated = c.activated
  /\ d.generation = c.generation /\ d.session \in Sessions
  /\ d.session.start = c.session.start
  /\ Unknown(d) => d.session.closedAt = d.high
  /\ Unknown(d) \/ Active(d) \/ (q.final /\ d.session.status = "finished")

LEMMA ProblemIs ==
  ASSUME NEW c, NEW q, NEW seen
  PROVE  LET x == SampleProblem(c, q, seen)
         IN /\ x \in Problems \cup {"none"}
            /\ x = "cpu_clock_rollback" => q.at < seen
            /\ x # "cpu_clock_rollback" => ~(q.at < seen)
            /\ x = "cpu_observation_unavailable" => q.cpu = Unseen
            /\ x = "elapsed_window_invalid" => q.cpu # Unseen /\ q.elapsed = 0
            /\ x = "cpu_observation_regressed" =>
                 q.cpu # Unseen /\ q.elapsed # 0 /\ q.cpu < c.session.last
            /\ x = "none" => q.cpu # Unseen /\ q.elapsed # 0 /\ ~(q.cpu < c.session.last)
  BY DEF SampleProblem, Problems

\* What the reader demands of every session but for its status.
LEMMA OpenSession ==
  ASSUME NEW c \in ChargeRows, ValidCharges(c), Active(c)
  PROVE  LET r == c.session
         IN /\ r \in Sessions /\ r.status = "active" /\ c.generation # 0
            /\ r.start.at \in c.activated .. c.high /\ r.start.at \in Nat
            /\ r.prefix = AtLeastZero(r.start.cpu)
            /\ r.prefix <= r.total /\ r.total <= c.charged
            /\ r.prefix \in Nat /\ r.total \in Nat /\ r.ordinal \in Nat
            /\ r.last = r.total /\ r.start.cpu # Unseen
            /\ r.closedAt = 0 /\ r.reason = "none"
  <1>1. PICK r \in Sessions : r = c.session /\ r.status = "active"
    BY ActiveIs DEF Active
  <1>2. c.generation # 0
    BY <1>1, ValidCore, RowFields
  <1>3. /\ r.start.at \in c.activated .. c.high
        /\ r.prefix = AtLeastZero(r.start.cpu)
        /\ r.prefix <= r.total /\ r.total <= c.charged
        /\ IF r.last = Unseen THEN r.total = 0 ELSE r.last = r.total
        /\ IF r.sample = NoSample THEN r.ordinal = 0 /\ r.last = r.start.cpu
           ELSE r.ordinal > 0 /\ r.sample.at <= c.high
        /\ ValidOpenSession(c, r)
        /\ r.closedAt = 0 /\ r.reason = "none" /\ r.start.cpu # Unseen
    BY <1>1, <1>2 DEF ValidCharges
  <1>4. r.last # Unseen
    <2>1. CASE r.sample = NoSample
      BY <1>3, <2>1
    <2>2. CASE r.sample # NoSample
      BY <1>3, <2>2 DEF ValidOpenSession
    <2> QED BY <2>1, <2>2
  <1>5. /\ r.start.at \in Nat /\ r.prefix \in Nat /\ r.total \in Nat /\ r.ordinal \in Nat
    BY DEF Sessions, Starts
  <1> QED BY <1>1, <1>2, <1>3, <1>4, <1>5

LEMMA SampledOK ==
  ASSUME NEW c \in ChargeRows, ValidCharges(c), Active(c), NEW q \in Samples,
         NEW seen \in Nat, c.high <= seen
  PROVE  IsSampled(Sampled(c, q, seen), c, q, seen)
  <1> DEFINE d == Sampled(c, q, seen)
             problem == SampleProblem(c, q, seen)
             at == Latest(q.at, seen)
             s == [c.session EXCEPT !.sample = q, !.ordinal = c.session.ordinal + 1]
             taken == [c EXCEPT !.high = at, !.session = s]
             charge == q.cpu - c.session.last
             u == [taken.session EXCEPT !.lastCharge = charge, !.total = q.cpu, !.last = q.cpu]
             more == [taken EXCEPT !.charged = @ + charge, !.session = u]
             counted == WithDebt(more, at, FeedbackWait(charge, q.elapsed))
  <1> SUFFICES IsSampled(d, c, q, seen)
    OBVIOUS
  <1>1. d = IF problem # "none" THEN Closed(taken, at, "unknown", problem)
            ELSE IF q.final THEN Closed(counted, at, "finished", "graceful_tail_unobserved")
            ELSE counted
    BY Zenon DEF Sampled
  <1>2. PICK r \in Sessions : r = c.session
    BY OpenSession
  <1>3. /\ r.status = "active" /\ c.generation # 0
        /\ r.start.at \in c.activated .. c.high /\ r.start.at \in Nat
        /\ r.prefix = AtLeastZero(r.start.cpu)
        /\ r.prefix <= r.total /\ r.total <= c.charged
        /\ r.prefix \in Nat /\ r.total \in Nat /\ r.ordinal \in Nat
        /\ r.last = r.total /\ r.start.cpu # Unseen
        /\ r.closedAt = 0 /\ r.reason = "none"
    BY <1>2, OpenSession
  <1>4. at \in Nat /\ at >= seen /\ at >= q.at /\ q.at \in Nat /\ (at = seen \/ at = q.at)
        /\ (~(q.at < seen) => at = q.at) /\ q.elapsed \in Nat
        /\ (q.cpu = Unseen \/ q.cpu \in Nat) /\ q.final \in BOOLEAN
    BY DEF Samples, Latest, CPUTimes
  <1>5. PICK o \in Nat : o = r.ordinal + 1 /\ o > 0
    BY <1>3
  <1>6. s = [r EXCEPT !.sample = q, !.ordinal = o]
    BY <1>2, <1>5
  <1>7. /\ s \in Sessions /\ s.status = "active" /\ s.start = r.start /\ s.prefix = r.prefix
        /\ s.total = r.total /\ s.last = r.last /\ s.ordinal = o /\ s.sample = q
        /\ s.closedAt = 0 /\ s.reason = "none"
    <2> HIDE DEF s
    <2> QED BY <1>3, <1>6 DEF Sessions
  <1> HIDE DEF d, s, at, problem
  <1>8. /\ taken \in ChargeRows /\ taken.session = s /\ taken.high = at /\ taken.next = c.next
        /\ taken.generation = c.generation /\ taken.charged = c.charged
        /\ taken.closed = c.closed /\ taken.recovered = c.recovered
        /\ taken.activated = c.activated
    BY <1>4, <1>7 DEF ChargeRows
  <1>9. /\ c.recovered <= c.closed /\ c.high >= c.activated /\ c.next <= c.high + BackoffLimit
        /\ c.generation > 0 /\ c.closed = c.generation - 1
    BY ValidCore
  <1>10. /\ problem \in Problems \cup {"none"}
         /\ problem = "cpu_clock_rollback" => q.at < seen
         /\ problem # "cpu_clock_rollback" => ~(q.at < seen)
         /\ problem = "cpu_observation_unavailable" => q.cpu = Unseen
         /\ problem = "elapsed_window_invalid" => q.cpu # Unseen /\ q.elapsed = 0
         /\ problem = "cpu_observation_regressed" =>
              q.cpu # Unseen /\ q.elapsed # 0 /\ q.cpu < r.last
         /\ problem = "none" => q.cpu # Unseen /\ q.elapsed # 0 /\ ~(q.cpu < r.last)
    BY <1>2, ProblemIs DEF problem
  <1>11. q # NoSample
    BY SampleIs
  <1>12. CASE problem # "none"
    <2> HIDE DEF taken
    <2>1. IsClosed(d, taken, at, "unknown", problem)
      <3>1. problem \in CloseReasons
        BY <1>10, <1>12 DEF CloseReasons
      <3>2. d = Closed(taken, at, "unknown", problem)
        BY <1>1, <1>12
      <3> QED BY <1>4, <1>7, <1>8, <3>1, <3>2, ClosedIs
    <2>2. PICK t \in Sessions : t = d.session
      BY <2>1 DEF IsClosed
    <2>3. /\ t.status = "unknown" /\ t.start = r.start /\ t.prefix = r.prefix
          /\ t.total = r.total /\ t.last = r.last /\ t.ordinal = o /\ t.sample = q
          /\ t.closedAt = at /\ t.reason = problem /\ t.lastCharge = 0
          /\ t.backoff = UnknownDelay /\ t.capped = FALSE
      BY <1>7, <1>8, <2>1, <2>2 DEF IsClosed, Sessions
    <2>4. /\ d \in ChargeRows /\ d.generation = c.generation /\ d.charged = c.charged
          /\ d.closed = c.closed + 1
          /\ d.recovered = c.recovered /\ d.activated = c.activated /\ d.high = at
          /\ d.next >= at + UnknownDelay /\ (d.next = c.next \/ d.next = at + UnknownDelay)
      BY <1>8, <2>1 DEF IsClosed
    <2>5. ValidUnknownReason(t)
      BY <1>3, <1>4, <1>10, <1>11, <1>12, <2>3 DEF ValidUnknownReason, Problems, Unseen
    <2>6. ValidClosedSession(d, t)
      BY <1>3, <1>4, <1>9, <2>3, <2>4, <2>5, RowFields DEF ValidClosedSession
    <2>7. ~Active(d) /\ t.status \notin {"active", "finished"}
      BY <2>2, <2>3 DEF Active
    <2>8. ValidCharges(d)
      BY <1>3, <1>4, <1>5, <1>9, <1>11, <2>2, <2>3, <2>4, <2>6, <2>7, RowFields
      DEF ValidCharges, Unseen
    <2> QED BY <1>2, <1>4, <2>2, <2>3, <2>4, <2>8, RowFields DEF IsSampled, Unknown, at
  <1>13. CASE problem = "none"
    <2>1. PICK k \in Nat, cpu \in Nat, n \in Nat :
            k = charge /\ cpu = q.cpu /\ n = c.charged + k /\ cpu = r.last + k
      BY <1>2, <1>3, <1>4, <1>10, <1>13, RowFields DEF Unseen
    <2>2. PICK w \in Waits : w = FeedbackWait(k, q.elapsed)
      BY <1>4, FeedbackWaitOK
    <2>3. w.wait \in Nat /\ w.wait <= BackoffLimit /\ w.capped \in BOOLEAN
      BY RowFields DEF Waits
    <2>4. u = [s EXCEPT !.lastCharge = k, !.total = cpu, !.last = cpu]
      BY <1>8, <2>1
    <2> HIDE DEF u
    <2>5. /\ u \in Sessions /\ u.status = "active" /\ u.start = r.start /\ u.prefix = r.prefix
          /\ u.total = cpu /\ u.last = cpu /\ u.ordinal = o /\ u.sample = q
          /\ u.closedAt = 0 /\ u.reason = "none" /\ u.lastCharge = k
      BY <1>7, <2>4 DEF Sessions, CPUTimes
    <2>6. more = [taken EXCEPT !.charged = n, !.session = u]
      BY <1>8, <2>1
    <2> HIDE DEF taken, more
    <2>7. /\ more \in ChargeRows /\ more.session = u /\ more.high = at /\ more.next = c.next
          /\ more.generation = c.generation /\ more.charged = n
          /\ more.closed = c.closed /\ more.recovered = c.recovered
          /\ more.activated = c.activated
      BY <1>8, <2>5, <2>6 DEF ChargeRows
    <2>8. IsDebt(counted, more, at, w)
      BY <1>4, <2>1, <2>2, <2>5, <2>7, DebtIs
    <2> HIDE DEF counted
    <2>9. PICK t \in Sessions : t = counted.session
      BY <2>8 DEF IsDebt
    <2>10. /\ t.status = "active" /\ t.start = r.start /\ t.prefix = r.prefix
           /\ t.total = cpu /\ t.last = cpu /\ t.ordinal = o /\ t.sample = q
           /\ t.closedAt = 0 /\ t.reason = "none" /\ t.lastCharge = k
           /\ t.backoff = w.wait /\ t.capped = w.capped
      BY <2>5, <2>7, <2>8, <2>9 DEF IsDebt, Sessions
    <2>11. /\ counted \in ChargeRows /\ counted.generation = c.generation
           /\ counted.charged = n /\ counted.closed = c.closed
           /\ counted.recovered = c.recovered /\ counted.activated = c.activated
           /\ counted.high = at
           /\ counted.next >= c.next /\ (w.wait > 0 => counted.next >= at + w.wait)
           /\ (counted.next = c.next \/ counted.next = at + w.wait)
      BY <2>7, <2>8 DEF IsDebt
    <2>12. at = q.at /\ at >= c.high
      BY <1>4, <1>10, <1>13, RowFields
    <2>13. /\ r.start.at \in c.activated .. at /\ r.prefix <= cpu /\ cpu <= n /\ k <= cpu
           /\ q.cpu # Unseen /\ q.elapsed > 0
      BY <1>3, <1>4, <1>10, <1>13, <2>1, <2>12, RowFields DEF Unseen
    <2>14. CASE ~q.final
      <3>1. d = counted
        BY <1>1, <1>13, <2>14
      <3>2. ValidOpenSession(d, t)
        BY <1>11, <2>1, <2>2, <2>10, <2>11, <2>12, <2>13, <3>1 DEF ValidOpenSession
      <3>3. Active(d)
        BY <2>9, <2>10, <3>1 DEF Active
      <3>4. ValidCharges(d)
        BY <1>3, <1>4, <1>5, <1>9, <1>11, <2>1, <2>3, <2>9, <2>10, <2>11, <2>12, <2>13, <2>14, <3>1,
           <3>2, <3>3, RowFields DEF ValidCharges, Unseen
      <3> QED BY <1>2, <2>1, <2>9, <2>10, <2>11, <3>1, <3>3, <3>4, RowFields
              DEF IsSampled, Unknown, at
    <2>15. CASE q.final
      <3> DEFINE v == [t EXCEPT !.status = "finished", !.closedAt = at,
                                !.reason = "graceful_tail_unobserved"]
      <3>1. d = [counted EXCEPT !.closed = @ + 1, !.recovered = @, !.session = v]
        BY <1>1, <1>13, <2>9, <2>15 DEF Closed
      <3>2. /\ v \in Sessions /\ v.status = "finished" /\ v.start = r.start /\ v.prefix = r.prefix
            /\ v.total = cpu /\ v.last = cpu /\ v.ordinal = o /\ v.sample = q
            /\ v.closedAt = at /\ v.reason = "graceful_tail_unobserved" /\ v.lastCharge = k
            /\ v.backoff = w.wait /\ v.capped = w.capped
        BY <1>4, <2>10 DEF Sessions, CloseReasons
      <3> HIDE DEF v
      <3>3. PICK m \in Nat : m = c.closed + 1
        BY RowFields
      <3>4. d = [counted EXCEPT !.closed = m, !.session = v]
        BY <2>11, <3>1, <3>3 DEF ChargeRows
      <3>5. /\ d \in ChargeRows /\ d.generation = c.generation /\ d.charged = n /\ d.closed = m
            /\ d.recovered = c.recovered /\ d.activated = c.activated /\ d.high = at
            /\ d.next = counted.next /\ d.session = v
        BY <2>11, <3>2, <3>4 DEF ChargeRows
      <3>6. ValidOpenSession(d, v)
        BY <1>11, <2>1, <2>2, <2>11, <2>12, <2>13, <3>2, <3>5 DEF ValidOpenSession
      <3>7. ValidClosedSession(d, v)
        BY <1>3, <1>4, <1>9, <1>11, <2>12, <2>13, <2>15, <3>2, <3>3, <3>5, RowFields
        DEF ValidClosedSession
      <3>8. ~Active(d)
        BY <3>2, <3>5 DEF Active
      <3>9. /\ d.recovered <= d.closed /\ d.high >= d.activated /\ d.next - d.high <= BackoffLimit
            /\ d.generation # 0
        BY <1>4, <1>9, <2>3, <2>11, <2>12, <3>3, <3>5, RowFields
      <3>10. /\ v.start.at \in d.activated .. d.high
             /\ v.prefix = AtLeastZero(v.start.cpu)
             /\ v.prefix <= v.total /\ v.total <= d.charged
        BY <1>3, <2>13, <3>2, <3>5
      <3>14. v.lastCharge \in 0 .. v.total /\ v.backoff \in 0 .. BackoffLimit
        <4>1. k \in 0..cpu
          BY <2>1, <2>13
        <4>2. w.wait \in 0..BackoffLimit
          BY <2>3, WaitAssumption
        <4> QED BY <3>2, <4>1, <4>2
      <3>15. /\ v.last = v.total /\ v.last # Unseen
             /\ v.sample # NoSample /\ v.ordinal > 0 /\ v.sample.at <= d.high
        BY <1>4, <1>5, <1>11, <2>1, <3>2, <3>5 DEF Unseen
      <3>11. ValidCharges(d)
        BY <3>2, <3>5, <3>6, <3>7, <3>8, <3>9, <3>10, <3>14, <3>15 DEF ValidCharges
      <3>12. ~Unknown(d) /\ d.session.status = "finished" /\ d.session.start = c.session.start
        BY <1>2, <3>2, <3>5 DEF Unknown
      <3>13. d.high = Latest(q.at, seen) /\ d.charged >= c.charged
        <4>1. c.charged \in Nat
          BY RowFields
        <4>2. n >= c.charged
          BY <2>1, <4>1
        <4>3. at = Latest(q.at, seen)
          BY DEF at
        <4> QED BY <3>5, <4>2, <4>3
      <3> QED BY <2>15, <3>2, <3>5, <3>11, <3>12, <3>13 DEF IsSampled
    <2> QED BY <1>4, <2>14, <2>15
  <1> QED BY <1>12, <1>13

\* cpuChargesBase.
LEMMA NewChargesOK ==
  ASSUME NEW at \in Nat
  PROVE  /\ NewCharges(at) \in ChargeRows /\ ValidCharges(NewCharges(at))
         /\ ~Active(NewCharges(at)) /\ NewCharges(at).high = at
  <1> DEFINE c == NewCharges(at)
  <1>1. c \in ChargeRows /\ c.session = NoSession /\ c.generation = 0 /\ c.charged = 0
        /\ c.closed = 0 /\ c.recovered = 0 /\ c.next = 0 /\ c.activated = at /\ c.high = at
    BY DEF NewCharges, ChargeRows
  <1> HIDE DEF c
  <1>2. ~Active(c)
    BY <1>1 DEF Active, NoSession
  <1>3. ValidCharges(c)
    BY <1>1, WaitAssumption DEF ValidCharges
  <1> QED BY <1>1, <1>2, <1>3 DEF c

-----------------------------------------------------------------------------
(* The slots: every operation keeps what validCPUAdmission demands. *)

SlotRows == [start : Nat, assigned : Nat, retired : Nat, partial : BOOLEAN, unknown : BOOLEAN]
LimitRows == [hour : Nat, day : Nat]
Begins == [rev : Nat \ {0}, start : Starts]
Gaps == [rev : Nat \ {0}, generation : Nat, at : Nat]
AdmissionRows ==
  [activated : Nat, high : Nat, baseline : Nat, rev : Nat, limits : LimitRows,
   hour : SlotRows, day : SlotRows, bound : ChargeRows, begin : {NoBegin} \cup Begins,
   gapOpen : BOOLEAN, gapOpenedAt : Nat, gapClosedAt : Nat, gap : {NoGap} \cup Gaps]

LEMMA BeginIs ==
  /\ \A b \in Begins : b # NoBegin
  /\ \A g \in Gaps : g # NoGap
  BY DEF Begins, NoBegin, Gaps, NoGap

\* A slot moves to the moment at, with what was charged since.
IsRolledSlot(new, old, seen, at, len, charge, unknown) ==
  /\ new \in SlotRows /\ new.start = SlotOf(at, len)
  /\ new.retired + new.assigned = old.retired + old.assigned + charge
  /\ unknown => new.unknown
  /\ \A t \in Nat : t <= seen /\ SlotOf(t, len) = new.start =>
        new.start = old.start /\ (old.partial => new.partial)

LEMMA RolledSlotIs ==
  ASSUME NEW old \in SlotRows, NEW seen \in Nat, NEW at \in Nat, NEW len \in Nat \ {0},
         NEW charge \in Nat, NEW unknown \in BOOLEAN,
         old.start = SlotOf(seen, len), seen <= at
  PROVE  IsRolledSlot(RolledSlot(old, at, len, charge, unknown),
                      old, seen, at, len, charge, unknown)
  <1> DEFINE new == RolledSlot(old, at, len, charge, unknown)
             fresh == IF old.start = SlotOf(at, len) THEN old
                      ELSE [NewSlot(at, len) EXCEPT !.retired = old.retired + old.assigned]
  <1> SUFFICES IsRolledSlot(new, old, seen, at, len, charge, unknown)
    OBVIOUS
  <1>1. PICK s \in Nat : s = SlotOf(at, len) /\ SlotOf(seen, len) <= s
    BY SlotBounds
  <1>2. new = [fresh EXCEPT !.assigned = fresh.assigned + charge,
                            !.unknown = fresh.unknown \/ unknown]
    BY DEF RolledSlot
  <1>3. /\ old.start \in Nat /\ old.assigned \in Nat /\ old.retired \in Nat
        /\ old.partial \in BOOLEAN /\ old.unknown \in BOOLEAN
    BY DEF SlotRows
  <1>4. /\ fresh \in SlotRows /\ fresh.start = s
        /\ fresh.retired + fresh.assigned = old.retired + old.assigned
        /\ old.start = s => fresh.partial = old.partial
    <2>1. CASE old.start = s
      <3>1. fresh = old
        BY <1>1, <2>1
      <3> HIDE DEF fresh
      <3> QED BY <1>3, <2>1, <3>1
    <2>2. CASE old.start # s
      <3>1. PICK x \in Nat : x = old.retired + old.assigned
        BY <1>3
      <3>2. fresh = [start |-> s, assigned |-> 0, retired |-> x,
                     partial |-> FALSE, unknown |-> FALSE]
        BY <1>1, <2>2, <3>1 DEF NewSlot
      <3> HIDE DEF fresh
      <3>3. fresh.start = s /\ fresh.assigned = 0 /\ fresh.retired = x
        BY <3>2
      <3>4. fresh \in SlotRows
        BY <3>2, Zenon DEF SlotRows
      <3>5. fresh.retired + fresh.assigned = old.retired + old.assigned
        BY <3>1, <3>3
      <3> QED BY <2>2, <3>3, <3>4, <3>5
    <2> QED BY <2>1, <2>2
  <1> HIDE DEF new, fresh
  <1>5. PICK a \in Nat, u \in BOOLEAN : /\ a = fresh.assigned + charge
                                        /\ u = (fresh.unknown \/ unknown)
    BY <1>4 DEF SlotRows
  <1>6. /\ new \in SlotRows /\ new.start = s /\ new.assigned = a /\ new.retired = fresh.retired
        /\ new.unknown = u /\ new.partial = fresh.partial
    BY <1>2, <1>4, <1>5 DEF SlotRows
  <1>7. /\ new.retired + new.assigned = old.retired + old.assigned + charge
        /\ unknown => new.unknown
    <2>1. fresh.retired \in Nat /\ fresh.assigned \in Nat
      BY <1>4 DEF SlotRows
    <2> QED BY <1>3, <1>4, <1>5, <1>6, <2>1
  <1>8. ASSUME NEW t \in Nat, t <= seen, SlotOf(t, len) = new.start
        PROVE  new.start = old.start /\ (old.partial => new.partial)
    <2>1. SlotOf(t, len) \in Nat /\ SlotOf(seen, len) \in Nat /\ SlotOf(t, len) <= SlotOf(seen, len)
      BY <1>8, SlotBounds
    <2>2. s = old.start
      BY <1>1, <1>6, <1>8, <2>1
    <2> QED BY <1>4, <1>6, <2>2
  <1> QED BY <1>1, <1>6, <1>7, <1>8 DEF IsRolledSlot

\* The slots move to the moment at and are bound to the charges e.
IsRolled(n, p, e, at, unknown) ==
  /\ n \in AdmissionRows
  /\ n.activated = p.activated /\ n.high = at /\ n.baseline = p.baseline /\ n.rev = p.rev
  /\ n.limits = p.limits /\ n.bound = e /\ n.begin = p.begin /\ n.gapOpen = p.gapOpen
  /\ n.gapOpenedAt = p.gapOpenedAt /\ n.gapClosedAt = p.gapClosedAt /\ n.gap = p.gap
  /\ IsRolledSlot(n.hour, p.hour, p.high, at, HourLen, e.charged - p.bound.charged, unknown)
  /\ IsRolledSlot(n.day, p.day, p.high, at, DayLen, e.charged - p.bound.charged, unknown)

LEMMA AdmissionFields ==
  ASSUME NEW p \in AdmissionRows
  PROVE  /\ p.activated \in Nat /\ p.high \in Nat /\ p.baseline \in Nat /\ p.rev \in Nat
         /\ p.limits \in LimitRows /\ p.hour \in SlotRows /\ p.day \in SlotRows
         /\ p.bound \in ChargeRows /\ p.begin \in {NoBegin} \cup Begins /\ p.gapOpen \in BOOLEAN
         /\ p.gapOpenedAt \in Nat /\ p.gapClosedAt \in Nat /\ p.gap \in {NoGap} \cup Gaps
         /\ HourLen \in Nat \ {0} /\ DayLen \in Nat \ {0}
  BY ClockAssumption DEF AdmissionRows

LEMMA RolledIs ==
  ASSUME NEW p \in AdmissionRows, NEW c \in ChargeRows, ValidSlots(p, c), NEW e \in ChargeRows,
         c.charged <= e.charged, NEW at \in Nat, p.high <= at, NEW unknown \in BOOLEAN
  PROVE  IsRolled(Rolled(p, e, at, unknown), p, e, at, unknown)
  <1> DEFINE n == Rolled(p, e, at, unknown)
             charge == e.charged - p.bound.charged
             hour == RolledSlot(p.hour, at, HourLen, charge, unknown)
             day == RolledSlot(p.day, at, DayLen, charge, unknown)
  <1> SUFFICES IsRolled(n, p, e, at, unknown)
    OBVIOUS
  <1>1. n = [p EXCEPT !.hour = hour, !.day = day, !.high = at, !.bound = e]
    BY DEF Rolled
  <1>2. /\ p.bound = c
        /\ p.hour.start = SlotOf(p.high, HourLen) /\ p.day.start = SlotOf(p.high, DayLen)
    BY DEF ValidSlots, ValidSlot
  <1>3. charge \in Nat
    BY <1>2, RowFields
  <1> HIDE DEF charge, n
  <1>4. /\ IsRolledSlot(hour, p.hour, p.high, at, HourLen, charge, unknown)
        /\ IsRolledSlot(day, p.day, p.high, at, DayLen, charge, unknown)
    <2>1. /\ p.hour \in SlotRows /\ p.day \in SlotRows /\ p.high \in Nat
          /\ HourLen \in Nat \ {0} /\ DayLen \in Nat \ {0}
      BY AdmissionFields
    <2>2. IsRolledSlot(hour, p.hour, p.high, at, HourLen, charge, unknown)
      BY <1>2, <1>3, <2>1, RolledSlotIs
    <2>3. IsRolledSlot(day, p.day, p.high, at, DayLen, charge, unknown)
      BY <1>2, <1>3, <2>1, RolledSlotIs
    <2> QED BY <2>2, <2>3
  <1> HIDE DEF hour, day
  <1>5. hour \in SlotRows /\ day \in SlotRows
    BY <1>4 DEF IsRolledSlot
  <1>6. /\ n \in AdmissionRows /\ n.hour = hour /\ n.day = day
        /\ n.activated = p.activated /\ n.high = at /\ n.baseline = p.baseline /\ n.rev = p.rev
        /\ n.limits = p.limits /\ n.bound = e /\ n.begin = p.begin /\ n.gapOpen = p.gapOpen
        /\ n.gapOpenedAt = p.gapOpenedAt /\ n.gapClosedAt = p.gapClosedAt /\ n.gap = p.gap
    BY <1>1, <1>5 DEF AdmissionRows
  <1> QED BY <1>4, <1>6 DEF IsRolled, charge

\* A slot old of the rows p, bound to the charges c, is rolled to new and perhaps
\* marked as partial, as the slot x of the rows n for the charges e.
SlotMoves(p, n, c, e, old, new, x, len, at, unknown) ==
  /\ ValidSlot(p, c, old, len) /\ p.bound = c /\ p.activated <= p.high /\ p.gapClosedAt <= p.high
  /\ IsRolledSlot(new, old, p.high, at, len, e.charged - p.bound.charged, unknown)
  /\ n.high = at /\ n.baseline = p.baseline /\ n.activated = p.activated
  /\ x.start = new.start /\ x.assigned = new.assigned /\ x.retired = new.retired
  /\ (new.partial => x.partial) /\ (new.unknown => x.unknown)
  /\ n.gapClosedAt = p.gapClosedAt \/ n.gapClosedAt = 0 \/ x.partial
  /\ Unknown(e) => unknown

\* Such a slot is one the reader accepts.
LEMMA SlotMoved ==
  ASSUME NEW p \in AdmissionRows, NEW n \in AdmissionRows, NEW c \in ChargeRows,
         NEW e \in ChargeRows, NEW old \in SlotRows, NEW new \in SlotRows, NEW x, NEW len \in Nat \ {0},
         NEW at, NEW unknown, SlotMoves(p, n, c, e, old, new, x, len, at, unknown)
  PROVE  ValidSlot(n, e, x, len)
  <1> USE DEF SlotMoves
  <1>1. /\ p.activated \in Nat /\ p.gapClosedAt \in Nat /\ p.high \in Nat /\ p.baseline \in Nat
        /\ c.charged \in Nat /\ e.charged \in Nat
    BY AdmissionFields, RowFields
  <1>2. /\ new.assigned \in Nat /\ new.retired \in Nat
        /\ old.assigned \in Nat /\ old.retired \in Nat
    BY DEF SlotRows
  <1>3. x.start = SlotOf(n.high, len)
    BY DEF IsRolledSlot
  <1>4. n.baseline + x.retired + x.assigned = e.charged
    <2>1. p.baseline + old.retired + old.assigned = c.charged
      BY DEF ValidSlot
    <2>2. new.retired + new.assigned = old.retired + old.assigned + (e.charged - c.charged)
      BY DEF IsRolledSlot
    <2> QED BY <1>1, <1>2, <2>1, <2>2
  <1>5. ASSUME NEW t \in Nat, t <= p.high, SlotOf(t, len) = x.start,
               SlotOf(t, len) = old.start => old.partial
        PROVE  x.partial
    <2>1. new.start = old.start /\ (old.partial => new.partial)
      BY <1>5 DEF IsRolledSlot
    <2> QED BY <1>5, <2>1
  <1>6. x.start = SlotOf(n.activated, len) => x.partial
    <2>1. old.start = SlotOf(p.activated, len) => old.partial
      BY DEF ValidSlot
    <2> QED BY <1>1, <1>5, <2>1
  <1>7. n.gapClosedAt # 0 /\ SlotOf(n.gapClosedAt, len) = x.start => x.partial
    <2>1. p.gapClosedAt # 0 /\ SlotOf(p.gapClosedAt, len) = old.start => old.partial
      BY DEF ValidSlot
    <2>2. CASE n.gapClosedAt = p.gapClosedAt
      BY <1>1, <1>5, <2>1, <2>2
    <2> QED BY <2>2
  <1>8. Unknown(e) => x.unknown
    BY DEF IsRolledSlot
  <1> QED BY <1>3, <1>4, <1>6, <1>7, <1>8 DEF ValidSlot

\* What the rows hold together: an open session was begun under the slots.
SlotsOK(p, c) == p \in AdmissionRows /\ ValidSlots(p, c) /\ (Active(c) => p.begin # NoBegin)

LEMMA SlotsCore ==
  ASSUME NEW c \in ChargeRows, NEW p, SlotsOK(p, c)
  PROVE  /\ p \in AdmissionRows /\ p.bound = c
         /\ p.activated >= c.activated /\ p.high >= p.activated /\ p.high >= c.high
         /\ p.baseline <= c.charged /\ p.gapClosedAt <= p.high
         /\ ValidSlot(p, c, p.hour, HourLen) /\ ValidSlot(p, c, p.day, DayLen)
         /\ ValidGap(p, c) /\ (p.gapOpen => ~Active(c))
         /\ p.begin # NoBegin => /\ p.begin \in Begins /\ p.begin.rev <= p.rev
                                 /\ p.begin.start = c.session.start /\ p.rev # 0
         /\ p.begin = NoBegin => p.limits # [hour |-> 0, day |-> 0]
         /\ p.rev = 0 => /\ p.begin = NoBegin /\ p.gap = NoGap
                         /\ p.high = p.activated /\ p.baseline = c.charged
  <1>1. p \in AdmissionRows /\ ValidSlots(p, c)
    BY DEF SlotsOK
  <1>2. /\ p.bound = c
        /\ p.activated >= c.activated /\ p.high >= p.activated /\ p.high >= c.high
        /\ p.baseline <= c.charged
        /\ ValidSlot(p, c, p.hour, HourLen) /\ ValidSlot(p, c, p.day, DayLen)
        /\ ValidGap(p, c)
        /\ p.begin # NoBegin => p.begin.rev <= p.rev /\ p.begin.start = c.session.start
        /\ p.begin = NoBegin => p.limits # [hour |-> 0, day |-> 0]
        /\ p.rev = 0 => /\ p.begin = NoBegin /\ p.gap = NoGap
                        /\ p.high = p.activated /\ p.baseline = c.charged
    BY <1>1 DEF ValidSlots
  <1>3. p.gapClosedAt <= p.high
    BY <1>1, <1>2, AdmissionFields DEF ValidGap
  <1>4. p.gapOpen => ~Active(c)
    BY <1>2 DEF ValidGap
  <1>5. p.begin # NoBegin => p.begin \in Begins
    BY <1>1, AdmissionFields
  <1> QED BY <1>1, <1>2, <1>3, <1>4, <1>5

\* cpuAdmissionBase: no session is open when the slots are activated.
LEMMA NewSlotsOK ==
  ASSUME NEW c \in ChargeRows, ValidCharges(c), ~Active(c), NEW at \in Nat, c.high <= at,
         NEW limits \in LimitRows, limits # [hour |-> 0, day |-> 0]
  PROVE  /\ SlotsOK(NewSlots(c, at, limits), c)
         /\ NewSlots(c, at, limits).high = at /\ NewSlots(c, at, limits).limits = limits
  <1> DEFINE p == NewSlots(c, at, limits)
             hour == Partial(NewSlot(at, HourLen))
             day == Partial(NewSlot(at, DayLen))
  <1>1. HourLen \in Nat \ {0} /\ DayLen \in Nat \ {0} /\ c.activated <= c.high
        /\ c.activated \in Nat /\ c.high \in Nat /\ c.charged \in Nat
    BY ClockAssumption, ValidCore, RowFields
  <1>2. PICK x \in Nat, y \in Nat : x = SlotOf(at, HourLen) /\ y = SlotOf(at, DayLen)
    BY <1>1, SlotBounds
  <1>3. /\ hour \in SlotRows /\ hour.start = x
        /\ hour.assigned = 0 /\ hour.retired = 0 /\ hour.partial
        /\ day \in SlotRows /\ day.start = y
        /\ day.assigned = 0 /\ day.retired = 0 /\ day.partial
    BY <1>2 DEF Partial, NewSlot, SlotRows
  <1>4. p = [activated |-> at, high |-> at, baseline |-> c.charged, rev |-> 0,
             limits |-> limits, hour |-> hour, day |-> day, bound |-> c, begin |-> NoBegin,
             gapOpen |-> FALSE, gapOpenedAt |-> 0, gapClosedAt |-> 0, gap |-> NoGap]
    BY DEF NewSlots
  <1> HIDE DEF p, hour, day
  <1>5. /\ p \in AdmissionRows /\ p.activated = at /\ p.high = at /\ p.baseline = c.charged
        /\ p.rev = 0 /\ p.limits = limits /\ p.hour = hour /\ p.day = day /\ p.bound = c
        /\ p.begin = NoBegin /\ p.gapOpen = FALSE /\ p.gapOpenedAt = 0 /\ p.gapClosedAt = 0
        /\ p.gap = NoGap
    BY <1>1, <1>3, <1>4 DEF AdmissionRows
  <1>6. ValidSlot(p, c, p.hour, HourLen) /\ ValidSlot(p, c, p.day, DayLen)
    BY <1>1, <1>2, <1>3, <1>5 DEF ValidSlot
  <1>7. ValidGap(p, c)
    BY <1>5 DEF ValidGap
  <1>8. ValidSlots(p, c)
    BY <1>1, <1>5, <1>6, <1>7 DEF ValidSlots
  <1> QED BY <1>5, <1>8 DEF SlotsOK, p

\* The bound charges move on within a session.
LEMMA RolledOK ==
  ASSUME NEW c \in ChargeRows, NEW p, SlotsOK(p, c), Active(c), NEW e \in ChargeRows,
         e.charged >= c.charged, e.generation = c.generation, e.activated = c.activated,
         e.session.start = c.session.start, NEW at \in Nat, p.high <= at, e.high <= at,
         NEW unknown \in BOOLEAN, Unknown(e) => unknown
  PROVE  /\ SlotsOK(Rolled(p, e, at, unknown), e)
         /\ Rolled(p, e, at, unknown).high = at /\ Rolled(p, e, at, unknown).limits = p.limits
         /\ Rolled(p, e, at, unknown).gapOpen = p.gapOpen
  <1> DEFINE n == Rolled(p, e, at, unknown)
  <1>1. /\ p \in AdmissionRows /\ ValidSlots(p, c) /\ p.begin # NoBegin /\ ~p.gapOpen
        /\ p.rev # 0 /\ p.begin.rev <= p.rev /\ p.begin.start = c.session.start
        /\ p.bound = c /\ p.activated >= c.activated /\ p.high >= p.activated
        /\ p.baseline <= c.charged /\ p.gapClosedAt <= p.high
        /\ ValidSlot(p, c, p.hour, HourLen) /\ ValidSlot(p, c, p.day, DayLen) /\ ValidGap(p, c)
    BY SlotsCore DEF SlotsOK
  <1>2. /\ p.activated \in Nat /\ p.high \in Nat /\ p.baseline \in Nat /\ p.rev \in Nat
        /\ p.hour \in SlotRows /\ p.day \in SlotRows /\ p.gapOpen \in BOOLEAN
        /\ p.gapOpenedAt \in Nat /\ p.gapClosedAt \in Nat
        /\ HourLen \in Nat \ {0} /\ DayLen \in Nat \ {0}
        /\ c.charged \in Nat /\ e.charged \in Nat /\ e.activated \in Nat /\ e.high \in Nat
        /\ c.generation \in Nat
    BY <1>1, AdmissionFields, RowFields
  <1>3. IsRolled(n, p, e, at, unknown)
    BY <1>1, RolledIs
  <1> HIDE DEF n
  <1>8. /\ n \in AdmissionRows /\ n.high = at
        /\ n.baseline = p.baseline /\ n.activated = p.activated
        /\ n.gapClosedAt = p.gapClosedAt
        /\ IsRolledSlot(n.hour, p.hour, p.high, at, HourLen, e.charged - p.bound.charged, unknown)
        /\ IsRolledSlot(n.day, p.day, p.high, at, DayLen, e.charged - p.bound.charged, unknown)
    BY <1>3 DEF IsRolled
  <1>4. ValidSlot(n, e, n.hour, HourLen)
    <2>1. n.hour \in SlotRows
      BY <1>3 DEF IsRolled, IsRolledSlot
    <2>2. SlotMoves(p, n, c, e, p.hour, n.hour, n.hour, HourLen, at, unknown)
      BY <1>1, <1>8 DEF SlotMoves
    <2> QED BY <1>1, <1>2, <1>8, <2>1, <2>2, SlotMoved
  <1>5. ValidSlot(n, e, n.day, DayLen)
    <2>1. n.day \in SlotRows
      BY <1>3 DEF IsRolled, IsRolledSlot
    <2>2. SlotMoves(p, n, c, e, p.day, n.day, n.day, DayLen, at, unknown)
      BY <1>1, <1>8 DEF SlotMoves
    <2> QED BY <1>1, <1>2, <1>8, <2>1, <2>2, SlotMoved
  <1>6. ValidGap(n, e)
    BY <1>1, <1>2, <1>3 DEF IsRolled, ValidGap
  <1>7. ValidSlots(n, e)
    BY <1>1, <1>2, <1>3, <1>4, <1>5, <1>6 DEF IsRolled, ValidSlots
  <1> QED BY <1>1, <1>3, <1>7 DEF IsRolled, SlotsOK, n

LEMMA SlotsFields ==
  ASSUME NEW c \in ChargeRows, NEW p, SlotsOK(p, c)
  PROVE  /\ p.activated \in Nat /\ p.high \in Nat /\ p.baseline \in Nat /\ p.rev \in Nat
         /\ p.hour \in SlotRows /\ p.day \in SlotRows /\ p.gapOpen \in BOOLEAN
         /\ p.gapOpenedAt \in Nat /\ p.gapClosedAt \in Nat /\ p.limits \in LimitRows
         /\ HourLen \in Nat \ {0} /\ DayLen \in Nat \ {0}
         /\ c.charged \in Nat /\ c.activated \in Nat /\ c.high \in Nat /\ c.generation \in Nat
  BY SlotsCore, AdmissionFields, RowFields

LEMMA PartialIs ==
  ASSUME NEW s \in SlotRows
  PROVE  /\ Partial(s) \in SlotRows /\ Partial(s).start = s.start
         /\ Partial(s).assigned = s.assigned /\ Partial(s).retired = s.retired
         /\ Partial(s).partial /\ Partial(s).unknown = s.unknown
  BY DEF Partial, SlotRows

\* A session begins under the slots; an open gap ends.
LEMMA BegunSlotsOK ==
  ASSUME NEW c \in ChargeRows, NEW p, SlotsOK(p, c), NEW start \in Starts,
         NEW e, IsBegun(e, c, start), p.high <= start.at, NEW limits \in LimitRows
  PROVE  /\ SlotsOK(BegunSlots(p, e, start, limits), e)
         /\ BegunSlots(p, e, start, limits).high = start.at
         /\ BegunSlots(p, e, start, limits).limits = limits
         /\ ~BegunSlots(p, e, start, limits).gapOpen
  <1> DEFINE at == start.at
             q == Rolled(p, e, at, Unknown(e))
             next == [q EXCEPT !.rev = @ + 1, !.limits = limits,
                               !.begin = [rev |-> p.rev + 1, start |-> start]]
             n == BegunSlots(p, e, start, limits)
             unknown == Unknown(e)
  <1>1. /\ p \in AdmissionRows /\ ValidSlots(p, c) /\ p.bound = c /\ p.activated >= c.activated
        /\ p.high >= p.activated /\ p.high >= c.high /\ p.baseline <= c.charged
        /\ p.gapClosedAt <= p.high
        /\ ValidSlot(p, c, p.hour, HourLen) /\ ValidSlot(p, c, p.day, DayLen) /\ ValidGap(p, c)
    BY SlotsCore DEF SlotsOK
  <1>2. /\ p.activated \in Nat /\ p.high \in Nat /\ p.baseline \in Nat /\ p.rev \in Nat
        /\ p.hour \in SlotRows /\ p.day \in SlotRows /\ p.gapOpen \in BOOLEAN
        /\ p.gapOpenedAt \in Nat /\ p.gapClosedAt \in Nat
        /\ HourLen \in Nat \ {0} /\ DayLen \in Nat \ {0}
        /\ c.charged \in Nat /\ c.activated \in Nat /\ c.high \in Nat /\ c.generation \in Nat
    BY SlotsFields
  <1>3. /\ e \in ChargeRows /\ e.charged >= c.charged /\ e.activated = c.activated /\ e.high = at
        /\ e.generation = c.generation + 1 /\ e.session.start = start /\ at \in Nat
        /\ e.charged \in Nat
    <2>1. e \in ChargeRows /\ at \in Nat /\ AtLeastZero(start.cpu) \in Nat
      BY DEF IsBegun, Starts, AtLeastZero, CPUTimes, Unseen
    <2>2. PICK x \in Nat : x = AtLeastZero(start.cpu)
      BY <2>1
    <2> QED BY <1>2, <2>1, <2>2, RowFields DEF IsBegun
  <1>4. unknown \in BOOLEAN /\ (Unknown(e) => unknown)
    BY DEF Unknown
  <1>5. q = Rolled(p, e, at, unknown)
    OBVIOUS
  <1>6. n = IF ~p.gapOpen THEN next
            ELSE [next EXCEPT !.gapOpen = FALSE, !.gapClosedAt = at,
                              !.hour = Partial(next.hour), !.day = Partial(next.day)]
    BY DEF BegunSlots
  <1> HIDE DEF q, n, unknown, at
  <1>7. IsRolled(q, p, e, at, unknown)
    BY <1>1, <1>3, <1>4, <1>5, RolledIs DEF at
  <1>18. PICK r \in Nat \ {0} : r = p.rev + 1
    BY <1>2
  <1> DEFINE b == [rev |-> r, start |-> start]
  <1>8. b \in Begins /\ b = [rev |-> r, start |-> start] /\ b.rev = r /\ b.start = start
    BY DEF Begins
  <1> HIDE DEF b
  <1>9. next = [q EXCEPT !.rev = r, !.limits = limits, !.begin = b]
    BY <1>7, <1>8, <1>18 DEF IsRolled
  <1> HIDE DEF next
  <1>10. /\ next \in AdmissionRows /\ next.activated = p.activated /\ next.high = at
         /\ next.baseline = p.baseline /\ next.rev = r /\ next.limits = limits
         /\ next.bound = e /\ next.begin = b /\ next.gapOpen = p.gapOpen
         /\ next.gapOpenedAt = p.gapOpenedAt /\ next.gapClosedAt = p.gapClosedAt
         /\ next.gap = p.gap /\ next.hour = q.hour /\ next.day = q.day
    BY <1>7, <1>8, <1>18, <1>9 DEF IsRolled, AdmissionRows
  <1>11. /\ q.hour \in SlotRows /\ q.day \in SlotRows
         /\ IsRolledSlot(q.hour, p.hour, p.high, at, HourLen, e.charged - p.bound.charged, unknown)
         /\ IsRolledSlot(q.day, p.day, p.high, at, DayLen, e.charged - p.bound.charged, unknown)
    BY <1>7 DEF IsRolled, IsRolledSlot
  <1>12. /\ n \in AdmissionRows /\ n.activated = p.activated /\ n.high = at
         /\ n.baseline = p.baseline /\ n.rev = r /\ n.limits = limits
         /\ n.bound = e /\ n.begin = b /\ n.gapOpen = FALSE /\ n.gap = p.gap
         /\ n.gapOpenedAt = p.gapOpenedAt
         /\ n.gapClosedAt = (IF p.gapOpen THEN at ELSE p.gapClosedAt)
         /\ n.hour = (IF p.gapOpen THEN Partial(q.hour) ELSE q.hour)
         /\ n.day = (IF p.gapOpen THEN Partial(q.day) ELSE q.day)
    <2>1. CASE ~p.gapOpen
      BY <1>2, <1>6, <1>10, <2>1
    <2>2. CASE p.gapOpen
      <3>1. PICK h \in SlotRows, d \in SlotRows : h = Partial(q.hour) /\ d = Partial(q.day)
        BY <1>11, PartialIs
      <3>2. n = [next EXCEPT !.gapOpen = FALSE, !.gapClosedAt = at, !.hour = h, !.day = d]
        BY <1>6, <1>10, <2>2, <3>1
      <3> QED BY <1>3, <1>10, <2>2, <3>1, <3>2 DEF AdmissionRows
    <2> QED BY <2>1, <2>2
  <1>13. SlotMoves(p, n, c, e, p.hour, q.hour, n.hour, HourLen, at, unknown)
    BY <1>1, <1>4, <1>11, <1>12, PartialIs DEF SlotMoves
  <1>14. SlotMoves(p, n, c, e, p.day, q.day, n.day, DayLen, at, unknown)
    BY <1>1, <1>4, <1>11, <1>12, PartialIs DEF SlotMoves
  <1>15. ValidSlot(n, e, n.hour, HourLen) /\ ValidSlot(n, e, n.day, DayLen)
    BY <1>1, <1>2, <1>3, <1>11, <1>12, <1>13, <1>14, SlotMoved
  <1>16. ValidGap(n, e)
    <2>1. b # NoBegin
      BY <1>8, BeginIs
    <2>2. CASE p.gap = NoGap
      BY <1>1, <1>2, <1>8, <1>18, <1>12, <2>1, <2>2 DEF ValidGap
    <2>3. CASE p.gap # NoGap
      <3>1. p.gap.rev \in Nat /\ p.gap.generation \in Nat
        BY <1>1, <2>3, AdmissionFields DEF Gaps
      <3>2. /\ p.gap.rev <= p.rev /\ p.gap.generation <= c.generation
            /\ p.gapOpenedAt = p.gap.at /\ p.gapOpenedAt \in p.activated .. p.high
            /\ ~p.gapOpen => p.gapClosedAt \in p.gapOpenedAt .. p.high
        BY <1>1, <2>3 DEF ValidGap
      <3>3. n.gapClosedAt \in n.gapOpenedAt .. n.high /\ n.gapOpenedAt \in n.activated .. n.high
        BY <1>2, <1>3, <1>12, <3>2 DEF at
      <3>4. b.start.at >= n.gapClosedAt
        BY <1>1, <1>2, <1>3, <1>8, <1>18, <1>12 DEF at
      <3> QED BY <1>2, <1>3, <1>8, <1>18, <1>12, <2>1, <2>3, <3>1, <3>2, <3>3, <3>4 DEF ValidGap
    <2> QED BY <2>2, <2>3
  <1>17. ValidSlots(n, e)
    <2>1. b # NoBegin
      BY <1>8, BeginIs
    <2> QED BY <1>1, <1>2, <1>3, <1>8, <1>18, <1>12, <1>15, <1>16, <2>1 DEF ValidSlots, at
  <1> QED BY <1>8, <1>12, <1>17, BeginIs DEF SlotsOK, n, at

\* The tracking is interrupted by a process that does not charge.
LEMMA GapSlotsOK ==
  ASSUME NEW c \in ChargeRows, NEW p, SlotsOK(p, c), ~p.gapOpen, NEW e \in ChargeRows,
         e.charged = c.charged, e.generation = c.generation, e.activated = c.activated,
         e.session.start = c.session.start, ~Active(e), NEW at \in Nat, p.high <= at, e.high <= at
  PROVE  SlotsOK(GapSlots(p, e, at), e)
  <1> DEFINE q == Rolled(p, e, at, TRUE)
             n == GapSlots(p, e, at)
  <1>1. /\ p \in AdmissionRows /\ ValidSlots(p, c) /\ p.bound = c /\ p.activated >= c.activated
        /\ p.high >= p.activated /\ p.high >= c.high /\ p.baseline <= c.charged
        /\ p.gapClosedAt <= p.high
        /\ ValidSlot(p, c, p.hour, HourLen) /\ ValidSlot(p, c, p.day, DayLen) /\ ValidGap(p, c)
        /\ p.begin # NoBegin => p.begin.rev <= p.rev /\ p.begin.start = c.session.start
                                /\ p.begin \in Begins
        /\ p.begin = NoBegin => p.limits # [hour |-> 0, day |-> 0]
    BY SlotsCore DEF SlotsOK
  <1>2. /\ p.activated \in Nat /\ p.high \in Nat /\ p.baseline \in Nat /\ p.rev \in Nat
        /\ p.hour \in SlotRows /\ p.day \in SlotRows
        /\ HourLen \in Nat \ {0} /\ DayLen \in Nat \ {0}
        /\ c.charged \in Nat /\ c.activated \in Nat /\ c.high \in Nat /\ c.generation \in Nat
        /\ e.high \in Nat
    BY SlotsFields, RowFields
  <1>3. IsRolled(q, p, e, at, TRUE)
    <2>1. c.charged <= e.charged /\ TRUE \in BOOLEAN
      BY <1>2
    <2> QED BY <1>1, <2>1, RolledIs, Zenon
  <1>4. n = [q EXCEPT !.rev = q.rev + 1, !.gapOpen = TRUE, !.gapOpenedAt = at, !.gapClosedAt = 0,
                      !.hour = Partial(q.hour), !.day = Partial(q.day),
                      !.gap = [rev |-> p.rev + 1, generation |-> e.generation, at |-> at]]
    BY DEF GapSlots
  <1> HIDE DEF q, n
  <1>15. PICK r \in Nat \ {0} : r = p.rev + 1
    BY <1>2
  <1> DEFINE g == [rev |-> r, generation |-> e.generation, at |-> at]
  <1>5. /\ g \in Gaps /\ g = [rev |-> r, generation |-> e.generation, at |-> at]
        /\ g.rev = r /\ g.generation = c.generation /\ g.at = at
    BY <1>2 DEF Gaps
  <1> HIDE DEF g
  <1>6. /\ q.hour \in SlotRows /\ q.day \in SlotRows /\ q.hour.unknown /\ q.day.unknown
        /\ IsRolledSlot(q.hour, p.hour, p.high, at, HourLen, e.charged - p.bound.charged, TRUE)
        /\ IsRolledSlot(q.day, p.day, p.high, at, DayLen, e.charged - p.bound.charged, TRUE)
    BY <1>3 DEF IsRolled, IsRolledSlot
  <1>7. PICK h \in SlotRows, d \in SlotRows :
          /\ h = Partial(q.hour) /\ h.partial /\ h.unknown
          /\ d = Partial(q.day) /\ d.partial /\ d.unknown
    BY <1>6, PartialIs
  <1>8. n = [q EXCEPT !.rev = r, !.gapOpen = TRUE, !.gapOpenedAt = at, !.gapClosedAt = 0,
                      !.hour = h, !.day = d, !.gap = g]
    BY <1>3, <1>4, <1>5, <1>7, <1>15 DEF IsRolled
  <1>9. /\ n \in AdmissionRows /\ n.activated = p.activated /\ n.high = at
        /\ n.baseline = p.baseline /\ n.rev = r /\ n.limits = p.limits
        /\ n.bound = e /\ n.begin = p.begin /\ n.gapOpen = TRUE /\ n.gap = g
        /\ n.gapOpenedAt = at /\ n.gapClosedAt = 0 /\ n.hour = h /\ n.day = d
    <2>1. /\ q \in AdmissionRows /\ q.activated = p.activated /\ q.high = at
          /\ q.baseline = p.baseline /\ q.limits = p.limits
          /\ q.bound = e /\ q.begin = p.begin
      BY <1>3 DEF IsRolled
    <2>2. n \in AdmissionRows
      BY <1>5, <1>7, <1>8, <1>15, <2>1, ZenonT(30) DEF AdmissionRows
    <2>3. /\ n.activated = q.activated /\ n.high = q.high /\ n.baseline = q.baseline /\ n.rev = r
          /\ n.limits = q.limits /\ n.bound = q.bound /\ n.begin = q.begin /\ n.gapOpen = TRUE
          /\ n.gap = g /\ n.gapOpenedAt = at /\ n.gapClosedAt = 0 /\ n.hour = h /\ n.day = d
      BY <1>8, <2>1 DEF AdmissionRows
    <2> QED BY <2>1, <2>2, <2>3
  <1>10. SlotMoves(p, n, c, e, p.hour, q.hour, n.hour, HourLen, at, TRUE)
    <2>1. /\ h.start = q.hour.start /\ h.assigned = q.hour.assigned /\ h.retired = q.hour.retired
          /\ d.start = q.day.start /\ d.assigned = q.day.assigned /\ d.retired = q.day.retired
      BY <1>6, <1>7, PartialIs
    <2> QED BY <1>1, <1>6, <1>7, <1>9, <2>1, Zenon DEF SlotMoves
  <1>11. SlotMoves(p, n, c, e, p.day, q.day, n.day, DayLen, at, TRUE)
    <2>1. /\ h.start = q.hour.start /\ h.assigned = q.hour.assigned /\ h.retired = q.hour.retired
          /\ d.start = q.day.start /\ d.assigned = q.day.assigned /\ d.retired = q.day.retired
      BY <1>6, <1>7, PartialIs
    <2> QED BY <1>1, <1>6, <1>7, <1>9, <2>1, Zenon DEF SlotMoves
  <1>12. ValidSlot(n, e, n.hour, HourLen) /\ ValidSlot(n, e, n.day, DayLen)
    BY <1>1, <1>2, <1>6, <1>9, <1>10, <1>11, SlotMoved
  <1>13. ValidGap(n, e)
    <2>1. g # NoGap
      BY <1>5, BeginIs
    <2>2. at \in n.activated .. n.high
      BY <1>1, <1>2, <1>9
    <2>3. \A period \in {n.hour, n.day} : period.partial /\ period.unknown
      BY <1>7, <1>9
    <2> QED BY <1>2, <1>5, <1>9, <2>1, <2>2, <2>3 DEF ValidGap
  <1>14. ValidSlots(n, e)
    <2>1. p.begin # NoBegin => p.begin.rev \in Nat
      BY <1>1 DEF Begins
    <2> QED BY <1>1, <1>2, <1>5, <1>9, <1>12, <1>13, <1>15, <2>1 DEF ValidSlots
  <1> QED BY <1>9, <1>14 DEF SlotsOK, n

-----------------------------------------------------------------------------
(* The rows and the policy that works on them. *)

Rows15 == [version : {15}, c : ChargeRows]
Rows16 == [version : {16}, c : ChargeRows, p : AdmissionRows]
SavedRows == {[version |-> 14]} \cup Rows15 \cup Rows16
Fences == [start : Int, left : Nat]
Stages == {"route", "activate", "recover", "period", "gap", "begin", "ready"}
RunRows ==
  [up : BOOLEAN, refused : BOOLEAN, stage : Stages,
   phase : {"idle", "selected", "sampled", "working"}, tracking : BOOLEAN, limits : LimitRows,
   bypass : BOOLEAN, limited : BOOLEAN, mem : {[version |-> 0]} \cup SavedRows, wallHigh : Nat,
   attached : BOOLEAN, due : Nat, hour : Fences, day : Fences, since : Nat]
Unlimited == [hour |-> 0, day |-> 0]

\* The rows are the ones of their schema version and the readers accept them.
RowsOK(rows) ==
  /\ rows \in SavedRows
  /\ rows.version # 14 => ValidCharges(rows.c)
  /\ rows.version = 16 => SlotsOK(rows.p, rows.c)

\* Once the policy has read the rows, it knows them as they are.
Attached(r) == ~r.bypass /\ r.stage \notin {"route", "activate"}

PolicyOK(rows, r) ==
  /\ r \in RunRows
  /\ r.stage # "route" => r.up /\ ~r.refused
  /\ r.bypass => r.stage = "ready" /\ r.phase = "idle"
  /\ r.phase # "idle" => r.stage = "ready"
  /\ r.stage \in {"route", "activate"} => ~r.limited
  /\ r.stage = "activate" => rows.version # 16
  /\ r.stage = "gap" => rows.version = 16
  /\ Attached(r) => r.mem = rows /\ rows.version # 14 /\ (r.limited <=> rows.version = 16)
  /\ r.stage \in {"period", "begin"} => ~Active(rows.c)
  /\ r.stage = "period" => ~r.limited /\ r.limits # Unlimited /\ rows.c.high <= r.wallHigh
  /\ ~r.bypass /\ r.stage \in {"begin", "ready"} /\ r.limits # Unlimited => r.limited
  /\ ~r.bypass /\ r.stage = "ready" =>
       /\ Active(rows.c)
       /\ r.limited => rows.p.limits = r.limits /\ rows.p.high = rows.c.high

ChargesInv == RowsOK(saved) /\ PolicyOK(saved, run)

LEMMA RowsIs ==
  ASSUME NEW rows, RowsOK(rows), rows.version # 14
  PROVE  /\ rows.version \in {15, 16} /\ rows.c \in ChargeRows /\ ValidCharges(rows.c)
         /\ rows.version = 15 <=> rows \in Rows15
         /\ rows.version = 16 <=> rows \in Rows16
         /\ rows.version = 16 => SlotsOK(rows.p, rows.c) /\ rows.p \in AdmissionRows
  <1>1. rows \in Rows15 \/ rows \in Rows16
    BY DEF RowsOK, SavedRows
  <1>2. CASE rows \in Rows15
    BY <1>2 DEF Rows15, Rows16, RowsOK
  <1>3. CASE rows \in Rows16
    BY <1>3 DEF Rows15, Rows16, RowsOK
  <1> QED BY <1>1, <1>2, <1>3

\* The rows of a schema version are replaced.
Moved(n, rows) == RowsOK(n) /\ n.version = rows.version

LEMMA Rows15Moved ==
  ASSUME NEW rows \in Rows15, NEW d \in ChargeRows, ValidCharges(d)
  PROVE  Moved([rows EXCEPT !.c = d], rows) /\ [rows EXCEPT !.c = d].c = d
  <1>1. PICK n : n = [rows EXCEPT !.c = d]
    OBVIOUS
  <1>2. n \in Rows15 /\ n.version = 15 /\ rows.version = 15 /\ n.c = d
    BY <1>1 DEF Rows15
  <1> QED BY <1>1, <1>2 DEF Moved, RowsOK, SavedRows

LEMMA Rows16Moved ==
  ASSUME NEW rows \in Rows16, NEW d \in ChargeRows, ValidCharges(d),
         NEW q \in AdmissionRows, SlotsOK(q, d)
  PROVE  Moved([rows EXCEPT !.c = d, !.p = q], rows)
  <1>1. PICK n : n = [rows EXCEPT !.c = d, !.p = q]
    OBVIOUS
  <1>2. n \in Rows16 /\ n.version = 16 /\ rows.version = 16 /\ n.c = d /\ n.p = q
    BY <1>1 DEF Rows16
  <1> QED BY <1>1, <1>2 DEF Moved, RowsOK, SavedRows

\* A process finds a session that was left open.
RowsRecovered(n, rows, at) ==
  /\ Moved(n, rows) /\ ~Active(n.c) /\ n.c.high = at

LEMMA RecoverRows ==
  ASSUME NEW rows, RowsOK(rows), rows.version # 14, Active(rows.c), NEW at \in Nat,
         rows.c.high <= at
  PROVE  /\ rows.version = 15 => RowsRecovered(RecoverCPUSession(rows, at), rows, at)
         /\ rows.version = 16 /\ rows.p.high <= at =>
              RowsRecovered(RecoverCPUSessionLimited(rows, at), rows, at)
  <1>1. PICK c \in ChargeRows : c = rows.c /\ ValidCharges(c) /\ Active(c) /\ c.high <= at
    BY RowsIs
  <1>2. PICK d : d = Interrupted(c, at) /\ IsInterrupted(d, c, at)
    BY <1>1, InterruptedOK
  <1>3. /\ d \in ChargeRows /\ ValidCharges(d) /\ ~Active(d) /\ Unknown(d) /\ d.high = at
        /\ d.charged = c.charged /\ d.activated = c.activated /\ d.generation = c.generation
        /\ d.session.start = c.session.start
    BY <1>2 DEF IsInterrupted, Active, Unknown
  <1>4. ASSUME rows.version = 15
        PROVE  RowsRecovered(RecoverCPUSession(rows, at), rows, at)
    <2>1. RecoverCPUSession(rows, at) = [rows EXCEPT !.c = d]
      BY <1>1, <1>2 DEF RecoverCPUSession
    <2> QED BY <1>3, <1>4, <2>1, RowsIs, Rows15Moved DEF RowsRecovered
  <1>5. ASSUME rows.version = 16, rows.p.high <= at
        PROVE  RowsRecovered(RecoverCPUSessionLimited(rows, at), rows, at)
    <2>1. PICK p \in AdmissionRows : p = rows.p /\ SlotsOK(p, c) /\ p.high <= at
      BY <1>1, <1>5, RowsIs
    <2>2. PICK q : q = Rolled(p, d, at, TRUE)
      OBVIOUS
    <2>3. SlotsOK(q, d)
      <3>1. d.charged >= c.charged /\ d.high <= at /\ TRUE \in BOOLEAN
        BY <1>3, RowFields
      <3> QED BY <1>1, <1>3, <2>1, <2>2, <3>1, RolledOK
    <2>4. RecoverCPUSessionLimited(rows, at) = [rows EXCEPT !.c = d, !.p = q]
      BY <1>1, <1>2, <2>1, <2>2 DEF RecoverCPUSessionLimited
    <2>5. rows \in Rows16 /\ q \in AdmissionRows
      BY <1>5, <2>3, RowsIs DEF SlotsOK
    <2>6. Moved([rows EXCEPT !.c = d, !.p = q], rows)
      BY <1>3, <2>3, <2>5, Rows16Moved
    <2>7. [rows EXCEPT !.c = d, !.p = q].c = d /\ [rows EXCEPT !.c = d, !.p = q].p = q
      BY <2>5 DEF Rows16
    <2> QED BY <1>3, <2>4, <2>6, <2>7 DEF RowsRecovered
  <1> QED BY <1>4, <1>5, Zenon

\* A session begins.
RowsBegun(n, rows, start) ==
  /\ Moved(n, rows) /\ n.c.high = start.at /\ n.c.session \in Sessions
  /\ start.cpu # Unseen => Active(n.c)

LEMMA BeginRows ==
  ASSUME NEW rows, RowsOK(rows), rows.version # 14, ~Active(rows.c), NEW start \in Starts,
         rows.c.high <= start.at, NEW limits \in LimitRows
  PROVE  /\ rows.version = 15 => RowsBegun(BeginCPUSession(rows, start), rows, start)
         /\ rows.version = 16 /\ rows.p.high <= start.at =>
              /\ RowsBegun(BeginCPUSessionLimited(rows, start, limits), rows, start)
              /\ BeginCPUSessionLimited(rows, start, limits).p.high = start.at
              /\ BeginCPUSessionLimited(rows, start, limits).p.limits = limits
  <1>1. PICK c \in ChargeRows : c = rows.c /\ ValidCharges(c) /\ ~Active(c) /\ c.high <= start.at
    BY RowsIs
  <1>2. PICK d : d = Begun(c, start) /\ IsBegun(d, c, start)
    BY <1>1, BegunOK
  <1>3. /\ d \in ChargeRows /\ ValidCharges(d) /\ d.high = start.at /\ d.session \in Sessions
        /\ start.cpu # Unseen => Active(d)
    BY <1>2 DEF IsBegun
  <1>4. ASSUME rows.version = 15
        PROVE  RowsBegun(BeginCPUSession(rows, start), rows, start)
    <2>1. BeginCPUSession(rows, start) = [rows EXCEPT !.c = d]
      BY <1>1, <1>2 DEF BeginCPUSession
    <2> QED BY <1>3, <1>4, <2>1, RowsIs, Rows15Moved DEF RowsBegun
  <1>5. ASSUME rows.version = 16, rows.p.high <= start.at
        PROVE  /\ RowsBegun(BeginCPUSessionLimited(rows, start, limits), rows, start)
               /\ BeginCPUSessionLimited(rows, start, limits).p.high = start.at
               /\ BeginCPUSessionLimited(rows, start, limits).p.limits = limits
    <2>1. PICK p \in AdmissionRows : p = rows.p /\ SlotsOK(p, c) /\ p.high <= start.at
      BY <1>1, <1>5, RowsIs
    <2>2. PICK q : q = BegunSlots(p, d, start, limits)
      OBVIOUS
    <2>3. SlotsOK(q, d) /\ q.high = start.at /\ q.limits = limits
      BY <1>1, <1>2, <2>1, <2>2, BegunSlotsOK
    <2>4. BeginCPUSessionLimited(rows, start, limits) = [rows EXCEPT !.c = d, !.p = q]
      BY <1>1, <1>2, <2>1, <2>2 DEF BeginCPUSessionLimited
    <2>5. rows \in Rows16 /\ q \in AdmissionRows
      BY <1>5, <2>3, RowsIs DEF SlotsOK
    <2>6. Moved([rows EXCEPT !.c = d, !.p = q], rows)
      BY <1>3, <2>3, <2>5, Rows16Moved
    <2>7. [rows EXCEPT !.c = d, !.p = q].c = d /\ [rows EXCEPT !.c = d, !.p = q].p = q
      BY <2>5 DEF Rows16
    <2> QED BY <1>3, <2>3, <2>4, <2>6, <2>7 DEF RowsBegun
  <1> QED BY <1>4, <1>5, Zenon

\* An open session is sampled.
RowsSampled(n, rows, q) ==
  /\ Moved(n, rows) /\ n.c.session \in Sessions
  /\ Unknown(n.c) \/ Active(n.c) \/ q.final

LEMMA SampleRows ==
  ASSUME NEW rows, RowsOK(rows), rows.version # 14, Active(rows.c), NEW q \in Samples
  PROVE  /\ rows.version = 15 => RowsSampled(SampleCPUSession(rows, q), rows, q)
         /\ rows.version = 16 =>
              /\ RowsSampled(SampleCPUSessionLimited(rows, q), rows, q)
              /\ SampleCPUSessionLimited(rows, q).p.limits = rows.p.limits
              /\ SampleCPUSessionLimited(rows, q).p.high = SampleCPUSessionLimited(rows, q).c.high
  <1>1. PICK c \in ChargeRows : c = rows.c /\ ValidCharges(c) /\ Active(c)
    BY RowsIs
  <1>2. ASSUME rows.version = 15
        PROVE  RowsSampled(SampleCPUSession(rows, q), rows, q)
    <2>1. PICK d : d = Sampled(c, q, c.high) /\ IsSampled(d, c, q, c.high)
      BY <1>1, SampledOK, RowFields
    <2>2. SampleCPUSession(rows, q) = [rows EXCEPT !.c = d]
      BY <1>1, <2>1 DEF SampleCPUSession
    <2>3. /\ d \in ChargeRows /\ ValidCharges(d) /\ d.session \in Sessions
          /\ Unknown(d) \/ Active(d) \/ q.final
      BY <2>1 DEF IsSampled
    <2> QED BY <1>2, <2>2, <2>3, RowsIs, Rows15Moved DEF RowsSampled
  <1>3. ASSUME rows.version = 16
        PROVE  /\ RowsSampled(SampleCPUSessionLimited(rows, q), rows, q)
               /\ SampleCPUSessionLimited(rows, q).p.limits = rows.p.limits
               /\ SampleCPUSessionLimited(rows, q).p.high = SampleCPUSessionLimited(rows, q).c.high
    <2>1. PICK p \in AdmissionRows :
            p = rows.p /\ SlotsOK(p, c) /\ c.high <= p.high /\ p.high \in Nat
      BY <1>1, <1>3, RowsIs, SlotsCore, AdmissionFields
    <2>2. PICK d : d = Sampled(c, q, p.high) /\ IsSampled(d, c, q, p.high)
      BY <1>1, <2>1, SampledOK
    <2>3. /\ d \in ChargeRows /\ ValidCharges(d) /\ d.session \in Sessions
          /\ Unknown(d) \/ Active(d) \/ q.final
          /\ d.charged >= c.charged /\ d.activated = c.activated /\ d.generation = c.generation
          /\ d.session.start = c.session.start /\ d.high = Latest(q.at, p.high)
      BY <2>2 DEF IsSampled
    <2>4. PICK unknown \in BOOLEAN : unknown = Unknown(d)
      <3>1. Unknown(d) \in BOOLEAN
        BY DEF Unknown
      <3> QED BY <3>1, Zenon
    <2>5. PICK at \in Nat : at = d.high /\ p.high <= at
      BY <2>1, <2>3 DEF Samples, Latest
    <2>6. PICK x : x = Rolled(p, d, at, unknown)
      OBVIOUS
    <2>7. SlotsOK(x, d) /\ x.high = at /\ x.limits = p.limits
      BY <1>1, <2>1, <2>3, <2>4, <2>5, <2>6, RolledOK
    <2>8. SampleCPUSessionLimited(rows, q) = [rows EXCEPT !.c = d, !.p = x]
      BY <1>1, <2>1, <2>2, <2>4, <2>5, <2>6 DEF SampleCPUSessionLimited
    <2>9. rows \in Rows16 /\ x \in AdmissionRows
      BY <1>3, <2>7, RowsIs DEF SlotsOK
    <2>10. Moved([rows EXCEPT !.c = d, !.p = x], rows)
      BY <2>3, <2>7, <2>9, Rows16Moved
    <2>11. [rows EXCEPT !.c = d, !.p = x].c = d /\ [rows EXCEPT !.c = d, !.p = x].p = x
      BY <2>9 DEF Rows16
    <2> QED BY <2>1, <2>3, <2>5, <2>7, <2>8, <2>10, <2>11 DEF RowsSampled
  <1> QED BY <1>2, <1>3, Zenon

LEMMA GapRows ==
  ASSUME NEW rows, RowsOK(rows), rows.version = 16, NEW at \in Nat,
         ~rows.p.gapOpen => rows.p.high <= at
  PROVE  Moved(OpenCPUTrackingGap(rows, at), rows)
  <1>1. PICK c \in ChargeRows, p \in AdmissionRows :
          /\ c = rows.c /\ ValidCharges(c) /\ p = rows.p /\ SlotsOK(p, c)
          /\ c.high <= p.high /\ p.high \in Nat /\ c.high \in Nat
    BY RowsIs, SlotsCore, AdmissionFields, RowFields
  <1>2. CASE p.gapOpen
    BY <1>1, <1>2 DEF OpenCPUTrackingGap, Moved
  <1>3. CASE ~p.gapOpen
    <2>1. p.high <= at /\ c.high <= at
      BY <1>1, <1>3
    <2>2. PICK d : d = (IF Active(c) THEN Interrupted(c, at) ELSE c)
      OBVIOUS
    <2>3. /\ d \in ChargeRows /\ ValidCharges(d) /\ ~Active(d) /\ d.charged = c.charged
          /\ d.generation = c.generation /\ d.activated = c.activated
          /\ d.session.start = c.session.start /\ d.high <= at
      <3>1. CASE Active(c)
        <4>1. IsInterrupted(d, c, at)
          BY <1>1, <2>1, <2>2, <3>1, InterruptedOK
        <4> QED BY <4>1 DEF IsInterrupted, Active
      <3>2. CASE ~Active(c)
        BY <1>1, <2>1, <2>2, <3>2
      <3> QED BY <3>1, <3>2
    <2>4. PICK q : q = GapSlots(p, d, at)
      OBVIOUS
    <2>5. SlotsOK(q, d)
      BY <1>1, <1>3, <2>1, <2>3, <2>4, GapSlotsOK
    <2>6. OpenCPUTrackingGap(rows, at) = [rows EXCEPT !.c = d, !.p = q]
      BY <1>1, <1>3, <2>2, <2>4 DEF OpenCPUTrackingGap
    <2>7. rows \in Rows16 /\ q \in AdmissionRows
      BY <2>5, RowsIs DEF SlotsOK
    <2>8. Moved([rows EXCEPT !.c = d, !.p = q], rows)
      BY <2>3, <2>5, <2>7, Rows16Moved
    <2> QED BY <2>6, <2>8
  <1> QED BY <1>2, <1>3

-----------------------------------------------------------------------------
(* The policy: every step leaves it with the rows as they are. *)

LEMMA RunFields ==
  ASSUME NEW r \in RunRows
  PROVE  /\ r.up \in BOOLEAN /\ r.refused \in BOOLEAN /\ r.stage \in Stages
         /\ r.limits \in LimitRows /\ r.bypass \in BOOLEAN /\ r.limited \in BOOLEAN
         /\ r.wallHigh \in Nat /\ r.due \in Nat /\ r.since \in Nat
         /\ r.hour \in Fences /\ r.day \in Fences
         /\ r.tracking \in BOOLEAN /\ r.attached \in BOOLEAN
  BY DEF RunRows

LEMMA DownIs ==
  /\ Down \in RunRows /\ ~Down.up /\ ~Down.refused /\ Down.stage = "route"
  /\ Down.phase = "idle" /\ ~Down.bypass /\ ~Down.limited
  <1>1. NoFence \in Fences
    BY DEF NoFence, Fences
  <1>2. [hour |-> 0, day |-> 0] \in LimitRows
    BY DEF LimitRows
  <1>3. "route" \in Stages
    BY DEF Stages
  <1>4. Down \in RunRows
    BY <1>1, <1>2, <1>3, Zenon DEF Down, RunRows
  <1> QED BY <1>4 DEF Down

LEMMA RefusingIs ==
  /\ Refusing \in RunRows /\ Refusing.stage = "route" /\ Refusing.phase = "idle"
  /\ ~Refusing.bypass /\ ~Refusing.limited /\ Refusing.refused
  BY DownIs DEF Refusing, RunRows

\* A policy that is down, or refuses, claims nothing of the rows.
LEMMA IdleOK ==
  ASSUME NEW rows
  PROVE  PolicyOK(rows, Down) /\ PolicyOK(rows, Refusing)
  BY DownIs, RefusingIs DEF PolicyOK, Attached

\* A step after which work goes on only if it did before.
KeepsTurn == ChargesInv' /\ (run'.phase = "working" => run.phase = "working")

LEMMA PublishedOK ==
  ASSUME RowsOK(saved), NEW rows, NEW accepted, NEW refused, RowsOK(rows),
         PolicyOK(rows, accepted), accepted.phase # "working", refused \in {Down, Refusing},
         Published(rows, accepted, refused)
  PROVE  KeepsTurn
  BY IdleOK, DownIs, RefusingIs DEF Published, ChargesInv, KeepsTurn

\* The policy takes over the rows that it has read or published.
IsAccepted(n, r, rows) ==
  /\ n \in RunRows /\ n.mem = rows /\ n.limited = (r.limited \/ rows.version = 16)
  /\ n.up = r.up /\ n.refused = r.refused /\ n.stage = r.stage /\ n.phase = r.phase
  /\ n.limits = r.limits /\ n.bypass = r.bypass /\ n.wallHigh = r.wallHigh

LEMMA FencedIs ==
  ASSUME NEW fence \in Fences, NEW period \in SlotRows, NEW limit, NEW gap, NEW len \in Nat,
         NEW now \in Nat
  PROVE  Fenced(fence, period, limit, gap, len, now) \in Fences
  <1>1. NoFence \in Fences
    BY DEF NoFence, Fences
  <1>2. period.start \in Nat /\ fence.left \in Nat
    BY DEF SlotRows, Fences
  <1>3. PICK left \in Nat : left = Latest(fence.left, AtLeastZero(period.start + len - now))
    <2>1. PICK x \in Nat : x = AtLeastZero(period.start + len - now)
      BY <1>2 DEF AtLeastZero
    <2> QED BY <1>2, <2>1 DEF Latest
  <1>4. [start |-> period.start, left |-> left] \in Fences
    BY <1>2 DEF Fences
  <1> QED BY <1>1, <1>3, <1>4 DEF Fenced

\* Before the slots are looked at.
TakesOver(n, r, rows) ==
  /\ n \in RunRows /\ n.mem = rows /\ n.limited = r.limited
  /\ n.up = r.up /\ n.refused = r.refused /\ n.stage = r.stage /\ n.phase = r.phase
  /\ n.limits = r.limits /\ n.bypass = r.bypass /\ n.wallHigh = r.wallHigh

LEMMA AcceptedIs ==
  ASSUME NEW r \in RunRows, NEW rows, RowsOK(rows), rows.version # 14, NEW now \in Nat,
         NEW intrinsic \in Nat
  PROVE  TakesOver(Accepted(r, rows, now, intrinsic), r, rows)
  <1>1. rows.c.next \in Nat /\ r.due \in Nat
    BY RowsIs, RowFields, RunFields
  <1>2. PICK due \in Nat :
          due = Latest(IF r.attached THEN r.due ELSE AtLeastZero(rows.c.next - now), intrinsic)
    <2>1. PICK x \in Nat : x = AtLeastZero(rows.c.next - now)
      BY <1>1 DEF AtLeastZero
    <2>2. PICK y \in Nat : y = (IF r.attached THEN r.due ELSE x)
      BY <1>1
    <2> QED BY <2>1, <2>2 DEF Latest
  <1>3. Accepted(r, rows, now, intrinsic) = [r EXCEPT !.mem = rows, !.attached = TRUE, !.due = due]
    BY <1>2 DEF Accepted
  <1>4. PICK n : n = [r EXCEPT !.mem = rows, !.attached = TRUE, !.due = due]
    OBVIOUS
  <1>5. rows \in SavedRows
    BY DEF RowsOK
  <1>6. n \in RunRows
    BY <1>4, <1>5 DEF RunRows
  <1>7. n.mem = rows /\ n.limited = r.limited
        /\ n.up = r.up /\ n.refused = r.refused /\ n.stage = r.stage /\ n.phase = r.phase
        /\ n.limits = r.limits /\ n.bypass = r.bypass /\ n.wallHigh = r.wallHigh
    BY <1>4 DEF RunRows
  <1>8. TakesOver(n, r, rows)
    BY <1>6, <1>7 DEF TakesOver
  <1> QED BY <1>3, <1>4, <1>8

LEMMA AcceptedSlotsIs ==
  ASSUME NEW r \in RunRows, NEW rows, RowsOK(rows), rows.version = 16, NEW now \in Nat
  PROVE  IsAccepted(AcceptedSlots(r, rows, now), r, rows)
  <1> DEFINE hour == Fenced(r.hour, rows.p.hour, r.limits.hour, rows.p.gapOpen, HourLen, now)
             day == Fenced(r.day, rows.p.day, r.limits.day, rows.p.gapOpen, DayLen, now)
             n == AcceptedSlots(r, rows, now)
  <1>1. hour \in Fences /\ day \in Fences
    <2>1. /\ rows.p.hour \in SlotRows /\ rows.p.day \in SlotRows
          /\ HourLen \in Nat /\ DayLen \in Nat
      BY RowsIs, AdmissionFields
    <2> QED BY <2>1, RunFields, FencedIs
  <1>2. n = [r EXCEPT !.mem = rows, !.limited = TRUE, !.hour = hour, !.day = day]
    BY DEF AcceptedSlots
  <1>3. rows \in SavedRows
    BY DEF RowsOK
  <1> HIDE DEF hour, day, n
  <1>4. n \in RunRows
    BY <1>1, <1>2, <1>3 DEF RunRows
  <1>5. n.mem = rows /\ n.limited = TRUE
        /\ n.up = r.up /\ n.refused = r.refused /\ n.stage = r.stage /\ n.phase = r.phase
        /\ n.limits = r.limits /\ n.bypass = r.bypass /\ n.wallHigh = r.wallHigh
    BY <1>2 DEF RunRows
  <1>6. IsAccepted(n, r, rows)
    BY <1>4, <1>5 DEF IsAccepted
  <1> QED BY <1>6 DEF n

LEMMA AcceptedAllIs ==
  ASSUME NEW r \in RunRows, NEW rows, RowsOK(rows), rows.version # 14, NEW now \in Nat,
         NEW intrinsic \in Nat
  PROVE  IsAccepted(AcceptedAll(r, rows, now, intrinsic), r, rows)
  <1>1. PICK m : m = Accepted(r, rows, now, intrinsic) /\ TakesOver(m, r, rows)
    BY AcceptedIs
  <1>2. CASE rows.version = 16
    <2>1. m \in RunRows
      BY <1>1 DEF TakesOver
    <2>2. PICK n : n = AcceptedSlots(m, rows, now) /\ IsAccepted(n, m, rows)
      BY <1>2, <2>1, AcceptedSlotsIs
    <2>3. AcceptedAll(r, rows, now, intrinsic) = n
      BY <1>1, <1>2, <2>2 DEF AcceptedAll
    <2>4. IsAccepted(n, r, rows)
      BY <1>1, <2>2 DEF IsAccepted, TakesOver
    <2> QED BY <2>3, <2>4
  <1>3. CASE rows.version # 16
    <2>1. AcceptedAll(r, rows, now, intrinsic) = m
      BY <1>1, <1>3 DEF AcceptedAll
    <2>2. m.limited = (r.limited \/ rows.version = 16)
      <3>1. m.limited = r.limited /\ r.limited \in BOOLEAN
        BY <1>1, RunFields DEF TakesOver
      <3> QED BY <1>3, <3>1
    <2>3. IsAccepted(m, r, rows)
      BY <1>1, <2>2 DEF IsAccepted, TakesOver
    <2> QED BY <2>1, <2>3
  <1> QED BY <1>2, <1>3

LEMMA SeenIs ==
  ASSUME NEW r \in RunRows, NEW now \in Nat
  PROVE  LET n == Seen(r, now)
         IN /\ n \in RunRows /\ n.wallHigh = Latest(r.wallHigh, now)
            /\ n.wallHigh >= now /\ n.wallHigh >= r.wallHigh
            /\ n.up = r.up /\ n.refused = r.refused /\ n.stage = r.stage /\ n.phase = r.phase
            /\ n.limits = r.limits /\ n.bypass = r.bypass /\ n.limited = r.limited
            /\ n.mem = r.mem
  <1>1. PICK x \in Nat : x = Latest(r.wallHigh, now) /\ x >= now /\ x >= r.wallHigh
    BY RunFields DEF Latest
  <1>2. PICK n : n = [r EXCEPT !.wallHigh = x]
    OBVIOUS
  <1>3. n = Seen(r, now)
    BY <1>1, <1>2 DEF Seen
  <1>4. n \in RunRows /\ n.wallHigh = x
        /\ n.up = r.up /\ n.refused = r.refused /\ n.stage = r.stage /\ n.phase = r.phase
        /\ n.limits = r.limits /\ n.bypass = r.bypass /\ n.limited = r.limited
        /\ n.mem = r.mem
    BY <1>2 DEF RunRows
  <1> QED BY <1>1, <1>3, <1>4

LEMMA TimesAre == Times \subseteq Nat \ {0}
  BY ClockAssumption DEF Times

LEMMA SeenOK ==
  ASSUME NEW rows, RowsOK(rows), NEW r, PolicyOK(rows, r), NEW now \in Nat
  PROVE  PolicyOK(rows, Seen(r, now))
  <1>1. r \in RunRows /\ r.wallHigh \in Nat
    BY RunFields DEF PolicyOK
  <1>2. PICK n : n = Seen(r, now)
    OBVIOUS
  <1>3. /\ n \in RunRows /\ n.wallHigh >= r.wallHigh /\ n.wallHigh \in Nat
        /\ n.up = r.up /\ n.refused = r.refused /\ n.stage = r.stage /\ n.phase = r.phase
        /\ n.limits = r.limits /\ n.bypass = r.bypass /\ n.limited = r.limited
        /\ n.mem = r.mem
    BY <1>1, <1>2, SeenIs, RunFields, SMTT(90)
  <1>4. r.stage = "period" => rows.c.high <= n.wallHigh
    <2> HAVE r.stage = "period"
    <2>1. ~r.bypass /\ rows.version # 14 /\ rows.c.high <= r.wallHigh
      BY DEF PolicyOK, Attached
    <2>2. rows.c.high \in Nat
      BY <2>1, RowsIs, RowFields
    <2> QED BY <1>1, <1>3, <2>1, <2>2
  <1>5. PolicyOK(rows, n)
    BY <1>3, <1>4 DEF PolicyOK, Attached
  <1> QED BY <1>2, <1>5

LEMMA PhaseOK ==
  ASSUME NEW rows, NEW r, PolicyOK(rows, r), r.stage = "ready", ~r.bypass,
         NEW phase \in {"idle", "selected", "sampled", "working"}
  PROVE  PolicyOK(rows, [r EXCEPT !.phase = phase])
  <1>1. r \in RunRows
    BY DEF PolicyOK
  <1>2. PICK n : n = [r EXCEPT !.phase = phase]
    OBVIOUS
  <1>3. /\ n \in RunRows /\ n.wallHigh = r.wallHigh
        /\ n.up = r.up /\ n.refused = r.refused /\ n.stage = r.stage
        /\ n.limits = r.limits /\ n.bypass = r.bypass /\ n.limited = r.limited
        /\ n.mem = r.mem
    BY <1>1, <1>2 DEF RunRows
  <1>4. PolicyOK(rows, n)
    BY <1>3 DEF PolicyOK, Attached
  <1> QED BY <1>2, <1>4

\* The rows were taken over after a reading of the clock.
IsTaken(n, r, rows, now) ==
  /\ n \in RunRows /\ n.mem = rows /\ n.limited = (r.limited \/ rows.version = 16)
  /\ n.up = r.up /\ n.refused = r.refused /\ n.stage = r.stage /\ n.phase = r.phase
  /\ n.limits = r.limits /\ n.bypass = r.bypass /\ n.wallHigh >= now

LEMMA TakenIs ==
  ASSUME NEW r \in RunRows, NEW rows, RowsOK(rows), rows.version # 14, NEW now \in Nat,
         NEW intrinsic \in Nat
  PROVE  /\ IsTaken(AcceptedAll(Seen(r, now), rows, now, intrinsic), r, rows, now)
         /\ rows.version = 15 => IsTaken(Accepted(Seen(r, now), rows, now, intrinsic), r, rows, now)
  <1>1. PICK s : s = Seen(r, now)
    OBVIOUS
  <1>2. /\ s \in RunRows /\ s.wallHigh >= now
        /\ s.up = r.up /\ s.refused = r.refused /\ s.stage = r.stage /\ s.phase = r.phase
        /\ s.limits = r.limits /\ s.bypass = r.bypass /\ s.limited = r.limited
    BY <1>1, SeenIs
  <1>3. PICK n : n = AcceptedAll(s, rows, now, intrinsic) /\ IsAccepted(n, s, rows)
    BY <1>2, AcceptedAllIs
  <1>4. IsTaken(n, r, rows, now)
    BY <1>2, <1>3 DEF IsAccepted, IsTaken
  <1>5. ASSUME rows.version = 15
        PROVE  IsTaken(Accepted(s, rows, now, intrinsic), r, rows, now)
    <2>1. AcceptedAll(s, rows, now, intrinsic) = Accepted(s, rows, now, intrinsic)
      BY <1>5 DEF AcceptedAll
    <2> QED BY <1>3, <1>4, <2>1
  <1> QED BY <1>1, <1>3, <1>4, <1>5, Zenon

LEMMA StartKeeps ==
  ASSUME ChargesInv, NEW profile \in Profiles, Start(profile)
  PROVE  KeepsTurn
  <1>1. profile.tracking \in BOOLEAN /\ profile.hour \in Nat /\ profile.day \in Nat
    BY ProfilesAssumption
  <1>2. PICK limits \in LimitRows, tracking \in BOOLEAN :
          limits = [hour |-> profile.hour, day |-> profile.day] /\ tracking = profile.tracking
    <2>1. [hour |-> profile.hour, day |-> profile.day] \in LimitRows
      BY <1>1 DEF LimitRows
    <2> QED BY <1>1, <2>1
  <1>3. PICK n : n = [Down EXCEPT !.up = TRUE, !.tracking = tracking, !.limits = limits]
    OBVIOUS
  <1>4. run' = n /\ saved' = saved
    BY <1>2, <1>3 DEF Start
  <1>5. n \in RunRows /\ n.stage = "route" /\ n.phase = "idle" /\ ~n.bypass /\ ~n.limited
    BY <1>3, DownIs DEF RunRows
  <1>6. PolicyOK(saved, n)
    BY <1>5 DEF PolicyOK, Attached
  <1> QED BY <1>4, <1>5, <1>6 DEF ChargesInv, KeepsTurn

LEMMA ReadClocksKeeps ==
  ASSUME ChargesInv, NEW now \in Times, ReadClocks(now)
  PROVE  KeepsTurn
  <1>1. PolicyOK(saved, Seen(run, now)) /\ PolicyOK(saved, Refusing)
    BY TimesAre, SeenOK, IdleOK DEF ChargesInv
  <1>2. Seen(run, now).phase = run.phase /\ Refusing.phase = "idle"
    BY TimesAre, SeenIs, RefusingIs DEF ChargesInv, PolicyOK
  <1> QED BY <1>1, <1>2 DEF ReadClocks, ChargesInv, KeepsTurn

LEMMA RouteKeeps ==
  ASSUME ChargesInv, NEW now \in Times, Route(now)
  PROVE  KeepsTurn
  <1>1. /\ RowsOK(saved) /\ PolicyOK(saved, run) /\ run \in RunRows /\ now \in Nat /\ 0 \in Nat
        /\ run.up /\ ~run.refused /\ run.stage = "route" /\ ~run.limited /\ ~run.bypass
        /\ run.phase = "idle"
    BY TimesAre DEF Route, Starting, ChargesInv, PolicyOK
  <1>2. CASE saved.version = 16
    <2>1. PICK n : n = AcceptedAll(Seen(run, now), saved, now, 0) /\ IsTaken(n, run, saved, now)
      <3>1. saved.version # 14
        BY <1>2
      <3> QED BY <1>1, <3>1, TakenIs
    <2>2. PICK stage \in {"recover", "gap"} : stage = (IF run.tracking THEN "recover" ELSE "gap")
      OBVIOUS
    <2>3. PICK m : m = [n EXCEPT !.stage = stage]
      OBVIOUS
    <2>4. run' = m /\ saved' = saved
      BY <1>2, <2>1, <2>2, <2>3 DEF Route
    <2>5. /\ m \in RunRows /\ m.stage = stage /\ m.mem = saved /\ m.limited
          /\ m.up /\ ~m.refused /\ m.phase = "idle" /\ ~m.bypass
      BY <1>1, <1>2, <2>1, <2>3, ZenonT(30) DEF IsTaken, RunRows, Stages
    <2>6. PolicyOK(saved, m)
      BY <1>2, <2>5 DEF PolicyOK, Attached
    <2> QED BY <1>1, <2>4, <2>5, <2>6 DEF ChargesInv, KeepsTurn
  <1>3. CASE saved.version # 16 /\ ~run.tracking
    <2>1. PICK m : m = [run EXCEPT !.bypass = TRUE, !.stage = "ready"]
      OBVIOUS
    <2>2. run' = m /\ saved' = saved
      BY <1>3, <2>1 DEF Route
    <2>3. /\ m \in RunRows /\ m.stage = "ready" /\ m.up /\ ~m.refused
          /\ m.phase = "idle" /\ m.bypass
      BY <1>1, <2>1 DEF RunRows, Stages
    <2>4. PolicyOK(saved, m)
      BY <2>3 DEF PolicyOK, Attached
    <2> QED BY <1>1, <2>2, <2>3, <2>4 DEF ChargesInv, KeepsTurn
  <1>4. CASE saved.version # 16 /\ run.tracking
    <2>1. PICK n : n = Seen(run, now)
      OBVIOUS
    <2>2. /\ n \in RunRows /\ n.up /\ ~n.refused /\ n.phase = "idle" /\ ~n.bypass /\ ~n.limited
      BY <1>1, <2>1, SeenIs
    <2>3. PICK m : m = [n EXCEPT !.stage = "activate"]
      OBVIOUS
    <2>4. run' = m /\ saved' = saved
      BY <1>4, <2>1, <2>3 DEF Route
    <2>5. /\ m \in RunRows /\ m.stage = "activate" /\ m.up /\ ~m.refused /\ m.phase = "idle"
          /\ ~m.bypass /\ ~m.limited
      BY <2>2, <2>3 DEF RunRows, Stages
    <2>6. PolicyOK(saved, m)
      BY <1>4, <2>5 DEF PolicyOK, Attached
    <2> QED BY <1>1, <2>4, <2>5, <2>6 DEF ChargesInv, KeepsTurn
  <1> QED BY <1>2, <1>3, <1>4

LEMMA ActivateKeeps ==
  ASSUME ChargesInv, NEW now \in Times, Activate(now)
  PROVE  KeepsTurn
  <1>1. /\ RowsOK(saved) /\ PolicyOK(saved, run) /\ run \in RunRows /\ now \in Nat /\ 0 \in Nat
        /\ run.up /\ ~run.refused /\ run.stage = "activate" /\ ~run.limited /\ ~run.bypass
        /\ run.phase = "idle" /\ saved.version # 16
    BY TimesAre DEF Activate, Starting, ChargesInv, PolicyOK
  <1>2. PICK rows : rows = (IF saved.version = 14
                              THEN [version |-> 15, c |-> NewCharges(now)] ELSE saved)
    OBVIOUS
  <1>3. RowsOK(rows) /\ rows.version = 15
    <2>1. CASE saved.version = 14
      <3>1. PICK c \in ChargeRows : c = NewCharges(now) /\ ValidCharges(c)
        BY <1>1, NewChargesOK
      <3>2. rows = [version |-> 15, c |-> c]
        BY <1>2, <2>1, <3>1
      <3>3. rows \in Rows15 /\ rows.version = 15 /\ rows.c = c
        BY <3>2 DEF Rows15
      <3> QED BY <3>1, <3>3 DEF RowsOK, SavedRows
    <2>2. CASE saved.version # 14
      BY <1>1, <1>2, <2>2, RowsIs
    <2> QED BY <2>1, <2>2
  <1>4. PICK n : n = Accepted(Seen(run, now), rows, now, 0) /\ IsTaken(n, run, rows, now)
    <2>1. rows.version # 14
      BY <1>3
    <2> QED BY <1>1, <1>3, <2>1, TakenIs
  <1>5. PICK m : m = [n EXCEPT !.stage = "recover"]
    OBVIOUS
  <1>6. /\ m \in RunRows /\ m.stage = "recover" /\ m.mem = rows /\ ~m.limited
        /\ m.up /\ ~m.refused /\ m.phase = "idle" /\ ~m.bypass
    <2>1. /\ n \in RunRows /\ n.mem = rows /\ n.limited = (run.limited \/ rows.version = 16)
          /\ n.up /\ ~n.refused /\ n.phase = "idle" /\ ~n.bypass
      BY <1>1, <1>4 DEF IsTaken
    <2>2. ~run.limited /\ ~(rows.version = 16)
      BY <1>1, <1>3
    <2>3. /\ n \in RunRows /\ n.mem = rows /\ ~n.limited
          /\ n.up /\ ~n.refused /\ n.phase = "idle" /\ ~n.bypass
      BY <2>1, <2>2
    <2> QED BY <1>5, <2>3 DEF RunRows, Stages
  <1>7. PolicyOK(rows, m)
    BY <1>3, <1>6 DEF PolicyOK, Attached
  <1>8. Published(rows, m, Refusing)
    BY <1>2, <1>4, <1>5 DEF Activate
  <1> QED BY <1>1, <1>3, <1>6, <1>7, <1>8, PublishedOK

LEMMA RecoverKeeps ==
  ASSUME ChargesInv, NEW now \in Times, Recover(now)
  PROVE  KeepsTurn
  <1>1. /\ RowsOK(saved) /\ PolicyOK(saved, run) /\ run \in RunRows /\ now \in Nat
        /\ run.up /\ ~run.refused /\ run.stage = "recover" /\ ~run.bypass /\ run.phase = "idle"
        /\ run.mem = saved /\ saved.version # 14 /\ (run.limited <=> saved.version = 16)
        /\ saved.c.high <= now /\ saved.c.high \in Nat
    <2>1. /\ RowsOK(saved) /\ PolicyOK(saved, run) /\ now \in Nat /\ run.stage = "recover"
          /\ run.mem.c.high <= now
      BY TimesAre DEF Recover, Starting, ChargesInv
    <2>2. /\ run \in RunRows /\ run.up /\ ~run.refused /\ ~run.bypass /\ run.phase = "idle"
          /\ run.mem = saved /\ saved.version # 14 /\ (run.limited <=> saved.version = 16)
      BY <2>1 DEF PolicyOK, Attached
    <2> QED BY <2>1, <2>2, RowsIs, RowFields
  <1> DEFINE rows == IF ~Active(saved.c) THEN saved
                     ELSE IF run.limited THEN RecoverCPUSessionLimited(saved, now)
                     ELSE RecoverCPUSession(saved, now)
             intrinsic == IF Active(run.mem.c) THEN UnknownDelay ELSE 0
             stage == IF NeedsPeriod THEN "period" ELSE "begin"
             n == AcceptedAll(Seen(run, now), rows, now, intrinsic)
             m == [n EXCEPT !.stage = stage]
  <1>2. CASE Active(saved.c) /\ run.limited /\ now < saved.p.high
    <2>1. run' = Refusing /\ saved' = saved
      BY <1>2 DEF Recover, RefuseStart
    <2> QED BY <1>1, <2>1, IdleOK, DownIs, RefusingIs DEF ChargesInv, KeepsTurn
  <1>3. CASE ~(Active(saved.c) /\ run.limited /\ now < saved.p.high)
    <2>1. Published(rows, m, Refusing)
      BY <1>3 DEF Recover
    <2>2. Moved(rows, saved) /\ ~Active(rows.c) /\ rows.c.high <= now
      <3>1. CASE ~Active(saved.c)
        BY <1>1, <3>1 DEF Moved
      <3>2. CASE Active(saved.c) /\ run.limited
        <4>1. saved.p.high \in Nat
          BY <1>1, <3>2, RowsIs, AdmissionFields
        <4>2. saved.version = 16 /\ saved.p.high <= now
          BY <1>1, <1>3, <3>2, <4>1
        <4>3. RowsRecovered(RecoverCPUSessionLimited(saved, now), saved, now)
          BY <1>1, <3>2, <4>2, RecoverRows
        <4>4. rows = RecoverCPUSessionLimited(saved, now)
          BY <3>2
        <4> HIDE DEF rows
        <4> QED BY <1>1, <4>3, <4>4 DEF RowsRecovered
      <3>3. CASE Active(saved.c) /\ ~run.limited
        <4>1. saved.version = 15
          BY <1>1, <3>3, RowsIs
        <4>2. RowsRecovered(RecoverCPUSession(saved, now), saved, now)
          BY <1>1, <3>3, <4>1, RecoverRows
        <4>3. rows = RecoverCPUSession(saved, now)
          BY <3>3
        <4> HIDE DEF rows
        <4> QED BY <1>1, <4>2, <4>3 DEF RowsRecovered
      <3> QED BY <3>1, <3>2, <3>3
    <2>3. intrinsic \in Nat /\ stage \in Stages
      BY WaitAssumption DEF Stages
    <2>4. stage = "period" => ~run.limited /\ run.limits # Unlimited
      BY DEF NeedsPeriod, Unlimited
    <2>5. stage = "begin" /\ run.limits # Unlimited => run.limited
      BY DEF NeedsPeriod, Unlimited
    <2>6. stage \in {"period", "begin"}
      OBVIOUS
    <2> HIDE DEF rows, intrinsic, stage
    <2>7. RowsOK(rows) /\ rows.version = saved.version /\ rows.version # 14
      BY <1>1, <2>2 DEF Moved
    <2>8. IsTaken(n, run, rows, now)
      BY <1>1, <2>3, <2>7, TakenIs
    <2> HIDE DEF n
    <2>9. /\ n \in RunRows /\ n.mem = rows /\ (n.limited <=> rows.version = 16)
          /\ (n.limited <=> run.limited) /\ n.limits = run.limits
          /\ n.up /\ ~n.refused /\ n.phase = "idle" /\ ~n.bypass /\ n.wallHigh >= now
      BY <1>1, <2>7, <2>8 DEF IsTaken
    <2>10. /\ m \in RunRows /\ m.stage = stage /\ m.mem = rows /\ m.limited = n.limited
           /\ m.limits = n.limits /\ m.wallHigh = n.wallHigh
           /\ m.up = n.up /\ m.refused = n.refused /\ m.phase = n.phase /\ m.bypass = n.bypass
      BY <2>3, <2>9 DEF RunRows
    <2> HIDE DEF m
    <2>11. rows.c.high <= m.wallHigh
      <3>1. rows.c.high \in Nat /\ m.wallHigh \in Nat
        BY <2>7, <2>10, RowsIs, RowFields, RunFields
      <3> QED BY <1>1, <2>2, <2>9, <2>10, <3>1
    <2>12. PolicyOK(rows, m)
      BY <2>2, <2>4, <2>5, <2>6, <2>7, <2>9, <2>10, <2>11 DEF PolicyOK, Attached
    <2> QED BY <1>1, <2>1, <2>7, <2>9, <2>10, <2>12, PublishedOK
  <1> QED BY <1>2, <1>3

LEMMA ActivatePeriodKeeps ==
  ASSUME ChargesInv, ActivatePeriod
  PROVE  KeepsTurn
  <1>1. /\ RowsOK(saved) /\ PolicyOK(saved, run) /\ run \in RunRows /\ run.stage = "period"
        /\ run.up /\ ~run.refused /\ ~run.bypass /\ run.phase = "idle"
        /\ saved.version = 15 /\ ~Active(saved.c) /\ saved.c.high <= run.wallHigh
        /\ run.limits # Unlimited /\ run.limits \in LimitRows /\ run.wallHigh \in Nat
    <2>1. RowsOK(saved) /\ PolicyOK(saved, run) /\ run.stage = "period"
      BY DEF ActivatePeriod, ChargesInv
    <2>2. /\ run \in RunRows /\ run.up /\ ~run.refused /\ ~run.bypass /\ run.phase = "idle"
          /\ saved.version # 14 /\ saved.version # 16 /\ ~Active(saved.c)
          /\ saved.c.high <= run.wallHigh /\ run.limits # Unlimited
      BY <2>1 DEF PolicyOK, Attached
    <2> QED BY <2>1, <2>2, RowsIs, RunFields
  <1>2. PICK c \in ChargeRows :
          c = saved.c /\ ValidCharges(c) /\ ~Active(c) /\ c.high <= run.wallHigh
    BY <1>1, RowsIs
  <1>3. PICK p : p = NewSlots(c, run.wallHigh, run.limits) /\ SlotsOK(p, c)
    BY <1>1, <1>2, NewSlotsOK DEF Unlimited
  <1>4. PICK rows : rows = [version |-> 16, c |-> c, p |-> p]
    OBVIOUS
  <1>5. RowsOK(rows) /\ rows.version = 16 /\ rows.c = c
    <2>1. p \in AdmissionRows
      BY <1>3 DEF SlotsOK
    <2>2. rows \in Rows16 /\ rows.version = 16 /\ rows.c = c /\ rows.p = p
      BY <1>4, <2>1 DEF Rows16
    <2> QED BY <1>2, <1>3, <2>2 DEF RowsOK, SavedRows
  <1>6. PICK n : n = AcceptedSlots(run, rows, run.wallHigh) /\ IsAccepted(n, run, rows)
    BY <1>1, <1>5, AcceptedSlotsIs
  <1>7. PICK m : m = [n EXCEPT !.stage = "begin"]
    OBVIOUS
  <1>8. /\ m \in RunRows /\ m.stage = "begin" /\ m.mem = rows /\ m.limited
        /\ m.up /\ ~m.refused /\ m.phase = "idle" /\ ~m.bypass
    <2>1. /\ n \in RunRows /\ n.mem = rows /\ n.limited
          /\ n.up /\ ~n.refused /\ n.phase = "idle" /\ ~n.bypass
      BY <1>1, <1>5, <1>6 DEF IsAccepted
    <2> QED BY <1>7, <2>1 DEF RunRows, Stages
  <1>9. PolicyOK(rows, m)
    BY <1>2, <1>5, <1>8 DEF PolicyOK, Attached
  <1>10. Published(rows, m, Refusing)
    BY <1>2, <1>3, <1>4, <1>6, <1>7 DEF ActivatePeriod
  <1> QED BY <1>1, <1>5, <1>8, <1>9, <1>10, PublishedOK

LEMMA OpenGapKeeps ==
  ASSUME ChargesInv, NEW now \in Times, OpenGap(now)
  PROVE  KeepsTurn
  <1>1. /\ RowsOK(saved) /\ PolicyOK(saved, run) /\ run.stage = "gap"
        /\ now \in Nat /\ saved.version = 16
    BY TimesAre DEF OpenGap, Starting, ChargesInv, PolicyOK
  <1>2. CASE ~saved.p.gapOpen /\ now < saved.p.high
    <2>1. run' = Refusing /\ saved' = saved
      BY <1>2 DEF OpenGap, RefuseStart
    <2> QED BY <1>1, <2>1, IdleOK, DownIs, RefusingIs DEF ChargesInv, KeepsTurn
  <1>3. CASE ~(~saved.p.gapOpen /\ now < saved.p.high)
    <2>1. PICK open : open = [Down EXCEPT !.up = TRUE, !.bypass = TRUE, !.stage = "ready"]
      OBVIOUS
    <2>2. PICK rows : rows = OpenCPUTrackingGap(saved, now)
      OBVIOUS
    <2>3. Published(rows, open, Refusing)
      BY <1>3, <2>1, <2>2 DEF OpenGap
    <2>4. RowsOK(rows)
      <3>1. saved.p.high \in Nat
        BY <1>1, RowsIs, AdmissionFields
      <3>2. ~saved.p.gapOpen => saved.p.high <= now
        BY <1>1, <1>3, <3>1
      <3>3. Moved(rows, saved)
        BY <1>1, <2>2, <3>2, GapRows
      <3> QED BY <3>3 DEF Moved
    <2>5. /\ open \in RunRows /\ open.up /\ ~open.refused /\ open.bypass /\ open.stage = "ready"
          /\ open.phase = "idle"
      BY <2>1, DownIs DEF RunRows, Stages
    <2>6. PolicyOK(rows, open)
      BY <2>5 DEF PolicyOK, Attached
    <2> QED BY <1>1, <2>3, <2>4, <2>5, <2>6, PublishedOK
  <1> QED BY <1>2, <1>3

LEMMA BeginKeeps ==
  ASSUME ChargesInv, NEW now \in Times, NEW cpu \in Observations, Begin(now, cpu)
  PROVE  KeepsTurn
  <1>1. /\ RowsOK(saved) /\ PolicyOK(saved, run) /\ run \in RunRows /\ now \in Nat
        /\ run.up /\ ~run.refused /\ run.stage = "begin" /\ ~run.bypass /\ run.phase = "idle"
        /\ run.mem = saved /\ saved.version # 14 /\ (run.limited <=> saved.version = 16)
        /\ saved.c.high <= now /\ ~Active(saved.c)
        /\ run.limits # Unlimited => run.limited
    <2>1. /\ RowsOK(saved) /\ PolicyOK(saved, run) /\ now \in Nat /\ run.stage = "begin"
          /\ run.mem.c.high <= now
      BY TimesAre DEF Begin, Starting, ChargesInv
    <2>2. /\ run \in RunRows /\ run.up /\ ~run.refused /\ ~run.bypass /\ run.phase = "idle"
          /\ run.mem = saved /\ saved.version # 14 /\ (run.limited <=> saved.version = 16)
          /\ ~Active(saved.c) /\ (run.limits # Unlimited => run.limited)
      BY <2>1 DEF PolicyOK, Attached
    <2> QED BY <2>1, <2>2
  <1> DEFINE start == [at |-> now, cpu |-> cpu]
             rows == IF run.limited THEN BeginCPUSessionLimited(saved, start, run.limits)
                     ELSE BeginCPUSession(saved, start)
             n == AcceptedAll(Seen(run, now), rows, now, rows.c.session.backoff)
             m == [n EXCEPT !.stage = "ready", !.since = 0]
             accepted == IF cpu = Unseen THEN Refusing ELSE m
  <1>2. CASE rows.c.charged > MaxCharge \/ (run.limited /\ now < saved.p.high)
    <2>1. run' = Refusing /\ saved' = saved
      BY <1>2 DEF Begin, RefuseStart
    <2> QED BY <1>1, <2>1, IdleOK, DownIs, RefusingIs DEF ChargesInv, KeepsTurn
  <1>3. CASE ~(rows.c.charged > MaxCharge \/ (run.limited /\ now < saved.p.high))
    <2>1. Published(rows, accepted, Refusing)
      BY <1>3 DEF Begin
    <2>2. run.limited => saved.p.high <= now
      <3>1. run.limited => saved.p.high \in Nat
        BY <1>1, RowsIs, AdmissionFields
      <3> QED BY <1>1, <1>3, <3>1
    <2>3. start \in Starts /\ start.at = now /\ start.cpu = cpu
      BY <1>1, ReadingsAssumption DEF Starts, CPUTimes, Observations
    <2> HIDE DEF start
    <2>4. run.limits \in LimitRows /\ run.limited \in BOOLEAN
      BY <1>1, RunFields
    <2>5. /\ RowsBegun(rows, saved, start)
          /\ run.limited => rows.p.high = now /\ rows.p.limits = run.limits
      <3>1. CASE run.limited
        <4>1. PICK x : x = BeginCPUSessionLimited(saved, start, run.limits)
          OBVIOUS
        <4>2. saved.version = 16 /\ saved.p.high <= start.at /\ saved.c.high <= start.at
          BY <1>1, <2>2, <2>3, <3>1
        <4>3. RowsBegun(x, saved, start) /\ x.p.high = start.at /\ x.p.limits = run.limits
          BY <1>1, <2>3, <2>4, <4>1, <4>2, BeginRows
        <4>4. rows = x
          BY <3>1, <4>1
        <4> HIDE DEF rows
        <4> QED BY <2>3, <4>3, <4>4
      <3>2. CASE ~run.limited
        <4>1. PICK x : x = BeginCPUSession(saved, start)
          OBVIOUS
        <4>2. saved.version = 15 /\ saved.c.high <= start.at
          BY <1>1, <2>3, <3>2, RowsIs
        <4>3. RowsBegun(x, saved, start)
          BY <1>1, <2>3, <2>4, <4>1, <4>2, BeginRows
        <4>4. rows = x
          BY <3>2, <4>1
        <4> HIDE DEF rows
        <4> QED BY <3>2, <4>3, <4>4
      <3> QED BY <3>1, <3>2
    <2> HIDE DEF rows
    <2>6. /\ RowsOK(rows) /\ rows.version = saved.version /\ rows.c.high = now
          /\ rows.c.session \in Sessions /\ (cpu # Unseen => Active(rows.c))
      BY <2>3, <2>5 DEF RowsBegun, Moved
    <2>7. CASE cpu = Unseen
      <3>1. accepted = Refusing
        BY <2>7
      <3> HIDE DEF accepted
      <3> QED BY <1>1, <2>1, <2>6, <3>1, IdleOK, DownIs, RefusingIs, PublishedOK
    <2>8. CASE cpu # Unseen
      <3>1. IsTaken(n, run, rows, now)
        <4>1. rows.c.session.backoff \in Nat /\ rows.version # 14
          BY <1>1, <2>6 DEF Sessions
        <4> QED BY <1>1, <2>6, <4>1, TakenIs
      <3>2. accepted = m
        BY <2>8
      <3> HIDE DEF n, accepted
      <3>3. /\ n \in RunRows /\ n.mem = rows /\ (n.limited <=> rows.version = 16)
            /\ (n.limited <=> run.limited) /\ n.limits = run.limits
            /\ n.up /\ ~n.refused /\ n.phase = "idle" /\ ~n.bypass
        BY <1>1, <2>6, <3>1 DEF IsTaken
      <3>4. /\ m \in RunRows /\ m.stage = "ready" /\ m.mem = rows /\ m.limited = n.limited
            /\ m.limits = n.limits
            /\ m.up = n.up /\ m.refused = n.refused /\ m.phase = n.phase /\ m.bypass = n.bypass
        BY <3>3 DEF RunRows, Stages
      <3> HIDE DEF m
      <3>5. PolicyOK(rows, m)
        BY <1>1, <2>5, <2>6, <2>8, <3>3, <3>4 DEF PolicyOK, Attached
      <3> QED BY <1>1, <2>1, <2>6, <3>2, <3>3, <3>4, <3>5, PublishedOK
    <2> QED BY <2>7, <2>8
  <1> QED BY <1>2, <1>3

\* In a turn of the loop the session is the policy's own.
LEMMA TurnFacts ==
  ASSUME ChargesInv, run.up, ~run.refused, run.stage = "ready", ~run.bypass
  PROVE  /\ RowsOK(saved) /\ PolicyOK(saved, run) /\ run \in RunRows
         /\ run.mem = saved /\ saved.version # 14 /\ (run.limited <=> saved.version = 16)
         /\ Active(saved.c) /\ saved.c \in ChargeRows
         /\ saved.c.high \in Nat /\ saved.c.next \in Nat
         /\ run.limits # Unlimited => run.limited
         /\ run.limited => /\ saved.p.limits = run.limits /\ saved.p.high = saved.c.high
                           /\ SlotsOK(saved.p, saved.c)
  <1>1. /\ RowsOK(saved) /\ PolicyOK(saved, run)
    BY DEF ChargesInv
  <1>2. /\ run \in RunRows /\ run.mem = saved /\ saved.version # 14
        /\ (run.limited <=> saved.version = 16)
        /\ Active(saved.c) /\ (run.limits # Unlimited => run.limited)
        /\ run.limited => saved.p.limits = run.limits /\ saved.p.high = saved.c.high
    BY <1>1 DEF PolicyOK, Attached
  <1> QED BY <1>1, <1>2, RowsIs, RowFields

\* Only a charged process has turns.
LEMMA BusyIs ==
  ASSUME ChargesInv, run.phase # "idle"
  PROVE  ~run.bypass
  BY DEF ChargesInv, PolicyOK

LEMMA SelectKeeps ==
  ASSUME ChargesInv, NEW now \in Times, Select(now)
  PROVE  KeepsTurn
  <1>1. RowsOK(saved) /\ PolicyOK(saved, run) /\ run \in RunRows /\ now \in Nat
        /\ run.stage = "ready" /\ ~run.bypass
    BY TimesAre DEF Select, Ready, ChargesInv, PolicyOK
  <1>2. PICK n : n = Seen(run, now)
    OBVIOUS
  <1>3. PolicyOK(saved, n) /\ n.stage = "ready" /\ ~n.bypass
    BY <1>1, <1>2, SeenOK, SeenIs
  <1>4. PolicyOK(saved, [n EXCEPT !.phase = "selected"])
    BY <1>3, PhaseOK
  <1>5. run' = [n EXCEPT !.phase = "selected"] /\ saved' = saved
    BY <1>2 DEF Select
  <1> QED BY <1>1, <1>4, <1>5 DEF ChargesInv, KeepsTurn

LEMMA AdmitKeeps ==
  ASSUME ChargesInv, NEW now \in Times, Admit(now)
  PROVE  ChargesInv'
  <1>1. RowsOK(saved) /\ PolicyOK(saved, run) /\ run \in RunRows /\ now \in Nat
        /\ run.stage = "ready" /\ ~run.bypass
    BY TimesAre DEF Admit, Ready, ChargesInv, PolicyOK
  <1>2. PICK n : n = Seen(run, now)
    OBVIOUS
  <1>3. PolicyOK(saved, n) /\ n.stage = "ready" /\ ~n.bypass
    BY <1>1, <1>2, SeenOK, SeenIs
  <1>4. PolicyOK(saved, [n EXCEPT !.phase = "working"])
    BY <1>3, PhaseOK
  <1>5. run' = [n EXCEPT !.phase = "working"] /\ saved' = saved
    BY <1>2 DEF Admit
  <1> QED BY <1>1, <1>4, <1>5 DEF ChargesInv

LEMMA DeclineKeeps ==
  ASSUME ChargesInv, Decline
  PROVE  KeepsTurn
  <1>1. RowsOK(saved) /\ PolicyOK(saved, run) /\ run.stage = "ready" /\ ~run.bypass
    BY DEF Decline, Ready, ChargesInv, PolicyOK
  <1>2. PolicyOK(saved, [run EXCEPT !.phase = "idle"])
    BY <1>1, PhaseOK
  <1>3. run' = [run EXCEPT !.phase = "idle"] /\ saved' = saved
    BY DEF Decline
  <1> QED BY <1>1, <1>2, <1>3 DEF ChargesInv, KeepsTurn

LEMMA SampleKeeps ==
  ASSUME ChargesInv, run.up, ~run.refused, run.stage = "ready", ~run.bypass,
         NEW now \in Times, NEW cpu \in Observations, NEW final \in BOOLEAN,
         NEW phase \in {"sampled", "idle", "stopped"}, final => phase = "stopped",
         Sample(now, cpu, final, phase)
  PROVE  KeepsTurn
  <1>1. /\ RowsOK(saved) /\ PolicyOK(saved, run) /\ run \in RunRows /\ now \in Nat /\ now # 0
        /\ run.mem = saved /\ saved.version # 14 /\ (run.limited <=> saved.version = 16)
        /\ Active(saved.c) /\ (run.limits # Unlimited => run.limited)
        /\ run.limited => saved.p.limits = run.limits
    BY TurnFacts, TimesAre
  <1> DEFINE q == [at |-> now, cpu |-> cpu, final |-> final,
                   elapsed |-> IF Rollback(now) THEN 0 ELSE run.since]
             rows == IF run.limited THEN SampleCPUSessionLimited(saved, q)
                     ELSE SampleCPUSession(saved, q)
             n == AcceptedAll(Seen(run, now), rows, now, rows.c.session.backoff)
             next == [n EXCEPT !.since = 0]
             taken == IF Unknown(rows.c) \/ Rollback(now) THEN Refusing ELSE next
  <1>2. After(Refusing, phase) \in {Down, Refusing}
    BY RefusingIs DEF After
  <1>3. CASE rows.c.charged > MaxCharge
    <2>1. run' = After(Refusing, phase) /\ saved' = saved
      BY <1>3 DEF Sample
    <2> QED BY <1>1, <1>2, <2>1, IdleOK, DownIs, RefusingIs DEF ChargesInv, KeepsTurn
  <1>4. CASE ~(rows.c.charged > MaxCharge)
    <2>1. Published(rows, After(taken, phase), After(Refusing, phase))
      BY <1>4 DEF Sample
    <2>2. q \in Samples /\ q.final = final
      <3>1. PICK spent \in Nat : spent = (IF Rollback(now) THEN 0 ELSE run.since)
        BY <1>1, RunFields
      <3>2. cpu \in CPUTimes
        BY ReadingsAssumption DEF Observations, CPUTimes
      <3>3. q = [at |-> now, cpu |-> cpu, final |-> final, elapsed |-> spent]
        BY <3>1
      <3> HIDE DEF q
      <3> QED BY <1>1, <3>2, <3>3 DEF Samples
    <2> HIDE DEF q
    <2>3. RowsSampled(rows, saved, q)
          /\ (run.limited => rows.p.limits = saved.p.limits /\ rows.p.high = rows.c.high)
      <3>1. CASE run.limited
        <4>1. PICK x : x = SampleCPUSessionLimited(saved, q)
          OBVIOUS
        <4>2. RowsSampled(x, saved, q) /\ x.p.limits = saved.p.limits /\ x.p.high = x.c.high
          BY <1>1, <2>2, <3>1, <4>1, SampleRows
        <4>3. rows = x
          BY <3>1, <4>1
        <4> HIDE DEF rows
        <4> QED BY <4>2, <4>3
      <3>2. CASE ~run.limited
        <4>1. PICK x : x = SampleCPUSession(saved, q)
          OBVIOUS
        <4>2. saved.version = 15
          BY <1>1, <3>2, RowsIs
        <4>3. RowsSampled(x, saved, q)
          BY <1>1, <2>2, <4>1, <4>2, SampleRows
        <4>4. rows = x
          BY <3>2, <4>1
        <4> HIDE DEF rows
        <4> QED BY <3>2, <4>3, <4>4
      <3> QED BY <3>1, <3>2
    <2> HIDE DEF rows
    <2>4. /\ RowsOK(rows) /\ rows.version = saved.version /\ rows.c.session \in Sessions
          /\ Unknown(rows.c) \/ Active(rows.c) \/ final
      BY <2>2, <2>3 DEF RowsSampled, Moved
    <2>5. CASE phase = "stopped" \/ Unknown(rows.c) \/ Rollback(now)
      <3>1. After(taken, phase) \in {Down, Refusing}
        <4>1. CASE phase = "stopped"
          BY <4>1 DEF After
        <4>2. CASE Unknown(rows.c) \/ Rollback(now)
          <5>1. taken = Refusing
            BY <4>2
          <5> HIDE DEF taken
          <5> QED BY <1>2, <5>1
        <4> QED BY <2>5, <4>1, <4>2
      <3> HIDE DEF taken
      <3> QED BY <1>1, <1>2, <2>1, <2>4, <3>1, IdleOK, DownIs, RefusingIs, PublishedOK
    <2>6. CASE ~(phase = "stopped" \/ Unknown(rows.c) \/ Rollback(now))
      <3>1. Active(rows.c) /\ taken = next
        BY <2>4, <2>6
      <3> HIDE DEF taken
      <3>2. IsTaken(n, run, rows, now)
        <4>1. rows.c.session.backoff \in Nat /\ rows.version # 14
          BY <1>1, <2>4 DEF Sessions
        <4> QED BY <1>1, <2>4, <4>1, TakenIs
      <3> HIDE DEF n
      <3>3. /\ n \in RunRows /\ n.mem = rows /\ (n.limited <=> rows.version = 16)
            /\ (n.limited <=> run.limited) /\ n.limits = run.limits
            /\ n.up /\ ~n.refused /\ ~n.bypass /\ n.stage = "ready"
        BY <1>1, <2>4, <3>2 DEF IsTaken
      <3>4. /\ next \in RunRows /\ next.stage = "ready" /\ next.mem = rows
            /\ next.limited = n.limited /\ next.limits = n.limits
            /\ next.up = n.up /\ next.refused = n.refused /\ next.bypass = n.bypass
        BY <3>3 DEF RunRows
      <3> HIDE DEF next
      <3>5. PolicyOK(rows, next)
        BY <1>1, <2>3, <2>4, <3>1, <3>3, <3>4 DEF PolicyOK, Attached
      <3>6. After(taken, phase) = [next EXCEPT !.phase = phase]
        BY <2>6, <3>1, <3>3, <3>4 DEF After
      <3>7. PolicyOK(rows, [next EXCEPT !.phase = phase])
        BY <2>6, <3>3, <3>4, <3>5, PhaseOK
      <3>8. [next EXCEPT !.phase = phase].phase # "working"
        BY <3>4 DEF RunRows
      <3> QED BY <1>1, <1>2, <2>1, <2>4, <3>6, <3>7, <3>8, PublishedOK
    <2> QED BY <2>5, <2>6
  <1> QED BY <1>3, <1>4

LEMMA SampleSelectedKeeps ==
  ASSUME ChargesInv, NEW now \in Times, NEW cpu \in Observations, SampleSelected(now, cpu)
  PROVE  KeepsTurn
  <1>1. /\ run.up /\ ~run.refused /\ run.stage = "ready" /\ ~run.bypass
        /\ Sample(now, cpu, FALSE, "sampled")
    BY BusyIs DEF SampleSelected, Ready
  <1>2. FALSE \in BOOLEAN /\ "sampled" \in {"sampled", "idle", "stopped"}
    OBVIOUS
  <1> QED BY <1>1, <1>2, SampleKeeps

LEMMA CompleteKeeps ==
  ASSUME ChargesInv, NEW now \in Times, NEW cpu \in Observations, Complete(now, cpu)
  PROVE  KeepsTurn
  <1>1. /\ run.up /\ ~run.refused /\ run.stage = "ready" /\ ~run.bypass
        /\ Sample(now, cpu, FALSE, "idle")
    BY BusyIs DEF Complete, Ready
  <1>2. FALSE \in BOOLEAN /\ "idle" \in {"sampled", "idle", "stopped"}
    OBVIOUS
  <1> QED BY <1>1, <1>2, SampleKeeps

LEMMA FinishKeeps ==
  ASSUME ChargesInv, NEW now \in Times, NEW cpu \in Observations, Finish(now, cpu)
  PROVE  KeepsTurn
  <1>1. /\ run.up /\ ~run.refused /\ run.stage = "ready" /\ ~run.bypass
        /\ Sample(now, cpu, TRUE, "stopped")
    BY DEF Finish, Ready
  <1>2. TRUE \in BOOLEAN /\ "stopped" \in {"sampled", "idle", "stopped"}
    OBVIOUS
  <1> QED BY <1>1, <1>2, SampleKeeps

LEMMA PassUnitKeeps ==
  ASSUME ChargesInv, PassUnit
  PROVE  KeepsTurn
  <1>1. /\ RowsOK(saved) /\ PolicyOK(saved, run) /\ run \in RunRows /\ saved' = saved
        /\ run.due \in Nat /\ run.since \in Nat /\ run.hour \in Fences /\ run.day \in Fences
    BY RunFields DEF PassUnit, ChargesInv, PolicyOK
  <1>2. PICK due \in Nat, since \in Nat :
          /\ due = Left(run.due)
          /\ since = (IF run.stage = "ready" /\ run.since < MaxSince
                        THEN run.since + 1 ELSE run.since)
    <2>1. Left(run.due) \in Nat
      BY <1>1 DEF Left
    <2>2. (IF run.stage = "ready" /\ run.since < MaxSince THEN run.since + 1 ELSE run.since) \in Nat
      BY <1>1
    <2> QED BY <2>1, <2>2
  <1>3. PICK hour \in Fences, day \in Fences :
          /\ hour = [run.hour EXCEPT !.left = Left(run.hour.left)]
          /\ day = [run.day EXCEPT !.left = Left(run.day.left)]
    <2>1. Left(run.hour.left) \in Nat /\ Left(run.day.left) \in Nat
      BY <1>1 DEF Left, Fences
    <2>2. /\ [run.hour EXCEPT !.left = Left(run.hour.left)] \in Fences
          /\ [run.day EXCEPT !.left = Left(run.day.left)] \in Fences
      BY <1>1, <2>1 DEF Fences
    <2> QED BY <2>2
  <1>4. PICK n : n = [run EXCEPT !.due = due, !.hour = hour, !.day = day, !.since = since]
    OBVIOUS
  <1>5. run' = n
    BY <1>1, <1>2, <1>3, <1>4 DEF PassUnit, RunRows
  <1>6. /\ n \in RunRows /\ n.wallHigh = run.wallHigh /\ n.phase = run.phase
        /\ n.up = run.up /\ n.refused = run.refused /\ n.stage = run.stage
        /\ n.limits = run.limits /\ n.bypass = run.bypass /\ n.limited = run.limited
        /\ n.mem = run.mem
    BY <1>1, <1>4 DEF RunRows
  <1>7. PolicyOK(saved, n)
    BY <1>1, <1>6 DEF PolicyOK, Attached
  <1> QED BY <1>1, <1>5, <1>6, <1>7 DEF ChargesInv, KeepsTurn

LEMMA ChargesKept ==
  ChargesInv /\ [ChargesNext]_chargesVars => ChargesInv'
  <1> SUFFICES ASSUME ChargesInv, [ChargesNext]_chargesVars
               PROVE  ChargesInv'
    OBVIOUS
  <1>1. CASE UNCHANGED chargesVars
    BY <1>1 DEF chargesVars, ChargesInv
  <1>2. ASSUME NEW profile \in Profiles, Start(profile)
        PROVE  ChargesInv'
    BY <1>2, StartKeeps DEF KeepsTurn
  <1>3. ASSUME NEW now \in Times,
               \/ ReadClocks(now) \/ Route(now) \/ Activate(now) \/ Recover(now)
               \/ OpenGap(now) \/ Select(now) \/ Admit(now)
        PROVE  ChargesInv'
    BY <1>3, ReadClocksKeeps, RouteKeeps, ActivateKeeps, RecoverKeeps, OpenGapKeeps,
       SelectKeeps, AdmitKeeps DEF KeepsTurn
  <1>4. ASSUME NEW now \in Times, NEW cpu \in Observations,
               \/ Begin(now, cpu) \/ SampleSelected(now, cpu)
               \/ Complete(now, cpu) \/ Finish(now, cpu)
        PROVE  ChargesInv'
    BY <1>4, BeginKeeps, SampleSelectedKeeps, CompleteKeeps, FinishKeeps DEF KeepsTurn
  <1>5. CASE ActivatePeriod
    BY <1>5, ActivatePeriodKeeps DEF KeepsTurn
  <1>6. CASE Decline
    BY <1>6, DeclineKeeps DEF KeepsTurn
  <1>7. CASE Crash
    BY <1>7, IdleOK DEF Crash, ChargesInv
  <1>8. CASE PassUnit
    BY <1>8, PassUnitKeeps DEF KeepsTurn
  <1> QED BY <1>1, <1>2, <1>3, <1>4, <1>5, <1>6, <1>7, <1>8 DEF ChargesNext

LEMMA ChargesStart == ChargesInit => ChargesInv
  <1> SUFFICES ASSUME ChargesInit PROVE ChargesInv
    OBVIOUS
  <1>1. saved = [version |-> 14] /\ saved.version = 14
    BY DEF ChargesInit
  <1>2. RowsOK(saved)
    BY <1>1 DEF RowsOK, SavedRows
  <1> QED BY <1>2, IdleOK DEF ChargesInit, ChargesInv

\* The accounting rows are the ones the policy works on, and readable: in every
\* state, for every clock, limit, CPU time and length of a slot.
THEOREM ChargesInvariant == ChargesSpec => []ChargesInv
  BY ChargesStart, ChargesKept, PTL DEF ChargesSpec

\* validCPUCharges and validCPUAdmission accept whatever the program has saved,
\* after any crash, lost answer or clock jump.
THEOREM AccountingAlwaysReadable == ChargesSpec => []AccountingReadable
  <1>1. ChargesInv => AccountingReadable
    BY DEF ChargesInv, RowsOK, SlotsOK, AccountingReadable, Readable
  <1> QED BY <1>1, ChargesInvariant, PTL

LEMMA OnlyAdmitWorks ==
  ASSUME ChargesInv, [ChargesNext]_chargesVars, run.phase # "working", run'.phase = "working"
  PROVE  \E now \in Times : Admit(now)
  <1> SUFFICES ASSUME \A now \in Times : ~Admit(now) PROVE FALSE
    OBVIOUS
  <1>1. CASE UNCHANGED chargesVars
    BY <1>1 DEF chargesVars
  <1>2. ASSUME NEW profile \in Profiles, Start(profile)
        PROVE  FALSE
    BY <1>2, StartKeeps DEF KeepsTurn
  <1>3. ASSUME NEW now \in Times,
               \/ ReadClocks(now) \/ Route(now) \/ Activate(now) \/ Recover(now)
               \/ OpenGap(now) \/ Select(now)
        PROVE  FALSE
    BY <1>3, ReadClocksKeeps, RouteKeeps, ActivateKeeps, RecoverKeeps, OpenGapKeeps,
       SelectKeeps DEF KeepsTurn
  <1>4. ASSUME NEW now \in Times, NEW cpu \in Observations,
               \/ Begin(now, cpu) \/ SampleSelected(now, cpu)
               \/ Complete(now, cpu) \/ Finish(now, cpu)
        PROVE  FALSE
    BY <1>4, BeginKeeps, SampleSelectedKeeps, CompleteKeeps, FinishKeeps DEF KeepsTurn
  <1>5. CASE ActivatePeriod
    BY <1>5, ActivatePeriodKeeps DEF KeepsTurn
  <1>6. CASE Decline
    BY <1>6, DeclineKeeps DEF KeepsTurn
  <1>7. CASE Crash
    BY <1>7, DownIs DEF Crash
  <1>8. CASE PassUnit
    BY <1>8, PassUnitKeeps DEF KeepsTurn
  <1> QED BY <1>1, <1>2, <1>3, <1>4, <1>5, <1>6, <1>7, <1>8 DEF ChargesNext

\* A slot that holds the moment now, or an earlier one, admits work.
OpenAt(now, period, limit, len) ==
  limit > 0 => IF SlotOf(now, len) = period.start
                 THEN period.assigned < limit /\ ~period.partial /\ ~period.unknown
                 ELSE now > period.start

LEMMA OpenSlot ==
  ASSUME NEW period \in SlotRows, NEW len \in Nat \ {0}, NEW seen \in Nat, NEW now \in Nat,
         seen <= now, period.start = SlotOf(seen, len), NEW limit \in Nat, NEW gap,
         limit > 0 => ~Blocked(period, limit, gap)
  PROVE  OpenAt(now, period, limit, len)
  <1> SUFFICES ASSUME limit > 0
               PROVE  IF SlotOf(now, len) = period.start
                        THEN period.assigned < limit /\ ~period.partial /\ ~period.unknown
                        ELSE now > period.start
    BY DEF OpenAt
  <1>1. period.assigned \in Nat /\ period.start \in Nat
    BY DEF SlotRows
  <1>2. CASE SlotOf(now, len) = period.start
    BY <1>1, <1>2 DEF Blocked
  <1>3. CASE SlotOf(now, len) # period.start
    <2>1. period.start <= now
      BY <1>1, SlotBounds
    <2>2. now # period.start
      BY <1>3, SlotAgain
    <2> QED BY <1>1, <1>3, <2>1, <2>2
  <1> QED BY <1>2, <1>3

LEMMA AdmittedByRows ==
  ASSUME ChargesInv, NEW now \in Times, Admit(now)
  PROVE  WorkByRows
  <1>1. run.up /\ ~run.refused /\ run.stage = "ready" /\ ~run.bypass
    BY BusyIs DEF Admit, Ready
  <1>2. /\ run \in RunRows /\ run.mem = saved /\ saved.version # 14
        /\ (run.limited <=> saved.version = 16) /\ Active(saved.c)
        /\ saved.c.high \in Nat /\ saved.c.next \in Nat /\ saved.c \in ChargeRows
        /\ run.limits # Unlimited => run.limited
        /\ run.limited => /\ saved.p.limits = run.limits /\ saved.p.high = saved.c.high
                          /\ SlotsOK(saved.p, saved.c)
    BY <1>1, TurnFacts
  <1>3. now \in Nat /\ run.wallHigh \in Nat /\ run.limits \in LimitRows
    BY <1>2, TimesAre, RunFields
  <1>4. ~Rollback(now) /\ DebtServed(now, FALSE)
    BY DEF Admit
  <1>5. run'.wallHigh = now
    <2>1. PICK n : n = Seen(run, now)
      OBVIOUS
    <2>2. n \in RunRows /\ n.wallHigh = Latest(run.wallHigh, now)
      BY <1>2, <1>3, <2>1, SeenIs
    <2>3. run' = [n EXCEPT !.phase = "working"]
      BY <2>1 DEF Admit
    <2>4. run'.wallHigh = n.wallHigh
      BY <2>2, <2>3 DEF RunRows
    <2> QED BY <1>3, <1>4, <2>2, <2>4 DEF Rollback, Latest
  <1>6. saved.c.high <= now /\ saved.c.next <= now
    BY <1>2, <1>3, <1>4 DEF DebtServed
  <1>7. ASSUME run.limits # Unlimited
        PROVE  /\ saved.version = 16 /\ ~saved.p.gapOpen /\ saved.p.limits = run.limits
               /\ OpenAt(now, saved.p.hour, run.limits.hour, HourLen)
               /\ OpenAt(now, saved.p.day, run.limits.day, DayLen)
    <2>1. saved.version = 16 /\ saved.p.limits = run.limits /\ run.limited
          /\ SlotsOK(saved.p, saved.c) /\ saved.p.high = saved.c.high
      BY <1>2, <1>7
    <2>2. PICK p \in AdmissionRows : p = saved.p /\ SlotsOK(p, saved.c) /\ p.high = saved.c.high
      BY <2>1 DEF SlotsOK
    <2>3. /\ p.hour \in SlotRows /\ p.day \in SlotRows /\ p.high \in Nat /\ p.high <= now
          /\ HourLen \in Nat \ {0} /\ DayLen \in Nat \ {0}
      BY <1>2, <1>6, <2>2, AdmissionFields
    <2>4. /\ p.hour.start = SlotOf(p.high, HourLen) /\ p.day.start = SlotOf(p.high, DayLen)
          /\ ~p.gapOpen
      BY <1>2, <2>2, SlotsCore DEF ValidSlot
    <2>5. /\ run.limits.hour > 0 => ~Blocked(p.hour, run.limits.hour, p.gapOpen)
          /\ run.limits.day > 0 => ~Blocked(p.day, run.limits.day, p.gapOpen)
      BY <1>2, <1>4, <2>1, <2>2 DEF DebtServed, PeriodWaitOver, LimitedSlots
    <2>6. run.limits.hour \in Nat /\ run.limits.day \in Nat
      BY <1>3 DEF LimitRows
    <2>7. /\ OpenAt(now, p.hour, run.limits.hour, HourLen)
          /\ OpenAt(now, p.day, run.limits.day, DayLen)
      BY <1>3, <2>3, <2>4, <2>5, <2>6, OpenSlot
    <2> QED BY <2>1, <2>2, <2>4, <2>7
  <1> QED BY <1>2, <1>5, <1>6, <1>7 DEF WorkByRows, OpenAt, Unlimited

\* selectionWait and wait: work starts only in an open session, after the debt,
\* in slots that the saved rows show as below the configured limits.
THEOREM WorkOnlyByRows == ChargesSpec => WorkAdmittedByRows
  <1>1. ChargesInv /\ [ChargesNext]_chargesVars => [WorkByRows]_chargesVars
    <2> SUFFICES ASSUME ChargesInv, [ChargesNext]_chargesVars
                 PROVE  WorkByRows
      OBVIOUS
    <2>1. CASE run.phase # "working" /\ run'.phase = "working"
      BY <2>1, OnlyAdmitWorks, AdmittedByRows
    <2>2. CASE ~(run.phase # "working" /\ run'.phase = "working")
      BY <2>2 DEF WorkByRows
    <2> QED BY <2>1, <2>2
  <1> QED BY <1>1, ChargesInvariant, PTL DEF ChargesSpec, WorkAdmittedByRows
=============================================================================
