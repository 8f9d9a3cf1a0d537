---------------------------- MODULE StateSampler ----------------------------
(***************************************************************************)
(* The sampler of the store's own size (internal/worker:                   *)
(* state_budget_async.go, inventory_state_intent.go) and the turns of the  *)
(* worker loop that wait for it.  Before a turn may touch a source folder, *)
(* one sample must find the store below its limit before the receipt of    *)
(* the turn is reserved, and a second one after it.                        *)
(*                                                                         *)
(* A sample is a callback in a goroutine of its own, which may hang and    *)
(* outlive the turn, or the Run, that asked for it; the process has one    *)
(* slot for it.  The coordinator's mutex is held over a whole call, but    *)
(* the return of a callback takes only the guard of the clocks, so it can  *)
(* fall between a verdict of the loop and its effect.                      *)
(*                                                                         *)
(* A capture of the wall clock may read anything; the elapsed clock is     *)
(* monotonic and also drives the deadlines of the contexts.  Reasons are   *)
(* "stopped" (clock, timeout, cancellation) and "refused" (all that was    *)
(* observed: at the limit, changed, unavailable, invalid), of which only   *)
(* the second lets a reserved receipt fund maintenance.                    *)
(***************************************************************************)
EXTENDS Integers, FiniteSets

CONSTANTS
  SampleWindow,   \* inventoryStateSampleWindow
  RetryInterval,  \* inventoryStateRetryInterval
  ClaimWindow,    \* state.FairInventoryClaimWindow, the timeout of a turn's context
  MaxWall,        \* readings of the wall clock are 1..MaxWall
  MaxElapsed,     \* bound on the elapsed clock
  MaxTurns,       \* bound on the turns of a behaviour
  Tickets         \* room for tickets: the slot's, and one that overlaps it

ASSUME WindowsAssumption ==
  SampleWindow \in Nat \ {0} /\ RetryInterval \in Nat \ {0} /\ ClaimWindow \in Nat \ {0}
ASSUME BoundsAssumption ==
  MaxWall \in Nat /\ MaxElapsed \in Nat /\ MaxTurns \in Nat
\* A ticket is a pointer; an empty slot is nil.
ASSUME TicketsAssumption == IsFiniteSet(Tickets) /\ 0 \notin Tickets

VARIABLES
  elapsed,  \* the elapsed clock
  high,     \* inventoryStateClockDomain.high: the latest wall time captured
  slot,     \* inventoryStateCoordinator.ticket
  retry,    \* inventoryStateCoordinator.retry
  tickets,  \* the tickets with their observers
  turn,     \* the loop's stateTurn with its intent and receipt
  turns,    \* how many intents were made
  loop,     \* where the loop is in a call that asks for a verdict
  claim     \* history: the turn that was just claimed, with its samples

vars == <<elapsed, high, slot, retry, tickets, turn, turns, loop, claim>>
clocks == <<elapsed, high>>

Walls == 1..MaxWall
None == 0
Pair(wall, at) == [wall |-> wall, elapsed |-> at]
NoPair == Pair(0, 0)
Earlier(a, b) == IF a < b THEN a ELSE b

NoTicket ==
  [at |-> "free", turn |-> 0, phase |-> "", launch |-> NoPair, receipt |-> NoPair,
   deadline |-> 0, cancelled |-> FALSE, refusal |-> "", found |-> "", seen |-> 0,
   verdict |-> "", used |-> FALSE]
NoTurn ==
  [at |-> "none", id |-> 0, receipt |-> NoPair, source |-> FALSE, samples |-> {}]
NoClaim == [source |-> FALSE, turn |-> 0, samples |-> {}, reserved |-> 0, at |-> 0]

Init ==
  /\ elapsed = 1 /\ high = 0 /\ slot = None /\ retry = NoPair
  /\ tickets = [n \in Tickets |-> NoTicket]
  /\ turn = NoTurn /\ turns = 0 /\ loop = [at |-> "idle", reason |-> ""] /\ claim = NoClaim

-----------------------------------------------------------------------------
(* Clocks and verdicts.                                                    *)

\* captureLocked: a reading below the high-water is refused, and every reading
\* raises it.
ClockReason(wall) == IF wall < high THEN "stopped" ELSE ""
Capture(wall) == high' = IF wall > high THEN wall ELSE high

\* inventoryStateWindowReason.
InWindow(from, wall, window) ==
  /\ wall >= from.wall /\ wall - from.wall < window
  /\ elapsed - from.elapsed < window

\* inventoryStateContextReason: the context of a ticket was cancelled or is over.
ContextReason(t) == IF t.cancelled \/ elapsed >= t.deadline THEN "stopped" ELSE ""

\* coordinator.windowReason.
WindowReason(t, wall) ==
  IF /\ InWindow(t.launch, wall, SampleWindow)
     /\ elapsed < t.deadline
     /\ t.receipt # NoPair => InWindow(t.receipt, wall, ClaimWindow)
  THEN "" ELSE "stopped"

FirstReason(a, b) == IF a # "" THEN a ELSE b

Returned(t) == t.verdict # ""
\* ticket.completed: the completion is published and done is closed.
Completed(t) == t.at = "done"
SlotOccupied == slot # None /\ ~Completed(tickets[slot])

\* recordFailureLocked: the first denial stays, delays the next sample for the
\* interval since the launch and cancels the context.
Failed(t, reason) ==
  IF t.refusal # "" \/ reason = "" THEN t
  ELSE [t EXCEPT !.refusal = reason, !.cancelled = TRUE]
Debt(t, reason) ==
  IF t.refusal # "" \/ reason = "" THEN retry
  ELSE Pair(t.launch.wall + RetryInterval, t.launch.elapsed + RetryInterval)
RecordFailure(n, reason) ==
  /\ tickets' = [tickets EXCEPT ![n] = Failed(@, reason)]
  /\ retry' = Debt(tickets[n], reason)

\* Mutant: the denial that was decided is recorded without a second look.
DeniedAsDecided(t, reason) == reason

\* refuseLocked, under the guard of the clocks: a callback that has returned
\* in the meantime keeps its own verdict.
Denied(t, reason) == IF Returned(t) THEN "" ELSE reason

-----------------------------------------------------------------------------
(* The loop: turns, and the samples they start.                            *)

\* inventoryStateScheduling, with a reading of the wall clock.
WaitOver(wall) ==
  wall >= high /\ wall >= retry.wall /\ elapsed >= retry.elapsed

\* A ticket is replaced only once its observer has published.
SlotFree == ~SlotOccupied

NewTicket(id, phase, wall, receipt) ==
  [NoTicket EXCEPT !.at = "launched", !.turn = id, !.phase = phase,
                   !.launch = Pair(wall, elapsed), !.receipt = receipt,
                   !.deadline = IF receipt = NoPair THEN elapsed + SampleWindow
                                ELSE Earlier(elapsed + SampleWindow, receipt.elapsed + ClaimWindow)]

\* startEligible, from where the slot is free: it starts the sample.
Launch(id, phase, wall, receipt) ==
  \E n \in {k \in Tickets : tickets[k].at = "free"} :
    /\ tickets' = [k \in Tickets |-> IF k = n THEN NewTicket(id, phase, wall, receipt)
                                     ELSE IF Completed(tickets[k]) THEN NoTicket
                                     ELSE tickets[k]]
    /\ slot' = n /\ retry' = NoPair

\* startEligible refuses a reading that is behind or a retry that waits.
Eligible(wall, receipt) ==
  /\ SlotFree /\ WaitOver(wall)
  /\ receipt # NoPair => InWindow(receipt, wall, ClaimWindow)

\* The tick that finds a source due: newInventoryStateTurn and the first
\* sample; a turn whose sample did not start is given up at once.
BeginTurn(wall) ==
  /\ turn = NoTurn /\ turns < MaxTurns /\ loop.at = "idle"
  /\ SlotFree /\ \E w \in Walls : WaitOver(w)
  /\ Capture(wall)
  /\ turns' = turns + 1
  /\ IF Eligible(wall, NoPair)
     THEN /\ Launch(turns', "before_dispatch", wall, NoPair)
          /\ turn' = [NoTurn EXCEPT !.at = "sampling", !.id = turns', !.source = TRUE]
     ELSE UNCHANGED <<slot, retry, tickets, turn>>
  /\ claim' = NoClaim
  /\ UNCHANGED <<elapsed, loop>>

Phase == IF turn.receipt = NoPair THEN "before_dispatch" ELSE "after_receipt"
Mine(t) == t.turn = turn.id /\ t.turn # 0
\* The context a turn's sample descends from: the Run's, or the turn's own.
TurnOver == turn.receipt # NoPair /\ elapsed - turn.receipt.elapsed >= ClaimWindow

\* abandonLocked: a sample of this intent that has not returned is refused.
AbandonIntent ==
  IF slot # None /\ Mine(tickets[slot]) /\ ~Returned(tickets[slot])
  THEN RecordFailure(slot, "stopped")
  ELSE UNCHANGED <<tickets, retry>>

\* inventoryStateTurn.abandon also cancels the context of a reserved turn.
GiveUp ==
  /\ IF slot # None /\ Mine(tickets[slot])
     THEN LET t == tickets[slot]
              kept == IF Returned(t) THEN t ELSE Failed(t, "stopped")
          IN /\ tickets' = [tickets EXCEPT ![slot] =
                   IF t.phase = "after_receipt" THEN [kept EXCEPT !.cancelled = TRUE] ELSE kept]
             /\ retry' = IF Returned(t) THEN retry ELSE Debt(t, "stopped")
     ELSE UNCHANGED <<tickets, retry>>
  /\ turn' = NoTurn

\* Every other call of abandonStateTurn: a pause, a recovery, a CPU wait, a
\* spent budget, a power decision, a plan that no longer has a source due.
AbandonTurn ==
  /\ turn # NoTurn /\ loop.at = "idle"
  /\ GiveUp
  /\ UNCHANGED <<clocks, slot, turns, loop, claim>>

\* The Run ends: its context is cancelled and the turn abandoned.  The slot
\* belongs to the process and meets the next Run.
StopRun ==
  /\ loop.at = "idle" /\ SlotOccupied /\ ~tickets[slot].cancelled
  /\ LET t == tickets[slot]
         mine == Mine(t) /\ ~Returned(t)
         kept == IF mine THEN Failed(t, "stopped") ELSE t
     IN /\ tickets' = [tickets EXCEPT ![slot] = [kept EXCEPT !.cancelled = TRUE]]
        /\ retry' = IF mine THEN Debt(t, "stopped") ELSE retry
  /\ turn' = NoTurn
  /\ UNCHANGED <<clocks, slot, turns, loop, claim>>

\* A tick while the sample is awaited, startEligible for the same request:
\* pendingRefusalLocked decides on a callback that has not returned.
Ask(wall) ==
  /\ turn.at = "sampling" /\ ~TurnOver /\ loop.at = "idle"
  /\ Capture(wall)
  /\ LET t == tickets[slot]
         reason == FirstReason(t.refusal,
                     FirstReason(ContextReason(t),
                       FirstReason(ClockReason(wall), WindowReason(t, wall))))
     IN loop' = IF Returned(t) \/ reason = "" THEN [at |-> "asked", reason |-> ""]
                ELSE [at |-> "refusing", reason |-> reason]
  /\ UNCHANGED <<elapsed, slot, retry, tickets, turn, turns, claim>>

\* refuseLocked for the decision that was made.
Refuse ==
  /\ loop.at = "refusing"
  /\ RecordFailure(slot, Denied(tickets[slot], loop.reason))
  /\ loop' = [at |-> "asked", reason |-> ""]
  /\ UNCHANGED <<clocks, slot, turn, turns, claim>>

\* The sample is not complete: a refused one ends the turn, others are awaited.
KeepWaiting ==
  /\ loop.at = "asked" /\ ~Completed(tickets[slot])
  /\ loop' = [at |-> "idle", reason |-> ""]
  /\ LET t == tickets[slot]
     IN IF t.refusal # "" \/ (Returned(t) /\ t.verdict # "usable") \/ TurnOver
        THEN GiveUp ELSE UNCHANGED <<tickets, retry, turn>>
  /\ UNCHANGED <<clocks, slot, turns, claim>>

\* inventoryStateReceiptCurrent and inventoryStateClocksCurrent.
ReceiptCurrent(wall) == InWindow(turn.receipt, wall, ClaimWindow)
ClocksCurrent(wall) == wall >= high

Result(t) == FirstReason(t.refusal, t.verdict)
Evidence(t) == [turn |-> t.turn, phase |-> t.phase, found |-> t.found, seen |-> t.seen]

\* Mutant: the receipt of a refused sample keeps its source.
MaintenanceKeepsSource == turn.source

\* What a receipt may still fund after its second sample was refused.
MaintenanceSource == FALSE

\* takeCompletion of a published sample, and what the tick makes of it.
Take(wall) ==
  /\ loop.at = "asked" /\ Completed(tickets[slot])
  /\ LET t == tickets[slot]
         usable == Result(t) = "usable" /\ ~t.used /\ ~TurnOver
         allowed == usable /\ ClockReason(wall) = "" /\ WindowReason(t, wall) = ""
         maintenance == /\ turn.receipt # NoPair /\ Result(t) = "refused"
                        /\ ClocksCurrent(wall) /\ ReceiptCurrent(wall)
     IN /\ IF usable THEN Capture(wall) ELSE UNCHANGED high
        /\ \/ /\ allowed
              /\ tickets' = [tickets EXCEPT ![slot].used = TRUE]
              /\ turn' = [turn EXCEPT !.at = IF Phase = "before_dispatch" THEN "admitted" ELSE "cleared",
                                      !.samples = @ \cup {Evidence(t)}]
              /\ UNCHANGED retry
           \/ /\ ~allowed /\ maintenance
              /\ turn' = [turn EXCEPT !.at = "cleared", !.source = MaintenanceSource,
                                      !.samples = @ \cup {Evidence(t)}]
              /\ UNCHANGED <<tickets, retry>>
           \/ /\ ~allowed /\ ~maintenance
              /\ GiveUp
  /\ loop' = [at |-> "idle", reason |-> ""]
  /\ UNCHANGED <<elapsed, slot, turns, claim>>

\* Other work of a reserved root is due while the second sample is awaited:
\* the intent is abandoned and the receipt kept for maintenance.
OtherWork(wall) ==
  /\ turn.at = "sampling" /\ turn.receipt # NoPair /\ loop.at = "idle"
  /\ ~Completed(tickets[slot])
  /\ ReceiptCurrent(wall)
  /\ AbandonIntent
  /\ turn' = [turn EXCEPT !.at = "cleared", !.source = FALSE]
  /\ UNCHANGED <<clocks, slot, turns, loop, claim>>

\* ReserveScanChunk for a turn whose first sample was below the limit.
ReserveScanChunk(wall) ==
  /\ turn.at = "admitted" /\ loop.at = "idle"
  /\ turn' = [turn EXCEPT !.at = "reserved", !.receipt = Pair(wall, elapsed)]
  /\ UNCHANGED <<clocks, slot, retry, tickets, turns, loop, claim>>

\* startPost: the second sample, in the context of the receipt.  If it cannot
\* start, the receipt funds maintenance only.
StartPost(wall) ==
  /\ turn.at = "reserved" /\ loop.at = "idle"
  /\ IF TurnOver THEN UNCHANGED high ELSE Capture(wall)
  /\ IF ~TurnOver /\ Eligible(wall, turn.receipt)
     THEN /\ Launch(turn.id, "after_receipt", wall, turn.receipt)
          /\ turn' = [turn EXCEPT !.at = "sampling"]
     ELSE /\ turn' = [turn EXCEPT !.at = "cleared", !.source = FALSE]
          /\ UNCHANGED <<slot, retry, tickets>>
  /\ UNCHANGED <<elapsed, turns, loop, claim>>

\* The claim, after transfer gave the sample up.  A plan that was made again
\* may have lost its source; a receipt or a clock that is not current ends it.
Claim(wall) ==
  /\ turn.at = "cleared" /\ loop.at = "idle"
  /\ IF ReceiptCurrent(wall) /\ ClocksCurrent(wall)
     THEN /\ \E source \in {FALSE, turn.source} :
               claim' = [source |-> source, turn |-> turn.id, samples |-> turn.samples,
                         reserved |-> turn.receipt.elapsed, at |-> elapsed]
          /\ turn' = NoTurn
          /\ AbandonIntent
     ELSE GiveUp /\ UNCHANGED claim
  /\ UNCHANGED <<clocks, slot, turns, loop>>

-----------------------------------------------------------------------------
(* The observer goroutine of each ticket.  It needs the mutex at its start  *)
(* and its end, and in between only the guard of the clocks.               *)

MutexFree == loop.at # "refusing"

\* observe: a sample that is already refused is never called.
Observe(n, wall) ==
  /\ tickets[n].at = "launched" /\ MutexFree
  /\ Capture(wall)
  /\ LET t == tickets[n]
         reason == FirstReason(ContextReason(t), FirstReason(ClockReason(wall), WindowReason(t, wall)))
         after == Failed(t, reason)
     IN /\ tickets' = [tickets EXCEPT ![n] =
              [after EXCEPT !.at = IF after.refusal = "" THEN "calling" ELSE "called",
                            !.found = IF after.refusal = "" THEN @ ELSE after.refusal]]
        /\ retry' = Debt(t, reason)
  /\ UNCHANGED <<elapsed, slot, turn, turns, loop, claim>>

\* The callback looks at the database and its log: below the limit, anything
\* else a report can say, or an error; a panic counts as an observation.
InventoryStateBudget(n) ==
  /\ tickets[n].at = "calling"
  /\ \E found \in {"usable", "refused", "stopped"} :
       tickets' = [tickets EXCEPT ![n].at = "called", ![n].found = found, ![n].seen = elapsed]
  /\ UNCHANGED <<clocks, slot, retry, turn, turns, loop, claim>>

\* The verdict is frozen under the guard of the clocks.  A report is only
\* usable within the window it was launched in.
Freeze(n, wall) ==
  /\ tickets[n].at = "called"
  /\ Capture(wall)
  /\ LET t == tickets[n]
         reason == FirstReason(ContextReason(t), FirstReason(ClockReason(wall), WindowReason(t, wall)))
     IN tickets' = [tickets EXCEPT ![n].at = "returned", ![n].verdict = FirstReason(reason, t.found)]
  /\ UNCHANGED <<elapsed, slot, retry, turn, turns, loop, claim>>

\* The completion: an earlier denial or the frozen verdict.
Publish(n) ==
  /\ tickets[n].at = "returned" /\ MutexFree
  /\ LET t == tickets[n]
         reason == IF t.verdict = "usable" THEN t.refusal ELSE FirstReason(t.refusal, t.verdict)
     IN /\ tickets' = [tickets EXCEPT ![n] = [Failed(t, reason) EXCEPT !.at = "done", !.cancelled = TRUE]]
        /\ retry' = Debt(t, reason)
  /\ UNCHANGED <<clocks, slot, turn, turns, loop, claim>>

Pass ==
  /\ elapsed < MaxElapsed
  /\ elapsed' = elapsed + 1
  /\ UNCHANGED <<high, slot, retry, tickets, turn, turns, loop, claim>>

Next ==
  \/ \E wall \in Walls :
       \/ BeginTurn(wall)
       \/ Ask(wall)
       \/ Take(wall)
       \/ OtherWork(wall)
       \/ ReserveScanChunk(wall)
       \/ StartPost(wall)
       \/ Claim(wall)
       \/ \E n \in Tickets : Observe(n, wall) \/ Freeze(n, wall)
  \/ \E n \in Tickets : InventoryStateBudget(n) \/ Publish(n)
  \/ Refuse
  \/ KeepWaiting
  \/ AbandonTurn
  \/ StopRun
  \/ Pass

Spec == Init /\ [][Next]_vars

-----------------------------------------------------------------------------
(* Properties.                                                             *)

InFlight == {n \in Tickets : tickets[n].at \in {"launched", "calling", "called"}}

\* The slot and its debt (startEligible, refuseLocked, observe).  However turns
\* and Runs end, the process never has two samples under way.  A sample that
\* returned in time and below the limit is never turned into a failure by a
\* loop that decided at the same moment, and the next sample is delayed exactly
\* if the last one failed, for the interval since its launch.
SlotSound ==
  /\ Cardinality(InFlight) <= 1
  /\ \A n \in Tickets : tickets[n].verdict = "usable" => tickets[n].refusal = ""
  /\ slot # None =>
       LET t == tickets[slot]
       IN retry = IF t.refusal = "" THEN NoPair
                  ELSE Pair(t.launch.wall + RetryInterval, t.launch.elapsed + RetryInterval)

\* takeCompletion, startPost, transfer: a source is claimed only by a turn for
\* which the store was found below its limit twice, by samples this turn asked
\* for, once before its receipt was reserved and once after, and only while the
\* receipt is current; no late, foreign or refused sample gets that far.
SourceScreened ==
  claim.source =>
    /\ claim.at - claim.reserved < ClaimWindow
    /\ \E before, after \in claim.samples :
         /\ before.phase = "before_dispatch" /\ before.seen <= claim.reserved
         /\ after.phase = "after_receipt" /\ after.seen >= claim.reserved
         /\ \A s \in {before, after} : s.turn = claim.turn /\ s.found = "usable"
=============================================================================
