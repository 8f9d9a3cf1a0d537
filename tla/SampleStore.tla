---------------------------- MODULE SampleStore ----------------------------
(***************************************************************************)
(* The sample store (internal/inventory: sample_store*.go,                 *)
(* sample_usage.go): one frozen batch of files whose windows are read      *)
(* once, within a byte allowance that is reserved before and charged for   *)
(* good.                                                                   *)
(*                                                                         *)
(* A run reserves the whole planned amount durably, reads, and settles the *)
(* amount used: three transactions, each with its own reading of a clock   *)
(* that may be set either way.  A commit may fail with its outcome         *)
(* unknown, which poisons the handle, and the process may die anywhere.    *)
(* Opening recovers nothing; recovery is a call of its own.                *)
(*                                                                         *)
(* Bytes are small units.  The files of the batch are one amount, Planned; *)
(* what is read of them is sampleFile's part (PlanObservation).  Nonces    *)
(* are left out: there is one attempt.  Storage and inventory checks may   *)
(* fail at any point.                                                      *)
(***************************************************************************)
EXTENDS Naturals

CONSTANTS
  Planned,         \* planned_batch_bytes, the whole reservation
  SamplePolicies,  \* the frozen policies callers ask for: daily and lifetime limits
  SampleClock,     \* readings of the wall clock
  SampleDay        \* length of a UTC day

ASSUME SampleStoreAssumption ==
  /\ Planned \in Nat \ {0} /\ SampleDay \in Nat \ {0}
  /\ SamplePolicies \subseteq [daily : Nat \ {0}, life : Nat \ {0}]
  /\ SampleClock \subseteq Nat

VARIABLES
  batch,         \* sample_batch: the frozen policy
  sampleBudget,  \* sample_budget
  attempt,       \* sample_attempt
  sampler,       \* the writer and the run it makes
  used           \* history: bytes requested from the files, and how many times

sampleVars == <<batch, sampleBudget, attempt, sampler, used>>

NoBatch == [daily |-> 0, life |-> 0]
NoSample == [status |-> "none", at |-> 0, code |-> "", req |-> 0, read |-> 0]
NoSampleBudget == [max |-> 0, res |-> 0, req |-> 0, read |-> 0, unk |-> 0, out |-> 0,
                   tres |-> 0, treq |-> 0, tread |-> 0, tunk |-> 0, tout |-> 0]
Closed == [handle |-> "closed", phase |-> "idle", code |-> "", req |-> 0, read |-> 0,
           report |-> FALSE]
Ready == [Closed EXCEPT !.handle = "writer"]

SampleInit ==
  /\ batch = NoBatch /\ sampleBudget = NoSampleBudget /\ attempt = NoSample
  /\ sampler = Closed
  /\ used = [bytes |-> 0, passes |-> 0]

SampleDayOf(t) == t \div SampleDay

\* sampleBudgetProjection: the row is a function of the attempt and the clock.
\* The charge belongs to the day of the reservation.
Projection(a, high) ==
  LET some == a.status # "none"
      tres == IF some THEN Planned ELSE 0
      tout == IF a.status = "reserved" THEN Planned ELSE 0
      tunk == IF a.status = "interrupted_unknown" THEN Planned ELSE 0
      today(n) == IF some /\ SampleDayOf(a.at) = SampleDayOf(high) THEN n ELSE 0
  IN [max |-> high, res |-> today(tres), req |-> today(a.req), read |-> today(a.read),
      unk |-> today(tunk), out |-> today(tout),
      tres |-> tres, treq |-> a.req, tread |-> a.read, tunk |-> tunk, tout |-> tout]

\* A transaction that writes the attempt a and the budget row of it at high.  If
\* it fails, or the state cannot be confirmed after it, the handle is poisoned.
SaveSample(frozen, a, high, then) ==
  LET saved == batch' = frozen /\ attempt' = a /\ sampleBudget' = Projection(a, high)
  IN \/ saved /\ sampler' = then
     \/ /\ saved \/ UNCHANGED <<batch, attempt, sampleBudget>>
        /\ sampler' = [Closed EXCEPT !.handle = "poisoned"]

InPhase(phase) == sampler.handle = "writer" /\ sampler.phase = phase

-----------------------------------------------------------------------------
(* Opening, and the batch. *)

OpenSampleWriter ==
  /\ sampler.handle = "closed"
  /\ sampler' = Ready
  /\ UNCHANGED <<batch, sampleBudget, attempt, used>>

\* Close at the end of a call, or a crash in the middle of one.
CloseSamples ==
  /\ sampler.handle # "closed"
  /\ sampler' = Closed
  /\ UNCHANGED <<batch, sampleBudget, attempt, used>>

\* One batch and one policy for good: a repeat of the same request returns the
\* saved state, any other one conflicts, and neither changes anything.
CreateBatch(policy) ==
  /\ InPhase("idle") /\ batch = NoBatch
  /\ \E now \in SampleClock : SaveSample(policy, NoSample, now, Ready)
  /\ UNCHANGED used

-----------------------------------------------------------------------------
(* One run. *)

\* runSamples, reserveSample: refused once there is an attempt.  Too large a
\* batch only saves the clock.
ReserveSample ==
  /\ InPhase("idle") /\ batch # NoBatch /\ attempt = NoSample
  /\ \E now \in SampleClock :
       /\ now >= sampleBudget.max
       /\ IF Planned > batch.daily \/ Planned > batch.life
          THEN SaveSample(batch, NoSample, now, Ready)
          ELSE SaveSample(batch, [NoSample EXCEPT !.status = "reserved", !.at = now],
                          now, [Ready EXCEPT !.phase = "observe"])
  /\ UNCHANGED used

\* The outcomes of the reading and the checks after it.
ReadCodes == {"observed", "blocked", "request_canceled", "sample_failed"}

\* compareSampleInventory after the reading, and the storage checks around it.
LateCodes == {"saved_inventory_changed", "storage_unavailable"}

\* observeFileSamplesWithUsage: every request counts, a failed read too.
\* Storage that failed its check before keeps the files closed.
ObserveSamples ==
  /\ InPhase("observe")
  /\ \E req \in 0..Planned, code \in ReadCodes \cup LateCodes : \E read \in 0..req :
       /\ code = "observed" => req = Planned /\ read = Planned
       /\ sampler' = [sampler EXCEPT !.phase = "settle", !.code = code, !.req = req, !.read = read]
       /\ used' = [bytes |-> used.bytes + req,
                   passes |-> used.passes + (IF req > 0 THEN 1 ELSE 0)]
  /\ UNCHANGED <<batch, sampleBudget, attempt>>

\* settleSample, and the answer: the budget's clock never goes back; a clock set
\* back, or a cancellation until now, takes the result's place.
SettleSample ==
  /\ InPhase("settle")
  /\ \E now \in SampleClock, canceled \in BOOLEAN :
       LET high == IF now > sampleBudget.max THEN now ELSE sampleBudget.max
           code == IF now < sampleBudget.max THEN "clock_rollback"
                   ELSE IF canceled THEN "request_canceled" ELSE sampler.code
       IN SaveSample(batch,
                     [attempt EXCEPT !.status = "settled", !.code = code,
                                     !.req = sampler.req, !.read = sampler.read],
                     high,
                     [Ready EXCEPT !.report = code \in {"observed", "blocked"}])
  /\ UNCHANGED used

\* Mutant: an interrupted attempt is dropped and may be made again.
RecoveredDropped(a) == NoSample

\* recoverSamples: fully charged, unknown, and never sampled again.
RecoveredSample(a) == [a EXCEPT !.status = "interrupted_unknown", !.code = "interrupted_unknown"]

RecoverSamples ==
  /\ InPhase("idle") /\ attempt.status = "reserved"
  /\ SaveSample(batch, RecoveredSample(attempt), sampleBudget.max, Ready)
  /\ UNCHANGED used

SampleNext ==
  \/ OpenSampleWriter
  \/ CloseSamples
  \/ \E policy \in SamplePolicies : CreateBatch(policy)
  \/ ReserveSample
  \/ ObserveSamples
  \/ SettleSample
  \/ RecoverSamples

SampleSpec == SampleInit /\ [][SampleNext]_sampleVars

-----------------------------------------------------------------------------
(* What readers demand of saved state: readSampleSnapshot, readSampleAttempt *)
(* and readSampleBudget.                                                     *)

AttemptReadable(a) ==
  /\ a.status = "settled" => /\ a.code \notin {"", "interrupted_unknown"}
                             /\ a.read <= a.req /\ a.req <= Planned
  /\ a.status = "interrupted_unknown" => a.code = "interrupted_unknown"

SampleReadable ==
  IF batch = NoBatch THEN attempt = NoSample /\ sampleBudget = NoSampleBudget
  ELSE /\ AttemptReadable(attempt)
       /\ sampleBudget = Projection(attempt, sampleBudget.max)
       /\ sampleBudget.res <= batch.daily /\ sampleBudget.tres <= batch.life
       /\ attempt.at <= sampleBudget.max

\* The files of a batch are read at most once, whatever crashes, uncertain
\* commits, recoveries and repetitions follow ("An unfinished attempt becomes
\* fully charged unknown consumption and can never be sampled again"); saved
\* state stays readable throughout; and a report reaches the caller only when
\* the usage behind it is saved as an undisturbed result.
SampledForGood ==
  /\ SampleReadable
  /\ used.passes <= 1
  /\ sampler.report => attempt.status = "settled" /\ attempt.code \in {"observed", "blocked"}
=============================================================================
