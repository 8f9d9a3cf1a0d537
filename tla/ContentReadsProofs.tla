------------------------- MODULE ContentReadsProofs -------------------------
(***************************************************************************)
(* Proofs about the two stores that account for reading files, for every   *)
(* set of stores, limits, sizes, day length and clock: what the hash store *)
(* saves stays readable, its reads stay within consents and limits, its    *)
(* publications stay readable, a sample batch is read once, and the saved  *)
(* budgets of both are an account of use that was paid for beforehand.     *)
(*                                                                         *)
(* The sample store comes first, then the hash store (sums, the inductive  *)
(* invariant HashInv, each action, what readers accept, how a row may      *)
(* change, consents, limits, publications) and at last the composition.    *)
(***************************************************************************)
EXTENDS ContentReads, FiniteSetTheorems, WellFoundedInduction, TLAPS

\* The sample store's part of Books: one account.
SampleBooks ==
  INSTANCE PrechargedUse WITH account <-
    [samples |-> [held |-> sampleBudget.tout,
                  booked |-> sampleBudget.treq + sampleBudget.tunk,
                  used |-> used.bytes]]

-----------------------------------------------------------------------------
(* The inductive invariant. *)

SampleAttempts ==
  [status : {"none", "reserved", "settled", "interrupted_unknown"}, at : Nat,
   code : {"", "interrupted_unknown", "clock_rollback"} \cup ReadCodes \cup LateCodes,
   req : Nat, read : Nat]
Samplers == [handle : {"closed", "poisoned", "writer"}, phase : {"idle", "observe", "settle"},
             code : {""} \cup ReadCodes \cup LateCodes, req : Nat, read : Nat, report : BOOLEAN]

\* The attempt and the run have their types; the budget row is the projection
\* of the attempt.
SampleTypeOK ==
  /\ attempt \in SampleAttempts /\ sampler \in Samplers
  /\ used \in [bytes : Nat, passes : Nat]
  /\ sampleBudget.max \in Nat

\* Saved rows: without a batch there are none, and only a batch that fits its
\* frozen policy is ever reserved.
RowsInv ==
  /\ batch = NoBatch => attempt = NoSample /\ sampleBudget = NoSampleBudget
  /\ batch # NoBatch =>
       /\ batch \in SamplePolicies
       /\ sampleBudget = Projection(attempt, sampleBudget.max)
       /\ attempt.status # "none" => Planned <= batch.daily /\ Planned <= batch.life
  /\ attempt.at <= sampleBudget.max
  /\ attempt.status = "none" => attempt = NoSample
  /\ attempt.status = "reserved" => attempt.req = 0 /\ attempt.read = 0
  /\ attempt.status = "interrupted_unknown" => attempt.req = 0 /\ attempt.read = 0
  /\ AttemptReadable(attempt)

\* The run in progress and the saved attempt: only a writer that saw its
\* reservation saved reads, and what it read is what it settles.
RunInv ==
  /\ sampler.handle # "writer" => sampler.phase = "idle"
  /\ sampler.phase # "idle" => attempt.status = "reserved" /\ batch # NoBatch
  /\ sampler.phase = "observe" => used.bytes = 0 /\ used.passes = 0
  /\ sampler.phase = "settle" =>
       /\ used.bytes = sampler.req /\ sampler.read <= sampler.req /\ sampler.req <= Planned
       /\ sampler.code \in ReadCodes \cup LateCodes
  /\ sampler.report => attempt.status = "settled" /\ attempt.code \in {"observed", "blocked"}

\* What was requested from the files is within the reservation, and exactly the
\* settled amount once it is settled.
UseInv ==
  /\ used.passes <= 1
  /\ attempt.status = "none" => used.bytes = 0 /\ used.passes = 0
  /\ attempt.status \in {"reserved", "interrupted_unknown"} => used.bytes <= Planned
  /\ attempt.status = "settled" => used.bytes = attempt.req

SampleInv == SampleTypeOK /\ RowsInv /\ RunInv /\ UseInv

-----------------------------------------------------------------------------
\* sampleBudgetProjection, field by field.
LEMMA ProjectionFields ==
  ASSUME NEW a \in SampleAttempts, NEW high \in Nat
  PROVE  LET b == Projection(a, high)
         IN /\ b.max = high
            /\ b.tout = (IF a.status = "reserved" THEN Planned ELSE 0)
            /\ b.tunk = (IF a.status = "interrupted_unknown" THEN Planned ELSE 0)
            /\ b.treq = a.req
            /\ b.tres = (IF a.status # "none" THEN Planned ELSE 0)
            /\ b.res \in {0, b.tres}
  BY SampleStoreAssumption DEF Projection, SampleDayOf

\* The empty rows are the projection of no attempt.
LEMMA NoSampleFacts ==
  /\ NoSample \in SampleAttempts /\ NoSample.status = "none" /\ NoSample.at = 0
  /\ NoSample.req = 0 /\ AttemptReadable(NoSample)
  /\ NoSampleBudget.max = 0 /\ NoSampleBudget.tout = 0 /\ NoSampleBudget.treq = 0
  /\ NoSampleBudget.tunk = 0
  BY DEF NoSample, SampleAttempts, NoSampleBudget, AttemptReadable

LEMMA SamplerFacts ==
  /\ Closed \in Samplers /\ Closed.handle = "closed" /\ Closed.phase = "idle" /\ ~Closed.report
  /\ Ready \in Samplers /\ Ready.phase = "idle" /\ ~Ready.report /\ Ready.handle = "writer"
  /\ LET p == [Closed EXCEPT !.handle = "poisoned"]
     IN p \in Samplers /\ p.phase = "idle" /\ ~p.report
  BY DEF Closed, Ready, Samplers

\* The budget row always agrees with the attempt, batch or not.
LEMMA BudgetFields ==
  ASSUME SampleInv
  PROVE  /\ sampleBudget.tout = (IF attempt.status = "reserved" THEN Planned ELSE 0)
         /\ sampleBudget.tunk = (IF attempt.status = "interrupted_unknown" THEN Planned ELSE 0)
         /\ sampleBudget.treq = attempt.req
  <1>1. CASE batch = NoBatch
    BY <1>1, NoSampleFacts DEF SampleInv, RowsInv
  <1>2. CASE batch # NoBatch
    BY <1>2, ProjectionFields DEF SampleInv, RowsInv, SampleTypeOK
  <1> QED BY <1>1, <1>2

\* What SaveSample leaves: the new rows or the old ones, and a handle that
\* goes on only with the new ones.
LEMMA Saved ==
  ASSUME NEW frozen, NEW a \in SampleAttempts, NEW high \in Nat, NEW then,
         SaveSample(frozen, a, high, then)
  PROVE  \/ /\ batch' = frozen /\ attempt' = a /\ sampleBudget' = Projection(a, high)
            /\ sampleBudget'.max = high
            /\ sampler' \in {then, [Closed EXCEPT !.handle = "poisoned"]}
         \/ /\ UNCHANGED <<batch, attempt, sampleBudget>>
            /\ sampler' = [Closed EXCEPT !.handle = "poisoned"]
  BY ProjectionFields DEF SaveSample

\* A step that leaves the rows and the history and ends the run keeps all.
LEMMA RunEnds ==
  ASSUME SampleInv, UNCHANGED <<batch, attempt, sampleBudget, used>>,
         sampler' \in Samplers, sampler'.phase = "idle", ~sampler'.report
  PROVE  SampleInv'
  BY DEF SampleInv, SampleTypeOK, RowsInv, RunInv, UseInv

LEMMA SampleInitInv == SampleInit => SampleInv
  <1> SUFFICES ASSUME SampleInit PROVE SampleInv
    OBVIOUS
  <1>1. SampleTypeOK /\ RowsInv
    BY NoSampleFacts, SamplerFacts DEF SampleInit, SampleTypeOK, RowsInv
  <1>2. RunInv /\ UseInv
    BY NoSampleFacts, SamplerFacts DEF SampleInit, RunInv, UseInv
  <1> QED BY <1>1, <1>2 DEF SampleInv

-----------------------------------------------------------------------------
(* The steps. *)

\* CreateBatch freezes a policy and writes the rows of no attempt.
LEMMA CreateStep ==
  ASSUME SampleInv, NEW policy \in SamplePolicies, CreateBatch(policy)
  PROVE  SampleInv'
  <1> USE DEF SampleInv
  <1>1. PICK now \in SampleClock : SaveSample(policy, NoSample, now, Ready)
    BY DEF CreateBatch
  <1>2. now \in Nat /\ policy # NoBatch
    BY SampleStoreAssumption DEF NoBatch
  <1>3. attempt = NoSample /\ used' = used /\ batch = NoBatch
    BY DEF CreateBatch, RowsInv
  <1>4. CASE UNCHANGED <<batch, attempt, sampleBudget>>
               /\ sampler' = [Closed EXCEPT !.handle = "poisoned"]
    BY <1>3, <1>4, RunEnds, SamplerFacts
  <1>5. CASE /\ batch' = policy /\ attempt' = NoSample
             /\ sampleBudget' = Projection(NoSample, now) /\ sampleBudget'.max = now
             /\ sampler' \in {Ready, [Closed EXCEPT !.handle = "poisoned"]}
    <2>1. sampler' \in Samplers /\ sampler'.phase = "idle" /\ ~sampler'.report
      BY <1>5, SamplerFacts
    <2>2. SampleTypeOK' /\ RowsInv'
      BY <1>2, <1>3, <1>5, <2>1, NoSampleFacts DEF SampleTypeOK, RowsInv
    <2>3. RunInv' /\ UseInv'
      BY <1>3, <1>5, <2>1, NoSampleFacts DEF RunInv, UseInv
    <2> QED BY <2>2, <2>3
  <1> QED BY <1>1, <1>2, <1>4, <1>5, Saved, NoSampleFacts

\* reserveSample: the whole amount is reserved, or only the clock is saved.
LEMMA ReserveStep ==
  ASSUME SampleInv, ReserveSample
  PROVE  SampleInv'
  <1> USE DEF SampleInv
  <1>1. PICK now \in SampleClock :
          /\ now >= sampleBudget.max
          /\ IF Planned > batch.daily \/ Planned > batch.life
             THEN SaveSample(batch, NoSample, now, Ready)
             ELSE SaveSample(batch, [NoSample EXCEPT !.status = "reserved", !.at = now],
                             now, [Ready EXCEPT !.phase = "observe"])
    BY DEF ReserveSample
  <1>2. /\ now \in Nat /\ attempt = NoSample /\ used' = used /\ batch # NoBatch
        /\ batch \in SamplePolicies /\ batch.daily \in Nat /\ batch.life \in Nat
        /\ used.bytes = 0 /\ used.passes = 0 /\ Planned \in Nat
    BY SampleStoreAssumption, NoSampleFacts DEF ReserveSample, RowsInv, UseInv
  <1>3. CASE UNCHANGED <<batch, attempt, sampleBudget>>
               /\ sampler' = [Closed EXCEPT !.handle = "poisoned"]
    BY <1>2, <1>3, RunEnds, SamplerFacts
  <1>4. CASE Planned > batch.daily \/ Planned > batch.life
    <2>1. CASE /\ batch' = batch /\ attempt' = NoSample
               /\ sampleBudget' = Projection(NoSample, now) /\ sampleBudget'.max = now
               /\ sampler' \in {Ready, [Closed EXCEPT !.handle = "poisoned"]}
      <3>1. sampler' \in Samplers /\ sampler'.phase = "idle" /\ ~sampler'.report
        BY <2>1, SamplerFacts
      <3>2. SampleTypeOK' /\ RowsInv'
        BY <1>2, <2>1, <3>1, NoSampleFacts DEF SampleTypeOK, RowsInv
      <3>3. RunInv' /\ UseInv'
        BY <1>2, <2>1, <3>1, NoSampleFacts DEF RunInv, UseInv
      <3> QED BY <3>2, <3>3
    <2> QED BY <1>1, <1>2, <1>3, <1>4, <2>1, Saved, NoSampleFacts
  <1>5. CASE ~(Planned > batch.daily \/ Planned > batch.life)
    <2> DEFINE a == [NoSample EXCEPT !.status = "reserved", !.at = now]
               go == [Ready EXCEPT !.phase = "observe"]
    <2>1. /\ a \in SampleAttempts /\ a.status = "reserved" /\ a.at = now /\ a.req = 0 /\ a.read = 0
          /\ AttemptReadable(a)
      BY <1>2 DEF NoSample, SampleAttempts, AttemptReadable
    <2>2. /\ go \in Samplers /\ go.phase = "observe" /\ ~go.report /\ go.handle = "writer"
      BY DEF Ready, Closed, Samplers
    <2>3. SaveSample(batch, a, now, go)
      BY <1>1, <1>5
    <2> HIDE DEF a, go
    <2>4. CASE /\ batch' = batch /\ attempt' = a
               /\ sampleBudget' = Projection(a, now) /\ sampleBudget'.max = now
               /\ sampler' \in {go, [Closed EXCEPT !.handle = "poisoned"]}
      <3>1. /\ sampler' \in Samplers /\ ~sampler'.report /\ sampler'.phase # "settle"
            /\ sampler'.handle # "writer" => sampler'.phase = "idle"
        BY <2>2, <2>4, SamplerFacts
      <3>2. SampleTypeOK' /\ RowsInv'
        BY <1>2, <1>5, <2>1, <2>4, <3>1 DEF SampleTypeOK, RowsInv
      <3>3. RunInv' /\ UseInv'
        BY <1>2, <2>1, <2>4, <3>1 DEF RunInv, UseInv
      <3> QED BY <3>2, <3>3
    <2> QED BY <1>2, <1>3, <2>1, <2>3, <2>4, Saved
  <1> QED BY <1>4, <1>5

\* observeFileSamplesWithUsage requests at most what was reserved.
LEMMA ObserveStep ==
  ASSUME SampleInv, ObserveSamples
  PROVE  /\ SampleInv' /\ UNCHANGED <<batch, sampleBudget, attempt>>
         /\ attempt.status = "reserved" /\ used.bytes = 0
         /\ used'.bytes \in 0..Planned
  <1> USE DEF SampleInv
  <1>1. PICK req \in 0..Planned, code \in ReadCodes \cup LateCodes : \E read \in 0..req :
          /\ sampler' = [sampler EXCEPT !.phase = "settle", !.code = code, !.req = req, !.read = read]
          /\ used' = [bytes |-> used.bytes + req,
                      passes |-> used.passes + (IF req > 0 THEN 1 ELSE 0)]
    BY DEF ObserveSamples
  <1>2. PICK read \in 0..req :
          /\ sampler' = [sampler EXCEPT !.phase = "settle", !.code = code, !.req = req, !.read = read]
          /\ used' = [bytes |-> used.bytes + req,
                      passes |-> used.passes + (IF req > 0 THEN 1 ELSE 0)]
    BY <1>1
  <1>3. /\ Planned \in Nat /\ req \in Nat /\ read \in Nat /\ read <= req /\ req <= Planned
        /\ sampler.phase = "observe" /\ sampler.handle = "writer"
        /\ UNCHANGED <<batch, sampleBudget, attempt>>
    BY SampleStoreAssumption DEF ObserveSamples, InPhase
  <1>4. /\ attempt.status = "reserved" /\ batch # NoBatch
        /\ used.bytes = 0 /\ used.passes = 0 /\ ~sampler.report
    BY <1>3 DEF RunInv
  <1>5. /\ sampler' \in Samplers /\ sampler'.phase = "settle" /\ sampler'.req = req
        /\ sampler'.read = read /\ sampler'.code = code /\ sampler'.handle = "writer"
        /\ ~sampler'.report
    BY <1>2, <1>3, <1>4 DEF SampleTypeOK, Samplers
  <1>6. used' \in [bytes : Nat, passes : Nat] /\ used'.bytes = req /\ used'.passes <= 1
    BY <1>2, <1>3, <1>4
  <1>7. SampleTypeOK' /\ RowsInv'
    BY <1>3, <1>5, <1>6 DEF SampleTypeOK, RowsInv
  <1>8. RunInv' /\ UseInv'
    BY <1>3, <1>4, <1>5, <1>6 DEF RunInv, UseInv
  <1> QED BY <1>3, <1>4, <1>6, <1>7, <1>8

\* settleSample saves exactly the usage, whatever the clock says.
LEMMA SettleStep ==
  ASSUME SampleInv, SettleSample
  PROVE  /\ SampleInv' /\ used' = used
         /\ attempt.status = "reserved" /\ used.bytes <= Planned
         /\ \/ UNCHANGED <<attempt, sampleBudget>>
            \/ attempt'.status = "settled"
  <1> USE DEF SampleInv
  <1>1. PICK now \in SampleClock, canceled \in BOOLEAN :
          LET high == IF now > sampleBudget.max THEN now ELSE sampleBudget.max
              code == IF now < sampleBudget.max THEN "clock_rollback"
                      ELSE IF canceled THEN "request_canceled" ELSE sampler.code
          IN SaveSample(batch,
                        [attempt EXCEPT !.status = "settled", !.code = code,
                                        !.req = sampler.req, !.read = sampler.read],
                        high, [Ready EXCEPT !.report = code \in {"observed", "blocked"}])
    BY DEF SettleSample
  <1>2. /\ sampler.phase = "settle" /\ used' = used /\ now \in Nat /\ sampleBudget.max \in Nat
        /\ Planned \in Nat
    BY SampleStoreAssumption DEF SettleSample, InPhase, SampleTypeOK
  <1>3. /\ attempt.status = "reserved" /\ batch # NoBatch /\ used.bytes = sampler.req
        /\ sampler.read <= sampler.req /\ sampler.req <= Planned
        /\ sampler.code \in ReadCodes \cup LateCodes
        /\ sampler.req \in Nat /\ sampler.read \in Nat /\ attempt.at \in Nat
        /\ attempt.at <= sampleBudget.max
    BY <1>2 DEF RunInv, RowsInv, SampleTypeOK, Samplers, SampleAttempts
  <1> DEFINE high == IF now > sampleBudget.max THEN now ELSE sampleBudget.max
             code == IF now < sampleBudget.max THEN "clock_rollback"
                     ELSE IF canceled THEN "request_canceled" ELSE sampler.code
             a == [attempt EXCEPT !.status = "settled", !.code = code,
                                  !.req = sampler.req, !.read = sampler.read]
             done == [Ready EXCEPT !.report = code \in {"observed", "blocked"}]
  <1>4. SaveSample(batch, a, high, done)
    BY <1>1
  <1>5. high \in Nat /\ high >= sampleBudget.max
    BY <1>2
  <1>6. code \in {"clock_rollback"} \cup ReadCodes \cup LateCodes
    BY <1>3 DEF ReadCodes
  <1> HIDE DEF high, code
  <1>7. /\ a \in SampleAttempts /\ a.status = "settled" /\ a.code = code /\ a.req = sampler.req
        /\ a.read = sampler.read /\ a.at = attempt.at
    BY <1>3, <1>6 DEF SampleTypeOK, SampleAttempts
  <1>8. AttemptReadable(a)
    BY <1>3, <1>6, <1>7 DEF AttemptReadable, ReadCodes, LateCodes
  <1>9. /\ done \in Samplers /\ done.phase = "idle" /\ done.handle = "writer"
        /\ done.report => code \in {"observed", "blocked"}
    <2>1. ASSUME NEW r \in BOOLEAN
          PROVE  LET y == [Ready EXCEPT !.report = r]
                 IN y \in Samplers /\ y.phase = "idle" /\ y.handle = "writer" /\ y.report = r
      BY DEF Ready, Closed, Samplers
    <2>2. (code \in {"observed", "blocked"}) \in BOOLEAN
      OBVIOUS
    <2> QED BY <2>1, <2>2
  <1> HIDE DEF a, done
  <1>10. CASE UNCHANGED <<batch, attempt, sampleBudget>>
                /\ sampler' = [Closed EXCEPT !.handle = "poisoned"]
    BY <1>2, <1>3, <1>10, RunEnds, SamplerFacts
  <1>11. CASE /\ batch' = batch /\ attempt' = a
              /\ sampleBudget' = Projection(a, high) /\ sampleBudget'.max = high
              /\ sampler' \in {done, [Closed EXCEPT !.handle = "poisoned"]}
    <2>1. /\ sampler' \in Samplers /\ sampler'.phase = "idle"
          /\ sampler'.report => code \in {"observed", "blocked"}
      BY <1>9, <1>11, SamplerFacts
    <2>2. SampleTypeOK' /\ RowsInv'
      BY <1>2, <1>3, <1>5, <1>7, <1>8, <1>11, <2>1 DEF SampleTypeOK, RowsInv
    <2>3. RunInv' /\ UseInv'
      BY <1>2, <1>3, <1>7, <1>11, <2>1 DEF RunInv, UseInv
    <2> QED BY <1>2, <1>3, <1>7, <1>11, <2>2, <2>3
  <1> QED BY <1>4, <1>5, <1>7, <1>10, <1>11, Saved

\* recoverSamples charges all of a reservation it found open.
LEMMA RecoverStep ==
  ASSUME SampleInv, RecoverSamples
  PROVE  /\ SampleInv' /\ used' = used
         /\ attempt.status = "reserved" /\ used.bytes <= Planned
         /\ \/ UNCHANGED <<attempt, sampleBudget>>
            \/ attempt'.status = "interrupted_unknown"
  <1> USE DEF SampleInv
  <1>1. /\ SaveSample(batch, RecoveredSample(attempt), sampleBudget.max, Ready)
        /\ attempt.status = "reserved" /\ used' = used /\ sampleBudget.max \in Nat
        /\ used.bytes <= Planned /\ batch # NoBatch
        /\ attempt.req = 0 /\ attempt.read = 0 /\ attempt.at <= sampleBudget.max
    BY NoSampleFacts DEF RecoverSamples, SampleTypeOK, UseInv, RowsInv
  <1> DEFINE a == RecoveredSample(attempt)
  <1>2. /\ a \in SampleAttempts /\ a.status = "interrupted_unknown" /\ a.code = "interrupted_unknown"
        /\ a.req = 0 /\ a.read = 0 /\ a.at = attempt.at /\ AttemptReadable(a)
    BY <1>1 DEF RecoveredSample, SampleTypeOK, SampleAttempts, AttemptReadable
  <1> HIDE DEF a
  <1>3. CASE UNCHANGED <<batch, attempt, sampleBudget>>
               /\ sampler' = [Closed EXCEPT !.handle = "poisoned"]
    BY <1>1, <1>3, RunEnds, SamplerFacts
  <1>4. CASE /\ batch' = batch /\ attempt' = a
             /\ sampleBudget' = Projection(a, sampleBudget.max)
             /\ sampleBudget'.max = sampleBudget.max
             /\ sampler' \in {Ready, [Closed EXCEPT !.handle = "poisoned"]}
    <2>1. sampler' \in Samplers /\ sampler'.phase = "idle" /\ ~sampler'.report
      BY <1>4, SamplerFacts
    <2>2. SampleTypeOK' /\ RowsInv'
      BY <1>1, <1>2, <1>4, <2>1 DEF SampleTypeOK, RowsInv
    <2>3. RunInv' /\ UseInv'
      BY <1>1, <1>2, <1>4, <2>1 DEF RunInv, UseInv
    <2> QED BY <1>1, <1>2, <1>4, <2>2, <2>3
  <1> QED BY <1>1, <1>2, <1>3, <1>4, Saved DEF a

LEMMA SampleStep == SampleInv /\ [SampleNext]_sampleVars => SampleInv'
  <1> SUFFICES ASSUME SampleInv, [SampleNext]_sampleVars PROVE SampleInv'
    OBVIOUS
  <1>1. CASE UNCHANGED sampleVars
    BY <1>1 DEF sampleVars, SampleInv, SampleTypeOK, RowsInv, RunInv, UseInv
  <1>2. CASE OpenSampleWriter \/ CloseSamples
    BY <1>2, RunEnds, SamplerFacts DEF OpenSampleWriter, CloseSamples
  <1> QED
    BY <1>1, <1>2, CreateStep, ReserveStep, ObserveStep, SettleStep, RecoverStep DEF SampleNext

\* The inductive invariant of the sample store.
THEOREM SampleInvariant == SampleSpec => []SampleInv
  <1> QED BY SampleInitInv, SampleStep, PTL DEF SampleSpec

\* The invariant is stronger than what the run checks.
LEMMA InvSampledForGood == SampleInv => SampledForGood
  <1> SUFFICES ASSUME SampleInv PROVE SampledForGood
    OBVIOUS
  <1>1. CASE batch = NoBatch
    BY <1>1 DEF SampleInv, RowsInv, RunInv, UseInv, SampledForGood, SampleReadable
  <1>2. CASE batch # NoBatch
    <2>1. /\ sampleBudget.tres = (IF attempt.status # "none" THEN Planned ELSE 0)
          /\ sampleBudget.res \in {0, sampleBudget.tres}
      BY <1>2, ProjectionFields DEF SampleInv, SampleTypeOK, RowsInv
    <2>2. batch.daily \in Nat /\ batch.life \in Nat
      BY <1>2, SampleStoreAssumption DEF SampleInv, RowsInv
    <2>3. sampleBudget.res <= batch.daily /\ sampleBudget.tres <= batch.life
      BY <1>2, <2>1, <2>2 DEF SampleInv, RowsInv
    <2> QED BY <1>2, <2>3 DEF SampleInv, RowsInv, RunInv, UseInv, SampledForGood, SampleReadable
  <1> QED BY <1>1, <1>2

\* sample_store*.go: one batch is sampled at most once, its rows stay readable
\* and a report stands on saved usage; also beside the hash store.
THEOREM SampledAtMostOnce == ContentSpec => []SampledForGood
  <1>1. ContentInit => SampleInv
    BY SampleInitInv DEF ContentInit
  <1>2. SampleInv /\ [ContentNext]_contentVars => SampleInv'
    BY SampleStep DEF ContentNext, contentVars
  <1> QED BY <1>1, <1>2, InvSampledForGood, PTL DEF ContentSpec

-----------------------------------------------------------------------------
(* The refinement. *)

SampleAccount ==
  [held |-> sampleBudget.tout, booked |-> sampleBudget.treq + sampleBudget.tunk,
   used |-> used.bytes]

\* What a reader of the rows knows of the account.
AccountKnown ==
  /\ SampleAccount.held = (IF attempt.status = "reserved" THEN Planned ELSE 0)
  /\ SampleAccount.booked =
       attempt.req + (IF attempt.status = "interrupted_unknown" THEN Planned ELSE 0)
  /\ SampleAccount.used = used.bytes
  /\ attempt.req \in Nat /\ used.bytes \in Nat
  /\ SampleAccount = [held |-> SampleAccount.held, booked |-> SampleAccount.booked,
                      used |-> SampleAccount.used]

LEMMA AccountFields == SampleInv => AccountKnown
  <1> SUFFICES ASSUME SampleInv PROVE AccountKnown
    OBVIOUS
  <1>1. attempt.req \in Nat /\ used.bytes \in Nat /\ Planned \in Nat \ {0}
    BY SampleStoreAssumption DEF SampleInv, SampleTypeOK, SampleAttempts
  <1> QED BY <1>1, BudgetFields DEF AccountKnown, SampleAccount

\* A step that changes neither the attempt nor what was used moves nothing.
LEMMA AccountKept ==
  ASSUME SampleInv, SampleInv', attempt' = attempt, used' = used
  PROVE  SampleAccount' = SampleAccount
  <1> DEFINE x == SampleAccount
             y == SampleAccount'
  <1>0. AccountKnown /\ AccountKnown'
    BY AccountFields, PTL
  <1>1. y.held = x.held /\ y.booked = x.booked /\ y.used = x.used
    BY <1>0 DEF AccountKnown
  <1>2. /\ x = [held |-> x.held, booked |-> x.booked, used |-> x.used]
        /\ y = [held |-> y.held, booked |-> y.booked, used |-> y.used]
    BY <1>0 DEF AccountKnown
  <1> QED BY <1>1, <1>2

\* Every step of the store reserves, uses or settles, or leaves the account.
LEMMA AccountStep ==
  ASSUME SampleInv, SampleInv', [SampleNext]_sampleVars
  PROVE  \/ SampleAccount' = SampleAccount
         \/ SampleBooks!Reserve(SampleAccount, SampleAccount')
         \/ SampleBooks!Use(SampleAccount, SampleAccount')
         \/ SampleBooks!Settle(SampleAccount, SampleAccount')
  <1> DEFINE x == SampleAccount
             y == SampleAccount'
  <1>0. AccountKnown /\ AccountKnown'
    BY AccountFields, PTL
  <1>1. /\ x.held = (IF attempt.status = "reserved" THEN Planned ELSE 0)
        /\ x.booked = attempt.req + (IF attempt.status = "interrupted_unknown" THEN Planned ELSE 0)
        /\ x.used = used.bytes
        /\ attempt.req \in Nat /\ used.bytes \in Nat /\ Planned \in Nat \ {0}
        /\ x = [held |-> x.held, booked |-> x.booked, used |-> x.used]
    BY <1>0, SampleStoreAssumption DEF AccountKnown
  <1>2. /\ y.held = (IF attempt'.status = "reserved" THEN Planned ELSE 0)
        /\ y.booked = attempt'.req + (IF attempt'.status = "interrupted_unknown" THEN Planned ELSE 0)
        /\ y.used = used'.bytes /\ attempt'.req \in Nat /\ used'.bytes \in Nat
        /\ y = [held |-> y.held, booked |-> y.booked, used |-> y.used]
    BY <1>0 DEF AccountKnown
  <1>3. CASE UNCHANGED sampleVars
    BY <1>3, AccountKept DEF sampleVars
  <1>4. CASE OpenSampleWriter \/ CloseSamples
    BY <1>4, AccountKept DEF OpenSampleWriter, CloseSamples
  <1>5. ASSUME NEW policy \in SamplePolicies, CreateBatch(policy) PROVE y = x
    <2>1. attempt = NoSample /\ attempt' = NoSample /\ used' = used
      BY <1>5 DEF CreateBatch, SaveSample, SampleInv, RowsInv
    <2> QED BY <2>1, AccountKept
  <1>6. CASE ReserveSample
    <2>1. attempt = NoSample /\ used' = used
      BY <1>6 DEF ReserveSample
    <2>2. \/ attempt' = NoSample
          \/ \E now \in SampleClock : attempt' = [NoSample EXCEPT !.status = "reserved", !.at = now]
      BY <1>6, <2>1 DEF ReserveSample, SaveSample
    <2>3. CASE attempt' = NoSample
      BY <2>1, <2>3, AccountKept
    <2>4. CASE \E now \in SampleClock : attempt' = [NoSample EXCEPT !.status = "reserved", !.at = now]
      <3>1. attempt.status = "none" /\ attempt'.status = "reserved" /\ attempt'.req = attempt.req
        BY <2>1, <2>4 DEF NoSample
      <3>2. x.held = 0 /\ y.booked = x.booked /\ y.used = x.used
        BY <1>1, <1>2, <2>1, <3>1
      <3>3. y = [x EXCEPT !.held = y.held]
        BY <1>1, <1>2, <3>2
      <3> QED BY <3>2, <3>3 DEF SampleBooks!Reserve
    <2> QED BY <2>2, <2>3, <2>4
  <1>7. CASE ObserveSamples
    <2>1. /\ attempt' = attempt /\ attempt.status = "reserved" /\ used.bytes = 0
          /\ used'.bytes \in 0..Planned
      BY <1>7, ObserveStep
    <2>2. y.held = x.held /\ x.held = Planned /\ y.booked = x.booked
      BY <1>1, <1>2, <2>1
    <2>3. CASE used'.bytes = 0
      <3>1. y.used = x.used
        BY <1>1, <1>2, <2>1, <2>3
      <3> QED BY <1>1, <1>2, <2>2, <3>1
    <2>4. CASE used'.bytes # 0
      <3>1. y.used > x.used /\ y = [x EXCEPT !.used = y.used]
        BY <1>1, <1>2, <2>1, <2>2, <2>4
      <3>2. SampleBooks!Covered(y)
        BY <1>1, <1>2, <2>1, <2>2 DEF SampleBooks!Covered
      <3> QED BY <3>1, <3>2 DEF SampleBooks!Use
    <2> QED BY <2>3, <2>4
  <1>8. CASE SettleSample \/ RecoverSamples
    <2>1. /\ attempt.status = "reserved" /\ used.bytes <= Planned /\ used' = used
          /\ \/ UNCHANGED <<attempt, sampleBudget>>
             \/ attempt'.status \in {"settled", "interrupted_unknown"}
      BY <1>8, SettleStep, RecoverStep
    <2>2. CASE attempt' = attempt
      BY <2>1, <2>2, AccountKept
    <2>3. CASE attempt'.status \in {"settled", "interrupted_unknown"}
      <3>1. /\ attempt.req = 0
            /\ attempt'.status = "settled" => used'.bytes = attempt'.req
            /\ attempt'.status = "interrupted_unknown" => attempt'.req = 0
        BY <2>1 DEF SampleInv, RowsInv, UseInv
      <3>2. x.held = Planned /\ x.booked = 0 /\ y.held = 0 /\ y.used = x.used
        BY <1>1, <1>2, <2>1, <2>3, <3>1
      <3>3. y.booked \in Nat /\ x.used <= y.booked /\ y.booked <= Planned
        BY <1>1, <1>2, <2>1, <2>3, <3>1
      <3>4. SampleBooks!Covered(y)
        BY <1>1, <1>2, <3>2, <3>3 DEF SampleBooks!Covered
      <3> QED BY <1>1, <1>2, <3>2, <3>3, <3>4 DEF SampleBooks!Settle
    <2> QED BY <2>1, <2>2, <2>3
  <1> QED BY <1>3, <1>4, <1>5, <1>6, <1>7, <1>8 DEF SampleNext

\* The sample store implements PrechargedUse: whatever crashes and uncertain
\* commits happen, an amount is reserved before a byte is requested, booked at
\* least at what was requested, and never given back.
THEOREM SamplesPrecharged == SampleSpec => SampleBooks!Spec
  <1>1. SampleInit => SampleBooks!Init
    <2> SUFFICES ASSUME SampleInit PROVE SampleBooks!Init
      OBVIOUS
    <2>1. SampleInv /\ attempt.status = "none" /\ used.bytes = 0
      BY SampleInitInv, NoSampleFacts DEF SampleInit
    <2>2. SampleAccount.held = 0 /\ SampleBooks!Covered(SampleAccount)
      BY <2>1, AccountFields, SampleStoreAssumption DEF AccountKnown, SampleBooks!Covered
    <2> QED BY <2>2 DEF SampleBooks!Init, SampleAccount
  <1>2. SampleInv /\ SampleInv' /\ [SampleNext]_sampleVars
          => [SampleBooks!Next]_([samples |-> SampleAccount])
    <2> SUFFICES ASSUME SampleInv, SampleInv', [SampleNext]_sampleVars,
                        SampleAccount' # SampleAccount
                 PROVE  SampleBooks!Next
      OBVIOUS
    <2> DEFINE old == [samples |-> SampleAccount]
               new == [samples |-> SampleAccount']
    <2>1. /\ DOMAIN old = {"samples"} /\ DOMAIN new = {"samples"}
          /\ old["samples"] = SampleAccount /\ new["samples"] = SampleAccount'
          /\ old # new /\ new = [old EXCEPT !["samples"] = new["samples"]]
      OBVIOUS
    <2>2. \/ SampleBooks!Reserve(old["samples"], new["samples"])
          \/ SampleBooks!Use(old["samples"], new["samples"])
          \/ SampleBooks!Settle(old["samples"], new["samples"])
      BY <2>1, AccountStep
    <2>3. SampleBooks!Step(old, new)
      BY <2>1, <2>2 DEF SampleBooks!Step
    <2> QED BY <2>3 DEF SampleBooks!Next, SampleAccount
  <1> QED
    BY <1>1, <1>2, SampleInvariant, PTL DEF SampleSpec, SampleBooks!Spec, SampleAccount

-----------------------------------------------------------------------------
(* Sums over finite sets. *)

\* Induction over the natural numbers, with a set for the predicate.
LEMMA SetInduction ==
  ASSUME NEW P, 0 \in P, \A n \in Nat : n \in P => n + 1 \in P
  PROVE  Nat \subseteq P
  <1> DEFINE T == Nat \ P
             R == OpToRel(<, Nat)
  <1>1. SUFFICES ASSUME T # {} PROVE FALSE
    OBVIOUS
  <1>2. IsWellFoundedOn(R, Nat)
    BY NatLessThanWellFounded
  <1>3. PICK x \in T : \A y \in T : ~(<<y, x>> \in R)
    <2> HIDE DEF R
    <2> QED BY <1>1, <1>2, WFMin
  <1>4. x - 1 \in Nat /\ x - 1 \in T /\ <<x - 1, x>> \in R
    BY <1>3 DEF OpToRel
  <1> QED BY <1>3, <1>4

Some(U) == CHOOSE x \in U : TRUE
\* The function that MapThenSumSet sums with, over the subsets of S.
Sums(F, S, sum) ==
  sum = [U \in SUBSET S |-> IF U = {} THEN 0 ELSE F[Some(U)] + sum[U \ {Some(U)}]]

LEMMA SmallerSet ==
  ASSUME NEW U, IsFiniteSet(U), NEW x \in U
  PROVE  /\ IsFiniteSet(U \ {x})
         /\ Cardinality(U) \in Nat \ {0} /\ Cardinality(U \ {x}) = Cardinality(U) - 1
  <1>1. IsFiniteSet(U \ {x}) /\ Cardinality(U \ {x}) = Cardinality(U) - 1
    BY FS_RemoveElement
  <1>2. Cardinality(U) \in Nat /\ Cardinality(U) # 0
    BY FS_CardinalityType, FS_EmptySet
  <1> QED BY <1>1, <1>2

\* Induction over the finite subsets of D.  Good is the set of those that have
\* the property.
LEMMA SubsetInduction ==
  ASSUME NEW D, NEW Good,
         \A U \in SUBSET D : IsFiniteSet(U) /\ (\A x \in U : U \ {x} \in Good) => U \in Good
  PROVE  \A U \in SUBSET D : IsFiniteSet(U) => U \in Good
  <1> DEFINE P == {n \in Nat : \A U \in SUBSET D : IsFiniteSet(U) /\ Cardinality(U) = n => U \in Good}
  <1>1. 0 \in P
    <2> SUFFICES ASSUME NEW U \in SUBSET D, IsFiniteSet(U), Cardinality(U) = 0 PROVE U \in Good
      OBVIOUS
    <2>1. U = {}
      BY FS_EmptySet
    <2> QED BY <2>1
  <1>2. ASSUME NEW n \in Nat, n \in P PROVE n + 1 \in P
    <2> SUFFICES ASSUME NEW U \in SUBSET D, IsFiniteSet(U), Cardinality(U) = n + 1 PROVE U \in Good
      OBVIOUS
    <2>1. ASSUME NEW x \in U PROVE U \ {x} \in Good
      <3>1. IsFiniteSet(U \ {x}) /\ Cardinality(U \ {x}) = n
        BY SmallerSet
      <3>2. U \ {x} \in SUBSET D
        OBVIOUS
      <3> QED BY <1>2, <3>1, <3>2
    <2> QED BY <2>1
  <1>3. Nat \subseteq P
    <2> HIDE DEF P
    <2> QED BY <1>1, <1>2, SetInduction
  <1>4. ASSUME NEW U \in SUBSET D, IsFiniteSet(U) PROVE U \in Good
    <2>1. Cardinality(U) \in P
      BY <1>3, <1>4, FS_CardinalityType
    <2> QED BY <1>4, <2>1
  <1> QED BY <1>4

\* The summing function exists over every finite set.
LEMMA SumsExist ==
  ASSUME NEW D, NEW F \in [D -> Nat], NEW S \in SUBSET D, IsFiniteSet(S)
  PROVE  \E sum \in [SUBSET S -> Nat] : Sums(F, S, sum)
  <1> DEFINE Upto(n) == {U \in SUBSET S : Cardinality(U) <= n}
             Part(g, n) == \A U \in Upto(n) :
                             g[U] = IF U = {} THEN 0 ELSE F[Some(U)] + g[U \ {Some(U)}]
             P == {n \in Nat : \E g \in [Upto(n) -> Nat] : Part(g, n)}
  <1>0. ASSUME NEW U \in SUBSET S
        PROVE  /\ IsFiniteSet(U) /\ Cardinality(U) \in Nat /\ Cardinality(U) <= Cardinality(S)
               /\ U # {} => /\ Some(U) \in U /\ U \ {Some(U)} \in SUBSET S
                            /\ Cardinality(U) > 0
                            /\ Cardinality(U \ {Some(U)}) = Cardinality(U) - 1
    <2>1. IsFiniteSet(U) /\ Cardinality(U) <= Cardinality(S)
      BY FS_Subset
    <2>2. Cardinality(U) \in Nat
      BY <2>1, FS_CardinalityType
    <2>3. CASE U # {}
      <3>1. Some(U) \in U
        BY <2>3 DEF Some
      <3>2. Cardinality(U \ {Some(U)}) = Cardinality(U) - 1 /\ Cardinality(U) \in Nat \ {0}
        BY <2>1, <3>1, SmallerSet
      <3> QED BY <2>1, <2>2, <3>1, <3>2
    <2> QED BY <2>1, <2>2, <2>3
  <1>1. 0 \in P
    <2> DEFINE g == [U \in Upto(0) |-> 0]
    <2>1. ASSUME NEW U \in Upto(0) PROVE U = {}
      <3>1. U \in SUBSET S /\ Cardinality(U) <= 0
        OBVIOUS
      <3>2. U # {} => Cardinality(U) > 0 /\ Cardinality(U) \in Nat
        BY <1>0, <3>1
      <3> QED BY <3>1, <3>2
    <2>2. g \in [Upto(0) -> Nat] /\ Part(g, 0)
      BY <2>1
    <2> QED BY <2>2
  <1>2. ASSUME NEW n \in Nat, n \in P PROVE n + 1 \in P
    <2>1. PICK g \in [Upto(n) -> Nat] : Part(g, n)
      BY <1>2
    <2> DEFINE h == [U \in Upto(n + 1) |-> IF U = {} THEN 0 ELSE F[Some(U)] + g[U \ {Some(U)}]]
    <2>2. ASSUME NEW U \in Upto(n + 1), U # {}
          PROVE  Some(U) \in D /\ U \ {Some(U)} \in Upto(n)
      BY <1>0, <2>2
    <2>3. ASSUME NEW U \in Upto(n) PROVE U \in Upto(n + 1)
      <3>1. U \in SUBSET S /\ Cardinality(U) <= n
        OBVIOUS
      <3>2. Cardinality(U) \in Nat
        BY <1>0, <3>1
      <3> QED BY <3>1, <3>2
    <2>4. h \in [Upto(n + 1) -> Nat]
      BY <2>2
    <2>5. \A U \in Upto(n) : h[U] = g[U]
      BY <2>1, <2>3
    <2>6. Part(h, n + 1)
      BY <2>2, <2>3, <2>5
    <2>7. n + 1 \in Nat
      OBVIOUS
    <2> HIDE DEF h, Upto, Part
    <2> QED BY <2>4, <2>6, <2>7
  <1>3. Cardinality(S) \in Nat /\ Cardinality(S) \in P
    <2> HIDE DEF P
    <2> QED BY <1>1, <1>2, SetInduction, FS_CardinalityType
  <1>4. Upto(Cardinality(S)) = SUBSET S
    BY <1>0
  <1>5. PICK g \in [SUBSET S -> Nat] : Part(g, Cardinality(S))
    BY <1>3, <1>4
  <1>6. Sums(F, S, g)
    BY <1>4, <1>5 DEF Sums
  <1> QED BY <1>6

\* SumOver is what such a function says of the whole set.
LEMMA SumOverIs ==
  ASSUME NEW D, NEW F \in [D -> Nat], NEW S \in SUBSET D, IsFiniteSet(S)
  PROVE  \E sum : Sums(F, S, sum) /\ SumOver(F, S) = sum[S]
  <1>1. \E sum : Sums(F, S, sum)
    BY SumsExist
  <1>2. SumOver(F, S) = (CHOOSE sum : Sums(F, S, sum))[S]
    BY Zenon DEF SumOver, MapThenSumSet, MapThenFoldSet, Sums, Some
  <1> QED BY <1>1, <1>2

SumOn(F, S, sum) ==
  /\ \A U \in SUBSET S : SumOver(F, U) = sum[U]
  /\ \A U \in SUBSET S : sum[U] = IF U = {} THEN 0 ELSE F[Some(U)] + sum[U \ {Some(U)}]

\* One function serves all subsets.
LEMMA OneSum ==
  ASSUME NEW D, NEW F \in [D -> Nat], NEW S \in SUBSET D, IsFiniteSet(S)
  PROVE  \E sum \in [SUBSET S -> Nat] : SumOn(F, S, sum)
  <1>1. PICK sum \in [SUBSET S -> Nat] : Sums(F, S, sum)
    BY SumsExist
  <1>2. \A U \in SUBSET S : sum[U] = IF U = {} THEN 0 ELSE F[Some(U)] + sum[U \ {Some(U)}]
    BY <1>1 DEF Sums
  <1>3. ASSUME NEW T \in SUBSET S PROVE SumOver(F, T) = sum[T]
    <2>1. IsFiniteSet(T) /\ T \in SUBSET D
      BY FS_Subset
    <2>2. PICK part : Sums(F, T, part) /\ SumOver(F, T) = part[T]
      BY <2>1, SumOverIs
    <2>3. \A U \in SUBSET T : part[U] = IF U = {} THEN 0 ELSE F[Some(U)] + part[U \ {Some(U)}]
      BY <2>2 DEF Sums
    <2> DEFINE Good == {U \in SUBSET T : part[U] = sum[U]}
    <2>4. ASSUME NEW U \in SUBSET T, \A x \in U : U \ {x} \in Good
          PROVE  U \in Good
      <3>1. CASE U = {}
        BY <1>2, <2>3, <3>1
      <3>2. CASE U # {}
        <4>1. Some(U) \in U
          BY <3>2 DEF Some
        <4>2. part[U \ {Some(U)}] = sum[U \ {Some(U)}]
          BY <2>4, <4>1
        <4>3. U \in SUBSET S
          OBVIOUS
        <4> QED BY <1>2, <2>3, <3>2, <4>2, <4>3
      <3> QED BY <3>1, <3>2
    <2>5. T \in Good
      <3> HIDE DEF Good
      <3>1. T \in SUBSET T
        OBVIOUS
      <3> QED BY <2>1, <2>4, <3>1, SubsetInduction
    <2> QED BY <2>2, <2>5
  <1> QED BY <1>2, <1>3 DEF SumOn

\* A sum of natural numbers is one, and any element can be taken out of it.
LEMMA SumTakeOut ==
  ASSUME NEW D, NEW F \in [D -> Nat], NEW S \in SUBSET D, IsFiniteSet(S)
  PROVE  /\ SumOver(F, S) \in Nat /\ SumOver(F, {}) = 0
         /\ \A x \in S : SumOver(F, S) = F[x] + SumOver(F, S \ {x})
  <1>0. PICK sum \in [SUBSET S -> Nat] : SumOn(F, S, sum)
    BY OneSum
  <1>1. /\ \A U \in SUBSET S : SumOver(F, U) = sum[U]
        /\ \A U \in SUBSET S : sum[U] = IF U = {} THEN 0 ELSE F[Some(U)] + sum[U \ {Some(U)}]
    BY <1>0 DEF SumOn
  <1> DEFINE Good == {U \in SUBSET S : \A x \in U : sum[U] = F[x] + sum[U \ {x}]}
  <1>3. ASSUME NEW U \in SUBSET S, \A x \in U : U \ {x} \in Good
        PROVE  U \in Good
    <2> SUFFICES ASSUME NEW x \in U PROVE sum[U] = F[x] + sum[U \ {x}]
      OBVIOUS
    <2> DEFINE y == Some(U)
    <2>1. y \in U /\ sum[U] = F[y] + sum[U \ {y}]
      BY <1>1 DEF Some
    <2> HIDE DEF y
    <2>2. CASE x = y
      BY <2>1, <2>2
    <2>3. CASE x # y
      <3> DEFINE rest == (U \ {x}) \ {y}
      <3>1. sum[U \ {y}] = F[x] + sum[(U \ {y}) \ {x}]
        BY <1>3, <2>1, <2>3
      <3>2. sum[U \ {x}] = F[y] + sum[rest]
        BY <1>3, <2>1, <2>3
      <3>3. (U \ {y}) \ {x} = rest /\ rest \in SUBSET S
        OBVIOUS
      <3>4. F[x] \in Nat /\ F[y] \in Nat /\ sum[rest] \in Nat
        BY <2>1
      <3> HIDE DEF rest
      <3>5. sum[U] = F[y] + (F[x] + sum[rest]) /\ sum[U \ {x}] = F[y] + sum[rest]
        BY <2>1, <3>1, <3>2, <3>3
      <3> QED BY <3>4, <3>5
    <2> QED BY <2>2, <2>3
  <1>4. S \in Good
    <2> HIDE DEF Good
    <2>1. S \in SUBSET S
      OBVIOUS
    <2> QED BY <1>3, <2>1, SubsetInduction
  <1>5. \A x \in S : SumOver(F, S) = F[x] + SumOver(F, S \ {x})
    BY <1>1, <1>4
  <1> QED BY <1>1, <1>5

\* A sum is at most another one whose terms dominate its own.
LEMMA SumAtMost ==
  ASSUME NEW D, NEW E, NEW F \in [D -> Nat], NEW G \in [E -> Nat],
         NEW S \in SUBSET D, NEW T \in SUBSET E, IsFiniteSet(S), IsFiniteSet(T),
         \A x \in S : F[x] = 0 \/ (x \in T /\ F[x] <= G[x])
  PROVE  SumOver(F, S) <= SumOver(G, T)
  <1> DEFINE Within(U, V) == \A x \in U : F[x] = 0 \/ (x \in V /\ F[x] <= G[x])
             Good == {U \in SUBSET S : \A V \in SUBSET T :
                        Within(U, V) => SumOver(F, U) <= SumOver(G, V)}
  <1>1. ASSUME NEW U \in SUBSET S, IsFiniteSet(U), \A x \in U : U \ {x} \in Good
        PROVE  U \in Good
    <2> SUFFICES ASSUME NEW V \in SUBSET T, Within(U, V)
                 PROVE  SumOver(F, U) <= SumOver(G, V)
      OBVIOUS
    <2>1. IsFiniteSet(V) /\ U \in SUBSET D /\ V \in SUBSET E
      BY FS_Subset
    <2>2. SumOver(F, U) \in Nat /\ SumOver(G, V) \in Nat /\ SumOver(F, {}) = 0
      BY <1>1, <2>1, SumTakeOut
    <2>3. CASE U = {}
      BY <2>2, <2>3
    <2>4. CASE U # {}
      <3>1. PICK x : x \in U
        BY <2>4
      <3>2. SumOver(F, U) = F[x] + SumOver(F, U \ {x}) /\ F[x] \in Nat
        BY <1>1, <2>1, <3>1, SumTakeOut
      <3>3. U \ {x} \in Good /\ U \ {x} \in SUBSET D /\ IsFiniteSet(U \ {x})
        BY <1>1, <3>1, FS_Subset
      <3>4. SumOver(F, U \ {x}) \in Nat
        BY <3>3, SumTakeOut
      <3>5. CASE F[x] = 0
        <4>1. SumOver(F, U \ {x}) <= SumOver(G, V)
          BY <3>3
        <4> QED BY <2>2, <3>2, <3>4, <3>5, <4>1
      <3>6. CASE x \in V /\ F[x] <= G[x]
        <4>1. Within(U \ {x}, V \ {x}) /\ V \ {x} \in SUBSET T
          OBVIOUS
        <4>2. SumOver(F, U \ {x}) <= SumOver(G, V \ {x})
          BY <3>3, <4>1
        <4>3. SumOver(G, V) = G[x] + SumOver(G, V \ {x}) /\ G[x] \in Nat
          BY <2>1, <3>6, SumTakeOut
        <4>4. SumOver(G, V \ {x}) \in Nat
          BY <2>1, FS_Subset, SumTakeOut
        <4> HIDE DEF Good, Within
        <4> QED BY <3>2, <3>4, <3>6, <4>2, <4>3, <4>4
      <3> QED BY <3>1, <3>5, <3>6
    <2> QED BY <2>3, <2>4
  <1>2. S \in Good
    <2> HIDE DEF Good
    <2>1. S \in SUBSET S
      OBVIOUS
    <2> QED BY <1>1, <2>1, SubsetInduction
  <1>3. T \in SUBSET T /\ Within(S, T)
    OBVIOUS
  <1> QED BY <1>2, <1>3

\* Two sums that differ only at w.
SumChanges(F, G, w, S, T) ==
  /\ SumOver(F, S) \in Nat /\ SumOver(G, T) \in Nat
  /\ SumOver(G, T) + (IF w \in S THEN F[w] ELSE 0)
       = SumOver(F, S) + (IF w \in T THEN G[w] ELSE 0)

LEMMA SumChange ==
  ASSUME NEW D, NEW E, NEW F \in [D -> Nat], NEW G \in [E -> Nat], NEW w,
         NEW S \in SUBSET D, NEW T \in SUBSET E, IsFiniteSet(S), IsFiniteSet(T),
         S \ {w} = T \ {w}, \A x \in S \ {w} : F[x] = G[x]
  PROVE  SumChanges(F, G, w, S, T)
  <1>1. IsFiniteSet(S \ {w}) /\ S \ {w} \in SUBSET D /\ S \ {w} \in SUBSET E
    BY FS_Subset
  <1>2. SumOver(F, S \ {w}) \in Nat /\ SumOver(G, S \ {w}) \in Nat
    BY <1>1, SumTakeOut
  <1>3. SumOver(F, S \ {w}) <= SumOver(G, S \ {w})
    <2>1. \A x \in S \ {w} : F[x] = 0 \/ (x \in S \ {w} /\ F[x] <= G[x])
      OBVIOUS
    <2> QED BY <1>1, <2>1, SumAtMost
  <1>4. SumOver(G, S \ {w}) <= SumOver(F, S \ {w})
    <2>1. \A x \in S \ {w} : G[x] = 0 \/ (x \in S \ {w} /\ G[x] <= F[x])
      OBVIOUS
    <2> QED BY <1>1, <2>1, SumAtMost
  <1>5. SumOver(F, S) = (IF w \in S THEN F[w] ELSE 0) + SumOver(F, S \ {w})
    <2>1. CASE w \in S
      BY <2>1, SumTakeOut
    <2>2. CASE w \notin S
      <3>1. S \ {w} = S
        BY <2>2
      <3>2. SumOver(F, S) = SumOver(F, S \ {w})
        BY <3>1, Zenon
      <3> QED BY <1>2, <2>2, <3>2
    <2> QED BY <2>1, <2>2
  <1>6. SumOver(G, T) = (IF w \in T THEN G[w] ELSE 0) + SumOver(G, S \ {w})
    <2>1. CASE w \in T
      BY <2>1, SumTakeOut
    <2>2. CASE w \notin T
      <3>1. S \ {w} = T
        BY <2>2
      <3>2. SumOver(G, T) = SumOver(G, S \ {w})
        BY <3>1, Zenon
      <3> QED BY <1>2, <2>2, <3>2
    <2> QED BY <2>1, <2>2
  <1>7. SumOver(F, S) \in Nat /\ SumOver(G, T) \in Nat
    BY SumTakeOut
  <1>8. (w \in S => F[w] \in Nat) /\ (w \in T => G[w] \in Nat)
    OBVIOUS
  <1> QED BY <1>2, <1>3, <1>4, <1>5, <1>6, <1>7, <1>8 DEF SumChanges

-----------------------------------------------------------------------------
(* The inductive invariant of the hash store.  Its parts speak of a setup k  *)
(* and of values of the variables, so that a transaction's candidate rows    *)
(* can be put in before it commits.                                          *)

WorksIn(k, sp) == IF sp = Original THEN Setups[k].works ELSE Setups[k].done
DayIn(k, t) == t \div Setups[k].dayLen
Horizon(k) == Setups[k].maxTime + Lifetime
DaysIn(k) == 0..DayIn(k, Horizon(k))

Budgets == [set : BOOLEAN, day : Nat, max : Nat, res : Nat, req : Nat, read : Nat, unk : Nat,
            tres : Nat, treq : Nat, tread : Nat, tunk : Nat]
Consents == [given : BOOLEAN, created : Nat, daily : Nat, life : Nat, initial : Nat, high : Nat,
             expired : BOOLEAN, revoked : BOOLEAN]
Statuses == {"none", "reserved", "settled", "interrupted_unknown"}
AttemptRows == [status : Statuses, from : Nat, grant : Nat, day : Nat, req : Nat, read : Nat]
WorkRows == [status : {"pending", "running", "complete", "invalidated"}, off : Nat,
             attempt : AttemptRows]
SharedRows == [set : BOOLEAN, day : Nat, max : Nat, res : Nat, total : Nat]
Runs(k) ==
  [phase : {"idle", "observe", "choose", "reserve", "read", "settle", "latch", "finish"},
   space : SpacesOf[k], mode : {"plain", "consented", "budgeted"}, work : Nat, grant : Nat,
   available : Nat, at : Nat, next : {"none", "complete", "pending", "invalidated"}, off : Nat,
   req : Nat, read : Nat, cause : {"none", "canceled", "expired", "rollback"}]

\* A budget row.  Without one nothing was ever reserved.
BudgetOK(k, b) ==
  /\ b \in Budgets
  /\ ~b.set => b = NoBudget
  /\ b.day = DayIn(k, b.max) /\ b.max <= Horizon(k)
  /\ b.read <= b.req /\ b.req + b.unk <= b.res
  /\ b.tread <= b.treq /\ b.treq + b.tunk <= b.tres
  /\ b.res <= b.tres /\ b.req <= b.treq /\ b.read <= b.tread /\ b.unk <= b.tunk

\* A consent row and the budget it limits; a job is never read without one.
ConsentOK(k, sp, c, b) ==
  /\ c \in Consents
  /\ ~c.given => c = NoConsent
  /\ c.given => /\ c.initial <= b.tres /\ b.tres <= c.life
                /\ c.created <= c.high /\ c.created <= Setups[k].maxTime
                /\ c.high <= Horizon(k)
                /\ c.expired <=> c.high >= c.created + Lifetime
  /\ sp # Original /\ b.set =>
       /\ c.given /\ c.created <= b.max /\ b.max <= c.high
       /\ b.res <= c.daily /\ b.tres <= c.life

\* A work row, of a file of this size, in a namespace whose budget is at day.
WorkOK(size, sp, day, x) ==
  LET a == x.attempt
  IN /\ x.off <= size /\ a.day <= day
     /\ x.status = "complete" => x.off = size
     /\ x.status # "complete" => x.off % Quantum = 0
     /\ (x.status = "running") <=> (a.status = "reserved")
     /\ a.status = "none" => a = NoAttempt /\ x.off = 0 /\ (sp # Original => x.status = "pending")
     /\ a.status # "none" => /\ a.from <= x.off /\ a.grant <= StepLimit
                             /\ a.from + a.grant <= size
     /\ a.status = "settled" => /\ a.read <= a.req /\ a.req <= a.grant
                                /\ x.off <= a.from + a.read
     /\ a.status \in {"reserved", "interrupted_unknown"} => a.from = x.off
     /\ a.status = "interrupted_unknown" /\ sp # Original => x.status = "pending"

\* The latest attempts, by status and day, and their sums.
WithStatus(W, work, statuses) == {w \in W : work[w].attempt.status \in statuses}
OnDay(S, work, d) == {w \in S : work[w].attempt.day = d}
Amounts == {"grant", "req", "read"}
RowSum(work, f, S) == SumOver([w \in S |-> work[w].attempt[f]], S)
OffSum(W, work) == SumOver([w \in W |-> work[w].off], W)

\* The sums over the works with these statuses fit their counters, in all and of
\* the budget's day.
Fits(W, work, d, f, statuses, total, today) ==
  LET S == WithStatus(W, work, statuses)
  IN RowSum(work, f, S) <= total /\ RowSum(work, f, OnDay(S, work, d)) <= today
SumsOK(W, b, work) ==
  /\ Fits(W, work, b.day, "grant", Statuses, b.tres, b.res)
  /\ Fits(W, work, b.day, "req", {"settled"}, b.treq, b.req)
  /\ Fits(W, work, b.day, "read", {"settled"}, b.tread, b.read)
  /\ Fits(W, work, b.day, "grant", {"interrupted_unknown"}, b.tunk, b.unk)
  /\ OffSum(W, work) <= b.tread

\* At most one work runs, and its grant is not booked yet.
OpenOK(W, b, work) ==
  \A w \in W : work[w].status = "running" =>
    /\ \A v \in W : work[v].status = "running" => v = w
    /\ b.set
    /\ b.treq + b.tunk + work[w].attempt.grant <= b.tres
    /\ work[w].attempt.day = b.day => b.req + b.unk + work[w].attempt.grant <= b.res

RowOK(k, sp, x) ==
  /\ DOMAIN x = {"budget", "consent", "work", "queue"}
  /\ BudgetOK(k, x.budget)
  /\ ConsentOK(k, sp, x.consent, x.budget)
  /\ x.work \in [WorksIn(k, sp) -> WorkRows]
  /\ \A w \in WorksIn(k, sp) : WorkOK(Setups[k].size[w], sp, x.budget.day, x.work[w])
  /\ SumsOK(WorksIn(k, sp), x.budget, x.work)
  /\ OpenOK(WorksIn(k, sp), x.budget, x.work)

NsOK(k, n) == DOMAIN n = SpacesOf[k] /\ \A sp \in SpacesOf[k] : RowOK(k, sp, n[sp])

\* The shared row is the sum of the namespaces.
DayRes(b, d) == IF b.set /\ b.day = d THEN b.res ELSE 0
AllRes(k, n, d) == SumOver([sp \in SpacesOf[k] |-> DayRes(n[sp].budget, d)], SpacesOf[k])
AllTres(k, n) == SumOver([sp \in SpacesOf[k] |-> n[sp].budget.tres], SpacesOf[k])
SharedOK(k, n, s) ==
  /\ s \in SharedRows
  /\ s.set =>
       /\ s.day = DayIn(k, s.max)
       /\ s.res = AllRes(k, n, s.day) /\ s.total = AllTres(k, n)
       /\ \A sp \in SpacesOf[k] : n[sp].budget.tres > 0 => n[sp].budget.max <= s.max

\* What was charged is what the budget of the day says; no later day was charged.
ChargeOK(k, n, c) ==
  /\ DOMAIN c = SpacesOf[k]
  /\ \A sp \in SpacesOf[k] :
       /\ c[sp] \in [DaysIn(k) -> Nat]
       /\ \A d \in DaysIn(k) : d >= n[sp].budget.day => c[sp][d] = DayRes(n[sp].budget, d)

\* The run in progress, and what it relies on.
NoneRunning(k, n, sp) == \A w \in WorksIn(k, sp) : n[sp].work[w].status # "running"
InUse(phase) == phase \in {"read", "settle"}
RunOK(k, n, s, h, r) ==
  /\ r \in Runs(k)
  /\ h \in HandleKinds \cup Setups[k].jobs
  /\ h = "writer" /\ ~InUse(r.phase) => NoneRunning(k, n, Original)
  /\ \A j \in Setups[k].jobs : h = j => /\ n[j].budget.set
                                        /\ ~InUse(r.phase) => NoneRunning(k, n, j)
  /\ r.phase # "idle" => h \in {"writer"} \cup Setups[k].jobs
  /\ r.phase = "finish" => r.mode = "budgeted" /\ s.set
  /\ r.phase \notin {"idle", "finish"} =>
       /\ h = (IF r.space = Original THEN "writer" ELSE r.space)
       /\ r.mode = "plain" => r.space = Original /\ r.phase \notin {"observe", "latch"}
       /\ n[r.space].consent.given <=> r.mode # "plain"
       /\ s.set <=> r.mode = "budgeted"
  /\ r.phase = "reserve" =>
       /\ r.work \in WorksIn(k, r.space) /\ n[r.space].work[r.work].status = "pending"
       /\ r.mode = "plain" =>
            /\ n[r.space].budget.max <= r.at /\ r.at <= Setups[k].maxTime
            /\ r.grant <= StepLimit
            /\ n[r.space].work[r.work].off + r.grant <= Setups[k].size[r.work]
  /\ InUse(r.phase) =>
       /\ r.work \in WorksIn(k, r.space) /\ n[r.space].work[r.work].status = "running"
       /\ n[r.space].work[r.work].attempt.grant = r.grant
  /\ r.phase = "settle" =>
       LET off == n[r.space].work[r.work].off
       IN /\ r.read <= r.req /\ r.req <= r.grant
          /\ off <= r.off /\ r.off <= off + r.read /\ r.off <= Setups[k].size[r.work]
          /\ r.next = "complete" => r.off = Setups[k].size[r.work]
          /\ r.next # "complete" => r.off % Quantum = 0
          /\ r.next # "none" /\ (r.mode = "plain" => r.cause \in {"none", "canceled"})

\* What was requested from the files is booked, or within the open reservation.
Held(k, sp, x) ==
  LET open == {w \in WorksIn(k, sp) : x.work[w].status = "running"}
  IN IF open = {} THEN 0 ELSE x.work[Some(open)].attempt.grant
Pending(k, n, r, sp) ==
  IF r.space = sp /\ r.phase = "read" THEN 0
  ELSE IF r.space = sp /\ r.phase = "settle" THEN r.req ELSE Held(k, sp, n[sp])
UseOK(k, n, r, u) ==
  /\ u \in [SpacesOf[k] -> Nat]
  /\ \A sp \in SpacesOf[k] :
       u[sp] <= n[sp].budget.treq + n[sp].budget.tunk + Pending(k, n, r, sp)

HashInv ==
  /\ setup \in DOMAIN Setups
  /\ NsOK(setup, ns)
  /\ SharedOK(setup, ns, shared)
  /\ ChargeOK(setup, ns, charged)
  /\ RunOK(setup, ns, shared, handle, run)
  /\ UseOK(setup, ns, run, consumed)

-----------------------------------------------------------------------------
(* Numbers and constants. *)

\* A later time falls on no earlier day.
LEMMA LaterDay ==
  ASSUME NEW D \in Nat \ {0}, NEW s \in Nat, NEW t \in Nat, s <= t
  PROVE  s \div D \in Nat /\ t \div D \in Nat /\ s \div D <= t \div D
  <1>1. PICK x \in Nat, p \in Nat : x = s \div D /\ p = s % D /\ p < D /\ s = D * x + p
    <2>1. /\ s \div D \in Nat /\ s % D \in Nat /\ s % D < D
          /\ s = D * (s \div D) + (s % D)
      OBVIOUS
    <2> QED BY <2>1
  <1>2. PICK y \in Nat, q \in Nat : y = t \div D /\ q = t % D /\ q < D /\ t = D * y + q
    <2>1. /\ t \div D \in Nat /\ t % D \in Nat /\ t % D < D
          /\ t = D * (t \div D) + (t % D)
      OBVIOUS
    <2> QED BY <2>1
  <1>3. D * x + p <= D * y + q
    BY <1>1, <1>2
  <1>4. ASSUME x > y PROVE FALSE
    <2>1. D * x >= D * (y + 1)
      BY <1>4
    <2>2. D * (y + 1) = D * y + D
      OBVIOUS
    <2>3. D * x \in Nat /\ D * y \in Nat
      OBVIOUS
    <2> QED BY <1>1, <1>2, <1>3, <2>1, <2>2, <2>3
  <1> QED BY <1>1, <1>2, <1>4

LEMMA WholeBlocks ==
  ASSUME NEW Q \in Nat \ {0}, NEW a \in Nat, a % Q = 0
  PROVE  \E x \in Nat : a = Q * x
  <1>1. a = Q * (a \div Q) + (a % Q) /\ a \div Q \in Nat
    OBVIOUS
  <1>2. Q * (a \div Q) \in Nat
    BY <1>1
  <1>3. a = Q * (a \div Q)
    BY <1>1, <1>2
  <1> QED BY <1>1, <1>3

\* Blocks add up to blocks.
LEMMA BlocksAdd ==
  ASSUME NEW Q \in Nat \ {0}, NEW a \in Nat, NEW b \in Nat, a % Q = 0, b % Q = 0
  PROVE  (a + b) % Q = 0
  <1>1. PICK x \in Nat : a = Q * x
    BY WholeBlocks
  <1>2. PICK y \in Nat : b = Q * y
    BY WholeBlocks
  <1>3. PICK z \in Nat : z = x + y
    OBVIOUS
  <1>4. a + b = Q * z
    <2>1. Q * (x + y) = Q * x + Q * y
      OBVIOUS
    <2> QED BY <1>1, <1>2, <1>3, <2>1
  <1>5. PICK c \in Nat : c = a + b
    OBVIOUS
  <1>6. PICK u \in Nat, v \in Nat : u = c \div Q /\ v = c % Q /\ v < Q /\ c = Q * u + v
    <2>1. c \div Q \in Nat /\ c % Q \in Nat /\ c % Q < Q /\ c = Q * (c \div Q) + (c % Q)
      OBVIOUS
    <2> QED BY <2>1
  <1>7. Q * z = Q * u + v /\ Q * z \in Nat /\ Q * u \in Nat
    BY <1>4, <1>5, <1>6
  <1>8. ASSUME z > u PROVE FALSE
    <2>1. Q * z >= Q * (u + 1)
      BY <1>8
    <2>2. Q * (u + 1) = Q * u + Q
      OBVIOUS
    <2> QED BY <1>6, <1>7, <2>1, <2>2
  <1>9. ASSUME z < u PROVE FALSE
    <2>1. Q * u >= Q * (z + 1)
      BY <1>9
    <2>2. Q * (z + 1) = Q * z + Q
      OBVIOUS
    <2> QED BY <1>6, <1>7, <2>1, <2>2
  <1>10. z = u
    BY <1>8, <1>9
  <1>11. v = 0
    BY <1>6, <1>7, <1>10
  <1> QED BY <1>5, <1>6, <1>11

\* A bounded set of numbers has a maximum.
LEMMA MaxIs ==
  ASSUME NEW B \in Nat, NEW S \in SUBSET (0..B), S # {}
  PROVE  Max(S) \in S /\ Max(S) \in Nat /\ \A y \in S : y <= Max(S)
  <1> DEFINE R == OpToRel(<, Nat)
             T == {n \in Nat : \E y \in S : n + y = B}
  <1>1. T # {}
    <2>1. PICK y \in S : TRUE
      OBVIOUS
    <2>2. y \in 0..B
      OBVIOUS
    <2>3. B - y \in Nat /\ (B - y) + y = B
      BY <2>2
    <2> QED BY <2>3
  <1>2. PICK n \in T : \A m \in T : ~(<<m, n>> \in R)
    <2>1. IsWellFoundedOn(R, Nat) /\ T \subseteq Nat
      BY NatLessThanWellFounded
    <2> HIDE DEF R, T
    <2> QED BY <1>1, <2>1, WFMin
  <1>3. PICK x \in S : n + x = B
    OBVIOUS
  <1>4. ASSUME NEW y \in S PROVE x >= y
    <2>1. x \in 0..B /\ y \in 0..B
      OBVIOUS
    <2>2. B - y \in T
      BY <2>1
    <2>3. ~(B - y < n)
      BY <1>2, <2>1, <2>2 DEF OpToRel
    <2> QED BY <1>3, <2>1, <2>3
  <1>5. \E z \in S : \A y \in S : z >= y
    BY <1>4
  <1>6. Max(S) \in S /\ \A y \in S : Max(S) >= y
    BY <1>5 DEF Max
  <1>7. Max(S) \in 0..B
    BY <1>6
  <1> QED BY <1>6, <1>7

\* What is assumed of a setup.
LEMMA SetupFacts ==
  ASSUME NEW k \in DOMAIN Setups
  PROVE  LET s == Setups[k]
         IN /\ IsFiniteSet(s.works) /\ s.works \subseteq Nat /\ s.done \subseteq s.works
            /\ IsFiniteSet(s.jobs) /\ Original \notin s.jobs /\ s.jobs \cap HandleKinds = {}
            /\ s.size \in [s.works -> Nat]
            /\ s.plainLimit \in Nat /\ s.sharedLimit \in Nat /\ s.plainTotal \in Nat
            /\ s.readLimits \subseteq [daily : Nat, life : Nat]
            /\ s.dayLen \in Nat \ {0} /\ s.maxTime \in Nat
  <1>1. Setups[k] \in Range(Setups)
    BY DEF Range
  <1>2. \A s \in Range(Setups) :
          /\ s.works = 1..Cardinality(s.works) /\ IsFiniteSet(s.works)
          /\ s.jobs \cap ({Original} \cup HandleKinds) = {}
    BY HashReadsAssumption
  <1>3. Setups[k].works \subseteq Nat
    <2>1. Setups[k].works = 1..Cardinality(Setups[k].works) /\ Cardinality(Setups[k].works) \in Nat
      BY <1>1, <1>2, FS_CardinalityType
    <2> QED BY <2>1
  <1>4. Original \notin Setups[k].jobs /\ Setups[k].jobs \cap HandleKinds = {}
    BY <1>1, <1>2
  <1> QED BY <1>1, <1>3, <1>4, HashReadsAssumption

LEMMA ConstantFacts ==
  /\ Quantum \in Nat \ {0} /\ StepLimit \in Nat \ {0} /\ StepLimit % Quantum = 0
  /\ Lifetime \in Nat \ {0}
  BY HashReadsAssumption

\* The spaces, the works and the days of a setup.
LEMMA SpaceFacts ==
  ASSUME NEW k \in DOMAIN Setups
  PROVE  /\ SpacesOf[k] = {Original} \cup Setups[k].jobs /\ IsFiniteSet(SpacesOf[k])
         /\ \A sp \in SpacesOf[k] : sp # Original => sp \in Setups[k].jobs
         /\ \A sp : /\ IsFiniteSet(WorksIn(k, sp)) /\ WorksIn(k, sp) \subseteq Nat
                    /\ \A w \in WorksIn(k, sp) : Setups[k].size[w] \in Nat
         /\ Horizon(k) \in Nat
  <1>1. SpacesOf[k] = {Original} \cup Setups[k].jobs
    BY DEF SpacesOf
  <1>2. IsFiniteSet(SpacesOf[k])
    BY <1>1, SetupFacts, FS_AddElement, FS_Union, FS_Singleton
  <1>3. IsFiniteSet(Setups[k].done)
    BY SetupFacts, FS_Subset
  <1>4. \A sp : /\ IsFiniteSet(WorksIn(k, sp)) /\ WorksIn(k, sp) \subseteq Setups[k].works
    BY <1>3, SetupFacts DEF WorksIn
  <1>5. \A w \in Setups[k].works : Setups[k].size[w] \in Nat
    BY SetupFacts
  <1>6. Horizon(k) \in Nat
    BY SetupFacts, ConstantFacts DEF Horizon
  <1> QED BY <1>1, <1>2, <1>4, <1>5, <1>6, SetupFacts

LEMMA DayFacts ==
  ASSUME NEW k \in DOMAIN Setups, NEW s \in Nat, NEW t \in Nat, s <= t
  PROVE  /\ DayIn(k, s) \in Nat /\ DayIn(k, t) \in Nat /\ DayIn(k, s) <= DayIn(k, t)
         /\ t <= Horizon(k) => DayIn(k, t) \in DaysIn(k)
  <1>1. Setups[k].dayLen \in Nat \ {0} /\ Horizon(k) \in Nat
    BY SetupFacts, SpaceFacts
  <1>2. DayIn(k, s) \in Nat /\ DayIn(k, t) \in Nat /\ DayIn(k, s) <= DayIn(k, t)
    BY <1>1, LaterDay DEF DayIn
  <1>3. t <= Horizon(k) => DayIn(k, t) <= DayIn(k, Horizon(k)) /\ DayIn(k, Horizon(k)) \in Nat
    BY <1>1, LaterDay DEF DayIn
  <1> QED BY <1>2, <1>3 DEF DaysIn

\* A grant is within the step, the limits and the file.
LEMMA GrantFacts ==
  ASSUME NEW left \in Nat, NEW available \in Nat
  PROVE  /\ Grant(left, available) \in Nat /\ Grant(left, available) <= left
         /\ Grant(left, available) <= available /\ Grant(left, available) <= StepLimit
  <1>1. PICK g \in Nat : /\ g = Least(Least(StepLimit, available), left)
                         /\ g <= left /\ g <= available /\ g <= StepLimit
    <2>1. Least(Least(StepLimit, available), left) \in Nat
      BY ConstantFacts DEF Least
    <2> QED BY <2>1, ConstantFacts DEF Least
  <1>2. PICK h \in Nat : h = g - (g % Quantum) /\ h <= g
    <2>1. /\ g = Quantum * (g \div Quantum) + (g % Quantum) /\ g % Quantum \in Nat
          /\ g \div Quantum \in Nat
      BY ConstantFacts
    <2>2. Quantum * (g \div Quantum) \in Nat
      BY <2>1, ConstantFacts
    <2> QED BY <2>1, <2>2
  <1>3. Grant(left, available) \in {g, h}
    BY <1>1, <1>2 DEF Grant
  <1> QED BY <1>1, <1>2, <1>3, ConstantFacts

-----------------------------------------------------------------------------
(* The sums of a namespace when one work changes. *)

\* A sum over a part of the works.
LEMMA PartSum ==
  ASSUME NEW W, IsFiniteSet(W), NEW work \in [W -> WorkRows], NEW S \in SUBSET W,
         NEW f \in Amounts
  PROVE  /\ RowSum(work, f, S) \in Nat
         /\ S = {} => RowSum(work, f, S) = 0
         /\ \A T \in SUBSET W : S \subseteq T => RowSum(work, f, S) <= RowSum(work, f, T)
  <1>1. ASSUME NEW T \in SUBSET W
        PROVE  [w \in T |-> work[w].attempt[f]] \in [T -> Nat] /\ IsFiniteSet(T)
    <2>1. \A w \in T : work[w].attempt \in AttemptRows
      BY DEF WorkRows
    <2>2. \A w \in T : work[w].attempt[f] \in Nat
      BY <2>1 DEF AttemptRows, Amounts
    <2> QED BY <2>2, FS_Subset
  <1>2. RowSum(work, f, S) \in Nat
    BY <1>1, SumTakeOut DEF RowSum
  <1>3. S = {} => RowSum(work, f, S) = 0
    <2>1. SumOver([w \in S |-> work[w].attempt[f]], {}) = 0
      BY <1>1, SumTakeOut
    <2> QED BY <2>1 DEF RowSum
  <1>4. ASSUME NEW T \in SUBSET W, S \subseteq T PROVE RowSum(work, f, S) <= RowSum(work, f, T)
    <2> DEFINE F == [w \in S |-> work[w].attempt[f]]
               G == [w \in T |-> work[w].attempt[f]]
    <2>1. F \in [S -> Nat] /\ G \in [T -> Nat] /\ IsFiniteSet(S) /\ IsFiniteSet(T)
      BY <1>1
    <2>2. \A x \in S : x \in T /\ F[x] <= G[x]
      BY <1>4, <2>1
    <2>3. S \in SUBSET S /\ T \in SUBSET T
      OBVIOUS
    <2> HIDE DEF F, G
    <2>4. SumOver(F, S) <= SumOver(G, T)
      BY <2>1, <2>2, <2>3, SumAtMost
    <2> QED BY <2>4 DEF RowSum, F, G
  <1> QED BY <1>2, <1>3, <1>4

\* The sum over a part of the works when w changes and may enter or leave it.
SumMoves(work, new, f, w, S, T) ==
  /\ RowSum(work, f, S) \in Nat /\ RowSum(new, f, T) \in Nat
  /\ RowSum(new, f, T) + (IF w \in S THEN work[w].attempt[f] ELSE 0)
       = RowSum(work, f, S) + (IF w \in T THEN new[w].attempt[f] ELSE 0)

LEMMA SumMove ==
  ASSUME NEW W, IsFiniteSet(W), NEW work \in [W -> WorkRows], NEW w \in W, NEW y \in WorkRows,
         NEW f \in Amounts, NEW S \in SUBSET W, NEW T \in SUBSET W,
         S \ {w} = T \ {w}, NEW new, new = [work EXCEPT ![w] = y]
  PROVE  SumMoves(work, new, f, w, S, T)
  <1> DEFINE F == [v \in S |-> work[v].attempt[f]]
             G == [v \in T |-> new[v].attempt[f]]
  <1>1. new \in [W -> WorkRows]
    OBVIOUS
  <1>2. \A v \in W : work[v].attempt[f] \in Nat /\ new[v].attempt[f] \in Nat
    <2>1. \A v \in W : work[v].attempt \in AttemptRows /\ new[v].attempt \in AttemptRows
      BY <1>1 DEF WorkRows
    <2> QED BY <2>1 DEF AttemptRows, Amounts
  <1>3. F \in [S -> Nat] /\ G \in [T -> Nat]
    BY <1>2
  <1>4. IsFiniteSet(S) /\ IsFiniteSet(T) /\ S \in SUBSET S /\ T \in SUBSET T
    BY FS_Subset
  <1>5. \A x \in S \ {w} : F[x] = G[x]
    OBVIOUS
  <1>6. (w \in S => F[w] = work[w].attempt[f]) /\ (w \in T => G[w] = new[w].attempt[f])
    OBVIOUS
  <1>7. RowSum(work, f, S) = SumOver(F, S) /\ RowSum(new, f, T) = SumOver(G, T)
    BY DEF RowSum
  <1> HIDE DEF F, G
  <1>8. SumChanges(F, G, w, S, T)
    BY <1>3, <1>4, <1>5, SumChange
  <1> QED BY <1>6, <1>7, <1>8 DEF SumMoves, SumChanges

\* The prefixes when the prefix of w changes.
OffMoves(W, work, new, w) ==
  /\ OffSum(W, work) \in Nat /\ OffSum(W, new) \in Nat
  /\ OffSum(W, new) + work[w].off = OffSum(W, work) + new[w].off

LEMMA OffMove ==
  ASSUME NEW W, IsFiniteSet(W), NEW work \in [W -> WorkRows], NEW w \in W, NEW y \in WorkRows,
         NEW new, new = [work EXCEPT ![w] = y]
  PROVE  OffMoves(W, work, new, w)
  <1> DEFINE F == [v \in W |-> work[v].off]
             G == [v \in W |-> new[v].off]
  <1>1. new \in [W -> WorkRows]
    OBVIOUS
  <1>2. F \in [W -> Nat] /\ G \in [W -> Nat] /\ W \in SUBSET W
    BY <1>1 DEF WorkRows
  <1>3. \A x \in W \ {w} : F[x] = G[x]
    OBVIOUS
  <1>6. F[w] = work[w].off /\ G[w] = new[w].off
    OBVIOUS
  <1>4. OffSum(W, work) = SumOver(F, W) /\ OffSum(W, new) = SumOver(G, W)
    BY DEF OffSum
  <1> HIDE DEF F, G
  <1>5. SumChanges(F, G, w, W, W)
    BY <1>2, <1>3, SumChange
  <1> QED BY <1>4, <1>5, <1>6 DEF OffMoves, SumChanges

\* How the sums over the works with these statuses move, in all and of day d.
Moved(W, work, w, y, f, statuses, d) ==
  LET new == [work EXCEPT ![w] = y]
      a == work[w].attempt
      z == y.attempt
      S == WithStatus(W, work, statuses)
      T == WithStatus(W, new, statuses)
  IN /\ RowSum(work, f, S) \in Nat /\ RowSum(new, f, T) \in Nat
     /\ RowSum(work, f, OnDay(S, work, d)) \in Nat /\ RowSum(new, f, OnDay(T, new, d)) \in Nat
     /\ RowSum(new, f, T) + (IF a.status \in statuses THEN a[f] ELSE 0)
          = RowSum(work, f, S) + (IF z.status \in statuses THEN z[f] ELSE 0)
     /\ RowSum(new, f, OnDay(T, new, d)) + (IF a.status \in statuses /\ a.day = d THEN a[f] ELSE 0)
          = RowSum(work, f, OnDay(S, work, d)) + (IF z.status \in statuses /\ z.day = d THEN z[f] ELSE 0)

LEMMA StatusMove ==
  ASSUME NEW W, IsFiniteSet(W), NEW work \in [W -> WorkRows], NEW w \in W, NEW y \in WorkRows,
         NEW f \in Amounts, NEW statuses, NEW d
  PROVE  Moved(W, work, w, y, f, statuses, d)
  <1> DEFINE new == [work EXCEPT ![w] = y]
             S == WithStatus(W, work, statuses)
             T == WithStatus(W, new, statuses)
             U == OnDay(S, work, d)
             V == OnDay(T, new, d)
  <1>1. S \in SUBSET W /\ T \in SUBSET W /\ U \in SUBSET W /\ V \in SUBSET W
    BY DEF WithStatus, OnDay
  <1>2. S \ {w} = T \ {w} /\ U \ {w} = V \ {w}
    BY DEF WithStatus, OnDay
  <1>3. /\ w \in S <=> work[w].attempt.status \in statuses
        /\ w \in T <=> y.attempt.status \in statuses
        /\ w \in U <=> work[w].attempt.status \in statuses /\ work[w].attempt.day = d
        /\ w \in V <=> y.attempt.status \in statuses /\ y.attempt.day = d
    BY DEF WithStatus, OnDay
  <1>0. new = [work EXCEPT ![w] = y]
    OBVIOUS
  <1> HIDE DEF S, T, U, V, new
  <1>4. SumMoves(work, new, f, w, S, T)
    BY <1>0, <1>1, <1>2, SumMove
  <1>5. SumMoves(work, new, f, w, U, V)
    BY <1>0, <1>1, <1>2, SumMove
  <1>6. new[w] = y
    BY <1>0
  <1> QED BY <1>3, <1>4, <1>5, <1>6, Zenon DEF Moved, SumMoves, S, T, U, V, new

-----------------------------------------------------------------------------
(* The rows of a namespace, one operation at a time. *)

\* The sums still fit when the counters grow by what the changed work adds.
LEMMA FitsMove ==
  ASSUME NEW W, IsFiniteSet(W), NEW work \in [W -> WorkRows], NEW w \in W, NEW y \in WorkRows,
         NEW f \in Amounts, NEW statuses, NEW d, NEW total \in Nat, NEW today \in Nat,
         NEW more \in Nat, NEW now \in Nat, NEW new, new = [work EXCEPT ![w] = y],
         Fits(W, work, d, f, statuses, total, today),
         y.attempt.status \in statuses =>
           /\ y.attempt[f] + total <= more + (IF work[w].attempt.status \in statuses THEN work[w].attempt[f] ELSE 0)
           /\ y.attempt.day = d =>
                y.attempt[f] + today <= now + (IF work[w].attempt.status \in statuses /\ work[w].attempt.day = d
                                               THEN work[w].attempt[f] ELSE 0),
         total <= more, today <= now
  PROVE  Fits(W, new, d, f, statuses, more, now)
  <1>1. Moved(W, work, w, y, f, statuses, d)
    BY StatusMove
  <1>2. work[w].attempt[f] \in Nat /\ y.attempt[f] \in Nat
    BY DEF WorkRows, AttemptRows, Amounts
  <1> DEFINE a == work[w].attempt
             z == y.attempt
             S == WithStatus(W, work, statuses)
             T == WithStatus(W, new, statuses)
  <1>3. /\ RowSum(work, f, S) \in Nat /\ RowSum(new, f, T) \in Nat
        /\ RowSum(new, f, T) + (IF a.status \in statuses THEN a[f] ELSE 0)
             = RowSum(work, f, S) + (IF z.status \in statuses THEN z[f] ELSE 0)
    BY <1>1, Zenon DEF Moved
  <1>4. /\ RowSum(work, f, OnDay(S, work, d)) \in Nat /\ RowSum(new, f, OnDay(T, new, d)) \in Nat
        /\ RowSum(new, f, OnDay(T, new, d)) + (IF a.status \in statuses /\ a.day = d THEN a[f] ELSE 0)
             = RowSum(work, f, OnDay(S, work, d)) + (IF z.status \in statuses /\ z.day = d THEN z[f] ELSE 0)
    BY <1>1, Zenon DEF Moved
  <1>5. RowSum(work, f, S) <= total /\ RowSum(work, f, OnDay(S, work, d)) <= today
    BY DEF Fits
  <1>6. /\ a[f] \in Nat /\ z[f] \in Nat
        /\ z.status \in statuses =>
             /\ z[f] + total <= more + (IF a.status \in statuses THEN a[f] ELSE 0)
             /\ z.day = d => z[f] + today <= now + (IF a.status \in statuses /\ a.day = d THEN a[f] ELSE 0)
    BY <1>2
  <1> HIDE DEF a, z, S, T
  <1>7. RowSum(new, f, T) <= more
    BY <1>3, <1>5, <1>6
  <1>8. RowSum(new, f, OnDay(T, new, d)) <= now
    BY <1>4, <1>5, <1>6
  <1> QED BY <1>7, <1>8 DEF Fits, T

\* On a later day than all attempts nothing was used yet.
LEMMA FitsRolled ==
  ASSUME NEW W, IsFiniteSet(W), NEW work \in [W -> WorkRows], NEW f \in Amounts, NEW statuses,
         NEW d, NEW day, NEW total \in Nat, NEW today, Fits(W, work, d, f, statuses, total, today),
         \A w \in W : work[w].attempt.day # day
  PROVE  Fits(W, work, day, f, statuses, total, 0)
  <1> DEFINE S == WithStatus(W, work, statuses)
  <1>1. OnDay(S, work, day) = {} /\ OnDay(S, work, day) \in SUBSET W
    BY DEF OnDay, WithStatus
  <1>2. RowSum(work, f, OnDay(S, work, day)) = 0
    BY <1>1, PartSum
  <1>3. RowSum(work, f, S) <= total
    BY DEF Fits
  <1> QED BY <1>2, <1>3 DEF Fits

\* Another consent that fits the same budget.
LEMMA RowConsent ==
  ASSUME NEW k, NEW sp, NEW x, NEW c, RowOK(k, sp, x), ConsentOK(k, sp, c, x.budget)
  PROVE  RowOK(k, sp, [x EXCEPT !.consent = c])
  <1> DEFINE y == [x EXCEPT !.consent = c]
  <1>1. DOMAIN x = {"budget", "consent", "work", "queue"}
    BY DEF RowOK
  <1>2. DOMAIN y = DOMAIN x /\ y.budget = x.budget /\ y.consent = c /\ y.work = x.work
    BY <1>1
  <1> HIDE DEF y
  <1>3. RowOK(k, sp, y)
    BY <1>1, <1>2 DEF RowOK
  <1> QED BY <1>3 DEF y

\* A row after a change of the budget, the consent and one work.
RowChanged(x, y, b, c, w, v) ==
  /\ DOMAIN y = DOMAIN x
  /\ y.budget = b /\ y.consent = c /\ y.work = [x.work EXCEPT ![w] = v]

\* The parts of RowOK, put together.
LEMMA RowMade ==
  ASSUME NEW k, NEW sp, NEW x, NEW y, NEW b, NEW c, NEW w, NEW v,
         w \in WorksIn(k, sp), v \in WorkRows,
         RowOK(k, sp, x), RowChanged(x, y, b, c, w, v),
         BudgetOK(k, b), ConsentOK(k, sp, c, b), x.budget.day <= b.day,
         x.budget.day \in Nat, b.day \in Nat,
         WorkOK(Setups[k].size[w], sp, b.day, v),
         SumsOK(WorksIn(k, sp), b, [x.work EXCEPT ![w] = v]),
         OpenOK(WorksIn(k, sp), b, [x.work EXCEPT ![w] = v])
  PROVE  RowOK(k, sp, y)
  <1> DEFINE new == [x.work EXCEPT ![w] = v]
  <1>1. new \in [WorksIn(k, sp) -> WorkRows]
    BY DEF RowOK
  <1>2. ASSUME NEW u \in WorksIn(k, sp) PROVE WorkOK(Setups[k].size[u], sp, b.day, new[u])
    <2>1. CASE u = w
      BY <2>1 DEF RowOK
    <2>2. CASE u # w
      <3>1. new[u] = x.work[u] /\ x.work[u] \in WorkRows
        BY <2>2 DEF RowOK
      <3>2. WorkOK(Setups[k].size[u], sp, x.budget.day, x.work[u])
        BY DEF RowOK
      <3>3. x.work[u].attempt.day \in Nat
        BY <3>1 DEF WorkRows, AttemptRows
      <3>4. x.work[u].attempt.day <= b.day
        BY <3>2, <3>3 DEF WorkOK
      <3> QED BY <3>1, <3>2, <3>4 DEF WorkOK
    <2> QED BY <2>1, <2>2
  <1> QED BY <1>1, <1>2 DEF RowOK, RowChanged

\* The rows of a namespace and their types.
LEMMA RowFields ==
  ASSUME NEW k \in DOMAIN Setups, NEW sp, NEW x, RowOK(k, sp, x)
  PROVE  /\ x.budget \in Budgets /\ x.consent \in Consents
         /\ x.work \in [WorksIn(k, sp) -> WorkRows] /\ IsFiniteSet(WorksIn(k, sp))
         /\ \A w \in WorksIn(k, sp) :
              /\ x.work[w] \in WorkRows /\ x.work[w].attempt \in AttemptRows
              /\ x.work[w].off \in Nat /\ Setups[k].size[w] \in Nat
  BY SpaceFacts DEF RowOK, BudgetOK, ConsentOK, WorkRows

\* A work whose amounts stay leaves the sums alone.
LEMMA SumsSame ==
  ASSUME NEW W, IsFiniteSet(W), NEW b \in Budgets, NEW work \in [W -> WorkRows], NEW w \in W,
         NEW y \in WorkRows, y.attempt = work[w].attempt, y.off = work[w].off,
         SumsOK(W, b, work)
  PROVE  SumsOK(W, b, [work EXCEPT ![w] = y])
  <1> DEFINE new == [work EXCEPT ![w] = y]
  <1>0. new = [work EXCEPT ![w] = y]
    OBVIOUS
  <1> HIDE DEF new
  <1>1. /\ b.tres \in Nat /\ b.treq \in Nat /\ b.tread \in Nat /\ b.tunk \in Nat
        /\ b.res \in Nat /\ b.req \in Nat /\ b.read \in Nat /\ b.unk \in Nat
    BY DEF Budgets
  <1>2. ASSUME NEW f \in Amounts, NEW statuses, NEW total \in Nat, NEW today \in Nat,
               Fits(W, work, b.day, f, statuses, total, today)
        PROVE  Fits(W, new, b.day, f, statuses, total, today)
    <2>1. work[w].attempt[f] \in Nat
      BY DEF WorkRows, AttemptRows, Amounts
    <2>2. y.attempt[f] + total <= total + work[w].attempt[f] /\ total <= total
      BY <2>1
    <2>3. y.attempt[f] + today <= today + work[w].attempt[f] /\ today <= today
      BY <2>1
    <2> QED BY <1>0, <1>2, <2>2, <2>3, FitsMove
  <1>3. "grant" \in Amounts /\ "req" \in Amounts /\ "read" \in Amounts
    BY DEF Amounts
  <1>4. OffSum(W, new) <= b.tread
    <2>1. OffMoves(W, work, new, w)
      BY <1>0, OffMove
    <2>2. work[w].off \in Nat /\ OffSum(W, work) <= b.tread /\ new[w].off = work[w].off
      BY <1>0 DEF WorkRows, SumsOK
    <2> QED BY <1>1, <2>1, <2>2 DEF OffMoves
  <1>5. SumsOK(W, b, new)
    BY <1>1, <1>2, <1>3, <1>4 DEF SumsOK
  <1> QED BY <1>0, <1>5

\* invalidateHashWork.
LEMMA RowInvalidated ==
  ASSUME NEW k \in DOMAIN Setups, NEW x, NEW y, RowOK(k, Original, x),
         NEW w \in WorksIn(k, Original), x.work[w].status = "pending",
         RowChanged(x, y, x.budget, x.consent, w, [x.work[w] EXCEPT !.status = "invalidated"])
  PROVE  RowOK(k, Original, y)
  <1> DEFINE v == [x.work[w] EXCEPT !.status = "invalidated"]
             W == WorksIn(k, Original)
  <1>1. /\ x.work[w] \in WorkRows /\ x.budget \in Budgets /\ IsFiniteSet(W)
        /\ x.work \in [W -> WorkRows]
    BY RowFields
  <1>2. /\ v \in WorkRows /\ v.status = "invalidated" /\ v.attempt = x.work[w].attempt
        /\ v.off = x.work[w].off
    BY <1>1 DEF WorkRows
  <1> HIDE DEF v
  <1>3. WorkOK(Setups[k].size[w], Original, x.budget.day, x.work[w])
    BY DEF RowOK
  <1>4. WorkOK(Setups[k].size[w], Original, x.budget.day, v)
    BY <1>2, <1>3 DEF WorkOK
  <1>5. SumsOK(W, x.budget, [x.work EXCEPT ![w] = v])
    BY <1>1, <1>2, SumsSame DEF RowOK
  <1>6. OpenOK(W, x.budget, [x.work EXCEPT ![w] = v])
    <2>1. OpenOK(W, x.budget, x.work)
      BY DEF RowOK
    <2> QED BY <1>1, <1>2, <2>1 DEF OpenOK
  <1>7. RowChanged(x, y, x.budget, x.consent, w, v)
    BY DEF v
  <1>8. x.budget.day \in Nat /\ x.budget.day <= x.budget.day
    BY <1>1 DEF Budgets
  <1>9. BudgetOK(k, x.budget) /\ ConsentOK(k, Original, x.consent, x.budget)
    BY DEF RowOK
  <1> QED BY <1>2, <1>4, <1>5, <1>6, <1>7, <1>8, <1>9, RowMade

-----------------------------------------------------------------------------
\* recoverHashWork, recoverFreshProgress: the open grant becomes unknown.
LEMMA RowRecovered ==
  ASSUME NEW k \in DOMAIN Setups, NEW sp, NEW x, NEW y, RowOK(k, sp, x),
         NEW w \in WorksIn(k, sp), x.work[w].status = "running",
         RowChanged(x, y, RecoveredBudget(x.budget, x.work[w].attempt), x.consent, w,
                    [x.work[w] EXCEPT !.status = "pending", !.attempt.status = "interrupted_unknown"])
  PROVE  RowOK(k, sp, y)
  <1> DEFINE a == x.work[w].attempt
             b == x.budget
             c == RecoveredBudget(x.budget, x.work[w].attempt)
             v == [x.work[w] EXCEPT !.status = "pending", !.attempt.status = "interrupted_unknown"]
             W == WorksIn(k, sp)
             size == Setups[k].size[w]
  <1>1. /\ x.work[w] \in WorkRows /\ b \in Budgets /\ IsFiniteSet(W)
        /\ x.work \in [W -> WorkRows] /\ a \in AttemptRows
    BY RowFields
  <1>2. /\ v \in WorkRows /\ v.status = "pending" /\ v.off = x.work[w].off
        /\ v.attempt = [a EXCEPT !.status = "interrupted_unknown"]
    BY <1>1 DEF WorkRows, AttemptRows, Statuses
  <1>3. /\ v.attempt \in AttemptRows /\ v.attempt.status = "interrupted_unknown"
        /\ v.attempt.grant = a.grant /\ v.attempt.from = a.from
        /\ v.attempt.day = a.day
    BY <1>1, <1>2 DEF AttemptRows, Statuses
  <1>4. /\ c \in Budgets /\ c.set = b.set /\ c.day = b.day /\ c.max = b.max
        /\ c.res = b.res /\ c.req = b.req /\ c.read = b.read
        /\ c.tres = b.tres /\ c.treq = b.treq /\ c.tread = b.tread
        /\ c.tunk = b.tunk + a.grant
        /\ c.unk = IF b.day = a.day THEN b.unk + a.grant ELSE b.unk
    <2>1. a.grant \in Nat /\ b.tunk \in Nat /\ b.unk \in Nat
      BY <1>1 DEF Budgets, AttemptRows
    <2>2. PICK t \in Nat : t = b.tunk + a.grant
      BY <2>1
    <2>3. PICK u \in Nat : u = IF b.day = a.day THEN b.unk + a.grant ELSE b.unk
      BY <2>1
    <2>4. c = [b EXCEPT !.tunk = t, !.unk = u]
      BY <2>2, <2>3 DEF RecoveredBudget
    <2> HIDE DEF c, b, a
    <2> QED BY <1>1, <2>2, <2>3, <2>4 DEF Budgets
  <1>5. /\ a.grant \in Nat /\ a.day \in Nat /\ b.day \in Nat /\ b.res \in Nat /\ b.req \in Nat
        /\ b.unk \in Nat /\ b.tres \in Nat /\ b.treq \in Nat /\ b.tunk \in Nat
        /\ b.tread \in Nat /\ b.read \in Nat /\ a.status \in Statuses
    BY <1>1 DEF Budgets, AttemptRows
  <1>6. OpenOK(W, b, x.work) /\ BudgetOK(k, b) /\ ConsentOK(k, sp, x.consent, b)
    BY DEF RowOK
  <1>7. /\ b.set /\ b.treq + b.tunk + a.grant <= b.tres
        /\ a.day = b.day => b.req + b.unk + a.grant <= b.res
        /\ \A u \in W : x.work[u].status = "running" => u = w
    BY <1>6 DEF OpenOK
  <1>8. WorkOK(size, sp, b.day, x.work[w])
    BY DEF RowOK
  <1>9. a.status = "reserved" /\ a.from = x.work[w].off
    BY <1>8 DEF WorkOK
  <1> HIDE DEF a, b, c, v
  <1>10. BudgetOK(k, c)
    BY <1>4, <1>5, <1>6, <1>7 DEF BudgetOK
  <1>11. ConsentOK(k, sp, x.consent, c)
    BY <1>4, <1>6 DEF ConsentOK
  <1>12. WorkOK(size, sp, c.day, v)
    <2>1. /\ x.work[w].off <= size /\ a.day <= b.day /\ a.from <= x.work[w].off
          /\ a.grant <= StepLimit /\ a.from + a.grant <= size
      BY <1>8, <1>9 DEF WorkOK, a
    <2>2. x.work[w].off % Quantum = 0
      BY <1>8 DEF WorkOK
    <2> QED BY <1>2, <1>3, <1>4, <1>9, <2>1, <2>2 DEF WorkOK
  <1>13. SumsOK(W, c, [x.work EXCEPT ![w] = v])
    <2> DEFINE new == [x.work EXCEPT ![w] = v]
    <2>0. new = [x.work EXCEPT ![w] = v] /\ SumsOK(W, b, x.work) /\ x.work[w].attempt = a
      BY DEF RowOK, a, b
    <2> HIDE DEF new
    <2>1. Fits(W, new, b.day, "grant", Statuses, c.tres, c.res)
      <3>1. Fits(W, x.work, b.day, "grant", Statuses, b.tres, b.res)
        BY <2>0 DEF SumsOK
      <3>2. "grant" \in Amounts
        BY DEF Amounts
      <3>3. v.attempt["grant"] + b.tres <= c.tres + a["grant"] /\ b.tres <= c.tres
        BY <1>3, <1>4, <1>5
      <3>4. v.attempt["grant"] + b.res <= c.res + a["grant"] /\ b.res <= c.res
        BY <1>3, <1>4, <1>5
      <3>5. c.tres \in Nat /\ c.res \in Nat
        BY <1>4, <1>5
      <3> QED BY <1>1, <1>2, <1>3, <1>5, <2>0, <3>1, <3>2, <3>3, <3>4, <3>5, FitsMove
    <2>2. Fits(W, new, b.day, "req", {"settled"}, c.treq, c.req)
      <3>1. Fits(W, x.work, b.day, "req", {"settled"}, b.treq, b.req)
        BY <2>0 DEF SumsOK
      <3>2. "req" \in Amounts /\ v.attempt.status \notin {"settled"}
        BY <1>3 DEF Amounts
      <3>3. b.treq <= c.treq /\ b.req <= c.req /\ c.treq \in Nat /\ c.req \in Nat
        BY <1>4, <1>5
      <3> QED BY <1>1, <1>2, <1>5, <2>0, <3>1, <3>2, <3>3, FitsMove
    <2>3. Fits(W, new, b.day, "read", {"settled"}, c.tread, c.read)
      <3>1. Fits(W, x.work, b.day, "read", {"settled"}, b.tread, b.read)
        BY <2>0 DEF SumsOK
      <3>2. "read" \in Amounts /\ v.attempt.status \notin {"settled"}
        BY <1>3 DEF Amounts
      <3>3. b.tread <= c.tread /\ b.read <= c.read /\ c.tread \in Nat /\ c.read \in Nat
        BY <1>4, <1>5
      <3> QED BY <1>1, <1>2, <1>5, <2>0, <3>1, <3>2, <3>3, FitsMove
    <2>4. Fits(W, new, b.day, "grant", {"interrupted_unknown"}, c.tunk, c.unk)
      <3>1. Fits(W, x.work, b.day, "grant", {"interrupted_unknown"}, b.tunk, b.unk)
        BY <2>0 DEF SumsOK
      <3>2. "grant" \in Amounts /\ a.status \notin {"interrupted_unknown"}
        BY <1>9 DEF Amounts
      <3>3. v.attempt["grant"] + b.tunk <= c.tunk + 0 /\ b.tunk <= c.tunk
        BY <1>3, <1>4, <1>5
      <3>4. (v.attempt.day = b.day => v.attempt["grant"] + b.unk <= c.unk + 0) /\ b.unk <= c.unk
        BY <1>3, <1>4, <1>5
      <3>5. c.tunk \in Nat /\ c.unk \in Nat
        BY <1>4, <1>5
      <3> QED BY <1>1, <1>2, <1>5, <2>0, <3>1, <3>2, <3>3, <3>4, <3>5, FitsMove
    <2>5. OffSum(W, new) <= c.tread
      <3>1. OffMoves(W, x.work, new, w)
        BY <1>1, <1>2, <2>0, OffMove
      <3>2. x.work[w].off \in Nat /\ OffSum(W, x.work) <= b.tread /\ new[w] = v
        BY <1>1, <2>0 DEF WorkRows, SumsOK
      <3> QED BY <1>2, <1>4, <1>5, <3>1, <3>2 DEF OffMoves
    <2>6. SumsOK(W, c, new)
      BY <1>4, <2>1, <2>2, <2>3, <2>4, <2>5 DEF SumsOK
    <2> QED BY <2>0, <2>6
  <1>14. OpenOK(W, c, [x.work EXCEPT ![w] = v])
    BY <1>1, <1>2, <1>7 DEF OpenOK
  <1>15. RowChanged(x, y, c, x.consent, w, v)
    BY DEF c, v
  <1>16. x.budget.day <= c.day /\ x.budget.day \in Nat /\ c.day \in Nat
    BY <1>4, <1>5 DEF b
  <1> QED BY <1>2, <1>10, <1>11, <1>12, <1>13, <1>14, <1>15, <1>16, RowMade

\* The budget c is b as a reservation at now sees it: the same day goes on, or
\* a later one starts.
RolledTo(k, b, c, now) ==
  /\ BudgetOK(k, c) /\ c.set /\ c.max = now /\ b.max <= now /\ b.day <= c.day
  /\ c.tres = b.tres /\ c.treq = b.treq /\ c.tread = b.tread /\ c.tunk = b.tunk
  /\ \/ c.day = b.day /\ c.res = b.res /\ c.req = b.req /\ c.read = b.read /\ c.unk = b.unk
     \/ b.day < c.day /\ c.res = 0 /\ c.req = 0 /\ c.read = 0 /\ c.unk = 0

LEMMA RolledIs ==
  ASSUME setup \in DOMAIN Setups, NEW b, BudgetOK(setup, b), NEW now \in Nat,
         b.max <= now, now <= Horizon(setup)
  PROVE  RolledTo(setup, b, BudgetAt(b, now), now)
  <1> DEFINE c == BudgetAt(b, now)
             day == DayIn(setup, now)
  <1>1. b \in Budgets
    BY DEF BudgetOK
  <1>2. b.max \in Nat /\ b.day \in Nat /\ b.day = DayIn(setup, b.max)
    BY <1>1 DEF BudgetOK, Budgets
  <1>3. day \in Nat /\ b.day <= day
    BY <1>2, DayFacts
  <1>4. DayOf(now) = day
    BY DEF DayOf, DayLen, DayIn
  <1> HIDE DEF day
  <1>5. CASE ~b.set
    <2>1. b = NoBudget /\ c = [NoBudget EXCEPT !.set = TRUE, !.day = day, !.max = now]
      BY <1>4, <1>5 DEF BudgetOK, BudgetAt
    <2> HIDE DEF c
    <2>2. /\ c \in Budgets /\ c.set /\ c.day = day /\ c.max = now
          /\ c.res = 0 /\ c.req = 0 /\ c.read = 0 /\ c.unk = 0
          /\ c.tres = 0 /\ c.treq = 0 /\ c.tread = 0 /\ c.tunk = 0
      BY <1>3, <2>1 DEF NoBudget, Budgets
    <2>3. /\ b.res = 0 /\ b.req = 0 /\ b.read = 0 /\ b.unk = 0 /\ b.day = 0
          /\ b.tres = 0 /\ b.treq = 0 /\ b.tread = 0 /\ b.tunk = 0
      BY <2>1 DEF NoBudget
    <2>4. BudgetOK(setup, c)
      BY <2>2 DEF BudgetOK, day
    <2>5. RolledTo(setup, b, c, now)
      BY <1>3, <2>2, <2>3, <2>4 DEF RolledTo
    <2> QED BY <2>5 DEF c
  <1>6. CASE b.set /\ day > b.day
    <2>1. c = [b EXCEPT !.day = day, !.max = now, !.res = 0, !.req = 0, !.read = 0, !.unk = 0]
      BY <1>4, <1>6 DEF BudgetAt
    <2> HIDE DEF c
    <2>2. /\ c \in Budgets /\ c.set /\ c.day = day /\ c.max = now
          /\ c.res = 0 /\ c.req = 0 /\ c.read = 0 /\ c.unk = 0
          /\ c.tres = b.tres /\ c.treq = b.treq /\ c.tread = b.tread /\ c.tunk = b.tunk
      BY <1>1, <1>3, <1>6, <2>1 DEF Budgets
    <2>3. /\ b.tread <= b.treq /\ b.treq + b.tunk <= b.tres /\ b.tread \in Nat /\ b.treq \in Nat
          /\ b.tunk \in Nat /\ b.tres \in Nat
      BY <1>1 DEF BudgetOK, Budgets
    <2>4. BudgetOK(setup, c)
      BY <2>2, <2>3 DEF BudgetOK, day
    <2>5. RolledTo(setup, b, c, now)
      BY <1>2, <1>3, <1>6, <2>2, <2>4 DEF RolledTo
    <2> QED BY <2>5 DEF c
  <1>7. CASE b.set /\ ~(day > b.day)
    <2>1. c = [b EXCEPT !.max = now]
      BY <1>4, <1>7 DEF BudgetAt
    <2> HIDE DEF c
    <2>2. /\ c \in Budgets /\ c.set /\ c.day = b.day /\ c.max = now
          /\ c.res = b.res /\ c.req = b.req /\ c.read = b.read /\ c.unk = b.unk
          /\ c.tres = b.tres /\ c.treq = b.treq /\ c.tread = b.tread /\ c.tunk = b.tunk
      BY <1>1, <1>7, <2>1 DEF Budgets
    <2>3. b.day = day
      BY <1>2, <1>3, <1>7
    <2>4. BudgetOK(setup, c)
      BY <2>2, <2>3 DEF BudgetOK, day
    <2>5. RolledTo(setup, b, c, now)
      BY <1>2, <2>2, <2>4 DEF RolledTo
    <2> QED BY <2>5 DEF c
  <1> QED BY <1>5, <1>6, <1>7

\* A reservation's view of the budget leaves the sums in it.
LEMMA SumsRolled ==
  ASSUME NEW k \in DOMAIN Setups, NEW sp, NEW x, RowOK(k, sp, x), NEW c, NEW now,
         RolledTo(k, x.budget, c, now)
  PROVE  SumsOK(WorksIn(k, sp), c, x.work)
  <1> DEFINE b == x.budget
             W == WorksIn(k, sp)
             work == x.work
  <1>1. /\ IsFiniteSet(W) /\ work \in [W -> WorkRows] /\ b \in Budgets
        /\ SumsOK(W, b, work) /\ c \in Budgets
    BY RowFields DEF RowOK, RolledTo, BudgetOK
  <1>2. /\ b.tres \in Nat /\ b.treq \in Nat /\ b.tread \in Nat /\ b.tunk \in Nat
        /\ b.day \in Nat /\ c.day \in Nat
    BY <1>1 DEF Budgets
  <1>3. ASSUME NEW w \in W PROVE work[w].attempt.day <= b.day /\ work[w].attempt.day \in Nat
    <2>1. WorkOK(Setups[k].size[w], sp, b.day, work[w]) /\ work[w].attempt \in AttemptRows
      BY RowFields DEF RowOK
    <2> QED BY <2>1 DEF WorkOK, AttemptRows
  <1>4. CASE c.day = b.day /\ c.res = b.res /\ c.req = b.req /\ c.read = b.read /\ c.unk = b.unk
    BY <1>1, <1>4 DEF SumsOK, RolledTo
  <1>5. CASE b.day < c.day /\ c.res = 0 /\ c.req = 0 /\ c.read = 0 /\ c.unk = 0
    <2>1. \A w \in W : work[w].attempt.day # c.day
      BY <1>2, <1>3, <1>5
    <2>2. "grant" \in Amounts /\ "req" \in Amounts /\ "read" \in Amounts
      BY DEF Amounts
    <2> HIDE DEF b, W, work
    <2>3. Fits(W, work, c.day, "grant", Statuses, b.tres, 0)
      BY <1>1, <1>2, <2>1, <2>2, FitsRolled DEF SumsOK
    <2>4. Fits(W, work, c.day, "req", {"settled"}, b.treq, 0)
      BY <1>1, <1>2, <2>1, <2>2, FitsRolled DEF SumsOK
    <2>5. Fits(W, work, c.day, "read", {"settled"}, b.tread, 0)
      BY <1>1, <1>2, <2>1, <2>2, FitsRolled DEF SumsOK
    <2>6. Fits(W, work, c.day, "grant", {"interrupted_unknown"}, b.tunk, 0)
      BY <1>1, <1>2, <2>1, <2>2, FitsRolled DEF SumsOK
    <2>7. OffSum(W, work) <= b.tread
      BY <1>1 DEF SumsOK
    <2>8. c.tres = b.tres /\ c.treq = b.treq /\ c.tread = b.tread /\ c.tunk = b.tunk
      BY DEF RolledTo, b
    <2>9. SumsOK(W, c, work)
      BY <1>5, <2>3, <2>4, <2>5, <2>6, <2>7, <2>8 DEF SumsOK
    <2> QED BY <2>9 DEF W, work
  <1> QED BY <1>4, <1>5 DEF RolledTo

\* The attempt that a reservation starts.
Reservation(row, grant, day) ==
  [row EXCEPT !.status = "running",
              !.attempt = [NoAttempt EXCEPT !.status = "reserved", !.from = row.off,
                                            !.grant = grant, !.day = day]]
ChargedBudget(b, grant) == [b EXCEPT !.res = @ + grant, !.tres = @ + grant]

IsReservation(v, row, grant, day) ==
  /\ v \in WorkRows /\ v.status = "running" /\ v.off = row.off
  /\ v.attempt \in AttemptRows /\ v.attempt.status = "reserved"
  /\ v.attempt.from = row.off /\ v.attempt.grant = grant /\ v.attempt.day = day

LEMMA ReservationFields ==
  ASSUME NEW row \in WorkRows, NEW grant \in Nat, NEW day \in Nat,
         NEW v, v = Reservation(row, grant, day)
  PROVE  IsReservation(v, row, grant, day)
  <1> DEFINE a == [NoAttempt EXCEPT !.status = "reserved", !.from = row.off,
                                    !.grant = grant, !.day = day]
  <1>1. row.off \in Nat
    BY DEF WorkRows
  <1>2. /\ a \in AttemptRows /\ a.status = "reserved" /\ a.from = row.off /\ a.grant = grant
        /\ a.day = day
    BY <1>1 DEF NoAttempt, AttemptRows, Statuses
  <1>3. Reservation(row, grant, day) = [row EXCEPT !.status = "running", !.attempt = a]
    BY DEF Reservation
  <1> HIDE DEF a
  <1> QED BY <1>1, <1>2, <1>3 DEF WorkRows, IsReservation

LEMMA ChargedFields ==
  ASSUME NEW b \in Budgets, NEW grant \in Nat
  PROVE  LET c == ChargedBudget(b, grant)
         IN /\ c \in Budgets /\ c.set = b.set /\ c.day = b.day /\ c.max = b.max
            /\ c.req = b.req /\ c.read = b.read /\ c.unk = b.unk
            /\ c.treq = b.treq /\ c.tread = b.tread /\ c.tunk = b.tunk
            /\ c.res = b.res + grant /\ c.tres = b.tres + grant
  <1>1. PICK r \in Nat, t \in Nat : r = b.res + grant /\ t = b.tres + grant
    BY DEF Budgets
  <1>2. ChargedBudget(b, grant) = [b EXCEPT !.res = r, !.tres = t]
    BY <1>1 DEF ChargedBudget
  <1> QED BY <1>1, <1>2 DEF Budgets

\* The budget of a reservation is a budget.
LEMMA ChargedOK ==
  ASSUME NEW k, NEW b, BudgetOK(k, b), b.set, NEW grant \in Nat
  PROVE  BudgetOK(k, ChargedBudget(b, grant))
  <1> DEFINE c == ChargedBudget(b, grant)
  <1>1. b \in Budgets
    BY DEF BudgetOK
  <1>2. /\ c \in Budgets /\ c.set = b.set /\ c.day = b.day /\ c.max = b.max
        /\ c.req = b.req /\ c.read = b.read /\ c.unk = b.unk
        /\ c.treq = b.treq /\ c.tread = b.tread /\ c.tunk = b.tunk
        /\ c.res = b.res + grant /\ c.tres = b.tres + grant
    BY <1>1, ChargedFields
  <1>3. /\ b.res \in Nat /\ b.req \in Nat /\ b.read \in Nat /\ b.unk \in Nat
        /\ b.tres \in Nat /\ b.treq \in Nat /\ b.tread \in Nat /\ b.tunk \in Nat
    BY <1>1 DEF Budgets
  <1> HIDE DEF c
  <1>4. BudgetOK(k, c)
    BY <1>2, <1>3 DEF BudgetOK
  <1> QED BY <1>4 DEF c

\* reserveHashAttempt, reserveFreshHashAttempt: the charge and the open attempt.
LEMMA RowReserved ==
  ASSUME NEW k \in DOMAIN Setups, NEW sp, NEW x, NEW y, RowOK(k, sp, x),
         NEW w \in WorksIn(k, sp), x.work[w].status = "pending",
         \A u \in WorksIn(k, sp) : x.work[u].status # "running",
         NEW b, NEW now, RolledTo(k, x.budget, b, now), NEW grant \in Nat, NEW c,
         grant <= StepLimit, x.work[w].off + grant <= Setups[k].size[w],
         ConsentOK(k, sp, c, ChargedBudget(b, grant)),
         RowChanged(x, y, ChargedBudget(b, grant), c, w, Reservation(x.work[w], grant, b.day))
  PROVE  RowOK(k, sp, y)
  <1> DEFINE a == x.work[w].attempt
             e == ChargedBudget(b, grant)
             v == Reservation(x.work[w], grant, b.day)
             W == WorksIn(k, sp)
             size == Setups[k].size[w]
  <1>1. /\ x.work[w] \in WorkRows /\ b \in Budgets /\ IsFiniteSet(W)
        /\ x.work \in [W -> WorkRows] /\ a \in AttemptRows
        /\ BudgetOK(k, b) /\ b.set /\ x.budget \in Budgets
    BY RowFields DEF RolledTo, BudgetOK
  <1>2. /\ b.day \in Nat /\ b.res \in Nat /\ b.req \in Nat
        /\ b.unk \in Nat /\ b.tres \in Nat /\ b.treq \in Nat /\ b.tunk \in Nat
        /\ b.tread \in Nat /\ b.read \in Nat
    BY <1>1 DEF Budgets
  <1>3. /\ v \in WorkRows /\ v.status = "running" /\ v.off = x.work[w].off
        /\ v.attempt \in AttemptRows /\ v.attempt.status = "reserved"
        /\ v.attempt.from = x.work[w].off /\ v.attempt.grant = grant /\ v.attempt.day = b.day
    <2>1. v = Reservation(x.work[w], grant, b.day)
      OBVIOUS
    <2> HIDE DEF v
    <2>2. IsReservation(v, x.work[w], grant, b.day)
      BY <1>1, <1>2, <2>1, ReservationFields
    <2> QED BY <2>2 DEF IsReservation
  <1>4. /\ e \in Budgets /\ e.set = b.set /\ e.day = b.day /\ e.max = b.max
        /\ e.req = b.req /\ e.read = b.read /\ e.unk = b.unk
        /\ e.treq = b.treq /\ e.tread = b.tread /\ e.tunk = b.tunk
        /\ e.res = b.res + grant /\ e.tres = b.tres + grant
    BY <1>1, ChargedFields
  <1>5. BudgetOK(k, e)
    BY <1>1, ChargedOK
  <1>6. WorkOK(size, sp, x.budget.day, x.work[w])
    BY DEF RowOK
  <1> HIDE DEF a, e, v
  <1>7. WorkOK(size, sp, e.day, v)
    <2>1. x.work[w].off <= size /\ x.work[w].off % Quantum = 0 /\ x.work[w].off \in Nat
      BY <1>1, <1>6 DEF WorkOK, WorkRows
    <2>2. b.day <= b.day /\ x.work[w].off <= x.work[w].off
      BY <1>2, <2>1
    <2> QED BY <1>3, <1>4, <2>1, <2>2 DEF WorkOK
  <1>8. SumsOK(W, e, [x.work EXCEPT ![w] = v])
    <2> DEFINE new == [x.work EXCEPT ![w] = v]
    <2>0. new = [x.work EXCEPT ![w] = v] /\ x.work[w].attempt = a
      BY DEF a
    <2>00. SumsOK(W, b, x.work)
      BY SumsRolled
    <2> HIDE DEF new
    <2>1. Fits(W, new, b.day, "grant", Statuses, e.tres, e.res)
      <3>1. Fits(W, x.work, b.day, "grant", Statuses, b.tres, b.res)
        BY <2>00 DEF SumsOK
      <3>2. "grant" \in Amounts /\ a["grant"] \in Nat
        BY <1>1 DEF Amounts, AttemptRows
      <3>3. /\ v.attempt["grant"] + b.tres
                 <= e.tres + (IF a.status \in Statuses THEN a["grant"] ELSE 0)
            /\ b.tres <= e.tres
        BY <1>2, <1>3, <1>4, <3>2
      <3>4. /\ v.attempt["grant"] + b.res
                 <= e.res + (IF a.status \in Statuses /\ a.day = b.day THEN a["grant"] ELSE 0)
            /\ b.res <= e.res
        BY <1>2, <1>3, <1>4, <3>2
      <3>5. e.tres \in Nat /\ e.res \in Nat
        BY <1>2, <1>4
      <3>6. /\ IsFiniteSet(W) /\ x.work \in [W -> WorkRows] /\ w \in W /\ v \in WorkRows
            /\ b.tres \in Nat /\ b.res \in Nat
        BY <1>1, <1>2, <1>3
      <3>7. v.attempt.status \in Statuses =>
              /\ v.attempt["grant"] + b.tres
                   <= e.tres + (IF x.work[w].attempt.status \in Statuses
                                THEN x.work[w].attempt["grant"] ELSE 0)
              /\ v.attempt.day = b.day =>
                   v.attempt["grant"] + b.res
                     <= e.res + (IF x.work[w].attempt.status \in Statuses
                                    /\ x.work[w].attempt.day = b.day
                                 THEN x.work[w].attempt["grant"] ELSE 0)
        BY <2>0, <3>3, <3>4
      <3> QED BY <2>0, <3>1, <3>2, <3>3, <3>4, <3>5, <3>6, <3>7, FitsMove
    <2>2. Fits(W, new, b.day, "req", {"settled"}, e.treq, e.req)
      <3>1. Fits(W, x.work, b.day, "req", {"settled"}, b.treq, b.req)
        BY <2>00 DEF SumsOK
      <3>2. "req" \in Amounts /\ v.attempt.status \notin {"settled"}
        BY <1>3 DEF Amounts
      <3>3. b.treq <= e.treq /\ b.req <= e.req /\ e.treq \in Nat /\ e.req \in Nat
        BY <1>2, <1>4
      <3> QED BY <1>1, <1>2, <1>3, <2>0, <3>1, <3>2, <3>3, FitsMove
    <2>3. Fits(W, new, b.day, "read", {"settled"}, e.tread, e.read)
      <3>1. Fits(W, x.work, b.day, "read", {"settled"}, b.tread, b.read)
        BY <2>00 DEF SumsOK
      <3>2. "read" \in Amounts /\ v.attempt.status \notin {"settled"}
        BY <1>3 DEF Amounts
      <3>3. b.tread <= e.tread /\ b.read <= e.read /\ e.tread \in Nat /\ e.read \in Nat
        BY <1>2, <1>4
      <3> QED BY <1>1, <1>2, <1>3, <2>0, <3>1, <3>2, <3>3, FitsMove
    <2>4. Fits(W, new, b.day, "grant", {"interrupted_unknown"}, e.tunk, e.unk)
      <3>1. Fits(W, x.work, b.day, "grant", {"interrupted_unknown"}, b.tunk, b.unk)
        BY <2>00 DEF SumsOK
      <3>2. "grant" \in Amounts /\ v.attempt.status \notin {"interrupted_unknown"}
        BY <1>3 DEF Amounts
      <3>3. b.tunk <= e.tunk /\ b.unk <= e.unk /\ e.tunk \in Nat /\ e.unk \in Nat
        BY <1>2, <1>4
      <3> QED BY <1>1, <1>2, <1>3, <2>0, <3>1, <3>2, <3>3, FitsMove
    <2>5. OffSum(W, new) <= e.tread
      <3>1. OffMoves(W, x.work, new, w)
        BY <1>1, <1>3, <2>0, OffMove
      <3>2. x.work[w].off \in Nat /\ OffSum(W, x.work) <= b.tread /\ new[w] = v
        BY <1>1, <2>0, <2>00 DEF WorkRows, SumsOK
      <3> QED BY <1>2, <1>3, <1>4, <3>1, <3>2 DEF OffMoves
    <2>6. SumsOK(W, e, new)
      BY <1>4, <2>1, <2>2, <2>3, <2>4, <2>5 DEF SumsOK
    <2> QED BY <2>0, <2>6
  <1>9. OpenOK(W, e, [x.work EXCEPT ![w] = v])
    <2> DEFINE new == [x.work EXCEPT ![w] = v]
    <2>1. \A u \in W : new[u].status = "running" => u = w
      BY <1>1
    <2>2. b.req + b.unk <= b.res /\ b.treq + b.tunk <= b.tres
      BY <1>1 DEF BudgetOK
    <2>3. /\ e.treq + e.tunk + grant <= e.tres /\ e.req + e.unk + grant <= e.res
      BY <1>2, <1>4, <2>2
    <2>4. new[w] = v
      BY <1>1
    <2> HIDE DEF new
    <2>5. OpenOK(W, e, new)
      BY <1>1, <1>3, <1>4, <2>1, <2>3, <2>4 DEF OpenOK
    <2> QED BY <2>5 DEF new
  <1>10. ConsentOK(k, sp, c, e) /\ RowChanged(x, y, e, c, w, v)
    BY DEF e, v
  <1>11. x.budget.day <= e.day /\ x.budget.day \in Nat /\ e.day \in Nat
    BY <1>1, <1>2, <1>4 DEF RolledTo, Budgets
  <1> QED BY <1>3, <1>5, <1>7, <1>8, <1>9, <1>10, <1>11, RowMade

\* What a settlement books, and the attempt it closes.
BookedBudget(b, a, req, read) ==
  [b EXCEPT !.treq = @ + req, !.tread = @ + read,
            !.req = IF b.day = a.day THEN @ + req ELSE @,
            !.read = IF b.day = a.day THEN @ + read ELSE @]
Settlement(a, req, read) == [a EXCEPT !.status = "settled", !.req = req, !.read = read]

IsBooked(e, b, a, req, read) ==
  /\ e \in Budgets /\ e.set = b.set /\ e.day = b.day /\ e.max = b.max
  /\ e.res = b.res /\ e.unk = b.unk /\ e.tres = b.tres /\ e.tunk = b.tunk
  /\ e.treq = b.treq + req /\ e.tread = b.tread + read
  /\ b.day = a.day => e.req = b.req + req /\ e.read = b.read + read
  /\ b.day # a.day => e.req = b.req /\ e.read = b.read

LEMMA BookedFields ==
  ASSUME NEW b \in Budgets, NEW a, NEW req \in Nat, NEW read \in Nat
  PROVE  IsBooked(BookedBudget(b, a, req, read), b, a, req, read)
  <1>1. PICK t \in Nat, u \in Nat : t = b.treq + req /\ u = b.tread + read
    BY DEF Budgets
  <1>2. PICK r \in Nat, s \in Nat : /\ r = IF b.day = a.day THEN b.req + req ELSE b.req
                                    /\ s = IF b.day = a.day THEN b.read + read ELSE b.read
    BY DEF Budgets
  <1>3. BookedBudget(b, a, req, read) = [b EXCEPT !.treq = t, !.tread = u, !.req = r, !.read = s]
    BY <1>1, <1>2 DEF BookedBudget
  <1> QED BY <1>1, <1>2, <1>3, ZenonT(40) DEF Budgets, IsBooked

\* A consent sees only these fields of its budget.
LEMMA ConsentSame ==
  ASSUME NEW k, NEW sp, NEW c, NEW b, NEW e, ConsentOK(k, sp, c, b),
         e.set = b.set, e.tres = b.tres, e.max = b.max, e.res = b.res
  PROVE  ConsentOK(k, sp, c, e)
  BY DEF ConsentOK

\* settleHashAttempt, settleFreshHashAttempt: the usage is booked and the work
\* moves on by what was read, or not at all.
LEMMA RowSettled ==
  ASSUME NEW k \in DOMAIN Setups, NEW sp, NEW x, NEW y, RowOK(k, sp, x),
         NEW w \in WorksIn(k, sp), x.work[w].status = "running",
         NEW req \in Nat, NEW read \in Nat, read <= req, req <= x.work[w].attempt.grant,
         NEW status \in {"complete", "pending", "invalidated"}, NEW off \in Nat,
         x.work[w].off <= off, off <= x.work[w].off + read, off <= Setups[k].size[w],
         status = "complete" => off = Setups[k].size[w],
         status # "complete" => off % Quantum = 0,
         NEW c, ConsentOK(k, sp, c, x.budget),
         RowChanged(x, y, BookedBudget(x.budget, x.work[w].attempt, req, read), c, w,
                    [status |-> status, off |-> off,
                     attempt |-> Settlement(x.work[w].attempt, req, read)])
  PROVE  RowOK(k, sp, y)
  <1> DEFINE a == x.work[w].attempt
             b == x.budget
             e == BookedBudget(x.budget, x.work[w].attempt, req, read)
             z == Settlement(x.work[w].attempt, req, read)
             v == [status |-> status, off |-> off, attempt |-> z]
             W == WorksIn(k, sp)
             size == Setups[k].size[w]
  <1>1. /\ x.work[w] \in WorkRows /\ b \in Budgets /\ IsFiniteSet(W)
        /\ x.work \in [W -> WorkRows] /\ a \in AttemptRows /\ size \in Nat
        /\ x.work[w].off \in Nat
    BY RowFields
  <1>2. /\ z \in AttemptRows /\ z.status = "settled" /\ z.req = req /\ z.read = read
        /\ z.from = a.from /\ z.grant = a.grant /\ z.day = a.day
    BY <1>1 DEF Settlement, AttemptRows, Statuses
  <1>3. IsBooked(e, b, a, req, read)
    BY <1>1, BookedFields
  <1>4. /\ e \in Budgets /\ e.set = b.set /\ e.day = b.day /\ e.max = b.max
        /\ e.res = b.res /\ e.unk = b.unk /\ e.tres = b.tres /\ e.tunk = b.tunk
        /\ e.treq = b.treq + req /\ e.tread = b.tread + read
        /\ b.day = a.day => e.req = b.req + req /\ e.read = b.read + read
        /\ b.day # a.day => e.req = b.req /\ e.read = b.read
    BY <1>3 DEF IsBooked
  <1>5. /\ a.grant \in Nat /\ a.day \in Nat /\ b.day \in Nat /\ b.res \in Nat /\ b.req \in Nat
        /\ b.unk \in Nat /\ b.tres \in Nat /\ b.treq \in Nat /\ b.tunk \in Nat
        /\ b.tread \in Nat /\ b.read \in Nat /\ a.status \in Statuses /\ a.from \in Nat
    BY <1>1 DEF Budgets, AttemptRows
  <1>6. OpenOK(W, b, x.work) /\ BudgetOK(k, b) /\ WorkOK(size, sp, b.day, x.work[w])
    BY DEF RowOK
  <1>7. /\ b.set /\ b.treq + b.tunk + a.grant <= b.tres
        /\ a.day = b.day => b.req + b.unk + a.grant <= b.res
        /\ \A u \in W : x.work[u].status = "running" => u = w
    BY <1>6 DEF OpenOK
  <1>8. /\ a.status = "reserved" /\ a.from = x.work[w].off /\ a.day <= b.day
        /\ a.grant <= StepLimit /\ a.from + a.grant <= size
    BY <1>6 DEF WorkOK
  <1> HIDE DEF a, b, e, z
  <1>9. v \in WorkRows /\ v.attempt = z /\ v.off = off /\ v.status = status
    BY <1>2 DEF WorkRows
  <1> HIDE DEF v
  <1>10. BudgetOK(k, e)
    <2>1. /\ b.read <= b.req /\ b.req + b.unk <= b.res
          /\ b.tread <= b.treq /\ b.treq + b.tunk <= b.tres
          /\ b.res <= b.tres /\ b.req <= b.treq /\ b.read <= b.tread /\ b.unk <= b.tunk
          /\ b.day = DayIn(k, b.max) /\ b.max <= Horizon(k)
      BY <1>6 DEF BudgetOK
    <2>2. a.grant \in Nat /\ req <= a.grant
      BY <1>5 DEF a
    <2>3. /\ e.read <= e.req /\ e.req + e.unk <= e.res
          /\ e.tread <= e.treq /\ e.treq + e.tunk <= e.tres
          /\ e.res <= e.tres /\ e.req <= e.treq /\ e.read <= e.tread /\ e.unk <= e.tunk
      BY <1>4, <1>5, <1>7, <2>1, <2>2
    <2> QED BY <1>4, <1>7, <2>1, <2>3 DEF BudgetOK
  <1>11. ConsentOK(k, sp, c, e)
    BY <1>4, ConsentSame DEF b
  <1>12. WorkOK(size, sp, e.day, v)
    <2>1. a.from <= off /\ off <= a.from + read /\ req <= a.grant
      BY <1>8 DEF a
    <2> QED BY <1>2, <1>4, <1>8, <1>9, <2>1 DEF WorkOK
  <1>13. SumsOK(W, e, [x.work EXCEPT ![w] = v])
    <2> DEFINE new == [x.work EXCEPT ![w] = v]
    <2>0. new = [x.work EXCEPT ![w] = v] /\ SumsOK(W, b, x.work) /\ x.work[w].attempt = a
      BY DEF RowOK, a, b
    <2>00. /\ e.tres \in Nat /\ e.res \in Nat /\ e.treq \in Nat /\ e.req \in Nat
           /\ e.tread \in Nat /\ e.read \in Nat /\ e.tunk \in Nat /\ e.unk \in Nat
           /\ b.tres <= e.tres /\ b.res <= e.res /\ b.treq <= e.treq /\ b.req <= e.req
           /\ b.tread <= e.tread /\ b.read <= e.read /\ b.tunk <= e.tunk /\ b.unk <= e.unk
      BY <1>4, <1>5
    <2> HIDE DEF new
    <2>1. Fits(W, new, b.day, "grant", Statuses, e.tres, e.res)
      <3>1. Fits(W, x.work, b.day, "grant", Statuses, b.tres, b.res)
        BY <2>0 DEF SumsOK
      <3>2. "grant" \in Amounts
        BY DEF Amounts
      <3>3. v.attempt["grant"] + b.tres <= e.tres + a["grant"]
        BY <1>2, <1>4, <1>5, <1>9
      <3>4. v.attempt["grant"] + b.res <= e.res + a["grant"] /\ v.attempt.day = a.day
        BY <1>2, <1>4, <1>5, <1>9
      <3> QED BY <1>1, <1>5, <1>9, <2>0, <2>00, <3>1, <3>2, <3>3, <3>4, FitsMove
    <2>2. Fits(W, new, b.day, "req", {"settled"}, e.treq, e.req)
      <3>1. Fits(W, x.work, b.day, "req", {"settled"}, b.treq, b.req)
        BY <2>0 DEF SumsOK
      <3>2. "req" \in Amounts /\ a.status \notin {"settled"}
        BY <1>8 DEF Amounts
      <3>3. v.attempt["req"] + b.treq <= e.treq + 0
        BY <1>2, <1>4, <1>5, <1>9
      <3>4. v.attempt.day = b.day => v.attempt["req"] + b.req <= e.req + 0
        BY <1>2, <1>4, <1>5, <1>9
      <3> QED BY <1>1, <1>5, <1>9, <2>0, <2>00, <3>1, <3>2, <3>3, <3>4, FitsMove
    <2>3. Fits(W, new, b.day, "read", {"settled"}, e.tread, e.read)
      <3>1. Fits(W, x.work, b.day, "read", {"settled"}, b.tread, b.read)
        BY <2>0 DEF SumsOK
      <3>2. "read" \in Amounts /\ a.status \notin {"settled"}
        BY <1>8 DEF Amounts
      <3>3. v.attempt["read"] + b.tread <= e.tread + 0
        BY <1>2, <1>4, <1>5, <1>9
      <3>4. v.attempt.day = b.day => v.attempt["read"] + b.read <= e.read + 0
        BY <1>2, <1>4, <1>5, <1>9
      <3> QED BY <1>1, <1>5, <1>9, <2>0, <2>00, <3>1, <3>2, <3>3, <3>4, FitsMove
    <2>4. Fits(W, new, b.day, "grant", {"interrupted_unknown"}, e.tunk, e.unk)
      <3>1. Fits(W, x.work, b.day, "grant", {"interrupted_unknown"}, b.tunk, b.unk)
        BY <2>0 DEF SumsOK
      <3>2. "grant" \in Amounts /\ v.attempt.status \notin {"interrupted_unknown"}
        BY <1>2, <1>9 DEF Amounts
      <3> QED BY <1>1, <1>5, <1>9, <2>0, <2>00, <3>1, <3>2, FitsMove
    <2>5. OffSum(W, new) <= e.tread
      <3>1. OffMoves(W, x.work, new, w)
        BY <1>1, <1>9, <2>0, OffMove
      <3>2. OffSum(W, x.work) <= b.tread /\ new[w] = v
        BY <1>1, <2>0 DEF SumsOK
      <3> QED BY <1>1, <1>4, <1>5, <1>9, <3>1, <3>2 DEF OffMoves
    <2>6. SumsOK(W, e, new)
      BY <1>4, <2>1, <2>2, <2>3, <2>4, <2>5 DEF SumsOK
    <2> QED BY <2>0, <2>6
  <1>14. OpenOK(W, e, [x.work EXCEPT ![w] = v])
    <2>1. v.status # "running"
      BY <1>9
    <2> QED BY <1>1, <1>7, <2>1 DEF OpenOK
  <1>15. RowChanged(x, y, e, c, w, v)
    BY DEF e, v, z
  <1>16. x.budget.day <= e.day /\ x.budget.day \in Nat /\ e.day \in Nat
    BY <1>4, <1>5 DEF b
  <1> QED BY <1>9, <1>10, <1>11, <1>12, <1>13, <1>14, <1>15, <1>16, RowMade

\* initializeFreshProgress: an empty budget at the clock of the consent.
LEMMA RowInitialized ==
  ASSUME setup \in DOMAIN Setups, NEW sp, NEW x, NEW y, RowOK(setup, sp, x),
         ~x.budget.set, x.consent.given,
         DOMAIN y = DOMAIN x, y.consent = x.consent, y.work = x.work,
         y.budget = [NoBudget EXCEPT !.set = TRUE, !.day = DayOf(x.consent.high),
                                     !.max = x.consent.high]
  PROVE  RowOK(setup, sp, y) /\ y.budget.tres = 0 /\ y.budget.res = 0 /\ y.budget.set
  <1> DEFINE b == x.budget
             c == x.consent
             W == WorksIn(setup, sp)
  <1>1. b = NoBudget /\ b \in Budgets /\ c \in Consents
    BY RowFields DEF RowOK, BudgetOK
  <1>2. c.high \in Nat /\ c.high <= Horizon(setup) /\ c.created <= c.high
    BY <1>1 DEF RowOK, ConsentOK, Consents
  <1>3. b.max = 0 /\ b.tres = 0 /\ b.day = 0 /\ NoBudget.tres = 0
    BY <1>1 DEF NoBudget
  <1>4. y.budget = BudgetAt(b, c.high)
    BY <1>1 DEF BudgetAt
  <1>5. RolledTo(setup, b, y.budget, c.high)
    <2>1. BudgetOK(setup, b) /\ b.max <= c.high
      BY <1>2, <1>3 DEF RowOK
    <2> QED BY <1>2, <1>4, <2>1, RolledIs
  <1>6. BudgetOK(setup, y.budget) /\ y.budget.set /\ y.budget.max = c.high /\ y.budget.tres = 0
    BY <1>3, <1>5 DEF RolledTo
  <1>7. y.budget.res = 0 /\ y.budget \in Budgets
    BY <1>1, <1>5, <1>6 DEF RolledTo, NoBudget, BudgetOK
  <1>8. ConsentOK(setup, sp, c, y.budget)
    <2>1. ConsentOK(setup, sp, c, b)
      BY DEF RowOK
    <2>2. c.daily \in Nat /\ c.life \in Nat /\ c.high <= c.high
      BY <1>1, <1>2 DEF Consents
    <2> QED BY <1>2, <1>3, <1>6, <1>7, <2>1, <2>2 DEF ConsentOK
  <1>9. SumsOK(W, y.budget, x.work)
    BY <1>5, SumsRolled
  <1>10. OpenOK(W, y.budget, x.work)
    BY DEF RowOK, OpenOK
  <1>11. ASSUME NEW w \in W PROVE WorkOK(Setups[setup].size[w], sp, y.budget.day, x.work[w])
    <2>1. WorkOK(Setups[setup].size[w], sp, b.day, x.work[w])
      BY DEF RowOK
    <2>2. x.work[w].attempt.day \in Nat
      BY RowFields DEF AttemptRows
    <2>3. x.work[w].attempt.day <= y.budget.day
      BY <1>3, <1>5, <1>7, <2>1, <2>2 DEF WorkOK, RolledTo, Budgets
    <2> QED BY <2>1, <2>3 DEF WorkOK
  <1>12. x.work \in [W -> WorkRows] /\ DOMAIN x = {"budget", "consent", "work", "queue"}
    BY DEF RowOK
  <1>13. RowOK(setup, sp, y)
    BY <1>6, <1>8, <1>9, <1>10, <1>11, <1>12 DEF RowOK
  <1> QED BY <1>6, <1>7, <1>13

-----------------------------------------------------------------------------
(* Consents. *)

\* An observation of a given consent: only the clock and the expiry move, and
\* they move forward.
IsObserved(o, c, b, sp, now) ==
  /\ o \in Consents /\ o.given /\ o.created = c.created /\ o.daily = c.daily /\ o.life = c.life
  /\ o.initial = c.initial /\ o.revoked = c.revoked
  /\ c.high <= o.high /\ now <= o.high /\ (sp = Original => b.max <= o.high)
  /\ c.expired => o.expired

LEMMA ObservedFields ==
  ASSUME NEW k \in DOMAIN Setups, NEW sp, NEW n, RowOK(k, sp, n[sp]), n[sp].consent.given,
         NEW now \in Nat, now <= Horizon(k)
  PROVE  /\ IsObserved(ObservedConsent(n, sp, now), n[sp].consent, n[sp].budget, sp, now)
         /\ ConsentOK(k, sp, ObservedConsent(n, sp, now), n[sp].budget)
  <1> DEFINE c == n[sp].consent
             b == n[sp].budget
             floor == IF sp = Original THEN b.max ELSE 0
             o == ObservedConsent(n, sp, now)
  <1>1. c \in Consents /\ b \in Budgets /\ ConsentOK(k, sp, c, b) /\ BudgetOK(k, b)
    BY RowFields DEF RowOK
  <1>2. /\ c.high \in Nat /\ b.max \in Nat /\ c.created \in Nat /\ Lifetime \in Nat
        /\ c.high <= Horizon(k) /\ b.max <= Horizon(k) /\ Horizon(k) \in Nat
    BY <1>1, ConstantFacts, SpaceFacts DEF Consents, Budgets, ConsentOK, BudgetOK
  <1>3. PICK high \in Nat : high = Latest(Latest(c.high, floor), now)
    BY <1>2 DEF Latest
  <1>4. /\ c.high <= high /\ now <= high /\ (sp = Original => b.max <= high) /\ high <= Horizon(k)
    BY <1>2, <1>3 DEF Latest
  <1>5. PICK late \in BOOLEAN : late <=> (c.expired \/ high >= ExpiresAt(c))
    OBVIOUS
  <1>6. o = [c EXCEPT !.high = high, !.expired = c.expired \/ high >= ExpiresAt(c)]
    BY <1>3, Zenon DEF ObservedConsent
  <1>7. o = [c EXCEPT !.high = high, !.expired = late]
    BY <1>5, <1>6
  <1> HIDE DEF o, c, b
  <1>8. /\ o \in Consents /\ o.given = c.given /\ o.created = c.created /\ o.daily = c.daily
        /\ o.life = c.life /\ o.initial = c.initial /\ o.revoked = c.revoked
        /\ o.high = high /\ o.expired = late
    BY <1>1, <1>7 DEF Consents
  <1>9. c.given
    BY DEF c
  <1>10. IsObserved(o, c, b, sp, now)
    BY <1>4, <1>5, <1>8, <1>9 DEF IsObserved
  <1>11. late <=> high >= c.created + Lifetime
    <2>1. c.expired <=> c.high >= c.created + Lifetime
      BY <1>1, <1>9 DEF ConsentOK
    <2> QED BY <1>2, <1>4, <1>5, <2>1 DEF ExpiresAt
  <1>12. ConsentOK(k, sp, o, b)
    <2>1. /\ c.initial <= b.tres /\ b.tres <= c.life /\ c.created <= c.high
          /\ c.created <= Setups[k].maxTime
          /\ sp # Original /\ b.set =>
               /\ c.given /\ c.created <= b.max /\ b.max <= c.high
               /\ b.res <= c.daily /\ b.tres <= c.life
      BY <1>1, <1>9 DEF ConsentOK
    <2>2. o.created <= o.high /\ (b.max <= c.high => b.max <= o.high)
      BY <1>2, <1>4, <1>8, <2>1
    <2> QED BY <1>4, <1>8, <1>9, <1>11, <2>1, <2>2 DEF ConsentOK
  <1> QED BY <1>10, <1>12 DEF o, c, b

\* A revocation is one more mark.
LEMMA RevokedOK ==
  ASSUME NEW k, NEW sp, NEW b, NEW c, ConsentOK(k, sp, c, b), c.given
  PROVE  ConsentOK(k, sp, [c EXCEPT !.revoked = TRUE], b)
  <1> DEFINE o == [c EXCEPT !.revoked = TRUE]
  <1>1. c \in Consents
    BY DEF ConsentOK
  <1>2. /\ o \in Consents /\ o.given = c.given /\ o.created = c.created /\ o.daily = c.daily
        /\ o.life = c.life /\ o.initial = c.initial /\ o.high = c.high /\ o.expired = c.expired
    BY <1>1 DEF Consents
  <1> HIDE DEF o
  <1>3. ConsentOK(k, sp, o, b)
    BY <1>2 DEF ConsentOK
  <1> QED BY <1>3 DEF o

\* A new consent covers what was used before it.
LEMMA NewConsentOK ==
  ASSUME NEW k \in DOMAIN Setups, NEW sp, NEW x, RowOK(k, sp, x), ~x.consent.given,
         NEW limits \in Setups[k].readLimits, NEW now \in Nat, now <= Setups[k].maxTime,
         x.budget.tres <= limits.life
  PROVE  ConsentOK(k, sp, NewConsent(limits, now, x.budget.tres), x.budget)
  <1> DEFINE b == x.budget
             o == NewConsent(limits, now, x.budget.tres)
  <1>1. limits.daily \in Nat /\ limits.life \in Nat
    BY SetupFacts
  <1>2. b \in Budgets
    BY RowFields
  <1>3. b.tres \in Nat
    BY <1>2 DEF Budgets
  <1>4. /\ o \in Consents /\ o.given /\ o.created = now /\ o.high = now /\ o.life = limits.life
        /\ o.initial = b.tres /\ o.expired = FALSE
    BY <1>1, <1>3 DEF NewConsent, NoConsent, Consents
  <1>5. Lifetime \in Nat \ {0} /\ Setups[k].maxTime \in Nat /\ Horizon(k) = Setups[k].maxTime + Lifetime
    BY ConstantFacts, SetupFacts DEF Horizon
  <1>6. sp # Original => ~b.set
    BY DEF RowOK, ConsentOK
  <1> HIDE DEF o
  <1>7. ~(now >= now + Lifetime) /\ now <= Horizon(k)
    BY <1>5
  <1>8. ConsentOK(k, sp, o, b)
    BY <1>3, <1>4, <1>6, <1>7 DEF ConsentOK
  <1> QED BY <1>8 DEF o

-----------------------------------------------------------------------------
(* All namespaces, the shared row, the charges and the uses. *)

LEMMA NsChange ==
  ASSUME NEW k, NEW n, NsOK(k, n), NEW sp \in SpacesOf[k], NEW y, RowOK(k, sp, y),
         NEW m, m = [n EXCEPT ![sp] = y]
  PROVE  NsOK(k, m) /\ m[sp] = y /\ \A u \in SpacesOf[k] : u # sp => m[u] = n[u]
  BY DEF NsOK

\* The step from n to m charges nothing.
Unspent(k, n, m) ==
  \A sp \in SpacesOf[k] :
    LET b == n[sp].budget
        c == m[sp].budget
    IN /\ b.day <= c.day /\ c.tres = b.tres
       /\ \A d : DayRes(c, d) = DayRes(b, d)
       /\ b.tres > 0 => c.max = b.max

LEMMA BudgetNats ==
  ASSUME NEW k \in DOMAIN Setups, NEW n, NsOK(k, n), NEW sp \in SpacesOf[k]
  PROVE  LET b == n[sp].budget
         IN /\ b \in Budgets /\ b.set \in BOOLEAN /\ b.day \in Nat /\ b.max \in Nat
            /\ b.res \in Nat /\ b.tres \in Nat /\ b.treq \in Nat /\ b.tunk \in Nat
            /\ b.res <= b.tres /\ b.treq + b.tunk <= b.tres /\ b.max <= Horizon(k)
            /\ b.day = DayIn(k, b.max) /\ (~b.set => b.tres = 0 /\ b.res = 0)
            /\ \A d : DayRes(b, d) \in Nat /\ DayRes(b, d) <= b.tres
  <1> DEFINE b == n[sp].budget
  <1>1. b \in Budgets /\ BudgetOK(k, b)
    BY DEF NsOK, RowOK, BudgetOK
  <1>2. /\ b.set \in BOOLEAN /\ b.day \in Nat /\ b.max \in Nat
        /\ b.res \in Nat /\ b.tres \in Nat /\ b.treq \in Nat /\ b.tunk \in Nat
    BY <1>1 DEF Budgets
  <1>3. b.res <= b.tres /\ b.treq + b.tunk <= b.tres /\ b.max <= Horizon(k) /\ b.day = DayIn(k, b.max)
    BY <1>1 DEF BudgetOK
  <1>4. ~b.set => b.tres = 0 /\ b.res = 0
    BY <1>1 DEF BudgetOK, NoBudget
  <1>5. \A d : DayRes(b, d) \in Nat /\ DayRes(b, d) <= b.tres
    BY <1>2, <1>3 DEF DayRes
  <1> QED BY <1>1, <1>2, <1>3, <1>4, <1>5

\* Without a charge the shared row stays the sum.
LEMMA SharedKept ==
  ASSUME NEW k, NEW n, NEW m, NEW s, SharedOK(k, n, s), Unspent(k, n, m)
  PROVE  SharedOK(k, m, s)
  <1>1. ASSUME NEW d PROVE AllRes(k, m, d) = AllRes(k, n, d)
    <2>1. [sp \in SpacesOf[k] |-> DayRes(m[sp].budget, d)]
            = [sp \in SpacesOf[k] |-> DayRes(n[sp].budget, d)]
      BY DEF Unspent
    <2> QED BY <2>1, Zenon DEF AllRes
  <1>2. AllTres(k, m) = AllTres(k, n)
    <2>1. [sp \in SpacesOf[k] |-> m[sp].budget.tres] = [sp \in SpacesOf[k] |-> n[sp].budget.tres]
      BY DEF Unspent
    <2> QED BY <2>1, Zenon DEF AllTres
  <1>3. \A sp \in SpacesOf[k] : /\ m[sp].budget.tres = n[sp].budget.tres
                                /\ n[sp].budget.tres > 0 => m[sp].budget.max = n[sp].budget.max
    BY DEF Unspent
  <1> QED BY <1>1, <1>2, <1>3 DEF SharedOK

LEMMA ChargeKept ==
  ASSUME NEW k \in DOMAIN Setups, NEW n, NEW m, NEW c, NsOK(k, n), NsOK(k, m),
         ChargeOK(k, n, c), Unspent(k, n, m)
  PROVE  ChargeOK(k, m, c)
  <1> SUFFICES ASSUME NEW sp \in SpacesOf[k], NEW d \in DaysIn(k), d >= m[sp].budget.day
               PROVE  c[sp][d] = DayRes(m[sp].budget, d)
    BY DEF ChargeOK
  <1>1. /\ n[sp].budget.day <= m[sp].budget.day
        /\ DayRes(m[sp].budget, d) = DayRes(n[sp].budget, d)
    BY DEF Unspent
  <1>2. n[sp].budget.day \in Nat /\ m[sp].budget.day \in Nat /\ d \in Nat
    BY BudgetNats DEF DaysIn
  <1>3. d >= n[sp].budget.day
    BY <1>1, <1>2
  <1> QED BY <1>1, <1>3 DEF ChargeOK

\* The sums over the namespaces.
LEMMA AllFacts ==
  ASSUME NEW k \in DOMAIN Setups, NEW n, NsOK(k, n), NEW d
  PROVE  AllRes(k, n, d) \in Nat /\ AllTres(k, n) \in Nat /\ AllRes(k, n, d) <= AllTres(k, n)
  <1> DEFINE S == SpacesOf[k]
             F == [sp \in S |-> DayRes(n[sp].budget, d)]
             G == [sp \in S |-> n[sp].budget.tres]
  <1>1. IsFiniteSet(S) /\ S \in SUBSET S
    BY SpaceFacts
  <1>2. F \in [S -> Nat] /\ G \in [S -> Nat]
    BY BudgetNats
  <1>3. \A x \in S : x \in S /\ F[x] <= G[x]
    BY BudgetNats
  <1>4. AllRes(k, n, d) = SumOver(F, S) /\ AllTres(k, n) = SumOver(G, S)
    BY DEF AllRes, AllTres
  <1> HIDE DEF F, G, S
  <1>5. SumOver(F, S) \in Nat /\ SumOver(G, S) \in Nat
    BY <1>1, <1>2, SumTakeOut
  <1>6. SumOver(F, S) <= SumOver(G, S)
    BY <1>1, <1>2, <1>3, SumAtMost
  <1> QED BY <1>4, <1>5, <1>6

\* ClockHigh bounds every clock, and stays within the horizon.
LEMMA ClockFacts ==
  ASSUME setup \in DOMAIN Setups, NEW n, NsOK(setup, n)
  PROVE  /\ ClockHigh(n) \in Nat /\ ClockHigh(n) <= Horizon(setup)
         /\ \A sp \in SpacesOf[setup] :
              n[sp].budget.max <= ClockHigh(n) /\ n[sp].consent.high <= ClockHigh(n)
  <1> DEFINE S == {n[sp].budget.max : sp \in Spaces} \cup {n[sp].consent.high : sp \in Spaces}
  <1>1. Spaces = SpacesOf[setup] /\ Original \in SpacesOf[setup] /\ Horizon(setup) \in Nat
    BY SpaceFacts DEF Spaces
  <1>2. ASSUME NEW sp \in SpacesOf[setup]
        PROVE  n[sp].budget.max \in 0..Horizon(setup) /\ n[sp].consent.high \in 0..Horizon(setup)
    <2>1. n[sp].budget.max \in Nat /\ n[sp].budget.max <= Horizon(setup)
      BY BudgetNats
    <2>2. n[sp].consent \in Consents /\ ConsentOK(setup, sp, n[sp].consent, n[sp].budget)
      BY DEF NsOK, RowOK, ConsentOK
    <2>3. n[sp].consent.high \in Nat
      BY <2>2 DEF Consents
    <2>4. n[sp].consent.high <= Horizon(setup)
      <3>1. CASE n[sp].consent.given
        BY <2>2, <3>1 DEF ConsentOK
      <3>2. CASE ~n[sp].consent.given
        <4>1. n[sp].consent.high = 0
          BY <2>2, <3>2 DEF ConsentOK, NoConsent
        <4> QED BY <1>1, <4>1
      <3> QED BY <3>1, <3>2
    <2> QED BY <1>1, <2>1, <2>3, <2>4
  <1>3. S \in SUBSET (0..Horizon(setup)) /\ S # {}
    BY <1>1, <1>2
  <1>4. ClockHigh(n) = Max(S)
    BY DEF ClockHigh
  <1>5. \A sp \in SpacesOf[setup] : n[sp].budget.max \in S /\ n[sp].consent.high \in S
    BY <1>1
  <1> HIDE DEF S
  <1>6. Max(S) \in S /\ Max(S) \in Nat /\ \A y \in S : y <= Max(S)
    BY <1>1, <1>3, MaxIs
  <1>7. Max(S) \in 0..Horizon(setup)
    BY <1>3, <1>6
  <1>8. ClockHigh(n) \in Nat /\ ClockHigh(n) <= Horizon(setup)
    BY <1>1, <1>4, <1>7
  <1>9. ASSUME NEW sp \in SpacesOf[setup]
        PROVE  n[sp].budget.max <= ClockHigh(n) /\ n[sp].consent.high <= ClockHigh(n)
    <2>1. n[sp].budget.max \in S /\ n[sp].consent.high \in S
      BY <1>5
    <2> QED BY <2>1, <1>4, <1>6
  <1> QED BY <1>8, <1>9

\* SharedAt is the sum of the namespaces at a time that none of them is past.
LEMMA SharedAtOK ==
  ASSUME setup \in DOMAIN Setups, NEW n, NsOK(setup, n), NEW high \in Nat, ClockHigh(n) <= high
  PROVE  /\ SharedOK(setup, n, SharedAt(n, high)) /\ SharedAt(n, high).set
         /\ SharedAt(n, high).max = high /\ SharedAt(n, high).day = DayIn(setup, high)
         /\ SharedAt(n, high).res = AllRes(setup, n, DayIn(setup, high))
  <1> DEFINE s == SharedAt(n, high)
             day == DayIn(setup, high)
  <1>1. DayOf(high) = day /\ day \in Nat
    <2>1. high <= high
      OBVIOUS
    <2> QED BY <2>1, DayFacts DEF DayOf, DayLen, DayIn
  <1>2. ReservedOn(n, DayOf(high)) = AllRes(setup, n, day) /\ ReservedTotal(n) = AllTres(setup, n)
    BY <1>1, Zenon DEF ReservedOn, ReservedTotal, AllRes, AllTres, DayRes, Spaces
  <1>3. s = [set |-> TRUE, day |-> day, max |-> high, res |-> AllRes(setup, n, day),
             total |-> AllTres(setup, n)]
    BY <1>1, <1>2, Zenon DEF SharedAt
  <1>4. AllRes(setup, n, day) \in Nat /\ AllTres(setup, n) \in Nat
    BY AllFacts
  <1> HIDE DEF s
  <1>5. /\ s \in SharedRows /\ s.set /\ s.day = day /\ s.max = high
        /\ s.res = AllRes(setup, n, day) /\ s.total = AllTres(setup, n)
    BY <1>1, <1>3, <1>4 DEF SharedRows
  <1>6. \A sp \in SpacesOf[setup] : n[sp].budget.max <= high
    <2>1. ClockHigh(n) \in Nat
      BY ClockFacts
    <2> QED BY <2>1, ClockFacts, BudgetNats
  <1>7. SharedOK(setup, n, s)
    BY <1>5, <1>6 DEF SharedOK, day
  <1> QED BY <1>5, <1>7 DEF s

\* advanceHashStoreReadBudget.
LEMMA AdvancedOK ==
  ASSUME setup \in DOMAIN Setups, NEW n, NsOK(setup, n), SharedOK(setup, n, shared), NEW now \in Nat
  PROVE  /\ SharedOK(setup, n, Advanced(n, now)) /\ Advanced(n, now).set = shared.set
         /\ SharedHigh(n, now) \in Nat /\ ClockHigh(n) <= SharedHigh(n, now)
         /\ now <= SharedHigh(n, now)
  <1>1. shared \in SharedRows /\ shared.max \in Nat /\ shared.set \in BOOLEAN
    BY DEF SharedOK, SharedRows
  <1>2. ClockHigh(n) \in Nat
    BY ClockFacts
  <1>3. SharedHigh(n, now) \in Nat /\ ClockHigh(n) <= SharedHigh(n, now) /\ now <= SharedHigh(n, now)
    BY <1>1, <1>2 DEF SharedHigh, Latest
  <1>4. CASE shared.set
    <2>1. Advanced(n, now) = SharedAt(n, SharedHigh(n, now))
      BY <1>4 DEF Advanced
    <2>2. /\ SharedOK(setup, n, SharedAt(n, SharedHigh(n, now)))
          /\ SharedAt(n, SharedHigh(n, now)).set = TRUE
      BY <1>3, SharedAtOK DEF SharedAt
    <2> QED BY <1>1, <1>3, <1>4, <2>1, <2>2
  <1>5. CASE ~shared.set
    BY <1>3, <1>5 DEF Advanced
  <1> QED BY <1>4, <1>5

\* The grant of the open reservation.
LEMMA HeldFacts ==
  ASSUME NEW k \in DOMAIN Setups, NEW sp, NEW x, RowOK(k, sp, x)
  PROVE  /\ Held(k, sp, x) \in Nat
         /\ \A w \in WorksIn(k, sp) :
              x.work[w].status = "running" => Held(k, sp, x) = x.work[w].attempt.grant
         /\ (\A w \in WorksIn(k, sp) : x.work[w].status # "running") => Held(k, sp, x) = 0
  <1> DEFINE open == {w \in WorksIn(k, sp) : x.work[w].status = "running"}
  <1>1. Held(k, sp, x) = IF open = {} THEN 0 ELSE x.work[Some(open)].attempt.grant
    BY DEF Held
  <1>2. open # {} => Some(open) \in open
    BY DEF Some
  <1>3. OpenOK(WorksIn(k, sp), x.budget, x.work)
    BY DEF RowOK
  <1>4. \A w \in WorksIn(k, sp) : x.work[w].attempt.grant \in Nat
    BY RowFields DEF AttemptRows
  <1>5. ASSUME NEW w \in WorksIn(k, sp), x.work[w].status = "running"
        PROVE  Held(k, sp, x) = x.work[w].attempt.grant
    <2>1. w \in open /\ open # {}
      BY <1>5
    <2>2. Some(open) = w
      BY <1>2, <1>3, <1>5, <2>1 DEF OpenOK
    <2> QED BY <1>1, <2>1, <2>2
  <1>6. (\A w \in WorksIn(k, sp) : x.work[w].status # "running") => Held(k, sp, x) = 0
    <2>1. (\A w \in WorksIn(k, sp) : x.work[w].status # "running") => open = {}
      OBVIOUS
    <2> QED BY <1>1, <2>1
  <1>7. Held(k, sp, x) \in Nat
    <2>1. CASE open = {}
      BY <1>1, <2>1
    <2>2. CASE open # {}
      BY <1>1, <1>2, <1>4, <2>2
    <2> QED BY <2>1, <2>2
  <1> QED BY <1>5, <1>6, <1>7

\* Without the run that reads, its whole reservation stays pending.
LEMMA PendingIdle ==
  ASSUME NEW k \in DOMAIN Setups, NEW n, NEW s, NEW h, NEW r, NsOK(k, n), RunOK(k, n, s, h, r),
         NEW sp \in SpacesOf[k]
  PROVE  /\ Pending(k, n, Idle, sp) = Held(k, sp, n[sp])
         /\ Pending(k, n, Idle, sp) \in Nat /\ Pending(k, n, r, sp) \in Nat
         /\ Pending(k, n, r, sp) <= Pending(k, n, Idle, sp)
         /\ ~InUse(r.phase) => Pending(k, n, r, sp) = Pending(k, n, Idle, sp)
  <1>1. RowOK(k, sp, n[sp])
    BY DEF NsOK
  <1>2. Pending(k, n, Idle, sp) = Held(k, sp, n[sp]) /\ Held(k, sp, n[sp]) \in Nat
    BY <1>1, HeldFacts DEF Pending, Idle
  <1>3. r.req \in Nat /\ r \in Runs(k) /\ r.grant \in Nat
    BY DEF RunOK, Runs
  <1>4. CASE r.space = sp /\ r.phase = "settle"
    <2>1. InUse(r.phase)
      BY <1>4 DEF InUse
    <2>2. /\ r.work \in WorksIn(k, sp) /\ n[sp].work[r.work].status = "running"
          /\ n[sp].work[r.work].attempt.grant = r.grant /\ r.req <= r.grant
      BY <1>4, <2>1 DEF RunOK
    <2>3. Held(k, sp, n[sp]) = r.grant
      BY <1>1, <2>2, HeldFacts
    <2>4. Pending(k, n, r, sp) = r.req
      BY <1>4 DEF Pending
    <2> QED BY <1>2, <1>3, <2>1, <2>2, <2>3, <2>4
  <1>5. CASE r.space = sp /\ r.phase = "read"
    BY <1>2, <1>5 DEF Pending, InUse
  <1>6. CASE ~(r.space = sp /\ r.phase = "settle") /\ ~(r.space = sp /\ r.phase = "read")
    BY <1>2, <1>6 DEF Pending
  <1> QED BY <1>4, <1>5, <1>6

LEMMA UseIdle ==
  ASSUME NEW k \in DOMAIN Setups, NEW n, NEW s, NEW h, NEW r, NEW u,
         NsOK(k, n), RunOK(k, n, s, h, r), UseOK(k, n, r, u)
  PROVE  UseOK(k, n, Idle, u)
  <1> SUFFICES ASSUME NEW sp \in SpacesOf[k]
               PROVE  u[sp] <= n[sp].budget.treq + n[sp].budget.tunk + Pending(k, n, Idle, sp)
    BY DEF UseOK
  <1>1. u[sp] <= n[sp].budget.treq + n[sp].budget.tunk + Pending(k, n, r, sp) /\ u[sp] \in Nat
    BY DEF UseOK
  <1>2. n[sp].budget.treq \in Nat /\ n[sp].budget.tunk \in Nat
    BY BudgetNats
  <1>3. /\ Pending(k, n, Idle, sp) \in Nat /\ Pending(k, n, r, sp) \in Nat
        /\ Pending(k, n, r, sp) <= Pending(k, n, Idle, sp)
    BY PendingIdle
  <1> QED BY <1>1, <1>2, <1>3

\* A run that reads nothing adds nothing to what is pending.
LEMMA UseRest ==
  ASSUME NEW k \in DOMAIN Setups, NEW n, NEW s, NEW h, NEW r, NEW u,
         NsOK(k, n), RunOK(k, n, s, h, r), ~InUse(r.phase), UseOK(k, n, Idle, u)
  PROVE  UseOK(k, n, r, u)
  <1>1. \A sp \in SpacesOf[k] : Pending(k, n, r, sp) = Pending(k, n, Idle, sp)
    BY PendingIdle
  <1> QED BY <1>1 DEF UseOK

\* What is booked or held of every namespace does not shrink.
Booking(k, sp, x) == x.budget.treq + x.budget.tunk + Held(k, sp, x)
LEMMA UseGrows ==
  ASSUME NEW k \in DOMAIN Setups, NEW n, NEW m, NEW u, NsOK(k, n), NsOK(k, m),
         UseOK(k, n, Idle, u),
         \A sp \in SpacesOf[k] : Booking(k, sp, n[sp]) <= Booking(k, sp, m[sp])
  PROVE  UseOK(k, m, Idle, u)
  <1> SUFFICES ASSUME NEW sp \in SpacesOf[k]
               PROVE  u[sp] <= m[sp].budget.treq + m[sp].budget.tunk + Pending(k, m, Idle, sp)
    BY DEF UseOK
  <1>1. u[sp] \in Nat /\ u[sp] <= Booking(k, sp, n[sp])
    BY DEF UseOK, Pending, Idle, Booking
  <1>2. /\ n[sp].budget.treq \in Nat /\ n[sp].budget.tunk \in Nat
        /\ m[sp].budget.treq \in Nat /\ m[sp].budget.tunk \in Nat
    BY BudgetNats
  <1>3. Held(k, sp, n[sp]) \in Nat /\ Held(k, sp, m[sp]) \in Nat
    BY HeldFacts DEF NsOK
  <1>4. Booking(k, sp, n[sp]) \in Nat /\ Booking(k, sp, m[sp]) \in Nat
    BY <1>2, <1>3 DEF Booking
  <1>5. u[sp] <= Booking(k, sp, m[sp])
    BY <1>1, <1>4
  <1> QED BY <1>5 DEF Booking, Pending, Idle

LEMMA IdleRun ==
  ASSUME NEW k \in DOMAIN Setups
  PROVE  Idle \in Runs(k) /\ Idle.phase = "idle" /\ ~InUse(Idle.phase)
  BY SpaceFacts DEF Idle, Runs, InUse

LEMMA RunIdle ==
  ASSUME NEW k \in DOMAIN Setups, NEW n, NEW s, NEW h \in HandleKinds \ {"writer"}
  PROVE  RunOK(k, n, s, h, Idle)
  <1>1. Setups[k].jobs \cap HandleKinds = {}
    BY SetupFacts
  <1> QED BY <1>1, IdleRun DEF RunOK, InUse, HandleKinds

\* A transaction keeps the invariant when its candidates meet it.
LEMMA TransactKeeps ==
  ASSUME HashInv, NEW n, NEW s, NEW r, Transact(n, s, r), setup' = setup, consumed' = consumed,
         ns' = n => ChargeOK(setup, n, charged'),
         ns' = ns => ChargeOK(setup, ns, charged'),
         NsOK(setup, n), SharedOK(setup, n, s),
         RunOK(setup, n, s, handle, r), UseOK(setup, n, r, consumed)
  PROVE  HashInv'
  <1>1. setup \in DOMAIN Setups /\ NsOK(setup, ns) /\ SharedOK(setup, ns, shared)
    BY DEF HashInv
  <1>2. CASE ns' = n /\ shared' = s /\ run' = r /\ UNCHANGED handle
    BY <1>1, <1>2 DEF HashInv
  <1>3. CASE ns' = n /\ shared' = s /\ handle' = "poisoned" /\ run' = Idle
    <2>1. UseOK(setup, n, Idle, consumed)
      BY <1>1, UseIdle
    <2>2. RunOK(setup, n, s, "poisoned", Idle)
      BY <1>1, RunIdle DEF HandleKinds
    <2> QED BY <1>1, <1>3, <2>1, <2>2 DEF HashInv
  <1>4. CASE UNCHANGED <<ns, shared>> /\ handle' = "poisoned" /\ run' = Idle
    <2>1. UseOK(setup, ns, Idle, consumed)
      BY <1>1, UseIdle DEF HashInv
    <2>2. RunOK(setup, ns, shared, "poisoned", Idle)
      BY <1>1, RunIdle DEF HandleKinds
    <2> QED BY <1>1, <1>4, <2>1, <2>2 DEF HashInv
  <1> QED BY <1>2, <1>3, <1>4 DEF Transact

\* What a handle relies on between two runs.
HandleOK(k, n, h) ==
  /\ h \in HandleKinds \cup Setups[k].jobs
  /\ h = "writer" => NoneRunning(k, n, Original)
  /\ \A j \in Setups[k].jobs : h = j => n[j].budget.set /\ NoneRunning(k, n, j)

LEMMA HandleRests ==
  ASSUME NEW k, NEW n, NEW s, NEW h, NEW r, RunOK(k, n, s, h, r), ~InUse(r.phase)
  PROVE  HandleOK(k, n, h)
  BY DEF RunOK, HandleOK

LEMMA IdleOK ==
  ASSUME NEW k \in DOMAIN Setups, NEW n, NEW s, NEW h, HandleOK(k, n, h)
  PROVE  RunOK(k, n, s, h, Idle)
  BY IdleRun DEF RunOK, HandleOK, InUse

\* The run ends, or goes on to its report.
LEMMA EndedOK ==
  ASSUME setup \in DOMAIN Setups, NEW n, NEW s, HandleOK(setup, n, handle),
         RunOK(setup, ns, shared, handle, run), ~At("idle"), run.mode = "budgeted" => s.set
  PROVE  RunOK(setup, n, s, handle, Ended) /\ ~InUse(Ended.phase)
  <1>1. CASE run.mode = "budgeted"
    <2> DEFINE r == [Idle EXCEPT !.phase = "finish", !.mode = "budgeted"]
    <2>1. Ended = r
      BY <1>1 DEF Ended
    <2>2. r \in Runs(setup) /\ r.phase = "finish" /\ r.mode = "budgeted"
      <3>1. Original \in SpacesOf[setup]
        BY SpaceFacts
      <3> QED BY <3>1 DEF Idle, Runs
    <2> HIDE DEF r
    <2>3. handle \in {"writer"} \cup Setups[setup].jobs
      BY DEF RunOK, At
    <2>4. RunOK(setup, n, s, handle, r)
      BY <1>1, <2>2, <2>3 DEF RunOK, HandleOK, InUse
    <2> QED BY <2>1, <2>2, <2>4 DEF InUse
  <1>2. CASE run.mode # "budgeted"
    BY <1>2, IdleOK, IdleRun DEF Ended
  <1> QED BY <1>1, <1>2

\* Only consents differ.
SameRows(k, n, m) ==
  \A sp \in SpacesOf[k] : m[sp].budget = n[sp].budget /\ m[sp].work = n[sp].work

LEMMA SameRowsFacts ==
  ASSUME NEW k \in DOMAIN Setups, NEW n, NEW m, NsOK(k, n), SameRows(k, n, m)
  PROVE  /\ Unspent(k, n, m)
         /\ \A sp \in SpacesOf[k] : Booking(k, sp, n[sp]) <= Booking(k, sp, m[sp])
         /\ \A h : HandleOK(k, n, h) => HandleOK(k, m, h)
  <1>1. Unspent(k, n, m)
    <2> SUFFICES ASSUME NEW sp \in SpacesOf[k]
                 PROVE  LET b == n[sp].budget
                            c == m[sp].budget
                        IN /\ b.day <= c.day /\ c.tres = b.tres
                           /\ \A d : DayRes(c, d) = DayRes(b, d)
                           /\ b.tres > 0 => c.max = b.max
      BY DEF Unspent
    <2>1. m[sp].budget = n[sp].budget
      BY DEF SameRows
    <2>2. n[sp].budget.day \in Nat
      BY BudgetNats
    <2> QED BY <2>1, <2>2
  <1>2. ASSUME NEW sp \in SpacesOf[k] PROVE Booking(k, sp, n[sp]) <= Booking(k, sp, m[sp])
    <2>1. m[sp].budget = n[sp].budget /\ m[sp].work = n[sp].work
      BY DEF SameRows
    <2>2. Booking(k, sp, n[sp]) = Booking(k, sp, m[sp])
      BY <2>1 DEF Booking, Held
    <2>3. Held(k, sp, n[sp]) \in Nat /\ n[sp].budget.treq \in Nat /\ n[sp].budget.tunk \in Nat
      BY HeldFacts, BudgetNats DEF NsOK
    <2>4. Booking(k, sp, n[sp]) \in Nat
      BY <2>3 DEF Booking
    <2> QED BY <2>2, <2>4
  <1>3. ASSUME NEW h, HandleOK(k, n, h) PROVE HandleOK(k, m, h)
    <2>1. Original \in SpacesOf[k] /\ \A j \in Setups[k].jobs : j \in SpacesOf[k]
      BY SpaceFacts
    <2> QED BY <1>3, <2>1 DEF HandleOK, NoneRunning, SameRows
  <1> QED BY <1>1, <1>2, <1>3

\* A run in another state of the rows it relies on.
SameGiven(k, n, m) == \A sp \in SpacesOf[k] : m[sp].consent.given = n[sp].consent.given
LEMMA RunSame ==
  ASSUME NEW k \in DOMAIN Setups, NEW n, NEW m, NEW s, NEW t, NEW h, NEW r, RunOK(k, n, s, h, r),
         SameRows(k, n, m), SameGiven(k, n, m), t.set = s.set
  PROVE  RunOK(k, m, t, h, r)
  <1>1. Original \in SpacesOf[k] /\ (\A j \in Setups[k].jobs : j \in SpacesOf[k])
        /\ r.space \in SpacesOf[k]
    BY SpaceFacts DEF RunOK, Runs
  <1>2. \A sp \in SpacesOf[k] : /\ m[sp].budget = n[sp].budget /\ m[sp].work = n[sp].work
                                /\ m[sp].consent.given = n[sp].consent.given
    BY DEF SameRows, SameGiven
  <1>3. \A sp \in SpacesOf[k] : NoneRunning(k, n, sp) => NoneRunning(k, m, sp)
    BY <1>2 DEF NoneRunning
  <1> QED BY <1>1, <1>2, <1>3 DEF RunOK

\* A transaction that charges nothing and does not leave the run reading.
LEMMA UnspentKeeps ==
  ASSUME HashInv, NEW n, NEW s, NEW r, Transact(n, s, r), setup' = setup, NoCharge,
         NsOK(setup, n), SharedOK(setup, n, s), Unspent(setup, ns, n),
         RunOK(setup, n, s, handle, r), ~InUse(r.phase), UseOK(setup, n, Idle, consumed)
  PROVE  HashInv'
  <1>1. setup \in DOMAIN Setups /\ NsOK(setup, ns) /\ ChargeOK(setup, ns, charged)
    BY DEF HashInv
  <1>2. ChargeOK(setup, n, charged)
    BY <1>1, ChargeKept
  <1>3. charged' = charged /\ consumed' = consumed
    BY DEF NoCharge
  <1>4. UseOK(setup, n, r, consumed)
    BY <1>1, UseRest
  <1> QED BY <1>1, <1>2, <1>3, <1>4, TransactKeeps

\* A transaction that changes consents only.
LEMMA QuietKeeps ==
  ASSUME HashInv, NEW n, NEW s, NEW r, Transact(n, s, r), setup' = setup, NoCharge,
         NsOK(setup, n), SharedOK(setup, n, s), SameRows(setup, ns, n),
         RunOK(setup, n, s, handle, r), ~InUse(r.phase)
  PROVE  HashInv'
  <1>1. setup \in DOMAIN Setups /\ NsOK(setup, ns)
    BY DEF HashInv
  <1>2. UseOK(setup, ns, Idle, consumed)
    BY <1>1, UseIdle DEF HashInv
  <1>3. UseOK(setup, n, Idle, consumed)
    BY <1>1, <1>2, SameRowsFacts, UseGrows
  <1>4. Unspent(setup, ns, n)
    BY <1>1, SameRowsFacts
  <1> QED BY <1>3, <1>4, UnspentKeeps

\* An observation changes one consent, and no limit of it.
IsSeen(k, n, m, sp, now) ==
  /\ NsOK(k, m) /\ SameRows(k, n, m) /\ SameGiven(k, n, m)
  /\ IsObserved(m[sp].consent, n[sp].consent, n[sp].budget, sp, now)
  /\ m[sp] = [n[sp] EXCEPT !.consent = m[sp].consent]
  /\ \A u \in SpacesOf[k] : u # sp => m[u] = n[u]
LEMMA SeenIs ==
  ASSUME NEW k \in DOMAIN Setups, NEW n, NsOK(k, n), NEW sp \in SpacesOf[k], n[sp].consent.given,
         NEW now \in Nat, now <= Horizon(k)
  PROVE  IsSeen(k, n, Observed(n, sp, now), sp, now)
  <1> DEFINE c == ObservedConsent(n, sp, now)
             y == [n[sp] EXCEPT !.consent = c]
             m == Observed(n, sp, now)
  <1>1. RowOK(k, sp, n[sp]) /\ DOMAIN n = SpacesOf[k]
    BY DEF NsOK
  <1>2. IsObserved(c, n[sp].consent, n[sp].budget, sp, now) /\ ConsentOK(k, sp, c, n[sp].budget)
    BY <1>1, ObservedFields
  <1>3. m = [n EXCEPT ![sp] = y]
    BY DEF Observed
  <1>4. DOMAIN n[sp] = {"budget", "consent", "work", "queue"}
    BY <1>1 DEF RowOK
  <1> HIDE DEF c, m
  <1>5. RowOK(k, sp, y)
    BY <1>1, <1>2, RowConsent
  <1>6. y.consent = c /\ y.budget = n[sp].budget /\ y.work = n[sp].work
    BY <1>4
  <1> HIDE DEF y
  <1>7. NsOK(k, m) /\ m[sp] = y /\ \A u \in SpacesOf[k] : u # sp => m[u] = n[u]
    BY <1>1, <1>3, <1>5 DEF NsOK
  <1>8. c.given = TRUE /\ n[sp].consent.given = TRUE
    <2>1. c.given \in BOOLEAN /\ c.given
      BY <1>2 DEF IsObserved, Consents
    <2>2. n[sp].consent.given \in BOOLEAN
      BY <1>1, RowFields DEF Consents
    <2> QED BY <2>1, <2>2
  <1>9. SameRows(k, n, m) /\ SameGiven(k, n, m)
    BY <1>6, <1>7, <1>8 DEF SameRows, SameGiven
  <1>10. m[sp] = [n[sp] EXCEPT !.consent = m[sp].consent]
    BY <1>6, <1>7 DEF y
  <1>11. IsSeen(k, n, m, sp, now)
    BY <1>2, <1>6, <1>7, <1>9, <1>10 DEF IsSeen
  <1> QED BY <1>11 DEF m

-----------------------------------------------------------------------------
(* One lemma per action. *)

LEMMA InvParts ==
  ASSUME HashInv
  PROVE  /\ setup \in DOMAIN Setups /\ NsOK(setup, ns) /\ SharedOK(setup, ns, shared)
         /\ ChargeOK(setup, ns, charged) /\ RunOK(setup, ns, shared, handle, run)
         /\ UseOK(setup, ns, run, consumed)
  BY DEF HashInv

LEMMA SpaceOf ==
  ASSUME HashInv
  PROVE  /\ Spaces = SpacesOf[setup] /\ Jobs = Setups[setup].jobs /\ Sp \in SpacesOf[setup]
         /\ Original \in SpacesOf[setup] /\ Jobs \subseteq SpacesOf[setup]
         /\ \A sp : WorksOf(sp) = WorksIn(setup, sp)
         /\ run \in Runs(setup)
  BY InvParts, SpaceFacts DEF Spaces, Jobs, Sp, RunOK, Runs, WorksOf, WorksIn, Works, Done

\* Readings of the clock, and the end of a consent.
LEMMA TimeFacts ==
  ASSUME HashInv, NEW now
  PROVE  /\ now \in Times => /\ now \in Nat /\ now <= Setups[setup].maxTime
                             /\ now <= Horizon(setup)
         /\ \A sp \in SpacesOf[setup] : ns[sp].consent.given =>
              /\ ExpiresAt(ns[sp].consent) \in Nat /\ ExpiresAt(ns[sp].consent) <= Horizon(setup)
              /\ now \in Times =>
                   /\ Latest(now, ExpiresAt(ns[sp].consent)) \in Nat
                   /\ Latest(now, ExpiresAt(ns[sp].consent)) <= Horizon(setup)
  <1>1. setup \in DOMAIN Setups /\ Setups[setup].maxTime \in Nat /\ Lifetime \in Nat
    BY InvParts, SetupFacts, ConstantFacts
  <1>2. Times = 0..Setups[setup].maxTime
    BY <1>1 DEF Times, TimesOf
  <1>3. now \in Times => now \in Nat /\ now <= Setups[setup].maxTime /\ now <= Horizon(setup)
    BY <1>1, <1>2 DEF Horizon
  <1>4. ASSUME NEW sp \in SpacesOf[setup], ns[sp].consent.given
        PROVE  ExpiresAt(ns[sp].consent) \in Nat /\ ExpiresAt(ns[sp].consent) <= Horizon(setup)
    <2>1. ConsentOK(setup, sp, ns[sp].consent, ns[sp].budget)
      BY InvParts DEF NsOK, RowOK
    <2>2. ns[sp].consent \in Consents /\ ns[sp].consent.created <= Setups[setup].maxTime
      BY <1>4, <2>1 DEF ConsentOK
    <2>3. ns[sp].consent.created \in Nat
      BY <2>2 DEF Consents
    <2> QED BY <1>1, <2>2, <2>3 DEF ExpiresAt, Horizon
  <1> QED BY <1>3, <1>4 DEF Latest

\* An observation of the clock in a candidate of the store.
LEMMA SeenFacts ==
  ASSUME HashInv, NEW sp \in SpacesOf[setup], ns[sp].consent.given,
         NEW now \in Nat, now <= Horizon(setup), NEW n, n = Observed(ns, sp, now)
  PROVE  /\ IsSeen(setup, ns, n, sp, now) /\ NsOK(setup, n) /\ SameRows(setup, ns, n)
         /\ SameGiven(setup, ns, n)
         /\ SharedOK(setup, n, shared) /\ SharedOK(setup, n, Advanced(n, now))
         /\ Advanced(n, now).set = shared.set
  <1>1. setup \in DOMAIN Setups /\ NsOK(setup, ns) /\ SharedOK(setup, ns, shared)
    BY InvParts
  <1>2. IsSeen(setup, ns, n, sp, now)
    BY <1>1, SeenIs
  <1>3. NsOK(setup, n) /\ SameRows(setup, ns, n) /\ SameGiven(setup, ns, n)
    BY <1>2 DEF IsSeen
  <1>4. SharedOK(setup, n, shared)
    BY <1>1, <1>3, SameRowsFacts, SharedKept
  <1>5. SharedOK(setup, n, Advanced(n, now)) /\ Advanced(n, now).set = shared.set
    BY <1>1, <1>3, <1>4, AdvancedOK
  <1> QED BY <1>2, <1>3, <1>4, <1>5

\* The observation is committed, and the run stands at r.
LEMMA SeenKeeps ==
  ASSUME HashInv, NEW sp \in SpacesOf[setup], ns[sp].consent.given,
         NEW now \in Nat, now <= Horizon(setup), NEW n, n = Observed(ns, sp, now),
         NEW s, s = shared \/ s = Advanced(n, now), NEW r,
         Transact(n, s, r), setup' = setup, NoCharge,
         RunOK(setup, n, s, handle, r), ~InUse(r.phase)
  PROVE  HashInv'
  <1>1. NsOK(setup, n) /\ SameRows(setup, ns, n) /\ SharedOK(setup, n, s)
    BY SeenFacts
  <1> QED BY <1>1, QuietKeeps

\* The observation ends the run.
LEMMA SeenEnds ==
  ASSUME HashInv, NEW sp \in SpacesOf[setup], ns[sp].consent.given,
         NEW now \in Nat, now <= Horizon(setup), NEW n, n = Observed(ns, sp, now),
         NEW s, s = shared \/ s = Advanced(n, now),
         ~InUse(run.phase), ~At("idle")
  PROVE  RunOK(setup, n, s, handle, Ended) /\ ~InUse(Ended.phase)
  <1>1. setup \in DOMAIN Setups /\ NsOK(setup, ns) /\ RunOK(setup, ns, shared, handle, run)
    BY InvParts
  <1>2. HandleOK(setup, ns, handle)
    BY <1>1, HandleRests
  <1>3. SameRows(setup, ns, n) /\ s.set = shared.set
    BY SeenFacts
  <1>4. HandleOK(setup, n, handle)
    BY <1>1, <1>2, <1>3, SameRowsFacts
  <1>5. run.mode = "budgeted" => shared.set
    BY <1>1 DEF RunOK, At, InUse
  <1> QED BY <1>1, <1>3, <1>4, <1>5, EndedOK

LEMMA CloseOrCrash ==
  ASSUME HashInv, Close \/ Crash, setup' = setup
  PROVE  HashInv'
  <1>1. \/ handle' = "closed" /\ run' = Idle /\ UNCHANGED <<ns, shared, consumed, charged>>
        \/ handle' = "closed" /\ At("idle") /\ UNCHANGED <<ns, shared, run, consumed, charged>>
    BY DEF Close, Crash, NoCharge
  <1>2. setup \in DOMAIN Setups /\ NsOK(setup, ns) /\ SharedOK(setup, ns, shared)
        /\ ChargeOK(setup, ns, charged) /\ RunOK(setup, ns, shared, handle, run)
        /\ UseOK(setup, ns, run, consumed)
    BY InvParts
  <1>3. UseOK(setup, ns, Idle, consumed) /\ RunOK(setup, ns, shared, "closed", Idle)
    BY <1>2, UseIdle, RunIdle DEF HandleKinds
  <1>4. CASE handle' = "closed" /\ run' = Idle /\ UNCHANGED <<ns, shared, consumed, charged>>
    BY <1>2, <1>3, <1>4 DEF HashInv
  <1>5. CASE handle' = "closed" /\ At("idle") /\ UNCHANGED <<ns, shared, run, consumed, charged>>
    <2>1. Setups[setup].jobs \cap HandleKinds = {}
      BY <1>2, SetupFacts
    <2>2. RunOK(setup, ns, shared, "closed", run)
      BY <1>2, <1>5, <2>1 DEF RunOK, At, InUse, HandleKinds
    <2> QED BY <1>2, <1>5, <2>2 DEF HashInv
  <1> QED BY <1>1, <1>4, <1>5

\* The namespace whose consent the handle may change.
LEMMA ApproveReadKeeps ==
  ASSUME HashInv, NEW sp \in Spaces, NEW limits \in ReadLimits, ApproveRead(sp, limits),
         setup' = setup
  PROVE  HashInv'
  <1>1. PICK now \in Times :
          /\ ns[sp].budget.tres <= limits.life
          /\ Transact([ns EXCEPT ![sp].consent = NewConsent(limits, now, ns[sp].budget.tres)],
                      shared, Idle)
    BY DEF ApproveRead
  <1>2. MayConsent(sp) /\ ~ns[sp].consent.given /\ NoCharge
    BY DEF ApproveRead
  <1>3. setup \in DOMAIN Setups /\ NsOK(setup, ns) /\ sp \in SpacesOf[setup]
        /\ now \in Nat /\ now <= Setups[setup].maxTime /\ SharedOK(setup, ns, shared)
    BY InvParts, SpaceOf, TimeFacts
  <1> DEFINE c == NewConsent(limits, now, ns[sp].budget.tres)
             y == [ns[sp] EXCEPT !.consent = c]
             n == [ns EXCEPT ![sp].consent = c]
  <1>4. RowOK(setup, sp, ns[sp]) /\ DOMAIN ns = SpacesOf[setup]
    BY <1>3 DEF NsOK
  <1>5. ConsentOK(setup, sp, c, ns[sp].budget)
    BY <1>1, <1>2, <1>3, <1>4, NewConsentOK DEF ReadLimits
  <1>6. n = [ns EXCEPT ![sp] = y] /\ Transact(n, shared, Idle)
    BY <1>1
  <1> HIDE DEF c, n
  <1>7. RowOK(setup, sp, y)
    BY <1>4, <1>5, RowConsent
  <1>8. y.budget = ns[sp].budget /\ y.work = ns[sp].work
    BY <1>4 DEF RowOK
  <1> HIDE DEF y
  <1>9. NsOK(setup, n) /\ n[sp] = y /\ \A u \in SpacesOf[setup] : u # sp => n[u] = ns[u]
    BY <1>3, <1>4, <1>6, <1>7 DEF NsOK
  <1>10. SameRows(setup, ns, n)
    BY <1>8, <1>9 DEF SameRows
  <1>11. SharedOK(setup, n, shared)
    BY <1>3, <1>10, SameRowsFacts, SharedKept
  <1>12. RunOK(setup, n, shared, handle, Idle)
    <2>1. HandleOK(setup, ns, handle)
      BY <1>2, InvParts, HandleRests DEF MayConsent, At, InUse
    <2> QED BY <1>3, <1>10, <2>1, SameRowsFacts, IdleOK
  <1> QED BY <1>2, <1>3, <1>6, <1>9, <1>10, <1>11, <1>12, IdleRun, QuietKeeps

LEMMA RetryApprovalKeeps ==
  ASSUME HashInv, NEW sp \in Spaces, RetryApproval(sp), setup' = setup
  PROVE  HashInv'
  <1>1. PICK now \in Times :
          Transact(Observed(ns, sp, now),
                   IF sp = Original THEN Advanced(Observed(ns, sp, now), now) ELSE shared, Idle)
    BY DEF RetryApproval
  <1>2. At("idle") /\ ns[sp].consent.given /\ NoCharge
    BY DEF RetryApproval, MayConsent
  <1> DEFINE n == Observed(ns, sp, now)
             s == IF sp = Original THEN Advanced(n, now) ELSE shared
  <1>3. sp \in SpacesOf[setup] /\ now \in Nat /\ now <= Horizon(setup) /\ setup \in DOMAIN Setups
    BY SpaceOf, TimeFacts, InvParts
  <1>4. s = shared \/ s = Advanced(n, now)
    OBVIOUS
  <1>5. Transact(n, s, Idle) /\ n = Observed(ns, sp, now)
    BY <1>1
  <1> HIDE DEF n, s
  <1>6. HandleOK(setup, ns, handle)
    BY <1>2, InvParts, HandleRests DEF At, InUse
  <1>7. SameRows(setup, ns, n)
    BY <1>2, <1>3, <1>5, SeenFacts
  <1>8. HandleOK(setup, n, handle)
    BY <1>3, <1>6, <1>7, SameRowsFacts, InvParts
  <1>9. RunOK(setup, n, s, handle, Idle) /\ ~InUse(Idle.phase)
    BY <1>3, <1>8, IdleOK, IdleRun
  <1> QED BY <1>2, <1>3, <1>4, <1>5, <1>9, SeenKeeps

LEMMA RevokeReadKeeps ==
  ASSUME HashInv, NEW sp \in Spaces, RevokeRead(sp), setup' = setup
  PROVE  HashInv'
  <1>1. PICK now \in Times : Transact(RevokedAt(sp, now), shared, Idle)
    BY DEF RevokeRead
  <1>2. At("idle") /\ ns[sp].consent.given /\ NoCharge
    BY DEF RevokeRead, MayConsent
  <1>3. setup \in DOMAIN Setups /\ NsOK(setup, ns) /\ sp \in SpacesOf[setup]
        /\ now \in Nat /\ now <= Horizon(setup) /\ SharedOK(setup, ns, shared)
    BY InvParts, SpaceOf, TimeFacts
  <1> DEFINE o == ObservedConsent(ns, sp, now)
             c == [o EXCEPT !.revoked = TRUE]
             y == [ns[sp] EXCEPT !.consent = c]
             n == RevokedAt(sp, now)
  <1>4. RowOK(setup, sp, ns[sp]) /\ DOMAIN ns = SpacesOf[setup]
    BY <1>3 DEF NsOK
  <1>5. ConsentOK(setup, sp, o, ns[sp].budget) /\ o.given
    BY <1>2, <1>3, <1>4, ObservedFields DEF IsObserved
  <1>6. n = [ns EXCEPT ![sp] = y] /\ Transact(n, shared, Idle)
    BY <1>1 DEF RevokedAt
  <1> HIDE DEF o, n
  <1>7. ConsentOK(setup, sp, c, ns[sp].budget)
    BY <1>5, RevokedOK
  <1> HIDE DEF c
  <1>8. RowOK(setup, sp, y)
    BY <1>4, <1>7, RowConsent
  <1>9. y.budget = ns[sp].budget /\ y.work = ns[sp].work
    BY <1>4 DEF RowOK
  <1> HIDE DEF y
  <1>10. NsOK(setup, n) /\ n[sp] = y /\ \A u \in SpacesOf[setup] : u # sp => n[u] = ns[u]
    BY <1>3, <1>4, <1>6, <1>8 DEF NsOK
  <1>11. SameRows(setup, ns, n)
    BY <1>9, <1>10 DEF SameRows
  <1>12. SharedOK(setup, n, shared)
    BY <1>3, <1>11, SameRowsFacts, SharedKept
  <1>13. RunOK(setup, n, shared, handle, Idle)
    <2>1. HandleOK(setup, ns, handle)
      BY <1>2, InvParts, HandleRests DEF At, InUse
    <2> QED BY <1>3, <1>11, <2>1, SameRowsFacts, IdleOK
  <1> QED BY <1>2, <1>3, <1>6, <1>10, <1>11, <1>12, <1>13, IdleRun, QuietKeeps

\* The rows stay, and the run moves to a state that reads nothing.
LEMMA MoveKeeps ==
  ASSUME HashInv, UNCHANGED <<setup, ns, shared, handle>>, NoCharge,
         RunOK(setup, ns, shared, handle, run'), ~InUse(run'.phase)
  PROVE  HashInv'
  <1>1. UseOK(setup, ns, Idle, consumed)
    BY InvParts, UseIdle
  <1>2. UseOK(setup, ns, run', consumed)
    BY <1>1, InvParts, UseRest
  <1> QED BY <1>2, InvParts DEF HashInv, NoCharge

LEMMA StartIs ==
  ASSUME HashInv, NEW sp \in SpacesOf[setup], NEW mode, NEW phase,
         mode \in {"plain", "consented", "budgeted"}, phase \in {"observe", "choose", "finish"}
  PROVE  LET r == Start(sp, mode, phase)
         IN r \in Runs(setup) /\ r.phase = phase /\ r.space = sp /\ r.mode = mode /\ ~InUse(r.phase)
  <1>1. Idle \in Runs(setup)
    BY InvParts, IdleRun
  <1>2. PICK i \in Runs(setup) : i = Idle
    BY <1>1
  <1>3. Start(sp, mode, phase) = [i EXCEPT !.phase = phase, !.space = sp, !.mode = mode]
    BY <1>2 DEF Start
  <1> QED BY <1>3 DEF Runs, InUse

LEMMA StartKeeps ==
  ASSUME HashInv, setup' = setup, NEW sp \in Spaces, StartPlain \/ StartConsented(sp)
  PROVE  HashInv'
  <1>1. At("idle") /\ ~shared.set /\ NoCharge /\ UNCHANGED <<ns, shared, handle>>
    BY DEF StartPlain, StartConsented
  <1>2. HandleOK(setup, ns, handle) /\ RunOK(setup, ns, shared, handle, run)
    BY <1>1, InvParts, HandleRests DEF At, InUse
  <1>3. Original \in SpacesOf[setup] /\ sp \in SpacesOf[setup] /\ setup \in DOMAIN Setups
        /\ \A u \in SpacesOf[setup] : u # Original => u \in Setups[setup].jobs
    BY SpaceOf, InvParts, SpaceFacts
  <1>4. CASE StartPlain
    <2>1. run' = Start(Original, "plain", "choose") /\ handle = "writer"
          /\ ~ns[Original].consent.given
      BY <1>4 DEF StartPlain, Dispatches
    <2>2. run' \in Runs(setup) /\ run'.phase = "choose" /\ run'.space = Original
          /\ run'.mode = "plain" /\ ~InUse(run'.phase)
      BY <1>3, <2>1, StartIs, SMTT(40)
    <2>3. RunOK(setup, ns, shared, handle, run')
      BY <1>1, <1>2, <2>1, <2>2 DEF RunOK, HandleOK
    <2> QED BY <1>1, <2>2, <2>3, MoveKeeps
  <1>5. CASE StartConsented(sp)
    <2>1. run' = Start(sp, "consented", "observe") /\ ns[sp].consent.given
          /\ handle = (IF sp = Original THEN "writer" ELSE sp)
      BY <1>5 DEF StartConsented, Dispatches
    <2>2. run' \in Runs(setup) /\ run'.phase = "observe" /\ run'.space = sp
          /\ run'.mode = "consented" /\ ~InUse(run'.phase)
      BY <1>3, <2>1, StartIs
    <2>3. RunOK(setup, ns, shared, handle, run')
      BY <1>1, <1>2, <1>3, <2>1, <2>2 DEF RunOK, HandleOK
    <2> QED BY <1>1, <2>2, <2>3, MoveKeeps
  <1> QED BY <1>4, <1>5

LEMMA LessFacts ==
  ASSUME NEW a \in Nat, NEW b \in Nat
  PROVE  Less(a, b) \in Nat /\ Less(a, b) <= a /\ (b <= a => b + Less(a, b) = a)
         /\ (a < b => Less(a, b) = 0)
         /\ Least(a, b) \in Nat /\ Least(a, b) <= a /\ Least(a, b) <= b
  BY DEF Less, Least

LEMMA StartBudgetedKeeps ==
  ASSUME HashInv, setup' = setup, NEW sp \in Spaces, StartBudgeted(sp)
  PROVE  HashInv'
  <1>1. PICK now \in Times :
          LET s == SharedAt(ns, SharedHigh(ns, now))
              r == Start(sp, "budgeted", IF now < s.max THEN "finish" ELSE "observe")
          IN Transact(ns, s, [r EXCEPT !.available = Less(SharedLimit, s.res)])
    BY DEF StartBudgeted
  <1>2. At("idle") /\ NoCharge /\ ns[sp].consent.given
        /\ handle = (IF sp = Original THEN "writer" ELSE sp)
    BY DEF StartBudgeted, Dispatches
  <1> DEFINE s == SharedAt(ns, SharedHigh(ns, now))
             phase == IF now < s.max THEN "finish" ELSE "observe"
             q == Start(sp, "budgeted", phase)
             r == [q EXCEPT !.available = Less(SharedLimit, s.res)]
  <1>3. Transact(ns, s, r)
    BY <1>1
  <1>4. HandleOK(setup, ns, handle) /\ RunOK(setup, ns, shared, handle, run)
    BY <1>2, InvParts, HandleRests DEF At, InUse
  <1>5. sp \in SpacesOf[setup] /\ setup \in DOMAIN Setups /\ NsOK(setup, ns) /\ now \in Nat
        /\ SharedOK(setup, ns, shared)
        /\ \A u \in SpacesOf[setup] : u # Original => u \in Setups[setup].jobs
    BY SpaceOf, InvParts, SpaceFacts, TimeFacts
  <1>6. SharedHigh(ns, now) \in Nat /\ ClockHigh(ns) <= SharedHigh(ns, now)
    BY <1>5, AdvancedOK
  <1>7. SharedOK(setup, ns, s) /\ s.set /\ s \in SharedRows
    BY <1>5, <1>6, SharedAtOK DEF SharedOK
  <1>8. phase \in {"observe", "choose", "finish"}
    OBVIOUS
  <1> HIDE DEF s, phase
  <1>9. q \in Runs(setup) /\ q.phase = phase /\ q.space = sp /\ q.mode = "budgeted"
    BY <1>5, <1>8, StartIs
  <1> HIDE DEF q
  <1>10. Less(SharedLimit, s.res) \in Nat
    <2>1. SharedLimit \in Nat /\ s.res \in Nat
      BY <1>5, <1>7, SetupFacts DEF SharedLimit, SharedRows
    <2> QED BY <2>1, LessFacts
  <1>11. r \in Runs(setup) /\ r.phase = phase /\ r.space = sp /\ r.mode = "budgeted"
    BY <1>9, <1>10 DEF Runs
  <1> HIDE DEF r
  <1>12. ~InUse(r.phase) /\ r.phase \in {"observe", "finish"}
    BY <1>11 DEF phase, InUse
  <1>13. RunOK(setup, ns, s, handle, r)
    BY <1>2, <1>4, <1>5, <1>7, <1>11, <1>12 DEF RunOK, HandleOK
  <1>14. SameRows(setup, ns, ns)
    BY DEF SameRows
  <1> QED BY <1>2, <1>3, <1>5, <1>7, <1>12, <1>13, <1>14, QuietKeeps

LEMMA ObserveApprovalKeeps ==
  ASSUME HashInv, setup' = setup, ObserveApproval
  PROVE  HashInv'
  <1>1. PICK now \in Times :
          Transact(Observed(ns, Sp, now), Advanced(Observed(ns, Sp, now), now),
                   IF GuardBoth(Observed(ns, Sp, now), Sp, now) = "ok" THEN Going("choose") ELSE Ended)
    BY DEF ObserveApproval
  <1>2. At("observe") /\ NoCharge
    BY DEF ObserveApproval
  <1> DEFINE n == Observed(ns, Sp, now)
             s == Advanced(n, now)
             r == IF GuardBoth(n, Sp, now) = "ok" THEN Going("choose") ELSE Ended
  <1>3. Transact(n, s, r) /\ n = Observed(ns, Sp, now) /\ s = Advanced(n, now)
    BY <1>1
  <1>4. r = Going("choose") \/ r = Ended
    OBVIOUS
  <1>5. Sp \in SpacesOf[setup] /\ now \in Nat /\ now <= Horizon(setup) /\ setup \in DOMAIN Setups
        /\ RunOK(setup, ns, shared, handle, run) /\ run \in Runs(setup) /\ NsOK(setup, ns)
    BY SpaceOf, TimeFacts, InvParts
  <1>6. ns[Sp].consent.given /\ ~InUse(run.phase) /\ ~At("idle") /\ run.phase = "observe"
    BY <1>2, <1>5 DEF RunOK, At, Sp, InUse
  <1> HIDE DEF n, s, r
  <1>7. SameRows(setup, ns, n) /\ SameGiven(setup, ns, n) /\ s.set = shared.set
    BY <1>3, <1>5, <1>6, SeenFacts
  <1>8. CASE r = Ended
    <2>1. RunOK(setup, n, s, handle, Ended) /\ ~InUse(Ended.phase)
      BY <1>3, <1>5, <1>6, SeenEnds
    <2> QED BY <1>2, <1>3, <1>5, <1>6, <1>8, <2>1, SeenKeeps
  <1>9. CASE r = Going("choose")
    <2>1. /\ r \in Runs(setup) /\ r.phase = "choose" /\ r.space = run.space /\ r.mode = run.mode
          /\ ~InUse(r.phase)
      BY <1>5, <1>9 DEF Going, Runs, InUse
    <2>2. RunOK(setup, ns, shared, handle, r)
      BY <1>5, <1>6, <2>1 DEF RunOK, InUse
    <2>3. RunOK(setup, n, s, handle, r)
      BY <1>5, <1>7, <2>2, RunSame
    <2> QED BY <1>2, <1>3, <1>5, <1>6, <2>1, <2>3, SeenKeeps
  <1> QED BY <1>4, <1>8, <1>9

LEMMA GiveUpKeeps ==
  ASSUME HashInv, setup' = setup, GiveUp
  PROVE  HashInv'
  <1>1. /\ run.phase \in {"observe", "choose", "reserve", "finish"}
        /\ run' = (IF At("finish") THEN Idle ELSE Ended)
        /\ UNCHANGED <<ns, shared, handle>> /\ NoCharge
    BY DEF GiveUp
  <1>2. setup \in DOMAIN Setups /\ RunOK(setup, ns, shared, handle, run) /\ ~InUse(run.phase)
        /\ ~At("idle")
    BY <1>1, InvParts, SMTT(40) DEF InUse, At
  <1>3. HandleOK(setup, ns, handle) /\ (run.mode = "budgeted" => shared.set)
    BY <1>1, <1>2, HandleRests DEF RunOK
  <1>4. RunOK(setup, ns, shared, handle, Ended) /\ ~InUse(Ended.phase)
    BY <1>2, <1>3, EndedOK
  <1>5. RunOK(setup, ns, shared, handle, Idle) /\ ~InUse(Idle.phase)
    BY <1>2, <1>3, IdleOK, IdleRun
  <1>6. RunOK(setup, ns, shared, handle, run') /\ ~InUse(run'.phase)
    <2>1. CASE At("finish")
      BY <1>1, <1>5, <2>1
    <2>2. CASE ~At("finish")
      BY <1>1, <1>4, <2>2
    <2> QED BY <2>1, <2>2
  <1> QED BY <1>1, <1>6, MoveKeeps

LEMMA ExpireEarlyKeeps ==
  ASSUME HashInv, setup' = setup, ExpireEarly
  PROVE  HashInv'
  <1>1. /\ run.phase \in {"choose", "reserve"} /\ run.mode # "plain"
        /\ run' = Going("latch")
        /\ UNCHANGED <<ns, shared, handle>> /\ NoCharge
    BY DEF ExpireEarly
  <1>2. RunOK(setup, ns, shared, handle, run) /\ run \in Runs(setup)
    BY InvParts, SpaceOf
  <1>3. /\ run' \in Runs(setup) /\ run'.phase = "latch" /\ run'.space = run.space
        /\ run'.mode = run.mode /\ ~InUse(run'.phase)
    BY <1>1, <1>2 DEF Going, Runs, InUse
  <1>4. RunOK(setup, ns, shared, handle, run')
    BY <1>1, <1>2, <1>3 DEF RunOK, InUse
  <1> QED BY <1>1, <1>3, <1>4, MoveKeeps

LEMMA SaveSeenClockKeeps ==
  ASSUME HashInv, setup' = setup, SaveSeenClock
  PROVE  HashInv'
  <1>1. PICK now \in Times :
          Transact(Observed(ns, Sp, now), Advanced(Observed(ns, Sp, now), now), Ended)
    BY DEF SaveSeenClock
  <1>2. run.mode = "budgeted" /\ run.phase \in {"choose", "reserve"} /\ NoCharge
    BY DEF SaveSeenClock
  <1> DEFINE n == Observed(ns, Sp, now)
             s == Advanced(n, now)
  <1>3. Transact(n, s, Ended) /\ n = Observed(ns, Sp, now) /\ s = Advanced(n, now)
    BY <1>1
  <1>4. Sp \in SpacesOf[setup] /\ now \in Nat /\ now <= Horizon(setup)
        /\ RunOK(setup, ns, shared, handle, run)
    BY SpaceOf, TimeFacts, InvParts
  <1>5. ns[Sp].consent.given /\ ~InUse(run.phase) /\ ~At("idle")
    BY <1>2, <1>4 DEF RunOK, At, Sp, InUse
  <1> HIDE DEF n, s
  <1>6. RunOK(setup, n, s, handle, Ended) /\ ~InUse(Ended.phase)
    BY <1>3, <1>4, <1>5, SeenEnds
  <1> QED BY <1>2, <1>3, <1>4, <1>5, <1>6, SeenKeeps

LEMMA FinishBudgetKeeps ==
  ASSUME HashInv, setup' = setup, FinishBudget
  PROVE  HashInv'
  <1>1. PICK now \in Times : Transact(ns, Advanced(ns, now), Idle)
    BY DEF FinishBudget
  <1>2. At("finish") /\ NoCharge
    BY DEF FinishBudget
  <1>3. setup \in DOMAIN Setups /\ NsOK(setup, ns) /\ SharedOK(setup, ns, shared) /\ now \in Nat
        /\ RunOK(setup, ns, shared, handle, run)
    BY InvParts, TimeFacts
  <1>4. SharedOK(setup, ns, Advanced(ns, now))
    BY <1>3, AdvancedOK
  <1>5. HandleOK(setup, ns, handle)
    BY <1>2, <1>3, HandleRests DEF At, InUse
  <1>6. RunOK(setup, ns, Advanced(ns, now), handle, Idle) /\ ~InUse(Idle.phase)
    BY <1>3, <1>5, IdleOK, IdleRun
  <1>7. SameRows(setup, ns, ns)
    BY DEF SameRows
  <1> QED BY <1>1, <1>2, <1>3, <1>4, <1>6, <1>7, QuietKeeps

LEMMA LatchExpiryKeeps ==
  ASSUME HashInv, setup' = setup, LatchExpiry
  PROVE  HashInv'
  <1>1. At("latch") /\ NoCharge
    BY DEF LatchExpiry
  <1>2. setup \in DOMAIN Setups /\ NsOK(setup, ns) /\ SharedOK(setup, ns, shared)
        /\ RunOK(setup, ns, shared, handle, run) /\ Sp \in SpacesOf[setup]
    BY InvParts, SpaceOf
  <1>3. ns[Sp].consent.given /\ ~InUse(run.phase) /\ ~At("idle") /\ (run.mode = "budgeted" => shared.set)
    BY <1>1, <1>2 DEF RunOK, At, Sp, InUse
  <1>4. PICK clock \in Times :
          LET now == Latest(clock, ExpiresAt(Con))
              n == Observed(ns, Sp, now)
          IN IF Sp = Original THEN Transact(n, Advanced(n, now), Ended)
             ELSE Transact(IF Con.expired THEN ns ELSE n, shared, Ended)
    BY DEF LatchExpiry
  <1>5. PICK now \in Nat : now = Latest(clock, ExpiresAt(Con)) /\ now <= Horizon(setup)
    BY <1>2, <1>3, TimeFacts DEF Con
  <1> DEFINE n == Observed(ns, Sp, now)
  <1>6. \/ Transact(n, Advanced(n, now), Ended)
        \/ Transact(n, shared, Ended)
        \/ Transact(ns, shared, Ended)
    BY <1>4, <1>5
  <1>7. n = Observed(ns, Sp, now)
    OBVIOUS
  <1> HIDE DEF n
  <1>8. CASE Transact(n, Advanced(n, now), Ended)
    <2>1. PICK s : s = Advanced(n, now)
      OBVIOUS
    <2>2. RunOK(setup, n, s, handle, Ended) /\ ~InUse(Ended.phase)
      BY <1>2, <1>3, <1>5, <1>7, <2>1, SeenEnds
    <2> QED BY <1>1, <1>2, <1>3, <1>5, <1>7, <1>8, <2>1, <2>2, SeenKeeps
  <1>9. CASE Transact(n, shared, Ended)
    <2>2. RunOK(setup, n, shared, handle, Ended) /\ ~InUse(Ended.phase)
      BY <1>2, <1>3, <1>5, <1>7, SeenEnds
    <2> QED BY <1>1, <1>2, <1>3, <1>5, <1>7, <1>9, <2>2, SeenKeeps
  <1>10. CASE Transact(ns, shared, Ended)
    <2>1. HandleOK(setup, ns, handle)
      BY <1>2, <1>3, HandleRests
    <2>2. RunOK(setup, ns, shared, handle, Ended) /\ ~InUse(Ended.phase)
      BY <1>2, <1>3, <2>1, EndedOK
    <2>3. SameRows(setup, ns, ns)
      BY DEF SameRows
    <2> QED BY <1>1, <1>2, <1>10, <2>2, <2>3, QuietKeeps
  <1> QED BY <1>6, <1>8, <1>9, <1>10

\* What the limits leave is a number of bytes.
LEMMA AvailableNat ==
  ASSUME HashInv, NEW b \in Budgets
  PROVE  /\ Available(b) \in Nat
         /\ run.mode # "plain" =>
              /\ Available(b) <= Less(Con.daily, b.res) /\ Available(b) <= Less(Con.life, b.tres)
              /\ Less(Con.daily, b.res) \in Nat /\ Less(Con.life, b.tres) \in Nat
              /\ Con.daily \in Nat /\ Con.life \in Nat
  <1>1. Sp \in SpacesOf[setup] /\ setup \in DOMAIN Setups /\ NsOK(setup, ns)
    BY SpaceOf, InvParts
  <1>2. Con \in Consents
    BY <1>1 DEF NsOK, RowOK, ConsentOK, Con
  <1>3. Con.daily \in Nat /\ Con.life \in Nat /\ b.res \in Nat /\ b.tres \in Nat
    BY <1>2 DEF Consents, Budgets
  <1>4. PlainLimit \in Nat /\ PlainTotal \in Nat
    BY <1>1, SetupFacts DEF PlainLimit, PlainTotal
  <1>5. /\ Less(Con.daily, b.res) \in Nat /\ Less(Con.life, b.tres) \in Nat
        /\ Less(PlainLimit, b.res) \in Nat /\ Less(PlainTotal, b.tres) \in Nat
    BY <1>3, <1>4, LessFacts
  <1>6. CASE run.mode = "plain"
    BY <1>5, <1>6, LessFacts DEF Available
  <1>7. CASE run.mode # "plain"
    <2>1. Available(b) = Least(Less(Con.daily, b.res), Less(Con.life, b.tres))
      BY <1>7 DEF Available
    <2> QED BY <1>3, <1>5, <1>7, <2>1, LessFacts
  <1> QED BY <1>6, <1>7

LEMMA LeftNat ==
  ASSUME HashInv, NEW sp \in SpacesOf[setup], NEW w \in WorksIn(setup, sp)
  PROVE  /\ BytesLeft(sp, w) \in Nat /\ Setups[setup].size[w] \in Nat /\ ns[sp].work[w].off \in Nat
         /\ ns[sp].work[w].off + BytesLeft(sp, w) = Setups[setup].size[w]
  <1>1. setup \in DOMAIN Setups /\ RowOK(setup, sp, ns[sp])
    BY InvParts DEF NsOK
  <1>2. ns[sp].work[w].off \in Nat /\ Setups[setup].size[w] \in Nat
    BY <1>1, RowFields, SMTT(40)
  <1>3. ns[sp].work[w].off <= Setups[setup].size[w]
    BY <1>1 DEF RowOK, WorkOK
  <1> QED BY <1>2, <1>3 DEF BytesLeft, Size

LEMMA ChooseKeeps ==
  ASSUME HashInv, setup' = setup, Choose
  PROVE  HashInv'
  <1>1. PICK now \in Times, w \in WorksOf(Sp) :
          LET b == BudgetAt(Bud, now)
              available == IF run.mode = "budgeted" THEN Least(run.available, Available(b))
                                                     ELSE Available(b)
          IN /\ now >= (IF Sp = Original THEN Bud.max ELSE Con.high)
             /\ FirstMovable(w, available)
             /\ run' = [run EXCEPT !.phase = "reserve", !.work = w, !.available = 0,
                                   !.grant = Grant(BytesLeft(Sp, w), available),
                                   !.at = IF run.mode = "plain" THEN now ELSE 0]
    BY DEF Choose
  <1>2. At("choose") /\ NoCharge /\ UNCHANGED <<ns, shared, handle>>
    BY DEF Choose
  <1>3. /\ setup \in DOMAIN Setups /\ NsOK(setup, ns) /\ RunOK(setup, ns, shared, handle, run)
        /\ Sp \in SpacesOf[setup] /\ run \in Runs(setup) /\ w \in WorksIn(setup, Sp)
        /\ now \in Nat /\ now <= Setups[setup].maxTime /\ now <= Horizon(setup)
    BY InvParts, SpaceOf, TimeFacts
  <1> DEFINE b == BudgetAt(Bud, now)
             available == IF run.mode = "budgeted" THEN Least(run.available, Available(b))
                                                    ELSE Available(b)
             grant == Grant(BytesLeft(Sp, w), available)
             at == IF run.mode = "plain" THEN now ELSE 0
  <1>4. /\ now >= (IF Sp = Original THEN Bud.max ELSE Con.high)
        /\ FirstMovable(w, available)
        /\ run' = [run EXCEPT !.phase = "reserve", !.work = w, !.available = 0, !.grant = grant,
                              !.at = at]
    BY <1>1
  <1>5. Bud.max <= now
    <2>1. ConsentOK(setup, Sp, Con, Bud) /\ BudgetOK(setup, Bud)
      BY <1>3 DEF NsOK, RowOK, Con, Bud
    <2>2. Bud.max \in Nat /\ Con.high \in Nat
      BY <2>1 DEF ConsentOK, BudgetOK, Budgets, Consents
    <2>3. CASE Sp = Original
      BY <1>3, <1>4, <2>2, <2>3
    <2>4. CASE Sp # Original
      <3>1. CASE Bud.set
        BY <1>3, <1>4, <2>1, <2>2, <2>4, <3>1 DEF ConsentOK
      <3>2. CASE ~Bud.set
        <4>1. Bud.max = 0
          BY <2>1, <3>2 DEF BudgetOK, NoBudget
        <4> QED BY <1>3, <4>1
      <3> QED BY <3>1, <3>2
    <2> QED BY <2>3, <2>4
  <1>6. b \in Budgets
    <2>1. BudgetOK(setup, Bud)
      BY <1>3 DEF NsOK, RowOK, Bud
    <2> QED BY <1>3, <1>5, <2>1, RolledIs DEF RolledTo, BudgetOK
  <1> HIDE DEF b
  <1>7. available \in Nat
    <2>1. Available(b) \in Nat /\ run.available \in Nat
      BY <1>3, <1>6, AvailableNat DEF Runs
    <2> QED BY <2>1, LessFacts
  <1> HIDE DEF available
  <1>8. /\ grant \in Nat /\ grant <= StepLimit
        /\ ns[Sp].work[w].off + grant <= Setups[setup].size[w]
    <2>1. /\ BytesLeft(Sp, w) \in Nat /\ Setups[setup].size[w] \in Nat /\ ns[Sp].work[w].off \in Nat
          /\ ns[Sp].work[w].off + BytesLeft(Sp, w) = Setups[setup].size[w]
      BY <1>3, LeftNat
    <2>2. grant \in Nat /\ grant <= BytesLeft(Sp, w) /\ grant <= StepLimit
      BY <1>7, <2>1, GrantFacts
    <2> HIDE DEF grant
    <2> QED BY <2>1, <2>2
  <1>9. at \in Nat /\ (run.mode = "plain" => at = now) /\ w \in Nat
    BY <1>3, SpaceFacts
  <1> HIDE DEF grant, at
  <1>10. ns[Sp].work[w].status = "pending"
    BY <1>4 DEF FirstMovable, Movable
  <1>11. /\ run' \in Runs(setup) /\ run'.phase = "reserve" /\ run'.space = run.space
         /\ run'.mode = run.mode /\ run'.work = w /\ run'.grant = grant /\ run'.at = at
    BY <1>3, <1>4, <1>8, <1>9 DEF Runs
  <1>12. RunOK(setup, ns, shared, handle, run') /\ ~InUse(run'.phase)
    <2>1. run.phase = "choose" /\ ~InUse("reserve") /\ ~InUse("choose")
      BY <1>2 DEF At, InUse
    <2>2. run'.mode = "plain" => ns[run'.space].budget.max <= run'.at /\ run'.at <= Setups[setup].maxTime
      BY <1>3, <1>5, <1>9, <1>11 DEF Bud, Sp
    <2> QED BY <1>3, <1>8, <1>10, <1>11, <2>1, <2>2 DEF RunOK, Sp
  <1> QED BY <1>2, <1>12, MoveKeeps

LEMMA InventoryChangedKeeps ==
  ASSUME HashInv, setup' = setup, InventoryChanged
  PROVE  HashInv'
  <1> DEFINE w == run.work
             x == ns[Original]
             v == [x.work[w] EXCEPT !.status = "invalidated"]
             y == [x EXCEPT !.work = [x.work EXCEPT ![w] = v]]
             n == [ns EXCEPT ![Sp].work[run.work].status = "invalidated"]
  <1>1. At("reserve") /\ Sp = Original /\ Transact(n, shared, Ended) /\ NoCharge
    BY DEF InventoryChanged
  <1>2. setup \in DOMAIN Setups /\ NsOK(setup, ns) /\ RunOK(setup, ns, shared, handle, run)
        /\ SharedOK(setup, ns, shared) /\ Original \in SpacesOf[setup]
    BY InvParts, SpaceOf
  <1>3. w \in WorksIn(setup, Original) /\ x.work[w].status = "pending" /\ ~InUse(run.phase)
        /\ ~At("idle") /\ (run.mode = "budgeted" => shared.set)
    BY <1>1, <1>2 DEF RunOK, At, Sp, InUse
  <1>4. RowOK(setup, Original, x) /\ DOMAIN ns = SpacesOf[setup]
    BY <1>2 DEF NsOK
  <1>5. DOMAIN x = {"budget", "consent", "work", "queue"} /\ x.work \in [WorksIn(setup, Original) -> WorkRows]
    BY <1>4 DEF RowOK
  <1>6. n = [ns EXCEPT ![Original] = y]
    BY <1>1
  <1>7. RowChanged(x, y, x.budget, x.consent, w, v)
    BY <1>5 DEF RowChanged
  <1>8. RowOK(setup, Original, y)
    <2> HIDE DEF y, x, w
    <2> QED BY <1>2, <1>3, <1>4, <1>7, RowInvalidated
  <1>9. y.budget = x.budget /\ y.work = [x.work EXCEPT ![w] = v]
    BY <1>7 DEF RowChanged
  <1>10. v.status = "invalidated" /\ v.attempt = x.work[w].attempt /\ v.off = x.work[w].off
    <2>1. x.work[w] \in WorkRows
      BY <1>3, <1>5
    <2> HIDE DEF x, w
    <2> QED BY <2>1 DEF WorkRows
  <1> HIDE DEF n, y, v
  <1>11. NsOK(setup, n) /\ n[Original] = y /\ \A u \in SpacesOf[setup] : u # Original => n[u] = ns[u]
    BY <1>2, <1>4, <1>6, <1>8 DEF NsOK
  <1>12. Unspent(setup, ns, n)
    <2> SUFFICES ASSUME NEW sp \in SpacesOf[setup]
                 PROVE  LET b == ns[sp].budget
                            c == n[sp].budget
                        IN /\ b.day <= c.day /\ c.tres = b.tres
                           /\ \A d : DayRes(c, d) = DayRes(b, d)
                           /\ b.tres > 0 => c.max = b.max
      BY DEF Unspent
    <2>1. n[sp].budget = ns[sp].budget
      BY <1>9, <1>11
    <2>2. ns[sp].budget.day \in Nat
      BY <1>2, BudgetNats
    <2> QED BY <2>1, <2>2
  <1>13. HandleOK(setup, ns, handle) /\ handle = "writer" /\ NoneRunning(setup, ns, Original)
    BY <1>1, <1>2, <1>3, HandleRests DEF RunOK, At, Sp, HandleOK
  <1>14. NoneRunning(setup, n, Original)
    BY <1>3, <1>5, <1>9, <1>10, <1>11, <1>13 DEF NoneRunning
  <1>15. HandleOK(setup, n, handle)
    <2>1. "writer" \notin Setups[setup].jobs
      BY <1>2, SetupFacts DEF HandleKinds
    <2> QED BY <1>13, <1>14, <2>1 DEF HandleOK
  <1>16. RunOK(setup, n, shared, handle, Ended) /\ ~InUse(Ended.phase)
    BY <1>2, <1>3, <1>15, EndedOK
  <1>17. UseOK(setup, n, Idle, consumed)
    <2>1. UseOK(setup, ns, Idle, consumed)
      BY <1>2, InvParts, UseIdle
    <2>2. ASSUME NEW sp \in SpacesOf[setup]
          PROVE  Booking(setup, sp, ns[sp]) <= Booking(setup, sp, n[sp])
      <3>1. RowOK(setup, sp, ns[sp]) /\ RowOK(setup, sp, n[sp])
        BY <1>2, <1>11 DEF NsOK
      <3>2. n[sp].budget = ns[sp].budget
        BY <1>9, <1>11
      <3>3. Held(setup, sp, n[sp]) = Held(setup, sp, ns[sp])
        <4>1. CASE sp = Original
          BY <1>2, <1>13, <1>14, <3>1, <4>1, HeldFacts DEF NoneRunning
        <4>2. CASE sp # Original
          BY <1>11, <4>2
        <4> QED BY <4>1, <4>2
      <3>4. Held(setup, sp, n[sp]) \in Nat /\ n[sp].budget.treq \in Nat /\ n[sp].budget.tunk \in Nat
        BY <1>2, <1>11, <3>1, HeldFacts, BudgetNats
      <3> QED BY <3>2, <3>3, <3>4 DEF Booking
    <2> QED BY <1>2, <1>11, <2>1, <2>2, UseGrows
  <1>18. SharedOK(setup, n, shared)
    BY <1>2, <1>12, SharedKept
  <1> QED BY <1>1, <1>11, <1>12, <1>16, <1>17, <1>18, UnspentKeeps

\* One namespace of the candidate differs.
OneRow(k, n, m, sp, y) ==
  m[sp] = y /\ \A u \in SpacesOf[k] : u # sp => m[u] = n[u]

\* The budget keeps its charge.
SameCharge(b, c) ==
  /\ b.day <= c.day /\ c.tres = b.tres /\ (\A d : DayRes(c, d) = DayRes(b, d))
  /\ b.tres > 0 => c.max = b.max
LEMMA UnspentRow ==
  ASSUME NEW k \in DOMAIN Setups, NEW n, NEW m, NsOK(k, n), NEW sp \in SpacesOf[k], NEW y,
         OneRow(k, n, m, sp, y), SameCharge(n[sp].budget, y.budget)
  PROVE  Unspent(k, n, m)
  <1> SUFFICES ASSUME NEW u \in SpacesOf[k] PROVE SameCharge(n[u].budget, m[u].budget)
    BY DEF Unspent, SameCharge
  <1>1. CASE u = sp
    BY <1>1 DEF OneRow
  <1>2. CASE u # sp
    <2>1. m[u] = n[u] /\ n[u].budget.day \in Nat
      BY <1>2, BudgetNats DEF OneRow
    <2> QED BY <2>1 DEF SameCharge
  <1> QED BY <1>1, <1>2

LEMMA BookingNat ==
  ASSUME NEW k \in DOMAIN Setups, NEW n, NsOK(k, n), NEW sp \in SpacesOf[k]
  PROVE  Booking(k, sp, n[sp]) \in Nat
  <1>1. Held(k, sp, n[sp]) \in Nat /\ n[sp].budget.treq \in Nat /\ n[sp].budget.tunk \in Nat
    BY HeldFacts, BudgetNats DEF NsOK
  <1> QED BY <1>1 DEF Booking

LEMMA BookingRow ==
  ASSUME NEW k \in DOMAIN Setups, NEW n, NEW m, NsOK(k, n), NEW sp \in SpacesOf[k], NEW y,
         OneRow(k, n, m, sp, y), Booking(k, sp, n[sp]) <= Booking(k, sp, y)
  PROVE  \A u \in SpacesOf[k] : Booking(k, u, n[u]) <= Booking(k, u, m[u])
  <1> SUFFICES ASSUME NEW u \in SpacesOf[k] PROVE Booking(k, u, n[u]) <= Booking(k, u, m[u])
    OBVIOUS
  <1>1. CASE u = sp
    BY <1>1 DEF OneRow
  <1>2. CASE u # sp
    <2>1. m[u] = n[u] /\ Booking(k, u, n[u]) \in Nat
      BY <1>2, BookingNat DEF OneRow
    <2> QED BY <2>1
  <1> QED BY <1>1, <1>2

\* What opening a writer may leave: nothing charged, nothing lost.
IsOpened(k, n, m) ==
  /\ NsOK(k, m) /\ Unspent(k, n, m)
  /\ \A u \in SpacesOf[k] : Booking(k, u, n[u]) <= Booking(k, u, m[u])

LEMMA OpenKeeps ==
  ASSUME HashInv, setup' = setup, NEW as, NEW n, Open(as, n), IsOpened(setup, ns, n),
         HandleOK(setup, n, as)
  PROVE  HashInv'
  <1>1. /\ handle = "closed" /\ ns' = n /\ handle' \in {as, "closed"}
        /\ shared' = shared /\ run' = run /\ consumed' = consumed /\ charged' = charged
    BY DEF Open, NoCharge
  <1>2. /\ setup \in DOMAIN Setups /\ NsOK(setup, ns) /\ SharedOK(setup, ns, shared)
        /\ ChargeOK(setup, ns, charged) /\ RunOK(setup, ns, shared, handle, run)
        /\ UseOK(setup, ns, run, consumed) /\ run \in Runs(setup)
    BY InvParts, SpaceOf
  <1>3. Setups[setup].jobs \cap HandleKinds = {}
    BY <1>2, SetupFacts
  <1>4. run.phase = "idle" /\ ~InUse(run.phase)
    BY <1>1, <1>2, <1>3 DEF RunOK, HandleKinds, InUse
  <1>5. SharedOK(setup, n, shared) /\ ChargeOK(setup, n, charged)
    BY <1>2, SharedKept, ChargeKept DEF IsOpened
  <1>6. HandleOK(setup, n, "closed")
    BY <1>3 DEF HandleOK, HandleKinds
  <1>7. RunOK(setup, n, shared, handle', run)
    BY <1>1, <1>2, <1>4, <1>6 DEF RunOK, HandleOK
  <1>8. UseOK(setup, n, Idle, consumed)
    <2>1. UseOK(setup, ns, Idle, consumed)
      BY <1>2, UseIdle
    <2> QED BY <1>2, <2>1, UseGrows DEF IsOpened
  <1>9. UseOK(setup, n, run, consumed)
    BY <1>2, <1>4, <1>7, <1>8, UseRest DEF IsOpened
  <1> QED BY <1>1, <1>2, <1>5, <1>7, <1>9 DEF HashInv, IsOpened

LEMMA SameOpened ==
  ASSUME HashInv
  PROVE  IsOpened(setup, ns, ns)
  <1>1. NsOK(setup, ns) /\ setup \in DOMAIN Setups
    BY InvParts
  <1>2. SameRows(setup, ns, ns)
    BY DEF SameRows
  <1> QED BY <1>1, <1>2, SameRowsFacts DEF IsOpened

LEMMA RecoveredFields ==
  ASSUME NEW b \in Budgets, NEW a, a.grant \in Nat
  PROVE  LET c == RecoveredBudget(b, a)
         IN /\ c \in Budgets /\ c.set = b.set /\ c.day = b.day /\ c.max = b.max /\ c.res = b.res
            /\ c.tres = b.tres /\ c.treq = b.treq /\ c.tunk = b.tunk + a.grant
  <1>1. PICK t \in Nat : t = b.tunk + a.grant
    BY DEF Budgets
  <1>2. PICK u \in Nat : u = IF b.day = a.day THEN b.unk + a.grant ELSE b.unk
    BY DEF Budgets
  <1>3. RecoveredBudget(b, a) = [b EXCEPT !.tunk = t, !.unk = u]
    BY <1>1, <1>2 DEF RecoveredBudget
  <1> QED BY <1>1, <1>3 DEF Budgets

\* The row of a recovered work.
RecoveredRow(n, sp, w) ==
  /\ w \in WorksIn(setup, sp) /\ ns[sp].work[w].status = "running"
  /\ OneRow(setup, ns, n, sp, n[sp])
  /\ RowChanged(ns[sp], n[sp], RecoveredBudget(ns[sp].budget, ns[sp].work[w].attempt),
                ns[sp].consent, w,
                [ns[sp].work[w] EXCEPT !.status = "pending", !.attempt.status = "interrupted_unknown"])

LEMMA RecoveredOK ==
  ASSUME HashInv, NEW sp \in SpacesOf[setup], NEW n, n = Recovered(sp)
  PROVE  /\ IsOpened(setup, ns, n) /\ NoneRunning(setup, n, sp)
         /\ n[sp].budget.set = ns[sp].budget.set
         /\ n = ns \/ \E w : RecoveredRow(n, sp, w)
  <1>1. setup \in DOMAIN Setups /\ NsOK(setup, ns) /\ WorksOf(sp) = WorksIn(setup, sp)
    BY InvParts, SpaceOf
  <1>2. CASE Running(sp) = {}
    <2>1. n = ns
      BY <1>2 DEF Recovered
    <2>2. NoneRunning(setup, ns, sp)
      BY <1>1, <1>2 DEF Running, NoneRunning
    <2> QED BY <2>1, <2>2, SameOpened
  <1>3. CASE Running(sp) # {}
    <2> DEFINE x == ns[sp]
               w == CHOOSE q \in Running(sp) : TRUE
               a == x.work[w].attempt
               v == [x.work[w] EXCEPT !.status = "pending", !.attempt.status = "interrupted_unknown"]
               c == RecoveredBudget(x.budget, a)
               y == [x EXCEPT !.budget = c, !.work = [x.work EXCEPT ![w] = v]]
    <2>1. w \in Running(sp)
      BY <1>3
    <2>2. w \in WorksIn(setup, sp) /\ x.work[w].status = "running"
      BY <1>1, <2>1 DEF Running
    <2>3. RowOK(setup, sp, x) /\ DOMAIN ns = SpacesOf[setup]
      BY <1>1 DEF NsOK
    <2>4. DOMAIN x = {"budget", "consent", "work", "queue"} /\ x.work \in [WorksIn(setup, sp) -> WorkRows]
          /\ x.work[w] \in WorkRows /\ a \in AttemptRows /\ x.budget \in Budgets
      BY <1>1, <2>2, <2>3, RowFields DEF RowOK
    <2>5. n = [ns EXCEPT ![sp].budget = c, ![sp].work[w] = v]
      BY <1>3 DEF Recovered
    <2>6. n = [ns EXCEPT ![sp] = y]
      <3> HIDE DEF w, c, v
      <3> QED BY <2>2, <2>3, <2>4, <2>5
    <2> HIDE DEF w
    <2>7. RowChanged(x, y, c, x.consent, w, v)
      BY <2>4 DEF RowChanged
    <2>8. y.budget = c /\ y.work = [x.work EXCEPT ![w] = v]
      BY <2>7 DEF RowChanged
    <2>9. RowOK(setup, sp, y)
      <3> HIDE DEF y, x
      <3> QED BY <1>1, <2>2, <2>3, <2>7, RowRecovered
    <2>10. v.status = "pending"
      BY <2>4 DEF WorkRows
    <2>11. c.set = x.budget.set /\ c.day = x.budget.day /\ c.max = x.budget.max
           /\ c.res = x.budget.res /\ c.tres = x.budget.tres /\ c.treq = x.budget.treq
           /\ c.tunk = x.budget.tunk + a.grant /\ a.grant \in Nat
      <3>1. a.grant \in Nat
        BY <2>4 DEF AttemptRows
      <3> QED BY <2>4, <3>1, RecoveredFields
    <2>12. \A u \in WorksIn(setup, sp) : y.work[u].status # "running"
      <3>1. OpenOK(WorksIn(setup, sp), x.budget, x.work)
        BY <2>3 DEF RowOK
      <3>2. \A u \in WorksIn(setup, sp) : x.work[u].status = "running" => u = w
        BY <2>2, <3>1 DEF OpenOK
      <3> HIDE DEF y, v, x
      <3> QED BY <2>2, <2>4, <2>8, <2>10, <3>2
    <2> HIDE DEF y
    <2>19. n[sp] = y /\ OneRow(setup, ns, n, sp, n[sp])
      BY <1>1, <2>3, <2>6 DEF OneRow
    <2>20. RecoveredRow(n, sp, w)
      BY <2>2, <2>7, <2>19 DEF RecoveredRow
    <2> HIDE DEF v, c
    <2>13. NsOK(setup, n) /\ OneRow(setup, ns, n, sp, y)
      BY <1>1, <2>3, <2>6, <2>9 DEF NsOK, OneRow
    <2>14. n[sp] = y
      BY <2>13 DEF OneRow
    <2>15. Unspent(setup, ns, n)
      <3>1. x.budget.day \in Nat
        BY <1>1, BudgetNats
      <3>2. SameCharge(x.budget, y.budget)
        BY <2>8, <2>11, <3>1 DEF SameCharge, DayRes
      <3> QED BY <1>1, <2>13, <3>2, UnspentRow
    <2>16. Booking(setup, sp, x) <= Booking(setup, sp, y)
      <3>1. Held(setup, sp, x) = a.grant /\ Held(setup, sp, y) = 0
        BY <1>1, <2>2, <2>3, <2>9, <2>12, HeldFacts
      <3>2. x.budget.treq \in Nat /\ x.budget.tunk \in Nat
        BY <1>1, BudgetNats
      <3> QED BY <2>8, <2>11, <3>1, <3>2 DEF Booking
    <2>17. \A u \in SpacesOf[setup] : Booking(setup, u, ns[u]) <= Booking(setup, u, n[u])
      BY <1>1, <2>13, <2>16, BookingRow
    <2>18. NoneRunning(setup, n, sp)
      BY <2>12, <2>14 DEF NoneRunning
    <2> QED BY <2>8, <2>11, <2>13, <2>14, <2>15, <2>17, <2>18, <2>20 DEF IsOpened
  <1> QED BY <1>2, <1>3

LEMMA InitializedOK ==
  ASSUME HashInv, NEW j \in Setups[setup].jobs, ~ns[j].budget.set, ns[j].consent.given,
         NEW n, n = Initialized(j)
  PROVE  /\ IsOpened(setup, ns, n) /\ NoneRunning(setup, n, j) /\ n[j].budget.set
         /\ OneRow(setup, ns, n, j, n[j]) /\ n[j].work = ns[j].work /\ n[j].consent = ns[j].consent
         /\ ns[j].budget = NoBudget
  <1>1. setup \in DOMAIN Setups /\ NsOK(setup, ns) /\ j \in SpacesOf[setup]
    BY InvParts, SpaceOf
  <1> DEFINE x == ns[j]
             b == [NoBudget EXCEPT !.set = TRUE, !.day = DayOf(x.consent.high), !.max = x.consent.high]
             y == [x EXCEPT !.budget = b]
  <1>2. RowOK(setup, j, x) /\ DOMAIN ns = SpacesOf[setup]
    BY <1>1 DEF NsOK
  <1>3. DOMAIN x = {"budget", "consent", "work", "queue"}
    BY <1>2 DEF RowOK
  <1>4. n = [ns EXCEPT ![j] = y]
    BY DEF Initialized
  <1>5. DOMAIN y = DOMAIN x /\ y.consent = x.consent /\ y.work = x.work /\ y.budget = b
    BY <1>3
  <1> HIDE DEF y
  <1>6. RowOK(setup, j, y) /\ y.budget.tres = 0 /\ y.budget.res = 0 /\ y.budget.set
    BY <1>1, <1>2, <1>5, RowInitialized
  <1>7. x.budget = NoBudget
    BY <1>2 DEF RowOK, BudgetOK
  <1>8. \A w \in WorksIn(setup, j) : x.work[w].status # "running"
    BY <1>2 DEF RowOK, OpenOK
  <1>9. NsOK(setup, n) /\ OneRow(setup, ns, n, j, y)
    BY <1>1, <1>2, <1>4, <1>6 DEF NsOK, OneRow
  <1>10. n[j] = y
    BY <1>9 DEF OneRow
  <1>11. y.budget.treq = 0 /\ y.budget.tunk = 0 /\ y.budget.day \in Nat
    <2>1. y.budget.day \in Nat
      BY <1>6 DEF RowOK, BudgetOK, Budgets
    <2> QED BY <1>5, <2>1 DEF NoBudget
  <1>12. Unspent(setup, ns, n)
    <2>1. SameCharge(x.budget, y.budget)
      BY <1>6, <1>7, <1>11 DEF SameCharge, DayRes, NoBudget
    <2> QED BY <1>1, <1>9, <2>1, UnspentRow
  <1>13. Booking(setup, j, x) <= Booking(setup, j, y)
    <2>1. Held(setup, j, x) = 0 /\ Held(setup, j, y) = 0
      BY <1>1, <1>2, <1>5, <1>6, <1>8, HeldFacts
    <2> QED BY <1>7, <1>11, <2>1 DEF Booking, NoBudget
  <1>14. \A u \in SpacesOf[setup] : Booking(setup, u, ns[u]) <= Booking(setup, u, n[u])
    BY <1>1, <1>9, <1>13, BookingRow
  <1>15. NoneRunning(setup, n, j)
    BY <1>5, <1>8, <1>10 DEF NoneRunning
  <1> QED BY <1>5, <1>6, <1>7, <1>9, <1>10, <1>12, <1>14, <1>15 DEF IsOpened

LEMMA OpensKeep ==
  ASSUME HashInv, setup' = setup,
         OpenWriter \/ OpenSelectionWriter \/ \E j \in Jobs : OpenFreshRunWriter(j)
  PROVE  HashInv'
  <1>1. Setups[setup].jobs \cap HandleKinds = {} /\ Original \in SpacesOf[setup]
        /\ Jobs = Setups[setup].jobs /\ Jobs \subseteq SpacesOf[setup]
    BY InvParts, SetupFacts, SpaceOf
  <1>2. CASE OpenWriter
    <2>1. PICK n : n = Recovered(Original) /\ Open("writer", n)
      BY <1>2 DEF OpenWriter
    <2>2. IsOpened(setup, ns, n) /\ NoneRunning(setup, n, Original)
      BY <1>1, <2>1, RecoveredOK
    <2>3. HandleOK(setup, n, "writer")
      BY <1>1, <2>2 DEF HandleOK, HandleKinds
    <2> QED BY <2>1, <2>2, <2>3, OpenKeeps
  <1>3. CASE OpenSelectionWriter
    <2>1. HandleOK(setup, ns, "selection")
      BY <1>1 DEF HandleOK, HandleKinds
    <2> QED BY <1>3, <2>1, SameOpened, OpenKeeps DEF OpenSelectionWriter
  <1>4. ASSUME NEW j \in Jobs, OpenFreshRunWriter(j) PROVE HashInv'
    <2>1. PICK n : n = (IF ns[j].budget.set THEN Recovered(j) ELSE Initialized(j)) /\ Open(j, n)
      BY <1>4 DEF OpenFreshRunWriter
    <2>2. ns[j].consent.given
      BY <1>4 DEF OpenFreshRunWriter
    <2>3. IsOpened(setup, ns, n) /\ NoneRunning(setup, n, j) /\ n[j].budget.set
      <3>1. CASE ns[j].budget.set
        BY <1>1, <2>1, <3>1, RecoveredOK
      <3>2. CASE ~ns[j].budget.set
        BY <1>1, <2>1, <2>2, <3>2, InitializedOK
      <3> QED BY <3>1, <3>2
    <2>4. HandleOK(setup, n, j)
      BY <1>1, <2>3 DEF HandleOK, HandleKinds
    <2> QED BY <2>1, <2>3, <2>4, OpenKeeps
  <1> QED BY <1>2, <1>3, <1>4

\* The run's own reservation.
LEMMA RunWork ==
  ASSUME HashInv, InUse(run.phase)
  PROVE  /\ run.work \in WorksIn(setup, Sp) /\ ns[Sp].work[run.work].status = "running"
         /\ ns[Sp].work[run.work].attempt.grant = run.grant
         /\ ns[Sp].work[run.work].attempt.from = ns[Sp].work[run.work].off
         /\ ns[Sp].work[run.work].off \in Nat /\ ns[Sp].work[run.work].off % Quantum = 0
         /\ run.grant \in Nat /\ Setups[setup].size[run.work] \in Nat
         /\ ns[Sp].work[run.work].off + run.grant <= Setups[setup].size[run.work]
  <1>1. setup \in DOMAIN Setups /\ NsOK(setup, ns) /\ RunOK(setup, ns, shared, handle, run)
        /\ Sp \in SpacesOf[setup] /\ run \in Runs(setup)
    BY InvParts, SpaceOf
  <1>2. /\ run.work \in WorksIn(setup, Sp) /\ ns[Sp].work[run.work].status = "running"
        /\ ns[Sp].work[run.work].attempt.grant = run.grant
    BY <1>1 DEF RunOK, Sp
  <1>3. RowOK(setup, Sp, ns[Sp])
    BY <1>1 DEF NsOK
  <1>4. WorkOK(Setups[setup].size[run.work], Sp, ns[Sp].budget.day, ns[Sp].work[run.work])
    BY <1>2, <1>3 DEF RowOK
  <1>5. ns[Sp].work[run.work].off \in Nat /\ Setups[setup].size[run.work] \in Nat /\ run.grant \in Nat
    BY <1>1, <1>2, <1>3, RowFields, SMTT(40) DEF Runs
  <1>6. /\ ns[Sp].work[run.work].attempt.from = ns[Sp].work[run.work].off
        /\ ns[Sp].work[run.work].off % Quantum = 0
        /\ ns[Sp].work[run.work].attempt.from + ns[Sp].work[run.work].attempt.grant
             <= Setups[setup].size[run.work]
    BY <1>2, <1>4 DEF WorkOK
  <1> QED BY <1>2, <1>5, <1>6

\* What a read may hand to the settlement.
ReadOK(next, off, req, read, cause) ==
  LET x == ns[Sp].work[run.work]
  IN /\ read <= req /\ req <= run.grant
     /\ x.off <= off /\ off <= x.off + read /\ off <= Setups[setup].size[run.work]
     /\ next = "complete" => off = Setups[setup].size[run.work]
     /\ next # "complete" => off % Quantum = 0
     /\ run.mode = "plain" => cause \in {"none", "canceled"}

LEMMA ReadAsKeeps ==
  ASSUME HashInv, setup' = setup, At("read"), UNCHANGED <<ns, shared, handle, charged>>,
         NEW next \in {"complete", "pending", "invalidated"}, NEW off \in Nat, NEW req \in Nat,
         NEW read \in Nat, NEW cause \in {"none", "canceled", "expired", "rollback"},
         ReadAs(next, off, req, read, cause), ReadOK(next, off, req, read, cause)
  PROVE  HashInv'
  <1>1. /\ setup \in DOMAIN Setups /\ NsOK(setup, ns) /\ RunOK(setup, ns, shared, handle, run)
        /\ UseOK(setup, ns, run, consumed) /\ Sp \in SpacesOf[setup] /\ run \in Runs(setup)
    BY InvParts, SpaceOf
  <1>2. run.phase = "read" /\ InUse("read") /\ InUse("settle")
    BY DEF At, InUse
  <1>3. /\ run' = [run EXCEPT !.phase = "settle", !.next = next, !.off = off,
                              !.req = req, !.read = read, !.cause = cause]
        /\ consumed' = [consumed EXCEPT ![Sp] = @ + req]
    BY DEF ReadAs
  <1>4. /\ run' \in Runs(setup) /\ run'.phase = "settle" /\ run'.space = run.space
        /\ run'.mode = run.mode /\ run'.work = run.work /\ run'.grant = run.grant
        /\ run'.next = next /\ run'.off = off /\ run'.req = req /\ run'.read = read
        /\ run'.cause = cause
    BY <1>1, <1>3 DEF Runs
  <1>5. RunOK(setup, ns, shared, handle, run')
    BY <1>1, <1>2, <1>4 DEF RunOK, ReadOK, Sp
  <1>6. UseOK(setup, ns, run', consumed')
    <2>1. consumed \in [SpacesOf[setup] -> Nat]
      BY <1>1 DEF UseOK
    <2>2. PICK t \in Nat : t = consumed[Sp] + req
      BY <1>1, <2>1
    <2>4. consumed' = [consumed EXCEPT ![Sp] = t]
      BY <1>3, <2>2
    <2>5. consumed' \in [SpacesOf[setup] -> Nat]
      BY <1>1, <2>1, <2>4
    <2>3. ASSUME NEW sp \in SpacesOf[setup]
          PROVE  consumed'[sp] <= ns[sp].budget.treq + ns[sp].budget.tunk + Pending(setup, ns, run', sp)
      <3>1. consumed[sp] <= ns[sp].budget.treq + ns[sp].budget.tunk + Pending(setup, ns, run, sp)
        BY <1>1 DEF UseOK
      <3>2. ns[sp].budget.treq \in Nat /\ ns[sp].budget.tunk \in Nat /\ consumed[sp] \in Nat
        BY <1>1, <2>1, BudgetNats
      <3>3. CASE sp = Sp
        <4>1. Pending(setup, ns, run, sp) = 0 /\ Pending(setup, ns, run', sp) = req
          BY <1>2, <1>4, <3>3 DEF Pending, Sp
        <4>2. consumed'[sp] = consumed[sp] + req
          BY <1>1, <2>1, <2>2, <2>4, <3>3
        <4>3. consumed[sp] <= ns[sp].budget.treq + ns[sp].budget.tunk
          BY <3>1, <3>2, <4>1
        <4>4. PICK p \in Nat, q \in Nat, u \in Nat :
                p = ns[sp].budget.treq /\ q = ns[sp].budget.tunk /\ u = consumed[sp]
          BY <3>2
        <4>5. u + req <= p + q + req
          BY <4>3, <4>4
        <4> QED BY <4>1, <4>2, <4>4, <4>5
      <3>4. CASE sp # Sp
        <4>1. Pending(setup, ns, run', sp) = Pending(setup, ns, run, sp)
          BY <1>4, <3>4 DEF Pending, Sp
        <4>2. consumed'[sp] = consumed[sp]
          BY <1>1, <2>1, <2>4, <3>4
        <4> QED BY <3>1, <4>1, <4>2
      <3> QED BY <3>3, <3>4
    <2> QED BY <2>3, <2>5 DEF UseOK
  <1> QED BY <1>1, <1>5, <1>6, InvParts DEF HashInv

LEMMA ReadKeeps ==
  ASSUME HashInv, setup' = setup, Read
  PROVE  HashInv'
  <1> DEFINE w == run.work
             off == ns[Sp].work[w].off
             left == BytesLeft(Sp, w)
             size == Setups[setup].size[w]
  <1>1. At("read") /\ UNCHANGED <<ns, shared, handle, charged>> /\ InUse(run.phase)
    BY DEF Read, At, InUse
  <1>2. /\ w \in WorksIn(setup, Sp) /\ off \in Nat /\ off % Quantum = 0 /\ run.grant \in Nat
        /\ size \in Nat /\ off + run.grant <= size
    BY <1>1, RunWork
  <1>3. left \in Nat /\ off + left = size
    BY <1>2, LeftNat, SpaceOf
  <1>4. Quantum \in Nat \ {0}
    BY ConstantFacts
  <1>5. \/ \E n \in HashedPrefixes(left) :
             ReadAs(IF n = left THEN "complete" ELSE "pending", off + n, n, n, "none")
        \/ \E req \in 0..run.grant : \E read \in 0..req :
             \/ ReadAs("invalidated", off, req, read, "none")
             \/ \E cause \in StopCauses : ReadAs("pending", off, req, read, cause)
    BY DEF Read
  <1> HIDE DEF off, left, size, w
  <1>6. ASSUME NEW n \in HashedPrefixes(left),
               ReadAs(IF n = left THEN "complete" ELSE "pending", off + n, n, n, "none")
        PROVE  HashInv'
    <2>1. n \in Nat /\ n <= run.grant /\ (n = left \/ n % Quantum = 0)
      BY <1>2 DEF HashedPrefixes
    <2>2. PICK end \in Nat : end = off + n
      BY <1>2, <2>1
    <2>3. off <= end /\ end <= off + n /\ end <= size /\ n <= n
      BY <1>2, <2>1, <2>2
    <2>4. CASE n = left
      <3>1. ReadAs("complete", end, n, n, "none") /\ end = size
        BY <1>3, <1>6, <2>2, <2>4
      <3>2. ReadOK("complete", end, n, n, "none")
        BY <2>1, <2>3, <3>1 DEF ReadOK, off, size, w
      <3> QED BY <1>1, <2>1, <2>2, <3>1, <3>2, ReadAsKeeps
    <2>5. CASE n # left
      <3>1. ReadAs("pending", end, n, n, "none")
        BY <1>6, <2>2, <2>5
      <3>2. end % Quantum = 0
        BY <1>2, <1>4, <2>1, <2>2, <2>5, BlocksAdd
      <3>3. ReadOK("pending", end, n, n, "none")
        BY <2>1, <2>3, <3>2 DEF ReadOK, off, size, w
      <3> QED BY <1>1, <2>1, <2>2, <3>1, <3>3, ReadAsKeeps
    <2> QED BY <2>4, <2>5
  <1>7. ASSUME NEW req \in Nat, NEW read \in Nat, req <= run.grant, read <= req,
               NEW next \in {"pending", "invalidated"},
               NEW cause \in {"none", "canceled", "expired", "rollback"},
               run.mode = "plain" => cause \in {"none", "canceled"},
               ReadAs(next, off, req, read, cause)
        PROVE  HashInv'
    <2>1. off <= off /\ off <= off + read
      BY <1>2
    <2>2. off <= size
      BY <1>2
    <2>3. ReadOK(next, off, req, read, cause)
      BY <1>2, <1>7, <2>1, <2>2 DEF ReadOK, off, size, w
    <2> QED BY <1>1, <1>2, <1>7, <2>3, ReadAsKeeps
  <1>8. /\ StopCauses \subseteq {"none", "canceled", "expired", "rollback"}
        /\ \A cause \in StopCauses : run.mode = "plain" => cause \in {"none", "canceled"}
    BY DEF StopCauses
  <1>9. \A req \in 0..run.grant : req \in Nat /\ req <= run.grant
    BY <1>2
  <1>10. \A req \in Nat : \A read \in 0..req : read \in Nat /\ read <= req
    OBVIOUS
  <1>11. CASE \E req \in 0..run.grant : \E read \in 0..req :
               \/ ReadAs("invalidated", off, req, read, "none")
               \/ \E cause \in StopCauses : ReadAs("pending", off, req, read, cause)
    <2>1. PICK req \in 0..run.grant : \E read \in 0..req :
               \/ ReadAs("invalidated", off, req, read, "none")
               \/ \E cause \in StopCauses : ReadAs("pending", off, req, read, cause)
      BY <1>11
    <2>2. req \in Nat /\ req <= run.grant
      BY <1>9
    <2>3. PICK read \in 0..req :
               \/ ReadAs("invalidated", off, req, read, "none")
               \/ \E cause \in StopCauses : ReadAs("pending", off, req, read, cause)
      BY <2>1
    <2>4. read \in Nat /\ read <= req
      BY <1>10, <2>2
    <2> QED BY <1>7, <1>8, <2>2, <2>3, <2>4
  <1> QED BY <1>5, <1>6, <1>11

\* The shared row depends on budgets and consents only.
LEMMA AdvancedSame ==
  ASSUME NEW n, NEW m, NEW now,
         \A sp \in Spaces : m[sp].budget = n[sp].budget /\ m[sp].consent = n[sp].consent
  PROVE  Advanced(m, now) = Advanced(n, now) /\ SharedRollback(m, now) = SharedRollback(n, now)
  <1>1. ClockHigh(m) = ClockHigh(n)
    <2>1. {m[sp].budget.max : sp \in Spaces} = {n[sp].budget.max : sp \in Spaces}
      OBVIOUS
    <2>2. {m[sp].consent.high : sp \in Spaces} = {n[sp].consent.high : sp \in Spaces}
      OBVIOUS
    <2> QED BY <2>1, <2>2, Zenon DEF ClockHigh
  <1>2. SharedHigh(m, now) = SharedHigh(n, now)
    BY <1>1, Zenon DEF SharedHigh
  <1>3. ReservedTotal(m) = ReservedTotal(n)
    <2>1. [sp \in Spaces |-> m[sp].budget.tres] = [sp \in Spaces |-> n[sp].budget.tres]
      OBVIOUS
    <2> QED BY <2>1, Zenon DEF ReservedTotal
  <1>4. ASSUME NEW d PROVE ReservedOn(m, d) = ReservedOn(n, d)
    <2>1. [sp \in Spaces |-> IF m[sp].budget.set /\ m[sp].budget.day = d THEN m[sp].budget.res ELSE 0]
            = [sp \in Spaces |-> IF n[sp].budget.set /\ n[sp].budget.day = d THEN n[sp].budget.res ELSE 0]
      OBVIOUS
    <2> QED BY <2>1, Zenon DEF ReservedOn
  <1>5. SharedAt(m, SharedHigh(m, now)) = SharedAt(n, SharedHigh(n, now))
    BY <1>2, <1>3, <1>4, Zenon DEF SharedAt
  <1> QED BY <1>2, <1>5, Zenon DEF Advanced, SharedRollback

\* The handle's namespace has no running work any more.
LEMMA HandleAfter ==
  ASSUME HashInv, InUse(run.phase), NEW m, NoneRunning(setup, m, Sp),
         m[Sp].budget.set = ns[Sp].budget.set
  PROVE  HandleOK(setup, m, handle)
  <1>1. setup \in DOMAIN Setups /\ RunOK(setup, ns, shared, handle, run) /\ Sp \in SpacesOf[setup]
    BY InvParts, SpaceOf
  <1>2. handle = (IF Sp = Original THEN "writer" ELSE Sp)
    BY <1>1 DEF RunOK, InUse, Sp
  <1>3. Setups[setup].jobs \cap HandleKinds = {} /\ (Sp # Original => Sp \in Setups[setup].jobs)
    BY <1>1, SetupFacts, SpaceFacts
  <1>4. CASE Sp = Original
    BY <1>2, <1>3, <1>4 DEF HandleOK, HandleKinds
  <1>5. CASE Sp # Original
    <2>1. handle = Sp /\ ns[Sp].budget.set /\ handle # "writer"
      BY <1>1, <1>2, <1>3, <1>5 DEF RunOK, HandleKinds
    <2> QED BY <1>3, <1>5, <2>1 DEF HandleOK
  <1> QED BY <1>4, <1>5

\* What a settlement commits in its namespace.
IsSettled(m, y, c, status, off) ==
  /\ OneRow(setup, ns, m, Sp, y) /\ DOMAIN m = SpacesOf[setup]
  /\ RowChanged(ns[Sp], y, SettledBudget(ns[Sp].budget, ns[Sp].work[run.work].attempt), c, run.work,
                [status |-> status, off |-> off,
                 attempt |-> [ns[Sp].work[run.work].attempt EXCEPT
                                !.status = "settled", !.req = run.req, !.read = run.read]])
  /\ \/ status = "pending" /\ off = ns[Sp].work[run.work].off
     \/ status = run.next /\ off = run.off

LEMMA SettledOK ==
  ASSUME HashInv, run.phase = "settle", NEW m, NEW y, NEW c, NEW status, NEW off,
         ConsentOK(setup, Sp, c, ns[Sp].budget), c.given = ns[Sp].consent.given,
         IsSettled(m, y, c, status, off)
  PROVE  /\ NsOK(setup, m) /\ Unspent(setup, ns, m) /\ SameGiven(setup, ns, m)
         /\ HandleOK(setup, m, handle) /\ UseOK(setup, m, Idle, consumed)
         /\ NoneRunning(setup, m, Sp) /\ ns[Sp].work[run.work].off <= off
         /\ IsBooked(m[Sp].budget, ns[Sp].budget, ns[Sp].work[run.work].attempt, run.req, run.read)
  <1> DEFINE w == run.work
             x == ns[Sp]
             a == x.work[w].attempt
             e == BookedBudget(x.budget, a, run.req, run.read)
             v == [status |-> status, off |-> off, attempt |-> Settlement(a, run.req, run.read)]
  <1>1. /\ setup \in DOMAIN Setups /\ NsOK(setup, ns) /\ RunOK(setup, ns, shared, handle, run)
        /\ Sp \in SpacesOf[setup] /\ run \in Runs(setup) /\ UseOK(setup, ns, run, consumed)
    BY InvParts, SpaceOf
  <1>2. InUse(run.phase) /\ run.req \in Nat /\ run.read \in Nat /\ run.off \in Nat
    BY <1>1 DEF InUse, Runs
  <1>3. /\ w \in WorksIn(setup, Sp) /\ x.work[w].status = "running" /\ a.grant = run.grant
        /\ x.work[w].off \in Nat /\ x.work[w].off % Quantum = 0 /\ run.grant \in Nat
        /\ Setups[setup].size[w] \in Nat /\ x.work[w].off + run.grant <= Setups[setup].size[w]
    BY <1>2, RunWork
  <1>4. /\ run.read <= run.req /\ run.req <= run.grant
        /\ x.work[w].off <= run.off /\ run.off <= x.work[w].off + run.read
        /\ run.off <= Setups[setup].size[w]
        /\ run.next = "complete" => run.off = Setups[setup].size[w]
        /\ run.next # "complete" => run.off % Quantum = 0
        /\ run.next # "none" /\ run.next \in {"none", "complete", "pending", "invalidated"}
    BY <1>1 DEF RunOK, Sp, Runs
  <1>5. RowOK(setup, Sp, x)
    BY <1>1 DEF NsOK
  <1>6. RowChanged(x, y, e, c, w, v)
    BY DEF IsSettled, SettledBudget, BookedBudget, Settlement
  <1>7. /\ status \in {"complete", "pending", "invalidated"} /\ off \in Nat
        /\ x.work[w].off <= off /\ off <= x.work[w].off + run.read /\ off <= Setups[setup].size[w]
        /\ status = "complete" => off = Setups[setup].size[w]
        /\ status # "complete" => off % Quantum = 0
    <2>1. CASE status = "pending" /\ off = x.work[w].off
      <3>1. x.work[w].off <= x.work[w].off + run.read /\ x.work[w].off <= Setups[setup].size[w]
        BY <1>2, <1>3
      <3> QED BY <1>3, <2>1, <3>1
    <2>2. CASE status = run.next /\ off = run.off
      BY <1>2, <1>4, <2>2
    <2> QED BY <2>1, <2>2 DEF IsSettled
  <1>8. y.budget = e /\ y.consent = c /\ y.work = [x.work EXCEPT ![w] = v] /\ v.status = status
    BY <1>6 DEF RowChanged
  <1>9. IsBooked(e, x.budget, a, run.req, run.read) /\ x.budget \in Budgets
    BY <1>1, <1>2, <1>5, RowFields, BookedFields
  <1>10. x.work \in [WorksIn(setup, Sp) -> WorkRows] /\ OpenOK(WorksIn(setup, Sp), x.budget, x.work)
    BY <1>5 DEF RowOK
  <1>11. a.grant = run.grant /\ run.req <= a.grant
    BY <1>3, <1>4, SMTT(40)
  <1> HIDE DEF w, x, e, v
  <1>12. RowOK(setup, Sp, y)
    BY <1>1, <1>2, <1>3, <1>4, <1>5, <1>6, <1>7, <1>11, RowSettled DEF e, v, x
  <1>13. NsOK(setup, m) /\ m[Sp] = y
    BY <1>1, <1>12 DEF IsSettled, OneRow, NsOK
  <1>14. \A u \in WorksIn(setup, Sp) : y.work[u].status # "running"
    <2>1. \A u \in WorksIn(setup, Sp) : x.work[u].status = "running" => u = w
      BY <1>3, <1>10 DEF OpenOK
    <2> QED BY <1>3, <1>7, <1>8, <1>10, <2>1
  <1>15. NoneRunning(setup, m, Sp) /\ m[Sp].budget.set = ns[Sp].budget.set
    BY <1>8, <1>9, <1>13, <1>14 DEF NoneRunning, IsBooked, x
  <1>16. HandleOK(setup, m, handle)
    BY <1>2, <1>15, HandleAfter
  <1>17. Unspent(setup, ns, m)
    <2>1. x.budget.day \in Nat
      BY <1>9 DEF Budgets
    <2>2. SameCharge(x.budget, y.budget)
      BY <1>8, <1>9, <2>1 DEF SameCharge, DayRes, IsBooked
    <2> QED BY <1>1, <2>2, UnspentRow DEF IsSettled, x
  <1>18. SameGiven(setup, ns, m)
    BY <1>8, <1>13 DEF SameGiven, IsSettled, OneRow
  <1>19. UseOK(setup, m, Idle, consumed)
    <2>1. consumed \in [SpacesOf[setup] -> Nat]
      BY <1>1 DEF UseOK
    <2>2. ASSUME NEW sp \in SpacesOf[setup]
          PROVE  consumed[sp] <= m[sp].budget.treq + m[sp].budget.tunk + Pending(setup, m, Idle, sp)
      <3>1. consumed[sp] <= ns[sp].budget.treq + ns[sp].budget.tunk + Pending(setup, ns, run, sp)
        BY <1>1 DEF UseOK
      <3>2. Pending(setup, m, Idle, sp) = Held(setup, sp, m[sp])
        BY DEF Pending, Idle
      <3>3. CASE sp = Sp
        <4>1. Pending(setup, ns, run, sp) = run.req
          BY <3>3 DEF Pending, Sp
        <4>2. Held(setup, sp, m[sp]) = 0
          BY <1>1, <1>12, <1>13, <1>14, <3>3, HeldFacts
        <4>3. x.budget.treq \in Nat /\ x.budget.tunk \in Nat /\ x = ns[sp]
          BY <1>9, <3>3 DEF Budgets, x
        <4>4. m[sp].budget.treq = x.budget.treq + run.req /\ m[sp].budget.tunk = x.budget.tunk
          BY <1>8, <1>9, <1>13, <3>3 DEF IsBooked
        <4>5. consumed[sp] \in Nat
          BY <2>1
        <4> QED BY <1>2, <3>1, <3>2, <4>1, <4>2, <4>3, <4>4, <4>5
      <3>4. CASE sp # Sp
        <4>1. m[sp] = ns[sp]
          BY <3>4 DEF IsSettled, OneRow
        <4>2. Pending(setup, ns, run, sp) = Held(setup, sp, ns[sp])
          BY <3>4 DEF Pending, Sp
        <4> QED BY <3>1, <3>2, <4>1, <4>2
      <3> QED BY <3>3, <3>4
    <2> QED BY <2>1, <2>2 DEF UseOK
  <1>20. IsBooked(m[Sp].budget, ns[Sp].budget, ns[Sp].work[run.work].attempt, run.req, run.read)
    BY <1>8, <1>9, <1>13 DEF x, w
  <1>21. ns[Sp].work[run.work].off <= off
    BY <1>7 DEF x, w
  <1> QED BY <1>13, <1>15, <1>16, <1>17, <1>18, <1>19, <1>20, <1>21

\* The parts of a settlement.
SettleNow(clock) == IF run.cause = "expired" THEN Latest(clock, ExpiresAt(Con)) ELSE clock
SettleSpent == [ns EXCEPT ![Sp].budget = SettledBudget(@, ns[Sp].work[run.work].attempt)]
SettleSeen(now) == IF run.mode = "plain" THEN SettleSpent ELSE Observed(SettleSpent, Sp, now)
SettleGuard(n, now) == IF run.mode = "plain" THEN "ok" ELSE GuardBoth(n, Sp, now)
SettleDone == [ns[Sp].work[run.work].attempt EXCEPT !.status = "settled", !.req = run.req,
                                                    !.read = run.read]
SettleWork(guard) ==
  IF Vetoed(guard)
  THEN [status |-> "pending", off |-> ns[Sp].work[run.work].off, attempt |-> SettleDone]
  ELSE [status |-> run.next, off |-> run.off, attempt |-> SettleDone]
SettledFrom(m, n, guard) == m = [n EXCEPT ![Sp].work[run.work] = SettleWork(guard)]
SettleRow(n, now) == IF run.mode = "plain" THEN shared ELSE Advanced(n, now)
SettleRun(guard) == IF "expired" \in {run.cause, guard} THEN Going("latch") ELSE Ended
SettlesTo(now, n, guard, m, s, r) ==
  /\ n = SettleSeen(now) /\ guard = SettleGuard(n, now) /\ SettledFrom(m, n, guard)
  /\ s = SettleRow(n, now) /\ r = SettleRun(guard)
  /\ Transact(m, s, r)

LEMMA SettleParts ==
  ASSUME Settle
  PROVE  /\ At("settle") /\ NoCharge
         /\ \E clock \in (IF run.mode = "plain" THEN {0} ELSE Times) :
              \E n, guard, m, s, r : SettlesTo(SettleNow(clock), n, guard, m, s, r)
  <1>1. PICK clock \in (IF run.mode = "plain" THEN {0} ELSE Times) :
          LET n == SettleSeen(SettleNow(clock))
              guard == SettleGuard(n, SettleNow(clock))
          IN Transact([n EXCEPT ![Sp].work[run.work] = SettleWork(guard)],
                      SettleRow(n, SettleNow(clock)), SettleRun(guard))
    BY Zenon DEF Settle, SettleNow, SettleSpent, SettleSeen, SettleGuard, SettleDone, SettleWork,
                 SettleRow, SettleRun
  <1> DEFINE now == SettleNow(clock)
             n == SettleSeen(now)
             guard == SettleGuard(n, now)
             m == [n EXCEPT ![Sp].work[run.work] = SettleWork(guard)]
  <1>2. Transact(m, SettleRow(n, now), SettleRun(guard)) /\ SettledFrom(m, n, guard)
    BY <1>1 DEF SettledFrom
  <1>3. n = SettleSeen(now) /\ guard = SettleGuard(n, now)
    OBVIOUS
  <1> HIDE DEF n, guard, m
  <1>4. SettlesTo(now, n, guard, m, SettleRow(n, now), SettleRun(guard))
    BY <1>2, <1>3, ZenonT(40) DEF SettlesTo
  <1>5. At("settle") /\ NoCharge
    BY DEF Settle
  <1> QED BY <1>4, <1>5, Zenon

\* The candidate after its budget and its consent were written.
SpentRow(n, c) ==
  /\ DOMAIN n = SpacesOf[setup] /\ (\A u \in SpacesOf[setup] : u # Sp => n[u] = ns[u])
  /\ DOMAIN n[Sp] = DOMAIN ns[Sp] /\ n[Sp].work = ns[Sp].work /\ n[Sp].consent = c
  /\ n[Sp].budget = SettledBudget(ns[Sp].budget, ns[Sp].work[run.work].attempt)

LEMMA SpentIs ==
  ASSUME HashInv, run.phase = "settle", NEW now, run.mode # "plain" => now \in Nat /\ now <= Horizon(setup)
  PROVE  \E c : /\ SpentRow(SettleSeen(now), c) /\ ConsentOK(setup, Sp, c, ns[Sp].budget)
                /\ c.given = ns[Sp].consent.given
                /\ c = IF run.mode = "plain" THEN ns[Sp].consent ELSE ObservedConsent(ns, Sp, now)
  <1> DEFINE e == SettledBudget(ns[Sp].budget, ns[Sp].work[run.work].attempt)
             p == SettleSpent
  <1>1. /\ setup \in DOMAIN Setups /\ NsOK(setup, ns) /\ RunOK(setup, ns, shared, handle, run)
        /\ Sp \in SpacesOf[setup] /\ run \in Runs(setup)
    BY InvParts, SpaceOf
  <1>2. RowOK(setup, Sp, ns[Sp]) /\ DOMAIN ns = SpacesOf[setup]
    BY <1>1 DEF NsOK
  <1>3. DOMAIN ns[Sp] = {"budget", "consent", "work", "queue"} /\ ConsentOK(setup, Sp, ns[Sp].consent, ns[Sp].budget)
    BY <1>2 DEF RowOK
  <1>4. p = [ns EXCEPT ![Sp].budget = e]
    BY DEF SettleSpent
  <1>5. e.max = ns[Sp].budget.max
    <2>1. ns[Sp].budget \in Budgets /\ run.req \in Nat /\ run.read \in Nat
      BY <1>1, <1>2, RowFields DEF Runs
    <2>2. e = BookedBudget(ns[Sp].budget, ns[Sp].work[run.work].attempt, run.req, run.read)
      BY DEF SettledBudget, BookedBudget
    <2>3. IsBooked(e, ns[Sp].budget, ns[Sp].work[run.work].attempt, run.req, run.read)
      BY <2>1, <2>2, BookedFields
    <2> QED BY <2>3 DEF IsBooked
  <1> HIDE DEF e, p
  <1>6. SpentRow(p, ns[Sp].consent)
    BY <1>1, <1>2, <1>3, <1>4 DEF SpentRow, e
  <1>7. CASE run.mode = "plain"
    BY <1>3, <1>6, <1>7 DEF SettleSeen, p
  <1>8. CASE run.mode # "plain"
    <2>1. ns[Sp].consent.given
      BY <1>1, <1>8 DEF RunOK, Sp
    <2> DEFINE c == ObservedConsent(ns, Sp, now)
    <2>2. IsObserved(c, ns[Sp].consent, ns[Sp].budget, Sp, now) /\ ConsentOK(setup, Sp, c, ns[Sp].budget)
      BY <1>1, <1>2, <1>8, <2>1, ObservedFields
    <2>3. c.given = ns[Sp].consent.given
      <3>1. c.given \in BOOLEAN /\ c.given /\ ns[Sp].consent.given \in BOOLEAN
        BY <1>1, <1>2, <2>2, RowFields DEF IsObserved, Consents
      <3> QED BY <2>1, <3>1
    <2>4. ObservedConsent(p, Sp, now) = c
      <3>1. p[Sp].consent = ns[Sp].consent /\ p[Sp].budget.max = ns[Sp].budget.max
        BY <1>5, <1>6 DEF SpentRow, e
      <3> QED BY <3>1, Zenon DEF ObservedConsent
    <2>5. SettleSeen(now) = [p EXCEPT ![Sp].consent = c]
      BY <1>8, <2>4 DEF SettleSeen, p, Observed
    <2> HIDE DEF c
    <2>6. SpentRow(SettleSeen(now), c)
      BY <1>1, <1>3, <1>6, <2>5 DEF SpentRow
    <2> QED BY <1>8, <2>2, <2>3, <2>6 DEF c
  <1> QED BY <1>7, <1>8

\* Writing the work row makes the settled candidate.
LEMMA SettledRow ==
  ASSUME HashInv, run.phase = "settle", NEW n, NEW c, SpentRow(n, c), NEW guard,
         NEW m, SettledFrom(m, n, guard)
  PROVE  /\ \E y, status, off :
              /\ IsSettled(m, y, c, status, off)
              /\ (status = "pending" /\ off = ns[Sp].work[run.work].off) \/ ~Vetoed(guard)
         /\ \A sp \in SpacesOf[setup] : m[sp].budget = n[sp].budget /\ m[sp].consent = n[sp].consent
  <1>1. /\ setup \in DOMAIN Setups /\ NsOK(setup, ns) /\ Sp \in SpacesOf[setup] /\ InUse(run.phase)
    BY InvParts, SpaceOf DEF InUse
  <1>2. run.work \in WorksIn(setup, Sp)
    BY <1>1, RunWork
  <1>3. RowOK(setup, Sp, ns[Sp])
    BY <1>1 DEF NsOK
  <1>4. DOMAIN ns[Sp] = {"budget", "consent", "work", "queue"} /\ ns[Sp].work \in [WorksIn(setup, Sp) -> WorkRows]
    BY <1>3 DEF RowOK
  <1> DEFINE v == SettleWork(guard)
             y == [n[Sp] EXCEPT !.work = [n[Sp].work EXCEPT ![run.work] = v]]
  <1>5. m = [n EXCEPT ![Sp] = y]
    BY <1>1, <1>4 DEF SpentRow, SettledFrom
  <1> HIDE DEF v
  <1>6. /\ DOMAIN y = DOMAIN ns[Sp] /\ y.work = [ns[Sp].work EXCEPT ![run.work] = v]
        /\ y.consent = c /\ y.budget = n[Sp].budget
        /\ y.budget = SettledBudget(ns[Sp].budget, ns[Sp].work[run.work].attempt)
    BY <1>4 DEF SpentRow
  <1> HIDE DEF y
  <1>7. OneRow(setup, ns, m, Sp, y) /\ DOMAIN m = SpacesOf[setup]
    BY <1>1, <1>5 DEF OneRow, SpentRow
  <1>8. \E status, off :
          /\ v = [status |-> status, off |-> off, attempt |-> SettleDone]
          /\ \/ status = "pending" /\ off = ns[Sp].work[run.work].off
             \/ status = run.next /\ off = run.off /\ ~Vetoed(guard)
    <2>1. CASE Vetoed(guard)
      BY <2>1 DEF v, SettleWork
    <2>2. CASE ~Vetoed(guard)
      BY <2>2 DEF v, SettleWork
    <2> QED BY <2>1, <2>2
  <1>9. PICK status, off :
          /\ v = [status |-> status, off |-> off, attempt |-> SettleDone]
          /\ \/ status = "pending" /\ off = ns[Sp].work[run.work].off
             \/ status = run.next /\ off = run.off /\ ~Vetoed(guard)
    BY <1>8
  <1>10. IsSettled(m, y, c, status, off)
    BY <1>6, <1>7, <1>9 DEF IsSettled, RowChanged, SettleDone
  <1>11. \A sp \in SpacesOf[setup] : m[sp].budget = n[sp].budget /\ m[sp].consent = n[sp].consent
    BY <1>6, <1>7 DEF OneRow, SpentRow
  <1>12. (status = "pending" /\ off = ns[Sp].work[run.work].off) \/ ~Vetoed(guard)
    BY <1>9
  <1> QED BY <1>10, <1>11, <1>12

LEMMA SettleTime ==
  ASSUME HashInv, run.phase = "settle", NEW clock \in (IF run.mode = "plain" THEN {0} ELSE Times)
  PROVE  run.mode # "plain" => SettleNow(clock) \in Nat /\ SettleNow(clock) <= Horizon(setup)
  <1> SUFFICES ASSUME run.mode # "plain"
               PROVE  SettleNow(clock) \in Nat /\ SettleNow(clock) <= Horizon(setup)
    OBVIOUS
  <1>1. clock \in Times /\ Sp \in SpacesOf[setup] /\ RunOK(setup, ns, shared, handle, run)
    BY SpaceOf, InvParts
  <1>2. ns[Sp].consent.given
    BY <1>1 DEF RunOK, Sp
  <1> QED BY <1>1, <1>2, TimeFacts DEF SettleNow, Con

LEMMA SettleKeeps ==
  ASSUME HashInv, setup' = setup, Settle
  PROVE  HashInv'
  <1>0. PICK clock \in (IF run.mode = "plain" THEN {0} ELSE Times) :
          \E n, guard, m, s, r : SettlesTo(SettleNow(clock), n, guard, m, s, r)
    BY SettleParts
  <1>11. PICK now : now = SettleNow(clock)
    OBVIOUS
  <1>12. PICK n, guard, m, s, r : SettlesTo(now, n, guard, m, s, r)
    BY <1>0, <1>11
  <1>1. /\ n = SettleSeen(now) /\ guard = SettleGuard(n, now) /\ SettledFrom(m, n, guard)
        /\ s = (IF run.mode = "plain" THEN shared ELSE Advanced(n, now))
        /\ r = (IF "expired" \in {run.cause, guard} THEN Going("latch") ELSE Ended)
        /\ Transact(m, s, r)
    BY <1>12, Zenon DEF SettlesTo, SettleRow, SettleRun
  <1>2. run.phase = "settle" /\ NoCharge /\ InUse(run.phase) /\ ~At("idle")
    BY SettleParts DEF At, InUse
  <1>3. /\ setup \in DOMAIN Setups /\ NsOK(setup, ns) /\ RunOK(setup, ns, shared, handle, run)
        /\ Sp \in SpacesOf[setup] /\ run \in Runs(setup) /\ SharedOK(setup, ns, shared)
        /\ Spaces = SpacesOf[setup]
    BY InvParts, SpaceOf
  <1>4. run.mode # "plain" => now \in Nat /\ now <= Horizon(setup)
    BY <1>2, <1>11, SettleTime
  <1>5. PICK c : /\ SpentRow(n, c) /\ ConsentOK(setup, Sp, c, ns[Sp].budget)
                 /\ c.given = ns[Sp].consent.given
    BY <1>1, <1>2, <1>4, SpentIs
  <1>6. /\ \E y, status, off : IsSettled(m, y, c, status, off)
        /\ \A sp \in SpacesOf[setup] : m[sp].budget = n[sp].budget /\ m[sp].consent = n[sp].consent
    BY <1>1, <1>2, <1>5, SettledRow
  <1>7. /\ NsOK(setup, m) /\ Unspent(setup, ns, m) /\ SameGiven(setup, ns, m)
        /\ HandleOK(setup, m, handle) /\ UseOK(setup, m, Idle, consumed)
    BY <1>2, <1>5, <1>6, SettledOK
  <1>8. SharedOK(setup, m, shared)
    BY <1>3, <1>7, SharedKept
  <1>9. SharedOK(setup, m, s) /\ s.set = shared.set
    <2>1. CASE run.mode = "plain"
      BY <1>1, <1>8, <2>1
    <2>2. CASE run.mode # "plain"
      <3>1. Advanced(m, now) = Advanced(n, now)
        BY <1>3, <1>6, AdvancedSame
      <3>2. SharedOK(setup, m, Advanced(m, now)) /\ Advanced(m, now).set = shared.set
        BY <1>3, <1>4, <1>7, <1>8, <2>2, AdvancedOK
      <3> QED BY <1>1, <2>2, <3>1, <3>2
    <2> QED BY <2>1, <2>2
  <1>10. RunOK(setup, m, s, handle, r) /\ ~InUse(r.phase)
    <2>1. CASE r = Ended
      <3>1. run.mode = "budgeted" => s.set
        BY <1>2, <1>3, <1>9 DEF RunOK
      <3> QED BY <1>2, <1>3, <1>7, <2>1, <3>1, EndedOK
    <2>2. CASE r = Going("latch") /\ "expired" \in {run.cause, guard}
      <3>1. /\ r \in Runs(setup) /\ r.phase = "latch" /\ r.space = run.space /\ r.mode = run.mode
            /\ ~InUse(r.phase)
        BY <1>3, <2>2 DEF Going, Runs, InUse
      <3>2. run.mode # "plain"
        <4>1. run.mode = "plain" => run.cause # "expired"
          BY <1>2, <1>3 DEF RunOK
        <4>2. run.mode = "plain" => guard = "ok"
          BY <1>1 DEF SettleGuard
        <4> QED BY <2>2, <4>1, <4>2
      <3>3. m[run.space].consent.given = ns[run.space].consent.given
        BY <1>3, <1>7 DEF SameGiven, Sp
      <3> QED BY <1>2, <1>3, <1>7, <1>9, <3>1, <3>2, <3>3 DEF RunOK, HandleOK
    <2> QED BY <1>1, <2>1, <2>2
  <1> QED BY <1>1, <1>2, <1>7, <1>9, <1>10, UnspentKeeps

-----------------------------------------------------------------------------
(* The reservation. *)

\* The day's charges before and after the budget is rolled and charged.
LEMMA RolledRes ==
  ASSUME NEW k \in DOMAIN Setups, NEW b, NEW c, NEW now, BudgetOK(k, b), RolledTo(k, b, c, now),
         NEW grant \in Nat
  PROVE  LET e == ChargedBudget(c, grant)
         IN /\ DayRes(b, c.day) = c.res /\ DayRes(e, c.day) = c.res + grant
            /\ \A d \in Nat : d > c.day => DayRes(b, d) = 0 /\ DayRes(e, d) = 0
            /\ e.tres = b.tres + grant /\ e.treq = b.treq /\ e.tunk = b.tunk
            /\ e.day = c.day /\ e.max = now /\ e.set /\ b.day <= c.day
            /\ c \in Budgets /\ e \in Budgets /\ c.day \in Nat /\ c.res \in Nat
            /\ c.day = DayIn(k, now)
  <1> DEFINE e == ChargedBudget(c, grant)
  <1>1. b \in Budgets /\ c \in Budgets /\ c.set /\ c.max = now /\ b.day <= c.day
        /\ c.tres = b.tres /\ c.treq = b.treq /\ c.tunk = b.tunk /\ c.day = DayIn(k, now)
    BY DEF BudgetOK, RolledTo
  <1>2. b.day \in Nat /\ c.day \in Nat /\ b.res \in Nat /\ c.res \in Nat /\ b.tres \in Nat
    BY <1>1 DEF Budgets
  <1>3. /\ e \in Budgets /\ e.set = c.set /\ e.day = c.day /\ e.max = c.max
        /\ e.treq = c.treq /\ e.tunk = c.tunk
        /\ e.res = c.res + grant /\ e.tres = c.tres + grant
    BY <1>1, ChargedFields
  <1> HIDE DEF e
  <1>4. ~b.set => b.res = 0
    BY DEF BudgetOK, NoBudget
  <1>5. DayRes(b, c.day) = c.res
    <2>1. CASE c.day = b.day /\ c.res = b.res
      BY <1>4, <2>1 DEF DayRes
    <2>2. CASE b.day < c.day /\ c.res = 0
      <3>1. b.day # c.day
        BY <1>2, <2>2
      <3> QED BY <2>2, <3>1 DEF DayRes
    <2> QED BY <2>1, <2>2 DEF RolledTo
  <1>6. DayRes(e, c.day) = c.res + grant
    BY <1>1, <1>3 DEF DayRes
  <1>7. ASSUME NEW d \in Nat, d > c.day PROVE DayRes(b, d) = 0 /\ DayRes(e, d) = 0
    <2>1. b.day # d /\ e.day # d
      BY <1>1, <1>2, <1>3, <1>7
    <2> QED BY <2>1 DEF DayRes
  <1> QED BY <1>1, <1>2, <1>3, <1>5, <1>6, <1>7 DEF e

\* The shared row with the charge.
ChargedShared(s, grant) == [s EXCEPT !.res = @ + grant, !.total = @ + grant]
LEMMA SharedCharged ==
  ASSUME NEW k \in DOMAIN Setups, NEW n, NEW m, NEW sp \in SpacesOf[k], NEW c, NEW now \in Nat,
         NEW grant \in Nat, NEW s, NEW t,
         NsOK(k, n), NsOK(k, m), SharedOK(k, n, s), s.set, s.max = now,
         RolledTo(k, n[sp].budget, c, now), m[sp].budget = ChargedBudget(c, grant),
         \A u \in SpacesOf[k] : u # sp => m[u] = n[u],
         t = ChargedShared(s, grant)
  PROVE  SharedOK(k, m, t) /\ t.set
  <1> DEFINE S == SpacesOf[k]
             b == n[sp].budget
             e == m[sp].budget
             F == [u \in S |-> DayRes(n[u].budget, c.day)]
             G == [u \in S |-> DayRes(m[u].budget, c.day)]
             H == [u \in S |-> n[u].budget.tres]
             I == [u \in S |-> m[u].budget.tres]
  <1>1. BudgetOK(k, b)
    BY DEF NsOK, RowOK
  <1>2. /\ DayRes(b, c.day) = c.res /\ DayRes(e, c.day) = c.res + grant
        /\ e.tres = b.tres + grant /\ e.max = now /\ c.res \in Nat /\ c.day = DayIn(k, now)
    BY <1>1, RolledRes
  <1>3. s.day = c.day /\ s.res = AllRes(k, n, c.day) /\ s.total = AllTres(k, n) /\ s \in SharedRows
    BY <1>2 DEF SharedOK
  <1>4. F \in [S -> Nat] /\ G \in [S -> Nat] /\ H \in [S -> Nat] /\ I \in [S -> Nat]
    BY BudgetNats
  <1>5. F[sp] = c.res /\ G[sp] = c.res + grant /\ I[sp] = H[sp] + grant /\ H[sp] \in Nat
    BY <1>2, <1>4
  <1>6. (\A u \in S \ {sp} : F[u] = G[u]) /\ (\A u \in S \ {sp} : H[u] = I[u])
    OBVIOUS
  <1>7. /\ AllRes(k, n, c.day) = SumOver(F, S) /\ AllRes(k, m, c.day) = SumOver(G, S)
        /\ AllTres(k, n) = SumOver(H, S) /\ AllTres(k, m) = SumOver(I, S)
    BY DEF AllRes, AllTres
  <1>8. IsFiniteSet(S) /\ S \in SUBSET S /\ sp \in S /\ S \ {sp} = S \ {sp}
    BY SpaceFacts
  <1> HIDE DEF F, G, H, I, S, b, e
  <1>9. SumChanges(F, G, sp, S, S) /\ SumChanges(H, I, sp, S, S)
    BY <1>4, <1>6, <1>8, SumChange
  <1>10. SumOver(G, S) = SumOver(F, S) + grant /\ SumOver(F, S) \in Nat
    <2>1. SumOver(F, S) \in Nat /\ SumOver(G, S) \in Nat /\ SumOver(G, S) + F[sp] = SumOver(F, S) + G[sp]
      BY <1>8, <1>9 DEF SumChanges
    <2> QED BY <1>2, <1>5, <2>1
  <1>11. SumOver(I, S) = SumOver(H, S) + grant /\ SumOver(H, S) \in Nat
    <2>1. SumOver(H, S) \in Nat /\ SumOver(I, S) \in Nat /\ SumOver(I, S) + H[sp] = SumOver(H, S) + I[sp]
      BY <1>8, <1>9 DEF SumChanges
    <2> QED BY <1>5, <2>1
  <1>12. PICK res \in Nat, total \in Nat : res = s.res + grant /\ total = s.total + grant
    BY <1>3, <1>7, <1>10, <1>11
  <1>13. t = [s EXCEPT !.res = res, !.total = total]
    BY <1>12 DEF ChargedShared
  <1>14. /\ t \in SharedRows /\ t.set /\ t.day = s.day /\ t.max = s.max
         /\ t.res = res /\ t.total = total
    BY <1>3, <1>13 DEF SharedRows
  <1>15. t.res = AllRes(k, m, c.day) /\ t.total = AllTres(k, m)
    BY <1>3, <1>7, <1>10, <1>11, <1>12, <1>14
  <1>16. \A u \in SpacesOf[k] : m[u].budget.tres > 0 => m[u].budget.max <= t.max
    <2> SUFFICES ASSUME NEW u \in SpacesOf[k], m[u].budget.tres > 0 PROVE m[u].budget.max <= t.max
      OBVIOUS
    <2>1. CASE u = sp
      BY <1>2, <1>14, <2>1 DEF e
    <2>2. CASE u # sp
      <3>1. m[u] = n[u]
        BY <2>2
      <3> QED BY <1>14, <3>1 DEF SharedOK
    <2> QED BY <2>1, <2>2
  <1>17. t.day = DayIn(k, t.max)
    BY <1>2, <1>3, <1>14
  <1> QED BY <1>3, <1>14, <1>15, <1>16, <1>17 DEF SharedOK

\* The charge in the history.
LEMMA ChargeMade ==
  ASSUME HashInv, NEW b, NEW now \in Nat, now <= Horizon(setup), RolledTo(setup, Bud, b, now),
         NEW grant \in Nat, NEW m, NsOK(setup, m), m[Sp].budget = ChargedBudget(b, grant),
         \A u \in SpacesOf[setup] : u # Sp => m[u].budget = ns[u].budget,
         RecordCharge(b)
  PROVE  /\ ns' = m => ChargeOK(setup, m, charged')
         /\ ns' = ns => ChargeOK(setup, ns, charged')
  <1>1. /\ setup \in DOMAIN Setups /\ NsOK(setup, ns) /\ ChargeOK(setup, ns, charged)
        /\ Sp \in SpacesOf[setup]
    BY InvParts, SpaceOf
  <1>2. BudgetOK(setup, Bud)
    BY <1>1 DEF NsOK, RowOK, Bud
  <1> DEFINE e == ChargedBudget(b, grant)
  <1>3. /\ DayRes(Bud, b.day) = b.res /\ DayRes(e, b.day) = b.res + grant
        /\ \A d \in Nat : d > b.day => DayRes(Bud, d) = 0 /\ DayRes(e, d) = 0
        /\ e.tres = Bud.tres + grant /\ e.day = b.day /\ Bud.day <= b.day
        /\ b.day \in Nat /\ b.res \in Nat /\ b.day = DayIn(setup, now)
    BY <1>1, <1>2, RolledRes
  <1> HIDE DEF e
  <1>4. b.day \in DaysIn(setup)
    <2>1. now <= now
      OBVIOUS
    <2> QED BY <1>1, <1>3, <2>1, DayFacts
  <1>5. Bud.tres \in Nat /\ Bud.day \in Nat
    BY <1>1, BudgetNats DEF Bud
  <1>6. charged[Sp] \in [DaysIn(setup) -> Nat] /\ DOMAIN charged = SpacesOf[setup]
    BY <1>1 DEF ChargeOK
  <1>7. charged' = [charged EXCEPT ![Sp][b.day] = @ + (ns'[Sp].budget.tres - Bud.tres)]
    BY DEF RecordCharge
  <1>8. charged[Sp][b.day] \in Nat /\ charged[Sp][b.day] = b.res
    BY <1>1, <1>3, <1>4, <1>6 DEF ChargeOK, Bud
  <1>9. ASSUME ns' = m PROVE ChargeOK(setup, m, charged')
    <2>1. ns'[Sp].budget.tres - Bud.tres = grant
      <3>1. ns'[Sp].budget.tres = Bud.tres + grant
        BY <1>3, <1>9 DEF e
      <3> QED BY <1>5, <3>1
    <2>2. PICK t \in Nat : t = charged[Sp][b.day] + grant
      BY <1>8
    <2> DEFINE f == [charged[Sp] EXCEPT ![b.day] = t]
    <2>3. charged' = [charged EXCEPT ![Sp] = f]
      BY <1>7, <2>1, <2>2
    <2>4. f \in [DaysIn(setup) -> Nat] /\ f[b.day] = b.res + grant
          /\ \A d \in DaysIn(setup) : d # b.day => f[d] = charged[Sp][d]
      BY <1>4, <1>6, <1>8, <2>2
    <2> HIDE DEF f
    <2>5. DOMAIN charged' = SpacesOf[setup] /\ charged'[Sp] = f
          /\ \A u \in SpacesOf[setup] : u # Sp => charged'[u] = charged[u]
      BY <1>1, <1>6, <2>3
    <2>6. ASSUME NEW sp \in SpacesOf[setup]
          PROVE  /\ charged'[sp] \in [DaysIn(setup) -> Nat]
                 /\ \A d \in DaysIn(setup) :
                      d >= m[sp].budget.day => charged'[sp][d] = DayRes(m[sp].budget, d)
      <3>1. CASE sp # Sp
        <4>1. m[sp].budget = ns[sp].budget /\ charged'[sp] = charged[sp]
          BY <2>5, <3>1
        <4> QED BY <1>1, <4>1 DEF ChargeOK
      <3>2. CASE sp = Sp
        <4>1. m[sp].budget = e /\ charged'[sp] = f
          BY <2>5, <3>2 DEF e
        <4>2. ASSUME NEW d \in DaysIn(setup), d >= m[sp].budget.day
              PROVE  charged'[sp][d] = DayRes(m[sp].budget, d)
          <5>1. d \in Nat /\ d >= b.day
            BY <1>3, <4>1, <4>2 DEF DaysIn
          <5>2. CASE d = b.day
            BY <1>3, <2>4, <4>1, <5>2
          <5>3. CASE d > b.day
            <6>1. d # b.day /\ d >= Bud.day
              BY <1>3, <1>5, <5>1, <5>3
            <6>2. charged[Sp][d] = DayRes(Bud, d)
              BY <1>1, <4>2, <6>1 DEF ChargeOK, Bud
            <6> QED BY <1>3, <2>4, <4>1, <5>1, <5>3, <6>1, <6>2
          <5> QED BY <1>3, <5>1, <5>2, <5>3
        <4> QED BY <2>4, <4>1, <4>2
      <3> QED BY <3>1, <3>2
    <2> QED BY <2>5, <2>6 DEF ChargeOK
  <1>10. ASSUME ns' = ns PROVE ChargeOK(setup, ns, charged')
    <2>1. ns'[Sp].budget.tres - Bud.tres = 0
      BY <1>5, <1>10 DEF Bud
    <2>2. charged[Sp][b.day] + 0 = charged[Sp][b.day]
      BY <1>8
    <2>3. charged' = [charged EXCEPT ![Sp] = [charged[Sp] EXCEPT ![b.day] = charged[Sp][b.day]]]
      BY <1>7, <2>1, <2>2
    <2>4. [charged[Sp] EXCEPT ![b.day] = charged[Sp][b.day]] = charged[Sp]
      BY <1>6
    <2>5. DOMAIN charged' = SpacesOf[setup] /\ \A u \in SpacesOf[setup] : charged'[u] = charged[u]
      BY <1>1, <1>6, <2>3, <2>4
    <2> QED BY <1>1, <2>5 DEF ChargeOK
  <1> QED BY <1>9, <1>10

\* The candidate that a reservation starts from: only the run's consent differs.
Candidate(n, c) ==
  /\ DOMAIN n = SpacesOf[setup] /\ (\A u \in SpacesOf[setup] : u # Sp => n[u] = ns[u])
  /\ DOMAIN n[Sp] = DOMAIN ns[Sp] /\ n[Sp].budget = Bud /\ n[Sp].work = ns[Sp].work
  /\ n[Sp].consent = c /\ c.given = ns[Sp].consent.given

\* The row that a reservation writes.
ReservedRow(m, n, b, c, grant) ==
  /\ DOMAIN m = SpacesOf[setup] /\ (\A u \in SpacesOf[setup] : u # Sp => m[u] = ns[u])
  /\ RowChanged(ns[Sp], m[Sp], ChargedBudget(b, grant), c, run.work,
                Reservation(ns[Sp].work[run.work], grant, b.day))

LEMMA ReservedIs ==
  ASSUME HashInv, NEW n, NEW c, Candidate(n, c), NEW b, NEW grant, NEW m, m = Reserved(n, b, grant),
         run.work \in WorksIn(setup, Sp)
  PROVE  ReservedRow(m, n, b, c, grant)
  <1>1. setup \in DOMAIN Setups /\ NsOK(setup, ns) /\ Sp \in SpacesOf[setup]
    BY InvParts, SpaceOf
  <1>2. RowOK(setup, Sp, ns[Sp])
    BY <1>1 DEF NsOK
  <1>3. DOMAIN ns[Sp] = {"budget", "consent", "work", "queue"} /\ ns[Sp].work \in [WorksIn(setup, Sp) -> WorkRows]
    BY <1>2 DEF RowOK
  <1> DEFINE w == run.work
             v == Reservation(ns[Sp].work[w], grant, b.day)
             e == ChargedBudget(b, grant)
             q == Append(Remove(n[Sp].queue, w), w)
             y == [n[Sp] EXCEPT !.budget = e, !.work = [n[Sp].work EXCEPT ![w] = v], !.queue = q]
  <1>4. m = [n EXCEPT ![Sp].budget = e, ![Sp].work[w] = v, ![Sp].queue = q]
    BY DEF Reserved, Reservation, ChargedBudget, Candidate
  <1> HIDE DEF v, e, q
  <1>5. m = [n EXCEPT ![Sp] = y]
    BY <1>1, <1>3, <1>4 DEF Candidate
  <1>6. DOMAIN y = DOMAIN ns[Sp] /\ y.budget = e /\ y.consent = c /\ y.work = [ns[Sp].work EXCEPT ![w] = v]
    BY <1>3 DEF Candidate
  <1> HIDE DEF y
  <1>7. m[Sp] = y /\ DOMAIN m = SpacesOf[setup] /\ \A u \in SpacesOf[setup] : u # Sp => m[u] = ns[u]
    BY <1>1, <1>5 DEF Candidate
  <1> QED BY <1>6, <1>7 DEF ReservedRow, RowChanged, v, e

\* What the limits and the clock must have allowed.
Allowed(b, c, now, grant, s) ==
  /\ RolledTo(setup, Bud, b, now) /\ now \in Nat /\ now <= Horizon(setup)
  /\ grant \in Nat /\ grant <= StepLimit
  /\ ns[Sp].work[run.work].off + grant <= Setups[setup].size[run.work]
  /\ ConsentOK(setup, Sp, c, ChargedBudget(b, grant))
  /\ s.set <=> run.mode = "budgeted"
  /\ s.set => s.max = now

LEMMA ReservationKeeps ==
  ASSUME HashInv, setup' = setup, At("reserve"), consumed' = consumed,
         NEW n, NEW c, NEW b, NEW now, NEW grant, NEW m, NEW s, NEW t, NEW r,
         Candidate(n, c), NsOK(setup, n), SharedOK(setup, n, s),
         Allowed(b, c, now, grant, s), m = Reserved(n, b, grant), t = Charged(s, grant),
         r = [Going("read") EXCEPT !.grant = grant],
         Transact(m, t, r), RecordCharge(b)
  PROVE  HashInv'
  <1>1. /\ setup \in DOMAIN Setups /\ NsOK(setup, ns) /\ RunOK(setup, ns, shared, handle, run)
        /\ Sp \in SpacesOf[setup] /\ run \in Runs(setup) /\ UseOK(setup, ns, run, consumed)
    BY InvParts, SpaceOf
  <1>2. /\ run.phase = "reserve" /\ ~InUse(run.phase) /\ run.work \in WorksIn(setup, Sp)
        /\ ns[Sp].work[run.work].status = "pending"
        /\ handle = (IF Sp = Original THEN "writer" ELSE Sp)
    BY <1>1 DEF RunOK, At, InUse, Sp
  <1>3. NoneRunning(setup, ns, Sp)
    <2>1. Sp # Original => Sp \in Setups[setup].jobs
      BY <1>1, SpaceFacts
    <2> QED BY <1>1, <1>2, <2>1 DEF RunOK
  <1>4. ReservedRow(m, n, b, c, grant)
    BY <1>2, ReservedIs
  <1>5. /\ RolledTo(setup, Bud, b, now) /\ now \in Nat /\ now <= Horizon(setup)
        /\ grant \in Nat /\ grant <= StepLimit
        /\ ns[Sp].work[run.work].off + grant <= Setups[setup].size[run.work]
        /\ ConsentOK(setup, Sp, c, ChargedBudget(b, grant))
        /\ s.set <=> run.mode = "budgeted"
        /\ s.set => s.max = now
    BY DEF Allowed
  <1>6. RowOK(setup, Sp, ns[Sp]) /\ BudgetOK(setup, Bud)
    BY <1>1 DEF NsOK, RowOK, Bud
  <1>7. RowOK(setup, Sp, m[Sp])
    BY <1>1, <1>2, <1>3, <1>4, <1>5, <1>6, RowReserved DEF ReservedRow, NoneRunning, Bud
  <1>8. NsOK(setup, m)
    BY <1>1, <1>4, <1>7 DEF ReservedRow, NsOK
  <1>9. /\ m[Sp].budget = ChargedBudget(b, grant) /\ m[Sp].consent = c
        /\ m[Sp].work = [ns[Sp].work EXCEPT ![run.work] = Reservation(ns[Sp].work[run.work], grant, b.day)]
        /\ \A u \in SpacesOf[setup] : u # Sp => m[u] = ns[u]
    BY <1>4 DEF ReservedRow, RowChanged
  <1>10. /\ m[Sp].work[run.work].status = "running" /\ m[Sp].work[run.work].attempt.grant = grant
    <2>1. ns[Sp].work \in [WorksIn(setup, Sp) -> WorkRows] /\ ns[Sp].work[run.work] \in WorkRows
      BY <1>1, <1>2, <1>6, RowFields
    <2>2. b.day \in Nat
      BY <1>5 DEF RolledTo, BudgetOK, Budgets
    <2>3. IsReservation(m[Sp].work[run.work], ns[Sp].work[run.work], grant, b.day)
      BY <1>2, <1>5, <1>9, <2>1, <2>2, ReservationFields
    <2> QED BY <2>3 DEF IsReservation
  <1>11. (ns' = m => ChargeOK(setup, m, charged')) /\ (ns' = ns => ChargeOK(setup, ns, charged'))
    BY <1>5, <1>8, <1>9, ChargeMade
  <1>12. SharedOK(setup, m, t) /\ t.set = s.set
    <2>1. CASE run.mode = "budgeted"
      <3>1. t = ChargedShared(s, grant) /\ s.set
        BY <1>5, <2>1 DEF Charged, ChargedShared
      <3>2. s \in SharedRows
        BY DEF SharedOK
      <3>3. \A u \in SpacesOf[setup] : u # Sp => m[u] = n[u]
        BY <1>9 DEF Candidate
      <3>4. RolledTo(setup, n[Sp].budget, b, now)
        BY <1>5 DEF Candidate
      <3>5. SharedOK(setup, m, t) /\ t.set
        BY <1>1, <1>5, <1>8, <1>9, <3>1, <3>3, <3>4, SharedCharged
      <3>6. t.set = s.set
        BY <3>1, <3>2 DEF SharedRows, ChargedShared
      <3> QED BY <3>5, <3>6
    <2>2. CASE run.mode # "budgeted"
      <3>1. t = s /\ ~s.set
        BY <1>5, <2>2 DEF Charged
      <3> QED BY <3>1 DEF SharedOK
    <2> QED BY <2>1, <2>2
  <1>13. /\ r \in Runs(setup) /\ r.phase = "read" /\ r.space = run.space /\ r.mode = run.mode
         /\ r.work = run.work /\ r.grant = grant
    <2>0. /\ Going("read") \in Runs(setup) /\ Going("read").phase = "read"
          /\ Going("read").space = run.space /\ Going("read").mode = run.mode
          /\ Going("read").work = run.work
      BY <1>1 DEF Going, Runs
    <2>1. PICK q \in Runs(setup) : q = Going("read") /\ q.phase = "read" /\ q.space = run.space
                                  /\ q.mode = run.mode /\ q.work = run.work
      BY <2>0
    <2>2. r = [q EXCEPT !.grant = grant]
      BY <2>1, SMTT(40)
    <2> QED BY <1>5, <2>1, <2>2 DEF Runs
  <1>14. RunOK(setup, m, t, handle, r)
    <2>1. Sp # Original => Sp \in Setups[setup].jobs /\ m[Sp].budget.set
      <3>1. m[Sp].budget.set
        BY <1>1, <1>5, <1>6, <1>9, RolledRes
      <3> QED BY <1>1, <3>1, SpaceFacts
    <2>2. InUse("read") /\ m[run.space].consent.given = ns[run.space].consent.given
      BY <1>9 DEF InUse, Candidate, Sp
    <2>3. Setups[setup].jobs \cap HandleKinds = {}
      BY <1>1, SetupFacts
    <2>4. \A j \in Setups[setup].jobs : handle = j => m[j].budget.set
      <3> SUFFICES ASSUME NEW j \in Setups[setup].jobs, handle = j PROVE m[j].budget.set
        OBVIOUS
      <3>1. j = Sp
        BY <1>2, <2>3 DEF HandleKinds
      <3>2. Sp # Original
        BY <1>1, <3>1, SetupFacts
      <3> QED BY <2>1, <3>1, <3>2
    <2>5. handle \in HandleKinds \cup Setups[setup].jobs /\ handle \in {"writer"} \cup Setups[setup].jobs
          /\ (ns[run.space].consent.given <=> run.mode # "plain")
          /\ (run.mode = "plain" => run.space = Original)
      BY <1>1, <1>2 DEF RunOK
    <2> QED BY <1>2, <1>5, <1>10, <1>12, <1>13, <2>2, <2>4, <2>5 DEF RunOK, Sp
  <1>15. UseOK(setup, m, r, consumed)
    <2>1. UseOK(setup, ns, Idle, consumed)
      BY <1>1, UseIdle
    <2>2. consumed \in [SpacesOf[setup] -> Nat]
      BY <1>1 DEF UseOK
    <2>3. ASSUME NEW sp \in SpacesOf[setup]
          PROVE  consumed[sp] <= m[sp].budget.treq + m[sp].budget.tunk + Pending(setup, m, r, sp)
      <3>1. consumed[sp] <= ns[sp].budget.treq + ns[sp].budget.tunk + Pending(setup, ns, Idle, sp)
            /\ Pending(setup, ns, Idle, sp) = Held(setup, sp, ns[sp])
        BY <2>1 DEF UseOK, Pending, Idle
      <3>2. CASE sp = Sp
        <4>1. Pending(setup, m, r, sp) = 0
          BY <1>13, <3>2 DEF Pending, Sp
        <4>2. Held(setup, sp, ns[sp]) = 0
          BY <1>1, <1>3, <1>6, <3>2, HeldFacts DEF NoneRunning
        <4>3. m[sp].budget.treq = ns[sp].budget.treq /\ m[sp].budget.tunk = ns[sp].budget.tunk
          BY <1>1, <1>5, <1>6, <1>9, <3>2, RolledRes DEF Bud
        <4> QED BY <3>1, <4>1, <4>2, <4>3
      <3>3. CASE sp # Sp
        <4>1. m[sp] = ns[sp] /\ Pending(setup, m, r, sp) = Held(setup, sp, m[sp])
          BY <1>9, <1>13, <3>3 DEF Pending, Sp
        <4> QED BY <3>1, <4>1
      <3> QED BY <3>2, <3>3
    <2> QED BY <2>2, <2>3 DEF UseOK
  <1> QED BY <1>8, <1>11, <1>12, <1>14, <1>15, TransactKeeps

LEMMA ReservePlainKeeps ==
  ASSUME HashInv, setup' = setup, ReservePlain
  PROVE  HashInv'
  <1>1. /\ At("reserve") /\ run.mode = "plain" /\ consumed' = consumed
        /\ Transact(Reserved(ns, BudgetAt(Bud, run.at), run.grant), shared, Going("read"))
        /\ RecordCharge(BudgetAt(Bud, run.at))
    BY DEF ReservePlain
  <1>2. /\ setup \in DOMAIN Setups /\ NsOK(setup, ns) /\ RunOK(setup, ns, shared, handle, run)
        /\ Sp \in SpacesOf[setup] /\ run \in Runs(setup) /\ SharedOK(setup, ns, shared)
    BY InvParts, SpaceOf
  <1>3. /\ Sp = Original /\ ~ns[Sp].consent.given /\ ~shared.set /\ run.grant <= StepLimit
        /\ Bud.max <= run.at /\ run.at <= Setups[setup].maxTime
        /\ ns[Sp].work[run.work].off + run.grant <= Setups[setup].size[run.work]
    BY <1>1, <1>2 DEF RunOK, At, Sp, Bud
  <1>4. run.at \in Nat /\ run.grant \in Nat /\ run.at <= Horizon(setup)
    <2>1. run.at \in Nat /\ run.grant \in Nat
      BY <1>2 DEF Runs
    <2>2. Setups[setup].maxTime \in Nat /\ Lifetime \in Nat
      BY <1>2, SetupFacts, ConstantFacts
    <2> QED BY <1>3, <2>1, <2>2 DEF Horizon
  <1>5. PICK b : b = BudgetAt(Bud, run.at)
    OBVIOUS
  <1>6. RowOK(setup, Sp, ns[Sp]) /\ BudgetOK(setup, Bud)
    BY <1>2 DEF NsOK, RowOK, Bud
  <1>7. RolledTo(setup, Bud, b, run.at)
    BY <1>2, <1>3, <1>4, <1>5, <1>6, RolledIs
  <1>8. PICK c : c = ns[Sp].consent
    OBVIOUS
  <1>9. ConsentOK(setup, Sp, c, ChargedBudget(b, run.grant))
    <2>1. ConsentOK(setup, Sp, c, ns[Sp].budget)
      BY <1>6, <1>8 DEF RowOK
    <2> QED BY <1>3, <1>8, <2>1 DEF ConsentOK
  <1>10. Candidate(ns, c)
    BY <1>2, <1>8 DEF Candidate, NsOK, Bud
  <1>11. Allowed(b, c, run.at, run.grant, shared)
    BY <1>1, <1>3, <1>4, <1>7, <1>9 DEF Allowed
  <1>12. shared = Charged(shared, run.grant)
    BY <1>1 DEF Charged
  <1>13. Going("read") = [Going("read") EXCEPT !.grant = run.grant]
    <2>0. Going("read") \in Runs(setup) /\ Going("read").grant = run.grant
      BY <1>2 DEF Going, Runs
    <2>1. PICK q \in Runs(setup) : q = Going("read") /\ q.grant = run.grant
      BY <2>0
    <2>2. q = [q EXCEPT !.grant = q.grant]
      BY <2>1 DEF Runs
    <2> QED BY <2>1, <2>2
  <1>14. PICK m, r : m = Reserved(ns, b, run.grant) /\ r = Going("read")
    OBVIOUS
  <1>15. Transact(m, shared, r) /\ RecordCharge(b)
    BY <1>1, <1>5, <1>14
  <1>16. r = [Going("read") EXCEPT !.grant = run.grant]
    BY <1>13, <1>14
  <1> QED BY <1>1, <1>2, <1>10, <1>11, <1>12, <1>14, <1>15, <1>16, ReservationKeeps

\* The parts of a reservation under a consent.
ReserveShared(n, now) ==
  IF run.mode = "budgeted" /\ GuardOf(n[Sp].consent, now) = "ok" THEN Advanced(n, now) ELSE shared
ReservesAt(now, n, s, b, grant) ==
  /\ n = Observed(ns, Sp, now) /\ s = ReserveShared(n, now)
  /\ b = BudgetAt(Bud, now) /\ grant = ReservationGrant(b, s)
ReadRun(grant) == [Going("read") EXCEPT !.grant = grant]
Admits(now, n, s, b, grant) ==
  /\ GuardBoth(n, Sp, now) = "ok" /\ RecordCharge(b)
  /\ Transact(Reserved(n, b, grant), Charged(s, grant), ReadRun(grant))

LEMMA ReserveParts ==
  ASSUME Reserve
  PROVE  /\ At("reserve") /\ run.mode # "plain" /\ consumed' = consumed
         /\ \E now \in Times : \E n, s, b, grant :
              /\ ReservesAt(now, n, s, b, grant)
              /\ \/ Transact(n, s, Ended) /\ UNCHANGED charged
                 \/ Admits(now, n, s, b, grant)
  <1>1. At("reserve") /\ run.mode # "plain" /\ consumed' = consumed
    BY DEF Reserve
  <1>2. PICK now \in Times :
          LET n == Observed(ns, Sp, now)
              s == ReserveShared(n, now)
              b == BudgetAt(Bud, now)
              grant == ReservationGrant(b, s)
              refused == GuardBoth(n, Sp, now) # "ok"
              deferred == grant = 0 /\ BytesLeft(Sp, run.work) > 0
          IN IF refused \/ deferred
             THEN Transact(n, s, Ended) /\ UNCHANGED charged
             ELSE /\ Transact(Reserved(n, b, grant), Charged(s, grant), ReadRun(grant))
                  /\ RecordCharge(b)
    BY Zenon DEF Reserve, ReserveShared, ReadRun
  <1> DEFINE n == Observed(ns, Sp, now)
             s == ReserveShared(n, now)
             b == BudgetAt(Bud, now)
             grant == ReservationGrant(b, s)
             refused == GuardBoth(n, Sp, now) # "ok"
             deferred == grant = 0 /\ BytesLeft(Sp, run.work) > 0
  <1>3. IF refused \/ deferred
        THEN Transact(n, s, Ended) /\ UNCHANGED charged
        ELSE /\ Transact(Reserved(n, b, grant), Charged(s, grant), ReadRun(grant))
             /\ RecordCharge(b)
    BY <1>2, Zenon
  <1>4. ReservesAt(now, n, s, b, grant)
    BY DEF ReservesAt
  <1>5. CASE refused \/ deferred
    <2>1. Transact(n, s, Ended) /\ UNCHANGED charged
      BY <1>3, <1>5, Zenon
    <2> HIDE DEF n, s, b, grant
    <2> QED BY <1>1, <1>4, <2>1, Zenon
  <1>6. CASE ~(refused \/ deferred)
    <2>1. Transact(Reserved(n, b, grant), Charged(s, grant), ReadRun(grant)) /\ RecordCharge(b)
      BY <1>3, <1>6, Zenon
    <2>2. GuardBoth(n, Sp, now) = "ok"
      BY <1>6, Zenon
    <2> HIDE DEF n, s, b, grant
    <2>3. Admits(now, n, s, b, grant)
      BY <2>1, <2>2, Zenon DEF Admits
    <2> QED BY <1>1, <1>4, <2>3, Zenon
  <1> QED BY <1>5, <1>6

\* A guard that is passed.
LEMMA GuardPassed ==
  ASSUME NEW n, NEW sp, NEW now, GuardBoth(n, sp, now) = "ok", n[sp].consent \in Consents,
         NEW u \in Nat, u = now
  PROVE  /\ GuardOf(n[sp].consent, now) = "ok" /\ ~SharedRollback(n, now)
         /\ ~n[sp].consent.revoked /\ ~n[sp].consent.expired /\ n[sp].consent.high <= now
  <1> DEFINE c == n[sp].consent
  <1>1. GuardOf(c, now) = "ok" /\ ~SharedRollback(n, now)
    <2>1. GuardBoth(n, sp, now)
            = IF GuardOf(c, now) = "ok" /\ SharedRollback(n, now) THEN "rollback" ELSE GuardOf(c, now)
      BY DEF GuardBoth
    <2> QED BY <2>1
  <1>2. c.revoked \in BOOLEAN /\ c.expired \in BOOLEAN /\ c.high \in Nat
    BY DEF Consents
  <1> HIDE DEF c
  <1>3. ~c.revoked /\ ~c.expired /\ ~(now < c.high)
    BY <1>1, <1>2 DEF GuardOf
  <1> QED BY <1>1, <1>2, <1>3 DEF c

\* The clocks of the budget are behind an observation.
LEMMA BudgetBehind ==
  ASSUME HashInv, NEW sp \in SpacesOf[setup], ns[sp].consent.given, NEW now \in Nat,
         now <= Horizon(setup), NEW n, n = Observed(ns, sp, now)
  PROVE  /\ ns[sp].budget.max <= n[sp].consent.high /\ ns[sp].budget.max \in Nat
         /\ n[sp].consent \in Consents /\ n[sp].consent.high \in Nat
         /\ n[sp].consent.daily = ns[sp].consent.daily /\ n[sp].consent.life = ns[sp].consent.life
         /\ now <= n[sp].consent.high
  <1>1. setup \in DOMAIN Setups /\ NsOK(setup, ns) /\ IsSeen(setup, ns, n, sp, now)
    BY InvParts, SeenFacts
  <1>2. IsObserved(n[sp].consent, ns[sp].consent, ns[sp].budget, sp, now)
    BY <1>1 DEF IsSeen
  <1>3. BudgetOK(setup, ns[sp].budget) /\ ConsentOK(setup, sp, ns[sp].consent, ns[sp].budget)
    BY <1>1 DEF NsOK, RowOK
  <1>4. /\ n[sp].consent \in Consents /\ ns[sp].budget.max \in Nat /\ ns[sp].consent.high \in Nat
        /\ ns[sp].consent.high <= n[sp].consent.high
        /\ n[sp].consent.daily = ns[sp].consent.daily /\ n[sp].consent.life = ns[sp].consent.life
        /\ now <= n[sp].consent.high
    BY <1>2, <1>3 DEF IsObserved, BudgetOK, ConsentOK, Budgets, Consents
  <1>5. n[sp].consent.high \in Nat
    BY <1>4 DEF Consents
  <1>6. ns[sp].budget.max <= n[sp].consent.high
    <2>1. CASE sp = Original
      BY <1>2, <2>1 DEF IsObserved
    <2>2. CASE sp # Original /\ ns[sp].budget.set
      <3>1. ns[sp].budget.max <= ns[sp].consent.high
        BY <1>3, <2>2 DEF ConsentOK
      <3> QED BY <1>4, <1>5, <3>1
    <2>3. CASE ~ns[sp].budget.set
      <3>1. ns[sp].budget.max = 0
        BY <1>3, <2>3 DEF BudgetOK, NoBudget
      <3> QED BY <1>5, <3>1
    <2> QED BY <2>1, <2>2, <2>3
  <1> QED BY <1>4, <1>5, <1>6

\* What the limits leave bounds the grant.
LEMMA GrantWithin ==
  ASSUME HashInv, run.mode # "plain", run.work \in WorksIn(setup, Sp), NEW b \in Budgets,
         NEW s \in SharedRows, NEW grant, grant = ReservationGrant(b, s)
  PROVE  /\ grant \in Nat /\ grant <= StepLimit
         /\ ns[Sp].work[run.work].off + grant <= Setups[setup].size[run.work]
         /\ grant > 0 => b.res + grant <= Con.daily
         /\ b.res <= Con.daily => b.res + grant <= Con.daily
         /\ b.tres <= Con.life => b.tres + grant <= Con.life
         /\ run.mode = "budgeted" /\ grant > 0 => s.res + grant <= SharedLimit
  <1>1. setup \in DOMAIN Setups /\ Sp \in SpacesOf[setup] /\ run \in Runs(setup)
    BY InvParts, SpaceOf
  <1> DEFINE left == BytesLeft(Sp, run.work)
             own == Available(b)
             room == Less(SharedLimit, s.res)
             all == IF run.mode = "budgeted" THEN Least(own, room) ELSE own
             cap == IF Sp = Original THEN Least(run.grant, all) ELSE all
  <1>2. /\ left \in Nat /\ Setups[setup].size[run.work] \in Nat /\ ns[Sp].work[run.work].off \in Nat
        /\ ns[Sp].work[run.work].off + left = Setups[setup].size[run.work]
    BY <1>1, LeftNat
  <1>3. /\ own \in Nat /\ own <= Less(Con.daily, b.res) /\ own <= Less(Con.life, b.tres)
        /\ Con.daily \in Nat /\ Con.life \in Nat
        /\ Less(Con.daily, b.res) \in Nat /\ Less(Con.life, b.tres) \in Nat
    BY AvailableNat
  <1>4. SharedLimit \in Nat /\ s.res \in Nat /\ b.res \in Nat /\ b.tres \in Nat /\ run.grant \in Nat
    BY <1>1, SetupFacts DEF SharedLimit, SharedRows, Budgets, Runs
  <1>5. room \in Nat
    BY <1>4, LessFacts
  <1>6. grant = Grant(left, cap)
    BY DEF ReservationGrant
  <1> HIDE DEF left, own, room
  <1>7. all \in Nat /\ all <= own /\ (run.mode = "budgeted" => all <= room)
    BY <1>3, <1>5 DEF Least
  <1> HIDE DEF all
  <1>8. cap \in Nat /\ cap <= all
    BY <1>4, <1>7 DEF Least
  <1> HIDE DEF cap
  <1>9. grant \in Nat /\ grant <= left /\ grant <= cap /\ grant <= StepLimit
    BY <1>2, <1>6, <1>8, GrantFacts
  <1>10. grant <= Less(Con.daily, b.res) /\ grant <= Less(Con.life, b.tres)
         /\ (run.mode = "budgeted" => grant <= room)
    BY <1>3, <1>5, <1>7, <1>8, <1>9
  <1>11. /\ b.res <= Con.daily => b.res + Less(Con.daily, b.res) = Con.daily
         /\ Con.daily < b.res => Less(Con.daily, b.res) = 0
    BY <1>3, <1>4, LessFacts
  <1>12. b.tres <= Con.life => b.tres + Less(Con.life, b.tres) = Con.life
    BY <1>3, <1>4, LessFacts
  <1>13. /\ s.res <= SharedLimit => s.res + room = SharedLimit
         /\ SharedLimit < s.res => room = 0
    BY <1>4, LessFacts DEF room
  <1>14. ns[Sp].work[run.work].off + grant <= Setups[setup].size[run.work]
    BY <1>2, <1>9
  <1>15. b.res <= Con.daily => b.res + grant <= Con.daily
    BY <1>3, <1>4, <1>9, <1>10, <1>11
  <1>16. grant > 0 => b.res + grant <= Con.daily
    BY <1>3, <1>4, <1>9, <1>10, <1>11, <1>15
  <1>17. b.tres <= Con.life => b.tres + grant <= Con.life
    BY <1>3, <1>4, <1>9, <1>10, <1>12
  <1>18. run.mode = "budgeted" /\ grant > 0 => s.res + grant <= SharedLimit
    BY <1>4, <1>5, <1>9, <1>10, <1>13
  <1> QED BY <1>9, <1>14, <1>15, <1>16, <1>17, <1>18

\* An admitted reservation is within its limits, and its consent stands.
LEMMA AdmittedOK ==
  ASSUME HashInv, At("reserve"), run.mode # "plain", NEW now \in Times, NEW n, NEW s, NEW b,
         NEW grant, ReservesAt(now, n, s, b, grant), GuardBoth(n, Sp, now) = "ok"
  PROVE  /\ Allowed(b, n[Sp].consent, now, grant, s) /\ Candidate(n, n[Sp].consent)
         /\ NsOK(setup, n) /\ SharedOK(setup, n, s)
         /\ ~n[Sp].consent.revoked /\ ~n[Sp].consent.expired
         /\ grant > 0 => b.res + grant <= Con.daily
         /\ b.tres + grant <= Con.life
         /\ run.mode = "budgeted" /\ grant > 0 => s.res + grant <= SharedLimit
         /\ run.mode = "budgeted" => /\ s.day = DayIn(setup, now)
                                     /\ \A u \in SpacesOf[setup] : ns[u].budget.max <= now
  <1>1. /\ setup \in DOMAIN Setups /\ NsOK(setup, ns) /\ RunOK(setup, ns, shared, handle, run)
        /\ Sp \in SpacesOf[setup] /\ run \in Runs(setup) /\ SharedOK(setup, ns, shared)
        /\ now \in Nat /\ now <= Horizon(setup)
    BY InvParts, SpaceOf, TimeFacts
  <1>2. /\ run.work \in WorksIn(setup, Sp) /\ ns[Sp].consent.given
        /\ shared.set <=> run.mode = "budgeted"
    BY <1>1 DEF RunOK, At, Sp
  <1>3. /\ n = Observed(ns, Sp, now) /\ s = ReserveShared(n, now)
        /\ b = BudgetAt(Bud, now) /\ grant = ReservationGrant(b, s)
    BY DEF ReservesAt
  <1>4. /\ IsSeen(setup, ns, n, Sp, now) /\ NsOK(setup, n) /\ SameRows(setup, ns, n)
        /\ SameGiven(setup, ns, n)
        /\ SharedOK(setup, n, shared) /\ SharedOK(setup, n, Advanced(n, now))
        /\ Advanced(n, now).set = shared.set
    BY <1>1, <1>2, <1>3, SeenFacts
  <1>5. /\ ns[Sp].budget.max <= n[Sp].consent.high /\ ns[Sp].budget.max \in Nat
        /\ n[Sp].consent \in Consents /\ n[Sp].consent.high \in Nat
        /\ n[Sp].consent.daily = ns[Sp].consent.daily /\ n[Sp].consent.life = ns[Sp].consent.life
        /\ now <= n[Sp].consent.high
    BY <1>1, <1>2, <1>3, BudgetBehind
  <1>6. /\ GuardOf(n[Sp].consent, now) = "ok" /\ ~SharedRollback(n, now)
        /\ ~n[Sp].consent.revoked /\ ~n[Sp].consent.expired /\ n[Sp].consent.high <= now
    BY <1>1, <1>5, GuardPassed
  <1>7. RowOK(setup, Sp, ns[Sp]) /\ RowOK(setup, Sp, n[Sp]) /\ BudgetOK(setup, Bud)
    BY <1>1, <1>4 DEF NsOK, RowOK, Bud
  <1>8. RolledTo(setup, Bud, b, now) /\ b \in Budgets
    <2>1. Bud.max <= now
      BY <1>1, <1>5, <1>6 DEF Bud
    <2> QED BY <1>1, <1>3, <1>7, <2>1, RolledIs DEF RolledTo, BudgetOK
  <1>9. SharedOK(setup, n, s) /\ s \in SharedRows /\ s.set = shared.set
    <2>1. s = Advanced(n, now) \/ s = shared
      BY <1>3 DEF ReserveShared
    <2> QED BY <1>4, <2>1 DEF SharedOK
  <1>10. /\ grant \in Nat /\ grant <= StepLimit
         /\ ns[Sp].work[run.work].off + grant <= Setups[setup].size[run.work]
         /\ grant > 0 => b.res + grant <= Con.daily
         /\ b.res <= Con.daily => b.res + grant <= Con.daily
         /\ b.tres <= Con.life => b.tres + grant <= Con.life
         /\ run.mode = "budgeted" /\ grant > 0 => s.res + grant <= SharedLimit
    BY <1>2, <1>3, <1>8, <1>9, GrantWithin, SMTT(40)
  <1>11. Candidate(n, n[Sp].consent)
    BY <1>1, <1>4, <1>7 DEF Candidate, IsSeen, NsOK, RowOK, SameRows, SameGiven, Bud
  <1>12. ConsentOK(setup, Sp, ns[Sp].consent, ns[Sp].budget) /\ ConsentOK(setup, Sp, n[Sp].consent, ns[Sp].budget)
    BY <1>1, <1>4, <1>7 DEF RowOK, SameRows
  <1>13. b.tres = ns[Sp].budget.tres /\ b.set /\ b.max = now
    BY <1>8 DEF RolledTo, Bud
  <1>14. b.tres + grant <= Con.life
    <2>1. b.tres <= Con.life
      BY <1>2, <1>12, <1>13 DEF ConsentOK, Con
    <2> QED BY <1>10, <2>1
  <1>15. Sp # Original => b.res + grant <= Con.daily
    <2> SUFFICES ASSUME Sp # Original PROVE b.res <= Con.daily
      BY <1>10
    <2>1. Con.daily \in Nat /\ Bud.res \in Nat
      BY <1>7, <1>12 DEF ConsentOK, Consents, Con, BudgetOK, Budgets
    <2>2. Bud.res <= Con.daily
      <3>1. CASE Bud.set
        BY <1>12, <3>1 DEF ConsentOK, Con, Bud
      <3>2. CASE ~Bud.set
        <4>1. Bud.res = 0
          BY <1>7, <3>2 DEF BudgetOK, NoBudget
        <4> QED BY <2>1, <4>1
      <3> QED BY <3>1, <3>2
    <2>3. b.res = Bud.res \/ b.res = 0
      BY <1>8 DEF RolledTo
    <2> QED BY <2>1, <2>2, <2>3
  <1>16. ConsentOK(setup, Sp, n[Sp].consent, ChargedBudget(b, grant))
    <2> DEFINE c == n[Sp].consent
               e == ChargedBudget(b, grant)
    <2>1. e.tres = b.tres + grant /\ e.res = b.res + grant /\ e.max = now /\ e.set
      BY <1>8, <1>10, <1>13, ChargedFields
    <2>2. c.given
      BY <1>1, <1>2, <1>4 DEF SameGiven
    <2>3. b.tres \in Nat /\ c.initial \in Nat /\ c.created \in Nat
      BY <1>5, <1>8 DEF Budgets, Consents
    <2>4. c.initial <= ns[Sp].budget.tres /\ c.created <= c.high
      BY <1>12, <2>2 DEF ConsentOK
    <2>5. c.initial <= b.tres + grant /\ b.tres + grant <= c.life
      BY <1>5, <1>10, <1>13, <1>14, <2>3, <2>4 DEF Con
    <2>6. c.created <= now
      BY <1>1, <1>5, <1>6, <2>3, <2>4
    <2>7. Sp # Original => b.res + grant <= c.daily
      BY <1>5, <1>15 DEF Con
    <2> HIDE DEF e, c
    <2>8. ConsentOK(setup, Sp, c, ns[Sp].budget) /\ now <= c.high
      BY <1>5, <1>12 DEF c
    <2>9. ConsentOK(setup, Sp, c, e)
      BY <2>1, <2>2, <2>5, <2>6, <2>7, <2>8 DEF ConsentOK
    <2> QED BY <2>9 DEF c, e
  <1>17. ASSUME run.mode = "budgeted"
         PROVE  /\ s.set /\ s.max = now /\ s.day = DayIn(setup, now)
                /\ \A u \in SpacesOf[setup] : ns[u].budget.max <= now
    <2>1. s = Advanced(n, now) /\ shared.set
      BY <1>2, <1>3, <1>6, <1>17 DEF ReserveShared
    <2>2. SharedHigh(n, now) \in Nat /\ ClockHigh(n) <= SharedHigh(n, now) /\ now <= SharedHigh(n, now)
      BY <1>1, <1>4, AdvancedOK
    <2>3. SharedHigh(n, now) = now
      <3>1. ~(now < SharedHigh(n, now))
        BY <1>6, <2>1 DEF SharedRollback
      <3> QED BY <1>1, <2>2, <3>1
    <2>4. Advanced(n, now) = SharedAt(n, now)
      BY <2>1, <2>3, Zenon DEF Advanced
    <2>5. s.max = now /\ s.set
      BY <1>9, <2>1, <2>4 DEF SharedAt
    <2>6. s.day = DayIn(setup, now)
      BY <1>9, <2>5 DEF SharedOK
    <2>7. \A u \in SpacesOf[setup] : ns[u].budget.max <= now
      <3>1. \A u \in SpacesOf[setup] : n[u].budget.max <= ClockHigh(n) /\ n[u].budget.max \in Nat
        BY <1>1, <1>4, ClockFacts, BudgetNats
      <3>2. ClockHigh(n) \in Nat /\ ClockHigh(n) <= now
        BY <1>1, <1>4, <2>2, <2>3, ClockFacts
      <3>3. \A u \in SpacesOf[setup] : n[u].budget = ns[u].budget
        BY <1>4 DEF SameRows
      <3> QED BY <1>1, <3>1, <3>2, <3>3
    <2> QED BY <2>5, <2>6, <2>7
  <1>18. Allowed(b, n[Sp].consent, now, grant, s)
    <2>1. s.set <=> run.mode = "budgeted"
      BY <1>2, <1>9
    <2> QED BY <1>1, <1>8, <1>10, <1>16, <1>17, <2>1 DEF Allowed
  <1> QED BY <1>4, <1>6, <1>9, <1>10, <1>11, <1>14, <1>17, <1>18

LEMMA ReserveKeeps ==
  ASSUME HashInv, setup' = setup, Reserve
  PROVE  HashInv'
  <1>1. At("reserve") /\ run.mode # "plain" /\ consumed' = consumed
    BY ReserveParts
  <1>2. PICK now, n, s, b, grant :
          /\ now \in Times /\ ReservesAt(now, n, s, b, grant)
          /\ \/ Transact(n, s, Ended) /\ UNCHANGED charged
             \/ Admits(now, n, s, b, grant)
    BY ReserveParts
  <1>3. CASE Transact(n, s, Ended) /\ UNCHANGED charged
    <2>1. n = Observed(ns, Sp, now) /\ (s = shared \/ s = Advanced(n, now))
      BY <1>2 DEF ReservesAt, ReserveShared
    <2>2. Sp \in SpacesOf[setup] /\ now \in Nat /\ now <= Horizon(setup)
          /\ RunOK(setup, ns, shared, handle, run)
      BY <1>2, SpaceOf, TimeFacts, InvParts
    <2>3. ns[Sp].consent.given /\ ~InUse(run.phase) /\ ~At("idle") /\ NoCharge
      BY <1>1, <1>3, <2>2 DEF RunOK, At, Sp, InUse, NoCharge
    <2>4. RunOK(setup, n, s, handle, Ended) /\ ~InUse(Ended.phase)
      BY <2>1, <2>2, <2>3, SeenEnds
    <2> QED BY <1>3, <2>1, <2>2, <2>3, <2>4, SeenKeeps
  <1>4. CASE Admits(now, n, s, b, grant)
    <2>1. /\ GuardBoth(n, Sp, now) = "ok" /\ RecordCharge(b)
          /\ Transact(Reserved(n, b, grant), Charged(s, grant), ReadRun(grant))
      BY <1>4 DEF Admits
    <2>2. PICK m, t, r : m = Reserved(n, b, grant) /\ t = Charged(s, grant) /\ r = ReadRun(grant)
      OBVIOUS
    <2>3. Transact(m, t, r) /\ r = [Going("read") EXCEPT !.grant = grant]
      BY <2>1, <2>2 DEF ReadRun
    <2>4. PICK c : c = n[Sp].consent
      OBVIOUS
    <2>5. /\ Allowed(b, c, now, grant, s) /\ Candidate(n, c)
          /\ NsOK(setup, n) /\ SharedOK(setup, n, s)
      BY <1>1, <1>2, <2>1, <2>4, AdmittedOK
    <2> QED BY <1>1, <2>1, <2>2, <2>3, <2>5, ReservationKeeps
  <1> QED BY <1>2, <1>3, <1>4

-----------------------------------------------------------------------------
(* The store to start from. *)

LEMMA RestWithin ==
  ASSUME NEW n \in Nat, NEW S \in Nat \ {0}
  PROVE  n % S \in Nat /\ n % S < S /\ n % S <= n
  <1>1. n = S * (n \div S) + (n % S) /\ n % S \in 0..(S - 1) /\ n \div S \in Nat
    OBVIOUS
  <1>2. PICK q \in Nat, r \in Nat : q = n \div S /\ r = n % S /\ n = S * q + r /\ r \in 0..(S - 1)
    BY <1>1
  <1>3. S * q \in Nat
    OBVIOUS
  <1>4. r <= n /\ r < S
    BY <1>2, <1>3
  <1> QED BY <1>2, <1>4

LEMMA DayZero ==
  ASSUME NEW k \in DOMAIN Setups
  PROVE  DayIn(k, 0) = 0
  <1>1. PICK D \in Nat \ {0} : D = Setups[k].dayLen
    BY SetupFacts
  <1>2. 0 \div D = 0
    OBVIOUS
  <1> QED BY <1>1, <1>2 DEF DayIn

\* A work that was hashed before.
IsDone(x, size) ==
  /\ x \in WorkRows /\ x.status = "complete" /\ x.off = size /\ x.attempt \in AttemptRows
  /\ x.attempt.status = "settled" /\ x.attempt.day = 0 /\ x.attempt.grant \in Nat
  /\ x.attempt.grant <= size /\ x.attempt.grant <= StepLimit
  /\ x.attempt.from \in Nat /\ x.attempt.from + x.attempt.grant = size
  /\ x.attempt.req = x.attempt.grant /\ x.attempt.read = x.attempt.grant
LEMMA DoneWorkIs ==
  ASSUME NEW k \in DOMAIN Setups, setup = k, NEW w \in Setups[k].works
  PROVE  IsDone(DoneWork(w), Setups[k].size[w])
  <1>1. PICK size \in Nat : size = Setups[k].size[w] /\ size = Size[w]
    BY SetupFacts DEF Size
  <1> DEFINE last == IF size = 0 THEN 0 ELSE ((size - 1) % StepLimit) + 1
  <1>2. last \in Nat /\ last <= size /\ last <= StepLimit
    <2>1. StepLimit \in Nat \ {0}
      BY ConstantFacts
    <2>2. CASE size = 0
      BY <2>1, <2>2
    <2>3. CASE size # 0
      <3>1. PICK n \in Nat : n = size - 1
        BY <2>3
      <3>2. n % StepLimit \in Nat /\ n % StepLimit < StepLimit /\ n % StepLimit <= n
        BY <2>1, RestWithin
      <3>3. PICK r \in Nat : r = n % StepLimit
        BY <3>2
      <3>4. last = r + 1
        BY <2>3, <3>1, <3>3
      <3> HIDE DEF last
      <3>5. r < StepLimit /\ r <= n
        BY <3>2, <3>3
      <3> QED BY <2>1, <3>1, <3>4, <3>5
    <2> QED BY <2>2, <2>3
  <1>3. PICK from \in Nat : from = size - last /\ from + last = size
    BY <1>2
  <1>4. DoneWork(w) = [status |-> "complete", off |-> size,
                       attempt |-> [status |-> "settled", from |-> from, grant |-> last,
                                    day |-> 0, req |-> last, read |-> last]]
    BY <1>1, <1>3 DEF DoneWork
  <1> HIDE DEF last
  <1>5. PICK a : a = [status |-> "settled", from |-> from, grant |-> last,
                      day |-> 0, req |-> last, read |-> last]
    OBVIOUS
  <1>6. /\ a \in AttemptRows /\ a.status = "settled" /\ a.from = from /\ a.grant = last /\ a.day = 0
        /\ a.req = last /\ a.read = last
    BY <1>2, <1>5 DEF AttemptRows, Statuses
  <1>7. PICK x : x = DoneWork(w)
    OBVIOUS
  <1>8. x = [status |-> "complete", off |-> size, attempt |-> a]
    BY <1>4, <1>5, <1>7
  <1>9. x \in WorkRows /\ x.status = "complete" /\ x.off = size /\ x.attempt = a
    BY <1>6, <1>8 DEF WorkRows
  <1>10. IsDone(x, size)
    BY <1>2, <1>3, <1>6, <1>9 DEF IsDone
  <1> QED BY <1>1, <1>7, <1>10

LEMMA NewWorkIs ==
  /\ NewWork \in WorkRows /\ NewWork.status = "pending" /\ NewWork.off = 0
  /\ NewWork.attempt = NoAttempt /\ NoAttempt \in AttemptRows /\ NoAttempt.status = "none"
  /\ NoAttempt.day = 0 /\ NoAttempt.grant = 0 /\ NoAttempt.req = 0 /\ NoAttempt.read = 0
  BY DEF NewWork, NoAttempt, WorkRows, AttemptRows, Statuses

\* The first budget row.
FirstBudget(bytes) ==
  [NoBudget EXCEPT !.set = TRUE, !.res = bytes, !.req = bytes, !.read = bytes,
                   !.tres = bytes, !.treq = bytes, !.tread = bytes]
IsFirst(b, bytes) ==
  /\ b \in Budgets /\ b.day = 0 /\ b.max = 0 /\ b.res = bytes /\ b.req = bytes /\ b.read = bytes
  /\ b.unk = 0 /\ b.tres = bytes /\ b.treq = bytes /\ b.tread = bytes /\ b.tunk = 0
  /\ b.set \/ (b = NoBudget /\ bytes = 0)
LEMMA FirstIs ==
  /\ \A bytes \in Nat : IsFirst(FirstBudget(bytes), bytes)
  /\ IsFirst(NoBudget, 0) /\ ~NoBudget.set
  <1>1. ASSUME NEW bytes \in Nat PROVE IsFirst(FirstBudget(bytes), bytes)
    <2>1. PICK b : b = FirstBudget(bytes)
      OBVIOUS
    <2>2. b = [set |-> TRUE, day |-> 0, max |-> 0, res |-> bytes, req |-> bytes, read |-> bytes,
               unk |-> 0, tres |-> bytes, treq |-> bytes, tread |-> bytes, tunk |-> 0]
      BY <2>1 DEF FirstBudget, NoBudget
    <2>3. b \in Budgets /\ b.set
      BY <2>2 DEF Budgets
    <2>4. /\ b.day = 0 /\ b.max = 0 /\ b.res = bytes /\ b.req = bytes /\ b.read = bytes
          /\ b.unk = 0 /\ b.tres = bytes /\ b.treq = bytes /\ b.tread = bytes /\ b.tunk = 0
      BY <2>2
    <2>5. IsFirst(b, bytes)
      BY <2>3, <2>4, Zenon DEF IsFirst
    <2> QED BY <2>1, <2>5
  <1>2. NoBudget \in Budgets
    BY DEF NoBudget, Budgets
  <1>3. /\ NoBudget.day = 0 /\ NoBudget.max = 0 /\ NoBudget.res = 0 /\ NoBudget.req = 0
        /\ NoBudget.read = 0 /\ NoBudget.unk = 0 /\ NoBudget.tres = 0 /\ NoBudget.treq = 0
        /\ NoBudget.tread = 0 /\ NoBudget.tunk = 0 /\ ~NoBudget.set
    BY DEF NoBudget
  <1> QED BY <1>1, <1>2, <1>3 DEF IsFirst

LEMMA NoConsentIs ==
  NoConsent \in Consents /\ ~NoConsent.given
  BY DEF NoConsent, Consents

\* A first row: its works are done or new, and its budget counts the done ones.
LEMMA FirstRow ==
  ASSUME NEW k \in DOMAIN Setups, NEW sp \in SpacesOf[k], NEW x, NEW D \in SUBSET WorksIn(k, sp),
         NEW bytes, bytes = SumOver(Setups[k].size, D),
         DOMAIN x = {"budget", "consent", "work", "queue"},
         x.consent = NoConsent, IsFirst(x.budget, bytes), sp # Original => ~x.budget.set,
         x.work = [w \in WorksIn(k, sp) |-> x.work[w]],
         \A w \in D : IsDone(x.work[w], Setups[k].size[w]),
         \A w \in WorksIn(k, sp) \ D : x.work[w] = NewWork
  PROVE  RowOK(k, sp, x)
  <1> DEFINE W == WorksIn(k, sp)
             b == x.budget
             size == Setups[k].size
  <1>1. /\ IsFiniteSet(W) /\ W \subseteq Setups[k].works /\ size \in [Setups[k].works -> Nat]
        /\ (\A w \in W : size[w] \in Nat) /\ IsFiniteSet(D) /\ Horizon(k) \in Nat
    <2>1. IsFiniteSet(W) /\ (\A w \in W : size[w] \in Nat) /\ Horizon(k) \in Nat
      BY SpaceFacts
    <2>2. W \subseteq Setups[k].works /\ size \in [Setups[k].works -> Nat]
      BY SetupFacts DEF WorksIn
    <2> QED BY <2>1, <2>2, FS_Subset
  <1>2. D \in SUBSET Setups[k].works
    BY <1>1
  <1>3. bytes \in Nat
    BY <1>1, <1>2, SumTakeOut
  <1>4. /\ b \in Budgets /\ b.day = 0 /\ b.max = 0 /\ b.res = bytes /\ b.req = bytes /\ b.read = bytes
        /\ b.unk = 0 /\ b.tres = bytes /\ b.treq = bytes /\ b.tread = bytes /\ b.tunk = 0
        /\ b.set \/ b = NoBudget
    BY DEF IsFirst
  <1>5. BudgetOK(k, b)
    BY <1>1, <1>3, <1>4, DayZero DEF BudgetOK
  <1>6. ConsentOK(k, sp, x.consent, b)
    BY NoConsentIs DEF ConsentOK
  <1>7. x.work \in [W -> WorkRows]
    <2>1. \A w \in W : x.work[w] \in WorkRows
      BY NewWorkIs, SMTT(40) DEF IsDone
    <2> QED BY <2>1
  <1>8. ASSUME NEW w \in W PROVE WorkOK(size[w], sp, b.day, x.work[w])
    <2>1. CASE w \in D
      <3>1. IsDone(x.work[w], size[w]) /\ size[w] \in Nat
        BY <1>1, <2>1
      <3> HIDE DEF size, b
      <3> QED BY <1>4, <3>1, SMTT(60) DEF IsDone, WorkOK
    <2>2. CASE w \notin D
      <3>1. x.work[w] = NewWork /\ size[w] \in Nat
        BY <1>1, <2>2
      <3>2. 0 % Quantum = 0
        <4>1. PICK q \in Nat \ {0} : q = Quantum
          BY ConstantFacts
        <4>2. 0 % q = 0
          OBVIOUS
        <4> QED BY <4>1, <4>2
      <3> HIDE DEF size, b
      <3> QED BY <1>4, <3>1, <3>2, NewWorkIs DEF WorkOK
    <2> QED BY <2>1, <2>2
  <1>9. OpenOK(W, b, x.work)
    <2>1. \A w \in W : x.work[w].status # "running"
      BY NewWorkIs DEF IsDone
    <2> QED BY <2>1 DEF OpenOK
  <1>10. ASSUME NEW f \in Amounts, NEW S \in SUBSET W PROVE RowSum(x.work, f, S) <= bytes
    <2> DEFINE F == [w \in S |-> x.work[w].attempt[f]]
    <2>1. ASSUME NEW w \in S
          PROVE  F[w] \in Nat /\ (F[w] = 0 \/ (w \in D /\ F[w] <= size[w]))
      <3>1. CASE w \in D
        <4>1. IsDone(x.work[w], size[w]) /\ size[w] \in Nat
          BY <1>1, <3>1
        <4> QED BY <3>1, <4>1 DEF IsDone, Amounts
      <3>2. CASE w \notin D
        <4>1. x.work[w] = NewWork
          BY <3>2
        <4> QED BY <4>1, NewWorkIs DEF Amounts
      <3> QED BY <3>1, <3>2, Zenon
    <2>2. F \in [S -> Nat] /\ S \in SUBSET S
      BY <2>1
    <2>3. IsFiniteSet(S)
      BY <1>1, FS_Subset
    <2>4. RowSum(x.work, f, S) = SumOver(F, S)
      BY DEF RowSum
    <2> HIDE DEF F, size
    <2>5. SumOver(F, S) <= SumOver(size, D)
      BY <1>1, <1>2, <2>1, <2>2, <2>3, SumAtMost
    <2> QED BY <2>4, <2>5 DEF size
  <1>11. OffSum(W, x.work) <= bytes
    <2> DEFINE F == [w \in W |-> x.work[w].off]
    <2>1. ASSUME NEW w \in W
          PROVE  F[w] \in Nat /\ (F[w] = 0 \/ (w \in D /\ F[w] <= size[w]))
      <3>1. CASE w \in D
        <4>1. IsDone(x.work[w], size[w]) /\ size[w] \in Nat
          BY <1>1, <3>1
        <4> QED BY <3>1, <4>1, SMTT(60) DEF IsDone
      <3>2. CASE w \notin D
        <4>1. x.work[w] = NewWork
          BY <3>2
        <4> QED BY <4>1, NewWorkIs
      <3> QED BY <3>1, <3>2, Zenon
    <2>2. F \in [W -> Nat] /\ W \in SUBSET W
      BY <2>1
    <2>4. OffSum(W, x.work) = SumOver(F, W)
      BY DEF OffSum
    <2> HIDE DEF F, size
    <2>5. SumOver(F, W) <= SumOver(size, D)
      BY <1>1, <1>2, <2>1, <2>2, SumAtMost
    <2> QED BY <2>4, <2>5 DEF size
  <1>12. ASSUME NEW f \in Amounts, NEW statuses
         PROVE  Fits(W, x.work, b.day, f, statuses, bytes, bytes)
    <2> DEFINE S == WithStatus(W, x.work, statuses)
    <2>1. S \in SUBSET W /\ OnDay(S, x.work, b.day) \in SUBSET W
      BY DEF WithStatus, OnDay
    <2> QED BY <1>10, <2>1 DEF Fits
  <1>13. Fits(W, x.work, b.day, "grant", {"interrupted_unknown"}, 0, 0)
    <2> DEFINE S == WithStatus(W, x.work, {"interrupted_unknown"})
    <2>1. S = {}
      BY NewWorkIs DEF WithStatus, IsDone
    <2>2. OnDay(S, x.work, b.day) = {}
      BY <2>1 DEF OnDay
    <2>3. RowSum(x.work, "grant", {}) = 0
      BY <1>1, <1>7, PartSum DEF Amounts
    <2>4. RowSum(x.work, "grant", S) = 0 /\ RowSum(x.work, "grant", OnDay(S, x.work, b.day)) = 0
      BY <2>1, <2>2, <2>3, Zenon
    <2> QED BY <2>4 DEF Fits
  <1>14. SumsOK(W, b, x.work)
    <2>1. "grant" \in Amounts /\ "req" \in Amounts /\ "read" \in Amounts
      BY DEF Amounts
    <2> QED BY <1>4, <1>11, <1>12, <1>13, <2>1 DEF SumsOK
  <1> HIDE DEF W, b, size
  <1> QED BY <1>5, <1>6, <1>7, <1>8, <1>9, <1>14 DEF RowOK, W, b, size

-----------------------------------------------------------------------------
(* The store to start from meets the invariant. *)

FirstOf(sp, x) ==
  /\ DOMAIN x = {"budget", "consent", "work", "queue"}
  /\ x.consent = NoConsent
  /\ x.budget = IF sp = Original /\ Done # {} THEN FirstBudget(DoneBytes) ELSE NoBudget
  /\ x.work = [w \in WorksOf(sp) |-> IF sp = Original /\ w \in Done THEN DoneWork(w) ELSE NewWork]

LEMMA InitRows ==
  ASSUME Init, NEW sp \in Spaces
  PROVE  FirstOf(sp, ns[sp])
  <1>1. ns[sp] =
         [budget |-> IF sp = Original /\ Done # {} THEN FirstBudget(DoneBytes) ELSE NoBudget,
          consent |-> NoConsent,
          work |-> [w \in WorksOf(sp) |->
                      IF sp = Original /\ w \in Done THEN DoneWork(w) ELSE NewWork],
          queue |-> SetToSortSeq(WorksOf(sp), <)]
    BY DEF Init, FirstBudget
  <1>2. PICK b, work, queue :
          /\ b = IF sp = Original /\ Done # {} THEN FirstBudget(DoneBytes) ELSE NoBudget
          /\ work = [w \in WorksOf(sp) |->
                       IF sp = Original /\ w \in Done THEN DoneWork(w) ELSE NewWork]
          /\ queue = SetToSortSeq(WorksOf(sp), <)
    OBVIOUS
  <1>3. ns[sp] = [budget |-> b, consent |-> NoConsent, work |-> work, queue |-> queue]
    BY <1>1, <1>2, Zenon
  <1>4. /\ DOMAIN ns[sp] = {"budget", "consent", "work", "queue"}
        /\ ns[sp].budget = b /\ ns[sp].consent = NoConsent /\ ns[sp].work = work
    BY <1>3
  <1> QED BY <1>2, <1>4, Zenon DEF FirstOf

LEMMA InitNs ==
  ASSUME Init
  PROVE  NsOK(setup, ns)
  <1>1. setup \in DOMAIN Setups /\ DOMAIN ns = SpacesOf[setup] /\ Spaces = SpacesOf[setup]
    BY DEF Init, Spaces
  <1> SUFFICES ASSUME NEW sp \in SpacesOf[setup] PROVE RowOK(setup, sp, ns[sp])
    BY <1>1 DEF NsOK
  <1>2. PICK k \in DOMAIN Setups : k = setup
    BY <1>1
  <1>3. PICK x : x = ns[sp] /\ FirstOf(sp, x)
    BY <1>1, InitRows
  <1>4. \A p : WorksOf(p) = WorksIn(k, p)
    BY <1>2 DEF WorksOf, WorksIn, Works, Done
  <1>5. Setups[k].done \subseteq Setups[k].works /\ Done = Setups[k].done
    BY <1>2, SetupFacts DEF Done
  <1> DEFINE D == IF sp = Original THEN Setups[k].done ELSE {}
             bytes == SumOver(Setups[k].size, D)
  <1>6. D \in SUBSET WorksIn(k, sp) /\ D \in SUBSET Setups[k].works
    BY <1>5 DEF WorksIn
  <1>7. IsFiniteSet(D) /\ Setups[k].size \in [Setups[k].works -> Nat]
    BY <1>6, SetupFacts, FS_Subset
  <1>8. bytes \in Nat /\ SumOver(Setups[k].size, {}) = 0
    <2>1. PICK F, S : F = Setups[k].size /\ S = Setups[k].works
      OBVIOUS
    <2> HIDE DEF D
    <2>2. F \in [S -> Nat] /\ D \in SUBSET S
      BY <1>6, <1>7, <2>1
    <2> QED BY <1>7, <2>1, <2>2, SumTakeOut
  <1>9. x.work = [w \in WorksIn(k, sp) |-> IF w \in D THEN DoneWork(w) ELSE NewWork]
    BY <1>3, <1>4, <1>5 DEF FirstOf
  <1>10. /\ x.work = [w \in WorksIn(k, sp) |-> x.work[w]]
         /\ \A w \in D : IsDone(x.work[w], Setups[k].size[w])
         /\ \A w \in WorksIn(k, sp) \ D : x.work[w] = NewWork
    <2> HIDE DEF D
    <2>1. x.work = [w \in WorksIn(k, sp) |-> x.work[w]]
      BY <1>9
    <2>2. ASSUME NEW w \in D PROVE IsDone(x.work[w], Setups[k].size[w])
      <3>1. w \in WorksIn(k, sp) /\ w \in Setups[k].works
        BY <1>6
      <3>2. x.work[w] = DoneWork(w)
        BY <1>9, <3>1
      <3> QED BY <1>2, <3>1, <3>2, DoneWorkIs
    <2> QED BY <1>9, <2>1, <2>2
  <1>11. IsFirst(x.budget, bytes) /\ (sp # Original => ~x.budget.set)
    <2>1. CASE sp = Original /\ Done # {}
      <3>1. bytes = DoneBytes
        BY <1>2, <1>5, <2>1, Zenon DEF DoneBytes, Size
      <3>2. x.budget = FirstBudget(bytes)
        BY <1>3, <2>1, <3>1 DEF FirstOf
      <3> HIDE DEF bytes
      <3> QED BY <1>8, <2>1, <3>2, FirstIs
    <2>2. CASE ~(sp = Original /\ Done # {})
      <3>1. D = {}
        BY <1>5, <2>2
      <3>2. bytes = 0
        BY <1>8, <3>1, Zenon
      <3>3. x.budget = NoBudget
        BY <1>3, <2>2 DEF FirstOf
      <3> HIDE DEF bytes
      <3> QED BY <3>2, <3>3, FirstIs
    <2> QED BY <2>1, <2>2
  <1>12. sp \in SpacesOf[k] /\ DOMAIN x = {"budget", "consent", "work", "queue"} /\ x.consent = NoConsent
    BY <1>2, <1>3 DEF FirstOf
  <1>13. PICK E, m : E \in SUBSET WorksIn(k, sp) /\ E = D /\ m = bytes
    BY <1>6
  <1>14. m = SumOver(Setups[k].size, E)
    BY <1>13, Zenon
  <1> HIDE DEF D, bytes
  <1>15. RowOK(k, sp, x)
    BY <1>10, <1>11, <1>12, <1>13, <1>14, FirstRow
  <1> QED BY <1>2, <1>3, <1>15

LEMMA FirstNumbers ==
  ASSUME Init, NEW sp \in SpacesOf[setup]
  PROVE  LET b == ns[sp].budget
         IN /\ b.day = 0 /\ b.tunk = 0 /\ b.res = b.tres /\ b.res \in Nat /\ b.treq \in Nat
            /\ ~b.set => b.res = 0
  <1>1. FirstOf(sp, ns[sp]) /\ NsOK(setup, ns)
    BY InitRows, InitNs DEF Spaces
  <1>2. PICK b : b = ns[sp].budget
    OBVIOUS
  <1>3. b = NoBudget \/ b = FirstBudget(DoneBytes)
    BY <1>1, <1>2 DEF FirstOf
  <1>4. b.res \in Nat /\ b.treq \in Nat
    BY <1>1, <1>2 DEF NsOK, RowOK, BudgetOK, Budgets
  <1>5. b.day = 0 /\ b.tunk = 0 /\ b.res = b.tres /\ (b.set \/ b.res = 0)
    <2>1. CASE b = NoBudget
      BY <2>1 DEF NoBudget
    <2>2. CASE b = FirstBudget(DoneBytes)
      <3>1. b = [set |-> TRUE, day |-> 0, max |-> 0, res |-> DoneBytes, req |-> DoneBytes,
                 read |-> DoneBytes, unk |-> 0, tres |-> DoneBytes, treq |-> DoneBytes,
                 tread |-> DoneBytes, tunk |-> 0]
        BY <2>2 DEF FirstBudget, NoBudget
      <3> QED BY <3>1
    <2> QED BY <1>3, <2>1, <2>2
  <1> QED BY <1>2, <1>4, <1>5

LEMMA InitInv ==
  ASSUME Init
  PROVE  HashInv
  <1>1. setup \in DOMAIN Setups /\ NsOK(setup, ns) /\ Spaces = SpacesOf[setup]
    BY InitNs DEF Init, Spaces
  <1>2. /\ shared = NoShared /\ handle = "closed" /\ run = Idle
        /\ consumed = [sp \in Spaces |-> ns[sp].budget.treq]
        /\ charged = [sp \in Spaces |-> [d \in Days |-> IF d = 0 THEN ns[sp].budget.tres ELSE 0]]
    BY DEF Init
  <1>3. SharedOK(setup, ns, shared)
    BY <1>2 DEF SharedOK, SharedRows, NoShared
  <1>4. ChargeOK(setup, ns, charged)
    <2>1. Days = DaysIn(setup)
      BY DEF Days, DaysIn, DayOf, DayIn, Horizon, DayLen, MaxTime
    <2>2. ASSUME NEW sp \in SpacesOf[setup]
          PROVE  /\ charged[sp] \in [DaysIn(setup) -> Nat]
                 /\ \A d \in DaysIn(setup) : d >= ns[sp].budget.day =>
                      charged[sp][d] = DayRes(ns[sp].budget, d)
      <3>1. PICK b : /\ b = ns[sp].budget /\ b.day = 0 /\ b.res = b.tres /\ b.res \in Nat
                     /\ ~b.set => b.res = 0
        BY FirstNumbers
      <3>2. charged[sp] = [d \in DaysIn(setup) |-> IF d = 0 THEN b.res ELSE 0]
        BY <1>1, <1>2, <2>1, <3>1
      <3>3. \A d \in DaysIn(setup) : charged[sp][d] = DayRes(b, d)
        BY <3>1, <3>2 DEF DayRes
      <3> QED BY <3>1, <3>2, <3>3
    <2> QED BY <1>1, <1>2, <2>2 DEF ChargeOK
  <1>5. RunOK(setup, ns, shared, handle, run)
    <2>1. "closed" \in HandleKinds \ {"writer"}
      BY DEF HandleKinds
    <2> QED BY <1>1, <1>2, <2>1, RunIdle
  <1>6. UseOK(setup, ns, run, consumed)
    <2>1. ASSUME NEW sp \in SpacesOf[setup]
          PROVE  /\ consumed[sp] \in Nat
                 /\ consumed[sp] <= ns[sp].budget.treq + ns[sp].budget.tunk
                                      + Pending(setup, ns, run, sp)
      <3>1. PICK q, p : /\ q = ns[sp].budget.treq /\ p = Pending(setup, ns, run, sp)
                        /\ q \in Nat /\ ns[sp].budget.tunk = 0 /\ p \in Nat
        BY <1>1, <1>2, <1>5, FirstNumbers, PendingIdle
      <3>2. consumed[sp] = q
        BY <1>1, <1>2, <3>1
      <3> QED BY <3>1, <3>2
    <2> QED BY <1>1, <1>2, <2>1 DEF UseOK
  <1> QED BY <1>1, <1>3, <1>4, <1>5, <1>6 DEF HashInv

-----------------------------------------------------------------------------
(* Every step of the store and of its publications keeps the invariant. *)

LEMMA NextKeeps ==
  ASSUME HashInv, Next
  PROVE  HashInv'
  <1>0. Step /\ setup' = setup
    BY DEF Next
  <1>1. CASE OpenWriter \/ OpenSelectionWriter \/ \E j \in Jobs : OpenFreshRunWriter(j)
    BY <1>0, <1>1, OpensKeep
  <1>2. CASE Close \/ Crash
    BY <1>0, <1>2, CloseOrCrash
  <1>3. CASE \E sp \in Spaces, limits \in ReadLimits : ApproveRead(sp, limits)
    BY <1>0, <1>3, ApproveReadKeeps
  <1>4. CASE \E sp \in Spaces : RetryApproval(sp)
    BY <1>0, <1>4, RetryApprovalKeeps
  <1>5. CASE \E sp \in Spaces : RevokeRead(sp)
    BY <1>0, <1>5, RevokeReadKeeps
  <1>6. CASE StartPlain
    <2>1. Original \in Spaces
      BY SpaceOf
    <2> QED BY <1>0, <1>6, <2>1, StartKeeps
  <1>7. CASE \E sp \in Spaces : StartConsented(sp)
    BY <1>0, <1>7, StartKeeps
  <1>8. CASE \E sp \in Spaces : StartBudgeted(sp)
    BY <1>0, <1>8, StartBudgetedKeeps
  <1>9. CASE ObserveApproval
    BY <1>0, <1>9, ObserveApprovalKeeps
  <1>10. CASE Choose
    BY <1>0, <1>10, ChooseKeeps
  <1>11. CASE InventoryChanged
    BY <1>0, <1>11, InventoryChangedKeeps
  <1>12. CASE GiveUp
    BY <1>0, <1>12, GiveUpKeeps
  <1>13. CASE ExpireEarly
    BY <1>0, <1>13, ExpireEarlyKeeps
  <1>14. CASE SaveSeenClock
    BY <1>0, <1>14, SaveSeenClockKeeps
  <1>15. CASE FinishBudget
    BY <1>0, <1>15, FinishBudgetKeeps
  <1>16. CASE ReservePlain
    BY <1>0, <1>16, ReservePlainKeeps
  <1>17. CASE Reserve
    BY <1>0, <1>17, ReserveKeeps
  <1>18. CASE Read
    BY <1>0, <1>18, ReadKeeps
  <1>19. CASE Settle
    BY <1>0, <1>19, SettleKeeps
  <1>20. CASE LatchExpiry
    BY <1>0, <1>20, LatchExpiryKeeps
  <1> QED
    BY <1>0, <1>1, <1>2, <1>3, <1>4, <1>5, <1>6, <1>7, <1>8, <1>9, <1>10, <1>11, <1>12, <1>13,
       <1>14, <1>15, <1>16, <1>17, <1>18, <1>19, <1>20, Zenon DEF Step

\* A publication leaves the namespaces and the run alone.  It may poison the
\* handle, and opening for one binds it.
LEMMA PublishingFrame ==
  ASSUME \/ \E roles \in RolesAsked : SaveKeeperChoice(roles)
         \/ \E roles \in DOMAIN choices : OpenFreshJobWriter(roles)
         \/ \E key \in JobKeys : SaveFreshJob(key)
  PROVE  /\ UNCHANGED <<setup, ns, shared, run, consumed, charged>>
         /\ \/ handle' = handle
            \/ At("idle") /\ handle' = "poisoned"
            \/ handle = "closed" /\ handle' = "publisher"
  <1>1. CASE \E roles \in RolesAsked : SaveKeeperChoice(roles)
    BY <1>1, Zenon DEF SaveKeeperChoice, Publish
  <1>2. CASE \E roles \in DOMAIN choices : OpenFreshJobWriter(roles)
    BY <1>2, Zenon DEF OpenFreshJobWriter
  <1>3. CASE \E key \in JobKeys : SaveFreshJob(key)
    BY <1>3, Zenon DEF SaveFreshJob, Publish
  <1> QED BY <1>1, <1>2, <1>3

LEMMA PublishingKeeps ==
  ASSUME HashInv, UNCHANGED <<setup, ns, shared, run, consumed, charged>>,
         \/ handle' = handle
         \/ At("idle") /\ handle' = "poisoned"
         \/ handle = "closed" /\ handle' = "publisher"
  PROVE  HashInv'
  <1>1. /\ setup \in DOMAIN Setups /\ NsOK(setup, ns) /\ SharedOK(setup, ns, shared)
        /\ ChargeOK(setup, ns, charged) /\ RunOK(setup, ns, shared, handle, run)
        /\ UseOK(setup, ns, run, consumed)
    BY InvParts
  <1>2. Setups[setup].jobs \cap HandleKinds = {}
    BY <1>1, SetupFacts
  <1>3. RunOK(setup, ns, shared, handle', run)
    <2>1. CASE handle' = handle
      BY <1>1, <2>1
    <2>2. CASE handle' # handle
      <3>1. run.phase = "idle" /\ handle' \in {"poisoned", "publisher"}
        <4>1. handle = "closed" => run.phase = "idle"
          BY <1>1, <1>2 DEF RunOK, HandleKinds
        <4> QED BY <2>2, <4>1 DEF At
      <3>2. run \in Runs(setup)
        BY <1>1 DEF RunOK
      <3> QED BY <1>2, <3>1, <3>2 DEF RunOK, InUse, HandleKinds
    <2> QED BY <2>1, <2>2
  <1> QED BY <1>1, <1>3 DEF HashInv

LEMMA PubNextKeeps ==
  ASSUME HashInv, PubNext
  PROVE  HashInv'
  <1>1. CASE ReadingStep
    BY <1>1, NextKeeps DEF ReadingStep
  <1>2. CASE ~ReadingStep
    BY <1>2, PublishingFrame, PublishingKeeps DEF PubNext
  <1> QED BY <1>1, <1>2

LEMMA ContentNextKeeps ==
  HashInv /\ [ContentNext]_contentVars => HashInv'
  <1> SUFFICES ASSUME HashInv, [ContentNext]_contentVars PROVE HashInv'
    OBVIOUS
  <1>1. CASE PubNext
    BY <1>1, PubNextKeeps
  <1>2. CASE UNCHANGED allVars
    <2>1. UNCHANGED <<setup, ns, shared, run, consumed, charged>> /\ handle' = handle
      BY <1>2 DEF allVars, vars
    <2> QED BY <2>1, PublishingKeeps
  <1> QED BY <1>1, <1>2 DEF ContentNext, contentVars

\* Whatever order opens, approvals, revocations, runs, clock jumps, uncertain
\* commits and crashes come in, the hash store's rows, its shared row, the charges,
\* the run in progress and what was requested from files stay in the relation the
\* later theorems rest on (internal/inventory: hash_store*.go, hash_fresh_*.go,
\* hash_read_*.go).
THEOREM HashInvariant == ContentSpec => []HashInv
  <1>1. ContentInit => HashInv
    BY InitInv DEF ContentInit, PubInit
  <1> QED BY <1>1, ContentNextKeeps, PTL DEF ContentSpec

-----------------------------------------------------------------------------
(* What the store's readers accept. *)

LEMMA InvWorkReadable ==
  ASSUME HashInv, NEW sp \in Spaces, NEW w \in WorksOf(sp)
  PROVE  WorkReadable(sp, w)
  <1>1. sp \in SpacesOf[setup] /\ w \in WorksIn(setup, sp) /\ RowOK(setup, sp, ns[sp])
        /\ setup \in DOMAIN Setups
    BY SpaceOf, InvParts DEF NsOK
  <1>2. PICK x : x = ns[sp].work[w]
    OBVIOUS
  <1>3. PICK size \in Nat : size = Size[w] /\ size = Setups[setup].size[w]
    BY <1>1, SpaceFacts DEF Size
  <1>4. x \in WorkRows /\ x.attempt \in AttemptRows
    BY <1>1, <1>2, RowFields
  <1>5. WorkOK(size, sp, ns[sp].budget.day, x)
    BY <1>1, <1>2, <1>3 DEF RowOK
  <1>6. PICK a \in AttemptRows : a = x.attempt
    BY <1>4
  <1>7. /\ a.from \in Nat /\ a.grant \in Nat /\ a.read \in Nat /\ a.req \in Nat /\ x.off \in Nat
        /\ StepLimit \in Nat
    BY <1>4, ConstantFacts DEF AttemptRows, WorkRows
  <1>8. a.status # "none" => a.grant <= Least(StepLimit, size - a.from) /\ a.day <= ns[sp].budget.day
    BY <1>5, <1>6, <1>7 DEF WorkOK, Least
  <1>9. a.status = "settled" => /\ a.read <= a.req /\ a.req <= a.grant
                                /\ a.from <= x.off /\ x.off - a.from <= a.read
    BY <1>5, <1>6, <1>7 DEF WorkOK
  <1>10. /\ x.status = "complete" => x.off = size
         /\ x.status # "complete" => x.off % Quantum = 0
         /\ (x.status = "running") <=> (a.status = "reserved")
         /\ a.status = "none" => x.off = 0 /\ (sp # Original => x.status = "pending")
         /\ a.status \in {"reserved", "interrupted_unknown"} => a.from = x.off
         /\ a.status = "interrupted_unknown" /\ sp # Original => x.status = "pending"
    BY <1>5, <1>6 DEF WorkOK
  <1> QED BY <1>2, <1>3, <1>6, <1>8, <1>9, <1>10, Zenon DEF WorkReadable

\* The open reservation is what the counters have left for it.
LEMMA OpenFits ==
  ASSUME NEW k \in DOMAIN Setups, NEW sp, NEW x, RowOK(k, sp, x), NEW open,
         open = WithStatus(WorksIn(k, sp), x.work, {"reserved"})
  PROVE  /\ RowSum(x.work, "grant", open) \in Nat
         /\ RowSum(x.work, "grant", open) = Held(k, sp, x)
         /\ open = {} => Held(k, sp, x) = 0
         /\ RowSum(x.work, "grant", open) <= x.budget.tres - x.budget.treq - x.budget.tunk
         /\ RowSum(x.work, "grant", OnDay(open, x.work, x.budget.day))
              <= x.budget.res - x.budget.req - x.budget.unk
  <1> DEFINE W == WorksIn(k, sp)
             b == x.budget
             today == OnDay(open, x.work, b.day)
             whole == RowSum(x.work, "grant", open)
             part == RowSum(x.work, "grant", today)
  <1>1. /\ b \in Budgets /\ x.work \in [W -> WorkRows] /\ IsFiniteSet(W)
        /\ \A w \in W : x.work[w] \in WorkRows /\ x.work[w].attempt \in AttemptRows
    BY RowFields
  <1>2. /\ b.res \in Nat /\ b.req \in Nat /\ b.unk \in Nat
        /\ b.tres \in Nat /\ b.treq \in Nat /\ b.tunk \in Nat
    BY <1>1 DEF Budgets
  <1>3. b.req + b.unk <= b.res /\ b.treq + b.tunk <= b.tres
    BY DEF RowOK, BudgetOK
  <1>4. open \in SUBSET W /\ today \in SUBSET W /\ "grant" \in Amounts
    BY DEF WithStatus, OnDay, Amounts
  <1>5. \A w \in W : w \in open <=> x.work[w].status = "running"
    BY DEF RowOK, WorkOK, WithStatus
  <1>6. CASE open = {}
    <2>1. today = {}
      BY <1>6 DEF OnDay
    <2>2. whole = 0 /\ part = 0
      BY <1>1, <1>4, <1>6, <2>1, PartSum
    <2>3. Held(k, sp, x) = 0
      BY <1>5, <1>6, HeldFacts
    <2> HIDE DEF whole, part, b
    <2> QED BY <1>2, <1>3, <2>2, <2>3 DEF whole, part, b
  <1>7. CASE open # {}
    <2>1. PICK w \in W : w \in open /\ x.work[w].status = "running"
      BY <1>4, <1>5, <1>7
    <2>2. /\ \A v \in W : x.work[v].status = "running" => v = w
          /\ b.treq + b.tunk + x.work[w].attempt.grant <= b.tres
          /\ x.work[w].attempt.day = b.day => b.req + b.unk + x.work[w].attempt.grant <= b.res
      BY <2>1 DEF RowOK, OpenOK
    <2>3. open = {w}
      BY <1>4, <1>5, <2>1, <2>2
    <2>4. PICK g \in Nat : g = x.work[w].attempt.grant
      BY <1>1, <2>1 DEF AttemptRows
    <2>5. ASSUME NEW S \in SUBSET W, S = {w} PROVE RowSum(x.work, "grant", S) = g
      <3> DEFINE F == [v \in S |-> x.work[v].attempt["grant"]]
      <3>1. F \in [S -> Nat] /\ F[w] = g /\ w \in S
        BY <1>1, <2>4, <2>5 DEF AttemptRows
      <3>2. IsFiniteSet(S) /\ S \in SUBSET S /\ S \ {w} = {}
        BY <1>1, <2>5, FS_Subset
      <3>3. RowSum(x.work, "grant", S) = SumOver(F, S)
        BY DEF RowSum
      <3> HIDE DEF F
      <3>4. SumOver(F, S) = F[w] + SumOver(F, S \ {w}) /\ SumOver(F, {}) = 0
        BY <3>1, <3>2, SumTakeOut
      <3>5. SumOver(F, S \ {w}) = 0
        BY <3>2, <3>4, Zenon
      <3> QED BY <3>1, <3>3, <3>4, <3>5
    <2>6. whole = g
      BY <1>4, <2>3, <2>5
    <2>7. Held(k, sp, x) = g
      BY <2>1, <2>4, HeldFacts
    <2>8. part <= b.res - b.req - b.unk
      <3>1. CASE x.work[w].attempt.day = b.day
        <4>1. today = {w}
          BY <2>3, <3>1 DEF OnDay
        <4>2. part = g
          BY <1>4, <2>5, <4>1
        <4> HIDE DEF part, b
        <4> QED BY <1>2, <2>2, <2>4, <3>1, <4>2
      <3>2. CASE x.work[w].attempt.day # b.day
        <4>1. today = {}
          BY <2>3, <3>2 DEF OnDay
        <4>2. part = 0
          BY <1>1, <1>4, <4>1, PartSum
        <4> HIDE DEF part, b
        <4> QED BY <1>2, <1>3, <4>2
      <3> QED BY <3>1, <3>2
    <2>9. whole <= b.tres - b.treq - b.tunk
      <3> HIDE DEF whole, b
      <3> QED BY <1>2, <2>2, <2>4, <2>6
    <2> QED BY <1>7, <2>4, <2>6, <2>7, <2>8, <2>9
  <1> QED BY <1>6, <1>7

LEMMA InvAccountingReadable ==
  ASSUME HashInv, NEW sp \in Spaces
  PROVE  AccountingReadable(sp)
  <1>1. /\ sp \in SpacesOf[setup] /\ RowOK(setup, sp, ns[sp]) /\ setup \in DOMAIN Setups
        /\ WorksOf(sp) = WorksIn(setup, sp)
    BY SpaceOf, InvParts DEF NsOK
  <1>2. PICK x : x = ns[sp]
    OBVIOUS
  <1>3. PICK b, W : b = x.budget /\ W = WorksOf(sp) /\ W = WorksIn(setup, sp)
    BY <1>1
  <1>4. SumsOK(W, b, x.work) /\ x.work \in [W -> WorkRows]
    BY <1>1, <1>2, <1>3 DEF RowOK
  <1>5. \A statuses : Attempts(sp, statuses) = WithStatus(W, x.work, statuses)
    BY <1>2, <1>3 DEF Attempts, WithStatus
  <1>6. \A S : SameDay(sp, S) = OnDay(S, x.work, b.day)
    BY <1>2, <1>3 DEF SameDay, OnDay
  <1>7. \A f, S : AttemptSum(sp, f, S) = RowSum(x.work, f, S)
    BY <1>2, Zenon DEF AttemptSum, RowSum
  <1>8. WithStatus(W, x.work, Statuses) = W
    <2>1. \A w \in W : x.work[w].attempt.status \in Statuses
      BY <1>4 DEF WorkRows, AttemptRows
    <2> QED BY <2>1 DEF WithStatus
  <1> DEFINE open == WithStatus(W, x.work, {"reserved"})
             settled == WithStatus(W, x.work, {"settled"})
             unknown == WithStatus(W, x.work, {"interrupted_unknown"})
  <1>9. /\ RowSum(x.work, "grant", open) <= b.tres - b.treq - b.tunk
        /\ RowSum(x.work, "grant", OnDay(open, x.work, b.day)) <= b.res - b.req - b.unk
    <2>1. PICK S : S = open
      OBVIOUS
    <2>2. S = WithStatus(WorksIn(setup, sp), x.work, {"reserved"})
      BY <1>3, <2>1
    <2> QED BY <1>1, <1>2, <1>3, <2>1, <2>2, OpenFits
  <1>10. /\ Fits(W, x.work, b.day, "grant", Statuses, b.tres, b.res)
         /\ Fits(W, x.work, b.day, "req", {"settled"}, b.treq, b.req)
         /\ Fits(W, x.work, b.day, "read", {"settled"}, b.tread, b.read)
         /\ Fits(W, x.work, b.day, "grant", {"interrupted_unknown"}, b.tunk, b.unk)
         /\ OffSum(W, x.work) <= b.tread
    BY <1>4 DEF SumsOK
  <1>11. /\ RowSum(x.work, "grant", W) <= b.tres
         /\ RowSum(x.work, "grant", OnDay(W, x.work, b.day)) <= b.res
    BY <1>8, <1>10, Zenon DEF Fits
  <1>12. /\ RowSum(x.work, "req", settled) <= b.treq
         /\ RowSum(x.work, "req", OnDay(settled, x.work, b.day)) <= b.req
         /\ RowSum(x.work, "read", settled) <= b.tread
         /\ RowSum(x.work, "read", OnDay(settled, x.work, b.day)) <= b.read
         /\ RowSum(x.work, "grant", unknown) <= b.tunk
         /\ RowSum(x.work, "grant", OnDay(unknown, x.work, b.day)) <= b.unk
    BY <1>10, Zenon DEF Fits
  <1>13. SumOver([w \in WorksOf(sp) |-> ns[sp].work[w].off], WorksOf(sp)) <= b.tread
    BY <1>2, <1>3, <1>10, Zenon DEF OffSum
  <1>14. /\ Attempts(sp, {"settled"}) = settled /\ Attempts(sp, {"interrupted_unknown"}) = unknown
         /\ Attempts(sp, {"reserved"}) = open /\ ns[sp].budget = b
    BY <1>2, <1>3, <1>5
  <1> HIDE DEF open, settled, unknown
  <1>15. /\ Granted(sp, W) <= b.tres /\ Granted(sp, SameDay(sp, W)) <= b.res
         /\ AttemptSum(sp, "req", settled) <= b.treq
         /\ AttemptSum(sp, "req", SameDay(sp, settled)) <= b.req
         /\ AttemptSum(sp, "read", settled) <= b.tread
         /\ AttemptSum(sp, "read", SameDay(sp, settled)) <= b.read
         /\ Granted(sp, unknown) <= b.tunk /\ Granted(sp, SameDay(sp, unknown)) <= b.unk
         /\ Granted(sp, open) <= b.tres - b.treq - b.tunk
         /\ Granted(sp, SameDay(sp, open)) <= b.res - b.req - b.unk
    BY <1>6, <1>7, <1>9, <1>11, <1>12, Zenon DEF Granted
  <1> QED BY <1>3, <1>13, <1>14, <1>15, Zenon DEF AccountingReadable

LEMMA InvSharedReadable ==
  ASSUME HashInv
  PROVE  SharedReadable
  <1>1. /\ setup \in DOMAIN Setups /\ NsOK(setup, ns) /\ SharedOK(setup, ns, shared)
        /\ Spaces = SpacesOf[setup]
    BY InvParts, SpaceOf
  <1>2. /\ \A d : ReservedOn(ns, d) = AllRes(setup, ns, d)
        /\ ReservedTotal(ns) = AllTres(setup, ns)
    BY <1>1, Zenon DEF ReservedOn, ReservedTotal, AllRes, AllTres, DayRes
  <1>3. \A d : AllRes(setup, ns, d) <= AllTres(setup, ns)
    BY <1>1, AllFacts
  <1>4. \A t : DayOf(t) = DayIn(setup, t)
    BY DEF DayOf, DayIn, DayLen
  <1> QED BY <1>1, <1>2, <1>3, <1>4 DEF SharedOK, SharedReadable

LEMMA InvReadable == HashInv => SavedStateReadable
  <1> SUFFICES ASSUME HashInv PROVE SavedStateReadable
    OBVIOUS
  <1>1. setup \in DOMAIN Setups /\ NsOK(setup, ns) /\ RunOK(setup, ns, shared, handle, run)
    BY InvParts
  <1>2. /\ Spaces = SpacesOf[setup] /\ Jobs = Setups[setup].jobs /\ Jobs \subseteq SpacesOf[setup]
        /\ Sp \in SpacesOf[setup]
    BY SpaceOf
  <1>3. Original \notin Jobs
    BY <1>1, <1>2, SetupFacts
  <1>4. ASSUME NEW sp \in SpacesOf[setup]
        PROVE  /\ BudgetOK(setup, ns[sp].budget)
               /\ ConsentOK(setup, sp, ns[sp].consent, ns[sp].budget)
    BY <1>1 DEF NsOK, RowOK
  <1>5. ASSUME NEW sp \in Spaces PROVE SnapshotReadable(sp)
    <2>1. BudgetReadable(ns[sp].budget)
      <3>1. DayOf(ns[sp].budget.max) = DayIn(setup, ns[sp].budget.max)
        BY DEF DayOf, DayIn, DayLen
      <3> QED BY <1>2, <1>4, <3>1 DEF BudgetOK, BudgetReadable
    <2>2. ConsentReadable(ns[sp].consent, ns[sp].budget)
      BY <1>2, <1>4 DEF ConsentOK, ConsentReadable, ExpiresAt
    <2> QED BY <2>1, <2>2, InvWorkReadable, InvAccountingReadable DEF SnapshotReadable
  <1>6. ASSUME NEW j \in Jobs PROVE FreshReadable(j)
    BY <1>2, <1>3, <1>4 DEF ConsentOK, FreshReadable
  <1>7. run.phase \in {"observe", "choose", "reserve"} => Running(Sp) = {}
    <2> SUFFICES ASSUME run.phase \in {"observe", "choose", "reserve"} PROVE Running(Sp) = {}
      OBVIOUS
    <2>1. ~InUse(run.phase) /\ handle = IF Sp = Original THEN "writer" ELSE Sp
      BY <1>1 DEF RunOK, InUse, Sp
    <2>2. Sp # Original => Sp \in Setups[setup].jobs
      BY <1>1, <1>2, SpaceFacts
    <2>3. NoneRunning(setup, ns, Sp)
      BY <1>1, <2>1, <2>2 DEF RunOK
    <2>4. WorksOf(Sp) = WorksIn(setup, Sp)
      BY SpaceOf
    <2> QED BY <2>3, <2>4 DEF Running, NoneRunning
  <1> QED BY <1>5, <1>6, <1>7, InvSharedReadable DEF SavedStateReadable

\* SavedStateReadable for every store, every set of jobs, files and limits, and
\* every reading of the clock: whatever transactions, uncertain commits and
\* crashes came before, readHashSnapshot, readFreshJob and
\* readHashStoreReadBudgetAccounting accept what is saved.
THEOREM HashStateReadable == ContentSpec => []SavedStateReadable
  BY HashInvariant, InvReadable, PTL

-----------------------------------------------------------------------------
(* How one namespace's row may change in a step: its history only grows, its *)
(* books move as an account of use paid for beforehand, and under a consent  *)
(* nothing is reserved or published once that consent has ended.             *)

BudgetGrows(b, c) ==
  /\ b.set => c.set
  /\ b.max <= c.max
  /\ b.tres <= c.tres /\ b.treq <= c.treq /\ b.tread <= c.tread /\ b.tunk <= c.tunk
  /\ b.day = c.day => b.res <= c.res /\ b.req <= c.req /\ b.read <= c.read /\ b.unk <= c.unk

ConsentGrows(c, d) ==
  c.given =>
    /\ d.given /\ d.created = c.created /\ d.daily = c.daily /\ d.life = c.life
    /\ d.initial = c.initial /\ c.high <= d.high
    /\ c.expired => d.expired
    /\ c.revoked => d.revoked

Progress(x, y, w) ==
  \/ y.budget.tres > x.budget.tres
  \/ y.work[w].off > x.work[w].off
  \/ y.work[w].status = "complete" /\ x.work[w].status # "complete"

Booked(x) == x.budget.treq + x.budget.tunk
HeldMoves(k, sp, x, y) ==
  \/ Held(k, sp, y) = Held(k, sp, x) /\ Booked(y) = Booked(x)
  \/ Held(k, sp, x) = 0 /\ Booked(y) = Booked(x)
  \/ Held(k, sp, y) = 0 /\ Booked(x) <= Booked(y) /\ Booked(y) <= Booked(x) + Held(k, sp, x)

RowGrows(k, sp, x, y) ==
  /\ BudgetGrows(x.budget, y.budget) /\ ConsentGrows(x.consent, y.consent)
  /\ HeldMoves(k, sp, x, y)
  /\ \A w \in WorksIn(k, sp) : x.work[w].status = "complete" => y.work[w].status = "complete"
  /\ x.consent.given => \A w \in WorksIn(k, sp) :
       Progress(x, y, w) => ~y.consent.revoked /\ ~y.consent.expired

LEMMA BudgetSame ==
  ASSUME NEW b \in Budgets
  PROVE  BudgetGrows(b, b)
  BY DEF BudgetGrows, Budgets

LEMMA ConsentSameGrows ==
  ASSUME NEW c \in Consents
  PROVE  ConsentGrows(c, c)
  BY DEF ConsentGrows, Consents

\* Numbers of a row, for the steps below.
RowNumbers(k, sp, x) ==
  /\ x.budget \in Budgets /\ x.budget.treq \in Nat /\ x.budget.tunk \in Nat /\ x.budget.tres \in Nat
  /\ x.consent \in Consents /\ x.work \in [WorksIn(k, sp) -> WorkRows]
  /\ \A w \in WorksIn(k, sp) : x.work[w].off \in Nat
LEMMA NumbersOf ==
  ASSUME NEW k \in DOMAIN Setups, NEW sp, NEW x, RowOK(k, sp, x)
  PROVE  RowNumbers(k, sp, x) /\ Booked(x) \in Nat /\ Held(k, sp, x) \in Nat
  <1>1. /\ x.budget \in Budgets /\ x.consent \in Consents /\ x.work \in [WorksIn(k, sp) -> WorkRows]
        /\ \A w \in WorksIn(k, sp) : x.work[w].off \in Nat
    BY RowFields
  <1>2. x.budget.treq \in Nat /\ x.budget.tunk \in Nat /\ x.budget.tres \in Nat
    BY <1>1 DEF Budgets
  <1> QED BY <1>1, <1>2, HeldFacts DEF RowNumbers, Booked

\* Only the consent changes, or nothing does.
LEMMA AgreedGrows ==
  ASSUME NEW k \in DOMAIN Setups, NEW sp, NEW x, NEW y, RowOK(k, sp, x),
         y.budget = x.budget, y.work = x.work, ConsentGrows(x.consent, y.consent)
  PROVE  RowGrows(k, sp, x, y)
  <1>1. RowNumbers(k, sp, x)
    BY NumbersOf
  <1>2. BudgetGrows(x.budget, y.budget)
    BY <1>1, BudgetSame DEF RowNumbers
  <1>3. HeldMoves(k, sp, x, y)
    BY DEF HeldMoves, Held, Booked
  <1>4. \A w \in WorksIn(k, sp) : ~Progress(x, y, w)
    BY <1>1 DEF Progress, RowNumbers
  <1> QED BY <1>2, <1>3, <1>4 DEF RowGrows

LEMMA SameGrows ==
  ASSUME NEW k \in DOMAIN Setups, NEW sp, NEW x, RowOK(k, sp, x)
  PROVE  RowGrows(k, sp, x, x)
  <1>1. ConsentGrows(x.consent, x.consent)
    BY NumbersOf, ConsentSameGrows DEF RowNumbers
  <1> QED BY <1>1, AgreedGrows

LEMMA ObservedGrows ==
  ASSUME NEW k \in DOMAIN Setups, NEW sp, NEW o, NEW c \in Consents, NEW b, NEW now,
         IsObserved(o, c, b, sp, now)
  PROVE  ConsentGrows(c, o)
  BY DEF IsObserved, ConsentGrows

\* An interrupted attempt is booked as unknown.
LEMMA RecoveredGrows ==
  ASSUME NEW k \in DOMAIN Setups, NEW sp, NEW x, NEW y, RowOK(k, sp, x), RowOK(k, sp, y),
         NEW w \in WorksIn(k, sp), x.work[w].status = "running",
         \A u \in WorksIn(k, sp) : y.work[u].status # "running",
         RowChanged(x, y, RecoveredBudget(x.budget, x.work[w].attempt), x.consent, w,
                    [x.work[w] EXCEPT !.status = "pending", !.attempt.status = "interrupted_unknown"])
  PROVE  RowGrows(k, sp, x, y)
  <1> DEFINE a == x.work[w].attempt
             v == [x.work[w] EXCEPT !.status = "pending", !.attempt.status = "interrupted_unknown"]
             b == x.budget
             c == y.budget
  <1>1. RowNumbers(k, sp, x) /\ x.work[w] \in WorkRows /\ a \in AttemptRows
    BY NumbersOf, RowFields
  <1>2. PICK g \in Nat : g = a.grant
    BY <1>1 DEF AttemptRows
  <1>3. c = [b EXCEPT !.tunk = @ + g, !.unk = IF b.day = a.day THEN @ + g ELSE @]
    BY <1>2 DEF RowChanged, RecoveredBudget
  <1>4. y.consent = x.consent /\ y.work = [x.work EXCEPT ![w] = v]
    BY DEF RowChanged
  <1>5. v.status = "pending" /\ v.off = x.work[w].off
    BY <1>1 DEF WorkRows
  <1> HIDE DEF a, v, b, c
  <1>6. b \in Budgets
    BY <1>1 DEF RowNumbers, b
  <1>7. /\ c.set = b.set /\ c.max = b.max /\ c.day = b.day /\ c.tres = b.tres /\ c.treq = b.treq
        /\ c.tread = b.tread /\ c.res = b.res /\ c.req = b.req /\ c.read = b.read
        /\ c.tunk = b.tunk + g /\ c.unk = IF b.day = a.day THEN b.unk + g ELSE b.unk
    BY <1>3, <1>6 DEF Budgets
  <1>8. /\ b.max \in Nat /\ b.tres \in Nat /\ b.treq \in Nat /\ b.tread \in Nat /\ b.tunk \in Nat
        /\ b.res \in Nat /\ b.req \in Nat /\ b.read \in Nat /\ b.unk \in Nat
    BY <1>6 DEF Budgets
  <1>9. BudgetGrows(b, c)
    BY <1>7, <1>8 DEF BudgetGrows
  <1>10. HeldMoves(k, sp, x, y)
    <2>1. Held(k, sp, x) = g /\ Held(k, sp, y) = 0
      BY <1>2, HeldFacts DEF a
    <2>2. Booked(x) = b.treq + b.tunk /\ Booked(y) = b.treq + (b.tunk + g)
      BY <1>7 DEF Booked, b, c
    <2> QED BY <1>8, <2>1, <2>2 DEF HeldMoves
  <1>11. ASSUME NEW u \in WorksIn(k, sp)
         PROVE  /\ x.work[u].status = "complete" => y.work[u].status = "complete"
                /\ ~Progress(x, y, u)
    <2>1. x.work[u].off \in Nat /\ x.work \in [WorksIn(k, sp) -> WorkRows]
      BY <1>1 DEF RowNumbers
    <2>2. u # w => y.work[u] = x.work[u]
      BY <1>4, <2>1
    <2>3. y.work[w] = v
      BY <1>4, <2>1
    <2>4. ~(c.tres > b.tres)
      BY <1>7, <1>8
    <2>5. x.work[w].off \in Nat
      BY <1>1 DEF RowNumbers
    <2> QED BY <1>5, <2>1, <2>2, <2>3, <2>4, <2>5 DEF Progress, b, c
  <1>12. ConsentGrows(x.consent, y.consent)
    BY <1>1, <1>4, ConsentSameGrows DEF RowNumbers
  <1> QED BY <1>9, <1>10, <1>11, <1>12 DEF RowGrows, b, c

\* A job's budget begins.
LEMMA InitializedGrows ==
  ASSUME NEW k \in DOMAIN Setups, NEW sp, NEW x, NEW y, RowOK(k, sp, x), RowOK(k, sp, y),
         x.budget = NoBudget, y.budget.tres = 0, y.work = x.work, y.consent = x.consent
  PROVE  RowGrows(k, sp, x, y)
  <1>1. RowNumbers(k, sp, x) /\ RowNumbers(k, sp, y) /\ BudgetOK(k, y.budget)
    BY NumbersOf DEF RowOK
  <1>2. /\ NoBudget.max = 0 /\ NoBudget.tres = 0 /\ NoBudget.treq = 0 /\ NoBudget.tread = 0
        /\ NoBudget.tunk = 0 /\ NoBudget.res = 0 /\ NoBudget.req = 0 /\ NoBudget.read = 0
        /\ NoBudget.unk = 0 /\ ~NoBudget.set
    BY DEF NoBudget
  <1>3. PICK c \in Budgets : c = y.budget
    BY <1>1 DEF RowNumbers
  <1>4. /\ c.max \in Nat /\ c.tres \in Nat /\ c.treq \in Nat /\ c.tread \in Nat /\ c.tunk \in Nat
        /\ c.res \in Nat /\ c.req \in Nat /\ c.read \in Nat /\ c.unk \in Nat
    BY DEF Budgets
  <1>5. BudgetGrows(x.budget, c)
    BY <1>2, <1>4 DEF BudgetGrows
  <1>6. c.treq = 0 /\ c.tunk = 0
    <2>1. c.treq + c.tunk <= c.tres /\ c.tres = 0
      BY <1>1, <1>3 DEF BudgetOK
    <2> QED BY <1>4, <2>1
  <1>7. HeldMoves(k, sp, x, y)
    <2>1. Held(k, sp, y) = Held(k, sp, x)
      BY DEF Held
    <2>2. Booked(x) = 0 + 0 /\ Booked(y) = 0 + 0
      BY <1>2, <1>3, <1>6 DEF Booked
    <2> QED BY <2>1, <2>2 DEF HeldMoves
  <1>8. \A w \in WorksIn(k, sp) : ~Progress(x, y, w)
    BY <1>1, <1>2 DEF Progress, RowNumbers
  <1>9. ConsentGrows(x.consent, y.consent)
    BY <1>1, ConsentSameGrows DEF RowNumbers
  <1> QED BY <1>3, <1>5, <1>7, <1>8, <1>9 DEF RowGrows

\* A pending work is given up.
LEMMA InvalidatedGrows ==
  ASSUME NEW k \in DOMAIN Setups, NEW sp, NEW x, NEW y, RowOK(k, sp, x), RowOK(k, sp, y),
         NEW w \in WorksIn(k, sp), x.work[w].status = "pending",
         RowChanged(x, y, x.budget, x.consent, w, [x.work[w] EXCEPT !.status = "invalidated"])
  PROVE  RowGrows(k, sp, x, y)
  <1> DEFINE v == [x.work[w] EXCEPT !.status = "invalidated"]
  <1>1. RowNumbers(k, sp, x) /\ x.work[w] \in WorkRows
    BY NumbersOf, RowFields
  <1>2. y.budget = x.budget /\ y.consent = x.consent /\ y.work = [x.work EXCEPT ![w] = v]
    BY DEF RowChanged
  <1>3. v.status = "invalidated" /\ v.off = x.work[w].off /\ v.attempt = x.work[w].attempt
    BY <1>1 DEF WorkRows
  <1> HIDE DEF v
  <1>4. ASSUME NEW u \in WorksIn(k, sp)
        PROVE  /\ x.work[u].status = "complete" => y.work[u].status = "complete"
               /\ ~Progress(x, y, u)
               /\ x.work[u].status = "running" <=> y.work[u].status = "running"
               /\ x.work[u].attempt = y.work[u].attempt
    <2>1. x.work[u].off \in Nat /\ x.work \in [WorksIn(k, sp) -> WorkRows]
          /\ x.work[w].off \in Nat /\ x.budget.tres \in Nat
      BY <1>1 DEF RowNumbers
    <2>2. u # w => y.work[u] = x.work[u]
      BY <1>2, <2>1
    <2>3. y.work[w] = v
      BY <1>2, <2>1
    <2> QED BY <1>2, <1>3, <2>1, <2>2, <2>3 DEF Progress
  <1>5. HeldMoves(k, sp, x, y)
    <2>1. CASE \E u \in WorksIn(k, sp) : x.work[u].status = "running"
      <3>1. PICK u \in WorksIn(k, sp) : x.work[u].status = "running"
        BY <2>1
      <3>2. Held(k, sp, x) = x.work[u].attempt.grant /\ Held(k, sp, y) = y.work[u].attempt.grant
        BY <1>4, <3>1, HeldFacts
      <3> QED BY <1>2, <1>4, <3>2 DEF HeldMoves, Booked
    <2>2. CASE \A u \in WorksIn(k, sp) : x.work[u].status # "running"
      <3>1. Held(k, sp, x) = 0 /\ Held(k, sp, y) = 0
        BY <1>4, <2>2, HeldFacts
      <3> QED BY <1>2, <3>1 DEF HeldMoves, Booked
    <2> QED BY <2>1, <2>2
  <1>6. BudgetGrows(x.budget, y.budget) /\ ConsentGrows(x.consent, y.consent)
    BY <1>1, <1>2, BudgetSame, ConsentSameGrows DEF RowNumbers
  <1> QED BY <1>4, <1>5, <1>6 DEF RowGrows

\* A reservation: under a consent, only a live one allows it.
LEMMA ReservedGrows ==
  ASSUME NEW k \in DOMAIN Setups, NEW sp, NEW x, NEW y, RowOK(k, sp, x), RowOK(k, sp, y),
         NEW w \in WorksIn(k, sp), x.work[w].status = "pending",
         \A u \in WorksIn(k, sp) : x.work[u].status # "running",
         NEW b, NEW now, RolledTo(k, x.budget, b, now), NEW grant \in Nat, NEW c,
         ConsentGrows(x.consent, c), x.consent.given => ~c.revoked /\ ~c.expired,
         RowChanged(x, y, ChargedBudget(b, grant), c, w, Reservation(x.work[w], grant, b.day))
  PROVE  RowGrows(k, sp, x, y)
  <1> DEFINE v == Reservation(x.work[w], grant, b.day)
             e == ChargedBudget(b, grant)
             o == x.budget
  <1>1. RowNumbers(k, sp, x) /\ x.work[w] \in WorkRows /\ b \in Budgets
    BY NumbersOf, RowFields DEF RolledTo, BudgetOK
  <1>2. y.budget = e /\ y.consent = c /\ y.work = [x.work EXCEPT ![w] = v]
    BY DEF RowChanged
  <1>3. v.status = "running" /\ v.off = x.work[w].off
    <2>1. b.day \in Nat
      BY <1>1 DEF Budgets
    <2>2. PICK row, z : row = x.work[w] /\ row \in WorkRows /\ z = Reservation(row, grant, b.day)
      BY <1>1
    <2>3. IsReservation(z, row, grant, b.day)
      BY <2>1, <2>2, ReservationFields
    <2> QED BY <2>2, <2>3 DEF IsReservation
  <1>4. /\ e.set = b.set /\ e.day = b.day /\ e.max = b.max
        /\ e.req = b.req /\ e.read = b.read /\ e.unk = b.unk
        /\ e.treq = b.treq /\ e.tread = b.tread /\ e.tunk = b.tunk
        /\ e.res = b.res + grant /\ e.tres = b.tres + grant
    BY <1>1, ChargedFields
  <1> HIDE DEF v, e
  <1>5. /\ b.set /\ b.max = now /\ o.max <= now
        /\ b.tres = o.tres /\ b.treq = o.treq /\ b.tread = o.tread /\ b.tunk = o.tunk
        /\ \/ b.day = o.day /\ b.res = o.res /\ b.req = o.req /\ b.read = o.read /\ b.unk = o.unk
           \/ o.day < b.day
    BY DEF RolledTo
  <1>6. /\ o.tres \in Nat /\ o.treq \in Nat /\ o.tread \in Nat /\ o.tunk \in Nat /\ o.day \in Nat
        /\ o.res \in Nat /\ o.req \in Nat /\ o.read \in Nat /\ o.unk \in Nat /\ b.day \in Nat
        /\ o.max \in Nat /\ b.max \in Nat
    BY <1>1 DEF RowNumbers, Budgets
  <1> HIDE DEF o
  <1>7. BudgetGrows(o, e)
    BY <1>4, <1>5, <1>6 DEF BudgetGrows
  <1>8. HeldMoves(k, sp, x, y)
    <2>1. Held(k, sp, x) = 0
      BY HeldFacts
    <2>2. Booked(y) = Booked(x)
      BY <1>2, <1>4, <1>5 DEF Booked, o
    <2> QED BY <2>1, <2>2 DEF HeldMoves
  <1>9. ASSUME NEW u \in WorksIn(k, sp)
        PROVE  x.work[u].status = "complete" => y.work[u].status = "complete"
    <2>1. x.work \in [WorksIn(k, sp) -> WorkRows]
      BY <1>1 DEF RowNumbers
    <2> QED BY <1>2, <2>1
  <1> QED BY <1>2, <1>7, <1>8, <1>9 DEF RowGrows, o

\* A settlement: under a consent, only a live one publishes progress.
LEMMA SettledGrows ==
  ASSUME NEW k \in DOMAIN Setups, NEW sp, NEW x, NEW y, RowOK(k, sp, x), RowOK(k, sp, y),
         NEW w \in WorksIn(k, sp), x.work[w].status = "running",
         \A u \in WorksIn(k, sp) : y.work[u].status # "running",
         NEW req \in Nat, NEW read \in Nat, req <= x.work[w].attempt.grant,
         NEW status, NEW off, NEW e, NEW c, NEW a, IsBooked(e, x.budget, x.work[w].attempt, req, read),
         ConsentGrows(x.consent, c),
         \/ status = "pending" /\ off = x.work[w].off
         \/ x.consent.given => ~c.revoked /\ ~c.expired,
         RowChanged(x, y, e, c, w, [status |-> status, off |-> off, attempt |-> a])
  PROVE  RowGrows(k, sp, x, y)
  <1> DEFINE v == [status |-> status, off |-> off, attempt |-> a]
             o == x.budget
  <1>1. RowNumbers(k, sp, x) /\ x.work[w] \in WorkRows /\ x.work[w].attempt.grant \in Nat
    BY NumbersOf, RowFields DEF AttemptRows
  <1>2. y.budget = e /\ y.consent = c /\ y.work = [x.work EXCEPT ![w] = v]
    BY DEF RowChanged
  <1>3. v.status = status /\ v.off = off
    OBVIOUS
  <1> HIDE DEF v
  <1>4. /\ o.max \in Nat /\ o.tres \in Nat /\ o.treq \in Nat /\ o.tread \in Nat /\ o.tunk \in Nat
        /\ o.res \in Nat /\ o.req \in Nat /\ o.read \in Nat /\ o.unk \in Nat
    BY <1>1 DEF RowNumbers, Budgets
  <1>5. /\ e.set = o.set /\ e.day = o.day /\ e.max = o.max
        /\ e.res = o.res /\ e.unk = o.unk /\ e.tres = o.tres /\ e.tunk = o.tunk
        /\ e.treq = o.treq + req /\ e.tread = o.tread + read
        /\ e.req = o.req + req \/ e.req = o.req
        /\ e.read = o.read + read \/ e.read = o.read
    BY DEF IsBooked
  <1> HIDE DEF o
  <1>6. BudgetGrows(o, e)
    BY <1>4, <1>5 DEF BudgetGrows
  <1>7. HeldMoves(k, sp, x, y)
    <2>1. PICK g \in Nat : g = x.work[w].attempt.grant
      BY <1>1
    <2>2. Held(k, sp, x) = g /\ Held(k, sp, y) = 0
      BY <2>1, HeldFacts
    <2>3. Booked(x) = o.treq + o.tunk /\ Booked(y) = (o.treq + req) + o.tunk
      BY <1>2, <1>5 DEF Booked, o
    <2>4. req <= g
      BY <2>1
    <2> QED BY <1>4, <2>2, <2>3, <2>4 DEF HeldMoves
  <1>8. ASSUME NEW u \in WorksIn(k, sp)
        PROVE  /\ x.work[u].status = "complete" => y.work[u].status = "complete"
               /\ x.consent.given /\ Progress(x, y, u) => ~y.consent.revoked /\ ~y.consent.expired
    <2>1. x.work[u].off \in Nat /\ x.work \in [WorksIn(k, sp) -> WorkRows] /\ x.work[w].off \in Nat
      BY <1>1 DEF RowNumbers
    <2>2. u # w => y.work[u] = x.work[u]
      BY <1>2, <2>1
    <2>3. y.work[w] = v
      BY <1>2, <2>1
    <2>4. ~(y.budget.tres > x.budget.tres)
      BY <1>2, <1>4, <1>5 DEF o
    <2>5. x.work[u].status = "complete" => y.work[u].status = "complete"
      BY <2>2
    <2>6. CASE status = "pending" /\ off = x.work[w].off
      <3>1. ~Progress(x, y, u)
        BY <1>3, <2>1, <2>2, <2>3, <2>4, <2>6 DEF Progress
      <3> QED BY <2>5, <3>1
    <2>7. CASE x.consent.given => ~c.revoked /\ ~c.expired
      BY <1>2, <2>5, <2>7
    <2> QED BY <2>6, <2>7
  <1> QED BY <1>2, <1>6, <1>7, <1>8 DEF RowGrows, o

\* One namespace moves at a time, and its row grows.
Evolves(n, m) ==
  \E sp \in SpacesOf[setup] :
    /\ OneRow(setup, n, m, sp, m[sp])
    /\ RowGrows(setup, sp, n[sp], m[sp])

LEMMA StaysEvolves ==
  ASSUME HashInv
  PROVE  Evolves(ns, ns)
  <1>1. setup \in DOMAIN Setups /\ Original \in SpacesOf[setup] /\ RowOK(setup, Original, ns[Original])
    BY InvParts, SpaceOf DEF NsOK
  <1>2. RowGrows(setup, Original, ns[Original], ns[Original])
    BY <1>1, SameGrows
  <1> QED BY <1>1, <1>2 DEF Evolves, OneRow

LEMMA TransactEvolves ==
  ASSUME HashInv, NEW n, NEW s, NEW r, Transact(n, s, r), Evolves(ns, n)
  PROVE  Evolves(ns, ns')
  <1>1. ns' = n \/ ns' = ns
    BY DEF Transact
  <1>2. Evolves(ns, ns)
    BY StaysEvolves
  <1> QED BY <1>1, <1>2

LEMMA SeenEvolves ==
  ASSUME HashInv, NEW sp \in SpacesOf[setup], ns[sp].consent.given, NEW now \in Nat,
         now <= Horizon(setup), NEW n, n = Observed(ns, sp, now)
  PROVE  Evolves(ns, n)
  <1>1. setup \in DOMAIN Setups /\ RowOK(setup, sp, ns[sp])
    BY InvParts DEF NsOK
  <1>2. IsSeen(setup, ns, n, sp, now)
    BY SeenFacts
  <1>3. /\ n[sp].budget = ns[sp].budget /\ n[sp].work = ns[sp].work
        /\ IsObserved(n[sp].consent, ns[sp].consent, ns[sp].budget, sp, now)
        /\ OneRow(setup, ns, n, sp, n[sp])
    BY <1>2 DEF IsSeen, SameRows, OneRow
  <1>4. ns[sp].consent \in Consents
    BY <1>1, RowFields
  <1>5. ConsentGrows(ns[sp].consent, n[sp].consent)
    BY <1>1, <1>3, <1>4, ObservedGrows
  <1>6. RowGrows(setup, sp, ns[sp], n[sp])
    BY <1>1, <1>3, <1>5, AgreedGrows
  <1> QED BY <1>3, <1>6 DEF Evolves

LEMMA OpensEvolve ==
  ASSUME HashInv, OpenWriter \/ OpenSelectionWriter \/ \E j \in Jobs : OpenFreshRunWriter(j)
  PROVE  Evolves(ns, ns')
  <1>1. setup \in DOMAIN Setups /\ NsOK(setup, ns) /\ Original \in SpacesOf[setup]
        /\ Jobs = Setups[setup].jobs /\ Jobs \subseteq SpacesOf[setup]
    BY InvParts, SpaceOf
  <1>2. ASSUME NEW sp \in SpacesOf[setup], ns' = Recovered(sp) PROVE Evolves(ns, ns')
    <2>1. PICK n : n = Recovered(sp) /\ n = ns'
      BY <1>2
    <2>2. /\ IsOpened(setup, ns, n) /\ NoneRunning(setup, n, sp)
          /\ n = ns \/ \E w : RecoveredRow(n, sp, w)
      BY <2>1, RecoveredOK
    <2>3. CASE n = ns
      BY <2>1, <2>3, StaysEvolves
    <2>4. CASE \E w : RecoveredRow(n, sp, w)
      <3>1. PICK w : RecoveredRow(n, sp, w)
        BY <2>4
      <3>2. PICK x, y : x = ns[sp] /\ y = n[sp]
        BY Zenon
      <3>3. RowOK(setup, sp, x) /\ RowOK(setup, sp, y) /\ OneRow(setup, ns, n, sp, y)
        BY <1>1, <2>2, <3>1, <3>2, ZenonT(40) DEF NsOK, IsOpened, RecoveredRow
      <3>4. /\ w \in WorksIn(setup, sp) /\ x.work[w].status = "running"
            /\ \A u \in WorksIn(setup, sp) : y.work[u].status # "running"
        BY <2>2, <3>1, <3>2 DEF RecoveredRow, NoneRunning
      <3>5. RowChanged(x, y, RecoveredBudget(x.budget, x.work[w].attempt), x.consent, w,
                       [x.work[w] EXCEPT !.status = "pending", !.attempt.status = "interrupted_unknown"])
        BY <3>1, <3>2, SMTT(40) DEF RecoveredRow
      <3>6. RowGrows(setup, sp, x, y)
        BY <1>1, <3>3, <3>4, <3>5, RecoveredGrows
      <3> QED BY <2>1, <3>2, <3>3, <3>6 DEF Evolves
    <2> QED BY <2>2, <2>3, <2>4
  <1>3. CASE OpenWriter
    BY <1>1, <1>2, <1>3 DEF OpenWriter, Open
  <1>4. CASE OpenSelectionWriter
    BY <1>4, StaysEvolves DEF OpenSelectionWriter, Open
  <1>5. ASSUME NEW j \in Jobs, OpenFreshRunWriter(j) PROVE Evolves(ns, ns')
    <2>1. ns[j].consent.given /\ ns' = IF ns[j].budget.set THEN Recovered(j) ELSE Initialized(j)
      BY <1>5 DEF OpenFreshRunWriter, Open
    <2>2. CASE ns[j].budget.set
      BY <1>1, <1>2, <2>1, <2>2
    <2>3. CASE ~ns[j].budget.set
      <3>1. PICK n : n = Initialized(j) /\ n = ns'
        BY <2>1, <2>3
      <3>2. /\ IsOpened(setup, ns, n) /\ OneRow(setup, ns, n, j, n[j])
            /\ n[j].work = ns[j].work /\ n[j].consent = ns[j].consent /\ ns[j].budget = NoBudget
        BY <1>1, <2>1, <2>3, <3>1, InitializedOK
      <3>3. /\ j \in SpacesOf[setup] /\ RowOK(setup, j, ns[j]) /\ RowOK(setup, j, n[j])
            /\ n[j].budget.tres = 0
        <4>1. n[j].budget.tres = ns[j].budget.tres /\ j \in SpacesOf[setup]
          BY <1>1, <3>2 DEF IsOpened, Unspent
        <4>2. NoBudget.tres = 0
          BY DEF NoBudget
        <4> QED BY <1>1, <3>2, <4>1, <4>2 DEF NsOK, IsOpened
      <3>4. RowGrows(setup, j, ns[j], n[j])
        BY <1>1, <3>2, <3>3, InitializedGrows
      <3> QED BY <3>1, <3>2, <3>3, <3>4 DEF Evolves
    <2> QED BY <2>2, <2>3
  <1> QED BY <1>3, <1>4, <1>5

LEMMA ConsentsEvolve ==
  ASSUME HashInv, NEW sp \in Spaces,
         RetryApproval(sp) \/ RevokeRead(sp) \/ \E limits \in ReadLimits : ApproveRead(sp, limits)
  PROVE  Evolves(ns, ns')
  <1>1. setup \in DOMAIN Setups /\ NsOK(setup, ns) /\ sp \in SpacesOf[setup]
    BY InvParts, SpaceOf
  <1>2. RowOK(setup, sp, ns[sp]) /\ DOMAIN ns = SpacesOf[setup]
    BY <1>1 DEF NsOK
  <1>3. DOMAIN ns[sp] = {"budget", "consent", "work", "queue"} /\ ns[sp].consent \in Consents
    BY <1>1, <1>2, RowFields DEF RowOK
  <1>4. ASSUME NEW c, NEW n, n = [ns EXCEPT ![sp].consent = c], ConsentGrows(ns[sp].consent, c)
        PROVE  Evolves(ns, n)
    <2>1. n[sp].budget = ns[sp].budget /\ n[sp].work = ns[sp].work /\ n[sp].consent = c
      BY <1>1, <1>2, <1>3, <1>4
    <2>2. OneRow(setup, ns, n, sp, n[sp])
      BY <1>2, <1>4 DEF OneRow
    <2>3. RowGrows(setup, sp, ns[sp], n[sp])
      BY <1>1, <1>2, <1>4, <2>1, AgreedGrows
    <2> QED BY <1>1, <2>2, <2>3 DEF Evolves
  <1>5. CASE RetryApproval(sp)
    <2>1. PICK now \in Times :
            Transact(Observed(ns, sp, now),
                     IF sp = Original THEN Advanced(Observed(ns, sp, now), now) ELSE shared, Idle)
      BY <1>5 DEF RetryApproval
    <2>2. ns[sp].consent.given /\ now \in Nat /\ now <= Horizon(setup)
      BY <1>5, TimeFacts DEF RetryApproval
    <2>3. Evolves(ns, Observed(ns, sp, now))
      BY <1>1, <2>2, SeenEvolves
    <2> QED BY <2>1, <2>3, TransactEvolves
  <1>6. CASE RevokeRead(sp)
    <2>1. PICK now \in Times : Transact(RevokedAt(sp, now), shared, Idle)
      BY <1>6 DEF RevokeRead
    <2>2. ns[sp].consent.given /\ now \in Nat /\ now <= Horizon(setup)
      BY <1>6, TimeFacts DEF RevokeRead
    <2>3. PICK o : /\ o = ObservedConsent(ns, sp, now)
                   /\ IsObserved(o, ns[sp].consent, ns[sp].budget, sp, now)
      BY <1>1, <1>2, <2>2, ObservedFields
    <2>4. o \in Consents /\ ConsentGrows(ns[sp].consent, o)
      <3>1. o \in Consents
        BY <2>3 DEF IsObserved
      <3>2. ConsentGrows(ns[sp].consent, o)
        BY <1>1, <1>3, <2>3, ObservedGrows
      <3> QED BY <3>1, <3>2
    <2>5. PICK c : c = [o EXCEPT !.revoked = TRUE]
      OBVIOUS
    <2>6. /\ c.given = o.given /\ c.created = o.created /\ c.daily = o.daily /\ c.life = o.life
          /\ c.initial = o.initial /\ c.high = o.high /\ c.expired = o.expired /\ c.revoked
      BY <2>4, <2>5 DEF Consents
    <2>7. ConsentGrows(ns[sp].consent, c)
      BY <2>4, <2>6 DEF ConsentGrows
    <2>8. PICK n : n = RevokedAt(sp, now) /\ n = [ns EXCEPT ![sp].consent = c]
      BY <2>3, <2>5 DEF RevokedAt
    <2>9. Evolves(ns, n)
      BY <1>4, <2>7, <2>8
    <2> QED BY <2>1, <2>8, <2>9, TransactEvolves
  <1>7. CASE \E limits \in ReadLimits : ApproveRead(sp, limits)
    <2>1. PICK limits \in ReadLimits, now \in Times :
            Transact([ns EXCEPT ![sp].consent = NewConsent(limits, now, ns[sp].budget.tres)],
                     shared, Idle)
      BY <1>7 DEF ApproveRead
    <2>2. ~ns[sp].consent.given
      BY <1>7 DEF ApproveRead
    <2>3. PICK n, c : /\ c = NewConsent(limits, now, ns[sp].budget.tres)
                      /\ n = [ns EXCEPT ![sp].consent = c]
      OBVIOUS
    <2>4. Evolves(ns, n)
      BY <1>4, <2>2, <2>3 DEF ConsentGrows
    <2> QED BY <2>1, <2>3, <2>4, TransactEvolves
  <1> QED BY <1>5, <1>6, <1>7

\* The steps of a run that save an observation, or nothing.
LEMMA ObservationsEvolve ==
  ASSUME HashInv, ObserveApproval \/ SaveSeenClock \/ LatchExpiry \/ FinishBudget
  PROVE  Evolves(ns, ns')
  <1>1. Sp \in SpacesOf[setup] /\ RunOK(setup, ns, shared, handle, run)
    BY InvParts, SpaceOf
  <1>2. CASE FinishBudget
    BY <1>2, StaysEvolves, TransactEvolves DEF FinishBudget
  <1>3. CASE ObserveApproval \/ SaveSeenClock \/ LatchExpiry
    <2>1. ns[Sp].consent.given
      BY <1>1, <1>3 DEF RunOK, Sp, At, ObserveApproval, SaveSeenClock, LatchExpiry
    <2>2. CASE ObserveApproval \/ SaveSeenClock
      <3>1. PICK now \in Times : \E s, r : Transact(Observed(ns, Sp, now), s, r)
        BY <2>2, Zenon DEF ObserveApproval, SaveSeenClock
      <3>2. now \in Nat /\ now <= Horizon(setup)
        BY TimeFacts
      <3>3. Evolves(ns, Observed(ns, Sp, now))
        BY <1>1, <2>1, <3>2, SeenEvolves
      <3> QED BY <3>1, <3>3, TransactEvolves
    <2>3. CASE LatchExpiry
      <3>1. PICK clock \in Times :
              LET now == Latest(clock, ExpiresAt(Con))
                  n == Observed(ns, Sp, now)
              IN IF Sp = Original THEN Transact(n, Advanced(n, now), Ended)
                 ELSE Transact(IF Con.expired THEN ns ELSE n, shared, Ended)
        BY <2>3 DEF LatchExpiry
      <3>2. PICK now \in Nat : now = Latest(clock, ExpiresAt(Con)) /\ now <= Horizon(setup)
        BY <1>1, <2>1, TimeFacts DEF Con
      <3>3. PICK n : n = Observed(ns, Sp, now)
        OBVIOUS
      <3>4. \/ Transact(n, Advanced(n, now), Ended)
            \/ Transact(n, shared, Ended)
            \/ Transact(ns, shared, Ended)
        BY <3>1, <3>2, <3>3
      <3>5. Evolves(ns, n)
        BY <1>1, <2>1, <3>2, <3>3, SeenEvolves
      <3> QED BY <3>4, <3>5, StaysEvolves, TransactEvolves
    <2> QED BY <1>3, <2>2, <2>3
  <1> QED BY <1>2, <1>3

LEMMA InvalidationEvolves ==
  ASSUME HashInv, InventoryChanged, HashInv', setup' = setup
  PROVE  Evolves(ns, ns')
  <1> DEFINE w == run.work
             x == ns[Original]
             v == [x.work[w] EXCEPT !.status = "invalidated"]
             y == [x EXCEPT !.work = [x.work EXCEPT ![w] = v]]
             n == [ns EXCEPT ![Sp].work[run.work].status = "invalidated"]
  <1>1. At("reserve") /\ Sp = Original /\ Transact(n, shared, Ended)
    BY DEF InventoryChanged
  <1>2. setup \in DOMAIN Setups /\ NsOK(setup, ns) /\ RunOK(setup, ns, shared, handle, run)
        /\ Original \in SpacesOf[setup] /\ NsOK(setup, ns')
    BY InvParts, SpaceOf DEF HashInv
  <1>3. w \in WorksIn(setup, Original) /\ x.work[w].status = "pending"
    BY <1>1, <1>2 DEF RunOK, At, Sp
  <1>4. RowOK(setup, Original, x) /\ DOMAIN ns = SpacesOf[setup] /\ RowOK(setup, Original, ns'[Original])
    BY <1>2 DEF NsOK
  <1>5. DOMAIN x = {"budget", "consent", "work", "queue"} /\ x.work \in [WorksIn(setup, Original) -> WorkRows]
    BY <1>4 DEF RowOK
  <1>6. n = [ns EXCEPT ![Original] = y]
    BY <1>1
  <1>7. RowChanged(x, y, x.budget, x.consent, w, v)
    BY <1>5 DEF RowChanged
  <1> HIDE DEF n, y, w, x
  <1>8. n[Original] = y /\ OneRow(setup, ns, n, Original, n[Original])
    BY <1>2, <1>4, <1>6 DEF OneRow
  <1>9. CASE ns' = n
    <2>1. RowOK(setup, Original, y)
      BY <1>4, <1>8, <1>9
    <2>2. RowGrows(setup, Original, x, y)
      BY <1>2, <1>3, <1>4, <1>7, <2>1, InvalidatedGrows
    <2> QED BY <1>2, <1>8, <1>9, <2>2 DEF Evolves, x
  <1>10. CASE ns' = ns
    BY <1>10, StaysEvolves
  <1> QED BY <1>1, <1>9, <1>10 DEF Transact

\* A committed reservation: the row is that of the candidate.
LEMMA ReservationEvolves ==
  ASSUME HashInv, HashInv', setup' = setup, At("reserve"), NEW n, NEW c, NEW b, NEW now, NEW grant,
         NEW s, NEW m, Candidate(n, c), Allowed(b, c, now, grant, s), m = Reserved(n, b, grant),
         ns' = m \/ ns' = ns, ConsentGrows(ns[Sp].consent, c),
         ns[Sp].consent.given => ~c.revoked /\ ~c.expired
  PROVE  Evolves(ns, ns')
  <1>1. /\ setup \in DOMAIN Setups /\ NsOK(setup, ns) /\ RunOK(setup, ns, shared, handle, run)
        /\ Sp \in SpacesOf[setup] /\ NsOK(setup, ns')
    BY InvParts, SpaceOf DEF HashInv
  <1>2. run.work \in WorksIn(setup, Sp) /\ ns[Sp].work[run.work].status = "pending"
    BY <1>1 DEF RunOK, At, Sp
  <1>3. Running(Sp) = {} /\ WorksOf(Sp) = WorksIn(setup, Sp)
    BY InvReadable, SpaceOf DEF SavedStateReadable, At
  <1>4. \A u \in WorksIn(setup, Sp) : ns[Sp].work[u].status # "running"
    BY <1>3 DEF Running
  <1>5. ReservedRow(m, n, b, c, grant)
    BY <1>2, ReservedIs
  <1>6. PICK x, y, w : x = ns[Sp] /\ y = m[Sp] /\ w = run.work
    OBVIOUS
  <1>7. RowChanged(x, y, ChargedBudget(b, grant), c, w, Reservation(x.work[w], grant, b.day))
    BY <1>5, <1>6 DEF ReservedRow
  <1>8. OneRow(setup, ns, m, Sp, m[Sp])
    BY <1>5 DEF ReservedRow, OneRow
  <1>9. RolledTo(setup, x.budget, b, now) /\ grant \in Nat
    BY <1>6 DEF Allowed, Bud
  <1>10. CASE ns' = m
    <2>1. RowOK(setup, Sp, x) /\ RowOK(setup, Sp, y)
      BY <1>1, <1>6, <1>10 DEF NsOK
    <2>2. RowGrows(setup, Sp, x, y)
      BY <1>1, <1>2, <1>4, <1>6, <1>7, <1>9, <2>1, ReservedGrows
    <2> QED BY <1>1, <1>6, <1>8, <1>10, <2>2 DEF Evolves
  <1>11. CASE ns' = ns
    BY <1>11, StaysEvolves
  <1> QED BY <1>10, <1>11

LEMMA ReservesEvolve ==
  ASSUME HashInv, HashInv', setup' = setup, Reserve
  PROVE  Evolves(ns, ns')
  <1>1. At("reserve") /\ run.mode # "plain"
    BY ReserveParts
  <1>2. PICK now, n, s, b, grant :
          /\ now \in Times /\ ReservesAt(now, n, s, b, grant)
          /\ \/ Transact(n, s, Ended) /\ UNCHANGED charged
             \/ Admits(now, n, s, b, grant)
    BY ReserveParts
  <1>3. Sp \in SpacesOf[setup] /\ now \in Nat /\ now <= Horizon(setup)
        /\ RunOK(setup, ns, shared, handle, run)
    BY <1>2, SpaceOf, TimeFacts, InvParts
  <1>4. ns[Sp].consent.given
    BY <1>1, <1>3 DEF RunOK, At, Sp
  <1>5. n = Observed(ns, Sp, now)
    BY <1>2 DEF ReservesAt
  <1>6. CASE Transact(n, s, Ended)
    <2>1. Evolves(ns, n)
      BY <1>3, <1>4, <1>5, SeenEvolves
    <2> QED BY <1>6, <2>1, TransactEvolves
  <1>7. CASE Admits(now, n, s, b, grant)
    <2>1. GuardBoth(n, Sp, now) = "ok" /\ (ns' = Reserved(n, b, grant) \/ ns' = ns)
      BY <1>7 DEF Admits, Transact
    <2>2. PICK c, m : c = n[Sp].consent /\ m = Reserved(n, b, grant)
      OBVIOUS
    <2>3. /\ Allowed(b, c, now, grant, s) /\ Candidate(n, c)
          /\ ~c.revoked /\ ~c.expired
      BY <1>1, <1>2, <2>1, <2>2, AdmittedOK
    <2>4. ConsentGrows(ns[Sp].consent, c)
      <3>1. IsObserved(c, ns[Sp].consent, ns[Sp].budget, Sp, now)
        BY <1>3, <1>4, <1>5, <2>2, SeenFacts DEF IsSeen
      <3>2. setup \in DOMAIN Setups /\ ns[Sp].consent \in Consents
        BY <1>3, InvParts, RowFields DEF NsOK
      <3> QED BY <3>1, <3>2, ObservedGrows
    <2> QED BY <1>1, <2>1, <2>2, <2>3, <2>4, ReservationEvolves
  <1> QED BY <1>2, <1>6, <1>7

\* A plain reservation: no consent was given.
LEMMA ReservePlainEvolves ==
  ASSUME HashInv, HashInv', setup' = setup, ReservePlain
  PROVE  Evolves(ns, ns')
  <1>1. /\ At("reserve") /\ run.mode = "plain"
        /\ Transact(Reserved(ns, BudgetAt(Bud, run.at), run.grant), shared, Going("read"))
    BY DEF ReservePlain
  <1>2. /\ setup \in DOMAIN Setups /\ NsOK(setup, ns) /\ RunOK(setup, ns, shared, handle, run)
        /\ Sp \in SpacesOf[setup] /\ NsOK(setup, ns') /\ run \in Runs(setup)
    BY InvParts, SpaceOf DEF HashInv
  <1>3. /\ run.work \in WorksIn(setup, Sp) /\ ns[Sp].work[run.work].status = "pending"
        /\ ns[Sp].budget.max <= run.at /\ run.at <= Setups[setup].maxTime
        /\ ~ns[Sp].consent.given /\ run.grant \in Nat /\ run.at \in Nat
    BY <1>1, <1>2 DEF RunOK, At, Sp, Runs
  <1>4. RowOK(setup, Sp, ns[Sp]) /\ DOMAIN ns = SpacesOf[setup]
    BY <1>2 DEF NsOK
  <1>5. PICK b : b = BudgetAt(Bud, run.at)
    OBVIOUS
  <1>6. RolledTo(setup, ns[Sp].budget, b, run.at)
    <2>1. BudgetOK(setup, ns[Sp].budget)
      BY <1>4 DEF RowOK
    <2>2. Setups[setup].maxTime \in Nat /\ Lifetime \in Nat
      BY <1>2, SetupFacts, ConstantFacts
    <2>3. run.at <= Horizon(setup)
      BY <1>3, <2>2 DEF Horizon
    <2> QED BY <1>2, <1>3, <1>5, <2>1, <2>3, RolledIs DEF Bud
  <1>7. PICK c : c = ns[Sp].consent /\ Candidate(ns, c)
    BY <1>4 DEF Candidate, Bud
  <1>8. PICK m : m = Reserved(ns, b, run.grant)
    OBVIOUS
  <1>9. ns' = m \/ ns' = ns
    BY <1>1, <1>5, <1>8 DEF Transact
  <1>10. ReservedRow(m, ns, b, c, run.grant)
    BY <1>3, <1>7, <1>8, ReservedIs
  <1>11. \A u \in WorksIn(setup, Sp) : ns[Sp].work[u].status # "running"
    <2>1. Running(Sp) = {} /\ WorksOf(Sp) = WorksIn(setup, Sp)
      BY <1>1, InvReadable, SpaceOf DEF SavedStateReadable, At
    <2> QED BY <2>1 DEF Running
  <1>12. CASE ns' = m
    <2>1. PICK x, y, w : x = ns[Sp] /\ y = m[Sp] /\ w = run.work
      OBVIOUS
    <2>2. RowChanged(x, y, ChargedBudget(b, run.grant), c, w, Reservation(x.work[w], run.grant, b.day))
      BY <1>10, <2>1 DEF ReservedRow
    <2>3. OneRow(setup, ns, m, Sp, m[Sp])
      BY <1>10 DEF ReservedRow, OneRow
    <2>4. RowOK(setup, Sp, x) /\ RowOK(setup, Sp, y)
      BY <1>2, <1>12, <2>1 DEF NsOK
    <2>5. ConsentGrows(x.consent, c) /\ ~x.consent.given
      BY <1>3, <2>1 DEF ConsentGrows
    <2>6. RowGrows(setup, Sp, x, y)
      BY <1>2, <1>3, <1>6, <1>11, <2>1, <2>2, <2>4, <2>5, ReservedGrows
    <2> QED BY <1>2, <1>12, <2>1, <2>3, <2>6 DEF Evolves
  <1>13. CASE ns' = ns
    BY <1>13, StaysEvolves
  <1> QED BY <1>9, <1>12, <1>13

LEMMA SettleEvolves ==
  ASSUME HashInv, setup' = setup, Settle
  PROVE  Evolves(ns, ns')
  <1>0. PICK clock \in (IF run.mode = "plain" THEN {0} ELSE Times) :
          \E n, guard, m, s, r : SettlesTo(SettleNow(clock), n, guard, m, s, r)
    BY SettleParts
  <1>1. PICK now : now = SettleNow(clock)
    OBVIOUS
  <1>2. PICK n, guard, m, s, r : SettlesTo(now, n, guard, m, s, r)
    BY <1>0, <1>1
  <1>3. /\ n = SettleSeen(now) /\ guard = SettleGuard(n, now) /\ SettledFrom(m, n, guard)
        /\ Transact(m, s, r)
    BY <1>2, Zenon DEF SettlesTo
  <1>4. run.phase = "settle" /\ InUse(run.phase)
    BY SettleParts DEF At, InUse
  <1>5. /\ setup \in DOMAIN Setups /\ NsOK(setup, ns) /\ RunOK(setup, ns, shared, handle, run)
        /\ Sp \in SpacesOf[setup] /\ run \in Runs(setup)
    BY InvParts, SpaceOf
  <1>6. run.mode # "plain" => now \in Nat /\ now <= Horizon(setup)
    BY <1>1, <1>4, SettleTime
  <1>7. PICK c : /\ SpentRow(n, c) /\ ConsentOK(setup, Sp, c, ns[Sp].budget)
                 /\ c.given = ns[Sp].consent.given
                 /\ c = IF run.mode = "plain" THEN ns[Sp].consent ELSE ObservedConsent(ns, Sp, now)
    BY <1>3, <1>4, <1>6, SpentIs
  <1>8. PICK y, status, off :
          /\ IsSettled(m, y, c, status, off)
          /\ (status = "pending" /\ off = ns[Sp].work[run.work].off) \/ ~Vetoed(guard)
    BY <1>3, <1>4, <1>7, SettledRow
  <1>9. /\ NsOK(setup, m) /\ NoneRunning(setup, m, Sp)
        /\ IsBooked(m[Sp].budget, ns[Sp].budget, ns[Sp].work[run.work].attempt, run.req, run.read)
    BY <1>4, <1>7, <1>8, SettledOK
  <1>10. run.mode # "plain" <=> ns[Sp].consent.given
    BY <1>4, <1>5 DEF RunOK, Sp
  <1>11. RowOK(setup, Sp, ns[Sp]) /\ ns[Sp].consent \in Consents
    BY <1>5, RowFields DEF NsOK
  <1>12. ConsentGrows(ns[Sp].consent, c)
    <2>1. CASE run.mode = "plain"
      BY <1>10, <2>1 DEF ConsentGrows
    <2>2. CASE run.mode # "plain"
      <3>1. IsObserved(c, ns[Sp].consent, ns[Sp].budget, Sp, now)
        BY <1>5, <1>6, <1>7, <1>10, <1>11, <2>2, ObservedFields
      <3> QED BY <1>5, <1>11, <3>1, ObservedGrows
    <2> QED BY <2>1, <2>2
  <1>13. ns[Sp].consent.given /\ ~Vetoed(guard) => ~c.revoked /\ ~c.expired
    <2> SUFFICES ASSUME ns[Sp].consent.given, ~Vetoed(guard) PROVE ~c.revoked /\ ~c.expired
      OBVIOUS
    <2>1. GuardBoth(n, Sp, now) = "ok" /\ now \in Nat
      BY <1>3, <1>6, <1>10 DEF Vetoed, SettleGuard
    <2>2. n[Sp].consent = c /\ c \in Consents
      BY <1>7 DEF SpentRow, ConsentOK
    <2> QED BY <2>1, <2>2, GuardPassed
  <1>14. PICK x, w, e, a : /\ x = ns[Sp] /\ w = run.work /\ e = m[Sp].budget
                           /\ a = [ns[Sp].work[run.work].attempt EXCEPT
                                     !.status = "settled", !.req = run.req, !.read = run.read]
    OBVIOUS
  <1>15. /\ OneRow(setup, ns, m, Sp, y) /\ m[Sp] = y
         /\ RowChanged(x, y, SettledBudget(x.budget, x.work[w].attempt), c, w,
                       [status |-> status, off |-> off, attempt |-> a])
    BY <1>8, <1>14 DEF IsSettled, OneRow
  <1>16. RowChanged(x, y, e, c, w, [status |-> status, off |-> off, attempt |-> a])
    BY <1>14, <1>15 DEF RowChanged
  <1>17. /\ w \in WorksIn(setup, Sp) /\ x.work[w].status = "running"
         /\ run.req \in Nat /\ run.read \in Nat /\ run.req <= x.work[w].attempt.grant
    <2>1. run.req <= run.grant /\ run.req \in Nat /\ run.read \in Nat
      BY <1>4, <1>5 DEF RunOK, Runs
    <2> QED BY <1>4, <1>14, <2>1, RunWork
  <1>18. \A u \in WorksIn(setup, Sp) : y.work[u].status # "running"
    BY <1>9, <1>15 DEF NoneRunning
  <1>19. IsBooked(e, x.budget, x.work[w].attempt, run.req, run.read) /\ RowOK(setup, Sp, y)
         /\ RowOK(setup, Sp, x)
    BY <1>5, <1>9, <1>11, <1>14, <1>15 DEF NsOK
  <1>20. \/ status = "pending" /\ off = x.work[w].off
         \/ x.consent.given => ~c.revoked /\ ~c.expired
    BY <1>8, <1>13, <1>14, SMTT(40)
  <1>21. RowGrows(setup, Sp, x, y)
    BY <1>5, <1>12, <1>14, <1>16, <1>17, <1>18, <1>19, <1>20, SettledGrows
  <1>22. Evolves(ns, m)
    BY <1>5, <1>14, <1>15, <1>21 DEF Evolves
  <1> QED BY <1>3, <1>22, TransactEvolves

LEMMA NextEvolves ==
  ASSUME HashInv, Next
  PROVE  Evolves(ns, ns')
  <1>0. Step /\ setup' = setup /\ HashInv'
    BY NextKeeps DEF Next
  <1>1. CASE OpenWriter \/ OpenSelectionWriter \/ \E j \in Jobs : OpenFreshRunWriter(j)
    BY <1>1, OpensEvolve
  <1>2. CASE \E sp \in Spaces : \/ RetryApproval(sp) \/ RevokeRead(sp)
                                \/ \E limits \in ReadLimits : ApproveRead(sp, limits)
    BY <1>2, ConsentsEvolve
  <1>3. CASE ObserveApproval \/ SaveSeenClock \/ LatchExpiry \/ FinishBudget
    BY <1>3, ObservationsEvolve
  <1>4. CASE InventoryChanged
    BY <1>0, <1>4, InvalidationEvolves
  <1>5. CASE ReservePlain
    BY <1>0, <1>5, ReservePlainEvolves
  <1>6. CASE Reserve
    BY <1>0, <1>6, ReservesEvolve
  <1>7. CASE Settle
    BY <1>0, <1>7, SettleEvolves
  <1>8. CASE \E sp \in Spaces : StartBudgeted(sp)
    <2>1. \E s, r : Transact(ns, s, r)
      BY <1>8, Zenon DEF StartBudgeted
    <2> QED BY <2>1, StaysEvolves, TransactEvolves
  <1>9. CASE \/ Close \/ Crash \/ StartPlain \/ (\E sp \in Spaces : StartConsented(sp))
             \/ Choose \/ GiveUp \/ ExpireEarly \/ Read
    <2>1. ns' = ns
      BY <1>9, Zenon DEF Close, Crash, StartPlain, StartConsented, Choose, GiveUp, ExpireEarly, Read
    <2> QED BY <2>1, StaysEvolves
  <1> QED BY <1>0, <1>1, <1>2, <1>3, <1>4, <1>5, <1>6, <1>7, <1>8, <1>9, Zenon DEF Step

-----------------------------------------------------------------------------
(* A consent that ended stops reservations and progress for good. *)

\* Every step of the composition evolves the namespaces of the store.
LEMMA ContentEvolves ==
  ASSUME HashInv, [ContentNext]_contentVars
  PROVE  setup' = setup /\ (ns' = ns \/ Evolves(ns, ns'))
  <1>1. CASE ReadingStep
    <2>1. Next /\ setup' = setup
      BY <1>1 DEF ReadingStep, Next
    <2> QED BY <2>1, NextEvolves
  <1>2. CASE PubNext /\ ~ReadingStep
    BY <1>2, PublishingFrame DEF PubNext
  <1>3. CASE UNCHANGED allVars
    BY <1>3 DEF allVars, vars
  <1> QED BY <1>1, <1>2, <1>3 DEF ContentNext, contentVars

LEMMA EvolvesConsented ==
  ASSUME HashInv, Evolves(ns, ns')
  PROVE  ConsentHeld
  <1>1. PICK sp \in SpacesOf[setup] : /\ OneRow(setup, ns, ns', sp, ns'[sp])
                                      /\ RowGrows(setup, sp, ns[sp], ns'[sp])
    BY DEF Evolves
  <1> SUFFICES ASSUME NEW x \in Spaces, ns'[x] # ns[x], ns[x].consent.given,
                      NEW w \in WorksOf(x),
                      \/ ns'[x].budget.tres > ns[x].budget.tres
                      \/ ns'[x].work[w].off > ns[x].work[w].off
                      \/ ns'[x].work[w].status = "complete" /\ ns[x].work[w].status # "complete"
               PROVE  ~ns'[x].consent.revoked /\ ~ns'[x].consent.expired
    BY DEF ConsentHeld
  <1>2. x = sp
    BY <1>1 DEF OneRow, Spaces
  <1>3. w \in WorksIn(setup, sp)
    BY <1>2 DEF WorksOf, WorksIn, Works, Done
  <1>4. Progress(ns[sp], ns'[sp], w)
    BY <1>2 DEF Progress
  <1> QED BY <1>1, <1>2, <1>3, <1>4 DEF RowGrows

\* Once a consent was given, its namespace reserves bytes and publishes progress
\* only while the saved consent is neither revoked nor expired, for every set of
\* limits, every clock and every order of runs, revocations and crashes
\* (reserveHashAttempt, reserveFreshHashAttempt, settleHashAttempt,
\* settleFreshHashAttempt).
THEOREM ReadsUnderLiveConsent == ContentSpec => ConsentLive
  <1>1. HashInv /\ [ContentNext]_contentVars => [ConsentHeld]_vars
    <2> SUFFICES ASSUME HashInv, [ContentNext]_contentVars PROVE [ConsentHeld]_vars
      OBVIOUS
    <2>1. CASE ns' = ns
      BY <2>1 DEF ConsentHeld
    <2>2. CASE Evolves(ns, ns')
      BY <2>2, EvolvesConsented
    <2> QED BY <2>1, <2>2, ContentEvolves
  <1> QED BY <1>1, HashInvariant, PTL DEF ContentSpec, ConsentLive

-----------------------------------------------------------------------------
(* The limits of a consent and the shared daily limit. *)

\* The charge that one reservation makes, in the history.
ChargeBy(sp, d, amount) ==
  \A x \in SpacesOf[setup], e \in DaysIn(setup) :
    /\ charged'[x][e] > charged[x][e] => x = sp /\ e = d
    /\ x = sp /\ e = d => charged'[x][e] = charged[x][e] + amount

LEMMA RecordedCharge ==
  ASSUME HashInv, NEW b, b.day \in DaysIn(setup), RecordCharge(b), NEW amount \in Nat,
         ns'[Sp].budget.tres - Bud.tres = amount
  PROVE  ChargeBy(Sp, b.day, amount)
  <1>1. ChargeOK(setup, ns, charged) /\ Sp \in SpacesOf[setup]
    BY InvParts, SpaceOf
  <1>2. /\ DOMAIN charged = SpacesOf[setup]
        /\ \A x \in SpacesOf[setup] : charged[x] \in [DaysIn(setup) -> Nat]
    BY <1>1 DEF ChargeOK
  <1>3. charged' = [charged EXCEPT ![Sp][b.day] = @ + amount]
    BY DEF RecordCharge
  <1>4. charged' = [charged EXCEPT ![Sp] = [charged[Sp] EXCEPT ![b.day] = charged[Sp][b.day] + amount]]
    BY <1>3
  <1>5. /\ charged'[Sp] = [charged[Sp] EXCEPT ![b.day] = charged[Sp][b.day] + amount]
        /\ \A x \in SpacesOf[setup] : x # Sp => charged'[x] = charged[x]
    BY <1>1, <1>2, <1>4
  <1>6. /\ charged'[Sp][b.day] = charged[Sp][b.day] + amount
        /\ \A e \in DaysIn(setup) : e # b.day => charged'[Sp][e] = charged[Sp][e]
    BY <1>1, <1>2, <1>5
  <1>7. ASSUME NEW x \in SpacesOf[setup], NEW e \in DaysIn(setup)
        PROVE  /\ charged'[x][e] > charged[x][e] => x = Sp /\ e = b.day
               /\ x = Sp /\ e = b.day => charged'[x][e] = charged[x][e] + amount
    <2>1. charged[x][e] \in Nat
      BY <1>2
    <2>2. ~(charged[x][e] > charged[x][e])
      BY <2>1
    <2>3. ~(x = Sp /\ e = b.day) => charged'[x][e] = charged[x][e]
      BY <1>5, <1>6
    <2> QED BY <1>6, <2>2, <2>3
  <1> QED BY <1>7 DEF ChargeBy

\* What all namespaces reserved on the day of an admitted budgeted reservation.
DayTotal(d) == SumOver([x \in SpacesOf[setup] |-> charged'[x][d]], SpacesOf[setup])

LEMMA DayTotalIs ==
  ASSUME NEW k, k = setup, NEW m, NEW d, d \in DaysIn(k), ChargeOK(k, m, charged'),
         \A x \in SpacesOf[k] : d >= m[x].budget.day
  PROVE  DayTotal(d) = AllRes(k, m, d)
  <1> DEFINE F == [x \in SpacesOf[k] |-> charged'[x][d]]
             G == [x \in SpacesOf[k] |-> DayRes(m[x].budget, d)]
  <1>1. F = G
    BY DEF ChargeOK
  <1>2. DayTotal(d) = SumOver(F, SpacesOf[k]) /\ AllRes(k, m, d) = SumOver(G, SpacesOf[k])
    BY Zenon DEF DayTotal, AllRes
  <1> HIDE DEF F, G
  <1> QED BY <1>1, <1>2

LEMMA AdmittedLimits ==
  ASSUME HashInv, HashInv', setup' = setup, At("reserve"), run.mode # "plain",
         NEW now \in Times, NEW n, NEW s, NEW b, NEW grant,
         ReservesAt(now, n, s, b, grant), Admits(now, n, s, b, grant)
  PROVE  LimitKept
  <1>1. /\ GuardBoth(n, Sp, now) = "ok" /\ RecordCharge(b)
        /\ ns' = Reserved(n, b, grant) \/ ns' = ns
    BY DEF Admits, Transact
  <1>2. PICK c, m : c = n[Sp].consent /\ m = Reserved(n, b, grant)
    OBVIOUS
  <1>3. /\ Allowed(b, c, now, grant, s) /\ Candidate(n, c)
        /\ NsOK(setup, n) /\ SharedOK(setup, n, s)
        /\ grant > 0 => b.res + grant <= Con.daily
        /\ b.tres + grant <= Con.life
        /\ run.mode = "budgeted" /\ grant > 0 => s.res + grant <= SharedLimit
        /\ run.mode = "budgeted" => /\ s.day = DayIn(setup, now)
                                    /\ \A u \in SpacesOf[setup] : ns[u].budget.max <= now
    BY <1>1, <1>2, AdmittedOK
  <1>4. /\ RolledTo(setup, Bud, b, now) /\ now \in Nat /\ now <= Horizon(setup) /\ grant \in Nat
        /\ s.set <=> run.mode = "budgeted"
        /\ s.set => s.max = now
    BY <1>3 DEF Allowed
  <1>5. /\ setup \in DOMAIN Setups /\ NsOK(setup, ns) /\ RunOK(setup, ns, shared, handle, run)
        /\ Sp \in SpacesOf[setup] /\ ChargeOK(setup, ns, charged)
        /\ NsOK(setup, ns') /\ ChargeOK(setup, ns', charged')
        /\ Spaces = SpacesOf[setup] /\ Days = DaysIn(setup)
    BY InvParts, SpaceOf DEF HashInv, Days, DaysIn, DayOf, DayIn, DayLen, MaxTime, Horizon
  <1>6. BudgetOK(setup, Bud) /\ Bud.tres \in Nat
    BY <1>5, BudgetNats DEF NsOK, RowOK, Bud
  <1> DEFINE e == ChargedBudget(b, grant)
  <1>7. /\ DayRes(Bud, b.day) = b.res /\ DayRes(e, b.day) = b.res + grant
        /\ e.tres = Bud.tres + grant /\ e.day = b.day /\ Bud.day <= b.day
        /\ b.day \in Nat /\ b.res \in Nat /\ b.day = DayIn(setup, now)
    BY <1>4, <1>5, <1>6, RolledRes
  <1> HIDE DEF e
  <1>8. b.day \in DaysIn(setup) /\ b.tres = Bud.tres
    <2>1. now <= now
      BY <1>4
    <2> QED BY <1>4, <1>5, <1>7, <2>1, DayFacts DEF RolledTo
  <1>9. CASE ns' = ns
    <2>1. ns'[Sp].budget.tres - Bud.tres = 0
      BY <1>6, <1>9 DEF Bud
    <2>2. ChargeBy(Sp, b.day, 0)
      BY <1>1, <1>8, <2>1, RecordedCharge
    <2>3. \A x \in SpacesOf[setup], d \in DaysIn(setup) : ~(charged'[x][d] > charged[x][d])
      <3> SUFFICES ASSUME NEW x \in SpacesOf[setup], NEW d \in DaysIn(setup), charged'[x][d] > charged[x][d]
                   PROVE  FALSE
        OBVIOUS
      <3>1. charged[x][d] \in Nat
        BY <1>5 DEF ChargeOK
      <3>2. charged'[x][d] = charged[x][d] + 0
        BY <2>2 DEF ChargeBy
      <3> QED BY <3>1, <3>2
    <2> QED BY <1>5, <2>3 DEF LimitKept
  <1>10. CASE ns' = m
    <2>1. run.work \in WorksIn(setup, Sp)
      BY <1>5 DEF RunOK, At, Sp
    <2>2. ReservedRow(m, n, b, c, grant)
      BY <1>2, <1>3, <2>1, ReservedIs
    <2>3. m[Sp].budget = e /\ \A u \in SpacesOf[setup] : u # Sp => m[u] = ns[u]
      BY <2>2 DEF ReservedRow, RowChanged, e
    <2>4. ns'[Sp].budget.tres - Bud.tres = grant
      <3>1. ns'[Sp].budget.tres = Bud.tres + grant
        BY <1>7, <1>10, <2>3
      <3> QED BY <1>4, <1>6, <3>1
    <2>5. ChargeBy(Sp, b.day, grant)
      BY <1>1, <1>4, <1>8, <2>4, RecordedCharge
    <2> SUFFICES ASSUME NEW sp \in SpacesOf[setup], NEW d \in DaysIn(setup),
                        charged'[sp][d] > charged[sp][d]
                 PROVE  /\ charged'[sp][d] <= ns[sp].consent.daily
                        /\ ns'[sp].budget.tres <= ns[sp].consent.life
                        /\ run.mode = "budgeted" => DayTotal(d) <= SharedLimit
      BY <1>5, Zenon DEF LimitKept, DayTotal
    <2>6. sp = Sp /\ d = b.day
      BY <2>5 DEF ChargeBy
    <2>7. charged[Sp][b.day] \in Nat /\ charged[Sp][b.day] = b.res
      BY <1>5, <1>7, <1>8 DEF ChargeOK, Bud
    <2>8. charged'[Sp][b.day] = b.res + grant
      BY <1>5, <1>8, <2>5, <2>7 DEF ChargeBy
    <2>9. grant > 0
      BY <1>4, <2>6, <2>7, <2>8
    <2>10. charged'[sp][d] <= ns[sp].consent.daily
      BY <1>3, <2>6, <2>8, <2>9 DEF Con
    <2>11. ns'[sp].budget.tres <= ns[sp].consent.life
      BY <1>3, <1>7, <1>8, <1>10, <2>3, <2>6 DEF Con
    <2>12. ASSUME run.mode = "budgeted" PROVE DayTotal(d) <= SharedLimit
      <3>1. PICK t : t = ChargedShared(s, grant)
        OBVIOUS
      <3>2. \A u \in SpacesOf[setup] : u # Sp => m[u] = n[u]
        BY <2>3, <1>3 DEF Candidate
      <3>3. RolledTo(setup, n[Sp].budget, b, now) /\ s.set /\ s.max = now
        BY <1>3, <1>4, <2>12 DEF Candidate
      <3>4. SharedOK(setup, m, t) /\ t.set
        BY <1>3, <1>4, <1>5, <1>10, <2>3, <3>1, <3>2, <3>3, SharedCharged DEF e
      <3>5. t.day = s.day /\ t.res = s.res + grant
        <4>1. s \in SharedRows
          BY <1>3 DEF SharedOK
        <4> QED BY <3>1, <4>1 DEF ChargedShared, SharedRows
      <3>6. AllRes(setup, m, b.day) = s.res + grant
        BY <1>3, <1>7, <2>12, <3>4, <3>5 DEF SharedOK
      <3>7. \A x \in SpacesOf[setup] : b.day >= m[x].budget.day
        <4> SUFFICES ASSUME NEW x \in SpacesOf[setup] PROVE b.day >= m[x].budget.day
          OBVIOUS
        <4>1. CASE x = Sp
          BY <1>7, <2>3, <4>1
        <4>2. CASE x # Sp
          <5>1. m[x] = ns[x] /\ ns[x].budget.max <= now
            BY <1>3, <2>3, <2>12, <4>2
          <5>2. ns[x].budget.max \in Nat /\ ns[x].budget.day = DayIn(setup, ns[x].budget.max)
            BY <1>5, BudgetNats
          <5>3. PICK u \in Nat : u = ns[x].budget.max
            BY <5>2
          <5>4. DayIn(setup, u) <= DayIn(setup, now) /\ DayIn(setup, u) \in Nat
            BY <1>4, <1>5, <5>1, <5>3, DayFacts
          <5> QED BY <1>7, <5>1, <5>2, <5>3, <5>4
        <4> QED BY <4>1, <4>2
      <3>8. ChargeOK(setup, m, charged')
        BY <1>5, <1>10
      <3>9. DayTotal(b.day) = AllRes(setup, m, b.day)
        BY <1>8, <3>7, <3>8, DayTotalIs
      <3> QED BY <1>3, <2>6, <2>9, <2>12, <3>6, <3>9
    <2> QED BY <2>10, <2>11, <2>12
  <1> QED BY <1>1, <1>2, <1>9, <1>10

\* Only reservations charge.
LEMMA NextLimits ==
  ASSUME HashInv, HashInv', Next
  PROVE  LimitKept
  <1>1. Step /\ setup' = setup
    BY DEF Next
  <1>2. CASE Reserve
    <2>1. At("reserve") /\ run.mode # "plain"
      BY <1>2, ReserveParts
    <2>2. PICK now, n, s, b, grant :
            /\ now \in Times /\ ReservesAt(now, n, s, b, grant)
            /\ \/ Transact(n, s, Ended) /\ UNCHANGED charged
               \/ Admits(now, n, s, b, grant)
      BY <1>2, ReserveParts
    <2>3. CASE UNCHANGED charged
      BY <2>3 DEF LimitKept
    <2>4. CASE Admits(now, n, s, b, grant)
      BY <1>1, <2>1, <2>2, <2>4, AdmittedLimits
    <2> QED BY <2>2, <2>3, <2>4
  <1>3. CASE ReservePlain
    <2>1. run.mode = "plain"
      BY <1>3 DEF ReservePlain
    <2> QED BY <2>1 DEF LimitKept
  <1>4. CASE ~Reserve /\ ~ReservePlain
    <2>1. charged' = charged
      BY <1>1, <1>4, Zenon DEF Step, OpenWriter, OpenSelectionWriter, OpenFreshRunWriter, Open, Close,
         Crash, ApproveRead, RetryApproval, RevokeRead, StartPlain, StartConsented, StartBudgeted,
         ObserveApproval, Choose, InventoryChanged, GiveUp, ExpireEarly, SaveSeenClock, FinishBudget,
         Read, Settle, LatchExpiry, NoCharge
    <2> QED BY <2>1 DEF LimitKept
  <1> QED BY <1>2, <1>3, <1>4

\* A reservation under a consent keeps the day within the consent's daily limit and
\* everything within its lifetime limit, and a budgeted one keeps the reservations
\* of all namespaces on that day within the configured limit: for every set of
\* limits, jobs and works, every length of a day, and however the clock jumps
\* between runs, because the day's charge is counted from the reservations
\* themselves (reserveHashAttempt, reserveFreshHashAttempt,
\* chargeHashStoreReadBudget).
THEOREM ReadsWithinLimits == ContentSpec => LimitsKept
  <1>1. HashInv /\ HashInv' /\ [ContentNext]_contentVars => [LimitKept]_vars
    <2> SUFFICES ASSUME HashInv, HashInv', [ContentNext]_contentVars PROVE [LimitKept]_vars
      OBVIOUS
    <2>1. CASE ReadingStep
      <3>1. Next
        BY <2>1 DEF ReadingStep
      <3> QED BY <3>1, NextLimits
    <2>2. CASE PubNext /\ ~ReadingStep
      <3>1. charged' = charged
        BY <2>2, PublishingFrame DEF PubNext
      <3> QED BY <3>1 DEF LimitKept
    <2>3. CASE UNCHANGED allVars
      BY <2>3 DEF allVars
    <2> QED BY <2>1, <2>2, <2>3 DEF ContentNext, contentVars
  <1> QED BY <1>1, HashInvariant, PTL DEF ContentSpec, LimitsKept

-----------------------------------------------------------------------------
(* Publication.  A choice or a job archives the history of the original      *)
(* selection; the rows only grow, so what was archived stays behind them.    *)

DoneIn(k, x) == {w \in Setups[k].works : x.work[w].status = "complete"}
ContextOf(k, x) == [complete |-> Cardinality(DoneIn(k, x)), budget |-> x.budget, consent |-> x.consent]

ContextOK(k, c) ==
  c.complete \in Nat /\ BudgetOK(k, c.budget) /\ ConsentOK(k, Original, c.consent, c.budget)
Precedes(c, d) ==
  /\ c.complete <= d.complete /\ c.budget.set
  /\ BudgetGrows(c.budget, d.budget) /\ ConsentGrows(c.consent, d.consent)

SameContent(k, done, roles) ==
  \A i \in DOMAIN roles :
    /\ roles[i] \in done
    /\ Setups[k].digest[roles[i]] = Setups[k].digest[roles[1]]
    /\ \A v \in Setups[k].works \ {roles[i]} : Setups[k].inode[v] # Setups[k].inode[roles[i]]

\* The saved choices and jobs, and what callers were told, beside the row x of
\* the original selection.
ChoiceOK(k, x, roles, c) ==
  /\ ContextOK(k, c) /\ Precedes(c, ContextOf(k, x))
  /\ c.complete >= Len(roles) /\ SameContent(k, DoneIn(k, x), roles)
JobOK(k, x, ch, job) ==
  /\ job.request.roles \in DOMAIN ch /\ ch[job.request.roles] = job.request.archived
  /\ ContextOK(k, job.context)
  /\ Precedes(job.request.archived, job.context) /\ Precedes(job.context, ContextOf(k, x))
ToldOK(ch, pub, tl) ==
  \A a \in tl : \/ a[1] = "choice" /\ a[2] \in DOMAIN ch /\ ch[a[2]] = a[3]
                \/ a[1] # "choice" /\ a[2] \in DOMAIN pub /\ pub[a[2]] = a[3]
PubOK(k, x, ch, pub, tl) ==
  /\ \A roles \in DOMAIN ch : ChoiceOK(k, x, roles, ch[roles])
  /\ \A key \in DOMAIN pub : JobOK(k, x, ch, pub[key])
  /\ ToldOK(ch, pub, tl)

PubInv == PubOK(setup, ns[Original], choices, published, told)

\* The order of contexts.
LEMMA BudgetGrowsOn ==
  ASSUME NEW k \in DOMAIN Setups, NEW a, NEW b, NEW c, BudgetOK(k, a), BudgetOK(k, b), BudgetOK(k, c),
         BudgetGrows(a, b), BudgetGrows(b, c)
  PROVE  BudgetGrows(a, c)
  <1>1. a \in Budgets /\ b \in Budgets /\ c \in Budgets
        /\ a.day = DayIn(k, a.max) /\ b.day = DayIn(k, b.max) /\ c.day = DayIn(k, c.max)
    BY DEF BudgetOK
  <1>2. PICK s \in Nat, t \in Nat, u \in Nat : s = a.max /\ t = b.max /\ u = c.max
    BY <1>1 DEF Budgets
  <1>3. s <= t /\ t <= u
    BY <1>2 DEF BudgetGrows
  <1>4. a.day <= b.day /\ b.day <= c.day /\ a.day \in Nat /\ b.day \in Nat /\ c.day \in Nat
    BY <1>1, <1>2, <1>3, DayFacts
  <1>5. a.day = c.day => a.day = b.day /\ b.day = c.day
    BY <1>4
  <1>6. /\ a.tres \in Nat /\ a.treq \in Nat /\ a.tread \in Nat /\ a.tunk \in Nat
        /\ b.tres \in Nat /\ b.treq \in Nat /\ b.tread \in Nat /\ b.tunk \in Nat
        /\ c.tres \in Nat /\ c.treq \in Nat /\ c.tread \in Nat /\ c.tunk \in Nat
        /\ a.res \in Nat /\ a.req \in Nat /\ a.read \in Nat /\ a.unk \in Nat
        /\ b.res \in Nat /\ b.req \in Nat /\ b.read \in Nat /\ b.unk \in Nat
        /\ c.res \in Nat /\ c.req \in Nat /\ c.read \in Nat /\ c.unk \in Nat
    BY <1>1 DEF Budgets
  <1>7. a.tres <= c.tres /\ a.treq <= c.treq /\ a.tread <= c.tread /\ a.tunk <= c.tunk
    BY <1>6 DEF BudgetGrows
  <1>8. a.day = c.day => a.res <= c.res /\ a.req <= c.req /\ a.read <= c.read /\ a.unk <= c.unk
    BY <1>5, <1>6 DEF BudgetGrows
  <1>9. a.max <= c.max
    BY <1>2, <1>3
  <1>10. a.set => c.set
    BY DEF BudgetGrows
  <1> QED BY <1>7, <1>8, <1>9, <1>10 DEF BudgetGrows

LEMMA ConsentGrowsOn ==
  ASSUME NEW a \in Consents, NEW b \in Consents, NEW c \in Consents,
         ConsentGrows(a, b), ConsentGrows(b, c)
  PROVE  ConsentGrows(a, c)
  BY DEF ConsentGrows, Consents

LEMMA PrecedesOn ==
  ASSUME NEW k \in DOMAIN Setups, NEW a, NEW b, NEW c, ContextOK(k, a), ContextOK(k, b),
         ContextOK(k, c), Precedes(a, b), Precedes(b, c)
  PROVE  Precedes(a, c)
  <1>1. a.complete <= c.complete
    BY DEF ContextOK, Precedes
  <1>2. BudgetGrows(a.budget, c.budget)
    BY BudgetGrowsOn DEF ContextOK, Precedes
  <1>3. ConsentGrows(a.consent, c.consent)
    BY ConsentGrowsOn DEF ContextOK, ConsentOK, Precedes
  <1> QED BY <1>1, <1>2, <1>3 DEF Precedes

LEMMA PrecedesItself ==
  ASSUME NEW k \in DOMAIN Setups, NEW c, ContextOK(k, c), c.budget.set
  PROVE  Precedes(c, c)
  BY BudgetSame, ConsentSameGrows DEF Precedes, ContextOK, BudgetOK, ConsentOK

LEMMA ContextIs ==
  ASSUME NEW k \in DOMAIN Setups, NEW x, RowOK(k, Original, x), NEW c, c = ContextOf(k, x)
  PROVE  /\ c.budget = x.budget /\ c.consent = x.consent /\ c.complete = Cardinality(DoneIn(k, x))
         /\ ContextOK(k, c) /\ IsFiniteSet(DoneIn(k, x)) /\ DoneIn(k, x) \subseteq Setups[k].works
  <1>1. IsFiniteSet(Setups[k].works)
    BY SetupFacts
  <1>2. DoneIn(k, x) \in SUBSET Setups[k].works
    BY DEF DoneIn
  <1>3. IsFiniteSet(DoneIn(k, x))
    BY <1>1, <1>2, FS_Subset
  <1>4. Cardinality(DoneIn(k, x)) \in Nat
    BY <1>3, FS_CardinalityType
  <1>5. c.budget = x.budget /\ c.consent = x.consent /\ c.complete = Cardinality(DoneIn(k, x))
    BY DEF ContextOf
  <1> QED BY <1>2, <1>3, <1>4, <1>5 DEF ContextOK, RowOK

\* As the rows grow, everything that was archived stays behind.
LEMMA PubGrows ==
  ASSUME NEW k \in DOMAIN Setups, NEW x, NEW y, RowOK(k, Original, x), RowOK(k, Original, y),
         RowGrows(k, Original, x, y), NEW ch, NEW pub, NEW tl, PubOK(k, x, ch, pub, tl)
  PROVE  PubOK(k, y, ch, pub, tl)
  <1>1. PICK c, d : c = ContextOf(k, x) /\ d = ContextOf(k, y)
    OBVIOUS
  <1>2. /\ c.budget = x.budget /\ c.consent = x.consent /\ c.complete = Cardinality(DoneIn(k, x))
        /\ ContextOK(k, c)
    BY <1>1, ContextIs
  <1>3. /\ d.budget = y.budget /\ d.consent = y.consent /\ d.complete = Cardinality(DoneIn(k, y))
        /\ ContextOK(k, d) /\ IsFiniteSet(DoneIn(k, y))
    BY <1>1, ContextIs
  <1>4. DoneIn(k, x) \in SUBSET DoneIn(k, y)
    BY DEF DoneIn, RowGrows, WorksIn
  <1>5. c.complete <= d.complete
    BY <1>2, <1>3, <1>4, FS_Subset
  <1>6. ASSUME NEW e, ContextOK(k, e), Precedes(e, c) PROVE Precedes(e, d)
    <2>1. CASE c.budget.set
      <3>1. Precedes(c, d)
        BY <1>2, <1>3, <1>5, <2>1 DEF Precedes, RowGrows
      <3> QED BY <1>2, <1>3, <1>6, <3>1, PrecedesOn
    <2>2. CASE ~c.budget.set
      BY <1>6, <2>2 DEF Precedes, BudgetGrows
    <2> QED BY <2>1, <2>2
  <1>7. ASSUME NEW roles \in DOMAIN ch PROVE ChoiceOK(k, y, roles, ch[roles])
    <2>1. PICK e : e = ch[roles]
      OBVIOUS
    <2>2. /\ ContextOK(k, e) /\ Precedes(e, c) /\ e.complete >= Len(roles)
          /\ SameContent(k, DoneIn(k, x), roles)
      BY <1>1, <2>1 DEF PubOK, ChoiceOK
    <2>3. Precedes(e, d)
      BY <1>6, <2>2
    <2>4. SameContent(k, DoneIn(k, y), roles)
      BY <1>4, <2>2 DEF SameContent
    <2> QED BY <1>1, <2>1, <2>2, <2>3, <2>4 DEF ChoiceOK
  <1>8. ASSUME NEW key \in DOMAIN pub PROVE JobOK(k, y, ch, pub[key])
    <2>1. PICK e, j : j = pub[key] /\ e = j.context
      OBVIOUS
    <2>2. JobOK(k, x, ch, j)
      BY <2>1 DEF PubOK
    <2>3. ContextOK(k, e) /\ Precedes(e, c)
      BY <1>1, <2>1, <2>2 DEF JobOK
    <2>4. Precedes(e, d)
      BY <1>6, <2>3
    <2> QED BY <1>1, <2>1, <2>2, <2>4 DEF JobOK
  <1> QED BY <1>7, <1>8 DEF PubOK

\* A row is added; the others stay.
LEMMA ChoiceAdded ==
  ASSUME NEW k, NEW x, NEW ch, NEW pub, NEW tl, PubOK(k, x, ch, pub, tl),
         NEW roles, roles \notin DOMAIN ch, NEW c, ChoiceOK(k, x, roles, c),
         NEW new, new = Recorded(ch, roles, c)
  PROVE  /\ PubOK(k, x, new, pub, tl)
         /\ PubOK(k, x, new, pub, tl \cup {<<"choice", roles, c>>})
  <1>1. /\ DOMAIN new = DOMAIN ch \cup {roles} /\ new[roles] = c
        /\ \A z \in DOMAIN ch : new[z] = ch[z]
    BY DEF Recorded
  <1>2. \A z \in DOMAIN new : ChoiceOK(k, x, z, new[z])
    BY <1>1 DEF PubOK
  <1>3. \A key \in DOMAIN pub : JobOK(k, x, new, pub[key])
    BY <1>1 DEF PubOK, JobOK
  <1>4. ToldOK(new, pub, tl)
    BY <1>1 DEF PubOK, ToldOK
  <1>5. ToldOK(new, pub, tl \cup {<<"choice", roles, c>>})
    <2> SUFFICES ASSUME NEW a \in tl \cup {<<"choice", roles, c>>}
                 PROVE  \/ a[1] = "choice" /\ a[2] \in DOMAIN new /\ new[a[2]] = a[3]
                        \/ a[1] # "choice" /\ a[2] \in DOMAIN pub /\ pub[a[2]] = a[3]
      BY DEF ToldOK
    <2>1. CASE a \in tl
      BY <1>4, <2>1 DEF ToldOK
    <2>2. CASE a = <<"choice", roles, c>>
      BY <1>1, <2>2
    <2> QED BY <2>1, <2>2
  <1> QED BY <1>2, <1>3, <1>4, <1>5 DEF PubOK

LEMMA JobAdded ==
  ASSUME NEW k, NEW x, NEW ch, NEW pub, NEW tl, PubOK(k, x, ch, pub, tl),
         NEW key, key \notin DOMAIN pub, NEW job, JobOK(k, x, ch, job),
         NEW new, new = Recorded(pub, key, job)
  PROVE  /\ PubOK(k, x, ch, new, tl)
         /\ PubOK(k, x, ch, new, tl \cup {<<"job", key, job>>})
  <1>1. /\ DOMAIN new = DOMAIN pub \cup {key} /\ new[key] = job
        /\ \A z \in DOMAIN pub : new[z] = pub[z]
    BY DEF Recorded
  <1>2. \A z \in DOMAIN new : JobOK(k, x, ch, new[z])
    BY <1>1 DEF PubOK
  <1>3. ToldOK(ch, new, tl)
    BY <1>1 DEF PubOK, ToldOK
  <1>4. ToldOK(ch, new, tl \cup {<<"job", key, job>>})
    <2> SUFFICES ASSUME NEW a \in tl \cup {<<"job", key, job>>}
                 PROVE  \/ a[1] = "choice" /\ a[2] \in DOMAIN ch /\ ch[a[2]] = a[3]
                        \/ a[1] # "choice" /\ a[2] \in DOMAIN new /\ new[a[2]] = a[3]
      BY DEF ToldOK
    <2>1. CASE a \in tl
      BY <1>3, <2>1 DEF ToldOK
    <2>2. CASE a = <<"job", key, job>>
      BY <1>1, <2>2
    <2> QED BY <2>1, <2>2
  <1> QED BY <1>2, <1>3, <1>4 DEF PubOK

\* A caller is told a row that is there.
LEMMA ToldAgain ==
  ASSUME NEW k, NEW x, NEW ch, NEW pub, NEW tl, PubOK(k, x, ch, pub, tl)
  PROVE  /\ \A roles \in DOMAIN ch : PubOK(k, x, ch, pub, tl \cup {<<"choice", roles, ch[roles]>>})
         /\ \A key \in DOMAIN pub : PubOK(k, x, ch, pub, tl \cup {<<"job", key, pub[key]>>})
  <1>1. ToldOK(ch, pub, tl)
    BY DEF PubOK
  <1>2. ASSUME NEW roles \in DOMAIN ch PROVE ToldOK(ch, pub, tl \cup {<<"choice", roles, ch[roles]>>})
    BY <1>1 DEF ToldOK
  <1>3. ASSUME NEW key \in DOMAIN pub PROVE ToldOK(ch, pub, tl \cup {<<"job", key, pub[key]>>})
    BY <1>1 DEF ToldOK
  <1> QED BY <1>2, <1>3 DEF PubOK

\* Distinct completed roles are no more than the completed works.
LEMMA RolesCounted ==
  ASSUME NEW k \in DOMAIN Setups, NEW roles \in Setups[k].roles, NEW done, IsFiniteSet(done),
         SameContent(k, done, roles)
  PROVE  Cardinality(done) >= Len(roles)
  <1>1. roles \in Seq(Setups[k].works) /\ IsInjective(roles)
    <2>1. Setups[k] \in Range(Setups)
      BY DEF Range
    <2> QED BY <2>1, FreshJobsAssumption
  <1>2. Len(roles) \in Nat /\ DOMAIN roles = 1..Len(roles) /\ roles \in [1..Len(roles) -> Setups[k].works]
    BY <1>1
  <1>3. roles \in [1..Len(roles) -> done]
    BY <1>2 DEF SameContent
  <1>4. roles \in Injection(1..Len(roles), done)
    BY <1>1, <1>3 DEF Injection
  <1>5. Cardinality(1..Len(roles)) <= Cardinality(done)
    BY <1>4, FS_Injection
  <1>6. Cardinality(1..Len(roles)) = Len(roles)
    <2>1. 1 \in Int /\ Len(roles) \in Int
      BY <1>2
    <2>2. Cardinality(1..Len(roles)) = IF 1 > Len(roles) THEN 0 ELSE Len(roles) - 1 + 1
      BY <2>1, FS_Interval
    <2> QED BY <1>2, <2>2
  <1>7. Cardinality(done) \in Nat
    BY FS_CardinalityType
  <1> QED BY <1>2, <1>5, <1>6, <1>7

\* The model's definitions, at the setup of this behaviour.
LEMMA PublishedNames ==
  /\ Complete = DoneIn(setup, ns[Original]) /\ Context = ContextOf(setup, ns[Original])
  /\ RolesAsked = Setups[setup].roles
  /\ \A roles : Previewable(roles) <=> SameContent(setup, DoneIn(setup, ns[Original]), roles)
  <1>1. Complete = DoneIn(setup, ns[Original])
    BY DEF Complete, DoneIn, Works
  <1>2. Context = ContextOf(setup, ns[Original])
    BY <1>1, Zenon DEF Context, ContextOf
  <1>3. \A roles : Previewable(roles) <=> SameContent(setup, DoneIn(setup, ns[Original]), roles)
    BY <1>1, Zenon DEF Previewable, SameContent, Unaliased, Digest, Inode, Works
  <1> QED BY <1>1, <1>2, <1>3 DEF RolesAsked

LEMMA ChoiceNew ==
  ASSUME HashInv, NEW roles \in RolesAsked, Previewable(roles), Context.budget.set, NEW c, c = Context
  PROVE  ChoiceOK(setup, ns[Original], roles, c)
  <1>1. setup \in DOMAIN Setups /\ RowOK(setup, Original, ns[Original])
    BY InvParts, SpaceOf DEF NsOK
  <1>2. /\ c = ContextOf(setup, ns[Original]) /\ roles \in Setups[setup].roles
        /\ SameContent(setup, DoneIn(setup, ns[Original]), roles)
    BY PublishedNames
  <1>3. /\ ContextOK(setup, c) /\ c.complete = Cardinality(DoneIn(setup, ns[Original]))
        /\ IsFiniteSet(DoneIn(setup, ns[Original]))
    BY <1>1, <1>2, ContextIs
  <1>4. Precedes(c, c)
    BY <1>1, <1>3, PrecedesItself
  <1>5. c.complete >= Len(roles)
    BY <1>1, <1>2, <1>3, RolesCounted
  <1> QED BY <1>2, <1>3, <1>4, <1>5 DEF ChoiceOK

LEMMA JobNew ==
  ASSUME HashInv, PubInv, request \in DOMAIN choices, NEW job,
         job = [request |-> Rebuilt, context |-> Context]
  PROVE  JobOK(setup, ns[Original], choices, job)
  <1>1. setup \in DOMAIN Setups /\ RowOK(setup, Original, ns[Original])
    BY InvParts, SpaceOf DEF NsOK
  <1>2. PICK c, e : c = ContextOf(setup, ns[Original]) /\ c = Context /\ e = choices[request]
    BY PublishedNames
  <1>3. ContextOK(setup, c)
    BY <1>1, <1>2, ContextIs
  <1>4. ContextOK(setup, e) /\ Precedes(e, c)
    BY <1>2 DEF PubInv, PubOK, ChoiceOK
  <1>5. c.budget.set
    BY <1>4 DEF Precedes, BudgetGrows
  <1>6. Precedes(c, c)
    BY <1>1, <1>3, <1>5, PrecedesItself
  <1>7. job.request.roles = request /\ job.request.archived = e /\ job.context = c
    BY <1>2 DEF Rebuilt
  <1> QED BY <1>2, <1>3, <1>4, <1>6, <1>7 DEF JobOK

LEMMA SaveKeeperChoiceOK ==
  ASSUME HashInv, PubInv, NEW roles \in RolesAsked, SaveKeeperChoice(roles)
  PROVE  PubInv'
  <1>1. /\ setup' = setup /\ ns' = ns /\ published' = published /\ Previewable(roles)
        /\ \/ /\ roles \in DOMAIN choices
              /\ Told("choice", roles, choices[roles])
              /\ UNCHANGED <<choices, handle>>
           \/ /\ roles \notin DOMAIN choices /\ ContextValid(Context)
              /\ Publish(choices, Recorded(choices, roles, Context), "choice", roles, Context)
    BY Zenon DEF SaveKeeperChoice
  <1>2. PICK x : x = ns[Original] /\ PubOK(setup, x, choices, published, told)
    BY DEF PubInv
  <1>3. CASE /\ roles \in DOMAIN choices
             /\ Told("choice", roles, choices[roles])
             /\ UNCHANGED <<choices, handle>>
    <2>1. told' = told \cup {<<"choice", roles, choices[roles]>>} /\ choices' = choices
      BY <1>3 DEF Told
    <2>2. PubOK(setup, x, choices, published, told \cup {<<"choice", roles, choices[roles]>>})
      BY <1>2, <1>3, ToldAgain
    <2>3. PubOK(setup, x, choices', published', told')
      BY <1>1, <2>1, <2>2
    <2> QED BY <1>1, <1>2, <2>3 DEF PubInv
  <1>4. CASE /\ roles \notin DOMAIN choices /\ ContextValid(Context)
             /\ Publish(choices, Recorded(choices, roles, Context), "choice", roles, Context)
    <2>1. PICK c, new : c = Context /\ new = Recorded(choices, roles, c)
      OBVIOUS
    <2>2. \/ choices' = new /\ told' = told \cup {<<"choice", roles, c>>}
          \/ choices' \in {new, choices} /\ told' = told
      BY <1>4, <2>1 DEF Publish, Told
    <2>3. Context.budget.set
      BY <1>4 DEF ContextValid
    <2>4. ChoiceOK(setup, x, roles, c)
      BY <1>1, <1>2, <2>1, <2>3, ChoiceNew
    <2>5. /\ PubOK(setup, x, new, published, told)
          /\ PubOK(setup, x, new, published, told \cup {<<"choice", roles, c>>})
      BY <1>2, <1>4, <2>1, <2>4, ChoiceAdded
    <2>6. PubOK(setup, x, choices', published', told')
      <3>1. CASE choices' = new /\ told' = told \cup {<<"choice", roles, c>>}
        BY <1>1, <2>5, <3>1
      <3>2. CASE choices' = new /\ told' = told
        BY <1>1, <2>5, <3>2
      <3>3. CASE choices' = choices /\ told' = told
        BY <1>1, <1>2, <3>3
      <3> QED BY <2>2, <3>1, <3>2, <3>3
    <2> QED BY <1>1, <1>2, <2>6 DEF PubInv
  <1> QED BY <1>1, <1>3, <1>4

LEMMA SaveFreshJobOK ==
  ASSUME HashInv, PubInv, NEW key, SaveFreshJob(key)
  PROVE  PubInv'
  <1>1. PICK job : job = [request |-> Rebuilt, context |-> Context]
    OBVIOUS
  <1>2. /\ setup' = setup /\ ns' = ns /\ choices' = choices /\ Requestable(request)
        /\ \/ key \in DOMAIN published /\ Told("job", key, published[key]) /\ published' = published
           \/ /\ key \notin DOMAIN published
              /\ \/ Publish(published, Recorded(published, key, job), "job", key, job)
                 \/ published' = Recorded(published, key, job) /\ Told("job", key, job)
    BY <1>1, Zenon DEF SaveFreshJob
  <1>3. PICK x : x = ns[Original] /\ PubOK(setup, x, choices, published, told)
    BY DEF PubInv
  <1>4. CASE key \in DOMAIN published /\ Told("job", key, published[key]) /\ published' = published
    <2>1. told' = told \cup {<<"job", key, published[key]>>}
      BY <1>4 DEF Told
    <2>2. PubOK(setup, x, choices, published, told \cup {<<"job", key, published[key]>>})
      BY <1>3, <1>4, ToldAgain
    <2>3. PubOK(setup, x, choices', published', told')
      BY <1>2, <1>4, <2>1, <2>2
    <2> QED BY <1>2, <1>3, <2>3 DEF PubInv
  <1>5. CASE /\ key \notin DOMAIN published
             /\ \/ Publish(published, Recorded(published, key, job), "job", key, job)
                \/ published' = Recorded(published, key, job) /\ Told("job", key, job)
    <2>1. PICK new : new = Recorded(published, key, job)
      OBVIOUS
    <2>2. \/ published' = new /\ told' = told \cup {<<"job", key, job>>}
          \/ published' \in {new, published} /\ told' = told
      BY <1>5, <2>1 DEF Publish, Told
    <2>3. request \in DOMAIN choices
      BY <1>2 DEF Requestable
    <2>4. JobOK(setup, x, choices, job)
      BY <1>1, <1>3, <2>3, JobNew
    <2>5. /\ PubOK(setup, x, choices, new, told)
          /\ PubOK(setup, x, choices, new, told \cup {<<"job", key, job>>})
      BY <1>3, <1>5, <2>1, <2>4, JobAdded
    <2>6. PubOK(setup, x, choices', published', told')
      <3>1. CASE published' = new /\ told' = told \cup {<<"job", key, job>>}
        BY <1>2, <2>5, <3>1
      <3>2. CASE published' = new /\ told' = told
        BY <1>2, <2>5, <3>2
      <3>3. CASE published' = published /\ told' = told
        BY <1>2, <1>3, <3>3
      <3> QED BY <2>2, <3>1, <3>2, <3>3
    <2> QED BY <1>2, <1>3, <2>6 DEF PubInv
  <1> QED BY <1>2, <1>4, <1>5

\* Runs, recoveries and approvals go on in between.
LEMMA OriginalGrows ==
  ASSUME HashInv, Evolves(ns, ns')
  PROVE  RowGrows(setup, Original, ns[Original], ns'[Original])
  <1>1. setup \in DOMAIN Setups /\ RowOK(setup, Original, ns[Original]) /\ Original \in SpacesOf[setup]
    BY InvParts, SpaceOf DEF NsOK
  <1>2. PICK sp \in SpacesOf[setup] : /\ OneRow(setup, ns, ns', sp, ns'[sp])
                                      /\ RowGrows(setup, sp, ns[sp], ns'[sp])
    BY DEF Evolves
  <1>3. CASE sp = Original
    BY <1>2, <1>3
  <1>4. CASE sp # Original
    <2>1. ns'[Original] = ns[Original]
      BY <1>1, <1>2, <1>4 DEF OneRow
    <2> QED BY <1>1, <2>1, SameGrows
  <1> QED BY <1>3, <1>4

LEMMA PubStep ==
  ASSUME HashInv, HashInv', PubInv, [ContentNext]_contentVars
  PROVE  PubInv'
  <1>1. CASE ReadingStep
    <2>1. /\ Next /\ setup' = setup /\ choices' = choices /\ published' = published /\ told' = told
      BY <1>1 DEF ReadingStep, Next
    <2>2. Evolves(ns, ns')
      BY <2>1, NextEvolves
    <2>3. PICK k, x, y : k = setup /\ x = ns[Original] /\ y = ns'[Original]
      OBVIOUS
    <2>4. k \in DOMAIN Setups /\ RowOK(k, Original, x) /\ RowOK(k, Original, y)
      <3>1. NsOK(setup, ns) /\ NsOK(setup, ns') /\ Original \in SpacesOf[setup] /\ setup \in DOMAIN Setups
        BY <2>1, InvParts, SpaceOf DEF HashInv
      <3> QED BY <2>3, <3>1 DEF NsOK
    <2>5. RowGrows(k, Original, x, y)
      BY <2>2, <2>3, OriginalGrows
    <2>6. PubOK(k, x, choices, published, told)
      BY <2>3 DEF PubInv
    <2>7. PubOK(k, y, choices, published, told)
      BY <2>4, <2>5, <2>6, PubGrows
    <2> QED BY <2>1, <2>3, <2>7 DEF PubInv
  <1>2. CASE \E roles \in RolesAsked : SaveKeeperChoice(roles)
    BY <1>2, SaveKeeperChoiceOK
  <1>3. CASE \E roles \in DOMAIN choices : OpenFreshJobWriter(roles)
    BY <1>3 DEF OpenFreshJobWriter, PubInv
  <1>4. CASE \E key \in JobKeys : SaveFreshJob(key)
    BY <1>4, SaveFreshJobOK
  <1>5. CASE UNCHANGED allVars
    BY <1>5 DEF allVars, vars, pubVars, PubInv
  <1> QED BY <1>1, <1>2, <1>3, <1>4, <1>5 DEF ContentNext, contentVars, PubNext

\* What the readers of choices and jobs demand follows.
LEMMA ContextReads ==
  ASSUME HashInv, NEW c, ContextOK(setup, c), c.budget.set
  PROVE  ContextValid(c)
  <1>1. BudgetReadable(c.budget)
    BY DEF ContextOK, BudgetOK, BudgetReadable, DayOf, DayIn, DayLen
  <1>2. ConsentReadable(c.consent, c.budget)
    BY DEF ContextOK, ConsentOK, ConsentReadable, ExpiresAt
  <1> QED BY <1>1, <1>2 DEF ContextValid

LEMMA ContextGrown ==
  ASSUME HashInv, NEW c, NEW d, ContextOK(setup, c), ContextOK(setup, d), Precedes(c, d)
  PROVE  Grown(c, d) /\ ContextValid(c)
  <1>1. c.budget.set /\ d.budget.set
    BY DEF Precedes, BudgetGrows
  <1>2. ContextValid(c) /\ ContextValid(d)
    BY <1>1, ContextReads
  <1> QED BY <1>2 DEF Grown, Precedes, BudgetGrows, ConsentGrows

LEMMA InvPublished == HashInv /\ PubInv => PublishedReadable
  <1> SUFFICES ASSUME HashInv, PubInv PROVE PublishedReadable
    OBVIOUS
  <1>1. setup \in DOMAIN Setups /\ RowOK(setup, Original, ns[Original])
    BY InvParts, SpaceOf DEF NsOK
  <1>2. PICK x, d : x = ns[Original] /\ d = Context /\ d = ContextOf(setup, x)
    BY PublishedNames
  <1>3. ContextOK(setup, d)
    BY <1>1, <1>2, ContextIs
  <1>4. PubOK(setup, x, choices, published, told)
    BY <1>2 DEF PubInv
  <1>5. ASSUME NEW roles \in DOMAIN choices
        PROVE  ChoiceReadable(roles, choices[roles]) /\ Grown(choices[roles], d)
    <2>1. PICK c : c = choices[roles]
      OBVIOUS
    <2>2. /\ ContextOK(setup, c) /\ Precedes(c, d) /\ c.complete >= Len(roles)
          /\ SameContent(setup, DoneIn(setup, x), roles)
      BY <1>2, <1>4, <2>1 DEF PubOK, ChoiceOK
    <2>3. Grown(c, d) /\ ContextValid(c)
      BY <1>3, <2>2, ContextGrown
    <2>4. Previewable(roles)
      BY <1>2, <2>2, PublishedNames
    <2> QED BY <2>1, <2>2, <2>3, <2>4 DEF ChoiceReadable
  <1>6. ASSUME NEW key \in DOMAIN published
        PROVE  JobReadable(key) /\ Grown(published[key].context, d)
    <2>1. PICK job, c, e : job = published[key] /\ c = job.request.archived /\ e = job.context
      OBVIOUS
    <2>2. /\ job.request.roles \in DOMAIN choices /\ choices[job.request.roles] = c
          /\ ContextOK(setup, e) /\ Precedes(c, e) /\ Precedes(e, d)
      BY <1>2, <1>4, <2>1 DEF PubOK, JobOK
    <2>3. ContextOK(setup, c)
      BY <1>4, <2>2 DEF PubOK, ChoiceOK
    <2>4. Grown(c, e) /\ Grown(e, d)
      BY <1>3, <2>2, <2>3, ContextGrown
    <2>5. Requestable(job.request.roles)
      BY <1>5, <2>2 DEF Requestable
    <2> QED BY <2>1, <2>2, <2>4, <2>5 DEF JobReadable
  <1>7. ASSUME NEW a \in told
        PROVE  LET rows == IF a[1] = "choice" THEN choices ELSE published
               IN a[2] \in DOMAIN rows /\ rows[a[2]] = a[3]
    BY <1>4 DEF PubOK, ToldOK
  <1> QED BY <1>2, <1>5, <1>6, <1>7 DEF PublishedReadable

\* Whatever runs, recoveries, approvals and clock jumps come after, a saved keeper
\* choice stays readable and can still be published, a saved fresh job stays
\* readable, and what a caller was told is saved stays saved as told: history in the
\* original namespace never falls behind an archived context, for every selection,
\* every set of roles and every limit (validateHashKeeperChoiceBinding,
\* validateHashFreshJobRecord).
THEOREM PublicationsReadable == ContentSpec => []PublishedReadable
  <1>1. ContentInit => PubInv
    <2> SUFFICES ASSUME ContentInit PROVE PubInv
      OBVIOUS
    <2>1. choices = <<>> /\ published = <<>> /\ told = {}
      BY DEF ContentInit, PubInit
    <2>2. DOMAIN choices = {} /\ DOMAIN published = {}
      BY <2>1
    <2> QED BY <2>1, <2>2 DEF PubInv, PubOK, ToldOK
  <1>2. HashInv /\ HashInv' /\ PubInv /\ [ContentNext]_contentVars => PubInv'
    BY PubStep
  <1> QED BY <1>1, <1>2, HashInvariant, InvPublished, PTL DEF ContentSpec

-----------------------------------------------------------------------------
(* The refinement of PrechargedUse by the whole: a row's books move as an    *)
(* account, and one row moves at a time.                                     *)

Entry(k, sp, x, u) == [held |-> Held(k, sp, x), booked |-> Booked(x), used |-> u]
Ledger(k, n, u, samples) ==
  [sp \in SpacesOf[k] \cup {"samples"} |->
     IF sp \in SpacesOf[k] THEN Entry(k, sp, n[sp], u[sp]) ELSE samples]
BooksLedger ==
  [sp \in Spaces \cup {"samples"} |->
     IF sp \in Spaces
     THEN [held |-> Outstanding(sp), booked |-> ns[sp].budget.treq + ns[sp].budget.tunk,
           used |-> consumed[sp]]
     ELSE SampleAccount]
LedgerKnown == BooksLedger = Ledger(setup, ns, consumed, SampleAccount)
EntryMoves(e, f) == e = f \/ Books!Reserve(e, f) \/ Books!Use(e, f) \/ Books!Settle(e, f)

LEMMA HeldOutstanding ==
  ASSUME HashInv, NEW sp \in SpacesOf[setup]
  PROVE  Outstanding(sp) = Held(setup, sp, ns[sp])
  <1>1. PICK k \in DOMAIN Setups : k = setup /\ RowOK(k, sp, ns[sp])
    BY InvParts DEF NsOK
  <1>2. PICK x : x = ns[sp]
    OBVIOUS
  <1>3. PICK open : open = WithStatus(WorksIn(k, sp), x.work, {"reserved"})
    OBVIOUS
  <1>4. RowSum(x.work, "grant", open) = Held(k, sp, x) /\ (open = {} => Held(k, sp, x) = 0)
    BY <1>1, <1>2, <1>3, OpenFits
  <1>5. Attempts(sp, {"reserved"}) = open
    <2>1. WorksOf(sp) = WorksIn(k, sp)
      BY <1>1, SpaceOf
    <2> QED BY <1>2, <1>3, <2>1, Zenon DEF Attempts, WithStatus
  <1>6. Granted(sp, open) = RowSum(x.work, "grant", open)
    BY <1>2, Zenon DEF Granted, AttemptSum, RowSum
  <1>7. Outstanding(sp) = IF open = {} THEN 0 ELSE Granted(sp, open)
    BY <1>5, Zenon DEF Outstanding
  <1> QED BY <1>1, <1>2, <1>4, <1>6, <1>7

LEMMA LedgerIs == HashInv => LedgerKnown
  <1> SUFFICES ASSUME HashInv PROVE LedgerKnown
    OBVIOUS
  <1>1. Spaces = SpacesOf[setup]
    BY SpaceOf
  <1>2. ASSUME NEW sp \in SpacesOf[setup]
        PROVE  [held |-> Outstanding(sp), booked |-> ns[sp].budget.treq + ns[sp].budget.tunk,
                used |-> consumed[sp]] = Entry(setup, sp, ns[sp], consumed[sp])
    BY HeldOutstanding, Zenon DEF Entry, Booked
  <1> QED BY <1>1, <1>2 DEF LedgerKnown, BooksLedger, Ledger

LEMMA EntryStep ==
  ASSUME NEW k \in DOMAIN Setups, NEW sp \in SpacesOf[k], NEW x, NEW y, RowOK(k, sp, x), RowOK(k, sp, y),
         HeldMoves(k, sp, x, y), NEW u \in Nat, u <= Booked(y) + Held(k, sp, y),
         NEW e, NEW f, e = Entry(k, sp, x, u), f = Entry(k, sp, y, u)
  PROVE  EntryMoves(e, f)
  <1>1. PICK hx \in Nat, hy \in Nat, bx \in Nat, by \in Nat :
          hx = Held(k, sp, x) /\ hy = Held(k, sp, y) /\ bx = Booked(x) /\ by = Booked(y)
    BY NumbersOf
  <1>2. e = [held |-> hx, booked |-> bx, used |-> u] /\ f = [held |-> hy, booked |-> by, used |-> u]
    BY <1>1 DEF Entry
  <1>3. \/ hy = hx /\ by = bx
        \/ hx = 0 /\ by = bx
        \/ hy = 0 /\ bx <= by /\ by <= bx + hx
    BY <1>1 DEF HeldMoves
  <1>4. CASE hy = hx /\ by = bx
    BY <1>2, <1>4 DEF EntryMoves
  <1>5. CASE hx = 0 /\ by = bx
    <2>1. e.held = 0 /\ f = [e EXCEPT !.held = f.held]
      BY <1>2, <1>5
    <2> QED BY <2>1 DEF EntryMoves, Books!Reserve
  <1>6. CASE hy = 0 /\ bx <= by /\ by <= bx + hx
    <2>1. CASE hx = 0
      <3>1. by = bx
        BY <1>6, <2>1
      <3> QED BY <1>5, <2>1, <3>1
    <2>2. CASE hx # 0
      <3>1. e.held = hx /\ f.held = 0 /\ e.booked = bx /\ f.booked = by /\ f.used = u /\ e.used = u
        BY <1>2, <1>6
      <3>2. hx > 0 /\ by \in bx..(bx + hx) /\ u <= by + 0
        BY <1>1, <1>6, <2>2
      <3> QED BY <3>1, <3>2 DEF EntryMoves, Books!Settle, Books!Covered
    <2> QED BY <2>1, <2>2
  <1> QED BY <1>3, <1>4, <1>5, <1>6

LEMMA EntryUsed ==
  ASSUME NEW k \in DOMAIN Setups, NEW sp \in SpacesOf[k], NEW x, RowOK(k, sp, x),
         NEW u \in Nat, NEW req \in Nat, NEW v, v = u + req, v <= Booked(x) + Held(k, sp, x),
         NEW e, NEW f, e = Entry(k, sp, x, u), f = Entry(k, sp, x, v)
  PROVE  EntryMoves(e, f)
  <1>1. PICK h \in Nat, b \in Nat : h = Held(k, sp, x) /\ b = Booked(x)
    BY NumbersOf
  <1>2. e = [held |-> h, booked |-> b, used |-> u] /\ f = [held |-> h, booked |-> b, used |-> v]
    BY <1>1 DEF Entry
  <1>3. CASE req = 0
    <2>1. u = v
      BY <1>3
    <2> QED BY <1>2, <2>1 DEF EntryMoves
  <1>4. CASE req # 0
    <2>1. v > u
      BY <1>4
    <2>2. f.used > e.used /\ f = [e EXCEPT !.used = f.used] /\ f.used <= f.booked + f.held
      BY <1>1, <1>2, <2>1
    <2> QED BY <2>2 DEF EntryMoves, Books!Use, Books!Covered
  <1> QED BY <1>3, <1>4

\* One entry moves.
LEMMA LedgerStep ==
  ASSUME NEW old, NEW new, DOMAIN old = DOMAIN new, old = [z \in DOMAIN old |-> old[z]], new = [z \in DOMAIN new |-> new[z]], NEW a \in DOMAIN old,
         \A z \in DOMAIN old : z # a => new[z] = old[z], EntryMoves(old[a], new[a])
  PROVE  old = new \/ Books!Step(old, new)
  <1>1. new = [old EXCEPT ![a] = new[a]]
    OBVIOUS
  <1>2. CASE old[a] = new[a]
    BY <1>2
  <1>3. CASE old[a] # new[a]
    <2>1. old # new
      BY <1>3
    <2> QED BY <1>1, <1>3, <2>1 DEF EntryMoves, Books!Step
  <1> QED BY <1>2, <1>3

\* At no moment is more used than is booked or held.
UseKnown ==
  \A sp \in SpacesOf[setup] :
    consumed[sp] \in Nat /\ consumed[sp] <= Booked(ns[sp]) + Held(setup, sp, ns[sp])

LEMMA UseIs == HashInv => UseKnown
  <1> SUFFICES ASSUME HashInv, NEW sp \in SpacesOf[setup]
               PROVE  consumed[sp] \in Nat /\ consumed[sp] <= Booked(ns[sp]) + Held(setup, sp, ns[sp])
    BY DEF UseKnown
  <1>1. UseOK(setup, ns, Idle, consumed)
    BY InvParts, UseIdle
  <1>2. Pending(setup, ns, Idle, sp) = Held(setup, sp, ns[sp])
    BY DEF Pending, Idle
  <1> QED BY <1>1, <1>2 DEF UseOK, Booked

IsLedger(old, k, n, u, samples) ==
  /\ DOMAIN old = SpacesOf[k] \cup {"samples"} /\ old = [z \in DOMAIN old |-> old[z]]
  /\ \A sp \in SpacesOf[k] : old[sp] = Entry(k, sp, n[sp], u[sp])
  /\ "samples" \notin SpacesOf[k] => old["samples"] = samples
LEMMA LedgerFields ==
  ASSUME NEW k, NEW n, NEW u, NEW samples, NEW old, old = Ledger(k, n, u, samples)
  PROVE  IsLedger(old, k, n, u, samples)
  BY DEF Ledger, IsLedger

\* A step of the hash store moves the account of one namespace.
LEMMA RowMoves ==
  ASSUME NEW k, NEW n, NEW m, NEW u, NEW v, NEW samples, NEW sp \in SpacesOf[k],
         \A z \in SpacesOf[k] : z # sp => m[z] = n[z] /\ v[z] = u[z],
         EntryMoves(Entry(k, sp, n[sp], u[sp]), Entry(k, sp, m[sp], v[sp])),
         NEW old, NEW new, old = Ledger(k, n, u, samples), new = Ledger(k, m, v, samples)
  PROVE  old = new \/ Books!Step(old, new)
  <1>0. IsLedger(old, k, n, u, samples) /\ IsLedger(new, k, m, v, samples)
    BY LedgerFields
  <1>1. /\ DOMAIN old = SpacesOf[k] \cup {"samples"} /\ old = [z \in DOMAIN old |-> old[z]]
        /\ \A z \in SpacesOf[k] : old[z] = Entry(k, z, n[z], u[z])
        /\ "samples" \notin SpacesOf[k] => old["samples"] = samples
    BY <1>0, Zenon DEF IsLedger
  <1>2. /\ DOMAIN new = SpacesOf[k] \cup {"samples"} /\ new = [z \in DOMAIN new |-> new[z]]
        /\ \A z \in SpacesOf[k] : new[z] = Entry(k, z, m[z], v[z])
        /\ "samples" \notin SpacesOf[k] => new["samples"] = samples
    BY <1>0, Zenon DEF IsLedger
  <1>3. ASSUME NEW z \in DOMAIN old, z # sp PROVE new[z] = old[z]
    <2>1. CASE z \in SpacesOf[k]
      <3>1. m[z] = n[z] /\ v[z] = u[z]
        BY <1>3, <2>1
      <3> QED BY <1>1, <1>2, <2>1, <3>1
    <2>2. CASE z \notin SpacesOf[k]
      <3>1. z = "samples"
        BY <1>1, <2>2
      <3> QED BY <1>1, <1>2, <2>2, <3>1
    <2> QED BY <2>1, <2>2
  <1>4. EntryMoves(old[sp], new[sp])
    BY <1>1, <1>2
  <1> QED BY <1>1, <1>2, <1>3, <1>4, LedgerStep

LEMMA ReadMoves ==
  ASSUME HashInv, HashInv', setup' = setup, Read, NEW samples, NEW old, NEW new,
         old = Ledger(setup, ns, consumed, samples), new = Ledger(setup, ns', consumed', samples)
  PROVE  old = new \/ Books!Step(old, new)
  <1>1. ns' = ns /\ \E next, off, req, read, cause : req \in 0..run.grant /\ ReadAs(next, off, req, read, cause)
    <2>1. ns' = ns
      BY DEF Read
    <2>2. CASE \E n \in HashedPrefixes(BytesLeft(Sp, run.work)) :
                 ReadAs(IF n = BytesLeft(Sp, run.work) THEN "complete" ELSE "pending",
                        ns[Sp].work[run.work].off + n, n, n, "none")
      <3>1. PICK n \in HashedPrefixes(BytesLeft(Sp, run.work)) :
                 ReadAs(IF n = BytesLeft(Sp, run.work) THEN "complete" ELSE "pending",
                        ns[Sp].work[run.work].off + n, n, n, "none")
        BY <2>2
      <3>2. n \in 0..run.grant
        BY DEF HashedPrefixes
      <3> QED BY <2>1, <3>1, <3>2, Zenon
    <2>3. CASE \E req \in 0..run.grant : \E read \in 0..req :
                 \/ ReadAs("invalidated", ns[Sp].work[run.work].off, req, read, "none")
                 \/ \E cause \in StopCauses :
                      ReadAs("pending", ns[Sp].work[run.work].off, req, read, cause)
      BY <2>1, <2>3, Zenon
    <2> QED BY <2>2, <2>3, Zenon DEF Read
  <1>2. PICK req \in 0..run.grant : consumed' = [consumed EXCEPT ![Sp] = @ + req]
    BY <1>1, Zenon DEF ReadAs
  <1>3. /\ setup \in DOMAIN Setups /\ Sp \in SpacesOf[setup] /\ RowOK(setup, Sp, ns[Sp])
        /\ run.grant \in Nat /\ consumed \in [SpacesOf[setup] -> Nat]
    BY InvParts, SpaceOf DEF NsOK, Runs, UseOK
  <1>4. req \in Nat
    BY <1>2, <1>3
  <1>5. /\ consumed'[Sp] = consumed[Sp] + req /\ consumed[Sp] \in Nat
        /\ \A z \in SpacesOf[setup] : z # Sp => consumed'[z] = consumed[z]
    BY <1>2, <1>3
  <1>6. UseKnown'
    BY UseIs, PTL
  <1>7. consumed'[Sp] <= Booked(ns[Sp]) + Held(setup, Sp, ns[Sp])
    BY <1>1, <1>3, <1>6 DEF UseKnown
  <1>8. PICK k, x, u, v : k = setup /\ x = ns[Sp] /\ u = consumed[Sp] /\ v = consumed'[Sp]
    OBVIOUS
  <1>9. EntryMoves(Entry(k, Sp, x, u), Entry(k, Sp, x, v))
    BY <1>3, <1>4, <1>5, <1>7, <1>8, EntryUsed
  <1> QED BY <1>1, <1>3, <1>5, <1>8, <1>9, RowMoves

LEMMA HashMoves ==
  ASSUME HashInv, HashInv', Next, NEW samples, NEW old, NEW new,
         old = Ledger(setup, ns, consumed, samples), new = Ledger(setup, ns', consumed', samples)
  PROVE  old = new \/ Books!Step(old, new)
  <1>1. Step /\ setup' = setup
    BY DEF Next
  <1>2. CASE Read
    BY <1>1, <1>2, ReadMoves
  <1>3. CASE ~Read
    <2>1. consumed' = consumed
      BY <1>1, <1>3, Zenon DEF Step, OpenWriter, OpenSelectionWriter, OpenFreshRunWriter, Open, Close,
         Crash, ApproveRead, RetryApproval, RevokeRead, StartPlain, StartConsented, StartBudgeted,
         ObserveApproval, Choose, InventoryChanged, GiveUp, ExpireEarly, SaveSeenClock, FinishBudget,
         ReservePlain, Reserve, Settle, LatchExpiry, NoCharge
    <2>2. Evolves(ns, ns')
      BY NextEvolves
    <2>3. PICK sp \in SpacesOf[setup] : /\ OneRow(setup, ns, ns', sp, ns'[sp])
                                        /\ RowGrows(setup, sp, ns[sp], ns'[sp])
      BY <2>2 DEF Evolves
    <2>4. UseKnown'
      BY UseIs, PTL
    <2>5. PICK k, x, y, u : k = setup /\ x = ns[sp] /\ y = ns'[sp] /\ u = consumed[sp]
      OBVIOUS
    <2>6. k \in DOMAIN Setups /\ RowOK(k, sp, x) /\ RowOK(k, sp, y)
      <3>1. NsOK(setup, ns) /\ NsOK(setup, ns') /\ setup \in DOMAIN Setups
        BY <1>1, InvParts DEF HashInv
      <3> QED BY <2>5, <3>1 DEF NsOK
    <2>7. u \in Nat /\ u <= Booked(y) + Held(k, sp, y)
      BY <1>1, <2>1, <2>4, <2>5 DEF UseKnown
    <2>8. HeldMoves(k, sp, x, y)
      BY <2>3, <2>5 DEF RowGrows
    <2>9. EntryMoves(Entry(k, sp, x, u), Entry(k, sp, y, u))
      BY <2>5, <2>6, <2>7, <2>8, EntryStep
    <2>10. \A z \in SpacesOf[setup] : z # sp => ns'[z] = ns[z] /\ consumed'[z] = consumed[z]
      BY <2>1, <2>3 DEF OneRow
    <2> QED BY <2>1, <2>5, <2>9, <2>10, RowMoves
  <1> QED BY <1>2, <1>3

\* A step of the sample store moves its account.
LEMMA SampleMoves ==
  ASSUME NEW k, NEW n, NEW u, NEW s, NEW t, EntryMoves(s, t), NEW old, NEW new,
         old = Ledger(k, n, u, s), new = Ledger(k, n, u, t)
  PROVE  old = new \/ Books!Step(old, new)
  <1>0. IsLedger(old, k, n, u, s) /\ IsLedger(new, k, n, u, t)
    BY LedgerFields
  <1>1. /\ DOMAIN old = SpacesOf[k] \cup {"samples"} /\ old = [z \in DOMAIN old |-> old[z]]
        /\ \A z \in SpacesOf[k] : old[z] = Entry(k, z, n[z], u[z])
        /\ "samples" \notin SpacesOf[k] => old["samples"] = s
    BY <1>0, Zenon DEF IsLedger
  <1>2. /\ DOMAIN new = SpacesOf[k] \cup {"samples"} /\ new = [z \in DOMAIN new |-> new[z]]
        /\ \A z \in SpacesOf[k] : new[z] = Entry(k, z, n[z], u[z])
        /\ "samples" \notin SpacesOf[k] => new["samples"] = t
    BY <1>0, Zenon DEF IsLedger
  <1>3. CASE "samples" \in SpacesOf[k]
    <2>1. \A z \in DOMAIN old : old[z] = new[z]
      BY <1>1, <1>2, <1>3
    <2> QED BY <1>1, <1>2, <2>1
  <1>4. CASE "samples" \notin SpacesOf[k]
    <2>1. \A z \in DOMAIN old : z # "samples" => new[z] = old[z]
      BY <1>1, <1>2
    <2>2. EntryMoves(old["samples"], new["samples"]) /\ "samples" \in DOMAIN old
      BY <1>1, <1>2, <1>4
    <2> QED BY <1>1, <1>2, <2>1, <2>2, LedgerStep
  <1> QED BY <1>3, <1>4

LEMMA SampleEntry ==
  ASSUME SampleInv, SampleInv', SampleNext
  PROVE  EntryMoves(SampleAccount, SampleAccount')
  <1>1. \/ SampleAccount' = SampleAccount
        \/ SampleBooks!Reserve(SampleAccount, SampleAccount')
        \/ SampleBooks!Use(SampleAccount, SampleAccount')
        \/ SampleBooks!Settle(SampleAccount, SampleAccount')
    BY AccountStep
  <1> QED BY <1>1 DEF EntryMoves, Books!Reserve, Books!Use, Books!Settle, Books!Covered,
          SampleBooks!Reserve, SampleBooks!Use, SampleBooks!Settle, SampleBooks!Covered

LEMMA LedgerMoves ==
  ASSUME HashInv, HashInv', SampleInv, SampleInv', [ContentNext]_contentVars
  PROVE  BooksLedger' = BooksLedger \/ Books!Step(BooksLedger, BooksLedger')
  <1>1. LedgerKnown /\ LedgerKnown'
    BY LedgerIs, PTL
  <1>2. PICK s, t, old, new :
          /\ s = SampleAccount /\ t = SampleAccount' /\ old = BooksLedger /\ new = BooksLedger'
          /\ old = Ledger(setup, ns, consumed, s) /\ new = Ledger(setup', ns', consumed', t)
    BY <1>1 DEF LedgerKnown
  <1>3. CASE ReadingStep /\ UNCHANGED sampleVars
    <2>1. Next /\ setup' = setup /\ t = s
      BY <1>2, <1>3 DEF ReadingStep, Next, sampleVars, SampleAccount
    <2>2. new = Ledger(setup, ns', consumed', s)
      BY <1>2, <2>1
    <2>3. old = new \/ Books!Step(old, new)
      BY <1>2, <2>1, <2>2, HashMoves
    <2> QED BY <1>2, <2>3
  <1>4. CASE PubNext /\ ~ReadingStep /\ UNCHANGED sampleVars
    <2>1. setup' = setup /\ ns' = ns /\ consumed' = consumed
      BY <1>4, PublishingFrame DEF PubNext
    <2>2. t = s
      BY <1>2, <1>4 DEF sampleVars, SampleAccount
    <2> QED BY <1>2, <2>1, <2>2
  <1>5. CASE SampleNext /\ UNCHANGED allVars
    <2>1. setup' = setup /\ ns' = ns /\ consumed' = consumed
      BY <1>5 DEF allVars, vars
    <2>2. EntryMoves(s, t)
      BY <1>2, <1>5, SampleEntry
    <2>3. new = Ledger(setup, ns, consumed, t)
      BY <1>2, <2>1
    <2>4. old = new \/ Books!Step(old, new)
      BY <1>2, <2>2, <2>3, SampleMoves
    <2> QED BY <1>2, <2>4
  <1>6. CASE UNCHANGED contentVars
    <2>1. setup' = setup /\ ns' = ns /\ consumed' = consumed /\ t = s
      BY <1>2, <1>6 DEF contentVars, allVars, vars, sampleVars, SampleAccount
    <2> QED BY <1>2, <2>1
  <1> QED BY <1>3, <1>4, <1>5, <1>6 DEF ContentNext

LEMMA LedgerBegins ==
  ASSUME ContentInit
  PROVE  \A a \in DOMAIN BooksLedger :
           BooksLedger[a].held = 0 /\ BooksLedger[a].used <= BooksLedger[a].booked + BooksLedger[a].held
  <1>1. HashInv /\ Init
    BY InitInv DEF ContentInit, PubInit
  <1>2. PICK s, old : s = SampleAccount /\ old = BooksLedger /\ old = Ledger(setup, ns, consumed, s)
    BY <1>1, LedgerIs DEF LedgerKnown
  <1>3. IsLedger(old, setup, ns, consumed, s)
    BY <1>2, LedgerFields
  <1>4. ASSUME NEW sp \in SpacesOf[setup]
        PROVE  old[sp].held = 0 /\ old[sp].used <= old[sp].booked + old[sp].held
    <2>1. RowOK(setup, sp, ns[sp]) /\ setup \in DOMAIN Setups /\ UseKnown
      BY <1>1, InvParts, UseIs DEF NsOK
    <2>2. \A w \in WorksIn(setup, sp) : ns[sp].work[w].status # "running"
      <3>1. FirstOf(sp, ns[sp]) /\ WorksOf(sp) = WorksIn(setup, sp)
        BY <1>1, InitRows, SpaceOf
      <3>2. NewWork.status = "pending" /\ \A w : DoneWork(w).status = "complete"
        BY DEF NewWork, DoneWork
      <3> QED BY <3>1, <3>2 DEF FirstOf
    <2>3. Held(setup, sp, ns[sp]) = 0
      BY <2>1, <2>2, HeldFacts
    <2>4. old[sp] = Entry(setup, sp, ns[sp], consumed[sp])
      BY <1>3 DEF IsLedger
    <2>5. /\ old[sp].held = Held(setup, sp, ns[sp]) /\ old[sp].booked = Booked(ns[sp])
          /\ old[sp].used = consumed[sp]
      BY <2>4 DEF Entry
    <2> QED BY <2>1, <2>3, <2>5 DEF UseKnown
  <1>5. s.held = 0 /\ s.used <= s.booked + s.held
    <2>1. SampleInv /\ attempt.status = "none" /\ used.bytes = 0
      BY SampleInitInv, NoSampleFacts DEF ContentInit, SampleInit
    <2> QED BY <1>2, <2>1, AccountFields, SampleStoreAssumption DEF AccountKnown
  <1>6. ASSUME NEW a \in DOMAIN old
        PROVE  old[a].held = 0 /\ old[a].used <= old[a].booked + old[a].held
    <2>1. CASE a \in SpacesOf[setup]
      BY <1>4, <2>1
    <2>2. CASE a \notin SpacesOf[setup]
      <3>1. a = "samples" /\ old[a] = s
        BY <1>3, <2>2 DEF IsLedger
      <3> QED BY <1>5, <3>1
    <2> QED BY <2>1, <2>2
  <1> QED BY <1>2, <1>6

\* The saved books of every namespace of the hash store and of the sample store are
\* an account of reads paid for beforehand: bytes are reserved before any is
\* requested, a settlement, a recovery or an uncertain commit books at least what
\* was requested, and nothing booked is given back, for every store, limit and clock
\* (recoverHashWork, settleHashAttempt, settleFreshHashAttempt, recoverSamples).
THEOREM ContentPrecharged == ContentSpec => ReadsPrecharged
  <1>1. ContentInit => Books!Init
    <2> SUFFICES ASSUME ContentInit PROVE Books!Init
      OBVIOUS
    <2> QED BY LedgerBegins DEF Books!Init, Books!Covered, BooksLedger, SampleAccount
  <1>2. HashInv /\ HashInv' /\ SampleInv /\ SampleInv' /\ [ContentNext]_contentVars
          => [Books!Next]_BooksLedger
    <2> SUFFICES ASSUME HashInv, HashInv', SampleInv, SampleInv', [ContentNext]_contentVars
                 PROVE  [Books!Next]_BooksLedger
      OBVIOUS
    <2>1. CASE BooksLedger' = BooksLedger
      BY <2>1
    <2>2. CASE Books!Step(BooksLedger, BooksLedger')
      BY <2>2 DEF Books!Next, BooksLedger, SampleAccount
    <2> QED BY <2>1, <2>2, LedgerMoves
  <1>3. ContentInit => SampleInv
    BY SampleInitInv DEF ContentInit
  <1>4. SampleInv /\ [ContentNext]_contentVars => SampleInv'
    BY SampleStep DEF ContentNext, contentVars
  <1> QED
    BY <1>1, <1>2, <1>3, <1>4, HashInvariant, PTL
    DEF ContentSpec, ReadsPrecharged, Books!Spec, BooksLedger, SampleAccount
=============================================================================
