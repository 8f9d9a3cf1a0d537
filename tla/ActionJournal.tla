--------------------------- MODULE ActionJournal ---------------------------
(***************************************************************************)
(* The observation and the action journal of one saved plan                *)
(* (internal/plans: observation.go, journal.go).                            *)
(*                                                                          *)
(* A plan selects some findings.  One immutable observation may be captured *)
(* for it; after that, callers prepare intents (move a finding into         *)
(* quarantine, or restore it from there) and append the events of each      *)
(* attempt.  Nothing is ever updated or deleted.                             *)
(*                                                                          *)
(* Every operation is one transaction under the store's writer lock, and    *)
(* every request is supplied by a caller that may be late, may repeat       *)
(* itself or may reuse a key, so the actions take an arbitrary request.     *)
(* Each time.Now() of an operation is a value of its own out of Times: the  *)
(* wall clock of the host may be set forwards and backwards at any moment.   *)
(* A refused or rolled back request changes nothing and is not a step.       *)
(***************************************************************************)
EXTENDS Integers, Sequences, FiniteSets

CONSTANTS
    Findings,      \* the findings the plan selects; also names their paths and objects
    Slots,         \* paths outside the plan that a quarantine may name
    Strangers,     \* filesystem objects the plan does not know
    Evidence,      \* what an inspection of the targets can report
    IntentKeys,    \* request keys of preparations
    EventKeys,     \* request keys of events
    Times,         \* readings of the wall clock
    PlanCreated,   \* Record.CreatedAt of the saved plan
    EventLimit,    \* JournalEventLimit
    None

ASSUME TimesAssumption == Times \subseteq Int /\ PlanCreated \in Int
ASSUME LimitAssumption == EventLimit \in Nat
ASSUME NamesAssumption ==
    /\ None \notin IntentKeys \cup EventKeys
    /\ IntentKeys \cap EventKeys = {}

VARIABLES
    observation,   \* observations: None, or what was captured and when
    intents,       \* journal_intents: request key -> record, or None
    history        \* journal_events of each intent, in sequence order

vars == <<observation, intents, history>>

-----------------------------------------------------------------------------
(* Requests and records. *)

Paths == Findings \cup Slots

\* JournalIdentity: node stands for device, inode and generation, ctime for
\* the change time, the only part a rename alters.
Identities == [node: Findings \cup Strangers, ctime: 0..1]

\* journalIdentity(target): the identity the plan saved for a finding.
Target(f) == [node |-> f, ctime |-> 0]

PreparationRequests ==
    [key: IntentKeys, kind: {"quarantine", "restore"}, finding: Findings,
     original: IntentKeys \cup {None}, source: Paths, destination: Paths,
     object: Identities]

\* validatePreparation.  A finding's path is the one ending in node_modules.
ValidPreparation(q) ==
    /\ q.source # q.destination
    /\ \/ /\ q.kind = "quarantine"
          /\ q.original = None
          /\ q.source \in Findings
       \/ /\ q.kind = "restore"
          /\ q.original # None
          /\ q.destination \in Findings

Intents == [request: PreparationRequests, created: Times]

EventRequests ==
    [key: EventKeys, sequence: 1..EventLimit,
     predecessor: IntentKeys \cup EventKeys,
     kind: {"attempt", "result", "reconciliation"},
     outcome: {"not_observed", "at_source", "at_destination", "conflict",
               "unknown"},
     object: Identities \cup {None}]

\* The kinds and outcomes validateEventRequest accepts together: an attempt
\* has no outcome yet, and only an outcome that places the object names it.
ValidReport(r) ==
    \/ /\ r.kind = "attempt"
       /\ r.outcome = "not_observed"
       /\ r.object = None
    \/ /\ r.kind # "attempt"
       /\ \/ r.outcome \in {"at_source", "at_destination"} /\ r.object # None
          \/ r.outcome \in {"conflict", "unknown"} /\ r.object = None

\* validateEventRequest
ValidEvent(e) == e.sequence <= EventLimit /\ ValidReport(e)

Events == [request: EventRequests, created: Times]

-----------------------------------------------------------------------------
(* Reading the saved history. *)

Saved(k) == intents[k] # None

\* The State a chain of events leads to.
StateOf(chain) ==
    IF chain = <<>> THEN "prepared"
    ELSE LET last == chain[Len(chain)].request
         IN IF last.kind = "attempt" THEN "unknown" ELSE last.outcome

\* validateNextEvent: e may follow chain in the history of intent k.
NextEvent(k, chain, e) ==
    /\ ValidEvent(e)
    /\ e.sequence = Len(chain) + 1
    /\ e.predecessor =
          IF chain = <<>> THEN k ELSE chain[Len(chain)].request.key
    /\ IF e.kind = "attempt"
       THEN chain = <<>>
       ELSE /\ chain # <<>>
            /\ e.kind = "result" => chain[Len(chain)].request.kind = "attempt"
            /\ e.kind = "reconciliation" =>
                  StateOf(chain) \in {"unknown", "conflict"}
            /\ e.object # None =>
                  e.object.node = intents[k].request.object.node

\* The loop of loadJournalAtDepth over the saved events: each follows the ones
\* before it, and times run from the intent's to now.
ChainLoads(k, now) ==
    \A n \in 1..Len(history[k]) :
        /\ NextEvent(k, SubSeq(history[k], 1, n - 1), history[k][n].request)
        /\ history[k][n].created <= now
        /\ history[k][n].created >=
              IF n = 1 THEN intents[k].created ELSE history[k][n - 1].created

\* loadObservation
ObservationLoads(now) ==
    /\ observation # None
    /\ observation.at <= now
    /\ observation.at >= PlanCreated

\* validateJournalBinding of a quarantine.
QuarantineBound(r) ==
    /\ r.created >= observation.at
    /\ r.request.source = r.request.finding
    /\ r.request.object = Target(r.request.finding)

\* loadJournalAtDepth at depth 1: the preserved original of a restore.
OriginalLoads(k, now) ==
    /\ k \in IntentKeys /\ Saved(k)
    /\ intents[k].request.kind = "quarantine"
    /\ ValidPreparation(intents[k].request)
    /\ intents[k].created <= now
    /\ ObservationLoads(now)
    /\ QuarantineBound(intents[k])
    /\ ChainLoads(k, now)

\* Mutant: a restore does not wait for the original to be at its destination.
RestoreBoundToAnyOutcome(r, now) ==
    LET q == r.request
    IN /\ r.created >= observation.at
       /\ OriginalLoads(q.original, now)
       /\ history[q.original] # <<>>
       /\ LET o     == intents[q.original].request
              chain == history[q.original]
          IN /\ q.finding = o.finding
             /\ q.source = o.destination
             /\ q.destination = o.source
             /\ chain[Len(chain)].request.object \in {None, q.object}
             /\ q.object.node = o.object.node

\* validateJournalBinding of a restore: it reverses an original whose last
\* event put the same object at the destination.
RestoreBound(r, now) ==
    LET q == r.request
    IN /\ r.created >= observation.at
       /\ OriginalLoads(q.original, now)
       /\ LET o     == intents[q.original].request
              chain == history[q.original]
          IN /\ q.finding = o.finding
             /\ StateOf(chain) = "at_destination"
             /\ q.source = o.destination
             /\ q.destination = o.source
             /\ q.object = chain[Len(chain)].request.object
             /\ q.object.node = o.object.node

\* validateJournalBinding
Bound(r, now) ==
    IF r.request.kind = "quarantine" THEN QuarantineBound(r) ELSE RestoreBound(r, now)

\* loadJournal
Loads(k, now) ==
    /\ Saved(k)
    /\ ValidPreparation(intents[k].request)
    /\ intents[k].created <= now
    /\ ObservationLoads(now)
    /\ Bound(intents[k], now)
    /\ ChainLoads(k, now)

-----------------------------------------------------------------------------
Init ==
    /\ observation = None
    /\ intents = [k \in IntentKeys |-> None]
    /\ history = [k \in IntentKeys |-> <<>>]

\* Capture of a report: the first one that is neither older than the plan nor
\* from the future is kept.  A later matching one returns the kept record and
\* a differing one is refused.
Capture(e, checked) ==
    /\ checked >= PlanCreated
    /\ \E now \in Times : checked <= now
    /\ observation = None
    /\ observation' = [at |-> checked, evidence |-> e]
    /\ UNCHANGED <<intents, history>>

\* Mutant: only the request key is looked up before a preparation is inserted.
FreeKeyOnly(q) == ~Saved(q.key)

\* The request key, the target of this kind and the original are all unused.
FreeToPrepare(q) ==
    /\ ~Saved(q.key)
    /\ \A k \in IntentKeys :
          Saved(k) =>
             /\ <<intents[k].request.finding, intents[k].request.kind>>
                   # <<q.finding, q.kind>>
             /\ q.kind = "restore" /\ intents[k].request.kind = "restore" =>
                   intents[k].request.original # q.original

\* loadJournal of the new rows inside the transaction, before it commits.
PreparationVerified(q, now) == Loads(q.key, now)'

\* PrepareJournal.  A repetition of a saved request returns its snapshot, a
\* different request under a used key or target is refused.
PrepareJournal(q) ==
    /\ ValidPreparation(q)
    /\ FreeToPrepare(q)
    /\ \E created \in Times :
          /\ ObservationLoads(created)
          /\ \E bound \in Times : Bound([request |-> q, created |-> created], bound)
          /\ intents' = [intents EXCEPT ![q.key] = [request |-> q, created |-> created]]
    /\ UNCHANGED <<observation, history>>
    /\ \E now \in Times : PreparationVerified(q, now)

\* No event of any intent was saved under this request key.
EventKeyFree(key) ==
    \A k \in IntentKeys : \A n \in 1..Len(history[k]) :
        history[k][n].request.key # key

\* Mutant: the new event is committed without loading the chain it ends.
AppendUnverified(k, now) == TRUE

\* loadJournal of the appended chain inside the transaction.
AppendVerified(k, now) == Loads(k, now)'

\* AppendJournalEvent.  A repetition of a saved event returns the snapshot; a
\* used key with another body or intent is refused.
AppendJournalEvent(k, e) ==
    /\ Saved(k)
    /\ EventKeyFree(e.key)
    /\ NextEvent(k, history[k], e)
    /\ \E loaded \in Times : Loads(k, loaded)
    /\ \E created \in Times :
          history' = [history EXCEPT ![k] = Append(@, [request |-> e, created |-> created])]
    /\ UNCHANGED <<observation, intents>>
    /\ \E now \in Times : AppendVerified(k, now)

\* What the caller of an append observed, or failed to observe.
Reports ==
    {r \in [kind: {"attempt", "result", "reconciliation"},
            outcome: {"not_observed", "at_source", "at_destination",
                      "conflict", "unknown"},
            object: Identities \cup {None}] : ValidReport(r)}

\* The request of a caller that last read n events of intent k: it is late if
\* other events were appended since.
EventAfter(k, n, key, r) ==
    [key |-> key, sequence |-> n + 1,
     predecessor |-> IF n = 0 THEN k ELSE history[k][n].request.key,
     kind |-> r.kind, outcome |-> r.outcome, object |-> r.object]

ValidPreparations == {q \in PreparationRequests : ValidPreparation(q)}

Next ==
    \/ \E e \in Evidence, checked \in Times : Capture(e, checked)
    \/ \E q \in ValidPreparations : PrepareJournal(q)
    \/ \E k \in IntentKeys : \E n \in 0..Len(history[k]) :
          \E key \in EventKeys, r \in Reports :
             AppendJournalEvent(k, EventAfter(k, n, key, r))

Spec == Init /\ [][Next]_vars

-----------------------------------------------------------------------------
(* Properties. *)

\* The saved records have their types, and every chain respects the limit.
TypeOK ==
    /\ observation \in [at: Times, evidence: Evidence] \cup {None}
    /\ intents \in [IntentKeys -> Intents \cup {None}]
    /\ history \in [IntentKeys -> Seq(Events)]
    /\ \A k \in IntentKeys : Len(history[k]) <= EventLimit

\* PrepareJournal and AppendJournalEvent: the records are typed, chains keep to
\* the limit, and whatever was committed can be read
\* again from the latest of the committed times on.  No order of requests and
\* no jump of the clock can leave a chain that loadJournal rejects for good.
HistoryReadable ==
  /\ TypeOK
  /\ \A now \in Times :
        (\A k \in IntentKeys : Saved(k) =>
            /\ intents[k].created <= now
            /\ \A n \in 1..Len(history[k]) : history[k][n].created <= now)
        => \A k \in IntentKeys : Saved(k) => Loads(k, now)

\* validateJournalBinding: a saved restore always reverses a quarantine of the
\* same finding that is recorded at its destination, and names the object the
\* quarantine last saw there; later events of either intent cannot undo this.
RestoreStaysBound ==
    \A k \in IntentKeys :
        Saved(k) /\ intents[k].request.kind = "restore" =>
            LET q == intents[k].request
            IN /\ q.original \in IntentKeys /\ Saved(q.original)
               /\ LET o == intents[q.original].request
                  IN /\ o.kind = "quarantine"
                     /\ o.finding = q.finding
                     /\ StateOf(history[q.original]) = "at_destination"
                     /\ q.source = o.destination /\ q.destination = o.source
                     /\ q.object.node = Target(q.finding).node

\* AppendJournalEvent: at most one attempt is ever recorded to move a finding
\* in one direction, whatever keys, callers and repetitions there are.
OneAttempt ==
    \A f \in Findings, kind \in {"quarantine", "restore"} :
        Cardinality({a \in IntentKeys \X (1..EventLimit) :
            /\ Saved(a[1]) /\ a[2] <= Len(history[a[1]])
            /\ intents[a[1]].request.finding = f
            /\ intents[a[1]].request.kind = kind
            /\ history[a[1]][a[2]].request.kind = "attempt"}) <= 1
=============================================================================
