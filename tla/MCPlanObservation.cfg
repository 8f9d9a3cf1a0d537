CONSTANTS
    Findings = {f1, f2}
    Slots = {slot}
    Strangers = {}
    Evidence = {clean}
    IntentKeys = {i1, i2}
    EventKeys = {e1, e2, e3, e4}
    Times <- MCTimes
    PlanCreated = 1
    EventLimit = 3
    None = None
    Modes = {"verify", "inspect", "tree", "sample", "recovery"}
    Sizes <- MCSizes
    Window = 2
    Replacements <- MCReplacements
    Removals <- MCRemovals
    MaxChanges <- MCMaxChanges
SYMMETRY KeySymmetry
SPECIFICATION LiveSpec
CHECK_DEADLOCK FALSE
INVARIANTS
    HistoryReadable
    RestoreStaysBound
    OneAttempt
    OneInstant
    MovedObjectFound
    SampledOnce
