------------------------- MODULE MCPlanObservation -------------------------
\* One target under every live check while other programs interfere, then the
\* journal of the captured plan: two findings, one quarantine slot and a clock
\* that may be set back while requests arrive in any order.
EXTENDS PlanObservation, TLC

MCTimes == 1..2
MCSizes == {0, 1, 3, 5, 7, 8}
MCMaxChanges == [m \in Modes |-> IF m = "recovery" THEN 3 ELSE 2]
MCReplacements ==
    {<<n, NaturalKind(n)>> : n \in {"project", "target", "lock", "hint", "pkg", "entry", "link"}}
    \cup {<<n, "other">> : n \in {"lock", "slot"}}
MCRemovals == {"lock", "entry", "link", "slot"}

KeySymmetry == Permutations(IntentKeys) \cup Permutations(EventKeys)
=============================================================================
