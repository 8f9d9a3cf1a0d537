---------------------------- MODULE MCPlanReview ----------------------------
\* A store with room for one plan or none, that an older release left with one
\* of three schemas, one dismissal fewer than is asked for, and two processes
\* that review a plan while the inventory changes under them.
EXTENDS PlanReview, TLC

MCVersions == {1, 3, 5}
MCTimes == 1..2

ReviewSymmetry == Permutations(Requests) \cup Permutations(Reviewers)
=============================================================================
