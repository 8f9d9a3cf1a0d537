CONSTANTS
    Plans = {p1, p2, p3}
    LegacyStores = {{p2}, {p1, p2, p3}}
    Requests = {d1, d2}
    PlanLimit = 2
    DismissalLimit = 1
    OldVersions <- MCVersions
    Reviewed = p1
    Reviewers = {r1, r2}
    ReviewLifetime = 1
    ReviewTimes <- MCTimes
    MaxRescans = 1
    NoRow = NoRow
SYMMETRY ReviewSymmetry
SPECIFICATION ReviewSpec
INVARIANTS
    AnswersTrue
    ConsentOnMatch
PROPERTIES
    ConsentGivenOnce
