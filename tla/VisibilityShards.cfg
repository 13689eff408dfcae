CONSTANTS
    Senders = {1, 2, 3}
    MaxTerms = 2
    MaxLength = 60
    TermLength <- Lengths
    FilterIDs = {1, 2, 3, 4, 5, 6, 7, 8}
    Reconcilers = {p}
    MaxByHand = 1
SPECIFICATION LeastFairSpec
INVARIANTS PlansFit ReconcileCovers
PROPERTIES CoverageNeverLost Convergence
CHECK_DEADLOCK FALSE
