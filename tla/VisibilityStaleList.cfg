CONSTANTS
    Senders = {1, 2, 3}
    MaxTerms = 2
    MaxLength = 1000
    TermLength <- Lengths
    FilterIDs = {1, 2, 3, 4, 5}
    Reconcilers = {p, q}
    MaxByHand = 0
SPECIFICATION LeastSpec
INVARIANTS ReconcileCovers
CHECK_DEADLOCK FALSE
