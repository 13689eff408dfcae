CONSTANTS
    Senders = {1, 2}
    MaxTerms = 2
    MaxLength = 1000
    TermLength <- Lengths
    FilterIDs = {1, 2, 3, 4, 5, 6, 7, 8}
    Reconcilers = {p, q}
    MaxByHand = 1
SPECIFICATION LeastSpec
INVARIANTS TypeOK NoOverreach
PROPERTIES RefinesCoverage HandMadeKept RacesSettle
CHECK_DEADLOCK FALSE
