CONSTANTS
    Requests = {r1, r2, r3}
    Emails = {e1, e2}
    LabelSets = {l1, l2}
    FilterIDs = {f1}
    Callers = {c1, c2, c3}
    NoRow = NoRow
    NoGrant = NoGrant
    NoRequest = NoRequest
    NoFilter = NoFilter
    NoCaller = NoCaller
SPECIFICATION Spec
SYMMETRY Symmetry
INVARIANTS TypeOK GrantsFollowApprovals DecisionsReadCurrentRows GrantComesFirst
PROPERTIES DecisionIsFinal FilterBindingKept RefinesLifecycle
CHECK_DEADLOCK FALSE
