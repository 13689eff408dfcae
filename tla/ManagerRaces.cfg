CONSTANTS
    r1 = r1
    r2 = r2
    r3 = r3
    Requests = {r1, r2, r3}
    Emails = {1, 2}
    Labels = {"visible", "money", "travel", "private"}
    Visibility = "visible"
    Allowed = {"money", "travel"}
    EmailOf <- TwoSenders
    LabelsOf <- TwoSendersLabels
    ActionOf <- UpdatesFollow
    SendersFit = TRUE
    GmailAtStart = TRUE
    KnownAtStart = {"visible", "money", "travel", "private"}
    Messages = {m1}
    Processes = {p, q}
    NoRow = NoRow
    NoRequest = NoRequest
    NoMail = NoMail
SPECIFICATION Spec
SYMMETRY Symmetry
INVARIANTS TypeOK CurrentGrantEnforced OnlyApprovedLabels
