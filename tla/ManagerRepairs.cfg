CONSTANTS
    r1 = r1
    r2 = r2
    r3 = r3
    Requests = {r1, r2, r3}
    Emails = {1}
    Labels = {"visible", "money", "travel", "private"}
    Visibility = "visible"
    Allowed = {"money", "travel"}
    EmailOf <- OneSender
    LabelsOf <- OneSenderLabels
    ActionOf <- UpdatesFollow
    SendersFit = TRUE
    GmailAtStart = FALSE
    KnownAtStart = {"visible", "money", "private"}
    Messages = {}
    Processes = {p, q}
    NoRow = NoRow
    NoRequest = NoRequest
    NoMail = NoMail
SPECIFICATION Spec
PROPERTIES CalmAppliesCurrentGrant RefinesLifecycle RefinesCoverage
