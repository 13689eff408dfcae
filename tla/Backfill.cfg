SPECIFICATION Spec
CONSTANTS
    PageSize = 2
    BatchLimit = 3
    OldMail = 5
    MaxMail = 6
INVARIANTS TypeOK ReportIsTrue
PROPERTIES LabelsOldMail CalmLabelsAll
