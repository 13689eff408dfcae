SPECIFICATION FairSpec
CONSTANTS
    a = a  b = b  vetoed = vetoed  anonymous = anonymous  bad = bad  shared = shared
    Daemons = {d1}
    Clients = {c1}
    Handlers = {h1, h2}
    Files = {a, b, vetoed, anonymous, bad}
    Malformed = {bad}
    Blocked = {vetoed}
    Ids = {shared, g1}
    IdOf <- Ids0
    MaxReply = 1
    NoDaemon = NoDaemon  NoClient = NoClient  NoFile = NoFile
    NoId = NoId  NoRow = NoRow
INVARIANTS TypeOK AnswersAreTrue DecidedAsSeen
PROPERTIES PendingIsDecided CalmSubmissionsSettle
