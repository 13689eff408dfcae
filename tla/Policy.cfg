SPECIFICATION Spec
CONSTANTS
    Ids = {r1, r2, r3}
    Asks <- TheAsks
    Configs <- TheConfigs
    Sample <- TheSample
    DefaultLabel <- Donna
    Blank = Blank
    Misread <- TheMisread
    NoFile = NoFile  NoConfig = NoConfig  NoRow = NoRow  NoGrant = NoGrant
    NoChannel = NoChannel  DirectMessage = DirectMessage
SYMMETRY Symmetry
INVARIANTS TypeOK NothingDropped GrantsAsVetted LookupFindsMailbox InfoIsHonoured
