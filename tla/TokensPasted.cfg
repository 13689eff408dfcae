SPECIFICATION Spec
CONSTANTS
    Tokens = {t1, t2, t3, t4}
    Sources = {s1, s2}
    Accounts = {right, wrong}
    Account = right
    NoToken = NoToken
    NoURL = NoURL
INVARIANT PastedURLAccepted
