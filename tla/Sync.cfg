SPECIFICATION Spec
CONSTANTS
    Accounts = {acct}
    Calls = {c1, c2}
    Ids = {m1, m2, m3}
    Versions = {v1, v2}
    Tokens = {t1, t2}
    NoToken = NoToken
    PageSize = 2
    MaxPages = 2
    KeepLimit = 2
    BodyLimit = 1
INVARIANTS SingleFlight WholeUnlessTruncated CountsAddUp
