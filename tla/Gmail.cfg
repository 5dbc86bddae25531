SPECIFICATION Spec
CONSTANTS
    ThisClient = ThisClient
    OtherClient = OtherClient
    Subjects = {ana, bob}
    None = None
    Malformed = Malformed
    Skew = 1
    MaxSecond = 4
    Ids = {m1, m2, dots}
    PathIds = {dots}
    Threads = {t1, t2}
    NotAnId = NotAnId
    Slots = {s1, s2}
    MaxPage = 2
    JSON_LIMIT = 2
    RAW_JSON_LIMIT = 4
    MaxContent = 2
SYMMETRY SubjectSymmetry
INVARIANTS SubjectIsOwner ResultsAreWhole ErrorsSayWhatIsStored StrandedIsRevoked
