SPECIFICATION FairSpec
CONSTANTS
    Subjects = {ana, bob}
    Cycles = {c1, c2}
    Ids = {1, 2}
    NoIdentity = NoIdentity
    MaxAttempts = 3
    KeepLimit = 1
    BodyLimit = 1
INVARIANTS WithinKeepLimit ExhaustedOnlyByRaces
PROPERTIES CachedMailPreserved ReadSticks RefinesOwnership CycleEnds
