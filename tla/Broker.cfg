SPECIFICATION FairSpec
CONSTANTS
    Subjects = {ana, bob}
    Calls = {c1, c2}
    Serials = {k1, k2}
    NoToken = NoToken
    MaxPermits = 2
INVARIANTS OneMutationPerSubject StrandedSparesStored OutcomeIsStored ConfirmedIsGone
PROPERTIES PermitReleased
