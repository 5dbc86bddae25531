SPECIFICATION StoreSpec
SYMMETRY IdentitySymmetry
CONSTANTS
    Ids = {1, 2}
    Threads = {"t1", "t2"}
    Envelopes <- MCEnvelopes
    Bodies = {b1}
    Identities = {ana, bob}
    Times <- MCTimes
    MAX = 2
    None = None
PROPERTY KeepsContract
