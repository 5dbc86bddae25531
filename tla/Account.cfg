SPECIFICATION Spec
CONSTANTS
    Procs = {p1, p2}
    Accounts = {a1, a2, a3}
    Subjects = {s1, s2}
    None = None
    MaxAccounts = 2
SYMMETRY LifecycleSymmetry
INVARIANTS RegistryMatchesData RemovedIsGone
