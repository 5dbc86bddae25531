SPECIFICATION Spec
CONSTANTS
    Procs = {p1}
    Accounts = {a1, a2}
    Subjects = {s1}
    None = None
    MaxAccounts = 1
INVARIANTS RemovalCanBeRetried
