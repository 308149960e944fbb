SPECIFICATION Spec
CONSTANTS
    Calls = {c1, c2}
    Accounts = {a}
    NoAccount = NoAccount
    MaxFailures = 0
INVARIANT VersionControlled
CHECK_DEADLOCK FALSE
