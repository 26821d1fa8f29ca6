CONSTANTS
    Parts = {"service", "linux", "darwin"}
    Setups <- MCSetups
    MaxSpec = 2
    Callers = {c1, c2}
    MaxFaults = 3
    MaxDrifts = 2
    Accounts = {1, 2}
    MaxID = 4
    MaxDarwinFaults = 1
SPECIFICATION MCSpec
INVARIANTS
    TypesOK
    DirsReconciled
    ManagerFollows
PROPERTIES
    RemovesOnlyAsked
    AccountsTruthful
    AccountsConverge
