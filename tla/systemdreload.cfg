CONSTANTS
    Parts = {"service"}
    Setups <- UnreliableSetups
    MaxSpec = 2
    Callers = {c1}
    MaxFaults = 0
    MaxDrifts = 0
    Accounts = {1}
    MaxID = 2
    MaxDarwinFaults = 0
SPECIFICATION MCSpec
INVARIANT RestartToldAfterFailure
