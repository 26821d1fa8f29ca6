SPECIFICATION ConsoleSpec
CONSTANTS
    MaxQueued = 2
    MaxLoggers = 3
    Programs <- MCPrograms
    p = p
    q = q
    NoOne = NoOne
    ErrorKinds = {"NotFound", "Timeout"}
    DomainKinds = {"NotFound", "undeclared"}
    MaxErrors = 4
    MaxJoined = 2
INVARIANTS
    TypesOK
    ErrorKindsFound
PROPERTIES
    RecordsArrive
    MessagesWhole
