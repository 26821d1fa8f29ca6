SPECIFICATION MCSpec
CONSTANTS
    Configs <- MCConfigs
    Requests <- MCRequests
    ForeignCSRs <- MCForeignCSRs
    SignOptions <- MCSignOptions
    Cert <- MCCert
    KeyFiles <- MCKeyFiles
    Held <- MCHeld
    Arguments = {empty, a, b}
    Unusable = empty
    MaxOptions = 2
    Passphrases = {"", "p", "q"}
    MaxLoad = 3
    MaxAdd = 1
    Requesters <- MCRequesters
    Earlier <- MCEarlier
    complete = complete
    partial = partial
    request = request
    MaxFaults = 1
    i1 = i1
    i2 = i2
    m1 = m1
INVARIANTS
    TypesOK
    PolicyExact
    OptionsIndependent
PROPERTIES
    BundlesFit
    FilesWhole
    FilesRetrySucceeds
    RotationInTime
