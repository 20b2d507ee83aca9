SPECIFICATION FairSpec
CONSTANTS
    Ops = {o1}
    N = 3
    Need = 2
    MaxComm = 3
    Offered = {"reshare", "promote", "recrypt", "repair", "delete", "backup", "restore"}
    Faulty = TRUE
    Idle = Idle
    NoFile = NoFile
INVARIANTS
    OneWholeCommittee
    NeverMixedNorOrphaned
    RemoteInStep
    RowsWereUploaded
PROPERTY
    OperationsEnd
