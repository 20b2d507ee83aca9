SPECIFICATION Spec
CONSTANTS
    Ops = {o1, o2}
    Ids = {i1}
    Policies = {"eachUse", "timed", "untilLocked"}
    Offered = {"create", "use", "unlock", "change", "load", "delete", "lock", "lockAll"}
    Idle = Idle
INVARIANTS
    SecureRowHasKey
    EntrySurvives
    LockedStaysLocked
