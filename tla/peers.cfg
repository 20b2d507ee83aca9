SPECIFICATION MCSpec
CONSTANTS
    Workers = {w1, w2}
    Requests = {x1, x2}
    Signers = {a1, a2}
    MaxScans = 2
    Nothing = Nothing
    Locals = {x1, x2}
    Remote = w
    Rounds = 2
    Spot = spot
    Naught = Naught
    Codes = {x1, x2}
    Devices = {w1, w2}
    Hosts = {w1, w2}
    MaxSays = 2
    Absent = Absent
    Clients = {w1, w2}
    Pairings = {u1}
    Proposals = {x1, x2}
    MaxStarts = 2
    Nobody = Nobody
CHECK_DEADLOCK FALSE
SYMMETRY Interchangeable
INVARIANTS
    AcceptedAsAsked
    WaitsForHandler
    ReleasedAsConfirmed
    SettledIsKept
    ActiveIsHeard
PROPERTY NoReportMissed
