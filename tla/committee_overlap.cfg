SPECIFICATION Spec
CONSTANTS
    Ops = {o1, o2}
    N = 3
    Need = 2
    MaxComm = 3
    Offered = {"reshare", "promote", "recrypt", "repair", "delete"}
    Faulty = FALSE
    Idle = Idle
    NoFile = NoFile
SYMMETRY Workers
INVARIANT
    SecretSurvives
