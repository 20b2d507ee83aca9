SPECIFICATION MCSpec
CONSTANTS
    Threads = {t1, t2}
    Hashes = {x1, x2, x3}
    MaxNonce = 1
    PageSize = 2
    MaxPages = 2
    NoTx = NoTx
    Senders = {t1, t2}
    Deposits = {100, 3000}
    Scripts = {"p2wpkh", "p2pkh"}
    Wants = {1200, 2750}
    FeeRate = 1
    MaxCoins = 4
    MaxSends = 2
    NoJob = NoJob
    Callers = {t1, t2}
    Quotes = {q1, q2}
    Solana = {q1}
    Payers = {a1, a2}
    MaxOrder = 2
    Unset = Unset
    Clerks = {t1, t2}
    Tokens = {k1}
    Contracts = {m1}
    Blank = Blank
SYMMETRY Interchangeable
INVARIANTS
    SendStands
    HolesHaveCause
    ShownPaymentStands
    SwapsOnce
    SwapsAsQuoted
    RegisteredIsListed
