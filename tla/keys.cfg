SPECIFICATION MCSpec
CONSTANTS
    Wallets = {w1, w2}
    First = w1
    Accounts = {a1}
    Jobs = {j1, j2}
    None = None
    MaxBalance = 7
    Drifts = 1
    Tips = {0, 1, 3}
    PinnedGas = 1
    PinnedFee = 2
    PinnedTip = 2
    MAX = MAX
    Nothing = Nothing
SYMMETRY Interchangeable
INVARIANTS
    SignerIsAccountUnlessPromoted
    AccountsCanSign
    MaxIsAccepted
    PreviewIsTheSend
