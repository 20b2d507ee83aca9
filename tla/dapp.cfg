SPECIFICATION MCSpec
CONSTANTS
    Workers = {w1, w2}
    Hosts = {h1, h2}
    Accounts = {a1, a2}
    MaxLink = 2
    MaxIndex = 1
    Nothing = Nothing
    Agents = {g1, g2}
    ChainIds = {c1, c2}
    Builtin = {c1}
    Listed = {c1}
    NoNet = NoNet
    Prompts = {p1}
    EvmAccounts = {e1}
    SolanaAccounts = {s1}
    BitcoinAccounts = {b1}
    NoPrompt = NoPrompt
SYMMETRY Interchangeable
INVARIANTS
    ShownByConsent
    ApprovalHolds
    OneAccountPerIndex
    RegisteredStays
    SignedForItsChain
