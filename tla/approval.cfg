SPECIFICATION FairSpec
CONSTANTS
    Requests = {r1}
    Calls = {c1, c2}
    NoRow = NoRow
    NoCall = NoCall
INVARIANTS
    LateCallHarmless
    PromptIsAnswerable
    EffectOnceIfSerial
    ResultReachesDapp
PROPERTIES
    KeepsPromise
    EveryPromptEnds
