SPECIFICATION Spec
CONSTANTS
    Requests = {r1}
    Calls = {c1, c2}
    NoRow = NoRow
    NoCall = NoCall
INVARIANT
    EffectAtMostOnce
