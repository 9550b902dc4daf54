CONSTANTS
    Requests = {r1, r2}
    Nothing = Nothing
    Blocks = 2
SPECIFICATION ProxySpec
INVARIANTS
    DocSaveFailureHarmless
