CONSTANTS
    k1 = k1
    k2 = k2
    c1 = c1
    c2 = c2
    Keys <- MCKeys
    Callers <- MCCallers
    MaxVersion <- MCMaxVersion
    NoValue = NoValue
SPECIFICATION FairSpec
INVARIANT ReadsCurrent
INVARIANT Fresh
INVARIANT OneBuild
PROPERTY LoadEnds
