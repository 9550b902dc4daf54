CONSTANTS
    Datas <- MCDatas
    Bases <- MCBases
    Numbers <- MCNumbers
    Symbols <- MCSymbols
    LowerCase <- MCLowerCase
    Origins <- MCOrigins
    AllowLists <- MCAllowLists
    Names <- MCNames
    Servers <- MCServers
SPECIFICATION TextsSpec
INVARIANTS
    RoundTrip
    OriginAllowed
    KeyLeadsBack
CHECK_DEADLOCK FALSE
