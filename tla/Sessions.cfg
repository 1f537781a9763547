CONSTANTS
    Accounts = {root, ana}
    Admin = root
    Names = {foil, bea}
    AdminName = foil
    Browsers = {b}
    None = None
    Keep = Keep
    Life = 1
    MaxClicks = 3
    Connections = {c1}
    ClientBuffer = 1
    RegisterBuffer = 1
    MaxSenders = 2
SPECIFICATION AllSpec
INVARIANTS OneAccountPerSession NeverPanics
PROPERTIES PageTokenRenewed DeadSessionEnds TokenNameCatchesUp HubReturns LostLeaves
CHECK_DEADLOCK FALSE
