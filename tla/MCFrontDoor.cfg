SPECIFICATION FrontDoorSpec

CONSTANTS
    Tabs = {t1, t2}
    MaxSessions = 2
    Origins <- MCOrigins
    Configs <- MCConfigs
    Asked <- MCAsked
    Foreign <- MCForeign
    K1 = K1
    None = None
    Keep = Keep
    Spoiled = Spoiled

SYMMETRY TabSymmetry

INVARIANTS
    FrontDoorTypeOK

PROPERTIES
    RedirectsAllowed
    LandsWhereAsked
    LoggedOutStaysOut
