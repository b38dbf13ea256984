SPECIFICATION FairSpec
CONSTANTS
    Clients = {c1, c2}
    NoClient = NoClient
    Teams = {0, 4}
    Modes = {"htf", "ktf"}
    FlagMessages <- MCModeMessages
    EditMessages = {}
    DropLimit <- MCDropLimit
    HtfBaseLimit = 0
    KtfHoldLimit = 0
    MaxAge = 1
VIEW PaidView
PROPERTIES DroppedComesHome KeeperIsPaid HuntedFlagIsOut
