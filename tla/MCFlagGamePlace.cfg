SPECIFICATION Spec
CONSTANTS
    Clients = {c1, c2}
    NoClient = NoClient
    Teams = {0, 4}
    Modes = {"htf"}
    FlagMessages <- MCDropOnly
    EditMessages = {}
    DropLimit <- MCDropLimit
    HtfBaseLimit = 0
    KtfHoldLimit = 0
    MaxAge = 1
INVARIANT DroppedOnMap
