SPECIFICATION Spec
CONSTANTS
    Clients = {c1, c2}
    NoClient = NoClient
    Teams = {0, 1, 4}
    Modes = {"ctf", "htf", "tktf"}
    FlagMessages <- MCAnyMessages
    EditMessages = {FALSE, TRUE}
    DropLimit <- MCDropLimit
    HtfBaseLimit = 0
    KtfHoldLimit = 0
    MaxAge = 1
SYMMETRY SlotSymmetry
VIEW LiveView
INVARIANTS TypeOK CarrierInPlay CarrierSide OneActiveFlag
PROPERTY KeepsPromise
