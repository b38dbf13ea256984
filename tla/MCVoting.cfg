SPECIFICATION Spec
CONSTANTS
    a1 = a1
    a2 = a2
    a3 = a3
    Clients = {c1, c2, c3}
    Addrs = {a1, a2}
    Hosts = {"h1"}
    Host <- MCHost
    NoVote = NoVote
    VoteTypes = {"kick", "giveadmin"}
    AdminTypes = {"giveadmin"}
    Teams = {4}
    MinTime = 0
    LifeTime = 1
    Crowd = 2
SYMMETRY SlotSymmetry
VIEW LiveView
INVARIANTS TypeOK OwnerPresent OneAdmin MajorityActs
PROPERTY ResultStands
