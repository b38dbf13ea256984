SPECIFICATION Spec
CONSTANTS
    a1 = a1
    a2 = a2
    a3 = a3
    Clients = {c1, c2}
    Addrs = {a1, a2}
    Hosts = {"h1"}
    Host <- MCHost
    NoVote = NoVote
    VoteTypes = {"ban", "giveadmin", "forceteam"}
    AdminTypes = {"giveadmin"}
    Teams = {0, 4}
    MinTime = 0
    LifeTime = 1
    Crowd = 1
SYMMETRY SlotSymmetry
PROPERTY OnlyTheNamed
