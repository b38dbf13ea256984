SPECIFICATION MCSpec
CONSTANTS
    a1 = a1
    a2 = a2
    a3 = a3
    Slots = {s1, s2, s3}
    MaxClients = 2
    Peers = {a1, a2, a3}
    NoPeer = NoPeer
    Hosts = {"h1", "h2"}
    Host <- MCHost
    Net <- MCNet
    Names = {n1, n2}
    Points = {p}
    MaxBans = 2
    Cns = {0, 1}
    MaxStates = 2
CONSTRAINT Bounded
SYMMETRY Symmetry
INVARIANTS PartsTypeOK BuffersInUse EverybodyElse
PROPERTIES SeatsHold OnlyTwinsDouble LostOnlyInShadow BansHold NothingLost
