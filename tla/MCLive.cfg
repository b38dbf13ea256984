SPECIFICATION LiveSpec
CONSTANTS
    a1 = a1
    a2 = a2
    a3 = a3
    Clients = {c1, c2}
    Addrs = {a1}
    Hosts = {"h1"}
    Host <- MCHost
    NoVote = NoVote
    VoteTypes = {"ban", "map", "nextmap", "rembans"}
    AdminTypes = {"rembans"}
    Teams = {0, 4}
    MinTime = 0
    LifeTime = 1
    Crowd = 1
    Cns = {1, 2, 3}
    TeamSizes = {0, 1}
    ForcedTeams = {"rvsf"}
PROPERTIES VoteEnds MatchSizesHold TeamsEvenOut
