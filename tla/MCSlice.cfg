SPECIFICATION FairSpec
CONSTANTS
    i1 = i1
    i2 = i2
    TimerIds = {i1, i2}
    Period <- MCPeriod
    MaxTimers = 3
    MaxCalls = 2
    Players = {p1, p2}
    m1 = m1
    m2 = m2
    m3 = m3
    Maps = {m1, m2, m3}
    CoopMaps = {m3}
    NoMap = NoMap
    Rotations <- MCRotations
    MaxClients = 3
    DemoInterm = FALSE
    pistol = pistol
    rifle = rifle
    knife = knife
    Guns = {pistol, rifle, knife}
    Pistol = pistol
    Reloadable = {pistol, rifle}
    attackdelay <- MCDelay
    reloadtime <- MCReload
    AkimboTime = 2
    MaxTime = 4
    MaxWait = 2
INVARIANTS SliceTypeOK RotationFits GunsAreReady
PROPERTIES TickIsWhole OnceEnds OneLifePerRound NobodyKeptWaiting PromisedIsPlayed NextGameComes
