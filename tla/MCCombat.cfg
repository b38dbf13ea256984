SPECIFICATION MCSpec
CONSTANTS
    NumClients = 2
    QueueLimit = 2
    MaxGrenades = 1
    Sends <- MCSends
    Ids = {g1}
    MaxHits = 2
    MaxLife = 1
    MaxAir = 2
    Cls = {1, 2}
    Entities = {"box"}
    Boxes = {"box"}
    Size = 1
    Start = 2
    Add <- MCAdd
    Most <- MCMost
    SpawnTimes <- MCSpawnTimes
    RoundTime = 2
    MaxDiff = 2
    MaxTime = 2
    MaxGiven = 2
INVARIANTS PartsTypeOK QueuesSound HitsTheLifeAimedAt NoExplosionWithoutThrow SuppliesAccounted
PROPERTY SliceEnds
