CONSTANTS
    Threads = {t1, t2}
    Deleters = {t1, t2}
    Records <- MCRecords
    Bucket <- MCBucket
    SecondaryKey <- MCNoSecondary
    PerBlock = 2
    MaxBlocks = 2
    NoRecord = NoRecord
    Nobody = Nobody
SPECIFICATION SchemaSpec
INVARIANTS
    LookupsMatchTheCalls
CHECK_DEADLOCK FALSE
