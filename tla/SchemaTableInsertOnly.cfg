CONSTANTS
    Threads = {t1, t2, t3}
    Deleters = {}
    Records <- MCRecords
    Bucket <- MCBucket
    SecondaryKey <- MCLinesOfAnOrder
    PerBlock = 2
    MaxBlocks = 3
    NoRecord = NoRecord
    Nobody = Nobody
SPECIFICATION SchemaSpec
INVARIANTS
    SchemaTypeOK
    SpaceAccounting
    SlotsWithinBlocks
    SlotsAreFresh
CHECK_DEADLOCK FALSE
