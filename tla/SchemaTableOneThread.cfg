CONSTANTS
    Threads = {t1}
    Deleters = {t1}
    Records <- MCKeys
    Bucket <- MCBucketKeys
    SecondaryKey <- MCOwnSecondary
    PerBlock = 2
    MaxBlocks = 2
    NoRecord = NoRecord
    Nobody = Nobody
SPECIFICATION SchemaSpec
INVARIANTS
    IndexFindsTheRecord
    LookupsMatchTheCalls
CHECK_DEADLOCK FALSE
