SPECIFICATION FairThreadSpec
CONSTANTS
    Subscribers = 2
    PaddingSize = 2
    Facilities <- MCFacilities
    Forwardings <- MCForwardings
    HashInt <- MCHashInt
    Parallelism = 2
    PoolThreads = 8
    Queues <- MCQueues
INVARIANTS
    SubscribersAreFound
    ParametersOutliveTasks
    ConflictFree
PROPERTIES
    StrongExecutionDeterminism
    EverythingIsExecuted
CHECK_DEADLOCK FALSE
