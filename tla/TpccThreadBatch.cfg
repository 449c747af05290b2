SPECIFICATION FairThreadSpec
CONSTANTS
    Warehouses = 2
    Districts = 2
    Customers = 2
    NewOrders = 1
    Items = 1
    InitialLines = 1
    InitialAmount = 6
    InitialStock = 20
    Price <- MCPrice
    HashInt <- MCHashInt
    Parallelism = 2
    PoolThreads = 9
    Queues <- MCQueues
INVARIANTS
    TypeOK
    ConflictFree
    InputsAreReady
    ParametersOutliveTasks
PROPERTIES
    StrongExecutionDeterminism
    EverythingIsExecuted
CHECK_DEADLOCK FALSE
