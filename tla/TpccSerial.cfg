SPECIFICATION Spec
CONSTANTS
    Warehouses = 2
    Districts = 1
    Customers = 2
    NewOrders = 1
    Items = 2
    InitialLines = 1
    InitialAmount = 6
    InitialStock = 25
    Price <- MCPrice
    Queues <- MCQueues
INVARIANTS
    OrderIdsHaveNoGaps
    DeliveredMeansCarried
    BalancesMatch
    PaymentsMatch
    StockMatches
CHECK_DEADLOCK FALSE
