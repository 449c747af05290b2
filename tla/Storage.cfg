SPECIFICATION Spec
CONSTANTS
    Catalog <- MCCatalog
    Offered <- MCOffered
    Changes <- MCChanges
    Queries <- MCQueries
    Fillers = {0, 9}
    PerBlock = 2
    FetchSize = 1
    MaxBlocks = 2
    Null = Null
INVARIANTS
    TablesAreSound
    AccessPathsAgree
PROPERTIES
    ScansAreComplete
    ImplementsTableStore
