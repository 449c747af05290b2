CONSTANTS
    Workers = {w1}
    Clients = {c1, c2}
    t1 = t1
    t2 = t2
    t3 = t3
    Tasks = {t1, t2, t3}
    NoTask = NoTask
    MaxLength = 2
    Capacity = 2
    Length <- MCLength
SPECIFICATION FairLinkSpec
INVARIANTS
    StreamInOrder
    LengthsTellMixedReplies
PROPERTIES
    EveryTaskRuns
    SessionReleased
CHECK_DEADLOCK FALSE
