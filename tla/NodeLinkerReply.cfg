CONSTANTS
    Workers = {w1}
    Clients = {c1}
    t1 = t1
    t2 = t2
    t3 = t3
    Tasks = {t1, t2, t3}
    NoTask = NoTask
    MaxLength = 2
    Capacity = 2
    Length <- MCLength
SPECIFICATION LinkSpec
INVARIANTS
    ReplyIsTheRequest
CHECK_DEADLOCK FALSE
