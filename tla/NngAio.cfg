CONSTANTS
    a1 = a1
    a2 = a2
    u1 = u1
    u2 = u2
    Aios = {a1, a2}
    Users = {u1, u2}
    UserOf <- Owners
    Workers = {w1}
    Poller = poller
    Expirer = expirer
    None = None
    Never = Never
    Durations = {0, 1}
    MaxTime = 1
    Use <- Uses
    MaxOps <- Ops
    Ended = {a1}
SPECIFICATION FairAioSpec
CHECK_DEADLOCK FALSE
INVARIANTS
    CompletedOnce
    ReleasedIsUnused
    TimersInOrder
PROPERTIES
    StopReturns
    DeadlineEnds
