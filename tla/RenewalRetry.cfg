\* Two orders for one unit under one key, at one price or two; requests overlap,
\* an answer is lost.  Liveness, so no symmetry.
CONSTANTS
    Units = {u1}
    NoDate = NoDate
    RegisterDates = {}
    Periods = {1}
    MaxDate = 2
    Lag = 0
    Horizon = 0
    Orders = {o1, o2}
    Keys = {k1}
    NoKey = NoKey
    Prices = {1, 2}
    Sessions = {s1, s2}
    Idle = Idle
    MaxLost = 1
SPECIFICATION FairRetrySpec
\* The system may stop: everybody has an answer and the clock is bounded.
CHECK_DEADLOCK FALSE
INVARIANTS
    RetryTypeOK
    KeyTellsAll
PROPERTIES
    RetriesAreSafe
    OrderSettles
