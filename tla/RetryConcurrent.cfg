\* One order under a key, sent twice; no answer is lost.
CONSTANTS
    Units = {u1}
    NoDate = NoDate
    RegisterDates = {1}
    Periods = {1}
    MaxDate = 3
    Lag = 0
    Horizon = 1
    Orders = {o1}
    Keys = {k1}
    NoKey = NoKey
    Prices = {1}
    Sessions = {s1, s2}
    Idle = Idle
    MaxLost = 0
SPECIFICATION RetrySpec
\* The system may stop: everybody has an answer and the clock is bounded.
CHECK_DEADLOCK FALSE
INVARIANTS
    SecondCallGetsFirstResult
