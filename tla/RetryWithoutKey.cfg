\* One order over the API, which passes no key.
CONSTANTS
    Units = {u1}
    NoDate = NoDate
    RegisterDates = {1}
    Periods = {1}
    MaxDate = 3
    Lag = 0
    Horizon = 1
    Orders = {o1}
    Keys = {NoKey}
    NoKey = NoKey
    Prices = {1}
    Sessions = {s1}
    Idle = Idle
    MaxLost = 1
SPECIFICATION RetrySpec
\* The system may stop: everybody has an answer and the clock is bounded.
CHECK_DEADLOCK FALSE
INVARIANTS
    RetryIsNoSecondRenewal
