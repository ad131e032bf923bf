\* Two workers, nothing lost, nobody killed.
CONSTANTS
    Units = {u1}
    NoDate = NoDate
    RegisterDates = {1}
    Periods = {1}
    MaxDate = 3
    Lag = 0
    Horizon = 0
    Days = 2
    GraceDays = 0
    Jobs = {j1}
    Idle = Idle
    MaxCrashes = 0
    MaxAttempts = 2
    Limits = {2}
    Workers = {w1, w2}
    Faulty = {}
    Lossy = FALSE
SPECIFICATION OutboxSpec
\* The system may stop: the clock is bounded.
CHECK_DEADLOCK FALSE
INVARIANTS
    NobodyWaitsForTheProvider
