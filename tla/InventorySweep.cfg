\* Liveness, so no symmetry; units are sold on old readings, renewed and swept.
CONSTANTS
    Units = {u1, u2}
    Clients = {a}
    IssueIds = {i1, i2}
    ClaimIds = {c1}
    NoDate = NoDate
    NoUnit = NoUnit
    RegisterDates = {1}
    Periods = {1}
    ReminderDays = {}
    GraceDays = 0
    WarrantyDays = {1}
    MaxDate = 3
    Lag = 1
    Horizon = 2
SPECIFICATION FairSpec
\* The system may stop: ids run out and the clock is bounded.
CHECK_DEADLOCK FALSE
PROPERTIES
    StaleIsSwept
