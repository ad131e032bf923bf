\* Two sessions sell, renew, sweep and edit two units while the clock runs;
\* no claims.
CONSTANTS
    Units = {u1, u2}
    Clients = {a}
    IssueIds = {i1}
    ClaimIds = {}
    NoDate = NoDate
    NoUnit = NoUnit
    RegisterDates = {1}
    Periods = {1}
    ReminderDays = {0}
    GraceDays = 0
    WarrantyDays = {0}
    MaxDate = 2
    Lag = 2
    Horizon = 2
    Sessions = {s1, s2}
    Idle = Idle
SYMMETRY Symmetry
SPECIFICATION TxSpec
\* The system may stop: ids run out and the clock is bounded.
CHECK_DEADLOCK FALSE
INVARIANTS
    SeenIsCurrent
    ExpiredIsPast
PROPERTIES
    CommitsAreSerial
    ExpiryMovesByRenewal
