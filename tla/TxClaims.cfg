\* Two sessions sell, claim, approve and reject; three units without expiry,
\* the clock stands still.
CONSTANTS
    Units = {u1, u2, u3}
    Clients = {a}
    IssueIds = {i1, i2, i3}
    ClaimIds = {c1, c2}
    NoDate = NoDate
    NoUnit = NoUnit
    RegisterDates = {}
    Periods = {}
    ReminderDays = {}
    GraceDays = 0
    WarrantyDays = {0}
    MaxDate = 0
    Lag = 0
    Horizon = 0
    Sessions = {s1, s2}
    Idle = Idle
SYMMETRY Symmetry
SPECIFICATION TxSpec
\* The system may stop: ids run out and the clock is bounded.
CHECK_DEADLOCK FALSE
INVARIANTS
    TxTypeOK
    SeenIsCurrent
    IndexesNeverRefuse
    ClaimsMatchIssues
PROPERTIES
    CommitsAreSerial
    PromiseKept
