\* Renewals, sweeps, reminders and deletions of two units, one claim.
CONSTANTS
    Units = {u1, u2}
    Clients = {a}
    IssueIds = {i1, i2}
    ClaimIds = {c1}
    NoDate = NoDate
    NoUnit = NoUnit
    RegisterDates = {1}
    Periods = {1}
    ReminderDays = {0}
    GraceDays = 0
    WarrantyDays = {1}
    MaxDate = 2
    Lag = 1
    Horizon = 2
SYMMETRY Symmetry
SPECIFICATION Spec
\* The system may stop: ids run out and the clock is bounded.
CHECK_DEADLOCK FALSE
INVARIANTS
    TypeOK
    RowsIntact
    PaidTermsStack
    ExpiredIsPast
    AuditExplainsState
PROPERTIES
    ExpiryMovesByRenewal
    NoEventOrphaned
    LifeKept
