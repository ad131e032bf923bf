\* Sales, claims and replacements of three units; no renewals.
CONSTANTS
    Units = {u1, u2, u3}
    Clients = {a, b}
    IssueIds = {i1, i2, i3}
    ClaimIds = {c1, c2, c3}
    NoDate = NoDate
    NoUnit = NoUnit
    RegisterDates = {1}
    Periods = {}
    ReminderDays = {}
    GraceDays = 0
    WarrantyDays = {0, 1}
    MaxDate = 2
    Lag = 1
    Horizon = 2
SYMMETRY Symmetry
SPECIFICATION Spec
\* The system may stop: ids run out and the clock is bounded.
CHECK_DEADLOCK FALSE
INVARIANTS
    StateMatchesIssues
    ClaimsMatchIssues
    OneReplacementPerClaim
PROPERTIES
    HistoryIsFinal
    PromiseKept
