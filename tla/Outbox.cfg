\* Two delivery workers and a reminder job, one unit with up to three terms;
\* an answer of the provider may be lost and a process killed.  No symmetry.
CONSTANTS
    Units = {u1}
    NoDate = NoDate
    RegisterDates = {1}
    Periods = {1}
    MaxDate = 3
    Lag = 0
    Horizon = 0
    Days = 2
    GraceDays = 0
    Jobs = {j1}
    Idle = Idle
    MaxCrashes = 1
    MaxAttempts = 2
    Limits = {1, 2}
    Workers = {w1, w2}
    Faulty = {2}
    Lossy = TRUE
SPECIFICATION FairOutboxSpec
\* The system may stop: the clock is bounded.
CHECK_DEADLOCK FALSE
INVARIANTS
    OutboxTypeOK
    HeldIsPending
    MessagesAccountedFor
    ParkedWhenBurned
PROPERTIES
    NotesMoveForward
    EveryNoteSettles
    DueIsReminded
