\* Two runs of the job overlap while two units live on.
CONSTANTS
    Units = {u1, u2}
    NoDate = NoDate
    RegisterDates = {1}
    Periods = {1}
    MaxDate = 2
    Lag = 1
    Horizon = 2
    Days = 1
    GraceDays = 0
    Jobs = {j1, j2}
    Idle = Idle
    MaxCrashes = 1
SYMMETRY Symmetry
SPECIFICATION ReminderSpec
\* The system may stop: the clock is bounded.
CHECK_DEADLOCK FALSE
INVARIANTS
    ReminderTypeOK
    OneNotePerReminder
    ReminderIndexNeverRefuses
PROPERTIES
    RemindedForItsTerm
    RemindersKept
