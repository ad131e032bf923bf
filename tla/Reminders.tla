------------------------------ MODULE Reminders -----------------------------
(***************************************************************************)
(* send_renewal_reminders (inventory/services.py): runs of the reminder    *)
(* job that overlap each other and the life of the units.  A run is one    *)
(* transaction at READ COMMITTED: the query for units in the reminder      *)
(* window takes a snapshot, locks the rows it found one by one and reads   *)
(* them again, then the log of reminders is read, and what is new is       *)
(* recorded in the log and queued as notifications in one commit.          *)
(***************************************************************************)
EXTENDS UnitLife, FiniteSets, Sequences

CONSTANTS
    Days,           \* --days: how far ahead a term is reminded of
    GraceDays,      \* how long after its end
    Jobs,           \* processes cron may have running at once
    Idle,           \* not running
    MaxCrashes      \* bound on processes killed

ASSUME WindowAssumption == Days \in Nat /\ GraceDays \in Nat /\ MaxCrashes \in Nat

VARIABLES
    reminders,  \* ReminderLog: a set of [unit, for_expires_at]
    notes,      \* Notification pk -> [unit, state, attempts]; pks follow created_at
    events,     \* unit -> the expiry that each of its reminder.queued events names
    jobs,       \* jobs[j]: [clock, todo, rows, fresh] of the run in process j, or Idle:
                \* the rows it has read under lock, the reminders it will record
    crashes

rvars == <<now, units, reminders, notes, events, jobs, crashes>>

Reminder == [unit : Units, for_expires_at : 0..MaxDate]

Note == [unit : Units, state : {"pending", "sent", "failed"}, attempts : Nat]

ReminderInit ==
    /\ Init
    /\ reminders = {} /\ notes = <<>> /\ events = [u \in Units |-> <<>>]
    /\ jobs = [j \in Jobs |-> Idle]
    /\ crashes = 0

-----------------------------------------------------------------------------
\* Mutant of Due: the filter on state is dropped.
DueInAnyState(row, t) ==
    /\ row.expires_at # NoDate
    /\ row.expires_at >= t - GraceDays /\ row.expires_at <= t + Days

\* Mutant of Due: a NULL expiry passes the filter.
DueOrUndated(row, t) == InUse(row) /\ (row.expires_at # NoDate => row.expires_at <= t + Days)

\* expiring_units: held by a client, and the term ends within the window.
Due(row, t) ==
    /\ InUse(row)
    /\ row.expires_at # NoDate
    /\ row.expires_at >= t - GraceDays /\ row.expires_at <= t + Days

\* Mutant of Locked: expiring_units without select_for_update.
LockedNothing(j) == {}

\* The rows run j holds locked, those included that no longer qualified.
Locked(j) == IF jobs[j] = Idle THEN {} ELSE DOMAIN jobs[j].rows

FreeFor(j, u) == \A k \in Jobs \ {j} : u \notin Locked(k)

\* The units the locking query returned.
Returned(run) == {u \in DOMAIN run.rows : Due(run.rows[u], run.clock)}

Run(t, todo, rows, fresh) == [clock |-> t, todo |-> todo, rows |-> rows, fresh |-> fresh]

StartJob(j, t) ==
    LET found == {u \in DOMAIN units : Due(units[u], t)}
    IN  /\ jobs[j] = Idle
        /\ found # {}
        /\ jobs' = [jobs EXCEPT ![j] = Run(t, found, <<>>, {})]
        /\ UNCHANGED <<now, units, reminders, notes, events, crashes>>

\* Rows come ordered by the expiry in the snapshot, and snapshots differ: two
\* runs may lock in any two orders.
LockUnit(j, u) ==
    /\ jobs[j] # Idle /\ u \in jobs[j].todo
    /\ FreeFor(j, u)
    /\ LET rows == IF u \in DOMAIN units THEN Insert(jobs[j].rows, u, units[u])
                   ELSE jobs[j].rows
       IN  jobs' = [jobs EXCEPT ![j] = Run(@.clock, @.todo \ {u}, rows, {})]
    /\ UNCHANGED <<now, units, reminders, notes, events, crashes>>

\* Mutant of New: a unit is reminded once and for all.
NewByUnit(found) == {r \in found : \A q \in reminders : q.unit # r.unit}

New(found) == found \ reminders

\* The run reads the log; it ends when every unit found was reminded already.
ReadLog(j) ==
    /\ jobs[j] # Idle /\ jobs[j].todo = {} /\ jobs[j].fresh = {}
    /\ LET found == {[unit |-> u, for_expires_at |-> jobs[j].rows[u].expires_at] :
                       u \in Returned(jobs[j])}
       IN  jobs' = [jobs EXCEPT ![j] =
                      IF New(found) = {} THEN Idle
                      ELSE Run(@.clock, {}, @.rows, New(found))]
    /\ UNCHANGED <<now, units, reminders, notes, events, crashes>>

LastNote == CHOOSE n \in DOMAIN notes \cup {0} : \A m \in DOMAIN notes : m <= n

\* Mutant of Noted: notifications for every unit found, not the fresh ones.
NotedForAll(run) == Returned(run)

\* The units a run queues a notification and writes an event for.
Noted(run) == {r.unit : r \in run.fresh}

\* One pending notification for each unit of S, in some order, after those
\* there are.
QueueNotes(S) ==
    LET pks == LastNote + 1 .. LastNote + Cardinality(S)
    IN  \E unit \in {f \in [pks -> S] : \A n, m \in pks : f[n] = f[m] => n = m} :
           notes' = [n \in DOMAIN notes \cup pks |->
                       IF n \in DOMAIN notes THEN notes[n]
                       ELSE [unit |-> unit[n], state |-> "pending", attempts |-> 0]]

\* The unique constraint one_reminder_per_expiry.
IndexAccepts(fresh) == fresh \cap reminders = {}

\* Log, notifications and events are committed together.
Queue(j) ==
    /\ jobs[j] # Idle /\ jobs[j].fresh # {}
    /\ IndexAccepts(jobs[j].fresh)
    /\ reminders' = reminders \cup jobs[j].fresh
    /\ QueueNotes(Noted(jobs[j]))
    /\ events' = [u \in Units |-> IF u \in Noted(jobs[j])
                                   THEN Append(events[u], jobs[j].rows[u].expires_at)
                                   ELSE events[u]]
    /\ jobs' = [jobs EXCEPT ![j] = Idle]
    /\ UNCHANGED <<now, units, crashes>>

Rollback(j) ==
    /\ jobs' = [jobs EXCEPT ![j] = Idle]
    /\ UNCHANGED <<now, units, reminders, notes, events>>

\* Every row the run still needs is locked by others.
Blocked(j) ==
    /\ jobs[j] # Idle /\ jobs[j].todo # {}
    /\ \A u \in jobs[j].todo : ~FreeFor(j, u)

\* Runs that wait for each other: PostgreSQL aborts one.
DeadlockVictim(j) ==
    /\ Blocked(j)
    /\ \A k \in Jobs : jobs[j].todo \cap Locked(k) # {} => Blocked(k)
    /\ Rollback(j)
    /\ UNCHANGED crashes

JobCrash(j) ==
    /\ jobs[j] # Idle
    /\ crashes < MaxCrashes
    /\ crashes' = crashes + 1
    /\ Rollback(j)

JobStep(j) ==
    \/ \E t \in ClockReadings : StartJob(j, t)
    \/ \E u \in Units : LockUnit(j, u)
    \/ ReadLog(j)
    \/ Queue(j)
    \/ DeadlockVictim(j)

\* Everyone else.  A row that a run has locked is neither changed nor deleted;
\* deleting a unit deletes its reminders and notifications, and its events no
\* longer name it.
LifeStep ==
    /\ Next
    /\ \A j \in Jobs : \A u \in Locked(j) :
          u \in DOMAIN units => u \in DOMAIN units' /\ units'[u] = units[u]
    /\ reminders' = {r \in reminders : r.unit \in DOMAIN units'}
    /\ notes' = Only(notes, {n \in DOMAIN notes : notes[n].unit \in DOMAIN units'})
    /\ events' = [u \in Units |-> IF u \in DOMAIN units' THEN events[u] ELSE <<>>]
    /\ UNCHANGED <<jobs, crashes>>

ReminderNext == LifeStep \/ \E j \in Jobs : JobStep(j) \/ JobCrash(j)

ReminderSpec == ReminderInit /\ [][ReminderNext]_rvars

\* cron keeps starting the job (docs/production.md), not always a day late,
\* and a started run goes on.  PostgreSQL serves waiting transactions in turn.
JobsFair ==
    \A j \in Jobs :
       /\ WF_rvars(JobStep(j))
       /\ SF_rvars(StartJob(j, now))
       /\ SF_rvars(\E u \in Units : LockUnit(j, u))

FairReminderSpec == ReminderSpec /\ JobsFair

-----------------------------------------------------------------------------

ReminderTypeOK ==
    /\ reminders \subseteq Reminder
    /\ DOMAIN notes \subseteq Nat /\ \A n \in DOMAIN notes : notes[n] \in Note
    /\ events \in [Units -> Seq(0..MaxDate)]
    /\ \A j \in Jobs : jobs[j] = Idle \/
          /\ jobs[j].clock \in 0..Horizon /\ jobs[j].todo \subseteq Units
          /\ DOMAIN jobs[j].rows \subseteq Units
          /\ \A u \in DOMAIN jobs[j].rows : jobs[j].rows[u] \in Row
          /\ jobs[j].fresh \subseteq Reminder
    /\ crashes \in 0..MaxCrashes

\* The log of reminders, the notifications and the audit log agree, whatever
\* runs overlap or die half way and whatever is deleted: each reminder has one
\* notification and one event that names its date.
OneNotePerReminder ==
    \A u \in Units :
       LET logged == {r \in reminders : r.unit = u}
       IN  /\ Cardinality({n \in DOMAIN notes : notes[n].unit = u}) = Cardinality(logged)
           /\ Len(events[u]) = Cardinality(logged)
           /\ \A r \in logged : \E k \in DOMAIN events[u] : events[u][k] = r.for_expires_at

\* Two overlapping runs never meet in the unique constraint: the row locks
\* make the second read the log after the first has committed.
ReminderIndexNeverRefuses ==
    \A j \in Jobs : jobs[j] # Idle => IndexAccepts(jobs[j].fresh)

\* A reminder is recorded for a unit that a client holds at that moment, and
\* for the term it then has, although it was found in an older snapshot.
RemindedForItsTerm ==
    [][\A r \in reminders' \ reminders :
          /\ r.unit \in DOMAIN units
          /\ InUse(units[r.unit])
          /\ units[r.unit].expires_at = r.for_expires_at]_rvars

\* A reminder stays on record, and its event keeps naming the unit: no unit
\* that a client was reminded of can be deleted, and so the CASCADE never makes
\* the job forget what it sent, nor SET_NULL orphan what was logged of it.
RemindersKept ==
    [][/\ reminders \subseteq reminders'
       /\ \A u \in Units : \A k \in DOMAIN events[u] :
             k \in DOMAIN events'[u] /\ events'[u][k] = events[u][k]]_rvars

DueNow(u, e) == u \in DOMAIN units /\ units[u].expires_at = e /\ Due(units[u], now)

\* A unit due for a reminder gets it, unless it is renewed, taken back or
\* out of the window first.
DueIsReminded ==
    \A r \in Reminder :
       DueNow(r.unit, r.for_expires_at) ~> r \in reminders \/ ~DueNow(r.unit, r.for_expires_at)

=============================================================================
