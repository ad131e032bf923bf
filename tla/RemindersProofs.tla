--------------------------- MODULE RemindersProofs --------------------------
(***************************************************************************)
(* Proofs about the reminder job, for any number of units and of runs that *)
(* overlap: row locks keep two runs from recording the same reminder, a    *)
(* reminder is recorded for the term the unit has, it stays, and it has    *)
(* one notification and one event.                                         *)
(***************************************************************************)
EXTENDS Reminders, UnitLifeProofs, FiniteSetTheorems

\* A row is locked by one run, which knows it as it is.
RowsHeld ==
    \A j \in Jobs : \A u \in Locked(j) :
       /\ u \in DOMAIN units /\ jobs[j].rows[u] = units[u]
       /\ \A k \in Jobs \ {j} : u \notin Locked(k)

\* What a run is about to record is new, and says of a row it has locked what
\* is there.
FreshIsNew ==
    \A j \in Jobs : jobs[j] # Idle =>
       \A r \in jobs[j].fresh :
          /\ r \notin reminders
          /\ r.unit \in Returned(jobs[j])
          /\ r.for_expires_at = jobs[j].rows[r.unit].expires_at

\* No unit with a reminder can be deleted.
RemindedWereSold ==
    \A r \in reminders : r.unit \in DOMAIN units /\ ~InStock(units[r.unit])

ReminderInv == UnitsTyped /\ DOMAIN jobs = Jobs /\ RowsHeld /\ FreshIsNew /\ RemindedWereSold

-----------------------------------------------------------------------------
\* The runs.

LEMMA ReminderInitInv == ReminderInit => ReminderInv
BY DEF ReminderInit, Init, ReminderInv, UnitsTyped, RowsHeld, FreshIsNew, RemindedWereSold, Locked

\* A step of one run that touches no table: it keeps the locks it had, or
\* takes one that is free, or ends.
LEMMA RunMoves ==
    ASSUME ReminderInv, NEW j \in Jobs, UNCHANGED <<now, units, reminders>>,
           DOMAIN jobs' = Jobs, \A k \in Jobs \ {j} : jobs'[k] = jobs[k],
           jobs'[j] # Idle =>
              /\ \A u \in DOMAIN jobs'[j].rows :
                    /\ u \in DOMAIN units /\ jobs'[j].rows[u] = units[u]
                    /\ \A k \in Jobs \ {j} : u \notin Locked(k)
              /\ \A r \in jobs'[j].fresh :
                    /\ r \notin reminders
                    /\ r.unit \in DOMAIN jobs'[j].rows
                    /\ Due(jobs'[j].rows[r.unit], jobs'[j].clock)
                    /\ r.for_expires_at = jobs'[j].rows[r.unit].expires_at
    PROVE  ReminderInv'
<1>1. \A k \in Jobs \ {j} : Locked(k)' = Locked(k)
  BY DEF Locked
<1>2. Locked(j)' = IF jobs'[j] = Idle THEN {} ELSE DOMAIN jobs'[j].rows
  BY DEF Locked
<1>3. RowsHeld'
  <2>1. SUFFICES ASSUME NEW k \in Jobs, NEW u \in Locked(k)'
                 PROVE  /\ u \in DOMAIN units /\ jobs'[k].rows[u] = units[u]
                        /\ \A l \in Jobs \ {k} : u \notin Locked(l)'
    BY DEF RowsHeld
  <2>2. CASE k = j
    BY <1>1, <1>2, <2>1, <2>2
  <2>3. CASE k # j
    <3>1. u \in Locked(k)
      BY <1>1, <2>1, <2>3
    <3>2. /\ u \in DOMAIN units /\ jobs'[k].rows[u] = units[u]
          /\ \A l \in Jobs \ {k} : u \notin Locked(l)
      BY <2>3, <3>1 DEF ReminderInv, RowsHeld
    <3>3. u \notin Locked(j)'
      BY <1>2, <2>3, <3>1
    <3> QED
      BY <1>1, <3>2, <3>3
  <2> QED
    BY <2>2, <2>3
<1>4. FreshIsNew'
  BY DEF ReminderInv, FreshIsNew, Returned
<1>5. UnitsTyped' /\ RemindedWereSold'
  BY DEF ReminderInv, UnitsTyped, RemindedWereSold
<1> QED
  BY <1>3, <1>4, <1>5 DEF ReminderInv

LEMMA JobEffect ==
    ASSUME NEW j \in Jobs, NEW x, DOMAIN jobs = Jobs, jobs' = [jobs EXCEPT ![j] = x]
    PROVE  /\ DOMAIN jobs' = Jobs /\ jobs'[j] = x
           /\ \A k \in Jobs \ {j} : jobs'[k] = jobs[k]
OBVIOUS

LEMMA RunFields ==
    ASSUME NEW t, NEW todo, NEW rows, NEW fresh
    PROVE  /\ Run(t, todo, rows, fresh).clock = t
           /\ Run(t, todo, rows, fresh).rows = rows
           /\ Run(t, todo, rows, fresh).fresh = fresh
BY DEF Run

LEMMA StartJobInv ==
    ASSUME ReminderInv, NEW j \in Jobs, NEW t, StartJob(j, t)
    PROVE  ReminderInv'
<1>1. PICK found : jobs' = [jobs EXCEPT ![j] = Run(t, found, <<>>, {})]
  BY DEF StartJob
<1>2. /\ DOMAIN jobs' = Jobs /\ jobs'[j] = Run(t, found, <<>>, {})
      /\ \A k \in Jobs \ {j} : jobs'[k] = jobs[k]
  BY <1>1, JobEffect DEF ReminderInv
<1>3. jobs'[j].rows = <<>> /\ jobs'[j].fresh = {}
  BY <1>2, RunFields
<1>4. UNCHANGED <<now, units, reminders>>
  BY DEF StartJob
<1> QED
  BY <1>2, <1>3, <1>4, RunMoves

LEMMA LockUnitInv ==
    ASSUME ReminderInv, NEW j \in Jobs, NEW u \in Units, LockUnit(j, u)
    PROVE  ReminderInv'
<1>1. PICK rows :
         /\ rows = IF u \in DOMAIN units THEN Insert(jobs[j].rows, u, units[u]) ELSE jobs[j].rows
         /\ jobs' = [jobs EXCEPT ![j] = Run(jobs[j].clock, jobs[j].todo \ {u}, rows, {})]
  BY DEF LockUnit, ReminderInv
<1>2. /\ DOMAIN jobs' = Jobs
      /\ jobs'[j] = Run(jobs[j].clock, jobs[j].todo \ {u}, rows, {})
      /\ \A k \in Jobs \ {j} : jobs'[k] = jobs[k]
  BY <1>1, JobEffect DEF ReminderInv
<1>3. jobs'[j].rows = rows /\ jobs'[j].fresh = {}
  BY <1>2, RunFields
<1>4. jobs[j] # Idle /\ FreeFor(j, u) /\ UNCHANGED <<now, units, reminders>>
  BY DEF LockUnit
<1>5. \A v \in DOMAIN jobs[j].rows :
         /\ v \in DOMAIN units /\ jobs[j].rows[v] = units[v]
         /\ \A k \in Jobs \ {j} : v \notin Locked(k)
  BY <1>4 DEF ReminderInv, RowsHeld, Locked
<1>6. \A k \in Jobs \ {j} : u \notin Locked(k)
  BY <1>4 DEF FreeFor
<1>7. \A v \in DOMAIN rows :
         /\ v \in DOMAIN units /\ rows[v] = units[v]
         /\ \A k \in Jobs \ {j} : v \notin Locked(k)
  BY <1>1, <1>5, <1>6 DEF Insert
<1> QED
  BY <1>2, <1>3, <1>4, <1>7, RunMoves

LEMMA ReadLogInv ==
    ASSUME ReminderInv, NEW j \in Jobs, ReadLog(j)
    PROVE  ReminderInv'
<1> DEFINE found == {[unit |-> u, for_expires_at |-> jobs[j].rows[u].expires_at] :
                       u \in Returned(jobs[j])}
<1>1. jobs[j] # Idle /\ UNCHANGED <<now, units, reminders>>
  BY DEF ReadLog
<1>2. \A r \in New(found) : /\ r \notin reminders
                            /\ r.unit \in DOMAIN jobs[j].rows
                            /\ Due(jobs[j].rows[r.unit], jobs[j].clock)
                            /\ r.for_expires_at = jobs[j].rows[r.unit].expires_at
  BY DEF New, Returned
<1>3. jobs' = [jobs EXCEPT ![j] = IF New(found) = {} THEN Idle
                                  ELSE Run(jobs[j].clock, {}, jobs[j].rows, New(found))]
  BY DEF ReadLog, ReminderInv
<1> HIDE DEF found
<1>4. /\ DOMAIN jobs' = Jobs
      /\ jobs'[j] = IF New(found) = {} THEN Idle
                    ELSE Run(jobs[j].clock, {}, jobs[j].rows, New(found))
      /\ \A k \in Jobs \ {j} : jobs'[k] = jobs[k]
  BY <1>3, JobEffect DEF ReminderInv
<1>5. jobs'[j] # Idle => /\ jobs'[j].clock = jobs[j].clock
                         /\ jobs'[j].rows = jobs[j].rows
                         /\ jobs'[j].fresh = New(found)
  BY <1>4, RunFields
<1>6. \A v \in DOMAIN jobs[j].rows :
         /\ v \in DOMAIN units /\ jobs[j].rows[v] = units[v]
         /\ \A k \in Jobs \ {j} : v \notin Locked(k)
  BY <1>1 DEF ReminderInv, RowsHeld, Locked
<1> QED
  BY <1>1, <1>2, <1>4, <1>5, <1>6, RunMoves

LEMMA RollbackInv ==
    ASSUME ReminderInv, NEW j \in Jobs, Rollback(j)
    PROVE  ReminderInv'
<1>1. /\ DOMAIN jobs' = Jobs /\ jobs'[j] = Idle
      /\ \A k \in Jobs \ {j} : jobs'[k] = jobs[k]
  BY JobEffect DEF Rollback, ReminderInv
<1> QED
  BY <1>1, RunMoves DEF Rollback

\* What a run records at the end.
LEMMA RecordedForItsTerm ==
    ASSUME ReminderInv, NEW j \in Jobs, Queue(j), NEW r \in jobs[j].fresh
    PROVE  /\ r.unit \in DOMAIN units /\ InUse(units[r.unit])
           /\ units[r.unit].expires_at = r.for_expires_at
           /\ r.unit \in Locked(j)
<1>1. jobs[j] # Idle
  BY DEF Queue
<1>2. /\ r.unit \in DOMAIN jobs[j].rows
      /\ Due(jobs[j].rows[r.unit], jobs[j].clock)
      /\ r.for_expires_at = jobs[j].rows[r.unit].expires_at
  BY <1>1 DEF ReminderInv, FreshIsNew, Returned
<1>3. r.unit \in Locked(j)
  BY <1>1, <1>2 DEF Locked
<1>4. r.unit \in DOMAIN units /\ jobs[j].rows[r.unit] = units[r.unit]
  BY <1>3 DEF ReminderInv, RowsHeld
<1> QED
  BY <1>2, <1>3, <1>4 DEF Due

LEMMA QueueInv ==
    ASSUME ReminderInv, NEW j \in Jobs, Queue(j)
    PROVE  ReminderInv'
<1>1. /\ jobs[j] # Idle /\ reminders' = reminders \cup jobs[j].fresh
      /\ jobs' = [jobs EXCEPT ![j] = Idle] /\ UNCHANGED <<now, units>>
  BY DEF Queue
<1>2. /\ DOMAIN jobs' = Jobs /\ jobs'[j] = Idle
      /\ \A k \in Jobs \ {j} : jobs'[k] = jobs[k]
  BY <1>1, JobEffect DEF ReminderInv
<1>3. /\ Locked(j)' = {}
      /\ \A k \in Jobs \ {j} : Locked(k)' = Locked(k)
  BY <1>2 DEF Locked
<1>4. RowsHeld'
  BY <1>1, <1>2, <1>3 DEF ReminderInv, RowsHeld
<1>5. FreshIsNew'
  <2>1. SUFFICES ASSUME NEW k \in Jobs, jobs'[k] # Idle, NEW r \in jobs'[k].fresh
                 PROVE  /\ r \notin reminders'
                        /\ r.unit \in Returned(jobs'[k])
                        /\ r.for_expires_at = jobs'[k].rows[r.unit].expires_at
    BY DEF FreshIsNew, Returned
  <2>2. k # j /\ jobs'[k] = jobs[k]
    BY <1>2, <2>1
  <2>3. /\ r \notin reminders
        /\ r.unit \in Returned(jobs[k])
        /\ r.for_expires_at = jobs[k].rows[r.unit].expires_at
    BY <2>1, <2>2 DEF ReminderInv, FreshIsNew
  <2>4. r.unit \in Locked(k)
    BY <2>1, <2>2, <2>3 DEF Locked, Returned
  <2>5. r \notin jobs[j].fresh
    BY <2>2, <2>4, RecordedForItsTerm DEF ReminderInv, RowsHeld
  <2> QED
    BY <1>1, <2>2, <2>3, <2>5
<1>6. RemindedWereSold'
  <2>1. \A r \in jobs[j].fresh : r.unit \in DOMAIN units /\ ~InStock(units[r.unit])
    BY RecordedForItsTerm DEF InUse, InStock
  <2> QED
    BY <1>1, <2>1 DEF ReminderInv, RemindedWereSold
<1>7. UnitsTyped'
  BY <1>1 DEF ReminderInv, UnitsTyped
<1> QED
  BY <1>2, <1>4, <1>5, <1>6, <1>7 DEF ReminderInv

\* The life of the units leaves alone what is locked, and keeps every unit
\* that has a reminder, and so every reminder.
LEMMA LifeStepInv ==
    ASSUME ReminderInv, LifeStep
    PROVE  ReminderInv' /\ reminders' = reminders
<1>1. /\ UnitsTyped'
      /\ \A u \in DOMAIN units : ~InStock(units[u]) =>
            u \in DOMAIN units' /\ ~InStock(units'[u])
  BY LifeEffect DEF ReminderInv, LifeStep
<1>2. /\ jobs' = jobs
      /\ reminders' = {r \in reminders : r.unit \in DOMAIN units'}
      /\ \A j \in Jobs : \A u \in Locked(j) :
            u \in DOMAIN units => u \in DOMAIN units' /\ units'[u] = units[u]
  BY DEF LifeStep
<1>3. reminders' = reminders /\ RemindedWereSold'
  BY <1>1, <1>2 DEF ReminderInv, RemindedWereSold
<1>4. \A j \in Jobs : Locked(j)' = Locked(j)
  BY <1>2 DEF Locked
<1>5. RowsHeld'
  BY <1>2, <1>4 DEF ReminderInv, RowsHeld
<1>6. FreshIsNew'
  BY <1>2, <1>3 DEF ReminderInv, FreshIsNew, Returned
<1> QED
  BY <1>1, <1>2, <1>3, <1>5, <1>6 DEF ReminderInv

LEMMA ReminderStepInv == ReminderInv /\ [ReminderNext]_rvars => ReminderInv'
<1>. SUFFICES ASSUME ReminderInv, [ReminderNext]_rvars PROVE ReminderInv'
  OBVIOUS
<1>1. CASE LifeStep
  BY <1>1, LifeStepInv
<1>2. ASSUME NEW j \in Jobs, JobStep(j) PROVE ReminderInv'
  BY <1>2, StartJobInv, LockUnitInv, ReadLogInv, QueueInv, RollbackInv DEF JobStep, DeadlockVictim
<1>3. ASSUME NEW j \in Jobs, JobCrash(j) PROVE ReminderInv'
  BY <1>3, RollbackInv DEF JobCrash
<1>4. CASE UNCHANGED rvars
  BY <1>4 DEF rvars, ReminderInv, UnitsTyped, RowsHeld, FreshIsNew, RemindedWereSold, Locked, Returned
<1> QED
  BY <1>1, <1>2, <1>3, <1>4 DEF ReminderNext

\* send_renewal_reminders: however many runs overlap, none meets the unique
\* constraint one_reminder_per_expiry.
THEOREM IndexNeverRefuses == ReminderSpec => []ReminderIndexNeverRefuses
<1>1. ReminderInv => ReminderIndexNeverRefuses
  BY DEF ReminderInv, FreshIsNew, ReminderIndexNeverRefuses, IndexAccepts
<1> QED
  BY <1>1, ReminderInitInv, ReminderStepInv, PTL DEF ReminderSpec

LEMMA LogGrowsByQueue ==
    ASSUME ReminderInv, [ReminderNext]_rvars
    PROVE  \/ reminders' = reminders
           \/ \E j \in Jobs : Queue(j) /\ reminders' = reminders \cup jobs[j].fresh
<1>1. CASE LifeStep
  BY <1>1, LifeStepInv
<1>2. ASSUME NEW j \in Jobs, JobStep(j) \/ JobCrash(j), ~Queue(j) PROVE reminders' = reminders
  BY <1>2 DEF JobStep, JobCrash, StartJob, LockUnit, ReadLog, DeadlockVictim, Rollback
<1>3. ASSUME NEW j \in Jobs, Queue(j) PROVE reminders' = reminders \cup jobs[j].fresh
  BY <1>3 DEF Queue
<1>4. CASE UNCHANGED rvars
  BY <1>4 DEF rvars
<1> QED
  BY <1>1, <1>2, <1>3, <1>4 DEF ReminderNext, JobStep

\* A reminder is recorded for a unit that a client holds at that moment, and
\* for the term it has, although the run found it in an older snapshot.
THEOREM RemindedRightly == ReminderSpec => RemindedForItsTerm
<1>1. ReminderInv /\ [ReminderNext]_rvars =>
         \A r \in reminders' \ reminders :
            /\ r.unit \in DOMAIN units
            /\ InUse(units[r.unit])
            /\ units[r.unit].expires_at = r.for_expires_at
  BY LogGrowsByQueue, RecordedForItsTerm
<1> QED
  BY <1>1, ReminderInitInv, ReminderStepInv, PTL DEF ReminderSpec, RemindedForItsTerm

-----------------------------------------------------------------------------
\* The notifications and the events: what the log and they know of each other.

\* A run decides on a clock reading, has read finitely many rows, and a
\* reminder says of a unit nothing but its term.
RunsTyped ==
    \A j \in Jobs : jobs[j] # Idle =>
       /\ jobs[j].clock \in 0..Horizon /\ jobs[j].todo \subseteq Units
       /\ IsFiniteSet(DOMAIN jobs[j].rows)
       /\ \A r \in jobs[j].fresh : r = [unit |-> r.unit, for_expires_at |-> r.for_expires_at]

\* The unit of a notification was sold, and so cannot be deleted, and has a term.
NotesTyped ==
    \A n \in DOMAIN notes :
       /\ notes[n] \in Note
       /\ notes[n].unit \in DOMAIN units /\ ~InStock(units[notes[n].unit])
       /\ units[notes[n].unit].expires_at # NoDate

\* None was deleted.
NotesNumbered == \E k \in Nat : DOMAIN notes = 1..k

NotesOf(u) == {n \in DOMAIN notes : notes[n].unit = u}

RemindersOf(u) == {r \in reminders : r.unit = u}

OneNoteEach ==
    \A u \in Units : /\ IsFiniteSet(RemindersOf(u))
                     /\ Cardinality(NotesOf(u)) = Cardinality(RemindersOf(u))

\* A unit's events name the dates it was reminded for, each once.
EventsTell ==
    /\ events \in [Units -> Seq(0..MaxDate)]
    /\ \A u \in Units :
          /\ Len(events[u]) = Cardinality(RemindersOf(u))
          /\ \A r \in RemindersOf(u) : \E k \in DOMAIN events[u] : events[u][k] = r.for_expires_at

BoundsKept == now \in 0..Horizon /\ crashes \in 0..MaxCrashes

JournalInv ==
    /\ ReminderInv /\ BoundsKept
    /\ reminders \subseteq Reminder
    /\ RunsTyped /\ NotesTyped /\ NotesNumbered /\ OneNoteEach /\ EventsTell

LEMMA JournalInitInv == ReminderInit => JournalInv
<1>. SUFFICES ASSUME ReminderInit PROVE JournalInv
  OBVIOUS
<1>1. ReminderInv
  BY ReminderInitInv
<1>2. /\ now = 0 /\ crashes = 0 /\ reminders = {} /\ notes = <<>>
      /\ events = [u \in Units |-> <<>>] /\ \A j \in Jobs : jobs[j] = Idle
  BY DEF ReminderInit, Init
<1>3. DOMAIN notes = {} /\ 1..0 = {}
  BY <1>2
<1>4. BoundsKept
  BY <1>2, LifeAssumption, WindowAssumption DEF BoundsKept
<1>5. NotesNumbered
  BY <1>3 DEF NotesNumbered
<1>6. \A u : NotesOf(u) = {} /\ RemindersOf(u) = {}
  BY <1>2, <1>3 DEF NotesOf, RemindersOf
<1>7. OneNoteEach
  BY <1>6, FS_EmptySet DEF OneNoteEach
<1>8. EventsTell
  <2>1. <<>> \in Seq(0..MaxDate) /\ Len(<<>>) = 0
    OBVIOUS
  <2> QED
    BY <1>2, <1>6, <2>1, FS_EmptySet DEF EventsTell
<1> QED
  BY <1>1, <1>2, <1>3, <1>4, <1>5, <1>7, <1>8 DEF JournalInv, RunsTyped, NotesTyped

\* A step of one run that changes no table.
LEMMA JournalRunMoves ==
    ASSUME JournalInv, ReminderInv', NEW j \in Jobs,
           UNCHANGED <<now, units, reminders, notes, events>>,
           crashes' \in 0..MaxCrashes, \A k \in Jobs \ {j} : jobs'[k] = jobs[k],
           jobs'[j] # Idle =>
              /\ jobs'[j].clock \in 0..Horizon /\ jobs'[j].todo \subseteq Units
              /\ IsFiniteSet(DOMAIN jobs'[j].rows)
              /\ \A r \in jobs'[j].fresh : r = [unit |-> r.unit, for_expires_at |-> r.for_expires_at]
    PROVE  JournalInv'
<1>1. RunsTyped'
  BY DEF JournalInv, RunsTyped
<1>2. \A u : NotesOf(u)' = NotesOf(u) /\ RemindersOf(u)' = RemindersOf(u)
  BY DEF NotesOf, RemindersOf
<1>3. OneNoteEach' /\ EventsTell'
  BY <1>2 DEF JournalInv, OneNoteEach, EventsTell
<1>4. NotesTyped' /\ NotesNumbered' /\ BoundsKept'
  BY DEF JournalInv, NotesTyped, NotesNumbered, BoundsKept
<1> QED
  BY <1>1, <1>3, <1>4 DEF JournalInv

LEMMA RunTodo ==
    ASSUME NEW t, NEW todo, NEW rows, NEW fresh
    PROVE  Run(t, todo, rows, fresh).todo = todo
BY DEF Run

LEMMA StartJobJournal ==
    ASSUME JournalInv, NEW j \in Jobs, NEW t \in ClockReadings, StartJob(j, t)
    PROVE  JournalInv'
<1>1. /\ ReminderInv' /\ UNCHANGED <<now, units, reminders, notes, events, crashes>>
      /\ DOMAIN jobs = Jobs
  BY StartJobInv DEF JournalInv, ReminderInv, StartJob
<1>2. PICK found : /\ found \subseteq DOMAIN units
                   /\ jobs' = [jobs EXCEPT ![j] = Run(t, found, <<>>, {})]
  BY DEF StartJob
<1>3. /\ jobs'[j] = Run(t, found, <<>>, {})
      /\ \A k \in Jobs \ {j} : jobs'[k] = jobs[k]
  BY <1>1, <1>2, JobEffect
<1>4. /\ jobs'[j].clock = t /\ jobs'[j].todo = found
      /\ jobs'[j].rows = <<>> /\ jobs'[j].fresh = {}
  BY <1>3, RunFields, RunTodo
<1>5. t \in 0..Horizon /\ found \subseteq Units /\ crashes' \in 0..MaxCrashes
  BY <1>1, <1>2, LifeAssumption
     DEF ClockReadings, JournalInv, BoundsKept, ReminderInv, UnitsTyped
<1>6. IsFiniteSet(DOMAIN jobs'[j].rows)
  <2>1. DOMAIN jobs'[j].rows = {}
    BY <1>4
  <2> QED
    BY <2>1, FS_EmptySet
<1> QED
  BY <1>1, <1>3, <1>4, <1>5, <1>6, JournalRunMoves

LEMMA LockUnitJournal ==
    ASSUME JournalInv, NEW j \in Jobs, NEW u \in Units, LockUnit(j, u)
    PROVE  JournalInv'
<1>1. /\ ReminderInv' /\ UNCHANGED <<now, units, reminders, notes, events, crashes>>
      /\ DOMAIN jobs = Jobs
      /\ jobs[j] # Idle
  BY LockUnitInv DEF JournalInv, ReminderInv, LockUnit
<1>2. PICK rows :
         /\ rows = IF u \in DOMAIN units THEN Insert(jobs[j].rows, u, units[u]) ELSE jobs[j].rows
         /\ jobs' = [jobs EXCEPT ![j] = Run(jobs[j].clock, jobs[j].todo \ {u}, rows, {})]
  BY <1>1 DEF LockUnit
<1>3. /\ jobs'[j] = Run(jobs[j].clock, jobs[j].todo \ {u}, rows, {})
      /\ \A k \in Jobs \ {j} : jobs'[k] = jobs[k]
  BY <1>1, <1>2, JobEffect
<1>4. /\ jobs'[j].clock = jobs[j].clock /\ jobs'[j].todo = jobs[j].todo \ {u}
      /\ jobs'[j].rows = rows /\ jobs'[j].fresh = {}
  BY <1>3, RunFields, RunTodo
<1>5. /\ jobs[j].clock \in 0..Horizon /\ jobs[j].todo \subseteq Units
      /\ IsFiniteSet(DOMAIN jobs[j].rows) /\ crashes' \in 0..MaxCrashes
  BY <1>1 DEF JournalInv, RunsTyped, BoundsKept
<1>6. DOMAIN rows = DOMAIN jobs[j].rows \/ DOMAIN rows = DOMAIN jobs[j].rows \cup {u}
  BY <1>2 DEF Insert
<1>7. IsFiniteSet(DOMAIN rows)
  BY <1>5, <1>6, FS_AddElement
<1> QED
  BY <1>1, <1>3, <1>4, <1>5, <1>7, JournalRunMoves

LEMMA ReadLogJournal ==
    ASSUME JournalInv, NEW j \in Jobs, ReadLog(j)
    PROVE  JournalInv'
<1>1. /\ ReminderInv' /\ UNCHANGED <<now, units, reminders, notes, events, crashes>>
      /\ DOMAIN jobs = Jobs
      /\ jobs[j] # Idle
  BY ReadLogInv DEF JournalInv, ReminderInv, ReadLog
<1>2. PICK fresh :
         /\ \A r \in fresh : r = [unit |-> r.unit, for_expires_at |-> r.for_expires_at]
         /\ \/ jobs' = [jobs EXCEPT ![j] = Idle]
            \/ jobs' = [jobs EXCEPT ![j] = Run(jobs[j].clock, {}, jobs[j].rows, fresh)]
  <2> DEFINE found == {[unit |-> u, for_expires_at |-> jobs[j].rows[u].expires_at] :
                         u \in Returned(jobs[j])}
  <2>1. jobs' = [jobs EXCEPT ![j] = IF New(found) = {} THEN Idle
                                    ELSE Run(jobs[j].clock, {}, jobs[j].rows, New(found))]
    BY <1>1 DEF ReadLog
  <2>2. \A r \in New(found) : r = [unit |-> r.unit, for_expires_at |-> r.for_expires_at]
    BY DEF New
  <2> HIDE DEF found
  <2> QED
    BY <2>1, <2>2
<1>3. /\ jobs'[j] = Idle \/ jobs'[j] = Run(jobs[j].clock, {}, jobs[j].rows, fresh)
      /\ \A k \in Jobs \ {j} : jobs'[k] = jobs[k]
  BY <1>1, <1>2, JobEffect
<1>4. jobs'[j] # Idle => /\ jobs'[j].clock = jobs[j].clock /\ jobs'[j].todo = {}
                         /\ jobs'[j].rows = jobs[j].rows /\ jobs'[j].fresh = fresh
  BY <1>3, RunFields, RunTodo
<1>5. /\ jobs[j].clock \in 0..Horizon
      /\ IsFiniteSet(DOMAIN jobs[j].rows) /\ crashes' \in 0..MaxCrashes
  BY <1>1 DEF JournalInv, RunsTyped, BoundsKept
<1> QED
  BY <1>1, <1>2, <1>3, <1>4, <1>5, JournalRunMoves

LEMMA RollbackJournal ==
    ASSUME JournalInv, NEW j \in Jobs, Rollback(j), crashes' \in 0..MaxCrashes
    PROVE  JournalInv'
<1>1. ReminderInv' /\ UNCHANGED <<now, units, reminders, notes, events>>
  BY RollbackInv DEF JournalInv, Rollback
<1>2. jobs'[j] = Idle /\ \A k \in Jobs \ {j} : jobs'[k] = jobs[k]
  BY JobEffect DEF Rollback, JournalInv, ReminderInv
<1> QED
  BY <1>1, <1>2, JournalRunMoves

\* Numbers are given out in order, one for each unit noted.
LEMMA LastOfNumbered ==
    ASSUME NEW k \in Nat, DOMAIN notes = 1..k
    PROVE  LastNote = k
<1>1. k \in DOMAIN notes \cup {0} /\ \A m \in DOMAIN notes : m <= k
  OBVIOUS
<1>2. ASSUME NEW n \in DOMAIN notes \cup {0}, \A m \in DOMAIN notes : m <= n
      PROVE  n = k
  <2>1. n \in Nat /\ n <= k
    OBVIOUS
  <2>2. CASE k = 0
    BY <2>1, <2>2
  <2>3. CASE k # 0
    <3>1. k \in DOMAIN notes
      BY <2>3
    <3>2. k <= n
      BY <1>2, <3>1
    <3> QED
      BY <2>1, <3>2
  <2> QED
    BY <2>2, <2>3
<1> QED
  BY <1>1, <1>2 DEF LastNote

LEMMA NotesQueued ==
    ASSUME NEW k \in Nat, DOMAIN notes = 1..k, NEW S, IsFiniteSet(S), QueueNotes(S)
    PROVE  /\ DOMAIN notes' = 1 .. k + Cardinality(S) /\ Cardinality(S) \in Nat
           /\ \A n \in 1..k : n \in DOMAIN notes' /\ notes'[n] = notes[n]
           /\ \A n \in DOMAIN notes' \ 1..k :
                 /\ notes'[n].unit \in S
                 /\ notes'[n].state = "pending" /\ notes'[n].attempts = 0
                 /\ notes'[n] = [unit |-> notes'[n].unit, state |-> "pending", attempts |-> 0]
           /\ \A u \in S : \E n \in DOMAIN notes' \ 1..k :
                 /\ notes'[n].unit = u
                 /\ \A m \in DOMAIN notes' \ 1..k : notes'[m].unit = u => m = n
<1>1. PICK c \in Nat : c = Cardinality(S)
  BY FS_CardinalityType
<1> DEFINE pks == k + 1 .. k + c
<1>2. pks = LastNote + 1 .. LastNote + Cardinality(S)
  BY <1>1, LastOfNumbered
<1>3. PICK unit \in {f \in [pks -> S] : \A n, m \in pks : f[n] = f[m] => n = m} :
         notes' = [n \in DOMAIN notes \cup pks |->
                     IF n \in DOMAIN notes THEN notes[n]
                     ELSE [unit |-> unit[n], state |-> "pending", attempts |-> 0]]
  BY <1>2 DEF QueueNotes
<1>4. 1..k \cup pks = 1 .. k + c /\ pks \cap 1..k = {} /\ (1 .. k + c) \ 1..k = pks
  OBVIOUS
<1>5. Cardinality(pks) = c
  BY FS_Interval
<1> HIDE DEF pks
<1>6. unit \in Injection(pks, S)
  BY <1>3 DEF Injection, IsInjective
<1>7. unit \in Surjection(pks, S)
  BY <1>1, <1>5, <1>6, FS_Injection
<1>8. DOMAIN notes' = 1 .. k + c
  BY <1>3, <1>4
<1>9. \A n \in 1..k : notes'[n] = notes[n]
  BY <1>3
<1>10. \A n \in pks : notes'[n] = [unit |-> unit[n], state |-> "pending", attempts |-> 0]
  BY <1>3, <1>4
<1>11. \A n \in pks : notes'[n].unit = unit[n] /\ unit[n] \in S
  <2>1. unit \in [pks -> S]
    BY <1>3
  <2>2. \A n \in pks : unit[n] \in S
    BY <2>1
  <2>3. ASSUME NEW n \in pks PROVE notes'[n].unit = unit[n]
    <3>1. notes'[n] = [unit |-> unit[n], state |-> "pending", attempts |-> 0]
      BY <1>10
    <3> QED
      BY <3>1
  <2> QED
    BY <2>2, <2>3
<1>12. \A u \in S : \E n \in pks : unit[n] = u
  BY <1>7 DEF Surjection
<1>13. \A u \in S : \E n \in pks : /\ notes'[n].unit = u
                                   /\ \A m \in pks : notes'[m].unit = u => m = n
  <2>1. \A n, m \in pks : unit[n] = unit[m] => n = m
    BY <1>3
  <2>2. SUFFICES ASSUME NEW u \in S
                 PROVE  \E n \in pks : /\ notes'[n].unit = u
                                       /\ \A m \in pks : notes'[m].unit = u => m = n
    OBVIOUS
  <2>3. PICK n \in pks : unit[n] = u
    BY <1>12
  <2>4. notes'[n].unit = u
    BY <1>11, <2>3
  <2>5. ASSUME NEW m \in pks, notes'[m].unit = u PROVE m = n
    <3>1. unit[m] = unit[n]
      BY <1>11, <2>3, <2>5
    <3> QED
      BY <2>1, <3>1
  <2> QED
    BY <2>4, <2>5
<1>14. DOMAIN notes' \ 1..k = pks
  BY <1>4, <1>8
<1>15. \A n \in pks : /\ notes'[n].state = "pending" /\ notes'[n].attempts = 0
                      /\ notes'[n] = [unit |-> notes'[n].unit, state |-> "pending", attempts |-> 0]
  BY <1>10, <1>11
<1>16. \A n \in 1..k : n \in DOMAIN notes'
  BY <1>4, <1>8
<1>17. DOMAIN notes' = 1 .. k + Cardinality(S)
  BY <1>1, <1>8
<1>18. Cardinality(S) \in Nat
  BY <1>1
<1>19. \A u \in S : \E n \in DOMAIN notes' \ 1..k :
          /\ notes'[n].unit = u
          /\ \A m \in DOMAIN notes' \ 1..k : notes'[m].unit = u => m = n
  BY <1>13, <1>14
<1>20. \A n \in DOMAIN notes' \ 1..k :
          /\ notes'[n].unit \in S
          /\ notes'[n].state = "pending" /\ notes'[n].attempts = 0
          /\ notes'[n] = [unit |-> notes'[n].unit, state |-> "pending", attempts |-> 0]
  <2>1. \A n \in pks : notes'[n].unit \in S
    BY <1>11
  <2> QED
    BY <1>14, <1>15, <2>1
<1> QED
  BY <1>9, <1>16, <1>17, <1>18, <1>19, <1>20

\* What run j queues notifications for: units sold and dated, finitely many,
\* each with one reminder that is new.
LEMMA NotedRightly ==
    ASSUME JournalInv, NEW j \in Jobs, Queue(j)
    PROVE  /\ IsFiniteSet(Noted(jobs[j]))
           /\ jobs[j].fresh \subseteq Reminder /\ jobs[j].fresh \cap reminders = {}
           /\ \A u \in Noted(jobs[j]) :
                 /\ u \in Units /\ u \in DOMAIN units /\ ~InStock(units[u])
                 /\ units[u].expires_at # NoDate
                 /\ \E r \in jobs[j].fresh : /\ {q \in jobs[j].fresh : q.unit = u} = {r}
                                              /\ r.for_expires_at = jobs[j].rows[u].expires_at
<1>1. jobs[j] # Idle /\ ReminderInv
  BY DEF Queue, JournalInv
<1>2. ASSUME NEW r \in jobs[j].fresh
      PROVE  /\ r = [unit |-> r.unit, for_expires_at |-> r.for_expires_at]
             /\ r.unit \in DOMAIN jobs[j].rows
             /\ r.for_expires_at = jobs[j].rows[r.unit].expires_at
             /\ r.for_expires_at # NoDate /\ r \notin reminders
  BY <1>1 DEF JournalInv, RunsTyped, ReminderInv, FreshIsNew, Returned, Due
<1>3. ASSUME NEW r \in jobs[j].fresh
      PROVE  /\ r.unit \in DOMAIN units /\ ~InStock(units[r.unit])
             /\ units[r.unit].expires_at = r.for_expires_at
             /\ r.unit \in Units /\ units[r.unit] \in Row
  <2>1. r.unit \in DOMAIN units /\ InUse(units[r.unit]) /\ units[r.unit].expires_at = r.for_expires_at
    BY <1>1, RecordedForItsTerm
  <2>2. ~InStock(units[r.unit])
    BY <2>1 DEF InUse, InStock
  <2> QED
    BY <1>1, <2>1, <2>2 DEF ReminderInv, UnitsTyped
<1>4. IsFiniteSet(Noted(jobs[j]))
  <2>1. IsFiniteSet(DOMAIN jobs[j].rows)
    BY <1>1 DEF JournalInv, RunsTyped
  <2>2. Noted(jobs[j]) \subseteq DOMAIN jobs[j].rows
    BY <1>2 DEF Noted
  <2> QED
    BY <2>1, <2>2, FS_Subset
<1>5. jobs[j].fresh \subseteq Reminder
  <2>1. SUFFICES ASSUME NEW r \in jobs[j].fresh PROVE r \in Reminder
    OBVIOUS
  <2>2. r.for_expires_at \in 0..MaxDate /\ r.unit \in Units
    BY <1>2, <1>3 DEF Row
  <2>3. r = [unit |-> r.unit, for_expires_at |-> r.for_expires_at]
    BY <1>2
  <2> QED
    BY <2>2, <2>3 DEF Reminder
<1>6. ASSUME NEW u \in Noted(jobs[j])
      PROVE  /\ u \in Units /\ u \in DOMAIN units /\ ~InStock(units[u])
             /\ units[u].expires_at # NoDate
             /\ \E r \in jobs[j].fresh : /\ {q \in jobs[j].fresh : q.unit = u} = {r}
                                          /\ r.for_expires_at = jobs[j].rows[u].expires_at
  <2>1. PICK r \in jobs[j].fresh : r.unit = u
    BY DEF Noted
  <2>2. ASSUME NEW q \in jobs[j].fresh, q.unit = u PROVE q = r
    <3>1. q.for_expires_at = r.for_expires_at
      BY <1>2, <2>1, <2>2
    <3> QED
      BY <1>2, <2>1, <2>2, <3>1
  <2>3. {q \in jobs[j].fresh : q.unit = u} = {r}
    BY <2>1, <2>2
  <2> QED
    BY <1>2, <1>3, <2>1, <2>3
<1> QED
  BY <1>2, <1>4, <1>5, <1>6

LEMMA QueueJournal ==
    ASSUME JournalInv, NEW j \in Jobs, Queue(j)
    PROVE  JournalInv'
<1>1. /\ reminders' = reminders \cup jobs[j].fresh /\ QueueNotes(Noted(jobs[j]))
      /\ UNCHANGED <<now, units, crashes>> /\ ReminderInv'
  BY QueueInv DEF Queue, JournalInv
<1>2. jobs'[j] = Idle /\ \A k \in Jobs \ {j} : jobs'[k] = jobs[k]
  BY JobEffect DEF Queue, JournalInv, ReminderInv
<1>3. PICK k \in Nat : DOMAIN notes = 1..k
  BY DEF JournalInv, NotesNumbered
<1> DEFINE S == Noted(jobs[j])
<1>4. /\ IsFiniteSet(S)
      /\ jobs[j].fresh \subseteq Reminder /\ jobs[j].fresh \cap reminders = {}
      /\ \A u \in S : /\ u \in Units /\ u \in DOMAIN units /\ ~InStock(units[u])
                      /\ units[u].expires_at # NoDate
                      /\ \E r \in jobs[j].fresh :
                            /\ {q \in jobs[j].fresh : q.unit = u} = {r}
                            /\ r.for_expires_at = jobs[j].rows[u].expires_at
  BY NotedRightly
<1>5. \A r \in jobs[j].fresh : r.unit \in S
  BY DEF Noted
<1> HIDE DEF S
<1>6. QueueNotes(S)
  BY <1>1 DEF S
<1>7. /\ DOMAIN notes' = 1 .. k + Cardinality(S) /\ Cardinality(S) \in Nat
      /\ \A n \in 1..k : n \in DOMAIN notes' /\ notes'[n] = notes[n]
      /\ \A n \in DOMAIN notes' \ 1..k :
            /\ notes'[n].unit \in S
            /\ notes'[n].state = "pending" /\ notes'[n].attempts = 0
            /\ notes'[n] = [unit |-> notes'[n].unit, state |-> "pending", attempts |-> 0]
      /\ \A u \in S : \E n \in DOMAIN notes' \ 1..k :
            /\ notes'[n].unit = u
            /\ \A m \in DOMAIN notes' \ 1..k : notes'[m].unit = u => m = n
  BY <1>3, <1>4, <1>6, NotesQueued
<1>8. RunsTyped' /\ BoundsKept'
  BY <1>1, <1>2 DEF JournalInv, RunsTyped, BoundsKept
<1>9. reminders' \subseteq Reminder
  BY <1>1, <1>4 DEF JournalInv
<1>10. NotesNumbered'
  BY <1>7 DEF NotesNumbered
<1>11. NotesTyped'
  <2>1. ASSUME NEW n \in DOMAIN notes' \ 1..k
        PROVE  /\ notes'[n] \in Note
               /\ notes'[n].unit \in DOMAIN units /\ ~InStock(units[notes'[n].unit])
               /\ units[notes'[n].unit].expires_at # NoDate
    <3>1. PICK u \in S : u = notes'[n].unit
      BY <1>7
    <3>2. notes'[n] = [unit |-> u, state |-> "pending", attempts |-> 0]
      BY <1>7, <3>1
    <3>3. /\ u \in Units /\ u \in DOMAIN units /\ ~InStock(units[u])
          /\ units[u].expires_at # NoDate
      BY <1>4
    <3>4. notes'[n] \in Note
      BY <3>2, <3>3 DEF Note
    <3> QED
      BY <3>1, <3>3, <3>4
  <2>2. ASSUME NEW n \in 1..k
        PROVE  /\ notes'[n] \in Note
               /\ notes'[n].unit \in DOMAIN units /\ ~InStock(units[notes'[n].unit])
               /\ units[notes'[n].unit].expires_at # NoDate
    BY <1>3, <1>7 DEF JournalInv, NotesTyped
  <2> QED
    BY <1>1, <2>1, <2>2 DEF NotesTyped
<1>12. ASSUME NEW u \in Units
       PROVE  /\ IsFiniteSet(RemindersOf(u)')
              /\ Cardinality(NotesOf(u)') = Cardinality(RemindersOf(u)')
  <2>1. /\ IsFiniteSet(RemindersOf(u))
        /\ Cardinality(NotesOf(u)) = Cardinality(RemindersOf(u))
    BY DEF JournalInv, OneNoteEach
  <2>2. RemindersOf(u)' = RemindersOf(u) \cup {q \in jobs[j].fresh : q.unit = u}
    BY <1>1 DEF RemindersOf
  <2>3. NotesOf(u) = {n \in 1..k : notes[n].unit = u}
    BY <1>3 DEF NotesOf
  <2>4. NotesOf(u)' = NotesOf(u) \cup {n \in DOMAIN notes' \ 1..k : notes'[n].unit = u}
    BY <1>7, <2>3 DEF NotesOf
  <2>5. IsFiniteSet(NotesOf(u))
    <3>1. IsFiniteSet(1..k)
      BY FS_Interval
    <3>2. NotesOf(u) \in SUBSET (1..k)
      BY <2>3
    <3> QED
      BY <3>1, <3>2, FS_Subset
  <2>6. CASE u \notin S
    <3>1. {q \in jobs[j].fresh : q.unit = u} = {}
      BY <1>5, <2>6
    <3>2. {n \in DOMAIN notes' \ 1..k : notes'[n].unit = u} = {}
      BY <1>7, <2>6
    <3> QED
      BY <2>1, <2>2, <2>4, <3>1, <3>2
  <2>7. CASE u \in S
    <3>1. PICK r \in jobs[j].fresh : {q \in jobs[j].fresh : q.unit = u} = {r}
      BY <1>4, <2>7
    <3>2. PICK n \in DOMAIN notes' \ 1..k :
             /\ notes'[n].unit = u
             /\ \A m \in DOMAIN notes' \ 1..k : notes'[m].unit = u => m = n
      BY <1>7, <2>7
    <3>3. {m \in DOMAIN notes' \ 1..k : notes'[m].unit = u} = {n}
      BY <3>2
    <3>4. r \notin RemindersOf(u) /\ n \notin NotesOf(u)
      BY <1>4, <2>3, <3>1, <3>2 DEF RemindersOf
    <3>5. RemindersOf(u)' = RemindersOf(u) \cup {r} /\ NotesOf(u)' = NotesOf(u) \cup {n}
      BY <2>2, <2>4, <3>1, <3>3
    <3>6. /\ IsFiniteSet(RemindersOf(u) \cup {r})
          /\ Cardinality(RemindersOf(u) \cup {r}) = Cardinality(RemindersOf(u)) + 1
      BY <2>1, <3>4, FS_AddElement
    <3>7. Cardinality(NotesOf(u) \cup {n}) = Cardinality(NotesOf(u)) + 1
      BY <2>5, <3>4, FS_AddElement
    <3> QED
      BY <2>1, <3>5, <3>6, <3>7
  <2> QED
    BY <2>6, <2>7
<1>13. OneNoteEach'
  BY <1>12 DEF OneNoteEach
<1>14. events' = [u \in Units |-> IF u \in S THEN Append(events[u], jobs[j].rows[u].expires_at)
                                             ELSE events[u]]
  BY DEF Queue, S
<1>15. ASSUME NEW u \in Units
       PROVE  /\ events'[u] \in Seq(0..MaxDate)
              /\ Len(events'[u]) = Cardinality(RemindersOf(u)')
              /\ \A q \in RemindersOf(u)' :
                    \E m \in DOMAIN events'[u] : events'[u][m] = q.for_expires_at
  <2>1. /\ events[u] \in Seq(0..MaxDate)
        /\ Len(events[u]) = Cardinality(RemindersOf(u)) /\ IsFiniteSet(RemindersOf(u))
        /\ \A q \in RemindersOf(u) : \E m \in DOMAIN events[u] : events[u][m] = q.for_expires_at
    BY DEF JournalInv, EventsTell, OneNoteEach
  <2>2. RemindersOf(u)' = RemindersOf(u) \cup {q \in jobs[j].fresh : q.unit = u}
    BY <1>1 DEF RemindersOf
  <2>3. CASE u \notin S
    <3>1. {q \in jobs[j].fresh : q.unit = u} = {} /\ events'[u] = events[u]
      BY <1>5, <1>14, <2>3
    <3> QED
      BY <2>1, <2>2, <3>1
  <2>4. CASE u \in S
    <3>1. PICK q \in jobs[j].fresh : /\ {p \in jobs[j].fresh : p.unit = u} = {q}
                                     /\ q.for_expires_at = jobs[j].rows[u].expires_at
      BY <1>4, <2>4
    <3>2. PICK e \in 0..MaxDate : e = q.for_expires_at
      BY <1>4 DEF Reminder
    <3>3. events'[u] = Append(events[u], e)
      BY <1>14, <2>4, <3>1, <3>2
    <3>4. /\ Append(events[u], e) \in Seq(0..MaxDate)
          /\ Len(events[u]) \in Nat /\ Len(Append(events[u], e)) = Len(events[u]) + 1
          /\ \A m \in DOMAIN events[u] : /\ m \in DOMAIN Append(events[u], e)
                                         /\ Append(events[u], e)[m] = events[u][m]
          /\ Len(events[u]) + 1 \in DOMAIN Append(events[u], e)
          /\ Append(events[u], e)[Len(events[u]) + 1] = e
      <4>1. Append(events[u], e) \in Seq(0..MaxDate)
        BY <2>1
      <4>2. Len(events[u]) \in Nat /\ Len(Append(events[u], e)) = Len(events[u]) + 1
        BY <2>1
      <4>3. \A m \in DOMAIN events[u] : /\ m \in DOMAIN Append(events[u], e)
                                        /\ Append(events[u], e)[m] = events[u][m]
        BY <2>1
      <4>4. Append(events[u], e)[Len(events[u]) + 1] = e
        BY <2>1
      <4>5. Len(events[u]) + 1 \in DOMAIN Append(events[u], e)
        BY <4>1, <4>2
      <4> QED
        BY <4>1, <4>2, <4>3, <4>4, <4>5
    <3>5. q \notin RemindersOf(u)
      BY <1>4, <3>1 DEF RemindersOf
    <3>6. Cardinality(RemindersOf(u)') = Cardinality(RemindersOf(u)) + 1
      <4>1. Cardinality(RemindersOf(u) \cup {q}) = Cardinality(RemindersOf(u)) + 1
        BY <2>1, <3>5, FS_AddElement
      <4> QED
        BY <2>2, <3>1, <4>1
    <3>7. Len(events[u]) + 1 \in DOMAIN events'[u] /\ events'[u][Len(events[u]) + 1] = e
      BY <3>3, <3>4
    <3>8. \A m \in DOMAIN events[u] : m \in DOMAIN events'[u] /\ events'[u][m] = events[u][m]
      BY <3>3, <3>4
    <3>9. \A p \in RemindersOf(u)' : p \in RemindersOf(u) \/ p = q
      BY <2>2, <3>1
    <3>10. \A p \in RemindersOf(u)' :
              \E m \in DOMAIN events'[u] : events'[u][m] = p.for_expires_at
      BY <2>1, <3>2, <3>7, <3>8, <3>9
    <3> QED
      BY <2>1, <3>3, <3>4, <3>6, <3>10
  <2> QED
    BY <2>3, <2>4
<1>16. EventsTell'
  BY <1>14, <1>15 DEF EventsTell
<1> QED
  BY <1>1, <1>8, <1>9, <1>10, <1>11, <1>13, <1>16 DEF JournalInv

\* A unit with an event was sold.
LEMMA LoggedWereSold ==
    ASSUME RemindedWereSold, OneNoteEach, EventsTell, NEW u \in Units, events[u] # <<>>
    PROVE  u \in DOMAIN units /\ ~InStock(units[u])
<1>1. events[u] \in Seq(0..MaxDate) /\ Len(events[u]) = Cardinality(RemindersOf(u))
  BY DEF EventsTell
<1>2. Len(events[u]) # 0
  BY <1>1
<1>3. RemindersOf(u) # {}
  BY <1>1, <1>2, FS_EmptySet
<1> QED
  BY <1>3 DEF RemindersOf, RemindedWereSold

\* So the life of the units orphans no event.
LEMMA EventsOutliveUnits ==
    ASSUME UnitsTyped, RemindedWereSold, OneNoteEach, EventsTell, LifeStep
    PROVE  events' = events
<1>1. \A u \in DOMAIN units : ~InStock(units[u]) => u \in DOMAIN units'
  BY LifeEffect DEF LifeStep
<1>2. \A u \in Units : events[u] # <<>> => u \in DOMAIN units'
  BY <1>1, LoggedWereSold
<1>3. events = [u \in Units |-> events[u]]
  BY DEF EventsTell
<1>4. events' = [u \in Units |-> IF u \in DOMAIN units' THEN events[u] ELSE <<>>]
  BY DEF LifeStep
<1> QED
  BY <1>2, <1>3, <1>4

\* The life of the units deletes no notification and no term of one.
LEMMA NotesOutliveUnits ==
    ASSUME UnitsTyped, NotesTyped, LifeStep
    PROVE  /\ DOMAIN notes' = DOMAIN notes /\ \A n \in DOMAIN notes : notes'[n] = notes[n]
           /\ NotesTyped'
<1>1. \A u \in DOMAIN units : ~InStock(units[u]) => u \in DOMAIN units' /\ ~InStock(units'[u])
  BY LifeEffect DEF LifeStep
<1>2. notes' = Only(notes, {n \in DOMAIN notes : notes[n].unit \in DOMAIN units'})
  BY DEF LifeStep
<1>3. DOMAIN notes' = DOMAIN notes /\ \A n \in DOMAIN notes : notes'[n] = notes[n]
  BY <1>1, <1>2 DEF NotesTyped, Only
<1>4. \A u \in DOMAIN units :
         u \in DOMAIN units' /\ units[u].expires_at # NoDate => units'[u].expires_at # NoDate
  BY TermsStay DEF LifeStep
<1> QED
  BY <1>1, <1>3, <1>4 DEF NotesTyped

LEMMA LifeStepJournal ==
    ASSUME JournalInv, LifeStep
    PROVE  JournalInv'
<1>1. ReminderInv' /\ reminders' = reminders /\ UNCHANGED <<jobs, crashes>>
  BY LifeStepInv DEF JournalInv, LifeStep
<1>2. /\ DOMAIN notes' = DOMAIN notes /\ \A n \in DOMAIN notes : notes'[n] = notes[n]
      /\ NotesTyped'
  BY NotesOutliveUnits DEF JournalInv, ReminderInv
<1>3. now' \in 0..Horizon
  <2>1. now' = now \/ (now < Horizon /\ now' = now + 1)
    BY DEF LifeStep, Next, Tick
  <2> QED
    BY <2>1, LifeAssumption DEF JournalInv, BoundsKept
<1>4. \A u : NotesOf(u)' = NotesOf(u) /\ RemindersOf(u)' = RemindersOf(u)
  BY <1>1, <1>2 DEF NotesOf, RemindersOf
<1>5. OneNoteEach' /\ EventsTell'
  <2>1. events' = events
    BY EventsOutliveUnits DEF JournalInv, ReminderInv
  <2> QED
    BY <1>4, <2>1 DEF JournalInv, OneNoteEach, EventsTell
<1>6. NotesNumbered' /\ RunsTyped' /\ BoundsKept'
  BY <1>1, <1>2, <1>3 DEF JournalInv, NotesNumbered, RunsTyped, BoundsKept
<1> QED
  BY <1>1, <1>2, <1>5, <1>6 DEF JournalInv

LEMMA JournalStepInv == JournalInv /\ [ReminderNext]_rvars => JournalInv'
<1>. SUFFICES ASSUME JournalInv, [ReminderNext]_rvars PROVE JournalInv'
  OBVIOUS
<1>1. CASE LifeStep
  BY <1>1, LifeStepJournal
<1>2. crashes \in 0..MaxCrashes
  BY DEF JournalInv, BoundsKept
<1>3. ASSUME NEW j \in Jobs, JobStep(j) PROVE JournalInv'
  <2>1. ASSUME DeadlockVictim(j) PROVE JournalInv'
    BY <1>2, <2>1, RollbackJournal DEF DeadlockVictim
  <2> QED
    BY <1>3, <2>1, StartJobJournal, LockUnitJournal, ReadLogJournal, QueueJournal DEF JobStep
<1>4. ASSUME NEW j \in Jobs, JobCrash(j) PROVE JournalInv'
  <2>1. Rollback(j) /\ crashes' \in 0..MaxCrashes
    BY <1>2, <1>4, WindowAssumption DEF JobCrash
  <2> QED
    BY <2>1, RollbackJournal
<1>5. CASE UNCHANGED rvars
  <2>1. ReminderInv'
    BY <1>5, ReminderStepInv DEF JournalInv
  <2>2. UNCHANGED <<now, reminders, notes, events, jobs, crashes, units>>
    BY <1>5 DEF rvars
  <2>3. \A u : NotesOf(u)' = NotesOf(u) /\ RemindersOf(u)' = RemindersOf(u)
    BY <2>2 DEF NotesOf, RemindersOf
  <2> QED
    BY <2>1, <2>2, <2>3
       DEF JournalInv, OneNoteEach, EventsTell, NotesNumbered, NotesTyped, RunsTyped, BoundsKept
<1> QED
  BY <1>1, <1>3, <1>4, <1>5 DEF ReminderNext

\* send_renewal_reminders commits the log, the notifications and the events
\* together: one of each for a reminder of a unit, whatever runs overlap or die.
THEOREM OneNoteForEach == ReminderSpec => []OneNotePerReminder
<1>1. JournalInv => OneNotePerReminder
  BY DEF JournalInv, OneNoteEach, EventsTell, OneNotePerReminder, NotesOf, RemindersOf
<1> QED
  BY <1>1, JournalInitInv, JournalStepInv, PTL DEF ReminderSpec

\* Only Queue writes to a unit's events, and it appends.
LEMMA EventsGrow ==
    ASSUME JournalInv, [ReminderNext]_rvars, NEW u \in Units
    PROVE  \A k \in DOMAIN events[u] : k \in DOMAIN events'[u] /\ events'[u][k] = events[u][k]
<1>1. CASE LifeStep
  BY <1>1, EventsOutliveUnits DEF JournalInv, ReminderInv
<1>2. ASSUME NEW j \in Jobs, JobStep(j) \/ JobCrash(j), ~Queue(j) PROVE events' = events
  BY <1>2 DEF JobStep, JobCrash, StartJob, LockUnit, ReadLog, DeadlockVictim, Rollback
<1>3. ASSUME NEW j \in Jobs, Queue(j)
      PROVE  \A k \in DOMAIN events[u] : k \in DOMAIN events'[u] /\ events'[u][k] = events[u][k]
  <2>1. events[u] \in Seq(0..MaxDate)
    BY DEF JournalInv, EventsTell
  <2>2. events'[u] = IF u \in Noted(jobs[j])
                     THEN Append(events[u], jobs[j].rows[u].expires_at) ELSE events[u]
    BY <1>3 DEF Queue
  <2>3. CASE u \notin Noted(jobs[j])
    BY <2>2, <2>3
  <2>4. CASE u \in Noted(jobs[j])
    <3>1. PICK r \in jobs[j].fresh : r.for_expires_at = jobs[j].rows[u].expires_at
      BY <1>3, <2>4, NotedRightly
    <3>2. r \in Reminder
      BY <1>3, NotedRightly
    <3>3. PICK e \in 0..MaxDate : e = r.for_expires_at
      BY <3>2 DEF Reminder
    <3>4. events'[u] = Append(events[u], e)
      BY <2>2, <2>4, <3>1, <3>3
    <3>5. \A k \in DOMAIN events[u] : /\ k \in DOMAIN Append(events[u], e)
                                      /\ Append(events[u], e)[k] = events[u][k]
      BY <2>1
    <3> QED
      BY <3>4, <3>5
  <2> QED
    BY <2>3, <2>4
<1>4. CASE UNCHANGED rvars
  BY <1>4 DEF rvars
<1> QED
  BY <1>1, <1>2, <1>3, <1>4 DEF ReminderNext, JobStep

\* Nothing that happens to a unit makes the job forget a reminder, or an event
\* lose it: who is reminded was sold, and an issue PROTECTs the unit.
THEOREM LogNeverForgets == ReminderSpec => RemindersKept
<1>1. JournalInv /\ [ReminderNext]_rvars =>
         /\ reminders \subseteq reminders'
         /\ \A u \in Units : \A k \in DOMAIN events[u] :
               k \in DOMAIN events'[u] /\ events'[u][k] = events[u][k]
  BY LogGrowsByQueue, EventsGrow DEF JournalInv
<1> QED
  BY <1>1, JournalInitInv, JournalStepInv, PTL DEF ReminderSpec, RemindersKept

\* What an open run knows: its rows are the units', and what it will record
\* are reminders.
LEMMA RunsKnowUnits ==
    ASSUME JournalInv, NEW j \in Jobs, jobs[j] # Idle
    PROVE  /\ DOMAIN jobs[j].rows \subseteq Units
           /\ \A u \in DOMAIN jobs[j].rows : jobs[j].rows[u] \in Row
           /\ jobs[j].fresh \subseteq Reminder
<1>1. ASSUME NEW u \in DOMAIN jobs[j].rows PROVE u \in Units /\ jobs[j].rows[u] \in Row
  <2>1. u \in DOMAIN units /\ jobs[j].rows[u] = units[u]
    BY DEF Locked, JournalInv, ReminderInv, RowsHeld
  <2> QED
    BY <2>1 DEF JournalInv, ReminderInv, UnitsTyped
<1>2. ASSUME NEW r \in jobs[j].fresh PROVE r \in Reminder
  <2>1. /\ r = [unit |-> r.unit, for_expires_at |-> r.for_expires_at]
        /\ r.unit \in DOMAIN jobs[j].rows
        /\ r.for_expires_at = jobs[j].rows[r.unit].expires_at /\ r.for_expires_at # NoDate
    BY DEF JournalInv, RunsTyped, ReminderInv, FreshIsNew, Returned, Due
  <2>2. r.unit \in Units /\ r.for_expires_at \in 0..MaxDate
    BY <1>1, <2>1 DEF Row
  <2> QED
    BY <2>1, <2>2 DEF Reminder
<1> QED
  BY <1>1, <1>2

\* The tables and the runs of the reminder job hold values of their types, and
\* a run never reads a NULL expiry into a reminder.
THEOREM RemindersTyped == ReminderSpec => []ReminderTypeOK
<1>1. JournalInv => ReminderTypeOK
  <2>. SUFFICES ASSUME JournalInv PROVE ReminderTypeOK
    OBVIOUS
  <2>1. DOMAIN notes \subseteq Nat /\ \A n \in DOMAIN notes : notes[n] \in Note
    BY DEF JournalInv, NotesNumbered, NotesTyped
  <2>2. \A j \in Jobs : jobs[j] # Idle =>
           /\ jobs[j].clock \in 0..Horizon /\ jobs[j].todo \subseteq Units
           /\ DOMAIN jobs[j].rows \subseteq Units
           /\ \A u \in DOMAIN jobs[j].rows : jobs[j].rows[u] \in Row
           /\ jobs[j].fresh \subseteq Reminder
    BY RunsKnowUnits DEF JournalInv, RunsTyped
  <2> QED
    BY <2>1, <2>2 DEF JournalInv, BoundsKept, EventsTell, ReminderTypeOK
<1> QED
  BY <1>1, JournalInitInv, JournalStepInv, PTL DEF ReminderSpec

=============================================================================
