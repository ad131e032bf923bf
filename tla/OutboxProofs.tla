---------------------------- MODULE OutboxProofs ----------------------------
(***************************************************************************)
(* Proofs about the delivery of notifications, for any number of workers,  *)
(* notifications and attempts and any faults: row locks keep workers       *)
(* apart, every message is accounted for, notifications only move forward. *)
(***************************************************************************)
EXTENDS Outbox, RemindersProofs

\* No message goes out for a unit without a term.
Message == 0..MaxDate

Mailboxes ==
    /\ DOMAIN inbox = DOMAIN notes /\ DOMAIN unacked = DOMAIN notes
    /\ \A n \in DOMAIN notes :
          inbox[n] \in Seq(Message) /\ unacked[n] \in Nat

\* A held notification exists, is pending and has one holder.
Held ==
    \A w \in Workers : \A n : Holds(w, n) =>
       /\ n \in DOMAIN notes /\ notes[n].state = "pending"
       /\ \A v \in Workers \ {w} : ~Holds(v, n)

OutboxInv ==
    /\ JournalInv /\ DOMAIN workers = Workers
    /\ Mailboxes /\ Held
    /\ ParkedWhenBurned /\ MessagesAccountedFor

-----------------------------------------------------------------------------

LEMMA OutboxInitInv == OutboxInit => OutboxInv
<1>. SUFFICES ASSUME OutboxInit PROVE OutboxInv
  OBVIOUS
<1>1. /\ ReminderInit /\ DOMAIN notes = {} /\ DOMAIN inbox = {} /\ DOMAIN unacked = {}
      /\ DOMAIN workers = Workers /\ \A w \in Workers : At(w, "idle")
  BY DEF OutboxInit, ReminderInit, At, NoRun
<1>2. JournalInv
  BY <1>1, JournalInitInv
<1> QED
  BY <1>1, <1>2 DEF OutboxInv, Mailboxes, Held, Holds, ParkedWhenBurned,
                    MessagesAccountedFor

\* What the reminder job and the life of the units do to notifications: what
\* there is stays as it is, and what is new is pending and unattempted.
LEMMA NotesKept ==
    ASSUME OutboxInv, ReminderNext
    PROVE  /\ \A n \in DOMAIN notes : n \in DOMAIN notes' /\ notes'[n] = notes[n]
           /\ \A n \in DOMAIN notes' \ DOMAIN notes :
                 notes'[n].state = "pending" /\ notes'[n].attempts = 0
<1>1. CASE LifeStep
  BY <1>1, NotesOutliveUnits DEF OutboxInv, JournalInv, ReminderInv
<1>2. ASSUME NEW j \in Jobs, Queue(j)
      PROVE  /\ \A n \in DOMAIN notes : n \in DOMAIN notes' /\ notes'[n] = notes[n]
             /\ \A n \in DOMAIN notes' \ DOMAIN notes :
                   notes'[n].state = "pending" /\ notes'[n].attempts = 0
  <2>1. QueueNotes(Noted(jobs[j]))
    BY <1>2 DEF Queue
  <2>2. IsFiniteSet(Noted(jobs[j]))
    BY <1>2, NotedRightly DEF OutboxInv
  <2>3. PICK k \in Nat : DOMAIN notes = 1..k
    BY DEF OutboxInv, JournalInv, NotesNumbered
  <2> QED
    BY <2>1, <2>2, <2>3, NotesQueued
<1>3. ASSUME NEW j \in Jobs, JobStep(j) \/ JobCrash(j), ~Queue(j)
      PROVE  notes' = notes
  BY <1>3 DEF JobStep, JobCrash, StartJob, LockUnit, ReadLog, DeadlockVictim, Rollback
<1> QED
  BY <1>1, <1>2, <1>3 DEF ReminderNext, JobStep

LEMMA RemindersStepInv ==
    ASSUME OutboxInv, RemindersStep
    PROVE  OutboxInv'
<1>1. /\ ReminderNext /\ workers' = workers
      /\ inbox' = [n \in DOMAIN notes' |-> IF n \in DOMAIN inbox THEN inbox[n] ELSE <<>>]
      /\ unacked' = [n \in DOMAIN notes' |-> IF n \in DOMAIN unacked THEN unacked[n] ELSE 0]
  BY DEF RemindersStep
<1>2. JournalInv'
  BY <1>1, JournalStepInv DEF OutboxInv
<1>3. /\ \A n \in DOMAIN notes : n \in DOMAIN notes' /\ notes'[n] = notes[n]
      /\ \A n \in DOMAIN notes' \ DOMAIN notes :
            notes'[n].state = "pending" /\ notes'[n].attempts = 0
  BY <1>1, NotesKept
<1>4. /\ DOMAIN inbox' = DOMAIN notes' /\ DOMAIN unacked' = DOMAIN notes'
      /\ \A n \in DOMAIN notes : inbox'[n] = inbox[n] /\ unacked'[n] = unacked[n]
      /\ \A n \in DOMAIN notes' \ DOMAIN notes : inbox'[n] = <<>> /\ unacked'[n] = 0
  BY <1>1, <1>3 DEF OutboxInv, Mailboxes
<1>5. Mailboxes'
  <2>1. <<>> \in Seq(Message)
    OBVIOUS
  <2>2. ASSUME NEW n \in DOMAIN notes'
        PROVE  inbox'[n] \in Seq(Message) /\ unacked'[n] \in Nat
    <3>1. CASE n \in DOMAIN notes
      BY <1>4, <3>1 DEF OutboxInv, Mailboxes
    <3>2. CASE n \notin DOMAIN notes
      <4>1. inbox'[n] = <<>> /\ unacked'[n] = 0
        BY <1>4, <3>2
      <4> QED
        BY <2>1, <4>1
    <3> QED
      BY <3>1, <3>2
  <2> QED
    BY <1>4, <2>2 DEF Mailboxes
<1>6. \A w, n : (Holds(w, n)' <=> Holds(w, n)) /\ (At(w, "accepted")' <=> At(w, "accepted"))
  BY <1>1 DEF Holds, Current, At
<1>7. Held'
  BY <1>3, <1>6 DEF OutboxInv, Held
<1>8. ParkedWhenBurned'
  <2>1. 0 < MaxAttempts /\ 0 <= MaxAttempts
    BY DeliveryAssumption
  <2> QED
    BY <1>3, <2>1 DEF OutboxInv, ParkedWhenBurned
<1>9. MessagesAccountedFor'
  <2>1. \A n : Accepted(n)' <=> Accepted(n)
    BY <1>6 DEF Accepted
  <2>2. ASSUME NEW n \in DOMAIN notes' \ DOMAIN notes PROVE ~Accepted(n)
    BY <2>2 DEF Accepted, OutboxInv, Held
  <2>3. Len(<<>>) = 0
    OBVIOUS
  <2> QED
    BY <1>3, <1>4, <2>1, <2>2, <2>3 DEF OutboxInv, MessagesAccountedFor, Bit
<1> QED
  BY <1>1, <1>2, <1>3, <1>5, <1>7, <1>8, <1>9 DEF OutboxInv

-----------------------------------------------------------------------------
\* The workers.

LEMMA WorkerEffect ==
    ASSUME NEW w \in Workers, NEW x, DOMAIN workers = Workers, workers' = [workers EXCEPT ![w] = x]
    PROVE  /\ DOMAIN workers' = Workers /\ workers'[w] = x
           /\ \A v \in Workers \ {w} : workers'[v] = workers[v]
OBVIOUS

LEMMA MoveEffect ==
    ASSUME NEW w \in Workers, NEW stage, DOMAIN workers = Workers, Move(w, stage)
    PROVE  /\ DOMAIN workers' = Workers
           /\ \A v \in Workers \ {w} : workers'[v] = workers[v]
           /\ workers'[w].todo = workers[w].todo /\ workers'[w].at = stage
BY DEF Move

\* On the next notification a worker holds nothing yet.
LEMMA MoveOnEffect ==
    ASSUME NEW w \in Workers, DOMAIN workers = Workers, MoveOn(w)
    PROVE  /\ DOMAIN workers' = Workers
           /\ \A v \in Workers \ {w} : workers'[v] = workers[v]
           /\ \A n : ~Holds(w, n)'
<1>1. PICK x : /\ \/ x = NoRun
                  \/ x = [todo |-> workers[w].todo \ {Current(w)}, at |-> "next"]
               /\ workers' = [workers EXCEPT ![w] = x]
  BY DEF MoveOn
<1>2. x.at \in {"idle", "next"}
  BY <1>1 DEF NoRun
<1> QED
  BY <1>1, <1>2, WorkerEffect DEF Holds, At

\* The other workers hold what they held.
LEMMA OthersHold ==
    ASSUME NEW w \in Workers, \A v \in Workers \ {w} : workers'[v] = workers[v]
    PROVE  \A v \in Workers \ {w} : \A n :
              (Holds(v, n)' <=> Holds(v, n)) /\ (At(v, "accepted")' <=> At(v, "accepted"))
BY DEF Holds, Current, At

\* The reminders and the units are no business of the workers, nor is the
\* unit of a notification.
LEMMA JournalUntouched ==
    ASSUME JournalInv, UNCHANGED <<now, units, reminders, events, jobs>>, crashes' \in 0..MaxCrashes,
           DOMAIN notes' = DOMAIN notes,
           \A n \in DOMAIN notes : notes'[n] \in Note /\ notes'[n].unit = notes[n].unit
    PROVE  JournalInv'
<1>1. ReminderInv'
  BY DEF JournalInv, ReminderInv, UnitsTyped, RowsHeld, FreshIsNew, RemindedWereSold, Locked, Returned
<1>2. \A u : NotesOf(u)' = NotesOf(u) /\ RemindersOf(u)' = RemindersOf(u)
  BY DEF NotesOf, RemindersOf
<1>3. OneNoteEach'
  BY <1>2 DEF JournalInv, OneNoteEach
<1>4. EventsTell'
  BY <1>2 DEF JournalInv, EventsTell
<1>5. NotesTyped' /\ NotesNumbered' /\ RunsTyped' /\ BoundsKept'
  BY DEF JournalInv, NotesTyped, NotesNumbered, RunsTyped, BoundsKept
<1> QED
  BY <1>1, <1>3, <1>4, <1>5 DEF JournalInv

LEMMA RemindersUntouched ==
    ASSUME OutboxInv, UNCHANGED <<now, units, reminders, events, jobs, notes>>,
           crashes' = crashes \/ crashes' \in 0..MaxCrashes
    PROVE  JournalInv'
<1>1. \A n \in DOMAIN notes : notes[n] \in Note
  BY DEF OutboxInv, JournalInv, NotesTyped
<1>2. crashes' \in 0..MaxCrashes
  BY DEF OutboxInv, JournalInv, BoundsKept
<1> QED
  BY <1>1, <1>2, JournalUntouched DEF OutboxInv

LEMMA HeldKept ==
    ASSUME OutboxInv, NEW w \in Workers,
           \A v \in Workers \ {w} : workers'[v] = workers[v],
           DOMAIN notes' = DOMAIN notes,
           \A n \in DOMAIN notes : ~Holds(w, n) => notes'[n] = notes[n],
           \A n : Holds(w, n)' => /\ n \in DOMAIN notes /\ notes'[n].state = "pending"
                                  /\ \A v \in Workers \ {w} : ~Holds(v, n)
    PROVE  Held'
<1>1. \A v \in Workers \ {w} : \A n : Holds(v, n)' <=> Holds(v, n)
  BY OthersHold
<1>2. ASSUME NEW v \in Workers \ {w}, NEW n, Holds(v, n)
      PROVE  /\ n \in DOMAIN notes /\ ~Holds(w, n) /\ notes[n].state = "pending"
             /\ \A z \in Workers \ {v} : ~Holds(z, n)
  BY <1>2 DEF OutboxInv, Held
<1>3. ASSUME NEW v \in Workers, NEW n, Holds(v, n)'
      PROVE  /\ n \in DOMAIN notes' /\ notes'[n].state = "pending"
             /\ \A z \in Workers \ {v} : ~Holds(z, n)'
  <2>1. CASE v = w
    BY <1>1, <1>3, <2>1
  <2>2. CASE v # w
    BY <1>1, <1>2, <1>3, <2>2
  <2> QED
    BY <2>1, <2>2
<1> QED
  BY <1>3 DEF Held

\* The count of messages of the notification a worker holds.
LEMMA HeldCount ==
    ASSUME OutboxInv, NEW w \in Workers, NEW n, Holds(w, n)
    PROVE  /\ n \in DOMAIN notes /\ notes[n] \in Note /\ notes[n].state = "pending"
           /\ notes[n].attempts < MaxAttempts
           /\ unacked[n] \in Nat /\ inbox[n] \in Seq(Message)
           /\ Len(inbox[n]) = unacked[n] + Bit(At(w, "accepted"))
           /\ \A v \in Workers \ {w} : ~Holds(v, n)
<1>1. /\ n \in DOMAIN notes /\ notes[n].state = "pending"
      /\ \A v \in Workers \ {w} : ~Holds(v, n)
  BY DEF OutboxInv, Held
<1>2. Accepted(n) <=> At(w, "accepted")
  BY <1>1 DEF Accepted
<1>3. /\ unacked[n] \in Nat /\ inbox[n] \in Seq(Message) /\ notes[n] \in Note
      /\ notes[n].attempts < MaxAttempts
  BY <1>1 DEF OutboxInv, Mailboxes, JournalInv, NotesTyped, ParkedWhenBurned
<1>4. Len(inbox[n]) = unacked[n] + Bit(notes[n].state = "sent") + Bit(Accepted(n))
  BY <1>1 DEF OutboxInv, MessagesAccountedFor
<1>5. Bit(notes[n].state = "sent") = 0
  BY <1>1 DEF Bit
<1>6. Bit(Accepted(n)) = Bit(At(w, "accepted")) /\ Bit(Accepted(n)) \in Nat
  BY <1>2 DEF Bit
<1> QED
  BY <1>1, <1>3, <1>4, <1>5, <1>6

LEMMA MessagesKept ==
    ASSUME OutboxInv, NEW w \in Workers,
           \A v \in Workers \ {w} : workers'[v] = workers[v],
           DOMAIN notes' = DOMAIN notes,
           \A n \in DOMAIN notes : ~Holds(w, n) =>
              /\ notes'[n] = notes[n] /\ inbox'[n] = inbox[n] /\ unacked'[n] = unacked[n]
              /\ ~(Holds(w, n)' /\ At(w, "accepted")'),
           \A n \in DOMAIN notes : Holds(w, n) =>
              Len(inbox'[n]) = unacked'[n] + Bit(notes'[n].state = "sent")
                                 + Bit(Holds(w, n)' /\ At(w, "accepted")')
    PROVE  MessagesAccountedFor'
<1>1. \A v \in Workers \ {w} : \A n :
         (Holds(v, n)' <=> Holds(v, n)) /\ (At(v, "accepted")' <=> At(v, "accepted"))
  BY OthersHold
<1>2. ASSUME NEW n \in DOMAIN notes
      PROVE  Len(inbox'[n]) = unacked'[n] + Bit(notes'[n].state = "sent") + Bit(Accepted(n)')
  <2>1. CASE Holds(w, n)
    <3>1. \A v \in Workers \ {w} : ~Holds(v, n)
      BY <2>1, HeldCount
    <3>2. Accepted(n)' <=> (Holds(w, n)' /\ At(w, "accepted")')
      BY <1>1, <3>1 DEF Accepted
    <3>3. Bit(Accepted(n)') = Bit(Holds(w, n)' /\ At(w, "accepted")')
      BY <3>2 DEF Bit
    <3> QED
      BY <2>1, <3>3
  <2>2. CASE ~Holds(w, n)
    <3>1. Accepted(n)' <=> Accepted(n)
      BY <1>1, <2>2 DEF Accepted
    <3>2. Bit(Accepted(n)') = Bit(Accepted(n))
      BY <3>1 DEF Bit
    <3>3. Len(inbox[n]) = unacked[n] + Bit(notes[n].state = "sent") + Bit(Accepted(n))
      BY DEF OutboxInv, MessagesAccountedFor
    <3> QED
      BY <2>2, <3>2, <3>3
  <2> QED
    BY <2>1, <2>2
<1> QED
  BY <1>2 DEF MessagesAccountedFor, Bit

\* Steps that change no table and no mailbox.
LEMMA QuietWorkerInv ==
    ASSUME OutboxInv, NEW w \in Workers, UNCHANGED <<rvars, inbox, unacked>>,
           DOMAIN workers' = Workers,
           \A v \in Workers \ {w} : workers'[v] = workers[v],
           workers'[w].at # "accepted",
           \A n : Holds(w, n) => ~At(w, "accepted"),
           \A n : Holds(w, n)' => /\ n \in DOMAIN notes /\ notes[n].state = "pending"
                                  /\ \A v \in Workers \ {w} : ~Holds(v, n)
    PROVE  OutboxInv'
<1>1. UNCHANGED <<now, units, reminders, notes, events, jobs, crashes>>
  BY DEF rvars
<1>2. JournalInv'
  BY <1>1, RemindersUntouched
<1>3. Mailboxes' /\ ParkedWhenBurned'
  BY <1>1 DEF OutboxInv, Mailboxes, ParkedWhenBurned
<1>4. Held'
  BY <1>1, HeldKept
<1>5. ~At(w, "accepted")'
  BY DEF At
<1>6. ASSUME NEW n \in DOMAIN notes, Holds(w, n)
      PROVE  Len(inbox'[n]) = unacked'[n] + Bit(notes'[n].state = "sent")
                                 + Bit(Holds(w, n)' /\ At(w, "accepted")')
  <2>1. /\ Len(inbox[n]) = unacked[n] + Bit(At(w, "accepted")) /\ unacked[n] \in Nat
        /\ notes[n].state = "pending" /\ ~At(w, "accepted")
    BY <1>6, HeldCount
  <2> QED
    BY <1>1, <1>5, <2>1 DEF Bit
<1>7. MessagesAccountedFor'
  BY <1>1, <1>5, <1>6, MessagesKept
<1> QED
  BY <1>2, <1>3, <1>4, <1>7 DEF OutboxInv

LEMMA StartDeliveryInv ==
    ASSUME OutboxInv, NEW w \in Workers, StartDelivery(w)
    PROVE  OutboxInv'
<1>1. PICK limit \in Limits :
         /\ At(w, "idle") /\ UNCHANGED <<rvars, inbox, unacked>>
         /\ workers' = [workers EXCEPT ![w] = [todo |-> Oldest(Pending, limit), at |-> "next"]]
  BY DEF StartDelivery
<1>2. /\ DOMAIN workers' = Workers
      /\ workers'[w] = [todo |-> Oldest(Pending, limit), at |-> "next"]
      /\ \A v \in Workers \ {w} : workers'[v] = workers[v]
  BY <1>1, WorkerEffect DEF OutboxInv
<1>3. workers'[w].at = "next"
  BY <1>2
<1>4. \A n : ~Holds(w, n) /\ ~Holds(w, n)'
  BY <1>1, <1>3 DEF Holds, At
<1> QED
  BY <1>1, <1>2, <1>3, <1>4, QuietWorkerInv

LEMMA LockNoteInv ==
    ASSUME OutboxInv, NEW w \in Workers, LockNote(w)
    PROVE  OutboxInv'
<1>1. /\ At(w, "next") /\ UNCHANGED <<rvars, inbox, unacked>>
      /\ DOMAIN workers = Workers
  BY DEF LockNote, OutboxInv
<1>2. \A n : ~Holds(w, n)
  BY <1>1 DEF Holds, At
<1>3. PICK c : c = Current(w)
  OBVIOUS
<1>4. \A v \in Workers \ {w} : ~Holds(v, c)
  BY <1>3 DEF LockNote
<1>5. CASE StillPending(c) /\ Move(w, "calling")
  <2>1. /\ DOMAIN workers' = Workers
        /\ \A v \in Workers \ {w} : workers'[v] = workers[v]
        /\ workers'[w].todo = workers[w].todo /\ workers'[w].at = "calling"
    BY <1>1, <1>5, MoveEffect
  <2>2. \A n : Holds(w, n)' => n = c
    BY <1>3, <2>1 DEF Holds, Current, At
  <2>3. c \in DOMAIN notes /\ notes[c].state = "pending"
    BY <1>5 DEF StillPending, Pending
  <2> QED
    BY <1>1, <1>2, <1>4, <2>1, <2>2, <2>3, QuietWorkerInv
<1>6. CASE MoveOn(w)
  <2>1. /\ DOMAIN workers' = Workers
        /\ \A v \in Workers \ {w} : workers'[v] = workers[v]
        /\ \A n : ~Holds(w, n)'
    BY <1>1, <1>6, MoveOnEffect
  <2>2. workers'[w].at # "accepted"
    BY <1>1, <1>6 DEF MoveOn, NoRun
  <2> QED
    BY <1>1, <1>2, <2>1, <2>2, QuietWorkerInv
<1> QED
  BY <1>3, <1>5, <1>6 DEF LockNote

\* What a worker holds, and that it goes on holding it as it moves.
LEMMA Holding ==
    ASSUME OutboxInv, NEW w \in Workers, NEW c, c = Current(w),
           ~At(w, "idle"), ~At(w, "next")
    PROVE  \A n : Holds(w, n) <=> n = c
BY DEF Holds

LEMMA MovedHolding ==
    ASSUME NEW w \in Workers, NEW c, c = Current(w), workers'[w].todo = workers[w].todo
    PROVE  \A n : Holds(w, n)' => n = c
BY DEF Holds, Current, At

LEMMA RefuseInv ==
    ASSUME OutboxInv, NEW w \in Workers, Refuse(w)
    PROVE  OutboxInv'
<1>1. /\ At(w, "calling") /\ UNCHANGED <<rvars, inbox, unacked>> /\ Move(w, "refused")
      /\ DOMAIN workers = Workers
  BY DEF Refuse, OutboxInv
<1>2. PICK c : c = Current(w)
  OBVIOUS
<1>3. \A n : Holds(w, n) <=> n = c
  BY <1>1, <1>2, Holding DEF At
<1>4. /\ DOMAIN workers' = Workers
      /\ \A v \in Workers \ {w} : workers'[v] = workers[v]
      /\ workers'[w].todo = workers[w].todo /\ workers'[w].at = "refused"
  BY <1>1, MoveEffect
<1>5. \A n : Holds(w, n)' => n = c
  BY <1>2, <1>4, MovedHolding
<1>6. /\ c \in DOMAIN notes /\ notes[c].state = "pending"
      /\ \A v \in Workers \ {w} : ~Holds(v, c)
  BY <1>3, HeldCount
<1>7. ~At(w, "accepted")
  BY <1>1 DEF At
<1> QED
  BY <1>1, <1>4, <1>5, <1>6, <1>7, QuietWorkerInv

LEMMA RaiseInv ==
    ASSUME OutboxInv, NEW w \in Workers, Raise(w)
    PROVE  OutboxInv'
<1>1. /\ At(w, "calling") /\ UNCHANGED <<rvars, inbox, unacked>>
      /\ workers' = [workers EXCEPT ![w] = NoRun]
  BY DEF Raise
<1>2. /\ DOMAIN workers' = Workers /\ workers'[w] = NoRun
      /\ \A v \in Workers \ {w} : workers'[v] = workers[v]
  BY <1>1, WorkerEffect DEF OutboxInv
<1>3. workers'[w].at # "accepted" /\ ~At(w, "accepted") /\ \A n : ~Holds(w, n)'
  BY <1>1, <1>2 DEF Holds, At, NoRun
<1> QED
  BY <1>1, <1>2, <1>3, QuietWorkerInv

\* A message arrives, with or without the provider's word that it did.
LEMMA ArrivesEffect ==
    ASSUME OutboxInv, NEW w \in Workers, NEW c, Holds(w, c), Arrives(c)
    PROVE  /\ DOMAIN inbox' = DOMAIN notes
           /\ \A n \in DOMAIN notes \ {c} : inbox'[n] = inbox[n]
           /\ inbox'[c] \in Seq(Message) /\ Len(inbox'[c]) = Len(inbox[c]) + 1
<1>1. c \in DOMAIN notes /\ inbox[c] \in Seq(Message)
  BY HeldCount
<1> DEFINE e == units[notes[c].unit].expires_at
<1>2. e \in Message
  BY <1>1 DEF OutboxInv, JournalInv, NotesTyped, ReminderInv, UnitsTyped, Row, Message
<1>3. inbox' = [inbox EXCEPT ![c] = Append(@, e)]
  BY DEF Arrives
<1> HIDE DEF e
<1>4. /\ DOMAIN inbox' = DOMAIN notes
      /\ \A n \in DOMAIN notes \ {c} : inbox'[n] = inbox[n]
      /\ inbox'[c] = Append(inbox[c], e)
  BY <1>1, <1>3 DEF OutboxInv, Mailboxes
<1> QED
  BY <1>1, <1>2, <1>4

LEMMA DeliverInv ==
    ASSUME OutboxInv, NEW w \in Workers, Deliver(w)
    PROVE  OutboxInv'
<1>1. PICK c : c = Current(w)
  OBVIOUS
<1>2. /\ At(w, "calling") /\ UNCHANGED <<rvars, unacked>> /\ Move(w, "accepted") /\ Arrives(c)
      /\ DOMAIN workers = Workers
  BY <1>1 DEF Deliver, OutboxInv
<1>3. UNCHANGED <<now, units, reminders, notes, events, jobs, crashes>>
  BY <1>2 DEF rvars
<1>4. \A n : Holds(w, n) <=> n = c
  BY <1>1, <1>2, Holding DEF At
<1>5. /\ DOMAIN workers' = Workers
      /\ \A v \in Workers \ {w} : workers'[v] = workers[v]
      /\ workers'[w].todo = workers[w].todo /\ workers'[w].at = "accepted"
  BY <1>2, MoveEffect
<1>6. \A n : Holds(w, n)' => n = c
  BY <1>1, <1>5, MovedHolding
<1>7. /\ c \in DOMAIN notes /\ notes[c].state = "pending"
      /\ \A v \in Workers \ {w} : ~Holds(v, c)
      /\ unacked[c] \in Nat /\ Len(inbox[c]) = unacked[c] + Bit(At(w, "accepted"))
  BY <1>4, HeldCount
<1>8. /\ DOMAIN inbox' = DOMAIN notes
      /\ \A n \in DOMAIN notes \ {c} : inbox'[n] = inbox[n]
      /\ inbox'[c] \in Seq(Message) /\ Len(inbox'[c]) = Len(inbox[c]) + 1
  BY <1>2, <1>4, ArrivesEffect
<1>9. JournalInv' /\ ParkedWhenBurned'
  BY <1>3, RemindersUntouched DEF OutboxInv, ParkedWhenBurned
<1>10. Mailboxes'
  BY <1>2, <1>3, <1>8 DEF OutboxInv, Mailboxes
<1>11. Held'
  BY <1>3, <1>5, <1>6, <1>7, HeldKept
<1>12. MessagesAccountedFor'
  <2>1. Holds(w, c)' /\ At(w, "accepted")' /\ ~At(w, "accepted")
    BY <1>1, <1>2, <1>5 DEF Holds, At, Current
  <2>2. Len(inbox'[c]) = unacked'[c] + Bit(notes'[c].state = "sent")
                                 + Bit(Holds(w, c)' /\ At(w, "accepted")')
    BY <1>2, <1>3, <1>7, <1>8, <2>1 DEF Bit
  <2> QED
    BY <1>2, <1>3, <1>4, <1>5, <1>6, <1>8, <2>2, MessagesKept
<1> QED
  BY <1>5, <1>9, <1>10, <1>11, <1>12 DEF OutboxInv

LEMMA TimeOutInv ==
    ASSUME OutboxInv, NEW w \in Workers, TimeOut(w)
    PROVE  OutboxInv'
<1>1. PICK c : c = Current(w)
  OBVIOUS
<1>2. /\ At(w, "calling") /\ UNCHANGED rvars /\ Move(w, "refused")
      /\ Arrives(c) /\ AnswerLost(c)
      /\ DOMAIN workers = Workers
  BY <1>1 DEF TimeOut, OutboxInv
<1>3. UNCHANGED <<now, units, reminders, notes, events, jobs, crashes>>
  BY <1>2 DEF rvars
<1>4. \A n : Holds(w, n) <=> n = c
  BY <1>1, <1>2, Holding DEF At
<1>5. /\ DOMAIN workers' = Workers
      /\ \A v \in Workers \ {w} : workers'[v] = workers[v]
      /\ workers'[w].todo = workers[w].todo /\ workers'[w].at = "refused"
  BY <1>2, MoveEffect
<1>6. \A n : Holds(w, n)' => n = c
  BY <1>1, <1>5, MovedHolding
<1>7. /\ c \in DOMAIN notes /\ notes[c].state = "pending"
      /\ \A v \in Workers \ {w} : ~Holds(v, c)
      /\ unacked[c] \in Nat /\ Len(inbox[c]) = unacked[c] + Bit(At(w, "accepted"))
  BY <1>4, HeldCount
<1>8. /\ DOMAIN inbox' = DOMAIN notes
      /\ \A n \in DOMAIN notes \ {c} : inbox'[n] = inbox[n]
      /\ inbox'[c] \in Seq(Message) /\ Len(inbox'[c]) = Len(inbox[c]) + 1
  BY <1>2, <1>4, ArrivesEffect
<1>9. JournalInv' /\ ParkedWhenBurned'
  BY <1>3, RemindersUntouched DEF OutboxInv, ParkedWhenBurned
<1>10. /\ DOMAIN unacked' = DOMAIN notes /\ unacked'[c] = unacked[c] + 1
       /\ \A n \in DOMAIN notes \ {c} : unacked'[n] = unacked[n]
  BY <1>2, <1>7 DEF AnswerLost, OutboxInv, Mailboxes
<1>11. Mailboxes'
  BY <1>3, <1>7, <1>8, <1>10 DEF OutboxInv, Mailboxes
<1>12. Held'
  BY <1>3, <1>5, <1>6, <1>7, HeldKept
<1>13. MessagesAccountedFor'
  <2>1. ~At(w, "accepted")' /\ ~At(w, "accepted")
    BY <1>2, <1>5 DEF At
  <2>2. Len(inbox'[c]) = unacked'[c] + Bit(notes'[c].state = "sent")
                                 + Bit(Holds(w, c)' /\ At(w, "accepted")')
    BY <1>3, <1>7, <1>8, <1>10, <2>1 DEF Bit
  <2> QED
    BY <1>3, <1>4, <1>5, <1>8, <1>10, <2>1, <2>2, MessagesKept
<1> QED
  BY <1>5, <1>9, <1>11, <1>12, <1>13 DEF OutboxInv

\* What an attempt does to a notification.
LEMMA AttemptEffect ==
    ASSUME NEW note \in Note, note.attempts < MaxAttempts
    PROVE  \A x \in {AfterSend(note), AfterRefusal(note)} :
              /\ x \in Note /\ x.unit = note.unit /\ x.attempts = note.attempts + 1
              /\ x.attempts <= MaxAttempts
              /\ x.state = "failed" => x.attempts = MaxAttempts
              /\ x.state = "pending" => x.attempts < MaxAttempts
<1>1. note.attempts \in Nat /\ note.unit \in Units /\ MaxAttempts \in Nat
  BY DeliveryAssumption DEF Note
<1>2. /\ AfterSend(note) \in Note /\ AfterSend(note).unit = note.unit
      /\ AfterSend(note).attempts = note.attempts + 1 /\ AfterSend(note).state = "sent"
  BY <1>1 DEF AfterSend, Note
<1>3. /\ AfterRefusal(note) \in Note /\ AfterRefusal(note).unit = note.unit
      /\ AfterRefusal(note).attempts = note.attempts + 1
      /\ AfterRefusal(note).state =
            IF note.attempts + 1 >= MaxAttempts THEN "failed" ELSE "pending"
  BY <1>1 DEF AfterRefusal, Note
<1> QED
  BY <1>1, <1>2, <1>3

\* An attempt is recorded: as sent if the provider accepted, else not as sent.
LEMMA RecordInv ==
    ASSUME OutboxInv, NEW w \in Workers, NEW c, c = Current(w),
           ~At(w, "idle"), ~At(w, "next"), MoveOn(w),
           NEW x, x = AfterSend(notes[c]) \/ x = AfterRefusal(notes[c]),
           At(w, "accepted") <=> x.state = "sent",
           notes' = [notes EXCEPT ![c] = x],
           UNCHANGED <<now, units, reminders, events, jobs, crashes, inbox, unacked>>
    PROVE  OutboxInv'
<1>1. \A n : Holds(w, n) <=> n = c
  BY Holding
<1>2. /\ DOMAIN workers' = Workers
      /\ \A v \in Workers \ {w} : workers'[v] = workers[v]
      /\ \A n : ~Holds(w, n)'
  BY MoveOnEffect DEF OutboxInv
<1>3. /\ c \in DOMAIN notes /\ notes[c] \in Note /\ notes[c].attempts < MaxAttempts
      /\ unacked[c] \in Nat /\ Len(inbox[c]) = unacked[c] + Bit(At(w, "accepted"))
  BY <1>1, HeldCount
<1>4. /\ x \in Note /\ x.unit = notes[c].unit
      /\ x.attempts <= MaxAttempts
      /\ x.state = "failed" => x.attempts = MaxAttempts
      /\ x.state = "pending" => x.attempts < MaxAttempts
  BY <1>3, AttemptEffect
<1>5. /\ DOMAIN notes' = DOMAIN notes /\ notes'[c] = x
      /\ \A n \in DOMAIN notes \ {c} : notes'[n] = notes[n]
  BY <1>3
<1>6. \A n \in DOMAIN notes : notes'[n] \in Note /\ notes'[n].unit = notes[n].unit
  BY <1>3, <1>4, <1>5 DEF OutboxInv, JournalInv, NotesTyped
<1>7. JournalInv'
  BY <1>5, <1>6, JournalUntouched DEF OutboxInv, JournalInv, BoundsKept
<1>8. Mailboxes'
  BY <1>5 DEF OutboxInv, Mailboxes
<1>9. ParkedWhenBurned'
  BY <1>4, <1>5 DEF OutboxInv, ParkedWhenBurned
<1>10. Held'
  BY <1>1, <1>2, <1>5, HeldKept
<1>11. MessagesAccountedFor'
  <2>1. Len(inbox'[c]) = unacked'[c] + Bit(notes'[c].state = "sent")
                                 + Bit(Holds(w, c)' /\ At(w, "accepted")')
    BY <1>2, <1>3, <1>5 DEF Bit
  <2> QED
    BY <1>1, <1>2, <1>5, <2>1, MessagesKept
<1> QED
  BY <1>2, <1>7, <1>8, <1>9, <1>10, <1>11 DEF OutboxInv

LEMMA RecordSentInv ==
    ASSUME OutboxInv, NEW w \in Workers, RecordSent(w)
    PROVE  OutboxInv'
<1>1. PICK c, x : c = Current(w) /\ x = AfterSend(notes[c])
  OBVIOUS
<1>2. /\ At(w, "accepted") /\ MoveOn(w) /\ notes' = [notes EXCEPT ![c] = x]
      /\ UNCHANGED <<now, units, reminders, events, jobs, crashes, inbox, unacked>>
  BY <1>1 DEF RecordSent
<1>3. ~At(w, "idle") /\ ~At(w, "next") /\ x.state = "sent"
  BY <1>1, <1>2 DEF At, AfterSend
<1> QED
  BY <1>1, <1>2, <1>3, RecordInv

LEMMA RecordRefusalInv ==
    ASSUME OutboxInv, NEW w \in Workers, RecordRefusal(w)
    PROVE  OutboxInv'
<1>1. PICK c, x : c = Current(w) /\ x = AfterRefusal(notes[c])
  OBVIOUS
<1>2. /\ At(w, "refused") /\ MoveOn(w) /\ notes' = [notes EXCEPT ![c] = x]
      /\ UNCHANGED <<now, units, reminders, events, jobs, crashes, inbox, unacked>>
  BY <1>1 DEF RecordRefusal
<1>3. ~At(w, "idle") /\ ~At(w, "next") /\ ~At(w, "accepted") /\ x.state # "sent"
  BY <1>1, <1>2 DEF At, AfterRefusal
<1> QED
  BY <1>1, <1>2, <1>3, RecordInv

LEMMA WorkerCrashInv ==
    ASSUME OutboxInv, NEW w \in Workers, WorkerCrash(w)
    PROVE  OutboxInv'
<1>1. PICK c : c = Current(w)
  OBVIOUS
<1>2. /\ ~At(w, "idle") /\ workers' = [workers EXCEPT ![w] = NoRun]
      /\ IF At(w, "accepted") THEN AnswerLost(c) ELSE UNCHANGED unacked
      /\ UNCHANGED <<now, units, reminders, notes, events, jobs, inbox>>
  BY <1>1 DEF WorkerCrash
<1>3. /\ DOMAIN workers' = Workers /\ workers'[w] = NoRun
      /\ \A v \in Workers \ {w} : workers'[v] = workers[v]
  BY <1>2, WorkerEffect DEF OutboxInv
<1>4. (\A n : ~Holds(w, n)') /\ ~At(w, "accepted")'
  BY <1>3 DEF Holds, At, NoRun
<1>5. JournalInv' /\ ParkedWhenBurned'
  <2>1. crashes' \in 0..MaxCrashes
    BY WindowAssumption DEF WorkerCrash, OutboxInv, JournalInv, BoundsKept
  <2> QED
    BY <1>2, <2>1, RemindersUntouched DEF OutboxInv, ParkedWhenBurned
<1>6. Held'
  BY <1>2, <1>3, <1>4, HeldKept
<1>7. CASE At(w, "accepted")
  <2>1. \A n : Holds(w, n) <=> n = c
    BY <1>1, <1>7, Holding DEF At
  <2>2. /\ c \in DOMAIN notes /\ notes[c].state = "pending"
        /\ unacked[c] \in Nat /\ Len(inbox[c]) = unacked[c] + Bit(At(w, "accepted"))
    BY <2>1, HeldCount
  <2>3. /\ DOMAIN unacked' = DOMAIN notes /\ unacked'[c] = unacked[c] + 1
        /\ \A n \in DOMAIN notes \ {c} : unacked'[n] = unacked[n]
    BY <1>2, <1>7, <2>2 DEF AnswerLost, OutboxInv, Mailboxes
  <2>4. Mailboxes'
    BY <1>2, <2>2, <2>3 DEF OutboxInv, Mailboxes
  <2>5. Len(inbox'[c]) = unacked'[c] + Bit(notes'[c].state = "sent")
                                 + Bit(Holds(w, c)' /\ At(w, "accepted")')
    BY <1>2, <1>4, <1>7, <2>2, <2>3 DEF Bit
  <2>6. MessagesAccountedFor'
    BY <1>2, <1>3, <1>4, <2>1, <2>3, <2>5, MessagesKept
  <2> QED
    BY <1>3, <1>5, <1>6, <2>4, <2>6 DEF OutboxInv
<1>8. CASE ~At(w, "accepted")
  <2>1. Mailboxes'
    BY <1>2, <1>8 DEF OutboxInv, Mailboxes
  <2>2. ASSUME NEW n \in DOMAIN notes, Holds(w, n)
        PROVE  Len(inbox'[n]) = unacked'[n] + Bit(notes'[n].state = "sent")
                                 + Bit(Holds(w, n)' /\ At(w, "accepted")')
    <3>1. /\ notes[n].state = "pending" /\ unacked[n] \in Nat
          /\ Len(inbox[n]) = unacked[n] + Bit(At(w, "accepted"))
      BY <2>2, HeldCount
    <3> QED
      BY <1>2, <1>4, <1>8, <3>1 DEF Bit
  <2>3. MessagesAccountedFor'
    BY <1>2, <1>3, <1>4, <1>8, <2>2, MessagesKept
  <2> QED
    BY <1>3, <1>5, <1>6, <2>1, <2>3 DEF OutboxInv
<1> QED
  BY <1>7, <1>8

LEMMA OutboxStepInv == OutboxInv /\ [OutboxNext]_ovars => OutboxInv'
<1>. SUFFICES ASSUME OutboxInv, [OutboxNext]_ovars PROVE OutboxInv'
  OBVIOUS
<1>1. CASE RemindersStep
  BY <1>1, RemindersStepInv
<1>2. ASSUME NEW w \in Workers, WorkerStep(w) PROVE OutboxInv'
  BY <1>2, StartDeliveryInv, LockNoteInv, DeliverInv, RefuseInv, TimeOutInv, RaiseInv,
     RecordSentInv, RecordRefusalInv DEF WorkerStep
<1>3. ASSUME NEW w \in Workers, WorkerCrash(w) PROVE OutboxInv'
  BY <1>3, WorkerCrashInv
<1>4. CASE UNCHANGED ovars
  <2>1. UNCHANGED <<now, units, reminders, notes, events, jobs, crashes, workers, inbox, unacked>>
    BY <1>4 DEF ovars
  <2>2. JournalInv'
    BY <2>1, RemindersUntouched
  <2> QED
    BY <2>1, <2>2 DEF OutboxInv, Mailboxes, Held, Holds, Current, At,
                      ParkedWhenBurned, MessagesAccountedFor, Accepted
<1> QED
  BY <1>1, <1>2, <1>3, <1>4 DEF OutboxNext

\* deliver_pending: row locks keep workers apart, and what a worker found under
\* its lock stays true while it calls the provider.
THEOREM WorkersKeepApart == OutboxSpec => []HeldIsPending
<1>1. OutboxInv => HeldIsPending
  BY DEF OutboxInv, Held, HeldIsPending
<1> QED
  BY <1>1, OutboxInitInv, OutboxStepInv, PTL DEF OutboxSpec

\* Every message the client got is an acknowledged send of a notification
\* marked sent, or one whose answer was lost.
THEOREM MessagesCount == OutboxSpec => []MessagesAccountedFor
<1>1. OutboxInv => MessagesAccountedFor
  BY DEF OutboxInv
<1> QED
  BY <1>1, OutboxInitInv, OutboxStepInv, PTL DEF OutboxSpec

\* A notification is parked exactly when its attempts are used up.
THEOREM ParkedInTime == OutboxSpec => []ParkedWhenBurned
<1>1. OutboxInv => ParkedWhenBurned
  BY DEF OutboxInv
<1> QED
  BY <1>1, OutboxInitInv, OutboxStepInv, PTL DEF OutboxSpec

\* A notification never goes back: none vanishes, sent and failed are final,
\* attempts are not forgotten.
THEOREM NotesOnlyForward == OutboxSpec => NotesMoveForward
<1>1. ASSUME OutboxInv, OutboxNext, NEW n \in DOMAIN notes
      PROVE  \/ n \in DOMAIN notes' /\ notes'[n] = notes[n]
             \/ /\ n \in DOMAIN notes' /\ notes[n].state = "pending"
                /\ notes'[n].attempts = notes[n].attempts + 1
  <2>1. CASE RemindersStep
    BY <1>1, <2>1, NotesKept DEF RemindersStep
  <2>2. ASSUME NEW w \in Workers, NEW x, ~At(w, "idle"), ~At(w, "next"),
               x = AfterSend(notes[Current(w)]) \/ x = AfterRefusal(notes[Current(w)]),
               notes' = [notes EXCEPT ![Current(w)] = x]
        PROVE  \/ n \in DOMAIN notes' /\ notes'[n] = notes[n]
               \/ /\ n \in DOMAIN notes' /\ notes[n].state = "pending"
                  /\ notes'[n].attempts = notes[n].attempts + 1
    <3>1. Holds(w, Current(w))
      BY <2>2 DEF Holds
    <3>2. notes[Current(w)].state = "pending"
      BY <1>1, <3>1, HeldCount
    <3>3. x.attempts = notes[Current(w)].attempts + 1
      BY <2>2 DEF AfterSend, AfterRefusal
    <3> QED
      BY <2>2, <3>2, <3>3
  <2>3. ASSUME NEW w \in Workers, RecordSent(w) \/ RecordRefusal(w)
        PROVE  /\ ~At(w, "idle") /\ ~At(w, "next")
               /\ \/ notes' = [notes EXCEPT ![Current(w)] = AfterSend(notes[Current(w)])]
                  \/ notes' = [notes EXCEPT ![Current(w)] = AfterRefusal(notes[Current(w)])]
    BY <2>3 DEF RecordSent, RecordRefusal, At
  <2>4. ASSUME NEW w \in Workers,
               StartDelivery(w) \/ LockNote(w) \/ Deliver(w) \/ Refuse(w) \/ TimeOut(w)
                  \/ Raise(w) \/ WorkerCrash(w)
        PROVE  notes' = notes
    BY <2>4 DEF StartDelivery, LockNote, Deliver, Refuse, TimeOut, Raise, WorkerCrash, rvars
  <2> QED
    BY <1>1, <2>1, <2>2, <2>3, <2>4 DEF OutboxNext, WorkerStep
<1>2. ASSUME OutboxInv, [OutboxNext]_ovars, NEW n \in DOMAIN notes
      PROVE  /\ n \in DOMAIN notes'
             /\ notes[n].state # "pending" => notes'[n] = notes[n]
             /\ notes'[n].attempts >= notes[n].attempts
  <2>1. notes[n].attempts \in Nat
    BY <1>2 DEF OutboxInv, JournalInv, NotesTyped, Note
  <2>2. UNCHANGED ovars => notes' = notes
    BY DEF ovars
  <2> QED
    BY <1>1, <1>2, <2>1, <2>2
<1>3. OutboxInv /\ [OutboxNext]_ovars =>
         \A n \in DOMAIN notes :
            /\ n \in DOMAIN notes'
            /\ notes[n].state # "pending" => notes'[n] = notes[n]
            /\ notes'[n].attempts >= notes[n].attempts
  BY <1>2
<1> QED
  BY <1>3, OutboxInitInv, OutboxStepInv, PTL DEF OutboxSpec, NotesMoveForward

-----------------------------------------------------------------------------
\* The types of the workers' tables.

WorkersTyped ==
    \A w \in Workers :
       /\ workers[w].todo \subseteq Nat /\ workers[w].at \in Stage
       /\ workers[w].todo = {} <=> At(w, "idle")

\* What is pending has an oldest, and so has a run something to do.
LEMMA LeastNumber ==
    ASSUME NEW P, P \subseteq Nat, P # {}
    PROVE  \E m \in P : \A n \in P : m <= n
<1> DEFINE T == {0..m : m \in P}
           R == StrictSubsetOrdering(Nat)
<1>1. IsWellFoundedOn(R, FiniteSubsetsOf(Nat))
  BY FS_StrictSubsetOrderingWellFounded
<1>2. T \subseteq FiniteSubsetsOf(Nat)
  <2>1. SUFFICES ASSUME NEW m \in P PROVE 0..m \in FiniteSubsetsOf(Nat)
    OBVIOUS
  <2>2. 0..m \in SUBSET Nat
    OBVIOUS
  <2>3. IsFiniteSet(0..m)
    BY FS_Interval
  <2> QED
    BY <2>2, <2>3 DEF FiniteSubsetsOf
<1>3. T # {}
  OBVIOUS
<1>4. \A n, m \in P : n < m => <<0..n, 0..m>> \in R
  BY DEF StrictSubsetOrdering
<1>5. \A n \in P : 0..n \in T
  OBVIOUS
<1>6. \A X \in T : \E m \in P : X = 0..m
  OBVIOUS
<1> HIDE DEF T, R
<1>7. PICK X \in T : \A Y \in T : ~(<<Y, X>> \in R)
  BY <1>1, <1>2, <1>3, WFMin
<1>8. PICK m \in P : X = 0..m
  BY <1>6
<1>9. \A n \in P : ~(n < m)
  BY <1>4, <1>5, <1>7, <1>8
<1> QED
  BY <1>9

LEMMA OldestAreSome ==
    ASSUME NEW limit \in Limits, NEW P, P \subseteq Nat, P # {}
    PROVE  Oldest(P, limit) # {} /\ Oldest(P, limit) \subseteq P
<1>1. PICK m \in P : \A n \in P : m <= n
  BY LeastNumber
<1>2. {n \in P : n < m} = {}
  <2>1. ASSUME NEW n \in P PROVE ~(n < m)
    <3>1. m <= n /\ m \in Nat /\ n \in Nat
      BY <1>1
    <3> QED
      BY <3>1
  <2> QED
    BY <2>1
<1>3. Cardinality({n \in P : n < m}) = 0 /\ 0 < limit
  BY <1>2, FS_EmptySet, DeliveryAssumption
<1> QED
  BY <1>3 DEF Oldest

LEMMA WorkersTypedStep ==
    ASSUME OutboxInv, WorkersTyped, [OutboxNext]_ovars
    PROVE  WorkersTyped'
<1>1. DOMAIN workers = Workers
  BY DEF OutboxInv
<1>2. ASSUME NEW w \in Workers, \A v \in Workers \ {w} : workers'[v] = workers[v],
             workers'[w].todo \subseteq Nat, workers'[w].at \in Stage,
             workers'[w].todo = {} <=> workers'[w].at = "idle"
      PROVE  WorkersTyped'
  BY <1>2 DEF WorkersTyped, At
<1>3. ASSUME NEW w \in Workers, NEW stage \in Stage \ {"idle"}, ~At(w, "idle"), Move(w, stage)
      PROVE  WorkersTyped'
  <2>1. /\ \A v \in Workers \ {w} : workers'[v] = workers[v]
        /\ workers'[w].todo = workers[w].todo /\ workers'[w].at = stage
    BY <1>1, <1>3, MoveEffect
  <2>2. workers[w].todo \subseteq Nat /\ workers[w].todo # {}
    BY <1>3 DEF WorkersTyped
  <2> QED
    BY <1>2, <2>1, <2>2
<1>4. ASSUME NEW w \in Workers, MoveOn(w) PROVE WorkersTyped'
  <2>1. PICK rest :
           /\ rest \subseteq workers[w].todo
           /\ workers' = [workers EXCEPT ![w] =
                            IF rest = {} THEN NoRun ELSE [todo |-> rest, at |-> "next"]]
    BY <1>4 DEF MoveOn
  <2>2. /\ workers'[w] = IF rest = {} THEN NoRun ELSE [todo |-> rest, at |-> "next"]
        /\ \A v \in Workers \ {w} : workers'[v] = workers[v]
    BY <1>1, <2>1, WorkerEffect
  <2>3. /\ workers'[w].todo = rest
        /\ workers'[w].at = IF rest = {} THEN "idle" ELSE "next"
    BY <2>2 DEF NoRun
  <2>4. workers[w].todo \subseteq Nat
    BY DEF WorkersTyped
  <2> QED
    BY <1>2, <2>1, <2>2, <2>3, <2>4 DEF Stage
<1>5. ASSUME NEW w \in Workers, StartDelivery(w) PROVE WorkersTyped'
  <2>1. Pending \subseteq Nat /\ Pending # {}
    BY <1>5 DEF StartDelivery, Pending, OutboxInv, JournalInv, NotesNumbered
  <2>a. PICK limit \in Limits :
            workers' = [workers EXCEPT ![w] = [todo |-> Oldest(Pending, limit), at |-> "next"]]
    BY <1>5 DEF StartDelivery
  <2>2. PICK todo : todo = Oldest(Pending, limit)
    OBVIOUS
  <2>3. todo # {} /\ todo \subseteq Nat
    BY <2>1, <2>2, OldestAreSome
  <2>4. workers' = [workers EXCEPT ![w] = [todo |-> todo, at |-> "next"]]
    BY <2>a, <2>2
  <2>5. /\ workers'[w] = [todo |-> todo, at |-> "next"]
        /\ \A v \in Workers \ {w} : workers'[v] = workers[v]
    BY <1>1, <2>4, WorkerEffect
  <2>6. workers'[w].todo = todo /\ workers'[w].at = "next"
    BY <2>5
  <2> QED
    BY <1>2, <2>3, <2>5, <2>6 DEF Stage
<1>6. ASSUME NEW w \in Workers, LockNote(w) PROVE WorkersTyped'
  BY <1>3, <1>4, <1>6 DEF LockNote, At, Stage
<1>7. ASSUME NEW w \in Workers, Deliver(w) \/ Refuse(w) \/ TimeOut(w) PROVE WorkersTyped'
  BY <1>3, <1>7 DEF Deliver, Refuse, TimeOut, At, Stage
<1>8. ASSUME NEW w \in Workers, RecordSent(w) \/ RecordRefusal(w) PROVE WorkersTyped'
  BY <1>4, <1>8 DEF RecordSent, RecordRefusal
<1>9. ASSUME NEW w \in Workers, Raise(w) \/ WorkerCrash(w) PROVE WorkersTyped'
  <2>1. workers'[w] = NoRun /\ \A v \in Workers \ {w} : workers'[v] = workers[v]
    BY <1>1, <1>9, WorkerEffect DEF Raise, WorkerCrash
  <2> QED
    BY <1>2, <2>1 DEF NoRun, Stage
<1>10. CASE workers' = workers
  BY <1>10 DEF WorkersTyped, At
<1> QED
  BY <1>5, <1>6, <1>7, <1>8, <1>9, <1>10 DEF OutboxNext, WorkerStep, RemindersStep, ovars

\* The tables of the delivery hold values of their types: a run that is on has
\* something to do, and no message names a NULL expiry.
THEOREM OutboxTyped == OutboxSpec => []OutboxTypeOK
<1>1. OutboxInit => WorkersTyped
  BY DEF OutboxInit, WorkersTyped, NoRun, At, Stage
<1>2. OutboxInv /\ WorkersTyped => OutboxTypeOK
  <2>1. OutboxInv => DOMAIN notes \subseteq Nat /\ \A n \in DOMAIN notes : notes[n] \in Note
    BY DEF OutboxInv, JournalInv, NotesNumbered, NotesTyped
  <2>2. OutboxInv => /\ DOMAIN inbox = DOMAIN notes /\ \A n \in DOMAIN inbox : inbox[n] \in Seq(0..MaxDate)
                     /\ DOMAIN unacked = DOMAIN notes /\ \A n \in DOMAIN unacked : unacked[n] \in Nat
    BY DEF OutboxInv, Mailboxes, Message
  <2> QED
    BY <2>1, <2>2 DEF WorkersTyped, OutboxTypeOK
<1>3. OutboxInv /\ WorkersTyped /\ [OutboxNext]_ovars => WorkersTyped'
  BY WorkersTypedStep
<1> QED
  BY <1>1, <1>2, <1>3, OutboxInitInv, OutboxStepInv, PTL DEF OutboxSpec

\* The delivery leaves the agreement between log and notifications alone.
THEOREM OneNoteThoughDelivered == OutboxSpec => []OneNotePerReminder
<1>1. OutboxInv => OneNotePerReminder
  BY DEF OutboxInv, JournalInv, OneNoteEach, EventsTell, OneNotePerReminder, NotesOf, RemindersOf
<1> QED
  BY <1>1, OutboxInitInv, OutboxStepInv, PTL DEF OutboxSpec

=============================================================================
