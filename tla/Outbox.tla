------------------------------- MODULE Outbox -------------------------------
(***************************************************************************)
(* deliver_pending (inventory/delivery.py) on the notifications that the   *)
(* reminder job queues: workers take the oldest pending notifications and, *)
(* one transaction each, lock a notification, look whether it is still     *)
(* pending, call the provider and record the outcome.  The provider        *)
(* delivers, refuses or, if Lossy, delivers and times out; some            *)
(* notifications it may choke on.  A worker may be killed between any two  *)
(* steps.  What reached the client is kept beside the tables.              *)
(***************************************************************************)
EXTENDS Reminders

CONSTANTS
    MaxAttempts,    \* MAX_ATTEMPTS
    Limits,         \* the values of --limit: notifications a run takes on
    Workers,        \* processes cron may have running at once
    Lossy,          \* whether an answer of the provider may be lost
    Faulty          \* notifications with which the provider may raise what is
                    \* no DeliveryError, every time

ASSUME DeliveryAssumption ==
    /\ MaxAttempts \in Nat \ {0} /\ Limits \subseteq Nat \ {0}
    /\ Lossy \in BOOLEAN /\ Faulty \subseteq Nat

VARIABLES
    workers,    \* workers[w]: [todo, at] of the run in process w
    inbox,      \* Notification pk -> the expiry named by each message delivered
    unacked     \* Notification pk -> messages delivered whose answer was lost

ovars == <<now, units, reminders, notes, events, jobs, crashes, workers, inbox, unacked>>

\* Where a worker is with the first notification of its list.
Stage == {"idle", "next", "calling", "accepted", "refused"}

NoRun == [todo |-> {}, at |-> "idle"]

OutboxInit ==
    /\ ReminderInit
    /\ workers = [w \in Workers |-> NoRun]
    /\ inbox = <<>> /\ unacked = <<>>

-----------------------------------------------------------------------------

Pending == {n \in DOMAIN notes : notes[n].state = "pending"}

First(S) == CHOOSE n \in S : \A m \in S : n <= m

\* Mutant of Oldest: newest first.
Newest(S, k) == {n \in S : Cardinality({m \in S : m > n}) < k}

Oldest(S, k) == {n \in S : Cardinality({m \in S : m < n}) < k}

At(w, stage) == workers[w].at = stage

Current(w) == First(workers[w].todo)

\* The notification whose row worker w holds locked.
Holds(w, n) == ~At(w, "idle") /\ ~At(w, "next") /\ Current(w) = n

Move(w, stage) == workers' = [workers EXCEPT ![w] = [todo |-> @.todo, at |-> stage]]

\* On to the next of the list; the transaction and its lock end.
MoveOn(w) ==
    LET rest == workers[w].todo \ {Current(w)}
    IN  workers' = [workers EXCEPT ![w] =
                      IF rest = {} THEN NoRun ELSE [todo |-> rest, at |-> "next"]]

StartDelivery(w) ==
    /\ At(w, "idle")
    /\ Pending # {}
    /\ \E limit \in Limits :
          workers' = [workers EXCEPT ![w] = [todo |-> Oldest(Pending, limit), at |-> "next"]]
    /\ UNCHANGED <<rvars, inbox, unacked>>

\* Mutant of StillPending: the state is not looked at again under the lock.
PendingWhenListed(n) == n \in DOMAIN notes

StillPending(n) == n \in Pending

\* Waits for another worker's transaction; skips what is no longer pending.
LockNote(w) ==
    /\ At(w, "next")
    /\ \A v \in Workers \ {w} : ~Holds(v, Current(w))
    /\ IF StillPending(Current(w)) THEN Move(w, "calling") ELSE MoveOn(w)
    /\ UNCHANGED <<rvars, inbox, unacked>>

-----------------------------------------------------------------------------
\* The provider.  A message names the expiry the unit has when it is sent.

Arrives(n) == inbox' = [inbox EXCEPT ![n] = Append(@, units[notes[n].unit].expires_at)]

AnswerLost(n) == unacked' = [unacked EXCEPT ![n] = @ + 1]

Deliver(w) ==
    /\ At(w, "calling")
    /\ Arrives(Current(w))
    /\ Move(w, "accepted")
    /\ UNCHANGED <<rvars, unacked>>

Refuse(w) ==
    /\ At(w, "calling")
    /\ Move(w, "refused")
    /\ UNCHANGED <<rvars, inbox, unacked>>

TimeOut(w) ==
    /\ Lossy
    /\ At(w, "calling")
    /\ Arrives(Current(w)) /\ AnswerLost(Current(w))
    /\ Move(w, "refused")
    /\ UNCHANGED rvars

\* Provider.send has to deliver or raise DeliveryError.  Anything else rolls
\* the attempt back and ends the run, what is left of its list included.
Raise(w) ==
    /\ At(w, "calling")
    /\ Current(w) \in Faulty
    /\ workers' = [workers EXCEPT ![w] = NoRun]
    /\ UNCHANGED <<rvars, inbox, unacked>>

-----------------------------------------------------------------------------
\* Mutants of AfterRefusal: parked too late; a refusal is taken for an answer.
AfterRefusalLate(note) ==
    [note EXCEPT !.attempts = @ + 1,
                 !.state = IF note.attempts >= MaxAttempts THEN "failed" ELSE "pending"]

AfterRefusalSent(note) == [note EXCEPT !.attempts = @ + 1, !.state = "sent"]

\* Parked when the attempts are used up.
AfterRefusal(note) ==
    [unit |-> note.unit, attempts |-> note.attempts + 1,
     state |-> IF note.attempts + 1 >= MaxAttempts THEN "failed" ELSE "pending"]

AfterSend(note) == [unit |-> note.unit, attempts |-> note.attempts + 1, state |-> "sent"]

RecordSent(w) ==
    /\ At(w, "accepted")
    /\ notes' = [notes EXCEPT ![Current(w)] = AfterSend(@)]
    /\ MoveOn(w)
    /\ UNCHANGED <<now, units, reminders, events, jobs, crashes, inbox, unacked>>

RecordRefusal(w) ==
    /\ At(w, "refused")
    /\ notes' = [notes EXCEPT ![Current(w)] = AfterRefusal(@)]
    /\ MoveOn(w)
    /\ UNCHANGED <<now, units, reminders, events, jobs, crashes, inbox, unacked>>

\* The process is killed: the transaction rolls back and the run is over.
WorkerCrash(w) ==
    /\ ~At(w, "idle")
    /\ crashes < MaxCrashes
    /\ crashes' = crashes + 1
    /\ workers' = [workers EXCEPT ![w] = NoRun]
    /\ IF At(w, "accepted") THEN AnswerLost(Current(w)) ELSE UNCHANGED unacked
    /\ UNCHANGED <<now, units, reminders, notes, events, jobs, inbox>>

WorkerStep(w) ==
    \/ StartDelivery(w) \/ LockNote(w)
    \/ Deliver(w) \/ Refuse(w) \/ TimeOut(w) \/ Raise(w)
    \/ RecordSent(w) \/ RecordRefusal(w)

\* The reminder job and the life of the units go on; a notification's mailbox
\* comes and goes with it, and one that a worker has locked is not deleted.
RemindersStep ==
    /\ ReminderNext
    /\ \A w \in Workers, n \in DOMAIN notes : Holds(w, n) => n \in DOMAIN notes'
    /\ inbox' = [n \in DOMAIN notes' |-> IF n \in DOMAIN inbox THEN inbox[n] ELSE <<>>]
    /\ unacked' = [n \in DOMAIN notes' |-> IF n \in DOMAIN unacked THEN unacked[n] ELSE 0]
    /\ UNCHANGED workers

OutboxNext == RemindersStep \/ \E w \in Workers : WorkerStep(w) \/ WorkerCrash(w)

OutboxSpec == OutboxInit /\ [][OutboxNext]_ovars

\* cron keeps starting the delivery (docs/production.md), the provider
\* answers or times out, and a started run goes on.
FairOutboxSpec == OutboxSpec /\ JobsFair /\ \A w \in Workers : WF_ovars(WorkerStep(w))

-----------------------------------------------------------------------------

OutboxTypeOK ==
    /\ DOMAIN notes \subseteq Nat /\ \A n \in DOMAIN notes : notes[n] \in Note
    /\ DOMAIN inbox = DOMAIN notes /\ \A n \in DOMAIN inbox : inbox[n] \in Seq(0..MaxDate)
    /\ DOMAIN unacked = DOMAIN notes /\ \A n \in DOMAIN unacked : unacked[n] \in Nat
    /\ \A w \in Workers :
          /\ workers[w].todo \subseteq Nat /\ workers[w].at \in Stage
          /\ workers[w].todo = {} <=> At(w, "idle")

\* Nobody works on a notification beside the worker that holds its row, and
\* what it found there stays true while it calls the provider.
HeldIsPending ==
    \A w \in Workers, n \in DOMAIN notes : Holds(w, n) =>
       /\ notes[n].state = "pending"
       /\ \A v \in Workers \ {w} : ~Holds(v, n)

\* A worker has the provider's word that n was delivered.
Accepted(n) == \E w \in Workers : Holds(w, n) /\ At(w, "accepted")

Tried(n) == \E w \in Workers : Holds(w, n) /\ At(w, "calling")

Bit(b) == IF b THEN 1 ELSE 0

\* Every message the client got is one acknowledged send of a notification
\* marked sent, or one whose answer was lost: workers never duplicate a
\* message among themselves, and nothing is called sent that did not arrive.
MessagesAccountedFor ==
    \A n \in DOMAIN notes :
       Len(inbox[n]) = unacked[n] + Bit(notes[n].state = "sent") + Bit(Accepted(n))

\* A notification is parked exactly when its attempts are used up.
ParkedWhenBurned ==
    \A n \in DOMAIN notes :
       /\ notes[n].state = "failed" => notes[n].attempts = MaxAttempts
       /\ notes[n].state = "pending" => notes[n].attempts < MaxAttempts
       /\ notes[n].attempts <= MaxAttempts

\* A notification never goes back, whoever else works on it: none vanishes,
\* sent and failed are final, attempts are never forgotten.
NotesMoveForward ==
    [][\A n \in DOMAIN notes :
          /\ n \in DOMAIN notes'
          /\ notes[n].state # "pending" => notes'[n] = notes[n]
          /\ notes'[n].attempts >= notes[n].attempts]_ovars

\* Every notification gets its turn, however often those before it are
\* refused: it is sent or parked in the end, or at least tried if it is one
\* the provider chokes on.  Nothing is said of those behind such a one, which
\* comes first in every run; and processes are not killed for ever.
EveryNoteSettles ==
    \A n \in 1..Cardinality(Reminder) : (\A m \in Faulty : n <= m) =>
       (n \in Pending ~> n \notin Pending \/ (n \in Faulty /\ Tried(n)))

-----------------------------------------------------------------------------
\* Said of the program, and not so.

\* models.py, ReminderLog: "the client still receives one message per expiry
\* date".  Here no answer is lost and no process killed.
OneMessagePerExpiry ==
    \A m, n \in DOMAIN notes :
       m # n /\ notes[m].unit = notes[n].unit =>
          \A i \in DOMAIN inbox[m], k \in DOMAIN inbox[n] : inbox[m][i] # inbox[n][k]

\* delivery.py: "the delivery ("call the provider") must not" belong in a
\* database transaction, because it would hold row locks for as long as the
\* provider takes: nobody waits for a row whose holder is calling.
NobodyWaitsForTheProvider ==
    \A w, v \in Workers : At(w, "calling") /\ At(v, "next") => Current(w) # Current(v)

=============================================================================
