# Licence inventory: a TLA+ model

A verification project for the licence-inventory service (Django, PostgreSQL).
It models what the service does to its tables, checks the models with TLC on
small instances, and proves the central facts with TLAPS for every instance.

## The system

A *unit* (a licence, an account) is registered, sold to a client, renewed,
claimed under warranty, replaced, and swept to "expired" when its term ends.
Everything durable is in PostgreSQL; several web workers and cron jobs work on
it at once.

| component | state | operations | interacts with |
|---|---|---|---|
| states (`states.py`) | none | `can_move` | used by `move_state` |
| services (`services.py`) | none of their own | `issue_unit`, `renew_unit`, `open_claim`, `approve_claim`, `reject_claim`, `sweep_expired`, `send_renewal_reminders` | each one transaction on the tables |
| tables (`models.py`) | Unit, Issue, WarrantyClaim, Renewal, Event, ReminderLog, Notification, IdempotencyRecord, Client | foreign keys (PROTECT, SET_NULL, CASCADE), unique indexes | written by the services, the API and the admin |
| REST API (`views.py`, `serializers.py`) | none | register, edit, delete a unit; the services' endpoints; lists | a PATCH reads a row and writes some columns back, without a lock |
| admin (`admin.py`) | none | edit and delete a unit, `renew_30_days`; history read-only | as the API |
| delivery (`delivery.py`) | none | `deliver_pending` | takes Notification rows, calls the provider, records the outcome |
| cron commands | none | sweep (15 min), reminders (daily), delivery (5 min) | run beside the API and beside themselves |
| auth, throttling, error mapping, logging, settings | tokens, counters | login, status codes | no table of the inventory |

What is hard:

* **Concurrency.** Every service function relies on row locks taken in the right
  place: two approvals of one claim, a sale racing a warranty replacement, a
  sweep racing a renewal, a PATCH racing anything.
* **History.** The log and the Renewal, Issue and claim rows must still explain
  the state after any mix of operations, the sweep (which bypasses
  `move_state`) and deletions included.
* **Money.** One payment must stay one unit in use, through any chain of
  replacements, and a renewal must never shorten what was paid.
* **Time.** The clock is read at one point of a transaction and used at
  another; expiry, warranty and grace have edges.
* **Unreliable parts.** A lost response and its retry, a provider that times
  out, a worker that dies between sending and committing.

What makes each part correct:

* *states*: no step, the sweep's included, changes a state outside the allow-list.
* *sales and claims*: a unit's state and its issues agree; a closed issue has
  exactly one approved claim and one replacement; no payment yields two units.
* *renewals*: paid terms stack and never overlap; an expiry moves only with a
  Renewal row; a retry with a key renews once.
* *sweep*: only units past their term become expired, each with its event, and
  none stays issued for ever.
* *tables*: no row of the history disappears or changes after the fact; a
  foreign key finds its row; the unique indexes never have to refuse what a
  service function let through.
* *reminders and delivery*: one message per expiry date; nothing is called sent
  before the provider said so; no message is stuck behind another.

## Modules

```
            Entitlement                     what a client is owed
                 ^ implements
             Inventory  ------------------> UnitLife   state and expiry alone
                 ^ the same operations,        ^   ^
                 | step by step                |   |
            InventoryTx              Reminders |   | RenewalRetry --> RenewOnce
                                         ^              what a key promises
                                         |
                                       Outbox
```

`Inventory` and `InventoryTx` hold the tables of sales, claims, renewals and
events. The jobs and the retries look at a unit's state and expiry date only;
they are built on `UnitLife`, which `Inventory` implements (`LifeKept`), so
that everything else the service does to a unit is one of a few steps there.
`UnitStates` is `states.py`; `Tables` has insert and delete. `MCInventory`,
`MCInventoryTx`, `MCReminders`, `MCOutbox` and `MCRenewalRetry` are the
instances for TLC, modules in `...Proofs` are for TLAPS:

```
InventoryProofs <- TermsProofs <- AuditProofs <- TxProofs
UnitLifeProofs <- RemindersProofs <- OutboxProofs
               <- RetryProofs
```

**Inventory** is the service layer with each `transaction.atomic` block as one
action. Tables are partial functions from primary keys to rows, with the
columns something depends on; dates are whole days. An operation is written on
the rows it *read* and writes single columns back, as the code does with
`save(update_fields=...)`:

| action | code |
|---|---|
| `RegisterUnit`, `DeleteUnit` | create and destroy of `UnitViewSet` and the admin; PROTECT in `Deletable` |
| `IssueUnit` | `issue_unit`, with its nested `move_state` and both events |
| `RenewUnit` | `renew_unit` without a key; a date beyond `MaxDate` raises and rolls back |
| `OpenClaim`, `ApproveClaim`, `RejectClaim` | the three claim functions; approving contains the whole nested `issue_unit` |
| `SweepExpired` | `sweep_expired`: bulk update and bulk events |
| `QueueReminders` | `send_renewal_reminders`: of these tables it writes the events "reminder.queued" |
| `Tick` | the clock |

A refusal leaves the tables as they were and is no action. A transaction may
have read the clock up to `Lag` days before it commits (`ClockReadings`). A
sweep may miss a unit that was sold on an older reading than its own and
committed after its query, so it handles any non-empty subset of the stale
units. A reminder run likewise, of the units due and not yet reminded of their
present term (`Reminded`, read off the log: ReminderLog itself, and everything
else about reminders, is in the module of that name).

**Entitlement** is the promise, without rows: clients, what they hold, what
they paid for, what is burned. A sale adds one unit, a replacement swaps one.
`Inventory` implements it (`PromiseKept`): `held` are the units of active
issues, `burned` those of closed ones, `sold` the issues whose unit the audit
log does not call a replacement.

**UnitLife** is what the functions above do to one row of Unit: `Add`,
`Remove`, `Sell`, `Renew`, `Replace`, `Expire`, `Tick`. It keeps their guards on
state and dates and drops those on other tables.

**InventoryTx** opens the transactions up, as PostgreSQL runs them at READ
COMMITTED. A session starts a call, locks and reads the rows of each SELECT FOR
UPDATE one by one in any order, reads the clock, and commits. Its decision uses
the rows it read (`seen`), so a missing lock shows. It may roll back at any
point: a refusal, a crash, a deadlock victim. A PATCH or an admin edit reads
without a lock and writes back later. The sweep finds its candidates in one
snapshot, then locks them, and drops those that no longer match. A reminder run
is one step there, which needs the rows of its units unlocked. Unlocked reads
are the query for open claims and the edit's read. Committed tables have the
names they have in `Inventory`, so serializability is the property
`CommitsAreSerial == Spec`, with the identity as refinement mapping.

**RenewalRetry** is `renew_unit` with its idempotency key, seen from clients
that place an order, send it, and send it again until they have an answer:

| action | code |
|---|---|
| `Place`, `Send` | a client; it may give up on a request that is still being served |
| `LookUp` | `services.py:186-194`: the key and its fingerprint, before any lock |
| `Lock` | the row lock, the check of the state, the clock |
| `Overflow`, `KeyRefused` | `timedelta` addition out of range; the unique key of IdempotencyRecord |
| `Commit` | unit, Renewal and key in one commit |
| `Reply`, `Lose` | the answer, with the status of `exceptions.py`, arrives or does not; a process killed |
| `LifeStep` | everything else that happens to units; a renewed unit is PROTECTed |

An order has a price, which is part of the fingerprint. A unit stands for its
ref: nobody edits a ref between a request and its retries. Integer width plays
no part; overflow is that of `datetime`, at `MaxDate`.
**RenewOnce** is what a key promises: under a key one term is sold, and whoever
is told of success is told of that term and asked for it. `RenewalRetry`
implements it (`RetriesAreSafe`), answers and retries included.

**Reminders** is `send_renewal_reminders` as runs that overlap:

| action | code |
|---|---|
| `StartJob` | the clock and the snapshot of `expiring_units` |
| `LockUnit` | one row of SELECT FOR UPDATE, read again; rows that no longer match drop out in `Returned` |
| `ReadLog` | the query of ReminderLog; the run ends when nothing is new |
| `Queue` | the three `bulk_create`s (ReminderLog, Notification, Event), in one commit; the unique constraint in `IndexAccepts` |
| `DeadlockVictim`, `JobCrash` | PostgreSQL aborts a run; the process is killed |
| `LifeStep` | everything else; a unit that is deleted takes its reminders and notifications along (CASCADE), and its events lose it (SET_NULL) |

**Outbox** adds `deliver_pending` to it: workers that take the same list, a
provider that delivers, refuses, or delivers and times out, and processes that
are killed at any step. `StartDelivery` is the list, `LockNote` the lock and the
second look at the state, `Deliver`, `Refuse` and `TimeOut` the call,
`RecordSent` and `RecordRefusal` the commit, `WorkerCrash` a killed process.
`Raise` is an exception that is not DeliveryError: it rolls the attempt back and
ends the run, and the provider may raise it on each attempt at a notification
in `Faulty`. `inbox` and `unacked` are no tables:
they keep what reached the client, and which of it nobody was told of.

Definitions called mutants are variants a bug would give; they are used only to
show that a property notices the bug.

## Runs

| run | question | instance |
|---|---|---|
| `claims` | do sales, claims and replacements keep the tables consistent and the promise? | 3 units, 2 clients, 3 issues, 3 claims, dates 0..2, no renewals |
| `terms` | do renewals, sweeps, reminders and deletions lose paid days or history? | 2 units, 2 issues, 1 claim, period 1, dates 0..2, reminders on the day of expiry |
| `sweep` | is a stale unit swept? | 2 units, 2 issues, 1 claim, period 1, dates 0..3, fair sweep, no reminders |
| `tx_claims` | are sales and claims serializable under the locks taken? | 2 sessions, 3 units, 3 issues, 2 claims, clock at rest |
| `tx_terms` | are sales, renewals, sweeps, edits and reminders? | 2 sessions, 2 units, 1 issue, dates and clock 0..2 |
| `reminders` | do overlapping runs remind of each term once, and rightly? | 2 units, 2 jobs, 1 crash, clock 0..2 |
| `outbox` | is every message accounted for, every reminder queued, every notification settled? | 1 unit with up to 3 terms, 2 of them due, 1 job, 2 workers, lists of 1 or 2, 2 attempts, 1 crash, lossy provider that may choke on the second notification, fair, clock at rest |
| `retry` | is one term sold under one key, and does a client that keeps asking get to know? | 2 orders for 1 unit under 1 key, 2 prices, 2 sessions, 1 answer lost, fair, clock at rest |
| `retry_concurrent`, `retry_without_key`, `outbox_wait`, `outbox_twice` | what the repository says and the code does not do | the smallest instances that show it; see Findings |

The bounds are where the cases of interest happen. Three units and three issues
give a sale, a replacement and a replacement of the replacement; a third claim
gives a rejected one beside them. One registration date, 1, with a clock to 2
gives a unit that is alive, exactly at its expiry and past it; `MaxDate` lets a
renewal be refused. Two sessions, jobs or workers suffice for a race between
two of them; for three and more there are the proofs. `Lag` is 1 in the serial
runs and not a restriction (`Lag >= Horizon`) in the transaction runs.

Two reminder jobs on two units lock them in both orders and deadlock. One crash
shows what a later run has to make up for; a second one would only repeat it.
`MaxAttempts` is 2 for the code's 3: one attempt before the limit, one at it.
`Limits` holds 1 and 2, with up to two notifications: under a limit of 1 the
second stays behind until the first is settled. `Faulty` holds the second: the
first must get through although the provider chokes on the other. In `outbox`
and `retry` the clock stands still: terms start in the window and leave it by
renewal; what a moving clock does to the window is in `reminders`. Keys, clients, sessions and jobs are symmetric in the runs
without liveness. Models may stop when ids run out or the clock ends, so
deadlock is not checked; that nothing is stuck is what the liveness properties
say.

## Fairness

* `Sweep`, weakly (`FairSpec`): cron starts it every 15 minutes
  (`docs/production.md`), and `sweep_expired` returns without a commit only
  when its query finds nothing.
* The reminder job (`JobsFair`): a run that was started goes on; cron starts it
  again and again on the present date, though other steps may make it
  unnecessary in between (strong, on `StartJob(j, now)`); PostgreSQL serves
  waiters for a row in turn (strong, on `LockUnit`).
* A delivery worker, weakly: started by cron, and a provider that answers,
  times out or raises. The crashes are bounded; a process killed for ever delivers
  nothing.
* A client of `renew_unit` that has no answer yet sends again (strong, since a
  free session comes and goes); a request that was taken on is served, and row
  locks are granted in turn.

Nothing else is assumed to happen: clients and staff need not act. Liveness is
not claimed for two reminder jobs on two units: they may choose each other as
deadlock victims for ever, as far as anything in the code goes.

## Properties

| property | says | hazard |
|---|---|---|
| `StateMatchesIssues` | in stock = never issued; issued or expired = held; revoked = taken back; no unit is issued twice | long mixes of operations; partial failure |
| `ClaimsMatchIssues` | at most one claim of an issue is not rejected; open only on an active issue; closed means exactly one approved | the closed-issue hole, two claims |
| `OneReplacementPerClaim` | an approved claim has one replacement of its own, for the same client | deciding twice |
| `PromiseKept` | refinement of `Entitlement` | two units for one payment |
| `HistoryIsFinal` | no row of the history goes, reopens or changes | deciding twice, deletions |
| `PaidTermsStack`, `ExpiryMovesByRenewal` | terms stack up to the present expiry; it moves only with its Renewal row | eaten days, lost updates |
| `ExpiredIsPast` | expired means past the term | sweep against renewal |
| `AuditExplainsState` | the log leads to the state and counts every row | the sweep bypassing `move_state` |
| `RowsIntact`, `NoEventOrphaned` | no dangling key; deleting cuts no history loose, that of reminders included | PROTECT against SET_NULL |
| `LifeKept` | refinement of `UnitLife` | dead stock sold; what the jobs assume |
| `StaleIsSwept` | a stale unit does not stay issued | liveness |
| `SeenIsCurrent` | what a transaction locked and read stays true until it ends | every race of two calls |
| `IndexesNeverRefuse` | the unique indexes are only a second line, for sales, approvals and claims | check-then-insert |
| `CommitsAreSerial` | every commit is an atomic operation of `Inventory` | every race of two calls |
| `KeyTellsAll` | there is a renewal under a key just when the key is on record; the fingerprint says what it is for | overlapping calls with one key |
| `RetriesAreSafe` | refinement of `RenewOnce` | overlapping calls, a key used for something else |
| `OrderSettles` | who keeps asking gets to know, unless the date overflows and nothing is sold under the key | a retry that is never answered |
| `OneNotePerReminder` | log, notifications and events agree | overlapping runs, deletions |
| `ReminderIndexNeverRefuses` | overlapping runs never meet in the unique constraint | a log read before the locks |
| `RemindedForItsTerm` | a reminder is for the term of a unit in use, now | a snapshot that is old |
| `RemindersKept` | nobody deletes a unit that was reminded of | CASCADE, SET_NULL |
| `DueIsReminded` | a due unit is reminded, or stops being due | a run that was killed |
| `HeldIsPending` | one worker per notification, and it is pending | two workers with one list |
| `MessagesAccountedFor` | messages = lost answers + those marked sent | timeouts, crashes after the call |
| `ParkedWhenBurned` | parked exactly at `MaxAttempts` | the counter at its limit |
| `NotesMoveForward` | no notification vanishes, revives or forgets an attempt | stale rows written back |
| `EveryNoteSettles` | every notification is sent or parked, and a faulty one at least tried | refused ones in front |

Types: `TypeOK`, `TxTypeOK`, `RetryTypeOK`, `ReminderTypeOK`, `OutboxTypeOK`.
`RetryTypeOK` is also where a renewal past `MaxDate` would show, `TypeOK` where
a log would outlive its unit, and `TxTypeOK` has the lock discipline: no row is
locked by two transactions, and one that has read all it wanted holds the lock
of every row its commit will change (`Concerns`).

Two things that go wrong are outside what the liveness properties claim.
`EveryNoteSettles` says nothing of notifications behind one that the provider
chokes on every time: that one comes first in every run and ends it, so they
starve. `Provider.send` has to deliver or raise DeliveryError
(`delivery.py:39`); a provider that keeps to it starves nobody. `OrderSettles`
leaves out an order whose date `datetime` cannot hold: each retry is a 500
again, which the bounds of `services.py:63-66` are there to prevent but, since
they bound the period and not the sum, do not.

## Findings

Four statements of the repository that the code does not keep; each run shows
a shortest behaviour.

* `retry_concurrent`: "the second call returns the first result"
  (`services.py:167`). A second call that overlaps the first has looked the key
  up before it waits for the lock; it meets the unique key at the end and gets
  a 500. No term is sold twice (`RetriesAreSafe`), and a third call gets the
  result (`OrderSettles`).
* `retry_without_key`: "A retry is not a second renewal"
  (`docs/decisions.md:41`). Neither the API nor the admin passes a key.
* `outbox_wait`: the call of the provider "must not" happen inside a
  transaction (`delivery.py:4`). It does, with the notification locked, and a
  second worker waits for it.
* `outbox_twice`: "one message per expiry date" (`models.py:195`). The message
  names the date the unit has when it is sent; after a renewal between queueing
  and sending, two messages name the new date.

## Proofs

For all sets of keys, sessions, jobs, workers, dates, periods, clock lags and
fault bounds that satisfy the named assumptions:

| module | theorem | statement |
|---|---|---|
| `InventoryProofs` | `TypeCorrect` | `Spec => [](TypeOK /\ RowsIntact)` |
| `InventoryProofs` | `UnitsConsistent` | `Spec => []StateMatchesIssues` |
| `InventoryProofs` | `ClaimsConsistent` | `Spec => []ClaimsMatchIssues` |
| `InventoryProofs` | `ReplacementsConsistent` | `Spec => []OneReplacementPerClaim` |
| `TermsProofs` | `PaidTerms` | `Spec => []PaidTermsStack` |
| `TermsProofs` | `ExpiryMoves` | `Spec => ExpiryMovesByRenewal` |
| `TermsProofs` | `HistoryFinal` | `Spec => HistoryIsFinal` |
| `TermsProofs` | `UnitsLive` | `Spec => LifeKept`: Inventory implements UnitLife |
| `TermsProofs` | `KeysIntact`, `ExpiredRightly` | `Spec => []RowsIntact`, `Spec => []ExpiredIsPast` |
| `AuditProofs` | `LogsKeepTheirUnit` | `Spec => NoEventOrphaned` |
| `AuditProofs` | `PromiseHolds` | `Spec => PromiseKept`: Inventory implements Entitlement |
| `AuditProofs` | `AuditExplains` | `Spec => []AuditExplainsState` |
| `TxProofs` | `Serializable` | `TxSpec => CommitsAreSerial`: InventoryTx implements Inventory |
| `TxProofs` | `NothingStale`, `NeverRefused`, `TxTypeCorrect` | `TxSpec => []SeenIsCurrent`, `[]IndexesNeverRefuse`, `[]TxTypeOK` |
| `TxProofs` | `TablesConsistent`, `TablesKeepFaith` | the theorems about `Spec` above, of `TxSpec` |
| `RetryProofs` | `KeysTell` | `RetrySpec => []KeyTellsAll` |
| `RetryProofs` | `RetryRefines` | `RetrySpec => RetriesAreSafe`: RenewalRetry implements RenewOnce |
| `RetryProofs` | `RetryTyped` | `RetrySpec => []RetryTypeOK` |
| `RemindersProofs` | `IndexNeverRefuses` | `ReminderSpec => []ReminderIndexNeverRefuses` |
| `RemindersProofs` | `RemindedRightly`, `LogNeverForgets` | `ReminderSpec => RemindedForItsTerm`, `=> RemindersKept` |
| `RemindersProofs` | `OneNoteForEach`, `RemindersTyped` | `ReminderSpec => []OneNotePerReminder`, `[]ReminderTypeOK` |
| `OutboxProofs` | `WorkersKeepApart`, `MessagesCount`, `ParkedInTime` | `OutboxSpec => []HeldIsPending`, `[]MessagesAccountedFor`, `[]ParkedWhenBurned` |
| `OutboxProofs` | `NotesOnlyForward` | `OutboxSpec => NotesMoveForward` |
| `OutboxProofs` | `OneNoteThoughDelivered`, `OutboxTyped` | `OutboxSpec => []OneNotePerReminder`, `[]OutboxTypeOK` |

The assumptions are those the modules name: `DatesAssumption`,
`ReminderAssumption`, `NullAssumption`, `LifeAssumption`, `LagAssumption`, `WindowAssumption`,
`DeliveryAssumption` and `RetryAssumption`.

*Types and keys* are inductive only together: `approve_claim` follows the claim's
key into the issues and the issue's into the units, and the types of what it
writes depend on the rows being there.

*Claims.* The inductive invariant is `IInv`: types and keys with the three
claims invariants. None of the three stands alone where `approve_claim` is
concerned. That the unit taken back has exactly one issue, now closed
(`StateMatchesIssues`), needs the claim's issue to be active
(`ClaimsMatchIssues`); that the replacement serves no other claim
(`OneReplacementPerClaim`) needs a unit in stock to have no issue
(`StateMatchesIssues`). Note what is not needed: the argument never uses
`NoActiveIssue`, so the index `one_active_issue_per_unit` is redundant for
transactions that lock. `StateStory` restates the first invariant by groups of
states, since renewals and sweeps move a unit only between "issued" and
"expired".

*Terms.* `TermsInv` adds `PaidTermsStack` to types and keys. Keys are needed for
a unit that is registered: no renewal names it yet. `ExpiryMoves` needs the
invariant too: only because every older term ends before the new one is the
record in `renewals'` a new row.

*What clients hold.* `PromiseHolds` needs `IInv` and `ReplacedIsIssued`: no unit
in stock has an approval in its log, so that what is sold counts as sold. A
sale then maps to `Sell`, an approval to `Replace`, and every other operation
to a stutter, because it neither writes an issue nor logs an approval
(`QuietSteps`). `LogsKeepTheirUnit` rests on `LoggedIsReferred`: a unit that has
a log has an issue or a renewal that PROTECTs it. A queued reminder is the one
event written without such a row, and it is about a unit in state "issued" or
"expired", which by `StateMatchesIssues` was sold.

*What the log says.* `AuditExplains` needs the tables to be finite, or counting
rows means nothing (`AuditInv`). What one more entry does to a log is said once,
without tables: a change of state that `CanMove` allows leads on to the new
state (`StateLeads`), any other entry leaves the states a log names alone
(`EntryLeads`) and counts as one (`AppendCount`). An operation then matches each
entry with one new row (`EntryExplained`). That it is a new one is where the
other invariants come in: the record of a renewal is new because every older
term ends sooner (`PaidTermsStack`), the replacement of an approved claim is
counted once because an open claim has none (`OneReplacementPerClaim`), and a
sweep, which writes past `move_state`, moves issued units only, as `move_state`
would. `LeadsTo` quantifies over the places where a log names a state rather
than filtering it, which recursion over sequences would need.

*Transactions.* `TxInv` says four things of an open transaction (`Good`): it is
well-formed (`Typed`); what its decision needs is read or still to be locked
(`Planned`); what it has read for a decision is locked and as it was
(`Current`); a found absence of open claims is still so (`Clear`). With
`LocksApart`, no row is locked twice. A commit then finds its rows as the
tables have them and is a step of `Inventory` (the `...Serial` lemmas), and it
writes only rows it has locked, which no other transaction has read
(`WritesOnly`; a reminder run writes events only, and none of a locked unit); claims are opened only on a locked issue (`ClaimsOnly`), which
is what keeps `Clear`. What is proved of `Spec` holds under concurrency
(`TablesConsistent`, `TablesKeepFaith`).

*Retries.* `RetryInv` has the shape of orders, sessions and rows (`Shape`), that
a key on record names a renewal for what its fingerprint says (`Recorded`),
`KeyTellsAll`, and that an answer under way is right when it is given
(`AnswersHonest`). Since a key is looked up before the lock, only the unique
key makes `Commit` a sale of the first term under that key. `RowsTyped` adds
what `RetryTypeOK` needs beyond it: a request has read the clock at or before
now, one that is about to write still finds its unit, and so the date it writes
is one `datetime` can represent.

*Reminders and delivery.* `ReminderInv`: a row that a run holds is as it was
read, and held by no other (`RowsHeld`); what the run is about to record is not
in the log (`FreshIsNew`), since the log was read under these locks and another
run that would write it needs the same rows; a reminded unit was sold, and so
is never deleted (`RemindedWereSold`). `JournalInv` adds that the runs and
notifications are well-formed, that notifications are numbered 1 to some k
(`NotesNumbered`), so that new ones never overwrite one, and that each unit has
as many of them as reminders, both finite (`OneNoteEach`), and as many events,
one for each date (`EventsTell`). A commit creates one
notification for each unit it reminds of and no other: its reminders name
different units (the rows are keyed by unit) and are new (`FreshIsNew`), so
the counts of a reminded unit grow by one. A unit that is deleted was never
sold, hence never reminded of, and takes nothing of the three along.
`OutboxInv` adds to `JournalInv` mailboxes for all notifications,
`HeldIsPending` and the two counts; each commit of a worker moves one message
from "accepted" to "sent". That a worker which starts has something to do is a
lemma of its own (`OldestAreSome`): what is due has a least number, by the
well-foundedness of strict inclusion between finite sets (`LeastNumber`).

Only model-checked are the liveness properties `StaleIsSwept`, `DueIsReminded`,
`EveryNoteSettles` and `OrderSettles`, which are out of TLAPS's reach: they need
fairness and ENABLED. Every other property that a passing run checks is proved
above. The four findings are TLC's as well.

## Not modelled, and planned

Not modelled: lists, filters, pagination and payloads of the API, permissions,
login and throttling, request ids in logs, settings, the mutation script. They
change none of the tables modelled, or only ask the framework. Demo data is not
modelled either, and does change them: `seed_demo` fills an empty database
outside production, creates units directly and sets an expiry date without a
Renewal (lines 54, 63-64, 72-73), so that `ExpiryMovesByRenewal` does not hold
of what it does. That several writes of one transaction land together or not at
all is taken from PostgreSQL: a commit is one step, and what happens between two
writes is a rollback. The batch of `renew_30_days` is one `renew_unit` after the
other and not modelled as a whole. A ref that is edited between a request and
its retry (the fingerprint names the unit by its ref, `services.py:186`) is left
out. Of
the error responses only those of a renewal are modelled; a `ProtectedError`
answers a deletion that changes nothing. The locks that PostgreSQL takes for
foreign keys are left out, and reminder runs are not composed with the sweep's
locks: both can only add deadlocks, whose victims roll back, and a rollback is
possible at any point of the models that have them.

Left in the plan: `LockOrder`, which transactions can wait for each other, the
foreign-key locks included.
