------------------------------ MODULE Inventory -----------------------------
(***************************************************************************)
(* The service layer of the licence inventory (inventory/services.py) over *)
(* its tables (inventory/models.py), one action per database transaction.  *)
(* Every public function there runs in transaction.atomic: an early return *)
(* or a raised DomainError leaves the tables as they were, so only the     *)
(* path that commits is an action.  InventoryTx opens the transactions up. *)
(*                                                                         *)
(* Tables are partial functions from primary keys to rows.  Dates are      *)
(* whole days.  Prices, refs, names and notes are left out: no operation   *)
(* decides anything on them once a ref is resolved to its unit.            *)
(***************************************************************************)
EXTENDS Integers, Sequences, FiniteSets, UnitStates, Tables

CONSTANTS
    Units, Clients, IssueIds, ClaimIds,     \* primary keys
    NoDate,         \* a NULL date
    NoUnit,         \* a NULL replacement_unit
    RegisterDates,  \* expiry dates a unit may be registered with
    Periods,        \* renewal periods, in days
    WarrantyDays,   \* warranty lengths, in days
    ReminderDays,   \* the values of --days the reminder job is run with
    GraceDays,      \* how long after its end a term is still reminded of
    MaxDate,        \* the last date datetime can represent
    Lag,            \* how old a clock reading may be when its transaction commits
    Horizon         \* bound on the clock

ASSUME DatesAssumption ==
    /\ MaxDate \in Nat /\ Lag \in Nat /\ Horizon \in Nat
    /\ RegisterDates \subseteq 0..MaxDate
    /\ Periods \subseteq 1..3650
    /\ WarrantyDays \subseteq 0..365
    /\ NoDate \notin Nat

ASSUME ReminderAssumption == ReminderDays \subseteq Nat /\ GraceDays \in Nat

ASSUME NullAssumption == NoUnit \notin Units

VARIABLES
    now,        \* the database server's date
    units,      \* unit pk  -> [state, expires_at]
    issues,     \* issue pk -> [unit, client, warranty_days, warranty_until, is_active]
    claims,     \* claim pk -> [issue, state, replacement_unit]
    renewals,   \* rows of Renewal; two of one unit never share new_expires_at
    events      \* unit pk -> its audit log, oldest first

tables == <<units, issues, claims, renewals, events>>
vars == <<now, units, issues, claims, renewals, events>>

Dates == 0..MaxDate

UnitRow == [state : UnitState, expires_at : Dates \cup {NoDate}]

IssueRow == [unit : Units, client : Clients, warranty_days : WarrantyDays,
             warranty_until : Nat, is_active : BOOLEAN]

ClaimRow == [issue : IssueIds, state : ClaimState, replacement_unit : Units \cup {NoUnit}]

RenewalRow == [unit : Units, period_days : Periods,
               previous_expires_at : Dates \cup {NoDate}, new_expires_at : Dates]

\* An event's action.  A unit.state_changed event stands as its target state.
EventAction ==
    UnitState \cup {"issue.created", "unit.renewed", "reminder.queued",
                    "claim.opened", "claim.approved", "claim.rejected"}

\* The clock readings a transaction that commits now may have decided on.
ClockReadings == {t \in 0..now : now - t <= Lag}

Init ==
    /\ now = 0
    /\ units = <<>>
    /\ issues = <<>>
    /\ claims = <<>>
    /\ renewals = {}
    /\ events = <<>>

-----------------------------------------------------------------------------
\* An operation decides on the rows it read and writes single columns back.
\* The rows come as parameters (row, old, new): here they are the present
\* ones, in InventoryTx those a transaction read when it locked them.

\* move_state: a move to the present state is a no-op and writes no event.
MayMove(row, target) == row.state = target \/ CanMove(row.state, target)

StateChanged(row, target) == IF row.state = target THEN <<>> ELSE <<target>>

-----------------------------------------------------------------------------
\* Registering and deleting a unit (UnitViewSet create and destroy, UnitAdmin).

RegisterUnit(u, e) ==
    /\ u \notin DOMAIN units
    /\ units' = Insert(units, u, [state |-> "available", expires_at |-> e])
    /\ events' = Insert(events, u, <<>>)
    /\ UNCHANGED <<now, issues, claims, renewals>>

\* Mutant of Deletable: Issue.unit is not PROTECT.
DeletableDespiteIssues(u) ==
    /\ \A r \in renewals : r.unit # u
    /\ \A c \in DOMAIN claims : claims[c].replacement_unit # u

\* No PROTECT foreign key refers to the unit.
Deletable(u) ==
    /\ \A i \in DOMAIN issues : issues[i].unit # u
    /\ \A r \in renewals : r.unit # u
    /\ \A c \in DOMAIN claims : claims[c].replacement_unit # u

\* Mutant of DeleteUnit: Event.unit is DO_NOTHING.
DeleteUnitKeepingLog(u) ==
    /\ Deletable(u)
    /\ units' = [x \in DOMAIN units \ {u} |-> units[x]]
    /\ UNCHANGED <<now, issues, claims, renewals, events>>

\* Event.unit is SET_NULL: what the log said of the unit no longer names it.
DeleteUnit(u) ==
    /\ Deletable(u)
    /\ units' = [x \in DOMAIN units \ {u} |-> units[x]]
    /\ events' = [x \in DOMAIN events \ {u} |-> events[x]]
    /\ UNCHANGED <<now, issues, claims, renewals>>

-----------------------------------------------------------------------------
\* issue_unit

\* Mutant of Issuable: dead stock is sold.
IssuableDead(row, t) == row.state \in {"available", "reserved"} /\ MayMove(row, "issued")

\* In stock, and not past its expiry.
Issuable(row, t) ==
    /\ row.state \in {"available", "reserved"}
    /\ row.expires_at # NoDate => row.expires_at > t
    /\ MayMove(row, "issued")

NewIssue(u, c, w, t) ==
    [unit |-> u, client |-> c, warranty_days |-> w, warranty_until |-> t + w,
     is_active |-> TRUE]

\* The partial index one_active_issue_per_unit.
NoActiveIssue(u) == \A i \in DOMAIN issues : issues[i].unit = u => ~issues[i].is_active

IssueUnit(u, row, c, i, w, t) ==
    /\ i \notin DOMAIN issues
    /\ Issuable(row, t)
    /\ NoActiveIssue(u)
    /\ issues' = Insert(issues, i, NewIssue(u, c, w, t))
    /\ units' = [units EXCEPT ![u].state = "issued"]
    /\ events' = [events EXCEPT ![u] = @ \o StateChanged(row, "issued") \o <<"issue.created">>]
    /\ UNCHANGED <<now, claims, renewals>>

-----------------------------------------------------------------------------
\* renew_unit, called without an idempotency key as the API and the admin do

\* Mutant of RenewalBase: counts from today.
RenewalBaseToday(row, t) == t

\* The term counts from the present expiry while that lies ahead.
RenewalBase(row, t) ==
    IF row.expires_at # NoDate /\ row.expires_at > t THEN row.expires_at ELSE t

\* Mutant of RenewedState: renewing leaves an expired unit expired.
RenewedStateKept(row) == row.state

RenewedState(row) == IF row.state = "expired" THEN "issued" ELSE row.state

\* Mutant of RenewalRecord: previous is read after the assignment.
RenewalRecordLate(u, row, d, new) ==
    [unit |-> u, period_days |-> d, previous_expires_at |-> new, new_expires_at |-> new]

RenewalRecord(u, row, d, new) ==
    [unit |-> u, period_days |-> d,
     previous_expires_at |-> row.expires_at, new_expires_at |-> new]

\* A date past MaxDate raises OverflowError, and the transaction rolls back.
RenewUnit(u, row, d, t) ==
    LET new   == RenewalBase(row, t) + d
        state == RenewedState(row)
    IN  /\ row.state # "revoked"
        /\ new <= MaxDate
        /\ units' = [units EXCEPT
                        ![u].expires_at = new,
                        ![u].state = IF state = row.state THEN @ ELSE state]
        /\ renewals' = renewals \cup {RenewalRecord(u, row, d, new)}
        /\ events' = [events EXCEPT ![u] = @ \o StateChanged(row, state) \o <<"unit.renewed">>]
        /\ UNCHANGED <<now, issues, claims>>

-----------------------------------------------------------------------------
\* open_claim, approve_claim, reject_claim

NoOpenClaim(i) ==
    \A c \in DOMAIN claims : claims[c].issue = i => claims[c].state # "open"

\* Mutant of Claimable: a closed issue can be claimed again.
ClaimableThoughClosed(issue, t) == t <= issue.warranty_until

\* Within warranty and still active.
Claimable(issue, t) == t <= issue.warranty_until /\ issue.is_active

\* NoOpenClaim is a query of the service and a partial unique index.
OpenClaim(i, issue, c, t) ==
    /\ c \notin DOMAIN claims
    /\ Claimable(issue, t)
    /\ NoOpenClaim(i)
    /\ claims' = Insert(claims, c,
                        [issue |-> i, state |-> "open", replacement_unit |-> NoUnit])
    /\ events' = [events EXCEPT ![issue.unit] = Append(@, "claim.opened")]
    /\ UNCHANGED <<now, units, issues, renewals>>

\* Mutant of Undecided: a claim can be decided again.
UndecidedOrNot(claim) == claim.state \in ClaimState

Undecided(claim) == claim.state = "open"

\* claim, issue, old: the claim and what it joins to; new: the row of the
\* replacement r.  The nested issue_unit sees old already revoked, so r is
\* another unit.
ApproveClaim(c, claim, issue, old, r, new, j, t) ==
    /\ Undecided(claim)
    /\ MayMove(old, "revoked")
    /\ j \notin DOMAIN issues
    /\ r # issue.unit
    /\ Issuable(new, t)
    /\ NoActiveIssue(r)
    /\ issues' = Insert([issues EXCEPT ![claim.issue].is_active = FALSE], j,
                        NewIssue(r, issue.client, issue.warranty_days, t))
    /\ units' = [units EXCEPT ![issue.unit].state = "revoked", ![r].state = "issued"]
    /\ claims' = [claims EXCEPT ![c].state = "approved", ![c].replacement_unit = r]
    /\ events' = [events EXCEPT
                     ![issue.unit] = @ \o StateChanged(old, "revoked"),
                     ![r] = @ \o StateChanged(new, "issued")
                              \o <<"issue.created", "claim.approved">>]
    /\ UNCHANGED <<now, renewals>>

RejectClaim(c, claim, issue) ==
    /\ Undecided(claim)
    /\ claims' = [claims EXCEPT ![c].state = "rejected"]
    /\ events' = [events EXCEPT ![issue.unit] = Append(@, "claim.rejected")]
    /\ UNCHANGED <<now, units, issues, renewals>>

-----------------------------------------------------------------------------
\* sweep_expired, run by cron

\* Mutants of IsStale: the filter on state is dropped; the bound is exclusive.
IsStaleInAnyState(row, t) == row.expires_at # NoDate /\ row.expires_at <= t

IsStaleNextDay(row, t) ==
    row.state = "issued" /\ row.expires_at # NoDate /\ row.expires_at < t

IsStale(row, t) ==
    row.state = "issued" /\ row.expires_at # NoDate /\ row.expires_at <= t

MarkExpired(stale) ==
    units' = [u \in DOMAIN units |->
                IF u \in stale THEN [units[u] EXCEPT !.state = "expired"] ELSE units[u]]

\* Mutant of SweepExpired: the bulk update writes no events.
SweepSilently(stale) ==
    /\ stale # {}
    /\ MarkExpired(stale)
    /\ UNCHANGED <<now, issues, claims, renewals, events>>

\* stale: the units the locking query returned.
SweepExpired(stale) ==
    /\ stale # {}
    /\ MarkExpired(stale)
    /\ events' = [u \in DOMAIN events |->
                   IF u \in stale THEN Append(events[u], "expired") ELSE events[u]]
    /\ UNCHANGED <<now, issues, claims, renewals>>

-----------------------------------------------------------------------------
\* send_renewal_reminders, run by cron; Reminders opens it up

\* Mutant of Due: the filter on state is dropped.
DueInAnyState(row, t, days) ==
    row.expires_at # NoDate /\ row.expires_at >= t - GraceDays /\ row.expires_at <= t + days

Due(row, t, days) ==
    /\ row.state \in {"issued", "expired"}
    /\ row.expires_at # NoDate
    /\ row.expires_at >= t - GraceDays /\ row.expires_at <= t + days

\* Whether ReminderLog has the present expiry of u.  A renewal always moves
\* the expiry, so that is whether a reminder was queued since the last one.
Reminded(u) ==
    \E k \in DOMAIN events[u] :
       /\ events[u][k] = "reminder.queued"
       /\ \A m \in DOMAIN events[u] : m > k => events[u][m] # "unit.renewed"

\* fresh: the units the run found and had not reminded before.  Of the tables
\* of this module it writes the events only.
QueueReminders(fresh) ==
    /\ fresh # {}
    /\ events' = [u \in DOMAIN events |->
                   IF u \in fresh THEN Append(events[u], "reminder.queued") ELSE events[u]]
    /\ UNCHANGED <<now, units, issues, claims, renewals>>

Tick ==
    /\ now < Horizon
    /\ now' = now + 1
    /\ UNCHANGED tables

-----------------------------------------------------------------------------

Register == \E u \in Units, e \in RegisterDates \cup {NoDate} : RegisterUnit(u, e)

Delete == \E u \in DOMAIN units : DeleteUnit(u)

Issue ==
    \E u \in DOMAIN units, c \in Clients, i \in IssueIds, w \in WarrantyDays, t \in ClockReadings :
        IssueUnit(u, units[u], c, i, w, t)

Renew ==
    \E u \in DOMAIN units, d \in Periods, t \in ClockReadings : RenewUnit(u, units[u], d, t)

Open ==
    \E i \in DOMAIN issues, c \in ClaimIds, t \in ClockReadings : OpenClaim(i, issues[i], c, t)

Approve ==
    \E c \in DOMAIN claims, r \in DOMAIN units, j \in IssueIds, t \in ClockReadings :
        LET issue == issues[claims[c].issue]
        IN  ApproveClaim(c, claims[c], issue, units[issue.unit], r, units[r], j, t)

Reject == \E c \in DOMAIN claims : RejectClaim(c, claims[c], issues[claims[c].issue])

\* The query runs after the clock is read: a unit issued in between on an
\* older reading is stale, but not in its result.
Sweep ==
    \E t \in ClockReadings :
        \E stale \in SUBSET {u \in DOMAIN units : IsStale(units[u], t)} : SweepExpired(stale)

\* As with a sweep, a unit sold after the query is not in its result.
Remind ==
    \E days \in ReminderDays, t \in ClockReadings :
        \E fresh \in SUBSET {u \in DOMAIN units : Due(units[u], t, days) /\ ~Reminded(u)} :
            QueueReminders(fresh)

Next ==
    \/ Register \/ Delete \/ Issue \/ Renew \/ Open \/ Approve \/ Reject
    \/ Sweep \/ Remind \/ Tick

Spec == Init /\ [][Next]_vars

\* cron starts a sweep every 15 minutes (docs/production.md), and nothing
\* but an empty queryset makes it return without a commit.
FairSpec == Spec /\ WF_vars(Sweep)

-----------------------------------------------------------------------------
\* Every table holds rows of its type.
TypeOK ==
    /\ now \in 0..Horizon
    /\ DOMAIN units \subseteq Units /\ \A u \in DOMAIN units : units[u] \in UnitRow
    /\ DOMAIN issues \subseteq IssueIds /\ \A i \in DOMAIN issues : issues[i] \in IssueRow
    /\ DOMAIN claims \subseteq ClaimIds /\ \A c \in DOMAIN claims : claims[c] \in ClaimRow
    /\ renewals \subseteq RenewalRow
    /\ DOMAIN events = DOMAIN units /\ \A u \in DOMAIN units : events[u] \in Seq(EventAction)

\* Every foreign key finds its row, although staff may delete units.
RowsIntact ==
    /\ \A i \in DOMAIN issues : issues[i].unit \in DOMAIN units
    /\ \A r \in renewals : r.unit \in DOMAIN units
    /\ \A c \in DOMAIN claims :
          /\ claims[c].issue \in DOMAIN issues
          /\ claims[c].replacement_unit \in DOMAIN units \cup {NoUnit}

IssuesOf(u) == {i \in DOMAIN issues : issues[i].unit = u}

\* A unit's state and its issues tell the same story: in stock means never
\* issued, issued or expired means a client holds it, revoked means it was
\* taken back; and no unit is ever issued twice.
StateMatchesIssues ==
    /\ \A i, j \in DOMAIN issues : issues[i].unit = issues[j].unit => i = j
    /\ \A u \in DOMAIN units :
          /\ units[u].state \in {"available", "reserved"} <=> IssuesOf(u) = {}
          /\ units[u].state = "revoked" <=> \E i \in IssuesOf(u) : ~issues[i].is_active

\* What one issue can be claimed for.  Of its claims at most one is not
\* rejected; an open one means that the issue is still active; it is closed
\* exactly when one is approved.
ClaimsMatchIssues ==
    /\ \A c, d \in DOMAIN claims :
          claims[c].issue = claims[d].issue /\ c # d => "rejected" \in {claims[c].state, claims[d].state}
    /\ \A c \in DOMAIN claims : claims[c].state = "open" => issues[claims[c].issue].is_active
    /\ \A i \in DOMAIN issues :
          ~issues[i].is_active <=> \E c \in DOMAIN claims : /\ claims[c].issue = i
                                                            /\ claims[c].state = "approved"

\* An approved claim, and no other, handed out one replacement: a unit of its
\* own, issued to the same client under the same warranty.
OneReplacementPerClaim ==
    /\ \A c \in DOMAIN claims : claims[c].state = "approved" <=> claims[c].replacement_unit # NoUnit
    /\ \A c, d \in DOMAIN claims :
          claims[c].replacement_unit = claims[d].replacement_unit /\ c # d
             => claims[c].replacement_unit = NoUnit
    /\ \A c \in DOMAIN claims : claims[c].state = "approved" =>
          \E j \in IssuesOf(claims[c].replacement_unit) :
             /\ j # claims[c].issue
             /\ issues[j].client = issues[claims[c].issue].client
             /\ issues[j].warranty_days = issues[claims[c].issue].warranty_days

RenewalsOf(u) == {r \in renewals : r.unit = u}

\* The renewals of a unit explain its expiry: their terms stack, none
\* overlapping another or shorter than what was paid, up to the present date.
PaidTermsStack ==
    \A u \in DOMAIN units :
       /\ \A r \in RenewalsOf(u) :
             /\ r.previous_expires_at # NoDate =>
                   r.new_expires_at >= r.previous_expires_at + r.period_days
             /\ units[u].expires_at # NoDate /\ r.new_expires_at <= units[u].expires_at
       /\ \A r, q \in RenewalsOf(u) :
             \/ r = q
             \/ q.previous_expires_at # NoDate /\ r.new_expires_at <= q.previous_expires_at
             \/ r.previous_expires_at # NoDate /\ q.new_expires_at <= r.previous_expires_at
       /\ RenewalsOf(u) # {} =>
             \E r \in RenewalsOf(u) : r.new_expires_at = units[u].expires_at

\* A unit is called expired only when its paid term is over.
ExpiredIsPast ==
    \A u \in DOMAIN units :
       units[u].state = "expired" => units[u].expires_at # NoDate /\ units[u].expires_at <= now

Occurrences(log, e) == Cardinality({k \in DOMAIN log : log[k] = e})

\* Where a log names a state; 0 stands for the unit's creation.
StateMarks(log) == {0} \cup {k \in DOMAIN log : log[k] \in UnitState}

StateAt(log, k) == IF k = 0 THEN "available" ELSE log[k]

\* The last state a log names is the present one, and every state it names
\* may follow the one named before it.
LeadsTo(log, state) ==
    \A k \in StateMarks(log) :
       /\ (\A m \in StateMarks(log) : m <= k) => StateAt(log, k) = state
       /\ \A j \in StateMarks(log) :
             j < k /\ (\A m \in StateMarks(log) : m <= j \/ k <= m)
                => CanMove(StateAt(log, j), StateAt(log, k))

ClaimsOn(u, S) ==
    {c \in DOMAIN claims : issues[claims[c].issue].unit = u /\ claims[c].state \in S}

ReplacedBy(u) == {c \in DOMAIN claims : claims[c].replacement_unit = u}

\* The audit log accounts for everything that happened to a unit: its state
\* changes lead through allowed transitions to the present state, although
\* the sweep writes them past move_state, and there is one event for every
\* issue, renewal, claim and decision in the tables.
AuditExplainsState ==
    \A u \in DOMAIN units :
       /\ LeadsTo(events[u], units[u].state)
       /\ Occurrences(events[u], "issue.created") = Cardinality(IssuesOf(u))
       /\ Occurrences(events[u], "unit.renewed") = Cardinality(RenewalsOf(u))
       /\ Occurrences(events[u], "claim.opened") = Cardinality(ClaimsOn(u, ClaimState))
       /\ Occurrences(events[u], "claim.rejected") = Cardinality(ClaimsOn(u, {"rejected"}))
       /\ Occurrences(events[u], "claim.approved") = Cardinality(ReplacedBy(u))

-----------------------------------------------------------------------------
\* History is never rewritten: a row outlives every later step, a revoked
\* unit stays revoked, a closed issue closed, a decided claim decided.
HistoryStep ==
    /\ \A u \in DOMAIN units \cap DOMAIN units' :
          units[u].state = "revoked" => units'[u].state = "revoked"
    /\ \A i \in DOMAIN issues :
          /\ i \in DOMAIN issues'
          /\ issues'[i] \in {issues[i], [issues[i] EXCEPT !.is_active = FALSE]}
    /\ \A c \in DOMAIN claims :
          /\ c \in DOMAIN claims'
          /\ claims[c].state # "open" => claims'[c] = claims[c]
    /\ renewals \subseteq renewals'

HistoryIsFinal == [][HistoryStep]_vars

\* An expiry date moves only by a renewal recorded in the same transaction,
\* and never back: no paid day is lost.
ExpiryStep ==
    \A u \in DOMAIN units \cap DOMAIN units' :
       units'[u].expires_at # units[u].expires_at =>
          \E r \in renewals' \ renewals :
             /\ r.unit = u
             /\ r.previous_expires_at = units[u].expires_at
             /\ r.new_expires_at = units'[u].expires_at
             /\ r.new_expires_at >= (IF units[u].expires_at # NoDate THEN units[u].expires_at
                                                                    ELSE now - Lag) + r.period_days

ExpiryMovesByRenewal == [][ExpiryStep]_vars

\* Deleting a unit orphans no event: PROTECT refuses every unit that has a log.
\* What comes with rows of its own is protected by them; reminder.queued has none
\* that are (ReminderLog and Notification are CASCADE), but the unit was sold.
NoEventOrphaned ==
    [][\A u \in DOMAIN units : u \notin DOMAIN units' => events[u] = <<>>]_vars

-----------------------------------------------------------------------------
\* What a client holds and paid for, read off the tables.

HeldBy(c) ==
    {issues[i].unit : i \in {j \in DOMAIN issues : issues[j].client = c /\ issues[j].is_active}}

Replaced(u) == \E k \in DOMAIN events[u] : events[u][k] = "claim.approved"

\* What a client paid for: the issues whose unit was not, says the audit log,
\* a replacement.  The claims table cannot tell: it names the last
\* replacement of a claim only.
SoldTo(c) == {i \in DOMAIN issues : issues[i].client = c /\ ~Replaced(issues[i].unit)}

Promise == INSTANCE Entitlement WITH
    Sales <- IssueIds,
    held <- [c \in Clients |-> HeldBy(c)],
    sold <- [c \in Clients |-> SoldTo(c)],
    burned <- {issues[i].unit : i \in {j \in DOMAIN issues : ~issues[j].is_active}}

\* The service implements its promise: one sale, one unit in use.
PromiseKept == Promise!Spec

Life == INSTANCE UnitLife

\* What the other modules know of a unit is right: its state and expiry move
\* only as UnitLife says.
LifeKept == Life!Spec

PastTerm(u) ==
    /\ u \in DOMAIN units
    /\ units[u].state = "issued" /\ units[u].expires_at # NoDate /\ units[u].expires_at <= now

\* A unit whose term is over does not stay issued: a sweep moves it, unless a
\* renewal or an approved claim gets there first.
StaleIsSwept == \A u \in Units : PastTerm(u) ~> ~PastTerm(u)

=============================================================================
