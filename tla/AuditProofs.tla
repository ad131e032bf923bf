----------------------------- MODULE AuditProofs ----------------------------
(***************************************************************************)
(* Proofs about the audit log of Inventory: deleting a unit orphans no     *)
(* event; with the log telling sales from replacements, Inventory          *)
(* implements Entitlement, what the service promises its clients; and the  *)
(* log explains the state of every unit and counts every row.              *)
(***************************************************************************)
EXTENDS TermsProofs, FiniteSetTheorems

-----------------------------------------------------------------------------
\* The audit log of a unit outlives no unit.

\* An issue or a renewal refers to the unit: PROTECT keeps it.
Referred(u) ==
    \/ \E i \in DOMAIN issues : issues[i].unit = u
    \/ \E r \in renewals : r.unit = u

\* A unit with a log is one that was sold or renewed.
LoggedIsReferred == \A u \in DOMAIN units : events[u] # <<>> => Referred(u)

LEMMA ReferredStays ==
    ASSUME TypeOK, RowsIntact, [Next]_vars, NEW u, Referred(u)
    PROVE  Referred(u)'
<1>1. CASE \E i \in DOMAIN issues : issues[i].unit = u
  <2>1. PICK i \in DOMAIN issues : issues[i].unit = u
    BY <1>1
  <2>2. issues[i] \in IssueRow
    BY DEF TypeOK
  <2>3. i \in DOMAIN issues' /\ issues'[i] \in {issues[i], [issues[i] EXCEPT !.is_active = FALSE]}
    BY IssuesStay
  <2>4. issues'[i].unit = u
    BY <2>1, <2>2, <2>3 DEF IssueRow
  <2> QED
    BY <2>3, <2>4 DEF Referred
<1>2. CASE \E r \in renewals : r.unit = u
  <2>1. renewals \subseteq renewals'
    <3>1. CASE Renew
      BY <3>1 DEF Renew, RenewUnit
    <3>2. CASE ~Renew
      BY <3>2, OthersKeepTerms
    <3> QED
      BY <3>1, <3>2
  <2> QED
    BY <1>2, <2>1 DEF Referred
<1> QED
  BY <1>1, <1>2 DEF Referred

\* What is written to a log goes with an issue or a renewal of the unit, a
\* reminder with the sale that made it due.
LEMMA LoggingRefers ==
    ASSUME TypeOK, RowsIntact, StateMatchesIssues, [Next]_vars,
           NEW u \in DOMAIN units \cap DOMAIN units', events'[u] # events[u]
    PROVE  Referred(u) \/ Referred(u)'
<1>1. CASE Register \/ Delete \/ Tick \/ UNCHANGED vars
  BY <1>1 DEF Register, RegisterUnit, Insert, Delete, DeleteUnit, Tick, tables, vars, TypeOK
<1>2. CASE Issue
  <2>1. PICK x \in DOMAIN units, c \in Clients, i \in IssueIds, w \in WarrantyDays,
             t \in ClockReadings : IssueUnit(x, units[x], c, i, w, t)
    BY <1>2 DEF Issue
  <2>2. x = u
    BY <2>1 DEF IssueUnit, TypeOK
  <2>3. i \in DOMAIN issues' /\ issues'[i].unit = x
    BY <2>1 DEF IssueUnit, Insert, NewIssue
  <2> QED
    BY <2>2, <2>3 DEF Referred
<1>3. CASE Renew
  <2>1. PICK x \in DOMAIN units, d \in Periods, t \in ClockReadings : RenewUnit(x, units[x], d, t)
    BY <1>3 DEF Renew
  <2>2. x = u
    BY <2>1 DEF RenewUnit, TypeOK
  <2>3. renewals' = renewals \cup {RenewalRecord(x, units[x], d, NewExpiry(x, d, t))}
    BY <2>1, RenewTerms
  <2>4. RenewalRecord(x, units[x], d, NewExpiry(x, d, t)).unit = x
    BY DEF RenewalRecord
  <2> QED
    BY <2>2, <2>3, <2>4 DEF Referred
<1>4. CASE Open \/ Reject
  BY <1>4 DEF Open, OpenClaim, Reject, RejectClaim, Referred, RowsIntact, TypeOK
<1>5. CASE Approve
  <2>1. PICK c \in DOMAIN claims, r \in DOMAIN units, j \in IssueIds, t \in ClockReadings :
             ApproveStep(c, r, j, t)
    BY <1>5 DEF Approve, ApproveStep
  <2>2. u = r \/ u = issues[claims[c].issue].unit
    BY <2>1 DEF ApproveStep, ApproveClaim, TypeOK
  <2>3. claims[c].issue \in DOMAIN issues
    BY DEF RowsIntact
  <2>4. j \in DOMAIN issues' /\ issues'[j].unit = r
    <3>1. ApproveChanges(c, r, j, t)
      BY <2>1, ApproveEffect
    <3>2. /\ j \in DOMAIN issues'
          /\ issues'[j] = NewIssue(r, issues[claims[c].issue].client,
                                  issues[claims[c].issue].warranty_days, t)
      BY <3>1 DEF ApproveChanges
    <3>3. NewIssue(r, issues[claims[c].issue].client,
                   issues[claims[c].issue].warranty_days, t).unit = r
      BY DEF NewIssue
    <3> QED
      BY <3>2, <3>3
  <2> QED
    BY <2>2, <2>3, <2>4 DEF Referred
<1>6. CASE Sweep
  <2>1. PICK t \in ClockReadings, stale \in SUBSET DOMAIN units :
           (\A x \in stale : IsStale(units[x], t)) /\ SweepExpired(stale)
    BY <1>6 DEF Sweep
  <2>2. u \in stale
    BY <2>1 DEF SweepExpired, TypeOK
  <2>3. units[u].state = "issued"
    BY <2>1, <2>2 DEF IsStale
  <2> QED
    BY <2>3 DEF StateMatchesIssues, IssuesOf, Referred
<1>7. CASE Remind
  <2>1. PICK fresh \in SUBSET DOMAIN units :
           /\ \A x \in fresh : units[x].state \in {"issued", "expired"}
           /\ events' = [x \in DOMAIN events |->
                          IF x \in fresh THEN Append(events[x], "reminder.queued") ELSE events[x]]
    BY <1>7, RemindEffect
  <2>2. u \in fresh
    BY <2>1 DEF TypeOK
  <2>3. units[u].state \in {"issued", "expired"}
    BY <2>1, <2>2
  <2> QED
    BY <2>3 DEF StateMatchesIssues, IssuesOf, Referred
<1> QED
  BY <1>1, <1>2, <1>3, <1>4, <1>5, <1>6, <1>7 DEF Next

\* A new unit has no log.
LEMMA NewUnitsUnlogged ==
    ASSUME TypeOK, [Next]_vars, NEW u \in DOMAIN units', u \notin DOMAIN units
    PROVE  events'[u] = <<>>
<1>1. CASE Register
  BY <1>1 DEF Register, RegisterUnit, Insert, TypeOK
<1>2. CASE Remind
  BY <1>2, RemindEffect
<1>3. CASE ~Register /\ ~Remind
  BY <1>3 DEF Next, Delete, DeleteUnit, Issue, IssueUnit, Renew, RenewUnit, Open, OpenClaim,
              Approve, ApproveClaim, Reject, RejectClaim, Sweep, SweepExpired, MarkExpired,
              Tick, tables, vars
<1> QED
  BY <1>1, <1>2, <1>3

LEMMA NextLogged ==
    ASSUME IInv, LoggedIsReferred, [Next]_vars
    PROVE  LoggedIsReferred'
<1>1. TypeOK /\ RowsIntact /\ StateMatchesIssues
  BY DEF IInv, Consistent
<1>2. ASSUME NEW u \in DOMAIN units', events'[u] # <<>>
      PROVE  Referred(u)'
  <2>1. u \in DOMAIN units
    BY <1>1, <1>2, NewUnitsUnlogged
  <2>2. CASE events'[u] = events[u]
    BY <1>1, <1>2, <2>1, <2>2, ReferredStays DEF LoggedIsReferred
  <2>3. CASE events'[u] # events[u]
    BY <1>1, <2>1, <2>3, LoggingRefers, ReferredStays
  <2> QED
    BY <2>2, <2>3
<1> QED
  BY <1>2 DEF LoggedIsReferred

\* Only Delete loses a unit, and only one that nothing refers to.
LEMMA LostUnlogged ==
    ASSUME IInv, LoggedIsReferred, [Next]_vars, NEW u \in DOMAIN units, u \notin DOMAIN units'
    PROVE  events[u] = <<>>
<1>1. CASE Delete
  <2>1. PICK x \in DOMAIN units : DeleteUnit(x)
    BY <1>1 DEF Delete
  <2>2. x = u /\ ~Referred(x)
    BY <2>1 DEF DeleteUnit, Deletable, Referred
  <2> QED
    BY <2>2 DEF LoggedIsReferred
<1>2. CASE ~Delete
  <2>1. CASE Register
    BY <2>1 DEF Register, RegisterUnit, Insert
  <2>2. CASE Issue
    BY <2>2 DEF Issue, IssueUnit
  <2>3. CASE Renew
    BY <2>3 DEF Renew, RenewUnit
  <2>4. CASE Approve
    BY <2>4 DEF Approve, ApproveClaim
  <2>5. CASE Open \/ Reject \/ Sweep \/ Tick \/ UNCHANGED vars
    BY <2>5 DEF Open, OpenClaim, Reject, RejectClaim, Sweep, SweepExpired, MarkExpired, Tick,
                tables, vars
  <2>6. CASE Remind
    BY <2>6, RemindEffect
  <2> QED
    BY <1>2, <2>1, <2>2, <2>3, <2>4, <2>5, <2>6 DEF Next
<1> QED
  BY <1>1, <1>2

\* Event.unit is SET_NULL, yet no event ever loses its unit: a unit with a log
\* has an issue or a renewal, and that PROTECTs it.  A reminder writes no row
\* that does, but only a unit that was sold is due for one.
THEOREM LogsKeepTheirUnit == Spec => NoEventOrphaned
<1>1. Init => LoggedIsReferred
  BY DEF Init, LoggedIsReferred
<1>2. IInv /\ LoggedIsReferred /\ [Next]_vars => LoggedIsReferred'
  BY NextLogged
<1>3. IInv /\ LoggedIsReferred /\ [Next]_vars =>
         [\A u \in DOMAIN units : u \notin DOMAIN units' => events[u] = <<>>]_vars
  BY LostUnlogged
<1> QED
  BY <1>1, <1>2, <1>3, Invariance, PTL DEF Spec, NoEventOrphaned

-----------------------------------------------------------------------------
\* What the audit log says of replacements.

Has(log, e) == \E k \in DOMAIN log : log[k] = e

\* A concatenation holds what its parts hold.
LEMMA HasInConcat ==
    ASSUME NEW S, NEW s \in Seq(S), NEW t \in Seq(S), NEW e
    PROVE  Has(s \o t, e) <=> Has(s, e) \/ Has(t, e)
<1>1. /\ s \o t \in Seq(S) /\ DOMAIN s = 1..Len(s) /\ DOMAIN t = 1..Len(t)
      /\ DOMAIN (s \o t) = 1..(Len(s) + Len(t)) /\ Len(s) \in Nat /\ Len(t) \in Nat
      /\ \A k \in 1..(Len(s) + Len(t)) : (s \o t)[k] = IF k <= Len(s) THEN s[k] ELSE t[k - Len(s)]
  OBVIOUS
<1>2. ASSUME Has(s \o t, e) PROVE Has(s, e) \/ Has(t, e)
  <2>1. PICK k \in 1..(Len(s) + Len(t)) : (s \o t)[k] = e
    BY <1>1, <1>2 DEF Has
  <2>2. CASE k <= Len(s)
    BY <1>1, <2>1, <2>2 DEF Has
  <2>3. CASE ~(k <= Len(s))
    <3>1. k - Len(s) \in 1..Len(t) /\ t[k - Len(s)] = e
      BY <1>1, <2>1, <2>3
    <3> QED
      BY <1>1, <3>1 DEF Has
  <2> QED
    BY <2>2, <2>3
<1>3. ASSUME Has(s, e) PROVE Has(s \o t, e)
  <2>1. PICK k \in 1..Len(s) : s[k] = e
    BY <1>1, <1>3 DEF Has
  <2>2. k \in 1..(Len(s) + Len(t)) /\ (s \o t)[k] = e
    BY <1>1, <2>1
  <2> QED
    BY <1>1, <2>2 DEF Has
<1>4. ASSUME Has(t, e) PROVE Has(s \o t, e)
  <2>1. PICK k \in 1..Len(t) : t[k] = e
    BY <1>1, <1>4 DEF Has
  <2>2. Len(s) + k \in 1..(Len(s) + Len(t)) /\ (s \o t)[Len(s) + k] = e
    BY <1>1, <2>1
  <2> QED
    BY <1>1, <2>2 DEF Has
<1> QED
  BY <1>2, <1>3, <1>4

Approved == "claim.approved"

\* Only an approval is logged as one.
LEMMA QuietEntries ==
    /\ \A row : \A s \in UnitState : ~Has(StateChanged(row, s), Approved)
    /\ \A e : e # Approved => ~Has(<<e>>, Approved)
BY DEF StateChanged, Has, UnitState, Approved

\* Entries are of their type.
LEMMA EntryTypes ==
    /\ \A e \in EventAction : <<e>> \in Seq(EventAction)
    /\ {"issue.created", "unit.renewed", "claim.opened", "claim.approved", "claim.rejected"}
          \subseteq EventAction
BY DEF EventAction

\* A change of state logs no approval, nor does any other event.
LEMMA QuietChange ==
    ASSUME NEW log \in Seq(EventAction), NEW row, NEW s \in UnitState
    PROVE  /\ log \o StateChanged(row, s) \in Seq(EventAction)
           /\ Has(log \o StateChanged(row, s), Approved) <=> Has(log, Approved)
<1>1. StateChanged(row, s) \in Seq(EventAction)
  BY StateChangedType
<1>2. log \o StateChanged(row, s) \in Seq(EventAction)
  BY <1>1, ConcatType
<1>3. Has(log \o StateChanged(row, s), Approved)
         <=> Has(log, Approved) \/ Has(StateChanged(row, s), Approved)
  BY <1>1, HasInConcat
<1>4. ~Has(StateChanged(row, s), Approved)
  BY QuietEntries
<1> QED
  BY <1>2, <1>3, <1>4

\* An entry of another kind is no approval.
LEMMA QuietConcat ==
    ASSUME NEW log \in Seq(EventAction), NEW e \in EventAction, e # Approved
    PROVE  Has(log \o <<e>>, Approved) <=> Has(log, Approved)
<1>1. <<e>> \in Seq(EventAction) /\ ~Has(<<e>>, Approved)
  BY EntryTypes, QuietEntries
<1>2. Has(log \o <<e>>, Approved) <=> Has(log, Approved) \/ Has(<<e>>, Approved)
  BY <1>1, HasInConcat
<1> QED
  BY <1>1, <1>2

\* Likewise for Append.
LEMMA QuietAppend ==
    ASSUME NEW log \in Seq(EventAction), NEW e \in EventAction, e # Approved
    PROVE  Has(Append(log, e), Approved) <=> Has(log, Approved)
<1>1. Append(log, e) = log \o <<e>>
  OBVIOUS
<1> QED
  BY <1>1, QuietConcat

\* No step but an approval logs one.
Quiet == \A u \in DOMAIN units \cap DOMAIN units' : Replaced(u)' <=> Replaced(u)

\* Sales, renewals, claims opened or rejected, sweeps and reminders are not
\* approvals.
LEMMA QuietSteps ==
    ASSUME TypeOK, RowsIntact,
           Register \/ Delete \/ Issue \/ Renew \/ Open \/ Reject \/ Sweep \/ Remind
    PROVE  Quiet
<1>1. \A u \in DOMAIN units : events[u] \in Seq(EventAction)
  BY DEF TypeOK
<1>2. CASE Register \/ Delete
  BY <1>2 DEF Register, RegisterUnit, Insert, Delete, DeleteUnit, Quiet, Replaced, TypeOK
<1>3. CASE Issue
  <2>1. PICK x \in DOMAIN units, c \in Clients, i \in IssueIds, w \in WarrantyDays,
             t \in ClockReadings : IssueUnit(x, units[x], c, i, w, t)
    BY <1>3 DEF Issue
  <2>2. \A u \in DOMAIN units :
           events'[u] = IF u = x
                           THEN events[u] \o StateChanged(units[x], "issued") \o <<"issue.created">>
                           ELSE events[u]
    BY <2>1 DEF IssueUnit, TypeOK
  <2>3. Has(events[x] \o StateChanged(units[x], "issued") \o <<"issue.created">>, Approved)
           <=> Has(events[x], Approved)
    BY <1>1, QuietChange, QuietConcat, EntryTypes DEF Approved, UnitState
  <2> QED
    BY <2>2, <2>3 DEF Quiet, Replaced, Has, Approved
<1>4. CASE Renew
  <2>1. PICK x \in DOMAIN units, d \in Periods, t \in ClockReadings : RenewUnit(x, units[x], d, t)
    BY <1>4 DEF Renew
  <2>2. \A u \in DOMAIN units :
           events'[u] = IF u = x
                           THEN events[u] \o StateChanged(units[x], RenewedState(units[x]))
                                          \o <<"unit.renewed">>
                           ELSE events[u]
    BY <2>1 DEF RenewUnit, TypeOK
  <2>3. RenewedState(units[x]) \in UnitState
    BY DEF RenewedState, TypeOK, UnitRow, UnitState
  <2>4. Has(events[x] \o StateChanged(units[x], RenewedState(units[x])) \o <<"unit.renewed">>,
            Approved)
           <=> Has(events[x], Approved)
    BY <1>1, <2>3, QuietChange, QuietConcat, EntryTypes DEF Approved
  <2> QED
    BY <2>2, <2>4 DEF Quiet, Replaced, Has, Approved
<1>5. CASE Open \/ Reject \/ Sweep \/ Remind
  <2> DEFINE After(u) == {events[u], Append(events[u], "claim.opened"),
                          Append(events[u], "claim.rejected"), Append(events[u], "expired"),
                          Append(events[u], "reminder.queued")}
  <2>1. \A u \in DOMAIN units : events'[u] \in After(u)
    <3>1. CASE Remind
      BY <3>1, RemindEffect DEF TypeOK
    <3>2. CASE Open \/ Reject \/ Sweep
      BY <3>2 DEF Open, OpenClaim, Reject, RejectClaim, Sweep, SweepExpired, TypeOK
    <3> QED
      BY <1>5, <3>1, <3>2
  <2>2. ASSUME NEW u \in DOMAIN units,
               NEW e \in {"claim.opened", "claim.rejected", "expired", "reminder.queued"}
        PROVE  Has(Append(events[u], e), Approved) <=> Has(events[u], Approved)
    BY <1>1, QuietAppend DEF Approved, EventAction, UnitState
  <2> QED
    BY <2>1, <2>2 DEF Quiet, Replaced, Has, Approved
<1> QED
  BY <1>2, <1>3, <1>4, <1>5

\* An approval is logged for the replacement alone.
LEMMA ApproveLogged ==
    ASSUME TypeOK, RowsIntact, NEW c \in DOMAIN claims, NEW r \in DOMAIN units,
           NEW j \in IssueIds, NEW t \in ClockReadings, ApproveStep(c, r, j, t)
    PROVE  \A u \in DOMAIN units : Replaced(u)' <=> Replaced(u) \/ u = r
<1> DEFINE old == issues[claims[c].issue].unit
<1>1. \A u \in DOMAIN units : events[u] \in Seq(EventAction)
  BY DEF TypeOK
<1>2. old \in DOMAIN units /\ old # r
  BY DEF RowsIntact, ApproveStep, ApproveClaim
<1>3. events' = [events EXCEPT
                     ![old] = @ \o StateChanged(units[old], "revoked"),
                     ![r] = @ \o StateChanged(units[r], "issued")
                              \o <<"issue.created", "claim.approved">>]
  BY DEF ApproveStep, ApproveClaim
<1>4. /\ events'[old] = events[old] \o StateChanged(units[old], "revoked")
      /\ events'[r] = events[r] \o StateChanged(units[r], "issued")
                                \o <<"issue.created", "claim.approved">>
      /\ \A u \in DOMAIN units \ {old, r} : events'[u] = events[u]
  BY <1>2, <1>3 DEF TypeOK
<1> HIDE DEF old
<1>5. Has(events'[old], Approved) <=> Has(events[old], Approved)
  BY <1>1, <1>2, <1>4, QuietChange DEF UnitState
<1>6. Has(events'[r], Approved)
  <2> DEFINE log == events[r] \o StateChanged(units[r], "issued")
             new == <<"issue.created", "claim.approved">>
  <2>1. log \in Seq(EventAction) /\ new \in Seq(EventAction)
    <3>1. StateChanged(units[r], "issued") \in Seq(EventAction)
      BY StateChangedType DEF UnitState
    <3>2. new \in Seq(EventAction)
      BY DEF EventAction
    <3> QED
      BY <1>1, <3>1, <3>2, ConcatType
  <2>2. Has(new, Approved)
    <3>1. 2 \in DOMAIN new /\ new[2] = Approved
      BY DEF Approved
    <3> QED
      BY <3>1 DEF Has
  <2>3. events'[r] = log \o new
    BY <1>4
  <2> HIDE DEF log, new
  <2> QED
    BY <2>1, <2>2, <2>3, HasInConcat
<1> QED
  BY <1>2, <1>4, <1>5, <1>6 DEF Replaced, Has, Approved


-----------------------------------------------------------------------------
\* Every operation keeps what Entitlement promises a client.

\* A replacement was issued: no unit in stock has an approval in its log.
ReplacedIsIssued ==
    \A u \in DOMAIN units : Replaced(u) => \E i \in DOMAIN issues : issues[i].unit = u

\* The issue of a replacement is created in the transaction that logs it.
LEMMA NextReplacedIsIssued ==
    ASSUME TypeOK, RowsIntact, ReplacedIsIssued, [Next]_vars
    PROVE  ReplacedIsIssued'
<1>1. ASSUME NEW u \in DOMAIN units, NEW i \in DOMAIN issues, issues[i].unit = u
      PROVE  i \in DOMAIN issues' /\ issues'[i].unit = u
  <2>1. issues[i] \in IssueRow
    BY DEF TypeOK
  <2>2. i \in DOMAIN issues' /\ issues'[i] \in {issues[i], [issues[i] EXCEPT !.is_active = FALSE]}
    BY IssuesStay
  <2> QED
    BY <1>1, <2>1, <2>2 DEF IssueRow
<1>2. ASSUME Quiet PROVE ReplacedIsIssued'
  <2> SUFFICES ASSUME NEW u \in DOMAIN units', Replaced(u)'
               PROVE  \E i \in DOMAIN issues' : issues'[i].unit = u
    BY DEF ReplacedIsIssued
  <2>1. u \in DOMAIN units
    <3>1. ~Has(<<>>, Approved)
      BY DEF Has
    <3> QED
      BY <3>1, NewUnitsUnlogged DEF Replaced, Has, Approved
  <2> QED
    BY <1>1, <1>2, <2>1 DEF Quiet, ReplacedIsIssued
<1>3. CASE Register \/ Delete \/ Issue \/ Renew \/ Open \/ Reject \/ Sweep \/ Remind
  BY <1>2, <1>3, QuietSteps
<1>4. CASE Tick \/ UNCHANGED vars
  BY <1>4 DEF Tick, tables, vars, ReplacedIsIssued, Replaced
<1>5. CASE Approve
  <2>1. PICK c \in DOMAIN claims, r \in DOMAIN units, j \in IssueIds, t \in ClockReadings :
             ApproveStep(c, r, j, t)
    BY <1>5 DEF Approve, ApproveStep
  <2>2. ApproveColumns(c, r, j) /\ ApproveChanges(c, r, j, t)
    BY <2>1, ApproveRows, ApproveEffect
  <2>3. j \in DOMAIN issues' /\ issues'[j].unit = r /\ DOMAIN units' = DOMAIN units
    BY <2>2 DEF ApproveColumns, ApproveChanges
  <2>4. \A u \in DOMAIN units : Replaced(u)' => Replaced(u) \/ u = r
    BY <2>1, ApproveLogged
  <2> QED
    BY <1>1, <2>3, <2>4 DEF ReplacedIsIssued
<1> QED
  BY <1>3, <1>4, <1>5 DEF Next

\* HeldBy without its set of issues.
LEMMA HeldMembers ==
    \A c, u : u \in HeldBy(c) <=> \E i \in DOMAIN issues : /\ issues[i].client = c
                                                           /\ issues[i].is_active
                                                           /\ issues[i].unit = u
BY DEF HeldBy

Burned == {issues[i].unit : i \in {j \in DOMAIN issues : ~issues[j].is_active}}

\* Without a new issue nothing is sold, held or burned.
LEMMA PromiseStutters ==
    ASSUME RowsIntact, issues' = issues,
           \A i \in DOMAIN issues : issues[i].unit \in DOMAIN units',
           Quiet
    PROVE  UNCHANGED Promise!vars
<1>1. \A c : HeldBy(c)' = HeldBy(c)
  BY DEF HeldBy
<1>2. \A c : SoldTo(c)' = SoldTo(c)
  <2>1. \A i \in DOMAIN issues : Replaced(issues[i].unit)' <=> Replaced(issues[i].unit)
    BY DEF Quiet, RowsIntact
  <2> QED
    BY <2>1 DEF SoldTo
<1> QED
  BY <1>1, <1>2 DEF Promise!vars

\* A unit in stock is nobody's.
LEMMA StockIsFree ==
    ASSUME StateMatchesIssues, NEW u \in DOMAIN units, units[u].state \in {"available", "reserved"}
    PROVE  Promise!Free(u) /\ \A i \in DOMAIN issues : issues[i].unit # u
<1>1. \A i \in DOMAIN issues : issues[i].unit # u
  BY DEF StateMatchesIssues, IssuesOf
<1>2. \A c : u \notin HeldBy(c)
  BY <1>1, HeldMembers
<1> QED
  BY <1>1, <1>2 DEF Promise!Free

\* issue_unit sells a free unit.
LEMMA IssuePromise ==
    ASSUME TypeOK, RowsIntact, StateMatchesIssues, ReplacedIsIssued, Issue
    PROVE  Promise!Next
<1>1. PICK u \in DOMAIN units, c \in Clients, i \in IssueIds, w \in WarrantyDays,
           t \in ClockReadings : IssueUnit(u, units[u], c, i, w, t)
  BY DEF Issue
<1>2. /\ i \notin DOMAIN issues /\ u \in Units
      /\ units[u].state \in {"available", "reserved"}
      /\ DOMAIN units' = DOMAIN units
      /\ DOMAIN issues' = DOMAIN issues \cup {i}
      /\ issues'[i].unit = u /\ issues'[i].is_active
      /\ \A x \in DOMAIN issues : issues'[x] = issues[x]
  BY <1>1, IssueEffect DEF TypeOK
<1>3. issues'[i].client = c
  BY <1>1 DEF IssueUnit, Insert, NewIssue
<1>4. Promise!Free(u) /\ \A x \in DOMAIN issues : issues[x].unit # u
  BY <1>2, StockIsFree
<1>5. \A x \in DOMAIN issues : Replaced(issues[x].unit)' <=> Replaced(issues[x].unit)
  BY <1>2, QuietSteps DEF Quiet, RowsIntact
<1>6. ~Replaced(u)'
  BY <1>2, <1>4, QuietSteps DEF Quiet, ReplacedIsIssued
<1>7. \A d \in Clients : HeldBy(d)' = IF d = c THEN HeldBy(d) \cup {u} ELSE HeldBy(d)
  BY <1>2, <1>3 DEF HeldBy
<1>8. \A d \in Clients : SoldTo(d)' = IF d = c THEN SoldTo(d) \cup {i} ELSE SoldTo(d)
  <2>1. ASSUME NEW d \in Clients, NEW x
        PROVE  x \in SoldTo(d)' <=> x \in SoldTo(d) \/ (d = c /\ x = i)
    <3>1. CASE x = i
      BY <1>2, <1>3, <1>6, <3>1 DEF SoldTo
    <3>2. CASE x \in DOMAIN issues
      BY <1>2, <1>5, <3>2 DEF SoldTo
    <3>3. CASE x \notin DOMAIN issues'
      BY <1>2, <3>3 DEF SoldTo
    <3> QED
      BY <1>2, <3>1, <3>2, <3>3
  <2> QED
    BY <2>1
<1>9. Burned' = Burned
  BY <1>2 DEF Burned
<1>10. Promise!NewSale(i)
  BY <1>2 DEF Promise!NewSale, SoldTo
<1>11. /\ [d \in Clients |-> HeldBy(d)]' = [[d \in Clients |-> HeldBy(d)] EXCEPT ![c] = @ \cup {u}]
       /\ [d \in Clients |-> SoldTo(d)]' = [[d \in Clients |-> SoldTo(d)] EXCEPT ![c] = @ \cup {i}]
  BY <1>7, <1>8
<1>12. Promise!Sell(c, u, i)
  BY <1>4, <1>9, <1>10, <1>11 DEF Promise!Sell, Burned
<1> QED
  BY <1>2, <1>12 DEF Promise!Next

\* approve_claim burns the old unit and hands out a free one, unpaid.
LEMMA ApprovePromise ==
    ASSUME TypeOK, RowsIntact, StateMatchesIssues, ClaimsMatchIssues, Approve
    PROVE  Promise!Next
<1>1. PICK k \in DOMAIN claims, r \in DOMAIN units, j \in IssueIds, t \in ClockReadings :
           ApproveStep(k, r, j, t)
  BY DEF Approve, ApproveStep
<1> DEFINE i == claims[k].issue
           old == issues[i].unit
           c == issues[i].client
<1>2. ApproveColumns(k, r, j) /\ ApproveChanges(k, r, j, t)
  BY <1>1, ApproveRows, ApproveEffect
<1>3. /\ i \in DOMAIN issues /\ j \notin DOMAIN issues /\ claims[k].state = "open"
      /\ DOMAIN issues' = DOMAIN issues \cup {j} /\ DOMAIN units' = DOMAIN units
      /\ issues'[j].unit = r /\ issues'[j].is_active /\ issues'[j].client = c
      /\ \A x \in DOMAIN issues :
            /\ issues'[x].is_active <=> issues[x].is_active /\ x # i
            /\ issues'[x].unit = issues[x].unit
            /\ issues'[x].client = issues[x].client
      /\ units[r].state \in {"available", "reserved"} /\ r # old
  BY <1>2 DEF ApproveColumns, ApproveChanges
<1>4. issues[i].is_active
  BY <1>3 DEF ClaimsMatchIssues
<1>5. /\ \A x, y \in DOMAIN issues : issues[x].unit = issues[y].unit => x = y
      /\ Promise!Free(r) /\ \A x \in DOMAIN issues : issues[x].unit # r
  BY <1>3, StockIsFree DEF StateMatchesIssues
<1>6. c \in Clients /\ old \in Units /\ r \in Units
  BY <1>3 DEF TypeOK, RowsIntact, IssueRow
<1> HIDE DEF i, old, c
<1>7. \A d \in Clients : HeldBy(d)' = IF d = c THEN (HeldBy(d) \ {old}) \cup {r} ELSE HeldBy(d)
  <2>1. ASSUME NEW d \in Clients, NEW u
        PROVE  u \in HeldBy(d)' <=> \/ d = c /\ u = r
                                    \/ u \in HeldBy(d) /\ ~(d = c /\ u = old)
    <3>1. u \in HeldBy(d)' <=> \/ d = c /\ u = r
                               \/ \E x \in DOMAIN issues \ {i} : /\ issues[x].client = d
                                                                 /\ issues[x].is_active
                                                                 /\ issues[x].unit = u
      BY <1>3 DEF HeldBy
    <3>2. (\E x \in DOMAIN issues \ {i} : /\ issues[x].client = d
                                          /\ issues[x].is_active
                                          /\ issues[x].unit = u)
             <=> u \in HeldBy(d) /\ ~(d = c /\ u = old)
      BY <1>3, <1>5, HeldMembers DEF old, c
    <3> QED
      BY <3>1, <3>2
  <2> QED
    BY <1>3, <2>1
<1>8. \A d \in Clients : SoldTo(d)' = SoldTo(d)
  <2>1. \A u \in DOMAIN units : Replaced(u)' <=> Replaced(u) \/ u = r
    BY <1>1, ApproveLogged
  <2>2. ASSUME NEW d \in Clients, NEW x
        PROVE  x \in SoldTo(d)' <=> x \in SoldTo(d)
    <3>1. CASE x = j
      BY <1>3, <2>1, <3>1 DEF SoldTo
    <3>2. CASE x \in DOMAIN issues
      <4>1. Replaced(issues[x].unit)' <=> Replaced(issues[x].unit)
        BY <1>3, <1>5, <2>1, <3>2 DEF RowsIntact
      <4> QED
        BY <1>3, <3>2, <4>1 DEF SoldTo
    <3>3. CASE x \notin DOMAIN issues'
      BY <1>3, <3>3 DEF SoldTo
    <3> QED
      BY <1>3, <3>1, <3>2, <3>3
  <2> QED
    BY <2>2
<1>9. Burned' = Burned \cup {old}
  <2>1. ASSUME NEW u PROVE u \in Burned' <=> u \in Burned \/ u = old
    BY <1>3 DEF Burned, old
  <2> QED
    BY <2>1
<1>10. old \in HeldBy(c)
  BY <1>3, <1>4, HeldMembers DEF old, c
<1>11. /\ [d \in Clients |-> HeldBy(d)]' =
             [[d \in Clients |-> HeldBy(d)] EXCEPT ![c] = (@ \ {old}) \cup {r}]
       /\ [d \in Clients |-> SoldTo(d)]' = [d \in Clients |-> SoldTo(d)]
  BY <1>7, <1>8
<1>12. Promise!Replace(c, old, r)
  BY <1>5, <1>6, <1>9, <1>10, <1>11 DEF Promise!Replace, Burned
<1> QED
  BY <1>6, <1>12 DEF Promise!Next

\* Every step sells, replaces or leaves what clients hold alone.
LEMMA NextPromise ==
    ASSUME IInv, ReplacedIsIssued, [Next]_vars
    PROVE  [Promise!Next]_(Promise!vars)
<1>1. TypeOK /\ RowsIntact /\ StateMatchesIssues /\ ClaimsMatchIssues
  BY DEF IInv, Consistent
<1>2. CASE Issue
  BY <1>1, <1>2, IssuePromise
<1>3. CASE Approve
  BY <1>1, <1>3, ApprovePromise
<1>4. CASE Register \/ Delete \/ Renew \/ Open \/ Reject \/ Sweep \/ Remind
  <2>1. issues' = issues
    BY <1>4, RemindEffect DEF Register, RegisterUnit, Delete, DeleteUnit, Renew, RenewUnit, Open, OpenClaim,
                Reject, RejectClaim, Sweep, SweepExpired
  <2>2. Quiet
    BY <1>1, <1>4, QuietSteps
  <2>3. \A x \in DOMAIN issues : issues[x].unit \in DOMAIN units'
    BY <1>1, <2>1, NextRowsIntact DEF RowsIntact
  <2> QED
    BY <1>1, <2>1, <2>2, <2>3, PromiseStutters
<1>5. CASE Tick \/ UNCHANGED vars
  <2>1. UNCHANGED <<units, issues, events>>
    BY <1>5 DEF Tick, tables, vars
  <2> QED
    BY <1>1, <2>1, PromiseStutters DEF Quiet, Replaced, RowsIntact
<1> QED
  BY <1>2, <1>3, <1>4, <1>5 DEF Next

\* Whatever the services do, a client holds one unit for every unit it paid
\* for: sales and replacements are all that moves what clients hold.
THEOREM PromiseHolds == Spec => PromiseKept
<1>1. Init => Promise!Init /\ ReplacedIsIssued
  BY DEF Init, Promise!Init, ReplacedIsIssued, HeldBy, SoldTo
<1>2. IInv /\ ReplacedIsIssued /\ [Next]_vars => ReplacedIsIssued' /\ [Promise!Next]_(Promise!vars)
  BY NextPromise, NextReplacedIsIssued DEF IInv
<1> QED
  BY <1>1, <1>2, Invariance, PTL DEF Spec, PromiseKept, Promise!Spec

-----------------------------------------------------------------------------
\* What one more entry does to a log.

\* The events that name no state.
Entries == EventAction \ UnitState

LEMMA AppendIs ==
    ASSUME NEW log \in Seq(EventAction), NEW x \in EventAction
    PROVE  /\ log \o <<x>> = Append(log, x) /\ Append(log, x) \in Seq(EventAction)
           /\ Len(log) \in Nat /\ DOMAIN log = 1..Len(log)
           /\ DOMAIN Append(log, x) = 1..(Len(log) + 1)
           /\ \A k \in 1..Len(log) : Append(log, x)[k] = log[k]
           /\ Append(log, x)[Len(log) + 1] = x
OBVIOUS

LEMMA MarksBounds ==
    ASSUME NEW log \in Seq(EventAction)
    PROVE  Len(log) \in Nat /\ StateMarks(log) \subseteq 0..Len(log)
BY DEF StateMarks

LEMMA AppendMarks ==
    ASSUME NEW log \in Seq(EventAction), NEW x \in EventAction
    PROVE  /\ x \in UnitState => StateMarks(Append(log, x)) = StateMarks(log) \cup {Len(log) + 1}
           /\ x \notin UnitState => StateMarks(Append(log, x)) = StateMarks(log)
           /\ \A k \in StateMarks(log) : StateAt(Append(log, x), k) = StateAt(log, k)
           /\ StateAt(Append(log, x), Len(log) + 1) = x
<1>1. /\ Len(log) \in Nat /\ DOMAIN log = 1..Len(log)
      /\ DOMAIN Append(log, x) = 1..(Len(log) + 1)
      /\ \A k \in 1..Len(log) : Append(log, x)[k] = log[k]
      /\ Append(log, x)[Len(log) + 1] = x
  BY AppendIs
<1>2. \A k \in DOMAIN Append(log, x) : k \in DOMAIN log \/ k = Len(log) + 1
  BY <1>1
<1>3. DOMAIN log \subseteq DOMAIN Append(log, x) /\ Len(log) + 1 \in DOMAIN Append(log, x)
  BY <1>1
<1>4. \A k : k \in StateMarks(Append(log, x)) <=>
                k \in StateMarks(log) \/ (k = Len(log) + 1 /\ x \in UnitState)
  BY <1>1, <1>2, <1>3 DEF StateMarks
<1>5. \A k \in StateMarks(log) : StateAt(Append(log, x), k) = StateAt(log, k)
  BY <1>1 DEF StateMarks, StateAt
<1>6. StateAt(Append(log, x), Len(log) + 1) = x
  BY <1>1 DEF StateAt
<1> QED
  BY <1>4, <1>5, <1>6

\* An allowed change of state, logged, leads on to the new state.
LEMMA StateLeads ==
    ASSUME NEW log \in Seq(EventAction), NEW s, NEW x \in UnitState, LeadsTo(log, s), CanMove(s, x)
    PROVE  LeadsTo(Append(log, x), x)
<1> DEFINE n == Len(log) + 1
           new == Append(log, x)
<1>1. /\ StateMarks(new) = StateMarks(log) \cup {n}
      /\ \A k \in StateMarks(log) : StateAt(new, k) = StateAt(log, k)
      /\ StateAt(new, n) = x
  BY AppendMarks DEF EventAction
<1>2. n \in Nat /\ \A k \in StateMarks(log) : k \in Nat /\ k < n
  BY MarksBounds
<1> HIDE DEF n, new
<1> SUFFICES ASSUME NEW k \in StateMarks(new)
             PROVE  /\ (\A m \in StateMarks(new) : m <= k) => StateAt(new, k) = x
                    /\ \A j \in StateMarks(new) :
                          j < k /\ (\A m \in StateMarks(new) : m <= j \/ k <= m)
                             => CanMove(StateAt(new, j), StateAt(new, k))
  BY DEF LeadsTo, new
<1>3. ASSUME \A m \in StateMarks(new) : m <= k PROVE StateAt(new, k) = x
  <2>1. k = n
    BY <1>1, <1>2, <1>3
  <2> QED
    BY <1>1, <2>1
<1>4. ASSUME NEW j \in StateMarks(new), j < k,
             \A m \in StateMarks(new) : m <= j \/ k <= m
      PROVE  CanMove(StateAt(new, j), StateAt(new, k))
  <2>1. j \in StateMarks(log)
    BY <1>1, <1>2, <1>4
  <2>2. CASE k \in StateMarks(log)
    <3>1. CanMove(StateAt(log, j), StateAt(log, k))
      BY <1>1, <1>4, <2>1, <2>2 DEF LeadsTo
    <3> QED
      BY <1>1, <2>1, <2>2, <3>1
  <2>3. CASE k = n
    <3>1. \A m \in StateMarks(log) : m <= j
      BY <1>1, <1>2, <1>4, <2>3
    <3>2. StateAt(log, j) = s
      BY <2>1, <3>1 DEF LeadsTo
    <3> QED
      BY <1>1, <2>1, <2>3, <3>2
  <2> QED
    BY <1>1, <2>2, <2>3
<1> QED
  BY <1>3, <1>4

\* Other events leave the states a log names as they were.
LEMMA EntryLeads ==
    ASSUME NEW log \in Seq(EventAction), NEW s, NEW x \in Entries, LeadsTo(log, s)
    PROVE  LeadsTo(Append(log, x), s)
<1>1. /\ StateMarks(Append(log, x)) = StateMarks(log)
      /\ \A k \in StateMarks(log) : StateAt(Append(log, x), k) = StateAt(log, k)
  BY AppendMarks DEF Entries
<1>2. \A k \in StateMarks(log) :
         /\ (\A m \in StateMarks(log) : m <= k) => StateAt(log, k) = s
         /\ \A j \in StateMarks(log) :
               j < k /\ (\A m \in StateMarks(log) : m <= j \/ k <= m)
                  => CanMove(StateAt(log, j), StateAt(log, k))
  BY DEF LeadsTo
<1> QED
  BY <1>1, <1>2 DEF LeadsTo

LEMMA EmptyLog ==
    /\ LeadsTo(<<>>, "available")
    /\ \A e : Occurrences(<<>>, e) = 0
<1>1. StateMarks(<<>>) = {0}
  BY DEF StateMarks
<1>2. LeadsTo(<<>>, "available")
  BY <1>1 DEF LeadsTo, StateAt
<1>3. \A e : {k \in DOMAIN <<>> : <<>>[k] = e} = {}
  OBVIOUS
<1> QED
  BY <1>2, <1>3, FS_EmptySet DEF Occurrences

LEMMA CountsAreFinite == \A n \in Nat : IsFiniteSet(1..n)
<1> TAKE n \in Nat
<1>1. 1 \in Int /\ n \in Int
  OBVIOUS
<1> QED
  BY <1>1, FS_Interval

\* An entry is counted once.
LEMMA AppendCount ==
    ASSUME NEW log \in Seq(EventAction), NEW x \in EventAction, NEW e
    PROVE  /\ Occurrences(log, e) \in Nat
           /\ Occurrences(Append(log, x), e) =
                 IF e = x THEN Occurrences(log, e) + 1 ELSE Occurrences(log, e)
<1> DEFINE At   == {k \in DOMAIN log : log[k] = e}
           Then == {k \in DOMAIN Append(log, x) : Append(log, x)[k] = e}
           n    == Len(log) + 1
<1>1. /\ Len(log) \in Nat /\ DOMAIN log = 1..Len(log)
      /\ DOMAIN Append(log, x) = 1..n
      /\ \A k \in 1..Len(log) : Append(log, x)[k] = log[k]
      /\ Append(log, x)[n] = x
  BY AppendIs
<1>2. IsFiniteSet(At) /\ n \notin At
  <2>1. IsFiniteSet(1..Len(log))
    BY <1>1, CountsAreFinite
  <2>2. At \subseteq 1..Len(log)
    BY <1>1
  <2> QED
    BY <1>1, <2>1, <2>2, FS_Subset
<1>3. Then = IF e = x THEN At \cup {n} ELSE At
  <2>1. \A k : k \in 1..n <=> k \in 1..Len(log) \/ k = n
    BY <1>1
  <2>2. n \notin 1..Len(log)
    BY <1>1
  <2>3. \A k : k \in Then <=> k \in At \/ (k = n /\ e = x)
    BY <1>1, <2>1, <2>2
  <2> HIDE DEF At, Then, n
  <2>4. CASE e = x
    BY <2>3, <2>4
  <2>5. CASE e # x
    BY <2>3, <2>5
  <2> QED
    BY <2>4, <2>5
<1>4. Cardinality(At) \in Nat /\ Cardinality(At \cup {n}) = Cardinality(At) + 1
  BY <1>2, FS_CardinalityType, FS_AddElement
<1> QED
  BY <1>3, <1>4 DEF Occurrences

-----------------------------------------------------------------------------
\* What the rows of a unit make of its log.

Explains(log, state, sold, renewed, opened, rejected, replaced) ==
    /\ LeadsTo(log, state)
    /\ Occurrences(log, "issue.created") = Cardinality(sold)
    /\ Occurrences(log, "unit.renewed") = Cardinality(renewed)
    /\ Occurrences(log, "claim.opened") = Cardinality(opened)
    /\ Occurrences(log, "claim.rejected") = Cardinality(rejected)
    /\ Occurrences(log, "claim.approved") = Cardinality(replaced)

Explained(u) ==
    Explains(events[u], units[u].state, IssuesOf(u), RenewalsOf(u),
             ClaimsOn(u, ClaimState), ClaimsOn(u, {"rejected"}), ReplacedBy(u))

LEMMA AuditIsExplained == AuditExplainsState <=> \A u \in DOMAIN units : Explained(u)
BY DEF AuditExplainsState, Explained, Explains

LEMMA EntriesAre ==
    Entries = {"issue.created", "unit.renewed", "reminder.queued",
               "claim.opened", "claim.approved", "claim.rejected"}
BY DEF Entries, EventAction, UnitState

\* move_state, or a bulk update that moves as it allows, logs what it does.
LEMMA StateExplained ==
    ASSUME NEW log \in Seq(EventAction), NEW row, NEW s \in UnitState, MayMove(row, s),
           NEW A, NEW B, NEW C, NEW D, NEW E, Explains(log, row.state, A, B, C, D, E)
    PROVE  /\ log \o StateChanged(row, s) \in Seq(EventAction)
           /\ Explains(log \o StateChanged(row, s), s, A, B, C, D, E)
<1>1. CASE row.state = s
  <2>1. log \o StateChanged(row, s) = log
    BY <1>1 DEF StateChanged
  <2> QED
    BY <1>1, <2>1
<1>2. CASE row.state # s
  <2>1. log \o StateChanged(row, s) = Append(log, s) /\ Append(log, s) \in Seq(EventAction)
    BY <1>2, AppendIs DEF StateChanged, EventAction
  <2>2. LeadsTo(Append(log, s), s)
    BY <1>2, StateLeads DEF MayMove, Explains
  <2>3. \A e \in Entries : Occurrences(Append(log, s), e) = Occurrences(log, e)
    BY AppendCount DEF Entries, EventAction
  <2> QED
    BY <2>1, <2>2, <2>3, EntriesAre DEF Explains
<1> QED
  BY <1>1, <1>2

LEMMA OneMore ==
    ASSUME NEW S, IsFiniteSet(S), NEW x, x \notin S
    PROVE  Cardinality(S \cup {x}) = Cardinality(S) + 1
BY FS_AddElement

\* A reminder is an event for no row of this module.
LEMMA ReminderExplained ==
    ASSUME NEW log \in Seq(EventAction), NEW s, NEW A, NEW B, NEW C, NEW D, NEW E,
           Explains(log, s, A, B, C, D, E)
    PROVE  Explains(Append(log, "reminder.queued"), s, A, B, C, D, E)
<1>1. "reminder.queued" \in Entries /\ "reminder.queued" \in EventAction
  BY EntriesAre DEF EventAction
<1>2. LeadsTo(Append(log, "reminder.queued"), s)
  BY <1>1, EntryLeads DEF Explains
<1>3. \A e : e # "reminder.queued" =>
               Occurrences(Append(log, "reminder.queued"), e) = Occurrences(log, e)
  BY <1>1, AppendCount
<1> QED
  BY <1>2, <1>3 DEF Explains

\* An event for a new row keeps the count of such rows.
LEMMA EntryExplained ==
    ASSUME NEW log \in Seq(EventAction), NEW x \in Entries, NEW s,
           NEW A, NEW B, NEW C, NEW D, NEW E, Explains(log, s, A, B, C, D, E),
           IsFiniteSet(A), IsFiniteSet(B), IsFiniteSet(C), IsFiniteSet(D), IsFiniteSet(E)
    PROVE  /\ Append(log, x) \in Seq(EventAction)
           /\ \A k : k \notin A /\ x = "issue.created" =>
                        Explains(Append(log, x), s, A \cup {k}, B, C, D, E)
           /\ \A k : k \notin B /\ x = "unit.renewed" =>
                        Explains(Append(log, x), s, A, B \cup {k}, C, D, E)
           /\ \A k : k \notin C /\ x = "claim.opened" =>
                        Explains(Append(log, x), s, A, B, C \cup {k}, D, E)
           /\ \A k : k \notin D /\ x = "claim.rejected" =>
                        Explains(Append(log, x), s, A, B, C, D \cup {k}, E)
           /\ \A k : k \notin E /\ x = "claim.approved" =>
                        Explains(Append(log, x), s, A, B, C, D, E \cup {k})
<1>1. Append(log, x) \in Seq(EventAction)
  BY AppendIs DEF Entries
<1>2. LeadsTo(Append(log, x), s)
  BY EntryLeads DEF Explains
<1>3. \A e : Occurrences(Append(log, x), e) =
                IF e = x THEN Occurrences(log, e) + 1 ELSE Occurrences(log, e)
  BY AppendCount DEF Entries
<1>4. /\ \A k : k \notin A => Cardinality(A \cup {k}) = Cardinality(A) + 1
      /\ \A k : k \notin B => Cardinality(B \cup {k}) = Cardinality(B) + 1
      /\ \A k : k \notin C => Cardinality(C \cup {k}) = Cardinality(C) + 1
      /\ \A k : k \notin D => Cardinality(D \cup {k}) = Cardinality(D) + 1
      /\ \A k : k \notin E => Cardinality(E \cup {k}) = Cardinality(E) + 1
  BY OneMore
<1> QED
  BY <1>1, <1>2, <1>3, <1>4 DEF Explains

-----------------------------------------------------------------------------
\* Every operation logs what it writes.

TablesFinite == IsFiniteSet(DOMAIN issues) /\ IsFiniteSet(DOMAIN claims) /\ IsFiniteSet(renewals)

LEMMA RowSetsFinite ==
    ASSUME TablesFinite, NEW u
    PROVE  /\ IsFiniteSet(IssuesOf(u)) /\ IsFiniteSet(RenewalsOf(u))
           /\ \A S : IsFiniteSet(ClaimsOn(u, S))
           /\ IsFiniteSet(ReplacedBy(u))
<1>1. /\ IssuesOf(u) \subseteq DOMAIN issues /\ RenewalsOf(u) \subseteq renewals
      /\ \A S : ClaimsOn(u, S) \subseteq DOMAIN claims
      /\ ReplacedBy(u) \subseteq DOMAIN claims
  BY DEF IssuesOf, RenewalsOf, ClaimsOn, ReplacedBy
<1> QED
  BY <1>1, FS_Subset DEF TablesFinite

\* An operation adds at most one row to a table.
LEMMA NextTablesFinite ==
    ASSUME TypeOK, RowsIntact, TablesFinite, [Next]_vars
    PROVE  TablesFinite'
<1>1. ASSUME NEW S, IsFiniteSet(S), NEW x PROVE IsFiniteSet(S \cup {x})
  BY <1>1, FS_AddElement
<1>2. CASE Issue
  BY <1>1, <1>2 DEF Issue, IssueUnit, Insert, TablesFinite
<1>3. CASE Renew
  <2>1. PICK u \in DOMAIN units, d \in Periods, t \in ClockReadings : RenewUnit(u, units[u], d, t)
    BY <1>3 DEF Renew
  <2>2. /\ renewals' = renewals \cup {RenewalRecord(u, units[u], d, NewExpiry(u, d, t))}
        /\ issues' = issues /\ claims' = claims
    BY <2>1, RenewTerms DEF RenewUnit
  <2>3. IsFiniteSet(renewals')
    BY <1>1, <2>2 DEF TablesFinite
  <2> QED
    BY <2>2, <2>3 DEF TablesFinite
<1>4. CASE Open
  BY <1>1, <1>4 DEF Open, OpenClaim, Insert, TablesFinite
<1>5. CASE Approve
  <2>1. PICK c \in DOMAIN claims, r \in DOMAIN units, j \in IssueIds, t \in ClockReadings :
             ApproveStep(c, r, j, t)
    BY <1>5 DEF Approve, ApproveStep
  <2>2. ApproveColumns(c, r, j) /\ ApproveChanges(c, r, j, t)
    BY <2>1, ApproveRows, ApproveEffect
  <2>3. /\ DOMAIN issues' = DOMAIN issues \cup {j} /\ DOMAIN claims' = DOMAIN claims
        /\ renewals' = renewals
    BY <2>2 DEF ApproveColumns, ApproveChanges
  <2> QED
    BY <1>1, <2>3 DEF TablesFinite
<1>6. CASE Register \/ Delete \/ Reject \/ Sweep \/ Remind \/ Tick \/ UNCHANGED vars
  <2>1. DOMAIN issues' = DOMAIN issues /\ DOMAIN claims' = DOMAIN claims /\ renewals' = renewals
    BY <1>6, RemindEffect DEF Register, RegisterUnit, Delete, DeleteUnit, Reject, RejectClaim, Sweep,
                SweepExpired, MarkExpired, Tick, tables, vars
  <2> QED
    BY <2>1 DEF TablesFinite
<1> QED
  BY <1>2, <1>3, <1>4, <1>5, <1>6 DEF Next

\* Claims keep their place as long as no claim changes and no issue its unit.
LEMMA ClaimSetsKept ==
    ASSUME RowsIntact, claims' = claims,
           \A i \in DOMAIN issues : issues'[i].unit = issues[i].unit
    PROVE  \A u : /\ \A S : ClaimsOn(u, S)' = ClaimsOn(u, S)
                  /\ ReplacedBy(u)' = ReplacedBy(u)
BY DEF RowsIntact, ClaimsOn, ReplacedBy

\* A unit whose log, state and rows stay.
LEMMA ExplainedStays ==
    ASSUME NEW u, Explained(u), events'[u] = events[u], units'[u].state = units[u].state,
           IssuesOf(u)' = IssuesOf(u), RenewalsOf(u)' = RenewalsOf(u),
           \A S : ClaimsOn(u, S)' = ClaimsOn(u, S),
           ReplacedBy(u)' = ReplacedBy(u)
    PROVE  Explained(u)'
BY DEF Explained

LEMMA RegisterAudit ==
    ASSUME TypeOK, RowsIntact, AuditExplainsState, Register
    PROVE  AuditExplainsState'
<1>1. PICK x \in Units, e \in RegisterDates \cup {NoDate} : RegisterUnit(x, e)
  BY DEF Register
<1>2. /\ x \notin DOMAIN units /\ DOMAIN units' = DOMAIN units \cup {x}
      /\ units'[x].state = "available" /\ events'[x] = <<>>
      /\ issues' = issues /\ claims' = claims /\ renewals' = renewals
      /\ \A u \in DOMAIN units : units'[u] = units[u] /\ events'[u] = events[u]
  BY <1>1 DEF RegisterUnit, Insert, TypeOK
<1>3. \A u : /\ IssuesOf(u)' = IssuesOf(u) /\ RenewalsOf(u)' = RenewalsOf(u)
             /\ \A S : ClaimsOn(u, S)' = ClaimsOn(u, S)
             /\ ReplacedBy(u)' = ReplacedBy(u)
  BY <1>2 DEF IssuesOf, RenewalsOf, ClaimsOn, ReplacedBy
<1>4. Explained(x)'
  <2>1. /\ IssuesOf(x) = {} /\ RenewalsOf(x) = {} /\ ReplacedBy(x) = {}
        /\ \A S : ClaimsOn(x, S) = {}
    BY <1>2, NullAssumption DEF RowsIntact, IssuesOf, RenewalsOf, ClaimsOn, ReplacedBy
  <2>2. Cardinality({}) = 0
    BY FS_EmptySet
  <2> QED
    BY <1>2, <1>3, <2>1, <2>2, EmptyLog DEF Explained, Explains
<1>5. ASSUME NEW u \in DOMAIN units PROVE Explained(u)'
  BY <1>2, <1>3, <1>5, AuditIsExplained, ExplainedStays
<1>6. \A u \in DOMAIN units' : Explained(u)'
  BY <1>2, <1>4, <1>5
<1> QED
  BY <1>6 DEF AuditExplainsState, Explained, Explains

LEMMA IssueAudit ==
    ASSUME TypeOK, RowsIntact, TablesFinite, AuditExplainsState, Issue
    PROVE  AuditExplainsState'
<1>1. PICK x \in DOMAIN units, c \in Clients, i \in IssueIds, w \in WarrantyDays,
           t \in ClockReadings : IssueUnit(x, units[x], c, i, w, t)
  BY DEF Issue
<1>2. /\ i \notin DOMAIN issues /\ DOMAIN units' = DOMAIN units
      /\ \A u \in DOMAIN units :
            units'[u].state = IF u = x THEN "issued" ELSE units[u].state
      /\ DOMAIN issues' = DOMAIN issues \cup {i} /\ issues'[i].unit = x
      /\ \A k \in DOMAIN issues : issues'[k] = issues[k]
      /\ claims' = claims
  BY <1>1, IssueEffect
<1>3. /\ MayMove(units[x], "issued") /\ renewals' = renewals
      /\ \A u \in DOMAIN units :
            events'[u] = IF u = x
                            THEN events[u] \o StateChanged(units[x], "issued") \o <<"issue.created">>
                            ELSE events[u]
  BY <1>1 DEF IssueUnit, Issuable, TypeOK
<1>4. \A u : /\ IssuesOf(u)' = IF u = x THEN IssuesOf(u) \cup {i} ELSE IssuesOf(u)
             /\ i \notin IssuesOf(u)
             /\ RenewalsOf(u)' = RenewalsOf(u)
  BY <1>2, <1>3 DEF IssuesOf, RenewalsOf
<1>5. \A u : /\ \A S : ClaimsOn(u, S)' = ClaimsOn(u, S)
             /\ ReplacedBy(u)' = ReplacedBy(u)
  BY <1>2, ClaimSetsKept
<1>6. Explained(x)'
  <2> DEFINE log == events[x] \o StateChanged(units[x], "issued")
  <2>1. /\ log \in Seq(EventAction)
        /\ Explains(log, "issued", IssuesOf(x), RenewalsOf(x), ClaimsOn(x, ClaimState),
                    ClaimsOn(x, {"rejected"}), ReplacedBy(x))
    BY <1>3, AuditIsExplained, StateExplained DEF Explained, TypeOK, UnitState
  <2>2. events'[x] = log \o <<"issue.created">>
    BY <1>3
  <2> HIDE DEF log
  <2>3. Append(log, "issue.created") = log \o <<"issue.created">>
    BY <2>1, AppendIs, EntryTypes
  <2>4. Explains(Append(log, "issue.created"), "issued", IssuesOf(x) \cup {i}, RenewalsOf(x),
                 ClaimsOn(x, ClaimState), ClaimsOn(x, {"rejected"}), ReplacedBy(x))
    BY <1>4, <2>1, EntryExplained, EntriesAre, RowSetsFinite
  <2> QED
    BY <1>2, <1>4, <1>5, <2>2, <2>3, <2>4 DEF Explained
<1>7. ASSUME NEW u \in DOMAIN units, u # x PROVE Explained(u)'
  BY <1>2, <1>3, <1>4, <1>5, <1>7, AuditIsExplained, ExplainedStays
<1>8. \A u \in DOMAIN units' : Explained(u)'
  BY <1>2, <1>6, <1>7
<1> QED
  BY <1>8 DEF AuditExplainsState, Explained, Explains

\* The record's new date lies past every recorded one: it is one more row.
LEMMA RenewAudit ==
    ASSUME TypeOK, RowsIntact, PaidTermsStack, TablesFinite, AuditExplainsState, Renew
    PROVE  AuditExplainsState'
<1>1. PICK x \in DOMAIN units, d \in Periods, t \in ClockReadings : RenewUnit(x, units[x], d, t)
  BY DEF Renew
<1> DEFINE rec == RenewalRecord(x, units[x], d, NewExpiry(x, d, t))
           s   == RenewedState(units[x])
<1>2. /\ DOMAIN units' = DOMAIN units
      /\ renewals' = renewals \cup {rec}
  BY <1>1, RenewTerms
<1>3. /\ issues' = issues /\ claims' = claims
      /\ \A u \in DOMAIN units :
            events'[u] = IF u = x THEN events[u] \o StateChanged(units[x], s) \o <<"unit.renewed">>
                                  ELSE events[u]
  BY <1>1 DEF RenewUnit, TypeOK
<1>4. \A u \in DOMAIN units : units'[u].state = IF u = x THEN s ELSE units[u].state
  BY <1>1 DEF RenewUnit, TypeOK, UnitRow
<1>5. s \in UnitState /\ MayMove(units[x], s)
  BY DEF RenewedState, MayMove, CanMove, AllowedTransitions, TypeOK, UnitRow, UnitState
<1>6. rec.unit = x /\ rec \notin RenewalsOf(x)
  <2>1. rec.unit = x /\ rec.new_expires_at = NewExpiry(x, d, t)
    BY DEF RenewalRecord
  <2>2. ASSUME rec \in RenewalsOf(x) PROVE FALSE
    <3>1. units[x].expires_at # NoDate /\ NewExpiry(x, d, t) <= units[x].expires_at
      BY <2>1, <2>2 DEF PaidTermsStack
    <3>2. /\ NewExpiry(x, d, t) \in Nat /\ d \in Nat /\ d >= 1
          /\ units[x].expires_at \in Nat /\ NewExpiry(x, d, t) >= units[x].expires_at + d
      BY <3>1, NewExpiryBounds
    <3> QED
      BY <3>1, <3>2
  <2> QED
    BY <2>1, <2>2
<1> HIDE DEF rec, s
<1>7. \A u : /\ RenewalsOf(u)' = IF u = x THEN RenewalsOf(u) \cup {rec} ELSE RenewalsOf(u)
             /\ IssuesOf(u)' = IssuesOf(u)
  BY <1>2, <1>3, <1>6 DEF IssuesOf, RenewalsOf
<1>8. \A u : /\ \A S : ClaimsOn(u, S)' = ClaimsOn(u, S)
             /\ ReplacedBy(u)' = ReplacedBy(u)
  BY <1>3, ClaimSetsKept
<1>9. Explained(x)'
  <2> DEFINE log == events[x] \o StateChanged(units[x], s)
  <2>1. /\ log \in Seq(EventAction)
        /\ Explains(log, s, IssuesOf(x), RenewalsOf(x), ClaimsOn(x, ClaimState),
                    ClaimsOn(x, {"rejected"}), ReplacedBy(x))
    BY <1>5, AuditIsExplained, StateExplained DEF Explained, TypeOK
  <2>2. events'[x] = log \o <<"unit.renewed">>
    BY <1>3
  <2> HIDE DEF log
  <2>3. Append(log, "unit.renewed") = log \o <<"unit.renewed">>
    BY <2>1, AppendIs, EntryTypes
  <2>4. Explains(Append(log, "unit.renewed"), s, IssuesOf(x), RenewalsOf(x) \cup {rec},
                 ClaimsOn(x, ClaimState), ClaimsOn(x, {"rejected"}), ReplacedBy(x))
    BY <1>6, <2>1, EntryExplained, EntriesAre, RowSetsFinite
  <2> QED
    BY <1>4, <1>7, <1>8, <2>2, <2>3, <2>4 DEF Explained
<1>10. ASSUME NEW u \in DOMAIN units, u # x PROVE Explained(u)'
  BY <1>3, <1>4, <1>7, <1>8, <1>10, AuditIsExplained, ExplainedStays
<1>11. \A u \in DOMAIN units' : Explained(u)'
  BY <1>2, <1>9, <1>10
<1> QED
  BY <1>11 DEF AuditExplainsState, Explained, Explains

LEMMA OpenAudit ==
    ASSUME TypeOK, RowsIntact, TablesFinite, AuditExplainsState, Open
    PROVE  AuditExplainsState'
<1>1. PICK i \in DOMAIN issues, c \in ClaimIds, t \in ClockReadings : OpenClaim(i, issues[i], c, t)
  BY DEF Open
<1>2. PICK x : x = issues[i].unit
  OBVIOUS
<1>3. /\ c \notin DOMAIN claims /\ DOMAIN claims' = DOMAIN claims \cup {c}
      /\ claims'[c].issue = i /\ claims'[c].state = "open" /\ claims'[c].replacement_unit = NoUnit
      /\ \A k \in DOMAIN claims : claims'[k] = claims[k]
      /\ units' = units /\ issues' = issues
  BY <1>1, OpenEffect
<1>4. x \in DOMAIN units /\ x \in Units
  BY <1>2 DEF RowsIntact, TypeOK
<1>5. /\ renewals' = renewals
      /\ \A u \in DOMAIN units :
            events'[u] = IF u = x THEN Append(events[u], "claim.opened") ELSE events[u]
  BY <1>1, <1>2 DEF OpenClaim, TypeOK
<1>6. \A u : IssuesOf(u)' = IssuesOf(u) /\ RenewalsOf(u)' = RenewalsOf(u)
  BY <1>3, <1>5 DEF IssuesOf, RenewalsOf
<1>7. \A u : /\ ClaimsOn(u, ClaimState)' = IF u = x THEN ClaimsOn(u, ClaimState) \cup {c}
                                                   ELSE ClaimsOn(u, ClaimState)
             /\ c \notin ClaimsOn(u, ClaimState)
             /\ ClaimsOn(u, {"rejected"})' = ClaimsOn(u, {"rejected"})
  BY <1>2, <1>3 DEF ClaimsOn, ClaimState
<1>8. \A u \in Units : ReplacedBy(u)' = ReplacedBy(u)
  BY <1>3, NullAssumption DEF ReplacedBy
<1>9. Explained(x)'
  <2>1. /\ events[x] \in Seq(EventAction)
        /\ Explains(events[x], units[x].state, IssuesOf(x), RenewalsOf(x), ClaimsOn(x, ClaimState),
                    ClaimsOn(x, {"rejected"}), ReplacedBy(x))
    BY <1>4, AuditIsExplained DEF Explained, TypeOK
  <2>2. Explains(Append(events[x], "claim.opened"), units[x].state, IssuesOf(x), RenewalsOf(x),
                 ClaimsOn(x, ClaimState) \cup {c}, ClaimsOn(x, {"rejected"}), ReplacedBy(x))
    BY <1>7, <2>1, EntryExplained, EntriesAre, RowSetsFinite
  <2> QED
    BY <1>3, <1>4, <1>5, <1>6, <1>7, <1>8, <2>2 DEF Explained
<1>10. ASSUME NEW u \in DOMAIN units, u # x PROVE Explained(u)'
  <2>1. Explained(u) /\ u \in Units
    BY AuditIsExplained DEF TypeOK
  <2> QED
    BY <1>3, <1>5, <1>6, <1>7, <1>8, <1>10, <2>1 DEF Explained
<1>11. \A u \in DOMAIN units' : Explained(u)'
  BY <1>3, <1>9, <1>10
<1> QED
  BY <1>11 DEF AuditExplainsState, Explained, Explains

LEMMA RejectAudit ==
    ASSUME TypeOK, RowsIntact, TablesFinite, AuditExplainsState, Reject
    PROVE  AuditExplainsState'
<1>1. PICK c \in DOMAIN claims : RejectClaim(c, claims[c], issues[claims[c].issue])
  BY DEF Reject
<1>2. PICK x : x = issues[claims[c].issue].unit
  OBVIOUS
<1>3. /\ claims[c].state = "open" /\ DOMAIN claims' = DOMAIN claims
      /\ \A k \in DOMAIN claims :
            /\ claims'[k].state = IF k = c THEN "rejected" ELSE claims[k].state
            /\ claims'[k].issue = claims[k].issue
            /\ claims'[k].replacement_unit = claims[k].replacement_unit
      /\ units' = units /\ issues' = issues
  BY <1>1, RejectEffect
<1>4. x \in DOMAIN units
  BY <1>2 DEF RowsIntact
<1>5. /\ renewals' = renewals
      /\ \A u \in DOMAIN units :
            events'[u] = IF u = x THEN Append(events[u], "claim.rejected") ELSE events[u]
  BY <1>1, <1>2 DEF RejectClaim, TypeOK
<1>6. \A u : IssuesOf(u)' = IssuesOf(u) /\ RenewalsOf(u)' = RenewalsOf(u)
  BY <1>3, <1>5 DEF IssuesOf, RenewalsOf
<1>7. \A u : /\ ClaimsOn(u, {"rejected"})' = IF u = x THEN ClaimsOn(u, {"rejected"}) \cup {c}
                                                     ELSE ClaimsOn(u, {"rejected"})
             /\ c \notin ClaimsOn(u, {"rejected"})
             /\ ClaimsOn(u, ClaimState)' = ClaimsOn(u, ClaimState)
  BY <1>2, <1>3 DEF ClaimsOn, ClaimState
<1>8. \A u : ReplacedBy(u)' = ReplacedBy(u)
  BY <1>3 DEF ReplacedBy
<1>9. Explained(x)'
  <2>1. /\ events[x] \in Seq(EventAction)
        /\ Explains(events[x], units[x].state, IssuesOf(x), RenewalsOf(x), ClaimsOn(x, ClaimState),
                    ClaimsOn(x, {"rejected"}), ReplacedBy(x))
    BY <1>4, AuditIsExplained DEF Explained, TypeOK
  <2>2. Explains(Append(events[x], "claim.rejected"), units[x].state, IssuesOf(x), RenewalsOf(x),
                 ClaimsOn(x, ClaimState), ClaimsOn(x, {"rejected"}) \cup {c}, ReplacedBy(x))
    BY <1>7, <2>1, EntryExplained, EntriesAre, RowSetsFinite
  <2> QED
    BY <1>3, <1>4, <1>5, <1>6, <1>7, <1>8, <2>2 DEF Explained
<1>10. ASSUME NEW u \in DOMAIN units, u # x PROVE Explained(u)'
  <2>1. Explained(u)
    BY AuditIsExplained
  <2> QED
    BY <1>3, <1>5, <1>6, <1>7, <1>8, <1>10, <2>1 DEF Explained
<1>11. \A u \in DOMAIN units' : Explained(u)'
  BY <1>3, <1>9, <1>10
<1> QED
  BY <1>11 DEF AuditExplainsState, Explained, Explains

\* sweep_expired moves issued units only, as move_state would.
LEMMA SweepAudit ==
    ASSUME TypeOK, RowsIntact, AuditExplainsState, Sweep
    PROVE  AuditExplainsState'
<1>1. PICK t \in ClockReadings, stale \in SUBSET DOMAIN units :
         (\A u \in stale : IsStale(units[u], t)) /\ SweepExpired(stale)
  BY DEF Sweep
<1>2. /\ issues' = issues /\ claims' = claims /\ renewals' = renewals
      /\ DOMAIN units' = DOMAIN units
      /\ \A u \in DOMAIN units :
            /\ units'[u].state = IF u \in stale THEN "expired" ELSE units[u].state
            /\ events'[u] = IF u \in stale THEN Append(events[u], "expired") ELSE events[u]
  BY <1>1 DEF SweepExpired, MarkExpired, TypeOK, UnitRow
<1>3. \A u : /\ IssuesOf(u)' = IssuesOf(u) /\ RenewalsOf(u)' = RenewalsOf(u)
             /\ \A S : ClaimsOn(u, S)' = ClaimsOn(u, S)
             /\ ReplacedBy(u)' = ReplacedBy(u)
  BY <1>2 DEF IssuesOf, RenewalsOf, ClaimsOn, ReplacedBy
<1>4. ASSUME NEW u \in stale PROVE Explained(u)'
  <2>1. units[u].state = "issued" /\ u \in DOMAIN units
    BY <1>1 DEF IsStale
  <2>2. MayMove(units[u], "expired") /\ "expired" \in UnitState
    BY <2>1 DEF MayMove, CanMove, AllowedTransitions, UnitState
  <2>3. /\ events[u] \in Seq(EventAction)
        /\ Explains(events[u], units[u].state, IssuesOf(u), RenewalsOf(u),
                    ClaimsOn(u, ClaimState), ClaimsOn(u, {"rejected"}), ReplacedBy(u))
    BY <2>1, AuditIsExplained DEF Explained, TypeOK
  <2>4. events[u] \o StateChanged(units[u], "expired") = Append(events[u], "expired")
    BY <2>1, <2>2, <2>3, AppendIs DEF StateChanged, EventAction
  <2>5. Explains(Append(events[u], "expired"), "expired", IssuesOf(u), RenewalsOf(u),
                 ClaimsOn(u, ClaimState), ClaimsOn(u, {"rejected"}), ReplacedBy(u))
    BY <2>2, <2>3, <2>4, StateExplained
  <2> QED
    BY <1>2, <1>3, <2>1, <2>5 DEF Explained
<1>5. ASSUME NEW u \in DOMAIN units, u \notin stale PROVE Explained(u)'
  BY <1>2, <1>3, <1>5, AuditIsExplained, ExplainedStays
<1>6. \A u \in DOMAIN units' : Explained(u)'
  BY <1>2, <1>4, <1>5
<1> QED
  BY <1>6 DEF AuditExplainsState, Explained, Explains

\* Reminders change no state and write no row that is counted.
LEMMA RemindAudit ==
    ASSUME TypeOK, AuditExplainsState, Remind
    PROVE  AuditExplainsState'
<1>1. PICK fresh \in SUBSET DOMAIN units :
         events' = [u \in DOMAIN events |->
                     IF u \in fresh THEN Append(events[u], "reminder.queued") ELSE events[u]]
  BY RemindEffect
<1>2. /\ units' = units /\ issues' = issues /\ claims' = claims /\ renewals' = renewals
      /\ \A u \in DOMAIN units :
            events'[u] = IF u \in fresh THEN Append(events[u], "reminder.queued") ELSE events[u]
  BY <1>1, RemindEffect DEF TypeOK
<1>3. \A u : /\ IssuesOf(u)' = IssuesOf(u) /\ RenewalsOf(u)' = RenewalsOf(u)
             /\ \A S : ClaimsOn(u, S)' = ClaimsOn(u, S)
             /\ ReplacedBy(u)' = ReplacedBy(u)
  BY <1>2 DEF IssuesOf, RenewalsOf, ClaimsOn, ReplacedBy
<1>4. ASSUME NEW u \in fresh PROVE Explained(u)'
  <2>1. /\ events[u] \in Seq(EventAction)
        /\ Explains(events[u], units[u].state, IssuesOf(u), RenewalsOf(u),
                    ClaimsOn(u, ClaimState), ClaimsOn(u, {"rejected"}), ReplacedBy(u))
    BY AuditIsExplained DEF Explained, TypeOK
  <2>2. Explains(Append(events[u], "reminder.queued"), units[u].state, IssuesOf(u), RenewalsOf(u),
                 ClaimsOn(u, ClaimState), ClaimsOn(u, {"rejected"}), ReplacedBy(u))
    BY <2>1, ReminderExplained
  <2> QED
    BY <1>2, <1>3, <2>2 DEF Explained
<1>5. ASSUME NEW u \in DOMAIN units, u \notin fresh PROVE Explained(u)'
  BY <1>2, <1>3, <1>5, AuditIsExplained, ExplainedStays
<1>6. \A u \in DOMAIN units' : Explained(u)'
  BY <1>2, <1>4, <1>5
<1> QED
  BY <1>6 DEF AuditExplainsState, Explained, Explains

LEMMA DeleteAudit ==
    ASSUME TypeOK, AuditExplainsState, Delete \/ Tick \/ UNCHANGED vars
    PROVE  AuditExplainsState'
<1>1. /\ issues' = issues /\ claims' = claims /\ renewals' = renewals
      /\ DOMAIN units' \subseteq DOMAIN units
      /\ \A u \in DOMAIN units' : units'[u] = units[u] /\ events'[u] = events[u]
  BY DEF Delete, DeleteUnit, Tick, tables, vars, TypeOK
<1>2. \A u : /\ IssuesOf(u)' = IssuesOf(u) /\ RenewalsOf(u)' = RenewalsOf(u)
             /\ \A S : ClaimsOn(u, S)' = ClaimsOn(u, S)
             /\ ReplacedBy(u)' = ReplacedBy(u)
  BY <1>1 DEF IssuesOf, RenewalsOf, ClaimsOn, ReplacedBy
<1>3. ASSUME NEW u \in DOMAIN units' PROVE Explained(u)'
  BY <1>1, <1>2, <1>3, AuditIsExplained, ExplainedStays
<1> QED
  BY <1>3 DEF AuditExplainsState, Explained, Explains

\* Two units' logs grow: the old one's by its revocation, the replacement's by
\* its change of state, its issue and the decision.
LEMMA ApproveAudit ==
    ASSUME TypeOK, RowsIntact, OneReplacementPerClaim, TablesFinite, AuditExplainsState, Approve
    PROVE  AuditExplainsState'
<1>1. PICK c \in DOMAIN claims, r \in DOMAIN units, j \in IssueIds, t \in ClockReadings :
           ApproveStep(c, r, j, t)
  BY DEF Approve, ApproveStep
<1>2. PICK old : old = issues[claims[c].issue].unit
  OBVIOUS
<1>3. ApproveColumns(c, r, j) /\ ApproveChanges(c, r, j, t)
  BY <1>1, ApproveRows, ApproveEffect
<1>4. /\ old \in DOMAIN units /\ old # r /\ claims[c].state = "open"
      /\ DOMAIN units' = DOMAIN units /\ renewals' = renewals
      /\ \A u \in DOMAIN units :
            units'[u].state = IF u = old THEN "revoked" ELSE IF u = r THEN "issued" ELSE units[u].state
  <2>1. /\ old \in DOMAIN units /\ old # r /\ claims[c].state = "open"
        /\ DOMAIN units' = DOMAIN units /\ renewals' = renewals
        /\ \A u \in DOMAIN units :
              units'[u] = IF u = r THEN [units[u] EXCEPT !.state = "issued"]
                          ELSE IF u = old THEN [units[u] EXCEPT !.state = "revoked"] ELSE units[u]
    BY <1>2, <1>3 DEF ApproveChanges
  <2>2. ASSUME NEW u \in DOMAIN units
        PROVE  units'[u].state = IF u = old THEN "revoked"
                                 ELSE IF u = r THEN "issued" ELSE units[u].state
    <3>1. units[u] \in UnitRow
      BY DEF TypeOK
    <3> QED
      BY <2>1, <3>1 DEF UnitRow
  <2> QED
    BY <2>1, <2>2
<1>5. /\ j \notin DOMAIN issues /\ DOMAIN issues' = DOMAIN issues \cup {j} /\ issues'[j].unit = r
      /\ \A k \in DOMAIN issues : issues'[k].unit = issues[k].unit
      /\ DOMAIN claims' = DOMAIN claims
      /\ \A d \in DOMAIN claims :
            /\ claims'[d].issue = claims[d].issue
            /\ claims'[d].state = IF d = c THEN "approved" ELSE claims[d].state
            /\ claims'[d].replacement_unit = IF d = c THEN r ELSE claims[d].replacement_unit
  BY <1>3 DEF ApproveColumns
<1>6. /\ MayMove(units[old], "revoked") /\ MayMove(units[r], "issued")
      /\ events' = [events EXCEPT
                       ![old] = @ \o StateChanged(units[old], "revoked"),
                       ![r] = @ \o StateChanged(units[r], "issued")
                                \o <<"issue.created", "claim.approved">>]
  BY <1>1, <1>2 DEF ApproveStep, ApproveClaim, Issuable
<1>7. /\ events'[old] = events[old] \o StateChanged(units[old], "revoked")
      /\ events'[r] = events[r] \o StateChanged(units[r], "issued")
                                \o <<"issue.created", "claim.approved">>
      /\ \A u \in DOMAIN units \ {old, r} : events'[u] = events[u]
  BY <1>4, <1>6 DEF TypeOK
<1>8. claims[c].replacement_unit = NoUnit /\ NoUnit \notin Units /\ DOMAIN units \subseteq Units
  BY <1>4, NullAssumption DEF OneReplacementPerClaim, TypeOK
<1>9. \A u : /\ IssuesOf(u)' = IF u = r THEN IssuesOf(u) \cup {j} ELSE IssuesOf(u)
             /\ j \notin IssuesOf(u)
             /\ RenewalsOf(u)' = RenewalsOf(u)
  BY <1>4, <1>5 DEF IssuesOf, RenewalsOf
<1>10. \A u : /\ ClaimsOn(u, ClaimState)' = ClaimsOn(u, ClaimState)
              /\ ClaimsOn(u, {"rejected"})' = ClaimsOn(u, {"rejected"})
  BY <1>4, <1>5 DEF ClaimsOn, ClaimState, RowsIntact
<1>11. \A u \in Units : /\ ReplacedBy(u)' = IF u = r THEN ReplacedBy(u) \cup {c} ELSE ReplacedBy(u)
                        /\ c \notin ReplacedBy(u)
  BY <1>5, <1>8 DEF ReplacedBy
<1>12. \A u \in DOMAIN units :
          /\ events[u] \in Seq(EventAction) /\ u \in Units
          /\ Explains(events[u], units[u].state, IssuesOf(u), RenewalsOf(u),
                      ClaimsOn(u, ClaimState), ClaimsOn(u, {"rejected"}), ReplacedBy(u))
  BY AuditIsExplained DEF Explained, TypeOK
<1>13. Explained(old)'
  <2>1. /\ events[old] \in Seq(EventAction) /\ MayMove(units[old], "revoked")
        /\ Explains(events[old], units[old].state, IssuesOf(old), RenewalsOf(old),
                    ClaimsOn(old, ClaimState), ClaimsOn(old, {"rejected"}), ReplacedBy(old))
        /\ "revoked" \in UnitState
    BY <1>4, <1>6, <1>12 DEF UnitState
  <2>2. Explains(events[old] \o StateChanged(units[old], "revoked"), "revoked",
                 IssuesOf(old), RenewalsOf(old),
                 ClaimsOn(old, ClaimState), ClaimsOn(old, {"rejected"}), ReplacedBy(old))
    BY <2>1, StateExplained
  <2> QED
    BY <1>4, <1>7, <1>9, <1>10, <1>11, <1>12, <2>2 DEF Explained
<1>14. Explained(r)'
  <2> DEFINE log == events[r] \o StateChanged(units[r], "issued")
             sold == Append(log, "issue.created")
             new == Append(sold, "claim.approved")
  <2>1. /\ log \in Seq(EventAction)
        /\ Explains(log, "issued", IssuesOf(r), RenewalsOf(r), ClaimsOn(r, ClaimState),
                    ClaimsOn(r, {"rejected"}), ReplacedBy(r))
    BY <1>6, <1>12, StateExplained DEF UnitState
  <2>2. events'[r] = log \o <<"issue.created", "claim.approved">>
    BY <1>7
  <2> HIDE DEF log
  <2>3. events'[r] = new
    BY <2>1, <2>2, EntryTypes
  <2>4. /\ sold \in Seq(EventAction)
        /\ Explains(sold, "issued", IssuesOf(r) \cup {j}, RenewalsOf(r), ClaimsOn(r, ClaimState),
                    ClaimsOn(r, {"rejected"}), ReplacedBy(r))
    BY <1>9, <2>1, EntryExplained, EntriesAre, RowSetsFinite
  <2> HIDE DEF sold
  <2>5. IsFiniteSet(IssuesOf(r) \cup {j})
    BY RowSetsFinite, FS_AddElement
  <2>6. Explains(new, "issued", IssuesOf(r) \cup {j}, RenewalsOf(r), ClaimsOn(r, ClaimState),
                 ClaimsOn(r, {"rejected"}), ReplacedBy(r) \cup {c})
    BY <1>11, <1>12, <2>4, <2>5, EntryExplained, EntriesAre, RowSetsFinite
  <2> HIDE DEF new
  <2> QED
    BY <1>4, <1>9, <1>10, <1>11, <1>12, <2>3, <2>6 DEF Explained
<1>15. ASSUME NEW u \in DOMAIN units \ {old, r} PROVE Explained(u)'
  BY <1>4, <1>7, <1>9, <1>10, <1>11, <1>12 DEF Explained
<1>16. \A u \in DOMAIN units' : Explained(u)'
  BY <1>4, <1>13, <1>14, <1>15
<1> QED
  BY <1>16 DEF AuditExplainsState, Explained, Explains

AuditInv == TablesFinite /\ AuditExplainsState

LEMMA NextAudit ==
    ASSUME IInv, PaidTermsStack, AuditInv, [Next]_vars
    PROVE  AuditInv'
<1>1. TypeOK /\ RowsIntact /\ OneReplacementPerClaim
  BY DEF IInv, Consistent
<1>2. TablesFinite /\ AuditExplainsState
  BY DEF AuditInv
<1>3. TablesFinite'
  BY <1>1, <1>2, NextTablesFinite
<1>4. AuditExplainsState'
  BY <1>1, <1>2, RegisterAudit, DeleteAudit, IssueAudit, RenewAudit, OpenAudit, ApproveAudit,
     RejectAudit, SweepAudit, RemindAudit DEF Next
<1> QED
  BY <1>3, <1>4 DEF AuditInv

\* The audit log leads to the state of every unit through allowed moves and
\* holds one event for every issue, renewal, claim and decision, whatever the
\* order of sales, renewals, claims and sweeps: log_event is called wherever a
\* row is written, and the bulk sweep is no exception.
THEOREM AuditExplains == Spec => []AuditExplainsState
<1>1. Init => AuditInv
  BY FS_EmptySet DEF Init, AuditInv, TablesFinite, AuditExplainsState
<1>2. IInv /\ PaidTermsStack /\ AuditInv /\ [Next]_vars => AuditInv'
  BY NextAudit
<1>3. AuditInv => AuditExplainsState
  BY DEF AuditInv
<1>4. TermsInv => PaidTermsStack
  BY DEF TermsInv
<1> QED
  BY <1>1, <1>2, <1>3, <1>4, Invariance, TermsStack, PTL DEF Spec

=============================================================================
