----------------------------- MODULE TermsProofs ----------------------------
(***************************************************************************)
(* Proofs that renewals stack, that an expiry date moves by a renewal      *)
(* alone, that no step of Inventory rewrites history, and that Inventory   *)
(* implements UnitLife, on which Reminders, Outbox and RenewalRetry are    *)
(* built, with what that says of expired units.                            *)
(***************************************************************************)
EXTENDS InventoryProofs

-----------------------------------------------------------------------------
\* What a renewal writes: a later date, counted from the present expiry.

NewExpiry(u, d, t) == RenewalBase(units[u], t) + d

LEMMA NewExpiryBounds ==
    ASSUME TypeOK, NEW u \in DOMAIN units, NEW d \in Periods, NEW t \in ClockReadings
    PROVE  /\ NewExpiry(u, d, t) \in Nat /\ d \in Nat /\ d >= 1
           /\ units[u].expires_at # NoDate =>
                 units[u].expires_at \in Nat /\ NewExpiry(u, d, t) >= units[u].expires_at + d
           /\ NewExpiry(u, d, t) >= now - Lag + d
<1>1. /\ t \in Nat /\ now \in Nat /\ Lag \in Nat /\ now - t <= Lag
      /\ d \in Nat /\ d >= 1
  BY DatesAssumption DEF ClockReadings, TypeOK
<1>2. units[u].expires_at \in Nat \/ units[u].expires_at = NoDate
  BY DatesAssumption DEF TypeOK, UnitRow, Dates
<1>3. /\ RenewalBase(units[u], t) \in Nat /\ RenewalBase(units[u], t) >= t
      /\ units[u].expires_at # NoDate => RenewalBase(units[u], t) >= units[u].expires_at
  BY <1>1, <1>2 DEF RenewalBase
<1> QED
  BY <1>1, <1>2, <1>3 DEF NewExpiry

LEMMA RenewTerms ==
    ASSUME TypeOK, NEW u \in DOMAIN units, NEW d \in Periods, NEW t, RenewUnit(u, units[u], d, t)
    PROVE  /\ DOMAIN units' = DOMAIN units
           /\ \A x \in DOMAIN units :
                 units'[x].expires_at = IF x = u THEN NewExpiry(u, d, t) ELSE units[x].expires_at
           /\ renewals' = renewals \cup {RenewalRecord(u, units[u], d, NewExpiry(u, d, t))}
<1>1. DOMAIN units' = DOMAIN units
  BY DEF RenewUnit
<1>2. \A x \in DOMAIN units :
         units'[x].expires_at = IF x = u THEN NewExpiry(u, d, t) ELSE units[x].expires_at
  BY DEF RenewUnit, NewExpiry, TypeOK, UnitRow
<1>3. renewals' = renewals \cup {RenewalRecord(u, units[u], d, NewExpiry(u, d, t))}
  BY DEF RenewUnit, NewExpiry
<1> QED
  BY <1>1, <1>2, <1>3

\* Nothing else moves an expiry date or writes a renewal.
LEMMA OthersKeepTerms ==
    ASSUME TypeOK, RowsIntact, [Next]_vars, ~Renew
    PROVE  /\ renewals' = renewals
           /\ \A u \in DOMAIN units \cap DOMAIN units' : units'[u].expires_at = units[u].expires_at
<1>1. CASE Register
  BY <1>1 DEF Register, RegisterUnit, Insert
<1>2. CASE Delete
  BY <1>2 DEF Delete, DeleteUnit
<1>3. CASE Issue
  BY <1>3 DEF Issue, IssueUnit, TypeOK, UnitRow
<1>4. CASE Open \/ Reject \/ Remind \/ Tick \/ UNCHANGED vars
  BY <1>4, RemindEffect DEF Open, OpenClaim, Reject, RejectClaim, Tick, tables, vars
<1>5. CASE Approve
  <2>1. PICK c \in DOMAIN claims, r \in DOMAIN units, j \in IssueIds, t \in ClockReadings :
             ApproveStep(c, r, j, t)
    BY <1>5 DEF Approve, ApproveStep
  <2>2. ApproveChanges(c, r, j, t)
    BY <2>1, ApproveEffect
  <2>3. \A x \in DOMAIN units :
           /\ [units[x] EXCEPT !.state = "issued"].expires_at = units[x].expires_at
           /\ [units[x] EXCEPT !.state = "revoked"].expires_at = units[x].expires_at
    BY DEF TypeOK, UnitRow
  <2>4. /\ renewals' = renewals /\ DOMAIN units' = DOMAIN units
        /\ \A x \in DOMAIN units : units'[x] \in {units[x], [units[x] EXCEPT !.state = "issued"],
                                                  [units[x] EXCEPT !.state = "revoked"]}
    BY <2>2 DEF ApproveChanges
  <2> QED
    BY <2>3, <2>4
<1>6. CASE Sweep
  <2>1. PICK stale : SweepExpired(stale)
    BY <1>6 DEF Sweep
  <2> QED
    BY <2>1 DEF SweepExpired, MarkExpired, TypeOK, UnitRow
<1> QED
  BY <1>1, <1>2, <1>3, <1>4, <1>5, <1>6 DEF Next

-----------------------------------------------------------------------------
\* Paid terms stack.

LEMMA RenewTermsStack ==
    ASSUME TypeOK, PaidTermsStack, NEW u \in DOMAIN units, NEW d \in Periods,
           NEW t \in ClockReadings, RenewUnit(u, units[u], d, t)
    PROVE  PaidTermsStack'
<1> DEFINE new == NewExpiry(u, d, t)
           rec == RenewalRecord(u, units[u], d, new)
<1>1. /\ new \in Nat /\ d \in Nat /\ d >= 1
      /\ units[u].expires_at # NoDate =>
            units[u].expires_at \in Nat /\ new >= units[u].expires_at + d
  BY NewExpiryBounds
<1>2. /\ DOMAIN units' = DOMAIN units
      /\ \A x \in DOMAIN units :
            units'[x].expires_at = IF x = u THEN new ELSE units[x].expires_at
      /\ renewals' = renewals \cup {rec}
  BY RenewTerms
<1>3. /\ rec.unit = u /\ rec.period_days = d
      /\ rec.previous_expires_at = units[u].expires_at /\ rec.new_expires_at = new
  BY DEF RenewalRecord
<1>4. \A x \in DOMAIN units, r \in renewals' :
         r.unit = x <=> (r \in renewals /\ r.unit = x) \/ (r = rec /\ x = u)
  BY <1>2, <1>3
<1>5. \A r \in renewals : r.new_expires_at \in Nat
  BY DatesAssumption DEF TypeOK, RenewalRow, Dates
<1>6. \A r \in renewals : r.unit = u =>
         units[u].expires_at # NoDate /\ r.new_expires_at <= units[u].expires_at
  BY DEF PaidTermsStack, RenewalsOf
<1> HIDE DEF new, rec
<1>7. ASSUME NEW x \in DOMAIN units, NEW r \in renewals', r.unit = x
      PROVE  /\ r.previous_expires_at # NoDate =>
                   r.new_expires_at >= r.previous_expires_at + r.period_days
             /\ units'[x].expires_at # NoDate /\ r.new_expires_at <= units'[x].expires_at
  <2>1. CASE r = rec /\ x = u
    BY <1>1, <1>2, <1>3, <2>1, DatesAssumption
  <2>2. CASE r \in renewals /\ x = u
    <3>1. r.previous_expires_at # NoDate =>
             r.new_expires_at >= r.previous_expires_at + r.period_days
      BY <1>7, <2>2 DEF PaidTermsStack, RenewalsOf
    <3>2. units[u].expires_at # NoDate /\ r.new_expires_at <= units[u].expires_at
      BY <1>6, <1>7, <2>2
    <3> QED
      BY <1>1, <1>2, <1>5, <2>2, <3>1, <3>2, DatesAssumption
  <2>3. CASE r \in renewals /\ x # u
    BY <1>2, <1>7, <2>3 DEF PaidTermsStack, RenewalsOf
  <2> QED
    BY <1>4, <1>7, <2>1, <2>2, <2>3
<1>8. ASSUME NEW x \in DOMAIN units, NEW r \in renewals', NEW q \in renewals',
             r.unit = x, q.unit = x
      PROVE  \/ r = q
             \/ q.previous_expires_at # NoDate /\ r.new_expires_at <= q.previous_expires_at
             \/ r.previous_expires_at # NoDate /\ q.new_expires_at <= r.previous_expires_at
  <2>1. CASE r \in renewals /\ q \in renewals
    BY <1>8, <2>1 DEF PaidTermsStack, RenewalsOf
  <2>2. CASE r = rec /\ x = u
    BY <1>3, <1>4, <1>6, <1>8, <2>2
  <2>3. CASE q = rec /\ x = u
    BY <1>3, <1>4, <1>6, <1>8, <2>3
  <2> QED
    BY <1>4, <1>8, <2>1, <2>2, <2>3
<1>9. ASSUME NEW x \in DOMAIN units, NEW q \in renewals', q.unit = x
      PROVE  \E r \in renewals' : r.unit = x /\ r.new_expires_at = units'[x].expires_at
  <2>1. CASE x = u
    BY <1>2, <1>3, <2>1
  <2>2. CASE x # u
    <3>1. q \in renewals
      BY <1>4, <1>9, <2>2
    <3>2. \E r \in renewals : r.unit = x /\ r.new_expires_at = units[x].expires_at
      BY <1>9, <3>1 DEF PaidTermsStack, RenewalsOf
    <3> QED
      BY <1>2, <2>2, <3>2
  <2> QED
    BY <2>1, <2>2
<1> QED
  BY <1>2, <1>7, <1>8, <1>9 DEF PaidTermsStack, RenewalsOf

LEMMA NextTermsStack ==
    ASSUME TypeOK, RowsIntact, PaidTermsStack, [Next]_vars
    PROVE  PaidTermsStack'
<1>1. CASE Renew
  BY <1>1, RenewTermsStack DEF Renew
<1>2. CASE ~Renew
  <2>1. /\ renewals' = renewals
        /\ \A u \in DOMAIN units \cap DOMAIN units' : units'[u].expires_at = units[u].expires_at
    BY <1>2, OthersKeepTerms
  <2>2. \A u : u \notin DOMAIN units => \A r \in renewals : r.unit # u
    BY DEF RowsIntact
  <2> QED
    BY <2>1, <2>2 DEF PaidTermsStack, RenewalsOf
<1> QED
  BY <1>1, <1>2

TermsInv == TypeOK /\ RowsIntact /\ PaidTermsStack

\* Renewing never overlaps two paid terms or cuts one short, and the last term
\* ends at Unit.expires_at: renew_unit counts from the later of expiry and now.
THEOREM TermsStack == Spec => []TermsInv
<1>1. Init => TermsInv
  <2>1. Init => PaidTermsStack
    BY DEF Init, PaidTermsStack
  <2> QED
    BY <2>1, InitTypeOK, InitRowsIntact DEF TermsInv
<1>2. TermsInv /\ [Next]_vars => TermsInv'
  BY NextTypeOK, NextRowsIntact, NextTermsStack DEF TermsInv
<1> QED
  BY <1>1, <1>2, PTL DEF Spec

\* PaidTermsStack, the property the runs check.
COROLLARY PaidTerms == Spec => []PaidTermsStack
<1>1. TermsInv => PaidTermsStack
  BY DEF TermsInv
<1> QED
  BY <1>1, TermsStack, PTL

-----------------------------------------------------------------------------
\* An expiry date moves by a renewal.

\* The record is a new one: every older renewal of the unit ends earlier.
LEMMA NextExpiryStep ==
    ASSUME TermsInv, [Next]_vars
    PROVE  ExpiryStep
<1>1. TypeOK /\ RowsIntact /\ PaidTermsStack
  BY DEF TermsInv
<1>2. CASE ~Renew
  BY <1>1, <1>2, OthersKeepTerms DEF ExpiryStep
<1>3. CASE Renew
  <2>1. PICK u \in DOMAIN units, d \in Periods, t \in ClockReadings : RenewUnit(u, units[u], d, t)
    BY <1>3 DEF Renew
  <2> DEFINE new == NewExpiry(u, d, t)
             rec == RenewalRecord(u, units[u], d, new)
  <2>2. /\ new \in Nat /\ d \in Nat /\ d >= 1
        /\ units[u].expires_at # NoDate =>
              units[u].expires_at \in Nat /\ new >= units[u].expires_at + d
        /\ new >= now - Lag + d
    BY <1>1, NewExpiryBounds
  <2>3. /\ DOMAIN units' = DOMAIN units
        /\ \A x \in DOMAIN units :
              units'[x].expires_at = IF x = u THEN new ELSE units[x].expires_at
        /\ renewals' = renewals \cup {rec}
    BY <1>1, <2>1, RenewTerms
  <2>4. /\ rec.unit = u /\ rec.period_days = d
        /\ rec.previous_expires_at = units[u].expires_at /\ rec.new_expires_at = new
    BY DEF RenewalRecord
  <2> HIDE DEF new, rec
  <2>5. rec \notin renewals
    <3>1. \A r \in renewals : r.unit = u =>
             units[u].expires_at # NoDate /\ r.new_expires_at <= units[u].expires_at
      BY <1>1 DEF PaidTermsStack, RenewalsOf
    <3> QED
      BY <2>2, <2>4, <3>1
  <2>6. new >= (IF units[u].expires_at # NoDate THEN units[u].expires_at ELSE now - Lag) + d
    BY <2>2
  <2> QED
    BY <2>3, <2>4, <2>5, <2>6 DEF ExpiryStep
<1> QED
  BY <1>2, <1>3

\* Unit.expires_at changes only together with a new Renewal row that says from
\* where to where, and never back.
THEOREM ExpiryMoves == Spec => ExpiryMovesByRenewal
<1>1. TermsInv /\ [Next]_vars => [ExpiryStep]_vars
  BY NextExpiryStep
<1> QED
  BY <1>1, TermsStack, PTL DEF Spec, ExpiryMovesByRenewal

-----------------------------------------------------------------------------
\* History is never rewritten.

LEMMA RevokedStays ==
    ASSUME TypeOK, RowsIntact, [Next]_vars, NEW u \in DOMAIN units \cap DOMAIN units',
           units[u].state = "revoked"
    PROVE  units'[u].state = "revoked"
<1>1. CASE Register \/ Delete \/ Open \/ Reject \/ Remind \/ Tick \/ UNCHANGED vars
  BY <1>1, RemindEffect DEF Register, RegisterUnit, Insert, Delete, DeleteUnit, Open, OpenClaim, Reject,
              RejectClaim, Tick, tables, vars
<1>2. CASE Issue
  <2>1. PICK x \in DOMAIN units, c \in Clients, i \in IssueIds, w \in WarrantyDays,
             t \in ClockReadings : IssueUnit(x, units[x], c, i, w, t)
    BY <1>2 DEF Issue
  <2>2. units[x].state \in {"available", "reserved"} /\
        units'[u].state = IF u = x THEN "issued" ELSE units[u].state
    BY <2>1, IssueEffect
  <2> QED
    BY <2>2
<1>3. CASE Renew
  <2>1. PICK x \in DOMAIN units, d \in Periods, t \in ClockReadings : RenewUnit(x, units[x], d, t)
    BY <1>3 DEF Renew
  <2>2. Group(units'[u].state) = Group(units[u].state)
    BY <2>1, RenewEffect
  <2> QED
    BY <2>2 DEF Group
<1>4. CASE Approve
  <2>1. PICK c \in DOMAIN claims, r \in DOMAIN units, j \in IssueIds, t \in ClockReadings :
             ApproveStep(c, r, j, t)
    BY <1>4 DEF Approve, ApproveStep
  <2>2. /\ units[r].state \in {"available", "reserved"}
        /\ u # r => units'[u] \in {units[u], [units[u] EXCEPT !.state = "revoked"]}
    BY <2>1, ApproveEffect DEF ApproveChanges
  <2>3. [units[u] EXCEPT !.state = "revoked"].state = "revoked"
    BY DEF TypeOK, UnitRow
  <2> QED
    BY <2>2, <2>3
<1>5. CASE Sweep
  <2>1. PICK t \in ClockReadings :
           \E stale \in SUBSET {x \in DOMAIN units : IsStale(units[x], t)} : SweepExpired(stale)
    BY <1>5 DEF Sweep
  <2>2. Group(units'[u].state) = Group(units[u].state)
    BY <2>1, SweepEffect
  <2> QED
    BY <2>2 DEF Group
<1> QED
  BY <1>1, <1>2, <1>3, <1>4, <1>5 DEF Next

LEMMA IssuesStay ==
    ASSUME TypeOK, RowsIntact, [Next]_vars, NEW i \in DOMAIN issues
    PROVE  /\ i \in DOMAIN issues'
           /\ issues'[i] \in {issues[i], [issues[i] EXCEPT !.is_active = FALSE]}
<1>1. CASE Register \/ Delete \/ Renew \/ Sweep \/ Remind \/ Tick \/ UNCHANGED vars
  BY <1>1, UnitsOnly
<1>2. CASE Issue
  BY <1>2 DEF Issue, IssueUnit, Insert
<1>3. CASE Open \/ Reject
  BY <1>3 DEF Open, OpenClaim, Reject, RejectClaim
<1>4. CASE Approve
  <2>1. PICK c \in DOMAIN claims, r \in DOMAIN units, j \in IssueIds, t \in ClockReadings :
             ApproveStep(c, r, j, t)
    BY <1>4 DEF Approve, ApproveStep
  <2> QED
    BY <2>1, ApproveEffect DEF ApproveChanges
<1> QED
  BY <1>1, <1>2, <1>3, <1>4 DEF Next

LEMMA DecisionsStay ==
    ASSUME TypeOK, RowsIntact, [Next]_vars, NEW c \in DOMAIN claims
    PROVE  /\ c \in DOMAIN claims'
           /\ claims[c].state # "open" => claims'[c] = claims[c]
<1>1. CASE Register \/ Delete \/ Renew \/ Sweep \/ Remind \/ Tick \/ UNCHANGED vars
  BY <1>1, UnitsOnly
<1>2. CASE Issue
  BY <1>2 DEF Issue, IssueUnit
<1>3. CASE Open
  BY <1>3 DEF Open, OpenClaim, Insert
<1>4. CASE Approve
  <2>1. PICK d \in DOMAIN claims, r \in DOMAIN units, j \in IssueIds, t \in ClockReadings :
             ApproveStep(d, r, j, t)
    BY <1>4 DEF Approve, ApproveStep
  <2> QED
    BY <2>1, ApproveEffect DEF ApproveChanges
<1>5. CASE Reject
  BY <1>5 DEF Reject, RejectClaim, Undecided
<1> QED
  BY <1>1, <1>2, <1>3, <1>4, <1>5 DEF Next

\* No transaction of the services, and no deletion by staff, reopens a closed
\* issue or a decided claim, brings a revoked unit back or loses a row.
THEOREM HistoryFinal == Spec => HistoryIsFinal
<1>1. ASSUME TypeOK, RowsIntact, [Next]_vars
      PROVE  HistoryStep
  <2>1. renewals \subseteq renewals'
    <3>1. CASE Renew
      BY <3>1 DEF Renew, RenewUnit
    <3>2. CASE ~Renew
      BY <1>1, <3>2, OthersKeepTerms
    <3> QED
      BY <3>1, <3>2
  <2> QED
    BY <1>1, <2>1, RevokedStays, IssuesStay, DecisionsStay DEF HistoryStep
<1>2. TypeOK /\ RowsIntact /\ [Next]_vars => [HistoryStep]_vars
  BY <1>1
<1> QED
  BY <1>2, TypeCorrect, PTL DEF Spec, HistoryIsFinal

-----------------------------------------------------------------------------
\* Every step of the services is a step of UnitLife or leaves the units alone.

LEMMA RegisterLife == ASSUME TypeOK, Register PROVE Life!Change /\ UNCHANGED now
<1>1. PICK u \in Units, e \in RegisterDates \cup {NoDate} : RegisterUnit(u, e)
  BY DEF Register
<1>2. Life!Add(u, e)
  BY <1>1 DEF RegisterUnit, Insert, Life!Add, Life!Insert
<1> QED
  BY <1>1, <1>2 DEF RegisterUnit, Life!Change

\* PROTECT on Issue.unit: a unit that may be deleted was never sold.
LEMMA DeleteLife == ASSUME TypeOK, StateMatchesIssues, Delete PROVE Life!Change /\ UNCHANGED now
<1>1. PICK u \in DOMAIN units : DeleteUnit(u)
  BY DEF Delete
<1>2. units[u].state \in {"available", "reserved"}
  BY <1>1 DEF DeleteUnit, Deletable, StateMatchesIssues, IssuesOf
<1>3. units' = [x \in DOMAIN units \ {u} |-> units[x]] /\ now' = now
  BY <1>1 DEF DeleteUnit
<1>4. DOMAIN units \cap (DOMAIN units \ {u}) = DOMAIN units \ {u}
  OBVIOUS
<1>5. Life!Remove(u)
  BY <1>2, <1>3, <1>4 DEF Life!Remove, Life!InStock, Life!Only
<1> QED
  BY <1>3, <1>5 DEF Life!Change

LEMMA ReadingsAgree == Life!ClockReadings = ClockReadings
BY DEF Life!ClockReadings, ClockReadings

LEMMA IssuableLife ==
    ASSUME TypeOK, NEW u \in DOMAIN units, NEW t \in ClockReadings, Issuable(units[u], t)
    PROVE  Life!InStock(units[u]) /\ ~Life!Past(units[u], t)
<1>1. units[u].expires_at = NoDate \/ units[u].expires_at \in Nat
  BY DatesAssumption DEF TypeOK, UnitRow, Dates
<1>2. t \in Nat
  BY DatesAssumption DEF ClockReadings, TypeOK
<1> QED
  BY <1>1, <1>2 DEF Issuable, Life!InStock, Life!Past

LEMMA IssueLife == ASSUME TypeOK, Issue PROVE Life!Change /\ UNCHANGED now
<1>1. PICK u \in DOMAIN units, c \in Clients, i \in IssueIds, w \in WarrantyDays,
           t \in ClockReadings : IssueUnit(u, units[u], c, i, w, t)
  BY DEF Issue
<1>2. Issuable(units[u], t) /\ units' = [units EXCEPT ![u].state = "issued"] /\ now' = now
  BY <1>1 DEF IssueUnit
<1>3. Life!Sell(u, t)
  BY <1>2, IssuableLife DEF Life!Sell
<1> QED
  BY <1>2, <1>3, ReadingsAgree DEF Life!Change

LEMMA RenewLife == ASSUME TypeOK, Renew PROVE Life!Change /\ UNCHANGED now
<1>1. PICK u \in DOMAIN units, d \in Periods, t \in ClockReadings : RenewUnit(u, units[u], d, t)
  BY DEF Renew
<1> DEFINE new == RenewalBase(units[u], t) + d
<1>2. Life!RenewalDate(units[u], d, t) = new
  <2>1. /\ t \in Nat /\ d \in Nat
        /\ units[u].expires_at \in Nat \/ units[u].expires_at = NoDate
    BY DatesAssumption DEF ClockReadings, TypeOK, UnitRow, Dates
  <2>2. CASE units[u].expires_at # NoDate /\ units[u].expires_at > t
    BY <2>1, <2>2 DEF Life!RenewalDate, RenewalBase
  <2>3. CASE ~(units[u].expires_at # NoDate /\ units[u].expires_at > t)
    BY <2>1, <2>3 DEF Life!RenewalDate, RenewalBase
  <2> QED
    BY <2>2, <2>3
<1>3. /\ units[u].state # "revoked" /\ new <= MaxDate /\ now' = now
      /\ units' = [units EXCEPT
            ![u].expires_at = new,
            ![u].state = IF RenewedState(units[u]) = units[u].state THEN @
                         ELSE RenewedState(units[u])]
  BY <1>1 DEF RenewUnit
<1> HIDE DEF new
<1>4. units' = [units EXCEPT ![u] = [state |-> RenewedState(units[u]), expires_at |-> new]]
  <2>1. units'[u] = [state |-> RenewedState(units[u]), expires_at |-> new]
    BY <1>3 DEF TypeOK, UnitRow
  <2>2. \A x \in DOMAIN units : x # u => units'[x] = units[x]
    BY <1>3
  <2>3. units' = [x \in DOMAIN units |-> units'[x]]
    BY <1>3
  <2> QED
    BY <2>1, <2>2, <2>3
<1>5. Life!Renewed(units[u], d, t) = [state |-> RenewedState(units[u]), expires_at |-> new]
  BY <1>2 DEF Life!Renewed, RenewedState
<1>6. Life!Renew(u, d, t)
  BY <1>2, <1>3, <1>4, <1>5 DEF Life!Renew
<1> QED
  BY <1>3, <1>6, ReadingsAgree DEF Life!Change

\* An open claim is on an active issue: its unit is with the client.
LEMMA ClaimedInUse ==
    ASSUME IInv, NEW c \in DOMAIN claims, claims[c].state = "open"
    PROVE  /\ issues[claims[c].issue].unit \in DOMAIN units
           /\ Life!InUse(units[issues[claims[c].issue].unit])
<1> DEFINE i == claims[c].issue
           u == issues[i].unit
<1>1. /\ TypeOK /\ RowsIntact /\ StateMatchesIssues /\ ClaimsMatchIssues
  BY DEF IInv, Consistent
<1>2. i \in DOMAIN issues /\ u \in DOMAIN units /\ issues[i].is_active
  BY <1>1 DEF RowsIntact, ClaimsMatchIssues
<1>3. i \in IssuesOf(u)
  BY <1>2 DEF IssuesOf
<1>4. units[u].state \notin {"available", "reserved"}
  BY <1>1, <1>2, <1>3 DEF StateMatchesIssues
<1>5. units[u].state # "revoked"
  <2>1. SUFFICES ASSUME NEW j \in IssuesOf(u), ~issues[j].is_active PROVE FALSE
    BY <1>1, <1>2 DEF StateMatchesIssues
  <2>2. j = i
    BY <1>1, <1>2 DEF StateMatchesIssues, IssuesOf
  <2> QED
    BY <1>2, <2>1, <2>2
<1>6. units[u].state \in UnitState
  BY <1>1, <1>2 DEF TypeOK, UnitRow
<1> QED
  BY <1>2, <1>4, <1>5, <1>6 DEF UnitState, Life!InUse

LEMMA ApproveLife == ASSUME IInv, Approve PROVE Life!Change /\ UNCHANGED now
<1>1. TypeOK
  BY DEF IInv
<1>2. PICK c \in DOMAIN claims, r \in DOMAIN units, j \in IssueIds, t \in ClockReadings :
           ApproveStep(c, r, j, t)
  BY DEF Approve, ApproveStep
<1> DEFINE u == issues[claims[c].issue].unit
<1>3. /\ claims[c].state = "open" /\ Issuable(units[r], t) /\ now' = now
      /\ units' = [units EXCEPT ![u].state = "revoked", ![r].state = "issued"]
  BY <1>2 DEF ApproveStep, ApproveClaim, Undecided
<1>4. u \in DOMAIN units /\ Life!InUse(units[u])
  BY <1>3, ClaimedInUse
<1>5. Life!Replace(u, r, t)
  BY <1>1, <1>3, <1>4, IssuableLife DEF Life!Replace
<1> QED
  BY <1>3, <1>4, <1>5, ReadingsAgree DEF Life!Change

LEMMA SweepLife == ASSUME TypeOK, Sweep PROVE Life!Change /\ UNCHANGED now
<1>1. PICK t \in ClockReadings, stale \in SUBSET DOMAIN units :
         (\A u \in stale : IsStale(units[u], t)) /\ SweepExpired(stale)
  BY DEF Sweep
<1>2. Life!Expire(stale, t) /\ now' = now
  BY <1>1 DEF SweepExpired, MarkExpired, Life!Expire, IsStale, Life!Past
<1> QED
  BY <1>2, ReadingsAgree DEF Life!Change

LEMMA NextLife == ASSUME IInv, [Next]_vars PROVE [Life!Next]_(Life!vars)
<1>1. TypeOK /\ StateMatchesIssues
  BY DEF IInv, Consistent
<1>2. CASE Register \/ Delete \/ Issue \/ Renew \/ Approve \/ Sweep
  BY <1>1, <1>2, RegisterLife, DeleteLife, IssueLife, RenewLife, ApproveLife, SweepLife DEF Life!Next
<1>3. CASE Open \/ Reject \/ Remind \/ UNCHANGED vars
  BY <1>3, RemindEffect DEF Open, OpenClaim, Reject, RejectClaim, vars, tables, Life!vars
<1>4. CASE Tick
  BY <1>4 DEF Tick, tables, Life!Next, Life!Tick
<1> QED
  BY <1>2, <1>3, <1>4 DEF Next

\* Whatever the services and staff do, a unit's state and expiry date move as
\* UnitLife says: the modules built on it see every change of a unit.
THEOREM UnitsLive == Spec => LifeKept
<1>1. Init => Life!Init
  BY DEF Init, Life!Init
<1>2. IInv /\ [Next]_vars => [Life!Next]_(Life!vars)
  BY NextLife
<1> QED
  BY <1>1, <1>2, Invariance, PTL DEF Spec, LifeKept, Life!Spec

-----------------------------------------------------------------------------
\* Every foreign key finds its row.

\* The part of TypeCorrect about foreign keys: staff delete no unit that an
\* issue, a renewal or a claim refers to.
COROLLARY KeysIntact == Spec => []RowsIntact
<1>1. TypeOK /\ RowsIntact => RowsIntact
  OBVIOUS
<1> QED
  BY <1>1, TypeCorrect, PTL

-----------------------------------------------------------------------------
\* A unit is called expired only when its term is over.

LEMMA NextExpiredIsPast ==
    ASSUME TypeOK, ExpiredIsPast, [Life!Next]_(Life!vars)
    PROVE  ExpiredIsPast'
<1>1. /\ now \in Nat
      /\ \A u \in DOMAIN units : units[u].expires_at \in Nat \/ units[u].expires_at = NoDate
  BY DatesAssumption DEF TypeOK, UnitRow, Dates
<1>2. ASSUME NEW u \in Units, NEW e \in RegisterDates \cup {NoDate}, Life!Add(u, e), now' = now
      PROVE  ExpiredIsPast'
  BY <1>2 DEF ExpiredIsPast, Life!Add, Life!Insert
<1>3. ASSUME NEW u \in DOMAIN units, Life!Remove(u), now' = now
      PROVE  ExpiredIsPast'
  BY <1>3 DEF ExpiredIsPast, Life!Remove, Life!Only
<1>4. ASSUME NEW t \in Life!ClockReadings, NEW u \in DOMAIN units, Life!Sell(u, t), now' = now
      PROVE  ExpiredIsPast'
  BY <1>4 DEF ExpiredIsPast, Life!Sell, TypeOK, UnitRow
<1>5. ASSUME NEW t \in Life!ClockReadings, NEW u \in DOMAIN units, NEW d \in Periods,
             Life!Renew(u, d, t), now' = now
      PROVE  ExpiredIsPast'
  <2>1. Life!Renewed(units[u], d, t).state # "expired"
    BY DEF Life!Renewed
  <2> QED
    BY <1>5, <2>1 DEF ExpiredIsPast, Life!Renew
<1>6. ASSUME NEW t \in Life!ClockReadings, NEW u \in DOMAIN units, NEW r \in DOMAIN units,
             Life!Replace(u, r, t), now' = now
      PROVE  ExpiredIsPast'
  BY <1>6 DEF ExpiredIsPast, Life!Replace, TypeOK, UnitRow
<1>7. ASSUME NEW t \in Life!ClockReadings, NEW stale \in SUBSET DOMAIN units,
             Life!Expire(stale, t), now' = now
      PROVE  ExpiredIsPast'
  <2>1. t \in Nat /\ t <= now
    BY <1>1 DEF Life!ClockReadings
  <2>2. \A u \in stale : units[u].expires_at # NoDate /\ units[u].expires_at <= now
    BY <1>1, <1>7, <2>1 DEF Life!Expire, Life!Past
  <2> QED
    BY <1>7, <2>2 DEF ExpiredIsPast, Life!Expire, TypeOK, UnitRow
<1>8. CASE Life!Tick
  BY <1>1, <1>8 DEF ExpiredIsPast, Life!Tick
<1>9. CASE UNCHANGED Life!vars
  BY <1>9 DEF ExpiredIsPast, Life!vars
<1> QED
  BY <1>2, <1>3, <1>4, <1>5, <1>6, <1>7, <1>8, <1>9 DEF Life!Next, Life!Change

\* sweep_expired marks a unit only at or after its expiry date, and a renewal
\* brings the unit back to issued: expired always means past its term.
THEOREM ExpiredRightly == Spec => []ExpiredIsPast
<1>1. Init => ExpiredIsPast
  BY DEF Init, ExpiredIsPast
<1>2. IInv /\ ExpiredIsPast /\ [Next]_vars => ExpiredIsPast'
  BY NextLife, NextExpiredIsPast DEF IInv
<1> QED
  BY <1>1, <1>2, Invariance, PTL DEF Spec

=============================================================================
