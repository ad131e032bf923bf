--------------------------- MODULE InventoryProofs --------------------------
(***************************************************************************)
(* Proofs about Inventory, for every set of keys, dates and periods: its   *)
(* types and keys; and that units, issues and claims tell one story, the   *)
(* invariants StateMatchesIssues, ClaimsMatchIssues and                    *)
(* OneReplacementPerClaim being inductive together, over types and keys.   *)
(***************************************************************************)
EXTENDS Inventory, SequenceTheorems, TLAPS

-----------------------------------------------------------------------------
\* What a transaction appends to an audit log is a sequence of events.

LEMMA StateChangedType ==
    ASSUME NEW row, NEW target \in UnitState
    PROVE  StateChanged(row, target) \in Seq(EventAction)
<1>1. <<>> \in Seq(EventAction)
  OBVIOUS
<1>2. <<target>> \in Seq(EventAction)
  BY DEF EventAction
<1> QED
  BY <1>1, <1>2 DEF StateChanged

LEMMA ConcatType ==
    ASSUME NEW S, NEW s \in Seq(S), NEW t \in Seq(S)
    PROVE  s \o t \in Seq(S)
BY ConcatProperties

-----------------------------------------------------------------------------
\* Approving a claim on the present rows, and what it leaves behind.

ApproveStep(c, r, j, t) ==
    LET issue == issues[claims[c].issue]
    IN  ApproveClaim(c, claims[c], issue, units[issue.unit], r, units[r], j, t)

ApproveChanges(c, r, j, t) ==
    LET i   == claims[c].issue
        old == issues[i].unit
    IN  /\ i \in DOMAIN issues /\ j \notin DOMAIN issues
        /\ old \in DOMAIN units /\ r # old
        /\ claims[c].state = "open"
        /\ units[r].state \in {"available", "reserved"}
        /\ now' = now /\ renewals' = renewals
        /\ DOMAIN units' = DOMAIN units
        /\ \A x \in DOMAIN units :
              units'[x] = IF x = r THEN [units[x] EXCEPT !.state = "issued"]
                          ELSE IF x = old THEN [units[x] EXCEPT !.state = "revoked"]
                          ELSE units[x]
        /\ DOMAIN issues' = DOMAIN issues \cup {j}
        /\ issues'[j] = NewIssue(r, issues[i].client, issues[i].warranty_days, t)
        /\ \A x \in DOMAIN issues :
              issues'[x] = IF x = i THEN [issues[x] EXCEPT !.is_active = FALSE] ELSE issues[x]
        /\ DOMAIN claims' = DOMAIN claims
        /\ \A d \in DOMAIN claims :
              claims'[d] = IF d = c THEN [claims[d] EXCEPT !.state = "approved",
                                                           !.replacement_unit = r]
                           ELSE claims[d]

LEMMA ApproveEffect ==
    ASSUME TypeOK, RowsIntact, NEW c \in DOMAIN claims, NEW r \in DOMAIN units,
           NEW j \in IssueIds, NEW t \in ClockReadings, ApproveStep(c, r, j, t)
    PROVE  ApproveChanges(c, r, j, t)
<1> DEFINE i == claims[c].issue
           old == issues[i].unit
<1>1. i \in DOMAIN issues /\ old \in DOMAIN units
  BY DEF RowsIntact
<1>2. /\ claims[c].state = "open" /\ r # old /\ j \notin DOMAIN issues
      /\ units[r].state \in {"available", "reserved"}
      /\ now' = now /\ renewals' = renewals
  BY DEF ApproveStep, ApproveClaim, Undecided, Issuable
<1>3. units' = [units EXCEPT ![old].state = "revoked", ![r].state = "issued"]
  BY DEF ApproveStep, ApproveClaim
<1>4. DOMAIN units' = DOMAIN units
  BY <1>3
<1>5. \A x \in DOMAIN units :
         units'[x] = IF x = r THEN [units[x] EXCEPT !.state = "issued"]
                     ELSE IF x = old THEN [units[x] EXCEPT !.state = "revoked"]
                     ELSE units[x]
  BY <1>1, <1>2, <1>3
<1>6. issues' = Insert([issues EXCEPT ![i].is_active = FALSE], j,
                       NewIssue(r, issues[i].client, issues[i].warranty_days, t))
  BY DEF ApproveStep, ApproveClaim
<1>7. /\ DOMAIN issues' = DOMAIN issues \cup {j}
      /\ issues'[j] = NewIssue(r, issues[i].client, issues[i].warranty_days, t)
      /\ \A x \in DOMAIN issues :
            issues'[x] = IF x = i THEN [issues[x] EXCEPT !.is_active = FALSE] ELSE issues[x]
  BY <1>1, <1>2, <1>6 DEF Insert
<1>8. claims' = [claims EXCEPT ![c].state = "approved", ![c].replacement_unit = r]
  BY DEF ApproveStep, ApproveClaim
<1>9. /\ DOMAIN claims' = DOMAIN claims
      /\ \A d \in DOMAIN claims :
            claims'[d] = IF d = c THEN [claims[d] EXCEPT !.state = "approved",
                                                         !.replacement_unit = r]
                         ELSE claims[d]
  BY <1>8
<1> QED
  BY <1>1, <1>2, <1>4, <1>5, <1>7, <1>9 DEF ApproveChanges

-----------------------------------------------------------------------------
\* Type correctness, one lemma per action.

LEMMA InitTypeOK == Init => TypeOK
BY DatesAssumption DEF Init, TypeOK

LEMMA RegisterTypeOK ==
    ASSUME TypeOK, NEW u \in Units, NEW e \in RegisterDates \cup {NoDate}, RegisterUnit(u, e)
    PROVE  TypeOK'
<1>1. [state |-> "available", expires_at |-> e] \in UnitRow
  BY DatesAssumption DEF UnitRow, UnitState, Dates
<1>2. DOMAIN units' \subseteq Units /\ \A x \in DOMAIN units' : units'[x] \in UnitRow
  BY <1>1 DEF TypeOK, RegisterUnit, Insert
<1>3. DOMAIN events' = DOMAIN units' /\ \A x \in DOMAIN units' : events'[x] \in Seq(EventAction)
  BY DEF TypeOK, RegisterUnit, Insert
<1> QED
  BY <1>2, <1>3 DEF TypeOK, RegisterUnit

LEMMA DeleteTypeOK ==
    ASSUME TypeOK, NEW u \in DOMAIN units, DeleteUnit(u)
    PROVE  TypeOK'
BY DEF TypeOK, DeleteUnit

LEMMA NewIssueType ==
    ASSUME NEW u \in Units, NEW c \in Clients, NEW w \in WarrantyDays, NEW t \in Nat
    PROVE  NewIssue(u, c, w, t) \in IssueRow
BY DatesAssumption DEF NewIssue, IssueRow

LEMMA IssueTypeOK ==
    ASSUME TypeOK, NEW u \in DOMAIN units, NEW c \in Clients, NEW i \in IssueIds,
           NEW w \in WarrantyDays, NEW t \in ClockReadings, IssueUnit(u, units[u], c, i, w, t)
    PROVE  TypeOK'
<1>1. NewIssue(u, c, w, t) \in IssueRow
  BY NewIssueType DEF TypeOK, ClockReadings
<1>2. DOMAIN issues' \subseteq IssueIds /\ \A x \in DOMAIN issues' : issues'[x] \in IssueRow
  BY <1>1 DEF TypeOK, IssueUnit, Insert
<1>3. DOMAIN units' = DOMAIN units /\ \A x \in DOMAIN units' : units'[x] \in UnitRow
  BY DEF TypeOK, IssueUnit, UnitRow, UnitState
<1>4. StateChanged(units[u], "issued") \o <<"issue.created">> \in Seq(EventAction)
  <2>1. <<"issue.created">> \in Seq(EventAction)
    BY DEF EventAction
  <2>2. StateChanged(units[u], "issued") \in Seq(EventAction)
    BY StateChangedType DEF UnitState
  <2> QED
    BY <2>1, <2>2, ConcatType
<1>5. DOMAIN events' = DOMAIN events /\ \A x \in DOMAIN events' : events'[x] \in Seq(EventAction)
  BY <1>4, ConcatType DEF TypeOK, IssueUnit
<1> QED
  BY <1>2, <1>3, <1>5 DEF TypeOK, IssueUnit

LEMMA RenewTypeOK ==
    ASSUME TypeOK, NEW u \in DOMAIN units, NEW d \in Periods, NEW t \in ClockReadings,
           RenewUnit(u, units[u], d, t)
    PROVE  TypeOK'
<1> DEFINE new == RenewalBase(units[u], t) + d
<1>1. new \in Dates /\ RenewedState(units[u]) \in UnitState
  <2>1. units[u] \in UnitRow /\ d \in Nat /\ t \in Nat
    BY DatesAssumption DEF TypeOK, ClockReadings
  <2>2. RenewalBase(units[u], t) \in Nat
    BY <2>1, DatesAssumption DEF RenewalBase, UnitRow, Dates
  <2> QED
    BY <2>1, <2>2, DatesAssumption DEF RenewUnit, Dates, RenewedState, UnitRow, UnitState
<1>2. [state |-> RenewedState(units[u]), expires_at |-> new] \in UnitRow
  BY <1>1 DEF UnitRow
<1>3. DOMAIN units' = DOMAIN units /\ \A x \in DOMAIN units' : units'[x] \in UnitRow
  <2>1. units' = [units EXCEPT ![u].expires_at = new,
                               ![u].state = IF RenewedState(units[u]) = units[u].state
                                            THEN @ ELSE RenewedState(units[u])]
    BY DEF RenewUnit
  <2>2. units'[u] = [state |-> RenewedState(units[u]), expires_at |-> new]
    BY <2>1 DEF TypeOK, UnitRow
  <2> QED
    BY <1>2, <2>1, <2>2 DEF TypeOK
<1>4. RenewalRecord(u, units[u], d, new) \in RenewalRow
  BY <1>1 DEF RenewalRecord, RenewalRow, TypeOK, UnitRow
<1>5. StateChanged(units[u], RenewedState(units[u])) \o <<"unit.renewed">> \in Seq(EventAction)
  <2>1. <<"unit.renewed">> \in Seq(EventAction)
    BY DEF EventAction
  <2> QED
    BY <1>1, <2>1, StateChangedType, ConcatType
<1>6. DOMAIN events' = DOMAIN events /\ \A x \in DOMAIN events' : events'[x] \in Seq(EventAction)
  <2>1. events[u] \in Seq(EventAction)
    BY DEF TypeOK
  <2>2. (events[u] \o StateChanged(units[u], RenewedState(units[u]))) \o <<"unit.renewed">> \in Seq(EventAction)
    <3>1. <<"unit.renewed">> \in Seq(EventAction)
      BY DEF EventAction
    <3> QED
      BY <1>1, <2>1, <3>1, StateChangedType, ConcatType
  <2> QED
    BY <2>2 DEF TypeOK, RenewUnit
<1> QED
  BY <1>3, <1>4, <1>6 DEF TypeOK, RenewUnit

LEMMA OpenTypeOK ==
    ASSUME TypeOK, NEW i \in DOMAIN issues, NEW c \in ClaimIds, NEW t \in ClockReadings,
           OpenClaim(i, issues[i], c, t)
    PROVE  TypeOK'
<1>1. [issue |-> i, state |-> "open", replacement_unit |-> NoUnit] \in ClaimRow
  BY DEF ClaimRow, ClaimState, TypeOK
<1>2. DOMAIN claims' \subseteq ClaimIds /\ \A x \in DOMAIN claims' : claims'[x] \in ClaimRow
  BY <1>1 DEF TypeOK, OpenClaim, Insert
<1>3. DOMAIN events' = DOMAIN events /\ \A x \in DOMAIN events' : events'[x] \in Seq(EventAction)
  BY DEF TypeOK, OpenClaim, EventAction
<1> QED
  BY <1>2, <1>3 DEF TypeOK, OpenClaim

LEMMA ApproveTypeOK ==
    ASSUME TypeOK, NEW c \in DOMAIN claims, NEW r \in DOMAIN units, NEW j \in IssueIds,
           NEW t \in ClockReadings, claims[c].issue \in DOMAIN issues, ApproveStep(c, r, j, t)
    PROVE  TypeOK'
<1> DEFINE i == claims[c].issue
           old == issues[i].unit
           new == NewIssue(r, issues[i].client, issues[i].warranty_days, t)
<1>1. new \in IssueRow
  <2>1. issues[i] \in IssueRow /\ t \in Nat /\ r \in Units
    BY DEF TypeOK, ClockReadings
  <2>2. issues[i].client \in Clients /\ issues[i].warranty_days \in WarrantyDays
    BY <2>1 DEF IssueRow
  <2> QED
    BY <2>1, <2>2, NewIssueType
<1>2. [issues[i] EXCEPT !.is_active = FALSE] \in IssueRow
  BY DEF IssueRow, TypeOK
<1>3. DOMAIN issues' \subseteq IssueIds /\ \A x \in DOMAIN issues' : issues'[x] \in IssueRow
  BY <1>1, <1>2 DEF TypeOK, ApproveStep, ApproveClaim, Insert
<1>4. DOMAIN units' = DOMAIN units /\ \A x \in DOMAIN units' : units'[x] \in UnitRow
  <2>1. units' = [units EXCEPT ![old].state = "revoked", ![r].state = "issued"] /\ r # old
    BY DEF ApproveStep, ApproveClaim
  <2>2. DOMAIN units' = DOMAIN units
    BY <2>1
  <2>3. ASSUME NEW x \in DOMAIN units
        PROVE  units'[x] \in {units[x], [units[x] EXCEPT !.state = "revoked"],
                                       [units[x] EXCEPT !.state = "issued"]}
    BY <2>1
  <2>4. \A x \in DOMAIN units, s \in UnitState :
           units[x] \in UnitRow /\ [units[x] EXCEPT !.state = s] \in UnitRow
    BY DEF TypeOK, UnitRow
  <2> QED
    BY <2>2, <2>3, <2>4 DEF UnitState
<1>5. DOMAIN claims' = DOMAIN claims /\ \A x \in DOMAIN claims' : claims'[x] \in ClaimRow
  BY DEF TypeOK, ApproveStep, ApproveClaim, ClaimRow, ClaimState
<1>6. DOMAIN events' = DOMAIN events /\ \A x \in DOMAIN events' : events'[x] \in Seq(EventAction)
  <2>1. StateChanged(units[old], "revoked") \in Seq(EventAction)
        /\ StateChanged(units[r], "issued") \in Seq(EventAction)
    BY StateChangedType DEF UnitState
  <2>2. <<"issue.created", "claim.approved">> \in Seq(EventAction)
    BY DEF EventAction
  <2>3. ASSUME NEW x \in DOMAIN events
        PROVE  /\ events[x] \in Seq(EventAction)
               /\ events[x] \o StateChanged(units[old], "revoked") \in Seq(EventAction)
               /\ (events[x] \o StateChanged(units[r], "issued")) \o <<"issue.created", "claim.approved">>
                     \in Seq(EventAction)
    <3>1. events[x] \in Seq(EventAction)
      BY DEF TypeOK
    <3> QED
      BY <2>1, <2>2, <3>1, ConcatType
  <2> QED
    BY <2>3 DEF ApproveStep, ApproveClaim, TypeOK
<1> QED
  BY <1>3, <1>4, <1>5, <1>6 DEF TypeOK, ApproveStep, ApproveClaim

LEMMA RejectTypeOK ==
    ASSUME TypeOK, NEW c \in DOMAIN claims, RejectClaim(c, claims[c], issues[claims[c].issue])
    PROVE  TypeOK'
<1>1. DOMAIN claims' = DOMAIN claims /\ \A x \in DOMAIN claims' : claims'[x] \in ClaimRow
  BY DEF TypeOK, RejectClaim, ClaimRow, ClaimState
<1>2. DOMAIN events' = DOMAIN events /\ \A x \in DOMAIN events' : events'[x] \in Seq(EventAction)
  BY DEF TypeOK, RejectClaim, EventAction
<1> QED
  BY <1>1, <1>2 DEF TypeOK, RejectClaim

LEMMA SweepTypeOK ==
    ASSUME TypeOK, NEW stale \in SUBSET DOMAIN units, SweepExpired(stale)
    PROVE  TypeOK'
<1>1. DOMAIN units' = DOMAIN units /\ \A x \in DOMAIN units' : units'[x] \in UnitRow
  BY DEF TypeOK, SweepExpired, MarkExpired, UnitRow, UnitState
<1>2. DOMAIN events' = DOMAIN events /\ \A x \in DOMAIN events' : events'[x] \in Seq(EventAction)
  BY DEF TypeOK, SweepExpired, EventAction, UnitState
<1> QED
  BY <1>1, <1>2 DEF TypeOK, SweepExpired

\* A reminder run writes events of units that it found due, and nothing else.
LEMMA RemindEffect ==
    ASSUME Remind
    PROVE  /\ now' = now /\ units' = units /\ issues' = issues /\ claims' = claims
           /\ renewals' = renewals
           /\ \E fresh \in SUBSET DOMAIN units :
                 /\ \A u \in fresh : units[u].state \in {"issued", "expired"}
                 /\ events' = [u \in DOMAIN events |->
                                 IF u \in fresh THEN Append(events[u], "reminder.queued")
                                                ELSE events[u]]
BY DEF Remind, QueueReminders, Due

LEMMA RemindTypeOK == ASSUME TypeOK, Remind PROVE TypeOK'
<1>1. PICK fresh \in SUBSET DOMAIN units :
         events' = [u \in DOMAIN events |->
                     IF u \in fresh THEN Append(events[u], "reminder.queued") ELSE events[u]]
  BY RemindEffect
<1>2. DOMAIN events' = DOMAIN events /\ \A x \in DOMAIN events' : events'[x] \in Seq(EventAction)
  BY <1>1 DEF TypeOK, EventAction
<1> QED
  BY <1>2, RemindEffect DEF TypeOK

-----------------------------------------------------------------------------
\* Every foreign key finds its row.

LEMMA InitRowsIntact == Init => RowsIntact
BY DEF Init, RowsIntact

LEMMA NextRowsIntact ==
    ASSUME TypeOK, RowsIntact, [Next]_vars
    PROVE  RowsIntact'
<1>1. ASSUME NEW u \in Units, NEW e \in RegisterDates \cup {NoDate}, RegisterUnit(u, e)
      PROVE  RowsIntact'
  BY <1>1 DEF RowsIntact, RegisterUnit, Insert
<1>2. ASSUME NEW u \in DOMAIN units, DeleteUnit(u)
      PROVE  RowsIntact'
  BY <1>2 DEF RowsIntact, DeleteUnit, Deletable
<1>3. ASSUME NEW u \in DOMAIN units, NEW c \in Clients, NEW i \in IssueIds,
             NEW w \in WarrantyDays, NEW t \in ClockReadings, IssueUnit(u, units[u], c, i, w, t)
      PROVE  RowsIntact'
  BY <1>3 DEF RowsIntact, IssueUnit, Insert, NewIssue
<1>4. ASSUME NEW u \in DOMAIN units, NEW d \in Periods, NEW t \in ClockReadings,
             RenewUnit(u, units[u], d, t)
      PROVE  RowsIntact'
  BY <1>4 DEF RowsIntact, RenewUnit, RenewalRecord
<1>5. ASSUME NEW i \in DOMAIN issues, NEW c \in ClaimIds, NEW t \in ClockReadings,
             OpenClaim(i, issues[i], c, t)
      PROVE  RowsIntact'
  BY <1>5 DEF RowsIntact, OpenClaim, Insert
<1>6. ASSUME NEW c \in DOMAIN claims, NEW r \in DOMAIN units, NEW j \in IssueIds,
             NEW t \in ClockReadings, ApproveStep(c, r, j, t)
      PROVE  RowsIntact'
  <2> DEFINE i == claims[c].issue
             old == issues[i].unit
  <2>1. ApproveChanges(c, r, j, t)
    BY <1>6, ApproveEffect
  <2>2. \A x \in DOMAIN issues' : issues'[x].unit \in DOMAIN units
    <3>1. issues'[j].unit = r
      <4>1. issues'[j] = NewIssue(r, issues[i].client, issues[i].warranty_days, t)
        BY <2>1 DEF ApproveChanges
      <4> QED
        BY <4>1 DEF NewIssue
    <3>2. ASSUME NEW x \in DOMAIN issues
          PROVE  issues'[x].unit = issues[x].unit
      <4>1. issues[x] \in IssueRow
        BY DEF TypeOK
      <4>2. [issues[x] EXCEPT !.is_active = FALSE].unit = issues[x].unit
        BY <4>1 DEF IssueRow
      <4> QED
        BY <2>1, <4>2 DEF ApproveChanges
    <3> QED
      BY <2>1, <3>1, <3>2 DEF ApproveChanges, RowsIntact
  <2>3. \A d \in DOMAIN claims : /\ claims'[d].issue = claims[d].issue
                                 /\ claims'[d].replacement_unit \in {claims[d].replacement_unit, r}
    BY <2>1 DEF ApproveChanges, TypeOK, ClaimRow
  <2> QED
    BY <2>1, <2>2, <2>3 DEF ApproveChanges, RowsIntact
<1>7. ASSUME NEW c \in DOMAIN claims, RejectClaim(c, claims[c], issues[claims[c].issue])
      PROVE  RowsIntact'
  BY <1>7 DEF RowsIntact, RejectClaim
<1>8. ASSUME NEW stale, SweepExpired(stale)
      PROVE  RowsIntact'
  BY <1>8 DEF RowsIntact, SweepExpired, MarkExpired
<1>9. CASE Remind \/ Tick \/ UNCHANGED vars
  BY <1>9, RemindEffect DEF RowsIntact, Tick, tables, vars
<1>10. CASE Approve
  BY <1>6, <1>10 DEF Approve, ApproveStep
<1>11. CASE Sweep
  BY <1>8, <1>11 DEF Sweep
<1> QED
  BY <1>1, <1>2, <1>3, <1>4, <1>5, <1>7, <1>9, <1>10, <1>11
  DEF Next, Register, Delete, Issue, Renew, Open, Reject

LEMMA NextTypeOK ==
    ASSUME TypeOK, RowsIntact, [Next]_vars
    PROVE  TypeOK'
<1>1. CASE Register
  BY <1>1, RegisterTypeOK DEF Register
<1>2. CASE Delete
  BY <1>2, DeleteTypeOK DEF Delete
<1>3. CASE Issue
  BY <1>3, IssueTypeOK DEF Issue
<1>4. CASE Renew
  BY <1>4, RenewTypeOK DEF Renew
<1>5. CASE Open
  BY <1>5, OpenTypeOK DEF Open
<1>6. CASE Approve
  BY <1>6, ApproveTypeOK DEF Approve, ApproveStep, RowsIntact
<1>7. CASE Reject
  BY <1>7, RejectTypeOK DEF Reject
<1>8. CASE Sweep
  <2>1. PICK stale \in SUBSET DOMAIN units : SweepExpired(stale)
    BY <1>8 DEF Sweep
  <2> QED
    BY <2>1, SweepTypeOK
<1>9. CASE Tick
  BY <1>9, DatesAssumption DEF TypeOK, Tick, tables
<1>10. CASE UNCHANGED vars
  BY <1>10 DEF TypeOK, vars
<1>11. CASE Remind
  BY <1>11, RemindTypeOK
<1> QED
  BY <1>1, <1>2, <1>3, <1>4, <1>5, <1>6, <1>7, <1>8, <1>9, <1>10, <1>11 DEF Next

\* Types and foreign keys are inductive together: approving follows the
\* claim's key into the table of issues.
THEOREM TypeCorrect == Spec => [](TypeOK /\ RowsIntact)
<1>1. Init => TypeOK /\ RowsIntact
  BY InitTypeOK, InitRowsIntact
<1>2. TypeOK /\ RowsIntact /\ [Next]_vars => (TypeOK /\ RowsIntact)'
  BY NextTypeOK, NextRowsIntact
<1> QED
  BY <1>1, <1>2, PTL DEF Spec

-----------------------------------------------------------------------------
Consistent ==
    StateMatchesIssues /\ ClaimsMatchIssues /\ OneReplacementPerClaim

IInv == TypeOK /\ RowsIntact /\ Consistent

-----------------------------------------------------------------------------
\* What each operation leaves behind, in the terms of the invariant.

LEMMA IssueEffect ==
    ASSUME TypeOK, NEW u \in DOMAIN units, NEW c, NEW i, NEW w, NEW t,
           IssueUnit(u, units[u], c, i, w, t)
    PROVE  /\ i \notin DOMAIN issues
           /\ units[u].state \in {"available", "reserved"}
           /\ DOMAIN units' = DOMAIN units
           /\ \A x \in DOMAIN units :
                 units'[x].state = IF x = u THEN "issued" ELSE units[x].state
           /\ DOMAIN issues' = DOMAIN issues \cup {i}
           /\ issues'[i].unit = u /\ issues'[i].is_active
           /\ \A x \in DOMAIN issues : issues'[x] = issues[x]
           /\ claims' = claims
<1>1. /\ i \notin DOMAIN issues /\ claims' = claims
      /\ units[u].state \in {"available", "reserved"}
  BY DEF IssueUnit, Issuable
<1>2. DOMAIN units' = DOMAIN units /\ \A x \in DOMAIN units :
         units'[x].state = IF x = u THEN "issued" ELSE units[x].state
  BY DEF IssueUnit, TypeOK, UnitRow
<1>3. /\ DOMAIN issues' = DOMAIN issues \cup {i}
      /\ issues'[i] = NewIssue(u, c, w, t)
      /\ \A x \in DOMAIN issues : issues'[x] = issues[x]
  BY DEF IssueUnit, Insert
<1>4. issues'[i].unit = u /\ issues'[i].is_active
  BY <1>3 DEF NewIssue
<1> QED
  BY <1>1, <1>2, <1>3, <1>4

\* Every other operation on units alone keeps a unit in its group of states.
Group(s) == IF s \in {"available", "reserved"} THEN "stock"
            ELSE IF s = "revoked" THEN "gone" ELSE "held"

LEMMA RenewEffect ==
    ASSUME TypeOK, NEW u \in DOMAIN units, NEW d, NEW t, RenewUnit(u, units[u], d, t)
    PROVE  /\ DOMAIN units' = DOMAIN units
           /\ \A x \in DOMAIN units : Group(units'[x].state) = Group(units[x].state)
           /\ issues' = issues /\ claims' = claims
<1>1. DOMAIN units' = DOMAIN units /\ issues' = issues /\ claims' = claims
  BY DEF RenewUnit
<1>2. \A x \in DOMAIN units :
         units'[x].state = IF x = u THEN RenewedState(units[u]) ELSE units[x].state
  BY DEF RenewUnit, TypeOK, UnitRow
<1>3. Group(RenewedState(units[u])) = Group(units[u].state)
  BY DEF RenewedState, Group
<1> QED
  BY <1>1, <1>2, <1>3

LEMMA SweepEffect ==
    ASSUME TypeOK, NEW t, NEW stale \in SUBSET {u \in DOMAIN units : IsStale(units[u], t)},
           SweepExpired(stale)
    PROVE  /\ DOMAIN units' = DOMAIN units
           /\ \A x \in DOMAIN units : Group(units'[x].state) = Group(units[x].state)
           /\ issues' = issues /\ claims' = claims
<1>1. DOMAIN units' = DOMAIN units /\ issues' = issues /\ claims' = claims
  BY DEF SweepExpired, MarkExpired
<1>2. \A x \in DOMAIN units :
         units'[x].state = IF x \in stale THEN "expired" ELSE units[x].state
  BY DEF SweepExpired, MarkExpired, TypeOK, UnitRow
<1>3. \A x \in stale : units[x].state = "issued"
  BY DEF IsStale
<1> QED
  BY <1>1, <1>2, <1>3 DEF Group

LEMMA OpenEffect ==
    ASSUME NEW i \in DOMAIN issues, NEW c, NEW t, OpenClaim(i, issues[i], c, t)
    PROVE  /\ c \notin DOMAIN claims /\ issues[i].is_active
           /\ \A d \in DOMAIN claims : claims[d].issue = i => claims[d].state # "open"
           /\ DOMAIN claims' = DOMAIN claims \cup {c}
           /\ claims'[c].issue = i /\ claims'[c].state = "open"
           /\ claims'[c].replacement_unit = NoUnit
           /\ \A d \in DOMAIN claims : claims'[d] = claims[d]
           /\ units' = units /\ issues' = issues
BY DEF OpenClaim, Claimable, NoOpenClaim, Insert

LEMMA RejectEffect ==
    ASSUME TypeOK, NEW c \in DOMAIN claims, RejectClaim(c, claims[c], issues[claims[c].issue])
    PROVE  /\ claims[c].state = "open"
           /\ DOMAIN claims' = DOMAIN claims
           /\ \A d \in DOMAIN claims :
                 /\ claims'[d].state = IF d = c THEN "rejected" ELSE claims[d].state
                 /\ claims'[d].issue = claims[d].issue
                 /\ claims'[d].replacement_unit = claims[d].replacement_unit
           /\ units' = units /\ issues' = issues
<1>1. claims[c].state = "open" /\ units' = units /\ issues' = issues
  BY DEF RejectClaim, Undecided
<1>2. claims' = [claims EXCEPT ![c].state = "rejected"]
  BY DEF RejectClaim
<1>3. \A d \in DOMAIN claims : claims[d] \in ClaimRow
  BY DEF TypeOK
<1> QED
  BY <1>1, <1>2, <1>3 DEF ClaimRow

-----------------------------------------------------------------------------
\* A unit's state and its issues.

\* StateMatchesIssues without the set IssuesOf.
StateStory ==
    /\ \A i, j \in DOMAIN issues : issues[i].unit = issues[j].unit => i = j
    /\ \A u \in DOMAIN units :
          /\ Group(units[u].state) = "stock" <=> \A i \in DOMAIN issues : issues[i].unit # u
          /\ Group(units[u].state) = "gone" <=>
                \E i \in DOMAIN issues : issues[i].unit = u /\ ~issues[i].is_active

LEMMA StateStoryThen == StateMatchesIssues => StateStory
BY DEF StateMatchesIssues, StateStory, IssuesOf, Group

LEMMA StateStoryNow == StateStory' => StateMatchesIssues'
BY DEF StateMatchesIssues, StateStory, IssuesOf, Group

\* Steps that leave the issues alone and every unit in its group.
LEMMA StateStoryKept ==
    ASSUME StateStory, issues' = issues, DOMAIN units' \subseteq DOMAIN units,
           \A x \in DOMAIN units' : Group(units'[x].state) = Group(units[x].state)
    PROVE  StateStory'
BY DEF StateStory

LEMMA RegisterStateStory ==
    ASSUME TypeOK, RowsIntact, StateStory, NEW u \in Units, NEW e, RegisterUnit(u, e)
    PROVE  StateStory'
<1>1. /\ issues' = issues /\ DOMAIN units' = DOMAIN units \cup {u} /\ u \notin DOMAIN units
      /\ \A x \in DOMAIN units : units'[x] = units[x]
      /\ Group(units'[u].state) = "stock"
  BY DEF RegisterUnit, Insert, Group
<1>2. \A i \in DOMAIN issues : issues[i].unit # u
  BY <1>1 DEF RowsIntact
<1> QED
  BY <1>1, <1>2 DEF StateStory

LEMMA IssueStateStory ==
    ASSUME TypeOK, StateStory, NEW u \in DOMAIN units, NEW c, NEW i, NEW w, NEW t,
           IssueUnit(u, units[u], c, i, w, t)
    PROVE  StateStory'
<1>1. /\ i \notin DOMAIN issues
      /\ Group(units[u].state) = "stock"
      /\ DOMAIN units' = DOMAIN units
      /\ \A x \in DOMAIN units :
            units'[x].state = IF x = u THEN "issued" ELSE units[x].state
      /\ DOMAIN issues' = DOMAIN issues \cup {i}
      /\ \A x \in DOMAIN issues : issues'[x] = issues[x]
  BY IssueEffect DEF Group
<1>2. issues'[i].unit = u /\ issues'[i].is_active
  BY IssueEffect
<1>3. \A x \in DOMAIN issues : issues[x].unit # u
  BY <1>1 DEF StateStory
<1>4. \A x, y \in DOMAIN issues' : issues'[x].unit = issues'[y].unit => x = y
  BY <1>1, <1>2, <1>3 DEF StateStory
<1>5. Group("issued") = "held"
  BY DEF Group
<1>6. ASSUME NEW x \in DOMAIN units
      PROVE  /\ Group(units'[x].state) = "stock" <=> \A y \in DOMAIN issues' : issues'[y].unit # x
             /\ Group(units'[x].state) = "gone" <=>
                   \E y \in DOMAIN issues' : issues'[y].unit = x /\ ~issues'[y].is_active
  <2>1. CASE x = u
    BY <1>1, <1>2, <1>3, <1>5, <2>1
  <2>2. CASE x # u
    BY <1>1, <1>2, <2>2 DEF StateStory
  <2> QED
    BY <2>1, <2>2
<1> QED
  BY <1>1, <1>4, <1>6 DEF StateStory

LEMMA ApproveStateStory ==
    ASSUME TypeOK, RowsIntact, ClaimsMatchIssues, StateStory,
           NEW c \in DOMAIN claims, NEW r \in DOMAIN units,
           NEW j \in IssueIds, NEW t \in ClockReadings, ApproveStep(c, r, j, t)
    PROVE  StateStory'
<1> DEFINE i == claims[c].issue
           old == issues[i].unit
<1>1. ApproveChanges(c, r, j, t)
  BY ApproveEffect
<1>2. /\ i \in DOMAIN issues /\ j \notin DOMAIN issues /\ old \in DOMAIN units /\ r # old
      /\ issues[i].is_active
      /\ Group(units[r].state) = "stock"
      /\ DOMAIN units' = DOMAIN units /\ DOMAIN issues' = DOMAIN issues \cup {j}
  BY <1>1 DEF ApproveChanges, ClaimsMatchIssues, Group
<1>3. \A x \in DOMAIN units :
         units'[x].state = IF x = r THEN "issued" ELSE IF x = old THEN "revoked" ELSE units[x].state
  <2>1. \A x \in DOMAIN units : /\ [units[x] EXCEPT !.state = "issued"].state = "issued"
                                /\ [units[x] EXCEPT !.state = "revoked"].state = "revoked"
    BY DEF TypeOK, UnitRow
  <2>2. \A x \in DOMAIN units :
           units'[x] = IF x = r THEN [units[x] EXCEPT !.state = "issued"]
                       ELSE IF x = old THEN [units[x] EXCEPT !.state = "revoked"]
                       ELSE units[x]
    BY <1>1 DEF ApproveChanges
  <2> QED
    BY <2>1, <2>2
<1>4. issues'[j].unit = r /\ issues'[j].is_active
  <2>1. issues'[j] = NewIssue(r, issues[i].client, issues[i].warranty_days, t)
    BY <1>1 DEF ApproveChanges
  <2> QED
    BY <2>1 DEF NewIssue
<1>5. \A x \in DOMAIN issues : /\ issues'[x].unit = issues[x].unit
                               /\ issues'[x].is_active = (issues[x].is_active /\ x # i)
  <2>1. \A x \in DOMAIN issues : /\ [issues[x] EXCEPT !.is_active = FALSE].unit = issues[x].unit
                                 /\ [issues[x] EXCEPT !.is_active = FALSE].is_active = FALSE
                                 /\ issues[x].is_active \in BOOLEAN
    BY DEF TypeOK, IssueRow
  <2>2. \A x \in DOMAIN issues :
           issues'[x] = IF x = i THEN [issues[x] EXCEPT !.is_active = FALSE] ELSE issues[x]
    BY <1>1 DEF ApproveChanges
  <2> QED
    BY <2>1, <2>2
<1>6. \A x \in DOMAIN issues : issues[x].unit # r
  BY <1>2 DEF StateStory
<1>7. \A x, y \in DOMAIN issues' : issues'[x].unit = issues'[y].unit => x = y
  BY <1>2, <1>4, <1>5, <1>6 DEF StateStory
<1>8. Group("issued") = "held" /\ Group("revoked") = "gone"
  BY DEF Group
<1>9. ASSUME NEW x \in DOMAIN units
      PROVE  /\ Group(units'[x].state) = "stock" <=> \A y \in DOMAIN issues' : issues'[y].unit # x
             /\ Group(units'[x].state) = "gone" <=>
                   \E y \in DOMAIN issues' : issues'[y].unit = x /\ ~issues'[y].is_active
  <2>1. CASE x = r
    BY <1>2, <1>3, <1>4, <1>5, <1>6, <1>8, <2>1
  <2>2. CASE x = old
    BY <1>2, <1>3, <1>5, <1>8, <2>2
  <2>3. CASE x # r /\ x # old
    <3>1. units'[x].state = units[x].state
      BY <1>3, <2>3
    <3>2. \A y \in DOMAIN issues' : issues'[y].unit = x <=> y \in DOMAIN issues /\ issues[y].unit = x
      BY <1>2, <1>4, <1>5, <2>3
    <3>3. \A y \in DOMAIN issues : issues[y].unit = x => issues'[y].is_active = issues[y].is_active
      BY <1>5, <2>3 DEF TypeOK, IssueRow
    <3> QED
      BY <1>2, <3>1, <3>2, <3>3 DEF StateStory
  <2> QED
    BY <2>1, <2>2, <2>3
<1> QED
  BY <1>2, <1>7, <1>9 DEF StateStory

LEMMA NextStateStory ==
    ASSUME TypeOK, RowsIntact, ClaimsMatchIssues, StateStory, [Next]_vars
    PROVE  StateStory'
<1>1. CASE Register
  BY <1>1, RegisterStateStory DEF Register
<1>2. CASE Delete
  <2>1. PICK u \in DOMAIN units : DeleteUnit(u)
    BY <1>2 DEF Delete
  <2>2. /\ issues' = issues /\ DOMAIN units' \subseteq DOMAIN units
        /\ \A x \in DOMAIN units' : Group(units'[x].state) = Group(units[x].state)
    BY <2>1 DEF DeleteUnit
  <2> QED
    BY <2>2, StateStoryKept
<1>3. CASE Issue
  BY <1>3, IssueStateStory DEF Issue
<1>4. CASE Renew
  <2>1. PICK u \in DOMAIN units, d \in Periods, t \in ClockReadings : RenewUnit(u, units[u], d, t)
    BY <1>4 DEF Renew
  <2>2. /\ issues' = issues /\ DOMAIN units' = DOMAIN units
        /\ \A x \in DOMAIN units : Group(units'[x].state) = Group(units[x].state)
    BY <2>1, RenewEffect
  <2> QED
    BY <2>2, StateStoryKept
<1>5. CASE Approve
  BY <1>5, ApproveStateStory DEF Approve, ApproveStep
<1>6. CASE Sweep
  <2>1. PICK t \in ClockReadings :
           \E stale \in SUBSET {u \in DOMAIN units : IsStale(units[u], t)} : SweepExpired(stale)
    BY <1>6 DEF Sweep
  <2>2. /\ issues' = issues /\ DOMAIN units' = DOMAIN units
        /\ \A x \in DOMAIN units : Group(units'[x].state) = Group(units[x].state)
    BY <2>1, SweepEffect
  <2> QED
    BY <2>2, StateStoryKept
<1>7. CASE Open \/ Reject \/ Remind \/ Tick \/ UNCHANGED vars
  <2>1. issues' = issues /\ units' = units
    BY <1>7, RemindEffect DEF Open, OpenClaim, Reject, RejectClaim, Tick, tables, vars
  <2> QED
    BY <2>1, StateStoryKept
<1> QED
  BY <1>1, <1>2, <1>3, <1>4, <1>5, <1>6, <1>7 DEF Next

LEMMA NextStateMatchesIssues ==
    ASSUME IInv, [Next]_vars
    PROVE  StateMatchesIssues'
<1>1. TypeOK /\ RowsIntact /\ ClaimsMatchIssues /\ StateStory
  BY StateStoryThen DEF IInv, Consistent
<1> QED
  BY <1>1, NextStateStory, StateStoryNow

-----------------------------------------------------------------------------
\* The claims of an issue.

\* Registering, deleting, renewing, sweeping and reminding touch neither issues
\* nor claims.
LEMMA UnitsOnly ==
    ASSUME Register \/ Delete \/ Renew \/ Sweep \/ Remind \/ Tick \/ UNCHANGED vars
    PROVE  issues' = issues /\ claims' = claims
BY RemindEffect
   DEF Register, RegisterUnit, Delete, DeleteUnit, Renew, RenewUnit, Sweep, SweepExpired,
       MarkExpired, Tick, tables, vars

LEMMA OpenClaimsMatch ==
    ASSUME TypeOK, RowsIntact, ClaimsMatchIssues, NEW i \in DOMAIN issues, NEW c, NEW t,
           OpenClaim(i, issues[i], c, t)
    PROVE  ClaimsMatchIssues'
<1>1. /\ c \notin DOMAIN claims /\ issues[i].is_active
      /\ DOMAIN claims' = DOMAIN claims \cup {c}
      /\ \A d \in DOMAIN claims : claims'[d] = claims[d]
      /\ issues' = issues
  BY OpenEffect
<1>2. claims'[c].issue = i /\ claims'[c].state = "open"
  BY OpenEffect
<1>3. \A d \in DOMAIN claims : claims[d].issue = i => claims[d].state = "rejected"
  <2>1. \A d \in DOMAIN claims : claims[d].state \in ClaimState
    BY DEF TypeOK, ClaimRow
  <2>2. \A d \in DOMAIN claims : claims[d].issue = i => claims[d].state \notin {"open", "approved"}
    BY <1>1, OpenEffect DEF ClaimsMatchIssues
  <2> QED
    BY <2>1, <2>2 DEF ClaimState
<1> QED
  BY <1>1, <1>2, <1>3 DEF ClaimsMatchIssues

LEMMA IssueClaimsMatch ==
    ASSUME TypeOK, RowsIntact, ClaimsMatchIssues, NEW u \in DOMAIN units, NEW c, NEW i,
           NEW w, NEW t, IssueUnit(u, units[u], c, i, w, t)
    PROVE  ClaimsMatchIssues'
<1>1. /\ i \notin DOMAIN issues
      /\ DOMAIN issues' = DOMAIN issues \cup {i}
      /\ \A x \in DOMAIN issues : issues'[x] = issues[x]
      /\ claims' = claims
  BY IssueEffect
<1>2. issues'[i].is_active
  BY IssueEffect
<1>3. \A d \in DOMAIN claims : claims[d].issue \in DOMAIN issues
  BY DEF RowsIntact
<1> QED
  BY <1>1, <1>2, <1>3 DEF ClaimsMatchIssues

LEMMA RejectClaimsMatch ==
    ASSUME TypeOK, RowsIntact, ClaimsMatchIssues, NEW c \in DOMAIN claims,
           RejectClaim(c, claims[c], issues[claims[c].issue])
    PROVE  ClaimsMatchIssues'
BY RejectEffect DEF ClaimsMatchIssues

\* ApproveChanges, column by column.
ApproveColumns(c, r, j) ==
    LET i == claims[c].issue
    IN  /\ i \in DOMAIN issues /\ j \notin DOMAIN issues /\ claims[c].state = "open"
        /\ Group(units[r].state) = "stock"
        /\ DOMAIN issues' = DOMAIN issues \cup {j}
        /\ issues'[j].unit = r /\ issues'[j].is_active
        /\ issues'[j].client = issues[i].client
        /\ issues'[j].warranty_days = issues[i].warranty_days
        /\ \A x \in DOMAIN issues :
              /\ issues'[x].is_active <=> issues[x].is_active /\ x # i
              /\ issues'[x].unit = issues[x].unit
              /\ issues'[x].client = issues[x].client
              /\ issues'[x].warranty_days = issues[x].warranty_days
        /\ DOMAIN claims' = DOMAIN claims
        /\ \A d \in DOMAIN claims :
              /\ claims'[d].issue = claims[d].issue
              /\ claims'[d].state = IF d = c THEN "approved" ELSE claims[d].state
              /\ claims'[d].replacement_unit = IF d = c THEN r ELSE claims[d].replacement_unit

LEMMA ApproveRows ==
    ASSUME TypeOK, RowsIntact, NEW c \in DOMAIN claims, NEW r \in DOMAIN units,
           NEW j \in IssueIds, NEW t \in ClockReadings, ApproveStep(c, r, j, t)
    PROVE  ApproveColumns(c, r, j)
<1> DEFINE i == claims[c].issue
<1>1. ApproveChanges(c, r, j, t)
  BY ApproveEffect
<1>2. /\ i \in DOMAIN issues /\ j \notin DOMAIN issues /\ claims[c].state = "open"
      /\ Group(units[r].state) = "stock"
      /\ DOMAIN issues' = DOMAIN issues \cup {j} /\ DOMAIN claims' = DOMAIN claims
  BY <1>1 DEF ApproveChanges, Group
<1>3. /\ issues'[j].unit = r /\ issues'[j].is_active
      /\ issues'[j].client = issues[i].client
      /\ issues'[j].warranty_days = issues[i].warranty_days
  <2>1. issues'[j] = NewIssue(r, issues[i].client, issues[i].warranty_days, t)
    BY <1>1 DEF ApproveChanges
  <2> QED
    BY <2>1 DEF NewIssue
<1>4. \A x \in DOMAIN issues :
         /\ issues'[x].is_active <=> issues[x].is_active /\ x # i
         /\ issues'[x].unit = issues[x].unit
         /\ issues'[x].client = issues[x].client
         /\ issues'[x].warranty_days = issues[x].warranty_days
  <2>1. \A x \in DOMAIN issues :
           LET row == [issues[x] EXCEPT !.is_active = FALSE]
           IN  /\ row.is_active = FALSE /\ row.unit = issues[x].unit
               /\ row.client = issues[x].client /\ row.warranty_days = issues[x].warranty_days
    BY DEF TypeOK, IssueRow
  <2>2. \A x \in DOMAIN issues :
           issues'[x] = IF x = i THEN [issues[x] EXCEPT !.is_active = FALSE] ELSE issues[x]
    BY <1>1 DEF ApproveChanges
  <2> QED
    BY <2>1, <2>2
<1>5. \A d \in DOMAIN claims :
         /\ claims'[d].issue = claims[d].issue
         /\ claims'[d].state = IF d = c THEN "approved" ELSE claims[d].state
         /\ claims'[d].replacement_unit = IF d = c THEN r ELSE claims[d].replacement_unit
  <2>1. \A d \in DOMAIN claims :
           LET row == [claims[d] EXCEPT !.state = "approved", !.replacement_unit = r]
           IN  row.state = "approved" /\ row.replacement_unit = r /\ row.issue = claims[d].issue
    BY DEF TypeOK, ClaimRow
  <2>2. \A d \in DOMAIN claims :
           claims'[d] = IF d = c THEN [claims[d] EXCEPT !.state = "approved",
                                                        !.replacement_unit = r]
                        ELSE claims[d]
    BY <1>1 DEF ApproveChanges
  <2> QED
    BY <2>1, <2>2
<1> QED
  BY <1>2, <1>3, <1>4, <1>5 DEF ApproveColumns

\* The claim was open, so every other claim on its issue is rejected.
LEMMA ApproveClaimsMatch ==
    ASSUME TypeOK, RowsIntact, ClaimsMatchIssues, NEW c \in DOMAIN claims,
           NEW r \in DOMAIN units, NEW j \in IssueIds, NEW t \in ClockReadings,
           ApproveStep(c, r, j, t)
    PROVE  ClaimsMatchIssues'
<1> DEFINE i == claims[c].issue
<1>0. ApproveColumns(c, r, j)
  BY ApproveRows
<1>1. /\ i \in DOMAIN issues /\ j \notin DOMAIN issues /\ claims[c].state = "open"
      /\ DOMAIN issues' = DOMAIN issues \cup {j} /\ issues'[j].is_active
      /\ \A x \in DOMAIN issues :
            issues'[x].is_active <=> issues[x].is_active /\ x # i
      /\ DOMAIN claims' = DOMAIN claims
      /\ \A d \in DOMAIN claims :
            /\ claims'[d].issue = claims[d].issue
            /\ claims'[d].state = IF d = c THEN "approved" ELSE claims[d].state
  BY <1>0 DEF ApproveColumns
<1>2. \A d \in DOMAIN claims : claims[d].issue \in DOMAIN issues
  BY DEF RowsIntact
<1>3. \A d \in DOMAIN claims : claims[d].issue = i /\ d # c => claims[d].state = "rejected"
  BY <1>1 DEF ClaimsMatchIssues
<1>4. \A d, e \in DOMAIN claims' :
         claims'[d].issue = claims'[e].issue /\ d # e
            => "rejected" \in {claims'[d].state, claims'[e].state}
  BY <1>1, <1>3 DEF ClaimsMatchIssues
<1>5. \A d \in DOMAIN claims' : claims'[d].state = "open" => issues'[claims'[d].issue].is_active
  <2> SUFFICES ASSUME NEW d \in DOMAIN claims, claims'[d].state = "open"
               PROVE  issues'[claims[d].issue].is_active
    BY <1>1
  <2>1. d # c /\ claims[d].state = "open"
    BY <1>1
  <2>2. claims[d].issue # i
    BY <1>3, <2>1
  <2>3. issues[claims[d].issue].is_active
    BY <2>1 DEF ClaimsMatchIssues
  <2> QED
    BY <1>1, <1>2, <2>2, <2>3
<1>6. ASSUME NEW x \in DOMAIN issues'
      PROVE  ~issues'[x].is_active <=>
                \E d \in DOMAIN claims' : claims'[d].issue = x /\ claims'[d].state = "approved"
  <2>1. CASE x = j
    BY <1>1, <1>2, <2>1
  <2>2. CASE x = i
    BY <1>1, <2>2
  <2>3. CASE x \in DOMAIN issues /\ x # i
    <3>1. issues'[x].is_active <=> issues[x].is_active
      BY <1>1, <2>3
    <3>2. \A d \in DOMAIN claims : claims'[d].issue = x =>
             (claims'[d].state = "approved" <=> claims[d].state = "approved")
      BY <1>1, <2>3
    <3>3. ~issues[x].is_active <=>
             \E d \in DOMAIN claims : claims[d].issue = x /\ claims[d].state = "approved"
      BY <2>3 DEF ClaimsMatchIssues
    <3> QED
      BY <1>1, <3>1, <3>2, <3>3
  <2> QED
    BY <1>1, <2>1, <2>2, <2>3
<1> QED
  BY <1>4, <1>5, <1>6 DEF ClaimsMatchIssues

LEMMA NextClaimsMatchIssues ==
    ASSUME TypeOK, RowsIntact, ClaimsMatchIssues, [Next]_vars
    PROVE  ClaimsMatchIssues'
<1>1. CASE Register \/ Delete \/ Renew \/ Sweep \/ Remind \/ Tick \/ UNCHANGED vars
  <2>1. issues' = issues /\ claims' = claims
    BY <1>1, UnitsOnly
  <2> QED
    BY <2>1 DEF ClaimsMatchIssues
<1>2. CASE Issue
  BY <1>2, IssueClaimsMatch DEF Issue
<1>3. CASE Open
  BY <1>3, OpenClaimsMatch DEF Open
<1>4. CASE Approve
  BY <1>4, ApproveClaimsMatch DEF Approve, ApproveStep
<1>5. CASE Reject
  BY <1>5, RejectClaimsMatch DEF Reject
<1> QED
  BY <1>1, <1>2, <1>3, <1>4, <1>5 DEF Next

-----------------------------------------------------------------------------
\* The replacement of a claim.

\* Issues keep their unit, client and warranty and claims their columns, but
\* for claims that are neither approved nor have a replacement.
LEMMA ReplacementKept ==
    ASSUME OneReplacementPerClaim, DOMAIN issues \subseteq DOMAIN issues',
           \A x \in DOMAIN issues : /\ issues'[x].unit = issues[x].unit
                                    /\ issues'[x].client = issues[x].client
                                    /\ issues'[x].warranty_days = issues[x].warranty_days,
           \A d \in DOMAIN claims : claims[d].issue \in DOMAIN issues,
           DOMAIN claims \subseteq DOMAIN claims',
           \A d \in DOMAIN claims :
              /\ claims'[d].issue = claims[d].issue
              /\ claims'[d].replacement_unit = claims[d].replacement_unit
              /\ claims'[d].state = "approved" <=> claims[d].state = "approved",
           \A d \in DOMAIN claims' \ DOMAIN claims :
              claims'[d].state # "approved" /\ claims'[d].replacement_unit = NoUnit
    PROVE  OneReplacementPerClaim'
<1>1. \A d \in DOMAIN claims' :
         claims'[d].state = "approved" <=> claims'[d].replacement_unit # NoUnit
  BY DEF OneReplacementPerClaim
<1>2. \A d, e \in DOMAIN claims' :
         claims'[d].replacement_unit = claims'[e].replacement_unit /\ d # e
            => claims'[d].replacement_unit = NoUnit
  BY DEF OneReplacementPerClaim
<1>3. ASSUME NEW d \in DOMAIN claims', claims'[d].state = "approved"
      PROVE  \E k \in DOMAIN issues' :
                /\ issues'[k].unit = claims'[d].replacement_unit
                /\ k # claims'[d].issue
                /\ issues'[k].client = issues'[claims'[d].issue].client
                /\ issues'[k].warranty_days = issues'[claims'[d].issue].warranty_days
  <2>1. d \in DOMAIN claims /\ claims[d].state = "approved"
    BY <1>3
  <2>2. PICK k \in DOMAIN issues :
           /\ issues[k].unit = claims[d].replacement_unit
           /\ k # claims[d].issue
           /\ issues[k].client = issues[claims[d].issue].client
           /\ issues[k].warranty_days = issues[claims[d].issue].warranty_days
    BY <2>1 DEF OneReplacementPerClaim, IssuesOf
  <2> QED
    BY <2>1, <2>2
<1> QED
  BY <1>1, <1>2, <1>3 DEF OneReplacementPerClaim, IssuesOf

\* The replacement was in stock, so it had no issue and replaced no other unit.
LEMMA ApproveReplacement ==
    ASSUME TypeOK, RowsIntact, StateStory, OneReplacementPerClaim, NEW c \in DOMAIN claims,
           NEW r \in DOMAIN units, NEW j \in IssueIds, NEW t \in ClockReadings,
           ApproveStep(c, r, j, t)
    PROVE  OneReplacementPerClaim'
<1>1. ApproveColumns(c, r, j)
  BY ApproveRows
<1>2. r # NoUnit
  BY NullAssumption DEF TypeOK
<1>3. \A x \in DOMAIN issues : issues[x].unit # r
  BY <1>1 DEF ApproveColumns, StateStory
<1>4. \A d \in DOMAIN claims : claims[d].replacement_unit # r
  BY <1>2, <1>3 DEF OneReplacementPerClaim, IssuesOf
<1>5. \A d \in DOMAIN claims' :
         claims'[d].state = "approved" <=> claims'[d].replacement_unit # NoUnit
  BY <1>1, <1>2 DEF ApproveColumns, OneReplacementPerClaim
<1>6. \A d, e \in DOMAIN claims' :
         claims'[d].replacement_unit = claims'[e].replacement_unit /\ d # e
            => claims'[d].replacement_unit = NoUnit
  BY <1>1, <1>4 DEF ApproveColumns, OneReplacementPerClaim
<1>7. ASSUME NEW d \in DOMAIN claims', claims'[d].state = "approved"
      PROVE  \E k \in DOMAIN issues' :
                /\ issues'[k].unit = claims'[d].replacement_unit
                /\ k # claims'[d].issue
                /\ issues'[k].client = issues'[claims'[d].issue].client
                /\ issues'[k].warranty_days = issues'[claims'[d].issue].warranty_days
  <2>1. CASE d = c
    BY <1>1, <2>1 DEF ApproveColumns
  <2>2. CASE d # c
    <3>1. d \in DOMAIN claims /\ claims[d].state = "approved" /\ claims[d].issue \in DOMAIN issues
      BY <1>1, <1>7, <2>2 DEF ApproveColumns, RowsIntact
    <3>2. PICK k \in DOMAIN issues :
             /\ issues[k].unit = claims[d].replacement_unit
             /\ k # claims[d].issue
             /\ issues[k].client = issues[claims[d].issue].client
             /\ issues[k].warranty_days = issues[claims[d].issue].warranty_days
      BY <3>1 DEF OneReplacementPerClaim, IssuesOf
    <3> QED
      BY <1>1, <2>2, <3>1, <3>2 DEF ApproveColumns
  <2> QED
    BY <2>1, <2>2
<1> QED
  BY <1>5, <1>6, <1>7 DEF OneReplacementPerClaim, IssuesOf

LEMMA NextOneReplacement ==
    ASSUME TypeOK, RowsIntact, StateStory, OneReplacementPerClaim, [Next]_vars
    PROVE  OneReplacementPerClaim'
<1>1. \A d \in DOMAIN claims : claims[d].issue \in DOMAIN issues
  BY DEF RowsIntact
<1>2. CASE Register \/ Delete \/ Renew \/ Sweep \/ Remind \/ Tick \/ UNCHANGED vars
  <2>1. issues' = issues /\ claims' = claims
    BY <1>2, UnitsOnly
  <2> QED
    BY <1>1, <2>1, ReplacementKept
<1>3. CASE Issue
  <2>1. PICK u \in DOMAIN units, c \in Clients, i \in IssueIds, w \in WarrantyDays,
             t \in ClockReadings : IssueUnit(u, units[u], c, i, w, t)
    BY <1>3 DEF Issue
  <2>2. /\ DOMAIN issues' = DOMAIN issues \cup {i} /\ claims' = claims
        /\ \A x \in DOMAIN issues : issues'[x] = issues[x]
    BY <2>1, IssueEffect
  <2> QED
    BY <1>1, <2>2, ReplacementKept
<1>4. CASE Open
  <2>1. PICK i \in DOMAIN issues, c \in ClaimIds, t \in ClockReadings :
             OpenClaim(i, issues[i], c, t)
    BY <1>4 DEF Open
  <2>2. /\ DOMAIN claims' = DOMAIN claims \cup {c} /\ issues' = issues
        /\ claims'[c].state = "open" /\ claims'[c].replacement_unit = NoUnit
        /\ \A d \in DOMAIN claims : claims'[d] = claims[d]
    BY <2>1, OpenEffect
  <2> QED
    BY <1>1, <2>2, ReplacementKept
<1>5. CASE Approve
  BY <1>5, ApproveReplacement DEF Approve, ApproveStep
<1>6. CASE Reject
  <2>1. PICK c \in DOMAIN claims : RejectClaim(c, claims[c], issues[claims[c].issue])
    BY <1>6 DEF Reject
  <2>2. /\ claims[c].state = "open" /\ DOMAIN claims' = DOMAIN claims /\ issues' = issues
        /\ \A d \in DOMAIN claims :
              /\ claims'[d].state = IF d = c THEN "rejected" ELSE claims[d].state
              /\ claims'[d].issue = claims[d].issue
              /\ claims'[d].replacement_unit = claims[d].replacement_unit
    BY <2>1, RejectEffect
  <2> QED
    BY <1>1, <2>2, ReplacementKept
<1> QED
  BY <1>2, <1>3, <1>4, <1>5, <1>6 DEF Next

-----------------------------------------------------------------------------
LEMMA InitIInv == Init => IInv
<1>1. Init => StateMatchesIssues
  BY DEF Init, StateMatchesIssues
<1>2. Init => ClaimsMatchIssues
  BY DEF Init, ClaimsMatchIssues
<1>3. Init => OneReplacementPerClaim
  BY DEF Init, OneReplacementPerClaim
<1> QED
  BY <1>1, <1>2, <1>3, InitTypeOK, InitRowsIntact DEF IInv, Consistent

LEMMA NextIInv == IInv /\ [Next]_vars => IInv'
<1> SUFFICES ASSUME IInv, [Next]_vars PROVE IInv'
  OBVIOUS
<1>1. TypeOK /\ RowsIntact /\ ClaimsMatchIssues /\ OneReplacementPerClaim /\ StateStory
  BY StateStoryThen DEF IInv, Consistent
<1>2. TypeOK' /\ RowsIntact'
  BY <1>1, NextTypeOK, NextRowsIntact
<1>3. StateMatchesIssues'
  BY NextStateMatchesIssues
<1>4. ClaimsMatchIssues'
  BY <1>1, NextClaimsMatchIssues
<1>5. OneReplacementPerClaim'
  BY <1>1, NextOneReplacement
<1> QED
  BY <1>2, <1>3, <1>4, <1>5 DEF IInv, Consistent

\* IInv is inductive.
THEOREM Invariance == Spec => []IInv
BY InitIInv, NextIInv, PTL DEF Spec

\* A unit in stock was never issued, a revoked one was taken back, and no unit
\* is issued twice: issue_unit, approve_claim, renew_unit and sweep_expired
\* keep Unit.state and the issues together.
THEOREM UnitsConsistent == Spec => []StateMatchesIssues
<1>1. IInv => StateMatchesIssues
  BY DEF IInv, Consistent
<1> QED
  BY <1>1, Invariance, PTL

\* At most one claim of an issue is open or approved, an open one means an
\* active issue, and approving is what closes an issue.
THEOREM ClaimsConsistent == Spec => []ClaimsMatchIssues
<1>1. IInv => ClaimsMatchIssues
  BY DEF IInv, Consistent
<1> QED
  BY <1>1, Invariance, PTL

\* An approved claim handed out one unit, to the client who claimed, and no
\* unit replaces two.
THEOREM ReplacementsConsistent == Spec => []OneReplacementPerClaim
<1>1. IInv => OneReplacementPerClaim
  BY DEF IInv, Consistent
<1> QED
  BY <1>1, Invariance, PTL

=============================================================================
