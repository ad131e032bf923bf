------------------------------ MODULE TxProofs ------------------------------
(***************************************************************************)
(* Proof that the transactions of InventoryTx are serializable, for any    *)
(* number of sessions: what a transaction has locked and read stays true,  *)
(* so that each commit is one operation of Inventory.  Everything proved   *)
(* of Inventory then holds of the tables that concurrent sessions leave.   *)
(***************************************************************************)
EXTENDS InventoryTx, AuditProofs

-----------------------------------------------------------------------------
\* Rows and keys.

LEMMA KeyFacts ==
    ASSUME NEW u, NEW i, NEW c
    PROVE  /\ UnitKey(u) # IssueKey(i) /\ UnitKey(u) # ClaimKey(c) /\ IssueKey(i) # ClaimKey(c)
           /\ \A v : UnitKey(u) = UnitKey(v) => u = v
           /\ \A j : IssueKey(i) = IssueKey(j) => i = j
           /\ \A d : ClaimKey(c) = ClaimKey(d) => c = d
<1>1. /\ UnitKey(u).table = "unit" /\ UnitKey(u).pk = u
      /\ IssueKey(i).table = "issue" /\ IssueKey(i).pk = i
      /\ ClaimKey(c).table = "claim" /\ ClaimKey(c).pk = c
  BY DEF UnitKey, IssueKey, ClaimKey
<1>2. \A v : UnitKey(v).pk = v
  BY DEF UnitKey
<1>3. \A j : IssueKey(j).pk = j
  BY DEF IssueKey
<1>4. \A d : ClaimKey(d).pk = d
  BY DEF ClaimKey
<1> QED
  BY <1>1, <1>2, <1>3, <1>4

LEMMA UnitRows ==
    ASSUME NEW u
    PROVE  (RowExists(UnitKey(u)) <=> u \in DOMAIN units) /\ RowAt(UnitKey(u)) = units[u]
BY DEF RowExists, RowAt, UnitKey

LEMMA IssueRows ==
    ASSUME NEW i
    PROVE  (RowExists(IssueKey(i)) <=> i \in DOMAIN issues) /\ RowAt(IssueKey(i)) = issues[i]
BY DEF RowExists, RowAt, IssueKey

LEMMA ClaimRows ==
    ASSUME NEW c
    PROVE  (RowExists(ClaimKey(c)) <=> c \in DOMAIN claims) /\ RowAt(ClaimKey(c)) = claims[c]
BY DEF RowExists, RowAt, ClaimKey

-----------------------------------------------------------------------------
\* What holds of an open transaction.

\* The row is read, or a statement of the transaction will read it.
Covered(t, k) == k \in DOMAIN t.seen \/ \E n \in DOMAIN t.todo : k \in t.todo[n]

\* The call is well-formed, and what it will decide on is covered.
Planned(t) ==
    /\ t.call.op \in {"issue", "renew"} => Covered(t, UnitKey(t.call.unit))
    /\ t.call.op = "open" => /\ t.call.issue \in DOMAIN issues
                             /\ Covered(t, IssueKey(t.call.issue))
    /\ t.call.op \in {"approve", "reject"} =>
          /\ t.call.claim \in DOMAIN claims
          /\ Covered(t, ClaimKey(t.call.claim))
          /\ Covered(t, IssueKey(claims[t.call.claim].issue))
    /\ t.call.op = "approve" =>
          /\ Covered(t, UnitKey(issues[claims[t.call.claim].issue].unit))
          /\ Covered(t, UnitKey(t.call.unit))
    /\ t.call.op \in {"sweep", "edit"} => t.todo = <<>>

Typed(t) ==
    /\ t.call \in Calls
    /\ t.todo \in Seq((SUBSET Keys) \ {{}})
    /\ t.locks \subseteq DOMAIN t.seen /\ DOMAIN t.seen \subseteq Keys
    /\ t.clock \in 0..now \cup {NoDate} /\ t.clear \in BOOLEAN
    /\ t.call.op \in {"sweep", "mark"} => t.clock \in 0..now

\* Whatever is read for a decision is locked and as it was read.
Current(t) ==
    t.call.op # "edit" =>
       \A k \in DOMAIN t.seen : k \in t.locks /\ RowExists(k) /\ t.seen[k] = RowAt(k)

\* The query for open claims was made under the lock of the issue.
Clear(t) ==
    t.clear => /\ t.call.op = "open" /\ t.todo = <<>>
               /\ NoOpenClaim(t.call.issue)

Good(t) == Typed(t) /\ Planned(t) /\ Current(t) /\ Clear(t)

\* No row is locked by two.
LocksApart ==
    \A s, o \in Sessions :
       s # o /\ tx[s] # Idle /\ tx[o] # Idle => tx[s].locks \cap tx[o].locks = {}

UnitsTabled == units = [u \in DOMAIN units |-> units[u]]

TxInv ==
    /\ TypeOK /\ RowsIntact /\ UnitsTabled
    /\ tx = [s \in Sessions |-> tx[s]]
    /\ \A s \in Sessions : \A t : t = tx[s] /\ t # Idle => Good(t)
    /\ LocksApart

LEMMA CallFields ==
    ASSUME NEW q \in Calls
    PROVE  /\ q.op \in {"issue", "renew", "open", "approve", "reject", "edit", "sweep", "mark"}
           /\ q.op \in {"issue", "renew", "approve", "edit"} => q.unit \in Units
           /\ q.op = "issue" => q.client \in Clients /\ q.days \in WarrantyDays
           /\ q.op = "renew" => q.days \in Periods
           /\ q.op = "open" => q.issue \in IssueIds
           /\ q.op \in {"approve", "reject"} => q.claim \in ClaimIds
BY DEF Calls

-----------------------------------------------------------------------------
\* A transaction that has read all it wanted.

LEMMA ReadyRow ==
    ASSUME NEW t, Good(t), t.todo = <<>>, t.call.op # "edit", NEW k, Covered(t, k)
    PROVE  k \in t.locks /\ RowExists(k) /\ t.seen[k] = RowAt(k)
BY DEF Good, Current, Covered

LEMMA ReadyUnit ==
    ASSUME NEW t, Good(t), t.todo = <<>>, t.call.op # "edit", NEW u, Covered(t, UnitKey(u))
    PROVE  UnitKey(u) \in t.locks /\ u \in DOMAIN units /\ t.seen[UnitKey(u)] = units[u]
BY ReadyRow, UnitRows

LEMMA ReadyIssue ==
    ASSUME NEW t, Good(t), t.todo = <<>>, t.call.op # "edit", NEW i, Covered(t, IssueKey(i))
    PROVE  IssueKey(i) \in t.locks /\ i \in DOMAIN issues /\ t.seen[IssueKey(i)] = issues[i]
BY ReadyRow, IssueRows

LEMMA ReadyClaim ==
    ASSUME NEW t, Good(t), t.todo = <<>>, t.call.op # "edit", NEW c, Covered(t, ClaimKey(c))
    PROVE  ClaimKey(c) \in t.locks /\ c \in DOMAIN claims /\ t.seen[ClaimKey(c)] = claims[c]
BY ReadyRow, ClaimRows

\* LagAssumption: no reading is too old.
LEMMA ReadingsAllowed == ASSUME TypeOK, NEW t \in 0..now PROVE t \in ClockReadings
<1>1. now \in 0..Horizon /\ Horizon \in Nat /\ Lag \in Nat
  BY DatesAssumption DEF TypeOK
<1> QED
  BY <1>1, LagAssumption DEF ClockReadings

-----------------------------------------------------------------------------
\* Every commit is an operation of Inventory on the present rows, and writes
\* only rows that the transaction has locked.

\* A step changes or deletes no row but those in locks.
WritesOnly(locks) ==
    /\ \A u \in DOMAIN units : UnitKey(u) \notin locks => u \in DOMAIN units' /\ units'[u] = units[u]
    /\ \A i \in DOMAIN issues : IssueKey(i) \notin locks => i \in DOMAIN issues' /\ issues'[i] = issues[i]
    /\ \A c \in DOMAIN claims : ClaimKey(c) \notin locks => c \in DOMAIN claims' /\ claims'[c] = claims[c]

\* A step opens no claim on an issue but those in locks.
ClaimsOnly(locks) == \A i : NoOpenClaim(i) /\ IssueKey(i) \notin locks => NoOpenClaim(i)'

LEMMA OpenSession ==
    ASSUME TxInv, NEW s \in Sessions, NEW t, t = tx[s], NEW op, Ready(s, op), op # "edit"
    PROVE  /\ Good(t) /\ t.call.op = op /\ t.todo = <<>> /\ t.call.op # "edit"
           /\ op \in {"issue", "renew", "open", "approve"} => t.clock \in ClockReadings
           /\ t.call \in Calls
<1>1. Good(t) /\ t.call.op = op /\ t.todo = <<>> /\ TypeOK
  BY DEF TxInv, Ready
<1>2. op \in {"issue", "renew", "open", "approve"} => t.clock \in 0..now
  BY <1>1 DEF Good, Typed, Ready
<1> QED
  BY <1>1, <1>2, ReadingsAllowed DEF Good, Typed

LEMMA IssueSerial ==
    ASSUME TxInv, NEW s \in Sessions, NEW t, t = tx[s], NEW i \in IssueIds, CommitIssue(s, i)
    PROVE  Issue /\ WritesOnly(t.locks) /\ ClaimsOnly(t.locks)
<1> DEFINE q == t.call
<1>1. /\ Good(t) /\ q.op = "issue" /\ t.todo = <<>> /\ t.clock \in ClockReadings /\ q \in Calls
  BY OpenSession DEF CommitIssue
<1>2. /\ UnitKey(q.unit) \in t.locks /\ q.unit \in DOMAIN units
      /\ t.seen[UnitKey(q.unit)] = units[q.unit]
  BY <1>1, ReadyUnit DEF Good, Planned
<1>3. q.client \in Clients /\ q.days \in WarrantyDays
  BY <1>1, CallFields
<1>4. IssueUnit(q.unit, units[q.unit], q.client, i, q.days, t.clock)
  BY <1>2 DEF CommitIssue, Seen
<1>5. Issue
  BY <1>1, <1>2, <1>3, <1>4 DEF Issue
<1>6. WritesOnly(t.locks) /\ ClaimsOnly(t.locks)
  BY <1>2, <1>4 DEF IssueUnit, Insert, WritesOnly, ClaimsOnly, NoOpenClaim
<1> QED
  BY <1>5, <1>6

LEMMA RenewSerial ==
    ASSUME TxInv, NEW s \in Sessions, NEW t, t = tx[s], CommitRenew(s)
    PROVE  Renew /\ WritesOnly(t.locks) /\ ClaimsOnly(t.locks)
<1> DEFINE q == t.call
<1>1. /\ Good(t) /\ q.op = "renew" /\ t.todo = <<>> /\ t.clock \in ClockReadings /\ q \in Calls
  BY OpenSession DEF CommitRenew
<1>2. /\ UnitKey(q.unit) \in t.locks /\ q.unit \in DOMAIN units
      /\ t.seen[UnitKey(q.unit)] = units[q.unit]
  BY <1>1, ReadyUnit DEF Good, Planned
<1>3. q.days \in Periods
  BY <1>1, CallFields
<1>4. RenewUnit(q.unit, units[q.unit], q.days, t.clock)
  BY <1>2 DEF CommitRenew, Seen
<1>5. Renew
  BY <1>1, <1>2, <1>3, <1>4 DEF Renew
<1>6. WritesOnly(t.locks) /\ ClaimsOnly(t.locks)
  BY <1>2, <1>4 DEF RenewUnit, WritesOnly, ClaimsOnly, NoOpenClaim
<1> QED
  BY <1>5, <1>6

LEMMA OpenSerial ==
    ASSUME TxInv, NEW s \in Sessions, NEW t, t = tx[s], NEW c \in ClaimIds, CommitOpen(s, c)
    PROVE  Open /\ WritesOnly(t.locks) /\ ClaimsOnly(t.locks)
<1> DEFINE i == t.call.issue
<1>1. /\ Good(t) /\ t.call.op = "open" /\ t.todo = <<>> /\ t.clock \in ClockReadings
  BY OpenSession DEF CommitOpen
<1>2. IssueKey(i) \in t.locks /\ i \in DOMAIN issues /\ t.seen[IssueKey(i)] = issues[i]
  BY <1>1, ReadyIssue DEF Good, Planned
<1>3. OpenClaim(i, issues[i], c, t.clock)
  BY <1>2 DEF CommitOpen, Seen
<1>4. Open
  BY <1>1, <1>2, <1>3 DEF Open
<1>5. /\ units' = units /\ issues' = issues /\ DOMAIN claims' = DOMAIN claims \cup {c}
      /\ \A d \in DOMAIN claims : claims'[d] = claims[d]
      /\ claims'[c].issue = i
  BY <1>3 DEF OpenClaim, Insert
<1>6. WritesOnly(t.locks) /\ ClaimsOnly(t.locks)
  BY <1>2, <1>5 DEF WritesOnly, ClaimsOnly, NoOpenClaim
<1> QED
  BY <1>4, <1>6

LEMMA ApproveSerial ==
    ASSUME TxInv, NEW s \in Sessions, NEW t, t = tx[s], NEW j \in IssueIds, CommitApprove(s, j)
    PROVE  Approve /\ WritesOnly(t.locks) /\ ClaimsOnly(t.locks)
<1> DEFINE c == t.call.claim
           i == claims[c].issue
           u == issues[i].unit
           r == t.call.unit
<1>1. /\ Good(t) /\ t.call.op = "approve" /\ t.todo = <<>> /\ t.clock \in ClockReadings
      /\ TypeOK /\ RowsIntact
  BY OpenSession DEF CommitApprove, TxInv
<1>2. ClaimKey(c) \in t.locks /\ c \in DOMAIN claims /\ t.seen[ClaimKey(c)] = claims[c]
  BY <1>1, ReadyClaim DEF Good, Planned
<1>3. IssueKey(i) \in t.locks /\ i \in DOMAIN issues /\ t.seen[IssueKey(i)] = issues[i]
  BY <1>1, ReadyIssue DEF Good, Planned
<1>4. UnitKey(u) \in t.locks /\ u \in DOMAIN units /\ t.seen[UnitKey(u)] = units[u]
  BY <1>1, ReadyUnit DEF Good, Planned
<1>5. UnitKey(r) \in t.locks /\ r \in DOMAIN units /\ t.seen[UnitKey(r)] = units[r]
  BY <1>1, ReadyUnit DEF Good, Planned
<1>6. ApproveStep(c, r, j, t.clock)
  BY <1>2, <1>3, <1>4, <1>5 DEF CommitApprove, Seen, ApproveStep
<1>7. Approve
  BY <1>1, <1>2, <1>5, <1>6 DEF Approve, ApproveStep
<1>8. ApproveChanges(c, r, j, t.clock)
  BY <1>1, <1>2, <1>5, <1>6, ApproveEffect
<1>9. WritesOnly(t.locks)
  BY <1>2, <1>3, <1>4, <1>5, <1>8 DEF WritesOnly, ApproveChanges
<1>10. /\ DOMAIN claims' = DOMAIN claims
       /\ \A d \in DOMAIN claims : d # c => claims'[d] = claims[d]
       /\ claims'[c].state = "approved"
  BY <1>1, <1>2, <1>8 DEF ApproveChanges, TypeOK, ClaimRow
<1>11. ClaimsOnly(t.locks)
  BY <1>10 DEF ClaimsOnly, NoOpenClaim
<1> QED
  BY <1>7, <1>9, <1>11

LEMMA RejectSerial ==
    ASSUME TxInv, NEW s \in Sessions, NEW t, t = tx[s], CommitReject(s)
    PROVE  Reject /\ WritesOnly(t.locks) /\ ClaimsOnly(t.locks)
<1> DEFINE c == t.call.claim
           i == claims[c].issue
<1>1. Good(t) /\ t.call.op = "reject" /\ t.todo = <<>> /\ TypeOK
  BY OpenSession DEF CommitReject, TxInv
<1>2. ClaimKey(c) \in t.locks /\ c \in DOMAIN claims /\ t.seen[ClaimKey(c)] = claims[c]
  BY <1>1, ReadyClaim DEF Good, Planned
<1>3. t.seen[IssueKey(i)] = issues[i]
  BY <1>1, ReadyIssue DEF Good, Planned
<1>4. RejectClaim(c, claims[c], issues[i])
  BY <1>2, <1>3 DEF CommitReject, Seen
<1>5. Reject
  BY <1>2, <1>4 DEF Reject
<1>6. /\ units' = units /\ issues' = issues /\ DOMAIN claims' = DOMAIN claims
      /\ \A d \in DOMAIN claims : d # c => claims'[d] = claims[d]
      /\ claims'[c].state = "rejected"
  BY <1>1, <1>2, <1>4 DEF RejectClaim, TypeOK, ClaimRow
<1>7. WritesOnly(t.locks) /\ ClaimsOnly(t.locks)
  BY <1>2, <1>6 DEF WritesOnly, ClaimsOnly, NoOpenClaim
<1> QED
  BY <1>5, <1>7

LEMMA SweepSerial ==
    ASSUME TxInv, NEW s \in Sessions, NEW t, t = tx[s], CommitSweep(s)
    PROVE  Sweep /\ WritesOnly(t.locks) /\ ClaimsOnly(t.locks)
<1>1. Good(t) /\ t.call.op = "mark" /\ t.todo = <<>> /\ TypeOK
  BY OpenSession DEF CommitSweep, TxInv
<1>2. t.clock \in ClockReadings
  BY <1>1, ReadingsAllowed DEF Good, Typed
<1>3. ASSUME NEW u \in Returned(s)
      PROVE  UnitKey(u) \in t.locks /\ u \in DOMAIN units /\ IsStale(units[u], t.clock)
  BY <1>1, UnitRows DEF Returned, Seen, Good, Current
<1>4. SweepExpired(Returned(s))
  BY DEF CommitSweep
<1>5. Sweep
  BY <1>2, <1>3, <1>4 DEF Sweep
<1>6. WritesOnly(t.locks) /\ ClaimsOnly(t.locks)
  BY <1>3, <1>4 DEF SweepExpired, MarkExpired, WritesOnly, ClaimsOnly, NoOpenClaim
<1> QED
  BY <1>5, <1>6

\* An edit writes no column of the model.
LEMMA EditSerial ==
    ASSUME TxInv, NEW s \in Sessions, CommitEdit(s)
    PROVE  UNCHANGED vars
<1>1. units = [u \in DOMAIN units |-> units[u]]
  BY DEF TxInv, UnitsTabled
<1> QED
  BY <1>1 DEF CommitEdit, EditedRow, vars

-----------------------------------------------------------------------------
\* What every step of Inventory leaves to the transactions that are open.

LEMMA NextTabled == ASSUME UnitsTabled, [Next]_vars PROVE UnitsTabled'
<1>1. CASE Register \/ Delete \/ Sweep
  BY <1>1 DEF UnitsTabled, Register, RegisterUnit, Insert, Delete, DeleteUnit, Sweep, SweepExpired,
              MarkExpired
<1>2. CASE Issue
  BY <1>2 DEF UnitsTabled, Issue, IssueUnit
<1>3. CASE Renew
  BY <1>3 DEF UnitsTabled, Renew, RenewUnit
<1>4. CASE Approve
  <2>1. \E u, r : units' = [units EXCEPT ![u].state = "revoked", ![r].state = "issued"]
    BY <1>4 DEF Approve, ApproveClaim
  <2> QED
    BY <2>1 DEF UnitsTabled
<1>5. CASE Open \/ Reject \/ Remind \/ Tick \/ UNCHANGED vars
  BY <1>5, RemindEffect DEF UnitsTabled, Open, OpenClaim, Reject, RejectClaim, Tick, tables, vars
<1> QED
  BY <1>1, <1>2, <1>3, <1>4, <1>5 DEF Next

\* A claim never moves to another issue.
LEMMA ClaimsStay ==
    ASSUME TypeOK, RowsIntact, [Next]_vars, NEW c \in DOMAIN claims
    PROVE  c \in DOMAIN claims' /\ claims'[c].issue = claims[c].issue
<1>1. c \in DOMAIN claims' /\ claims[c] \in ClaimRow
  BY DecisionsStay DEF TypeOK
<1>2. CASE Register \/ Delete \/ Renew \/ Sweep \/ Remind \/ Tick \/ UNCHANGED vars
  BY <1>2, UnitsOnly, RemindEffect
<1>3. CASE Issue
  BY <1>3 DEF Issue, IssueUnit
<1>4. CASE Open
  BY <1>4 DEF Open, OpenClaim, Insert
<1>5. CASE Approve
  <2>1. PICK d \in DOMAIN claims, r \in DOMAIN units, j \in IssueIds, t \in ClockReadings :
             ApproveStep(d, r, j, t)
    BY <1>5 DEF Approve, ApproveStep
  <2>2. ApproveChanges(d, r, j, t)
    BY <2>1, ApproveEffect
  <2>3. claims'[c] \in {claims[c], [claims[c] EXCEPT !.state = "approved", !.replacement_unit = r]}
    BY <2>2 DEF ApproveChanges
  <2> QED
    BY <1>1, <2>3 DEF ClaimRow
<1>6. CASE Reject
  <2>1. claims'[c] \in {claims[c], [claims[c] EXCEPT !.state = "rejected"]}
    BY <1>6 DEF Reject, RejectClaim
  <2> QED
    BY <1>1, <2>1 DEF ClaimRow
<1> QED
  BY <1>2, <1>3, <1>4, <1>5, <1>6 DEF Next

LEMMA IssueUnitsStay ==
    ASSUME TypeOK, RowsIntact, [Next]_vars, NEW i \in DOMAIN issues
    PROVE  i \in DOMAIN issues' /\ issues'[i].unit = issues[i].unit
<1>1. issues[i] \in IssueRow
  BY DEF TypeOK
<1> QED
  BY <1>1, IssuesStay DEF IssueRow

LEMMA ClockForward == ASSUME TypeOK, [Next]_vars PROVE 0..now \subseteq 0..now'
<1>1. now' = now \/ now' = now + 1
  BY RemindEffect DEF Next, Register, RegisterUnit, Delete, DeleteUnit, Issue, IssueUnit, Renew, RenewUnit,
         Open, OpenClaim, Approve, ApproveClaim, Reject, RejectClaim, Sweep, SweepExpired, Tick,
         tables, vars
<1> QED
  BY <1>1, DatesAssumption DEF TypeOK

LEMMA PlanStays ==
    ASSUME TypeOK, RowsIntact, [Next]_vars, NEW t, Planned(t)
    PROVE  Planned(t)'
<1>1. \A k : Covered(t, k)' <=> Covered(t, k)
  BY DEF Covered
<1>2. CASE t.call.op = "open"
  BY <1>1, <1>2, IssueUnitsStay DEF Planned
<1>3. CASE t.call.op \in {"approve", "reject"}
  <2> DEFINE c == t.call.claim
             i == claims[c].issue
  <2>1. c \in DOMAIN claims /\ i \in DOMAIN issues
    BY <1>3 DEF Planned, RowsIntact
  <2>2. c \in DOMAIN claims' /\ claims'[c].issue = i
    BY <2>1, ClaimsStay
  <2>3. issues'[i].unit = issues[i].unit
    BY <2>1, IssueUnitsStay
  <2> QED
    BY <1>1, <1>3, <2>2, <2>3 DEF Planned
<1>4. CASE t.call.op \notin {"open", "approve", "reject"}
  BY <1>1, <1>4 DEF Planned
<1> QED
  BY <1>2, <1>3, <1>4

\* An open transaction stays good if nobody else writes what it has locked.
LEMMA GoodStays ==
    ASSUME TypeOK, RowsIntact, [Next]_vars, NEW t, Good(t),
           NEW locks, WritesOnly(locks), ClaimsOnly(locks), t.locks \cap locks = {}
    PROVE  Good(t)'
<1>1. Typed(t)'
  BY ClockForward DEF Good, Typed
<1>2. Planned(t)'
  BY PlanStays DEF Good
<1>3. ASSUME NEW k \in DOMAIN t.seen, t.call.op # "edit"
      PROVE  k \in t.locks /\ RowExists(k)' /\ t.seen[k] = RowAt(k)'
  <2>1. k \in Keys /\ k \in t.locks /\ RowExists(k) /\ t.seen[k] = RowAt(k) /\ k \notin locks
    BY <1>3 DEF Good, Typed, Current
  <2>2. CASE \E u \in Units : k = UnitKey(u)
    BY <2>1, <2>2 DEF WritesOnly, RowExists, RowAt, UnitKey
  <2>3. CASE \E i \in IssueIds : k = IssueKey(i)
    BY <2>1, <2>3 DEF WritesOnly, RowExists, RowAt, IssueKey
  <2>4. CASE \E c \in ClaimIds : k = ClaimKey(c)
    BY <2>1, <2>4 DEF WritesOnly, RowExists, RowAt, ClaimKey
  <2> QED
    BY <2>1, <2>2, <2>3, <2>4 DEF Keys
<1>4. Clear(t)'
  <2>1. SUFFICES ASSUME t.clear PROVE t.call.op = "open" /\ t.todo = <<>> /\ NoOpenClaim(t.call.issue)'
    BY DEF Clear
  <2>2. t.call.op = "open" /\ t.todo = <<>> /\ NoOpenClaim(t.call.issue)
    BY <2>1 DEF Good, Clear
  <2>3. IssueKey(t.call.issue) \in t.locks
    BY <2>2, ReadyIssue DEF Good, Planned
  <2> QED
    BY <2>2, <2>3 DEF ClaimsOnly
<1> QED
  BY <1>1, <1>2, <1>3, <1>4 DEF Good, Current

-----------------------------------------------------------------------------
\* The steps of one session on its own.

LEMMA WritesNothing == ASSUME UNCHANGED vars PROVE WritesOnly({}) /\ ClaimsOnly({})
BY DEF vars, tables, WritesOnly, ClaimsOnly, NoOpenClaim

\* Session s goes on with transaction v; the tables stay.
LEMMA OwnStepKeeps ==
    ASSUME TxInv, NEW s \in Sessions, UNCHANGED vars, NEW v, Good(v),
           tx' = [tx EXCEPT ![s] = v],
           \A o \in Sessions \ {s} : tx[o] # Idle => v.locks \cap tx[o].locks = {}
    PROVE  TxInv'
<1>1. TypeOK /\ RowsIntact /\ UnitsTabled /\ tx = [o \in Sessions |-> tx[o]]
  BY DEF TxInv
<1>2. TypeOK' /\ RowsIntact' /\ UnitsTabled'
  BY <1>1, NextTypeOK, NextRowsIntact, NextTabled
<1>3. /\ tx' = [o \in Sessions |-> tx'[o]]
      /\ tx'[s] = v /\ \A o \in Sessions \ {s} : tx'[o] = tx[o]
  BY <1>1
<1>4. ASSUME NEW o \in Sessions, NEW t, t = tx'[o], t # Idle
      PROVE  Good(t)'
  <2>1. Good(t)
    BY <1>3, <1>4 DEF TxInv
  <2> QED
    BY <1>1, <2>1, WritesNothing, GoodStays
<1>5. LocksApart'
  BY <1>3 DEF TxInv, LocksApart
<1> QED
  BY <1>2, <1>3, <1>4, <1>5 DEF TxInv

LEMMA StartKeeps ==
    ASSUME TxInv, NEW s \in Sessions, NEW call \in Calls,
           NEW plan \in Seq((SUBSET Keys) \ {{}}), NEW t \in 0..now \cup {NoDate},
           call.op \in {"sweep", "mark"} => t \in 0..now,
           Planned(Transaction(call, plan, {}, <<>>, t, FALSE)), Start(s, call, plan, t)
    PROVE  TxInv'
<1> DEFINE v == Transaction(call, plan, {}, <<>>, t, FALSE)
<1>1. /\ v.call = call /\ v.todo = plan /\ v.locks = {} /\ v.seen = <<>> /\ v.clock = t
      /\ v.clear \in BOOLEAN /\ ~v.clear
  BY DEF Transaction
<1>2. Planned(v) /\ UNCHANGED vars /\ tx' = [tx EXCEPT ![s] = v]
  BY DEF Start
<1> HIDE DEF v
<1>3. Typed(v)
  BY <1>1 DEF Typed
<1>4. Good(v)
  BY <1>1, <1>2, <1>3 DEF Good, Current, Clear
<1> QED
  BY <1>1, <1>2, <1>4, OwnStepKeeps

LEMMA StartKeys ==
    ASSUME TypeOK, RowsIntact
    PROVE  /\ \A u \in DOMAIN units : UnitKey(u) \in Keys
           /\ \A i \in DOMAIN issues : JoinedTo(i) \subseteq Keys
           /\ \A c \in DOMAIN claims : ClaimKey(c) \in Keys
BY DEF TypeOK, RowsIntact, Keys, JoinedTo

LEMMA CallKeeps == ASSUME TxInv, NEW s \in Sessions, Call(s) PROVE TxInv'
<1>1. TypeOK /\ RowsIntact
  BY DEF TxInv
<1>2. CASE \E u \in DOMAIN units, c \in Clients, w \in WarrantyDays : StartIssue(s, u, c, w)
  <2>1. PICK u \in DOMAIN units, c \in Clients, w \in WarrantyDays : StartIssue(s, u, c, w)
    BY <1>2
  <2> DEFINE q == [op |-> "issue", unit |-> u, client |-> c, days |-> w]
             p == <<{UnitKey(u)}>>
  <2>2. q \in Calls /\ p \in Seq((SUBSET Keys) \ {{}})
    BY <1>1, StartKeys DEF Calls, TypeOK
  <2>3. Planned(Transaction(q, p, {}, <<>>, NoDate, FALSE))
    BY DEF Transaction, Planned, Covered
  <2> QED
    BY <2>1, <2>2, <2>3, StartKeeps DEF StartIssue
<1>3. CASE \E u \in DOMAIN units, d \in Periods : StartRenew(s, u, d)
  <2>1. PICK u \in DOMAIN units, d \in Periods : StartRenew(s, u, d)
    BY <1>3
  <2> DEFINE q == [op |-> "renew", unit |-> u, days |-> d]
             p == <<{UnitKey(u)}>>
  <2>2. q \in Calls /\ p \in Seq((SUBSET Keys) \ {{}})
    BY <1>1, StartKeys DEF Calls, TypeOK
  <2>3. Planned(Transaction(q, p, {}, <<>>, NoDate, FALSE))
    BY DEF Transaction, Planned, Covered
  <2> QED
    BY <2>1, <2>2, <2>3, StartKeeps DEF StartRenew
<1>4. CASE \E i \in DOMAIN issues : StartOpen(s, i)
  <2>1. PICK i \in DOMAIN issues : StartOpen(s, i)
    BY <1>4
  <2> DEFINE q == [op |-> "open", issue |-> i]
             p == <<JoinedTo(i)>>
  <2>2. q \in Calls /\ p \in Seq((SUBSET Keys) \ {{}})
    BY <1>1, StartKeys DEF Calls, TypeOK, JoinedTo
  <2>3. Planned(Transaction(q, p, {}, <<>>, NoDate, FALSE))
    BY DEF Transaction, Planned, Covered, JoinedTo
  <2> QED
    BY <2>1, <2>2, <2>3, StartKeeps DEF StartOpen
<1>5. CASE \E c \in DOMAIN claims : StartReject(s, c)
  <2>1. PICK c \in DOMAIN claims : StartReject(s, c)
    BY <1>5
  <2> DEFINE q == [op |-> "reject", claim |-> c]
             i == claims[c].issue
             p == <<JoinedTo(i) \cup {ClaimKey(c)}>>
  <2>2. q \in Calls /\ p \in Seq((SUBSET Keys) \ {{}})
    BY <1>1, StartKeys DEF Calls, TypeOK, RowsIntact
  <2>3. Planned(Transaction(q, p, {}, <<>>, NoDate, FALSE))
    BY DEF Transaction, Planned, Covered, JoinedTo
  <2> QED
    BY <2>1, <2>2, <2>3, StartKeeps DEF StartReject
<1>6. CASE \E c \in DOMAIN claims, r \in DOMAIN units : StartApprove(s, c, r)
  <2>1. PICK c \in DOMAIN claims, r \in DOMAIN units : StartApprove(s, c, r)
    BY <1>6
  <2> DEFINE q == [op |-> "approve", claim |-> c, unit |-> r]
             i == claims[c].issue
             p == <<JoinedTo(i) \cup {ClaimKey(c)}, {UnitKey(r)}>>
  <2>2. q \in Calls /\ p \in Seq((SUBSET Keys) \ {{}})
    BY <1>1, StartKeys DEF Calls, TypeOK, RowsIntact
  <2>3. Planned(Transaction(q, p, {}, <<>>, NoDate, FALSE))
    BY DEF Transaction, Planned, Covered, JoinedTo
  <2> QED
    BY <2>1, <2>2, <2>3, StartKeeps DEF StartApprove
<1>7. CASE StartSweep(s)
  <2> DEFINE q == [op |-> "sweep"]
  <2>1. q \in Calls /\ <<>> \in Seq((SUBSET Keys) \ {{}}) /\ now \in 0..now
    BY <1>1, DatesAssumption DEF Calls, TypeOK
  <2>2. Planned(Transaction(q, <<>>, {}, <<>>, now, FALSE))
    BY DEF Transaction, Planned
  <2> QED
    BY <1>7, <2>1, <2>2, StartKeeps DEF StartSweep
<1>8. CASE \E u \in DOMAIN units : StartEdit(s, u)
  <2>1. PICK u \in DOMAIN units : StartEdit(s, u)
    BY <1>8
  <2>2. PICK v : v = Transaction([op |-> "edit", unit |-> u], <<>>, {},
                                 Insert(<<>>, UnitKey(u), units[u]), NoDate, FALSE)
    OBVIOUS
  <2>3. /\ v.call = [op |-> "edit", unit |-> u] /\ v.todo = <<>> /\ v.locks = {}
        /\ DOMAIN v.seen = {UnitKey(u)} /\ v.clock = NoDate
        /\ v.clear \in BOOLEAN /\ ~v.clear
    BY <2>2 DEF Transaction, Insert
  <2>4. UNCHANGED vars /\ tx' = [tx EXCEPT ![s] = v]
    BY <2>1, <2>2 DEF StartEdit
  <2>5. v.call \in Calls
    BY <1>1, <2>3 DEF Calls, TypeOK
  <2>6. v.todo \in Seq((SUBSET Keys) \ {{}}) /\ UnitKey(u) \in Keys
    BY <1>1, <2>3, StartKeys
  <2>7. Typed(v)
    BY <2>3, <2>5, <2>6 DEF Typed
  <2>8. Good(v)
    BY <2>3, <2>7 DEF Good, Planned, Current, Clear
  <2> QED
    BY <2>3, <2>4, <2>8, OwnStepKeeps
<1> QED
  BY <1>2, <1>3, <1>4, <1>5, <1>6, <1>7, <1>8 DEF Call

\* What is left of a plan once row k is read.
LEMMA WithoutRow ==
    ASSUME NEW S, NEW plan \in Seq(S), plan # <<>>, NEW k, k \in Head(plan),
           S = (SUBSET Keys) \ {{}}
    PROVE  /\ Without(plan, k) \in Seq(S)
           /\ \A n \in DOMAIN plan : \A x \in plan[n] :
                 x = k \/ \E m \in DOMAIN Without(plan, k) : x \in Without(plan, k)[m]
<1>1. /\ Head(plan) = plan[1] /\ Len(plan) \in Nat \ {0} /\ DOMAIN plan = 1..Len(plan)
      /\ \A n \in 1..Len(plan) : plan[n] \in S
  OBVIOUS
<1>2. CASE Head(plan) = {k}
  <2>1. /\ Without(plan, k) = Tail(plan) /\ Tail(plan) \in Seq(S)
        /\ Len(Tail(plan)) = Len(plan) - 1
        /\ \A m \in 1..(Len(plan) - 1) : Tail(plan)[m] = plan[m + 1]
    BY <1>2 DEF Without
  <2>2. ASSUME NEW n \in DOMAIN plan, NEW x \in plan[n], x # k
        PROVE  \E m \in DOMAIN Tail(plan) : x \in Tail(plan)[m]
    <3>1. n \in 2..Len(plan)
      BY <1>1, <1>2, <2>2
    <3>2. n - 1 \in DOMAIN Tail(plan) /\ x \in Tail(plan)[n - 1]
      BY <1>1, <2>1, <2>2, <3>1
    <3> QED
      BY <3>2
  <2> QED
    BY <2>1, <2>2
<1>3. CASE Head(plan) # {k}
  <2> DEFINE w == [plan EXCEPT ![1] = @ \ {k}]
  <2>1. Without(plan, k) = w
    BY <1>3 DEF Without
  <2>2. plan[1] \ {k} \in S
    BY <1>1, <1>3
  <2>3. w \in Seq(S)
    BY <1>1, <2>2
  <2>4. DOMAIN w = DOMAIN plan /\ \A n \in DOMAIN plan : w[n] = IF n = 1 THEN plan[1] \ {k} ELSE plan[n]
    BY <1>1
  <2> HIDE DEF w
  <2> QED
    BY <2>1, <2>3, <2>4
<1> QED
  BY <1>2, <1>3

LEMMA LockKeeps ==
    ASSUME TxInv, NEW s \in Sessions, NEW k \in Keys, LockRow(s, k)
    PROVE  TxInv'
<1>1. PICK t : t = tx[s]
  OBVIOUS
<1>2. /\ t # Idle /\ t.todo # <<>> /\ k \in Head(t.todo) /\ RowExists(k) /\ UNCHANGED vars
  BY <1>1 DEF LockRow
<1>3. Good(t)
  BY <1>1, <1>2 DEF TxInv
<1>4. Locks(t.call, k) /\ t.call.op # "edit"
  BY <1>2, <1>3, CallFields DEF Good, Typed, Planned, Locks
<1>5. PICK v : v = Transaction(t.call, Without(t.todo, k), t.locks \cup {k},
                               Insert(t.seen, k, RowAt(k)), t.clock, FALSE)
  OBVIOUS
<1>6. /\ v.call = t.call /\ v.todo = Without(t.todo, k) /\ v.locks = t.locks \cup {k}
      /\ v.seen = Insert(t.seen, k, RowAt(k)) /\ v.clock = t.clock
      /\ v.clear \in BOOLEAN /\ ~v.clear
  BY <1>5 DEF Transaction
<1>7. tx' = [tx EXCEPT ![s] = v]
  BY <1>1, <1>4, <1>5 DEF LockRow
<1>8. \A o \in Sessions \ {s} : tx[o] # Idle => v.locks \cap tx[o].locks = {}
  <2>1. ASSUME NEW o \in Sessions \ {s}, tx[o] # Idle
        PROVE  k \notin tx[o].locks /\ t.locks \cap tx[o].locks = {}
    BY <1>1, <1>2, <1>4, <2>1 DEF LockRow, FreeFor, TxInv, LocksApart
  <2> QED
    BY <1>6, <2>1
<1>9. /\ v.todo \in Seq((SUBSET Keys) \ {{}})
      /\ \A x : Covered(t, x) => Covered(v, x)
  <2>1. t.todo \in Seq((SUBSET Keys) \ {{}})
    BY <1>3 DEF Good, Typed
  <2>2. /\ Without(t.todo, k) \in Seq((SUBSET Keys) \ {{}})
        /\ \A n \in DOMAIN t.todo : \A x \in t.todo[n] :
              x = k \/ \E m \in DOMAIN Without(t.todo, k) : x \in Without(t.todo, k)[m]
    BY <1>2, <2>1, WithoutRow
  <2>3. DOMAIN v.seen = DOMAIN t.seen \cup {k}
    BY <1>6 DEF Insert
  <2> QED
    BY <1>6, <2>2, <2>3 DEF Covered
<1>10. DOMAIN v.seen = DOMAIN t.seen \cup {k}
       /\ \A x \in DOMAIN v.seen : v.seen[x] = IF x = k THEN RowAt(k) ELSE t.seen[x]
  BY <1>6 DEF Insert
<1>11. Typed(v)
  BY <1>3, <1>6, <1>9, <1>10 DEF Good, Typed
<1>12. Planned(v)
  <2>1. t.call.op \notin {"sweep", "edit"}
    BY <1>2, <1>3 DEF Good, Planned
  <2> QED
    BY <1>3, <1>6, <1>9, <2>1 DEF Good, Planned
<1>13. Current(v) /\ Clear(v)
  BY <1>2, <1>3, <1>4, <1>6, <1>10 DEF Good, Current, Clear
<1> QED
  BY <1>2, <1>7, <1>8, <1>11, <1>12, <1>13, OwnStepKeeps DEF Good

LEMMA ReadClockKeeps ==
    ASSUME TxInv, NEW s \in Sessions, ReadClock(s)
    PROVE  TxInv'
<1>1. PICK t : t = tx[s]
  OBVIOUS
<1>2. /\ t # Idle /\ t.call.op \in {"issue", "renew", "open", "approve"} /\ t.todo = <<>>
      /\ UNCHANGED vars
  BY <1>1 DEF ReadClock
<1>3. Good(t) /\ TypeOK
  BY <1>1, <1>2 DEF TxInv
<1>5. PICK v : v = Transaction(t.call, <<>>, t.locks, t.seen, now,
                               t.call.op = "open" /\ NoOpenClaim(t.call.issue))
  OBVIOUS
<1>6. /\ v.call = t.call /\ v.todo = t.todo /\ v.locks = t.locks /\ v.seen = t.seen
      /\ v.clock = now /\ v.clear \in BOOLEAN
      /\ v.clear => t.call.op = "open" /\ NoOpenClaim(t.call.issue)
  BY <1>2, <1>5 DEF Transaction
<1>7. tx' = [tx EXCEPT ![s] = v]
  BY <1>1, <1>5 DEF ReadClock
<1>8. now \in 0..now
  BY <1>3, DatesAssumption DEF TypeOK
<1>9. Good(v)
  <2>1. Typed(v)
    BY <1>3, <1>6, <1>8 DEF Good, Typed
  <2>2. Planned(v)
    BY <1>3, <1>6 DEF Good, Planned, Covered
  <2>3. Current(v) /\ Clear(v)
    BY <1>2, <1>3, <1>6 DEF Good, Current, Clear
  <2> QED
    BY <2>1, <2>2, <2>3 DEF Good
<1>10. \A o \in Sessions \ {s} : tx[o] # Idle => v.locks \cap tx[o].locks = {}
  BY <1>1, <1>2, <1>6 DEF TxInv, LocksApart
<1> QED
  BY <1>2, <1>7, <1>9, <1>10, OwnStepKeeps

LEMMA FindStaleKeeps ==
    ASSUME TxInv, NEW s \in Sessions, FindStale(s)
    PROVE  TxInv'
<1>1. PICK t : t = tx[s]
  OBVIOUS
<1>2. t # Idle /\ t.call = [op |-> "sweep"] /\ UNCHANGED vars
  BY <1>1 DEF FindStale
<1>3. Good(t) /\ TypeOK /\ RowsIntact
  BY <1>1, <1>2 DEF TxInv
<1> DEFINE stale == {u \in DOMAIN units : IsStale(units[u], t.clock)}
<1>4. PICK v : v = Transaction([op |-> "mark"], <<{UnitKey(u) : u \in stale}>>, {}, <<>>, t.clock,
                               FALSE)
  OBVIOUS
<1>5. stale # {} /\ tx' = [tx EXCEPT ![s] = v]
  BY <1>1, <1>4 DEF FindStale
<1>6. {UnitKey(u) : u \in stale} \in (SUBSET Keys) \ {{}}
  BY <1>3, <1>5, StartKeys
<1> HIDE DEF stale
<1>7. /\ v.call = [op |-> "mark"] /\ v.todo = <<{UnitKey(u) : u \in stale}>> /\ v.locks = {}
      /\ v.seen = <<>> /\ v.clock = t.clock /\ v.clear \in BOOLEAN /\ ~v.clear
  BY <1>4 DEF Transaction
<1>8. v.call \in Calls /\ v.todo \in Seq((SUBSET Keys) \ {{}})
  BY <1>6, <1>7 DEF Calls
<1>9. Typed(v)
  BY <1>2, <1>3, <1>7, <1>8 DEF Good, Typed
<1>10. Good(v)
  BY <1>7, <1>9 DEF Good, Planned, Current, Clear
<1> QED
  BY <1>2, <1>5, <1>7, <1>10, OwnStepKeeps

-----------------------------------------------------------------------------
\* The end of a transaction, and the steps of their own.

\* The tables change, but nothing that another session has locked.
LEMMA CloseKeeps ==
    ASSUME TxInv, NEW s \in Sessions, NEW t, t = tx[s], t # Idle, [Next]_vars,
           WritesOnly(t.locks), ClaimsOnly(t.locks), Close(s)
    PROVE  TxInv'
<1>1. TypeOK /\ RowsIntact /\ UnitsTabled /\ tx = [o \in Sessions |-> tx[o]]
  BY DEF TxInv
<1>2. TypeOK' /\ RowsIntact' /\ UnitsTabled'
  BY <1>1, NextTypeOK, NextRowsIntact, NextTabled
<1>3. /\ tx' = [o \in Sessions |-> tx'[o]]
      /\ tx'[s] = Idle /\ \A o \in Sessions \ {s} : tx'[o] = tx[o]
  BY <1>1 DEF Close
<1>4. ASSUME NEW o \in Sessions, NEW v, v = tx'[o], v # Idle
      PROVE  Good(v)'
  <2>1. o # s /\ v = tx[o] /\ Good(v)
    BY <1>3, <1>4 DEF TxInv
  <2>2. v.locks \cap t.locks = {}
    BY <1>4, <2>1 DEF TxInv, LocksApart
  <2> QED
    BY <1>1, <2>1, <2>2, GoodStays
<1>5. LocksApart'
  BY <1>3 DEF TxInv, LocksApart
<1> QED
  BY <1>2, <1>3, <1>4, <1>5 DEF TxInv

\* A step outside the sessions, on rows that none has locked.
LEMMA OutsideKeeps ==
    ASSUME TxInv, UNCHANGED tx, [Next]_vars, NEW locks, WritesOnly(locks), ClaimsOnly(locks),
           \A s \in Sessions : tx[s] # Idle => tx[s].locks \cap locks = {}
    PROVE  TxInv'
<1>1. TypeOK /\ RowsIntact /\ UnitsTabled
  BY DEF TxInv
<1>2. TypeOK' /\ RowsIntact' /\ UnitsTabled'
  BY <1>1, NextTypeOK, NextRowsIntact, NextTabled
<1>3. ASSUME NEW o \in Sessions, NEW v, v = tx'[o], v # Idle
      PROVE  Good(v)'
  <2>1. Good(v) /\ v.locks \cap locks = {}
    BY <1>3 DEF TxInv
  <2> QED
    BY <1>1, <2>1, GoodStays
<1>4. LocksApart' /\ tx' = [o \in Sessions |-> tx'[o]]
  BY DEF TxInv, LocksApart
<1> QED
  BY <1>2, <1>3, <1>4 DEF TxInv

LEMMA CommitSerial ==
    ASSUME TxInv, NEW s \in Sessions, Commit(s)
    PROVE  [Next]_vars /\ TxInv'
<1>1. PICK t : t = tx[s]
  OBVIOUS
<1>2. CASE CommitEdit(s)
  <2>1. UNCHANGED vars /\ Close(s) /\ t # Idle
    BY <1>1, <1>2, EditSerial DEF CommitEdit, Ready
  <2>2. WritesOnly(t.locks) /\ ClaimsOnly(t.locks)
    BY <2>1, WritesNothing DEF WritesOnly, ClaimsOnly
  <2> QED
    BY <1>1, <2>1, <2>2, CloseKeeps
<1>3. CASE ~CommitEdit(s)
  <2>1. (Issue \/ Renew \/ Open \/ Approve \/ Reject \/ Sweep) /\ WritesOnly(t.locks) /\ ClaimsOnly(t.locks)
    BY <1>1, <1>3, IssueSerial, RenewSerial, OpenSerial, ApproveSerial, RejectSerial, SweepSerial
       DEF Commit
  <2>2. Close(s) /\ t # Idle
    BY <1>1, <1>3 DEF Commit, CommitIssue, CommitRenew, CommitOpen, CommitApprove, CommitReject,
                      CommitSweep, Ready
  <2>3. [Next]_vars
    BY <2>1 DEF Next
  <2> QED
    BY <1>1, <2>1, <2>2, <2>3, CloseKeeps
<1> QED
  BY <1>2, <1>3

LEMMA RollbackKeeps == ASSUME TxInv, NEW s \in Sessions, Rollback(s) PROVE TxInv'
<1>1. PICK t : t = tx[s]
  OBVIOUS
<1>2. UNCHANGED vars /\ Close(s) /\ t # Idle
  BY <1>1 DEF Rollback
<1>3. WritesOnly(t.locks) /\ ClaimsOnly(t.locks)
  BY <1>2, WritesNothing DEF WritesOnly, ClaimsOnly
<1> QED
  BY <1>1, <1>2, <1>3, CloseKeeps

LEMMA AloneKeeps ==
    ASSUME TxInv, TxRegister \/ TxDelete \/ TxRemind \/ TxTick
    PROVE  [Next]_vars /\ TxInv'
<1>1. CASE TxRegister \/ TxTick
  <2>1. WritesOnly({}) /\ ClaimsOnly({}) /\ UNCHANGED tx /\ [Next]_vars
    BY <1>1 DEF TxRegister, Register, RegisterUnit, Insert, TxTick, Tick, tables, WritesOnly,
                ClaimsOnly, NoOpenClaim, Next
  <2> QED
    BY <2>1, OutsideKeeps
<1>2. CASE TxDelete
  <2>1. PICK u \in DOMAIN units : /\ \A s \in Sessions : tx[s] # Idle => UnitKey(u) \notin tx[s].locks
                                  /\ DeleteUnit(u) /\ UNCHANGED tx
    BY <1>2 DEF TxDelete
  <2>2. WritesOnly({UnitKey(u)}) /\ ClaimsOnly({UnitKey(u)})
    BY <2>1 DEF DeleteUnit, WritesOnly, ClaimsOnly, NoOpenClaim
  <2>3. [Next]_vars
    BY <2>1 DEF Next, Delete
  <2> QED
    BY <2>1, <2>2, <2>3, OutsideKeeps
<1>3. CASE TxRemind
  <2>1. Remind /\ UNCHANGED tx
    BY <1>3 DEF TxRemind
  <2>2. WritesOnly({}) /\ ClaimsOnly({})
    BY <2>1, RemindEffect DEF WritesOnly, ClaimsOnly, NoOpenClaim
  <2> QED
    BY <2>1, <2>2, OutsideKeeps DEF Next
<1> QED
  BY <1>1, <1>2, <1>3

-----------------------------------------------------------------------------

LEMMA TxStep ==
    ASSUME TxInv, [TxNext]_txvars
    PROVE  [Next]_vars /\ TxInv'
<1>1. CASE \E s \in Sessions : Call(s)
  <2>1. UNCHANGED vars
    BY <1>1 DEF Call, StartIssue, StartRenew, StartEdit, StartOpen, StartReject, StartApprove,
                StartSweep, Start
  <2> QED
    BY <1>1, <2>1, CallKeeps
<1>2. CASE \E s \in Sessions : Work(s)
  <2>1. UNCHANGED vars
    BY <1>2 DEF Work, FindStale, ReadClock, LockRow
  <2> QED
    BY <1>2, <2>1, FindStaleKeeps, ReadClockKeeps, LockKeeps DEF Work
<1>3. CASE \E s \in Sessions : Commit(s)
  BY <1>3, CommitSerial
<1>4. CASE \E s \in Sessions : Rollback(s)
  BY <1>4, RollbackKeeps DEF Rollback
<1>5. CASE TxRegister \/ TxDelete \/ TxRemind \/ TxTick
  BY <1>5, AloneKeeps
<1>6. CASE UNCHANGED txvars
  <2>1. UNCHANGED vars /\ UNCHANGED tx
    BY <1>6 DEF txvars, vars, tables
  <2> QED
    BY <2>1, WritesNothing, OutsideKeeps
<1> QED
  BY <1>1, <1>2, <1>3, <1>4, <1>5, <1>6 DEF TxNext

LEMMA TxInitInv == ASSUME TxInit PROVE Init /\ TxInv
<1>1. Init /\ tx = [s \in Sessions |-> Idle]
  BY DEF TxInit
<1>2. TypeOK /\ RowsIntact /\ UnitsTabled
  BY <1>1, InitTypeOK, InitRowsIntact DEF Init, UnitsTabled
<1> QED
  BY <1>1, <1>2 DEF TxInv, LocksApart

\* However sessions interleave, lock, wait and roll back, the commits are
\* operations of Inventory one after the other: the row locks that the service
\* functions take suffice, for any number of web workers and cron jobs.
THEOREM Serializable == TxSpec => CommitsAreSerial
<1>1. TxInit => Init /\ TxInv
  BY TxInitInv
<1>2. TxInv /\ [TxNext]_txvars => [Next]_vars /\ TxInv'
  BY TxStep
<1> QED
  BY <1>1, <1>2, PTL DEF TxSpec, CommitsAreSerial, Spec

-----------------------------------------------------------------------------

LEMMA TxInvariance == TxSpec => []TxInv
<1>1. TxInit => TxInv
  BY TxInitInv
<1>2. TxInv /\ [TxNext]_txvars => TxInv'
  BY TxStep
<1> QED
  BY <1>1, <1>2, PTL DEF TxSpec

\* A transaction that has read all it wanted holds the lock of each row that its
\* commit changes.
LEMMA ConcernsLocked ==
    ASSUME TxInv, NEW s \in Sessions, tx[s] # Idle, tx[s].todo = <<>>
    PROVE  Concerns(s) \subseteq tx[s].locks
<1>1. PICK t : t = tx[s]
  OBVIOUS
<1>2. Good(t) /\ t.todo = <<>>
  BY <1>1 DEF TxInv
<1> DEFINE q == t.call
<1>3. q.op \in {"issue", "renew", "open", "approve", "reject", "edit", "sweep", "mark"}
  BY <1>2, CallFields DEF Good, Typed
<1>4. CASE q.op \in {"issue", "renew"}
  <2>1. UnitKey(q.unit) \in t.locks
    BY <1>2, <1>4, ReadyUnit DEF Good, Planned
  <2>2. Concerns(s) = {UnitKey(q.unit)}
    BY <1>1, <1>4 DEF Concerns
  <2> QED
    BY <1>1, <2>1, <2>2
<1>5. CASE q.op = "open"
  <2>1. IssueKey(q.issue) \in t.locks
    BY <1>2, <1>5, ReadyIssue DEF Good, Planned
  <2>2. Concerns(s) = {IssueKey(q.issue)}
    BY <1>1, <1>5 DEF Concerns
  <2> QED
    BY <1>1, <2>1, <2>2
<1>6. CASE q.op = "approve"
  <2> DEFINE i == claims[q.claim].issue
  <2>1. /\ ClaimKey(q.claim) \in t.locks /\ IssueKey(i) \in t.locks
        /\ UnitKey(issues[i].unit) \in t.locks /\ UnitKey(q.unit) \in t.locks
    BY <1>2, <1>6, ReadyClaim, ReadyIssue, ReadyUnit DEF Good, Planned
  <2>2. Concerns(s) = JoinedTo(i) \cup {ClaimKey(q.claim), UnitKey(q.unit)}
    BY <1>1, <1>6 DEF Concerns
  <2> QED
    BY <1>1, <2>1, <2>2 DEF JoinedTo
<1>7. CASE q.op = "reject"
  <2>1. ClaimKey(q.claim) \in t.locks
    BY <1>2, <1>7, ReadyClaim DEF Good, Planned
  <2>2. Concerns(s) = {ClaimKey(q.claim)}
    BY <1>1, <1>7 DEF Concerns
  <2> QED
    BY <1>1, <2>1, <2>2
<1>8. CASE q.op = "mark"
  <2>1. \A u \in Returned(s) : UnitKey(u) \in t.locks
    BY <1>1, <1>2, <1>8 DEF Returned, Good, Current
  <2>2. Concerns(s) = {UnitKey(u) : u \in Returned(s)}
    BY <1>1, <1>8 DEF Concerns
  <2> QED
    BY <1>1, <2>1, <2>2
<1>9. CASE q.op \in {"edit", "sweep"}
  BY <1>1, <1>9 DEF Concerns
<1> QED
  BY <1>3, <1>4, <1>5, <1>6, <1>7, <1>8, <1>9

\* No row is locked by two transactions, and whatever a commit changes is
\* locked: select_for_update stands wherever a service function reads a row that
\* it goes on to write.
THEOREM TxTypeCorrect == TxSpec => []TxTypeOK
<1>1. TxInv => TxTypeOK
  <2> SUFFICES ASSUME TxInv PROVE TxTypeOK
    OBVIOUS
  <2>1. TypeOK /\ DOMAIN tx = Sessions /\ now \in Nat
    BY DatesAssumption DEF TxInv, TypeOK
  <2>2. ASSUME NEW s \in Sessions, tx[s] # Idle
        PROVE  /\ tx[s].call \in Calls
               /\ tx[s].todo \in Seq((SUBSET Keys) \ {{}})
               /\ tx[s].locks \subseteq DOMAIN tx[s].seen
               /\ DOMAIN tx[s].seen \subseteq Keys
               /\ tx[s].clock \in Nat \cup {NoDate} /\ tx[s].clear \in BOOLEAN
               /\ tx[s].todo = <<>> => Concerns(s) \subseteq tx[s].locks
    <3>1. PICK t : t = tx[s]
      OBVIOUS
    <3>2. Typed(t)
      BY <2>2, <3>1 DEF TxInv, Good
    <3>3. t.clock \in Nat \cup {NoDate}
      BY <2>1, <3>2 DEF Typed
    <3>4. tx[s].todo = <<>> => Concerns(s) \subseteq tx[s].locks
      BY <2>2, ConcernsLocked
    <3> QED
      BY <3>1, <3>2, <3>3, <3>4 DEF Typed
  <2>3. LocksApart
    BY DEF TxInv
  <2> QED
    BY <2>1, <2>2, <2>3 DEF TxTypeOK, LocksApart
<1> QED
  BY <1>1, TxInvariance, PTL

\* No transaction decides on a stale row: what it has read is still so.
THEOREM NothingStale == TxSpec => []SeenIsCurrent
<1>1. TxInv => SeenIsCurrent
  <2> SUFFICES ASSUME TxInv, NEW s \in Sessions, tx[s] # Idle, NEW k \in DOMAIN tx[s].seen,
                      tx[s].call.op # "edit"
               PROVE  RowExists(k) /\ Seen(s, k) = RowAt(k)
    BY DEF SeenIsCurrent
  <2>1. PICK t : t = tx[s]
    OBVIOUS
  <2>2. Current(t)
    BY <2>1 DEF TxInv, Good
  <2> QED
    BY <2>1, <2>2 DEF Current, Seen
<1> QED
  BY <1>1, TxInvariance, PTL

\* What is proved of the tables one operation at a time holds of them under
\* concurrent transactions: a unit is not sold twice, a claim not paid twice,
\* no paid day is lost, and the log accounts for it all.
THEOREM TablesConsistent ==
    TxSpec => [](/\ TypeOK /\ RowsIntact
                 /\ StateMatchesIssues /\ ClaimsMatchIssues /\ OneReplacementPerClaim
                 /\ PaidTermsStack /\ ExpiredIsPast /\ AuditExplainsState)
BY Serializable, TypeCorrect, UnitsConsistent, ClaimsConsistent, ReplacementsConsistent,
   PaidTerms, ExpiredRightly, AuditExplains, PTL DEF CommitsAreSerial

\* Nor does any interleaving of transactions rewrite history, move an expiry
\* date past its renewal, orphan an event or break what a client was promised.
THEOREM TablesKeepFaith ==
    TxSpec => HistoryIsFinal /\ ExpiryMovesByRenewal /\ NoEventOrphaned /\ PromiseKept
BY Serializable, HistoryFinal, ExpiryMoves, LogsKeepTheirUnit, PromiseHolds, PTL
   DEF CommitsAreSerial

\* A sale, a claim or an approval with the sale nested in it, once it passed
\* the checks of its service function, meets no IntegrityError from the partial
\* unique indexes on issues and claims.
THEOREM NeverRefused == TxSpec => []IndexesNeverRefuse
<1>1. TxInv /\ StateMatchesIssues => IndexesNeverRefuse
  <2> SUFFICES ASSUME TxInv, StateMatchesIssues, NEW s \in Sessions
               PROVE  /\ Ready(s, "issue") \/ Ready(s, "approve") =>
                            LET u == tx[s].call.unit
                            IN  Issuable(Seen(s, UnitKey(u)), tx[s].clock) => NoActiveIssue(u)
                      /\ Ready(s, "open") /\ tx[s].clear =>
                            LET i == tx[s].call.issue
                            IN  Claimable(Seen(s, IssueKey(i)), tx[s].clock) => NoOpenClaim(i)
    BY DEF IndexesNeverRefuse
  <2>1. PICK t : t = tx[s]
    OBVIOUS
  <2>2. ASSUME Ready(s, "issue") \/ Ready(s, "approve"), NEW u, u = t.call.unit, Issuable(Seen(s, UnitKey(u)), t.clock)
        PROVE  NoActiveIssue(u)
    <3>1. t # Idle /\ t.call.op \in {"issue", "approve"} /\ t.todo = <<>> /\ Good(t)
      BY <2>1, <2>2 DEF Ready, TxInv
    <3>2. u \in DOMAIN units /\ t.seen[UnitKey(u)] = units[u]
      BY <2>2, <3>1, ReadyUnit DEF Good, Planned
    <3>3. units[u].state \in {"available", "reserved"}
      BY <2>1, <2>2, <3>2 DEF Seen, Issuable
    <3> QED
      BY <3>2, <3>3 DEF StateMatchesIssues, IssuesOf, NoActiveIssue
  <2>3. ASSUME Ready(s, "open"), t.clear PROVE NoOpenClaim(t.call.issue)
    BY <2>1, <2>3 DEF Ready, TxInv, Good, Clear
  <2> QED
    BY <2>1, <2>2, <2>3
<1> QED
  BY <1>1, TxInvariance, TablesConsistent, PTL

=============================================================================
