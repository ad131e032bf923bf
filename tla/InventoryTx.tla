----------------------------- MODULE InventoryTx ----------------------------
(***************************************************************************)
(* The operations of Inventory as PostgreSQL runs them at READ COMMITTED:  *)
(* a session opens a transaction, locks and reads rows one at a time with  *)
(* SELECT ... FOR UPDATE, reads the clock, decides on what it read and     *)
(* commits its writes at once.  Other sessions run between any two steps.  *)
(* The rows a transaction read are kept with it: a decision uses them and  *)
(* not the present tables, so a missing lock shows as a stale decision.    *)
(*                                                                         *)
(* A transaction may end without a commit after any step: a refusal, a     *)
(* row that is gone, a crashed process, a deadlock victim.                 *)
(***************************************************************************)
EXTENDS Inventory

CONSTANTS
    Sessions,   \* database connections: web workers and cron jobs
    Idle        \* no transaction

\* No transaction is too slow to commit.
ASSUME LagAssumption == Lag >= Horizon

VARIABLE tx     \* tx[s]: the transaction session s has open, or Idle

txvars == <<now, units, issues, claims, renewals, events, tx>>

UnitKey(u)  == [table |-> "unit", pk |-> u]
IssueKey(i) == [table |-> "issue", pk |-> i]
ClaimKey(c) == [table |-> "claim", pk |-> c]

Keys ==
    {UnitKey(u) : u \in Units} \cup {IssueKey(i) : i \in IssueIds} \cup
    {ClaimKey(c) : c \in ClaimIds}

RowExists(k) ==
    CASE k.table = "unit"  -> k.pk \in DOMAIN units
      [] k.table = "issue" -> k.pk \in DOMAIN issues
      [] k.table = "claim" -> k.pk \in DOMAIN claims

RowAt(k) ==
    CASE k.table = "unit"  -> units[k.pk]
      [] k.table = "issue" -> issues[k.pk]
      [] k.table = "claim" -> claims[k.pk]

\* Row locks last until the transaction ends.
FreeFor(s, k) == \A o \in Sessions \ {s} : tx[o] # Idle => k \notin tx[o].locks

TxInit == Init /\ tx = [s \in Sessions |-> Idle]

-----------------------------------------------------------------------------
\* A transaction starts with a call and the rows its SELECT FOR UPDATE
\* statements will lock, statement by statement; the rows a statement joins
\* are locked in an order the query planner chooses.

Transaction(call, todo, locks, seen, clock, clear) ==
    [call |-> call, todo |-> todo, locks |-> locks, seen |-> seen, clock |-> clock,
     clear |-> clear]

Start(s, call, plan, t) ==
    /\ tx[s] = Idle
    /\ tx' = [tx EXCEPT ![s] = Transaction(call, plan, {}, <<>>, t, FALSE)]
    /\ UNCHANGED vars

JoinedTo(i) == {IssueKey(i), UnitKey(issues[i].unit)}

StartIssue(s, u, c, w) ==
    Start(s, [op |-> "issue", unit |-> u, client |-> c, days |-> w], <<{UnitKey(u)}>>, NoDate)

StartRenew(s, u, d) ==
    Start(s, [op |-> "renew", unit |-> u, days |-> d], <<{UnitKey(u)}>>, NoDate)

StartOpen(s, i) == Start(s, [op |-> "open", issue |-> i], <<JoinedTo(i)>>, NoDate)

\* The client row joined to the claim is locked too; only the order of locks
\* could tell, since nothing writes it.
StartApprove(s, c, r) ==
    Start(s, [op |-> "approve", claim |-> c, unit |-> r],
          <<JoinedTo(claims[c].issue) \cup {ClaimKey(c)}, {UnitKey(r)}>>, NoDate)

StartReject(s, c) ==
    Start(s, [op |-> "reject", claim |-> c],
          <<JoinedTo(claims[c].issue) \cup {ClaimKey(c)}>>, NoDate)

\* The sweep reads the clock first.
StartSweep(s) == Start(s, [op |-> "sweep"], <<>>, now)

\* Its query finds the rows to lock in one snapshot.
FindStale(s) ==
    /\ tx[s] # Idle /\ tx[s].call = [op |-> "sweep"]
    /\ LET stale == {u \in DOMAIN units : IsStale(units[u], tx[s].clock)}
       IN  /\ stale # {}
           /\ tx' = [tx EXCEPT ![s] =
                        Transaction([op |-> "mark"], <<{UnitKey(u) : u \in stale}>>, {}, <<>>,
                                    @.clock, FALSE)]
    /\ UNCHANGED vars

\* PATCH and the admin form read the unit without a lock.
StartEdit(s, u) ==
    /\ tx[s] = Idle
    /\ tx' = [tx EXCEPT ![s] =
                Transaction([op |-> "edit", unit |-> u], <<>>, {},
                            Insert(<<>>, UnitKey(u), units[u]), NoDate, FALSE)]
    /\ UNCHANGED vars

-----------------------------------------------------------------------------
\* Mutants of Locks: one operation reads without select_for_update.
ApproveLocksNothing(call, k) == call.op # "approve" \/ k = UnitKey(call.unit)
OpenLocksNothing(call, k)    == call.op # "open"
IssueLocksNothing(call, k)   == call.op # "issue"
RenewLocksNothing(call, k)   == call.op # "renew"
SweepLocksNothing(call, k)   == call.op # "mark"

\* Whether the query of a call that reads row k takes its lock.
Locks(call, k) == call.op \in {"issue", "renew", "open", "approve", "reject", "mark"}

Without(plan, k) ==
    IF Head(plan) = {k} THEN Tail(plan) ELSE [plan EXCEPT ![1] = @ \ {k}]

\* The lock is granted and the row's latest committed version read.
LockRow(s, k) ==
    /\ tx[s] # Idle
    /\ tx[s].todo # <<>> /\ k \in Head(tx[s].todo)
    /\ RowExists(k)
    /\ Locks(tx[s].call, k) => FreeFor(s, k)
    /\ LET locks == IF Locks(tx[s].call, k) THEN tx[s].locks \cup {k} ELSE tx[s].locks
       IN  tx' = [tx EXCEPT ![s] =
                    Transaction(@.call, Without(@.todo, k), locks, Insert(@.seen, k, RowAt(k)),
                                @.clock, FALSE)]
    /\ UNCHANGED vars

\* timezone.now() after the last lock; open_claim then queries for open claims.
ReadClock(s) ==
    /\ tx[s] # Idle
    /\ tx[s].call.op \in {"issue", "renew", "open", "approve"}
    /\ tx[s].todo = <<>> /\ tx[s].clock = NoDate
    /\ LET clear == tx[s].call.op = "open" /\ NoOpenClaim(tx[s].call.issue)
       IN  tx' = [tx EXCEPT ![s] = Transaction(@.call, <<>>, @.locks, @.seen, now, clear)]
    /\ UNCHANGED vars

-----------------------------------------------------------------------------
\* Commits.  Each is the operation of Inventory on the rows the session read.

Ready(s, op) ==
    /\ tx[s] # Idle
    /\ tx[s].call.op = op
    /\ tx[s].todo = <<>>
    /\ op \in {"issue", "renew", "open", "approve"} => tx[s].clock # NoDate

Seen(s, k) == tx[s].seen[k]

Close(s) == tx' = [tx EXCEPT ![s] = Idle]

CommitIssue(s, i) ==
    /\ Ready(s, "issue")
    /\ LET q == tx[s].call
       IN  IssueUnit(q.unit, Seen(s, UnitKey(q.unit)), q.client, i, q.days, tx[s].clock)
    /\ Close(s)

CommitRenew(s) ==
    /\ Ready(s, "renew")
    /\ LET q == tx[s].call
       IN  RenewUnit(q.unit, Seen(s, UnitKey(q.unit)), q.days, tx[s].clock)
    /\ Close(s)

CommitOpen(s, c) ==
    /\ Ready(s, "open")
    /\ tx[s].clear
    /\ LET i == tx[s].call.issue
       IN  OpenClaim(i, Seen(s, IssueKey(i)), c, tx[s].clock)
    /\ Close(s)

CommitApprove(s, j) ==
    /\ Ready(s, "approve")
    /\ LET q     == tx[s].call
           claim == Seen(s, ClaimKey(q.claim))
           issue == Seen(s, IssueKey(claim.issue))
       IN  ApproveClaim(q.claim, claim, issue, Seen(s, UnitKey(issue.unit)),
                        q.unit, Seen(s, UnitKey(q.unit)), j, tx[s].clock)
    /\ Close(s)

CommitReject(s) ==
    /\ Ready(s, "reject")
    /\ LET c     == tx[s].call.claim
           claim == Seen(s, ClaimKey(c))
       IN  RejectClaim(c, claim, Seen(s, IssueKey(claim.issue)))
    /\ Close(s)

\* A row that no longer matches when its lock is granted is not returned.
Returned(s) ==
    {u \in Units : UnitKey(u) \in DOMAIN tx[s].seen /\ IsStale(Seen(s, UnitKey(u)), tx[s].clock)}

CommitSweep(s) ==
    /\ Ready(s, "mark")
    /\ SweepExpired(Returned(s))
    /\ Close(s)

\* Mutant of EditedRow: the save writes every column of the object it read.
EditedRowInFull(row, seen) == seen

\* Only ref, tier, cost, acquisition date and note are written.
EditedRow(row, seen) == row

CommitEdit(s) ==
    /\ Ready(s, "edit")
    /\ LET u == tx[s].call.unit
       IN  /\ u \in DOMAIN units /\ FreeFor(s, UnitKey(u))
           /\ units' = [units EXCEPT ![u] = EditedRow(@, Seen(s, UnitKey(u)))]
    /\ UNCHANGED <<now, issues, claims, renewals, events>>
    /\ Close(s)

Rollback(s) ==
    /\ tx[s] # Idle
    /\ Close(s)
    /\ UNCHANGED vars

-----------------------------------------------------------------------------
\* Steps of their own: a unit is inserted, a row nobody has locked deleted.

TxRegister == Register /\ UNCHANGED tx

TxDelete ==
    \E u \in DOMAIN units :
        /\ \A s \in Sessions : tx[s] # Idle => UnitKey(u) \notin tx[s].locks
        /\ DeleteUnit(u)
        /\ UNCHANGED tx

\* A reminder run that got the locks of its units commits.
TxRemind ==
    /\ Remind
    /\ \A u \in DOMAIN units, s \in Sessions :
          tx[s] # Idle /\ UnitKey(u) \in tx[s].locks => events'[u] = events[u]
    /\ UNCHANGED tx

TxTick == Tick /\ UNCHANGED tx

Call(s) ==
    \/ \E u \in DOMAIN units :
          \/ \E c \in Clients, w \in WarrantyDays : StartIssue(s, u, c, w)
          \/ \E d \in Periods : StartRenew(s, u, d)
          \/ StartEdit(s, u)
    \/ \E i \in DOMAIN issues : StartOpen(s, i)
    \/ \E c \in DOMAIN claims :
          \/ StartReject(s, c)
          \/ \E r \in DOMAIN units : StartApprove(s, c, r)
    \/ StartSweep(s)

Work(s) == FindStale(s) \/ ReadClock(s) \/ \E k \in Keys : LockRow(s, k)

Commit(s) ==
    \/ \E i \in IssueIds : CommitIssue(s, i) \/ CommitApprove(s, i)
    \/ \E c \in ClaimIds : CommitOpen(s, c)
    \/ CommitRenew(s) \/ CommitReject(s) \/ CommitSweep(s) \/ CommitEdit(s)

TxNext ==
    \/ \E s \in Sessions : Call(s) \/ Work(s) \/ Commit(s) \/ Rollback(s)
    \/ TxRegister \/ TxDelete \/ TxRemind \/ TxTick

TxSpec == TxInit /\ [][TxNext]_txvars

-----------------------------------------------------------------------------
Calls ==
    [op : {"issue"}, unit : Units, client : Clients, days : WarrantyDays] \cup
    [op : {"renew"}, unit : Units, days : Periods] \cup
    [op : {"open"}, issue : IssueIds] \cup
    [op : {"approve"}, claim : ClaimIds, unit : Units] \cup
    [op : {"reject"}, claim : ClaimIds] \cup
    [op : {"edit"}, unit : Units] \cup
    [op : {"sweep", "mark"}]

\* The rows a commit of s changes, or whose claims it has counted.
Concerns(s) ==
    LET q == tx[s].call
    IN  CASE q.op \in {"issue", "renew"} -> {UnitKey(q.unit)}
          [] q.op = "open"    -> {IssueKey(q.issue)}
          [] q.op = "approve" -> JoinedTo(claims[q.claim].issue) \cup
                                    {ClaimKey(q.claim), UnitKey(q.unit)}
          [] q.op = "reject"  -> {ClaimKey(q.claim)}
          [] q.op = "mark"    -> {UnitKey(u) : u \in Returned(s)}
          [] OTHER            -> {}

\* Open transactions are well-formed: no row is locked by two of them, and one
\* that has read all it wanted holds the lock of every row it will change.
TxTypeOK ==
    /\ DOMAIN tx = Sessions
    /\ \A s \in Sessions : tx[s] # Idle =>
          /\ tx[s].call \in Calls
          /\ tx[s].todo \in Seq((SUBSET Keys) \ {{}})
          /\ tx[s].locks \subseteq DOMAIN tx[s].seen /\ DOMAIN tx[s].seen \subseteq Keys
          /\ tx[s].clock \in Nat \cup {NoDate} /\ tx[s].clear \in BOOLEAN
          /\ tx[s].todo = <<>> => Concerns(s) \subseteq tx[s].locks
    /\ \A s, o \in Sessions :
          s # o /\ tx[s] # Idle /\ tx[o] # Idle => tx[s].locks \cap tx[o].locks = {}

\* What a transaction has locked and read is still so in the tables: until
\* it ends, no other step touches a row it will decide on.
SeenIsCurrent ==
    \A s \in Sessions : tx[s] # Idle =>
       \A k \in DOMAIN tx[s].seen :
          tx[s].call.op # "edit" => RowExists(k) /\ Seen(s, k) = RowAt(k)

\* The unique indexes are a second line of defence: a sale, a claim or an
\* approval with its nested sale that passed the checks of its service function
\* never meets an IntegrityError.
IndexesNeverRefuse ==
    \A s \in Sessions :
       /\ Ready(s, "issue") \/ Ready(s, "approve") =>
             LET u == tx[s].call.unit
             IN  Issuable(Seen(s, UnitKey(u)), tx[s].clock) => NoActiveIssue(u)
       /\ Ready(s, "open") /\ tx[s].clear =>
             LET i == tx[s].call.issue
             IN  Claimable(Seen(s, IssueKey(i)), tx[s].clock) => NoOpenClaim(i)

\* Transactions are serializable: every commit is an operation of Inventory
\* on the committed tables, in one step, and nothing else changes them.
CommitsAreSerial == Spec

=============================================================================
