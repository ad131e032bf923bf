------------------------------ MODULE UnitLife ------------------------------
(***************************************************************************)
(* The life of a unit as the jobs around the inventory see it: a state and *)
(* an expiry date.  Issues, claims, renewals and the audit log are left    *)
(* out.  Inventory implements this; RenewalRetry and Outbox are built on   *)
(* it, with what they leave out of the inventory as these few steps.       *)
(***************************************************************************)
EXTENDS Integers, UnitStates, Tables

CONSTANTS
    Units,
    NoDate,         \* a NULL expiry
    RegisterDates,  \* expiry dates a unit may be registered with
    Periods,        \* renewal periods, in days
    MaxDate,        \* the last date datetime can represent
    Lag,            \* how old a clock reading may be when its transaction commits
    Horizon         \* bound on the clock

ASSUME LifeAssumption ==
    /\ MaxDate \in Nat /\ Lag \in Nat /\ Horizon \in Nat
    /\ RegisterDates \subseteq 0..MaxDate
    /\ Periods \subseteq 1..3650
    /\ NoDate \notin Nat

VARIABLES
    now,    \* the database server's date
    units   \* unit -> [state, expires_at]

vars == <<now, units>>

Row == [state : UnitState, expires_at : 0..MaxDate \cup {NoDate}]

InStock(row) == row.state \in {"available", "reserved"}

InUse(row) == row.state \in {"issued", "expired"}

\* The term is over at t.
Past(row, t) == row.expires_at # NoDate /\ row.expires_at <= t

\* The term counts from the present expiry while that lies ahead.
RenewalDate(row, d, t) ==
    d + IF row.expires_at # NoDate /\ row.expires_at > t THEN row.expires_at ELSE t

Renewed(row, d, t) ==
    [state |-> IF row.state = "expired" THEN "issued" ELSE row.state,
     expires_at |-> RenewalDate(row, d, t)]

\* The clock readings a transaction that commits now may have decided on.
ClockReadings == {t \in 0..now : now - t <= Lag}

Init == now = 0 /\ units = <<>>

-----------------------------------------------------------------------------

Add(u, e) ==
    /\ u \notin DOMAIN units
    /\ units' = Insert(units, u, [state |-> "available", expires_at |-> e])

\* Staff delete units that were never sold.
Remove(u) ==
    /\ InStock(units[u])
    /\ units' = Only(units, DOMAIN units \ {u})

Sell(u, t) ==
    /\ InStock(units[u]) /\ ~Past(units[u], t)
    /\ units' = [units EXCEPT ![u].state = "issued"]

Renew(u, d, t) ==
    /\ units[u].state # "revoked"
    /\ RenewalDate(units[u], d, t) <= MaxDate
    /\ units' = [units EXCEPT ![u] = Renewed(@, d, t)]

\* An approved claim: u is taken back, r takes its place.
Replace(u, r, t) ==
    /\ InUse(units[u])
    /\ InStock(units[r]) /\ ~Past(units[r], t)
    /\ units' = [units EXCEPT ![u].state = "revoked", ![r].state = "issued"]

Expire(stale, t) ==
    /\ stale # {}
    /\ \A u \in stale : units[u].state = "issued" /\ Past(units[u], t)
    /\ units' = [u \in DOMAIN units |->
                   IF u \in stale THEN [units[u] EXCEPT !.state = "expired"] ELSE units[u]]

Change ==
    \/ \E u \in Units, e \in RegisterDates \cup {NoDate} : Add(u, e)
    \/ \E u \in DOMAIN units : Remove(u)
    \/ \E t \in ClockReadings :
          \/ \E u \in DOMAIN units : Sell(u, t) \/ \E d \in Periods : Renew(u, d, t)
          \/ \E u, r \in DOMAIN units : Replace(u, r, t)
          \/ \E stale \in SUBSET DOMAIN units : Expire(stale, t)

Tick == now < Horizon /\ now' = now + 1 /\ UNCHANGED units

Next == (Change /\ UNCHANGED now) \/ Tick

Spec == Init /\ [][Next]_vars

=============================================================================
