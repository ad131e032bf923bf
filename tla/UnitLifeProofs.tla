--------------------------- MODULE UnitLifeProofs ---------------------------
(***************************************************************************)
(* What every module built on the life of the units needs to know of it:   *)
(* rows keep their type, a unit once sold is never in stock again nor      *)
(* deleted, and a unit that has a term keeps one.                          *)
(***************************************************************************)
EXTENDS UnitLife, TLAPS

UnitsTyped ==
    now \in Nat /\ DOMAIN units \subseteq Units /\ \A u \in DOMAIN units : units[u] \in Row

\* A renewal within the range of dates leaves a row of the type, and nothing in
\* stock that was not.
LEMMA RenewedType ==
    ASSUME NEW row \in Row, NEW d \in Periods, NEW t \in Nat,
           RenewalDate(row, d, t) <= MaxDate
    PROVE  /\ RenewalDate(row, d, t) \in 0..MaxDate
           /\ Renewed(row, d, t) \in Row
           /\ ~InStock(row) => ~InStock(Renewed(row, d, t))
<1>1. d \in Nat
  BY LifeAssumption
<1>2. row.state \in UnitState /\ row.expires_at \in 0..MaxDate \cup {NoDate}
  BY DEF Row
<1>3. RenewalDate(row, d, t) \in 0..MaxDate
  <2>1. CASE row.expires_at # NoDate /\ row.expires_at > t
    <3>1. RenewalDate(row, d, t) = d + row.expires_at /\ row.expires_at \in Nat
      BY <1>2, <2>1, LifeAssumption DEF RenewalDate
    <3> QED
      BY <1>1, <3>1, LifeAssumption
  <2>2. CASE ~(row.expires_at # NoDate /\ row.expires_at > t)
    <3>1. RenewalDate(row, d, t) = d + t
      BY <2>2 DEF RenewalDate
    <3> QED
      BY <1>1, <3>1, LifeAssumption
  <2> QED
    BY <2>1, <2>2
<1>4. (IF row.state = "expired" THEN "issued" ELSE row.state) \in UnitState
  BY <1>2 DEF UnitState
<1> QED
  BY <1>3, <1>4 DEF Renewed, Row, InStock

\* A unit keeps its type, and once sold it is never in stock again nor deleted.
LEMMA LifeEffect ==
    ASSUME UnitsTyped, Next
    PROVE  /\ UnitsTyped'
           /\ \A u \in DOMAIN units : ~InStock(units[u]) =>
                 u \in DOMAIN units' /\ ~InStock(units'[u])
<1>1. CASE Tick
  BY <1>1 DEF Tick, UnitsTyped
<1>2. ASSUME NEW u \in Units, NEW e \in RegisterDates \cup {NoDate}, Add(u, e), UNCHANGED now
      PROVE  /\ UnitsTyped'
             /\ \A v \in DOMAIN units : ~InStock(units[v]) =>
                   v \in DOMAIN units' /\ ~InStock(units'[v])
  <2> DEFINE x == [state |-> "available", expires_at |-> e]
  <2>1. x \in Row
    BY LifeAssumption DEF Row, UnitState
  <2>2. u \notin DOMAIN units /\ units' = Insert(units, u, x)
    BY <1>2 DEF Add
  <2> HIDE DEF x
  <2>3. /\ DOMAIN units' = DOMAIN units \cup {u} /\ units'[u] = x
        /\ \A v \in DOMAIN units : units'[v] = units[v]
    BY <2>2 DEF Insert
  <2> QED
    BY <1>2, <2>1, <2>3 DEF UnitsTyped
<1>3. ASSUME NEW u \in DOMAIN units, Remove(u), UNCHANGED now
      PROVE  /\ UnitsTyped'
             /\ \A v \in DOMAIN units : ~InStock(units[v]) =>
                   v \in DOMAIN units' /\ ~InStock(units'[v])
  <2>1. InStock(units[u]) /\ DOMAIN units' = DOMAIN units \ {u}
        /\ \A v \in DOMAIN units \ {u} : units'[v] = units[v]
    BY <1>3 DEF Remove, Only
  <2> QED
    BY <1>3, <2>1 DEF UnitsTyped
<1>4. ASSUME NEW u \in DOMAIN units, NEW x \in Row, ~InStock(x),
             DOMAIN units' = DOMAIN units, units'[u] = x,
             \A v \in DOMAIN units \ {u} : units'[v] = units[v], UNCHANGED now
      PROVE  /\ UnitsTyped'
             /\ \A v \in DOMAIN units : ~InStock(units[v]) =>
                   v \in DOMAIN units' /\ ~InStock(units'[v])
  BY <1>4 DEF UnitsTyped
<1>5. ASSUME NEW u \in DOMAIN units, NEW s \in UnitState
      PROVE  /\ [units[u] EXCEPT !.state = s] \in Row
             /\ [units[u] EXCEPT !.state = s].state = s
  BY DEF UnitsTyped, Row
<1>6. ASSUME NEW t \in ClockReadings, NEW u \in DOMAIN units, Sell(u, t), UNCHANGED now
      PROVE  /\ UnitsTyped'
             /\ \A v \in DOMAIN units : ~InStock(units[v]) =>
                   v \in DOMAIN units' /\ ~InStock(units'[v])
  <2>1. /\ DOMAIN units' = DOMAIN units
        /\ units'[u] = [units[u] EXCEPT !.state = "issued"]
        /\ \A v \in DOMAIN units \ {u} : units'[v] = units[v]
    BY <1>6 DEF Sell
  <2>2. units'[u] \in Row /\ ~InStock(units'[u])
    BY <1>5, <2>1 DEF UnitState, InStock
  <2> QED
    BY <1>4, <1>6, <2>1, <2>2
<1>7. ASSUME NEW t \in ClockReadings, NEW u \in DOMAIN units, NEW d \in Periods,
             Renew(u, d, t), UNCHANGED now
      PROVE  /\ UnitsTyped'
             /\ \A v \in DOMAIN units : ~InStock(units[v]) =>
                   v \in DOMAIN units' /\ ~InStock(units'[v])
  <2>1. /\ DOMAIN units' = DOMAIN units
        /\ units'[u] = Renewed(units[u], d, t)
        /\ \A v \in DOMAIN units \ {u} : units'[v] = units[v]
        /\ RenewalDate(units[u], d, t) <= MaxDate
    BY <1>7 DEF Renew
  <2>2. units[u] \in Row /\ t \in Nat
    BY DEF UnitsTyped, ClockReadings
  <2>3. units'[u] \in Row /\ (~InStock(units[u]) => ~InStock(units'[u]))
    BY <2>1, <2>2, RenewedType
  <2> QED
    BY <1>7, <2>1, <2>3 DEF UnitsTyped
<1>8. ASSUME NEW t \in ClockReadings, NEW u \in DOMAIN units, NEW r \in DOMAIN units,
             Replace(u, r, t), UNCHANGED now
      PROVE  /\ UnitsTyped'
             /\ \A v \in DOMAIN units : ~InStock(units[v]) =>
                   v \in DOMAIN units' /\ ~InStock(units'[v])
  <2>1. u # r
    BY <1>8 DEF Replace, InUse, InStock
  <2>2. /\ DOMAIN units' = DOMAIN units
        /\ units'[u] = [units[u] EXCEPT !.state = "revoked"]
        /\ units'[r] = [units[r] EXCEPT !.state = "issued"]
        /\ \A v \in DOMAIN units \ {u, r} : units'[v] = units[v]
    BY <1>8, <2>1 DEF Replace
  <2>3. /\ units'[u] \in Row /\ ~InStock(units'[u])
        /\ units'[r] \in Row /\ ~InStock(units'[r])
    BY <1>5, <2>2 DEF UnitState, InStock
  <2> QED
    BY <1>8, <2>2, <2>3 DEF UnitsTyped
<1>9. ASSUME NEW t \in ClockReadings, NEW stale \in SUBSET DOMAIN units,
             Expire(stale, t), UNCHANGED now
      PROVE  /\ UnitsTyped'
             /\ \A v \in DOMAIN units : ~InStock(units[v]) =>
                   v \in DOMAIN units' /\ ~InStock(units'[v])
  <2>1. /\ DOMAIN units' = DOMAIN units
        /\ \A v \in stale : units'[v] = [units[v] EXCEPT !.state = "expired"]
        /\ \A v \in DOMAIN units \ stale : units'[v] = units[v]
    BY <1>9 DEF Expire
  <2>2. ASSUME NEW v \in stale PROVE units'[v] \in Row /\ ~InStock(units'[v])
    <3>1. v \in DOMAIN units
      OBVIOUS
    <3> QED
      BY <1>5, <2>1, <3>1 DEF UnitState, InStock
  <2> QED
    BY <1>9, <2>1, <2>2 DEF UnitsTyped
<1> QED
  BY <1>1, <1>2, <1>3, <1>6, <1>7, <1>8, <1>9 DEF Next, Change

\* A unit that has a term has one as long as it is there.
LEMMA TermsStay ==
    ASSUME UnitsTyped, Next, NEW u \in DOMAIN units, u \in DOMAIN units',
           units[u].expires_at # NoDate
    PROVE  units'[u].expires_at # NoDate
<1>1. CASE Tick
  BY <1>1 DEF Tick
<1>2. ASSUME NEW v \in Units, NEW e, Add(v, e) PROVE units'[u] = units[u]
  <2>1. v # u /\ units' = Insert(units, v, [state |-> "available", expires_at |-> e])
    BY <1>2 DEF Add
  <2> QED
    BY <2>1 DEF Insert
<1>3. ASSUME NEW v \in DOMAIN units, Remove(v) PROVE units'[u] = units[u]
  BY <1>3 DEF Remove, Only
<1>4. ASSUME NEW t, NEW v \in DOMAIN units, Sell(v, t)
      PROVE  units'[u].expires_at = units[u].expires_at
  BY <1>4 DEF UnitsTyped, Row, Sell
<1>5. ASSUME NEW t \in ClockReadings, NEW v \in DOMAIN units, NEW d \in Periods, Renew(v, d, t)
      PROVE  units'[u].expires_at # NoDate
  <2>1. CASE u # v
    BY <1>5, <2>1 DEF Renew
  <2>2. CASE u = v
    <3>1. units'[u] = Renewed(units[u], d, t) /\ RenewalDate(units[u], d, t) <= MaxDate
      BY <1>5, <2>2 DEF Renew
    <3>2. RenewalDate(units[u], d, t) \in Nat
      BY LifeAssumption DEF UnitsTyped, Row, RenewalDate, ClockReadings
    <3>3. units'[u].expires_at = RenewalDate(units[u], d, t)
      BY <3>1 DEF Renewed
    <3> QED
      BY <3>2, <3>3, LifeAssumption
  <2> QED
    BY <2>1, <2>2
<1>6. ASSUME NEW t, NEW v \in DOMAIN units, NEW r \in DOMAIN units, Replace(v, r, t)
      PROVE  units'[u].expires_at = units[u].expires_at
  BY <1>6 DEF UnitsTyped, Row, Replace
<1>7. ASSUME NEW t, NEW stale \in SUBSET DOMAIN units, Expire(stale, t)
      PROVE  units'[u].expires_at = units[u].expires_at
  BY <1>7 DEF UnitsTyped, Row, Expire
<1> QED
  BY <1>1, <1>2, <1>3, <1>4, <1>5, <1>6, <1>7 DEF Next, Change

=============================================================================
