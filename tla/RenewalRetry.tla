---------------------------- MODULE RenewalRetry ----------------------------
(***************************************************************************)
(* renew_unit called over a network that loses answers.  Clients order a   *)
(* term, send the request again until they have an answer, and may use a   *)
(* key twice.  A request is one transaction: look the key up, lock the     *)
(* unit and read the clock, write unit, renewal and key, commit.  What it  *)
(* raises becomes an answer as in inventory/exceptions.py.                 *)
(*                                                                         *)
(* A unit stands for its ref: nobody edits a ref between a request and its *)
(* retries.                                                                *)
(***************************************************************************)
EXTENDS UnitLife, FiniteSets

CONSTANTS
    Orders,     \* what clients want: one term each
    Keys,       \* idempotency keys; NoKey is the empty one
    NoKey,
    Prices,     \* in cents
    Sessions,   \* web workers
    Idle,       \* not placed; not working
    MaxLost     \* bound on answers lost and sessions killed

ASSUME RetryAssumption == MaxLost \in Nat

VARIABLES
    orders,     \* orders[o]: [unit, period_days, price_cents, key], or Idle
    sessions,   \* sessions[s]: [order, at, clock, answer] of a request, or Idle
    renewals,   \* Renewal pk -> [unit, period_days, price_cents, new_expires_at], and the
                \* order it is for
    records,    \* IdempotencyRecord: key -> [fingerprint, renewal]
    answers,    \* answers[o]: what reached the client
    lost

db == <<units, renewals, records>>
rvars == <<now, units, orders, sessions, renewals, records, answers, lost>>

Stage == {"lookup", "lock", "write", "reply"}

\* exception_handler: a DomainError is a 409, a missing row a 404; it knows
\* no other exception, and Django makes a 500 of it.
StatusCode(exception) ==
    IF exception \in {"IllegalTransition", "IdempotencyConflict"} THEN 409
    ELSE IF exception = "ObjectDoesNotExist" THEN 404 ELSE 500

Exceptions == {"IllegalTransition", "IdempotencyConflict", "ObjectDoesNotExist",
               "OverflowError", "IntegrityError"}

Failed(exception) == [status |-> StatusCode(exception), code |-> exception, renewal |-> 0]

Success(r) == [status |-> 200, code |-> "", renewal |-> r]

RetryInit ==
    /\ Init
    /\ orders = [o \in Orders |-> Idle]
    /\ sessions = [s \in Sessions |-> Idle]
    /\ renewals = <<>> /\ records = <<>>
    /\ answers = [o \in Orders |-> {}]
    /\ lost = 0

-----------------------------------------------------------------------------
\* The client.

Place(o) ==
    /\ orders[o] = Idle
    /\ \E u \in Units, d \in Periods, p \in Prices, k \in Keys :
          orders' = [orders EXCEPT ![o] =
                       [unit |-> u, period_days |-> d, price_cents |-> p, key |-> k]]
    /\ UNCHANGED <<now, db, sessions, answers, lost>>

\* Anything but a server error settles the order.
Settled(o) == \E a \in answers[o] : a.status # 500

\* A first request or a retry; the client may have given up on one that is
\* still being served.
Send(o, s) ==
    /\ orders[o] # Idle /\ ~Settled(o)
    /\ sessions[s] = Idle
    /\ sessions' = [sessions EXCEPT ![s] =
                      [order |-> o, at |-> "lookup", clock |-> 0, answer |-> {}]]
    /\ UNCHANGED <<now, db, orders, answers, lost>>

-----------------------------------------------------------------------------
\* The request.

At(s, stage) == sessions[s] # Idle /\ sessions[s].at = stage

OrderOf(s) == orders[sessions[s].order]

Answer(s, a) ==
    sessions' = [sessions EXCEPT ![s] =
                   [order |-> @.order, at |-> "reply", clock |-> @.clock, answer |-> {a}]]

\* Mutant of Fingerprint: the price is left out.
FingerprintUnpriced(order) == <<order.unit, order.period_days>>

Fingerprint(order) == <<order.unit, order.period_days, order.price_cents>>

\* Mutant of Seen: the key is never looked up.
SeenNever(k) == FALSE

Seen(k) == k \in DOMAIN records

LookUp(s) ==
    LET k == OrderOf(s).key
    IN  /\ At(s, "lookup")
        /\ IF ~Seen(k) THEN sessions' = [sessions EXCEPT ![s].at = "lock"]
           ELSE IF records[k].fingerprint = Fingerprint(OrderOf(s))
           THEN Answer(s, Success(records[k].renewal))
           ELSE Answer(s, Failed("IdempotencyConflict"))
        /\ UNCHANGED <<now, db, orders, answers, lost>>

Locked(u) == \E s \in Sessions : At(s, "write") /\ OrderOf(s).unit = u

\* SELECT ... FOR UPDATE, then the state and the clock.  The row stays as it
\* is until the transaction ends.
Lock(s) ==
    LET u == OrderOf(s).unit
    IN  /\ At(s, "lock")
        /\ ~Locked(u)
        /\ IF u \notin DOMAIN units THEN Answer(s, Failed("ObjectDoesNotExist"))
           ELSE IF units[u].state = "revoked" THEN Answer(s, Failed("IllegalTransition"))
           ELSE sessions' = [sessions EXCEPT ![s] =
                            [order |-> @.order, at |-> "write", clock |-> now, answer |-> {}]]
        /\ UNCHANGED <<now, db, orders, answers, lost>>

\* Mutant of Representable: the range of datetime is not enforced.
RepresentableOrNot(e) == TRUE

Representable(e) == e <= MaxDate

NewDate(s) == RenewalDate(units[OrderOf(s).unit], OrderOf(s).period_days, sessions[s].clock)

\* timedelta addition raises.
Overflow(s) ==
    /\ At(s, "write")
    /\ ~Representable(NewDate(s))
    /\ Answer(s, Failed("OverflowError"))
    /\ UNCHANGED <<now, db, orders, answers, lost>>

\* The unique key was stored since it was looked up: everything rolls back.
KeyRefused(s) ==
    /\ At(s, "write")
    /\ Representable(NewDate(s))
    /\ OrderOf(s).key \in DOMAIN records
    /\ Answer(s, Failed("IntegrityError"))
    /\ UNCHANGED <<now, db, orders, answers, lost>>

NewRenewal == Cardinality(DOMAIN renewals) + 1

\* Mutant of WithKey: the key is not stored with the renewal.
WithoutKey(order, r) == records

\* The records with the key of the order.
WithKey(order, r) ==
    IF order.key = NoKey THEN records
    ELSE Insert(records, order.key, [fingerprint |-> Fingerprint(order), renewal |-> r])

Commit(s) ==
    LET order == OrderOf(s)
    IN  /\ At(s, "write")
        /\ Representable(NewDate(s))
        /\ order.key \notin DOMAIN records
        /\ units' = [units EXCEPT ![order.unit] =
                       Renewed(@, order.period_days, sessions[s].clock)]
        /\ renewals' = Insert(renewals, NewRenewal,
                         [unit |-> order.unit, period_days |-> order.period_days,
                          price_cents |-> order.price_cents,
                          new_expires_at |-> NewDate(s), order |-> sessions[s].order])
        /\ records' = WithKey(order, NewRenewal)
        /\ Answer(s, Success(NewRenewal))
        /\ UNCHANGED <<now, orders, answers, lost>>

Reply(s) ==
    /\ At(s, "reply")
    /\ answers' = [answers EXCEPT ![sessions[s].order] = @ \cup sessions[s].answer]
    /\ sessions' = [sessions EXCEPT ![s] = Idle]
    /\ UNCHANGED <<now, db, orders, lost>>

\* The answer is lost, or the process dies before there is one.
Lose(s) ==
    /\ sessions[s] # Idle
    /\ lost < MaxLost
    /\ lost' = lost + 1
    /\ sessions' = [sessions EXCEPT ![s] = Idle]
    /\ UNCHANGED <<now, db, orders, answers>>

RequestStep(s) ==
    LookUp(s) \/ Lock(s) \/ Overflow(s) \/ KeyRefused(s) \/ Commit(s) \/ Reply(s)

\* Everyone else.  A locked row is neither changed nor deleted, and a unit
\* with renewals is not deleted.
LifeStep ==
    /\ Next
    /\ \A u \in Units : Locked(u) => u \in DOMAIN units' /\ units'[u] = units[u]
    /\ \A r \in DOMAIN renewals : renewals[r].unit \in DOMAIN units'
    /\ UNCHANGED <<orders, sessions, renewals, records, answers, lost>>

RetryNext ==
    \/ LifeStep
    \/ \E o \in Orders : Place(o) \/ \E s \in Sessions : Send(o, s)
    \/ \E s \in Sessions : RequestStep(s) \/ Lose(s)

RetrySpec == RetryInit /\ [][RetryNext]_rvars

\* A client without an answer tries again, a request that was taken on is
\* served, and PostgreSQL serves waiting transactions in turn.
FairRetrySpec ==
    /\ RetrySpec
    /\ \A o \in Orders : SF_rvars(\E s \in Sessions : Send(o, s))
    /\ \A s \in Sessions : WF_rvars(RequestStep(s)) /\ SF_rvars(Lock(s))

-----------------------------------------------------------------------------

RetryTypeOK ==
    /\ \A u \in DOMAIN units : units[u] \in Row
    /\ \A o \in Orders : orders[o] # Idle =>
          orders[o] \in [unit : Units, period_days : Periods, price_cents : Prices, key : Keys]
    /\ \A s \in Sessions : sessions[s] # Idle =>
          /\ orders[sessions[s].order] # Idle
          /\ sessions[s].at \in Stage /\ sessions[s].clock \in 0..now
    /\ \A r \in DOMAIN renewals : renewals[r].new_expires_at \in 0..MaxDate

RenewalsUnder(k) == {r \in DOMAIN renewals : orders[renewals[r].order].key = k}

RenewalArgs(r) == <<renewals[r].unit, renewals[r].period_days, renewals[r].price_cents>>

\* A key on record and the term sold under it come and go together: there is
\* a renewal under a key exactly when the key is known, it is the one on
\* record, and it is for what the fingerprint says.
KeyTellsAll ==
    \A k \in Keys \ {NoKey} :
       /\ RenewalsUnder(k) = IF k \in DOMAIN records THEN {records[k].renewal} ELSE {}
       /\ k \in DOMAIN records => records[k].fingerprint = RenewalArgs(records[k].renewal)

Keyed(o) == orders[o] # Idle /\ orders[o].key # NoKey

Asked(o) ==
    IF Keyed(o)
    THEN {[key |-> orders[o].key,
           args |-> <<orders[o].unit, orders[o].period_days, orders[o].price_cents>>]}
    ELSE {}

Bought(k) == {[args |-> RenewalArgs(r), result |-> r] : r \in RenewalsUnder(k)}

\* The answers that say whether the term was sold.
Told(o) ==
    IF Keyed(o) THEN {a.renewal : a \in {b \in answers[o] : b.code \in {"", "IdempotencyConflict"}}}
    ELSE {}

Promise == INSTANCE RenewOnce WITH
    Keys <- Keys \ {NoKey},
    Callers <- Orders,
    Args <- Units \X Periods \X Prices,
    Results <- Nat,
    Conflict <- 0,
    asked <- [o \in Orders |-> Asked(o)],
    bought <- [k \in Keys \ {NoKey} |-> Bought(k)],
    told <- [o \in Orders |-> Told(o)]

\* A key makes a retry safe: under one key one term is sold, and whoever is
\* told of success is told of that term and asked for it.
RetriesAreSafe == Promise!Spec

\* Whoever keeps asking gets to know how it ended, however the requests overlap
\* and the answers get lost: no order stays open.  Left out is only who asks for
\* a date that datetime cannot hold, while nothing is sold under the key: every
\* retry is a 500 again.
OrderSettles ==
    []<>(\A o \in Orders : orders[o] # Idle =>
            \/ Settled(o)
            \/ /\ \E a \in answers[o] : a.code = "OverflowError"
               /\ orders[o].key \notin DOMAIN records)

-----------------------------------------------------------------------------
\* Said of the program, and not so.

\* services.py, renew_unit: "With a key, the second call returns the first
\* result instead of extending the term twice."
SecondCallGetsFirstResult ==
    \A o \in Orders : \A a \in answers[o] : a.code # "IntegrityError"

\* docs/decisions.md: "A retry is not a second renewal".  The views pass no key.
RetryIsNoSecondRenewal ==
    \A o \in Orders : Cardinality({r \in DOMAIN renewals : renewals[r].order = o}) <= 1

=============================================================================
