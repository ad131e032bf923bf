----------------------------- MODULE RetryProofs ----------------------------
(***************************************************************************)
(* Proof that an idempotency key makes a retry safe, for any number of     *)
(* orders, keys and sessions and any number of lost answers.               *)
(***************************************************************************)
EXTENDS RenewalRetry, UnitLifeProofs, FiniteSetTheorems

OrderRow == [unit : Units, period_days : Periods, price_cents : Prices, key : Keys]

AnswerRow == [status : {200, 404, 409, 500}, code : Exceptions \cup {""}, renewal : Nat]

SessionRow == [order : Orders, at : Stage, clock : Nat, answer : SUBSET AnswerRow]

\* Types, and who refers to whom: sessions, renewals and answers to placed orders.
Shape ==
    /\ now \in Nat
    /\ DOMAIN orders = Orders
    /\ \A o \in Orders : orders[o] # Idle => orders[o] \in OrderRow
    /\ DOMAIN sessions = Sessions
    /\ \A s \in Sessions : sessions[s] # Idle =>
          sessions[s] \in SessionRow /\ orders[sessions[s].order] # Idle
    /\ DOMAIN answers = Orders
    /\ \A o \in Orders : orders[o] = Idle => answers[o] = {}
    /\ \E n \in Nat : DOMAIN renewals = 1..n
    /\ \A r \in DOMAIN renewals :
          renewals[r].order \in Orders /\ orders[renewals[r].order] # Idle

\* The records: never of the empty key, and each for the term its fingerprint says.
Recorded ==
    /\ NoKey \notin DOMAIN records
    /\ \A k \in DOMAIN records :
          /\ records[k].renewal \in DOMAIN renewals
          /\ records[k].fingerprint = RenewalArgs(records[k].renewal)

\* What answer a may say to order o.
Honest(o, a) ==
    LET k == orders[o].key
    IN  /\ a.code = "" => /\ k \in DOMAIN records
                          /\ a.renewal = records[k].renewal
                          /\ records[k].fingerprint = Fingerprint(orders[o])
        /\ a.code = "IdempotencyConflict" => /\ k \in DOMAIN records
                                             /\ a.renewal = 0
                                             /\ records[k].fingerprint # Fingerprint(orders[o])

\* A session that is about to reply has one answer, and an honest one.
AnswersHonest ==
    \A s \in Sessions : At(s, "reply") =>
       \E a \in AnswerRow : /\ sessions[s].answer = {a}
                            /\ Keyed(sessions[s].order) => Honest(sessions[s].order, a)

RetryInv == Shape /\ Recorded /\ KeyTellsAll /\ AnswersHonest

-----------------------------------------------------------------------------

LEMMA FailedType ==
    ASSUME NEW e \in Exceptions
    PROVE  Failed(e) \in AnswerRow /\ Failed(e).code = e /\ Failed(e).renewal = 0
<1>1. StatusCode(e) \in {200, 404, 409, 500}
  BY DEF StatusCode
<1> QED
  BY <1>1 DEF Failed, AnswerRow

LEMMA SuccessType ==
    ASSUME NEW r \in Nat
    PROVE  Success(r) \in AnswerRow /\ Success(r).code = "" /\ Success(r).renewal = r
BY DEF Success, AnswerRow

LEMMA NewRenewalIsNew ==
    ASSUME NEW n \in Nat, DOMAIN renewals = 1..n
    PROVE  NewRenewal = n + 1
<1>1. Cardinality(1..n) = n
  BY FS_Interval
<1> QED
  BY <1>1 DEF NewRenewal

\* What a request writes into its session.
LEMMA AnswerEffect ==
    ASSUME Shape, NEW s \in Sessions, sessions[s] # Idle, NEW a \in AnswerRow, Answer(s, a)
    PROVE  /\ DOMAIN sessions' = Sessions
           /\ \A z \in Sessions \ {s} : sessions'[z] = sessions[z]
           /\ sessions'[s] \in SessionRow
           /\ sessions'[s].order = sessions[s].order
           /\ sessions'[s].answer = {a}
<1>1. sessions'[s] = [order |-> sessions[s].order, at |-> "reply",
                      clock |-> sessions[s].clock, answer |-> {a}]
  BY DEF Shape, Answer
<1>2. sessions[s].order \in Orders /\ sessions[s].clock \in Nat
  BY DEF Shape, SessionRow
<1>3. /\ DOMAIN sessions' = Sessions
      /\ \A z \in Sessions \ {s} : sessions'[z] = sessions[z]
  BY DEF Shape, Answer
<1> QED
  BY <1>1, <1>2, <1>3 DEF SessionRow, Stage

\* Steps that leave orders, renewals and records alone.
LEMMA RecordsKept ==
    ASSUME Recorded, KeyTellsAll, UNCHANGED <<orders, renewals, records>>
    PROVE  Recorded' /\ KeyTellsAll'
BY DEF Recorded, KeyTellsAll, RenewalsUnder, RenewalArgs

\* A step that changes no table and at most one session, which is not left
\* about to reply.
LEMMA SessionMoves ==
    ASSUME RetryInv, NEW s \in Sessions,
           UNCHANGED <<orders, renewals, records, answers>>, now' \in Nat,
           DOMAIN sessions' = Sessions,
           \A z \in Sessions \ {s} : sessions'[z] = sessions[z],
           sessions'[s] # Idle =>
              /\ sessions'[s] \in SessionRow /\ orders[sessions'[s].order] # Idle
              /\ sessions'[s].at # "reply"
    PROVE  RetryInv'
<1>1. Recorded' /\ KeyTellsAll'
  BY RecordsKept DEF RetryInv
<1>2. Shape'
  <2>1. ASSUME NEW z \in Sessions, sessions'[z] # Idle
        PROVE  sessions'[z] \in SessionRow /\ orders[sessions'[z].order] # Idle
    BY <2>1 DEF RetryInv, Shape
  <2> QED
    BY <2>1 DEF RetryInv, Shape
<1>3. AnswersHonest'
  <2>. SUFFICES ASSUME NEW z \in Sessions, sessions'[z] # Idle, sessions'[z].at = "reply"
                PROVE  (\E b \in AnswerRow :
                           /\ sessions[z].answer = {b}
                           /\ Keyed(sessions[z].order) => Honest(sessions[z].order, b))'
    BY DEF AnswersHonest, At
  <2>1. \A o, b : (Keyed(o)' <=> Keyed(o)) /\ (Honest(o, b)' <=> Honest(o, b))
    BY DEF Keyed, Honest, Fingerprint
  <2>2. z # s /\ sessions'[z] = sessions[z] /\ At(z, "reply")
    BY DEF At
  <2> QED
    BY <2>1, <2>2 DEF RetryInv, AnswersHonest
<1> QED
  BY <1>1, <1>2, <1>3 DEF RetryInv

\* A request that ends with an honest answer and without a change to the tables.
LEMMA SessionAnswers ==
    ASSUME RetryInv, NEW s \in Sessions, sessions[s] # Idle,
           NEW a \in AnswerRow, Answer(s, a),
           Keyed(sessions[s].order) => Honest(sessions[s].order, a),
           UNCHANGED <<now, orders, renewals, records, answers>>
    PROVE  RetryInv'
<1>1. Recorded' /\ KeyTellsAll'
  BY RecordsKept DEF RetryInv
<1>2. /\ DOMAIN sessions' = Sessions
      /\ \A z \in Sessions \ {s} : sessions'[z] = sessions[z]
      /\ sessions'[s] \in SessionRow
      /\ sessions'[s].order = sessions[s].order
      /\ sessions'[s].answer = {a}
  BY AnswerEffect DEF RetryInv
<1>3. Shape'
  <2>1. ASSUME NEW z \in Sessions, sessions'[z] # Idle
        PROVE  sessions'[z] \in SessionRow /\ orders[sessions'[z].order] # Idle
    BY <1>2, <2>1 DEF RetryInv, Shape
  <2> QED
    BY <1>2, <2>1 DEF RetryInv, Shape
<1>4. AnswersHonest'
  <2>. SUFFICES ASSUME NEW z \in Sessions, sessions'[z] # Idle, sessions'[z].at = "reply"
                PROVE  (\E b \in AnswerRow :
                           /\ sessions[z].answer = {b}
                           /\ Keyed(sessions[z].order) => Honest(sessions[z].order, b))'
    BY DEF AnswersHonest, At
  <2>1. \A o, b : (Keyed(o)' <=> Keyed(o)) /\ (Honest(o, b)' <=> Honest(o, b))
    BY DEF Keyed, Honest, Fingerprint
  <2>2. CASE z = s
    BY <1>2, <2>1, <2>2
  <2>3. CASE z # s
    <3>1. sessions'[z] = sessions[z] /\ At(z, "reply")
      BY <1>2, <2>3 DEF At
    <3> QED
      BY <2>1, <3>1 DEF RetryInv, AnswersHonest
  <2> QED
    BY <2>2, <2>3
<1> QED
  BY <1>1, <1>3, <1>4 DEF RetryInv

\* An answer that says nothing of the term is honest.
LEMMA FailureIsHonest ==
    ASSUME NEW e \in Exceptions \ {"IdempotencyConflict"}, NEW o
    PROVE  Honest(o, Failed(e))
BY FailedType DEF Honest, Exceptions

-----------------------------------------------------------------------------
\* One lemma per action.

LEMMA InitInv == RetryInit => RetryInv
<1>. SUFFICES ASSUME RetryInit PROVE RetryInv
  OBVIOUS
<1>1. /\ now = 0 /\ orders = [o \in Orders |-> Idle] /\ sessions = [s \in Sessions |-> Idle]
      /\ DOMAIN renewals = {} /\ DOMAIN records = {} /\ answers = [o \in Orders |-> {}]
  BY DEF RetryInit, Init
<1>2. Shape
  <2>1. DOMAIN renewals = 1..0
    BY <1>1
  <2> QED
    BY <1>1, <2>1 DEF Shape
<1>3. Recorded /\ KeyTellsAll
  BY <1>1 DEF Recorded, KeyTellsAll, RenewalsUnder
<1>4. AnswersHonest
  BY <1>1 DEF AnswersHonest, At
<1> QED
  BY <1>2, <1>3, <1>4 DEF RetryInv

LEMMA LifeStepInv == RetryInv /\ LifeStep => RetryInv'
<1>. SUFFICES ASSUME RetryInv, LifeStep PROVE RetryInv'
  OBVIOUS
<1>1. now' \in Nat /\ UNCHANGED <<orders, sessions, renewals, records, answers>>
  BY DEF LifeStep, Next, Tick, RetryInv, Shape
<1>2. Recorded' /\ KeyTellsAll'
  BY <1>1, RecordsKept DEF RetryInv
<1>3. Shape'
  BY <1>1 DEF RetryInv, Shape
<1>4. AnswersHonest'
  BY <1>1 DEF RetryInv, AnswersHonest, At, Honest, Keyed, Fingerprint
<1> QED
  BY <1>2, <1>3, <1>4 DEF RetryInv

\* Placing an order concerns nobody who refers to another.
LEMMA PlaceEffect ==
    ASSUME RetryInv, NEW o \in Orders, Place(o)
    PROVE  /\ DOMAIN orders' = Orders
           /\ orders[o] = Idle
           /\ orders'[o] \in OrderRow
           /\ \A p \in Orders \ {o} : orders'[p] = orders[p]
           /\ \A r \in DOMAIN renewals : orders'[renewals[r].order] = orders[renewals[r].order]
           /\ \A s \in Sessions : sessions[s] # Idle =>
                 orders'[sessions[s].order] = orders[sessions[s].order]
<1>1. PICK u \in Units, d \in Periods, c \in Prices, k \in Keys :
         orders' = [orders EXCEPT ![o] =
                      [unit |-> u, period_days |-> d, price_cents |-> c, key |-> k]]
  BY DEF Place
<1>2. orders[o] = Idle
  BY DEF Place
<1>3. /\ DOMAIN orders' = Orders
      /\ orders'[o] \in OrderRow
      /\ \A p \in Orders \ {o} : orders'[p] = orders[p]
  BY <1>1 DEF RetryInv, Shape, OrderRow
<1>4. \A r \in DOMAIN renewals : renewals[r].order \in Orders \ {o}
  BY <1>2 DEF RetryInv, Shape
<1>5. \A s \in Sessions : sessions[s] # Idle => sessions[s].order \in Orders \ {o}
  BY <1>2 DEF RetryInv, Shape, SessionRow
<1> QED
  BY <1>2, <1>3, <1>4, <1>5

LEMMA PlaceInv ==
    ASSUME RetryInv, NEW o \in Orders, Place(o)
    PROVE  RetryInv'
<1>1. UNCHANGED <<now, renewals, records, sessions, answers>>
  BY DEF Place, db
<1>2. /\ DOMAIN orders' = Orders
      /\ orders[o] = Idle /\ orders'[o] \in OrderRow
      /\ \A p \in Orders \ {o} : orders'[p] = orders[p]
      /\ \A r \in DOMAIN renewals : orders'[renewals[r].order] = orders[renewals[r].order]
      /\ \A s \in Sessions : sessions[s] # Idle =>
            orders'[sessions[s].order] = orders[sessions[s].order]
  BY PlaceEffect
<1>3. Shape'
  <2>1. \A p \in Orders : orders'[p] = Idle => answers[p] = {}
    BY <1>2 DEF RetryInv, Shape
  <2> QED
    BY <1>1, <1>2, <2>1 DEF RetryInv, Shape
<1>4. Recorded' /\ KeyTellsAll'
  BY <1>1, <1>2 DEF RetryInv, Recorded, KeyTellsAll, RenewalsUnder, RenewalArgs
<1>5. AnswersHonest'
  <2>1. \A p, a : orders'[p] = orders[p] =>
           (Keyed(p)' <=> Keyed(p)) /\ (Honest(p, a)' <=> Honest(p, a))
    BY <1>1 DEF Honest, Keyed, Fingerprint
  <2>2. ASSUME NEW s \in Sessions, At(s, "reply")
        PROVE  \E a \in AnswerRow : /\ sessions[s].answer = {a}
                  /\ (Keyed(sessions[s].order) => Honest(sessions[s].order, a))
                  /\ orders'[sessions[s].order] = orders[sessions[s].order]
    BY <1>2, <2>2 DEF RetryInv, AnswersHonest, At
  <2>3. \A s \in Sessions : At(s, "reply")' <=> At(s, "reply")
    BY <1>1 DEF At
  <2> QED
    BY <1>1, <2>1, <2>2, <2>3 DEF AnswersHonest
<1> QED
  BY <1>3, <1>4, <1>5 DEF RetryInv

LEMMA SendInv ==
    ASSUME RetryInv, NEW o \in Orders, NEW s \in Sessions, Send(o, s)
    PROVE  RetryInv'
<1>1. /\ UNCHANGED <<now, orders, renewals, records, answers>>
      /\ sessions' = [sessions EXCEPT ![s] =
                        [order |-> o, at |-> "lookup", clock |-> 0, answer |-> {}]]
      /\ orders[o] # Idle
  BY DEF Send, db
<1>2. /\ sessions'[s] = [order |-> o, at |-> "lookup", clock |-> 0, answer |-> {}]
      /\ DOMAIN sessions' = Sessions
      /\ \A z \in Sessions \ {s} : sessions'[z] = sessions[z]
  BY <1>1 DEF RetryInv, Shape
<1>3. sessions'[s] \in SessionRow /\ sessions'[s].order = o /\ sessions'[s].at # "reply"
  BY <1>2 DEF SessionRow, Stage
<1>4. now' \in Nat
  BY <1>1 DEF RetryInv, Shape
<1> QED
  BY <1>1, <1>2, <1>3, <1>4, SessionMoves

LEMMA LookUpInv ==
    ASSUME RetryInv, NEW s \in Sessions, LookUp(s)
    PROVE  RetryInv'
<1>1. /\ UNCHANGED <<now, orders, renewals, records, answers>> /\ now' \in Nat
      /\ sessions[s] # Idle /\ sessions[s] \in SessionRow /\ orders[sessions[s].order] # Idle
  BY DEF LookUp, db, At, RetryInv, Shape
<1>2. CASE ~Seen(OrderOf(s).key)
  <2>1. sessions' = [sessions EXCEPT ![s].at = "lock"]
    BY <1>2 DEF LookUp
  <2>2. /\ sessions'[s] = [sessions[s] EXCEPT !.at = "lock"]
        /\ DOMAIN sessions' = Sessions
        /\ \A z \in Sessions \ {s} : sessions'[z] = sessions[z]
    BY <2>1 DEF RetryInv, Shape
  <2>3. /\ sessions'[s] \in SessionRow
        /\ sessions'[s].order = sessions[s].order
        /\ sessions'[s].at # "reply"
    BY <1>1, <2>2 DEF SessionRow, Stage
  <2> QED
    BY <1>1, <2>2, <2>3, SessionMoves
<1>3. CASE /\ Seen(OrderOf(s).key)
           /\ records[OrderOf(s).key].fingerprint = Fingerprint(OrderOf(s))
  <2> DEFINE a == Success(records[OrderOf(s).key].renewal)
  <2>1. Answer(s, a)
    BY <1>3 DEF LookUp
  <2>2. records[OrderOf(s).key].renewal \in Nat
    BY <1>3 DEF Seen, RetryInv, Recorded, Shape
  <2>3. a \in AnswerRow /\ a.code = "" /\ a.renewal = records[OrderOf(s).key].renewal
    BY <2>2, SuccessType
  <2>4. Honest(sessions[s].order, a)
    BY <1>3, <2>3 DEF Honest, OrderOf, Seen
  <2> HIDE DEF a
  <2> QED
    BY <1>1, <2>1, <2>3, <2>4, SessionAnswers
<1>4. CASE /\ Seen(OrderOf(s).key)
           /\ records[OrderOf(s).key].fingerprint # Fingerprint(OrderOf(s))
  <2> DEFINE a == Failed("IdempotencyConflict")
  <2>1. Answer(s, a)
    BY <1>4 DEF LookUp
  <2>2. a \in AnswerRow /\ a.code = "IdempotencyConflict" /\ a.renewal = 0
    BY FailedType DEF Exceptions
  <2>3. Honest(sessions[s].order, a)
    BY <1>4, <2>2 DEF Honest, OrderOf, Seen
  <2> HIDE DEF a
  <2> QED
    BY <1>1, <2>1, <2>2, <2>3, SessionAnswers
<1> QED
  BY <1>2, <1>3, <1>4

\* The failures after the look-up.
LEMMA FailureInv ==
    ASSUME RetryInv, NEW s \in Sessions, sessions[s] # Idle,
           NEW e \in Exceptions \ {"IdempotencyConflict"}, Answer(s, Failed(e)),
           UNCHANGED <<now, orders, renewals, records, answers>>
    PROVE  RetryInv'
<1>1. Failed(e) \in AnswerRow /\ Honest(sessions[s].order, Failed(e))
  BY FailedType, FailureIsHonest
<1> QED
  BY <1>1, SessionAnswers

LEMMA LockInv ==
    ASSUME RetryInv, NEW s \in Sessions, Lock(s)
    PROVE  RetryInv'
<1>1. /\ UNCHANGED <<now, orders, renewals, records, answers>> /\ now \in Nat /\ now' \in Nat
      /\ sessions[s] # Idle /\ sessions[s] \in SessionRow /\ orders[sessions[s].order] # Idle
  BY DEF Lock, db, At, RetryInv, Shape
<1>2. CASE Answer(s, Failed("ObjectDoesNotExist"))
  BY <1>1, <1>2, FailureInv DEF Exceptions
<1>3. CASE Answer(s, Failed("IllegalTransition"))
  BY <1>1, <1>3, FailureInv DEF Exceptions
<1>4. CASE sessions' = [sessions EXCEPT ![s] =
              [order |-> @.order, at |-> "write", clock |-> now, answer |-> {}]]
  <2>1. /\ sessions'[s] = [order |-> sessions[s].order, at |-> "write",
                           clock |-> now, answer |-> {}]
        /\ DOMAIN sessions' = Sessions
        /\ \A z \in Sessions \ {s} : sessions'[z] = sessions[z]
    BY <1>4 DEF RetryInv, Shape
  <2>2. sessions[s].order \in Orders
    BY <1>1 DEF SessionRow
  <2>3. /\ sessions'[s] \in SessionRow
        /\ sessions'[s].order = sessions[s].order
        /\ sessions'[s].at # "reply"
    BY <1>1, <2>1, <2>2 DEF SessionRow, Stage
  <2> QED
    BY <1>1, <2>1, <2>3, SessionMoves
<1> QED
  BY <1>2, <1>3, <1>4 DEF Lock

LEMMA OverflowInv ==
    ASSUME RetryInv, NEW s \in Sessions, Overflow(s)
    PROVE  RetryInv'
<1>1. /\ UNCHANGED <<now, orders, renewals, records, answers>>
      /\ sessions[s] # Idle /\ Answer(s, Failed("OverflowError"))
  BY DEF Overflow, db, At
<1> QED
  BY <1>1, FailureInv DEF Exceptions

LEMMA KeyRefusedInv ==
    ASSUME RetryInv, NEW s \in Sessions, KeyRefused(s)
    PROVE  RetryInv'
<1>1. /\ UNCHANGED <<now, orders, renewals, records, answers>>
      /\ sessions[s] # Idle /\ Answer(s, Failed("IntegrityError"))
  BY DEF KeyRefused, db, At
<1> QED
  BY <1>1, FailureInv DEF Exceptions

\* What a commit writes: a new renewal, with the key of the order unless that
\* is the empty one, and an answer that names it.
LEMMA CommitEffect ==
    ASSUME RetryInv, NEW s \in Sessions, Commit(s)
    PROVE  /\ sessions[s] # Idle
           /\ sessions[s].order \in Orders /\ OrderOf(s) \in OrderRow
           /\ NewRenewal \in Nat \ DOMAIN renewals
           /\ DOMAIN renewals' = DOMAIN renewals \cup {NewRenewal}
           /\ \E n \in Nat : DOMAIN renewals' = 1..n
           /\ \A r \in DOMAIN renewals : renewals'[r] = renewals[r]
           /\ renewals'[NewRenewal].order = sessions[s].order
           /\ renewals'[NewRenewal].unit = OrderOf(s).unit
           /\ renewals'[NewRenewal].period_days = OrderOf(s).period_days
           /\ renewals'[NewRenewal].price_cents = OrderOf(s).price_cents
           /\ OrderOf(s).key \notin DOMAIN records
           /\ records' = WithKey(OrderOf(s), NewRenewal)
           /\ Answer(s, Success(NewRenewal))
           /\ UNCHANGED <<now, orders, answers>>
<1>1. /\ sessions[s] # Idle
      /\ OrderOf(s).key \notin DOMAIN records
      /\ records' = WithKey(OrderOf(s), NewRenewal)
      /\ Answer(s, Success(NewRenewal))
      /\ UNCHANGED <<now, orders, answers>>
  BY DEF Commit, At
<1>2. sessions[s].order \in Orders /\ OrderOf(s) \in OrderRow
  BY <1>1 DEF RetryInv, Shape, SessionRow, OrderOf
<1>3. PICK n \in Nat : DOMAIN renewals = 1..n
  BY DEF RetryInv, Shape
<1>4. NewRenewal = n + 1
  BY <1>3, NewRenewalIsNew
<1>5. /\ NewRenewal \in Nat \ DOMAIN renewals
      /\ DOMAIN renewals \cup {NewRenewal} = 1..(n + 1)
  BY <1>3, <1>4
<1> DEFINE x == [unit |-> OrderOf(s).unit, period_days |-> OrderOf(s).period_days,
                 price_cents |-> OrderOf(s).price_cents,
                 new_expires_at |-> NewDate(s), order |-> sessions[s].order]
<1>6. renewals' = Insert(renewals, NewRenewal, x)
  BY DEF Commit
<1>7. /\ x.unit = OrderOf(s).unit /\ x.period_days = OrderOf(s).period_days
      /\ x.price_cents = OrderOf(s).price_cents /\ x.order = sessions[s].order
  OBVIOUS
<1> HIDE DEF x
<1>8. /\ DOMAIN renewals' = DOMAIN renewals \cup {NewRenewal}
      /\ \A r \in DOMAIN renewals : renewals'[r] = renewals[r]
      /\ renewals'[NewRenewal] = x
  BY <1>5, <1>6 DEF Insert
<1> QED
  BY <1>1, <1>2, <1>5, <1>7, <1>8

LEMMA CommitInv ==
    ASSUME RetryInv, NEW s \in Sessions, Commit(s)
    PROVE  RetryInv'
<1> DEFINE order == OrderOf(s)
           R == NewRenewal
<1>1. /\ sessions[s] # Idle /\ orders[sessions[s].order] # Idle
      /\ sessions[s].order \in Orders /\ order \in OrderRow
      /\ order = orders[sessions[s].order]
      /\ UNCHANGED <<now, orders, answers>>
  BY CommitEffect DEF RetryInv, Shape, OrderOf
<1>2. /\ R \in Nat \ DOMAIN renewals
      /\ DOMAIN renewals' = DOMAIN renewals \cup {R}
      /\ \E n \in Nat : DOMAIN renewals' = 1..n
      /\ \A r \in DOMAIN renewals : renewals'[r] = renewals[r]
      /\ renewals'[R].order = sessions[s].order
      /\ renewals'[R].unit = order.unit
      /\ renewals'[R].period_days = order.period_days
      /\ renewals'[R].price_cents = order.price_cents
  BY CommitEffect
<1>3. order.key \notin DOMAIN records /\ records' = WithKey(order, R)
  BY CommitEffect
<1>4. Answer(s, Success(R))
  BY CommitEffect
<1>5. order.key # NoKey =>
         /\ DOMAIN records' = DOMAIN records \cup {order.key}
         /\ \A k \in DOMAIN records : records'[k] = records[k]
         /\ records'[order.key] = [fingerprint |-> Fingerprint(order), renewal |-> R]
  BY <1>3 DEF WithKey, Insert
<1>6. order.key = NoKey => records' = records
  BY <1>3 DEF WithKey
<1> HIDE DEF order, R
<1>7. /\ DOMAIN sessions' = Sessions
      /\ \A z \in Sessions \ {s} : sessions'[z] = sessions[z]
      /\ sessions'[s] \in SessionRow
      /\ sessions'[s].order = sessions[s].order
      /\ sessions'[s].answer = {Success(R)}
      /\ Success(R) \in AnswerRow /\ Success(R).code = "" /\ Success(R).renewal = R
  BY <1>1, <1>2, <1>4, AnswerEffect, SuccessType DEF RetryInv
<1>8. Shape'
  <2>1. ASSUME NEW z \in Sessions, sessions'[z] # Idle
        PROVE  sessions'[z] \in SessionRow /\ orders[sessions'[z].order] # Idle
    BY <1>1, <1>7, <2>1 DEF RetryInv, Shape
  <2>2. \A r \in DOMAIN renewals' :
           renewals'[r].order \in Orders /\ orders[renewals'[r].order] # Idle
    BY <1>1, <1>2 DEF RetryInv, Shape
  <2> QED
    BY <1>1, <1>2, <1>7, <2>1, <2>2 DEF RetryInv, Shape
<1>a. \A r \in DOMAIN renewals : RenewalArgs(r)' = RenewalArgs(r)
  BY <1>2 DEF RenewalArgs
<1>b. \A r : r = R => RenewalArgs(r)' = Fingerprint(order)
  BY <1>2 DEF RenewalArgs, Fingerprint
<1>c. ASSUME NEW k \in DOMAIN records'
      PROVE  \E r \in DOMAIN renewals' :
                records'[k].renewal = r /\ records'[k].fingerprint = RenewalArgs(r)'
  <2>1. CASE k = order.key /\ order.key # NoKey
    <3>1. /\ records'[k].renewal = R /\ records'[k].fingerprint = Fingerprint(order)
          /\ R \in DOMAIN renewals'
      BY <1>2, <1>5, <2>1
    <3>2. PICK r \in DOMAIN renewals' : r = R
      BY <3>1
    <3>3. RenewalArgs(r)' = Fingerprint(order)
      BY <1>b, <3>2
    <3> QED
      BY <3>1, <3>2, <3>3
  <2>2. CASE k # order.key \/ order.key = NoKey
    <3>1. k \in DOMAIN records /\ records'[k] = records[k]
      BY <1>c, <1>5, <1>6, <2>2
    <3>2. PICK r \in DOMAIN renewals :
             records[k].renewal = r /\ records[k].fingerprint = RenewalArgs(r)
      BY <3>1 DEF RetryInv, Recorded
    <3> QED
      BY <1>2, <1>a, <3>1, <3>2
  <2> QED
    BY <2>1, <2>2
<1>9. Recorded'
  <2>1. NoKey \notin DOMAIN records'
    BY <1>5, <1>6 DEF RetryInv, Recorded
  <2>2. \A k \in DOMAIN records' :
           /\ records'[k].renewal \in DOMAIN renewals'
           /\ records'[k].fingerprint = <<renewals'[records'[k].renewal].unit,
                                          renewals'[records'[k].renewal].period_days,
                                          renewals'[records'[k].renewal].price_cents>>
    BY <1>c DEF RenewalArgs
  <2> QED
    BY <2>1, <2>2 DEF Recorded, RenewalArgs
<1>10. KeyTellsAll'
  <2>1. ASSUME NEW k \in Keys \ {NoKey}
        PROVE  RenewalsUnder(k)' = RenewalsUnder(k) \cup IF order.key = k THEN {R} ELSE {}
    BY <1>1, <1>2 DEF RenewalsUnder
  <2>2. ASSUME NEW k \in Keys \ {NoKey}
        PROVE  RenewalsUnder(k)' = IF k \in DOMAIN records' THEN {records'[k].renewal} ELSE {}
    <3>1. CASE order.key = k
      BY <1>3, <1>5, <2>1, <3>1 DEF RetryInv, KeyTellsAll
    <3>2. CASE order.key # k
      BY <1>5, <1>6, <2>1, <3>2 DEF RetryInv, KeyTellsAll
    <3> QED
      BY <3>1, <3>2
  <2> QED
    BY <1>9, <2>2 DEF KeyTellsAll, Recorded
<1>11. AnswersHonest'
  <2>. SUFFICES ASSUME NEW z \in Sessions, sessions'[z] # Idle, sessions'[z].at = "reply"
                PROVE  (\E b \in AnswerRow :
                           /\ sessions[z].answer = {b}
                           /\ Keyed(sessions[z].order) => Honest(sessions[z].order, b))'
    BY DEF AnswersHonest, At
  <2>1. \A o, b : (Keyed(o)' <=> Keyed(o)) /\ (Honest(o, b) => Honest(o, b)')
    BY <1>1, <1>5, <1>6 DEF Keyed, Honest, Fingerprint
  <2>2. CASE z = s
    <3>a. order.key # NoKey =>
             /\ order.key \in DOMAIN records'
             /\ records'[order.key].renewal = R
             /\ records'[order.key].fingerprint = Fingerprint(order)
      BY <1>5
    <3>1. \A o, b : /\ o = sessions[s].order /\ b \in AnswerRow
                    /\ b.code = "" /\ b.renewal = R /\ Keyed(o)'
                    => Honest(o, b)'
      <4>. SUFFICES ASSUME NEW o, o = sessions[s].order, NEW b \in AnswerRow,
                           b.code = "", b.renewal = R, Keyed(o)'
                    PROVE  Honest(o, b)'
        OBVIOUS
      <4>1. orders'[o] = order /\ order.key # NoKey
        BY <1>1 DEF Keyed
      <4>2. b.code # "IdempotencyConflict"
        OBVIOUS
      <4> QED
        BY <3>a, <4>1, <4>2 DEF Honest, Fingerprint
    <3> QED
      BY <1>7, <2>2, <3>1
  <2>3. CASE z # s
    <3>1. sessions'[z] = sessions[z] /\ At(z, "reply")
      BY <1>7, <2>3 DEF At
    <3> QED
      BY <2>1, <3>1 DEF RetryInv, AnswersHonest
  <2> QED
    BY <2>2, <2>3
<1> QED
  BY <1>8, <1>9, <1>10, <1>11 DEF RetryInv

LEMMA ReplyInv ==
    ASSUME RetryInv, NEW s \in Sessions, Reply(s)
    PROVE  RetryInv'
<1>1. /\ UNCHANGED <<now, orders, renewals, records>>
      /\ sessions[s] # Idle
      /\ sessions' = [sessions EXCEPT ![s] = Idle]
      /\ answers' = [answers EXCEPT ![sessions[s].order] = @ \cup sessions[s].answer]
  BY DEF Reply, db, At
<1>2. Recorded' /\ KeyTellsAll'
  BY <1>1, RecordsKept DEF RetryInv
<1>3. /\ DOMAIN sessions' = Sessions
      /\ \A z \in Sessions : sessions'[z] # Idle => sessions'[z] = sessions[z]
      /\ DOMAIN answers' = Orders
      /\ \A o \in Orders : orders[o] = Idle => answers'[o] = answers[o]
  BY <1>1 DEF RetryInv, Shape
<1>4. Shape'
  BY <1>1, <1>3 DEF RetryInv, Shape
<1>5. AnswersHonest'
  <2>1. \A z \in Sessions : At(z, "reply")' => At(z, "reply") /\ sessions'[z] = sessions[z]
    BY <1>3 DEF At
  <2>2. \A o, a : (Keyed(o)' <=> Keyed(o)) /\ (Honest(o, a)' <=> Honest(o, a))
    BY <1>1 DEF Honest, Keyed, Fingerprint
  <2> QED
    BY <2>1, <2>2 DEF RetryInv, AnswersHonest
<1> QED
  BY <1>2, <1>4, <1>5 DEF RetryInv

LEMMA LoseInv ==
    ASSUME RetryInv, NEW s \in Sessions, Lose(s)
    PROVE  RetryInv'
<1>1. /\ UNCHANGED <<now, orders, renewals, records, answers>> /\ now' \in Nat
      /\ sessions' = [sessions EXCEPT ![s] = Idle]
  BY DEF Lose, db, RetryInv, Shape
<1>2. /\ DOMAIN sessions' = Sessions
      /\ \A z \in Sessions \ {s} : sessions'[z] = sessions[z]
      /\ sessions'[s] = Idle
  BY <1>1 DEF RetryInv, Shape
<1> QED
  BY <1>1, <1>2, SessionMoves

LEMMA StutterInv == RetryInv /\ UNCHANGED rvars => RetryInv'
<1>. SUFFICES ASSUME RetryInv, UNCHANGED rvars PROVE RetryInv'
  OBVIOUS
<1>1. UNCHANGED <<now, orders, sessions, renewals, records, answers>>
  BY DEF rvars
<1>2. Recorded' /\ KeyTellsAll'
  BY <1>1, RecordsKept DEF RetryInv
<1>3. Shape'
  BY <1>1 DEF RetryInv, Shape
<1>4. AnswersHonest'
  BY <1>1 DEF RetryInv, AnswersHonest, At, Honest, Keyed, Fingerprint
<1> QED
  BY <1>2, <1>3, <1>4 DEF RetryInv

LEMMA StepInv == RetryInv /\ [RetryNext]_rvars => RetryInv'
<1>. SUFFICES ASSUME RetryInv, [RetryNext]_rvars PROVE RetryInv'
  OBVIOUS
<1>1. CASE LifeStep
  BY <1>1, LifeStepInv
<1>2. ASSUME NEW o \in Orders, Place(o) PROVE RetryInv'
  BY <1>2, PlaceInv
<1>3. ASSUME NEW o \in Orders, NEW s \in Sessions, Send(o, s) PROVE RetryInv'
  BY <1>3, SendInv
<1>4. ASSUME NEW s \in Sessions, RequestStep(s) PROVE RetryInv'
  BY <1>4, LookUpInv, LockInv, OverflowInv, KeyRefusedInv, CommitInv, ReplyInv DEF RequestStep
<1>5. ASSUME NEW s \in Sessions, Lose(s) PROVE RetryInv'
  BY <1>5, LoseInv
<1>6. CASE UNCHANGED rvars
  BY <1>6, StutterInv
<1> QED
  BY <1>1, <1>2, <1>3, <1>4, <1>5, <1>6 DEF RetryNext

\* renew_unit: whatever requests overlap, get lost or are repeated, there is
\* a renewal under a key exactly when the key is on record, it is the one the
\* record names, there is only that one, and it is for the unit, the period and
\* the price of the fingerprint.
THEOREM KeysTell == RetrySpec => []KeyTellsAll
<1>1. RetryInv => KeyTellsAll
  BY DEF RetryInv
<1> QED
  BY <1>1, InitInv, StepInv, PTL DEF RetrySpec

-----------------------------------------------------------------------------
\* The refinement: what the steps mean to the callers.

\* What a call asks for, in the terms of RenewOnce.
Question(o) == [key |-> orders[o].key, args |-> Fingerprint(orders[o])]

LEMMA AskedIsQuestion ==
    ASSUME NEW o \in Orders
    PROVE  Asked(o) = IF Keyed(o) THEN {Question(o)} ELSE {}
BY DEF Asked, Question, Fingerprint

LEMMA PromiseInit == RetryInit => Promise!Init
<1>. SUFFICES ASSUME RetryInit PROVE Promise!Init
  OBVIOUS
<1>1. \A o \in Orders : ~Keyed(o)
  BY DEF RetryInit, Keyed
<1>2. \A o \in Orders : Asked(o) = {} /\ Told(o) = {}
  BY <1>1 DEF Asked, Told
<1>3. \A k : Bought(k) = {}
  BY DEF RetryInit, Bought, RenewalsUnder
<1> QED
  BY <1>2, <1>3 DEF Promise!Init

\* Steps that callers do not see.
LEMMA QuietStep ==
    ASSUME UNCHANGED <<orders, renewals, answers>>
    PROVE  UNCHANGED Promise!vars
BY DEF Promise!vars, Asked, Keyed, Bought, RenewalArgs, RenewalsUnder, Told

LEMMA PlaceAsks ==
    ASSUME RetryInv, NEW o \in Orders, Place(o)
    PROVE  [Promise!Next]_(Promise!vars)
<1>1. UNCHANGED <<renewals, answers>>
  BY DEF Place, db
<1>2. /\ orders[o] = Idle /\ orders'[o] \in OrderRow
      /\ \A p \in Orders \ {o} : orders'[p] = orders[p]
      /\ \A r \in DOMAIN renewals : orders'[renewals[r].order] = orders[renewals[r].order]
  BY PlaceEffect
<1>3. \A k : Bought(k)' = Bought(k)
  BY <1>1, <1>2 DEF Bought, RenewalsUnder, RenewalArgs
<1>4. \A p \in Orders \ {o} : Asked(p)' = Asked(p) /\ Told(p)' = Told(p)
  BY <1>1, <1>2 DEF Asked, Told, Keyed
<1>5. Asked(o) = {} /\ Told(o) = {}
  BY <1>2 DEF Asked, Told, Keyed
<1>6. Told(o)' = {}
  <2>1. answers[o] = {}
    BY <1>2 DEF RetryInv, Shape
  <2> QED
    BY <1>1, <2>1 DEF Told
<1>7. CASE ~Keyed(o)'
  <2>1. Asked(o)' = {}
    BY <1>7 DEF Asked
  <2> QED
    BY <1>3, <1>4, <1>5, <1>6, <2>1 DEF Promise!vars
<1>8. CASE Keyed(o)'
  <2> DEFINE q == [key |-> orders'[o].key, args |-> Fingerprint(orders'[o])]
  <2>1. Asked(o)' = {q}
    BY <1>8 DEF Asked, Fingerprint
  <2>2. q \in [key : Keys \ {NoKey}, args : Units \X Periods \X Prices]
    BY <1>2, <1>8 DEF Keyed, OrderRow, Fingerprint
  <2> HIDE DEF q
  <2>3. Promise!Ask(o, q)
    BY <1>3, <1>4, <1>5, <1>6, <2>1 DEF Promise!Ask
  <2> QED
    BY <2>2, <2>3 DEF Promise!Next
<1> QED
  BY <1>7, <1>8

LEMMA CommitSells ==
    ASSUME RetryInv, NEW s \in Sessions, Commit(s)
    PROVE  [Promise!Next]_(Promise!vars)
<1>0. PICK o, k, R : o = sessions[s].order /\ k = orders[o].key /\ R = NewRenewal
  OBVIOUS
<1>1. /\ o \in Orders /\ orders[o] # Idle /\ orders[o] \in OrderRow
      /\ R \in Nat \ DOMAIN renewals
      /\ DOMAIN renewals' = DOMAIN renewals \cup {R}
      /\ \A r \in DOMAIN renewals : renewals'[r] = renewals[r]
      /\ renewals'[R].order = o
      /\ renewals'[R].unit = orders[o].unit
      /\ renewals'[R].period_days = orders[o].period_days
      /\ renewals'[R].price_cents = orders[o].price_cents
      /\ k \notin DOMAIN records
      /\ UNCHANGED <<orders, answers>>
  BY <1>0, CommitEffect DEF OrderOf, RetryInv, Shape
<1>2. \A p \in Orders : Asked(p)' = Asked(p) /\ Told(p)' = Told(p)
  BY <1>1 DEF Asked, Told, Keyed
<1>3. \A j : RenewalsUnder(j)' = RenewalsUnder(j) \cup IF j = k THEN {R} ELSE {}
  BY <1>0, <1>1 DEF RenewalsUnder
<1>4. \A j : \A r \in RenewalsUnder(j) : RenewalArgs(r)' = RenewalArgs(r)
  BY <1>1 DEF RenewalsUnder, RenewalArgs
<1>5. ASSUME NEW j, j # k PROVE Bought(j)' = Bought(j)
  <2>1. RenewalsUnder(j)' = RenewalsUnder(j)
    BY <1>3, <1>5
  <2>2. \A r \in RenewalsUnder(j) : RenewalArgs(r)' = RenewalArgs(r)
    BY <1>4
  <2> QED
    BY <2>1, <2>2 DEF Bought
<1>6. CASE k = NoKey
  BY <1>2, <1>5, <1>6 DEF Promise!vars
<1>7. CASE k # NoKey
  <2>1. k \in Keys \ {NoKey} /\ Keyed(o)
    BY <1>0, <1>1, <1>7 DEF OrderRow, Keyed
  <2>2. RenewalsUnder(k) = {}
    BY <1>1, <2>1 DEF RetryInv, KeyTellsAll
  <2>3. Bought(k) = {}
    BY <2>2 DEF Bought
  <2>a. PICK b : b = [args |-> Fingerprint(orders[o]), result |-> R]
    OBVIOUS
  <2>4. Bought(k)' = {b}
    <3>1. RenewalsUnder(k)' = {R}
      BY <1>3, <2>2
    <3>2. \A r : r = R => RenewalArgs(r)' = Fingerprint(orders[o])
      BY <1>1 DEF RenewalArgs, Fingerprint
    <3> QED
      BY <2>a, <3>1, <3>2 DEF Bought
  <2>5. Question(o) \in Asked(o) /\ Question(o).key = k
        /\ Question(o).args = Fingerprint(orders[o])
    BY <1>0, <1>1, <2>1, AskedIsQuestion DEF Question
  <2>6. b.args = Fingerprint(orders[o]) /\ b.result \in Nat
    BY <1>1, <2>a
  <2>7. Promise!Sell(Question(o))
    BY <1>2, <1>5, <2>1, <2>3, <2>4, <2>5, <2>6 DEF Promise!Sell
  <2> QED
    BY <1>1, <2>5, <2>7 DEF Promise!Next
<1> QED
  BY <1>6, <1>7

LEMMA ReplyTells ==
    ASSUME RetryInv, NEW s \in Sessions, Reply(s)
    PROVE  [Promise!Next]_(Promise!vars)
<1>0. PICK o : o = sessions[s].order
  OBVIOUS
<1>1. /\ UNCHANGED <<orders, renewals, records>>
      /\ At(s, "reply") /\ sessions[s] # Idle
      /\ answers' = [answers EXCEPT ![o] = @ \cup sessions[s].answer]
  BY <1>0 DEF Reply, db, At
<1>2. o \in Orders
  BY <1>0, <1>1 DEF RetryInv, Shape, SessionRow
<1>3. PICK a \in AnswerRow : sessions[s].answer = {a} /\ (Keyed(o) => Honest(o, a))
  BY <1>0, <1>1 DEF RetryInv, AnswersHonest
<1>4. /\ answers'[o] = answers[o] \cup {a}
      /\ \A p \in Orders \ {o} : answers'[p] = answers[p]
  BY <1>1, <1>2, <1>3 DEF RetryInv, Shape
<1>5. \A p \in Orders : Asked(p)' = Asked(p) /\ (Keyed(p)' <=> Keyed(p))
  BY <1>1 DEF Asked, Keyed
<1>6. \A k : Bought(k)' = Bought(k)
  BY <1>1 DEF Bought, RenewalsUnder, RenewalArgs
<1>7. \A p \in Orders \ {o} : Told(p)' = Told(p)
  BY <1>4, <1>5 DEF Told
<1>8. CASE ~Keyed(o) \/ a.code \notin {"", "IdempotencyConflict"}
  <2>1. Told(o)' = Told(o)
    BY <1>2, <1>4, <1>5, <1>8 DEF Told
  <2> QED
    BY <1>5, <1>6, <1>7, <2>1 DEF Promise!vars
<1>9. CASE Keyed(o) /\ a.code \in {"", "IdempotencyConflict"}
  <2>a. PICK k, r : k = orders[o].key /\ r = records[k].renewal
    OBVIOUS
  <2>b. PICK b : b = [args |-> RenewalArgs(r), result |-> r]
    OBVIOUS
  <2>1. Told(o)' = Told(o) \cup {a.renewal}
    BY <1>2, <1>4, <1>5, <1>9 DEF Told
  <2>2. k \in Keys \ {NoKey} /\ k \in DOMAIN records
    BY <1>2, <1>3, <1>9, <2>a DEF RetryInv, Shape, Keyed, OrderRow, Honest
  <2>3. Bought(k) = {b}
    BY <2>a, <2>b, <2>2 DEF RetryInv, KeyTellsAll, Bought
  <2>4. records[k].fingerprint = RenewalArgs(r)
    BY <2>a, <2>b, <2>2 DEF RetryInv, Recorded
  <2>5. Question(o) \in Asked(o) /\ Question(o).key = k
        /\ Question(o).args = Fingerprint(orders[o])
    BY <1>2, <1>9, <2>a, AskedIsQuestion DEF Question
  <2>6. a.renewal = IF RenewalArgs(r) = Fingerprint(orders[o]) THEN r ELSE 0
    BY <1>3, <1>9, <2>a, <2>4 DEF Honest
  <2>7. b.args = RenewalArgs(r) /\ b.result = r
    BY <2>b
  <2>8. Promise!Outcome(Question(o), b) = a.renewal
    BY <2>5, <2>6, <2>7 DEF Promise!Outcome
  <2>9. Promise!Tell(o, Question(o))
    BY <1>2, <1>5, <1>6, <1>7, <2>1, <2>2, <2>3, <2>5, <2>8 DEF Promise!Tell
  <2> QED
    BY <1>2, <2>5, <2>9 DEF Promise!Next
<1> QED
  BY <1>8, <1>9

LEMMA PromiseStep == RetryInv /\ [RetryNext]_rvars => [Promise!Next]_(Promise!vars)
<1>. SUFFICES ASSUME RetryInv, [RetryNext]_rvars PROVE [Promise!Next]_(Promise!vars)
  OBVIOUS
<1>1. CASE UNCHANGED <<orders, renewals, answers>>
  BY <1>1, QuietStep
<1>2. CASE \E o \in Orders : Place(o)
  BY <1>2, PlaceAsks
<1>3. CASE \E s \in Sessions : Commit(s)
  BY <1>3, CommitSells
<1>4. CASE \E s \in Sessions : Reply(s)
  BY <1>4, ReplyTells
<1>5. LifeStep \/ UNCHANGED rvars => UNCHANGED <<orders, renewals, answers>>
  BY DEF LifeStep, rvars
<1>6. ASSUME NEW s \in Sessions
      PROVE  LookUp(s) \/ Lock(s) \/ Overflow(s) \/ KeyRefused(s) \/ Lose(s)
                => UNCHANGED <<orders, renewals, answers>>
  BY DEF LookUp, Lock, Overflow, KeyRefused, Lose, db
<1>7. ASSUME NEW s \in Sessions, NEW o \in Orders
      PROVE  Send(o, s) => UNCHANGED <<orders, renewals, answers>>
  BY DEF Send, db
<1> QED
  BY <1>1, <1>2, <1>3, <1>4, <1>5, <1>6, <1>7 DEF RetryNext, RequestStep

\* renew_unit keeps what an idempotency key promises: under one key one term
\* is sold, and whoever is told of success asked for that term.
THEOREM RetryRefines == RetrySpec => RetriesAreSafe
BY InitInv, StepInv, PromiseInit, PromiseStep, PTL DEF RetrySpec, RetriesAreSafe, Promise!Spec

-----------------------------------------------------------------------------
\* The types of the tables, and what a request that is about to write knows.

\* Its clock was read before now, and the unit it has locked is there.
RequestsTyped ==
    \A s \in Sessions : sessions[s] # Idle =>
       /\ sessions[s].clock <= now
       /\ sessions[s].at = "write" => OrderOf(s).unit \in DOMAIN units

DatesTyped == \A r \in DOMAIN renewals : renewals[r].new_expires_at \in 0..MaxDate

RowsTyped == UnitsTyped /\ RequestsTyped /\ DatesTyped

\* A step of one request that leaves the tables alone.
LEMMA RequestMoves ==
    ASSUME RowsTyped, NEW s \in Sessions, UNCHANGED <<now, units, orders, renewals>>,
           \A z \in Sessions \ {s} : sessions'[z] = sessions[z],
           sessions'[s] # Idle =>
              /\ sessions'[s].clock <= now
              /\ sessions'[s].at = "write" => orders[sessions'[s].order].unit \in DOMAIN units
    PROVE  RowsTyped'
<1>1. UnitsTyped' /\ DatesTyped'
  BY DEF RowsTyped, UnitsTyped, DatesTyped
<1>2. ASSUME NEW z \in Sessions, sessions'[z] # Idle
      PROVE  /\ sessions'[z].clock <= now
             /\ sessions'[z].at = "write" => orders[sessions'[z].order].unit \in DOMAIN units
  <2>1. CASE z = s
    BY <1>2, <2>1
  <2>2. CASE z # s
    BY <1>2, <2>2 DEF RowsTyped, RequestsTyped, OrderOf
  <2> QED
    BY <2>1, <2>2
<1>3. RequestsTyped'
  BY <1>2 DEF RequestsTyped, OrderOf
<1> QED
  BY <1>1, <1>3 DEF RowsTyped

\* A request that answers no longer writes.
LEMMA AnswerMoves ==
    ASSUME Shape, RowsTyped, NEW s \in Sessions, sessions[s] # Idle, NEW a, Answer(s, a)
    PROVE  /\ \A z \in Sessions \ {s} : sessions'[z] = sessions[z]
           /\ sessions'[s].clock <= now /\ sessions'[s].at # "write"
<1>1. sessions'[s] = [order |-> sessions[s].order, at |-> "reply",
                      clock |-> sessions[s].clock, answer |-> {a}]
  BY DEF Shape, Answer
<1>2. sessions[s].clock <= now
  BY DEF RowsTyped, RequestsTyped
<1>3. \A z \in Sessions \ {s} : sessions'[z] = sessions[z]
  BY DEF Shape, Answer
<1> QED
  BY <1>1, <1>2, <1>3

LEMMA CommitTyped ==
    ASSUME RetryInv, RowsTyped, NEW s \in Sessions, Commit(s)
    PROVE  RowsTyped'
<1>1. /\ sessions[s] # Idle /\ sessions[s].at = "write" /\ OrderOf(s) \in OrderRow
      /\ UNCHANGED <<now, orders>> /\ Answer(s, Success(NewRenewal))
      /\ NewDate(s) <= MaxDate
  BY CommitEffect DEF Commit, At, Representable
<1>2. PICK u, d, t : u = OrderOf(s).unit /\ d = OrderOf(s).period_days /\ t = sessions[s].clock
  OBVIOUS
<1>3. u \in DOMAIN units /\ units[u] \in Row
  BY <1>1, <1>2 DEF RowsTyped, RequestsTyped, UnitsTyped
<1>4. d \in Periods /\ t \in Nat /\ NewDate(s) = RenewalDate(units[u], d, t)
  BY <1>1, <1>2 DEF OrderRow, RetryInv, Shape, SessionRow, NewDate
<1>5. RenewalDate(units[u], d, t) \in 0..MaxDate /\ Renewed(units[u], d, t) \in Row
  BY <1>1, <1>3, <1>4, RenewedType
<1>6. /\ DOMAIN units' = DOMAIN units /\ units'[u] = Renewed(units[u], d, t)
      /\ \A v \in DOMAIN units \ {u} : units'[v] = units[v]
  BY <1>2, <1>3 DEF Commit
<1>7. UnitsTyped'
  BY <1>1, <1>5, <1>6 DEF RowsTyped, UnitsTyped
<1>8. DatesTyped'
  <2>1. /\ NewRenewal \in Nat \ DOMAIN renewals
        /\ DOMAIN renewals' = DOMAIN renewals \cup {NewRenewal}
        /\ \A r \in DOMAIN renewals : renewals'[r] = renewals[r]
    BY CommitEffect
  <2>2. renewals'[NewRenewal].new_expires_at = NewDate(s)
    <3> DEFINE x == [unit |-> OrderOf(s).unit, period_days |-> OrderOf(s).period_days,
                     price_cents |-> OrderOf(s).price_cents,
                     new_expires_at |-> NewDate(s), order |-> sessions[s].order]
    <3>1. renewals' = Insert(renewals, NewRenewal, x)
      BY DEF Commit
    <3>2. x.new_expires_at = NewDate(s)
      OBVIOUS
    <3> HIDE DEF x
    <3>3. renewals'[NewRenewal] = x
      BY <2>1, <3>1 DEF Insert
    <3> QED
      BY <3>2, <3>3
  <2> QED
    BY <1>4, <1>5, <2>1, <2>2 DEF RowsTyped, DatesTyped
<1>9. /\ \A z \in Sessions \ {s} : sessions'[z] = sessions[z]
      /\ sessions'[s].clock <= now /\ sessions'[s].at # "write"
  BY <1>1, AnswerMoves DEF RetryInv
<1>10. RequestsTyped'
  <2>1. ASSUME NEW z \in Sessions, sessions'[z] # Idle
        PROVE  /\ sessions'[z].clock <= now
               /\ sessions'[z].at = "write" => orders[sessions'[z].order].unit \in DOMAIN units
    <3>1. CASE z = s
      BY <1>9, <3>1
    <3>2. CASE z # s
      BY <1>9, <2>1, <3>2 DEF RowsTyped, RequestsTyped, OrderOf
    <3> QED
      BY <3>1, <3>2
  <2> QED
    BY <1>1, <1>6, <2>1 DEF RequestsTyped, OrderOf
<1> QED
  BY <1>7, <1>8, <1>10 DEF RowsTyped

\* The units live on, but not under the lock of a request.
LEMMA LifeStepTyped ==
    ASSUME RetryInv, RowsTyped, LifeStep
    PROVE  RowsTyped'
<1>1. UnitsTyped' /\ UNCHANGED <<orders, sessions, renewals>>
  BY LifeEffect DEF RowsTyped, LifeStep
<1>2. now \in Nat /\ (now' = now \/ now' = now + 1)
  BY DEF RowsTyped, UnitsTyped, LifeStep, Next, Tick
<1>3. ASSUME NEW s \in Sessions, sessions[s] # Idle
      PROVE  /\ sessions[s].clock <= now'
             /\ sessions[s].at = "write" => OrderOf(s).unit \in DOMAIN units'
  <2>1. sessions[s].clock <= now /\ sessions[s].clock \in Nat
    BY <1>3 DEF RowsTyped, RequestsTyped, RetryInv, Shape, SessionRow
  <2>2. ASSUME sessions[s].at = "write" PROVE OrderOf(s).unit \in DOMAIN units'
    <3>1. OrderOf(s).unit \in Units
      BY <1>3 DEF RetryInv, Shape, SessionRow, OrderRow, OrderOf
    <3>2. Locked(OrderOf(s).unit)
      BY <1>3, <2>2 DEF Locked, At
    <3> QED
      BY <3>1, <3>2 DEF LifeStep
  <2> QED
    BY <1>2, <2>1, <2>2
<1>4. RequestsTyped' /\ DatesTyped'
  BY <1>1, <1>3 DEF RequestsTyped, OrderOf, RowsTyped, DatesTyped
<1> QED
  BY <1>1, <1>4 DEF RowsTyped

LEMMA PlaceTyped ==
    ASSUME RetryInv, RowsTyped, NEW o \in Orders, Place(o)
    PROVE  RowsTyped'
<1>1. UNCHANGED <<now, units, renewals, sessions>>
  BY DEF Place, db
<1>2. \A s \in Sessions : sessions[s] # Idle =>
         orders'[sessions[s].order] = orders[sessions[s].order]
  BY PlaceEffect
<1> QED
  BY <1>1, <1>2 DEF RowsTyped, UnitsTyped, DatesTyped, RequestsTyped, OrderOf

LEMMA RequestTyped ==
    ASSUME RetryInv, RowsTyped, NEW s \in Sessions,
           LookUp(s) \/ Lock(s) \/ Overflow(s) \/ KeyRefused(s) \/ Reply(s) \/ Lose(s)
    PROVE  RowsTyped'
<1>1. sessions[s] # Idle /\ UNCHANGED <<now, units, orders, renewals>>
  BY DEF LookUp, Lock, Overflow, KeyRefused, Reply, Lose, At, db
<1>2. DOMAIN sessions = Sessions /\ sessions[s] \in SessionRow
  BY <1>1 DEF RetryInv, Shape
<1>3. ASSUME NEW a, Answer(s, a) PROVE RowsTyped'
  <2>1. /\ \A z \in Sessions \ {s} : sessions'[z] = sessions[z]
        /\ sessions'[s].clock <= now /\ sessions'[s].at # "write"
    BY <1>1, <1>3, AnswerMoves DEF RetryInv
  <2> QED
    BY <1>1, <2>1, RequestMoves
<1>4. CASE sessions' = [sessions EXCEPT ![s] = Idle]
  BY <1>1, <1>2, <1>4, RequestMoves
<1>5. CASE sessions' = [sessions EXCEPT ![s].at = "lock"]
  <2>1. sessions'[s] = [sessions[s] EXCEPT !.at = "lock"]
        /\ \A z \in Sessions \ {s} : sessions'[z] = sessions[z]
    BY <1>2, <1>5
  <2>2. sessions'[s].clock = sessions[s].clock /\ sessions'[s].at = "lock"
    BY <1>2, <2>1 DEF SessionRow
  <2>3. sessions[s].clock <= now
    BY <1>1 DEF RowsTyped, RequestsTyped
  <2> QED
    BY <1>1, <2>1, <2>2, <2>3, RequestMoves
<1>6. CASE /\ OrderOf(s).unit \in DOMAIN units
           /\ sessions' = [sessions EXCEPT ![s] =
                             [order |-> @.order, at |-> "write", clock |-> now, answer |-> {}]]
  <2>1. /\ sessions'[s] = [order |-> sessions[s].order, at |-> "write",
                           clock |-> now, answer |-> {}]
        /\ \A z \in Sessions \ {s} : sessions'[z] = sessions[z]
    BY <1>2, <1>6
  <2>2. sessions'[s].clock = now /\ sessions'[s].order = sessions[s].order /\ now \in Nat
    BY <2>1 DEF RowsTyped, UnitsTyped
  <2>3. orders[sessions'[s].order].unit \in DOMAIN units
    BY <1>6, <2>2 DEF OrderOf
  <2> QED
    BY <1>1, <2>1, <2>2, <2>3, RequestMoves
<1>7. LookUp(s) => \/ sessions' = [sessions EXCEPT ![s].at = "lock"]
                   \/ \E a : Answer(s, a)
  BY DEF LookUp
<1>8. Lock(s) => \/ \E a : Answer(s, a)
                 \/ /\ OrderOf(s).unit \in DOMAIN units
                    /\ sessions' = [sessions EXCEPT ![s] =
                          [order |-> @.order, at |-> "write", clock |-> now, answer |-> {}]]
  BY DEF Lock
<1>9. Overflow(s) \/ KeyRefused(s) => \E a : Answer(s, a)
  BY DEF Overflow, KeyRefused
<1>10. Reply(s) \/ Lose(s) => sessions' = [sessions EXCEPT ![s] = Idle]
  BY DEF Reply, Lose
<1> QED
  BY <1>3, <1>4, <1>5, <1>6, <1>7, <1>8, <1>9, <1>10

LEMMA SendTyped ==
    ASSUME RetryInv, RowsTyped, NEW o \in Orders, NEW s \in Sessions, Send(o, s)
    PROVE  RowsTyped'
<1>1. UNCHANGED <<now, units, orders, renewals>> /\ now \in Nat
  BY DEF Send, db, RowsTyped, UnitsTyped
<1>2. /\ sessions'[s] = [order |-> o, at |-> "lookup", clock |-> 0, answer |-> {}]
      /\ \A z \in Sessions \ {s} : sessions'[z] = sessions[z]
  BY DEF Send, RetryInv, Shape
<1>3. sessions'[s].clock <= now /\ sessions'[s].at # "write"
  BY <1>1, <1>2
<1> QED
  BY <1>1, <1>2, <1>3, RequestMoves

LEMMA TypedStep == RetryInv /\ RowsTyped /\ [RetryNext]_rvars => RowsTyped'
<1>. SUFFICES ASSUME RetryInv, RowsTyped, [RetryNext]_rvars PROVE RowsTyped'
  OBVIOUS
<1>1. CASE LifeStep
  BY <1>1, LifeStepTyped
<1>2. ASSUME NEW o \in Orders, Place(o) \/ \E s \in Sessions : Send(o, s) PROVE RowsTyped'
  BY <1>2, PlaceTyped, SendTyped
<1>3. ASSUME NEW s \in Sessions, RequestStep(s) \/ Lose(s) PROVE RowsTyped'
  BY <1>3, RequestTyped, CommitTyped DEF RequestStep
<1>4. CASE UNCHANGED rvars
  BY <1>4 DEF rvars, RowsTyped, UnitsTyped, RequestsTyped, DatesTyped, OrderOf
<1> QED
  BY <1>1, <1>2, <1>3, <1>4 DEF RetryNext

\* The tables and the requests hold values of their types: no renewal is
\* stored past the range of dates, and no request writes on a clock ahead.
THEOREM RetryTyped == RetrySpec => []RetryTypeOK
<1>1. RetryInit => RowsTyped
  BY DEF RetryInit, Init, RowsTyped, UnitsTyped, RequestsTyped, DatesTyped
<1>2. RetryInv /\ RowsTyped => RetryTypeOK
  <2>. SUFFICES ASSUME RetryInv, RowsTyped PROVE RetryTypeOK
    OBVIOUS
  <2>1. ASSUME NEW s \in Sessions, sessions[s] # Idle
        PROVE  /\ orders[sessions[s].order] # Idle
               /\ sessions[s].at \in Stage /\ sessions[s].clock \in 0..now
    BY <2>1 DEF RetryInv, Shape, SessionRow, RowsTyped, RequestsTyped, UnitsTyped
  <2>2. \A o \in Orders : orders[o] # Idle =>
           orders[o] \in [unit : Units, period_days : Periods, price_cents : Prices, key : Keys]
    BY DEF RetryInv, Shape, OrderRow
  <2> QED
    BY <2>1, <2>2 DEF RowsTyped, UnitsTyped, DatesTyped, RetryTypeOK
<1> QED
  BY <1>1, <1>2, InitInv, StepInv, TypedStep, PTL DEF RetrySpec

=============================================================================
