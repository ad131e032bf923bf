------------------------------ MODULE RenewOnce -----------------------------
(***************************************************************************)
(* What an idempotency key promises (renew_unit, IdempotencyRecord): under *)
(* one key at most one term is sold, whoever asks and however often; who   *)
(* is told of success is told of that one term, and only when asking for   *)
(* the same thing.  Nothing is promised to a call that fails.              *)
(***************************************************************************)

CONSTANTS
    Keys,
    Callers,    \* who asks, under one key and with fixed arguments
    Args,       \* what may be asked: a unit, a period and a price
    Results,    \* identities of the terms sold
    Conflict    \* "the key was used with different arguments"

VARIABLES
    asked,      \* asked[c]: at most one [key, args]
    bought,     \* bought[k]: the terms sold under k, as [args, result]
    told        \* told[c]: the outcomes caller c was given

vars == <<asked, bought, told>>

Init ==
    /\ asked = [c \in Callers |-> {}]
    /\ bought = [k \in Keys |-> {}]
    /\ told = [c \in Callers |-> {}]

Ask(c, q) ==
    /\ asked[c] = {}
    /\ asked' = [asked EXCEPT ![c] = {q}]
    /\ UNCHANGED <<bought, told>>

\* The term sold is whatever bought' says, if that is one for q.
Sell(q) ==
    /\ bought[q.key] = {}
    /\ \E b \in bought'[q.key] :
          /\ b.args = q.args /\ b.result \in Results
          /\ bought' = [bought EXCEPT ![q.key] = {b}]
    /\ UNCHANGED <<asked, told>>

Outcome(q, b) == IF b.args = q.args THEN b.result ELSE Conflict

Tell(c, q) ==
    /\ \E b \in bought[q.key] : told' = [told EXCEPT ![c] = @ \cup {Outcome(q, b)}]
    /\ UNCHANGED <<asked, bought>>

Next ==
    \E c \in Callers :
        \/ \E q \in [key : Keys, args : Args] : Ask(c, q)
        \/ \E q \in asked[c] : Sell(q) \/ Tell(c, q)

Spec == Init /\ [][Next]_vars

=============================================================================
