----------------------------- MODULE Entitlement ----------------------------
(***************************************************************************)
(* What the licence service promises a paying client, with every row,      *)
(* clock and lock left out: one sale entitles the client to one unit.  A   *)
(* warranty replacement swaps the unit for a free one and burns the old    *)
(* one; it never adds a unit to what the client holds, and a burned unit   *)
(* is never handed out again.                                              *)
(***************************************************************************)
EXTENDS Naturals, FiniteSets

CONSTANTS
    Units,      \* licences, accounts, subscriptions
    Clients,
    Sales       \* identities of paid issues

VARIABLES
    held,       \* held[c]: the units client c may use
    sold,       \* sold[c]: what client c paid for
    burned      \* units taken out of use for good

vars == <<held, sold, burned>>

Init ==
    /\ held = [c \in Clients |-> {}]
    /\ sold = [c \in Clients |-> {}]
    /\ burned = {}

Free(u) == u \notin burned /\ \A c \in Clients : u \notin held[c]

NewSale(s) == \A c \in Clients : s \notin sold[c]

\* A client pays for a free unit.
Sell(c, u, s) ==
    /\ Free(u)
    /\ NewSale(s)
    /\ held' = [held EXCEPT ![c] = @ \cup {u}]
    /\ sold' = [sold EXCEPT ![c] = @ \cup {s}]
    /\ UNCHANGED burned

\* A defective unit u is swapped for r at no charge.
Replace(c, u, r) ==
    /\ u \in held[c]
    /\ Free(r)
    /\ held' = [held EXCEPT ![c] = (@ \ {u}) \cup {r}]
    /\ burned' = burned \cup {u}
    /\ UNCHANGED sold

Next ==
    \E c \in Clients, u \in Units :
        \/ \E s \in Sales : Sell(c, u, s)
        \/ \E r \in Units : Replace(c, u, r)

Spec == Init /\ [][Next]_vars

-----------------------------------------------------------------------------

TypeOK ==
    /\ held \in [Clients -> SUBSET Units]
    /\ sold \in [Clients -> SUBSET Sales]
    /\ burned \subseteq Units

\* No unit serves two clients, and no burned unit serves anyone.
UnitsNotShared ==
    /\ \A c, d \in Clients : c # d => held[c] \cap held[d] = {}
    /\ \A c \in Clients : held[c] \cap burned = {}

\* A client holds exactly as many units as it paid for: no warranty path
\* yields a second unit for one payment, and none loses a paid one.
OneUnitPerSale ==
    \A c \in Clients : Cardinality(held[c]) = Cardinality(sold[c])

=============================================================================
