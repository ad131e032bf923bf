----------------------------- MODULE UnitStates -----------------------------
(***************************************************************************)
(* The life cycle of a unit and of a warranty claim: inventory/states.py.  *)
(* States are the TextChoices values of the source.                        *)
(***************************************************************************)

UnitState == {"available", "reserved", "issued", "expired", "revoked"}

ClaimState == {"open", "approved", "rejected"}

\* The allow-list of transitions.  "revoked" is terminal.
AllowedTransitions ==
    [available |-> {"reserved", "issued", "revoked"},
     reserved  |-> {"available", "issued", "revoked"},
     issued    |-> {"expired", "revoked"},
     expired   |-> {"issued", "revoked"},
     revoked   |-> {}]

CanMove(current, target) == target \in AllowedTransitions[current]

=============================================================================
