------------------------------ MODULE MCOutbox ------------------------------
(* Instances of Outbox for TLC. *)
EXTENDS Outbox, TLC

Symmetry == Permutations(Units) \cup Permutations(Jobs) \cup Permutations(Workers)

=============================================================================
