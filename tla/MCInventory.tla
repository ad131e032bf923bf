----------------------------- MODULE MCInventory ----------------------------
(* Instances of Inventory for TLC. *)
EXTENDS Inventory, TLC

Symmetry ==
    Permutations(Units) \cup Permutations(Clients) \cup
    Permutations(IssueIds) \cup Permutations(ClaimIds)

=============================================================================
