---------------------------- MODULE MCInventoryTx ---------------------------
(* Instances of InventoryTx for TLC. *)
EXTENDS InventoryTx, TLC

Symmetry ==
    Permutations(Units) \cup Permutations(Clients) \cup Permutations(IssueIds) \cup
    Permutations(ClaimIds) \cup Permutations(Sessions)

=============================================================================
