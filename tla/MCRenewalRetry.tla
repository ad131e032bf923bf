--------------------------- MODULE MCRenewalRetry ---------------------------
(* Instances of RenewalRetry for TLC. *)
EXTENDS RenewalRetry, TLC

Symmetry ==
    Permutations(Units) \cup Permutations(Orders) \cup
    Permutations(Sessions) \cup Permutations(Keys \ {NoKey})

=============================================================================
