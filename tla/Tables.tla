------------------------------- MODULE Tables -------------------------------
(* A table is a partial function from primary keys to rows. *)

Insert(table, key, row) ==
    [k \in DOMAIN table \cup {key} |-> IF k = key THEN row ELSE table[k]]

Only(table, keys) == [k \in DOMAIN table \cap keys |-> table[k]]

=============================================================================
