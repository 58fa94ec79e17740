----------------------------------- MODULE Maps -----------------------------------
(***********************************************************************************)
(* std::collections::HashMap as a function whose domain is the set of its keys.    *)
(***********************************************************************************)
EXTENDS Functions

\* insert: in place of what the key had.
Put(f, key, value) == [k \in DOMAIN f \cup {key} |-> IF k = key THEN value ELSE f[k]]

\* remove
Without(f, key) == Restrict(f, DOMAIN f \ {key})
===================================================================================
