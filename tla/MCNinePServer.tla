------------------------------ MODULE MCNinePServer -------------------------------
(***********************************************************************************)
(* Two names, one of which reads like the other one twice when "_" takes the      *)
(* place of "/": /a_a and /a/a read the same.  Connections and fids are            *)
(* interchangeable.                                                                *)
(***********************************************************************************)
EXTENDS NinePServer, TLC

CONSTANTS a, a_a

MCNames == {a, a_a}

\* A path reads as a sequence of a's, of which only the number counts.
MCFlat == [p \in Paths |-> FoldLeft(LAMBDA n, x : n + IF x = a THEN 1 ELSE 2, 0, p)]

MCSymmetry == Permutations(Connections) \cup Permutations(Fids)
===================================================================================
