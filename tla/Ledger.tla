---------------------------------- MODULE Ledger ----------------------------------
(***********************************************************************************)
(* What the bounded DAG promises its callers: an append-only record of blocks in  *)
(* which every block comes after its parents.  Pruning moves blocks from the DAG  *)
(* into a checkpoint; seen from here it is a stuttering step.                      *)
(***********************************************************************************)
CONSTANTS Ids, Payloads

VARIABLE ledger

Entries == [id : Ids, parents : SUBSET Ids, ops : Payloads]

IdsOf(entries) == {e.id : e \in entries}

Init == ledger = {}

Append(e) ==
  /\ e.id \notin IdsOf(ledger)
  /\ e.parents \subseteq IdsOf(ledger)
  /\ ledger' = ledger \cup {e}

Next == \E e \in Entries : Append(e)

Spec == Init /\ [][Next]_ledger
===================================================================================
