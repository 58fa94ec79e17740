---------------------------- MODULE MCWorkDistribution ----------------------------
(***********************************************************************************)
(* Two kinds of jobs: an urgent one for both nodes, and an ordinary one.           *)
(***********************************************************************************)
EXTENDS WorkDistribution, TLC

CONSTANTS cpu, gpu

MCRequests == {[priority |-> 2, min_nodes |-> 2, needs |-> {cpu}],
               [priority |-> 1, min_nodes |-> 1, needs |-> {gpu}]}

\* Jobs, nodes and tasks are interchangeable.
MCSymmetry == Permutations(Jobs \ Foreign) \cup Permutations(Nodes) \cup Permutations(Tasks)
===================================================================================
