---------------------------- MODULE MCNamespaceManager ----------------------------
\* Owners and tasks are interchangeable.
EXTENDS NamespaceManager, TLC

MCSymmetry == Permutations(Owners) \cup Permutations(Tasks)
===================================================================================
