---------------------------- MODULE MCNamespaceReplay -----------------------------
\* Every operation on a few paths, and every batch of a move followed by another
\* operation that may undo it.
EXTENDS NamespaceReplay

MCOps == SimpleOps \cup BatchOps({<<a, b>> : a \in RenameOps, b \in WriteOps \cup DeleteOps \cup RenameOps})
===================================================================================
