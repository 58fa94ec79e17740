---------------------------- MODULE MCBoundedGhostdag -----------------------------
\* Instances of BoundedGhostdag for TLC.  Sizes are scaled down together: the code's
\* defaults (1000 blocks, confirmation at depth 100) keep half of the maximum and
\* confirm all but a tenth, here a maximum of 2 keeps 1 and all but 1 are confirmed.
EXTENDS BoundedGhostdag

\* Blocks whose operations do not matter to the property.
MCNoOps == {<<>>}

\* Blocks that create a file and blocks that do nothing.
MCCreateOrNothing == {<<>>} \cup {<<op>> : op \in CreateOps}
===================================================================================
