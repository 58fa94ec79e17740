----------------------------- MODULE NamespaceReplay ------------------------------
(***********************************************************************************)
(* The loop of create_checkpoint: a namespace built by replaying one operation    *)
(* after the other.  MaxSize bounds the simplified size counter of a file.        *)
(***********************************************************************************)
EXTENDS NamespaceOps

CONSTANTS Ops, MaxSize

VARIABLE namespace_state

SizeBound == \A p \in Paths : namespace_state[p] # Absent => namespace_state[p].size <= MaxSize

ReplayInit == namespace_state = EmptyNamespace

ReplayOp(op) ==
  /\ namespace_state' = apply_operation_to_state(namespace_state, op)
  /\ SizeBound'

ReplayNext == \E op \in Ops : ReplayOp(op)

ReplaySpec == ReplayInit /\ [][ReplayNext]_namespace_state

-----------------------------------------------------------------------------------
\* What the conflict check of validate_block (line 293) is worth: two operations that
\* do not conflict, batches included, give the same namespace in either order, so the
\* order in which a block lists its operations cannot matter to a checkpoint.
OrderIrrelevant ==
  \A a, b \in Ops : ~ conflicts_with(a, b) =>
    apply_operation_to_state(apply_operation_to_state(namespace_state, a), b)
      = apply_operation_to_state(apply_operation_to_state(namespace_state, b), a)

\* affected_paths is complete: replaying an operation leaves every other path alone.
OnlyAffectedChange ==
  \A op \in Ops : \A p \in Paths \ affected_paths(op) :
    apply_operation_to_state(namespace_state, op)[p] = namespace_state[p]

\* The paths a file is renamed to.
RenamedOnto(op) ==
  IF op.kind = "Batch" THEN {o.to : o \in {q \in Range(op.ops) : q.kind = "Rename"}}
  ELSE IF op.kind = "Rename" THEN {op.to} ELSE {}

\* The part of the namespace that a checkpoint knows which has seen the files at K only.
Part(K) == [p \in Paths |-> IF p \in K THEN namespace_state[p] ELSE Absent]

\* Every checkpoint is replayed onto an empty namespace (line 488), so it may miss files
\* that are in earlier ones.  It misses, but it does not contradict: whatever files it
\* knows, replaying an operation leaves it with nothing that the replay of the whole
\* history does not have in the same state, except where a file was renamed to, which
\* may be one that the checkpoint had not seen.
CheckpointsAgree ==
  \A op \in Ops, K \in SUBSET Paths : \A p \in Paths \ RenamedOnto(op) :
    apply_operation_to_state(Part(K), op)[p]
      \in {Absent, apply_operation_to_state(namespace_state, op)[p]}
===================================================================================
