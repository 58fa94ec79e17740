------------------------------- MODULE NamespaceOps -------------------------------
(***********************************************************************************)
(* The namespace operations a block carries (NamespaceOp), the relation that      *)
(* decides which of them may not share a block (conflicts_with over               *)
(* affected_paths) and the replay of operations into the namespace state a        *)
(* checkpoint stores (apply_operation_to_state).                                  *)
(*                                                                                 *)
(* A namespace maps every path to a FileState or to Absent.  content_hash is left *)
(* out: the code sets it to zeroes on Create and never writes it again.           *)
(***********************************************************************************)
EXTENDS Naturals, Sequences, SequencesExt

CONSTANTS Paths, Modes, Translators, Absent, NoTranslator

FileStates == [mode : Modes, size : Nat, translator : Translators \cup {NoTranslator}]

Namespaces == [Paths -> FileStates \cup {Absent}]

ASSUME AbsentAssumption == Absent \notin FileStates
ASSUME NoTranslatorAssumption == NoTranslator \notin Translators

-----------------------------------------------------------------------------------
CreateOps   == [kind : {"Create"}, path : Paths, mode : Modes]
WriteOps    == [kind : {"Write"}, path : Paths]
DeleteOps   == [kind : {"Delete"}, path : Paths]
SetTransOps == [kind : {"SetTrans"}, path : Paths, translator : Translators]
ChmodOps    == [kind : {"Chmod"}, path : Paths, mode : Modes]
RenameOps   == [kind : {"Rename"}, from : Paths, to : Paths]
RegisterOps == [kind : {"RegisterNamespace"}, path : Paths]

SimpleOps == CreateOps \cup WriteOps \cup DeleteOps \cup SetTransOps
               \cup ChmodOps \cup RenameOps \cup RegisterOps

\* Atomic batch of operations.  A batch of batches is not modelled: replaying it is
\* replaying the concatenation.
BatchOps(S) == [kind : {"Batch"}, ops : S]

-----------------------------------------------------------------------------------
\* Mutation: the target of a rename is not affected.
simple_paths_SourceOnly(op) == IF op.kind = "Rename" THEN {op.from} ELSE {op.path}

simple_paths(op) == IF op.kind = "Rename" THEN {op.from, op.to} ELSE {op.path}

\* Mutation: only the first operation of a batch is looked at.
affected_paths_FirstOnly(op) ==
  IF op.kind = "Batch"
  THEN simple_paths(op.ops[1])
  ELSE simple_paths(op)

affected_paths(op) ==
  IF op.kind = "Batch"
  THEN UNION {simple_paths(op.ops[i]) : i \in DOMAIN op.ops}
  ELSE simple_paths(op)

conflicts_with(a, b) == affected_paths(a) \cap affected_paths(b) # {}

\* The check validate_block makes on the operations of one block.  Operations inside
\* one Batch are never compared with each other.
ConflictFree(ops) ==
  \A i, j \in DOMAIN ops : i < j => ~ conflicts_with(ops[i], ops[j])

-----------------------------------------------------------------------------------
NewFile(mode) == [mode |-> mode, size |-> 0, translator |-> NoTranslator]

\* Mutation: a missing file is entered (entry(path).or_insert).
OnFile_Entered(ns, path, file) ==
  IF ns[path] = Absent THEN [ns EXCEPT ![path] = NewFile(CHOOSE m \in Modes : TRUE)]
  ELSE [ns EXCEPT ![path] = file]

\* `if let Some(file) = state.get_mut(path)`: an operation on a missing file is lost.
OnFile(ns, path, file) == IF ns[path] = Absent THEN ns ELSE [ns EXCEPT ![path] = file]

MoveFile(ns, from, to) ==
  IF ns[from] = Absent THEN ns ELSE [ns EXCEPT ![from] = Absent, ![to] = ns[from]]

apply_simple(ns, op) ==
  CASE op.kind = "Create"   -> [ns EXCEPT ![op.path] = NewFile(op.mode)]
    [] op.kind = "Write"    -> OnFile(ns, op.path, [ns[op.path] EXCEPT !.size = @ + 1])
    [] op.kind = "Delete"   -> [ns EXCEPT ![op.path] = Absent]
    [] op.kind = "SetTrans" -> OnFile(ns, op.path, [ns[op.path] EXCEPT !.translator = op.translator])
    [] op.kind = "Chmod"    -> OnFile(ns, op.path, [ns[op.path] EXCEPT !.mode = op.mode])
    [] op.kind = "Rename"   -> MoveFile(ns, op.from, op.to)
    [] OTHER                -> ns

\* The operations of a batch are applied in the order the batch lists them.
apply_operation_to_state(ns, op) ==
  IF op.kind = "Batch" THEN FoldLeft(apply_simple, ns, op.ops) ELSE apply_simple(ns, op)

\* The operations of one block, in the order the block lists them.
ApplyBlock(ns, ops) == FoldLeft(apply_operation_to_state, ns, ops)

EmptyNamespace == [p \in Paths |-> Absent]
===================================================================================
