----------------------------- MODULE BoundedGhostdag ------------------------------
(***********************************************************************************)
(* BoundedGhostdag: the consensus DAG every operation of the server is logged to. *)
(* The handle is cloned and shared; every field sits behind a tokio RwLock of its *)
(* own and add_block takes and releases them one after the other.  A task is one  *)
(* caller of add_block, and each action is what add_block does between two        *)
(* acquisitions that another task can come between.                               *)
(*                                                                                 *)
(* Ids are opaque strings the caller chooses.  Here they are numbered in the order *)
(* they are first submitted; ReusableIds are the ids a caller of the repository   *)
(* may build a second time (work_{task}, ns_{owner}, delete_{path}_{secs}_{fid}). *)
(*                                                                                 *)
(* Scaling is one step and the scaler's size is max_size: the scaler's own        *)
(* current_size and its copy in the DAG differ only while two tasks scale at      *)
(* once.  prune_old_blocks' reads of confirmed and of max_size are one step too.  *)
(***********************************************************************************)
EXTENDS NamespaceOps, Integers, FiniteSets

CONSTANTS
  Tasks,              \* concurrent callers of add_block
  MaxBlocks,          \* bound: calls of add_block in a behaviour
  ReusableIds,        \* ids that may be submitted more than once
  Payloads,           \* the operation sequences a block may carry
  MaxParents,         \* bound: parents a submitted block names (no limit in the code)
  CONFIRMATION_DEPTH,
  MIN_DAG_SIZE, MAX_DAG_SIZE, DEFAULT_DAG_SIZE

BlockIds == 1..MaxBlocks

ASSUME BoundsAssumption ==
  /\ MaxBlocks \in Nat
  /\ ReusableIds \subseteq BlockIds
  /\ MaxParents \in Nat
ASSUME SizesAssumption ==
  /\ CONFIRMATION_DEPTH \in Nat
  /\ MIN_DAG_SIZE \in Nat /\ MAX_DAG_SIZE \in Nat /\ DEFAULT_DAG_SIZE \in Nat
  /\ MIN_DAG_SIZE <= DEFAULT_DAG_SIZE /\ DEFAULT_DAG_SIZE <= MAX_DAG_SIZE

VARIABLES
  dag,          \* the retained blocks: id -> [parents, ops, state]
  tips, confirmed, ghost_scores, checkpoints, main_chain, max_size,
  calls,        \* calls of add_block made so far
  pc,           \* where each task is in add_block
  block,        \* the argument of each task's add_block
  chain,        \* prune_old_blocks' clone of main_chain
  victims       \* positions of that chain to prune

shared == <<tips, confirmed, ghost_scores, checkpoints, main_chain, max_size>>
locals == <<block, chain, victims>>
vars == <<dag, shared, calls, pc, locals>>

Steps == {"idle", "validate", "scale", "size", "snapshot", "select", "checkpoint",
          "remove", "insert", "tips", "scores", "chain", "confirm", "deep", "mark"}

NoBlock == [id |-> 0, parents |-> {}, ops |-> <<>>]

Blocks == [id : BlockIds, parents : SUBSET BlockIds, ops : Payloads]

Retained == [parents : SUBSET BlockIds, ops : Payloads, state : {"Processing", "Confirmed"}]

-----------------------------------------------------------------------------------
Init ==
  /\ dag = <<>> /\ tips = {} /\ confirmed = {} /\ ghost_scores = <<>>
  /\ checkpoints = <<>> /\ main_chain = <<>> /\ max_size = DEFAULT_DAG_SIZE
  /\ calls = 0
  /\ pc = [t \in Tasks |-> "idle"]
  /\ block = [t \in Tasks |-> NoBlock]
  /\ chain = [t \in Tasks |-> <<>>]
  /\ victims = [t \in Tasks |-> {}]

Goto(t, step) == pc' = [pc EXCEPT ![t] = step]

\* add_block returns, with Ok or with an error: the locals are gone.
Return(t) == Goto(t, "idle") /\ block' = [block EXCEPT ![t] = NoBlock]

ForgetPrune(t) ==
  /\ chain' = [chain EXCEPT ![t] = <<>>]
  /\ victims' = [victims EXCEPT ![t] = {}]

-----------------------------------------------------------------------------------
\* A caller builds a block and calls add_block.  A fresh id may name any blocks
\* submitted before it; whoever builds a reusable id passes no parents.
Submit(t) ==
  /\ pc[t] = "idle"
  /\ calls < MaxBlocks
  /\ \E id \in {calls + 1} \cup (ReusableIds \cap 1..calls),
        parents \in SUBSET (1..calls), ops \in Payloads :
       /\ id \in ReusableIds => parents = {}
       /\ Cardinality(parents) <= MaxParents
       /\ block' = [block EXCEPT ![t] = [id |-> id, parents |-> parents, ops |-> ops]]
  /\ calls' = calls + 1
  /\ Goto(t, "validate")
  /\ UNCHANGED <<dag, shared, chain, victims>>

\* Mutation: validate_block without the check that the parents exist.
Valid_ParentsUnchecked(b) == ConflictFree(b.ops)

\* validate_block; the timestamp check is one more way to be Rejected and is not
\* told apart from the others.
Valid(b) == b.parents \subseteq DOMAIN dag /\ ConflictFree(b.ops)

Validate(t) ==
  /\ pc[t] = "validate"
  /\ Valid(block[t])
  /\ Goto(t, "scale")
  /\ UNCHANGED <<dag, shared, calls, locals>>

Reject(t) ==
  /\ pc[t] = "validate"
  /\ Return(t)
  /\ UNCHANGED <<dag, shared, calls, chain, victims>>

\* Mutation: the scaled size is not clamped to the limits.
Scaled_Unclamped(n) == {n, (3 * n) \div 2, (2 * n) \div 3}

\* apply_dynamic_scaling: which of the three the scaler decides depends on clocks and
\* averages; a scale-up or scale-down multiplies or divides by 1.5 within the limits.
Scaled(n) ==
  LET up == (3 * n) \div 2
      down == (2 * n) \div 3
  IN  {n, IF up > MAX_DAG_SIZE THEN MAX_DAG_SIZE ELSE up,
          IF down < MIN_DAG_SIZE THEN MIN_DAG_SIZE ELSE down}

Scale(t) ==
  /\ pc[t] = "scale"
  /\ max_size' \in Scaled(max_size)
  /\ Goto(t, "size")
  /\ UNCHANGED <<dag, tips, confirmed, ghost_scores, checkpoints, main_chain, calls, locals>>

CheckSize(t) ==
  /\ pc[t] = "size"
  /\ Goto(t, IF Cardinality(DOMAIN dag) >= max_size THEN "snapshot" ELSE "insert")
  /\ UNCHANGED <<dag, shared, calls, locals>>

-----------------------------------------------------------------------------------
\* prune_old_blocks: main_chain is cloned first ...
SnapshotChain(t) ==
  /\ pc[t] = "snapshot"
  /\ chain' = [chain EXCEPT ![t] = main_chain]
  /\ Goto(t, "select")
  /\ UNCHANGED <<dag, shared, calls, block, victims>>

\* Mutation: the whole chain is pruned, confirmed or not.
PrunePositions_All(c) == DOMAIN c

\* ... then confirmed, and the confirmed blocks of the old part of the chain are chosen.
PrunePositions(c) == {i \in DOMAIN c : i <= Len(c) - (max_size \div 2) /\ c[i] \in confirmed}

\* Mutation: the victims are removed without a checkpoint.
SelectVictims_NoCheckpoint(t) ==
  /\ pc[t] = "select"
  /\ victims' = [victims EXCEPT ![t] = PrunePositions(chain[t])]
  /\ Goto(t, "remove")
  /\ UNCHANGED <<dag, shared, calls, block, chain>>

SelectVictims(t) ==
  /\ pc[t] = "select"
  /\ \/ /\ PrunePositions(chain[t]) # {}
        /\ victims' = [victims EXCEPT ![t] = PrunePositions(chain[t])]
        /\ Goto(t, "checkpoint")
        /\ UNCHANGED chain
     \/ /\ PrunePositions(chain[t]) = {}
        /\ ForgetPrune(t)
        /\ Goto(t, "insert")
  /\ UNCHANGED <<dag, shared, calls, block>>

VictimIds(t) == {chain[t][i] : i \in victims[t]}

LastVictim(t) == chain[t][Max(victims[t])]

Entry(b) == [id |-> b, parents |-> dag[b].parents, ops |-> dag[b].ops]

\* create_checkpoint replays the victims still in the DAG, in chain order, onto an
\* empty namespace.  covers names the blocks whose operations went into it.
CreateCheckpoint(t) ==
  /\ pc[t] = "checkpoint"
  /\ LastVictim(t) \in DOMAIN dag
  /\ LET present == SelectSeq(chain[t], LAMBDA b : b \in VictimIds(t) \cap DOMAIN dag)
     IN  checkpoints' = Append(checkpoints,
           [block_id |-> LastVictim(t),
            covers |-> {Entry(b) : b \in VictimIds(t) \cap DOMAIN dag},
            namespace_state |->
              FoldLeft(LAMBDA ns, b : ApplyBlock(ns, dag[b].ops), EmptyNamespace, present)])
  /\ Goto(t, "remove")
  /\ UNCHANGED <<dag, tips, confirmed, ghost_scores, main_chain, max_size, calls, locals>>

\* The last victim has gone meanwhile: "Block to checkpoint not found" fails the
\* whole add_block.
CheckpointFails(t) ==
  /\ pc[t] = "checkpoint"
  /\ LastVictim(t) \notin DOMAIN dag
  /\ Return(t) /\ ForgetPrune(t)
  /\ UNCHANGED <<dag, shared, calls>>

\* Only the DAG forgets the victims: tips, confirmed, scores and main_chain keep them.
RemoveVictims(t) ==
  /\ pc[t] = "remove"
  /\ dag' = [b \in DOMAIN dag \ VictimIds(t) |-> dag[b]]
  /\ ForgetPrune(t)
  /\ Goto(t, "insert")
  /\ UNCHANGED <<shared, calls, block>>

-----------------------------------------------------------------------------------
Insert(t) ==
  /\ pc[t] = "insert"
  /\ dag' = [b \in DOMAIN dag \cup {block[t].id} |->
               IF b = block[t].id
               THEN [parents |-> block[t].parents, ops |-> block[t].ops, state |-> "Processing"]
               ELSE dag[b]]
  /\ Goto(t, "tips")
  /\ UNCHANGED <<shared, calls, locals>>

\* Mutation: parents stay tips.
UpdateTips_ParentsKept(t) ==
  /\ pc[t] = "tips"
  /\ tips' = tips \cup {block[t].id}
  /\ Goto(t, "scores")
  /\ UNCHANGED <<dag, confirmed, ghost_scores, checkpoints, main_chain, max_size, calls, locals>>

UpdateTips(t) ==
  /\ pc[t] = "tips"
  /\ tips' = (tips \ block[t].parents) \cup {block[t].id}
  /\ Goto(t, "scores")
  /\ UNCHANGED <<dag, confirmed, ghost_scores, checkpoints, main_chain, max_size, calls, locals>>

Children(b) == {c \in DOMAIN dag : b \in dag[c].parents}

\* calculate_subtree_size: the block and everything reachable through children.
Subtree(b) ==
  LET within[n \in 0..Cardinality(DOMAIN dag)] ==
        IF n = 0 THEN {b}
        ELSE LET near == within[n - 1] IN near \cup UNION {Children(c) : c \in near}
  IN  within[Cardinality(DOMAIN dag)]

UpdateGhostScores(t) ==
  /\ pc[t] = "scores"
  /\ ghost_scores' = [b \in DOMAIN dag |-> Cardinality(Subtree(b))]
  /\ Goto(t, "chain")
  /\ UNCHANGED <<dag, tips, confirmed, checkpoints, main_chain, max_size, calls, locals>>

-----------------------------------------------------------------------------------
Genesis == {b \in DOMAIN dag : dag[b].parents = {}}

\* find_heaviest_child: children without a score yet are passed over; which of
\* several equally heavy children wins depends on the HashMap's order.
HeaviestChildren(b) ==
  LET scored == Children(b) \cap DOMAIN ghost_scores
  IN  {c \in scored : \A d \in scored : ghost_scores[c] >= ghost_scores[d]}

\* The walks from a genesis block (the first the HashMap yields, so any of them) along
\* heaviest children to a block without one.
GhostChains ==
  LET walks[n \in 1..Cardinality(DOMAIN dag)] ==
        IF n = 1 THEN {<<g>> : g \in Genesis}
        ELSE UNION {{Append(w, c) : c \in HeaviestChildren(Last(w))} : w \in walks[n - 1]}
  IN  {w \in UNION {walks[n] : n \in DOMAIN walks} :
         w \in Seq(DOMAIN dag) /\ HeaviestChildren(Last(w)) = {}}

UpdateMainChain(t) ==
  /\ pc[t] = "chain"
  /\ \/ Genesis = {} /\ UNCHANGED main_chain
     \/ main_chain' \in GhostChains
  /\ Goto(t, "confirm")
  /\ UNCHANGED <<dag, tips, confirmed, ghost_scores, checkpoints, max_size, calls, locals>>

\* Mutation: confirmation one block too early.
UpdateConfirmed_OffByOne(t) ==
  /\ pc[t] = "confirm"
  /\ confirmed' = confirmed \cup
       {main_chain[i] : i \in {j \in DOMAIN main_chain : j <= Len(main_chain) - CONFIRMATION_DEPTH + 1}}
  /\ Goto(t, "deep")
  /\ UNCHANGED <<dag, tips, ghost_scores, checkpoints, main_chain, max_size, calls, locals>>

UpdateConfirmed(t) ==
  /\ pc[t] = "confirm"
  /\ confirmed' = confirmed \cup
       {main_chain[i] : i \in {j \in DOMAIN main_chain : j <= Len(main_chain) - CONFIRMATION_DEPTH}}
  /\ Goto(t, "deep")
  /\ UNCHANGED <<dag, tips, ghost_scores, checkpoints, main_chain, max_size, calls, locals>>

\* is_deeply_confirmed, for the block just added only.
CheckDeep(t) ==
  /\ pc[t] = "deep"
  /\ \/ block[t].id \in confirmed /\ Goto(t, "mark") /\ UNCHANGED block
     \/ block[t].id \notin confirmed /\ Return(t)
  /\ UNCHANGED <<dag, shared, calls, chain, victims>>

MarkConfirmed(t) ==
  /\ pc[t] = "mark"
  /\ dag' = [b \in DOMAIN dag |->
               IF b = block[t].id THEN [dag[b] EXCEPT !.state = "Confirmed"] ELSE dag[b]]
  /\ Return(t)
  /\ UNCHANGED <<shared, calls, chain, victims>>

-----------------------------------------------------------------------------------
AddBlock(t) ==
  \/ Validate(t) \/ Reject(t) \/ Scale(t) \/ CheckSize(t)
  \/ SnapshotChain(t) \/ SelectVictims(t)
  \/ CreateCheckpoint(t) \/ CheckpointFails(t) \/ RemoveVictims(t)
  \/ Insert(t) \/ UpdateTips(t) \/ UpdateGhostScores(t) \/ UpdateMainChain(t)
  \/ UpdateConfirmed(t) \/ CheckDeep(t) \/ MarkConfirmed(t)

Next == \E t \in Tasks : Submit(t) \/ AddBlock(t)

Spec == Init /\ [][Next]_vars

-----------------------------------------------------------------------------------
(***********************************************************************************)
(* Properties.                                                                     *)
(***********************************************************************************)
Covered == UNION {checkpoints[i].covers : i \in DOMAIN checkpoints}

\* Everything the DAG or one of its checkpoints still records.
Recorded == {Entry(b) : b \in DOMAIN dag} \cup Covered

KnownIds == {e.id : e \in Recorded}

\* Type invariant.
TypeOK ==
  /\ DOMAIN dag \subseteq BlockIds
  /\ dag \in [DOMAIN dag -> Retained]
  /\ tips \subseteq BlockIds
  /\ confirmed \subseteq BlockIds
  /\ DOMAIN ghost_scores \subseteq BlockIds
  /\ \A i \in DOMAIN checkpoints : checkpoints[i].covers \subseteq Blocks
  /\ main_chain \in Seq(BlockIds)
  /\ max_size \in MIN_DAG_SIZE..MAX_DAG_SIZE
  /\ calls \in 0..MaxBlocks
  /\ pc \in [Tasks -> Steps]
  /\ block \in [Tasks -> Blocks \cup {NoBlock}]
  /\ \A t \in Tasks : pc[t] # "idle" => block[t] \in Blocks
  /\ chain \in [Tasks -> Seq(BlockIds)]
  /\ victims \in [Tasks -> SUBSET Nat]
  /\ \A t \in Tasks :
       /\ victims[t] \subseteq DOMAIN chain[t]
       /\ pc[t] \notin {"checkpoint", "remove"} => victims[t] = {}

\* As long as callers keep ids unique, concurrent add_blocks and prunes together
\* behave as an append-only ledger: no step loses or alters a block (a pruned block
\* is in a checkpoint), and no block enters before all its parents, even when a
\* parent is pruned between the validation and the insertion of its child.
L == INSTANCE Ledger WITH Ids <- BlockIds, ledger <- Recorded

LedgerSpec == L!Spec

\* Why LedgerSpec holds.  The chain, its clones and the confirmed set name recorded
\* blocks only; ids under way are new and distinct; the parents of a validated block
\* stay recorded; and a victim is in a checkpoint, as it stands, before it is removed.
BeforeInsert == {"validate", "scale", "size", "snapshot", "select", "checkpoint", "remove", "insert"}

SeqRange(s) == {s[i] : i \in DOMAIN s}

ChainsRecorded ==
  /\ confirmed \cup SeqRange(main_chain) \subseteq KnownIds
  /\ \A t \in Tasks : SeqRange(chain[t]) \subseteq KnownIds

IdsFresh ==
  /\ \A id \in KnownIds : id <= calls
  /\ \A t \in Tasks : pc[t] \in BeforeInsert =>
       /\ block[t].id <= calls
       /\ block[t].id \notin KnownIds
       /\ \A u \in Tasks : pc[u] \in BeforeInsert /\ block[u].id = block[t].id => u = t

ParentsRecorded ==
  \A t \in Tasks : pc[t] \in BeforeInsert \ {"validate"} => block[t].parents \subseteq KnownIds

VictimsCovered ==
  \A t \in Tasks : pc[t] = "remove" =>
    \A b \in VictimIds(t) \cap DOMAIN dag : Entry(b) \in Covered

LedgerInv == ChainsRecorded /\ IdsFresh /\ ParentsRecorded /\ VictimsCovered

\* Pruning is for "old confirmed blocks" (line 445): a block leaves the DAG only after
\* it was confirmed, although the chain and the confirmed set are cloned at different
\* moments and other tasks go on meanwhile.
OnlyConfirmedPruned ==
  [][\A b \in DOMAIN dag \ DOMAIN dag' : b \in confirmed]_vars

Ancestors(e, entries) ==
  LET up[n \in 0..MaxBlocks] ==
        IF n = 0 THEN e.parents
        ELSE LET near == up[n - 1]
             IN  near \cup UNION {f.parents : f \in {g \in entries : g.id \in near}}
  IN  up[MaxBlocks]

Descendants(b, entries) == {e.id : e \in {f \in entries : b \in Ancestors(f, entries)}}

\* "Confirmed blocks (deeply buried)" (line 167): a block is confirmed only when at
\* least CONFIRMATION_DEPTH recorded blocks descend from it, whatever mixture of old
\* scores and new blocks the main chain was built from.
ConfirmedAreBuried ==
  [][\A b \in confirmed' \ confirmed :
       Cardinality(Descendants(b, Recorded)) >= CONFIRMATION_DEPTH]_vars

AllIdle == \A t \in Tasks : pc[t] = "idle"

\* "Current tips of the DAG" (line 164): when no add_block is under way, the tips are
\* the recorded blocks that no recorded block names as a parent, across prunes; only a
\* block whose id was submitted again can be a tip besides.
Leaves == KnownIds \ UNION {e.parents : e \in Recorded}

TipsAreLeaves == AllIdle => Leaves \subseteq tips /\ tips \ Leaves \subseteq ReusableIds

\* "Default max size" (tests/consensus_property_tests.rs:131): with scaling at rest the
\* DAG never holds more blocks than its maximum size once the calls have returned.
DagStaysBounded == AllIdle => Cardinality(DOMAIN dag) <= max_size

\* "Genesis blocks (no parents) should always succeed"
\* (tests/consensus_property_tests.rs:126): adding one never fails in the pruning.
\* The code does not keep this, once the genesis of a stale chain is pruned; no run checks it.
GenesisAdmitted ==
  [][\A t \in Tasks : pc[t] = "checkpoint" /\ pc'[t] = "idle" => block[t].parents # {}]_vars

\* Checkpoint.namespace_state is the "Aggregated namespace state up to this point"
\* (line 140): a file of an earlier checkpoint that the blocks of a later one do not
\* touch is in the later one too.  The code does not keep this: replay begins with an
\* empty namespace; no run checks it.
TouchedBy(entries) ==
  UNION {UNION {affected_paths(e.ops[k]) : k \in DOMAIN e.ops} : e \in entries}

CheckpointsAggregate ==
  \A i, j \in DOMAIN checkpoints : i < j =>
    \A p \in Paths \ TouchedBy(checkpoints[j].covers) :
      checkpoints[j].namespace_state[p] = checkpoints[i].namespace_state[p]
===================================================================================
