-------------------------- MODULE BoundedGhostdag_proofs --------------------------
(***********************************************************************************)
(* Proofs about BoundedGhostdag for any number of tasks and blocks and any sizes, *)
(* about the replay of blocks in NamespaceReplay, and about the locks in DagLocks. *)
(***********************************************************************************)
EXTENDS BoundedGhostdag, NamespaceReplay, DagLocks, Lemmas

-----------------------------------------------------------------------------------
\* What Append does to a sequence, whatever it holds.
LEMMA AppendFacts ==
  ASSUME NEW S, NEW s \in Seq(S), NEW e
  PROVE  /\ Append(s, e) \in Seq(S \cup {e})
         /\ DOMAIN Append(s, e) = DOMAIN s \cup {Len(s) + 1}
         /\ \A i \in DOMAIN s : Append(s, e)[i] = s[i]
         /\ Append(s, e)[Len(s) + 1] = e
<1>1. s \in Seq(S \cup {e}) /\ Len(s) \in Nat /\ DOMAIN s = 1..Len(s)
  BY SeqMonotonic, LenProperties
<1>2. Append(s, e) \in Seq(S \cup {e}) /\ Len(Append(s, e)) = Len(s) + 1
  BY <1>1, AppendProperties
<1>3. DOMAIN Append(s, e) = 1..(Len(s) + 1)
  BY <1>2, LenProperties
<1>4. /\ \A i \in 1..Len(s) : Append(s, e)[i] = s[i]
      /\ Append(s, e)[Len(s) + 1] = e
  BY <1>1, AppendProperties
<1> QED BY <1>1, <1>2, <1>3, <1>4

\* The replayed namespaces are left untyped: their type would take an induction over
\* the operations of a block.
Types == TypeOK /\ \E S : checkpoints \in Seq(S)

\* The types of the variables are preserved by every step of add_block.
LEMMA TypeInit == Init => Types
BY BoundsAssumption, SizesAssumption, EmptySeq
   DEF Init, Types, TypeOK, BlockIds, Retained, Steps, NoBlock

LEMMA ScaledWithinLimits ==
  ASSUME NEW n \in MIN_DAG_SIZE..MAX_DAG_SIZE
  PROVE  Scaled(n) \subseteq MIN_DAG_SIZE..MAX_DAG_SIZE
<1>1. /\ MIN_DAG_SIZE \in Nat /\ MAX_DAG_SIZE \in Nat
      /\ n \in Nat /\ MIN_DAG_SIZE <= n /\ n <= MAX_DAG_SIZE
  BY SizesAssumption
<1>2. (3 * n) \div 2 \in Nat /\ n <= (3 * n) \div 2
  BY <1>1
<1>3. (2 * n) \div 3 \in Nat /\ (2 * n) \div 3 <= n
  BY <1>1
<1>4. ASSUME NEW up \in Nat, n <= up, NEW down \in Nat, down <= n
      PROVE  {n, IF up > MAX_DAG_SIZE THEN MAX_DAG_SIZE ELSE up,
              IF down < MIN_DAG_SIZE THEN MIN_DAG_SIZE ELSE down}
               \subseteq MIN_DAG_SIZE..MAX_DAG_SIZE
  BY <1>1, <1>4
<1> QED BY <1>2, <1>3, <1>4 DEF Scaled

LEMMA MarkedRetained ==
  ASSUME NEW r \in Retained PROVE [r EXCEPT !.state = "Confirmed"] \in Retained
BY DEF Retained

LEMMA TypeStep == Types /\ [Next]_vars => Types'
<1> SUFFICES ASSUME Types, [Next]_vars PROVE Types'
  OBVIOUS
<1> USE BoundsAssumption, SizesAssumption DEF Types, TypeOK, shared, locals, Goto, Steps
<1>1. ASSUME NEW t \in Tasks, Submit(t) PROVE Types'
  <2>1. calls + 1 \in BlockIds /\ 1..calls \subseteq BlockIds
    BY <1>1 DEF Submit, BlockIds
  <2>2. \E b \in Blocks : block' = [block EXCEPT ![t] = b]
    BY <1>1, <2>1 DEF Submit, Blocks
  <2>3. calls' \in 0..MaxBlocks
    BY <1>1 DEF Submit
  <2> QED BY SMTT(30), <1>1, <2>2, <2>3 DEF Submit
<1>2. ASSUME NEW t \in Tasks, Validate(t) PROVE Types'
  BY <1>2 DEF Validate
<1>3. ASSUME NEW t \in Tasks, Reject(t) PROVE Types'
  BY <1>3 DEF Reject, Return
<1>4. ASSUME NEW t \in Tasks, Scale(t) PROVE Types'
  <2>1. max_size' \in MIN_DAG_SIZE..MAX_DAG_SIZE
    BY <1>4, ScaledWithinLimits DEF Scale
  <2> QED BY <1>4, <2>1 DEF Scale
<1>5. ASSUME NEW t \in Tasks, CheckSize(t) PROVE Types'
  BY <1>5 DEF CheckSize
<1>6. ASSUME NEW t \in Tasks, SnapshotChain(t) PROVE Types'
  BY <1>6 DEF SnapshotChain
<1>7. ASSUME NEW t \in Tasks, SelectVictims(t) PROVE Types'
  <2>1. PrunePositions(chain[t]) \subseteq DOMAIN chain[t] /\ DOMAIN chain[t] \subseteq Nat
    BY DEF PrunePositions
  <2>2. CASE PrunePositions(chain[t]) # {}
    BY ZenonT(30), <1>7, <2>1, <2>2 DEF SelectVictims
  <2>3. CASE PrunePositions(chain[t]) = {}
    <3>1. /\ chain' = [chain EXCEPT ![t] = <<>>] /\ victims' = [victims EXCEPT ![t] = {}]
          /\ pc[t] = "select" /\ pc' = [pc EXCEPT ![t] = "insert"]
          /\ UNCHANGED <<dag, shared, calls, block>>
      BY <1>7, <2>3 DEF SelectVictims, ForgetPrune
    <3> QED BY <3>1, EmptySeq
  <2> QED BY <2>2, <2>3
<1>8. ASSUME NEW t \in Tasks, CreateCheckpoint(t) PROVE Types'
  <2> DEFINE present == SelectSeq(chain[t], LAMBDA b : b \in VictimIds(t) \cap DOMAIN dag)
             new == [block_id |-> LastVictim(t),
                     covers |-> {Entry(b) : b \in VictimIds(t) \cap DOMAIN dag},
                     namespace_state |->
                       FoldLeft(LAMBDA ns, b : ApplyBlock(ns, dag[b].ops), EmptyNamespace, present)]
  <2>1. checkpoints' = Append(checkpoints, new) /\ new.covers = {Entry(b) : b \in VictimIds(t) \cap DOMAIN dag}
    BY <1>8 DEF CreateCheckpoint
  <2> HIDE DEF new
  <2>2. \A b \in DOMAIN dag : Entry(b) \in Blocks
    BY DEF Entry, Blocks, Retained
  <2>3. PICK S : checkpoints \in Seq(S)
    OBVIOUS
  <2>4. /\ checkpoints' \in Seq(S \cup {new})
        /\ DOMAIN checkpoints' = DOMAIN checkpoints \cup {Len(checkpoints) + 1}
        /\ \A i \in DOMAIN checkpoints : checkpoints'[i] = checkpoints[i]
        /\ checkpoints'[Len(checkpoints) + 1] = new
    BY <2>1, <2>3, AppendFacts
  <2>5. \A i \in DOMAIN checkpoints' : checkpoints'[i].covers \subseteq Blocks
    BY <2>1, <2>2, <2>4
  <2> QED BY <1>8, <2>4, <2>5 DEF CreateCheckpoint
<1>9. ASSUME NEW t \in Tasks, CheckpointFails(t) PROVE Types'
  BY <1>9, EmptySeq DEF CheckpointFails, Return, ForgetPrune
<1>10. ASSUME NEW t \in Tasks, RemoveVictims(t) PROVE Types'
  BY <1>10, EmptySeq DEF RemoveVictims, ForgetPrune
<1>11. ASSUME NEW t \in Tasks, Insert(t) PROVE Types'
  BY <1>11 DEF Insert, Blocks, Retained
<1>12. ASSUME NEW t \in Tasks, UpdateTips(t) PROVE Types'
  BY <1>12 DEF UpdateTips, Blocks
<1>13. ASSUME NEW t \in Tasks, UpdateGhostScores(t) PROVE Types'
  BY <1>13 DEF UpdateGhostScores
<1>14. ASSUME NEW t \in Tasks, UpdateMainChain(t) PROVE Types'
  <2>1. main_chain' \in Seq(BlockIds)
    BY <1>14, SeqMonotonic DEF UpdateMainChain, GhostChains
  <2> QED BY <1>14, <2>1 DEF UpdateMainChain
<1>15. ASSUME NEW t \in Tasks, UpdateConfirmed(t) PROVE Types'
  BY <1>15, ElementOfSeq DEF UpdateConfirmed
<1>16. ASSUME NEW t \in Tasks, CheckDeep(t) PROVE Types'
  BY <1>16 DEF CheckDeep, Return
<1>17. ASSUME NEW t \in Tasks, MarkConfirmed(t) PROVE Types'
  <2>1. \A b \in DOMAIN dag : [dag[b] EXCEPT !.state = "Confirmed"] \in Retained
    BY MarkedRetained
  <2>2. dag' = [b \in DOMAIN dag |->
                  IF b = block[t].id THEN [dag[b] EXCEPT !.state = "Confirmed"] ELSE dag[b]]
    BY <1>17 DEF MarkConfirmed
  <2>3. DOMAIN dag' = DOMAIN dag /\ \A b \in DOMAIN dag : dag'[b] \in Retained
    BY <2>1, <2>2
  <2>4. dag' \in [DOMAIN dag' -> Retained]
    BY <2>2, <2>3
  <2> QED BY <1>17, <2>3, <2>4 DEF MarkConfirmed, Return
<1>18. CASE UNCHANGED vars
  BY <1>18 DEF vars
<1> QED
  BY <1>1, <1>2, <1>3, <1>4, <1>5, <1>6, <1>7, <1>8, <1>9, <1>10, <1>11, <1>12,
     <1>13, <1>14, <1>15, <1>16, <1>17, <1>18 DEF Next, AddBlock

\* Type correctness of the DAG, its caches and every task's locals.
THEOREM TypeCorrect == Spec => []TypeOK
<1>1. Types => TypeOK
  BY DEF Types
<1> QED BY <1>1, TypeInit, TypeStep, PTL DEF Spec

-----------------------------------------------------------------------------------
\* Which blocks leave the DAG: victims only, and victims are confirmed.
VictimsConfirmed == \A t \in Tasks : VictimIds(t) \subseteq confirmed

LEMMA VictimsConfirmedStep ==
  Types /\ VictimsConfirmed /\ [Next]_vars => VictimsConfirmed'
<1> SUFFICES ASSUME Types, VictimsConfirmed, [Next]_vars, NEW u \in Tasks, NEW i \in victims'[u]
             PROVE  chain'[u][i] \in confirmed'
  BY DEF VictimsConfirmed, VictimIds
<1> USE DEF Types, TypeOK, Goto, shared, locals
<1>1. CASE UNCHANGED <<chain, victims>> /\ confirmed \subseteq confirmed'
  BY <1>1 DEF VictimsConfirmed, VictimIds
<1>2. ASSUME NEW t \in Tasks, SnapshotChain(t) PROVE chain'[u][i] \in confirmed'
  BY <1>2 DEF SnapshotChain, VictimsConfirmed, VictimIds
<1>3. ASSUME NEW t \in Tasks, SelectVictims(t) PROVE chain'[u][i] \in confirmed'
  <2>1. CASE u = t
    BY <1>3, <2>1 DEF SelectVictims, PrunePositions, ForgetPrune
  <2>2. CASE u # t
    BY <1>3, <2>2 DEF SelectVictims, ForgetPrune, VictimsConfirmed, VictimIds
  <2> QED BY <2>1, <2>2
<1>4. ASSUME NEW t \in Tasks, ForgetPrune(t), UNCHANGED confirmed PROVE chain'[u][i] \in confirmed'
  BY <1>4 DEF ForgetPrune, VictimsConfirmed, VictimIds
<1> QED
  BY <1>1, <1>2, <1>3, <1>4
     DEF Next, AddBlock, vars, Submit, Validate, Reject, Scale, CheckSize, CreateCheckpoint,
         CheckpointFails, RemoveVictims, Insert, UpdateTips, UpdateGhostScores, UpdateMainChain,
         UpdateConfirmed, CheckDeep, MarkConfirmed

\* Only confirmed blocks are ever pruned, whatever the tasks interleave.
THEOREM PrunesOnlyConfirmed == Spec => OnlyConfirmedPruned
<1>1. Init => VictimsConfirmed
  BY DEF Init, VictimsConfirmed, VictimIds
<1>2. VictimsConfirmed /\ [Next]_vars =>
        [\A b \in DOMAIN dag \ DOMAIN dag' : b \in confirmed]_vars
  <2> SUFFICES ASSUME VictimsConfirmed, Next, NEW b \in DOMAIN dag \ DOMAIN dag'
               PROVE  b \in confirmed
    OBVIOUS
  <2>1. ASSUME NEW t \in Tasks, RemoveVictims(t) PROVE b \in confirmed
    BY <2>1 DEF RemoveVictims, VictimsConfirmed
  <2>2. CASE DOMAIN dag \subseteq DOMAIN dag'
    BY <2>2
  <2> QED
    BY <2>1, <2>2
       DEF Next, AddBlock, shared, Submit, Validate, Reject, Scale, CheckSize, SnapshotChain,
           SelectVictims, CreateCheckpoint, CheckpointFails, Insert, UpdateTips,
           UpdateGhostScores, UpdateMainChain, UpdateConfirmed, CheckDeep, MarkConfirmed
<1> QED BY <1>1, <1>2, TypeInit, TypeStep, VictimsConfirmedStep, PTL DEF Spec, OnlyConfirmedPruned

-----------------------------------------------------------------------------------
\* What each kind of step does to the record of blocks.
EntriesKept == \A b \in DOMAIN dag \cap DOMAIN dag' : Entry(b)' = Entry(b)

Keeps == Recorded' = Recorded /\ EntriesKept

Adds(t) == Recorded' = Recorded \cup {block[t]} /\ EntriesKept

LEMMA SameRecord ==
  ASSUME UNCHANGED <<dag, checkpoints>>
  PROVE  Keeps /\ Covered' = Covered
BY DEF Keeps, EntriesKept, Recorded, Covered, Entry

LEMMA CheckpointKeeps ==
  ASSUME Types, NEW t \in Tasks, CreateCheckpoint(t)
  PROVE  /\ Keeps
         /\ Covered' = Covered \cup {Entry(b) : b \in VictimIds(t) \cap DOMAIN dag}
<1> DEFINE added == {Entry(b) : b \in VictimIds(t) \cap DOMAIN dag}
           present == SelectSeq(chain[t], LAMBDA b : b \in VictimIds(t) \cap DOMAIN dag)
           new == [block_id |-> LastVictim(t), covers |-> added,
                   namespace_state |->
                     FoldLeft(LAMBDA ns, b : ApplyBlock(ns, dag[b].ops), EmptyNamespace, present)]
<1>1. checkpoints' = Append(checkpoints, new) /\ new.covers = added /\ UNCHANGED dag
  BY DEF CreateCheckpoint
<1> HIDE DEF new
<1>2. PICK S : checkpoints \in Seq(S)
  BY DEF Types
<1>3. /\ DOMAIN checkpoints' = DOMAIN checkpoints \cup {Len(checkpoints) + 1}
      /\ \A i \in DOMAIN checkpoints : checkpoints'[i] = checkpoints[i]
      /\ checkpoints'[Len(checkpoints) + 1] = new
  BY <1>1, <1>2, AppendFacts
<1>4. Covered' = Covered \cup added
  BY <1>1, <1>3 DEF Covered
<1>5. added \subseteq {Entry(b) : b \in DOMAIN dag}
  OBVIOUS
<1>6. {Entry(b) : b \in DOMAIN dag}' = {Entry(b) : b \in DOMAIN dag} /\ EntriesKept
  BY <1>1 DEF Entry, EntriesKept
<1> QED BY <1>4, <1>5, <1>6 DEF Recorded, Keeps

LEMMA RemovalKeeps ==
  ASSUME Types, VictimsCovered, NEW t \in Tasks, RemoveVictims(t)
  PROVE  Keeps /\ Covered' = Covered
<1>1. /\ DOMAIN dag' = DOMAIN dag \ VictimIds(t)
      /\ \A b \in DOMAIN dag' : dag'[b] = dag[b]
      /\ UNCHANGED checkpoints
  BY DEF RemoveVictims, shared
<1>2. \A b \in DOMAIN dag' : Entry(b)' = Entry(b)
  BY <1>1 DEF Entry
<1>3. Covered' = Covered
  BY <1>1 DEF Covered
<1>4. \A b \in DOMAIN dag \ DOMAIN dag' : Entry(b) \in Covered
  BY <1>1 DEF VictimsCovered, RemoveVictims
<1> QED BY <1>1, <1>2, <1>3, <1>4 DEF Recorded, Keeps, EntriesKept

LEMMA LiveKnown == \A b \in DOMAIN dag : Entry(b) \in Recorded /\ b \in KnownIds
<1>1. \A b \in DOMAIN dag : Entry(b) \in Recorded /\ Entry(b).id = b
  BY DEF Recorded, Entry
<1> QED BY <1>1 DEF KnownIds

LEMMA InsertAdds ==
  ASSUME Types, IdsFresh, NEW t \in Tasks, Insert(t)
  PROVE  /\ Adds(t) /\ Covered' = Covered
         /\ block[t] \in Blocks /\ block[t].id \notin KnownIds
         /\ DOMAIN dag' = DOMAIN dag \cup {block[t].id}
<1>1. block[t] \in Blocks /\ block[t].id \notin KnownIds
  BY DEF Insert, Types, TypeOK, IdsFresh, BeforeInsert
<1>2. block[t].id \notin DOMAIN dag
  BY <1>1, LiveKnown
<1>3. /\ DOMAIN dag' = DOMAIN dag \cup {block[t].id}
      /\ \A b \in DOMAIN dag : dag'[b] = dag[b]
      /\ dag'[block[t].id] =
           [parents |-> block[t].parents, ops |-> block[t].ops, state |-> "Processing"]
      /\ UNCHANGED checkpoints
  BY <1>2 DEF Insert, shared
<1>4. \A b \in DOMAIN dag : Entry(b)' = Entry(b)
  BY <1>3 DEF Entry
<1>5. Entry(block[t].id)' = [id |-> block'[t].id, parents |-> block[t].parents, ops |-> block[t].ops]
  BY <1>3 DEF Entry, Insert, locals
<1>6. [id |-> block'[t].id, parents |-> block[t].parents, ops |-> block[t].ops] = block[t]
  BY <1>1 DEF Insert, locals, Blocks
<1>7. Covered' = Covered
  BY <1>3 DEF Covered
<1>8. block'[t] = block[t]
  BY DEF Insert, locals
<1>9. {Entry(b) : b \in DOMAIN dag}' = {Entry(b) : b \in DOMAIN dag} \cup {block[t]}
  BY <1>3, <1>4, <1>5, <1>6, <1>8
<1> QED BY <1>1, <1>3, <1>4, <1>7, <1>9 DEF Recorded, Adds, EntriesKept

LEMMA MarkKeeps ==
  ASSUME Types, NEW t \in Tasks, MarkConfirmed(t)
  PROVE  Keeps /\ Covered' = Covered /\ DOMAIN dag' = DOMAIN dag
<1>1. /\ DOMAIN dag' = DOMAIN dag /\ UNCHANGED checkpoints
      /\ \A b \in DOMAIN dag : dag'[b].parents = dag[b].parents /\ dag'[b].ops = dag[b].ops
  <2>1. \A b \in DOMAIN dag : /\ [dag[b] EXCEPT !.state = "Confirmed"].parents = dag[b].parents
                              /\ [dag[b] EXCEPT !.state = "Confirmed"].ops = dag[b].ops
    BY DEF Types, TypeOK, Retained
  <2> QED BY <2>1 DEF MarkConfirmed, shared
<1>2. \A b \in DOMAIN dag : Entry(b)' = Entry(b)
  BY <1>1 DEF Entry
<1> QED BY <1>1, <1>2 DEF Recorded, Covered, Keeps, EntriesKept

\* Every step keeps the record or is an Insert, which adds the block it inserts.
LEMMA RecordStep ==
  ASSUME Types, LedgerInv, [Next]_vars
  PROVE  /\ Covered \subseteq Covered' /\ EntriesKept
         /\ \/ Recorded' = Recorded /\ KnownIds' = KnownIds /\ DOMAIN dag' \subseteq DOMAIN dag
            \/ \E t \in Tasks : /\ Insert(t) /\ Recorded' = Recorded \cup {block[t]}
                                /\ KnownIds' = KnownIds \cup {block[t].id}
                                /\ DOMAIN dag' = DOMAIN dag \cup {block[t].id}
                                /\ block[t] \in Blocks /\ block[t].id \notin KnownIds
<1> USE DEF LedgerInv
<1>0. Recorded' = Recorded => KnownIds' = KnownIds
  BY DEF KnownIds
<1>1. CASE UNCHANGED <<dag, checkpoints>>
  BY <1>0, <1>1, SameRecord DEF Keeps
<1>2. ASSUME NEW t \in Tasks, CreateCheckpoint(t)
      PROVE  Keeps /\ Covered \subseteq Covered' /\ DOMAIN dag' \subseteq DOMAIN dag
  BY <1>2, CheckpointKeeps DEF CreateCheckpoint
<1>3. ASSUME NEW t \in Tasks, RemoveVictims(t)
      PROVE  Keeps /\ Covered \subseteq Covered' /\ DOMAIN dag' \subseteq DOMAIN dag
  BY <1>3, RemovalKeeps DEF RemoveVictims
<1>4. ASSUME NEW t \in Tasks, MarkConfirmed(t)
      PROVE  Keeps /\ Covered \subseteq Covered' /\ DOMAIN dag' \subseteq DOMAIN dag
  BY <1>4, MarkKeeps
<1>5. ASSUME NEW t \in Tasks, Insert(t)
      PROVE  /\ Covered \subseteq Covered' /\ EntriesKept
             /\ Recorded' = Recorded \cup {block[t]}
             /\ KnownIds' = KnownIds \cup {block[t].id}
             /\ DOMAIN dag' = DOMAIN dag \cup {block[t].id}
             /\ block[t] \in Blocks /\ block[t].id \notin KnownIds
  <2>1. /\ Adds(t) /\ Covered' = Covered
        /\ block[t] \in Blocks /\ block[t].id \notin KnownIds
        /\ DOMAIN dag' = DOMAIN dag \cup {block[t].id}
    BY <1>5, InsertAdds
  <2>2. Recorded' = Recorded \cup {block[t]} /\ EntriesKept
    BY <2>1 DEF Adds
  <2>3. KnownIds' = KnownIds \cup {block[t].id}
    BY <2>2 DEF KnownIds
  <2> QED BY <2>1, <2>2, <2>3
<1> QED
  BY <1>0, <1>1, <1>2, <1>3, <1>4, <1>5
     DEF Keeps, Next, AddBlock, vars, shared, Submit, Validate, Reject, Scale, CheckSize,
         SnapshotChain, SelectVictims, CheckpointFails, UpdateTips, UpdateGhostScores,
         UpdateMainChain, UpdateConfirmed, CheckDeep

\* As long as no id is forgotten, the chain and its clones go on naming recorded blocks.
LEMMA ChainsStep ==
  ASSUME Types, ChainsRecorded, KnownIds \subseteq KnownIds', [Next]_vars
  PROVE  ChainsRecorded'
<1>1. SeqRange(<<>>) = {}
  BY DEF SeqRange
<1> SUFFICES /\ confirmed' \subseteq KnownIds
             /\ SeqRange(main_chain') \subseteq KnownIds
             /\ \A u \in Tasks : SeqRange(chain'[u]) \subseteq KnownIds
  BY DEF ChainsRecorded, SeqRange
<1> USE DEF ChainsRecorded, Types, TypeOK, locals, shared
<1>2. CASE UNCHANGED <<confirmed, main_chain, chain>>
  BY <1>2 DEF SeqRange
<1>3. ASSUME NEW t \in Tasks, SnapshotChain(t) PROVE \A u \in Tasks : SeqRange(chain'[u]) \subseteq KnownIds
  BY <1>3 DEF SnapshotChain, SeqRange
<1>4. ASSUME NEW t \in Tasks, ForgetPrune(t), UNCHANGED <<confirmed, main_chain>>
      PROVE  \A u \in Tasks : SeqRange(chain'[u]) \subseteq KnownIds
  BY <1>1, <1>4 DEF ForgetPrune
<1>5. ASSUME NEW t \in Tasks, UpdateMainChain(t) PROVE SeqRange(main_chain') \subseteq KnownIds
  <2>1. CASE main_chain' \in GhostChains
    <3>1. main_chain' \in Seq(DOMAIN dag)
      BY <2>1 DEF GhostChains
    <3>2. SeqRange(main_chain') \subseteq DOMAIN dag
      BY <3>1, ElementOfSeq, LenProperties DEF SeqRange
    <3> QED BY <3>2, LiveKnown
  <2>2. CASE UNCHANGED main_chain
    BY <2>2 DEF SeqRange
  <2> QED BY <1>5, <2>1, <2>2 DEF UpdateMainChain
<1>6. ASSUME NEW t \in Tasks, UpdateConfirmed(t) PROVE confirmed' \subseteq KnownIds
  BY <1>6 DEF UpdateConfirmed, SeqRange
<1>7. ASSUME NEW t \in Tasks, UpdateMainChain(t) \/ UpdateConfirmed(t)
      PROVE  UNCHANGED chain /\ (UpdateMainChain(t) => UNCHANGED confirmed)
                             /\ (UpdateConfirmed(t) => UNCHANGED main_chain)
  BY <1>7 DEF UpdateMainChain, UpdateConfirmed
<1>8. ASSUME NEW t \in Tasks, SelectVictims(t) \/ CheckpointFails(t) \/ RemoveVictims(t)
      PROVE  UNCHANGED <<confirmed, main_chain>> /\ (UNCHANGED chain \/ ForgetPrune(t))
  BY <1>8 DEF SelectVictims, CheckpointFails, RemoveVictims
<1>9. ASSUME NEW t \in Tasks,
              \/ Submit(t) \/ Validate(t) \/ Reject(t) \/ Scale(t) \/ CheckSize(t)
              \/ CreateCheckpoint(t) \/ Insert(t) \/ UpdateTips(t) \/ UpdateGhostScores(t)
              \/ CheckDeep(t) \/ MarkConfirmed(t)
       PROVE  UNCHANGED <<confirmed, main_chain, chain>>
  BY <1>9 DEF Submit, Validate, Reject, Scale, CheckSize, CreateCheckpoint, Insert, UpdateTips,
               UpdateGhostScores, CheckDeep, MarkConfirmed
<1>10. CASE \E t \in Tasks : SnapshotChain(t)
  BY <1>3, <1>10 DEF SnapshotChain, SeqRange
<1>11. CASE \E t \in Tasks : UpdateMainChain(t)
  BY <1>5, <1>7, <1>11 DEF SeqRange
<1>12. CASE \E t \in Tasks : UpdateConfirmed(t)
  BY <1>6, <1>7, <1>12 DEF SeqRange
<1>13. CASE \E t \in Tasks : SelectVictims(t) \/ CheckpointFails(t) \/ RemoveVictims(t)
  BY <1>2, <1>4, <1>8, <1>13 DEF SeqRange
<1> QED
  BY <1>2, <1>9, <1>10, <1>11, <1>12, <1>13 DEF Next, AddBlock, vars

\* What a step may do to the calls under way before their insertion.
Undisturbed ==
  /\ UNCHANGED calls
  /\ \A u \in Tasks : pc'[u] \in BeforeInsert => pc[u] \in BeforeInsert /\ block'[u] = block[u]

LEMMA Undisturbing ==
  ASSUME Types, [Next]_vars
  PROVE  Undisturbed \/ \E t \in Tasks : Submit(t)
<1> USE DEF Types, TypeOK, Undisturbed, BeforeInsert, Goto, Return, locals
<1>1. ASSUME NEW t \in Tasks, Validate(t) \/ Scale(t) \/ CheckSize(t) PROVE Undisturbed
  BY <1>1 DEF Validate, Scale, CheckSize
<1>2. ASSUME NEW t \in Tasks, SnapshotChain(t) \/ SelectVictims(t) \/ CreateCheckpoint(t)
      PROVE  Undisturbed
  BY <1>2 DEF SnapshotChain, SelectVictims, CreateCheckpoint
<1>3. ASSUME NEW t \in Tasks, Reject(t) \/ CheckpointFails(t) \/ CheckDeep(t) \/ MarkConfirmed(t)
      PROVE  Undisturbed
  BY <1>3 DEF Reject, CheckpointFails, CheckDeep, MarkConfirmed
<1>4. ASSUME NEW t \in Tasks, RemoveVictims(t) \/ Insert(t) \/ UpdateTips(t)
      PROVE  Undisturbed
  BY <1>4 DEF RemoveVictims, Insert, UpdateTips
<1>5. ASSUME NEW t \in Tasks,
             UpdateGhostScores(t) \/ UpdateMainChain(t) \/ UpdateConfirmed(t)
      PROVE  Undisturbed
  BY <1>5 DEF UpdateGhostScores, UpdateMainChain, UpdateConfirmed
<1>6. CASE UNCHANGED vars
  BY <1>6 DEF vars
<1> QED BY <1>1, <1>2, <1>3, <1>4, <1>5, <1>6 DEF Next, AddBlock

LEMMA IdsStep ==
  ASSUME ReusableIds = {}, Types, Types', LedgerInv, [Next]_vars
  PROVE  IdsFresh'
<1> USE DEF LedgerInv, IdsFresh
<1>1. \A id \in KnownIds : id \in Nat
  BY DEF KnownIds, Recorded, Covered, Entry, Types, TypeOK, Blocks, BlockIds
<1>2. ASSUME NEW t \in Tasks, Submit(t) PROVE IdsFresh'
  <2>1. /\ calls' = calls + 1 /\ calls \in Nat
        /\ pc[t] = "idle" /\ pc' = [pc EXCEPT ![t] = "validate"]
        /\ UNCHANGED <<dag, checkpoints>>
    BY <1>2 DEF Submit, Goto, shared, Types, TypeOK
  <2>2. block'[t].id = calls + 1 /\ \A u \in Tasks \ {t} : block'[u] = block[u]
    BY <1>2 DEF Submit, Types, TypeOK
  <2>3. KnownIds' = KnownIds
    BY <2>1, SameRecord DEF Keeps, KnownIds
  <2>4. \A u \in Tasks \ {t} : pc'[u] \in BeforeInsert =>
          block[u].id \in Nat /\ block[u].id <= calls
    BY SMTT(30), <2>1 DEF Types, TypeOK, BeforeInsert, Blocks, BlockIds
  <2> QED BY SMTT(30), <1>1, <2>1, <2>2, <2>3, <2>4 DEF Types, TypeOK
<1>3. ASSUME Undisturbed, KnownIds' = KnownIds PROVE IdsFresh'
  BY <1>3 DEF Undisturbed
<1>4. ASSUME NEW t \in Tasks, Insert(t), Undisturbed, KnownIds' = KnownIds \cup {block[t].id}
      PROVE  IdsFresh'
  <2>1. pc[t] = "insert" /\ pc' = [pc EXCEPT ![t] = "tips"] /\ block' = block
    BY <1>4 DEF Insert, Goto, locals
  <2>2. pc'[t] \notin BeforeInsert /\ pc[t] \in BeforeInsert
    BY <2>1 DEF BeforeInsert, Types, TypeOK
  <2> QED BY <1>4, <2>1, <2>2 DEF Undisturbed
<1> QED BY <1>2, <1>3, <1>4, RecordStep, Undisturbing

LEMMA ParentsStep ==
  ASSUME Types, ParentsRecorded, KnownIds \subseteq KnownIds', [Next]_vars
  PROVE  ParentsRecorded'
<1> USE DEF ParentsRecorded
<1> SUFFICES ASSUME NEW u \in Tasks, pc'[u] \in BeforeInsert \ {"validate"}
             PROVE  block'[u].parents \subseteq KnownIds
  OBVIOUS
<1>2. ASSUME NEW t \in Tasks, Validate(t) PROVE block'[u].parents \subseteq KnownIds
  <2>1. UNCHANGED block /\ (u # t => pc'[u] = pc[u])
    BY <1>2 DEF Validate, locals, Goto, Types, TypeOK
  <2>2. block[t].parents \subseteq KnownIds
    BY <1>2, LiveKnown DEF Validate, Valid
  <2> QED BY <2>1, <2>2
<1>3. ASSUME NEW t \in Tasks, Submit(t) PROVE block'[u].parents \subseteq KnownIds
  BY <1>3 DEF Submit, Goto, Types, TypeOK
<1>4. ASSUME Undisturbed, pc[u] # "validate" PROVE block'[u].parents \subseteq KnownIds
  BY <1>4 DEF Undisturbed
<1>5. ASSUME NEW t \in Tasks, ~ Validate(t), AddBlock(t)
      PROVE  pc'[u] \in BeforeInsert \ {"validate"} => pc[u] # "validate"
  BY <1>5 DEF AddBlock, BeforeInsert, Types, TypeOK, Goto, Return, Reject, Scale, CheckSize,
              SnapshotChain, SelectVictims, CreateCheckpoint, CheckpointFails, RemoveVictims,
              Insert, UpdateTips, UpdateGhostScores, UpdateMainChain, UpdateConfirmed, CheckDeep,
              MarkConfirmed
<1>6. CASE UNCHANGED vars
  BY <1>6 DEF vars, locals
<1> QED BY <1>2, <1>3, <1>4, <1>5, <1>6, Undisturbing DEF Next

LEMMA VictimsStep ==
  ASSUME Types, LedgerInv, [Next]_vars
  PROVE  VictimsCovered'
<1> SUFFICES ASSUME NEW u \in Tasks, pc'[u] = "remove", NEW b \in VictimIds(u)', b \in DOMAIN dag'
             PROVE  Entry(b)' \in Covered'
  BY DEF VictimsCovered
<1>1. Covered \subseteq Covered' /\ EntriesKept
  BY RecordStep
<1>2. ASSUME pc[u] = "remove", UNCHANGED <<chain[u], victims[u]>> PROVE Entry(b)' \in Covered'
  <2>1. b \in VictimIds(u)
    BY <1>2 DEF VictimIds
  <2>2. b \in KnownIds
    BY <2>1 DEF VictimIds, LedgerInv, ChainsRecorded, SeqRange, Types, TypeOK
  <2>3. b \in DOMAIN dag
    BY <2>2, RecordStep
  <2> QED BY <1>1, <1>2, <2>1, <2>3 DEF EntriesKept, LedgerInv, VictimsCovered
<1>3. ASSUME NEW t \in Tasks, CreateCheckpoint(t) PROVE Entry(b)' \in Covered'
  <2>1. UNCHANGED <<dag, chain, victims>> /\ (u # t => pc'[u] = pc[u])
    BY <1>3 DEF CreateCheckpoint, Goto, locals, Types, TypeOK
  <2>2. CASE u # t
    BY <1>2, <2>1, <2>2
  <2>3. CASE u = t
    <3>1. b \in VictimIds(t) \cap DOMAIN dag
      BY <2>1, <2>3 DEF VictimIds
    <3>2. Entry(b) \in Covered'
      BY <1>3, <3>1, CheckpointKeeps
    <3> QED BY <1>1, <3>1, <3>2 DEF EntriesKept
  <2> QED BY <2>2, <2>3
<1>4. ASSUME NEW t \in Tasks, ~ CreateCheckpoint(t), Submit(t) \/ AddBlock(t)
      PROVE  pc[u] = "remove" /\ UNCHANGED <<chain[u], victims[u]>>
  BY <1>4 DEF AddBlock, Types, TypeOK, Goto, Return, ForgetPrune, locals, Submit, Validate, Reject,
              Scale, CheckSize, SnapshotChain, SelectVictims, CheckpointFails, RemoveVictims,
              Insert, UpdateTips, UpdateGhostScores, UpdateMainChain, UpdateConfirmed, CheckDeep,
              MarkConfirmed
<1>5. CASE UNCHANGED vars
  BY <1>2, <1>5 DEF vars, locals
<1> QED BY <1>2, <1>3, <1>4, <1>5 DEF Next

LEMMA LedgerInit == Init => LedgerInv
<1> SUFFICES ASSUME Init PROVE LedgerInv
  OBVIOUS
<1>1. Recorded = {} /\ KnownIds = {}
  BY DEF Init, KnownIds, Recorded, Covered
<1>2. ChainsRecorded
  BY <1>1 DEF Init, ChainsRecorded, SeqRange
<1>3. \A t \in Tasks : pc[t] = "idle"
  BY DEF Init
<1> QED BY <1>1, <1>2, <1>3 DEF LedgerInv, IdsFresh, ParentsRecorded, VictimsCovered, BeforeInsert

LEMMA LedgerStep ==
  ReusableIds = {} /\ Types /\ Types' /\ LedgerInv /\ [Next]_vars => LedgerInv'
<1> SUFFICES ASSUME ReusableIds = {}, Types, Types', LedgerInv, [Next]_vars PROVE LedgerInv'
  OBVIOUS
<1>1. KnownIds \subseteq KnownIds'
  BY RecordStep
<1> QED BY <1>1, ChainsStep, IdsStep, ParentsStep, VictimsStep DEF LedgerInv

\* With unique ids: chains name recorded blocks, ids under way are fresh, validated
\* parents stay recorded and victims are checkpointed before they are removed.
THEOREM LedgerInvariant == ReusableIds = {} => (Spec => []LedgerInv)
<1> SUFFICES ASSUME ReusableIds = {} PROVE Spec => []LedgerInv
  OBVIOUS
<1>1. Types /\ Types' /\ LedgerInv /\ [Next]_vars => LedgerInv'
  BY LedgerStep
<1> QED BY <1>1, LedgerInit, TypeInit, TypeStep, PTL DEF Spec

\* With unique ids the concurrent DAG with its pruning implements the append-only
\* ledger: nothing recorded is lost or changed and parents come first.
THEOREM ImplementsLedger == ReusableIds = {} => (Spec => LedgerSpec)
<1> SUFFICES ASSUME ReusableIds = {} PROVE Spec => LedgerSpec
  OBVIOUS
<1>1. Init => L!Init
  BY DEF Init, L!Init, Recorded, Covered
<1>2. Types /\ LedgerInv /\ [Next]_vars => [L!Next]_Recorded
  <2> SUFFICES ASSUME Types, LedgerInv, [Next]_vars, Recorded' # Recorded PROVE L!Next
    OBVIOUS
  <2>1. PICK t \in Tasks : /\ Insert(t) /\ Recorded' = Recorded \cup {block[t]}
                           /\ block[t] \in Blocks /\ block[t].id \notin KnownIds
    BY RecordStep
  <2>2. block[t].parents \subseteq KnownIds
    BY <2>1 DEF Insert, LedgerInv, ParentsRecorded, BeforeInsert
  <2>3. L!Append(block[t]) /\ block[t] \in L!Entries
    BY <2>1, <2>2 DEF L!Append, L!Entries, L!IdsOf, KnownIds, Blocks
  <2> QED BY <2>3 DEF L!Next
<1>3. Types /\ Types' /\ LedgerInv /\ [Next]_vars => LedgerInv'
  BY LedgerStep
<1> QED
  BY <1>1, <1>2, <1>3, LedgerInit, TypeInit, TypeStep, PTL DEF Spec, LedgerSpec, L!Spec

-----------------------------------------------------------------------------------
(***********************************************************************************)
(* What reused ids leave alone.  A block submitted again replaces the operations of *)
(* the one before, so the record is no ledger any more; but its shape is one: whoever *)
(* reuses an id names no parents, before and after.                                *)
(***********************************************************************************)
Node(e) == [id |-> e.id, parents |-> e.parents, ops |-> <<>>]

Shape == {Node(e) : e \in Recorded}

ReusedAreRoots ==
  /\ \A e \in Recorded : e.id \in ReusableIds => e.parents = {}
  /\ \A t \in Tasks : block[t].id \in ReusableIds => block[t].parents = {}

IdsKnown ==
  /\ \A id \in KnownIds : id <= calls
  /\ \A t \in Tasks : pc[t] \in BeforeInsert =>
       /\ block[t].id <= calls
       /\ \/ block[t].id \in ReusableIds
          \/ /\ block[t].id \notin KnownIds
             /\ \A u \in Tasks : pc[u] \in BeforeInsert /\ block[u].id = block[t].id => u = t

\* A victim is in a checkpoint under its id, with the parents it still has in the DAG.
VictimsLinked ==
  \A t \in Tasks : pc[t] = "remove" =>
    \A b \in VictimIds(t) :
      \E e \in Covered : e.id = b /\ (b \in DOMAIN dag => e.parents = dag[b].parents)

ShapeInv == ChainsRecorded /\ ParentsRecorded /\ ReusedAreRoots /\ IdsKnown /\ VictimsLinked

Shapely ==
  /\ KnownIds = {g.id : g \in Shape}
  /\ UNION {e.parents : e \in Recorded} = UNION {g.parents : g \in Shape}
  /\ \A e \in Recorded : \E g \in Shape : g.id = e.id /\ g.parents = e.parents
  /\ \A g \in Shape : \E e \in Recorded : e.id = g.id /\ e.parents = g.parents

\* Ids and parents are those of the record.
LEMMA ShapeFacts == Shapely
<1>1. \A e : Node(e).id = e.id /\ Node(e).parents = e.parents
  BY DEF Node
<1>2. /\ \A e \in Recorded : Node(e) \in Shape
      /\ \A g \in Shape : \E e \in Recorded : g = Node(e)
  BY DEF Shape
<1> QED BY <1>1, <1>2 DEF KnownIds, Shapely

LEMMA ShapeFactsNext == Shapely'
BY ShapeFacts, PTL

\* Only an insertion adds to the shape, and it adds the node of the block.
LEMMA ShapeInsert ==
  ASSUME Types, ShapeInv, NEW t \in Tasks, Insert(t)
  PROVE  /\ Shape' = Shape \cup {Node(block[t])} /\ Covered' = Covered
         /\ DOMAIN dag' = DOMAIN dag \cup {block[t].id}
         /\ \A b \in DOMAIN dag : dag'[b].parents = dag[b].parents
         /\ dag'[block[t].id].parents = block[t].parents
<1>0. PICK id : id = block[t].id
  OBVIOUS
<1> DEFINE Live == {Node(Entry(b)) : b \in DOMAIN dag}
           Old == {Node(e) : e \in Covered}
<1>1. /\ DOMAIN dag' = DOMAIN dag \cup {id} /\ UNCHANGED <<checkpoints, block>>
      /\ \A b \in DOMAIN dag \ {id} : dag'[b] = dag[b]
      /\ dag'[id] = [parents |-> block[t].parents, ops |-> block[t].ops, state |-> "Processing"]
  BY <1>0 DEF Insert, shared, locals
<1>2. id \in DOMAIN dag => block[t].parents = {} /\ dag[id].parents = {}
  <2>1. pc[t] \in BeforeInsert
    BY DEF Insert, BeforeInsert
  <2>2. id \in DOMAIN dag => id \in ReusableIds
    BY <1>0, <2>1, LiveKnown DEF ShapeInv, IdsKnown
  <2>3. id \in DOMAIN dag => Entry(id) \in Recorded /\ Entry(id).id = id /\ Entry(id).parents = dag[id].parents
    BY LiveKnown DEF Entry
  <2> QED BY <1>0, <2>2, <2>3 DEF ShapeInv, ReusedAreRoots
<1>3. ASSUME NEW b \in DOMAIN dag PROVE dag'[b].parents = dag[b].parents
  <2>1. CASE b = id
    <3>1. dag'[id].parents = block[t].parents
      BY <1>1
    <3> QED BY <1>2, <2>1, <3>1
  <2>2. CASE b # id
    BY <1>1, <2>2
  <2> QED BY <2>1, <2>2
<1>4. /\ Live = {[id |-> b, parents |-> dag[b].parents, ops |-> <<>>] : b \in DOMAIN dag}
      /\ Live' = {[id |-> b, parents |-> dag'[b].parents, ops |-> <<>>] : b \in DOMAIN dag'}
  BY DEF Node, Entry
<1>5. /\ Node(block[t]) = [id |-> id, parents |-> block[t].parents, ops |-> <<>>]
      /\ dag'[id].parents = block[t].parents
  BY <1>0, <1>1 DEF Node
<1>6. Covered' = Covered
  BY <1>1 DEF Covered
<1>7. Shape = Live \cup Old /\ Shape' = Live' \cup Old'
  BY DEF Shape, Recorded
<1>8. Old' = Old
  BY <1>6 DEF Node
<1>9. Live' = Live \cup {Node(block[t])}
  <2> HIDE DEF Live
  <2> QED BY <1>1, <1>3, <1>4, <1>5
<1> HIDE DEF Live, Old
<1> QED BY <1>0, <1>1, <1>3, <1>5, <1>6, <1>7, <1>8, <1>9

LEMMA ShapeRemoval ==
  ASSUME Types, ShapeInv, NEW t \in Tasks, RemoveVictims(t)
  PROVE  /\ Shape' = Shape /\ Covered' = Covered /\ DOMAIN dag' \subseteq DOMAIN dag
         /\ \A b \in DOMAIN dag' : dag'[b] = dag[b]
<1> DEFINE Old == {Node(e) : e \in Covered}
<1>1. /\ DOMAIN dag' = DOMAIN dag \ VictimIds(t) /\ UNCHANGED checkpoints
      /\ \A b \in DOMAIN dag' : dag'[b] = dag[b]
  BY DEF RemoveVictims, shared
<1>2. Covered' = Covered
  BY <1>1 DEF Covered
<1>3. \A b \in DOMAIN dag' : Node(Entry(b))' = Node(Entry(b))
  BY <1>1 DEF Node, Entry
<1>4. ASSUME NEW b \in DOMAIN dag \ DOMAIN dag' PROVE Node(Entry(b)) \in Old
  <2>1. b \in VictimIds(t) /\ pc[t] = "remove"
    BY <1>1 DEF RemoveVictims
  <2>2. PICK e \in Covered : e.id = b /\ e.parents = dag[b].parents
    BY <2>1 DEF ShapeInv, VictimsLinked
  <2>3. Node(e) = Node(Entry(b))
    BY <2>2 DEF Node, Entry
  <2> QED BY <2>3
<1>5. Shape = {Node(Entry(b)) : b \in DOMAIN dag} \cup Old
  BY DEF Shape, Recorded
<1>6. Shape' = {Node(Entry(b)) : b \in DOMAIN dag}' \cup Old
  BY <1>2 DEF Shape, Recorded, Node
<1>7. {Node(Entry(b)) : b \in DOMAIN dag}' = {Node(Entry(b)) : b \in DOMAIN dag'}
  BY <1>3
<1> HIDE DEF Old
<1> QED BY <1>1, <1>2, <1>4, <1>5, <1>6, <1>7

\* Every step keeps the shape or is an Insert.
LEMMA ShapeStep ==
  ASSUME Types, ShapeInv, [Next]_vars
  PROVE  /\ Covered \subseteq Covered'
         /\ \A b \in DOMAIN dag \cap DOMAIN dag' : dag'[b].parents = dag[b].parents
         /\ \/ /\ ~ \E t \in Tasks : Insert(t)
               /\ Shape' = Shape /\ DOMAIN dag' \subseteq DOMAIN dag
            \/ \E t \in Tasks : /\ Insert(t) /\ Shape' = Shape \cup {Node(block[t])}
                                /\ DOMAIN dag' = DOMAIN dag \cup {block[t].id}
                                /\ dag'[block[t].id].parents = block[t].parents
<1>1. Recorded' = Recorded => Shape' = Shape
  BY DEF Shape, Node
<1>2. EntriesKept => \A b \in DOMAIN dag \cap DOMAIN dag' : dag'[b].parents = dag[b].parents
  <2>1. \A b : Entry(b).parents = dag[b].parents /\ Entry(b)'.parents = dag'[b].parents
    BY DEF Entry
  <2> QED BY <2>1 DEF EntriesKept
<1>3. CASE \E t \in Tasks : Insert(t)
  BY <1>3, ShapeInsert
<1>4. CASE ~ \E t \in Tasks : Insert(t)
  <2>1. CASE UNCHANGED <<dag, checkpoints>>
    BY <1>1, <1>2, <1>4, <2>1, SameRecord DEF Keeps
  <2>2. CASE \E t \in Tasks : CreateCheckpoint(t)
    BY <1>1, <1>2, <1>4, <2>2, CheckpointKeeps DEF Keeps, CreateCheckpoint
  <2>3. CASE \E t \in Tasks : RemoveVictims(t)
    BY <1>4, <2>3, ShapeRemoval
  <2>4. CASE \E t \in Tasks : MarkConfirmed(t)
    BY <1>1, <1>2, <1>4, <2>4, MarkKeeps DEF Keeps
  <2> QED
    BY <1>4, <2>1, <2>2, <2>3, <2>4
       DEF Next, AddBlock, vars, shared, Submit, Validate, Reject, Scale, CheckSize, SnapshotChain,
           SelectVictims, CheckpointFails, UpdateTips, UpdateGhostScores, UpdateMainChain,
           UpdateConfirmed, CheckDeep
<1> QED BY <1>3, <1>4

\* The block a task has after a step is one it had, none, or one it just submitted.
LEMMA BlocksStep ==
  ASSUME Types, [Next]_vars, NEW u \in Tasks
  PROVE  \/ block'[u] = block[u] \/ block'[u] = NoBlock
         \/ Submit(u) /\ \E id \in {calls + 1} \cup (ReusableIds \cap 1..calls),
                            parents \in SUBSET (1..calls), ops \in Payloads :
                           /\ id \in ReusableIds => parents = {}
                           /\ block'[u] = [id |-> id, parents |-> parents, ops |-> ops]
<1>1. ASSUME NEW t \in Tasks, Submit(t), t # u PROVE block'[u] = block[u]
  BY <1>1 DEF Submit, Types, TypeOK
<1>2. ASSUME Submit(u)
      PROVE  \E id \in {calls + 1} \cup (ReusableIds \cap 1..calls),
                parents \in SUBSET (1..calls), ops \in Payloads :
               /\ id \in ReusableIds => parents = {}
               /\ block'[u] = [id |-> id, parents |-> parents, ops |-> ops]
  <2>1. \A new : block' = [block EXCEPT ![u] = new] => block'[u] = new
    BY DEF Types, TypeOK
  <2> QED BY <1>2, <2>1 DEF Submit
<1>3. ASSUME NEW t \in Tasks, AddBlock(t) PROVE block'[u] = block[u] \/ block'[u] = NoBlock
  <2>1. Return(t) => block'[u] = block[u] \/ block'[u] = NoBlock
    BY DEF Return, Types, TypeOK
  <2>2. Return(t) \/ UNCHANGED block
    BY <1>3, Zenon
       DEF AddBlock, locals, Validate, Reject, Scale, CheckSize, SnapshotChain, SelectVictims,
           CreateCheckpoint, CheckpointFails, RemoveVictims, Insert, UpdateTips,
           UpdateGhostScores, UpdateMainChain, UpdateConfirmed, CheckDeep, MarkConfirmed
  <2> QED BY <2>1, <2>2
<1>4. UNCHANGED vars => block' = block
  BY DEF vars, locals
<1> QED BY <1>1, <1>2, <1>3, <1>4 DEF Next

LEMMA ReusedStep ==
  ASSUME Types, ShapeInv, [Next]_vars
  PROVE  ReusedAreRoots'
<1>1. ASSUME NEW u \in Tasks, block'[u].id \in ReusableIds PROVE block'[u].parents = {}
  <2>1. CASE block'[u] = block[u]
    BY <1>1, <2>1 DEF ShapeInv, ReusedAreRoots
  <2>2. CASE block'[u] = NoBlock
    BY <2>2 DEF NoBlock
  <2>3. ASSUME NEW id, NEW parents, NEW ops, id \in ReusableIds => parents = {},
               block'[u] = [id |-> id, parents |-> parents, ops |-> ops]
        PROVE  block'[u].parents = {}
    BY <1>1, <2>3
  <2> QED BY <2>1, <2>2, <2>3, BlocksStep
<1>2. ASSUME NEW e \in Recorded', e.id \in ReusableIds PROVE e.parents = {}
  <2>1. PICK g \in Shape' : g.id = e.id /\ g.parents = e.parents
    <3>1. Node(e) \in Shape' /\ Node(e).id = e.id /\ Node(e).parents = e.parents
      BY DEF Shape, Node
    <3> QED BY <3>1
  <2>2. CASE g \in Shape
    BY <1>2, <2>1, <2>2, ShapeFacts DEF Shapely, ShapeInv, ReusedAreRoots
  <2>3. CASE \E t \in Tasks : g = Node(block[t])
    BY <1>2, <2>1, <2>3 DEF Node, ShapeInv, ReusedAreRoots
  <2> QED BY <2>1, <2>2, <2>3, ShapeStep
<1> QED BY <1>1, <1>2 DEF ReusedAreRoots

LEMMA KnownGrow ==
  ASSUME Types, ShapeInv, [Next]_vars
  PROVE  /\ KnownIds \subseteq KnownIds'
         /\ \/ ~ (\E t \in Tasks : Insert(t)) /\ KnownIds' = KnownIds
            \/ \E t \in Tasks : Insert(t) /\ KnownIds' = KnownIds \cup {block[t].id}
<1>1. KnownIds = {g.id : g \in Shape} /\ KnownIds' = {g.id : g \in Shape'}
  BY ShapeFacts, ShapeFactsNext DEF Shapely
<1>2. \A t : Node(block[t]).id = block[t].id
  BY DEF Node
<1>3. CASE ~ (\E t \in Tasks : Insert(t)) /\ Shape' = Shape
  BY <1>1, <1>3
<1>4. ASSUME NEW t \in Tasks, Insert(t), Shape' = Shape \cup {Node(block[t])}
      PROVE  KnownIds' = KnownIds \cup {block[t].id}
  BY <1>1, <1>2, <1>4
<1> QED BY <1>3, <1>4, ShapeStep

LEMMA IdsKnownStep ==
  ASSUME Types, Types', ShapeInv, [Next]_vars
  PROVE  IdsKnown'
<1> USE DEF ShapeInv, IdsKnown
<1>1. \A id \in KnownIds : id \in Nat
  BY DEF KnownIds, Recorded, Covered, Entry, Types, TypeOK, Blocks, BlockIds
<1>2. ASSUME NEW t \in Tasks, Submit(t) PROVE IdsKnown'
  <2>1. /\ calls' = calls + 1 /\ calls \in Nat
        /\ pc[t] = "idle" /\ pc' = [pc EXCEPT ![t] = "validate"]
        /\ UNCHANGED <<dag, checkpoints>>
    BY <1>2 DEF Submit, Goto, shared, Types, TypeOK
  <2>2. \/ block'[t].id = calls + 1
        \/ block'[t].id \in ReusableIds /\ block'[t].id <= calls
    BY <1>2 DEF Submit, Types, TypeOK
  <2>3. \A u \in Tasks \ {t} : block'[u] = block[u]
    BY <1>2 DEF Submit, Types, TypeOK
  <2>4. KnownIds' = KnownIds
    BY <2>1, SameRecord DEF Keeps, KnownIds
  <2>5. \A u \in Tasks \ {t} : pc'[u] = pc[u] /\ (pc[u] \in BeforeInsert =>
          block[u].id \in Nat /\ block[u].id <= calls)
    <3>1. \A u \in Tasks \ {t} : pc'[u] = pc[u]
      BY <2>1 DEF Types, TypeOK
    <3>2. \A u \in Tasks : pc[u] \in BeforeInsert => block[u].id \in Nat
      BY DEF Types, TypeOK, BeforeInsert, Blocks, BlockIds
    <3> QED BY <3>1, <3>2
  <2>6. block'[t].id \in Nat /\ block'[t].id <= calls'
    <3>1. pc'[t] # "idle"
      BY <2>1 DEF Types, TypeOK
    <3>2. block'[t].id \in Nat
      BY <3>1 DEF Types, TypeOK, Blocks, BlockIds
    <3> QED BY <2>1, <2>2, <3>2
  <2>7. \A id \in KnownIds' : id <= calls'
    BY <1>1, <2>1, <2>4
  <2>8. ASSUME NEW v \in Tasks, pc'[v] \in BeforeInsert, block'[v].id \notin ReusableIds
        PROVE  /\ block'[v].id \notin KnownIds'
               /\ \A u \in Tasks : pc'[u] \in BeforeInsert /\ block'[u].id = block'[v].id => u = v
    <3>1. CASE v = t
      <4>1. block'[t].id = calls + 1
        BY <2>2, <2>8, <3>1
      <4>2. \A u \in Tasks \ {t} : pc'[u] \in BeforeInsert => block'[u].id # calls + 1
        BY <2>1, <2>3, <2>5
      <4> QED BY <1>1, <2>1, <2>4, <3>1, <4>1, <4>2
    <3>2. CASE v # t
      <4>1. pc[v] \in BeforeInsert /\ block'[v] = block[v] /\ block[v].id <= calls /\ block[v].id \in Nat
        BY <2>3, <2>5, <2>8, <3>2
      <4>2. block[v].id # block'[t].id
        BY <2>1, <2>2, <2>8, <4>1
      <4> QED BY <2>3, <2>4, <2>5, <2>8, <4>1, <4>2
    <3> QED BY <3>1, <3>2
  <2>9. \A v \in Tasks : pc'[v] \in BeforeInsert => block'[v].id <= calls'
    <3>1. \A v \in Tasks \ {t} : pc'[v] \in BeforeInsert => block'[v].id <= calls'
      BY <2>1, <2>3, <2>5
    <3> QED BY <2>6, <3>1
  <2> QED BY <2>7, <2>8, <2>9
<1>3. ASSUME Undisturbed, KnownIds' = KnownIds PROVE IdsKnown'
  BY <1>3 DEF Undisturbed
<1>4. ASSUME NEW t \in Tasks, Insert(t), Undisturbed, KnownIds' = KnownIds \cup {block[t].id}
      PROVE  IdsKnown'
  <2>1. pc[t] = "insert" /\ pc' = [pc EXCEPT ![t] = "tips"] /\ block' = block
    BY <1>4 DEF Insert, Goto, locals
  <2>2. pc'[t] \notin BeforeInsert /\ pc[t] \in BeforeInsert
    BY <2>1 DEF BeforeInsert, Types, TypeOK
  <2> QED BY <1>4, <2>1, <2>2 DEF Undisturbed
<1> QED BY <1>2, <1>3, <1>4, KnownGrow, Undisturbing

LEMMA VictimsLinkedStep ==
  ASSUME Types, ShapeInv, [Next]_vars
  PROVE  VictimsLinked'
<1> SUFFICES ASSUME NEW u \in Tasks, pc'[u] = "remove", NEW b \in VictimIds(u)'
             PROVE  \E e \in Covered' : e.id = b /\ (b \in DOMAIN dag' => e.parents = dag'[b].parents)
  BY DEF VictimsLinked
<1>1. /\ Covered \subseteq Covered'
      /\ \A x \in DOMAIN dag \cap DOMAIN dag' : dag'[x].parents = dag[x].parents
  BY ShapeStep
<1>2. ASSUME pc[u] = "remove", UNCHANGED <<chain[u], victims[u]>>
      PROVE  \E e \in Covered' : e.id = b /\ (b \in DOMAIN dag' => e.parents = dag'[b].parents)
  <2>1. b \in VictimIds(u)
    BY <1>2 DEF VictimIds
  <2>2. PICK e \in Covered : e.id = b /\ (b \in DOMAIN dag => e.parents = dag[b].parents)
    BY <1>2, <2>1 DEF ShapeInv, VictimsLinked
  <2>3. ASSUME b \in DOMAIN dag', b \notin DOMAIN dag PROVE e.parents = dag'[b].parents
    <3>1. PICK t \in Tasks : Insert(t) /\ b = block[t].id /\ dag'[b].parents = block[t].parents
      BY <2>3, ShapeStep
    <3>2. e \in Recorded /\ b \in KnownIds
      BY <2>2 DEF Recorded, KnownIds
    <3>3. b \in ReusableIds
      BY <3>1, <3>2 DEF Insert, BeforeInsert, ShapeInv, IdsKnown
    <3> QED BY <2>2, <3>1, <3>2, <3>3 DEF ShapeInv, ReusedAreRoots
  <2> QED BY <1>1, <2>2, <2>3
<1>3. ASSUME NEW t \in Tasks, CreateCheckpoint(t)
      PROVE  \E e \in Covered' : e.id = b /\ (b \in DOMAIN dag' => e.parents = dag'[b].parents)
  <2>1. UNCHANGED <<dag, chain, victims>> /\ (u # t => pc'[u] = pc[u])
    BY <1>3 DEF CreateCheckpoint, Goto, locals, Types, TypeOK
  <2>2. CASE u # t
    BY <1>2, <2>1, <2>2
  <2>3. CASE u = t
    <3>1. b \in VictimIds(t)
      BY <2>1, <2>3 DEF VictimIds
    <3>2. CASE b \in DOMAIN dag
      <4>1. Entry(b) \in Covered'
        BY <1>3, <3>1, <3>2, CheckpointKeeps
      <4>2. Entry(b).id = b /\ Entry(b).parents = dag[b].parents
        BY DEF Entry
      <4> QED BY <2>1, <4>1, <4>2
    <3>3. CASE b \notin DOMAIN dag
      <4>1. b \in KnownIds
        BY <3>1 DEF VictimIds, ShapeInv, ChainsRecorded, SeqRange, Types, TypeOK
      <4>2. PICK e \in Recorded : e.id = b
        BY <4>1 DEF KnownIds
      <4>3. e \in Covered
        BY <3>3, <4>2 DEF Recorded, Entry
      <4> QED BY <1>1, <2>1, <3>3, <4>2, <4>3
    <3> QED BY <3>2, <3>3
  <2> QED BY <2>2, <2>3
<1>4. ASSUME NEW t \in Tasks, ~ CreateCheckpoint(t), Submit(t) \/ AddBlock(t)
      PROVE  pc[u] = "remove" /\ UNCHANGED <<chain[u], victims[u]>>
  BY <1>4 DEF AddBlock, Types, TypeOK, Goto, Return, ForgetPrune, locals, Submit, Validate, Reject,
              Scale, CheckSize, SnapshotChain, SelectVictims, CheckpointFails, RemoveVictims,
              Insert, UpdateTips, UpdateGhostScores, UpdateMainChain, UpdateConfirmed, CheckDeep,
              MarkConfirmed
<1>5. CASE UNCHANGED vars
  BY <1>2, <1>5 DEF vars, locals
<1> QED BY <1>2, <1>3, <1>4, <1>5 DEF Next

LEMMA ShapeInit == Init => ShapeInv
<1> SUFFICES ASSUME Init PROVE ShapeInv
  OBVIOUS
<1>1. Recorded = {} /\ KnownIds = {}
  BY DEF Init, KnownIds, Recorded, Covered
<1>2. ChainsRecorded
  BY <1>1 DEF Init, ChainsRecorded, SeqRange
<1>3. \A t \in Tasks : pc[t] = "idle" /\ block[t] = NoBlock
  BY DEF Init
<1> QED BY <1>1, <1>2, <1>3
  DEF ShapeInv, ReusedAreRoots, IdsKnown, ParentsRecorded, VictimsLinked, BeforeInsert, NoBlock

LEMMA ShapeNext == Types /\ Types' /\ ShapeInv /\ [Next]_vars => ShapeInv'
<1> SUFFICES ASSUME Types, Types', ShapeInv, [Next]_vars PROVE ShapeInv'
  OBVIOUS
<1>1. ChainsRecorded' /\ ParentsRecorded'
  BY ChainsStep, ParentsStep, KnownGrow DEF ShapeInv
<1> QED BY <1>1, ReusedStep, IdsKnownStep, VictimsLinkedStep DEF ShapeInv

\* Whatever ids are submitted again, the shape of the record is an append-only ledger:
\* no node and no edge is lost or changed, and parents come first.
ShapeLedger == INSTANCE Ledger WITH Ids <- BlockIds, Payloads <- {<<>>}, ledger <- Shape

THEOREM ShapeImplementsLedger == Spec => ShapeLedger!Spec
<1>1. Init => ShapeLedger!Init
  BY DEF Init, ShapeLedger!Init, Shape, Recorded, Covered
<1>2. Types /\ ShapeInv /\ [Next]_vars => [ShapeLedger!Next]_Shape
  <2> SUFFICES ASSUME Types, ShapeInv, [Next]_vars, Shape' # Shape PROVE ShapeLedger!Next
    OBVIOUS
  <2>1. PICK t \in Tasks : Insert(t) /\ Shape' = Shape \cup {Node(block[t])}
    BY ShapeStep
  <2>2. block[t] \in Blocks /\ pc[t] = "insert"
    BY <2>1 DEF Insert, Types, TypeOK
  <2>3. block[t].parents \subseteq KnownIds
    BY <2>2 DEF ShapeInv, ParentsRecorded, BeforeInsert
  <2>4. block[t].id \notin KnownIds
    <3> SUFFICES ASSUME block[t].id \in KnownIds PROVE FALSE
      OBVIOUS
    <3>1. PICK e \in Recorded : e.id = block[t].id
      BY DEF KnownIds
    <3>2. block[t].id \in ReusableIds
      BY <2>2 DEF ShapeInv, IdsKnown, BeforeInsert
    <3>3. e.parents = {} /\ block[t].parents = {}
      BY <3>1, <3>2 DEF ShapeInv, ReusedAreRoots
    <3>4. Node(e) = Node(block[t]) /\ Node(e) \in Shape
      BY <3>1, <3>3 DEF Node, Shape
    <3> QED BY <2>1, <3>4
  <2>5. /\ Node(block[t]) \in ShapeLedger!Entries
        /\ Node(block[t]).id = block[t].id /\ Node(block[t]).parents = block[t].parents
    BY <2>2 DEF Node, Blocks, ShapeLedger!Entries
  <2>6. ShapeLedger!IdsOf(Shape) = KnownIds
    BY ShapeFacts DEF Shapely, ShapeLedger!IdsOf
  <2>7. ShapeLedger!Append(Node(block[t]))
    BY <2>1, <2>3, <2>4, <2>5, <2>6 DEF ShapeLedger!Append
  <2> QED BY <2>5, <2>7 DEF ShapeLedger!Next
<1> QED BY <1>1, <1>2, ShapeInit, ShapeNext, TypeInit, TypeStep, PTL DEF Spec, ShapeLedger!Spec

-----------------------------------------------------------------------------------
\* What the tips of a single caller become once it has updated them.
Pending(t) == IF pc[t] = "tips" THEN (tips \ block[t].parents) \cup {block[t].id} ELSE tips

NamedAsParents == UNION {e.parents : e \in Recorded}

TipsInv ==
  /\ NamedAsParents \subseteq KnownIds
  /\ \A t \in Tasks : Leaves \subseteq Pending(t) /\ Pending(t) \ Leaves \subseteq ReusableIds

LEMMA TipsStep ==
  ASSUME NEW t, Tasks = {t}, Types, Types', ShapeInv, TipsInv, [Next]_vars
  PROVE  TipsInv'
<1>1. Leaves = KnownIds \ NamedAsParents /\ Leaves' = KnownIds' \ NamedAsParents'
  BY DEF Leaves, NamedAsParents
<1>2. /\ NamedAsParents = UNION {g.parents : g \in Shape} /\ KnownIds = {g.id : g \in Shape}
      /\ NamedAsParents' = UNION {g.parents : g \in Shape'} /\ KnownIds' = {g.id : g \in Shape'}
  BY ShapeFacts, ShapeFactsNext DEF NamedAsParents, Shapely
<1>3. ASSUME Insert(t), Shape' = Shape \cup {Node(block[t])} PROVE TipsInv'
  <2>1. pc[t] = "insert" /\ pc'[t] = "tips" /\ block' = block /\ tips' = tips
    BY <1>3 DEF Insert, Goto, locals, shared, Types, TypeOK
  <2>2. Node(block[t]).id = block[t].id /\ Node(block[t]).parents = block[t].parents
    BY DEF Node
  <2>3. KnownIds' = KnownIds \cup {block[t].id} /\ NamedAsParents' = NamedAsParents \cup block[t].parents
    BY <1>2, <1>3, <2>2
  <2>4. block[t].parents \subseteq KnownIds /\ (block[t].id \in KnownIds => block[t].id \in ReusableIds)
    BY <2>1 DEF ShapeInv, ParentsRecorded, IdsKnown, BeforeInsert
  <2>5. Leaves \subseteq tips /\ tips \ Leaves \subseteq ReusableIds
    BY <2>1 DEF TipsInv, Pending
  <2>6. Pending(t)' = (tips \ block[t].parents) \cup {block[t].id}
    BY <2>1 DEF Pending
  <2>7. Leaves' \subseteq Pending(t)' /\ Pending(t)' \ Leaves' \subseteq ReusableIds
    BY <1>1, <2>3, <2>4, <2>5, <2>6 DEF TipsInv
  <2> QED BY <2>3, <2>4, <2>7 DEF TipsInv
<1>4. ASSUME Shape' = Shape, Pending(t)' = Pending(t) PROVE TipsInv'
  BY <1>1, <1>2, <1>4 DEF TipsInv
<1>5. CreateCheckpoint(t) => pc[t] = "checkpoint" /\ Goto(t, "remove") /\ UNCHANGED <<tips, block>>
  BY Zenon DEF CreateCheckpoint, locals
<1>6. ASSUME ~ \E u \in Tasks : Insert(u) PROVE Pending(t)' = Pending(t)
  <2> USE DEF Types, TypeOK, Goto, Return, Pending, locals, shared
  <2>1. CASE Submit(t)
    BY <2>1 DEF Submit
  <2>2. CASE Validate(t) \/ Reject(t) \/ Scale(t) \/ CheckSize(t) \/ SnapshotChain(t) \/ SelectVictims(t)
    BY <2>2 DEF Validate, Reject, Scale, CheckSize, SnapshotChain, SelectVictims
  <2>3. CASE CreateCheckpoint(t) \/ CheckpointFails(t) \/ RemoveVictims(t)
    <3>1. CASE CreateCheckpoint(t)
      BY <1>5, <3>1
    <3>2. CASE CheckpointFails(t) \/ RemoveVictims(t)
      BY <3>2 DEF CheckpointFails, RemoveVictims
    <3> QED BY <2>3, <3>1, <3>2
  <2>4. CASE UpdateTips(t)
    BY <2>4 DEF UpdateTips
  <2>5. CASE UpdateGhostScores(t) \/ UpdateMainChain(t) \/ UpdateConfirmed(t) \/ CheckDeep(t) \/ MarkConfirmed(t)
    BY <2>5 DEF UpdateGhostScores, UpdateMainChain, UpdateConfirmed, CheckDeep, MarkConfirmed
  <2>6. CASE UNCHANGED vars
    BY <2>6 DEF vars
  <2> QED BY <1>6, <2>1, <2>2, <2>3, <2>4, <2>5, <2>6 DEF Next, AddBlock
<1> QED BY <1>3, <1>4, <1>6, ShapeStep

\* A single caller finds the tips exact whenever it asks: the recorded blocks that no
\* recorded block names as a parent, across prunes and refused blocks; only a block
\* submitted again under its id can be a tip besides.
THEOREM TipsExact == (\E t : Tasks = {t}) => (Spec => []TipsAreLeaves)
<1> SUFFICES ASSUME NEW t, Tasks = {t} PROVE Spec => []TipsAreLeaves
  OBVIOUS
<1>1. Init => TipsInv
  <2> SUFFICES ASSUME Init PROVE TipsInv
    OBVIOUS
  <2>1. Recorded = {} /\ KnownIds = {}
    BY DEF Init, KnownIds, Recorded, Covered
  <2> QED BY <2>1 DEF Init, TipsInv, NamedAsParents, Leaves, Pending
<1>2. Types /\ Types' /\ ShapeInv /\ TipsInv /\ [Next]_vars => TipsInv'
  BY TipsStep
<1>3. TipsInv => TipsAreLeaves
  BY DEF TipsInv, TipsAreLeaves, AllIdle, Pending
<1> QED BY <1>1, <1>2, <1>3, ShapeInit, ShapeNext, TypeInit, TypeStep, PTL DEF Spec

-----------------------------------------------------------------------------------
(***********************************************************************************)
(* Confirmation means depth.  The main chain is linked: each of its blocks is       *)
(* recorded as a child of the one before.  Parents are older than their children,  *)
(* so a chain has no block twice, and whoever comes later on it descends from       *)
(* whoever comes earlier.                                                          *)
(***********************************************************************************)
Linked(c, entries) ==
  \A i \in DOMAIN c : i > 1 => \E e \in entries : e.id = c[i] /\ c[i - 1] \in e.parents

ParentsOlder(entries) == \A e \in entries : \A p \in e.parents : p < e.id

BurialInv ==
  /\ Linked(main_chain, Recorded)
  /\ ParentsOlder(Recorded)
  /\ \A t \in Tasks : \A p \in block[t].parents : p < block[t].id

LEMMA RecordedTyped ==
  ASSUME Types PROVE Recorded \subseteq Blocks
<1>1. \A b \in DOMAIN dag : b \in BlockIds /\ dag[b] \in Retained
  BY DEF Types, TypeOK
<1>2. \A b \in DOMAIN dag : Entry(b) \in Blocks
  BY <1>1 DEF Entry, Retained, Blocks
<1>3. Covered \subseteq Blocks
  BY DEF Types, TypeOK, Covered
<1> QED BY <1>2, <1>3 DEF Recorded

\* Which way the heaviest children lead, a walk goes from parents to children.
LEMMA WalksLinked ==
  ASSUME Types, NEW w \in GhostChains
  PROVE  Linked(w, Recorded)
<1> DEFINE D == DOMAIN dag
           K == Cardinality(D)
           More(W) == UNION {{Append(x, c) : c \in HeaviestChildren(Last(x))} : x \in W}
           First == {<<g>> : g \in Genesis}
           IsWalks(f) == f = [n \in 1..K |-> IF n = 1 THEN First ELSE More(f[n - 1])]
           F == [W \in SUBSET Seq(D) |-> More(W)]
           Links(x) == \A i \in 2..Len(x) : x[i] \in D /\ x[i - 1] \in dag[x[i]].parents
<1>1. K \in Nat
  <2>1. IsFiniteSet(1..MaxBlocks)
    <3>1. 1 \in Int /\ MaxBlocks \in Int
      BY BoundsAssumption
    <3> QED BY <3>1, FS_Interval
  <2>2. D \in SUBSET (1..MaxBlocks)
    BY DEF Types, TypeOK, BlockIds
  <2>3. IsFiniteSet(D)
    BY <2>1, <2>2, FS_Subset
  <2> QED BY <2>3, FS_CardinalityType
<1>2. \A b : HeaviestChildren(b) \subseteq Children(b) /\ Children(b) \subseteq D
  BY DEF HeaviestChildren, Children
<1>3. First \in SUBSET Seq(D)
  <2>1. Genesis \subseteq D
    BY DEF Genesis
  <2> HIDE DEF D
  <2>2. \A g \in Genesis : <<g>> \in Seq(D)
    BY <2>1
  <2> QED BY <2>2
<1>4. F \in [SUBSET Seq(D) -> SUBSET Seq(D)]
  <2>1. \A W \in SUBSET Seq(D) : \A x \in W, c \in D : Append(x, c) \in Seq(D)
    BY AppendProperties
  <2>2. \A W \in SUBSET Seq(D) : More(W) \in SUBSET Seq(D)
    BY <1>2, <2>1
  <2> HIDE DEF More
  <2> QED BY <2>2
<1>5. \E f : IsWalks(f)
  <2> HIDE DEF First, More, D, K
  <2> DEFINE T == SUBSET Seq(D)
  <2>1. PICK u : Iterates(u, K, First, F, T)
    <3>1. First \in T /\ F \in [T -> T]
      BY <1>3, <1>4
    <3> HIDE DEF T, F
    <3> QED BY <1>1, <3>1, IteratesExist
  <2> DEFINE f == [n \in 1..K |-> u[n - 1]]
  <2>2. \A n \in 1..K : f[n] = IF n = 1 THEN First ELSE More(f[n - 1])
    <3> TAKE n \in 1..K
    <3>1. n # 1 => n - 1 \in 1..K /\ n - 2 \in 0..K /\ (n - 1) - 1 = n - 2
      BY <1>1
    <3>2. n # 1 => u[n - 1] = F[u[n - 2]] /\ u[n - 2] \in SUBSET Seq(D)
      BY <2>1, <3>1 DEF Iterates
    <3>3. n # 1 => u[n - 1] = More(u[n - 2])
      BY <3>2
    <3> QED BY <2>1, <3>1, <3>3 DEF Iterates
  <2>3. f = [n \in 1..K |-> IF n = 1 THEN First ELSE More(f[n - 1])]
    <3> HIDE DEF F
    <3> QED BY <2>2
  <2> HIDE DEF f
  <2> QED BY <2>3
<1>6. PICK walks : /\ IsWalks(walks)
                   /\ GhostChains = {x \in UNION {walks[n] : n \in DOMAIN walks} :
                                       x \in Seq(D) /\ HeaviestChildren(Last(x)) = {}}
  <2> DEFINE W == CHOOSE f : IsWalks(f)
  <2>1. IsWalks(W)
    <3> HIDE DEF IsWalks
    <3> QED BY <1>5
  <2>2. GhostChains = {x \in UNION {W[n] : n \in DOMAIN W} :
                         x \in Seq(D) /\ HeaviestChildren(Last(x)) = {}}
    BY DEF GhostChains
  <2> HIDE DEF W, IsWalks, D
  <2> QED BY <2>1, <2>2
<1>7. \A n \in 1..K : \A x \in walks[n] : x \in Seq(D) /\ x # <<>> /\ Links(x)
  <2> DEFINE C == {n \in 1..K : ~ \A x \in walks[n] : x \in Seq(D) /\ x # <<>> /\ Links(x)}
  <2> SUFFICES ASSUME C # {} PROVE FALSE
    OBVIOUS
  <2>1. PICK m \in C : \A y \in C : m <= y
    <3>1. C \subseteq Nat
      BY <1>1
    <3> HIDE DEF C
    <3> QED BY <3>1, LeastNumber
  <2>2. PICK x \in walks[m] : ~ (x \in Seq(D) /\ x # <<>> /\ Links(x))
    BY <2>1
  <2>3. m \in 1..K /\ walks[m] = IF m = 1 THEN First ELSE More(walks[m - 1])
    <3> HIDE DEF First, More
    <3> QED BY <1>6, <2>1
  <2>4. CASE m = 1
    <3>1. PICK g \in D : x = <<g>>
      BY <2>2, <2>3, <2>4 DEF Genesis
    <3> QED BY <2>2, <3>1
  <2>5. CASE m # 1
    <3>0. PICK y \in walks[m - 1] : \E c \in HeaviestChildren(Last(y)) : x = Append(y, c)
      BY <2>2, <2>3, <2>5
    <3>1. PICK c \in HeaviestChildren(Last(y)) : x = Append(y, c)
      BY <3>0
    <3>2. m - 1 \in 1..K /\ m - 1 \notin C
      BY <1>1, <2>1, <2>3, <2>5
    <3>3. y \in Seq(D) /\ y # <<>> /\ Links(y)
      BY <3>1, <3>2
    <3>4. c \in D /\ Last(y) \in dag[c].parents
      BY <1>2, <3>1 DEF Children
    <3>5. /\ x \in Seq(D) /\ Len(y) \in Nat /\ Len(x) = Len(y) + 1 /\ Len(y) > 0
          /\ \A i \in 1..Len(y) : x[i] = y[i]
          /\ x[Len(y) + 1] = c
      BY <3>1, <3>3, <3>4, AppendProperties, EmptySeq, LenProperties
    <3>6. Last(y) = y[Len(y)]
      BY DEF Last
    <3>7. ASSUME NEW i \in 2..Len(x) PROVE x[i] \in D /\ x[i - 1] \in dag[x[i]].parents
      <4>1. CASE i = Len(x)
        BY <3>4, <3>5, <3>6, <4>1
      <4>2. CASE i # Len(x)
        <5>1. i \in 2..Len(y) /\ i \in 1..Len(y) /\ i - 1 \in 1..Len(y)
          BY <3>5, <4>2
        <5> QED BY <3>3, <3>5, <5>1
      <4> QED BY <4>1, <4>2
    <3> QED BY <2>2, <3>5, <3>7
  <2> QED BY <2>4, <2>5
<1>8. w \in Seq(D) /\ Links(w)
  <2>1. DOMAIN walks = 1..K
    BY <1>6
  <2>2. \E n \in 1..K : w \in walks[n]
    BY <1>6, <2>1
  <2> HIDE DEF Links
  <2> QED BY <1>7, <2>2
<1>9. \A b \in D : Entry(b) \in Recorded /\ Entry(b).id = b /\ Entry(b).parents = dag[b].parents
  BY LiveKnown DEF Entry
<1>10. \A i \in DOMAIN w : i > 1 => i \in 2..Len(w)
  BY <1>8, LenProperties
<1> HIDE DEF D
<1> QED BY <1>8, <1>9, <1>10 DEF Linked

-----------------------------------------------------------------------------------
\* The generations from which Ancestors is put together.
Generations(up, e, entries) ==
  /\ up[0] = e.parents
  /\ \A n \in 1..MaxBlocks :
       up[n] = up[n - 1] \cup UNION {f.parents : f \in {g \in entries : g.id \in up[n - 1]}}

LEMMA AncestorsAre ==
  ASSUME NEW R \in SUBSET Blocks, NEW e \in R
  PROVE  \E up : Generations(up, e, R) /\ Ancestors(e, R) = up[MaxBlocks]
<1> DEFINE T == SUBSET BlockIds
           a == e.parents
           More(near) == near \cup UNION {f.parents : f \in {g \in R : g.id \in near}}
           IsUp(u) == u = [n \in 0..MaxBlocks |-> IF n = 0 THEN a ELSE More(u[n - 1])]
           F == [near \in T |-> More(near)]
           W == CHOOSE u : IsUp(u)
<1>1. a \in T /\ F \in [T -> T]
  BY DEF Blocks
<1>2. PICK u : Iterates(u, MaxBlocks, a, F, T)
  <2> HIDE DEF T, a, F
  <2> QED BY <1>1, BoundsAssumption, IteratesExist
<1>3. \A n \in 0..MaxBlocks : u[n] = IF n = 0 THEN a ELSE More(u[n - 1])
  <2> TAKE n \in 0..MaxBlocks
  <2>1. n # 0 => n \in 1..MaxBlocks /\ n - 1 \in 0..MaxBlocks
    BY BoundsAssumption
  <2>2. n # 0 => u[n - 1] \in T /\ u[n] = F[u[n - 1]]
    <3> HIDE DEF T, F
    <3> QED BY <1>2, <2>1 DEF Iterates
  <2>3. n # 0 => u[n] = More(u[n - 1])
    BY <2>2
  <2>4. u[0] = a
    BY <1>2 DEF Iterates
  <2> HIDE DEF a, More
  <2> QED BY <2>3, <2>4
<1>4. IsUp([n \in 0..MaxBlocks |-> u[n]])
  <2> HIDE DEF a, More
  <2>1. \A n \in 0..MaxBlocks : n # 0 => n - 1 \in 0..MaxBlocks
    BY BoundsAssumption
  <2> QED BY <1>3, <2>1
<1>5. IsUp(W)
  <2> HIDE DEF IsUp
  <2> QED BY <1>4
<1>6. Ancestors(e, R) = W[MaxBlocks]
  BY DEF Ancestors
<1>7. Generations(W, e, R)
  <2> HIDE DEF W
  <2>1. W[0] = a
    <3> HIDE DEF a, More
    <3> QED BY <1>5, BoundsAssumption
  <2>2. \A n \in 1..MaxBlocks : W[n] = More(W[n - 1])
    <3> HIDE DEF a, More
    <3> QED BY <1>5, BoundsAssumption
  <2> QED BY <2>1, <2>2 DEF Generations
<1> QED BY <1>6, <1>7

LEMMA GenerationsGrow ==
  ASSUME NEW R, NEW e, NEW up, Generations(up, e, R), NEW d \in 0..MaxBlocks
  PROVE  up[d] \subseteq up[MaxBlocks]
<1> SUFFICES ASSUME NEW x \in up[d], x \notin up[MaxBlocks] PROVE FALSE
  OBVIOUS
<1> DEFINE C == {n \in d..MaxBlocks : x \notin up[n]}
<1>1. C \subseteq Nat /\ MaxBlocks \in C
  BY BoundsAssumption
<1>2. PICK m \in C : \A y \in C : m <= y
  <2> HIDE DEF C
  <2> QED BY <1>1, LeastNumber
<1>3. m \in 1..MaxBlocks /\ m - 1 \in d..MaxBlocks
  BY <1>2, BoundsAssumption
<1>4. x \in up[m - 1]
  <2>1. m - 1 \notin C
    <3>1. ~ (m <= m - 1)
      BY <1>3
    <3> HIDE DEF C
    <3> QED BY <1>2, <3>1
  <2> QED BY <1>3, <2>1
<1>5. up[m - 1] \subseteq up[m]
  BY <1>3 DEF Generations
<1> QED BY <1>2, <1>4, <1>5

\* Along a chain ids grow.  So the chain is no longer than there are ids.
LEMMA ChainIncreases ==
  ASSUME NEW R \in SUBSET Blocks, NEW c \in Seq(BlockIds), Linked(c, R), ParentsOlder(R)
  PROVE  /\ \A i, j \in 1..Len(c) : i < j => c[i] < c[j]
         /\ Len(c) <= MaxBlocks
<1>1. Len(c) \in Nat /\ DOMAIN c = 1..Len(c) /\ \A i \in 1..Len(c) : c[i] \in Nat /\ 1 <= c[i] /\ c[i] <= MaxBlocks
  BY BoundsAssumption DEF BlockIds
<1>2. \A j \in 1..Len(c) : j > 1 => c[j - 1] < c[j]
  BY <1>1 DEF Linked, ParentsOlder
<1>3. ASSUME NEW i \in 1..Len(c), NEW j \in 1..Len(c), i < j PROVE c[i] < c[j]
  <2> DEFINE C == {k \in (i + 1)..Len(c) : ~ (c[i] < c[k])}
  <2> SUFFICES ASSUME C # {} PROVE FALSE
    BY <1>1, <1>3
  <2>1. C \subseteq Nat
    BY <1>1
  <2>2. PICK m \in C : \A y \in C : m <= y
    <3> HIDE DEF C
    <3> QED BY <2>1, LeastNumber
  <2>3. m \in (i + 1)..Len(c) /\ ~ (c[i] < c[m]) /\ m - 1 \in i..Len(c)
    BY <1>1, <2>2
  <2>4. m - 1 # i => c[i] < c[m - 1]
    <3>1. m - 1 \notin C
      <4>1. ~ (m <= m - 1)
        BY <2>3
      <4> HIDE DEF C
      <4> QED BY <2>2, <4>1
    <3> QED BY <2>3, <3>1
  <2>5. c[m - 1] < c[m]
    BY <1>2, <2>3
  <2>6. c[i] \in Nat /\ c[m] \in Nat /\ c[m - 1] \in Nat
    BY <1>1, <2>3
  <2> QED BY <2>3, <2>4, <2>5, <2>6
<1>4. ASSUME NEW j \in 1..Len(c) PROVE j <= c[j]
  <2> DEFINE C == {k \in 1..Len(c) : ~ (k <= c[k])}
  <2> SUFFICES ASSUME C # {} PROVE FALSE
    BY <1>1
  <2>1. C \subseteq Nat
    BY <1>1
  <2>2. PICK m \in C : \A y \in C : m <= y
    <3> HIDE DEF C
    <3> QED BY <2>1, LeastNumber
  <2>3. m \in 1..Len(c) /\ ~ (m <= c[m])
    BY <2>2
  <2>4. m # 1 /\ m - 1 \in 1..Len(c)
    BY <1>1, <2>3
  <2>5. m - 1 <= c[m - 1]
    <3>1. m - 1 \notin C
      <4>1. ~ (m <= m - 1)
        BY <2>3
      <4> HIDE DEF C
      <4> QED BY <2>2, <4>1
    <3> QED BY <2>4, <3>1
  <2>6. c[m - 1] < c[m]
    BY <1>2, <2>3, <2>4
  <2>7. c[m] \in Nat /\ c[m - 1] \in Nat
    BY <1>1, <2>3, <2>4
  <2> QED BY <2>3, <2>5, <2>6, <2>7
<1>5. Len(c) <= MaxBlocks
  <2>1. Len(c) # 0 => Len(c) \in 1..Len(c)
    BY <1>1
  <2>2. Len(c) # 0 => Len(c) <= c[Len(c)] /\ c[Len(c)] <= MaxBlocks /\ c[Len(c)] \in Nat
    BY <1>1, <1>4, <2>1
  <2> QED BY <1>1, <2>2, BoundsAssumption
<1> QED BY <1>3, <1>5

\* Who comes later on a chain descends from who comes earlier.
LEMMA LaterDescend ==
  ASSUME NEW R \in SUBSET Blocks, NEW c \in Seq(BlockIds), Linked(c, R), ParentsOlder(R),
         NEW i \in 1..Len(c), NEW j \in 1..Len(c), i < j
  PROVE  c[j] \in Descendants(c[i], R)
<1>1. Len(c) \in Nat /\ DOMAIN c = 1..Len(c) /\ Len(c) <= MaxBlocks
  BY ChainIncreases
<1>2. PICK e \in R : e.id = c[j] /\ c[j - 1] \in e.parents
  <2>1. j \in DOMAIN c /\ j > 1
    BY <1>1
  <2> QED BY <2>1 DEF Linked
<1>3. PICK up : Generations(up, e, R) /\ Ancestors(e, R) = up[MaxBlocks]
  BY AncestorsAre
<1>4. \A d \in 0..(j - 2) : c[j - 1 - d] \in up[d]
  <2> DEFINE C == {d \in 0..(j - 2) : ~ (c[j - 1 - d] \in up[d])}
  <2> SUFFICES ASSUME C # {} PROVE FALSE
    OBVIOUS
  <2>1. C \subseteq Nat
    OBVIOUS
  <2>2. PICK m \in C : \A y \in C : m <= y
    <3> HIDE DEF C
    <3> QED BY <2>1, LeastNumber
  <2>3. m \in 0..(j - 2) /\ ~ (c[j - 1 - m] \in up[m])
    BY <2>2
  <2>4. m # 0
    <3>1. c[j - 1 - 0] \in up[0]
      <4>1. j - 1 - 0 = j - 1
        OBVIOUS
      <4> QED BY <1>2, <1>3, <4>1 DEF Generations
    <3> QED BY <2>3, <3>1
  <2>5. /\ m - 1 \in 0..(j - 2) /\ m \in 1..MaxBlocks /\ j - 1 - (m - 1) = j - m
        /\ j - m \in 1..Len(c) /\ j - m > 1 /\ (j - m) - 1 = j - 1 - m
    BY <1>1, <2>3, <2>4, BoundsAssumption
  <2>6. c[j - m] \in up[m - 1]
    <3>1. m - 1 \notin C
      <4>1. ~ (m <= m - 1)
        BY <2>3
      <4> HIDE DEF C
      <4> QED BY <2>2, <4>1
    <3> QED BY <2>5, <3>1
  <2>7. PICK f \in R : f.id = c[j - m] /\ c[j - 1 - m] \in f.parents
    BY <1>1, <2>5 DEF Linked
  <2>8. up[m] = up[m - 1] \cup UNION {f_1.parents : f_1 \in {g \in R : g.id \in up[m - 1]}}
    BY <1>3, <2>5 DEF Generations
  <2> QED BY <2>3, <2>6, <2>7, <2>8
<1>5. c[i] \in up[MaxBlocks]
  <2>1. /\ j - 1 - i \in 0..(j - 2) /\ j - 1 - i \in 0..MaxBlocks
        /\ j - 1 - (j - 1 - i) = i
    BY <1>1, BoundsAssumption
  <2>2. c[i] \in up[j - 1 - i]
    BY <1>4, <2>1
  <2> QED BY <1>3, <2>1, <2>2, GenerationsGrow
<1> QED BY <1>2, <1>3, <1>5 DEF Descendants

LEMMA Burial ==
  ASSUME NEW R \in SUBSET Blocks, NEW c \in Seq(BlockIds), Linked(c, R), ParentsOlder(R),
         NEW i \in DOMAIN c, i <= Len(c) - CONFIRMATION_DEPTH
  PROVE  Cardinality(Descendants(c[i], R)) >= CONFIRMATION_DEPTH
<1> DEFINE below == Descendants(c[i], R)
           later == (i + 1)..Len(c)
           f == [j \in later |-> c[j]]
<1>1. Len(c) \in Nat /\ DOMAIN c = 1..Len(c) /\ i \in 1..Len(c) /\ CONFIRMATION_DEPTH \in Nat
  BY SizesAssumption
<1>2. IsFiniteSet(below) /\ Cardinality(below) \in Nat
  <2>1. below \in SUBSET (1..MaxBlocks)
    BY DEF Descendants, Blocks, BlockIds
  <2>2. IsFiniteSet(1..MaxBlocks)
    <3>1. 1 \in Int /\ MaxBlocks \in Int
      BY BoundsAssumption
    <3> QED BY <3>1, FS_Interval
  <2> HIDE DEF below
  <2>3. IsFiniteSet(below)
    BY <2>1, <2>2, FS_Subset
  <2> QED BY <2>3, FS_CardinalityType
<1>3. f \in Injection(later, below)
  <2>1. \A j \in later : j \in 1..Len(c) /\ i < j
    BY <1>1
  <2>2. \A j \in later : c[j] \in below
    BY <1>1, <2>1, LaterDescend
  <2>3. \A j, k \in later : j # k => c[j] # c[k]
    <3>1. \A j, k \in 1..Len(c) : j < k => c[j] < c[k]
      BY ChainIncreases
    <3>2. \A j \in 1..Len(c) : c[j] \in Nat
      BY <1>1, BoundsAssumption DEF BlockIds
    <3> QED BY <2>1, <3>1, <3>2
  <2> HIDE DEF below, later
  <2> QED BY <2>2, <2>3 DEF Injection, IsInjective
<1>4. Cardinality(later) = Len(c) - i
  <2>1. i + 1 \in Int /\ Len(c) \in Int
    BY <1>1
  <2>2. Cardinality(later) = IF i + 1 > Len(c) THEN 0 ELSE Len(c) - (i + 1) + 1
    BY <2>1, FS_Interval
  <2> HIDE DEF later
  <2> QED BY <1>1, <2>2
<1>5. Cardinality(later) <= Cardinality(below)
  <2> HIDE DEF below, later, f
  <2> QED BY <1>2, <1>3, FS_Injection
<1> HIDE DEF below, later
<1>6. Cardinality(below) >= CONFIRMATION_DEPTH
  BY <1>1, <1>2, <1>4, <1>5
<1> QED BY <1>6 DEF below

\* A step that does not choose a chain keeps it; a chosen one is linked; and a block that is
\* submitted is younger than its parents.
LEMMA BurialInit == Init => BurialInv
<1> SUFFICES ASSUME Init PROVE BurialInv
  OBVIOUS
<1>1. Recorded = {}
  BY DEF Init, Recorded, Covered
<1> QED BY <1>1 DEF Init, BurialInv, Linked, ParentsOlder, NoBlock

LEMMA BurialStep ==
  ASSUME Types, ShapeInv, BurialInv, [Next]_vars
  PROVE  BurialInv'
<1>1. /\ Shape \subseteq Shape'
      /\ \A g \in Shape' \ Shape : \E t \in Tasks : g.id = block[t].id /\ g.parents = block[t].parents
  <2>1. \A t : Node(block[t]).id = block[t].id /\ Node(block[t]).parents = block[t].parents
    BY DEF Node
  <2> QED BY <2>1, ShapeStep
<1>2. /\ \A e \in Recorded : \E f \in Recorded' : f.id = e.id /\ f.parents = e.parents
      /\ \A f \in Recorded' : \/ \E e \in Recorded : f.id = e.id /\ f.parents = e.parents
                              \/ \E t \in Tasks : f.id = block[t].id /\ f.parents = block[t].parents
  <2>1. /\ \A e \in Recorded : \E g \in Shape : g.id = e.id /\ g.parents = e.parents
        /\ \A g \in Shape : \E e \in Recorded : e.id = g.id /\ e.parents = g.parents
    BY ShapeFacts DEF Shapely
  <2>2. /\ \A e \in Recorded' : \E g \in Shape' : g.id = e.id /\ g.parents = e.parents
        /\ \A g \in Shape' : \E e \in Recorded' : e.id = g.id /\ e.parents = g.parents
    BY ShapeFactsNext DEF Shapely
  <2>3. ASSUME NEW e \in Recorded PROVE \E f \in Recorded' : f.id = e.id /\ f.parents = e.parents
    <3>1. PICK g \in Shape : g.id = e.id /\ g.parents = e.parents
      BY <2>1
    <3>2. g \in Shape'
      BY <1>1
    <3> QED BY <2>2, <3>1, <3>2
  <2>4. ASSUME NEW f \in Recorded'
        PROVE  \/ \E e \in Recorded : f.id = e.id /\ f.parents = e.parents
               \/ \E t \in Tasks : f.id = block[t].id /\ f.parents = block[t].parents
    <3>1. PICK g \in Shape' : g.id = f.id /\ g.parents = f.parents
      BY <2>2
    <3>2. CASE g \in Shape
      BY <2>1, <3>1, <3>2
    <3>3. CASE g \notin Shape
      BY <1>1, <3>1, <3>3
    <3> QED BY <3>2, <3>3
  <2> QED BY <2>3, <2>4
<1>3. ParentsOlder(Recorded)'
  <2>1. \A e \in Recorded : \A p \in e.parents : p < e.id
    BY DEF BurialInv, ParentsOlder
  <2>2. \A t \in Tasks : \A p \in block[t].parents : p < block[t].id
    BY DEF BurialInv
  <2>3. \A f \in Recorded' : \A p \in f.parents : p < f.id
    BY <1>2, <2>1, <2>2
  <2> QED BY <2>3 DEF ParentsOlder
<1>4. ASSUME NEW t \in Tasks, UpdateMainChain(t), main_chain' \in GhostChains
      PROVE  Linked(main_chain', Recorded)
  BY <1>4, WalksLinked
<1>5. Linked(main_chain, Recorded) /\ UNCHANGED main_chain => Linked(main_chain', Recorded)
  OBVIOUS
<1>6. UNCHANGED main_chain \/ \E t \in Tasks : UpdateMainChain(t) /\ main_chain' \in GhostChains
  BY DEF Next, AddBlock, vars, shared, Submit, Validate, Reject, Scale, CheckSize,
         SnapshotChain, SelectVictims, CreateCheckpoint, CheckpointFails, RemoveVictims, Insert,
         UpdateTips, UpdateGhostScores, UpdateMainChain, UpdateConfirmed, CheckDeep, MarkConfirmed
<1>7. Linked(main_chain, Recorded)'
  <2>1. Linked(main_chain', Recorded)
    BY <1>4, <1>5, <1>6 DEF BurialInv
  <2>2. ASSUME NEW i \in DOMAIN main_chain', i > 1
        PROVE  \E f \in Recorded' : f.id = main_chain'[i] /\ main_chain'[i - 1] \in f.parents
    <3>1. PICK e \in Recorded : e.id = main_chain'[i] /\ main_chain'[i - 1] \in e.parents
      BY <2>1, <2>2 DEF Linked
    <3> QED BY <1>2, <3>1
  <2> QED BY <2>2 DEF Linked
<1>8. ASSUME NEW u \in Tasks PROVE \A p \in block'[u].parents : p < block'[u].id
  <2>1. \A p \in block[u].parents : p < block[u].id
    BY DEF BurialInv
  <2>2. calls \in Nat
    BY BoundsAssumption DEF Types, TypeOK
  <2>3. ASSUME NEW id \in {calls + 1} \cup (ReusableIds \cap 1..calls),
               NEW parents \in SUBSET (1..calls), NEW ops \in Payloads,
               id \in ReusableIds => parents = {},
               block'[u] = [id |-> id, parents |-> parents, ops |-> ops]
        PROVE  \A p \in block'[u].parents : p < block'[u].id
    <3>1. \A p \in parents : p < id
      BY <2>2, <2>3
    <3> QED BY <2>3, <3>1
  <2>4. block'[u] = NoBlock => \A p \in block'[u].parents : p < block'[u].id
    BY DEF NoBlock
  <2> QED BY <2>1, <2>3, <2>4, BlocksStep
<1> QED BY <1>7, <1>8, <1>3 DEF BurialInv

\* A block is confirmed only when at least CONFIRMATION_DEPTH recorded blocks descend from
\* it, whatever other calls do between the choice of the main chain and the confirmation,
\* and whatever ids are submitted again.
THEOREM ConfirmedBuried == Spec => ConfirmedAreBuried
<1>1. Types /\ BurialInv /\ [Next]_vars =>
        [\A b \in confirmed' \ confirmed :
           Cardinality(Descendants(b, Recorded)) >= CONFIRMATION_DEPTH]_vars
  <2> SUFFICES ASSUME Types, BurialInv, Next, NEW b \in confirmed' \ confirmed
               PROVE  Cardinality(Descendants(b, Recorded)) >= CONFIRMATION_DEPTH
    OBVIOUS
  <2>1. PICK t \in Tasks : UpdateConfirmed(t)
    BY DEF Next, AddBlock, shared, Submit, Validate, Reject, Scale, CheckSize,
           SnapshotChain, SelectVictims, CreateCheckpoint, CheckpointFails, RemoveVictims, Insert,
           UpdateTips, UpdateGhostScores, UpdateMainChain, CheckDeep, MarkConfirmed
  <2>2. PICK i \in DOMAIN main_chain : i <= Len(main_chain) - CONFIRMATION_DEPTH /\ b = main_chain[i]
    BY <2>1 DEF UpdateConfirmed
  <2>3. Recorded \in SUBSET Blocks /\ main_chain \in Seq(BlockIds)
    BY RecordedTyped DEF Types, TypeOK
  <2>4. Linked(main_chain, Recorded) /\ ParentsOlder(Recorded)
    BY DEF BurialInv
  <2> HIDE DEF Types, BurialInv
  <2> QED BY <2>2, <2>3, <2>4, Burial
<1>2. Types /\ ShapeInv /\ BurialInv /\ [Next]_vars => BurialInv'
  BY BurialStep
<1> QED
  BY <1>1, <1>2, ShapeInit, ShapeNext, BurialInit, TypeInit, TypeStep, PTL DEF Spec, ConfirmedAreBuried

-----------------------------------------------------------------------------------
(***********************************************************************************)
(* The replay of operations, single ones and batches of any length, for any paths, *)
(* modes and translators.  What is shown of a single operation holds of a batch by *)
(* induction over the batch.                                                       *)
(***********************************************************************************)
AnyOps == SimpleOps \cup BatchOps(Seq(SimpleOps))

Batch == INSTANCE Lemmas WITH combine <- apply_simple

\* Replaying a single operation gives a namespace.
LEMMA ApplyType ==
  ASSUME NEW ns \in Namespaces, NEW op \in SimpleOps
  PROVE  apply_simple(ns, op) \in Namespaces
<1> USE DEF Namespaces, FileStates, apply_simple, OnFile, MoveFile, NewFile
<1>1. CASE op \in CreateOps \/ op \in DeleteOps \/ op \in RegisterOps
  BY <1>1 DEF CreateOps, DeleteOps, RegisterOps
<1>2. CASE op \in WriteOps
  BY <1>2 DEF WriteOps
<1>3. CASE op \in SetTransOps
  BY <1>3 DEF SetTransOps
<1>4. CASE op \in ChmodOps
  BY <1>4 DEF ChmodOps
<1>5. CASE op \in RenameOps
  BY <1>5 DEF RenameOps
<1> QED BY <1>1, <1>2, <1>3, <1>4, <1>5 DEF SimpleOps

\* A simple operation has the kind of its record set and names paths of the namespace.
LEMMA SimplePaths ==
  ASSUME NEW op \in SimpleOps
  PROVE  simple_paths(op) \subseteq Paths /\ op.kind # "Batch" /\ affected_paths(op) = simple_paths(op)
BY DEF SimpleOps, CreateOps, WriteOps, DeleteOps, SetTransOps, ChmodOps, RenameOps, RegisterOps,
       simple_paths, affected_paths

\* An operation leaves the paths it does not name alone ...
LEMMA Frame ==
  ASSUME NEW ns \in Namespaces, NEW op \in SimpleOps, NEW p \in Paths \ simple_paths(op)
  PROVE  apply_simple(ns, op)[p] = ns[p]
<1> USE DEF Namespaces, apply_simple, OnFile, MoveFile, simple_paths
<1>1. CASE op \in RenameOps
  BY <1>1 DEF RenameOps
<1>2. CASE op \in CreateOps \/ op \in DeleteOps \/ op \in RegisterOps
  BY <1>2 DEF CreateOps, DeleteOps, RegisterOps
<1>3. CASE op \in WriteOps
  BY <1>3 DEF WriteOps
<1>4. CASE op \in SetTransOps
  BY <1>4 DEF SetTransOps
<1>5. CASE op \in ChmodOps
  BY <1>5 DEF ChmodOps
<1> QED BY <1>1, <1>2, <1>3, <1>4, <1>5 DEF SimpleOps

\* ... and what it does to those it names depends on them alone.
LEMMA Local ==
  ASSUME NEW ns1 \in Namespaces, NEW ns2 \in Namespaces, NEW op \in SimpleOps,
         \A q \in simple_paths(op) : ns1[q] = ns2[q], NEW p \in simple_paths(op)
  PROVE  apply_simple(ns1, op)[p] = apply_simple(ns2, op)[p]
<1> USE DEF Namespaces, apply_simple, OnFile, MoveFile, simple_paths
<1>1. CASE op \in RenameOps
  BY <1>1 DEF RenameOps
<1>2. CASE op \in CreateOps \/ op \in DeleteOps \/ op \in RegisterOps
  BY <1>2 DEF CreateOps, DeleteOps, RegisterOps
<1>3. CASE op \in WriteOps
  BY <1>3 DEF WriteOps
<1>4. CASE op \in SetTransOps
  BY <1>4 DEF SetTransOps
<1>5. CASE op \in ChmodOps
  BY <1>5 DEF ChmodOps
<1> QED BY <1>1, <1>2, <1>3, <1>4, <1>5 DEF SimpleOps

LEMMA BatchIsFold ==
  ASSUME NEW ops \in Seq(SimpleOps), NEW ns
  PROVE  FoldLeft(apply_simple, ns, ops) = Batch!Fold(ns, ops)
BY DEF Batch!Fold, Batch!FoldLeft, FoldLeft, Batch!MapThenFoldSet, MapThenFoldSet, Batch!Max, Max

LEMMA BatchType ==
  ASSUME NEW ns \in Namespaces, NEW ops \in Seq(SimpleOps)
  PROVE  Batch!Fold(ns, ops) \in Namespaces
BY ApplyType, Batch!FoldType

\* The paths of the operations of a batch.
BatchPaths(ops) == UNION {simple_paths(ops[i]) : i \in DOMAIN ops}

LEMMA BatchPathsAppend ==
  ASSUME NEW ops \in Seq(SimpleOps), NEW e \in SimpleOps
  PROVE  BatchPaths(Append(ops, e)) = BatchPaths(ops) \cup simple_paths(e)
<1>1. DOMAIN Append(ops, e) = DOMAIN ops \cup {Len(ops) + 1}
      /\ \A i \in DOMAIN ops : Append(ops, e)[i] = ops[i]
      /\ Append(ops, e)[Len(ops) + 1] = e
  BY AppendFacts
<1> QED BY <1>1 DEF BatchPaths

\* A batch of operations on paths of Q leaves the other paths alone ...
LEMMA BatchFrame ==
  ASSUME NEW ns \in Namespaces, NEW Q
  PROVE  \A ops \in Seq(SimpleOps) : BatchPaths(ops) \subseteq Q =>
           \A p \in Paths \ Q : Batch!Fold(ns, ops)[p] = ns[p]
<1> DEFINE P == {ops \in Seq(SimpleOps) : BatchPaths(ops) \subseteq Q =>
                   \A p \in Paths \ Q : Batch!Fold(ns, ops)[p] = ns[p]}
<1>1. <<>> \in P
  BY Batch!FoldEmpty
<1>2. ASSUME NEW ops \in Seq(SimpleOps), NEW e \in SimpleOps, ops \in P
      PROVE  Append(ops, e) \in P
  <2>1. Append(ops, e) \in Seq(SimpleOps)
    OBVIOUS
  <2> SUFFICES ASSUME BatchPaths(Append(ops, e)) \subseteq Q, NEW p \in Paths \ Q
               PROVE  Batch!Fold(ns, Append(ops, e))[p] = ns[p]
    BY <2>1
  <2>2. BatchPaths(ops) \subseteq Q /\ simple_paths(e) \subseteq Q
    BY BatchPathsAppend
  <2>3. Batch!Fold(ns, ops)[p] = ns[p]
    BY <1>2, <2>2
  <2>4. apply_simple(Batch!Fold(ns, ops), e)[p] = Batch!Fold(ns, ops)[p]
    BY <2>2, BatchType, Frame
  <2> QED BY <2>3, <2>4, Batch!FoldAppend
<1>3. Seq(SimpleOps) \subseteq P
  <2> HIDE DEF P
  <2> QED BY <1>1, <1>2, Batch!SequenceInduction
<1> QED BY <1>3

\* ... and what it does to those of Q depends on them alone.
LEMMA BatchLocal ==
  ASSUME NEW ns1 \in Namespaces, NEW ns2 \in Namespaces,
         NEW Q \in SUBSET Paths, \A q \in Q : ns1[q] = ns2[q]
  PROVE  \A ops \in Seq(SimpleOps) : BatchPaths(ops) \subseteq Q =>
           \A q \in Q : Batch!Fold(ns1, ops)[q] = Batch!Fold(ns2, ops)[q]
<1> DEFINE P == {ops \in Seq(SimpleOps) : BatchPaths(ops) \subseteq Q =>
                   \A q \in Q : Batch!Fold(ns1, ops)[q] = Batch!Fold(ns2, ops)[q]}
<1>1. <<>> \in P
  BY Batch!FoldEmpty
<1>2. ASSUME NEW ops \in Seq(SimpleOps), NEW e \in SimpleOps, ops \in P
      PROVE  Append(ops, e) \in P
  <2>1. Append(ops, e) \in Seq(SimpleOps)
    OBVIOUS
  <2> SUFFICES ASSUME BatchPaths(Append(ops, e)) \subseteq Q, NEW q \in Q
               PROVE  Batch!Fold(ns1, Append(ops, e))[q] = Batch!Fold(ns2, Append(ops, e))[q]
    BY <2>1
  <2>2. BatchPaths(ops) \subseteq Q /\ simple_paths(e) \subseteq Q
    BY BatchPathsAppend
  <2> DEFINE m1 == Batch!Fold(ns1, ops)
             m2 == Batch!Fold(ns2, ops)
  <2>3. \A r \in Q : m1[r] = m2[r]
    BY <1>2, <2>2
  <2>4. m1 \in Namespaces /\ m2 \in Namespaces
    BY BatchType
  <2>5. Batch!Fold(ns1, Append(ops, e)) = apply_simple(m1, e)
        /\ Batch!Fold(ns2, Append(ops, e)) = apply_simple(m2, e)
    BY Batch!FoldAppend
  <2> HIDE DEF m1, m2
  <2>6. CASE q \in simple_paths(e)
    <3>1. \A r \in simple_paths(e) : m1[r] = m2[r]
      BY <2>2, <2>3
    <3> QED BY <2>4, <2>5, <2>6, <3>1, Local
  <2>7. CASE q \notin simple_paths(e)
    BY <2>3, <2>4, <2>5, <2>7, Frame
  <2> QED BY <2>6, <2>7
<1>3. Seq(SimpleOps) \subseteq P
  <2> HIDE DEF P
  <2> QED BY <1>1, <1>2, Batch!SequenceInduction
<1> QED BY <1>3

-----------------------------------------------------------------------------------
\* The three facts for any operation, the shape in which they are used.
LEMMA AnyOp ==
  ASSUME NEW op \in AnyOps
  PROVE  \/ op \in SimpleOps /\ affected_paths(op) = simple_paths(op)
            /\ \A ns : apply_operation_to_state(ns, op) = apply_simple(ns, op)
         \/ op.ops \in Seq(SimpleOps) /\ affected_paths(op) = BatchPaths(op.ops)
            /\ \A ns : apply_operation_to_state(ns, op) = Batch!Fold(ns, op.ops)
<1>1. CASE op \in SimpleOps
  BY <1>1, SimplePaths DEF apply_operation_to_state
<1>2. CASE op \in BatchOps(Seq(SimpleOps))
  <2>1. op.kind = "Batch" /\ op.ops \in Seq(SimpleOps)
    BY <1>2 DEF BatchOps
  <2>2. affected_paths(op) = BatchPaths(op.ops)
    BY <2>1 DEF affected_paths, BatchPaths
  <2>3. ASSUME NEW ns PROVE apply_operation_to_state(ns, op) = Batch!Fold(ns, op.ops)
    <3>1. FoldLeft(apply_simple, ns, op.ops) = Batch!Fold(ns, op.ops)
      BY <2>1, BatchIsFold
    <3> QED BY <2>1, <3>1 DEF apply_operation_to_state
  <2> QED BY <2>1, <2>2, <2>3
<1> QED BY <1>1, <1>2 DEF AnyOps

LEMMA OpPaths ==
  ASSUME NEW op \in AnyOps
  PROVE  affected_paths(op) \subseteq Paths
<1>1. CASE op \in SimpleOps /\ affected_paths(op) = simple_paths(op)
  BY <1>1, SimplePaths
<1>2. CASE op.ops \in Seq(SimpleOps) /\ affected_paths(op) = BatchPaths(op.ops)
  <2>1. \A i \in DOMAIN op.ops : op.ops[i] \in SimpleOps
    BY <1>2
  <2> QED BY <1>2, <2>1, SimplePaths DEF BatchPaths
<1> QED BY <1>1, <1>2, AnyOp

LEMMA OpType ==
  ASSUME NEW ns \in Namespaces, NEW op \in AnyOps
  PROVE  apply_operation_to_state(ns, op) \in Namespaces
BY AnyOp, ApplyType, BatchType

LEMMA OpFrame ==
  ASSUME NEW ns \in Namespaces, NEW op \in AnyOps, NEW p \in Paths \ affected_paths(op)
  PROVE  apply_operation_to_state(ns, op)[p] = ns[p]
BY AnyOp, Frame, BatchFrame

LEMMA OpLocal ==
  ASSUME NEW ns1 \in Namespaces, NEW ns2 \in Namespaces, NEW op \in AnyOps,
         \A q \in affected_paths(op) : ns1[q] = ns2[q], NEW p \in affected_paths(op)
  PROVE  apply_operation_to_state(ns1, op)[p] = apply_operation_to_state(ns2, op)[p]
<1>1. affected_paths(op) \in SUBSET Paths
  BY OpPaths
<1>2. CASE op \in SimpleOps /\ affected_paths(op) = simple_paths(op)
           /\ \A ns : apply_operation_to_state(ns, op) = apply_simple(ns, op)
  BY <1>2, Local
<1>3. CASE op.ops \in Seq(SimpleOps) /\ affected_paths(op) = BatchPaths(op.ops)
           /\ \A ns : apply_operation_to_state(ns, op) = Batch!Fold(ns, op.ops)
  <2>1. \A q \in affected_paths(op) : Batch!Fold(ns1, op.ops)[q] = Batch!Fold(ns2, op.ops)[q]
    BY <1>1, <1>3, BatchLocal
  <2> QED BY <1>3, <2>1
<1> QED BY <1>2, <1>3, AnyOp

LEMMA OpsCommute ==
  ASSUME NEW ns \in Namespaces, NEW a \in AnyOps, NEW b \in AnyOps, ~ conflicts_with(a, b)
  PROVE  apply_operation_to_state(apply_operation_to_state(ns, a), b)
           = apply_operation_to_state(apply_operation_to_state(ns, b), a)
<1> DEFINE A == apply_operation_to_state(ns, a)
           B == apply_operation_to_state(ns, b)
           AB == apply_operation_to_state(A, b)
           BA == apply_operation_to_state(B, a)
<1>1. /\ affected_paths(a) \subseteq Paths /\ affected_paths(b) \subseteq Paths
      /\ affected_paths(a) \cap affected_paths(b) = {}
  BY OpPaths DEF conflicts_with
<1>2. A \in Namespaces /\ B \in Namespaces
  BY OpType
<1>3. AB \in Namespaces /\ BA \in Namespaces
  BY <1>2, OpType
<1>4. ASSUME NEW p \in Paths PROVE AB[p] = BA[p]
  <2>1. CASE p \in affected_paths(a)
    <3>1. AB[p] = A[p]
      BY <1>1, <1>2, <2>1, OpFrame
    <3>2. \A q \in affected_paths(a) : B[q] = ns[q]
      BY <1>1, OpFrame
    <3>3. BA[p] = A[p]
      BY <1>2, <2>1, <3>2, OpLocal
    <3> QED BY <3>1, <3>3
  <2>2. CASE p \in affected_paths(b)
    <3>1. BA[p] = B[p]
      BY <1>1, <1>2, <2>2, OpFrame
    <3>2. \A q \in affected_paths(b) : A[q] = ns[q]
      BY <1>1, OpFrame
    <3>3. AB[p] = B[p]
      BY <1>2, <2>2, <3>2, OpLocal
    <3> QED BY <3>1, <3>3
  <2>3. CASE p \notin affected_paths(a) \cup affected_paths(b)
    <3>1. AB[p] = A[p] /\ A[p] = ns[p]
      BY <1>2, <2>3, OpFrame
    <3>2. BA[p] = B[p] /\ B[p] = ns[p]
      BY <1>2, <2>3, OpFrame
    <3> QED BY <3>1, <3>2
  <2> QED BY <2>1, <2>2, <2>3
<1>5. AB = BA
  <2> HIDE DEF AB, BA
  <2> QED BY <1>3, <1>4 DEF Namespaces
<1> QED BY <1>5

\* Only namespaces are reached.
ReplayTypeOK == namespace_state \in Namespaces

LEMMA ReplayTypeCorrect == Ops \subseteq AnyOps => (ReplaySpec => []ReplayTypeOK)
<1> SUFFICES ASSUME Ops \subseteq AnyOps PROVE ReplaySpec => []ReplayTypeOK
  OBVIOUS
<1>1. ReplayInit => ReplayTypeOK
  BY DEF ReplayInit, ReplayTypeOK, EmptyNamespace, Namespaces
<1>2. ReplayTypeOK /\ [ReplayNext]_namespace_state => ReplayTypeOK'
  <2> SUFFICES ASSUME ReplayTypeOK, ReplayNext PROVE ReplayTypeOK'
    BY DEF ReplayTypeOK
  <2> QED BY OpType DEF ReplayNext, ReplayOp, ReplayTypeOK
<1> QED BY <1>1, <1>2, PTL DEF ReplaySpec

\* Operations that may share a block can be replayed in either order: for any paths,
\* modes and translators, whatever the lengths of the batches.
THEOREM BlockOrderIrrelevant == Ops \subseteq AnyOps => (ReplaySpec => []OrderIrrelevant)
<1> SUFFICES ASSUME Ops \subseteq AnyOps PROVE ReplaySpec => []OrderIrrelevant
  OBVIOUS
<1>1. ReplayTypeOK => OrderIrrelevant
  <2> SUFFICES ASSUME ReplayTypeOK, NEW a \in Ops, NEW b \in Ops, ~ conflicts_with(a, b)
               PROVE  apply_operation_to_state(apply_operation_to_state(namespace_state, a), b)
                        = apply_operation_to_state(apply_operation_to_state(namespace_state, b), a)
    BY DEF OrderIrrelevant
  <2> QED BY OpsCommute DEF ReplayTypeOK
<1> QED BY <1>1, ReplayTypeCorrect, PTL

\* affected_paths names every path an operation changes, for any paths, modes and
\* translators, whatever the lengths of the batches.
THEOREM AffectedPathsComplete == Ops \subseteq AnyOps => (ReplaySpec => []OnlyAffectedChange)
<1> SUFFICES ASSUME Ops \subseteq AnyOps PROVE ReplaySpec => []OnlyAffectedChange
  OBVIOUS
<1>1. ReplayTypeOK => OnlyAffectedChange
  <2> SUFFICES ASSUME ReplayTypeOK, NEW op \in Ops, NEW p \in Paths \ affected_paths(op)
               PROVE  apply_operation_to_state(namespace_state, op)[p] = namespace_state[p]
    BY DEF OnlyAffectedChange
  <2> QED BY OpFrame DEF ReplayTypeOK
<1> QED BY <1>1, ReplayTypeCorrect, PTL

\* Outside T, the namespace part has nothing that whole does not have as well.
AgreesBut(T, part, whole) == \A p \in Paths \ T : part[p] \in {Absent, whole[p]}

\* An operation keeps it so, if it renames nothing to a path outside T ...
LEMMA SimpleAgrees ==
  ASSUME NEW part \in Namespaces, NEW whole \in Namespaces, NEW T, AgreesBut(T, part, whole),
         NEW op \in SimpleOps, op.kind = "Rename" => op.to \in T
  PROVE  AgreesBut(T, apply_simple(part, op), apply_simple(whole, op))
<1> USE DEF Namespaces, apply_simple, OnFile, MoveFile, AgreesBut
<1>1. CASE op \in RenameOps
  BY <1>1 DEF RenameOps
<1>2. CASE op \in CreateOps \/ op \in DeleteOps \/ op \in RegisterOps
  BY <1>2 DEF CreateOps, DeleteOps, RegisterOps
<1>3. CASE op \in WriteOps
  BY <1>3 DEF WriteOps
<1>4. CASE op \in SetTransOps
  BY <1>4 DEF SetTransOps
<1>5. CASE op \in ChmodOps
  BY <1>5 DEF ChmodOps
<1> QED BY <1>1, <1>2, <1>3, <1>4, <1>5 DEF SimpleOps

\* ... and so does a batch of such operations.
RenamesInto(T, ops) == \A i \in DOMAIN ops : ops[i].kind = "Rename" => ops[i].to \in T

LEMMA BatchAgrees ==
  ASSUME NEW part \in Namespaces, NEW whole \in Namespaces, NEW T, AgreesBut(T, part, whole)
  PROVE  \A ops \in Seq(SimpleOps) : RenamesInto(T, ops) =>
           AgreesBut(T, Batch!Fold(part, ops), Batch!Fold(whole, ops))
<1> DEFINE P == {ops \in Seq(SimpleOps) : RenamesInto(T, ops) =>
                   AgreesBut(T, Batch!Fold(part, ops), Batch!Fold(whole, ops))}
<1>1. <<>> \in P
  BY Batch!FoldEmpty
<1>2. ASSUME NEW ops \in Seq(SimpleOps), NEW e \in SimpleOps, ops \in P
      PROVE  Append(ops, e) \in P
  <2>1. Append(ops, e) \in Seq(SimpleOps)
    OBVIOUS
  <2> SUFFICES ASSUME RenamesInto(T, Append(ops, e))
               PROVE  AgreesBut(T, Batch!Fold(part, Append(ops, e)), Batch!Fold(whole, Append(ops, e)))
    BY <2>1
  <2>2. RenamesInto(T, ops) /\ (e.kind = "Rename" => e.to \in T)
    BY AppendFacts DEF RenamesInto
  <2>3. AgreesBut(T, Batch!Fold(part, ops), Batch!Fold(whole, ops))
    BY <1>2, <2>2
  <2>4. AgreesBut(T, apply_simple(Batch!Fold(part, ops), e), apply_simple(Batch!Fold(whole, ops), e))
    BY <2>2, <2>3, BatchType, SimpleAgrees
  <2> QED BY <2>4, Batch!FoldAppend
<1>3. Seq(SimpleOps) \subseteq P
  <2> HIDE DEF P
  <2> QED BY <1>1, <1>2, Batch!SequenceInduction
<1> QED BY <1>3

\* The same of any operation, with the paths it renames to.
LEMMA OpAgrees ==
  ASSUME NEW part \in Namespaces, NEW whole \in Namespaces, NEW op \in AnyOps,
         AgreesBut(RenamedOnto(op), part, whole)
  PROVE  AgreesBut(RenamedOnto(op), apply_operation_to_state(part, op),
                   apply_operation_to_state(whole, op))
<1>1. CASE op \in SimpleOps
  <2>1. op.kind = "Rename" => op.to \in RenamedOnto(op)
    BY DEF RenamedOnto
  <2>2. apply_operation_to_state(part, op) = apply_simple(part, op)
        /\ apply_operation_to_state(whole, op) = apply_simple(whole, op)
    BY <1>1, SimplePaths DEF apply_operation_to_state
  <2> QED BY <1>1, <2>1, <2>2, SimpleAgrees
<1>2. CASE op \in BatchOps(Seq(SimpleOps))
  <2>1. op.kind = "Batch" /\ op.ops \in Seq(SimpleOps)
    BY <1>2 DEF BatchOps
  <2>2. RenamesInto(RenamedOnto(op), op.ops)
    BY <2>1 DEF RenamesInto, RenamedOnto, Range
  <2>3. apply_operation_to_state(part, op) = Batch!Fold(part, op.ops)
        /\ apply_operation_to_state(whole, op) = Batch!Fold(whole, op.ops)
    BY <2>1, BatchIsFold DEF apply_operation_to_state
  <2> QED BY <2>1, <2>2, <2>3, BatchAgrees
<1> QED BY <1>1, <1>2 DEF AnyOps

\* What a checkpoint replayed onto an empty namespace misses it does not contradict, for
\* any paths, modes and translators, whatever the lengths of the batches.
THEOREM CheckpointsNeverContradict ==
  Ops \subseteq AnyOps => (ReplaySpec => []CheckpointsAgree)
<1> SUFFICES ASSUME Ops \subseteq AnyOps PROVE ReplaySpec => []CheckpointsAgree
  OBVIOUS
<1>1. ReplayTypeOK => CheckpointsAgree
  <2> SUFFICES ASSUME ReplayTypeOK, NEW op \in Ops, NEW K \in SUBSET Paths,
                      NEW p \in Paths \ RenamedOnto(op)
               PROVE  apply_operation_to_state(Part(K), op)[p]
                        \in {Absent, apply_operation_to_state(namespace_state, op)[p]}
    BY DEF CheckpointsAgree
  <2>1. Part(K) \in Namespaces /\ namespace_state \in Namespaces
    BY DEF Part, ReplayTypeOK, Namespaces
  <2>2. AgreesBut(RenamedOnto(op), Part(K), namespace_state)
    BY DEF Part, AgreesBut
  <2> QED BY <2>1, <2>2, OpAgrees DEF AgreesBut
<1> QED BY <1>1, ReplayTypeCorrect, PTL
-----------------------------------------------------------------------------------
(***********************************************************************************)
(* The locks of DagLocks, for any number of tasks.  Nobody wants a lock that is    *)
(* not of its place, and nobody waits for one it has; so among tasks that wait for *)
(* each other, the one that waits for the lock of the highest rank waits for a     *)
(* task that has it and goes on to a lower one.                                    *)
(***********************************************************************************)
\* What holds of every place: no lock is asked for twice, and, but for the places that
\* are out of order, every lock that is held is of a lower rank.
PlaceOK(p, a) ==
  /\ a.lock \in LockNames /\ a.mode \in {"R", "W"}
  /\ a.holding \subseteq LockNames \ {a.lock}
  /\ p \notin OutOfOrder => \A l \in a.holding : Rank[l] < Rank[a.lock]

PlacesOK(g, next) == \A p \in DOMAIN g : PlaceOK(p, g[p]) /\ g[p].next \subseteq next

LEMMA TogetherOK ==
  ASSUME NEW f, NEW g, NEW next, PlacesOK(f, next), PlacesOK(g, next)
  PROVE  PlacesOK(Together(f, g), next)
BY DEF PlacesOK, Together

LEMMA PlacesAre ==
  Places = DOMAIN AddBlockLocks \cup (DOMAIN MetricsLocks \cup (DOMAIN ScalingLocks \cup
             (DOMAIN PruneLocks \cup (DOMAIN ChainLocks \cup (DOMAIN StatsLocks \cup DOMAIN QueryLocks)))))
<1>1. \A f, g : DOMAIN Together(f, g) = DOMAIN f \cup DOMAIN g
  BY DEF Together
<1> DEFINE f6 == Together(StatsLocks, QueryLocks)
           f5 == Together(ChainLocks, f6)
           f4 == Together(PruneLocks, f5)
           f3 == Together(ScalingLocks, f4)
           f2 == Together(MetricsLocks, f3)
<1>2. At = Together(AddBlockLocks, f2)
  BY DEF At
<1>3. /\ DOMAIN f6 = DOMAIN StatsLocks \cup DOMAIN QueryLocks
      /\ DOMAIN f5 = DOMAIN ChainLocks \cup DOMAIN f6
      /\ DOMAIN f4 = DOMAIN PruneLocks \cup DOMAIN f5
      /\ DOMAIN f3 = DOMAIN ScalingLocks \cup DOMAIN f4
      /\ DOMAIN f2 = DOMAIN MetricsLocks \cup DOMAIN f3
  BY <1>1
<1>4. DOMAIN At = DOMAIN AddBlockLocks \cup DOMAIN f2
  <2> HIDE DEF f2
  <2> QED BY <1>1, <1>2
<1> HIDE DEF f2, f3, f4, f5, f6
<1> QED BY <1>3, <1>4 DEF Places

LEMMA AllPlacesOK == PlacesOK(At, Places \cup {"idle"})
<1> DEFINE N == Places \cup {"idle"}
<1>a. DOMAIN AddBlockLocks = {"track", "validate", "limit", "size", "insert", "tips"}
  BY DEF AddBlockLocks
<1>m. DOMAIN MetricsLocks = {"metrics_timestamps", "metrics_dag", "metrics_max", "metrics_tips",
                             "record_throughput", "record_fill", "record_fork", "metrics_last"}
  BY DEF MetricsLocks
<1>s. DOMAIN ScalingLocks = {"decide_time", "decide_throughput", "decide_fill", "decide_fork",
                             "apply_hold", "apply_size", "apply_time", "scaling_read", "scaling_write"}
  BY DEF ScalingLocks
<1>p. DOMAIN PruneLocks = {"prune_chain", "prune_confirmed", "prune_max", "checkpoint_dag",
                           "checkpoint_push", "prune_dag"}
  BY DEF PruneLocks
<1>c. DOMAIN ChainLocks = {"scores_dag", "scores_write", "chain_dag", "chain_scores", "chain_write",
                           "confirm_chain", "confirm_write", "deep", "mark"}
  BY DEF ChainLocks
<1>t. DOMAIN StatsLocks = {"stats_dag", "stats_tips", "stats_confirmed", "stats_checkpoints",
                           "stats_chain"}
  BY DEF StatsLocks
<1>q. DOMAIN QueryLocks = {"get_chain", "current_size", "predict_throughput", "predict_size"}
  BY DEF QueryLocks
<1>1. PlacesOK(AddBlockLocks, N)
  BY <1>a, <1>m, <1>p, <1>c, PlacesAre
  DEF PlacesOK, PlaceOK, Place, AddBlockLocks, LockNames, Rank, OutOfOrder
<1>2. PlacesOK(MetricsLocks, N)
  BY <1>m, <1>s, PlacesAre
  DEF PlacesOK, PlaceOK, Place, MetricsLocks, LockNames, Rank, OutOfOrder
<1>3. PlacesOK(ScalingLocks, N)
  BY <1>a, <1>s, PlacesAre
  DEF PlacesOK, PlaceOK, Place, ScalingLocks, LockNames, Rank, OutOfOrder
<1>4. PlacesOK(PruneLocks, N)
  BY <1>a, <1>p, PlacesAre
  DEF PlacesOK, PlaceOK, Place, PruneLocks, LockNames, Rank, OutOfOrder
<1>5. PlacesOK(ChainLocks, N)
  BY <1>c, PlacesAre
  DEF PlacesOK, PlaceOK, Place, ChainLocks, LockNames, Rank, OutOfOrder
<1>6. PlacesOK(StatsLocks, N)
  BY <1>t, PlacesAre
  DEF PlacesOK, PlaceOK, Place, StatsLocks, LockNames, Rank, OutOfOrder
<1>7. PlacesOK(QueryLocks, N)
  BY <1>q, PlacesAre
  DEF PlacesOK, PlaceOK, Place, QueryLocks, LockNames, Rank, OutOfOrder
<1> HIDE DEF N
<1> QED BY <1>1, <1>2, <1>3, <1>4, <1>5, <1>6, <1>7, TogetherOK DEF At, N

LEMMA CallsArePlaces == \A t : Calls(t) \subseteq Places \ {"idle"}
<1>1. "track" \in DOMAIN AddBlockLocks /\ "stats_dag" \in DOMAIN StatsLocks
  BY DEF AddBlockLocks, StatsLocks
<1>2. {"get_chain", "current_size", "predict_throughput"} \subseteq DOMAIN QueryLocks
  BY DEF QueryLocks
<1> QED BY <1>1, <1>2, PlacesAre DEF Calls

LocksTypes ==
  /\ locks \in [LockNames -> LocksOf(Callers)]
  /\ place \in [Callers -> Places \cup {"idle"}]

\* A task has and waits for nothing else than what its place says, and waits for no
\* other lock than the one it asks for there.
WantsInv ==
  \A l \in LockNames : \A m \in {"R", "W"} : \A t \in Wants(locks[l], m) :
    /\ place[t] # "idle"
    /\ l \in At[place[t]].holding \/ (l = At[place[t]].lock /\ m = At[place[t]].mode)

WaitsInv ==
  \A l \in LockNames : \A i \in 1..Len(locks[l].queue) :
    LET t == locks[l].queue[i].task IN place[t] # "idle" /\ l = At[place[t]].lock

LocksInv ==
  /\ LocksTypes /\ WantsInv /\ WaitsInv
  /\ \A l \in LockNames : Exclusive(locks[l]) /\ Orderly(locks[l])

LEMMA LocksInvInit == LocksInit => LocksInv
<1> SUFFICES ASSUME LocksInit PROVE LocksInv
  OBVIOUS
<1>1. Unlocked.readers = {} /\ Unlocked.writers = {} /\ Unlocked.queue = <<>>
  BY DEF Unlocked, Lock
<1>2. Unlocked \in LocksOf(Callers)
  BY DEF Unlocked, Lock, LocksOf, Waiters
<1>3. LocksTypes
  BY <1>2 DEF LocksInit, LocksTypes
<1>4. \A l \in LockNames : locks[l] = Unlocked
  BY DEF LocksInit
<1>5. Len(<<>>) = 0 /\ \A i : ~ (i \in 1..0)
  OBVIOUS
<1>6. \A m \in {"R", "W"} : Wants(Unlocked, m) = {}
  BY <1>1, <1>5 DEF Wants, Asking
<1>7. Exclusive(Unlocked) /\ Orderly(Unlocked)
  BY <1>1, <1>5 DEF Exclusive, Orderly
<1>8. WantsInv
  BY <1>4, <1>6 DEF WantsInv
<1>9. WaitsInv
  BY <1>1, <1>4, <1>5 DEF WaitsInv
<1> QED BY <1>3, <1>4, <1>7, <1>8, <1>9 DEF LocksInv

\* A task that goes on waits nowhere.
LEMMA NotWaiting ==
  ASSUME LocksInv, NEW t \in Callers, place[t] = "idle" \/ Granted(t), NEW l \in LockNames,
         NEW i \in 1..Len(locks[l].queue)
  PROVE  locks[l].queue[i].task # t
<1> SUFFICES ASSUME locks[l].queue[i].task = t PROVE FALSE
  OBVIOUS
<1>1. place[t] # "idle" /\ l = At[place[t]].lock
  BY DEF LocksInv, WaitsInv
<1>2. t \in locks[l].readers \cup locks[l].writers
  BY <1>1 DEF Granted, Reads, Writes
<1> QED BY <1>2 DEF LocksInv, Orderly

\* What a task lets go of is a lock without it.
LEMMA ReleasedFacts ==
  ASSUME LocksInv, NEW t \in Callers, place[t] = "idle" \/ Granted(t), NEW kept, NEW l \in LockNames
  PROVE  LET k == Released(t, kept)[l]
         IN  /\ k \in LocksOf(Callers) /\ Exclusive(k) /\ Orderly(k) /\ QueueFrom(k, locks[l])
             /\ \A m \in {"R", "W"} :
                  /\ l \in kept => Wants(k, m) = Wants(locks[l], m)
                  /\ l \notin kept => Wants(k, m) = Wants(locks[l], m) \ {t}
<1>1. /\ locks[l] \in LocksOf(Callers) /\ Exclusive(locks[l]) /\ Orderly(locks[l])
      /\ \A i \in 1..Len(locks[l].queue) : locks[l].queue[i].task # t
  BY NotWaiting DEF LocksInv, LocksTypes
<1>2. \A m \in {"R", "W"} : l \notin Has(t) => t \notin Wants(locks[l], m)
  BY DEF LocksInv, WantsInv, Has
<1>3. CASE l \in Has(t) \ kept
  <2>1. Released(t, kept)[l] = Leave(locks[l], t)
    BY <1>3 DEF Released
  <2>2. Leave(locks[l], t) \in LocksOf(Callers)
    BY <1>1, LeaveType
  <2>3. Exclusive(Leave(locks[l], t))
    BY <1>1, LeaveFacts
  <2>4. /\ Orderly(Leave(locks[l], t)) /\ QueueFrom(Leave(locks[l], t), locks[l])
        /\ \A m \in {"R", "W"} : Wants(Leave(locks[l], t), m) = Wants(locks[l], m) \ {t}
    BY <1>1, LeaveOrderly
  <2> QED BY <1>3, <2>1, <2>2, <2>3, <2>4
<1>4. CASE l \notin Has(t) \ kept
  <2>1. Released(t, kept)[l] = locks[l]
    BY <1>4 DEF Released
  <2>2. QueueFrom(locks[l], locks[l])
    BY DEF QueueFrom
  <2>3. \A m \in {"R", "W"} : l \notin kept => Wants(locks[l], m) = Wants(locks[l], m) \ {t}
    BY <1>2, <1>4
  <2> QED BY <1>1, <2>1, <2>2, <2>3
<1> QED BY <1>3, <1>4

\* Asking for the lock of a place that may come next.
LEMMA AskStep ==
  ASSUME LocksInv, NEW t \in Callers, place[t] = "idle" \/ Granted(t),
         NEW p \in Places \ {"idle"}, Ask(t, p)
  PROVE  LocksInv'
<1> DEFINE lock == At[p].lock
           mode == At[p].mode
           kept == At[p].holding
<1>1. lock \in LockNames /\ mode \in {"R", "W"} /\ lock \notin kept
  <2>1. p \in DOMAIN At
    BY DEF Places
  <2> QED BY <2>1, AllPlacesOK DEF PlacesOK, PlaceOK
<1>2. place \in [Callers -> Places \cup {"idle"}] /\ DOMAIN locks = LockNames
  BY DEF LocksInv, LocksTypes
<1>3. place' = [place EXCEPT ![t] = p] /\ place'[t] = p /\ \A u \in Callers \ {t} : place'[u] = place[u]
  BY <1>2 DEF Ask
<1>4. place' \in [Callers -> Places \cup {"idle"}]
  BY <1>2, <1>3
<1>5. /\ locks' = [Released(t, kept) EXCEPT ![lock] = Request(@, t, mode)]
      /\ DOMAIN Released(t, kept) = LockNames
  BY DEF Ask, Released
<1>6. /\ locks' \in [LockNames -> {locks'[l] : l \in LockNames}]
      /\ locks'[lock] = Request(Released(t, kept)[lock], t, mode)
      /\ \A l \in LockNames \ {lock} : locks'[l] = Released(t, kept)[l]
  BY <1>1, <1>5
<1> DEFINE K(l) == Released(t, kept)[l]
<1>7. \A l \in LockNames : /\ K(l) \in LocksOf(Callers) /\ Exclusive(K(l)) /\ Orderly(K(l))
                           /\ QueueFrom(K(l), locks[l])
  BY ReleasedFacts
<1>8. \A l \in LockNames : \A m \in {"R", "W"} :
        /\ l \in kept => Wants(K(l), m) = Wants(locks[l], m)
        /\ l \notin kept => Wants(K(l), m) = Wants(locks[l], m) \ {t}
  BY ReleasedFacts
<1> HIDE DEF lock, mode, kept, K
<1>9. \A m \in {"R", "W"} : t \notin Wants(K(lock), m)
  BY <1>1, <1>8
<1>10. /\ Request(K(lock), t, mode) \in LocksOf(Callers)
       /\ Exclusive(Request(K(lock), t, mode)) /\ Orderly(Request(K(lock), t, mode))
       /\ \A i \in 1..Len(Request(K(lock), t, mode).queue) :
            \/ Request(K(lock), t, mode).queue[i].task = t
            \/ \E j \in 1..Len(K(lock).queue) : Request(K(lock), t, mode).queue[i] = K(lock).queue[j]
       /\ \A m \in {"R", "W"} :
            Wants(Request(K(lock), t, mode), m) = Wants(K(lock), m) \cup (IF m = mode THEN {t} ELSE {})
  <2>1. Request(K(lock), t, mode) \in LocksOf(Callers)
    BY <1>1, <1>7, RequestType
  <2>2. Exclusive(Request(K(lock), t, mode))
    BY <1>1, <1>7, RequestFacts
  <2>3. t \notin Wants(K(lock), "R") \cup Wants(K(lock), "W")
    BY <1>9
  <2>4. K(lock) \in LocksOf(Callers) /\ Orderly(K(lock))
    BY <1>1, <1>7
  <2>5. /\ Orderly(Request(K(lock), t, mode))
        /\ \A i \in 1..Len(Request(K(lock), t, mode).queue) :
             \/ Request(K(lock), t, mode).queue[i].task = t
             \/ \E j \in 1..Len(K(lock).queue) : Request(K(lock), t, mode).queue[i] = K(lock).queue[j]
    BY <1>1, <2>3, <2>4, RequestOrderly
  <2>6. \A m \in {"R", "W"} :
          Wants(Request(K(lock), t, mode), m) = Wants(K(lock), m) \cup (IF m = mode THEN {t} ELSE {})
    BY <1>1, <2>4, RequestWants
  <2> QED BY <2>1, <2>2, <2>5, <2>6
<1>11. locks'[lock] = Request(K(lock), t, mode) /\ \A l \in LockNames \ {lock} : locks'[l] = K(l)
  BY <1>6 DEF K
<1>12. locks' \in [LockNames -> LocksOf(Callers)]
  BY <1>6, <1>7, <1>10, <1>11
<1>13. \A l \in LockNames : Exclusive(locks'[l]) /\ Orderly(locks'[l])
  BY <1>7, <1>10, <1>11
<1>14. \A l \in LockNames : \A m \in {"R", "W"} : \A u \in Wants(locks'[l], m) :
         \/ u \in Wants(locks[l], m) /\ (u = t => l \in kept)
         \/ u = t /\ l = lock /\ m = mode
  BY <1>8, <1>10, <1>11
<1>15. WantsInv'
  <2> SUFFICES ASSUME NEW l \in LockNames, NEW m \in {"R", "W"}, NEW u \in Wants(locks'[l], m)
               PROVE  /\ place'[u] # "idle"
                      /\ \/ l \in At[place'[u]].holding
                         \/ l = At[place'[u]].lock /\ m = At[place'[u]].mode
    BY DEF WantsInv
  <2>1. u \in Callers
    BY <1>12, WantsTyped
  <2>2. CASE u = t
    BY <1>3, <1>14, <2>2 DEF lock, mode, kept
  <2>3. CASE u # t
    <3>1. u \in Wants(locks[l], m) /\ place'[u] = place[u]
      BY <1>3, <1>14, <2>1, <2>3
    <3> QED BY <3>1 DEF LocksInv, WantsInv
  <2> QED BY <2>2, <2>3
<1>16. ASSUME NEW l \in LockNames, NEW i \in 1..Len(locks'[l].queue)
       PROVE  \/ locks'[l].queue[i].task = t /\ l = lock
              \/ \E j \in 1..Len(locks[l].queue) : locks'[l].queue[i] = locks[l].queue[j]
  <2>1. \A j \in 1..Len(K(l).queue) : \E k \in 1..Len(locks[l].queue) : K(l).queue[j] = locks[l].queue[k]
    BY <1>7 DEF QueueFrom
  <2>2. CASE l = lock
    <3>1. locks'[l] = Request(K(lock), t, mode)
      BY <1>11, <2>2
    <3>2. \/ locks'[l].queue[i].task = t
          \/ \E j \in 1..Len(K(lock).queue) : locks'[l].queue[i] = K(lock).queue[j]
      BY <1>10, <1>16, <3>1
    <3> QED BY <2>1, <2>2, <3>2
  <2>3. CASE l # lock
    BY <1>11, <1>16, <2>1, <2>3
  <2> QED BY <2>2, <2>3
<1>17. WaitsInv'
  <2> SUFFICES ASSUME NEW l \in LockNames, NEW i \in 1..Len(locks'[l].queue)
               PROVE  LET u == locks'[l].queue[i].task
                      IN  place'[u] # "idle" /\ l = At[place'[u]].lock
    BY DEF WaitsInv
  <2> DEFINE u == locks'[l].queue[i].task
  <2>1. CASE u = t /\ l = lock
    BY <1>3, <2>1 DEF lock
  <2>2. CASE \E j \in 1..Len(locks[l].queue) : locks'[l].queue[i] = locks[l].queue[j]
    <3>1. PICK j \in 1..Len(locks[l].queue) : locks'[l].queue[i] = locks[l].queue[j]
      BY <2>2
    <3>2. u # t
      BY <3>1, NotWaiting
    <3>3. u \in Callers
      BY <1>12, QueuedTyped
    <3>4. place'[u] = place[u]
      BY <1>3, <3>2, <3>3
    <3>5. place[u] # "idle" /\ l = At[place[u]].lock
      BY <3>1 DEF LocksInv, WaitsInv
    <3> QED BY <3>4, <3>5
  <2> QED BY <1>16, <2>1, <2>2
<1> QED BY <1>4, <1>12, <1>13, <1>15, <1>17 DEF LocksInv, LocksTypes

LEMMA ReturnStep ==
  ASSUME LocksInv, NEW t \in Callers, Granted(t), ReturnFrom(t)
  PROVE  LocksInv'
<1>1. place \in [Callers -> Places \cup {"idle"}]
  BY DEF LocksInv, LocksTypes
<1>2. place' = [place EXCEPT ![t] = "idle"] /\ \A u \in Callers \ {t} : place'[u] = place[u]
  BY <1>1 DEF ReturnFrom
<1>3. \A l \in LockNames : locks'[l] = Released(t, {})[l]
  BY DEF ReturnFrom
<1>4. locks' \in [LockNames -> {locks'[l] : l \in LockNames}]
  BY DEF ReturnFrom, Released
<1>5. \A l \in LockNames : /\ locks'[l] \in LocksOf(Callers) /\ Exclusive(locks'[l])
                           /\ Orderly(locks'[l]) /\ QueueFrom(locks'[l], locks[l])
  BY <1>3, ReleasedFacts
<1>6. \A l \in LockNames : \A m \in {"R", "W"} : Wants(locks'[l], m) = Wants(locks[l], m) \ {t}
  <2> TAKE l \in LockNames
  <2>1. \A m \in {"R", "W"} :
          Wants(Released(t, {})[l], m)
            = Wants(locks[l], m) \ {t}
    BY ReleasedFacts
  <2> QED BY <1>3, <2>1
<1>7. LocksTypes'
  BY <1>1, <1>2, <1>4, <1>5 DEF LocksTypes
<1>8. WantsInv'
  <2> SUFFICES ASSUME NEW l \in LockNames, NEW m \in {"R", "W"}, NEW u \in Wants(locks'[l], m)
               PROVE  /\ place'[u] # "idle"
                      /\ \/ l \in At[place'[u]].holding
                         \/ l = At[place'[u]].lock /\ m = At[place'[u]].mode
    BY DEF WantsInv
  <2>1. u \in Callers /\ u \in Wants(locks[l], m) /\ u # t
    BY <1>5, <1>6, WantsTyped
  <2> QED BY <1>2, <2>1 DEF LocksInv, WantsInv
<1>9. WaitsInv'
  <2> SUFFICES ASSUME NEW l \in LockNames, NEW i \in 1..Len(locks'[l].queue)
               PROVE  LET u == locks'[l].queue[i].task
                      IN  place'[u] # "idle" /\ l = At[place'[u]].lock
    BY DEF WaitsInv
  <2>1. PICK j \in 1..Len(locks[l].queue) : locks'[l].queue[i] = locks[l].queue[j]
    BY <1>5 DEF QueueFrom
  <2> DEFINE u == locks'[l].queue[i].task
  <2>2. u # t
    BY <2>1, NotWaiting
  <2>3. u \in Callers
    BY <1>5, QueuedTyped
  <2> QED BY <1>2, <2>1, <2>2, <2>3 DEF LocksInv, WaitsInv
<1> QED BY <1>5, <1>7, <1>8, <1>9 DEF LocksInv

LEMMA LocksInvNext == LocksInv /\ [LocksNext]_lockVars => LocksInv'
<1> SUFFICES ASSUME LocksInv, [LocksNext]_lockVars PROVE LocksInv'
  OBVIOUS
<1>1. ASSUME NEW t \in Callers, Call(t) PROVE LocksInv'
  <2>1. PICK p \in Calls(t) : Ask(t, p)
    BY <1>1 DEF Call
  <2>2. p \in Places \ {"idle"} /\ place[t] = "idle"
    BY <1>1, CallsArePlaces DEF Call
  <2> QED BY <1>1, <2>1, <2>2, AskStep
<1>2. ASSUME NEW t \in Callers, Advance(t) PROVE LocksInv'
  <2>1. /\ place[t] # "idle" /\ Granted(t)
        /\ \E p \in At[place[t]].next : IF p = "idle" THEN ReturnFrom(t) ELSE Ask(t, p)
    BY <1>2 DEF Advance
  <2>2. place[t] \in Places
    BY <2>1 DEF LocksInv, LocksTypes
  <2>3. At[place[t]].next \subseteq Places \cup {"idle"}
    BY <2>2, AllPlacesOK DEF PlacesOK, Places
  <2>4. PICK p \in Places \cup {"idle"} : IF p = "idle" THEN ReturnFrom(t) ELSE Ask(t, p)
    BY <2>1, <2>3
  <2>5. CASE p = "idle"
    BY <1>2, <2>1, <2>4, <2>5, ReturnStep
  <2>6. CASE p # "idle"
    <3>1. Ask(t, p) /\ p \in Places \ {"idle"}
      BY <2>4, <2>6
    <3> QED BY <1>2, <2>1, <3>1, AskStep
  <2> QED BY <2>5, <2>6
<1>3. CASE UNCHANGED lockVars
  BY <1>3 DEF LocksInv, LocksTypes, WantsInv, WaitsInv, lockVars
<1> QED BY <1>1, <1>2, <1>3 DEF LocksNext

LEMMA LocksInvariant == LocksSpec => []LocksInv
<1> QED BY LocksInvInit, LocksInvNext, PTL DEF LocksSpec

\* Every lock of the DAG is had by one writer or by readers, and only tasks whose place
\* says so have it or wait for it: nobody keeps a lock after its call, or waits for two.
THEOREM LocksTypeCorrect == LocksSpec => []LocksTypeOK
<1>1. LocksInv => LocksTypeOK
  <2> SUFFICES ASSUME LocksInv PROVE LocksTypeOK
    OBVIOUS
  <2>1. place \in [Callers -> Places \cup {"idle"}] /\ \A l \in LockNames : Exclusive(locks[l])
    BY DEF LocksInv, LocksTypes
  <2>2. \A l \in LockNames : locks[l] \in LocksOf(Callers)
    BY DEF LocksInv, LocksTypes
  <2>3. ASSUME NEW l \in LockNames, NEW t \in locks[l].readers \cup locks[l].writers
        PROVE  t \in Callers /\ place[t] # "idle" /\ l \in At[place[t]].holding \cup {At[place[t]].lock}
    <3>1. PICK m \in {"R", "W"} : t \in Wants(locks[l], m)
      BY <2>3 DEF Wants
    <3>2. t \in Callers
      BY <2>2, <3>1, WantsTyped
    <3> QED BY <3>1, <3>2 DEF LocksInv, WantsInv
  <2>4. ASSUME NEW l \in LockNames, NEW i \in DOMAIN locks[l].queue
        PROVE  LET t == locks[l].queue[i].task
               IN  t \in Callers /\ place[t] # "idle" /\ l = At[place[t]].lock
    <3>1. i \in 1..Len(locks[l].queue)
      BY <2>2 DEF LocksOf, Waiters
    <3>2. locks[l].queue[i].task \in Callers
      BY <2>2, <3>1, QueuedTyped
    <3> QED BY <3>1, <3>2 DEF LocksInv, WaitsInv
  <2> QED BY <2>1, <2>3, <2>4 DEF LocksTypeOK
<1> QED BY <1>1, LocksInvariant, PTL

\* However many tasks call add_block, get_stats and the queries: as long as nobody is at
\* one of the two places that ask out of order, some task can go on.
THEOREM OnlyOutOfOrderDeadlocks == LocksSpec => []DeadlockNeedsOutOfOrder
<1>1. LocksInv => DeadlockNeedsOutOfOrder
  <2> SUFFICES ASSUME LocksInv, NEW S \in SUBSET Callers, Deadlocked(S),
                      \A t \in S : place[t] \notin OutOfOrder
               PROVE  FALSE
    BY DEF DeadlockNeedsOutOfOrder
  <2> DEFINE Awaited(t) == At[place[t]].lock
  <2>1. \A t \in S : place[t] \in Places /\ ~ Granted(t)
    BY DEF Deadlocked, WaitsFor, LocksInv, LocksTypes
  <2>2. \A t \in S : /\ Awaited(t) \in LockNames /\ At[place[t]].mode \in {"R", "W"}
                     /\ At[place[t]].holding \subseteq LockNames
                     /\ \A l \in At[place[t]].holding : Rank[l] < Rank[Awaited(t)]
    BY <2>1, AllPlacesOK DEF PlacesOK, PlaceOK, Places
  <2>3. \A l \in LockNames : Rank[l] \in 1..14
    BY DEF LockNames, Rank
  \* t waits for the lock of the highest rank.
  <2>4. PICK t \in S : \A u \in S : Rank[Awaited(u)] <= Rank[Awaited(t)]
    <3> DEFINE D == {14 - Rank[Awaited(u)] : u \in S}
    <3>1. \A u \in S : Rank[Awaited(u)] \in 1..14
      BY <2>2, <2>3
    <3> HIDE DEF Awaited
    <3>2. D \subseteq Nat
      BY <3>1
    <3>3. D # {}
      BY DEF Deadlocked
    <3>4. PICK d \in D : \A e \in D : d <= e
      <4> HIDE DEF D
      <4> QED BY <3>2, <3>3, LeastNumber
    <3>5. PICK t \in S : d = 14 - Rank[Awaited(t)]
      BY <3>4
    <3>6. \A u \in S : d <= 14 - Rank[Awaited(u)]
      BY <3>4
    <3>7. \A u \in S : Rank[Awaited(u)] <= Rank[Awaited(t)]
      BY <3>1, <3>5, <3>6
    <3> QED BY <3>7
  <2> DEFINE l == Awaited(t)
             q == locks[l].queue
  <2>5. l \in LockNames
    BY <2>2
  \* Nobody in S has that lock: it would wait for a lock of a higher rank, or be granted.
  <2>6. ASSUME NEW u \in S, Holds(u, l) PROVE FALSE
    <3>1. PICK m \in {"R", "W"} :
            /\ u \in Wants(locks[l], m)
            /\ IF m = "R" THEN Reads(locks[l], u) ELSE Writes(locks[l], u)
      BY <2>6 DEF Holds, Wants, Reads, Writes
    <3>2. \/ l \in At[place[u]].holding
          \/ l = Awaited(u) /\ m = At[place[u]].mode
      BY <2>5, <3>1 DEF LocksInv, WantsInv
    <3>3. CASE l \in At[place[u]].holding
      <4>1. Rank[l] < Rank[Awaited(u)] /\ Rank[Awaited(u)] <= Rank[l]
        BY <2>2, <2>4, <3>3
      <4>2. Rank[l] \in 1..14 /\ Rank[Awaited(u)] \in 1..14
        BY <2>2, <2>3, <2>5
      <4> QED BY <4>1, <4>2
    <3>4. CASE l = Awaited(u) /\ m = At[place[u]].mode
      BY <2>1, <3>1, <3>4 DEF Granted
    <3> QED BY <3>2, <3>3, <3>4
  \* So whoever in S waits for it waits behind another of S.
  <2>7. \A u \in S : Awaited(u) = l => \E v \in S : QueuedBefore(v, u, l)
    BY <2>6 DEF Deadlocked, WaitsFor
  <2>8. q \in Seq(Waiter(Callers)) /\ Len(q) \in Nat /\ DOMAIN q = 1..Len(q)
    BY <2>5 DEF LocksInv, LocksTypes, LocksOf, Waiters
  <2> DEFINE Positions == {i \in 1..Len(q) : q[i].task \in S}
  <2>9. ASSUME NEW v \in S, NEW u, QueuedBefore(v, u, l)
        PROVE  \E i \in Positions : \E j \in 1..Len(q) : i < j /\ q[i].task = v /\ q[j].task = u
    BY <2>8, <2>9 DEF QueuedBefore
  <2>10. Positions # {} /\ Positions \subseteq Nat
    <3>1. PICK v \in S : QueuedBefore(v, t, l)
      BY <2>7
    <3>2. Positions # {}
      <4> HIDE DEF Positions
      <4> QED BY <2>9, <3>1
    <3>3. Positions \subseteq 1..Len(q)
      OBVIOUS
    <3>4. 1..Len(q) \subseteq Nat
      OBVIOUS
    <3> HIDE DEF Positions, q
    <3> QED BY <3>2, <3>3, <3>4
  <2>11. PICK i \in Positions : \A j \in Positions : i <= j
    <3> HIDE DEF Positions
    <3> QED BY <2>10, LeastNumber
  <2>12. i \in 1..Len(q) /\ q[i].task \in S
    OBVIOUS
  <2>13. Awaited(q[i].task) = l
    BY <2>5, <2>12 DEF LocksInv, WaitsInv
  <2>14. PICK v \in S : QueuedBefore(v, q[i].task, l)
    BY <2>7, <2>12, <2>13
  <2>15. PICK k \in Positions, j \in 1..Len(q) : k < j /\ q[j].task = q[i].task
    <3> HIDE DEF Positions, l, q
    <3> QED BY <2>9, <2>14
  <2>16. j = i
    BY <2>5, <2>12, <2>15 DEF LocksInv, Orderly
  <2>17. i \in Nat /\ k \in Nat
    BY <2>8
  <2>18. k < i /\ i <= k
    BY <2>11, <2>15, <2>16
  <2> QED BY <2>17, <2>18
<1> QED BY <1>1, LocksInvariant, PTL
====================================================================================
