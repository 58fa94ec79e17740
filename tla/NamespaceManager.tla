----------------------------- MODULE NamespaceManager -----------------------------
(***********************************************************************************)
(* NamespaceManager (namespace_manager.rs): who owns which namespace path.  A      *)
(* registration looks the path up, submits a block to the consensus DAG, if there  *)
(* is one, and stores its claim; a deletion verifies the owner, submits a block    *)
(* and removes what is stored.  The lock of the claims is free in between, and a   *)
(* block is named after the first bytes of its owner's key, not after the path.    *)
(***********************************************************************************)
EXTENDS Naturals, FiniteSets, Maps

CONSTANTS
  Paths, SystemPaths,  \* those that initialize registers among them
  Owners, System,      \* keys; the server's own
  Tasks,
  Never, NoBlock,      \* the claim does not expire; it went through no consensus
  MaxCalls, MaxTime    \* bounds

ASSUME PathsAssumption == SystemPaths \subseteq Paths /\ IsFiniteSet(SystemPaths) /\ System \notin Owners
ASSUME BoundsAssumption == MaxCalls \in Nat /\ MaxTime \in Nat /\ Never \notin Nat

VARIABLES
  consensus,           \* whether the manager was built with_consensus
  claims,              \* path -> claim
  blocks,              \* the DAG as the manager sees it: block id -> operation
  now,
  pc, call,
  calls,
  steps                \* history: numbers checks, blocks and claims in their order

vars == <<consensus, claims, blocks, now, pc, call, calls, steps>>

Keys == Owners \cup {System}

Times == 0..MaxTime

NoCall == [op |-> "none"]

\* format!("ns_{}", owner) and format!("del_{}", owner).
BlockId(kind, owner) == <<kind, owner>>

BlockIds == {BlockId(kind, o) : kind \in {"ns", "del"}, o \in Keys}

\* register_system_namespaces, before the server accepts connections: SystemPaths in
\* some order.
Init ==
  /\ consensus \in BOOLEAN
  /\ \E order \in Bijection(SystemPaths, 1..Cardinality(SystemPaths)) :
       /\ claims = [p \in SystemPaths |->
                      [owner |-> System, expires_at |-> Never, no |-> order[p], block |-> order[p],
                       consensus_block_id |-> IF consensus THEN BlockId("ns", System) ELSE NoBlock]]
       /\ blocks = [id \in {BlockId("ns", System) : p \in IF consensus THEN SystemPaths ELSE {}} |->
                      [op |-> "register", no |-> Cardinality(SystemPaths),
                       path |-> CHOOSE p \in SystemPaths : order[p] = Cardinality(SystemPaths)]]
  /\ now = 0
  /\ pc = [t \in Tasks |-> "idle"]
  /\ call = [t \in Tasks |-> NoCall]
  /\ calls = 0
  /\ steps = Cardinality(SystemPaths)

-----------------------------------------------------------------------------------
Expired(claim) == claim.expires_at # Never /\ now > claim.expires_at

\* Mutation: whoever calls is taken for the owner.
Verified_Anyone(p, owner) == p \in DOMAIN claims /\ ~ Expired(claims[p])

\* verify_namespace
Verified(p, owner) == p \in DOMAIN claims /\ ~ Expired(claims[p]) /\ claims[p].owner = owner

Begin(t, c, place) ==
  /\ pc[t] = "idle" /\ calls < MaxCalls
  /\ calls' = calls + 1
  /\ steps' = steps + 1
  /\ pc' = [pc EXCEPT ![t] = place]
  /\ call' = [call EXCEPT ![t] = c]

Finish(t) == pc' = [pc EXCEPT ![t] = "idle"] /\ call' = [call EXCEPT ![t] = NoCall]

AfterCheck == IF consensus THEN "submit" ELSE "store"

\* register_namespace and delete_namespace, or the write to the file delete: the check.
\* An expired claim still keeps its path, and nobody may delete it any more.  (The file
\* register checks a signature and registers nothing.)
Register(t) ==
  /\ \E p \in Paths, o \in Keys, e \in Times \cup {Never} :
       /\ p \notin DOMAIN claims
       /\ Begin(t, [op |-> "register", path |-> p, owner |-> o, expires_at |-> e,
                    at |-> steps + 1, block |-> 0], AfterCheck)
  /\ UNCHANGED <<consensus, claims, blocks, now>>

Delete(t) ==
  /\ \E p \in Paths, o \in Keys :
       /\ Verified(p, o)
       /\ Begin(t, [op |-> "delete", path |-> p, owner |-> o, time |-> now,
                    at |-> steps + 1, block |-> 0], AfterCheck)
  /\ UNCHANGED <<consensus, claims, blocks, now>>

\* Mutation: registrations and deletions of an owner share one id.
SubmittedId_Shared(c) == BlockId("ns", c.owner)

SubmittedId(c) == BlockId(IF c.op = "register" THEN "ns" ELSE "del", c.owner)

\* add_block inserts the block, in place of the owner's earlier one ...
Submit(t) ==
  /\ pc[t] = "submit"
  /\ blocks' = Put(blocks, SubmittedId(call[t]), [op |-> call[t].op, path |-> call[t].path, no |-> steps + 1])
  /\ steps' = steps + 1
  /\ pc' = [pc EXCEPT ![t] = "store"]
  /\ call' = [call EXCEPT ![t].block = steps + 1]
  /\ UNCHANGED <<consensus, claims, now, calls>>

\* ... or refuses it, when the clock has been set back, and the call fails.
Refused(t) ==
  /\ pc[t] = "submit"
  /\ Finish(t)
  /\ UNCHANGED <<consensus, claims, blocks, now, calls, steps>>

\* Mutation: the claim does not name its block.
Claim_Unconfirmed(c) ==
  [owner |-> c.owner, expires_at |-> c.expires_at, no |-> steps + 1, block |-> c.block,
   consensus_block_id |-> NoBlock]

Claim(c) ==
  [owner |-> c.owner, expires_at |-> c.expires_at, no |-> steps + 1, block |-> c.block,
   consensus_block_id |-> IF consensus THEN SubmittedId(c) ELSE NoBlock]

\* The claim is stored, whoever has stored another one meanwhile.
Store(t) ==
  /\ pc[t] = "store" /\ call[t].op = "register"
  /\ claims' = Put(claims, call[t].path, Claim(call[t]))
  /\ steps' = steps + 1
  /\ Finish(t)
  /\ UNCHANGED <<consensus, blocks, now, calls>>

\* Whatever claim the path has by now is removed.
Remove(t) ==
  /\ pc[t] = "store" /\ call[t].op = "delete"
  /\ claims' = Without(claims, call[t].path)
  /\ Finish(t)
  /\ UNCHANGED <<consensus, blocks, now, calls, steps>>

Tick == now < MaxTime /\ now' = now + 1 /\ UNCHANGED <<consensus, claims, blocks, pc, call, calls, steps>>

Next ==
  \/ \E t \in Tasks : Register(t) \/ Delete(t) \/ Submit(t) \/ Refused(t) \/ Store(t) \/ Remove(t)
  \/ Tick

Spec == Init /\ [][Next]_vars

-----------------------------------------------------------------------------------
(***********************************************************************************)
(* Properties.                                                                     *)
(***********************************************************************************)
RegisterCalls ==
  [op : {"register"}, path : Paths, owner : Keys, expires_at : Times \cup {Never}, at : Nat, block : Nat]

DeleteCalls ==
  [op : {"delete"}, path : Paths, owner : Keys, time : Nat, at : Nat, block : Nat]

\* Type invariant; with a consensus every claim names the block of its owner.
TypeOK ==
  /\ consensus \in BOOLEAN
  /\ DOMAIN claims \subseteq Paths
  /\ claims \in [DOMAIN claims ->
       [owner : Keys, expires_at : Times \cup {Never}, no : Nat, block : Nat,
        consensus_block_id : BlockIds \cup {NoBlock}]]
  /\ \A p \in DOMAIN claims :
       claims[p].consensus_block_id = IF consensus THEN BlockId("ns", claims[p].owner) ELSE NoBlock
  /\ DOMAIN blocks \subseteq BlockIds
  /\ blocks \in [DOMAIN blocks -> [op : {"register", "delete"}, path : Paths, no : Nat]]
  /\ now \in Nat /\ steps \in Nat /\ calls \in Nat
  /\ pc \in [Tasks -> {"idle", "submit", "store"}]
  /\ call \in [Tasks -> RegisterCalls \cup DeleteCalls \cup {NoCall}]
  /\ \A t \in Tasks : call[t] = NoCall <=> pc[t] = "idle"

\* A claim that has been stored is replaced or removed only by its owner, by a deletion
\* that found it unexpired, or by a call that had looked at the path before it was stored.
Honoured(p, t) ==
  /\ pc[t] = "store" /\ pc'[t] = "idle" /\ call[t].path = p
  /\ \/ claims[p].no > call[t].at
     \/ /\ call[t].op = "delete" /\ call[t].owner = claims[p].owner
        /\ claims[p].expires_at = Never \/ call[t].time <= claims[p].expires_at

ClaimsHonoured ==
  [][\A p \in DOMAIN claims :
       \/ p \in DOMAIN claims' /\ claims'[p] = claims[p]
       \/ \E t \in Tasks : Honoured(p, t)]_vars

\* The block that a claim names is a registration, and that of the claim unless its owner
\* has submitted another one since, which took its place.
ClaimsInLog ==
  consensus => \A p \in DOMAIN claims :
    LET id == claims[p].consensus_block_id
    IN  /\ id \in DOMAIN blocks /\ blocks[id].op = "register"
        /\ blocks[id].no > claims[p].block \/ blocks[id].path = p
===================================================================================
