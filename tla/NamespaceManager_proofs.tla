------------------------- MODULE NamespaceManager_proofs -------------------------
(***********************************************************************************)
(* Proofs about NamespaceManager for any paths, owners, tasks and bounds.          *)
(***********************************************************************************)
EXTENDS NamespaceManager, FiniteSetTheorems, TLAPS

\* Inserting into a map and removing from it keep the type of its values.
LEMMA PutType ==
  ASSUME NEW f, NEW k, NEW v, NEW T, f \in [DOMAIN f -> T], v \in T
  PROVE  Put(f, k, v) \in [DOMAIN Put(f, k, v) -> T]
BY DEF Put

LEMMA WithoutType ==
  ASSUME NEW f, NEW k, NEW T, f \in [DOMAIN f -> T]
  PROVE  Without(f, k) \in [DOMAIN Without(f, k) -> T]
BY DEF Without, Restrict

-----------------------------------------------------------------------------------
\* The claims that initialize makes are numbered by their order.
LEMMA SystemClaims ==
  ASSUME NEW order \in Bijection(SystemPaths, 1..Cardinality(SystemPaths))
  PROVE  /\ Cardinality(SystemPaths) \in Nat
         /\ order \in [SystemPaths -> 1..Cardinality(SystemPaths)]
         /\ SystemPaths # {} => \E p \in SystemPaths : order[p] = Cardinality(SystemPaths)
<1>1. Cardinality(SystemPaths) \in Nat
  BY FS_CardinalityType, PathsAssumption
<1>2. order \in Surjection(SystemPaths, 1..Cardinality(SystemPaths))
  BY DEF Bijection
<1>3. SystemPaths # {} => Cardinality(SystemPaths) # 0
  BY FS_EmptySet, PathsAssumption
<1> QED BY <1>1, <1>2, <1>3 DEF Surjection

LEMMA TypeInit == Init => TypeOK
<1> SUFFICES ASSUME Init PROVE TypeOK
  OBVIOUS
<1>1. PICK order \in Bijection(SystemPaths, 1..Cardinality(SystemPaths)) :
        /\ claims = [p \in SystemPaths |->
                       [owner |-> System, expires_at |-> Never, no |-> order[p], block |-> order[p],
                        consensus_block_id |-> IF consensus THEN BlockId("ns", System) ELSE NoBlock]]
        /\ blocks = [id \in {BlockId("ns", System) : p \in IF consensus THEN SystemPaths ELSE {}} |->
                       [op |-> "register", no |-> Cardinality(SystemPaths),
                        path |-> CHOOSE p \in SystemPaths : order[p] = Cardinality(SystemPaths)]]
  BY DEF Init
<1>2. /\ Cardinality(SystemPaths) \in Nat
      /\ order \in [SystemPaths -> 1..Cardinality(SystemPaths)]
      /\ SystemPaths # {} => \E p \in SystemPaths : order[p] = Cardinality(SystemPaths)
  BY SystemClaims
<1>3. System \in Keys /\ BlockId("ns", System) \in BlockIds
  BY DEF Keys, BlockIds
<1>4. SystemPaths # {} => (CHOOSE p \in SystemPaths : order[p] = Cardinality(SystemPaths)) \in Paths
  BY <1>2, PathsAssumption
<1>5. /\ DOMAIN claims = SystemPaths
      /\ claims \in [DOMAIN claims ->
           [owner : Keys, expires_at : Times \cup {Never}, no : Nat, block : Nat,
            consensus_block_id : BlockIds \cup {NoBlock}]]
      /\ \A p \in DOMAIN claims :
           claims[p].consensus_block_id = IF consensus THEN BlockId("ns", claims[p].owner) ELSE NoBlock
  BY <1>1, <1>2, <1>3
<1>6. DOMAIN blocks \subseteq BlockIds /\ (DOMAIN blocks # {} => SystemPaths # {})
  BY <1>1, <1>3
<1>7. blocks \in [DOMAIN blocks -> [op : {"register", "delete"}, path : Paths, no : Nat]]
  BY <1>1, <1>2, <1>4
<1> QED BY <1>2, <1>5, <1>6, <1>7, PathsAssumption DEF Init, TypeOK

CallTypes == RegisterCalls \cup DeleteCalls

LEMMA TypeStep == TypeOK /\ [Next]_vars => TypeOK'
<1> SUFFICES ASSUME TypeOK, [Next]_vars PROVE TypeOK'
  OBVIOUS
<1> USE DEF TypeOK
<1>1. ASSUME NEW t \in Tasks, Register(t) PROVE TypeOK'
  <2>1. PICK p \in Paths, o \in Keys, e \in Times \cup {Never} :
          Begin(t, [op |-> "register", path |-> p, owner |-> o, expires_at |-> e,
                    at |-> steps + 1, block |-> 0], AfterCheck)
    BY <1>1 DEF Register
  <2>2. [op |-> "register", path |-> p, owner |-> o, expires_at |-> e,
         at |-> steps + 1, block |-> 0] \in RegisterCalls
    BY DEF RegisterCalls
  <2>3. AfterCheck \in {"submit", "store"}
    BY DEF AfterCheck
  <2>4. [op |-> "register", path |-> p, owner |-> o, expires_at |-> e,
         at |-> steps + 1, block |-> 0] # NoCall
    BY DEF NoCall
  <2> QED BY <1>1, <2>1, <2>2, <2>3, <2>4 DEF Register, Begin
<1>2. ASSUME NEW t \in Tasks, Delete(t) PROVE TypeOK'
  <2>1. PICK p \in Paths, o \in Keys :
          Begin(t, [op |-> "delete", path |-> p, owner |-> o, time |-> now,
                    at |-> steps + 1, block |-> 0], AfterCheck)
    BY <1>2 DEF Delete
  <2>2. [op |-> "delete", path |-> p, owner |-> o, time |-> now,
         at |-> steps + 1, block |-> 0] \in DeleteCalls
    BY DEF DeleteCalls
  <2>3. AfterCheck \in {"submit", "store"}
    BY DEF AfterCheck
  <2>4. [op |-> "delete", path |-> p, owner |-> o, time |-> now,
         at |-> steps + 1, block |-> 0] # NoCall
    BY DEF NoCall
  <2> QED BY <1>2, <2>1, <2>2, <2>3, <2>4 DEF Delete, Begin
<1>3. ASSUME NEW t \in Tasks, Submit(t) PROVE TypeOK'
  <2>1. call[t] \in CallTypes
    BY <1>3 DEF Submit, CallTypes
  <2>2. /\ [op |-> call[t].op, path |-> call[t].path, no |-> steps + 1]
             \in [op : {"register", "delete"}, path : Paths, no : Nat]
        /\ SubmittedId(call[t]) \in BlockIds
    BY <2>1 DEF CallTypes, RegisterCalls, DeleteCalls, SubmittedId, BlockIds
  <2>3. DOMAIN blocks' \subseteq BlockIds
        /\ blocks' \in [DOMAIN blocks' -> [op : {"register", "delete"}, path : Paths, no : Nat]]
    BY <1>3, <2>2 DEF Submit, Put
  <2>4. [call[t] EXCEPT !.block = steps + 1] \in CallTypes /\ [call[t] EXCEPT !.block = steps + 1] # NoCall
    BY <2>1 DEF CallTypes, RegisterCalls, DeleteCalls, NoCall
  <2> QED BY <1>3, <2>3, <2>4 DEF Submit, CallTypes
<1>4. ASSUME NEW t \in Tasks, Refused(t) PROVE TypeOK'
  BY <1>4 DEF Refused, Finish
<1>5. ASSUME NEW t \in Tasks, Store(t) PROVE TypeOK'
  <2>1. call[t] \in RegisterCalls
    BY <1>5 DEF Store, DeleteCalls, NoCall
  <2>2. /\ Claim(call[t]) \in [owner : Keys, expires_at : Times \cup {Never}, no : Nat, block : Nat,
                               consensus_block_id : BlockIds \cup {NoBlock}]
        /\ Claim(call[t]).consensus_block_id =
             IF consensus THEN BlockId("ns", Claim(call[t]).owner) ELSE NoBlock
    BY <2>1 DEF RegisterCalls, Claim, SubmittedId, BlockIds
  <2>3. /\ DOMAIN claims' = DOMAIN claims \cup {call[t].path}
        /\ claims'[call[t].path] = Claim(call[t])
        /\ \A p \in DOMAIN claims : p # call[t].path => claims'[p] = claims[p]
    BY <1>5 DEF Store, Put
  <2>4. claims' \in [DOMAIN claims' ->
          [owner : Keys, expires_at : Times \cup {Never}, no : Nat, block : Nat,
           consensus_block_id : BlockIds \cup {NoBlock}]]
    BY <1>5, <2>2, PutType DEF Store
  <2>5. call[t].path \in Paths
    BY <2>1 DEF RegisterCalls
  <2> QED BY <1>5, <2>2, <2>3, <2>4, <2>5 DEF Store, Finish
<1>6. ASSUME NEW t \in Tasks, Remove(t) PROVE TypeOK'
  <2>1. /\ DOMAIN claims' = DOMAIN claims \ {call[t].path}
        /\ \A p \in DOMAIN claims : p # call[t].path => claims'[p] = claims[p]
    BY <1>6 DEF Remove, Without, Restrict
  <2>2. claims' \in [DOMAIN claims' ->
          [owner : Keys, expires_at : Times \cup {Never}, no : Nat, block : Nat,
           consensus_block_id : BlockIds \cup {NoBlock}]]
    BY <1>6, WithoutType DEF Remove
  <2> QED BY <1>6, <2>1, <2>2 DEF Remove, Finish
<1>7. CASE Tick
  BY <1>7 DEF Tick
<1>8. CASE UNCHANGED vars
  BY <1>8 DEF vars
<1> QED BY <1>1, <1>2, <1>3, <1>4, <1>5, <1>6, <1>7, <1>8 DEF Next

\* Type correctness: among others, with a consensus every claim names the block of its owner.
THEOREM TypeCorrect == Spec => []TypeOK
BY TypeInit, TypeStep, PTL DEF Spec

-----------------------------------------------------------------------------------
\* What a call that has checked a path knows of the claim the path has by now: it was
\* stored after the check, or it is the one that a deletion has verified.
Known(c) ==
  LET claim == claims[c.path]
  IN  \/ claim.no > c.at
      \/ /\ c.op = "delete" /\ c.owner = claim.owner
         /\ claim.expires_at = Never \/ c.time <= claim.expires_at

CallInv ==
  /\ \A p \in DOMAIN claims : claims[p].no <= steps
  /\ \A t \in Tasks : pc[t] # "idle" =>
       /\ call[t].at <= steps
       /\ call[t].path \in DOMAIN claims => Known(call[t])

LEMMA CallInit == Init => CallInv
<1> SUFFICES ASSUME Init PROVE CallInv
  OBVIOUS
<1>1. PICK order \in Bijection(SystemPaths, 1..Cardinality(SystemPaths)) :
        claims = [p \in SystemPaths |->
                    [owner |-> System, expires_at |-> Never, no |-> order[p], block |-> order[p],
                     consensus_block_id |-> IF consensus THEN BlockId("ns", System) ELSE NoBlock]]
  BY DEF Init
<1>2. order \in [SystemPaths -> 1..Cardinality(SystemPaths)] /\ Cardinality(SystemPaths) \in Nat
  BY SystemClaims
<1>3. \A p \in DOMAIN claims : claims[p].no <= steps
  BY <1>1, <1>2 DEF Init
<1> QED BY <1>3 DEF Init, CallInv

LEMMA CallStep == TypeOK /\ CallInv /\ [Next]_vars => CallInv'
<1> SUFFICES ASSUME TypeOK, CallInv, [Next]_vars PROVE CallInv'
  OBVIOUS
<1>0. /\ \A p \in DOMAIN claims : claims[p].no \in Nat
      /\ \A u \in Tasks : pc[u] # "idle" => call[u].at \in Nat
      /\ steps \in Nat
  <2>1. \A c \in CallTypes : c.at \in Nat
    BY DEF CallTypes, RegisterCalls, DeleteCalls
  <2>2. \A u \in Tasks : pc[u] # "idle" => call[u] \in CallTypes
    BY DEF TypeOK, CallTypes
  <2> QED BY <2>1, <2>2 DEF TypeOK
<1> USE DEF TypeOK, CallInv, Known
<1>1. ASSUME NEW t \in Tasks, Register(t) PROVE CallInv'
  BY <1>0, <1>1 DEF Register, Begin
<1>2. ASSUME NEW t \in Tasks, Delete(t) PROVE CallInv'
  <2>1. PICK p \in Paths, o \in Keys :
          /\ Verified(p, o)
          /\ Begin(t, [op |-> "delete", path |-> p, owner |-> o, time |-> now,
                       at |-> steps + 1, block |-> 0], AfterCheck)
    BY <1>2 DEF Delete
  <2>2. claims[p].owner = o /\ (claims[p].expires_at = Never \/ now <= claims[p].expires_at)
    BY <2>1, BoundsAssumption DEF Verified, Expired, Times
  <2> QED BY <1>0, <1>2, <2>1, <2>2 DEF Delete, Begin
<1>3. ASSUME NEW t \in Tasks, Submit(t) PROVE CallInv'
  <2>1. call[t] \in CallTypes
    BY <1>3 DEF Submit, CallTypes
  <2>2. /\ call'[t].op = call[t].op /\ call'[t].path = call[t].path /\ call'[t].at = call[t].at
        /\ call'[t].owner = call[t].owner /\ call'[t].time = call[t].time
    BY <1>3, <2>1 DEF Submit, CallTypes, RegisterCalls, DeleteCalls
  <2> QED BY <1>0, <1>3, <2>2 DEF Submit
<1>4. ASSUME NEW t \in Tasks, Refused(t) PROVE CallInv'
  BY <1>4 DEF Refused, Finish
<1>5. ASSUME NEW t \in Tasks, Store(t) PROVE CallInv'
  <2>1. /\ DOMAIN claims' = DOMAIN claims \cup {call[t].path}
        /\ claims'[call[t].path].no = steps + 1
        /\ \A p \in DOMAIN claims : p # call[t].path => claims'[p] = claims[p]
    BY <1>5 DEF Store, Put, Claim
  <2>2. \A u \in Tasks : pc'[u] # "idle" => pc[u] # "idle" /\ call'[u] = call[u] /\ call[u].at < steps + 1
    <3> SUFFICES ASSUME NEW u \in Tasks, pc'[u] # "idle"
                 PROVE  pc[u] # "idle" /\ call'[u] = call[u] /\ call[u].at < steps + 1
      OBVIOUS
    <3>1. u # t /\ pc[u] # "idle" /\ call'[u] = call[u]
      BY <1>5 DEF Store, Finish
    <3> QED BY <1>0, <3>1
  <2> QED BY <1>0, <1>5, <2>1, <2>2 DEF Store
<1>6. ASSUME NEW t \in Tasks, Remove(t) PROVE CallInv'
  BY <1>6 DEF Remove, Without, Restrict, Finish
<1>7. CASE Tick
  BY <1>7 DEF Tick
<1>8. CASE UNCHANGED vars
  BY <1>8 DEF vars
<1> QED BY <1>1, <1>2, <1>3, <1>4, <1>5, <1>6, <1>7, <1>8 DEF Next

\* Whoever replaces or removes a claim has a right to, or had looked before it was stored.
LEMMA HonouredStep ==
  TypeOK /\ CallInv /\ [Next]_vars =>
    [\A p \in DOMAIN claims :
       \/ p \in DOMAIN claims' /\ claims'[p] = claims[p]
       \/ \E t \in Tasks : Honoured(p, t)]_vars
<1> SUFFICES ASSUME TypeOK, CallInv, Next, NEW p \in DOMAIN claims,
                    ~ (p \in DOMAIN claims' /\ claims'[p] = claims[p])
             PROVE  \E t \in Tasks : Honoured(p, t)
  BY DEF vars
<1>1. ASSUME NEW t \in Tasks, Store(t) \/ Remove(t) PROVE Honoured(p, t)
  <2>1. p = call[t].path
    BY <1>1 DEF Store, Remove, Put, Without, Restrict
  <2>2. pc[t] = "store" /\ pc'[t] = "idle"
    BY <1>1 DEF Store, Remove, Finish, TypeOK
  <2> QED BY <2>1, <2>2 DEF Honoured, CallInv, Known
<1>2. UNCHANGED claims \/ \E t \in Tasks : Store(t) \/ Remove(t)
  BY DEF Next, Register, Delete, Submit, Refused, Tick
<1> QED BY <1>1, <1>2

\* However registrations and deletions interleave, a stored claim is replaced or removed
\* only by its owner, or by a call that had looked at the path before it was stored.
THEOREM OwnersHonoured == Spec => ClaimsHonoured
<1>1. Spec => [](TypeOK /\ CallInv)
  BY TypeInit, TypeStep, CallInit, CallStep, PTL DEF Spec
<1> QED BY <1>1, HonouredStep, PTL DEF Spec, ClaimsHonoured

-----------------------------------------------------------------------------------
\* The block of an owner's registrations is the last one submitted; a call that has
\* submitted it, and the claim it stores, find it there or a later one in its place.
Logged(o, path, no) ==
  LET id == BlockId("ns", o)
  IN  /\ id \in DOMAIN blocks /\ blocks[id].op = "register"
      /\ blocks[id].no > no \/ blocks[id].path = path

LogInv ==
  consensus =>
    /\ \A p \in DOMAIN claims : Logged(claims[p].owner, p, claims[p].block) /\ claims[p].block <= steps
    /\ \A t \in Tasks : pc[t] = "store" =>
         /\ call[t].block <= steps
         /\ call[t].op = "register" => Logged(call[t].owner, call[t].path, call[t].block)

LEMMA LogInit == Init => LogInv
<1> SUFFICES ASSUME Init, consensus PROVE LogInv
  BY DEF LogInv
<1>1. PICK order \in Bijection(SystemPaths, 1..Cardinality(SystemPaths)) :
        /\ claims = [p \in SystemPaths |->
                       [owner |-> System, expires_at |-> Never, no |-> order[p], block |-> order[p],
                        consensus_block_id |-> IF consensus THEN BlockId("ns", System) ELSE NoBlock]]
        /\ blocks = [id \in {BlockId("ns", System) : p \in IF consensus THEN SystemPaths ELSE {}} |->
                       [op |-> "register", no |-> Cardinality(SystemPaths),
                        path |-> CHOOSE p \in SystemPaths : order[p] = Cardinality(SystemPaths)]]
  BY DEF Init
<1>2. /\ Cardinality(SystemPaths) \in Nat
      /\ order \in [SystemPaths -> 1..Cardinality(SystemPaths)]
      /\ order \in Injection(SystemPaths, 1..Cardinality(SystemPaths))
  BY SystemClaims DEF Bijection
<1>3. ASSUME NEW p \in DOMAIN claims
      PROVE  Logged(claims[p].owner, p, claims[p].block) /\ claims[p].block <= steps
  <2>1. /\ p \in SystemPaths /\ claims[p].owner = System /\ claims[p].block = order[p]
        /\ order[p] \in 1..Cardinality(SystemPaths)
    BY <1>1, <1>2, <1>3
  <2>2. BlockId("ns", System) \in DOMAIN blocks /\ blocks[BlockId("ns", System)].op = "register"
        /\ blocks[BlockId("ns", System)].no = Cardinality(SystemPaths)
        /\ blocks[BlockId("ns", System)].path = CHOOSE q \in SystemPaths : order[q] = Cardinality(SystemPaths)
    BY <1>1, <2>1
  <2>3. order[p] = Cardinality(SystemPaths) =>
          p = CHOOSE q \in SystemPaths : order[q] = Cardinality(SystemPaths)
    BY <1>2, <2>1 DEF Injection, IsInjective
  <2> QED BY <1>2, <2>1, <2>2, <2>3 DEF Logged, Init
<1> QED BY <1>3 DEF Init, LogInv

LEMMA ConsensusKept == [Next]_vars => consensus' = consensus
<1> SUFFICES ASSUME [Next]_vars PROVE consensus' = consensus
  OBVIOUS
<1>1. ASSUME NEW t \in Tasks, Register(t) \/ Delete(t) PROVE consensus' = consensus
  BY <1>1 DEF Register, Delete
<1>2. ASSUME NEW t \in Tasks, Submit(t) \/ Refused(t) \/ Store(t) \/ Remove(t) PROVE consensus' = consensus
  BY <1>2 DEF Submit, Refused, Store, Remove
<1>3. Tick \/ UNCHANGED vars => consensus' = consensus
  BY DEF Tick, vars
<1> QED BY <1>1, <1>2, <1>3 DEF Next

LEMMA LogStep == TypeOK /\ LogInv /\ [Next]_vars => LogInv'
<1> SUFFICES ASSUME TypeOK, LogInv, [Next]_vars, consensus PROVE LogInv'
  BY ConsensusKept DEF LogInv
<1>0. /\ \A p \in DOMAIN claims : claims[p].block \in Nat
      /\ \A u \in Tasks : pc[u] # "idle" => call[u].block \in Nat
      /\ steps \in Nat
  <2>1. \A c \in CallTypes : c.block \in Nat
    BY DEF CallTypes, RegisterCalls, DeleteCalls
  <2>2. \A u \in Tasks : pc[u] # "idle" => call[u] \in CallTypes
    BY DEF TypeOK, CallTypes
  <2> QED BY <2>1, <2>2 DEF TypeOK
<1> USE DEF LogInv
<1>1. ASSUME NEW t \in Tasks, Register(t) PROVE LogInv'
  BY <1>0, <1>1 DEF Register, Begin, AfterCheck, Logged, TypeOK
<1>2. ASSUME NEW t \in Tasks, Delete(t) PROVE LogInv'
  BY <1>0, <1>2 DEF Delete, Begin, AfterCheck, Logged, TypeOK
<1>3. ASSUME NEW t \in Tasks, Submit(t) PROVE LogInv'
  <2>1. call[t] \in CallTypes
    BY <1>3 DEF Submit, CallTypes, TypeOK
  <2>2. /\ call'[t].op = call[t].op /\ call'[t].path = call[t].path /\ call'[t].owner = call[t].owner
        /\ call'[t].block = steps + 1
        /\ \A u \in Tasks : u # t => call'[u] = call[u] /\ pc'[u] = pc[u]
    BY <1>3, <2>1 DEF Submit, CallTypes, RegisterCalls, DeleteCalls, TypeOK
  <2>3. ASSUME NEW o, NEW path, NEW no \in Nat, no <= steps, Logged(o, path, no)
        PROVE  Logged(o, path, no)'
    <3>1. CASE SubmittedId(call[t]) = BlockId("ns", o)
      <4>1. call[t].op = "register"
        BY <3>1, <2>1 DEF SubmittedId, BlockId
      <4> QED BY <1>0, <1>3, <2>3, <3>1, <4>1 DEF Submit, Put, Logged
    <3>2. CASE SubmittedId(call[t]) # BlockId("ns", o)
      BY <1>3, <2>3, <3>2 DEF Submit, Put, Logged
    <3> QED BY <3>1, <3>2
  <2>4. call'[t].op = "register" => Logged(call[t].owner, call[t].path, call[t].block)'
    BY <1>0, <1>3, <2>2 DEF Submit, Put, Logged, SubmittedId
  <2>5. \A p \in DOMAIN claims' :
          Logged(claims[p].owner, p, claims[p].block)' /\ claims'[p].block <= steps'
    BY <1>0, <1>3, <2>3 DEF Submit
  <2>6. ASSUME NEW u \in Tasks, pc'[u] = "store"
        PROVE  /\ call'[u].block <= steps'
               /\ call'[u].op = "register" => Logged(call[u].owner, call[u].path, call[u].block)'
    <3>1. CASE u = t
      BY <1>0, <1>3, <2>2, <2>4, <3>1 DEF Submit
    <3>2. CASE u # t
      <4>1. call'[u] = call[u] /\ pc[u] = "store" /\ steps' = steps + 1
        BY <1>3, <2>2, <2>6, <3>2 DEF Submit
      <4>2. call[u].block <= steps /\ call[u].block \in Nat
        BY <1>0, <4>1
      <4> QED BY <1>0, <2>3, <4>1, <4>2
    <3> QED BY <3>1, <3>2
  <2> QED BY <2>5, <2>6
<1>4. ASSUME NEW t \in Tasks, Refused(t) PROVE LogInv'
  BY <1>4 DEF Refused, Finish, Logged, TypeOK
<1>5. ASSUME NEW t \in Tasks, Store(t) PROVE LogInv'
  <2>1. /\ DOMAIN claims' = DOMAIN claims \cup {call[t].path}
        /\ claims'[call[t].path].block = call[t].block /\ claims'[call[t].path].owner = call[t].owner
        /\ \A p \in DOMAIN claims : p # call[t].path => claims'[p] = claims[p]
    BY <1>5 DEF Store, Put, Claim
  <2>2. /\ \A u \in Tasks : pc'[u] = "store" => pc[u] = "store" /\ call'[u] = call[u]
        /\ steps' = steps + 1 /\ blocks' = blocks
    BY <1>5 DEF Store, Finish, TypeOK
  <2>3. call[t].block <= steps /\ Logged(call[t].owner, call[t].path, call[t].block)
        /\ call[t].block \in Nat
    BY <1>0, <1>5 DEF Store
  <2> QED BY <1>0, <2>1, <2>2, <2>3 DEF Logged
<1>6. ASSUME NEW t \in Tasks, Remove(t) PROVE LogInv'
  BY <1>6 DEF Remove, Without, Restrict, Finish, Logged, TypeOK
<1>7. CASE Tick
  BY <1>7 DEF Tick, Logged
<1>8. CASE UNCHANGED vars
  BY <1>8 DEF vars, Logged
<1> QED BY <1>1, <1>2, <1>3, <1>4, <1>5, <1>6, <1>7, <1>8 DEF Next

\* The block that a claim names is a registration in the DAG: its own, unless its owner has
\* submitted another one since.
THEOREM ClaimsLogged == Spec => []ClaimsInLog
<1>1. TypeOK /\ LogInv => ClaimsInLog
  BY DEF TypeOK, LogInv, Logged, ClaimsInLog
<1> QED BY <1>1, TypeInit, TypeStep, LogInit, LogStep, PTL DEF Spec
===================================================================================
