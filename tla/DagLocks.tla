---------------------------------- MODULE DagLocks ---------------------------------
(***********************************************************************************)
(* The locks of BoundedGhostdag and of its DynamicScaler.  BoundedGhostdag.tla    *)
(* treats the stretch between two awaits as a step and looks at the data; here    *)
(* the data is left out and every acquisition is a step: what a call asks for,    *)
(* and what it holds while it waits.  A place is an acquisition, named after the  *)
(* function (or what it is for) and the lock; At[p] gives the lock, the mode, the *)
(* locks still held when it is asked for, and the places that may come next.      *)
(***********************************************************************************)
EXTENDS FairRwLock

CONSTANTS
  Adders,                      \* tasks that call add_block; the handle is cloned and shared
  Readers                      \* tasks that call what only reads

Callers == Adders \cup Readers

VARIABLES
  locks,                       \* name of a lock -> FairRwLock
  place                           \* the place each task waits at, or has just passed

lockVars == <<locks, place>>

LockNames == {"block_timestamps", "dag", "max_size", "tips", "throughput_history",
              "fill_history", "fork_depth_history", "last_throughput", "last_scale_time",
              "current_size", "main_chain", "confirmed", "checkpoints", "ghost_scores"}

Place(lock, mode, holding, next) ==
  [lock |-> lock, mode |-> mode, holding |-> holding, next |-> next]

-----------------------------------------------------------------------------------
\* update_metrics keeps block_timestamps and tips to its end; record_metrics takes the
\* three histories of the scaler below them.
MetricsLocks ==
  [metrics_timestamps |-> Place("block_timestamps", "R", {}, {"metrics_dag"}),
   metrics_dag  |-> Place("dag", "R", {"block_timestamps"}, {"metrics_max"}),
   metrics_max  |-> Place("max_size", "R", {"block_timestamps"}, {"metrics_tips"}),
   metrics_tips |-> Place("tips", "R", {"block_timestamps"}, {"record_throughput"}),
   record_throughput |->
     Place("throughput_history", "W", {"block_timestamps", "tips"}, {"record_fill"}),
   record_fill  |->
     Place("fill_history", "W", {"block_timestamps", "tips", "throughput_history"}, {"record_fork"}),
   record_fork  |->
     Place("fork_depth_history", "W",
           {"block_timestamps", "tips", "throughput_history", "fill_history"}, {"metrics_last"}),
   metrics_last |->
     Place("last_throughput", "W", {"block_timestamps", "tips"}, {"decide_time"})]

\* apply_dynamic_scaling: calculate_scale_decision holds during its cooldown or reads the
\* histories; apply_scale reads the size (Hold) or writes it, and then perhaps the time;
\* max_size is written when the two sizes differ.
ScalingLocks ==
  [decide_time |-> Place("last_scale_time", "R", {}, {"decide_throughput", "apply_hold"}),
   decide_throughput |->
     Place("throughput_history", "R", {"last_scale_time"}, {"decide_fill"}),
   decide_fill |->
     Place("fill_history", "R", {"last_scale_time", "throughput_history"}, {"decide_fork"}),
   decide_fork |->
     Place("fork_depth_history", "R", {"last_scale_time", "throughput_history", "fill_history"},
           {"apply_hold", "apply_size"}),
   apply_hold |-> Place("current_size", "R", {}, {"scaling_read"}),
   apply_size |-> Place("current_size", "W", {}, {"apply_time", "scaling_read"}),
   apply_time |-> Place("last_scale_time", "W", {"current_size"}, {"scaling_read"}),
   scaling_read  |-> Place("max_size", "R", {}, {"scaling_write", "limit"}),
   scaling_write |-> Place("max_size", "W", {}, {"limit"})]

\* Mutation: create_checkpoint takes the checkpoints before the DAG.
PruneLocks_CheckpointsFirst ==
  [prune_chain     |-> Place("main_chain", "R", {}, {"prune_confirmed"}),
   prune_confirmed |-> Place("confirmed", "R", {}, {"prune_max"}),
   prune_max       |-> Place("max_size", "R", {}, {"checkpoint_dag", "insert"}),
   checkpoint_dag  |-> Place("checkpoints", "W", {}, {"checkpoint_push", "idle"}),
   checkpoint_push |-> Place("dag", "R", {"checkpoints"}, {"prune_dag"}),
   prune_dag       |-> Place("dag", "W", {}, {"insert"})]

\* prune_old_blocks clones under two locks taken one after the other; create_checkpoint
\* holds the DAG while it waits for the checkpoints, and may fail before that.
PruneLocks ==
  [prune_chain     |-> Place("main_chain", "R", {}, {"prune_confirmed"}),
   prune_confirmed |-> Place("confirmed", "R", {}, {"prune_max"}),
   prune_max       |-> Place("max_size", "R", {}, {"checkpoint_dag", "insert"}),
   checkpoint_dag  |-> Place("dag", "R", {}, {"checkpoint_push", "idle"}),
   checkpoint_push |-> Place("checkpoints", "W", {"dag"}, {"prune_dag"}),
   prune_dag       |-> Place("dag", "W", {}, {"insert"})]

\* Mutation: update_main_chain still holds the DAG when the blocks are confirmed and marked.
ChainLocks_DagKept ==
  [scores_dag    |-> Place("dag", "R", {}, {"scores_write"}),
   scores_write  |-> Place("ghost_scores", "W", {"dag"}, {"chain_dag"}),
   chain_dag     |-> Place("dag", "R", {}, {"chain_scores"}),
   chain_scores  |-> Place("ghost_scores", "R", {"dag"}, {"chain_write", "confirm_chain"}),
   chain_write   |-> Place("main_chain", "W", {"dag", "ghost_scores"}, {"confirm_chain"}),
   confirm_chain |-> Place("main_chain", "R", {"dag"}, {"confirm_write"}),
   confirm_write |-> Place("confirmed", "W", {"dag", "main_chain"}, {"deep"}),
   deep          |-> Place("confirmed", "R", {"dag"}, {"mark", "idle"}),
   mark          |-> Place("dag", "W", {"dag"}, {"idle"})]

\* The chain after an insertion: update_ghost_scores, update_main_chain (which leaves
\* early without a genesis), update_confirmed_blocks, is_deeply_confirmed.
ChainLocks ==
  [scores_dag    |-> Place("dag", "R", {}, {"scores_write"}),
   scores_write  |-> Place("ghost_scores", "W", {"dag"}, {"chain_dag"}),
   chain_dag     |-> Place("dag", "R", {}, {"chain_scores"}),
   chain_scores  |-> Place("ghost_scores", "R", {"dag"}, {"chain_write", "confirm_chain"}),
   chain_write   |-> Place("main_chain", "W", {"dag", "ghost_scores"}, {"confirm_chain"}),
   confirm_chain |-> Place("main_chain", "R", {}, {"confirm_write"}),
   confirm_write |-> Place("confirmed", "W", {"main_chain"}, {"deep"}),
   deep          |-> Place("confirmed", "R", {}, {"mark", "idle"}),
   mark          |-> Place("dag", "W", {}, {"idle"})]

AddBlockLocks ==
  [track    |-> Place("block_timestamps", "W", {}, {"validate"}),
   validate |-> Place("dag", "R", {}, {"metrics_timestamps", "idle"}),
   limit    |-> Place("max_size", "R", {}, {"size"}),
   size     |-> Place("dag", "R", {}, {"prune_chain", "insert"}),
   insert   |-> Place("dag", "W", {}, {"tips"}),
   tips     |-> Place("tips", "W", {}, {"scores_dag"})]

StatsLocks ==
  [stats_dag       |-> Place("dag", "R", {}, {"stats_tips"}),
   stats_tips      |-> Place("tips", "R", {"dag"}, {"stats_confirmed"}),
   stats_confirmed |-> Place("confirmed", "R", {"dag", "tips"}, {"stats_checkpoints"}),
   stats_checkpoints |->
     Place("checkpoints", "R", {"dag", "tips", "confirmed"}, {"stats_chain"}),
   stats_chain     |->
     Place("main_chain", "R", {"dag", "tips", "confirmed", "checkpoints"}, {"idle"})]

\* get_main_chain, and the scaler's get_current_size and predict_size_needed.
QueryLocks ==
  [get_chain     |-> Place("main_chain", "R", {}, {"idle"}),
   current_size  |-> Place("current_size", "R", {}, {"idle"}),
   predict_throughput |-> Place("throughput_history", "R", {}, {"predict_size"}),
   predict_size  |-> Place("current_size", "R", {"throughput_history"}, {"idle"})]

\* No place is in two of them.
Together(f, g) ==
  [p \in DOMAIN f \cup DOMAIN g |-> IF p \in DOMAIN f THEN f[p] ELSE g[p]]

At == Together(AddBlockLocks, Together(MetricsLocks, Together(ScalingLocks,
        Together(PruneLocks, Together(ChainLocks, Together(StatsLocks, QueryLocks))))))

Places == DOMAIN At

\* Where the public calls begin: add_block, or get_stats and the queries.
Calls(t) ==
  (IF t \in Adders THEN {"track"} ELSE {}) \cup
  (IF t \in Readers THEN {"stats_dag", "get_chain", "current_size", "predict_throughput"} ELSE {})

-----------------------------------------------------------------------------------
LocksInit ==
  /\ locks = [l \in LockNames |-> Unlocked]
  /\ place = [t \in Callers |-> "idle"]

Holds(t, l) == Reads(locks[l], t) \/ Writes(locks[l], t)

Granted(t) ==
  LET p == At[place[t]]
  IN  IF p.mode = "R" THEN Reads(locks[p.lock], t) ELSE Writes(locks[p.lock], t)

\* The locks a task has where it is, once the one it asked for is granted.
Has(t) == IF place[t] = "idle" THEN {} ELSE At[place[t]].holding \cup {At[place[t]].lock}

Released(t, kept) == [l \in LockNames |-> IF l \in Has(t) \ kept THEN Leave(locks[l], t) ELSE locks[l]]

\* The task asks for the lock of place p and has let go of everything it does not hold there.
Ask(t, p) ==
  /\ locks' = [Released(t, At[p].holding) EXCEPT ![At[p].lock] = Request(@, t, At[p].mode)]
  /\ place' = [place EXCEPT ![t] = p]

\* Mutation: the guards outlive the call.
ReturnFrom_Kept(t) == UNCHANGED locks /\ place' = [place EXCEPT ![t] = "idle"]

ReturnFrom(t) ==
  /\ locks' = Released(t, {})
  /\ place' = [place EXCEPT ![t] = "idle"]

Call(t) ==
  /\ place[t] = "idle"
  /\ \E p \in Calls(t) : Ask(t, p)

\* The awaited lock was granted: the task goes on to its next acquisition.
Advance(t) ==
  /\ place[t] # "idle"
  /\ Granted(t)
  /\ \E p \in At[place[t]].next : IF p = "idle" THEN ReturnFrom(t) ELSE Ask(t, p)

LocksNext == \E t \in Callers : Call(t) \/ Advance(t)

\* Every task is polled again once it can go on.
LocksSpec == LocksInit /\ [][LocksNext]_lockVars /\ \A t \in Callers : WF_lockVars(Advance(t))

-----------------------------------------------------------------------------------
(***********************************************************************************)
(* Properties.                                                                     *)
(***********************************************************************************)
\* Type invariant: locks are held and queued for only by the tasks whose place says so.
LocksTypeOK ==
  /\ place \in [Callers -> Places \cup {"idle"}]
  /\ \A l \in LockNames :
       /\ Exclusive(locks[l])
       /\ \A t \in locks[l].readers \cup locks[l].writers :
            /\ t \in Callers /\ place[t] # "idle"
            /\ l \in At[place[t]].holding \cup {At[place[t]].lock}
       /\ \A i \in DOMAIN locks[l].queue :
            LET t == locks[l].queue[i].task
            IN  t \in Callers /\ place[t] # "idle" /\ l = At[place[t]].lock

QueuedBefore(u, t, l) ==
  \E i, j \in DOMAIN locks[l].queue :
    i < j /\ locks[l].queue[i].task = u /\ locks[l].queue[j].task = t

\* t waits at its place until u, among others, has released the lock or got it before.
WaitsFor(t, u) ==
  /\ place[t] # "idle"
  /\ ~ Granted(t)
  /\ Holds(u, At[place[t]].lock) \/ QueuedBefore(u, t, At[place[t]].lock)

\* A set of tasks none of which can go on before another of them has.
Deadlocked(S) == S # {} /\ \A t \in S : \E u \in S : WaitsFor(t, u)

\* The order in which all calls but two acquire the locks.
Rank ==
  [block_timestamps |-> 1, dag |-> 2, max_size |-> 3, current_size |-> 4, last_scale_time |-> 5,
   tips |-> 6, throughput_history |-> 7, fill_history |-> 8, fork_depth_history |-> 9,
   last_throughput |-> 10, ghost_scores |-> 11, main_chain |-> 12, confirmed |-> 13,
   checkpoints |-> 14]

\* The places that ask for a lock out of that order: get_stats reads main_chain last,
\* while it holds confirmed, and predict_size_needed current_size below the histories.
OutOfOrder == {"stats_chain", "predict_size"}

\* Whenever tasks wait for each other, one of them is get_stats at main_chain or
\* predict_size_needed at current_size: add_block alone never deadlocks, however many
\* callers it has, although it takes fourteen locks in thirty-odd places.
DeadlockNeedsOutOfOrder ==
  \A S \in SUBSET Callers : Deadlocked(S) => \E t \in S : place[t] \in OutOfOrder

\* The cycle of three through the fair lock: get_stats waits behind the writer of
\* update_main_chain, which waits for update_confirmed_blocks, which waits for get_stats.
StatsCycle ==
  \E g, w, c \in Callers :
    /\ place[g] = "stats_chain" /\ QueuedBefore(w, g, "main_chain")
    /\ place[w] = "chain_write" /\ WaitsFor(w, c)
    /\ place[c] = "confirm_write" /\ WaitsFor(c, g)

\* With up to three callers that cycle is the only way not to return: no other deadlock,
\* and nobody starves in a queue while the others call again and again.
CallsReturn == \A t \in Callers : place[t] # "idle" ~> (place[t] = "idle" \/ StatsCycle)
===================================================================================
