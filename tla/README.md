# 9pe-server in TLA+

TLA+ models of the 9P.e server (`src/src`), the TLC runs that check them, and TLAPS
proofs. The models are written from the Rust code; documents and comments of the
repository are used only where a property quotes them.

Run a model with `tlc -config X.cfg M` and a proof with `tlapm M.tla`.
`PROJECT.json` maps every definition that models code to the lines it models.

## 1. The system

| part | state | operations | what is hard |
|---|---|---|---|
| bounded DAG (`consensus/bounded_ghostdag.rs`, `dynamic_scaling.rs`) | retained blocks, tips, confirmed set, GHOST scores, main chain, checkpoints, sizes and histories, each behind its own lock | `add_block` (validate, scale, prune, insert, score, choose chain, confirm), statistics | fourteen locks in thirty-odd places; sections of several callers interleave; pruning works on clones |
| namespace operations (same file) | none | conflict check, replay into a checkpoint's namespace | order of operations, batches |
| request handlers (`server/handler`, `server/mod.rs`) | per connection: fid table and a DAG; shared: the directory tree | attach, walk, open, create, read, write, remove, stat, wstat, clunk | tree and log change in separate steps, connections share the tree, fids go stale, nothing but a time in seconds orders the log |
| authentication (`auth`) | users in memory and in one file, sessions in memory | authenticate, create/delete user, change password, validate, logout, clean-up | failing saves, crashes, the lockout counter, the order of locks |
| auto-mount (`auto_mount.rs`) | discovered and mounted servers | discovery cycle, health check, status, stop | two tasks take two locks in opposite orders; stop during a cycle |
| mesh (`mesh.rs`, `mesh_control.rs`) | peers, connections, routing table | dial, accept, serve, clean up, refresh | opposite lock orders, reconnects, clean-up of old connections |
| namespace manager (`namespace_manager.rs`) | claims | register, verify, delete | check-then-insert over awaits, reused block ids, expiry |
| work distribution (`consensus/work_distribution.rs`) | pending, active, completed jobs, queue, partial results | submit, schedule, select, assign, complete, collect, status | a job moves between maps in two steps; late and repeated calls |
| settrans (`settrans.rs`, `synth.rs`) | installed translators and their status, command channel, synthetic tree | install, enable, disable, set, status file | blocking on an async lock, swapping what is being invoked |
| WASM translators (`wasm/threadsafe.rs`) | registry, threads, channels | load, invoke, remove | a call races removal; dropping joins a thread |
| GHOSTDAG work consensus (`consensus/ghostdag.rs`, `consensus/mod.rs`) | blocks, tips, scores, pending work | add, submit, chain | sequential behind one lock |
| consensus network, crypto | peers, keys | add, update, clean up | unsigned clock arithmetic |
| protocol library, client, FUSE, transports, compute backends, CLI | little or none | I/O, encoding | - |

How they interact. `Server::run` spawns one `handle_connection` task per connection,
which owns a `MessageHandler` with its own fid table and its own `BoundedGhostdag`; all
of them work on one directory tree. The handlers log to the DAG through `add_block`.
The DAG is a cloneable handle, so the 9P.e extensions and the namespace manager can share
one between tasks; the server builds its namespace manager without one
(`server/mod.rs:148-165`). Settrans loads translators into the registry that the
extension handlers invoke them from. The auto-mount daemon, the mesh and the command
processor of settrans run as background tasks. `AuthService` and `WorkDistributor` are
library components: the server does not call the first, and of the second, through
`ConsensusCoordinator`, only `submit_job` and `get_result`.

What makes each part correct:

- bounded DAG: no block is lost, parents come before children, only confirmed blocks are
  pruned, confirmation means depth, the DAG stays bounded, a prune never makes an
  `add_block` fail, checkpoints accumulate; every call returns;
- operations: operations that do not conflict commute;
- handlers: what a connection logged explains the tree, as far as the times of its blocks
  order them;
- authentication: the lockout bounds the wrong passwords that logins answer; what was
  acknowledged survives failing saves and crashes; a crash never makes the service unable to
  start;
- auto-mount: cycles recur, stop ends everything, mounts are recorded once;
- mesh: a listed peer has an entry among the connections, a connected one is listed,
  clean-up ends;
- namespaces: nothing but its owner, its expiry and a registration that overlapped it takes
  a claim away; a claim can be traced to its block;
- work: a job that was submitted or started is seen until a result of it comes, a completed
  one stays so, the status told is not ahead of it, the queue is fair;
- translators: what is shown as enabled is loaded, who holds a translator is served by it, a
  dropped one ends, nothing hangs.

## 2. Modules

| module | models | state and actions |
|---|---|---|
| `FairRwLock` | `tokio::sync::RwLock` (external) | a lock is a record; `Request`, `Leave`, `Settle` |
| `Maps` | `HashMap::insert` and `remove` (external) | `Put`, `Without` |
| `NamespaceOps` | `NamespaceOp`, `affected_paths`, `conflicts_with`, `apply_operation_to_state` | operators only; recursion as folds |
| `NamespaceReplay` | the loop of `create_checkpoint` | one namespace, one action `ReplayOp` |
| `Ledger` | abstract specification of the DAG | a growing set of blocks; `Append` |
| `BoundedGhostdag` | `add_block` for concurrent callers; extends `NamespaceOps`, implements `Ledger` | the fields of the struct, plus per task the place in `add_block`, the argument and the clones of `prune_old_blocks`; one action per section between two locks |
| `DagLocks` | the locks of the DAG and its scaler; over `FairRwLock` | fourteen locks, the place of each task; `Call`, `Advance` |
| `AutoMount` | the daemon; over `FairRwLock` | both maps, both locks, the place of each task; an action per stretch between two awaits |
| `NinePServer` | request handlers of several connections; uses `NamespaceOps` for replay | tree, fid tables, the clock, per connection a set of blocks; an action per stretch of a handler that touches the tree or the DAG |
| `AuthService` | the authentication service | users, sessions, write locks, file, the call of each task; `Crash` and `Restart` |
| `Translators` | settrans, the WASM registry and the translators' threads; over `FairRwLock` | infos, command channel, registry, translators with thread and channel, three locks, runtime threads |
| `JobLifecycle` | abstract specification of a job | its status, and whether a result of it is being stored; `Submit`, `Start`, `ResultComes`, `Hidden`, `Store` |
| `WorkDistribution` | distributor, scheduler, collector; implements `JobLifecycle` | the maps, the queue, the call of each task; one action per lock taken |
| `NamespaceManager` | claims of concurrent callers and the DAG as they see it | claims, blocks by id, time; check, submit, store |
| `Mesh` | several nodes; over `FairRwLock` | QUIC connections; per node peers, connections, their locks and the routing table; the diallers, servers and refreshers |
| `MC*` | instances for TLC | payloads, operation sets, symmetry |
| `Lemmas` | nothing; facts the proofs share | induction, repeated application, folds, the fair lock |
| `*_proofs` | theorems | see section 6; `BoundedGhostdag_proofs` also covers `NamespaceReplay` and `DagLocks`, `Server_proofs` `AutoMount` and `NinePServer` |

`NamespaceReplay`, `DagLocks` and `NinePServer` name their specification after what they model
(`ReplaySpec`, `LocksSpec`, `ServerSpec`, and so on), so that one module of proofs can extend several of them.

Correspondence of the main actions:

- `BoundedGhostdag`: `Submit` builds a block and enters `add_block`; `Validate`/`Reject`,
  `Scale`, `CheckSize`, the five steps of `prune_old_blocks` (`SnapshotChain`,
  `SelectVictims`, `CreateCheckpoint` or `CheckpointFails`, `RemoveVictims`), `Insert`,
  `UpdateTips`, `UpdateGhostScores`, `UpdateMainChain`, `UpdateConfirmed`, `CheckDeep`,
  `MarkConfirmed` follow the body in order. Where the code iterates a `HashMap` and takes
  the first or the last of equals, the model takes any of them.
- `DagLocks`: a place is an acquisition, with the lock, the mode, what is held and what may
  come next, read off the functions in order. It has no data; `BoundedGhostdag` has no locks. The
  two agree on where the sections are.
- `AutoMount`: `DiscoveryTick`, `Visit`, `CheckMounted`, `Connect`, `RecordMount`,
  `EndCycle` are one cycle; `HealthTick`, `ReadMounted`, `ChooseDead`, `UnmountDead` the
  health check; `Status*` and `Stop`/`DrainMounted` the owner. `Stop` aborts the health task
  wherever it waits. `umount` is a blocking call without an await, hence part of a step.
- `NinePServer`: each `handle_*` action is the handler up to the first point at which
  another connection can change something this one depends on; `CreateOnDisk` and the
  `Log*` actions are the rest. Creating logs first, everything else afterwards, as in
  the code. Whether a request fails is decided by the tree (`CanCreate`, `CanRemove`,
  `CanRename`). `Logged` puts a block into the DAG: the block has no parents, the time `now` in
  seconds and an id, which is new (`Uuid`) except for a removal (`DeleteId`); there it is made of
  the path with `_` for `/`, the second and the fid, and may be the id of another block,
  which is then gone. `SetClock` is the system's clock, which may go back.
- `AuthService`: a call locks the users, changes them, `Truncate`s and writes the file
  (`Answer*`, `DeleteWritten`) or fails at either point (`SaveFails`), and a login also
  takes the lock of the sessions before it saves. `RefuseChange` is `change_password` with a
  wrong old password: it changes nothing, counts nothing and is not limited.
- `Translators`: `InstallTranslator` and `WriteControl` queue commands; `Receive`,
  `InstallDirectory`, `InstallFile`, `InstallInfo`, `Load`, `RemoveTranslator` carry them out;
  `Invoke`, `Get`, `Send`, `Drop` are `handle_wasm_invoke`; `SetTranslator` is
  `set_translator`; `ReadStatus`, `BlockOnStatus`, `StatusRead` the status file. `Instantiate`,
  `Serve` and `Exited` are a translator's thread. A translator is dropped where the last
  handle goes, and the join there blocks a thread of the runtime (`FreeWorker`), as does
  the status file's `block_on`.
- `WorkDistribution`: `submit_job`, `assign_work`, `complete_job` have a disjunct per lock;
  `get_job_status` looks into one map at a time. `Receive` is an assignment that comes from
  elsewhere, `Dispatch` one that the scheduler made, from whatever nodes its caller offers with
  whatever features (`Offers`): nothing in the code ties these to the registered ones.
  `complete_job` takes any job, as the code does: active, pending, unknown here, or completed
  already.
- `NamespaceManager`: `Register` and `Delete` are the calls up to the block, `Submit` and
  `Refused` the call of the DAG, `Store` and `Remove` the rest.
- `Mesh`: `Connect`, `Acknowledged` and the three steps of `Insert` are dialling; `Accept`,
  `Insert`, `Closed`, `RemovePeer`, `RemoveConnection` serving; `Refresh` to `Sent` the DHT
  refresh; `Disconnect` is `disconnect_peer`.

## 3. Abstractions

- Block ids are numbers in the order of their first submission; `ReusableIds` are the ids that
  may come again, of blocks without parents, as all callers in the crate build them. In `BoundedGhostdag`,
  timestamps, signatures, heights and weights of blocks are left out:
  the timestamp check is one more way to be rejected. The scaler's decision is a choice
  of its three outcomes, because it depends on clocks and averages; scaling is one step.
- A file's content hash never changes in the code and is left out; `size` counts writes, as
  the code does. A batch inside a batch is not modelled.
- A path is a sequence of names. `..`, names with slashes and renaming the root are not
  modelled, nor contents, permissions and lengths, nor disk-full and permission errors.
- Servers are numbered in list order; `last_seen` is fresh or older than two minutes.
- Users have a password, a counter and a lockout; `uid`, capabilities, `enabled` and dates
  are never changed by a call. Time is a counter that only grows. A token is the number of
  its login. Password hashing and random tokens are ideal.
- A WASM module is valid or not, and instantiates or not; a call to it is answered. The
  synthetic tree is its lock: the 9P handlers do not read it, `enabled` and `disabled` are
  never filled, and `install` has no handler. A name stands for its mount point too.
- What a node offers and a job needs are sets of features; the nodes selected are any of
  the fitting ones, because the order depends on workloads. Deadlines are left out: nothing
  looks at them, and nothing sets the states Scheduled, Failed and Timeout.
- The DAG of the namespace manager is a map from ids to the last block submitted: that is
  what `insert` of a reused id does. A refusal is the DAG's timestamp check.
- A QUIC connection is open or closed for both ends at once; a stream that cannot be read
  is a failed connection. `Connect` is enabled again and again, as the bootstrap loop is.

History variables, which no guard reads: `guesses`, `promised`, `deleted` (`AuthService`) record
what callers were told, `guesses` by logins only; `origin` and `blurred` (`NinePServer`) the tree a
connection began at and the named reasons for which its log cannot explain the tree; `arrivals`,
`started`, `assigned` and the field `alone` of a call (`WorkDistribution`) the order in which jobs were
queued, which of them have been active, which assignments returned, and whether a status call ran alone;
`steps`, `no`, `at` and `block` (`NamespaceManager`) the order of checks, blocks and claims.

## 4. Runs

Eleven runs pass:

| run | checks | instance and why it is enough |
|---|---|---|
| `NamespaceReplay_order` | `OrderIrrelevant`: operations that do not conflict commute on every reachable namespace; `OnlyAffectedChange`: `affected_paths` is complete; `CheckpointsAgree`: a checkpoint that starts from only some of the files leaves nothing that the whole history contradicts, but for the target of a rename | three paths, so that two operations can move around a third; one mode, one translator, size up to 1; batches of a move and an operation that may undo it |
| `BoundedGhostdag_concurrent` | `LedgerSpec` (refinement), its invariant `LedgerInv`, `OnlyConfirmedPruned`, `ConfirmedAreBuried` | two callers, four blocks, one parent each, maximum 2 kept at 1: the fewest with which a prune of one caller falls into every gap of the other, and a checkpoint fails |
| `BoundedGhostdag_sequential` | `TipsAreLeaves` | one caller, six blocks, two parents, maximum 2 to 3 (so that scaling happens), id 1 reusable: several prunes in a row, forks and joins |
| `DagLocks_deadlock` | `DeadlockNeedsOutOfOrder`: calls that wait for each other need `get_stats` or `predict_size_needed`; `CallsReturn`: everybody returns, except in the one cycle of three | two `add_block`s and a reader: the cycle through the fair queue takes three tasks |
| `AutoMount_shutdown` | `NeverMountedTwice`, `ConsistentHealthCheck`, `StopReturns`; `CyclesRecur`: cycles end unless the two tasks are crossed at exactly two places | three servers: one mounted, one dead, one being connected to |
| `NinePServer_log` | `LogExplainsTree`, `MergedLogsExplainTree` | two connections, two fids, two names of which one reads like the other twice when `_` stands for `/`, depth 2, five messages, two seconds: attach, create, rename, write through a stale fid and remove fit, or some of them of each connection, with the clock anywhere between. Two removals with one id take six messages, and eight until that matters: this exception rests on the proof (below) |
| `AuthService_crash` | `FailedLoginsBounded`, `DeletionIsFinal`, `PromisesKept` | two callers, a second user besides the admin, two passwords, lockout after two wrong ones, five calls, two ticks: delete and create again, lock out and expire, with crashes anywhere |
| `Translators_settrans` | `EnabledServesInstalled`, `InvocationsServed`, `CallsReturn`, `RemovedTranslatorsEnd` | two callers, a reader, one thread; two valid modules of which one fails to start, one invalid; two paths, three calls: install, enable and a call that overlaps either; one reader is enough to exhaust the runtime |
| `WorkDistribution_jobs` | `LifecycleSpec` (refinement), `StatusHonest`, `AssignedNotPending`, `QueueFair` | two jobs, of equal or different priority, and one of another node, two nodes, two callers and one who asks, five calls: submit, assign and complete one job with a late assignment or a second result in between; a result of a job that is pending, or unknown here |
| `NamespaceManager_claims` | `ClaimsHonoured`, `ClaimsInLog` | two owners and the server, two paths of which one is the server's, two callers, four calls, one tick: a race, an expiry, and a second block of the same id; with and without consensus |
| `Mesh_cleanup` | `ListedHaveEntries`, `CleanupEnds` | two nodes that dial each other, two connections, of which one may replace the other, one disconnection or foreign reply: the refresh needs that reply to have anyone to ask |

`LogExplainsTree` excepts a block that is overwritten. With eight messages, two fids and two seconds the
files `/a_a` and `/a/a` are removed through one fid in one second, and only one of the removals stays
in the DAG; nine with one fid. The run stops at five messages, so that this exception, and
that nothing else goes wrong around it, is what `LogCorrect` shows for any number.

Each run checks the type invariant of its module in addition, except
`BoundedGhostdag_sequential` and `NamespaceReplay_order`; for the modules over locks it includes who holds which lock where. One
run, `BoundedGhostdag_unbounded`, expects a violation (section 5). All bounds are constants:
`MaxBlocks`, `MaxParents`, `MaxSize`, `MaxDepth`, `MaxMessages`, `MaxCalls`, `MaxTime`, `MaxConns`. DAG
sizes are scaled down together (maximum 2 or 3, confirmation at depth 1); the code's defaults
are 1000 and 100. Symmetry is used where no liveness is checked. Deadlock checking is off where a bound, a
shutdown, an unreadable database or a deadlock of the code itself stops the model;
`NamespaceReplay_order` keeps it on, and in `DagLocks`, `Translators`, `AutoMount` and `Mesh` the
liveness properties say which deadlocks there are.

Fairness is assumed in four modules, always as weak fairness of tasks that are ready: tokio polls
a woken task again and serves a lock in order.

- `AutoMount`: timers fire and a connection attempt ends. The exit of the discovery task has strong
  fairness because `select!` picks at random among ready branches and a pending shutdown
  stays pending. Nothing forces the owner to call `status` or `stop`, nor time to pass.
- `DagLocks`: a granted caller goes on. Nobody has to call; those who do may call for ever.
- `Translators`: tasks with a free runtime thread, and the translators' threads. It takes for granted
  that a WASM function returns; nothing in the code stops one that does not.
- `Mesh`: the tasks that dial, serve and refresh; sending ends, if with an error. No connection has to
  be made or to fail.

The other models have only safety properties.

## 5. Where code and documents disagree

`BoundedGhostdag_unbounded` expects a violation: a test asserts that the DAG never exceeds its
maximum. Blocks without parents never get confirmed, hence never pruned, and the handlers
log only such blocks: the DAG grows for the life of the connection (`findings` has the quotation).

Other disagreements are stated as properties of their modules, but no run of the project expects them
violated. To see a counterexample, put the property into the cfg named here instead of
its properties.

- `GenesisAdmitted` (PROPERTY, `BoundedGhostdag_sequential.cfg`): a test comment says that
  blocks without parents always succeed. After the genesis was pruned the main chain is
  stale, the next prune looks for blocks that are gone, and `add_block` fails.
- `CheckpointsAggregate` (INVARIANT, the same with `Payloads <- MCCreateOrNothing` and `MaxParents = 1`): a checkpoint is
  documented as the aggregated namespace; it holds only the blocks pruned with it.
- `DiscoveryRecurs` (PROPERTY, `AutoMount_shutdown.cfg`): discovery and health check
  deadlock. `CyclesRecur`, which a run checks, says that nothing else stops the cycles.
- `NothingMountedAfterStop` (INVARIANT, the same): a discovery cycle mounts a server after
  `stop` unmounted all.
- `RestartPossible` (INVARIANT, `AuthService_crash.cfg`): a crash in the middle of a save leaves
  a file that the service cannot start from.
- `ConnectedAreListed` (INVARIANT, `Mesh_cleanup.cfg`): `/srv/mesh/peers` is documented as "Read to see
  connected peers" (`mesh_control.rs:19`). The task of an old connection removes the entry of the
  new one, and `disconnect_peer` leaves the connection.

Deadlocks the models find and the properties except by name: `StatsCycle` (`DagLocks`), `LocksCrossed`
(`AutoMount`), `Deadlocked` (`Mesh`), `Exhausted` (`Translators`). A fourth task lengthens the list for the
DAG: `predict_size_needed` holds the throughput history and waits for the size, which an `apply_scale`
holds that waits for the last scale time, which a `calculate_scale_decision` holds that waits for the
history behind a `record_metrics`. It needs three `add_block`s; `DeadlockNeedsOutOfOrder` names its culprit.

Further things met while modelling, about which no document says anything that could be stated:

- Namespaces: the file `register` checks a signature and registers nothing; an expired claim can be neither
  deleted nor registered again; a block is named after its owner, so with a consensus only the owner's last
  registration stays in the DAG; after a deletion the registration stays there. Two
  owners that register a path at the same time are both told that it is theirs, and the later insertion stays.
- Work: the queue is emptied by nobody in the crate; memory and GPU count on submission but not on
  selection, and the nodes selected from are the caller's, so that a job may be assigned to fewer nodes than it
  asks for; a result of a job that was never assigned, or is not known, is stored; two partial results
  are aggregated whatever the number of nodes.
- Authentication: `change_password` answers "Invalid old password" (`auth/mod.rs:439-441`) any number of
  times, without counting it and also while the user is locked out. The limit is documented as one of
  failed logins (`auth/mod.rs:55`), and `FailedLoginsBounded` says no more. After a deletion whose save failed the
  user is gone from memory, and the next save of any call makes that permanent (`:409`).
- Handlers: the blocks of one connection have no parents and a time in seconds, and the DAG is a map; so the
  order of operations of one second is lost, and with it what they made of a path they share. Two removals with
  one id (`basic_ops.rs:408`) leave one block. A walk that finds only some of its names answers like a
  complete one without setting newfid (`basic_ops.rs:114`); wstat applies mode, length and name in turn and stops
  at the first error (`:597`); a message that does not deserialize is never answered (`server/mod.rs:328`).
- DAG: only the block just added is marked `Confirmed`, and it is never deep enough then; those confirmed later stay
  `Processing` in the DAG (`bounded_ghostdag.rs:275`).
- Auto-mount: every cycle refreshes `last_seen` of the listed servers before it tries them, so none of them ever counts
  as not seen (`auto_mount.rs:296`).
- Mesh: `start` cannot succeed in the server, which shares its `Arc` (`mesh.rs:124-131`, `server/mod.rs:126-140`);
  a FindNode reply is written to a stream whose receiving end is dropped, so the routing tables of
  nodes of this program stay empty; the end that dialled never removes its entries.
- Translators: a translator is shown as enabled before its thread has instantiated the module.

## 6. Proofs

Every safety property that a passing run checks is a theorem, for every value of the constants that
satisfies the named assumptions. Hypotheses beyond those are in the statement: unique ids for `LedgerInv` and
`LedgerSpec`, one caller for `TipsAreLeaves`, two connections for `MergedLogsExplainTree`, and operations
of the kinds the code has for the replay.

- `Lemmas`. Induction is stated for a set instead of a predicate, by its least counterexample
  (`LeastNumber`, `SequenceInduction`), so it can be used for what recursive functions compute: `IteratesExist` for
  recursion over numbers, `FoldEmpty`, `FoldAppend` and `FoldType` for a fold of any operator, which an
  `INSTANCE` supplies. `OrdersAgree`: a fold over the elements of a set gives the same in any two orders
  that follow a key, when neighbours of equal key may change places; by induction over the length, with
  `MayComeLast` and `FoldLast` for the element that one of the orders has last. `RequestAt`, `LeaveAt` and
  `StayAt` say that who has or awaits a lock stays at the places for it. `SettleFacts`, `RequestFacts` and `LeaveFacts` say what the operators of the lock
  preserve: writers are alone, and a call takes a lock away from nobody else. Lemmas with `Type`, `Wants` and
  `Orderly` in their names are about the queue: who waits, and who waits behind whom.
- `BoundedGhostdag_proofs`, the DAG. `TypeCorrect` is inductive with the type invariant. `PrunesOnlyConfirmed`
  needs that the victims a caller holds are confirmed, which lasts because `confirmed` only
  grows. `LedgerInvariant` and `ImplementsLedger` assume
  `ReusableIds = {}`: a block submitted again replaces the operations of the one before.
  Refinement alone is not inductive: that a victim may be removed
  without loss depends on its checkpoint (`VictimsCovered`), on the chain and its clones
  naming recorded blocks only (`ChainsRecorded`), on parents staying recorded between
  validation and insertion (`ParentsRecorded`), and on two calls never inserting the same id
  (`IdsFresh`). `RecordStep` says how each action changes the record; each conjunct has
  a lemma of its own; the refinement follows because only `Insert` changes the record.
  What reuse leaves alone is the shape of the record, its ids and parents: `ShapeInv` is the same invariant with
  weaker parts (`IdsKnown`, `VictimsLinked`) and `ReusedAreRoots`, and `ShapeImplementsLedger` says that the shape is an
  append-only ledger whatever ids come again. On it rest `TipsExact` (`TipsInv`: the tips are the leaves once
  the caller has made the update it may be about to make) and `ConfirmedBuried`. For that one, `BurialInv`: the main chain is
  linked, each block recorded as a child of the one before, and parents are older than their children. Hence ids grow
  along the chain (`ChainIncreases`), so it has no block twice, and each of its later blocks is a descendant
  of each earlier one (`LaterDescend`, by induction over the generations of `Ancestors`). `WalksLinked`
  is the induction over the walks of which `GhostChains` is made.
- `BoundedGhostdag_proofs`, replay. `Frame` (an operation leaves other paths alone) and `Local` (what it does to its
  paths depends on them only), and the same for a batch as a fold over its operations (`BatchFrame`, `BatchLocal`), give
  `OpsCommute`, hence `BlockOrderIrrelevant` and `AffectedPathsComplete` for batches of any length.
  `CheckpointsNeverContradict`: that one namespace has nothing the other contradicts (`AgreesBut`) survives an operation on
  both, but for the target of a rename, and so a batch.
- `BoundedGhostdag_proofs`, locks. `LocksInv` says for every place which locks a task has there (`WantsInv`) and that who
  is in a queue is at an acquisition of that lock (`WaitsInv`); writers are alone, and nobody waits twice or for what
  he has (`Orderly`). `LocksTypeCorrect` follows. For `OnlyOutOfOrderDeadlocks` take, among tasks
  that wait for each other in order, those whose lock comes last: none of them has it, because that one would
  wait for a later one, so each waits behind another of them, which the first in the queue cannot.
- `Server_proofs`, auto-mount. `LockInv`: writers are alone, a discovery cycle writes the discovered servers,
  and a deciding health check reads the mounted ones. `HealthCheckConsistent` and `MountedOnce`
  follow; `TypeCorrect` adds the queues of the locks, and that who is in one is where the code asked.
- `Server_proofs`, handlers. `Done(c, log)`: log is what c has done on the tree, in an order its times allow, once the
  message under way is through: create logs before it touches the tree, the others after. `LogInv`: some such log
  replays to the tree, unless one of the exceptions holds. Each step leaves tree and log alone
  (`Quiet`), adds one operation to the log and applies it to the tree (`Does`), starts a log anew
  (`Reconnect`), or is the clock's (`ClockOnly`): that is `Steps`. A block logged comes last, because no other is
  later (`Past`, part of the type invariant) unless the clock was set back. The log of the invariant is one of the
  orders; `OrdersReplay` carries it over to all of them, by `OrdersAgree` for what operations do to the
  kinds of files (`Effect`), where a write does nothing and operations without a conflict commute
  (`EffectsCommute`). Together `LogCorrect`. `MergedLogsCorrect` adds `MergeInv`, that
  some merge of a log of each explains the tree, and `FreshInv`: as long as a connection has logged nothing,
  nobody else's tree was changed by it. It is stated for two connections because the property compares two;
  what a third changes is in neither log.
- `AuthService_proofs`. The invariant `IInv` adds to the type invariant and the three properties:
  `CallInv` (what a call knows of the user it is at stays true because the lock is kept),
  `FileInv` (what is being written is what memory holds; after a purge-bound write the file
  equals memory) and `CountInv` (no fewer wrong passwords are counted than logins answered, in memory
  and in every readable file). The last is what makes a crash harmless: the attempt is saved
  before it is answered. What `change_password` answers is not in it. One lemma per action, combined in `InvNext`.
- `NamespaceManager_proofs`. `TypeCorrect` is inductive. `OwnersHonoured` needs `CallInv`: a deletion under way has
  found a claim of its caller's, and a claim on that path now is that one or was stored after
  the check. `ClaimsLogged` needs `LogInv`, which says of a registration between block and claim
  what `ClaimsInLog` says of the claim.
- `Translators_proofs`. One invariant for all three theorems: `PlaceInv` and `LockInv` (what a task has in
  hand and locked where it is),
  `QueueInv` (a call waits in one translator's queue, once), `ServedInv` (a translator somebody holds runs and has
  not been told to stop) and `InfoInv` (what is shown as enabled is in the registry, with the module installed
  last, except while the processor takes it away).
- `Mesh_proofs`. `ListedAreEntered` is inductive together with `Typed` and `Cleared`: as long as a
  task removes a connection it writes the peers, and they do not list the peer. That is why the clean-up has to
  keep the first lock. `TypeCorrect` adds `DataInv`: a dialler at work has a connection of its own link, and the
  entry of an accepted connection goes with the task that serves it.
- `WorkDistribution_proofs`. The invariant has `Typed`, `Fresh` (a job in submission is known to nobody else),
  `Placed` (a job under assignment is active, or a result of it has come) and `AssignedNotPending`. For the refinement,
  `StatusIs` gives the status of a job from the maps, and for each action `Moves` says that the
  one job it is about goes where the lifecycle allows while the others keep their status; what
  `complete_job` does between its two locks is the lifecycle's `Storing`, for every job a result may come of.
  `AnswersHonest` adds `WatchInv`: a lookup under way has not found the job in the maps it has passed, and would
  still not if no call on the job overlapped it; a task's step is about one job and only raises its rank.
  `QueueIsFair` adds `QueueInv`: any two places of the queue stand in the order of priority and arrival, and
  what is in the queue has arrived; inserting before the first job of lower priority keeps that
  (`InsertOrdered`, for any relation that orders the new job against its neighbours), and so does taking the first.
  `TypeCorrect` adds `DataInv` and that calls ask for known jobs (`Asked`).

Assumptions on constants: sizes are ordered (minimum, default, maximum), reusable ids are
ids, bounds are numbers, the model values differ from the data (`NoFileAssumption`, `NobodyAssumption` and the like),
tasks, paths and the two reserved names are told apart (`HandlesAssumption`),
`max_failed_attempts` is at least 1, the server's
key is no owner's, no node dials itself, those who ask for a status are not those who work.

Only model-checked: every liveness property, because liveness under fairness and `ENABLED` are outside the prover's
reach. No module uses a `RECURSIVE` operator, which would cost the SMT backend.

## 7. Not modelled

- `GhostdagConsensus` and `ConsensusCoordinator`: `add_block` and `create_work_block` have no caller, not even a test,
  so that DAG is empty in every run of the program; the rest forwards to `WorkDistributor`. The Ollama
  worker is an HTTP client.
- The consensus network and crypto: a peer table that only its own clean-up reads, sockets,
  signatures.
- The protocol client: every request ends in "not fully implemented"; hence the FUSE mount above it. The
  second message handler (`protocol/handler.rs`) is not wired into the server.
- Of what is modelled in part: the mesh's mDNS (which connects to nobody), heartbeats and the
  distance metric; wstat's modes and lengths; the contents of the synthetic tree and the statistics
  files; the computations, host functions and the older single-threaded registry of WASM; the 9P.e extensions that
  answer with constants.
- Message encoding, sessions and start-up, transports, name resolution, OpenCL and SYCL
  bindings, command line, configuration and error types: I/O, data or foreign code.
- `legacy/` and the user interfaces are not part of the server: `legacy/` is a crate of its own that
  the server does not compile.

Known limits of what is modelled: tips are exact only for one caller at a time (with
two, a parent may enter the tips after its child); a health check may unmount a server
that was seen again after the decision; clocks that go back, except in `NinePServer` and as the DAG's refusal.

## 8. What is left

1. The composition of `BoundedGhostdag` and `DagLocks`: the first with the locks of the second, if the states
   can be kept in reach.
2. `GhostdagConsensus`, once something adds blocks to it.
3. The client's tags and fids, once its requests are implemented.
